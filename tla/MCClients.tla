------------------------------- MODULE MCClients -------------------------------
(***************************************************************************)
(* An owner's clients, for TLC: the requests that create, reuse, refresh   *)
(* and delete jobs, the history drawer, and the page of a job.  The models *)
(* share no state, so each behaviour moves one of them and leaves the      *)
(* others as they start.  In the drawer the owner either reads page after  *)
(* page or clears the history; what clearing does to a list, deletions in  *)
(* other tabs and opening the drawer anew do as well.                      *)
(***************************************************************************)
EXTENDS Naturals, FiniteSets, TLC

CONSTANTS
    q1, q2, k1, k2,
    Requests, Keys, MaxJobs,
    h1, h2,
    Handles,
    N, PageSize, Batch, MaxBatches,
    MaxRetries, MaxFound

VARIABLES
    part,                                     \* the component that moves
    job, record, answered, request,           \* Admission
    handle, status, locked, drawer, first, more, clear, steady, mixed,   \* History
    server, readable, page, poll, act         \* JobPage

Requested == INSTANCE Admission
Drawer == INSTANCE History
JobView == INSTANCE JobPage

ASSUME ClientsAssumption ==
    /\ Requested!AdmissionAssumption
    /\ Drawer!HistoryAssumption
    /\ JobView!JobPageAssumption

requestVars == <<job, record, answered, request>>
drawerVars == <<handle, status, locked, drawer, first, more, clear, steady, mixed>>
pageVars == <<server, readable, page, poll, act>>
vars == <<part, requestVars, drawerVars, pageVars>>

Init ==
    /\ part \in {"requests", "waits", "list", "clear", "page"}
    /\ Requested!Init /\ Drawer!Init /\ JobView!Init
    /\ part # "list" => \A j \in Drawer!Jobs : handle[j] = h1

\* Bound of the liveness of requests: the last job is never created.
LastJobSpared ==
    Cardinality({q \in Requests : request[q].pc # "idle" /\ request[q].kind # "delete"})
      < Cardinality(Requested!Unborn)

OnlyRequests == UNCHANGED <<part, drawerVars, pageVars>>
OnlyDrawer == UNCHANGED <<part, requestVars, pageVars>>
OnlyPage == UNCHANGED <<part, requestVars, drawerVars>>

Next ==
    \/ part = "requests" /\ Requested!Next /\ OnlyRequests
    \/ part = "waits" /\ Requested!Next /\ LastJobSpared' /\ OnlyRequests
    \/ part = "list" /\ Drawer!Next /\ UNCHANGED <<locked, clear>> /\ OnlyDrawer
    \/ part = "clear" /\ Drawer!Next /\ more' = more /\ OnlyDrawer
    \/ part = "page" /\ JobView!Next /\ OnlyPage

\* The fairness of the one that moves: FairSpec of Admission, History, JobPage.
FairSpec ==
    /\ Init /\ [][Next]_vars
    /\ \A q \in Requests : SF_vars(part = "waits" /\ Requested!Step(q) /\ OnlyRequests)
    /\ WF_vars(part = "clear" /\ Drawer!Loop /\ OnlyDrawer)
    /\ WF_vars(part = "page" /\ JobView!Loop /\ OnlyPage)
    /\ WF_vars(part = "page" /\ JobView!Answer /\ OnlyPage)
    /\ <>[][part = "page" => ~JobView!Trouble /\ ~JobView!ClickChoose /\ ~JobView!ClickStop]_vars

-----------------------------------------------------------------------------
\* Requests that race for a key, a result or a job agree on one: whoever repeats
\* a request while its job exists is answered with that job, two that prefer an
\* existing result create one job, and no idempotency record or refresh names a
\* job that was deleted meanwhile (create_footprint_job, delete_locked_job).
RequestsAgree ==
    /\ Requested!TypeOK
    /\ Requested!OneJobPerKey /\ Requested!NoTwins
    /\ Requested!RecordsOfLiveJobs /\ Requested!LineageIsLive

\* What the drawer tells the owner is so: a list read to its end has every group
\* that was there all the time, and "cleared" means that every finished job of
\* the moment the owner confirmed is gone (list_history, clear_history).
DrawerTellsTheTruth ==
    Drawer!TypeOK /\ Drawer!NothingSkipped /\ Drawer!ClearedIsGone

\* A page at rest shows the end of its job, with all candidates and the brief,
\* whatever answers were overtaken on the way (FootprintJobExperience).
RestsOnTheEnd == JobView!TypeOK /\ JobView!RestsOnTheEnd

\* Nobody waits for ever: not a request for the locks others hold, not the loop
\* that clears the history for jobs that stay locked, not the page for answers
\* that fail.
EveryoneComesToRest ==
    /\ part = "waits" => Requested!EveryRequestEnds
    /\ Drawer!ClearEnds
    /\ JobView!PageSettles

================================================================================
