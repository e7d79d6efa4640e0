------------------------------- MODULE JobPage -------------------------------
(***************************************************************************)
(* The page of one discovery job in the browser (FootprintJobExperience)   *)
(* against the server.  A refresh asks for the job, then for its           *)
(* candidates, and, when the job has a report, for brief and evidence; it  *)
(* schedules the next refresh, retries what may pass, or stops.  The owner *)
(* stops the search or chooses the starting profile meanwhile; the answer  *)
(* replaces the job shown and starts a new polling loop, the old one goes  *)
(* on until React has rendered.                                            *)
(*                                                                         *)
(* A request is one step of the server and a later arrival of its answer.  *)
(* Any answer may be a failure: of the network (transient), or one that    *)
(* is not worth a retry.                                                   *)
(***************************************************************************)
EXTENDS Naturals

CONSTANTS
    MaxRetries,   \* maxTransientRetries
    MaxFound      \* bound: candidates the search finds

JobPageAssumption == MaxRetries \in Nat /\ MaxFound \in Nat

VARIABLES
    server,   \* the job as the server has it
    readable, \* whether reads of reports are enabled
    page,     \* what the page shows
    poll,     \* the polling loop
    act       \* the request of the owner's click

vars == <<server, readable, page, poll, act>>

Terminal == {"report", "closed"}

States == {"active", "awaiting"} \cup Terminal

\* The answer to a request: a state, or why there is none.
Errors == {"missing", "transient", "refused"}

Shown == States \cup {"nothing"}

TypeOK ==
    /\ server \in [state : States \cup {"missing"}, found : 0 .. MaxFound]
    /\ readable \in BOOLEAN
    /\ page \in [job : Shown, candidates : 0 .. MaxFound, brief : BOOLEAN, waiting : BOOLEAN,
                 stopped : BOOLEAN, error : BOOLEAN, selecting : BOOLEAN, stopping : BOOLEAN]
    /\ poll \in [pc : {"idle", "job", "candidates", "brief"}, answered : BOOLEAN,
                 answer : Shown \cup Errors, found : 0 .. MaxFound, current : Shown,
                 retries : 0 .. MaxRetries, restart : BOOLEAN]
    /\ act \in [kind : {"none", "stop", "choose"}, answered : BOOLEAN,
                answer : Shown \cup Errors \cup {"unavailable"}]

NoPoll == [pc |-> "idle", answered |-> FALSE, answer |-> "nothing", found |-> 0,
           current |-> "nothing", retries |-> 0, restart |-> FALSE]

NewPoll == [NoPoll EXCEPT !.pc = "job"]

NoAct == [kind |-> "none", answered |-> FALSE, answer |-> "nothing"]

Init ==
    /\ server = [state |-> "active", found |-> 0]
    /\ readable = TRUE
    /\ page = [job |-> "nothing", candidates |-> 0, brief |-> FALSE, waiting |-> FALSE,
               stopped |-> FALSE, error |-> FALSE, selecting |-> FALSE, stopping |-> FALSE]
    /\ poll = NewPoll
    /\ act = NoAct

-----------------------------------------------------------------------------
(* The server *)

ServerOnly == UNCHANGED <<page, poll, act>>

Find ==
    /\ server.state = "active" /\ server.found < MaxFound
    /\ server' = [server EXCEPT !.found = @ + 1]
    /\ ServerOnly /\ UNCHANGED readable

\* The search waits for the owner's choice once, goes on when the window
\* closes, and ends.
Await ==
    /\ server.state = "active" /\ server.found > 0
    /\ server' = [server EXCEPT !.state = "awaiting"]
    /\ ServerOnly /\ UNCHANGED readable

WindowCloses ==
    /\ server.state = "awaiting"
    /\ server' = [server EXCEPT !.state = "active"]
    /\ ServerOnly /\ UNCHANGED readable

End(state) ==
    /\ server.state = "active" /\ state \in Terminal
    /\ server' = [server EXCEPT !.state = state]
    /\ ServerOnly /\ UNCHANGED readable

\* The job expires, or a finished one is deleted elsewhere.
Vanish ==
    /\ server.state # "missing"
    /\ server' = [server EXCEPT !.state = "missing"]
    /\ ServerOnly /\ UNCHANGED readable

\* The kill switch for reports.
SwitchReads ==
    /\ readable' = ~readable
    /\ ServerOnly /\ UNCHANGED server

-----------------------------------------------------------------------------
(* The polling loop *)

Asked(answer, found) ==
    /\ poll' = [poll EXCEPT !.answered = TRUE, !.answer = answer, !.found = found]
    /\ UNCHANGED <<server, readable, page, act>>

\* The server answers the request the loop waits for.  Candidates and job are
\* read by different requests.
ServePoll ==
    /\ poll.pc # "idle" /\ ~poll.answered
    /\ IF poll.pc = "brief" /\ ~readable THEN Asked("missing", 0)
       ELSE Asked(server.state, server.found)

Unanswered ==
    /\ poll.pc # "idle" /\ ~poll.answered
    /\ \E e \in {"transient", "refused"} : Asked(e, 0)

Ask(p, pc) == [p EXCEPT !.pc = pc, !.answered = FALSE, !.answer = "nothing", !.found = 0]

\* No further refresh is scheduled.
Rest(p) == [NoPoll EXCEPT !.restart = p.restart]

Received(pc) == poll.pc = pc /\ poll.answered

\* handleRefreshFailure: a missing job ends the loop, a failure that may pass is
\* retried a bounded number of times.
FailRefresh ==
    \/ /\ poll.answer = "transient" /\ poll.retries < MaxRetries
       /\ poll' = [Ask(poll, "job") EXCEPT !.retries = @ + 1]
       /\ page' = [page EXCEPT !.stopped = FALSE, !.error = TRUE]
    \/ /\ poll.answer = "transient" => poll.retries = MaxRetries
       /\ poll' = Rest(poll)
       /\ page' = [page EXCEPT !.stopped = TRUE, !.error = TRUE,
                               !.waiting = @ /\ poll.answer # "missing"]

RefreshFails ==
    /\ Received("job") \/ Received("candidates")
    /\ poll.answer \in Errors
    /\ FailRefresh
    /\ UNCHANGED <<server, readable, act>>

ShowJob ==
    /\ Received("job") /\ poll.answer \in States
    /\ page' = [page EXCEPT !.job = poll.answer, !.stopped = FALSE]
    /\ poll' = [Ask(poll, "candidates") EXCEPT !.current = poll.answer]
    /\ UNCHANGED <<server, readable, act>>

\* Mutant: the candidates say when the search is over.
ShowCandidatesAndEnd ==
    /\ Received("candidates") /\ poll.answer \in States
    /\ page' = [page EXCEPT !.candidates = poll.found, !.error = FALSE,
                            !.waiting = poll.answer = "report"]
    /\ poll' = CASE poll.answer \notin Terminal -> [Ask(poll, "job") EXCEPT !.retries = 0]
                 [] poll.answer = "report"      -> [Ask(poll, "brief") EXCEPT !.retries = 0]
                 [] OTHER                       -> Rest(poll)
    /\ UNCHANGED <<server, readable, act>>

\* The answer says what goes on, not what the server has by now.
ShowCandidates ==
    /\ Received("candidates") /\ poll.answer \in States
    /\ page' = [page EXCEPT !.candidates = poll.found, !.error = FALSE,
                            !.waiting = poll.current = "report"]
    /\ poll' = CASE poll.current \notin Terminal -> [Ask(poll, "job") EXCEPT !.retries = 0]
                 [] poll.current = "report"      -> [Ask(poll, "brief") EXCEPT !.retries = 0]
                 [] OTHER                        -> Rest(poll)
    /\ UNCHANGED <<server, readable, act>>

ShowBrief ==
    /\ Received("brief") /\ poll.answer \in States
    /\ page' = [page EXCEPT !.brief = TRUE, !.waiting = FALSE, !.error = FALSE]
    /\ poll' = Rest(poll)
    /\ UNCHANGED <<server, readable, act>>

\* A report that is withdrawn is said so; other failures are those of a refresh.
BriefFails ==
    /\ Received("brief") /\ poll.answer \in Errors
    /\ \/ /\ poll.answer = "missing"
          /\ page' = [page EXCEPT !.waiting = FALSE, !.error = TRUE]
          /\ poll' = Rest(poll)
       \/ poll.answer # "missing" /\ FailRefresh
    /\ UNCHANGED <<server, readable, act>>

\* React has rendered: the old loop is not active any more, a new one begins.
Render ==
    /\ poll.restart
    /\ poll' = NewPoll
    /\ UNCHANGED <<server, readable, page, act>>

-----------------------------------------------------------------------------
(* The owner *)

ClickStop ==
    /\ page.job \in {"active", "awaiting"} /\ ~page.stopping /\ ~page.selecting
    /\ page' = [page EXCEPT !.stopping = TRUE]
    /\ act' = [NoAct EXCEPT !.kind = "stop"]
    /\ UNCHANGED <<server, readable, poll>>

\* Candidates can be chosen while the page shows that the search waits.
ClickChoose ==
    /\ page.job = "awaiting" /\ page.candidates > 0 /\ ~page.stopping /\ ~page.selecting
    /\ page' = [page EXCEPT !.selecting = TRUE]
    /\ act' = [NoAct EXCEPT !.kind = "choose"]
    /\ UNCHANGED <<server, readable, poll>>

Acted(answer) == act' = [act EXCEPT !.answered = TRUE, !.answer = answer]

\* cancel_footprint_job: a finished job is returned as it is.
ServeStop ==
    /\ act.kind = "stop" /\ ~act.answered
    /\ IF server.state \in {"active", "awaiting"}
       THEN server' = [server EXCEPT !.state = "closed"] /\ Acted("closed")
       ELSE Acted(server.state) /\ UNCHANGED server
    /\ UNCHANGED <<readable, page, poll>>

\* select_footprint_anchor.
ServeChoose ==
    /\ act.kind = "choose" /\ ~act.answered
    /\ CASE server.state = "awaiting" -> server' = [server EXCEPT !.state = "active"] /\ Acted("active")
         [] server.state = "active"   -> Acted("unavailable") /\ UNCHANGED server
         [] server.state = "missing"  -> Acted("missing") /\ UNCHANGED server
         [] OTHER                     -> Acted("refused") /\ UNCHANGED server
    /\ UNCHANGED <<readable, page, poll>>

ActUnanswered ==
    /\ act.kind # "none" /\ ~act.answered
    /\ Acted("transient")
    /\ UNCHANGED <<server, readable, page, poll>>

\* The answer to a stop: the job it returns replaces the one shown.  A failure
\* polls anew as well.
ShowStopped ==
    /\ act.kind = "stop" /\ act.answered
    /\ page' = [page EXCEPT !.stopping = FALSE, !.stopped = FALSE,
                            !.job = IF act.answer \in States THEN act.answer ELSE @]
    /\ poll' = [poll EXCEPT !.restart = TRUE]
    /\ act' = NoAct
    /\ UNCHANGED <<server, readable>>

\* The answer to a choice.  One that came too late shows the search as running
\* again; any other error is shown and nothing else happens.
ShowChosen ==
    /\ act.kind = "choose" /\ act.answered
    /\ \/ /\ act.answer \in States
          /\ page' = [page EXCEPT !.selecting = FALSE, !.job = act.answer, !.stopped = FALSE]
          /\ poll' = [poll EXCEPT !.restart = TRUE]
       \/ /\ act.answer = "unavailable"
          /\ page' = [page EXCEPT !.selecting = FALSE, !.stopped = FALSE,
                                  !.job = IF @ = "awaiting" THEN "active" ELSE @]
          /\ poll' = [poll EXCEPT !.restart = TRUE]
       \/ /\ act.answer \in Errors
          /\ page' = [page EXCEPT !.selecting = FALSE]
          /\ UNCHANGED poll
    /\ act' = NoAct
    /\ UNCHANGED <<server, readable>>

Serve == Find \/ Await \/ WindowCloses \/ \E s \in Terminal : End(s)

Loop ==
    \/ ServePoll \/ RefreshFails \/ ShowJob \/ ShowCandidates
    \/ ShowBrief \/ BriefFails \/ Render

Answer == ServeStop \/ ServeChoose \/ ShowStopped \/ ShowChosen

Trouble == Unanswered \/ ActUnanswered

Next ==
    \/ Serve \/ Vanish \/ SwitchReads
    \/ Loop \/ Answer \/ Trouble
    \/ ClickStop \/ ClickChoose

Spec == Init /\ [][Next]_vars

\* Requests are answered and answers handled; from some time on no request
\* fails, and the owner does not choose for ever.
FairSpec ==
    /\ Spec
    /\ WF_vars(Loop) /\ WF_vars(Answer)
    /\ <>[][~Trouble /\ ~ClickChoose /\ ~ClickStop]_vars

-----------------------------------------------------------------------------
(* Properties *)

Quiet == poll = NoPoll /\ act = NoAct /\ ~page.stopped

\* When the page has come to rest it shows the job as it ended, with the
\* candidates of its end and the brief or an error (or the job is gone).
RestsOnTheEnd ==
    Quiet => \/ server.state = "missing"
             \/ /\ page.job = server.state /\ server.state \in Terminal
                /\ page.candidates = server.found
                /\ ~page.waiting
                /\ page.job = "report" => page.brief \/ page.error

\* Whatever fails on the way, a page whose job has ended comes to rest, or says
\* that it gave up.
PageSettles ==
    server.state \in Terminal \cup {"missing"} ~> poll = NoPoll /\ act = NoAct

================================================================================
