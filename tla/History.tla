------------------------------- MODULE History -------------------------------
(***************************************************************************)
(* The search history of one owner: the server's pages of handle groups    *)
(* (list_history_groups), its bounded clearing of terminal jobs            *)
(* (clear_terminal_history), and the drawer that shows the one and repeats *)
(* the other (FootprintHistoryDrawer).                                     *)
(*                                                                         *)
(* Jobs are numbered in the order in which they were accepted, so a cursor *)
(* (accepted_at, id) is a job number and a page holds the groups whose     *)
(* newest visible run is older than the cursor.  A page is the set of its  *)
(* groups: they are shown newest first, in the order of their numbers.     *)
(* Every request of the drawer has two steps, the server's transaction and *)
(* the arrival of its answer; other clients start, finish, delete and lock *)
(* jobs in between.                                                        *)
(***************************************************************************)
EXTENDS Naturals, FiniteSets, FiniteSetsExt

CONSTANTS
    N,           \* number of jobs
    Handles,     \* the handles that are searched
    PageSize,    \* groups in a page (historyPageSize)
    Batch,       \* jobs deleted by one clear request
    MaxBatches   \* clear requests of one confirmation

HistoryAssumption ==
    /\ N \in Nat \ {0} /\ PageSize \in Nat \ {0}
    /\ Batch \in Nat \ {0} /\ MaxBatches \in Nat \ {0}

VARIABLES
    handle,     \* the handle of each job
    status,     \* the status of each job
    locked,     \* the jobs other transactions have locked
    drawer,     \* the list of the drawer
    first,      \* the request for the first page
    more,       \* the request for the next page
    clear,      \* the loop that clears the history
    steady,     \* history: the representatives that have been visible, and
                \* representatives, since the first page of the list was read
    mixed       \* history: a page was appended to a list it does not continue

vars == <<handle, status, locked, drawer, first, more, clear, steady, mixed>>

Jobs == 1 .. N

\* "gone": expired or deleted, which no reader tells apart.
Statuses == {"unborn", "running", "terminal", "gone"}

NoPage == [groups |-> {}, next |-> 0]

Pages == [groups : SUBSET Jobs, next : 0 .. N]

RequestStates == {"none", "sent", "answered"}

NoClear == [pc |-> "idle", batch |-> 0, deleted |-> 0, hasMore |-> FALSE, due |-> {}]

Clears == [pc : {"idle", "sent", "answered", "done", "failed"}, batch : 0 .. MaxBatches,
           deleted : 0 .. Batch, hasMore : BOOLEAN, due : SUBSET Jobs]

TypeOK ==
    /\ handle \in [Jobs -> Handles]
    /\ status \in [Jobs -> Statuses]
    /\ locked \in SUBSET Jobs
    /\ drawer \in Pages
    /\ first \in [state : RequestStates, page : Pages]
    /\ more \in [state : RequestStates, cursor : 0 .. N, page : Pages, stale : BOOLEAN]
    /\ clear \in Clears
    /\ steady \in SUBSET Jobs
    /\ mixed \in BOOLEAN

Init ==
    /\ handle \in [Jobs -> Handles]
    /\ status = [j \in Jobs |-> "unborn"]
    /\ locked = {}
    /\ drawer = NoPage
    /\ first = [state |-> "none", page |-> NoPage]
    /\ more = [state |-> "none", cursor |-> 0, page |-> NoPage, stale |-> FALSE]
    /\ clear = NoClear
    /\ steady = {}
    /\ mixed = FALSE

-----------------------------------------------------------------------------
(* The server *)

VisibleIn(s) == {j \in Jobs : s[j] \in {"running", "terminal"}}

\* The newest visible run of each handle stands for its group.
RepresentativesIn(s) ==
    {j \in VisibleIn(s) : \A i \in VisibleIn(s) : handle[i] = handle[j] => i <= j}

\* The first n of a set, newest first.
Newest(S, n) == {j \in S : Cardinality({i \in S : i > j}) < n}

\* A page after a cursor; cursor 0 asks for the first page.
Page(cursor) ==
    LET rows == {j \in RepresentativesIn(status) : cursor = 0 \/ j < cursor}
        shown == Newest(rows, PageSize)
    IN  [groups |-> shown, next |-> IF Cardinality(rows) > PageSize THEN Min(shown) ELSE 0]

\* A job changes under other clients, workers and retention.
SetStatus(j, s) ==
    /\ status' = [status EXCEPT ![j] = s]
    /\ steady' = steady \cap RepresentativesIn(status')

Accept(j) ==
    /\ status[j] = "unborn" /\ \A i \in Jobs : i < j => status[i] # "unborn"
    /\ SetStatus(j, "running")
    /\ UNCHANGED <<handle, locked, drawer, first, more, clear, mixed>>

Finish(j) ==
    /\ status[j] = "running"
    /\ SetStatus(j, "terminal")
    /\ UNCHANGED <<handle, locked, drawer, first, more, clear, mixed>>

\* Jobs expire in the order in which they were accepted.
Expire(j) ==
    /\ status[j] \in {"running", "terminal"}
    /\ \A i \in Jobs : i < j => status[i] = "gone"
    /\ SetStatus(j, "gone")
    /\ UNCHANGED <<handle, locked, drawer, first, more, clear, mixed>>

\* Another transaction reads a terminal job FOR UPDATE, or is deleting it.
Lock(j) ==
    /\ status[j] = "terminal" /\ j \notin locked
    /\ locked' = locked \cup {j}
    /\ UNCHANGED <<handle, status, drawer, first, more, clear, steady, mixed>>

Unlock(j) ==
    /\ j \in locked
    /\ locked' = locked \ {j}
    /\ UNCHANGED <<handle, status, drawer, first, more, clear, steady, mixed>>

\* A terminal run is deleted in another tab.
DeleteElsewhere(j) ==
    /\ status[j] = "terminal" /\ j \notin locked
    /\ SetStatus(j, "gone")
    /\ UNCHANGED <<handle, locked, drawer, first, more, clear, mixed>>

\* Mutant: there is more when the batch was full.
ClearBatchFull ==
    LET batch == Newest({j \in Jobs : status[j] = "terminal" /\ j \notin locked}, Batch)
    IN
    /\ clear.pc = "sent"
    /\ status' = [j \in Jobs |-> IF j \in batch THEN "gone" ELSE status[j]]
    /\ steady' = steady \cap RepresentativesIn(status')
    /\ clear' = [clear EXCEPT !.pc = "answered", !.deleted = Cardinality(batch),
                              !.hasMore = Cardinality(batch) = Batch]
    /\ UNCHANGED <<handle, locked, drawer, first, more, mixed>>

\* One clear request: the newest terminal jobs nobody has locked are deleted;
\* has_more looks at what is left, locked or not.  An expired job is terminal
\* as well, but retention gets it anyway.
ClearBatch ==
    LET batch == Newest({j \in Jobs : status[j] = "terminal" /\ j \notin locked}, Batch)
    IN
    /\ clear.pc = "sent"
    /\ status' = [j \in Jobs |-> IF j \in batch THEN "gone" ELSE status[j]]
    /\ steady' = steady \cap RepresentativesIn(status')
    /\ clear' = [clear EXCEPT !.pc = "answered", !.deleted = Cardinality(batch),
                              !.hasMore = \E j \in Jobs : status'[j] = "terminal"]
    /\ UNCHANGED <<handle, locked, drawer, first, more, mixed>>

-----------------------------------------------------------------------------
(* The drawer *)

\* Opening the drawer, another query and every change of the history ask for
\* the first page and abort an earlier request for it, not one for more.
Reload ==
    /\ first' = [state |-> "sent", page |-> NoPage]
    /\ more' = [more EXCEPT !.stale = more.state # "none"]

Open ==
    /\ first.state = "none" /\ clear.pc = "idle"
    /\ Reload
    /\ UNCHANGED <<handle, status, locked, drawer, clear, steady, mixed>>

ReadFirst ==
    /\ first.state = "sent"
    /\ first' = [state |-> "answered", page |-> Page(0)]
    /\ steady' = RepresentativesIn(status)
    /\ UNCHANGED <<handle, status, locked, drawer, more, clear, mixed>>

ShowFirst ==
    /\ first.state = "answered"
    /\ drawer' = first.page
    /\ first' = [state |-> "none", page |-> NoPage]
    /\ mixed' = FALSE
    /\ more' = [more EXCEPT !.stale = more.state # "none"]
    /\ UNCHANGED <<handle, status, locked, clear, steady>>

\* The first page cannot be loaded: the list is empty and says so.
FirstFails ==
    /\ first.state = "sent"
    /\ drawer' = NoPage
    /\ first' = [state |-> "none", page |-> NoPage]
    /\ steady' = {} /\ mixed' = FALSE
    /\ more' = [more EXCEPT !.stale = more.state # "none"]
    /\ UNCHANGED <<handle, status, locked, clear>>

LoadMore ==
    /\ drawer.next # 0 /\ more.state = "none"
    /\ more' = [state |-> "sent", cursor |-> drawer.next, page |-> NoPage, stale |-> FALSE]
    /\ UNCHANGED <<handle, status, locked, drawer, first, clear, steady, mixed>>

ReadMore ==
    /\ more.state = "sent"
    /\ more' = [more EXCEPT !.state = "answered", !.page = Page(more.cursor)]
    /\ UNCHANGED <<handle, status, locked, drawer, first, clear, steady, mixed>>

\* The page is appended to whatever the list is now.
ShowMore ==
    /\ more.state = "answered"
    /\ drawer' = [groups |-> drawer.groups \cup more.page.groups, next |-> more.page.next]
    /\ more' = [state |-> "none", cursor |-> 0, page |-> NoPage, stale |-> FALSE]
    /\ mixed' = (mixed \/ more.stale)
    /\ UNCHANGED <<handle, status, locked, first, clear, steady>>

\* A request for more fails; the list stays as it is.
MoreFails ==
    /\ more.state = "sent"
    /\ more' = [state |-> "none", cursor |-> 0, page |-> NoPage, stale |-> FALSE]
    /\ UNCHANGED <<handle, status, locked, drawer, first, clear, steady, mixed>>

\* The owner confirms "clear all"; due are the jobs that are terminal then.
ClearAll ==
    /\ clear.pc = "idle"
    /\ clear' = [NoClear EXCEPT !.pc = "sent", !.due = {j \in Jobs : status[j] = "terminal"}]
    /\ UNCHANGED <<handle, status, locked, drawer, first, more, steady, mixed>>

\* An answer: done, or too many batches, or a batch that deleted nothing, or
\* the next batch.
ClearAnswered ==
    /\ clear.pc = "answered"
    /\ \/ /\ ~clear.hasMore
          /\ clear' = [clear EXCEPT !.pc = "done"]
          /\ Reload
       \/ /\ clear.hasMore /\ (clear.batch + 1 = MaxBatches \/ clear.deleted = 0)
          /\ clear' = [clear EXCEPT !.pc = "failed"]
          /\ UNCHANGED <<first, more>>
       \/ /\ clear.hasMore /\ clear.batch + 1 < MaxBatches /\ clear.deleted # 0
          /\ clear' = [clear EXCEPT !.pc = "sent", !.batch = @ + 1]
          /\ UNCHANGED <<first, more>>
    /\ UNCHANGED <<handle, status, locked, drawer, steady, mixed>>

\* A clear request fails.
ClearFails ==
    /\ clear.pc = "sent"
    /\ clear' = [clear EXCEPT !.pc = "failed"]
    /\ UNCHANGED <<handle, status, locked, drawer, first, more, steady, mixed>>

\* The notice is read and the button is there again.
ClearAgain ==
    /\ clear.pc \in {"done", "failed"}
    /\ clear' = NoClear
    /\ UNCHANGED <<handle, status, locked, drawer, first, more, steady, mixed>>

Loop == ClearBatch \/ ClearAnswered

Next ==
    \/ \E j \in Jobs :
          \/ Accept(j) \/ Finish(j) \/ Expire(j)
          \/ Lock(j) \/ Unlock(j) \/ DeleteElsewhere(j)
    \/ Open \/ ReadFirst \/ ShowFirst \/ FirstFails
    \/ LoadMore \/ ReadMore \/ ShowMore \/ MoreFails
    \/ ClearAll \/ Loop \/ ClearFails \/ ClearAgain

Spec == Init /\ [][Next]_vars

\* Requests are answered.
FairSpec == Spec /\ WF_vars(Loop)

-----------------------------------------------------------------------------
(* Properties *)

\* Keyset paging: a list read to its end, whose pages continue each other, has
\* every group whose newest run was there all the time.
NothingSkipped ==
    drawer.next = 0 /\ first.state = "none" /\ more.state = "none" /\ ~mixed
    => steady \subseteq drawer.groups

\* When the drawer says the history is cleared, every job that was terminal
\* when the owner confirmed is gone.
ClearedIsGone ==
    clear.pc = "done" => \A j \in clear.due : status[j] = "gone"

\* The loop ends, whatever other transactions keep locked.
ClearEnds == clear.pc = "sent" ~> clear.pc \in {"done", "failed"}

================================================================================
