------------------------------- MODULE Admission -------------------------------
(***************************************************************************)
(* Requests of one owner that create, reuse, refresh and delete discovery  *)
(* jobs of one seed with one set of settings, as PostgreSQL transactions:  *)
(* idempotency keys under a unique constraint, the advisory lock of the    *)
(* history key, row locks, savepoints, and the deadlock detector.          *)
(*                                                                         *)
(* A row lock is held until its transaction ends.  What a request has      *)
(* written but not committed is in its own record.                         *)
(***************************************************************************)
EXTENDS FiniteSets, Integers

CONSTANTS
    Requests,        \* requests the API serves at a time
    Keys,            \* idempotency keys
    MaxJobs          \* bound: jobs created in all

AdmissionAssumption ==
    /\ IsFiniteSet(Requests)
    /\ Keys # {}
    /\ MaxJobs \in Nat

VARIABLES
    job,             \* the search_job table, by age
    record,          \* the idempotency_record table, by key
    answered,        \* history: by key, the jobs its requests were answered with,
                     \* as long as they exist
    request

vars == <<job, record, answered, request>>

Jobs == 1 .. MaxJobs

Kinds == {"create", "prefer", "refresh", "delete"}

\* "ready": over, with a report that may be read.
JobStates == {"unborn", "active", "ready", "gone"}

JobRows == [state : JobStates, refreshOf : Jobs \cup {0}, by : Kinds \cup {"blind"}]

\* The hash of the payload tells kind and source of a request apart.
NoRecord == [job |-> 0, kind |-> "create", source |-> 0]

Records == [job : Jobs \cup {0}, kind : Kinds, source : Jobs \cup {0}]

Idle == [pc |-> "idle", kind |-> "create", key |-> CHOOSE k \in Keys : TRUE, source |-> 0,
         held |-> {}, todo |-> {}, advisory |-> FALSE, claim |-> FALSE, hit |-> 0,
         blind |-> FALSE]

RequestRows == [pc : {"idle", "lookup", "source", "history", "rows", "claim", "commit",
                      "replay", "target", "lineage", "erase"},
                kind : Kinds, key : Keys, source : Jobs \cup {0},
                held : SUBSET Jobs, todo : SUBSET Jobs,
                advisory : BOOLEAN, claim : BOOLEAN, hit : Jobs \cup {0}, blind : BOOLEAN]

TypeOK ==
    /\ job \in [Jobs -> JobRows]
    /\ record \in [Keys -> Records]
    /\ answered \in [Keys -> SUBSET Jobs]
    /\ request \in [Requests -> RequestRows]

Init ==
    /\ job = [j \in Jobs |-> [state |-> "unborn", refreshOf |-> 0, by |-> "create"]]
    /\ record = [k \in Keys |-> NoRecord]
    /\ answered = [k \in Keys |-> {}]
    /\ request = [q \in Requests |-> Idle]

-----------------------------------------------------------------------------
(* Locks *)

Latest(S) == CHOOSE j \in S : \A i \in S : i <= j

Live(j) == j \in Jobs /\ job[j].state \in {"active", "ready"}

RowFree(q, j) == \A p \in Requests \ {q} : j \notin request[p].held

AdvisoryFree(q) == \A p \in Requests \ {q} : ~request[p].advisory

\* The record of a key is being written or erased by another transaction.
KeyHolders(k) ==
    {p \in Requests :
        \/ request[p].claim /\ request[p].key = k
        \/ request[p].pc = "erase" /\ record[k].job = request[p].source}

\* The rows, the advisory lock or the key the next step of q waits for.
WaitsFor(q) ==
    LET r == request[q]
        Owners(j) == {p \in Requests \ {q} : j \in request[p].held}
    IN
    CASE r.pc \in {"source", "target"}              -> Owners(r.source)
      [] r.pc = "history"                           -> {p \in Requests \ {q} : request[p].advisory}
      [] r.pc = "rows" /\ r.todo # {}               -> Owners(Latest(r.todo))
      [] r.pc = "lineage"                           -> UNION {Owners(j) : j \in r.todo}
      [] r.pc = "claim"                             -> KeyHolders(r.key) \ {q}
      [] OTHER                                      -> {}

\* Every member waits for another member: PostgreSQL aborts one of them.
Deadlocked(S) == S # {} /\ \A q \in S : WaitsFor(q) \cap S # {}

-----------------------------------------------------------------------------
(* Requests *)

Set(q, r) == request' = [request EXCEPT ![q] = r]

\* Mutant: the session is not closed when the request ends.
EndedKeepsLocks(r) == [r EXCEPT !.pc = "idle"]

\* The transaction ends and its locks with it.
Ended(r) == Idle

Unborn == {j \in Jobs : job[j].state = "unborn"}

\* Bound: every request under way has a job it may still create.
Begin(q, kind, key, source) ==
    /\ request[q].pc = "idle"
    /\ Cardinality({p \in Requests : request[p].pc # "idle"}) < Cardinality(Unborn)
       \/ kind = "delete"
    /\ (kind \in {"refresh", "delete"}) = (source # 0)
    /\ source # 0 => job[source].state # "unborn"
    /\ Set(q, [request[q] EXCEPT !.kind = kind, !.key = key, !.source = source,
                                 !.pc = CASE kind = "refresh" -> "source"
                                          [] kind = "delete"  -> "target"
                                          [] OTHER            -> "lookup"])
    /\ UNCHANGED <<job, record, answered>>

\* owner_footprint_job with FOR UPDATE, of a refresh.
LockSource(q) ==
    LET r == request[q] IN
    /\ r.pc = "source"
    /\ \/ ~Live(r.source) /\ Set(q, Ended(r))
       \/ /\ Live(r.source) /\ RowFree(q, r.source)
          /\ Set(q, [r EXCEPT !.pc = "lookup", !.held = {r.source}])
    /\ UNCHANGED <<job, record, answered>>

\* _idempotent_footprint_job: the answer a recorded key has, or a conflict.
Recorded(q) == record[request[q].key].job # 0

SamePayload(q) ==
    LET k == request[q].key
    IN  record[k].kind = request[q].kind /\ record[k].source = request[q].source

Answer(q, j) ==
    answered' = [answered EXCEPT ![request[q].key] = @ \cup {j}]

Lookup(q) ==
    LET r == request[q] IN
    /\ r.pc = "lookup"
    /\ \/ /\ Recorded(q)
          /\ Set(q, Ended(r))
          /\ IF SamePayload(q) THEN Answer(q, record[r.key].job) ELSE UNCHANGED answered
       \/ /\ ~Recorded(q)
          /\ Set(q, [r EXCEPT !.pc = IF r.kind = "prefer" THEN "history" ELSE "claim"])
          /\ UNCHANGED answered
    /\ UNCHANGED <<job, record>>

\* _latest_compatible_history_job: its snapshot is taken once the advisory
\* lock is granted.
\* Mutant: the decision is not serialized.
LockHistoryUnserialized(q) ==
    /\ request[q].pc = "history"
    /\ Set(q, [request[q] EXCEPT !.pc = "rows", !.todo = {j \in Jobs : Live(j)}])
    /\ UNCHANGED <<job, record, answered>>

LockHistory(q) ==
    /\ request[q].pc = "history"
    /\ AdvisoryFree(q)
    /\ Set(q, [request[q] EXCEPT !.pc = "rows", !.advisory = TRUE,
                                 !.todo = {j \in Jobs : Live(j)}])
    /\ UNCHANGED <<job, record, answered>>

\* FOR UPDATE locks the newest row first; a row deleted meanwhile is left out.
LockRow(q) ==
    LET r == request[q]
        j == Latest(r.todo)
    IN
    /\ r.pc = "rows" /\ r.todo # {}
    /\ \/ ~Live(j) /\ Set(q, [r EXCEPT !.todo = @ \ {j}])
       \/ /\ Live(j) /\ RowFree(q, j)
          /\ Set(q, [r EXCEPT !.todo = @ \ {j}, !.held = @ \cup {j}])
    /\ UNCHANGED <<job, record, answered>>

\* Every compatible row is locked: the newest is the answer, if there is one.
Choose(q) ==
    LET r == request[q] IN
    /\ r.pc = "rows" /\ r.todo = {}
    /\ Set(q, [r EXCEPT !.pc = "claim", !.hit = IF r.held = {} THEN 0 ELSE Latest(r.held)])
    /\ UNCHANGED <<job, record, answered>>

\* The lookup fails: its savepoint gives back its locks and the job is created
\* as if there were no history.
GiveUpLookup(q) ==
    Set(q, [request[q] EXCEPT !.pc = "claim", !.blind = TRUE, !.advisory = FALSE,
                              !.held = {}, !.todo = {}])

LookupFails(q) ==
    /\ request[q].pc \in {"history", "rows"}
    /\ GiveUpLookup(q)
    /\ UNCHANGED <<job, record, answered>>

\* The service is switched off, or the catalog exceeds its shard budget.
Refuse(q) ==
    /\ request[q].pc = "claim" /\ request[q].hit = 0
    /\ Set(q, Ended(request[q]))
    /\ UNCHANGED <<job, record, answered>>

\* The flush of the record: the unique constraint waits for another writer of
\* the key, and refuses a key that is taken.
Claim(q) ==
    LET r == request[q] IN
    /\ r.pc = "claim"
    /\ KeyHolders(r.key) \ {q} = {}
    /\ \/ ~Recorded(q) /\ Set(q, [r EXCEPT !.pc = "commit", !.claim = TRUE])
       \/ Recorded(q) /\ Set(q, [Ended(r) EXCEPT !.pc = "replay", !.kind = r.kind,
                                                 !.key = r.key, !.source = r.source])
    /\ UNCHANGED <<job, record, answered>>

Commit(q) ==
    LET r == request[q]
        new == CHOOSE j \in Unborn : \A i \in Unborn : j <= i
        j == IF r.hit # 0 THEN r.hit ELSE new
    IN
    /\ r.pc = "commit"
    /\ job' = IF r.hit # 0 THEN job
              ELSE [job EXCEPT ![new] = [state |-> "active",
                                         refreshOf |-> r.source,
                                         by |-> IF r.blind THEN "blind" ELSE r.kind]]
    /\ record' = [record EXCEPT ![r.key] = [job |-> j, kind |-> r.kind, source |-> r.source]]
    /\ Answer(q, j)
    /\ Set(q, Ended(r))

\* After the rollback: the winner's answer, or the integrity error when the
\* winner is gone already.
Replay(q) ==
    LET r == request[q] IN
    /\ r.pc = "replay"
    /\ IF Recorded(q) /\ SamePayload(q) THEN Answer(q, record[r.key].job) ELSE UNCHANGED answered
    /\ Set(q, Ended(r))
    /\ UNCHANGED <<job, record>>

-----------------------------------------------------------------------------
(* delete_job, delete_locked_job *)

LockTarget(q) ==
    LET r == request[q] IN
    /\ r.pc = "target"
    /\ \/ ~Live(r.source) /\ Set(q, Ended(r))
       \/ /\ Live(r.source) /\ RowFree(q, r.source)
          /\ Set(q, [r EXCEPT !.pc = "lineage", !.held = {r.source},
                              !.todo = {j \in Jobs : Live(j) /\ job[j].refreshOf = r.source}])
    /\ UNCHANGED <<job, record, answered>>

\* The UPDATE of the jobs that were refreshed from it.
LockLineage(q) ==
    LET r == request[q] IN
    /\ r.pc = "lineage"
    /\ \/ /\ r.todo = {}
          /\ Set(q, [r EXCEPT !.pc = "erase"])
       \/ \E j \in r.todo :
            /\ ~Live(j) \/ RowFree(q, j)
            /\ Set(q, [r EXCEPT !.todo = @ \ {j},
                                !.held = IF Live(j) THEN @ \cup {j} ELSE @])
    /\ UNCHANGED <<job, record, answered>>

\* The row of a deleted job is empty; only its tombstone remains.
Gone == [state |-> "gone", refreshOf |-> 0, by |-> "create"]

Forget(j) == answered' = [k \in Keys |-> answered[k] \ {j}]

Erase(q) ==
    LET s == request[q].source IN
    /\ request[q].pc = "erase"
    /\ job' = [j \in Jobs |-> IF j = s THEN Gone
                              ELSE IF j \in request[q].held THEN [job[j] EXCEPT !.refreshOf = 0]
                              ELSE job[j]]
    /\ record' = [k \in Keys |-> IF record[k].job = s THEN NoRecord ELSE record[k]]
    /\ Set(q, Ended(request[q]))
    /\ Forget(s)

-----------------------------------------------------------------------------
(* The database and the workers *)

\* The victim of a deadlock: a lookup goes on without the history, any other
\* request fails.
BreakDeadlock(q) ==
    /\ \E S \in SUBSET Requests : q \in S /\ Deadlocked(S)
    /\ IF request[q].pc \in {"history", "rows"} THEN GiveUpLookup(q)
       ELSE Set(q, Ended(request[q]))
    /\ UNCHANGED <<job, record, answered>>

\* A worker finishes a job; it needs the row.
Finish(j) ==
    /\ job[j].state = "active"
    /\ \A p \in Requests : j \notin request[p].held
    /\ job' = [job EXCEPT ![j].state = "ready"]
    /\ UNCHANGED <<record, answered, request>>

Step(q) ==
    \/ LockSource(q) \/ Lookup(q)
    \/ LockHistory(q) \/ LockRow(q) \/ Choose(q)
    \/ Claim(q) \/ Commit(q) \/ Replay(q)
    \/ LockTarget(q) \/ LockLineage(q) \/ Erase(q)
    \/ BreakDeadlock(q)

Next ==
    \/ \E q \in Requests :
          \/ \E kind \in Kinds, key \in Keys, source \in Jobs \cup {0} : Begin(q, kind, key, source)
          \/ Step(q)
          \/ LookupFails(q) \/ Refuse(q)
    \/ \E j \in Jobs : Finish(j)

Spec == Init /\ [][Next]_vars

\* PostgreSQL grants a lock in the order of the requests for it, so a request
\* that can go on again and again does.
FairSpec == Spec /\ \A q \in Requests : SF_vars(Step(q))

-----------------------------------------------------------------------------
(* Properties *)

\* A key has one job: whoever repeats a request while its job exists is
\* answered with that job (create_footprint_job, _idempotent_footprint_job).
OneJobPerKey == \A k \in Keys : Cardinality({j \in answered[k] : Live(j)}) <= 1

\* Two requests that prefer an existing result never create two active jobs,
\* unless the lookup failed (_lock_compatible_history_key).
NoTwins ==
    \A i, j \in Jobs :
       /\ job[i].state = "active" /\ job[i].by = "prefer"
       /\ job[j].state = "active" /\ job[j].by = "prefer"
       => i = j

\* docs/privacy.md: deletion removes the idempotency state; and what is left
\* points to jobs that exist, so no request meets a foreign key error.
RecordsOfLiveJobs == \A k \in Keys : record[k].job # 0 => Live(record[k].job)

LineageIsLive == \A j \in Jobs : Live(j) /\ job[j].refreshOf # 0 => Live(job[j].refreshOf)

\* No request waits for ever, although requests lock jobs and keys in
\* different orders.
EveryRequestEnds == \A q \in Requests : request[q].pc # "idle" ~> request[q].pc = "idle"

================================================================================
