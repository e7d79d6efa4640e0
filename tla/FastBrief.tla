------------------------------- MODULE FastBrief -------------------------------
(***************************************************************************)
(* One job of the eligibility-gated Fast Brief flow: its provider runs,    *)
(* finalization, and what may revoke the permission it runs under: the     *)
(* expiry of the eligibility, a suppression of the profile, the provider   *)
(* switch, the deletion of the job.                                        *)
(*                                                                         *)
(* A transaction is one action.  Unlike the discovery workers, this flow   *)
(* locks a run with its first read, so a lease is computed from the row as *)
(* it is.  The provider call runs between two transactions, and            *)
(* finalization follows the result in a third.                             *)
(***************************************************************************)
EXTENDS Naturals

CONSTANTS
    Workers,
    JobTime,         \* ticks from acceptance to collection_cutoff_at
    LeaseTime,       \* ticks of a lease
    Redeliveries,    \* bound: how often the broker delivers a message once more
    Generations      \* bound: how often one run is leased

ASSUME BriefAssumption ==
    /\ JobTime \in Nat \ {0} /\ LeaseTime \in Nat \ {0}
    /\ Redeliveries \in Nat /\ Generations \in Nat

\* The fixture provider links a second profile; the live provider, GitHub, is
\* bound to an account and does not.
Runs == {"primary", "linked"}

VARIABLES
    db,              \* the rows of the job
    policy,          \* what get_valid_eligibility, is_suppressed and the switch answer
    broker,          \* the runs whose task waits, the redeliveries left
    worker

vars == <<db, policy, broker, worker>>

-----------------------------------------------------------------------------
(* Rows *)

WaitingStates == {"pending", "retry_scheduled"}

\* timeout, rate_limited and the other failures differ from provider_error in
\* wording only.
OutcomeStates == {"success", "no_result", "provider_error"}

SettledStates == OutcomeStates \cup {"cancelled", "closed_at_finalization"}

RunStates == {"absent", "running"} \cup WaitingStates \cup SettledStates

ReportedStates == {"ready", "ready_partial", "insufficient_evidence"}

\* "deleted": the SearchJob row is gone and its tombstone remains.
ClosedStates == ReportedStates \cup {"policy_blocked", "deleted"}

JobStates == {"queued", "running"} \cup ClosedStates

Rows == [github   : BOOLEAN,
         status   : JobStates,
         epoch    : Nat,
         left     : Nat,
         run      : [Runs -> [status : RunStates, gen : Nat, lease : Nat]],
         attempts : SUBSET [run : Runs, gen : Nat \ {0},
                            status : {"running", "finished", "discarded"}],
         outbox   : SUBSET [run : Runs, gen : Nat \ {0}, sent : BOOLEAN],
         evidence : SUBSET Runs,
         reports  : SUBSET [evidence : SUBSET Runs, access : {"active", "revoked"}]]

Idle == [pc |-> "idle"]

WorkerStates == {Idle, [pc |-> "finalizing"]}
                \cup [pc : {"working"}, run : Runs, gen : Nat, epoch : Nat]

TypeOK ==
    /\ db \in Rows
    /\ policy \in [eligible : BOOLEAN, suppressed : BOOLEAN, enabled : BOOLEAN]
    /\ broker \in [queue : SUBSET Runs, again : Nat]
    /\ worker \in [Workers -> WorkerStates]

Message(r, g) == [run |-> r, gen |-> g, sent |-> FALSE]

NewRun(st) == [status |-> st, gen |-> 0, lease |-> 0]

\* The rows create_job commits.
AcceptedJob(github) ==
    [github   |-> github,
     status   |-> "queued",
     epoch    |-> 1,
     left     |-> JobTime,
     run      |-> [r \in Runs |-> NewRun(IF r = "primary" THEN "pending" ELSE "absent")],
     attempts |-> {},
     outbox   |-> {Message("primary", 1)},
     evidence |-> {},
     reports  |-> {}]

Init ==
    /\ \E github \in BOOLEAN : db = AcceptedJob(github)
    /\ policy = [eligible |-> TRUE, suppressed |-> FALSE, enabled |-> TRUE]
    /\ broker = [queue |-> {}, again |-> Redeliveries]
    /\ worker = [w \in Workers |-> Idle]

Goto(w, state) == worker' = [worker EXCEPT ![w] = state]

Closed(d) == d.status \in ClosedStates

Settled(d, r) == d.run[r].status \in {"absent"} \cup SettledStates

Permitted == policy.eligible /\ ~policy.suppressed /\ (db.github => policy.enabled)

-----------------------------------------------------------------------------
(* Functions on the rows, each inside one transaction *)

SetRun(d, r, st) == [d EXCEPT !.run[r].status = st, !.run[r].lease = 0]

\* The attempt of a run and generation, whatever its status was.
MarkAttempt(d, r, g, st) ==
    [d EXCEPT !.attempts = {IF a.run = r /\ a.gen = g THEN [a EXCEPT !.status = st] ELSE a :
                               a \in @}]

\* _block_job_for_policy: the runs of the job are cancelled, but for those
\* that have their answer.
Block(d, r) ==
    [d EXCEPT !.status = "policy_blocked",
              !.epoch = @ + 1,
              !.run = [q \in Runs |->
                         IF q = r \/ d.run[q].status \notin
                                        {"absent", "success", "no_result", "cancelled"}
                         THEN [d.run[q] EXCEPT !.status = "cancelled", !.lease = 0]
                         ELSE d.run[q]]]

\* _plan_linked_run: the second wave, once.
PlanLinked(d, r) ==
    IF r = "primary" /\ ~d.github /\ d.run["linked"].status = "absent"
    THEN [d EXCEPT !.run["linked"] = NewRun("pending"), !.outbox = @ \cup {Message("linked", 1)}]
    ELSE d

\* Mutant: the linked run is planned whatever the first profile showed.
StoreResultPlansAlways(d, r, o) ==
    PlanLinked([SetRun(d, r, o) EXCEPT !.evidence = IF o = "success" THEN @ \cup {r} ELSE @], r)

StoreResult(d, r, o) ==
    IF o = "success"
    THEN PlanLinked([SetRun(d, r, o) EXCEPT !.evidence = @ \cup {r}], r)
    ELSE SetRun(d, r, o)

\* correlate_explicit_link and completeness_outcome: what the evidence shows.
\* A verified profile shows the name and the account; the fixture's first
\* profile shows the name, and the account only if the second links back.
Predicates(d) ==
    IF "primary" \notin d.evidence THEN {}
    ELSE {"name"} \cup (IF d.github \/ "linked" \in d.evidence THEN {"account"} ELSE {})

CompletenessOutcome(P) ==
    IF P = {"name", "account"} THEN "ready"
    ELSE IF "name" \in P THEN "ready_partial"
    ELSE "insufficient_evidence"

\* Mutant: the cutoff overlooks a run that waits for its second generation.
CloseOpenForgetsRetry(d) ==
    [d EXCEPT !.run = [r \in Runs |->
        IF d.run[r].status \in {"pending", "running"}
        THEN [d.run[r] EXCEPT !.status = "closed_at_finalization", !.lease = 0]
        ELSE d.run[r]]]

CloseOpen(d) ==
    [d EXCEPT !.run = [r \in Runs |->
        IF Settled(d, r) THEN d.run[r]
        ELSE [d.run[r] EXCEPT !.status = "closed_at_finalization", !.lease = 0]]]

Publish(d) ==
    [d EXCEPT !.status = CompletenessOutcome(Predicates(d)),
              !.epoch = @ + 1,
              !.reports = {[evidence |-> d.evidence, access |-> "active"]}]

\* Mutant: the clock alone decides; a run that is over late holds the job.
FinalizeWhenSettled(d, force) ==
    IF Closed(d) THEN d
    ELSE IF ~Permitted THEN [d EXCEPT !.status = "policy_blocked", !.epoch = @ + 1]
    ELSE IF \A r \in Runs : Settled(d, r) THEN Publish(d)
    ELSE d

\* Mutant: the permission is not looked up again.
FinalizeUnchecked(d, force) ==
    IF Closed(d) THEN d
    ELSE IF force \/ d.left = 0 THEN Publish(CloseOpen(d))
    ELSE IF \A r \in Runs : Settled(d, r) THEN Publish(d)
    ELSE d

\* finalize_if_complete.  A job that lost its permission is blocked and its
\* runs are left as they are.
Finalize(d, force) ==
    IF Closed(d) THEN d
    ELSE IF ~Permitted THEN [d EXCEPT !.status = "policy_blocked", !.epoch = @ + 1]
    ELSE IF force \/ d.left = 0 THEN Publish(CloseOpen(d))
    ELSE IF \A r \in Runs : Settled(d, r) THEN Publish(d)
    ELSE d

-----------------------------------------------------------------------------
(* Dispatcher and broker *)

\* dispatch_once: publish, then commit dispatched_at; a crash between the two
\* publishes again.
Dispatch(m) ==
    /\ m \in db.outbox /\ ~m.sent
    /\ broker' = [broker EXCEPT !.queue = @ \cup {m.run}]
    /\ db' = [db EXCEPT !.outbox = (@ \ {m}) \cup {[m EXCEPT !.sent = TRUE]}]
    /\ UNCHANGED <<policy, worker>>

Redeliver(r) ==
    /\ broker.again > 0
    /\ \E m \in db.outbox : m.run = r /\ m.sent
    /\ broker' = [queue |-> broker.queue \cup {r}, again |-> broker.again - 1]
    /\ UNCHANGED <<db, policy, worker>>

\* The task raises before its lease commits (PostgreSQL chose it to break a
\* lock cycle with finalization, say): the message is acknowledged.
TaskLost(r) ==
    /\ r \in broker.queue
    /\ broker' = [broker EXCEPT !.queue = @ \ {r}]
    /\ UNCHANGED <<db, policy, worker>>

-----------------------------------------------------------------------------
(* Workers *)

TakeLease(d, r) ==
    [d EXCEPT !.status = "running",
              !.run[r] = [status |-> "running", gen |-> @.gen + 1, lease |-> LeaseTime],
              !.attempts = @ \cup {[run |-> r, gen |-> d.run[r].gen + 1,
                                    status |-> "running"]}]

\* _lease_run: the first transaction of a task.
Lease(w, r) ==
    /\ worker[w] = Idle
    /\ r \in broker.queue
    /\ broker' = [broker EXCEPT !.queue = @ \ {r}]
    /\ \/ /\ db.status = "deleted" \/ db.run[r].status \notin WaitingStates
          /\ UNCHANGED <<db, worker>>
       \/ /\ Closed(db) /\ db.run[r].status \in WaitingStates
          /\ db' = [db EXCEPT !.run[r].status = "closed_at_finalization"]
          /\ UNCHANGED worker
       \/ /\ ~Closed(db) /\ db.run[r].status \in WaitingStates
          /\ ~Permitted
          /\ db' = Block(db, r)
          /\ UNCHANGED worker
       \/ /\ ~Closed(db) /\ db.run[r].status \in WaitingStates
          /\ Permitted
          /\ db' = TakeLease(db, r)
          /\ Goto(w, [pc |-> "working", run |-> r, gen |-> db.run[r].gen + 1,
                      epoch |-> db.epoch])
    /\ UNCHANGED policy

\* Mutant: a fence that trusts the generation of the lease alone.
StaleByGeneration(d, t) == d.status = "deleted" \/ d.run[t.run].gen # t.gen

Stale(d, t) ==
    \/ d.status = "deleted"
    \/ d.run[t.run].status # "running"
    \/ d.run[t.run].gen # t.gen
    \/ d.epoch # t.epoch

\* The answer comes too late.
CompleteStale(w) ==
    /\ worker[w].pc = "working"
    /\ Stale(db, worker[w])
    /\ db' = MarkAttempt(db, worker[w].run, worker[w].gen, "discarded")
    /\ Goto(w, Idle)
    /\ UNCHANGED <<policy, broker>>

\* The answer is refused: the permission was lost during the call, or the
\* profile now belongs to another account.
CompleteBlocked(w, mismatch) ==
    LET t == worker[w] IN
    /\ t.pc = "working"
    /\ ~Stale(db, t)
    /\ mismatch => db.github
    /\ ~Permitted \/ mismatch
    /\ db' = MarkAttempt(Block(db, t.run), t.run, t.gen, "discarded")
    /\ Goto(w, Idle)
    /\ UNCHANGED <<policy, broker>>

Complete(w, o) ==
    LET t == worker[w] IN
    /\ t.pc = "working"
    /\ ~Stale(db, t)
    /\ Permitted
    /\ db' = MarkAttempt(StoreResult(db, t.run, o), t.run, t.gen, "finished")
    /\ Goto(w, [pc |-> "finalizing"])
    /\ UNCHANGED <<policy, broker>>

FinalizeAfterResult(w) ==
    /\ worker[w].pc = "finalizing"
    /\ db' = Finalize(db, FALSE)
    /\ Goto(w, Idle)
    /\ UNCHANGED <<policy, broker>>

\* The process dies, or a transaction after the lease is aborted.
Crash(w) ==
    /\ worker[w] # Idle
    /\ Goto(w, Idle)
    /\ UNCHANGED <<db, policy, broker>>

-----------------------------------------------------------------------------
(* Maintenance *)

\* _reclaim_expired_lease: a run of this flow is always given back, whatever
\* became of its job.
Reclaim(r) ==
    /\ db.run[r].status = "running" /\ db.run[r].lease = 0
    /\ db.run[r].gen < Generations
    /\ db' = [MarkAttempt(SetRun(db, r, "retry_scheduled"), r, db.run[r].gen, "discarded")
                EXCEPT !.outbox = @ \cup {Message(r, db.run[r].gen + 1)}]
    /\ UNCHANGED <<policy, broker, worker>>

\* finalize_expired_jobs at the cutoff.
Expire ==
    /\ ~Closed(db) /\ db.left = 0
    /\ db' = Finalize(db, TRUE)
    /\ UNCHANGED <<policy, broker, worker>>

-----------------------------------------------------------------------------
(* What revokes the permission *)

\* Mutant: a report that is already there stays readable.
SuppressJobKeepsReport(d) ==
    IF d.status = "deleted" THEN d
    ELSE [d EXCEPT !.epoch = @ + 1,
                   !.status = IF @ \in ReportedStates THEN @ ELSE "policy_blocked"]

\* suppress_profile: the record, the verifications, the epoch of the job, its
\* status unless it is over, and the access to its report.
SuppressJob(d) ==
    IF d.status = "deleted" THEN d
    ELSE [d EXCEPT !.epoch = @ + 1,
                   !.status = IF @ \in ReportedStates THEN @ ELSE "policy_blocked",
                   !.reports = {[rep EXCEPT !.access = "revoked"] : rep \in @}]

Suppress ==
    /\ ~policy.suppressed
    /\ policy' = [policy EXCEPT !.suppressed = TRUE, !.eligible = FALSE]
    /\ db' = SuppressJob(db)
    /\ UNCHANGED <<broker, worker>>

\* The approval expires.
Lapse ==
    /\ policy.eligible
    /\ policy' = [policy EXCEPT !.eligible = FALSE]
    /\ UNCHANGED <<db, broker, worker>>

\* The operator restarts the services with the provider switched off or on.
SwitchProvider ==
    /\ db.github
    /\ policy' = [policy EXCEPT !.enabled = ~@]
    /\ UNCHANGED <<db, broker, worker>>

Delete ==
    /\ db.status # "deleted"
    /\ db' = [AcceptedJob(db.github) EXCEPT !.status = "deleted",
                                            !.epoch = db.epoch + 1,
                                            !.left = 0,
                                            !.run = [r \in Runs |-> NewRun("absent")],
                                            !.outbox = {}]
    /\ UNCHANGED <<policy, broker, worker>>

-----------------------------------------------------------------------------

Down(n) == IF n = 0 THEN 0 ELSE n - 1

Tick ==
    /\ db.left > 0 \/ \E r \in Runs : db.run[r].lease > 0
    /\ db' = [db EXCEPT !.left = Down(@),
                        !.run = [r \in Runs |-> [db.run[r] EXCEPT !.lease = Down(@)]]]
    /\ UNCHANGED <<policy, broker, worker>>

WorkerStep(w) ==
    \/ \E r \in Runs : Lease(w, r)
    \/ CompleteStale(w)
    \/ \E mismatch \in BOOLEAN : CompleteBlocked(w, mismatch)
    \/ \E o \in OutcomeStates : Complete(w, o)
    \/ FinalizeAfterResult(w)
    \/ Crash(w)

Revocation == Suppress \/ Lapse \/ SwitchProvider \/ Delete

Next ==
    \/ \E m \in db.outbox : Dispatch(m)
    \/ \E r \in Runs : Redeliver(r) \/ TaskLost(r) \/ Reclaim(r)
    \/ \E w \in Workers : WorkerStep(w)
    \/ Expire
    \/ Revocation
    \/ Tick

Spec == Init /\ [][Next]_vars

\* The clock runs and the watchdog comes round; nothing is assumed of the
\* workers or of the broker.
FairSpec == Spec /\ WF_vars(Tick) /\ WF_vars(Expire)

-----------------------------------------------------------------------------
(* Properties *)

\* A suppressed profile has no report that its access state would still let
\* be read, also when the report was being written as the suppression came
\* (suppress_profile, finalize_if_complete).
SuppressedIsRevoked == policy.suppressed => \A rep \in db.reports : rep.access = "revoked"

\* docs/architecture.md:20: workers "refuse to persist after suppression,
\* deletion, eligibility expiry, or GitHub account-ID mismatch": nothing is
\* stored or published while the permission is missing, however late the
\* answer or the finalization comes.
NothingPersistedUnpermitted ==
    [][~Permitted => /\ db'.evidence \subseteq db.evidence
                     /\ db'.reports # {} => db.reports # {}]_vars

\* The linked profile is looked up if and only if the first profile was found.
LinkedFollowsPrimary ==
    ~db.github /\ db.status # "deleted" =>
       (db.run["linked"].status # "absent" <=> "primary" \in db.evidence)

\* A published brief has no run that could still be leased, retried or
\* answered; a blocked job may have one (finalize_if_complete leaves it).
PublishedIsQuiet == db.status \in ReportedStates => \A r \in Runs : Settled(db, r)

\* The flow keeps the promise the discovery jobs keep: module FootprintPromise.
Promise ==
    INSTANCE FootprintPromise WITH
        Sources  <- Runs,
        phase    <- CASE db.status \in ReportedStates -> "published"
                      [] db.status = "policy_blocked" -> "cancelled"
                      [] db.status = "deleted"        -> "erased"
                      [] OTHER                        -> "open",
        evidence <- db.evidence,
        report   <- {rep.evidence : rep \in db.reports}

Promised == Promise!PSpec

\* The watchdog alone closes the job, whatever is lost or crashes.
EventuallyClosed == <>Closed(db)

================================================================================
