-------------------------- MODULE FootprintDiscovery --------------------------
(***************************************************************************)
(* One footprint discovery job, from its acceptance to its deletion, and   *)
(* everything that touches its rows: the outbox dispatcher and the broker, *)
(* the Celery workers of the three provider kinds, the maintenance pass    *)
(* (reclaim, advance, expire) and the owner's requests.                    *)
(*                                                                         *)
(* A transaction is one action: each locks the SearchJob row first.  What  *)
(* is NOT under that lock is a step of its own: the unlocked read of the   *)
(* run a worker starts with, the provider call, the separate transaction   *)
(* in which a Maigret worker advances the job, and the broker.             *)
(***************************************************************************)
EXTENDS FootprintPipeline

CONSTANTS
    Workers,
    Outcomes,        \* the provider outcomes considered, a subset of OutcomeStates
    ShardLease,      \* maigret_run_lease_seconds
    WaveLease,       \* professional_search_run_lease_seconds
    StoryLease,      \* grounded_synthesis_run_lease_seconds
    Redeliveries,    \* bound: how often the broker delivers a message once more
    Losses           \* the runs whose task may consume a delivery and take no lease

ASSUME DiscoveryAssumption ==
    /\ Outcomes \subseteq OutcomeStates
    /\ ShardLease \in Nat \ {0} /\ WaveLease \in Nat \ {0} /\ StoryLease \in Nat \ {0}
    /\ Redeliveries \in Nat /\ Losses \subseteq Runs

VARIABLES
    db,              \* the rows of the job
    broker,          \* Redis: the runs whose task message waits, the redeliveries left
    worker,          \* what each worker process remembers
    maint            \* the maintenance pass of the dispatcher process

vars == <<db, broker, worker, maint>>

Idle == [pc |-> "idle"]

\* "seen": the run as session.get(ProviderRun) read it, before any lock.
\* "working": the lease _lease_scan / _lease_run returned, the fencing token.
\* "advancing": a Maigret worker between its result and the job.
WorkerStates ==
    {Idle}
    \cup [pc : {"seen"}, run : Runs, status : RunStates, gen : Nat]
    \cup [pc : {"working"}, run : Runs, gen : Nat, epoch : Nat]
    \cup [pc : {"advancing"}, run : Shards]

TypeOK ==
    /\ db \in Rows
    /\ broker \in [queue : SUBSET Runs, again : Nat]
    /\ worker \in [Workers -> WorkerStates]
    /\ maint \in [phase : {"start", "reclaim", "advance", "expire"},
                  todo : SUBSET Runs, intime : SUBSET Runs]

NextPass == [phase |-> "start", todo |-> {}, intime |-> {}]

Init ==
    /\ db = AcceptedJob
    /\ broker = [queue |-> {}, again |-> Redeliveries]
    /\ worker = [w \in Workers |-> Idle]
    /\ maint = NextPass

Goto(w, state) == worker' = [worker EXCEPT ![w] = state]

-----------------------------------------------------------------------------
(* Attempt rows.  Completion, reclaim and cutoff look an attempt up by     *)
(* (run, generation); should two rows match, the query returns either.     *)

\* Mutant: the query looks for the generation of the retry.
AttemptRowsOfNext(d, r, g) == {i \in 1..Len(d.attempts[r]) : d.attempts[r][i].gen = g + 1}

AttemptRows(d, r, g) == {i \in 1..Len(d.attempts[r]) : d.attempts[r][i].gen = g}

MarkAttempt(d, r, g, st) ==
    IF AttemptRows(d, r, g) = {} THEN {d}
    ELSE {[d EXCEPT !.attempts[r][i].status = st] : i \in AttemptRows(d, r, g)}

\* The stale branch of a completion touches the row only while it is running.
DiscardAttempt(d, r, g) ==
    IF AttemptRows(d, r, g) = {} THEN {d}
    ELSE {IF d.attempts[r][i].status = "running"
          THEN [d EXCEPT !.attempts[r][i].status = "discarded"]
          ELSE d : i \in AttemptRows(d, r, g)}

SetRun(d, r, st) == [d EXCEPT !.run[r].status = st, !.run[r].lease = 0]

-----------------------------------------------------------------------------
(* Dispatcher and broker *)

Enqueue(r) == broker' = [broker EXCEPT !.queue = @ \cup {r}]

\* One delivery too many.
Duplicate(r) ==
    /\ broker.again > 0
    /\ r \notin broker.queue
    /\ broker' = [queue |-> broker.queue \cup {r}, again |-> broker.again - 1]

\* dispatch_once: publish, then commit dispatched_at.
Dispatch(m) ==
    /\ m \in db.outbox /\ ~m.sent
    /\ Enqueue(m.run)
    /\ db' = [db EXCEPT !.outbox = (@ \ {m}) \cup {[m EXCEPT !.sent = TRUE]}]
    /\ UNCHANGED <<worker, maint>>

\* The process dies, or the commit fails, after the publish.
DispatchCrash(m) ==
    /\ m \in db.outbox /\ ~m.sent
    /\ Duplicate(m.run)
    /\ UNCHANGED <<db, worker, maint>>

\* A late-acknowledged message is delivered again while its task still runs.
Redeliver(w) ==
    /\ worker[w].pc # "idle"
    /\ Duplicate(worker[w].run)
    /\ UNCHANGED <<db, worker, maint>>

-----------------------------------------------------------------------------
(* Workers *)

\* The task starts and reads its run without a lock to learn the job id.
Receive(w, r) ==
    /\ worker[w] = Idle
    /\ r \in broker.queue
    /\ broker' = [broker EXCEPT !.queue = @ \ {r}]
    /\ IF db.status = "deleted"
       THEN UNCHANGED worker
       ELSE Goto(w, [pc |-> "seen", run |-> r, status |-> db.run[r].status,
                     gen |-> db.run[r].gen])
    /\ UNCHANGED <<db, maint>>

\* Lease length.  An adaptive wave holds its lease past its own deadline.
LeaseTime(d, r) ==
    IF r \in Shards THEN ShardLease
    ELSE IF r = Story THEN StoryLease
    ELSE IF d.run[r].left + 1 > WaveLease THEN d.run[r].left + 1 ELSE WaveLease

\* The run columns written are computed from the row as it was SEEN: the
\* SELECT ... FOR UPDATE returns the object already in the session.
TakeLease(d, r, seenGen) ==
    [d EXCEPT !.run[r] = [@ EXCEPT !.status = "running", !.gen = seenGen + 1,
                                   !.lease = LeaseTime(d, r), !.epoch = d.epoch],
              !.attempts[r] = Append(@, [gen |-> seenGen + 1, status |-> "running"]),
              !.exploration = IF r \in Shards /\ d.status = "queued" THEN "running" ELSE @,
              !.status = IF @ = "queued" THEN "discovering" ELSE @]

Lease(w) ==
    LET s == worker[w] IN
    /\ s.pc = "seen"
    /\ db.status \notin ClosedStates
    /\ s.status \in WaitingStates
    /\ ~DeadlineReached(db, s.run)
    /\ db' = TakeLease(db, s.run, s.gen)
    /\ Goto(w, [pc |-> "working", run |-> s.run, gen |-> s.gen + 1, epoch |-> db.epoch])
    /\ UNCHANGED <<broker, maint>>

\* Closing a run that was seen waiting.  Its lease was seen to be empty, so
\* that column is not written.
Unleased(d, r, st) == [d EXCEPT !.run[r].status = st]

\* The lease transaction ends without a lease: the run is not waiting, or the
\* job is over, or the run's deadline has passed.
LeaseDeclined(w) ==
    LET s == worker[w] IN
    /\ s.pc = "seen"
    /\ \/ /\ db.status = "deleted" \/ s.status \notin WaitingStates
          /\ UNCHANGED db
       \/ /\ db.status \in ClosedStates \ {"deleted"} /\ s.status \in WaitingStates
          /\ db' = Unleased(db, s.run, "cancelled")
       \/ /\ db.status \notin ClosedStates /\ s.status \in WaitingStates
          /\ DeadlineReached(db, s.run)
          /\ db' = Advance(Unleased(db, s.run, "closed_at_cutoff"), TRUE)
    /\ Goto(w, Idle)
    /\ UNCHANGED <<broker, maint>>

\* A shard is closed before it is leased: maigret_enabled was switched off,
\* or its catalog snapshot is missing.
ShardSwitchedOff(w, st) ==
    LET s == worker[w] IN
    /\ s.pc = "seen" /\ s.run \in Shards
    /\ db.status \notin ClosedStates /\ s.status \in WaitingStates
    /\ ~DeadlineReached(db, s.run)
    /\ db' = Advance(Unleased(db, s.run, st), TRUE)
    /\ Goto(w, Idle)
    /\ UNCHANGED <<broker, maint>>

\* Mutants: a fence that trusts the generation, or the status, alone.
FencedByGeneration(d, t) == d.status = "deleted" \/ d.run[t.run].gen # t.gen

FencedByStatus(d, t) == d.status = "deleted" \/ d.run[t.run].status # "running"

\* The completion fence.
Fenced(d, t) ==
    \/ d.status = "deleted"
    \/ t.run = Story /\ Closed(d)
    \/ d.run[t.run].status # "running"
    \/ d.run[t.run].gen # t.gen
    \/ d.run[t.run].epoch # t.epoch
    \/ d.epoch # t.epoch

CompleteFenced(w) ==
    /\ worker[w].pc = "working"
    /\ Fenced(db, worker[w])
    /\ db' \in DiscardAttempt(db, worker[w].run, worker[w].gen)
    /\ Goto(w, Idle)
    /\ UNCHANGED <<broker, maint>>

\* Mutant: the rows of a result that could not be stored stay behind.
FoundUnlessEmpty(o) == o # "no_result"

Found(o) == o \in {"success", "partial_success"}

Settle(d, r, o) ==
    [SetRun(d, r, o) EXCEPT
        !.evidence = IF r # Story /\ Found(o) THEN @ \cup {r} ELSE @,
        !.story = IF r # Story THEN @
                  ELSE IF o = "success" THEN "narrative" ELSE "fallback"]

\* A Maigret shard commits its result and leaves the job to another
\* transaction.  A result that cannot be stored is a provider_error whose
\* payload is discarded.
CompleteShard(w, o) ==
    LET t == worker[w] IN
    /\ t.pc = "working" /\ t.run \in Shards
    /\ ~Fenced(db, t)
    /\ \E d \in MarkAttempt(db, t.run, t.gen, "finished") : db' = Settle(d, t.run, o)
    /\ Goto(w, [pc |-> "advancing", run |-> t.run])
    /\ UNCHANGED <<broker, maint>>

\* _finalize_discovery_after_scan
AdvanceAfterScan(w) ==
    /\ worker[w].pc = "advancing"
    /\ db' = Advance(db, TRUE)
    /\ Goto(w, Idle)
    /\ UNCHANGED <<broker, maint>>

\* A professional run advances the job in the transaction of its result; a
\* result that arrives at or after the wave's deadline is discarded.
CompleteWave(w, o) ==
    LET t == worker[w] IN
    /\ t.pc = "working" /\ t.run \in Waves
    /\ ~Fenced(db, t)
    /\ IF DeadlineReached(db, t.run)
       THEN \E d \in MarkAttempt(db, t.run, t.gen, "discarded") :
               db' = Advance(SetRun(d, t.run, "closed_at_cutoff"), TRUE)
       ELSE \E d \in MarkAttempt(db, t.run, t.gen, "finished") :
               db' = Advance(Settle(d, t.run, o), TRUE)
    /\ Goto(w, Idle)
    /\ UNCHANGED <<broker, maint>>

CompleteStory(w, o) ==
    LET t == worker[w] IN
    /\ t.pc = "working" /\ t.run = Story
    /\ ~Fenced(db, t)
    /\ \E d \in MarkAttempt(db, t.run, t.gen, "finished") :
          db' = Advance(Settle(d, t.run, o), TRUE)
    /\ Goto(w, Idle)
    /\ UNCHANGED <<broker, maint>>

\* The heartbeat thread of a synthesis run renews its lease.
Heartbeat(w) ==
    LET t == worker[w] IN
    /\ t.pc = "working" /\ t.run = Story
    /\ ~Fenced(db, t)
    /\ db.run[Story].lease # StoryLease
    /\ db' = [db EXCEPT !.run[Story].lease = StoryLease]
    /\ UNCHANGED <<broker, worker, maint>>

\* The process dies, or an exception ends the task, after the lease or after
\* the shard's result (where the failure is swallowed and logged).
Crash(w) ==
    /\ worker[w].pc \in {"working", "advancing"}
    /\ Goto(w, Idle)
    /\ UNCHANGED <<db, broker, maint>>

\* The process dies before the lease: an unacknowledged message is requeued.
CrashRequeued(w) ==
    /\ worker[w].pc = "seen"
    /\ Enqueue(worker[w].run)
    /\ Goto(w, Idle)
    /\ UNCHANGED <<db, maint>>

\* An exception ends the task before the lease commits, and Celery drops the
\* message: acknowledged by default, rejected without requeue for synthesis.
TaskLost(w) ==
    /\ worker[w].pc = "seen" /\ worker[w].run \in Losses
    /\ Goto(w, Idle)
    /\ UNCHANGED <<db, broker, maint>>

-----------------------------------------------------------------------------
(* Maintenance: reclaim_expired_leases, advance_discovery_jobs and          *)
(* finalize_expired_jobs, in that order, once a second                      *)

Expired(d) == {r \in Runs : d.run[r].status = "running" /\ d.run[r].lease = 0}

\* reclaim_expired_leases reads the clock once, before its first transaction:
\* "intime" are the runs whose deadline was still ahead at that moment.
MaintenanceStart ==
    /\ maint.phase = "start"
    /\ maint' = [phase  |-> "reclaim",
                 todo   |-> Expired(db),
                 intime |-> {r \in Expired(db) : ~DeadlineReached(db, r)}]
    /\ UNCHANGED <<db, broker, worker>>

\* _reclaim_expired_lease gives an expired run back to the queue when its kind
\* may be replayed and there was time left, and closes it otherwise.  The calls
\* to finalize_discovery_if_complete here pass no settings.
Replayable(r) == r \in Shards \cap maint.intime

RetryMessage(d, r) == Message(r, d.run[r].gen + 1)

DuplicateKey(d, m) == \E n \in d.outbox : n.run = m.run /\ n.gen = m.gen

Retry(d, r) ==
    [SetRun(d, r, "retry_scheduled") EXCEPT !.outbox = @ \cup {RetryMessage(d, r)}]

CloseExpired(d, r) ==
    Advance([SetRun(d, r, IF r \in maint.intime THEN "provider_error"
                                                ELSE "closed_at_cutoff")
               EXCEPT !.story = IF r = Story /\ @ = "none" THEN "fallback" ELSE @],
            FALSE)

ReclaimLease(d, r) ==
    {IF Replayable(r) THEN Retry(e, r) ELSE CloseExpired(e, r) :
        e \in MarkAttempt(d, r, d.run[r].gen, "discarded")}

MaintenanceReclaim(r) ==
    /\ maint.phase = "reclaim" /\ r \in maint.todo
    /\ IF r \notin Expired(db)
       THEN /\ UNCHANGED db
            /\ maint' = [maint EXCEPT !.todo = @ \ {r}]
       ELSE IF Replayable(r) /\ DuplicateKey(db, RetryMessage(db, r))
       THEN \* the unique dedupe_key rejects the insert and the pass is abandoned
            /\ UNCHANGED db
            /\ maint' = NextPass
       ELSE /\ db' \in ReclaimLease(db, r)
            /\ maint' = [maint EXCEPT !.todo = @ \ {r}]
    /\ UNCHANGED <<broker, worker>>

MaintenanceReclaimed ==
    /\ maint.phase = "reclaim" /\ maint.todo = {}
    /\ maint' = [maint EXCEPT !.phase = "advance", !.intime = {}]
    /\ UNCHANGED <<db, broker, worker>>

\* _advance_discovery_job
MaintenanceAdvance ==
    /\ maint.phase = "advance"
    /\ db' = Advance(db, TRUE)
    /\ maint' = [maint EXCEPT !.phase = "expire"]
    /\ UNCHANGED <<broker, worker>>

\* _finalize_expired_discovery_job closes what retrieval has left open; the
\* synthesis run is not its business.
\* Mutant: a run that waits for its second generation is overlooked.
OpenRetrievalForgetsRetry(d) ==
    {r \in Scheduled(d) \ {Story} : d.run[r].status \in {"pending", "running"}}

OpenRetrieval(d) == {r \in Scheduled(d) \ {Story} : d.run[r].status \notin SettledStates}

CloseRetrieval(d) ==
    [d EXCEPT !.run = [r \in Runs |-> IF r \in OpenRetrieval(d)
                                      THEN [d.run[r] EXCEPT !.status = "closed_at_cutoff",
                                                            !.lease = 0]
                                      ELSE d.run[r]]]

\* One attempt row of each running run is discarded.
DiscardRunning(d) ==
    LET running == {r \in OpenRetrieval(d) :
                      /\ d.run[r].status = "running"
                      /\ AttemptRows(d, r, d.run[r].gen) # {}}
    IN  {[d EXCEPT !.attempts =
             [r \in Runs |-> IF r \in running
                             THEN [d.attempts[r] EXCEPT ![pick[r]].status = "discarded"]
                             ELSE d.attempts[r]]] :
          pick \in {f \in [running -> UNION {1..Len(d.attempts[r]) : r \in running}] :
                      \A r \in running : f[r] \in AttemptRows(d, r, d.run[r].gen)}}

\* finalize_expired_jobs: at the cutoff every open retrieval run is closed;
\* before it, a chooser whose window is over is left.
MaintenanceExpire ==
    /\ maint.phase = "expire"
    /\ IF Closed(db) THEN UNCHANGED db
       ELSE IF db.left = 0
       THEN \E d \in DiscardRunning(db) : db' = Advance(CloseRetrieval(d), TRUE)
       ELSE IF db.exploration = "awaiting_anchor" /\ ~AnchorOpen(db)
       THEN db' = Advance(db, TRUE)
       ELSE UNCHANGED db
    /\ maint' = NextPass
    /\ UNCHANGED <<broker, worker>>

-----------------------------------------------------------------------------
(* The owner *)

\* select_footprint_anchor: a choice made in time, and one that comes too late
\* (which leaves the checkpoint before it answers 409).
SelectAnchor(n) ==
    /\ ~Closed(db)
    /\ db.exploration = "awaiting_anchor"
    /\ n \in Hypotheses(db)
    /\ db' = IF AnchorOpen(db)
             THEN Advance([db EXCEPT !.anchor = n, !.exploration = "running"], TRUE)
             ELSE Advance(db, TRUE)
    /\ UNCHANGED <<broker, worker, maint>>

\* GET /footprint-jobs/{id} leaves an expired checkpoint.
Poll ==
    /\ ~Closed(db)
    /\ db.exploration = "awaiting_anchor" /\ ~AnchorOpen(db)
    /\ db' = Advance(db, TRUE)
    /\ UNCHANGED <<broker, worker, maint>>

\* Mutant: a run that waits for its second generation is overlooked.
UnfinishedForgetsRetry(d) == {r \in Runs : d.run[r].status \in {"pending", "running"}}

Unfinished(d) == {r \in Scheduled(d) : d.run[r].status \notin SettledStates}

\* cancel_footprint_job.  The outbox is left alone.
Cancel ==
    /\ ~Closed(db)
    /\ db' = [db EXCEPT
                !.status = "cancelled",
                !.exploration = "cancelled",
                !.epoch = @ + 1,
                !.run = [r \in Runs |->
                           IF r \in Unfinished(db)
                           THEN [db.run[r] EXCEPT !.status = "cancelled", !.lease = 0]
                           ELSE db.run[r]],
                !.attempts = [r \in Runs |->
                                [i \in 1..Len(db.attempts[r]) |->
                                   IF db.attempts[r][i].status = "running"
                                   THEN [db.attempts[r][i] EXCEPT !.status = "discarded"]
                                   ELSE db.attempts[r][i]]]]
    /\ UNCHANGED <<broker, worker, maint>>

\* delete_locked_job: a request of the owner, the history clear or retention.
Delete ==
    /\ db.status # "deleted"
    /\ db' = [AcceptedJob EXCEPT
                !.status = "deleted",
                !.exploration = "cancelled",
                !.epoch = db.epoch + 1,
                !.left = 0,
                !.run = [r \in Runs |-> NewRun("absent", 0)],
                !.outbox = {}]
    /\ UNCHANGED <<broker, worker, maint>>

-----------------------------------------------------------------------------
(* Time *)

\* Mutant: the clock does not stop at an instant that was reached.
DownPastZero(n) == n - 1

Down(n) == IF n = 0 THEN 0 ELSE n - 1

TimeMatters == \/ db.left > 0
               \/ \E r \in Runs : db.run[r].lease > 0 \/ db.run[r].left > 0

Tick ==
    /\ TimeMatters
    /\ db' = [db EXCEPT !.left = Down(@),
                        !.run = [r \in Runs |-> [db.run[r] EXCEPT !.lease = Down(@),
                                                                  !.left = Down(@)]]]
    /\ UNCHANGED <<broker, worker, maint>>

-----------------------------------------------------------------------------
WorkerStep(w) ==
    \/ \E r \in Runs : Receive(w, r)
    \/ Lease(w) \/ LeaseDeclined(w)
    \/ \E st \in {"cancelled", "provider_error"} : ShardSwitchedOff(w, st)
    \/ CompleteFenced(w)
    \/ \E o \in Outcomes : CompleteShard(w, o) \/ CompleteWave(w, o) \/ CompleteStory(w, o)
    \/ AdvanceAfterScan(w) \/ Heartbeat(w)
    \/ Crash(w) \/ CrashRequeued(w) \/ TaskLost(w) \/ Redeliver(w)

MaintenanceStep ==
    \/ MaintenanceStart
    \/ \E r \in Runs : MaintenanceReclaim(r)
    \/ MaintenanceReclaimed \/ MaintenanceAdvance \/ MaintenanceExpire

OwnerStep == (\E n \in Names : SelectAnchor(n)) \/ Poll \/ Cancel \/ Delete

Next ==
    \/ \E m \in db.outbox : Dispatch(m) \/ DispatchCrash(m)
    \/ \E w \in Workers : WorkerStep(w)
    \/ MaintenanceStep
    \/ OwnerStep
    \/ Tick

Spec == Init /\ [][Next]_vars

\* The clock runs and the dispatcher process keeps looping (Docker restarts it).
\* Nothing is assumed of the workers.
LoopFairness == WF_vars(Tick) /\ WF_vars(MaintenanceStep)

\* Queued messages are published and received, a worker does not die for ever
\* between receipt and lease, and a provider call returns (each has a timeout).
WorkerFairness ==
    /\ WF_vars(\E m \in db.outbox : Dispatch(m))
    /\ \A w \in Workers :
          /\ WF_vars(\E r \in Runs : Receive(w, r))
          /\ SF_vars(Lease(w) \/ LeaseDeclined(w))
          /\ WF_vars(CompleteFenced(w) \/ AdvanceAfterScan(w)
                     \/ \E o \in Outcomes : CompleteShard(w, o) \/ CompleteWave(w, o)
                                            \/ CompleteStory(w, o))

LoopSpec == Spec /\ LoopFairness

FairSpec == Spec /\ LoopFairness /\ WorkerFairness

-----------------------------------------------------------------------------
(* Correctness in every environment: duplicated and lost deliveries too *)

\* What the owner reads does not move: the evidence rows and the narrative are
\* those the report was frozen from, whatever a late worker brings
\* (finalize_footprint_if_complete and the completion fences).
ReportIsFrozen ==
    \A rep \in db.reports : rep.evidence = db.evidence /\ rep.story = db.story

\* When a job is over none of its runs is waiting, running or can be leased
\* (cancel_footprint_job, finalization, and the lease transactions' check).
ClosedJobIsQuiet == Closed(db) => Settled(db, Scheduled(db))

\* The job keeps the promise of module FootprintPromise.
Promise ==
    INSTANCE FootprintPromise WITH
        Sources  <- Shards \cup Waves,
        phase    <- CASE db.status \in ReportedStates -> "published"
                      [] db.status = "cancelled"      -> "cancelled"
                      [] db.status = "deleted"        -> "erased"
                      [] OTHER                        -> "open",
        evidence <- db.evidence,
        report   <- {rep.evidence : rep \in db.reports}

Promised == Promise!PSpec

(* Correctness when the broker delivers a message at most once *)

\* A settled run is over for good.  The one exception: a worker that read its
\* run before the cutoff and locks it after the job closed marks it cancelled.
SettledIsFinal ==
    [][\A r \in Runs :
          db.run[r].status \in SettledStates =>
             \/ db'.run[r].status = db.run[r].status
             \/ db.run[r].status = "closed_at_cutoff" /\ db'.run[r].status = "cancelled"
                /\ Closed(db)
             \/ db'.status = "deleted"]_vars

\* The story is written from everything the job will ever know: once the
\* synthesis is scheduled no late shard or wave adds evidence.
StoryHasAllEvidence ==
    [][db.run[Story].status # "absent" =>
          db'.evidence = db.evidence \/ db'.status = "deleted"]_vars

\* Two workers never hold the same run with tokens that both pass the fence.
ExclusiveOwner ==
    \A w1, w2 \in Workers :
       /\ worker[w1].pc = "working" /\ worker[w2].pc = "working"
       /\ worker[w1].run = worker[w2].run
       /\ ~Fenced(db, worker[w1]) /\ ~Fenced(db, worker[w2])
       => w1 = w2

\* The audit trail has no ghost: an attempt shown as running is the current
\* generation of a run that is running (cancel, cutoff and reclaim close it).
NoGhostAttempt ==
    \A r \in Runs : \A i \in 1..Len(db.attempts[r]) :
       db.attempts[r][i].status = "running" =>
          /\ db.run[r].status = "running"
          /\ db.run[r].gen = db.attempts[r][i].gen

\* A run's evidence is stored if and only if its outcome says so: no result
\* is half stored by a failed, fenced or late completion.
EvidenceMatchesOutcomes ==
    \A r \in Shards \cup Waves :
       r \in db.evidence <=> db.run[r].status \in {"success", "partial_success"}

\* A deep job is complete only if its narrative was really attempted.
ReadyDeepJobRanItsStory ==
    Deep /\ db.status \in {"ready", "no_candidates"} =>
       \E i \in 1..Len(db.attempts[Story]) : db.attempts[Story][i].status = "finished"

\* A choice of the owner that is accepted starts the professional wave: it is
\* never answered by asking again, and never accepted without effect.
ChosenAnchorStartsWave == db.anchor # NoAnchor => Waves \subseteq Scheduled(db)

(* Progress *)

\* Whatever is lost, the job is over at some time.
EventuallyClosed == <>Closed(db)

\* The chooser is left, by a choice or by the clock.
ChooserIsLeft == db.exploration = "awaiting_anchor" ~> db.exploration # "awaiting_anchor"

(* Claims of the documentation that the code does not keep *)

\* docs/architecture.md:20, "Workers are idempotent": a run that has a result
\* is never leased to a provider again.
SettledRunIsNotReplayed ==
    [][\A r \in Runs : db.run[r].status \in SettledStates => db'.run[r].status # "running"]_vars

\* schedule_grounded_synthesis_if_ready: "Missing configuration is recorded as
\* a terminal provider result"; configured means that it is not recorded.
SkippedMeansNotConfigured ==
    db.run[Story].status = "skipped_configuration" => ~SynthesisKey

=============================================================================
