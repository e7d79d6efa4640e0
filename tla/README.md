# Formal models of the public-profile search

TLA+ models of the discovery service in this repository, the TLC runs that check
them on small instances, and proofs checked by TLAPS for every value of the
constants.

    tlasany FootprintDiscovery.tla                 parse
    tlc -workers 2 -config deep.cfg MCFootprint    model-check one run
    tlapm FootprintDiscovery_proofs.tla            check the proofs

## 1. The system

An owner submits a public handle. The API creates a *footprint discovery job*;
workers collect evidence in three stages (site checks, professional searches, a
grounded narrative); when every stage is over the evidence is frozen into a
report, which a web page polls for. An older flow, the *Fast Brief*, looks one
profile up whose owner has verified it.

| Component | Code | State | Modules |
|---|---|---|---|
| Admission | `services/discovery_jobs.py` | `search_job`, `job_attempt`, `provider_run`, `idempotency_record` | `Admission` |
| Outbox dispatcher | `workers/maintenance/outbox_dispatcher.py` | `outbox_message.dispatched_at` | `FootprintDiscovery`, `FastBrief` |
| Broker and tasks | `workers/orchestrator/celery_app.py` | Redis queues | the same |
| Maigret worker | `services/maigret_runs.py` | `provider_run`, `maigret_scan_run`, `provider_attempt` | `FootprintDiscovery` |
| Professional search | `services/professional_search_*.py`, `providers/professional_search.py` | the same, plus the name hypotheses | `FootprintDiscovery`, `ProfessionalSearch`, `FootprintReport` |
| Anchor checkpoint | `services/anchor_selection.py` | `search_job.exploration_status`, `account_node.selection_state` | `FootprintDiscovery`, `FootprintReport` |
| Grounded synthesis | `services/grounded_synthesis_*.py`, `providers/grounded_synthesis.py` | `grounded_synthesis_result` | `FootprintDiscovery`, `SynthesisCall`, `EvidencePacket` |
| Finalization | `services/footprint_finalization.py` | snapshot, analysis, claims, report | `FootprintPipeline`, `FootprintReport` |
| Cancellation, deletion, retention | `services/footprint_cancellation.py`, `deletion.py`, `maintenance/retention.py` | all rows, shared `source_document` | `FootprintDiscovery`, `Documents` |
| History | `services/history.py`, `FootprintHistoryDrawer.tsx` | the drawer's list | `History` |
| Reconciler and watchdog | `workers/maintenance/reconciler.py`, `deadline_watchdog.py` | - | `FootprintDiscovery`, `FastBrief`, `SynthesisCall` |
| Fast Brief | `services/jobs.py`, `provider_runs.py`, `finalization.py`, `suppression.py` | the same tables, eligibility, suppression | `FastBrief` |
| Eligibility | `services/eligibility.py` | `eligibility_verification` | `Eligibility` |
| Job page | `FootprintJobExperience.tsx`, `lib/api.ts` | what the browser shows | `JobPage` |
| Safe fetch, crypto, events, migrations, scripts | - | none that a decision reads | not modelled |

**How they interact.** All processes share PostgreSQL. The API, the workers and
the dispatcher never call each other: work is handed over by an outbox row that
the dispatcher publishes to Redis. Whoever settles a run (worker, reclaim,
cutoff, owner) calls `finalize_discovery_if_complete`, which moves the job to
its next stage.

**What is hard.** Every transaction of a job locks its `search_job` row first, so
inside the database the interleaving of one job is one of transactions. Outside
it: a provider call runs between two transactions and its result may be late; a
lease may expire under a live worker; a Maigret worker commits its result and
advances the job in two transactions; a message may be delivered twice or not at
all; and several transactions *read a row before they lock it* and keep that stale
object (SQLAlchemy does not refresh it). What several jobs share (idempotency
keys, the history key, documents) interleaves statement by statement, with
PostgreSQL's locks. The browser applies answers that were overtaken. And four
computations are intricate without any concurrency: the dealing of budgets, the
packing of evidence, the retry budget, and the rules that join accounts. The
list of hazards, each at its line, is in `PROJECT.json`.

**What makes each component correct.**

- Leases: no two workers own a run; what is settled stays settled; attempts tell the truth.
- Fences: a late result changes nothing; a stored result is complete.
- Stages: the wave starts once, after the shards; the story is written from all the evidence; a choice of the owner takes effect.
- Finalization: one report, which is the evidence, and neither moves; a brief names a person only on evidence.
- Cancellation, deletion, suppression: nothing runs, is written or can be read afterwards.
- Admission: one job for a key, no twins, no record of a job that is gone.
- Retention: no evidence of a living job is taken, and in the end nothing is left.
- Maintenance: whatever is lost, the job is over at some time.

## 2. Modules

| Module | Contents |
|---|---|
| `FootprintPipeline` | The rows of one job, and as pure operators on them the functions that run under the job lock: checkpoint, wave, synthesis, finalization, and `Advance` = `finalize_discovery_if_complete`. |
| `FootprintDiscovery` | The state machine of a discovery job: `db` (the rows), `broker`, `worker` (what each process remembers), `maint` (the maintenance pass). |
| `FootprintPromise` | What a job promises its owner: three variables, four actions. `FootprintDiscovery` and `FastBrief` implement it. |
| `FastBrief` | One job of the older flow, with what may revoke its permission. |
| `SynthesisCall` | One synthesis run from its deliveries to its stored result: leases from stale copies, attempts, output budget, heartbeat, cancellation, cost. |
| `Eligibility` | The verifications of one profile: challenge, check, answer, decision, suppression, expiry. |
| `Admission` | Concurrent requests that create, reuse, refresh and delete jobs; locks and the deadlock detector. |
| `Documents` | Documents that jobs share: writers, deletions and the sweep, statement by statement. |
| `History`, `JobPage` | The two stateful parts of the web interface against their endpoints. |
| `ProfessionalSearch`, `EvidencePacket`, `FootprintReport` | The algorithms: dealing and spending a search budget; packing evidence; what a brief says about people. |
| `FootprintDiscovery_proofs` | Theorems about a discovery job: what holds however messages are delivered, and what holds when each is delivered at most once. |
| `FastBrief_proofs`, `SynthesisCall_proofs`, `Eligibility_proofs`, `Admission_proofs`, `Documents_proofs` | Lemmas and theorems of these modules. |
| `Clients_proofs` | Theorems about `MCClients`: that of `Admission_proofs` carried over, the history drawer, the page of a job. |
| `MCFootprint`, `MCEligibility` | Constants for TLC, and the properties of the runs that expect a violation. |
| `MCSynthesisCall` | Answers for TLC: one of each kind the retry loop distinguishes. |
| `MCClients`, `Algorithms` | What shares no state with the rest, side by side: `Admission`, `History`, `JobPage`; `ProfessionalSearch`, `EvidencePacket`, `FootprintReport`. |
| `Algorithms_proofs` | Theorems about `Algorithms`: the dealing and spending of a search budget; what a brief says about people. |
| `MCAlgorithms` | Small data for `Algorithms`. |

In `MCClients` and `Algorithms` the variable `part` says which component moves;
the others stay as they start, so a behaviour of the run is a behaviour of one
component. The drawer has two parts, since reading page after page (`list`) and
clearing (`clear`) are bounded differently; so have the requests: `requests` creates
jobs up to the bound, `waits` spares the last one, so that no request waits for
ever because of the bound.

### Discovery job (`FootprintPipeline`, `FootprintDiscovery`)

One transaction is one action, with everything it does: an action of a worker that
settles a run contains the call that advances the job. `worker[w].pc` is the place
of a task between its transactions: `seen` (the run was read, not locked),
`working` (leased; the provider call runs), `advancing` (a Maigret result is
committed, the job not yet advanced). What a task remembers (generation, epoch)
is the tuple `_lease_scan` / `_lease_run` return. `Losses` are the runs whose task
may fail before its lease commits. `Fenced` is the `stale`
expression of the three workers. `TakeLease` writes what the code computes from
the row *as seen*. `maint.todo` and `maint.intime` are the candidates and the
single `now` of `reclaim_expired_leases`.

- A provider call is a free choice of its terminal status; codes that no
  decision tells apart (`timeout`, `rate_limited`, ...) are `provider_error`.
- The rows a result stores are one member of `evidence` per run. An account's
  plausible names are the constant `NamesOf`.
- Time is counted in ticks of 30 seconds and instants are stored as the time that
  remains, so the state space is finite without a bound on the clock.
- A message carries its run only, and the broker is a set: a second copy of a
  queued message is a delivery by `Duplicate`, of which `Redeliveries` exist.
- `finalizing` is set and left inside one transaction and is not a state.
  `failed` is set nowhere in the code.
- A deleted job is a row with status `deleted` and no runs.

### Fast Brief (`FastBrief`)

Here a run is locked by its first read, so a lease is computed from the row as it
is, and finalization follows a result in a transaction of its own
(`FinalizeAfterResult`). `policy` is what `get_valid_eligibility`,
`is_suppressed` and the provider switch answer when asked; `db.github` is the kind of
job: a GitHub one depends on the switch. `Block` is
`_block_job_for_policy`; `Finalize` blocks too, and then leaves the runs as they are,
which is why `PublishedIsQuiet` is about published briefs only. Bounds: a run is
leased `Generations` times, two redeliveries.

### Synthesis (`SynthesisCall`)

`FootprintDiscovery` has the run as one step; here the job is only `over` or not.
A worker is a delivery of the run's message. It reads the run before it locks the job
(`Receive`), and the locked read returns that copy (`LeaseRun`), so two deliveries that
read a pending run may both lease it, with the same generation: both pass the heartbeat
and the fence, and both ask. No third way leads to a request: a copy that is not
pending ends the delivery, and the reclaim closes the job instead of queueing the run
again. The heartbeat thread (`Beat`) and the request share `worker[d].lost`, the
`ownership_lost` event.

An answer of the gateway is what decides about it: its kind, HTTP code or typed error,
status, what its text decodes to, what that cites, one flaw, and whether it told its
cost. A text that is JSON but no object makes `dict(value)` raise in
`_normalize_v4_extensions`, which only `_execute_synthesis` catches: a `ValueError` or
`TypeError` ends the call with the usage of no attempt (`InputInvalid`), any other
exception is an outcome without the usage of this attempt (`Unexpected`). An unfit model name
raises before anything is asked. Output budgets are numbers with a `Ceiling` (9, started
from 4, for the code's 32 000), so that the even steps of `_escalated_output_limit`
are uneven.

### Eligibility (`Eligibility`)

`Update` is the UPDATE the session emits: it writes the columns whose value
differs from the *copy* that was read before the lock. A request remembers this
copy (`request[q].copy`). The check of the public profile runs between two
transactions. Timestamps are ticks; `Horizon` bounds the clock. An operator takes
at least one tick to decide (`OperatorTakesTime`): two decisions are not
submitted in the same instant as the check they follow.

### Admission, documents (`Admission`, `Documents`)

These interleave statements, not transactions. A row lock is held until its
transaction ends; what is not committed is in the record of the request or
transaction. `Admission` has the unique constraint of the key (a writer of the
same key makes others wait, `KeyHolders`), the advisory lock of the history key,
row locks taken newest first, the savepoint that gives a failed lookup up, and the
deadlock detector, which aborts a member of a waiting cycle. `Documents` has
READ COMMITTED's rules: a statement's snapshot, the recheck of a row that was
waited for without its subquery, foreign-key locks and the cascade. The retention pass
retires expired discovery jobs only (`retention.py:26`); the jobs of the Fast Brief are
the constant `Briefs`, and leave when their owner deletes them.
The clock does not pass a tick while a writer's transaction is open
(`WritersAreQuick`): a write takes seconds where expiry takes days. Deletions and
the sweep may see any time pass. Section 5 says what this excludes.
Bounds: jobs created (`MaxJobs`), documents created per key (`MaxIds`), and a clock
that stops when every job has expired.

### Web interface (`History`, `JobPage`)

A request is a step of the server and a later arrival of its answer. Jobs in
`History` are numbered by `accepted_at`, so a cursor is a number; a page is the set
of its groups (their order is that of the numbers), and `Newest(S, n)` is
ORDER BY ... DESC LIMIT n. A first page that cannot be loaded leaves the list empty
(`FirstFails`). `JobPage` keeps
what decides about polling: the answer under way, the retries left, the restart
that React renders later. Observed while modelling: every successful read of the
candidates resets the retry counter, so failures of the brief are retried without
limit while the job is read successfully; `briefPending` stays after a brief that
is refused for good. The 409 "brief not ready" of the API is not reachable from
the page, which asks only after the job is ready, and is not modelled.

### Algorithms (`ProfessionalSearch`, `EvidencePacket`, `FootprintReport`)

- `ProfessionalSearch` deals queries, requests and profiles in the code's three loops
  and then runs one of the planned runs. Ceilings are scaled down (at most 5
  queries, 7 requests, 7 profiles; 2 results a query, 3 profiles an Exa run).
  HTTP and parsing are statuses; the plan without adaptive search is left out.
- `EvidencePacket` counts sizes as the code does: skeleton, items, commas, flags. An
  item is its serialized size. The whole serialization is `Size`, computed anew. Of an
  account's source ids the first `CiteScan` are looked at and `MaxCites` of the accepted
  ones kept; which come first is left open.
- `FootprintReport` takes accounts in the order the finalizer reads them, names as
  sequences of tokens. The observations of professional profiles come from a wave whose
  names, sources and answers are chosen freely. A profile belongs to the account with its
  URL if there is one (`Targets`), which keeps the name it showed (`Shown`): every
  hypothesis fetches the logins derived from its name and those GitHub finds for it, so
  any of them may bring the account of the handle, or one that another hypothesis has
  brought. A search brings one profile at the most; more of them would be further
  entries of the same kind. The rendering of the synthesis view is left out.

## 3. Runs

Deadlock is not checked where the system really stops (a closed job, an answered
request, a clock at its bound).

| Run | Instance | Shows |
|---|---|---|
| `deep` | Deep, bare handle with two names, 1 shard, 1 wave run, synthesis, 2 workers, lost retrieval tasks, crashes | types; one owner per run; no ghost attempts; evidence iff outcome; a complete Deep job ran its story; an accepted choice starts the wave; settled is final; the story has all evidence; the job closes |
| `quick` | Quick, bare handle, 2 shards, 1 wave run, one delivery too many | the report is frozen; a closed job is quiet; refinement of `FootprintPromise`; with a fair clock and maintenance only: the chooser is left, the job closes |
| `lost_story`, `replay`, `skipped` | Deep; two redeliveries; Deep | **violations**, section 5 |
| `brief` | both providers, 2 workers, 2 redeliveries | the second run follows the first; a published brief is quiet; a suppressed profile has no readable report; nothing is stored without permission; refinement of `FootprintPromise`; with a fair clock and watchdog only: the job closes |
| `eligibility` | 2 verifications, 2 requests, 4 ticks | suppression wins; the challenge is gone with its flow; one live verification; an eligibility that ran out stays so |
| `revoked` | the same | **violation**, section 5 |
| `clients` | 2 requests, 2 keys, 3 jobs; 3 runs of 2 handles, pages and batches of 1; a page with 2 retries | requests agree on one job; the drawer skips nothing and clears what it says; a page at rest shows the end; all of them come to rest |
| `documents` | a discovery job and one of the Fast Brief, 2 documents, one left by earlier jobs | types; the sweep takes no use of a document from any job; in the end no discovery job is left, and no document that no living job uses |
| `call` | 2 deliveries, 3 attempts, 1 source, a gateway that may never answer | only a delivery that read the run before its first lease asks, no more than `MaxAttempts` times, and never after it was told that the run is lost; a cut-off answer is asked for again with more; a stored outcome has the cost of all its attempts unless the runner raised; one result is stored; a stop closes the open request |
| `algorithms` | all small envelopes, sets of sources and accounts, scans of up to 3 accounts, every choice | the budget is kept, suits the adapter, is shared evenly and used; a run keeps its share and calls its end conclusive only when nothing failed and it spent what it had or stopped for want of anything new; the packet's count is its size, best evidence first, accounts cite what is shown; whom a brief names and which accounts it joins rests on evidence |

The properties of `MCClients` and `Algorithms` are conjunctions of named parts,
each stated and explained in its component's module.

**Bounds and why they are enough.** The protocol of a discovery job is per run
and per job: rows of different runs meet only in `Advance`, whose conditions
quantify over the runs of a stage. One shard and one wave run make every stage;
with the second shard of `quick` the last retrieval run is settled by a worker, by a
reclaim or by the cutoff while the other is in any state. Two workers (`deep`) are the
smallest number that can dispute a run; two requests the smallest that can race for
a key, a row or a verification: the deletion, the refresh and the reuse of one job
take its row and its key in different orders with two already. `JobTime` is the smallest number
of ticks at which a lease can expire and be retried (or the chooser open and close)
before the cutoff; in `deep` it can expire twice. One redelivery lets a stale lease
repeat a generation. A document left by earlier jobs makes an orphan that a new job
may adopt without a third job.
The packet's sizes are chosen around the budget, so that items fit exactly, by one
character, and not; the search's envelopes from nothing to more than all runs can use.
Three accounts are a reference, one that agrees and one that conflicts. Where a
bound is too small for confidence, the theorems below hold for all.

**Fairness.**

- `FootprintDiscovery`: `LoopFairness` is the clock and the dispatcher loop, an
  endless loop that catches the exceptions of a pass and is restarted by the
  service manager. Nothing is assumed of workers, broker or owner, so
  `quick` shows that lost tasks do no harm to a Quick job. `WorkerFairness` adds: an
  undispatched message is published, a queued one received, a provider call returns (every adapter has a timeout), and a task that
  keeps being requeued does not die before its lease every time (strong).
  Without it the claim would be false, as `lost_story` shows.
- `FastBrief`: the clock and the watchdog only.
- `SynthesisCall`: a worker's threads run on and the reconciler comes round; the
  gateway need not answer.
- `Admission`: strong fairness of a request's step: PostgreSQL grants a lock in the
  order of the requests for it, and breaks a cycle.
- `Documents`: a transaction that can go on does; the hourly pass comes back; from
  some time on no transaction fails for another reason than a deadlock, and no job
  begins to write (a job writes a bounded number of times). Nobody is assumed to delete
  a job, so one of the Fast Brief may stay for ever.
- `History`: requests are answered. `JobPage`: they are answered, from some time on
  without failure, and the owner does not click for ever.

## 4. What is proved

All theorems hold for all constants that satisfy the named assumptions of their
modules (any number of workers, runs, jobs and documents, all time limits). The
assumptions say what the code relies on: names are not the marker `NoAnchor`, the
reserved time of the chooser is positive, finitely many requests are under way.
Every inductive invariant was checked by TLC, as an invariant of the instance of the
run or of a smaller one, before it was proved.

**`FootprintDiscovery_proofs`**: `TypeCorrect`, `ReportFrozen`, `ClosedQuiet`,
`KeepsPromise` (refinement). The inductive invariant is
`IInv == TypeOK /\ Sound(db)`: the rows have their type; a report exists exactly
in the reported states and holds the evidence and the story; a closed job has no
open run. `ReportIsFrozen` alone is not inductive: a worker that passes the fence
adds evidence, and only "a closed job has no running run" excludes that the job is
closed then. That in turn needs that finalization settles every run, which is
`AdvanceSound`: `Advance` maps sound rows to sound rows and, from an open job, only
collects or publishes. Nothing about delivery is assumed: the theorems
hold with any number of duplicated, lost or stale deliveries.

The second part of the module, `OneOwner`, `AuditHasNoGhost`, `EvidenceIsWhole`,
`ReadyMeansTold`, `ChoiceStartsWave`, `SettledStays`, `StoryIsComplete`, `NoReplay`, needs the
hypothesis `Redeliveries = 0`: run `replay` shows that most of them fail with a
second delivery, so it cannot be dropped; everything else stays free (any number of
workers and runs, crashes, lost tasks, reclaims, cutoffs, cancellations). The
invariant `DInv` has three parts. The *ledger*: the n-th lease of a run wrote its
n-th attempt, and a running attempt belongs to a running run. The *stages*: once
the synthesis run exists all retrieval is over and no wave can become due; while
the owner is asked the wave is due and nothing else happens; a story that ended
has a finished attempt. The *tokens*: a run that waits for a lease has one token,
which is its unsent outbox row, its queued message or the worker that has read the
row, and while the token exists the run does not move, so that what a worker saw
is what it locks. Exclusive ownership follows from tokens, not from the fence: with
two tokens two workers can compute the same generation, and both pass.

**`FastBrief_proofs`**: `TypeCorrect`, `PublicationIsQuiet`, `SuppressionRevokes`,
`NothingWithoutPermission` (action property), `SecondWaveFollows`, `KeepsPromise`
(refinement of the same promise). A job that finalization blocks keeps running runs,
so the argument of the discovery job does not work. It is the epoch instead:
whatever blocks a job raises it, so a worker of a blocked job remembers a smaller
one (`Fenced`) and its answer is stale. `Kept` says what any step may make of the
rows; it is proved once for each function on the rows (`BlockKept`,
`StoreResultKept`, `FinalizeKept`, `SuppressJobKept`) and carried to the actions.
`SecondWaveFollows` ties the linked run to the outcome of the first: it is planned
with the result that found the profile and in no other step.

**`SynthesisCall_proofs`**: `TypeCorrect`, `AskedIsBounded` and `StoredOnce` (action
properties), `BudgetWidens`, `CitesItsPacket`, `LostIsLost`, `EveryAnswerIsPaid`, for
every set of answers and any number of deliveries. Deliveries may hold the same lease,
so nothing can rest on exclusive ownership. The invariant `IInv` looks at each delivery by
itself: what it has asked and paid is where its loop stands (`Counted`, `Paid`), every
lease is the first one (`Leased`: only a copy that was read before it says pending), and
only a worker that lost the run reports a cancelled request (`Honest`). What the
deliveries share is that a stored result ends the job (`ResultIsSane`), and that a
worker was told of its loss only when the job was over (`Known`). The budget part needs the
arithmetic of the even steps: with `n` attempts left a step of
`(Ceiling - current) \div n` reaches the ceiling in the last.

**`Eligibility_proofs`**: `TypeCorrect`, `SuppressionHolds`, `ChallengeIsErased`,
`OneAtATime`, `LapseIsFinal` (action property). The first invariant says in what a
stale copy may be wrong: the row may have gone on to another state, but a state
never comes back to a copy's, a token never returns, and columns a copy would not
write keep what suppression wrote. It is why `SuppressedIsOver` holds although
decisions work on stale copies, and why the revocation of a *superseded* row does not
(run `revoked`). `OneAtATime` needs `Currency`: an answer that finds its
challenge pending meets no decision on the same row, two decisions about one row work
on copies with the same end, and what became of either's row is
written down case by case. An eligibility that was ended by a
denial is not covered: with three requests it can come back (section 5), so the
property speaks of those that ran out.

**`Admission_proofs`**: `RequestsAgreeAlways`. The invariant `Agreed` has a part for
each request (`Fits`: what it has locked is what it has chosen, and what it has read
under those locks is still so), one for each pair (`Apart`: no two hold a row, the
history key or an idempotency key), one that counts (every request that may create a
job has one to create), and the rows themselves. Requests that deadlock
need no argument: an aborted one holds and wrote nothing.

**`Documents_proofs`**: `DocumentsTyped`, `SweepIsHarmless` (action property). The
property is about one step, the invariant `Guarded` about all the transactions
before it: a writer has inserted or extended what it uses, or it is fresh (`Backed`),
and time does not pass meanwhile; what one transaction has deleted no other has
locked (`Apart`); and what the sweep may still come to, and is in use by now, was
extended since its snapshot (`Spares`), so that the recheck of the waited-for row
finds it. For a *deletion* the same is false: its recheck reads no expiry.

**`Clients_proofs`**: `ClientsAgree`, `PageRests`, `DrawerIsTruthful`, the invariants
of run `clients`. `PageRests` rests on how old an answer may be: an
answer "over" is contradicted only by "gone" (`AnswersLast`), candidates that were
asked for after it are all there are (`LastCandidates`), and the loop shows the job
it goes on from unless a click has replaced it, and then a new loop is due
(`LoopShowsItsJob`). `DrawerIsTruthful` rests on keyset paging: what a page leaves
out is older than its last group (`PageContinues`, from `NewestAreFirst`: a set of
numbers is ranked without gaps by how many are newer), a group that stays
can only drop out of the obligation, never into it, and a request for more that
nothing made stale continues the list it is appended to.

`TypeOK` of `FastBrief`, `SynthesisCall` and `Eligibility`, `StoryIsGrounded` and
`LossIsFinal` of `SynthesisCall`, and the parts of `RequestsAgree` are proved and are
in no run under these names.

**`Algorithms_proofs`**: `BudgetDealtWell`, `SearchesHonest`, `PacketIsSound`,
`BriefGrounded`. The first two hold for every envelope, every sequence of proposals and every share. The invariant `SearchInv` says where the
three loops stand: which runs the last round of variants and of requests has passed,
and so how far apart two of them can be (`Dealing`); that a round which gave nobody
anything leaves nobody who could take (the reason `NothingLiesIdle` holds at the end);
and what a search has asked against what it recorded (`Honest`). The budget is a sum
over the runs, a recursive function: that giving to one run adds as much to
the sum (`TotalGrows`) is proved by induction on its length, which `SetInduction`
derives from the well-foundedness of the naturals, stated without an operator
parameter. `BriefGrounded` holds for every scan, any number of names, and every answer
of the searches in any order. Its assumption `FootprintReportAssumption` says how rows
look: a first-party profile shows the handle that was asked for. `ReportInv` says what
the finalizer may rely on: a source of a searched name is a first-party profile that
shows it, and stays one while other searches add accounts and names (`Waved`); what was
shown by an account's evidence is what the account shows, also when two
hypotheses met there (`Evident`); the selected account is among the sources of
its name if that is searched (`Included`). The finalizer keeps one match per account, so of
two names that one account anchors the stronger, or the first, counts, and
`PersonIsAnchored` says no more than that: the name of a person-centric brief is anchored,
no other name has an account that anchors it alone, and a name that is the only one
anchored, with such an account, heads the brief. The proof
goes through the names whose kept match passes (`Passing`), which lie between those
anchored alone and all anchored ones. Further, every CHOOSE of the report is
from a set that is not empty (`MatchIs`, `RepeatedIs`, `ReferenceIs`), and what is
cited lies in the snapshot (`Shown`).

`PacketIsSound` holds for every evidence, every limit and every size. Its invariant
`PacketInv` says how far the scan of sources came (`Reached`: what is packed or skipped
is what was looked at, in the ranked order `InOrder`); that the two running totals are
the sums of what was taken (`Weighed`, `Uncut`); what an account may cite (`Citing`);
and why a packet without an account has none (`Empty`: every account before the one it
ended at was unusable, and that one was too heavy for what the source budget leaves).
That the sorted sequence exists, which the model takes with a CHOOSE, is `OrderExists`:
a smallest set of sources without one (`Smallest`: strict subsets of a finite set are
well-founded) would have a last source, and without it a sorted sequence to append it to.
`EvidencePacketAssumption` says that a job's sources are finitely many, have ids of
their own, and have natural sizes.

Every invariant and every action property of a passing run is so a theorem, and both
refinements are. Only model-checked is liveness (`EventuallyClosed`, `ChooserIsLeft`,
`EveryoneComesToRest`, `EventuallyErased`, `StopReachesTheGateway`): the prover has
neither fairness nor ENABLED.

## 5. Where the code and its documents disagree

- **A lost synthesis task hangs a Deep job** (`lost_story`). `README.md:71-72` says
  that a lost task cannot leave discovery in progress for ever. A synthesis
  task that raises before its lease commits is rejected without requeue; its run is pending
  with no lease to reclaim and no deadline, and the watchdog skips it.
- **A settled run can be replayed** (`replay`). `docs/architecture.md:20` calls workers
  idempotent. A second delivery that read the run before the first settled it
  leases it again with a repeated generation. Nothing else does (theorem `NoReplay`),
  and the frozen report is not affected (`quick`, and theorem `ReportFrozen`).
- **Skipped for want of a key that is there** (`skipped`). When a reclaimed
  lease settles the last retrieval run, the job is advanced without settings and
  the synthesis is recorded as not configured.
- **A revocation is cleared** (`revoked`). `contracts/openapi.yaml:225-227`. A check
  that waited while its verification was superseded advances the superseded row,
  and the approval that follows sets its `revoked_at` to NULL. With three requests the
  same stale copy also lets an eligibility that a denial had ended come back.

Further disagreements were met while modelling and are described here without a
run of their own:

- `docs/privacy.md:96-98` speaks of unreferenced documents, but the DELETE of a job's
  deletion waits for a job that begins to use the document, does not look for uses
  again, and the cascade removes that use.
- A writer that finds a document reads its `expires_at` without a lock and extends it
  if its own job lives longer (`provider_runs.py:197-201`,
  `professional_search_runs.py:530-531`, `footprint_finalization.py:788-791`). It may
  so lower an expiry that another job has extended in between. If
  its transaction then outlives two expiry instants, the sweep finds a document
  expired that a living job uses, and deletes it. `WritersAreQuick` excludes this:
  a transaction takes seconds, expiries are days apart.
- `docs/privacy.md:97-99` says clearing repeats until complete; a batch that finds only
  locked jobs ends the loop (`FootprintHistoryDrawer.tsx:447`).
- `README.md:82-83`: when the newest run of a group is deleted between two pages, the
  group comes a second time.
- `README.md:39-41` asks for an independent anchor; a GitHub account found by the scan
  is fetched again through GitHub's API and matches its own handle.
- The search of another name can return the reference account, which is then
  excluded by that name before it is looked at as the reference; and the person of a
  brief is decided independently of the reference name, so that a brief about one
  person may join accounts of another (`footprint_finalization.py:1171`, `:1211`).
- A comment guarantees the broad query; with the smallest stagnation limit the
  settings accept, a location query without a new profile ends the run before it.

- `README.md:39-42` makes a brief about a person when one name alone is anchored. Two
  names may be anchored by one account: both derive its login, or GitHub's search finds
  it for both, it shows no name, and its social handle is that of the job. Of an
  account's matches only the strongest, or the first of them, is kept (`footprint_finalization.py:651-655`), so
  the brief is about one of the two, or, when the owner selected an account with the
  other name, about none, although the selected name is anchored as well.
- A second delivery of the synthesis task that read the run before the first leased it
  leases it too, with the same generation, and may ask `max_attempts` times again. Only one
  result is stored, and the cost of the other delivery is lost with it.
- The usage of earlier attempts is meant to be combined
  (`grounded_synthesis_runs.py:674`), but what the runner raises goes past it: JSON that
  is no object makes `_normalize_v4_extensions` raise (`providers/grounded_synthesis.py:1550-1556`), and
  `grounded_synthesis_input_invalid` is stored without any cost, or
  `grounded_synthesis_unexpected_failure` without that of the last attempt.
- `README.md:104-105` and `docs/privacy.md:89-92` say that the hourly sweep physically
  deletes expired jobs; it retires those of kind `footprint_discovery` only
  (`retention.py:26`). A Fast Brief job that has expired stays until its owner deletes
  it, and so do the documents it uses.

Where it matters, the properties state their exception: see `SettledIsFinal`,
`ClearEnds`, `NothingSkipped`.

## 6. Not modelled

- Parsing of web pages, the Maigret library, HTTP and the safe-fetch gateway: network
  I/O and text; their results are chosen freely in the models.
- The report's wording and layout (`_render_*`, the synthesis view), the prompt, and
  the provenance record: no decision reads them.
- The ranking of name hypotheses by their context (employers, topics), and the
  search plan without adaptive budgets: long scoring rules whose order the models
  choose freely.
- The priority order of the dispatcher over many jobs, queue priorities, catalog
  loading and shard planning.
- The expiry of tombstones (one DELETE), events and progress messages (append-only),
  cryptography, configuration, migrations, scripts, generated code.
