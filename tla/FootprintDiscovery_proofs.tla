---------------------- MODULE FootprintDiscovery_proofs ----------------------
(***************************************************************************)
(* The report of a discovery job is sound, whatever the workers, the       *)
(* broker, the maintenance pass and the owner do: the proofs for every     *)
(* number of shards, waves and workers, every timing, and any number of    *)
(* duplicated or lost deliveries.                                          *)
(*                                                                         *)
(* The first part is about the row functions of FootprintPipeline: each    *)
(* keeps the rows well formed and the published report sound.  The last    *)
(* part is what a job is owed when the broker delivers no message twice.   *)
(*                                                                         *)
(* IInv strengthens the type invariant by SoundReport and QuietWhenClosed. *)
(* A step preserves it because a worker, a reclaim or a cutoff that finds  *)
(* its run open has found the job open, and an open job has no report that *)
(* could become stale.                                                     *)
(***************************************************************************)
EXTENDS FootprintDiscovery, TLAPS

(***************************************************************************)
(* The row functions.                                                      *)
(***************************************************************************)

\* The strengthening that makes the report invariants inductive: a report
\* exists exactly when the job's status says so, it is the stored evidence
\* and narrative, and a job that is over has no open run.
SoundReport(d) ==
    /\ \A rep \in d.reports : rep.evidence = d.evidence /\ rep.story = d.story
    /\ d.status \in ReportedStates => d.reports # {}
    /\ d.status \notin ReportedStates => d.reports = {}

QuietWhenClosed(d) == Closed(d) => Settled(d, Scheduled(d))

Sound(d) == d \in Rows /\ SoundReport(d) /\ QuietWhenClosed(d)

\* What a function that advances an open job may do to it.
Onward(d, e) ==
    /\ Sound(e)
    /\ e.evidence = d.evidence
    /\ e.status = d.status \/ e.status \in ReportedStates

USE DEF JobStates, ClosedStates, ReportedStates

LEMMA OpenHasNoReport ==
    ASSUME NEW d, Sound(d), ~Closed(d)
    PROVE  d.reports = {}
BY DEF Sound, SoundReport, Closed

LEMMA LesserType ==
    ASSUME NEW a \in Nat, NEW b \in Nat
    PROVE  Lesser(a, b) \in Nat
BY DEF Lesser

\* Rows differ from d in a part that no soundness condition mentions.
LEMMA OpenStaysSound ==
    ASSUME NEW d, NEW e, Sound(d), ~Closed(d), e \in Rows,
           e.status = d.status, e.reports = d.reports
    PROVE  Sound(e)
<1>1. d.reports = {}
  BY OpenHasNoReport
<1>. QED
  BY <1>1 DEF Sound, SoundReport, QuietWhenClosed, Closed

\* Leaving an expired chooser.
LEMMA ExpireAnchorSound ==
    ASSUME NEW d, Sound(d), ~Closed(d)
    PROVE  /\ Sound(ExpireAnchor(d)) /\ ~Closed(ExpireAnchor(d))
           /\ ExpireAnchor(d).evidence = d.evidence
           /\ ExpireAnchor(d).status = d.status
<1>1. d \in Rows
  BY DEF Sound
<1>2. /\ ExpireAnchor(d) \in Rows
      /\ ExpireAnchor(d).status = d.status
      /\ ExpireAnchor(d).reports = d.reports
      /\ ExpireAnchor(d).evidence = d.evidence
  BY <1>1 DEF ExpireAnchor, Rows, ExplorationStates
<1>. QED
  BY <1>2, OpenStaysSound DEF Closed

LEMMA NewRunType ==
    ASSUME NEW st \in RunStates, NEW n \in Nat, NEW g \in Nat
    PROVE  [NewRun(st, n) EXCEPT !.epoch = g]
             \in [status : RunStates, gen : Nat, epoch : Nat, lease : Nat, left : Nat]
BY DEF NewRun

LEMMA MessageType ==
    ASSUME NEW r \in Runs, NEW g \in Nat \ {0}
    PROVE  Message(r, g) \in [run : Runs, gen : Nat \ {0}, sent : BOOLEAN]
BY DEF Message

\* Scheduling the professional wave.
LEMMA ScheduleWaveSound ==
    ASSUME NEW d, Sound(d), ~Closed(d)
    PROVE  Onward(d, ScheduleWave(d))
<1>1. d \in Rows
  BY DEF Sound
<1>. DEFINE e == ScheduleWave(d)
<1>2. Lesser(d.left, WaveBudget) \in Nat /\ d.epoch \in Nat
  BY <1>1, PipelineAssumption, LesserType DEF Rows
<1>3. "pending" \in RunStates
  BY DEF RunStates, WaitingStates
<1>4. e.run \in [Runs -> [status : RunStates, gen : Nat, epoch : Nat, lease : Nat, left : Nat]]
  BY <1>1, <1>2, <1>3, NewRunType DEF ScheduleWave, Rows
<1>5. e.outbox \in SUBSET [run : Runs, gen : Nat \ {0}, sent : BOOLEAN]
  <2>1. e.outbox = d.outbox \cup {Message(v, 1) : v \in Waves}
    BY <1>1 DEF ScheduleWave, Rows
  <2>2. \A v \in Waves : Message(v, 1) \in [run : Runs, gen : Nat \ {0}, sent : BOOLEAN]
    BY MessageType DEF Runs
  <2>3. d.outbox \in SUBSET [run : Runs, gen : Nat \ {0}, sent : BOOLEAN]
    BY <1>1 DEF Rows
  <2>. QED
    BY <2>1, <2>2, <2>3
<1>6. /\ e.status = d.status /\ e.reports = d.reports /\ e.evidence = d.evidence
      /\ e = [d EXCEPT !.exploration = "running", !.run = e.run, !.outbox = e.outbox]
  BY <1>1 DEF ScheduleWave, Rows
<1>7. e \in Rows
  BY <1>1, <1>4, <1>5, <1>6 DEF Rows, ExplorationStates
<1>. QED
  BY <1>6, <1>7, OpenStaysSound DEF Onward

\* Scheduling the synthesis run.
LEMMA ScheduleStorySound ==
    ASSUME NEW d, Sound(d), ~Closed(d)
    PROVE  Onward(d, ScheduleStory(d))
<1>1. d \in Rows
  BY DEF Sound
<1>. DEFINE e == ScheduleStory(d)
<1>2. "pending" \in RunStates /\ d.epoch \in Nat /\ Story \in Runs
  BY <1>1 DEF RunStates, WaitingStates, Rows, Runs
<1>3. [NewRun("pending", 0) EXCEPT !.epoch = d.epoch]
        \in [status : RunStates, gen : Nat, epoch : Nat, lease : Nat, left : Nat]
  BY <1>2, NewRunType
<1>4. e.run \in [Runs -> [status : RunStates, gen : Nat, epoch : Nat, lease : Nat, left : Nat]]
  BY <1>1, <1>2, <1>3 DEF ScheduleStory, Rows
<1>5. e.outbox \in SUBSET [run : Runs, gen : Nat \ {0}, sent : BOOLEAN]
  <2>1. e.outbox = d.outbox \cup {Message(Story, 1)}
    BY <1>1 DEF ScheduleStory, Rows
  <2>2. Message(Story, 1) \in [run : Runs, gen : Nat \ {0}, sent : BOOLEAN]
    BY <1>2, MessageType
  <2>3. d.outbox \in SUBSET [run : Runs, gen : Nat \ {0}, sent : BOOLEAN]
    BY <1>1 DEF Rows
  <2>. QED
    BY <2>1, <2>2, <2>3
<1>6. /\ e.status = d.status /\ e.reports = d.reports /\ e.evidence = d.evidence
      /\ e = [d EXCEPT !.exploration = "running", !.run = e.run, !.outbox = e.outbox]
  BY <1>1 DEF ScheduleStory, Rows
<1>7. e \in Rows
  BY <1>1, <1>4, <1>5, <1>6 DEF Rows, ExplorationStates
<1>. QED
  BY <1>6, <1>7, OpenStaysSound DEF Onward

\* Recording that there will be no synthesis.
LEMMA SkipStorySound ==
    ASSUME NEW d, Sound(d), ~Closed(d)
    PROVE  Onward(d, SkipStory(d)) /\ ~Closed(SkipStory(d))
<1>1. d \in Rows
  BY DEF Sound
<1>. DEFINE e == SkipStory(d)
<1>2. "skipped_configuration" \in RunStates /\ d.epoch \in Nat /\ Story \in Runs
  BY <1>1 DEF RunStates, SettledStates, Rows, Runs
<1>3. [NewRun("skipped_configuration", 0) EXCEPT !.epoch = d.epoch]
        \in [status : RunStates, gen : Nat, epoch : Nat, lease : Nat, left : Nat]
  BY <1>2, NewRunType
<1>4. e.run \in [Runs -> [status : RunStates, gen : Nat, epoch : Nat, lease : Nat, left : Nat]]
  BY <1>1, <1>2, <1>3 DEF SkipStory, Rows
<1>5. /\ e.status = d.status /\ e.reports = d.reports /\ e.evidence = d.evidence
      /\ e = [d EXCEPT !.run = e.run, !.story = "fallback"]
  BY <1>1 DEF SkipStory, Rows
<1>6. e \in Rows
  BY <1>1, <1>4, <1>5 DEF Rows
<1>. QED
  BY <1>5, <1>6, OpenStaysSound DEF Onward, Closed

\* Freezing: the report that appears is the evidence, and every run is settled
\* because finalization was entered only then.
LEMMA FinalizeSound ==
    ASSUME NEW d, Sound(d), ~Closed(d)
    PROVE  Onward(d, FinalizeIfComplete(d))
<1>1. d \in Rows /\ d.reports = {}
  BY OpenHasNoReport DEF Sound
<1>2. CASE ~Settled(d, Scheduled(d))
  BY <1>2 DEF FinalizeIfComplete, Onward
<1>3. CASE Settled(d, Scheduled(d))
  <2>. DEFINE e == Freeze(d)
              rep == [evidence |-> d.evidence,
                      story    |-> d.story,
                      manifest |-> [r \in Runs |-> d.run[r].status]]
  <2>1. FinalizeIfComplete(d) = e
    BY <1>1, <1>3 DEF FinalizeIfComplete
  <2>2. rep \in Report
    BY <1>1 DEF Rows, Report
  <2>3. FrozenStatus(d) \in ReportedStates
    BY DEF FrozenStatus
  <2>4. /\ e.status = FrozenStatus(d) /\ e.reports = {rep} /\ e.evidence = d.evidence
        /\ e.story = d.story /\ e.run = d.run
    BY <1>1 DEF Freeze, Rows
  <2>5. e \in Rows
    <3>1. e = [d EXCEPT !.status = FrozenStatus(d), !.exploration = "completed",
                        !.epoch = d.epoch + 1, !.reports = {rep}]
      BY <1>1 DEF Freeze
    <3>2. /\ FrozenStatus(d) \in JobStates /\ "completed" \in ExplorationStates
          /\ d.epoch + 1 \in Nat /\ {rep} \in SUBSET Report
      BY <1>1, <2>2, <2>3 DEF Rows, ExplorationStates
    <3>. QED
      BY ONLY <1>1, <3>1, <3>2 DEF Rows
  <2>6. SoundReport(e)
    BY <2>3, <2>4 DEF SoundReport
  <2>7. QuietWhenClosed(e)
    BY <1>3, <2>4 DEF QuietWhenClosed, Settled, Scheduled
  <2>. QED
    BY <2>1, <2>3, <2>4, <2>5, <2>6, <2>7 DEF Onward, Sound
<1>. QED
  BY <1>2, <1>3

\* finalize_discovery_if_complete never touches a job that is over, never
\* adds evidence, and ends a job only by publishing it.
LEMMA AdvanceSound ==
    ASSUME NEW d, Sound(d), NEW settings
    PROVE  Onward(d, Advance(d, settings)) /\ (Closed(d) => Advance(d, settings) = d)
<1>1. CASE Closed(d)
  BY <1>1 DEF Advance, Onward
<1>2. CASE ~Closed(d)
  <2>. DEFINE e == ExpireAnchor(d)
  <2>1. Sound(e) /\ ~Closed(e) /\ e.evidence = d.evidence /\ e.status = d.status
    BY <1>2, ExpireAnchorSound
  <2>2. Onward(d, d)
    BY DEF Onward
  <2>3. Onward(e, [e EXCEPT !.exploration = "awaiting_anchor"])
    <3>. DEFINE f == [e EXCEPT !.exploration = "awaiting_anchor"]
    <3>1. f \in Rows /\ f.status = e.status /\ f.reports = e.reports /\ f.evidence = e.evidence
      BY <2>1 DEF Sound, Rows, ExplorationStates
    <3>. QED
      BY <2>1, <3>1, OpenStaysSound DEF Onward
  <2>4. Onward(e, ScheduleWave(e)) /\ Onward(e, ScheduleStory(e)) /\ Onward(e, FinalizeIfComplete(e))
    BY <2>1, ScheduleWaveSound, ScheduleStorySound, FinalizeSound
  <2>5. Onward(e, FinalizeIfComplete(SkipStory(e)))
    <3>1. Onward(e, SkipStory(e)) /\ ~Closed(SkipStory(e))
      BY <2>1, SkipStorySound
    <3>2. Onward(SkipStory(e), FinalizeIfComplete(SkipStory(e)))
      BY <3>1, FinalizeSound DEF Onward
    <3>. QED
      BY <3>1, <3>2, <2>1 DEF Onward, Closed
  <2>6. \A x : Onward(e, x) => Onward(d, x)
    BY <2>1 DEF Onward
  <2>. QED
    BY <1>2, <2>2, <2>3, <2>4, <2>5, <2>6 DEF Advance
<1>. QED
  BY <1>1, <1>2

-----------------------------------------------------------------------------
(* The rows of a delivery *)

IInv == TypeOK /\ Sound(db)


LEMMA AcceptedJobSound == Sound(AcceptedJob)
<1>. DEFINE e == AcceptedJob
<1>1. e.status = "queued" /\ e.reports = {}
  BY DEF AcceptedJob
<1>2. \A r \in Runs : (IF r \in Shards THEN NewRun("pending", JobTime) ELSE NewRun("absent", 0))
        \in [status : RunStates, gen : Nat, epoch : Nat, lease : Nat, left : Nat]
  BY PipelineAssumption DEF NewRun, RunStates, WaitingStates
<1>3. e.run \in [Runs -> [status : RunStates, gen : Nat, epoch : Nat, lease : Nat, left : Nat]]
  BY <1>2 DEF AcceptedJob
<1>4. e.outbox \in SUBSET [run : Runs, gen : Nat \ {0}, sent : BOOLEAN]
  <2>1. e.outbox = {Message(s, 1) : s \in Shards}
    BY DEF AcceptedJob
  <2>2. \A s \in Shards : Message(s, 1) \in [run : Runs, gen : Nat \ {0}, sent : BOOLEAN]
    BY MessageType DEF Runs
  <2>. QED
    BY <2>1, <2>2
<1>5. e.attempts \in [Runs -> Seq(Attempt)]
  BY DEF AcceptedJob
<1>6. e \in Rows
  <2>1. e = [status |-> "queued", exploration |-> "idle", epoch |-> 1, left |-> JobTime,
             anchor |-> NoAnchor, run |-> e.run, attempts |-> e.attempts,
             outbox |-> e.outbox, evidence |-> {}, story |-> "none", reports |-> {}]
    BY DEF AcceptedJob
  <2>2. JobTime \in Nat
    BY PipelineAssumption
  <2>. QED
    BY ONLY <1>3, <1>4, <1>5, <2>1, <2>2
       DEF Rows, ExplorationStates, JobStates, ClosedStates, ReportedStates
<1>. QED
  BY <1>1, <1>6 DEF Sound, SoundReport, QuietWhenClosed, Closed

\* A function that changes attempt rows only.
AttemptsOnly(d, e) ==
    /\ e.attempts \in [Runs -> Seq(Attempt)]
    /\ e = [d EXCEPT !.attempts = e.attempts]

LEMMA AttemptsOnlySound ==
    ASSUME NEW d, NEW e, Sound(d), AttemptsOnly(d, e)
    PROVE  Sound(e) /\ e.run = d.run /\ e.status = d.status /\ e.evidence = d.evidence
           /\ e.outbox = d.outbox /\ e.epoch = d.epoch
<1>1. e \in Rows
  BY DEF Sound, AttemptsOnly, Rows
<1>2. /\ e.run = d.run /\ e.status = d.status /\ e.evidence = d.evidence
      /\ e.reports = d.reports /\ e.story = d.story /\ e.outbox = d.outbox
      /\ e.epoch = d.epoch
  BY DEF Sound, AttemptsOnly, Rows
<1>. QED
  BY <1>1, <1>2 DEF Sound, SoundReport, QuietWhenClosed, Settled, Scheduled, Closed

LEMMA AttemptUpdate ==
    ASSUME NEW d, d \in Rows, NEW r \in Runs, NEW i \in 1..Len(d.attempts[r]),
           NEW st \in {"running", "finished", "discarded"}
    PROVE  AttemptsOnly(d, [d EXCEPT !.attempts[r][i].status = st])
<1>. DEFINE q == d.attempts[r]
            a == [q[i] EXCEPT !.status = st]
            e == [d EXCEPT !.attempts[r][i].status = st]
<1>1. q \in Seq(Attempt) /\ q[i] \in Attempt
  BY DEF Rows
<1>2. a \in Attempt
  BY <1>1 DEF Attempt
<1>3. [q EXCEPT ![i] = a] \in Seq(Attempt)
  BY <1>1, <1>2
<1>4. e.attempts = [d.attempts EXCEPT ![r] = [q EXCEPT ![i] = a]]
  BY DEF Rows
<1>5. e.attempts \in [Runs -> Seq(Attempt)]
  BY <1>3, <1>4 DEF Rows
<1>. QED
  BY <1>5 DEF AttemptsOnly, Rows

LEMMA MarkAttemptOnly ==
    ASSUME NEW d, d \in Rows, NEW r \in Runs, NEW g,
           NEW st \in {"running", "finished", "discarded"},
           NEW e \in MarkAttempt(d, r, g, st)
    PROVE  AttemptsOnly(d, e)
<1>1. CASE e = d
  BY <1>1 DEF AttemptsOnly, Rows
<1>2. CASE \E i \in AttemptRows(d, r, g) : e = [d EXCEPT !.attempts[r][i].status = st]
  <2>1. PICK i \in AttemptRows(d, r, g) : e = [d EXCEPT !.attempts[r][i].status = st]
    BY <1>2
  <2>2. i \in 1..Len(d.attempts[r])
    BY DEF AttemptRows
  <2>. QED
    BY ONLY <2>1, <2>2, AttemptUpdate, d \in Rows, r \in Runs,
            st \in {"running", "finished", "discarded"}
<1>. QED
  BY <1>1, <1>2 DEF MarkAttempt

LEMMA DiscardAttemptOnly ==
    ASSUME NEW d, d \in Rows, NEW r \in Runs, NEW g, NEW e \in DiscardAttempt(d, r, g)
    PROVE  AttemptsOnly(d, e)
<1>1. CASE e = d
  BY <1>1 DEF AttemptsOnly, Rows
<1>2. CASE \E i \in AttemptRows(d, r, g) :
             e = [d EXCEPT !.attempts[r][i].status = "discarded"]
  <2>1. PICK i \in AttemptRows(d, r, g) : e = [d EXCEPT !.attempts[r][i].status = "discarded"]
    BY <1>2
  <2>2. i \in 1..Len(d.attempts[r])
    BY DEF AttemptRows
  <2>. QED
    BY ONLY <2>1, <2>2, AttemptUpdate, d \in Rows, r \in Runs
<1>. QED
  BY <1>1, <1>2 DEF DiscardAttempt

\* A run that is not settled shows that the job is open.
LEMMA OpenRunOpenJob ==
    ASSUME NEW d, Sound(d), NEW r \in Runs,
           d.run[r].status \notin SettledStates, d.run[r].status # "absent"
    PROVE  ~Closed(d)
BY DEF Sound, QuietWhenClosed, Settled, Scheduled

RunRow == [status : RunStates, gen : Nat, epoch : Nat, lease : Nat, left : Nat]

\* Replacing the run rows.
LEMMA RunUpdate ==
    ASSUME NEW d, d \in Rows, NEW f \in [Runs -> RunRow]
    PROVE  /\ [d EXCEPT !.run = f] \in Rows
           /\ [d EXCEPT !.run = f].status = d.status
           /\ [d EXCEPT !.run = f].reports = d.reports
           /\ [d EXCEPT !.run = f].evidence = d.evidence
           /\ [d EXCEPT !.run = f].story = d.story
           /\ [d EXCEPT !.run = f].run = f
BY DEF Rows, RunRow

\* A run row in another state.
LEMMA RunInState ==
    ASSUME NEW x \in RunRow, NEW st \in RunStates
    PROVE  [x EXCEPT !.status = st] \in RunRow /\ [x EXCEPT !.status = st].status = st
BY DEF RunRow

\* Replacing what the synthesis left for the report.
LEMMA StoryUpdate ==
    ASSUME NEW d, d \in Rows, NEW s \in {"none", "fallback", "narrative"},
           NEW e, e = [d EXCEPT !.story = s]
    PROVE  /\ e \in Rows
           /\ e.status = d.status /\ e.exploration = d.exploration /\ e.left = d.left
           /\ e.anchor = d.anchor /\ e.attempts = d.attempts /\ e.run = d.run
           /\ e.evidence = d.evidence /\ e.outbox = d.outbox /\ e.reports = d.reports
BY DEF Rows

\* One more attempt.
LEMMA AttemptAdded ==
    ASSUME NEW s \in Seq(Attempt), NEW g \in Nat
    PROVE  Append(s, [gen |-> g + 1, status |-> "running"]) \in Seq(Attempt)
<1>1. [gen |-> g + 1, status |-> "running"] \in Attempt
  BY DEF Attempt
<1>. QED
  BY <1>1

\* Replacing an element of a sequence.
LEMMA ElementReplaced ==
    ASSUME NEW S, NEW q \in Seq(S), NEW i \in 1..Len(q), NEW a \in S
    PROVE  [q EXCEPT ![i] = a] \in Seq(S)
OBVIOUS

\* Setting the status of one run of an open job.
LEMMA SetRunSound ==
    ASSUME NEW d, Sound(d), ~Closed(d), NEW r \in Runs, NEW st \in RunStates
    PROVE  /\ Sound(SetRun(d, r, st)) /\ ~Closed(SetRun(d, r, st))
           /\ SetRun(d, r, st).evidence = d.evidence
           /\ SetRun(d, r, st).status = d.status
           /\ Sound(Unleased(d, r, st)) /\ ~Closed(Unleased(d, r, st))
           /\ Unleased(d, r, st).evidence = d.evidence
           /\ Unleased(d, r, st).status = d.status
<1>. DEFINE e == SetRun(d, r, st)
            u == Unleased(d, r, st)
<1>1. d \in Rows /\ d.run \in [Runs -> RunRow] /\ d.run[r] \in RunRow
  BY DEF Sound, Rows, RunRow
<1>. DEFINE x == [d.run[r] EXCEPT !.status = st, !.lease = 0]
            y == [d.run[r] EXCEPT !.status = st]
<1>2. e = [d EXCEPT !.run = [d.run EXCEPT ![r] = x]]
  BY <1>1 DEF SetRun, RunRow
<1>3. u = [d EXCEPT !.run = [d.run EXCEPT ![r] = y]]
  BY <1>1 DEF Unleased, RunRow
<1>4. x \in RunRow /\ y \in RunRow
  BY <1>1 DEF RunRow
<1>. HIDE DEF x, y
<1>5. [d.run EXCEPT ![r] = x] \in [Runs -> RunRow] /\ [d.run EXCEPT ![r] = y] \in [Runs -> RunRow]
  BY <1>1, <1>4
<1>6. /\ e \in Rows /\ u \in Rows
      /\ e.status = d.status /\ e.reports = d.reports /\ e.evidence = d.evidence
      /\ u.status = d.status /\ u.reports = d.reports /\ u.evidence = d.evidence
  BY <1>1, <1>2, <1>3, <1>5, RunUpdate
<1>. QED
  BY <1>6, OpenStaysSound DEF Closed

LEMMA SettleSound ==
    ASSUME NEW d, Sound(d), ~Closed(d), NEW r \in Runs, NEW o \in OutcomeStates
    PROVE  /\ Sound(Settle(d, r, o)) /\ ~Closed(Settle(d, r, o))
           /\ d.evidence \subseteq Settle(d, r, o).evidence
           /\ Settle(d, r, o).status = d.status
<1>. DEFINE f == SetRun(d, r, o)
            e == Settle(d, r, o)
<1>1. o \in RunStates
  BY DEF RunStates, SettledStates
<1>2. Sound(f) /\ ~Closed(f) /\ f.evidence = d.evidence /\ f.status = d.status /\ f \in Rows
  BY <1>1, SetRunSound DEF Sound
<1>3. /\ e.evidence \in SUBSET (Shards \cup Waves) /\ f.evidence \subseteq e.evidence
      /\ e.story \in {"none", "fallback", "narrative"}
      /\ e = [f EXCEPT !.evidence = e.evidence, !.story = e.story]
  BY <1>2 DEF Settle, Rows, Runs
<1>4. e \in Rows /\ e.status = f.status /\ e.reports = f.reports
  BY <1>2, <1>3 DEF Rows
<1>. QED
  BY <1>2, <1>3, <1>4, OpenStaysSound DEF Closed

-----------------------------------------------------------------------------
(* One step of the job *)

\* What any step may do to the rows, in the terms of the promise: leave status,
\* evidence and reports alone; move an open job on; cancel it; erase it.
Kept(d, e) ==
    \/ e.status = d.status /\ e.evidence = d.evidence /\ e.reports = d.reports
    \/ ~Closed(d) /\ d.evidence \subseteq e.evidence /\ e.status \notin {"cancelled", "deleted"}
    \/ ~Closed(d) /\ e.evidence = d.evidence /\ e.status = "cancelled"
    \/ d.status # "deleted" /\ e.status = "deleted" /\ e.evidence = {}

LEMMA OpenIsSound ==
    ASSUME NEW e, e \in Rows, ~Closed(e), e.reports = {}
    PROVE  Sound(e)
BY DEF Sound, SoundReport, QuietWhenClosed, Closed

\* A step that changes no status, evidence, narrative or report.
LEMMA UntouchedSound ==
    ASSUME NEW d, Sound(d), NEW e, e \in Rows,
           e.status = d.status, e.evidence = d.evidence, e.reports = d.reports,
           e.story = d.story, \A r \in Runs : e.run[r].status = d.run[r].status
    PROVE  Sound(e) /\ Kept(d, e)
BY DEF Sound, SoundReport, QuietWhenClosed, Settled, Scheduled, Closed, Kept

\* A step that ends in finalize_discovery_if_complete.
LEMMA AdvanceKept ==
    ASSUME NEW d, NEW f, NEW settings, Sound(d), Sound(f), f.status = d.status,
           f = d \/ (~Closed(d) /\ d.evidence \subseteq f.evidence)
    PROVE  Sound(Advance(f, settings)) /\ Kept(d, Advance(f, settings))
<1>. DEFINE e == Advance(f, settings)
<1>1. Onward(f, e) /\ (Closed(f) => e = f)
  BY AdvanceSound
<1>2. CASE Closed(d)
  BY <1>1, <1>2 DEF Onward, Kept, Closed
<1>3. CASE ~Closed(d)
  <2>1. d.evidence \subseteq e.evidence /\ e.status \notin {"cancelled", "deleted"}
    BY <1>1, <1>3 DEF Onward, Closed
  <2>. QED
    BY <1>1, <1>3, <2>1 DEF Onward, Kept
<1>. QED
  BY <1>2, <1>3

LEMMA SeenTypes ==
    ASSUME TypeOK, NEW w \in Workers, worker[w].pc = "seen"
    PROVE  worker[w].run \in Runs /\ worker[w].gen \in Nat /\ worker[w].status \in RunStates
BY DEF TypeOK, WorkerStates, Idle

LEMMA WorkingTypes ==
    ASSUME TypeOK, NEW w \in Workers, worker[w].pc = "working"
    PROVE  worker[w].run \in Runs /\ worker[w].gen \in Nat /\ worker[w].epoch \in Nat
BY DEF TypeOK, WorkerStates, Idle

LEMMA GotoIdle ==
    ASSUME TypeOK, NEW w \in Workers, Goto(w, Idle)
    PROVE  worker' \in [Workers -> WorkerStates]
BY DEF TypeOK, WorkerStates, Goto

\* A step of worker w that leaves broker and maintenance alone and goes idle.
LEMMA IdleStep ==
    ASSUME TypeOK, NEW w \in Workers, Goto(w, Idle), UNCHANGED <<broker, maint>>, Sound(db')
    PROVE  IInv'
BY GotoIdle DEF IInv, TypeOK, Sound

-----------------------------------------------------------------------------
(* Dispatcher, broker and the workers' steps outside the job lock *)

LEMMA BrokerStep ==
    ASSUME IInv, NEW r \in Runs, Enqueue(r) \/ Duplicate(r)
    PROVE  broker' \in [queue : SUBSET Runs, again : Nat]
<1>1. CASE Enqueue(r)
  BY <1>1 DEF IInv, TypeOK, Enqueue
<1>2. CASE Duplicate(r)
  <2>1. broker.again - 1 \in Nat
    BY <1>2 DEF IInv, TypeOK, Duplicate
  <2>. QED
    BY <1>2, <2>1 DEF IInv, TypeOK, Duplicate
<1>. QED
  BY <1>1, <1>2

LEMMA DispatchStep ==
    ASSUME IInv, NEW m \in db.outbox, Dispatch(m) \/ DispatchCrash(m)
    PROVE  IInv' /\ Kept(db, db')
<1>1. db \in Rows /\ m \in [run : Runs, gen : Nat \ {0}, sent : BOOLEAN] /\ m.run \in Runs
  BY DEF IInv, TypeOK, Rows
<1>2. broker' \in [queue : SUBSET Runs, again : Nat]
  BY <1>1, BrokerStep DEF Dispatch, DispatchCrash
<1>3. CASE Dispatch(m)
  <2>1. [m EXCEPT !.sent = TRUE] \in [run : Runs, gen : Nat \ {0}, sent : BOOLEAN]
    BY <1>1
  <2>2. db' \in Rows /\ db' = [db EXCEPT !.outbox = db'.outbox]
    BY <1>1, <1>3, <2>1 DEF Dispatch, Rows
  <2>3. /\ db'.status = db.status /\ db'.evidence = db.evidence /\ db'.reports = db.reports
        /\ db'.story = db.story /\ db'.run = db.run
    BY <1>1, <2>2 DEF Rows
  <2>4. Sound(db') /\ Kept(db, db')
    BY <2>2, <2>3, UntouchedSound DEF IInv
  <2>. QED
    BY <1>2, <1>3, <2>2, <2>4 DEF IInv, TypeOK, Dispatch
<1>4. CASE DispatchCrash(m)
  BY <1>2, <1>4 DEF IInv, TypeOK, DispatchCrash, Kept
<1>. QED
  BY <1>3, <1>4

LEMMA ReceiveStep ==
    ASSUME IInv, NEW w \in Workers, NEW r \in Runs, Receive(w, r)
    PROVE  IInv' /\ Kept(db, db')
<1>1. broker' \in [queue : SUBSET Runs, again : Nat]
  BY DEF IInv, TypeOK, Receive
<1>2. db.run[r].status \in RunStates /\ db.run[r].gen \in Nat
  BY DEF IInv, TypeOK, Rows
<1>3. worker' \in [Workers -> WorkerStates]
  <2>. DEFINE x == [pc |-> "seen", run |-> r, status |-> db.run[r].status, gen |-> db.run[r].gen]
  <2>1. x \in WorkerStates
    BY <1>2 DEF WorkerStates
  <2>2. worker' = worker \/ worker' = [worker EXCEPT ![w] = x]
    BY DEF Receive, Goto
  <2>. QED
    BY <2>1, <2>2 DEF IInv, TypeOK
<1>. QED
  BY <1>1, <1>3 DEF IInv, TypeOK, Receive, Kept

\* Crash, CrashRequeued, TaskLost and Redeliver leave the database alone.
LEMMA CrashStep ==
    ASSUME IInv, NEW w \in Workers,
           Crash(w) \/ CrashRequeued(w) \/ TaskLost(w) \/ Redeliver(w)
    PROVE  IInv' /\ Kept(db, db')
<1>1. db' = db /\ maint' = maint
  BY DEF Crash, CrashRequeued, TaskLost, Redeliver
<1>2. worker' \in [Workers -> WorkerStates]
  BY GotoIdle DEF Crash, CrashRequeued, TaskLost, Redeliver, IInv, TypeOK
<1>3. broker' \in [queue : SUBSET Runs, again : Nat]
  <2>1. CASE Crash(w) \/ TaskLost(w)
    BY <2>1 DEF Crash, TaskLost, IInv, TypeOK
  <2>2. CASE CrashRequeued(w)
    BY <2>2, SeenTypes, BrokerStep DEF CrashRequeued, IInv
  <2>3. CASE Redeliver(w)
    <3>1. worker[w].run \in Runs
      BY <2>3 DEF Redeliver, IInv, TypeOK, WorkerStates, Idle, Runs
    <3>. QED
      BY <2>3, <3>1, BrokerStep DEF Redeliver
  <2>. QED
    BY <2>1, <2>2, <2>3
<1>. QED
  BY <1>1, <1>2, <1>3 DEF IInv, TypeOK, Kept

-----------------------------------------------------------------------------
(* Worker transactions *)

LEMMA LeaseTimeType ==
    ASSUME NEW d, d \in Rows, NEW r \in Runs
    PROVE  LeaseTime(d, r) \in Nat
<1>1. d.run[r].left \in Nat
  BY DEF Rows
<1>. QED
  BY <1>1, DiscoveryAssumption DEF LeaseTime

LEMMA LeasedRow ==
    ASSUME NEW x \in RunRow, NEW st \in RunStates, NEW g \in Nat, NEW l \in Nat, NEW e \in Nat
    PROVE  [x EXCEPT !.status = st, !.gen = g, !.lease = l, !.epoch = e] \in RunRow
BY DEF RunRow

LEMMA LeaseStep ==
    ASSUME IInv, NEW w \in Workers, Lease(w)
    PROVE  IInv' /\ Kept(db, db')
<1>. DEFINE r == worker[w].run
            g == worker[w].gen
            row == [db.run[r] EXCEPT !.status = "running", !.gen = g + 1,
                                     !.lease = LeaseTime(db, r), !.epoch = db.epoch]
            log == Append(db.attempts[r], [gen |-> g + 1, status |-> "running"])
<1>1. r \in Runs /\ g \in Nat /\ db \in Rows /\ ~Closed(db) /\ db.reports = {}
  BY SeenTypes, OpenHasNoReport DEF IInv, TypeOK, Lease, Closed
<1>2. row \in RunRow
  <2>1. LeaseTime(db, r) \in Nat
    BY <1>1, LeaseTimeType
  <2>2. db.run[r] \in RunRow /\ db.epoch \in Nat /\ "running" \in RunStates
    BY <1>1 DEF Rows, RunRow, RunStates
  <2>3. g + 1 \in Nat
    BY <1>1
  <2>. QED
    BY <2>1, <2>2, <2>3, LeasedRow
<1>3. log \in Seq(Attempt)
  <2>1. db.attempts[r] \in Seq(Attempt)
    BY <1>1 DEF Rows
  <2>. QED
    BY <1>1, <2>1, AttemptAdded
<1>. HIDE DEF row, log
<1>4. /\ [db.run EXCEPT ![r] = row] \in [Runs -> RunRow]
      /\ [db.attempts EXCEPT ![r] = log] \in [Runs -> Seq(Attempt)]
  BY <1>1, <1>2, <1>3 DEF Rows, RunRow
<1>5. /\ db' = [db EXCEPT !.run = [db.run EXCEPT ![r] = row],
                          !.attempts = [db.attempts EXCEPT ![r] = log],
                          !.exploration = db'.exploration,
                          !.status = db'.status]
      /\ db'.exploration \in {"running", db.exploration}
      /\ db'.status \in {"discovering", db.status}
  BY <1>1 DEF Lease, TakeLease, Rows, row, log
<1>6. db' \in Rows /\ db'.reports = {} /\ db'.evidence = db.evidence
  <2>1. "running" \in ExplorationStates /\ "discovering" \in JobStates
    BY DEF ExplorationStates, JobStates
  <2>2. db'.exploration \in ExplorationStates /\ db'.status \in JobStates
    BY <1>1, <1>5, <2>1 DEF Rows
  <2>. DEFINE f == [db.run EXCEPT ![r] = row]
              al == [db.attempts EXCEPT ![r] = log]
              ex == db'.exploration
              st == db'.status
  <2>3. f \in [Runs -> RunRow] /\ al \in [Runs -> Seq(Attempt)]
    BY <1>4
  <2>4. db' = [db EXCEPT !.run = f, !.attempts = al, !.exploration = ex, !.status = st]
    BY <1>5
  <2>5. ex \in ExplorationStates /\ st \in JobStates
    BY <2>2
  <2>. HIDE DEF f, al, ex, st
  <2>. QED
    BY <1>1, <2>3, <2>4, <2>5 DEF Rows, RunRow
<1>7. ~Closed(db') /\ Kept(db, db')
  BY <1>1, <1>5, <1>6 DEF Closed, Kept
<1>8. Sound(db')
  BY <1>6, <1>7, OpenIsSound
<1>9. worker' \in [Workers -> WorkerStates]
  <2>. DEFINE x == [pc |-> "working", run |-> r, gen |-> g + 1, epoch |-> db.epoch]
  <2>1. x \in WorkerStates
    BY <1>1 DEF WorkerStates, Rows
  <2>2. worker' = [worker EXCEPT ![w] = x]
    BY DEF Lease, Goto
  <2>. QED
    BY <2>1, <2>2 DEF IInv, TypeOK
<1>. QED
  BY <1>6, <1>7, <1>8, <1>9 DEF IInv, TypeOK, Lease

\* An open job whose run is closed before it was leased, and then advanced.
LEMMA UnleasedKept ==
    ASSUME NEW d, Sound(d), ~Closed(d), NEW r \in Runs, NEW st \in RunStates
    PROVE  Sound(Advance(Unleased(d, r, st), TRUE)) /\ Kept(d, Advance(Unleased(d, r, st), TRUE))
BY SetRunSound, AdvanceKept

LEMMA LeaseDeclinedStep ==
    ASSUME IInv, NEW w \in Workers, LeaseDeclined(w)
    PROVE  IInv' /\ Kept(db, db')
<1>. DEFINE r == worker[w].run
<1>1. /\ r \in Runs /\ db \in Rows /\ Sound(db) /\ TypeOK
      /\ Goto(w, Idle) /\ UNCHANGED <<broker, maint>>
  BY SeenTypes DEF IInv, TypeOK, LeaseDeclined
<1>2. CASE db' = db
  BY <1>1, <1>2, IdleStep DEF Kept
<1>3. CASE Closed(db) /\ db' = Unleased(db, r, "cancelled")
  \* The cancelled run is settled, so the closed job stays quiet.
  <2>. DEFINE x == [db.run[r] EXCEPT !.status = "cancelled"]
  <2>1. x \in RunRow /\ x.status = "cancelled"
    <3>1. db.run[r] \in RunRow
      BY <1>1 DEF Rows, RunRow
    <3>2. "cancelled" \in RunStates
      BY DEF RunStates, SettledStates
    <3>. QED
      BY <3>1, <3>2, RunInState
  <2>. HIDE DEF x
  <2>2. [db.run EXCEPT ![r] = x] \in [Runs -> RunRow]
    BY <1>1, <2>1 DEF Rows, RunRow
  <2>3. db' = [db EXCEPT !.run = [db.run EXCEPT ![r] = x]]
    BY <1>1, <1>3 DEF Unleased, Rows, x
  <2>4. /\ db' \in Rows /\ db'.status = db.status /\ db'.reports = db.reports
        /\ db'.evidence = db.evidence /\ db'.story = db.story
        /\ db'.run = [db.run EXCEPT ![r] = x]
    BY <1>1, <2>2, <2>3, RunUpdate
  <2>5. \A q \in Runs : db'.run[q].status = IF q = r THEN "cancelled" ELSE db.run[q].status
    BY <1>1, <2>1, <2>4 DEF Rows
  <2>6. QuietWhenClosed(db')
    BY <1>1, <1>3, <2>5 DEF Sound, QuietWhenClosed, Settled, Scheduled, SettledStates
  <2>7. Sound(db')
    BY <1>1, <2>4, <2>6 DEF Sound, SoundReport
  <2>. QED
    BY <1>1, <2>4, <2>7, IdleStep DEF Kept
<1>4. CASE ~Closed(db) /\ db' = Advance(Unleased(db, r, "closed_at_cutoff"), TRUE)
  <2>1. "closed_at_cutoff" \in RunStates
    BY DEF RunStates, SettledStates
  <2>2. Sound(db') /\ Kept(db, db')
    BY <1>1, <1>4, <2>1, UnleasedKept
  <2>. QED
    BY <1>1, <2>2, IdleStep
<1>. QED
  BY <1>2, <1>3, <1>4 DEF LeaseDeclined, Closed

LEMMA ShardSwitchedOffStep ==
    ASSUME IInv, NEW w \in Workers, NEW st \in {"cancelled", "provider_error"},
           ShardSwitchedOff(w, st)
    PROVE  IInv' /\ Kept(db, db')
<1>1. /\ worker[w].run \in Runs /\ Sound(db) /\ ~Closed(db) /\ TypeOK
      /\ Goto(w, Idle) /\ UNCHANGED <<broker, maint>>
      /\ db' = Advance(Unleased(db, worker[w].run, st), TRUE)
  BY SeenTypes DEF IInv, ShardSwitchedOff, Closed
<1>2. st \in RunStates
  BY DEF RunStates, SettledStates, OutcomeStates
<1>3. Sound(db') /\ Kept(db, db')
  BY <1>1, <1>2, UnleasedKept
<1>. QED
  BY <1>1, <1>3, IdleStep

LEMMA CompleteFencedStep ==
    ASSUME IInv, NEW w \in Workers, CompleteFenced(w)
    PROVE  IInv' /\ Kept(db, db')
<1>1. /\ worker[w].run \in Runs /\ db \in Rows /\ Sound(db) /\ TypeOK
      /\ Goto(w, Idle) /\ UNCHANGED <<broker, maint>>
      /\ db' \in DiscardAttempt(db, worker[w].run, worker[w].gen)
  BY WorkingTypes DEF IInv, TypeOK, CompleteFenced
<1>2. AttemptsOnly(db, db')
  BY <1>1, DiscardAttemptOnly
<1>3. Sound(db') /\ db'.status = db.status /\ db'.evidence = db.evidence
  BY <1>1, <1>2, AttemptsOnlySound
<1>4. db'.reports = db.reports
  BY <1>1, <1>2 DEF AttemptsOnly, Rows
<1>. QED
  BY <1>1, <1>3, <1>4, IdleStep DEF Kept

\* A completion that passes the fence has found its run running.
LEMMA PassedFence ==
    ASSUME IInv, NEW w \in Workers, worker[w].pc = "working", ~Fenced(db, worker[w])
    PROVE  ~Closed(db) /\ worker[w].run \in Runs
<1>1. worker[w].run \in Runs /\ db.run[worker[w].run].status = "running"
  BY WorkingTypes DEF IInv, Fenced
<1>2. "running" \notin SettledStates
  BY DEF SettledStates, OutcomeStates
<1>. QED
  BY <1>1, <1>2, OpenRunOpenJob DEF IInv

\* The rows after a result was marked and settled.
LEMMA MarkedSound ==
    ASSUME NEW d, Sound(d), ~Closed(d), NEW r \in Runs, NEW g,
           NEW st \in {"running", "finished", "discarded"}, NEW e \in MarkAttempt(d, r, g, st)
    PROVE  Sound(e) /\ ~Closed(e) /\ e.status = d.status /\ e.evidence = d.evidence /\ e.run = d.run
BY MarkAttemptOnly, AttemptsOnlySound DEF Sound, Closed

LEMMA CompleteShardStep ==
    ASSUME IInv, NEW w \in Workers, NEW o \in Outcomes, CompleteShard(w, o)
    PROVE  IInv' /\ Kept(db, db')
<1>. DEFINE r == worker[w].run
<1>1. Sound(db) /\ ~Closed(db) /\ r \in Shards /\ r \in Runs /\ o \in OutcomeStates
  BY PassedFence, DiscoveryAssumption DEF IInv, CompleteShard
<1>2. PICK d \in MarkAttempt(db, r, worker[w].gen, "finished") : db' = Settle(d, r, o)
  BY DEF CompleteShard
<1>3. Sound(d) /\ ~Closed(d) /\ d.status = db.status /\ d.evidence = db.evidence
  BY <1>1, MarkedSound
<1>4. Sound(db') /\ ~Closed(db') /\ db.evidence \subseteq db'.evidence
  BY <1>1, <1>2, <1>3, SettleSound
<1>5. Kept(db, db')
  BY <1>1, <1>4 DEF Kept, Closed
<1>6. worker' \in [Workers -> WorkerStates]
  <2>. DEFINE x == [pc |-> "advancing", run |-> r]
  <2>1. x \in WorkerStates
    BY <1>1 DEF WorkerStates
  <2>2. worker' = [worker EXCEPT ![w] = x]
    BY DEF CompleteShard, Goto
  <2>. QED
    BY <2>1, <2>2 DEF IInv, TypeOK
<1>. QED
  BY <1>4, <1>5, <1>6 DEF IInv, TypeOK, CompleteShard, Sound

LEMMA AdvanceAfterScanStep ==
    ASSUME IInv, NEW w \in Workers, AdvanceAfterScan(w)
    PROVE  IInv' /\ Kept(db, db')
<1>1. Sound(db') /\ Kept(db, db')
  BY AdvanceKept DEF IInv, AdvanceAfterScan
<1>. QED
  BY <1>1, IdleStep DEF IInv, AdvanceAfterScan

\* A result, or its late discard, and the advance of the job in one transaction.
LEMMA SettledAndAdvanced ==
    ASSUME NEW d, Sound(d), ~Closed(d), NEW r \in Runs, NEW g,
           NEW st \in {"running", "finished", "discarded"}, NEW e \in MarkAttempt(d, r, g, st),
           NEW o \in OutcomeStates
    PROVE  /\ Sound(Advance(Settle(e, r, o), TRUE)) /\ Kept(d, Advance(Settle(e, r, o), TRUE))
           /\ Sound(Advance(SetRun(e, r, "closed_at_cutoff"), TRUE))
           /\ Kept(d, Advance(SetRun(e, r, "closed_at_cutoff"), TRUE))
<1>1. Sound(e) /\ ~Closed(e) /\ e.status = d.status /\ e.evidence = d.evidence
  BY MarkedSound
<1>2. "closed_at_cutoff" \in RunStates
  BY DEF RunStates, SettledStates
<1>. DEFINE s == Settle(e, r, o)
            c == SetRun(e, r, "closed_at_cutoff")
<1>3. Sound(s) /\ s.status = d.status /\ d.evidence \subseteq s.evidence
  BY <1>1, SettleSound
<1>4. Sound(c) /\ c.status = d.status /\ d.evidence \subseteq c.evidence
  BY <1>1, <1>2, SetRunSound
<1>. HIDE DEF s, c
<1>5. Sound(Advance(s, TRUE)) /\ Kept(d, Advance(s, TRUE))
  BY <1>3, AdvanceKept
<1>6. Sound(Advance(c, TRUE)) /\ Kept(d, Advance(c, TRUE))
  BY <1>4, AdvanceKept
<1>. QED
  BY <1>5, <1>6 DEF s, c

LEMMA CompleteWaveStep ==
    ASSUME IInv, NEW w \in Workers, NEW o \in Outcomes, CompleteWave(w, o)
    PROVE  IInv' /\ Kept(db, db')
<1>1. Sound(db) /\ ~Closed(db) /\ worker[w].run \in Runs /\ o \in OutcomeStates
  BY PassedFence, DiscoveryAssumption DEF IInv, CompleteWave
<1>2. Sound(db') /\ Kept(db, db')
  BY <1>1, SettledAndAdvanced DEF CompleteWave
<1>. QED
  BY <1>2, IdleStep DEF IInv, CompleteWave

LEMMA CompleteStoryStep ==
    ASSUME IInv, NEW w \in Workers, NEW o \in Outcomes, CompleteStory(w, o)
    PROVE  IInv' /\ Kept(db, db')
<1>1. Sound(db) /\ ~Closed(db) /\ worker[w].run \in Runs /\ o \in OutcomeStates
  BY PassedFence, DiscoveryAssumption DEF IInv, CompleteStory
<1>2. Sound(db') /\ Kept(db, db')
  <2>1. PICK d \in MarkAttempt(db, worker[w].run, worker[w].gen, "finished") :
           db' = Advance(Settle(d, worker[w].run, o), TRUE)
    BY DEF CompleteStory
  <2>. QED
    BY <1>1, <2>1, SettledAndAdvanced
<1>. QED
  BY <1>2, IdleStep DEF IInv, CompleteStory

LEMMA HeartbeatStep ==
    ASSUME IInv, NEW w \in Workers, Heartbeat(w)
    PROVE  IInv' /\ Kept(db, db')
<1>. DEFINE x == [db.run[Story] EXCEPT !.lease = StoryLease]
<1>1. db \in Rows /\ Story \in Runs /\ StoryLease \in Nat
  BY DiscoveryAssumption DEF IInv, TypeOK, Runs
<1>2. x \in RunRow /\ x.status = db.run[Story].status
  BY <1>1 DEF Rows, RunRow
<1>. HIDE DEF x
<1>3. [db.run EXCEPT ![Story] = x] \in [Runs -> RunRow]
  BY <1>1, <1>2 DEF Rows, RunRow
<1>4. db' = [db EXCEPT !.run = [db.run EXCEPT ![Story] = x]]
  BY <1>1 DEF Heartbeat, Rows, x
<1>5. /\ db' \in Rows /\ db'.status = db.status /\ db'.reports = db.reports
      /\ db'.evidence = db.evidence /\ db'.story = db.story
      /\ db'.run = [db.run EXCEPT ![Story] = x]
  BY <1>1, <1>3, <1>4, RunUpdate
<1>6. \A q \in Runs : db'.run[q].status = db.run[q].status
  BY <1>1, <1>2, <1>5 DEF Rows
<1>7. Sound(db') /\ Kept(db, db')
  BY <1>5, <1>6, UntouchedSound DEF IInv
<1>. QED
  BY <1>5, <1>7 DEF IInv, TypeOK, Heartbeat

-----------------------------------------------------------------------------
(* Maintenance *)

\* A step that only moves the maintenance pass.
LEMMA MaintenancePassStep ==
    ASSUME IInv, MaintenanceStart \/ MaintenanceReclaimed
    PROVE  IInv' /\ Kept(db, db')
<1>1. db' = db /\ broker' = broker /\ worker' = worker
  BY DEF MaintenanceStart, MaintenanceReclaimed
<1>2. maint' \in [phase : {"start", "reclaim", "advance", "expire"},
                  todo : SUBSET Runs, intime : SUBSET Runs]
  <2>1. CASE MaintenanceStart
    BY <2>1 DEF MaintenanceStart, Expired
  <2>2. CASE MaintenanceReclaimed
    BY <2>2 DEF MaintenanceReclaimed, IInv, TypeOK
  <2>. QED
    BY <2>1, <2>2
<1>. QED
  BY <1>1, <1>2 DEF IInv, TypeOK, Kept

LEMMA RetrySound ==
    ASSUME NEW d, Sound(d), ~Closed(d), NEW r \in Runs
    PROVE  Sound(Retry(d, r)) /\ Kept(d, Retry(d, r))
<1>. DEFINE f == SetRun(d, r, "retry_scheduled")
            e == Retry(d, r)
<1>1. "retry_scheduled" \in RunStates
  BY DEF RunStates, WaitingStates
<1>2. Sound(f) /\ ~Closed(f) /\ f.evidence = d.evidence /\ f.status = d.status /\ f \in Rows
  BY <1>1, SetRunSound DEF Sound
<1>. HIDE DEF f
<1>3. RetryMessage(d, r) \in [run : Runs, gen : Nat \ {0}, sent : BOOLEAN]
  <2>1. d.run[r].gen + 1 \in Nat \ {0}
    BY DEF Sound, Rows
  <2>. QED
    BY <2>1, MessageType DEF RetryMessage
<1>4. e = [f EXCEPT !.outbox = f.outbox \cup {RetryMessage(d, r)}]
  BY DEF Retry, f
<1>. HIDE DEF e
<1>5. e \in Rows /\ e.status = f.status /\ e.reports = f.reports /\ e.evidence = f.evidence
  BY <1>2, <1>3, <1>4 DEF Rows
<1>. QED
  BY <1>2, <1>5, OpenStaysSound DEF Kept, Closed, e

LEMMA CloseExpiredSound ==
    ASSUME NEW d, Sound(d), ~Closed(d), NEW r \in Runs
    PROVE  Sound(CloseExpired(d, r)) /\ Kept(d, CloseExpired(d, r))
<1>. DEFINE st == IF r \in maint.intime THEN "provider_error" ELSE "closed_at_cutoff"
            f == SetRun(d, r, st)
            e == [f EXCEPT !.story = IF r = Story /\ f.story = "none" THEN "fallback" ELSE f.story]
<1>1. st \in RunStates
  BY DEF RunStates, SettledStates, OutcomeStates
<1>2. Sound(f) /\ ~Closed(f) /\ f.evidence = d.evidence /\ f.status = d.status /\ f \in Rows
  BY <1>1, SetRunSound DEF Sound
<1>3. CloseExpired(d, r) = Advance(e, FALSE)
  BY DEF CloseExpired
<1>. HIDE DEF f
<1>4. e \in Rows /\ e.status = f.status /\ e.reports = f.reports /\ e.evidence = f.evidence
  <2>. DEFINE s == IF r = Story /\ f.story = "none" THEN "fallback" ELSE f.story
  <2>1. s \in {"none", "fallback", "narrative"}
    BY <1>2 DEF Rows
  <2>2. e = [f EXCEPT !.story = s]
    OBVIOUS
  <2>. HIDE DEF s, e
  <2>. QED
    BY <1>2, <2>1, <2>2, StoryUpdate
<1>. HIDE DEF e
<1>5. Sound(e)
  BY <1>2, <1>4, OpenStaysSound
<1>6. e.status = d.status /\ ~Closed(d) /\ d.evidence \subseteq e.evidence
  BY <1>2, <1>4
<1>. QED
  BY <1>3, <1>5, <1>6, AdvanceKept

LEMMA ReclaimStep ==
    ASSUME IInv, NEW r \in Runs, MaintenanceReclaim(r)
    PROVE  IInv' /\ Kept(db, db')
<1>1. maint' \in [phase : {"start", "reclaim", "advance", "expire"},
                  todo : SUBSET Runs, intime : SUBSET Runs]
  BY DEF IInv, TypeOK, MaintenanceReclaim, NextPass
<1>2. CASE db' = db
  BY <1>1, <1>2 DEF IInv, TypeOK, MaintenanceReclaim, Kept
<1>3. CASE r \in Expired(db) /\ db' \in ReclaimLease(db, r)
  <2>1. ~Closed(db)
    <3>1. db.run[r].status = "running" /\ "running" \notin SettledStates
      BY <1>3 DEF Expired, SettledStates, OutcomeStates
    <3>. QED
      BY <3>1, OpenRunOpenJob DEF IInv
  <2>2. PICK d \in MarkAttempt(db, r, db.run[r].gen, "discarded") :
           db' = IF Replayable(r) THEN Retry(d, r) ELSE CloseExpired(d, r)
    BY <1>3 DEF ReclaimLease
  <2>3. Sound(d) /\ ~Closed(d) /\ d.status = db.status /\ d.evidence = db.evidence
    BY <2>1, MarkedSound DEF IInv
  <2>4. Sound(db') /\ Kept(d, db')
    BY <2>2, <2>3, RetrySound, CloseExpiredSound
  <2>5. d.reports = db.reports
    BY <2>1, <2>3, OpenHasNoReport DEF IInv
  <2>6. Kept(db, db')
    BY <2>1, <2>3, <2>4, <2>5 DEF Kept, Closed
  <2>. QED
    BY <1>1, <2>4, <2>6 DEF IInv, TypeOK, MaintenanceReclaim, Sound
<1>. QED
  BY <1>2, <1>3 DEF MaintenanceReclaim

LEMMA MaintenanceAdvanceStep ==
    ASSUME IInv, MaintenanceAdvance
    PROVE  IInv' /\ Kept(db, db')
<1>1. Sound(db') /\ Kept(db, db')
  BY AdvanceKept DEF IInv, MaintenanceAdvance
<1>. QED
  BY <1>1 DEF IInv, TypeOK, MaintenanceAdvance, Sound

LEMMA CloseRetrievalSound ==
    ASSUME NEW d, Sound(d), ~Closed(d)
    PROVE  /\ Sound(CloseRetrieval(d)) /\ CloseRetrieval(d).status = d.status
           /\ CloseRetrieval(d).evidence = d.evidence
<1>. DEFINE f == [r \in Runs |-> IF r \in OpenRetrieval(d)
                                 THEN [d.run[r] EXCEPT !.status = "closed_at_cutoff", !.lease = 0]
                                 ELSE d.run[r]]
<1>1. d \in Rows
  BY DEF Sound
<1>2. f \in [Runs -> RunRow]
  <2>1. d.run \in [Runs -> RunRow]
    BY <1>1 DEF Rows, RunRow
  <2>2. "closed_at_cutoff" \in RunStates
    BY DEF RunStates, SettledStates
  <2>3. \A x \in RunRow : [x EXCEPT !.status = "closed_at_cutoff", !.lease = 0] \in RunRow
    BY <2>2 DEF RunRow
  <2>. QED
    BY <2>1, <2>3
<1>3. CloseRetrieval(d) = [d EXCEPT !.run = f]
  BY DEF CloseRetrieval
<1>. HIDE DEF f
<1>4. /\ CloseRetrieval(d) \in Rows /\ CloseRetrieval(d).status = d.status
      /\ CloseRetrieval(d).reports = d.reports /\ CloseRetrieval(d).evidence = d.evidence
  BY <1>1, <1>2, <1>3, RunUpdate
<1>. QED
  BY <1>4, OpenStaysSound

LEMMA DiscardRunningOnly ==
    ASSUME NEW d, d \in Rows, NEW e \in DiscardRunning(d)
    PROVE  AttemptsOnly(d, e)
<1>. DEFINE running == {r \in OpenRetrieval(d) :
                          /\ d.run[r].status = "running"
                          /\ AttemptRows(d, r, d.run[r].gen) # {}}
<1>1. PICK pick \in {f \in [running -> UNION {1..Len(d.attempts[r]) : r \in running}] :
                       \A r \in running : f[r] \in AttemptRows(d, r, d.run[r].gen)} :
        e = [d EXCEPT !.attempts =
               [r \in Runs |-> IF r \in running
                               THEN [d.attempts[r] EXCEPT ![pick[r]].status = "discarded"]
                               ELSE d.attempts[r]]]
  BY DEF DiscardRunning
<1>2. \A r \in Runs : d.attempts[r] \in Seq(Attempt)
  BY DEF Rows
<1>3. ASSUME NEW r \in Runs, r \in running
      PROVE  [d.attempts[r] EXCEPT ![pick[r]].status = "discarded"] \in Seq(Attempt)
  <2>. DEFINE q == d.attempts[r]
              i == pick[r]
              a == [q[i] EXCEPT !.status = "discarded"]
  <2>1. i \in 1..Len(q) /\ q \in Seq(Attempt)
    BY <1>1, <1>2, <1>3 DEF AttemptRows
  <2>2. a \in Attempt
    <3>1. q[i] \in Attempt
      BY <2>1
    <3>. QED
      BY <3>1 DEF Attempt
  <2>. HIDE DEF a
  <2>3. [q EXCEPT ![i] = a] \in Seq(Attempt)
    BY <2>1, <2>2, ElementReplaced
  <2>. QED
    BY <2>3 DEF a
<1>. DEFINE al == [r \in Runs |-> IF r \in running
                                  THEN [d.attempts[r] EXCEPT ![pick[r]].status = "discarded"]
                                  ELSE d.attempts[r]]
<1>. HIDE DEF running
<1>4. al \in [Runs -> Seq(Attempt)]
  BY <1>2, <1>3
<1>5. e = [d EXCEPT !.attempts = al]
  BY <1>1
<1>. HIDE DEF al
<1>. QED
  BY <1>4, <1>5 DEF AttemptsOnly, Rows

LEMMA MaintenanceExpireStep ==
    ASSUME IInv, MaintenanceExpire
    PROVE  IInv' /\ Kept(db, db')
<1>1. Sound(db') /\ Kept(db, db')
  <2>1. CASE db' = db
    BY <2>1 DEF IInv, Kept
  <2>2. CASE db' = Advance(db, TRUE)
    BY <2>2, AdvanceKept DEF IInv
  <2>3. CASE ~Closed(db) /\ \E d \in DiscardRunning(db) : db' = Advance(CloseRetrieval(d), TRUE)
    <3>1. PICK d \in DiscardRunning(db) : db' = Advance(CloseRetrieval(d), TRUE)
      BY <2>3
    <3>2. Sound(d) /\ d.status = db.status /\ d.evidence = db.evidence /\ ~Closed(d)
      BY <2>3, DiscardRunningOnly, AttemptsOnlySound DEF IInv, Sound, Closed
    <3>3. /\ Sound(CloseRetrieval(d)) /\ CloseRetrieval(d).status = db.status
          /\ CloseRetrieval(d).evidence = db.evidence
      BY <3>2, CloseRetrievalSound
    <3>. QED
      BY <2>3, <3>1, <3>3, AdvanceKept DEF IInv
  <2>. QED
    BY <2>1, <2>2, <2>3 DEF MaintenanceExpire
<1>. QED
  BY <1>1 DEF IInv, TypeOK, MaintenanceExpire, NextPass, Sound

-----------------------------------------------------------------------------
(* Owner and clock *)

LEMMA SelectAnchorStep ==
    ASSUME IInv, NEW n \in Names, SelectAnchor(n)
    PROVE  IInv' /\ Kept(db, db')
<1>. DEFINE f == [db EXCEPT !.anchor = n, !.exploration = "running"]
<1>1. Sound(db) /\ ~Closed(db) /\ db \in Rows
  BY DEF IInv, TypeOK, SelectAnchor
<1>2. f \in Rows /\ f.status = db.status /\ f.reports = db.reports /\ f.evidence = db.evidence
  BY <1>1 DEF Rows, ExplorationStates
<1>3. Sound(f)
  BY <1>1, <1>2, OpenStaysSound
<1>4. Sound(db') /\ Kept(db, db')
  BY <1>1, <1>2, <1>3, AdvanceKept DEF SelectAnchor
<1>. QED
  BY <1>4 DEF IInv, TypeOK, SelectAnchor, Sound

LEMMA PollStep ==
    ASSUME IInv, Poll
    PROVE  IInv' /\ Kept(db, db')
<1>1. Sound(db') /\ Kept(db, db')
  BY AdvanceKept DEF IInv, Poll
<1>. QED
  BY <1>1 DEF IInv, TypeOK, Poll, Sound

LEMMA CancelStep ==
    ASSUME IInv, Cancel
    PROVE  IInv' /\ Kept(db, db')
<1>. DEFINE f == [r \in Runs |-> IF r \in Unfinished(db)
                                 THEN [db.run[r] EXCEPT !.status = "cancelled", !.lease = 0]
                                 ELSE db.run[r]]
            log(r) == [i \in 1..Len(db.attempts[r]) |->
                         IF db.attempts[r][i].status = "running"
                         THEN [db.attempts[r][i] EXCEPT !.status = "discarded"]
                         ELSE db.attempts[r][i]]
            al == [r \in Runs |-> log(r)]
<1>1. Sound(db) /\ ~Closed(db) /\ db \in Rows /\ db.reports = {}
  BY OpenHasNoReport DEF IInv, TypeOK, Cancel
<1>2. f \in [Runs -> RunRow]
  <2>1. \A r \in Runs : db.run[r] \in RunRow
    BY <1>1 DEF Rows, RunRow
  <2>2. "cancelled" \in RunStates
    BY DEF RunStates, SettledStates
  <2>3. \A x \in RunRow : [x EXCEPT !.status = "cancelled", !.lease = 0] \in RunRow
    BY <2>2 DEF RunRow
  <2>. QED
    BY <2>1, <2>3
<1>3. ASSUME NEW r \in Runs
      PROVE  log(r) \in Seq(Attempt)
  <2>. DEFINE q == db.attempts[r]
  <2>1. q \in Seq(Attempt) /\ Len(q) \in Nat
    BY <1>1 DEF Rows
  <2>2. \A i \in 1..Len(q) : q[i] \in Attempt
    BY <2>1
  <2>3. \A i \in 1..Len(q) : (IF q[i].status = "running"
                              THEN [q[i] EXCEPT !.status = "discarded"] ELSE q[i]) \in Attempt
    BY <2>2 DEF Attempt
  <2>. QED
    BY <2>1, <2>3
<1>4. al \in [Runs -> Seq(Attempt)]
  BY <1>3
<1>5. db' = [db EXCEPT !.status = "cancelled", !.exploration = "cancelled",
                       !.epoch = db.epoch + 1, !.run = f, !.attempts = al]
  BY DEF Cancel
<1>. HIDE DEF al, log
<1>6. \A r \in Runs : f[r].status \in SettledStates \/ f[r].status = "absent"
  BY <1>1 DEF Unfinished, Scheduled, SettledStates, Rows
<1>. HIDE DEF f
<1>7. /\ db' \in Rows /\ db'.reports = {} /\ db'.status = "cancelled"
      /\ db'.evidence = db.evidence /\ db'.run = f
  <2>1. db.epoch + 1 \in Nat
    BY <1>1 DEF Rows
  <2>. QED
    BY <1>1, <1>2, <1>4, <1>5, <2>1 DEF Rows, RunRow, ExplorationStates
<1>8. Sound(db') /\ Kept(db, db')
  BY <1>1, <1>6, <1>7 DEF Sound, SoundReport, QuietWhenClosed, Settled, Scheduled, Kept
<1>. QED
  BY <1>7, <1>8 DEF IInv, TypeOK, Cancel

LEMMA DeleteStep ==
    ASSUME IInv, Delete
    PROVE  IInv' /\ Kept(db, db')
<1>. DEFINE f == [r \in Runs |-> NewRun("absent", 0)]
<1>1. f \in [Runs -> RunRow]
  BY DEF NewRun, RunRow, RunStates
<1>2. AcceptedJob \in Rows /\ AcceptedJob.evidence = {} /\ AcceptedJob.reports = {}
  BY AcceptedJobSound DEF Sound, AcceptedJob
<1>3. db' = [AcceptedJob EXCEPT !.status = "deleted", !.exploration = "cancelled",
                                !.epoch = db.epoch + 1, !.left = 0, !.run = f, !.outbox = {}]
  BY DEF Delete
<1>4. \A r \in Runs : f[r].status = "absent"
  BY DEF NewRun
<1>. HIDE DEF f
<1>5. /\ db' \in Rows /\ db'.status = "deleted" /\ db'.evidence = {} /\ db'.reports = {}
      /\ db'.run = f
  <2>1. db.epoch + 1 \in Nat
    BY DEF IInv, TypeOK, Rows
  <2>. QED
    BY <1>1, <1>2, <1>3, <2>1 DEF Rows, RunRow, ExplorationStates
<1>6. Sound(db') /\ Kept(db, db')
  BY <1>4, <1>5 DEF Sound, SoundReport, QuietWhenClosed, Settled, Scheduled, Kept, Delete
<1>. QED
  BY <1>5, <1>6 DEF IInv, TypeOK, Delete

LEMMA DownType ==
    ASSUME NEW n \in Nat
    PROVE  Down(n) \in Nat
BY DEF Down

LEMMA TickStep ==
    ASSUME IInv, Tick
    PROVE  IInv' /\ Kept(db, db')
<1>. DEFINE f == [r \in Runs |-> [db.run[r] EXCEPT !.lease = Down(db.run[r].lease),
                                                   !.left = Down(db.run[r].left)]]
<1>1. db \in Rows /\ Sound(db) /\ db.left \in Nat /\ Down(db.left) \in Nat
  BY DownType DEF IInv, TypeOK, Rows
<1>2. \A r \in Runs : db.run[r] \in RunRow /\ Down(db.run[r].lease) \in Nat /\ Down(db.run[r].left) \in Nat
  BY <1>1, DownType DEF Rows, RunRow
<1>3. f \in [Runs -> RunRow] /\ \A r \in Runs : f[r].status = db.run[r].status
  BY <1>2 DEF RunRow
<1>4. db' = [db EXCEPT !.left = Down(db.left), !.run = f]
  BY DEF Tick
<1>. HIDE DEF f
<1>5. /\ db' \in Rows /\ db'.status = db.status /\ db'.reports = db.reports
      /\ db'.evidence = db.evidence /\ db'.story = db.story /\ db'.run = f
  BY <1>1, <1>3, <1>4 DEF Rows, RunRow
<1>6. Sound(db') /\ Kept(db, db')
  BY <1>1, <1>3, <1>5, UntouchedSound
<1>. QED
  BY <1>5, <1>6 DEF IInv, TypeOK, Tick

-----------------------------------------------------------------------------
(* The theorems *)

LEMMA InitInv == Init => IInv
<1>. SUFFICES ASSUME Init PROVE IInv
  OBVIOUS
<1>1. Sound(db) /\ db \in Rows
  BY AcceptedJobSound DEF Init, Sound
<1>2. broker \in [queue : SUBSET Runs, again : Nat]
  BY DiscoveryAssumption DEF Init
<1>3. worker \in [Workers -> WorkerStates]
  BY DEF Init, WorkerStates
<1>. QED
  BY <1>1, <1>2, <1>3 DEF Init, IInv, TypeOK, NextPass

LEMMA StepInv == IInv /\ [Next]_vars => IInv' /\ Kept(db, db')
<1>. SUFFICES ASSUME IInv, [Next]_vars PROVE IInv' /\ Kept(db, db')
  OBVIOUS
<1>1. ASSUME NEW m \in db.outbox, Dispatch(m) \/ DispatchCrash(m)
      PROVE  IInv' /\ Kept(db, db')
  BY <1>1, DispatchStep
<1>2. ASSUME NEW w \in Workers, WorkerStep(w)
      PROVE  IInv' /\ Kept(db, db')
  <2>1. CASE \E r \in Runs : Receive(w, r)
    BY <2>1, ReceiveStep
  <2>2. CASE Lease(w)
    BY <2>2, LeaseStep
  <2>3. CASE LeaseDeclined(w)
    BY <2>3, LeaseDeclinedStep
  <2>4. CASE \E st \in {"cancelled", "provider_error"} : ShardSwitchedOff(w, st)
    BY <2>4, ShardSwitchedOffStep
  <2>5. CASE CompleteFenced(w)
    BY <2>5, CompleteFencedStep
  <2>6. CASE \E o \in Outcomes : CompleteShard(w, o)
    BY <2>6, CompleteShardStep
  <2>7. CASE \E o \in Outcomes : CompleteWave(w, o)
    BY <2>7, CompleteWaveStep
  <2>8. CASE \E o \in Outcomes : CompleteStory(w, o)
    BY <2>8, CompleteStoryStep
  <2>9. CASE AdvanceAfterScan(w)
    BY <2>9, AdvanceAfterScanStep
  <2>10. CASE Heartbeat(w)
    BY <2>10, HeartbeatStep
  <2>11. CASE Crash(w) \/ CrashRequeued(w) \/ TaskLost(w) \/ Redeliver(w)
    BY <2>11, CrashStep
  <2>. QED
    BY <1>2, <2>1, <2>2, <2>3, <2>4, <2>5, <2>6, <2>7, <2>8, <2>9, <2>10, <2>11 DEF WorkerStep
<1>3. CASE MaintenanceStep
  BY <1>3, MaintenancePassStep, ReclaimStep, MaintenanceAdvanceStep, MaintenanceExpireStep
     DEF MaintenanceStep
<1>4. CASE OwnerStep
  BY <1>4, SelectAnchorStep, PollStep, CancelStep, DeleteStep DEF OwnerStep
<1>5. CASE Tick
  BY <1>5, TickStep
<1>6. CASE UNCHANGED vars
  BY <1>6 DEF vars, IInv, TypeOK, Kept
<1>. QED
  BY <1>1, <1>2, <1>3, <1>4, <1>5, <1>6 DEF Next

LEMMA Invariance == Spec => []IInv
<1>1. IInv /\ [Next]_vars => IInv'
  BY StepInv
<1>. QED
  BY InitInv, <1>1, PTL DEF Spec

\* Every state variable keeps its type; in particular no time runs below zero,
\* and what a worker remembers names a run that exists.
THEOREM TypeCorrect == Spec => []TypeOK
<1>1. IInv => TypeOK
  BY DEF IInv
<1>. QED
  BY Invariance, <1>1, PTL

\* The published report is at every later moment the stored evidence and
\* narrative: no late, duplicated or reclaimed worker changes what it cites.
THEOREM ReportFrozen == Spec => []ReportIsFrozen
<1>1. IInv => ReportIsFrozen
  BY DEF IInv, Sound, SoundReport, ReportIsFrozen
<1>. QED
  BY Invariance, <1>1, PTL

\* A job that is over has no waiting and no running run.
THEOREM ClosedQuiet == Spec => []ClosedJobIsQuiet
<1>1. IInv => ClosedJobIsQuiet
  BY DEF IInv, Sound, QuietWhenClosed, ClosedJobIsQuiet
<1>. QED
  BY Invariance, <1>1, PTL

\* The discovery system implements the promise: evidence grows only while the
\* job is open, a job ends once, and a publication is the evidence held then.
THEOREM KeepsPromise == Spec => Promised
<1>1. Init => Promise!PInit
  <2>. SUFFICES ASSUME Init PROVE Promise!PInit
    OBVIOUS
  <2>1. db.status = "queued" /\ db.evidence = {} /\ db.reports = {}
    BY DEF Init, AcceptedJob
  <2>. QED
    BY <2>1 DEF Promise!PInit
<1>2. IInv /\ IInv' /\ [Next]_vars => [Promise!PNext]_(Promise!pvars)
  <2>. SUFFICES ASSUME IInv, IInv', Kept(db, db')
                PROVE  [Promise!PNext]_(Promise!pvars)
    BY StepInv
  <2>1. db.status \in JobStates /\ db'.status \in JobStates
    BY DEF IInv, TypeOK, Rows
  <2>2. db.evidence \in SUBSET (Shards \cup Waves) /\ db'.evidence \in SUBSET (Shards \cup Waves)
    BY DEF IInv, TypeOK, Rows
  <2>3. CASE db'.status = db.status /\ db'.evidence = db.evidence /\ db'.reports = db.reports
    BY <2>3 DEF Promise!pvars
  <2>4. CASE /\ ~Closed(db) /\ db.evidence \subseteq db'.evidence
             /\ db'.status \notin {"cancelled", "deleted"}
    <3>1. db.reports = {} /\ db.evidence \cup db'.evidence = db'.evidence
      BY <2>4, OpenHasNoReport DEF IInv
    <3>2. CASE db'.status \in ReportedStates
      <4>1. {rep.evidence : rep \in db'.reports} = {db'.evidence}
        <5>1. db'.reports # {} /\ \A rep \in db'.reports : rep.evidence = db'.evidence
          BY <3>2 DEF IInv, Sound, SoundReport
        <5>. QED
          BY <5>1
      <4>2. PICK E \in SUBSET (Shards \cup Waves) : E = db'.evidence
        BY <2>2
      <4>3. Promise!Publish(E)
        <5>1. db.status \notin ReportedStates /\ db.status \notin {"cancelled", "deleted"}
          BY <2>4 DEF Closed
        <5>2. db'.evidence = db.evidence \cup E
          BY <3>1, <4>2
        <5>. QED
          BY ONLY <5>1, <5>2, <3>2, <4>1 DEF Promise!Publish
      <4>. QED
        BY <4>3 DEF Promise!PNext
    <3>3. CASE db'.status \notin ReportedStates
      <4>1. db'.reports = {}
        BY <3>3 DEF IInv, Sound, SoundReport
      <4>2. PICK E \in SUBSET (Shards \cup Waves) : E = db'.evidence
        BY <2>2
      <4>3. Promise!Collect(E)
        BY <2>1, <2>4, <3>1, <3>3, <4>1, <4>2 DEF Promise!Collect, Closed
      <4>. QED
        BY <4>3 DEF Promise!PNext
    <3>. QED
      BY <3>2, <3>3
  <2>5. CASE ~Closed(db) /\ db'.evidence = db.evidence /\ db'.status = "cancelled"
    <3>1. db.reports = {} /\ db'.reports = {}
      BY <2>5, OpenHasNoReport DEF IInv, Sound, SoundReport
    <3>2. Promise!Withdraw
      BY <2>1, <2>5, <3>1 DEF Promise!Withdraw, Closed
    <3>. QED
      BY <3>2 DEF Promise!PNext
  <2>6. CASE db.status # "deleted" /\ db'.status = "deleted" /\ db'.evidence = {}
    <3>1. db'.reports = {}
      BY <2>6 DEF IInv, Sound, SoundReport
    <3>2. Promise!Erase
      BY <2>1, <2>6, <3>1 DEF Promise!Erase
    <3>. QED
      BY <3>2 DEF Promise!PNext
  <2>. QED
    BY <2>3, <2>4, <2>5, <2>6 DEF Kept
<1>. QED
  BY Invariance, <1>1, <1>2, PTL DEF Spec, Promised, Promise!PSpec

-----------------------------------------------------------------------------
(***************************************************************************)
(* What a discovery job is owed when the broker delivers each message at   *)
(* most once (Redeliveries = 0), for every number of shards, waves and     *)
(* workers and every timing: one owner per run, an audit trail without     *)
(* ghosts, evidence that matches the outcomes, settled runs that stay so.  *)
(*                                                                         *)
(* None of these is inductive.  DInv strengthens them in three parts:      *)
(*  - the ledger of the rows: attempts are numbered by generation, and a   *)
(*    running one belongs to a running run (Ledger);                       *)
(*  - the stages of the job: nothing is open once the story is scheduled   *)
(*    or the owner is asked, and no wave can become due afterwards (Staged);*)
(*  - the tokens: a run that may be leased has one token, which is its     *)
(*    unsent outbox row, its queued message or the worker that has read    *)
(*    it, and while a token exists the run does not move (Tokens).         *)
(***************************************************************************)

USE DEF JobStates, ClosedStates, ReportedStates

-----------------------------------------------------------------------------
(* The ledger *)

\* The n-th lease of a run writes its n-th attempt row.
Numbered(d) ==
    \A r \in Runs :
       /\ Len(d.attempts[r]) = d.run[r].gen
       /\ \A i \in 1..Len(d.attempts[r]) : d.attempts[r][i].gen = i

NoGhost(d) ==
    \A r \in Runs : \A i \in 1..Len(d.attempts[r]) :
       d.attempts[r][i].status = "running" => d.run[r].status = "running" /\ d.run[r].gen = i

Counted(d) ==
    \A r \in Runs :
       /\ d.run[r].status = "running" => d.run[r].gen # 0
       /\ d.run[r].status = "absent" => d.run[r].gen = 0

EvidenceSound(d) ==
    \A r \in Shards \cup Waves :
       r \in d.evidence <=> d.run[r].status \in {"success", "partial_success"}

\* No retrieval run outlives the job's cutoff, and a cut off run is past it.
CutoffSound(d) ==
    \A r \in Runs :
       /\ r # Story => d.run[r].left <= d.left
       /\ d.run[r].status = "closed_at_cutoff" => r # Story /\ d.run[r].left = 0

Ledger(d) == Numbered(d) /\ NoGhost(d) /\ Counted(d) /\ EvidenceSound(d) /\ CutoffSound(d)

-----------------------------------------------------------------------------
(* The stages *)

\* The synthesis run exists only when all retrieval is over and stays so.
StoryLast(d) ==
    d.run[Story].status # "absent" =>
       /\ \A r \in Runs \ {Story} : d.run[r].status \in SettledStates \cup {"absent"}
       /\ Closed(d) \/ ~WaveDue(d, TRUE)

\* While the owner is asked the wave is due, and nothing else happens.
Asked(d) ==
    d.exploration = "awaiting_anchor" =>
       /\ ~Closed(d) /\ d.anchor = NoAnchor
       /\ Settled(d, Shards) /\ Scheduled(d) \cap Waves = {}
       /\ Waves # {} /\ Hypotheses(d) # {}

StoryFinished(d) ==
    \E i \in 1..Len(d.attempts[Story]) : d.attempts[Story][i].status = "finished"

StoryRan(d) ==
    /\ d.run[Story].status \in {"success", "no_result"} => StoryFinished(d)
    /\ Deep /\ d.status \in {"ready", "no_candidates"} => StoryFinished(d)

Staged(d) == StoryLast(d) /\ Asked(d) /\ StoryRan(d)

Chosen(d) == d.anchor # NoAnchor => Waves \subseteq Scheduled(d)

Tidy(d) == Sound(d) /\ Ledger(d) /\ Staged(d)

LEMMA RunKinds ==
    /\ Story \in Runs /\ Shards \subseteq Runs /\ Waves \subseteq Runs
    /\ Story \notin Shards /\ Story \notin Waves /\ Shards \cap Waves = {}
    /\ \A r \in Runs : r # Story => r \in Shards \cup Waves
BY PipelineAssumption DEF Runs

\* Which words name settled runs.
LEMMA Words ==
    /\ {"success", "partial_success", "no_result", "provider_error",
        "skipped_configuration", "cancelled", "closed_at_cutoff"} = SettledStates
    /\ "running" \notin SettledStates /\ "absent" \notin SettledStates
    /\ WaitingStates \cap SettledStates = {} /\ WaitingStates = {"pending", "retry_scheduled"}
    /\ OutcomeStates \subseteq SettledStates
BY DEF SettledStates, OutcomeStates, WaitingStates

-----------------------------------------------------------------------------
(* What the row functions that advance a job do to each column *)

LEMMA ExpireAnchorColumns ==
    ASSUME NEW d, d \in Rows, NEW e, e = ExpireAnchor(d)
    PROVE  /\ e.status = d.status /\ e.left = d.left /\ e.anchor = d.anchor
           /\ e.run = d.run /\ e.attempts = d.attempts /\ e.outbox = d.outbox
           /\ e.evidence = d.evidence /\ e.reports = d.reports
           /\ e.exploration = d.exploration \/ (e.exploration = "running" /\ ~AnchorOpen(d))
BY DEF ExpireAnchor, Rows

LEMMA ScheduleWaveColumns ==
    ASSUME NEW d, d \in Rows, NEW e, e = ScheduleWave(d)
    PROVE  /\ e.status = d.status /\ e.left = d.left /\ e.anchor = d.anchor
           /\ e.exploration = "running" /\ e.attempts = d.attempts
           /\ e.evidence = d.evidence /\ e.reports = d.reports
           /\ e.outbox = d.outbox \cup {Message(v, 1) : v \in Waves}
           /\ \A r \in Runs \ Waves : e.run[r] = d.run[r]
           /\ \A r \in Waves : /\ e.run[r].status = "pending" /\ e.run[r].gen = 0
                               /\ e.run[r].left <= d.left
<1>1. /\ e.status = d.status /\ e.left = d.left /\ e.anchor = d.anchor
      /\ e.exploration = "running" /\ e.attempts = d.attempts
      /\ e.evidence = d.evidence /\ e.reports = d.reports
      /\ e.outbox = d.outbox \cup {Message(v, 1) : v \in Waves}
      /\ e.run = [r \in Runs |-> IF r \in Waves
                                 THEN [NewRun("pending", Lesser(d.left, WaveBudget))
                                         EXCEPT !.epoch = d.epoch]
                                 ELSE d.run[r]]
  BY DEF ScheduleWave, Rows
<1>2. Lesser(d.left, WaveBudget) <= d.left
  BY PipelineAssumption DEF Lesser, Rows
<1>. QED
  BY <1>1, <1>2, RunKinds DEF NewRun

LEMMA ScheduleStoryColumns ==
    ASSUME NEW d, d \in Rows, NEW e, e = ScheduleStory(d)
    PROVE  /\ e.status = d.status /\ e.left = d.left /\ e.anchor = d.anchor
           /\ e.exploration = "running" /\ e.attempts = d.attempts
           /\ e.evidence = d.evidence /\ e.reports = d.reports
           /\ e.outbox = d.outbox \cup {Message(Story, 1)}
           /\ \A r \in Runs \ {Story} : e.run[r] = d.run[r]
           /\ e.run[Story].status = "pending" /\ e.run[Story].gen = 0
<1>1. /\ e.status = d.status /\ e.left = d.left /\ e.anchor = d.anchor
      /\ e.exploration = "running" /\ e.attempts = d.attempts
      /\ e.evidence = d.evidence /\ e.reports = d.reports
      /\ e.outbox = d.outbox \cup {Message(Story, 1)}
      /\ e.run = [d.run EXCEPT ![Story] = [NewRun("pending", 0) EXCEPT !.epoch = d.epoch]]
  BY DEF ScheduleStory, Rows
<1>. QED
  BY <1>1, RunKinds DEF NewRun, Rows

LEMMA SkipStoryColumns ==
    ASSUME NEW d, d \in Rows, NEW e, e = SkipStory(d)
    PROVE  /\ e.status = d.status /\ e.left = d.left /\ e.anchor = d.anchor
           /\ e.exploration = d.exploration /\ e.attempts = d.attempts
           /\ e.evidence = d.evidence /\ e.reports = d.reports /\ e.outbox = d.outbox
           /\ \A r \in Runs \ {Story} : e.run[r] = d.run[r]
           /\ e.run[Story].status = "skipped_configuration" /\ e.run[Story].gen = 0
<1>1. /\ e.status = d.status /\ e.left = d.left /\ e.anchor = d.anchor
      /\ e.exploration = d.exploration /\ e.attempts = d.attempts
      /\ e.evidence = d.evidence /\ e.reports = d.reports /\ e.outbox = d.outbox
      /\ e.run = [d.run EXCEPT ![Story] = [NewRun("skipped_configuration", 0)
                                             EXCEPT !.epoch = d.epoch]]
  BY DEF SkipStory, Rows
<1>. QED
  BY <1>1, RunKinds DEF NewRun, Rows

LEMMA FinalizeColumns ==
    ASSUME NEW d, d \in Rows, NEW e, e = FinalizeIfComplete(d)
    PROVE  /\ e.left = d.left /\ e.anchor = d.anchor /\ e.run = d.run
           /\ e.attempts = d.attempts /\ e.evidence = d.evidence /\ e.outbox = d.outbox
           /\ \/ e = d
              \/ e.status = FrozenStatus(d) /\ e.exploration = "completed"
           /\ ~Closed(d) /\ d.reports = {} /\ Settled(d, Scheduled(d)) => Closed(e)
<1>1. CASE e = d /\ ~(~Closed(d) /\ d.reports = {} /\ Settled(d, Scheduled(d)))
  BY <1>1
<1>2. CASE e = Freeze(d)
  <2>1. /\ e.left = d.left /\ e.anchor = d.anchor /\ e.run = d.run
        /\ e.attempts = d.attempts /\ e.evidence = d.evidence /\ e.outbox = d.outbox
        /\ e.status = FrozenStatus(d) /\ e.exploration = "completed"
    BY <1>2 DEF Freeze, Rows
  <2>. QED
    BY <2>1 DEF Closed, FrozenStatus
<1>. QED
  BY <1>1, <1>2 DEF FinalizeIfComplete

-----------------------------------------------------------------------------
(* Advancing a job *)

\* The ways in which finalize_discovery_if_complete ends, e being the rows
\* after an expired chooser was left.
AdvancesTo(d, e, settings, a) ==
    \/ a = d
    \/ /\ ~Closed(d) /\ e.exploration # "awaiting_anchor"
       /\ \/ /\ WaveDue(e, settings) /\ AnchorNeeded(e)
             /\ a = [e EXCEPT !.exploration = "awaiting_anchor"]
          \/ WaveDue(e, settings) /\ ~AnchorNeeded(e) /\ a = ScheduleWave(e)
          \/ ~WaveDue(e, TRUE) /\ StoryDue(e) /\ a = ScheduleStory(e)
          \/ StoryDue(e) /\ a = FinalizeIfComplete(SkipStory(e))
          \/ ~StoryDue(e) /\ a = FinalizeIfComplete(e)

LEMMA AdvanceCases ==
    ASSUME NEW d, NEW settings \in BOOLEAN
    PROVE  AdvancesTo(d, ExpireAnchor(d), settings, Advance(d, settings))
BY DEF Advance, AdvancesTo

\* The due work depends on the clock, the evidence and the retrieval runs only.
LEMMA SameWaveDue ==
    ASSUME NEW d, NEW e, e.left = d.left, e.evidence = d.evidence,
           \A r \in Runs \ {Story} : e.run[r].status = d.run[r].status
    PROVE  WaveDue(e, TRUE) <=> WaveDue(d, TRUE)
<1>1. \A r \in Shards \cup Waves : e.run[r].status = d.run[r].status
  BY RunKinds
<1>2. Settled(e, Shards) <=> Settled(d, Shards)
  BY <1>1 DEF Settled
<1>3. Scheduled(e) \cap Waves = Scheduled(d) \cap Waves
  BY <1>1 DEF Scheduled
<1>4. Hypotheses(e) = Hypotheses(d)
  BY DEF Hypotheses
<1>. QED
  BY <1>2, <1>3, <1>4 DEF WaveDue

\* What advancing a job does to the tables: it adds runs that were absent,
\* each with the first message for it, and nothing else.
Grown(d, e) ==
    /\ e.attempts = d.attempts /\ e.evidence = d.evidence
    /\ e.left = d.left /\ e.anchor = d.anchor
    /\ e.status # d.status => ~Closed(d) /\ e.status \in ReportedStates
    /\ \A r \in Runs :
          \/ e.run[r] = d.run[r]
          \/ /\ ~Closed(d) /\ d.run[r].status = "absent"
             /\ e.run[r].status \in {"pending", "skipped_configuration"}
             /\ e.run[r].gen = 0 /\ (r # Story => e.run[r].left <= d.left)
    /\ \A m \in e.outbox :
          \/ m \in d.outbox
          \/ /\ m.run \in Runs /\ m = Message(m.run, 1) /\ ~Closed(d)
             /\ d.run[m.run].status = "absent" /\ e.run[m.run].status = "pending"

LEMMA AdvanceGrown ==
    ASSUME NEW d, Sound(d), NEW settings \in BOOLEAN
    PROVE  Grown(d, Advance(d, settings))
<1>. DEFINE a == Advance(d, settings)
            e == ExpireAnchor(d)
<1>0. d \in Rows
  BY DEF Sound
<1>1. /\ e.status = d.status /\ e.left = d.left /\ e.anchor = d.anchor
      /\ e.run = d.run /\ e.attempts = d.attempts /\ e.outbox = d.outbox
      /\ e.evidence = d.evidence
  BY <1>0, ExpireAnchorColumns
<1>2. ~Closed(d) => e \in Rows /\ SkipStory(e) \in Rows
  BY ExpireAnchorSound, SkipStorySound DEF Sound, Onward
<1>3. a.status = d.status \/ a.status \in ReportedStates
  BY AdvanceSound DEF Onward
<1>4. CASE a = d
  BY <1>4 DEF Grown
<1>5. CASE ~Closed(d) /\ a = [e EXCEPT !.exploration = "awaiting_anchor"]
  <2>1. /\ a.status = d.status /\ a.left = d.left /\ a.anchor = d.anchor
        /\ a.run = d.run /\ a.attempts = d.attempts /\ a.outbox = d.outbox
        /\ a.evidence = d.evidence
    BY <1>1, <1>2, <1>5 DEF Rows
  <2>. QED
    BY <2>1 DEF Grown
<1>6. CASE ~Closed(d) /\ WaveDue(e, settings) /\ a = ScheduleWave(e)
  <2>1. /\ a.status = e.status /\ a.left = e.left /\ a.anchor = e.anchor
        /\ a.attempts = e.attempts /\ a.evidence = e.evidence
        /\ a.outbox = e.outbox \cup {Message(v, 1) : v \in Waves}
        /\ \A r \in Runs \ Waves : a.run[r] = e.run[r]
        /\ \A r \in Waves : /\ a.run[r].status = "pending" /\ a.run[r].gen = 0
                            /\ a.run[r].left <= e.left
    BY <1>2, <1>6, ScheduleWaveColumns
  <2>2. \A r \in Waves : r \in Runs /\ d.run[r].status = "absent"
    BY <1>1, <1>6, RunKinds DEF WaveDue, Scheduled
  <2>3. \A m \in a.outbox : m \in d.outbox \/ (m.run \in Waves /\ m = Message(m.run, 1))
    BY <1>1, <2>1 DEF Message
  <2>. QED
    BY <1>1, <1>6, <2>1, <2>2, <2>3 DEF Grown
<1>7. CASE ~Closed(d) /\ StoryDue(e) /\ a = ScheduleStory(e)
  <2>1. /\ a.status = e.status /\ a.left = e.left /\ a.anchor = e.anchor
        /\ a.attempts = e.attempts /\ a.evidence = e.evidence
        /\ a.outbox = e.outbox \cup {Message(Story, 1)}
        /\ \A r \in Runs \ {Story} : a.run[r] = e.run[r]
        /\ a.run[Story].status = "pending" /\ a.run[Story].gen = 0
    BY <1>2, <1>7, ScheduleStoryColumns
  <2>2. Story \in Runs /\ d.run[Story].status = "absent"
    BY <1>1, <1>7, RunKinds DEF StoryDue, Scheduled
  <2>3. \A m \in a.outbox : m \in d.outbox \/ (m.run = Story /\ m = Message(m.run, 1))
    BY <1>1, <2>1 DEF Message
  <2>. QED
    BY <1>1, <1>7, <2>1, <2>2, <2>3 DEF Grown
<1>8. CASE ~Closed(d) /\ StoryDue(e) /\ a = FinalizeIfComplete(SkipStory(e))
  <2>. DEFINE s == SkipStory(e)
  <2>1. /\ s.left = e.left /\ s.anchor = e.anchor
        /\ s.attempts = e.attempts /\ s.evidence = e.evidence /\ s.outbox = e.outbox
        /\ \A r \in Runs \ {Story} : s.run[r] = e.run[r]
        /\ s.run[Story].status = "skipped_configuration" /\ s.run[Story].gen = 0
    BY <1>2, <1>8, SkipStoryColumns
  <2>2. /\ a.left = s.left /\ a.anchor = s.anchor /\ a.run = s.run
        /\ a.attempts = s.attempts /\ a.evidence = s.evidence /\ a.outbox = s.outbox
    BY <1>2, <1>8, FinalizeColumns
  <2>3. d.run[Story].status = "absent"
    BY <1>1, <1>8, RunKinds DEF StoryDue, Scheduled
  <2>. QED
    BY <1>1, <1>3, <1>8, <2>1, <2>2, <2>3 DEF Grown
<1>9. CASE ~Closed(d) /\ a = FinalizeIfComplete(e)
  <2>1. /\ a.left = e.left /\ a.anchor = e.anchor /\ a.run = e.run
        /\ a.attempts = e.attempts /\ a.evidence = e.evidence /\ a.outbox = e.outbox
    BY <1>2, <1>9, FinalizeColumns
  <2>. QED
    BY <1>1, <1>3, <1>9, <2>1 DEF Grown
<1>. QED
  BY <1>4, <1>5, <1>6, <1>7, <1>8, <1>9, AdvanceCases DEF AdvancesTo

LEMMA GrownLedger ==
    ASSUME NEW d, NEW e, Sound(d), Sound(e), Ledger(d), Grown(d, e)
    PROVE  Ledger(e)
<1>. USE DEF Ledger, Grown
<1>0. d \in Rows /\ e \in Rows
  BY DEF Sound
<1>1. Numbered(e)
  BY DEF Numbered, Counted
<1>2. NoGhost(e)
  BY DEF NoGhost
<1>3. Counted(e)
  BY DEF Counted
<1>4. EvidenceSound(e)
  BY RunKinds DEF EvidenceSound
<1>5. CutoffSound(e)
  BY DEF CutoffSound
<1>. QED
  BY <1>1, <1>2, <1>3, <1>4, <1>5

\* No stage is left early: Advance asks, schedules the wave, the story or the
\* report only when the stage before it is over.
LEMMA AdvanceStaged ==
    ASSUME NEW d, Sound(d), Staged(d), NEW settings \in BOOLEAN
    PROVE  Staged(Advance(d, settings))
<1>. DEFINE a == Advance(d, settings)
            e == ExpireAnchor(d)
            s == SkipStory(e)
<1>0. d \in Rows
  BY DEF Sound
<1>1. /\ e.status = d.status /\ e.left = d.left /\ e.anchor = d.anchor
      /\ e.run = d.run /\ e.attempts = d.attempts /\ e.evidence = d.evidence
      /\ e.reports = d.reports
  BY <1>0, ExpireAnchorColumns
<1>2. ~Closed(d) => e \in Rows /\ s \in Rows
  BY ExpireAnchorSound, SkipStorySound DEF Sound, Onward
<1>3. ~Closed(d) => d.status \notin {"ready", "no_candidates"}
  BY DEF Closed
<1>4. WaveDue(e, settings) => WaveDue(d, TRUE) /\ WaveDue(e, TRUE)
  BY <1>1, SameWaveDue DEF WaveDue
<1>5. ~Closed(d) /\ WaveDue(e, settings) => d.run[Story].status = "absent"
  BY <1>4 DEF Staged, StoryLast
<1>6. CASE a = d
  BY <1>6
<1>7. CASE /\ ~Closed(d) /\ WaveDue(e, settings) /\ AnchorNeeded(e)
           /\ a = [e EXCEPT !.exploration = "awaiting_anchor"]
  <2>1. /\ a.status = d.status /\ a.left = d.left /\ a.anchor = d.anchor
        /\ a.run = d.run /\ a.attempts = d.attempts /\ a.evidence = d.evidence
    BY <1>1, <1>2, <1>7 DEF Rows
  <2>2. StoryLast(a) /\ StoryRan(a)
    BY <1>3, <1>5, <1>7, <2>1 DEF Staged, StoryLast, StoryRan, StoryFinished
  <2>3. Asked(a)
    <3>1. Hypotheses(a) = Hypotheses(e) /\ Scheduled(a) = Scheduled(e) /\ ~Closed(a)
      BY <1>1, <1>7, <2>1 DEF Hypotheses, Scheduled, Closed
    <3>2. Settled(a, Shards) <=> Settled(e, Shards)
      BY <1>1, <2>1 DEF Settled
    <3>. QED
      BY <1>1, <1>7, <2>1, <3>1, <3>2 DEF Asked, AnchorNeeded, WaveDue
  <2>. QED
    BY <2>2, <2>3 DEF Staged
<1>8. CASE ~Closed(d) /\ WaveDue(e, settings) /\ a = ScheduleWave(e)
  <2>1. /\ a.status = e.status /\ a.attempts = e.attempts /\ a.exploration = "running"
        /\ a.run[Story] = e.run[Story]
    BY <1>2, <1>8, ScheduleWaveColumns, RunKinds
  <2>. QED
    BY <1>1, <1>3, <1>5, <1>8, <2>1 DEF Staged, StoryLast, StoryRan, StoryFinished, Asked
<1>9. CASE ~Closed(d) /\ ~WaveDue(e, TRUE) /\ StoryDue(e) /\ a = ScheduleStory(e)
  <2>1. /\ a.status = e.status /\ a.attempts = e.attempts /\ a.exploration = "running"
        /\ a.left = e.left /\ a.evidence = e.evidence
        /\ \A r \in Runs \ {Story} : a.run[r] = e.run[r]
        /\ a.run[Story].status = "pending"
    BY <1>2, <1>9, ScheduleStoryColumns
  <2>2. ~WaveDue(a, TRUE)
    BY <1>9, <2>1, SameWaveDue
  <2>3. \A r \in Runs \ {Story} : a.run[r].status \in SettledStates \cup {"absent"}
    BY <1>9, <2>1 DEF StoryDue, Settled, Scheduled
  <2>. QED
    BY <1>1, <1>3, <1>9, <2>1, <2>2, <2>3
       DEF Staged, StoryLast, StoryRan, Asked
<1>10. CASE ~Closed(d) /\ StoryDue(e) /\ a = FinalizeIfComplete(s)
  <2>1. /\ s.status = e.status /\ s.attempts = e.attempts /\ s.reports = e.reports
        /\ \A r \in Runs \ {Story} : s.run[r] = e.run[r]
        /\ s.run[Story].status = "skipped_configuration"
    BY <1>2, <1>10, SkipStoryColumns
  <2>2. \A r \in Runs \ {Story} : s.run[r].status \in SettledStates \cup {"absent"}
    BY <1>10, <2>1 DEF StoryDue, Settled, Scheduled
  <2>3. Settled(s, Scheduled(s))
    BY <2>1, <2>2, Words DEF Settled, Scheduled
  <2>4. s.reports = {} /\ ~Closed(s)
    BY <1>1, <1>10, <2>1, OpenHasNoReport DEF Closed
  <2>5. a.run = s.run /\ Closed(a) /\ (a = s \/ (a.status = FrozenStatus(s) /\ a.exploration = "completed"))
    BY <1>2, <1>10, <2>3, <2>4, FinalizeColumns
  <2>6. a.status = FrozenStatus(s) /\ a.exploration = "completed"
    BY <2>4, <2>5
  <2>7. FrozenStatus(s) = "ready_partial"
    BY <2>1, RunKinds DEF FrozenStatus, Conclusive, Scheduled
  <2>. QED
    BY <2>1, <2>2, <2>5, <2>6, <2>7 DEF Staged, StoryLast, StoryRan, Asked
<1>11. CASE ~Closed(d) /\ e.exploration # "awaiting_anchor" /\ a = FinalizeIfComplete(e)
  <2>1. /\ a.left = e.left /\ a.run = e.run /\ a.attempts = e.attempts
        /\ a.evidence = e.evidence
        /\ a = e \/ (a.status = FrozenStatus(e) /\ a.exploration = "completed")
    BY <1>2, <1>11, FinalizeColumns
  <2>2. WaveDue(a, TRUE) <=> WaveDue(d, TRUE)
    BY <1>1, <2>1, SameWaveDue
  <2>3. StoryLast(a)
    BY <1>1, <1>11, <2>1, <2>2 DEF Staged, StoryLast
  <2>4. StoryRan(a)
    <3>1. CASE a = e
      BY <1>1, <1>3, <1>11, <3>1 DEF Staged, StoryRan, StoryFinished
    <3>2. CASE a.status = FrozenStatus(e)
      <4>1. Deep /\ a.status \in {"ready", "no_candidates"}
              => e.run[Story].status \in {"success", "no_result"}
        BY <3>2 DEF FrozenStatus, Conclusive, Scheduled
      <4>. QED
        BY <1>1, <2>1, <4>1 DEF Staged, StoryRan, StoryFinished
    <3>. QED
      BY <2>1, <3>1, <3>2
  <2>5. Asked(a)
    BY <1>11, <2>1 DEF Asked
  <2>. QED
    BY <2>3, <2>4, <2>5 DEF Staged
<1>. QED
  BY <1>6, <1>7, <1>8, <1>9, <1>10, <1>11, AdvanceCases DEF AdvancesTo

LEMMA AdvanceTidy ==
    ASSUME NEW d, Tidy(d), NEW settings \in BOOLEAN
    PROVE  /\ Tidy(Advance(d, settings)) /\ Grown(d, Advance(d, settings))
           /\ Chosen(d) => Chosen(Advance(d, settings))
<1>. DEFINE a == Advance(d, settings)
<1>1. Sound(a)
  BY AdvanceSound DEF Tidy, Onward
<1>2. Grown(d, a)
  BY AdvanceGrown DEF Tidy
<1>3. Ledger(a)
  BY <1>1, <1>2, GrownLedger DEF Tidy
<1>4. Staged(a)
  BY AdvanceStaged DEF Tidy
<1>. HIDE DEF a
<1>5. Chosen(d) => Chosen(a)
  BY <1>2 DEF Chosen, Grown, Scheduled
<1>. QED
  BY <1>1, <1>2, <1>3, <1>4, <1>5 DEF Tidy, a

-----------------------------------------------------------------------------
(* Ending a run *)

\* One run leaves its status for st, none of its attempts stays running, and
\* its evidence is added exactly when st says that there is some.
Ends(d, e, r, st) ==
    /\ e.status = d.status /\ e.exploration = d.exploration
    /\ e.left = d.left /\ e.anchor = d.anchor
    /\ \A q \in Runs \ {r} : e.run[q] = d.run[q] /\ e.attempts[q] = d.attempts[q]
    /\ e.run[r].status = st /\ e.run[r].gen = d.run[r].gen /\ e.run[r].left = d.run[r].left
    /\ Len(e.attempts[r]) = Len(d.attempts[r])
    /\ \A i \in 1..Len(d.attempts[r]) :
          /\ e.attempts[r][i].gen = d.attempts[r][i].gen
          /\ e.attempts[r][i].status # "running"
    /\ e.evidence = IF r # Story /\ st \in {"success", "partial_success"}
                    THEN d.evidence \cup {r} ELSE d.evidence

LEMMA MarkColumns ==
    ASSUME NEW d, d \in Rows, Numbered(d), NEW r \in Runs, NEW g \in Nat,
           NEW st, NEW e \in MarkAttempt(d, r, g, st)
    PROVE  /\ e.status = d.status /\ e.exploration = d.exploration /\ e.left = d.left
           /\ e.anchor = d.anchor /\ e.run = d.run /\ e.evidence = d.evidence
           /\ e.outbox = d.outbox /\ e.epoch = d.epoch /\ e.story = d.story
           /\ \A q \in Runs \ {r} : e.attempts[q] = d.attempts[q]
           /\ Len(e.attempts[r]) = Len(d.attempts[r])
           /\ \A i \in 1..Len(d.attempts[r]) :
                 /\ e.attempts[r][i].gen = d.attempts[r][i].gen
                 /\ e.attempts[r][i].status = IF i = g THEN st ELSE d.attempts[r][i].status
<1>1. d.attempts[r] \in Seq(Attempt)
  BY DEF Rows
<1>2. \A i : i \in AttemptRows(d, r, g) <=> i = g /\ i \in 1..Len(d.attempts[r])
  BY DEF AttemptRows, Numbered
<1>3. CASE e = d /\ AttemptRows(d, r, g) = {}
  BY <1>2, <1>3
<1>4. CASE \E i \in AttemptRows(d, r, g) : e = [d EXCEPT !.attempts[r][i].status = st]
  <2>. DEFINE q == d.attempts[r]
              row == [q[g] EXCEPT !.status = st]
  <2>1. g \in 1..Len(q) /\ e = [d EXCEPT !.attempts[r][g].status = st]
    BY <1>2, <1>4
  <2>2. e = [d EXCEPT !.attempts = [d.attempts EXCEPT ![r] = [q EXCEPT ![g] = row]]]
    BY <2>1 DEF Rows
  <2>3. q[g] \in Attempt
    BY <1>1, <2>1
  <2>4. row.gen = q[g].gen /\ row.status = st
    BY <2>3 DEF Attempt
  <2>. HIDE DEF row
  <2>5. Len([q EXCEPT ![g] = row]) = Len(q)
    BY <1>1, <2>1
  <2>. QED
    BY <1>1, <2>1, <2>2, <2>4, <2>5 DEF Rows
<1>. QED
  BY <1>3, <1>4 DEF MarkAttempt

\* Rows that differ in one status, and perhaps in that run's lease.
Restated(d, e, r, st) ==
    /\ e.status = d.status /\ e.exploration = d.exploration /\ e.left = d.left
    /\ e.anchor = d.anchor /\ e.attempts = d.attempts /\ e.evidence = d.evidence
    /\ e.outbox = d.outbox /\ e.epoch = d.epoch /\ e.story = d.story
    /\ \A q \in Runs \ {r} : e.run[q] = d.run[q]
    /\ e.run[r].status = st /\ e.run[r].gen = d.run[r].gen /\ e.run[r].left = d.run[r].left

LEMMA SetRunColumns ==
    ASSUME NEW d, d \in Rows, NEW r \in Runs, NEW st
    PROVE  Restated(d, SetRun(d, r, st), r, st) /\ Restated(d, Unleased(d, r, st), r, st)
<1>1. d.run[r] \in RunRow
  BY DEF Rows, RunRow
<1>2. Restated(d, SetRun(d, r, st), r, st)
  BY <1>1 DEF SetRun, Rows, RunRow, Restated
<1>3. Restated(d, Unleased(d, r, st), r, st)
  BY <1>1 DEF Unleased, Rows, RunRow, Restated
<1>. QED
  BY <1>2, <1>3

LEMMA SettleColumns ==
    ASSUME NEW d, d \in Rows, NEW r \in Runs, NEW o
    PROVE  LET e == Settle(d, r, o) IN
           /\ e.status = d.status /\ e.exploration = d.exploration /\ e.left = d.left
           /\ e.anchor = d.anchor /\ e.attempts = d.attempts /\ e.outbox = d.outbox
           /\ \A q \in Runs \ {r} : e.run[q] = d.run[q]
           /\ e.run[r].status = o /\ e.run[r].gen = d.run[r].gen
           /\ e.run[r].left = d.run[r].left
           /\ e.evidence = IF r # Story /\ o \in {"success", "partial_success"}
                           THEN d.evidence \cup {r} ELSE d.evidence
<1>. DEFINE f == SetRun(d, r, o)
<1>1. Restated(d, f, r, o)
  BY SetRunColumns
<1>2. DOMAIN f = DOMAIN d
  BY DEF SetRun
<1>3. {"status", "exploration", "left", "anchor", "attempts", "outbox", "run",
       "evidence", "story"} \subseteq DOMAIN d
  BY DEF Rows
<1>4. Settle(d, r, o) =
        [f EXCEPT !.evidence = IF r # Story /\ Found(o) THEN f.evidence \cup {r} ELSE f.evidence,
                  !.story = IF r # Story THEN f.story
                            ELSE IF o = "success" THEN "narrative" ELSE "fallback"]
  BY DEF Settle
<1>. HIDE DEF f
<1>. QED
  BY <1>1, <1>2, <1>3, <1>4 DEF Found, Restated

\* A running run that ends: its attempt row is marked, then its status is set.
LEMMA MarkedEnds ==
    ASSUME NEW d, d \in Rows, Ledger(d), NEW r \in Runs, d.run[r].status = "running",
           NEW st \in {"finished", "discarded"},
           NEW m \in MarkAttempt(d, r, d.run[r].gen, st), m \in Rows
    PROVE  /\ \A o : Ends(d, Settle(m, r, o), r, o) /\ Settle(m, r, o).outbox = d.outbox
           /\ \A o : o \notin {"success", "partial_success"}
                       => Ends(d, SetRun(m, r, o), r, o) /\ SetRun(m, r, o).outbox = d.outbox
           /\ st = "finished" => \A o : r = Story => StoryFinished(Settle(m, r, o))
<1>. DEFINE g == d.run[r].gen
<1>1. g \in Nat /\ g # 0 /\ Len(d.attempts[r]) = g /\ Numbered(d) /\ g \in 1..Len(d.attempts[r])
  BY DEF Rows, Ledger, Numbered, Counted
<1>2. \A i \in 1..Len(d.attempts[r]) : d.attempts[r][i].status = "running" => i = g
  BY DEF Ledger, NoGhost
<1>3. /\ m.status = d.status /\ m.exploration = d.exploration /\ m.left = d.left
      /\ m.anchor = d.anchor /\ m.run = d.run /\ m.evidence = d.evidence /\ m.outbox = d.outbox
      /\ \A q \in Runs \ {r} : m.attempts[q] = d.attempts[q]
      /\ Len(m.attempts[r]) = Len(d.attempts[r])
      /\ \A i \in 1..Len(d.attempts[r]) :
            /\ m.attempts[r][i].gen = d.attempts[r][i].gen
            /\ m.attempts[r][i].status = IF i = g THEN st ELSE d.attempts[r][i].status
  BY <1>1, MarkColumns
<1>4. \A i \in 1..Len(d.attempts[r]) : m.attempts[r][i].status # "running"
  BY <1>2, <1>3
<1>5. ASSUME NEW o
      PROVE  /\ Ends(d, Settle(m, r, o), r, o) /\ Settle(m, r, o).outbox = d.outbox
             /\ st = "finished" /\ r = Story => StoryFinished(Settle(m, r, o))
  <2>. DEFINE e == Settle(m, r, o)
  <2>1. /\ e.status = m.status /\ e.exploration = m.exploration /\ e.left = m.left
        /\ e.anchor = m.anchor /\ e.attempts = m.attempts /\ e.outbox = m.outbox
        /\ \A q \in Runs \ {r} : e.run[q] = m.run[q]
        /\ e.run[r].status = o /\ e.run[r].gen = m.run[r].gen
        /\ e.run[r].left = m.run[r].left
        /\ e.evidence = IF r # Story /\ o \in {"success", "partial_success"}
                        THEN m.evidence \cup {r} ELSE m.evidence
    BY SettleColumns
  <2>2. st = "finished" /\ r = Story => StoryFinished(e)
    BY <1>1, <1>3, <2>1 DEF StoryFinished
  <2>. HIDE DEF e
  <2>3. Ends(d, e, r, o)
    BY <1>3, <1>4, <2>1 DEF Ends
  <2>. QED
    BY <1>3, <2>1, <2>2, <2>3 DEF e
<1>6. ASSUME NEW o, o \notin {"success", "partial_success"}
      PROVE  Ends(d, SetRun(m, r, o), r, o) /\ SetRun(m, r, o).outbox = d.outbox
  <2>. DEFINE e == SetRun(m, r, o)
  <2>1. /\ e.status = m.status /\ e.exploration = m.exploration /\ e.left = m.left
        /\ e.anchor = m.anchor /\ e.attempts = m.attempts /\ e.outbox = m.outbox
        /\ \A q \in Runs \ {r} : e.run[q] = m.run[q]
        /\ e.run[r].status = o /\ e.run[r].gen = m.run[r].gen
        /\ e.run[r].left = m.run[r].left /\ e.evidence = m.evidence
    BY SetRunColumns DEF Restated
  <2>. HIDE DEF e
  <2>2. Ends(d, e, r, o)
    BY <1>3, <1>4, <1>6, <2>1 DEF Ends
  <2>. QED
    BY <1>3, <2>1, <2>2 DEF e
<1>. QED
  BY <1>5, <1>6

\* A run without a running attempt is closed before it was ever leased.
LEMMA UnleasedEnds ==
    ASSUME NEW d, d \in Rows, Ledger(d), NEW r \in Runs, d.run[r].status # "running",
           NEW st, st \notin {"success", "partial_success"}
    PROVE  Ends(d, Unleased(d, r, st), r, st) /\ Unleased(d, r, st).outbox = d.outbox
<1>1. \A i \in 1..Len(d.attempts[r]) : d.attempts[r][i].status # "running"
  BY DEF Ledger, NoGhost
<1>. DEFINE e == Unleased(d, r, st)
<1>2. Restated(d, e, r, st)
  BY SetRunColumns
<1>. HIDE DEF e
<1>3. Ends(d, e, r, st) /\ e.outbox = d.outbox
  BY <1>1, <1>2 DEF Ends, Restated
<1>. QED
  BY <1>3 DEF e

\* Ending an open run of an open job keeps the ledger and disturbs no stage:
\* while the owner is asked or the story is written no other run is open.
LEMMA EndsTidy ==
    ASSUME NEW d, Tidy(d), ~Closed(d), NEW e, Sound(e),
           NEW r \in Runs, NEW st \in SettledStates \cup {"retry_scheduled"},
           \/ d.run[r].status \in WaitingStates \cup {"running"}
           \/ d.run[r].status = st /\ st = "closed_at_cutoff",
           Ends(d, e, r, st),
           st = "closed_at_cutoff" => r # Story /\ d.run[r].left = 0,
           r = Story /\ st \in {"success", "no_result"} => StoryFinished(e)
    PROVE  Tidy(e) /\ ~Closed(e) /\ (Chosen(d) => Chosen(e))
<1>. USE DEF Ends
<1>0. d \in Rows /\ e \in Rows /\ Ledger(d) /\ Staged(d) /\ ~Closed(e)
  BY DEF Tidy, Sound, Closed
<1>1. \A q \in Runs : d.run[q].status = "absent" <=> e.run[q].status = "absent"
  BY Words
<1>2. d.run[r].status \in SettledStates => d.run[r].status = st /\ e.evidence = d.evidence
  BY Words
<1>3. st # "running" /\ st # "absent" /\ "retry_scheduled" \notin SettledStates
  BY Words
<1>4. Ledger(e)
  <2>1. Numbered(e)
    <3>1. ASSUME NEW q \in Runs
          PROVE  /\ Len(e.attempts[q]) = e.run[q].gen
                 /\ \A i \in 1..Len(e.attempts[q]) : e.attempts[q][i].gen = i
      <4>1. CASE q = r
        BY <1>0, <4>1 DEF Ledger, Numbered
      <4>2. CASE q # r
        BY <1>0, <4>2 DEF Ledger, Numbered
      <4>. QED
        BY <4>1, <4>2
    <3>. QED
      BY <3>1 DEF Numbered
  <2>2. NoGhost(e)
    <3>1. ASSUME NEW q \in Runs, NEW i \in 1..Len(e.attempts[q]),
                 e.attempts[q][i].status = "running"
          PROVE  e.run[q].status = "running" /\ e.run[q].gen = i
      <4>1. q # r
        BY <3>1
      <4>2. e.run[q] = d.run[q] /\ e.attempts[q] = d.attempts[q]
        BY <4>1
      <4>. QED
        BY <1>0, <3>1, <4>2 DEF Ledger, NoGhost
    <3>. QED
      BY <3>1 DEF NoGhost
  <2>3. Counted(e)
    BY <1>0, <1>3 DEF Ledger, Counted
  <2>4. EvidenceSound(e)
    <3>1. r \in d.evidence => r \notin Shards \cup Waves
      BY <1>0, Words DEF Ledger, EvidenceSound
    <3>. QED
      BY <1>0, <3>1, RunKinds DEF Ledger, EvidenceSound
  <2>5. CutoffSound(e)
    BY <1>0 DEF Ledger, CutoffSound
  <2>. QED
    BY <2>1, <2>2, <2>3, <2>4, <2>5 DEF Ledger
<1>5. ASSUME r # Story, e.run[r].status # d.run[r].status
      PROVE  d.run[Story].status = "absent" /\ e.run[Story].status = "absent"
  BY <1>0, <1>5, Words, RunKinds DEF Staged, StoryLast
<1>6. StoryLast(e)
  <2>1. CASE r # Story /\ e.run[r].status # d.run[r].status
    BY <2>1, <1>5 DEF StoryLast
  <2>2. CASE r = Story \/ e.run[r].status = d.run[r].status
    <3>1. \A q \in Runs \ {Story} : e.run[q].status = d.run[q].status
      BY <2>2
    <3>2. e.evidence = d.evidence
      BY <2>2, <1>2, <1>3, Words DEF Ends
    <3>3. WaveDue(e, TRUE) <=> WaveDue(d, TRUE)
      BY <3>1, <3>2, SameWaveDue
    <3>. QED
      BY <1>0, <1>1, <3>1, <3>3, RunKinds DEF Staged, StoryLast
  <2>. QED
    BY <2>1, <2>2
<1>7. Asked(e)
  <2>. SUFFICES ASSUME e.exploration = "awaiting_anchor"
                PROVE  Asked(e)
    BY DEF Asked
  <2>1. /\ d.anchor = NoAnchor /\ Waves # {} /\ Hypotheses(d) # {}
        /\ \A q \in Shards : d.run[q].status \in SettledStates
        /\ \A q \in Waves : d.run[q].status = "absent"
    BY <1>0, RunKinds DEF Staged, Asked, Settled, Scheduled
  <2>2. \A q \in Shards : e.run[q].status \in SettledStates
    BY <1>2, <2>1, RunKinds
  <2>3. \A q \in Waves : e.run[q].status = "absent"
    BY <1>1, <2>1, RunKinds
  <2>4. Hypotheses(d) \subseteq Hypotheses(e)
    BY DEF Hypotheses
  <2>. QED
    BY <1>0, <2>1, <2>2, <2>3, <2>4 DEF Asked, Settled, Scheduled
<1>8. StoryRan(e)
  <2>1. e.status \notin {"ready", "no_candidates"}
    BY <1>0 DEF Closed
  <2>2. CASE r = Story
    BY <2>1, <2>2 DEF StoryRan
  <2>3. CASE r # Story
    BY <1>0, <2>1, <2>3, RunKinds DEF Staged, StoryRan, StoryFinished
  <2>. QED
    BY <2>2, <2>3
<1>9. Chosen(d) => Chosen(e)
  BY <1>1, RunKinds DEF Chosen, Scheduled
<1>. QED
  BY <1>0, <1>4, <1>6, <1>7, <1>8, <1>9 DEF Tidy, Staged

-----------------------------------------------------------------------------
(* The tokens *)

Seeing(w, r) == worker[w].pc = "seen" /\ worker[w].run = r

Unsent(m, r) == m.run = r /\ ~m.sent

HasToken(r) ==
    \/ \E m \in db.outbox : Unsent(m, r)
    \/ r \in broker.queue
    \/ \E w \in Workers : Seeing(w, r)

OneToken ==
    \A r \in Runs :
       /\ \A m, n \in db.outbox : Unsent(m, r) /\ Unsent(n, r) => m = n
       /\ \A w, x \in Workers : Seeing(w, r) /\ Seeing(x, r) => w = x
       /\ r \in broker.queue => \A m \in db.outbox : ~Unsent(m, r)
       /\ \A w \in Workers : Seeing(w, r) =>
             r \notin broker.queue /\ \A m \in db.outbox : ~Unsent(m, r)

TokenWaits ==
    db.status # "deleted" =>
       \A r \in Runs : HasToken(r) => db.run[r].status \notin {"running", "absent"}

\* What a worker has read before the lock is still so, unless the run was cut
\* off or the job cancelled meanwhile.
SeenIsCurrent ==
    db.status # "deleted" =>
       \A w \in Workers : worker[w].pc = "seen" =>
          /\ worker[w].gen = db.run[worker[w].run].gen
          /\ worker[w].status \in WaitingStates =>
                \/ db.run[worker[w].run].status \in WaitingStates \cup {"closed_at_cutoff"}
                \/ db.run[worker[w].run].status = "cancelled" /\ Closed(db)

\* Leases of one run are told apart by their generations.
OwnersDiffer ==
    /\ \A w, x \in Workers :
          /\ worker[w].pc = "working" /\ worker[x].pc = "working"
          /\ worker[w].run = worker[x].run /\ worker[w].gen = worker[x].gen
          => w = x
    /\ db.status # "deleted" =>
          \A w \in Workers : worker[w].pc = "working" =>
             worker[w].gen <= db.run[worker[w].run].gen

\* The maintenance pass closes as late only what is late.
LateSound ==
    db.status # "deleted" =>
       \A r \in maint.todo \ maint.intime :
          r # Story /\ db.run[r].status # "absent" /\ db.run[r].left = 0

Tokens == OneToken /\ TokenWaits /\ SeenIsCurrent /\ OwnersDiffer

DInv ==
    /\ IInv /\ Tidy(db) /\ Chosen(db)
    /\ Tokens /\ LateSound /\ broker.again = 0

\* A step of the rows that no token and no lease notices, except that the
\* runs of X may be closed before their lease.
Calm(d, e, X) ==
    /\ e.status = "deleted" <=> d.status = "deleted"
    /\ \A m \in e.outbox : ~m.sent =>
          \/ m \in d.outbox
          \/ /\ m.run \in Runs /\ d.status # "deleted"
             /\ d.run[m.run].status \in {"running", "absent"}
             /\ e.run[m.run].status \in WaitingStates
             /\ \A n \in e.outbox \ d.outbox : n.run = m.run => n = m
    /\ d.status # "deleted" => \A r \in Runs :
          /\ d.run[r].gen <= e.run[r].gen
          /\ d.run[r].status # "absent" =>
                /\ e.run[r].status # "absent" /\ e.run[r].gen = d.run[r].gen
                /\ e.run[r].left <= d.run[r].left
          /\ d.run[r].status # "running" => e.run[r].status # "running"
          /\ r \notin X /\ d.run[r].status \in WaitingStates \cup {"closed_at_cutoff"} =>
                \/ e.run[r].status \in WaitingStates \cup {"closed_at_cutoff"}
                \/ e.run[r].status = "cancelled" /\ Closed(e)
          /\ d.run[r].status = "cancelled" /\ Closed(d) =>
                e.run[r].status = "cancelled" /\ Closed(e)

\* What the action properties allow a step to do.
Lawful(d, e) ==
    /\ \A r \in Runs :
          d.run[r].status \in SettledStates =>
             \/ e.run[r].status = d.run[r].status
             \/ d.run[r].status = "closed_at_cutoff" /\ e.run[r].status = "cancelled"
                /\ Closed(d)
             \/ e.status = "deleted"
    /\ d.run[Story].status # "absent" => e.evidence = d.evidence \/ e.status = "deleted"

Good(d, e, X) == Tidy(e) /\ Chosen(e) /\ Calm(d, e, X) /\ Lawful(d, e)

\* What a waiting worker has read is moved by its own step only.
LEMMA CalmTokens ==
    ASSUME IInv, IInv', Tokens, NEW X, Calm(db, db', X), broker' = broker,
           \A w \in Workers : worker'[w] = worker[w] \/ worker'[w].pc \notin {"seen", "working"},
           \A w \in Workers : worker'[w].pc = "seen" => worker'[w].run \notin X
    PROVE  Tokens'
<1>1. /\ \A w \in Workers : worker[w].pc = "seen" => worker[w].run \in Runs
      /\ \A w \in Workers : worker[w].pc = "working" => worker[w].run \in Runs
  BY SeenTypes, WorkingTypes DEF IInv
<1>2. /\ \A w \in Workers, r \in Runs : Seeing(w, r)' => Seeing(w, r)
      /\ \A w \in Workers : worker'[w].pc = "seen" => worker'[w] = worker[w]
      /\ \A w \in Workers : worker'[w].pc = "working" => worker'[w] = worker[w]
  BY DEF Seeing
<1>3. \A m \in db'.outbox, r \in Runs : Unsent(m, r) =>
         \/ m \in db.outbox
         \/ ~HasToken(r) /\ \A n \in db'.outbox : Unsent(n, r) => n = m
  <2>. SUFFICES ASSUME NEW m \in db'.outbox, NEW r \in Runs, Unsent(m, r), m \notin db.outbox
                PROVE  ~HasToken(r) /\ \A n \in db'.outbox : Unsent(n, r) => n = m
    OBVIOUS
  <2>1. /\ m.run = r /\ db.status # "deleted" /\ db.run[r].status \in {"running", "absent"}
        /\ \A n \in db'.outbox \ db.outbox : n.run = r => n = m
    BY DEF Calm, Unsent
  <2>2. ~HasToken(r)
    BY <2>1 DEF Tokens, TokenWaits
  <2>. QED
    BY <2>1, <2>2 DEF HasToken, Unsent
<1>4. OneToken'
  <2>. SUFFICES ASSUME NEW r \in Runs
                PROVE  /\ \A m, n \in db'.outbox : Unsent(m, r) /\ Unsent(n, r) => m = n
                       /\ \A w, x \in Workers : Seeing(w, r)' /\ Seeing(x, r)' => w = x
                       /\ r \in broker.queue => \A m \in db'.outbox : ~Unsent(m, r)
                       /\ \A w \in Workers : Seeing(w, r)' =>
                             r \notin broker.queue /\ \A m \in db'.outbox : ~Unsent(m, r)
    BY DEF OneToken, Unsent
  <2>1. /\ \A m, n \in db.outbox : Unsent(m, r) /\ Unsent(n, r) => m = n
        /\ \A w, x \in Workers : Seeing(w, r) /\ Seeing(x, r) => w = x
        /\ r \in broker.queue => \A m \in db.outbox : ~Unsent(m, r)
        /\ \A w \in Workers : Seeing(w, r) =>
              r \notin broker.queue /\ \A m \in db.outbox : ~Unsent(m, r)
    BY DEF Tokens, OneToken
  <2>. QED
    BY <1>2, <1>3, <2>1 DEF HasToken
<1>5. TokenWaits'
  <2>. SUFFICES ASSUME db'.status # "deleted", NEW r \in Runs, HasToken(r)'
                PROVE  db'.run[r].status \notin {"running", "absent"}
    BY DEF TokenWaits
  <2>1. CASE HasToken(r)
    BY <2>1 DEF Calm, Tokens, TokenWaits
  <2>2. CASE \E m \in db'.outbox : Unsent(m, r) /\ m \notin db.outbox
    BY <2>2, Words DEF Calm, Unsent
  <2>. QED
    BY <1>2, <2>1, <2>2 DEF HasToken
<1>6. SeenIsCurrent'
  <2>. SUFFICES ASSUME db'.status # "deleted", NEW w \in Workers, worker'[w].pc = "seen"
                PROVE  /\ worker'[w].gen = db'.run[worker'[w].run].gen
                       /\ worker'[w].status \in WaitingStates =>
                            \/ db'.run[worker'[w].run].status
                                 \in WaitingStates \cup {"closed_at_cutoff"}
                            \/ db'.run[worker'[w].run].status = "cancelled" /\ Closed(db')
    BY DEF SeenIsCurrent, Closed
  <2>. DEFINE r == worker[w].run
  <2>1. worker'[w] = worker[w] /\ worker[w].pc = "seen" /\ r \in Runs /\ r \notin X
    BY <1>1, <1>2
  <2>2. db.status # "deleted" /\ db.run[r].status # "absent"
    BY <2>1 DEF Calm, Tokens, TokenWaits, HasToken, Seeing
  <2>. QED
    BY <2>1, <2>2 DEF Calm, Tokens, SeenIsCurrent
<1>7. OwnersDiffer'
  <2>1. \A w, x \in Workers :
           /\ worker'[w].pc = "working" /\ worker'[x].pc = "working"
           /\ worker'[w].run = worker'[x].run /\ worker'[w].gen = worker'[x].gen
           => w = x
    BY <1>2 DEF Tokens, OwnersDiffer
  <2>2. ASSUME db'.status # "deleted", NEW w \in Workers, worker'[w].pc = "working"
        PROVE  worker'[w].gen <= db'.run[worker'[w].run].gen
    <3>. DEFINE r == worker[w].run
    <3>1. worker'[w] = worker[w] /\ worker[w].pc = "working" /\ r \in Runs
          /\ worker[w].gen \in Nat
      BY <1>1, <1>2, <2>2, WorkingTypes DEF IInv
    <3>2. worker[w].gen <= db.run[r].gen /\ db.run[r].gen <= db'.run[r].gen
      BY <2>2, <3>1 DEF Calm, Tokens, OwnersDiffer
    <3>3. db.run[r].gen \in Nat /\ db'.run[r].gen \in Nat
      BY <3>1 DEF IInv, TypeOK, Rows
    <3>. QED
      BY <3>1, <3>2, <3>3
  <2>. QED
    BY <2>1, <2>2 DEF OwnersDiffer
<1>. QED
  BY <1>4, <1>5, <1>6, <1>7 DEF Tokens

-----------------------------------------------------------------------------
(* Calm steps *)

LEMMA StillCalm ==
    ASSUME NEW d, d \in Rows, NEW X
    PROVE  Calm(d, d, X) /\ Lawful(d, d)
BY RunKinds DEF Calm, Lawful, Rows

LEMMA EndsCalm ==
    ASSUME NEW d, Tidy(d), ~Closed(d), NEW x, x.outbox = d.outbox, x \in Rows,
           NEW r \in Runs, NEW st \in SettledStates \cup {"retry_scheduled"},
           \/ d.run[r].status \in WaitingStates \cup {"running"}
           \/ d.run[r].status = st /\ st = "closed_at_cutoff",
           Ends(d, x, r, st), NEW X, r \in X \/ d.run[r].status = "running"
    PROVE  Calm(d, x, X) /\ Lawful(d, x)
<1>. USE DEF Ends
<1>0. d \in Rows /\ d.status # "deleted" /\ StoryLast(d)
  BY DEF Tidy, Sound, Staged, Closed
<1>1. \A q \in Runs : /\ x.run[q].gen = d.run[q].gen /\ x.run[q].left = d.run[q].left
                      /\ d.run[q].gen <= x.run[q].gen /\ x.run[q].left <= d.run[q].left
  <2>. SUFFICES ASSUME NEW q \in Runs
                PROVE  /\ x.run[q].gen = d.run[q].gen /\ x.run[q].left = d.run[q].left
                       /\ d.run[q].gen <= x.run[q].gen /\ x.run[q].left <= d.run[q].left
    OBVIOUS
  <2>1. d.run[q].gen \in Nat /\ d.run[q].left \in Nat
    BY <1>0 DEF Rows
  <2>2. x.run[q].gen = d.run[q].gen /\ x.run[q].left = d.run[q].left
    OBVIOUS
  <2>. QED
    BY <2>1, <2>2
<1>2. st # "running" /\ st # "absent"
  BY Words
<1>3. Calm(d, x, X)
  BY <1>0, <1>1, <1>2, Words DEF Calm, Closed
<1>4. \A q \in Runs : d.run[q].status \in SettledStates => x.run[q].status = d.run[q].status
  BY Words
<1>5. d.run[Story].status # "absent" => x.evidence = d.evidence
  BY <1>0, Words DEF StoryLast
<1>. QED
  BY <1>3, <1>4, <1>5 DEF Lawful

LEMMA GrownCalm ==
    ASSUME NEW d, NEW x, NEW a, NEW X, d \in Rows, x \in Rows, a \in Rows, Counted(x),
           Calm(d, x, X), Lawful(d, x), x.outbox = d.outbox, Grown(x, a)
    PROVE  Calm(d, a, X) /\ Lawful(d, a)
<1>1. /\ a.status = "deleted" <=> x.status = "deleted"
      /\ Closed(x) => Closed(a) /\ \A r \in Runs : a.run[r] = x.run[r]
      /\ x.status = "deleted" => Closed(x)
  BY DEF Grown, Closed
<1>2. \A r \in Runs : x.run[r].status # "absent" => a.run[r] = x.run[r]
  BY DEF Grown
<1>3. \A r \in Runs : /\ d.run[r].gen \in Nat /\ x.run[r].gen \in Nat /\ a.run[r].gen \in Nat
                      /\ d.run[r].left \in Nat /\ x.run[r].left \in Nat /\ a.run[r].left \in Nat
  BY DEF Rows
<1>4. \A r \in Runs : x.run[r].gen <= a.run[r].gen
  BY <1>3 DEF Grown, Counted
<1>5. \A m \in a.outbox : m \notin d.outbox =>
         /\ m.run \in Runs /\ m = Message(m.run, 1) /\ ~Closed(x)
         /\ x.run[m.run].status = "absent" /\ a.run[m.run].status = "pending"
  BY DEF Grown
<1>6. Calm(d, a, X)
  <2>1. a.status = "deleted" <=> d.status = "deleted"
    BY <1>1 DEF Calm
  <2>2. ASSUME NEW m \in a.outbox, ~m.sent, m \notin d.outbox
        PROVE  /\ m.run \in Runs /\ d.status # "deleted"
               /\ d.run[m.run].status \in {"running", "absent"}
               /\ a.run[m.run].status \in WaitingStates
               /\ \A n \in a.outbox \ d.outbox : n.run = m.run => n = m
    <3>1. \A n \in a.outbox \ d.outbox : n.run = m.run => n = m
      BY <1>5, <2>2
    <3>. QED
      BY <1>1, <1>5, <2>2, <3>1, Words DEF Calm
  <2>3. ASSUME d.status # "deleted", NEW r \in Runs
        PROVE  /\ d.run[r].gen <= a.run[r].gen
               /\ d.run[r].status # "absent" =>
                     /\ a.run[r].status # "absent" /\ a.run[r].gen = d.run[r].gen
                     /\ a.run[r].left <= d.run[r].left
               /\ d.run[r].status # "running" => a.run[r].status # "running"
               /\ r \notin X /\ d.run[r].status \in WaitingStates \cup {"closed_at_cutoff"} =>
                     \/ a.run[r].status \in WaitingStates \cup {"closed_at_cutoff"}
                     \/ a.run[r].status = "cancelled" /\ Closed(a)
               /\ d.run[r].status = "cancelled" /\ Closed(d) =>
                     a.run[r].status = "cancelled" /\ Closed(a)
    <3>1. /\ d.run[r].gen <= x.run[r].gen
          /\ d.run[r].status # "absent" =>
                /\ x.run[r].status # "absent" /\ x.run[r].gen = d.run[r].gen
                /\ x.run[r].left <= d.run[r].left
          /\ d.run[r].status # "running" => x.run[r].status # "running"
          /\ r \notin X /\ d.run[r].status \in WaitingStates \cup {"closed_at_cutoff"} =>
                \/ x.run[r].status \in WaitingStates \cup {"closed_at_cutoff"}
                \/ x.run[r].status = "cancelled" /\ Closed(x)
          /\ d.run[r].status = "cancelled" /\ Closed(d) =>
                x.run[r].status = "cancelled" /\ Closed(x)
      BY <2>3 DEF Calm
    <3>2. d.run[r].gen <= a.run[r].gen
      BY <1>3, <1>4, <3>1
    <3>3. d.run[r].status # "absent" => a.run[r] = x.run[r]
      BY <1>2, <3>1
    <3>4. d.run[r].status # "running" => a.run[r].status # "running"
      BY <3>1 DEF Grown
    <3>. QED
      BY <1>1, <3>1, <3>2, <3>3, <3>4, Words
  <2>. QED
    BY <2>1, <2>2, <2>3 DEF Calm
<1>7. Lawful(d, a)
  <2>1. \A r \in Runs : d.run[r].status \in SettledStates /\ x.status # "deleted"
          => x.run[r].status # "absent"
    BY Words DEF Lawful
  <2>. QED
    BY <1>1, <1>2, <2>1, RunKinds DEF Lawful, Grown
<1>. QED
  BY <1>6, <1>7

LEMMA AdvanceGood ==
    ASSUME NEW d, Tidy(d), Chosen(d), NEW settings \in BOOLEAN, NEW X
    PROVE  Good(d, Advance(d, settings), X)
<1>. DEFINE a == Advance(d, settings)
<1>1. Tidy(a) /\ Chosen(a) /\ Grown(d, a)
  BY AdvanceTidy
<1>2. d \in Rows /\ a \in Rows /\ Counted(d)
  BY <1>1 DEF Tidy, Sound, Ledger
<1>3. Calm(d, d, X) /\ Lawful(d, d)
  BY <1>2, StillCalm
<1>. HIDE DEF a
<1>4. Calm(d, a, X) /\ Lawful(d, a)
  BY <1>1, <1>2, <1>3, GrownCalm
<1>. QED
  BY <1>1, <1>4 DEF Good, a

\* A run ends, and the job is advanced in the same transaction.
LEMMA EndsGood ==
    ASSUME NEW d, Tidy(d), Chosen(d), ~Closed(d), NEW x, Sound(x), x.outbox = d.outbox,
           NEW r \in Runs, NEW st \in SettledStates \cup {"retry_scheduled"},
           \/ d.run[r].status \in WaitingStates \cup {"running"}
           \/ d.run[r].status = st /\ st = "closed_at_cutoff",
           Ends(d, x, r, st),
           st = "closed_at_cutoff" => r # Story /\ d.run[r].left = 0,
           r = Story /\ st \in {"success", "no_result"} => StoryFinished(x),
           NEW settings \in BOOLEAN, NEW X, r \in X \/ d.run[r].status = "running"
    PROVE  Good(d, x, X) /\ Good(d, Advance(x, settings), X)
<1>. DEFINE a == Advance(x, settings)
<1>1. Tidy(x) /\ Chosen(x)
  BY EndsTidy
<1>2. Tidy(a) /\ Chosen(a) /\ Grown(x, a)
  BY <1>1, AdvanceTidy
<1>3. d \in Rows /\ x \in Rows /\ a \in Rows /\ Counted(x)
  BY <1>1, <1>2 DEF Tidy, Sound, Ledger
<1>4. Calm(d, x, X) /\ Lawful(d, x)
  BY <1>3, EndsCalm
<1>. HIDE DEF a
<1>5. Calm(d, a, X) /\ Lawful(d, a)
  BY <1>2, <1>3, <1>4, GrownCalm
<1>. QED
  BY <1>1, <1>2, <1>4, <1>5 DEF Good, a

-----------------------------------------------------------------------------
(* Steps of the rows *)

\* A step that is good for the rows, while the broker stands still, at most
\* one worker puts something down, and maintenance finds nothing more late.
LEMMA RowStep ==
    ASSUME DInv, IInv', NEW X, Good(db, db', X), broker' = broker,
           \A w \in Workers : worker'[w] = worker[w] \/ worker'[w].pc \notin {"seen", "working"},
           \A w \in Workers : worker'[w].pc = "seen" => worker'[w].run \notin X,
           maint'.todo \ maint'.intime \subseteq maint.todo \ maint.intime
    PROVE  DInv' /\ Lawful(db, db')
<1>1. Tokens'
  BY CalmTokens DEF DInv, Good
<1>2. LateSound'
  <2>. SUFFICES ASSUME db'.status # "deleted", NEW r \in maint.todo \ maint.intime
                PROVE  r # Story /\ db'.run[r].status # "absent" /\ db'.run[r].left = 0
    BY DEF LateSound
  <2>1. r \in Runs
    BY DEF DInv, IInv, TypeOK
  <2>2. db.status # "deleted" /\ db'.run[r].left <= db.run[r].left
        /\ r # Story /\ db.run[r].left = 0 /\ db'.run[r].status # "absent"
    BY <2>1 DEF Good, Calm, DInv, LateSound
  <2>3. db'.run[r].left \in Nat
    BY <2>1 DEF IInv, TypeOK, Rows
  <2>. QED
    BY <2>2, <2>3
<1>. QED
  BY <1>1, <1>2 DEF DInv, Good

\* The worker that takes the step goes idle.
LEMMA IdleRowStep ==
    ASSUME DInv, IInv', NEW w \in Workers, Goto(w, Idle), UNCHANGED <<broker, maint>>,
           NEW X, Good(db, db', X), worker[w].pc # "seen" => X = {},
           worker[w].pc = "seen" => X \subseteq {worker[w].run}
    PROVE  DInv' /\ Lawful(db, db')
<1>1. /\ worker'[w] = Idle
      /\ \A x \in Workers \ {w} : worker'[x] = worker[x]
  BY DEF Goto, DInv, IInv, TypeOK
<1>2. ASSUME NEW x \in Workers, worker'[x].pc = "seen"
      PROVE  worker'[x].run \notin X
  <2>1. x # w /\ worker'[x] = worker[x]
    BY <1>1, <1>2 DEF Idle
  <2>2. worker[x].run \in Runs
    BY <1>2, <2>1, SeenTypes DEF DInv, IInv
  <2>3. worker[w].pc = "seen" => worker[x].run # worker[w].run
    BY <1>2, <2>1, <2>2 DEF DInv, Tokens, OneToken, Seeing
  <2>. QED
    BY <2>1, <2>3
<1>. QED
  BY <1>1, <1>2, RowStep DEF Idle

\* No worker moves.
LEMMA OtherRowStep ==
    ASSUME DInv, IInv', Good(db, db', {}), UNCHANGED <<broker, worker>>,
           maint'.todo \ maint'.intime \subseteq maint.todo \ maint.intime
    PROVE  DInv' /\ Lawful(db, db')
BY RowStep

LEMMA SeenWaits ==
    ASSUME DInv, NEW w \in Workers, worker[w].pc = "seen", ~Closed(db),
           worker[w].status \in WaitingStates
    PROVE  LET r == worker[w].run IN
           /\ r \in Runs /\ worker[w].gen = db.run[r].gen
           /\ db.run[r].status \in WaitingStates \cup {"closed_at_cutoff"}
           /\ ~DeadlineReached(db, r) => db.run[r].status \in WaitingStates
<1>. DEFINE r == worker[w].run
<1>1. r \in Runs
  BY SeenTypes DEF DInv, IInv
<1>2. db.status # "deleted"
  BY DEF Closed
<1>3. /\ worker[w].gen = db.run[r].gen
      /\ db.run[r].status \in WaitingStates \cup {"closed_at_cutoff"}
  BY <1>2 DEF DInv, Tokens, SeenIsCurrent
<1>4. db.run[r].status = "closed_at_cutoff" => DeadlineReached(db, r)
  BY <1>1 DEF DInv, Tidy, Ledger, CutoffSound, DeadlineReached
<1>. QED
  BY <1>1, <1>3, <1>4

LEMMA AdvanceSteps ==
    ASSUME DInv, IInv',
           \/ MaintenanceAdvance \/ Poll
           \/ \E w \in Workers : AdvanceAfterScan(w)
    PROVE  DInv' /\ Lawful(db, db')
<1>1. Good(db, Advance(db, TRUE), {})
  BY AdvanceGood DEF DInv
<1>2. CASE MaintenanceAdvance \/ Poll
  BY <1>1, <1>2, OtherRowStep DEF MaintenanceAdvance, Poll, DInv, IInv, TypeOK
<1>3. ASSUME NEW w \in Workers, AdvanceAfterScan(w)
      PROVE  DInv' /\ Lawful(db, db')
  BY <1>1, <1>3, IdleRowStep DEF AdvanceAfterScan
<1>. QED
  BY <1>2, <1>3

LEMMA ShardSwitchedOffDelivery ==
    ASSUME DInv, IInv', NEW w \in Workers, NEW st \in {"cancelled", "provider_error"},
           ShardSwitchedOff(w, st)
    PROVE  DInv' /\ Lawful(db, db')
<1>. DEFINE r == worker[w].run
            x == Unleased(db, r, st)
<1>1. /\ ~Closed(db) /\ r \in Runs /\ r \in Shards /\ db.run[r].status \in WaitingStates
      /\ worker[w].pc = "seen"
  BY SeenWaits DEF ShardSwitchedOff, Closed
<1>2. db \in Rows /\ Tidy(db) /\ Chosen(db) /\ Sound(db) /\ Ledger(db)
  BY DEF DInv, Tidy, Sound
<1>3. st \in RunStates /\ st \in SettledStates /\ r # Story
  BY <1>1, RunKinds, Words DEF RunStates
<1>4. db.run[r].status # "running"
  BY <1>1, Words
<1>5. Sound(x)
  BY <1>1, <1>2, <1>3, SetRunSound
<1>6. Ends(db, x, r, st) /\ x.outbox = db.outbox
  BY <1>1, <1>2, <1>4, UnleasedEnds
<1>. HIDE DEF x
<1>7. Good(db, Advance(x, TRUE), {r})
  BY <1>1, <1>2, <1>3, <1>5, <1>6, EndsGood
<1>. QED
  BY <1>1, <1>7, IdleRowStep DEF ShardSwitchedOff, x

LEMMA LeaseDeclinedDelivery ==
    ASSUME DInv, IInv', NEW w \in Workers, LeaseDeclined(w)
    PROVE  DInv' /\ Lawful(db, db')
<1>. DEFINE r == worker[w].run
<1>1. /\ db \in Rows /\ Tidy(db) /\ Chosen(db) /\ Sound(db) /\ Ledger(db) /\ Staged(db)
      /\ worker[w].pc = "seen" /\ Goto(w, Idle) /\ UNCHANGED <<broker, maint>>
      /\ r \in Runs
  BY SeenTypes DEF DInv, IInv, Tidy, Sound, LeaseDeclined
<1>2. CASE db' = db
  <2>1. Good(db, db', {})
    BY <1>1, <1>2, StillCalm DEF Good
  <2>. QED
    BY <1>1, <2>1, IdleRowStep
<1>3. CASE /\ db.status \in ClosedStates \ {"deleted"} /\ worker[w].status \in WaitingStates
           /\ db' = Unleased(db, r, "cancelled")
  <2>1. db.run[r].status \in {"closed_at_cutoff", "cancelled"} /\ Closed(db)
    <3>1. HasToken(r) /\ Closed(db)
      BY <1>1, <1>3 DEF HasToken, Seeing, Closed
    <3>2. db.run[r].status # "absent"
      BY <1>1, <1>3, <3>1 DEF DInv, Tokens, TokenWaits
    <3>3. db.run[r].status \in SettledStates
      BY <1>1, <3>1, <3>2 DEF Sound, QuietWhenClosed, Settled, Scheduled
    <3>4. db.run[r].status \in WaitingStates \cup {"closed_at_cutoff", "cancelled"}
      BY <1>1, <1>3 DEF DInv, Tokens, SeenIsCurrent
    <3>. QED
      BY <3>1, <3>3, <3>4, Words
  <2>2. Restated(db, db', r, "cancelled")
    BY <1>1, <1>3, SetRunColumns
  <2>3. Ends(db, db', r, "cancelled")
    BY <1>1, <1>3, <2>1, UnleasedEnds
  <2>4. Ledger(db')
    <3>1. Numbered(db') /\ NoGhost(db') /\ Counted(db')
      BY <1>1, <2>1, <2>2 DEF Ledger, Numbered, NoGhost, Counted, Restated
    <3>2. EvidenceSound(db')
      BY <1>1, <2>1, <2>2, RunKinds DEF Ledger, EvidenceSound, Restated
    <3>3. CutoffSound(db')
      BY <1>1, <2>1, <2>2 DEF Ledger, CutoffSound, Restated
    <3>. QED
      BY <3>1, <3>2, <3>3 DEF Ledger
  <2>5. Staged(db')
    <3>1. Closed(db') /\ db'.exploration # "awaiting_anchor"
      BY <1>1, <2>1, <2>2 DEF Restated, Closed, Staged, Asked
    <3>2. StoryLast(db')
      BY <1>1, <2>1, <2>2, <3>1, Words, RunKinds DEF Restated, Staged, StoryLast
    <3>3. StoryRan(db')
      BY <1>1, <2>1, <2>2, RunKinds DEF Restated, Staged, StoryRan, StoryFinished
    <3>. QED
      BY <3>1, <3>2, <3>3 DEF Staged, Asked
  <2>6. Chosen(db')
    BY <1>1, <2>1, <2>2, RunKinds DEF Chosen, Restated, Scheduled
  <2>7. Calm(db, db', {r})
    <3>1. /\ db'.outbox = db.outbox /\ db'.status = db.status /\ (Closed(db') <=> Closed(db))
      BY <2>2 DEF Restated, Closed
    <3>2. \A q \in Runs : /\ db.run[q].gen \in Nat /\ db.run[q].left \in Nat
                          /\ db'.run[q].gen = db.run[q].gen /\ db'.run[q].left = db.run[q].left
      BY <1>1, <2>2 DEF Restated, Rows
    <3>3. \A q \in Runs : db'.run[q].status = IF q = r THEN "cancelled" ELSE db.run[q].status
      BY <2>2 DEF Restated
    <3>. QED
      BY <2>1, <3>1, <3>2, <3>3 DEF Calm
  <2>8. Lawful(db, db')
    BY <2>1, <2>2 DEF Lawful, Restated
  <2>9. Good(db, db', {r})
    BY <2>4, <2>5, <2>6, <2>7, <2>8 DEF Good, Tidy, DInv, IInv
  <2>. QED
    BY <1>1, <2>9, IdleRowStep
<1>4. CASE /\ ~Closed(db) /\ worker[w].status \in WaitingStates /\ DeadlineReached(db, r)
           /\ db' = Advance(Unleased(db, r, "closed_at_cutoff"), TRUE)
  <2>. DEFINE x == Unleased(db, r, "closed_at_cutoff")
  <2>1. db.run[r].status \in WaitingStates \cup {"closed_at_cutoff"}
    BY <1>1, <1>4, SeenWaits
  <2>2. "closed_at_cutoff" \in RunStates /\ "closed_at_cutoff" \in SettledStates
        /\ db.run[r].status # "running" /\ r # Story /\ db.run[r].left = 0
    BY <1>4, <2>1, Words DEF RunStates, DeadlineReached
  <2>3. Sound(x)
    BY <1>1, <1>4, <2>2, SetRunSound
  <2>4. Ends(db, x, r, "closed_at_cutoff") /\ x.outbox = db.outbox
    BY <1>1, <2>2, UnleasedEnds
  <2>. HIDE DEF x
  <2>5. Good(db, Advance(x, TRUE), {r})
    BY <1>1, <1>4, <2>1, <2>2, <2>3, <2>4, EndsGood
  <2>. QED
    BY <1>1, <1>4, <2>5, IdleRowStep DEF x
<1>. QED
  BY <1>2, <1>3, <1>4 DEF LeaseDeclined, Closed

-----------------------------------------------------------------------------
(* Completions *)

\* The token of an accepted completion names the running lease.
LEMMA UnfencedRun ==
    ASSUME DInv, NEW w \in Workers, worker[w].pc = "working", ~Fenced(db, worker[w])
    PROVE  LET r == worker[w].run IN
           /\ ~Closed(db) /\ r \in Runs
           /\ db.run[r].status = "running" /\ worker[w].gen = db.run[r].gen
BY PassedFence DEF DInv, Fenced

\* A result is stored with its outcome, or discarded past the run's deadline.
LEMMA CompletionGood ==
    ASSUME DInv, ~Closed(db), NEW r \in Runs, db.run[r].status = "running",
           NEW st \in {"finished", "discarded"},
           NEW m \in MarkAttempt(db, r, db.run[r].gen, st), NEW o \in OutcomeStates
    PROVE  /\ st = "finished" => /\ Good(db, Settle(m, r, o), {})
                                 /\ Good(db, Advance(Settle(m, r, o), TRUE), {})
           /\ DeadlineReached(db, r) => Good(db, Advance(SetRun(m, r, "closed_at_cutoff"), TRUE), {})
<1>1. db \in Rows /\ Tidy(db) /\ Chosen(db) /\ Sound(db) /\ Ledger(db)
  BY DEF DInv, Tidy, Sound
<1>2. Sound(m) /\ ~Closed(m) /\ m \in Rows
  BY <1>1, MarkedSound DEF Sound
<1>3. /\ o \in SettledStates /\ "closed_at_cutoff" \in SettledStates
      /\ "closed_at_cutoff" \in RunStates
  BY Words DEF RunStates
<1>. DEFINE s == Settle(m, r, o)
            c == SetRun(m, r, "closed_at_cutoff")
<1>4. Sound(s) /\ Sound(c)
  BY <1>2, <1>3, SettleSound, SetRunSound
<1>5. /\ Ends(db, s, r, o) /\ s.outbox = db.outbox
      /\ Ends(db, c, r, "closed_at_cutoff") /\ c.outbox = db.outbox
      /\ st = "finished" /\ r = Story => StoryFinished(s)
  BY <1>1, <1>2, MarkedEnds
<1>6. o # "closed_at_cutoff"
  BY DEF OutcomeStates
<1>. HIDE DEF s, c
<1>7. st = "finished" => Good(db, s, {}) /\ Good(db, Advance(s, TRUE), {})
  BY <1>1, <1>3, <1>4, <1>5, <1>6, EndsGood
<1>8. DeadlineReached(db, r) => Good(db, Advance(c, TRUE), {})
  BY <1>1, <1>3, <1>4, <1>5, EndsGood DEF DeadlineReached
<1>. QED
  BY <1>7, <1>8 DEF s, c

LEMMA CompleteShardDelivery ==
    ASSUME DInv, IInv', NEW w \in Workers, NEW o \in Outcomes, CompleteShard(w, o)
    PROVE  DInv' /\ Lawful(db, db')
<1>. DEFINE r == worker[w].run
<1>1. /\ ~Closed(db) /\ r \in Runs /\ db.run[r].status = "running"
      /\ worker[w].gen = db.run[r].gen /\ o \in OutcomeStates
  BY UnfencedRun, DiscoveryAssumption DEF CompleteShard
<1>2. PICK m \in MarkAttempt(db, r, db.run[r].gen, "finished") : db' = Settle(m, r, o)
  BY <1>1 DEF CompleteShard
<1>3. Good(db, db', {})
  BY <1>1, <1>2, CompletionGood
<1>4. \A x \in Workers : worker'[x] = worker[x] \/ worker'[x].pc \notin {"seen", "working"}
  BY DEF CompleteShard, Goto, DInv, IInv, TypeOK
<1>. QED
  BY <1>3, <1>4, RowStep DEF CompleteShard

LEMMA CompleteWaveDelivery ==
    ASSUME DInv, IInv', NEW w \in Workers, NEW o \in Outcomes, CompleteWave(w, o)
    PROVE  DInv' /\ Lawful(db, db')
<1>. DEFINE r == worker[w].run
<1>1. /\ ~Closed(db) /\ r \in Runs /\ db.run[r].status = "running"
      /\ worker[w].gen = db.run[r].gen /\ o \in OutcomeStates
  BY UnfencedRun, DiscoveryAssumption DEF CompleteWave
<1>2. Good(db, db', {})
  <2>1. CASE DeadlineReached(db, r)
    <3>1. PICK m \in MarkAttempt(db, r, db.run[r].gen, "discarded") :
             db' = Advance(SetRun(m, r, "closed_at_cutoff"), TRUE)
      BY <1>1, <2>1 DEF CompleteWave
    <3>. QED
      BY <1>1, <2>1, <3>1, CompletionGood
  <2>2. CASE ~DeadlineReached(db, r)
    <3>1. PICK m \in MarkAttempt(db, r, db.run[r].gen, "finished") :
             db' = Advance(Settle(m, r, o), TRUE)
      BY <1>1, <2>2 DEF CompleteWave
    <3>. QED
      BY <1>1, <3>1, CompletionGood
  <2>. QED
    BY <2>1, <2>2
<1>. QED
  BY <1>2, IdleRowStep DEF CompleteWave

LEMMA CompleteStoryDelivery ==
    ASSUME DInv, IInv', NEW w \in Workers, NEW o \in Outcomes, CompleteStory(w, o)
    PROVE  DInv' /\ Lawful(db, db')
<1>. DEFINE r == worker[w].run
<1>1. /\ ~Closed(db) /\ r \in Runs /\ db.run[r].status = "running"
      /\ worker[w].gen = db.run[r].gen /\ o \in OutcomeStates
  BY UnfencedRun, DiscoveryAssumption DEF CompleteStory
<1>2. PICK m \in MarkAttempt(db, r, db.run[r].gen, "finished") :
         db' = Advance(Settle(m, r, o), TRUE)
  BY <1>1 DEF CompleteStory
<1>3. Good(db, db', {})
  BY <1>1, <1>2, CompletionGood
<1>. QED
  BY <1>3, IdleRowStep DEF CompleteStory

\* Attempts that only stop running, and never lose what they finished.
Quieted(d, e) ==
    \A r \in Runs :
       /\ Len(e.attempts[r]) = Len(d.attempts[r])
       /\ \A i \in 1..Len(d.attempts[r]) :
             /\ e.attempts[r][i].gen = d.attempts[r][i].gen
             /\ \/ e.attempts[r][i].status = d.attempts[r][i].status
                \/ d.attempts[r][i].status = "running" /\ e.attempts[r][i].status = "discarded"

LEMMA DiscardQuiets ==
    ASSUME NEW d, d \in Rows, NEW r \in Runs, NEW g, NEW e \in DiscardAttempt(d, r, g)
    PROVE  Quieted(d, e)
<1>1. CASE e = d
  BY <1>1 DEF Quieted
<1>2. CASE \E i \in AttemptRows(d, r, g) :
              /\ d.attempts[r][i].status = "running"
              /\ e = [d EXCEPT !.attempts[r][i].status = "discarded"]
  <2>1. PICK i \in AttemptRows(d, r, g) :
              /\ d.attempts[r][i].status = "running"
              /\ e = [d EXCEPT !.attempts[r][i].status = "discarded"]
    BY <1>2
  <2>. DEFINE q == d.attempts[r]
              row == [q[i] EXCEPT !.status = "discarded"]
  <2>2. q \in Seq(Attempt) /\ i \in 1..Len(q) /\ q[i] \in Attempt
    BY DEF Rows, AttemptRows
  <2>3. e.attempts = [d.attempts EXCEPT ![r] = [q EXCEPT ![i] = row]]
    BY <2>1 DEF Rows
  <2>4. row.gen = q[i].gen /\ row.status = "discarded"
    BY <2>2 DEF Attempt
  <2>. HIDE DEF row
  <2>. DEFINE log == [q EXCEPT ![i] = row]
  <2>5. /\ Len(log) = Len(q)
        /\ \A j \in 1..Len(q) : log[j] = IF j = i THEN row ELSE q[j]
    BY <2>2
  <2>6. \A p \in Runs : e.attempts[p] = IF p = r THEN log ELSE d.attempts[p]
    BY <2>3 DEF Rows
  <2>. HIDE DEF log
  <2>. QED
    BY <2>1, <2>4, <2>5, <2>6 DEF Quieted
<1>. QED
  BY <1>1, <1>2 DEF DiscardAttempt

\* Rows whose ledger differs in quieted attempts and lease times only.
LEMMA QuietedGood ==
    ASSUME NEW d, Tidy(d), Chosen(d), NEW e, Sound(e), Quieted(d, e),
           e.status = d.status, e.exploration = d.exploration, e.left = d.left,
           e.anchor = d.anchor, e.evidence = d.evidence, e.outbox = d.outbox,
           \A r \in Runs : /\ e.run[r].status = d.run[r].status
                           /\ e.run[r].gen = d.run[r].gen /\ e.run[r].left = d.run[r].left
    PROVE  Good(d, e, {})
<1>1. d \in Rows /\ e \in Rows /\ Ledger(d) /\ Staged(d)
  BY DEF Tidy, Sound
<1>2. Ledger(e)
  <2>1. Numbered(e)
    BY <1>1 DEF Ledger, Numbered, Quieted
  <2>2. NoGhost(e)
    BY <1>1 DEF Ledger, NoGhost, Quieted
  <2>3. Counted(e) /\ EvidenceSound(e) /\ CutoffSound(e)
    BY <1>1, RunKinds DEF Ledger, Counted, EvidenceSound, CutoffSound
  <2>. QED
    BY <2>1, <2>2, <2>3 DEF Ledger
<1>3. Staged(e)
  <2>1. WaveDue(e, TRUE) <=> WaveDue(d, TRUE)
    BY SameWaveDue
  <2>2. StoryLast(e)
    BY <1>1, <2>1, RunKinds DEF Staged, StoryLast, Closed
  <2>3. Asked(e)
    <3>1. Hypotheses(e) = Hypotheses(d) /\ Scheduled(e) = Scheduled(d)
      BY DEF Hypotheses, Scheduled
    <3>. QED
      BY <1>1, <3>1, RunKinds DEF Staged, Asked, Settled, Closed
  <2>4. StoryFinished(d) => StoryFinished(e)
    BY RunKinds DEF StoryFinished, Quieted
  <2>5. StoryRan(e)
    BY <1>1, <2>4, RunKinds DEF Staged, StoryRan
  <2>. QED
    BY <2>2, <2>3, <2>5 DEF Staged
<1>4. Chosen(e)
  BY RunKinds DEF Chosen, Scheduled
<1>5. Calm(d, e, {})
  BY <1>1 DEF Calm, Closed, Rows
<1>6. Lawful(d, e)
  BY RunKinds DEF Lawful
<1>. QED
  BY <1>2, <1>3, <1>4, <1>5, <1>6 DEF Good, Tidy

LEMMA CompleteFencedDelivery ==
    ASSUME DInv, IInv', NEW w \in Workers, CompleteFenced(w)
    PROVE  DInv' /\ Lawful(db, db')
<1>1. /\ worker[w].run \in Runs /\ db \in Rows /\ Sound(db) /\ Tidy(db) /\ Chosen(db)
      /\ db' \in DiscardAttempt(db, worker[w].run, worker[w].gen)
  BY WorkingTypes DEF DInv, IInv, TypeOK, CompleteFenced
<1>2. AttemptsOnly(db, db') /\ Quieted(db, db')
  BY <1>1, DiscardAttemptOnly, DiscardQuiets
<1>3. /\ db'.status = db.status /\ db'.exploration = db.exploration /\ db'.left = db.left
      /\ db'.anchor = db.anchor /\ db'.evidence = db.evidence /\ db'.outbox = db.outbox
      /\ db'.run = db.run
  BY <1>1, <1>2 DEF AttemptsOnly, Rows
<1>4. Good(db, db', {})
  BY <1>1, <1>2, <1>3, QuietedGood DEF IInv
<1>. QED
  BY <1>4, IdleRowStep DEF CompleteFenced

LEMMA HeartbeatDelivery ==
    ASSUME DInv, IInv', NEW w \in Workers, Heartbeat(w)
    PROVE  DInv' /\ Lawful(db, db')
<1>1. db \in Rows /\ Tidy(db) /\ Chosen(db) /\ Story \in Runs
  BY RunKinds DEF DInv, IInv, TypeOK
<1>2. /\ db'.status = db.status /\ db'.exploration = db.exploration /\ db'.left = db.left
      /\ db'.anchor = db.anchor /\ db'.evidence = db.evidence /\ db'.outbox = db.outbox
      /\ db'.attempts = db.attempts
      /\ db'.run = [db.run EXCEPT ![Story] = [db.run[Story] EXCEPT !.lease = StoryLease]]
  BY <1>1 DEF Heartbeat, Rows
<1>3. \A r \in Runs : /\ db'.run[r].status = db.run[r].status
                      /\ db'.run[r].gen = db.run[r].gen /\ db'.run[r].left = db.run[r].left
  BY <1>1, <1>2 DEF Rows
<1>4. Quieted(db, db')
  BY <1>2 DEF Quieted
<1>5. Good(db, db', {})
  BY <1>1, <1>2, <1>3, <1>4, QuietedGood DEF IInv
<1>. QED
  BY <1>5, OtherRowStep DEF Heartbeat

-----------------------------------------------------------------------------
(* Steps of the tokens *)

\* The rows stand still, and the tokens of each run can only get fewer or move.
LEMMA SameRows ==
    ASSUME DInv, IInv', db' = db, Tokens', broker'.again = 0,
           maint'.todo \ maint'.intime \subseteq maint.todo \ maint.intime
    PROVE  DInv' /\ Lawful(db, db')
<1>1. LateSound'
  BY DEF DInv, LateSound
<1>2. Tidy(db') /\ Chosen(db')
  BY DEF DInv
<1>3. Lawful(db, db')
  BY StillCalm DEF DInv, IInv, TypeOK
<1>. QED
  BY <1>1, <1>2, <1>3 DEF DInv

\* A crash before the lease gives the message back; one after it, and a task
\* that is lost, takes the token with it.
LEMMA CrashDelivery ==
    ASSUME DInv, IInv', NEW w \in Workers, Crash(w) \/ CrashRequeued(w) \/ TaskLost(w)
    PROVE  DInv' /\ Lawful(db, db')
<1>1. /\ db' = db /\ maint' = maint /\ worker'[w] = Idle
      /\ \A x \in Workers \ {w} : worker'[x] = worker[x]
  BY DEF Crash, CrashRequeued, TaskLost, Goto, DInv, IInv, TypeOK
<1>2. /\ \A x \in Workers, r \in Runs : Seeing(x, r)' <=> x # w /\ Seeing(x, r)
      /\ \A x \in Workers : worker'[x].pc \in {"seen", "working"} => worker'[x] = worker[x]
  BY <1>1 DEF Seeing, Idle
<1>3. \/ broker' = broker
      \/ /\ worker[w].pc = "seen" /\ worker[w].run \in Runs /\ broker'.again = broker.again
         /\ broker'.queue = broker.queue \cup {worker[w].run}
  <2>1. CASE CrashRequeued(w)
    BY <2>1, SeenTypes DEF CrashRequeued, Enqueue, DInv, IInv, TypeOK
  <2>2. CASE Crash(w) \/ TaskLost(w)
    BY <2>2 DEF Crash, TaskLost
  <2>. QED
    BY <2>1, <2>2
<1>4. \A r \in Runs : r \in broker'.queue =>
         r \in broker.queue \/ Seeing(w, r)
  BY <1>3 DEF Seeing
<1>5. OneToken'
  <2>. SUFFICES ASSUME NEW r \in Runs
                PROVE  /\ \A m, n \in db.outbox : Unsent(m, r) /\ Unsent(n, r) => m = n
                       /\ \A y, x \in Workers : Seeing(y, r)' /\ Seeing(x, r)' => y = x
                       /\ r \in broker'.queue => \A m \in db.outbox : ~Unsent(m, r)
                       /\ \A x \in Workers : Seeing(x, r)' =>
                             r \notin broker'.queue /\ \A m \in db.outbox : ~Unsent(m, r)
    BY <1>1 DEF OneToken, Unsent
  <2>1. /\ \A m, n \in db.outbox : Unsent(m, r) /\ Unsent(n, r) => m = n
        /\ \A y, x \in Workers : Seeing(y, r) /\ Seeing(x, r) => y = x
        /\ r \in broker.queue => \A m \in db.outbox : ~Unsent(m, r)
        /\ \A x \in Workers : Seeing(x, r) =>
              r \notin broker.queue /\ \A m \in db.outbox : ~Unsent(m, r)
    BY DEF DInv, Tokens, OneToken
  <2>. QED
    BY <1>2, <1>4, <2>1
<1>6. \A r \in Runs : HasToken(r)' => HasToken(r)
  BY <1>1, <1>2, <1>4 DEF HasToken, Unsent
<1>7. TokenWaits'
  BY <1>1, <1>6 DEF DInv, Tokens, TokenWaits
<1>8. SeenIsCurrent'
  BY <1>1, <1>2 DEF DInv, Tokens, SeenIsCurrent, Closed
<1>9. OwnersDiffer'
  BY <1>1, <1>2 DEF DInv, Tokens, OwnersDiffer
<1>10. broker'.again = 0
  BY <1>3 DEF DInv
<1>. QED
  BY <1>1, <1>5, <1>7, <1>8, <1>9, <1>10, SameRows DEF Tokens

\* The message moves from the outbox to the queue.
LEMMA DispatchDelivery ==
    ASSUME DInv, IInv', NEW m \in db.outbox, Dispatch(m)
    PROVE  DInv' /\ Lawful(db, db')
<1>. DEFINE s == [m EXCEPT !.sent = TRUE]
            r == m.run
<1>1. /\ db \in Rows /\ Tidy(db) /\ Chosen(db) /\ m \in [run : Runs, gen : Nat \ {0}, sent : BOOLEAN]
      /\ r \in Runs
  BY DEF DInv, IInv, TypeOK, Rows
<1>2. /\ ~m.sent /\ worker' = worker /\ maint' = maint
      /\ broker'.queue = broker.queue \cup {r} /\ broker'.again = broker.again
  BY DEF Dispatch, Enqueue, DInv, IInv, TypeOK
<1>3. s.run = r /\ s.sent = TRUE
  BY <1>1
<1>4. /\ db'.outbox = (db.outbox \ {m}) \cup {s}
      /\ db'.status = db.status /\ db'.exploration = db.exploration /\ db'.left = db.left
      /\ db'.anchor = db.anchor /\ db'.evidence = db.evidence /\ db'.attempts = db.attempts
      /\ db'.run = db.run /\ db'.story = db.story
  BY <1>1 DEF Dispatch, Rows
<1>. HIDE DEF s
<1>5. Tidy(db') /\ Chosen(db') /\ Lawful(db, db')
  <2>1. Sound(db') /\ Sound(db)
    BY DEF IInv, DInv
  <2>2. Ledger(db')
    BY <1>1, <1>4 DEF Tidy, Ledger, Numbered, NoGhost, Counted, EvidenceSound, CutoffSound
  <2>3. WaveDue(db', TRUE) <=> WaveDue(db, TRUE)
    BY <1>4, SameWaveDue
  <2>4. Hypotheses(db') = Hypotheses(db) /\ Scheduled(db') = Scheduled(db)
    BY <1>4 DEF Hypotheses, Scheduled
  <2>5. Staged(db')
    BY <1>1, <1>4, <2>3, <2>4
       DEF Tidy, Staged, StoryLast, Asked, StoryRan, StoryFinished, Settled, Closed
  <2>6. Chosen(db')
    BY <1>1, <1>4, <2>4 DEF Chosen
  <2>. QED
    BY <1>4, <2>1, <2>2, <2>5, <2>6 DEF Tidy, Lawful
<1>6. \A n \in db'.outbox : ~n.sent => n \in db.outbox /\ n # m
  BY <1>3, <1>4
<1>7. /\ \A n \in db.outbox : Unsent(n, r) => n = m
      /\ Unsent(m, r) /\ HasToken(r) /\ \A w \in Workers : ~Seeing(w, r)
  BY <1>1, <1>2 DEF Unsent, HasToken, DInv, Tokens, OneToken
<1>8. OneToken'
  <2>. SUFFICES ASSUME NEW q \in Runs
                PROVE  /\ \A k, n \in db'.outbox : Unsent(k, q) /\ Unsent(n, q) => k = n
                       /\ \A w, x \in Workers : Seeing(w, q) /\ Seeing(x, q) => w = x
                       /\ q \in broker'.queue => \A k \in db'.outbox : ~Unsent(k, q)
                       /\ \A w \in Workers : Seeing(w, q) =>
                             q \notin broker'.queue /\ \A k \in db'.outbox : ~Unsent(k, q)
    BY <1>2 DEF OneToken, Unsent, Seeing
  <2>1. /\ \A k, n \in db.outbox : Unsent(k, q) /\ Unsent(n, q) => k = n
        /\ \A w, x \in Workers : Seeing(w, q) /\ Seeing(x, q) => w = x
        /\ q \in broker.queue => \A k \in db.outbox : ~Unsent(k, q)
        /\ \A w \in Workers : Seeing(w, q) =>
              q \notin broker.queue /\ \A k \in db.outbox : ~Unsent(k, q)
    BY DEF DInv, Tokens, OneToken
  <2>2. \A k \in db'.outbox : Unsent(k, q) => k \in db.outbox /\ q # r
    BY <1>6, <1>7 DEF Unsent
  <2>. QED
    BY <1>2, <1>7, <2>1, <2>2
<1>9. \A q \in Runs : HasToken(q)' => HasToken(q)
  BY <1>2, <1>6, <1>7 DEF HasToken, Unsent, Seeing
<1>10. TokenWaits'
  BY <1>4, <1>9 DEF DInv, Tokens, TokenWaits
<1>11. SeenIsCurrent' /\ OwnersDiffer'
  BY <1>2, <1>4 DEF DInv, Tokens, SeenIsCurrent, OwnersDiffer, Closed
<1>12. LateSound'
  BY <1>2, <1>4 DEF DInv, LateSound
<1>. QED
  BY <1>2, <1>5, <1>8, <1>10, <1>11, <1>12 DEF DInv, Tokens

\* The queued message becomes what a worker has read.
LEMMA ReceiveDelivery ==
    ASSUME DInv, IInv', NEW w \in Workers, NEW r \in Runs, Receive(w, r)
    PROVE  DInv' /\ Lawful(db, db')
<1>1. /\ db' = db /\ maint' = maint /\ r \in broker.queue /\ worker[w] = Idle
      /\ broker'.queue = broker.queue \ {r} /\ broker'.again = broker.again
      /\ \A x \in Workers \ {w} : worker'[x] = worker[x]
      /\ db.status = "deleted" => worker' = worker
      /\ db.status # "deleted" =>
            worker'[w] = [pc |-> "seen", run |-> r, status |-> db.run[r].status,
                          gen |-> db.run[r].gen]
  BY DEF Receive, Goto, DInv, IInv, TypeOK
<1>2. \A x \in Workers, q \in Runs : Seeing(x, q)' =>
         Seeing(x, q) \/ (x = w /\ q = r /\ db.status # "deleted")
  BY <1>1 DEF Seeing
<1>3. HasToken(r)
  BY <1>1 DEF HasToken
<1>4. OneToken'
  <2>. SUFFICES ASSUME NEW q \in Runs
                PROVE  /\ \A m, n \in db.outbox : Unsent(m, q) /\ Unsent(n, q) => m = n
                       /\ \A y, x \in Workers : Seeing(y, q)' /\ Seeing(x, q)' => y = x
                       /\ q \in broker'.queue => \A m \in db.outbox : ~Unsent(m, q)
                       /\ \A x \in Workers : Seeing(x, q)' =>
                             q \notin broker'.queue /\ \A m \in db.outbox : ~Unsent(m, q)
    BY <1>1 DEF OneToken, Unsent
  <2>1. /\ \A m, n \in db.outbox : Unsent(m, q) /\ Unsent(n, q) => m = n
        /\ \A y, x \in Workers : Seeing(y, q) /\ Seeing(x, q) => y = x
        /\ q \in broker.queue => \A m \in db.outbox : ~Unsent(m, q)
        /\ \A x \in Workers : Seeing(x, q) =>
              q \notin broker.queue /\ \A m \in db.outbox : ~Unsent(m, q)
    BY DEF DInv, Tokens, OneToken
  <2>. QED
    BY <1>1, <1>2, <2>1
<1>5. \A q \in Runs : HasToken(q)' => HasToken(q)
  BY <1>1, <1>2, <1>3 DEF HasToken, Unsent
<1>6. TokenWaits'
  BY <1>1, <1>5 DEF DInv, Tokens, TokenWaits
<1>7. SeenIsCurrent'
  <2>. SUFFICES ASSUME db.status # "deleted", NEW x \in Workers, worker'[x].pc = "seen"
                PROVE  /\ worker'[x].gen = db.run[worker'[x].run].gen
                       /\ worker'[x].status \in WaitingStates =>
                            \/ db.run[worker'[x].run].status
                                 \in WaitingStates \cup {"closed_at_cutoff"}
                            \/ db.run[worker'[x].run].status = "cancelled" /\ Closed(db)
    BY <1>1 DEF SeenIsCurrent, Closed
  <2>1. CASE x = w
    BY <1>1, <2>1
  <2>2. CASE x # w
    BY <1>1, <2>2 DEF DInv, Tokens, SeenIsCurrent
  <2>. QED
    BY <2>1, <2>2
<1>8. \A x \in Workers : worker'[x].pc = "working" => worker'[x] = worker[x]
  BY <1>1
<1>9. OwnersDiffer'
  BY <1>1, <1>8 DEF DInv, Tokens, OwnersDiffer
<1>. QED
  BY <1>1, <1>4, <1>6, <1>7, <1>9, SameRows DEF Tokens, DInv

\* What a lease writes.
Leased(d, e, r, g) ==
    /\ e.status = IF d.status = "queued" THEN "discovering" ELSE d.status
    /\ e.exploration \in {d.exploration, "running"}
    /\ e.left = d.left /\ e.anchor = d.anchor /\ e.evidence = d.evidence
    /\ e.outbox = d.outbox
    /\ \A q \in Runs \ {r} : e.run[q] = d.run[q] /\ e.attempts[q] = d.attempts[q]
    /\ e.run[r].status = "running" /\ e.run[r].gen = g + 1
    /\ e.run[r].left = d.run[r].left
    /\ e.attempts[r] = Append(d.attempts[r], [gen |-> g + 1, status |-> "running"])

LEMMA TakeLeaseColumns ==
    ASSUME NEW d, d \in Rows, NEW r \in Runs, NEW g \in Nat
    PROVE  Leased(d, TakeLease(d, r, g), r, g)
<1>. DEFINE row == [d.run[r] EXCEPT !.status = "running", !.gen = g + 1,
                                    !.lease = LeaseTime(d, r), !.epoch = d.epoch]
            log == Append(d.attempts[r], [gen |-> g + 1, status |-> "running"])
            e == TakeLease(d, r, g)
<1>1. /\ row.status = "running" /\ row.gen = g + 1 /\ row.left = d.run[r].left
  BY DEF Rows
<1>. HIDE DEF row, log
<1>2. /\ e.run = [d.run EXCEPT ![r] = row]
      /\ e.attempts = [d.attempts EXCEPT ![r] = log]
      /\ e.status = IF d.status = "queued" THEN "discovering" ELSE d.status
      /\ e.exploration \in {d.exploration, "running"}
      /\ e.left = d.left /\ e.anchor = d.anchor /\ e.evidence = d.evidence
      /\ e.outbox = d.outbox
  BY DEF TakeLease, Rows, row, log
<1>. HIDE DEF e
<1>3. /\ \A q \in Runs : e.run[q] = IF q = r THEN row ELSE d.run[q]
      /\ \A q \in Runs : e.attempts[q] = IF q = r THEN log ELSE d.attempts[q]
  BY <1>2 DEF Rows
<1>. QED
  BY <1>1, <1>2, <1>3 DEF e, log, Leased

\* Leasing a waiting run of an open job, at the generation that it has.
LEMMA LeaseTidy ==
    ASSUME NEW d, Tidy(d), Chosen(d), ~Closed(d), NEW r \in Runs,
           d.run[r].status \in WaitingStates,
           NEW e, e = TakeLease(d, r, d.run[r].gen), Sound(e)
    PROVE  Tidy(e) /\ Chosen(e) /\ Lawful(d, e) /\ ~Closed(e)
<1>. DEFINE g == d.run[r].gen
<1>1. d \in Rows /\ e \in Rows /\ Ledger(d) /\ Staged(d) /\ g \in Nat
  BY DEF Tidy, Sound, Rows
<1>2. /\ e.status = IF d.status = "queued" THEN "discovering" ELSE d.status
      /\ e.exploration \in {d.exploration, "running"}
      /\ e.left = d.left /\ e.anchor = d.anchor /\ e.evidence = d.evidence
      /\ \A q \in Runs \ {r} : e.run[q] = d.run[q] /\ e.attempts[q] = d.attempts[q]
      /\ e.run[r].status = "running" /\ e.run[r].gen = g + 1
      /\ e.run[r].left = d.run[r].left
      /\ e.attempts[r] = Append(d.attempts[r], [gen |-> g + 1, status |-> "running"])
  <2>1. Leased(d, e, r, g)
    BY <1>1, TakeLeaseColumns
  <2>. QED
    BY <2>1 DEF Leased
<1>3. d.run[r].status \notin SettledStates /\ d.run[r].status \notin {"absent", "running"}
  BY Words
<1>4. ~Closed(e) /\ e.status \notin {"ready", "no_candidates"}
  BY <1>2 DEF Closed
<1>5. /\ Len(d.attempts[r]) = g /\ d.attempts[r] \in Seq(Attempt)
      /\ \A i \in 1..g : d.attempts[r][i].gen = i /\ d.attempts[r][i].status # "running"
  BY <1>1, <1>3 DEF Ledger, Numbered, NoGhost, Rows
<1>6. /\ Len(e.attempts[r]) = g + 1
      /\ \A i \in 1..g : e.attempts[r][i] = d.attempts[r][i]
      /\ e.attempts[r][g + 1] = [gen |-> g + 1, status |-> "running"]
  <2>1. ASSUME NEW S, NEW s \in Seq(S), NEW x, Len(s) = g
        PROVE  /\ Len(Append(s, x)) = g + 1
               /\ \A i \in 1..g : Append(s, x)[i] = s[i]
               /\ Append(s, x)[g + 1] = x
    BY <1>1, <2>1
  <2>2. Len(d.attempts[r]) = g /\ d.attempts[r] \in Seq(Attempt)
    BY <1>5
  <2>3. e.attempts[r] = Append(d.attempts[r], [gen |-> g + 1, status |-> "running"])
    BY <1>2
  <2>. QED
    BY <2>1, <2>2, <2>3
<1>7. Ledger(e)
  <2>1. ASSUME NEW q \in Runs
        PROVE  /\ Len(e.attempts[q]) = e.run[q].gen
               /\ \A i \in 1..Len(e.attempts[q]) :
                     /\ e.attempts[q][i].gen = i
                     /\ e.attempts[q][i].status = "running"
                          => e.run[q].status = "running" /\ e.run[q].gen = i
    <3>1. CASE q # r
      <4>1. e.run[q] = d.run[q] /\ e.attempts[q] = d.attempts[q]
        BY <1>2, <3>1
      <4>2. /\ Len(d.attempts[q]) = d.run[q].gen
            /\ \A i \in 1..Len(d.attempts[q]) :
                  /\ d.attempts[q][i].gen = i
                  /\ d.attempts[q][i].status = "running"
                       => d.run[q].status = "running" /\ d.run[q].gen = i
        BY <1>1 DEF Ledger, Numbered, NoGhost
      <4>. QED
        BY <4>1, <4>2
    <3>2. CASE q = r
      <4>1. ASSUME NEW i \in 1..(g + 1)
            PROVE  /\ e.attempts[r][i].gen = i
                   /\ e.attempts[r][i].status = "running" => i = g + 1
        <5>1. CASE i \in 1..g
          BY <1>5, <1>6, <5>1
        <5>2. CASE i = g + 1
          BY <1>6, <5>2
        <5>. QED
          BY <1>1, <5>1, <5>2
      <4>. QED
        BY <1>2, <1>6, <3>2, <4>1
    <3>. QED
      BY <3>1, <3>2
  <2>2. Counted(e)
    <3>1. e.run[r].status = "running" /\ e.run[r].gen # 0
      <4>1. e.run[r].status = "running" /\ e.run[r].gen = g + 1
        BY <1>2
      <4>2. g + 1 # 0
        BY <1>1
      <4>. QED
        BY <4>1, <4>2
    <3>2. \A q \in Runs \ {r} : e.run[q] = d.run[q]
      BY <1>2
    <3>3. Counted(d)
      BY <1>1 DEF Ledger
    <3>. QED
      BY <3>1, <3>2, <3>3 DEF Counted
  <2>3. EvidenceSound(e)
    BY <1>1, <1>2, <1>3, Words, RunKinds DEF Ledger, EvidenceSound
  <2>4. CutoffSound(e)
    BY <1>1, <1>2 DEF Ledger, CutoffSound
  <2>. QED
    BY <2>1, <2>2, <2>3, <2>4 DEF Ledger, Numbered, NoGhost
<1>8. r = Story \/ d.run[Story].status = "absent"
  BY <1>1, <1>3 DEF Staged, StoryLast
<1>9. StoryLast(e)
  <2>1. CASE r # Story
    BY <1>2, <1>8, <2>1, RunKinds DEF StoryLast
  <2>2. CASE r = Story
    <3>1. \A q \in Runs \ {Story} : e.run[q] = d.run[q]
      BY <1>2, <2>2
    <3>2. WaveDue(e, TRUE) <=> WaveDue(d, TRUE)
      BY ONLY <1>2, <3>1, SameWaveDue
    <3>. QED
      BY <1>1, <1>2, <1>3, <1>4, <2>2, <3>1, <3>2 DEF Staged, StoryLast
  <2>. QED
    BY <2>1, <2>2
<1>10. Asked(e)
  <2>. SUFFICES ASSUME e.exploration = "awaiting_anchor"
                PROVE  Asked(e)
    BY DEF Asked
  <2>1. Asked(d) /\ d.exploration = "awaiting_anchor"
    BY <1>1, <1>2 DEF Staged
  <2>2. r = Story
    BY <1>3, <2>1, RunKinds DEF Asked, Settled, Scheduled
  <2>3. \A q \in Shards \cup Waves : e.run[q] = d.run[q]
    BY <1>2, <2>2, RunKinds
  <2>4. /\ Hypotheses(e) = Hypotheses(d)
        /\ Scheduled(e) \cap Waves = Scheduled(d) \cap Waves
        /\ Settled(e, Shards) <=> Settled(d, Shards)
    BY <1>2, <2>3 DEF Hypotheses, Scheduled, Settled
  <2>. QED
    BY <1>2, <1>4, <2>1, <2>4 DEF Asked
<1>11. StoryRan(e)
  BY <1>1, <1>2, <1>4, RunKinds DEF Staged, StoryRan, StoryFinished
<1>12. Chosen(e)
  BY <1>2, RunKinds DEF Chosen, Scheduled
<1>13. Lawful(d, e)
  BY <1>2, <1>3 DEF Lawful
<1>. QED
  BY <1>4, <1>7, <1>9, <1>10, <1>11, <1>12, <1>13 DEF Tidy, Staged

LEMMA LeaseDelivery ==
    ASSUME DInv, IInv', NEW w \in Workers, Lease(w)
    PROVE  DInv' /\ Lawful(db, db')
<1>. DEFINE r == worker[w].run
            g == worker[w].gen
<1>1. /\ ~Closed(db) /\ r \in Runs /\ db.run[r].status \in WaitingStates
      /\ g = db.run[r].gen /\ g \in Nat /\ worker[w].pc = "seen" /\ db \in Rows
  BY SeenWaits, SeenTypes DEF Lease, Closed, DInv, IInv, TypeOK
<1>2. Tidy(db') /\ Chosen(db') /\ Lawful(db, db') /\ ~Closed(db')
  BY <1>1, LeaseTidy DEF Lease, DInv, IInv
<1>3. /\ db'.outbox = db.outbox
      /\ \A q \in Runs \ {r} : db'.run[q] = db.run[q]
      /\ db'.run[r].status = "running" /\ db'.run[r].gen = g + 1
      /\ db'.run[r].left = db.run[r].left
  <2>1. Leased(db, db', r, g)
    BY <1>1, TakeLeaseColumns DEF Lease
  <2>. QED
    BY <2>1 DEF Leased
<1>4. /\ broker' = broker /\ maint' = maint /\ db.status # "deleted" /\ db'.status # "deleted"
      /\ worker'[w] = [pc |-> "working", run |-> r, gen |-> g + 1, epoch |-> db.epoch]
      /\ \A x \in Workers \ {w} : worker'[x] = worker[x]
  BY <1>1, <1>2 DEF Lease, Goto, DInv, IInv, TypeOK, Closed
<1>5. \A x \in Workers, q \in Runs : Seeing(x, q)' <=> x # w /\ Seeing(x, q)
  BY <1>4 DEF Seeing
<1>6. OneToken'
  BY <1>3, <1>4, <1>5 DEF DInv, Tokens, OneToken, Unsent
<1>7. \A q \in Runs : HasToken(q)' => HasToken(q) /\ q # r
  <2>1. Seeing(w, r)
    BY <1>1 DEF Seeing
  <2>2. /\ r \notin broker.queue /\ \A m \in db.outbox : ~Unsent(m, r)
        /\ \A x \in Workers : Seeing(x, r) => x = w
    BY <1>1, <2>1 DEF DInv, Tokens, OneToken
  <2>. QED
    BY <1>3, <1>4, <1>5, <2>2 DEF HasToken, Unsent
<1>8. TokenWaits'
  BY <1>3, <1>4, <1>7 DEF DInv, Tokens, TokenWaits
<1>9. SeenIsCurrent'
  <2>. SUFFICES ASSUME NEW x \in Workers, worker'[x].pc = "seen"
                PROVE  /\ worker'[x].gen = db'.run[worker'[x].run].gen
                       /\ worker'[x].status \in WaitingStates =>
                            \/ db'.run[worker'[x].run].status
                                 \in WaitingStates \cup {"closed_at_cutoff"}
                            \/ db'.run[worker'[x].run].status = "cancelled" /\ Closed(db')
    BY DEF SeenIsCurrent, Closed
  <2>. DEFINE q == worker[x].run
  <2>1. x # w /\ worker'[x] = worker[x] /\ worker[x].pc = "seen"
    BY <1>4
  <2>2. q \in Runs
    BY <2>1, SeenTypes DEF DInv, IInv
  <2>3. q # r
    BY <2>1, <2>2, <1>7, <1>5 DEF HasToken, Seeing
  <2>. QED
    BY <1>1, <1>3, <1>4, <2>1, <2>2, <2>3 DEF DInv, Tokens, SeenIsCurrent
<1>10. \A x \in Workers \ {w} : worker[x].pc = "working" /\ worker[x].run = r
          => worker[x].gen <= g /\ worker[x].gen \in Nat
  BY <1>1, <1>4, WorkingTypes DEF DInv, IInv, Tokens, OwnersDiffer
<1>11. OwnersDiffer'
  <2>1. \A x \in Workers \ {w} : worker[x].pc = "working" /\ worker[x].run = r
           => worker[x].gen # g + 1
    BY <1>1, <1>10
  <2>2. \A y, x \in Workers :
           /\ worker'[y].pc = "working" /\ worker'[x].pc = "working"
           /\ worker'[y].run = worker'[x].run /\ worker'[y].gen = worker'[x].gen
           => y = x
    BY <1>4, <2>1 DEF DInv, Tokens, OwnersDiffer
  <2>3. ASSUME NEW x \in Workers, worker'[x].pc = "working"
        PROVE  worker'[x].gen <= db'.run[worker'[x].run].gen
    <3>1. CASE x = w
      BY <1>1, <1>3, <1>4, <3>1
    <3>2. CASE x # w /\ worker[x].run = r
      <4>1. worker'[x] = worker[x] /\ worker[x].gen <= g /\ worker[x].gen \in Nat
        BY <1>4, <1>10, <2>3, <3>2
      <4>. QED
        BY <1>1, <1>3, <3>2, <4>1
    <3>3. CASE x # w /\ worker[x].run # r
      <4>1. worker'[x] = worker[x] /\ worker[x].pc = "working" /\ worker[x].run \in Runs
        BY <1>4, <2>3, <3>3, WorkingTypes DEF DInv, IInv
      <4>. QED
        BY <1>3, <1>4, <3>3, <4>1 DEF DInv, Tokens, OwnersDiffer
    <3>. QED
      BY <3>1, <3>2, <3>3
  <2>. QED
    BY <2>2, <2>3 DEF OwnersDiffer
<1>12. LateSound'
  <2>1. \A q \in Runs : db'.run[q].left = db.run[q].left
    BY <1>3
  <2>2. maint.todo \subseteq Runs
    BY DEF DInv, IInv, TypeOK
  <2>. QED
    BY <1>3, <1>4, <2>1, <2>2 DEF DInv, LateSound
<1>. QED
  BY <1>2, <1>4, <1>6, <1>8, <1>9, <1>11, <1>12 DEF DInv, Tokens

-----------------------------------------------------------------------------
(* Maintenance *)

\* The pass notes what has expired, and is over with it later.
LEMMA PassDelivery ==
    ASSUME DInv, IInv', MaintenanceStart \/ MaintenanceReclaimed
    PROVE  DInv' /\ Lawful(db, db')
<1>1. db' = db /\ broker' = broker /\ worker' = worker
  BY DEF MaintenanceStart, MaintenanceReclaimed
<1>2. Tidy(db') /\ Chosen(db') /\ Lawful(db, db') /\ Tokens' /\ broker'.again = 0
  <2>1. Lawful(db, db')
    BY <1>1, StillCalm DEF DInv, IInv, TypeOK
  <2>2. Tokens'
    BY <1>1 DEF DInv, Tokens, OneToken, TokenWaits, HasToken, Unsent, Seeing,
                SeenIsCurrent, OwnersDiffer, Closed
  <2>. QED
    BY <1>1, <2>1, <2>2 DEF DInv
<1>3. LateSound'
  <2>1. CASE MaintenanceStart
    BY <1>1, <2>1 DEF MaintenanceStart, Expired, DeadlineReached, LateSound
  <2>2. CASE MaintenanceReclaimed
    BY <1>1, <2>2 DEF MaintenanceReclaimed, LateSound, DInv, IInv, TypeOK
  <2>. QED
    BY <2>1, <2>2
<1>. QED
  BY <1>2, <1>3 DEF DInv

\* A reclaimed run goes back to the queue: it was leased, so it has no token,
\* and gets one.
LEMMA RetryGood ==
    ASSUME DInv, ~Closed(db), NEW r \in Runs, db.run[r].status = "running",
           NEW m \in MarkAttempt(db, r, db.run[r].gen, "discarded")
    PROVE  Good(db, Retry(m, r), {})
<1>. DEFINE f == SetRun(m, r, "retry_scheduled")
            e == Retry(m, r)
            n == RetryMessage(m, r)
<1>1. db \in Rows /\ Tidy(db) /\ Chosen(db) /\ Sound(db) /\ Ledger(db)
  BY DEF DInv, Tidy, Sound
<1>2. Sound(m) /\ ~Closed(m) /\ m \in Rows
  BY <1>1, MarkedSound DEF Sound
<1>3. Sound(e) /\ Sound(f) /\ e \in Rows /\ f \in Rows
  BY <1>2, RetrySound, SetRunSound DEF RunStates, WaitingStates, Sound
<1>4. n.run = r /\ n.sent = FALSE
  BY DEF RetryMessage, Message
<1>5. Ends(db, f, r, "retry_scheduled") /\ f.outbox = db.outbox
  BY <1>1, <1>2, MarkedEnds
<1>6. e = [f EXCEPT !.outbox = f.outbox \cup {n}]
  BY DEF Retry
<1>. HIDE DEF e, f, n
<1>7. /\ e.status = f.status /\ e.exploration = f.exploration /\ e.left = f.left
      /\ e.anchor = f.anchor /\ e.attempts = f.attempts /\ e.run = f.run
      /\ e.evidence = f.evidence /\ e.outbox = f.outbox \cup {n}
  BY <1>3, <1>6 DEF Rows
<1>8. Ends(db, e, r, "retry_scheduled")
  BY <1>5, <1>7 DEF Ends
<1>9. Tidy(e) /\ Chosen(e)
  BY <1>1, <1>3, <1>8, EndsTidy
<1>10. Calm(db, f, {}) /\ Lawful(db, f)
  BY <1>1, <1>3, <1>5, EndsCalm
<1>11. Calm(db, e, {})
  <2>1. ASSUME NEW k \in e.outbox, ~k.sent, k \notin db.outbox
        PROVE  /\ k.run \in Runs /\ db.status # "deleted"
               /\ db.run[k.run].status \in {"running", "absent"}
               /\ e.run[k.run].status \in WaitingStates
               /\ \A j \in e.outbox \ db.outbox : j.run = k.run => j = k
    <3>1. k = n /\ \A j \in e.outbox \ db.outbox : j = n
      BY <1>5, <1>7, <2>1
    <3>. QED
      BY <1>4, <1>8, <3>1 DEF Ends, WaitingStates, Closed
  <2>. QED
    BY <1>7, <1>10, <2>1 DEF Calm, Closed
<1>12. Lawful(db, e)
  BY <1>7, <1>10 DEF Lawful
<1>. QED
  BY <1>9, <1>11, <1>12 DEF Good, e

\* A reclaimed run that is not replayed is closed, and the job advanced.
LEMMA CloseExpiredGood ==
    ASSUME DInv, ~Closed(db), NEW r \in Runs, db.run[r].status = "running",
           NEW m \in MarkAttempt(db, r, db.run[r].gen, "discarded"),
           r \notin maint.intime => r # Story /\ db.run[r].left = 0
    PROVE  Good(db, CloseExpired(m, r), {})
<1>. DEFINE st == IF r \in maint.intime THEN "provider_error" ELSE "closed_at_cutoff"
            f == SetRun(m, r, st)
            x == [f EXCEPT !.story = IF r = Story /\ f.story = "none" THEN "fallback"
                                                                      ELSE f.story]
<1>1. db \in Rows /\ Tidy(db) /\ Chosen(db) /\ Sound(db) /\ Ledger(db)
  BY DEF DInv, Tidy, Sound
<1>2. Sound(m) /\ ~Closed(m) /\ m \in Rows
  BY <1>1, MarkedSound DEF Sound
<1>3. /\ st \in SettledStates /\ st \in RunStates
      /\ st \notin {"success", "partial_success", "no_result"}
      /\ st = "closed_at_cutoff" => r # Story /\ db.run[r].left = 0
  BY Words DEF RunStates
<1>. HIDE DEF st
<1>4. Sound(f) /\ f \in Rows /\ ~Closed(f)
  BY <1>2, <1>3, SetRunSound DEF Sound
<1>5. Ends(db, f, r, st) /\ f.outbox = db.outbox
  BY <1>1, <1>2, <1>3, MarkedEnds
<1>6. CloseExpired(m, r) = Advance(x, FALSE)
  BY DEF CloseExpired, st
<1>. HIDE DEF f
<1>7. /\ x.status = f.status /\ x.exploration = f.exploration /\ x.left = f.left
      /\ x.anchor = f.anchor /\ x.attempts = f.attempts /\ x.run = f.run
      /\ x.evidence = f.evidence /\ x.outbox = f.outbox /\ x.reports = f.reports
      /\ x \in Rows
  <2>. DEFINE s == IF r = Story /\ f.story = "none" THEN "fallback" ELSE f.story
  <2>1. s \in {"none", "fallback", "narrative"}
    BY <1>4 DEF Rows
  <2>2. x = [f EXCEPT !.story = s]
    OBVIOUS
  <2>. HIDE DEF s, x
  <2>. QED
    BY <1>4, <2>1, <2>2, StoryUpdate
<1>. HIDE DEF x
<1>8. Sound(x)
  BY <1>4, <1>7, OpenStaysSound
<1>9. Ends(db, x, r, st) /\ x.outbox = db.outbox
  BY <1>5, <1>7 DEF Ends
<1>10. Good(db, Advance(x, FALSE), {})
  BY <1>1, <1>3, <1>8, <1>9, EndsGood
<1>. QED
  BY <1>6, <1>10

LEMMA ReclaimDelivery ==
    ASSUME DInv, IInv', NEW r \in Runs, MaintenanceReclaim(r)
    PROVE  DInv' /\ Lawful(db, db')
<1>1. maint'.todo \ maint'.intime \subseteq maint.todo \ maint.intime
  BY DEF MaintenanceReclaim, NextPass, DInv, IInv, TypeOK
<1>2. Good(db, db', {})
  <2>1. CASE db' = db
    BY <2>1, StillCalm DEF DInv, IInv, TypeOK, Good
  <2>2. CASE r \in Expired(db) /\ db' \in ReclaimLease(db, r)
    <3>1. db.run[r].status = "running" /\ ~Closed(db)
      BY <2>2, OpenRunOpenJob, Words DEF Expired, DInv, IInv
    <3>2. PICK m \in MarkAttempt(db, r, db.run[r].gen, "discarded") :
             db' = IF Replayable(r) THEN Retry(m, r) ELSE CloseExpired(m, r)
      BY <2>2 DEF ReclaimLease
    <3>3. r \notin maint.intime => r # Story /\ db.run[r].left = 0
      BY <3>1 DEF MaintenanceReclaim, DInv, LateSound, Closed
    <3>. QED
      BY <3>1, <3>2, <3>3, RetryGood, CloseExpiredGood
  <2>. QED
    BY <2>1, <2>2 DEF MaintenanceReclaim
<1>. QED
  BY <1>1, <1>2, OtherRowStep DEF MaintenanceReclaim

\* At the cutoff each running retrieval run loses its one running attempt.
LEMMA DiscardRunningQuiets ==
    ASSUME NEW d, d \in Rows, Ledger(d), NEW e \in DiscardRunning(d)
    PROVE  /\ e.attempts[Story] = d.attempts[Story]
           /\ \A r \in Runs :
                 /\ Len(e.attempts[r]) = Len(d.attempts[r])
                 /\ \A i \in 1..Len(d.attempts[r]) :
                       /\ e.attempts[r][i].gen = d.attempts[r][i].gen
                       /\ e.attempts[r][i].status = "running" =>
                             /\ d.attempts[r][i].status = "running"
                             /\ r = Story
<1>. DEFINE running == {r \in OpenRetrieval(d) :
                          /\ d.run[r].status = "running"
                          /\ AttemptRows(d, r, d.run[r].gen) # {}}
<1>1. PICK pick \in {f \in [running -> UNION {1..Len(d.attempts[r]) : r \in running}] :
                       \A r \in running : f[r] \in AttemptRows(d, r, d.run[r].gen)} :
        e = [d EXCEPT !.attempts =
               [r \in Runs |-> IF r \in running
                               THEN [d.attempts[r] EXCEPT ![pick[r]].status = "discarded"]
                               ELSE d.attempts[r]]]
  BY DEF DiscardRunning
<1>2. \A r \in running : /\ r \in Runs /\ d.run[r].status = "running"
                         /\ pick[r] \in AttemptRows(d, r, d.run[r].gen)
  BY <1>1 DEF OpenRetrieval, Scheduled
<1>3. ASSUME NEW r \in Runs \ {Story}, d.run[r].status = "running"
      PROVE  r \in running
  <2>1. r \in OpenRetrieval(d)
    BY <1>3, Words DEF OpenRetrieval, Scheduled
  <2>2. d.run[r].gen \in AttemptRows(d, r, d.run[r].gen)
    BY <1>3 DEF Ledger, Numbered, Counted, AttemptRows, Rows
  <2>. QED
    BY <1>3, <2>1, <2>2
<1>. HIDE DEF running
<1>4. \A r \in Runs : e.attempts[r] = IF r \in running
                                      THEN [d.attempts[r] EXCEPT ![pick[r]].status = "discarded"]
                                      ELSE d.attempts[r]
  BY <1>1 DEF Rows
<1>5. ASSUME NEW r \in running
      PROVE  /\ Len(e.attempts[r]) = Len(d.attempts[r])
             /\ \A i \in 1..Len(d.attempts[r]) :
                   /\ e.attempts[r][i].gen = d.attempts[r][i].gen
                   /\ e.attempts[r][i].status # "running"
  <2>. DEFINE q == d.attempts[r]
              g == pick[r]
              row == [q[g] EXCEPT !.status = "discarded"]
  <2>1. q \in Seq(Attempt) /\ g \in 1..Len(q) /\ q[g] \in Attempt /\ g = d.run[r].gen
    <3>1. r \in Runs /\ g \in 1..Len(q) /\ q[g].gen = d.run[r].gen /\ q \in Seq(Attempt)
      BY <1>2, <1>5 DEF Rows, AttemptRows
    <3>2. q[g].gen = g
      BY <3>1 DEF Ledger, Numbered
    <3>. QED
      BY <3>1, <3>2
  <2>2. row.gen = q[g].gen /\ row.status = "discarded"
    BY <2>1 DEF Attempt
  <2>3. e.attempts[r] = [q EXCEPT ![g] = row]
    BY <1>2, <1>4, <1>5
  <2>. HIDE DEF row
  <2>4. /\ Len(e.attempts[r]) = Len(q)
        /\ \A i \in 1..Len(q) : e.attempts[r][i] = IF i = g THEN row ELSE q[i]
    BY <2>1, <2>3
  <2>5. \A i \in 1..Len(q) : q[i].status = "running" => i = g
    BY <1>2, <1>5, <2>1 DEF Ledger, NoGhost
  <2>. QED
    BY <2>1, <2>2, <2>4, <2>5
<1>6. Story \in Runs /\ Story \notin running
  BY RunKinds DEF running, OpenRetrieval
<1>7. \A r \in Runs \ running : e.attempts[r] = d.attempts[r]
  BY <1>4
<1>8. \A r \in Runs \ running : \A i \in 1..Len(d.attempts[r]) :
         d.attempts[r][i].status = "running" => r = Story
  BY <1>3 DEF Ledger, NoGhost
<1>9. \A r \in running : r \in Runs
  BY <1>2
<1>. QED
  BY <1>5, <1>6, <1>7, <1>8, <1>9

\* The cutoff closes what retrieval has left open, all of it out of time.
LEMMA CutoffGood ==
    ASSUME DInv, ~Closed(db), db.left = 0, NEW d \in DiscardRunning(db)
    PROVE  Good(db, Advance(CloseRetrieval(d), TRUE), {})
<1>. DEFINE x == CloseRetrieval(d)
            open == OpenRetrieval(db)
<1>1. db \in Rows /\ Tidy(db) /\ Chosen(db) /\ Sound(db) /\ Ledger(db) /\ Staged(db)
  BY DEF DInv, Tidy, Sound
<1>2. AttemptsOnly(db, d)
  BY <1>1, DiscardRunningOnly
<1>3. Sound(d) /\ ~Closed(d) /\ d \in Rows
  BY <1>1, <1>2, AttemptsOnlySound DEF Sound, Closed
<1>4. Sound(x) /\ x \in Rows
  BY <1>3, CloseRetrievalSound DEF Sound
<1>5. /\ d.status = db.status /\ d.exploration = db.exploration /\ d.left = db.left
      /\ d.anchor = db.anchor /\ d.run = db.run /\ d.evidence = db.evidence
      /\ d.outbox = db.outbox
  BY <1>1, <1>2 DEF AttemptsOnly, Rows
<1>6. /\ d.attempts[Story] = db.attempts[Story]
      /\ \A r \in Runs :
            /\ Len(d.attempts[r]) = Len(db.attempts[r])
            /\ \A i \in 1..Len(db.attempts[r]) :
                  /\ d.attempts[r][i].gen = db.attempts[r][i].gen
                  /\ d.attempts[r][i].status = "running" =>
                        db.attempts[r][i].status = "running" /\ r = Story
  BY <1>1, DiscardRunningQuiets
<1>7. /\ x.status = db.status /\ x.exploration = db.exploration /\ x.left = db.left
      /\ x.anchor = db.anchor /\ x.evidence = db.evidence /\ x.outbox = db.outbox
      /\ x.attempts = d.attempts
      /\ x.run = [r \in Runs |-> IF r \in OpenRetrieval(d)
                                 THEN [d.run[r] EXCEPT !.status = "closed_at_cutoff", !.lease = 0]
                                 ELSE d.run[r]]
  BY <1>3, <1>5 DEF CloseRetrieval, Rows
<1>8. open = OpenRetrieval(d)
  BY <1>5 DEF OpenRetrieval, Scheduled
<1>9. /\ \A r \in Runs \ open : x.run[r] = db.run[r]
      /\ \A r \in open : /\ r \in Runs /\ r # Story /\ x.run[r].status = "closed_at_cutoff"
                         /\ x.run[r].gen = db.run[r].gen /\ x.run[r].left = db.run[r].left
  <2>1. \A r \in open : r \in Runs /\ r # Story
    BY DEF OpenRetrieval, Scheduled
  <2>. HIDE DEF x, open
  <2>2. /\ \A r \in Runs : db.run[r] \in RunRow
        /\ x.run = [r \in Runs |-> IF r \in open
                         THEN [db.run[r] EXCEPT !.status = "closed_at_cutoff", !.lease = 0]
                         ELSE db.run[r]]
    BY <1>1, <1>5, <1>7, <1>8 DEF Rows, RunRow
  <2>3. \A row \in RunRow :
           LET new == [row EXCEPT !.status = "closed_at_cutoff", !.lease = 0] IN
           new.status = "closed_at_cutoff" /\ new.gen = row.gen /\ new.left = row.left
    BY DEF RunRow
  <2>4. \A r \in Runs \ open : x.run[r] = db.run[r]
    BY <2>2
  <2>5. ASSUME NEW r \in open
        PROVE  /\ x.run[r].status = "closed_at_cutoff"
               /\ x.run[r].gen = db.run[r].gen /\ x.run[r].left = db.run[r].left
    <3>. DEFINE row == db.run[r]
    <3>1. row \in RunRow
          /\ x.run[r] = [row EXCEPT !.status = "closed_at_cutoff", !.lease = 0]
      BY <2>2, <2>1
    <3>. QED
      BY <3>1, <2>3
  <2>. QED
    BY <2>1, <2>4, <2>5
<1>10. /\ \A r \in open : db.run[r].status \notin SettledStates \cup {"absent"}
       /\ \A r \in Runs \ {Story} : r \notin open =>
             db.run[r].status \in SettledStates \cup {"absent"}
  BY DEF OpenRetrieval, Scheduled
<1>. HIDE DEF x, open
<1>11. Ledger(x)
  <2>1. Numbered(x)
    <3>. SUFFICES ASSUME NEW r \in Runs
                  PROVE  /\ Len(x.attempts[r]) = x.run[r].gen
                         /\ \A i \in 1..Len(x.attempts[r]) : x.attempts[r][i].gen = i
      BY DEF Numbered
    <3>1. x.run[r].gen = db.run[r].gen /\ x.attempts[r] = d.attempts[r]
      BY <1>7, <1>9
    <3>2. /\ Len(db.attempts[r]) = db.run[r].gen
          /\ \A i \in 1..Len(db.attempts[r]) : db.attempts[r][i].gen = i
      BY <1>1 DEF Ledger, Numbered
    <3>. QED
      BY <1>6, <3>1, <3>2
  <2>2. NoGhost(x)
    <3>. SUFFICES ASSUME NEW r \in Runs, NEW i \in 1..Len(x.attempts[r]),
                         x.attempts[r][i].status = "running"
                  PROVE  x.run[r].status = "running" /\ x.run[r].gen = i
      BY DEF NoGhost
    <3>1. /\ i \in 1..Len(db.attempts[r]) /\ db.attempts[r][i].status = "running"
          /\ r = Story
      BY <1>6, <1>7
    <3>2. db.run[r].status = "running" /\ db.run[r].gen = i
      BY <1>1, <3>1 DEF Ledger, NoGhost
    <3>. QED
      BY <1>9, <3>1, <3>2
  <2>3. Counted(x)
    BY <1>1, <1>9 DEF Ledger, Counted
  <2>4. EvidenceSound(x)
    <3>. SUFFICES ASSUME NEW r \in Shards \cup Waves
                  PROVE  r \in x.evidence <=> x.run[r].status \in {"success", "partial_success"}
      BY DEF EvidenceSound
    <3>1. /\ r \in Runs /\ x.evidence = db.evidence
          /\ r \in db.evidence <=> db.run[r].status \in {"success", "partial_success"}
      BY <1>1, <1>7, RunKinds DEF Ledger, EvidenceSound
    <3>2. CASE r \in open
      BY <1>9, <1>10, <3>1, <3>2, Words
    <3>3. CASE r \notin open
      BY <1>9, <3>1, <3>3
    <3>. QED
      BY <3>2, <3>3
  <2>5. CutoffSound(x)
    <3>. SUFFICES ASSUME NEW r \in Runs
                  PROVE  /\ r # Story => x.run[r].left <= x.left
                         /\ x.run[r].status = "closed_at_cutoff"
                              => r # Story /\ x.run[r].left = 0
      BY DEF CutoffSound
    <3>1. db.run[r].left \in Nat /\ x.run[r].left = db.run[r].left
      BY <1>1, <1>9 DEF Rows
    <3>2. /\ r # Story => db.run[r].left = 0
          /\ db.run[r].status = "closed_at_cutoff" => r # Story /\ db.run[r].left = 0
      BY <1>1, <3>1 DEF Ledger, CutoffSound
    <3>3. r \in open => r # Story
      BY <1>9
    <3>4. x.left = 0
      BY <1>7
    <3>. QED
      BY <1>9, <3>1, <3>2, <3>3, <3>4
  <2>. QED
    BY <2>1, <2>2, <2>3, <2>4, <2>5 DEF Ledger
<1>12. x.run[Story] = db.run[Story] /\ ~Closed(x)
  BY <1>7, <1>9, RunKinds DEF Closed
<1>13. StoryLast(x)
  <2>1. x.left = 0
    BY <1>7
  <2>2. ~WaveDue(x, TRUE)
    BY ONLY <2>1 DEF WaveDue
  <2>. QED
    BY <1>9, <1>10, <2>2, Words DEF StoryLast
<1>14. Scheduled(x) = Scheduled(db)
  BY <1>9, <1>10 DEF Scheduled
<1>15. Asked(x)
  <2>1. Hypotheses(x) = Hypotheses(db)
    BY <1>7 DEF Hypotheses
  <2>2. Settled(db, Shards) => Settled(x, Shards)
    BY <1>9, Words, RunKinds DEF Settled
  <2>. QED
    BY <1>1, <1>7, <1>12, <1>14, <2>1, <2>2 DEF Staged, Asked
<1>16. StoryRan(x)
  <2>1. x.attempts[Story] = db.attempts[Story]
    BY <1>6, <1>7
  <2>2. StoryFinished(db) => StoryFinished(x)
    BY <2>1 DEF StoryFinished
  <2>3. x.status \notin {"ready", "no_candidates"}
    BY <1>12 DEF Closed
  <2>. QED
    BY <1>1, <1>12, <2>2, <2>3 DEF Staged, StoryRan
<1>17. Tidy(x) /\ Chosen(x)
  BY <1>1, <1>4, <1>7, <1>11, <1>13, <1>14, <1>15, <1>16 DEF Tidy, Staged, Chosen
<1>18. Calm(db, x, {})
  <2>. SUFFICES ASSUME NEW r \in Runs
                PROVE  /\ db.run[r].gen <= x.run[r].gen /\ x.run[r].gen = db.run[r].gen
                       /\ x.run[r].left <= db.run[r].left
                       /\ db.run[r].status # "absent" => x.run[r].status # "absent"
                       /\ db.run[r].status # "running" => x.run[r].status # "running"
                       /\ db.run[r].status \in WaitingStates \cup {"closed_at_cutoff"} =>
                             x.run[r].status \in WaitingStates \cup {"closed_at_cutoff"}
    BY <1>7 DEF Calm
  <2>1. db.run[r].gen \in Nat /\ db.run[r].left \in Nat
    BY <1>1 DEF Rows
  <2>2. x.run[r].gen = db.run[r].gen /\ x.run[r].left = db.run[r].left
    BY <1>9
  <2>. QED
    BY <1>9, <2>1, <2>2
<1>19. Lawful(db, x)
  BY <1>7, <1>9, <1>10 DEF Lawful
<1>. DEFINE a == Advance(x, TRUE)
<1>20. Tidy(a) /\ Chosen(a) /\ Grown(x, a) /\ a \in Rows /\ Counted(x)
  BY <1>11, <1>17, AdvanceTidy DEF Tidy, Sound, Ledger
<1>. HIDE DEF a
<1>21. Calm(db, a, {}) /\ Lawful(db, a)
  BY <1>1, <1>4, <1>7, <1>18, <1>19, <1>20, GrownCalm
<1>. QED
  BY <1>20, <1>21 DEF Good, a, x

LEMMA ExpireDelivery ==
    ASSUME DInv, IInv', MaintenanceExpire
    PROVE  DInv' /\ Lawful(db, db')
<1>1. Good(db, db', {})
  <2>1. CASE db' = db
    BY <2>1, StillCalm DEF DInv, IInv, TypeOK, Good
  <2>2. CASE db' = Advance(db, TRUE)
    BY <2>2, AdvanceGood DEF DInv
  <2>3. CASE ~Closed(db) /\ db.left = 0
             /\ \E d \in DiscardRunning(db) : db' = Advance(CloseRetrieval(d), TRUE)
    BY <2>3, CutoffGood
  <2>. QED
    BY <2>1, <2>2, <2>3 DEF MaintenanceExpire
<1>. QED
  BY <1>1, OtherRowStep DEF MaintenanceExpire, NextPass

-----------------------------------------------------------------------------
(* The owner and the clock *)

\* A choice in time: everything the wave waits for is there, so it starts.
LEMMA ChoiceGood ==
    ASSUME DInv, NEW n \in Names, ~Closed(db), db.exploration = "awaiting_anchor", AnchorOpen(db)
    PROVE  Good(db, Advance([db EXCEPT !.anchor = n, !.exploration = "running"], TRUE), {})
<1>. DEFINE f == [db EXCEPT !.anchor = n, !.exploration = "running"]
            a == Advance(f, TRUE)
<1>1. db \in Rows /\ Tidy(db) /\ Sound(db) /\ Ledger(db) /\ Staged(db)
  BY DEF DInv, Tidy, Sound
<1>2. /\ f.status = db.status /\ f.exploration = "running" /\ f.left = db.left
      /\ f.anchor = n /\ f.run = db.run /\ f.attempts = db.attempts
      /\ f.evidence = db.evidence /\ f.outbox = db.outbox /\ f.reports = db.reports
      /\ f \in Rows
  BY <1>1 DEF Rows, ExplorationStates
<1>. HIDE DEF f
<1>3. Sound(f)
  BY <1>1, <1>2, OpenStaysSound
<1>4. Ledger(f)
  BY <1>1, <1>2 DEF Ledger, Numbered, NoGhost, Counted, EvidenceSound, CutoffSound
<1>5. Staged(f)
  <2>1. WaveDue(f, TRUE) <=> WaveDue(db, TRUE)
    BY <1>2, SameWaveDue
  <2>. QED
    BY <1>1, <1>2, <2>1 DEF Staged, StoryLast, Asked, StoryRan, StoryFinished, Closed
<1>6. Tidy(a) /\ Grown(f, a)
  BY <1>3, <1>4, <1>5, AdvanceTidy DEF Tidy
<1>7. Chosen(a)
  <2>1. ExpireAnchor(f) = f
    BY <1>2 DEF ExpireAnchor
  <2>2. Scheduled(f) = Scheduled(db) /\ Hypotheses(f) = Hypotheses(db)
    BY <1>2 DEF Scheduled, Hypotheses
  <2>3. Settled(f, Shards) <=> Settled(db, Shards)
    BY <1>2 DEF Settled
  <2>4. f.left > 0
    <3>1. AnchorReserve \in Nat \ {0}
      BY PipelineAssumption
    <3>2. db.left \in Nat /\ db.left >= AnchorReserve
      BY <1>1 DEF AnchorOpen, Rows
    <3>. QED
      BY <1>2, <3>1, <3>2
  <2>5. WaveDue(f, TRUE)
    BY <1>1, <2>2, <2>3, <2>4 DEF Staged, Asked, WaveDue
  <2>6. ~AnchorNeeded(f) /\ ~Closed(f)
    BY <1>2, PipelineAssumption DEF AnchorNeeded, Closed
  <2>7. a = ScheduleWave(f)
    BY <1>2, <2>1, <2>5, <2>6 DEF Advance
  <2>8. /\ a.status = f.status /\ a.left = f.left /\ a.anchor = f.anchor
        /\ a.exploration = "running" /\ a.attempts = f.attempts
        /\ a.evidence = f.evidence /\ a.reports = f.reports
        /\ a.outbox = f.outbox \cup {Message(v, 1) : v \in Waves}
        /\ \A r \in Runs \ Waves : a.run[r] = f.run[r]
        /\ \A r \in Waves : /\ a.run[r].status = "pending" /\ a.run[r].gen = 0
                            /\ a.run[r].left <= f.left
    BY <1>2, <2>7, ScheduleWaveColumns
  <2>. QED
    BY <2>8, RunKinds DEF Chosen, Scheduled
<1>8. Calm(db, f, {}) /\ Lawful(db, f)
  BY <1>1, <1>2 DEF Calm, Lawful, Closed, Rows
<1>9. a \in Rows /\ Counted(f)
  BY <1>4, <1>6 DEF Tidy, Sound, Ledger
<1>. HIDE DEF a
<1>10. Calm(db, a, {}) /\ Lawful(db, a)
  BY <1>1, <1>2, <1>6, <1>8, <1>9, GrownCalm
<1>. QED
  BY <1>6, <1>7, <1>10 DEF Good, a, f

LEMMA SelectAnchorDelivery ==
    ASSUME DInv, IInv', NEW n \in Names, SelectAnchor(n)
    PROVE  DInv' /\ Lawful(db, db')
<1>1. CASE AnchorOpen(db)
  BY <1>1, ChoiceGood, OtherRowStep DEF SelectAnchor
<1>2. CASE ~AnchorOpen(db)
  <2>1. Good(db, Advance(db, TRUE), {})
    BY AdvanceGood DEF DInv
  <2>. QED
    BY <1>2, <2>1, OtherRowStep DEF SelectAnchor
<1>. QED
  BY <1>1, <1>2

\* Cancelling closes every run that is open and every attempt that is running.
LEMMA CancelDelivery ==
    ASSUME DInv, IInv', Cancel
    PROVE  DInv' /\ Lawful(db, db')
<1>. DEFINE e == db'
            open == Unfinished(db)
<1>1. /\ db \in Rows /\ Tidy(db) /\ Chosen(db) /\ Ledger(db) /\ Staged(db) /\ ~Closed(db)
      /\ Sound(e) /\ e \in Rows
  BY DEF DInv, Tidy, IInv, TypeOK, Cancel, Sound
<1>2. /\ e.status = "cancelled" /\ e.exploration = "cancelled" /\ e.left = db.left
      /\ e.anchor = db.anchor /\ e.evidence = db.evidence /\ e.outbox = db.outbox
      /\ e.run = [r \in Runs |-> IF r \in open
                                 THEN [db.run[r] EXCEPT !.status = "cancelled", !.lease = 0]
                                 ELSE db.run[r]]
      /\ e.attempts = [r \in Runs |->
                         [i \in 1..Len(db.attempts[r]) |->
                            IF db.attempts[r][i].status = "running"
                            THEN [db.attempts[r][i] EXCEPT !.status = "discarded"]
                            ELSE db.attempts[r][i]]]
  BY <1>1 DEF Cancel, Rows
<1>3. \A r \in open : r \in Runs
  BY DEF Unfinished, Scheduled
<1>4. /\ \A r \in open : db.run[r].status \notin SettledStates \cup {"absent"}
      /\ \A r \in Runs \ open : db.run[r].status \in SettledStates \cup {"absent"}
  BY DEF Unfinished, Scheduled
<1>. HIDE DEF open
<1>5. /\ \A r \in Runs \ open : e.run[r] = db.run[r]
      /\ \A r \in open : /\ e.run[r].status = "cancelled"
                         /\ e.run[r].gen = db.run[r].gen /\ e.run[r].left = db.run[r].left
  <2>1. \A row \in RunRow :
           LET new == [row EXCEPT !.status = "cancelled", !.lease = 0] IN
           new.status = "cancelled" /\ new.gen = row.gen /\ new.left = row.left
    BY DEF RunRow
  <2>2. \A r \in Runs : db.run[r] \in RunRow
    BY <1>1 DEF Rows, RunRow
  <2>3. ASSUME NEW r \in open
        PROVE  /\ e.run[r].status = "cancelled"
               /\ e.run[r].gen = db.run[r].gen /\ e.run[r].left = db.run[r].left
    <3>. DEFINE row == db.run[r]
    <3>1. row \in RunRow /\ e.run[r] = [row EXCEPT !.status = "cancelled", !.lease = 0]
      BY <1>2, <1>3, <2>2
    <3>. QED
      BY <2>1, <3>1
  <2>. QED
    BY <1>2, <2>3
<1>6. ASSUME NEW r \in Runs
      PROVE  /\ Len(e.attempts[r]) = Len(db.attempts[r])
             /\ \A i \in 1..Len(db.attempts[r]) :
                   /\ e.attempts[r][i].gen = db.attempts[r][i].gen
                   /\ e.attempts[r][i].status # "running"
                   /\ db.attempts[r][i].status = "finished" =>
                         e.attempts[r][i].status = "finished"
  <2>. DEFINE q == db.attempts[r]
              log == [i \in 1..Len(q) |-> IF q[i].status = "running"
                                          THEN [q[i] EXCEPT !.status = "discarded"] ELSE q[i]]
  <2>1. q \in Seq(Attempt) /\ Len(q) \in Nat
    BY <1>1 DEF Rows
  <2>2. e.attempts[r] = log
    BY <1>2
  <2>3. Len(log) = Len(q)
    BY <2>1
  <2>4. ASSUME NEW i \in 1..Len(q)
        PROVE  /\ log[i].gen = q[i].gen /\ log[i].status # "running"
               /\ q[i].status = "finished" => log[i].status = "finished"
    <3>1. q[i] \in Attempt
      BY <2>1
    <3>. QED
      BY <3>1 DEF Attempt
  <2>. HIDE DEF log
  <2>. QED
    BY <2>2, <2>3, <2>4
<1>. HIDE DEF e
<1>7. Ledger(e)
  <2>1. Numbered(e)
    <3>. SUFFICES ASSUME NEW r \in Runs
                  PROVE  /\ Len(e.attempts[r]) = e.run[r].gen
                         /\ \A i \in 1..Len(e.attempts[r]) : e.attempts[r][i].gen = i
      BY DEF Numbered
    <3>1. e.run[r].gen = db.run[r].gen
      BY <1>5
    <3>2. /\ Len(db.attempts[r]) = db.run[r].gen
          /\ \A i \in 1..Len(db.attempts[r]) : db.attempts[r][i].gen = i
      BY <1>1 DEF Ledger, Numbered
    <3>. QED
      BY <1>6, <3>1, <3>2
  <2>2. NoGhost(e)
    BY <1>6 DEF NoGhost
  <2>3. Counted(e)
    BY <1>1, <1>5 DEF Ledger, Counted
  <2>4. EvidenceSound(e)
    BY <1>1, <1>2, <1>4, <1>5, Words, RunKinds DEF Ledger, EvidenceSound
  <2>5. CutoffSound(e)
    BY <1>1, <1>2, <1>5 DEF Ledger, CutoffSound
  <2>. QED
    BY <2>1, <2>2, <2>3, <2>4, <2>5 DEF Ledger
<1>8. Closed(e)
  BY <1>2 DEF Closed
<1>9. StoryLast(e)
  BY <1>4, <1>5, <1>8, Words DEF StoryLast
<1>10. Asked(e)
  BY <1>2 DEF Asked
<1>11. StoryRan(e)
  <2>1. StoryFinished(db) => StoryFinished(e)
    BY <1>6, RunKinds DEF StoryFinished
  <2>2. e.run[Story].status \in {"success", "no_result"} => e.run[Story] = db.run[Story]
    BY <1>5, RunKinds
  <2>. QED
    BY <1>1, <1>2, <2>1, <2>2 DEF Staged, StoryRan
<1>12. Chosen(e)
  BY <1>1, <1>2, <1>5, RunKinds DEF Chosen, Scheduled
<1>13. Calm(db, e, {})
  <2>. SUFFICES ASSUME NEW r \in Runs
                PROVE  /\ db.run[r].gen <= e.run[r].gen
                       /\ db.run[r].status # "absent" =>
                             /\ e.run[r].status # "absent" /\ e.run[r].gen = db.run[r].gen
                             /\ e.run[r].left <= db.run[r].left
                       /\ db.run[r].status # "running" => e.run[r].status # "running"
                       /\ db.run[r].status \in WaitingStates \cup {"closed_at_cutoff"} =>
                             e.run[r].status \in {"cancelled", "closed_at_cutoff"}
    BY <1>1, <1>2, <1>8 DEF Calm, Closed
  <2>1. db.run[r].gen \in Nat /\ db.run[r].left \in Nat
    BY <1>1 DEF Rows
  <2>2. e.run[r].gen = db.run[r].gen /\ e.run[r].left = db.run[r].left
    BY <1>5
  <2>3. CASE r \in open
    BY <1>5, <2>1, <2>2, <2>3
  <2>4. CASE r \notin open
    BY <1>4, <1>5, <2>1, <2>2, <2>4, Words
  <2>. QED
    BY <2>3, <2>4
<1>14. Lawful(db, e)
  BY <1>2, <1>4, <1>5 DEF Lawful
<1>15. Good(db, e, {})
  BY <1>1, <1>7, <1>9, <1>10, <1>11, <1>12, <1>13, <1>14 DEF Good, Tidy, Staged
<1>. QED
  BY <1>15, OtherRowStep DEF Cancel, e

\* The job is gone; what was sent or read for it finds nothing.
LEMMA DeleteDelivery ==
    ASSUME DInv, IInv', Delete
    PROVE  DInv' /\ Lawful(db, db')
<1>1. AcceptedJob \in Rows
  BY AcceptedJobSound DEF Sound
<1>2. /\ db'.status = "deleted" /\ db'.exploration = "cancelled" /\ db'.anchor = NoAnchor
      /\ db'.evidence = {} /\ db'.outbox = {} /\ db'.left = 0
      /\ \A r \in Runs : db'.attempts[r] = << >>
      /\ \A r \in Runs : db'.run[r] = NewRun("absent", 0)
  BY <1>1 DEF Delete, AcceptedJob
<1>3. \A r \in Runs : /\ db'.run[r].status = "absent" /\ db'.run[r].gen = 0
                      /\ db'.run[r].left = 0
  BY <1>2 DEF NewRun
<1>4. Ledger(db')
  BY <1>2, <1>3, RunKinds DEF Ledger, Numbered, NoGhost, Counted, EvidenceSound, CutoffSound
<1>5. Staged(db')
  BY <1>2, <1>3, RunKinds DEF Staged, StoryLast, Asked, StoryRan
<1>6. Tidy(db') /\ Chosen(db') /\ Lawful(db, db')
  BY <1>2, <1>4, <1>5 DEF Tidy, Chosen, Lawful, IInv
<1>7. broker' = broker /\ worker' = worker /\ maint' = maint
  BY DEF Delete
<1>8. OneToken'
  <2>1. \A r \in Runs :
           /\ \A w, x \in Workers : Seeing(w, r) /\ Seeing(x, r) => w = x
           /\ \A w \in Workers : Seeing(w, r) => r \notin broker.queue
    BY DEF DInv, Tokens, OneToken
  <2>. QED
    BY <1>2, <1>7, <2>1 DEF OneToken, Seeing
<1>9. TokenWaits' /\ SeenIsCurrent' /\ LateSound'
  BY <1>2 DEF TokenWaits, SeenIsCurrent, LateSound
<1>10. OwnersDiffer'
  BY <1>2, <1>7 DEF DInv, Tokens, OwnersDiffer
<1>. QED
  BY <1>6, <1>7, <1>8, <1>9, <1>10 DEF DInv, Tokens

\* Time passes for the job and for its runs alike.
LEMMA TickDelivery ==
    ASSUME DInv, IInv', Tick
    PROVE  DInv' /\ Lawful(db, db')
<1>. DEFINE e == db'
<1>1. /\ db \in Rows /\ Tidy(db) /\ Chosen(db) /\ Ledger(db) /\ Staged(db)
      /\ Sound(e) /\ e \in Rows
  BY DEF DInv, Tidy, IInv, TypeOK, Sound
<1>2. /\ e.status = db.status /\ e.exploration = db.exploration /\ e.left = Down(db.left)
      /\ e.anchor = db.anchor /\ e.evidence = db.evidence /\ e.outbox = db.outbox
      /\ e.attempts = db.attempts
      /\ e.run = [r \in Runs |-> [db.run[r] EXCEPT !.lease = Down(db.run[r].lease),
                                                   !.left = Down(db.run[r].left)]]
  BY <1>1 DEF Tick, Rows
<1>3. \A r \in Runs : /\ e.run[r].status = db.run[r].status /\ e.run[r].gen = db.run[r].gen
                      /\ e.run[r].left = Down(db.run[r].left)
                      /\ db.run[r].left \in Nat /\ db.run[r].gen \in Nat
  <2>1. \A row \in RunRow :
           LET new == [row EXCEPT !.lease = Down(row.lease), !.left = Down(row.left)] IN
           /\ new.status = row.status /\ new.gen = row.gen /\ new.left = Down(row.left)
           /\ row.left \in Nat /\ row.gen \in Nat
    BY DEF RunRow
  <2>2. \A r \in Runs : db.run[r] \in RunRow
    BY <1>1 DEF Rows, RunRow
  <2>3. \A r \in Runs : e.run[r] = [db.run[r] EXCEPT !.lease = Down(db.run[r].lease),
                                                    !.left = Down(db.run[r].left)]
    BY <1>2
  <2>. HIDE DEF e
  <2>. QED
    BY <2>1, <2>2, <2>3
<1>4. db.left \in Nat
  BY <1>1 DEF Rows
<1>. HIDE DEF e
<1>5. \A m, n \in Nat : /\ Down(m) <= m /\ (m <= n => Down(m) <= Down(n))
                        /\ Down(m) > 0 => m > 0
  BY DEF Down
<1>6. Down(0) = 0
  BY DEF Down
<1>7. Ledger(e)
  <2>1. Numbered(e) /\ NoGhost(e)
    <3>1. \A r \in Runs :
             /\ Len(db.attempts[r]) = db.run[r].gen
             /\ \A i \in 1..Len(db.attempts[r]) :
                   /\ db.attempts[r][i].gen = i
                   /\ db.attempts[r][i].status = "running" =>
                         db.run[r].status = "running" /\ db.run[r].gen = i
      BY <1>1 DEF Ledger, Numbered, NoGhost
    <3>2. \A r \in Runs : e.attempts[r] = db.attempts[r]
      BY <1>2
    <3>. QED
      BY <1>3, <3>1, <3>2 DEF Numbered, NoGhost
  <2>2. Counted(e)
    BY <1>1, <1>3 DEF Ledger, Counted
  <2>3. EvidenceSound(e)
    BY <1>1, <1>2, <1>3, RunKinds DEF Ledger, EvidenceSound
  <2>4. CutoffSound(e)
    <3>. SUFFICES ASSUME NEW r \in Runs
                  PROVE  /\ r # Story => e.run[r].left <= e.left
                         /\ e.run[r].status = "closed_at_cutoff"
                              => r # Story /\ e.run[r].left = 0
      BY DEF CutoffSound
    <3>1. /\ r # Story => db.run[r].left <= db.left
          /\ db.run[r].status = "closed_at_cutoff" => r # Story /\ db.run[r].left = 0
      BY <1>1 DEF Ledger, CutoffSound
    <3>2. r # Story => Down(db.run[r].left) <= Down(db.left)
      BY <1>3, <1>4, <1>5, <3>1
    <3>3. e.run[r].left = Down(db.run[r].left) /\ e.run[r].status = db.run[r].status
      BY <1>3
    <3>4. e.run[r].status = "closed_at_cutoff" => e.run[r].left = 0
      BY <1>6, <3>1, <3>3
    <3>. QED
      BY <1>2, <3>1, <3>2, <3>3, <3>4
  <2>. QED
    BY <2>1, <2>2, <2>3, <2>4 DEF Ledger
<1>8. Hypotheses(e) = Hypotheses(db) /\ Scheduled(e) = Scheduled(db)
      /\ (Settled(e, Shards) <=> Settled(db, Shards))
  BY <1>2, <1>3, RunKinds DEF Hypotheses, Scheduled, Settled
<1>9. Staged(e)
  <2>1. WaveDue(e, TRUE) => WaveDue(db, TRUE)
    BY <1>2, <1>4, <1>5, <1>8 DEF WaveDue
  <2>2. StoryLast(e)
    BY <1>1, <1>2, <1>3, <2>1, RunKinds DEF Staged, StoryLast, Closed
  <2>3. Asked(e)
    BY <1>1, <1>2, <1>8 DEF Staged, Asked, Closed
  <2>4. StoryRan(e)
    BY <1>1, <1>2, <1>3, RunKinds DEF Staged, StoryRan, StoryFinished
  <2>. QED
    BY <2>2, <2>3, <2>4 DEF Staged
<1>10. Chosen(e)
  BY <1>1, <1>2, <1>8 DEF Chosen
<1>11. Calm(db, e, {})
  <2>1. \A r \in Runs : db.run[r].gen <= e.run[r].gen /\ e.run[r].left <= db.run[r].left
    BY <1>3, <1>5
  <2>. QED
    BY <1>2, <1>3, <2>1 DEF Calm, Closed
<1>12. Lawful(db, e)
  BY <1>2, <1>3, RunKinds DEF Lawful
<1>13. Good(db, e, {})
  BY <1>1, <1>7, <1>9, <1>10, <1>11, <1>12 DEF Good, Tidy
<1>. QED
  BY <1>13, OtherRowStep DEF Tick, e

-----------------------------------------------------------------------------
(* The invariant *)

LEMMA InitDelivery ==
    ASSUME Init, Redeliveries = 0
    PROVE  DInv
<1>1. IInv
  BY InitInv
<1>2. /\ db.status = "queued" /\ db.exploration = "idle" /\ db.left = JobTime
      /\ db.anchor = NoAnchor /\ db.evidence = {}
      /\ db.outbox = {Message(s, 1) : s \in Shards}
      /\ \A r \in Runs : db.attempts[r] = << >>
      /\ \A r \in Runs : db.run[r] = IF r \in Shards THEN NewRun("pending", JobTime)
                                                     ELSE NewRun("absent", 0)
  BY DEF Init, AcceptedJob
<1>3. \A r \in Runs : /\ db.run[r].status = IF r \in Shards THEN "pending" ELSE "absent"
                      /\ db.run[r].gen = 0
                      /\ db.run[r].left = IF r \in Shards THEN JobTime ELSE 0
  BY <1>2 DEF NewRun
<1>4. Ledger(db)
  <2>1. Numbered(db) /\ NoGhost(db) /\ Counted(db)
    BY <1>2, <1>3 DEF Numbered, NoGhost, Counted
  <2>2. EvidenceSound(db)
    BY <1>2, <1>3, RunKinds DEF EvidenceSound
  <2>3. CutoffSound(db)
    BY <1>2, <1>3, PipelineAssumption DEF CutoffSound
  <2>. QED
    BY <2>1, <2>2, <2>3 DEF Ledger
<1>5. Staged(db)
  BY <1>2, <1>3, RunKinds DEF Staged, StoryLast, Asked, StoryRan
<1>6. Tidy(db) /\ Chosen(db)
  BY <1>1, <1>2, <1>4, <1>5 DEF Tidy, Chosen, IInv
<1>7. /\ broker.queue = {} /\ broker.again = 0 /\ \A w \in Workers : worker[w] = Idle
      /\ maint.todo = {}
  BY DEF Init, NextPass
<1>8. \A w \in Workers : worker[w].pc \notin {"seen", "working"}
  BY <1>7 DEF Idle
<1>9. \A m \in db.outbox : m.run \in Shards /\ m = Message(m.run, 1)
  BY <1>2 DEF Message
<1>10. OneToken
  BY <1>7, <1>8, <1>9 DEF OneToken, Unsent, Seeing
<1>11. TokenWaits
  BY <1>3, <1>7, <1>8, <1>9 DEF TokenWaits, HasToken, Unsent, Seeing
<1>12. SeenIsCurrent /\ OwnersDiffer /\ LateSound
  BY <1>7, <1>8 DEF SeenIsCurrent, OwnersDiffer, LateSound
<1>. QED
  BY <1>1, <1>6, <1>7, <1>10, <1>11, <1>12 DEF DInv, Tokens

LEMMA DeliveryStep == DInv /\ [Next]_vars => DInv' /\ Lawful(db, db')
<1>. SUFFICES ASSUME DInv, [Next]_vars
              PROVE  DInv' /\ Lawful(db, db')
  OBVIOUS
<1>0. IInv' /\ broker.again = 0
  BY StepInv DEF DInv
<1>1. ASSUME NEW m \in db.outbox, Dispatch(m) \/ DispatchCrash(m)
      PROVE  DInv' /\ Lawful(db, db')
  <2>1. CASE Dispatch(m)
    BY <1>0, <2>1, DispatchDelivery
  <2>2. CASE DispatchCrash(m)
    BY <1>0, <2>2 DEF DispatchCrash, Duplicate
  <2>. QED
    BY <1>1, <2>1, <2>2
<1>2. ASSUME NEW w \in Workers, WorkerStep(w)
      PROVE  DInv' /\ Lawful(db, db')
  <2>1. CASE \E r \in Runs : Receive(w, r)
    BY <1>0, <2>1, ReceiveDelivery
  <2>2. CASE Lease(w)
    BY <1>0, <2>2, LeaseDelivery
  <2>3. CASE LeaseDeclined(w)
    BY <1>0, <2>3, LeaseDeclinedDelivery
  <2>4. CASE \E st \in {"cancelled", "provider_error"} : ShardSwitchedOff(w, st)
    BY <1>0, <2>4, ShardSwitchedOffDelivery
  <2>5. CASE CompleteFenced(w)
    BY <1>0, <2>5, CompleteFencedDelivery
  <2>6. CASE \E o \in Outcomes : CompleteShard(w, o)
    BY <1>0, <2>6, CompleteShardDelivery
  <2>7. CASE \E o \in Outcomes : CompleteWave(w, o)
    BY <1>0, <2>7, CompleteWaveDelivery
  <2>8. CASE \E o \in Outcomes : CompleteStory(w, o)
    BY <1>0, <2>8, CompleteStoryDelivery
  <2>9. CASE AdvanceAfterScan(w)
    BY <1>0, <2>9, AdvanceSteps
  <2>10. CASE Heartbeat(w)
    BY <1>0, <2>10, HeartbeatDelivery
  <2>11. CASE Crash(w) \/ CrashRequeued(w) \/ TaskLost(w)
    BY <1>0, <2>11, CrashDelivery
  <2>12. CASE Redeliver(w)
    BY <1>0, <2>12 DEF Redeliver, Duplicate
  <2>. QED
    BY <1>2, <2>1, <2>2, <2>3, <2>4, <2>5, <2>6, <2>7, <2>8, <2>9, <2>10, <2>11, <2>12
       DEF WorkerStep
<1>3. CASE MaintenanceStep
  BY <1>0, <1>3, PassDelivery, ReclaimDelivery, AdvanceSteps, ExpireDelivery
     DEF MaintenanceStep
<1>4. CASE OwnerStep
  BY <1>0, <1>4, SelectAnchorDelivery, AdvanceSteps, CancelDelivery, DeleteDelivery
     DEF OwnerStep
<1>5. CASE Tick
  BY <1>0, <1>5, TickDelivery
<1>6. CASE UNCHANGED vars
  <2>1. Good(db, db', {}) /\ UNCHANGED <<db, broker, worker, maint>>
    BY <1>6, StillCalm DEF vars, DInv, IInv, TypeOK, Good
  <2>. QED
    BY <1>0, <2>1, OtherRowStep
<1>. QED
  BY <1>1, <1>2, <1>3, <1>4, <1>5, <1>6 DEF Next

\* Whatever the interleaving, crashes, lost tasks and timing, when no message
\* is delivered twice.
LEMMA DeliveryInvariance ==
    ASSUME Redeliveries = 0
    PROVE  Spec => []DInv
<1>1. Init => DInv
  BY InitDelivery
<1>2. DInv /\ [Next]_vars => DInv'
  BY DeliveryStep
<1>. QED
  BY <1>1, <1>2, PTL DEF Spec

-----------------------------------------------------------------------------
(* The theorems *)

\* Two workers never hold one run with tokens that both pass the completion
\* fence (_lease_run and the fences of the completions), whatever maintenance
\* reclaims and whichever worker is late.
THEOREM OneOwner ==
    ASSUME Redeliveries = 0
    PROVE  Spec => []ExclusiveOwner
<1>1. DInv => ExclusiveOwner
  BY DEF DInv, Tokens, OwnersDiffer, ExclusiveOwner, Fenced
<1>. QED
  BY <1>1, DeliveryInvariance, PTL

\* An attempt row that says "running" belongs to the current lease of a run
\* that is running: no crash, reclaim, cutoff or cancellation leaves a ghost.
THEOREM AuditHasNoGhost ==
    ASSUME Redeliveries = 0
    PROVE  Spec => []NoGhostAttempt
<1>1. DInv => NoGhostAttempt
  BY DEF DInv, Tidy, Ledger, Numbered, NoGhost, NoGhostAttempt
<1>. QED
  BY <1>1, DeliveryInvariance, PTL

\* A run's evidence rows exist if and only if its stored outcome says so.
THEOREM EvidenceIsWhole ==
    ASSUME Redeliveries = 0
    PROVE  Spec => []EvidenceMatchesOutcomes
<1>1. DInv => EvidenceMatchesOutcomes
  BY DEF DInv, Tidy, Ledger, EvidenceSound, EvidenceMatchesOutcomes
<1>. QED
  BY <1>1, DeliveryInvariance, PTL

\* A deep job is never reported complete unless a synthesis attempt finished.
THEOREM ReadyMeansTold ==
    ASSUME Redeliveries = 0
    PROVE  Spec => []ReadyDeepJobRanItsStory
<1>1. DInv => ReadyDeepJobRanItsStory
  BY DEF DInv, Tidy, Staged, StoryRan, StoryFinished, ReadyDeepJobRanItsStory
<1>. QED
  BY <1>1, DeliveryInvariance, PTL

\* A choice the API accepted has started the professional wave in the same
\* transaction (select_footprint_anchor).
THEOREM ChoiceStartsWave ==
    ASSUME Redeliveries = 0
    PROVE  Spec => []ChosenAnchorStartsWave
<1>1. DInv => ChosenAnchorStartsWave
  BY DEF DInv, Chosen, ChosenAnchorStartsWave
<1>. QED
  BY <1>1, DeliveryInvariance, PTL

\* No step takes a settled run back, except that a run cut off may still be
\* marked cancelled once its job is closed.
THEOREM SettledStays ==
    ASSUME Redeliveries = 0
    PROVE  Spec => SettledIsFinal
<1>1. DInv /\ [Next]_vars =>
        [\A r \in Runs :
          db.run[r].status \in SettledStates =>
             \/ db'.run[r].status = db.run[r].status
             \/ db.run[r].status = "closed_at_cutoff" /\ db'.run[r].status = "cancelled"
                /\ Closed(db)
             \/ db'.status = "deleted"]_vars
  BY DeliveryStep DEF Lawful
<1>. QED
  BY <1>1, DeliveryInvariance, PTL DEF Spec, SettledIsFinal

\* Once the synthesis run exists no step adds evidence: the narrative is
\* written from everything the report will show.
THEOREM StoryIsComplete ==
    ASSUME Redeliveries = 0
    PROVE  Spec => StoryHasAllEvidence
<1>1. DInv /\ [Next]_vars =>
        [db.run[Story].status # "absent" =>
           db'.evidence = db.evidence \/ db'.status = "deleted"]_vars
  BY DeliveryStep DEF Lawful
<1>. QED
  BY <1>1, DeliveryInvariance, PTL DEF Spec, StoryHasAllEvidence

\* Without a second delivery no worker leases a settled run again: the
\* redelivery is the one cause of the replay that run replay shows.
THEOREM NoReplay ==
    ASSUME Redeliveries = 0
    PROVE  Spec => SettledRunIsNotReplayed
<1>1. DInv /\ [Next]_vars =>
        [\A r \in Runs :
          db.run[r].status \in SettledStates => db'.run[r].status # "running"]_vars
  <2>. SUFFICES ASSUME DInv, [Next]_vars,
                       NEW r \in Runs, db.run[r].status \in SettledStates
                PROVE  db'.run[r].status # "running"
    OBVIOUS
  <2>1. Lawful(db, db') /\ Sound(db')
    BY DeliveryStep DEF DInv, Tidy
  <2>2. CASE db'.status = "deleted"
    <3>1. Settled(db', Scheduled(db'))
      BY <2>1, <2>2 DEF Sound, QuietWhenClosed, Closed, ClosedStates
    <3>. QED
      BY <3>1, Words DEF Settled, Scheduled
  <2>3. CASE db'.status # "deleted"
    BY <2>1, <2>3, Words DEF Lawful
  <2>. QED
    BY <2>2, <2>3
<1>. QED
  BY <1>1, DeliveryInvariance, PTL DEF Spec, SettledRunIsNotReplayed

================================================================================
