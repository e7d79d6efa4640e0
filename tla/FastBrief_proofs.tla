--------------------------- MODULE FastBrief_proofs ---------------------------
(***************************************************************************)
(* What the Fast Brief flow keeps for any number of workers, redeliveries  *)
(* and leases: a published brief has no open run, a suppressed profile has *)
(* no readable report, nothing is stored without permission, and the job   *)
(* keeps the promise of FootprintPromise.                                  *)
(*                                                                         *)
(* The fence carries the proof: whatever blocks a job raises its epoch, so *)
(* a worker of a blocked job remembers a smaller one and its answer is     *)
(* stale, although its run may still be running.                           *)
(***************************************************************************)
EXTENDS FastBrief, TLAPS

\* The report is the stored evidence; it exists in the reported states only.
SoundReport(d) ==
    /\ \A rep \in d.reports : rep.evidence = d.evidence
    /\ d.status \in ReportedStates <=> d.reports # {}

Quiet(d) == d.status \in ReportedStates => \A r \in Runs : Settled(d, r)

Sound(d) == d \in Rows /\ SoundReport(d) /\ Quiet(d)

\* A worker of a blocked job is behind.
Fenced(t, d) ==
    t.pc = "working" =>
        /\ t.epoch <= d.epoch
        /\ d.status = "policy_blocked" => t.epoch < d.epoch

IInv ==
    /\ TypeOK
    /\ Sound(db)
    /\ SuppressedIsRevoked
    /\ \A w \in Workers : Fenced(worker[w], db)

RunRow == [status : RunStates, gen : Nat, lease : Nat]

Attempt == [run : Runs, gen : Nat \ {0}, status : {"running", "finished", "discarded"}]

Mail == [run : Runs, gen : Nat \ {0}, sent : BOOLEAN]

Report == [evidence : SUBSET Runs, access : {"active", "revoked"}]

\* A job that is blocked is ahead of all its workers.
Later(d, e) ==
    /\ e.epoch >= d.epoch
    /\ e.status = "policy_blocked" => d.status = "policy_blocked" \/ e.epoch > d.epoch

\* Without permission nothing is stored and nothing becomes readable.
Barred(d, e) ==
    ~Permitted =>
        /\ e.evidence \subseteq d.evidence
        /\ e.reports # {} => d.reports # {}
        /\ \A rep \in e.reports : rep.access = "revoked" \/ rep \in d.reports

\* What a step makes of the rows, in the terms of FootprintPromise.
Stays(d, e) == e.status = d.status /\ e.evidence = d.evidence

Grows(d, e) ==
    /\ ~Closed(d) /\ d.evidence \subseteq e.evidence
    /\ e.status \notin {"policy_blocked", "deleted"}

Stops(d, e) == ~Closed(d) /\ e.evidence = d.evidence /\ e.status = "policy_blocked"

Vanishes(d, e) == d.status # "deleted" /\ e.status = "deleted" /\ e.evidence = {}

Kept(d, e) ==
    /\ Sound(e) /\ Later(d, e) /\ Barred(d, e)
    /\ Stays(d, e) \/ Grows(d, e) \/ Stops(d, e) \/ Vanishes(d, e)

-----------------------------------------------------------------------------
(* Types *)

LEMMA StatesAre ==
    /\ "primary" \in Runs
    /\ RunStates = {"absent", "running", "pending", "retry_scheduled", "success", "no_result",
                    "provider_error", "cancelled", "closed_at_finalization"}
    /\ JobStates = {"queued", "running", "ready", "ready_partial", "insufficient_evidence",
                    "policy_blocked", "deleted"}
BY DEF Runs, RunStates, WaitingStates, SettledStates, OutcomeStates, JobStates, ClosedStates,
       ReportedStates

\* The rows field by field.
LEMMA RowsAre ==
    ASSUME NEW d \in Rows
    PROVE  /\ d.status \in JobStates /\ d.epoch \in Nat /\ d.left \in Nat
           /\ d.run \in [Runs -> RunRow] /\ d.attempts \in SUBSET Attempt
           /\ d.outbox \in SUBSET Mail /\ d.evidence \in SUBSET Runs
           /\ d.reports \in SUBSET Report
BY DEF Rows, RunRow, Attempt, Mail, Report

LEMMA RowsChanged ==
    ASSUME NEW d \in Rows, NEW st \in JobStates, NEW n \in Nat, NEW run \in [Runs -> RunRow]
    PROVE  LET e == [d EXCEPT !.status = st, !.epoch = n, !.run = run]
           IN  /\ e \in Rows
               /\ e.status = st /\ e.epoch = n /\ e.run = run
               /\ e.evidence = d.evidence /\ e.reports = d.reports
BY DEF Rows, RunRow

LEMMA AcceptedJobSound ==
    ASSUME NEW github \in BOOLEAN
    PROVE  Sound(AcceptedJob(github)) /\ AcceptedJob(github).epoch = 1
<1>1. [r \in Runs |-> NewRun(IF r = "primary" THEN "pending" ELSE "absent")] \in [Runs -> RunRow]
  BY StatesAre DEF RunRow, NewRun
<1>2. {Message("primary", 1)} \in SUBSET Mail
  BY StatesAre DEF Mail, Message
<1>3. AcceptedJob(github) \in Rows
  BY <1>1, <1>2, StatesAre, BriefAssumption DEF AcceptedJob, Rows, RunRow, Mail
<1>. QED
  BY <1>3 DEF AcceptedJob, Sound, SoundReport, Quiet, ReportedStates

LEMMA InitSound == Init => IInv
<1>. SUFFICES ASSUME Init PROVE IInv
  OBVIOUS
<1>1. TypeOK
  BY AcceptedJobSound, BriefAssumption DEF Init, TypeOK, Sound, WorkerStates
<1>2. \A w \in Workers : Fenced(worker[w], db)
  BY DEF Init, Fenced, Idle
<1>3. SuppressedIsRevoked
  BY DEF Init, SuppressedIsRevoked
<1>. QED
  BY <1>1, <1>2, <1>3, AcceptedJobSound DEF IInv, Init

-----------------------------------------------------------------------------
(* The functions on the rows *)

LEMMA MarkAttemptSame ==
    ASSUME NEW d \in Rows, NEW r \in Runs, NEW g \in Nat,
           NEW st \in {"running", "finished", "discarded"}
    PROVE  /\ MarkAttempt(d, r, g, st) = [d EXCEPT !.attempts = MarkAttempt(d, r, g, st).attempts]
           /\ MarkAttempt(d, r, g, st).attempts \in SUBSET Attempt
           /\ MarkAttempt(d, r, g, st) \in Rows
<1>. DEFINE A == {IF a.run = r /\ a.gen = g THEN [a EXCEPT !.status = st] ELSE a : a \in d.attempts}
<1>1. MarkAttempt(d, r, g, st) = [d EXCEPT !.attempts = A] /\ d.attempts \in SUBSET Attempt
  BY RowsAre DEF MarkAttempt
<1>2. A \in SUBSET Attempt
  <2>1. \A a \in d.attempts : [a EXCEPT !.status = st] \in Attempt /\ a \in Attempt
    BY <1>1 DEF Attempt
  <2>. QED
    BY <2>1
<1>. HIDE DEF A
<1>3. [d EXCEPT !.attempts = A] \in Rows /\ [d EXCEPT !.attempts = A].attempts = A
  BY <1>2 DEF Rows, Attempt
<1>. QED
  BY <1>1, <1>2, <1>3

\* Marking an attempt disturbs nothing.
LEMMA MarkAttemptSound ==
    ASSUME NEW d, Sound(d), NEW r \in Runs, NEW g \in Nat,
           NEW st \in {"running", "finished", "discarded"}
    PROVE  /\ Sound(MarkAttempt(d, r, g, st))
           /\ \A f \in {"status", "epoch", "run", "evidence", "reports"} :
                 MarkAttempt(d, r, g, st)[f] = d[f]
<1>. DEFINE e == MarkAttempt(d, r, g, st)
<1>1. d \in Rows
  BY DEF Sound
<1>2. e \in Rows /\ e = [d EXCEPT !.attempts = e.attempts]
  BY <1>1, MarkAttemptSame
<1>. HIDE DEF e
<1>3. /\ e.status = d.status /\ e.epoch = d.epoch /\ e.run = d.run
      /\ e.evidence = d.evidence /\ e.reports = d.reports
  BY <1>1, <1>2 DEF Rows
<1>4. Sound(e)
  BY <1>2, <1>3 DEF Sound, SoundReport, Quiet, Settled
<1>. QED
  BY <1>3, <1>4 DEF e

LEMMA OpenIsSound ==
    ASSUME NEW e \in Rows, e.status \notin ReportedStates, e.reports = {}
    PROVE  Sound(e)
BY DEF Sound, SoundReport, Quiet

LEMMA OpenHasNoReport ==
    ASSUME NEW d, Sound(d), ~Closed(d)
    PROVE  d \in Rows /\ d.reports = {} /\ d.status \notin ReportedStates
BY DEF Sound, SoundReport, Closed, ClosedStates

\* One run gets another row.
LEMMA RunReplaced ==
    ASSUME NEW d \in Rows, NEW r \in Runs, NEW row \in RunRow
    PROVE  LET e == [d EXCEPT !.run[r] = row]
           IN  /\ e \in Rows
               /\ e.status = d.status /\ e.epoch = d.epoch /\ e.evidence = d.evidence
               /\ e.reports = d.reports /\ e.outbox = d.outbox /\ e.attempts = d.attempts
               /\ e.run = [d.run EXCEPT ![r] = row]
BY DEF Rows, RunRow

LEMMA SetRunSame ==
    ASSUME NEW d \in Rows, NEW r \in Runs, NEW st \in RunStates
    PROVE  LET e == SetRun(d, r, st)
           IN  /\ e \in Rows
               /\ e.status = d.status /\ e.epoch = d.epoch /\ e.evidence = d.evidence
               /\ e.reports = d.reports /\ e.outbox = d.outbox /\ e.attempts = d.attempts
               /\ \A q \in Runs : e.run[q].status = IF q = r THEN st ELSE d.run[q].status
<1>. DEFINE row == [d.run[r] EXCEPT !.status = st, !.lease = 0]
<1>1. d.run \in [Runs -> RunRow] /\ row \in RunRow /\ row.status = st
  BY RowsAre DEF RunRow
<1>2. SetRun(d, r, st) = [d EXCEPT !.run[r] = row]
  BY <1>1 DEF SetRun, Rows, RunRow
<1>. HIDE DEF row
<1>. QED
  BY <1>1, <1>2, RunReplaced

\* _block_job_for_policy on an open job.
LEMMA BlockKept ==
    ASSUME NEW d, Sound(d), ~Closed(d), NEW r \in Runs
    PROVE  Kept(d, Block(d, r)) /\ Block(d, r).epoch > d.epoch
<1>. DEFINE e == Block(d, r)
<1>1. d \in Rows /\ d.reports = {} /\ d.status \notin ReportedStates
  BY OpenHasNoReport
<1>2. /\ e.status = "policy_blocked" /\ e.epoch = d.epoch + 1
      /\ e.evidence = d.evidence /\ e.reports = d.reports
  BY <1>1 DEF Block, Rows
<1>3. e \in Rows
  <2>1. d.run \in [Runs -> RunRow] /\ d.epoch \in Nat
    BY <1>1, RowsAre
  <2>2. \A q \in Runs : [d.run[q] EXCEPT !.status = "cancelled", !.lease = 0] \in RunRow
    BY <2>1, StatesAre DEF RunRow
  <2>3. e.run \in [Runs -> RunRow]
    BY <1>1, <2>1, <2>2 DEF Block, Rows
  <2>4. e = [d EXCEPT !.status = "policy_blocked", !.epoch = d.epoch + 1, !.run = e.run]
    BY <1>1 DEF Block, Rows
  <2>5. "policy_blocked" \in JobStates /\ d.epoch + 1 \in Nat
    BY <2>1, StatesAre
  <2>. HIDE DEF e
  <2>6. PICK run \in [Runs -> RunRow] :
                e = [d EXCEPT !.status = "policy_blocked", !.epoch = d.epoch + 1, !.run = run]
    BY <2>3, <2>4
  <2>7. [d EXCEPT !.status = "policy_blocked", !.epoch = d.epoch + 1, !.run = run] \in Rows
    BY <1>1, <2>5, RowsChanged
  <2>. QED
    BY <2>6, <2>7
<1>4. Sound(e)
  BY <1>1, <1>2, <1>3, OpenIsSound DEF ReportedStates
<1>5. e.epoch > d.epoch
  BY <1>1, <1>2 DEF Rows
<1>. QED
  BY <1>1, <1>2, <1>4, <1>5 DEF Kept, Later, Barred, Stops, Rows

\* _plan_linked_run
LEMMA PlanLinkedSame ==
    ASSUME NEW d \in Rows, NEW r \in Runs
    PROVE  LET e == PlanLinked(d, r)
           IN  /\ e \in Rows
               /\ e.status = d.status /\ e.epoch = d.epoch /\ e.evidence = d.evidence
               /\ e.reports = d.reports /\ e.attempts = d.attempts
<1>1. CASE r = "primary" /\ ~d.github /\ d.run["linked"].status = "absent"
  <2>1. "linked" \in Runs /\ NewRun("pending") \in RunRow
    BY <1>1, StatesAre DEF Runs, NewRun, RunRow
  <2>2. Message("linked", 1) \in Mail
    BY <2>1 DEF Message, Mail
  <2>3. d.run \in [Runs -> RunRow] /\ d.outbox \in SUBSET Mail
    BY RowsAre
  <2>. DEFINE f == [d.run EXCEPT !["linked"] = NewRun("pending")]
              o == d.outbox \cup {Message("linked", 1)}
  <2>4. f \in [Runs -> RunRow] /\ o \in SUBSET Mail
    BY <2>1, <2>2, <2>3
  <2>5. PlanLinked(d, r) = [d EXCEPT !.run = f, !.outbox = o]
    BY <1>1 DEF PlanLinked, Rows
  <2>. HIDE DEF f, o
  <2>. QED
    BY <2>4, <2>5 DEF Rows, RunRow, Mail
<1>2. CASE ~(r = "primary" /\ ~d.github /\ d.run["linked"].status = "absent")
  BY <1>2 DEF PlanLinked
<1>. QED
  BY <1>1, <1>2

\* A result is stored with the permission to do so.
LEMMA StoreResultKept ==
    ASSUME NEW d, Sound(d), ~Closed(d), NEW r \in Runs, NEW o \in OutcomeStates, Permitted
    PROVE  Kept(d, StoreResult(d, r, o)) /\ StoreResult(d, r, o).epoch = d.epoch
<1>. DEFINE e == StoreResult(d, r, o)
            s == SetRun(d, r, o)
            c == [s EXCEPT !.evidence = @ \cup {r}]
<1>1. d \in Rows /\ d.reports = {} /\ d.status \notin ReportedStates
  BY OpenHasNoReport
<1>2. /\ s \in Rows
      /\ s.status = d.status /\ s.epoch = d.epoch /\ s.evidence = d.evidence
      /\ s.reports = d.reports
  <2>1. o \in RunStates
    BY DEF RunStates, SettledStates
  <2>. QED
    BY <1>1, <2>1, SetRunSame
<1>. HIDE DEF s
<1>3. /\ c \in Rows
      /\ c.status = s.status /\ c.epoch = s.epoch /\ c.evidence = s.evidence \cup {r}
      /\ c.reports = s.reports
  BY <1>2 DEF Rows
<1>. HIDE DEF c
<1>4. e = IF o = "success" THEN PlanLinked(c, r) ELSE s
  BY DEF StoreResult, s, c
<1>5. /\ e \in Rows
      /\ e.status = d.status /\ e.epoch = d.epoch /\ d.evidence \subseteq e.evidence
      /\ e.reports = d.reports
  BY <1>2, <1>3, <1>4, PlanLinkedSame
<1>. HIDE DEF e
<1>6. Sound(e)
  BY <1>1, <1>5, OpenIsSound
<1>7. Kept(d, e)
  BY <1>1, <1>5, <1>6 DEF Kept, Later, Barred, Grows, Closed, ClosedStates, Rows
<1>. QED
  BY <1>5, <1>7 DEF e

\* finalize_if_complete: publication closes every open run first.
LEMMA CloseOpenSame ==
    ASSUME NEW d \in Rows
    PROVE  LET e == CloseOpen(d)
           IN  /\ e \in Rows
               /\ e.status = d.status /\ e.epoch = d.epoch /\ e.evidence = d.evidence
               /\ e.reports = d.reports
               /\ \A r \in Runs : Settled(e, r)
<1>. DEFINE e == CloseOpen(d)
            row(r) == [d.run[r] EXCEPT !.status = "closed_at_finalization", !.lease = 0]
            run == [r \in Runs |-> IF Settled(d, r) THEN d.run[r] ELSE row(r)]
<1>1. d.run \in [Runs -> RunRow] /\ d.status \in JobStates /\ d.epoch \in Nat
  BY RowsAre
<1>2. \A r \in Runs : row(r) \in RunRow /\ row(r).status = "closed_at_finalization"
  BY <1>1, StatesAre DEF RunRow
<1>3. e = [d EXCEPT !.run = run]
  BY DEF CloseOpen
<1>. HIDE DEF row
<1>4. run \in [Runs -> RunRow]
  BY <1>1, <1>2
<1>5. \A r \in Runs : run[r] = IF Settled(d, r) THEN d.run[r] ELSE row(r)
  OBVIOUS
<1>. HIDE DEF run, e
<1>6. /\ e \in Rows /\ e.run = run
      /\ e.status = d.status /\ e.epoch = d.epoch /\ e.evidence = d.evidence
      /\ e.reports = d.reports
  BY <1>3, <1>4 DEF Rows, RunRow
<1>7. \A r \in Runs : Settled(e, r)
  BY <1>2, <1>5, <1>6 DEF Settled, SettledStates
<1>. QED
  BY <1>6, <1>7 DEF e

LEMMA PublishKept ==
    ASSUME NEW d \in Rows, NEW c \in Rows, Permitted, ~Closed(d), d.reports = {},
           c.epoch = d.epoch, c.evidence = d.evidence, \A r \in Runs : Settled(c, r)
    PROVE  Kept(d, Publish(c))
<1>. DEFINE e == Publish(c)
            st == CompletenessOutcome(Predicates(c))
            rep == {[evidence |-> c.evidence, access |-> "active"]}
<1>1. st \in ReportedStates
  BY DEF CompletenessOutcome, ReportedStates
<1>. HIDE DEF st
<1>2. c.evidence \in SUBSET Runs /\ c.epoch + 1 \in Nat /\ c.run \in [Runs -> RunRow]
  BY RowsAre
<1>3. rep \in SUBSET Report /\ rep # {} /\ \A x \in rep : x.evidence = c.evidence
  BY <1>2 DEF Report
<1>4. e = [c EXCEPT !.status = st, !.epoch = c.epoch + 1, !.reports = rep]
  BY DEF Publish, st, Rows
<1>. HIDE DEF rep, e
<1>5. /\ e \in Rows
      /\ e.status = st /\ e.epoch = c.epoch + 1 /\ e.evidence = c.evidence
      /\ e.reports = rep /\ e.run = c.run
  <2>1. st \in JobStates
    BY <1>1 DEF JobStates, ClosedStates
  <2>. QED
    BY <1>2, <1>3, <1>4, <2>1 DEF Rows, Report
<1>6. Sound(e)
  BY <1>1, <1>3, <1>5 DEF Sound, SoundReport, Quiet, Settled
<1>. QED
  BY <1>1, <1>5, <1>6 DEF e, Kept, Later, Barred, Grows, ReportedStates, Rows

LEMMA FinalizeKept ==
    ASSUME NEW d, Sound(d), NEW force \in BOOLEAN
    PROVE  Kept(d, Finalize(d, force))
<1>. DEFINE e == Finalize(d, force)
<1>0. d \in Rows
  BY DEF Sound
<1>1. CASE Closed(d)
  BY <1>0, <1>1 DEF Finalize, Kept, Later, Barred, Stays, Rows
<1>2. CASE ~Closed(d) /\ ~Permitted
  <2>1. d.reports = {} /\ d.epoch \in Nat /\ d.run \in [Runs -> RunRow]
    BY <1>0, <1>2, OpenHasNoReport, RowsAre
  <2>2. e = [d EXCEPT !.status = "policy_blocked", !.epoch = d.epoch + 1]
    BY <1>0, <1>2 DEF Finalize, Rows
  <2>. HIDE DEF e
  <2>5. "policy_blocked" \in JobStates /\ d.epoch + 1 \in Nat
    BY <2>1, StatesAre
  <2>3. /\ e \in Rows /\ e.status = "policy_blocked" /\ e.epoch = d.epoch + 1
        /\ e.evidence = d.evidence /\ e.reports = d.reports
    <3>1. \A st \in JobStates, n \in Nat :
             LET f == [d EXCEPT !.status = st, !.epoch = n]
             IN  /\ f \in Rows /\ f.status = st /\ f.epoch = n
                 /\ f.evidence = d.evidence /\ f.reports = d.reports
      BY <1>0 DEF Rows
    <3>. QED
      BY <2>2, <2>5, <3>1
  <2>4. Sound(e)
    BY <2>1, <2>3, OpenIsSound DEF ReportedStates
  <2>. QED
    BY <1>2, <2>1, <2>3, <2>4 DEF e, Kept, Later, Barred, Stops
<1>3. CASE ~Closed(d) /\ Permitted
  <2>1. d.reports = {}
    BY <1>3, OpenHasNoReport
  <2>2. CASE force \/ d.left = 0
    <3>1. e = Publish(CloseOpen(d))
      BY <1>3, <2>2 DEF Finalize
    <3>. QED
      BY <1>0, <1>3, <2>1, <3>1, CloseOpenSame, PublishKept
  <2>3. CASE ~(force \/ d.left = 0) /\ \A r \in Runs : Settled(d, r)
    <3>1. e = Publish(d)
      BY <1>3, <2>3 DEF Finalize
    <3>. QED
      BY <1>0, <1>3, <2>1, <2>3, <3>1, PublishKept
  <2>4. CASE ~(force \/ d.left = 0) /\ ~ \A r \in Runs : Settled(d, r)
    <3>1. e = d
      BY <1>3, <2>4 DEF Finalize
    <3>. QED
      BY <1>0, <3>1 DEF Kept, Later, Barred, Stays, Rows
  <2>. QED
    BY <2>2, <2>3, <2>4
<1>. QED
  BY <1>1, <1>2, <1>3

\* suppress_profile on a job.
LEMMA SuppressJobKept ==
    ASSUME NEW d, Sound(d)
    PROVE  /\ Kept(d, SuppressJob(d))
           /\ \A rep \in SuppressJob(d).reports : rep.access = "revoked"
<1>1. d \in Rows /\ d.status \in JobStates /\ d.reports \in SUBSET Report
  BY RowsAre DEF Sound
<1>2. CASE d.status = "deleted"
  <2>1. SuppressJob(d) = d /\ d.reports = {}
    BY <1>2 DEF SuppressJob, Sound, SoundReport, ReportedStates
  <2>. QED
    BY <1>1, <2>1 DEF Kept, Later, Barred, Stays, Rows
<1>3. CASE d.status # "deleted"
  <2>. DEFINE e == SuppressJob(d)
              st == IF d.status \in ReportedStates THEN d.status ELSE "policy_blocked"
              reps == {[rep EXCEPT !.access = "revoked"] : rep \in d.reports}
  <2>1. e = [d EXCEPT !.epoch = d.epoch + 1, !.status = st, !.reports = reps]
    BY <1>1, <1>3 DEF SuppressJob, Rows
  <2>2. \A rep \in d.reports : LET new == [rep EXCEPT !.access = "revoked"]
                               IN  /\ new \in Report /\ new.access = "revoked"
                                   /\ new.evidence = rep.evidence
    BY <1>1 DEF Report
  <2>3. /\ reps \in SUBSET Report
        /\ \A rep \in reps : rep.access = "revoked"
        /\ \A rep \in reps : \E old \in d.reports : rep.evidence = old.evidence
        /\ reps # {} <=> d.reports # {}
    BY <2>2
  <2>4. st \in JobStates /\ d.epoch \in Nat
    BY <1>1, StatesAre, RowsAre
  <2>. HIDE DEF e, reps, st
  <2>5. /\ e \in Rows
        /\ e.status = st /\ e.epoch = d.epoch + 1 /\ e.evidence = d.evidence
        /\ e.reports = reps /\ e.run = d.run
    <3>1. PICK n \in Nat : n = d.epoch + 1
      BY <2>4
    <3>2. e = [d EXCEPT !.epoch = n, !.status = st, !.reports = reps]
      BY <2>1, <3>1
    <3>3. reps \in SUBSET Report
      BY <2>3
    <3>. DEFINE f == [d EXCEPT !.epoch = n, !.status = st, !.reports = reps]
    <3>4. /\ f \in Rows /\ f.status = st /\ f.epoch = n /\ f.reports = reps
          /\ f.evidence = d.evidence /\ f.run = d.run
      BY ONLY <1>1, <2>4, <3>3, n \in Nat DEF Rows, Report
    <3>. HIDE DEF f
    <3>. QED
      BY <3>1, <3>2, <3>4 DEF f
  <2>6. Sound(e)
    BY <2>3, <2>5 DEF st, Sound, SoundReport, Quiet, Settled, ReportedStates
  <2>7. Later(d, e) /\ Barred(d, e)
    BY <2>3, <2>4, <2>5 DEF Later, Barred
  <2>8. Stays(d, e) \/ Stops(d, e)
    BY <1>1, <1>3, <2>5, StatesAre DEF st, Stays, Stops, Closed, ClosedStates, ReportedStates
  <2>. QED
    BY <2>3, <2>5, <2>6, <2>7, <2>8 DEF e, Kept
<1>. QED
  BY <1>2, <1>3

-----------------------------------------------------------------------------
(* The actions *)

LEMMA SameKept ==
    ASSUME NEW d, Sound(d)
    PROVE  Kept(d, d)
BY DEF Kept, Later, Barred, Stays, Sound, Rows

\* Rows that agree with d where it matters.
LEMMA LikeKept ==
    ASSUME NEW d, Sound(d), NEW e \in Rows,
           e.status = d.status, e.epoch = d.epoch, e.evidence = d.evidence,
           e.reports = d.reports, Quiet(e)
    PROVE  Kept(d, e)
BY DEF Kept, Later, Barred, Stays, Sound, SoundReport, Rows

\* A step that leaves the policy alone and lets no worker begin carries the
\* invariant over.
LEMMA Carried ==
    ASSUME IInv, Kept(db, db'), policy' = policy,
           broker' \in [queue : SUBSET Runs, again : Nat],
           worker' \in [Workers -> WorkerStates],
           \A w \in Workers : worker'[w] = worker[w] \/ worker'[w].pc # "working"
    PROVE  IInv'
<1>1. TypeOK'
  BY DEF IInv, TypeOK, Kept, Sound
<1>2. Sound(db)'
  BY DEF Kept
<1>3. SuppressedIsRevoked'
  <2>. SUFFICES ASSUME policy.suppressed, NEW rep \in db'.reports PROVE rep.access = "revoked"
    BY DEF SuppressedIsRevoked
  <2>1. rep.access = "revoked" \/ rep \in db.reports
    BY DEF Kept, Barred, Permitted
  <2>. QED
    BY <2>1 DEF IInv, SuppressedIsRevoked
<1>4. ASSUME NEW w \in Workers PROVE Fenced(worker[w], db)'
  <2>1. CASE worker'[w].pc # "working"
    BY <2>1 DEF Fenced
  <2>2. CASE worker'[w] = worker[w] /\ worker[w].pc = "working"
    <3>1. worker[w].epoch \in Nat /\ db.epoch \in Nat /\ db'.epoch \in Nat
      BY <2>2 DEF IInv, TypeOK, WorkerStates, Idle, Kept, Sound, Rows
    <3>2. Fenced(worker[w], db) /\ Later(db, db')
      BY DEF IInv, Kept
    <3>. QED
      BY <2>2, <3>1, <3>2 DEF Fenced, Later
  <2>. QED
    BY <2>1, <2>2
<1>. QED
  BY <1>1, <1>2, <1>3, <1>4 DEF IInv

\* Steps of the dispatcher, the broker and the maintenance pass.
LEMMA DispatchKept ==
    ASSUME IInv, NEW m \in db.outbox, Dispatch(m)
    PROVE  IInv' /\ Kept(db, db')
<1>1. db \in Rows /\ db.outbox \in SUBSET Mail /\ m \in Mail
  BY RowsAre DEF IInv, Sound
<1>. DEFINE out == (db.outbox \ {m}) \cup {[m EXCEPT !.sent = TRUE]}
<1>2. out \in SUBSET Mail
  <2>1. [m EXCEPT !.sent = TRUE] \in Mail
    BY <1>1 DEF Mail
  <2>. QED
    BY <1>1, <2>1
<1>3. db' = [db EXCEPT !.outbox = out]
  BY <1>1 DEF Dispatch, Rows
<1>. HIDE DEF out
<1>4. /\ db' \in Rows
      /\ db'.status = db.status /\ db'.epoch = db.epoch /\ db'.evidence = db.evidence
      /\ db'.reports = db.reports /\ db'.run = db.run
  BY <1>1, <1>2, <1>3 DEF Rows, Mail
<1>5. Kept(db, db')
  BY <1>4, LikeKept DEF IInv, Sound, Quiet, Settled
<1>6. broker' \in [queue : SUBSET Runs, again : Nat]
  BY <1>1 DEF Dispatch, IInv, TypeOK, Mail
<1>. QED
  BY <1>5, <1>6, Carried DEF Dispatch, IInv, TypeOK

LEMMA BrokerKept ==
    ASSUME IInv, NEW r \in Runs, Redeliver(r) \/ TaskLost(r)
    PROVE  IInv' /\ Kept(db, db')
<1>1. Kept(db, db')
  BY SameKept DEF IInv, Redeliver, TaskLost
<1>2. broker' \in [queue : SUBSET Runs, again : Nat]
  BY DEF Redeliver, TaskLost, IInv, TypeOK
<1>. QED
  BY <1>1, <1>2, Carried DEF Redeliver, TaskLost, IInv, TypeOK

LEMMA ReclaimKept ==
    ASSUME IInv, NEW r \in Runs, Reclaim(r)
    PROVE  IInv' /\ Kept(db, db')
<1>. DEFINE s == SetRun(db, r, "retry_scheduled")
            g == db.run[r].gen
            a == MarkAttempt(s, r, g, "discarded")
            out == a.outbox \cup {Message(r, g + 1)}
<1>1. db \in Rows /\ Sound(db) /\ g \in Nat /\ ~Settled(db, r)
  BY StatesAre, RowsAre DEF IInv, Sound, Reclaim, RunRow, Settled, SettledStates, OutcomeStates
<1>2. db.status \notin ReportedStates /\ db.reports = {}
  BY <1>1 DEF Sound, SoundReport, Quiet
<1>3. /\ s \in Rows
      /\ s.status = db.status /\ s.epoch = db.epoch /\ s.evidence = db.evidence
      /\ s.reports = db.reports
  BY <1>1, StatesAre, SetRunSame
<1>. HIDE DEF s, g
<1>4. Sound(s)
  BY <1>2, <1>3, OpenIsSound
<1>5. /\ a \in Rows
      /\ a.status = db.status /\ a.epoch = db.epoch /\ a.evidence = db.evidence
      /\ a.reports = db.reports
  BY <1>1, <1>3, <1>4, MarkAttemptSound DEF Sound
<1>. HIDE DEF a
<1>6. out \in SUBSET Mail
  <2>1. Message(r, g + 1) \in Mail
    BY <1>1 DEF Message, Mail
  <2>2. a.outbox \in SUBSET Mail
    BY <1>5, RowsAre
  <2>. QED
    BY <2>1, <2>2
<1>7. db' = [a EXCEPT !.outbox = out]
  BY <1>5 DEF Reclaim, Rows, a, s, g
<1>. HIDE DEF out
<1>8. /\ db' \in Rows
      /\ db'.status = db.status /\ db'.epoch = db.epoch /\ db'.evidence = db.evidence
      /\ db'.reports = db.reports
  BY <1>5, <1>6, <1>7 DEF Rows, Mail
<1>9. Kept(db, db')
  BY <1>1, <1>2, <1>8, LikeKept DEF Quiet
<1>. QED
  BY <1>9, Carried DEF Reclaim, IInv, TypeOK

LEMMA ExpireKept ==
    ASSUME IInv, Expire
    PROVE  IInv' /\ Kept(db, db')
<1>1. Kept(db, db')
  BY FinalizeKept DEF IInv, Expire
<1>. QED
  BY <1>1, Carried DEF Expire, IInv, TypeOK

LEMMA TickKept ==
    ASSUME IInv, Tick
    PROVE  IInv' /\ Kept(db, db')
<1>. DEFINE row(r) == [db.run[r] EXCEPT !.lease = Down(@)]
            run == [r \in Runs |-> row(r)]
<1>1. db \in Rows /\ db.run \in [Runs -> RunRow] /\ db.left \in Nat
  BY RowsAre DEF IInv, Sound
<1>2. \A n \in Nat : Down(n) \in Nat
  BY DEF Down
<1>3. \A r \in Runs : row(r) \in RunRow /\ row(r).status = db.run[r].status
  BY <1>1, <1>2 DEF RunRow
<1>4. db' = [db EXCEPT !.left = Down(db.left), !.run = run]
  BY <1>1 DEF Tick, Rows
<1>. HIDE DEF row
<1>5. run \in [Runs -> RunRow] /\ \A r \in Runs : run[r].status = db.run[r].status
  BY <1>3
<1>. HIDE DEF run
<1>6. /\ db' \in Rows
      /\ db'.status = db.status /\ db'.epoch = db.epoch /\ db'.evidence = db.evidence
      /\ db'.reports = db.reports /\ db'.run = run
  <2>1. Down(db.left) \in Nat
    BY <1>1, <1>2
  <2>. QED
    BY <1>1, <1>4, <1>5, <2>1 DEF Rows, RunRow
<1>7. Quiet(db')
  BY <1>5, <1>6 DEF IInv, Sound, Quiet, Settled
<1>8. Kept(db, db')
  BY <1>6, <1>7, LikeKept DEF IInv
<1>. QED
  BY <1>8, Carried DEF Tick, IInv, TypeOK

\* Steps of the workers.
LEMMA Working ==
    ASSUME IInv, NEW w \in Workers, worker[w].pc = "working"
    PROVE  /\ worker[w].run \in Runs /\ worker[w].gen \in Nat /\ worker[w].epoch \in Nat
           /\ ~Stale(db, worker[w]) => ~Closed(db)
<1>1. worker[w] \in [pc : {"working"}, run : Runs, gen : Nat, epoch : Nat]
  BY DEF IInv, TypeOK, WorkerStates, Idle
<1>2. db \in Rows /\ db.epoch \in Nat
  BY DEF IInv, Sound, Rows
<1>. SUFFICES ASSUME ~Stale(db, worker[w]), Closed(db) PROVE FALSE
  BY <1>1
<1>3. /\ db.status # "deleted" /\ db.run[worker[w].run].status = "running"
      /\ db.epoch = worker[w].epoch
  BY DEF Stale
<1>4. CASE db.status \in ReportedStates
  BY <1>1, <1>3, <1>4 DEF IInv, Sound, Quiet, Settled, SettledStates, OutcomeStates
<1>5. CASE db.status = "policy_blocked"
  BY <1>1, <1>2, <1>3, <1>5 DEF IInv, Fenced
<1>. QED
  BY <1>3, <1>4, <1>5 DEF Closed, ClosedStates

LEMMA LeaseKept ==
    ASSUME IInv, NEW w \in Workers, NEW r \in Runs, Lease(w, r)
    PROVE  IInv' /\ Kept(db, db')
<1>1. db \in Rows /\ Sound(db) /\ db.run \in [Runs -> RunRow] /\ policy' = policy
  BY RowsAre DEF IInv, Sound, Lease
<1>2. broker' \in [queue : SUBSET Runs, again : Nat]
  BY DEF Lease, IInv, TypeOK
<1>3. CASE UNCHANGED <<db, worker>>
  BY <1>1, <1>2, <1>3, SameKept, Carried DEF IInv, TypeOK
<1>4. CASE /\ Closed(db) /\ db.run[r].status \in WaitingStates
           /\ db' = [db EXCEPT !.run[r].status = "closed_at_finalization"]
           /\ UNCHANGED worker
  <2>. DEFINE row == [db.run[r] EXCEPT !.status = "closed_at_finalization"]
  <2>1. row \in RunRow
    BY <1>1, StatesAre DEF RunRow
  <2>2. db' = [db EXCEPT !.run[r] = row]
    BY <1>1, <1>4 DEF Rows, RunRow
  <2>. HIDE DEF row
  <2>3. /\ db' \in Rows
        /\ db'.status = db.status /\ db'.epoch = db.epoch /\ db'.evidence = db.evidence
        /\ db'.reports = db.reports
    BY <1>1, <2>1, <2>2, RunReplaced
  <2>4. db.status \notin ReportedStates
    BY <1>1, <1>4 DEF Sound, Quiet, Settled, SettledStates, OutcomeStates, WaitingStates
  <2>5. Kept(db, db')
    BY <1>1, <2>3, <2>4, LikeKept DEF Quiet
  <2>. QED
    BY <1>1, <1>2, <1>4, <2>5, Carried DEF IInv, TypeOK
<1>5. CASE ~Closed(db) /\ db' = Block(db, r) /\ UNCHANGED worker
  <2>1. Kept(db, db')
    BY <1>1, <1>5, BlockKept
  <2>. QED
    BY <1>1, <1>2, <1>5, <2>1, Carried DEF IInv, TypeOK
<1>6. CASE /\ ~Closed(db) /\ db' = TakeLease(db, r)
           /\ Goto(w, [pc |-> "working", run |-> r, gen |-> db.run[r].gen + 1,
                       epoch |-> db.epoch])
  <2>. DEFINE g == db.run[r].gen + 1
              row == [status |-> "running", gen |-> g, lease |-> LeaseTime]
              att == db.attempts \cup {[run |-> r, gen |-> g, status |-> "running"]}
              run == [db.run EXCEPT ![r] = row]
  <2>1. g \in Nat \ {0} /\ db.attempts \in SUBSET Attempt /\ db.epoch \in Nat
    BY <1>1, RowsAre DEF RunRow
  <2>2. db' = [db EXCEPT !.status = "running", !.run = run, !.attempts = att]
    BY <1>1, <1>6 DEF TakeLease, Rows, RunRow
  <2>. HIDE DEF g
  <2>3. row \in RunRow
    BY <2>1, StatesAre, BriefAssumption DEF RunRow
  <2>. HIDE DEF row
  <2>4. run \in [Runs -> RunRow] /\ att \in SUBSET Attempt
    BY <1>1, <2>1, <2>3 DEF Attempt
  <2>. HIDE DEF run, att
  <2>5. /\ db' \in Rows
        /\ db'.status = "running" /\ db'.epoch = db.epoch /\ db'.evidence = db.evidence
        /\ db'.reports = db.reports
    BY <1>1, <2>2, <2>4, StatesAre DEF Rows, RunRow, Attempt
  <2>6. db.reports = {} /\ Sound(db')
    BY <1>1, <1>6, <2>5, OpenHasNoReport, OpenIsSound DEF ReportedStates
  <2>7. Kept(db, db')
    BY <1>6, <2>1, <2>5, <2>6 DEF Kept, Later, Barred, Grows
  <2>8. worker' = [worker EXCEPT ![w] = [pc |-> "working", run |-> r, gen |-> g, epoch |-> db.epoch]]
    BY <1>6 DEF Goto, g
  <2>9. worker' \in [Workers -> WorkerStates]
    BY <2>1, <2>8 DEF IInv, TypeOK, WorkerStates
  <2>10. TypeOK'
    BY <1>1, <1>2, <2>5, <2>9 DEF IInv, TypeOK
  <2>11. SuppressedIsRevoked'
    BY <1>1, <2>5, <2>6 DEF SuppressedIsRevoked
  <2>12. \A v \in Workers : Fenced(worker[v], db)'
    <3>1. Fenced(worker[w], db)'
      BY <2>1, <2>5, <2>8 DEF Fenced, IInv, TypeOK
    <3>2. ASSUME NEW v \in Workers, v # w PROVE Fenced(worker[v], db)'
      BY <2>5, <2>8, <3>2 DEF Fenced, IInv, TypeOK
    <3>. QED
      BY <3>1, <3>2
  <2>. QED
    BY <2>6, <2>7, <2>10, <2>11, <2>12 DEF IInv
<1>. QED
  BY <1>3, <1>4, <1>5, <1>6 DEF Lease

LEMMA CompleteStaleKept ==
    ASSUME IInv, NEW w \in Workers, CompleteStale(w)
    PROVE  IInv' /\ Kept(db, db')
<1>. DEFINE e == MarkAttempt(db, worker[w].run, worker[w].gen, "discarded")
<1>1. db' = e /\ worker[w].run \in Runs /\ worker[w].gen \in Nat
  BY Working DEF CompleteStale
<1>2. /\ Sound(e)
      /\ e.status = db.status /\ e.epoch = db.epoch /\ e.evidence = db.evidence
      /\ e.reports = db.reports
  BY <1>1, MarkAttemptSound DEF IInv
<1>. HIDE DEF e
<1>3. Kept(db, db')
  BY <1>1, <1>2, LikeKept DEF IInv, Sound
<1>4. worker' \in [Workers -> WorkerStates] /\ worker'[w].pc # "working"
      /\ \A v \in Workers \ {w} : worker'[v] = worker[v]
  BY DEF CompleteStale, Goto, IInv, TypeOK, WorkerStates, Idle
<1>. QED
  BY <1>3, <1>4, Carried DEF CompleteStale, IInv, TypeOK

\* An attempt is marked after the rows were changed.
LEMMA MarkedKept ==
    ASSUME NEW d, NEW c, Kept(d, c), NEW r \in Runs, NEW g \in Nat,
           NEW st \in {"running", "finished", "discarded"}
    PROVE  Kept(d, MarkAttempt(c, r, g, st))
<1>. DEFINE e == MarkAttempt(c, r, g, st)
<1>1. Sound(c)
  BY DEF Kept
<1>2. /\ Sound(e)
      /\ e.status = c.status /\ e.epoch = c.epoch /\ e.evidence = c.evidence
      /\ e.reports = c.reports
  BY <1>1, MarkAttemptSound
<1>. HIDE DEF e
<1>3. Kept(d, e)
  BY <1>2 DEF Kept, Later, Barred, Stays, Grows, Stops, Vanishes
<1>. QED
  BY <1>3 DEF e

LEMMA CompleteBlockedKept ==
    ASSUME IInv, NEW w \in Workers, NEW mismatch \in BOOLEAN, CompleteBlocked(w, mismatch)
    PROVE  IInv' /\ Kept(db, db')
<1>1. ~Closed(db) /\ worker[w].run \in Runs /\ worker[w].gen \in Nat
  BY Working DEF CompleteBlocked
<1>2. Kept(db, Block(db, worker[w].run))
  BY <1>1, BlockKept DEF IInv
<1>3. Kept(db, db')
  BY <1>1, <1>2, MarkedKept DEF CompleteBlocked
<1>4. worker' \in [Workers -> WorkerStates] /\ worker'[w].pc # "working"
      /\ \A v \in Workers \ {w} : worker'[v] = worker[v]
  BY DEF CompleteBlocked, Goto, IInv, TypeOK, WorkerStates, Idle
<1>. QED
  BY <1>3, <1>4, Carried DEF CompleteBlocked, IInv, TypeOK

LEMMA CompleteKept ==
    ASSUME IInv, NEW w \in Workers, NEW o \in OutcomeStates, Complete(w, o)
    PROVE  IInv' /\ Kept(db, db')
<1>1. ~Closed(db) /\ worker[w].run \in Runs /\ worker[w].gen \in Nat
  BY Working DEF Complete
<1>2. Kept(db, StoreResult(db, worker[w].run, o))
  BY <1>1, StoreResultKept DEF IInv, Complete
<1>3. Kept(db, db')
  BY <1>1, <1>2, MarkedKept DEF Complete
<1>4. worker' \in [Workers -> WorkerStates] /\ worker'[w].pc # "working"
      /\ \A v \in Workers \ {w} : worker'[v] = worker[v]
  BY DEF Complete, Goto, IInv, TypeOK, WorkerStates, Idle
<1>. QED
  BY <1>3, <1>4, Carried DEF Complete, IInv, TypeOK

LEMMA FinalizeAfterResultKept ==
    ASSUME IInv, NEW w \in Workers, FinalizeAfterResult(w)
    PROVE  IInv' /\ Kept(db, db')
<1>1. Kept(db, db')
  BY FinalizeKept DEF IInv, FinalizeAfterResult
<1>2. worker' \in [Workers -> WorkerStates] /\ worker'[w].pc # "working"
      /\ \A v \in Workers \ {w} : worker'[v] = worker[v]
  BY DEF FinalizeAfterResult, Goto, IInv, TypeOK, WorkerStates, Idle
<1>. QED
  BY <1>1, <1>2, Carried DEF FinalizeAfterResult, IInv, TypeOK

LEMMA CrashKept ==
    ASSUME IInv, NEW w \in Workers, Crash(w)
    PROVE  IInv' /\ Kept(db, db')
<1>1. Kept(db, db')
  BY SameKept DEF IInv, Crash
<1>2. worker' \in [Workers -> WorkerStates] /\ worker'[w].pc # "working"
      /\ \A v \in Workers \ {w} : worker'[v] = worker[v]
  BY DEF Crash, Goto, IInv, TypeOK, WorkerStates, Idle
<1>. QED
  BY <1>1, <1>2, Carried DEF Crash, IInv, TypeOK

\* Steps that revoke the permission.
LEMMA SuppressKept ==
    ASSUME IInv, Suppress
    PROVE  IInv' /\ Kept(db, db')
<1>1. Kept(db, db') /\ \A rep \in db'.reports : rep.access = "revoked"
  BY SuppressJobKept DEF IInv, Suppress
<1>2. TypeOK'
  BY <1>1 DEF Kept, Sound, Suppress, IInv, TypeOK
<1>3. ASSUME NEW w \in Workers, worker[w].pc = "working" PROVE Fenced(worker[w], db')
  <2>1. worker[w].epoch \in Nat /\ db.epoch \in Nat /\ db'.epoch \in Nat
    BY <1>2, <1>3, Working DEF IInv, TypeOK, Rows
  <2>. QED
    BY <1>1, <1>3, <2>1 DEF Kept, Later, IInv, Fenced
<1>4. \A w \in Workers : Fenced(worker[w], db)'
  BY <1>3 DEF Suppress, Fenced
<1>. QED
  BY <1>1, <1>2, <1>4 DEF IInv, Kept, SuppressedIsRevoked

LEMMA PolicyKept ==
    ASSUME IInv, Lapse \/ SwitchProvider
    PROVE  IInv' /\ Kept(db, db')
<1>1. Kept(db, db') /\ UNCHANGED <<db, broker, worker>>
  BY SameKept DEF IInv, Lapse, SwitchProvider
<1>2. policy' \in [eligible : BOOLEAN, suppressed : BOOLEAN, enabled : BOOLEAN]
      /\ policy'.suppressed = policy.suppressed
  BY DEF Lapse, SwitchProvider, IInv, TypeOK
<1>3. TypeOK'
  BY <1>1, <1>2 DEF IInv, TypeOK
<1>. QED
  BY <1>1, <1>2, <1>3 DEF IInv, SuppressedIsRevoked, Fenced

LEMMA DeleteKept ==
    ASSUME IInv, Delete
    PROVE  IInv' /\ Kept(db, db')
<1>. DEFINE run == [r \in Runs |-> NewRun("absent")]
            n == db.epoch + 1
<1>1. db.github \in BOOLEAN /\ db.epoch \in Nat /\ n \in Nat /\ n > db.epoch
  BY DEF IInv, TypeOK, Rows
<1>2. run \in [Runs -> RunRow]
  BY StatesAre DEF NewRun, RunRow
<1>3. db' = [AcceptedJob(db.github) EXCEPT !.status = "deleted", !.epoch = n, !.left = 0, !.run = run,
                                           !.outbox = {}]
  BY DEF Delete
<1>. HIDE DEF run, n
<1>4. /\ db' \in Rows
      /\ db'.status = "deleted" /\ db'.epoch = n /\ db'.evidence = {} /\ db'.reports = {}
  BY <1>1, <1>2, <1>3, StatesAre DEF AcceptedJob, Rows, RunRow
<1>5. Sound(db')
  BY <1>4, OpenIsSound DEF ReportedStates
<1>6. Kept(db, db')
  BY <1>1, <1>4, <1>5 DEF Delete, Kept, Later, Barred, Vanishes
<1>. QED
  BY <1>6, Carried DEF Delete, IInv, TypeOK

LEMMA StepKept == IInv /\ [Next]_vars => IInv' /\ Kept(db, db')
<1>. SUFFICES ASSUME IInv, [Next]_vars PROVE IInv' /\ Kept(db, db')
  OBVIOUS
<1>1. CASE \E m \in db.outbox : Dispatch(m)
  BY <1>1, DispatchKept
<1>2. CASE \E r \in Runs : Redeliver(r) \/ TaskLost(r) \/ Reclaim(r)
  BY <1>2, BrokerKept, ReclaimKept
<1>3. CASE \E w \in Workers : WorkerStep(w)
  BY <1>3, LeaseKept, CompleteStaleKept, CompleteBlockedKept, CompleteKept,
     FinalizeAfterResultKept, CrashKept DEF WorkerStep
<1>4. CASE Expire
  BY <1>4, ExpireKept
<1>5. CASE Revocation
  BY <1>5, SuppressKept, PolicyKept, DeleteKept DEF Revocation
<1>6. CASE Tick
  BY <1>6, TickKept
<1>7. CASE UNCHANGED vars
  <2>1. UNCHANGED <<db, policy, broker, worker>>
    BY <1>7 DEF vars
  <2>2. Kept(db, db')
    BY <2>1, SameKept DEF IInv
  <2>. QED
    BY <2>1, <2>2, Carried DEF IInv, TypeOK
<1>. QED
  BY <1>1, <1>2, <1>3, <1>4, <1>5, <1>6, <1>7 DEF Next

\* The invariant holds in every state.
LEMMA Invariance == Spec => []IInv
<1>1. IInv /\ [Next]_vars => IInv'
  BY StepKept
<1>. QED
  BY InitSound, <1>1, PTL DEF Spec

-----------------------------------------------------------------------------
(* The theorems. *)

\* The rows, the policy, the broker and what a worker remembers keep their
\* types: no time runs below zero, no message names a run that is not there.
THEOREM TypeCorrect == Spec => []TypeOK
<1>1. IInv => TypeOK
  BY DEF IInv
<1>. QED
  BY Invariance, <1>1, PTL

\* A published brief has no run that could be leased, retried or answered,
\* whichever of its workers are still busy.
THEOREM PublicationIsQuiet == Spec => []PublishedIsQuiet
<1>1. IInv => PublishedIsQuiet
  BY DEF IInv, Sound, Quiet, PublishedIsQuiet
<1>. QED
  BY Invariance, <1>1, PTL

\* The report of a suppressed profile is revoked, also one that was being
\* written when the suppression came.
THEOREM SuppressionRevokes == Spec => []SuppressedIsRevoked
<1>1. IInv => SuppressedIsRevoked
  BY DEF IInv
<1>. QED
  BY Invariance, <1>1, PTL

\* Nothing is stored or published while the permission is missing.
THEOREM NothingWithoutPermission == Spec => NothingPersistedUnpermitted
<1>1. ASSUME IInv, [Next]_vars, ~Permitted
      PROVE  /\ db'.evidence \subseteq db.evidence
             /\ db'.reports # {} => db.reports # {}
  BY <1>1, StepKept DEF Kept, Barred
<1>. QED
  BY Invariance, <1>1, PTL DEF Spec, NothingPersistedUnpermitted

\* The Fast Brief implements the promise that the discovery jobs implement.
THEOREM KeepsPromise == Spec => Promised
<1>1. Init => Promise!PInit
  <2>. SUFFICES ASSUME Init PROVE Promise!PInit
    OBVIOUS
  <2>1. db.status = "queued" /\ db.evidence = {} /\ db.reports = {}
    BY DEF Init, AcceptedJob
  <2>. QED
    BY <2>1 DEF Promise!PInit, ReportedStates
<1>2. IInv /\ [Next]_vars => [Promise!PNext]_(Promise!pvars)
  <2>. SUFFICES ASSUME IInv, IInv', Kept(db, db')
                PROVE  [Promise!PNext]_(Promise!pvars)
    BY StepKept
  <2>1. /\ db.status \in JobStates /\ db'.status \in JobStates
        /\ db.evidence \in SUBSET Runs /\ db'.evidence \in SUBSET Runs
    BY DEF IInv, TypeOK, Rows
  <2>. DEFINE old == {rep.evidence : rep \in db.reports}
              new == {rep.evidence : rep \in db'.reports}
  <2>2. /\ db.status \in ReportedStates => old = {db.evidence}
        /\ db.status \notin ReportedStates => old = {}
    BY DEF IInv, Sound, SoundReport
  <2>3. /\ db'.status \in ReportedStates => new = {db'.evidence}
        /\ db'.status \notin ReportedStates => new = {}
    BY DEF IInv, Sound, SoundReport
  <2>. HIDE DEF old, new
  <2>4. CASE Stays(db, db')
    <3>1. old = new
      BY <2>2, <2>3, <2>4 DEF Stays
    <3>. QED
      BY <2>4, <3>1 DEF old, new, Stays, Promise!pvars
  <2>5. CASE Grows(db, db')
    <3>1. /\ db.status \notin ReportedStates \cup {"policy_blocked", "deleted"}
          /\ db'.status \notin {"policy_blocked", "deleted"}
      BY <2>5 DEF Grows, Closed, ClosedStates
    <3>2. PICK E \in SUBSET Runs : db'.evidence = db.evidence \cup E
      <4>1. db'.evidence = db.evidence \cup db'.evidence
        BY <2>5 DEF Grows
      <4>. QED
        BY <2>1, <4>1
    <3>3. CASE db'.status \in ReportedStates
      <4>1. Promise!Publish(E)
        BY <2>3, <3>1, <3>2, <3>3 DEF new, Promise!Publish, ReportedStates
      <4>. QED
        BY <4>1 DEF Promise!PNext
    <3>4. CASE db'.status \notin ReportedStates
      <4>1. old = {} /\ new = {}
        BY <2>2, <2>3, <3>1, <3>4
      <4>2. Promise!Collect(E)
        BY <3>1, <3>2, <3>4, <4>1 DEF old, new, Promise!Collect
      <4>. QED
        BY <4>2 DEF Promise!PNext
    <3>. QED
      BY <3>3, <3>4
  <2>6. CASE Stops(db, db')
    <3>1. db.status \notin ReportedStates \cup {"policy_blocked", "deleted"}
      BY <2>6 DEF Stops, Closed, ClosedStates
    <3>2. old = {} /\ new = {}
      BY <2>2, <2>3, <2>6, <3>1 DEF Stops, ReportedStates
    <3>3. Promise!Withdraw
      BY <2>6, <3>1, <3>2 DEF old, new, Stops, Promise!Withdraw, ReportedStates
    <3>. QED
      BY <3>3 DEF Promise!PNext
  <2>7. CASE Vanishes(db, db')
    <3>1. new = {}
      BY <2>3, <2>7 DEF Vanishes, ReportedStates
    <3>2. Promise!Erase
      BY <2>1, <2>7, <3>1, StatesAre DEF new, Vanishes, Promise!Erase, ReportedStates
    <3>. QED
      BY <3>2 DEF Promise!PNext
  <2>. QED
    BY <2>4, <2>5, <2>6, <2>7 DEF Kept
<1>. QED
  BY Invariance, <1>1, <1>2, PTL DEF Spec, Promised, Promise!PSpec

-----------------------------------------------------------------------------
(* The second wave                                                         *)
(*                                                                         *)
(* Of the rows LinkedFollowsPrimary sees the kind of job, whether it is    *)
(* there, whether the first profile was found and whether the second run   *)
(* exists.  Every function but two leaves that view as it is: a stored     *)
(* result, which plans the run with the evidence in one transaction, and   *)
(* the deletion.                                                           *)

Tied(d) ==
    ~d.github /\ d.status # "deleted" =>
       (d.run["linked"].status # "absent" <=> "primary" \in d.evidence)

\* A run is there.
Exists(d, r) == d.run[r].status # "absent"

Alike(d, e) ==
    /\ e.github = d.github
    /\ e.status = "deleted" <=> d.status = "deleted"
    /\ e.evidence = d.evidence
    /\ \A r \in Runs : Exists(d, r) <=> Exists(e, r)

LEMMA AlikeTied ==
    ASSUME NEW d, NEW e, Tied(d), Alike(d, e)
    PROVE  Tied(e)
BY DEF Tied, Alike, Exists, Runs

\* Marking an attempt, or sending a message, changes other columns.
LEMMA OthersAlike ==
    ASSUME NEW d \in Rows, NEW e, NEW A,
           e = [d EXCEPT !.attempts = A] \/ e = [d EXCEPT !.outbox = A]
    PROVE  Alike(d, e)
BY DEF Rows, Alike, Exists

LEMMA MarkAttemptAlike ==
    ASSUME NEW d \in Rows, NEW r \in Runs, NEW g \in Nat,
           NEW st \in {"running", "finished", "discarded"}
    PROVE  Alike(d, MarkAttempt(d, r, g, st))
<1>. DEFINE m == MarkAttempt(d, r, g, st)
<1>1. m = [d EXCEPT !.attempts = m.attempts]
  BY MarkAttemptSame
<1>. HIDE DEF m
<1>. QED
  BY <1>1, OthersAlike DEF m

\* A run that is there gets another row of a run that is there.
LEMMA RunAlike ==
    ASSUME NEW d \in Rows, NEW r \in Runs, NEW row \in RunRow,
           Exists(d, r), row.status # "absent"
    PROVE  Alike(d, [d EXCEPT !.run[r] = row])
<1>1. d.run \in [Runs -> RunRow]
  BY RowsAre
<1>2. LET e == [d EXCEPT !.run[r] = row]
      IN  /\ e.github = d.github /\ e.status = d.status /\ e.evidence = d.evidence
          /\ e.run = [d.run EXCEPT ![r] = row]
  BY DEF Rows
<1>. QED
  BY <1>1, <1>2 DEF Alike, Exists

LEMMA SetRunAlike ==
    ASSUME NEW d \in Rows, NEW r \in Runs, NEW st \in RunStates,
           Exists(d, r), st # "absent"
    PROVE  Alike(d, SetRun(d, r, st))
<1>. DEFINE row == [d.run[r] EXCEPT !.status = st, !.lease = 0]
<1>1. d.run \in [Runs -> RunRow] /\ row \in RunRow /\ row.status = st
  BY RowsAre DEF RunRow
<1>2. SetRun(d, r, st) = [d EXCEPT !.run[r] = row]
  BY <1>1 DEF SetRun, Rows, RunRow
<1>. HIDE DEF row
<1>. QED
  BY <1>1, <1>2, RunAlike

\* All runs are rewritten, none appears or goes.
Rewrites(d, e, st, n, run) == e = [d EXCEPT !.status = st, !.epoch = n, !.run = run]

LEMMA RunsAlike ==
    ASSUME NEW d \in Rows, NEW e, NEW st, NEW n, NEW run,
           st = "deleted" <=> d.status = "deleted",
           \A r \in Runs : Exists(d, r) <=> run[r].status # "absent",
           Rewrites(d, e, st, n, run)
    PROVE  Alike(d, e)
BY DEF Rewrites, Rows, Alike, Exists

LEMMA BlockAlike ==
    ASSUME NEW d \in Rows, NEW r \in Runs, Exists(d, r), d.status # "deleted"
    PROVE  Alike(d, Block(d, r))
<1>. DEFINE row(q) == IF q = r \/ d.run[q].status \notin
                                    {"absent", "success", "no_result", "cancelled"}
                      THEN [d.run[q] EXCEPT !.status = "cancelled", !.lease = 0]
                      ELSE d.run[q]
            run == [q \in Runs |-> row(q)]
<1>1. d.run \in [Runs -> RunRow]
  BY RowsAre
<1>2. \A q \in Runs : Exists(d, q) <=> row(q).status # "absent"
  <2>1. \A q \in Runs : [d.run[q] EXCEPT !.status = "cancelled", !.lease = 0].status = "cancelled"
    BY <1>1 DEF RunRow
  <2>. QED
    BY <2>1 DEF Exists
<1>3. Block(d, r) = [d EXCEPT !.status = "policy_blocked", !.epoch = d.epoch + 1, !.run = run]
  BY DEF Block, Rows
<1>. HIDE DEF row
<1>4. \A q \in Runs : Exists(d, q) <=> run[q].status # "absent"
  BY <1>2
<1>. DEFINE e == Block(d, r)
            n == d.epoch + 1
<1>5. Rewrites(d, e, "policy_blocked", n, run)
  BY <1>3 DEF Rewrites
<1>. HIDE DEF run, n, e
<1>6. Alike(d, e)
  BY <1>4, <1>5, RunsAlike
<1>. QED
  BY <1>6 DEF e

LEMMA CloseOpenAlike ==
    ASSUME NEW d \in Rows
    PROVE  Alike(d, CloseOpen(d))
<1>. DEFINE row(q) == IF Settled(d, q) THEN d.run[q]
                      ELSE [d.run[q] EXCEPT !.status = "closed_at_finalization", !.lease = 0]
            run == [q \in Runs |-> row(q)]
<1>1. d.run \in [Runs -> RunRow]
  BY RowsAre
<1>2. \A q \in Runs : Exists(d, q) <=> row(q).status # "absent"
  <2>1. \A q \in Runs :
           [d.run[q] EXCEPT !.status = "closed_at_finalization", !.lease = 0].status
              = "closed_at_finalization"
    BY <1>1 DEF RunRow
  <2>. QED
    BY <2>1 DEF Exists, Settled
<1>3. CloseOpen(d) = [d EXCEPT !.run = run]
  BY DEF CloseOpen
<1>. HIDE DEF row
<1>4. \A q \in Runs : Exists(d, q) <=> run[q].status # "absent"
  BY <1>2
<1>. HIDE DEF run
<1>. QED
  BY <1>3, <1>4 DEF Rows, Alike, Exists

\* Statuses, epochs and reports.
Restamps(d, e, st, n, reps) ==
    \/ e = [d EXCEPT !.status = st, !.epoch = n]
    \/ e = [d EXCEPT !.status = st, !.epoch = n, !.reports = reps]

LEMMA ClosedAlike ==
    ASSUME NEW d \in Rows, NEW e, NEW st, NEW n, NEW reps,
           d.status # "deleted", st # "deleted",
           Restamps(d, e, st, n, reps)
    PROVE  Alike(d, e)
BY DEF Restamps, Rows, Alike, Exists

LEMMA PublishAlike ==
    ASSUME NEW d \in Rows, d.status # "deleted"
    PROVE  Alike(d, Publish(d))
<1>. DEFINE st == CompletenessOutcome(Predicates(d))
            n == d.epoch + 1
            reps == {[evidence |-> d.evidence, access |-> "active"]}
            e == Publish(d)
<1>1. Restamps(d, e, st, n, reps)
  BY DEF Publish, Restamps, Rows
<1>2. st # "deleted"
  BY DEF CompletenessOutcome
<1>. HIDE DEF st, n, reps, e
<1>3. Alike(d, e)
  BY <1>1, <1>2, ClosedAlike
<1>. QED
  BY <1>3 DEF e

LEMMA FinalizeAlike ==
    ASSUME NEW d \in Rows, NEW force \in BOOLEAN
    PROVE  Alike(d, Finalize(d, force))
<1>1. Alike(d, d)
  BY DEF Alike
<1>2. CASE ~Closed(d) /\ ~Permitted
  <2>1. d.status # "deleted"
    BY <1>2 DEF Closed, ClosedStates
  <2>2. Restamps(d, Finalize(d, force), "policy_blocked", d.epoch + 1, {})
    BY <1>2 DEF Finalize, Restamps, Rows
  <2>. QED
    BY <2>1, <2>2, ClosedAlike
<1>3. CASE ~Closed(d) /\ Permitted
  <2>1. d.status # "deleted"
    BY <1>3 DEF Closed, ClosedStates
  <2>2. Alike(d, Publish(d))
    BY <2>1, PublishAlike
  <2>3. Alike(d, Publish(CloseOpen(d)))
    <3>1. CloseOpen(d) \in Rows /\ CloseOpen(d).status # "deleted"
      BY <2>1, CloseOpenSame
    <3>2. Alike(CloseOpen(d), Publish(CloseOpen(d)))
      BY <3>1, PublishAlike
    <3>. QED
      BY <3>2, CloseOpenAlike DEF Alike
  <2>. QED
    BY <1>1, <1>3, <2>2, <2>3 DEF Finalize
<1>. QED
  BY <1>1, <1>2, <1>3 DEF Finalize

LEMMA SuppressJobAlike ==
    ASSUME NEW d \in Rows
    PROVE  Alike(d, SuppressJob(d))
<1>1. CASE d.status = "deleted"
  BY <1>1 DEF SuppressJob, Alike
<1>2. CASE d.status # "deleted"
  <2>. DEFINE st == IF d.status \in ReportedStates THEN d.status ELSE "policy_blocked"
              n == d.epoch + 1
              reps == {[rep EXCEPT !.access = "revoked"] : rep \in d.reports}
  <2>1. Restamps(d, SuppressJob(d), st, n, reps)
    BY <1>2 DEF SuppressJob, Restamps, Rows
  <2>2. st # "deleted"
    BY <1>2
  <2>. HIDE DEF st, n, reps
  <2>. QED
    BY <1>2, <2>1, <2>2, ClosedAlike
<1>. QED
  BY <1>1, <1>2

\* A result is stored and, if it is the first profile, the second run planned.
LEMMA StoreResultTied ==
    ASSUME NEW d \in Rows, NEW r \in Runs, NEW o \in OutcomeStates, Exists(d, r), Tied(d)
    PROVE  Tied(StoreResult(d, r, o)) /\ StoreResult(d, r, o) \in Rows
<1>. DEFINE s == SetRun(d, r, o)
            c == [s EXCEPT !.evidence = @ \cup {r}]
<1>1. s \in Rows /\ Alike(d, s)
  <2>1. o \in RunStates /\ o # "absent"
    BY DEF RunStates, SettledStates, OutcomeStates
  <2>. QED
    BY <2>1, SetRunSame, SetRunAlike
<1>2. Tied(s) /\ Exists(s, r)
  BY <1>1, AlikeTied DEF Alike
<1>. HIDE DEF s
<1>3. /\ c \in Rows /\ c.github = s.github /\ c.status = s.status
      /\ c.evidence = s.evidence \cup {r} /\ c.run = s.run
  BY <1>1 DEF Rows
<1>. HIDE DEF c
<1>4. PlanLinked(c, r) \in Rows
  BY <1>3, PlanLinkedSame
<1>5. Tied(PlanLinked(c, r))
  <2>1. CASE r = "primary" /\ ~c.github /\ c.run["linked"].status = "absent"
    <3>1. c.run \in [Runs -> RunRow] /\ "linked" \in Runs
      BY <1>3, RowsAre DEF Runs
    <3>2. /\ PlanLinked(c, r).run = [c.run EXCEPT !["linked"] = NewRun("pending")]
          /\ PlanLinked(c, r).evidence = c.evidence
      BY <1>3, <2>1 DEF PlanLinked, Rows
    <3>3. PlanLinked(c, r).run["linked"].status = "pending"
      BY <3>1, <3>2 DEF NewRun
    <3>. QED
      BY <1>3, <2>1, <3>2, <3>3 DEF Tied
  <2>2. CASE r = "primary" /\ ~(~c.github /\ c.run["linked"].status = "absent")
    BY <1>3, <2>2 DEF PlanLinked, Tied
  <2>3. CASE r = "linked"
    BY <1>2, <1>3, <2>3 DEF PlanLinked, Tied, Exists
  <2>. QED
    BY <2>1, <2>2, <2>3 DEF Runs
<1>6. StoreResult(d, r, o) = IF o = "success" THEN PlanLinked(c, r) ELSE s
  BY DEF StoreResult, s, c
<1>. QED
  BY <1>1, <1>2, <1>4, <1>5, <1>6

LEMMA LeaseTied ==
    ASSUME IInv, Tied(db), NEW w \in Workers, NEW r \in Runs, Lease(w, r)
    PROVE  Tied(db')
<1>1. db \in Rows /\ db.run \in [Runs -> RunRow]
  BY RowsAre DEF IInv, Sound
<1>2. CASE UNCHANGED db
  BY <1>2 DEF Tied
<1>. SUFFICES ASSUME ~ UNCHANGED db PROVE Tied(db')
  BY <1>2
<1>3. db.run[r].status \in WaitingStates /\ Exists(db, r)
  BY DEF Lease, Exists, WaitingStates
<1>4. CASE db' = [db EXCEPT !.run[r].status = "closed_at_finalization"]
  <2>. DEFINE row == [db.run[r] EXCEPT !.status = "closed_at_finalization"]
  <2>1. row \in RunRow /\ row.status # "absent"
    BY <1>1, StatesAre DEF RunRow
  <2>2. db' = [db EXCEPT !.run[r] = row]
    BY <1>1, <1>4 DEF Rows, RunRow
  <2>. HIDE DEF row
  <2>. QED
    BY <1>1, <1>3, <2>1, <2>2, RunAlike, AlikeTied
<1>5. CASE ~Closed(db) /\ db' = Block(db, r)
  <2>1. db.status # "deleted"
    BY <1>5 DEF Closed, ClosedStates
  <2>. QED
    BY <1>1, <1>3, <1>5, <2>1, BlockAlike, AlikeTied
<1>6. CASE ~Closed(db) /\ db' = TakeLease(db, r)
  <2>. DEFINE row == [status |-> "running", gen |-> db.run[r].gen + 1, lease |-> LeaseTime]
              att == db.attempts \cup {[run |-> r, gen |-> db.run[r].gen + 1,
                                        status |-> "running"]}
              mid == [db EXCEPT !.run[r] = row]
  <2>1. row \in RunRow /\ row.status # "absent"
    BY <1>1, StatesAre, BriefAssumption DEF RunRow
  <2>2. db' = [db EXCEPT !.status = "running", !.run[r] = row, !.attempts = att]
    BY <1>1, <1>6 DEF TakeLease, Rows, RunRow
  <2>. HIDE DEF row, att
  <2>3. Alike(db, mid)
    BY <1>1, <1>3, <2>1, RunAlike
  <2>4. /\ db'.github = mid.github /\ db'.evidence = mid.evidence /\ db'.run = mid.run
        /\ db'.status = "running" /\ mid.status = db.status
    BY <1>1, <2>2 DEF Rows
  <2>5. db.status # "deleted"
    BY <1>6 DEF Closed, ClosedStates
  <2>. HIDE DEF mid
  <2>6. Alike(db, db')
    BY <2>3, <2>4, <2>5 DEF Alike, Exists
  <2>. QED
    BY <2>6, AlikeTied
<1>. QED
  BY <1>4, <1>5, <1>6 DEF Lease

\* The worker's answer, when it is on time, is for a run that is there.
LEMMA AnswerTied ==
    ASSUME IInv, Tied(db), NEW w \in Workers,
           \/ CompleteStale(w)
           \/ \E mismatch \in BOOLEAN : CompleteBlocked(w, mismatch)
           \/ \E o \in OutcomeStates : Complete(w, o)
    PROVE  Tied(db')
<1>. DEFINE r == worker[w].run
            g == worker[w].gen
<1>1. db \in Rows /\ r \in Runs /\ g \in Nat
  BY Working DEF IInv, Sound, CompleteStale, CompleteBlocked, Complete
<1>2. ~Stale(db, worker[w]) => Exists(db, r) /\ db.status # "deleted"
  BY DEF Stale, Exists
<1>3. CASE CompleteStale(w)
  <2>1. db' = MarkAttempt(db, r, g, "discarded")
    BY <1>3 DEF CompleteStale
  <2>. QED
    BY <1>1, <2>1, MarkAttemptAlike, AlikeTied
<1>4. CASE \E mismatch \in BOOLEAN : CompleteBlocked(w, mismatch)
  <2>1. db' = MarkAttempt(Block(db, r), r, g, "discarded") /\ ~Stale(db, worker[w])
    BY <1>4 DEF CompleteBlocked
  <2>2. Block(db, r) \in Rows
    BY <1>1, <1>4, <2>1, Working, BlockKept DEF IInv, Kept, Sound, CompleteBlocked
  <2>3. Tied(Block(db, r))
    BY <1>1, <1>2, <2>1, BlockAlike, AlikeTied
  <2>. HIDE DEF r, g
  <2>. QED
    BY <1>1, <2>1, <2>2, <2>3, MarkAttemptAlike, AlikeTied
<1>5. CASE \E o \in OutcomeStates : Complete(w, o)
  <2>1. PICK o \in OutcomeStates :
           db' = MarkAttempt(StoreResult(db, r, o), r, g, "finished") /\ ~Stale(db, worker[w])
    BY <1>5 DEF Complete
  <2>2. Tied(StoreResult(db, r, o)) /\ StoreResult(db, r, o) \in Rows
    BY <1>1, <1>2, <2>1, StoreResultTied
  <2>. HIDE DEF r, g
  <2>. QED
    BY <1>1, <2>1, <2>2, MarkAttemptAlike, AlikeTied
<1>. QED
  BY <1>3, <1>4, <1>5

LEMMA ReclaimTied ==
    ASSUME IInv, Tied(db), NEW r \in Runs, Reclaim(r)
    PROVE  Tied(db')
<1>. DEFINE g == db.run[r].gen
            s == SetRun(db, r, "retry_scheduled")
            m == MarkAttempt(s, r, g, "discarded")
<1>1. db \in Rows /\ g \in Nat /\ Exists(db, r)
  BY RowsAre DEF IInv, Sound, Reclaim, RunRow, Exists
<1>2. s \in Rows /\ Tied(s)
  BY <1>1, StatesAre, SetRunSame, SetRunAlike, AlikeTied
<1>3. db' = [m EXCEPT !.outbox = @ \cup {Message(r, g + 1)}]
  BY DEF Reclaim
<1>. HIDE DEF s, g
<1>4. m \in Rows /\ Tied(m)
  BY <1>1, <1>2, MarkAttemptSame, MarkAttemptAlike, AlikeTied
<1>. HIDE DEF m
<1>5. db' = [m EXCEPT !.outbox = m.outbox \cup {Message(r, g + 1)}]
  BY <1>3, <1>4 DEF Rows
<1>. QED
  BY <1>4, <1>5, OthersAlike, AlikeTied

LEMMA TickTied ==
    ASSUME IInv, Tied(db), Tick
    PROVE  Tied(db')
<1>. DEFINE run == [r \in Runs |-> [db.run[r] EXCEPT !.lease = Down(@)]]
<1>1. db \in Rows /\ db.run \in [Runs -> RunRow]
  BY RowsAre DEF IInv, Sound
<1>2. \A r \in Runs : run[r].status = db.run[r].status
  BY <1>1 DEF RunRow
<1>3. db' = [db EXCEPT !.left = Down(db.left), !.run = run]
  BY <1>1 DEF Tick, Rows
<1>. HIDE DEF run
<1>4. Alike(db, db')
  BY <1>1, <1>2, <1>3 DEF Rows, Alike, Exists
<1>. QED
  BY <1>4, AlikeTied

LEMMA StepTied == IInv /\ Tied(db) /\ [Next]_vars => Tied(db')
<1>. SUFFICES ASSUME IInv, Tied(db), [Next]_vars PROVE Tied(db')
  OBVIOUS
<1>1. db \in Rows
  BY DEF IInv, Sound
<1>2. CASE \E m \in db.outbox : Dispatch(m)
  <2>1. PICK m \in db.outbox : db' = [db EXCEPT !.outbox = (db.outbox \ {m})
                                                              \cup {[m EXCEPT !.sent = TRUE]}]
    BY <1>1, <1>2 DEF Dispatch, Rows
  <2>. QED
    BY <1>1, <2>1, OthersAlike, AlikeTied
<1>3. CASE \E r \in Runs : Redeliver(r) \/ TaskLost(r) \/ Reclaim(r)
  BY <1>3, ReclaimTied DEF Redeliver, TaskLost
<1>4. CASE \E w \in Workers : WorkerStep(w)
  <2>1. \A w \in Workers : FinalizeAfterResult(w) \/ Crash(w) => Tied(db')
    BY <1>1, FinalizeAlike, AlikeTied DEF FinalizeAfterResult, Crash
  <2>. QED
    BY <1>4, <2>1, LeaseTied, AnswerTied DEF WorkerStep
<1>5. CASE Expire
  BY <1>1, <1>5, FinalizeAlike, AlikeTied DEF Expire
<1>6. CASE Revocation
  <2>1. CASE Suppress
    BY <1>1, <2>1, SuppressJobAlike, AlikeTied DEF Suppress
  <2>2. CASE Lapse \/ SwitchProvider
    BY <2>2 DEF Lapse, SwitchProvider
  <2>3. CASE Delete
    BY <1>6, <2>3, StepKept, StatesAre DEF Delete, AcceptedJob, Tied
  <2>. QED
    BY <1>6, <2>1, <2>2, <2>3 DEF Revocation
<1>7. CASE Tick
  BY <1>7, TickTied
<1>8. CASE UNCHANGED vars
  BY <1>8 DEF vars
<1>. QED
  BY <1>2, <1>3, <1>4, <1>5, <1>6, <1>7, <1>8 DEF Next

\* The linked profile is looked up if and only if the first profile was found,
\* whatever was retried, blocked, closed or suppressed in between.
THEOREM SecondWaveFollows == Spec => []LinkedFollowsPrimary
<1>1. Tied(db) <=> LinkedFollowsPrimary
  BY DEF Tied, LinkedFollowsPrimary
<1>2. Init => Tied(db)
  BY StatesAre DEF Init, AcceptedJob, NewRun, Tied, Runs
<1>3. IInv /\ Tied(db) /\ [Next]_vars => Tied(db)'
  BY StepTied
<1>. QED
  BY Invariance, <1>1, <1>2, <1>3, PTL DEF Spec

================================================================================
