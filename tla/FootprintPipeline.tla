-------------------------- MODULE FootprintPipeline --------------------------
(***************************************************************************)
(* The rows of one footprint discovery job and the functions that advance  *)
(* it: maigret_runs.finalize_discovery_if_complete and the scheduling and  *)
(* finalization services it calls.  Every function of this module runs     *)
(* inside one transaction that holds the SearchJob row lock, so each is an *)
(* operator from rows to rows; the state machine is FootprintDiscovery.    *)
(*                                                                         *)
(* Time is counted in ticks of 30 seconds and every instant is stored as   *)
(* the time that remains until it (0: reached).                            *)
(***************************************************************************)
EXTENDS Naturals, FiniteSets, Sequences

CONSTANTS
    Shards,          \* Maigret shard runs, created with the job
    Waves,           \* professional runs the adaptive wave creates
    Story,           \* the one grounded-synthesis run
    NamesOf,         \* NamesOf[s]: the name hypotheses that shard s's accounts carry
    Deep,            \* search_mode = "deep"
    BareHandle,      \* seed_kind = "bare_handle"
    SynthesisKey,    \* the synthesis gateway is enabled and its key is configured
    JobTime,         \* ticks from acceptance to the retrieval cutoff
    AnchorReserve,   \* MIN_PROFESSIONAL_SEARCH_SECONDS
    AnchorWindow,    \* MIN_ANCHOR_SELECTION_SECONDS
    WaveBudget       \* the budget of the adaptive wave

Runs == Shards \cup Waves \cup {Story}

Names == UNION {NamesOf[s] : s \in Shards}

\* selected_anchor finds no choice.
NoAnchor == "no_anchor"

ASSUME PipelineAssumption ==
    /\ Shards # {} /\ IsFiniteSet(Shards) /\ IsFiniteSet(Waves)
    /\ Shards \cap Waves = {} /\ Story \notin Shards \cup Waves
    /\ NamesOf \in [Shards -> SUBSET Names] /\ NoAnchor \notin Names
    /\ Deep \in BOOLEAN /\ BareHandle \in BOOLEAN /\ SynthesisKey \in BOOLEAN
    /\ JobTime \in Nat \ {0}
    /\ AnchorReserve \in Nat \ {0} /\ AnchorWindow \in Nat
    /\ WaveBudget \in Nat \ {0}

-----------------------------------------------------------------------------
(* Status vocabularies *)

WaitingStates == {"pending", "retry_scheduled"}

\* The outcomes of a provider.  The other codes of PROVIDER_TERMINAL_STATES
\* (timeout, rate_limited, ...) differ from provider_error in wording only.
OutcomeStates == {"success", "partial_success", "no_result", "provider_error"}

SettledStates ==
    OutcomeStates \cup {"skipped_configuration", "cancelled", "closed_at_cutoff"}

RunStates == {"absent", "running"} \cup WaitingStates \cup SettledStates

\* "deleted" stands for a SearchJob row that is gone (its tombstone remains).
\* "finalizing" never outlives the transaction that sets it.
ReportedStates == {"ready", "ready_partial", "no_candidates"}
ClosedStates   == ReportedStates \cup {"cancelled", "deleted"}
JobStates      == {"queued", "discovering"} \cup ClosedStates

ExplorationStates == {"idle", "running", "awaiting_anchor", "completed", "cancelled"}

Attempt == [gen : Nat \ {0}, status : {"running", "finished", "discarded"}]

Report == [evidence : SUBSET (Shards \cup Waves),
           story    : {"none", "fallback", "narrative"},
           manifest : [Runs -> RunStates]]

Rows == [status      : JobStates,
         exploration : ExplorationStates,
         epoch       : Nat,
         left        : Nat,
         anchor      : Names \cup {NoAnchor},
         run         : [Runs -> [status : RunStates, gen : Nat, epoch : Nat,
                                 lease : Nat, left : Nat]],
         attempts    : [Runs -> Seq(Attempt)],
         outbox      : SUBSET [run : Runs, gen : Nat \ {0}, sent : BOOLEAN],
         evidence    : SUBSET (Shards \cup Waves),
         story       : {"none", "fallback", "narrative"},
         reports     : SUBSET Report]

-----------------------------------------------------------------------------
(* Helpers *)

Lesser(a, b) == IF a < b THEN a ELSE b

\* Mutant: one of the many copies of the terminal set lacks a status.
ClosedForgetsPartial(d) == d.status \in ClosedStates \ {"ready_partial"}

Closed(d) == d.status \in ClosedStates

Scheduled(d) == {r \in Runs : d.run[r].status # "absent"}

Settled(d, S) == \A r \in S : d.run[r].status \in SettledStates

\* The wave and the shards have a deadline, the synthesis run has none.
DeadlineReached(d, r) == r # Story /\ d.run[r].left = 0

Message(r, g) == [run |-> r, gen |-> g, sent |-> FALSE]

NewRun(st, left) == [status |-> st, gen |-> 0, epoch |-> 1, lease |-> 0, left |-> left]

\* The rows create_footprint_job commits.
AcceptedJob ==
    [status      |-> "queued",
     exploration |-> "idle",
     epoch       |-> 1,
     left        |-> JobTime,
     anchor      |-> NoAnchor,
     run         |-> [r \in Runs |-> IF r \in Shards THEN NewRun("pending", JobTime)
                                                     ELSE NewRun("absent", 0)],
     attempts    |-> [r \in Runs |-> << >>],
     outbox      |-> {Message(s, 1) : s \in Shards},
     evidence    |-> {},
     story       |-> "none",
     reports     |-> {}]

-----------------------------------------------------------------------------
(* The anchor checkpoint *)

\* Mutant: no retrieval time is kept in reserve, the chooser never expires.
AnchorAlwaysOpen(d) == d.left >= 0

AnchorOpen(d) == d.left >= AnchorReserve

ExpireAnchor(d) ==
    IF d.exploration = "awaiting_anchor" /\ ~AnchorOpen(d)
    THEN [d EXCEPT !.exploration = "running"]
    ELSE d

(* The professional wave.  A hypothesis is a plausible name on an account  *)
(* that a shard stored.                                                    *)
Hypotheses(d) == UNION {NamesOf[s] : s \in d.evidence \cap Shards}

WaveDue(d, settings) ==
    /\ settings
    /\ d.left > 0
    /\ Scheduled(d) \cap Waves = {}
    /\ Settled(d, Shards)
    /\ Hypotheses(d) # {}
    /\ Waves # {}

\* Mutant: a choice that was already made is asked for again.
AnchorNeededAgain(d) ==
    /\ BareHandle
    /\ Cardinality(Hypotheses(d)) > 1
    /\ d.left >= AnchorReserve + AnchorWindow

AnchorNeeded(d) ==
    /\ BareHandle
    /\ Cardinality(Hypotheses(d)) > 1
    /\ d.anchor = NoAnchor
    /\ d.left >= AnchorReserve + AnchorWindow

ScheduleWave(d) ==
    [d EXCEPT !.exploration = "running",
              !.run = [r \in Runs |->
                         IF r \in Waves
                         THEN [NewRun("pending", Lesser(d.left, WaveBudget))
                                 EXCEPT !.epoch = d.epoch]
                         ELSE d.run[r]],
              !.outbox = @ \cup {Message(v, 1) : v \in Waves}]

(* The grounded synthesis, once every retrieval run is settled *)

\* Mutant: the professional wave is not waited for.
StoryDueAfterShards(d) ==
    /\ Deep
    /\ Story \notin Scheduled(d)
    /\ Settled(d, Shards)

StoryDue(d) ==
    /\ Deep
    /\ Story \notin Scheduled(d)
    /\ Settled(d, Scheduled(d))

\* Mutant: the run is created without its outbox message.
ScheduleStorySilently(d) ==
    [d EXCEPT !.exploration = "running",
              !.run[Story] = [NewRun("pending", 0) EXCEPT !.epoch = d.epoch]]

ScheduleStory(d) ==
    [d EXCEPT !.exploration = "running",
              !.run[Story] = [NewRun("pending", 0) EXCEPT !.epoch = d.epoch],
              !.outbox = @ \cup {Message(Story, 1)}]

SkipStory(d) ==
    [d EXCEPT !.run[Story] = [NewRun("skipped_configuration", 0) EXCEPT !.epoch = d.epoch],
              !.story = "fallback"]

(* Finalization freezes the evidence into a snapshot and a report *)

\* Mutant: only a run that was cut off makes the report partial.
ConclusiveUnlessCutOff(d) ==
    /\ \A r \in Scheduled(d) : d.run[r].status # "closed_at_cutoff"
    /\ Deep => Story \in Scheduled(d)

Conclusive(d) ==
    /\ \A r \in Scheduled(d) : d.run[r].status \in {"success", "no_result"}
    /\ Deep => Story \in Scheduled(d)

FrozenStatus(d) ==
    IF ~Conclusive(d) THEN "ready_partial"
    ELSE IF d.evidence # {} THEN "ready" ELSE "no_candidates"

Freeze(d) ==
    [d EXCEPT !.status = FrozenStatus(d),
              !.exploration = "completed",
              !.epoch = @ + 1,
              !.reports = @ \cup {[evidence |-> d.evidence,
                                  story    |-> d.story,
                                  manifest |-> [r \in Runs |-> d.run[r].status]]}]

FinalizeIfComplete(d) ==
    IF ~Closed(d) /\ d.reports = {} /\ Settled(d, Scheduled(d))
    THEN Freeze(d)
    ELSE d

(* finalize_discovery_if_complete: each stage that schedules work ends the *)
(* call; "settings" is FALSE when the caller passes none.                  *)
Advance(d, settings) ==
    LET e == ExpireAnchor(d) IN
    IF Closed(d) \/ e.exploration = "awaiting_anchor" THEN d
    ELSE IF WaveDue(e, settings)
         THEN IF AnchorNeeded(e)
              THEN [e EXCEPT !.exploration = "awaiting_anchor"]
              ELSE ScheduleWave(e)
    ELSE IF StoryDue(e)
         THEN IF settings /\ SynthesisKey
              THEN ScheduleStory(e)
              ELSE FinalizeIfComplete(SkipStory(e))
    ELSE FinalizeIfComplete(e)

=============================================================================
