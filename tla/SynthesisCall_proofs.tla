-------------------------- MODULE SynthesisCall_proofs --------------------------
(***************************************************************************)
(* The safety of a synthesis call for every gateway, every number of       *)
(* attempts, every token budget and any number of deliveries.  Deliveries  *)
(* may hold the same lease, so the inductive invariant looks at each by    *)
(* itself: how many requests it has sent, what they cost, and which budget *)
(* it asks with next.  What they share is that the job is over as soon as  *)
(* one of them, or the reconciler, has stored a result.                    *)
(***************************************************************************)
EXTENDS SynthesisCall, TLAPS

Busy == {"attempt", "asking", "waiting", "done"}

WorkerRecords ==
    [pc : {"queued", "seen", "attempt", "asking", "waiting", "done", "ended"},
     copy : RunStatuses, generation : Nat, packet : SUBSET Evidence,
     beating : BOOLEAN, lost : BOOLEAN, attempt : 0 .. MaxAttempts - 1,
     cap : 1 .. Ceiling, cut : 0 .. Ceiling, clean : BOOLEAN,
     asked : 0 .. MaxAttempts, paid : 0 .. MaxAttempts,
     outcome : Outcomes, usage : 0 .. MaxAttempts]

RunRecords == [status : RunStatuses, generation : Nat, fresh : BOOLEAN]

ResultRecords ==
    [outcome : Outcomes, usage : 0 .. MaxAttempts, paid : 0 .. MaxAttempts,
     packet : SUBSET Evidence]

\* Citations come with a success only, and from the packet.
Grounded(o, packet) == o.cites # {} => o.status = "success" /\ o.cites \subseteq packet

\* Where the worker is says how many requests were sent and answered.
Counted(self) ==
    /\ self.pc = "attempt" => self.asked = self.attempt /\ self.paid <= self.attempt
    /\ self.pc = "asking" => self.asked = self.attempt + 1 /\ self.paid <= self.attempt
    /\ self.pc = "waiting" => /\ self.asked = self.attempt + 1 /\ self.paid <= self.attempt + 1
                              /\ self.attempt + 1 < MaxAttempts

\* What the worker has added up: everything, until an exception or the loss of
\* the run ends its call.
Paid(self, config) ==
    /\ self.pc \in {"attempt", "asking", "waiting"} => self.usage = self.paid
    /\ self.pc = "done" => \/ self.usage = self.paid \/ self.lost
                           \/ self.outcome \in {InputInvalid, Unexpected}
    /\ config = "disabled" => /\ self.pc \notin {"asking", "waiting"}
                              /\ self.pc = "attempt" => self.attempt = 0

\* The budget of the next request after one that was cut off.
Widened(self) ==
    /\ self.pc \in {"attempt", "asking", "waiting"} /\ self.cut > 0 => self.cap > self.cut
    /\ self.clean /\ self.pc \in {"attempt", "asking"} /\ self.attempt + 1 = MaxAttempts
       /\ MaxAttempts > 1 => self.cap = Ceiling
    /\ self.clean /\ self.pc = "waiting" /\ self.attempt + 2 = MaxAttempts => self.cap = Ceiling

\* Only a worker that lost the run reports a cancelled request.
Honest(self) ==
    /\ self.pc \notin Busy => ~self.beating /\ ~self.lost
    /\ self.outcome.error = "request_cancelled" => self.lost

\* Every lease is the first one.
Leased(self) ==
    /\ self.pc = "seen" /\ self.copy = "pending" => self.generation = 0
    /\ self.pc \in Busy => self.generation = 1

Sane(self, config) ==
    /\ self \in WorkerRecords
    /\ Counted(self)
    /\ Paid(self, config)
    /\ Widened(self)
    /\ Honest(self)
    /\ Leased(self)
    /\ Grounded(self.outcome, self.packet)

\* What a worker knows of the run and the job.
Known(self, r, o) ==
    /\ self.lost => o
    /\ self.pc \in Busy => r.status # "pending"

\* While the job is open the run is waiting or leased, and leased once.
RunIsSane ==
    /\ ~over => run.status \in {"pending", "running"}
    /\ run.status = "pending" => run.generation = 0
    /\ run.status = "running" => run.generation = 1 /\ ~over

\* A stored result ends the job.
ResultIsSane ==
    /\ ~over => result = NoResult
    /\ result.outcome.error # "request_cancelled"
    /\ Grounded(result.outcome, result.packet)
    /\ CostIsTotal

IInv ==
    /\ TypeOK
    /\ \A d \in Deliveries : Sane(worker[d], setup) /\ Known(worker[d], run, over)
    /\ RunIsSane
    /\ ResultIsSane

-----------------------------------------------------------------------------
(* What the gateway's answers amount to. *)

SoundOutcome(o, packet) ==
    o \in Outcomes /\ Grounded(o, packet) /\ o.error # "request_cancelled"

LEMMA ErrorsAreSound ==
    ASSUME NEW packet,
           NEW status \in {"timeout", "rate_limited", "auth_required", "provider_error",
                           "invalid_response", "no_result", "skipped_configuration"},
           NEW error \in Errors, error # "request_cancelled"
    PROVE  SoundOutcome(Failure(status, error), packet)
BY DEF SoundOutcome, Failure, Outcomes, Grounded

LEMMA ValidateIsSound ==
    ASSUME NEW packet \in SUBSET Evidence, NEW doc \in Parts, doc.body = "document"
    PROVE  SoundOutcome(Validate(doc, packet), packet)
<1>1. /\ doc.flaw \in Flaws
      /\ doc.cites \in SUBSET (Evidence \cup {"invented"})
  BY DEF Parts
<1>2. CASE doc.flaw # "none"
  <2>1. doc.flaw \in Errors /\ doc.flaw # "request_cancelled"
    BY <1>1, <1>2 DEF Errors, RetryableErrors, Flaws
  <2>2. "output_unknown_source_id" \in Errors
    BY DEF Errors, RetryableErrors
  <2>3. /\ SoundOutcome(Failure("invalid_response", doc.flaw), packet)
        /\ SoundOutcome(Failure("invalid_response", "output_unknown_source_id"), packet)
    BY <2>1, <2>2, ErrorsAreSound
  <2>. QED
    BY <1>2, <2>3 DEF Validate
<1>3. CASE doc.flaw = "none" /\ ~(doc.cites \subseteq packet)
  <2>1. "output_unknown_source_id" \in Errors
    BY DEF Errors, RetryableErrors
  <2>2. doc.flaw \notin {"output_schema_invalid", "output_schema_version_invalid"}
    BY <1>3
  <2>3. Validate(doc, packet) = Failure("invalid_response", "output_unknown_source_id")
    BY <1>3, <2>2 DEF Validate
  <2>. QED
    BY <2>1, <2>3, ErrorsAreSound
<1>4. CASE doc.flaw = "none" /\ doc.cites \subseteq packet
  <2>1. Validate(doc, packet) = [status |-> "success", error |-> "none", cites |-> doc.cites]
    BY <1>4 DEF Validate, Document
  <2>2. doc.cites \in SUBSET Evidence
    BY <1>4
  <2>. QED
    BY <1>4, <2>1, <2>2 DEF SoundOutcome, Outcomes, Grounded
<1>. QED
  BY <1>2, <1>3, <1>4

LEMMA TypedFailureIsSound ==
    ASSUME NEW packet, NEW type \in ErrorTypes
    PROVE  SoundOutcome(TypedFailure(type), packet)
BY ErrorsAreSound DEF TypedFailure, ErrorTypes, Errors

LEMMA HttpFailureIsSound ==
    ASSUME NEW packet, NEW code \in HttpCodes
    PROVE  SoundOutcome(HttpFailure(code), packet)
<1>1. {"rate_limited", "request_timeout", "unavailable", "auth_required", "payment_required",
       "unexpected_status"} \subseteq Errors \ {"request_cancelled"}
  BY DEF Errors, RetryableErrors
<1>. QED
  BY <1>1, ErrorsAreSound DEF HttpFailure, HttpCodes

LEMMA ParseResponseIsSound ==
    ASSUME NEW packet \in SUBSET Evidence, NEW a \in Replies
    PROVE  SoundOutcome(ParseResponse(a, packet), packet)
<1>1. /\ a.type \in ErrorTypes
      /\ a.parts \in Parts
      /\ a.parts.body \in {"missing", "refusal", "empty", "garbled", "scalar", "pairs",
                          "document"}
  <2>1. NoParts \in Parts
    BY DEF NoParts, Parts
  <2>2. "absent" \in ErrorTypes
    BY DEF ErrorTypes
  <2>3. a.type \in ErrorTypes /\ a.parts \in Parts
    BY <2>1, <2>2 DEF Replies
  <2>4. \A p \in Parts : p.body \in {"missing", "refusal", "empty", "garbled", "scalar", "pairs",
                          "document"}
    BY DEF Parts
  <2>. QED
    BY <2>3, <2>4
<1>2. {Truncated, "incomplete_content_filter", "response_error", "response_unexpected_status",
       "response_output_missing", "response_refusal", "response_text_missing",
       "output_invalid_json", "grounded_synthesis_input_invalid",
       "grounded_synthesis_unexpected_failure"} \subseteq Errors \ {"request_cancelled"}
  BY DEF Errors, RetryableErrors, Truncated
<1>3. /\ SoundOutcome(TypedFailure(a.type), packet)
      /\ SoundOutcome(Failure("invalid_response", Truncated), packet)
      /\ SoundOutcome(Failure("invalid_response", "incomplete_content_filter"), packet)
      /\ SoundOutcome(Failure("provider_error", "response_error"), packet)
      /\ SoundOutcome(Failure("invalid_response", "response_unexpected_status"), packet)
      /\ SoundOutcome(Failure("invalid_response", "response_output_missing"), packet)
      /\ SoundOutcome(Failure("invalid_response", "response_refusal"), packet)
      /\ SoundOutcome(Failure("invalid_response", "response_text_missing"), packet)
      /\ SoundOutcome(Failure("invalid_response", "output_invalid_json"), packet)
      /\ SoundOutcome(InputInvalid, packet) /\ SoundOutcome(Unexpected, packet)
  BY <1>1, <1>2, ErrorsAreSound, TypedFailureIsSound DEF InputInvalid, Unexpected
<1>4. a.parts.body = "document" => SoundOutcome(Validate(a.parts, packet), packet)
  BY <1>1, ValidateIsSound
<1>. QED
  BY <1>1, <1>3, <1>4 DEF ParseResponse

\* Whatever the gateway answers, the runner returns an outcome that cites the
\* packet only and is not the mark of a cancelled request.
LEMMA OutcomeIsSound ==
    ASSUME NEW packet \in SUBSET Evidence, NEW a \in Answers
    PROVE  SoundOutcome(Outcome(a, packet), packet)
<1>1. CASE a \in Replies
  <2>1. a.kind = "reply"
    BY <1>1 DEF Replies
  <2>. QED
    BY <1>1, <2>1, ParseResponseIsSound DEF Outcome
<1>2. CASE a \in [kind : {"http"}, code : HttpCodes, type : ErrorTypes]
  <2>1. a.kind = "http" /\ a.code \in HttpCodes /\ a.type \in ErrorTypes
    BY <1>2
  <2>. QED
    BY <2>1, TypedFailureIsSound, HttpFailureIsSound DEF Outcome
<1>3. CASE a \in [kind : {"timed out", "broken", "envelope", "no json", "no object"}]
  <2>1. a.kind \in {"timed out", "broken", "envelope", "no json", "no object"}
    BY <1>3
  <2>2. {"request_timeout", "network_error", "response_invalid_envelope",
         "response_invalid_json", "response_invalid_payload"} \subseteq Errors \ {"request_cancelled"}
    BY DEF Errors, RetryableErrors
  <2>. QED
    BY <2>1, <2>2, ErrorsAreSound DEF Outcome
<1>. QED
  BY <1>1, <1>2, <1>3, AnswersAssumption DEF AnswerSpace

\* The wider budget is wider, stays below the ceiling, and is all there is
\* before the last attempt.
LEMMA EscalationWidens ==
    ASSUME NEW current \in 1 .. Ceiling, current < Ceiling, NEW remaining \in Nat \ {0}
    PROVE  /\ EscalatedOutputLimit(current, remaining) \in 1 .. Ceiling
           /\ EscalatedOutputLimit(current, remaining) > current
           /\ remaining = 1 => EscalatedOutputLimit(current, remaining) = Ceiling
<1>. DEFINE step == (Ceiling - current) \div remaining
            wider == current + (IF step > 1 THEN step ELSE 1)
<1>1. Ceiling \in Nat
  BY SynthesisCallAssumption
<1>2. step \in Nat
  BY <1>1
<1>3. wider \in Nat /\ wider > current
  BY <1>2
<1>4. remaining = 1 => step = Ceiling - current
  BY <1>1
<1>5. EscalatedOutputLimit(current, remaining) = IF wider < Ceiling THEN wider ELSE Ceiling
  BY DEF EscalatedOutputLimit
<1>. HIDE DEF wider
<1>6. CASE remaining = 1
  <2>1. wider >= Ceiling
    BY <1>1, <1>4, <1>6 DEF wider
  <2>. QED
    BY <1>1, <1>3, <1>5, <2>1
<1>. QED
  BY <1>1, <1>3, <1>5, <1>6

-----------------------------------------------------------------------------
(* Steps of one delivery. *)

LEMMA TypeOKIsRecords ==
    TypeOK <=> /\ over \in BOOLEAN
               /\ run \in RunRecords
               /\ result \in ResultRecords
               /\ setup \in {"ready", "disabled", "keyless", "unfit"}
               /\ worker \in [Deliveries -> WorkerRecords]
BY DEF TypeOK, WorkerRecords, RunRecords, ResultRecords

LEMMA NoOutcomeIsSound ==
    /\ NoOutcome \in Outcomes /\ NoOutcome.cites = {} /\ NoOutcome.error # "request_cancelled"
    /\ \A packet : Grounded(NoOutcome, packet)
BY DEF NoOutcome, Outcomes, Grounded

LEMMA CancelledIsSound ==
    /\ Cancelled \in Outcomes
    /\ \A packet : Grounded(Cancelled, packet)
    /\ ~Retryable(Cancelled) /\ Cancelled.error # Truncated
BY DEF Cancelled, Failure, Outcomes, Errors, Grounded, Retryable, RetryableErrors, Truncated, Flaws

LEMMA QueuedIsSane ==
    ASSUME NEW config
    PROVE  /\ Queued \in WorkerRecords /\ Sane(Queued, config)
           /\ Ended \in WorkerRecords /\ Sane(Ended, config)
           /\ \A r, o : Known(Queued, r, o) /\ Known(Ended, r, o)
<1>1. /\ 0 \in 0 .. MaxAttempts /\ 0 \in 0 .. MaxAttempts - 1 /\ StartTokens \in 1 .. Ceiling
      /\ 0 \in 0 .. Ceiling /\ {} \in SUBSET Evidence /\ "pending" \in RunStatuses
  BY SynthesisCallAssumption DEF RunStatuses
<1>2. Queued \in WorkerRecords /\ Ended \in WorkerRecords
  BY <1>1, NoOutcomeIsSound DEF Queued, Ended, WorkerRecords
<1>3. /\ Queued.pc = "queued" /\ Queued.outcome = NoOutcome /\ ~Queued.lost /\ ~Queued.beating
      /\ Ended.pc = "ended" /\ Ended.outcome = NoOutcome /\ ~Ended.lost /\ ~Ended.beating
  BY DEF Queued, Ended
<1>4. /\ Counted(Queued) /\ Paid(Queued, config) /\ Widened(Queued) /\ Honest(Queued)
      /\ Leased(Queued) /\ Counted(Ended) /\ Paid(Ended, config) /\ Widened(Ended)
      /\ Honest(Ended) /\ Leased(Ended)
  BY <1>3, NoOutcomeIsSound DEF Counted, Paid, Widened, Honest, Leased, Busy
<1>. QED
  BY <1>2, <1>3, <1>4, NoOutcomeIsSound DEF Sane, Known, Busy

\* A step in which one delivery changes and the rows stay.
LEMMA WorkerStep ==
    ASSUME IInv, NEW d \in Deliveries, NEW new, Changed(d, new),
           UNCHANGED <<over, run, result, setup>>,
           Sane(new, setup), Known(new, run, over)
    PROVE  IInv'
<1>1. worker \in [Deliveries -> WorkerRecords] /\ new \in WorkerRecords
  BY TypeOKIsRecords DEF IInv, Sane
<1>2. /\ worker' \in [Deliveries -> WorkerRecords] /\ worker'[d] = new
      /\ \A e \in Deliveries \ {d} : worker'[e] = worker[e]
  BY <1>1 DEF Changed
<1>3. TypeOK'
  BY <1>2, TypeOKIsRecords DEF IInv, TypeOK, WorkerRecords
<1>4. \A e \in Deliveries : Sane(worker'[e], setup) /\ Known(worker'[e], run, over)
  BY <1>2 DEF IInv
<1>5. RunIsSane' /\ ResultIsSane'
  BY DEF IInv, RunIsSane, ResultIsSane, CostIsTotal
<1>. QED
  BY <1>3, <1>4, <1>5 DEF IInv

\* A step in which the rows change, and one delivery perhaps.
LEMMA RowsStep ==
    ASSUME IInv, NEW d \in Deliveries, NEW new, Changed(d, new) \/ UNCHANGED worker,
           UNCHANGED setup, over' \in BOOLEAN, over => over',
           run' \in RunRecords, result' \in ResultRecords,
           run'.status # "pending" \/ run.status = "pending",
           RunIsSane', ResultIsSane',
           Changed(d, new) => Sane(new, setup) /\ Known(new, run', over')
    PROVE  IInv'
<1>1. worker \in [Deliveries -> WorkerRecords] /\ (Changed(d, new) => new \in WorkerRecords)
  BY TypeOKIsRecords DEF IInv, Sane
<1>2. /\ worker' \in [Deliveries -> WorkerRecords]
      /\ \A e \in Deliveries :
            worker'[e] = worker[e] \/ (Changed(d, new) /\ worker'[e] = new)
  BY <1>1 DEF Changed
<1>3. TypeOK'
  BY <1>2, TypeOKIsRecords DEF IInv, TypeOK, WorkerRecords, RunRecords, ResultRecords
<1>4. \A e \in Deliveries : Sane(worker'[e], setup) /\ Known(worker'[e], run', over')
  <2>. SUFFICES ASSUME NEW e \in Deliveries
                PROVE  Sane(worker'[e], setup) /\ Known(worker'[e], run', over')
    OBVIOUS
  <2>1. Sane(worker[e], setup) /\ Known(worker[e], run, over)
    BY DEF IInv
  <2>2. Known(worker[e], run', over')
    BY <2>1 DEF Known
  <2>. QED
    BY <1>2, <2>1, <2>2
<1>. QED
  BY <1>3, <1>4 DEF IInv

\* _execute_synthesis returns: what it has learned of its budget is forgotten.
LEMMA ReturnedIsSane ==
    ASSUME NEW self \in WorkerRecords, NEW outcome \in Outcomes, NEW usage \in 0 .. MaxAttempts,
           NEW config, Leased(self), self.pc \in Busy, Grounded(outcome, self.packet),
           outcome.error = "request_cancelled" => self.lost,
           \/ usage = self.paid \/ self.lost \/ outcome \in {InputInvalid, Unexpected}
    PROVE  /\ Sane(Returned(self, outcome, usage), config)
           /\ \A r, o : Known(self, r, o) => Known(Returned(self, outcome, usage), r, o)
<1>. DEFINE new == Returned(self, outcome, usage)
<1>1. /\ 0 \in 0 .. MaxAttempts - 1 /\ StartTokens \in 1 .. Ceiling /\ 0 \in 0 .. Ceiling
  BY SynthesisCallAssumption
<1>2. /\ new.pc = "done" /\ new.outcome = outcome /\ new.usage = usage /\ new.paid = self.paid
      /\ new.lost = self.lost /\ new.packet = self.packet /\ new.generation = self.generation
      /\ new \in WorkerRecords
  BY <1>1 DEF Returned, WorkerRecords
<1>. HIDE DEF new
<1>3. /\ Counted(new) /\ Paid(new, config) /\ Widened(new) /\ Honest(new) /\ Leased(new)
      /\ Grounded(new.outcome, new.packet)
  BY <1>2 DEF Counted, Paid, Widened, Honest, Leased, Busy
<1>4. \A r, o : Known(self, r, o) => Known(new, r, o)
  BY <1>2 DEF Known, Busy
<1>. QED
  BY <1>2, <1>3, <1>4 DEF Sane, new

\* The body of the retry loop after an answer whose cost, if it was told one,
\* is counted as paid already.
LEMMA JudgeIsSane ==
    ASSUME NEW old \in WorkerRecords, NEW config \in {"ready", "disabled", "keyless", "unfit"},
           Sane(old, config), old.pc = "asking",
           NEW told \in {0, 1}, NEW outcome \in Outcomes, Grounded(outcome, old.packet),
           outcome.error = "request_cancelled" => old.lost,
           NEW cost \in {0, 1},
           cost = told \/ (cost = 0 /\ outcome = Unexpected) \/ (told = 0 /\ cost = 0),
           NEW self, self = [old EXCEPT !.paid = @ + told]
    PROVE  /\ self \in WorkerRecords /\ Leased(self)
           /\ Sane(Judge(self, outcome, cost), config)
           /\ \A r, o : Known(old, r, o) => Known(Judge(self, outcome, cost), r, o)
<1>. DEFINE remaining == MaxAttempts - self.attempt - 1
            cut == outcome.error = Truncated
            usage == self.usage + cost
            clean == self.clean /\ cut
            before == IF cut THEN self.cap ELSE self.cut
            wider == IF cut THEN EscalatedOutputLimit(self.cap, remaining) ELSE self.cap
            again == [self EXCEPT !.pc = "waiting", !.outcome = outcome, !.usage = usage,
                                  !.clean = clean, !.cut = before, !.cap = wider]
<1>1. /\ Counted(old) /\ Paid(old, config) /\ Widened(old) /\ Honest(old) /\ Leased(old)
  BY DEF Sane
<1>2. MaxAttempts \in Nat \ {0} /\ StartTokens \in Nat /\ Ceiling \in Nat
  BY SynthesisCallAssumption
<1>3. /\ old.attempt \in 0 .. MaxAttempts - 1 /\ old.paid \in 0 .. old.attempt
      /\ old.usage = old.paid /\ old.asked = old.attempt + 1
  BY <1>1, <1>2 DEF WorkerRecords, Counted, Paid
<1>4. /\ self.pc = "asking" /\ self.attempt = old.attempt /\ self.paid = old.paid + told
      /\ self.usage = old.usage /\ self.asked = old.asked /\ self.cap = old.cap
      /\ self.cut = old.cut /\ self.clean = old.clean /\ self.lost = old.lost
      /\ self.packet = old.packet /\ self.generation = old.generation
      /\ self.beating = old.beating /\ self \in WorkerRecords
  <2>1. old.paid + told \in 0 .. MaxAttempts
    BY <1>2, <1>3
  <2>. QED
    BY <2>1 DEF WorkerRecords
<1>5. Leased(self)
  BY <1>1, <1>4 DEF Leased
<1>6. /\ usage \in 0 .. MaxAttempts
      /\ usage = self.paid \/ outcome = Unexpected
  BY <1>2, <1>3, <1>4
<1>7. \A r, o : Known(old, r, o) => Known(self, r, o)
  BY <1>4 DEF Known
<1>8. CASE ~Retryable(outcome) \/ remaining = 0 \/ (cut /\ self.cap >= Ceiling)
  <2>1. Judge(self, outcome, cost) = Returned(self, outcome, usage)
    BY <1>8 DEF Judge
  <2>2. /\ Sane(Returned(self, outcome, usage), config)
        /\ \A r, o : Known(self, r, o) => Known(Returned(self, outcome, usage), r, o)
    <3>1. self.pc \in Busy
      BY <1>4 DEF Busy
    <3>. HIDE DEF usage
    <3>. QED
      BY <1>4, <1>5, <1>6, <3>1, ReturnedIsSane
  <2>. QED
    BY <1>4, <1>5, <1>7, <2>1, <2>2
<1>9. CASE ~(~Retryable(outcome) \/ remaining = 0 \/ (cut /\ self.cap >= Ceiling))
  <2>1. Judge(self, outcome, cost) = again
    BY <1>9 DEF Judge
  <2>2. remaining \in Nat \ {0} /\ self.attempt + 1 < MaxAttempts
    BY <1>2, <1>3, <1>4, <1>9
  <2>3. cut => self.cap < Ceiling
    BY <1>2, <1>4, <1>9 DEF WorkerRecords
  <2>4. cut => /\ EscalatedOutputLimit(self.cap, remaining) \in 1 .. Ceiling
               /\ EscalatedOutputLimit(self.cap, remaining) > self.cap
               /\ remaining = 1 => EscalatedOutputLimit(self.cap, remaining) = Ceiling
    <3>1. self.cap \in 1 .. Ceiling
      BY <1>4 DEF WorkerRecords
    <3>. QED
      BY <2>2, <2>3, <3>1, EscalationWidens
  <2>5. outcome # Unexpected
    BY <1>9 DEF Unexpected, Failure, Retryable, RetryableErrors, Truncated, Flaws
  <2>6. /\ self.cap \in 1 .. Ceiling /\ self.cut \in 0 .. Ceiling /\ self.clean \in BOOLEAN
        /\ clean \in BOOLEAN /\ before \in 0 .. Ceiling /\ wider \in 1 .. Ceiling
    BY <1>2, <1>4, <2>4 DEF WorkerRecords
  <2>. HIDE DEF usage, clean, before, wider, remaining
  <2>7. /\ again.pc = "waiting" /\ again.attempt = self.attempt /\ again.usage = usage
        /\ again.paid = self.paid /\ again.asked = self.asked /\ again.outcome = outcome
        /\ again.lost = self.lost /\ again.beating = self.beating /\ again.packet = self.packet
        /\ again.generation = self.generation /\ again.cap = wider /\ again.cut = before
        /\ again.clean = clean /\ again \in WorkerRecords
    BY <1>4, <1>6, <2>6 DEF WorkerRecords
  <2>. HIDE DEF again
  <2>8. Counted(again) /\ Paid(again, config) /\ Honest(again) /\ Leased(again)
    <3>1. config # "disabled"
      BY <1>1 DEF Paid
    <3>2. self.paid <= self.attempt + 1
      BY <1>2, <1>3, <1>4
    <3>. QED
      BY <1>1, <1>3, <1>4, <1>6, <2>2, <2>5, <2>7, <3>1, <3>2
         DEF Counted, Paid, Honest, Leased, Busy
  <2>9. Widened(again)
    <3>1. self.cut > 0 => self.cap > self.cut
      BY <1>1, <1>4 DEF Widened
    <3>2. again.cut > 0 => again.cap > again.cut
      BY <2>4, <2>7, <3>1 DEF before, wider
    <3>3. self.attempt + 2 = MaxAttempts => remaining = 1
      BY <1>2, <1>3, <1>4 DEF remaining
    <3>4. again.clean => cut
      BY <2>7 DEF clean
    <3>5. again.clean /\ again.attempt + 2 = MaxAttempts => again.cap = Ceiling
      BY <2>4, <2>7, <3>3, <3>4 DEF wider
    <3>. QED
      BY <2>7, <3>2, <3>5 DEF Widened
  <2>10. \A r, o : Known(self, r, o) => Known(again, r, o)
    BY <1>4, <2>7 DEF Known, Busy
  <2>11. Sane(again, config)
    BY <1>4, <2>7, <2>8, <2>9 DEF Sane
  <2>. QED
    BY <1>4, <1>5, <1>7, <2>1, <2>10, <2>11
<1>. QED
  BY <1>8, <1>9

-----------------------------------------------------------------------------
(* The invariant is kept. *)

LEMMA InitSane == Init => IInv
<1>. SUFFICES ASSUME Init PROVE IInv
  OBVIOUS
<1>1. \A d \in Deliveries : worker[d] = Queued
  BY DEF Init
<1>2. \A d \in Deliveries : Sane(worker[d], setup) /\ Known(worker[d], run, over)
  BY <1>1, QueuedIsSane
<1>3. TypeOK
  <2>1. result \in ResultRecords
    BY NoOutcomeIsSound, SynthesisCallAssumption DEF Init, NoResult, ResultRecords
  <2>2. run \in RunRecords
    BY DEF Init, RunRecords, RunStatuses
  <2>3. worker \in [Deliveries -> WorkerRecords]
    BY QueuedIsSane DEF Init
  <2>. QED
    BY <2>1, <2>2, <2>3, TypeOKIsRecords DEF Init
<1>4. RunIsSane
  BY DEF Init, RunIsSane
<1>5. ResultIsSane
  BY NoOutcomeIsSound DEF Init, ResultIsSane, NoResult, CostIsTotal
<1>. QED
  BY <1>2, <1>3, <1>4, <1>5 DEF IInv

LEMMA ReceiveSane ==
    ASSUME IInv, NEW d \in Deliveries, Receive(d)
    PROVE  IInv'
<1>. DEFINE self == worker[d]
            new == [self EXCEPT !.pc = "seen", !.copy = run.status, !.generation = run.generation]
<1>1. self.pc = "queued" /\ UNCHANGED <<over, run, result, setup>>
  BY DEF Receive
<1>2. Sane(self, setup) /\ run \in RunRecords
  BY TypeOKIsRecords DEF IInv
<1>3. CASE run.status = "gone"
  BY <1>1, <1>3, QueuedIsSane, WorkerStep DEF Receive
<1>4. CASE run.status # "gone"
  <2>1. Changed(d, new)
    BY <1>4 DEF Receive
  <2>2. /\ new.pc = "seen" /\ new.copy = run.status /\ new.generation = run.generation
        /\ new.lost = self.lost /\ new.beating = self.beating /\ new.outcome = self.outcome
        /\ new.packet = self.packet /\ new \in WorkerRecords
    BY <1>2 DEF Sane, WorkerRecords, RunRecords
  <2>. HIDE DEF new
  <2>3. /\ Counted(new) /\ Paid(new, setup) /\ Widened(new) /\ Honest(new)
    BY <1>1, <1>2, <2>2 DEF Sane, Counted, Paid, Widened, Honest, Busy
  <2>4. Leased(new)
    BY <2>2 DEF Leased, Busy, IInv, RunIsSane
  <2>5. Sane(new, setup)
    BY <1>2, <2>2, <2>3, <2>4 DEF Sane
  <2>6. Known(new, run, over)
    BY <2>2 DEF IInv, Known, Busy
  <2>. QED
    BY <1>1, <2>1, <2>5, <2>6, WorkerStep
<1>. QED
  BY <1>3, <1>4

LEMMA LeaseRunSane ==
    ASSUME IInv, NEW d \in Deliveries, LeaseRun(d)
    PROVE  IInv'
<1>. DEFINE self == worker[d]
            taken == self.generation + 1
<1>1. self.pc = "seen" /\ UNCHANGED <<over, result, setup>>
  BY DEF LeaseRun
<1>2. /\ Sane(self, setup) /\ run \in RunRecords /\ result \in ResultRecords /\ over \in BOOLEAN
      /\ RunIsSane /\ ResultIsSane
  BY TypeOKIsRecords DEF IInv
<1>3. CASE Changed(d, Ended) /\ UNCHANGED run
  BY <1>1, <1>3, QueuedIsSane, WorkerStep
<1>4. CASE /\ over /\ run' = [run EXCEPT !.status = "cancelled"]
           /\ Changed(d, Ended)
  <2>1. run'.status = "cancelled" /\ run' \in RunRecords
    BY <1>2, <1>4 DEF RunRecords, RunStatuses
  <2>2. RunIsSane' /\ ResultIsSane'
    BY <1>1, <1>2, <1>4, <2>1 DEF RunIsSane, ResultIsSane, CostIsTotal
  <2>. QED
    BY <1>1, <1>2, <1>4, <2>1, <2>2, QueuedIsSane, RowsStep
<1>5. CASE /\ self.copy = "pending" /\ ~over
           /\ run' = [status |-> "running", generation |-> taken, fresh |-> TRUE]
           /\ \E packet \in SUBSET Evidence :
                 Changed(d, [Queued EXCEPT !.pc = "attempt", !.beating = TRUE,
                                           !.generation = taken, !.packet = packet])
  <2>1. PICK packet \in SUBSET Evidence :
           Changed(d, [Queued EXCEPT !.pc = "attempt", !.beating = TRUE,
                                     !.generation = taken, !.packet = packet])
    BY <1>5
  <2>. DEFINE new == [Queued EXCEPT !.pc = "attempt", !.beating = TRUE,
                                    !.generation = taken, !.packet = packet]
  <2>2. taken = 1
    BY <1>1, <1>2, <1>5 DEF Sane, Leased
  <2>3. /\ new.pc = "attempt" /\ new.generation = 1 /\ new.packet = packet /\ new.attempt = 0
        /\ new.asked = 0 /\ new.paid = 0 /\ new.usage = 0 /\ new.cut = 0 /\ ~new.lost
        /\ new.cap = StartTokens /\ new.outcome = NoOutcome
    BY <2>2 DEF Queued
  <2>4. new \in WorkerRecords
    <3>1. Queued \in WorkerRecords /\ taken \in Nat
      BY <2>2, QueuedIsSane
    <3>2. \A q \in WorkerRecords, g \in Nat :
             [q EXCEPT !.pc = "attempt", !.beating = TRUE, !.generation = g, !.packet = packet]
                \in WorkerRecords
      BY DEF WorkerRecords
    <3>. HIDE DEF taken
    <3>. QED
      BY <3>1, <3>2
  <2>. HIDE DEF new
  <2>5. /\ Counted(new) /\ Paid(new, setup) /\ Honest(new) /\ Leased(new)
        /\ Grounded(new.outcome, new.packet)
    BY <2>3, NoOutcomeIsSound DEF Counted, Paid, Honest, Leased, Busy
  <2>6. Widened(new)
    BY <2>3, SynthesisCallAssumption DEF Widened
  <2>7. Sane(new, setup)
    BY <2>4, <2>5, <2>6 DEF Sane
  <2>8. run'.status = "running" /\ run'.generation = 1 /\ run' \in RunRecords
    BY <1>5, <2>2 DEF RunRecords, RunStatuses
  <2>9. RunIsSane' /\ ResultIsSane'
    BY <1>1, <1>2, <1>5, <2>8 DEF RunIsSane, ResultIsSane, CostIsTotal
  <2>10. Known(new, run', over')
    BY <2>3, <2>8 DEF Known
  <2>. QED
    BY <1>1, <1>2, <2>1, <2>7, <2>8, <2>9, <2>10, RowsStep DEF new
<1>. QED
  BY <1>3, <1>4, <1>5 DEF LeaseRun

LEMMA BeginAttemptSane ==
    ASSUME IInv, NEW d \in Deliveries, BeginAttempt(d)
    PROVE  IInv'
<1>. DEFINE self == worker[d]
<1>1. /\ self.pc = "attempt" /\ UNCHANGED <<over, run, result, setup>>
  BY DEF BeginAttempt
<1>2. /\ Sane(self, setup) /\ Known(self, run, over)
      /\ setup \in {"ready", "disabled", "keyless", "unfit"}
  BY TypeOKIsRecords DEF IInv
<1>3. /\ self \in WorkerRecords /\ Counted(self) /\ Paid(self, setup) /\ Widened(self)
      /\ Honest(self) /\ Leased(self) /\ Grounded(self.outcome, self.packet)
  BY <1>2 DEF Sane
<1>4. /\ self.attempt \in 0 .. MaxAttempts - 1 /\ self.asked = self.attempt
      /\ self.paid \in 0 .. self.attempt /\ self.usage = self.paid /\ self.pc \in Busy
      /\ MaxAttempts \in Nat \ {0} /\ 0 \in 0 .. MaxAttempts /\ self.usage \in 0 .. MaxAttempts
  BY <1>1, <1>3, SynthesisCallAssumption DEF WorkerRecords, Counted, Paid, Busy
<1>5. ASSUME NEW o, NEW u \in 0 .. MaxAttempts, Changed(d, Returned(self, o, u)),
             o \in Outcomes, Grounded(o, self.packet),
             o.error = "request_cancelled" => self.lost,
             u = self.paid \/ self.lost \/ o = InputInvalid
      PROVE  IInv'
  <2>1. /\ Sane(Returned(self, o, u), setup)
        /\ Known(self, run, over) => Known(Returned(self, o, u), run, over)
    BY <1>3, <1>4, <1>5, ReturnedIsSane
  <2>. QED
    BY <1>1, <1>2, <1>5, <2>1, WorkerStep
<1>6. CASE setup = "disabled"
  <2>. DEFINE o == Failure("skipped_configuration", "grounded_synthesis_disabled")
  <2>1. Changed(d, Returned(self, o, 0))
    BY <1>6 DEF BeginAttempt
  <2>2. SoundOutcome(o, self.packet)
    BY ErrorsAreSound DEF Errors
  <2>3. self.paid = 0
    BY <1>1, <1>3, <1>4, <1>6 DEF Paid
  <2>. HIDE DEF o
  <2>. QED
    BY <1>4, <1>5, <2>1, <2>2, <2>3 DEF SoundOutcome
<1>7. CASE setup # "disabled" /\ self.lost
  <2>1. Changed(d, Returned(self, Cancelled, 0))
    BY <1>7 DEF BeginAttempt
  <2>. QED
    BY <1>4, <1>5, <1>7, <2>1, CancelledIsSound
<1>8. CASE setup = "unfit" /\ ~self.lost
  <2>1. Changed(d, Returned(self, InputInvalid, 0))
    BY <1>8 DEF BeginAttempt
  <2>2. SoundOutcome(InputInvalid, self.packet)
    BY ErrorsAreSound DEF Errors, InputInvalid
  <2>. QED
    BY <1>4, <1>5, <2>1, <2>2 DEF SoundOutcome
<1>9. CASE /\ setup \in {"ready", "keyless"} /\ ~self.lost
           /\ (self.packet = {} \/ setup = "keyless")
  <2>. DEFINE o == NothingToAsk(self.packet)
  <2>1. Changed(d, Returned(self, o, self.usage))
    BY <1>9 DEF BeginAttempt
  <2>2. SoundOutcome(o, self.packet)
    BY ErrorsAreSound DEF NothingToAsk, Errors
  <2>. HIDE DEF o
  <2>. QED
    BY <1>4, <1>5, <2>1, <2>2 DEF SoundOutcome
<1>10. CASE setup = "ready" /\ ~self.lost /\ self.packet # {}
  <2>. DEFINE new == [self EXCEPT !.pc = "asking", !.asked = self.asked + 1]
  <2>1. Changed(d, new)
    BY <1>10 DEF BeginAttempt
  <2>2. self.asked + 1 \in 0 .. MaxAttempts
    BY <1>4
  <2>3. /\ new.pc = "asking" /\ new.asked = self.asked + 1 /\ new.outcome = self.outcome
        /\ new.usage = self.usage /\ new.paid = self.paid /\ new.lost = self.lost
        /\ new.attempt = self.attempt /\ new.cap = self.cap /\ new.cut = self.cut
        /\ new.clean = self.clean /\ new.beating = self.beating /\ new.packet = self.packet
        /\ new.generation = self.generation /\ new \in WorkerRecords
    BY <1>3, <2>2 DEF WorkerRecords
  <2>. HIDE DEF new
  <2>4. Counted(new) /\ Paid(new, setup)
    BY <1>1, <1>3, <1>4, <1>10, <2>3 DEF Counted, Paid
  <2>5. Widened(new) /\ Honest(new) /\ Leased(new)
    BY <1>1, <1>3, <1>4, <2>3 DEF Widened, Honest, Leased, Busy
  <2>6. Sane(new, setup)
    BY <1>3, <2>3, <2>4, <2>5 DEF Sane
  <2>7. Known(new, run, over)
    BY <1>2, <1>4, <2>3 DEF Known
  <2>. QED
    BY <1>1, <2>1, <2>6, <2>7, WorkerStep
<1>. QED
  BY <1>2, <1>6, <1>7, <1>8, <1>9, <1>10

LEMMA AnsweredSane ==
    ASSUME IInv, NEW d \in Deliveries, Answered(d)
    PROVE  IInv'
<1>1. PICK a \in Answers :
         LET self == [worker[d] EXCEPT !.paid = @ + Cost(a)]
             outcome == Outcome(a, self.packet)
         IN Changed(d, IF outcome = InputInvalid THEN Returned(self, outcome, 0)
                       ELSE Judge(self, outcome, IF outcome = Unexpected THEN 0 ELSE Cost(a)))
  BY DEF Answered
<1>. DEFINE old == worker[d]
            told == Cost(a)
            self == [old EXCEPT !.paid = old.paid + told]
            outcome == Outcome(a, self.packet)
            cost == IF outcome = Unexpected THEN 0 ELSE told
<1>2. old.pc = "asking" /\ UNCHANGED <<over, run, result, setup>>
  BY DEF Answered
<1>3. /\ Sane(old, setup) /\ Known(old, run, over) /\ old \in WorkerRecords
      /\ setup \in {"ready", "disabled", "keyless", "unfit"}
  BY TypeOKIsRecords DEF IInv, Sane
<1>4. told \in {0, 1} /\ cost \in {0, 1}
  BY DEF Cost
<1>5. self.packet = old.packet /\ old.packet \in SUBSET Evidence /\ self.pc = old.pc
  BY <1>3 DEF WorkerRecords
<1>6. outcome \in Outcomes /\ Grounded(outcome, old.packet) /\ outcome.error # "request_cancelled"
  BY <1>5, OutcomeIsSound DEF SoundOutcome
<1>7. Changed(d, IF outcome = InputInvalid THEN Returned(self, outcome, 0)
                 ELSE Judge(self, outcome, cost))
  BY <1>1
<1>8. cost = told \/ (cost = 0 /\ outcome = Unexpected)
  OBVIOUS
<1>9. self = [old EXCEPT !.paid = @ + told]
  OBVIOUS
<1>. HIDE DEF told, outcome, cost, self
<1>10. /\ self \in WorkerRecords /\ Leased(self)
       /\ Sane(Judge(self, outcome, cost), setup)
       /\ Known(old, run, over) => Known(Judge(self, outcome, cost), run, over)
  BY <1>2, <1>3, <1>4, <1>6, <1>8, <1>9, JudgeIsSane
<1>11. CASE outcome = InputInvalid
  <2>1. self.pc \in Busy /\ Known(self, run, over) /\ 0 \in 0 .. MaxAttempts
    BY <1>2, <1>3, <1>5, <1>9, SynthesisCallAssumption DEF Busy, Known, WorkerRecords
  <2>2. Sane(Returned(self, outcome, 0), setup) /\ Known(Returned(self, outcome, 0), run, over)
    BY <1>5, <1>6, <1>10, <1>11, <2>1, ReturnedIsSane
  <2>. QED
    BY <1>2, <1>7, <1>11, <2>2, WorkerStep
<1>12. CASE outcome # InputInvalid
  BY <1>2, <1>3, <1>7, <1>10, <1>12, WorkerStep
<1>. QED
  BY <1>11, <1>12

LEMMA CancelRequestSane ==
    ASSUME IInv, NEW d \in Deliveries, CancelRequest(d)
    PROVE  IInv'
<1>. DEFINE old == worker[d]
<1>1. /\ old.pc = "asking" /\ old.lost /\ Changed(d, Judge(old, Cancelled, 0))
      /\ UNCHANGED <<over, run, result, setup>>
  BY DEF CancelRequest
<1>2. /\ Sane(old, setup) /\ Known(old, run, over) /\ old \in WorkerRecords
      /\ setup \in {"ready", "disabled", "keyless", "unfit"}
  BY TypeOKIsRecords DEF IInv, Sane
<1>3. old = [old EXCEPT !.paid = @ + 0]
  BY <1>2 DEF WorkerRecords
<1>4. /\ Sane(Judge(old, Cancelled, 0), setup)
      /\ Known(old, run, over) => Known(Judge(old, Cancelled, 0), run, over)
  BY <1>1, <1>2, <1>3, CancelledIsSound, JudgeIsSane
<1>. QED
  BY <1>1, <1>2, <1>4, WorkerStep

LEMMA WaitOverSane ==
    ASSUME IInv, NEW d \in Deliveries, WaitOver(d)
    PROVE  IInv'
<1>. DEFINE self == worker[d]
<1>1. self.pc = "waiting" /\ UNCHANGED <<over, run, result, setup>>
  BY DEF WaitOver
<1>2. /\ Sane(self, setup) /\ Known(self, run, over)
  BY DEF IInv
<1>3. /\ self \in WorkerRecords /\ Counted(self) /\ Paid(self, setup) /\ Widened(self)
      /\ Honest(self) /\ Leased(self) /\ Grounded(self.outcome, self.packet)
  BY <1>2 DEF Sane
<1>4. /\ self.attempt \in 0 .. MaxAttempts - 1 /\ self.attempt + 1 < MaxAttempts
      /\ self.asked = self.attempt + 1 /\ self.paid \in 0 .. self.attempt + 1
      /\ self.usage = self.paid /\ self.pc \in Busy /\ MaxAttempts \in Nat
      /\ self.usage \in 0 .. MaxAttempts /\ self.outcome \in Outcomes
  BY <1>1, <1>3, SynthesisCallAssumption DEF WorkerRecords, Counted, Paid, Busy
<1>5. CASE self.lost
  <2>1. Changed(d, Returned(self, self.outcome, self.usage))
    BY <1>5 DEF WaitOver
  <2>2. /\ Sane(Returned(self, self.outcome, self.usage), setup)
        /\ Known(self, run, over) => Known(Returned(self, self.outcome, self.usage), run, over)
    BY <1>3, <1>4, <1>5, ReturnedIsSane
  <2>. QED
    BY <1>1, <1>2, <2>1, <2>2, WorkerStep
<1>6. CASE ~self.lost
  <2>. DEFINE new == [self EXCEPT !.pc = "attempt", !.attempt = self.attempt + 1,
                                  !.outcome = NoOutcome]
  <2>1. Changed(d, new)
    BY <1>6 DEF WaitOver
  <2>2. self.attempt + 1 \in 0 .. MaxAttempts - 1
    BY <1>4
  <2>3. /\ new.pc = "attempt" /\ new.outcome = NoOutcome /\ new.usage = self.usage
        /\ new.paid = self.paid /\ new.asked = self.asked /\ new.lost = self.lost
        /\ new.attempt = self.attempt + 1 /\ new.cap = self.cap /\ new.cut = self.cut
        /\ new.clean = self.clean /\ new.packet = self.packet
        /\ new.generation = self.generation /\ new \in WorkerRecords
    BY <1>3, <2>2, NoOutcomeIsSound DEF WorkerRecords
  <2>. HIDE DEF new
  <2>4. Counted(new) /\ Paid(new, setup) /\ Honest(new) /\ Leased(new)
    BY <1>1, <1>3, <1>4, <2>3, NoOutcomeIsSound DEF Counted, Paid, Honest, Leased, Busy
  <2>5. Widened(new)
    <3>1. self.attempt + 1 + 1 = MaxAttempts => self.attempt + 2 = MaxAttempts
      BY <1>4
    <3>. QED
      BY <1>1, <1>3, <2>3, <3>1 DEF Widened
  <2>6. Sane(new, setup)
    BY <2>3, <2>4, <2>5, NoOutcomeIsSound DEF Sane
  <2>7. Known(new, run, over)
    BY <1>2, <1>4, <2>3 DEF Known
  <2>. QED
    BY <1>1, <2>1, <2>6, <2>7, WorkerStep
<1>. QED
  BY <1>5, <1>6

LEMMA StoreSane ==
    ASSUME IInv, NEW d \in Deliveries, Store(d)
    PROVE  IInv'
<1>. DEFINE self == worker[d]
<1>1. self.pc = "done" /\ Changed(d, Ended) /\ UNCHANGED setup
  BY DEF Store
<1>2. /\ Sane(self, setup) /\ Known(self, run, over) /\ run \in RunRecords /\ over \in BOOLEAN
  BY TypeOKIsRecords DEF IInv
<1>3. CASE Stale(run, over, self.generation)
  BY <1>1, <1>3, QueuedIsSane, WorkerStep DEF Store
<1>4. CASE ~Stale(run, over, self.generation)
  <2>1. /\ run' = [run EXCEPT !.status = "settled", !.fresh = FALSE]
        /\ result' = [outcome |-> self.outcome, usage |-> self.usage, paid |-> self.paid,
                      packet |-> self.packet]
        /\ over' = TRUE
    BY <1>4 DEF Store
  <2>2. ~self.lost
    BY <1>2, <1>4 DEF Known, Stale
  <2>3. /\ run'.status = "settled" /\ run' \in RunRecords /\ result' \in ResultRecords
    BY <1>2, <2>1 DEF RunRecords, RunStatuses, ResultRecords, Sane, WorkerRecords
  <2>4. RunIsSane'
    BY <2>1, <2>3 DEF RunIsSane
  <2>5. /\ result'.outcome = self.outcome /\ result'.usage = self.usage
        /\ result'.paid = self.paid /\ result'.packet = self.packet
    BY <2>1
  <2>6. ResultIsSane'
    <3>1. /\ result'.outcome.error # "request_cancelled"
          /\ Grounded(result'.outcome, result'.packet)
      BY <1>2, <2>2, <2>5 DEF Sane, Honest
    <3>2. CostIsTotal'
      BY <1>1, <1>2, <2>2, <2>5 DEF Sane, Paid, CostIsTotal
    <3>. QED
      BY <2>1, <3>1, <3>2 DEF ResultIsSane
  <2>. QED
    BY <1>1, <1>2, <2>1, <2>3, <2>4, <2>6, QueuedIsSane, RowsStep
<1>. QED
  BY <1>3, <1>4

LEMMA CrashSane ==
    ASSUME IInv, NEW d \in Deliveries, Crash(d)
    PROVE  IInv'
BY QueuedIsSane, WorkerStep DEF Crash

LEMMA BeatSane ==
    ASSUME IInv, NEW d \in Deliveries, Beat(d)
    PROVE  IInv'
<1>. DEFINE self == worker[d]
            new == [self EXCEPT !.lost = TRUE]
<1>1. self.beating /\ UNCHANGED <<over, result, setup>>
  BY DEF Beat
<1>2. /\ Sane(self, setup) /\ Known(self, run, over) /\ self \in WorkerRecords
      /\ run \in RunRecords /\ result \in ResultRecords /\ over \in BOOLEAN
      /\ RunIsSane /\ ResultIsSane
  BY TypeOKIsRecords DEF IInv, Sane
<1>3. self.pc \in Busy /\ self.generation = 1
  BY <1>1, <1>2 DEF Sane, Honest, Leased
<1>4. CASE Stale(run, over, self.generation)
  <2>1. Changed(d, new) /\ run' = run
    BY <1>4 DEF Beat
  <2>2. over
    BY <1>2, <1>3, <1>4 DEF Stale, Known, RunIsSane
  <2>3. /\ new \in WorkerRecords /\ new.pc = self.pc /\ new.lost /\ new.outcome = self.outcome
        /\ new.attempt = self.attempt /\ new.usage = self.usage /\ new.cap = self.cap
        /\ new.cut = self.cut /\ new.clean = self.clean /\ new.beating = self.beating
        /\ new.asked = self.asked /\ new.paid = self.paid /\ new.packet = self.packet
        /\ new.generation = self.generation /\ new.copy = self.copy
    BY <1>2 DEF WorkerRecords
  <2>. HIDE DEF new
  <2>4. /\ Counted(new) /\ Paid(new, setup) /\ Widened(new) /\ Honest(new) /\ Leased(new)
    BY <1>2, <1>3, <2>3 DEF Sane, Counted, Paid, Widened, Honest, Leased
  <2>5. Sane(new, setup)
    BY <1>2, <2>3, <2>4 DEF Sane
  <2>6. Known(new, run, over)
    BY <1>2, <2>2, <2>3 DEF Known
  <2>. QED
    BY <1>1, <2>1, <2>5, <2>6, WorkerStep
<1>5. CASE ~Stale(run, over, self.generation)
  <2>1. run' = [run EXCEPT !.fresh = TRUE] /\ UNCHANGED worker
    BY <1>5 DEF Beat
  <2>2. run' \in RunRecords /\ run'.status = run.status /\ run'.generation = run.generation
    BY <1>2, <2>1 DEF RunRecords
  <2>3. RunIsSane' /\ ResultIsSane'
    BY <1>1, <1>2, <2>2 DEF RunIsSane, ResultIsSane, CostIsTotal
  <2>4. Changed(d, Ended) => Sane(Ended, setup) /\ Known(Ended, run', over')
    BY QueuedIsSane
  <2>. QED
    BY <1>1, <1>2, <2>1, <2>2, <2>3, <2>4, RowsStep
<1>. QED
  BY <1>4, <1>5

\* The reconciler, the clock and the owner.
LEMMA MaintenanceSane ==
    ASSUME IInv, LeaseRunsOut \/ Reclaim \/ Stop \/ Delete
    PROVE  IInv'
<1>1. /\ run \in RunRecords /\ result \in ResultRecords /\ over \in BOOLEAN
      /\ RunIsSane /\ ResultIsSane /\ UNCHANGED <<setup, worker>>
  BY TypeOKIsRecords DEF IInv, LeaseRunsOut, Reclaim, Stop, Delete
<1>2. /\ over' \in BOOLEAN /\ (over => over') /\ run' \in RunRecords /\ result' \in ResultRecords
      /\ (run'.status # "pending" \/ run.status = "pending") /\ RunIsSane' /\ ResultIsSane'
  <2>1. CASE LeaseRunsOut
    <3>1. run' = [run EXCEPT !.fresh = FALSE] /\ UNCHANGED <<over, result>>
      BY <2>1 DEF LeaseRunsOut
    <3>2. run' \in RunRecords /\ run'.status = run.status /\ run'.generation = run.generation
      BY <1>1, <3>1 DEF RunRecords
    <3>. QED
      BY <1>1, <3>1, <3>2 DEF RunIsSane, ResultIsSane, CostIsTotal
  <2>2. CASE Reclaim
    <3>1. /\ run' = [run EXCEPT !.status = "settled"] /\ over' = TRUE
          /\ result' = [NoResult EXCEPT !.outcome = LeaseExpired]
      BY <2>2 DEF Reclaim
    <3>2. run' \in RunRecords /\ run'.status = "settled"
      BY <1>1, <3>1 DEF RunRecords, RunStatuses
    <3>3. SoundOutcome(LeaseExpired, {})
      BY ErrorsAreSound DEF LeaseExpired, Errors
    <3>4. result'.outcome = LeaseExpired /\ result'.packet = {} /\ result' \in ResultRecords
      BY <3>1, <3>3, SynthesisCallAssumption DEF NoResult, ResultRecords, SoundOutcome
    <3>. QED
      BY <3>1, <3>2, <3>3, <3>4 DEF RunIsSane, ResultIsSane, CostIsTotal, SoundOutcome
  <2>3. CASE Stop
    <3>1. /\ ~over /\ over' = TRUE /\ result' = result
          /\ \/ run' = run /\ run.status \notin {"pending", "running"}
             \/ run' = [run EXCEPT !.status = "cancelled", !.fresh = FALSE]
      BY <2>3 DEF Stop
    <3>2. run' \in RunRecords /\ run'.status \notin {"pending", "running"}
      BY <1>1, <3>1 DEF RunRecords, RunStatuses
    <3>. QED
      BY <1>1, <3>1, <3>2 DEF RunIsSane, ResultIsSane, CostIsTotal
  <2>4. CASE Delete
    <3>1. /\ run' = [status |-> "gone", generation |-> 0, fresh |-> FALSE] /\ over' = TRUE
          /\ result' = NoResult
      BY <2>4 DEF Delete
    <3>2. run' \in RunRecords /\ run'.status = "gone"
      BY <3>1 DEF RunRecords, RunStatuses
    <3>3. result' \in ResultRecords
      BY <3>1, NoOutcomeIsSound, SynthesisCallAssumption DEF NoResult, ResultRecords
    <3>. QED
      BY <3>1, <3>2, <3>3, NoOutcomeIsSound DEF RunIsSane, ResultIsSane, CostIsTotal, NoResult
  <2>. QED
    BY <2>1, <2>2, <2>3, <2>4
<1>3. TypeOK'
  BY <1>1, <1>2, TypeOKIsRecords DEF IInv, TypeOK, RunRecords, ResultRecords
<1>4. \A d \in Deliveries : Sane(worker'[d], setup') /\ Known(worker'[d], run', over')
  BY <1>1, <1>2 DEF IInv, Known
<1>. QED
  BY <1>2, <1>3, <1>4 DEF IInv

LEMMA StutterSane ==
    ASSUME IInv, UNCHANGED vars
    PROVE  IInv'
BY DEF vars, IInv, TypeOK, RunIsSane, ResultIsSane, CostIsTotal

LEMMA NextSane == IInv /\ [Next]_vars => IInv'
<1>. SUFFICES ASSUME IInv, [Next]_vars PROVE IInv'
  OBVIOUS
<1>1. CASE UNCHANGED vars
  BY <1>1, StutterSane
<1>2. CASE LeaseRunsOut \/ Reclaim \/ Stop \/ Delete
  BY <1>2, MaintenanceSane
<1>3. CASE \E d \in Deliveries :
              Receive(d) \/ LeaseRun(d) \/ BeginAttempt(d) \/ Answered(d)
              \/ CancelRequest(d) \/ WaitOver(d) \/ Store(d) \/ Crash(d) \/ Beat(d)
  BY <1>3, ReceiveSane, LeaseRunSane, BeginAttemptSane, AnsweredSane, CancelRequestSane,
     WaitOverSane, StoreSane, CrashSane, BeatSane
<1>. QED
  BY <1>1, <1>2, <1>3 DEF Next

\* The invariant holds in every state.
THEOREM CallIsSane == Spec => []IInv
BY InitSane, NextSane, PTL DEF Spec

-----------------------------------------------------------------------------
(* The theorems. *)

\* Rows and workers are well formed in every state.
THEOREM TypeCorrect == Spec => []TypeOK
<1>1. IInv => TypeOK
  BY DEF IInv
<1>. QED
  BY <1>1, CallIsSane, PTL

\* However the task is redelivered and the run reclaimed, only deliveries that
\* read the run before its first lease ask, each max_attempts times at the
\* most and none once it was told of the loss.
THEOREM AskedIsBounded == Spec => AskedNoMoreThanAllowed
<1>. DEFINE Allowed == \A d \in Deliveries : worker'[d].asked > worker[d].asked =>
                          /\ worker'[d].asked <= MaxAttempts
                          /\ worker[d].generation = 1
                          /\ ~worker[d].lost
<1>1. ASSUME IInv, [Next]_vars
      PROVE  Allowed
  <2>. SUFFICES ASSUME NEW e \in Deliveries, worker'[e].asked > worker[e].asked
                PROVE  worker'[e].asked <= MaxAttempts /\ worker[e].generation = 1
                       /\ ~worker[e].lost
    OBVIOUS
  <2>1. worker \in [Deliveries -> WorkerRecords] /\ worker' \in [Deliveries -> WorkerRecords]
    BY <1>1, NextSane, TypeOKIsRecords DEF IInv, TypeOK, WorkerRecords
  <2>2. worker'[e].asked \in 0 .. MaxAttempts /\ worker[e].asked \in 0 .. MaxAttempts
    BY <2>1 DEF WorkerRecords
  <2>3. ~(UNCHANGED worker)
    BY <2>2, SynthesisCallAssumption
  <2>4. ASSUME NEW new, Changed(e, new), new.asked = 0 \/ new.asked = worker[e].asked
        PROVE  FALSE
    BY <2>1, <2>2, <2>4, SynthesisCallAssumption DEF Changed
  <2>5. Ended.asked = 0 /\ Queued.asked = 0
    BY DEF Ended, Queued
  <2>6. PICK d \in Deliveries :
           Receive(d) \/ LeaseRun(d) \/ BeginAttempt(d) \/ Answered(d)
           \/ CancelRequest(d) \/ WaitOver(d) \/ Store(d) \/ Crash(d) \/ Beat(d)
    BY <1>1, <2>3 DEF Next, vars, LeaseRunsOut, Reclaim, Stop, Delete
  <2>7. d = e
    <3>1. \E new : Changed(d, new)
      BY <2>3, <2>6 DEF Receive, LeaseRun, BeginAttempt, Answered, CancelRequest, WaitOver, Store,
                       Crash, Beat
    <3>2. d # e => worker'[e] = worker[e]
      BY <2>1, <3>1 DEF Changed
    <3>. QED
      BY <2>2, <3>2, SynthesisCallAssumption
  <2>8. Sane(worker[e], setup) /\ worker[e] \in WorkerRecords
    BY <1>1, <2>1 DEF IInv
  <2>9. \A self \in WorkerRecords : \A o, u : Returned(self, o, u).asked = self.asked
    BY DEF Returned, WorkerRecords
  <2>10. \A self \in WorkerRecords : \A o, c : Judge(self, o, c).asked = self.asked
    BY <2>9 DEF Judge, WorkerRecords
  <2>11. CASE BeginAttempt(e)
    <3>1. worker[e].pc = "attempt"
      BY <2>11 DEF BeginAttempt
    <3>2. worker[e].generation = 1
      BY <2>8, <3>1 DEF Sane, Leased, Busy
    <3>3. ~worker[e].lost
      <4>. SUFFICES ASSUME worker[e].lost PROVE FALSE
        OBVIOUS
      <4>1. \E o, u : Changed(e, Returned(worker[e], o, u))
        BY <2>11 DEF BeginAttempt
      <4>. QED
        BY <2>4, <2>8, <2>9, <4>1
    <3>. QED
      BY <2>2, <3>2, <3>3, SynthesisCallAssumption
  <2>12. CASE Receive(e)
    BY <2>4, <2>5, <2>8, <2>12 DEF Receive, WorkerRecords
  <2>13. CASE LeaseRun(e)
    BY <2>4, <2>5, <2>13 DEF LeaseRun, Queued
  <2>14. CASE Answered(e)
    <3>1. PICK a \in Answers :
             LET self == [worker[e] EXCEPT !.paid = @ + Cost(a)]
                 outcome == Outcome(a, self.packet)
             IN Changed(e, IF outcome = InputInvalid THEN Returned(self, outcome, 0)
                           ELSE Judge(self, outcome, IF outcome = Unexpected THEN 0 ELSE Cost(a)))
      BY <2>14 DEF Answered
    <3>. DEFINE self == [worker[e] EXCEPT !.paid = @ + Cost(a)]
    <3>2. \A o, u : Returned(self, o, u).asked = worker[e].asked
      BY <2>8 DEF Returned, WorkerRecords
    <3>3. \A o, c : Judge(self, o, c).asked = worker[e].asked
      BY <2>8, <3>2 DEF Judge, WorkerRecords
    <3>. HIDE DEF self
    <3>4. \/ \E o, u : Changed(e, Returned(self, o, u))
          \/ \E o, c : Changed(e, Judge(self, o, c))
      BY <3>1 DEF self
    <3>. QED
      BY <2>4, <3>2, <3>3, <3>4
  <2>15. CASE CancelRequest(e)
    BY <2>4, <2>8, <2>10, <2>15 DEF CancelRequest
  <2>16. CASE WaitOver(e)
    <3>1. [worker[e] EXCEPT !.pc = "attempt", !.attempt = @ + 1, !.outcome = NoOutcome].asked
             = worker[e].asked
      BY <2>8 DEF WorkerRecords
    <3>. QED
      BY <2>4, <2>8, <2>9, <2>16, <3>1 DEF WaitOver
  <2>17. CASE Store(e) \/ Crash(e)
    BY <2>4, <2>5, <2>17 DEF Store, Crash
  <2>18. CASE Beat(e)
    <3>1. [worker[e] EXCEPT !.lost = TRUE].asked = worker[e].asked
      BY <2>8 DEF WorkerRecords
    <3>. QED
      BY <2>3, <2>4, <2>18, <3>1 DEF Beat
  <2>. QED
    BY <2>6, <2>7, <2>11, <2>12, <2>13, <2>14, <2>15, <2>16, <2>17, <2>18
<1>. QED
  BY <1>1, CallIsSane, PTL DEF Spec, AskedNoMoreThanAllowed

\* After an answer that was cut off the worker asks with a wider budget, and
\* with the whole of it in its last attempt, whatever the budgets are.
THEOREM BudgetWidens == Spec => []NeverCutTwiceAlike
<1>1. IInv => NeverCutTwiceAlike
  BY DEF IInv, Sane, Widened, NeverCutTwiceAlike
<1>. QED
  BY <1>1, CallIsSane, PTL

\* A stored story cites nothing but the packet its worker was leased the run with.
THEOREM CitesItsPacket == Spec => []StoryIsGrounded
<1>1. IInv => StoryIsGrounded
  BY DEF IInv, ResultIsSane, Grounded, StoryIsGrounded
<1>. QED
  BY <1>1, CallIsSane, PTL

\* A worker that gave up because it lost its run never gets it back, and does
\* not store that it was cancelled.
THEOREM LostIsLost == Spec => []LossIsFinal
<1>1. IInv => LossIsFinal
  BY DEF IInv, Known, ResultIsSane, LossIsFinal
<1>. QED
  BY <1>1, CallIsSane, PTL

\* The cost of a stored outcome is that of every answer its worker got, unless
\* the runner raised.
THEOREM EveryAnswerIsPaid == Spec => []CostIsTotal
<1>1. IInv => CostIsTotal
  BY DEF IInv, ResultIsSane
<1>. QED
  BY <1>1, CallIsSane, PTL

\* Of several deliveries and the reconciler one stores the result, and none
\* does for a job that is over.
THEOREM StoredOnce == Spec => WrittenOnce
<1>1. ASSUME IInv, [Next]_vars, result' # result
      PROVE  (result = NoResult /\ ~over) \/ run'.status = "gone"
  <2>1. ~over => result = NoResult
    BY <1>1 DEF IInv, ResultIsSane
  <2>2. CASE Reclaim
    BY <1>1, <2>1, <2>2 DEF Reclaim, IInv, RunIsSane
  <2>3. ASSUME NEW d \in Deliveries, Store(d)
        PROVE  ~over
    BY <1>1, <2>3 DEF Store, Stale
  <2>4. CASE \E d \in Deliveries :
                Receive(d) \/ LeaseRun(d) \/ BeginAttempt(d) \/ Answered(d) \/ CancelRequest(d)
                \/ WaitOver(d) \/ Crash(d) \/ Beat(d)
    BY <1>1, <2>4 DEF Receive, LeaseRun, BeginAttempt, Answered, CancelRequest, WaitOver, Crash,
                     Beat
  <2>5. CASE LeaseRunsOut \/ Stop
    BY <1>1, <2>5 DEF LeaseRunsOut, Stop
  <2>6. CASE Delete
    BY <2>6 DEF Delete
  <2>. QED
    BY <1>1, <2>1, <2>2, <2>3, <2>4, <2>5, <2>6 DEF Next, vars
<1>. QED
  BY <1>1, CallIsSane, PTL DEF Spec, WrittenOnce

=============================================================================
