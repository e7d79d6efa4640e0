---------------------------- MODULE SynthesisCall ----------------------------
(***************************************************************************)
(* One grounded synthesis run of a Deep job from its lease to its stored   *)
(* result: the deliveries of its task, each of which may take the lease    *)
(* and ask the language model, up to max_attempts times and with a wider   *)
(* output budget after a truncated answer; the heartbeat thread beside     *)
(* each, which renews the lease and notices that the run was lost; the     *)
(* reconciler, which closes a run whose lease ran out; and the owner, who  *)
(* stops or deletes the job.                                               *)
(*                                                                         *)
(* A delivery decides whether to lease from the copy of the run it read    *)
(* before it had the job's lock, so two deliveries may both take the first *)
(* lease and both ask.                                                     *)
(*                                                                         *)
(* FootprintDiscovery has this run as one step of a job; here the job is   *)
(* reduced to whether it is over.                                          *)
(***************************************************************************)
EXTENDS Naturals

CONSTANTS
    Deliveries,   \* the times the run's task is handed to a worker
    Evidence,     \* the job's source observations
    Gateway,      \* "openai" or "openrouter", snapshotted in query_config
    MaxAttempts,  \* query_config max_attempts
    StartTokens,  \* query_config max_output_tokens
    Ceiling,      \* _MAX_OUTPUT_TOKEN_CEILING
    Answers       \* what the gateway may answer

ASSUME SynthesisCallAssumption ==
    /\ Gateway \in {"openai", "openrouter"}
    /\ MaxAttempts \in Nat \ {0}
    /\ StartTokens \in Nat \ {0} /\ Ceiling \in Nat /\ StartTokens <= Ceiling
    /\ "invented" \notin Evidence

VARIABLES
    over,    \* the job is terminal, or deleted
    run,     \* the ProviderRun
    result,  \* the GroundedSynthesisResult
    setup,   \* what settings and configuration allow the worker
    worker   \* each delivery's worker, with its heartbeat

vars == <<over, run, result, setup, worker>>

-----------------------------------------------------------------------------
(* What the gateway may answer *)

ErrorTypes == {"absent", "permission_denied", "rate_limit_exceeded", "timeout",
               "provider_overloaded", "content_policy"}

HttpCodes == {400, 401, 402, 408, 429, 500}

\* What an output document may have wrong with it besides its citations.
\* Contact data stands for the flaws that are looked for after the citations
\* and treated like it: an unknown URL or account, an account that was changed.
Flaws == {"none", "output_schema_invalid", "output_schema_version_invalid",
          "output_contains_contact_data"}

\* What the message parts of a response hold.  "scalar" and "pairs" are JSON
\* texts that are no object: those dict(value) refuses (TypeError, ValueError),
\* and those it takes (an empty list, or one of pairs), which have no get.
Parts ==
    [body : {"missing", "refusal", "empty", "garbled", "scalar", "pairs"}, cites : {{}},
     flaw : {"none"}]
    \cup [body : {"document"}, cites : SUBSET (Evidence \cup {"invented"}), flaw : Flaws]

NoParts == [body |-> "missing", cites |-> {}, flaw |-> "none"]

\* A response of the Responses API: its status, why it is incomplete, the
\* gateway's error, whether it reports its cost, and its message parts.
Replies ==
    [kind : {"reply"}, status : {"completed"}, type : {"absent"}, error : {FALSE},
     reason : {"none"}, used : BOOLEAN,
     parts : Parts]
    \cup
    [kind : {"reply"}, status : {"incomplete", "failed"}, type : ErrorTypes, error : BOOLEAN,
     reason : {"max_output_tokens", "content_filter"}, used : BOOLEAN, parts : {NoParts}]

AnswerSpace ==
    Replies \cup [kind : {"http"}, code : HttpCodes, type : ErrorTypes]
            \cup [kind : {"timed out", "broken", "envelope", "no json", "no object"}]

ASSUME AnswersAssumption == Answers \subseteq AnswerSpace

\* Nothing is known of a failure but its status and code.
Failure(status, error) ==
    [status |-> status, error |-> error, cites |-> {}]

Cancelled == Failure("provider_error", "request_cancelled")

LeaseExpired == Failure("provider_error", "grounded_synthesis_lease_expired_ambiguous")

\* _openrouter_error_type_failure
TypedFailure(type) ==
    CASE type = "permission_denied" -> Failure("auth_required", type)
      [] type = "rate_limit_exceeded" -> Failure("rate_limited", type)
      [] type = "timeout" -> Failure("timeout", type)
      [] type = "provider_overloaded" -> Failure("provider_error", type)
      [] OTHER -> Failure("invalid_response", type)

\* A typed error is only looked for in OpenRouter's answers.
Typed(a) == Gateway = "openrouter" /\ a.type # "absent"

\* _http_failure
HttpFailure(code) ==
    CASE code = 401 -> Failure("auth_required", "auth_required")
      [] code = 402 /\ Gateway = "openrouter" -> Failure("auth_required", "payment_required")
      [] code = 429 -> Failure("rate_limited", "rate_limited")
      [] code = 408 -> Failure("timeout", "request_timeout")
      [] code >= 500 -> Failure("provider_error", "unavailable")
      [] OTHER -> Failure("invalid_response", "unexpected_status")

Document(doc) == [status |-> "success", error |-> "none", cites |-> doc.cites]

\* validate_grounded_synthesis: the schema first, then the citations, then the rest.

Validate(doc, packet) ==
    IF /\ doc.flaw \notin {"output_schema_invalid", "output_schema_version_invalid"}
       /\ ~(doc.cites \subseteq packet)
    THEN Failure("invalid_response", "output_unknown_source_id")
    ELSE IF doc.flaw # "none" THEN Failure("invalid_response", doc.flaw)
    ELSE Document(doc)

Truncated == "incomplete_max_output_tokens"

\* What _execute_synthesis makes of an exception of the runner: a TypeError or
\* ValueError ends the call, any other is an outcome without usage.
InputInvalid == Failure("invalid_response", "grounded_synthesis_input_invalid")

Unexpected == Failure("provider_error", "grounded_synthesis_unexpected_failure")

\* _parse_response.  What _normalize_v4_extensions raises is caught nowhere
\* below _execute_synthesis.
ParseResponse(a, packet) ==
    IF a.status # "completed"
    THEN IF Typed(a) THEN TypedFailure(a.type)
         ELSE IF a.status = "incomplete"
         THEN Failure("invalid_response",
                      IF a.reason = "max_output_tokens" THEN Truncated ELSE "incomplete_content_filter")
         ELSE IF a.error THEN Failure("provider_error", "response_error")
         ELSE Failure("invalid_response", "response_unexpected_status")
    ELSE
    CASE a.parts.body = "missing" -> Failure("invalid_response", "response_output_missing")
      [] a.parts.body = "refusal" -> Failure("invalid_response", "response_refusal")
      [] a.parts.body = "empty" -> Failure("invalid_response", "response_text_missing")
      [] a.parts.body = "garbled" -> Failure("invalid_response", "output_invalid_json")
      [] a.parts.body = "scalar" -> InputInvalid
      [] a.parts.body = "pairs" -> Unexpected
      [] OTHER -> Validate(a.parts, packet)

\* request_grounded_synthesis, from the answer on
Outcome(a, packet) ==
    CASE a.kind = "timed out" -> Failure("timeout", "request_timeout")
      [] a.kind = "broken" -> Failure("provider_error", "network_error")
      [] a.kind = "http" -> IF Typed(a) THEN TypedFailure(a.type) ELSE HttpFailure(a.code)
      [] a.kind = "envelope" -> Failure("invalid_response", "response_invalid_envelope")
      [] a.kind = "no json" -> Failure("invalid_response", "response_invalid_json")
      [] a.kind = "no object" -> Failure("invalid_response", "response_invalid_payload")
      [] OTHER -> ParseResponse(a, packet)

\* request_grounded_synthesis, before any request: there is nothing to ask about,
\* or no key to ask with.
NothingToAsk(packet) ==
    IF packet = {} THEN Failure("no_result", "synthesis_no_evidence")
    ELSE Failure("skipped_configuration", "api_key_missing")

\* Only a reply that was parsed reports what it cost.
Cost(a) == IF a.kind = "reply" /\ a.used THEN 1 ELSE 0

RetryableErrors ==
    (Flaws \ {"none", "output_schema_version_invalid"})
        \cup {"network_error", "output_invalid_json", "output_unknown_source_id",
              "provider_overloaded", "rate_limit_exceeded", "rate_limited", "request_timeout",
              "response_text_missing", "timeout", "unavailable"}

Retryable(outcome) == outcome.error \in RetryableErrors \cup {Truncated}

-----------------------------------------------------------------------------

Errors ==
    RetryableErrors \cup ErrorTypes \cup
    {Truncated, "output_schema_version_invalid", "incomplete_content_filter", "request_cancelled",
     "grounded_synthesis_disabled", "grounded_synthesis_lease_expired_ambiguous",
     "grounded_synthesis_input_invalid", "grounded_synthesis_unexpected_failure",
     "synthesis_no_evidence", "api_key_missing", "auth_required", "payment_required",
     "unexpected_status", "response_error", "response_unexpected_status",
     "response_output_missing", "response_refusal", "response_invalid_envelope",
     "response_invalid_json", "response_invalid_payload"}

Outcomes ==
    [status : {"none", "success", "no_result", "skipped_configuration", "timeout", "rate_limited",
               "auth_required", "provider_error", "invalid_response"},
     error : Errors \cup {"none"}, cites : SUBSET Evidence]

NoOutcome == [status |-> "none", error |-> "none", cites |-> {}]

RunStatuses == {"pending", "running", "settled", "cancelled", "gone"}

TypeOK ==
    /\ over \in BOOLEAN
    /\ run \in [status : RunStatuses, generation : Nat, fresh : BOOLEAN]
    /\ result \in [outcome : Outcomes, usage : 0 .. MaxAttempts, paid : 0 .. MaxAttempts,
                   packet : SUBSET Evidence]
    /\ setup \in {"ready", "disabled", "keyless", "unfit"}
    /\ worker \in [Deliveries ->
                     [pc : {"queued", "seen", "attempt", "asking", "waiting", "done", "ended"},
                      copy : RunStatuses, generation : Nat, packet : SUBSET Evidence,
                      beating : BOOLEAN, lost : BOOLEAN, attempt : 0 .. MaxAttempts - 1,
                      cap : 1 .. Ceiling, cut : 0 .. Ceiling, clean : BOOLEAN,
                      asked : 0 .. MaxAttempts, paid : 0 .. MaxAttempts,
                      outcome : Outcomes, usage : 0 .. MaxAttempts]]

\* A delivery that nobody has taken from the queue.  "copy" and "generation"
\* are the columns it read.  "asked" counts its requests and "paid" the answers
\* that told their cost; "cut" is the budget the last truncated answer had and
\* "clean" says that every answer so far was a truncated one.  These four, and
\* the result's "paid" and "packet", only serve the properties.
Queued ==
    [pc |-> "queued", copy |-> "pending", generation |-> 0, packet |-> {}, beating |-> FALSE,
     lost |-> FALSE, attempt |-> 0, cap |-> StartTokens, cut |-> 0, clean |-> TRUE, asked |-> 0,
     paid |-> 0, outcome |-> NoOutcome, usage |-> 0]

Ended == [Queued EXCEPT !.pc = "ended"]

NoResult == [outcome |-> NoOutcome, usage |-> 0, paid |-> 0, packet |-> {}]

Init ==
    /\ over = FALSE
    /\ run = [status |-> "pending", generation |-> 0, fresh |-> FALSE]
    /\ result = NoResult
    /\ setup \in {"ready", "disabled", "keyless", "unfit"}
    /\ worker = [d \in Deliveries |-> Queued]

\* The job was stopped, or the run closed or taken, behind the worker's back.
Stale(r, o, generation) == o \/ r.status # "running" \/ r.generation # generation

-----------------------------------------------------------------------------
(* The worker *)

Changed(d, self) == worker' = [worker EXCEPT ![d] = self]

\* The task starts: session.get reads the run without a lock.
Receive(d) ==
    /\ worker[d].pc = "queued"
    /\ Changed(d, IF run.status = "gone" THEN Ended
                  ELSE [worker[d] EXCEPT !.pc = "seen", !.copy = run.status,
                                         !.generation = run.generation])
    /\ UNCHANGED <<over, run, result, setup>>

\* _lease_run under the job's lock, and the start of the heartbeat.  The locked
\* SELECT of the run returns the object that is in the session already: its
\* status and generation are the copy's.  The job's row is read afresh.
\* build_evidence_packet admits some of the job's evidence.
LeaseRun(d) ==
    LET self == worker[d]
        taken == self.generation + 1
    IN
    /\ self.pc = "seen"
    /\ \/ /\ run.status = "gone" \/ self.copy # "pending"
          /\ Changed(d, Ended)
          /\ UNCHANGED run
       \/ /\ run.status # "gone" /\ self.copy = "pending" /\ over
          /\ run' = [run EXCEPT !.status = "cancelled"]
          /\ Changed(d, Ended)
       \/ /\ run.status # "gone" /\ self.copy = "pending" /\ ~over
          /\ run' = [status |-> "running", generation |-> taken, fresh |-> TRUE]
          /\ \E packet \in SUBSET Evidence :
                Changed(d, [Queued EXCEPT !.pc = "attempt", !.beating = TRUE,
                                          !.generation = taken, !.packet = packet])
    /\ UNCHANGED <<over, result, setup>>

\* _execute_synthesis returns; its local variables are gone.
Returned(self, outcome, usage) ==
    [self EXCEPT !.pc = "done", !.outcome = outcome, !.usage = usage,
                 !.attempt = 0, !.cap = StartTokens, !.cut = 0, !.clean = TRUE]

\* The head of the retry loop, and what the runner does before it sends: an
\* unfit model name, or a packet that cannot be built, raises a ValueError.
BeginAttempt(d) ==
    LET self == worker[d] IN
    /\ self.pc = "attempt"
    /\ Changed(d,
         CASE setup = "disabled" ->
                Returned(self, Failure("skipped_configuration", "grounded_synthesis_disabled"), 0)
           [] setup # "disabled" /\ self.lost -> Returned(self, Cancelled, 0)
           [] setup = "unfit" /\ ~self.lost -> Returned(self, InputInvalid, 0)
           [] setup \in {"ready", "keyless"} /\ ~self.lost
              /\ (self.packet = {} \/ setup = "keyless") ->
                Returned(self, NothingToAsk(self.packet), self.usage)
           [] OTHER -> [self EXCEPT !.pc = "asking", !.asked = @ + 1])
    /\ UNCHANGED <<over, run, result, setup>>

\* Mutant: the retry asks with the same budget.
SameLimit(current, remaining) == current

\* _escalated_output_limit, where current is below the ceiling
EscalatedOutputLimit(current, remaining) ==
    LET step == (Ceiling - current) \div remaining
        wider == current + (IF step > 1 THEN step ELSE 1)
    IN IF wider < Ceiling THEN wider ELSE Ceiling

\* Mutant: what an earlier attempt cost is forgotten.
JudgeLast(self, outcome, cost) ==
    IF ~Retryable(outcome) \/ self.attempt + 1 >= MaxAttempts
    THEN Returned(self, outcome, cost)
    ELSE [self EXCEPT !.pc = "waiting", !.outcome = outcome, !.usage = cost]

\* The body of the retry loop once the runner has returned, or raised something
\* that is made an outcome.
Judge(self, outcome, cost) ==
    LET usage == self.usage + cost
        remaining == MaxAttempts - self.attempt - 1
        cut == outcome.error = Truncated
    IN IF ~Retryable(outcome) \/ remaining = 0 \/ (cut /\ self.cap >= Ceiling)
       THEN Returned(self, outcome, usage)
       ELSE [self EXCEPT !.pc = "waiting", !.outcome = outcome, !.usage = usage,
                         !.clean = @ /\ cut, !.cut = IF cut THEN self.cap ELSE @,
                         !.cap = IF cut THEN EscalatedOutputLimit(@, remaining) ELSE @]

\* An exception leaves no usage behind: the answer's own is lost with any, that
\* of the earlier attempts with the one that returns at once.
Answered(d) ==
    /\ worker[d].pc = "asking"
    /\ \E a \in Answers :
          LET self == [worker[d] EXCEPT !.paid = @ + Cost(a)]
              outcome == Outcome(a, self.packet)
          IN Changed(d, IF outcome = InputInvalid THEN Returned(self, outcome, 0)
                        ELSE Judge(self, outcome, IF outcome = Unexpected THEN 0 ELSE Cost(a)))
    /\ UNCHANGED <<over, run, result, setup>>

\* _post_synthesis_request polls for the loss of the run while it waits.
CancelRequest(d) ==
    /\ worker[d].pc = "asking" /\ worker[d].lost
    /\ Changed(d, Judge(worker[d], Cancelled, 0))
    /\ UNCHANGED <<over, run, result, setup>>

\* retry_wait.wait(delay_seconds)
WaitOver(d) ==
    LET self == worker[d] IN
    /\ self.pc = "waiting"
    /\ Changed(d, IF self.lost THEN Returned(self, self.outcome, self.usage)
                  ELSE [self EXCEPT !.pc = "attempt", !.attempt = @ + 1,
                                    !.outcome = NoOutcome])
    /\ UNCHANGED <<over, run, result, setup>>

\* Mutant: the worker trusts its heartbeat and does not look at the rows.
StoreUnlessLost(d) ==
    LET self == worker[d] IN
    /\ self.pc = "done"
    /\ IF self.lost THEN UNCHANGED <<over, run, result>>
       ELSE /\ run' = [run EXCEPT !.status = "settled", !.fresh = FALSE]
            /\ result' = [outcome |-> self.outcome, usage |-> self.usage, paid |-> self.paid,
                          packet |-> self.packet]
            /\ over' = TRUE
    /\ Changed(d, Ended)
    /\ UNCHANGED setup

\* The heartbeat stops and the outcome is stored, unless the run was fenced.
\* The synthesis is the job's last run: finalize_discovery_if_complete closes it.
Store(d) ==
    LET self == worker[d] IN
    /\ self.pc = "done"
    /\ IF Stale(run, over, self.generation) THEN UNCHANGED <<over, run, result>>
       ELSE /\ run' = [run EXCEPT !.status = "settled", !.fresh = FALSE]
            /\ result' = [outcome |-> self.outcome, usage |-> self.usage, paid |-> self.paid,
                          packet |-> self.packet]
            /\ over' = TRUE
    /\ Changed(d, Ended)
    /\ UNCHANGED setup

\* The process dies, and its threads with it; or its transaction fails.
Crash(d) ==
    /\ worker[d].pc \notin {"queued", "ended"}
    /\ Changed(d, Ended)
    /\ UNCHANGED <<over, run, result, setup>>

\* Mutant: nobody is told that the run is lost.
BeatSilently(d) ==
    /\ worker[d].beating /\ ~worker[d].lost
    /\ ~Stale(run, over, worker[d].generation)
    /\ run' = [run EXCEPT !.fresh = TRUE]
    /\ UNCHANGED <<over, result, setup, worker>>

\* _renew_synthesis_lease; a database failure is a beat that is left out.
Beat(d) ==
    /\ worker[d].beating /\ ~worker[d].lost
    /\ IF Stale(run, over, worker[d].generation)
       THEN /\ Changed(d, [worker[d] EXCEPT !.lost = TRUE])
            /\ UNCHANGED run
       ELSE /\ run' = [run EXCEPT !.fresh = TRUE]
            /\ UNCHANGED worker
    /\ UNCHANGED <<over, result, setup>>

-----------------------------------------------------------------------------
(* The reconciler, the clock and the owner *)

\* No beat reached the database for the length of a lease.
LeaseRunsOut ==
    /\ run.status = "running" /\ run.fresh
    /\ run' = [run EXCEPT !.fresh = FALSE]
    /\ UNCHANGED <<over, result, setup, worker>>

\* Mutant: the run is queued again, as a scan is.
ReclaimForRetry ==
    /\ run.status = "running" /\ ~run.fresh
    /\ run' = [run EXCEPT !.status = "pending"]
    /\ UNCHANGED <<over, result, setup, worker>>

\* _reclaim_expired_lease: whether the request was made is not known, so it is
\* not made again; _persist_synthesis_fallback, and the job is closed.
Reclaim ==
    /\ run.status = "running" /\ ~run.fresh
    /\ run' = [run EXCEPT !.status = "settled"]
    /\ result' = [NoResult EXCEPT !.outcome = LeaseExpired]
    /\ over' = TRUE
    /\ UNCHANGED <<setup, worker>>

\* cancel_footprint_job closes the job and the runs that are not settled.
Stop ==
    /\ ~over
    /\ over' = TRUE
    /\ run' = IF run.status \in {"pending", "running"}
              THEN [run EXCEPT !.status = "cancelled", !.fresh = FALSE] ELSE run
    /\ UNCHANGED <<result, setup, worker>>

\* delete_locked_job
Delete ==
    /\ run.status # "gone"
    /\ over' = TRUE
    /\ run' = [status |-> "gone", generation |-> 0, fresh |-> FALSE]
    /\ result' = NoResult
    /\ UNCHANGED <<setup, worker>>

Next ==
    \/ \E d \in Deliveries : Receive(d) \/ LeaseRun(d) \/ BeginAttempt(d) \/ Answered(d)
                             \/ CancelRequest(d) \/ WaitOver(d) \/ Store(d) \/ Crash(d) \/ Beat(d)
    \/ LeaseRunsOut \/ Reclaim \/ Stop \/ Delete

Spec == Init /\ [][Next]_vars

\* The threads of a worker keep running and the heartbeat reaches the database
\* in the end.  The gateway need not answer.
FairSpec ==
    /\ Spec
    /\ \A d \in Deliveries :
          WF_vars(Beat(d)) /\ WF_vars(BeginAttempt(d) \/ CancelRequest(d) \/ WaitOver(d) \/ Store(d))
    /\ WF_vars(Reclaim)

-----------------------------------------------------------------------------
(* Properties *)

\* Only deliveries that read the run before its first lease was committed ask,
\* each max_attempts times at the most, and none once it was told that the run
\* is not its own: a reclaimed, stopped or redelivered run is not asked about
\* again.  (Two deliveries that both read the run that early may both ask.)
AskedNoMoreThanAllowed ==
    [][\A d \in Deliveries : worker'[d].asked > worker[d].asked =>
          /\ worker'[d].asked <= MaxAttempts
          /\ worker[d].generation = 1
          /\ ~worker[d].lost]_vars

\* An answer that was cut off is never asked for again with the same budget,
\* and when every answer was cut off the last request has all there is.
NeverCutTwiceAlike ==
    \A d \in Deliveries :
        /\ worker[d].pc \in {"attempt", "asking"} /\ worker[d].cut > 0
              => worker[d].cap > worker[d].cut
        /\ worker[d].pc = "asking" /\ worker[d].clean /\ worker[d].attempt + 1 = MaxAttempts
           /\ MaxAttempts > 1
              => worker[d].cap = Ceiling

\* A stored story cites nothing but the packet its worker was leased the run
\* with, and nothing but a successful outcome carries citations.
StoryIsGrounded ==
    result.outcome.cites # {} =>
        result.outcome.status = "success" /\ result.outcome.cites \subseteq result.packet

\* A worker that gave up because it lost its run never stores that: the loss is
\* final, nothing hands the run back.
LossIsFinal ==
    /\ \A d \in Deliveries : worker[d].lost => over
    /\ result.outcome.error # "request_cancelled"

\* A result, once stored, is not replaced, whoever stored it, nor stored for a
\* job that is over: of several deliveries and the reconciler one is heard.
WrittenOnce ==
    [][result' # result => \/ result = NoResult /\ ~over
                           \/ run'.status = "gone"]_vars

\* The cost of a stored outcome is that of every answer its worker got, those
\* of the attempts it threw away included, unless the runner raised: then the
\* last answer's cost, or all of it, is missing.
CostIsTotal ==
    result.outcome \notin {LeaseExpired, InputInvalid, Unexpected} => result.usage = result.paid

\* When the job is stopped no request stays open: the worker need not wait for
\* the gateway.
StopReachesTheGateway == over ~> \A d \in Deliveries : worker[d].pc # "asking"

=============================================================================
