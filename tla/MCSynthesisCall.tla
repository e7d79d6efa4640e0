--------------------------- MODULE MCSynthesisCall ---------------------------
(***************************************************************************)
(* A synthesis call that two deliveries of its task may both lease, with   *)
(* an answer for each way the retry loop can go on from: retried, not      *)
(* retried, cut off, raised, grounded or not, and told its cost or not.    *)
(***************************************************************************)
EXTENDS SynthesisCall

CallAnswers ==
    {[kind |-> "timed out"],
     [kind |-> "http", code |-> 402, type |-> "absent"],
     [kind |-> "http", code |-> 402, type |-> "rate_limit_exceeded"]}
    \cup
    {a \in Replies :
        /\ a.type = "absent"
        /\ \/ a.status = "incomplete" /\ a.reason = "max_output_tokens" /\ ~a.error
           \/ a.status = "failed" /\ a.error /\ a.reason = "content_filter" /\ a.used
           \/ a.parts.body \in {"garbled", "scalar", "pairs"} /\ a.used
           \/ a.parts.body = "document" /\ a.parts.flaw = "none"
           \/ a.parts.flaw = "output_contains_contact_data" /\ a.parts.cites = {} /\ a.used}

=============================================================================
