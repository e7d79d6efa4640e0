--------------------------- MODULE FootprintPromise ---------------------------
(***************************************************************************)
(* What a discovery job promises its owner, whatever the workers, the      *)
(* broker and the maintenance pass do: evidence is added only while the    *)
(* job is open; the job ends once, by publication or by cancellation; the  *)
(* published report is exactly the evidence held at that instant, and      *)
(* neither changes again until the owner's data is erased.                 *)
(*                                                                         *)
(* FootprintDiscovery and FastBrief implement it (property Promised).      *)
(***************************************************************************)
CONSTANT Sources      \* the provider runs evidence can come from

VARIABLES
    phase,            \* "open", "published", "cancelled", "erased"
    evidence,         \* the sources whose results are stored
    report            \* the evidence of each published report: none or one

pvars == <<phase, evidence, report>>

PTypeOK ==
    /\ phase \in {"open", "published", "cancelled", "erased"}
    /\ evidence \subseteq Sources
    /\ report \subseteq SUBSET Sources

PInit ==
    /\ phase = "open"
    /\ evidence = {}
    /\ report = {}

\* A result is accepted.
Collect(E) ==
    /\ phase = "open"
    /\ evidence' = evidence \cup E
    /\ UNCHANGED <<phase, report>>

\* The job is published, possibly in the step that accepts the last result.
Publish(E) ==
    /\ phase = "open"
    /\ evidence' = evidence \cup E
    /\ report' = {evidence'}
    /\ phase' = "published"

Withdraw ==
    /\ phase = "open"
    /\ phase' = "cancelled"
    /\ UNCHANGED <<evidence, report>>

Erase ==
    /\ phase # "erased"
    /\ phase' = "erased"
    /\ evidence' = {}
    /\ report' = {}

PNext ==
    \/ \E E \in SUBSET Sources : Collect(E) \/ Publish(E)
    \/ Withdraw
    \/ Erase

PSpec == PInit /\ [][PNext]_pvars

\* A report exists exactly when the job is published, and it is the evidence.
ReportIsTheEvidence == report = IF phase = "published" THEN {evidence} ELSE {}

================================================================================
