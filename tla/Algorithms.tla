------------------------------- MODULE Algorithms -------------------------------
(***************************************************************************)
(* The three computations of a job, side by side: the budget of the        *)
(* professional searches and the searches, the packet of evidence for the  *)
(* synthesis, and the report.  Each runs in one transaction or one task    *)
(* and they share no state; a behaviour is a run of one of them, the       *)
(* others wait as they start.                                              *)
(***************************************************************************)
EXTENDS Naturals

CONSTANTS
    None,
    SearchInputs, OneSearch, AbsoluteLimits, QuickLimits,             \* ProfessionalSearch
    ExaPerRequest, ExaPerRun, GithubPerRun,
    PacketInputs, OnePacket, MaxSources, MaxAccounts, MaxChars,       \* EvidencePacket
    MinChars, PerAccount, CiteScan, MaxCites, ScanLimit, SeedSize,
    Scans, Seeds, Profiles, Stranger, MaximumNames         \* FootprintReport

VARIABLES
    part,                                                  \* what runs
    wanted, planning, cursor, dealt, budget, left,         \* ProfessionalSearch
    run, asked, stagnant, profiles, failures, cancelled, outcome,
    input, pc, index, packet, payload,                     \* EvidencePacket
    phase, seed, accounts, chosen, wave, searched, evidence, report

searchVars == <<wanted, planning, cursor, dealt, budget, left,
                run, asked, stagnant, profiles, failures, cancelled, outcome>>
packetVars == <<input, pc, index, packet, payload>>
reportVars == <<phase, seed, accounts, chosen, wave, searched, evidence, report>>
vars == <<part, searchVars, packetVars, reportVars>>

Searches ==
    INSTANCE ProfessionalSearch WITH
        input <- wanted, phase <- planning,
        Inputs <- SearchInputs

Packets ==
    INSTANCE EvidencePacket WITH
        Inputs <- PacketInputs

Reports == INSTANCE FootprintReport

ASSUME AlgorithmsAssumption ==
    /\ Searches!ProfessionalSearchAssumption
    /\ Packets!EvidencePacketAssumption
    /\ Reports!FootprintReportAssumption
    /\ None \in Seeds                                     \* a bare handle
    /\ OneSearch \in SearchInputs /\ OnePacket \in PacketInputs


Init ==
    /\ part \in {"search", "packet", "report"}
    /\ wanted \in IF part = "search" THEN SearchInputs ELSE {OneSearch}
    /\ input \in IF part = "packet" THEN PacketInputs ELSE {OnePacket}
    /\ seed \in IF part = "report" THEN Seeds ELSE {None}
    /\ Searches!Init /\ Packets!Init /\ Reports!Init

Next ==
    \/ part = "search" /\ Searches!Next /\ UNCHANGED <<part, packetVars, reportVars>>
    \/ part = "packet" /\ Packets!Next /\ UNCHANGED <<part, searchVars, reportVars>>
    \/ part = "report" /\ Reports!Next /\ UNCHANGED <<part, searchVars, packetVars>>

Spec == Init /\ [][Next]_vars

-----------------------------------------------------------------------------
\* The budget of a wave is dealt out whole and well: nothing is lost or handed
\* out twice, a run gets only what its adapter accepts and no more than one round
\* ahead of the others, and nothing lies idle that a run could use
\* (build_adaptive_professional_query_plan).
BudgetIsDealtWell ==
    /\ Searches!TypeOK
    /\ Searches!BudgetIsKept /\ Searches!RunsSuitTheirAdapter
    /\ Searches!RunsShareEvenly /\ Searches!NothingLiesIdle

\* However a search is cancelled, late, refused or tired, it keeps to its share
\* and calls its end conclusive only when nothing failed and it spent what it had
\* or stopped because its queries brought nothing new.
SearchesAreHonest == Searches!RunsKeepTheirShare /\ Searches!ConclusiveWhenLooked

\* The packet for the synthesis, filled item by item, is no larger than its
\* budget when it is serialized, shows the most trusted evidence first, and
\* leaves room for accounts that cite only what it shows (build_evidence_packet).
PacketIsRight ==
    /\ Packets!TypeOK
    /\ Packets!PacketFits /\ Packets!BestEvidenceFirst
    /\ Packets!AccountsCiteWhatIsShown /\ Packets!AccountsHaveRoom

\* A brief names a person and joins accounts only on evidence and as the owner
\* chose, and its claims cite nothing but the frozen snapshot
\* (finalize_footprint_if_complete).
BriefIsGrounded ==
    /\ Reports!TypeOK
    /\ Reports!PersonIsAnchored /\ Reports!ChoiceIsFollowed
    /\ Reports!LikelyHasGrounds /\ Reports!ClaimsStayInside

================================================================================
