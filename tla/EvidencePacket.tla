--------------------------- MODULE EvidencePacket ---------------------------
(***************************************************************************)
(* build_evidence_packet: what of a job's evidence the language model is   *)
(* shown.  Sources are scanned from the most trusted type down, accounts   *)
(* after them; both are cut at a number of items and at a number of        *)
(* characters, which the code counts incrementally instead of serializing  *)
(* the packet again for each candidate.  Accounts have characters set      *)
(* aside for them.                                                         *)
(*                                                                         *)
(* An item is its serialized size here; an account's grows with the source *)
(* ids it keeps.                                                           *)
(***************************************************************************)
EXTENDS Naturals, FiniteSets, Sequences, Functions

CONSTANTS
    Inputs,      \* the evidence of a job: see IsEvidence
    MaxSources,  \* max_sources
    MaxAccounts, \* max_accounts
    MaxChars,    \* max_chars
    MinChars,    \* _MIN_PACKET_CHARS
    PerAccount,  \* characters set aside for one account
    CiteScan,    \* source ids of an account that are looked at
    MaxCites,    \* source ids an account keeps
    ScanLimit,   \* _MAX_INPUT_SCAN
    SeedSize     \* the packet's size without flags and items

Source == [id : Nat \ {0}, priority : Nat, size : Nat, usable : BOOLEAN]

\* An edge of the graph names its observation, or it has none (0) and names a check.
Edge(checks) == [observation : Nat, check : checks]

\* A job's sources have ids of their own; of a check there is an observation or none (0).
IsEvidence(in) ==
    /\ in.sources \subseteq Source /\ IsFiniteSet(in.sources)
    /\ \A s, t \in in.sources : s.id = t.id => s = t
    /\ in.accounts \in Seq([id : Nat, size : Nat, usable : BOOLEAN,
                           edges : SUBSET Edge(DOMAIN in.observationOf)])
    /\ \A a \in Range(in.accounts) : IsFiniteSet(a.edges)

EvidencePacketAssumption ==
    /\ \A in \in Inputs : IsEvidence(in)
    /\ MaxSources \in Nat \ {0} /\ MaxAccounts \in Nat /\ ScanLimit \in Nat
    /\ CiteScan \in Nat /\ MaxCites \in Nat
    /\ MinChars \in Nat /\ MaxChars \in Nat /\ MinChars <= MaxChars /\ PerAccount \in Nat
    /\ SeedSize \in Nat /\ SeedSize + 10 <= MinChars

VARIABLES
    input,    \* the job's sources in no order, its accounts in theirs
    pc,       \* "sources", "accounts" or "done"
    index,    \* the item of the present loop that is next
    packet,   \* what was accepted, and whether something was cut
    payload   \* source_payload and account_payload

vars == <<input, pc, index, packet, payload>>

-----------------------------------------------------------------------------
(* _load_evidence_inputs *)

\* _SOURCE_TYPE_PRIORITY, then the observation's id
Before(a, b) == a.priority < b.priority \/ (a.priority = b.priority /\ a.id < b.id)

\* All sources, in this order.
Sources ==
    CHOOSE s \in [1 .. Cardinality(input.sources) -> input.sources] :
        /\ Range(s) = input.sources
        /\ \A i, j \in DOMAIN s : i < j => Before(s[i], s[j])

\* An edge names its observation, or the site check whose observation it means.
Cited(edge) ==
    IF edge.observation # 0 THEN {edge.observation}
    ELSE {o \in {input.observationOf[edge.check]} : o # 0}

Cites(account) == UNION {Cited(e) : e \in account.edges}

Accounts == input.accounts

-----------------------------------------------------------------------------
(* Sizes *)

\* The serialized items of a list, and one comma between neighbours.
Joined(sizes) ==
    LET upTo[n \in 0 .. Len(sizes)] ==
            IF n = 0 THEN 0 ELSE upTo[n - 1] + sizes[n] + IF n = 1 THEN 0 ELSE 1
    IN  upTo[Len(sizes)]

Flag(b) == IF b THEN 4 ELSE 5

\* _skeleton_size
Skeleton(sourcesCut, accountsCut) == SeedSize + Flag(sourcesCut) + Flag(accountsCut)

AccountSize(a) == a.size + Cardinality(a.cites)

\* _serialized_size of a packet
Size(p) ==
    Skeleton(p.sourcesCut, p.accountsCut)
        + Joined([i \in DOMAIN p.sources |-> p.sources[i].size])
        + Joined([i \in DOMAIN p.accounts |-> AccountSize(p.accounts[i])])

Least(a, b) == IF a < b THEN a ELSE b

AccountReserve == Least(MaxChars \div 4, MaxAccounts * PerAccount)

\* source_budget
SourceBudget == IF MaxChars - AccountReserve < MinChars THEN MinChars ELSE MaxChars - AccountReserve

-----------------------------------------------------------------------------

Ids(items) == {item.id : item \in Range(items)}

\* As many of S as n allows.
UpTo(n, S) == {T \in SUBSET S : Cardinality(T) = Least(n, Cardinality(S))}

\* _sanitize_account: of the first of its sources an account keeps those that were accepted.
SanitizeAccount(a, accepted) ==
    {[id |-> a.id, size |-> a.size, cites |-> c] :
        c \in UNION {UpTo(MaxCites, seen \cap accepted) : seen \in UpTo(CiteScan, Cites(a))}}

Init ==
    /\ input \in Inputs
    /\ pc = "sources" /\ index = 1
    /\ packet = [sources |-> <<>>, accounts |-> <<>>, sourcesCut |-> FALSE, accountsCut |-> FALSE]
    /\ payload = [source |-> 0, account |-> 0]

Skip ==
    /\ index' = index + 1
    /\ UNCHANGED <<pc, packet, payload>>

ToAccounts(cut) ==
    /\ pc' = "accounts" /\ index' = 1
    /\ packet' = [packet EXCEPT !.sourcesCut = cut]
    /\ UNCHANGED payload

TakeSource(s) ==
    LET size == payload.source + s.size + IF packet.sources = <<>> THEN 0 ELSE 1 IN
    IF Len(packet.sources) >= MaxSources \/ Skeleton(FALSE, FALSE) + size > SourceBudget
    THEN ToAccounts(TRUE)
    ELSE /\ packet' = [packet EXCEPT !.sources = Append(@, s)]
         /\ payload' = [payload EXCEPT !.source = size]
         /\ index' = index + 1
         /\ UNCHANGED pc

ScanSource ==
    /\ pc = "sources"
    /\ IF index > Len(Sources) THEN ToAccounts(FALSE)
       ELSE IF index > ScanLimit THEN ToAccounts(TRUE)
       ELSE LET s == Sources[index] IN
            IF ~s.usable \/ s.id \in Ids(packet.sources) THEN Skip ELSE TakeSource(s)
    /\ UNCHANGED input

Done(cut) ==
    /\ pc' = "done"
    /\ packet' = [packet EXCEPT !.accountsCut = cut]
    /\ UNCHANGED <<index, payload>>

\* Mutant: what the sources take is not counted again.
TakeAccountAlone(a) ==
    LET size == payload.account + AccountSize(a) + IF packet.accounts = <<>> THEN 0 ELSE 1 IN
    IF Len(packet.accounts) >= MaxAccounts \/ Skeleton(packet.sourcesCut, FALSE) + size > MaxChars
    THEN Done(TRUE)
    ELSE /\ packet' = [packet EXCEPT !.accounts = Append(@, a)]
         /\ payload' = [payload EXCEPT !.account = size]
         /\ index' = index + 1
         /\ UNCHANGED pc

TakeAccount(a) ==
    LET size == payload.account + AccountSize(a) + IF packet.accounts = <<>> THEN 0 ELSE 1 IN
    IF \/ Len(packet.accounts) >= MaxAccounts
       \/ Skeleton(packet.sourcesCut, FALSE) + payload.source + size > MaxChars
    THEN Done(TRUE)
    ELSE /\ packet' = [packet EXCEPT !.accounts = Append(@, a)]
         /\ payload' = [payload EXCEPT !.account = size]
         /\ index' = index + 1
         /\ UNCHANGED pc

ScanAccount ==
    /\ pc = "accounts"
    /\ IF index > Len(Accounts) THEN Done(FALSE)
       ELSE IF index > ScanLimit THEN Done(TRUE)
       ELSE IF ~Accounts[index].usable \/ Accounts[index].id \in Ids(packet.accounts) THEN Skip
       ELSE \E a \in SanitizeAccount(Accounts[index], Ids(packet.sources)) : TakeAccount(a)
    /\ UNCHANGED input

Next == ScanSource \/ ScanAccount

Spec == Init /\ [][Next]_vars /\ WF_vars(Next)

-----------------------------------------------------------------------------
(* Properties *)

TypeOK ==
    /\ pc \in {"sources", "accounts", "done"}
    /\ index \in 1 .. Len(Sources) + Len(Accounts) + 1
    /\ \A a \in Range(packet.accounts) : Cardinality(a.cites) <= MaxCites
    /\ payload \in [source : 0 .. MaxChars, account : 0 .. MaxChars]

\* The running totals are those of the whole packet serialized anew, whichever
\* flag has changed meanwhile, and the packet never exceeds its budget: the
\* check at the end, which would fail the whole synthesis, is never true.
PacketFits ==
    /\ Size(packet) = Skeleton(packet.sourcesCut, packet.accountsCut)
                        + payload.source + payload.account
    /\ Size(packet) <= MaxChars

\* The model sees the most trusted evidence, in its order: no source is left out for
\* a less trusted one, and whatever is left out is told.
BestEvidenceFirst ==
    LET shown == Range(packet.sources)
        usable == {s \in input.sources : s.usable}
    IN  /\ shown \subseteq usable
        /\ \A i, j \in DOMAIN packet.sources : i < j => Before(packet.sources[i], packet.sources[j])
        /\ \A a \in usable, b \in shown : Before(a, b) => a \in shown
        /\ pc # "sources" /\ shown # usable => packet.sourcesCut

\* What an account cites is in the packet: the model cannot be led to cite a
\* source it was not shown.
AccountsCiteWhatIsShown ==
    \A a \in Range(packet.accounts) : a.cites \subseteq Ids(packet.sources)

\* However long the sources are, an account no larger than what was set aside
\* for one is shown.
AccountsHaveRoom ==
    pc = "done" /\ packet.accounts = <<>> /\ MaxAccounts > 0 /\ MaxChars - AccountReserve >= MinChars =>
        \A i \in 1 .. Least(Len(Accounts), ScanLimit) :
            Accounts[i].usable => Accounts[i].size + Cardinality(Cites(Accounts[i])) > AccountReserve
                                  \/ \E j \in 1 .. i - 1 : Accounts[j].usable

=============================================================================
