--------------------------- MODULE FootprintReport ---------------------------
(***************************************************************************)
(* What a footprint brief says about people: footprint_finalization.py     *)
(* reads the accounts the scan found, the profiles the professional search *)
(* returned for the name hypotheses, and the account the user selected,    *)
(* and decides which accounts belong together (_assess_accounts), whether  *)
(* the brief is about a person (_decide_person_hypothesis), whom it names  *)
(* (_subject) and what it claims from which observations (_claim_specs).   *)
(*                                                                         *)
(* An account is a record [platform, name, exact, check, located]; a name  *)
(* is the sequence of its normalised tokens, <<>> when the profile shows   *)
(* none.  Accounts are numbered in the order the finalizer reads them.     *)
(***************************************************************************)
EXTENDS Naturals, Sequences, FiniteSets

CONSTANTS Scans,          \* what a finished scan may leave: sequences of accounts
          Seeds,          \* the platform of a profile-URL seed; None: a bare handle
          Profiles,       \* what a professional search may return for one name
          Stranger,       \* a name no scanned account shows
          MaximumNames,   \* hypotheses the search mode may follow
          None

\* A profile is read through GitHub's API or found in an index; own: it is that
\* of a scanned account.  Its name, unless the job has read it already: the one
\* searched, another's, or none.
Account == [platform : STRING, name : Seq(STRING), exact : BOOLEAN,
            check : {"profile", "lead"}, located : BOOLEAN]
Profile == [kind : {"api", "index"}, own : BOOLEAN, exact : BOOLEAN, social : BOOLEAN,
            name : {"same", "other", "none"}, near : BOOLEAN]

\* A first-party profile is one that shows the handle that was asked for.
FootprintReportAssumption ==
    /\ \A scan \in Scans : /\ scan \in Seq(Account)
                           /\ \A n \in DOMAIN scan : scan[n].check = "profile" => scan[n].exact
    /\ Profiles \subseteq Profile
    /\ Stranger \in Seq(STRING)

VARIABLES phase,      \* "scanning", "scanned", "searching", "ready"
          seed,
          accounts,   \* AccountNode rows of the job
          chosen,     \* the node with selection_state "included", 0 if none
          wave,       \* the names searched: their sources when the wave began
          searched,   \* the names whose professional runs have ended
          evidence,   \* DiscoveryEdges to professional observations
          report

vars == <<phase, seed, accounts, chosen, wave, searched, evidence, report>>

Nodes == DOMAIN accounts
Name(n) == accounts[n].name
Family(platform) == IF platform \in {"instagram", "threads"} THEN "meta" ELSE platform
Rank(confidence) == CASE confidence = "medium_high" -> 3 [] confidence = "medium" -> 2 [] OTHER -> 1
Some(S) == CHOOSE x \in S : TRUE
Least(S) == IF S = {} THEN 0 ELSE CHOOSE n \in S : \A o \in S : n <= o

SharesSurname(left, right) ==
    Len(left) >= 2 /\ Len(right) >= 2 /\ left[Len(left)] = right[Len(right)]
Tokens(name) == {name[i] : i \in DOMAIN name}
Incompatible(left, right) ==
    left # <<>> /\ right # <<>> /\ Tokens(left) \cap Tokens(right) = {}

-----------------------------------------------------------------------------
(* The name hypotheses the professional search follows.                    *)

\* (A one-word name in another script also passes; none is among the names.)
Plausible(name) == Len(name) \in 2..4
Bearers(name) == {n \in Nodes : accounts[n].check = "profile" /\ Name(n) = name}
FamiliesOf(name) == {Family(accounts[n].platform) : n \in Bearers(name)}
Candidates == {name \in {Name(n) : n \in Nodes} : Plausible(name) /\ Bearers(name) # {}}
HasSeed(name) == seed # None /\ Family(seed) \in FamiliesOf(name)
IsChosen(name) == chosen # 0 /\ Name(chosen) = name

Before(a, b) ==
    IF IsChosen(a) # IsChosen(b) THEN IsChosen(a)
    ELSE IF Cardinality(FamiliesOf(a)) # Cardinality(FamiliesOf(b))
         THEN Cardinality(FamiliesOf(a)) > Cardinality(FamiliesOf(b))
    ELSE IF HasSeed(a) # HasSeed(b) THEN HasSeed(a)
    ELSE Least(Bearers(a)) < Least(Bearers(b))

Followed(most) ==
    {a \in Candidates : Cardinality({b \in Candidates : Before(b, a)}) < most}

Eligible == UNION {Bearers(a) : a \in Followed(IF MaximumNames > 2 THEN MaximumNames ELSE 2)}

\* A hypothesis without a location of its own borrows the one the other
\* named profiles show, and then lists them among its sources.
Locating == {n \in Nodes : accounts[n].check = "profile" /\ Plausible(Name(n)) /\ accounts[n].located}
Context(name) == IF Locating \cap Bearers(name) # {} THEN {} ELSE Locating

-----------------------------------------------------------------------------
(* Observations.  Every found check with a safe URL leaves one; so does    *)
(* every professional profile.                                             *)

EvidenceOn(n) == {i \in DOMAIN evidence : evidence[i].node = n}
SourceIds(n) == (IF accounts[n].check = "none" THEN {} ELSE {<<"check", n>>})
                  \cup {<<"search", i>> : i \in EvidenceOn(n)}
Observations == UNION {SourceIds(n) : n \in Nodes}

FirstParty(n) == \/ accounts[n].check = "profile"
                 \/ \E i \in EvidenceOn(n) : evidence[i].kind = "api"
Indexed(n) == \E i \in EvidenceOn(n) : evidence[i].kind = "index"
Existence(n) == IF FirstParty(n) THEN "exact_verified"
                ELSE IF Indexed(n) THEN "indexed_profile" ELSE "claimed_unverified"

-----------------------------------------------------------------------------
(* _professional_matches: which profiles corroborate the name searched.    *)

NameMatch(e) == e.shown # <<>> /\ e.shown = e.query
RootFamilies(e) == {Family(accounts[n].platform) : n \in {r \in e.roots : Name(r) = e.query}}
SourceFamily(e) == IF e.kind = "api" THEN "github" ELSE "linkedin-index"
ThirdFamily(e) == NameMatch(e) /\ Cardinality(RootFamilies(e) \cup {SourceFamily(e)}) >= 3
LocationAnchor(e) == NameMatch(e) /\ e.near /\ e.kind = "index"

Corroborates(e) ==
    /\ e.shown = <<>> \/ NameMatch(e)
    /\ e.social \/ LocationAnchor(e) \/ ThirdFamily(e)

MatchOf(i) ==
    LET e == evidence[i]
    IN  [name |-> e.query, roots |-> e.roots,
         confidence |-> IF e.social THEN "medium_high" ELSE "medium",
         sources |-> {<<"search", i>>} \cup UNION {SourceIds(n) : n \in e.roots \cup e.context}]

Matching(n) == {i \in EvidenceOn(n) : Corroborates(evidence[i])}
Matched == {n \in Nodes : Matching(n) # {}}
\* The first of the strongest.
ProfessionalMatch(n) ==
    MatchOf(Least({i \in Matching(n) :
                     \A j \in Matching(n) : Rank(MatchOf(i).confidence) >= Rank(MatchOf(j).confidence)}))

Supporting(n) ==
    {m \in {ProfessionalMatch(o) : o \in Matched} :
       n \in m.roots /\ (m.name = Name(n) \/ SharesSurname(m.name, Name(n)))}

-----------------------------------------------------------------------------
(* _assess_accounts: the reference account and the status of each account. *)

Exact == {n \in Nodes : accounts[n].exact}
SeedNode == IF chosen # 0 THEN chosen
            ELSE Least({n \in Exact : seed # None /\ accounts[n].platform = seed})
SeedName == IF SeedNode # 0 /\ FirstParty(SeedNode) THEN Name(SeedNode) ELSE <<>>

Sharing(name) == {n \in Exact : FirstParty(n) /\ Name(n) = name}
SharingFamilies(name) == {Family(accounts[n].platform) : n \in Sharing(name)}
Repeated == {name \in {Name(n) : n \in Exact} \ {<<>>} : Cardinality(SharingFamilies(name)) >= 2}
RepeatedName ==
    IF Repeated = {} THEN <<>>
    ELSE Some({a \in Repeated : \A b \in Repeated :
                Cardinality(SharingFamilies(a)) >= Cardinality(SharingFamilies(b))})

ReferenceName == IF SeedName # <<>> THEN SeedName ELSE RepeatedName
ReferenceNode == IF SeedName # <<>> THEN SeedNode ELSE Least(Sharing(ReferenceName))

\* The account a likely one is compared with: the reference, or for the
\* reference of a repeated name the next account that shows the name.
Compared(n) ==
    IF SeedName = <<>> /\ ReferenceNode = n
    THEN Least({o \in Exact \ {n} : Name(o) = ReferenceName})
    ELSE ReferenceNode

Assessed(status, confidence, cites) ==
    [status |-> status, confidence |-> confidence, cites |-> cites]

AssessProfessional(n) ==
    IF n \in Matched
    THEN Assessed("likely", ProfessionalMatch(n).confidence,
                  SourceIds(n) \cup ProfessionalMatch(n).sources)
    ELSE IF Name(n) # <<>> /\ Name(n) \notin {evidence[i].query : i \in EvidenceOn(n)}
    THEN Assessed("excluded", "medium", SourceIds(n))
    ELSE Assessed("unverified", "low", SourceIds(n))

AssessSupported(n) ==
    LET best == Some({m \in Supporting(n) :
                        \A o \in Supporting(n) : Rank(m.confidence) >= Rank(o.confidence)})
    IN  Assessed("likely", best.confidence, SourceIds(n) \cup best.sources)

\* Mutant: a shared surname is enough.
AssessByFamily(n) ==
    IF SharesSurname(ReferenceName, Name(n))
    THEN Assessed("likely", "medium", SourceIds(n) \cup UNION {SourceIds(o) : o \in Sharing(ReferenceName)})
    ELSE Assessed("unverified", "low", SourceIds(n))

AssessAgainstReference(n) ==
    IF ReferenceName # <<>> /\ Name(n) = ReferenceName /\ FirstParty(n)
    THEN Assessed("likely", "medium",
                  SourceIds(n) \cup (IF Compared(n) = 0 THEN {} ELSE SourceIds(Compared(n))))
    ELSE IF SharesSurname(ReferenceName, Name(n))
    THEN Assessed("unverified", "low",
                  SourceIds(n) \cup UNION {SourceIds(o) : o \in Sharing(ReferenceName)})
    ELSE IF Incompatible(ReferenceName, Name(n))
    THEN Assessed("excluded", "medium", SourceIds(n) \cup SourceIds(ReferenceNode))
    ELSE Assessed("unverified", "low", SourceIds(n))

Assess(n) ==
    IF EvidenceOn(n) # {} THEN AssessProfessional(n)
    ELSE IF Supporting(n) # {} THEN AssessSupported(n)
    ELSE IF n = SeedNode \/ n \notin Exact THEN Assessed("unverified", "low", SourceIds(n))
    ELSE AssessAgainstReference(n)

-----------------------------------------------------------------------------
(* The person, the claims and the reasons the brief shows.                 *)

AccountCentric == [type |-> "account_centric", name |-> <<>>, cites |-> {}]

DecidePerson(assessment) ==
    LET likely == {ProfessionalMatch(n) : n \in {o \in Matched : assessment[o].status = "likely"}}
        passing == IF chosen = 0 THEN likely ELSE {m \in likely : chosen \in m.roots}
        names == {m.name : m \in passing}
    IN  IF Cardinality(names) # 1 THEN AccountCentric
        ELSE [type |-> "person_centric", name |-> Some(names),
              cites |-> UNION {m.sources : m \in passing}]

Claim(predicate, n, confidence, cites) ==
    [predicate |-> predicate, account |-> n, confidence |-> confidence, cites |-> cites]

ClaimsAbout(n, assessed) ==
    LET strength == IF FirstParty(n) THEN "high" ELSE "medium"
    IN  {Claim("existence", n, strength, SourceIds(n))}
          \cup (IF Name(n) = <<>> THEN {} ELSE {Claim("display_name", n, strength, SourceIds(n))})
          \cup (IF EvidenceOn(n) # {} /\ assessed.status = "likely"
                THEN {Claim("history", n, "medium", SourceIds(n))} ELSE {})
          \cup (CASE assessed.status = "likely" -> {Claim("association", n, "medium", assessed.cites)}
                  [] assessed.status = "excluded" ->
                       {Claim("association_exclusion", n, "medium", assessed.cites)}
                  [] OTHER -> {})

Limiting(assessment, person) ==
    (IF person.type = "person_centric" THEN {"likely_not_confirmed"} ELSE {"no_anchored_name"})
      \cup (IF \E n \in Nodes : assessment[n].status = "excluded" THEN {"conflicting_name"} ELSE {})
      \cup (IF \E n \in Nodes : Name(n) = <<>> THEN {"nameless_account"} ELSE {})
      \cup (IF Cardinality({Name(n) : n \in {o \in Nodes : FirstParty(o)}} \ {<<>>}) > 1
            THEN {"names_differ"} ELSE {})

Subject(person) ==
    LET seeded == Least({n \in Exact : FirstParty(n) /\ seed # None /\ accounts[n].platform = seed})
    IN  IF person.type = "person_centric" THEN person.name
        ELSE IF chosen # 0 /\ Existence(chosen) = "exact_verified" /\ Name(chosen) # <<>> THEN Name(chosen)
        ELSE IF seeded # 0 THEN Name(seeded)
        ELSE <<>>

Render ==
    LET assessment == [n \in Nodes |-> Assess(n)]
        person == DecidePerson(assessment)
    IN  [person |-> person,
         subject |-> Subject(person),
         accounts |-> assessment,
         claims |-> UNION {ClaimsAbout(n, assessment[n]) : n \in Nodes},
         limiting |-> Limiting(assessment, person),
         snapshot |-> Observations]

-----------------------------------------------------------------------------
Init ==
    /\ phase = "scanning"
    /\ seed \in Seeds
    /\ accounts = <<>>
    /\ chosen = 0
    /\ wave = <<>>
    /\ searched = {}
    /\ evidence = <<>>
    /\ report = None

FinishScan ==
    /\ phase = "scanning"
    /\ accounts' \in Scans
    /\ phase' = "scanned"
    /\ UNCHANGED <<seed, chosen, wave, searched, evidence, report>>

\* The runs of the wave keep the sources their names have when it starts.
Wave == [name \in Followed(MaximumNames) |->
           [roots |-> Bearers(name), context |-> Context(name)]]

\* The user selects an anchor while the job waits for one; the wave starts.
Select(n) ==
    /\ phase = "scanned"
    /\ seed = None
    /\ Cardinality(Followed(IF MaximumNames > 2 THEN MaximumNames ELSE 2)) > 1
    /\ n \in Eligible
    /\ chosen' = n
    /\ phase' = "searching"
    /\ UNCHANGED <<seed, accounts, searched, evidence, report>>
    /\ wave' = Wave'

\* The wave starts without a choice: none was needed, or its window closed.
StartSearch ==
    /\ phase = "scanned"
    /\ Candidates # {}
    /\ phase' = "searching"
    /\ wave' = Wave
    /\ UNCHANGED <<seed, accounts, chosen, searched, evidence, report>>

Platform(p) == IF p.kind = "api" THEN "github" ELSE "linkedin"

\* The nodes a profile may belong to: the account with its URL, which the scan
\* or an earlier search has found, or a new one.  Every hypothesis fetches the
\* logins derived from its name and those GitHub finds for it, so the account of
\* the handle, or of another hypothesis, comes back for any of them.
Targets(p) ==
    LET found == {n \in Nodes : /\ accounts[n].check = "none"
                                /\ accounts[n].platform = Platform(p)
                                /\ accounts[n].exact = p.exact}
    IN  IF p.own
        THEN {n \in Exact : accounts[n].platform = "github" /\ accounts[n].check # "none"}
        ELSE found \cup (IF p.exact /\ found # {} THEN {} ELSE {Len(accounts) + 1})

\* The name a profile shows: an account that was read before shows what it did then.
Shown(p, name, n) ==
    IF n \in Nodes /\ (Name(n) # <<>> \/ EvidenceOn(n) # {}) THEN Name(n)
    ELSE CASE p.name = "same" -> name [] p.name = "other" -> Stranger [] OTHER -> <<>>

EndSearch(name) ==
    /\ phase = "searching"
    /\ name \in DOMAIN wave \ searched
    /\ searched' = searched \cup {name}
    /\ UNCHANGED <<phase, seed, chosen, wave, report>>
    /\ \/ UNCHANGED <<accounts, evidence>>
       \/ \E p \in Profiles : \E n \in Targets(p) :
            LET shown == Shown(p, name, n)
            IN  /\ \A i \in EvidenceOn(n) : evidence[i].social = p.social
                /\ p.near => Locating # {}
                /\ accounts' = IF n \in Nodes
                               THEN [accounts EXCEPT ![n].name = shown]
                               ELSE Append(accounts,
                                           [platform |-> Platform(p), name |-> shown,
                                            exact |-> p.exact, check |-> "none",
                                            located |-> p.near])
                /\ evidence' = Append(evidence,
                                      [node |-> n, kind |-> p.kind, shown |-> shown,
                                       query |-> name, near |-> p.near, social |-> p.social,
                                       roots |-> wave[name].roots, context |-> wave[name].context])

\* Nothing was searched (off, no name, past the deadline), or all of it ended.
Finalize ==
    /\ phase = "scanned" \/ (phase = "searching" /\ DOMAIN wave = searched)
    /\ phase' = "ready"
    /\ report' = Render
    /\ UNCHANGED <<seed, accounts, chosen, wave, searched, evidence>>

Next ==
    \/ FinishScan
    \/ \E n \in Nodes : Select(n)
    \/ StartSearch
    \/ \E name \in DOMAIN wave : EndSearch(name)
    \/ Finalize

Spec == Init /\ [][Next]_vars

-----------------------------------------------------------------------------
Confidences == {"low", "medium", "medium_high"}

TypeOK ==
    /\ phase \in {"scanning", "scanned", "searching", "ready"}
    /\ seed \in Seeds
    /\ chosen \in Nodes \cup {0}
    /\ searched \subseteq DOMAIN wave
    /\ \A i \in DOMAIN evidence : evidence[i].node \in Nodes /\ evidence[i].query \in searched
    /\ phase # "ready" => report = None
    /\ phase = "ready" =>
         \A n \in Nodes : /\ report.accounts[n].status \in {"likely", "unverified", "excluded"}
                          /\ report.accounts[n].confidence \in Confidences

Ready == phase = "ready"
Status(n) == report.accounts[n].status

\* What README.md:39-42 asks of a name before a brief is about its bearer.
Anchoring(e) ==
    /\ e.shown \in {<<>>, e.query}
    /\ \/ e.social
       \/ e.shown = e.query /\ e.kind = "index" /\ e.near
       \/ e.shown = e.query /\ Cardinality(RootFamilies(e) \cup {SourceFamily(e)}) > 2

AnchoredOn(n) == {evidence[i].query : i \in {j \in EvidenceOn(n) : Anchoring(evidence[j])}}

\* A brief is about a person only when that name is anchored, and is one of the
\* selected account's, when the user selected one; and when no other name has a
\* profile that anchors no name but it.  It is about the one name that is
\* anchored, when no profile anchors it for another hypothesis too.  (Of the names
\* one profile anchors only the strongest is kept: see _professional_matches.)
PersonIsAnchored ==
    Ready =>
      LET names == {name \in UNION {AnchoredOn(n) : n \in Nodes} : chosen = 0 \/ name = Name(chosen)}
          alone == {name \in names : \E n \in Nodes : AnchoredOn(n) = {name}}
          person == report.person.type = "person_centric"
      IN  /\ person => report.person.name \in names /\ alone \subseteq {report.person.name}
          /\ Cardinality(names) = 1 /\ alone = names => person

\* Once the user has selected an account, the brief is headed by that
\* account's name, whatever the searches of the other names brought.
ChoiceIsFollowed ==
    Ready /\ chosen # 0 => report.subject = Name(chosen)

\* An account is joined to another only on a corroborated name or on a full
\* name that two first-party profiles of the handle show: neither the handle,
\* nor a shared surname, nor a name found by search is enough.
LikelyHasGrounds ==
    Ready => \A n \in Nodes : Status(n) = "likely" =>
      \/ \E i \in EvidenceOn(n) : Anchoring(evidence[i])
      \/ \E i \in DOMAIN evidence : Anchoring(evidence[i]) /\ n \in evidence[i].roots
      \/ /\ {n} \subseteq Exact /\ FirstParty(n)
         /\ \E o \in Exact \ {n} : FirstParty(o) /\ Name(o) = Name(n) /\ Len(Name(n)) > 0

\* Every claim cites something, and nothing from outside the frozen snapshot:
\* otherwise finalization raises and the job never ends.
ClaimsStayInside ==
    Ready => \A c \in report.claims : c.cites # {} /\ c.cites \subseteq report.snapshot

=============================================================================
