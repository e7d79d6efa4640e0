--------------------------- MODULE Algorithms_proofs ---------------------------
(***************************************************************************)
(* Proofs about the computations of a job, for every input.  The budget of *)
(* a wave is dealt out whole and well (BudgetIsDealtWell), the searches    *)
(* that spend it say the truth (SearchesAreHonest), the brief says of      *)
(* people what its evidence carries (BriefIsGrounded), and the packet for  *)
(* the synthesis fits and shows the best of the evidence (PacketIsRight).  *)
(*                                                                         *)
(* The invariant of the dealing says how far it has come (Dealing): what   *)
(* lies behind the cursor has had its turn in this round, what lies ahead  *)
(* has not, and nothing that was denied something could have it later.     *)
(* What was dealt in all is a sum over the runs, a recursive function; the *)
(* lemmas about it are proved by induction, with the well-foundedness of   *)
(* the natural numbers as the library states it.                           *)
(*                                                                         *)
(* The invariant of the report (ReportInv) says what the finalizer may     *)
(* rely on, whichever searches ended with what; the report is a function   *)
(* of it, and what it says follows from the invariant alone.               *)
(*                                                                         *)
(* The invariant of the packet (PacketInv) says how far the scan came and  *)
(* that the running totals are the sums over what was accepted.  Sorting   *)
(* the sources picks an order (OrderExists), by induction over their sets. *)
(***************************************************************************)
EXTENDS Algorithms, SequenceTheorems, FiniteSetTheorems, WellFoundedInduction, TLAPS

-----------------------------------------------------------------------------
(* Types *)

\* The proposals of the wave, by number.
Runs == 1 .. Len(wanted.proposals)
Exa(i) == wanted.proposals[i].provider = "exa"
Amounts == [queries : Nat, requests : Nat, results : Nat]

LEMMA Inputs ==
    ASSUME wanted \in SearchInputs
    PROVE  /\ Len(wanted.proposals) \in Nat
           /\ DOMAIN wanted.proposals = Runs
           /\ \A i \in Runs : /\ wanted.proposals[i].provider \in {"exa", "github"}
                              /\ wanted.proposals[i].variants \in Nat \ {0}
                              /\ wanted.proposals[i].name \in Nat
           /\ \A i, j \in Runs : i < j => wanted.proposals[i].name <= wanted.proposals[j].name
<1>1. wanted.proposals \in Seq(Searches!Proposal)
  BY AlgorithmsAssumption DEF Searches!ProfessionalSearchAssumption
<1>2. DOMAIN wanted.proposals = Runs /\ Len(wanted.proposals) \in Nat
  BY <1>1 DEF Runs
<1>3. \A i \in Runs : wanted.proposals[i] \in Searches!Proposal
  BY <1>1, <1>2
<1>4. \A i, j \in Runs : i < j => wanted.proposals[i].name <= wanted.proposals[j].name
  BY <1>2, AlgorithmsAssumption DEF Searches!ProfessionalSearchAssumption
<1>. QED
  BY <1>2, <1>3, <1>4 DEF Searches!Proposal

LEMMA Limits ==
    ASSUME wanted \in SearchInputs, NEW kind \in Searches!LimitKinds
    PROVE  Searches!Limit(kind) \in Nat \ {0}
<1>1. /\ AbsoluteLimits[kind] \in Nat \ {0} /\ QuickLimits[kind] \in Nat \ {0}
      /\ wanted.configured[kind] \in Int
  BY AlgorithmsAssumption DEF Searches!ProfessionalSearchAssumption
<1>2. \A value \in Int, most \in Nat \ {0} : Searches!Clamp(value, most) \in Nat \ {0}
  BY DEF Searches!Clamp, Searches!Min2
<1>3. \A a, b \in Nat \ {0} : Searches!Min2(a, b) \in Nat \ {0}
  BY DEF Searches!Min2
<1>. QED
  BY <1>1, <1>2, <1>3 DEF Searches!Limit

LEMMA Ceilings ==
    ExaPerRequest \in Nat \ {0} /\ ExaPerRun \in Nat \ {0} /\ GithubPerRun \in Nat \ {0}
BY AlgorithmsAssumption DEF Searches!ProfessionalSearchAssumption

\* What is known of the values, with the type invariant unfolded.
Typed ==
    /\ wanted \in SearchInputs
    /\ planning \in {"starting", "queries", "profiles", "planned", "running", "done"}
    /\ cursor \in 1 .. Len(wanted.proposals) + 1
    /\ dealt \in BOOLEAN /\ cancelled \in BOOLEAN
    /\ budget \in [Runs -> Amounts]
    /\ left \in Amounts
    /\ run \in 0 .. Len(wanted.proposals)
    /\ asked \in Nat /\ stagnant \in Nat /\ profiles \in Nat
    /\ failures \subseteq Searches!Serious \cup {"no_result"}
    /\ outcome \in IF planning = "done" THEN Searches!Outcome ELSE {None}

LEMMA TypedIsTypeOK == Typed <=> Searches!TypeOK
BY DEF Typed, Searches!TypeOK, Runs, Amounts, Searches!Proposals

LEMMA SearchInit ==
    ASSUME wanted \in SearchInputs, Searches!Init
    PROVE  Typed
<1>1. Searches!Nothing \in Amounts
  BY DEF Searches!Nothing, Amounts
<1>2. budget \in [Runs -> Amounts]
  BY <1>1 DEF Searches!Init, Runs, Searches!Proposals
<1>3. left \in Amounts
  BY Limits DEF Searches!Init, Amounts, Searches!LimitKinds
<1>4. cursor \in 1 .. Len(wanted.proposals) + 1 /\ run \in 0 .. Len(wanted.proposals)
  BY Inputs DEF Searches!Init
<1>5. /\ planning = "starting" /\ dealt = FALSE /\ cancelled = FALSE
      /\ asked = 0 /\ stagnant = 0 /\ profiles = 0 /\ failures = {} /\ outcome = None
  BY DEF Searches!Init
<1>. QED
  BY <1>2, <1>3, <1>4, <1>5 DEF Typed

\* Dealing to one run.
LEMMA DealTyped ==
    ASSUME Typed, NEW i \in Runs, NEW q \in Nat, NEW r \in Nat, NEW p \in Nat,
           q <= left.queries, r <= left.requests, p <= left.results,
           Searches!Deal(i, q, r, p)
    PROVE  /\ budget' \in [Runs -> Amounts] /\ left' \in Amounts
           /\ \A j \in Runs \ {i} : budget'[j] = budget[j]
           /\ budget'[i] = [queries |-> budget[i].queries + q, requests |-> budget[i].requests + r,
                            results |-> budget[i].results + p]
           /\ left' = [queries |-> left.queries - q, requests |-> left.requests - r,
                       results |-> left.results - p]
<1>. DEFINE b == [queries |-> budget[i].queries + q, requests |-> budget[i].requests + r,
                  results |-> budget[i].results + p]
<1>1. budget[i] \in Amounts /\ left \in Amounts
  BY DEF Typed
<1>2. b \in Amounts
  BY <1>1 DEF Amounts
<1>3. budget' = [budget EXCEPT ![i] = b]
  BY DEF Searches!Deal
<1>4. left' = [queries |-> left.queries - q, requests |-> left.requests - r,
               results |-> left.results - p]
  BY DEF Searches!Deal
<1>5. left' \in Amounts
  BY <1>1, <1>4 DEF Amounts
<1>. HIDE DEF b
<1>6. budget' \in [Runs -> Amounts] /\ budget'[i] = b /\ \A j \in Runs \ {i} : budget'[j] = budget[j]
  BY <1>2, <1>3 DEF Typed
<1>. QED
  BY <1>4, <1>5, <1>6 DEF b

-----------------------------------------------------------------------------
(* The dealing *)

\* What the adapter of a run accepts.
Suits(i) ==
    /\ budget[i].queries >= 1
    /\ budget[i].results >= 1 /\ budget[i].results <= Searches!MostResults(i)
    /\ Exa(i) => /\ budget[i].requests = budget[i].queries
                 /\ budget[i].queries <= wanted.proposals[i].variants
    /\ ~Exa(i) => budget[i].queries = 1 /\ budget[i].requests = budget[i].results + 1

\* A run that could use no more queries, or no more profiles.
Full(i) == budget[i].queries = wanted.proposals[i].variants
Rich(i) == \/ budget[i].results = Searches!MostResults(i)
           \/ left.requests < Searches!ExtraRequests(i)

\* A run has had its turn in this round.
Seen(i) == IF i < cursor THEN 1 ELSE 0

Fitting == \A i \in Runs : budget[i] = Searches!Nothing \/ Suits(i)

\* The first loop has not come to a run yet, or the run could not be started
\* and cannot be started any more.
Starting ==
    /\ planning = "starting" => \A i \in Runs : i >= cursor => budget[i] = Searches!Nothing
    /\ \A i \in Runs : (planning = "starting" => i < cursor) /\ ~Searches!Active(i)
                          => ~Searches!CanStart(i)
    /\ \A i, j \in Runs : i < j /\ Exa(i) /\ Exa(j) /\ Searches!Active(j) => Searches!Active(i)

\* Before the loop of the profiles every run has one.
Minimal ==
    \A i \in Runs : Searches!Active(i) =>
      /\ planning \in {"starting", "queries"} => budget[i].results = 1
      /\ planning = "starting" => budget[i].queries = 1

\* Runs that can take more queries have the same number, or one more when they
\* have had their turn, unless the budget is gone.
QueriesEven ==
    planning # "starting" =>
      \A i, j \in Runs : Searches!Active(i) /\ Searches!Active(j) /\ Exa(i) /\ Exa(j) =>
        /\ Full(j) \/ budget[i].queries <= budget[j].queries + 1
        /\ planning = "queries" =>
             \/ left.queries = 0 \/ left.requests = 0
             \/ Full(j) \/ budget[i].queries - Seen(i) <= budget[j].queries - Seen(j)

\* The same of the profiles.
ResultsEven ==
    planning \notin {"starting", "queries"} =>
      \A i, j \in Runs : Searches!Active(i) /\ Searches!Active(j) =>
        /\ Rich(j) \/ budget[i].results <= budget[j].results + 1
        /\ planning = "profiles" =>
             \/ left.results = 0
             \/ Rich(j) \/ budget[i].results - Seen(i) <= budget[j].results - Seen(j)

\* A round that deals nothing leaves nothing that a run could use.
NothingLeft ==
    \A i \in Runs :
      /\ planning # "starting" /\ (planning = "queries" => ~dealt /\ i < cursor)
           => ~Searches!CanWiden(i)
      /\ planning \notin {"starting", "queries"} /\ (planning = "profiles" => ~dealt /\ i < cursor)
           => ~Searches!CanDeepen(i)

Dealing ==
    /\ Typed /\ Fitting /\ Starting /\ Minimal
    /\ QueriesEven /\ ResultsEven /\ NothingLeft

LEMMA NothingIsInactive ==
    ASSUME NEW i, budget[i] = Searches!Nothing
    PROVE  ~Searches!Active(i)
BY DEF Searches!Active, Searches!Nothing

\* How many profiles an adapter can return for n queries.
Most(exa, n) == IF exa THEN Searches!Min2(ExaPerRun, n * ExaPerRequest) ELSE GithubPerRun

LEMMA MostGrows ==
    ASSUME NEW exa \in BOOLEAN, NEW n \in Nat
    PROVE  /\ Most(exa, n) \in Nat
           /\ n >= 1 => Most(exa, n) >= 1
           /\ Most(exa, n) <= Most(exa, n + 1)
<1>. DEFINE m == n * ExaPerRequest
            l == (n + 1) * ExaPerRequest
<1>1. m \in Nat /\ l \in Nat /\ (n >= 1 => m >= 1) /\ m <= l
  BY Ceilings
<1>. HIDE DEF m, l
<1>2. /\ \A a \in Nat : Searches!Min2(ExaPerRun, a) \in Nat
      /\ \A a \in Nat : a >= 1 => Searches!Min2(ExaPerRun, a) >= 1
      /\ \A a, b \in Nat : a <= b => Searches!Min2(ExaPerRun, a) <= Searches!Min2(ExaPerRun, b)
  BY Ceilings DEF Searches!Min2
<1>. QED
  BY <1>1, <1>2, Ceilings DEF Most, m, l

\* The operators of the model in terms of the provider.
LEMMA Adapters ==
    /\ \A i : /\ Searches!MostResults(i) = Most(Exa(i), budget[i].queries)
              /\ Searches!ExtraRequests(i) = IF Exa(i) THEN 0 ELSE 1
              /\ Searches!MinimumRequests(i) = IF Exa(i) THEN 1 ELSE 2
              /\ (Searches!Provider(i) = "exa") = Exa(i)
    /\ wanted' = wanted =>
         \A i : /\ Searches!MostResults(i)' = Most(Exa(i), budget'[i].queries)
                /\ Exa(i)' = Exa(i)
                /\ Searches!ExtraRequests(i)' = Searches!ExtraRequests(i)
                /\ Searches!MinimumRequests(i)' = Searches!MinimumRequests(i)
BY DEF Searches!MostResults, Searches!ExtraRequests, Searches!MinimumRequests,
       Searches!Provider, Searches!Proposals, Exa, Most

\* The budget only shrinks, and a run that nothing is dealt to stays as it is.
Shrinks == /\ left'.queries <= left.queries /\ left'.requests <= left.requests
           /\ left'.results <= left.results

LEMMA OthersStay ==
    ASSUME Typed, wanted' = wanted, left' \in Amounts, Shrinks,
           NEW i \in Runs, budget'[i] = budget[i]
    PROVE  /\ Searches!Active(i)' = Searches!Active(i)
           /\ Full(i)' = Full(i)
           /\ Suits(i) => Suits(i)'
           /\ Rich(i) => Rich(i)'
           /\ Searches!CanStart(i)' => Searches!CanStart(i)
           /\ Searches!CanWiden(i)' => Searches!CanWiden(i)
           /\ Searches!CanDeepen(i)' => Searches!CanDeepen(i)
<1>1. /\ Searches!Active(i)' = Searches!Active(i) /\ Full(i)' = Full(i)
      /\ Exa(i)' = Exa(i) /\ Searches!Provider(i)' = Searches!Provider(i)
  BY DEF Searches!Active, Full, Exa, Searches!Provider, Searches!Proposals
<1>2. /\ Searches!MostResults(i)' = Searches!MostResults(i)
      /\ Searches!ExtraRequests(i)' = Searches!ExtraRequests(i)
      /\ Searches!MinimumRequests(i)' = Searches!MinimumRequests(i)
      /\ Searches!ExtraRequests(i) \in Nat /\ Searches!MinimumRequests(i) \in Nat
  BY Adapters
<1>3. left \in Amounts /\ budget[i] \in Amounts
  BY DEF Typed
<1>4. Suits(i) => Suits(i)'
  BY <1>1, <1>2 DEF Suits
<1>5. Rich(i) => Rich(i)'
  BY <1>2, <1>3 DEF Rich, Shrinks, Amounts
<1>6. Searches!CanStart(i)' => Searches!CanStart(i)
  <2>1. Searches!Offered(Searches!Proposals[i])' = Searches!Offered(Searches!Proposals[i])
    BY DEF Searches!Offered, Searches!Proposals, Searches!Limit
  <2>. QED
    BY <1>2, <1>3, <2>1 DEF Searches!CanStart, Shrinks, Amounts
<1>7. Searches!CanWiden(i)' => Searches!CanWiden(i)
  BY <1>1, <1>3 DEF Searches!CanWiden, Shrinks, Amounts, Searches!Proposals
<1>8. Searches!CanDeepen(i)' => Searches!CanDeepen(i)
  BY <1>1, <1>2, <1>3 DEF Searches!CanDeepen, Shrinks, Amounts
<1>. QED
  BY <1>1, <1>4, <1>5, <1>6, <1>7, <1>8

\* What a step of the dealing does: one run gets something, the cursor goes on.
LEMMA DealTo ==
    ASSUME Typed, NEW c, c = cursor, c \in Runs, NEW q \in Nat, NEW r \in Nat, NEW p \in Nat,
           q <= left.queries, r <= left.requests, p <= left.results,
           Searches!Deal(c, q, r, p), cursor' = c + 1, dealt' \in BOOLEAN,
           UNCHANGED <<wanted, planning, Searches!searching, cancelled>>
    PROVE  /\ Typed' /\ Shrinks /\ Runs' = Runs
           /\ budget'[c].queries = budget[c].queries + q
           /\ budget'[c].requests = budget[c].requests + r
           /\ budget'[c].results = budget[c].results + p
           /\ left'.queries = left.queries - q
           /\ left'.requests = left.requests - r
           /\ left'.results = left.results - p
           /\ \A j \in Runs \ {c} :
                /\ budget'[j] = budget[j] /\ Searches!Active(j)' = Searches!Active(j)
                /\ Seen(j)' = Seen(j)
                /\ Full(j)' = Full(j)
                /\ Suits(j) => Suits(j)'
                /\ Rich(j) => Rich(j)'
                /\ Searches!CanStart(j)' => Searches!CanStart(j)
                /\ Searches!CanWiden(j)' => Searches!CanWiden(j)
                /\ Searches!CanDeepen(j)' => Searches!CanDeepen(j)
<1>1. /\ budget' \in [Runs -> Amounts] /\ left' \in Amounts
      /\ \A j \in Runs \ {c} : budget'[j] = budget[j]
      /\ budget'[c] = [queries |-> budget[c].queries + q, requests |-> budget[c].requests + r,
                       results |-> budget[c].results + p]
      /\ left' = [queries |-> left.queries - q, requests |-> left.requests - r,
                  results |-> left.results - p]
  BY DealTyped
<1>2. Shrinks
  <2>1. left.queries \in Nat /\ left.requests \in Nat /\ left.results \in Nat
    BY DEF Typed, Amounts
  <2>2. /\ left'.queries = left.queries - q /\ left'.requests = left.requests - r
        /\ left'.results = left.results - p
    BY <1>1
  <2>. QED
    BY <2>1, <2>2 DEF Shrinks
<1>3. Runs' = Runs /\ c \in Nat /\ cursor' \in 1 .. Len(wanted.proposals) + 1
  BY Inputs DEF Typed, Runs
<1>4. Typed'
  BY <1>1, <1>3 DEF Typed, Searches!searching
<1>5. \A j \in Runs \ {c} : Seen(j)' = Seen(j)
  BY <1>3, Inputs DEF Seen, Runs
<1>6. \A j \in Runs \ {c} :
        /\ Searches!Active(j)' = Searches!Active(j)
        /\ Full(j)' = Full(j)
        /\ Suits(j) => Suits(j)'
        /\ Rich(j) => Rich(j)'
        /\ Searches!CanStart(j)' => Searches!CanStart(j)
        /\ Searches!CanWiden(j)' => Searches!CanWiden(j)
        /\ Searches!CanDeepen(j)' => Searches!CanDeepen(j)
  BY <1>1, <1>2, OthersStay
<1>. QED
  BY <1>1, <1>2, <1>3, <1>4, <1>5, <1>6

LEMMA StartKeeps ==
    ASSUME Dealing, Searches!Start
    PROVE  Dealing'
<1>0. PICK c \in Runs : c = cursor
  BY Inputs DEF Dealing, Typed, Searches!Start, Runs, Searches!Proposals
<1>. DEFINE min == Searches!MinimumRequests(c)
<1>1. /\ Typed /\ c \in Runs /\ Searches!CanStart(c) /\ planning = "starting"
      /\ Searches!Deal(c, 1, min, 1) /\ cursor' = c + 1
      /\ UNCHANGED <<wanted, planning, dealt, Searches!searching, cancelled>>
  BY <1>0 DEF Dealing, Searches!Start
<1>2. /\ min = IF Exa(c) THEN 1 ELSE 2
      /\ 1 <= left.queries /\ min <= left.requests /\ 1 <= left.results
  BY <1>1, Adapters DEF Searches!CanStart
<1>3. budget[c] = Searches!Nothing /\ ~Searches!Active(c)
  <2>1. budget[c] = Searches!Nothing
    BY <1>0, <1>1, Inputs DEF Dealing, Starting, Runs
  <2>. QED
    BY <2>1, NothingIsInactive
<1>. HIDE DEF min
<1>4. /\ Typed' /\ Shrinks /\ Runs' = Runs
      /\ budget'[c].queries = budget[c].queries + 1
      /\ budget'[c].requests = budget[c].requests + min
      /\ budget'[c].results = budget[c].results + 1
      /\ \A j \in Runs \ {c} :
           /\ budget'[j] = budget[j] /\ Searches!Active(j)' = Searches!Active(j)
           /\ Suits(j) => Suits(j)'
           /\ Searches!CanStart(j)' => Searches!CanStart(j)
  <2>1. 1 \in Nat /\ min \in Nat /\ dealt' \in BOOLEAN
    BY <1>1, <1>2 DEF Typed
  <2>. QED
    BY <1>0, <1>1, <1>2, <2>1, DealTo
<1>5. /\ budget'[c].queries = 1 /\ budget'[c].requests = min /\ budget'[c].results = 1
      /\ Searches!Active(c)' /\ Exa(c)' = Exa(c)
  BY <1>1, <1>2, <1>3, <1>4, Adapters DEF Searches!Nothing, Searches!Active
<1>6. Fitting'
  <2>1. Suits(c)'
    <3>1. Searches!MostResults(c)' >= 1 /\ Searches!MostResults(c)' \in Nat
      <4>1. Searches!MostResults(c)' = Most(Exa(c), 1)
        BY <1>1, <1>5, Adapters
      <4>2. Exa(c) \in BOOLEAN
        BY DEF Exa
      <4>. QED
        BY <4>1, <4>2, MostGrows
    <3>2. wanted'.proposals[c].variants >= 1
      BY <1>1, Inputs DEF Typed
    <3>. QED
      BY <1>2, <1>5, <3>1, <3>2 DEF Suits
  <2>. QED
    BY <1>4, <2>1 DEF Dealing, Fitting
<1>7. Starting'
  <2>1. ASSUME NEW i \in Runs, i >= cursor' PROVE budget'[i] = Searches!Nothing
    <3>1. i # c /\ i >= cursor
      BY <1>0, <1>1, <2>1, Inputs DEF Typed, Runs
    <3>. QED
      BY <1>1, <1>4, <3>1 DEF Dealing, Starting
  <2>2. ASSUME NEW i \in Runs, i < cursor', ~Searches!Active(i)'
        PROVE  ~Searches!CanStart(i)'
    <3>1. i # c /\ i < cursor
      BY <1>0, <1>1, <1>5, <2>2, Inputs DEF Typed, Runs
    <3>. QED
      BY <1>1, <1>4, <2>2, <3>1 DEF Dealing, Starting
  <2>3. ASSUME NEW i \in Runs, NEW j \in Runs, i < j, Exa(i)', Exa(j)', Searches!Active(j)'
        PROVE  Searches!Active(i)'
    <3>1. CASE i = c
      BY <1>5, <3>1
    <3>2. CASE i # c /\ j # c
      BY <1>1, <1>4, <2>3, <3>2, Adapters DEF Dealing, Starting
    \* The better name was offered what this one gets.
    <3>3. CASE i # c /\ j = c
      <4>1. Exa(i) /\ Exa(j) /\ i < cursor
        BY <1>0, <1>1, <2>3, <3>3, Adapters
      <4>2. wanted.proposals[i].name <= wanted.proposals[j].name
            /\ wanted.proposals[i].name \in Nat /\ wanted.proposals[j].name \in Nat
        BY <1>1, <2>3, Inputs DEF Typed
      <4>3. Searches!Limit("names") \in Nat
        BY <1>1, Limits DEF Typed, Searches!LimitKinds
      <4>4. Searches!Offered(Searches!Proposals[i])
        BY <1>1, <3>3, <4>1, <4>2, <4>3
           DEF Searches!CanStart, Searches!Offered, Searches!Proposals, Exa
      <4>5. Searches!CanStart(i)
        BY <1>1, <3>3, <4>1, <4>4, Adapters DEF Searches!CanStart
      <4>6. Searches!Active(i)
        BY <1>1, <4>1, <4>5 DEF Dealing, Starting
      <4>. QED
        BY <1>4, <3>3, <4>6
    <3>. QED
      BY <3>1, <3>2, <3>3
  <2>. QED
    BY <1>1, <1>4, <2>1, <2>2, <2>3, Adapters DEF Starting, Searches!Nothing
<1>8. Minimal'
  BY <1>1, <1>4, <1>5 DEF Dealing, Minimal
<1>9. QueriesEven' /\ ResultsEven' /\ NothingLeft'
  BY <1>1 DEF QueriesEven, ResultsEven, NothingLeft
<1>. QED
  BY <1>4, <1>6, <1>7, <1>8, <1>9 DEF Dealing

\* The run that has its turn is started, so what is said of denied runs says
\* nothing of it.
LEMMA StartedStays ==
    ASSUME Dealing, planning # "starting", planning' = planning, Runs' = Runs, wanted' = wanted,
           NEW c \in Runs, Searches!Active(c), Searches!Active(c)',
           \A j \in Runs \ {c} : /\ Searches!Active(j)' = Searches!Active(j)
                                 /\ Searches!CanStart(j)' => Searches!CanStart(j)
    PROVE  Starting'
<1>1. ASSUME NEW j \in Runs PROVE Searches!Active(j)' = Searches!Active(j)
  <2>1. CASE j = c
    BY <2>1 DEF Searches!Active
  <2>2. CASE j # c
    BY <2>2
  <2>. QED
    BY <2>1, <2>2
<1>2. \A j \in Runs : ~Searches!Active(j)' => ~Searches!CanStart(j)'
  BY <1>1 DEF Dealing, Starting
<1>3. \A i, j \in Runs : i < j /\ Exa(i)' /\ Exa(j)' /\ Searches!Active(j)' => Searches!Active(i)'
  BY <1>1, Adapters DEF Dealing, Starting
<1>. QED
  BY <1>2, <1>3 DEF Starting

LEMMA SeenIs ==
    ASSUME Typed, NEW c \in Runs, c = cursor, cursor' = c + 1
    PROVE  Seen(c) = 0 /\ Seen(c)' = 1 /\ \A i \in Runs : Seen(i) \in {0, 1}
BY Inputs DEF Typed, Runs, Seen

LEMMA WidenKeeps ==
    ASSUME Dealing, Searches!Widen
    PROVE  Dealing'
<1>0. PICK c \in Runs : c = cursor
  BY Inputs DEF Dealing, Typed, Searches!Widen, Runs, Searches!Proposals
<1>1. /\ Typed /\ Searches!CanWiden(c) /\ planning = "queries"
      /\ Searches!Deal(c, 1, 1, 0) /\ cursor' = c + 1 /\ dealt' = TRUE
      /\ UNCHANGED <<wanted, planning, Searches!searching, cancelled>>
  BY <1>0 DEF Dealing, Searches!Widen
<1>2. /\ Searches!Active(c) /\ Exa(c) /\ ~Full(c) /\ Suits(c)
      /\ budget[c].queries < wanted.proposals[c].variants
      /\ 1 <= left.queries /\ 1 <= left.requests /\ 0 <= left.results
      /\ left.queries # 0 /\ left.requests # 0
  <2>1. /\ Searches!Active(c) /\ Exa(c) /\ left.queries > 0 /\ left.requests > 0
        /\ budget[c].queries < wanted.proposals[c].variants
    BY <1>1, Adapters DEF Searches!CanWiden, Searches!Proposals
  <2>2. left \in Amounts /\ budget[c] \in Amounts
    BY <1>1 DEF Typed
  <2>3. Suits(c)
    BY <2>1, NothingIsInactive DEF Dealing, Fitting
  <2>. QED
    BY <2>1, <2>2, <2>3 DEF Amounts, Full
<1>3. /\ Typed' /\ Shrinks /\ Runs' = Runs
      /\ budget'[c].queries = budget[c].queries + 1
      /\ budget'[c].requests = budget[c].requests + 1
      /\ budget'[c].results = budget[c].results + 0
      /\ \A j \in Runs \ {c} :
           /\ budget'[j] = budget[j] /\ Searches!Active(j)' = Searches!Active(j)
           /\ Seen(j)' = Seen(j) /\ Full(j)' = Full(j)
           /\ Suits(j) => Suits(j)'
           /\ Searches!CanStart(j)' => Searches!CanStart(j)
  BY <1>0, <1>1, <1>2, DealTo
<1>4. budget \in [Runs -> Amounts]
  BY <1>1 DEF Typed
<1>5. Searches!Active(c)' /\ Exa(c)' = Exa(c)
  <2>1. budget[c].queries \in Nat /\ budget[c].queries > 0
    BY <1>2, <1>4 DEF Searches!Active, Amounts
  <2>2. budget'[c].queries > 0
    BY <1>3, <2>1
  <2>. QED
    BY <1>1, <2>2, Adapters DEF Searches!Active
<1>6. Fitting'
  <2>1. Suits(c)'
    <3>0. Exa(c) \in BOOLEAN
      BY DEF Exa
    <3>1. /\ budget[c].queries \in Nat /\ budget[c].results \in Nat /\ budget[c].requests \in Nat
          /\ wanted.proposals[c].variants \in Nat
      BY <1>1, <1>4, Inputs DEF Amounts, Typed
    <3>2. /\ Searches!MostResults(c) = Most(Exa(c), budget[c].queries)
          /\ Searches!MostResults(c)' = Most(Exa(c), budget[c].queries + 1)
      BY <1>1, <1>3, Adapters
    <3>3. /\ Searches!MostResults(c) \in Nat /\ Searches!MostResults(c)' \in Nat
          /\ Searches!MostResults(c) <= Searches!MostResults(c)'
      BY <3>0, <3>1, <3>2, MostGrows
    <3>. QED
      BY <1>1, <1>2, <1>3, <1>5, <3>1, <3>3 DEF Suits
  <2>. QED
    BY <1>3, <2>1 DEF Dealing, Fitting
<1>7. Starting'
  BY <1>1, <1>2, <1>3, <1>5, StartedStays
<1>8. Minimal'
  <2>1. budget'[c].results = budget[c].results
    BY <1>3, <1>4 DEF Amounts
  <2>. QED
    BY <1>1, <1>2, <1>3, <2>1 DEF Dealing, Minimal
<1>9. QueriesEven'
  <2>1. Seen(c) = 0 /\ Seen(c)' = 1 /\ \A i \in Runs : Seen(i) \in {0, 1}
    BY <1>0, <1>1, SeenIs
  <2>2. \A i, j \in Runs : Searches!Active(i) /\ Searches!Active(j) /\ Exa(i) /\ Exa(j) =>
           \/ Full(j)
           \/ /\ budget[i].queries <= budget[j].queries + 1
              /\ budget[i].queries - Seen(i) <= budget[j].queries - Seen(j)
    BY <1>1, <1>2 DEF Dealing, QueriesEven
  <2>3. \A i \in Runs : budget[i].queries \in Nat
    BY <1>4 DEF Amounts
  <2>4. ASSUME NEW i \in Runs, NEW j \in Runs, Searches!Active(i)', Searches!Active(j)',
               Exa(i)', Exa(j)'
        PROVE  \/ Full(j)'
               \/ /\ budget'[i].queries <= budget'[j].queries + 1
                  /\ budget'[i].queries - Seen(i)' <= budget'[j].queries - Seen(j)'
    <3>1. Searches!Active(i) /\ Searches!Active(j) /\ Exa(i) /\ Exa(j)
      BY <1>1, <1>2, <1>3, <2>4, Adapters
    <3>2. CASE i = c /\ j = c
      BY <1>2, <1>3, <2>1, <2>3, <3>2
    <3>3. CASE i = c /\ j # c
      BY <1>3, <2>1, <2>2, <2>3, <3>1, <3>3
    <3>4. CASE i # c /\ j = c
      BY <1>2, <1>3, <2>1, <2>2, <2>3, <3>1, <3>4
    <3>5. CASE i # c /\ j # c
      BY <1>3, <2>2, <3>1, <3>5
    <3>. QED
      BY <3>2, <3>3, <3>4, <3>5
  <2>. QED
    BY <1>3, <2>4 DEF QueriesEven
<1>10. ResultsEven' /\ NothingLeft'
  BY <1>1 DEF ResultsEven, NothingLeft
<1>. QED
  BY <1>3, <1>6, <1>7, <1>8, <1>9, <1>10 DEF Dealing

LEMMA DeepenKeeps ==
    ASSUME Dealing, Searches!Deepen
    PROVE  Dealing'
<1>0. PICK c \in Runs : c = cursor
  BY Inputs DEF Dealing, Typed, Searches!Deepen, Runs, Searches!Proposals
<1>. DEFINE extra == Searches!ExtraRequests(c)
<1>1. /\ Typed /\ Searches!CanDeepen(c) /\ planning = "profiles"
      /\ Searches!Deal(c, 0, extra, 1) /\ cursor' = c + 1 /\ dealt' = TRUE
      /\ UNCHANGED <<wanted, planning, Searches!searching, cancelled>>
  BY <1>0 DEF Dealing, Searches!Deepen
<1>2. extra = IF Exa(c) THEN 0 ELSE 1
  BY Adapters
<1>3. extra \in Nat /\ Searches!ExtraRequests(c) = extra
  BY <1>2
<1>. HIDE DEF extra
<1>4. /\ Searches!Active(c) /\ Suits(c) /\ ~Rich(c)
      /\ budget[c].results < Searches!MostResults(c)
      /\ 0 <= left.queries /\ extra <= left.requests /\ 1 <= left.results
      /\ left.results # 0
  <2>1. /\ Searches!Active(c) /\ left.results > 0 /\ left.requests >= extra
        /\ budget[c].results < Searches!MostResults(c)
    BY <1>1, <1>3 DEF Searches!CanDeepen
  <2>2. left \in Amounts /\ budget[c] \in Amounts
    BY <1>1 DEF Typed
  <2>3. Suits(c)
    BY <2>1, NothingIsInactive DEF Dealing, Fitting
  <2>4. Exa(c) \in BOOLEAN
    BY DEF Exa
  <2>5. Searches!MostResults(c) \in Nat
    BY <2>2, <2>4, Adapters, MostGrows DEF Amounts
  <2>. QED
    BY <1>3, <2>1, <2>2, <2>3, <2>5 DEF Amounts, Rich
<1>5. /\ Typed' /\ Shrinks /\ Runs' = Runs
      /\ budget'[c].queries = budget[c].queries + 0
      /\ budget'[c].requests = budget[c].requests + extra
      /\ budget'[c].results = budget[c].results + 1
      /\ \A j \in Runs \ {c} :
           /\ budget'[j] = budget[j] /\ Searches!Active(j)' = Searches!Active(j)
           /\ Seen(j)' = Seen(j) /\ Full(j)' = Full(j)
           /\ Suits(j) => Suits(j)'
           /\ Rich(j) => Rich(j)'
           /\ Searches!CanStart(j)' => Searches!CanStart(j)
           /\ Searches!CanWiden(j)' => Searches!CanWiden(j)
  BY <1>0, <1>1, <1>3, <1>4, DealTo
<1>6. /\ \A i \in Runs : budget[i].queries \in Nat /\ budget[i].results \in Nat
      /\ budget[c].requests \in Nat
      /\ left \in Amounts /\ left' \in Amounts
  BY <1>1, <1>5 DEF Typed, Amounts
<1>7. /\ budget'[c].queries = budget[c].queries
      /\ Searches!Active(c)' /\ Exa(c)' = Exa(c) /\ Full(c)' = Full(c)
      /\ Searches!MostResults(c)' = Searches!MostResults(c)
      /\ Searches!CanWiden(c)' => Searches!CanWiden(c)
  <2>1. budget'[c].queries = budget[c].queries
    BY <1>5, <1>6
  <2>2. /\ Searches!Active(c)' /\ Exa(c)' = Exa(c) /\ Full(c)' = Full(c)
        /\ Searches!Provider(c)' = Searches!Provider(c)
    BY <1>1, <1>4, <2>1, Adapters
       DEF Searches!Active, Full, Searches!Provider, Searches!Proposals
  <2>3. Searches!MostResults(c)' = Searches!MostResults(c)
    BY <1>1, <2>1, Adapters
  <2>4. left'.queries > 0 /\ left'.requests > 0 => left.queries > 0 /\ left.requests > 0
    BY <1>5, <1>6 DEF Shrinks, Amounts
  <2>5. Searches!CanWiden(c)' => Searches!CanWiden(c)
    BY <1>1, <1>4, <2>1, <2>2, <2>4 DEF Searches!CanWiden, Searches!Proposals
  <2>. QED
    BY <2>1, <2>2, <2>3, <2>5
<1>8. Fitting'
  <2>1. Suits(c)'
    <3>1. /\ budget[c].queries \in Nat /\ budget[c].results \in Nat /\ budget[c].requests \in Nat
          /\ Searches!MostResults(c) \in Nat
      <4>1. Exa(c) \in BOOLEAN
        BY DEF Exa
      <4>. QED
        BY <1>6, <4>1, Adapters, MostGrows
    <3>. QED
      BY <1>1, <1>2, <1>4, <1>5, <1>7, <3>1 DEF Suits
  <2>. QED
    BY <1>5, <2>1 DEF Dealing, Fitting
<1>9. Starting'
  BY <1>1, <1>4, <1>5, <1>7, StartedStays
<1>10. Minimal'
  BY <1>1 DEF Minimal
<1>11. QueriesEven'
  <2>1. \A i \in Runs : /\ budget'[i].queries = budget[i].queries /\ Full(i)' = Full(i)
                        /\ Searches!Active(i)' => Searches!Active(i)
    BY <1>4, <1>5, <1>7
  <2>. QED
    BY <1>1, <1>5, <2>1, Adapters DEF Dealing, QueriesEven
<1>12. ResultsEven'
  <2>1. Seen(c) = 0 /\ Seen(c)' = 1 /\ \A i \in Runs : Seen(i) \in {0, 1}
    BY <1>0, <1>1, SeenIs
  <2>2. \A i, j \in Runs : Searches!Active(i) /\ Searches!Active(j) =>
           \/ Rich(j)
           \/ /\ budget[i].results <= budget[j].results + 1
              /\ budget[i].results - Seen(i) <= budget[j].results - Seen(j)
    BY <1>1, <1>4 DEF Dealing, ResultsEven
  <2>3. \A i \in Runs : budget[i].results \in Nat
    BY <1>6
  <2>4. ASSUME NEW i \in Runs, NEW j \in Runs, Searches!Active(i)', Searches!Active(j)'
        PROVE  \/ Rich(j)'
               \/ /\ budget'[i].results <= budget'[j].results + 1
                  /\ budget'[i].results - Seen(i)' <= budget'[j].results - Seen(j)'
    <3>1. Searches!Active(i) /\ Searches!Active(j)
      BY <1>4, <1>5, <2>4
    <3>2. CASE i = c /\ j = c
      BY <1>5, <2>1, <2>3, <3>2
    <3>3. CASE i = c /\ j # c
      BY <1>5, <2>1, <2>2, <2>3, <3>1, <3>3
    <3>4. CASE i # c /\ j = c
      BY <1>4, <1>5, <2>1, <2>2, <2>3, <3>1, <3>4
    <3>5. CASE i # c /\ j # c
      BY <1>5, <2>2, <3>1, <3>5
    <3>. QED
      BY <3>2, <3>3, <3>4, <3>5
  <2>. QED
    BY <1>5, <2>4 DEF ResultsEven
<1>13. NothingLeft'
  <2>1. \A i \in Runs : ~Searches!CanWiden(i)
    BY <1>1 DEF Dealing, NothingLeft
  <2>2. \A i \in Runs : ~Searches!CanWiden(i)'
    BY <1>5, <1>7, <2>1
  <2>. QED
    BY <1>1, <1>5, <2>2 DEF NothingLeft
<1>. QED
  BY <1>5, <1>8, <1>9, <1>10, <1>11, <1>12, <1>13 DEF Dealing

\* Where only the cursor moves.
LEMMA Unmoved ==
    ASSUME UNCHANGED <<wanted, budget, left>>
    PROVE  /\ Runs' = Runs /\ Fitting' = Fitting
           /\ \A i : /\ Searches!Active(i)' = Searches!Active(i) /\ Exa(i)' = Exa(i)
                     /\ Full(i)' = Full(i) /\ Rich(i)' = Rich(i)
                     /\ Searches!CanStart(i)' = Searches!CanStart(i)
                     /\ Searches!CanWiden(i)' = Searches!CanWiden(i)
                     /\ Searches!CanDeepen(i)' = Searches!CanDeepen(i)
<1>1. Runs' = Runs
  BY DEF Runs
<1>2. \A i : /\ Searches!Active(i)' = Searches!Active(i) /\ Exa(i)' = Exa(i)
             /\ Searches!Provider(i)' = Searches!Provider(i)
             /\ Full(i)' = Full(i)
  BY DEF Searches!Active, Exa, Full, Searches!Provider, Searches!Proposals
<1>3. \A i : /\ Searches!MostResults(i)' = Searches!MostResults(i)
             /\ Searches!ExtraRequests(i)' = Searches!ExtraRequests(i)
             /\ Searches!MinimumRequests(i)' = Searches!MinimumRequests(i)
  BY Adapters
<1>4. \A i : Rich(i)' = Rich(i) /\ Suits(i)' = Suits(i)
  BY <1>2, <1>3 DEF Rich, Suits
<1>5. \A i : Searches!CanStart(i)' = Searches!CanStart(i)
  <2>1. \A i : Searches!Offered(Searches!Proposals[i])' = Searches!Offered(Searches!Proposals[i])
    BY DEF Searches!Offered, Searches!Proposals, Searches!Limit
  <2>. QED
    BY <1>3, <2>1 DEF Searches!CanStart
<1>6. \A i : /\ Searches!CanWiden(i)' = Searches!CanWiden(i)
             /\ Searches!CanDeepen(i)' = Searches!CanDeepen(i)
  BY <1>2, <1>3 DEF Searches!CanWiden, Searches!CanDeepen, Searches!Proposals
<1>7. Fitting' = Fitting
  BY <1>1, <1>4 DEF Fitting, Searches!Nothing
<1>. QED
  BY <1>1, <1>2, <1>4, <1>5, <1>6, <1>7

\* A run that has a share and is denied more has as much as it can take.
LEMMA DeniedIsFull ==
    ASSUME Typed, Fitting, NEW c \in Runs, Searches!Active(c)
    PROVE  /\ Exa(c) /\ left.queries # 0 /\ left.requests # 0 /\ ~Searches!CanWiden(c) => Full(c)
           /\ left.results # 0 /\ ~Searches!CanDeepen(c) => Rich(c)
<1>1. Suits(c)
  BY NothingIsInactive DEF Fitting
<1>2. budget[c] \in Amounts /\ left \in Amounts /\ wanted.proposals[c].variants \in Nat
  BY Inputs DEF Typed
<1>3. Searches!MostResults(c) \in Nat /\ Searches!ExtraRequests(c) \in Nat
  <2>1. Exa(c) \in BOOLEAN
    BY DEF Exa
  <2>. QED
    BY <1>2, <2>1, Adapters, MostGrows DEF Amounts
<1>4. ASSUME Exa(c), left.queries # 0, left.requests # 0, ~Searches!CanWiden(c) PROVE Full(c)
  <2>1. Searches!Provider(c) = "exa"
    BY <1>4 DEF Searches!Provider, Searches!Proposals, Exa
  <2>2. left.queries > 0 /\ left.requests > 0
    BY <1>2, <1>4 DEF Amounts
  <2>3. ~(budget[c].queries < wanted.proposals[c].variants)
    BY <1>4, <2>1, <2>2 DEF Searches!CanWiden, Searches!Proposals
  <2>. QED
    BY <1>1, <1>2, <1>4, <2>3 DEF Full, Suits, Amounts
<1>5. ASSUME left.results # 0, ~Searches!CanDeepen(c) PROVE Rich(c)
  BY <1>1, <1>2, <1>3, <1>5 DEF Searches!CanDeepen, Rich, Suits, Amounts
<1>. QED
  BY <1>4, <1>5

LEMMA PassOverKeeps ==
    ASSUME Dealing, Searches!PassOver
    PROVE  Dealing'
<1>0. PICK c \in Runs : c = cursor
  BY Inputs DEF Dealing, Typed, Searches!PassOver, Runs, Searches!Proposals
<1>1. /\ Typed /\ Fitting /\ cursor' = c + 1
      /\ \/ planning = "starting" /\ ~Searches!CanStart(c)
         \/ planning = "queries" /\ ~Searches!CanWiden(c)
         \/ planning = "profiles" /\ ~Searches!CanDeepen(c)
      /\ UNCHANGED <<wanted, planning, dealt, budget, left, Searches!searching, cancelled>>
  BY <1>0 DEF Dealing, Searches!PassOver
<1>2. /\ Runs' = Runs /\ Fitting'
      /\ \A i : /\ Searches!Active(i)' = Searches!Active(i) /\ Exa(i)' = Exa(i)
                /\ Full(i)' = Full(i) /\ Rich(i)' = Rich(i)
                /\ Searches!CanStart(i)' = Searches!CanStart(i)
                /\ Searches!CanWiden(i)' = Searches!CanWiden(i)
                /\ Searches!CanDeepen(i)' = Searches!CanDeepen(i)
  BY <1>1, Unmoved
<1>3. Typed'
  <2>1. cursor' \in 1 .. Len(wanted.proposals) + 1
    BY <1>1, Inputs DEF Typed, Runs
  <2>. QED
    BY <1>1, <1>2, <2>1 DEF Typed, Searches!searching
<1>4. \A i \in Runs : /\ i >= cursor' => i >= cursor
                      /\ i < cursor' => i < cursor \/ i = c
  BY <1>0, <1>1 DEF Runs
<1>5. Starting'
  <2>1. \A i \in Runs : (planning = "starting" => i < cursor') /\ ~Searches!Active(i)
                           => ~Searches!CanStart(i)
    BY <1>1, <1>4 DEF Dealing, Starting
  <2>. QED
    BY <1>1, <1>2, <1>4, <2>1 DEF Dealing, Starting, Searches!Nothing
<1>6. Minimal'
  BY <1>1, <1>2 DEF Dealing, Minimal
<1>7. /\ Seen(c) = 0 /\ Seen(c)' = 1
      /\ \A i \in Runs : Seen(i) \in {0, 1} /\ (i # c => Seen(i)' = Seen(i))
      /\ \A i \in Runs : budget[i].queries \in Nat /\ budget[i].results \in Nat
  <2>1. Seen(c) = 0 /\ Seen(c)' = 1 /\ \A i \in Runs : Seen(i) \in {0, 1}
    BY <1>0, <1>1, SeenIs
  <2>2. \A i \in Runs : i # c => Seen(i)' = Seen(i)
    BY <1>0, <1>1 DEF Seen, Runs
  <2>. QED
    BY <1>1, <2>1, <2>2 DEF Typed, Amounts
<1>8. QueriesEven'
  <2>1. ASSUME planning = "queries", NEW i \in Runs, NEW j \in Runs,
               Searches!Active(i), Searches!Active(j), Exa(i), Exa(j),
               left.queries # 0, left.requests # 0
        PROVE  Full(j) \/ budget[i].queries - Seen(i)' <= budget[j].queries - Seen(j)'
    <3>1. Full(j) \/ budget[i].queries - Seen(i) <= budget[j].queries - Seen(j)
      BY <2>1 DEF Dealing, QueriesEven
    <3>2. CASE j = c
      BY <1>1, <2>1, <3>2, DeniedIsFull
    <3>3. CASE i = c /\ j # c
      BY <1>7, <3>1, <3>3
    <3>4. CASE i # c /\ j # c
      BY <1>7, <3>1, <3>4
    <3>. QED
      BY <3>2, <3>3, <3>4
  <2>. QED
    BY <1>1, <1>2, <2>1 DEF Dealing, QueriesEven
<1>9. ResultsEven'
  <2>1. ASSUME planning = "profiles", NEW i \in Runs, NEW j \in Runs,
               Searches!Active(i), Searches!Active(j), left.results # 0
        PROVE  Rich(j) \/ budget[i].results - Seen(i)' <= budget[j].results - Seen(j)'
    <3>1. Rich(j) \/ budget[i].results - Seen(i) <= budget[j].results - Seen(j)
      BY <2>1 DEF Dealing, ResultsEven
    <3>2. CASE j = c
      BY <1>1, <2>1, <3>2, DeniedIsFull
    <3>3. CASE i = c /\ j # c
      BY <1>7, <3>1, <3>3
    <3>4. CASE i # c /\ j # c
      BY <1>7, <3>1, <3>4
    <3>. QED
      BY <3>2, <3>3, <3>4
  <2>. QED
    BY <1>1, <1>2, <2>1 DEF Dealing, ResultsEven
<1>10. NothingLeft'
  BY <1>1, <1>2, <1>4 DEF Dealing, NothingLeft
<1>. QED
  BY <1>2, <1>3, <1>5, <1>6, <1>8, <1>9, <1>10 DEF Dealing

LEMMA NextRoundKeeps ==
    ASSUME Dealing, Searches!NextRound
    PROVE  Dealing'
<1>1. /\ Typed /\ Fitting /\ cursor' = 1 /\ dealt' = FALSE /\ cursor > Len(wanted.proposals)
      /\ \/ planning = "starting" /\ planning' = "queries"
         \/ planning = "queries" /\ dealt /\ planning' = "queries"
         \/ planning = "queries" /\ ~dealt /\ planning' = "profiles"
         \/ planning = "profiles" /\ dealt /\ planning' = "profiles"
         \/ planning = "profiles" /\ ~dealt /\ planning' = "planned"
      /\ UNCHANGED <<wanted, budget, left, Searches!searching, cancelled>>
  BY DEF Dealing, Typed, Searches!NextRound, Searches!Proposals
<1>2. /\ Runs' = Runs /\ Fitting'
      /\ \A i : /\ Searches!Active(i)' = Searches!Active(i) /\ Exa(i)' = Exa(i)
                /\ Full(i)' = Full(i) /\ Rich(i)' = Rich(i)
                /\ Searches!CanStart(i)' = Searches!CanStart(i)
                /\ Searches!CanWiden(i)' = Searches!CanWiden(i)
                /\ Searches!CanDeepen(i)' = Searches!CanDeepen(i)
  BY <1>1, Unmoved
<1>3. Typed'
  <2>1. cursor' \in 1 .. Len(wanted.proposals) + 1
    BY <1>1, Inputs DEF Typed
  <2>2. /\ planning' \in {"starting", "queries", "profiles", "planned", "running", "done"}
        /\ planning # "done" /\ planning' # "done"
    BY <1>1
  <2>. QED
    BY <1>1, <1>2, <2>1, <2>2 DEF Typed, Searches!searching
\* Every run has had its turn, and none has had it in the next round.
<1>4. \A i \in Runs : i < cursor /\ ~(i < cursor') /\ Seen(i) = 1 /\ Seen(i)' = 0
  BY <1>1, Inputs DEF Typed, Runs, Seen
<1>5. Starting'
  BY <1>1, <1>2, <1>4 DEF Dealing, Starting
<1>6. Minimal'
  BY <1>1, <1>2 DEF Dealing, Minimal
<1>7. \A i \in Runs : budget[i].queries \in Nat /\ budget[i].results \in Nat
  BY <1>1 DEF Typed, Amounts
<1>8. QueriesEven'
  <2>1. CASE planning = "starting"
    <3>1. \A i \in Runs : Searches!Active(i) => budget[i].queries = 1
      BY <2>1 DEF Dealing, Minimal
    <3>2. \A i, j \in Runs : Searches!Active(i) /\ Searches!Active(j) =>
             /\ budget[i].queries <= budget[j].queries + 1
             /\ budget[i].queries - Seen(i)' <= budget[j].queries - Seen(j)'
      BY <1>4, <3>1
    <3>. QED
      BY <1>1, <1>2, <3>2 DEF QueriesEven
  <2>2. CASE planning # "starting"
    <3>1. \A i, j \in Runs : Searches!Active(i) /\ Searches!Active(j) /\ Exa(i) /\ Exa(j) =>
             /\ Full(j) \/ budget[i].queries <= budget[j].queries + 1
             /\ planning = "queries" =>
                  \/ left.queries = 0 \/ left.requests = 0
                  \/ Full(j) \/ budget[i].queries - Seen(i)' <= budget[j].queries - Seen(j)'
      BY <1>4, <1>7, <2>2 DEF Dealing, QueriesEven
    <3>. QED
      BY <1>1, <1>2, <2>2, <3>1 DEF QueriesEven
  <2>. QED
    BY <2>1, <2>2
<1>9. ResultsEven'
  <2>1. CASE planning \in {"starting", "queries"}
    <3>1. \A i \in Runs : Searches!Active(i) => budget[i].results = 1
      BY <2>1 DEF Dealing, Minimal
    <3>2. \A i, j \in Runs : Searches!Active(i) /\ Searches!Active(j) =>
             /\ budget[i].results <= budget[j].results + 1
             /\ budget[i].results - Seen(i)' <= budget[j].results - Seen(j)'
      BY <1>4, <3>1
    <3>. QED
      BY <1>1, <1>2, <3>2 DEF ResultsEven
  <2>2. CASE planning \notin {"starting", "queries"}
    <3>1. \A i, j \in Runs : Searches!Active(i) /\ Searches!Active(j) =>
             /\ Rich(j) \/ budget[i].results <= budget[j].results + 1
             /\ planning = "profiles" =>
                  \/ left.results = 0
                  \/ Rich(j) \/ budget[i].results - Seen(i)' <= budget[j].results - Seen(j)'
      BY <1>4, <1>7, <2>2 DEF Dealing, ResultsEven
    <3>. QED
      BY <1>1, <1>2, <2>2, <3>1 DEF ResultsEven
  <2>. QED
    BY <2>1, <2>2
<1>10. NothingLeft'
  BY <1>1, <1>2, <1>4 DEF Dealing, NothingLeft
<1>. QED
  BY <1>2, <1>3, <1>5, <1>6, <1>8, <1>9, <1>10 DEF Dealing

-----------------------------------------------------------------------------
(* The searching *)

\* What a run may have asked and found.
Within(a, p) ==
    /\ a \in Nat /\ a <= budget[run].requests
    /\ p \in Nat /\ p <= budget[run].results
    /\ p > 0 => a > 0
    /\ ~Exa(run) => p = 0 \/ p <= a - 1

Honest ==
    /\ planning \notin {"running", "done"} => run = 0 /\ asked = 0 /\ profiles = 0 /\ failures = {}
    /\ planning \in {"running", "done"} => run \in Runs /\ Searches!Active(run) /\ Within(asked, profiles)
    /\ Searches!ConclusiveWhenLooked

Failures == Searches!Serious \cup {"no_result"}

\* The most urgent of some failures is one of them, and a serious one before
\* "no_result".
LEMMA MostUrgentIs ==
    ASSUME NEW failed \in SUBSET Failures, failed # {}
    PROVE  /\ Searches!MostUrgent(failed) \in failed
           /\ failed \cap Searches!Serious # {} => Searches!MostUrgent(failed) \in Searches!Serious
<1>. DEFINE U(s) == Searches!Urgency(s)
            First(s) == s \in failed /\ \A o \in failed : U(s) <= U(o)
<1>1. /\ U("auth_required") = 0 /\ U("rate_limited") = 1 /\ U("timeout") = 2
      /\ U("provider_error") = 3 /\ U("invalid_response") = 4 /\ U("no_result") = 5
  BY DEF Searches!Urgency
<1>2. /\ \A s \in failed : s \in {"auth_required", "rate_limited", "timeout", "provider_error",
                                  "invalid_response", "no_result"}
      /\ Searches!Serious = {"auth_required", "rate_limited", "timeout", "provider_error",
                             "invalid_response"}
  BY DEF Failures, Searches!Serious
<1>. HIDE DEF U
<1>3. \E s \in failed : First(s)
  <2>1. CASE "auth_required" \in failed
    <3>. WITNESS "auth_required" \in failed
    <3>. QED
      BY <1>1, <1>2, <2>1
  <2>2. CASE "rate_limited" \in failed /\ "auth_required" \notin failed
    <3>. WITNESS "rate_limited" \in failed
    <3>. QED
      BY <1>1, <1>2, <2>2
  <2>3. CASE "timeout" \in failed /\ failed \cap {"auth_required", "rate_limited"} = {}
    <3>. WITNESS "timeout" \in failed
    <3>. QED
      BY <1>1, <1>2, <2>3
  <2>4. CASE /\ "provider_error" \in failed
             /\ failed \cap {"auth_required", "rate_limited", "timeout"} = {}
    <3>. WITNESS "provider_error" \in failed
    <3>. QED
      BY <1>1, <1>2, <2>4
  <2>5. CASE /\ "invalid_response" \in failed
             /\ failed \cap {"auth_required", "rate_limited", "timeout", "provider_error"} = {}
    <3>. WITNESS "invalid_response" \in failed
    <3>. QED
      BY <1>1, <1>2, <2>5
  <2>6. CASE failed \cap {"auth_required", "rate_limited", "timeout", "provider_error",
                          "invalid_response"} = {}
    <3>1. failed = {"no_result"}
      BY <1>2, <2>6
    <3>. QED
      BY <1>1, <3>1
  <2>. QED
    BY <2>1, <2>2, <2>3, <2>4, <2>5, <2>6
<1>. DEFINE first == CHOOSE s \in failed : \A o \in failed : U(s) <= U(o)
<1>4. First(first)
  BY <1>3
<1>5. Searches!MostUrgent(failed) = first
  BY DEF Searches!MostUrgent, U
<1>. HIDE DEF first
<1>6. ASSUME failed \cap Searches!Serious # {} PROVE first \in Searches!Serious
  <2>1. PICK s \in failed : s \in Searches!Serious
    BY <1>6
  <2>2. U(first) <= U(s) /\ U(s) <= 4
    BY <1>1, <1>2, <1>4, <2>1
  <2>3. first # "no_result"
    BY <1>1, <1>2, <2>1, <2>2
  <2>. QED
    BY <1>2, <1>4, <2>3
<1>. QED
  BY <1>4, <1>5, <1>6

\* A run concludes with "success" or "no_result" only without a serious
\* failure, and with "success" only if it found something.
LEMMA Concludes ==
    ASSUME NEW found \in Nat, NEW failed \in SUBSET Failures
    PROVE  /\ Searches!Conclude(found, failed) \in Failures \cup {"success", "partial_success"}
           /\ Searches!Conclude(found, failed) \in {"success", "no_result"} =>
                /\ failed \cap Searches!Serious = {}
                /\ Searches!Conclude(found, failed) = "success" <=> found > 0
<1>1. PICK status : status = Searches!Conclude(found, failed)
  OBVIOUS
<1>2. /\ "no_result" \in Failures /\ "success" \notin Failures
      /\ "no_result" \notin Searches!Serious
  BY DEF Failures, Searches!Serious
<1>3. CASE found > 0
  <2>1. status = IF failed \cap Searches!Serious # {} THEN "partial_success" ELSE "success"
    BY <1>1, <1>3 DEF Searches!Conclude
  <2>. QED
    BY <1>1, <1>3, <2>1
<1>4. CASE ~(found > 0)
  <2>1. /\ status \in Failures
        /\ status = "no_result" => failed \cap Searches!Serious = {}
    <3>1. CASE failed = {}
      <4>1. status = "no_result"
        BY <1>1, <1>4, <3>1 DEF Searches!Conclude
      <4>. QED
        BY <1>2, <3>1, <4>1
    <3>2. CASE failed # {}
      <4>1. status = Searches!MostUrgent(failed)
        BY <1>1, <1>4, <3>2 DEF Searches!Conclude
      <4>2. status \in failed /\ (failed \cap Searches!Serious # {} => status \in Searches!Serious)
        BY <3>2, <4>1, MostUrgentIs
      <4>. QED
        BY <1>2, <4>2
    <3>. QED
      BY <3>1, <3>2
  <2>. QED
    BY <1>1, <1>2, <1>4, <2>1
<1>. QED
  BY <1>3, <1>4

\* The dealing is over.
LEMMA DealingRests ==
    ASSUME Dealing, planning \in {"planned", "running"}, planning' \in {"running", "done"}, Typed',
           UNCHANGED <<wanted, Searches!dealing>>
    PROVE  Dealing'
<1>1. UNCHANGED <<wanted, cursor, dealt, budget, left>>
  BY DEF Searches!dealing
<1>2. /\ Runs' = Runs /\ Fitting'
      /\ \A i : /\ Searches!Active(i)' = Searches!Active(i) /\ Exa(i)' = Exa(i)
                /\ Full(i)' = Full(i) /\ Rich(i)' = Rich(i)
                /\ Searches!CanStart(i)' = Searches!CanStart(i)
                /\ Searches!CanWiden(i)' = Searches!CanWiden(i)
                /\ Searches!CanDeepen(i)' = Searches!CanDeepen(i)
  BY <1>1, Unmoved DEF Dealing
<1>3. Starting' /\ Minimal'
  BY <1>1, <1>2 DEF Dealing, Starting, Minimal
<1>4. QueriesEven' /\ ResultsEven'
  BY <1>1, <1>2 DEF Dealing, QueriesEven, ResultsEven
<1>5. NothingLeft'
  BY <1>1, <1>2 DEF Dealing, NothingLeft
<1>. QED
  BY <1>2, <1>3, <1>4, <1>5 DEF Dealing

\* The run that is out has a share.
LEMMA MineIs ==
    ASSUME Dealing, Honest, planning = "running"
    PROVE  /\ Typed /\ run \in Runs /\ Searches!Active(run) /\ Within(asked, profiles)
           /\ Searches!Mine = budget[run]
           /\ budget[run].requests \in Nat \ {0} /\ budget[run].results \in Nat \ {0}
           /\ ~Exa(run) => budget[run].requests = budget[run].results + 1
           /\ outcome = None /\ failures \in SUBSET Failures
           /\ (Searches!Provider(run) = "exa") = Exa(run)
<1>1. /\ Typed /\ Fitting /\ run \in Runs /\ Searches!Active(run) /\ Within(asked, profiles)
  BY DEF Dealing, Honest
<1>2. Suits(run)
  BY <1>1, NothingIsInactive DEF Fitting
<1>3. budget[run] \in Amounts
  BY <1>1 DEF Typed
<1>4. /\ budget[run].requests \in Nat \ {0} /\ budget[run].results \in Nat \ {0}
      /\ ~Exa(run) => budget[run].requests = budget[run].results + 1
  BY <1>2, <1>3 DEF Suits, Amounts
<1>5. outcome = None /\ failures \in SUBSET Failures
  BY <1>1 DEF Typed, Failures
<1>. QED
  BY <1>1, <1>4, <1>5, Adapters DEF Searches!Mine

\* A step of the run that is out, after which it is still out.
LEMMA GoesOn ==
    ASSUME Dealing, Honest, planning = "running", planning' = "running",
           UNCHANGED <<wanted, Searches!dealing, run, outcome>>,
           Within(asked', profiles'), stagnant' \in Nat, failures' \in SUBSET Failures,
           cancelled' \in BOOLEAN
    PROVE  Dealing' /\ Honest'
<1>1. Typed /\ Typed'
  BY DEF Dealing, Typed, Searches!dealing, Runs, Within, Failures
<1>2. Dealing'
  BY <1>1, DealingRests
<1>3. Searches!Active(run)' /\ Within(asked, profiles)' /\ run' \in Runs'
  BY MineIs DEF Within, Searches!Active, Searches!dealing, Exa, Runs
<1>. QED
  BY <1>2, <1>3 DEF Honest, Searches!ConclusiveWhenLooked

\* And its last step.
LEMMA Ends ==
    ASSUME Dealing, Honest, planning = "running", NEW status, NEW stopped,
           Searches!Finish(status, stopped),
           UNCHANGED <<wanted, Searches!dealing, run>>,
           Within(asked', profiles'), stagnant' \in Nat, failures' \in SUBSET Failures,
           cancelled' \in BOOLEAN,
           [status |-> status, stopped |-> stopped] \in Searches!Outcome,
           status \in {"success", "no_result"} =>
             /\ asked' > 0 /\ failures' \cap Searches!Serious = {}
             /\ stopped \in {"spent", "stagnant"}
             /\ status = "success" <=> profiles' > 0
    PROVE  Dealing' /\ Honest'
<1>0. planning' = "done" /\ outcome' = [status |-> status, stopped |-> stopped]
  BY DEF Searches!Finish
<1>1. Typed /\ Typed'
  BY <1>0 DEF Dealing, Typed, Searches!dealing, Runs, Within, Failures
<1>2. Dealing'
  BY <1>0, <1>1, DealingRests
<1>3. Searches!Active(run)' /\ Within(asked, profiles)' /\ run' \in Runs'
  BY MineIs DEF Within, Searches!Active, Searches!dealing, Exa, Runs
<1>4. Searches!ConclusiveWhenLooked'
  BY <1>0 DEF Searches!ConclusiveWhenLooked
<1>. QED
  BY <1>0, <1>2, <1>3, <1>4 DEF Honest

\* A run that ends with what it concludes.
LEMMA EndsConcluding ==
    ASSUME Dealing, Honest, planning = "running",
           NEW stopped \in {"spent", "stagnant", "late", "failed"},
           Searches!Finish(Searches!Conclude(profiles', failures'), stopped),
           UNCHANGED <<wanted, Searches!dealing, run, cancelled>>,
           Within(asked', profiles'), stagnant' \in Nat, failures' \in SUBSET Failures,
           \/ failures' \cap Searches!Serious # {}
           \/ asked' > 0 /\ stopped \in {"spent", "stagnant"}
    PROVE  Dealing' /\ Honest'
<1>1. PICK status : status = Searches!Conclude(profiles', failures')
  OBVIOUS
<1>2. profiles' \in Nat /\ cancelled' \in BOOLEAN
  BY DEF Within, Dealing, Typed
<1>3. /\ status \in Failures \cup {"success", "partial_success"}
      /\ status \in {"success", "no_result"} =>
           /\ failures' \cap Searches!Serious = {}
           /\ status = "success" <=> profiles' > 0
  BY <1>1, <1>2, Concludes
<1>4. [status |-> status, stopped |-> stopped] \in Searches!Outcome
  BY <1>3 DEF Searches!Outcome, Failures
<1>5. Searches!Finish(status, stopped)
  BY <1>1
<1>. QED
  BY <1>2, <1>3, <1>4, <1>5, Ends

LEMMA BeginKeeps ==
    ASSUME Dealing, Honest, NEW i \in DOMAIN budget, Searches!Begin(i)
    PROVE  Dealing' /\ Honest'
<1>1. /\ Typed /\ planning = "planned" /\ planning' = "running" /\ run' = i
      /\ Searches!Active(i)
      /\ UNCHANGED <<wanted, cursor, dealt, budget, left>>
      /\ UNCHANGED <<asked, stagnant, profiles, failures, outcome, cancelled>>
  BY DEF Dealing, Searches!Begin, Searches!dealing
<1>2. i \in Runs
  BY <1>1 DEF Typed
<1>3. Typed'
  <2>1. i \in 0 .. Len(wanted.proposals)
    BY <1>1, <1>2, Inputs DEF Typed, Runs
  <2>. QED
    BY <1>1, <2>1 DEF Typed, Runs
<1>4. Dealing'
  BY <1>1, <1>3, DealingRests DEF Searches!dealing
<1>5. asked = 0 /\ profiles = 0
  BY <1>1 DEF Honest
<1>6. budget[i] \in Amounts
  BY <1>1, <1>2 DEF Typed
<1>7. Within(asked, profiles)'
  BY <1>1, <1>5, <1>6 DEF Within, Amounts
<1>8. run' \in Runs' /\ Searches!Active(run)'
  BY <1>1, <1>2 DEF Runs, Searches!Active
<1>. QED
  BY <1>1, <1>4, <1>7, <1>8 DEF Honest, Searches!ConclusiveWhenLooked

LEMMA CancelKeeps ==
    ASSUME Dealing, Honest, Searches!Cancel
    PROVE  Dealing' /\ Honest'
<1>1. /\ planning = "running" /\ planning' = "running" /\ cancelled' = TRUE
      /\ UNCHANGED <<wanted, Searches!dealing, run, asked, stagnant, profiles, failures, outcome>>
  BY DEF Searches!Cancel, Searches!searching
<1>2. Within(asked', profiles') /\ stagnant' \in Nat /\ failures' \in SUBSET Failures
  BY <1>1, MineIs DEF Typed, Within
<1>. QED
  BY <1>1, <1>2, GoesOn

LEMMA StopCancelledKeeps ==
    ASSUME Dealing, Honest, Searches!StopCancelled
    PROVE  Dealing' /\ Honest'
<1>1. PICK status : /\ status = IF profiles > 0 THEN "partial_success" ELSE "cancelled"
                    /\ Searches!Finish(status, "cancelled")
  BY DEF Searches!StopCancelled
<1>2. /\ planning = "running"
      /\ UNCHANGED <<wanted, Searches!dealing, run, asked, stagnant, profiles, failures, cancelled>>
  BY DEF Searches!StopCancelled
<1>3. /\ Within(asked', profiles') /\ stagnant' \in Nat /\ failures' \in SUBSET Failures
      /\ cancelled' \in BOOLEAN
  BY <1>2, MineIs DEF Typed, Within
<1>4. /\ [status |-> status, stopped |-> "cancelled"] \in Searches!Outcome
      /\ status \notin {"success", "no_result"}
  BY <1>1 DEF Searches!Outcome
<1>. QED
  BY <1>1, <1>2, <1>3, <1>4, Ends

LEMMA DropAnswerKeeps ==
    ASSUME Dealing, Honest, Searches!DropAnswer
    PROVE  Dealing' /\ Honest'
<1>1. PICK status : /\ status = IF profiles > 0 THEN "partial_success" ELSE "cancelled"
                    /\ Searches!Finish(status, "cancelled")
  BY DEF Searches!DropAnswer
<1>2. /\ planning = "running" /\ asked < Searches!Mine.requests
      /\ asked' = asked + 1 /\ cancelled' = TRUE
      /\ UNCHANGED <<wanted, Searches!dealing, run, stagnant, profiles, failures>>
  BY DEF Searches!DropAnswer
<1>3. /\ Within(asked', profiles') /\ stagnant' \in Nat /\ failures' \in SUBSET Failures
  BY <1>2, MineIs DEF Typed, Within
<1>4. /\ [status |-> status, stopped |-> "cancelled"] \in Searches!Outcome
      /\ status \notin {"success", "no_result"}
  BY <1>1 DEF Searches!Outcome
<1>. QED
  BY <1>1, <1>2, <1>3, <1>4, Ends

LEMMA StopLateKeeps ==
    ASSUME Dealing, Honest, Searches!StopLate
    PROVE  Dealing' /\ Honest'
<1>1. /\ planning = "running" /\ failures' = failures \cup {"timeout"} /\ profiles' = profiles
      /\ Searches!Finish(Searches!Conclude(profiles', failures'), "late")
      /\ UNCHANGED <<wanted, Searches!dealing, run, asked, stagnant, cancelled>>
  BY DEF Searches!StopLate
<1>2. "timeout" \in Failures /\ "timeout" \in Searches!Serious
  BY DEF Failures, Searches!Serious
<1>3. /\ Within(asked', profiles') /\ stagnant' \in Nat /\ failures' \in SUBSET Failures
      /\ failures' \cap Searches!Serious # {}
  BY <1>1, <1>2, MineIs DEF Typed, Within
<1>. QED
  BY <1>1, <1>3, EndsConcluding

LEMMA StopSpentKeeps ==
    ASSUME Dealing, Honest, Searches!StopSpent
    PROVE  Dealing' /\ Honest'
<1>1. /\ planning = "running" /\ profiles' = profiles /\ failures' = failures
      /\ \/ asked = Searches!Mine.requests
         \/ profiles = Searches!Mine.results
      /\ Searches!Finish(Searches!Conclude(profiles', failures'), "spent")
      /\ UNCHANGED <<wanted, Searches!dealing, run, asked, stagnant, cancelled>>
  BY DEF Searches!StopSpent
\* It has made all its requests, or has found what it was to find.
<1>2. asked > 0
  BY <1>1, MineIs DEF Within
<1>3. Within(asked', profiles') /\ stagnant' \in Nat /\ failures' \in SUBSET Failures /\ asked' > 0
  BY <1>1, <1>2, MineIs DEF Typed, Within
<1>. QED
  BY <1>1, <1>3, EndsConcluding

LEMMA StopNoLoginsKeeps ==
    ASSUME Dealing, Honest, Searches!StopNoLogins
    PROVE  Dealing' /\ Honest'
<1>1. /\ planning = "running" /\ profiles' = profiles /\ failures' = failures /\ asked > 0
      /\ Searches!Finish(Searches!Conclude(profiles', failures'), "spent")
      /\ UNCHANGED <<wanted, Searches!dealing, run, asked, stagnant, cancelled>>
  BY DEF Searches!StopNoLogins
<1>2. Within(asked', profiles') /\ stagnant' \in Nat /\ failures' \in SUBSET Failures /\ asked' > 0
  BY <1>1, MineIs DEF Typed, Within
<1>. QED
  BY <1>1, <1>2, EndsConcluding

\* The failures after an answer.
LEMMA AnswerFails ==
    ASSUME failures \in SUBSET Failures, NEW status \in Searches!Answers,
           failures' = IF status = "success" THEN failures ELSE failures \cup {status}
    PROVE  /\ failures' \in SUBSET Failures
           /\ status \in Searches!Serious => failures' \cap Searches!Serious # {}
<1>1. status # "success" => status \in Failures
  BY DEF Searches!Answers, Failures, Searches!Serious
<1>2. "success" \notin Searches!Serious
  BY DEF Searches!Serious
<1>. QED
  BY <1>1, <1>2

LEMMA AskExaKeeps ==
    ASSUME Dealing, Honest, NEW status \in Searches!Answers, NEW novel \in Nat,
           Searches!AskExa(novel, status)
    PROVE  Dealing' /\ Honest'
<1>1. /\ planning = "running" /\ Searches!Provider(run) = "exa"
      /\ asked < Searches!Mine.requests /\ profiles < Searches!Mine.results
      /\ asked' = asked + 1
      /\ profiles' = Searches!Min2(profiles + novel, Searches!Mine.results)
      /\ stagnant' = IF novel > 0 THEN 0 ELSE stagnant + 1
      /\ failures' = IF status = "success" THEN failures ELSE failures \cup {status}
      /\ UNCHANGED <<wanted, Searches!dealing, run, cancelled>>
  BY DEF Searches!AskExa
<1>2. \/ /\ status \in Searches!Serious
         /\ Searches!Finish(Searches!Conclude(profiles', failures'), "failed")
      \/ Searches!Finish(Searches!Conclude(profiles', failures'), "stagnant")
      \/ UNCHANGED <<planning, outcome>>
  BY DEF Searches!AskExa
<1>3. /\ failures' \in SUBSET Failures
      /\ status \in Searches!Serious => failures' \cap Searches!Serious # {}
  BY <1>1, AnswerFails, MineIs
<1>4. Exa(run)
  BY <1>1 DEF Searches!Provider, Searches!Proposals, Exa
<1>5. profiles' \in Nat /\ profiles' <= budget[run].results
  <2>1. profiles \in Nat /\ budget[run].results \in Nat /\ Searches!Mine = budget[run]
    BY <1>1, MineIs DEF Within
  <2>. QED
    BY <1>1, <2>1 DEF Searches!Min2
<1>6. Within(asked', profiles') /\ asked' > 0 /\ stagnant' \in Nat /\ cancelled' \in BOOLEAN
  <2>1. /\ asked \in Nat /\ Searches!Mine = budget[run] /\ budget[run].requests \in Nat
        /\ stagnant \in Nat /\ cancelled \in BOOLEAN
    BY <1>1, MineIs DEF Typed, Within
  <2>2. asked' \in Nat /\ asked' > 0 /\ asked' <= budget[run].requests
    BY <1>1, <2>1
  <2>3. stagnant' \in Nat /\ cancelled' \in BOOLEAN
    BY <1>1, <2>1
  <2>. QED
    BY <1>4, <1>5, <2>2, <2>3 DEF Within
<1>7. CASE /\ status \in Searches!Serious
           /\ Searches!Finish(Searches!Conclude(profiles', failures'), "failed")
  BY <1>1, <1>3, <1>6, <1>7, EndsConcluding
<1>8. CASE Searches!Finish(Searches!Conclude(profiles', failures'), "stagnant")
  BY <1>1, <1>3, <1>6, <1>8, EndsConcluding
<1>9. CASE UNCHANGED <<planning, outcome>>
  BY <1>1, <1>3, <1>6, <1>9, GoesOn
<1>. QED
  BY <1>2, <1>7, <1>8, <1>9

LEMMA AskGithubKeeps ==
    ASSUME Dealing, Honest, NEW status \in Searches!Answers, NEW novel \in Nat,
           Searches!AskGithub(novel, status)
    PROVE  Dealing' /\ Honest'
<1>1. /\ planning = "running" /\ Searches!Provider(run) = "github"
      /\ asked < Searches!Mine.requests
      /\ asked' = asked + 1 /\ profiles' = profiles + novel
      /\ (novel = 1 /\ asked > 0) \/ novel = 0
      /\ failures' = IF status = "success" THEN failures ELSE failures \cup {status}
      /\ UNCHANGED <<wanted, Searches!dealing, planning, run, stagnant, outcome, cancelled>>
  BY DEF Searches!AskGithub
<1>2. failures' \in SUBSET Failures
  BY <1>1, AnswerFails, MineIs
<1>3. ~Exa(run)
  BY <1>1 DEF Searches!Provider, Searches!Proposals, Exa
\* One request is the search by name, so each profile has one of the others.
<1>4. profiles' = 0 \/ profiles' <= asked' - 1
  BY <1>1, <1>3, MineIs DEF Within
<1>5. Within(asked', profiles') /\ stagnant' \in Nat /\ cancelled' \in BOOLEAN
  <2>1. /\ asked \in Nat /\ Searches!Mine = budget[run] /\ budget[run].requests \in Nat
        /\ profiles \in Nat /\ budget[run].results \in Nat
        /\ budget[run].requests = budget[run].results + 1
        /\ stagnant \in Nat /\ cancelled \in BOOLEAN
    BY <1>1, <1>3, MineIs DEF Typed, Within
  <2>2. asked' \in Nat /\ asked' > 0 /\ asked' <= budget[run].requests /\ profiles' \in Nat
    BY <1>1, <2>1
  <2>3. profiles' <= budget[run].results
    BY <1>4, <2>1, <2>2
  <2>4. stagnant' \in Nat /\ cancelled' \in BOOLEAN
    BY <1>1, <2>1
  <2>. QED
    BY <1>4, <2>2, <2>3, <2>4 DEF Within
<1>. QED
  BY <1>1, <1>2, <1>5, GoesOn

-----------------------------------------------------------------------------
(* What was dealt in all *)

\* Induction, for a set of numbers.
LEMMA SetInduction ==
    ASSUME NEW S, 0 \in S, \A n \in Nat : n \in S => n + 1 \in S
    PROVE  \A n \in Nat : n \in S
<1>. SUFFICES ASSUME Nat \ S # {} PROVE FALSE
  OBVIOUS
<1>. DEFINE R == OpToRel(<, Nat)
            T == Nat \ S
<1>1. IsWellFoundedOn(R, Nat)
  BY NatLessThanWellFounded
<1>. HIDE DEF R
<1>2. PICK x \in T : \A y \in T : <<y, x>> \notin R
  BY <1>1, WFMin
<1>3. x \in Nat /\ x # 0 /\ x - 1 \in Nat /\ x - 1 < x
  BY <1>2
<1>4. <<x - 1, x>> \in R
  BY <1>3 DEF R, OpToRel
<1>5. x - 1 \in S
  BY <1>2, <1>4, <1>3
<1>6. x \in S
  <2>1. x - 1 + 1 = x
    BY <1>3
  <2>. QED
    BY <1>3, <1>5, <2>1
<1>. QED
  BY <1>2, <1>6

\* The sum of one kind over the runs, as Dealt computes it.
Total(f, N, kind) ==
    LET sum[n \in 0..N] == IF n = 0 THEN 0 ELSE sum[n - 1] + f[n][kind]
    IN  sum[N]

\* s[n] is the sum of the first n.
SumsUp(s, f, N, kind) ==
    /\ s \in [0..N -> Nat]
    /\ s[0] = 0
    /\ \A n \in 1..N : s[n] = s[n - 1] + f[n][kind]

LEMMA SumExists ==
    ASSUME NEW N \in Nat, NEW kind, NEW f, \A n \in 1..N : f[n][kind] \in Nat
    PROVE  \E s : SumsUp(s, f, N, kind)
<1>. DEFINE S == {m \in Nat : m <= N => \E s : SumsUp(s, f, m, kind)}
<1>1. 0 \in S
  <2>1. SumsUp([n \in 0..0 |-> 0], f, 0, kind)
    BY DEF SumsUp
  <2>. QED
    BY <2>1
<1>2. ASSUME NEW m \in Nat, m \in S PROVE m + 1 \in S
  <2>. SUFFICES ASSUME m + 1 <= N PROVE \E s : SumsUp(s, f, m + 1, kind)
    OBVIOUS
  <2>1. PICK s : SumsUp(s, f, m, kind)
    BY <1>2
  <2>. DEFINE t == [n \in 0..(m + 1) |-> IF n = m + 1 THEN s[m] + f[m + 1][kind] ELSE s[n]]
  <2>2. s[m] + f[m + 1][kind] \in Nat
    <3>1. m + 1 \in 1..N /\ m \in 0..m
      OBVIOUS
    <3>2. s[m] \in Nat /\ f[m + 1][kind] \in Nat
      BY <2>1, <3>1 DEF SumsUp
    <3>. QED
      BY <3>2
  <2>3. t \in [0..(m + 1) -> Nat]
    <3>1. \A n \in 0..(m + 1) : n # m + 1 => s[n] \in Nat
      BY <2>1 DEF SumsUp
    <3>. QED
      BY <2>2, <3>1
  <2>4. t[0] = 0
    BY <2>1 DEF SumsUp
  <2>5. ASSUME NEW n \in 1..(m + 1) PROVE t[n] = t[n - 1] + f[n][kind]
    <3>1. CASE n = m + 1
      BY <3>1
    <3>2. CASE n # m + 1
      <4>1. n \in 1..m /\ n \in 0..(m + 1) /\ n - 1 \in 0..(m + 1) /\ n - 1 # m + 1
        BY <3>2
      <4>2. t[n] = s[n] /\ t[n - 1] = s[n - 1]
        BY <3>2, <4>1
      <4>. QED
        BY <2>1, <4>1, <4>2 DEF SumsUp
    <3>. QED
      BY <3>1, <3>2
  <2>. HIDE DEF t
  <2>6. SumsUp(t, f, m + 1, kind)
    BY <2>3, <2>4, <2>5 DEF SumsUp
  <2>. QED
    BY <2>6
<1>. HIDE DEF S
<1>3. N \in S
  BY <1>1, <1>2, SetInduction
<1>. QED
  BY <1>3 DEF S

LEMMA TotalIs ==
    ASSUME NEW N \in Nat, NEW kind, NEW f, \A n \in 1..N : f[n][kind] \in Nat
    PROVE  \E s : SumsUp(s, f, N, kind) /\ Total(f, N, kind) = s[N]
<1>. DEFINE Right(s) == s = [n \in 0..N |-> IF n = 0 THEN 0 ELSE s[n - 1] + f[n][kind]]
            sum == CHOOSE s : Right(s)
<1>1. Total(f, N, kind) = sum[N]
  BY DEF Total
<1>2. PICK s : SumsUp(s, f, N, kind)
  BY SumExists
<1>3. Right(s)
  BY <1>2 DEF SumsUp
<1>4. Right(sum)
  BY <1>3
<1>. HIDE DEF sum
<1>5. sum[N] = s[N]
  <2>. DEFINE S == {n \in Nat : n <= N => sum[n] = s[n]}
  <2>1. 0 \in S
    BY <1>2, <1>4 DEF SumsUp
  <2>2. ASSUME NEW n \in Nat, n \in S PROVE n + 1 \in S
    <3>. SUFFICES ASSUME n + 1 <= N PROVE sum[n + 1] = s[n + 1]
      OBVIOUS
    <3>1. n + 1 \in 1..N /\ n + 1 \in 0..N /\ n + 1 - 1 = n /\ n + 1 # 0
      OBVIOUS
    <3>2. sum[n + 1] = sum[n] + f[n + 1][kind]
      BY <1>4, <3>1
    <3>3. s[n + 1] = s[n] + f[n + 1][kind]
      BY <1>2, <3>1 DEF SumsUp
    <3>. QED
      BY <2>2, <3>2, <3>3
  <2>. HIDE DEF S
  <2>3. N \in S
    BY <2>1, <2>2, SetInduction
  <2>. QED
    BY <2>3 DEF S
<1>. QED
  BY <1>1, <1>2, <1>5

\* The run c gets d.
GrowsBy(f, g, N, kind, c, d) ==
    /\ \A n \in 1..N : f[n][kind] \in Nat
    /\ g[c][kind] = f[c][kind] + d
    /\ \A n \in (1..N) \ {c} : g[n][kind] = f[n][kind]

\* What is dealt to one run is what the total grows by.
LEMMA TotalGrows ==
    ASSUME NEW N \in Nat, NEW kind, NEW f, NEW g, NEW c \in 1..N, NEW d \in Nat,
           GrowsBy(f, g, N, kind, c, d)
    PROVE  Total(g, N, kind) = Total(f, N, kind) + d
<1>0. /\ \A n \in 1..N : f[n][kind] \in Nat
      /\ g[c][kind] = f[c][kind] + d
      /\ \A n \in (1..N) \ {c} : g[n][kind] = f[n][kind]
  BY DEF GrowsBy
<1>1. \A n \in 1..N : g[n][kind] \in Nat
  BY <1>0
<1>2. PICK s : SumsUp(s, f, N, kind) /\ Total(f, N, kind) = s[N]
  BY <1>0, TotalIs
<1>3. PICK t : SumsUp(t, g, N, kind) /\ Total(g, N, kind) = t[N]
  BY <1>1, TotalIs
\* The sums are the same before the run, and differ by d from it on.
<1>. DEFINE S == {n \in Nat : n <= N => t[n] = s[n] + IF n >= c THEN d ELSE 0}
<1>4. 0 \in S
  BY <1>2, <1>3 DEF SumsUp
<1>5. ASSUME NEW n \in Nat, n \in S PROVE n + 1 \in S
  <2>. SUFFICES ASSUME n + 1 <= N PROVE t[n + 1] = s[n + 1] + IF n + 1 >= c THEN d ELSE 0
    OBVIOUS
  <2>1. n + 1 \in 1..N /\ n \in 0..N /\ n + 1 - 1 = n
    OBVIOUS
  <2>2. s[n + 1] = s[n] + f[n + 1][kind] /\ t[n + 1] = t[n] + g[n + 1][kind]
    <3>1. \A i \in 1..N : s[i] = s[i - 1] + f[i][kind]
      BY <1>2 DEF SumsUp
    <3>2. \A i \in 1..N : t[i] = t[i - 1] + g[i][kind]
      BY <1>3 DEF SumsUp
    <3>. QED
      BY <2>1, <3>1, <3>2
  <2>3. t[n] = s[n] + IF n >= c THEN d ELSE 0
    BY <1>5
  <2>4. s[n] \in Nat /\ f[n + 1][kind] \in Nat
    BY <1>0, <1>2, <2>1 DEF SumsUp
  <2>5. g[n + 1][kind] = f[n + 1][kind] + IF n + 1 = c THEN d ELSE 0
    BY <1>0, <2>1, <2>4
  <2>. QED
    BY <2>2, <2>3, <2>4, <2>5
<1>. HIDE DEF S
<1>6. N \in S
  BY <1>4, <1>5, SetInduction
<1>7. t[N] = s[N] + d
  BY <1>6 DEF S
<1>. QED
  BY <1>2, <1>3, <1>7

LEMMA TotalOfNothing ==
    ASSUME NEW N \in Nat, NEW kind, NEW f, \A n \in 1..N : f[n][kind] = 0
    PROVE  Total(f, N, kind) = 0
<1>1. PICK s : SumsUp(s, f, N, kind) /\ Total(f, N, kind) = s[N]
  BY TotalIs
<1>. DEFINE S == {n \in Nat : n <= N => s[n] = 0}
<1>2. 0 \in S
  BY <1>1 DEF SumsUp
<1>3. ASSUME NEW n \in Nat, n \in S PROVE n + 1 \in S
  <2>. SUFFICES ASSUME n + 1 <= N PROVE s[n + 1] = 0
    OBVIOUS
  <2>1. n + 1 \in 1..N /\ n + 1 - 1 = n
    OBVIOUS
  <2>2. s[n + 1] = s[n] + f[n + 1][kind]
    BY <1>1, <2>1 DEF SumsUp
  <2>. QED
    BY <1>3, <2>1, <2>2
<1>. HIDE DEF S
<1>4. N \in S
  BY <1>2, <1>3, SetInduction
<1>. QED
  BY <1>1, <1>4 DEF S

LEMMA DealtIs ==
    ASSUME NEW kind
    PROVE  /\ Searches!Dealt(kind) = Total(budget, Len(wanted.proposals), kind)
           /\ Searches!Dealt(kind)' = Total(budget', Len(wanted'.proposals), kind)
           /\ Searches!Cap(kind)' = IF wanted' = wanted THEN Searches!Cap(kind) ELSE Searches!Cap(kind)'
<1>1. Searches!Dealt(kind) = Total(budget, Len(wanted.proposals), kind)
  BY DEF Searches!Dealt, Searches!Proposals, Total
<1>2. Searches!Dealt(kind)' = Total(budget', Len(wanted'.proposals), kind)
  BY DEF Searches!Dealt, Searches!Proposals, Total
<1>3. wanted' = wanted => Searches!Cap(kind)' = Searches!Cap(kind)
  BY DEF Searches!Cap, Searches!Limit
<1>. QED
  BY <1>1, <1>2, <1>3

LEMMA KeptInit ==
    ASSUME wanted \in SearchInputs, Searches!Init
    PROVE  Searches!BudgetIsKept
<1>1. Typed
  BY SearchInit
<1>2. ASSUME NEW kind \in Searches!Kinds PROVE Searches!Dealt(kind) + left[kind] = Searches!Cap(kind)
  <2>1. Len(wanted.proposals) \in Nat
    BY Inputs
  <2>2. \A n \in 1..Len(wanted.proposals) : budget[n][kind] = 0
    <3>1. \A n \in 1..Len(wanted.proposals) : budget[n] = Searches!Nothing
      BY DEF Searches!Init, Searches!Proposals
    <3>. QED
      BY <1>2, <3>1 DEF Searches!Nothing, Searches!Kinds
  <2>3. Searches!Dealt(kind) = 0
    BY <2>1, <2>2, TotalOfNothing, DealtIs
  <2>4. left[kind] = Searches!Cap(kind)
    BY <1>2 DEF Searches!Init, Searches!Cap, Searches!Kinds
  <2>5. left[kind] \in Nat
    BY <1>1, <1>2 DEF Typed, Amounts, Searches!Kinds
  <2>. QED
    BY <2>3, <2>4, <2>5
<1>. QED
  BY <1>2 DEF Searches!BudgetIsKept

\* What a step deals is what is left less.
LEMMA DealKeepsBudget ==
    ASSUME Typed, Typed', Searches!BudgetIsKept, wanted' = wanted,
           NEW c \in Runs, NEW q \in Nat, NEW r \in Nat, NEW p \in Nat,
           /\ budget'[c].queries = budget[c].queries + q
           /\ budget'[c].requests = budget[c].requests + r
           /\ budget'[c].results = budget[c].results + p
           /\ left'.queries = left.queries - q
           /\ left'.requests = left.requests - r
           /\ left'.results = left.results - p
           /\ \A j \in Runs \ {c} : budget'[j] = budget[j]
    PROVE  Searches!BudgetIsKept'
<1>. DEFINE N == Len(wanted.proposals)
<1>1. ASSUME NEW kind \in Searches!Kinds
      PROVE  Searches!Dealt(kind)' + left'[kind] = Searches!Cap(kind)'
  <2>1. PICK d \in Nat : budget'[c][kind] = budget[c][kind] + d /\ left'[kind] = left[kind] - d
    BY <1>1 DEF Searches!Kinds
  <2>2. /\ \A n \in 1..N : budget[n][kind] \in Nat
        /\ left[kind] \in Nat
    BY <1>1 DEF Typed, Amounts, Runs, Searches!Kinds
  <2>3. N \in Nat /\ c \in 1..N /\ \A n \in (1..N) \ {c} : budget'[n][kind] = budget[n][kind]
    BY Inputs DEF Typed, Runs
  <2>4. Total(budget', N, kind) = Total(budget, N, kind) + d
    <3>1. GrowsBy(budget, budget', N, kind, c, d)
      BY <2>1, <2>2, <2>3 DEF GrowsBy
    <3>. HIDE DEF N
    <3>. QED
      BY <2>3, <3>1, TotalGrows
  <2>5. Total(budget, N, kind) + left[kind] = Searches!Cap(kind)
    BY <1>1, DealtIs DEF Searches!BudgetIsKept
  <2>6. Total(budget, N, kind) \in Nat
    <3>. HIDE DEF N
    <3>1. PICK s : SumsUp(s, budget, N, kind) /\ Total(budget, N, kind) = s[N]
      BY <2>2, <2>3, TotalIs
    <3>. QED
      BY <2>3, <3>1 DEF SumsUp
  <2>7. Searches!Dealt(kind)' = Total(budget', N, kind) /\ Searches!Cap(kind)' = Searches!Cap(kind)
    BY DealtIs
  <2>. QED
    BY <2>1, <2>2, <2>4, <2>5, <2>6, <2>7
<1>. QED
  BY <1>1 DEF Searches!BudgetIsKept, Searches!Kinds

LEMMA RestKeepsBudget ==
    ASSUME Searches!BudgetIsKept, UNCHANGED <<wanted, budget, left>>
    PROVE  Searches!BudgetIsKept'
<1>1. \A kind : /\ Searches!Dealt(kind)' = Searches!Dealt(kind)
                /\ Searches!Cap(kind)' = Searches!Cap(kind)
  BY DealtIs
<1>. QED
  BY <1>1 DEF Searches!BudgetIsKept, Searches!Kinds

LEMMA DealingKeepsBudget ==
    ASSUME Dealing, Searches!BudgetIsKept, Searches!Start \/ Searches!Widen \/ Searches!Deepen
    PROVE  Searches!BudgetIsKept'
<1>. DEFINE Deals(c, q, r, p) ==
              /\ q \in Nat /\ r \in Nat /\ p \in Nat
              /\ q <= left.queries /\ r <= left.requests /\ p <= left.results
              /\ Searches!Deal(c, q, r, p)
<1>0. PICK c \in Runs : c = cursor
  BY Inputs DEF Dealing, Typed, Searches!Start, Searches!Widen, Searches!Deepen, Runs,
                Searches!Proposals
<1>1. /\ Typed /\ cursor' = c + 1 /\ dealt' \in BOOLEAN
      /\ UNCHANGED <<wanted, planning, Searches!searching, cancelled>>
  BY <1>0 DEF Dealing, Typed, Searches!Start, Searches!Widen, Searches!Deepen
<1>2. /\ left.queries \in Nat /\ left.requests \in Nat /\ left.results \in Nat
      /\ Searches!MinimumRequests(c) \in {1, 2} /\ Searches!ExtraRequests(c) \in {0, 1}
  BY <1>1, Adapters DEF Typed, Amounts
<1>3. \E q, r, p : Deals(c, q, r, p)
  <2>1. CASE Searches!Start
    <3>1. Searches!CanStart(c) /\ Searches!Deal(c, 1, Searches!MinimumRequests(c), 1)
      BY <1>0, <2>1 DEF Searches!Start
    <3>2. Deals(c, 1, Searches!MinimumRequests(c), 1)
      BY <1>2, <3>1 DEF Searches!CanStart
    <3>. QED
      BY <3>2
  <2>2. CASE Searches!Widen
    <3>1. Searches!CanWiden(c) /\ Searches!Deal(c, 1, 1, 0)
      BY <1>0, <2>2 DEF Searches!Widen
    <3>2. Deals(c, 1, 1, 0)
      BY <1>2, <3>1 DEF Searches!CanWiden
    <3>. QED
      BY <3>2
  <2>3. CASE Searches!Deepen
    <3>1. Searches!CanDeepen(c) /\ Searches!Deal(c, 0, Searches!ExtraRequests(c), 1)
      BY <1>0, <2>3 DEF Searches!Deepen
    <3>2. Deals(c, 0, Searches!ExtraRequests(c), 1)
      BY <1>2, <3>1 DEF Searches!CanDeepen
    <3>. QED
      BY <3>2
  <2>. QED
    BY <2>1, <2>2, <2>3
<1>4. PICK q, r, p : Deals(c, q, r, p)
  BY <1>3
<1>5. /\ Typed'
      /\ budget'[c].queries = budget[c].queries + q
      /\ budget'[c].requests = budget[c].requests + r
      /\ budget'[c].results = budget[c].results + p
      /\ left'.queries = left.queries - q
      /\ left'.requests = left.requests - r
      /\ left'.results = left.results - p
      /\ \A j \in Runs \ {c} : budget'[j] = budget[j]
  BY <1>0, <1>1, <1>4, DealTo
<1>. QED
  BY <1>1, <1>4, <1>5, DealKeepsBudget

-----------------------------------------------------------------------------
(* The invariant, and the theorems *)

SearchInv == Dealing /\ Honest /\ Searches!BudgetIsKept

LEMMA SearchInvInit ==
    ASSUME wanted \in SearchInputs, Searches!Init
    PROVE  SearchInv
<1>1. Typed /\ Searches!BudgetIsKept
  BY SearchInit, KeptInit
<1>2. /\ planning = "starting" /\ cursor = 1
      /\ \A i \in Runs : budget[i] = Searches!Nothing
      /\ run = 0 /\ asked = 0 /\ profiles = 0 /\ failures = {}
  BY DEF Searches!Init, Runs, Searches!Proposals
<1>3. \A i \in Runs : ~Searches!Active(i) /\ ~(i < cursor)
  BY <1>1, <1>2, Inputs, NothingIsInactive DEF Runs
<1>4. Dealing
  BY <1>1, <1>2, <1>3
     DEF Dealing, Fitting, Starting, Minimal, QueriesEven, ResultsEven, NothingLeft
<1>5. Honest
  BY <1>2 DEF Honest, Searches!ConclusiveWhenLooked
<1>. QED
  BY <1>1, <1>4, <1>5 DEF SearchInv

\* The dealing says nothing of a run that is out.
LEMMA HonestWhileDealing ==
    ASSUME Dealing, Honest,
           \/ Searches!Start \/ Searches!Widen \/ Searches!Deepen
           \/ Searches!PassOver \/ Searches!NextRound
    PROVE  Honest'
<1>1. /\ planning \notin {"running", "done"} /\ planning' \notin {"running", "done"}
      /\ UNCHANGED <<run, asked, profiles, failures>>
  BY DEF Searches!Start, Searches!Widen, Searches!Deepen, Searches!PassOver, Searches!NextRound,
         Searches!searching
<1>. QED
  BY <1>1 DEF Honest, Searches!ConclusiveWhenLooked

LEMMA SearchInvNext ==
    ASSUME SearchInv, Searches!Next
    PROVE  SearchInv'
<1>0. Dealing /\ Honest /\ Searches!BudgetIsKept
  BY DEF SearchInv
<1>1. CASE Searches!Start
  BY <1>0, <1>1, StartKeeps, HonestWhileDealing, DealingKeepsBudget DEF SearchInv
<1>2. CASE Searches!Widen
  BY <1>0, <1>2, WidenKeeps, HonestWhileDealing, DealingKeepsBudget DEF SearchInv
<1>3. CASE Searches!Deepen
  BY <1>0, <1>3, DeepenKeeps, HonestWhileDealing, DealingKeepsBudget DEF SearchInv
<1>4. CASE Searches!PassOver
  <2>1. UNCHANGED <<wanted, budget, left>>
    BY <1>4 DEF Searches!PassOver
  <2>. QED
    BY <1>0, <1>4, <2>1, PassOverKeeps, HonestWhileDealing, RestKeepsBudget DEF SearchInv
<1>5. CASE Searches!NextRound
  <2>1. UNCHANGED <<wanted, budget, left>>
    BY <1>5 DEF Searches!NextRound
  <2>. QED
    BY <1>0, <1>5, <2>1, NextRoundKeeps, HonestWhileDealing, RestKeepsBudget DEF SearchInv
<1>6. ASSUME NEW i \in DOMAIN budget, Searches!Begin(i) PROVE SearchInv'
  <2>1. UNCHANGED <<wanted, budget, left>>
    BY <1>6 DEF Searches!Begin, Searches!dealing
  <2>. QED
    BY <1>0, <1>6, <2>1, BeginKeeps, RestKeepsBudget DEF SearchInv
<1>7. CASE Searches!Cancel
  <2>1. UNCHANGED <<wanted, budget, left>>
    BY <1>7 DEF Searches!Cancel, Searches!dealing
  <2>. QED
    BY <1>0, <1>7, <2>1, CancelKeeps, RestKeepsBudget DEF SearchInv
<1>8. CASE Searches!StopCancelled
  <2>1. UNCHANGED <<wanted, budget, left>>
    BY <1>8 DEF Searches!StopCancelled, Searches!dealing
  <2>. QED
    BY <1>0, <1>8, <2>1, StopCancelledKeeps, RestKeepsBudget DEF SearchInv
<1>9. CASE Searches!StopLate
  <2>1. UNCHANGED <<wanted, budget, left>>
    BY <1>9 DEF Searches!StopLate, Searches!dealing
  <2>. QED
    BY <1>0, <1>9, <2>1, StopLateKeeps, RestKeepsBudget DEF SearchInv
<1>10. CASE Searches!StopSpent
  <2>1. UNCHANGED <<wanted, budget, left>>
    BY <1>10 DEF Searches!StopSpent, Searches!dealing
  <2>. QED
    BY <1>0, <1>10, <2>1, StopSpentKeeps, RestKeepsBudget DEF SearchInv
<1>11. CASE Searches!StopNoLogins
  <2>1. UNCHANGED <<wanted, budget, left>>
    BY <1>11 DEF Searches!StopNoLogins, Searches!dealing
  <2>. QED
    BY <1>0, <1>11, <2>1, StopNoLoginsKeeps, RestKeepsBudget DEF SearchInv
<1>12. CASE Searches!DropAnswer
  <2>1. UNCHANGED <<wanted, budget, left>>
    BY <1>12 DEF Searches!DropAnswer, Searches!dealing
  <2>. QED
    BY <1>0, <1>12, <2>1, DropAnswerKeeps, RestKeepsBudget DEF SearchInv
<1>13. ASSUME NEW status \in Searches!Answers, NEW novel \in Nat, Searches!AskExa(novel, status)
       PROVE  SearchInv'
  <2>1. UNCHANGED <<wanted, budget, left>>
    BY <1>13 DEF Searches!AskExa, Searches!dealing
  <2>. QED
    BY <1>0, <1>13, <2>1, AskExaKeeps, RestKeepsBudget DEF SearchInv
<1>14. ASSUME NEW status \in Searches!Answers, NEW novel \in Nat, Searches!AskGithub(novel, status)
       PROVE  SearchInv'
  <2>1. UNCHANGED <<wanted, budget, left>>
    BY <1>14 DEF Searches!AskGithub, Searches!dealing
  <2>. QED
    BY <1>0, <1>14, <2>1, AskGithubKeeps, RestKeepsBudget DEF SearchInv
<1>. QED
  BY <1>1, <1>2, <1>3, <1>4, <1>5, <1>6, <1>7, <1>8, <1>9, <1>10, <1>11, <1>12, <1>13, <1>14
     DEF Searches!Next

LEMMA SearchInvRests ==
    ASSUME SearchInv, UNCHANGED searchVars
    PROVE  SearchInv'
<1>1. /\ UNCHANGED <<wanted, planning, cursor, dealt, budget, left>>
      /\ UNCHANGED <<run, asked, stagnant, profiles, failures, cancelled, outcome>>
  BY DEF searchVars
<1>2. /\ Runs' = Runs /\ Fitting' = Fitting
      /\ \A i : /\ Searches!Active(i)' = Searches!Active(i) /\ Exa(i)' = Exa(i)
                /\ Full(i)' = Full(i) /\ Rich(i)' = Rich(i) /\ Seen(i)' = Seen(i)
                /\ Searches!CanStart(i)' = Searches!CanStart(i)
                /\ Searches!CanWiden(i)' = Searches!CanWiden(i)
                /\ Searches!CanDeepen(i)' = Searches!CanDeepen(i)
  BY <1>1, Unmoved DEF Seen
<1>3. Typed'
  BY <1>1, <1>2 DEF SearchInv, Dealing, Typed
<1>4. Fitting' /\ Starting' /\ Minimal'
  BY <1>1, <1>2 DEF SearchInv, Dealing, Starting, Minimal, Searches!Nothing
<1>5. QueriesEven' /\ ResultsEven'
  BY <1>1, <1>2 DEF SearchInv, Dealing, QueriesEven, ResultsEven
<1>6. NothingLeft'
  BY <1>1, <1>2 DEF SearchInv, Dealing, NothingLeft
<1>7. Honest'
  BY <1>1, <1>2 DEF SearchInv, Honest, Within, Searches!ConclusiveWhenLooked
<1>8. Searches!BudgetIsKept'
  BY <1>1, RestKeepsBudget DEF SearchInv
<1>. QED
  BY <1>3, <1>4, <1>5, <1>6, <1>7, <1>8 DEF SearchInv, Dealing

\* The invariant holds of every behaviour, whatever part of it runs.
THEOREM SearchInvAlways == Spec => []SearchInv
<1>1. Init => SearchInv
  <2>1. Init => wanted \in SearchInputs
    BY AlgorithmsAssumption DEF Init
  <2>. QED
    BY <2>1, SearchInvInit DEF Init
<1>2. SearchInv /\ [Next]_vars => SearchInv'
  <2>. SUFFICES ASSUME SearchInv, [Next]_vars PROVE SearchInv'
    OBVIOUS
  <2>1. Searches!Next \/ UNCHANGED searchVars
    BY DEF Next, vars
  <2>. QED
    BY <2>1, SearchInvNext, SearchInvRests
<1>. QED
  BY <1>1, <1>2, PTL DEF Spec

\* What the invariant says of a budget that is dealt.
LEMMA DealtWell ==
    ASSUME SearchInv
    PROVE  BudgetIsDealtWell
<1>0. Typed /\ Fitting /\ Starting /\ QueriesEven /\ ResultsEven /\ NothingLeft
  BY DEF SearchInv, Dealing
<1>1. DOMAIN budget = Runs /\ \A i \in Runs : budget[i] \in Amounts
  BY <1>0 DEF Typed
<1>2. Searches!TypeOK
  BY <1>0, TypedIsTypeOK
<1>3. Searches!RunsSuitTheirAdapter
  <2>1. ASSUME NEW i \in Runs, Searches!Active(i), Exa(i)
        PROVE  /\ budget[i].requests = budget[i].queries
               /\ budget[i].queries <= wanted.proposals[i].variants
               /\ budget[i].results \in 1..Searches!Min2(ExaPerRun, budget[i].queries * ExaPerRequest)
    <3>1. Suits(i) /\ budget[i] \in Amounts
      BY <1>0, <1>1, <2>1, NothingIsInactive DEF Fitting
    <3>2. Searches!MostResults(i) = Searches!Min2(ExaPerRun, budget[i].queries * ExaPerRequest)
      BY <2>1, Adapters DEF Most
    <3>3. Searches!MostResults(i) \in Nat
      <4>1. Exa(i) \in BOOLEAN /\ budget[i].queries \in Nat
        BY <3>1 DEF Exa, Amounts
      <4>. QED
        BY <4>1, Adapters, MostGrows
    <3>4. budget[i].results \in 1..Searches!MostResults(i)
      BY <3>1, <3>3 DEF Suits, Amounts
    <3>. QED
      BY <2>1, <3>1, <3>2, <3>4 DEF Suits
  <2>2. ASSUME NEW i \in Runs, Searches!Active(i), ~Exa(i)
        PROVE  /\ budget[i].queries = 1 /\ budget[i].results \in 1..GithubPerRun
               /\ budget[i].requests = budget[i].results + 1
    <3>1. Suits(i) /\ budget[i] \in Amounts
      BY <1>0, <1>1, <2>2, NothingIsInactive DEF Fitting
    <3>2. Searches!MostResults(i) = GithubPerRun
      BY <2>2, Adapters DEF Most
    <3>. QED
      BY <2>2, <3>1, <3>2, Ceilings DEF Suits, Amounts
  <2>3. \A i : (Searches!Provider(i) = "exa") <=> Exa(i)
    BY DEF Searches!Provider, Searches!Proposals, Exa
  <2>. QED
    BY <1>1, <2>1, <2>2, <2>3 DEF Searches!RunsSuitTheirAdapter, Searches!Proposals
<1>4. Searches!RunsShareEvenly
  <2>1. ASSUME ~Searches!Dealing, NEW i \in Runs, NEW j \in Runs,
               Searches!Active(i), Searches!Active(j)
        PROVE  /\ Exa(i) /\ Exa(j) /\ budget[i].queries > budget[j].queries + 1 => Full(j)
               /\ budget[i].results > budget[j].results + 1 => Rich(j)
    <3>1. planning \notin {"starting", "queries", "profiles"}
      BY <2>1 DEF Searches!Dealing
    <3>2. /\ budget[i].queries \in Nat /\ budget[j].queries \in Nat
          /\ budget[i].results \in Nat /\ budget[j].results \in Nat
      BY <1>1 DEF Amounts
    <3>3. Exa(i) /\ Exa(j) => Full(j) \/ budget[i].queries <= budget[j].queries + 1
      BY <1>0, <2>1, <3>1 DEF QueriesEven
    <3>4. Rich(j) \/ budget[i].results <= budget[j].results + 1
      BY <1>0, <2>1, <3>1 DEF ResultsEven
    <3>. QED
      BY <3>2, <3>3, <3>4
  <2>2. \A i : (Searches!Provider(i) = "exa") <=> Exa(i)
    BY DEF Searches!Provider, Searches!Proposals, Exa
  <2>. QED
    BY <1>1, <2>1, <2>2 DEF Searches!RunsShareEvenly, Full, Rich, Searches!Proposals
<1>5. Searches!NothingLiesIdle
  <2>1. ASSUME ~Searches!Dealing, NEW i \in Runs
        PROVE  /\ ~Searches!CanWiden(i) /\ ~Searches!CanDeepen(i)
               /\ Searches!Active(i) \/ ~Searches!CanStart(i)
               /\ \A j \in Runs : i < j /\ Exa(i) /\ Exa(j) /\ Searches!Active(j)
                                    => Searches!Active(i)
    <3>1. planning \notin {"starting", "queries", "profiles"}
      BY <2>1 DEF Searches!Dealing
    <3>. QED
      BY <1>0, <2>1, <3>1 DEF NothingLeft, Starting
  <2>2. \A i : (Searches!Provider(i) = "exa") <=> Exa(i)
    BY DEF Searches!Provider, Searches!Proposals, Exa
  <2>. QED
    BY <1>1, <2>1, <2>2 DEF Searches!NothingLiesIdle
<1>6. Searches!BudgetIsKept
  BY DEF SearchInv
<1>. QED
  BY <1>2, <1>3, <1>4, <1>5, <1>6 DEF BudgetIsDealtWell

\* Whatever the limits, the proposals and their variants: the budget of a wave is
\* dealt out whole, evenly, to runs their adapters accept, and nothing that a run
\* could use is left over (build_adaptive_professional_query_plan).
THEOREM BudgetDealtWell == Spec => []BudgetIsDealtWell
BY SearchInvAlways, DealtWell, PTL

\* However a search is cancelled, late, refused or tired, it keeps to its share,
\* and calls its result conclusive only when it has looked and nothing failed
\* (search_exa_people_adaptive, search_github_people).
THEOREM SearchesHonest == Spec => []SearchesAreHonest
<1>1. SearchInv => SearchesAreHonest
  <2>. SUFFICES ASSUME SearchInv PROVE SearchesAreHonest
    OBVIOUS
  <2>1. Honest /\ Searches!Mine = budget[run]
    BY DEF SearchInv, Searches!Mine
  <2>2. Searches!RunsKeepTheirShare
    BY <2>1 DEF Honest, Within, Searches!RunsKeepTheirShare
  <2>. QED
    BY <2>1, <2>2 DEF Honest, SearchesAreHonest
<1>. QED
  BY <1>1, SearchInvAlways, PTL

-----------------------------------------------------------------------------
(* The report.  What the finalizer reads: the accounts, the wave and what  *)
(* its searches brought.                                                   *)

Row == [platform : STRING \cup {"github", "linkedin"}, name : Seq(STRING), exact : BOOLEAN,
        check : {"profile", "lead", "none"}, located : BOOLEAN]
Backing == [node : Nat, kind : {"api", "index"}, shown : Seq(STRING), query : Seq(STRING),
            near : BOOLEAN, social : BOOLEAN, roots : SUBSET Nat, context : SUBSET Nat]

\* An account the scan did not check was made for a professional profile.
Rows ==
    /\ accounts \in Seq(Row)
    /\ \A n \in DOMAIN accounts :
         /\ accounts[n].check = "profile" => accounts[n].exact
         /\ accounts[n].check = "none" => \E i \in DOMAIN evidence : evidence[i].node = n

\* The sources of a name are first-party profiles that show it.
Waved ==
    /\ \A name \in DOMAIN wave :
         /\ name \in Seq(STRING) /\ Len(name) \in 2..4
         /\ \A n \in wave[name].roots : /\ n \in DOMAIN accounts
                                        /\ accounts[n].check = "profile" /\ accounts[n].name = name
         /\ wave[name].context \subseteq DOMAIN accounts
    /\ searched \subseteq DOMAIN wave

\* What a search found is evidence for the name it was for, with the sources
\* that name had when the wave began; a profile shows the name its account has.
Evident ==
    /\ evidence \in Seq(Backing)
    /\ \A i \in DOMAIN evidence :
         /\ evidence[i].node \in DOMAIN accounts /\ evidence[i].query \in searched
         /\ evidence[i].roots = wave[evidence[i].query].roots
         /\ evidence[i].context = wave[evidence[i].query].context
         /\ evidence[i].shown = accounts[evidence[i].node].name

\* The selected account is a first-party profile with a full name, and among
\* the sources of that name if it is searched.
Included ==
    chosen # 0 =>
      /\ chosen \in DOMAIN accounts /\ accounts[chosen].check = "profile"
      /\ Len(accounts[chosen].name) \in 2..4
      /\ accounts[chosen].name \in DOMAIN wave => chosen \in wave[accounts[chosen].name].roots

Stages ==
    /\ phase \in {"scanning", "scanned", "searching", "ready"}
    /\ seed \in Seeds
    /\ phase = "scanning" => accounts = <<>>
    /\ phase \in {"scanning", "scanned"} =>
         chosen = 0 /\ wave = <<>> /\ searched = {} /\ evidence = <<>>
    /\ IF phase = "ready" THEN report = Reports!Render ELSE report = None

ReportInv == Rows /\ Waved /\ Evident /\ Included /\ Stages

LEMMA CardinalityIs == \A S : Reports!Cardinality(S) = Cardinality(S)
  BY DEF Reports!Cardinality, Cardinality

\* The report is a function of the seed, the accounts, the choice and the evidence.
LEMMA Unread ==
    ASSUME UNCHANGED <<seed, accounts, chosen, evidence>>
    PROVE  Reports!Render' = Reports!Render
<1>1. /\ Reports!Nodes' = Reports!Nodes
      /\ \A n : Reports!Name(n)' = Reports!Name(n)
      /\ \A n : Reports!EvidenceOn(n)' = Reports!EvidenceOn(n)
      /\ Reports!Exact' = Reports!Exact
  BY DEF Reports!Nodes, Reports!Name, Reports!EvidenceOn, Reports!Exact
<1>2. \A n : /\ Reports!SourceIds(n)' = Reports!SourceIds(n)
             /\ Reports!FirstParty(n)' <=> Reports!FirstParty(n)
             /\ Reports!Indexed(n)' <=> Reports!Indexed(n)
  BY <1>1 DEF Reports!SourceIds, Reports!FirstParty, Reports!Indexed
<1>3. Reports!Observations' = Reports!Observations
  BY <1>1, <1>2 DEF Reports!Observations
<1>4. \A e : Reports!Corroborates(e)' <=> Reports!Corroborates(e)
  <2>1. \A e : Reports!RootFamilies(e)' = Reports!RootFamilies(e)
    BY <1>1 DEF Reports!RootFamilies
  <2>. QED
    BY <2>1 DEF Reports!Corroborates, Reports!ThirdFamily, Reports!NameMatch,
                Reports!LocationAnchor, Reports!SourceFamily
<1>5. \A i : Reports!MatchOf(i)' = Reports!MatchOf(i)
  BY <1>2 DEF Reports!MatchOf
<1>6. (\A n : Reports!Matching(n)' = Reports!Matching(n)) /\ Reports!Matched' = Reports!Matched
  <2>1. \A n : Reports!Matching(n)' = Reports!Matching(n)
    BY <1>1, <1>4 DEF Reports!Matching
  <2>. QED
    BY <1>1, <2>1 DEF Reports!Matched
<1>7. \A n : Reports!ProfessionalMatch(n)' = Reports!ProfessionalMatch(n)
  BY <1>5, <1>6 DEF Reports!ProfessionalMatch
<1>8. \A n : Reports!Supporting(n)' = Reports!Supporting(n)
  BY <1>1, <1>6, <1>7 DEF Reports!Supporting
<1>9. Reports!SeedNode' = Reports!SeedNode /\ Reports!SeedName' = Reports!SeedName
  <2>1. Reports!SeedNode' = Reports!SeedNode
    BY <1>1 DEF Reports!SeedNode
  <2>. QED
    BY <1>1, <1>2, <2>1 DEF Reports!SeedName
<1>10. \A name : /\ Reports!Sharing(name)' = Reports!Sharing(name)
                 /\ Reports!SharingFamilies(name)' = Reports!SharingFamilies(name)
  <2>1. \A name : Reports!Sharing(name)' = Reports!Sharing(name)
    BY <1>1, <1>2 DEF Reports!Sharing
  <2>. QED
    BY <2>1 DEF Reports!SharingFamilies
<1>11. Reports!RepeatedName' = Reports!RepeatedName
  <2>1. Reports!Repeated' = Reports!Repeated
    BY <1>1, <1>10 DEF Reports!Repeated
  <2>. QED
    BY <2>1, <1>10 DEF Reports!RepeatedName
<1>12. /\ Reports!ReferenceName' = Reports!ReferenceName
       /\ Reports!ReferenceNode' = Reports!ReferenceNode
       /\ \A n : Reports!Compared(n)' = Reports!Compared(n)
  <2>1. Reports!ReferenceName' = Reports!ReferenceName
    BY <1>9, <1>11 DEF Reports!ReferenceName
  <2>2. Reports!ReferenceNode' = Reports!ReferenceNode
    BY <1>9, <1>10, <2>1 DEF Reports!ReferenceNode
  <2>. QED
    BY <1>1, <1>9, <2>1, <2>2 DEF Reports!Compared
<1>13. \A n : Reports!Assess(n)' = Reports!Assess(n)
  <2>1. \A n : Reports!AssessProfessional(n)' = Reports!AssessProfessional(n)
    BY <1>1, <1>2, <1>6, <1>7 DEF Reports!AssessProfessional
  <2>2. \A n : Reports!AssessSupported(n)' = Reports!AssessSupported(n)
    BY <1>2, <1>8 DEF Reports!AssessSupported
  <2>3. \A n : Reports!AssessAgainstReference(n)' = Reports!AssessAgainstReference(n)
    BY <1>1, <1>2, <1>10, <1>12 DEF Reports!AssessAgainstReference
  <2>. TAKE n
  <2>4. /\ Reports!EvidenceOn(n)' = Reports!EvidenceOn(n)
        /\ Reports!Supporting(n)' = Reports!Supporting(n)
        /\ Reports!SeedNode' = Reports!SeedNode /\ Reports!Exact' = Reports!Exact
        /\ Reports!SourceIds(n)' = Reports!SourceIds(n)
    BY <1>1, <1>2, <1>8, <1>9
  <2>5. Reports!Assessed("unverified", "low", Reports!SourceIds(n))'
          = Reports!Assessed("unverified", "low", Reports!SourceIds(n))
    BY <2>4 DEF Reports!Assessed
  <2>. QED
    BY <2>1, <2>2, <2>3, <2>4, <2>5 DEF Reports!Assess
<1>14. \A assessment : Reports!DecidePerson(assessment)' = Reports!DecidePerson(assessment)
  <2>. TAKE assessment
  <2>. DEFINE likely == {Reports!ProfessionalMatch(n) :
                           n \in {o \in Reports!Matched : assessment[o].status = "likely"}}
              passing == IF chosen = 0 THEN likely ELSE {m \in likely : chosen \in m.roots}
              names == {m.name : m \in passing}
              cited == UNION {m.sources : m \in passing}
  <2>1. likely' = likely
    BY <1>6, <1>7
  <2>2. passing' = passing
    <3>. HIDE DEF likely
    <3>. QED
      BY <2>1
  <2>3. names' = names /\ cited' = cited
    <3>. HIDE DEF passing
    <3>. QED
      BY <2>2
  <2>4. Reports!DecidePerson(assessment)
          = IF Cardinality(names) # 1 THEN Reports!AccountCentric
            ELSE [type |-> "person_centric", name |-> Reports!Some(names), cites |-> cited]
    BY CardinalityIs DEF Reports!DecidePerson
  <2>5. Reports!DecidePerson(assessment)'
          = IF Cardinality(names') # 1 THEN Reports!AccountCentric
            ELSE [type |-> "person_centric", name |-> Reports!Some(names'), cites |-> cited']
    BY CardinalityIs DEF Reports!DecidePerson, Reports!AccountCentric
  <2>. HIDE DEF names, cited
  <2>. QED
    BY <2>3, <2>4, <2>5
<1>15. \A n, assessed : Reports!ClaimsAbout(n, assessed)' = Reports!ClaimsAbout(n, assessed)
  BY <1>1, <1>2 DEF Reports!ClaimsAbout
<1>16. \A assessment, person : Reports!Limiting(assessment, person)' = Reports!Limiting(assessment, person)
  BY <1>1, <1>2 DEF Reports!Limiting
<1>17. \A person : Reports!Subject(person)' = Reports!Subject(person)
  BY <1>1, <1>2 DEF Reports!Subject, Reports!Existence
<1>. QED
  BY <1>1, <1>3, <1>13, <1>14, <1>15, <1>16, <1>17 DEF Reports!Render

\* A set of numbers that is not empty has a least one.
LEMMA LeastIs ==
    ASSUME NEW S \in SUBSET Nat, S # {}
    PROVE  Reports!Least(S) \in S /\ \A n \in S : Reports!Least(S) <= n
<1>. DEFINE R == OpToRel(<, Nat)
<1>1. IsWellFoundedOn(R, Nat)
  BY NatLessThanWellFounded
<1>2. PICK x \in S : \A y \in S : <<y, x>> \notin R
  <2>. HIDE DEF R
  <2>. QED
    BY <1>1, WFMin
<1>3. ASSUME NEW y \in S PROVE x <= y
  <2>1. x \in Nat /\ y \in Nat
    OBVIOUS
  <2>2. y < x => <<y, x>> \in R
    BY <2>1 DEF R, OpToRel
  <2>. HIDE DEF R
  <2>. QED
    BY <1>2, <2>1, <2>2
<1>. QED
  BY <1>2, <1>3 DEF Reports!Least

LEMMA ReportInit ==
    ASSUME Init
    PROVE  ReportInv
<1>1. seed \in Seeds
  BY AlgorithmsAssumption DEF Init
<1>2. phase = "scanning" /\ accounts = <<>> /\ chosen = 0 /\ wave = <<>> /\ searched = {}
      /\ evidence = <<>> /\ report = None
  BY DEF Init, Reports!Init
<1>3. DOMAIN wave = {} /\ DOMAIN accounts = {} /\ DOMAIN evidence = {}
  BY <1>2
<1>4. accounts \in Seq(Row) /\ evidence \in Seq(Backing)
  BY <1>2
<1>. QED
  BY <1>1, <1>2, <1>3, <1>4 DEF ReportInv, Rows, Waved, Evident, Included, Stages

LEMMA FinishScanKeeps ==
    ASSUME ReportInv, Reports!FinishScan
    PROVE  ReportInv'
<1>1. /\ phase = "scanning" /\ phase' = "scanned" /\ accounts' \in Scans
      /\ UNCHANGED <<seed, chosen, wave, searched, evidence, report>>
  BY DEF Reports!FinishScan
<1>2. /\ chosen = 0 /\ wave = <<>> /\ searched = {} /\ evidence = <<>> /\ report = None
      /\ seed \in Seeds
  BY <1>1 DEF ReportInv, Stages
<1>3. /\ accounts' \in Seq(Reports!Account)
      /\ \A n \in DOMAIN accounts' : accounts'[n].check = "profile" => accounts'[n].exact
  BY <1>1, AlgorithmsAssumption DEF Reports!FootprintReportAssumption
<1>4. Rows'
  <2>1. \A n \in DOMAIN accounts' : /\ accounts'[n] \in Row
                                    /\ accounts'[n].check # "none"
    <3>1. \A n \in DOMAIN accounts' : accounts'[n] \in Reports!Account
      BY <1>3
    <3>. QED
      BY <3>1 DEF Row, Reports!Account
  <2>2. accounts' \in Seq(Row)
    BY <1>3, <2>1
  <2>. QED
    BY <1>3, <2>1, <2>2 DEF Rows
<1>5. DOMAIN wave = {} /\ DOMAIN evidence = {} /\ evidence \in Seq(Backing)
  BY <1>2
<1>. QED
  BY <1>1, <1>2, <1>4, <1>5 DEF ReportInv, Waved, Evident, Included, Stages

\* When the wave starts, a name searched is borne by first-party profiles, which
\* are its sources.
StartsWith(W) ==
    \A name \in DOMAIN W : /\ name \in Reports!Candidates
                           /\ W[name].roots = Reports!Bearers(name)
                           /\ W[name].context \subseteq Reports!Nodes

LEMMA CandidateIs ==
    ASSUME Rows, NEW name \in Reports!Candidates
    PROVE  /\ name \in Seq(STRING) /\ Len(name) \in 2..4
           /\ \A n \in Reports!Bearers(name) : /\ n \in DOMAIN accounts
                                               /\ accounts[n].check = "profile"
                                               /\ accounts[n].name = name
<1>1. PICK n \in DOMAIN accounts : name = accounts[n].name
  BY DEF Reports!Candidates, Reports!Nodes, Reports!Name
<1>2. accounts[n] \in Row
  BY DEF Rows
<1>3. Len(name) \in 2..4
  BY DEF Reports!Candidates, Reports!Plausible
<1>. QED
  BY <1>1, <1>2, <1>3 DEF Row, Reports!Bearers, Reports!Nodes, Reports!Name

LEMMA WaveStarts ==
    ASSUME Rows, StartsWith(wave'), UNCHANGED accounts, searched' = {}
    PROVE  Waved'
BY CandidateIs DEF Waved, StartsWith, Reports!Nodes

LEMMA StartSearchKeeps ==
    ASSUME ReportInv, Reports!StartSearch
    PROVE  ReportInv'
<1>1. /\ phase = "scanned" /\ phase' = "searching" /\ wave' = Reports!Wave
      /\ UNCHANGED <<seed, accounts, chosen, searched, evidence, report>>
  BY DEF Reports!StartSearch
<1>2. /\ chosen = 0 /\ searched = {} /\ evidence = <<>> /\ report = None /\ seed \in Seeds
      /\ Rows
  BY <1>1 DEF ReportInv, Stages
<1>3. StartsWith(wave')
  BY <1>1 DEF StartsWith, Reports!Wave, Reports!Followed, Reports!Context, Reports!Locating
<1>4. Waved'
  BY <1>1, <1>2, <1>3, WaveStarts
<1>5. DOMAIN evidence = {} /\ evidence \in Seq(Backing)
  BY <1>2
<1>. QED
  BY <1>1, <1>2, <1>4, <1>5 DEF ReportInv, Rows, Evident, Included, Stages

LEMMA SelectKeeps ==
    ASSUME ReportInv, NEW n, Reports!Select(n)
    PROVE  ReportInv'
<1>1. /\ phase = "scanned" /\ phase' = "searching" /\ wave' = Reports!Wave'
      /\ n \in Reports!Eligible /\ chosen' = n
      /\ UNCHANGED <<seed, accounts, searched, evidence, report>>
  BY DEF Reports!Select
<1>2. /\ searched = {} /\ evidence = <<>> /\ report = None /\ seed \in Seeds
      /\ Rows
  BY <1>1 DEF ReportInv, Stages
<1>3. StartsWith(wave')
  <2>1. /\ Reports!Candidates' = Reports!Candidates
        /\ \A name : Reports!Bearers(name)' = Reports!Bearers(name)
        /\ \A name : Reports!Context(name)' \subseteq Reports!Nodes
    BY <1>1 DEF Reports!Candidates, Reports!Bearers, Reports!Nodes, Reports!Name,
                Reports!Context, Reports!Locating
  <2>2. DOMAIN wave' \subseteq Reports!Candidates
    BY <1>1, <2>1 DEF Reports!Wave, Reports!Followed
  <2>3. \A name \in DOMAIN wave' :
          /\ wave'[name].roots = Reports!Bearers(name)
          /\ wave'[name].context \subseteq Reports!Nodes
    BY <1>1, <2>1 DEF Reports!Wave
  <2>. QED
    BY <2>2, <2>3 DEF StartsWith
<1>4. Waved'
  BY <1>1, <1>2, <1>3, WaveStarts
<1>5. DOMAIN evidence = {} /\ evidence \in Seq(Backing)
  BY <1>2
<1>6. Included'
  <2>1. PICK name \in Reports!Candidates : n \in Reports!Bearers(name)
    BY <1>1 DEF Reports!Eligible, Reports!Followed
  <2>2. /\ n \in DOMAIN accounts /\ accounts[n].check = "profile" /\ accounts[n].name = name
        /\ Len(name) \in 2..4
    BY <1>2, <2>1, CandidateIs
  <2>3. name \in DOMAIN wave' => n \in wave'[name].roots
    BY <1>3, <2>1 DEF StartsWith
  <2>. QED
    BY <1>1, <2>2, <2>3 DEF Included
<1>. QED
  BY <1>1, <1>2, <1>4, <1>5, <1>6 DEF ReportInv, Rows, Evident, Stages

LEMMA FinalizeKeeps ==
    ASSUME ReportInv, Reports!Finalize
    PROVE  ReportInv'
<1>1. /\ phase \in {"scanned", "searching"} /\ phase' = "ready" /\ report' = Reports!Render
      /\ UNCHANGED <<seed, accounts, chosen, wave, searched, evidence>>
  BY DEF Reports!Finalize
<1>2. Reports!Render' = Reports!Render
  BY <1>1, Unread
<1>. QED
  BY <1>1, <1>2 DEF ReportInv, Rows, Waved, Evident, Included, Stages

LEMMA ReportRests ==
    ASSUME ReportInv, UNCHANGED reportVars
    PROVE  ReportInv'
<1>1. UNCHANGED <<phase, seed, accounts, chosen, wave, searched, evidence, report>>
  BY DEF reportVars
<1>2. Reports!Render' = Reports!Render
  BY <1>1, Unread
<1>. QED
  BY <1>1, <1>2 DEF ReportInv, Rows, Waved, Evident, Included, Stages

LEMMA FunctionIsSeq ==
    ASSUME NEW S, NEW n \in Nat, NEW s \in [1 .. n -> S]
    PROVE  s \in Seq(S)
<1>1. s \in UNION {[1 .. m -> S] : m \in Nat}
  OBVIOUS
<1>. QED
  BY <1>1, SeqDef, Zenon

LEMMA PutLast ==
    ASSUME NEW S, NEW s \in Seq(S), NEW r \in S, NEW t, t = Append(s, r)
    PROVE  /\ t \in Seq(S) /\ Len(t) = Len(s) + 1
           /\ DOMAIN t = 1 .. (Len(s) + 1)
           /\ t[Len(s) + 1] = r /\ \A i \in DOMAIN s : t[i] = s[i]
OBVIOUS

LEMMA NamesAreShown == \A name : Len(name) \in 2..4 => name # <<>>
<1>1. Len(<<>>) = 0
  OBVIOUS
<1>. QED
  BY <1>1

\* A search that brings a profile: evidence on a node that was found before or
\* is new; an account whose name was not known takes the name of its first
\* profile.
Brings(name, t, shown) ==
    /\ evidence' \in Seq(Backing)
    /\ Len(evidence') = Len(evidence) + 1
    /\ \A i \in 1 .. Len(evidence) : evidence'[i] = evidence[i]
    /\ LET e == evidence'[Len(evidence) + 1]
       IN  /\ e.node = t /\ e.query = name /\ e.shown = shown
           /\ e.roots = wave[name].roots /\ e.context = wave[name].context
    /\ accounts' \in Seq(Row)
    /\ t \in DOMAIN accounts' /\ accounts'[t].name = shown
    /\ \A n \in DOMAIN accounts :
         /\ n \in DOMAIN accounts'
         /\ accounts'[n].check = accounts[n].check /\ accounts'[n].exact = accounts[n].exact
         /\ \/ accounts'[n].name = accounts[n].name
            \/ n = t /\ accounts[n].name = <<>> /\ \A i \in DOMAIN evidence : evidence[i].node # t
    /\ \A n \in DOMAIN accounts' : n \in DOMAIN accounts \/ (n = t /\ accounts'[n].check = "none")

\* What EndSearch makes of a profile p that a search for the name brought.
Finds(name, p, t, shown) ==
    /\ t \in Reports!Targets(p)
    /\ shown = Reports!Shown(p, name, t)
    /\ accounts' = IF t \in Reports!Nodes
                   THEN [accounts EXCEPT ![t].name = shown]
                   ELSE Append(accounts,
                               [platform |-> Reports!Platform(p), name |-> shown,
                                exact |-> p.exact, check |-> "none", located |-> p.near])
    /\ evidence' = Append(evidence,
                          [node |-> t, kind |-> p.kind, shown |-> shown,
                           query |-> name, near |-> p.near, social |-> p.social,
                           roots |-> wave[name].roots, context |-> wave[name].context])

LEMMA SearchBrings ==
    ASSUME ReportInv, NEW name \in DOMAIN wave,
           NEW p \in Profiles, NEW shown, NEW t, Finds(name, p, t, shown)
    PROVE  Brings(name, t, shown)
<1>. USE DEF Finds
<1>1. p \in Reports!Profile /\ Stranger \in Seq(STRING)
  BY AlgorithmsAssumption DEF Reports!FootprintReportAssumption
<1>2. /\ name \in Seq(STRING) /\ Len(name) \in 2..4
      /\ wave[name].roots \subseteq DOMAIN accounts /\ wave[name].context \subseteq DOMAIN accounts
  BY DEF ReportInv, Waved
<1>3. /\ accounts \in Seq(Row) /\ Len(accounts) \in Nat /\ DOMAIN accounts = 1 .. Len(accounts)
      /\ \A n \in DOMAIN accounts : accounts[n] \in Row
      /\ evidence \in Seq(Backing) /\ Len(evidence) \in Nat
      /\ DOMAIN evidence = 1 .. Len(evidence)
  BY DEF ReportInv, Rows, Evident
<1>4. Reports!Nodes = DOMAIN accounts
  BY DEF Reports!Nodes
<1>5. t \in DOMAIN accounts \/ t = Len(accounts) + 1
  BY <1>4 DEF Reports!Targets, Reports!Exact
<1>6. t \notin DOMAIN accounts <=> t = Len(accounts) + 1
  BY <1>3, <1>5
<1>7. t \in Nat
  BY <1>3, <1>5
<1>8. /\ shown \in Seq(STRING)
      /\ t \in DOMAIN accounts =>
           \/ shown = accounts[t].name
           \/ accounts[t].name = <<>> /\ \A i \in DOMAIN evidence : evidence[i].node # t
  <2>1. CASE t \in DOMAIN accounts /\ (Reports!Name(t) # <<>> \/ Reports!EvidenceOn(t) # {})
    <3>1. shown = accounts[t].name
      BY <1>4, <2>1 DEF Reports!Shown, Reports!Name
    <3>. QED
      BY <1>3, <2>1, <3>1 DEF Row
  <2>2. CASE ~(t \in DOMAIN accounts /\ (Reports!Name(t) # <<>> \/ Reports!EvidenceOn(t) # {}))
    <3>1. shown = CASE p.name = "same" -> name [] p.name = "other" -> Stranger [] OTHER -> <<>>
      BY <1>4, <2>2 DEF Reports!Shown
    <3>2. p.name \in {"same", "other", "none"}
      BY <1>1 DEF Reports!Profile
    <3>3. shown \in {name, Stranger, <<>>}
      BY <3>1, <3>2
    <3>4. shown \in Seq(STRING)
      <4>1. <<>> \in Seq(STRING)
        OBVIOUS
      <4>2. \A x \in {name, Stranger, <<>>} : x \in Seq(STRING)
        BY <1>1, <1>2, <4>1, Zenon
      <4>. QED
        BY <3>3, <4>2, Zenon
    <3>5. t \in DOMAIN accounts =>
            accounts[t].name = <<>> /\ \A i \in DOMAIN evidence : evidence[i].node # t
      <4>1. t \in DOMAIN accounts => Reports!Name(t) = <<>> /\ Reports!EvidenceOn(t) = {}
        BY <2>2
      <4>. QED
        BY <4>1 DEF Reports!Name, Reports!EvidenceOn
    <3>. QED
      BY <3>4, <3>5
  <2>. QED
    BY <2>1, <2>2
<1>9. /\ evidence' \in Seq(Backing)
      /\ Len(evidence') = Len(evidence) + 1
      /\ \A i \in 1 .. Len(evidence) : evidence'[i] = evidence[i]
      /\ LET e == evidence'[Len(evidence) + 1]
         IN  /\ e.node = t /\ e.query = name /\ e.shown = shown
             /\ e.roots = wave[name].roots /\ e.context = wave[name].context
  <2>. DEFINE e == [node |-> t, kind |-> p.kind, shown |-> shown,
                    query |-> name, near |-> p.near, social |-> p.social,
                    roots |-> wave[name].roots, context |-> wave[name].context]
  <2>1. p.kind \in {"api", "index"} /\ p.near \in BOOLEAN /\ p.social \in BOOLEAN
    BY <1>1 DEF Reports!Profile
  <2>2. wave[name].roots \in SUBSET Nat /\ wave[name].context \in SUBSET Nat
    BY <1>2, <1>3
  <2>3. e \in Backing
    BY <1>2, <1>7, <1>8, <2>1, <2>2 DEF Backing
  <2>4. /\ e.node = t /\ e.query = name /\ e.shown = shown
        /\ e.roots = wave[name].roots /\ e.context = wave[name].context
    OBVIOUS
  <2>. HIDE DEF e
  <2>5. evidence' = Append(evidence, e)
    BY DEF e
  <2>. QED
    BY <1>3, <2>3, <2>4, <2>5
<1>10. CASE t \in DOMAIN accounts
  <2>. DEFINE r == [accounts[t] EXCEPT !.name = shown]
  <2>1. accounts' = [accounts EXCEPT ![t] = r]
    BY <1>4, <1>10
  <2>2. /\ r \in Row /\ r.name = shown
        /\ r.check = accounts[t].check /\ r.exact = accounts[t].exact
    BY <1>3, <1>8, <1>10 DEF Row
  <2>. HIDE DEF r
  <2>3. /\ accounts' \in Seq(Row) /\ DOMAIN accounts' = DOMAIN accounts
        /\ accounts'[t] = r /\ \A n \in DOMAIN accounts : n # t => accounts'[n] = accounts[n]
    <3>1. /\ accounts' = [n \in 1 .. Len(accounts) |-> IF n = t THEN r ELSE accounts[n]]
          /\ \A n \in 1 .. Len(accounts) : (IF n = t THEN r ELSE accounts[n]) \in Row
      BY <1>3, <2>1, <2>2
    <3>2. accounts' \in [1 .. Len(accounts) -> Row]
      BY <3>1
    <3>3. accounts' \in Seq(Row)
      BY <1>3, <3>2, FunctionIsSeq
    <3>. QED
      BY <1>3, <1>10, <3>1, <3>3
  <2>4. ASSUME NEW n \in DOMAIN accounts
        PROVE  /\ n \in DOMAIN accounts'
               /\ accounts'[n].check = accounts[n].check /\ accounts'[n].exact = accounts[n].exact
               /\ \/ accounts'[n].name = accounts[n].name
                  \/ n = t /\ accounts[n].name = <<>> /\ \A i \in DOMAIN evidence : evidence[i].node # t
    <3>1. CASE n # t
      BY <2>3, <3>1
    <3>2. CASE n = t
      BY <1>8, <1>10, <2>2, <2>3, <3>2
    <3>. QED
      BY <3>1, <3>2
  <2>5. t \in DOMAIN accounts' /\ accounts'[t].name = shown
    BY <1>10, <2>2, <2>3
  <2>. QED
    BY <1>9, <2>3, <2>4, <2>5 DEF Brings
<1>11. CASE t \notin DOMAIN accounts
  <2>. DEFINE r == [platform |-> Reports!Platform(p), name |-> shown,
                    exact |-> p.exact, check |-> "none", located |-> p.near]
  <2>1. r \in Row /\ r.name = shown /\ r.check = "none"
    <3>1. p.exact \in BOOLEAN /\ p.near \in BOOLEAN
      BY <1>1 DEF Reports!Profile
    <3>2. Reports!Platform(p) \in {"github", "linkedin"}
      BY DEF Reports!Platform
    <3>. QED
      BY <1>8, <3>1, <3>2 DEF Row
  <2>2. accounts' = Append(accounts, r)
    BY <1>4, <1>11
  <2>. HIDE DEF r
  <2>3. /\ accounts' \in Seq(Row) /\ Len(accounts') = Len(accounts) + 1
        /\ DOMAIN accounts' = 1 .. (Len(accounts) + 1)
        /\ accounts'[Len(accounts) + 1] = r
        /\ \A n \in DOMAIN accounts : accounts'[n] = accounts[n]
    <3>1. accounts \in Seq(Row) /\ r \in Row
      BY <1>3, <2>1
    <3>. QED
      BY <2>2, <3>1, PutLast
  <2>4. t = Len(accounts) + 1 /\ t \notin DOMAIN accounts
    BY <1>6, <1>11
  <2>5. /\ \A n \in DOMAIN accounts : n \in DOMAIN accounts'
        /\ \A n \in DOMAIN accounts' : n \in DOMAIN accounts \/ n = t
        /\ t \in DOMAIN accounts'
    BY <1>3, <2>3, <2>4
  <2>. QED
    BY <1>9, <2>1, <2>3, <2>4, <2>5 DEF Brings
<1>. QED
  BY <1>10, <1>11

LEMMA BroughtKeeps ==
    ASSUME ReportInv, NEW name \in DOMAIN wave, NEW t, NEW shown, Brings(name, t, shown),
           phase = "searching", searched' = searched \cup {name},
           UNCHANGED <<phase, seed, chosen, wave, report>>
    PROVE  ReportInv'
<1>. DEFINE last == Len(evidence) + 1
<1>1. /\ Len(evidence) \in Nat /\ DOMAIN evidence = 1 .. Len(evidence)
      /\ DOMAIN evidence' = 1 .. last /\ last \in 1 .. last
      /\ \A i \in DOMAIN evidence' : i \in DOMAIN evidence \/ i = last
      /\ \A i \in DOMAIN evidence : i \in DOMAIN evidence' /\ evidence'[i] = evidence[i] /\ i # last
  <2>1. /\ evidence \in Seq(Backing) /\ evidence' \in Seq(Backing)
        /\ Len(evidence') = Len(evidence) + 1
        /\ \A i \in 1 .. Len(evidence) : evidence'[i] = evidence[i]
    BY DEF Brings, ReportInv, Evident
  <2>2. /\ Len(evidence) \in Nat /\ DOMAIN evidence = 1 .. Len(evidence)
        /\ DOMAIN evidence' = 1 .. (Len(evidence) + 1)
    BY <2>1
  <2>. QED
    BY <2>1, <2>2
<1>2. /\ evidence'[last].node = t /\ evidence'[last].query = name /\ evidence'[last].shown = shown
      /\ evidence'[last].roots = wave[name].roots /\ evidence'[last].context = wave[name].context
  BY DEF Brings
<1>. HIDE DEF last
<1>3. /\ Rows /\ Waved /\ Evident /\ Included
      /\ \A n \in DOMAIN accounts :
           /\ n \in DOMAIN accounts'
           /\ accounts'[n].check = accounts[n].check /\ accounts'[n].exact = accounts[n].exact
           /\ accounts[n].name # <<>> => accounts'[n].name = accounts[n].name
  BY DEF ReportInv, Brings
<1>4. Rows'
  <2>1. ASSUME NEW n \in DOMAIN accounts'
        PROVE  /\ accounts'[n].check = "profile" => accounts'[n].exact
               /\ accounts'[n].check = "none" => \E i \in DOMAIN evidence' : evidence'[i].node = n
    <3>1. CASE n \in DOMAIN accounts
      BY <1>1, <1>3, <3>1 DEF Rows
    <3>2. CASE n = t /\ accounts'[n].check = "none"
      BY <1>1, <1>2, <3>2
    <3>. QED
      BY <3>1, <3>2 DEF Brings
  <2>. QED
    BY <2>1 DEF Rows, Brings
<1>5. Waved'
  <2>1. ASSUME NEW a \in DOMAIN wave, NEW n \in wave[a].roots
        PROVE  n \in DOMAIN accounts' /\ accounts'[n].check = "profile" /\ accounts'[n].name = a
    <3>1. n \in DOMAIN accounts /\ accounts[n].check = "profile" /\ accounts[n].name = a /\ a # <<>>
      BY <1>3, NamesAreShown DEF Waved
    <3>. QED
      BY <1>3, <3>1
  <2>2. \A a \in DOMAIN wave : wave[a].context \subseteq DOMAIN accounts'
    BY <1>3 DEF Waved
  <2>. QED
    BY <1>3, <2>1, <2>2 DEF Waved
<1>6. Evident'
  <2>1. ASSUME NEW i \in DOMAIN evidence'
        PROVE  /\ evidence'[i].node \in DOMAIN accounts' /\ evidence'[i].query \in searched'
               /\ evidence'[i].roots = wave[evidence'[i].query].roots
               /\ evidence'[i].context = wave[evidence'[i].query].context
               /\ evidence'[i].shown = accounts'[evidence'[i].node].name
    <3>1. CASE i \in DOMAIN evidence
      <4>. DEFINE n == evidence[i].node
      <4>1. n \in DOMAIN accounts /\ evidence'[i] = evidence[i]
        BY <1>1, <1>3, <3>1 DEF Evident
      <4>2. accounts'[n].name = accounts[n].name
        BY <3>1, <4>1 DEF Brings
      <4>. QED
        BY <1>3, <3>1, <4>1, <4>2 DEF Evident
    <3>2. CASE i = last
      <4>1. t \in DOMAIN accounts' /\ accounts'[t].name = shown
        BY DEF Brings
      <4>. QED
        BY <1>2, <3>2, <4>1
    <3>. QED
      BY <1>1, <3>1, <3>2
  <2>. QED
    BY <2>1 DEF Evident, Brings
<1>7. Included'
  <2>1. CASE chosen # 0
    <3>1. chosen \in DOMAIN accounts /\ accounts[chosen].name # <<>>
      BY <1>3, <2>1, NamesAreShown DEF Included
    <3>. QED
      BY <1>3, <2>1, <3>1 DEF Included
  <2>. QED
    BY <2>1 DEF Included
<1>. QED
  BY <1>4, <1>5, <1>6, <1>7 DEF ReportInv, Stages

LEMMA EndSearchKeeps ==
    ASSUME ReportInv, NEW name, Reports!EndSearch(name)
    PROVE  ReportInv'
<1>1. /\ phase = "searching" /\ name \in DOMAIN wave /\ searched' = searched \cup {name}
      /\ UNCHANGED <<phase, seed, chosen, wave, report>>
  BY DEF Reports!EndSearch
<1>2. CASE UNCHANGED <<accounts, evidence>>
  BY <1>1, <1>2 DEF ReportInv, Rows, Waved, Evident, Included, Stages
<1>3. CASE ~UNCHANGED <<accounts, evidence>>
  <2>1. \E p \in Profiles : \E t \in Reports!Targets(p) : Finds(name, p, t, Reports!Shown(p, name, t))
    BY <1>3, Zenon DEF Reports!EndSearch, Finds
  <2>2. \E t, shown : Brings(name, t, shown)
    BY <1>1, <2>1, SearchBrings
  <2>. QED
    BY <1>1, <2>2, BroughtKeeps
<1>. QED
  BY <1>2, <1>3

LEMMA ReportNext ==
    ASSUME ReportInv, [Next]_vars
    PROVE  ReportInv'
<1>1. CASE UNCHANGED reportVars
  BY <1>1, ReportRests
<1>2. CASE Reports!Next
  BY <1>2, FinishScanKeeps, SelectKeeps, StartSearchKeeps, EndSearchKeeps, FinalizeKeeps
     DEF Reports!Next
<1>. QED
  BY <1>1, <1>2 DEF Next, vars

THEOREM ReportInvAlways == Spec => []ReportInv
BY ReportInit, ReportNext, PTL DEF Spec

-----------------------------------------------------------------------------
(* What the report is made from *)

LEMMA EvidenceIs ==
    ASSUME ReportInv, NEW i \in DOMAIN evidence
    PROVE  LET e == evidence[i]
           IN  /\ i \in Nat
               /\ e.node \in DOMAIN accounts /\ e.shown = accounts[e.node].name
               /\ e.query \in DOMAIN wave
               /\ Len(e.query) \in 2..4 /\ e.query # <<>>
               /\ e.roots = wave[e.query].roots
               /\ \A n \in e.roots : /\ n \in DOMAIN accounts
                                     /\ accounts[n].check = "profile" /\ accounts[n].name = e.query
               /\ e.context \subseteq DOMAIN accounts
<1>1. evidence \in Seq(Backing) /\ Evident /\ Waved
  BY DEF ReportInv, Evident
<1>2. i \in Nat
  BY <1>1
<1>3. evidence[i].query \in DOMAIN wave
  BY <1>1 DEF Evident, Waved
<1>. QED
  BY <1>1, <1>2, <1>3, NamesAreShown DEF Evident, Waved

\* As many families as there are accounts, at most.
LEMMA FamiliesAreFew ==
    ASSUME ReportInv, NEW S \in SUBSET DOMAIN accounts,
           NEW F, F = {Reports!Family(accounts[n].platform) : n \in S}
    PROVE  IsFiniteSet(F) /\ Cardinality(F) \in Nat /\ Cardinality(F) <= Len(accounts)
<1>1. DOMAIN accounts = 1 .. Len(accounts) /\ Len(accounts) \in Nat
  BY DEF ReportInv, Rows
<1>2. /\ IsFiniteSet(DOMAIN accounts) /\ Cardinality(DOMAIN accounts) = Len(accounts)
  <2>1. /\ IsFiniteSet(1 .. Len(accounts))
        /\ Cardinality(1 .. Len(accounts))
             = IF 1 > Len(accounts) THEN 0 ELSE Len(accounts) - 1 + 1
    BY <1>1, FS_Interval
  <2>. QED
    BY <1>1, <2>1
<1>3. IsFiniteSet(S) /\ Cardinality(S) <= Len(accounts) /\ Cardinality(S) \in Nat
  BY <1>2, FS_Subset, FS_CardinalityType
<1>4. PICK f : f \in Surjection(S, F)
  <2>. DEFINE f == [n \in S |-> Reports!Family(accounts[n].platform)]
  <2>1. f \in Surjection(S, F)
    BY DEF Surjection
  <2>. QED
    BY <2>1
<1>5. IsFiniteSet(F) /\ Cardinality(F) <= Cardinality(S)
  BY <1>3, <1>4, FS_Surjection
<1>6. Cardinality(F) \in Nat
  BY <1>5, FS_CardinalityType
<1>. QED
  BY <1>1, <1>3, <1>5, <1>6

\* A profile corroborates the name that was searched exactly when it anchors it.
LEMMA CorroboratesIs ==
    ASSUME ReportInv, NEW i \in DOMAIN evidence
    PROVE  Reports!Corroborates(evidence[i]) <=> Reports!Anchoring(evidence[i])
<1>. DEFINE e == evidence[i]
            roots == {r \in e.roots : Reports!Name(r) = e.query}
            families == Reports!RootFamilies(e) \cup {Reports!SourceFamily(e)}
<1>1. e.query # <<>> /\ roots \in SUBSET DOMAIN accounts
  BY EvidenceIs
<1>2. IsFiniteSet(Reports!RootFamilies(e))
  <2>1. Reports!RootFamilies(e) = {Reports!Family(accounts[n].platform) : n \in roots}
    BY DEF Reports!RootFamilies
  <2>. HIDE DEF roots, e
  <2>. QED
    BY <1>1, <2>1, FamiliesAreFew
<1>3. Cardinality(families) \in Nat
  BY <1>2, FS_AddElement, FS_CardinalityType
<1>4. Reports!Cardinality(families) >= 3 <=> Reports!Cardinality(families) > 2
  <2>. HIDE DEF families
  <2>. QED
    BY <1>3, CardinalityIs
<1>. QED
  BY <1>1, <1>4 DEF Reports!Corroborates, Reports!Anchoring, Reports!NameMatch,
                    Reports!LocationAnchor, Reports!ThirdFamily

LEMMA MatchingIs ==
    ASSUME NEW n
    PROVE  Reports!Matching(n) = {i \in DOMAIN evidence : evidence[i].node = n /\ Reports!Corroborates(evidence[i])}
BY DEF Reports!Matching, Reports!EvidenceOn

\* The strongest match of an account is one of its matches.
LEMMA MatchIs ==
    ASSUME ReportInv, NEW n, Reports!Matching(n) # {}
    PROVE  \E i \in Reports!Matching(n) : Reports!ProfessionalMatch(n) = Reports!MatchOf(i)
<1>. DEFINE Strength(i) == Reports!Rank(Reports!MatchOf(i).confidence)
            T == {i \in Reports!Matching(n) : \A j \in Reports!Matching(n) : Strength(i) >= Strength(j)}
<1>1. \A i : Strength(i) = 3 \/ Strength(i) = 2
  <2>. TAKE i
  <2>1. Reports!MatchOf(i).confidence \in {"medium_high", "medium"}
    BY DEF Reports!MatchOf
  <2>. QED
    BY <2>1 DEF Reports!Rank
<1>2. T # {}
  <2>. HIDE DEF Strength
  <2>. QED
    BY <1>1
<1>3. T \in SUBSET Nat
  BY EvidenceIs, MatchingIs
<1>4. Reports!ProfessionalMatch(n) = Reports!MatchOf(Reports!Least(T))
  BY DEF Reports!ProfessionalMatch
<1>5. Reports!Least(T) \in T
  <2>. HIDE DEF T
  <2>. QED
    BY <1>2, <1>3, LeastIs
<1>. QED
  BY <1>4, <1>5

\* The names profiles of an account anchor are those its matches are for.
LEMMA AnchoredOnIs ==
    ASSUME ReportInv, NEW n
    PROVE  Reports!AnchoredOn(n) = {evidence[i].query : i \in Reports!Matching(n)}
BY CorroboratesIs DEF Reports!AnchoredOn, Reports!Matching, Reports!EvidenceOn

LEMMA RenderedIs ==
    ASSUME ReportInv, phase = "ready"
    PROVE  LET assessment == [n \in Reports!Nodes |-> Reports!Assess(n)]
           IN  /\ report.accounts = assessment
               /\ report.person = Reports!DecidePerson(assessment)
               /\ report.subject = Reports!Subject(report.person)
               /\ report.claims = UNION {Reports!ClaimsAbout(n, assessment[n]) : n \in Reports!Nodes}
               /\ report.snapshot = Reports!Observations
<1>1. report = Reports!Render
  BY DEF ReportInv, Stages
<1>. QED
  BY <1>1 DEF Reports!Render

-----------------------------------------------------------------------------
(* The person *)

\* The anchored names, of the selected account if there is one; and those some
\* profile anchors and no other name.
Anchored == {name \in UNION {Reports!AnchoredOn(n) : n \in Reports!Nodes} :
               chosen = 0 \/ name = Reports!Name(chosen)}
Alone == {name \in Anchored : \E n \in Reports!Nodes : Reports!AnchoredOn(n) = {name}}

\* The matches the person is decided from.
Passing(assessment) ==
    LET likely == {Reports!ProfessionalMatch(n) :
                     n \in {o \in Reports!Matched : assessment[o].status = "likely"}}
    IN  IF chosen = 0 THEN likely ELSE {m \in likely : chosen \in m.roots}

\* The names among which the person is decided are anchored, and those that are
\* anchored alone are among them.
LEMMA NamesAre ==
    ASSUME ReportInv, NEW assessment, assessment = [n \in Reports!Nodes |-> Reports!Assess(n)]
    PROVE  LET names == {m.name : m \in Passing(assessment)}
           IN  names \subseteq Anchored /\ Alone \subseteq names
<1>. DEFINE likely == {Reports!ProfessionalMatch(n) :
                         n \in {o \in Reports!Matched : assessment[o].status = "likely"}}
            passing == IF chosen = 0 THEN likely ELSE {m \in likely : chosen \in m.roots}
<1>1. \A n \in Reports!Matched : assessment[n].status = "likely"
  <2>. TAKE n \in Reports!Matched
  <2>1. n \in Reports!Nodes /\ Reports!EvidenceOn(n) # {}
    BY DEF Reports!Matched, Reports!Matching
  <2>2. Reports!Assess(n) = Reports!AssessProfessional(n)
    BY <2>1 DEF Reports!Assess
  <2>. QED
    BY <2>1, <2>2 DEF Reports!AssessProfessional, Reports!Assessed
<1>2. likely = {Reports!ProfessionalMatch(n) : n \in Reports!Matched}
  BY <1>1
<1>3. \A i : /\ Reports!MatchOf(i).name = evidence[i].query
             /\ Reports!MatchOf(i).roots = evidence[i].roots
  BY DEF Reports!MatchOf
<1>4. ASSUME NEW i \in DOMAIN evidence, chosen # 0
      PROVE  chosen \in evidence[i].roots <=> evidence[i].query = Reports!Name(chosen)
  <2>1. chosen \in evidence[i].roots => evidence[i].query = Reports!Name(chosen)
    BY EvidenceIs DEF Reports!Name
  <2>2. evidence[i].query = Reports!Name(chosen) => chosen \in evidence[i].roots
    BY <1>4, EvidenceIs DEF Reports!Name, ReportInv, Included
  <2>. QED
    BY <2>1, <2>2
<1>5. \A n \in Reports!Matched :
        /\ n \in Reports!Nodes
        /\ \E i \in DOMAIN evidence : /\ evidence[i].query \in Reports!AnchoredOn(n)
                                      /\ Reports!ProfessionalMatch(n) = Reports!MatchOf(i)
  BY MatchIs, MatchingIs, AnchoredOnIs DEF Reports!Matched
<1>. HIDE DEF likely
<1>6. ASSUME NEW m \in passing PROVE m.name \in Anchored
  <2>1. m \in likely /\ (chosen = 0 \/ chosen \in m.roots)
    OBVIOUS
  <2>2. PICK n \in Reports!Nodes : \E i \in DOMAIN evidence :
          evidence[i].query \in Reports!AnchoredOn(n) /\ m = Reports!MatchOf(i)
    BY <1>2, <1>5, <2>1
  <2>3. PICK i \in DOMAIN evidence : /\ evidence[i].query \in Reports!AnchoredOn(n)
                                     /\ m = Reports!MatchOf(i)
    BY <2>2
  <2>. QED
    BY <1>3, <1>4, <2>1, <2>3 DEF Anchored
<1>7. ASSUME NEW name \in Alone PROVE \E m \in passing : m.name = name
  <2>1. PICK n \in Reports!Nodes : Reports!AnchoredOn(n) = {name}
    BY DEF Alone
  <2>2. n \in Reports!Matched
    BY <2>1, AnchoredOnIs DEF Reports!Matched
  <2>3. PICK i \in DOMAIN evidence : /\ evidence[i].query \in Reports!AnchoredOn(n)
                                     /\ Reports!ProfessionalMatch(n) = Reports!MatchOf(i)
    BY <1>5, <2>2
  <2>4. evidence[i].query = name
    BY <2>1, <2>3
  <2>5. chosen = 0 \/ chosen \in Reports!MatchOf(i).roots
    BY <1>3, <1>4, <2>4 DEF Alone, Anchored
  <2>6. Reports!MatchOf(i) \in likely
    BY <1>2, <2>2, <2>3
  <2>. QED
    BY <1>3, <2>4, <2>5, <2>6
<1>8. Passing(assessment) = passing
  BY DEF Passing, likely
<1>. HIDE DEF passing
<1>. QED
  BY <1>6, <1>7, <1>8

LEMMA AnchoredAreFew ==
    ASSUME ReportInv
    PROVE  IsFiniteSet(Anchored)
<1>. DEFINE Q == {evidence[i].query : i \in DOMAIN evidence}
            f == [i \in DOMAIN evidence |-> evidence[i].query]
<1>1. IsFiniteSet(DOMAIN evidence)
  <2>1. DOMAIN evidence = 1 .. Len(evidence) /\ Len(evidence) \in Nat
    BY DEF ReportInv, Evident
  <2>. QED
    BY <2>1, FS_Interval
<1>2. f \in Surjection(DOMAIN evidence, Q)
  BY DEF Surjection
<1>3. IsFiniteSet(Q)
  <2>. HIDE DEF f, Q
  <2>. QED
    BY <1>1, <1>2, FS_Surjection
<1>4. Anchored \subseteq Q
  BY DEF Anchored, Reports!AnchoredOn, Reports!EvidenceOn
<1>. QED
  BY <1>3, <1>4, FS_Subset

LEMMA PersonIs ==
    ASSUME ReportInv, phase = "ready"
    PROVE  /\ report.person.type = "person_centric" =>
                report.person.name \in Anchored /\ Alone \subseteq {report.person.name}
           /\ Cardinality(Anchored) = 1 /\ Alone = Anchored => report.person.type = "person_centric"
<1>. DEFINE assessment == [n \in Reports!Nodes |-> Reports!Assess(n)]
            names == {m.name : m \in Passing(assessment)}
            cited == UNION {m.sources : m \in Passing(assessment)}
<1>1. report.person = Reports!DecidePerson(assessment)
  BY RenderedIs
<1>2. Reports!DecidePerson(assessment)
        = IF Cardinality(names) # 1 THEN Reports!AccountCentric
          ELSE [type |-> "person_centric", name |-> Reports!Some(names), cites |-> cited]
  BY CardinalityIs DEF Reports!DecidePerson, Passing
<1>3. names \subseteq Anchored /\ Alone \subseteq names
  BY NamesAre
<1>. HIDE DEF names, assessment, cited
<1>4. CASE Cardinality(names) = 1
  <2>1. PICK name : names = {name}
    BY <1>3, <1>4, AnchoredAreFew, FS_Subset, FS_Singleton
  <2>2. Reports!Some(names) = name
    BY <2>1 DEF Reports!Some
  <2>. QED
    BY <1>1, <1>2, <1>3, <1>4, <2>1, <2>2
<1>5. CASE Cardinality(names) # 1
  <2>1. report.person.type = "account_centric"
    BY <1>1, <1>2, <1>5 DEF Reports!AccountCentric
  <2>2. ~(Cardinality(Anchored) = 1 /\ Alone = Anchored)
    BY <1>3, <1>5
  <2>. QED
    BY <2>1, <2>2
<1>. QED
  BY <1>4, <1>5

LEMMA PersonAnchored == ReportInv => Reports!PersonIsAnchored
BY PersonIs, CardinalityIs DEF Reports!PersonIsAnchored, Reports!Ready, Anchored, Alone

LEMMA ChoiceFollowed == ReportInv => Reports!ChoiceIsFollowed
<1>. SUFFICES ASSUME ReportInv, phase = "ready", chosen # 0
              PROVE  report.subject = Reports!Name(chosen)
  BY DEF Reports!ChoiceIsFollowed, Reports!Ready
<1>1. report.subject = Reports!Subject(report.person)
  BY RenderedIs
<1>2. report.person.type = "person_centric" => report.person.name = Reports!Name(chosen)
  BY PersonIs DEF Anchored
<1>3. Reports!Existence(chosen) = "exact_verified" /\ Reports!Name(chosen) # <<>>
  BY NamesAreShown DEF ReportInv, Included, Reports!Existence, Reports!FirstParty, Reports!Name
<1>. QED
  BY <1>1, <1>2, <1>3 DEF Reports!Subject

-----------------------------------------------------------------------------
(* The accounts *)

\* A match that supports an account is anchored, and the account is one of the
\* sources of its name.
LEMMA SupportIs ==
    ASSUME ReportInv, NEW n, NEW m \in Reports!Supporting(n)
    PROVE  \E i \in DOMAIN evidence :
             /\ m = Reports!MatchOf(i) /\ Reports!Anchoring(evidence[i]) /\ n \in evidence[i].roots
<1>1. PICK o \in Reports!Matched : m = Reports!ProfessionalMatch(o) /\ n \in m.roots
  BY DEF Reports!Supporting
<1>2. PICK i \in Reports!Matching(o) : m = Reports!MatchOf(i)
  BY <1>1, MatchIs DEF Reports!Matched
<1>3. i \in DOMAIN evidence /\ Reports!Anchoring(evidence[i])
  BY MatchingIs, CorroboratesIs
<1>4. m.roots = evidence[i].roots
  BY <1>2 DEF Reports!MatchOf
<1>. QED
  BY <1>1, <1>2, <1>3, <1>4

\* The name that profiles repeat is one that two of them show, in two families.
LEMMA RepeatedIs ==
    ASSUME ReportInv, Reports!RepeatedName # <<>>
    PROVE  /\ Reports!RepeatedName \in Reports!Repeated
           /\ \A n : \E o \in Reports!Sharing(Reports!RepeatedName) : o # n
<1>. DEFINE Count(a) == Reports!Cardinality(Reports!SharingFamilies(a))
            L == Len(accounts)
            Widest == {a \in Reports!Repeated : \A b \in Reports!Repeated : Count(a) >= Count(b)}
<1>1. L \in Nat
  BY DEF ReportInv, Rows
<1>2. ASSUME NEW a
      PROVE  /\ Reports!Sharing(a) \in SUBSET DOMAIN accounts
             /\ IsFiniteSet(Reports!SharingFamilies(a))
             /\ Count(a) \in Nat /\ Count(a) <= L
  <2>1. Reports!Sharing(a) \in SUBSET DOMAIN accounts
    BY DEF Reports!Sharing, Reports!Exact, Reports!Nodes
  <2>2. Reports!SharingFamilies(a) = {Reports!Family(accounts[n].platform) : n \in Reports!Sharing(a)}
    BY DEF Reports!SharingFamilies
  <2>. QED
    BY <2>1, <2>2, FamiliesAreFew, CardinalityIs
<1>3. Reports!Repeated # {} /\ Reports!RepeatedName = Reports!Some(Widest)
  BY DEF Reports!RepeatedName
<1>. HIDE DEF Count, L
<1>4. Widest # {}
  <2>. DEFINE T == {k \in Nat : \E a \in Reports!Repeated : k = L - Count(a)}
  <2>1. PICK a \in Reports!Repeated : TRUE
    BY <1>3
  <2>2. L - Count(a) \in T
    BY <1>1, <1>2
  <2>3. T \in SUBSET Nat /\ T # {}
    BY <2>2
  <2>. HIDE DEF T
  <2>4. Reports!Least(T) \in T /\ \A k \in T : Reports!Least(T) <= k
    BY <2>3, LeastIs
  <2>5. PICK c \in Reports!Repeated : Reports!Least(T) = L - Count(c)
    BY <2>4 DEF T
  <2>6. ASSUME NEW b \in Reports!Repeated PROVE Count(c) >= Count(b)
    <3>1. L - Count(b) \in T
      BY <1>1, <1>2 DEF T
    <3>2. L - Count(c) <= L - Count(b)
      BY <2>4, <2>5, <3>1
    <3>. QED
      BY <1>1, <1>2, <3>2
  <2>. QED
    BY <2>6
<1>5. Reports!RepeatedName \in Reports!Repeated
  <2>. HIDE DEF Widest
  <2>1. Reports!Some(Widest) \in Widest
    BY <1>4 DEF Reports!Some
  <2>. QED
    BY <1>3, <2>1 DEF Widest
<1>6. ASSUME NEW n PROVE \E o \in Reports!Sharing(Reports!RepeatedName) : o # n
  <2>. DEFINE S == Reports!Sharing(Reports!RepeatedName)
              F == Reports!SharingFamilies(Reports!RepeatedName)
  <2>. SUFFICES ASSUME S \subseteq {n} PROVE FALSE
    OBVIOUS
  <2>1. Cardinality(F) >= 2
    BY <1>5, CardinalityIs DEF Reports!Repeated
  <2>2. F \in SUBSET {Reports!Family(accounts[n].platform)}
    BY DEF Reports!SharingFamilies
  <2>3. Cardinality(F) <= 1
    <3>. DEFINE G == {Reports!Family(accounts[n].platform)}
    <3>1. F \in SUBSET G
      BY <2>2
    <3>2. IsFiniteSet(G) /\ Cardinality(G) = 1
      BY FS_Singleton
    <3>. HIDE DEF F, G
    <3>3. Cardinality(F) <= Cardinality(G)
      BY <3>1, <3>2, FS_Subset
    <3>. QED
      BY <3>2, <3>3
  <2>4. Cardinality(F) \in Nat
    BY <1>2, FS_CardinalityType
  <2>. QED
    BY <2>1, <2>3, <2>4
<1>. QED
  BY <1>5, <1>6

\* The reference account shows the reference name.
LEMMA ReferenceIs ==
    ASSUME ReportInv
    PROVE  /\ Reports!SeedNode = 0 \/ Reports!SeedNode \in Reports!Exact
           /\ Reports!ReferenceName # <<>> => Reports!ReferenceNode \in DOMAIN accounts
<1>1. Reports!SeedNode = 0 \/ Reports!SeedNode \in Reports!Exact
  <2>1. CASE chosen # 0
    BY <2>1 DEF Reports!SeedNode, Reports!Exact, Reports!Nodes, ReportInv, Included, Rows
  <2>2. CASE chosen = 0
    <3>. DEFINE S == {n \in Reports!Exact : seed # None /\ accounts[n].platform = seed}
    <3>1. Reports!SeedNode = Reports!Least(S) /\ (S = {} => Reports!Least(S) = 0)
      BY <2>2 DEF Reports!SeedNode, Reports!Least
    <3>2. S \in SUBSET Nat
      BY DEF Reports!Exact, Reports!Nodes, ReportInv, Rows
    <3>. QED
      BY <3>1, <3>2, LeastIs
  <2>. QED
    BY <2>1, <2>2
<1>2. ASSUME Reports!ReferenceName # <<>> PROVE Reports!ReferenceNode \in DOMAIN accounts
  <2>1. CASE Reports!SeedName # <<>>
    BY <1>1, <2>1 DEF Reports!ReferenceNode, Reports!SeedName, Reports!Exact, Reports!Nodes
  <2>2. CASE Reports!SeedName = <<>>
    <3>. DEFINE S == Reports!Sharing(Reports!RepeatedName)
    <3>1. Reports!ReferenceName = Reports!RepeatedName /\ Reports!ReferenceNode = Reports!Least(S)
      BY <2>2 DEF Reports!ReferenceName, Reports!ReferenceNode
    <3>2. S # {}
      BY <1>2, <3>1, RepeatedIs
    <3>3. S \in SUBSET DOMAIN accounts /\ S \in SUBSET Nat
      BY DEF Reports!Sharing, Reports!Exact, Reports!Nodes, ReportInv, Rows
    <3>. HIDE DEF S
    <3>. QED
      BY <3>1, <3>2, <3>3, LeastIs
  <2>. QED
    BY <2>1, <2>2
<1>. QED
  BY <1>1, <1>2

LEMMA LikelyIsGrounded == ReportInv => Reports!LikelyHasGrounds
<1>. SUFFICES ASSUME ReportInv, phase = "ready", NEW n \in Reports!Nodes,
                     Reports!Status(n) = "likely"
              PROVE  \/ \E i \in Reports!EvidenceOn(n) : Reports!Anchoring(evidence[i])
                     \/ \E i \in DOMAIN evidence : Reports!Anchoring(evidence[i]) /\ n \in evidence[i].roots
                     \/ /\ {n} \subseteq Reports!Exact /\ Reports!FirstParty(n)
                        /\ \E o \in Reports!Exact \ {n} :
                             Reports!FirstParty(o) /\ Reports!Name(o) = Reports!Name(n)
                               /\ Len(Reports!Name(n)) > 0
  BY DEF Reports!LikelyHasGrounds, Reports!Ready
<1>1. Reports!Assess(n).status = "likely"
  BY RenderedIs DEF Reports!Status
<1>2. CASE Reports!EvidenceOn(n) # {}
  <2>1. Reports!AssessProfessional(n).status = "likely"
    BY <1>1, <1>2 DEF Reports!Assess
  <2>2. n \in Reports!Matched
    BY <2>1 DEF Reports!AssessProfessional, Reports!Assessed
  <2>3. PICK i \in Reports!Matching(n) : TRUE
    BY <2>2 DEF Reports!Matched
  <2>. QED
    BY <2>3, MatchingIs, CorroboratesIs DEF Reports!EvidenceOn
<1>3. CASE Reports!Supporting(n) # {}
  BY <1>3, SupportIs
<1>4. CASE Reports!EvidenceOn(n) = {} /\ Reports!Supporting(n) = {}
  <2>1. /\ n # Reports!SeedNode /\ n \in Reports!Exact
        /\ Reports!AssessAgainstReference(n).status = "likely"
    BY <1>1, <1>4 DEF Reports!Assess, Reports!Assessed
  <2>2. /\ Reports!ReferenceName # <<>> /\ Reports!Name(n) = Reports!ReferenceName
        /\ Reports!FirstParty(n)
    BY <2>1 DEF Reports!AssessAgainstReference, Reports!Assessed
  <2>3. Len(Reports!Name(n)) > 0
    <3>1. Reports!Name(n) \in Seq(STRING)
      <4>1. accounts[n] \in Row
        BY DEF Reports!Nodes, ReportInv, Rows
      <4>. QED
        BY <4>1 DEF Row, Reports!Name
    <3>. QED
      BY <2>2, <3>1, EmptySeq
  <2>4. \E o \in Reports!Exact \ {n} : Reports!FirstParty(o) /\ Reports!Name(o) = Reports!Name(n)
    <3>1. CASE Reports!SeedName # <<>>
      <4>1. /\ Reports!SeedNode # 0 /\ Reports!FirstParty(Reports!SeedNode)
            /\ Reports!Name(Reports!SeedNode) = Reports!SeedName
            /\ Reports!ReferenceName = Reports!SeedName
        BY <3>1 DEF Reports!SeedName, Reports!ReferenceName
      <4>. QED
        BY <2>1, <2>2, <4>1, ReferenceIs
    <3>2. CASE Reports!SeedName = <<>>
      <4>1. Reports!ReferenceName = Reports!RepeatedName
        BY <3>2 DEF Reports!ReferenceName
      <4>2. PICK o \in Reports!Sharing(Reports!RepeatedName) : o # n
        BY <2>2, <4>1, RepeatedIs
      <4>. QED
        BY <2>2, <4>1, <4>2 DEF Reports!Sharing
    <3>. QED
      BY <3>1, <3>2
  <2>. QED
    BY <2>1, <2>2, <2>3, <2>4
<1>. QED
  BY <1>2, <1>3, <1>4

-----------------------------------------------------------------------------
(* The claims *)

\* What is cited lies in the snapshot.
Shown(cites) == cites # {} /\ cites \subseteq Reports!Observations

LEMMA SourcesAreShown ==
    ASSUME ReportInv, NEW n \in DOMAIN accounts
    PROVE  Shown(Reports!SourceIds(n))
<1>1. Reports!SourceIds(n) \subseteq Reports!Observations
  BY DEF Reports!Observations, Reports!Nodes
<1>2. Reports!SourceIds(n) # {}
  <2>1. CASE accounts[n].check # "none"
    BY <2>1 DEF Reports!SourceIds
  <2>2. CASE accounts[n].check = "none"
    <3>1. PICK i \in DOMAIN evidence : evidence[i].node = n
      BY <2>2 DEF ReportInv, Rows
    <3>. QED
      BY <3>1 DEF Reports!SourceIds, Reports!EvidenceOn
  <2>. QED
    BY <2>1, <2>2
<1>. QED
  BY <1>1, <1>2 DEF Shown

LEMMA MatchIsShown ==
    ASSUME ReportInv, NEW i \in DOMAIN evidence
    PROVE  Shown(Reports!MatchOf(i).sources)
<1>1. Reports!MatchOf(i).sources
        = {<<"search", i>>} \cup
            UNION {Reports!SourceIds(n) : n \in evidence[i].roots \cup evidence[i].context}
  BY DEF Reports!MatchOf
<1>2. <<"search", i>> \in Reports!Observations
  <2>1. evidence[i].node \in Reports!Nodes
    BY EvidenceIs DEF Reports!Nodes
  <2>2. <<"search", i>> \in Reports!SourceIds(evidence[i].node)
    BY DEF Reports!SourceIds, Reports!EvidenceOn
  <2>. QED
    BY <2>1, <2>2 DEF Reports!Observations
<1>3. \A n \in evidence[i].roots \cup evidence[i].context :
        Reports!SourceIds(n) \subseteq Reports!Observations
  BY EvidenceIs, SourcesAreShown DEF Shown
<1>. QED
  BY <1>1, <1>2, <1>3 DEF Shown

LEMMA AssessmentIsShown ==
    ASSUME ReportInv, NEW n \in DOMAIN accounts
    PROVE  /\ Reports!Assess(n).status \in {"likely", "unverified", "excluded"}
           /\ Reports!Assess(n).confidence \in Reports!Confidences
           /\ Shown(Reports!Assess(n).cites)
<1>. DEFINE Right(a) == /\ a.status \in {"likely", "unverified", "excluded"}
                        /\ a.confidence \in Reports!Confidences
                        /\ Shown(a.cites)
<1>1. ASSUME NEW cites, Shown(cites)
      PROVE  /\ Right(Reports!Assessed("unverified", "low", cites))
             /\ Right(Reports!Assessed("excluded", "medium", cites))
             /\ Right(Reports!Assessed("likely", "medium", cites))
             /\ Right(Reports!Assessed("likely", "medium_high", cites))
  BY <1>1 DEF Reports!Assessed, Reports!Confidences
<1>2. \A i : Reports!MatchOf(i).confidence \in {"medium", "medium_high"}
  BY DEF Reports!MatchOf
<1>3. Shown(Reports!SourceIds(n))
  BY SourcesAreShown
<1>4. \A a, b : Shown(a) /\ (Shown(b) \/ b \subseteq Reports!Observations) => Shown(a \cup b)
  BY DEF Shown
<1>. HIDE DEF Right
<1>5. CASE Reports!EvidenceOn(n) # {}
  <2>1. Reports!Assess(n) = Reports!AssessProfessional(n)
    BY <1>5 DEF Reports!Assess
  <2>2. CASE n \in Reports!Matched
    <3>1. PICK i \in DOMAIN evidence : Reports!ProfessionalMatch(n) = Reports!MatchOf(i)
      BY <2>2, MatchIs, MatchingIs DEF Reports!Matched
    <3>2. Shown(Reports!SourceIds(n) \cup Reports!ProfessionalMatch(n).sources)
      BY <1>3, <1>4, <3>1, MatchIsShown
    <3>3. Reports!AssessProfessional(n)
            = Reports!Assessed("likely", Reports!MatchOf(i).confidence,
                               Reports!SourceIds(n) \cup Reports!ProfessionalMatch(n).sources)
      BY <2>2, <3>1 DEF Reports!AssessProfessional
    <3>. QED
      BY <1>1, <1>2, <2>1, <3>2, <3>3 DEF Right
  <2>3. CASE n \notin Reports!Matched
    <3>1. \/ Reports!AssessProfessional(n) = Reports!Assessed("excluded", "medium", Reports!SourceIds(n))
          \/ Reports!AssessProfessional(n) = Reports!Assessed("unverified", "low", Reports!SourceIds(n))
      BY <2>3 DEF Reports!AssessProfessional
    <3>. QED
      BY <1>1, <1>3, <2>1, <3>1 DEF Right
  <2>. QED
    BY <2>2, <2>3
<1>6. CASE Reports!EvidenceOn(n) = {} /\ Reports!Supporting(n) # {}
  <2>. DEFINE Strength(m) == Reports!Rank(m.confidence)
              Best == {m \in Reports!Supporting(n) :
                         \A o \in Reports!Supporting(n) : Strength(m) >= Strength(o)}
              best == Reports!Some(Best)
  <2>1. \A m \in Reports!Supporting(n) : Strength(m) = 3 \/ Strength(m) = 2
    BY <1>2, SupportIs DEF Reports!Rank
  <2>2. Best # {}
    <3>. HIDE DEF Strength
    <3>. QED
      BY <1>6, <2>1
  <2>3. Reports!Assess(n) = Reports!Assessed("likely", best.confidence, Reports!SourceIds(n) \cup best.sources)
    BY <1>6 DEF Reports!Assess, Reports!AssessSupported
  <2>4. best \in Reports!Supporting(n)
    <3>1. Reports!Some(Best) \in Best
      <4>. HIDE DEF Best
      <4>. QED
        BY <2>2 DEF Reports!Some
    <3>. QED
      BY <3>1
  <2>. HIDE DEF best
  <2>5. PICK i \in DOMAIN evidence : best = Reports!MatchOf(i)
    BY <2>4, SupportIs
  <2>6. Shown(Reports!SourceIds(n) \cup best.sources)
    BY <1>3, <1>4, <2>5, MatchIsShown
  <2>7. best.confidence \in {"medium", "medium_high"}
    BY <1>2, <2>5
  <2>. QED
    BY <1>1, <2>3, <2>6, <2>7 DEF Right
<1>7. CASE Reports!EvidenceOn(n) = {} /\ Reports!Supporting(n) = {}
  <2>1. CASE n = Reports!SeedNode \/ n \notin Reports!Exact
    <3>1. Reports!Assess(n) = Reports!Assessed("unverified", "low", Reports!SourceIds(n))
      BY <1>7, <2>1 DEF Reports!Assess
    <3>. QED
      BY <1>1, <1>3, <3>1 DEF Right
  <2>2. CASE ~(n = Reports!SeedNode \/ n \notin Reports!Exact)
    <3>1. Reports!Assess(n) = Reports!AssessAgainstReference(n)
      BY <1>7, <2>2 DEF Reports!Assess
    <3>2. CASE /\ Reports!ReferenceName # <<>> /\ Reports!Name(n) = Reports!ReferenceName
               /\ Reports!FirstParty(n)
      <4>. DEFINE more == IF Reports!Compared(n) = 0 THEN {} ELSE Reports!SourceIds(Reports!Compared(n))
      <4>1. Reports!Compared(n) = 0 \/ Reports!Compared(n) \in DOMAIN accounts
        <5>. DEFINE S == {o \in Reports!Exact \ {n} : Reports!Name(o) = Reports!ReferenceName}
        <5>1. S \in SUBSET Nat /\ S \in SUBSET DOMAIN accounts
          BY DEF Reports!Exact, Reports!Nodes, ReportInv, Rows
        <5>2. S = {} => Reports!Least(S) = 0
          BY DEF Reports!Least
        <5>3. Reports!Compared(n) = Reports!Least(S) \/ Reports!Compared(n) = Reports!ReferenceNode
          BY DEF Reports!Compared
        <5>. HIDE DEF S
        <5>. QED
          BY <3>2, <5>1, <5>2, <5>3, LeastIs, ReferenceIs
      <4>2. more \subseteq Reports!Observations
        BY <4>1, SourcesAreShown DEF Shown
      <4>3. Reports!AssessAgainstReference(n)
              = Reports!Assessed("likely", "medium", Reports!SourceIds(n) \cup more)
        BY <3>2 DEF Reports!AssessAgainstReference
      <4>4. Shown(Reports!SourceIds(n) \cup more)
        BY <1>3, <1>4, <4>2
      <4>. HIDE DEF more
      <4>. QED
        BY <1>1, <3>1, <4>3, <4>4 DEF Right
    <3>3. CASE ~(/\ Reports!ReferenceName # <<>> /\ Reports!Name(n) = Reports!ReferenceName
                 /\ Reports!FirstParty(n))
      <4>1. CASE Reports!SharesSurname(Reports!ReferenceName, Reports!Name(n))
        <5>. DEFINE more == UNION {Reports!SourceIds(o) : o \in Reports!Sharing(Reports!ReferenceName)}
        <5>1. \A o \in Reports!Sharing(Reports!ReferenceName) : o \in DOMAIN accounts
          BY DEF Reports!Sharing, Reports!Exact, Reports!Nodes
        <5>2. more \subseteq Reports!Observations
          BY <5>1, SourcesAreShown DEF Shown
        <5>3. Reports!AssessAgainstReference(n)
                = Reports!Assessed("unverified", "low", Reports!SourceIds(n) \cup more)
          BY <3>3, <4>1 DEF Reports!AssessAgainstReference
        <5>4. Shown(Reports!SourceIds(n) \cup more)
          BY <1>3, <1>4, <5>2
        <5>. HIDE DEF more
        <5>. QED
          BY <1>1, <3>1, <5>3, <5>4 DEF Right
      <4>2. CASE ~Reports!SharesSurname(Reports!ReferenceName, Reports!Name(n))
                   /\ Reports!Incompatible(Reports!ReferenceName, Reports!Name(n))
        <5>1. Reports!ReferenceNode \in DOMAIN accounts
          BY <4>2, ReferenceIs DEF Reports!Incompatible
        <5>2. Reports!AssessAgainstReference(n)
                = Reports!Assessed("excluded", "medium",
                                   Reports!SourceIds(n) \cup Reports!SourceIds(Reports!ReferenceNode))
          BY <3>3, <4>2 DEF Reports!AssessAgainstReference
        <5>3. Shown(Reports!SourceIds(n) \cup Reports!SourceIds(Reports!ReferenceNode))
          BY <1>3, <1>4, <5>1, SourcesAreShown
        <5>. QED
          BY <1>1, <3>1, <5>2, <5>3 DEF Right
      <4>3. CASE ~Reports!SharesSurname(Reports!ReferenceName, Reports!Name(n))
                   /\ ~Reports!Incompatible(Reports!ReferenceName, Reports!Name(n))
        <5>1. Reports!AssessAgainstReference(n) = Reports!Assessed("unverified", "low", Reports!SourceIds(n))
          BY <3>3, <4>3 DEF Reports!AssessAgainstReference
        <5>. QED
          BY <1>1, <1>3, <3>1, <5>1 DEF Right
      <4>. QED
        BY <4>1, <4>2, <4>3
    <3>. QED
      BY <3>2, <3>3
  <2>. QED
    BY <2>1, <2>2
<1>. QED
  BY <1>5, <1>6, <1>7

LEMMA ClaimsAreShown == ReportInv => Reports!ClaimsStayInside
<1>. SUFFICES ASSUME ReportInv, phase = "ready", NEW c \in report.claims
              PROVE  c.cites # {} /\ c.cites \subseteq report.snapshot
  BY DEF Reports!ClaimsStayInside, Reports!Ready
<1>1. PICK n \in DOMAIN accounts : c \in Reports!ClaimsAbout(n, Reports!Assess(n))
  BY RenderedIs DEF Reports!Nodes
<1>2. c.cites = Reports!SourceIds(n) \/ c.cites = Reports!Assess(n).cites
  BY <1>1 DEF Reports!ClaimsAbout, Reports!Claim
<1>3. Shown(c.cites)
  BY <1>2, SourcesAreShown, AssessmentIsShown
<1>. QED
  BY <1>3, RenderedIs DEF Shown

LEMMA ReportTyped == ReportInv => Reports!TypeOK
<1>. SUFFICES ASSUME ReportInv PROVE Reports!TypeOK
  OBVIOUS
<1>1. /\ phase \in {"scanning", "scanned", "searching", "ready"} /\ seed \in Seeds
      /\ chosen \in Reports!Nodes \cup {0} /\ searched \subseteq DOMAIN wave
      /\ \A i \in DOMAIN evidence :
           evidence[i].node \in Reports!Nodes /\ evidence[i].query \in searched
      /\ phase # "ready" => report = None
  BY DEF ReportInv, Stages, Included, Waved, Evident, Reports!Nodes
<1>2. ASSUME phase = "ready", NEW n \in Reports!Nodes
      PROVE  /\ report.accounts[n].status \in {"likely", "unverified", "excluded"}
             /\ report.accounts[n].confidence \in Reports!Confidences
  <2>1. report.accounts[n] = Reports!Assess(n)
    BY <1>2, RenderedIs
  <2>. QED
    BY <2>1, AssessmentIsShown DEF Reports!Nodes
<1>. QED
  BY <1>1, <1>2 DEF Reports!TypeOK

\* Whatever the scan finds, the owner selects and the searches bring, in whatever
\* order they end, also when two names lead to one account: a brief is about a
\* person only when that name, and no other, is anchored by a profile of its own,
\* is headed by the account that was selected, joins accounts only on grounds, and
\* cites nothing outside its snapshot (finalize_footprint_if_complete).
THEOREM BriefGrounded == Spec => []BriefIsGrounded
<1>1. ReportInv => BriefIsGrounded
  BY ReportTyped, PersonAnchored, ChoiceFollowed, LikelyIsGrounded, ClaimsAreShown DEF BriefIsGrounded
<1>. QED
  BY <1>1, ReportInvAlways, PTL

-----------------------------------------------------------------------------
(* The sources in their order.  Sorting picks a sequence, and there is one: *)
(* of any of the sources there is a last.                                  *)

LEMMA PacketCounts ==
    \A S : /\ Packets!Cardinality(S) = Cardinality(S)
           /\ Packets!IsFiniteSet(S) <=> IsFiniteSet(S)
BY DEF Packets!Cardinality, Cardinality, Packets!IsFiniteSet, IsFiniteSet

\* Sources of a job, with an id each.
Distinct(U) ==
    /\ IsFiniteSet(U) /\ U \subseteq Packets!Source
    /\ \A s, t \in U : s.id = t.id => s = t

LEMMA BeforeIsAnOrder ==
    ASSUME NEW U, Distinct(U)
    PROVE  /\ \A a, b \in U : a # b => Packets!Before(a, b) \/ Packets!Before(b, a)
           /\ \A a, b \in U : Packets!Before(a, b) => ~Packets!Before(b, a) /\ a # b
           /\ \A a, b, c \in U :
                 Packets!Before(a, b) /\ Packets!Before(b, c) => Packets!Before(a, c)
<1>1. \A a \in U : a.id \in Nat /\ a.priority \in Nat
  BY DEF Distinct, Packets!Source
<1>2. \A a, b \in U : a # b => a.id # b.id
  BY DEF Distinct
<1>. QED
  BY <1>1, <1>2 DEF Packets!Before

\* Induction over the sets of some sources.
LEMMA Smallest ==
    ASSUME NEW U, IsFiniteSet(U), NEW Bad, Bad \subseteq SUBSET U, Bad # {}
    PROVE  \E V \in Bad : \A W \in SUBSET V : W \in Bad => W = V
<1>. DEFINE R == StrictSubsetOrdering(U)
<1>1. IsWellFoundedOn(R, SUBSET U)
  BY FS_StrictSubsetOrderingWellFounded, FS_FiniteSubsetsOfFinite
<1>2. PICK V \in Bad : \A W \in Bad : <<W, V>> \notin R
  BY <1>1, WFMin
<1>. SUFFICES ASSUME NEW W \in SUBSET V, W \in Bad, W # V PROVE FALSE
  BY <1>2
<1>3. <<W, V>> \in R
  BY DEF StrictSubsetOrdering
<1>. QED
  BY <1>2, <1>3

Last(V, m) == m \in V /\ \A x \in V \ {m} : Packets!Before(x, m)

LEMMA LastExists ==
    ASSUME NEW U, Distinct(U), NEW V \in SUBSET U, V # {}
    PROVE  \E m : Last(V, m)
<1>. DEFINE Bad == {W \in SUBSET U : W # {} /\ ~\E m : Last(W, m)}
<1>. SUFFICES ASSUME Bad # {} PROVE FALSE
  OBVIOUS
<1>0. IsFiniteSet(U) /\ Bad \subseteq SUBSET U
  BY DEF Distinct
<1>1. PICK W \in Bad : \A X \in SUBSET W : X \in Bad => X = W
  <2>. HIDE DEF Bad
  <2>. QED
    BY <1>0, Smallest
<1>2. PICK x : x \in W
  OBVIOUS
<1>3. W \ {x} # {}
  <2>. SUFFICES ASSUME W = {x} PROVE FALSE
    BY <1>2
  <2>. QED
    BY DEF Last
<1>4. PICK m : Last(W \ {x}, m)
  BY <1>1, <1>2, <1>3
<1>5. m \in W /\ m # x /\ W \subseteq U /\ \A y \in W \ {x, m} : Packets!Before(y, m)
  BY <1>4 DEF Last
<1>6. CASE Packets!Before(x, m)
  <2>. QED
    BY <1>5, <1>6 DEF Last
<1>7. CASE Packets!Before(m, x)
  <2>. QED
    BY <1>2, <1>5, <1>7, BeforeIsAnOrder DEF Last
<1>. QED
  BY <1>2, <1>5, <1>6, <1>7, BeforeIsAnOrder

Sorts(s, V) ==
    /\ s \in [1 .. Cardinality(V) -> V]
    /\ \A v \in V : \E i \in 1 .. Cardinality(V) : s[i] = v
    /\ \A i, j \in 1 .. Cardinality(V) : i < j => Packets!Before(s[i], s[j])

LEMMA OrderExists ==
    ASSUME NEW U, Distinct(U)
    PROVE  \E s : Sorts(s, U)
<1>. DEFINE Bad == {V \in SUBSET U : ~\E s : Sorts(s, V)}
<1>. SUFFICES ASSUME Bad # {} PROVE FALSE
  OBVIOUS
<1>0. IsFiniteSet(U) /\ Bad \subseteq SUBSET U
  BY DEF Distinct
<1>1. PICK V \in Bad : \A W \in SUBSET V : W \in Bad => W = V
  <2>. HIDE DEF Bad
  <2>. QED
    BY <1>0, Smallest
<1>2. IsFiniteSet(V) /\ Cardinality(V) \in Nat
  BY FS_Subset, FS_CardinalityType DEF Distinct
<1>3. V # {}
  <2>. SUFFICES ASSUME V = {} PROVE FALSE
    OBVIOUS
  <2>1. Cardinality(V) = 0
    BY FS_EmptySet
  <2>2. Sorts([i \in 1 .. 0 |-> 0], V)
    BY <2>1 DEF Sorts
  <2>. QED
    BY <2>2
<1>4. PICK m : Last(V, m)
  BY <1>3, LastExists
<1>5. m \in V /\ \A x \in V \ {m} : Packets!Before(x, m)
  BY <1>4 DEF Last
<1>. DEFINE W == V \ {m}
            n == Cardinality(W)
<1>6. n \in Nat /\ Cardinality(V) = n + 1
  <2>1. IsFiniteSet(W) /\ Cardinality(W) = Cardinality(V) - 1
    BY <1>2, <1>5, FS_RemoveElement
  <2>2. Cardinality(W) \in Nat
    BY <2>1, FS_CardinalityType
  <2>. QED
    BY <1>2, <2>1, <2>2
<1>7. PICK s : Sorts(s, W)
  <2>1. W \in SUBSET V /\ W \in SUBSET U /\ W # V
    BY <1>1, <1>5
  <2>2. W \notin Bad
    <3>. HIDE DEF Bad, W
    <3>. QED
      BY <1>1, <2>1
  <2>. HIDE DEF W
  <2>. QED
    BY <2>1, <2>2
<1>. HIDE DEF n
<1>8. /\ s \in [1 .. n -> W]
      /\ \A v \in W : \E i \in 1 .. n : s[i] = v
      /\ \A i, j \in 1 .. n : i < j => Packets!Before(s[i], s[j])
  BY <1>7 DEF Sorts, n
<1>. DEFINE t == [i \in 1 .. n + 1 |-> IF i = n + 1 THEN m ELSE s[i]]
<1>9. \A i \in 1 .. n + 1 : i # n + 1 => i \in 1 .. n
  BY <1>6
<1>10. \A i \in 1 .. n : i \in 1 .. n + 1 /\ t[i] = s[i]
  BY <1>6
<1>11. n + 1 \in 1 .. n + 1 /\ t[n + 1] = m
  BY <1>6
<1>12. t \in [1 .. n + 1 -> V]
  BY <1>5, <1>8, <1>9
<1>. HIDE DEF t
<1>13. \A v \in V : \E i \in 1 .. n + 1 : t[i] = v
  BY <1>8, <1>10, <1>11
<1>14. ASSUME NEW i \in 1 .. n + 1, NEW j \in 1 .. n + 1, i < j PROVE Packets!Before(t[i], t[j])
  <2>1. i \in 1 .. n /\ t[i] = s[i] /\ s[i] \in W
    BY <1>6, <1>8, <1>10, <1>14
  <2>2. CASE j = n + 1
    BY <1>5, <1>11, <2>1, <2>2
  <2>3. CASE j # n + 1
    BY <1>8, <1>9, <1>10, <1>14, <2>1, <2>3
  <2>. QED
    BY <2>2, <2>3
<1>15. Sorts(t, V)
  BY <1>6, <1>12, <1>13, <1>14 DEF Sorts
<1>. QED
  BY <1>15

\* The sources in their order, and the accounts.
Ranked == Packets!Sources
Listed == input.accounts

LEMMA Offered ==
    ASSUME input \in PacketInputs
    PROVE  /\ Distinct(input.sources)
           /\ Listed \in Seq([id : Nat, size : Nat, usable : BOOLEAN,
                              edges : SUBSET Packets!Edge(DOMAIN input.observationOf)])
           /\ \A i \in DOMAIN Listed : IsFiniteSet(Listed[i].edges)
<1>1. Packets!IsEvidence(input)
  BY AlgorithmsAssumption DEF Packets!EvidencePacketAssumption
<1>. QED
  BY <1>1, PacketCounts DEF Packets!IsEvidence, Packets!Range, Distinct, Listed

LEMMA RankedIs ==
    ASSUME input \in PacketInputs
    PROVE  /\ Ranked \in Seq(input.sources) /\ Len(Ranked) \in Nat
           /\ DOMAIN Ranked = 1 .. Len(Ranked)
           /\ \A s \in input.sources : \E i \in 1 .. Len(Ranked) : Ranked[i] = s
           /\ \A i, j \in 1 .. Len(Ranked) : i < j => Packets!Before(Ranked[i], Ranked[j])
<1>. DEFINE U == input.sources
            n == Cardinality(U)
            Is(s) == /\ Packets!Range(s) = U
                     /\ \A i, j \in DOMAIN s : i < j => Packets!Before(s[i], s[j])
<1>1. Distinct(U) /\ n \in Nat
  BY Offered, FS_CardinalityType DEF Distinct
<1>2. PICK s : Sorts(s, U)
  BY <1>1, OrderExists
<1>3. s \in [1 .. n -> U] /\ Is(s)
  BY <1>2 DEF Sorts, Packets!Range
<1>4. Ranked = CHOOSE t \in [1 .. n -> U] : Is(t)
  BY PacketCounts DEF Ranked, Packets!Sources
<1>. HIDE DEF Is, n
<1>5. Ranked \in [1 .. n -> U] /\ Is(Ranked)
  BY <1>3, <1>4
<1>6. Len(Ranked) = n /\ Ranked \in Seq(U) /\ DOMAIN Ranked = 1 .. n
  BY <1>1, <1>5
<1>. QED
  BY <1>1, <1>5, <1>6 DEF Is, Packets!Range
-----------------------------------------------------------------------------
(* What a list takes when it is serialized *)

\* An item, and the comma before it.
Parts(sizes) == [i \in 1 .. Len(sizes) |-> <<sizes[i] + IF i = 1 THEN 0 ELSE 1>>]

LEMMA JoinedIs ==
    ASSUME NEW sizes \in Seq(Nat)
    PROVE  /\ \A i \in 1 .. Len(sizes) : Parts(sizes)[i][1] \in Nat
           /\ \E s : /\ SumsUp(s, Parts(sizes), Len(sizes), 1)
                     /\ Packets!Joined(sizes) = s[Len(sizes)]
<1>. DEFINE N == Len(sizes)
            f == Parts(sizes)
            Right(s) == s = [n \in 0 .. N |-> IF n = 0 THEN 0 ELSE
                                              s[n - 1] + sizes[n] + IF n = 1 THEN 0 ELSE 1]
            upTo == CHOOSE s : Right(s)
<1>1. Packets!Joined(sizes) = upTo[N]
  BY DEF Packets!Joined
<1>2. N \in Nat /\ \A n \in 1 .. N : sizes[n] \in Nat
  OBVIOUS
<1>3. \A n \in 1 .. N : f[n][1] = sizes[n] + IF n = 1 THEN 0 ELSE 1
  BY DEF Parts
<1>4. \A n \in 1 .. N : f[n][1] \in Nat
  BY <1>2, <1>3
<1>. HIDE DEF f, N
<1>5. PICK s : SumsUp(s, f, N, 1)
  BY <1>2, <1>4, SumExists
<1>6. Right(s)
  <2>1. s \in [0 .. N -> Nat] /\ s[0] = 0 /\ \A n \in 1 .. N : s[n] = s[n - 1] + f[n][1]
    BY <1>5 DEF SumsUp
  <2>2. ASSUME NEW n \in 0 .. N, n # 0
        PROVE  s[n] = s[n - 1] + sizes[n] + IF n = 1 THEN 0 ELSE 1
    <3>1. n \in 1 .. N /\ n - 1 \in 0 .. N /\ s[n - 1] \in Nat /\ sizes[n] \in Nat
      BY <1>2, <2>1, <2>2
    <3>2. s[n] = s[n - 1] + (sizes[n] + IF n = 1 THEN 0 ELSE 1)
      BY <1>3, <2>1, <3>1
    <3>. QED
      BY <3>1, <3>2
  <2>. QED
    BY <2>1, <2>2
<1>7. Right(upTo)
  BY <1>6
<1>. HIDE DEF upTo
<1>8. upTo[N] = s[N]
  <2>1. /\ \A n \in 0 .. N : s[n] = IF n = 0 THEN 0 ELSE s[n - 1] + sizes[n] + IF n = 1 THEN 0 ELSE 1
        /\ \A n \in 0 .. N : upTo[n] = IF n = 0 THEN 0 ELSE upTo[n - 1] + sizes[n] + IF n = 1 THEN 0 ELSE 1
    BY <1>6, <1>7
  <2>. DEFINE S == {n \in Nat : n <= N => upTo[n] = s[n]}
  <2>2. 0 \in S
    BY <1>2, <2>1
  <2>3. ASSUME NEW n \in Nat, n \in S PROVE n + 1 \in S
    <3>. SUFFICES ASSUME n + 1 <= N PROVE upTo[n + 1] = s[n + 1]
      OBVIOUS
    <3>1. n + 1 \in 0 .. N /\ n + 1 # 0 /\ n + 1 - 1 = n /\ upTo[n] = s[n]
      BY <1>2, <2>3
    <3>. QED
      BY <2>1, <3>1
  <2>. HIDE DEF S
  <2>4. N \in S
    BY <1>2, <2>2, <2>3, SetInduction
  <2>. QED
    BY <2>4 DEF S
<1>. QED
  BY <1>1, <1>4, <1>5, <1>8 DEF f, N

LEMMA JoinedTyped ==
    ASSUME NEW sizes \in Seq(Nat)
    PROVE  /\ Packets!Joined(sizes) \in Nat
           /\ Len(sizes) = 0 => Packets!Joined(sizes) = 0
<1>1. PICK s : SumsUp(s, Parts(sizes), Len(sizes), 1) /\ Packets!Joined(sizes) = s[Len(sizes)]
  BY JoinedIs
<1>2. Len(sizes) \in 0 .. Len(sizes)
  OBVIOUS
<1>. QED
  BY <1>1, <1>2 DEF SumsUp

\* One more item takes its size, and a comma unless it is alone.
LEMMA JoinedGrows ==
    ASSUME NEW few \in Seq(Nat), NEW more \in Seq(Nat), Len(more) = Len(few) + 1,
           \A i \in 1 .. Len(few) : more[i] = few[i]
    PROVE  Packets!Joined(more)
             = Packets!Joined(few) + more[Len(more)] + IF Len(few) = 0 THEN 0 ELSE 1
<1>. DEFINE N == Len(few)
<1>1. PICK s : SumsUp(s, Parts(few), N, 1) /\ Packets!Joined(few) = s[N]
  BY JoinedIs
<1>2. PICK t : SumsUp(t, Parts(more), N + 1, 1) /\ Packets!Joined(more) = t[N + 1]
  BY JoinedIs
<1>3. N \in Nat /\ N + 1 \in 1 .. N + 1 /\ N + 1 - 1 = N /\ more[N + 1] \in Nat
  OBVIOUS
<1>4. /\ \A n \in 1 .. N : Parts(few)[n] = Parts(more)[n]
      /\ Parts(more)[N + 1][1] = more[N + 1] + IF N = 0 THEN 0 ELSE 1
  BY DEF Parts
<1>. HIDE DEF N
<1>5. s[N] = t[N]
  <2>. DEFINE S == {n \in Nat : n <= N => s[n] = t[n]}
  <2>1. 0 \in S
    BY <1>1, <1>2 DEF SumsUp
  <2>2. ASSUME NEW n \in Nat, n \in S PROVE n + 1 \in S
    <3>. SUFFICES ASSUME n + 1 <= N PROVE s[n + 1] = t[n + 1]
      OBVIOUS
    <3>1. n + 1 \in 1 .. N /\ n + 1 \in 1 .. N + 1 /\ n + 1 - 1 = n /\ s[n] = t[n]
      BY <1>3, <2>2
    <3>2. s[n + 1] = s[n] + Parts(few)[n + 1][1] /\ t[n + 1] = t[n] + Parts(more)[n + 1][1]
      <4>1. \A i \in 1 .. N : s[i] = s[i - 1] + Parts(few)[i][1]
        BY <1>1 DEF SumsUp
      <4>2. \A i \in 1 .. N + 1 : t[i] = t[i - 1] + Parts(more)[i][1]
        BY <1>2 DEF SumsUp
      <4>. QED
        BY <3>1, <4>1, <4>2
    <3>. QED
      BY <1>4, <3>1, <3>2
  <2>. HIDE DEF S
  <2>3. N \in S
    BY <1>3, <2>1, <2>2, SetInduction
  <2>. QED
    BY <2>3 DEF S
<1>6. t[N + 1] = t[N] + Parts(more)[N + 1][1]
  BY <1>2, <1>3 DEF SumsUp
<1>7. s[N] \in Nat
  BY <1>1, <1>3 DEF SumsUp
<1>8. t[N + 1] = s[N] + more[N + 1] + IF N = 0 THEN 0 ELSE 1
  BY <1>3, <1>4, <1>5, <1>6, <1>7
<1>. QED
  BY <1>1, <1>2, <1>8 DEF N
-----------------------------------------------------------------------------
(* The invariant.  Nothing is weighed twice: the running totals are sums   *)
(* over what was accepted, and what was accepted is what of the sources,   *)
(* in their order, was usable before the scan ended.                       *)

Weights(items) == [i \in DOMAIN items |-> items[i].size]
AccountWeights(items) == [i \in DOMAIN items |-> Packets!AccountSize(items[i])]

\* The packet without its items, with the flags as they start, as the accounts find them
\* and as they end.
Bare == Packets!Skeleton(FALSE, FALSE)
Framed(p) == Packets!Skeleton(p.sourcesCut, FALSE)
Whole(p) == Packets!Skeleton(p.sourcesCut, p.accountsCut)

Kept == [id : Nat, size : Nat, cites : SUBSET Nat]

PacketTyped ==
    /\ input \in PacketInputs
    /\ pc \in {"sources", "accounts", "done"}
    /\ index \in 1 .. 1 + IF pc = "sources" THEN Len(Ranked) ELSE Len(Listed)
    /\ packet \in [sources : Seq(input.sources), accounts : Seq(Kept),
                   sourcesCut : BOOLEAN, accountsCut : BOOLEAN]
    /\ payload \in [source : Nat, account : Nat]

\* The usable sources among the first.
Usable(n) == {Ranked[i] : i \in {i \in 1 .. n : Ranked[i].usable}}

\* What is in the packet is what was usable as far as the scan came.
Reached ==
    \E n \in 0 .. Len(Ranked) :
        /\ Packets!Range(packet.sources) = Usable(n)
        /\ pc = "sources" => n = index - 1
        /\ pc # "sources" => n = Len(Ranked) \/ packet.sourcesCut

InOrder ==
    \A i, j \in DOMAIN packet.sources : i < j => Packets!Before(packet.sources[i], packet.sources[j])

\* The flags are set at the end of the loop they belong to.
Uncut ==
    /\ pc = "sources" => packet.accounts = <<>> /\ ~packet.sourcesCut
    /\ pc # "done" => ~packet.accountsCut

Weighed ==
    /\ payload.source = Packets!Joined(Weights(packet.sources))
    /\ payload.account = Packets!Joined(AccountWeights(packet.accounts))
    /\ Bare + payload.source <= Packets!SourceBudget
    /\ Framed(packet) + payload.source + payload.account <= MaxChars

Citing ==
    \A a \in Packets!Range(packet.accounts) :
        /\ a.cites \subseteq Packets!Ids(packet.sources)
        /\ IsFiniteSet(a.cites) /\ Cardinality(a.cites) <= MaxCites

\* An account that outweighs what the sources leave.
Heavy(a) == a.size + Cardinality(Packets!Cites(a)) > MaxChars - Packets!SourceBudget

\* A packet without an account has passed over unusable ones, and has ended where there
\* were no more or at one that was too heavy.
Empty ==
    packet.accounts = <<>> /\ pc # "sources" =>
        /\ \A i \in 1 .. index - 1 : ~Listed[i].usable
        /\ pc = "done" => \/ index > Packets!Least(Len(Listed), ScanLimit) \/ MaxAccounts = 0
                          \/ Listed[index].usable /\ Heavy(Listed[index])

PacketInv == PacketTyped /\ Reached /\ InOrder /\ Uncut /\ Weighed /\ Citing /\ Empty

LEMMA PacketLimits ==
    /\ MaxSources \in Nat \ {0} /\ MaxAccounts \in Nat /\ ScanLimit \in Nat
    /\ CiteScan \in Nat /\ MaxCites \in Nat /\ MaxChars \in Nat
    /\ Packets!AccountReserve \in Nat
    /\ Packets!SourceBudget \in Nat /\ Packets!SourceBudget <= MaxChars
    /\ Bare \in Nat /\ Bare <= Packets!SourceBudget
<1>1. /\ MaxSources \in Nat \ {0} /\ MaxAccounts \in Nat /\ ScanLimit \in Nat
      /\ CiteScan \in Nat /\ MaxCites \in Nat /\ PerAccount \in Nat
      /\ MinChars \in Nat /\ MaxChars \in Nat /\ MinChars <= MaxChars
      /\ SeedSize \in Nat /\ SeedSize + 10 <= MinChars
  BY AlgorithmsAssumption DEF Packets!EvidencePacketAssumption
<1>2. Packets!AccountReserve \in Nat
  <2>1. MaxAccounts * PerAccount \in Nat /\ MaxChars \div 4 \in Nat
    BY <1>1
  <2>. QED
    BY <2>1 DEF Packets!AccountReserve, Packets!Least
<1>3. /\ Packets!SourceBudget \in Nat /\ Packets!SourceBudget <= MaxChars
      /\ MinChars <= Packets!SourceBudget
  BY <1>1, <1>2 DEF Packets!SourceBudget
<1>4. Bare = SeedSize + 5 + 5
  BY DEF Bare, Packets!Skeleton, Packets!Flag
<1>. QED
  BY <1>1, <1>2, <1>3, <1>4

\* A flag that is set is shorter.
LEMMA Frames ==
    \A p : p.sourcesCut \in BOOLEAN /\ p.accountsCut \in BOOLEAN =>
           /\ Framed(p) \in Nat /\ Framed(p) <= Bare
           /\ ~p.sourcesCut => Framed(p) = Bare
           /\ Whole(p) \in Nat /\ Whole(p) <= Framed(p)
<1>. TAKE p
<1>. HAVE p.sourcesCut \in BOOLEAN /\ p.accountsCut \in BOOLEAN
<1>1. SeedSize \in Nat
  BY AlgorithmsAssumption DEF Packets!EvidencePacketAssumption
<1>. DEFINE first == Packets!Flag(p.sourcesCut)
            second == Packets!Flag(p.accountsCut)
<1>2. /\ first \in {4, 5} /\ second \in {4, 5}
      /\ ~p.sourcesCut => first = 5
  BY DEF Packets!Flag
<1>3. /\ Bare = SeedSize + 5 + 5
      /\ Framed(p) = SeedSize + first + 5
      /\ Whole(p) = SeedSize + first + second
  BY DEF Bare, Framed, Whole, Packets!Skeleton, Packets!Flag
<1>. HIDE DEF first, second
<1>. QED
  BY <1>1, <1>2, <1>3

LEMMA PacketInit ==
    ASSUME input \in PacketInputs, Packets!Init
    PROVE  PacketInv
<1>1. /\ pc = "sources" /\ index = 1 /\ payload = [source |-> 0, account |-> 0]
      /\ packet = [sources |-> <<>>, accounts |-> <<>>, sourcesCut |-> FALSE, accountsCut |-> FALSE]
  BY DEF Packets!Init
<1>2. Len(Ranked) \in Nat
  BY RankedIs
<1>3. PacketTyped
  BY <1>1, <1>2 DEF PacketTyped
<1>4. Reached
  <2>1. Packets!Range(packet.sources) = {}
    BY <1>1 DEF Packets!Range
  <2>2. Usable(0) = {}
    BY DEF Usable
  <2>. QED
    BY <1>1, <1>2, <2>1, <2>2 DEF Reached
<1>5. InOrder /\ Uncut /\ Citing /\ Empty
  BY <1>1 DEF InOrder, Uncut, Citing, Empty, Packets!Range
<1>6. Weighed
  <2>1. Weights(packet.sources) = <<>> /\ AccountWeights(packet.accounts) = <<>>
    BY <1>1 DEF Weights, AccountWeights
  <2>2. Packets!Joined(<<>>) = 0
    <3>1. <<>> \in Seq(Nat) /\ Len(<<>>) = 0
      OBVIOUS
    <3>. QED
      BY <3>1, JoinedTyped
  <2>3. /\ payload.source = 0 /\ payload.account = 0 /\ ~packet.sourcesCut
        /\ ~packet.accountsCut
    BY <1>1
  <2>4. Framed(packet) = Bare
    <3>1. packet.sourcesCut \in BOOLEAN /\ packet.accountsCut \in BOOLEAN
      BY <1>3 DEF PacketTyped
    <3>. QED
      BY <2>3, <3>1, Frames, Zenon
  <2>. QED
    BY <2>1, <2>2, <2>3, <2>4, PacketLimits DEF Weighed
<1>. QED
  BY <1>3, <1>4, <1>5, <1>6 DEF PacketInv

\* What the order, the accounts and the sizes of a packet say does not change with the
\* place of the scan.
LEMMA PacketUnread ==
    ASSUME input' = input
    PROVE  /\ Ranked' = Ranked /\ Listed' = Listed
           /\ \A n : Usable(n)' = Usable(n)
           /\ \A a : Heavy(a)' = Heavy(a)
<1>1. Ranked' = Ranked /\ Listed' = Listed
  BY DEF Ranked, Packets!Sources, Listed
<1>2. \A n : Usable(n)' = Usable(n)
  BY <1>1 DEF Usable
<1>3. \A a : Packets!Cites(a)' = Packets!Cites(a)
  BY DEF Packets!Cites, Packets!Cited
<1>4. Packets!SourceBudget' = Packets!SourceBudget
  BY DEF Packets!SourceBudget, Packets!AccountReserve
<1>5. \A a : Heavy(a)' = Heavy(a)
  BY <1>3, <1>4 DEF Heavy
<1>. QED
  BY <1>1, <1>2, <1>5

-----------------------------------------------------------------------------
(* The sources are scanned *)

LEMMA RangeGrows ==
    ASSUME NEW S, NEW items \in Seq(S), NEW x \in S
    PROVE  Packets!Range(Append(items, x)) = Packets!Range(items) \cup {x}
<1>. DEFINE more == Append(items, x)
            n == Len(items)
<1>1. /\ n \in Nat /\ DOMAIN items = 1 .. n /\ DOMAIN more = 1 .. n + 1
      /\ more[n + 1] = x /\ \A i \in 1 .. n : more[i] = items[i]
  BY AppendProperties, LenProperties
<1>2. Packets!Range(more) = {more[i] : i \in 1 .. n + 1} /\ Packets!Range(items) = {items[i] : i \in 1 .. n}
  BY <1>1 DEF Packets!Range
<1>. HIDE DEF n, more
<1>3. \A i : i \in 1 .. n + 1 <=> i \in 1 .. n \/ i = n + 1
  BY <1>1
<1>. QED
  BY <1>1, <1>2, <1>3 DEF more

\* The weights of a list that grows.
LEMMA SourceWeighs ==
    ASSUME NEW S, \A s \in S : s.size \in Nat, NEW items \in Seq(S), NEW x \in S
    PROVE  /\ Packets!Joined(Weights(items)) \in Nat
           /\ Packets!Joined(Weights(Append(items, x)))
                = Packets!Joined(Weights(items)) + x.size + IF items = <<>> THEN 0 ELSE 1
<1>. DEFINE few == Weights(items)
            more == Weights(Append(items, x))
            n == Len(items)
<1>1. /\ n \in Nat /\ DOMAIN items = 1 .. n /\ DOMAIN Append(items, x) = 1 .. n + 1
      /\ Append(items, x)[n + 1] = x /\ \A i \in 1 .. n : Append(items, x)[i] = items[i]
      /\ \A i \in 1 .. n : items[i] \in S
  BY AppendProperties, LenProperties
<1>2. few \in [1 .. n -> Nat] /\ \A i \in 1 .. n : few[i] = items[i].size
  BY <1>1 DEF Weights
<1>3. /\ more \in [1 .. n + 1 -> Nat] /\ more[n + 1] = x.size
      /\ \A i \in 1 .. n : more[i] = items[i].size
  <2>1. more = [i \in 1 .. n + 1 |-> Append(items, x)[i].size]
    BY <1>1 DEF Weights
  <2>2. \A i \in 1 .. n + 1 : i \in 1 .. n \/ i = n + 1
    BY <1>1
  <2>3. n + 1 \in 1 .. n + 1 /\ \A i \in 1 .. n : i \in 1 .. n + 1
    BY <1>1
  <2>. HIDE DEF more, n
  <2>. QED
    BY <1>1, <2>1, <2>2, <2>3
<1>. HIDE DEF few, more
<1>4. /\ few \in Seq(Nat) /\ more \in Seq(Nat) /\ Len(few) = n /\ Len(more) = n + 1
      /\ \A i \in 1 .. n : more[i] = few[i]
  BY <1>1, <1>2, <1>3
<1>5. Packets!Joined(more) = Packets!Joined(few) + more[n + 1] + IF n = 0 THEN 0 ELSE 1
  BY <1>4, JoinedGrows
<1>6. n = 0 <=> items = <<>>
  BY <1>1
<1>7. Packets!Joined(few) \in Nat
  BY <1>4, JoinedTyped
<1>. QED
  BY <1>3, <1>5, <1>6, <1>7 DEF few, more

\* What has been scanned of the sources, one further.
LEMMA UsableGrows ==
    ASSUME input \in PacketInputs, NEW n \in 1 .. Len(Ranked)
    PROVE  Usable(n) = IF Ranked[n].usable THEN Usable(n - 1) \cup {Ranked[n]} ELSE Usable(n - 1)
<1>1. Len(Ranked) \in Nat
  BY RankedIs
<1>2. \A i : i \in 1 .. n <=> i \in 1 .. n - 1 \/ i = n
  BY <1>1
<1>. QED
  BY <1>2 DEF Usable

LEMMA RankedAreDistinct ==
    ASSUME input \in PacketInputs
    PROVE  \A i, j \in 1 .. Len(Ranked) : i # j => Ranked[i].id # Ranked[j].id
<1>. SUFFICES ASSUME NEW i \in 1 .. Len(Ranked), NEW j \in 1 .. Len(Ranked), i # j
              PROVE  Ranked[i].id # Ranked[j].id
  OBVIOUS
<1>1. /\ Len(Ranked) \in Nat /\ Ranked[i] \in input.sources /\ Ranked[j] \in input.sources
      /\ Distinct(input.sources)
  BY RankedIs, Offered
<1>2. Packets!Before(Ranked[i], Ranked[j]) \/ Packets!Before(Ranked[j], Ranked[i])
  <2>1. i < j \/ j < i
    BY <1>1
  <2>. QED
    BY <2>1, RankedIs
<1>3. Ranked[i] # Ranked[j]
  BY <1>1, <1>2, BeforeIsAnOrder
<1>. QED
  BY <1>1, <1>3 DEF Distinct

\* The source that is next was not shown yet, and comes after those that were.
LEMMA NotYet ==
    ASSUME PacketInv, pc = "sources", index <= Len(Ranked)
    PROVE  /\ index \in 1 .. Len(Ranked)
           /\ Ranked[index] \in input.sources
           /\ Ranked[index].id \notin Packets!Ids(packet.sources)
           /\ \A i \in DOMAIN packet.sources : Packets!Before(packet.sources[i], Ranked[index])
<1>1. input \in PacketInputs /\ index \in 1 .. Len(Ranked)
  BY RankedIs DEF PacketInv, PacketTyped
<1>2. Ranked[index] \in input.sources
  BY <1>1, RankedIs
<1>3. Packets!Range(packet.sources) = Usable(index - 1)
  BY DEF PacketInv, Reached
<1>4. ASSUME NEW s \in Packets!Range(packet.sources)
      PROVE  s.id # Ranked[index].id /\ Packets!Before(s, Ranked[index])
  <2>1. PICK i \in 1 .. index - 1 : s = Ranked[i]
    BY <1>3, <1>4 DEF Usable
  <2>2. i \in 1 .. Len(Ranked) /\ i < index
    BY <1>1, RankedIs
  <2>. QED
    BY <1>1, <2>1, <2>2, RankedIs, RankedAreDistinct
<1>. QED
  BY <1>1, <1>2, <1>4 DEF Packets!Ids, Packets!Range

LEMMA SkipSourceKeeps ==
    ASSUME PacketInv, input' = input, pc = "sources", index <= Len(Ranked),
           ~Ranked[index].usable \/ Ranked[index].id \in Packets!Ids(packet.sources),
           Packets!Skip
    PROVE  PacketInv'
<1>1. index' = index + 1 /\ UNCHANGED <<pc, packet, payload>>
  BY DEF Packets!Skip
<1>2. /\ index \in 1 .. Len(Ranked) /\ ~Ranked[index].usable
      /\ input \in PacketInputs /\ Len(Ranked) \in Nat
  BY NotYet, RankedIs DEF PacketInv, PacketTyped
<1>3. Usable(index) = Usable(index - 1)
  BY <1>2, UsableGrows
<1>4. PacketTyped'
  BY <1>1, <1>2, PacketUnread DEF PacketInv, PacketTyped
<1>5. Reached'
  <2>1. Packets!Range(packet.sources) = Usable(index - 1)
    BY DEF PacketInv, Reached
  <2>2. PICK n \in 0 .. Len(Ranked) : n = index
    BY <1>2
  <2>3. Packets!Range(packet'.sources) = Usable(n)' /\ n \in 0 .. Len(Ranked')
    BY <1>1, <1>3, <2>1, <2>2, PacketUnread
  <2>4. n = index' - 1 /\ pc' = "sources"
    BY <1>1, <1>2, <2>2
  <2>. QED
    BY <2>3, <2>4 DEF Reached, Packets!Range
<1>6. InOrder' /\ Uncut' /\ Weighed' /\ Citing' /\ Empty'
  BY <1>1 DEF PacketInv, InOrder, Uncut, Weighed, Citing, Empty
<1>. QED
  BY <1>4, <1>5, <1>6 DEF PacketInv

LEMMA TakeSourceKeeps ==
    ASSUME PacketInv, input' = input, pc = "sources", index <= Len(Ranked),
           Ranked[index].usable,
           NEW size, size = payload.source + Ranked[index].size + IF packet.sources = <<>> THEN 0 ELSE 1,
           Bare + size <= Packets!SourceBudget,
           packet' = [packet EXCEPT !.sources = Append(@, Ranked[index])],
           payload' = [payload EXCEPT !.source = size],
           index' = index + 1, pc' = pc
    PROVE  PacketInv'
<1>. DEFINE s == Ranked[index]
<1>1. /\ index \in 1 .. Len(Ranked) /\ s \in input.sources
      /\ s.id \notin Packets!Ids(packet.sources)
      /\ \A i \in DOMAIN packet.sources : Packets!Before(packet.sources[i], s)
  BY NotYet
<1>2. /\ input \in PacketInputs /\ Len(Ranked) \in Nat
      /\ packet \in [sources : Seq(input.sources), accounts : Seq(Kept),
                     sourcesCut : BOOLEAN, accountsCut : BOOLEAN]
      /\ payload \in [source : Nat, account : Nat]
  BY RankedIs DEF PacketInv, PacketTyped
<1>3. \A t \in input.sources : t.size \in Nat
  BY <1>2, Offered DEF Distinct, Packets!Source
<1>. HIDE DEF s
<1>4. /\ packet'.sources = Append(packet.sources, s)
      /\ packet'.accounts = packet.accounts /\ packet'.sourcesCut = packet.sourcesCut
      /\ packet'.accountsCut = packet.accountsCut
      /\ payload'.source = size /\ payload'.account = payload.account
  BY <1>2 DEF s
<1>5. size \in Nat
  BY <1>1, <1>2, <1>3 DEF s
<1>6. Append(packet.sources, s) \in Seq(input.sources)
  BY <1>1, <1>2, AppendProperties
<1>7. PacketTyped'
  <2>1. packet' \in [sources : Seq(input.sources), accounts : Seq(Kept),
                     sourcesCut : BOOLEAN, accountsCut : BOOLEAN]
    BY <1>2, <1>6 DEF s
  <2>2. payload' \in [source : Nat, account : Nat]
    BY <1>2, <1>5
  <2>. QED
    BY <1>1, <1>2, <2>1, <2>2, PacketUnread DEF PacketTyped
<1>8. Packets!Range(packet'.sources) = Packets!Range(packet.sources) \cup {s}
  BY <1>1, <1>2, <1>4, RangeGrows
<1>9. Reached'
  <2>1. Packets!Range(packet.sources) = Usable(index - 1)
    BY DEF PacketInv, Reached
  <2>2. Usable(index) = Usable(index - 1) \cup {s}
    BY <1>1, <1>2, UsableGrows DEF s
  <2>3. PICK n \in 0 .. Len(Ranked) : n = index
    BY <1>1, <1>2
  <2>4. Packets!Range(packet'.sources) = Usable(n)' /\ n \in 0 .. Len(Ranked')
    BY <1>8, <2>1, <2>2, <2>3, PacketUnread
  <2>5. n = index' - 1 /\ pc' = "sources"
    BY <1>1, <1>2, <2>3
  <2>. QED
    BY <2>4, <2>5 DEF Reached, Packets!Range
<1>10. InOrder'
  <2>. DEFINE n == Len(packet.sources)
  <2>1. /\ n \in Nat /\ DOMAIN packet.sources = 1 .. n /\ DOMAIN packet'.sources = 1 .. n + 1
        /\ packet'.sources[n + 1] = s /\ \A i \in 1 .. n : packet'.sources[i] = packet.sources[i]
    BY <1>1, <1>2, <1>4, <1>6, AppendProperties, LenProperties
  <2>. HIDE DEF n
  <2>2. ASSUME NEW i \in 1 .. n + 1, NEW j \in 1 .. n + 1, i < j
        PROVE  Packets!Before(packet'.sources[i], packet'.sources[j])
    <3>1. i \in 1 .. n
      BY <2>1, <2>2
    <3>2. CASE j = n + 1
      BY <1>1, <2>1, <3>1, <3>2
    <3>3. CASE j # n + 1
      <4>1. j \in 1 .. n
        BY <2>1, <3>3
      <4>. QED
        BY <2>1, <2>2, <3>1, <4>1 DEF PacketInv, InOrder
    <3>. QED
      BY <3>2, <3>3
  <2>. QED
    BY <2>1, <2>2 DEF InOrder, Packets!Before
<1>11. Uncut'
  BY <1>4 DEF PacketInv, Uncut
<1>12. Weighed'
  <2>1. Weighed /\ packet.accounts = <<>>
    BY DEF PacketInv, Uncut
  <2>2. size = Packets!Joined(Weights(packet'.sources))
    <3>1. packet.sources \in Seq(input.sources)
      BY <1>2
    <3>2. Packets!Joined(Weights(Append(packet.sources, s)))
            = Packets!Joined(Weights(packet.sources)) + s.size + IF packet.sources = <<>> THEN 0 ELSE 1
      BY <1>1, <1>3, <3>1, SourceWeighs
    <3>. QED
      BY <1>4, <2>1, <3>2 DEF Weighed, s
  <2>3. payload.account = 0
    <3>1. AccountWeights(packet.accounts) = <<>>
      BY <2>1 DEF AccountWeights
    <3>2. <<>> \in Seq(Nat) /\ Len(<<>>) = 0
      OBVIOUS
    <3>. QED
      BY <2>1, <3>1, <3>2, JoinedTyped DEF Weighed
  <2>4. Framed(packet') = Framed(packet) /\ Framed(packet) = Bare
    <3>1. ~packet.sourcesCut /\ packet.sourcesCut \in BOOLEAN /\ packet.accountsCut \in BOOLEAN
      BY <1>2 DEF PacketInv, Uncut
    <3>2. Framed(packet) = Bare
      BY <3>1, Frames
    <3>. QED
      BY <1>4, <3>2 DEF Framed
  <2>5. AccountWeights(packet'.accounts) = AccountWeights(packet.accounts)
    BY <1>4
  <2>6. Framed(packet') + payload'.source + payload'.account <= MaxChars
    BY <1>4, <1>5, <2>3, <2>4, PacketLimits
  <2>. QED
    BY <1>4, <2>1, <2>2, <2>5, <2>6 DEF Weighed
<1>13. Citing' /\ Empty'
  <2>1. packet.accounts = <<>>
    BY DEF PacketInv, Uncut
  <2>. QED
    BY <1>4, <2>1 DEF Citing, Empty, Packets!Range
<1>. QED
  BY <1>7, <1>9, <1>10, <1>11, <1>12, <1>13 DEF PacketInv

\* The scan of the sources ends: there are no more, or what is left out is told.
LEMMA SourcesEnd ==
    ASSUME PacketInv, input' = input, pc = "sources",
           NEW cut \in BOOLEAN, cut \/ index > Len(Ranked), Packets!ToAccounts(cut)
    PROVE  PacketInv'
<1>1. /\ pc' = "accounts" /\ index' = 1 /\ payload' = payload
      /\ packet' = [packet EXCEPT !.sourcesCut = cut]
  BY DEF Packets!ToAccounts
<1>2. /\ input \in PacketInputs /\ Len(Ranked) \in Nat /\ index \in 1 .. Len(Ranked) + 1
      /\ packet \in [sources : Seq(input.sources), accounts : Seq(Kept),
                     sourcesCut : BOOLEAN, accountsCut : BOOLEAN]
      /\ payload \in [source : Nat, account : Nat] /\ Len(Listed) \in Nat
  BY RankedIs, Offered DEF PacketInv, PacketTyped
<1>3. /\ packet'.sources = packet.sources /\ packet'.accounts = packet.accounts
      /\ packet'.sourcesCut = cut /\ packet'.accountsCut = packet.accountsCut
  BY <1>1, <1>2
<1>4. PacketTyped'
  BY <1>1, <1>2, PacketUnread DEF PacketInv, PacketTyped
<1>5. Reached'
  <2>1. Packets!Range(packet.sources) = Usable(index - 1)
    BY DEF PacketInv, Reached
  <2>2. PICK n \in 0 .. Len(Ranked) : n = index - 1
    BY <1>2
  <2>3. Packets!Range(packet'.sources) = Usable(n)' /\ n \in 0 .. Len(Ranked')
    BY <1>3, <2>1, <2>2, PacketUnread
  <2>4. n = Len(Ranked') \/ packet'.sourcesCut
    <3>1. CASE cut
      BY <1>3, <3>1
    <3>2. CASE index > Len(Ranked)
      BY <1>2, <2>2, <3>2, PacketUnread
    <3>. QED
      BY <3>1, <3>2
  <2>5. pc' # "sources"
    BY <1>1
  <2>. QED
    BY <2>3, <2>4, <2>5 DEF Reached, Packets!Range
<1>6. InOrder' /\ Citing'
  BY <1>3 DEF PacketInv, InOrder, Citing, Packets!Before, Packets!Range, Packets!Ids
<1>7. Uncut'
  BY <1>1, <1>3 DEF PacketInv, Uncut
<1>8. Weighed'
  <2>1. packet'.sourcesCut \in BOOLEAN /\ packet'.accountsCut \in BOOLEAN
    BY <1>2, <1>3
  <2>2. Framed(packet') \in Nat /\ Framed(packet') <= Bare
    BY <2>1, Frames
  <2>3. packet.sourcesCut \in BOOLEAN /\ packet.accountsCut \in BOOLEAN /\ ~packet.sourcesCut
    BY <1>2 DEF PacketInv, Uncut
  <2>4. Framed(packet) = Bare
    BY <2>3, Frames
  <2>5. payload.source \in Nat /\ payload.account \in Nat
    BY <1>2
  <2>6. Framed(packet') + payload.source + payload.account <= MaxChars
    BY <2>2, <2>4, <2>5, PacketLimits DEF PacketInv, Weighed
  <2>. QED
    BY <1>1, <1>3, <2>6 DEF PacketInv, Weighed
<1>9. Empty'
  BY <1>1 DEF Empty
<1>. QED
  BY <1>4, <1>5, <1>6, <1>7, <1>8, <1>9 DEF PacketInv

-----------------------------------------------------------------------------
(* The accounts are scanned *)

LEMMA SkipAccountKeeps ==
    ASSUME PacketInv, input' = input, pc = "accounts", index <= Len(Listed),
           ~Listed[index].usable \/ Listed[index].id \in Packets!Ids(packet.accounts),
           Packets!Skip
    PROVE  PacketInv'
<1>1. index' = index + 1 /\ UNCHANGED <<pc, packet, payload>>
  BY DEF Packets!Skip
<1>2. Len(Listed) \in Nat /\ index \in 1 .. Len(Listed)
  BY Offered DEF PacketInv, PacketTyped
<1>3. PacketTyped'
  BY <1>1, <1>2, PacketUnread DEF PacketInv, PacketTyped
<1>4. Reached'
  BY <1>1, PacketUnread DEF PacketInv, Reached
<1>5. InOrder' /\ Uncut' /\ Weighed' /\ Citing'
  BY <1>1 DEF PacketInv, InOrder, Uncut, Weighed, Citing
<1>6. Empty'
  <2>. SUFFICES ASSUME packet.accounts = <<>>
                PROVE  \A i \in 1 .. index : ~Listed[i].usable
    BY <1>1, <1>2, PacketUnread DEF Empty
  <2>1. \A i \in 1 .. index - 1 : ~Listed[i].usable
    BY DEF PacketInv, Empty
  <2>2. ~Listed[index].usable
    BY DEF Packets!Ids, Packets!Range
  <2>. QED
    BY <1>2, <2>1, <2>2
<1>. QED
  BY <1>3, <1>4, <1>5, <1>6 DEF PacketInv

\* What an account keeps of its sources.
LEMMA CitesAreFinite ==
    ASSUME input \in PacketInputs, NEW i \in 1 .. Len(Listed)
    PROVE  IsFiniteSet(Packets!Cites(Listed[i]))
<1>1. IsFiniteSet(Listed[i].edges)
  BY Offered
<1>. DEFINE sets == {Packets!Cited(e) : e \in Listed[i].edges}
<1>2. IsFiniteSet(sets)
  <2>1. [e \in Listed[i].edges |-> Packets!Cited(e)] \in Surjection(Listed[i].edges, sets)
    BY DEF Surjection
  <2>. QED
    BY <1>1, <2>1, FS_Surjection
<1>3. \A e : IsFiniteSet(Packets!Cited(e))
  <2>. TAKE e
  <2>1. \E x : Packets!Cited(e) \in SUBSET {x}
    BY DEF Packets!Cited
  <2>. QED
    BY <2>1, FS_Singleton, FS_Subset
<1>4. IsFiniteSet(UNION sets)
  <2>. HIDE DEF sets
  <2>1. \A T \in sets : IsFiniteSet(T)
    BY <1>3 DEF sets
  <2>. QED
    BY <1>2, <2>1, FS_UNION
<1>. QED
  BY <1>4 DEF Packets!Cites

LEMMA SanitizedIs ==
    ASSUME input \in PacketInputs, NEW i \in 1 .. Len(Listed), NEW accepted,
           NEW a \in Packets!SanitizeAccount(Listed[i], accepted)
    PROVE  /\ a.size = Listed[i].size /\ a.size \in Nat
           /\ accepted \subseteq Nat => a \in Kept
           /\ a.cites \subseteq accepted \cap Packets!Cites(Listed[i])
           /\ IsFiniteSet(a.cites) /\ Cardinality(a.cites) \in Nat
           /\ Cardinality(a.cites) <= MaxCites
           /\ Cardinality(a.cites) <= Cardinality(Packets!Cites(Listed[i]))
<1>. DEFINE cites == Packets!Cites(Listed[i])
<1>1. PICK seen \in SUBSET cites, c \in SUBSET accepted :
         /\ c \subseteq seen
         /\ a = [id |-> Listed[i].id, size |-> Listed[i].size, cites |-> c]
         /\ Cardinality(c) = Packets!Least(MaxCites, Cardinality(seen \cap accepted))
  BY PacketCounts DEF Packets!SanitizeAccount, Packets!UpTo
<1>. HIDE DEF cites
<1>2. IsFiniteSet(cites)
  BY CitesAreFinite DEF cites
<1>3. IsFiniteSet(seen \cap accepted) /\ Cardinality(seen \cap accepted) <= Cardinality(cites)
  BY <1>2, FS_Subset
<1>4. IsFiniteSet(c) /\ Cardinality(c) \in Nat /\ Cardinality(c) <= Cardinality(cites)
  <2>1. c \in SUBSET cites
    BY <1>1
  <2>2. IsFiniteSet(c) /\ Cardinality(c) <= Cardinality(cites)
    BY <1>2, <2>1, FS_Subset
  <2>. QED
    BY <2>2, FS_CardinalityType
<1>5. Cardinality(seen \cap accepted) \in Nat /\ Cardinality(c) <= MaxCites
  BY <1>1, <1>3, <1>4, FS_CardinalityType, PacketLimits DEF Packets!Least
<1>6. Listed[i] \in [id : Nat, size : Nat, usable : BOOLEAN,
                     edges : SUBSET Packets!Edge(DOMAIN input.observationOf)]
  BY Offered, ElementOfSeq
<1>. QED
  BY <1>1, <1>4, <1>5, <1>6 DEF cites, Kept

\* The weights of the accounts, with one more.
LEMMA AccountWeighs ==
    ASSUME NEW S, \A s \in S : Packets!AccountSize(s) \in Nat, NEW items \in Seq(S), NEW x \in S
    PROVE  /\ Packets!Joined(AccountWeights(items)) \in Nat
           /\ Packets!Joined(AccountWeights(Append(items, x)))
                = Packets!Joined(AccountWeights(items)) + Packets!AccountSize(x)
                    + IF items = <<>> THEN 0 ELSE 1
<1>. DEFINE few == AccountWeights(items)
            more == AccountWeights(Append(items, x))
            n == Len(items)
<1>1. /\ n \in Nat /\ DOMAIN items = 1 .. n /\ DOMAIN Append(items, x) = 1 .. n + 1
      /\ Append(items, x)[n + 1] = x /\ \A i \in 1 .. n : Append(items, x)[i] = items[i]
      /\ \A i \in 1 .. n : items[i] \in S
  BY AppendProperties, LenProperties
<1>2. few \in [1 .. n -> Nat] /\ \A i \in 1 .. n : few[i] = Packets!AccountSize(items[i])
  BY <1>1 DEF AccountWeights
<1>3. /\ more \in [1 .. n + 1 -> Nat] /\ more[n + 1] = Packets!AccountSize(x)
      /\ \A i \in 1 .. n : more[i] = Packets!AccountSize(items[i])
  <2>1. more = [i \in 1 .. n + 1 |-> Packets!AccountSize(Append(items, x)[i])]
    BY <1>1 DEF AccountWeights
  <2>2. \A i \in 1 .. n + 1 : i \in 1 .. n \/ i = n + 1
    BY <1>1
  <2>3. n + 1 \in 1 .. n + 1 /\ \A i \in 1 .. n : i \in 1 .. n + 1
    BY <1>1
  <2>. HIDE DEF more, n
  <2>. QED
    BY <1>1, <2>1, <2>2, <2>3
<1>. HIDE DEF few, more
<1>4. /\ few \in Seq(Nat) /\ more \in Seq(Nat) /\ Len(few) = n /\ Len(more) = n + 1
      /\ \A i \in 1 .. n : more[i] = few[i]
  BY <1>1, <1>2, <1>3
<1>5. Packets!Joined(more) = Packets!Joined(few) + more[n + 1] + IF n = 0 THEN 0 ELSE 1
  BY <1>4, JoinedGrows
<1>6. n = 0 <=> items = <<>>
  BY <1>1
<1>7. Packets!Joined(few) \in Nat
  BY <1>4, JoinedTyped
<1>. QED
  BY <1>3, <1>5, <1>6, <1>7 DEF few, more

\* An account that cites finitely many sources.
Weighable == {k \in Kept : IsFiniteSet(k.cites)}

LEMMA WeighableAre ==
    /\ \A k \in Weighable : Packets!AccountSize(k) \in Nat
    /\ PacketInv => packet.accounts \in Seq(Weighable)
<1>1. ASSUME NEW k \in Weighable PROVE Packets!AccountSize(k) \in Nat
  <2>1. Cardinality(k.cites) \in Nat /\ k.size \in Nat
    BY FS_CardinalityType DEF Weighable, Kept
  <2>. QED
    BY <2>1, PacketCounts DEF Packets!AccountSize
<1>2. ASSUME PacketInv PROVE packet.accounts \in Seq(Weighable)
  <2>1. packet.accounts \in Seq(Kept)
    BY <1>2 DEF PacketInv, PacketTyped
  <2>2. \A i \in 1 .. Len(packet.accounts) : packet.accounts[i] \in Weighable
    BY <1>2, <2>1, ElementOfSeq, LenProperties DEF PacketInv, Citing, Weighable, Packets!Range
  <2>. QED
    BY <2>1, <2>2
<1>. QED
  BY <1>1, <1>2

LEMMA TakeAccountKeeps ==
    ASSUME PacketInv, input' = input, pc = "accounts", index <= Len(Listed),
           NEW a \in Packets!SanitizeAccount(Listed[index], Packets!Ids(packet.sources)),
           NEW size, size = payload.account + Packets!AccountSize(a)
                              + IF packet.accounts = <<>> THEN 0 ELSE 1,
           Framed(packet) + payload.source + size <= MaxChars,
           packet' = [packet EXCEPT !.accounts = Append(@, a)],
           payload' = [payload EXCEPT !.account = size],
           index' = index + 1, pc' = pc
    PROVE  PacketInv'
<1>1. /\ input \in PacketInputs /\ Len(Listed) \in Nat /\ index \in 1 .. Len(Listed)
      /\ packet \in [sources : Seq(input.sources), accounts : Seq(Kept),
                     sourcesCut : BOOLEAN, accountsCut : BOOLEAN]
      /\ payload \in [source : Nat, account : Nat]
  BY Offered DEF PacketInv, PacketTyped
<1>2. Packets!Ids(packet.sources) \subseteq Nat
  <2>1. \A s \in input.sources : s.id \in Nat
    BY <1>1, Offered DEF Distinct, Packets!Source
  <2>2. Packets!Range(packet.sources) \subseteq input.sources
    BY <1>1 DEF Packets!Range
  <2>. QED
    BY <2>1, <2>2 DEF Packets!Ids
<1>3. /\ a \in Kept /\ a.cites \subseteq Packets!Ids(packet.sources)
      /\ IsFiniteSet(a.cites) /\ Cardinality(a.cites) <= MaxCites
  BY <1>1, <1>2, SanitizedIs
<1>4. a \in Weighable /\ Packets!AccountSize(a) \in Nat /\ packet.accounts \in Seq(Weighable)
  BY <1>3, WeighableAre DEF Weighable
<1>5. /\ packet'.accounts = Append(packet.accounts, a)
      /\ packet'.sources = packet.sources /\ packet'.sourcesCut = packet.sourcesCut
      /\ packet'.accountsCut = packet.accountsCut
      /\ payload'.account = size /\ payload'.source = payload.source
  BY <1>1
<1>6. size \in Nat
  BY <1>1, <1>4
<1>7. PacketTyped'
  <2>1. Append(packet.accounts, a) \in Seq(Kept)
    BY <1>1, <1>3, AppendProperties
  <2>2. packet' \in [sources : Seq(input.sources), accounts : Seq(Kept),
                     sourcesCut : BOOLEAN, accountsCut : BOOLEAN]
    BY <1>1, <2>1
  <2>3. payload' \in [source : Nat, account : Nat]
    BY <1>1, <1>6
  <2>. QED
    BY <1>1, <2>2, <2>3, PacketUnread DEF PacketTyped
<1>8. Reached'
  BY <1>5, PacketUnread DEF PacketInv, Reached, Packets!Range
<1>9. InOrder' /\ Uncut'
  BY <1>5 DEF PacketInv, InOrder, Uncut, Packets!Before
<1>10. Weighed'
  <2>1. size = Packets!Joined(AccountWeights(packet'.accounts))
    <3>1. Packets!Joined(AccountWeights(Append(packet.accounts, a)))
            = Packets!Joined(AccountWeights(packet.accounts)) + Packets!AccountSize(a)
                + IF packet.accounts = <<>> THEN 0 ELSE 1
      BY <1>4, WeighableAre, AccountWeighs
    <3>. QED
      BY <1>5, <3>1 DEF PacketInv, Weighed
  <2>2. Framed(packet') = Framed(packet) /\ Weights(packet'.sources) = Weights(packet.sources)
    BY <1>5 DEF Framed
  <2>. QED
    BY <1>5, <2>1, <2>2 DEF PacketInv, Weighed
<1>11. Citing'
  <2>1. Packets!Range(packet'.accounts) = Packets!Range(packet.accounts) \cup {a}
    BY <1>1, <1>3, <1>5, RangeGrows
  <2>2. Packets!Ids(packet'.sources) = Packets!Ids(packet.sources)
    BY <1>5
  <2>3. ASSUME NEW k \in Packets!Range(packet'.accounts)
        PROVE  /\ k.cites \subseteq Packets!Ids(packet'.sources)
               /\ IsFiniteSet(k.cites) /\ Cardinality(k.cites) <= MaxCites
    BY <1>3, <2>1, <2>2, <2>3 DEF PacketInv, Citing
  <2>. QED
    BY <2>3 DEF Citing, Packets!Range, Packets!Ids
<1>12. Empty'
  <2>1. packet'.accounts # <<>>
    BY <1>1, <1>3, <1>5, AppendProperties
  <2>. QED
    BY <2>1 DEF Empty
<1>. QED
  BY <1>7, <1>8, <1>9, <1>10, <1>11, <1>12 DEF PacketInv

\* The scan of the accounts ends, and a packet without one says why.
LEMMA AccountsEnd ==
    ASSUME PacketInv, input' = input, pc = "accounts", NEW cut \in BOOLEAN, Packets!Done(cut),
           packet.accounts = <<>> =>
               \/ index > Packets!Least(Len(Listed), ScanLimit) \/ MaxAccounts = 0
               \/ Listed[index].usable /\ Heavy(Listed[index])
    PROVE  PacketInv'
<1>1. /\ pc' = "done" /\ index' = index /\ payload' = payload
      /\ packet' = [packet EXCEPT !.accountsCut = cut]
  BY DEF Packets!Done
<1>2. /\ packet \in [sources : Seq(input.sources), accounts : Seq(Kept),
                     sourcesCut : BOOLEAN, accountsCut : BOOLEAN]
  BY DEF PacketInv, PacketTyped
<1>3. /\ packet'.sources = packet.sources /\ packet'.accounts = packet.accounts
      /\ packet'.sourcesCut = packet.sourcesCut /\ packet'.accountsCut = cut
  BY <1>1, <1>2
<1>4. PacketTyped'
  BY <1>1, <1>2, PacketUnread DEF PacketInv, PacketTyped
<1>5. Reached'
  BY <1>1, <1>3, PacketUnread DEF PacketInv, Reached, Packets!Range
<1>6. InOrder' /\ Uncut' /\ Citing'
  BY <1>1, <1>3
     DEF PacketInv, InOrder, Uncut, Citing, Packets!Before, Packets!Range, Packets!Ids
<1>7. Weighed'
  <2>1. Framed(packet') = Framed(packet)
    BY <1>3 DEF Framed
  <2>. QED
    BY <1>1, <1>3, <2>1 DEF PacketInv, Weighed
<1>8. Empty'
  <2>. SUFFICES ASSUME packet.accounts = <<>>
                PROVE  /\ \A i \in 1 .. index - 1 : ~Listed[i].usable
                       /\ \/ index > Packets!Least(Len(Listed), ScanLimit) \/ MaxAccounts = 0
                          \/ Listed[index].usable /\ Heavy(Listed[index])
    BY <1>1, <1>3, PacketUnread DEF Empty
  <2>. QED
    BY DEF PacketInv, Empty
<1>. QED
  BY <1>4, <1>5, <1>6, <1>7, <1>8 DEF PacketInv

-----------------------------------------------------------------------------
(* A step of the scan, and what the invariant says of the packet *)

LEMMA ScanSourceKeeps ==
    ASSUME PacketInv, Packets!ScanSource
    PROVE  PacketInv'
<1>1. pc = "sources" /\ input' = input
  BY DEF Packets!ScanSource
<1>2. \/ index > Len(Ranked) /\ Packets!ToAccounts(FALSE)
      \/ index <= Len(Ranked) /\ Packets!ToAccounts(TRUE)
      \/ /\ index <= Len(Ranked) /\ Packets!Skip
         /\ ~Ranked[index].usable \/ Ranked[index].id \in Packets!Ids(packet.sources)
      \/ /\ index <= Len(Ranked) /\ Packets!TakeSource(Ranked[index])
         /\ Ranked[index].usable
  <2>1. index \in Nat /\ Len(Ranked) \in Nat
    BY RankedIs DEF PacketInv, PacketTyped
  <2>. DEFINE s == Ranked[index]
              all == Packets!ToAccounts(FALSE)
              cut == Packets!ToAccounts(TRUE)
  <2>2. IF index > Len(Ranked) THEN all
        ELSE IF index > ScanLimit THEN cut
        ELSE IF ~s.usable \/ s.id \in Packets!Ids(packet.sources)
             THEN Packets!Skip ELSE Packets!TakeSource(s)
    BY DEF Packets!ScanSource, Ranked
  <2>. HIDE DEF all, cut, s
  <2>3. \/ index > Len(Ranked) /\ all
        \/ index <= Len(Ranked) /\ cut
        \/ /\ index <= Len(Ranked) /\ Packets!Skip
           /\ ~s.usable \/ s.id \in Packets!Ids(packet.sources)
        \/ index <= Len(Ranked) /\ Packets!TakeSource(s) /\ s.usable
    BY <2>1, <2>2
  <2>. QED
    BY <2>3 DEF all, cut, s
<1>3. CASE index > Len(Ranked) /\ Packets!ToAccounts(FALSE)
  BY <1>1, <1>3, SourcesEnd
<1>4. CASE Packets!ToAccounts(TRUE)
  BY <1>1, <1>4, SourcesEnd
<1>5. CASE /\ index <= Len(Ranked) /\ Packets!Skip
           /\ ~Ranked[index].usable \/ Ranked[index].id \in Packets!Ids(packet.sources)
  BY <1>1, <1>5, SkipSourceKeeps
<1>6. CASE index <= Len(Ranked) /\ Packets!TakeSource(Ranked[index]) /\ Ranked[index].usable
  <2>. DEFINE size == payload.source + Ranked[index].size + IF packet.sources = <<>> THEN 0 ELSE 1
  <2>1. \/ Packets!ToAccounts(TRUE)
        \/ /\ ~(Bare + size > Packets!SourceBudget)
           /\ packet' = [packet EXCEPT !.sources = Append(@, Ranked[index])]
           /\ payload' = [payload EXCEPT !.source = size]
           /\ index' = index + 1 /\ pc' = pc
    BY <1>6 DEF Packets!TakeSource, Bare
  <2>2. size \in Nat
    <3>1. Ranked[index] \in input.sources /\ input \in PacketInputs /\ payload.source \in Nat
      BY <1>1, <1>6, NotYet DEF PacketInv, PacketTyped
    <3>2. Ranked[index].size \in Nat
      BY <3>1, Offered DEF Distinct, Packets!Source
    <3>. QED
      BY <3>1, <3>2
  <2>3. ~(Bare + size > Packets!SourceBudget) => Bare + size <= Packets!SourceBudget
    BY <2>2, PacketLimits
  <2>. HIDE DEF size
  <2>4. PICK sum : sum = size
    OBVIOUS
  <2>5. CASE Packets!ToAccounts(TRUE)
    BY <1>4, <2>5
  <2>6. CASE ~Packets!ToAccounts(TRUE)
    BY <1>1, <1>6, <2>1, <2>3, <2>4, <2>6, TakeSourceKeeps DEF size
  <2>. QED
    BY <2>5, <2>6
<1>. QED
  BY <1>2, <1>3, <1>4, <1>5, <1>6

LEMMA ScanAccountKeeps ==
    ASSUME PacketInv, Packets!ScanAccount
    PROVE  PacketInv'
<1>1. pc = "accounts" /\ input' = input
  BY DEF Packets!ScanAccount
<1>2. /\ input \in PacketInputs /\ Len(Listed) \in Nat /\ index \in Nat \ {0}
      /\ ScanLimit \in Nat /\ payload \in [source : Nat, account : Nat]
  BY <1>1, Offered, PacketLimits DEF PacketInv, PacketTyped
<1>3. \/ index > Len(Listed) /\ Packets!Done(FALSE)
      \/ index <= Len(Listed) /\ index > ScanLimit /\ Packets!Done(TRUE)
      \/ /\ index <= Len(Listed) /\ Packets!Skip
         /\ ~Listed[index].usable \/ Listed[index].id \in Packets!Ids(packet.accounts)
      \/ /\ index <= Len(Listed) /\ Listed[index].usable
         /\ \E a \in Packets!SanitizeAccount(Listed[index], Packets!Ids(packet.sources)) :
               Packets!TakeAccount(a)
  <2>. DEFINE l == Listed[index]
              all == Packets!Done(FALSE)
              cut == Packets!Done(TRUE)
              taken == \E a \in Packets!SanitizeAccount(l, Packets!Ids(packet.sources)) :
                          Packets!TakeAccount(a)
  <2>1. IF index > Len(Listed) THEN all
        ELSE IF index > ScanLimit THEN cut
        ELSE IF ~l.usable \/ l.id \in Packets!Ids(packet.accounts) THEN Packets!Skip ELSE taken
    BY DEF Packets!ScanAccount, Packets!Accounts, Listed
  <2>. HIDE DEF all, cut, taken, l
  <2>2. \/ index > Len(Listed) /\ all
        \/ index <= Len(Listed) /\ index > ScanLimit /\ cut
        \/ /\ index <= Len(Listed) /\ Packets!Skip
           /\ ~l.usable \/ l.id \in Packets!Ids(packet.accounts)
        \/ index <= Len(Listed) /\ l.usable /\ taken
    BY <1>2, <2>1
  <2>. QED
    BY <2>2 DEF all, cut, taken, l
<1>4. CASE index > Len(Listed) /\ Packets!Done(FALSE)
  <2>1. index > Packets!Least(Len(Listed), ScanLimit)
    BY <1>2, <1>4 DEF Packets!Least
  <2>. QED
    BY <1>1, <1>4, <2>1, AccountsEnd
<1>5. CASE index <= Len(Listed) /\ index > ScanLimit /\ Packets!Done(TRUE)
  <2>1. index > Packets!Least(Len(Listed), ScanLimit)
    BY <1>2, <1>5 DEF Packets!Least
  <2>. QED
    BY <1>1, <1>5, <2>1, AccountsEnd
<1>6. CASE /\ index <= Len(Listed) /\ Packets!Skip
           /\ ~Listed[index].usable \/ Listed[index].id \in Packets!Ids(packet.accounts)
  BY <1>1, <1>6, SkipAccountKeeps
<1>7. ASSUME index <= Len(Listed), Listed[index].usable,
             NEW a \in Packets!SanitizeAccount(Listed[index], Packets!Ids(packet.sources)),
             Packets!TakeAccount(a)
      PROVE  PacketInv'
  <2>. DEFINE size == payload.account + Packets!AccountSize(a)
                        + IF packet.accounts = <<>> THEN 0 ELSE 1
              heavy == Framed(packet) + payload.source + size > MaxChars
  <2>1. \/ (Len(packet.accounts) >= MaxAccounts \/ heavy) /\ Packets!Done(TRUE)
        \/ /\ ~heavy
           /\ packet' = [packet EXCEPT !.accounts = Append(@, a)]
           /\ payload' = [payload EXCEPT !.account = size]
           /\ index' = index + 1 /\ pc' = pc
    BY <1>7 DEF Packets!TakeAccount, Framed
  <2>2. index \in 1 .. Len(Listed)
    BY <1>2, <1>7
  <2>3. /\ a.size = Listed[index].size /\ a.size \in Nat /\ Cardinality(a.cites) \in Nat
        /\ Cardinality(a.cites) <= Cardinality(Packets!Cites(Listed[index]))
    BY <1>2, <2>2, SanitizedIs
  <2>4. Packets!AccountSize(a) = a.size + Cardinality(a.cites)
    BY PacketCounts DEF Packets!AccountSize
  <2>5. size \in Nat
    BY <1>2, <2>3, <2>4
  <2>6. Framed(packet) \in Nat /\ Framed(packet) <= Bare
    <3>1. packet.sourcesCut \in BOOLEAN /\ packet.accountsCut \in BOOLEAN
      BY DEF PacketInv, PacketTyped
    <3>. QED
      BY <3>1, Frames
  <2>. HIDE DEF size
  <2>7. PICK sum : sum = size
    OBVIOUS
  <2>8. CASE (Len(packet.accounts) >= MaxAccounts \/ heavy) /\ Packets!Done(TRUE)
    <3>1. ASSUME packet.accounts = <<>>
          PROVE  MaxAccounts = 0 \/ Heavy(Listed[index])
      <4>1. Len(packet.accounts) = 0
        BY <3>1
      <4>2. CASE Len(packet.accounts) >= MaxAccounts
        BY <4>1, <4>2, PacketLimits
      <4>3. CASE heavy
        <5>1. payload.account = 0
          <6>1. AccountWeights(packet.accounts) = <<>>
            BY <3>1 DEF AccountWeights
          <6>2. <<>> \in Seq(Nat) /\ Len(<<>>) = 0
            OBVIOUS
          <6>. QED
            BY <6>1, <6>2, JoinedTyped DEF PacketInv, Weighed
        <5>2. size = Listed[index].size + Cardinality(a.cites)
          BY <2>3, <2>4, <3>1, <5>1 DEF size
        <5>3. Bare + payload.source <= Packets!SourceBudget
          BY DEF PacketInv, Weighed
        <5>4. Cardinality(Packets!Cites(Listed[index])) \in Nat
          BY <1>2, <2>2, CitesAreFinite, FS_CardinalityType
        <5>5. Framed(packet) + payload.source <= Packets!SourceBudget
          BY <1>2, <2>6, <5>3, PacketLimits
        <5>6. Listed[index].size + Cardinality(Packets!Cites(Listed[index]))
                > MaxChars - Packets!SourceBudget
          <6>1. size > MaxChars - Packets!SourceBudget
            BY <1>2, <2>5, <2>6, <4>3, <5>5, PacketLimits
          <6>2. Listed[index].size \in Nat
            BY <2>3
          <6>3. size <= Listed[index].size + Cardinality(Packets!Cites(Listed[index]))
            BY <2>3, <5>2, <5>4, <6>2
          <6>. QED
            BY <2>5, <5>4, <6>1, <6>2, <6>3, PacketLimits
        <5>. QED
          BY <5>6 DEF Heavy
      <4>. QED
        BY <2>8, <4>2, <4>3
    <3>. QED
      BY <1>1, <1>7, <2>8, <3>1, AccountsEnd
  <2>9. CASE /\ ~heavy
             /\ packet' = [packet EXCEPT !.accounts = Append(@, a)]
             /\ payload' = [payload EXCEPT !.account = size]
             /\ index' = index + 1 /\ pc' = pc
    <3>1. Framed(packet) + payload.source + sum <= MaxChars
      BY <1>2, <2>5, <2>6, <2>7, <2>9, PacketLimits
    <3>. HIDE DEF heavy
    <3>. QED
      BY <1>1, <1>7, <2>7, <2>9, <3>1, TakeAccountKeeps DEF size
  <2>. QED
    BY <2>1, <2>8, <2>9
<1>. QED
  BY <1>3, <1>4, <1>5, <1>6, <1>7

LEMMA PacketRests ==
    ASSUME PacketInv, UNCHANGED packetVars
    PROVE  PacketInv'
<1>1. UNCHANGED <<input, pc, index, packet, payload>>
  BY DEF packetVars
<1>2. PacketTyped'
  BY <1>1, PacketUnread DEF PacketInv, PacketTyped
<1>3. Reached'
  BY <1>1, PacketUnread DEF PacketInv, Reached
<1>4. Empty'
  BY <1>1, PacketUnread DEF PacketInv, Empty
<1>5. InOrder' /\ Uncut' /\ Weighed' /\ Citing'
  BY <1>1 DEF PacketInv, InOrder, Uncut, Weighed, Citing
<1>. QED
  BY <1>2, <1>3, <1>4, <1>5 DEF PacketInv

THEOREM PacketInvAlways == Spec => []PacketInv
<1>1. Init => PacketInv
  <2>1. Init => input \in PacketInputs
    BY AlgorithmsAssumption DEF Init
  <2>. QED
    BY <2>1, PacketInit DEF Init
<1>2. PacketInv /\ [Next]_vars => PacketInv'
  <2>. SUFFICES ASSUME PacketInv, [Next]_vars PROVE PacketInv'
    OBVIOUS
  <2>1. Packets!Next \/ UNCHANGED packetVars
    BY DEF Next, vars
  <2>. QED
    BY <2>1, ScanSourceKeeps, ScanAccountKeeps, PacketRests DEF Packets!Next
<1>. QED
  BY <1>1, <1>2, PTL DEF Spec

\* What the running totals say of the packet serialized anew.
LEMMA PacketWeighs ==
    ASSUME PacketInv
    PROVE  Packets!PacketFits /\ payload \in [source : 0 .. MaxChars, account : 0 .. MaxChars]
<1>1. packet.sourcesCut \in BOOLEAN /\ packet.accountsCut \in BOOLEAN
      /\ payload \in [source : Nat, account : Nat]
  BY DEF PacketInv, PacketTyped
<1>2. Framed(packet) \in Nat /\ Whole(packet) \in Nat /\ Whole(packet) <= Framed(packet)
  BY <1>1, Frames
<1>3. Packets!Size(packet) = Whole(packet) + payload.source + payload.account
  BY DEF PacketInv, Weighed, Packets!Size, Whole, Weights, AccountWeights
<1>4. Framed(packet) + payload.source + payload.account <= MaxChars /\ MaxChars \in Nat
  BY PacketLimits DEF PacketInv, Weighed
<1>5. Packets!Size(packet) <= MaxChars
  BY <1>1, <1>2, <1>3, <1>4
<1>6. payload.source <= MaxChars /\ payload.account <= MaxChars
  BY <1>1, <1>2, <1>4
<1>. QED
  BY <1>1, <1>3, <1>4, <1>5, <1>6 DEF Packets!PacketFits, Whole

LEMMA PacketShowsBest ==
    ASSUME PacketInv
    PROVE  Packets!BestEvidenceFirst
<1>. DEFINE shown == Packets!Range(packet.sources)
            usable == {s \in input.sources : s.usable}
<1>1. /\ input \in PacketInputs /\ Len(Ranked) \in Nat
      /\ Distinct(input.sources)
  BY RankedIs, Offered DEF PacketInv, PacketTyped
<1>2. PICK n \in 0 .. Len(Ranked) :
         /\ shown = Usable(n)
         /\ pc # "sources" => n = Len(Ranked) \/ packet.sourcesCut
  BY DEF PacketInv, Reached
<1>3. \A i \in 1 .. n : i \in 1 .. Len(Ranked) /\ Ranked[i] \in input.sources
  BY <1>1, RankedIs
<1>. HIDE DEF shown
<1>4. shown \subseteq usable
  BY <1>2, <1>3 DEF Usable
<1>5. ASSUME NEW a \in usable, NEW b \in shown, Packets!Before(a, b) PROVE a \in shown
  <2>1. PICK i \in 1 .. Len(Ranked) : Ranked[i] = a
    BY <1>1, RankedIs
  <2>2. PICK j \in 1 .. n : Ranked[j] = b
    BY <1>2 DEF Usable
  <2>3. ~(j < i)
    <3>. SUFFICES ASSUME j < i PROVE FALSE
      OBVIOUS
    <3>1. Packets!Before(b, a)
      BY <1>1, <1>3, <2>1, <2>2, RankedIs
    <3>2. a \in input.sources /\ b \in input.sources
      BY <1>3, <2>2
    <3>. QED
      BY <1>1, <1>5, <3>1, <3>2, BeforeIsAnOrder
  <2>4. i \in 1 .. n
    BY <1>1, <2>1, <2>3
  <2>. QED
    BY <1>2, <2>1, <2>4 DEF Usable
<1>6. ASSUME pc # "sources", shown # usable PROVE packet.sourcesCut
  <2>1. n = Len(Ranked) => usable \subseteq shown
    <3>1. ASSUME n = Len(Ranked), NEW s \in usable PROVE s \in shown
      <4>1. PICK i \in 1 .. Len(Ranked) : Ranked[i] = s
        BY <1>1, RankedIs
      <4>. QED
        BY <1>2, <3>1, <4>1 DEF Usable
    <3>. QED
      BY <3>1
  <2>. QED
    BY <1>2, <1>4, <1>6, <2>1
<1>. QED
  BY <1>4, <1>5, <1>6 DEF PacketInv, InOrder, Packets!BestEvidenceFirst, shown

LEMMA PacketHasRoom ==
    ASSUME PacketInv
    PROVE  Packets!AccountsHaveRoom
<1>. SUFFICES ASSUME pc = "done", packet.accounts = <<>>, MaxAccounts > 0,
                     MaxChars - Packets!AccountReserve >= MinChars,
                     NEW i \in 1 .. Packets!Least(Len(Listed), ScanLimit), Listed[i].usable
              PROVE  \/ Listed[i].size + Cardinality(Packets!Cites(Listed[i])) > Packets!AccountReserve
                     \/ \E j \in 1 .. i - 1 : Listed[j].usable
  BY PacketCounts DEF Packets!AccountsHaveRoom, Packets!Accounts, Listed
<1>1. /\ input \in PacketInputs /\ Len(Listed) \in Nat /\ ScanLimit \in Nat /\ index \in Nat \ {0}
      /\ MaxAccounts \in Nat /\ MinChars \in Nat /\ MaxChars \in Nat
      /\ Packets!AccountReserve \in Nat
  BY Offered, PacketLimits, AlgorithmsAssumption
     DEF PacketInv, PacketTyped, Packets!EvidencePacketAssumption
<1>2. Packets!Least(Len(Listed), ScanLimit) \in Nat
  BY <1>1 DEF Packets!Least
<1>3. MaxChars - Packets!SourceBudget = Packets!AccountReserve
  BY <1>1 DEF Packets!SourceBudget
<1>4. /\ \A j \in 1 .. index - 1 : ~Listed[j].usable
      /\ \/ index > Packets!Least(Len(Listed), ScanLimit)
         \/ Listed[index].usable /\ Heavy(Listed[index])
  BY <1>1 DEF PacketInv, Empty
<1>5. i >= index
  BY <1>1, <1>2, <1>4
<1>6. Listed[index].usable /\ Heavy(Listed[index])
  BY <1>1, <1>2, <1>4, <1>5
<1>7. CASE i = index
  BY <1>3, <1>6, <1>7 DEF Heavy
<1>8. CASE i # index
  <2>1. index \in 1 .. i - 1
    BY <1>1, <1>2, <1>5, <1>8
  <2>. QED
    BY <1>6, <2>1
<1>. QED
  BY <1>7, <1>8

\* Whatever the evidence of a job and however large its items: the packet never outgrows
\* its budget, shows the most trusted sources in their order and tells what it left out,
\* lets accounts cite only what it shows, and keeps room for one
\* (build_evidence_packet).
THEOREM PacketIsSound == Spec => []PacketIsRight
<1>1. PacketInv => PacketIsRight
  <2>. SUFFICES ASSUME PacketInv PROVE PacketIsRight
    OBVIOUS
  <2>1. Packets!TypeOK
    <3>1. index \in 1 .. Len(Ranked) + Len(Listed) + 1
      <4>1. Len(Ranked) \in Nat /\ Len(Listed) \in Nat
        BY RankedIs, Offered DEF PacketInv, PacketTyped
      <4>. QED
        BY <4>1 DEF PacketInv, PacketTyped
    <3>2. \A a \in Packets!Range(packet.accounts) : Packets!Cardinality(a.cites) <= MaxCites
      BY PacketCounts DEF PacketInv, Citing
    <3>. QED
      BY <3>1, <3>2, PacketWeighs
         DEF PacketInv, PacketTyped, Packets!TypeOK, Ranked, Listed, Packets!Accounts
  <2>2. Packets!AccountsCiteWhatIsShown
    BY DEF PacketInv, Citing, Packets!AccountsCiteWhatIsShown
  <2>. QED
    BY <2>1, <2>2, PacketWeighs, PacketShowsBest, PacketHasRoom DEF PacketIsRight
<1>. QED
  BY <1>1, PacketInvAlways, PTL

================================================================================
