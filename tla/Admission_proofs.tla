--------------------------- MODULE Admission_proofs ---------------------------
(***************************************************************************)
(* Proofs about the requests that create, reuse, refresh and delete jobs,  *)
(* for every number of requests, keys and jobs: what RequestsAgree of the  *)
(* module MCClients says, and the typing it rests on.                      *)
(*                                                                         *)
(* The argument is who holds what: a row that is locked stays alive, a key *)
(* that is claimed stays free, and the request that holds the advisory     *)
(* lock has looked at every job that prefers.                              *)
(***************************************************************************)
EXTENDS Admission, FiniteSetTheorems, TLAPS

(***************************************************************************)
(* The invariant.                                                          *)
(***************************************************************************)

Creating(r) == r.pc \in {"lookup", "claim", "commit"}

\* What a request has locked is there, its answer among it.
HoldsLive(r) ==
    /\ \A j \in r.held : Live(j)
    /\ r.hit # 0 => r.pc \in {"claim", "commit"} /\ r.hit \in r.held

\* The kind of a request decides its way, and with it the job it starts from.
KindFits(r) ==
    /\ r.kind \in {"create", "prefer"} => r.source = 0
    /\ Creating(r) => r.kind # "delete"
    /\ Creating(r) /\ r.kind = "refresh" => r.source \in r.held
    /\ r.pc = "source" => r.kind = "refresh" /\ r.source # 0
    /\ r.pc \in {"history", "rows"} => r.kind = "prefer"

\* A key that is claimed is free, and who commits has claimed it.
ClaimFits(r) ==
    /\ r.claim => r.pc = "commit"
    /\ r.pc = "commit" => r.claim /\ record[r.key].job = 0

Preferred(j) == job[j].state = "active" /\ job[j].by = "prefer"

\* Who decides by the history has every job in view that could decide the same.
SeesHistory(r) ==
    /\ r.kind = "prefer" /\ ~r.blind /\ r.pc \in {"rows", "claim", "commit"} =>
          /\ r.advisory
          /\ \A j \in Jobs : Preferred(j) => j \in r.held \/ (r.pc = "rows" /\ j \in r.todo)
    /\ r.pc \in {"claim", "commit"} /\ r.hit = 0 /\ r.kind = "prefer" => r.held = {}

\* Who deletes a job holds it and has every refresh of it in view.
SeesLineage(r) ==
    r.pc \in {"target", "lineage", "erase"} =>
        /\ r.kind = "delete" /\ r.source # 0
        /\ r.pc # "target" =>
              /\ r.source \in r.held
              /\ \A j \in Jobs : Live(j) /\ job[j].refreshOf = r.source =>
                    j \in r.held \/ (r.pc = "lineage" /\ j \in r.todo)

Fits(r) ==
    /\ HoldsLive(r) /\ KindFits(r) /\ ClaimFits(r)
    /\ SeesHistory(r) /\ SeesLineage(r)

\* Locks and claims exclude each other.
Apart(r, u) ==
    /\ \A j \in r.held : j \notin u.held
    /\ r.advisory => ~u.advisory
    /\ r.claim /\ u.claim => r.key # u.key

\* The requests that may still create a job, each with one to create.
Creators == {q \in Requests : request[q].pc # "idle" /\ request[q].kind # "delete"}

EnoughJobs == Cardinality(Creators) <= Cardinality(Unborn)

\* The answers a key has given name the job of its record.
AnswersAreRecorded == \A k \in Keys : \A j \in answered[k] : j = record[k].job

Agreed ==
    /\ TypeOK
    /\ EnoughJobs
    /\ \A q \in Requests : Fits(request[q])
    /\ \A p, q \in Requests : p # q => Apart(request[p], request[q])
    /\ AnswersAreRecorded
    /\ NoTwins /\ RecordsOfLiveJobs /\ LineageIsLive
    /\ \A j \in Jobs : job[j].state = "unborn" => job[j].refreshOf = 0

-----------------------------------------------------------------------------
(* The first and the last of some jobs *)

\* A set of numbers that reaches down to 1 has at least its every element.
LEMMA ReachesDown ==
    ASSUME NEW n \in Nat, NEW L \in SUBSET (1 .. n), \A k \in L : 1 .. k \subseteq L
    PROVE  /\ Cardinality(L) \in Nat
           /\ L = 1 .. Cardinality(L)
<1>1. IsFiniteSet(L) /\ Cardinality(L) \in Nat
  <2>1. IsFiniteSet(1 .. n)
    BY FS_Interval
  <2>2. IsFiniteSet(L)
    BY <2>1, FS_Subset
  <2> QED BY <2>2, FS_CardinalityType
<1>2. ASSUME NEW k \in L PROVE k <= Cardinality(L)
  <2>1. k \in Nat /\ Cardinality(1 .. k) = k /\ 1 .. k \subseteq L
    BY <1>2, FS_Interval
  <2> QED BY <1>1, <2>1, FS_Subset
<1>3. L \subseteq 1 .. Cardinality(L)
  BY <1>1, <1>2
<1>4. IsFiniteSet(1 .. Cardinality(L)) /\ Cardinality(1 .. Cardinality(L)) = Cardinality(L)
  BY <1>1, FS_Interval
<1> QED BY <1>1, <1>3, <1>4, FS_Subset

LEMMA HasFirst ==
    ASSUME NEW n \in Nat, NEW S \in SUBSET (1 .. n), S # {}
    PROVE  \E j \in S : \A i \in S : j <= i
<1> DEFINE L == {k \in 1 .. n : \A i \in S : k < i}
           c == Cardinality(L)
<1>1. c \in Nat /\ L = 1 .. c
  <2>1. ASSUME NEW k \in L, NEW i \in 1 .. k PROVE i \in L
    <3>1. i \in 1 .. n /\ i <= k
      OBVIOUS
    <3>2. \A s \in S : k < s /\ s \in Nat
      OBVIOUS
    <3> QED BY <3>1, <3>2
  <2>2. L \in SUBSET (1 .. n) /\ \A k \in L : 1 .. k \subseteq L
    BY <2>1
  <2> HIDE DEF L
  <2> QED BY <2>2, ReachesDown
<1> HIDE DEF c
<1>2. c + 1 \notin L
  <2> HIDE DEF L
  <2> QED BY <1>1
<1>3. PICK s \in S : TRUE
  OBVIOUS
<1>4. c < s
  BY <1>1, <1>3
<1>5. c + 1 \in 1 .. n
  BY <1>1, <1>3, <1>4
<1>6. PICK j \in S : ~(c + 1 < j)
  BY <1>2, <1>5
<1>7. \A i \in S : c < i
  BY <1>1
<1>8. \A i \in S : j <= i
  BY <1>1, <1>6, <1>7
<1> QED BY <1>8

LEMMA HasLatest ==
    ASSUME NEW n \in Nat, NEW S \in SUBSET (1 .. n), S # {}
    PROVE  \E j \in S : \A i \in S : i <= j
<1> DEFINE T == {k \in 1 .. n : \A i \in S : i <= k}
<1>1. n \in T
  <2>1. PICK s \in S : TRUE
    OBVIOUS
  <2>2. n \in 1 .. n /\ \A i \in S : i <= n
    BY <2>1
  <2> QED BY <2>2
<1>2. PICK m \in T : \A k \in T : m <= k
  <2>1. T \in SUBSET (1 .. n)
    OBVIOUS
  <2> HIDE DEF T
  <2> QED BY <1>1, <2>1, HasFirst
<1>3. m \in S
  <2> SUFFICES ASSUME m \notin S PROVE FALSE
    OBVIOUS
  <2>1. PICK s \in S : TRUE
    OBVIOUS
  <2>2. \A i \in S : i <= m - 1
    BY <1>2
  <2>3. m - 1 \in T
    BY <2>1, <2>2, <1>2
  <2> QED BY <1>2, <2>3
<1> QED BY <1>2, <1>3

LEMMA LatestIsOne ==
    ASSUME AdmissionAssumption, NEW S \in SUBSET Jobs, S # {}
    PROVE  Latest(S) \in S
BY HasLatest DEF Latest, Jobs, AdmissionAssumption

LEMMA JobsAreFinite ==
    ASSUME AdmissionAssumption
    PROVE  /\ IsFiniteSet(Jobs) /\ 0 \notin Jobs
           /\ \A S \in SUBSET Jobs : IsFiniteSet(S) /\ Cardinality(S) \in Nat
           /\ \A S \in SUBSET Requests : IsFiniteSet(S) /\ Cardinality(S) \in Nat
<1>1. IsFiniteSet(Jobs) /\ 0 \notin Jobs
  BY FS_Interval DEF Jobs, AdmissionAssumption
<1>2. \A S \in SUBSET Jobs : IsFiniteSet(S) /\ Cardinality(S) \in Nat
  BY <1>1, FS_Subset, FS_CardinalityType
<1>3. \A S \in SUBSET Requests : IsFiniteSet(S) /\ Cardinality(S) \in Nat
  BY FS_Subset, FS_CardinalityType DEF AdmissionAssumption
<1> QED BY <1>1, <1>2, <1>3

-----------------------------------------------------------------------------
(* A step of one request *)

\* q goes on as r; if anything is answered, it is what its key has recorded.
Moves(q, r) ==
    /\ Set(q, r)
    /\ job' = job /\ record' = record
    /\ \/ answered' = answered
       \/ Recorded(q) /\ Answer(q, record[request[q].key].job)

LEMMA Known ==
    ASSUME Agreed, NEW q \in Requests
    PROVE  /\ request[q] \in RequestRows
           /\ Fits(request[q])
           /\ \A p \in Requests : p # q =>
                 Apart(request[q], request[p]) /\ Apart(request[p], request[q])
BY DEF Agreed, TypeOK

LEMMA MovesOne ==
    ASSUME Agreed, NEW q \in Requests, NEW r \in RequestRows, Set(q, r)
    PROVE  /\ request' \in [Requests -> RequestRows]
           /\ request'[q] = r
           /\ \A p \in Requests : p # q => request'[p] = request[p]
BY DEF Agreed, TypeOK, Set

LEMMA MoveKeeps ==
    ASSUME Agreed, NEW q \in Requests, NEW r \in RequestRows, Moves(q, r),
           EnoughJobs', Fits(r),
           \A p \in Requests : p # q => Apart(r, request[p]) /\ Apart(request[p], r)
    PROVE  Agreed'
<1>1. /\ request' \in [Requests -> RequestRows]
      /\ request'[q] = r
      /\ \A p \in Requests : p # q => request'[p] = request[p]
  BY MovesOne DEF Moves
<1>2. job' = job /\ record' = record
  BY DEF Moves
<1>3. /\ answered' \in [Keys -> SUBSET Jobs]
      /\ AnswersAreRecorded'
  <2>1. answered \in [Keys -> SUBSET Jobs] /\ record \in [Keys -> Records] /\ AnswersAreRecorded
        /\ request[q] \in RequestRows
    BY DEF Agreed, TypeOK
  <2>2. CASE answered' = answered
    BY <2>1, <2>2, <1>2 DEF AnswersAreRecorded
  <2>3. CASE Recorded(q) /\ Answer(q, record[request[q].key].job)
    <3> DEFINE k == request[q].key
    <3>1. k \in Keys /\ record[k].job \in Jobs
      BY <2>1, <2>3 DEF RequestRows, Records, Recorded
    <3>2. answered' = [answered EXCEPT ![k] = @ \cup {record[k].job}]
      BY <2>3 DEF Answer
    <3> HIDE DEF k
    <3> QED BY <2>1, <3>1, <3>2, <1>2 DEF AnswersAreRecorded
  <2> QED BY <2>2, <2>3 DEF Moves
<1>4. TypeOK'
  BY <1>1, <1>2, <1>3 DEF Agreed, TypeOK
<1>5. ASSUME NEW p \in Requests PROVE Fits(request[p])'
  <2>1. Fits(request'[p])
    BY <1>1, Known
  <2> QED
    BY <2>1, <1>2
    DEF Fits, HoldsLive, KindFits, ClaimFits, SeesHistory, SeesLineage, Live, Preferred
<1>6. ASSUME NEW p \in Requests, NEW u \in Requests, p # u
      PROVE  Apart(request[p], request[u])'
  <2>1. Apart(request'[p], request'[u])
    BY <1>1, <1>6, Known
  <2> QED BY <2>1 DEF Apart
<1>7. /\ NoTwins' /\ RecordsOfLiveJobs' /\ LineageIsLive'
      /\ \A j \in Jobs : job'[j].state = "unborn" => job'[j].refreshOf = 0
  BY <1>2 DEF Agreed, NoTwins, RecordsOfLiveJobs, LineageIsLive, Live
<1> QED BY <1>3, <1>4, <1>5, <1>6, <1>7 DEF Agreed

\* A request that does not begin to create leaves enough jobs to the others.
LEMMA NoNewCreator ==
    ASSUME AdmissionAssumption, Agreed, NEW q \in Requests, NEW r \in RequestRows,
           Set(q, r), job' = job,
           r.pc = "idle" \/ r.kind = "delete" \/ q \in Creators
    PROVE  EnoughJobs'
<1>1. Creators' \in SUBSET Creators
  BY MovesOne DEF Creators
<1>2. IsFiniteSet(Creators) /\ Cardinality(Creators) \in Nat /\ Cardinality(Creators') \in Nat
      /\ Cardinality(Unborn) \in Nat
  BY <1>1, JobsAreFinite DEF Creators, Unborn
<1>3. Cardinality(Creators') <= Cardinality(Creators)
  BY <1>1, <1>2, FS_Subset
<1>4. Unborn' = Unborn
  BY DEF Unborn
<1> QED BY <1>2, <1>3, <1>4 DEF Agreed, EnoughJobs

\* A request that is over holds nothing.
LEMMA NothingFits ==
    ASSUME AdmissionAssumption, Agreed
    PROVE  /\ Idle \in RequestRows
           /\ Fits(Idle)
           /\ \A p \in Requests : Apart(Idle, request[p]) /\ Apart(request[p], Idle)
<1>1. (CHOOSE k \in Keys : TRUE) \in Keys
  BY DEF AdmissionAssumption
<1>2. Idle \in RequestRows
  BY <1>1 DEF Idle, RequestRows, Kinds
<1>3. Fits(Idle)
  BY DEF Idle, Fits, HoldsLive, KindFits, ClaimFits, SeesHistory, SeesLineage, Creating
<1>4. ASSUME NEW p \in Requests PROVE Apart(Idle, request[p]) /\ Apart(request[p], Idle)
  BY DEF Apart, Idle
<1> QED BY <1>2, <1>3, <1>4

LEMMA EndKeeps ==
    ASSUME AdmissionAssumption, Agreed, NEW q \in Requests, Moves(q, Idle)
    PROVE  Agreed'
<1>1. EnoughJobs'
  BY NothingFits, NoNewCreator DEF Moves, Idle
<1> QED BY <1>1, NothingFits, MoveKeeps

\* What r holds, u held.
SameHolds(r, u) ==
    /\ r.held = u.held /\ r.advisory = u.advisory /\ r.claim = u.claim
    /\ r.key = u.key

LEMMA SameHoldsApart ==
    ASSUME Agreed, NEW q \in Requests, NEW r, SameHolds(r, request[q])
    PROVE  \A p \in Requests : p # q => Apart(r, request[p]) /\ Apart(request[p], r)
BY DEF Agreed, SameHolds, Apart

-----------------------------------------------------------------------------
(* Requests that create *)

LEMMA BeginKeeps ==
    ASSUME AdmissionAssumption, Agreed, NEW q \in Requests, NEW kind \in Kinds,
           NEW key \in Keys, NEW source \in Jobs \cup {0}, Begin(q, kind, key, source)
    PROVE  Agreed'
<1> DEFINE pc == CASE kind = "refresh" -> "source"
                   [] kind = "delete"  -> "target"
                   [] OTHER            -> "lookup"
           r == [request[q] EXCEPT !.kind = kind, !.key = key, !.source = source, !.pc = pc]
<1>1. request[q] \in RequestRows /\ Fits(request[q]) /\ request[q].pc = "idle"
  BY Known DEF Begin
<1>2. /\ kind \in {"create", "prefer"} => pc = "lookup" /\ source = 0
      /\ kind = "refresh" => pc = "source" /\ source # 0
      /\ kind = "delete" => pc = "target" /\ source # 0
      /\ kind \in {"create", "prefer", "refresh", "delete"}
      /\ pc \in {"source", "target", "lookup"}
  BY DEF Begin, Kinds
<1>3. Moves(q, r)
  BY DEF Begin, Moves
<1> HIDE DEF pc
<1>4. r \in RequestRows
  BY <1>1, <1>2 DEF RequestRows
<1>5. /\ r.pc = pc /\ r.kind = kind /\ r.key = key /\ r.source = source
      /\ r.held = request[q].held /\ r.claim = request[q].claim
      /\ r.hit = request[q].hit /\ r.advisory = request[q].advisory
  BY <1>1 DEF RequestRows
<1> HIDE DEF r
<1>6. Fits(r)
  BY <1>1, <1>2, <1>5
  DEF Fits, HoldsLive, KindFits, ClaimFits, SeesHistory, SeesLineage, Creating
<1>7. \A p \in Requests : p # q => Apart(r, request[p]) /\ Apart(request[p], r)
  <2>1. ~r.claim
    BY <1>1, <1>5 DEF Fits, ClaimFits
  <2> QED BY <1>5, <2>1, Known DEF Apart
<1>8. EnoughJobs'
  <2>1. CASE kind = "delete"
    BY <2>1, <1>3, <1>4, <1>5, NoNewCreator DEF Moves
  <2>2. CASE kind # "delete"
    <3> DEFINE busy == {p \in Requests : request[p].pc # "idle"}
    <3>1. Cardinality(busy) < Cardinality(Unborn)
      BY <2>2 DEF Begin
    <3>2. Creators' \in SUBSET (busy \cup {q})
      BY <1>3, <1>4, MovesOne DEF Moves, Creators
    <3>3. q \notin busy /\ IsFiniteSet(busy) /\ Cardinality(busy) \in Nat
      BY <1>1, JobsAreFinite
    <3>4. IsFiniteSet(busy \cup {q}) /\ Cardinality(busy \cup {q}) = Cardinality(busy) + 1
      BY <3>3, FS_AddElement
    <3>5. Cardinality(Creators') <= Cardinality(busy) + 1
      BY <3>2, <3>4, FS_Subset
    <3>6. Cardinality(Unborn) \in Nat /\ Unborn' = Unborn /\ Cardinality(Creators') \in Nat
      BY <1>3, JobsAreFinite DEF Unborn, Moves, Creators
    <3> HIDE DEF busy
    <3> QED BY <3>1, <3>3, <3>5, <3>6 DEF EnoughJobs
  <2> QED BY <2>1, <2>2
<1> QED BY <1>3, <1>4, <1>6, <1>7, <1>8, MoveKeeps

LEMMA LockSourceKeeps ==
    ASSUME AdmissionAssumption, Agreed, NEW q \in Requests, LockSource(q)
    PROVE  Agreed'
<1> DEFINE r == [request[q] EXCEPT !.pc = "lookup", !.held = {request[q].source}]
<1>1. request[q] \in RequestRows /\ Fits(request[q]) /\ request[q].pc = "source"
  BY Known DEF LockSource
<1>2. CASE Moves(q, Idle)
  BY <1>2, EndKeeps
<1>3. CASE Moves(q, r) /\ Live(request[q].source) /\ RowFree(q, request[q].source)
  <2>1. r \in RequestRows
    BY <1>1, <1>3 DEF RequestRows, Live
  <2>2. /\ r.pc = "lookup" /\ r.held = {request[q].source}
        /\ r.source = request[q].source /\ r.kind = request[q].kind
        /\ r.hit = request[q].hit /\ r.claim = request[q].claim
        /\ r.advisory = request[q].advisory /\ r.key = request[q].key
    BY <1>1 DEF RequestRows
  <2> HIDE DEF r
  <2>3. Fits(r)
    BY <1>1, <1>3, <2>2
    DEF Fits, HoldsLive, KindFits, ClaimFits, SeesHistory, SeesLineage, Creating
  <2>4. \A p \in Requests : p # q => Apart(r, request[p]) /\ Apart(request[p], r)
    BY <1>3, <2>2, Known DEF Apart, RowFree
  <2>5. EnoughJobs'
    BY <1>1, <1>3, <2>1, NoNewCreator DEF Moves, Creators, Fits, KindFits
  <2> QED BY <1>3, <2>1, <2>3, <2>4, <2>5, MoveKeeps
<1> QED BY <1>2, <1>3 DEF LockSource, Moves, Ended

LEMMA LookupKeeps ==
    ASSUME AdmissionAssumption, Agreed, NEW q \in Requests, Lookup(q)
    PROVE  Agreed'
<1> DEFINE pc == IF request[q].kind = "prefer" THEN "history" ELSE "claim"
           r == [request[q] EXCEPT !.pc = pc]
<1>1. request[q] \in RequestRows /\ Fits(request[q]) /\ request[q].pc = "lookup"
  BY Known DEF Lookup
<1>2. CASE Moves(q, Idle)
  BY <1>2, EndKeeps
<1>3. CASE Moves(q, r)
  <2>1. /\ pc \in {"history", "claim"}
        /\ pc = "history" <=> request[q].kind = "prefer"
    OBVIOUS
  <2> HIDE DEF pc
  <2>2. r \in RequestRows
    BY <1>1, <2>1 DEF RequestRows
  <2>3. /\ r.pc = pc /\ r.kind = request[q].kind /\ r.source = request[q].source
        /\ r.hit = request[q].hit /\ SameHolds(r, request[q])
    BY <1>1 DEF RequestRows, SameHolds
  <2> HIDE DEF r
  <2>4. Fits(r)
    BY <1>1, <2>1, <2>3
    DEF Fits, HoldsLive, KindFits, ClaimFits, SeesHistory, SeesLineage, Creating, SameHolds
  <2>5. EnoughJobs'
    BY <1>1, <1>3, <2>2, NoNewCreator DEF Moves, Creators, Fits, KindFits, Creating
  <2> QED BY <1>3, <2>2, <2>3, <2>4, <2>5, SameHoldsApart, MoveKeeps
<1> QED BY <1>2, <1>3 DEF Lookup, Moves, Ended

\* The advisory lock is granted to one, who then sees every job that prefers.
LEMMA LockHistoryKeeps ==
    ASSUME AdmissionAssumption, Agreed, NEW q \in Requests, LockHistory(q)
    PROVE  Agreed'
<1> DEFINE r == [request[q] EXCEPT !.pc = "rows", !.advisory = TRUE,
                                   !.todo = {j \in Jobs : Live(j)}]
<1>1. request[q] \in RequestRows /\ Fits(request[q]) /\ request[q].pc = "history"
  BY Known DEF LockHistory
<1>2. Moves(q, r)
  BY DEF LockHistory, Moves
<1>3. r \in RequestRows
  BY <1>1 DEF RequestRows
<1>4. /\ r.pc = "rows" /\ r.advisory /\ r.todo = {j \in Jobs : Live(j)}
      /\ r.kind = request[q].kind /\ r.source = request[q].source /\ r.key = request[q].key
      /\ r.held = request[q].held /\ r.hit = request[q].hit /\ r.claim = request[q].claim
  BY <1>1 DEF RequestRows
<1> HIDE DEF r
<1>5. \A j \in Jobs : Preferred(j) => j \in r.todo
  BY <1>4 DEF Preferred, Live
<1>6. Fits(r)
  BY <1>1, <1>4, <1>5
  DEF Fits, HoldsLive, KindFits, ClaimFits, SeesHistory, SeesLineage, Creating
<1>7. \A p \in Requests : p # q => Apart(r, request[p]) /\ Apart(request[p], r)
  BY <1>1, <1>4, Known DEF LockHistory, AdvisoryFree, Apart, Fits, ClaimFits
<1>8. EnoughJobs'
  BY <1>1, <1>2, <1>3, NoNewCreator DEF Moves, Creators, Fits, KindFits
<1> QED BY <1>2, <1>3, <1>6, <1>7, <1>8, MoveKeeps

LEMMA LockRowKeeps ==
    ASSUME AdmissionAssumption, Agreed, NEW q \in Requests, LockRow(q)
    PROVE  Agreed'
<1> DEFINE j == Latest(request[q].todo)
           r(held) == [request[q] EXCEPT !.todo = @ \ {j}, !.held = held]
<1>1. /\ request[q] \in RequestRows /\ Fits(request[q]) /\ request[q].pc = "rows"
      /\ request[q].todo # {}
  BY Known DEF LockRow
<1>2. j \in request[q].todo /\ j \in Jobs
  BY <1>1, LatestIsOne DEF RequestRows
\* A row that is gone is left out, another one is locked.
<1>3. \E held \in {request[q].held, request[q].held \cup {j}} :
         /\ Moves(q, r(held))
         /\ j \in held \/ ~Live(j)
         /\ held # request[q].held => Live(j) /\ RowFree(q, j)
  <2>1. [request[q] EXCEPT !.todo = @ \ {j}] = r(request[q].held)
    BY <1>1 DEF RequestRows
  <2>2. [request[q] EXCEPT !.todo = @ \ {j}, !.held = @ \cup {j}] = r(request[q].held \cup {j})
    OBVIOUS
  <2>3. \/ ~Live(j) /\ Set(q, r(request[q].held))
        \/ Live(j) /\ RowFree(q, j) /\ Set(q, r(request[q].held \cup {j}))
    BY <2>1, <2>2 DEF LockRow
  <2> HIDE DEF j, r
  <2> QED BY <2>3 DEF LockRow, Moves
<1> HIDE DEF j
<1>4. PICK held \in {request[q].held, request[q].held \cup {j}} :
         /\ Moves(q, r(held))
         /\ j \in held \/ ~Live(j)
         /\ held # request[q].held => Live(j) /\ RowFree(q, j)
  BY <1>3
<1>5. r(held) \in RequestRows
  BY <1>1, <1>2 DEF RequestRows
<1>6. /\ r(held).pc = "rows" /\ r(held).held = held
      /\ r(held).todo = request[q].todo \ {j}
      /\ r(held).advisory = request[q].advisory /\ r(held).blind = request[q].blind
      /\ r(held).kind = request[q].kind /\ r(held).source = request[q].source
      /\ r(held).key = request[q].key
      /\ r(held).hit = request[q].hit /\ r(held).claim = request[q].claim
  BY <1>1 DEF RequestRows
<1> DEFINE s == r(held)
<1> HIDE DEF r
<1>7. Fits(s)
  <2>1. \A i \in Jobs : Preferred(i) /\ ~request[q].blind => i \in s.held \/ i \in s.todo
    BY <1>1, <1>2, <1>4, <1>6 DEF Fits, KindFits, SeesHistory, Preferred, Live
  <2>2. HoldsLive(s)
    BY <1>1, <1>4, <1>6 DEF Fits, HoldsLive
  <2> QED
    BY <1>1, <1>6, <2>1, <2>2
    DEF Fits, KindFits, ClaimFits, SeesHistory, SeesLineage, Creating
<1>8. \A p \in Requests : p # q => Apart(s, request[p]) /\ Apart(request[p], s)
  BY <1>4, <1>6, Known DEF Apart, RowFree
<1>9. EnoughJobs'
  BY <1>1, <1>4, <1>5, NoNewCreator DEF Moves, Creators, Fits, KindFits
<1> QED BY <1>4, <1>5, <1>7, <1>8, <1>9, MoveKeeps

LEMMA ChooseKeeps ==
    ASSUME AdmissionAssumption, Agreed, NEW q \in Requests, Choose(q)
    PROVE  Agreed'
<1> DEFINE hit == IF request[q].held = {} THEN 0 ELSE Latest(request[q].held)
           r == [request[q] EXCEPT !.pc = "claim", !.hit = hit]
<1>1. /\ request[q] \in RequestRows /\ Fits(request[q]) /\ request[q].pc = "rows"
      /\ request[q].todo = {}
  BY Known DEF Choose
<1>2. Moves(q, r)
  BY DEF Choose, Moves
<1>3. IF request[q].held = {} THEN hit = 0 ELSE hit \in request[q].held /\ hit # 0
  <2>1. request[q].held \in SUBSET Jobs
    BY <1>1 DEF RequestRows
  <2> QED BY <2>1, LatestIsOne, JobsAreFinite
<1> HIDE DEF hit
<1>4. r \in RequestRows
  BY <1>1, <1>3 DEF RequestRows
<1>5. /\ r.pc = "claim" /\ r.hit = hit /\ r.blind = request[q].blind
      /\ r.kind = request[q].kind /\ r.source = request[q].source
      /\ SameHolds(r, request[q])
  BY <1>1 DEF RequestRows, SameHolds
<1> HIDE DEF r
<1>6. Fits(r)
  BY <1>1, <1>3, <1>5
  DEF Fits, HoldsLive, KindFits, ClaimFits, SeesHistory, SeesLineage, Creating, SameHolds
<1>7. EnoughJobs'
  BY <1>1, <1>2, <1>4, NoNewCreator DEF Moves, Creators, Fits, KindFits
<1> QED BY <1>2, <1>4, <1>5, <1>6, <1>7, SameHoldsApart, MoveKeeps

LEMMA GiveUpKeeps ==
    ASSUME AdmissionAssumption, Agreed, NEW q \in Requests, GiveUpLookup(q),
           request[q].pc \in {"history", "rows"}, UNCHANGED <<job, record, answered>>
    PROVE  Agreed'
<1> DEFINE r == [request[q] EXCEPT !.pc = "claim", !.blind = TRUE, !.advisory = FALSE,
                                   !.held = {}, !.todo = {}]
<1>1. request[q] \in RequestRows /\ Fits(request[q])
  BY Known
<1>2. Moves(q, r)
  BY DEF GiveUpLookup, Moves
<1>3. r \in RequestRows
  BY <1>1 DEF RequestRows
<1>4. /\ r.pc = "claim" /\ r.blind /\ ~r.advisory /\ r.held = {}
      /\ r.kind = request[q].kind /\ r.source = request[q].source
      /\ r.hit = request[q].hit /\ r.claim = request[q].claim
  BY <1>1 DEF RequestRows
<1> HIDE DEF r
<1>5. Fits(r)
  BY <1>1, <1>4
  DEF Fits, HoldsLive, KindFits, ClaimFits, SeesHistory, SeesLineage, Creating
<1>6. \A p \in Requests : p # q => Apart(r, request[p]) /\ Apart(request[p], r)
  BY <1>1, <1>4 DEF Apart, Fits, ClaimFits
<1>7. EnoughJobs'
  BY <1>1, <1>2, <1>3, NoNewCreator DEF Moves, Creators, Fits, KindFits
<1> QED BY <1>2, <1>3, <1>5, <1>6, <1>7, MoveKeeps

\* The unique constraint grants a key to one.
LEMMA ClaimKeeps ==
    ASSUME AdmissionAssumption, Agreed, NEW q \in Requests, Claim(q)
    PROVE  Agreed'
<1> DEFINE r == [request[q] EXCEPT !.pc = "commit", !.claim = TRUE]
           s == [Idle EXCEPT !.pc = "replay", !.kind = request[q].kind,
                             !.key = request[q].key, !.source = request[q].source]
<1>1. request[q] \in RequestRows /\ Fits(request[q]) /\ request[q].pc = "claim"
  BY Known DEF Claim
<1>2. CASE Moves(q, r) /\ ~Recorded(q)
  <2>1. r \in RequestRows
    BY <1>1 DEF RequestRows
  <2>2. /\ r.pc = "commit" /\ r.claim /\ r.key = request[q].key
        /\ r.blind = request[q].blind /\ r.advisory = request[q].advisory
        /\ r.kind = request[q].kind /\ r.source = request[q].source
        /\ r.hit = request[q].hit /\ r.held = request[q].held
    BY <1>1 DEF RequestRows
  <2> HIDE DEF r
  <2>3. Fits(r)
    BY <1>1, <1>2, <2>2
    DEF Fits, HoldsLive, KindFits, ClaimFits, SeesHistory, SeesLineage, Creating, Recorded
  <2>4. ASSUME NEW p \in Requests, p # q PROVE Apart(r, request[p]) /\ Apart(request[p], r)
    <3>1. ~(request[p].claim /\ request[p].key = request[q].key)
      BY <2>4 DEF Claim, KeyHolders
    <3> QED BY <2>2, <2>4, <3>1, Known DEF Apart
  <2>5. EnoughJobs'
    BY <1>1, <1>2, <2>1, NoNewCreator DEF Moves, Creators, Fits, KindFits, Creating
  <2> QED BY <1>2, <2>1, <2>3, <2>4, <2>5, MoveKeeps
<1>3. CASE Moves(q, s)
  <2>1. s \in RequestRows
    BY <1>1, NothingFits DEF RequestRows
  <2>2. /\ s.pc = "replay" /\ ~s.claim /\ ~s.advisory /\ s.held = {} /\ s.hit = 0
        /\ s.kind = request[q].kind /\ s.source = request[q].source
    BY DEF Idle
  <2> HIDE DEF s
  <2>3. Fits(s)
    BY <1>1, <2>2
    DEF Fits, HoldsLive, KindFits, ClaimFits, SeesHistory, SeesLineage, Creating
  <2>4. \A p \in Requests : p # q => Apart(s, request[p]) /\ Apart(request[p], s)
    BY <2>2 DEF Apart
  <2>5. EnoughJobs'
    BY <1>1, <1>3, <2>1, NoNewCreator DEF Moves, Creators, Fits, KindFits, Creating
  <2> QED BY <1>3, <2>1, <2>3, <2>4, <2>5, MoveKeeps
<1> QED BY <1>2, <1>3 DEF Claim, Moves, Ended

LEMMA ReplayKeeps ==
    ASSUME AdmissionAssumption, Agreed, NEW q \in Requests, Replay(q)
    PROVE  Agreed'
<1>1. Moves(q, Idle)
  BY DEF Replay, Moves, Ended
<1> QED BY <1>1, EndKeeps

LEMMA RefuseKeeps ==
    ASSUME AdmissionAssumption, Agreed, NEW q \in Requests, Refuse(q)
    PROVE  Agreed'
<1>1. Moves(q, Idle)
  BY DEF Refuse, Moves, Ended
<1> QED BY <1>1, EndKeeps

\* The job a request commits to: the one it found, or the next unborn one.
LEMMA NextJob ==
    ASSUME AdmissionAssumption, Agreed, NEW q \in Requests, Commit(q)
    PROVE  \E j \in Jobs :
              /\ \/ /\ request[q].hit # 0 /\ j = request[q].hit /\ job' = job
                 \/ /\ request[q].hit = 0 /\ job[j].state = "unborn"
                    /\ job' = [job EXCEPT ![j] =
                                 [state |-> "active", refreshOf |-> request[q].source,
                                  by |-> IF request[q].blind THEN "blind" ELSE request[q].kind]]
              /\ record' = [record EXCEPT ![request[q].key] =
                              [job |-> j, kind |-> request[q].kind, source |-> request[q].source]]
              /\ Answer(q, j)
<1>1. request[q] \in RequestRows /\ Fits(request[q]) /\ request[q].pc = "commit"
  BY Known DEF Commit
<1>2. CASE request[q].hit # 0
  <2>1. request[q].hit \in Jobs
    BY <1>1, <1>2 DEF RequestRows
  <2> QED BY <1>2, <2>1 DEF Commit
<1>3. CASE request[q].hit = 0
  <2> DEFINE new == CHOOSE j \in Unborn : \A i \in Unborn : j <= i
  <2>1. Unborn # {}
    <3>1. q \in Creators
      BY <1>1 DEF Creators, Fits, KindFits, Creating
    <3>2. Cardinality(Creators) \in Nat /\ Cardinality(Creators) # 0
      BY <3>1, JobsAreFinite, FS_EmptySet DEF Creators
    <3>3. Cardinality({}) = 0
      BY FS_EmptySet
    <3> QED BY <3>2, <3>3 DEF Agreed, EnoughJobs
  <2>2. \E j \in Unborn : \A i \in Unborn : j <= i
    BY <2>1, HasFirst DEF AdmissionAssumption, Unborn, Jobs
  <2>3. new \in Unborn
    BY <2>2
  <2>4. /\ job' = [job EXCEPT ![new] =
                     [state |-> "active", refreshOf |-> request[q].source,
                      by |-> IF request[q].blind THEN "blind" ELSE request[q].kind]]
        /\ record' = [record EXCEPT ![request[q].key] =
                        [job |-> new, kind |-> request[q].kind, source |-> request[q].source]]
        /\ Answer(q, new)
    BY <1>3 DEF Commit
  <2> HIDE DEF new
  <2> QED BY <1>3, <2>3, <2>4 DEF Unborn
<1> QED BY <1>2, <1>3

\* The table of jobs after q has created job j, or left the table as it was.
Creates(q, j) ==
    \/ job' = job
    \/ /\ request[q].hit = 0 /\ job[j].state = "unborn"
       /\ job'[j].state = "active" /\ job'[j].refreshOf = request[q].source
       /\ job'[j].by = IF request[q].blind THEN "blind" ELSE request[q].kind
       /\ \A i \in Jobs : i # j => job'[i] = job[i]

LEMMA CommitKeeps ==
    ASSUME AdmissionAssumption, Agreed, NEW q \in Requests, Commit(q)
    PROVE  Agreed'
<1>1. request[q] \in RequestRows /\ Fits(request[q]) /\ request[q].pc = "commit"
  BY Known DEF Commit
<1>2. PICK j \in Jobs :
              /\ \/ /\ request[q].hit # 0 /\ j = request[q].hit /\ job' = job
                 \/ /\ request[q].hit = 0 /\ job[j].state = "unborn"
                    /\ job' = [job EXCEPT ![j] =
                                 [state |-> "active", refreshOf |-> request[q].source,
                                  by |-> IF request[q].blind THEN "blind" ELSE request[q].kind]]
              /\ record' = [record EXCEPT ![request[q].key] =
                              [job |-> j, kind |-> request[q].kind, source |-> request[q].source]]
              /\ Answer(q, j)
  BY NextJob
<1>3. /\ job \in [Jobs -> JobRows] /\ record \in [Keys -> Records]
      /\ answered \in [Keys -> SUBSET Jobs]
      /\ request[q].key \in Keys /\ request[q].source \in Jobs \cup {0}
      /\ request[q].kind \in Kinds
  BY <1>1 DEF Agreed, TypeOK, RequestRows
<1>4. /\ job' \in [Jobs -> JobRows]
      /\ Creates(q, j)
  <2>1. CASE request[q].hit # 0 /\ job' = job
    BY <2>1, <1>3 DEF Creates
  <2>2. CASE /\ request[q].hit = 0 /\ job[j].state = "unborn"
             /\ job' = [job EXCEPT ![j] =
                          [state |-> "active", refreshOf |-> request[q].source,
                           by |-> IF request[q].blind THEN "blind" ELSE request[q].kind]]
    <3> DEFINE by == IF request[q].blind THEN "blind" ELSE request[q].kind
               row == [state |-> "active", refreshOf |-> request[q].source, by |-> by]
    <3>1. row \in JobRows /\ row.state = "active" /\ row.refreshOf = request[q].source
          /\ row.by = by
      BY <1>3 DEF JobRows, JobStates
    <3>2. job' = [job EXCEPT ![j] = row]
      BY <2>2
    <3> HIDE DEF row
    <3> QED BY <2>2, <3>1, <3>2, <1>3 DEF Creates
  <2> QED BY <1>2, <2>1, <2>2
<1>5. /\ record' \in [Keys -> Records]
      /\ record'[request[q].key].job = j
      /\ \A k \in Keys : k # request[q].key => record'[k] = record[k]
  <2> DEFINE rec == [job |-> j, kind |-> request[q].kind, source |-> request[q].source]
  <2>1. rec \in Records /\ rec.job = j
    BY <1>3 DEF Records
  <2>2. record' = [record EXCEPT ![request[q].key] = rec]
    BY <1>2
  <2> HIDE DEF rec
  <2> QED BY <2>1, <2>2, <1>3
<1>6. /\ Idle \in RequestRows /\ Fits(Idle)
      /\ request' = [request EXCEPT ![q] = Idle]
      /\ request' \in [Requests -> RequestRows] /\ request'[q] = Idle
      /\ \A p \in Requests : p # q => request'[p] = request[p]
  BY NothingFits, MovesOne DEF Commit, Set, Ended
<1>7. /\ answered' \in [Keys -> SUBSET Jobs]
      /\ AnswersAreRecorded'
  <2>1. record[request[q].key].job = 0
    BY <1>1 DEF Fits, ClaimFits
  <2>2. answered[request[q].key] = {}
    <3>1. \A i \in answered[request[q].key] : i = 0 /\ i \in Jobs
      BY <2>1, <1>3 DEF Agreed, AnswersAreRecorded
    <3> QED BY <3>1, JobsAreFinite
  <2>3. answered' = [answered EXCEPT ![request[q].key] = @ \cup {j}]
    BY <1>2 DEF Answer
  <2> QED BY <2>2, <2>3, <1>3, <1>5 DEF Agreed, AnswersAreRecorded
<1>8. TypeOK'
  BY <1>4, <1>5, <1>6, <1>7 DEF TypeOK
\* No job dies, and none that prefers is born while another could be.
<1>9. /\ \A i \in Jobs : Live(i) => Live(i)'
      /\ Live(j)'
  <2>1. CASE request[q].hit # 0 /\ j = request[q].hit /\ job' = job
    BY <2>1, <1>1 DEF Fits, HoldsLive, Live
  <2>2. CASE request[q].hit = 0 /\ job[j].state = "unborn" /\ job'[j].state = "active"
    BY <2>2, <1>4 DEF Creates, Live
  <2> QED BY <1>2, <1>3, <2>1, <2>2
<1>10. \A i \in Jobs : Preferred(i)' =>
          \/ Preferred(i)
          \/ i = j /\ request[q].kind = "prefer" /\ ~request[q].blind /\ request[q].hit = 0
  BY <1>4 DEF Creates, Preferred
<1>11. ASSUME NEW p \in Requests PROVE Fits(request[p])'
  <2>1. CASE p = q
    BY <2>1, <1>6
    DEF Fits, Idle, HoldsLive, KindFits, ClaimFits, SeesHistory, SeesLineage, Creating
  <2>2. CASE p # q
    <3>1. /\ request[p] \in RequestRows /\ Fits(request[p]) /\ request'[p] = request[p]
          /\ Apart(request[p], request[q])
      BY <2>2, <1>6, Known
    <3>2. HoldsLive(request[p])' /\ KindFits(request[p])'
      BY <3>1, <1>9 DEF Fits, HoldsLive, KindFits, Creating, RequestRows
    <3>3. ClaimFits(request[p])'
      BY <3>1, <1>1, <1>5 DEF Fits, ClaimFits, Apart, RequestRows
    <3>4. SeesHistory(request[p])'
      BY <3>1, <1>1, <1>10 DEF Fits, SeesHistory, Apart
    <3>5. SeesLineage(request[p])'
      <4> SUFFICES ASSUME request[p].pc \in {"lineage", "erase"}, NEW i \in Jobs,
                          Live(i)', job'[i].refreshOf = request[p].source
                   PROVE  i \in request[p].held \/ (request[p].pc = "lineage" /\ i \in request[p].todo)
        BY <3>1 DEF Fits, SeesLineage
      <4>1. request[p].source # 0 /\ request[p].source \in request[p].held
        BY <3>1 DEF Fits, SeesLineage
      <4>2. request[q].source # request[p].source
        BY <3>1, <4>1, <1>1, <1>3 DEF Apart, Fits, KindFits, Creating, Kinds
      <4>3. Live(i) /\ job[i].refreshOf = request[p].source
        BY <4>2, <1>4 DEF Creates, Live
      <4> QED BY <3>1, <4>3 DEF Fits, SeesLineage
    <3> QED BY <3>2, <3>3, <3>4, <3>5 DEF Fits
  <2> QED BY <2>1, <2>2
<1>12. ASSUME NEW p \in Requests, NEW u \in Requests, p # u
       PROVE  Apart(request[p], request[u])'
  <2>1. Apart(request'[p], request'[u])
    BY <1>6, <1>12, Known, NothingFits
  <2> QED BY <2>1 DEF Apart
<1>13. EnoughJobs'
  <2>1. /\ q \in Creators /\ Creators' \in SUBSET (Creators \ {q})
    BY <1>1, <1>6 DEF Creators, Idle, Fits, KindFits, Creating
  <2>2. Unborn \ {j} \in SUBSET Unborn'
    BY <1>4 DEF Creates, Unborn
  <2>3. /\ IsFiniteSet(Creators) /\ IsFiniteSet(Unborn) /\ IsFiniteSet(Unborn')
        /\ Cardinality(Creators) \in Nat /\ Cardinality(Unborn) \in Nat
        /\ Cardinality(Creators') \in Nat /\ Cardinality(Unborn') \in Nat
    BY JobsAreFinite DEF Creators, Unborn
  <2>4. /\ IsFiniteSet(Creators \ {q}) /\ Cardinality(Creators \ {q}) = Cardinality(Creators) - 1
        /\ Cardinality(Unborn \ {j}) >= Cardinality(Unborn) - 1
    <3>1. Cardinality(Unborn \ {j}) = IF j \in Unborn THEN Cardinality(Unborn) - 1
                                                      ELSE Cardinality(Unborn)
      BY <2>3, FS_RemoveElement
    <3>2. /\ IsFiniteSet(Creators \ {q})
          /\ Cardinality(Creators \ {q}) = IF q \in Creators THEN Cardinality(Creators) - 1
                                                           ELSE Cardinality(Creators)
      BY <2>3, FS_RemoveElement
    <3> QED BY <2>1, <2>3, <3>1, <3>2
  <2>5. /\ Cardinality(Creators') <= Cardinality(Creators \ {q})
        /\ Cardinality(Unborn \ {j}) <= Cardinality(Unborn')
    BY <2>1, <2>2, <2>3, <2>4, FS_Subset
  <2>6. Cardinality(Creators) <= Cardinality(Unborn)
    BY DEF Agreed, EnoughJobs
  <2>7. Cardinality(Unborn \ {j}) \in Nat
    BY <2>3, JobsAreFinite DEF Unborn
  <2> QED BY <2>3, <2>4, <2>5, <2>6, <2>7 DEF EnoughJobs
<1>14. NoTwins'
  <2> SUFFICES ASSUME NEW i \in Jobs, NEW k \in Jobs, Preferred(i)', Preferred(k)'
               PROVE  i = k
    BY DEF NoTwins, Preferred
  <2>1. ASSUME request[q].kind = "prefer", ~request[q].blind, request[q].hit = 0, NEW m \in Jobs
        PROVE  ~Preferred(m)
    BY <1>1, <2>1 DEF Fits, SeesHistory
  <2>2. Preferred(i) /\ Preferred(k) => i = k
    BY DEF Agreed, NoTwins, Preferred
  <2> QED BY <1>10, <2>1, <2>2
<1> DEFINE alive(i) == i \in Jobs /\ job'[i].state \in {"active", "ready"}
<1>15. RecordsOfLiveJobs'
  <2>1. \A k \in Keys : record'[k].job # 0 => record'[k].job = j \/ Live(record'[k].job)
    BY <1>5 DEF Agreed, RecordsOfLiveJobs
  <2>2. \A i \in Jobs : Live(i) \/ i = j => alive(i)
    BY <1>9 DEF Live
  <2>3. \A k \in Keys : record'[k].job # 0 => alive(record'[k].job)
    BY <2>1, <2>2 DEF Live
  <2> QED BY <2>3 DEF RecordsOfLiveJobs, Live
<1>16. LineageIsLive'
  <2> SUFFICES ASSUME NEW i \in Jobs, alive(i), job'[i].refreshOf # 0
               PROVE  alive(job'[i].refreshOf)
    BY DEF LineageIsLive, Live
  <2>1. \A k \in Jobs : Live(k) => alive(k)
    BY <1>9 DEF Live
  <2>2. CASE job'[i] = job[i]
    <3>1. Live(i)
      BY <2>2 DEF Live
    <3>2. Live(job'[i].refreshOf)
      BY <2>2, <3>1 DEF Agreed, LineageIsLive
    <3> QED BY <2>1, <3>2 DEF Live
  <2>3. CASE i = j /\ job'[j].refreshOf = request[q].source
    <3>1. request[q].source \in request[q].held
      BY <2>3, <1>1, <1>3 DEF Fits, KindFits, Creating, Kinds
    <3>2. Live(request[q].source)
      BY <3>1, <1>1 DEF Fits, HoldsLive
    <3> QED BY <2>1, <2>3, <3>2 DEF Live
  <2> QED BY <2>2, <2>3, <1>4 DEF Creates
<1>17. \A i \in Jobs : job'[i].state = "unborn" => job'[i].refreshOf = 0
  BY <1>4 DEF Agreed, Creates
<1> QED BY <1>7, <1>8, <1>11, <1>12, <1>13, <1>14, <1>15, <1>16, <1>17 DEF Agreed

-----------------------------------------------------------------------------
(* Requests that delete *)

LEMMA LockTargetKeeps ==
    ASSUME AdmissionAssumption, Agreed, NEW q \in Requests, LockTarget(q)
    PROVE  Agreed'
<1> DEFINE r == [request[q] EXCEPT !.pc = "lineage", !.held = {request[q].source},
                    !.todo = {j \in Jobs : Live(j) /\ job[j].refreshOf = request[q].source}]
<1>1. request[q] \in RequestRows /\ Fits(request[q]) /\ request[q].pc = "target"
  BY Known DEF LockTarget
<1>2. CASE Moves(q, Idle)
  BY <1>2, EndKeeps
<1>3. CASE Moves(q, r) /\ Live(request[q].source) /\ RowFree(q, request[q].source)
  <2>1. r \in RequestRows
    BY <1>1, <1>3 DEF RequestRows, Live
  <2>2. /\ r.pc = "lineage" /\ r.held = {request[q].source}
        /\ r.todo = {j \in Jobs : Live(j) /\ job[j].refreshOf = request[q].source}
        /\ r.source = request[q].source /\ r.kind = request[q].kind
        /\ r.hit = request[q].hit /\ r.claim = request[q].claim
        /\ r.advisory = request[q].advisory /\ r.key = request[q].key
    BY <1>1 DEF RequestRows
  <2> HIDE DEF r
  <2>3. Fits(r)
    BY <1>1, <1>3, <2>2
    DEF Fits, HoldsLive, KindFits, ClaimFits, SeesHistory, SeesLineage, Creating
  <2>4. \A p \in Requests : p # q => Apart(r, request[p]) /\ Apart(request[p], r)
    BY <1>3, <2>2, Known DEF Apart, RowFree
  <2>5. EnoughJobs'
    BY <1>1, <1>3, <2>1, <2>2, NoNewCreator DEF Moves, Fits, SeesLineage
  <2> QED BY <1>3, <2>1, <2>3, <2>4, <2>5, MoveKeeps
<1> QED BY <1>2, <1>3 DEF LockTarget, Moves, Ended

LEMMA LockLineageKeeps ==
    ASSUME AdmissionAssumption, Agreed, NEW q \in Requests, LockLineage(q)
    PROVE  Agreed'
<1>1. request[q] \in RequestRows /\ Fits(request[q]) /\ request[q].pc = "lineage"
  BY Known DEF LockLineage
<1>2. CASE request[q].todo = {} /\ Moves(q, [request[q] EXCEPT !.pc = "erase"])
  <2> DEFINE r == [request[q] EXCEPT !.pc = "erase"]
  <2>1. r \in RequestRows
    BY <1>1 DEF RequestRows
  <2>2. /\ r.pc = "erase" /\ r.kind = request[q].kind /\ r.source = request[q].source
        /\ r.hit = request[q].hit /\ SameHolds(r, request[q])
    BY <1>1 DEF RequestRows, SameHolds
  <2> HIDE DEF r
  <2>3. Fits(r)
    BY <1>1, <1>2, <2>2
    DEF Fits, HoldsLive, KindFits, ClaimFits, SeesHistory, SeesLineage, Creating, SameHolds
  <2>4. EnoughJobs'
    BY <1>1, <1>2, <2>1, <2>2, NoNewCreator DEF Moves, Fits, SeesLineage, r
  <2> QED BY <1>2, <2>1, <2>2, <2>3, <2>4, SameHoldsApart, MoveKeeps DEF r
<1>3. ASSUME NEW j \in request[q].todo, ~Live(j) \/ RowFree(q, j),
             Moves(q, [request[q] EXCEPT !.todo = @ \ {j},
                                         !.held = IF Live(j) THEN @ \cup {j} ELSE @])
      PROVE  Agreed'
  <2> DEFINE held == IF Live(j) THEN request[q].held \cup {j} ELSE request[q].held
             r == [request[q] EXCEPT !.todo = @ \ {j}, !.held = held]
  <2>1. j \in Jobs
    BY <1>1, <1>3 DEF RequestRows
  <2>2. /\ held \in SUBSET Jobs
        /\ \A i \in held : i \in request[q].held \/ (i = j /\ Live(j))
        /\ \A i \in request[q].held : i \in held
        /\ Live(j) => j \in held
    BY <1>1, <2>1 DEF RequestRows
  <2>3. Moves(q, r)
    BY <1>3
  <2> HIDE DEF held
  <2>4. r \in RequestRows
    BY <1>1, <2>2 DEF RequestRows
  <2>5. /\ r.pc = "lineage" /\ r.held = held /\ r.todo = request[q].todo \ {j}
        /\ r.kind = request[q].kind /\ r.source = request[q].source
        /\ r.hit = request[q].hit /\ r.claim = request[q].claim
        /\ r.advisory = request[q].advisory /\ r.key = request[q].key
    BY <1>1 DEF RequestRows
  <2> HIDE DEF r
  <2>6. Fits(r)
    <3>1. HoldsLive(r)
      BY <1>1, <2>2, <2>5 DEF Fits, HoldsLive
    <3>2. SeesLineage(r)
      BY <1>1, <2>2, <2>5 DEF Fits, SeesLineage
    <3> QED
      BY <1>1, <2>5, <3>1, <3>2 DEF Fits, KindFits, ClaimFits, SeesHistory, Creating
  <2>7. \A p \in Requests : p # q => Apart(r, request[p]) /\ Apart(request[p], r)
    BY <1>3, <2>2, <2>5, Known DEF Apart, RowFree
  <2>8. EnoughJobs'
    BY <1>1, <2>3, <2>4, <2>5, NoNewCreator DEF Moves, Fits, SeesLineage
  <2> QED BY <2>3, <2>4, <2>6, <2>7, <2>8, MoveKeeps
<1> QED BY <1>2, <1>3 DEF LockLineage, Moves

\* What remains of a job, of its refreshes, records and answers.
LEMMA EraseKeeps ==
    ASSUME AdmissionAssumption, Agreed, NEW q \in Requests, Erase(q)
    PROVE  Agreed'
<1> DEFINE s == request[q].source
<1>1. request[q] \in RequestRows /\ Fits(request[q]) /\ request[q].pc = "erase"
  BY Known DEF Erase
<1>2. /\ job \in [Jobs -> JobRows] /\ record \in [Keys -> Records]
      /\ answered \in [Keys -> SUBSET Jobs]
      /\ s \in Jobs /\ s # 0 /\ s \in request[q].held
      /\ \A i \in Jobs : Live(i) /\ job[i].refreshOf = s => i \in request[q].held
  BY <1>1 DEF Agreed, TypeOK, Fits, SeesLineage, RequestRows
<1>3. /\ job' \in [Jobs -> JobRows]
      /\ job'[s] = Gone
      /\ \A i \in Jobs : i # s =>
            /\ job'[i].state = job[i].state /\ job'[i].by = job[i].by
            /\ job'[i].refreshOf = IF i \in request[q].held THEN 0 ELSE job[i].refreshOf
  <2> DEFINE row(i) == IF i = s THEN Gone
                       ELSE IF i \in request[q].held THEN [job[i] EXCEPT !.refreshOf = 0]
                       ELSE job[i]
  <2>1. job' = [i \in Jobs |-> row(i)]
    BY DEF Erase
  <2>2. Gone \in JobRows
    BY DEF Gone, JobRows, JobStates, Kinds
  <2>3. ASSUME NEW i \in Jobs
        PROVE  /\ row(i) \in JobRows
               /\ i = s => row(i) = Gone
               /\ i # s => /\ row(i).state = job[i].state /\ row(i).by = job[i].by
                           /\ row(i).refreshOf = IF i \in request[q].held THEN 0
                                                 ELSE job[i].refreshOf
    <3>1. job[i] \in JobRows
      BY <1>2
    <3> QED BY <2>2, <3>1 DEF JobRows
  <2> HIDE DEF row
  <2> QED BY <2>1, <2>3, <1>2
<1>4. /\ record' \in [Keys -> Records]
      /\ \A k \in Keys : /\ record[k].job = s => record'[k].job = 0
                         /\ record[k].job # s => record'[k] = record[k]
  <2>1. NoRecord \in Records /\ NoRecord.job = 0
    BY DEF NoRecord, Records, Kinds
  <2> QED BY <2>1, <1>2 DEF Erase
<1>5. /\ answered' \in [Keys -> SUBSET Jobs]
      /\ \A k \in Keys : \A i \in answered'[k] : i \in answered[k] /\ i # s
  BY <1>2 DEF Erase, Forget
<1>6. /\ Idle \in RequestRows /\ Fits(Idle)
      /\ request' \in [Requests -> RequestRows] /\ request'[q] = Idle
      /\ \A p \in Requests : p # q => request'[p] = request[p]
  BY NothingFits, MovesOne DEF Erase, Ended
<1> HIDE DEF s
<1>7. TypeOK'
  BY <1>3, <1>4, <1>5, <1>6 DEF TypeOK
<1>8. AnswersAreRecorded'
  BY <1>4, <1>5 DEF Agreed, AnswersAreRecorded
<1> DEFINE alive(i) == i \in Jobs /\ job'[i].state \in {"active", "ready"}
<1>9. \A i \in Jobs : /\ alive(i) <=> Live(i) /\ i # s
                      /\ Preferred(i)' => Preferred(i)
  BY <1>2, <1>3 DEF Live, Preferred, Gone
<1>10. ASSUME NEW p \in Requests PROVE Fits(request[p])'
  <2>1. CASE p = q
    BY <2>1, <1>6
    DEF Fits, Idle, HoldsLive, KindFits, ClaimFits, SeesHistory, SeesLineage, Creating
  <2>2. CASE p # q
    <3>1. /\ request[p] \in RequestRows /\ Fits(request[p]) /\ request'[p] = request[p]
          /\ s \notin request[p].held
      BY <2>2, <1>2, <1>6, Known DEF Apart
    <3>2. HoldsLive(request[p])' /\ KindFits(request[p])'
      BY <3>1, <1>9 DEF Fits, HoldsLive, KindFits, Creating, RequestRows, Live
    <3>3. ClaimFits(request[p])'
      BY <3>1, <1>2, <1>4 DEF Fits, ClaimFits, RequestRows
    <3>4. SeesHistory(request[p])'
      BY <3>1, <1>9 DEF Fits, SeesHistory
    <3>5. SeesLineage(request[p])'
      <4> SUFFICES ASSUME request[p].pc \in {"lineage", "erase"}, NEW i \in Jobs,
                          alive(i), job'[i].refreshOf = request[p].source
                   PROVE  i \in request[p].held \/ (request[p].pc = "lineage" /\ i \in request[p].todo)
        BY <3>1 DEF Fits, SeesLineage, Live
      <4>1. Live(i) /\ i # s
        BY <1>9
      <4>2. request[p].source # 0
        BY <3>1 DEF Fits, SeesLineage
      <4>3. job[i].refreshOf = request[p].source
        BY <4>1, <4>2, <1>3
      <4> QED BY <3>1, <4>1, <4>3 DEF Fits, SeesLineage
    <3> QED BY <3>2, <3>3, <3>4, <3>5 DEF Fits
  <2> QED BY <2>1, <2>2
<1>11. ASSUME NEW p \in Requests, NEW u \in Requests, p # u
       PROVE  Apart(request[p], request[u])'
  <2>1. Apart(request'[p], request'[u])
    BY <1>6, <1>11, Known, NothingFits
  <2> QED BY <2>1 DEF Apart
<1>12. EnoughJobs'
  <2>1. Creators' \in SUBSET Creators
    BY <1>6 DEF Creators, Idle
  <2>2. Unborn \in SUBSET Unborn'
    <3>1. job[s].state # "unborn"
      BY <1>1, <1>2 DEF Fits, HoldsLive, Live
    <3> QED BY <3>1, <1>3 DEF Unborn
  <2>3. /\ IsFiniteSet(Creators) /\ IsFiniteSet(Unborn')
        /\ Cardinality(Creators) \in Nat /\ Cardinality(Unborn) \in Nat
        /\ Cardinality(Creators') \in Nat /\ Cardinality(Unborn') \in Nat
    BY JobsAreFinite DEF Creators, Unborn
  <2>4. Cardinality(Creators') <= Cardinality(Creators)
        /\ Cardinality(Unborn) <= Cardinality(Unborn')
    BY <2>1, <2>2, <2>3, FS_Subset
  <2>5. Cardinality(Creators) <= Cardinality(Unborn)
    BY DEF Agreed, EnoughJobs
  <2> QED BY <2>3, <2>4, <2>5 DEF EnoughJobs
<1>13. NoTwins'
  BY <1>9 DEF Agreed, NoTwins, Preferred
<1>14. RecordsOfLiveJobs'
  <2>1. \A k \in Keys : record'[k].job # 0 => Live(record'[k].job) /\ record'[k].job # s
    BY <1>4 DEF Agreed, RecordsOfLiveJobs
  <2>2. \A k \in Keys : record'[k].job # 0 => alive(record'[k].job)
    BY <2>1, <1>9 DEF Live
  <2> QED BY <2>2 DEF RecordsOfLiveJobs, Live
<1>15. LineageIsLive'
  <2> SUFFICES ASSUME NEW i \in Jobs, alive(i), job'[i].refreshOf # 0
               PROVE  alive(job'[i].refreshOf)
    BY DEF LineageIsLive, Live
  <2>1. Live(i) /\ i # s
    BY <1>9
  <2>2. job'[i].refreshOf = job[i].refreshOf /\ i \notin request[q].held
    BY <2>1, <1>3
  <2>3. Live(job[i].refreshOf) /\ job[i].refreshOf # s
    BY <2>1, <2>2, <1>2 DEF Agreed, LineageIsLive
  <2> QED BY <2>2, <2>3, <1>9 DEF Live
<1>16. \A i \in Jobs : job'[i].state = "unborn" => job'[i].refreshOf = 0
  BY <1>2, <1>3 DEF Agreed, Gone
<1> QED BY <1>7, <1>8, <1>10, <1>11, <1>12, <1>13, <1>14, <1>15, <1>16 DEF Agreed

-----------------------------------------------------------------------------
(* Workers, the deadlock detector, and the theorems *)

LEMMA FinishKeeps ==
    ASSUME AdmissionAssumption, Agreed, NEW j \in Jobs, Finish(j)
    PROVE  Agreed'
<1>1. /\ job \in [Jobs -> JobRows] /\ job[j].state = "active"
      /\ job' = [job EXCEPT ![j].state = "ready"]
      /\ record' = record /\ answered' = answered /\ request' = request
  BY DEF Finish, Agreed, TypeOK
<1>2. /\ job' \in [Jobs -> JobRows]
      /\ job'[j].state = "ready" /\ job'[j].refreshOf = job[j].refreshOf
      /\ \A i \in Jobs : i # j => job'[i] = job[i]
  BY <1>1 DEF JobRows, JobStates
<1> DEFINE alive(i) == i \in Jobs /\ job'[i].state \in {"active", "ready"}
<1>3. \A i \in Jobs : /\ alive(i) <=> Live(i)
                      /\ Preferred(i)' => Preferred(i)
                      /\ job'[i].refreshOf = job[i].refreshOf
  BY <1>1, <1>2 DEF Live, Preferred
<1>4. TypeOK'
  BY <1>1, <1>2 DEF Agreed, TypeOK
<1>5. EnoughJobs'
  <2>1. Creators' = Creators /\ Unborn' = Unborn
    BY <1>1, <1>2 DEF Creators, Unborn
  <2> QED BY <2>1 DEF Agreed, EnoughJobs
<1>6. ASSUME NEW p \in Requests PROVE Fits(request[p])'
  <2>1. request[p] \in RequestRows /\ Fits(request[p]) /\ request'[p] = request[p]
    BY <1>1, Known
  <2>2. HoldsLive(request[p])' /\ KindFits(request[p])' /\ ClaimFits(request[p])'
    BY <2>1, <1>1, <1>3 DEF Fits, HoldsLive, KindFits, ClaimFits, Creating, Live, RequestRows
  <2>3. SeesHistory(request[p])' /\ SeesLineage(request[p])'
    BY <2>1, <1>3 DEF Fits, SeesHistory, SeesLineage, Live
  <2> QED BY <2>2, <2>3 DEF Fits
<1>7. \A p, u \in Requests : p # u => Apart(request[p], request[u])'
  BY <1>1 DEF Agreed, Apart
<1>8. AnswersAreRecorded' /\ NoTwins' /\ RecordsOfLiveJobs'
  BY <1>1, <1>3 DEF Agreed, AnswersAreRecorded, NoTwins, Preferred, RecordsOfLiveJobs, Live
<1>9. LineageIsLive'
  <2> SUFFICES ASSUME NEW i \in Jobs, alive(i), job'[i].refreshOf # 0
               PROVE  alive(job'[i].refreshOf)
    BY DEF LineageIsLive, Live
  <2>1. Live(job[i].refreshOf)
    BY <1>3 DEF Agreed, LineageIsLive
  <2> QED BY <2>1, <1>3 DEF Live
<1>10. \A i \in Jobs : job'[i].state = "unborn" => job'[i].refreshOf = 0
  BY <1>2 DEF Agreed
<1> QED BY <1>4, <1>5, <1>6, <1>7, <1>8, <1>9, <1>10 DEF Agreed

LEMMA BreakDeadlockKeeps ==
    ASSUME AdmissionAssumption, Agreed, NEW q \in Requests, BreakDeadlock(q)
    PROVE  Agreed'
<1>1. CASE request[q].pc \in {"history", "rows"}
  BY <1>1, GiveUpKeeps DEF BreakDeadlock
<1>2. CASE request[q].pc \notin {"history", "rows"}
  <2>1. Moves(q, Idle)
    BY <1>2 DEF BreakDeadlock, Moves, Ended
  <2> QED BY <2>1, EndKeeps
<1> QED BY <1>1, <1>2

LEMMA InitAgreed == AdmissionAssumption /\ Init => Agreed
<1> SUFFICES ASSUME AdmissionAssumption, Init PROVE Agreed
  OBVIOUS
<1>1. /\ \A q \in Requests : request[q] = Idle
      /\ \A j \in Jobs : job[j] = [state |-> "unborn", refreshOf |-> 0, by |-> "create"]
      /\ \A k \in Keys : record[k] = NoRecord /\ answered[k] = {}
  BY DEF Init
<1>2. (CHOOSE k \in Keys : TRUE) \in Keys
  BY DEF AdmissionAssumption
<1>3. Idle \in RequestRows /\ Idle.pc = "idle"
  BY <1>2 DEF Idle, RequestRows, Kinds
<1>4. TypeOK
  <2>1. NoRecord \in Records
    BY DEF NoRecord, Records, Kinds
  <2>2. [state |-> "unborn", refreshOf |-> 0, by |-> "create"] \in JobRows
    BY DEF JobRows, JobStates, Kinds
  <2> QED BY <1>3, <2>1, <2>2 DEF Init, TypeOK
<1>5. EnoughJobs
  <2>1. Creators = {}
    BY <1>1, <1>3 DEF Creators
  <2>2. Cardinality(Unborn) \in Nat
    BY JobsAreFinite DEF Unborn
  <2> QED BY <2>1, <2>2, FS_EmptySet DEF EnoughJobs
<1>6. Fits(Idle) /\ Apart(Idle, Idle)
  BY DEF Fits, Idle, HoldsLive, KindFits, ClaimFits, SeesHistory, SeesLineage, Creating, Apart
<1>7. /\ \A q \in Requests : Fits(request[q])
      /\ \A p, q \in Requests : p # q => Apart(request[p], request[q])
  BY <1>1, <1>6
<1>8. AnswersAreRecorded /\ NoTwins /\ RecordsOfLiveJobs /\ LineageIsLive
  BY <1>1 DEF AnswersAreRecorded, NoTwins, RecordsOfLiveJobs, LineageIsLive, Live, NoRecord
<1>9. \A j \in Jobs : job[j].state = "unborn" => job[j].refreshOf = 0
  BY <1>1
<1> QED BY <1>4, <1>5, <1>7, <1>8, <1>9 DEF Agreed

LEMMA NextKeeps == AdmissionAssumption /\ Agreed /\ [Next]_vars => Agreed'
<1> SUFFICES ASSUME AdmissionAssumption, Agreed, [Next]_vars PROVE Agreed'
  OBVIOUS
<1>1. ASSUME NEW q \in Requests, Step(q) PROVE Agreed'
  BY <1>1, LockSourceKeeps, LookupKeeps, LockHistoryKeeps, LockRowKeeps, ChooseKeeps,
     ClaimKeeps, CommitKeeps, ReplayKeeps, LockTargetKeeps, LockLineageKeeps, EraseKeeps,
     BreakDeadlockKeeps
  DEF Step
<1>2. ASSUME NEW q \in Requests, NEW kind \in Kinds, NEW key \in Keys,
             NEW source \in Jobs \cup {0}, Begin(q, kind, key, source)
      PROVE  Agreed'
  BY <1>2, BeginKeeps
<1>3. ASSUME NEW q \in Requests, LookupFails(q) PROVE Agreed'
  BY <1>3, GiveUpKeeps DEF LookupFails
<1>4. ASSUME NEW q \in Requests, Refuse(q) PROVE Agreed'
  BY <1>4, RefuseKeeps
<1>5. ASSUME NEW j \in Jobs, Finish(j) PROVE Agreed'
  BY <1>5, FinishKeeps
<1>6. CASE UNCHANGED vars
  BY <1>6
  DEF vars, Agreed, TypeOK, EnoughJobs, Creators, Unborn, Fits, HoldsLive, KindFits, ClaimFits,
      SeesHistory, SeesLineage, Creating, Preferred, Live, Apart, AnswersAreRecorded,
      NoTwins, RecordsOfLiveJobs, LineageIsLive
<1> QED BY <1>1, <1>2, <1>3, <1>4, <1>5, <1>6 DEF Next

LEMMA KeyHasOneJob == AdmissionAssumption /\ Agreed => OneJobPerKey
<1> SUFFICES ASSUME AdmissionAssumption, Agreed, NEW k \in Keys
             PROVE  Cardinality({j \in answered[k] : Live(j)}) <= 1
  BY DEF OneJobPerKey
<1> DEFINE S == {j \in answered[k] : Live(j)}
<1>1. S \in SUBSET {record[k].job}
  BY DEF Agreed, AnswersAreRecorded
<1>2. IsFiniteSet({record[k].job}) /\ Cardinality({record[k].job}) = 1
  BY FS_Singleton
<1> HIDE DEF S
<1>3. Cardinality(S) <= 1
  BY <1>1, <1>2, FS_Subset
<1> QED BY <1>3 DEF S

\* Whatever requests race: they are well typed, a key has one job, two that
\* prefer an existing result create one, and no record or refresh names a job
\* that was deleted (create_footprint_job, delete_locked_job).
THEOREM RequestsAgreeAlways ==
    AdmissionAssumption =>
        (Spec => [](TypeOK /\ OneJobPerKey /\ NoTwins /\ RecordsOfLiveJobs /\ LineageIsLive))
<1> SUFFICES ASSUME AdmissionAssumption
             PROVE  Spec => [](TypeOK /\ OneJobPerKey /\ NoTwins /\ RecordsOfLiveJobs /\ LineageIsLive)
  OBVIOUS
<1>1. Init => Agreed
  BY InitAgreed
<1>2. Agreed /\ [Next]_vars => Agreed'
  BY NextKeeps
<1>3. Agreed => TypeOK /\ OneJobPerKey /\ NoTwins /\ RecordsOfLiveJobs /\ LineageIsLive
  BY KeyHasOneJob DEF Agreed
<1> QED BY <1>1, <1>2, <1>3, PTL DEF Spec

================================================================================
