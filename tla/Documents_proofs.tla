--------------------------- MODULE Documents_proofs ---------------------------
(***************************************************************************)
(* Proofs about the shared documents, for every number of jobs, documents, *)
(* creations and ticks: the typing, and that the sweep takes no evidence   *)
(* (SweepSparesEvidence).                                                  *)
(*                                                                         *)
(* The property reads one step of the sweep, the invariant Guarded says    *)
(* why it holds: what each transaction has locked (Fits), and which locks  *)
(* exclude each other (Apart).                                             *)
(***************************************************************************)
EXTENDS Documents, TLAPS

USE DEF Actors

(***************************************************************************)
(* The invariant.                                                          *)
(***************************************************************************)

Writing(t) == t.pc \in {"write", "insert", "extend", "use"}

\* Only a job that has not expired writes.
WritesInTime(a, t) ==
    Writing(t) => a \in Jobs /\ now < expires[a] /\ t.deleted = {}

\* What a transaction inserts is not there, and there is an id for it.
InsertsNew(t) == \A d \in t.inserted : row[d].id = 0 /\ ids[d] < MaxIds

\* A document that t uses will be fresh when t commits: t inserts or extends
\* it, or it is fresh already.
Backed(t) == \A d \in t.used : d \in t.inserted \cup t.extended \/ row[d].expires > now

\* The same of the document t is about to use, should it still be there.
Chosen(t) ==
    t.pc = "use" =>
        \/ t.doc \in t.inserted \cup t.extended
        \/ t.seen.id # 0 /\ (row[t.doc].id = t.seen.id => row[t.doc].expires > now)

\* Who is not writing holds no lock of a writer, and who is not deleting rows
\* has deleted none.
LocksFitPc(t) ==
    /\ ~Writing(t) => t.inserted = {} /\ t.extended = {} /\ t.used = {}
    /\ t.pc \in {"idle", "erase"} => t.deleted = {}
    /\ t.pc \in {"insert", "extend", "use"} => t.doc \in Documents

\* A deletion works on rows it has seen.
DeletesSeen(t) ==
    t.pc = "rows" => t.at <= now /\ \A d \in t.todo : t.snapshot[d].id # 0

\* The sweep has deleted nothing that is in use; what it may still come to and
\* is in use by now has been extended since its snapshot.
Spares(t) ==
    t.pc = "rows" =>
        \A j \in Jobs : /\ \A d \in t.todo : d \in uses[j] => row[d].expires > t.at
                        /\ \A d \in t.deleted : d \notin uses[j]

Fits(a, t) ==
    /\ WritesInTime(a, t)
    /\ InsertsNew(t)
    /\ Backed(t)
    /\ Chosen(t)
    /\ LocksFitPc(t)
    /\ DeletesSeen(t)
    /\ a = Sweep => t.pc \in {"idle", "rows"} /\ Spares(t)

\* What t deletes nobody else has locked, and nobody else inserts what t does.
Apart(t, u) ==
    /\ \A d \in t.deleted : d \notin u.inserted \cup u.extended \cup u.used \cup u.deleted
    /\ \A d \in t.inserted : d \notin u.inserted

Guarded ==
    /\ TypeOK
    /\ \A a \in Actors : Fits(a, tx[a])
    /\ \A a, b \in Actors : a # b => Apart(tx[a], tx[b])

\* a's transaction becomes t and nothing else changes.
Moves(a, t) ==
    /\ Set(a, t)
    /\ UNCHANGED <<now, expires, live, row, ids, uses>>

-----------------------------------------------------------------------------
(* A step of one transaction *)

LEMMA MoveKeeps ==
    ASSUME Guarded, NEW a \in Actors, NEW t \in TxRows, Moves(a, t),
           Fits(a, t),
           \A b \in Actors : b # a => Apart(t, tx[b]) /\ Apart(tx[b], t)
    PROVE  Guarded'
<1>1. /\ tx' \in [Actors -> TxRows]
      /\ tx'[a] = t
      /\ \A b \in Actors : b # a => tx'[b] = tx[b]
  BY DEF Guarded, TypeOK, Moves, Set
<1>2. TypeOK'
  BY <1>1 DEF Guarded, TypeOK, Moves
<1>3. ASSUME NEW b \in Actors PROVE Fits(b, tx[b])'
  <2>1. CASE b = a
    BY <2>1, <1>1 DEF Fits, Moves, WritesInTime, InsertsNew, Backed, Chosen, LocksFitPc, DeletesSeen, Spares, Writing
  <2>2. CASE b # a
    <3>1. Fits(b, tx[b])
      BY DEF Guarded
    <3> QED
      BY <3>1, <2>2, <1>1 DEF Fits, Moves, WritesInTime, InsertsNew, Backed, Chosen, LocksFitPc, DeletesSeen, Spares, Writing
  <2> QED BY <2>1, <2>2
<1>4. ASSUME NEW b \in Actors, NEW c \in Actors, b # c PROVE Apart(tx[b], tx[c])'
  BY <1>1, <1>4 DEF Guarded, Apart
<1> QED
  BY <1>2, <1>3, <1>4 DEF Guarded

\* A transaction that is over holds nothing.
LEMMA NothingFits ==
    ASSUME Guarded, NEW a \in Actors
    PROVE  /\ NoTx \in TxRows
           /\ Fits(a, NoTx)
           /\ \A b \in Actors : Apart(NoTx, tx[b]) /\ Apart(tx[b], NoTx)
<1>1. NoTx \in TxRows
  BY DocumentsAssumption DEF NoTx, TxRows, Rows, NoRow
<1>2. Fits(a, NoTx)
  BY DEF Fits, NoTx, WritesInTime, InsertsNew, Backed, Chosen, LocksFitPc, DeletesSeen, Spares, Writing
<1>3. ASSUME NEW b \in Actors PROVE Apart(NoTx, tx[b]) /\ Apart(tx[b], NoTx)
  BY DEF Apart, NoTx
<1> QED BY <1>1, <1>2, <1>3

LEMMA EndKeeps ==
    ASSUME Guarded, NEW a \in Actors, Moves(a, NoTx)
    PROVE  Guarded'
BY NothingFits, MoveKeeps

LEMMA Known ==
    ASSUME Guarded, NEW a \in Actors
    PROVE  /\ tx[a] \in TxRows
           /\ Fits(a, tx[a])
           /\ \A b \in Actors : b # a => Apart(tx[a], tx[b]) /\ Apart(tx[b], tx[a])
BY DEF Guarded, TypeOK

\* t holds the locks of u.
SameLocks(t, u) ==
    /\ t.inserted = u.inserted /\ t.extended = u.extended
    /\ t.used = u.used /\ t.deleted = u.deleted

LEMMA SameLocksApart ==
    ASSUME Guarded, NEW a \in Actors, NEW t, SameLocks(t, tx[a])
    PROVE  \A b \in Actors : b # a => Apart(t, tx[b]) /\ Apart(tx[b], t)
BY DEF Guarded, SameLocks, Apart

-----------------------------------------------------------------------------
(* Writers *)

LEMMA BeginWriteKeeps ==
    ASSUME Guarded, NEW j \in Jobs, NEW D \in SUBSET Documents, BeginWrite(j, D)
    PROVE  Guarded'
<1> DEFINE t == [NoTx EXCEPT !.pc = "write", !.todo = D]
<1>1. t \in TxRows
  <2>1. NoTx \in TxRows
    BY NothingFits
  <2> QED BY <2>1 DEF TxRows
<1>2. Fits(j, t)
  BY DocumentsAssumption
  DEF BeginWrite, Fits, NoTx, WritesInTime, InsertsNew, Backed, Chosen, LocksFitPc, DeletesSeen, Writing
<1>3. \A b \in Actors : b # j => Apart(t, tx[b]) /\ Apart(tx[b], t)
  BY DEF Apart, NoTx
<1>4. Moves(j, t)
  BY DEF BeginWrite, Moves
<1> HIDE DEF t
<1> QED BY <1>1, <1>2, <1>3, <1>4, MoveKeeps

LEMMA SelectDocumentKeeps ==
    ASSUME Guarded, NEW j \in Jobs, NEW d \in Documents, SelectDocument(j, d)
    PROVE  Guarded'
<1> DEFINE pc == IF ~Present(d) THEN "insert"
                 ELSE IF row[d].expires < expires[j] THEN "extend" ELSE "use"
           t == [tx[j] EXCEPT !.pc = pc, !.doc = d, !.seen = row[d]]
<1>1. tx[j] \in TxRows /\ Fits(j, tx[j]) /\ tx[j].pc = "write"
  BY Known DEF SelectDocument
<1>2. row[d] \in Rows /\ now \in Nat /\ expires[j] \in Nat
  BY DocumentsAssumption DEF Guarded, TypeOK
<1>3. pc \in {"insert", "extend", "use"}
  OBVIOUS
<1>4. pc = "use" => row[d].id # 0 /\ row[d].expires >= expires[j]
  BY <1>2 DEF Present, Rows
<1> HIDE DEF pc
<1>5. t \in TxRows
  BY <1>1, <1>2, <1>3 DEF TxRows
<1>6. /\ t.pc = pc /\ t.doc = d /\ t.seen = row[d]
      /\ SameLocks(t, tx[j])
  BY <1>1 DEF TxRows, SameLocks
<1>7. Moves(j, t)
  BY DEF SelectDocument, Moves, pc
<1> HIDE DEF t
<1>8. now < expires[j]
  BY <1>1 DEF Fits, WritesInTime, Writing
<1>9. Chosen(t)
  BY <1>2, <1>4, <1>6, <1>8 DEF Chosen, Rows
<1>10. Fits(j, t)
  BY <1>1, <1>3, <1>6, <1>9, DocumentsAssumption
  DEF Fits, SameLocks, WritesInTime, InsertsNew, Backed, LocksFitPc, DeletesSeen, Writing
<1>11. \A b \in Actors : b # j => Apart(t, tx[b]) /\ Apart(tx[b], t)
  BY <1>6, SameLocksApart
<1> QED BY <1>5, <1>7, <1>10, <1>11, MoveKeeps

LEMMA InsertKeeps ==
    ASSUME Guarded, NEW j \in Jobs, Insert(j)
    PROVE  Guarded'
<1> DEFINE t == [tx[j] EXCEPT !.pc = "use", !.inserted = @ \cup {tx[j].doc}]
<1>1. CASE Moves(j, NoTx)
  BY <1>1, EndKeeps
<1>2. CASE Moves(j, t) /\ ~Present(tx[j].doc) /\ ids[tx[j].doc] < MaxIds
  <2>1. /\ tx[j] \in TxRows /\ Fits(j, tx[j]) /\ tx[j].pc = "insert"
        /\ tx[j].doc \in Documents
    BY Known DEF Insert, Fits, LocksFitPc
  <2>2. t \in TxRows
    BY <2>1 DEF TxRows
  <2>3. /\ t.pc = "use" /\ t.inserted = tx[j].inserted \cup {tx[j].doc} /\ t.doc = tx[j].doc
        /\ t.extended = tx[j].extended /\ t.used = tx[j].used /\ t.deleted = tx[j].deleted
    BY <2>1 DEF TxRows
  <2> HIDE DEF t
  <2>4. Fits(j, t)
    BY <1>2, <2>1, <2>3, DocumentsAssumption
    DEF Fits, Present, WritesInTime, InsertsNew, Backed, Chosen, LocksFitPc, DeletesSeen, Writing
  <2>5. ASSUME NEW b \in Actors, b # j PROVE Apart(t, tx[b]) /\ Apart(tx[b], t)
    <3>1. Apart(tx[j], tx[b]) /\ Apart(tx[b], tx[j])
      BY <2>5, Known
    <3>2. tx[j].doc \notin tx[b].inserted \cup tx[b].deleted
      BY <2>5 DEF Insert, InsertOwners, Others
    <3> QED BY <3>1, <3>2, <2>3 DEF Apart
  <2> QED BY <1>2, <2>2, <2>4, <2>5, MoveKeeps
<1> QED BY <1>1, <1>2 DEF Insert, Moves, Set

LEMMA ExtendKeeps ==
    ASSUME Guarded, NEW j \in Jobs, Extend(j)
    PROVE  Guarded'
<1> DEFINE t == [tx[j] EXCEPT !.pc = "use", !.extended = @ \cup {tx[j].doc}]
<1>1. CASE Moves(j, NoTx)
  BY <1>1, EndKeeps
<1>2. CASE Moves(j, t)
  <2>1. /\ tx[j] \in TxRows /\ Fits(j, tx[j]) /\ tx[j].pc = "extend"
        /\ tx[j].doc \in Documents
    BY Known DEF Extend, Fits, LocksFitPc
  <2>2. t \in TxRows
    BY <2>1 DEF TxRows
  <2>3. /\ t.pc = "use" /\ t.extended = tx[j].extended \cup {tx[j].doc} /\ t.doc = tx[j].doc
        /\ t.inserted = tx[j].inserted /\ t.used = tx[j].used /\ t.deleted = tx[j].deleted
    BY <2>1 DEF TxRows
  <2> HIDE DEF t
  <2>4. Fits(j, t)
    BY <2>1, <2>3, DocumentsAssumption
    DEF Fits, WritesInTime, InsertsNew, Backed, Chosen, LocksFitPc, DeletesSeen, Writing
  <2>5. ASSUME NEW b \in Actors, b # j PROVE Apart(t, tx[b]) /\ Apart(tx[b], t)
    <3>1. Apart(tx[j], tx[b]) /\ Apart(tx[b], tx[j])
      BY <2>5, Known
    <3>2. tx[j].doc \notin tx[b].deleted
      BY <2>5 DEF Extend, ExtendOwners, Others
    <3> QED BY <3>1, <3>2, <2>3 DEF Apart
  <2> QED BY <1>2, <2>2, <2>4, <2>5, MoveKeeps
<1> QED BY <1>1, <1>2 DEF Extend, Moves, Set

LEMMA UseKeeps ==
    ASSUME Guarded, NEW j \in Jobs, Use(j)
    PROVE  Guarded'
<1> DEFINE t == [tx[j] EXCEPT !.pc = "write", !.todo = @ \ {tx[j].doc}, !.used = @ \cup {tx[j].doc}]
<1>1. CASE Moves(j, NoTx)
  BY <1>1, EndKeeps
<1>2. CASE Moves(j, t) /\ (tx[j].doc \in tx[j].inserted \/ row[tx[j].doc].id = tx[j].seen.id)
  <2>1. /\ tx[j] \in TxRows /\ Fits(j, tx[j]) /\ tx[j].pc = "use"
        /\ tx[j].doc \in Documents
    BY Known DEF Use, Fits, LocksFitPc
  <2>2. t \in TxRows
    BY <2>1 DEF TxRows
  <2>3. /\ t.pc = "write" /\ t.used = tx[j].used \cup {tx[j].doc}
        /\ t.inserted = tx[j].inserted /\ t.extended = tx[j].extended /\ t.deleted = tx[j].deleted
    BY <2>1 DEF TxRows
  <2> HIDE DEF t
  <2>4. Backed(t)
    BY <1>2, <2>1, <2>3 DEF Fits, Backed, Chosen
  <2>5. Fits(j, t)
    BY <2>1, <2>3, <2>4, DocumentsAssumption
    DEF Fits, WritesInTime, InsertsNew, Chosen, LocksFitPc, DeletesSeen, Writing
  <2>6. ASSUME NEW b \in Actors, b # j PROVE Apart(t, tx[b]) /\ Apart(tx[b], t)
    <3>1. Apart(tx[j], tx[b]) /\ Apart(tx[b], tx[j])
      BY <2>6, Known
    <3>2. tx[j].doc \notin tx[b].deleted
      BY <2>6 DEF Use, UseOwners, Others
    <3> QED BY <3>1, <3>2, <2>3 DEF Apart
  <2> QED BY <1>2, <2>2, <2>5, <2>6, MoveKeeps
<1> QED BY <1>1, <1>2 DEF Use, Moves, Set

\* The fate of the rows when t, of a job that expires at e, commits what it
\* has written.
Renews(t, e) ==
    /\ row' \in [Documents -> Rows] /\ ids' \in [Documents -> 0 .. MaxIds]
    /\ \A d \in Documents :
          /\ d \in t.inserted \cup t.extended => row'[d].expires = e
          /\ d \notin t.inserted \cup t.extended => row'[d] = row[d]
          /\ d \notin t.inserted => row'[d].id = row[d].id /\ ids'[d] = ids[d]

LEMMA CommitWriteRenews ==
    ASSUME Guarded, NEW j \in Jobs, CommitWrite(j)
    PROVE  Renews(tx[j], expires[j])
<1>1. /\ \A d \in tx[j].inserted : ids[d] < MaxIds
      /\ row \in [Documents -> Rows] /\ ids \in [Documents -> 0 .. MaxIds]
      /\ expires[j] \in 0 .. Horizon
  <2>1. Fits(j, tx[j])
    BY Known
  <2>2. expires \in [Jobs -> 1 .. Horizon] /\ row \in [Documents -> Rows]
        /\ ids \in [Documents -> 0 .. MaxIds]
    BY DEF Guarded, TypeOK
  <2>3. expires[j] \in 1 .. Horizon
    BY <2>2
  <2> QED BY <2>1, <2>2, <2>3, DocumentsAssumption DEF Fits, InsertsNew
<1> DEFINE r(d) == CASE d \in tx[j].inserted -> [id |-> ids[d] + 1, expires |-> expires[j]]
                     [] d \in tx[j].extended -> [row[d] EXCEPT !.expires = expires[j]]
                     [] OTHER                -> row[d]
           n(d) == IF d \in tx[j].inserted THEN ids[d] + 1 ELSE ids[d]
<1>2. row' = [d \in Documents |-> r(d)] /\ ids' = [d \in Documents |-> n(d)]
  BY DEF CommitWrite
<1>3. ASSUME NEW d \in Documents
      PROVE  /\ r(d) \in Rows /\ n(d) \in 0 .. MaxIds
             /\ d \in tx[j].inserted \cup tx[j].extended => r(d).expires = expires[j]
             /\ d \notin tx[j].inserted \cup tx[j].extended => r(d) = row[d]
             /\ d \notin tx[j].inserted => r(d).id = row[d].id /\ n(d) = ids[d]
  <2>1. row[d] \in Rows /\ ids[d] \in 0 .. MaxIds
    BY <1>1
  <2>2. CASE d \in tx[j].inserted
    <3>1. ids[d] + 1 \in 0 .. MaxIds
      BY <2>1, <2>2, <1>1, DocumentsAssumption
    <3> QED BY <2>2, <3>1, <1>1 DEF Rows
  <2>3. CASE d \notin tx[j].inserted /\ d \in tx[j].extended
    BY <2>1, <2>3, <1>1 DEF Rows
  <2>4. CASE d \notin tx[j].inserted /\ d \notin tx[j].extended
    BY <2>1, <2>4
  <2> QED BY <2>2, <2>3, <2>4
<1> HIDE DEF r, n
<1> QED BY <1>2, <1>3 DEF Renews

LEMMA CommitWriteKeeps ==
    ASSUME Guarded, NEW j \in Jobs, CommitWrite(j)
    PROVE  Guarded'
<1>1. /\ Renews(tx[j], expires[j])
      /\ tx[j] \in TxRows /\ Fits(j, tx[j]) /\ tx[j].pc = "write"
      /\ NoTx \in TxRows /\ Fits(j, NoTx)
  BY CommitWriteRenews, Known, NothingFits DEF CommitWrite
<1>2. /\ now' = now /\ expires' = expires /\ live' = live
      /\ uses' = [uses EXCEPT ![j] = @ \cup tx[j].used]
      /\ tx' = [tx EXCEPT ![j] = NoTx]
  BY DEF CommitWrite, Set
<1>3. now < expires[j]
  BY <1>1 DEF Fits, WritesInTime, Writing
<1>4. /\ now \in Nat /\ expires[j] \in Nat /\ uses \in [Jobs -> SUBSET Documents]
      /\ \A d \in Documents : row[d].expires \in Nat /\ row'[d].expires \in Nat
  <2>1. expires \in [Jobs -> 1 .. Horizon] /\ now \in 0 .. Horizon
        /\ uses \in [Jobs -> SUBSET Documents] /\ row \in [Documents -> Rows]
    BY DEF Guarded, TypeOK
  <2>2. expires[j] \in 1 .. Horizon
    BY <2>1
  <2>3. row' \in [Documents -> Rows]
    BY <1>1 DEF Renews
  <2> QED BY <2>1, <2>2, <2>3, DocumentsAssumption DEF Rows
<1>5. /\ tx' \in [Actors -> TxRows]
      /\ tx'[j] = NoTx
      /\ \A b \in Actors : b # j => tx'[b] = tx[b]
  BY <1>1, <1>2 DEF Guarded, TypeOK
<1>6. TypeOK'
  <2>1. uses' \in [Jobs -> SUBSET Documents]
    BY <1>1, <1>2, <1>4 DEF TxRows
  <2> QED BY <1>1, <1>2, <1>5, <2>1 DEF Guarded, TypeOK, Renews
\* Whatever was fresh before is fresh after.
<1>7. \A d \in Documents : row[d].expires > now => row'[d].expires > now
  BY <1>1, <1>3, <1>4 DEF Renews
<1>8. ASSUME NEW b \in Actors PROVE Fits(b, tx[b])'
  <2>1. CASE b = j
    BY <2>1, <1>5, DocumentsAssumption
    DEF Fits, NoTx, WritesInTime, InsertsNew, Backed, Chosen, LocksFitPc, DeletesSeen, Writing
  <2>2. CASE b # j
    <3>1. /\ tx[b] \in TxRows /\ Fits(b, tx[b]) /\ Apart(tx[b], tx[j]) /\ tx'[b] = tx[b]
      BY <2>2, <1>5, Known
    <3>2. WritesInTime(b, tx[b])' /\ LocksFitPc(tx[b])' /\ DeletesSeen(tx[b])'
      BY <3>1, <1>2 DEF Fits, WritesInTime, LocksFitPc, DeletesSeen, Writing
    <3>3. InsertsNew(tx[b])'
      BY <3>1, <1>1 DEF Fits, InsertsNew, Apart, Renews, TxRows
    <3>4. Backed(tx[b])'
      BY <3>1, <1>2, <1>7 DEF Fits, Backed, TxRows
    <3>5. Chosen(tx[b])'
      <4> SUFFICES ASSUME tx[b].pc = "use", tx[b].doc \notin tx[b].inserted \cup tx[b].extended
                   PROVE  /\ tx[b].seen.id # 0
                          /\ row'[tx[b].doc].id = tx[b].seen.id => row'[tx[b].doc].expires > now
        BY <3>1, <1>2 DEF Chosen
      <4>1. tx[b].doc \in Documents
        BY <3>1 DEF Fits, LocksFitPc
      <4>2. /\ tx[b].seen.id # 0
            /\ row[tx[b].doc].id = tx[b].seen.id => row[tx[b].doc].expires > now
        BY <3>1 DEF Fits, Chosen
      <4>3. CASE tx[b].doc \in tx[j].inserted \cup tx[j].extended
        BY <4>1, <4>2, <4>3, <1>1, <1>3, <1>4 DEF Renews
      <4>4. CASE tx[b].doc \notin tx[j].inserted \cup tx[j].extended
        BY <4>1, <4>2, <4>4, <1>1 DEF Renews
      <4> QED BY <4>3, <4>4
    <3>6. ASSUME b = Sweep PROVE tx'[b].pc \in {"idle", "rows"} /\ Spares(tx[b])'
      <4>1. tx[b].pc \in {"idle", "rows"} /\ Spares(tx[b])
        BY <3>1, <3>6 DEF Fits
      <4> SUFFICES ASSUME tx[b].pc = "rows", NEW k \in Jobs
                   PROVE  /\ \A d \in tx[b].todo : d \in uses'[k] => row'[d].expires > tx[b].at
                          /\ \A d \in tx[b].deleted : d \notin uses'[k]
        BY <3>1, <4>1 DEF Spares
      <4>2. tx[b].at \in Nat /\ tx[b].at <= now
        <5>1. tx[b].at \in 0 .. Horizon
          BY <3>1 DEF TxRows
        <5>2. tx[b].at <= now
          BY <3>1 DEF Fits, DeletesSeen
        <5> QED BY <5>1, <5>2, DocumentsAssumption
      <4>3. uses'[k] = uses[k] \/ uses'[k] = uses[k] \cup tx[j].used
        <5>1. CASE k = j
          BY <5>1, <1>2, <1>4
        <5>2. CASE k # j
          BY <5>2, <1>2, <1>4
        <5> QED BY <5>1, <5>2
      <4>4. ASSUME NEW d \in tx[b].todo, d \in uses[k] PROVE row'[d].expires > tx[b].at
        <5>1. d \in Documents /\ row[d].expires > tx[b].at
          BY <3>1, <4>1, <4>4 DEF Spares, TxRows
        <5> QED BY <5>1, <4>2, <1>1, <1>3, <1>4 DEF Renews
      <4>5. ASSUME NEW d \in tx[b].todo, d \in tx[j].used PROVE row'[d].expires > tx[b].at
        <5>1. d \in Documents
          BY <3>1 DEF TxRows
        <5>2. row'[d].expires > now
          BY <5>1, <4>5, <1>1, <1>3, <1>4, <1>7 DEF Fits, Backed, Renews
        <5> QED BY <5>1, <5>2, <4>2, <1>4
      <4>6. ASSUME NEW d \in tx[b].deleted PROVE d \notin uses[k] \cup tx[j].used
        BY <3>1, <4>1 DEF Spares, Apart
      <4> QED BY <4>3, <4>4, <4>5, <4>6
    <3> QED BY <3>1, <3>2, <3>3, <3>4, <3>5, <3>6 DEF Fits
  <2> QED BY <2>1, <2>2
<1>9. ASSUME NEW b \in Actors, NEW c \in Actors, b # c PROVE Apart(tx[b], tx[c])'
  <2>1. CASE b = j \/ c = j
    BY <2>1, <1>5, <1>9 DEF Apart, NoTx
  <2>2. CASE b # j /\ c # j
    <3>1. Apart(tx[b], tx[c]) /\ tx'[b] = tx[b] /\ tx'[c] = tx[c]
      BY <2>2, <1>5, <1>9 DEF Guarded
    <3> QED BY <3>1 DEF Apart
  <2> QED BY <2>1, <2>2
<1> QED BY <1>6, <1>8, <1>9 DEF Guarded

-----------------------------------------------------------------------------
(* Deletions and the sweep *)

LEMMA BeginDeleteKeeps ==
    ASSUME Guarded, NEW j \in Jobs, BeginDelete(j)
    PROVE  Guarded'
<1> DEFINE t == [NoTx EXCEPT !.pc = "erase", !.todo = uses[j]]
<1>1. t \in TxRows
  <2>1. NoTx \in TxRows
    BY NothingFits
  <2>2. uses[j] \in SUBSET Documents
    BY DEF Guarded, TypeOK
  <2> QED BY <2>1, <2>2 DEF TxRows
<1>2. Fits(j, t)
  BY DocumentsAssumption
  DEF Fits, NoTx, WritesInTime, InsertsNew, Backed, Chosen, LocksFitPc, DeletesSeen, Writing
<1>3. \A b \in Actors : b # j => Apart(t, tx[b]) /\ Apart(tx[b], t)
  BY DEF Apart, NoTx
<1>4. Moves(j, t)
  BY DEF BeginDelete, Moves
<1> HIDE DEF t
<1> QED BY <1>1, <1>2, <1>3, <1>4, MoveKeeps

LEMMA FindOrphansKeeps ==
    ASSUME Guarded, NEW j \in Jobs, FindOrphans(j)
    PROVE  Guarded'
<1> DEFINE found == {d \in tx[j].todo : Present(d) /\ ~Referenced(j, d)}
           t == [tx[j] EXCEPT !.pc = "rows", !.snapshot = row, !.at = now, !.todo = found]
<1>1. tx[j] \in TxRows /\ Fits(j, tx[j]) /\ tx[j].pc = "erase"
  BY Known DEF FindOrphans
<1>2. row \in [Documents -> Rows] /\ now \in 0 .. Horizon
  BY DEF Guarded, TypeOK
<1>3. /\ found \in SUBSET Documents
      /\ \A d \in found : row[d].id # 0
  BY <1>1 DEF TxRows, Present
<1>4. Moves(j, t)
  BY DEF FindOrphans, Moves
<1> HIDE DEF found
<1>5. t \in TxRows
  BY <1>1, <1>2, <1>3 DEF TxRows
<1>6. /\ t.pc = "rows" /\ t.todo = found /\ t.snapshot = row /\ t.at = now
      /\ SameLocks(t, tx[j])
  BY <1>1 DEF TxRows, SameLocks
<1> HIDE DEF t
<1>7. Fits(j, t)
  BY <1>1, <1>2, <1>3, <1>6, DocumentsAssumption
  DEF Fits, SameLocks, WritesInTime, InsertsNew, Backed, Chosen, LocksFitPc, DeletesSeen, Writing
<1>8. \A b \in Actors : b # j => Apart(t, tx[b]) /\ Apart(tx[b], t)
  BY <1>6, SameLocksApart
<1> QED BY <1>4, <1>5, <1>7, <1>8, MoveKeeps

LEMMA BeginSweepKeeps ==
    ASSUME Guarded, BeginSweep
    PROVE  Guarded'
<1> DEFINE found == {d \in Documents : /\ Present(d) /\ row[d].expires <= now
                                       /\ ~Referenced(Sweep, d)}
           t == [NoTx EXCEPT !.pc = "rows", !.todo = found, !.snapshot = row, !.at = now]
<1>1. row \in [Documents -> Rows] /\ now \in 0 .. Horizon
  BY DEF Guarded, TypeOK
<1>2. /\ found \in SUBSET Documents
      /\ \A d \in found : row[d].id # 0
      /\ \A d \in found : \A j \in Jobs : d \notin uses[j]
  BY DocumentsAssumption DEF Present, Referenced
<1>3. Moves(Sweep, t)
  BY DEF BeginSweep, Moves
<1> HIDE DEF found
<1>4. t \in TxRows
  <2>1. NoTx \in TxRows
    BY NothingFits
  <2> QED BY <2>1, <1>1, <1>2 DEF TxRows
<1>5. /\ t.pc = "rows" /\ t.todo = found /\ t.snapshot = row /\ t.at = now
      /\ t.inserted = {} /\ t.extended = {} /\ t.used = {} /\ t.deleted = {}
  BY DEF NoTx
<1> HIDE DEF t
<1>6. Fits(Sweep, t)
  BY <1>1, <1>2, <1>5, DocumentsAssumption
  DEF Fits, WritesInTime, InsertsNew, Backed, Chosen, LocksFitPc, DeletesSeen, Spares, Writing
<1>7. \A b \in Actors : b # Sweep => Apart(t, tx[b]) /\ Apart(tx[b], t)
  BY <1>5 DEF Apart
<1> QED BY <1>3, <1>4, <1>6, <1>7, MoveKeeps

LEMMA DeleteRowKeeps ==
    ASSUME Guarded, NEW a \in Actors, NEW d \in Documents, DeleteRow(a, d)
    PROVE  Guarded'
<1> DEFINE gone == IF /\ row[d].id = tx[a].snapshot[d].id
                      /\ a = Sweep => row[d].expires <= tx[a].at
                   THEN tx[a].deleted \cup {d} ELSE tx[a].deleted
           t == [tx[a] EXCEPT !.todo = @ \ {d}, !.deleted = gone]
<1>1. /\ tx[a] \in TxRows /\ Fits(a, tx[a]) /\ tx[a].pc = "rows" /\ d \in tx[a].todo
      /\ \A b \in Actors : b # a => Apart(tx[a], tx[b]) /\ Apart(tx[b], tx[a])
  BY Known DEF DeleteRow
<1>2. Moves(a, t)
  BY DEF DeleteRow, Moves
<1>3. gone \in SUBSET Documents
  BY <1>1 DEF TxRows
<1>4. \/ gone = tx[a].deleted
      \/ /\ gone = tx[a].deleted \cup {d}
         /\ row[d].id = tx[a].snapshot[d].id
         /\ a = Sweep => row[d].expires <= tx[a].at
  OBVIOUS
<1> HIDE DEF gone
<1>5. t \in TxRows
  BY <1>1, <1>3 DEF TxRows
<1>6. /\ t.pc = "rows" /\ t.todo = tx[a].todo \ {d} /\ t.deleted = gone
      /\ t.snapshot = tx[a].snapshot /\ t.at = tx[a].at
      /\ t.inserted = tx[a].inserted /\ t.extended = tx[a].extended /\ t.used = tx[a].used
  BY <1>1 DEF TxRows
<1> HIDE DEF t
<1>7. a = Sweep => Spares(t)
  <2> SUFFICES ASSUME a = Sweep, NEW j \in Jobs
               PROVE  /\ \A e \in t.todo : e \in uses[j] => row[e].expires > t.at
                      /\ \A e \in t.deleted : e \notin uses[j]
    BY DEF Spares
  <2>1. /\ \A e \in tx[a].todo : e \in uses[j] => row[e].expires > tx[a].at
        /\ \A e \in tx[a].deleted : e \notin uses[j]
    BY <1>1 DEF Fits, Spares
  <2>2. row[d].expires \in Nat /\ tx[a].at \in Nat
    BY <1>1, DocumentsAssumption DEF Guarded, TypeOK, Rows, TxRows
  <2>3. row[d].expires <= tx[a].at => d \notin uses[j]
    BY <2>1, <2>2, <1>1
  <2> QED BY <2>1, <2>3, <1>4, <1>6
<1>8. Fits(a, t)
  <2>1. DeletesSeen(t)
    BY <1>1, <1>6 DEF Fits, DeletesSeen
  <2> QED
    BY <1>1, <1>6, <1>7, <2>1
    DEF Fits, WritesInTime, InsertsNew, Backed, Chosen, LocksFitPc, Writing
<1>9. ASSUME NEW b \in Actors, b # a PROVE Apart(t, tx[b]) /\ Apart(tx[b], t)
  <2>1. Apart(tx[a], tx[b]) /\ Apart(tx[b], tx[a])
    BY <1>1, <1>9
  <2>2. CASE gone = tx[a].deleted
    BY <2>1, <2>2, <1>6 DEF Apart
  <2>3. CASE gone = tx[a].deleted \cup {d} /\ row[d].id = tx[a].snapshot[d].id
    <3>1. d \notin tx[b].extended \cup tx[b].deleted \cup (tx[b].used \ tx[b].inserted)
      BY <1>9 DEF DeleteRow, DeleteOwners, Others
    <3>2. row[d].id # 0
      BY <2>3, <1>1 DEF Fits, DeletesSeen
    <3>3. d \notin tx[b].inserted
      BY <3>2, <1>9, Known DEF Fits, InsertsNew
    <3> QED BY <2>1, <2>3, <3>1, <3>3, <1>6 DEF Apart
  <2> QED BY <2>2, <2>3, <1>4
<1> QED BY <1>2, <1>5, <1>8, <1>9, MoveKeeps

LEMMA CommitDeleteKeeps ==
    ASSUME Guarded, NEW a \in Actors, CommitDelete(a)
    PROVE  Guarded'
<1>1. /\ tx[a] \in TxRows /\ Fits(a, tx[a])
      /\ NoTx \in TxRows /\ Fits(a, NoTx)
  BY Known, NothingFits
<1>2. /\ now' = now /\ expires' = expires /\ ids' = ids
      /\ row' = [d \in Documents |-> IF d \in tx[a].deleted THEN NoRow ELSE row[d]]
      /\ uses' = [j \in Jobs |-> IF j = a THEN {} ELSE uses[j] \ tx[a].deleted]
      /\ live' = live \ {a}
      /\ tx' = [tx EXCEPT ![a] = NoTx]
  BY DEF CommitDelete, Set
<1>3. /\ row \in [Documents -> Rows] /\ uses \in [Jobs -> SUBSET Documents]
      /\ now \in 0 .. Horizon /\ tx \in [Actors -> TxRows]
  BY DEF Guarded, TypeOK
<1>4. /\ tx' \in [Actors -> TxRows]
      /\ tx'[a] = NoTx
      /\ \A b \in Actors : b # a => tx'[b] = tx[b]
  BY <1>1, <1>2, <1>3
<1>5. /\ row' \in [Documents -> Rows]
      /\ \A d \in Documents : /\ d \in tx[a].deleted => row'[d].id = 0
                              /\ d \notin tx[a].deleted => row'[d] = row[d]
  <2>1. NoRow \in Rows /\ NoRow.id = 0
    BY DocumentsAssumption DEF NoRow, Rows
  <2> QED BY <2>1, <1>2, <1>3
<1>6. /\ uses' \in [Jobs -> SUBSET Documents]
      /\ \A j \in Jobs : \A d \in uses'[j] : d \in uses[j] /\ d \notin tx[a].deleted
  BY <1>2, <1>3
<1>7. TypeOK'
  BY <1>2, <1>4, <1>5, <1>6 DEF Guarded, TypeOK
<1>8. ASSUME NEW b \in Actors PROVE Fits(b, tx[b])'
  <2>1. CASE b = a
    BY <2>1, <1>4, DocumentsAssumption
    DEF Fits, NoTx, WritesInTime, InsertsNew, Backed, Chosen, LocksFitPc, DeletesSeen, Spares, Writing
  <2>2. CASE b # a
    <3>1. /\ tx[b] \in TxRows /\ Fits(b, tx[b]) /\ Apart(tx[a], tx[b]) /\ tx'[b] = tx[b]
      BY <2>2, <1>4, Known
    <3>2. WritesInTime(b, tx[b])' /\ LocksFitPc(tx[b])' /\ DeletesSeen(tx[b])'
      BY <3>1, <1>2 DEF Fits, WritesInTime, LocksFitPc, DeletesSeen, Writing
    <3>3. InsertsNew(tx[b])'
      BY <3>1, <1>2, <1>5 DEF Fits, InsertsNew, TxRows
    <3>4. Backed(tx[b])'
      BY <3>1, <1>2, <1>5 DEF Fits, Backed, Apart, TxRows
    <3>5. Chosen(tx[b])'
      BY <3>1, <1>2, <1>5 DEF Fits, Chosen, LocksFitPc
    <3>6. ASSUME b = Sweep PROVE tx'[b].pc \in {"idle", "rows"} /\ Spares(tx[b])'
      BY <3>1, <3>6, <1>5, <1>6 DEF Fits, Spares, TxRows
    <3> QED BY <3>1, <3>2, <3>3, <3>4, <3>5, <3>6 DEF Fits
  <2> QED BY <2>1, <2>2
<1>9. ASSUME NEW b \in Actors, NEW c \in Actors, b # c PROVE Apart(tx[b], tx[c])'
  <2>1. CASE b = a \/ c = a
    BY <2>1, <1>4, <1>9 DEF Apart, NoTx
  <2>2. CASE b # a /\ c # a
    <3>1. Apart(tx[b], tx[c]) /\ tx'[b] = tx[b] /\ tx'[c] = tx[c]
      BY <2>2, <1>4, <1>9 DEF Guarded
    <3> QED BY <3>1 DEF Apart
  <2> QED BY <2>1, <2>2
<1> QED BY <1>7, <1>8, <1>9 DEF Guarded

-----------------------------------------------------------------------------
(* The clock, and the theorems *)

LEMMA TickKeeps ==
    ASSUME Guarded, Tick
    PROVE  Guarded'
<1>1. /\ now \in 0 .. Horizon /\ now' = now + 1 /\ now < Horizon
      /\ expires' = expires /\ live' = live /\ row' = row /\ ids' = ids
      /\ uses' = uses /\ tx' = tx
  BY DEF Tick, Guarded, TypeOK
<1>2. now' \in 0 .. Horizon /\ now <= now'
  BY <1>1, DocumentsAssumption
<1>3. TypeOK'
  BY <1>1, <1>2 DEF Guarded, TypeOK
<1>4. ASSUME NEW a \in Actors PROVE Fits(a, tx[a])'
  <2>1. /\ tx[a] \in TxRows /\ Fits(a, tx[a])
        /\ \A b \in Actors : b # a => Apart(tx[a], tx[b]) /\ Apart(tx[b], tx[a])
    BY Known
  <2>2. ~Writing(tx[a])
    BY <2>1 DEF Fits, Tick, WritersAreQuick, Writing
  <2>3. DeletesSeen(tx[a])'
    <3> SUFFICES ASSUME tx[a].pc = "rows" PROVE tx[a].at <= now'
      BY <2>1, <1>1 DEF Fits, DeletesSeen
    <3>1. tx[a].at \in 0 .. Horizon /\ tx[a].at <= now
      BY <2>1 DEF Fits, DeletesSeen, TxRows
    <3> QED BY <3>1, <1>1, <1>2, DocumentsAssumption
  <2>4. Spares(tx[a]) => Spares(tx[a])'
    BY <1>1 DEF Spares
  <2>5. /\ WritesInTime(a, tx[a])' /\ InsertsNew(tx[a])' /\ Backed(tx[a])'
        /\ Chosen(tx[a])' /\ LocksFitPc(tx[a])'
    BY <2>1, <2>2, <1>1
    DEF Fits, WritesInTime, InsertsNew, Backed, Chosen, LocksFitPc, Writing
  <2> QED BY <2>1, <2>3, <2>4, <2>5, <1>1 DEF Fits
<1>5. \A a, b \in Actors : a # b => Apart(tx[a], tx[b])'
  BY <1>1 DEF Guarded, Apart
<1> QED BY <1>3, <1>4, <1>5 DEF Guarded

LEMMA InitGuarded == Init => Guarded
<1> SUFFICES ASSUME Init PROVE Guarded
  OBVIOUS
<1>1. \A a \in Actors : tx[a] = NoTx
  BY DEF Init
<1>2. TypeOK
  <2>1. NoTx \in TxRows
    BY DocumentsAssumption DEF NoTx, TxRows, Rows, NoRow
  <2>2. Leftover \in Rows /\ NoRow \in Rows
    BY DocumentsAssumption DEF Rows, Leftover, NoRow
  <2>3. row \in [Documents -> Rows]
    BY <2>2 DEF Init
  <2>4. ids \in [Documents -> 0 .. MaxIds]
    BY <2>3 DEF Init, Rows
  <2>5. tx \in [Actors -> TxRows]
    BY <2>1 DEF Init
  <2>6. now \in 0 .. Horizon /\ uses \in [Jobs -> SUBSET Documents]
    BY DocumentsAssumption DEF Init
  <2> QED BY <2>3, <2>4, <2>5, <2>6 DEF Init, TypeOK
<1>3. \A a \in Actors : Fits(a, tx[a])
  BY <1>1
  DEF Fits, NoTx, WritesInTime, InsertsNew, Backed, Chosen, LocksFitPc, DeletesSeen, Spares, Writing
<1>4. \A a, b \in Actors : a # b => Apart(tx[a], tx[b])
  BY <1>1 DEF Apart, NoTx
<1> QED BY <1>2, <1>3, <1>4 DEF Guarded

LEMMA StepKeeps ==
    ASSUME Guarded, NEW a \in Actors, Step(a) \/ Abort(a)
    PROVE  Guarded'
<1>1. CASE a \in Jobs /\ WriteStep(a)
  BY <1>1, SelectDocumentKeeps, InsertKeeps, ExtendKeeps, UseKeeps, CommitWriteKeeps
  DEF WriteStep
<1>2. CASE a \in Jobs /\ FindOrphans(a)
  BY <1>2, FindOrphansKeeps
<1>3. CASE DeleteStep(a)
  BY <1>3, DeleteRowKeeps, CommitDeleteKeeps DEF DeleteStep
<1>4. CASE Abort(a)
  BY <1>4, EndKeeps DEF Abort, Moves
<1> QED BY <1>1, <1>2, <1>3, <1>4 DEF Step, BreakDeadlock

LEMMA NextKeeps == Guarded /\ [Next]_vars => Guarded'
<1> SUFFICES ASSUME Guarded, [Next]_vars PROVE Guarded'
  OBVIOUS
<1>1. CASE \E j \in Jobs, D \in SUBSET Documents : BeginWrite(j, D)
  BY <1>1, BeginWriteKeeps
<1>2. CASE \E j \in Jobs : BeginDelete(j)
  BY <1>2, BeginDeleteKeeps
<1>3. CASE BeginSweep
  BY <1>3, BeginSweepKeeps
<1>4. CASE \E a \in Actors : Step(a) \/ Abort(a)
  BY <1>4, StepKeeps
<1>5. CASE Tick
  BY <1>5, TickKeeps
<1>6. CASE UNCHANGED vars
  BY <1>6
  DEF vars, Guarded, TypeOK, Fits, Apart, WritesInTime, InsertsNew, Backed, Chosen,
      LocksFitPc, DeletesSeen, Spares, Writing
<1> QED BY <1>1, <1>2, <1>3, <1>4, <1>5, <1>6 DEF Next

LEMMA AlwaysGuarded == Spec => []Guarded
<1> QED BY InitGuarded, NextKeeps, PTL DEF Spec

\* The typing of the documents, their uses and the transactions on them.
THEOREM DocumentsTyped == Spec => []TypeOK
<1>1. Guarded => TypeOK
  BY DEF Guarded
<1> QED BY <1>1, AlwaysGuarded, PTL

\* What the sweep has locked for deletion no committed run uses, whoever wrote
\* while it waited: its commit takes evidence from nobody
\* (remove_expired_orphan_source_documents).
THEOREM SweepIsHarmless == Spec => SweepSparesEvidence
<1>1. ASSUME Guarded, CommitDelete(Sweep) PROVE uses' = uses
  <2>1. Fits(Sweep, tx[Sweep]) /\ tx[Sweep].pc = "rows"
    BY <1>1, Known DEF CommitDelete
  <2>2. \A j \in Jobs : uses[j] \ tx[Sweep].deleted = uses[j]
    BY <2>1 DEF Fits, Spares
  <2>3. uses' = [j \in Jobs |-> uses[j]]
    BY <1>1, <2>2, DocumentsAssumption DEF CommitDelete
  <2> QED BY <1>1, <2>3 DEF Guarded, TypeOK
<1>2. Guarded /\ [Next]_vars => [CommitDelete(Sweep) => uses' = uses]_vars
  BY <1>1
<1> QED BY <1>2, AlwaysGuarded, PTL DEF Spec, SweepSparesEvidence

================================================================================
