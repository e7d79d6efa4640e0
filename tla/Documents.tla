------------------------------ MODULE Documents ------------------------------
(***************************************************************************)
(* The source documents that jobs share (source_document), the uses that   *)
(* tie them to the runs of a job (provider_run_source_use), and the three  *)
(* kinds of transaction that touch both:                                   *)
(*                                                                         *)
(*   - a writer of job j selects a document by its URL and content hash,   *)
(*     inserts it or extends its expiry, and inserts a use                 *)
(*     (_persist_search_result, _upsert_check_observation,                 *)
(*     process_provider_run);                                              *)
(*   - a deletion of job j removes its uses and then the documents that    *)
(*     no run uses (delete_locked_job), on the owner's request or because  *)
(*     the job expired (remove_expired_search_jobs, which looks at         *)
(*     discovery jobs only: a Fast Brief job goes when its owner says so); *)
(*   - the sweep removes expired documents that no run uses                *)
(*     (remove_expired_orphan_source_documents).                           *)
(*                                                                         *)
(* Each transaction locks its job first, so a job has one at a time; the   *)
(* transactions of different jobs and the sweep interleave statement by    *)
(* statement.  The database is PostgreSQL at READ COMMITTED:               *)
(*                                                                         *)
(*   - a statement sees what was committed when it began;                  *)
(*   - a use keeps its document from being deleted until its transaction   *)
(*     ends, an extension or a deletion keeps all others from changing the *)
(*     document, an insertion makes others with the same key wait;         *)
(*   - DELETE rechecks the columns of a row it waited for, but not what    *)
(*     its subquery saw, and deletes the uses of the row with it           *)
(*     (ON DELETE CASCADE).                                                *)
(*                                                                         *)
(* The evidence of a job is the set of documents its runs use; an          *)
(* observation lives and dies with its use.                                *)
(***************************************************************************)
EXTENDS Naturals, FiniteSets

CONSTANTS
    Jobs,        \* the jobs
    Briefs,      \* those of the Fast Brief flow; the others are discovery jobs
    Documents,   \* the keys of documents: URL and content hash
    Leftovers,   \* the documents earlier jobs have left
    Sweep,       \* the retention sweep
    NoDocument,  \* the document of a transaction that works on none
    MaxIds,      \* bound: how often a document is created
    Horizon      \* bound: the clock stops here, when every job has expired

ASSUME DocumentsAssumption ==
    /\ Sweep \notin Jobs
    /\ Briefs \subseteq Jobs
    /\ NoDocument \notin Documents
    /\ Leftovers \subseteq Documents
    /\ MaxIds \in Nat \ {0}
    /\ Horizon \in Nat \ {0}

VARIABLES
    now,       \* the clock
    expires,   \* the expires_at of each job
    live,      \* the jobs that are not deleted
    row,       \* the committed document of each key; id 0 when there is none
    ids,       \* the ids given out for each key
    uses,      \* the committed uses of each job
    tx         \* the transaction of each job, and of the sweep

vars == <<now, expires, live, row, ids, uses, tx>>

Actors == Jobs \cup {Sweep}

Rows == [id : 0 .. MaxIds, expires : 0 .. Horizon]

NoRow == [id |-> 0, expires |-> 0]

NoTx == [pc |-> "idle", todo |-> {}, doc |-> NoDocument, seen |-> NoRow,
         inserted |-> {}, extended |-> {}, used |-> {}, deleted |-> {},
         snapshot |-> [d \in Documents |-> NoRow], at |-> 0]

TxRows == [pc : {"idle", "write", "insert", "extend", "use", "erase", "rows"},
           todo : SUBSET Documents, doc : Documents \cup {NoDocument}, seen : Rows,
           inserted : SUBSET Documents, extended : SUBSET Documents,
           used : SUBSET Documents, deleted : SUBSET Documents,
           snapshot : [Documents -> Rows], at : 0 .. Horizon]

TypeOK ==
    /\ now \in 0 .. Horizon
    /\ expires \in [Jobs -> 1 .. Horizon]
    /\ live \in SUBSET Jobs
    /\ row \in [Documents -> Rows]
    /\ ids \in [Documents -> 0 .. MaxIds]
    /\ uses \in [Jobs -> SUBSET Documents]
    /\ tx \in [Actors -> TxRows]

\* A document that earlier jobs shared; each left it to the other's deletion.
Leftover == [id |-> 1, expires |-> 1]

Init ==
    /\ now = 0
    /\ expires \in [Jobs -> 1 .. Horizon]
    /\ live = Jobs
    /\ row = [d \in Documents |-> IF d \in Leftovers THEN Leftover ELSE NoRow]
    /\ ids = [d \in Documents |-> row[d].id]
    /\ uses = [j \in Jobs |-> {}]
    /\ tx = [a \in Actors |-> NoTx]

-----------------------------------------------------------------------------
(* Locks *)

Others(a) == Actors \ {a}

\* Who keeps a from inserting d: an insertion or a deletion of the same key.
InsertOwners(a, d) == {b \in Others(a) : d \in tx[b].inserted \cup tx[b].deleted}

\* Who keeps a from using d: its deletion.
UseOwners(a, d) == {b \in Others(a) : d \in tx[b].deleted}

\* Who keeps a from extending d.
ExtendOwners(a, d) == {b \in Others(a) : d \in tx[b].extended \cup tx[b].deleted}

\* Who keeps a from deleting d: any lock on the row.
DeleteOwners(a, d) ==
    {b \in Others(a) : d \in tx[b].extended \cup tx[b].deleted \cup (tx[b].used \ tx[b].inserted)}

WaitsFor(a) ==
    LET t == tx[a] IN
    CASE t.pc = "insert" -> InsertOwners(a, t.doc)
      [] t.pc = "extend" -> ExtendOwners(a, t.doc)
      [] t.pc = "use"    -> UseOwners(a, t.doc)
      [] t.pc = "rows"   -> UNION {DeleteOwners(a, d) : d \in t.todo}
      [] OTHER           -> {}

Deadlocked(S) == S # {} /\ \A a \in S : WaitsFor(a) \cap S # {}

Set(a, t) == tx' = [tx EXCEPT ![a] = t]

Present(d) == row[d].id # 0

-----------------------------------------------------------------------------
(* Writers *)

\* The results of a job name some documents; the job has not expired when its
\* worker or its finalization begins.
BeginWrite(j, D) ==
    /\ tx[j].pc = "idle" /\ j \in live /\ now < expires[j]
    /\ D # {}
    /\ Set(j, [NoTx EXCEPT !.pc = "write", !.todo = D])
    /\ UNCHANGED <<now, expires, live, row, ids, uses>>

\* SELECT: the document is there or has to be inserted; one that expires
\* before the job is extended.
SelectDocument(j, d) ==
    LET t == tx[j] IN
    /\ t.pc = "write" /\ d \in t.todo
    /\ Set(j, [t EXCEPT !.pc = IF ~Present(d) THEN "insert"
                               ELSE IF row[d].expires < expires[j] THEN "extend" ELSE "use",
                        !.doc = d, !.seen = row[d]])
    /\ UNCHANGED <<now, expires, live, row, ids, uses>>

\* INSERT: another one may have inserted the key since; the constraint then
\* fails the transaction.  At the bound every insertion fails.
Insert(j) ==
    LET t == tx[j] IN
    /\ t.pc = "insert" /\ InsertOwners(j, t.doc) = {}
    /\ \/ /\ Present(t.doc)
          /\ Set(j, NoTx)
       \/ /\ ~Present(t.doc)
          /\ Set(j, IF ids[t.doc] < MaxIds
                    THEN [t EXCEPT !.pc = "use", !.inserted = @ \cup {t.doc}]
                    ELSE NoTx)
    /\ UNCHANGED <<now, expires, live, row, ids, uses>>

\* Mutant: the expiry is left to a later sweep.
ExtendNothing(j) ==
    LET t == tx[j] IN
    /\ t.pc = "extend"
    /\ Set(j, [t EXCEPT !.pc = "use"])
    /\ UNCHANGED <<now, expires, live, row, ids, uses>>

\* UPDATE: a document that is gone leaves nothing to update, and the session
\* raises StaleDataError.
Extend(j) ==
    LET t == tx[j] IN
    /\ t.pc = "extend" /\ ExtendOwners(j, t.doc) = {}
    /\ Set(j, IF row[t.doc].id = t.seen.id
              THEN [t EXCEPT !.pc = "use", !.extended = @ \cup {t.doc}]
              ELSE NoTx)
    /\ UNCHANGED <<now, expires, live, row, ids, uses>>

\* INSERT of the use: the foreign key needs the document that was selected.
Use(j) ==
    LET t == tx[j]
        d == t.doc
    IN
    /\ t.pc = "use" /\ UseOwners(j, d) = {}
    /\ Set(j, IF d \in t.inserted \/ row[d].id = t.seen.id
              THEN [t EXCEPT !.pc = "write", !.todo = @ \ {d}, !.used = @ \cup {d}]
              ELSE NoTx)
    /\ UNCHANGED <<now, expires, live, row, ids, uses>>

\* Mutant: a document lives as long after its last use as a job.
CommitWriteAnew(j) ==
    LET t == tx[j] IN
    /\ t.pc = "write" /\ t.todo = {}
    /\ row' = [d \in Documents |->
                 CASE d \in t.inserted -> [id |-> ids[d] + 1, expires |-> now + Horizon]
                   [] d \in t.extended -> [row[d] EXCEPT !.expires = now + Horizon]
                   [] OTHER            -> row[d]]
    /\ ids' = [d \in Documents |-> IF d \in t.inserted THEN ids[d] + 1 ELSE ids[d]]
    /\ uses' = [uses EXCEPT ![j] = @ \cup t.used]
    /\ Set(j, NoTx)
    /\ UNCHANGED <<now, expires, live>>

\* The commit of a writer.
CommitWrite(j) ==
    LET t == tx[j] IN
    /\ t.pc = "write" /\ t.todo = {}
    /\ row' = [d \in Documents |->
                 CASE d \in t.inserted -> [id |-> ids[d] + 1, expires |-> expires[j]]
                   [] d \in t.extended -> [row[d] EXCEPT !.expires = expires[j]]
                   [] OTHER            -> row[d]]
    /\ ids' = [d \in Documents |-> IF d \in t.inserted THEN ids[d] + 1 ELSE ids[d]]
    /\ uses' = [uses EXCEPT ![j] = @ \cup t.used]
    /\ Set(j, NoTx)
    /\ UNCHANGED <<now, expires, live>>

-----------------------------------------------------------------------------
(* Deletion *)

\* The uses of the job are deleted; they count for others until the commit.
BeginDelete(j) ==
    /\ tx[j].pc = "idle" /\ j \in live
    /\ Set(j, [NoTx EXCEPT !.pc = "erase", !.todo = uses[j]])
    /\ UNCHANGED <<now, expires, live, row, ids, uses>>

\* A use that other transactions see, except those a deletes itself.
Referenced(a, d) == \E j \in Jobs \ {a} : d \in uses[j]

\* The snapshot of the DELETE: the documents of the job that nobody uses.
FindOrphans(j) ==
    LET t == tx[j] IN
    /\ t.pc = "erase"
    /\ Set(j, [t EXCEPT !.pc = "rows", !.snapshot = row, !.at = now,
                        !.todo = {d \in t.todo : Present(d) /\ ~Referenced(j, d)}])
    /\ UNCHANGED <<now, expires, live, row, ids, uses>>

\* Mutant: a document that expires now is left alone.
BeginSweepLater ==
    /\ tx[Sweep].pc = "idle"
    /\ LET found == {d \in Documents : /\ Present(d) /\ row[d].expires < now
                                       /\ ~Referenced(Sweep, d)}
       IN
       /\ found # {}
       /\ Set(Sweep, [NoTx EXCEPT !.pc = "rows", !.todo = found, !.snapshot = row, !.at = now])
    /\ UNCHANGED <<now, expires, live, row, ids, uses>>

\* The sweep looks at every document.
BeginSweep ==
    /\ tx[Sweep].pc = "idle"
    /\ LET found == {d \in Documents : /\ Present(d) /\ row[d].expires <= now
                                       /\ ~Referenced(Sweep, d)}
       IN
       /\ found # {}
       /\ Set(Sweep, [NoTx EXCEPT !.pc = "rows", !.todo = found, !.snapshot = row, !.at = now])
    /\ UNCHANGED <<now, expires, live, row, ids, uses>>

\* DELETE of one row once nobody holds it.  It is skipped when it is gone, and
\* by the sweep when its expiry was extended meanwhile.
DeleteRow(a, d) ==
    LET t == tx[a] IN
    /\ t.pc = "rows" /\ d \in t.todo /\ DeleteOwners(a, d) = {}
    /\ Set(a, [t EXCEPT !.todo = @ \ {d},
                        !.deleted = IF /\ row[d].id = t.snapshot[d].id
                                       /\ a = Sweep => row[d].expires <= t.at
                                    THEN @ \cup {d} ELSE @])
    /\ UNCHANGED <<now, expires, live, row, ids, uses>>

\* The commit of a deletion or of the sweep; the uses of a deleted document
\* went with it.
CommitDelete(a) ==
    LET t == tx[a] IN
    /\ t.pc = "rows" /\ t.todo = {}
    /\ row' = [d \in Documents |-> IF d \in t.deleted THEN NoRow ELSE row[d]]
    /\ uses' = [j \in Jobs |-> IF j = a THEN {} ELSE uses[j] \ t.deleted]
    /\ live' = live \ {a}
    /\ Set(a, NoTx)
    /\ UNCHANGED <<now, expires, ids>>

-----------------------------------------------------------------------------
(* The database, crashes and the clock *)

\* A transaction ends without effect: its process dies or a statement fails.
Abort(a) ==
    /\ tx[a].pc # "idle"
    /\ Set(a, NoTx)
    /\ UNCHANGED <<now, expires, live, row, ids, uses>>

BreakDeadlock(a) ==
    /\ \E S \in SUBSET Actors : a \in S /\ Deadlocked(S)
    /\ Abort(a)

\* A tick is long against a write, which takes seconds where retention takes
\* days; the sweep and a deletion, which wait for others, may see time pass.
WritersAreQuick == \A j \in Jobs : tx[j].pc \in {"idle", "erase", "rows"}

Tick ==
    /\ now < Horizon /\ WritersAreQuick
    /\ now' = now + 1
    /\ UNCHANGED <<expires, live, row, ids, uses, tx>>

WriteStep(j) ==
    \/ \E d \in Documents : SelectDocument(j, d)
    \/ Insert(j) \/ Extend(j) \/ Use(j) \/ CommitWrite(j)

DeleteStep(a) ==
    \/ \E d \in Documents : DeleteRow(a, d)
    \/ CommitDelete(a)

Step(a) ==
    \/ a \in Jobs /\ (WriteStep(a) \/ FindOrphans(a))
    \/ DeleteStep(a)
    \/ BreakDeadlock(a)

Next ==
    \/ \E j \in Jobs, D \in SUBSET Documents : BeginWrite(j, D)
    \/ \E j \in Jobs : BeginDelete(j)
    \/ BeginSweep
    \/ \E a \in Actors : Step(a) \/ Abort(a)
    \/ Tick

Spec == Init /\ [][Next]_vars

\* Retention deletes an expired discovery job that is not locked.
RetireExpired(j) == j \notin Briefs /\ expires[j] <= now /\ BeginDelete(j)

\* Transactions go on, a deadlock is broken, and from some time on none fails
\* for another reason and none writes, as a job has finitely many runs; the
\* hourly pass comes back to expired jobs and documents.
FairSpec ==
    /\ Spec
    /\ WF_vars(Tick)
    /\ \A a \in Actors : WF_vars(Step(a))
    /\ \A j \in Jobs : WF_vars(RetireExpired(j))
    /\ WF_vars(BeginSweep)
    /\ <>[][/\ \A a \in Actors : Abort(a) => Step(a)
            /\ \A j \in Jobs, D \in SUBSET Documents : ~BeginWrite(j, D)]_vars

-----------------------------------------------------------------------------
(* Properties *)

\* The sweep takes no evidence from any job: whoever uses an expired document
\* extends it first, and the row it waited for is looked at again
\* (remove_expired_orphan_source_documents against the upserts).
SweepSparesEvidence == [][CommitDelete(Sweep) => uses' = uses]_vars

\* Retention: when every job has expired, no discovery job is left and no
\* document but those a Fast Brief job still uses, although two deletions at
\* once both leave the document they share.  (remove_expired_search_jobs never
\* looks at a Fast Brief job, whose owner need not delete it.)
EventuallyErased ==
    <>[](live \subseteq Briefs /\ \A d \in Documents : Present(d) => \E j \in live : d \in uses[j])

================================================================================
