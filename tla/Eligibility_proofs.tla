--------------------------- MODULE Eligibility_proofs ---------------------------
(***************************************************************************)
(* For every number of verifications, requests and attempts, and every     *)
(* length of a lifetime: a suppression ends what it finds for good, and a  *)
(* challenge lives no longer than its verification waits for it.  What     *)
(* makes this hard is that a request writes through a copy it read before  *)
(* it waited for the lock; the invariant says what a copy may still be     *)
(* wrong about.                                                            *)
(***************************************************************************)
EXTENDS Eligibility, TLAPS

\* A column of an update has the type of the table.
Fits(set) ==
    /\ "state" \in DOMAIN set => set["state"] \in States \ {"absent"}
    /\ "token" \in DOMAIN set => set["token"] = FALSE
    /\ "attempts" \in DOMAIN set => set["attempts"] \in Nat
    /\ "last" \in DOMAIN set => set["last"] \in Nat
    /\ "review" \in DOMAIN set => set["review"] \in Nat
    /\ "expires" \in DOMAIN set => set["expires"] \in Nat
    /\ "subject" \in DOMAIN set => set["subject"] \in BOOLEAN
    /\ "verified" \in DOMAIN set => set["verified"] \in BOOLEAN
    /\ "revoked" \in DOMAIN set => set["revoked"] \in Nat

\* After a suppression every verification is revoked.
Closed == suppressed => \A id \in Ids : row[id] = Absent \/ row[id].revoked # 0

TokensPending == \A id \in Ids : row[id].token => row[id].state = "verification_pending"

AbsentIsEmpty == \A id \in Ids : row[id].state = "absent" => row[id] = Absent

\* A copy is of a row that exists, and a challenge it does not see is gone.
Copied == {"checking", "answering", "deciding"}

CopySound(r) ==
    r.pc \in Copied =>
        /\ r.id \in Ids /\ r.copy \in Verifications
        /\ row[r.id].state # "absent"
        /\ r.copy.token => r.copy.state = "verification_pending"
        /\ ~r.copy.token => ~row[r.id].token

Started(r) == r.pc = "fetching" => r.id \in Ids /\ row[r.id].state # "absent"

IInv ==
    /\ TypeOK
    /\ now >= 1
    /\ Closed
    /\ TokensPending
    /\ AbsentIsEmpty
    /\ \A q \in Requests : CopySound(request[q]) /\ Started(request[q])

-----------------------------------------------------------------------------

LEMMA RequestTypes ==
    ASSUME NEW r \in RequestStates
    PROVE  /\ r.pc \in {"idle", "checking", "fetching", "answering", "deciding"}
           /\ r.pc = "checking" => r.id \in Ids /\ r.copy \in Verifications
           /\ r.pc = "fetching" => r.id \in Ids /\ r.gen \in Nat
           /\ r.pc = "answering" => r.id \in Ids /\ r.copy \in Verifications /\ r.gen \in Nat
           /\ r.pc = "deciding" => r.id \in Ids /\ r.copy \in Verifications
BY DEF RequestStates, Idle

LEMMA AbsentType == Absent \in Verifications /\ Absent.state = "absent" /\ ~Absent.token
BY DEF Absent, Verifications, States

\* What an update leaves of a row.
LEMMA UpdateIsTyped ==
    ASSUME NEW r \in Verifications, NEW copy, NEW set, Fits(set),
           NEW n, n = [c \in DOMAIN r |-> IF Written(copy, set, c) THEN set[c] ELSE r[c]]
    PROVE  /\ n \in Verifications
           /\ r.state # "absent" => n.state # "absent"
           /\ n.token => r.token
           /\ "revoked" \in DOMAIN set /\ set["revoked"] # 0 => n.revoked = set["revoked"]
           /\ "revoked" \notin DOMAIN set => n.revoked = r.revoked
           /\ "token" \in DOMAIN set => ~n.token \/ ~copy["token"]
           /\ "token" \notin DOMAIN set => n.token = r.token
           /\ "state" \notin DOMAIN set => n.state = r.state
<1>1. DOMAIN r = {"state", "token", "attempts", "last", "review", "expires", "subject",
                  "verified", "revoked"}
  BY DEF Verifications
<1>2. /\ n["state"] \in States /\ n["token"] \in BOOLEAN /\ n["attempts"] \in Nat
      /\ n["last"] \in Nat /\ n["review"] \in Nat /\ n["expires"] \in Nat
      /\ n["subject"] \in BOOLEAN /\ n["verified"] \in BOOLEAN /\ n["revoked"] \in Nat
  BY <1>1 DEF Verifications, Fits, Written
<1>3. n \in Verifications
  BY <1>1, <1>2 DEF Verifications
<1>4. /\ r.state # "absent" => n.state # "absent"
      /\ n.token => r.token
      /\ "token" \notin DOMAIN set => n.token = r.token
      /\ "state" \notin DOMAIN set => n.state = r.state
  BY <1>1 DEF Fits, Written
<1>5. /\ "revoked" \in DOMAIN set /\ set["revoked"] # 0 => n.revoked = set["revoked"]
      /\ "revoked" \notin DOMAIN set => n.revoked = r.revoked
  BY <1>1 DEF Written
<1>6. "token" \in DOMAIN set => ~n.token \/ ~copy["token"]
  BY <1>1 DEF Fits, Written
<1>. QED
  BY <1>3, <1>4, <1>5, <1>6

LEMMA InitSound == Init => IInv
<1>. SUFFICES ASSUME Init PROVE IInv
  OBVIOUS
<1>1. now = 1 /\ suppressed = FALSE /\ row = [id \in Ids |-> Absent]
      /\ request = [q \in Requests |-> Idle]
  BY DEF Init
<1>2. Idle \in RequestStates /\ Idle.pc = "idle"
  BY DEF RequestStates, Idle
<1>3. TypeOK
  BY <1>1, <1>2, AbsentType DEF TypeOK
<1>4. Closed /\ TokensPending /\ AbsentIsEmpty
  BY <1>1, AbsentType DEF Closed, TokensPending, AbsentIsEmpty
<1>5. \A q \in Requests : CopySound(request[q]) /\ Started(request[q])
  BY <1>1, <1>2 DEF CopySound, Started, Copied
<1>. QED
  BY <1>1, <1>3, <1>4, <1>5 DEF IInv

\* A request that writes through its copy and goes on or ends.
LEMMA WriteSound ==
    ASSUME IInv, NEW q \in Requests, request[q].pc \in Copied, NEW set, Fits(set),
           Update(request[q].id, request[q].copy, set), UNCHANGED <<now, suppressed>>,
           suppressed => "revoked" \in DOMAIN set /\ set["revoked"] # 0,
           "state" \in DOMAIN set => "token" \in DOMAIN set \/ ~request[q].copy.token,
           NEW next, Goto(q, next),
           next = Idle \/ \E g \in Nat : next = [pc |-> "fetching", id |-> request[q].id, gen |-> g]
    PROVE  IInv'
<1>. DEFINE id == request[q].id
            copy == request[q].copy
            n == [c \in DOMAIN row[id] |-> IF Written(copy, set, c) THEN set[c] ELSE row[id][c]]
<1>1. /\ id \in Ids /\ copy \in Verifications /\ row[id].state # "absent"
      /\ ~copy.token => ~row[id].token
      /\ row \in [Ids -> Verifications] /\ request \in [Requests -> RequestStates]
      /\ row[id] \in Verifications
  BY DEF IInv, CopySound, TypeOK
<1>2. row' = [row EXCEPT ![id] = n]
  BY DEF Update
<1>3. /\ n \in Verifications /\ n.state # "absent" /\ (n.token => row[id].token)
      /\ "revoked" \in DOMAIN set /\ set["revoked"] # 0 => n.revoked = set["revoked"]
      /\ "token" \in DOMAIN set => ~n.token \/ ~copy.token
      /\ "state" \notin DOMAIN set => n.state = row[id].state
  <2>1. copy["token"] = copy.token
    OBVIOUS
  <2>. HIDE DEF id, copy
  <2>. QED
    BY <1>1, <2>1, UpdateIsTyped
<1>. HIDE DEF n
<1>4. /\ row' \in [Ids -> Verifications] /\ row'[id] = n
      /\ \A i \in Ids \ {id} : row'[i] = row[i]
  BY <1>1, <1>2, <1>3
<1>5. next \in RequestStates
  BY <1>1 DEF RequestStates, Idle
<1>6. /\ request' \in [Requests -> RequestStates] /\ request'[q] = next
      /\ \A p \in Requests \ {q} : request'[p] = request[p]
  BY <1>1, <1>5 DEF Goto
<1>7. TypeOK' /\ now' >= 1
  BY <1>4, <1>6 DEF IInv, TypeOK
<1>8. Closed'
  BY <1>3, <1>4 DEF IInv, Closed
<1>9. TokensPending'
  <2>1. n.token => n.state = "verification_pending"
    BY <1>1, <1>3 DEF IInv, TokensPending
  <2>. QED
    BY <1>4, <2>1 DEF IInv, TokensPending
<1>10. AbsentIsEmpty'
  BY <1>3, <1>4 DEF IInv, AbsentIsEmpty
<1>11. \A i \in Ids : (row[i].state # "absent" => row'[i].state # "absent")
                      /\ (row'[i].token => row[i].token)
  BY <1>3, <1>4
<1>12. CopySound(next)' /\ Started(next)'
  <2>1. CASE next = Idle
    BY <2>1 DEF CopySound, Started, Copied, Idle
  <2>2. CASE \E g \in Nat : next = [pc |-> "fetching", id |-> request[q].id, gen |-> g]
    <3>1. next.pc = "fetching" /\ next.id = id
      BY <2>2
    <3>. QED
      BY <1>1, <1>11, <3>1 DEF CopySound, Started, Copied
  <2>. QED
    BY <2>1, <2>2
<1>13. \A p \in Requests : CopySound(request[p])' /\ Started(request[p])'
  <2>. SUFFICES ASSUME NEW p \in Requests PROVE CopySound(request[p])' /\ Started(request[p])'
    OBVIOUS
  <2>1. CASE p = q
    BY <1>6, <1>12, <2>1 DEF CopySound, Started
  <2>2. CASE p # q
    BY <1>6, <1>11, <2>2 DEF IInv, CopySound, Started
  <2>. QED
    BY <2>1, <2>2
<1>. QED
  BY <1>7, <1>8, <1>9, <1>13, <1>10 DEF IInv

\* A request that only moves on: it has read a copy of a row, or it ends.
LEMMA MoveSound ==
    ASSUME IInv, NEW q \in Requests, UNCHANGED <<now, row, suppressed>>,
           NEW next \in RequestStates, Goto(q, next),
           next.pc \in Copied => row[next.id].state # "absent" /\ next.copy = row[next.id],
           next.pc # "fetching"
    PROVE  IInv'
<1>1. request \in [Requests -> RequestStates] /\ row \in [Ids -> Verifications]
  BY DEF IInv, TypeOK
<1>2. /\ request' \in [Requests -> RequestStates] /\ request'[q] = next
      /\ \A p \in Requests \ {q} : request'[p] = request[p]
  BY <1>1 DEF Goto
<1>3. TypeOK' /\ Closed' /\ TokensPending' /\ AbsentIsEmpty' /\ now' >= 1
  BY <1>2 DEF IInv, TypeOK, Closed, TokensPending, AbsentIsEmpty
<1>4. CopySound(next)' /\ Started(next)'
  BY <1>1, RequestTypes DEF IInv, CopySound, Started, Copied, TokensPending
<1>5. \A p \in Requests : CopySound(request[p])' /\ Started(request[p])'
  <2>. SUFFICES ASSUME NEW p \in Requests PROVE CopySound(request[p])' /\ Started(request[p])'
    OBVIOUS
  <2>1. CASE p = q
    BY <1>2, <1>4, <2>1 DEF CopySound, Started
  <2>2. CASE p # q
    BY <1>2, <2>2 DEF IInv, CopySound, Started
  <2>. QED
    BY <2>1, <2>2
<1>. QED
  BY <1>3, <1>5 DEF IInv

\* A change of the rows by one who holds the lock from the first read on.
LEMMA RowsSound ==
    ASSUME IInv, now' = now, request' = request, suppressed' \in BOOLEAN,
           row' \in [Ids -> Verifications], Closed', TokensPending', AbsentIsEmpty',
           \A i \in Ids : row[i].state # "absent" =>
              row'[i].state # "absent" /\ (row'[i].token => row[i].token)
    PROVE  IInv'
<1>1. TypeOK' /\ now' >= 1
  BY DEF IInv, TypeOK
<1>2. \A q \in Requests : CopySound(request[q])' /\ Started(request[q])'
  BY DEF IInv, CopySound, Started
<1>. QED
  BY <1>1, <1>2 DEF IInv

-----------------------------------------------------------------------------
(* The actions. *)

LEMMA CreateSound ==
    ASSUME IInv, NEW id \in Ids, Create(id)
    PROVE  IInv'
<1>1. row \in [Ids -> Verifications] /\ now \in Nat /\ row[id] = Absent /\ ~suppressed
  BY DEF IInv, TypeOK, Create
<1>2. /\ NewVerification \in Verifications
      /\ NewVerification.state = "verification_pending"
  <2>1. now + ChallengeTtl \in Nat
    BY <1>1, EligibilityAssumption
  <2>2. "verification_pending" \in States
    BY DEF States, PendingStates
  <2>. QED
    BY <2>1, <2>2, AbsentType DEF NewVerification, Verifications
<1>3. UNCHANGED <<now, suppressed, request>>
  BY DEF Create
<1>4. \A i \in Ids :
         /\ row'[i] \in Verifications
         /\ row'[i].token => row'[i].state = "verification_pending"
         /\ row[i].state # "absent" => row'[i].state # "absent" /\ (row'[i].token => row[i].token)
         /\ row'[i].state = "absent" => row'[i] = Absent
  <2>. SUFFICES ASSUME NEW i \in Ids
                PROVE  /\ row'[i] \in Verifications
                       /\ row'[i].token => row'[i].state = "verification_pending"
                       /\ row[i].state # "absent" =>
                            row'[i].state # "absent" /\ (row'[i].token => row[i].token)
                       /\ row'[i].state = "absent" => row'[i] = Absent
    OBVIOUS
  <2>1. CASE i = id
    BY <1>1, <1>2, <2>1, AbsentType DEF Create
  <2>2. CASE i # id /\ SupersededByNewOne(row[i])
    <3>1. row'[i] = [row[i] EXCEPT !.state = "superseded", !.revoked = now, !.token = FALSE]
      BY <2>2 DEF Create
    <3>2. "superseded" \in States /\ row[i] \in Verifications
      BY <1>1 DEF States, OverStates
    <3>3. row'[i] \in Verifications
      BY <1>1, <3>1, <3>2 DEF Verifications
    <3>4. row'[i].state = "superseded" /\ row'[i].revoked = now /\ ~row'[i].token
      BY <3>1, <3>2 DEF Verifications
    <3>. QED
      BY <1>1, <3>3, <3>4
  <2>3. CASE i # id /\ ~SupersededByNewOne(row[i])
    <3>1. row'[i] = row[i]
      BY <2>3 DEF Create
    <3>. QED
      BY <1>1, <3>1 DEF IInv, TokensPending, AbsentIsEmpty
  <2>. QED
    BY <2>1, <2>2, <2>3
<1>5. row' \in [Ids -> Verifications]
  BY <1>4 DEF Create
<1>6. Closed' /\ TokensPending' /\ AbsentIsEmpty'
  BY <1>1, <1>3, <1>4 DEF Closed, TokensPending, AbsentIsEmpty
<1>. QED
  BY <1>1, <1>3, <1>4, <1>5, <1>6, RowsSound DEF IInv, TypeOK

LEMMA SuppressSound ==
    ASSUME IInv, Suppress
    PROVE  IInv'
<1>1. row \in [Ids -> Verifications] /\ now \in Nat /\ now # 0
  BY DEF IInv, TypeOK
<1>2. suppressed' = TRUE /\ UNCHANGED <<now, request>>
  BY DEF Suppress
<1>3. \A i \in Ids :
         /\ row'[i] \in Verifications
         /\ row'[i] = Absent \/ row'[i].revoked # 0
         /\ row'[i].token => row'[i].state = "verification_pending"
         /\ row[i].state # "absent" => row'[i].state # "absent" /\ (row'[i].token => row[i].token)
         /\ row'[i].state = "absent" => row'[i] = Absent
  <2>. SUFFICES ASSUME NEW i \in Ids
                PROVE  /\ row'[i] \in Verifications
                       /\ row'[i] = Absent \/ row'[i].revoked # 0
                       /\ row'[i].token => row'[i].state = "verification_pending"
                       /\ row[i].state # "absent" =>
                            row'[i].state # "absent" /\ (row'[i].token => row[i].token)
                       /\ row'[i].state = "absent" => row'[i] = Absent
    OBVIOUS
  <2>1. CASE row[i] # Absent /\ row[i].revoked = 0
    <3>1. row'[i] = [row[i] EXCEPT !.state = "suppressed", !.revoked = now, !.token = FALSE]
      BY <2>1 DEF Suppress
    <3>2. "suppressed" \in States /\ row[i] \in Verifications
      BY <1>1 DEF States, OverStates
    <3>3. row'[i] \in Verifications
      BY <1>1, <3>1, <3>2 DEF Verifications
    <3>4. row'[i].state = "suppressed" /\ row'[i].revoked = now /\ ~row'[i].token
      BY <3>1, <3>2 DEF Verifications
    <3>. QED
      BY <1>1, <3>3, <3>4
  <2>2. CASE ~(row[i] # Absent /\ row[i].revoked = 0)
    <3>1. row'[i] = row[i]
      BY <2>2 DEF Suppress
    <3>. QED
      BY <1>1, <2>2, <3>1 DEF IInv, TokensPending, AbsentIsEmpty
  <2>. QED
    BY <2>1, <2>2
<1>4. row' \in [Ids -> Verifications]
  BY <1>3 DEF Suppress
<1>5. Closed' /\ TokensPending' /\ AbsentIsEmpty'
  BY <1>3 DEF Closed, TokensPending, AbsentIsEmpty
<1>. QED
  BY <1>2, <1>3, <1>4, <1>5, RowsSound

LEMMA TickSound ==
    ASSUME IInv, Tick
    PROVE  IInv'
BY DEF IInv, Tick, TypeOK, Closed, TokensPending, AbsentIsEmpty, CopySound, Started

\* The ways a verification ends.
LEMMA EndFits ==
    ASSUME now \in Nat, now >= 1, NEW state \in OverStates
    PROVE  /\ Fits(End(state)) /\ "token" \in DOMAIN End(state)
           /\ "revoked" \in DOMAIN End(state) /\ End(state)["revoked"] # 0
BY DEF Fits, End, States, OverStates

LEMMA PreviewSound ==
    ASSUME IInv, NEW q \in Requests, NEW id \in Ids,
           \/ PreviewCheck(q, id)
           \/ \E decision \in {"approve", "deny"} : PreviewDecision(q, id, decision)
    PROVE  IInv'
<1>1. row[id] \in Verifications
  BY DEF IInv, TypeOK
<1>2. row[id].state # "absent" /\ UNCHANGED <<now, row, suppressed>>
  BY DEF IInv, AbsentIsEmpty, PreviewCheck, PreviewDecision
<1>3. PICK next \in RequestStates :
         /\ Goto(q, next) /\ next.pc \in {"checking", "deciding"}
         /\ next.id = id /\ next.copy = row[id]
  BY <1>1 DEF PreviewCheck, PreviewDecision, RequestStates
<1>. QED
  BY <1>2, <1>3, MoveSound DEF Copied

LEMMA PreviewAnswerSound ==
    ASSUME IInv, NEW q \in Requests, NEW found \in BOOLEAN, PreviewAnswer(q, found)
    PROVE  IInv'
<1>. DEFINE id == request[q].id
            next == [pc |-> "answering", id |-> id, gen |-> request[q].gen,
                     copy |-> row[id], found |-> found]
<1>1. /\ request[q] \in RequestStates /\ request[q].pc = "fetching"
      /\ UNCHANGED <<now, row, suppressed>> /\ Goto(q, next)
  BY DEF IInv, TypeOK, PreviewAnswer
<1>2. id \in Ids /\ request[q].gen \in Nat
  BY <1>1, RequestTypes
<1>3. row[id] \in Verifications /\ row[id].state # "absent"
  BY <1>1, <1>2 DEF IInv, TypeOK, Started
<1>4. next \in RequestStates /\ next.pc = "answering" /\ next.id = id /\ next.copy = row[id]
  BY <1>2, <1>3 DEF RequestStates
<1>. QED
  BY <1>1, <1>3, <1>4, MoveSound DEF Copied

\* A request ends and has written nothing.
LEMMA EndSound ==
    ASSUME IInv, NEW q \in Requests, Goto(q, Idle), UNCHANGED <<now, row, suppressed>>
    PROVE  IInv'
<1>1. Idle \in RequestStates /\ Idle.pc = "idle"
  BY DEF RequestStates, Idle
<1>. QED
  BY <1>1, MoveSound DEF Copied

LEMMA CheckSound ==
    ASSUME IInv, NEW q \in Requests, Check(q)
    PROVE  IInv'
<1>. DEFINE id == request[q].id
            copy == request[q].copy
<1>1. /\ now \in Nat /\ now >= 1 /\ request[q].pc \in Copied /\ UNCHANGED <<now, suppressed>>
      /\ copy \in Verifications
  BY RequestTypes DEF IInv, TypeOK, Check, Copied, CopySound
<1>2. CASE Goto(q, Idle) /\ UNCHANGED row
  BY <1>1, <1>2, EndSound
<1>3. CASE Goto(q, Idle) /\ \E state \in {"suppressed", "verification_failed"} :
                               Update(id, copy, End(state))
  <2>1. PICK state \in OverStates : Update(id, copy, End(state))
    BY <1>3 DEF OverStates
  <2>. DEFINE set == End(state)
  <2>2. /\ Fits(set) /\ "token" \in DOMAIN set
        /\ "revoked" \in DOMAIN set /\ set["revoked"] # 0
    BY <1>1, EndFits
  <2>. HIDE DEF set
  <2>. QED
    BY <1>1, <1>3, <2>1, <2>2, WriteSound DEF set
<1>4. CASE /\ ~suppressed
           /\ Update(id, copy, [attempts |-> copy.attempts + 1, last |-> now])
           /\ Goto(q, [pc |-> "fetching", id |-> id, gen |-> copy.attempts + 1])
  <2>. DEFINE set == [attempts |-> copy.attempts + 1, last |-> now]
              next == [pc |-> "fetching", id |-> id, gen |-> copy.attempts + 1]
  <2>1. copy.attempts + 1 \in Nat
    BY <1>1 DEF Verifications
  <2>2. DOMAIN set = {"attempts", "last"} /\ set["attempts"] \in Nat /\ set["last"] \in Nat
    BY <1>1, <2>1
  <2>3. Fits(set) /\ "state" \notin DOMAIN set
    BY <2>2 DEF Fits
  <2>4. \E g \in Nat : next = [pc |-> "fetching", id |-> request[q].id, gen |-> g]
    BY <2>1
  <2>5. Update(id, copy, set) /\ Goto(q, next)
    BY <1>4
  <2>. HIDE DEF set, next
  <2>. QED
    BY <1>1, <1>4, <2>3, <2>4, <2>5, WriteSound
<1>. QED
  BY <1>2, <1>3, <1>4 DEF Check

LEMMA AnswerSound ==
    ASSUME IInv, NEW q \in Requests, Answer(q)
    PROVE  IInv'
<1>. DEFINE id == request[q].id
            copy == request[q].copy
            failed == [state |-> "verification_failed", revoked |-> now, token |-> FALSE,
                       expires |-> now]
<1>1. /\ now \in Nat /\ now >= 1 /\ request[q].pc \in Copied /\ UNCHANGED <<now, suppressed>>
      /\ Goto(q, Idle)
  BY DEF IInv, TypeOK, Answer, Copied
<1>2. CASE UNCHANGED row
  BY <1>1, <1>2, EndSound
<1>3. CASE \E state \in {"suppressed", "expired"} : Update(id, copy, End(state))
  <2>1. PICK state \in OverStates : Update(id, copy, End(state))
    BY <1>3 DEF OverStates
  <2>. DEFINE set == End(state)
  <2>2. /\ Fits(set) /\ "token" \in DOMAIN set
        /\ "revoked" \in DOMAIN set /\ set["revoked"] # 0
    BY <1>1, EndFits
  <2>. HIDE DEF set
  <2>. QED
    BY <1>1, <1>3, <2>1, <2>2, WriteSound DEF set
<1>4. CASE ~suppressed /\ Update(id, copy, ControlVerified)
  <2>1. now + ReviewTtl \in Nat
    BY <1>1, EligibilityAssumption
  <2>2. Fits(ControlVerified) /\ "token" \in DOMAIN ControlVerified
    BY <2>1 DEF Fits, ControlVerified, States, PendingStates
  <2>. QED
    BY <1>1, <1>4, <2>2, WriteSound
<1>5. CASE ~suppressed /\ Update(id, copy, failed)
  <2>1. Fits(failed) /\ "token" \in DOMAIN failed
    BY <1>1 DEF Fits, States, OverStates
  <2>. HIDE DEF failed
  <2>. QED
    BY <1>1, <1>5, <2>1, WriteSound
<1>. QED
  BY <1>2, <1>3, <1>4, <1>5 DEF Answer

LEMMA DecideSound ==
    ASSUME IInv, NEW q \in Requests, Decide(q)
    PROVE  IInv'
<1>. DEFINE id == request[q].id
            copy == request[q].copy
<1>1. /\ now \in Nat /\ now >= 1 /\ request[q].pc \in Copied /\ UNCHANGED <<now, suppressed>>
      /\ Goto(q, Idle)
  BY DEF IInv, TypeOK, Decide, Copied
<1>2. Decidable(copy) => ~copy.token
  BY <1>1 DEF IInv, CopySound, Decidable, Verifications
<1>3. CASE UNCHANGED row
  BY <1>1, <1>3, EndSound
<1>4. CASE Update(id, copy, End("suppressed"))
  <2>. DEFINE set == End("suppressed")
  <2>1. "suppressed" \in OverStates
    BY DEF OverStates
  <2>2. /\ Fits(set) /\ "token" \in DOMAIN set
        /\ "revoked" \in DOMAIN set /\ set["revoked"] # 0
    BY <1>1, <2>1, EndFits
  <2>. HIDE DEF set
  <2>. QED
    BY <1>1, <1>4, <2>2, WriteSound DEF set
<1>5. CASE ~suppressed /\ Decidable(copy) /\ Update(id, copy, Approval)
  <2>1. now + ApprovalTtl \in Nat
    BY <1>1, EligibilityAssumption
  <2>2. Fits(Approval)
    BY <2>1 DEF Fits, Approval, States
  <2>. QED
    BY <1>1, <1>2, <1>5, <2>2, WriteSound
<1>6. CASE ~suppressed /\ Decidable(copy) /\ Update(id, copy, Denial)
  <2>1. Fits(Denial)
    BY <1>1 DEF Fits, Denial, States, OverStates
  <2>. QED
    BY <1>1, <1>2, <1>6, <2>1, WriteSound
<1>. QED
  BY <1>3, <1>4, <1>5, <1>6 DEF Decide

LEMMA NextSound == IInv /\ [Next]_vars => IInv'
<1>. SUFFICES ASSUME IInv, [Next]_vars PROVE IInv'
  OBVIOUS
<1>1. CASE UNCHANGED vars
  BY <1>1 DEF vars, IInv, TypeOK, Closed, TokensPending, AbsentIsEmpty, CopySound, Started
<1>2. CASE (\E id \in Ids : Create(id)) \/ Suppress \/ Tick
  BY <1>2, CreateSound, SuppressSound, TickSound
<1>3. ASSUME NEW q \in Requests,
             \/ \E id \in Ids : PreviewCheck(q, id)
             \/ \E id \in Ids, decision \in {"approve", "deny"} : PreviewDecision(q, id, decision)
             \/ \E found \in BOOLEAN : PreviewAnswer(q, found)
             \/ Check(q) \/ FetchFails(q) \/ Answer(q) \/ Decide(q)
      PROVE  IInv'
  <2>1. CASE FetchFails(q)
    BY <2>1, EndSound DEF FetchFails
  <2>2. CASE \E id \in Ids : PreviewCheck(q, id)
    BY <2>2, PreviewSound
  <2>3. CASE \E id \in Ids, decision \in {"approve", "deny"} : PreviewDecision(q, id, decision)
    BY <2>3, PreviewSound
  <2>. QED
    BY <1>3, <2>1, <2>2, <2>3, PreviewAnswerSound, CheckSound, AnswerSound, DecideSound
<1>. QED
  BY <1>1, <1>2, <1>3 DEF Next

\* The invariant holds in every state.
THEOREM EligibilityIsSound == Spec => []IInv
BY InitSound, NextSound, PTL DEF Spec

-----------------------------------------------------------------------------
(* The theorems. *)

\* Verifications and requests are well formed in every state.
THEOREM TypeCorrect == Spec => []TypeOK
<1>1. IInv => TypeOK
  BY DEF IInv
<1>. QED
  BY <1>1, EligibilityIsSound, PTL

\* Once a profile is suppressed nothing admits a job for it, however many
\* checks and decisions were on their way with an older copy.
THEOREM SuppressionHolds == Spec => []SuppressedIsOver
<1>1. IInv => SuppressedIsOver
  <2>. SUFFICES ASSUME IInv, suppressed, NEW id \in Ids PROVE ~Valid(row[id])
    BY DEF SuppressedIsOver
  <2>1. row[id] = Absent \/ row[id].revoked # 0
    BY DEF IInv, Closed
  <2>. QED
    BY <2>1, AbsentType DEF Valid
<1>. QED
  BY <1>1, EligibilityIsSound, PTL

\* The challenge is erased with the step that ends its use, whichever request
\* takes it.
THEOREM ChallengeIsErased == Spec => []TokenOnlyPending
<1>1. IInv => TokenOnlyPending
  BY DEF IInv, TokensPending, TokenOnlyPending
<1>. QED
  BY <1>1, EligibilityIsSound, PTL

-----------------------------------------------------------------------------
(* One verification at a time, and none that comes back                    *)
(*                                                                         *)
(* A stale copy may revive a verification that is over: an answer makes a  *)
(* superseded one wait for the operator, an approval clears its            *)
(* revocation.  Currency says what the copies that can still be written    *)
(* through know: an answer that finds its challenge pending meets no       *)
(* decision on the same row, and two decisions saw the same row.           *)

Answering(r) == r.pc = "answering" /\ r.copy.state = "verification_pending"

Deciding(r) == r.pc = "deciding" /\ r.copy.state = "control_verified_review_pending"

Fresh ==
    \A id \in Ids :
       /\ row[id].state = "verification_pending" => row[id].review = 0
       /\ row[id].state \in PendingStates => ~row[id].verified
       /\ row[id].state = "eligible_verified_self" => row[id].verified

\* What became of the row of an answer: its control was proved in this tick,
\* or it was revoked.
AnswerCurrent(r) ==
    Answering(r) =>
       LET v == row[r.id] IN
       /\ r.copy.review = 0
       /\ ~v.verified
       /\ v.state \in PendingStates \/ v.revoked # 0
       /\ v.state # "eligible_verified_self"
       /\ v.state = "control_verified_review_pending" => v.review = now + ReviewTtl

\* What became of the row of a decision: nothing, or another decided, and this
\* one will not write what the other has ended.
DecisionCurrent(r) ==
    Deciding(r) =>
       LET v == row[r.id] IN
       /\ ~r.copy.verified
       /\ v.state # "verification_pending"
       /\ v.state = "control_verified_review_pending" =>
             v.revoked = r.copy.revoked /\ v.expires = r.copy.expires
       /\ v.state = "eligible_verified_self" =>
             /\ v.revoked = 0 \/ r.copy.revoked = 0
             /\ v.expires > now \/ r.copy.expires = now + ApprovalTtl

Apart(p, r) ==
    Deciding(r) /\ p.pc \in {"answering", "deciding"} /\ p.id = r.id =>
       /\ ~Answering(p)
       /\ Deciding(p) => p.copy.revoked = r.copy.revoked /\ p.copy.expires = r.copy.expires

Currency ==
    /\ Fresh
    /\ \A q \in Requests : AnswerCurrent(request[q]) /\ DecisionCurrent(request[q])
    /\ \A p, q \in Requests : Apart(request[p], request[q])

CInv == Currency /\ OneLivePending

-----------------------------------------------------------------------------
(* What a step makes of a row. *)

Unmoved(v, n) ==
    /\ n.state = v.state /\ n.review = v.review /\ n.expires = v.expires
    /\ n.verified = v.verified /\ n.revoked = v.revoked

Ends(v, n) == n.state \in OverStates /\ n.revoked # 0 /\ n.verified = v.verified

Begins(v, n) ==
    v = Absent /\ n.state = "verification_pending" /\ n.review = 0 /\ ~n.verified

Proves(v, n) ==
    /\ n.state = "control_verified_review_pending" /\ n.review = now + ReviewTtl
    /\ n.verified = v.verified /\ n.revoked = v.revoked

Approves(v, n, copy) ==
    /\ n.state = "eligible_verified_self" /\ n.verified
    /\ n.revoked = IF copy.revoked # 0 THEN 0 ELSE v.revoked
    /\ n.expires = IF copy.expires # now + ApprovalTtl THEN now + ApprovalTtl ELSE v.expires

ProvedBy(q, i) ==
    Answering(request[q]) /\ request[q].id = i /\ Proves(row[i], row'[i])

ApprovedBy(q, i) ==
    /\ Deciding(request[q]) /\ request[q].id = i
    /\ Approves(row[i], row'[i], request[q].copy)

Turn(i) ==
    \/ Unmoved(row[i], row'[i]) \/ Ends(row[i], row'[i]) \/ Begins(row[i], row'[i])
    \/ \E q \in Requests : ProvedBy(q, i) \/ ApprovedBy(q, i)

LEMMA Vocabulary ==
    /\ PendingStates = {"verification_pending", "control_verified_review_pending"}
    /\ OverStates = {"superseded", "expired", "suppressed", "verification_failed", "ineligible"}
BY DEF PendingStates, OverStates

\* A request that waits to write has a row.
LEMMA CopyHasRow ==
    ASSUME IInv, NEW q \in Requests, Answering(request[q]) \/ Deciding(request[q])
    PROVE  /\ request[q].id \in Ids /\ row[request[q].id].state # "absent"
           /\ row[request[q].id] # Absent /\ request[q].copy \in Verifications
BY AbsentType DEF IInv, CopySound, Copied, Answering, Deciding

LEMMA AnswerStaysCurrent ==
    ASSUME IInv, Currency, now' = now, NEW q \in Requests, Answering(request[q]),
           Turn(request[q].id)
    PROVE  AnswerCurrent(request[q])'
           \/ request'[q] # request[q]
<1>. DEFINE r == request[q]
            i == r.id
<1>1. /\ r.copy.review = 0 /\ ~row[i].verified
      /\ row[i].state \in PendingStates \/ row[i].revoked # 0
      /\ row[i].state # "eligible_verified_self"
      /\ row[i].state = "control_verified_review_pending" => row[i].review = now + ReviewTtl
  BY DEF Currency, AnswerCurrent
<1>2. row[i] # Absent
  BY CopyHasRow
<1>3. ASSUME NEW p \in Requests, ApprovedBy(p, i) PROVE FALSE
  BY <1>3 DEF Currency, Apart, ApprovedBy, Answering, Deciding
<1>4. \/ Unmoved(row[i], row'[i]) \/ Ends(row[i], row'[i]) \/ Proves(row[i], row'[i])
  BY <1>2, <1>3 DEF Turn, Begins, ProvedBy
<1>5. /\ ~row'[i].verified
      /\ row'[i].state \in PendingStates \/ row'[i].revoked # 0
      /\ row'[i].state # "eligible_verified_self"
      /\ row'[i].state = "control_verified_review_pending" => row'[i].review = now + ReviewTtl
  BY <1>1, <1>4, Vocabulary DEF Unmoved, Ends, Proves
<1>. QED
  BY <1>1, <1>5 DEF AnswerCurrent

LEMMA DecisionStaysCurrent ==
    ASSUME IInv, Currency, now' = now, NEW q \in Requests, Deciding(request[q]),
           Turn(request[q].id)
    PROVE  DecisionCurrent(request[q])'
           \/ request'[q] # request[q]
<1>. DEFINE r == request[q]
            i == r.id
            copy == r.copy
            Known(v) ==
               /\ v.state # "verification_pending"
               /\ v.state = "control_verified_review_pending" =>
                     v.revoked = copy.revoked /\ v.expires = copy.expires
               /\ v.state = "eligible_verified_self" =>
                     /\ v.revoked = 0 \/ copy.revoked = 0
                     /\ v.expires > now \/ copy.expires = now + ApprovalTtl
<1>1. ~copy.verified /\ Known(row[i])
  BY DEF Currency, DecisionCurrent
<1>2. row[i] # Absent
  BY CopyHasRow
<1>3. ASSUME NEW p \in Requests, ProvedBy(p, i) PROVE FALSE
  BY <1>3 DEF Currency, Apart, ProvedBy, Answering, Deciding
<1>4. CASE \E p \in Requests : ApprovedBy(p, i)
  <2>1. PICK p \in Requests : ApprovedBy(p, i)
    BY <1>4
  <2>2. request[p].copy.revoked = copy.revoked /\ request[p].copy.expires = copy.expires
    BY <2>1 DEF Currency, Apart, ApprovedBy, Deciding
  <2>3. Approves(row[i], row'[i], copy)
    BY <2>1, <2>2 DEF ApprovedBy, Approves
  <2>4. now + ApprovalTtl > now
    BY EligibilityAssumption DEF IInv, TypeOK
  <2>5. Known(row'[i])
    BY <2>3, <2>4 DEF Approves
  <2>. QED
    BY <1>1, <2>5 DEF DecisionCurrent
<1>5. CASE Unmoved(row[i], row'[i]) \/ Ends(row[i], row'[i])
  <2>1. Known(row'[i])
    BY <1>1, <1>5, Vocabulary DEF Unmoved, Ends
  <2>. QED
    BY <1>1, <2>1 DEF DecisionCurrent
<1>. QED
  BY <1>2, <1>3, <1>4, <1>5 DEF Turn, Begins

LEMMA RowStaysFresh ==
    ASSUME IInv, Currency, now' = now, NEW i \in Ids, Turn(i)
    PROVE  /\ row'[i].state = "verification_pending" => row'[i].review = 0
           /\ row'[i].state \in PendingStates => ~row'[i].verified
           /\ row'[i].state = "eligible_verified_self" => row'[i].verified
<1>1. CASE Unmoved(row[i], row'[i])
  BY <1>1 DEF Unmoved, Currency, Fresh
<1>2. CASE Ends(row[i], row'[i])
  BY <1>2, Vocabulary DEF Ends
<1>3. CASE Begins(row[i], row'[i])
  BY <1>3 DEF Begins
<1>4. ASSUME NEW q \in Requests, ProvedBy(q, i)
      PROVE  /\ row'[i].state = "control_verified_review_pending" /\ ~row'[i].verified
  BY <1>4 DEF ProvedBy, Proves, Currency, AnswerCurrent
<1>5. ASSUME NEW q \in Requests, ApprovedBy(q, i)
      PROVE  row'[i].state = "eligible_verified_self" /\ row'[i].verified
  BY <1>5 DEF ApprovedBy, Approves
<1>. QED
  BY <1>1, <1>2, <1>3, <1>4, <1>5, Vocabulary DEF Turn

\* Rows turn, and the requests that had a copy keep it or are done with it.
LEMMA TurnsCurrent ==
    ASSUME IInv, Currency, now' = now, \A i \in Ids : Turn(i),
           \A q \in Requests : request'[q] = request[q] \/ request'[q].pc \in {"idle", "fetching"}
    PROVE  Currency'
<1>1. Fresh'
  BY RowStaysFresh DEF Fresh
<1>2. ASSUME NEW q \in Requests
      PROVE  AnswerCurrent(request[q])' /\ DecisionCurrent(request[q])'
  <2>1. CASE request'[q].pc \in {"idle", "fetching"}
    BY <2>1 DEF AnswerCurrent, DecisionCurrent, Answering, Deciding
  <2>2. CASE request'[q] = request[q]
    <3>1. CASE Answering(request[q])
      <4>1. AnswerCurrent(request[q])'
        BY <2>2, <3>1, AnswerStaysCurrent, CopyHasRow
      <4>2. ~Deciding(request[q])'
        BY <2>2, <3>1 DEF Answering, Deciding
      <4>. QED
        BY <4>1, <4>2 DEF DecisionCurrent
    <3>2. CASE Deciding(request[q])
      <4>1. DecisionCurrent(request[q])'
        BY <2>2, <3>2, DecisionStaysCurrent, CopyHasRow
      <4>2. ~Answering(request[q])'
        BY <2>2, <3>2 DEF Answering, Deciding
      <4>. QED
        BY <4>1, <4>2 DEF AnswerCurrent
    <3>3. CASE ~Answering(request[q]) /\ ~Deciding(request[q])
      BY <2>2, <3>3 DEF AnswerCurrent, DecisionCurrent, Answering, Deciding
    <3>. QED
      BY <3>1, <3>2, <3>3
  <2>. QED
    BY <2>1, <2>2
<1>3. ASSUME NEW p \in Requests, NEW q \in Requests
      PROVE  Apart(request[p], request[q])'
  <2>1. CASE request'[p] = request[p] /\ request'[q] = request[q]
    BY <2>1 DEF Currency, Apart, Answering, Deciding
  <2>2. CASE request'[p].pc \in {"idle", "fetching"} \/ request'[q].pc \in {"idle", "fetching"}
    BY <2>2 DEF Apart, Answering, Deciding
  <2>. QED
    BY <2>1, <2>2
<1>. QED
  BY <1>1, <1>2, <1>3 DEF Currency

\* No verification but a new one becomes live.
LEMMA LiveBefore ==
    ASSUME IInv, Currency, NEW i \in Ids, Turn(i), ~Begins(row[i], row'[i]),
           row'[i].state \in PendingStates, row'[i].revoked = 0
    PROVE  row[i].state \in PendingStates /\ row[i].revoked = 0
<1>1. ASSUME NEW q \in Requests, ProvedBy(q, i)
      PROVE  row[i].state \in PendingStates /\ row[i].revoked = 0
  BY <1>1 DEF ProvedBy, Proves, Currency, AnswerCurrent
<1>2. ASSUME NEW q \in Requests, ApprovedBy(q, i) PROVE FALSE
  BY <1>2, Vocabulary DEF ApprovedBy, Approves
<1>3. ~Ends(row[i], row'[i])
  BY DEF Ends
<1>. QED
  BY <1>1, <1>2, <1>3 DEF Turn, Unmoved

LEMMA TurnsLive ==
    ASSUME IInv, CInv, \A i \in Ids : Turn(i) /\ ~Begins(row[i], row'[i])
    PROVE  OneLivePending'
<1>. SUFFICES ASSUME NEW i \in Ids, NEW j \in Ids,
                     row'[i].state \in PendingStates /\ row'[i].revoked = 0,
                     row'[j].state \in PendingStates /\ row'[j].revoked = 0
              PROVE  i = j
  BY DEF OneLivePending
<1>1. /\ row[i].state \in PendingStates /\ row[i].revoked = 0
      /\ row[j].state \in PendingStates /\ row[j].revoked = 0
  BY LiveBefore DEF CInv
<1>. QED
  BY <1>1 DEF CInv, OneLivePending

\* What has run out stays so: a decision whose copy was revoked clears the
\* revocation once, with the approval that the next one finds done.
LEMMA LapsedTurn ==
    ASSUME IInv, Currency, now' = now, NEW i \in Ids, Turn(i),
           row[i].state = "eligible_verified_self", ~Valid(row[i])
    PROVE  ~Valid(row[i])'
<1>1. row[i].verified /\ row[i] \in Verifications /\ now \in Nat
  BY DEF Currency, Fresh, IInv, TypeOK
<1>2. ~(row[i].expires > now) \/ row[i].revoked # 0
  BY <1>1 DEF Valid
<1>3. CASE Unmoved(row[i], row'[i])
  BY <1>2, <1>3 DEF Unmoved, Valid
<1>4. CASE Ends(row[i], row'[i])
  BY <1>4 DEF Ends, Valid
<1>5. CASE Begins(row[i], row'[i])
  BY <1>5, AbsentType DEF Begins
<1>6. ASSUME NEW q \in Requests, ProvedBy(q, i) PROVE ~Valid(row[i])'
  BY <1>6 DEF ProvedBy, Proves, Valid
<1>7. ASSUME NEW q \in Requests, ApprovedBy(q, i) PROVE ~Valid(row[i])'
  <2>1. /\ row[i].revoked = 0 \/ request[q].copy.revoked = 0
        /\ row[i].expires > now \/ request[q].copy.expires = now + ApprovalTtl
    BY <1>7 DEF ApprovedBy, Currency, DecisionCurrent
  <2>. QED
    BY <1>2, <1>7, <2>1 DEF ApprovedBy, Approves, Valid
<1>. QED
  BY <1>3, <1>4, <1>5, <1>6, <1>7 DEF Turn

-----------------------------------------------------------------------------
(* How the requests write. *)

\* The columns of the row a request writes to.
Wrote(q, set) ==
    LET v == row[request[q].id]
        n == row'[request[q].id]
        copy == request[q].copy
        New(c) == IF Written(copy, set, c) THEN set[c] ELSE v[c]
    IN  /\ n.state = New("state") /\ n.review = New("review") /\ n.expires = New("expires")
        /\ n.verified = New("verified") /\ n.revoked = New("revoked")
        /\ \A i \in Ids \ {request[q].id} : row'[i] = row[i]

LEMMA UpdateWrites ==
    ASSUME IInv, NEW q \in Requests, request[q].pc \in Copied, NEW set,
           Update(request[q].id, request[q].copy, set)
    PROVE  Wrote(q, set)
<1>. DEFINE id == request[q].id
            copy == request[q].copy
            n == [c \in DOMAIN row[id] |-> IF Written(copy, set, c) THEN set[c] ELSE row[id][c]]
<1>1. id \in Ids /\ row \in [Ids -> Verifications] /\ row[id] \in Verifications
  BY DEF IInv, CopySound, TypeOK
<1>2. row' = [row EXCEPT ![id] = n]
  BY DEF Update
<1>3. DOMAIN row[id] = {"state", "token", "attempts", "last", "review", "expires", "subject",
                        "verified", "revoked"}
  BY <1>1 DEF Verifications
<1>4. \A c \in {"state", "review", "expires", "verified", "revoked"} :
         n[c] = IF Written(copy, set, c) THEN set[c] ELSE row[id][c]
  BY <1>3
<1>. HIDE DEF n
<1>5. row'[id] = n /\ \A i \in Ids \ {id} : row'[i] = row[i]
  BY <1>1, <1>2
<1>. QED
  BY <1>4, <1>5 DEF Wrote

\* The row of the request turns, the others do not move.
LEMMA OneTurns ==
    ASSUME NEW q \in Requests, NEW set, Wrote(q, set), Turn(request[q].id)
    PROVE  \A i \in Ids : Turn(i)
BY DEF Wrote, Turn, Unmoved

\* The writes that end a verification find it pending in their copy.
LEMMA EndTurns ==
    ASSUME IInv, NEW q \in Requests, request[q].pc \in Copied, NEW set, Wrote(q, set),
           request[q].copy.state \in PendingStates,
           {"state", "revoked"} \subseteq DOMAIN set, "verified" \notin DOMAIN set,
           set["state"] \in OverStates, set["revoked"] = now
    PROVE  Ends(row[request[q].id], row'[request[q].id])
<1>. DEFINE v == row[request[q].id]
            n == row'[request[q].id]
            copy == request[q].copy
<1>1. now # 0 /\ copy["state"] = copy.state
  BY DEF IInv, TypeOK
<1>2. set["state"] # copy["state"]
  BY <1>1, Vocabulary
<1>3. n.state = set["state"] /\ n.revoked = now /\ n.verified = v.verified
  BY <1>1, <1>2 DEF Wrote, Written
<1>. QED
  BY <1>1, <1>3 DEF Ends

\* A write of neither status, clock nor revocation.
LEMMA OtherTurns ==
    ASSUME NEW q \in Requests, NEW set, Wrote(q, set),
           DOMAIN set = {"attempts", "last"}
    PROVE  Unmoved(row[request[q].id], row'[request[q].id])
BY DEF Wrote, Written, Unmoved

LEMMA ProofTurns ==
    ASSUME IInv, Currency, NEW q \in Requests, Answering(request[q]),
           Wrote(q, ControlVerified)
    PROVE  ProvedBy(q, request[q].id)
<1>. DEFINE copy == request[q].copy
<1>1. copy.review = 0 /\ copy.state = "verification_pending"
  BY DEF Currency, AnswerCurrent, Answering
<1>2. now + ReviewTtl # 0
  BY EligibilityAssumption DEF IInv, TypeOK
<1>3. /\ Written(copy, ControlVerified, "state") /\ Written(copy, ControlVerified, "review")
      /\ ~Written(copy, ControlVerified, "verified") /\ ~Written(copy, ControlVerified, "revoked")
  BY <1>1, <1>2 DEF Written, ControlVerified
<1>. QED
  BY <1>3 DEF Wrote, ControlVerified, ProvedBy, Proves

LEMMA ApprovalTurns ==
    ASSUME IInv, Currency, NEW q \in Requests, Deciding(request[q]), Wrote(q, Approval)
    PROVE  ApprovedBy(q, request[q].id)
<1>. DEFINE copy == request[q].copy
<1>1. copy.verified = FALSE /\ copy.state = "control_verified_review_pending"
  <2>1. copy.verified \in BOOLEAN
    BY CopyHasRow DEF Verifications
  <2>. QED
    BY <2>1 DEF Currency, DecisionCurrent, Deciding
<1>2. /\ Written(copy, Approval, "state") /\ Written(copy, Approval, "verified")
      /\ Written(copy, Approval, "expires") <=> copy.expires # now + ApprovalTtl
      /\ Written(copy, Approval, "revoked") <=> copy.revoked # 0
  BY <1>1 DEF Written, Approval
<1>. QED
  BY <1>2 DEF Wrote, Approval, ApprovedBy, Approves

-----------------------------------------------------------------------------
(* The actions. *)

\* The rows turn, and who wrote is done.
Turned ==
    /\ now' = now
    /\ \A i \in Ids : Turn(i)
    /\ \A q \in Requests : request'[q] = request[q] \/ request'[q].pc \in {"idle", "fetching"}

LEMMA CreateTurns ==
    ASSUME IInv, CInv, NEW id \in Ids, Create(id)
    PROVE  Turned /\ OneLivePending'
<1>0. now \in Nat /\ now # 0 /\ row \in [Ids -> Verifications]
  BY DEF IInv, TypeOK
<1>1. now \in Nat /\ now # 0 /\ row \in [Ids -> Verifications] /\ row[id] = Absent
  BY <1>0 DEF Create
<1>2. /\ Begins(row[id], row'[id])
      /\ \A i \in Ids \ {id} :
            \/ row'[i] = row[i] /\ ~SupersededByNewOne(row[i])
            \/ row'[i] = [row[i] EXCEPT !.state = "superseded", !.revoked = now, !.token = FALSE]
  BY <1>1 DEF Create, Begins, NewVerification, Absent
<1>3. ASSUME NEW i \in Ids, i # id
      PROVE  \/ Unmoved(row[i], row'[i]) /\ ~SupersededByNewOne(row[i])
             \/ Ends(row[i], row'[i])
  <2>1. CASE row'[i] = row[i] /\ ~SupersededByNewOne(row[i])
    BY <2>1 DEF Unmoved
  <2>2. CASE row'[i] = [row[i] EXCEPT !.state = "superseded", !.revoked = now, !.token = FALSE]
    <3>1. row'[i].state = "superseded" /\ row'[i].revoked = now /\ row'[i].verified = row[i].verified
      BY <1>1, <2>2 DEF Verifications
    <3>. QED
      BY <1>1, <3>1, Vocabulary DEF Ends
  <2>. QED
    BY <1>2, <1>3, <2>1, <2>2
<1>4. OneLivePending'
  <2>1. ASSUME NEW i \in Ids, row'[i].state \in PendingStates, row'[i].revoked = 0 PROVE i = id
    BY <1>3, <2>1 DEF Unmoved, Ends, SupersededByNewOne
  <2>. QED
    BY <2>1 DEF OneLivePending
<1>. QED
  BY <1>2, <1>3, <1>4 DEF Turned, Turn, Create

LEMMA SuppressTurns ==
    ASSUME IInv, CInv, Suppress
    PROVE  Turned /\ \A i \in Ids : ~Begins(row[i], row'[i])
<1>1. now \in Nat /\ now # 0 /\ row \in [Ids -> Verifications]
  BY DEF IInv, TypeOK
<1>2. ASSUME NEW i \in Ids
      PROVE  \/ Unmoved(row[i], row'[i]) /\ row'[i] = row[i]
             \/ Ends(row[i], row'[i])
  <2>1. CASE row[i] # Absent /\ row[i].revoked = 0
    <3>1. row'[i] = [row[i] EXCEPT !.state = "suppressed", !.revoked = now, !.token = FALSE]
      BY <2>1 DEF Suppress
    <3>2. row'[i].state = "suppressed" /\ row'[i].revoked = now /\ row'[i].verified = row[i].verified
      BY <1>1, <3>1 DEF Verifications
    <3>. QED
      BY <1>1, <3>2, Vocabulary DEF Ends
  <2>2. CASE ~(row[i] # Absent /\ row[i].revoked = 0)
    BY <2>2 DEF Suppress, Unmoved
  <2>. QED
    BY <2>1, <2>2
<1>. QED
  BY <1>2, Vocabulary, AbsentType DEF Turned, Turn, Suppress, Begins, Ends

\* A request has written and is done, or goes on to fetch the profile.
LEMMA WriterTurned ==
    ASSUME IInv, NEW q \in Requests, now' = now, NEW next, Goto(q, next),
           next.pc \in {"idle", "fetching"}, NEW set, Wrote(q, set), Turn(request[q].id)
    PROVE  Turned
<1>1. /\ request'[q] = next
      /\ \A p \in Requests \ {q} : request'[p] = request[p]
  BY DEF Goto, IInv, TypeOK
<1>. QED
  BY <1>1, OneTurns DEF Turned

\* Nothing is written.
LEMMA ReaderTurned ==
    ASSUME IInv, NEW q \in Requests, now' = now, row' = row, NEW next, Goto(q, next),
           next.pc \in {"idle", "fetching"}
    PROVE  Turned
<1>1. /\ request'[q] = next
      /\ \A p \in Requests \ {q} : request'[p] = request[p]
  BY DEF Goto, IInv, TypeOK
<1>. QED
  BY <1>1 DEF Turned, Turn, Unmoved

\* A verification that exists does not begin.
LEMMA WriterBeginsNone ==
    ASSUME IInv, NEW q \in Requests, request[q].pc \in Copied, NEW set, Wrote(q, set)
    PROVE  \A i \in Ids : ~Begins(row[i], row'[i])
<1>1. row[request[q].id].state # "absent"
  BY DEF IInv, CopySound
<1>. QED
  BY <1>1, AbsentType DEF Wrote, Begins

LEMMA ReaderBeginsNone ==
    ASSUME row' = row
    PROVE  \A i \in Ids : ~Begins(row[i], row'[i])
BY AbsentType DEF Begins

LEMMA CheckTurns ==
    ASSUME IInv, CInv, NEW q \in Requests, Check(q)
    PROVE  Turned /\ \A i \in Ids : ~Begins(row[i], row'[i])
<1>. DEFINE id == request[q].id
            copy == request[q].copy
<1>1. request[q].pc \in Copied /\ now' = now
  BY DEF Check, Copied
<1>2. Idle.pc = "idle"
  BY DEF Idle
<1>3. CASE Goto(q, Idle) /\ UNCHANGED row
  BY <1>1, <1>2, <1>3, ReaderTurned, ReaderBeginsNone
<1>4. CASE /\ Goto(q, Idle) /\ copy.state = "verification_pending"
           /\ \E state \in {"suppressed", "verification_failed"} : Update(id, copy, End(state))
  <2>1. PICK state \in {"suppressed", "verification_failed"} : Update(id, copy, End(state))
    BY <1>4
  <2>. DEFINE set == End(state)
  <2>2. /\ {"state", "revoked"} \subseteq DOMAIN set /\ "verified" \notin DOMAIN set
        /\ set["state"] \in OverStates /\ set["revoked"] = now
    BY Vocabulary DEF End
  <2>. HIDE DEF set
  <2>3. Wrote(q, set)
    BY <1>1, <2>1, UpdateWrites DEF set
  <2>4. Turn(id)
    BY <1>1, <1>4, <2>2, <2>3, EndTurns, Vocabulary DEF Turn
  <2>. QED
    BY <1>1, <1>2, <1>4, <2>3, <2>4, WriterTurned, WriterBeginsNone
<1>5. CASE /\ Update(id, copy, [attempts |-> copy.attempts + 1, last |-> now])
           /\ Goto(q, [pc |-> "fetching", id |-> id, gen |-> copy.attempts + 1])
  <2>. DEFINE set == [attempts |-> copy.attempts + 1, last |-> now]
              next == [pc |-> "fetching", id |-> id, gen |-> copy.attempts + 1]
  <2>1. DOMAIN set = {"attempts", "last"} /\ next.pc = "fetching"
    OBVIOUS
  <2>2. Update(id, copy, set) /\ Goto(q, next)
    BY <1>5
  <2>. HIDE DEF set, next
  <2>3. Wrote(q, set)
    BY <1>1, <2>2, UpdateWrites
  <2>4. Turn(id)
    BY <2>1, <2>3, OtherTurns DEF Turn
  <2>. QED
    BY <1>1, <2>1, <2>2, <2>3, <2>4, WriterTurned, WriterBeginsNone
<1>. QED
  BY <1>3, <1>4, <1>5 DEF Check

LEMMA AnswerTurns ==
    ASSUME IInv, CInv, NEW q \in Requests, Answer(q)
    PROVE  Turned /\ \A i \in Ids : ~Begins(row[i], row'[i])
<1>. DEFINE id == request[q].id
            copy == request[q].copy
            failed == [state |-> "verification_failed", revoked |-> now, token |-> FALSE,
                       expires |-> now]
            Over(set) == /\ {"state", "revoked"} \subseteq DOMAIN set /\ "verified" \notin DOMAIN set
                         /\ set["state"] \in OverStates /\ set["revoked"] = now
<1>1. /\ request[q].pc = "answering" /\ request[q].pc \in Copied /\ now' = now
      /\ Goto(q, Idle) /\ Idle.pc = "idle"
  BY DEF Answer, Copied, Idle
<1>2. CASE UNCHANGED row
  BY <1>1, <1>2, ReaderTurned, ReaderBeginsNone
<1>3. ASSUME NEW set, Over(set), Update(id, copy, set), copy.state = "verification_pending"
      PROVE  Turned /\ \A i \in Ids : ~Begins(row[i], row'[i])
  <2>1. Wrote(q, set)
    BY <1>1, <1>3, UpdateWrites
  <2>2. Turn(id)
    BY <1>1, <1>3, <2>1, EndTurns, Vocabulary DEF Turn
  <2>. QED
    BY <1>1, <2>1, <2>2, WriterTurned, WriterBeginsNone
<1>4. CASE Update(id, copy, ControlVerified) /\ copy.state = "verification_pending"
  <2>1. Wrote(q, ControlVerified) /\ Answering(request[q])
    BY <1>1, <1>4, UpdateWrites DEF Answering
  <2>2. Turn(id)
    BY <2>1, ProofTurns DEF CInv, Turn
  <2>. QED
    BY <1>1, <2>1, <2>2, WriterTurned, WriterBeginsNone
<1>5. Over(End("expired")) /\ Over(End("suppressed")) /\ Over(failed)
  BY Vocabulary DEF End
<1>. HIDE DEF Over, failed
<1>6. CASE \/ Update(id, copy, End("expired")) /\ copy.state = "verification_pending"
           \/ Update(id, copy, End("suppressed")) /\ copy.state = "verification_pending"
           \/ Update(id, copy, failed) /\ copy.state = "verification_pending"
  BY <1>3, <1>5, <1>6
<1>. QED
  BY <1>2, <1>4, <1>6 DEF Answer, failed

LEMMA DecideTurns ==
    ASSUME IInv, CInv, NEW q \in Requests, Decide(q)
    PROVE  Turned /\ \A i \in Ids : ~Begins(row[i], row'[i])
<1>. DEFINE id == request[q].id
            copy == request[q].copy
            Over(set) == /\ {"state", "revoked"} \subseteq DOMAIN set /\ "verified" \notin DOMAIN set
                         /\ set["state"] \in OverStates /\ set["revoked"] = now
<1>1. /\ request[q].pc = "deciding" /\ request[q].pc \in Copied /\ now' = now
      /\ Goto(q, Idle) /\ Idle.pc = "idle"
  BY DEF Decide, Copied, Idle
<1>2. Decidable(copy) => copy.state = "control_verified_review_pending"
  BY DEF Decidable
<1>3. CASE UNCHANGED row
  BY <1>1, <1>3, ReaderTurned, ReaderBeginsNone
<1>4. ASSUME NEW set, Over(set), Update(id, copy, set), Decidable(copy)
      PROVE  Turned /\ \A i \in Ids : ~Begins(row[i], row'[i])
  <2>1. Wrote(q, set)
    BY <1>1, <1>4, UpdateWrites
  <2>2. Turn(id)
    BY <1>1, <1>2, <1>4, <2>1, EndTurns, Vocabulary DEF Turn
  <2>. QED
    BY <1>1, <2>1, <2>2, WriterTurned, WriterBeginsNone
<1>5. CASE Update(id, copy, Approval) /\ Decidable(copy)
  <2>1. Wrote(q, Approval) /\ Deciding(request[q])
    BY <1>1, <1>2, <1>5, UpdateWrites DEF Deciding
  <2>2. Turn(id)
    BY <2>1, ApprovalTurns DEF CInv, Turn
  <2>. QED
    BY <1>1, <2>1, <2>2, WriterTurned, WriterBeginsNone
<1>6. Over(End("suppressed")) /\ Over(Denial)
  BY Vocabulary DEF End, Denial
<1>. HIDE DEF Over
<1>7. CASE \/ Update(id, copy, End("suppressed")) /\ Decidable(copy)
           \/ Update(id, copy, Denial) /\ Decidable(copy)
  BY <1>4, <1>6, <1>7
<1>. QED
  BY <1>3, <1>5, <1>7 DEF Decide

\* A request reads a copy.
LEMMA MoveCurrent ==
    ASSUME IInv, CInv, NEW q \in Requests, UNCHANGED <<now, row, suppressed>>,
           NEW next, Goto(q, next),
           next.pc \in {"answering", "deciding"} => next.copy = row[next.id] /\ next.id \in Ids,
           next.pc = "deciding" => OperatorTakesTime(row[next.id])
    PROVE  CInv'
<1>1. /\ request'[q] = next
      /\ \A p \in Requests \ {q} : request'[p] = request[p]
  BY DEF Goto, IInv, TypeOK
<1>2. Answering(next) => AnswerCurrent(next)
  BY Vocabulary DEF CInv, Currency, Fresh, Answering, AnswerCurrent
<1>3. Deciding(next) => DecisionCurrent(next)
  BY Vocabulary DEF CInv, Currency, Fresh, Deciding, DecisionCurrent
<1>4. ASSUME NEW p \in Requests PROVE Apart(request[p], next)
  <2>. SUFFICES ASSUME Deciding(next), request[p].pc \in {"answering", "deciding"},
                       request[p].id = next.id
                PROVE  /\ ~Answering(request[p])
                       /\ Deciding(request[p]) => /\ request[p].copy.revoked = next.copy.revoked
                                                  /\ request[p].copy.expires = next.copy.expires
    BY DEF Apart
  <2>1. /\ row[next.id].state = "control_verified_review_pending"
        /\ row[next.id].review # now + ReviewTtl /\ next.copy = row[next.id]
    BY DEF Deciding, OperatorTakesTime
  <2>. QED
    BY <2>1 DEF CInv, Currency, AnswerCurrent, DecisionCurrent
<1>5. ASSUME NEW p \in Requests PROVE Apart(next, request[p])
  <2>. SUFFICES ASSUME Deciding(request[p]), next.pc \in {"answering", "deciding"},
                       request[p].id = next.id
                PROVE  /\ ~Answering(next)
                       /\ Deciding(next) => /\ request[p].copy.revoked = next.copy.revoked
                                            /\ request[p].copy.expires = next.copy.expires
    BY DEF Apart
  <2>1. next.copy = row[next.id] /\ DecisionCurrent(request[p])
    BY DEF CInv, Currency
  <2>. QED
    BY <2>1 DEF DecisionCurrent, Answering, Deciding
<1>6. Apart(next, next)
  BY DEF Apart, Answering, Deciding
<1>7. \A p \in Requests : AnswerCurrent(request[p])' /\ DecisionCurrent(request[p])'
  <2>1. AnswerCurrent(request[q])' /\ DecisionCurrent(request[q])'
    BY <1>1, <1>2, <1>3 DEF AnswerCurrent, DecisionCurrent
  <2>2. ASSUME NEW p \in Requests, p # q
        PROVE  AnswerCurrent(request[p])' /\ DecisionCurrent(request[p])'
    BY <1>1, <2>2 DEF CInv, Currency, AnswerCurrent, DecisionCurrent
  <2>. QED
    BY <2>1, <2>2
<1>8. \A p, r \in Requests : Apart(request[p], request[r])'
  BY <1>1, <1>4, <1>5, <1>6 DEF CInv, Currency, Apart, Answering, Deciding
<1>9. Fresh' /\ OneLivePending'
  BY DEF CInv, Currency, Fresh, OneLivePending
<1>. QED
  BY <1>7, <1>8, <1>9 DEF CInv, Currency

\* Whatever a step does, a row turns or, as the clock does, stays; the copies
\* stay current.
LEMMA NextTurns ==
    ASSUME IInv, CInv, [Next]_vars
    PROVE  CInv' /\ ((now' = now /\ \A i \in Ids : Turn(i)) \/ Tick)
<1>1. ASSUME Turned, \A i \in Ids : ~Begins(row[i], row'[i])
      PROVE  CInv' /\ now' = now /\ \A i \in Ids : Turn(i)
  BY <1>1, TurnsCurrent, TurnsLive DEF CInv, Turned
<1>2. CASE \E id \in Ids : Create(id)
  BY <1>2, CreateTurns, TurnsCurrent DEF CInv, Turned
<1>3. CASE Suppress
  BY <1>1, <1>3, SuppressTurns
<1>4. CASE Tick
  <2>1. \A q \in Requests : ~Answering(request[q]) /\ ~Deciding(request[q])
    BY <1>4 DEF Tick, Answering, Deciding
  <2>2. UNCHANGED <<row, request>>
    BY <1>4 DEF Tick
  <2>3. Currency'
    BY <2>1, <2>2 DEF CInv, Currency, Fresh, AnswerCurrent, DecisionCurrent, Apart,
                      Answering, Deciding
  <2>. QED
    BY <1>4, <2>2, <2>3 DEF CInv, OneLivePending
<1>5. CASE UNCHANGED vars
  <2>1. Turned /\ \A i \in Ids : ~Begins(row[i], row'[i])
    BY <1>5, ReaderBeginsNone DEF vars, Turned, Turn, Unmoved
  <2>. QED
    BY <1>1, <2>1
<1>6. ASSUME NEW q \in Requests, Check(q) \/ Answer(q) \/ Decide(q)
      PROVE  CInv' /\ now' = now /\ \A i \in Ids : Turn(i)
  BY <1>1, <1>6, CheckTurns, AnswerTurns, DecideTurns
<1>7. ASSUME NEW q \in Requests, NEW next, Goto(q, next), UNCHANGED <<now, row, suppressed>>,
             next.pc \in {"answering", "deciding"} => next.copy = row[next.id] /\ next.id \in Ids,
             next.pc = "deciding" => OperatorTakesTime(row[next.id])
      PROVE  CInv' /\ now' = now /\ \A i \in Ids : Turn(i)
  BY <1>7, MoveCurrent DEF Turn, Unmoved
<1>8. ASSUME NEW q \in Requests, NEW id \in Ids, PreviewCheck(q, id)
      PROVE  CInv' /\ now' = now /\ \A i \in Ids : Turn(i)
  <2>. DEFINE next == [pc |-> "checking", id |-> id, copy |-> row[id]]
  <2>1. next.pc = "checking" /\ Goto(q, next) /\ UNCHANGED <<now, row, suppressed>>
    BY <1>8 DEF PreviewCheck
  <2>. HIDE DEF next
  <2>. QED
    BY <1>7, <2>1
<1>9. ASSUME NEW q \in Requests, NEW id \in Ids, NEW decision, PreviewDecision(q, id, decision)
      PROVE  CInv' /\ now' = now /\ \A i \in Ids : Turn(i)
  <2>. DEFINE next == [pc |-> "deciding", id |-> id, copy |-> row[id], decision |-> decision]
  <2>1. /\ next.id = id /\ next.copy = row[id] /\ Goto(q, next)
        /\ UNCHANGED <<now, row, suppressed>> /\ OperatorTakesTime(row[id])
    BY <1>9 DEF PreviewDecision
  <2>. HIDE DEF next
  <2>. QED
    BY <1>7, <2>1
<1>10. ASSUME NEW q \in Requests, NEW found, PreviewAnswer(q, found)
       PROVE  CInv' /\ now' = now /\ \A i \in Ids : Turn(i)
  <2>. DEFINE next == [pc |-> "answering", id |-> request[q].id, gen |-> request[q].gen,
                       copy |-> row[request[q].id], found |-> found]
  <2>1. /\ next.pc = "answering" /\ next.id = request[q].id /\ next.copy = row[next.id]
        /\ Goto(q, next) /\ UNCHANGED <<now, row, suppressed>>
    BY <1>10 DEF PreviewAnswer
  <2>2. request[q].id \in Ids
    BY <1>10 DEF IInv, Started, PreviewAnswer
  <2>. HIDE DEF next
  <2>. QED
    BY <1>7, <2>1, <2>2
<1>11. ASSUME NEW q \in Requests, FetchFails(q)
       PROVE  CInv' /\ now' = now /\ \A i \in Ids : Turn(i)
  <2>1. Idle.pc = "idle" /\ Goto(q, Idle) /\ UNCHANGED <<now, row, suppressed>>
    BY <1>11 DEF FetchFails, Idle
  <2>. QED
    BY <1>7, <2>1
<1>. QED
  BY <1>2, <1>3, <1>4, <1>5, <1>6, <1>8, <1>9, <1>10, <1>11, CreateTurns DEF Next, Turned

LEMMA InitCurrent == Init => CInv
<1>. SUFFICES ASSUME Init PROVE CInv
  OBVIOUS
<1>1. row = [id \in Ids |-> Absent] /\ \A q \in Requests : request[q] = Idle
  BY DEF Init
<1>2. \A id \in Ids : row[id].state = "absent"
  BY <1>1, AbsentType
<1>3. Fresh /\ OneLivePending
  BY <1>2, Vocabulary DEF Fresh, OneLivePending
<1>4. \A q \in Requests : request[q].pc = "idle"
  BY <1>1 DEF Idle
<1>. QED
  BY <1>3, <1>4 DEF CInv, Currency, AnswerCurrent, DecisionCurrent, Apart, Answering, Deciding

LEMMA CopiesAreCurrent == Spec => []CInv
<1>1. IInv /\ CInv /\ [Next]_vars => CInv'
  BY NextTurns
<1>. QED
  BY InitCurrent, <1>1, EligibilityIsSound, PTL DEF Spec

\* However many requests race, one verification at a time is on its way: a
\* stale answer may make a superseded one wait for the operator, but leaves it
\* revoked.
THEOREM OneAtATime == Spec => []OneLivePending
<1>1. CInv => OneLivePending
  BY DEF CInv
<1>. QED
  BY <1>1, CopiesAreCurrent, PTL

\* An eligibility that has run out stays so, for any number of operators that
\* decide at once.
THEOREM LapseIsFinal == Spec => LapsedIsFinal
<1>1. ASSUME IInv, CInv, [Next]_vars, NEW id \in Ids,
             row[id].state = "eligible_verified_self", ~Valid(row[id])
      PROVE  ~Valid(row[id])'
  <2>1. CASE now' = now /\ Turn(id)
    BY <1>1, <2>1, LapsedTurn DEF CInv
  <2>2. CASE Tick
    <3>1. row' = row /\ now' = now + 1 /\ now \in Nat /\ row[id].expires \in Nat
      BY <1>1, <2>2 DEF Tick, IInv, TypeOK, Verifications
    <3>. QED
      BY <1>1, <3>1 DEF Valid
  <2>. QED
    BY <1>1, <2>1, <2>2, NextTurns
<1>2. IInv /\ CInv /\ [Next]_vars =>
         \A id \in Ids : row[id].state = "eligible_verified_self" /\ ~Valid(row[id])
                            => ~Valid(row[id])'
  BY <1>1
<1>. QED
  BY <1>2, EligibilityIsSound, CopiesAreCurrent, PTL DEF Spec, LapsedIsFinal

=============================================================================
