------------------------------ MODULE Eligibility ------------------------------
(***************************************************************************)
(* The verifications of one owner for one profile: the challenge, the      *)
(* checks of the public profile, the operator's decision, suppression and  *)
(* expiry.                                                                 *)
(*                                                                         *)
(* A check and a decision read their row once before they wait for the     *)
(* advisory lock of the profile.  The locked SELECT that follows returns   *)
(* the object the session already holds, so they decide on the copy and    *)
(* write only the columns whose value differs from the copy.  Creation and *)
(* suppression take the lock before their first read.                      *)
(***************************************************************************)
EXTENDS Naturals

CONSTANTS
    Ids,             \* verification ids
    Requests,        \* requests the API serves at a time
    MaxAttempts,     \* eligibility_max_attempts
    Cooldown,        \* ticks between two checks
    ChallengeTtl, ReviewTtl, ApprovalTtl,
    Horizon          \* bound: the last instant

ASSUME EligibilityAssumption ==
    /\ MaxAttempts \in Nat \ {0} /\ Cooldown \in Nat /\ Horizon \in Nat \ {0}
    /\ ChallengeTtl \in Nat \ {0} /\ ReviewTtl \in Nat \ {0} /\ ApprovalTtl \in Nat \ {0}

VARIABLES
    now,
    row,             \* the eligibility_verification table
    suppressed,      \* there is an active suppression record
    request

vars == <<now, row, suppressed, request>>

-----------------------------------------------------------------------------
(* Rows; 0 is a NULL timestamp. *)

PendingStates == {"verification_pending", "control_verified_review_pending"}

OverStates == {"superseded", "expired", "suppressed", "verification_failed", "ineligible"}

States == {"absent", "eligible_verified_self"} \cup PendingStates \cup OverStates

Verifications == [state : States, token : BOOLEAN, attempts : Nat, last : Nat,
                  review : Nat, expires : Nat, subject : BOOLEAN,
                  verified : BOOLEAN, revoked : Nat]

Absent == [state |-> "absent", token |-> FALSE, attempts |-> 0, last |-> 0,
           review |-> 0, expires |-> 0, subject |-> FALSE,
           verified |-> FALSE, revoked |-> 0]

\* The challenge expires with the new row.
NewVerification ==
    [Absent EXCEPT !.state = "verification_pending", !.token = TRUE,
                   !.expires = now + ChallengeTtl]

IsExpired(v) ==
    IF v.state = "control_verified_review_pending" THEN v.review <= now ELSE v.expires <= now

\* get_valid_eligibility: what admits and keeps a Fast Brief job.
Valid(v) ==
    /\ v.state = "eligible_verified_self"
    /\ v.verified
    /\ v.expires > now
    /\ v.revoked = 0

\* The UPDATE the session emits: an assigned column is written if its value
\* differs from the copy; two timestamps always differ.
Written(copy, set, c) ==
    /\ c \in DOMAIN set
    /\ set[c] # copy[c] \/ (c = "revoked" /\ set[c] # 0)

Update(id, copy, set) ==
    row' = [row EXCEPT ![id] = [c \in DOMAIN @ |->
                                  IF Written(copy, set, c) THEN set[c] ELSE @[c]]]

\* How a verification ends.
End(state) == [state |-> state, revoked |-> now, token |-> FALSE]

-----------------------------------------------------------------------------
(* Requests *)

Idle == [pc |-> "idle"]

RequestStates ==
    {Idle}
    \cup [pc : {"checking"}, id : Ids, copy : Verifications]
    \cup [pc : {"fetching"}, id : Ids, gen : Nat]
    \cup [pc : {"answering"}, id : Ids, gen : Nat, copy : Verifications, found : BOOLEAN]
    \cup [pc : {"deciding"}, id : Ids, copy : Verifications, decision : {"approve", "deny"}]

TypeOK ==
    /\ now \in Nat
    /\ row \in [Ids -> Verifications]
    /\ suppressed \in BOOLEAN
    /\ request \in [Requests -> RequestStates]

Goto(q, state) == request' = [request EXCEPT ![q] = state]

Init ==
    /\ now = 1
    /\ row = [id \in Ids |-> Absent]
    /\ suppressed = FALSE
    /\ request = [q \in Requests |-> Idle]

-----------------------------------------------------------------------------
(* create_verification *)

\* Mutant: a verification that waits for the operator is not superseded.
SupersededIfUnchecked(v) == v.state = "verification_pending" /\ v.revoked = 0

SupersededByNewOne(v) == v.state \in PendingStates /\ v.revoked = 0

Create(id) ==
    /\ row[id] = Absent
    /\ ~suppressed
    /\ row' = [i \in Ids |->
                 IF i = id THEN NewVerification
                 ELSE IF SupersededByNewOne(row[i])
                      THEN [row[i] EXCEPT !.state = "superseded", !.revoked = now,
                                          !.token = FALSE]
                      ELSE row[i]]
    /\ UNCHANGED <<now, suppressed, request>>

-----------------------------------------------------------------------------
(* complete_control_verification *)

\* The read before the lock, of the first transaction.
PreviewCheck(q, id) ==
    /\ request[q] = Idle
    /\ row[id] # Absent
    /\ Goto(q, [pc |-> "checking", id |-> id, copy |-> row[id]])
    /\ UNCHANGED <<now, row, suppressed>>

CoolingDown(v) == v.last # 0 /\ v.last + Cooldown > now

\* The first transaction under the lock: refuse, or count the check.
Check(q) ==
    LET id == request[q].id
        copy == request[q].copy
        Refuse == Goto(q, Idle)
    IN
    /\ request[q].pc = "checking"
    /\ UNCHANGED <<now, suppressed>>
    /\ \/ /\ copy.state # "verification_pending" \/ IsExpired(copy)
          /\ Refuse
          /\ UNCHANGED row
       \/ /\ copy.state = "verification_pending" /\ ~IsExpired(copy)
          /\ \/ /\ suppressed
                /\ Update(id, copy, End("suppressed"))
                /\ Refuse
             \/ /\ ~suppressed /\ copy.attempts >= MaxAttempts
                /\ Update(id, copy, End("verification_failed"))
                /\ Refuse
             \/ /\ ~suppressed /\ copy.attempts < MaxAttempts /\ CoolingDown(copy)
                /\ Refuse
                /\ UNCHANGED row
             \/ /\ ~suppressed /\ copy.attempts < MaxAttempts /\ ~CoolingDown(copy)
                /\ Update(id, copy, [attempts |-> copy.attempts + 1, last |-> now])
                /\ Goto(q, [pc |-> "fetching", id |-> id, gen |-> copy.attempts + 1])

\* GitHub answers with an error, or the process dies: nothing is written.
FetchFails(q) ==
    /\ request[q].pc = "fetching"
    /\ Goto(q, Idle)
    /\ UNCHANGED <<now, row, suppressed>>

\* The profile is there; the second transaction reads before it locks.
PreviewAnswer(q, found) ==
    /\ request[q].pc = "fetching"
    /\ Goto(q, [pc |-> "answering", id |-> request[q].id, gen |-> request[q].gen,
                copy |-> row[request[q].id], found |-> found])
    /\ UNCHANGED <<now, row, suppressed>>

\* Mutant: the challenge is kept although it has served.
ControlVerifiedKeepsToken ==
    [state |-> "control_verified_review_pending", subject |-> TRUE,
     review |-> now + ReviewTtl, expires |-> now + ReviewTtl]

ControlVerified ==
    [state |-> "control_verified_review_pending", subject |-> TRUE, token |-> FALSE,
     review |-> now + ReviewTtl, expires |-> now + ReviewTtl]

Answer(q) ==
    LET id == request[q].id
        copy == request[q].copy
        fresh == copy.state = "verification_pending" /\ copy.attempts = request[q].gen
        open == fresh /\ ~IsExpired(copy) /\ ~suppressed
    IN
    /\ request[q].pc = "answering"
    /\ \/ ~fresh /\ UNCHANGED row
       \/ fresh /\ IsExpired(copy) /\ Update(id, copy, End("expired"))
       \/ fresh /\ ~IsExpired(copy) /\ suppressed /\ Update(id, copy, End("suppressed"))
       \/ open /\ request[q].found /\ Update(id, copy, ControlVerified)
       \/ /\ open /\ ~request[q].found /\ copy.attempts >= MaxAttempts
          /\ Update(id, copy, [state |-> "verification_failed", revoked |-> now,
                               token |-> FALSE, expires |-> now])
       \/ open /\ ~request[q].found /\ copy.attempts < MaxAttempts /\ UNCHANGED row
    /\ Goto(q, Idle)
    /\ UNCHANGED <<now, suppressed>>

-----------------------------------------------------------------------------
(* decide_verification *)

\* The operator looks at the profile first: no decision falls in the tick
\* that proved control.
OperatorTakesTime(v) == v.review # now + ReviewTtl

PreviewDecision(q, id, decision) ==
    /\ request[q] = Idle
    /\ row[id] # Absent
    /\ OperatorTakesTime(row[id])
    /\ Goto(q, [pc |-> "deciding", id |-> id, copy |-> row[id], decision |-> decision])
    /\ UNCHANGED <<now, row, suppressed>>

\* Mutant: the operator may approve once more what was approved before.
DecidableAgain(v) ==
    /\ v.state \in {"control_verified_review_pending", "eligible_verified_self"}
    /\ v.state = "control_verified_review_pending" => ~IsExpired(v)
    /\ v.subject

Decidable(v) == v.state = "control_verified_review_pending" /\ ~IsExpired(v) /\ v.subject

Approval == [state |-> "eligible_verified_self", verified |-> TRUE,
             expires |-> now + ApprovalTtl, revoked |-> 0]

Denial == [state |-> "ineligible", revoked |-> now, expires |-> now]

\* Mutant: the suppression record is looked up when the review begins only.
DecideUnchecked(q) ==
    LET id == request[q].id
        copy == request[q].copy
    IN
    /\ request[q].pc = "deciding"
    /\ \/ ~Decidable(copy) /\ UNCHANGED row
       \/ Decidable(copy) /\ request[q].decision = "approve" /\ Update(id, copy, Approval)
       \/ Decidable(copy) /\ request[q].decision = "deny" /\ Update(id, copy, Denial)
    /\ Goto(q, Idle)
    /\ UNCHANGED <<now, suppressed>>

Decide(q) ==
    LET id == request[q].id
        copy == request[q].copy
        approve == request[q].decision = "approve"
    IN
    /\ request[q].pc = "deciding"
    /\ \/ ~Decidable(copy) /\ UNCHANGED row
       \/ Decidable(copy) /\ suppressed /\ Update(id, copy, End("suppressed"))
       \/ Decidable(copy) /\ ~suppressed /\ approve /\ Update(id, copy, Approval)
       \/ Decidable(copy) /\ ~suppressed /\ ~approve /\ Update(id, copy, Denial)
    /\ Goto(q, Idle)
    /\ UNCHANGED <<now, suppressed>>

-----------------------------------------------------------------------------
(* suppress_profile, time *)

Suppress ==
    /\ suppressed' = TRUE
    /\ row' = [id \in Ids |->
                 IF row[id] # Absent /\ row[id].revoked = 0
                 THEN [row[id] EXCEPT !.state = "suppressed", !.revoked = now, !.token = FALSE]
                 ELSE row[id]]
    /\ UNCHANGED <<now, request>>

\* A tick is long against the wait for a lock.
Tick ==
    /\ now < Horizon
    /\ \A q \in Requests : request[q].pc \in {"idle", "fetching"}
    /\ now' = now + 1
    /\ UNCHANGED <<row, suppressed, request>>

Next ==
    \/ \E id \in Ids : Create(id)
    \/ \E q \in Requests :
          \/ \E id \in Ids : PreviewCheck(q, id)
          \/ \E id \in Ids, decision \in {"approve", "deny"} : PreviewDecision(q, id, decision)
          \/ \E found \in BOOLEAN : PreviewAnswer(q, found)
          \/ Check(q) \/ FetchFails(q) \/ Answer(q) \/ Decide(q)
    \/ Suppress
    \/ Tick

Spec == Init /\ [][Next]_vars

-----------------------------------------------------------------------------
(* Properties *)

\* docs/privacy.md:105: a suppression "blocks new verification/work,
\* invalidates matching eligibility": also for a decision that read its row
\* before the suppression came.
SuppressedIsOver == suppressed => \A id \in Ids : ~Valid(row[id])

\* docs/architecture.md:47: the challenge "is cleared when the flow terminates
\* or advances", whoever ends it.
TokenOnlyPending == \A id \in Ids : row[id].token => row[id].state = "verification_pending"

\* However checks, decisions and new requests interleave, one verification at
\* a time is on its way (create_verification supersedes the others).
OneLivePending ==
    LET Live(id) == row[id].state \in PendingStates /\ row[id].revoked = 0
    IN  \A i, j \in Ids : Live(i) /\ Live(j) => i = j

\* An eligibility that has run out does not come back, however many decisions
\* race: what FastBrief expects of a reference (get_valid_eligibility,
\* decide_verification).
LapsedIsFinal ==
    [][\A id \in Ids : row[id].state = "eligible_verified_self" /\ ~Valid(row[id])
                       => ~Valid(row[id])']_vars

\* contracts/openapi.yaml (createSearchJob): a reference admits a job only when
\* it "has not expired or been revoked".  A stale answer and the approval after
\* it clear the revocation of a superseded verification.
RevokedIsFinal ==
    [][\A id \in Ids : row[id].revoked # 0 => ~Valid(row[id])']_vars

================================================================================
