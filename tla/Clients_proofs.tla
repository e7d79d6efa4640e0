---------------------------- MODULE Clients_proofs ----------------------------
(***************************************************************************)
(* Proofs about an owner's clients, for every number of requests, keys,    *)
(* jobs, retries, candidates, groups in a page and jobs in a batch:        *)
(* requests that race agree (RequestsAgree), a page at rest shows the end  *)
(* of its job (RestsOnTheEnd), and the history drawer tells the truth      *)
(* (DrawerTellsTheTruth).                                                  *)
(*                                                                         *)
(* The theorem about requests is that of Admission_proofs; here it is      *)
(* carried over to a behaviour in which the other clients move as well.    *)
(* The page is proved by an invariant that says how old what it shows may  *)
(* be (Faithful), the drawer by one that says where a list goes on (Told). *)
(***************************************************************************)
EXTENDS MCClients, FiniteSetTheorems, TLAPS

Admitted == INSTANCE Admission_proofs

-----------------------------------------------------------------------------
(* Requests: the instance of the module and that of its proofs agree *)

LEMMA SameRequests == Requested!Next <=> Admitted!Next
<1> USE DEF Requested!Jobs, Admitted!Jobs, Requested!Kinds, Admitted!Kinds,
      Requested!Unborn, Admitted!Unborn, Requested!Live, Admitted!Live,
      Requested!RowFree, Admitted!RowFree, Requested!AdvisoryFree,
      Admitted!AdvisoryFree, Requested!KeyHolders, Admitted!KeyHolders,
      Requested!WaitsFor, Admitted!WaitsFor, Requested!Deadlocked,
      Admitted!Deadlocked, Requested!Latest, Admitted!Latest, Requested!Set,
      Admitted!Set, Requested!Ended, Admitted!Ended, Requested!Idle,
      Admitted!Idle, Requested!Recorded, Admitted!Recorded,
      Requested!SamePayload, Admitted!SamePayload, Requested!Answer,
      Admitted!Answer, Requested!Forget, Admitted!Forget, Requested!Gone,
      Admitted!Gone, Requested!GiveUpLookup, Admitted!GiveUpLookup,
      Requested!NoRecord, Admitted!NoRecord
<1>1. \A q : Requested!LockSource(q) <=> Admitted!LockSource(q)
  BY DEF Requested!LockSource, Admitted!LockSource
<1>2. \A q : Requested!Lookup(q) <=> Admitted!Lookup(q)
  BY DEF Requested!Lookup, Admitted!Lookup
<1>3. \A q : Requested!LockHistory(q) <=> Admitted!LockHistory(q)
  BY DEF Requested!LockHistory, Admitted!LockHistory
<1>4. \A q : Requested!LockRow(q) <=> Admitted!LockRow(q)
  BY DEF Requested!LockRow, Admitted!LockRow
<1>5. \A q : Requested!Choose(q) <=> Admitted!Choose(q)
  BY DEF Requested!Choose, Admitted!Choose
<1>6. \A q : Requested!Claim(q) <=> Admitted!Claim(q)
  BY DEF Requested!Claim, Admitted!Claim
<1>7. \A q : Requested!Commit(q) <=> Admitted!Commit(q)
  BY DEF Requested!Commit, Admitted!Commit
<1>8. \A q : Requested!Replay(q) <=> Admitted!Replay(q)
  BY DEF Requested!Replay, Admitted!Replay
<1>9. \A q : Requested!LockTarget(q) <=> Admitted!LockTarget(q)
  BY DEF Requested!LockTarget, Admitted!LockTarget
<1>10. \A q : Requested!LockLineage(q) <=> Admitted!LockLineage(q)
  BY DEF Requested!LockLineage, Admitted!LockLineage
<1>11. \A q : Requested!Erase(q) <=> Admitted!Erase(q)
  BY DEF Requested!Erase, Admitted!Erase
<1>12. \A q : Requested!BreakDeadlock(q) <=> Admitted!BreakDeadlock(q)
  BY DEF Requested!BreakDeadlock, Admitted!BreakDeadlock
<1>13. \A q : Requested!LookupFails(q) <=> Admitted!LookupFails(q)
  BY DEF Requested!LookupFails, Admitted!LookupFails
<1>14. \A q : Requested!Refuse(q) <=> Admitted!Refuse(q)
  BY DEF Requested!Refuse, Admitted!Refuse
<1>20. \A j : Requested!Finish(j) <=> Admitted!Finish(j)
  BY DEF Requested!Finish, Admitted!Finish
<1>21. \A q, kind, key, source : Requested!Begin(q, kind, key, source) <=> Admitted!Begin(q, kind, key, source)
  BY DEF Requested!Begin, Admitted!Begin, Requested!Cardinality, Admitted!Cardinality
<1>22. \A q : Requested!Step(q) <=> Admitted!Step(q)
  BY <1>1, <1>2, <1>3, <1>4, <1>5, <1>6, <1>7, <1>8, <1>9, <1>10, <1>11, <1>12 DEF Requested!Step, Admitted!Step
<1>23. /\ Requested!Kinds = Admitted!Kinds /\ Requested!Jobs = Admitted!Jobs
       /\ Requested!Jobs \cup {0} = Admitted!Jobs \cup {0}
  OBVIOUS
<1> HIDE DEF Requested!Kinds, Requested!Jobs, Admitted!Kinds, Admitted!Jobs
<1>24. ASSUME Requested!Next PROVE Admitted!Next
  BY <1>13, <1>14, <1>20, <1>21, <1>22, <1>23, <1>24 DEF Requested!Next, Admitted!Next
<1>25. ASSUME Admitted!Next PROVE Requested!Next
  BY <1>13, <1>14, <1>20, <1>21, <1>22, <1>23, <1>25 DEF Requested!Next, Admitted!Next
<1> QED BY <1>24, <1>25

LEMMA SameRequestsInit == Requested!Init <=> Admitted!Init
BY DEF Requested!Init, Admitted!Init, Requested!Jobs, Admitted!Jobs, Requested!Idle,
       Admitted!Idle, Requested!NoRecord, Admitted!NoRecord

LEMMA SameAgreement ==
    Admitted!TypeOK /\ Admitted!OneJobPerKey /\ Admitted!NoTwins
        /\ Admitted!RecordsOfLiveJobs /\ Admitted!LineageIsLive
    => RequestsAgree
<1> USE DEF Requested!Jobs, Admitted!Jobs, Requested!Kinds, Admitted!Kinds, Requested!Live,
            Admitted!Live
<1>1. Admitted!TypeOK => Requested!TypeOK
  BY DEF Requested!TypeOK, Admitted!TypeOK, Requested!JobRows, Admitted!JobRows,
         Requested!JobStates, Admitted!JobStates, Requested!Records, Admitted!Records,
         Requested!RequestRows, Admitted!RequestRows
<1>2. Admitted!OneJobPerKey => Requested!OneJobPerKey
  BY DEF Requested!OneJobPerKey, Admitted!OneJobPerKey, Requested!Cardinality,
         Admitted!Cardinality
<1>3. Admitted!NoTwins => Requested!NoTwins
  BY DEF Requested!NoTwins, Admitted!NoTwins
<1>4. Admitted!RecordsOfLiveJobs => Requested!RecordsOfLiveJobs
  BY DEF Requested!RecordsOfLiveJobs, Admitted!RecordsOfLiveJobs
<1>5. Admitted!LineageIsLive => Requested!LineageIsLive
  BY DEF Requested!LineageIsLive, Admitted!LineageIsLive
<1> QED BY <1>1, <1>2, <1>3, <1>4, <1>5 DEF RequestsAgree

LEMMA RequestsAssumed == Admitted!AdmissionAssumption
BY ClientsAssumption
DEF Requested!AdmissionAssumption, Admitted!AdmissionAssumption, Requested!IsFiniteSet,
    Admitted!IsFiniteSet

\* Whatever the other clients do, and in whichever part of the run, requests
\* that race for a key, a result or a job agree on one.
THEOREM ClientsAgree == FairSpec => []RequestsAgree
<1>1. Init => Admitted!Agreed
  BY RequestsAssumed, SameRequestsInit, Admitted!InitAgreed DEF Init
<1>2. Admitted!Agreed /\ [Next]_vars => Admitted!Agreed'
  <2> SUFFICES ASSUME Admitted!Agreed, [Next]_vars PROVE Admitted!Agreed'
    OBVIOUS
  <2>1. Requested!Next \/ UNCHANGED requestVars
    BY DEF Next, vars, OnlyDrawer, OnlyPage
  <2>2. [Admitted!Next]_(Admitted!vars)
    BY <2>1, SameRequests DEF requestVars, Admitted!vars
  <2> QED BY <2>2, RequestsAssumed, Admitted!NextKeeps
<1>3. Admitted!Agreed => RequestsAgree
  BY RequestsAssumed, Admitted!KeyHasOneJob, SameAgreement DEF Admitted!Agreed
<1> QED BY <1>1, <1>2, <1>3, PTL DEF FairSpec

-----------------------------------------------------------------------------
(* The page of a job *)

Ended == JobView!Terminal

\* An answer that the job is over is not contradicted later.
Lasting(answer) == answer \in Ended => server.state \in {answer, "missing"}

AnswersLast ==
    /\ poll.pc = "job" /\ poll.answered => Lasting(poll.answer)
    /\ poll.pc \in {"candidates", "brief"} => Lasting(poll.current)

\* The loop goes on from the job the page shows, unless the owner's click has
\* replaced it; a new loop then takes over.
LoopShowsItsJob ==
    poll.pc \in {"candidates", "brief"} /\ ~poll.restart => page.job = poll.current

\* Candidates that were asked for after the job was over are all there are.
LastCandidates ==
    /\ poll.pc = "candidates" /\ poll.answered /\ poll.current \in Ended
         /\ poll.answer \in JobView!States
       => server.state = "missing" \/ poll.found = server.found
    /\ poll.pc = "brief" =>
          /\ poll.current = "report"
          /\ server.state = "missing" \/ page.candidates = server.found

ShowsTheEnd ==
    \/ server.state = "missing"
    \/ /\ page.job = server.state /\ server.state \in Ended
       /\ page.candidates = server.found
       /\ ~page.waiting
       /\ page.job = "report" => page.brief \/ page.error

\* A loop that ended, with nothing to say about a failure, ended with the job.
EndsWithTheJob == poll.pc = "idle" /\ ~poll.restart /\ ~page.stopped => ShowsTheEnd

Faithful ==
    /\ JobView!TypeOK
    /\ AnswersLast /\ LoopShowsItsJob /\ LastCandidates /\ EndsWithTheJob

Answers == JobView!Shown \cup JobView!Errors

PageRows == [job : JobView!Shown, candidates : 0 .. MaxFound, brief : BOOLEAN,
             waiting : BOOLEAN, stopped : BOOLEAN, error : BOOLEAN, selecting : BOOLEAN,
             stopping : BOOLEAN]

PollRows == [pc : {"idle", "job", "candidates", "brief"}, answered : BOOLEAN,
             answer : Answers, found : 0 .. MaxFound, current : JobView!Shown,
             retries : 0 .. MaxRetries, restart : BOOLEAN]

ActRows == [kind : {"none", "stop", "choose"}, answered : BOOLEAN,
            answer : Answers \cup {"unavailable"}]

ServerRows == [state : JobView!States \cup {"missing"}, found : 0 .. MaxFound]

TypedRows ==
    /\ server \in ServerRows /\ readable \in BOOLEAN
    /\ page \in PageRows /\ poll \in PollRows /\ act \in ActRows

LEMMA Typed == (JobView!TypeOK <=> TypedRows) /\ (JobView!TypeOK' <=> TypedRows')
BY DEF TypedRows, JobView!TypeOK, ServerRows, PageRows, PollRows, ActRows, Answers

LEMMA Names ==
    /\ "nothing" \in Answers /\ "nothing" \in JobView!Shown /\ "active" \in JobView!Shown
    /\ \A s \in JobView!States : s \in JobView!Shown
    /\ MaxRetries \in Nat /\ MaxFound \in Nat
    /\ 0 \in 0 .. MaxRetries /\ 0 \in 0 .. MaxFound
<1>1. MaxRetries \in Nat /\ MaxFound \in Nat
  BY ClientsAssumption DEF JobView!JobPageAssumption
<1> QED BY <1>1 DEF Answers, JobView!Shown, JobView!States

\* Every way the loop's row changes keeps its type.
LEMMA PollStaysTyped ==
    ASSUME NEW p \in PollRows
    PROVE  /\ \A answer \in Answers, found \in 0 .. MaxFound :
                [p EXCEPT !.answered = TRUE, !.answer = answer, !.found = found] \in PollRows
           /\ p.retries < MaxRetries =>
                [JobView!Ask(p, "job") EXCEPT !.retries = @ + 1] \in PollRows
           /\ \A s \in JobView!Shown :
                [JobView!Ask(p, "candidates") EXCEPT !.current = s] \in PollRows
           /\ \A pc \in {"job", "brief"} :
                [JobView!Ask(p, pc) EXCEPT !.retries = 0] \in PollRows
           /\ JobView!Rest(p) \in PollRows
           /\ JobView!NewPoll \in PollRows
           /\ [p EXCEPT !.restart = TRUE] \in PollRows
<1>1. ASSUME NEW answer \in Answers, NEW found \in 0 .. MaxFound
      PROVE  [p EXCEPT !.answered = TRUE, !.answer = answer, !.found = found] \in PollRows
  BY DEF PollRows
<1>2. ASSUME NEW pc \in {"job", "candidates", "brief"}
      PROVE  /\ JobView!Ask(p, pc) \in PollRows
             /\ JobView!Ask(p, pc).retries = p.retries
  BY Names DEF PollRows, JobView!Ask
<1>3. ASSUME p.retries < MaxRetries
      PROVE  [JobView!Ask(p, "job") EXCEPT !.retries = @ + 1] \in PollRows
  <2> DEFINE r == JobView!Ask(p, "job")
  <2>1. r \in PollRows /\ r.retries = p.retries
    BY <1>2
  <2> HIDE DEF r
  <2>2. r.retries + 1 \in 0 .. MaxRetries
    <3>1. r.retries \in 0 .. MaxRetries
      BY <2>1 DEF PollRows
    <3> QED BY <1>3, <2>1, <3>1, Names
  <2>3. [r EXCEPT !.retries = r.retries + 1] \in PollRows
    BY <2>1, <2>2 DEF PollRows
  <2> QED BY <2>3 DEF r
<1>4. ASSUME NEW s \in JobView!Shown
      PROVE  [JobView!Ask(p, "candidates") EXCEPT !.current = s] \in PollRows
  <2> DEFINE r == JobView!Ask(p, "candidates")
  <2>1. r \in PollRows
    BY <1>2
  <2> HIDE DEF r
  <2>2. [r EXCEPT !.current = s] \in PollRows
    BY <2>1 DEF PollRows
  <2> QED BY <2>2 DEF r
<1>5. ASSUME NEW pc \in {"job", "brief"}
      PROVE  [JobView!Ask(p, pc) EXCEPT !.retries = 0] \in PollRows
  <2> DEFINE r == JobView!Ask(p, pc)
  <2>1. r \in PollRows
    BY <1>2
  <2> HIDE DEF r
  <2>2. [r EXCEPT !.retries = 0] \in PollRows
    BY <2>1, Names DEF PollRows
  <2> QED BY <2>2 DEF r
<1>6. JobView!Rest(p) \in PollRows /\ JobView!NewPoll \in PollRows
  BY Names DEF PollRows, JobView!Rest, JobView!NewPoll, JobView!NoPoll
<1>7. [p EXCEPT !.restart = TRUE] \in PollRows
  BY DEF PollRows
<1> QED BY <1>1, <1>3, <1>4, <1>5, <1>6, <1>7

\* What those changes leave in the row.
LEMMA PollFields ==
    ASSUME NEW p \in PollRows
    PROVE  /\ \A answer, found :
                LET r == [p EXCEPT !.answered = TRUE, !.answer = answer, !.found = found]
                IN  /\ r.pc = p.pc /\ r.current = p.current /\ r.restart = p.restart
                    /\ r.answer = answer /\ r.found = found
           /\ LET r == [JobView!Ask(p, "job") EXCEPT !.retries = @ + 1]
              IN  r.pc = "job" /\ ~r.answered
           /\ \A s : LET r == [JobView!Ask(p, "candidates") EXCEPT !.current = s]
                     IN  r.pc = "candidates" /\ ~r.answered /\ r.current = s
           /\ \A pc : LET r == [JobView!Ask(p, pc) EXCEPT !.retries = 0]
                      IN  r.pc = pc /\ ~r.answered /\ r.current = p.current /\ r.restart = p.restart
           /\ JobView!Rest(p).pc = "idle" /\ JobView!Rest(p).restart = p.restart
           /\ JobView!NewPoll.pc = "job" /\ ~JobView!NewPoll.answered
           /\ LET r == [p EXCEPT !.restart = TRUE]
              IN  /\ r.pc = p.pc /\ r.answered = p.answered /\ r.answer = p.answer
                  /\ r.found = p.found /\ r.current = p.current /\ r.restart
BY DEF PollRows, JobView!Ask, JobView!Rest, JobView!NewPoll, JobView!NoPoll

USE DEF Ended, JobView!Terminal, JobView!States, JobView!Errors, JobView!Shown

\* A step of the server: a job that is over changes no more, but may go.
LEMMA ServerKeeps ==
    ASSUME Faithful, UNCHANGED <<page, poll>>, JobView!TypeOK',
           server.state \in Ended =>
               server'.state \in {server.state, "missing"} /\ server'.found = server.found,
           server.state = "missing" => server'.state = "missing"
    PROVE  Faithful'
<1>1. AnswersLast'
  BY DEF Faithful, AnswersLast, Lasting
<1>2. LoopShowsItsJob'
  BY DEF Faithful, LoopShowsItsJob
<1>3. LastCandidates'
  BY DEF Faithful, LastCandidates, AnswersLast, Lasting
<1>4. EndsWithTheJob'
  BY DEF Faithful, EndsWithTheJob, ShowsTheEnd
<1> QED BY <1>1, <1>2, <1>3, <1>4 DEF Faithful

LEMMA ServeKeeps ==
    ASSUME Faithful, JobView!Serve \/ JobView!Vanish \/ JobView!SwitchReads
    PROVE  Faithful'
<1>1. server \in [state : JobView!States \cup {"missing"}, found : 0 .. MaxFound]
      /\ readable \in BOOLEAN /\ MaxFound \in Nat
  BY ClientsAssumption DEF Faithful, JobView!TypeOK, JobView!JobPageAssumption
<1>2. UNCHANGED <<page, poll, act>>
  BY DEF JobView!Serve, JobView!Find, JobView!Await, JobView!WindowCloses, JobView!End,
         JobView!Vanish, JobView!SwitchReads, JobView!ServerOnly
<1>3. /\ server' \in [state : JobView!States \cup {"missing"}, found : 0 .. MaxFound]
      /\ server.state \in Ended =>
            server'.state \in {server.state, "missing"} /\ server'.found = server.found
      /\ server.state = "missing" => server'.state = "missing"
      /\ readable' \in BOOLEAN
  <2>1. CASE JobView!Find
    BY <2>1, <1>1 DEF JobView!Find
  <2>2. CASE JobView!Await \/ JobView!WindowCloses \/ \E s \in Ended : JobView!End(s)
    BY <2>2, <1>1 DEF JobView!Await, JobView!WindowCloses, JobView!End
  <2>3. CASE JobView!Vanish \/ JobView!SwitchReads
    BY <2>3, <1>1 DEF JobView!Vanish, JobView!SwitchReads
  <2> QED BY <2>1, <2>2, <2>3 DEF JobView!Serve
<1>4. JobView!TypeOK'
  BY <1>2, <1>3 DEF Faithful, JobView!TypeOK
<1> QED BY <1>2, <1>3, <1>4, ServerKeeps

-----------------------------------------------------------------------------
(* The polling loop *)

\* What the page and the loop may do at a step of the loop that has no answer to
\* a click in it: they keep their types, and the loop rests only when it gave up
\* or shows the end.
LEMMA LoopKeeps ==
    ASSUME Faithful, UNCHANGED <<server, readable, act>>, JobView!TypeOK',
           AnswersLast', LoopShowsItsJob', LastCandidates',
           poll'.pc = "idle" /\ ~poll'.restart /\ ~page'.stopped => ShowsTheEnd'
    PROVE  Faithful'
BY DEF Faithful, EndsWithTheJob

LEMMA AskedKeeps ==
    ASSUME Faithful, poll.pc # "idle", ~poll.answered,
           NEW answer \in JobView!Shown \cup JobView!Errors, NEW found \in 0 .. MaxFound,
           JobView!Asked(answer, found),
           answer \in JobView!States => answer = server.state /\ found = server.found
    PROVE  Faithful'
<1>1. /\ UNCHANGED <<server, readable, page, act>>
      /\ poll' = [poll EXCEPT !.answered = TRUE, !.answer = answer, !.found = found]
  BY DEF JobView!Asked
<1>2. JobView!TypeOK'
  BY <1>1, Typed, PollStaysTyped DEF TypedRows, Faithful, Answers
<1>3. /\ poll'.pc = poll.pc /\ poll'.current = poll.current /\ poll'.restart = poll.restart
      /\ poll'.answer = answer /\ poll'.found = found
  BY <1>1, Typed, PollFields DEF TypedRows, Faithful
<1>4. AnswersLast' /\ LoopShowsItsJob' /\ LastCandidates'
  BY <1>1, <1>3 DEF Faithful, AnswersLast, Lasting, LoopShowsItsJob, LastCandidates
<1> QED BY <1>1, <1>2, <1>3, <1>4, LoopKeeps

LEMMA ServePollKeeps ==
    ASSUME Faithful, JobView!ServePoll \/ JobView!Unanswered PROVE Faithful'
<1>1. /\ server.state \in JobView!States \cup {"missing"}
      /\ server.found \in 0 .. MaxFound
      /\ 0 \in 0 .. MaxFound
  BY ClientsAssumption DEF Faithful, JobView!TypeOK, JobView!JobPageAssumption
<1>2. PICK answer \in JobView!Shown \cup JobView!Errors, found \in 0 .. MaxFound :
        /\ JobView!Asked(answer, found)
        /\ answer \in JobView!States => answer = server.state /\ found = server.found
  BY <1>1 DEF JobView!ServePoll, JobView!Unanswered
<1> QED BY <1>2, AskedKeeps DEF JobView!ServePoll, JobView!Unanswered

LEMMA FailKeeps ==
    ASSUME Faithful, JobView!FailRefresh, UNCHANGED <<server, readable, act>>
    PROVE  Faithful'
<1>2. CASE /\ poll.answer = "transient" /\ poll.retries < MaxRetries
           /\ poll' = [JobView!Ask(poll, "job") EXCEPT !.retries = @ + 1]
           /\ page' = [page EXCEPT !.stopped = FALSE, !.error = TRUE]
  <2>1. page' \in PageRows
    BY <1>2, Typed DEF TypedRows, Faithful, PageRows
  <2>2. JobView!TypeOK' /\ poll'.pc = "job" /\ ~poll'.answered
    BY <1>2, <2>1, Typed, PollStaysTyped, PollFields DEF TypedRows, Faithful
  <2> QED BY <2>2, LoopKeeps DEF AnswersLast, LoopShowsItsJob, LastCandidates
<1>3. CASE /\ poll' = JobView!Rest(poll)
           /\ page' = [page EXCEPT !.stopped = TRUE, !.error = TRUE,
                                   !.waiting = @ /\ poll.answer # "missing"]
  <2>1. page' \in PageRows /\ page'.stopped
    <3>1. page \in PageRows /\ (page.waiting /\ poll.answer # "missing") \in BOOLEAN
      BY Typed DEF TypedRows, Faithful
    <3> QED BY <1>3, <3>1 DEF PageRows
  <2>2. JobView!TypeOK' /\ poll'.pc = "idle" /\ page'.stopped
    BY <1>3, <2>1, Typed, PollStaysTyped, PollFields DEF TypedRows, Faithful
  <2> QED BY <2>2, LoopKeeps DEF AnswersLast, LoopShowsItsJob, LastCandidates
<1> QED BY <1>2, <1>3 DEF JobView!FailRefresh

LEMMA ShowJobKeeps ==
    ASSUME Faithful, JobView!ShowJob PROVE Faithful'
<1>1. /\ poll.pc = "job" /\ poll.answered /\ poll.answer \in JobView!States
      /\ UNCHANGED <<server, readable, act>>
      /\ page' = [page EXCEPT !.job = poll.answer, !.stopped = FALSE]
      /\ poll' = [JobView!Ask(poll, "candidates") EXCEPT !.current = poll.answer]
  BY DEF JobView!ShowJob, JobView!Received
<1>2. page' \in PageRows /\ page'.job = poll.answer
  BY <1>1, Typed, Names DEF TypedRows, Faithful, PageRows
<1>3. /\ poll'.pc = "candidates" /\ ~poll'.answered /\ poll'.current = poll.answer
      /\ page'.job = poll.answer /\ JobView!TypeOK'
  <2>1. poll \in PollRows /\ poll.answer \in JobView!Shown
    BY <1>1, Typed DEF TypedRows, Faithful
  <2>2. poll' \in PollRows
    BY <1>1, <2>1, PollStaysTyped
  <2>3. poll'.pc = "candidates" /\ ~poll'.answered /\ poll'.current = poll.answer
    BY <1>1, <2>1, PollFields
  <2> QED BY <1>1, <1>2, <2>2, <2>3, Typed DEF TypedRows, Faithful
<1>4. AnswersLast' /\ LoopShowsItsJob' /\ LastCandidates'
  BY <1>1, <1>3 DEF Faithful, AnswersLast, Lasting, LoopShowsItsJob, LastCandidates
<1> QED BY <1>1, <1>3, <1>4, LoopKeeps

LEMMA ShowCandidatesKeeps ==
    ASSUME Faithful, JobView!ShowCandidates PROVE Faithful'
<1>1. /\ poll.pc = "candidates" /\ poll.answered /\ poll.answer \in JobView!States
      /\ UNCHANGED <<server, readable, act>>
      /\ page' = [page EXCEPT !.candidates = poll.found, !.error = FALSE,
                              !.waiting = poll.current = "report"]
  BY DEF JobView!ShowCandidates, JobView!Received
<1>2. /\ poll.current \in JobView!Shown /\ poll.restart \in BOOLEAN
      /\ page'.candidates = poll.found /\ page'.job = page.job
      /\ page'.waiting = (poll.current = "report")
  BY <1>1, Typed DEF TypedRows, Faithful, PageRows, PollRows
<1>3. page' \in PageRows
  <2>1. poll.found \in 0 .. MaxFound /\ (poll.current = "report") \in BOOLEAN
    BY Typed DEF TypedRows, Faithful, PollRows
  <2> QED BY <1>1, <2>1, Typed DEF TypedRows, Faithful, PageRows
<1>4. CASE poll.current \notin Ended \/ poll.current = "report"
  <2>1. PICK pc \in {"job", "brief"} :
          /\ poll' = [JobView!Ask(poll, pc) EXCEPT !.retries = 0]
          /\ pc = "brief" => poll.current = "report"
    BY <1>4 DEF JobView!ShowCandidates
  <2>2. JobView!TypeOK'
    BY <1>1, <1>3, <2>1, Typed, PollStaysTyped DEF TypedRows, Faithful
  <2>3. /\ poll'.pc = pc /\ ~poll'.answered /\ poll'.current = poll.current
        /\ poll'.restart = poll.restart
    BY <2>1, Typed, PollFields DEF TypedRows, Faithful
  <2>4. AnswersLast' /\ LoopShowsItsJob' /\ LastCandidates'
    BY <1>1, <1>2, <2>1, <2>3 DEF Faithful, AnswersLast, Lasting, LoopShowsItsJob, LastCandidates
  <2> QED BY <1>1, <2>1, <2>2, <2>3, <2>4, LoopKeeps
<1>5. CASE poll.current = "closed"
  <2>1. poll' = JobView!Rest(poll)
    BY <1>5 DEF JobView!ShowCandidates
  <2>2. JobView!TypeOK' /\ poll'.pc = "idle" /\ poll'.restart = poll.restart
    BY <1>1, <1>3, <2>1, Typed, PollStaysTyped, PollFields DEF TypedRows, Faithful
  <2>3. ASSUME ~poll.restart PROVE ShowsTheEnd'
    BY <1>1, <1>2, <1>5, <2>3
    DEF Faithful, AnswersLast, Lasting, LoopShowsItsJob, LastCandidates, ShowsTheEnd
  <2>4. AnswersLast' /\ LoopShowsItsJob' /\ LastCandidates'
    BY <2>2 DEF AnswersLast, LoopShowsItsJob, LastCandidates
  <2> QED BY <1>1, <2>2, <2>3, <2>4, LoopKeeps
<1> QED BY <1>2, <1>4, <1>5

\* The brief is the last thing the loop asks for: it is shown, or said to be
\* withdrawn.
LEMMA BriefKeeps ==
    ASSUME Faithful, poll.pc = "brief", UNCHANGED <<server, readable, act>>,
           poll' = JobView!Rest(poll),
           \/ page' = [page EXCEPT !.brief = TRUE, !.waiting = FALSE, !.error = FALSE]
           \/ page' = [page EXCEPT !.waiting = FALSE, !.error = TRUE]
    PROVE  Faithful'
<1>2. /\ page'.job = page.job /\ page'.candidates = page.candidates /\ ~page'.waiting
      /\ page'.brief \/ page'.error
      /\ page' \in PageRows
  BY Typed DEF TypedRows, Faithful, PageRows
<1>1. JobView!TypeOK' /\ poll'.pc = "idle" /\ poll'.restart = poll.restart
  BY <1>2, Typed, PollStaysTyped, PollFields DEF TypedRows, Faithful
<1>3. ASSUME ~poll.restart PROVE ShowsTheEnd'
  BY <1>2, <1>3 DEF Faithful, AnswersLast, Lasting, LoopShowsItsJob, LastCandidates, ShowsTheEnd
<1>4. AnswersLast' /\ LoopShowsItsJob' /\ LastCandidates'
  BY <1>1 DEF AnswersLast, LoopShowsItsJob, LastCandidates
<1> QED BY <1>1, <1>3, <1>4, LoopKeeps

LEMMA RenderKeeps ==
    ASSUME Faithful, JobView!Render PROVE Faithful'
<1>1. /\ UNCHANGED <<server, readable, page, act>>
      /\ poll' = JobView!NewPoll
  BY DEF JobView!Render
<1>2. JobView!TypeOK' /\ poll'.pc = "job" /\ ~poll'.answered
  BY <1>1, Typed, PollStaysTyped, PollFields DEF TypedRows, Faithful
<1> QED BY <1>1, <1>2, LoopKeeps DEF AnswersLast, LoopShowsItsJob, LastCandidates

LEMMA LoopStepKeeps ==
    ASSUME Faithful, JobView!Loop \/ JobView!Unanswered PROVE Faithful'
<1>1. CASE JobView!RefreshFails
  BY <1>1, FailKeeps DEF JobView!RefreshFails
<1>2. CASE JobView!ShowBrief
  BY <1>2, BriefKeeps DEF JobView!ShowBrief, JobView!Received
<1>3. CASE JobView!BriefFails
  <2>1. CASE poll.answer = "missing"
    BY <1>3, <2>1, BriefKeeps DEF JobView!BriefFails, JobView!Received
  <2>2. CASE poll.answer # "missing"
    BY <1>3, <2>2, FailKeeps DEF JobView!BriefFails
  <2> QED BY <2>1, <2>2
<1> QED BY <1>1, <1>2, <1>3, ServePollKeeps, ShowJobKeeps, ShowCandidatesKeeps, RenderKeeps
        DEF JobView!Loop

-----------------------------------------------------------------------------
(* The owner *)

\* A click, and an answer that changes nothing but what the page says of it.
LEMMA OnlyActKeeps ==
    ASSUME Faithful, UNCHANGED <<server, poll>>, JobView!TypeOK',
           page'.job = page.job, page'.candidates = page.candidates,
           page'.brief = page.brief, page'.waiting = page.waiting,
           page'.error = page.error, page'.stopped = page.stopped
    PROVE  Faithful'
<1>1. AnswersLast' /\ LoopShowsItsJob' /\ LastCandidates'
  BY DEF Faithful, AnswersLast, Lasting, LoopShowsItsJob, LastCandidates
<1>2. EndsWithTheJob'
  BY DEF Faithful, EndsWithTheJob, ShowsTheEnd
<1> QED BY <1>1, <1>2 DEF Faithful

\* An answer after which the loop is to start anew.
LEMMA RestartKeeps ==
    ASSUME Faithful, UNCHANGED server, poll' = [poll EXCEPT !.restart = TRUE],
           JobView!TypeOK', page'.candidates = page.candidates
    PROVE  Faithful'
<1>1. /\ poll'.pc = poll.pc /\ poll'.answered = poll.answered /\ poll'.answer = poll.answer
      /\ poll'.found = poll.found /\ poll'.current = poll.current /\ poll'.restart
  BY Typed, PollFields DEF TypedRows, Faithful
<1>2. AnswersLast' /\ LoopShowsItsJob' /\ LastCandidates' /\ EndsWithTheJob'
  BY <1>1 DEF Faithful, AnswersLast, Lasting, LoopShowsItsJob, LastCandidates, EndsWithTheJob
<1> QED BY <1>2 DEF Faithful

LEMMA ClickKeeps ==
    ASSUME Faithful, JobView!ClickStop \/ JobView!ClickChoose
    PROVE  Faithful'
<1>1. /\ UNCHANGED <<server, readable, poll>>
      /\ \/ page' = [page EXCEPT !.stopping = TRUE] \/ page' = [page EXCEPT !.selecting = TRUE]
      /\ \E kind \in {"stop", "choose"} : act' = [JobView!NoAct EXCEPT !.kind = kind]
  BY DEF JobView!ClickStop, JobView!ClickChoose
<1>2. /\ page' \in PageRows
      /\ page'.job = page.job /\ page'.candidates = page.candidates
      /\ page'.brief = page.brief /\ page'.waiting = page.waiting
      /\ page'.error = page.error /\ page'.stopped = page.stopped
  <2>1. page \in PageRows
    BY Typed DEF TypedRows, Faithful
  <2>2. CASE page' = [page EXCEPT !.stopping = TRUE]
    BY <2>1, <2>2 DEF PageRows
  <2>3. CASE page' = [page EXCEPT !.selecting = TRUE]
    BY <2>1, <2>3 DEF PageRows
  <2> QED BY <1>1, <2>2, <2>3
<1>3. act' \in ActRows
  BY <1>1, Names DEF ActRows, JobView!NoAct
<1>4. JobView!TypeOK'
  BY <1>1, <1>2, <1>3, Typed DEF TypedRows, Faithful
<1> QED BY <1>1, <1>2, <1>4, OnlyActKeeps

\* The server answers a click: it may end the job or let the search go on, both
\* only of a job that is not over.
LEMMA ServeActKeeps ==
    ASSUME Faithful, JobView!ServeStop \/ JobView!ServeChoose \/ JobView!ActUnanswered
    PROVE  Faithful'
<1>1. server \in ServerRows /\ act \in ActRows
  BY Typed DEF TypedRows, Faithful
<1>2. /\ UNCHANGED <<readable, page, poll>>
      /\ \E answer \in Answers \cup {"unavailable"} : JobView!Acted(answer)
  BY <1>1 DEF JobView!ServeStop, JobView!ServeChoose, JobView!ActUnanswered, ServerRows, Answers
<1>3. \/ UNCHANGED server
      \/ /\ server.state \in {"active", "awaiting"}
         /\ \E s \in {"active", "closed"} : server' = [server EXCEPT !.state = s]
  BY DEF JobView!ServeStop, JobView!ServeChoose, JobView!ActUnanswered
<1>4. /\ server' \in ServerRows
      /\ server.state \in Ended =>
           server'.state \in {server.state, "missing"} /\ server'.found = server.found
      /\ server.state = "missing" => server'.state = "missing"
  BY <1>1, <1>3 DEF ServerRows
<1>5. act' \in ActRows
  BY <1>1, <1>2 DEF ActRows, JobView!Acted
<1>6. JobView!TypeOK'
  BY <1>2, <1>4, <1>5, Typed DEF TypedRows, Faithful
<1> QED BY <1>2, <1>4, <1>6, ServerKeeps

LEMMA ShowActKeeps ==
    ASSUME Faithful, JobView!ShowStopped \/ JobView!ShowChosen
    PROVE  Faithful'
<1>1. page \in PageRows /\ poll \in PollRows /\ act \in ActRows
  BY Typed DEF TypedRows, Faithful
<1>2. UNCHANGED <<server, readable>> /\ act' = JobView!NoAct
  BY DEF JobView!ShowStopped, JobView!ShowChosen
<1>3. act' \in ActRows
  BY <1>2, Names DEF ActRows, JobView!NoAct
<1>4. CASE page' = [page EXCEPT !.selecting = FALSE] /\ UNCHANGED poll
  <2>1. /\ page' \in PageRows
        /\ page'.job = page.job /\ page'.candidates = page.candidates
        /\ page'.brief = page.brief /\ page'.waiting = page.waiting
        /\ page'.error = page.error /\ page'.stopped = page.stopped
    BY <1>1, <1>4 DEF PageRows
  <2>2. JobView!TypeOK'
    BY <1>1, <1>2, <1>3, <1>4, <2>1, Typed DEF TypedRows, Faithful
  <2> QED BY <1>2, <1>4, <2>1, <2>2, OnlyActKeeps
<1>5. CASE /\ poll' = [poll EXCEPT !.restart = TRUE]
           /\ \E shown \in JobView!Shown :
                \/ page' = [page EXCEPT !.stopping = FALSE, !.stopped = FALSE, !.job = shown]
                \/ page' = [page EXCEPT !.selecting = FALSE, !.stopped = FALSE, !.job = shown]
  <2>1. page' \in PageRows /\ page'.candidates = page.candidates
    BY <1>1, <1>5 DEF PageRows
  <2>2. poll' \in PollRows
    BY <1>1, <1>5, PollStaysTyped
  <2>3. JobView!TypeOK'
    BY <1>1, <1>2, <1>3, <2>1, <2>2, Typed DEF TypedRows, Faithful
  <2> QED BY <1>2, <1>5, <2>1, <2>3, RestartKeeps
<1>6. page.job \in JobView!Shown
  BY <1>1 DEF PageRows
<1>7. CASE JobView!ShowStopped
  <2>1. (IF act.answer \in JobView!States THEN act.answer ELSE page.job) \in JobView!Shown
    BY <1>6
  <2> QED BY <1>5, <1>7, <2>1 DEF JobView!ShowStopped
<1>8. CASE JobView!ShowChosen
  <2>1. CASE /\ act.answer \in JobView!States
             /\ page' = [page EXCEPT !.selecting = FALSE, !.job = act.answer, !.stopped = FALSE]
             /\ poll' = [poll EXCEPT !.restart = TRUE]
    <3>1. page' = [page EXCEPT !.selecting = FALSE, !.stopped = FALSE, !.job = act.answer]
      BY <1>1, <2>1 DEF PageRows
    <3> QED BY <1>5, <2>1, <3>1
  <2>2. CASE /\ page' = [page EXCEPT !.selecting = FALSE, !.stopped = FALSE,
                                     !.job = IF @ = "awaiting" THEN "active" ELSE @]
             /\ poll' = [poll EXCEPT !.restart = TRUE]
    <3>1. (IF page.job = "awaiting" THEN "active" ELSE page.job) \in JobView!Shown
      BY <1>6
    <3> QED BY <1>5, <2>2, <3>1
  <2> QED BY <1>4, <1>8, <2>1, <2>2 DEF JobView!ShowChosen
<1> QED BY <1>7, <1>8

-----------------------------------------------------------------------------
(* The page at rest *)

LEMMA PageBegins == Init => Faithful
<1> SUFFICES ASSUME Init PROVE Faithful
  OBVIOUS
<1>1. /\ server = [state |-> "active", found |-> 0] /\ readable = TRUE
      /\ page = [job |-> "nothing", candidates |-> 0, brief |-> FALSE, waiting |-> FALSE,
                 stopped |-> FALSE, error |-> FALSE, selecting |-> FALSE, stopping |-> FALSE]
      /\ poll = JobView!NewPoll /\ act = JobView!NoAct
  BY DEF Init, JobView!Init
<1>2. JobView!TypeOK
  <2>1. server \in ServerRows /\ page \in PageRows
    BY <1>1, Names DEF ServerRows, PageRows
  <2>2. poll \in PollRows
    BY <1>1, Names DEF PollRows, JobView!NewPoll, JobView!NoPoll
  <2>3. act \in ActRows
    BY <1>1, Names DEF ActRows, JobView!NoAct
  <2> QED BY <1>1, <2>1, <2>2, <2>3, Typed DEF TypedRows
<1>3. poll.pc = "job" /\ ~poll.answered
  BY <1>1 DEF JobView!NewPoll, JobView!NoPoll
<1> QED BY <1>2, <1>3
        DEF Faithful, AnswersLast, LoopShowsItsJob, LastCandidates, EndsWithTheJob

LEMMA PageStepKeeps ==
    ASSUME Faithful, [Next]_vars PROVE Faithful'
<1>1. JobView!Next \/ UNCHANGED pageVars
  BY DEF Next, vars, OnlyRequests, OnlyDrawer
<1>2. CASE UNCHANGED pageVars
  BY <1>2
  DEF pageVars, Faithful, JobView!TypeOK, AnswersLast, Lasting, LoopShowsItsJob, LastCandidates,
      EndsWithTheJob, ShowsTheEnd
<1>3. CASE JobView!Next
  BY <1>3, ServeKeeps, LoopStepKeeps, ClickKeeps, ServeActKeeps, ShowActKeeps
  DEF JobView!Next, JobView!Answer, JobView!Trouble
<1> QED BY <1>1, <1>2, <1>3

\* Whatever answers fail, are overtaken or come late, however often the owner
\* clicks and whenever the job goes: a page that has come to rest, and does not
\* say that it gave up, shows the end of its job.
THEOREM PageRests == FairSpec => []RestsOnTheEnd
<1>1. Faithful => RestsOnTheEnd
  BY DEF Faithful, EndsWithTheJob, ShowsTheEnd, RestsOnTheEnd, JobView!RestsOnTheEnd,
         JobView!Quiet, JobView!NoPoll
<1>2. Faithful /\ [Next]_vars => Faithful'
  BY PageStepKeeps
<1> QED BY PageBegins, <1>1, <1>2, PTL DEF FairSpec

-----------------------------------------------------------------------------
(* The history drawer: the newest of a set of jobs *)

LEMMA SameCount == \A S : Drawer!Cardinality(S) = Cardinality(S)
BY DEF Drawer!Cardinality, Cardinality

LEMMA DrawerAssumed ==
    /\ N \in Nat \ {0} /\ PageSize \in Nat \ {0} /\ Batch \in Nat \ {0} /\ MaxBatches \in Nat \ {0}
    /\ IsFiniteSet(Drawer!Jobs) /\ Drawer!Jobs \subseteq Nat
<1>1. /\ N \in Nat \ {0} /\ PageSize \in Nat \ {0}
      /\ Batch \in Nat \ {0} /\ MaxBatches \in Nat \ {0}
  BY ClientsAssumption DEF Drawer!HistoryAssumption
<1> QED BY <1>1, FS_Interval DEF Drawer!Jobs

After(S, j) == {i \in S : i > j}

\* The number of newer jobs ranks a set of jobs without gaps.
LEMMA RanksAreDense ==
    ASSUME NEW S, IsFiniteSet(S), S \subseteq Nat
    PROVE  /\ Cardinality(S) \in Nat
           /\ \A j \in S : Cardinality(After(S, j)) \in 0 .. Cardinality(S) - 1
           /\ \A i \in S, j \in S : i < j => Cardinality(After(S, j)) < Cardinality(After(S, i))
           /\ \A r \in 0 .. Cardinality(S) - 1 : \E j \in S : Cardinality(After(S, j)) = r
<1>1. Cardinality(S) \in Nat
  BY FS_CardinalityType
<1>2. ASSUME NEW j \in S
      PROVE  /\ IsFiniteSet(After(S, j)) /\ Cardinality(After(S, j)) \in Nat
             /\ Cardinality(After(S, j)) < Cardinality(S)
  <2>1. After(S, j) \in SUBSET S /\ j \notin After(S, j)
    BY DEF After
  <2>2. /\ IsFiniteSet(After(S, j)) /\ Cardinality(After(S, j)) <= Cardinality(S)
        /\ Cardinality(S) = Cardinality(After(S, j)) => S = After(S, j)
    BY <2>1, FS_Subset
  <2>3. Cardinality(After(S, j)) \in Nat
    BY <2>2, FS_CardinalityType
  <2> QED BY <1>1, <2>1, <2>2, <2>3
<1>3. ASSUME NEW i \in S, NEW j \in S, i < j
      PROVE  Cardinality(After(S, j)) < Cardinality(After(S, i))
  <2>1. After(S, j) \in SUBSET After(S, i)
    <3>1. i \in Nat /\ j \in Nat /\ i < j
      BY <1>3
    <3>2. ASSUME NEW k \in S, k > j PROVE k > i
      <4>1. k \in Nat
        OBVIOUS
      <4>. QED
        BY <3>1, <3>2, <4>1
    <3>. QED
      BY <3>2 DEF After
  <2>2. j \in After(S, i) /\ j \notin After(S, j)
    BY <1>3 DEF After
  <2>3. /\ Cardinality(After(S, j)) <= Cardinality(After(S, i))
        /\ Cardinality(After(S, i)) = Cardinality(After(S, j)) => After(S, i) = After(S, j)
    BY <1>2, <2>1, FS_Subset
  <2> QED BY <1>2, <2>2, <2>3
<1> DEFINE R == 0 .. Cardinality(S) - 1
           rank == [j \in S |-> Cardinality(After(S, j))]
<1>4. ASSUME NEW j \in S PROVE Cardinality(After(S, j)) \in R
  BY <1>1, <1>2
<1>5. IsFiniteSet(R) /\ Cardinality(R) = Cardinality(S)
  <2>1. Cardinality(S) - 1 \in Int /\ 0 \in Int
    BY <1>1
  <2> QED BY <1>1, <2>1, FS_Interval
<1>6. rank \in Injection(S, R)
  <2>1. rank \in [S -> R]
    BY <1>4
  <2>2. ASSUME NEW i \in S, NEW j \in S, rank[i] = rank[j] PROVE i = j
    <3>1. ~ i < j /\ ~ j < i
      BY <1>2, <1>3, <2>2
    <3> QED BY <3>1
  <2> QED BY <2>1, <2>2 DEF Injection, IsInjective
<1>7. rank \in Surjection(S, R)
  BY <1>5, <1>6, FS_Injection
<1>8. ASSUME NEW r \in R PROVE \E j \in S : Cardinality(After(S, j)) = r
  BY <1>7 DEF Surjection
<1> QED BY <1>1, <1>3, <1>4, <1>8

\* LIMIT n after ORDER BY: no more than n, all that are newer than one of them,
\* all if there are no more than n.
LEMMA NewestAreFirst ==
    ASSUME NEW S \in SUBSET Drawer!Jobs, NEW n \in Nat \ {0}
    PROVE  /\ Drawer!Newest(S, n) \subseteq S
           /\ Cardinality(Drawer!Newest(S, n)) \in 0 .. n
           /\ \A j \in S \ Drawer!Newest(S, n) : \A i \in Drawer!Newest(S, n) : j < i
           /\ Cardinality(S) <= n => Drawer!Newest(S, n) = S
           /\ S # {} => Drawer!Newest(S, n) # {}
<1> DEFINE T == Drawer!Newest(S, n)
           rank(j) == Cardinality(After(S, j))
<1>1. IsFiniteSet(S) /\ S \subseteq Nat
  BY DrawerAssumed, FS_Subset
<1>2. T = {j \in S : rank(j) < n}
  BY SameCount DEF Drawer!Newest, After
<1>3. /\ Cardinality(S) \in Nat
      /\ \A j \in S : rank(j) \in 0 .. Cardinality(S) - 1
      /\ \A i \in S, j \in S : i < j => rank(j) < rank(i)
      /\ \A r \in 0 .. Cardinality(S) - 1 : \E j \in S : rank(j) = r
  BY <1>1, RanksAreDense
<1>4. IsFiniteSet(T) /\ T \subseteq S
  BY <1>1, <1>2, FS_Subset
<1> HIDE DEF T, rank
<1>5. \A j \in S \ T : \A i \in T : j < i
  <2> SUFFICES ASSUME NEW j \in S, rank(j) >= n, NEW i \in S, rank(i) < n PROVE j < i
    BY <1>2, <1>3
  <2>1. j # i /\ ~ i < j
    BY <1>3
  <2> QED BY <1>1, <2>1
<1>6. Cardinality(S) <= n => T = S
  BY <1>2, <1>3
<1>7. S # {} => T # {}
  <2> SUFFICES ASSUME S # {} PROVE T # {}
    OBVIOUS
  <2>1. Cardinality(S) > 0
    BY <1>1, <1>3, FS_EmptySet
  <2>2. 0 \in 0 .. Cardinality(S) - 1
    BY <1>3, <2>1
  <2>3. PICK j \in S : rank(j) = 0
    BY <1>3, <2>2
  <2> QED BY <1>2, <2>3
<1>8. Cardinality(T) \in 0 .. n
  <2> DEFINE f == [j \in T |-> rank(j)]
             R == 0 .. n - 1
  <2>1. f \in [T -> R]
    BY <1>2, <1>3
  <2>2. ASSUME NEW i \in T, NEW j \in T, f[i] = f[j] PROVE i = j
    <3>1. rank(i) = rank(j) /\ i \in S /\ j \in S
      BY <1>4, <2>2
    <3>2. ~ i < j /\ ~ j < i
      BY <1>3, <3>1
    <3> QED BY <1>1, <3>1, <3>2
  <2>3. f \in Injection(T, R)
    BY <2>1, <2>2 DEF Injection, IsInjective
  <2>4. IsFiniteSet(R) /\ Cardinality(R) = n
    <3>1. n - 1 \in Int /\ 0 \in Int
      OBVIOUS
    <3> QED BY <3>1, FS_Interval
  <2>5. Cardinality(T) <= n
    BY <2>3, <2>4, FS_Injection
  <2>6. Cardinality(T) \in Nat
    BY <1>4, FS_CardinalityType
  <2> QED BY <2>5, <2>6
<1> QED BY <1>4, <1>5, <1>6, <1>7, <1>8 DEF T

LEMMA OldestExists ==
    ASSUME NEW S \in SUBSET Drawer!Jobs, S # {}
    PROVE  Drawer!Min(S) \in S /\ \A j \in S : Drawer!Min(S) <= j
<1>1. IsFiniteSet(S) /\ S \subseteq Nat
  BY DrawerAssumed, FS_Subset
<1>2. /\ Cardinality(S) \in Nat
      /\ \A j \in S : Cardinality(After(S, j)) \in 0 .. Cardinality(S) - 1
      /\ \A i \in S, j \in S : i < j => Cardinality(After(S, j)) < Cardinality(After(S, i))
      /\ \A r \in 0 .. Cardinality(S) - 1 : \E j \in S : Cardinality(After(S, j)) = r
  BY <1>1, RanksAreDense
<1>3. Cardinality(S) > 0
  BY <1>1, <1>2, FS_EmptySet
<1>4. PICK m \in S : Cardinality(After(S, m)) = Cardinality(S) - 1
  BY <1>2, <1>3
<1>5. \A j \in S : m <= j
  BY <1>1, <1>2, <1>4
<1> QED BY <1>4, <1>5 DEF Drawer!Min

-----------------------------------------------------------------------------
(* The history drawer: its list and its clearing *)

Reps == Drawer!RepresentativesIn(status)

\* A page after a cursor leaves out only steady groups that come after it.
Continues(list, cursor) ==
    \A j \in steady : (cursor = 0 \/ j < cursor) => j \in list.groups \/ j < list.next

\* The list, or the first page that will replace it, is complete up to where it
\* ends, and goes on there.
ListGoesOn ==
    /\ first.state = "none" /\ ~mixed => Continues(drawer, 0)
    /\ first.state = "answered" => Continues(first.page, 0)

\* A request for more that nothing made stale asks for what follows the list.
MoreGoesOn ==
    first.state = "none" /\ more.state # "none" /\ ~more.stale =>
        /\ more.cursor = drawer.next /\ more.cursor # 0
        /\ more.state = "answered" => Continues(more.page, more.cursor)

\* A job that was to be cleared stays ended until it is gone; nothing is left
\* when the server found no ended job any more.
ClearedSoFar ==
    /\ \A j \in clear.due : status[j] \in {"terminal", "gone"}
    /\ (clear.pc = "answered" /\ ~clear.hasMore) \/ clear.pc = "done"
         => \A j \in clear.due : status[j] = "gone"

FirstRows == [state : {"none", "sent", "answered"}, page : Drawer!Pages]

MoreRows == [state : {"none", "sent", "answered"}, cursor : 0 .. N, page : Drawer!Pages,
             stale : BOOLEAN]

NoFirst == [state |-> "none", page |-> Drawer!NoPage]

NoMore == [state |-> "none", cursor |-> 0, page |-> Drawer!NoPage, stale |-> FALSE]

DrawerRows ==
    /\ handle \in [Drawer!Jobs -> Handles] /\ status \in [Drawer!Jobs -> Drawer!Statuses]
    /\ locked \in SUBSET Drawer!Jobs
    /\ drawer \in Drawer!Pages /\ first \in FirstRows /\ more \in MoreRows
    /\ clear \in Drawer!Clears /\ steady \in SUBSET Drawer!Jobs /\ mixed \in BOOLEAN

LEMMA DrawerTyped == (Drawer!TypeOK <=> DrawerRows) /\ (Drawer!TypeOK' <=> DrawerRows')
BY DEF DrawerRows, Drawer!TypeOK, FirstRows, MoreRows, Drawer!RequestStates

Told ==
    /\ DrawerRows
    /\ steady \subseteq Reps
    /\ ListGoesOn /\ MoreGoesOn /\ ClearedSoFar

LEMMA EmptyRows ==
    /\ Drawer!NoPage \in Drawer!Pages /\ Drawer!NoPage.groups = {} /\ Drawer!NoPage.next = 0
    /\ NoFirst \in FirstRows /\ NoFirst.state = "none"
    /\ NoMore \in MoreRows /\ NoMore.state = "none"
    /\ [state |-> "sent", page |-> Drawer!NoPage] \in FirstRows
<1>1. 0 \in 0 .. N
  BY DrawerAssumed
<1>2. Drawer!NoPage \in Drawer!Pages /\ Drawer!NoPage.groups = {} /\ Drawer!NoPage.next = 0
  BY <1>1 DEF Drawer!NoPage, Drawer!Pages
<1> HIDE DEF Drawer!NoPage
<1> QED BY <1>1, <1>2 DEF NoFirst, NoMore, FirstRows, MoreRows

\* What the server answers continues at the cursor it was asked for.
LEMMA PageContinues ==
    ASSUME NEW cursor \in 0 .. N
    PROVE  /\ Drawer!Page(cursor) \in Drawer!Pages
           /\ \A j \in Reps : (cursor = 0 \/ j < cursor) =>
                 j \in Drawer!Page(cursor).groups \/ j < Drawer!Page(cursor).next
<1> DEFINE rows == {j \in Reps : cursor = 0 \/ j < cursor}
           shown == Drawer!Newest(rows, PageSize)
           next == IF Drawer!Cardinality(rows) > PageSize THEN Drawer!Min(shown) ELSE 0
<1>1. Drawer!Page(cursor) = [groups |-> shown, next |-> next]
  BY DEF Drawer!Page, Reps
<1>2. rows \in SUBSET Drawer!Jobs
  BY DEF Reps, Drawer!RepresentativesIn, Drawer!VisibleIn
<1>3. /\ IsFiniteSet(rows) /\ Cardinality(rows) \in Nat
      /\ rows = {} <=> Cardinality(rows) = 0
  BY <1>2, DrawerAssumed, FS_Subset, FS_CardinalityType, FS_EmptySet
<1>4. /\ shown \subseteq rows
      /\ \A j \in rows \ shown : \A i \in shown : j < i
      /\ Cardinality(rows) <= PageSize => shown = rows
      /\ rows # {} => shown # {}
  BY <1>2, DrawerAssumed, NewestAreFirst
<1>5. \A j \in rows : j \in Reps
  OBVIOUS
<1> HIDE DEF rows, shown
<1>6. CASE Cardinality(rows) > PageSize
  <2>1. shown \in SUBSET Drawer!Jobs /\ shown # {}
    BY <1>2, <1>3, <1>4, <1>6, DrawerAssumed
  <2>2. Drawer!Min(shown) \in shown
    BY <2>1, OldestExists
  <2>3. next = Drawer!Min(shown)
    BY <1>6, SameCount
  <2>4. next \in 0 .. N
    <3>1. Drawer!Min(shown) \in 1 .. N
      BY <2>1, <2>2 DEF Drawer!Jobs
    <3>2. Drawer!Min(shown) \in 0 .. N
      BY <3>1, DrawerAssumed
    <3> QED BY <2>3, <3>2
  <2>5. \A j \in rows : j \in shown \/ j < next
    BY <1>4, <2>2, <2>3
  <2> QED BY <1>1, <2>1, <2>4, <2>5 DEF Drawer!Pages, rows
<1>7. CASE ~ Cardinality(rows) > PageSize
  <2>1. shown = rows
    BY <1>3, <1>4, <1>7, DrawerAssumed
  <2>2. next = 0 /\ 0 \in 0 .. N
    BY <1>7, SameCount, DrawerAssumed
  <2> QED BY <1>1, <1>2, <2>1, <2>2 DEF Drawer!Pages, rows
<1> QED BY <1>6, <1>7

\* Groups that go away do not make a list incomplete.
LEMMA LessSteady ==
    ASSUME Told, UNCHANGED <<drawer, first, more, mixed>>, steady' \subseteq steady
    PROVE  ListGoesOn' /\ MoreGoesOn'
BY DEF Told, ListGoesOn, MoreGoesOn, Continues

\* A job changes; one that is over stays so.
LEMMA StatusKeeps ==
    ASSUME Told, NEW j \in Drawer!Jobs, NEW s \in Drawer!Statuses, Drawer!SetStatus(j, s),
           UNCHANGED <<handle, locked, drawer, first, more, clear, mixed>>,
           status[j] \in {"terminal", "gone"} => s = "gone"
    PROVE  Told'
<1>1. /\ status \in [Drawer!Jobs -> Drawer!Statuses] /\ steady \subseteq Drawer!Jobs
      /\ clear.due \subseteq Drawer!Jobs
  BY DEF Told, DrawerRows, Drawer!Clears
<1>2. status' = [status EXCEPT ![j] = s]
  BY DEF Drawer!SetStatus
<1>3. steady' \subseteq steady /\ steady' \subseteq Reps'
  BY DEF Drawer!SetStatus, Reps, Drawer!RepresentativesIn, Drawer!VisibleIn
<1>4. DrawerRows'
  BY <1>1, <1>2, <1>3 DEF Told, DrawerRows
<1>5. ClearedSoFar'
  BY <1>1, <1>2 DEF Told, ClearedSoFar
<1> QED BY <1>3, <1>4, <1>5, LessSteady DEF Told

LEMMA JobStepKeeps ==
    ASSUME Told, NEW j \in Drawer!Jobs,
           \/ Drawer!Accept(j) \/ Drawer!Finish(j) \/ Drawer!Expire(j)
           \/ Drawer!Lock(j) \/ Drawer!Unlock(j) \/ Drawer!DeleteElsewhere(j)
    PROVE  Told'
<1>1. CASE Drawer!Lock(j) \/ Drawer!Unlock(j)
  <2>1. /\ UNCHANGED <<handle, status, drawer, first, more, clear, steady, mixed>>
        /\ locked' \in SUBSET Drawer!Jobs
    BY <1>1 DEF Drawer!Lock, Drawer!Unlock, Told, DrawerRows
  <2> QED BY <2>1, LessSteady
          DEF Told, DrawerRows, ClearedSoFar, Reps, Drawer!RepresentativesIn, Drawer!VisibleIn
<1>2. {"running", "terminal", "gone"} \subseteq Drawer!Statuses
  BY DEF Drawer!Statuses
<1>3. CASE Drawer!Accept(j) \/ Drawer!Finish(j)
  BY <1>2, <1>3, StatusKeeps DEF Drawer!Accept, Drawer!Finish
<1>4. CASE Drawer!Expire(j) \/ Drawer!DeleteElsewhere(j)
  BY <1>2, <1>4, StatusKeeps DEF Drawer!Expire, Drawer!DeleteElsewhere
<1> QED BY <1>1, <1>3, <1>4

\* The rows of a request for more as the drawer changes them.
LEMMA MoreStaysTyped ==
    ASSUME NEW m \in MoreRows
    PROVE  /\ m.cursor \in 0 .. N
           /\ \A b \in BOOLEAN : [m EXCEPT !.stale = b] \in MoreRows
           /\ \A page1 \in Drawer!Pages :
                [m EXCEPT !.state = "answered", !.page = page1] \in MoreRows
           /\ \A c \in 0 .. N :
                [state |-> "sent", cursor |-> c, page |-> Drawer!NoPage, stale |-> FALSE]
                  \in MoreRows
BY EmptyRows DEF MoreRows

\* While a first page is on its way nothing is said of the list it replaces.
LEMMA ReloadKeeps ==
    ASSUME Told, Drawer!Reload, UNCHANGED <<handle, status, locked, drawer, steady, mixed>>,
           clear' \in Drawer!Clears, ClearedSoFar'
    PROVE  Told'
<1>1. /\ first' = [state |-> "sent", page |-> Drawer!NoPage]
      /\ more' = [more EXCEPT !.stale = more.state # "none"]
  BY DEF Drawer!Reload
<1>2. first' \in FirstRows /\ first'.state = "sent"
  BY <1>1, EmptyRows
<1>3. more' \in MoreRows
  <2>1. more \in MoreRows /\ (more.state # "none") \in BOOLEAN
    BY DEF Told, DrawerRows
  <2> QED BY <1>1, <2>1, MoreStaysTyped
<1>4. DrawerRows' /\ ListGoesOn' /\ MoreGoesOn' /\ steady' \subseteq Reps'
  BY <1>2, <1>3 DEF Told, DrawerRows, ListGoesOn, MoreGoesOn, Reps,
                    Drawer!RepresentativesIn, Drawer!VisibleIn
<1> QED BY <1>4 DEF Told

\* The first page replaces the list; a request for more that was under way does
\* not continue it.
LEMMA ReplaceKeeps ==
    ASSUME Told, UNCHANGED <<handle, status, locked, clear>>,
           first' = NoFirst, more' = [more EXCEPT !.stale = more.state # "none"],
           drawer' \in Drawer!Pages, steady' \subseteq steady, mixed' = FALSE,
           Continues(drawer, 0)'
    PROVE  Told'
<1>1. more \in MoreRows /\ (more.state # "none") \in BOOLEAN
  BY DEF Told, DrawerRows
<1>2. more' \in MoreRows
  BY <1>1, MoreStaysTyped
<1>3. more'.state # "none" => more'.stale
  BY <1>1 DEF MoreRows
<1>4. first' \in FirstRows /\ first'.state = "none"
  BY EmptyRows
<1>5. DrawerRows' /\ steady' \subseteq Reps' /\ ClearedSoFar'
  BY <1>2, <1>4 DEF Told, DrawerRows, ClearedSoFar, Reps, Drawer!RepresentativesIn,
                    Drawer!VisibleIn
<1>6. ListGoesOn' /\ MoreGoesOn'
  BY <1>3, <1>4 DEF ListGoesOn, MoreGoesOn
<1> QED BY <1>5, <1>6 DEF Told

LEMMA FirstStepKeeps ==
    ASSUME Told, Drawer!Open \/ Drawer!ReadFirst \/ Drawer!ShowFirst \/ Drawer!FirstFails
    PROVE  Told'
<1>1. CASE Drawer!Open
  BY <1>1, ReloadKeeps DEF Drawer!Open, Told, DrawerRows, ClearedSoFar
<1>2. CASE Drawer!ReadFirst
  <2>1. /\ first' = [state |-> "answered", page |-> Drawer!Page(0)] /\ steady' = Reps
        /\ UNCHANGED <<handle, status, locked, drawer, more, clear, mixed>>
    BY <1>2 DEF Drawer!ReadFirst, Reps
  <2>2. 0 \in 0 .. N
    BY DrawerAssumed
  <2>3. /\ Drawer!Page(0) \in Drawer!Pages
        /\ \A j \in Reps : j \in Drawer!Page(0).groups \/ j < Drawer!Page(0).next
    BY <2>2, PageContinues
  <2>4. first' \in FirstRows /\ first'.state = "answered" /\ first'.page = Drawer!Page(0)
    BY <2>1, <2>3 DEF FirstRows
  <2>5. Reps \subseteq Drawer!Jobs
    BY DEF Reps, Drawer!RepresentativesIn, Drawer!VisibleIn
  <2>6. DrawerRows' /\ steady' \subseteq Reps' /\ ClearedSoFar'
    BY <2>1, <2>4, <2>5 DEF Told, DrawerRows, ClearedSoFar, Reps, Drawer!RepresentativesIn,
                            Drawer!VisibleIn
  <2>7. ListGoesOn' /\ MoreGoesOn'
    BY <2>1, <2>3, <2>4 DEF ListGoesOn, MoreGoesOn, Continues
  <2> QED BY <2>6, <2>7 DEF Told
<1>3. CASE Drawer!ShowFirst
  <2>1. /\ first.state = "answered" /\ drawer' = first.page /\ first' = NoFirst
        /\ mixed' = FALSE /\ more' = [more EXCEPT !.stale = more.state # "none"]
        /\ UNCHANGED <<handle, status, locked, clear, steady>>
    BY <1>3 DEF Drawer!ShowFirst, NoFirst
  <2>2. first.page \in Drawer!Pages
    BY DEF Told, DrawerRows, FirstRows
  <2>3. Continues(drawer, 0)'
    BY <2>1 DEF Told, ListGoesOn, Continues
  <2> QED BY <2>1, <2>2, <2>3, ReplaceKeeps
<1>4. CASE Drawer!FirstFails
  <2>1. /\ drawer' = Drawer!NoPage /\ first' = NoFirst /\ steady' = {}
        /\ mixed' = FALSE /\ more' = [more EXCEPT !.stale = more.state # "none"]
        /\ UNCHANGED <<handle, status, locked, clear>>
    BY <1>4 DEF Drawer!FirstFails, NoFirst
  <2>2. Continues(drawer, 0)'
    BY <2>1 DEF Continues
  <2> QED BY <2>1, <2>2, EmptyRows, ReplaceKeeps
<1> QED BY <1>1, <1>2, <1>3, <1>4

LEMMA MoreStepKeeps ==
    ASSUME Told, Drawer!LoadMore \/ Drawer!ReadMore \/ Drawer!ShowMore \/ Drawer!MoreFails
    PROVE  Told'
<1>1. /\ UNCHANGED <<handle, status, locked, first, clear, steady>>
      /\ more \in MoreRows /\ drawer \in Drawer!Pages /\ drawer.next \in 0 .. N
      /\ drawer.groups \subseteq Drawer!Jobs /\ more.page \in Drawer!Pages
      /\ more.stale \in BOOLEAN /\ mixed \in BOOLEAN
  BY DEF Told, DrawerRows, MoreRows, Drawer!Pages, Drawer!LoadMore, Drawer!ReadMore,
         Drawer!ShowMore, Drawer!MoreFails
<1>2. steady' \subseteq Reps' /\ ClearedSoFar'
  BY <1>1 DEF Told, ClearedSoFar, Reps, Drawer!RepresentativesIn, Drawer!VisibleIn
<1>3. ASSUME more' \in MoreRows, drawer' \in Drawer!Pages, mixed' \in BOOLEAN PROVE DrawerRows'
  BY <1>1, <1>3 DEF Told, DrawerRows
<1>4. CASE Drawer!LoadMore
  <2>1. /\ drawer.next # 0 /\ UNCHANGED <<drawer, mixed>>
        /\ more' = [state |-> "sent", cursor |-> drawer.next, page |-> Drawer!NoPage,
                    stale |-> FALSE]
    BY <1>4 DEF Drawer!LoadMore
  <2>2. DrawerRows'
    BY <1>1, <1>3, <2>1, MoreStaysTyped
  <2>3. ListGoesOn' /\ MoreGoesOn'
    BY <1>1, <2>1 DEF Told, ListGoesOn, MoreGoesOn, Continues
  <2> QED BY <1>2, <2>2, <2>3 DEF Told
<1>5. CASE Drawer!ReadMore
  <2>1. /\ more.state = "sent" /\ UNCHANGED <<drawer, mixed>>
        /\ more' = [more EXCEPT !.state = "answered", !.page = Drawer!Page(more.cursor)]
    BY <1>5 DEF Drawer!ReadMore
  <2>2. /\ Drawer!Page(more.cursor) \in Drawer!Pages
        /\ \A j \in Reps : (more.cursor = 0 \/ j < more.cursor) =>
              \/ j \in Drawer!Page(more.cursor).groups
              \/ j < Drawer!Page(more.cursor).next
    BY <1>1, MoreStaysTyped, PageContinues
  <2>3. DrawerRows'
    BY <1>1, <1>3, <2>1, <2>2, MoreStaysTyped
  <2>4. /\ more'.state = "answered" /\ more'.page = Drawer!Page(more.cursor)
        /\ more'.cursor = more.cursor /\ more'.stale = more.stale
    BY <1>1, <2>1 DEF MoreRows
  <2>5. Continues(more.page, more.cursor)'
    BY <1>1, <2>2, <2>4 DEF Told, Continues
  <2>6. ListGoesOn' /\ MoreGoesOn'
    BY <1>1, <2>1, <2>4, <2>5 DEF Told, ListGoesOn, MoreGoesOn, Continues
  <2> QED BY <1>2, <2>3, <2>6 DEF Told
<1>6. CASE Drawer!ShowMore
  <2>1. /\ more.state = "answered" /\ more' = NoMore /\ mixed' = (mixed \/ more.stale)
        /\ drawer' = [groups |-> drawer.groups \cup more.page.groups,
                      next |-> more.page.next]
    BY <1>6 DEF Drawer!ShowMore, NoMore
  <2>2. /\ drawer' \in Drawer!Pages /\ drawer'.next = more.page.next
        /\ drawer'.groups = drawer.groups \cup more.page.groups
    BY <1>1, <2>1 DEF Drawer!Pages
  <2>3. DrawerRows'
    <3>1. (mixed \/ more.stale) \in BOOLEAN
      BY <1>1
    <3> QED BY <1>3, <2>1, <2>2, <3>1, EmptyRows
  <2>4. ASSUME first.state = "none", ~mixed, ~more.stale PROVE Continues(drawer, 0)'
    <3>1. /\ Continues(drawer, 0) /\ Continues(more.page, more.cursor)
          /\ more.cursor = drawer.next /\ more.cursor # 0
      BY <2>1, <2>4 DEF Told, ListGoesOn, MoreGoesOn
    <3> QED BY <1>1, <2>2, <3>1 DEF Continues
  <2>5. ListGoesOn' /\ MoreGoesOn'
    BY <1>1, <2>1, <2>4, EmptyRows DEF Told, ListGoesOn, MoreGoesOn, Continues
  <2> QED BY <1>2, <2>3, <2>5 DEF Told
<1>7. CASE Drawer!MoreFails
  <2>1. more' = NoMore /\ UNCHANGED <<drawer, mixed>>
    BY <1>7 DEF Drawer!MoreFails, NoMore
  <2>2. DrawerRows'
    BY <1>1, <1>3, <2>1, EmptyRows
  <2>3. ListGoesOn' /\ MoreGoesOn'
    BY <1>1, <2>1, EmptyRows DEF Told, ListGoesOn, MoreGoesOn, Continues
  <2> QED BY <1>2, <2>2, <2>3 DEF Told
<1> QED BY <1>4, <1>5, <1>6, <1>7

\* A step of the loop that clears and touches neither jobs nor lists.
LEMMA OnlyClearKeeps ==
    ASSUME Told, UNCHANGED <<handle, status, locked, drawer, first, more, steady, mixed>>,
           clear' \in Drawer!Clears, ClearedSoFar'
    PROVE  Told'
<1>1. DrawerRows' /\ steady' \subseteq Reps'
  BY DEF Told, DrawerRows, Reps, Drawer!RepresentativesIn, Drawer!VisibleIn
<1> QED BY <1>1, LessSteady DEF Told

LEMMA NothingToClear ==
    /\ Drawer!NoClear \in Drawer!Clears
    /\ Drawer!NoClear.pc = "idle" /\ Drawer!NoClear.due = {}
    /\ \A D \in SUBSET Drawer!Jobs :
         LET c == [Drawer!NoClear EXCEPT !.pc = "sent", !.due = D]
         IN  c \in Drawer!Clears /\ c.pc = "sent" /\ c.due = D
<1>1. 0 \in 0 .. MaxBatches /\ 0 \in 0 .. Batch
  BY DrawerAssumed
<1> QED BY <1>1 DEF Drawer!NoClear, Drawer!Clears

LEMMA ClearBatchKeeps ==
    ASSUME Told, Drawer!ClearBatch PROVE Told'
<1> DEFINE found == {j \in Drawer!Jobs : status[j] = "terminal" /\ j \notin locked}
           batch == Drawer!Newest(found, Batch)
           left == \E j \in Drawer!Jobs : status'[j] = "terminal"
<1>1. /\ clear.pc = "sent"
      /\ status' = [j \in Drawer!Jobs |-> IF j \in batch THEN "gone" ELSE status[j]]
      /\ steady' = steady \cap Drawer!RepresentativesIn(status')
      /\ clear' = [clear EXCEPT !.pc = "answered", !.deleted = Drawer!Cardinality(batch),
                                !.hasMore = left]
      /\ UNCHANGED <<handle, locked, drawer, first, more, mixed>>
  BY DEF Drawer!ClearBatch
<1>2. Drawer!Cardinality(batch) \in 0 .. Batch
  BY DrawerAssumed, NewestAreFirst, SameCount
<1>3. left \in BOOLEAN
  OBVIOUS
<1>4. /\ clear \in Drawer!Clears /\ clear.due \subseteq Drawer!Jobs
      /\ status \in [Drawer!Jobs -> Drawer!Statuses] /\ "gone" \in Drawer!Statuses
  BY DEF Told, DrawerRows, Drawer!Clears, Drawer!Statuses
<1> HIDE DEF batch
<1>5. steady' \subseteq steady /\ steady' \subseteq Reps'
  BY <1>1 DEF Reps, Drawer!RepresentativesIn, Drawer!VisibleIn
<1>6. \A j \in Drawer!Jobs : status'[j] \in {"gone", status[j]}
  BY <1>1
<1>7. status' \in [Drawer!Jobs -> Drawer!Statuses]
  BY <1>1, <1>4
<1>8. ~left => \A j \in Drawer!Jobs : status'[j] # "terminal"
  OBVIOUS
<1> HIDE DEF left
<1>9. /\ clear' \in Drawer!Clears /\ clear'.due = clear.due /\ clear'.pc = "answered"
      /\ clear'.hasMore = left
  BY <1>1, <1>2, <1>3, <1>4 DEF Drawer!Clears
<1>10. DrawerRows'
  BY <1>1, <1>5, <1>7, <1>9 DEF Told, DrawerRows
<1>11. ClearedSoFar'
  BY <1>4, <1>6, <1>8, <1>9 DEF Told, ClearedSoFar
<1> QED BY <1>1, <1>5, <1>10, <1>11, LessSteady DEF Told

LEMMA ClearStepKeeps ==
    ASSUME Told,
           Drawer!ClearAll \/ Drawer!ClearAnswered \/ Drawer!ClearFails \/ Drawer!ClearAgain
    PROVE  Told'
<1>1. /\ clear \in Drawer!Clears /\ clear.batch \in 0 .. MaxBatches
      /\ MaxBatches \in Nat
  BY DrawerAssumed DEF Told, DrawerRows, Drawer!Clears
<1>2. CASE Drawer!ClearAll
  <2> DEFINE D == {j \in Drawer!Jobs : status[j] = "terminal"}
  <2>1. /\ clear' = [Drawer!NoClear EXCEPT !.pc = "sent", !.due = D]
        /\ UNCHANGED <<handle, status, locked, drawer, first, more, steady, mixed>>
    BY <1>2 DEF Drawer!ClearAll
  <2>2. D \in SUBSET Drawer!Jobs /\ \A j \in D : status[j] = "terminal"
    OBVIOUS
  <2> HIDE DEF D
  <2>3. clear' \in Drawer!Clears /\ clear'.pc = "sent" /\ clear'.due = D
    BY <2>1, <2>2, NothingToClear
  <2>4. ClearedSoFar'
    BY <2>1, <2>2, <2>3 DEF ClearedSoFar
  <2> QED BY <2>1, <2>3, <2>4, OnlyClearKeeps
<1>3. CASE Drawer!ClearAnswered
  <2>1. /\ clear.pc = "answered"
        /\ UNCHANGED <<handle, status, locked, drawer, steady, mixed>>
    BY <1>3 DEF Drawer!ClearAnswered
  <2>2. CASE ~clear.hasMore /\ clear' = [clear EXCEPT !.pc = "done"] /\ Drawer!Reload
    <3>1. clear' \in Drawer!Clears /\ clear'.pc = "done" /\ clear'.due = clear.due
      BY <1>1, <2>2 DEF Drawer!Clears
    <3>2. ClearedSoFar'
      BY <2>1, <2>2, <3>1 DEF Told, ClearedSoFar
    <3> QED BY <2>1, <2>2, <3>1, <3>2, ReloadKeeps
  <2>3. CASE clear' = [clear EXCEPT !.pc = "failed"] /\ UNCHANGED <<first, more>>
    <3>1. clear' \in Drawer!Clears /\ clear'.pc = "failed" /\ clear'.due = clear.due
      BY <1>1, <2>3 DEF Drawer!Clears
    <3>2. ClearedSoFar'
      BY <2>1, <3>1 DEF Told, ClearedSoFar
    <3> QED BY <2>1, <2>3, <3>1, <3>2, OnlyClearKeeps
  <2>4. CASE /\ clear.batch + 1 < MaxBatches
             /\ clear' = [clear EXCEPT !.pc = "sent", !.batch = @ + 1]
             /\ UNCHANGED <<first, more>>
    <3>1. clear.batch + 1 \in 0 .. MaxBatches
      BY <1>1, <2>4
    <3>2. clear' \in Drawer!Clears /\ clear'.pc = "sent" /\ clear'.due = clear.due
      BY <1>1, <2>4, <3>1 DEF Drawer!Clears
    <3>3. ClearedSoFar'
      BY <2>1, <3>2 DEF Told, ClearedSoFar
    <3> QED BY <2>1, <2>4, <3>2, <3>3, OnlyClearKeeps
  <2> QED BY <1>3, <2>2, <2>3, <2>4 DEF Drawer!ClearAnswered
<1>4. CASE Drawer!ClearFails
  <2>1. /\ clear' = [clear EXCEPT !.pc = "failed"]
        /\ UNCHANGED <<handle, status, locked, drawer, first, more, steady, mixed>>
    BY <1>4 DEF Drawer!ClearFails
  <2>2. clear' \in Drawer!Clears /\ clear'.pc = "failed" /\ clear'.due = clear.due
    BY <1>1, <2>1 DEF Drawer!Clears
  <2>3. ClearedSoFar'
    BY <2>1, <2>2 DEF Told, ClearedSoFar
  <2> QED BY <2>1, <2>2, <2>3, OnlyClearKeeps
<1>5. CASE Drawer!ClearAgain
  <2>1. /\ clear' = Drawer!NoClear
        /\ UNCHANGED <<handle, status, locked, drawer, first, more, steady, mixed>>
    BY <1>5 DEF Drawer!ClearAgain
  <2>2. ClearedSoFar'
    BY <2>1, NothingToClear DEF ClearedSoFar
  <2> QED BY <2>1, <2>2, NothingToClear, OnlyClearKeeps
<1> QED BY <1>2, <1>3, <1>4, <1>5

LEMMA DrawerBegins == Init => Told
<1> SUFFICES ASSUME Init PROVE Told
  OBVIOUS
<1>1. /\ handle \in [Drawer!Jobs -> Handles] /\ status = [j \in Drawer!Jobs |-> "unborn"]
      /\ locked = {} /\ drawer = Drawer!NoPage /\ first = NoFirst /\ more = NoMore
      /\ clear = Drawer!NoClear /\ steady = {} /\ mixed = FALSE
  BY DEF Init, Drawer!Init, NoFirst, NoMore
<1>2. DrawerRows
  BY <1>1, EmptyRows, NothingToClear DEF DrawerRows, Drawer!Statuses
<1>3. ListGoesOn /\ MoreGoesOn /\ ClearedSoFar
  BY <1>1, EmptyRows, NothingToClear DEF ListGoesOn, MoreGoesOn, ClearedSoFar, Continues
<1> QED BY <1>1, <1>2, <1>3 DEF Told

LEMMA DrawerStepKeeps ==
    ASSUME Told, [Next]_vars PROVE Told'
<1>1. Drawer!Next \/ UNCHANGED drawerVars
  BY DEF Next, vars, OnlyRequests, OnlyPage
<1>2. CASE UNCHANGED drawerVars
  BY <1>2
  DEF drawerVars, Told, DrawerRows, ListGoesOn, MoreGoesOn, Continues, ClearedSoFar, Reps,
      Drawer!RepresentativesIn, Drawer!VisibleIn
<1>3. CASE Drawer!Next
  BY <1>3, JobStepKeeps, FirstStepKeeps, MoreStepKeeps, ClearBatchKeeps, ClearStepKeeps
  DEF Drawer!Next, Drawer!Loop
<1> QED BY <1>1, <1>2, <1>3

\* However many jobs come, end, expire or are deleted between the pages, a list
\* whose pages continue each other has every group that was there all the time;
\* and the drawer says "cleared" only when all that the owner meant is gone.
THEOREM DrawerIsTruthful == FairSpec => []DrawerTellsTheTruth
<1>1. Told => Drawer!TypeOK
  BY DrawerTyped DEF Told
<1>2. Told => Drawer!NothingSkipped
  <2> SUFFICES ASSUME Told, drawer.next = 0, first.state = "none", ~mixed,
                      NEW j \in steady
               PROVE  j \in drawer.groups
    BY DEF Drawer!NothingSkipped
  <2>1. j \in drawer.groups \/ j < 0
    BY DEF Told, ListGoesOn, Continues
  <2>2. j \in Nat
    BY DrawerAssumed DEF Told, DrawerRows
  <2> QED BY <2>1, <2>2
<1>3. Told => Drawer!ClearedIsGone
  BY DEF Told, ClearedSoFar, Drawer!ClearedIsGone
<1>4. Told => DrawerTellsTheTruth
  BY <1>1, <1>2, <1>3 DEF DrawerTellsTheTruth
<1>5. Told /\ [Next]_vars => Told'
  BY DrawerStepKeeps
<1> QED BY DrawerBegins, <1>4, <1>5, PTL DEF FairSpec

================================================================================
