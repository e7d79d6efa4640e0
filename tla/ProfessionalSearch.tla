-------------------------- MODULE ProfessionalSearch --------------------------
(***************************************************************************)
(* The professional search of one wave: how its budget of queries,         *)
(* requests and profiles is dealt to the runs                              *)
(* (build_adaptive_professional_query_plan), and how one of those runs     *)
(* spends its share at Exa (search_exa_people_adaptive) or GitHub          *)
(* (search_github_people), which may fail, answer late or be cancelled.    *)
(*                                                                         *)
(* A proposal is a record [provider, name, located, variants]: the run of  *)
(* one hypothesis at one provider and the number of its query variants:    *)
(* for Exa the name with its location (if it has one), the name alone,     *)
(* then narrower ones.                                                     *)
(***************************************************************************)
EXTENDS Integers, Sequences

CONSTANTS Inputs,          \* records [mode, configured, proposals]
          AbsoluteLimits, QuickLimits,    \* records [names, queries, requests, profiles, stagnation]
          ExaPerRequest, ExaPerRun, GithubPerRun,
          None

Kinds == {"queries", "requests", "results"}
LimitKinds == {"names", "queries", "requests", "profiles", "stagnation"}
Proposal == [provider : {"exa", "github"}, name : Nat \ {0}, variants : Nat \ {0},
             located : BOOLEAN]

\* The configured numbers may be any; the proposals come in the order of their
\* hypotheses, and one without a query is not made.
ProfessionalSearchAssumption ==
    /\ {ExaPerRequest, ExaPerRun, GithubPerRun} \subseteq Nat \ {0}
    /\ \A kind \in LimitKinds : {AbsoluteLimits[kind], QuickLimits[kind]} \subseteq Nat \ {0}
    /\ \A asking \in Inputs :
          /\ \A kind \in LimitKinds : asking.configured[kind] \in Int
          /\ asking.proposals \in Seq(Proposal)
          /\ \A i, j \in DOMAIN asking.proposals :
                i < j => asking.proposals[i].name <= asking.proposals[j].name

VARIABLES
  input,
  phase,       \* "starting", "queries", "profiles", "planned", "running", "done"
  cursor,      \* the proposal the dealing loop looks at
  dealt,       \* the current round has dealt something
  budget,      \* proposal -> [queries, requests, results]; queries = 0: not planned
  left,        \* what is not dealt yet
  run,         \* the proposal that is running, 0 before
  asked,       \* requests it has made
  stagnant,    \* Exa queries in a row that brought no new profile
  profiles,    \* profiles it has collected
  failures,    \* statuses of the requests that failed
  cancelled,   \* the job has ended meanwhile
  outcome      \* [status, stopped] of the run

dealing == <<cursor, dealt, budget, left>>
searching == <<run, asked, stagnant, profiles, failures, outcome>>
vars == <<input, phase, dealing, searching, cancelled>>

Min2(a, b) == IF a <= b THEN a ELSE b
Clamp(value, most) == IF value < 1 THEN 1 ELSE Min2(value, most)

\* The configured envelope, bounded, and bounded again for a quick search,
\* which leaves GitHub out.
Limit(kind) ==
    LET configured == Clamp(input.configured[kind], AbsoluteLimits[kind])
    IN  IF input.mode = "deep" THEN configured ELSE Min2(configured, QuickLimits[kind])

Offered(p) == /\ p.name <= Limit("names")
              /\ p.provider = "github" => input.mode = "deep"
Proposals == input.proposals
Provider(i) == Proposals[i].provider

Nothing == [queries |-> 0, requests |-> 0, results |-> 0]
Active(i) == budget[i].queries > 0
MinimumRequests(i) == IF Provider(i) = "exa" THEN 1 ELSE 2

Init ==
    /\ input \in Inputs
    /\ phase = "starting"
    /\ cursor = 1
    /\ dealt = FALSE
    /\ budget = [i \in 1..Len(Proposals) |-> Nothing]
    /\ left = [queries |-> Limit("queries"), requests |-> Limit("requests"), results |-> Limit("profiles")]
    /\ run = 0 /\ asked = 0 /\ stagnant = 0 /\ profiles = 0
    /\ failures = {}
    /\ outcome = None
    /\ cancelled = FALSE

-----------------------------------------------------------------------------
(* Dealing the budget.                                                     *)

Deal(i, queries, requests, results) ==
    /\ budget' = [budget EXCEPT ![i] = [queries |-> @.queries + queries, requests |-> @.requests + requests,
                                        results |-> @.results + results]]
    /\ left' = [queries |-> left.queries - queries, requests |-> left.requests - requests,
                results |-> left.results - results]

CanStart(i) ==
    /\ Offered(Proposals[i])
    /\ left.queries >= 1 /\ left.requests >= MinimumRequests(i) /\ left.results >= 1

CanWiden(i) ==
    /\ Active(i) /\ Provider(i) = "exa"
    /\ budget[i].queries < Proposals[i].variants
    /\ left.queries > 0 /\ left.requests > 0

ExtraRequests(i) == IF Provider(i) = "exa" THEN 0 ELSE 1

MostResults(i) == IF Provider(i) = "exa" THEN Min2(ExaPerRun, budget[i].queries * ExaPerRequest)
                  ELSE GithubPerRun

CanDeepen(i) ==
    /\ Active(i)
    /\ budget[i].results < MostResults(i)
    /\ left.requests >= ExtraRequests(i)
    /\ left.results > 0

\* Every proposal gets its minimum, in the order of the hypotheses.
Start ==
    /\ phase = "starting" /\ cursor <= Len(Proposals) /\ CanStart(cursor)
    /\ Deal(cursor, 1, MinimumRequests(cursor), 1)
    /\ cursor' = cursor + 1
    /\ UNCHANGED <<input, phase, dealt, searching, cancelled>>

\* Then every round gives one more query to each Exa run that has a variant
\* left, and after that one more profile to each run that can take one.
Widen ==
    /\ phase = "queries" /\ cursor <= Len(Proposals) /\ CanWiden(cursor)
    /\ Deal(cursor, 1, 1, 0)
    /\ cursor' = cursor + 1
    /\ dealt' = TRUE
    /\ UNCHANGED <<input, phase, searching, cancelled>>

Deepen ==
    /\ phase = "profiles" /\ cursor <= Len(Proposals) /\ CanDeepen(cursor)
    /\ Deal(cursor, 0, ExtraRequests(cursor), 1)
    /\ cursor' = cursor + 1
    /\ dealt' = TRUE
    /\ UNCHANGED <<input, phase, searching, cancelled>>

\* Mutant: the first proposal that cannot start ends the loop.
StopShort ==
    /\ cursor <= Len(Proposals)
    /\ \/ phase = "starting" /\ ~CanStart(cursor)
       \/ phase = "queries" /\ ~CanWiden(cursor)
       \/ phase = "profiles" /\ ~CanDeepen(cursor)
    /\ cursor' = Len(Proposals) + 1
    /\ UNCHANGED <<input, phase, dealt, budget, left, searching, cancelled>>

PassOver ==
    /\ cursor <= Len(Proposals)
    /\ \/ phase = "starting" /\ ~CanStart(cursor)
       \/ phase = "queries" /\ ~CanWiden(cursor)
       \/ phase = "profiles" /\ ~CanDeepen(cursor)
    /\ cursor' = cursor + 1
    /\ UNCHANGED <<input, phase, dealt, budget, left, searching, cancelled>>

NextRound ==
    /\ cursor > Len(Proposals)
    /\ \/ phase = "starting" /\ phase' = "queries"
       \/ phase = "queries" /\ phase' = IF dealt THEN "queries" ELSE "profiles"
       \/ phase = "profiles" /\ phase' = IF dealt THEN "profiles" ELSE "planned"
    /\ cursor' = 1
    /\ dealt' = FALSE
    /\ UNCHANGED <<input, budget, left, searching, cancelled>>

-----------------------------------------------------------------------------
(* Running one of the planned runs.                                        *)

Begin(i) ==
    /\ phase = "planned"
    /\ Active(i)
    /\ phase' = "running"
    /\ run' = i
    /\ UNCHANGED <<input, dealing, asked, stagnant, profiles, failures, outcome, cancelled>>

\* The job is cancelled, deleted or finalized while the run is out.
Cancel ==
    /\ phase = "running"
    /\ ~cancelled
    /\ cancelled' = TRUE
    /\ UNCHANGED <<input, phase, dealing, searching>>

Serious == {"auth_required", "rate_limited", "timeout", "provider_error", "invalid_response"}
Urgency(status) ==
    CASE status = "auth_required" -> 0 [] status = "rate_limited" -> 1 [] status = "timeout" -> 2
      [] status = "provider_error" -> 3 [] status = "invalid_response" -> 4 [] OTHER -> 5
MostUrgent(statuses) == CHOOSE s \in statuses : \A o \in statuses : Urgency(s) <= Urgency(o)

\* Mutant: a failure counts only when nothing was found before it.
ConcludeFirst(found, failed) ==
    IF found > 0 THEN "success" ELSE IF failed = {} THEN "no_result" ELSE MostUrgent(failed)

Conclude(found, failed) ==
    IF found > 0 THEN IF failed \cap Serious # {} THEN "partial_success" ELSE "success"
    ELSE IF failed = {} THEN "no_result" ELSE MostUrgent(failed)

Outcome == [status : Serious \cup {"no_result", "success", "partial_success", "cancelled"},
            stopped : {"spent", "stagnant", "late", "failed", "cancelled"}]
Finish(status, stopped) ==
    /\ outcome' = [status |-> status, stopped |-> stopped]
    /\ phase' = "done"

Mine == budget[run]
Stagnation == Limit("stagnation")
Share == IF Provider(run) = "exa" THEN Min2(ExaPerRequest, Mine.results) ELSE 1

\* Cancellation is looked at before every request and after its answer, not
\* once the last answer is in.
StopCancelled ==
    /\ phase = "running"
    /\ cancelled
    /\ asked < Mine.requests
    /\ Finish(IF profiles > 0 THEN "partial_success" ELSE "cancelled", "cancelled")
    /\ UNCHANGED <<input, dealing, run, asked, stagnant, profiles, failures, cancelled>>

\* The time budget is looked at before every request.
StopLate ==
    /\ phase = "running" /\ ~cancelled
    /\ asked < Mine.requests
    /\ failures' = failures \cup {"timeout"}
    /\ Finish(Conclude(profiles, failures'), "late")
    /\ UNCHANGED <<input, dealing, run, asked, stagnant, profiles, cancelled>>

StopSpent ==
    /\ phase = "running"
    /\ \/ asked = Mine.requests
       \/ Provider(run) = "exa" /\ profiles = Mine.results /\ ~cancelled
    /\ Finish(Conclude(profiles, failures), "spent")
    /\ UNCHANGED <<input, dealing, run, asked, stagnant, profiles, failures, cancelled>>

\* One Exa query: new profiles, none, or a failure.  A failure other than "no
\* result" ends the run, and so does a row of queries with nothing new.
AskExa(novel, status) ==
    /\ phase = "running" /\ ~cancelled
    /\ Provider(run) = "exa"
    /\ asked < Mine.requests /\ profiles < Mine.results
    /\ asked' = asked + 1
    /\ profiles' = Min2(profiles + novel, Mine.results)
    /\ stagnant' = IF novel > 0 THEN 0 ELSE stagnant + 1
    /\ failures' = IF status = "success" THEN failures ELSE failures \cup {status}
    /\ IF status \in Serious THEN Finish(Conclude(profiles', failures'), "failed")
       ELSE IF stagnant' >= Stagnation THEN Finish(Conclude(profiles', failures'), "stagnant")
       ELSE UNCHANGED <<phase, outcome>>
    /\ UNCHANGED <<input, dealing, run, cancelled>>

\* GitHub: the search by name, whose failure leaves the guessed logins, then
\* one account per request; a failed one does not end the run, and one that
\* is found again adds nothing.
AskGithub(novel, status) ==
    /\ phase = "running" /\ ~cancelled
    /\ Provider(run) = "github"
    /\ asked < Mine.requests
    /\ asked = 0 => status # "no_result"
    /\ asked' = asked + 1
    /\ \/ novel = 1 /\ asked > 0
       \/ novel = 0 /\ (asked = 0 \/ status # "success" \/ profiles > 0)
    /\ profiles' = profiles + novel
    /\ failures' = IF status = "success" THEN failures ELSE failures \cup {status}
    /\ UNCHANGED <<input, phase, dealing, run, stagnant, outcome, cancelled>>

\* There are fewer logins than requests.
StopNoLogins ==
    /\ phase = "running"
    /\ Provider(run) = "github"
    /\ asked > 0
    /\ cancelled => asked > 1
    /\ Finish(Conclude(profiles, failures), "spent")
    /\ UNCHANGED <<input, dealing, run, asked, stagnant, profiles, failures, cancelled>>

\* The job ends while a request is out: its answer is not looked at.
DropAnswer ==
    /\ phase = "running" /\ ~cancelled
    /\ asked < Mine.requests
    /\ asked' = asked + 1
    /\ cancelled' = TRUE
    /\ Finish(IF profiles > 0 THEN "partial_success" ELSE "cancelled", "cancelled")
    /\ UNCHANGED <<input, dealing, run, stagnant, profiles, failures>>

Answers == {"success", "no_result", "rate_limited", "provider_error"}

Next ==
    \/ Start \/ Widen \/ Deepen \/ PassOver \/ NextRound
    \/ \E i \in DOMAIN budget : Begin(i)
    \/ Cancel \/ StopCancelled \/ StopLate \/ StopSpent \/ StopNoLogins \/ DropAnswer
    \/ \E status \in Answers :
         \E novel \in 0..(IF run # 0 /\ status = "success" THEN Share ELSE 0) :
           AskExa(novel, status) \/ AskGithub(novel, status)

Spec == Init /\ [][Next]_vars

-----------------------------------------------------------------------------
Cap(kind) == Limit(IF kind = "results" THEN "profiles" ELSE kind)
Dealt(kind) ==
    LET sum[n \in 0..Len(Proposals)] == IF n = 0 THEN 0 ELSE sum[n - 1] + budget[n][kind]
    IN  sum[Len(Proposals)]
Dealing == phase \in {"starting", "queries", "profiles"}

TypeOK ==
    /\ input \in Inputs
    /\ phase \in {"starting", "queries", "profiles", "planned", "running", "done"}
    /\ cursor \in 1..(Len(Proposals) + 1)
    /\ dealt \in BOOLEAN /\ cancelled \in BOOLEAN
    /\ budget \in [1..Len(Proposals) -> [queries : Nat, requests : Nat, results : Nat]]
    /\ left \in [queries : Nat, requests : Nat, results : Nat]
    /\ run \in 0..Len(Proposals)
    /\ asked \in Nat /\ stagnant \in Nat /\ profiles \in Nat
    /\ failures \subseteq Serious \cup {"no_result"}
    /\ outcome \in IF phase = "done" THEN Outcome ELSE {None}

\* What the runs may spend and what is left is what the mode allows: the
\* loops hand nothing out twice, and lose nothing.
BudgetIsKept == \A kind \in Kinds : Dealt(kind) + left[kind] = Cap(kind)

\* Every planned run is one its adapter accepts (another is answered
\* "invalid_response" without a request): an Exa run has a request per query
\* and no more profiles than its queries can return, a GitHub run one request
\* for the search and one per profile.
RunsSuitTheirAdapter ==
    ~Dealing => \A i \in DOMAIN budget : Active(i) =>
      LET b == budget[i]
      IN  IF Provider(i) = "exa"
          THEN /\ b.requests = b.queries /\ b.queries <= Proposals[i].variants
               /\ b.results \in 1..Min2(ExaPerRun, b.queries * ExaPerRequest)
          ELSE b.queries = 1 /\ b.results \in 1..GithubPerRun /\ b.requests = b.results + 1

\* The budget is dealt evenly: a run falls more than one behind another only
\* when it cannot use more.
RunsShareEvenly ==
    ~Dealing => \A i, j \in DOMAIN budget : Active(i) /\ Active(j) =>
      /\ Provider(i) = "exa" /\ Provider(j) = "exa" /\ budget[i].queries > budget[j].queries + 1
           => budget[j].queries = Proposals[j].variants
      /\ budget[i].results > budget[j].results + 1
           => budget[j].results = MostResults(j) \/ left.requests < ExtraRequests(j)

\* No budget lies idle that a run could use, and a better name is not left
\* out of Exa for a worse one.
NothingLiesIdle ==
    ~Dealing => \A i \in DOMAIN budget :
      /\ ~CanWiden(i) /\ ~CanDeepen(i) /\ (Active(i) \/ ~CanStart(i))
      /\ \A j \in DOMAIN budget :
           i < j /\ Provider(i) = "exa" /\ Provider(j) = "exa" /\ Active(j) => Active(i)

\* A run spends no more than it was dealt, and returns no more profiles.
RunsKeepTheirShare ==
    run # 0 => asked <= Mine.requests /\ profiles <= Mine.results

\* Finalization takes "success" and "no_result" for conclusive.  A run says so
\* only if it was neither cut short nor failed, and looked at least once.
ConclusiveWhenLooked ==
    phase = "done" /\ outcome.status \in {"success", "no_result"} =>
      /\ asked > 0
      /\ failures \cap Serious = {}
      /\ outcome.stopped \in {"spent", "stagnant"}
      /\ outcome.status = "success" <=> profiles > 0

=============================================================================
