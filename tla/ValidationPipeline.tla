------------------------- MODULE ValidationPipeline -------------------------
(***************************************************************************)
(* Threads that run ValidationPipeline::validate concurrently on one rate  *)
(* limiter and one budget controller.  Stages 1 to 3 read only the request *)
(* and the registry, which is filled before requests are served, so they   *)
(* are one step, together with the clock reading that opens stage 4; the   *)
(* later stages each take a lock, or call the dry-run adapter, of their    *)
(* own.                                                                    *)
(***************************************************************************)
EXTENDS RateLimiter, BudgetController, FiniteSets, Functions

CONSTANTS
    ActionIds,
    registry,      \* action id -> the latest schema, for the registered ones
    Requests,      \* the requests that can arrive
    MaxRequests,   \* bound on the requests ever submitted
    MaxResets      \* bound on the resets of each kind

BlastRadiusClass == {"scoped", "bounded", "broad"}

Rank(class) == CASE class = "scoped" -> 0 [] class = "bounded" -> 1 [] class = "broad" -> 2

ASSUME PipelineAssumption ==
    /\ Classes = BudgetClasses /\ Classes \subseteq BlastRadiusClass
    /\ DOMAIN registry \subseteq ActionIds
    /\ \A a \in DOMAIN registry : registry[a].class \in Classes /\ registry[a].limit \in Uint
    /\ Requests # {} /\ IsFiniteSet(Requests) /\ IsFiniteSet(Threads)
    /\ \A r \in Requests :
           /\ r.operator \in Operators \cap BudgetOperators /\ r.session \in BudgetSessions
           /\ r.max_class \in BlastRadiusClass /\ r.estimated \in Uint
    /\ MaxRequests \in Nat /\ MaxResets \in Nat

VARIABLES
    dry_run_,  \* whether the pipeline was given a DryRunPort; never changes
    stage,    \* thread -> "idle", "rate", "budget" or "dry_run"
    req,      \* thread -> the request it validates
    at,       \* thread -> its clock reading
    submitted, \* number of requests so far
    tally,    \* history: how often each request got each answer
    waived,   \* history: account -> units its resets have written off
    resets    \* history: how often the limiter and the budget were reset

pipeline_vars == <<buckets, ledger_, dry_run_, now, stage, req, at, submitted, tally, waived, resets>>

Answers ==
    {"validated", "validated_after_dry_run", "schema_not_found", "action_not_permitted",
     "scope_missing", "blast_radius_exceeds_operator_ceiling", "blast_radius_exceeded",
     "rate_limit_exceeded", "budget_exhausted", "dry_run_unavailable", "dry_run_failed"}

(* Faulty variant: scopes are not looked at.                               *)
check_permission_unscoped(r, schema) ==
    IF r.action \notin r.permitted THEN "action_not_permitted"
    ELSE IF Rank(schema.class) > Rank(r.max_class) THEN "blast_radius_exceeds_operator_ceiling"
    ELSE "ok"

check_permission(r, schema) ==
    IF r.action \notin r.permitted THEN "action_not_permitted"
    ELSE IF ~(schema.required_scopes \subseteq r.scopes) THEN "scope_missing"
    ELSE IF Rank(schema.class) > Rank(r.max_class) THEN "blast_radius_exceeds_operator_ceiling"
    ELSE "ok"

enforce_blast_radius(r, schema) ==
    IF r.estimated > schema.limit THEN "blast_radius_exceeded" ELSE "ok"

(* Stages 1 to 3.                                                          *)
Precheck(r) ==
    IF r.action \notin DOMAIN registry THEN "schema_not_found"
    ELSE IF check_permission(r, registry[r.action]) # "ok"
        THEN check_permission(r, registry[r.action])
    ELSE enforce_blast_radius(r, registry[r.action])

Class(r) == registry[r.action].class
Key(r) == <<r.operator, Class(r)>>
Account(r) == <<r.operator, r.session, Class(r)>>

PipelineInit ==
    /\ LimiterInit /\ BudgetInit
    /\ dry_run_ \in BOOLEAN
    /\ now = Window
    /\ submitted = 0
    /\ waived = [a \in Accounts |-> 0] /\ resets = [limiter |-> 0, budget |-> 0]
    /\ stage = [t \in Threads |-> "idle"]
    /\ req \in [Threads -> {CHOOSE r \in Requests : TRUE}]
    /\ at = [t \in Threads |-> 0]
    /\ tally = [r \in Requests |-> [a \in Answers |-> 0]]

Answer(t, a) ==
    /\ tally' = [tally EXCEPT ![req'[t]][a] = @ + 1]
    /\ stage' = [stage EXCEPT ![t] = "idle"]

Continue(t, s) ==
    /\ stage' = [stage EXCEPT ![t] = s]
    /\ UNCHANGED tally

Submit(t, r) ==
    /\ stage[t] = "idle" /\ submitted < MaxRequests
    /\ submitted' = submitted + 1
    /\ req' = [req EXCEPT ![t] = r]
    /\ IF Precheck(r) = "ok"
       THEN Continue(t, "rate") /\ at' = [at EXCEPT ![t] = now]
       ELSE Answer(t, Precheck(r)) /\ UNCHANGED at
    /\ UNCHANGED <<buckets, ledger_, dry_run_, now, waived, resets>>

RateStage(t) ==
    /\ stage[t] = "rate"
    /\ check_and_record(Key(req[t]), at[t])
    /\ UNCHANGED <<req, ledger_, dry_run_, now, submitted, waived, resets>>
    /\ at' = [at EXCEPT ![t] = 0]
    /\ IF Admits(Key(req[t]), at[t])
       THEN Continue(t, "budget")
       ELSE Answer(t, "rate_limit_exceeded")

BudgetStage(t) ==
    /\ stage[t] = "budget"
    /\ consume(Account(req[t]), req[t].estimated)
    /\ UNCHANGED <<req, buckets, dry_run_, now, at, submitted, waived, resets>>
    /\ IF Exhausted(Account(req[t]), req[t].estimated)
       THEN Answer(t, "budget_exhausted")
       ELSE IF registry[req[t].action].dry_run = "mandatory"
            THEN Continue(t, "dry_run")
            ELSE Answer(t, "validated")

(* The adapter succeeds or fails; without one a mandatory dry run fails.   *)
DryRunStage(t) ==
    /\ stage[t] = "dry_run"
    /\ UNCHANGED <<req, buckets, ledger_, dry_run_, now, at, submitted, waived, resets>>
    /\ \E a \in IF dry_run_ THEN {"validated_after_dry_run", "dry_run_failed"}
                ELSE {"dry_run_unavailable"} : Answer(t, a)

(* Tear-down of an operator's sessions: the lifecycle manager resets both  *)
(* counters, one after the other, and requests can still be in flight.     *)
ResetLimiter(o) ==
    /\ resets.limiter < MaxResets
    /\ reset(o)
    /\ resets' = [resets EXCEPT !.limiter = @ + 1]
    /\ UNCHANGED <<ledger_, dry_run_, now, stage, req, at, submitted, tally, waived>>

ResetBudget(o) ==
    /\ resets.budget < MaxResets
    /\ reset_operator(o)
    /\ resets' = [resets EXCEPT !.budget = @ + 1]
    /\ waived' = [a \in Accounts |-> IF a[1] = o THEN waived[a] + ledger_[a] ELSE waived[a]]
    /\ UNCHANGED <<buckets, dry_run_, now, stage, req, at, submitted, tally>>

TimePasses ==
    /\ now < MaxTime
    /\ now' = now + 1
    /\ UNCHANGED <<buckets, ledger_, dry_run_, stage, req, at, submitted, tally, waived, resets>>

PipelineNext ==
    \/ \E t \in Threads :
           \/ \E r \in Requests : Submit(t, r)
           \/ RateStage(t) \/ BudgetStage(t) \/ DryRunStage(t)
    \/ \E o \in Operators : ResetLimiter(o)
    \/ \E o \in BudgetOperators : ResetBudget(o)
    \/ TimePasses

PipelineSpec == PipelineInit /\ [][PipelineNext]_pipeline_vars

-----------------------------------------------------------------------------
PipelineTypeOK ==
    /\ buckets \in [Keys -> Bucket]
    /\ LedgerOK
    /\ dry_run_ \in BOOLEAN /\ now \in Nat
    /\ stage \in [Threads -> {"idle", "rate", "budget", "dry_run"}]
    /\ req \in [Threads -> Requests]
    /\ tally \in [Requests -> [Answers -> Nat]]

Accepted == {"validated", "validated_after_dry_run"}
AfterBudget == Accepted \cup {"dry_run_unavailable", "dry_run_failed"}
AfterRate == AfterBudget \cup {"budget_exhausted"}

Got(r, answers) == \E a \in answers : tally[r][a] > 0

Answered(r, answers) == SumFunctionOnSet(tally[r], answers)

(* The requests that got one of `answers`, and those that are in one of    *)
(* `stages`, each weighted by W.                                           *)
Total(W, answers, stages) ==
    SumFunctionOnSet([r \in Requests |-> Answered(r, answers) * W[r]], Requests)
    + SumFunctionOnSet([t \in Threads |-> IF stage[t] \in stages THEN W[req[t]] ELSE 0], Threads)

Units(a) ==
    [r \in Requests |-> IF Precheck(r) = "ok" /\ Account(r) = a THEN r.estimated ELSE 0]

Tokens(k) == [r \in Requests |-> IF Precheck(r) = "ok" /\ Key(r) = k THEN 1 ELSE 0]

(* The pipeline's defences compose: whatever was validated was registered, *)
(* permitted, within the operator's and the action's blast radius, and     *)
(* dry-run if the schema demands it - which takes an adapter.              *)
ValidatedMeansChecked ==
    \A r \in Requests :
        /\ Got(r, Accepted) =>
               /\ r.action \in DOMAIN registry \cap r.permitted
               /\ registry[r.action].required_scopes \subseteq r.scopes
               /\ Rank(Class(r)) <= Rank(r.max_class)
               /\ r.estimated <= registry[r.action].limit
        /\ Got(r, {"validated"}) => registry[r.action].dry_run # "mandatory"
        /\ Got(r, {"validated_after_dry_run"}) => dry_run_

(* The ledger holds exactly the units of the requests that passed the      *)
(* budget stage since the last reset: those refused before it cost nothing,*)
(* those that fail in the dry run afterwards stay charged, none is charged *)
(* twice.                                                                  *)
LedgerIsExact ==
    \A a \in Accounts :
        ledger_[a] + waived[a] = Total(Units(a), AfterBudget, {"dry_run"})

(* Between two resets there are at most now \div Window windows: as many   *)
(* again after each, because readings taken before it are still under way. *)
(* The requests let past the rate stage fit in them, and one refused       *)
(* before that stage uses up no token.                                     *)
TokensAccounted ==
    \A k \in Keys :
        LET passed == Total(Tokens(k), AfterRate, {"budget", "dry_run"})
        IN  /\ buckets[k].count <= passed
            /\ passed <= limit_for[k[2]] * ((now \div Window) * (resets.limiter + 1))

(* What the counters are worth: typed, below the ceiling, exact for units  *)
(* and accounted for in tokens.                                            *)
LedgerInv == PipelineTypeOK /\ LedgerIsExact /\ TokensAccounted
=============================================================================
