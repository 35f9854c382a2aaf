------------------------------ MODULE Planner ------------------------------
(***************************************************************************)
(* Query plans: PLAN and EVAL (src/src/planner.cpp).  A plan lists steps   *)
(* with what they are thought to read; its evaluation shares the budget    *)
(* out over them.  Costs only go into digests and are left out.            *)
(***************************************************************************)
EXTENDS Bloom, SkipIndex

CONSTANTS
    PlanLimit,      \* largest budget (the code: 4096)
    Modes,          \* modes commands ask for
    Budgets         \* budgets commands ask for

ASSUME PlanConstants == PlanLimit \in Nat

VARIABLES
    plan,           \* Store.plan: steps, budget and whether it is ready
    shares          \* history: what each step got in the last EVAL

planVars == <<plan, shares>>

PlanInit ==
    /\ plan = [steps |-> <<>>, limit |-> 0, ready |-> FALSE]
    /\ shares = <<>>

-----------------------------------------------------------------------------
StoreSizes ==
    [docs  |-> Cardinality(DOMAIN documents),
     pages |-> Cardinality(DOMAIN pages),
     graph |-> Len(links) + Cardinality(DOMAIN nodes)]

Step(name, fanout, cardinality) ==
    [name |-> name, fanout |-> fanout, cardinality |-> cardinality]

\* The steps of each mode, then those of the indexes there are.  A mode no
\* one knows has none of its own and is not rejected for it.
Steps(mode, size) ==
    LET If(wanted, step) == IF wanted THEN <<step>> ELSE <<>>
    IN  If(mode \in {"docs", "mixed"}, Step("doc-scan", 4, size.docs))
        \o If(mode \in {"pages", "mixed"}, Step("page-scan", 8, size.pages))
        \o If(mode \in {"graph", "mixed"}, Step("graph-expand", 3, size.graph))
        \o If(bloom.ready, Step("bloom-filter", 1, size.docs + size.pages))
        \o If(skip.built, Step("skip-seek", 1, size.pages))

-----------------------------------------------------------------------------
(* PLAN mode limit: the old steps are gone when the new ones turn out none. *)

PlanCheck(mode, limit) ==
    IF mode = "" \/ limit \notin 1..PlanLimit THEN "limit"
    ELSE IF Steps(mode, StoreSizes) = <<>> THEN "invalid_state" ELSE "ok"

BuildQueryPlan(mode, limit) ==
    /\ status' = PlanCheck(mode, limit)
    /\ IF status' = "limit" THEN UNCHANGED planVars
       ELSE /\ plan' = [steps |-> Steps(mode, StoreSizes), limit |-> limit,
                        ready |-> plan.ready \/ status' = "ok"]
            /\ shares' = <<>>

-----------------------------------------------------------------------------
(* EVAL *)

Wanted(step) == step.cardinality + step.fanout

\* Mutant: the budget of the first step is that of each.
SharedOutAll(steps, limit) ==
    [i \in DOMAIN steps |-> Min({limit, Wanted(steps[i])})]

\* Each step gets what it wants, or what is left.
SharedOut(steps, limit) ==
    LET With(given, step) ==
            Append(given, Min({limit - Total(given), Wanted(step)}))
        given[n \in 0..Len(steps)] ==
            IF n = 0 THEN <<>> ELSE With(given[n - 1], steps[n])
    IN  given[Len(steps)]

EvaluateQueryPlan ==
    /\ status' = IF ~plan.ready \/ plan.steps = <<>> THEN "invalid_state" ELSE "ok"
    /\ shares' = IF status' = "ok" THEN SharedOut(plan.steps, plan.limit) ELSE shares
    /\ UNCHANGED plan

-----------------------------------------------------------------------------
PlanNext ==
    \/ \E mode \in Modes, limit \in Budgets : BuildQueryPlan(mode, limit)
    \/ EvaluateQueryPlan

(* An evaluation never spends more than the budget, leaves none of it while *)
(* a step wants more, and starves a step only once the budget is spent.     *)
(* What the steps want was counted when the plan was made: the store may    *)
(* have changed since, the plan has not.                                    *)
PlanWithinBudget ==
    shares # <<>> =>
        LET wants == Total([i \in DOMAIN plan.steps |-> Wanted(plan.steps[i])])
        IN  /\ Total(shares) = Min({plan.limit, wants})
            /\ \A i \in DOMAIN shares :
                  shares[i] < Wanted(plan.steps[i]) =>
                      \A j \in DOMAIN shares : j > i => shares[j] = 0
=============================================================================
