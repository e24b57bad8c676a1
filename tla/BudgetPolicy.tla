---------------------------- MODULE BudgetPolicy ----------------------------
(***************************************************************************)
(* The deployment budget policy of internal/ads/changes.go: what an edit,  *)
(* an operation or a scheduled rule may set a budget to.  Decimal amounts  *)
(* are integers; a policy is [min, max, delta], delta in percent.          *)
(***************************************************************************)
LOCAL INSTANCE Integers

\* An unset limit is zero, and zero authorises nothing.
Configured(p) == p.min > 0 /\ p.max > 0 /\ p.delta > 0

WithinLimits(p, v) == p.min <= v /\ v <= p.max

\* 100 * |a - b| <= b * delta, without the division.
WithinDelta(p, b, a) ==
    LET change == IF a > b THEN a - b ELSE b - a
    IN  b > 0 /\ 100 * change <= b * p.delta

\* Policy.Validate for a budget change of one target from b to a.
BudgetAllows(p, b, a) ==
    /\ b # a
    /\ Configured(p)
    /\ WithinLimits(p, a)
    /\ WithinDelta(p, b, a)

\* validateOperationPolicy's checkNew: a budget that has no earlier value.
NewBudgetAllows(p, a) == Configured(p) /\ WithinLimits(p, a)

\* checkUpdate: re-stating the present budget is judged as a new one.
UpdateAllows(p, b, a) ==
    IF b = a THEN NewBudgetAllows(p, a) ELSE BudgetAllows(p, b, a)

\* The guardrails the settings form accepts (app.BudgetSettings.Policy).
ValidGuardrails(p) ==
    /\ p.min > 0 /\ p.max >= p.min /\ p.max <= 10000000
    /\ p.delta > 0 /\ p.delta <= 100
=============================================================================
