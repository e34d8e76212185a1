----------------------------- MODULE PollPolicy -----------------------------
(***************************************************************************)
(* The pure rules of the three kinds of polls, domain/polls/policy.py.     *)
(* A ratio is a pair <<numerator, denominator>> of naturals: the policies  *)
(* hold short decimals, on which the code's Decimal arithmetic is exact,   *)
(* so a comparison of quotients is one of products.                        *)
(***************************************************************************)
EXTENDS Integers

Ratio == {r \in Nat \X (Nat \ {0}) : r[1] <= r[2]}

\* Mutant: the floor.
RequiredRoundsDown(eligible, r) == (eligible * r[1]) \div r[2]

\* _required: the ceiling of eligible * ratio.
Required(eligible, r) == (eligible * r[1] + r[2] - 1) \div r[2]

\* part / whole >= r and part / whole > r, for whole > 0
AtLeast(part, whole, r) == part * r[2] >= whole * r[1]
Above(part, whole, r) == part * r[2] > whole * r[1]

EvaluateProblem(t, policy, expired) ==
  CASE t.eligible = 0 -> "no_audience"
    [] t.eligible > 0 /\ t.yes >= Required(t.eligible, policy.threshold) ->
         "request_ready"
    [] OTHER -> IF expired THEN "need_evidence" ELSE "collecting"

EvaluateInitiative(t, policy) ==
  CASE t.eligible = 0 -> "no_audience"
    [] t.eligible > 0 /\ t.yes + t.no >= Required(t.eligible, policy.participation)
                      /\ AtLeast(t.yes, t.yes + t.no, policy.support) -> "supported"
    [] OTHER -> "not_supported"

EvaluateResolution(t, policy) ==
  LET answered == t.yes + t.no IN
  IF t.eligible = 0 \/ answered = 0 THEN "resolution_unconfirmed"
  ELSE IF Above(t.no, answered, policy.reopen) THEN "reopened"
  ELSE IF /\ answered >= Required(t.eligible, policy.response)
          /\ AtLeast(t.yes, answered, policy.confirm)
       THEN "closed"
       ELSE "resolution_unconfirmed"

\* PollState.finalize: the outcome of a poll of each kind at its deadline.
Final(kind, t, policy) ==
  CASE kind = "problem"    -> EvaluateProblem(t, policy, TRUE)
    [] kind = "initiative" -> EvaluateInitiative(t, policy)
    [] kind = "resolution" -> EvaluateResolution(t, policy)

=============================================================================
