---------------------------- MODULE BillingTotals ----------------------------
(***************************************************************************)
(* What the stores of BillingSession owe to its requests: each store is    *)
(* shared by all of them, and what it has lost is the sum of what they     *)
(* took.                                                                   *)
(***************************************************************************)
EXTENDS BillingSession, FiniteSets, Functions

ASSUME FiniteRequests == IsFiniteSet(Request)

Positive(n) == IF n > 0 THEN n ELSE 0

(* What a request took from the wallet beyond its checked reservation:      *)
(* top-ups, trust and settlement past what the session had reserved, and    *)
(* whatever it was charged past its session.                                *)
Overdraft(r) ==
  IF sess[r].src = "subscription" THEN 0
  ELSE Positive(charged[r] - (sess[r].pre - sess[r].extra)) + direct[r]

(* The checked reservations of concurrent wallet requests never oversell    *)
(* the wallet: it is in debt at most by what was charged beyond them.       *)
WalletDebtExplained ==
  wallet + SumFunction([r \in Request |-> Overdraft(r)]) >= 0

(* What a request took from the token beyond its checked reservations. *)
TokenOverdraft(r) ==
  IF r \in Playground THEN 0
  ELSE Positive(tcharged[r] - sess[r].tok) + direct[r]

(* Nor do they oversell a limited token, whose pre-consume and top-ups are  *)
(* both checked: it is in debt at most by settlements beyond what is        *)
(* reserved of it and by charges past the sessions.                         *)
TokenDebtExplained ==
  \/ UnlimitedToken
  \/ token + SumFunction([r \in Request |-> TokenOverdraft(r)]) >= 0

(* What a request took from the subscription. *)
SubscriptionCharge(r) ==
  IF sess[r].src = "subscription" THEN charged[r] + direct[r] ELSE 0

(* A subscription's usage is the sum of what requests were charged: the     *)
(* clamp at zero never swallows a refund.                                   *)
SubscriptionReconciles ==
  torn = 0 =>
    used = SumFunction([r \in Request |-> SubscriptionCharge(r)])
=============================================================================
