-------------------------- MODULE MCBillingSession --------------------------
(* Instances of BillingSession for TLC. *)
EXTENDS BillingTotals, TLC

CONSTANTS r1, r2

Both == {r1, r2}
First == {r1}
Second == {r2}
None == {}
Symmetry == Permutations(Both)

WalletOnly == [r \in Request |-> "wallet_only"]
SubscriptionOnly == [r \in Request |-> "subscription_only"]
EachFirst ==
  [r \in Request |-> IF r = r1 THEN "wallet_first" ELSE "subscription_first"]
=============================================================================
