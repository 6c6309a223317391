---------------------------- MODULE MCTaskBilling ----------------------------
(* Instances of TaskBilling for TLC. *)
EXTENDS TaskBilling, TLC

CONSTANTS p1, p2, f1, f2

One == {p1}
Two == {p1, p2}
User == {f1}
TwoUsers == {f1, f2}
None == {}
OneQuota == {1}
SomeQuotas == {1, 3}
SomeActuals == {0, 2}
Symmetry == Permutations(Poller)
=============================================================================
