---------------------------- MODULE MCSystemTask ----------------------------
(* Instances of SystemTask for TLC. *)
EXTENDS SystemTask, TLC

CONSTANTS n1, n2, t1, t2

Two == {n1, n2}
Survivor == {n1}
None == {}
OldRow == {t1}
Tasks == {t1, t2}
Symmetry == Permutations(Runner \ Immortal)
=============================================================================
