--------------------------- MODULE MCSessionFence ---------------------------
(***************************************************************************)
(* The instance of SessionFence that TLC checks.                           *)
(***************************************************************************)
EXTENDS SessionFence, TLC

\* No action and no property tells one process from another.
Symmetry == Permutations(Proc)
=============================================================================
