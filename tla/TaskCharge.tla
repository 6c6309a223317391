----------------------------- MODULE TaskCharge -----------------------------
(***************************************************************************)
(* What a task promises to whoever pays for it, the funding source or the  *)
(* token: an estimate is taken, and replaced by a price or returned when   *)
(* the submission ends; then the difference between that price and what    *)
(* the task turned out to cost is taken or returned, at most once, and     *)
(* after that nothing.                                                     *)
(***************************************************************************)
EXTENDS Integers

CONSTANTS
  Quotas,  \* what a submission may cost
  Actuals  \* what a task may turn out to cost; 0 if it failed

VARIABLES
  phase,  \* "new", "held", "open" or "closed"
  price,  \* what the task counts as paid
  paid    \* what was paid

vars == <<phase, price, paid>>

Init == phase = "new" /\ price = 0 /\ paid = 0

Hold ==
  /\ phase = "new"
  /\ phase' = "held"
  /\ paid' \in Quotas
  /\ UNCHANGED price

(* The submission is refused, and the estimate returned. *)
Return ==
  /\ phase = "held"
  /\ phase' = "closed"
  /\ paid' = 0
  /\ UNCHANGED price

(* The submission is accepted; its settlement may fail. *)
Accept ==
  /\ phase = "held"
  /\ phase' = "open"
  /\ price' \in Quotas
  /\ paid' \in {paid, price'}

(* A failure is refunded, a success adjusted. *)
Correct ==
  /\ phase = "open"
  /\ phase' = "closed"
  /\ \E actual \in Actuals \cup {0} : paid' = paid + (actual - price)
  /\ UNCHANGED price

(* Nothing is left to adjust, or nobody does it. *)
Leave ==
  /\ phase = "open"
  /\ phase' = "closed"
  /\ UNCHANGED <<price, paid>>

Next == Hold \/ Return \/ Accept \/ Correct \/ Leave

Spec == Init /\ [][Next]_vars
=============================================================================
