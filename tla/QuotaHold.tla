----------------------------- MODULE QuotaHold -----------------------------
(***************************************************************************)
(* What a billing session promises about the quota it holds of its funding *)
(* source (the BillingSettler interface, relay/common/billing.go): the     *)
(* hold moves freely while the request is open, and it is closed once,     *)
(* either committed at exactly the cost of the answer, or given back, and  *)
(* then it only shrinks and never below zero.                              *)
(***************************************************************************)
EXTENDS Integers

CONSTANT Request

VARIABLES
  phase,  \* "open", "committed" or "returning"
  held,   \* quota the request holds
  cost    \* what its answer costs, -1 as long as there is none

vars == <<phase, held, cost>>

Init ==
  /\ phase = [r \in Request |-> "open"]
  /\ held = [r \in Request |-> 0]
  /\ cost = [r \in Request |-> -1]

(* Of a function, only the value of r changes, to some natural number. *)
Renewed(f, next, r) ==
  /\ next[r] \in Nat
  /\ next = [f EXCEPT ![r] = next[r]]

(* Pre-consume, Reserve and its rollback. *)
Hold(r) ==
  /\ phase[r] = "open"
  /\ Renewed(held, held', r)
  /\ UNCHANGED <<phase, cost>>

Serve(r) ==
  /\ phase[r] = "open"
  /\ cost[r] = -1
  /\ Renewed(cost, cost', r)
  /\ UNCHANGED <<phase, held>>

(* Settle. *)
Commit(r) ==
  /\ phase[r] = "open"
  /\ cost[r] # -1
  /\ phase' = [phase EXCEPT ![r] = "committed"]
  /\ held' = [held EXCEPT ![r] = cost[r]]
  /\ UNCHANGED cost

(* Refund, of a request that served nothing. *)
Return(r) ==
  /\ phase[r] = "open"
  /\ cost[r] = -1
  /\ phase' = [phase EXCEPT ![r] = "returning"]
  /\ UNCHANGED <<held, cost>>

GiveBack(r) ==
  /\ phase[r] = "returning"
  /\ Renewed(held, held', r)
  /\ held'[r] < held[r]
  /\ UNCHANGED <<phase, cost>>

Next == \E r \in Request :
          Hold(r) \/ Serve(r) \/ Commit(r) \/ Return(r) \/ GiveBack(r)

Spec == Init /\ [][Next]_vars
=============================================================================
