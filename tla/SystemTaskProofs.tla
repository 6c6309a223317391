-------------------------- MODULE SystemTaskProofs --------------------------
(***************************************************************************)
(* Proofs about SystemTask, for any runners, tasks and lease times and any *)
(* number of database errors.                                              *)
(*                                                                         *)
(* Whoever acquires or renews the lock is told how long its lease lasts,   *)
(* and counts down for itself.  The invariant says that it counts right:   *)
(* as long as its own count has not run out, the lock row is still its     *)
(* own.  A row that somebody sees as late has run out, so it is taken over *)
(* or swept only when nobody counts on it.                                 *)
(***************************************************************************)
EXTENDS SystemTask, TLAPS

Acquiring == {"insert", "existing", "takeover"}

(* A runner that sees the lock row as late is right. *)
LateInv == \A n \in late, k \in locks : k.left < 0

(* The locals of a pass, and who owns the task it claims: nobody has        *)
(* dispatched a task that is being loaded, and a task that is still to be   *)
(* started is not the runner's own.                                         *)
PassInv(n) ==
  /\ pc[n] \in Acquiring \cup ClaimSteps => cand[n] \in Task
  /\ pc[n] \in {"mark", "delete", "takeover"} => seen[n] \in LockRow
  /\ pc[n] \in ClaimSteps /\ grant[n] >= 0 =>
       Row(cand[n], n, grant[n]) \in locks
  /\ pc[n] \in Acquiring \cup {"expire", "start", "release"} =>
       owner[cand[n]] # n
  /\ pc[n] = "load" => owner[cand[n]] = n /\ handler[cand[n]] = "none"

Counting(t) == handler[t] \in {"live", "cancelled"} /\ lease[t] >= 0

(* A task has an owner once it was started, and a handler only then; the    *)
(* handler counts right.                                                    *)
TaskInv(t) ==
  /\ owner[t] = NoRunner => handler[t] = "none"
  /\ status[t] \in {"absent", "pending"} => owner[t] = NoRunner
  /\ Counting(t) => Row(t, owner[t], lease[t]) \in locks

IInv ==
  /\ TypeOK
  /\ LateInv
  /\ \A n \in Runner : PassInv(n)
  /\ \A t \in Task : TaskInv(t)
-----------------------------------------------------------------------------
LEMMA InitInv == Init => IInv
<1> SUFFICES ASSUME Init PROVE IInv
  OBVIOUS
<1>1. TypeOK
  BY SystemTaskConstants
     DEF Init, TypeOK, Statuses, Verdicts, Left, LockRow, NoRow, NoRunner
<1>2. LateInv
  BY DEF Init, LateInv
<1>3. ASSUME NEW n \in Runner PROVE PassInv(n)
  BY <1>3 DEF Init, PassInv, Acquiring, ClaimSteps
<1>4. ASSUME NEW t \in Task PROVE TaskInv(t)
  BY <1>4 DEF Init, TaskInv, Counting
<1> QED
  BY <1>1, <1>2, <1>3, <1>4 DEF IInv

(* Steps of a pass that write no row and start no handler: only the locals  *)
(* of the runner have to be looked at.                                      *)
LEMMA LocalStep ==
  ASSUME IInv, TypeOK', NEW n \in Runner,
         UNCHANGED <<rows, work>>,
         \A m \in Runner \ {n} :
           /\ pc'[m] = pc[m] /\ cand'[m] = cand[m] /\ seen'[m] = seen[m]
           /\ grant'[m] = grant[m],
         late' \subseteq late \cup (IF Expired # {} THEN {n} ELSE {}),
         PassInv(n)'
  PROVE  IInv'
<1>1. LateInv'
  BY DEF IInv, TypeOK, LateInv, Expired, rows
<1>2. ASSUME NEW m \in Runner \ {n} PROVE PassInv(m)'
  BY <1>2 DEF IInv, PassInv, Acquiring, ClaimSteps, Row, rows, work
<1>3. ASSUME NEW t \in Task PROVE TaskInv(t)'
  BY <1>3 DEF IInv, TaskInv, Counting, Row, rows, work
<1> QED
  BY <1>1, <1>2, <1>3 DEF IInv

LEMMA ReturnType ==
  ASSUME TypeOK, NEW n \in Runner, NEW label \in {"idle", "claim", "dead"},
         Return(n, label)
  PROVE  /\ pc' \in [Runner -> {"off", "idle", "sweep", "mark", "delete",
                                "claim", "insert", "existing", "takeover",
                                "dead"} \cup ClaimSteps]
         /\ cand' \in [Runner -> Task \cup {NoTask}]
         /\ seen' \in [Runner -> LockRow \cup {NoRow}]
         /\ grant' \in [Runner -> Left]
         /\ late' \subseteq late
         /\ late' \subseteq Runner
         /\ pc'[n] = label
BY SystemTaskConstants DEF TypeOK, Return, Goto, Left, ClaimSteps

LEMMA CreateInv ==
  ASSUME IInv, NEW t \in Task, CreateSystemTask(t)
  PROVE  IInv'
<1>1. /\ TypeOK /\ status[t] = "absent"
      /\ status' = [status EXCEPT ![t] = "pending"]
      /\ UNCHANGED <<owner, locks, pc, cand, seen, grant, late, handler,
                     lease, faults>>
  BY DEF IInv, CreateSystemTask, pass, locals, work
<1>2. TypeOK'
  BY <1>1 DEF TypeOK, Statuses
<1>3. LateInv'
  BY <1>1 DEF IInv, LateInv
<1>4. ASSUME NEW n \in Runner PROVE PassInv(n)'
  BY <1>1, <1>4 DEF IInv, PassInv, Row
<1>5. ASSUME NEW u \in Task PROVE TaskInv(u)'
  BY <1>1, <1>5 DEF IInv, TypeOK, TaskInv, Counting, Row
<1> QED
  BY <1>2, <1>3, <1>4, <1>5 DEF IInv

LEMMA BeginInv ==
  ASSUME IInv, NEW n \in Runner, Start(n) \/ BeginSweep(n) \/ BeginClaim(n)
  PROVE  IInv'
<1>1. /\ TypeOK
      /\ UNCHANGED <<status, owner, locks, cand, seen, grant, late, handler,
                     lease, faults>>
      /\ \/ pc' = [pc EXCEPT ![n] = "idle"]
         \/ pc' = [pc EXCEPT ![n] = "sweep"]
         \/ pc' = [pc EXCEPT ![n] = "claim"]
  BY DEF IInv, Start, BeginSweep, BeginClaim, Goto, rows, locals, work
<1>2. TypeOK'
  BY <1>1 DEF TypeOK
<1>3. PassInv(n)'
  BY <1>1 DEF TypeOK, PassInv, Acquiring, ClaimSteps
<1> QED
  BY <1>1, <1>2, <1>3, LocalStep DEF TypeOK, rows, work

LEMMA FindStaleInv ==
  ASSUME IInv, NEW n \in Runner, FindStale(n)
  PROVE  IInv'
<1>1. /\ TypeOK
      /\ UNCHANGED <<status, owner, locks, cand, grant, handler, lease>>
      /\ late' \subseteq late \cup (IF Expired # {} THEN {n} ELSE {})
      /\ faults' \in Nat
      /\ \/ /\ pc' = [pc EXCEPT ![n] = "mark"]
            /\ \E k \in LockRow : seen' = [seen EXCEPT ![n] = k]
         \/ pc' = [pc EXCEPT ![n] = "claim"] /\ seen' = seen
  BY DEF IInv, TypeOK, FindStale, ReadClock, Expired, Goto, NoFault, Fault,
     rows, work
<1>2. TypeOK'
  BY <1>1 DEF TypeOK
<1>3. PassInv(n)'
  BY <1>1 DEF TypeOK, PassInv, Acquiring, ClaimSteps
<1> QED
  BY <1>1, <1>2, <1>3, LocalStep DEF TypeOK, rows, work

(* Failing a running task disturbs nothing. *)
LEMMA FailInv ==
  ASSUME TypeOK, NEW t \in Task, MarkSystemTaskLeaseExpired(t)
  PROVE  /\ status' \in [Task -> Statuses]
         /\ UNCHANGED <<owner, locks>>
         /\ \A u \in Task : status'[u] \in {"absent", "pending"}
                            => status[u] \in {"absent", "pending"}
BY DEF TypeOK, MarkSystemTaskLeaseExpired, Statuses, Verdicts

(* Steps of a pass that keep the lock row and start no handler. *)
LEMMA StatusStep ==
  ASSUME IInv, TypeOK', NEW n \in Runner,
         UNCHANGED <<locks, owner, work>>,
         \A u \in Task : status'[u] \in {"absent", "pending"}
                         => status[u] \in {"absent", "pending"},
         \A m \in Runner \ {n} :
           /\ pc'[m] = pc[m] /\ cand'[m] = cand[m] /\ seen'[m] = seen[m]
           /\ grant'[m] = grant[m],
         late' \subseteq late,
         PassInv(n)'
  PROVE  IInv'
<1>1. LateInv'
  BY DEF IInv, LateInv
<1>2. ASSUME NEW m \in Runner \ {n} PROVE PassInv(m)'
  BY <1>2 DEF IInv, PassInv, Acquiring, ClaimSteps, Row, work
<1>3. ASSUME NEW t \in Task PROVE TaskInv(t)'
  BY <1>3 DEF IInv, TaskInv, Counting, Row, work
<1> QED
  BY <1>1, <1>2, <1>3 DEF IInv

LEMMA MarkStaleInv ==
  ASSUME IInv, NEW n \in Runner, MarkStale(n)
  PROVE  IInv'
<1>1. /\ TypeOK /\ seen[n] \in LockRow /\ seen[n].task \in Task
      /\ UNCHANGED <<handler, lease>>
      /\ faults' \in Nat
  BY DEF IInv, TypeOK, PassInv, LockRow, MarkStale, NoFault, Fault, work
<1>2. CASE /\ MarkSystemTaskLeaseExpired(seen[n].task)
           /\ Goto(n, "delete") /\ UNCHANGED locals
  <2>1. /\ status' \in [Task -> Statuses]
        /\ UNCHANGED <<owner, locks, cand, seen, grant, late>>
        /\ \A u \in Task : status'[u] \in {"absent", "pending"}
                           => status[u] \in {"absent", "pending"}
        /\ pc' = [pc EXCEPT ![n] = "delete"]
    BY <1>1, <1>2, FailInv DEF Goto, locals
  <2>2. TypeOK'
    BY <1>1, <2>1 DEF TypeOK
  <2>3. PassInv(n)'
    BY <1>1, <2>1 DEF TypeOK, PassInv, Acquiring, ClaimSteps
  <2> QED
    BY <1>1, <2>1, <2>2, <2>3, StatusStep DEF TypeOK, work
<1>3. CASE Return(n, "claim") /\ UNCHANGED rows
  <2>1. UNCHANGED <<status, owner, locks>>
    BY <1>3 DEF rows
  <2>2. TypeOK'
    BY <1>1, <1>3, <2>1, ReturnType DEF TypeOK
  <2>3. PassInv(n)'
    BY <1>1, <1>3, ReturnType DEF PassInv, Acquiring, ClaimSteps
  <2> QED
    BY <1>1, <1>3, <2>1, <2>2, <2>3, StatusStep
       DEF TypeOK, Return, Goto, work
<1> QED
  BY <1>2, <1>3 DEF MarkStale

(* Steps that only remove rows, and only rows that nobody counts on. *)
LEMMA RemoveStep ==
  ASSUME IInv, TypeOK', NEW n \in Runner, locks' \subseteq locks,
         UNCHANGED <<status, owner, work>>,
         \A m \in Runner \ {n} :
           /\ pc'[m] = pc[m] /\ cand'[m] = cand[m] /\ seen'[m] = seen[m]
           /\ grant'[m] = grant[m]
           /\ pc[m] \in ClaimSteps /\ grant[m] >= 0
                => Row(cand[m], m, grant[m]) \in locks',
         \A t \in Task :
           Counting(t) => Row(t, owner[t], lease[t]) \in locks',
         late' \subseteq late,
         PassInv(n)'
  PROVE  IInv'
<1>1. LateInv'
  BY DEF IInv, LateInv
<1>2. ASSUME NEW m \in Runner \ {n} PROVE PassInv(m)'
  BY <1>2, ZenonT(40) DEF IInv, PassInv, Acquiring, ClaimSteps, Row, work
<1>3. ASSUME NEW t \in Task PROVE TaskInv(t)'
  BY <1>3 DEF IInv, TaskInv, Counting, Row, work
<1> QED
  BY <1>1, <1>2, <1>3 DEF IInv

LEMMA DeleteStaleInv ==
  ASSUME IInv, NEW n \in Runner, DeleteStale(n)
  PROVE  IInv'
<1>1. /\ TypeOK /\ LateInv
      /\ Return(n, "claim")
      /\ UNCHANGED <<status, owner, handler, lease>>
      /\ faults' \in Nat
      /\ locks' \subseteq locks
  BY DEF IInv, TypeOK, DeleteStale, RowsOf, NoFault, Fault, work
<1>2. \A k \in locks : k.left >= 0 => k \in locks'
  <2>1. CASE n \in late
    BY <1>1, <2>1 DEF LateInv, TypeOK, LockRow, Left
  <2>2. CASE n \notin late
    BY <2>2 DEF DeleteStale
  <2> QED
    BY <2>1, <2>2
<1>3. TypeOK'
  BY <1>1, ReturnType DEF TypeOK
<1>4. PassInv(n)'
  BY <1>1, ReturnType DEF PassInv, Acquiring, ClaimSteps
<1>5. ASSUME NEW m \in Runner, pc[m] \in ClaimSteps, grant[m] >= 0
      PROVE  Row(cand[m], m, grant[m]) \in locks'
  BY <1>2, <1>5 DEF IInv, PassInv, Row
<1>6. ASSUME NEW t \in Task, Counting(t)
      PROVE  Row(t, owner[t], lease[t]) \in locks'
  BY <1>2, <1>6 DEF IInv, TaskInv, Counting, Row
<1> QED
  BY <1>1, <1>3, <1>4, <1>5, <1>6, RemoveStep DEF TypeOK, Return, Goto, work

LEMMA FindPendingInv ==
  ASSUME IInv, NEW n \in Runner, FindPending(n)
  PROVE  IInv'
<1>1. /\ TypeOK
      /\ UNCHANGED <<status, owner, locks, seen, grant, handler, lease>>
      /\ late' \subseteq late \cup (IF Expired # {} THEN {n} ELSE {})
      /\ faults' \in Nat
  BY DEF IInv, TypeOK, FindPending, ReadClock, NoFault, Fault, rows, work
<1>2. CASE pc' = [pc EXCEPT ![n] = "idle"] /\ cand' = cand
  <2>1. TypeOK' /\ PassInv(n)'
    BY <1>1, <1>2 DEF TypeOK, PassInv, Acquiring, ClaimSteps
  <2> QED
    BY <1>1, <1>2, <2>1, LocalStep DEF TypeOK, rows, work
<1>3. ASSUME NEW t \in Task, status[t] = "pending",
             cand' = [cand EXCEPT ![n] = t], pc' = [pc EXCEPT ![n] = "insert"]
      PROVE  IInv'
  <2>1. owner[t] # n
    BY <1>3, SystemTaskConstants DEF IInv, TaskInv, NoRunner
  <2>2. TypeOK'
    BY <1>1, <1>3 DEF TypeOK
  <2>3. PassInv(n)'
    BY <1>1, <1>3, <2>1 DEF TypeOK, PassInv, Acquiring, ClaimSteps
  <2> QED
    BY <1>1, <1>3, <2>2, <2>3, LocalStep DEF TypeOK, rows, work
<1> QED
  BY <1>2, <1>3 DEF FindPending, Goto

(* The lock changes hands: nobody counted on the old row. *)
LEMMA AcquireInv ==
  ASSUME IInv, NEW n \in Runner, NEW label \in {"start", "expire"},
         Acquire(n, label), faults' \in Nat,
         pc[n] \in Acquiring, UNCHANGED <<cand, seen, work>>,
         \A k \in locks : k.left < 0
  PROVE  IInv'
<1>1. /\ TypeOK /\ PassInv(n)
      /\ locks' = {Row(cand[n], n, TTL)}
      /\ grant' = [grant EXCEPT ![n] = TTL]
      /\ pc' = [pc EXCEPT ![n] = label]
      /\ late' = {}
      /\ UNCHANGED <<status, owner, handler, lease, cand, seen>>
  BY DEF IInv, Acquire, Goto, work
<1>2. cand[n] \in Task /\ owner[cand[n]] # n
  BY <1>1 DEF PassInv, Acquiring
<1>3. TypeOK'
  BY <1>1, <1>2, SystemTaskConstants
     DEF TypeOK, Row, LockRow, Left, ClaimSteps
<1>4. LateInv'
  BY <1>1 DEF LateInv
<1>5. PassInv(n)'
  BY <1>1, <1>2 DEF TypeOK, PassInv, Acquiring, ClaimSteps
<1>6. ASSUME NEW m \in Runner \ {n} PROVE PassInv(m)'
  <2>1. PassInv(m) /\ grant[m] \in Int
    BY <1>1, <1>6 DEF IInv, TypeOK, Left
  <2>2. ~(pc[m] \in ClaimSteps /\ grant[m] >= 0)
    BY <2>1 DEF PassInv, Row
  <2>3. UNCHANGED <<pc[m], cand[m], seen[m], grant[m]>>
    BY <1>1, <1>6 DEF TypeOK
  <2> QED
    BY <1>1, <2>1, <2>2, <2>3 DEF PassInv, Acquiring, ClaimSteps
<1>7. ASSUME NEW t \in Task PROVE TaskInv(t)'
  <2>1. TaskInv(t) /\ lease[t] \in Int
    BY <1>1, <1>7 DEF IInv, TypeOK, Left
  <2>2. ~Counting(t)
    BY <2>1 DEF TaskInv, Counting, Row
  <2> QED
    BY <1>1, <2>1, <2>2 DEF TaskInv, Counting
<1> QED
  BY <1>3, <1>4, <1>5, <1>6, <1>7 DEF IInv

LEMMA InsertLockInv ==
  ASSUME IInv, NEW n \in Runner, InsertLock(n)
  PROVE  IInv'
<1>1. /\ TypeOK /\ PassInv(n) /\ pc[n] = "insert" /\ faults' \in Nat
      /\ UNCHANGED <<cand, seen, handler, lease>>
  BY DEF IInv, TypeOK, InsertLock, NoFault, Fault, work
<1>2. CASE locks = {} /\ Acquire(n, "start")
  BY <1>1, <1>2, AcquireInv DEF Acquiring, work
<1>3. CASE Goto(n, "existing") /\ UNCHANGED <<rows, grant, late>>
  <2>1. pc' = [pc EXCEPT ![n] = "existing"]
        /\ UNCHANGED <<status, owner, locks, grant, late>>
    BY <1>3 DEF Goto, rows
  <2>2. TypeOK'
    BY <1>1, <2>1 DEF TypeOK
  <2>3. PassInv(n)'
    BY <1>1, <2>1 DEF TypeOK, PassInv, Acquiring, ClaimSteps
  <2> QED
    BY <1>1, <2>1, <2>2, <2>3, LocalStep DEF TypeOK, rows, work
<1> QED
  BY <1>2, <1>3 DEF InsertLock

(* A claim or a sweep that gives up. *)
LEMMA ReturnInv ==
  ASSUME IInv, NEW n \in Runner, NEW label \in {"idle", "claim"},
         Return(n, label), faults' \in Nat, UNCHANGED <<rows, work>>
  PROVE  IInv'
<1>1. /\ TypeOK
      /\ UNCHANGED <<status, owner, locks, handler, lease>>
  BY DEF IInv, rows, work
<1>2. TypeOK'
  BY <1>1, ReturnType DEF TypeOK
<1>3. PassInv(n)'
  BY <1>1, ReturnType DEF PassInv, Acquiring, ClaimSteps
<1> QED
  BY <1>1, <1>2, <1>3, LocalStep DEF TypeOK, Return, Goto

LEMMA ReadExistingInv ==
  ASSUME IInv, NEW n \in Runner, ReadExisting(n)
  PROVE  IInv'
<1>1. /\ TypeOK /\ PassInv(n) /\ pc[n] = "existing" /\ faults' \in Nat
      /\ UNCHANGED <<status, owner, locks, handler, lease>>
  BY DEF IInv, TypeOK, ReadExisting, NoFault, Fault, rows, work
<1>2. CASE Return(n, "idle")
  BY <1>1, <1>2, ReturnInv DEF rows, work
<1>3. ASSUME NEW k \in locks, seen' = [seen EXCEPT ![n] = k],
             Goto(n, "takeover"), UNCHANGED <<cand, grant, late>>
      PROVE  IInv'
  <2>1. k \in LockRow /\ pc' = [pc EXCEPT ![n] = "takeover"]
    BY <1>1, <1>3 DEF TypeOK, Goto
  <2>2. TypeOK'
    BY <1>1, <1>3, <2>1 DEF TypeOK
  <2>3. PassInv(n)'
    BY <1>1, <1>3, <2>1 DEF TypeOK, PassInv, Acquiring, ClaimSteps
  <2> QED
    BY <1>1, <1>3, <2>1, <2>2, <2>3, LocalStep DEF TypeOK, rows, work
<1> QED
  BY <1>2, <1>3 DEF ReadExisting

LEMMA TakeOverInv ==
  ASSUME IInv, NEW n \in Runner, TakeOver(n)
  PROVE  IInv'
<1>1. /\ TypeOK /\ PassInv(n) /\ pc[n] = "takeover" /\ faults' \in Nat
      /\ UNCHANGED <<handler, lease>>
  BY DEF IInv, TypeOK, TakeOver, NoFault, Fault, work
<1>2. CASE Return(n, "idle") /\ UNCHANGED rows
  BY <1>1, <1>2, ReturnInv DEF work
<1>3. CASE /\ n \in late
           /\ Acquire(n, IF seen[n].task # cand[n] THEN "expire" ELSE "start")
           /\ UNCHANGED <<cand, seen>>
  <2>1. /\ pc[n] \in Acquiring
        /\ \A k \in locks : k.left < 0
    BY <1>1, <1>3 DEF IInv, PassInv, LateInv, Acquiring
  <2>2. CASE Acquire(n, "expire")
    BY <1>1, <1>3, <2>1, <2>2, AcquireInv DEF work
  <2>3. CASE Acquire(n, "start")
    BY <1>1, <1>3, <2>1, <2>3, AcquireInv DEF work
  <2> QED
    BY <1>3, <2>2, <2>3
<1> QED
  BY <1>2, <1>3 DEF TakeOver

LEMMA ExpireOldInv ==
  ASSUME IInv, NEW n \in Runner, ExpireOld(n)
  PROVE  IInv'
<1>1. /\ TypeOK /\ PassInv(n) /\ pc[n] = "expire" /\ faults' \in Nat
      /\ UNCHANGED <<cand, seen, grant, late, handler, lease>>
  BY DEF IInv, TypeOK, ExpireOld, NoFault, Fault, locals, work
<1>2. ASSUME NEW label \in {"start", "release"},
             pc' = [pc EXCEPT ![n] = label],
             UNCHANGED <<owner, locks>>, status' \in [Task -> Statuses],
             \A u \in Task : status'[u] \in {"absent", "pending"}
                             => status[u] \in {"absent", "pending"}
      PROVE  IInv'
  <2>1. TypeOK'
    BY <1>1, <1>2 DEF TypeOK, ClaimSteps
  <2>2. PassInv(n)'
    BY <1>1, <1>2 DEF TypeOK, PassInv, Acquiring, ClaimSteps, Row
  <2> QED
    BY <1>1, <1>2, <2>1, <2>2, StatusStep DEF TypeOK, work
<1>3. CASE MarkSystemTaskLeaseExpired(seen[n].task) /\ Goto(n, "start")
  <2>1. CASE status[seen[n].task] = "running"
    <3>1. /\ status' = [status EXCEPT ![seen[n].task] = "failed"]
          /\ UNCHANGED <<owner, locks>>
      BY <1>3, <2>1 DEF MarkSystemTaskLeaseExpired
    <3>2. /\ status' \in [Task -> Statuses]
          /\ \A u \in Task : status'[u] \in {"absent", "pending"}
                             => status[u] \in {"absent", "pending"}
      BY <1>1, <3>1 DEF TypeOK, Statuses, Verdicts
    <3> QED
      BY <1>2, <1>3, <3>1, <3>2 DEF Goto
  <2>2. CASE status[seen[n].task] # "running"
    BY <1>1, <1>2, <1>3, <2>2 DEF MarkSystemTaskLeaseExpired, Goto, TypeOK
  <2> QED
    BY <2>1, <2>2
<1>4. CASE Goto(n, "release") /\ UNCHANGED rows
  BY <1>1, <1>2, <1>4 DEF Goto, rows, TypeOK
<1> QED
  BY <1>3, <1>4 DEF ExpireOld

LEMMA StartTaskInv ==
  ASSUME IInv, NEW n \in Runner, StartTask(n)
  PROVE  IInv'
<1>1. /\ TypeOK /\ PassInv(n) /\ pc[n] = "start" /\ cand[n] \in Task
      /\ faults' \in Nat
      /\ UNCHANGED <<locks, cand, seen, grant, late, handler, lease>>
  BY DEF IInv, TypeOK, PassInv, ClaimSteps, StartTask, NoFault, Fault, locals,
     work
<1>2. CASE Goto(n, "release") /\ UNCHANGED <<status, owner>>
  <2>1. pc' = [pc EXCEPT ![n] = "release"]
    BY <1>2 DEF Goto
  <2>2. TypeOK'
    BY <1>1, <1>2, <2>1 DEF TypeOK, ClaimSteps
  <2>3. PassInv(n)'
    BY <1>1, <1>2, <2>1 DEF TypeOK, PassInv, Acquiring, ClaimSteps, Row
  <2> QED
    BY <1>1, <1>2, <2>1, <2>2, <2>3, StatusStep DEF TypeOK, work
<1>3. CASE /\ status[cand[n]] = "pending"
           /\ status' = [status EXCEPT ![cand[n]] = "running"]
           /\ owner' = [owner EXCEPT ![cand[n]] = n]
           /\ Goto(n, "load")
  <2>1. pc' = [pc EXCEPT ![n] = "load"]
    BY <1>3 DEF Goto
  <2>2. owner[cand[n]] = NoRunner /\ handler[cand[n]] = "none"
    BY <1>1, <1>3 DEF IInv, TaskInv
  <2>3. NoRunner \notin Runner
    BY SystemTaskConstants DEF NoRunner
  <2>4. TypeOK'
    BY <1>1, <1>3, <2>1 DEF TypeOK, ClaimSteps, Statuses
  <2>5. LateInv'
    BY <1>1 DEF IInv, LateInv
  <2>6. PassInv(n)'
    BY <1>1, <1>3, <2>1, <2>2 DEF TypeOK, PassInv, Acquiring, ClaimSteps, Row
  <2>7. ASSUME NEW m \in Runner \ {n} PROVE PassInv(m)'
    <3>1. PassInv(m) /\ pc'[m] = pc[m]
      BY <1>1, <2>1, <2>7 DEF IInv, TypeOK
    <3>2. /\ owner'[cand[m]] # m \/ owner'[cand[m]] = owner[cand[m]]
          /\ owner[cand[m]] = m => owner'[cand[m]] = m
      BY <1>1, <1>3, <2>2, <2>3, <2>7 DEF TypeOK
    <3> QED
      BY <1>1, <3>1, <3>2 DEF PassInv, Acquiring, ClaimSteps, Row
  <2>8. ASSUME NEW t \in Task PROVE TaskInv(t)'
    <3>1. CASE t = cand[n]
      BY <1>1, <1>3, <2>2, <2>4, <3>1 DEF TypeOK, TaskInv, Counting
    <3>2. CASE t # cand[n]
      BY <1>1, <1>3, <3>2 DEF IInv, TypeOK, TaskInv, Counting, Row
    <3> QED
      BY <3>1, <3>2
  <2> QED
    BY <2>4, <2>5, <2>6, <2>7, <2>8 DEF IInv
<1> QED
  BY <1>2, <1>3 DEF StartTask

LEMMA ReleaseClaimInv ==
  ASSUME IInv, NEW n \in Runner, ReleaseClaim(n)
  PROVE  IInv'
<1>1. /\ TypeOK /\ PassInv(n) /\ pc[n] = "release"
      /\ Return(n, "idle")
      /\ UNCHANGED <<status, owner, handler, lease>>
      /\ faults' \in Nat
      /\ locks' \subseteq locks
  BY DEF IInv, TypeOK, ReleaseClaim, RowsOf, NoFault, Fault, work
<1>2. \A k \in locks : k \in locks' \/ (k.task = cand[n] /\ k.by = n)
  BY DEF ReleaseClaim, RowsOf
<1>3. TypeOK'
  BY <1>1, ReturnType DEF TypeOK
<1>4. PassInv(n)'
  BY <1>1, ReturnType DEF PassInv, Acquiring, ClaimSteps
<1>5. ASSUME NEW m \in Runner \ {n}, pc[m] \in ClaimSteps, grant[m] >= 0
      PROVE  Row(cand[m], m, grant[m]) \in locks'
  BY <1>2, <1>5 DEF IInv, PassInv, Row
<1>6. ASSUME NEW t \in Task, Counting(t)
      PROVE  Row(t, owner[t], lease[t]) \in locks'
  BY <1>1, <1>2, <1>6 DEF IInv, PassInv, TaskInv, Row
<1> QED
  BY <1>1, <1>3, <1>4, <1>5, <1>6, RemoveStep DEF TypeOK, Return, Goto, work

LEMMA DispatchInv ==
  ASSUME IInv, NEW n \in Runner, Dispatch(n)
  PROVE  IInv'
<1>1. /\ TypeOK /\ PassInv(n) /\ pc[n] = "load" /\ cand[n] \in Task
      /\ Return(n, "idle") /\ faults' \in Nat
      /\ UNCHANGED <<status, owner, locks>>
  BY DEF IInv, TypeOK, PassInv, ClaimSteps, Dispatch, NoFault, Fault, rows
<1>2. CASE UNCHANGED work
  BY <1>1, <1>2, ReturnInv DEF rows
<1>3. CASE /\ handler' = [handler EXCEPT ![cand[n]] = "live"]
           /\ lease' = [lease EXCEPT ![cand[n]] = grant[n]]
  <2>1. owner[cand[n]] = n /\ handler[cand[n]] = "none"
    BY <1>1 DEF PassInv
  <2>2. TypeOK'
    BY <1>1, <1>3, ReturnType DEF TypeOK
  <2>3. LateInv'
    BY <1>1, ReturnType DEF IInv, LateInv
  <2>4. PassInv(n)'
    BY <1>1, ReturnType DEF PassInv, Acquiring, ClaimSteps
  <2>5. ASSUME NEW m \in Runner \ {n} PROVE PassInv(m)'
    <3>1. PassInv(m)
      BY <2>5 DEF IInv
    <3>2. UNCHANGED <<pc[m], cand[m], seen[m], grant[m]>>
      BY <1>1, <2>5 DEF TypeOK, Return, Goto
    <3>3. owner[cand[m]] = m => handler'[cand[m]] = handler[cand[m]]
      BY <1>1, <1>3, <2>1, <2>5 DEF TypeOK
    <3> QED
      BY <1>1, <3>1, <3>2, <3>3 DEF PassInv, Acquiring, ClaimSteps, Row
  <2>6. ASSUME NEW t \in Task PROVE TaskInv(t)'
    <3>1. CASE t = cand[n]
      <4>1. /\ TaskInv(t) /\ owner[t] # NoRunner
            /\ lease'[t] = grant[n]
        BY <1>1, <1>3, <2>1, <2>6, <3>1, SystemTaskConstants
           DEF IInv, TypeOK, NoRunner
      <4>2. grant[n] >= 0 => Row(t, owner[t], grant[n]) \in locks
        BY <1>1, <2>1, <3>1 DEF PassInv, ClaimSteps
      <4> QED
        BY <1>1, <4>1, <4>2 DEF TaskInv, Counting
    <3>2. CASE t # cand[n]
      BY <1>1, <1>3, <2>6, <3>2 DEF IInv, TypeOK, TaskInv, Counting, Row
    <3> QED
      BY <3>1, <3>2
  <2> QED
    BY <2>2, <2>3, <2>4, <2>5, <2>6 DEF IInv
<1> QED
  BY <1>2, <1>3 DEF Dispatch
-----------------------------------------------------------------------------
(* A handler is cancelled, is about to release its lock, or is over. *)
LEMMA HandlerStep ==
  ASSUME IInv, NEW t \in Task, handler[t] # "none",
         NEW label \in {"cancelled", "releasing", "over"},
         handler[t] \in {"live", "cancelled"} \/ label = "over",
         SetHandler(t, label), faults' \in Nat,
         status' \in [Task -> Statuses],
         \A u \in Task : status'[u] \in {"absent", "pending"}
                         => status[u] \in {"absent", "pending"},
         UNCHANGED <<owner, locks, pass, lease>>
  PROVE  IInv'
<1>1. /\ TypeOK
      /\ handler' = [handler EXCEPT ![t] = label]
      /\ UNCHANGED <<owner, locks, pc, cand, seen, grant, late, lease>>
  BY DEF IInv, SetHandler, pass, locals
<1>2. TypeOK'
  BY <1>1 DEF TypeOK
<1>3. LateInv'
  BY <1>1 DEF IInv, LateInv
<1>4. ASSUME NEW m \in Runner PROVE PassInv(m)'
  BY <1>1, <1>4 DEF IInv, TypeOK, PassInv, Acquiring, ClaimSteps, Row
<1>5. ASSUME NEW u \in Task PROVE TaskInv(u)'
  <2>1. CASE u = t
    BY <1>1, <1>5, <2>1 DEF IInv, TypeOK, TaskInv, Counting, Row
  <2>2. CASE u # t
    BY <1>1, <1>5, <2>2 DEF IInv, TypeOK, TaskInv, Counting, Row
  <2> QED
    BY <2>1, <2>2
<1> QED
  BY <1>2, <1>3, <1>4, <1>5 DEF IInv

LEMMA RenewInv ==
  ASSUME IInv, NEW t \in Task, Renew(t)
  PROVE  IInv'
<1>1. /\ TypeOK /\ handler[t] = "live" /\ faults' \in Nat
      /\ UNCHANGED <<status, owner, pc, cand, seen, grant>>
  BY DEF IInv, TypeOK, Renew, NoFault, Fault
<1>2. CASE /\ SetHandler(t, "cancelled")
           /\ UNCHANGED <<locks, lease, late>>
  BY <1>1, <1>2, HandlerStep DEF TypeOK, pass, locals
<1>3. CASE /\ Holds(t, owner[t])
           /\ locks' = {Row(t, owner[t], TTL)}
           /\ lease' = [lease EXCEPT ![t] = TTL]
           /\ late' = {}
           /\ UNCHANGED handler
  <2>1. PICK k \in locks : k.task = t /\ k.by = owner[t]
    BY <1>3 DEF Holds, RowsOf
  <2>2. /\ k \in LockRow /\ k.by \in Runner
        /\ \A l \in locks : l = k
    BY <1>1, <2>1 DEF TypeOK, LockRow
  <2>3. Row(t, owner[t], TTL) \in LockRow
    BY <2>1, <2>2, SystemTaskConstants DEF Row, LockRow, Left
  <2>4. TypeOK'
    BY <1>1, <1>3, <2>3, SystemTaskConstants DEF TypeOK, Left
  <2>5. LateInv'
    BY <1>3 DEF LateInv
  <2>6. ASSUME NEW m \in Runner PROVE PassInv(m)'
    <3>1. PassInv(m)
      BY <2>6 DEF IInv
    <3>2. ~(pc[m] \in ClaimSteps /\ grant[m] >= 0)
      <4>1. SUFFICES ASSUME pc[m] \in ClaimSteps, grant[m] >= 0
                     PROVE  FALSE
        OBVIOUS
      <4>2. Row(cand[m], m, grant[m]) = k
        BY <2>2, <3>1, <4>1 DEF PassInv
      <4>3. cand[m] = t /\ owner[t] = m
        BY <2>1, <4>2 DEF Row
      <4> QED
        BY <1>1, <3>1, <4>1, <4>3 DEF PassInv, ClaimSteps
    <3> QED
      BY <1>1, <1>3, <3>1, <3>2 DEF PassInv, Acquiring, ClaimSteps
  <2>7. ASSUME NEW u \in Task PROVE TaskInv(u)'
    <3>1. CASE u = t
      BY <1>1, <1>3, <2>7, <3>1 DEF IInv, TypeOK, TaskInv, Counting
    <3>2. CASE u # t
      <4>1. TaskInv(u) /\ lease'[u] = lease[u]
        BY <1>1, <1>3, <2>7, <3>2 DEF IInv, TypeOK
      <4>2. ~Counting(u)
        BY <2>1, <2>2, <3>2, <4>1 DEF TaskInv, Row
      <4> QED
        BY <1>1, <1>3, <4>1, <4>2 DEF TaskInv, Counting
    <3> QED
      BY <3>1, <3>2
  <2> QED
    BY <2>4, <2>5, <2>6, <2>7 DEF IInv
<1> QED
  BY <1>2, <1>3 DEF Renew

LEMMA FinishInv ==
  ASSUME IInv, NEW t \in Task, FinishSystemTask(t)
  PROVE  IInv'
<1>1. /\ TypeOK /\ handler[t] \in {"live", "cancelled"} /\ faults' \in Nat
      /\ UNCHANGED <<owner, locks, pass, lease>>
  BY DEF IInv, TypeOK, FinishSystemTask, NoFault, Fault
<1>2. CASE SetHandler(t, "over") /\ UNCHANGED status
  BY <1>1, <1>2, HandlerStep DEF TypeOK
<1>3. ASSUME NEW verdict \in Verdicts,
             status' = [status EXCEPT ![t] = verdict],
             SetHandler(t, "releasing")
      PROVE  IInv'
  <2>1. /\ status' \in [Task -> Statuses]
        /\ \A u \in Task : status'[u] \in {"absent", "pending"}
                           => status[u] \in {"absent", "pending"}
    BY <1>1, <1>3 DEF TypeOK, Statuses, Verdicts
  <2> QED
    BY <1>1, <1>3, <2>1, HandlerStep
<1> QED
  BY <1>2, <1>3 DEF FinishSystemTask

LEMMA AbandonInv ==
  ASSUME IInv, NEW t \in Task, Abandon(t)
  PROVE  IInv'
<1>1. TypeOK /\ UNCHANGED <<status, owner, locks, pass, lease, faults>>
  BY DEF IInv, Abandon, rows
<1>2. handler[t] \in {"live", "cancelled"} /\ SetHandler(t, "over")
  BY DEF Abandon
<1> QED
  BY <1>1, <1>2, HandlerStep DEF TypeOK

LEMMA ReleaseFinishedInv ==
  ASSUME IInv, NEW t \in Task, ReleaseFinished(t)
  PROVE  IInv'
<1>1. /\ TypeOK /\ handler[t] = "releasing" /\ faults' \in Nat
      /\ handler' = [handler EXCEPT ![t] = "over"]
      /\ UNCHANGED <<status, owner, pc, cand, seen, grant, late, lease>>
      /\ locks' \subseteq locks
  BY DEF IInv, TypeOK, ReleaseFinished, SetHandler, RowsOf, NoFault, Fault,
     pass, locals
<1>2. \A k \in locks : k \in locks' \/ (k.task = t /\ k.by = owner[t])
  BY DEF ReleaseFinished, RowsOf
<1>3. TypeOK'
  BY <1>1 DEF TypeOK
<1>4. LateInv'
  BY <1>1 DEF IInv, LateInv
<1>5. ASSUME NEW m \in Runner PROVE PassInv(m)'
  <2>1. PassInv(m)
    BY <1>5 DEF IInv
  <2>2. pc[m] \in ClaimSteps /\ grant[m] >= 0
          => Row(cand[m], m, grant[m]) \in locks'
    BY <1>1, <1>2, <2>1 DEF PassInv, ClaimSteps, Row
  <2>3. pc[m] = "load" => cand[m] # t
    BY <1>1, <2>1 DEF PassInv
  <2> QED
    BY <1>1, <2>1, <2>2, <2>3 DEF TypeOK, PassInv, Acquiring, ClaimSteps, Row
<1>6. ASSUME NEW u \in Task PROVE TaskInv(u)'
  <2>1. CASE u = t
    BY <1>1, <1>6, <2>1 DEF IInv, TypeOK, TaskInv, Counting
  <2>2. CASE u # t
    BY <1>1, <1>2, <1>6, <2>2 DEF IInv, TypeOK, TaskInv, Counting, Row
  <2> QED
    BY <2>1, <2>2
<1> QED
  BY <1>3, <1>4, <1>5, <1>6 DEF IInv

LEMMA CrashInv ==
  ASSUME IInv, NEW n \in Runner, Crash(n)
  PROVE  IInv'
<1>1. /\ TypeOK /\ Return(n, "dead") /\ pc[n] # "dead"
      /\ handler' = [t \in Task |-> IF owner[t] = n /\ Working(t)
                                    THEN "over" ELSE handler[t]]
      /\ UNCHANGED <<status, owner, locks, lease, faults>>
  BY DEF IInv, Crash, rows
<1>2. TypeOK'
  BY <1>1, ReturnType DEF TypeOK
<1>3. LateInv'
  BY <1>1, ReturnType DEF IInv, LateInv
<1>4. PassInv(n)'
  BY <1>1, ReturnType DEF PassInv, Acquiring, ClaimSteps
<1>5. ASSUME NEW m \in Runner \ {n} PROVE PassInv(m)'
  <2>1. PassInv(m)
    BY <1>5 DEF IInv
  <2>2. UNCHANGED <<pc[m], cand[m], seen[m], grant[m]>>
    BY <1>1, <1>5 DEF TypeOK, Return, Goto
  <2>3. pc[m] = "load" => handler'[cand[m]] = "none"
    BY <1>1, <2>1 DEF PassInv, ClaimSteps, Working
  <2> QED
    BY <1>1, <2>1, <2>2, <2>3 DEF PassInv, Acquiring, ClaimSteps, Row
<1>6. ASSUME NEW t \in Task PROVE TaskInv(t)'
  <2>1. TaskInv(t)
    BY <1>6 DEF IInv
  <2>2. /\ handler'[t] = "none" <=> handler[t] = "none"
        /\ handler'[t] \in {"live", "cancelled"} => handler'[t] = handler[t]
    BY <1>1, <1>6 DEF Working
  <2> QED
    BY <1>1, <2>1, <2>2 DEF TaskInv, Counting, Row
<1> QED
  BY <1>2, <1>3, <1>4, <1>5, <1>6 DEF IInv

LEMMA ElapseType ==
  ASSUME NEW left \in Left
  PROVE  /\ Elapse(left) \in Left
         /\ Elapse(left) >= 0 => left >= 0
         /\ left < 0 => Elapse(left) < 0
BY SystemTaskConstants DEF Elapse, Left

LEMMA TickInv ==
  ASSUME IInv, Tick
  PROVE  IInv'
<1>1. /\ TypeOK
      /\ locks' = {Row(k.task, k.by, Elapse(k.left)) : k \in locks}
      /\ grant' = [n \in Runner |-> Elapse(grant[n])]
      /\ lease' = [t \in Task |-> Elapse(lease[t])]
      /\ UNCHANGED <<status, owner, pc, cand, seen, late, handler, faults>>
  BY DEF IInv, Tick
<1>2. ASSUME NEW t, NEW n, NEW left \in Left, Row(t, n, left) \in locks
      PROVE  Row(t, n, Elapse(left)) \in locks'
  BY <1>1, <1>2 DEF Row
<1>3. TypeOK'
  <2>1. locks' \subseteq LockRow /\ \A k, l \in locks' : k = l
    BY <1>1, ElapseType DEF TypeOK, LockRow, Row
  <2>2. grant' \in [Runner -> Left] /\ lease' \in [Task -> Left]
    BY <1>1, ElapseType DEF TypeOK
  <2> QED
    BY <1>1, <2>1, <2>2 DEF TypeOK
<1>4. LateInv'
  BY <1>1, ElapseType DEF IInv, TypeOK, LateInv, LockRow, Row
<1>5. ASSUME NEW m \in Runner PROVE PassInv(m)'
  <2>1. PassInv(m) /\ grant[m] \in Left /\ grant'[m] = Elapse(grant[m])
    BY <1>1, <1>5 DEF IInv, TypeOK
  <2>2. pc[m] \in ClaimSteps /\ grant'[m] >= 0
          => Row(cand[m], m, grant'[m]) \in locks'
    BY <1>2, <2>1, ElapseType DEF PassInv
  <2> QED
    BY <1>1, <2>1, <2>2 DEF PassInv
<1>6. ASSUME NEW t \in Task PROVE TaskInv(t)'
  <2>1. TaskInv(t) /\ lease[t] \in Left /\ lease'[t] = Elapse(lease[t])
    BY <1>1, <1>6 DEF IInv, TypeOK
  <2>2. Counting(t)' => Row(t, owner[t], lease'[t]) \in locks'
    BY <1>1, <1>2, <2>1, ElapseType DEF TaskInv, Counting
  <2> QED
    BY <1>1, <2>1, <2>2 DEF TaskInv
<1> QED
  BY <1>3, <1>4, <1>5, <1>6 DEF IInv
-----------------------------------------------------------------------------
LEMMA PassStep ==
  ASSUME IInv, NEW n \in Runner, Pass(n)
  PROVE  IInv'
BY BeginInv, FindStaleInv, MarkStaleInv, DeleteStaleInv, FindPendingInv,
   InsertLockInv, ReadExistingInv, TakeOverInv, ExpireOldInv, StartTaskInv,
   ReleaseClaimInv, DispatchInv DEF Pass

LEMMA StepInv == IInv /\ [Next]_vars => IInv'
<1> SUFFICES ASSUME IInv, [Next]_vars PROVE IInv'
  OBVIOUS
<1>1. ASSUME NEW n \in Runner, Start(n) \/ Pass(n) \/ Crash(n) PROVE IInv'
  BY <1>1, BeginInv, PassStep, CrashInv
<1>2. ASSUME NEW t \in Task, CreateSystemTask(t) \/ Renew(t) \/ End(t)
      PROVE  IInv'
  BY <1>2, CreateInv, RenewInv, FinishInv, ReleaseFinishedInv, AbandonInv
     DEF End
<1>3. ASSUME UNCHANGED vars PROVE IInv'
  BY <1>3 DEF vars, rows, pass, locals, work, IInv, TypeOK, LateInv, PassInv,
              TaskInv, Counting, Row
<1> QED
  BY <1>1, <1>2, <1>3, TickInv DEF Next

(* IInv is an invariant: whoever counts on a lease still owns the lock row  *)
(* (acquireSystemTaskLock, RenewSystemTaskLock).                            *)
THEOREM Invariance == Spec => []IInv
<1>1. Init => IInv
  BY InitInv
<1>2. IInv /\ [Next]_vars => IInv'
  BY StepInv
<1> QED
  BY <1>1, <1>2, PTL DEF Spec

(* Every variable keeps its type, and the lock table never holds two rows   *)
(* for the type.                                                            *)
THEOREM TypeCorrect == Spec => []TypeOK
<1>1. IInv => TypeOK
  BY DEF IInv
<1> QED
  BY <1>1, Invariance, PTL

(* Two handlers that both believe in their lease are the same one: both     *)
(* leases stand in the only row of the lock table.                          *)
THEOREM LeasesExclude == Spec => []LeaseIsExclusive
<1>1. IInv => LeaseIsExclusive
  <2> SUFFICES ASSUME IInv, NEW t \in Task, NEW u \in Task,
                      Counting(t), Counting(u)
               PROVE  t = u
    BY DEF LeaseIsExclusive, Working, Counting
  <2>1. /\ Row(t, owner[t], lease[t]) \in locks
        /\ Row(u, owner[u], lease[u]) \in locks
    BY DEF IInv, TaskInv
  <2>2. Row(t, owner[t], lease[t]) = Row(u, owner[u], lease[u])
    BY <2>1 DEF IInv, TypeOK
  <2> QED
    BY <2>2 DEF Row
<1> QED
  BY <1>1, Invariance, PTL

(* Only one runner executes a task, and only once: the one that started it  *)
(* is its owner for good (ClaimSystemTask).                                 *)
THEOREM RunsOnce == Spec => []ExecutedOnce
<1>1. IInv => ExecutedOnce
  BY DEF IInv, PassInv, ExecutedOnce
<1> QED
  BY <1>1, Invariance, PTL

(* Every statement that writes a status asks for the one before it.         *)
LEMMA VerdictKept ==
  ASSUME IInv, [Next]_vars, NEW t \in Task, status[t] \in Verdicts
  PROVE  status'[t] = status[t]
<1>1. TypeOK /\ status[t] \notin {"absent", "pending", "running"}
  BY DEF IInv, Verdicts
<1>2. ASSUME NEW u, MarkSystemTaskLeaseExpired(u)
      PROVE  status'[t] = status[t]
  BY <1>1, <1>2 DEF MarkSystemTaskLeaseExpired, TypeOK
<1>3. ASSUME NEW n \in Runner, Start(n) \/ Pass(n) \/ Crash(n)
      PROVE  status'[t] = status[t]
  <2>1. CASE MarkStale(n) \/ ExpireOld(n)
    BY <1>2, <2>1 DEF MarkStale, ExpireOld, rows
  <2>2. CASE StartTask(n)
    BY <1>1, <2>2 DEF StartTask, TypeOK
  <2>3. CASE ~(MarkStale(n) \/ ExpireOld(n) \/ StartTask(n))
    BY <1>3, <2>3
       DEF Start, Pass, Crash, BeginSweep, BeginClaim, FindStale, DeleteStale,
           FindPending, InsertLock, ReadExisting, TakeOver, ReleaseClaim,
           Dispatch, Acquire, rows
  <2> QED
    BY <2>1, <2>2, <2>3
<1>4. ASSUME NEW u \in Task, CreateSystemTask(u) \/ Renew(u) \/ End(u)
      PROVE  status'[t] = status[t]
  BY <1>1, <1>4 DEF CreateSystemTask, Renew, End, FinishSystemTask,
                    ReleaseFinished, Abandon, TypeOK, rows
<1>5. CASE Tick
  BY <1>5 DEF Tick
<1>6. CASE UNCHANGED vars
  BY <1>6 DEF vars, rows
<1> QED
  BY <1>3, <1>4, <1>5, <1>6 DEF Next

(* A verdict stands, whatever sweep, claim or handler comes late.           *)
THEOREM VerdictsStand == Spec => VerdictIsFinal
<1>1. IInv /\ [Next]_vars =>
        [\A t \in Task : status[t] \in Verdicts => status'[t] = status[t]]_vars
  BY VerdictKept
<1> QED
  BY <1>1, Invariance, PTL DEF Spec, VerdictIsFinal
-----------------------------------------------------------------------------
(* What holds besides when claims are fast and no pending row of an old     *)
(* version is left: one task is unfinished, and a claim that got the lock   *)
(* still has it.  So while somebody sees the lock row as late, no claim is  *)
(* under way that could start a task.                                       *)
Fast == ~SlowClaims /\ Legacy = {}

OneActive ==
  \A t, u \in Task :
    status[t] \in {"pending", "running"} /\ status[u] \in {"pending", "running"}
    => t = u

ClaimLeased(n) ==
  pc[n] \in ClaimSteps => Holds(cand[n], n)

LateIsSafe(n) ==
  n \in late =>
    /\ pc[n] \in Acquiring => \A t \in Task : status[t] # "running"
    /\ pc[n] = "delete" => status[seen[n].task] # "running"

Released(t) == handler[t] = "releasing" => status[t] \in Verdicts

FInv ==
  /\ IInv
  /\ OneActive
  /\ \A n \in Runner : ClaimLeased(n) /\ LateIsSafe(n)
  /\ \A t \in Task : Released(t)
  /\ RunningIsLeased

Active == {"pending", "running"}

(* A task becomes unfinished only by being created, and runs only by being  *)
(* started; its owner changes only then.                                    *)
LEMMA StatusOrigin ==
  ASSUME IInv, [Next]_vars, NEW t \in Task
  PROVE  /\ status'[t] \in Active => status[t] \in Active \/ CreateSystemTask(t)
         /\ status'[t] = "running" =>
              \/ status[t] = "running" /\ owner'[t] = owner[t]
              \/ \E n \in Runner : StartTask(n) /\ cand[n] = t
<1> DEFINE Goal ==
      /\ status'[t] \in Active =>
           status[t] \in Active \/ CreateSystemTask(t)
      /\ status'[t] = "running" =>
           \/ status[t] = "running" /\ owner'[t] = owner[t]
           \/ \E n \in Runner : StartTask(n) /\ cand[n] = t
<1>1. TypeOK
  BY DEF IInv
<1>2. ASSUME UNCHANGED <<status, owner>> PROVE Goal
  BY <1>2
<1>3. ASSUME NEW u, MarkSystemTaskLeaseExpired(u) PROVE Goal
  BY <1>1, <1>3 DEF MarkSystemTaskLeaseExpired, TypeOK, Active
<1>4. ASSUME NEW n \in Runner, Start(n) \/ Pass(n) \/ Crash(n) PROVE Goal
  <2>1. CASE MarkStale(n) \/ ExpireOld(n)
    <3>1. (\E u : MarkSystemTaskLeaseExpired(u)) \/ UNCHANGED rows
      BY <2>1 DEF MarkStale, ExpireOld
    <3> QED
      BY <1>2, <1>3, <3>1 DEF rows
  <2>2. CASE StartTask(n)
    <3>1. CASE UNCHANGED <<status, owner>>
      BY <1>2, <3>1
    <3>2. CASE /\ status[cand[n]] = "pending"
               /\ status' = [status EXCEPT ![cand[n]] = "running"]
               /\ owner' = [owner EXCEPT ![cand[n]] = n]
      BY <1>1, <2>2, <3>2 DEF TypeOK, Active
    <3> QED
      BY <2>2, <3>1, <3>2 DEF StartTask
  <2>3. CASE ~(MarkStale(n) \/ ExpireOld(n) \/ StartTask(n))
    <3>1. UNCHANGED <<status, owner>>
      BY <1>4, <2>3
         DEF Start, Pass, Crash, BeginSweep, BeginClaim, FindStale, DeleteStale,
             FindPending, InsertLock, ReadExisting, TakeOver, ReleaseClaim,
             Dispatch, Acquire, rows
    <3> QED
      BY <1>2, <3>1
  <2> QED
    BY <2>1, <2>2, <2>3
<1>5. ASSUME NEW u \in Task, CreateSystemTask(u) PROVE Goal
  BY <1>1, <1>5 DEF CreateSystemTask, TypeOK, Active
<1>6. ASSUME NEW u \in Task, FinishSystemTask(u) PROVE Goal
  BY <1>1, <1>6 DEF FinishSystemTask, TypeOK, Active, Verdicts
<1>7. ASSUME NEW u \in Task, Renew(u) \/ ReleaseFinished(u) \/ Abandon(u)
      PROVE Goal
  BY <1>2, <1>7 DEF Renew, ReleaseFinished, Abandon, rows
<1>8. CASE Tick
  BY <1>2, <1>8 DEF Tick
<1>9. CASE UNCHANGED vars
  BY <1>2, <1>9 DEF vars, rows
<1> QED
  BY <1>4, <1>5, <1>6, <1>7, <1>8, <1>9 DEF Next, End

LEMMA OneActiveInv ==
  ASSUME FInv, [Next]_vars, Fast
  PROVE  OneActive'
<1> SUFFICES ASSUME NEW t \in Task, NEW u \in Task,
                    status'[t] \in Active, status'[u] \in Active
             PROVE  t = u
  BY DEF OneActive, Active
<1>1. IInv /\ OneActive
  BY DEF FInv
<1>2. CASE status[t] \in Active /\ status[u] \in Active
  BY <1>1, <1>2 DEF OneActive, Active
<1>3. ASSUME NEW v \in Task, CreateSystemTask(v)
      PROVE  t = v /\ u = v
  BY <1>1, <1>3 DEF CreateSystemTask, Fast, Active, IInv, TypeOK
<1>4. CASE CreateSystemTask(t) \/ CreateSystemTask(u)
  BY <1>3, <1>4
<1> QED
  BY <1>1, <1>2, <1>4, StatusOrigin

LEMMA ReleasedInv ==
  ASSUME FInv, [Next]_vars, NEW t \in Task
  PROVE  Released(t)'
<1>1. IInv /\ TypeOK /\ Released(t)
  BY DEF FInv, IInv
<1>2. CASE handler[t] = "releasing"
  BY <1>1, <1>2, VerdictKept DEF Released
<1>3. CASE handler[t] # "releasing" /\ handler'[t] = "releasing"
  <2>1. FinishSystemTask(t)
    <3>1. ASSUME NEW n \in Runner, Start(n) \/ Pass(n) \/ Crash(n)
          PROVE  FALSE
      <4>1. handler' = handler \/ Dispatch(n) \/ Crash(n)
        BY <3>1 DEF Start, Pass, BeginSweep, BeginClaim, FindStale, MarkStale,
                    DeleteStale, FindPending, InsertLock, ReadExisting,
                    TakeOver, ExpireOld, StartTask, ReleaseClaim, work
      <4> QED
        BY <1>1, <1>3, <4>1 DEF Dispatch, Crash, TypeOK, work
    <3>2. ASSUME NEW u \in Task,
                 \/ CreateSystemTask(u) \/ Renew(u) \/ Abandon(u)
                 \/ ReleaseFinished(u) \/ (FinishSystemTask(u) /\ u # t)
          PROVE  FALSE
      BY <1>1, <1>3, <3>2
         DEF CreateSystemTask, Renew, Abandon, ReleaseFinished,
             FinishSystemTask, SetHandler, TypeOK, work
    <3>3. ~Tick /\ ~UNCHANGED vars
      BY <1>3 DEF Tick, vars, work
    <3> QED
      BY <3>1, <3>2, <3>3 DEF Next, End
  <2> QED
    BY <1>1, <1>3, <2>1 DEF FinishSystemTask, SetHandler, Released, TypeOK
<1> QED
  BY <1>2, <1>3 DEF Released

(* What can happen to the row of runner n for task t. *)
LEMMA RowFate ==
  ASSUME IInv, [Next]_vars, NEW t \in Task, NEW n \in Runner,
         NEW k \in RowsOf(t, n)
  PROVE  \/ \E l \in locks' : /\ l.task = t /\ l.by = n
                              /\ Tick \/ l.left >= k.left
         \/ \E m \in late : pc[m] = "takeover"
         \/ \E m \in late : pc[m] = "delete" /\ seen[m].task = t
         \/ ReleaseClaim(n) /\ cand[n] = t
         \/ ReleaseFinished(t) /\ owner[t] = n
<1> DEFINE Goal ==
      \/ \E l \in locks' : /\ l.task = t /\ l.by = n
                           /\ Tick \/ l.left >= k.left
      \/ \E m \in late : pc[m] = "takeover"
      \/ \E m \in late : pc[m] = "delete" /\ seen[m].task = t
      \/ ReleaseClaim(n) /\ cand[n] = t
      \/ ReleaseFinished(t) /\ owner[t] = n
<1>1. /\ TypeOK /\ k \in locks /\ k.task = t /\ k.by = n
      /\ k.left \in -1 .. TTL /\ \A l \in locks : l = k
  BY DEF IInv, TypeOK, RowsOf, LockRow, Left
<1>2. ASSUME k \in locks' PROVE Goal
  BY <1>1, <1>2
<1>3. ASSUME NEW m \in Runner, Start(m) \/ Pass(m) \/ Crash(m) PROVE Goal
  <2>1. CASE InsertLock(m)
    BY <1>1, <1>2, <2>1 DEF InsertLock, rows
  <2>2. CASE TakeOver(m)
    <3>1. (m \in late /\ pc[m] = "takeover") \/ UNCHANGED rows
      BY <2>2 DEF TakeOver
    <3> QED
      BY <1>1, <1>2, <3>1 DEF rows
  <2>3. CASE DeleteStale(m)
    <3>1. /\ pc[m] = "delete"
          /\ \/ UNCHANGED locks
             \/ locks' = locks \ {l \in RowsOf(seen[m].task, seen[m].by) :
                                    m \in late}
      BY <2>3 DEF DeleteStale
    <3> QED
      BY <1>1, <1>2, <3>1 DEF RowsOf
  <2>4. CASE ReleaseClaim(m)
    <3>1. \/ UNCHANGED locks
          \/ locks' = locks \ RowsOf(cand[m], m)
      BY <2>4 DEF ReleaseClaim
    <3> QED
      BY <1>1, <1>2, <2>4, <3>1 DEF RowsOf
  <2>5. CASE ~(InsertLock(m) \/ TakeOver(m) \/ DeleteStale(m)
               \/ ReleaseClaim(m))
    <3>1. UNCHANGED locks
      BY <1>3, <2>5
         DEF Start, Pass, Crash, BeginSweep, BeginClaim, FindStale, MarkStale,
             FindPending, ReadExisting, ExpireOld, StartTask, Dispatch,
             MarkSystemTaskLeaseExpired, rows
    <3> QED
      BY <1>1, <1>2, <3>1
  <2> QED
    BY <2>1, <2>2, <2>3, <2>4, <2>5
<1>4. ASSUME NEW u \in Task, Renew(u) PROVE Goal
  <2>1. \/ UNCHANGED locks
        \/ Holds(u, owner[u]) /\ locks' = {Row(u, owner[u], TTL)}
    BY <1>4 DEF Renew
  <2>2. CASE Holds(u, owner[u]) /\ locks' = {Row(u, owner[u], TTL)}
    <3>1. u = t /\ owner[u] = n
      BY <1>1, <2>2 DEF Holds, RowsOf
    <3>2. Row(t, n, TTL) \in locks' /\ Row(t, n, TTL).left >= k.left
      BY <1>1, <2>2, <3>1, SystemTaskConstants DEF Row
    <3> QED
      BY <3>2 DEF Row
  <2> QED
    BY <1>1, <1>2, <2>1, <2>2
<1>5. ASSUME NEW u \in Task, ReleaseFinished(u) PROVE Goal
  <2>1. \/ UNCHANGED locks
        \/ locks' = locks \ RowsOf(u, owner[u])
    BY <1>5 DEF ReleaseFinished
  <2> QED
    BY <1>1, <1>2, <1>5, <2>1 DEF RowsOf
<1>6. ASSUME NEW u \in Task,
             CreateSystemTask(u) \/ FinishSystemTask(u) \/ Abandon(u)
      PROVE  Goal
  BY <1>1, <1>2, <1>6 DEF CreateSystemTask, FinishSystemTask, Abandon, rows
<1>7. CASE Tick
  <2>1. Row(t, n, Elapse(k.left)) \in locks'
    BY <1>1, <1>7 DEF Tick
  <2> QED
    BY <1>7, <2>1 DEF Row
<1>8. CASE UNCHANGED vars
  BY <1>1, <1>2, <1>8 DEF vars, rows
<1> QED
  BY <1>3, <1>4, <1>5, <1>6, <1>7, <1>8 DEF Next, End

(* A claim keeps its lock: nobody sees the lock as late, and time waits.    *)
LEMMA ClaimLeasedInv ==
  ASSUME FInv, [Next]_vars, Fast, NEW n \in Runner
  PROVE  ClaimLeased(n)'
<1>1. IInv /\ TypeOK /\ LateInv /\ PassInv(n) /\ ClaimLeased(n)
  BY DEF FInv, IInv
<1>2. SUFFICES ASSUME pc'[n] \in ClaimSteps PROVE Holds(cand[n], n)'
  BY DEF ClaimLeased
<1>3. ASSUME NEW m \in Runner, NEW label, Acquire(m, label),
             UNCHANGED cand, \A k \in locks : k.left < 0
      PROVE  Holds(cand[n], n)'
  <2>1. CASE m = n
    <3>1. Row(cand[n], n, TTL) \in locks' /\ cand'[n] = cand[n]
      BY <1>3, <2>1 DEF Acquire
    <3>2. Row(cand[n], n, TTL).left >= 0
      BY SystemTaskConstants DEF Row
    <3> QED
      BY <3>1, <3>2 DEF Holds, RowsOf, Row
  <2>2. CASE m # n
    BY <1>1, <1>2, <1>3, <2>2
       DEF Acquire, Goto, TypeOK, ClaimLeased, Holds, RowsOf, LockRow, Left
  <2> QED
    BY <2>1, <2>2
<1>4. ASSUME pc[n] \in ClaimSteps, cand'[n] = cand[n], ~ReleaseClaim(n)
      PROVE  Holds(cand[n], n)'
  <2>1. PICK k \in RowsOf(cand[n], n) : k.left >= 0
    BY <1>1, <1>4 DEF ClaimLeased, Holds
  <2>2. cand[n] \in Task /\ k \in locks /\ k.left \in Int
        /\ k.task = cand[n] /\ k.by = n
    BY <1>1, <1>4, <2>1 DEF PassInv, TypeOK, RowsOf, LockRow, Left
  <2>3. late = {}
    BY <1>1, <2>1, <2>2 DEF LateInv
  <2>4. ~(ReleaseFinished(cand[n]) /\ owner[cand[n]] = n)
    BY <1>1, <1>4 DEF PassInv, ClaimSteps, ReleaseFinished
  <2>5. PICK l \in locks' : /\ l.task = cand[n] /\ l.by = n
                            /\ Tick \/ l.left >= k.left
    BY <1>1, <1>4, <2>1, <2>2, <2>3, <2>4, RowFate
  <2>6. CASE Tick
    <3>1. k.left > 0
      BY <1>4, <2>2, <2>6 DEF Tick, Fast
    <3>2. Row(k.task, k.by, Elapse(k.left)) \in locks'
      BY <2>2, <2>6 DEF Tick
    <3> QED
      BY <1>4, <2>2, <3>1, <3>2 DEF Holds, RowsOf, Row, Elapse
  <2>7. CASE l.left >= k.left
    <3>1. l.left \in Int
      BY <1>1, StepInv DEF IInv, TypeOK, LockRow, Left
    <3> QED
      BY <1>4, <2>1, <2>2, <2>5, <2>7, <3>1 DEF Holds, RowsOf
  <2> QED
    BY <2>5, <2>6, <2>7
<1>5. ASSUME NEW m \in Runner, Start(m) \/ Pass(m) \/ Crash(m)
      PROVE  Holds(cand[n], n)'
  <2>1. CASE InsertLock(m) /\ locks = {} /\ Acquire(m, "start")
    BY <1>3, <2>1 DEF InsertLock
  <2>2. CASE /\ TakeOver(m) /\ m \in late /\ UNCHANGED cand
             /\ \E label : Acquire(m, label)
    BY <1>1, <1>3, <2>2 DEF LateInv
  <2>3. CASE /\ ~(InsertLock(m) /\ locks = {} /\ Acquire(m, "start"))
             /\ ~(/\ TakeOver(m) /\ m \in late /\ UNCHANGED cand
                  /\ \E label : Acquire(m, label))
    <3>1. pc[n] \in ClaimSteps /\ cand'[n] = cand[n] /\ ~ReleaseClaim(n)
      <4>1. CASE m # n
        BY <1>1, <1>2, <1>5, <2>3, <4>1
           DEF TypeOK, Start, Pass, Crash, BeginSweep, BeginClaim, FindStale,
               MarkStale, DeleteStale, FindPending, InsertLock, ReadExisting,
               TakeOver, ExpireOld, StartTask, ReleaseClaim, Dispatch, Acquire,
               Return, Goto, locals
      <4>2. CASE m = n
        BY <1>1, <1>2, <1>5, <2>3, <4>2
           DEF TypeOK, Start, Pass, Crash, BeginSweep, BeginClaim, FindStale,
               MarkStale, DeleteStale, FindPending, InsertLock, ReadExisting,
               TakeOver, ExpireOld, StartTask, ReleaseClaim, Dispatch, Acquire,
               Return, Goto, locals, ClaimSteps
      <4> QED
        BY <4>1, <4>2
    <3> QED
      BY <1>4, <3>1
  <2> QED
    BY <2>1, <2>2, <2>3
<1>6. CASE \/ \E t \in Task : CreateSystemTask(t) \/ Renew(t) \/ End(t)
           \/ Tick \/ UNCHANGED vars
  <2>1. UNCHANGED <<pc, cand>>
    BY <1>6 DEF CreateSystemTask, Renew, End, FinishSystemTask, Abandon,
                ReleaseFinished, Tick, vars, pass, locals
  <2>2. ~ReleaseClaim(n)
    BY <1>1, <1>2, <2>1 DEF ReleaseClaim, Return, Goto, TypeOK, ClaimSteps
  <2> QED
    BY <1>2, <1>4, <2>1, <2>2
<1> QED
  BY <1>5, <1>6 DEF Next

(* While the lock row is late no claim can start a task.                    *)
LEMMA NoStartWhileLate ==
  ASSUME FInv, [Next]_vars, late # {}, NEW t \in Task, status'[t] = "running"
  PROVE  status[t] = "running" /\ owner'[t] = owner[t]
<1>1. IInv /\ TypeOK /\ LateInv /\ \A n \in Runner : ClaimLeased(n)
  BY DEF FInv, IInv
<1>2. ASSUME NEW n \in Runner, StartTask(n) PROVE FALSE
  <2>1. Holds(cand[n], n)
    BY <1>1, <1>2 DEF ClaimLeased, StartTask, ClaimSteps
  <2> QED
    BY <1>1, <2>1 DEF Holds, RowsOf, LateInv, TypeOK, LockRow, Left
<1> QED
  BY <1>1, <1>2, StatusOrigin

LEMMA LateIsSafeInv ==
  ASSUME FInv, [Next]_vars, Fast, NEW n \in Runner
  PROVE  LateIsSafe(n)'
<1>1. /\ IInv /\ TypeOK /\ OneActive /\ PassInv(n) /\ LateIsSafe(n)
  BY DEF FInv, IInv
<1>2. SUFFICES ASSUME n \in late'
               PROVE  /\ pc'[n] \in Acquiring =>
                           \A t \in Task : status'[t] # "running"
                      /\ pc'[n] = "delete" => status'[seen'[n].task] # "running"
  BY DEF LateIsSafe
<1> DEFINE Goal ==
      /\ pc'[n] \in Acquiring => \A t \in Task : status'[t] # "running"
      /\ pc'[n] = "delete" => status'[seen'[n].task] # "running"
<1>3. ASSUME n \in late, pc'[n] = pc[n], seen'[n] = seen[n] PROVE Goal
  <2>1. pc[n] = "delete" => seen[n].task \in Task
    BY <1>1 DEF PassInv, LockRow
  <2> QED
    BY <1>1, <1>3, <2>1, NoStartWhileLate DEF LateIsSafe
<1>4. ASSUME NEW m \in Runner, Start(m) \/ Pass(m) \/ Crash(m), m # n
      PROVE  Goal
  <2>1. n \in late /\ pc'[n] = pc[n] /\ seen'[n] = seen[n]
    BY <1>1, <1>2, <1>4
       DEF TypeOK, Start, Pass, Crash, BeginSweep, BeginClaim, FindStale,
           MarkStale, DeleteStale, FindPending, InsertLock, ReadExisting,
           TakeOver, ExpireOld, StartTask, ReleaseClaim, Dispatch, Acquire,
           Return, ReadClock, Goto, locals
  <2> QED
    BY <1>3, <2>1
<1>5. CASE FindPending(n)
  <2>1. pc'[n] # "delete"
    BY <1>1, <1>5 DEF FindPending, Goto, TypeOK
  <2>2. ASSUME NEW u \in Task, status[u] = "pending", NEW t \in Task
        PROVE  status[t] # "running"
    BY <1>1, <2>2 DEF OneActive
  <2>3. pc'[n] \in Acquiring => \E u \in Task : status[u] = "pending"
    BY <1>1, <1>5 DEF FindPending, Goto, TypeOK, Acquiring
  <2>4. status' = status
    BY <1>5 DEF FindPending, rows
  <2> QED
    BY <2>1, <2>2, <2>3, <2>4
<1>6. CASE MarkStale(n)
  <2>1. pc'[n] \notin Acquiring
    BY <1>1, <1>6 DEF MarkStale, Return, Goto, TypeOK, Acquiring
  <2>2. pc'[n] = "delete" => /\ MarkSystemTaskLeaseExpired(seen[n].task)
                             /\ seen' = seen
    BY <1>1, <1>6 DEF MarkStale, Return, Goto, TypeOK, locals
  <2>3. seen[n].task \in Task
    BY <1>1, <1>6 DEF MarkStale, PassInv, LockRow
  <2> QED
    BY <1>1, <2>1, <2>2, <2>3 DEF MarkSystemTaskLeaseExpired, TypeOK
<1>7. CASE InsertLock(n) \/ ReadExisting(n)
  <2>1. n \in late /\ UNCHANGED status /\ pc[n] \in Acquiring
        /\ pc'[n] # "delete"
    BY <1>1, <1>2, <1>7 DEF InsertLock, ReadExisting, Acquire, Return, Goto,
       TypeOK, Acquiring, rows
  <2> QED
    BY <1>1, <2>1 DEF LateIsSafe
<1>8. CASE \/ Start(n) \/ BeginSweep(n) \/ BeginClaim(n) \/ FindStale(n)
           \/ DeleteStale(n) \/ TakeOver(n) \/ ExpireOld(n) \/ StartTask(n)
           \/ ReleaseClaim(n) \/ Dispatch(n) \/ Crash(n)
  <2>1. pc'[n] \notin Acquiring \cup {"delete"}
    BY <1>1, <1>2, <1>8
       DEF Start, BeginSweep, BeginClaim, FindStale, DeleteStale, TakeOver,
           ExpireOld, StartTask, ReleaseClaim, Dispatch, Crash, Acquire,
           Return, Goto, TypeOK, Acquiring
  <2> QED
    BY <2>1
<1>9. CASE \/ \E t \in Task : CreateSystemTask(t) \/ Renew(t) \/ End(t)
           \/ Tick \/ UNCHANGED vars
  <2>1. n \in late /\ pc'[n] = pc[n] /\ seen'[n] = seen[n]
    BY <1>2, <1>9
       DEF CreateSystemTask, Renew, End, FinishSystemTask, Abandon,
           ReleaseFinished, Tick, vars, pass, locals
  <2> QED
    BY <1>3, <2>1
<1> QED
  BY <1>4, <1>5, <1>6, <1>7, <1>8, <1>9 DEF Next, Pass

(* The row of a running task is never taken away.                           *)
LEMMA LeasedInv ==
  ASSUME FInv, [Next]_vars, Fast
  PROVE  RunningIsLeased'
<1> SUFFICES ASSUME NEW t \in Task, status'[t] = "running"
             PROVE  RowsOf(t, owner[t])' # {}
  BY DEF RunningIsLeased
<1>1. /\ IInv /\ TypeOK /\ RunningIsLeased /\ Released(t)
      /\ \A n \in Runner : ClaimLeased(n) /\ LateIsSafe(n)
  BY DEF FInv, IInv
<1>2. ASSUME NEW n \in Runner, StartTask(n), cand[n] = t,
             ~(status[t] = "running" /\ owner'[t] = owner[t])
      PROVE  RowsOf(t, owner[t])' # {}
  <2>1. owner'[t] = n /\ locks' = locks
    BY <1>1, <1>2 DEF StartTask, TypeOK
  <2>2. Holds(t, n)
    BY <1>1, <1>2 DEF ClaimLeased, StartTask, ClaimSteps
  <2> QED
    BY <2>1, <2>2 DEF Holds, RowsOf
<1>3. CASE status[t] = "running" /\ owner'[t] = owner[t]
  <2>1. owner[t] \in Runner
    BY <1>1, <1>3 DEF RunningIsLeased, RowsOf, TypeOK, LockRow
  <2>2. PICK k : k \in RowsOf(t, owner[t])
    BY <1>1, <1>3 DEF RunningIsLeased
  <2>3. ASSUME NEW m \in late
        PROVE  /\ pc[m] # "takeover"
               /\ ~(pc[m] = "delete" /\ seen[m].task = t)
    BY <1>1, <1>3, <2>3 DEF LateIsSafe, Acquiring, TypeOK
  <2>4. ~(ReleaseClaim(owner[t]) /\ cand[owner[t]] = t)
    BY <1>1, <2>1 DEF ReleaseClaim, IInv, PassInv
  <2>5. ~ReleaseFinished(t)
    BY <1>1, <1>3 DEF ReleaseFinished, Released, Verdicts
  <2>6. ASSUME NEW n \in Runner, n = owner[t]
        PROVE  \E l \in locks' : l.task = t /\ l.by = n
    <3>1. k \in RowsOf(t, n)
      BY <2>2, <2>6
    <3>2. ~(ReleaseClaim(n) /\ cand[n] = t)
      BY <2>4, <2>6
    <3> QED
      BY <1>1, <2>3, <2>5, <3>1, <3>2, RowFate
  <2> QED
    BY <1>3, <2>1, <2>6 DEF RowsOf
<1> QED
  BY <1>1, <1>2, <1>3, StatusOrigin

(* As long as claims are faster than their leases, a running task has a     *)
(* lock row by which a sweep or a takeover finds it (ClaimSystemTask,       *)
(* ExpireStaleSystemTaskLocks).                                             *)
THEOREM RunningStaysLeased ==
  ASSUME SlowClaims = FALSE, Legacy = {}
  PROVE  Spec => []RunningIsLeased
<1>1. Init => FInv
  <2> SUFFICES ASSUME Init PROVE FInv
    OBVIOUS
  <2>1. \A t \in Task : status[t] = "absent" /\ handler[t] = "none"
    BY DEF Init
  <2>2. late = {} /\ \A n \in Runner : pc[n] = "off"
    BY DEF Init
  <2> QED
    BY <2>1, <2>2, InitInv
       DEF FInv, OneActive, ClaimLeased, LateIsSafe, Released,
           RunningIsLeased, ClaimSteps
<1>2. FInv /\ [Next]_vars => FInv'
  <2> SUFFICES ASSUME FInv, [Next]_vars PROVE FInv'
    OBVIOUS
  <2>1. Fast /\ IInv
    BY DEF Fast, FInv
  <2> QED
    BY <2>1, StepInv, OneActiveInv, ClaimLeasedInv, LateIsSafeInv, ReleasedInv,
       LeasedInv DEF FInv
<1>3. FInv => RunningIsLeased
  BY DEF FInv
<1> QED
  BY <1>1, <1>2, <1>3, PTL DEF Spec
=============================================================================
