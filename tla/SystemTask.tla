----------------------------- MODULE SystemTask -----------------------------
(***************************************************************************)
(* System tasks of one type (model/system_task.go, service/system_task.go) *)
(* executed by the runners of several master nodes over one database.      *)
(*                                                                         *)
(* A task row is pending, is claimed by one runner, and ends succeeded or  *)
(* failed.  A lock row per type, with a lease that the handler's heartbeat *)
(* renews, keeps runners from executing tasks of the type side by side; a  *)
(* sweep fails the task of a lease that ran out.  Neither is one           *)
(* transaction: every action below is one SQL statement, and runners       *)
(* interleave, stall and crash between any two of them.                    *)
(*                                                                         *)
(* Leases are counted down: left is the time to locked_until, -1 is past   *)
(* it.  All nodes read the same clock, but a sweep and a claim read it     *)
(* once, when they begin, and compare with it later: late holds the ones   *)
(* for which the present lock row has run out.                             *)
(***************************************************************************)
EXTENDS Integers, FiniteSets

CONSTANTS
  Runner,     \* incarnations of a node's runner (a restart draws a new ID)
  Task,       \* rows of system_tasks
  Legacy,     \* pending rows of an old version, without active_key
  Immortal,   \* runners that start and do not crash
  TTL,        \* systemTaskLockTTL, in ticks
  SlowClaims, \* TRUE iff a claim may take longer than the lease it acquires
  MaxFaults   \* bound: database errors in a behaviour

ASSUME SystemTaskConstants ==
  /\ Legacy \subseteq Task
  /\ Immortal \subseteq Runner
  /\ TTL \in Nat
  /\ SlowClaims \in BOOLEAN
  /\ MaxFaults \in Nat
  /\ "none" \notin Runner \cup Task

VARIABLES
  status,  \* status of each task
  owner,   \* its locked_by, NoRunner before it is claimed
  locks,   \* rows of system_task_locks for this type: none or one
  pc,      \* where the pass of each runner stands
  cand,    \* the task a runner is claiming
  seen,    \* the stale lock row it has read
  grant,   \* what is left of the lease it has acquired
  handler, \* the goroutine executing each task
  late,    \* runners that see the present lock row as run out
  lease,   \* what that goroutine knows to be left of its lease
  faults   \* database errors so far

rows == <<status, owner, locks>>
locals == <<cand, seen, grant, late>>
pass == <<pc, locals>>
work == <<handler, lease>>
vars == <<rows, pass, work, faults>>
-----------------------------------------------------------------------------
NoRunner == "none"
NoTask == "none"

Left == -1 .. TTL

LockRow == [task : Task, by : Runner, left : Left]

Verdicts == {"succeeded", "failed"}

Statuses == {"absent", "pending", "running"} \cup Verdicts

ClaimSteps == {"expire", "start", "load", "release"}

Row(t, n, left) == [task |-> t, by |-> n, left |-> left]

NoRow == Row(NoTask, NoRunner, -1)

(* WHERE task_id = t AND locked_by = n *)
RowsOf(t, n) == {k \in locks : k.task = t /\ k.by = n}

(* ... AND locked_until >= now *)
Holds(t, n) == \E k \in RowsOf(t, n) : k.left >= 0

Expired == {k \in locks : k.left < 0}

Goto(n, label) == pc' = [pc EXCEPT ![n] = label]

(* The sweep or the claim of a pass returns; its locals go out of scope.    *)
Return(n, label) ==
  /\ Goto(n, label)
  /\ cand' = [cand EXCEPT ![n] = NoTask]
  /\ seen' = [seen EXCEPT ![n] = NoRow]
  /\ grant' = [grant EXCEPT ![n] = -1]
  /\ late' = late \ {n}

(* common.GetTimestamp *)
ReadClock(n) == late' = IF Expired # {} THEN late \cup {n} ELSE late \ {n}

NoFault == UNCHANGED faults

Fault == faults < MaxFaults /\ faults' = faults + 1

Working(t) == handler[t] \in {"live", "cancelled", "releasing"}
-----------------------------------------------------------------------------
Init ==
  /\ status = [t \in Task |-> IF t \in Legacy THEN "pending" ELSE "absent"]
  /\ owner = [t \in Task |-> NoRunner]
  /\ locks = {}
  /\ pc = [n \in Runner |-> "off"]
  /\ cand = [n \in Runner |-> NoTask]
  /\ seen = [n \in Runner |-> NoRow]
  /\ grant = [n \in Runner |-> -1]
  /\ late = {}
  /\ handler = [t \in Task |-> "none"]
  /\ lease = [t \in Task |-> -1]
  /\ faults = 0

(* CreateSystemTask, by the scheduler of any runner or on demand: the       *)
(* unique index on active_key admits one unfinished row per type.           *)
CreateSystemTask(t) ==
  /\ status[t] = "absent"
  /\ \A u \in Task \ Legacy : status[u] \notin {"pending", "running"}
  /\ status' = [status EXCEPT ![t] = "pending"]
  /\ UNCHANGED <<owner, locks, pass, work, faults>>

Start(n) ==
  /\ pc[n] = "off"
  /\ Goto(n, "idle")
  /\ UNCHANGED <<rows, locals, work, faults>>

(* A pass: the stale-lock sweep when it is due, then the claim. *)
BeginSweep(n) ==
  /\ pc[n] = "idle"
  /\ Goto(n, "sweep")
  /\ UNCHANGED <<rows, locals, work, faults>>

BeginClaim(n) ==
  /\ pc[n] = "idle"
  /\ Goto(n, "claim")
  /\ UNCHANGED <<rows, locals, work, faults>>
-----------------------------------------------------------------------------
(* Mutant: whatever the status of the task. *)
MarkAnyStatus(t) ==
  /\ status' = [status EXCEPT ![t] = "failed"]
  /\ UNCHANGED <<owner, locks>>

(* MarkSystemTaskLeaseExpired looks at the task row only. *)
MarkSystemTaskLeaseExpired(t) ==
  /\ status' = IF status[t] = "running"
               THEN [status EXCEPT ![t] = "failed"] ELSE status
  /\ UNCHANGED <<owner, locks>>

(* Mutant: only locks of the runner itself. *)
FindStaleOwn(n) ==
  /\ pc[n] = "sweep"
  /\ ReadClock(n)
  /\ \/ \E k \in Expired : /\ k.by = n
                           /\ seen' = [seen EXCEPT ![n] = k]
        /\ Goto(n, "mark")
     \/ (\A k \in Expired : k.by # n) /\ Goto(n, "claim") /\ UNCHANGED seen
  /\ NoFault
  /\ UNCHANGED <<rows, cand, grant, work>>

(* ExpireStaleSystemTaskLocks: read the stale lock, fail its task, delete   *)
(* the lock if it is still the same and still stale.                        *)
FindStale(n) ==
  /\ pc[n] = "sweep"
  /\ ReadClock(n)
  /\ \/ \E k \in Expired :
          seen' = [seen EXCEPT ![n] = k] /\ Goto(n, "mark") /\ NoFault
     \/ Expired = {} /\ Goto(n, "claim") /\ NoFault /\ UNCHANGED seen
     \/ Goto(n, "claim") /\ Fault /\ UNCHANGED seen
  /\ UNCHANGED <<rows, cand, grant, work>>

MarkStale(n) ==
  /\ pc[n] = "mark"
  /\ \/ MarkSystemTaskLeaseExpired(seen[n].task)
        /\ Goto(n, "delete") /\ NoFault /\ UNCHANGED locals
     \/ Return(n, "claim") /\ Fault /\ UNCHANGED rows
  /\ UNCHANGED work

(* Mutant: whichever lock the type has by now. *)
DeleteStaleAny(n) ==
  /\ pc[n] = "delete"
  /\ locks' = {}
  /\ NoFault
  /\ Return(n, "claim")
  /\ UNCHANGED <<status, owner, work>>

DeleteStale(n) ==
  /\ pc[n] = "delete"
  /\ \/ locks' = locks \ {k \in RowsOf(seen[n].task, seen[n].by) : n \in late}
        /\ NoFault
     \/ Fault /\ UNCHANGED locks
  /\ Return(n, "claim")
  /\ UNCHANGED <<status, owner, work>>
-----------------------------------------------------------------------------
(* FindEarliestPendingSystemTasks and the first query of ClaimSystemTask:   *)
(* rows of an old version come first.                                       *)
FindPending(n) ==
  /\ pc[n] = "claim"
  /\ ReadClock(n)
  /\ \/ \E t \in Task :
          /\ status[t] = "pending"
          /\ t \in Legacy \/ \A u \in Legacy : status[u] # "pending"
          /\ cand' = [cand EXCEPT ![n] = t]
        /\ Goto(n, "insert") /\ NoFault
     \/ /\ \A t \in Task : status[t] # "pending"
        /\ Goto(n, "idle") /\ NoFault /\ UNCHANGED cand
     \/ Goto(n, "idle") /\ Fault /\ UNCHANGED cand
  /\ UNCHANGED <<rows, seen, grant, work>>

(* Mutant: next to the row of another runner. *)
AcquireAlso(n, label) ==
  /\ locks' = locks \cup {Row(cand[n], n, TTL)}
  /\ grant' = [grant EXCEPT ![n] = TTL]
  /\ late' = {}
  /\ Goto(n, label)
  /\ UNCHANGED <<status, owner>>

Acquire(n, label) ==
  /\ locks' = {Row(cand[n], n, TTL)}
  /\ grant' = [grant EXCEPT ![n] = TTL]
  /\ late' = {}
  /\ Goto(n, label)
  /\ UNCHANGED <<status, owner>>

(* acquireSystemTaskLock: the insert fails if there is a row; then the row  *)
(* is read, and taken over if its lease has run out.                        *)
InsertLock(n) ==
  /\ pc[n] = "insert"
  /\ \/ locks = {} /\ Acquire(n, "start") /\ NoFault
     \/ locks # {} /\ Goto(n, "existing") /\ NoFault
        /\ UNCHANGED <<rows, grant, late>>
     \/ Goto(n, "existing") /\ Fault /\ UNCHANGED <<rows, grant, late>>
  /\ UNCHANGED <<cand, seen, work>>

ReadExisting(n) ==
  /\ pc[n] = "existing"
  /\ \/ /\ n \in late
        /\ \E k \in locks : seen' = [seen EXCEPT ![n] = k]
        /\ Goto(n, "takeover")
        /\ NoFault
        /\ UNCHANGED <<cand, grant, late>>
     \/ /\ n \notin late \/ locks = {}
        /\ Return(n, "idle") /\ NoFault
     \/ Return(n, "idle") /\ Fault
  /\ UNCHANGED <<rows, work>>

(* Mutant: the update does not look at locked_until again. *)
TakeOverBlindly(n) ==
  /\ pc[n] = "takeover"
  /\ locks # {}
  /\ Acquire(n, IF seen[n].task # cand[n] THEN "expire" ELSE "start")
  /\ NoFault
  /\ UNCHANGED <<cand, seen, work>>

TakeOver(n) ==
  /\ pc[n] = "takeover"
  /\ \/ /\ n \in late /\ locks # {}
        /\ Acquire(n, IF seen[n].task # cand[n] THEN "expire" ELSE "start")
        /\ NoFault
        /\ UNCHANGED <<cand, seen>>
     \/ /\ n \notin late \/ locks = {}
        /\ Return(n, "idle") /\ NoFault /\ UNCHANGED rows
     \/ Return(n, "idle") /\ Fault /\ UNCHANGED rows
  /\ UNCHANGED work

(* ClaimSystemTask: fail the task whose lock was taken over. *)
ExpireOld(n) ==
  /\ pc[n] = "expire"
  /\ \/ MarkSystemTaskLeaseExpired(seen[n].task) /\ Goto(n, "start") /\ NoFault
     \/ Goto(n, "release") /\ Fault /\ UNCHANGED rows
  /\ UNCHANGED <<locals, work>>

(* Mutant: without the test of the status. *)
StartAnyStatus(n) ==
  /\ pc[n] = "start"
  /\ status' = [status EXCEPT ![cand[n]] = "running"]
  /\ owner' = [owner EXCEPT ![cand[n]] = n]
  /\ Goto(n, "load")
  /\ NoFault
  /\ UNCHANGED <<locks, locals, work>>

(* The task is started if it is still pending; the lock is not looked at.   *)
StartTask(n) ==
  /\ pc[n] = "start"
  /\ \/ /\ status[cand[n]] = "pending"
        /\ status' = [status EXCEPT ![cand[n]] = "running"]
        /\ owner' = [owner EXCEPT ![cand[n]] = n]
        /\ Goto(n, "load")
        /\ NoFault
     \/ /\ status[cand[n]] # "pending"
        /\ Goto(n, "release") /\ NoFault /\ UNCHANGED <<status, owner>>
     \/ Goto(n, "release") /\ Fault /\ UNCHANGED <<status, owner>>
  /\ UNCHANGED <<locks, locals, work>>

(* ReleaseSystemTaskLock of a failed claim; its error is ignored. *)
ReleaseClaim(n) ==
  /\ pc[n] = "release"
  /\ \/ locks' = locks \ RowsOf(cand[n], n) /\ NoFault
     \/ Fault /\ UNCHANGED locks
  /\ Return(n, "idle")
  /\ UNCHANGED <<status, owner, work>>

(* The row is read back and its handler dispatched in a goroutine. *)
Dispatch(n) ==
  /\ pc[n] = "load"
  /\ \/ /\ handler' = [handler EXCEPT ![cand[n]] = "live"]
        /\ lease' = [lease EXCEPT ![cand[n]] = grant[n]]
        /\ NoFault
     \/ Fault /\ UNCHANGED work
  /\ Return(n, "idle")
  /\ UNCHANGED rows
-----------------------------------------------------------------------------
SetHandler(t, label) == handler' = [handler EXCEPT ![t] = label]

(* RenewSystemTaskLock, by the heartbeat; a failure cancels the handler.    *)
Renew(t) ==
  /\ handler[t] = "live"
  /\ \/ /\ Holds(t, owner[t])
        /\ locks' = {Row(t, owner[t], TTL)}
        /\ lease' = [lease EXCEPT ![t] = TTL]
        /\ late' = {}
        /\ NoFault
        /\ UNCHANGED handler
     \/ /\ ~Holds(t, owner[t])
        /\ SetHandler(t, "cancelled") /\ NoFault
        /\ UNCHANGED <<locks, lease, late>>
     \/ SetHandler(t, "cancelled") /\ Fault /\ UNCHANGED <<locks, lease, late>>
  /\ UNCHANGED <<status, owner, pc, cand, seen, grant>>

(* FinishSystemTask: only under a lease that has not run out. *)
FinishSystemTask(t) ==
  /\ handler[t] \in {"live", "cancelled"}
  /\ \/ /\ status[t] = "running"
        /\ Holds(t, owner[t])
        /\ \E verdict \in Verdicts : status' = [status EXCEPT ![t] = verdict]
        /\ SetHandler(t, "releasing")
        /\ NoFault
     \/ /\ status[t] # "running" \/ ~Holds(t, owner[t])
        /\ SetHandler(t, "over") /\ NoFault /\ UNCHANGED status
     \/ SetHandler(t, "over") /\ Fault /\ UNCHANGED status
  /\ UNCHANGED <<owner, locks, pass, lease>>

ReleaseFinished(t) ==
  /\ handler[t] = "releasing"
  /\ \/ locks' = locks \ RowsOf(t, owner[t]) /\ NoFault
     \/ Fault /\ UNCHANGED locks
  /\ SetHandler(t, "over")
  /\ UNCHANGED <<status, owner, pass, lease>>

(* The handler returns without a verdict: its state update failed, or it    *)
(* panicked.                                                                *)
Abandon(t) ==
  /\ handler[t] \in {"live", "cancelled"}
  /\ SetHandler(t, "over")
  /\ UNCHANGED <<rows, pass, lease, faults>>
-----------------------------------------------------------------------------
(* The node dies, with all its goroutines. *)
Crash(n) ==
  /\ n \notin Immortal
  /\ pc[n] \notin {"off", "dead"}
  /\ Return(n, "dead")
  /\ handler' = [t \in Task |-> IF owner[t] = n /\ Working(t)
                                THEN "over" ELSE handler[t]]
  /\ UNCHANGED <<rows, lease, faults>>

Elapse(left) == IF left >= 0 THEN left - 1 ELSE left

(* Unless claims may be slow, a claim ends before its lease does. *)
Tick ==
  /\ \/ \E k \in locks : k.left >= 0
     \/ \E t \in Task : Working(t) /\ lease[t] >= 0
  /\ ~SlowClaims => \A n \in Runner, k \in locks :
                      pc[n] \in ClaimSteps /\ k.by = n => k.left > 0
  /\ locks' = {Row(k.task, k.by, Elapse(k.left)) : k \in locks}
  /\ grant' = [n \in Runner |-> Elapse(grant[n])]
  /\ lease' = [t \in Task |-> Elapse(lease[t])]
  /\ UNCHANGED <<status, owner, pc, cand, seen, late, handler, faults>>
-----------------------------------------------------------------------------
Pass(n) ==
  \/ BeginSweep(n) \/ BeginClaim(n)
  \/ FindStale(n) \/ MarkStale(n) \/ DeleteStale(n)
  \/ FindPending(n) \/ InsertLock(n) \/ ReadExisting(n) \/ TakeOver(n)
  \/ ExpireOld(n) \/ StartTask(n) \/ ReleaseClaim(n) \/ Dispatch(n)

End(t) == FinishSystemTask(t) \/ ReleaseFinished(t) \/ Abandon(t)

Next ==
  \/ \E n \in Runner : Start(n) \/ Pass(n) \/ Crash(n)
  \/ \E t \in Task : CreateSystemTask(t) \/ Renew(t) \/ End(t)
  \/ Tick

Spec == Init /\ [][Next]_vars

(* Time passes; a runner that does not crash makes its passes, the sweep    *)
(* again and again (every 30 seconds); a handler ends (it owns no time      *)
(* limit, but the work of every handler is finite).                         *)
Fairness ==
  /\ WF_vars(Tick)
  /\ \A n \in Immortal :
       /\ WF_vars(Start(n) \/ Pass(n))
       /\ SF_vars(BeginSweep(n))
  /\ \A n \in Runner : WF_vars(pc[n] \in ClaimSteps /\ Pass(n))
  /\ \A t \in Task : WF_vars(End(t))

FairSpec == Spec /\ Fairness
-----------------------------------------------------------------------------
(* Types; the primary key of the lock table admits one row. *)
TypeOK ==
  /\ status \in [Task -> Statuses]
  /\ owner \in [Task -> Runner \cup {NoRunner}]
  /\ locks \subseteq LockRow
  /\ \A k, l \in locks : k = l
  /\ pc \in [Runner -> {"off", "idle", "sweep", "mark", "delete", "claim",
                        "insert", "existing", "takeover", "dead"}
                       \cup ClaimSteps]
  /\ cand \in [Runner -> Task \cup {NoTask}]
  /\ seen \in [Runner -> LockRow \cup {NoRow}]
  /\ grant \in [Runner -> Left]
  /\ late \subseteq Runner
  /\ handler \in [Task -> {"none", "live", "cancelled", "releasing", "over"}]
  /\ lease \in [Task -> Left]
  /\ faults \in Nat

(* No two handlers of the type run side by side while both believe in their *)
(* lease: whatever stalls and crashes, the lock is only handed over when    *)
(* the lease its holder was told of has run out.                            *)
LeaseIsExclusive ==
  \A t, u \in Task :
    /\ Working(t) /\ lease[t] >= 0 /\ handler[t] # "releasing"
    /\ Working(u) /\ lease[u] >= 0 /\ handler[u] # "releasing"
    => t = u

(* A verdict stands: neither a late handler nor the sweep nor a claim that  *)
(* was overtaken changes a task that has ended.                             *)
VerdictIsFinal ==
  [][\A t \in Task : status[t] \in Verdicts => status'[t] = status[t]]_vars

(* "the per-type lock guarantees only one runner executes the task"         *)
(* (runSystemTaskScheduler): a runner about to dispatch a task is alone in  *)
(* that, and nobody has dispatched it before.                               *)
ExecutedOnce ==
  \A n \in Runner :
    pc[n] = "load" =>
      /\ handler[cand[n]] = "none"
      /\ \A m \in Runner : pc[m] = "load" /\ cand[m] = cand[n] => m = n

(* As long as claims are faster than their leases, a running task has a     *)
(* lock row, by which the sweep will find it should its runner die.         *)
RunningIsLeased ==
  \A t \in Task : status[t] = "running" => RowsOf(t, owner[t]) # {}

(* Every task that was created ends: runners "mark expired leases failed"   *)
(* (systemTaskRunnerIdleInterval), so none runs for ever and keeps its type *)
(* from being scheduled again.                                              *)
EveryTaskEnds ==
  \A t \in Task :
    status[t] \in {"pending", "running"} ~> status[t] \in Verdicts
=============================================================================
