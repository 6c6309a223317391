----------------------------- MODULE TaskBilling -----------------------------
(***************************************************************************)
(* The life of an asynchronous task (a video, a song) and what is charged  *)
(* for it: submission in RelayTask (controller/relay.go), polling and the  *)
(* timeout sweep (service/task_polling.go), refund and settlement of the   *)
(* difference (service/task_billing.go), and the user's own query          *)
(* (relay/relay_task.go).  Tasks share no row, so the module models one.   *)
(*                                                                         *)
(* Whoever looks after the task reads its row into memory, asks upstream,  *)
(* writes the whole row back if the status is still the one it read, and,  *)
(* having won that race into a final status, bills.  Polling passes of     *)
(* several nodes overlap when one has lost its lease.                      *)
(***************************************************************************)
EXTENDS Integers, FiniteSets

CONSTANTS
  Poller,       \* goroutines of polling passes
  Fetcher,      \* handlers of the user's queries, of a Gemini or Vertex task
  Quotas,       \* what a submission may cost
  Actuals,      \* what a finished task turns out to cost; 0: as submitted
  Legacy,       \* TRUE iff submitted before TaskRefundLegacyCutoff
  ChannelFails, \* TRUE iff the channel of the task may be gone
  Sweeps,       \* TRUE iff TaskTimeoutMinutes is positive
  MaxFaults,    \* bound: database errors in a behaviour
  MaxCrashes,   \* bound: crashes of pollers in a behaviour
  MaxQueries    \* bound: the user's queries in a behaviour

Worker == Poller \cup Fetcher

ASSUME TaskBillingConstants ==
  /\ Poller \cap Fetcher = {}
  /\ Quotas \subseteq Nat
  /\ Actuals \subseteq Nat
  /\ Legacy \in BOOLEAN /\ ChannelFails \in BOOLEAN /\ Sweeps \in BOOLEAN
  /\ MaxFaults \in Nat /\ MaxCrashes \in Nat /\ MaxQueries \in Nat

VARIABLES
  submit,   \* where the submission stands
  quota,    \* its result.Quota
  row,      \* the row of the task
  charged,  \* what the funding source has paid for it
  token,    \* what its token has
  upstream, \* what the provider says of it
  overdue,  \* the task is older than TaskTimeoutMinutes
  pc,       \* what each worker does next
  mem,      \* its copy of the row, and the status it read
  bill,     \* the quota it is about to bill
  hit,      \* history: the steps at which something went wrong
  faults,
  crashes,
  queries

books == <<charged, token>>
work == <<pc, mem, bill>>
outside == <<upstream, overdue>>
bounds == <<hit, faults, crashes, queries>>
vars == <<submit, quota, row, books, outside, work, bounds>>
-----------------------------------------------------------------------------
Unfinished == {"NOT_START", "IN_PROGRESS"}

Final == {"SUCCESS", "FAILURE"}

(* progress is "100%" or not *)
Rows == [status : Unfinished \cup Final \cup {"absent"},
         complete : BOOLEAN, quota : Nat]

Row(status, complete, q) ==
  [status |-> status, complete |-> complete, quota |-> q]

NoRow == Row("absent", FALSE, 0)

Copies == [from : Unfinished \cup Final \cup {"absent"}, row : Rows]

Copy(r) == [from |-> r.status, row |-> r]

NoFault == UNCHANGED bounds

Fault(step) ==
  /\ faults < MaxFaults
  /\ faults' = faults + 1
  /\ hit' = hit \cup {step}
  /\ UNCHANGED <<crashes, queries>>

Goto(w, label) == pc' = [pc EXCEPT ![w] = label]

(* The goroutine or the handler is through with the task, and its variables *)
(* are gone.                                                                *)
Leave(w) ==
  /\ Goto(w, "idle")
  /\ mem' = [mem EXCEPT ![w] = Copy(NoRow)]
  /\ bill' = [bill EXCEPT ![w] = 0]

Billing(w) == pc[w] \in {"fund", "token", "mark"}

Quiet == row.status # "absent" /\ \A w \in Worker : ~Billing(w)

(* Mutant: only tasks that have started. *)
IsRunning == row.status = "IN_PROGRESS" /\ ~row.complete

(* GetAllUnFinishSyncTasks, GetTimedOutUnfinishedTasks: a row at 100% is    *)
(* passed over whatever its status.                                         *)
IsUnfinished == row.status \in Unfinished /\ ~row.complete
-----------------------------------------------------------------------------
Init ==
  /\ submit = "new"
  /\ quota = 0
  /\ row = NoRow
  /\ charged = 0
  /\ token = 0
  /\ upstream = "IN_PROGRESS"
  /\ overdue = FALSE
  /\ pc = [w \in Worker |-> "idle"]
  /\ mem = [w \in Worker |-> Copy(NoRow)]
  /\ bill = [w \in Worker |-> 0]
  /\ hit = {}
  /\ faults = 0
  /\ crashes = 0
  /\ queries = 0

(* RelayTaskSubmit: pre-consumption is forced; the answer may change the    *)
(* price (AdjustBillingOnSubmit).  A submission that fails is refunded by   *)
(* its session.                                                             *)
PreConsume ==
  /\ submit = "new"
  /\ \E q \in Quotas : charged' = q /\ token' = q
  /\ submit' = "held"
  /\ UNCHANGED <<quota, row, outside, work, bounds>>

SubmitFails ==
  /\ submit = "held"
  /\ charged' = 0 /\ token' = 0
  /\ submit' = "over"
  /\ UNCHANGED <<quota, row, outside, work, bounds>>

(* SettleBilling; its error is logged, and the task goes on. *)
Settle ==
  /\ submit = "held"
  /\ \E q \in Quotas :
       /\ quota' = q
       /\ \/ charged' = q /\ token' = q /\ NoFault
          \/ charged' \in {charged, q} /\ UNCHANGED token /\ Fault("settle")
  /\ submit' = "settled"
  /\ UNCHANGED <<row, outside, work>>

(* task.Insert; its error is logged. *)
Insert ==
  /\ submit = "settled"
  /\ \/ row' = Row("NOT_START", FALSE, quota) /\ NoFault
     \/ UNCHANGED row /\ Fault("insert")
  /\ submit' = "over"
  /\ UNCHANGED <<quota, books, outside, work>>

UpstreamEnds ==
  /\ upstream = "IN_PROGRESS"
  /\ submit # "new"
  /\ upstream' \in Final
  /\ UNCHANGED <<submit, quota, row, books, overdue, work, bounds>>

TimePasses ==
  /\ row # NoRow /\ ~overdue
  /\ overdue' = TRUE
  /\ UNCHANGED <<submit, quota, row, books, upstream, work, bounds>>
-----------------------------------------------------------------------------
(* sweepTimedOutTasks: the copy is made a failure before it is written. *)
FindTimedOut(w) ==
  /\ pc[w] = "idle"
  /\ Sweeps /\ overdue /\ IsUnfinished
  /\ mem' = [mem EXCEPT ![w] =
       [from |-> row.status,
        row |-> Row("FAILURE", TRUE, IF Legacy THEN 0 ELSE row.quota)]]
  /\ Goto(w, "save")
  /\ UNCHANGED <<submit, quota, row, books, outside, bill, bounds>>

(* RunTaskPollingOnce *)
FindUnfinished(w) ==
  /\ pc[w] = "idle"
  /\ IsUnfinished
  /\ mem' = [mem EXCEPT ![w] = Copy(row)]
  /\ Goto(w, "ask")
  /\ UNCHANGED <<submit, quota, row, books, outside, bill, bounds>>

(* The channel cannot be loaded: TaskBulkUpdateByID, whatever the status.   *)
ChannelGone(w) ==
  /\ ChannelFails
  /\ pc[w] = "ask"
  /\ row' = [row EXCEPT !.status = "FAILURE", !.complete = TRUE]
  /\ Leave(w)
  /\ NoFault
  /\ UNCHANGED <<submit, quota, books, outside>>

(* FetchTask and the mapping of its answer.  An error answer counts as a    *)
(* failure of the task; without an answer the pass goes on to other tasks.  *)
(* A failure is complete; otherwise the progress is what upstream says.     *)
Ask(w) ==
  /\ pc[w] = "ask"
  /\ \/ \E status \in {upstream, "FAILURE"}, complete \in BOOLEAN :
          /\ status = "FAILURE" => complete
          /\ mem' = [mem EXCEPT ![w].row =
                       Row(status, complete, mem[w].row.quota)]
          /\ Goto(w, "save") /\ UNCHANGED bill
     \/ Leave(w)
  /\ NoFault
  /\ UNCHANGED <<submit, quota, row, books, outside>>

(* Mutant: whatever the status has become. *)
Unguarded(w) == row.status # "absent"

(* UpdateWithStatus *)
Matches(w) == row.status = mem[w].from

Charge(w, q) ==
  /\ bill' = [bill EXCEPT ![w] = q]
  /\ Goto(w, "fund")
  /\ UNCHANGED mem

(* Mutant: a success is settled at the pre-consumed quota, a failure too.   *)
BillKeeps(w) ==
  \/ mem[w].row.status = "FAILURE" /\ Leave(w)
  \/ mem[w].row.status # "FAILURE" /\ Charge(w, mem[w].row.quota)

(* What the winner bills: nothing for a failure, the actual quota for a     *)
(* success, unless there is nothing to adjust.                              *)
StartBilling(w) ==
  \E q \in IF mem[w].row.status = "FAILURE" THEN {0}
           ELSE IF mem[w].row.status = "SUCCESS"
                THEN (Actuals \ {0}) \cup {mem[w].row.quota}
                ELSE {mem[w].row.quota} :
    IF q = mem[w].row.quota THEN Leave(w) ELSE Charge(w, q)

(* The row is written by whoever still finds the status it read; only the   *)
(* winner bills.  An update may also take effect and be reported as failed. *)
Save(w) ==
  /\ pc[w] = "save"
  /\ \/ /\ Matches(w)
        /\ row' = mem[w].row
        /\ StartBilling(w)
        /\ NoFault
     \/ ~Matches(w) /\ UNCHANGED row /\ Leave(w) /\ NoFault
     \/ /\ row' \in IF Matches(w) THEN {row, mem[w].row} ELSE {row}
        /\ Leave(w)
        /\ Fault(IF row' = row THEN "none" ELSE "save")
  /\ UNCHANGED <<submit, quota, books, outside>>
-----------------------------------------------------------------------------
(* Mutant: the difference the other way round. *)
DeltaSwapped(w) == mem[w].row.quota - bill[w]

(* quotaDelta; a refund is the difference to nothing. *)
Delta(w) == bill[w] - mem[w].row.quota

(* taskAdjustFunding, of RefundTaskQuota and of RecalculateTaskQuota. *)
AdjustFunding(w) ==
  /\ pc[w] = "fund"
  /\ \/ /\ charged' = charged + Delta(w)
        /\ Goto(w, "token") /\ UNCHANGED <<mem, bill>>
        /\ NoFault
     \/ UNCHANGED charged /\ Leave(w) /\ Fault("fund")
  /\ UNCHANGED <<submit, quota, row, token, outside>>

(* taskAdjustTokenQuota; its error is logged. *)
AdjustToken(w) ==
  /\ pc[w] = "token"
  /\ \/ token' = token + Delta(w) /\ NoFault
     \/ UNCHANGED token /\ Fault("token")
  /\ Goto(w, "mark")
  /\ UNCHANGED <<submit, quota, row, charged, outside, mem, bill>>

(* Mutant: the marker is left as it was. *)
UpdateQuotaNever(w) ==
  /\ pc[w] = "mark"
  /\ NoFault
  /\ Leave(w)
  /\ UNCHANGED <<submit, quota, row, books, outside>>

(* Mutant: the difference is left in the column. *)
UpdateQuotaByDelta(w) ==
  /\ pc[w] = "mark"
  /\ row' = [row EXCEPT !.quota = Delta(w)]
  /\ NoFault
  /\ Leave(w)
  /\ UNCHANGED <<submit, quota, books, outside>>

(* UpdateQuota; its error is logged. *)
UpdateQuota(w) ==
  /\ pc[w] = "mark"
  /\ \/ row' = [row EXCEPT !.quota = bill[w]] /\ NoFault
     \/ UNCHANGED row /\ Fault("mark")
  /\ Leave(w)
  /\ UNCHANGED <<submit, quota, books, outside>>

(* The node of a poller dies; what it was billing stays as it is. *)
Crash(w) ==
  /\ crashes < MaxCrashes
  /\ pc[w] # "idle"
  /\ crashes' = crashes + 1
  /\ hit' = hit \cup (CASE pc[w] = "fund" -> {"fund"}
                        [] pc[w] = "token" -> {"token", "mark"}
                        [] pc[w] = "mark" -> {"mark"}
                        [] OTHER -> {})
  /\ Leave(w)
  /\ UNCHANGED <<submit, quota, row, books, outside, faults, queries>>
-----------------------------------------------------------------------------
(* videoFetchByIDRespBodyBuilder reads the row whatever its status. *)
ReadRow(w) ==
  /\ pc[w] = "idle"
  /\ row.status # "absent"
  /\ queries < MaxQueries
  /\ queries' = queries + 1
  /\ mem' = [mem EXCEPT ![w] = Copy(row)]
  /\ Goto(w, "query")
  /\ UNCHANGED <<submit, quota, row, books, outside, bill, hit, faults,
                 crashes>>

(* tryRealtimeFetch: the answer, or its error, goes into the copy (at 100%  *)
(* exactly if it is final, in the mapping of Gemini and Vertex) ...         *)
Query(w) ==
  /\ pc[w] = "query"
  /\ \/ \E status \in {upstream, "FAILURE"} :
          mem' = [mem EXCEPT ![w].row =
                    Row(status, status \in Final, mem[w].row.quota)]
        /\ Goto(w, "show") /\ UNCHANGED bill
     \/ Leave(w)
  /\ UNCHANGED <<submit, quota, row, books, outside, bounds>>

(* History: a task that had ended is in progress again. *)
NoteReopening ==
  /\ hit' = IF row.status \in Final /\ row'.status \in Unfinished
            THEN hit \cup {"reopen"} ELSE hit
  /\ UNCHANGED <<faults, crashes, queries>>

(* ... and the copy into the row, if the answer changed it. *)
Show(w) ==
  /\ pc[w] = "show"
  /\ \/ Matches(w) /\ row' = mem[w].row /\ NoteReopening
     \/ ~Matches(w) /\ UNCHANGED row /\ NoFault
     \/ UNCHANGED row /\ Fault("none")
  /\ Leave(w)
  /\ UNCHANGED <<submit, quota, books, outside>>
-----------------------------------------------------------------------------
Submission == PreConsume \/ SubmitFails \/ Settle \/ Insert

Poll(w) ==
  \/ FindTimedOut(w) \/ FindUnfinished(w) \/ ChannelGone(w) \/ Ask(w)
  \/ Save(w) \/ AdjustFunding(w) \/ AdjustToken(w) \/ UpdateQuota(w)

Fetch(w) == ReadRow(w) \/ Query(w) \/ Show(w)

Next ==
  \/ Submission
  \/ UpstreamEnds \/ TimePasses
  \/ \E w \in Poller : Poll(w) \/ Crash(w)
  \/ \E w \in Fetcher : Fetch(w)

Spec == Init /\ [][Next]_vars

(* Time passes, and passes are made as long as there is an unfinished task  *)
(* (HasUnfinishedSyncTasks), each of which begins with a sweep.             *)
Fairness ==
  /\ WF_vars(Submission)
  /\ WF_vars(TimePasses)
  /\ \A w \in Poller : WF_vars(Poll(w)) /\ SF_vars(FindTimedOut(w))

FairSpec == Spec /\ Fairness
-----------------------------------------------------------------------------
TypeOK ==
  /\ submit \in {"new", "held", "settled", "over"}
  /\ quota \in Nat
  /\ row \in Rows
  /\ charged \in Int
  /\ token \in Int
  /\ upstream \in {"IN_PROGRESS"} \cup Final
  /\ overdue \in BOOLEAN
  /\ pc \in [Worker -> {"idle", "ask", "save", "fund", "token", "mark",
                        "query", "show"}]
  /\ mem \in [Worker -> Copies]
  /\ bill \in [Worker -> Nat]
  /\ hit \subseteq {"none", "settle", "insert", "save", "fund", "token", "mark",
                    "reopen"}
  /\ faults \in 0 .. MaxFaults
  /\ crashes \in 0 .. MaxCrashes
  /\ queries \in 0 .. MaxQueries

(* "防止重叠轮询/sweep/多实例/持久化失败重试导致重复退款或覆盖终态" (updateSunoTasks): *)
(* overlapping passes, sweeps and nodes neither overwrite a final status... *)
FinalStands ==
  [][row.status \in Final => row'.status = row.status]_vars

(* ... nor refund a task twice: no more goes back than was charged.         *)
RefundedOnce == "settle" \notin hit => charged >= 0

(* A task that failed is refunded, to the funding source and to the token   *)
(* (RefundTaskQuota), unless a step of the refund went wrong.  Tasks of the *)
(* old system are not.                                                      *)
FailureIsRefunded ==
  row.status = "FAILURE" /\ Quiet /\ hit \subseteq {"none"} /\ ~Legacy =>
    charged = 0 /\ token = 0

(* A task that succeeded is paid for, at the quota submitted or the actual. *)
SuccessIsPaid ==
  row.status = "SUCCESS" /\ Quiet /\ hit \subseteq {"none"} =>
    charged \in {quota} \cup (Actuals \ {0}) /\ token = charged

(* The quota column is the durable marker of what is still charged, "供显式 *)
(* 重试或人工对账" (RefundTaskQuota): also after a refund that failed or never   *)
(* began.                                                                   *)
MarkerIsRight ==
  Quiet /\ hit \cap {"settle", "mark"} = {} /\ ~Legacy => row.quota = charged

(* Whatever overlapping passes, queries and lost channels do to the status  *)
(* of a task, it never costs more than was submitted or than it turned out  *)
(* to cost: no two winners charge the same difference (UpdateWithStatus),   *)
(* unless a query has put the task back in progress in between.             *)
NeverOvercharged ==
  submit = "over" /\ hit \cap {"settle", "token", "reopen"} = {} =>
    \E most \in Actuals \cup {quota} : charged <= most /\ token <= most

(* Where the charge of a task stands for a payer whose adjustment is made   *)
(* before the worker gets past the steps: an unfinished task may still be   *)
(* adjusted, and one whose winner has not come that far.                    *)
Phase(steps) ==
  IF submit \in {"new", "held"} THEN submit
  ELSE IF \/ submit = "settled"
          \/ row.status \in Unfinished
          \/ \E w \in Worker : pc[w] \in steps
       THEN "open" ELSE "closed"

Funding == INSTANCE TaskCharge WITH
  phase <- Phase({"fund"}), price <- quota, paid <- charged

Token == INSTANCE TaskCharge WITH
  phase <- Phase({"fund", "token"}), price <- quota, paid <- token

(* Funding source and token are each adjusted at most once after the        *)
(* submission, by the difference between the quota submitted and the result *)
(* (RefundTaskQuota, RecalculateTaskQuota), whatever overlaps or fails.     *)
ChargedOnce == Funding!Spec /\ Token!Spec

(* With a timeout configured, every task that was accepted ends: if         *)
(* upstream never says how, by the sweep ("独立清理超时任务").  Only a task of  *)
(* which upstream reports 100% without a verdict is not waited for: neither *)
(* poll nor sweep look at it any more (updateVideoSingleTask).              *)
EveryTaskEnds ==
  Sweeps => (row.status \in Unfinished ~> row.status \in Final \/ row.complete)
=============================================================================
