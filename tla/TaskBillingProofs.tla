-------------------------- MODULE TaskBillingProofs --------------------------
(***************************************************************************)
(* Proofs about TaskBilling, for any pollers, fetchers, quotas and costs    *)
(* and any number of queries, errors and crashes, in two parts.            *)
(*                                                                         *)
(* Types are proved of the whole module, refunds, payments, markers and    *)
(* final statuses of tasks that no real-time query touches and whose       *)
(* channel stays, since TLC refutes them of the others.  The compare-and-  *)
(* swap leads a row only out of an unfinished status, so that it is won    *)
(* into a final status once.  The invariant says what that means for the   *)
(* books: until then they agree with the row, while the winner bills they  *)
(* are where its program counter says, and afterwards nobody touches them. *)
(*                                                                         *)
(* The second part is about all tasks: what remains of that invariant when *)
(* queries and lost channels change the status without billing.            *)
(***************************************************************************)
EXTENDS TaskBilling, TLAPS

(* Nothing has been billed since the submission was settled. *)
Agreed == "settle" \notin hit => charged = quota /\ token = quota

Phases ==
  /\ submit # "over" => row.status = "absent"
  /\ row.status = "absent" => charged >= 0 /\ \A w \in Worker : pc[w] = "idle"
  /\ submit = "settled" => Agreed

Open == row.status \in Unfinished => row.quota = quota /\ Agreed

(* A copy that is going to be written was made of an unfinished row, and as *)
(* long as the row is unfinished the quota in the copy is right; but for    *)
(* the sweep of a task of the old system.                                   *)
CopyInv(w) ==
  /\ pc[w] = "ask" => mem[w].row.status \in Unfinished
  /\ pc[w] \in {"ask", "save"} =>
       /\ mem[w].from \in Unfinished
       /\ mem[w].row.status \in Unfinished \cup Final
       /\ row.status \in Unfinished =>
            \/ mem[w].row.quota = row.quota
            \/ Legacy /\ mem[w].row = Row("FAILURE", TRUE, 0)

(* The winner bills alone, and the books follow it. *)
BillInv(w) ==
  Billing(w) =>
    /\ row.status \in Final
    /\ row.quota = quota
    /\ mem[w].row.quota = quota
    /\ bill[w] \in IF row.status = "FAILURE" THEN {0} ELSE Actuals \ {0}
    /\ \A v \in Worker : Billing(v) => v = w
    /\ "settle" \notin hit =>
         charged = IF pc[w] = "fund" THEN quota ELSE bill[w]
    /\ hit \cap {"settle", "token"} = {} =>
         token = IF pc[w] = "mark" THEN bill[w] ELSE quota

Verdict ==
  /\ RefundedOnce
  /\ FailureIsRefunded
  /\ SuccessIsPaid
  /\ MarkerIsRight

IInv ==
  /\ TypeOK
  /\ Phases
  /\ Open
  /\ \A w \in Worker : CopyInv(w) /\ BillInv(w)
  /\ Verdict
-----------------------------------------------------------------------------
Steps ==
  {"none", "settle", "insert", "save", "fund", "token", "mark", "reopen"}

Labels ==
  {"idle", "ask", "save", "fund", "token", "mark", "query", "show"}

(* What a step does to the bounds. *)
LEMMA NoFaultType ==
  ASSUME TypeOK, NoFault
  PROVE  /\ hit' \subseteq Steps
         /\ faults' \in 0 .. MaxFaults
         /\ crashes' \in 0 .. MaxCrashes
         /\ queries' \in 0 .. MaxQueries
         /\ hit' = hit
BY DEF TypeOK, NoFault, bounds, Steps

LEMMA FaultType ==
  ASSUME TypeOK, NEW step \in Steps, Fault(step)
  PROVE  /\ hit' \subseteq Steps
         /\ faults' \in 0 .. MaxFaults
         /\ crashes' \in 0 .. MaxCrashes
         /\ queries' \in 0 .. MaxQueries
         /\ hit' = hit \cup {step}
BY TaskBillingConstants DEF TypeOK, Fault, Steps

LEMMA RowType ==
  ASSUME NEW s \in Unfinished \cup Final, NEW c \in BOOLEAN, NEW q \in Nat
  PROVE  /\ Row(s, c, q) \in Rows
         /\ Row(s, c, q).status = s
         /\ Row(s, c, q).complete = c
         /\ Row(s, c, q).quota = q
BY DEF Row, Rows

(* The row that holds an answer of the provider. *)
LEMMA AnswerType ==
  ASSUME NEW s \in Unfinished \cup Final, NEW q \in Nat
  PROVE  /\ Row(s, s \in Final, q) \in Rows
         /\ Row(s, s \in Final, q).status = s
         /\ Row(s, s \in Final, q).quota = q
<1> DEFINE c == s \in Final
<1>1. c \in BOOLEAN
  OBVIOUS
<1> HIDE DEF c
<1>2. Row(s, c, q) \in Rows /\ Row(s, c, q).status = s /\ Row(s, c, q).quota = q
  BY <1>1, RowType
<1> QED
  BY <1>2 DEF c

LEMMA CopyFields ==
  ASSUME NEW c \in Copies
  PROVE  /\ c.from \in Unfinished \cup Final \cup {"absent"}
         /\ c.row \in Rows
         /\ c.row.status \in Unfinished \cup Final \cup {"absent"}
         /\ c.row.complete \in BOOLEAN
         /\ c.row.quota \in Nat
BY DEF Copies, Rows

LEMMA CopyWithRow ==
  ASSUME NEW c \in Copies, NEW r \in Rows
  PROVE  [c EXCEPT !.row = r] \in Copies
         /\ [c EXCEPT !.row = r].from = c.from
         /\ [c EXCEPT !.row = r].row = r
BY DEF Copies

LEMMA RowFields ==
  ASSUME NEW r \in Rows
  PROVE  /\ r.status \in Unfinished \cup Final \cup {"absent"}
         /\ r.complete \in BOOLEAN
         /\ r.quota \in Nat
         /\ Copy(r) \in Copies
         /\ Copy(r).from = r.status
         /\ Copy(r).row = r
BY DEF Rows, Copies, Copy

LEMMA RowWithQuota ==
  ASSUME NEW r \in Rows, NEW q \in Nat
  PROVE  /\ [r EXCEPT !.quota = q] \in Rows
         /\ [r EXCEPT !.quota = q].status = r.status
         /\ [r EXCEPT !.quota = q].quota = q
BY DEF Rows

(* The copy whose row is replaced, as the actions write it. *)
LEMMA MemWithRow ==
  ASSUME TypeOK, NEW w \in Worker, NEW r \in Rows,
         mem' = [mem EXCEPT ![w].row = r]
  PROVE  /\ mem' \in [Worker -> Copies]
         /\ mem'[w].from = mem[w].from
         /\ mem'[w].row = r
         /\ \A v \in Worker \ {w} : mem'[v] = mem[v]
<1>1. mem \in [Worker -> Copies]
  BY DEF TypeOK
<1>2. mem' = [mem EXCEPT ![w] = [mem[w] EXCEPT !.row = r]]
  OBVIOUS
<1>3. [mem[w] EXCEPT !.row = r] \in Copies
      /\ [mem[w] EXCEPT !.row = r].from = mem[w].from
      /\ [mem[w] EXCEPT !.row = r].row = r
  BY <1>1, CopyWithRow
<1> QED
  BY <1>1, <1>2, <1>3

(* A worker that leaves forgets its copy and its bill. *)
LEMMA LeaveType ==
  ASSUME TypeOK, NEW w \in Worker, Leave(w)
  PROVE  /\ mem' \in [Worker -> Copies]
         /\ bill' \in [Worker -> Nat]
         /\ Goto(w, "idle")
         /\ pc'[w] = "idle"
         /\ \A v \in Worker \ {w} :
              pc'[v] = pc[v] /\ mem'[v] = mem[v] /\ bill'[v] = bill[v]
<1>1. Copy(NoRow) \in Copies
  BY DEF NoRow, Row, Rows, Copy, Copies
<1> QED
  BY <1>1 DEF Leave, Goto, TypeOK

LEMMA ChargeType ==
  ASSUME TypeOK, NEW w \in Worker, NEW q \in Nat, Charge(w, q)
  PROVE  /\ UNCHANGED mem
         /\ bill' \in [Worker -> Nat]
         /\ Goto(w, "fund")
         /\ pc'[w] = "fund" /\ bill'[w] = q
         /\ \A v \in Worker \ {w} : pc'[v] = pc[v] /\ bill'[v] = bill[v]
BY DEF Charge, Goto, TypeOK

(* The winner of a row leaves it or charges a final row, at another quota. *)
LEMMA StartBillingCases ==
  ASSUME TypeOK, NEW w \in Worker, StartBilling(w)
  PROVE  \/ /\ Leave(w)
            /\ mem[w].row.status = "FAILURE" => mem[w].row.quota = 0
         \/ \E q \in Nat :
              /\ Charge(w, q) /\ q # mem[w].row.quota
              /\ mem[w].row.status \in Final
              /\ q \in IF mem[w].row.status = "FAILURE" THEN {0}
                        ELSE Actuals \ {0}
<1>1. PICK q \in IF mem[w].row.status = "FAILURE" THEN {0}
                 ELSE IF mem[w].row.status = "SUCCESS"
                      THEN (Actuals \ {0}) \cup {mem[w].row.quota}
                      ELSE {mem[w].row.quota} :
        IF q = mem[w].row.quota THEN Leave(w) ELSE Charge(w, q)
  BY DEF StartBilling
<1>2. CASE q = mem[w].row.quota
  BY <1>1, <1>2
<1>3. CASE q # mem[w].row.quota
  <2>1. /\ Charge(w, q) /\ mem[w].row.status \in Final
        /\ q \in IF mem[w].row.status = "FAILURE" THEN {0}
                  ELSE Actuals \ {0}
    BY <1>1, <1>3 DEF Final
  <2>2. q \in Nat
    BY <2>1, TaskBillingConstants
  <2> QED
    BY <1>3, <2>1, <2>2
<1> QED
  BY <1>2, <1>3
-----------------------------------------------------------------------------
LEMMA InitInv == Init => IInv
<1> SUFFICES ASSUME Init PROVE IInv
  OBVIOUS
<1>1. NoRow \in Rows /\ NoRow.status = "absent" /\ Copy(NoRow) \in Copies
  BY DEF NoRow, Row, Rows, Copy, Copies
<1>2. TypeOK
  <2>1. /\ mem \in [Worker -> Copies]
        /\ bill \in [Worker -> Nat]
        /\ pc \in [Worker -> Labels]
        /\ row \in Rows
    BY <1>1 DEF Init, Labels
  <2>2. faults \in 0 .. MaxFaults /\ crashes \in 0 .. MaxCrashes
        /\ queries \in 0 .. MaxQueries
    BY TaskBillingConstants DEF Init
  <2>3. submit \in {"new", "held", "settled", "over"}
    BY DEF Init
  <2>4. quota \in Nat /\ charged \in Int /\ token \in Int
    BY DEF Init
  <2>5. /\ upstream \in {"IN_PROGRESS"} \cup Final
        /\ overdue \in BOOLEAN
        /\ hit \subseteq Steps
    BY DEF Init
  <2> QED
    BY <2>1, <2>2, <2>3, <2>4, <2>5 DEF TypeOK, Labels, Steps
<1>3. Phases /\ Open
  BY <1>1 DEF Init, Phases, Open, Agreed, Unfinished
<1>4. ASSUME NEW w \in Worker PROVE CopyInv(w) /\ BillInv(w)
  BY <1>4 DEF Init, CopyInv, BillInv, Billing
<1>5. Verdict
  BY <1>1 DEF Init, Verdict, RefundedOnce, FailureIsRefunded, SuccessIsPaid,
              MarkerIsRight, Quiet
<1> QED
  BY <1>2, <1>3, <1>4, <1>5 DEF IInv
-----------------------------------------------------------------------------
(* Types, one action after the other. *)
LEMMA SubmissionType ==
  ASSUME TypeOK, Submission
  PROVE  TypeOK'
<1>1. CASE PreConsume
  BY <1>1, TaskBillingConstants DEF PreConsume, TypeOK, outside, work, bounds
<1>2. CASE SubmitFails
  BY <1>2 DEF SubmitFails, TypeOK, outside, work, bounds
<1>3. CASE Settle
  <2>1. quota' \in Nat /\ charged' \in Int /\ token' \in Int
    BY <1>3, TaskBillingConstants DEF Settle, TypeOK, books
  <2>2. /\ hit' \subseteq Steps
        /\ faults' \in 0 .. MaxFaults
        /\ crashes' \in 0 .. MaxCrashes
        /\ queries' \in 0 .. MaxQueries
    <3>1. CASE NoFault
      BY <3>1, NoFaultType
    <3>2. CASE Fault("settle")
      <4>1. "settle" \in Steps
        BY DEF Steps
      <4> QED
        BY <3>2, <4>1, FaultType
    <3> QED
      BY <1>3, <3>1, <3>2 DEF Settle
  <2> QED
    BY <1>3, <2>1, <2>2 DEF Settle, TypeOK, outside, work, Steps
<1>4. CASE Insert
  <2>1. row' \in Rows
    <3>1. Row("NOT_START", FALSE, quota) \in Rows
      BY DEF Row, Rows, TypeOK, Unfinished
    <3> QED
      BY <1>4, <3>1 DEF Insert, TypeOK
  <2>2. /\ hit' \subseteq Steps
        /\ faults' \in 0 .. MaxFaults
        /\ crashes' \in 0 .. MaxCrashes
        /\ queries' \in 0 .. MaxQueries
    <3>1. CASE NoFault
      BY <3>1, NoFaultType
    <3>2. CASE Fault("insert")
      <4>1. "insert" \in Steps
        BY DEF Steps
      <4> QED
        BY <3>2, <4>1, FaultType
    <3> QED
      BY <1>4, <3>1, <3>2 DEF Insert
  <2> QED
    BY <1>4, <2>1, <2>2 DEF Insert, TypeOK, outside, work, books, Steps
<1> QED
  BY <1>1, <1>2, <1>3, <1>4 DEF Submission

LEMMA OutsideType ==
  ASSUME TypeOK, UpstreamEnds \/ TimePasses \/ UNCHANGED vars
  PROVE  TypeOK'
BY DEF UpstreamEnds, TimePasses, TypeOK, vars, books, outside, work, bounds

(* A step that moves one worker and leaves the submission alone. *)
LEMMA WorkerType ==
  ASSUME TypeOK, NEW w \in Worker, NEW label \in Labels, Goto(w, label),
         UNCHANGED <<submit, quota, outside>>,
         row' \in Rows, charged' \in Int, token' \in Int,
         mem' \in [Worker -> Copies], bill' \in [Worker -> Nat],
         hit' \subseteq Steps, faults' \in 0 .. MaxFaults,
         crashes' \in 0 .. MaxCrashes, queries' \in 0 .. MaxQueries
  PROVE  TypeOK'
<1>1. pc' \in [Worker -> Labels]
  BY DEF Goto, TypeOK, Labels
<1> QED
  BY <1>1 DEF TypeOK, outside, Labels, Steps

LEMMA LeavingType ==
  ASSUME TypeOK, NEW w \in Worker, Leave(w),
         UNCHANGED <<submit, quota, outside>>,
         row' \in Rows, charged' \in Int, token' \in Int,
         hit' \subseteq Steps, faults' \in 0 .. MaxFaults,
         crashes' \in 0 .. MaxCrashes, queries' \in 0 .. MaxQueries
  PROVE  TypeOK'
BY LeaveType, WorkerType DEF Labels

LEMMA PollType ==
  ASSUME TypeOK, NEW w \in Worker, Poll(w)
  PROVE  TypeOK'
<1> USE DEF Labels
<1>0. /\ row \in Rows /\ charged \in Int /\ token \in Int
      /\ mem \in [Worker -> Copies] /\ bill \in [Worker -> Nat]
      /\ upstream \in Unfinished \cup Final
  BY DEF TypeOK, Unfinished
<1>1. CASE FindTimedOut(w)
  <2>1. row.status \in Unfinished
    BY <1>1 DEF FindTimedOut, IsUnfinished
  <2>2. Row("FAILURE", TRUE, IF Legacy THEN 0 ELSE row.quota) \in Rows
    BY <1>0, RowFields DEF Row, Rows, Final
  <2>3. mem' \in [Worker -> Copies]
    BY <1>0, <1>1, <2>1, <2>2 DEF FindTimedOut, Copies
  <2> QED
    BY <1>0, <1>1, <2>3, NoFaultType, WorkerType
       DEF FindTimedOut, NoFault, books, outside
<1>2. CASE FindUnfinished(w)
  <2>1. mem' \in [Worker -> Copies]
    BY <1>0, <1>2, RowFields DEF FindUnfinished
  <2> QED
    BY <1>0, <1>2, <2>1, NoFaultType, WorkerType
       DEF FindUnfinished, NoFault, books, outside
<1>3. CASE ChannelGone(w)
  <2>1. row' \in Rows
    BY <1>0, <1>3 DEF ChannelGone, Rows, Final
  <2> QED
    BY <1>0, <1>3, <2>1, NoFaultType, LeavingType
       DEF ChannelGone, books, outside
<1>4. CASE Ask(w)
  <2>1. CASE Leave(w)
    BY <1>0, <1>4, <2>1, NoFaultType, LeavingType
       DEF Ask, books, outside
  <2>2. ASSUME NEW status \in {upstream, "FAILURE"}, NEW complete \in BOOLEAN,
               mem' = [mem EXCEPT ![w].row =
                        Row(status, complete, mem[w].row.quota)],
               Goto(w, "save"), UNCHANGED bill
        PROVE  TypeOK'
    <3>1. Row(status, complete, mem[w].row.quota) \in Rows
      <4>1. mem[w].row.quota \in Nat
        BY <1>0, CopyFields
      <4>2. status \in Unfinished \cup Final
        BY <1>0, <2>2 DEF Final
      <4> QED
        BY <4>1, <4>2, RowType
    <3>2. mem' \in [Worker -> Copies]
      BY <2>2, <3>1, MemWithRow
    <3> QED
      BY <1>0, <1>4, <2>2, <3>2, NoFaultType, WorkerType
         DEF Ask, books, outside
  <2> QED
    BY <1>4, <2>1, <2>2 DEF Ask
<1>5. CASE Save(w)
  <2>1. row' \in Rows
    BY <1>0, <1>5, CopyFields DEF Save
  <2>2. CASE Matches(w) /\ row' = mem[w].row /\ StartBilling(w) /\ NoFault
    <3>1. CASE Leave(w)
      BY <1>0, <1>5, <2>1, <2>2, <3>1, NoFaultType, LeavingType
         DEF Save, books, outside
    <3>2. ASSUME NEW q \in Nat, Charge(w, q) PROVE TypeOK'
      <4>1. /\ mem' \in [Worker -> Copies]
            /\ bill' \in [Worker -> Nat]
            /\ Goto(w, "fund")
        BY <1>0, <3>2, ChargeType
      <4> QED
        BY <1>0, <1>5, <2>1, <2>2, <4>1, NoFaultType, WorkerType
           DEF Save, books, outside
    <3> QED
      BY <2>2, <3>1, <3>2, StartBillingCases
  <2>3. CASE ~Matches(w) /\ UNCHANGED row /\ Leave(w) /\ NoFault
    BY <1>0, <1>5, <2>1, <2>3, NoFaultType, LeavingType
       DEF Save, books, outside
  <2>4. ASSUME Leave(w),
               Fault(IF row' = row THEN "none" ELSE "save")
        PROVE  TypeOK'
    <3>1. (IF row' = row THEN "none" ELSE "save") \in Steps
      BY DEF Steps
    <3>2. /\ hit' \subseteq Steps
          /\ faults' \in 0 .. MaxFaults
          /\ crashes' \in 0 .. MaxCrashes
          /\ queries' \in 0 .. MaxQueries
      BY <2>4, <3>1, FaultType
    <3> QED
      BY <1>0, <1>5, <2>1, <2>4, <3>2, LeavingType DEF Save, books, outside
  <2> QED
    BY <1>5, <2>2, <2>3, <2>4 DEF Save
<1>6. CASE AdjustFunding(w)
  <2>1. Delta(w) \in Int
    BY <1>0, CopyFields DEF Delta
  <2>2. CASE charged' = charged + Delta(w) /\ Goto(w, "token")
             /\ UNCHANGED <<mem, bill>> /\ NoFault
    BY <1>0, <1>6, <2>1, <2>2, NoFaultType, WorkerType
       DEF AdjustFunding, outside
  <2>3. CASE UNCHANGED charged /\ Leave(w) /\ Fault("fund")
    <3>1. "fund" \in Steps
      BY DEF Steps
    <3> QED
      BY <1>0, <1>6, <2>3, <3>1, FaultType, LeavingType
         DEF AdjustFunding, outside
  <2> QED
    BY <1>6, <2>2, <2>3 DEF AdjustFunding
<1>7. CASE AdjustToken(w)
  <2>1. Delta(w) \in Int
    BY <1>0, CopyFields DEF Delta
  <2>2. CASE token' = token + Delta(w) /\ NoFault
    BY <1>0, <1>7, <2>1, <2>2, NoFaultType, WorkerType
       DEF AdjustToken, outside
  <2>3. CASE UNCHANGED token /\ Fault("token")
    <3>1. "token" \in Steps
      BY DEF Steps
    <3> QED
      BY <1>0, <1>7, <2>3, <3>1, FaultType, WorkerType
         DEF AdjustToken, outside
  <2> QED
    BY <1>7, <2>2, <2>3 DEF AdjustToken
<1>8. CASE UpdateQuota(w)
  <2>1. CASE row' = [row EXCEPT !.quota = bill[w]] /\ NoFault
    <3>1. row' \in Rows
      BY <1>0, <2>1, RowWithQuota
    <3> QED
      BY <1>0, <1>8, <2>1, <3>1, NoFaultType, LeavingType
         DEF UpdateQuota, books, outside
  <2>2. CASE UNCHANGED row /\ Fault("mark")
    <3>1. "mark" \in Steps
      BY DEF Steps
    <3> QED
      BY <1>0, <1>8, <2>2, <3>1, FaultType, LeavingType
         DEF UpdateQuota, books, outside
  <2> QED
    BY <1>8, <2>1, <2>2 DEF UpdateQuota
<1> QED
  BY <1>1, <1>2, <1>3, <1>4, <1>5, <1>6, <1>7, <1>8 DEF Poll

(* What a crash adds to the history. *)
Lost(label) ==
  CASE label = "fund" -> {"fund"}
    [] label = "token" -> {"token", "mark"}
    [] label = "mark" -> {"mark"}
    [] OTHER -> {}

LEMMA CrashType ==
  ASSUME TypeOK, NEW w \in Worker, Crash(w)
  PROVE  TypeOK'
<1>1. Lost(pc[w]) \subseteq Steps
  BY DEF Lost, Steps
<1>2. hit' = hit \cup Lost(pc[w])
  BY DEF Crash, Lost
<1>3. hit' \subseteq Steps
  BY <1>1, <1>2 DEF TypeOK, Steps
<1>4. crashes' \in 0 .. MaxCrashes
  BY TaskBillingConstants DEF Crash, TypeOK
<1> QED
  BY <1>3, <1>4, LeavingType DEF Crash, TypeOK, books, outside

LEMMA FetchType ==
  ASSUME TypeOK, NEW w \in Worker, Fetch(w)
  PROVE  TypeOK'
<1> USE DEF Labels
<1>0. /\ row \in Rows /\ charged \in Int /\ token \in Int
      /\ mem \in [Worker -> Copies] /\ bill \in [Worker -> Nat]
      /\ upstream \in Unfinished \cup Final
  BY DEF TypeOK, Unfinished
<1>1. CASE ReadRow(w)
  <2>1. mem' \in [Worker -> Copies]
    BY <1>0, <1>1, RowFields DEF ReadRow
  <2>2. /\ hit' \subseteq Steps
        /\ faults' \in 0 .. MaxFaults
        /\ crashes' \in 0 .. MaxCrashes
        /\ queries' \in 0 .. MaxQueries
    BY <1>1, TaskBillingConstants DEF ReadRow, TypeOK, Steps
  <2> QED
    BY <1>0, <1>1, <2>1, <2>2, WorkerType DEF ReadRow, books, outside
<1>2. CASE Query(w)
  <2>1. CASE Leave(w)
    BY <1>0, <1>2, <2>1, NoFaultType, LeavingType
       DEF Query, NoFault, books, outside
  <2>2. ASSUME NEW status \in {upstream, "FAILURE"},
               mem' = [mem EXCEPT ![w].row =
                        Row(status, status \in Final, mem[w].row.quota)],
               Goto(w, "show"), UNCHANGED bill
        PROVE  TypeOK'
    <3>1. Row(status, status \in Final, mem[w].row.quota) \in Rows
      <4>1. mem[w].row.quota \in Nat
        BY <1>0, CopyFields
      <4>2. status \in Unfinished \cup Final
        BY <1>0, <2>2 DEF Final
      <4> QED
        BY <4>1, <4>2, AnswerType
    <3>2. mem' \in [Worker -> Copies]
      BY <2>2, <3>1, MemWithRow
    <3> QED
      BY <1>0, <1>2, <2>2, <3>2, NoFaultType, WorkerType
         DEF Query, NoFault, books, outside
  <2> QED
    BY <1>2, <2>1, <2>2 DEF Query
<1>3. CASE Show(w)
  <2>1. row' \in Rows
    BY <1>0, <1>3, CopyFields DEF Show
  <2>2. CASE NoFault
    BY <1>0, <1>3, <2>1, <2>2, NoFaultType, LeavingType
       DEF Show, books, outside
  <2>3. CASE NoteReopening
    <3>1. /\ hit' \subseteq Steps
          /\ faults' \in 0 .. MaxFaults
          /\ crashes' \in 0 .. MaxCrashes
          /\ queries' \in 0 .. MaxQueries
      BY <2>3 DEF NoteReopening, TypeOK, Steps
    <3> QED
      BY <1>0, <1>3, <2>1, <3>1, LeavingType DEF Show, books, outside
  <2>4. CASE Fault("none")
    <3>1. "none" \in Steps
      BY DEF Steps
    <3> QED
      BY <1>0, <1>3, <2>1, <2>4, <3>1, FaultType, LeavingType
         DEF Show, books, outside
  <2> QED
    BY <1>3, <2>2, <2>3, <2>4 DEF Show
<1> QED
  BY <1>1, <1>2, <1>3 DEF Fetch

LEMMA TypeStep ==
  ASSUME TypeOK, [Next]_vars
  PROVE  TypeOK'
<1>1. \A w \in Poller \cup Fetcher : w \in Worker
  BY DEF Worker
<1> QED
  BY <1>1, SubmissionType, OutsideType, PollType, CrashType, FetchType DEF Next

(* Every variable keeps its type, whatever the pollers, the queries and the *)
(* errors do.                                                               *)
THEOREM TypeCorrect == Spec => []TypeOK
<1>1. Init => TypeOK
  BY InitInv DEF IInv
<1>2. TypeOK /\ [Next]_vars => TypeOK'
  BY TypeStep
<1> QED
  BY <1>1, <1>2, PTL DEF Spec
-----------------------------------------------------------------------------
(* No real-time query touches the task, and its channel stays. *)
Polled == Fetcher = {} /\ ChannelFails = FALSE

(* What IInv says of one worker, in the types the provers need. *)
LEMMA Types ==
  ASSUME TypeOK, NEW w \in Worker
  PROVE  /\ row \in Rows /\ row.quota \in Nat
         /\ row.status \in Unfinished \cup Final \cup {"absent"}
         /\ quota \in Nat /\ charged \in Int /\ token \in Int
         /\ mem[w] \in Copies /\ mem[w].row \in Rows
         /\ mem[w].row.quota \in Nat
         /\ bill[w] \in Nat
         /\ pc[w] \in Labels
BY RowFields, CopyFields DEF TypeOK, Labels

LEMMA Distinct ==
  /\ "absent" \notin Unfinished \cup Final
  /\ Unfinished \cap Final = {}
  /\ "SUCCESS" \in Final /\ "FAILURE" \in Final
BY DEF Unfinished, Final

(* Nobody bills a task that has not ended. *)
LEMMA NoBiller ==
  ASSUME IInv, row.status \notin Final, NEW v \in Worker
  PROVE  ~Billing(v)
BY DEF IInv, BillInv

(* A verdict stands as long as row and books do, whatever goes wrong. *)
LEMMA VerdictKept ==
  ASSUME Verdict, UNCHANGED <<quota, row, charged, token>>, hit \subseteq hit',
         Quiet' => Quiet
  PROVE  Verdict'
BY DEF Verdict, RefundedOnce, FailureIsRefunded, SuccessIsPaid, MarkerIsRight

(* A step that neither writes the row nor bills. *)
LEMMA Aside ==
  ASSUME IInv, NEW w \in Worker,
         UNCHANGED <<submit, quota, row, charged, token>>,
         hit \subseteq hit',
         \A v \in Worker \ {w} :
           pc'[v] = pc[v] /\ mem'[v] = mem[v] /\ bill'[v] = bill[v],
         ~Billing(w), pc'[w] \notin {"fund", "token", "mark"},
         row.status = "absent" => pc'[w] = "idle",
         CopyInv(w)', TypeOK'
  PROVE  IInv'
<1>1. Phases'
  BY DEF IInv, Phases, Agreed
<1>2. Open'
  BY DEF IInv, Open, Agreed
<1>3. ASSUME NEW v \in Worker PROVE CopyInv(v)'
  BY <1>3 DEF IInv, CopyInv
<1>4. \A v \in Worker : Billing(v)' <=> Billing(v)
  BY DEF Billing
<1>5. ASSUME NEW v \in Worker PROVE BillInv(v)'
  <2>1. CASE v = w
    BY <1>4, <2>1 DEF BillInv
  <2>2. CASE v # w
    BY <1>4, <2>2 DEF IInv, BillInv
  <2> QED
    BY <2>1, <2>2
<1>6. Verdict'
  <2>1. Quiet' => Quiet
    BY <1>4 DEF Quiet
  <2> QED
    BY <2>1, VerdictKept DEF IInv
<1> QED
  BY <1>1, <1>2, <1>3, <1>5, <1>6 DEF IInv

(* A step of the winner that leaves the status alone. *)
LEMMA BillerMoves ==
  ASSUME IInv, NEW w \in Worker, Billing(w),
         UNCHANGED <<submit, quota>>,
         row'.status = row.status,
         \A v \in Worker \ {w} :
           pc'[v] = pc[v] /\ mem'[v] = mem[v] /\ bill'[v] = bill[v],
         pc'[w] \notin {"ask", "save"},
         BillInv(w)', Verdict', TypeOK'
  PROVE  IInv'
<1>1. row.status \in Final /\ row.status # "absent"
  BY Distinct DEF IInv, BillInv
<1>2. submit = "over"
  BY <1>1 DEF IInv, Phases
<1>3. Phases'
  BY <1>1, <1>2 DEF Phases
<1>4. Open'
  BY <1>1, Distinct DEF Open
<1>5. ASSUME NEW v \in Worker PROVE CopyInv(v)'
  <2>1. row'.status \notin Unfinished
    BY <1>1, Distinct
  <2>2. CASE v = w
    BY <2>2 DEF CopyInv
  <2>3. CASE v # w
    BY <2>1, <2>3 DEF IInv, CopyInv
  <2> QED
    BY <2>2, <2>3
<1>6. ASSUME NEW v \in Worker PROVE BillInv(v)'
  <2>1. CASE v = w
    BY <2>1
  <2>2. CASE v # w
    <3>1. ~Billing(v)
      BY <2>2 DEF IInv, BillInv
    <3>2. ~Billing(v)'
      BY <2>2, <3>1 DEF Billing
    <3> QED
      BY <3>2 DEF BillInv
  <2> QED
    BY <2>1, <2>2
<1> QED
  BY <1>3, <1>4, <1>5, <1>6 DEF IInv
-----------------------------------------------------------------------------
LEMMA SubmissionInv ==
  ASSUME IInv, Submission
  PROVE  IInv'
<1>0. TypeOK /\ TypeOK'
  BY SubmissionType DEF IInv
<1>1. row.status = "absent" /\ charged >= 0
  BY DEF IInv, Phases, Submission, PreConsume, SubmitFails, Settle, Insert
<1>2. \A w \in Worker : pc[w] = "idle"
  BY <1>1 DEF IInv, Phases
<1>3. UNCHANGED <<pc, mem, bill>>
  BY DEF Submission, PreConsume, SubmitFails, Settle, Insert, work
<1>4. \A w \in Worker : CopyInv(w)' /\ BillInv(w)'
  BY <1>2, <1>3 DEF CopyInv, BillInv, Billing
<1>5. quota \in Nat /\ charged \in Int /\ row \in Rows
  BY <1>0 DEF TypeOK
<1>6. CASE UNCHANGED row /\ charged' >= 0 /\ submit' # "settled"
  <2>1. Phases'
    BY <1>1, <1>2, <1>3, <1>6 DEF Phases
  <2>2. Open'
    BY <1>1, <1>6, Distinct DEF Open
  <2>3. Verdict'
    BY <1>1, <1>6 DEF Verdict, RefundedOnce, FailureIsRefunded, SuccessIsPaid,
                      MarkerIsRight, Quiet
  <2> QED
    BY <1>0, <1>4, <2>1, <2>2, <2>3 DEF IInv
<1>7. CASE PreConsume
  <2>1. charged' >= 0
    BY <1>7, TaskBillingConstants DEF PreConsume
  <2> QED
    BY <1>6, <1>7, <2>1 DEF PreConsume
<1>8. CASE SubmitFails
  BY <1>6, <1>8 DEF SubmitFails
<1>9. CASE Settle
  <2>1. charged' >= 0
    BY <1>1, <1>9, TaskBillingConstants DEF Settle, books
  <2>2. Agreed'
    BY <1>9 DEF Settle, Agreed, Fault
  <2>3. UNCHANGED row
    BY <1>9 DEF Settle
  <2>4. Phases'
    BY <1>1, <1>2, <1>3, <2>1, <2>2, <2>3 DEF Phases
  <2>5. Open'
    BY <1>1, <2>3, Distinct DEF Open
  <2>6. Verdict'
    BY <1>1, <2>1, <2>3 DEF Verdict, RefundedOnce, FailureIsRefunded,
                            SuccessIsPaid, MarkerIsRight, Quiet
  <2> QED
    BY <1>0, <1>4, <2>4, <2>5, <2>6 DEF IInv
<1>10. CASE Insert
  <2>1. UNCHANGED <<quota, charged, token>> /\ submit' = "over" /\ Agreed
    BY <1>10 DEF Insert, books, IInv, Phases
  <2>2. CASE UNCHANGED row
    BY <1>1, <1>6, <2>1, <2>2
  <2>3. CASE row' = Row("NOT_START", FALSE, quota) /\ NoFault
    <3>1. row'.status = "NOT_START" /\ row'.quota = quota
      BY <2>3 DEF Row
    <3>2. hit' = hit
      BY <2>3 DEF NoFault, bounds
    <3>3. Phases'
      BY <2>1, <3>1 DEF Phases
    <3>4. Open'
      BY <2>1, <3>1, <3>2 DEF Open, Agreed
    <3>5. Verdict'
      BY <1>1, <2>1, <3>1, <3>2
         DEF Verdict, RefundedOnce, FailureIsRefunded, SuccessIsPaid,
             MarkerIsRight, Agreed
    <3> QED
      BY <1>0, <1>4, <3>3, <3>4, <3>5 DEF IInv
  <2> QED
    BY <1>10, <2>2, <2>3 DEF Insert
<1> QED
  BY <1>7, <1>8, <1>9, <1>10 DEF Submission

LEMMA OutsideInv ==
  ASSUME IInv, UpstreamEnds \/ TimePasses \/ UNCHANGED vars
  PROVE  IInv'
<1>1. TypeOK'
  BY OutsideType DEF IInv
<1>2. UNCHANGED <<submit, quota, row, charged, token, pc, mem, bill, hit>>
  BY DEF UpstreamEnds, TimePasses, vars, books, work, bounds
<1> QED
  BY <1>1, <1>2 DEF IInv, Phases, Open, Agreed, CopyInv, BillInv, Billing,
     Verdict, RefundedOnce, FailureIsRefunded, SuccessIsPaid, MarkerIsRight,
     Quiet
-----------------------------------------------------------------------------
LEMMA FindInv ==
  ASSUME IInv, NEW w \in Poller, FindTimedOut(w) \/ FindUnfinished(w)
  PROVE  IInv'
<1>0. TypeOK /\ TypeOK' /\ w \in Worker
  BY PollType DEF IInv, Poll, Worker
<1>1. /\ pc[w] = "idle" /\ row.status \in Unfinished
      /\ UNCHANGED <<submit, quota, row, charged, token, bill, hit>>
  BY DEF FindTimedOut, FindUnfinished, IsUnfinished, books, bounds
<1>2. \A v \in Worker \ {w} : pc'[v] = pc[v] /\ mem'[v] = mem[v]
  BY <1>0 DEF FindTimedOut, FindUnfinished, Goto, TypeOK
<1>3. pc'[w] \in {"ask", "save"} /\ CopyInv(w)'
  <2>1. CASE FindTimedOut(w)
    <3>1. pc'[w] = "save"
      BY <1>0, <2>1 DEF FindTimedOut, Goto, TypeOK
    <3>2. mem'[w] = [from |-> row.status,
            row |-> Row("FAILURE", TRUE, IF Legacy THEN 0 ELSE row.quota)]
      BY <1>0, <2>1 DEF FindTimedOut, TypeOK
    <3>3. /\ mem'[w].from = row.status
          /\ mem'[w].row =
               Row("FAILURE", TRUE, IF Legacy THEN 0 ELSE row.quota)
      BY <3>2
    <3>4. /\ mem'[w].row.status = "FAILURE"
          /\ ~Legacy => mem'[w].row.quota = row.quota
      BY <3>3 DEF Row
    <3> QED
      BY <1>1, <3>1, <3>3, <3>4, Distinct DEF CopyInv
  <2>2. CASE FindUnfinished(w)
    <3>1. pc'[w] = "ask"
      BY <1>0, <2>2 DEF FindUnfinished, Goto, TypeOK
    <3>2. mem'[w] = Copy(row)
      BY <1>0, <2>2 DEF FindUnfinished, TypeOK
    <3>3. mem'[w].from = row.status /\ mem'[w].row = row
      BY <3>2 DEF Copy
    <3> QED
      BY <1>1, <3>1, <3>3 DEF CopyInv
  <2> QED
    BY <2>1, <2>2
<1>4. ~Billing(w) /\ row.status # "absent"
  BY <1>1, Distinct DEF Billing
<1> QED
  BY <1>0, <1>1, <1>2, <1>3, <1>4, Aside

LEMMA AskInv ==
  ASSUME IInv, NEW w \in Poller, Ask(w)
  PROVE  IInv'
<1>0. TypeOK /\ TypeOK' /\ w \in Worker
  BY PollType DEF IInv, Poll, Worker
<1>1. /\ pc[w] = "ask"
      /\ UNCHANGED <<submit, quota, row, charged, token, hit>>
  BY DEF Ask, books, NoFault, bounds
<1>2. \A v \in Worker \ {w} :
        pc'[v] = pc[v] /\ mem'[v] = mem[v] /\ bill'[v] = bill[v]
  BY <1>0, LeaveType DEF Ask, Goto, TypeOK
<1>3. /\ mem[w].from \in Unfinished
      /\ mem[w].row.status \in Unfinished
      /\ row.status \in Unfinished =>
           \/ mem[w].row.quota = row.quota
           \/ Legacy /\ mem[w].row = Row("FAILURE", TRUE, 0)
  BY <1>0, <1>1 DEF IInv, CopyInv
<1>4. row.status \in Unfinished => mem[w].row.quota = row.quota
  BY <1>3, Distinct DEF Row
<1>5. pc'[w] \in {"idle", "save"} /\ CopyInv(w)'
  <2>1. CASE Leave(w)
    <3>1. pc'[w] = "idle"
      BY <1>0, <2>1 DEF Leave, Goto, TypeOK
    <3> QED
      BY <3>1 DEF CopyInv
  <2>2. ASSUME NEW status \in {upstream, "FAILURE"}, NEW complete \in BOOLEAN,
               mem' = [mem EXCEPT ![w].row =
                        Row(status, complete, mem[w].row.quota)],
               Goto(w, "save")
        PROVE  pc'[w] = "save" /\ CopyInv(w)'
    <3>1. pc'[w] = "save"
      BY <1>0, <2>2 DEF Goto, TypeOK
    <3>2. status \in Unfinished \cup Final
      BY <1>0, <2>2, Distinct DEF TypeOK, Unfinished
    <3>3. mem[w].row.quota \in Nat
      BY <1>0, Types
    <3>4. /\ Row(status, complete, mem[w].row.quota) \in Rows
          /\ Row(status, complete, mem[w].row.quota).status = status
          /\ Row(status, complete, mem[w].row.quota).quota
               = mem[w].row.quota
      BY <3>2, <3>3, RowType
    <3>5. /\ mem'[w].from = mem[w].from
          /\ mem'[w].row.status = status
          /\ mem'[w].row.quota = mem[w].row.quota
      BY <1>0, <2>2, <3>4, MemWithRow
    <3> QED
      BY <1>1, <1>3, <1>4, <3>1, <3>2, <3>5 DEF CopyInv
  <2> QED
    BY <2>1, <2>2 DEF Ask
<1>6. ~Billing(w) /\ row.status # "absent"
  BY <1>0, <1>1 DEF Billing, IInv, Phases
<1> QED
  BY <1>0, <1>1, <1>2, <1>5, <1>6, Aside

(* The row is written, by the one worker that still found what it had read. *)
LEMMA Written ==
  ASSUME IInv, NEW w \in Worker, pc[w] = "save", Matches(w),
         row' = mem[w].row, UNCHANGED <<submit, quota, charged, token>>,
         hit \subseteq hit', hit' \subseteq hit \cup {"save"},
         \A v \in Worker \ {w} :
           pc'[v] = pc[v] /\ mem'[v] = mem[v] /\ bill'[v] = bill[v],
         pc'[w] \in {"idle", "fund"},
         pc'[w] = "fund" =>
           /\ mem'[w] = mem[w]
           /\ row'.status \in Final
           /\ bill'[w] # mem[w].row.quota
           /\ bill'[w] \in IF row'.status = "FAILURE" THEN {0}
                           ELSE Actuals \ {0},
         pc'[w] = "idle" =>
           \/ "save" \in hit'
           \/ row'.status = "FAILURE" => mem[w].row.quota = 0,
         TypeOK'
  PROVE  IInv'
<1>1. /\ row.status \in Unfinished
      /\ row'.status \in Unfinished \cup Final
      /\ \/ mem[w].row.quota = row.quota
         \/ Legacy /\ mem[w].row = Row("FAILURE", TRUE, 0)
  BY DEF IInv, CopyInv, Matches
<1>2. row.quota = quota /\ Agreed
  BY <1>1 DEF IInv, Open
<1>3. \/ row'.quota = quota
      \/ Legacy /\ row'.quota = 0 /\ row'.status = "FAILURE"
  BY <1>1, <1>2 DEF Row
<1>4. submit = "over" /\ row'.status # "absent"
  BY <1>1, Distinct DEF IInv, Phases
<1>5. \A v \in Worker : ~Billing(v)
  BY <1>1, NoBiller, Distinct
<1>6. \A v \in Worker \ {w} : ~Billing(v)'
  BY <1>5 DEF Billing
<1>7. Agreed' /\ quota \in Nat
  BY <1>2 DEF Agreed, IInv, TypeOK
<1>8. Phases'
  BY <1>4 DEF Phases
<1>9. Open'
  BY <1>3, <1>7, Distinct DEF Open, Unfinished
<1>10. ASSUME NEW v \in Worker PROVE CopyInv(v)'
  <2>1. CASE v = w
    BY <2>1 DEF CopyInv
  <2>2. CASE v # w
    <3>1. row'.status \in Unfinished => row'.quota = row.quota
      BY <1>2, <1>3 DEF Unfinished
    <3> QED
      BY <1>1, <2>2, <3>1 DEF IInv, CopyInv
  <2> QED
    BY <2>1, <2>2
<1>11. pc'[w] = "fund" => mem[w].row.quota = quota
  <2>1. ASSUME pc'[w] = "fund", row'.quota = 0, row'.status = "FAILURE"
        PROVE  FALSE
    BY <2>1
  <2> QED
    BY <1>3, <2>1
<1>12. ASSUME NEW v \in Worker PROVE BillInv(v)'
  <2>1. CASE v # w
    BY <1>6, <2>1 DEF BillInv
  <2>2. CASE v = w /\ pc'[w] = "fund"
    BY <1>6, <1>7, <1>11, <2>2 DEF BillInv, Agreed
  <2>3. CASE v = w /\ pc'[w] = "idle"
    BY <2>3 DEF BillInv, Billing
  <2> QED
    BY <2>1, <2>2, <2>3
<1>13. RefundedOnce'
  BY <1>7 DEF RefundedOnce, Agreed
<1>14. Quiet' => pc'[w] = "idle"
  BY DEF Quiet, Billing
<1>15. FailureIsRefunded'
  <2>1. SUFFICES ASSUME row'.status = "FAILURE", Quiet',
                        hit' \subseteq {"none"}, ~Legacy
                 PROVE  charged' = 0 /\ token' = 0
    BY DEF FailureIsRefunded
  <2>2. mem[w].row.quota = 0
    BY <1>14, <2>1
  <2> QED
    BY <1>3, <1>7, <2>1, <2>2 DEF Agreed
<1>16. SuccessIsPaid' /\ MarkerIsRight'
  BY <1>3, <1>7 DEF SuccessIsPaid, MarkerIsRight, Agreed
<1> QED
  BY <1>8, <1>9, <1>10, <1>12, <1>13, <1>15, <1>16 DEF IInv, Verdict

LEMMA SaveInv ==
  ASSUME IInv, NEW w \in Poller, Save(w)
  PROVE  IInv'
<1>0. TypeOK /\ TypeOK' /\ w \in Worker
  BY PollType DEF IInv, Poll, Worker
<1>1. pc[w] = "save" /\ UNCHANGED <<submit, quota, charged, token>>
  BY DEF Save, books
<1>2. /\ mem[w].row.status \in Unfinished \cup Final
      /\ ~Billing(w) /\ row.status # "absent"
  BY <1>0, <1>1 DEF IInv, CopyInv, Billing, Phases
<1>3. CASE Matches(w) /\ row' = mem[w].row /\ StartBilling(w) /\ NoFault
  <2>1. hit' = hit
    BY <1>3 DEF NoFault, bounds
  <2>2. ASSUME Leave(w),
               mem[w].row.status = "FAILURE" => mem[w].row.quota = 0
        PROVE  IInv'
    BY <1>0, <1>1, <1>3, <2>1, <2>2, LeaveType, Written
  <2>3. ASSUME NEW q \in Nat, Charge(w, q), q # mem[w].row.quota,
               mem[w].row.status \in Final,
               q \in IF mem[w].row.status = "FAILURE" THEN {0}
                     ELSE Actuals \ {0}
        PROVE  IInv'
    BY <1>0, <1>1, <1>3, <2>1, <2>3, ChargeType, Written
  <2> QED
    BY <1>0, <1>3, <2>2, <2>3, StartBillingCases
<1>4. CASE ~Matches(w) /\ UNCHANGED row /\ Leave(w) /\ NoFault
  <2>1. hit' = hit
    BY <1>4 DEF NoFault, bounds
  <2>2. pc'[w] = "idle" /\ CopyInv(w)'
    BY <1>0, <1>4, LeaveType DEF CopyInv
  <2> QED
    BY <1>0, <1>1, <1>2, <1>4, <2>1, <2>2, LeaveType, Aside
<1>5. ASSUME row' \in IF Matches(w) THEN {row, mem[w].row} ELSE {row},
             Leave(w),
             Fault(IF row' = row THEN "none" ELSE "save")
      PROVE  IInv'
  <2>1. pc'[w] = "idle" /\ CopyInv(w)'
    BY <1>0, <1>5, LeaveType DEF CopyInv
  <2>2. hit' = hit \cup {IF row' = row THEN "none" ELSE "save"}
    BY <1>5 DEF Fault
  <2>3. CASE row' = row
    BY <1>0, <1>1, <1>2, <1>5, <2>1, <2>2, <2>3, LeaveType, Aside
  <2>4. CASE row' # row
    <3>1. Matches(w) /\ row' = mem[w].row
      BY <1>5, <2>4
    <3>2. /\ "save" \in hit' /\ hit \subseteq hit'
          /\ hit' \subseteq hit \cup {"save"}
      BY <2>2, <2>4
    <3> QED
      BY <1>0, <1>1, <1>5, <2>1, <3>1, <3>2, LeaveType, Written
  <2> QED
    BY <2>3, <2>4
<1> QED
  BY <1>3, <1>4, <1>5 DEF Save
-----------------------------------------------------------------------------
(* Where the books are when w is about to make one of the steps of its bill. *)
LEMMA BillerFacts ==
  ASSUME IInv, NEW w \in Worker, Billing(w)
  PROVE  /\ row.status \in Final /\ row.status # "absent"
         /\ row.quota = quota /\ mem[w].row.quota = quota
         /\ Delta(w) = bill[w] - quota
         /\ bill[w] \in Nat /\ quota \in Nat /\ charged \in Int /\ token \in Int
         /\ row.status = "FAILURE" => bill[w] = 0
         /\ row.status = "SUCCESS" => bill[w] \in Actuals \ {0}
         /\ "settle" \notin hit =>
              charged = IF pc[w] = "fund" THEN quota ELSE bill[w]
         /\ hit \cap {"settle", "token"} = {} =>
              token = IF pc[w] = "mark" THEN bill[w] ELSE quota
         /\ \A v \in Worker : Billing(v) => v = w
<1>1. TypeOK /\ BillInv(w)
  BY DEF IInv
<1> QED
  BY <1>1, Types, Distinct DEF BillInv, Delta

(* A row being billed is not at rest. *)
LEMMA VerdictWhileBilling ==
  ASSUME NEW w \in Worker, Billing(w)', RefundedOnce'
  PROVE  Verdict'
<1>1. ~Quiet'
  BY DEF Quiet
<1> QED
  BY <1>1 DEF Verdict, FailureIsRefunded, SuccessIsPaid, MarkerIsRight

LEMMA AdjustFundingInv ==
  ASSUME IInv, NEW w \in Poller, AdjustFunding(w)
  PROVE  IInv'
<1>0. TypeOK /\ TypeOK' /\ w \in Worker
  BY PollType DEF IInv, Poll, Worker
<1>1. pc[w] = "fund" /\ Billing(w) /\ UNCHANGED <<submit, quota, row, token>>
  BY DEF AdjustFunding, Billing
<1>2. CASE charged' = charged + Delta(w) /\ Goto(w, "token")
           /\ UNCHANGED <<mem, bill>> /\ NoFault
  <2>1. pc'[w] = "token" /\ \A v \in Worker \ {w} : pc'[v] = pc[v]
    BY <1>0, <1>2 DEF Goto, TypeOK
  <2>2. \A v \in Worker \ {w} : ~Billing(v)'
    BY <1>0, <1>1, <2>1, BillerFacts DEF Billing
  <2>3. hit' = hit
    BY <1>2 DEF NoFault, bounds
  <2>4. "settle" \notin hit => charged' = bill[w]
    BY <1>0, <1>1, <1>2, BillerFacts
  <2>5. BillInv(w)'
    BY <1>0, <1>1, <1>2, <2>1, <2>2, <2>3, <2>4, BillerFacts
       DEF BillInv, IInv
  <2>6. RefundedOnce'
    BY <1>0, <1>1, <2>3, <2>4, BillerFacts DEF RefundedOnce
  <2>7. Verdict'
    BY <1>0, <2>1, <2>6, VerdictWhileBilling DEF Billing
  <2> QED
    BY <1>0, <1>1, <1>2, <2>1, <2>5, <2>7, BillerMoves
<1>3. CASE UNCHANGED charged /\ Leave(w) /\ Fault("fund")
  <2>1. pc'[w] = "idle" /\ hit' = hit \cup {"fund"}
    BY <1>0, <1>3, LeaveType DEF Fault
  <2>2. BillInv(w)'
    BY <2>1 DEF BillInv, Billing
  <2>3. Verdict'
    BY <1>0, <1>1, <1>3, <2>1, BillerFacts
       DEF IInv, Verdict, RefundedOnce, FailureIsRefunded, SuccessIsPaid,
           MarkerIsRight
  <2> QED
    BY <1>0, <1>1, <1>3, <2>1, <2>2, <2>3, LeaveType, BillerMoves
<1> QED
  BY <1>2, <1>3 DEF AdjustFunding

LEMMA AdjustTokenInv ==
  ASSUME IInv, NEW w \in Poller, AdjustToken(w)
  PROVE  IInv'
<1>0. TypeOK /\ TypeOK' /\ w \in Worker
  BY PollType DEF IInv, Poll, Worker
<1>1. /\ pc[w] = "token" /\ Billing(w)
      /\ UNCHANGED <<submit, quota, row, charged, mem, bill>>
  BY DEF AdjustToken, Billing
<1>2. pc'[w] = "mark" /\ \A v \in Worker \ {w} : pc'[v] = pc[v]
  BY <1>0 DEF AdjustToken, Goto, TypeOK
<1>3. \A v \in Worker \ {w} : ~Billing(v)'
  BY <1>0, <1>1, <1>2, BillerFacts DEF Billing
<1>4. hit \subseteq hit' /\ (hit' \cap {"token"} = {} =>
        token' = token + Delta(w))
  BY DEF AdjustToken, NoFault, Fault, bounds
<1>5. hit' \cap {"settle", "token"} = {} => token' = bill[w]
  <2>1. SUFFICES ASSUME hit' \cap {"settle", "token"} = {}
                 PROVE  token' = bill[w]
    OBVIOUS
  <2>2. token = quota /\ token' = token + Delta(w)
    BY <1>0, <1>1, <1>4, <2>1, BillerFacts
  <2> QED
    BY <1>0, <1>1, <2>2, BillerFacts
<1>6. BillInv(w)'
  BY <1>0, <1>1, <1>2, <1>3, <1>4, <1>5, BillerFacts DEF BillInv, IInv
<1>7. RefundedOnce'
  BY <1>1, <1>4 DEF IInv, Verdict, RefundedOnce
<1>8. Verdict'
  BY <1>0, <1>2, <1>7, VerdictWhileBilling DEF Billing
<1> QED
  BY <1>0, <1>1, <1>2, <1>6, <1>8, BillerMoves

LEMMA UpdateQuotaInv ==
  ASSUME IInv, NEW w \in Poller, UpdateQuota(w)
  PROVE  IInv'
<1>0. TypeOK /\ TypeOK' /\ w \in Worker
  BY PollType DEF IInv, Poll, Worker
<1>1. /\ pc[w] = "mark" /\ Billing(w)
      /\ UNCHANGED <<submit, quota, charged, token>>
  BY DEF UpdateQuota, Billing, books
<1>2. /\ pc'[w] = "idle"
      /\ \A v \in Worker \ {w} :
           pc'[v] = pc[v] /\ mem'[v] = mem[v] /\ bill'[v] = bill[v]
  BY <1>0, LeaveType DEF UpdateQuota
<1>3. /\ row'.status = row.status
      /\ hit \subseteq hit'
      /\ "mark" \notin hit' => row'.quota = bill[w]
  <2>1. CASE row' = [row EXCEPT !.quota = bill[w]] /\ NoFault
    BY <1>0, <2>1, Types, RowWithQuota DEF NoFault, bounds
  <2>2. CASE UNCHANGED row /\ Fault("mark")
    BY <2>2 DEF Fault
  <2> QED
    BY <2>1, <2>2 DEF UpdateQuota
<1>4. BillInv(w)'
  BY <1>2 DEF BillInv, Billing
<1>5. /\ "settle" \notin hit' => charged = bill[w]
      /\ hit' \cap {"settle", "token"} = {} => token = bill[w]
  BY <1>0, <1>1, <1>3, BillerFacts
<1>6. RefundedOnce' /\ MarkerIsRight'
  BY <1>0, <1>1, <1>3, <1>5, BillerFacts DEF RefundedOnce, MarkerIsRight
<1>7. FailureIsRefunded' /\ SuccessIsPaid'
  BY <1>0, <1>1, <1>3, <1>5, BillerFacts DEF FailureIsRefunded, SuccessIsPaid
<1> QED
  BY <1>0, <1>1, <1>2, <1>3, <1>4, <1>6, <1>7, BillerMoves DEF Verdict

LEMMA CrashInv ==
  ASSUME IInv, NEW w \in Poller, Crash(w)
  PROVE  IInv'
<1>0. TypeOK /\ TypeOK' /\ w \in Worker
  BY CrashType DEF IInv, Worker
<1>1. UNCHANGED <<submit, quota, row, charged, token>>
  BY DEF Crash, books
<1>2. /\ pc'[w] = "idle"
      /\ \A v \in Worker \ {w} :
           pc'[v] = pc[v] /\ mem'[v] = mem[v] /\ bill'[v] = bill[v]
  BY <1>0, LeaveType DEF Crash
<1>3. hit' = hit \cup Lost(pc[w])
  BY DEF Crash, Lost
<1>4. CopyInv(w)' /\ BillInv(w)'
  BY <1>2 DEF CopyInv, BillInv, Billing
<1>5. CASE ~Billing(w)
  BY <1>0, <1>1, <1>2, <1>3, <1>4, <1>5, Aside
<1>6. CASE Billing(w)
  <2>1. CASE pc[w] = "fund"
    <3>1. hit' = hit \cup {"fund"}
      BY <1>3, <2>1 DEF Lost
    <3>2. Verdict'
      BY <1>0, <1>1, <1>6, <2>1, <3>1, BillerFacts
         DEF IInv, Verdict, RefundedOnce, FailureIsRefunded, SuccessIsPaid,
             MarkerIsRight
    <3> QED
      BY <1>0, <1>1, <1>2, <1>4, <1>6, <3>2, BillerMoves
  <2>2. CASE pc[w] # "fund"
    <3>1. hit \subseteq hit' /\ "mark" \in hit'
      BY <1>3, <1>6, <2>2 DEF Lost, Billing
    <3>2. Verdict'
      BY <1>1, <3>1
         DEF IInv, Verdict, RefundedOnce, FailureIsRefunded, SuccessIsPaid,
             MarkerIsRight
    <3> QED
      BY <1>0, <1>1, <1>2, <1>4, <1>6, <3>2, BillerMoves
  <2> QED
    BY <2>1, <2>2
<1> QED
  BY <1>5, <1>6
-----------------------------------------------------------------------------
LEMMA StepInv ==
  ASSUME Polled, IInv, [Next]_vars
  PROVE  IInv'
<1>1. ASSUME NEW w \in Poller, Poll(w) PROVE IInv'
  <2>1. ~ChannelGone(w)
    BY DEF Polled, ChannelGone
  <2> QED
    BY <1>1, <2>1, FindInv, AskInv, SaveInv, AdjustFundingInv, AdjustTokenInv,
       UpdateQuotaInv DEF Poll
<1> QED
  BY <1>1, SubmissionInv, OutsideInv, CrashInv DEF Next, Polled

(* The books follow the row: IInv holds of every task that no real-time     *)
(* query touches, whatever the pollers do.                                  *)
THEOREM Invariance ==
  ASSUME Polled
  PROVE  Spec => []IInv
<1>1. IInv /\ [Next]_vars => IInv'
  BY StepInv
<1> QED
  BY <1>1, InitInv, PTL DEF Spec

(* A task is not refunded twice, however passes and sweeps overlap.         *)
THEOREM RefundsOnce ==
  ASSUME Polled
  PROVE  Spec => []RefundedOnce
<1>1. IInv => RefundedOnce
  BY DEF IInv, Verdict
<1> QED
  BY <1>1, Invariance, PTL

(* A task that failed is refunded, unless a step of the refund went wrong.  *)
THEOREM FailuresAreRefunded ==
  ASSUME Polled
  PROVE  Spec => []FailureIsRefunded
<1>1. IInv => FailureIsRefunded
  BY DEF IInv, Verdict
<1> QED
  BY <1>1, Invariance, PTL

(* A task that succeeded is paid for, at the quota submitted or the actual. *)
THEOREM SuccessesArePaid ==
  ASSUME Polled
  PROVE  Spec => []SuccessIsPaid
<1>1. IInv => SuccessIsPaid
  BY DEF IInv, Verdict
<1> QED
  BY <1>1, Invariance, PTL

(* The quota column tells what is still charged, also after a crash between *)
(* the verdict and the refund.                                              *)
THEOREM MarkersAreRight ==
  ASSUME Polled
  PROVE  Spec => []MarkerIsRight
<1>1. IInv => MarkerIsRight
  BY DEF IInv, Verdict
<1> QED
  BY <1>1, Invariance, PTL

LEMMA FinalStep ==
  ASSUME Polled, IInv, [Next]_vars, row.status \in Final
  PROVE  row'.status = row.status
<1>1. row.status # "absent" /\ row.status \notin Unfinished
  BY Distinct
<1>2. submit = "over"
  BY <1>1 DEF IInv, Phases
<1>3. ASSUME NEW w \in Poller, Poll(w) PROVE row'.status = row.status
  <2>1. w \in Worker
    BY DEF Worker
  <2>2. CASE Save(w)
    <3>1. ~Matches(w)
      BY <1>1, <2>1, <2>2 DEF Save, Matches, IInv, CopyInv
    <3> QED
      BY <2>2, <3>1 DEF Save
  <2>3. CASE UpdateQuota(w)
    <3>1. row \in Rows /\ bill[w] \in Nat
      BY <2>1, Types DEF IInv
    <3>2. [row EXCEPT !.quota = bill[w]].status = row.status
      BY <3>1, RowWithQuota
    <3> QED
      BY <2>3, <3>2 DEF UpdateQuota
  <2>4. CASE ~Save(w) /\ ~UpdateQuota(w)
    BY <1>3, <2>4 DEF Poll, Polled, FindTimedOut, FindUnfinished, ChannelGone,
                      Ask, AdjustFunding, AdjustToken
  <2> QED
    BY <2>2, <2>3, <2>4
<1>4. CASE Submission
  BY <1>2, <1>4 DEF Submission, PreConsume, SubmitFails, Settle, Insert
<1>5. CASE UpstreamEnds \/ TimePasses \/ UNCHANGED vars
  BY <1>5 DEF UpstreamEnds, TimePasses, vars
<1>6. CASE \E w \in Poller : Crash(w)
  BY <1>6 DEF Crash
<1> QED
  BY <1>3, <1>4, <1>5, <1>6 DEF Next, Polled

(* A final status is not overwritten by a pass or a sweep that read the row *)
(* before.                                                                  *)
THEOREM FinalStatusStands ==
  ASSUME Polled
  PROVE  Spec => FinalStands
<1>1. IInv /\ [Next]_vars =>
        [row.status \in Final => row'.status = row.status]_vars
  BY FinalStep
<1> QED
  BY <1>1, Invariance, PTL DEF Spec, FinalStands
-----------------------------------------------------------------------------
(***************************************************************************)
(* Queries and lost channels.  They change the status without billing, and *)
(* IInv is lost: a failure they write is not refunded, and their copies    *)
(* overwrite the marker.  What stays, as long as no query puts a task that *)
(* has ended back in progress, is that the row leaves an unfinished status *)
(* once, and that whoever bills does it alone and from the quota that was  *)
(* submitted, whatever the row says by then.                               *)
(***************************************************************************)

(* A copy of an unfinished row has the quota of the submission, but for the *)
(* sweep of a task of the old system; the passes only have such copies.     *)
HolderInv(w) ==
  /\ pc[w] # "idle" =>
       /\ mem[w].row.status # "absent"
       /\ mem[w].from \in Unfinished =>
            \/ mem[w].row.quota = quota
            \/ Legacy /\ pc[w] = "save" /\ mem[w].row = Row("FAILURE", TRUE, 0)
  /\ pc[w] \in {"ask", "save"} \/ Billing(w) => mem[w].from \in Unfinished

(* BillInv, but for the row. *)
ChargeInv(w) ==
  Billing(w) =>
    /\ row.status \in Final
    /\ bill[w] \in {0} \cup Actuals
    /\ \A v \in Worker : Billing(v) => v = w
    /\ "settle" \notin hit =>
         charged = IF pc[w] = "fund" THEN quota ELSE bill[w]
    /\ hit \cap {"settle", "token"} = {} =>
         token = IF pc[w] = "mark" THEN bill[w] ELSE quota

(* While nobody bills the books agree, at a price the task may have. *)
Resting ==
  submit = "over" /\ (\A w \in Worker : ~Billing(w)) =>
    /\ "settle" \notin hit => charged \in {0, quota} \cup Actuals
    /\ hit \cap {"settle", "token"} = {} => token = charged

Sound ==
  /\ Phases
  /\ Open
  /\ \A w \in Worker : HolderInv(w) /\ ChargeInv(w)
  /\ Resting

SInv == TypeOK /\ ("reopen" \notin hit => Sound)

LEMMA NotBilling ==
  ASSUME NEW w \in Worker
  PROVE  ~Billing(w)' <=> pc'[w] \notin {"fund", "token", "mark"}
BY DEF Billing

(* A step of one worker that does not bill: it may write the row, but not   *)
(* into an unfinished status it did not have, nor another quota there.      *)
LEMMA Held ==
  ASSUME TypeOK', Sound, NEW w \in Worker,
         UNCHANGED <<submit, quota, charged, token>>,
         hit \subseteq hit',
         \A v \in Worker \ {w} :
           pc'[v] = pc[v] /\ mem'[v] = mem[v] /\ bill'[v] = bill[v],
         ~Billing(w), pc'[w] \notin {"fund", "token", "mark"},
         row.status # "absent",
         \/ row' = row
         \/ /\ row'.status # "absent"
            /\ row'.status \in Unfinished =>
                 row.status \in Unfinished /\ row'.quota = quota,
         HolderInv(w)'
  PROVE  Sound'
<1>1. submit = "over" /\ row'.status # "absent"
  BY DEF Sound, Phases
<1>2. Phases'
  BY <1>1 DEF Phases
<1>3. Open'
  BY DEF Sound, Open, Agreed
<1>4. \A v \in Worker : Billing(v)' <=> Billing(v)
  BY DEF Billing
<1>5. ASSUME NEW v \in Worker PROVE HolderInv(v)'
  <2>1. CASE v # w
    BY <1>4, <2>1 DEF Sound, HolderInv
  <2> QED
    BY <2>1
<1>6. ASSUME NEW v \in Worker, Billing(v) PROVE row'.status \in Final
  <2>1. row.status \in Final
    BY <1>6 DEF Sound, ChargeInv
  <2>2. row'.status \notin Unfinished
    BY <2>1, Distinct
  <2>3. row'.status \in Unfinished \cup Final \cup {"absent"}
    BY DEF TypeOK, Rows
  <2> QED
    BY <1>1, <2>2, <2>3
<1>7. ASSUME NEW v \in Worker PROVE ChargeInv(v)'
  <2>1. CASE v = w
    BY <1>4, <2>1 DEF ChargeInv
  <2>2. CASE v # w
    BY <1>4, <1>6, <2>2 DEF Sound, ChargeInv
  <2> QED
    BY <2>1, <2>2
<1>8. Resting'
  BY <1>1, <1>4 DEF Sound, Resting
<1> QED
  BY <1>2, <1>3, <1>5, <1>7, <1>8 DEF Sound

(* A step of the one worker that bills. *)
LEMMA BillerAlone ==
  ASSUME Sound, NEW w \in Worker, Billing(w),
         UNCHANGED <<submit, quota>>,
         row'.status = row.status,
         \A v \in Worker \ {w} :
           pc'[v] = pc[v] /\ mem'[v] = mem[v] /\ bill'[v] = bill[v],
         \/ pc'[w] = "idle"
         \/ pc'[w] \in {"token", "mark"} /\ UNCHANGED <<mem, bill>>,
         ChargeInv(w)', Resting'
  PROVE  Sound'
<1>1. row.status \in Final /\ row.status \notin {"absent"} \cup Unfinished
  BY Distinct DEF Sound, ChargeInv
<1>2. submit = "over"
  BY <1>1 DEF Sound, Phases
<1>3. Phases' /\ Open'
  BY <1>1, <1>2 DEF Phases, Open
<1>4. ASSUME NEW v \in Worker PROVE HolderInv(v)'
  <2>1. CASE v = w
    <3>1. mem[w].row.quota = quota
      BY DEF Sound, HolderInv, Billing
    <3> QED
      BY <2>1, <3>1 DEF Sound, HolderInv, Billing
  <2>2. CASE v # w
    BY <2>2 DEF Sound, HolderInv, Billing
  <2> QED
    BY <2>1, <2>2
<1>5. ASSUME NEW v \in Worker PROVE ChargeInv(v)'
  <2>1. CASE v # w
    <3>1. ~Billing(v)
      BY <2>1 DEF Sound, ChargeInv
    <3>2. ~Billing(v)'
      BY <2>1, <3>1 DEF Billing
    <3> QED
      BY <3>2 DEF ChargeInv
  <2> QED
    BY <2>1
<1> QED
  BY <1>3, <1>4, <1>5 DEF Sound
-----------------------------------------------------------------------------
LEMMA InitSound == Init => SInv
<1> SUFFICES ASSUME Init PROVE SInv
  OBVIOUS
<1>1. IInv
  BY InitInv
<1>2. \A w \in Worker : HolderInv(w) /\ ChargeInv(w)
  BY DEF Init, HolderInv, ChargeInv, Billing
<1>3. Resting
  BY DEF Init, Resting
<1> QED
  BY <1>1, <1>2, <1>3 DEF IInv, SInv, Sound

LEMMA SubmissionSound ==
  ASSUME TypeOK, Sound, Submission
  PROVE  Sound'
<1>1. row.status = "absent" /\ charged >= 0 /\ \A w \in Worker : pc[w] = "idle"
  BY DEF Sound, Phases, Submission, PreConsume, SubmitFails, Settle, Insert
<1>2. UNCHANGED <<pc, mem, bill>>
  BY DEF Submission, PreConsume, SubmitFails, Settle, Insert, work
<1>3. \A w \in Worker : HolderInv(w)' /\ ChargeInv(w)'
  BY <1>1, <1>2 DEF HolderInv, ChargeInv, Billing
<1>4. quota \in Nat /\ charged \in Int /\ quota' \in Nat
  BY SubmissionType DEF TypeOK
<1>5. CASE PreConsume
  <2>1. charged' >= 0
    BY <1>5, TaskBillingConstants DEF PreConsume
  <2> QED
    BY <1>1, <1>2, <1>3, <1>5, <2>1, Distinct
       DEF PreConsume, Sound, Phases, Open, Resting
<1>6. CASE SubmitFails
  BY <1>1, <1>2, <1>3, <1>6, Distinct
     DEF SubmitFails, Sound, Phases, Open, Resting
<1>7. CASE Settle
  <2>1. charged' >= 0
    BY <1>1, <1>7, TaskBillingConstants DEF Settle, books
  <2>2. Agreed'
    BY <1>7 DEF Settle, Agreed, Fault
  <2> QED
    BY <1>1, <1>2, <1>3, <1>7, <2>1, <2>2, Distinct
       DEF Settle, Sound, Phases, Open, Resting
<1>8. CASE Insert
  <2>1. /\ UNCHANGED <<quota, charged, token>> /\ submit' = "over"
        /\ Agreed /\ hit \subseteq hit'
    BY <1>8 DEF Insert, books, Sound, Phases, NoFault, Fault, bounds
  <2>2. Agreed' /\ Resting'
    BY <2>1 DEF Agreed, Resting
  <2>3. row' = row \/ row' = Row("NOT_START", FALSE, quota)
    BY <1>8 DEF Insert
  <2>4. Phases' /\ Open'
    BY <1>1, <1>2, <2>1, <2>2, <2>3, Distinct DEF Phases, Open, Row
  <2> QED
    BY <1>3, <2>2, <2>4 DEF Sound
<1> QED
  BY <1>5, <1>6, <1>7, <1>8 DEF Submission

LEMMA OutsideSound ==
  ASSUME Sound, UpstreamEnds \/ TimePasses \/ UNCHANGED vars
  PROVE  Sound'
<1>1. UNCHANGED <<submit, quota, row, charged, token, pc, mem, bill, hit>>
  BY DEF UpstreamEnds, TimePasses, vars, books, work, bounds
<1> QED
  BY <1>1 DEF Sound, Phases, Open, Agreed, HolderInv, ChargeInv, Billing,
     Resting

LEMMA FindSound ==
  ASSUME TypeOK, TypeOK', Sound, NEW w \in Worker,
         FindTimedOut(w) \/ FindUnfinished(w)
  PROVE  Sound'
<1>1. /\ pc[w] = "idle" /\ row.status \in Unfinished
      /\ UNCHANGED <<submit, quota, row, charged, token, bill, hit>>
  BY DEF FindTimedOut, FindUnfinished, IsUnfinished, books, bounds
<1>2. \A v \in Worker \ {w} : pc'[v] = pc[v] /\ mem'[v] = mem[v]
  BY DEF FindTimedOut, FindUnfinished, Goto, TypeOK
<1>3. row.quota = quota /\ row.status # "absent"
  BY <1>1, Distinct DEF Sound, Open
<1>4. pc'[w] \in {"ask", "save"} /\ HolderInv(w)'
  <2>1. CASE FindTimedOut(w)
    <3>1. pc'[w] = "save"
      BY <2>1 DEF FindTimedOut, Goto, TypeOK
    <3>2. mem'[w] = [from |-> row.status,
            row |-> Row("FAILURE", TRUE, IF Legacy THEN 0 ELSE row.quota)]
      BY <2>1 DEF FindTimedOut, TypeOK
    <3>3. /\ mem'[w].from = row.status
          /\ mem'[w].row =
               Row("FAILURE", TRUE, IF Legacy THEN 0 ELSE row.quota)
      BY <3>2
    <3>4. /\ mem'[w].row.status # "absent"
          /\ ~Legacy => mem'[w].row.quota = row.quota
      BY <3>3 DEF Row
    <3> QED
      BY <1>1, <1>3, <3>1, <3>3, <3>4 DEF HolderInv
  <2>2. CASE FindUnfinished(w)
    <3>1. pc'[w] = "ask"
      BY <2>2 DEF FindUnfinished, Goto, TypeOK
    <3>2. mem'[w].from = row.status /\ mem'[w].row = row
      BY <2>2 DEF FindUnfinished, TypeOK, Copy
    <3> QED
      BY <1>1, <1>3, <3>1, <3>2 DEF HolderInv
  <2> QED
    BY <2>1, <2>2
<1>5. ~Billing(w)
  BY <1>1 DEF Billing
<1> QED
  BY <1>1, <1>2, <1>3, <1>4, <1>5, Held

(* The answer of the provider goes into the copy, or the worker leaves. *)
LEMMA AnswerSound ==
  ASSUME TypeOK, TypeOK', Sound, NEW w \in Worker, Ask(w) \/ Query(w)
  PROVE  Sound'
<1>1. /\ pc[w] \in {"ask", "query"}
      /\ UNCHANGED <<submit, quota, row, charged, token, hit>>
  BY DEF Ask, Query, books, NoFault, bounds
<1>2. \A v \in Worker \ {w} :
        pc'[v] = pc[v] /\ mem'[v] = mem[v] /\ bill'[v] = bill[v]
  BY LeaveType DEF Ask, Query, Goto, TypeOK
<1>3. /\ mem[w].from \in Unfinished => mem[w].row.quota = quota
      /\ Ask(w) => mem[w].from \in Unfinished
      /\ row.status # "absent"
  BY <1>1 DEF Sound, Phases, HolderInv, Ask
<1>4. CASE Leave(w)
  <2>1. pc'[w] = "idle"
    BY <1>4 DEF Leave, Goto, TypeOK
  <2>2. HolderInv(w)' /\ ~Billing(w)
    BY <1>1, <2>1 DEF HolderInv, Billing
  <2> QED
    BY <1>1, <1>2, <1>3, <2>1, <2>2, Held
<1>5. ASSUME NEW status \in {upstream, "FAILURE"}, NEW complete \in BOOLEAN,
             mem' = [mem EXCEPT ![w].row =
                      Row(status, complete, mem[w].row.quota)],
             \/ Ask(w) /\ Goto(w, "save")
             \/ Query(w) /\ Goto(w, "show")
      PROVE  Sound'
  <2>1. \/ Ask(w) /\ pc'[w] = "save"
        \/ pc'[w] = "show"
    BY <1>5 DEF Goto, TypeOK
  <2>2. status \in Unfinished \cup Final
    BY <1>5, Distinct DEF TypeOK, Unfinished
  <2>3. mem[w].row.quota \in Nat
    BY Types
  <2>4. /\ Row(status, complete, mem[w].row.quota) \in Rows
        /\ Row(status, complete, mem[w].row.quota).status = status
        /\ Row(status, complete, mem[w].row.quota).quota
             = mem[w].row.quota
    BY <2>2, <2>3, RowType
  <2>5. /\ mem'[w].from = mem[w].from
        /\ mem'[w].row.status = status
        /\ mem'[w].row.quota = mem[w].row.quota
    BY <1>5, <2>4, MemWithRow
  <2>6. HolderInv(w)'
    BY <1>1, <1>3, <2>1, <2>2, <2>5, Distinct DEF HolderInv, Billing
  <2>7. ~Billing(w)
    BY <1>1 DEF Billing
  <2> QED
    BY <1>1, <1>2, <1>3, <2>1, <2>6, <2>7, Held
<1>6. CASE Ask(w)
  BY <1>4, <1>5, <1>6 DEF Ask
<1>7. CASE Query(w)
  <2>1. ASSUME NEW status \in {upstream, "FAILURE"},
               mem' = [mem EXCEPT ![w].row =
                        Row(status, status \in Final, mem[w].row.quota)],
               Goto(w, "show")
        PROVE  Sound'
    <3> DEFINE complete == status \in Final
    <3>1. complete \in BOOLEAN
      OBVIOUS
    <3>2. mem' = [mem EXCEPT ![w].row = Row(status, complete, mem[w].row.quota)]
      BY <2>1
    <3> HIDE DEF complete
    <3> QED
      BY <1>5, <1>7, <2>1, <3>1, <3>2
  <2> QED
    BY <1>4, <1>7, <2>1 DEF Query
<1> QED
  BY <1>6, <1>7
(* The channel is lost, or a query reads the row: nothing is billed. *)
LEMMA ChannelGoneSound ==
  ASSUME TypeOK, TypeOK', Sound, NEW w \in Worker, ChannelGone(w)
  PROVE  Sound'
<1>1. /\ pc[w] = "ask"
      /\ UNCHANGED <<submit, quota, charged, token, hit>>
  BY DEF ChannelGone, books, NoFault, bounds
<1>2. /\ pc'[w] = "idle"
      /\ \A v \in Worker \ {w} :
           pc'[v] = pc[v] /\ mem'[v] = mem[v] /\ bill'[v] = bill[v]
  BY LeaveType DEF ChannelGone
<1>3. row.status # "absent" /\ ~Billing(w) /\ HolderInv(w)'
  BY <1>1, <1>2 DEF Sound, Phases, Billing, HolderInv
<1>4. row'.status = "FAILURE"
  BY DEF ChannelGone, TypeOK, Rows
<1> QED
  BY <1>1, <1>2, <1>3, <1>4, Distinct, Held

LEMMA ReadRowSound ==
  ASSUME TypeOK, TypeOK', Sound, NEW w \in Worker, ReadRow(w)
  PROVE  Sound'
<1>1. /\ pc[w] = "idle" /\ row.status # "absent"
      /\ UNCHANGED <<submit, quota, row, charged, token, bill, hit>>
  BY DEF ReadRow, books
<1>2. /\ pc'[w] = "query" /\ mem'[w].from = row.status /\ mem'[w].row = row
      /\ \A v \in Worker \ {w} : pc'[v] = pc[v] /\ mem'[v] = mem[v]
  BY DEF ReadRow, Goto, TypeOK, Copy
<1>3. ~Billing(w) /\ HolderInv(w)'
  BY <1>1, <1>2 DEF Billing, HolderInv, Sound, Open
<1> QED
  BY <1>1, <1>2, <1>3, Held

(* Here alone a task may be put back in progress. *)
LEMMA ShowSound ==
  ASSUME TypeOK, TypeOK', Sound, NEW w \in Worker, Show(w),
         "reopen" \notin hit'
  PROVE  Sound'
<1>1. /\ pc[w] = "show" /\ hit \subseteq hit'
      /\ UNCHANGED <<submit, quota, charged, token>>
  BY DEF Show, books, NoFault, NoteReopening, Fault, bounds
<1>2. /\ pc'[w] = "idle"
      /\ \A v \in Worker \ {w} :
           pc'[v] = pc[v] /\ mem'[v] = mem[v] /\ bill'[v] = bill[v]
  BY LeaveType DEF Show
<1>3. /\ row.status # "absent" /\ ~Billing(w) /\ HolderInv(w)'
      /\ mem[w].row.status # "absent"
      /\ mem[w].from \in Unfinished => mem[w].row.quota = quota
  BY <1>1, <1>2 DEF Sound, Phases, Billing, HolderInv
<1>4. CASE Matches(w) /\ row' = mem[w].row /\ NoteReopening
  <2>1. row'.status \in Unfinished => row.status \notin Final
    BY <1>4 DEF NoteReopening
  <2>2. row'.status \in Unfinished => row.status \in Unfinished
    BY <1>3, <2>1, Types
  <2> QED
    BY <1>1, <1>2, <1>3, <1>4, <2>2, Held DEF Matches
<1>5. CASE UNCHANGED row
  BY <1>1, <1>2, <1>3, <1>5, Held
<1> QED
  BY <1>4, <1>5 DEF Show

LEMMA SaveSound ==
  ASSUME TypeOK, TypeOK', Sound, NEW w \in Worker, Save(w)
  PROVE  Sound'
<1>1. /\ pc[w] = "save" /\ hit \subseteq hit'
      /\ UNCHANGED <<submit, quota, charged, token>>
  BY DEF Save, books, NoFault, Fault, bounds
<1>2. /\ row.status # "absent" /\ submit = "over" /\ ~Billing(w)
      /\ mem[w].from \in Unfinished /\ mem[w].row.status # "absent"
      /\ \/ mem[w].row.quota = quota
         \/ Legacy /\ mem[w].row = Row("FAILURE", TRUE, 0)
  BY <1>1 DEF Sound, Phases, Billing, HolderInv
<1>3. /\ mem[w].row.status \in Unfinished => mem[w].row.quota = quota
      /\ Row("FAILURE", TRUE, 0).status = "FAILURE"
      /\ Row("FAILURE", TRUE, 0).quota = 0
  BY <1>2, Distinct DEF Row
<1>4. ASSUME Matches(w), row' = mem[w].row, Leave(w)
      PROVE  Sound'
  <2>1. row.status \in Unfinished
    BY <1>2, <1>4 DEF Matches
  <2>2. pc'[w] = "idle" /\ HolderInv(w)'
    BY <1>4, LeaveType DEF HolderInv, Billing
  <2> QED
    BY <1>1, <1>2, <1>3, <1>4, <2>1, <2>2, LeaveType, Held
<1>5. ASSUME row' = row, Leave(w)
      PROVE  Sound'
  <2>1. pc'[w] = "idle" /\ HolderInv(w)'
    BY <1>5, LeaveType DEF HolderInv, Billing
  <2> QED
    BY <1>1, <1>2, <1>5, <2>1, LeaveType, Held
<1>6. ASSUME Matches(w), row' = mem[w].row, NoFault, NEW q \in Nat,
             Charge(w, q), q # mem[w].row.quota, mem[w].row.status \in Final,
             q \in IF mem[w].row.status = "FAILURE" THEN {0}
                   ELSE Actuals \ {0}
      PROVE  Sound'
  <2>1. /\ pc'[w] = "fund" /\ bill'[w] = q /\ UNCHANGED mem
        /\ \A v \in Worker \ {w} : pc'[v] = pc[v] /\ bill'[v] = bill[v]
    BY <1>6, ChargeType
  <2>2. row'.status \in Final /\ q \in {0} \cup Actuals
    BY <1>6
  <2>3. mem[w].row.quota = quota
    BY <1>2, <1>3, <1>6
  <2>4. row.status \in Unfinished
    BY <1>2, <1>6 DEF Matches
  <2>5. Agreed /\ hit' = hit
    BY <1>6, <2>4 DEF Sound, Open, NoFault, bounds
  <2>6. \A v \in Worker : ~Billing(v)
    BY <2>4, Distinct DEF Sound, ChargeInv
  <2>7. \A v \in Worker \ {w} : ~Billing(v)'
    BY <2>1, <2>6 DEF Billing
  <2>8. Phases' /\ Open'
    BY <1>1, <1>2, <2>2, Distinct DEF Phases, Open
  <2>9. ASSUME NEW v \in Worker PROVE HolderInv(v)'
    <3>1. CASE v = w
      BY <1>1, <1>2, <2>1, <2>3, <3>1 DEF HolderInv
    <3>2. CASE v # w
      BY <1>1, <2>1, <3>2 DEF Sound, HolderInv, Billing
    <3> QED
      BY <3>1, <3>2
  <2>10. ASSUME NEW v \in Worker PROVE ChargeInv(v)'
    <3>1. CASE v = w
      BY <1>1, <2>1, <2>2, <2>5, <2>7, <3>1 DEF ChargeInv, Agreed
    <3>2. CASE v # w
      BY <2>7, <3>2 DEF ChargeInv
    <3> QED
      BY <3>1, <3>2
  <2>11. Resting'
    BY <2>1 DEF Resting, Billing
  <2> QED
    BY <2>8, <2>9, <2>10, <2>11 DEF Sound
<1>7. CASE Matches(w) /\ row' = mem[w].row /\ StartBilling(w) /\ NoFault
  BY <1>4, <1>6, <1>7, StartBillingCases
<1>8. CASE ~Matches(w) /\ UNCHANGED row /\ Leave(w) /\ NoFault
  BY <1>5, <1>8
<1>9. CASE row' \in (IF Matches(w) THEN {row, mem[w].row} ELSE {row})
           /\ Leave(w)
  BY <1>4, <1>5, <1>9
<1> QED
  BY <1>7, <1>8, <1>9 DEF Save
-----------------------------------------------------------------------------
(* Where the books are when w is about to make one of the steps of its bill. *)
LEMMA ChargeFacts ==
  ASSUME TypeOK, Sound, NEW w \in Worker, Billing(w)
  PROVE  /\ row.status \in Final /\ submit = "over"
         /\ Delta(w) = bill[w] - quota
         /\ bill[w] \in {0} \cup Actuals
         /\ bill[w] \in Nat /\ quota \in Nat /\ charged \in Int /\ token \in Int
         /\ "settle" \notin hit =>
              charged = IF pc[w] = "fund" THEN quota ELSE bill[w]
         /\ hit \cap {"settle", "token"} = {} =>
              token = IF pc[w] = "mark" THEN bill[w] ELSE quota
         /\ \A v \in Worker : Billing(v) => v = w
<1>1. ChargeInv(w) /\ HolderInv(w) /\ Phases
  BY DEF Sound
<1>2. mem[w].row.quota = quota
  BY <1>1 DEF HolderInv, Billing
<1> QED
  BY <1>1, <1>2, Types, Distinct DEF ChargeInv, Delta, Phases

(* What the three steps of a bill and a crash in it have in common. *)
LEMMA BillStep ==
  ASSUME TypeOK, Sound, NEW w \in Worker, Billing(w),
         UNCHANGED <<submit, quota>>,
         row'.status = row.status, hit \subseteq hit',
         \A v \in Worker \ {w} :
           pc'[v] = pc[v] /\ mem'[v] = mem[v] /\ bill'[v] = bill[v],
         \/ pc'[w] = "idle"
         \/ pc'[w] \in {"token", "mark"} /\ UNCHANGED <<mem, bill>>,
         "settle" \notin hit' =>
           charged' \in IF pc'[w] = "idle" THEN {quota, bill[w]} ELSE {bill[w]},
         hit' \cap {"settle", "token"} = {} =>
           token' = IF pc'[w] = "idle" THEN charged'
                    ELSE IF pc'[w] = "mark" THEN bill[w] ELSE quota
  PROVE  Sound'
<1>1. \A v \in Worker \ {w} : ~Billing(v)'
  BY ChargeFacts DEF Billing
<1>2. ChargeInv(w)'
  BY <1>1, ChargeFacts DEF ChargeInv, Billing
<1>3. Resting'
  <2>1. CASE pc'[w] = "idle"
    BY <2>1, ChargeFacts DEF Resting
  <2>2. CASE pc'[w] # "idle"
    BY <2>2 DEF Resting, Billing
  <2> QED
    BY <2>1, <2>2
<1> QED
  BY <1>2, <1>3, BillerAlone

LEMMA AdjustFundingSound ==
  ASSUME TypeOK, Sound, NEW w \in Worker, AdjustFunding(w)
  PROVE  Sound'
<1>1. /\ pc[w] = "fund" /\ Billing(w) /\ hit \subseteq hit'
      /\ UNCHANGED <<submit, quota, row, token>>
  BY DEF AdjustFunding, Billing, NoFault, Fault, bounds
<1>2. CASE charged' = charged + Delta(w) /\ Goto(w, "token")
           /\ UNCHANGED <<mem, bill>>
  <2>1. pc'[w] = "token" /\ \A v \in Worker \ {w} : pc'[v] = pc[v]
    BY <1>2 DEF Goto, TypeOK
  <2>2. "settle" \notin hit' => charged' = bill[w]
    BY <1>1, <1>2, ChargeFacts
  <2>3. hit' \cap {"settle", "token"} = {} => token' = quota
    BY <1>1, ChargeFacts
  <2> QED
    BY <1>1, <1>2, <2>1, <2>2, <2>3, BillStep
<1>3. CASE UNCHANGED charged /\ Leave(w)
  <2>1. pc'[w] = "idle"
    BY <1>3, LeaveType
  <2>2. "settle" \notin hit' => charged' = quota
    BY <1>1, <1>3, ChargeFacts
  <2>3. hit' \cap {"settle", "token"} = {} => token' = charged'
    BY <1>1, <2>2, ChargeFacts
  <2> QED
    BY <1>1, <1>3, <2>1, <2>2, <2>3, LeaveType, BillStep
<1> QED
  BY <1>2, <1>3 DEF AdjustFunding

LEMMA AdjustTokenSound ==
  ASSUME TypeOK, Sound, NEW w \in Worker, AdjustToken(w)
  PROVE  Sound'
<1>1. /\ pc[w] = "token" /\ Billing(w)
      /\ UNCHANGED <<submit, quota, row, charged, mem, bill>>
  BY DEF AdjustToken, Billing
<1>2. pc'[w] = "mark" /\ \A v \in Worker \ {w} : pc'[v] = pc[v]
  BY DEF AdjustToken, Goto, TypeOK
<1>3. /\ hit \subseteq hit'
      /\ hit' \cap {"token"} = {} => token' = token + Delta(w)
  BY DEF AdjustToken, NoFault, Fault, bounds
<1>4. "settle" \notin hit' => charged' = bill[w]
  BY <1>1, <1>3, ChargeFacts
<1>5. hit' \cap {"settle", "token"} = {} => token' = bill[w]
  <2>1. SUFFICES ASSUME hit' \cap {"settle", "token"} = {}
                 PROVE  token' = bill[w]
    OBVIOUS
  <2>2. token = quota /\ token' = token + Delta(w)
    BY <1>1, <1>3, <2>1, ChargeFacts
  <2> QED
    BY <1>1, <2>2, ChargeFacts
<1> QED
  BY <1>1, <1>2, <1>3, <1>4, <1>5, BillStep

LEMMA UpdateQuotaSound ==
  ASSUME TypeOK, Sound, NEW w \in Worker, UpdateQuota(w)
  PROVE  Sound'
<1>1. /\ pc[w] = "mark" /\ Billing(w) /\ hit \subseteq hit'
      /\ UNCHANGED <<submit, quota, charged, token>>
  BY DEF UpdateQuota, Billing, books, NoFault, Fault, bounds
<1>2. /\ pc'[w] = "idle"
      /\ \A v \in Worker \ {w} :
           pc'[v] = pc[v] /\ mem'[v] = mem[v] /\ bill'[v] = bill[v]
  BY LeaveType DEF UpdateQuota
<1>3. row'.status = row.status
  <2>1. CASE row' = [row EXCEPT !.quota = bill[w]]
    BY <2>1, RowWithQuota, Types
  <2> QED
    BY <2>1 DEF UpdateQuota
<1>4. /\ "settle" \notin hit' => charged' = bill[w]
      /\ hit' \cap {"settle", "token"} = {} => token' = charged'
  BY <1>1, ChargeFacts
<1> QED
  BY <1>1, <1>2, <1>3, <1>4, BillStep

LEMMA CrashSound ==
  ASSUME TypeOK, TypeOK', Sound, NEW w \in Worker, Crash(w)
  PROVE  Sound'
<1>1. /\ UNCHANGED <<submit, quota, row, charged, token>>
      /\ pc[w] # "idle" /\ hit' = hit \cup Lost(pc[w])
  BY DEF Crash, books, Lost
<1>2. /\ pc'[w] = "idle"
      /\ \A v \in Worker \ {w} :
           pc'[v] = pc[v] /\ mem'[v] = mem[v] /\ bill'[v] = bill[v]
  BY LeaveType DEF Crash
<1>3. CASE ~Billing(w)
  <2>1. row.status # "absent" /\ HolderInv(w)'
    BY <1>1, <1>2 DEF Sound, Phases, HolderInv, Billing
  <2> QED
    BY <1>1, <1>2, <1>3, <2>1, Held
<1>4. CASE Billing(w)
  <2>1. pc[w] = "token" => "token" \in hit'
    BY <1>1 DEF Lost
  <2>2. /\ "settle" \notin hit' => charged \in {quota, bill[w]}
        /\ hit' \cap {"settle", "token"} = {} => token = charged
    BY <1>1, <1>4, <2>1, ChargeFacts DEF Billing
  <2> QED
    BY <1>1, <1>2, <1>4, <2>2, BillStep
<1> QED
  BY <1>3, <1>4
-----------------------------------------------------------------------------
LEMMA StepSound ==
  ASSUME SInv, [Next]_vars
  PROVE  SInv'
<1>1. TypeOK /\ TypeOK'
  BY TypeStep DEF SInv
<1>2. hit \subseteq hit'
  BY DEF Next, Submission, PreConsume, SubmitFails, Settle, Insert,
         UpstreamEnds, TimePasses, Poll, FindTimedOut, FindUnfinished,
         ChannelGone, Ask, Save, AdjustFunding, AdjustToken, UpdateQuota,
         Crash, Fetch, ReadRow, Query, Show, NoteReopening, NoFault, Fault,
         vars, bounds
<1>3. SUFFICES ASSUME "reopen" \notin hit', Sound
               PROVE  Sound'
  BY <1>1, <1>2 DEF SInv
<1>4. ASSUME NEW w \in Poller, Poll(w) PROVE Sound'
  <2>1. w \in Worker
    BY DEF Worker
  <2> QED
    BY <1>1, <1>3, <1>4, <2>1, FindSound, ChannelGoneSound, AnswerSound,
       SaveSound, AdjustFundingSound, AdjustTokenSound, UpdateQuotaSound
       DEF Poll
<1>5. ASSUME NEW w \in Poller, Crash(w) PROVE Sound'
  BY <1>1, <1>3, <1>5, CrashSound DEF Worker
<1>6. ASSUME NEW w \in Fetcher, Fetch(w) PROVE Sound'
  <2>1. w \in Worker
    BY DEF Worker
  <2> QED
    BY <1>1, <1>3, <1>6, <2>1, ReadRowSound, AnswerSound, ShowSound DEF Fetch
<1>7. CASE Submission
  BY <1>1, <1>3, <1>7, SubmissionSound
<1>8. CASE UpstreamEnds \/ TimePasses \/ UNCHANGED vars
  BY <1>3, <1>8, OutsideSound
<1> QED
  BY <1>4, <1>5, <1>6, <1>7, <1>8 DEF Next

(* Until a query reopens a task, whoever bills it does it alone and from    *)
(* the quota submitted: whatever queries, lost channels, overlapping        *)
(* passes, crashes and errors do.                                           *)
THEOREM OneBillPerTask == Spec => []SInv
<1>1. SInv /\ [Next]_vars => SInv'
  BY StepSound
<1> QED
  BY <1>1, InitSound, PTL DEF Spec

(* A task is never charged more than was submitted or than it turned out to *)
(* cost, also with queries and lost channels, unless it was reopened.       *)
THEOREM NobodyOvercharged == Spec => []NeverOvercharged
<1>1. SInv => NeverOvercharged
  <2>1. SUFFICES ASSUME SInv, submit = "over",
                        hit \cap {"settle", "token", "reopen"} = {}
                 PROVE  \E most \in Actuals \cup {quota} :
                          charged <= most /\ token <= most
    BY DEF NeverOvercharged
  <2>2. Sound /\ TypeOK /\ hit \cap {"settle", "token"} = {}
        /\ "settle" \notin hit
    BY <2>1 DEF SInv
  <2>3. quota \in Nat /\ Actuals \subseteq Nat
    BY <2>2, TaskBillingConstants DEF TypeOK
  <2>4. CASE \A w \in Worker : ~Billing(w)
    <3>1. charged \in {0, quota} \cup Actuals /\ token = charged
      BY <2>1, <2>2, <2>4 DEF Sound, Resting
    <3> QED
      BY <2>3, <3>1
  <2>5. ASSUME NEW w \in Worker, Billing(w)
        PROVE  \E most \in Actuals \cup {quota} :
                 charged <= most /\ token <= most
    <3>1. /\ bill[w] \in {0} \cup Actuals
          /\ charged \in {quota, bill[w]} /\ token \in {quota, bill[w]}
      BY <2>2, <2>5, ChargeFacts
    <3>2. CASE bill[w] <= quota
      BY <2>3, <3>1, <3>2
    <3>3. CASE ~(bill[w] <= quota)
      <4>1. bill[w] \in Actuals
        BY <2>3, <3>1, <3>3
      <4> QED
        BY <2>3, <3>1, <3>3, <4>1
    <3> QED
      BY <3>2, <3>3
  <2> QED
    BY <2>4, <2>5
<1> QED
  BY <1>1, OneBillPerTask, PTL

(* RefundedOnce fails of queried tasks, and reopening is the only way: as   *)
(* long as no query has put the task back in progress no more is returned   *)
(* than was charged.                                                        *)
THEOREM RefundsOnceUnlessReopened ==
  Spec => []("reopen" \notin hit => RefundedOnce)
<1>1. SInv => ("reopen" \notin hit => RefundedOnce)
  <2>1. SUFFICES ASSUME SInv, "reopen" \notin hit, "settle" \notin hit
                 PROVE  charged >= 0
    BY DEF RefundedOnce
  <2>2. Sound /\ TypeOK
    BY <2>1 DEF SInv
  <2>3. quota \in Nat /\ Actuals \subseteq Nat
    BY <2>2, TaskBillingConstants DEF TypeOK
  <2>4. CASE row.status = "absent"
    BY <2>2, <2>4 DEF Sound, Phases
  <2>5. CASE row.status # "absent" /\ \A w \in Worker : ~Billing(w)
    <3>1. charged \in {0, quota} \cup Actuals
      BY <2>1, <2>2, <2>5 DEF Sound, Phases, Resting
    <3> QED
      BY <2>3, <3>1
  <2>6. CASE \E w \in Worker : Billing(w)
    BY <2>1, <2>2, <2>6, ChargeFacts
  <2> QED
    BY <2>4, <2>5, <2>6
<1> QED
  BY <1>1, OneBillPerTask, PTL
-----------------------------------------------------------------------------
(* What the step of a worker does to the two payers and to what is open.    *)
LEMMA WorkerStep ==
  ASSUME TypeOK, Sound, NEW w \in Worker,
         Poll(w) \/ Crash(w) \/ Fetch(w), "reopen" \notin hit'
  PROVE  /\ submit = "over" /\ UNCHANGED <<submit, quota>>
         /\ row'.status \in Unfinished => row.status \in Unfinished
         /\ \A v \in Worker \ {w} : pc'[v] = pc[v]
         /\ pc'[w] = "fund" => row.status \in Unfinished
         /\ pc'[w] = "token" => pc[w] = "fund"
         /\ \/ UNCHANGED charged
            \/ /\ pc[w] = "fund" /\ pc'[w] = "token" /\ UNCHANGED row
               /\ charged' = charged + Delta(w)
         /\ \/ UNCHANGED token
            \/ /\ pc[w] = "token" /\ pc'[w] = "mark" /\ UNCHANGED row
               /\ token' = token + Delta(w)
<1>1. CASE FindTimedOut(w) \/ FindUnfinished(w)
  BY <1>1, Distinct
     DEF FindTimedOut, FindUnfinished, IsUnfinished, Goto, TypeOK, Sound,
         Phases, books
<1>2. pc[w] # "idle" => row.status # "absent" /\ submit = "over"
  BY DEF Sound, Phases
<1>3. CASE ChannelGone(w)
  <2>1. row'.status = "FAILURE"
    BY <1>3 DEF ChannelGone, TypeOK, Rows
  <2> QED
    BY <1>2, <1>3, <2>1, LeaveType, Distinct DEF ChannelGone, books
<1>4. CASE Ask(w) \/ Query(w)
  <2>1. /\ \A v \in Worker \ {w} : pc'[v] = pc[v]
        /\ pc'[w] \in {"idle", "save", "show"}
    BY <1>4, LeaveType DEF Ask, Query, Goto, TypeOK
  <2> QED
    BY <1>2, <1>4, <2>1 DEF Ask, Query, books
<1>5. CASE Save(w)
  <2>1. /\ pc[w] = "save" /\ submit = "over"
        /\ UNCHANGED <<submit, quota, charged, token>>
    BY <1>2, <1>5 DEF Save, books
  <2>2. Matches(w) => row.status \in Unfinished
    BY <2>1 DEF Sound, HolderInv, Matches
  <2>3. CASE Leave(w)
    BY <1>5, <2>1, <2>2, <2>3, LeaveType DEF Save
  <2>4. ASSUME Matches(w), NEW q \in Nat, Charge(w, q)
        PROVE  /\ pc'[w] = "fund" /\ row.status \in Unfinished
               /\ \A v \in Worker \ {w} : pc'[v] = pc[v]
    BY <2>2, <2>4, ChargeType
  <2> QED
    BY <1>5, <2>1, <2>3, <2>4, StartBillingCases DEF Save
<1>6. CASE AdjustFunding(w)
  <2>1. /\ pc[w] = "fund" /\ submit = "over"
        /\ UNCHANGED <<submit, quota, row, token>>
    BY <1>2, <1>6 DEF AdjustFunding
  <2>2. CASE charged' = charged + Delta(w) /\ Goto(w, "token")
    BY <2>1, <2>2 DEF Goto, TypeOK
  <2>3. CASE UNCHANGED charged /\ Leave(w)
    BY <2>1, <2>3, LeaveType
  <2> QED
    BY <1>6, <2>2, <2>3 DEF AdjustFunding
<1>7. CASE AdjustToken(w)
  BY <1>2, <1>7 DEF AdjustToken, Goto, TypeOK
<1>8. CASE UpdateQuota(w)
  <2>1. row'.status = row.status
    <3>1. CASE row' = [row EXCEPT !.quota = bill[w]]
      BY <3>1, RowWithQuota, Types
    <3> QED
      BY <1>8, <3>1 DEF UpdateQuota
  <2> QED
    BY <1>2, <1>8, <2>1, LeaveType DEF UpdateQuota, books
<1>9. CASE Crash(w)
  BY <1>2, <1>9, LeaveType DEF Crash, books
<1>10. CASE ReadRow(w)
  BY <1>10 DEF ReadRow, Goto, TypeOK, Sound, Phases, books
<1>11. CASE Show(w)
  <2>1. /\ pc[w] = "show" /\ submit = "over"
        /\ UNCHANGED <<submit, quota, charged, token>>
    BY <1>2, <1>11 DEF Show, books
  <2>2. row'.status \in Unfinished => row.status \in Unfinished
    <3>1. CASE Matches(w) /\ row' = mem[w].row /\ NoteReopening
      BY <1>2, <2>1, <3>1, Types DEF NoteReopening
    <3> QED
      BY <1>11, <3>1 DEF Show
  <2> QED
    BY <1>11, <2>1, <2>2, LeaveType DEF Show
<1> QED
  BY <1>1, <1>3, <1>4, <1>5, <1>6, <1>7, <1>8, <1>9, <1>10, <1>11
     DEF Poll, Fetch

(* To a payer whose adjustment is made in these steps, a worker at most     *)
(* closes the task.                                                         *)
LEMMA PhaseOfWorker ==
  ASSUME TypeOK, Sound, NEW w \in Worker,
         Poll(w) \/ Crash(w) \/ Fetch(w), "reopen" \notin hit',
         NEW steps \in {{"fund"}, {"fund", "token"}}
  PROVE  \/ Phase(steps)' = Phase(steps)
         \/ Phase(steps) = "open" /\ Phase(steps)' = "closed"
<1>1. /\ submit = "over" /\ UNCHANGED submit
      /\ row'.status \in Unfinished => row.status \in Unfinished
      /\ \A v \in Worker \ {w} : pc'[v] = pc[v]
      /\ pc'[w] = "fund" => row.status \in Unfinished
      /\ pc'[w] = "token" => pc[w] = "fund"
  BY WorkerStep
<1>2. (\E v \in Worker : pc'[v] \in steps) =>
        row.status \in Unfinished \/ \E v \in Worker : pc[v] \in steps
  <2>1. SUFFICES ASSUME NEW v \in Worker, pc'[v] \in steps
                 PROVE  \/ row.status \in Unfinished
                        \/ \E u \in Worker : pc[u] \in steps
    OBVIOUS
  <2>2. CASE v # w
    BY <1>1, <2>1, <2>2
  <2>3. CASE v = w
    BY <1>1, <2>1, <2>3
  <2> QED
    BY <2>2, <2>3
<1> QED
  BY <1>1, <1>2 DEF Phase

(* The worker that bills is past the steps of a payer: the task is closed.  *)
LEMMA ClosedToPayer ==
  ASSUME TypeOK, Sound, NEW w \in Worker, Billing(w), UNCHANGED <<submit, row>>,
         \A v \in Worker \ {w} : pc'[v] = pc[v],
         NEW steps \in {{"fund"}, {"fund", "token"}},
         pc[w] \in steps, pc'[w] \notin steps
  PROVE  Phase(steps) = "open" /\ Phase(steps)' = "closed"
<1>1. submit = "over" /\ row.status \notin Unfinished
  BY ChargeFacts, Distinct
<1>2. \A v \in Worker \ {w} : pc'[v] \notin steps
  BY ChargeFacts DEF Billing
<1> QED
  BY <1>1, <1>2 DEF Phase

LEMMA FundingMove ==
  ASSUME TypeOK, Sound, [Next]_vars, "reopen" \notin hit'
  PROVE  [Funding!Next]_(Funding!vars)
<1> USE DEF Funding!Next, Funding!vars
<1>1. ASSUME NEW w \in Worker, Poll(w) \/ Crash(w) \/ Fetch(w)
      PROVE  [Funding!Next]_(Funding!vars)
  <2>1. UNCHANGED quota
    BY <1>1, WorkerStep
  <2>2. CASE UNCHANGED charged
    BY <1>1, <2>1, <2>2, PhaseOfWorker DEF Funding!Leave
  <2>3. CASE /\ pc[w] = "fund" /\ pc'[w] = "token" /\ UNCHANGED row
             /\ charged' = charged + Delta(w)
    <3>1. Billing(w)
      BY <2>3 DEF Billing
    <3>2. Phase({"fund"}) = "open" /\ Phase({"fund"})' = "closed"
      BY <1>1, <2>3, <3>1, WorkerStep, ClosedToPayer
    <3>3. bill[w] \in Actuals \cup {0} /\ Delta(w) = bill[w] - quota
      BY <3>1, ChargeFacts
    <3> QED
      BY <2>1, <2>3, <3>2, <3>3 DEF Funding!Correct
  <2> QED
    BY <1>1, <2>2, <2>3, WorkerStep
<1>2. CASE PreConsume
  BY <1>2 DEF PreConsume, Phase, Funding!Hold
<1>3. CASE SubmitFails
  <2>1. /\ row.status \notin Unfinished
        /\ \A w \in Worker : pc[w] = "idle"
    BY <1>3, Distinct DEF SubmitFails, Sound, Phases
  <2> QED
    BY <1>3, <2>1 DEF SubmitFails, Phase, work, Funding!Return
<1>4. CASE Settle
  <2>1. quota' \in Quotas /\ charged' \in {charged, quota'}
    BY <1>4 DEF Settle, books
  <2> QED
    BY <1>4, <2>1 DEF Settle, Phase, Funding!Accept
<1>5. CASE Insert
  <2>1. submit = "settled" /\ submit' = "over" /\ UNCHANGED <<quota, charged>>
    BY <1>5 DEF Insert, books
  <2>2. Phase({"fund"}) = "open" /\ Phase({"fund"})' \in {"open", "closed"}
    BY <2>1 DEF Phase
  <2> QED
    BY <2>1, <2>2 DEF Funding!Leave
<1>6. CASE UpstreamEnds \/ TimePasses \/ UNCHANGED vars
  BY <1>6 DEF UpstreamEnds, TimePasses, Phase, vars, books, work
<1> QED
  BY <1>1, <1>2, <1>3, <1>4, <1>5, <1>6 DEF Next, Submission, Worker

LEMMA TokenMove ==
  ASSUME TypeOK, Sound, [Next]_vars, "reopen" \notin hit'
  PROVE  [Token!Next]_(Token!vars)
<1> USE DEF Token!Next, Token!vars
<1>1. ASSUME NEW w \in Worker, Poll(w) \/ Crash(w) \/ Fetch(w)
      PROVE  [Token!Next]_(Token!vars)
  <2>1. UNCHANGED quota
    BY <1>1, WorkerStep
  <2>2. CASE UNCHANGED token
    BY <1>1, <2>1, <2>2, PhaseOfWorker DEF Token!Leave
  <2>3. CASE /\ pc[w] = "token" /\ pc'[w] = "mark" /\ UNCHANGED row
             /\ token' = token + Delta(w)
    <3>1. Billing(w)
      BY <2>3 DEF Billing
    <3>2. /\ Phase({"fund", "token"}) = "open"
          /\ Phase({"fund", "token"})' = "closed"
      BY <1>1, <2>3, <3>1, WorkerStep, ClosedToPayer
    <3>3. bill[w] \in Actuals \cup {0} /\ Delta(w) = bill[w] - quota
      BY <3>1, ChargeFacts
    <3> QED
      BY <2>1, <2>3, <3>2, <3>3 DEF Token!Correct
  <2> QED
    BY <1>1, <2>2, <2>3, WorkerStep
<1>2. CASE PreConsume
  BY <1>2 DEF PreConsume, Phase, Token!Hold
<1>3. CASE SubmitFails
  <2>1. /\ row.status \notin Unfinished
        /\ \A w \in Worker : pc[w] = "idle"
    BY <1>3, Distinct DEF SubmitFails, Sound, Phases
  <2> QED
    BY <1>3, <2>1 DEF SubmitFails, Phase, work, Token!Return
<1>4. CASE Settle
  <2>1. quota' \in Quotas /\ token' \in {token, quota'}
    BY <1>4 DEF Settle, books
  <2> QED
    BY <1>4, <2>1 DEF Settle, Phase, Token!Accept
<1>5. CASE Insert
  <2>1. submit = "settled" /\ submit' = "over" /\ UNCHANGED <<quota, token>>
    BY <1>5 DEF Insert, books
  <2>2. /\ Phase({"fund", "token"}) = "open"
        /\ Phase({"fund", "token"})' \in {"open", "closed"}
    BY <2>1 DEF Phase
  <2> QED
    BY <2>1, <2>2 DEF Token!Leave
<1>6. CASE UpstreamEnds \/ TimePasses \/ UNCHANGED vars
  BY <1>6 DEF UpstreamEnds, TimePasses, Phase, vars, books, work
<1> QED
  BY <1>1, <1>2, <1>3, <1>4, <1>5, <1>6 DEF Next, Submission, Worker

(* A task keeps the promise of TaskCharge to the funding source and to the  *)
(* token, with any passes, queries, lost channels, crashes and errors, as   *)
(* long as no query puts it back in progress after it ended.                *)
THEOREM ImplementsCharge ==
  Spec /\ []("reopen" \notin hit) => ChargedOnce
<1>1. Init => Funding!Init /\ Token!Init
  BY DEF Init, Phase, Funding!Init, Token!Init
<1>2. SInv /\ "reopen" \notin hit /\ ("reopen" \notin hit)' /\ [Next]_vars =>
        [Funding!Next]_(Funding!vars) /\ [Token!Next]_(Token!vars)
  BY FundingMove, TokenMove DEF SInv
<1> QED
  BY <1>1, <1>2, OneBillPerTask, PTL
     DEF Spec, ChargedOnce, Funding!Spec, Token!Spec

(* Only a query puts a task back in progress. *)
LEMMA NoReopening ==
  ASSUME Fetcher = {}, [Next]_vars, "reopen" \notin hit
  PROVE  "reopen" \notin hit'
<1>0. ASSUME NEW step, step # "reopen", NoFault \/ Fault(step)
      PROVE  "reopen" \notin hit'
  BY <1>0 DEF NoFault, Fault, bounds
<1>1. CASE \E w \in Poller : Crash(w)
  <2>1. PICK w \in Poller : Crash(w)
    BY <1>1
  <2>2. hit' = hit \cup Lost(pc[w]) /\ "reopen" \notin Lost(pc[w])
    BY <2>1 DEF Crash, Lost
  <2> QED
    BY <2>2
<1>2. CASE \E w \in Poller : Poll(w)
  <2>1. PICK w \in Poller : Poll(w)
    BY <1>2
  <2>2. CASE Save(w)
    <3>1. NoFault \/ Fault("none") \/ Fault("save")
      BY <2>2 DEF Save
    <3> QED
      BY <1>0, <3>1
  <2>3. CASE AdjustFunding(w) \/ AdjustToken(w) \/ UpdateQuota(w)
    <3>1. NoFault \/ Fault("fund") \/ Fault("token") \/ Fault("mark")
      BY <2>3 DEF AdjustFunding, AdjustToken, UpdateQuota
    <3> QED
      BY <1>0, <3>1
  <2>4. CASE FindTimedOut(w) \/ FindUnfinished(w) \/ ChannelGone(w) \/ Ask(w)
    BY <2>4 DEF FindTimedOut, FindUnfinished, ChannelGone, Ask, NoFault, bounds
  <2> QED
    BY <2>1, <2>2, <2>3, <2>4 DEF Poll
<1>3. CASE Submission
  <2>1. \/ UNCHANGED bounds
        \/ NoFault \/ Fault("settle") \/ Fault("insert")
    BY <1>3 DEF Submission, PreConsume, SubmitFails, Settle, Insert
  <2> QED
    BY <1>0, <2>1 DEF bounds
<1>4. CASE UpstreamEnds \/ TimePasses \/ UNCHANGED vars
  BY <1>4 DEF UpstreamEnds, TimePasses, vars, bounds
<1> QED
  BY <1>1, <1>2, <1>3, <1>4 DEF Next

(* Without queries no hypothesis is needed.                                 *)
THEOREM PolledTaskImplementsCharge ==
  ASSUME Fetcher = {}
  PROVE  Spec => ChargedOnce
<1>1. Init => "reopen" \notin hit
  BY DEF Init
<1>2. "reopen" \notin hit /\ [Next]_vars => ("reopen" \notin hit)'
  BY NoReopening
<1>3. Spec => []("reopen" \notin hit)
  BY <1>1, <1>2, PTL DEF Spec
<1> QED
  BY <1>3, ImplementsCharge, PTL
=============================================================================
