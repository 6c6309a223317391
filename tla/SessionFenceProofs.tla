------------------------- MODULE SessionFenceProofs -------------------------
(***************************************************************************)
(* Proofs about SessionFence, for any operations, cache lifetime, versions *)
(* and number of failures.                                                 *)
(*                                                                         *)
(* The argument is about time.  A snapshot that the row has left behind    *)
(* was given its deadline before the row changed, so neither the snapshot  *)
(* on its way nor the entry it became lasts TTL longer than the change.    *)
(* A deny entry written after the revocation lasts at least as long.       *)
(***************************************************************************)
EXTENDS SessionFence, TLAPS

(* The row has moved on from version v. *)
Stale(v) == row.status = "revoked" \/ v < row.version

Holds(p) == pc[p] \in {"write", "complete", "confirm"}

RowInv ==
  /\ row.status = "none" => row.version = 0
  /\ row.changed <= now

CacheInv ==
  cache.status = "active" =>
    /\ row.status # "none"
    /\ cache.version <= row.version
    /\ cache.expiry <= now + TTL
    /\ Stale(cache.version) => cache.expiry <= row.changed + TTL

SealedInv ==
  sealed =>
    /\ row.status = "revoked"
    /\ cache.status # "active"
    /\ \/ cache.status \in Deny /\ cache.expiry >= row.changed + TTL
       \/ now >= row.changed + TTL

(* The snapshot an operation holds, and how long it may be written. *)
HolderInv(p) ==
  /\ deadline[p] <= now + TTL
  /\ Holds(p) => /\ row.status # "none"
                 /\ snap[p] <= row.version
                 /\ snap[p] >= floor[p]
  /\ pc[p] = "write" /\ Stale(snap[p]) => deadline[p] <= row.changed + TTL

(* What is older than the floor of an operation is no longer in the cache   *)
(* and no longer gets there.                                                *)
FloorInv(p) ==
  /\ floor[p] <= row.version \/ (row.status = "revoked" /\ floor[p] <= row.version + 1)
  /\ cache.status = "active" /\ cache.version < floor[p] => cache.expiry <= now
  /\ \A q \in Proc : pc[q] = "write" /\ snap[q] < floor[p] => deadline[q] <= now

ResultInv(p) ==
  /\ pc[p] # "idle" => result[p] = "none"
  /\ result[p] = "ok" => snap[p] >= floor[p] /\ ~after[p]
  /\ after[p] => sealed /\ pc[p] \in {"idle", "lookup", "database", "deny"}

IInv ==
  /\ TypeOK
  /\ RowInv
  /\ CacheInv
  /\ SealedInv
  /\ \A p \in Proc : HolderInv(p) /\ FloorInv(p) /\ ResultInv(p)
-----------------------------------------------------------------------------
LEMMA InitInv == Init => IInv
<1> SUFFICES ASSUME Init PROVE IInv
  OBVIOUS
<1> USE SessionFenceConstants DEF Init, NoEntry
<1>1. TypeOK
  <2>1. row \in [status : {"none", "active", "revoked"}, version : 0..MaxVersion,
                 changed : 0..MaxTime]
    OBVIOUS
  <2>2. cache \in [status : {"none", "active"} \cup Deny, version : 0..MaxVersion,
                   expiry : 0..(MaxTime + TTL)]
    OBVIOUS
  <2>3. /\ op \in [Proc -> Ops]
        /\ floor \in [Proc -> 0..(MaxVersion + 1)]
        /\ deadline \in [Proc -> 0..(MaxTime + TTL)]
        /\ snap \in [Proc -> 0..MaxVersion]
    BY DEF Ops
  <2>4. after \in [Proc -> BOOLEAN] /\ sealed \in BOOLEAN
    OBVIOUS
  <2> QED
    BY <2>1, <2>2, <2>3, <2>4 DEF TypeOK
<1>2. RowInv /\ CacheInv /\ SealedInv
  BY DEF RowInv, CacheInv, SealedInv
<1>3. ASSUME NEW p \in Proc PROVE HolderInv(p) /\ FloorInv(p) /\ ResultInv(p)
  BY <1>3 DEF HolderInv, FloorInv, ResultInv, Holds, Stale
<1> QED
  BY <1>1, <1>2, <1>3 DEF IInv

(* A deny entry keeps what the cache promises, and seals a revoked session. *)
LEMMA DenyWritten ==
  ASSUME IInv, NEW status \in Deny, NEW v \in 0..MaxVersion,
         WriteDeny(status, v), UNCHANGED <<now, row>>
  PROVE  /\ cache' \in [status : {"none", "active"} \cup Deny, version : 0..MaxVersion,
                        expiry : 0..(MaxTime + TTL)]
         /\ cache'.status \in Deny
         /\ sealed' \in BOOLEAN
         /\ sealed => sealed'
         /\ CacheInv' /\ SealedInv'
<1> USE SessionFenceConstants DEF WriteDeny, Entry
<1>1. TypeOK /\ RowInv /\ SealedInv
  BY DEF IInv
<1>2. cache' = [status |-> status, version |-> v, expiry |-> now + TTL]
  OBVIOUS
<1>3. now + TTL \in 0..(MaxTime + TTL)
  BY <1>1 DEF TypeOK
<1>4. cache' \in [status : {"none", "active"} \cup Deny, version : 0..MaxVersion,
                  expiry : 0..(MaxTime + TTL)]
  BY <1>2, <1>3
<1>5. cache'.status = status /\ cache'.expiry = now + TTL
  BY <1>2
<1>6. sealed' \in BOOLEAN /\ (sealed => sealed')
  BY <1>1 DEF TypeOK
<1>7. CacheInv'
  BY <1>5 DEF CacheInv, Deny
<1>8. SealedInv'
  <2>1. status # "active"
    BY DEF Deny
  <2>2. cache'.expiry >= row.changed + TTL
    BY <1>1, <1>5 DEF RowInv, TypeOK
  <2> QED
    BY <1>1, <1>5, <2>1, <2>2 DEF SealedInv
<1> QED
  BY <1>4, <1>5, <1>6, <1>7, <1>8

(* An operation that goes on without a new snapshot, while the row and the  *)
(* active entry stay: nobody holds more than before.                        *)
LEMMA NothingTaken ==
  ASSUME IInv, NEW p \in Proc, NEW label \in {"idle", "complete", "confirm", "commit", "seal"},
         Goto(p, label), label \in {"complete", "confirm"} => Holds(p),
         UNCHANGED <<now, row, snap, deadline, floor>>,
         cache'.status = "active" => cache' = cache,
         NEW q \in Proc
  PROVE  HolderInv(q)' /\ FloorInv(q)'
<1> USE DEF Goto
<1>1. TypeOK /\ HolderInv(q) /\ FloorInv(q) /\ HolderInv(p)
  BY DEF IInv
<1>2. \A r \in Proc : r # p => pc'[r] = pc[r]
  BY <1>1 DEF TypeOK
<1>3. pc'[p] = label
  BY <1>1 DEF TypeOK
<1>4. (Holds(q)' => Holds(q)) /\ \A r \in Proc : pc'[r] = "write" => pc[r] = "write"
  BY <1>2, <1>3 DEF Holds
<1>5. HolderInv(q)'
  BY <1>1, <1>4 DEF HolderInv, Stale
<1>6. FloorInv(q)'
  BY <1>1, <1>4 DEF FloorInv
<1> QED
  BY <1>5, <1>6

(* An operation that goes on to a label where it holds no snapshot, or ends *)
(* without accepting the session.                                           *)
LEMMA NothingAccepted ==
  ASSUME IInv, NEW p \in Proc, NEW label \in {"idle", "commit", "seal"},
         Goto(p, label), label # "idle" => ~after[p],
         result' = result \/ (label = "idle" /\ \E r \in {"inactive", "error", "revoked"} :
                                result' = [result EXCEPT ![p] = r]),
         result' = result => label # "idle" /\ pc[p] # "idle",
         UNCHANGED <<snap, floor, after>>, sealed => sealed',
         NEW q \in Proc
  PROVE  ResultInv(q)'
<1> USE DEF Goto
<1>1. TypeOK /\ ResultInv(q) /\ ResultInv(p)
  BY DEF IInv
<1>2. CASE q # p
  BY <1>1, <1>2 DEF TypeOK, ResultInv
<1>3. CASE q = p
  BY <1>1, <1>3 DEF TypeOK, ResultInv
<1> QED
  BY <1>2, <1>3

LEMMA BeginInv == ASSUME IInv, NEW p \in Proc, Begin(p) PROVE IInv'
<1> USE SessionFenceConstants DEF Begin, Floor, TakeDeadline, Goto, Ops, procVars, history
<1>0. TypeOK /\ RowInv /\ CacheInv /\ SealedInv
  BY DEF IInv
<1>1. TypeOK'
  BY <1>0 DEF TypeOK
<1>2. RowInv'
  BY <1>0 DEF RowInv
<1>3. CacheInv'
  BY <1>0 DEF CacheInv, Stale
<1>4. SealedInv'
  BY <1>0 DEF SealedInv
<1>5. ASSUME NEW q \in Proc PROVE HolderInv(q)'
  BY <1>0, <1>5 DEF IInv, TypeOK, HolderInv, Holds, Stale
<1>6. ASSUME NEW q \in Proc PROVE FloorInv(q)'
  BY <1>0, <1>6 DEF IInv, TypeOK, CacheInv, HolderInv, FloorInv, Stale
<1>7. ASSUME NEW q \in Proc PROVE ResultInv(q)'
  BY <1>0, <1>7 DEF IInv, TypeOK, ResultInv
<1> QED
  BY <1>1, <1>2, <1>3, <1>4, <1>5, <1>6, <1>7 DEF IInv

LEMMA LookupInv == ASSUME IInv, NEW p \in Proc, Lookup(p) PROVE IInv'
<1> USE SessionFenceConstants DEF Lookup, TakeDeadline, Goto, Return, Fault, Live, Deny, procVars, history
<1>0. TypeOK /\ RowInv /\ CacheInv /\ SealedInv
  BY DEF IInv
<1>1. TypeOK'
  BY <1>0 DEF TypeOK
<1>2. RowInv'
  BY <1>0 DEF RowInv
<1>3. CacheInv'
  BY <1>0 DEF CacheInv, Stale
<1>4. SealedInv'
  BY <1>0 DEF SealedInv
<1>5. ASSUME NEW q \in Proc PROVE HolderInv(q)'
  BY <1>0, <1>5 DEF IInv, TypeOK, HolderInv, Holds, Stale
<1>6. ASSUME NEW q \in Proc PROVE FloorInv(q)'
  BY <1>0, <1>6 DEF IInv, TypeOK, FloorInv
<1>7. ASSUME NEW q \in Proc PROVE ResultInv(q)'
  BY <1>0, <1>7 DEF IInv, TypeOK, SealedInv, FloorInv, ResultInv
<1> QED
  BY <1>1, <1>2, <1>3, <1>4, <1>5, <1>6, <1>7 DEF IInv

(* The row is written, by the creation or with a new version: whoever holds *)
(* an older snapshot took its deadline before now.                          *)
LEMMA RowWritten ==
  ASSUME IInv, NEW p \in Proc, pc[p] = "database", row.status # "revoked",
         row.version + 1 <= MaxVersion,
         row' = [status |-> "active", version |-> row.version + 1, changed |-> now],
         snap' = [snap EXCEPT ![p] = row.version + 1], Goto(p, "write"),
         UNCHANGED <<now, cache, op, deadline, result, history>>
  PROVE  IInv'
<1> USE SessionFenceConstants DEF history, Goto
<1>1. TypeOK /\ RowInv /\ CacheInv /\ SealedInv
  BY DEF IInv
<1>2. row'.status = "active" /\ row'.version = row.version + 1 /\ row'.changed = now
  OBVIOUS
<1>3. /\ row.version \in 0..MaxVersion /\ row.changed \in 0..MaxTime /\ now \in 0..MaxTime
      /\ row.version + 1 \in 0..MaxVersion
  BY <1>1 DEF TypeOK
<1>4. TypeOK'
  BY <1>1, <1>3 DEF TypeOK
<1>5. RowInv' /\ CacheInv' /\ SealedInv'
  BY <1>1, <1>2, <1>3 DEF TypeOK, RowInv, CacheInv, SealedInv, Stale
<1>6. ASSUME NEW q \in Proc PROVE HolderInv(q)'
  <2>1. FloorInv(q) /\ HolderInv(q)
    BY <1>6 DEF IInv
  <2>2. CASE q = p
    BY <1>1, <1>2, <1>3, <2>1, <2>2 DEF TypeOK, HolderInv, FloorInv, Stale
  <2>3. CASE q # p
    BY <1>1, <1>2, <1>3, <1>6, <2>1, <2>3 DEF TypeOK, HolderInv, Holds, Stale
  <2> QED
    BY <2>2, <2>3
<1>7. ASSUME NEW q \in Proc PROVE FloorInv(q)'
  <2>1. FloorInv(q)
    BY <1>7 DEF IInv
  <2>2. floor[q] <= row.version
    BY <1>1, <2>1 DEF FloorInv
  <2>3. floor[q] <= row'.version /\ snap'[p] >= floor'[q]
    BY <1>1, <1>2, <1>3, <1>7, <2>2 DEF TypeOK
  <2>4. ASSUME NEW r \in Proc, pc'[r] = "write", snap'[r] < floor'[q]
        PROVE  deadline'[r] <= now'
    <3>1. r # p
      BY <1>1, <1>4, <1>7, <2>3, <2>4 DEF TypeOK
    <3>2. pc[r] = "write" /\ snap[r] < floor[q]
      BY <1>1, <2>4, <3>1 DEF TypeOK
    <3> QED
      BY <2>1, <3>2 DEF FloorInv
  <2> QED
    BY <1>1, <2>1, <2>3, <2>4 DEF FloorInv
<1>8. ASSUME NEW q \in Proc PROVE ResultInv(q)'
  <2>1. ResultInv(q) /\ ResultInv(p)
    BY <1>8 DEF IInv
  <2>2. CASE q = p
    BY <1>1, <2>1, <2>2 DEF TypeOK, SealedInv, ResultInv
  <2>3. CASE q # p
    BY <1>1, <1>8, <2>1, <2>3 DEF TypeOK, ResultInv
  <2> QED
    BY <2>2, <2>3
<1> QED
  BY <1>4, <1>5, <1>6, <1>7, <1>8 DEF IInv

(* The row is read: the snapshot is as good as the row.                     *)
LEMMA RowRead ==
  ASSUME IInv, NEW p \in Proc, pc[p] = "database",
         NEW label \in {"write", "fence", "deny"}, Goto(p, label),
         row.status = IF label = "deny" THEN "revoked" ELSE "active",
         snap' = [snap EXCEPT ![p] = row.version],
         UNCHANGED <<now, row, cache, op, deadline, result, history>>
  PROVE  IInv'
<1> USE SessionFenceConstants DEF history, Goto
<1>1. TypeOK /\ RowInv /\ CacheInv /\ SealedInv
  BY DEF IInv
<1>2. TypeOK'
  BY <1>1 DEF TypeOK
<1>3. RowInv' /\ CacheInv' /\ SealedInv'
  BY <1>1 DEF RowInv, CacheInv, SealedInv, Stale
<1>4. ASSUME NEW q \in Proc PROVE HolderInv(q)'
  <2>1. FloorInv(q) /\ HolderInv(q)
    BY <1>4 DEF IInv
  <2>2. CASE q = p
    BY <1>1, <2>1, <2>2 DEF TypeOK, HolderInv, FloorInv, Holds, Stale
  <2>3. CASE q # p
    BY <1>1, <1>4, <2>1, <2>3 DEF TypeOK, HolderInv, Holds, Stale
  <2> QED
    BY <2>2, <2>3
<1>5. ASSUME NEW q \in Proc PROVE FloorInv(q)'
  <2>1. FloorInv(q)
    BY <1>5 DEF IInv
  <2>2. ASSUME NEW r \in Proc, pc'[r] = "write", snap'[r] < floor'[q]
        PROVE  deadline'[r] <= now'
    <3>1. CASE r = p
      BY <1>1, <1>5, <2>1, <2>2, <3>1 DEF TypeOK, FloorInv
    <3>2. CASE r # p
      BY <1>1, <2>1, <2>2, <3>2 DEF TypeOK, FloorInv
    <3> QED
      BY <3>1, <3>2
  <2> QED
    BY <1>1, <2>1, <2>2 DEF FloorInv
<1>6. ASSUME NEW q \in Proc PROVE ResultInv(q)'
  <2>1. ResultInv(q) /\ ResultInv(p)
    BY <1>6 DEF IInv
  <2>2. CASE q = p
    BY <1>1, <2>1, <2>2 DEF TypeOK, SealedInv, ResultInv
  <2>3. CASE q # p
    BY <1>1, <1>6, <2>1, <2>3 DEF TypeOK, ResultInv
  <2> QED
    BY <2>2, <2>3
<1> QED
  BY <1>2, <1>3, <1>4, <1>5, <1>6 DEF IInv

LEMMA DatabaseInv == ASSUME IInv, NEW p \in Proc, Database(p) PROVE IInv'
<1>1. TypeOK /\ RowInv /\ CacheInv /\ SealedInv /\ ResultInv(p)
  BY DEF IInv
<1>2. pc[p] = "database" /\ UNCHANGED <<now, cache, op, deadline, sealed, after, floor>>
  BY DEF Database
<1>3. CASE op[p] = "create" /\ row.status = "none" /\ Goto(p, "write") /\ UNCHANGED <<result, faults>>
           /\ row' = [status |-> "active", version |-> 1, changed |-> now]
           /\ snap' = [snap EXCEPT ![p] = 1]
  <2>1. row.version + 1 = 1 /\ 1 <= MaxVersion
    BY <1>1, <1>3, SessionFenceConstants DEF RowInv
  <2> QED
    BY <1>2, <1>3, <2>1, RowWritten DEF history
<1>4. CASE row.status = "active" /\ row.version < MaxVersion /\ Goto(p, "write")
           /\ row' = [row EXCEPT !.version = @ + 1, !.changed = now]
           /\ snap' = [snap EXCEPT ![p] = row.version + 1]
           /\ UNCHANGED <<result, faults>>
  <2>1. row' = [status |-> "active", version |-> row.version + 1, changed |-> now]
    BY <1>1, <1>4 DEF TypeOK
  <2>2. row.version + 1 <= MaxVersion
    BY <1>1, <1>4, SessionFenceConstants DEF TypeOK
  <2> QED
    BY <1>2, <1>4, <2>1, <2>2, RowWritten DEF history
<1>5. CASE \E label \in {"write", "fence", "deny"} :
             /\ Goto(p, label)
             /\ row.status = IF label = "deny" THEN "revoked" ELSE "active"
             /\ snap' = [snap EXCEPT ![p] = row.version]
             /\ UNCHANGED <<row, result, faults>>
  BY <1>2, <1>5, RowRead DEF history
<1>6. CASE \E r \in {"inactive", "error"} :
             Return(p, r) /\ UNCHANGED <<row, snap>> /\ (faults' = faults \/ Fault)
  <2>1. PICK r \in {"inactive", "error"} :
          Return(p, r) /\ UNCHANGED <<row, snap>> /\ (faults' = faults \/ Fault)
    BY <1>6
  <2>2. TypeOK'
    BY <1>1, <1>2, <2>1, SessionFenceConstants DEF TypeOK, Return, Goto, Fault
  <2>3. RowInv' /\ CacheInv' /\ SealedInv'
    BY <1>1, <1>2, <2>1 DEF RowInv, CacheInv, SealedInv, Stale
  <2>4. ASSUME NEW q \in Proc PROVE HolderInv(q)' /\ FloorInv(q)'
    BY <1>2, <2>1, <2>4, NothingTaken DEF Return
  <2>5. ASSUME NEW q \in Proc PROVE ResultInv(q)'
    <3>1. result' # result
      BY <1>1, <1>2, <2>1 DEF TypeOK, ResultInv, Return
    <3> QED
      BY <1>2, <2>1, <2>5, <3>1, NothingAccepted DEF Return
  <2> QED
    BY <2>2, <2>3, <2>4, <2>5 DEF IInv
<1> QED
  BY <1>3, <1>4, <1>5, <1>6 DEF Database

LEMMA PublishDenyInv == ASSUME IInv, NEW p \in Proc, PublishDeny(p) PROVE IInv'
<1>1. TypeOK /\ RowInv /\ CacheInv /\ SealedInv
  BY DEF IInv
<1>2. /\ UNCHANGED <<now, row, op, snap, deadline, after, floor>>
      /\ Goto(p, "idle") /\ result' = [result EXCEPT ![p] = "inactive"]
      /\ faults' = faults \/ Fault
      /\ UNCHANGED <<cache, sealed>> \/ WriteDeny("revoked", snap[p])
  BY DEF PublishDeny, Return
<1>3. /\ cache' \in [status : {"none", "active"} \cup Deny, version : 0..MaxVersion,
                     expiry : 0..(MaxTime + TTL)]
      /\ cache'.status = "active" => cache' = cache
      /\ sealed' \in BOOLEAN /\ (sealed => sealed')
      /\ CacheInv' /\ SealedInv'
  <2>1. CASE UNCHANGED <<cache, sealed>>
    BY <1>1, <1>2, <2>1 DEF TypeOK, CacheInv, SealedInv, Stale
  <2>2. CASE WriteDeny("revoked", snap[p])
    BY <1>1, <1>2, <2>2, DenyWritten DEF TypeOK, Deny
  <2> QED
    BY <1>2, <2>1, <2>2
<1>4. TypeOK' /\ RowInv'
  BY <1>1, <1>2, <1>3, SessionFenceConstants DEF TypeOK, RowInv, Goto, Fault
<1>5. ASSUME NEW q \in Proc PROVE HolderInv(q)' /\ FloorInv(q)'
  BY <1>2, <1>3, <1>5, NothingTaken
<1>6. ASSUME NEW q \in Proc PROVE ResultInv(q)'
  <2>1. result' # result
    BY <1>1, <1>2 DEF TypeOK, IInv, ResultInv, PublishDeny
  <2> QED
    BY <1>2, <1>3, <1>6, <2>1, NothingAccepted
<1> QED
  BY <1>3, <1>4, <1>5, <1>6 DEF IInv

LEMMA WriteInv == ASSUME IInv, NEW p \in Proc, Write(p) PROVE IInv'
<1> USE SessionFenceConstants DEF Write, Goto, Return, Fault, RefusesActive, Live, Entry, NoEntry, Deny, procVars, history
<1>0. TypeOK /\ RowInv /\ CacheInv /\ SealedInv
  BY DEF IInv
<1>1. TypeOK'
  BY <1>0 DEF TypeOK
<1>2. RowInv'
  BY <1>0 DEF RowInv
<1>3. CacheInv'
  BY <1>0 DEF IInv, CacheInv, HolderInv, Holds, Stale
<1>4. SealedInv'
  BY <1>0 DEF IInv, TypeOK, SealedInv, HolderInv, Stale
<1>5. ASSUME NEW q \in Proc PROVE HolderInv(q)'
  BY <1>0, <1>5 DEF IInv, TypeOK, HolderInv, Holds, Stale
<1>6. ASSUME NEW q \in Proc PROVE FloorInv(q)'
  BY <1>0, <1>6 DEF IInv, TypeOK, FloorInv
<1>7. ASSUME NEW q \in Proc PROVE ResultInv(q)'
  BY <1>0, <1>7 DEF IInv, TypeOK, HolderInv, ResultInv, Holds
<1> QED
  BY <1>1, <1>2, <1>3, <1>4, <1>5, <1>6, <1>7 DEF IInv

LEMMA CompleteInv == ASSUME IInv, NEW p \in Proc, Complete(p) PROVE IInv'
<1> USE SessionFenceConstants DEF Complete, Goto, Return, procVars, history
<1>0. TypeOK /\ RowInv /\ CacheInv /\ SealedInv
  BY DEF IInv
<1>1. TypeOK'
  BY <1>0 DEF TypeOK
<1>2. RowInv'
  BY <1>0 DEF RowInv
<1>3. CacheInv'
  BY <1>0 DEF CacheInv, Stale
<1>4. SealedInv'
  BY <1>0 DEF SealedInv
<1>5. ASSUME NEW q \in Proc PROVE HolderInv(q)'
  BY <1>0, <1>5 DEF IInv, TypeOK, HolderInv, Holds, Stale
<1>6. ASSUME NEW q \in Proc PROVE FloorInv(q)'
  BY <1>0, <1>6 DEF IInv, TypeOK, FloorInv
<1>7. ASSUME NEW q \in Proc PROVE ResultInv(q)'
  BY <1>0, <1>7 DEF IInv, TypeOK, HolderInv, ResultInv, Holds
<1> QED
  BY <1>1, <1>2, <1>3, <1>4, <1>5, <1>6, <1>7 DEF IInv

LEMMA ConfirmInv == ASSUME IInv, NEW p \in Proc, Confirm(p) PROVE IInv'
<1>1. TypeOK /\ RowInv /\ CacheInv /\ SealedInv /\ HolderInv(p) /\ ResultInv(p)
  BY DEF IInv
<1>2. /\ UNCHANGED <<now, row, cache, op, snap, deadline, sealed, after, floor>>
      /\ Goto(p, "idle")
      /\ faults' = faults \/ Fault
  BY DEF Confirm, Return
<1>3. PICK r \in {"ok", "inactive", "error"} : result' = [result EXCEPT ![p] = r]
  BY DEF Confirm, Return
<1>4. TypeOK'
  BY <1>1, <1>2, <1>3, SessionFenceConstants DEF TypeOK, Goto, Fault
<1>5. RowInv' /\ CacheInv' /\ SealedInv'
  BY <1>1, <1>2 DEF RowInv, CacheInv, SealedInv, Stale
<1>6. ASSUME NEW q \in Proc PROVE HolderInv(q)' /\ FloorInv(q)'
  BY <1>2, <1>6, NothingTaken
<1>7. ASSUME NEW q \in Proc PROVE ResultInv(q)'
  <2>1. snap[p] >= floor[p] /\ ~after[p]
    BY <1>1 DEF HolderInv, ResultInv, Holds, Confirm
  <2>2. CASE q = p
    BY <1>1, <1>2, <1>3, <2>1, <2>2 DEF TypeOK, ResultInv, Goto
  <2>3. CASE q # p
    BY <1>1, <1>2, <1>3, <1>7, <2>3 DEF IInv, TypeOK, ResultInv, Goto
  <2> QED
    BY <2>2, <2>3
<1> QED
  BY <1>4, <1>5, <1>6, <1>7 DEF IInv

LEMMA FenceInv == ASSUME IInv, NEW p \in Proc, Fence(p) PROVE IInv'
<1>1. TypeOK /\ RowInv /\ CacheInv /\ SealedInv /\ ResultInv(p)
  BY DEF IInv
<1>2. /\ UNCHANGED <<now, row, op, snap, deadline, after, floor>>
      /\ faults' = faults \/ Fault
      /\ UNCHANGED <<cache, sealed>> \/ WriteDeny("revoking", snap[p])
  BY DEF Fence
<1>3. PICK label \in {"idle", "commit"} :
        /\ Goto(p, label)
        /\ \/ label = "commit" /\ UNCHANGED result
           \/ label = "idle" /\ result' = [result EXCEPT ![p] = "error"]
  BY DEF Fence, Return
<1>4. /\ cache' \in [status : {"none", "active"} \cup Deny, version : 0..MaxVersion,
                     expiry : 0..(MaxTime + TTL)]
      /\ cache'.status = "active" => cache' = cache
      /\ sealed' \in BOOLEAN /\ (sealed => sealed')
      /\ CacheInv' /\ SealedInv'
  <2>1. CASE UNCHANGED <<cache, sealed>>
    BY <1>1, <1>2, <2>1 DEF TypeOK, CacheInv, SealedInv, Stale
  <2>2. CASE WriteDeny("revoking", snap[p])
    BY <1>1, <1>2, <2>2, DenyWritten DEF TypeOK, Deny
  <2> QED
    BY <1>2, <2>1, <2>2
<1>5. TypeOK' /\ RowInv'
  BY <1>1, <1>2, <1>3, <1>4, SessionFenceConstants DEF TypeOK, RowInv, Goto, Fault
<1>6. ASSUME NEW q \in Proc PROVE HolderInv(q)' /\ FloorInv(q)'
  BY <1>2, <1>3, <1>4, <1>6, NothingTaken
<1>7. ASSUME NEW q \in Proc PROVE ResultInv(q)'
  <2>1. pc[p] = "fence" /\ result[p] = "none" /\ ~after[p]
    BY <1>1 DEF ResultInv, Fence
  <2>2. result' = result => label # "idle"
    BY <1>1, <1>3, <2>1 DEF TypeOK
  <2> QED
    BY <1>2, <1>3, <1>4, <1>7, <2>1, <2>2, NothingAccepted
<1> QED
  BY <1>4, <1>5, <1>6, <1>7 DEF IInv

LEMMA CommitInv == ASSUME IInv, NEW p \in Proc, Commit(p) PROVE IInv'
<1> USE SessionFenceConstants DEF Commit, Goto, Return, Fault, procVars, history
<1>0. TypeOK /\ RowInv /\ CacheInv /\ SealedInv
  BY DEF IInv
<1>1. TypeOK'
  <2>1. row' \in [status : {"none", "active", "revoked"}, version : 0..MaxVersion,
                  changed : 0..MaxTime]
    <3>1. UNCHANGED row \/ row' = [row EXCEPT !.status = "revoked", !.changed = now]
      OBVIOUS
    <3> QED
      BY <1>0, <3>1 DEF TypeOK
  <2>2. pc' \in [Proc -> {"idle", "lookup", "database", "deny", "write", "complete",
                          "confirm", "fence", "commit", "seal"}]
    BY <1>0 DEF TypeOK
  <2>3. result' \in [Proc -> {"none", "ok", "inactive", "error", "revoked"}]
    BY <1>0 DEF TypeOK
  <2>4. faults' \in 0..MaxFaults
    BY <1>0 DEF TypeOK
  <2> QED
    BY <1>0, <2>1, <2>2, <2>3, <2>4 DEF TypeOK
<1>2. RowInv'
  <2>1. CASE UNCHANGED row
    BY <1>0, <2>1 DEF RowInv
  <2>2. CASE row.status = "active" /\ row' = [row EXCEPT !.status = "revoked", !.changed = now]
    BY <1>0, <2>2 DEF TypeOK, RowInv
  <2> QED
    BY <2>1, <2>2
<1>3. CacheInv'
  BY <1>0 DEF TypeOK, CacheInv, Stale
<1>4. SealedInv'
  BY <1>0 DEF SealedInv
<1>5. ASSUME NEW q \in Proc PROVE HolderInv(q)'
  BY <1>0, <1>5 DEF IInv, TypeOK, RowInv, HolderInv, FloorInv, Holds, Stale, Deny
<1>6. ASSUME NEW q \in Proc PROVE FloorInv(q)'
  BY <1>0, <1>6 DEF IInv, TypeOK, RowInv, CacheInv, FloorInv, Stale, Deny
<1>7. ASSUME NEW q \in Proc PROVE ResultInv(q)'
  BY <1>0, <1>7 DEF IInv, TypeOK, ResultInv
<1> QED
  BY <1>1, <1>2, <1>3, <1>4, <1>5, <1>6, <1>7 DEF IInv

LEMMA SealInv == ASSUME IInv, NEW p \in Proc, Seal(p) PROVE IInv'
<1>1. TypeOK /\ RowInv /\ CacheInv /\ SealedInv
  BY DEF IInv
<1>2. /\ UNCHANGED <<now, row, op, snap, deadline, after, floor>>
      /\ Goto(p, "idle") /\ result' = [result EXCEPT ![p] = "revoked"]
      /\ faults' = faults \/ Fault
      /\ UNCHANGED <<cache, sealed>> \/ WriteDeny("revoked", snap[p])
  BY DEF Seal, Return
<1>3. /\ cache' \in [status : {"none", "active"} \cup Deny, version : 0..MaxVersion,
                     expiry : 0..(MaxTime + TTL)]
      /\ cache'.status = "active" => cache' = cache
      /\ sealed' \in BOOLEAN /\ (sealed => sealed')
      /\ CacheInv' /\ SealedInv'
  <2>1. CASE UNCHANGED <<cache, sealed>>
    BY <1>1, <1>2, <2>1 DEF TypeOK, CacheInv, SealedInv, Stale
  <2>2. CASE WriteDeny("revoked", snap[p])
    BY <1>1, <1>2, <2>2, DenyWritten DEF TypeOK, Deny
  <2> QED
    BY <1>2, <2>1, <2>2
<1>4. TypeOK' /\ RowInv'
  BY <1>1, <1>2, <1>3, SessionFenceConstants DEF TypeOK, RowInv, Goto, Fault
<1>5. ASSUME NEW q \in Proc PROVE HolderInv(q)' /\ FloorInv(q)'
  BY <1>2, <1>3, <1>5, NothingTaken
<1>6. ASSUME NEW q \in Proc PROVE ResultInv(q)'
  <2>1. result' # result
    BY <1>1, <1>2 DEF TypeOK, IInv, ResultInv, Seal
  <2> QED
    BY <1>2, <1>3, <1>6, <2>1, NothingAccepted
<1> QED
  BY <1>3, <1>4, <1>5, <1>6 DEF IInv

LEMMA TickInv == ASSUME IInv, Tick PROVE IInv'
<1> USE SessionFenceConstants DEF Tick, procVars, history
<1>1. TypeOK /\ RowInv /\ CacheInv /\ SealedInv
  BY DEF IInv
<1>2. TypeOK' /\ RowInv'
  BY <1>1 DEF TypeOK, RowInv
<1>3. CacheInv' /\ SealedInv'
  BY <1>1 DEF TypeOK, CacheInv, SealedInv, Stale
<1>4. ASSUME NEW q \in Proc PROVE HolderInv(q)' /\ FloorInv(q)' /\ ResultInv(q)'
  BY <1>1, <1>4 DEF IInv, TypeOK, HolderInv, FloorInv, ResultInv, Holds, Stale
<1> QED
  BY <1>2, <1>3, <1>4 DEF IInv

LEMMA StutterInv == ASSUME IInv, UNCHANGED vars PROVE IInv'
BY DEF IInv, vars, procVars, history, TypeOK, RowInv, CacheInv, SealedInv, HolderInv,
       FloorInv, ResultInv, Holds, Stale
-----------------------------------------------------------------------------
(* IInv is inductive, and holds in every reachable state.                   *)
THEOREM Inductive == Spec => []IInv
<1>1. Init => IInv
  BY InitInv
<1>2. IInv /\ [Next]_vars => IInv'
  <2> SUFFICES ASSUME IInv, [Next]_vars PROVE IInv'
    OBVIOUS
  <2>1. CASE \E p \in Proc : Begin(p) \/ Lookup(p) \/ Database(p) \/ PublishDeny(p)
    BY <2>1, BeginInv, LookupInv, DatabaseInv, PublishDenyInv
  <2>2. CASE \E p \in Proc : Write(p) \/ Complete(p) \/ Confirm(p)
    BY <2>2, WriteInv, CompleteInv, ConfirmInv
  <2>3. CASE \E p \in Proc : Fence(p) \/ Commit(p) \/ Seal(p)
    BY <2>3, FenceInv, CommitInv, SealInv
  <2>4. CASE Tick
    BY <2>4, TickInv
  <2>5. CASE UNCHANGED vars
    BY <2>5, StutterInv
  <2> QED
    BY <2>1, <2>2, <2>3, <2>4, <2>5 DEF Next
<1> QED
  BY <1>1, <1>2, PTL DEF Spec

(* The row, the cache and the operations keep their types.                  *)
THEOREM TypeCorrect == Spec => []TypeOK
<1>1. IInv => TypeOK
  BY DEF IInv
<1> QED
  BY <1>1, Inductive, PTL

(* writeUserSessionCache: what was read before a revocation does not bring  *)
(* the session back once a deny entry was published.                        *)
THEOREM RevokedStaysRevoked == Spec => []NoResurrection
<1>1. IInv => NoResurrection
  BY DEF IInv, ResultInv, NoResurrection
<1> QED
  BY <1>1, Inductive, PTL

(* writeUserSessionCache, confirmUserSessionActiveSnapshot: TTL after the   *)
(* last change of the row nothing older than it is accepted.                *)
THEOREM StaleEnds == Spec => []StaleIsBounded
<1>1. IInv => StaleIsBounded
  BY DEF IInv, ResultInv, StaleIsBounded
<1> QED
  BY <1>1, Inductive, PTL
=============================================================================
