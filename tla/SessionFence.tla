---------------------------- MODULE SessionFence ----------------------------
(***************************************************************************)
(* One login session: its row in user_sessions, its entry in the Redis     *)
(* cache, and the operations that read and write both.                     *)
(*   model/user_session.go                                                 *)
(*                                                                         *)
(* An operation is a process; one action is one statement, one script or   *)
(* one clock reading with what the code does up to the next one, and any   *)
(* time may pass in between.  An active snapshot is cached no longer than  *)
(* the deadline captured before the row was read or written; a deny entry  *)
(* lives from its publication.  A node that dies is a process that stops.  *)
(* Left out: the end of a session by age (both stores carry ExpiresAt, and *)
(* every reader tests it), the cleanup of old rows, the refresh digests    *)
(* (AuthTabs), and a Redis that is switched off, where only the row counts.*)
(***************************************************************************)
EXTENDS Integers

CONSTANTS
  Proc,        \* the operations that run at a time
  TTL,         \* userCacheTTLSeconds
  MaxTime,     \* bound: the clock
  MaxVersion,  \* bound: session versions
  MaxFaults    \* bound: statements and scripts that fail

ASSUME SessionFenceConstants ==
  TTL \in Nat \ {0} /\ MaxTime \in Nat /\ MaxVersion \in Nat \ {0} /\ MaxFaults \in Nat

VARIABLES
  now,         \* the clock
  row,         \* user_sessions: status and version; changed is the time of the
               \* last change of either
  cache,       \* the entry auth:session:<sid>, gone once now reaches its expiry
  pc,          \* what comes next in an operation
  op,          \* the operation
  snap,        \* the version of the row it has seen
  deadline,    \* its cacheDeadline
  result,      \* what the last operation of a process returned
  faults,      \* history: how many statements failed
  sealed,      \* history: a deny entry was written after the row was revoked
  after,       \* history: an operation began when sealed held
  floor        \* history: the least version an operation may accept, when it
               \* began TTL after the last change of the row

procVars == <<pc, op, snap, deadline, result>>
history == <<faults, sealed, after, floor>>
vars == <<now, row, cache, procVars, history>>

Ops == {"validate", "create", "rotate", "advance", "revoke"}
Deny == {"revoking", "revoked"}

NoEntry == [status |-> "none", version |-> 0, expiry |-> 0]
FreshEntry(status, version, expiry) ==   \* mutant: the lifetime starts with the write
  [status |-> status, version |-> version, expiry |-> now + TTL]

Entry(status, version, expiry) ==
  [status |-> status, version |-> version, expiry |-> expiry]

TypeOK ==
  /\ now \in 0..MaxTime
  /\ row \in [status : {"none", "active", "revoked"}, version : 0..MaxVersion, changed : 0..MaxTime]
  /\ cache \in [status : {"none", "active"} \cup Deny, version : 0..MaxVersion,
                expiry : 0..(MaxTime + TTL)]
  /\ pc \in [Proc -> {"idle", "lookup", "database", "deny", "write", "complete", "confirm",
                      "fence", "commit", "seal"}]
  /\ op \in [Proc -> Ops]
  /\ snap \in [Proc -> 0..MaxVersion]
  /\ deadline \in [Proc -> 0..(MaxTime + TTL)]
  /\ result \in [Proc -> {"none", "ok", "inactive", "error", "revoked"}]
  /\ faults \in 0..MaxFaults
  /\ sealed \in BOOLEAN
  /\ after \in [Proc -> BOOLEAN]
  /\ floor \in [Proc -> 0..(MaxVersion + 1)]

-----------------------------------------------------------------------------
(* The cache                                                               *)

Live == cache.status # "none" /\ now < cache.expiry

NewerRefuses(v) == Live /\ cache.version > v   \* mutant: deny entries do not count

\* the script of writeUserSessionCache returns 0
RefusesActive(v) == Live /\ (cache.version > v \/ cache.status \in Deny)
RefusesDeny(v) == Live /\ cache.version > v

WriteDeny(status, v) ==
  /\ cache' = Entry(status, v, now + TTL)
  /\ sealed' = (sealed \/ row.status = "revoked")

Fault == faults < MaxFaults /\ faults' = faults + 1

-----------------------------------------------------------------------------
(* Steps of an operation                                                   *)

Goto(p, label) == pc' = [pc EXCEPT ![p] = label]

Return(p, r) ==
  /\ Goto(p, "idle")
  /\ result' = [result EXCEPT ![p] = r]

DoubleDeadline(p) ==                     \* mutant: the lifetime is counted twice
  deadline' = [deadline EXCEPT ![p] = now + 2 * TTL]

\* userSessionCacheDeadline
TakeDeadline(p) == deadline' = [deadline EXCEPT ![p] = now + TTL]

\* the least version that an operation which begins now may still accept
Floor == IF now < row.changed + TTL THEN 0
         ELSE IF row.status = "revoked" THEN row.version + 1 ELSE row.version

\* a session is created once, and known only then
Begin(p) ==
  /\ pc[p] = "idle"
  /\ \E o \in Ops :
       /\ (o = "create") <=> (row.status = "none")
       /\ op' = [op EXCEPT ![p] = o]
       /\ Goto(p, IF o = "validate" THEN "lookup" ELSE "database")
  /\ TakeDeadline(p)
  /\ snap' = [snap EXCEPT ![p] = 0]
  /\ result' = [result EXCEPT ![p] = "none"]
  /\ after' = [after EXCEPT ![p] = sealed]
  /\ floor' = [floor EXCEPT ![p] = Floor]
  /\ UNCHANGED <<now, row, cache, faults, sealed>>

\* GetUserSessionCached asks the cache: an active entry answers, a deny entry
\* refuses, and without either the deadline is taken for a read of the row
Lookup(p) ==
  /\ pc[p] = "lookup"
  /\ \/ /\ Live /\ cache.status = "active"
        /\ snap' = [snap EXCEPT ![p] = cache.version]
        /\ Return(p, "ok")
        /\ UNCHANGED <<deadline, faults>>
     \/ /\ Live /\ cache.status \in Deny
        /\ Return(p, "inactive")
        /\ UNCHANGED <<snap, deadline, faults>>
     \/ /\ (~Live /\ UNCHANGED faults) \/ Fault
        /\ Goto(p, "database") /\ TakeDeadline(p)
        /\ UNCHANGED <<snap, result>>
  /\ UNCHANGED <<now, row, cache, op, sealed, after, floor>>

\* DB.First, DB.Create, the compare-and-swap of a rotation, or the transaction
\* of AdvanceUserSessionAuthVersion, whose expected version may be another one
Database(p) ==
  /\ pc[p] = "database"
  /\ \/ /\ op[p] = "create" /\ row.status = "none"
        /\ row' = [status |-> "active", version |-> 1, changed |-> now]
        /\ snap' = [snap EXCEPT ![p] = 1]
        /\ Goto(p, "write") /\ UNCHANGED <<result, faults>>
     \/ /\ op[p] = "advance" /\ row.status = "active" /\ row.version < MaxVersion
        /\ row' = [row EXCEPT !.version = @ + 1, !.changed = now]
        /\ snap' = [snap EXCEPT ![p] = row.version + 1]
        /\ Goto(p, "write") /\ UNCHANGED <<result, faults>>
     \/ /\ op[p] \in {"validate", "rotate", "revoke"} /\ row.status = "active"
        /\ snap' = [snap EXCEPT ![p] = row.version]
        /\ Goto(p, IF op[p] = "revoke" THEN "fence" ELSE "write")
        /\ UNCHANGED <<row, result, faults>>
     \/ /\ op[p] = "validate" /\ row.status = "revoked"
        /\ snap' = [snap EXCEPT ![p] = row.version]
        /\ Goto(p, "deny") /\ UNCHANGED <<row, result, faults>>
     \/ /\ (op[p] \in {"rotate", "revoke"} /\ row.status = "revoked") \/ op[p] = "advance"
        /\ Return(p, "inactive") /\ UNCHANGED <<row, snap, faults>>
     \/ /\ op[p] = "create" /\ row.status # "none"
        /\ Return(p, "error") /\ UNCHANGED <<row, snap, faults>>
     \/ /\ Fault /\ Return(p, "error") /\ UNCHANGED <<row, snap>>
  /\ UNCHANGED <<now, cache, op, deadline, sealed, after, floor>>

\* GetUserSessionCached has found the row revoked, and publishes it
PublishDeny(p) ==
  /\ pc[p] = "deny"
  /\ \/ /\ ~RefusesDeny(snap[p]) /\ WriteDeny("revoked", snap[p]) /\ UNCHANGED faults
     \/ /\ (RefusesDeny(snap[p]) /\ UNCHANGED faults) \/ Fault
        /\ UNCHANGED <<cache, sealed>>
  /\ Return(p, "inactive")
  /\ UNCHANGED <<now, row, op, snap, deadline, after, floor>>

\* writeUserSessionCache of an active snapshot.  Past the deadline nothing is
\* written, or an entry that expires at once.  A script that fails may have run.
Write(p) ==
  LET entry == Entry("active", snap[p], deadline[p])
      v == snap[p]
  IN
  /\ pc[p] = "write"
  /\ \/ /\ RefusesActive(v)
        /\ Return(p, "inactive") /\ UNCHANGED <<cache, faults>>
     \/ /\ now < deadline[p] /\ ~RefusesActive(v)
        /\ cache' = entry
        /\ Goto(p, "complete") /\ UNCHANGED <<result, faults>>
     \/ /\ now >= deadline[p]
        /\ cache' = cache \/ (~RefusesActive(v) /\ cache' = NoEntry)
        /\ Goto(p, "confirm") /\ UNCHANGED <<result, faults>>
     \/ /\ Fault
        /\ cache' = cache \/ (now < deadline[p] /\ ~RefusesActive(v) /\ cache' = entry)
        /\ Return(p, IF op[p] = "advance" THEN "error" ELSE "ok")
  /\ UNCHANGED <<now, row, op, snap, deadline, sealed, after, floor>>

\* the second look at the clock, when the script has returned
Complete(p) ==
  /\ pc[p] = "complete"
  /\ IF now < deadline[p] THEN Return(p, "ok")
     ELSE Goto(p, "confirm") /\ UNCHANGED result
  /\ UNCHANGED <<now, row, cache, op, snap, deadline, history>>

\* confirmUserSessionActiveSnapshot
Confirm(p) ==
  /\ pc[p] = "confirm"
  /\ \/ /\ Return(p, IF row.status = "active" /\ row.version = snap[p] THEN "ok" ELSE "inactive")
        /\ UNCHANGED faults
     \/ Fault /\ Return(p, "error")
  /\ UNCHANGED <<now, row, cache, op, snap, deadline, sealed, after, floor>>

-----------------------------------------------------------------------------
(* Revocation: RevokeUserSession, RevokeUserSessionByRefreshHash, the reuse*)
(* of a refresh token, and revokeUserSessions for each of a batch          *)

\* writeUserSessionDenyFence
Fence(p) ==
  /\ pc[p] = "fence"
  /\ \/ /\ ~RefusesDeny(snap[p]) /\ WriteDeny("revoking", snap[p])
        /\ Goto(p, "commit") /\ UNCHANGED <<result, faults>>
     \/ /\ RefusesDeny(snap[p])
        /\ Return(p, "error") /\ UNCHANGED <<cache, sealed, faults>>
     \/ /\ Fault /\ Return(p, "error")
        /\ \/ UNCHANGED <<cache, sealed>>
           \/ ~RefusesDeny(snap[p]) /\ WriteDeny("revoking", snap[p])
  /\ UNCHANGED <<now, row, op, snap, deadline, after, floor>>

\* the transaction; its failure may be reported after it has committed
Commit(p) ==
  LET revoked == row' = [row EXCEPT !.status = "revoked", !.changed = now] IN
  /\ pc[p] = "commit"
  /\ \/ /\ row.status = "active" /\ revoked
        /\ Goto(p, "seal") /\ UNCHANGED <<result, faults>>
     \/ /\ row.status = "revoked"
        /\ Return(p, "inactive") /\ UNCHANGED <<row, faults>>
     \/ /\ Fault /\ Return(p, "error")
        /\ UNCHANGED row \/ (row.status = "active" /\ revoked)
  /\ UNCHANGED <<now, cache, op, snap, deadline, sealed, after, floor>>

\* the tombstone; a failure is logged
Seal(p) ==
  /\ pc[p] = "seal"
  /\ \/ ~RefusesDeny(snap[p]) /\ WriteDeny("revoked", snap[p]) /\ UNCHANGED faults
     \/ /\ (RefusesDeny(snap[p]) /\ UNCHANGED faults) \/ Fault
        /\ UNCHANGED <<cache, sealed>>
  /\ Return(p, "revoked")
  /\ UNCHANGED <<now, row, op, snap, deadline, after, floor>>

-----------------------------------------------------------------------------

Tick ==
  /\ now < MaxTime /\ now' = now + 1
  /\ UNCHANGED <<row, cache, procVars, history>>

Init ==
  /\ now = 0 /\ row = [status |-> "none", version |-> 0, changed |-> 0]
  /\ cache = NoEntry
  /\ pc = [p \in Proc |-> "idle"] /\ op = [p \in Proc |-> "validate"]
  /\ snap = [p \in Proc |-> 0] /\ deadline = [p \in Proc |-> 0]
  /\ result = [p \in Proc |-> "none"]
  /\ faults = 0 /\ sealed = FALSE
  /\ after = [p \in Proc |-> FALSE] /\ floor = [p \in Proc |-> 0]

Next ==
  \/ \E p \in Proc :
       \/ Begin(p) \/ Lookup(p) \/ Database(p) \/ PublishDeny(p)
       \/ Write(p) \/ Complete(p) \/ Confirm(p)
       \/ Fence(p) \/ Commit(p) \/ Seal(p)
  \/ Tick

Spec == Init /\ [][Next]_vars

-----------------------------------------------------------------------------
(* Properties                                                              *)

\* Once a deny entry has been published for a revoked session, no operation that
\* begins later accepts the session, although snapshots of the active row are
\* still on their way to the cache and the deny entry expires before they may
\* arrive: "a stale active snapshot cannot outlive a short deny tombstone and
\* reactivate a revoked Session".  (writeUserSessionCache.)
NoResurrection == \A p \in Proc : after[p] => result[p] # "ok"

\* Whatever fails, an operation that begins TTL after the last change of the row
\* was committed accepts nothing older than that change.  A revocation is the last
\* change: TTL after it the session is accepted by no operation that begins.
\* (writeUserSessionCache, confirmUserSessionActiveSnapshot.)
StaleIsBounded == \A p \in Proc : result[p] = "ok" => snap[p] >= floor[p]
=============================================================================
