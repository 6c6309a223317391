------------------------ MODULE BillingSessionProofs ------------------------
(***************************************************************************)
(* Proofs about BillingSession, for any set of requests, any estimates and *)
(* costs and any number of database errors.                                *)
(*                                                                         *)
(* The safety properties say what a session was charged when it is over.   *)
(* They follow from an invariant that accounts for the charge at every     *)
(* point before: Due is what the session knows it holds of its funding     *)
(* source and TokenDue of its token; the ledgers agree with both exactly   *)
(* as long as no database error hit the request, and never fall below.     *)
(***************************************************************************)
EXTENDS BillingSession, TLAPS

Opening2 == {"token", "funding", "shortfall", "fundingError"}
Unopened == {"idle", "wallet"} \cup Opening2
Topping == {"reserveToken", "unreserve"}
Live == {"attempt", "retry", "reserveFunding", "upstream", "turn",
         "turnToken", "closing", "rest", "restToken", "leaving", "flush",
         "flushToken", "closed", "settle"} \cup Topping
Over == {"post", "postToken", "done"}

Committed(s) == s.settled \/ s.fundingSettled

(* Where a request stands when its session has which flags. *)
ControlInv(r) ==
  /\ sess[r].settled => pc[r] = "done"
  /\ sess[r].fundingSettled => pc[r] \in {"settleToken", "done"}
  /\ pc[r] = "settleToken" => sess[r].fundingSettled
  /\ sess[r].refunded <=> bg[r] # "none"
  /\ sess[r].refunded =>
       ~Committed(sess[r]) /\ pc[r] \in Over /\ actual[r] = -1
  /\ Committed(sess[r]) => actual[r] # -1
  /\ actual[r] # -1 => pc[r] \in {"settle", "settleToken"} \cup Over
  /\ pc[r] \in {"settle", "settleToken"} => actual[r] = arg[r]
  /\ pc[r] \in Over /\ actual[r] = -1 => ~NeedsRefund(sess[r])
  /\ sess[r].src = "none" => sess[r] = NoSession
  /\ pc[r] \in Opening2 \cup Topping \cup {"reserveFunding"} =>
       sess[r].src # "none"

(* The top-up that is charged but not yet reserved. *)
Pending(r) == IF pc[r] \in Topping THEN arg[r] ELSE 0

ExtraDue(s) == IF s.src = "subscription" THEN s.extra ELSE 0

Due(r) ==
  CASE bg[r] = "extra" -> ExtraDue(sess[r])
    [] bg[r] \in {"token", "done"} -> 0
    [] OTHER -> sess[r].consumed + ExtraDue(sess[r])

FundingInv(r) ==
  /\ pc[r] \in Unopened =>
       /\ sess[r].pre = 0 /\ sess[r].extra = 0 /\ sess[r].consumed = 0
       /\ charged[r] = 0
  /\ pc[r] \in Live => charged[r] = sess[r].pre + Pending(r)
  /\ sess[r].src = "subscription" =>
       sess[r].pre = sess[r].consumed + sess[r].extra
  /\ sess[r].src # "subscription" =>
       /\ sess[r].consumed >= sess[r].pre
       /\ pc[r] \in Live \/ r \notin hit =>
            sess[r].consumed = sess[r].pre + Pending(r)
  /\ Committed(sess[r]) => charged[r] = actual[r]
  /\ ~Committed(sess[r]) /\ torn = 0 =>
       /\ charged[r] >= Due(r)
       /\ r \notin hit /\ pc[r] \notin Topping => charged[r] = Due(r)

TokenDue(r) ==
  IF sess[r].settled THEN actual[r]
  ELSE IF bg[r] = "done" THEN 0 ELSE sess[r].tok

TokenInv(r) ==
  /\ pc[r] \in {"idle", "wallet", "token"} => sess[r].tok = 0
  /\ pc[r] = "funding" => sess[r].tok = Effective(r)
  /\ pc[r] \notin Unopened => sess[r].tok = sess[r].pre
  /\ r \in Playground => tcharged[r] = 0
  /\ r \notin Playground =>
       /\ tcharged[r] >= 0
       /\ ~sess[r].settled => tcharged[r] >= TokenDue(r)
       /\ r \notin hit => tcharged[r] = TokenDue(r)

RequestInv(r) == ControlInv(r) /\ FundingInv(r) /\ TokenInv(r)

IInv ==
  /\ TypeOK
  /\ torn <= MaxTorn
  /\ \A r \in Request : RequestInv(r)
-----------------------------------------------------------------------------
LEMMA InitInv == Init => IInv
<1> SUFFICES ASSUME Init PROVE IInv
  OBVIOUS
<1>1. TypeOK
  BY BillingConstants DEF Init, TypeOK, Labels, Session, NoSession
<1>2. torn <= MaxTorn
  BY BillingConstants DEF Init
<1>3. ASSUME NEW r \in Request PROVE RequestInv(r)
  BY <1>3, BillingConstants DEF Init, NoSession, RequestInv, ControlInv,
     FundingInv, TokenInv, Committed, Due, ExtraDue, TokenDue, Pending,
     Unopened, Opening2, Topping, Live, Over
<1> QED
  BY <1>1, <1>2, <1>3 DEF IInv
-----------------------------------------------------------------------------
(* The sessions the code builds and the quotas it writes are well typed. *)
LEMMA NoSessionType == NoSession \in Session
BY DEF NoSession, Session

LEMMA OpeningType ==
  ASSUME NEW src \in {"wallet", "subscription"}, NEW trust \in BOOLEAN
  PROVE  Opening(src, trust) \in Session
BY DEF Opening, NoSession, Session

LEMMA HoldType ==
  ASSUME NEW s \in Session, NEW a \in Nat, NEW b \in Nat, NEW c \in Nat
  PROVE  /\ [s EXCEPT !.tok = a] \in Session
         /\ [s EXCEPT !.consumed = a] \in Session
         /\ [s EXCEPT !.consumed = a, !.pre = b] \in Session
         /\ [s EXCEPT !.pre = a, !.tok = b, !.extra = c] \in Session
BY DEF Session

LEMMA FlagType ==
  ASSUME NEW s \in Session
  PROVE  /\ [s EXCEPT !.settled = TRUE] \in Session
         /\ [s EXCEPT !.fundingSettled = TRUE] \in Session
         /\ [s EXCEPT !.refunded = TRUE] \in Session
BY DEF Session

LEMMA SessType ==
  ASSUME sess \in [Request -> Session], NEW r \in Request,
         NEW s \in Session, sess' = [sess EXCEPT ![r] = s]
  PROVE  sess' \in [Request -> Session] /\ sess'[r] = s
OBVIOUS

(* What a session may ask for. *)
LEMMA AmountNat ==
  ASSUME TypeOK, NEW r \in Request
  PROVE  Amount(r) \in Nat /\ Effective(r) \in Nat
BY DEF TypeOK, Amount, Effective

(* Opening a session ends in one of three ways. *)
Opened(r) ==
  \/ pc'[r] = "wallet" /\ sess'[r] = NoSession
  \/ pc'[r] = "token" /\ sess'[r] = Opening("subscription", FALSE)
  \/ /\ pc'[r] = IF InLoop(r) THEN "error" ELSE "done"
     /\ sess'[r] = NoSession

LEMMA OpenType ==
  ASSUME TypeOK, NEW r \in Request,
         TryWallet(r) \/ TrySubscription(r) \/ Reject(r)
  PROVE  /\ sess' \in [Request -> Session]
         /\ pc' \in [Request -> Labels]
         /\ Opened(r)
<1>1. sess \in [Request -> Session] /\ pc \in [Request -> Labels]
  BY DEF TypeOK
<1>2. CASE TryWallet(r)
  BY <1>1, <1>2, NoSessionType, SessType DEF TryWallet, Goto, Opened, Labels
<1>3. CASE TrySubscription(r)
  BY <1>1, <1>3, OpeningType, SessType DEF TrySubscription, Goto, Opened, Labels
<1>4. CASE Reject(r)
  BY <1>1, <1>4, NoSessionType, SessType DEF Reject, Goto, Opened, Labels
<1> QED
  BY <1>2, <1>3, <1>4

LEMMA InsufficientOpens ==
  ASSUME NEW r \in Request, NEW src, InsufficientQuota(r, src)
  PROVE  TryWallet(r) \/ TrySubscription(r) \/ Reject(r)
BY DEF InsufficientQuota

LEMMA FaultType ==
  ASSUME TypeOK, NEW r \in Request, NoFault \/ Fault(r)
  PROVE  faults' \in Nat /\ hit' \in SUBSET Request
BY DEF TypeOK, NoFault, Fault, errors

LEMMA SessionFundingType ==
  ASSUME TypeOK, NEW r \in Request, NEW delta \in Int, SessionFunding(r, delta)
  PROVE  /\ wallet' \in Int /\ used' \in Nat
         /\ charged' \in [Request -> Int]
         /\ charged'[r] = charged[r] + delta
         /\ UNCHANGED <<token, tcharged, direct>>
BY DEF TypeOK, SessionFunding, FundingMove

LEMMA SessionTokenType ==
  ASSUME TypeOK, NEW r \in Request, NEW delta \in Int, SessionToken(r, delta)
  PROVE  /\ token' \in Int
         /\ tcharged' \in [Request -> Int]
         /\ tcharged'[r] = IF r \in Playground THEN tcharged[r]
                                               ELSE tcharged[r] + delta
         /\ UNCHANGED <<wallet, used, charged, direct>>
BY DEF TypeOK, SessionToken, ledger, stores
-----------------------------------------------------------------------------
(* Every action keeps the types, and the invariant of the request that      *)
(* takes it.  First, a session that is opened or refused holds nothing.     *)
LEMMA OpenedInv ==
  ASSUME TypeOK, NEW r \in Request, RequestInv(r), Opened(r),
         \/ pc[r] \in Unopened
         \/ pc[r] \in {"attempt", "retry"} /\ sess[r].src = "none",
         UNCHANGED <<charged, actual, bg, torn>>,
         r \in hit => r \in hit',
         r \in Playground => tcharged'[r] = 0,
         r \notin Playground =>
           tcharged'[r] >= 0 /\ (r \notin hit' => tcharged'[r] = 0)
  PROVE  RequestInv(r)'
<1> DEFINE s == sess'[r]
<1>1. /\ s.pre = 0 /\ s.tok = 0 /\ s.extra = 0 /\ s.consumed = 0
      /\ ~s.settled /\ ~s.fundingSettled /\ ~s.refunded
      /\ s.src = "none" => s = NoSession
      /\ pc'[r] \in {"wallet", "token", "error", "done"}
      /\ pc'[r] = "token" => s.src = "subscription"
  <2>1. CASE s = NoSession /\ pc'[r] \in {"wallet", "error", "done"}
    BY <2>1 DEF NoSession
  <2>2. CASE s = Opening("subscription", FALSE) /\ pc'[r] = "token"
    BY <2>2 DEF Opening, NoSession
  <2> QED
    BY <2>1, <2>2 DEF Opened
<1>2. charged[r] = 0 /\ bg[r] = "none" /\ actual[r] = -1
  BY DEF RequestInv, ControlInv, FundingInv, Committed, NoSession, Pending,
         Unopened, Opening2, Topping, Live, Over
<1> HIDE DEF s
<1>3. ControlInv(r)'
  BY <1>1, <1>2 DEF s, ControlInv, Committed, NeedsRefund, Unopened, Opening2, Topping, Live, Over
<1>4. FundingInv(r)'
  BY <1>1, <1>2 DEF s, FundingInv, Committed, Due, ExtraDue, Pending, Unopened, Opening2, Topping, Live, Over
<1>5. TokenInv(r)'
  BY <1>1, <1>2 DEF s, TokenInv, TokenDue, Unopened, Opening2, Topping, Live, Over
<1> QED
  BY <1>3, <1>4, <1>5 DEF RequestInv

LEMMA ArriveInv ==
  ASSUME IInv, NEW r \in Request, Arrive(r)
  PROVE  TypeOK' /\ RequestInv(r)'
<1> USE DEF call, loop, param, goroutine, ledger, stores, errors
<1>1. TypeOK /\ RequestInv(r)
  BY DEF IInv
<1>2. /\ pc[r] = "idle"
      /\ tokenSeen' \in [Request -> Int]
      /\ UNCHANGED <<arg, param, turns, spent, actual, bg, tries, torn,
                     record, wallet, token, used, charged, tcharged, direct>>
  BY <1>1 DEF TypeOK, Arrive
<1>3. CASE Goto(r, "attempt") /\ UNCHANGED <<sess, est, errors>>
  <2>1. TypeOK'
    BY <1>1, <1>2, <1>3 DEF TypeOK, Labels, Goto
  <2>2. RequestInv(r)'
    <3> USE <1>1, <1>2, <1>3 DEF TypeOK, Goto, RequestInv, Unopened, Opening2, Topping, Live, Over
    <3>1. ControlInv(r)'
      BY DEF ControlInv, Committed, NeedsRefund
    <3>2. FundingInv(r)'
      BY DEF ControlInv, FundingInv, Committed, Due, ExtraDue, Pending
    <3>3. TokenInv(r)'
      BY DEF ControlInv, FundingInv, TokenInv, TokenDue
    <3> QED
      BY <3>1, <3>2, <3>3
  <2> QED
    BY <2>1, <2>2
<1>4. ASSUME NEW quota \in Estimates, PreConsumeBilling(r, quota)
      PROVE  TypeOK' /\ RequestInv(r)'
  <2>1. /\ sess' \in [Request -> Session] /\ pc' \in [Request -> Labels]
        /\ Opened(r)
    BY <1>1, <1>4, OpenType DEF PreConsumeBilling
  <2>2. faults' \in Nat /\ hit' \in SUBSET Request /\ hit \subseteq hit'
    BY <1>1, <1>4, FaultType DEF PreConsumeBilling, NoFault, Fault
  <2>3. est' \in [Request -> Nat]
    BY <1>1, <1>4, BillingConstants DEF TypeOK, PreConsumeBilling
  <2>4. TypeOK'
    BY <1>1, <1>2, <2>1, <2>2, <2>3 DEF TypeOK
  <2>5. /\ r \in Playground => tcharged'[r] = 0
        /\ r \notin Playground =>
             tcharged'[r] >= 0 /\ (r \notin hit' => tcharged'[r] = 0)
    BY <1>1, <1>2, <2>2 DEF RequestInv, ControlInv, FundingInv, TokenInv, TokenDue, Committed, Unopened, Opening2, Topping, Live, Over
  <2>6. RequestInv(r)'
    BY <1>1, <1>2, <2>1, <2>2, <2>5, OpenedInv DEF Unopened
  <2> QED
    BY <2>4, <2>6
<1> QED
  BY <1>3, <1>4 DEF Arrive

LEMMA TryWalletCheckInv ==
  ASSUME IInv, NEW r \in Request, TryWalletCheck(r)
  PROVE  TypeOK' /\ RequestInv(r)'
<1> USE DEF call, loop, param, goroutine, ledger, stores
<1>1. TypeOK /\ RequestInv(r)
  BY DEF IInv
<1>2. /\ pc[r] = "wallet"
      /\ UNCHANGED <<tokenSeen, est, arg, param, turns, spent, actual, bg,
                     tries, torn, record, wallet, token, used, charged,
                     tcharged, direct>>
      /\ NoFault \/ Fault(r)
  BY DEF TryWalletCheck
<1>3. faults' \in Nat /\ hit' \in SUBSET Request /\ (r \in hit => r \in hit')
  BY <1>1, <1>2, FaultType DEF NoFault, Fault, errors
<1>4. /\ charged[r] = 0 /\ bg[r] = "none" /\ actual[r] = -1
      /\ r \in Playground => tcharged[r] = 0
      /\ r \notin Playground =>
           tcharged[r] >= 0 /\ (r \notin hit => tcharged[r] = 0)
  BY <1>1, <1>2 DEF RequestInv, ControlInv, FundingInv, TokenInv, TokenDue, Committed,
     Unopened, Opening2, Topping, Live, Over
<1>5. CASE InsufficientQuota(r, "wallet") \/ Reject(r)
  <2>1. /\ sess' \in [Request -> Session] /\ pc' \in [Request -> Labels]
        /\ Opened(r)
    BY <1>1, <1>5, InsufficientOpens, OpenType
  <2>2. RequestInv(r)'
    BY <1>1, <1>2, <1>3, <1>4, <2>1, OpenedInv DEF Unopened
  <2> QED
    BY <1>1, <1>2, <1>3, <2>1, <2>2 DEF TypeOK
<1>6. CASE /\ sess' = [sess EXCEPT ![r] = Opening("wallet", ShouldTrust(r))]
           /\ Goto(r, "token")
  <2>1. Opening("wallet", ShouldTrust(r)) \in Session
    BY OpeningType DEF ShouldTrust
  <2>2. /\ sess' \in [Request -> Session]
        /\ sess'[r] = Opening("wallet", ShouldTrust(r))
    BY <1>1, <1>6, <2>1, SessType DEF TypeOK
  <2>3. pc' \in [Request -> Labels] /\ pc'[r] = "token"
    BY <1>1, <1>6 DEF TypeOK, Goto, Labels
  <2>4. TypeOK'
    BY <1>1, <1>2, <1>3, <2>2, <2>3 DEF TypeOK
  <2>5. /\ sess'[r].src = "wallet" /\ sess'[r].pre = 0 /\ sess'[r].tok = 0
        /\ sess'[r].extra = 0 /\ sess'[r].consumed = 0
        /\ ~sess'[r].settled /\ ~sess'[r].fundingSettled /\ ~sess'[r].refunded
    BY <2>2 DEF Opening, NoSession
  <2>6. ControlInv(r)'
    BY <1>2, <1>4, <2>3, <2>5 DEF ControlInv, Committed, Unopened, Opening2, Topping, Live, Over
  <2>7. FundingInv(r)'
    BY <1>2, <1>4, <2>3, <2>5
       DEF FundingInv, Committed, Due, ExtraDue, Pending, Unopened, Opening2, Topping, Live, Over
  <2>8. TokenInv(r)'
    BY <1>2, <1>3, <1>4, <2>3, <2>5 DEF TokenInv, TokenDue, Unopened, Opening2, Topping, Live, Over
  <2> QED
    BY <2>4, <2>6, <2>7, <2>8 DEF RequestInv
<1> QED
  BY <1>5, <1>6 DEF TryWalletCheck

LEMMA PreConsumeTokenInv ==
  ASSUME IInv, NEW r \in Request, PreConsumeToken(r)
  PROVE  TypeOK' /\ RequestInv(r)'
<1> USE DEF call, loop, param, goroutine
<1> DEFINE quota == Effective(r)
<1>1. TypeOK /\ RequestInv(r) /\ quota \in Nat
  BY AmountNat DEF IInv
<1>2. /\ pc[r] = "token"
      /\ UNCHANGED <<tokenSeen, est, arg, param, turns, spent, actual, bg,
                     tries, torn, record>>
      /\ NoFault \/ Fault(r)
  BY DEF PreConsumeToken
<1>3. faults' \in Nat /\ hit' \in SUBSET Request /\ (r \in hit => r \in hit')
  BY <1>1, <1>2, FaultType DEF NoFault, Fault, errors
<1>4. /\ charged[r] = 0 /\ bg[r] = "none" /\ actual[r] = -1
      /\ sess[r].pre = 0 /\ sess[r].extra = 0 /\ sess[r].consumed = 0
      /\ sess[r].src # "none"
      /\ ~sess[r].settled /\ ~sess[r].fundingSettled /\ ~sess[r].refunded
      /\ r \in Playground => tcharged[r] = 0
      /\ r \notin Playground =>
           tcharged[r] >= 0 /\ (r \notin hit => tcharged[r] = 0)
  BY <1>1, <1>2 DEF RequestInv, ControlInv, FundingInv, TokenInv, TokenDue, Committed,
     Unopened, Opening2, Topping, Live, Over
<1>5. CASE Reject(r) /\ UNCHANGED ledger
  <2>1. /\ sess' \in [Request -> Session] /\ pc' \in [Request -> Labels]
        /\ Opened(r)
    BY <1>1, <1>5, OpenType
  <2>2. UNCHANGED <<wallet, token, used, charged, tcharged, direct>>
    BY <1>5 DEF ledger, stores
  <2>3. RequestInv(r)'
    BY <1>1, <1>2, <1>3, <1>4, <2>1, <2>2, OpenedInv DEF Unopened, Opening2
  <2> QED
    BY <1>1, <1>2, <1>3, <2>1, <2>2, <2>3 DEF TypeOK
<1>6. CASE /\ SessionToken(r, quota) /\ Goto(r, "funding") /\ NoFault
           /\ sess' = [sess EXCEPT ![r].tok = quota]
  <2>1. /\ sess' \in [Request -> Session]
        /\ sess'[r] = [sess[r] EXCEPT !.tok = quota]
    BY <1>1, <1>6, SessType, HoldType DEF TypeOK
  <2>2. pc' \in [Request -> Labels] /\ pc'[r] = "funding"
    BY <1>1, <1>6 DEF TypeOK, Goto, Labels
  <2>3. /\ token' \in Int /\ tcharged' \in [Request -> Int]
        /\ tcharged'[r] = IF r \in Playground THEN tcharged[r]
                                              ELSE tcharged[r] + quota
        /\ UNCHANGED <<wallet, used, charged, direct>>
    BY <1>1, <1>6, SessionTokenType
  <2>4. TypeOK'
    BY <1>1, <1>2, <1>3, <2>1, <2>2, <2>3 DEF TypeOK
  <2>5. /\ sess'[r].tok = quota
        /\ sess'[r].pre = 0 /\ sess'[r].extra = 0 /\ sess'[r].consumed = 0
        /\ sess'[r].src = sess[r].src /\ sess'[r].src # "none"
        /\ ~sess'[r].settled /\ ~sess'[r].fundingSettled /\ ~sess'[r].refunded
        /\ sess'[r].trusted = sess[r].trusted
    BY <1>1, <1>4, <2>1 DEF TypeOK, Session
  <2>6. Effective(r)' = quota
    BY <1>2, <2>5 DEF Effective, Amount
  <2>7. ControlInv(r)'
    BY <1>2, <1>4, <2>2, <2>5 DEF ControlInv, Committed, Unopened, Opening2, Topping, Live, Over
  <2>8. FundingInv(r)'
    BY <1>2, <1>4, <2>2, <2>3, <2>5
       DEF FundingInv, Committed, Due, ExtraDue, Pending, Unopened, Opening2, Topping, Live, Over
  <2>9. TokenInv(r)'
    BY <1>1, <1>2, <1>3, <1>4, <2>2, <2>3, <2>5, <2>6
       DEF TypeOK, TokenInv, TokenDue, Unopened, Opening2, Topping, Live, Over
  <2> QED
    BY <2>4, <2>7, <2>8, <2>9 DEF RequestInv
<1> QED
  BY <1>5, <1>6 DEF PreConsumeToken

LEMMA PreConsumeFundingInv ==
  ASSUME IInv, NEW r \in Request, PreConsumeFunding(r)
  PROVE  TypeOK' /\ RequestInv(r)'
<1> USE DEF call, loop, param, goroutine
<1> DEFINE quota == Effective(r)
<1>1. TypeOK /\ RequestInv(r) /\ quota \in Nat
  BY AmountNat DEF IInv
<1>2. /\ pc[r] = "funding"
      /\ UNCHANGED <<tokenSeen, est, arg, param, turns, spent, actual, bg,
                     tries, torn>>
      /\ NoFault \/ Fault(r)
  BY DEF PreConsumeFunding
<1>3. faults' \in Nat /\ hit' \in SUBSET Request /\ (r \in hit => r \in hit')
  BY <1>1, <1>2, FaultType DEF NoFault, Fault, errors
<1>4. /\ charged[r] = 0 /\ bg[r] = "none" /\ actual[r] = -1
      /\ sess[r].pre = 0 /\ sess[r].extra = 0 /\ sess[r].consumed = 0
      /\ sess[r].tok = quota /\ sess[r].src # "none"
      /\ ~sess[r].settled /\ ~sess[r].fundingSettled /\ ~sess[r].refunded
      /\ r \in Playground => tcharged[r] = 0
      /\ r \notin Playground =>
           tcharged[r] >= quota /\ (r \notin hit => tcharged[r] = quota)
  BY <1>1, <1>2 DEF RequestInv, ControlInv, FundingInv, TokenInv, TokenDue,
     Committed, Unopened, Opening2, Topping, Live, Over
<1>5. CASE Declined(r, "shortfall") \/ Declined(r, "fundingError")
  <2>1. /\ UNCHANGED <<sess, record, wallet, token, used, charged, tcharged,
                       direct>>
        /\ pc' \in [Request -> Labels]
        /\ pc'[r] \in {"shortfall", "fundingError"}
    BY <1>1, <1>5 DEF TypeOK, Declined, Goto, Labels, ledger, stores
  <2>2. TypeOK'
    BY <1>1, <1>2, <1>3, <2>1 DEF TypeOK
  <2>3. ControlInv(r)'
    BY <1>2, <1>4, <2>1 DEF ControlInv, Committed, Unopened, Opening2, Topping, Live, Over
  <2>4. FundingInv(r)'
    BY <1>2, <1>4, <2>1
       DEF FundingInv, Committed, Due, ExtraDue, Pending, Unopened, Opening2, Topping, Live, Over
  <2>5. TokenInv(r)'
    BY <1>1, <1>2, <1>3, <1>4, <2>1 DEF TypeOK, TokenInv, TokenDue, Unopened, Opening2, Topping, Live, Over
  <2> QED
    BY <2>2, <2>3, <2>4, <2>5 DEF RequestInv
<1>6. CASE /\ SessionFunding(r, quota) /\ NoFault
           /\ sess' = [sess EXCEPT ![r].consumed = quota, ![r].pre = quota]
           /\ record' = IF sess[r].src = "subscription"
                        THEN [record EXCEPT ![r] = "consumed"] ELSE record
           /\ Goto(r, IF InLoop(r) THEN "upstream" ELSE "attempt")
  <2>1. /\ sess' \in [Request -> Session]
        /\ sess'[r] = [sess[r] EXCEPT !.consumed = quota, !.pre = quota]
    BY <1>1, <1>6, SessType, HoldType DEF TypeOK
  <2>2. /\ pc' \in [Request -> Labels] /\ pc'[r] \in {"upstream", "attempt"}
        /\ record' \in [Request -> {"none", "consumed", "refunded"}]
    BY <1>1, <1>6 DEF TypeOK, Goto, Labels
  <2>3. /\ wallet' \in Int /\ used' \in Nat /\ charged' \in [Request -> Int]
        /\ charged'[r] = charged[r] + quota
        /\ UNCHANGED <<token, tcharged, direct>>
    BY <1>1, <1>6, SessionFundingType
  <2>4. TypeOK'
    BY <1>1, <1>2, <1>3, <2>1, <2>2, <2>3 DEF TypeOK
  <2>5. /\ sess'[r].tok = quota /\ sess'[r].pre = quota
        /\ sess'[r].extra = 0 /\ sess'[r].consumed = quota
        /\ sess'[r].src = sess[r].src /\ sess'[r].src # "none"
        /\ ~sess'[r].settled /\ ~sess'[r].fundingSettled /\ ~sess'[r].refunded
    BY <1>1, <1>4, <2>1 DEF TypeOK, Session
  <2>6. ControlInv(r)'
    BY <1>2, <1>4, <2>2, <2>5 DEF ControlInv, Committed, Unopened, Opening2, Topping, Live, Over
  <2>7. FundingInv(r)'
    BY <1>1, <1>2, <1>4, <2>2, <2>3, <2>5
       DEF FundingInv, Committed, Due, ExtraDue, Pending, Unopened, Opening2, Topping, Live, Over
  <2>8. TokenInv(r)'
    BY <1>1, <1>2, <1>3, <1>4, <2>2, <2>3, <2>5
       DEF TypeOK, TokenInv, TokenDue, Unopened, Opening2, Topping, Live, Over
  <2> QED
    BY <2>4, <2>6, <2>7, <2>8 DEF RequestInv
<1> QED
  BY <1>5, <1>6 DEF PreConsumeFunding

LEMMA UndoTokenInv ==
  ASSUME IInv, NEW r \in Request, UndoToken(r)
  PROVE  TypeOK' /\ RequestInv(r)'
<1> USE DEF call, loop, param, goroutine
<1>1. TypeOK /\ RequestInv(r) /\ -sess[r].tok \in Int
  BY DEF IInv, TypeOK, Session
<1>2. /\ pc[r] \in {"shortfall", "fundingError"}
      /\ UNCHANGED <<tokenSeen, est, arg, param, turns, spent, actual, bg,
                     tries, torn, record>>
      /\ NoFault \/ Fault(r)
  BY DEF UndoToken
<1>3. faults' \in Nat /\ hit' \in SUBSET Request /\ (r \in hit => r \in hit')
  BY <1>1, <1>2, FaultType DEF NoFault, Fault, errors
<1>4. /\ sess' \in [Request -> Session] /\ pc' \in [Request -> Labels]
      /\ Opened(r)
  BY <1>1, <1>2, InsufficientOpens, OpenType DEF UndoToken
<1>5. /\ r \in Playground => tcharged[r] = 0
      /\ r \notin Playground => tcharged[r] >= sess[r].tok
      /\ r \notin Playground /\ r \notin hit => tcharged[r] = sess[r].tok
  BY <1>1, <1>2 DEF RequestInv, ControlInv, TokenInv, TokenDue, Committed,
     Unopened, Opening2, Topping, Live, Over
<1>6. /\ wallet' \in Int /\ used' \in Nat /\ token' \in Int
      /\ tcharged' \in [Request -> Int] /\ UNCHANGED <<charged, direct>>
      /\ r \in Playground => tcharged'[r] = 0
      /\ r \notin Playground =>
           tcharged'[r] >= 0 /\ (r \notin hit' => tcharged'[r] = 0)
  <2>1. CASE SessionToken(r, -sess[r].tok)
    BY <1>1, <1>3, <1>5, <2>1, SessionTokenType DEF TypeOK, Session
  <2>2. CASE Fault(r) /\ UNCHANGED ledger
    BY <1>1, <1>5, <2>2 DEF TypeOK, Session, Fault, ledger, stores
  <2> QED
    BY <2>1, <2>2 DEF UndoToken
<1>7. RequestInv(r)'
  BY <1>1, <1>2, <1>3, <1>4, <1>6, OpenedInv DEF Unopened, Opening2
<1> QED
  BY <1>1, <1>2, <1>3, <1>4, <1>6, <1>7 DEF TypeOK

(* A move of the request between upstream attempts that leaves its session  *)
(* and the ledgers alone.                                                   *)
Idling == Live \ (Topping \cup {"settle"})

LEMMA MoveInv ==
  ASSUME TypeOK, NEW r \in Request, RequestInv(r),
         pc[r] \in Idling, pc'[r] \in Idling \cup {"error", "violation"},
         pc'[r] = "reserveFunding" => sess[r].src # "none",
         UNCHANGED <<sess, charged, tcharged, actual, bg, torn>>,
         r \in hit => r \in hit'
  PROVE  RequestInv(r)'
<1> USE DEF RequestInv, Idling, Unopened, Opening2, Topping, Live, Over
<1>1. /\ actual[r] = -1 /\ bg[r] = "none"
      /\ ~sess[r].settled /\ ~sess[r].fundingSettled /\ ~sess[r].refunded
  BY DEF ControlInv
<1>2. ControlInv(r)'
  BY <1>1 DEF ControlInv, Committed
<1>3. FundingInv(r)'
  BY <1>1 DEF TypeOK, Session, FundingInv, Committed, Due, ExtraDue, Pending
<1>4. TokenInv(r)'
  BY <1>1 DEF TokenInv, TokenDue
<1> QED
  BY <1>2, <1>3, <1>4

LEMMA GetChannelType ==
  ASSUME TypeOK, NEW r \in Request, GetChannel(r)
  PROVE  /\ retry' \in [Request -> Nat \cup {-1}]
         /\ group' \in [Request -> Nat] /\ resetNext' \in [Request -> BOOLEAN]
<1>1. ASSUME NEW count \in Nat \cup {-1}, NEW index \in Nat,
             NEW reset \in BOOLEAN, SetParam(r, count, index, reset)
      PROVE  /\ retry' \in [Request -> Nat \cup {-1}]
             /\ group' \in [Request -> Nat]
             /\ resetNext' \in [Request -> BOOLEAN]
  BY <1>1 DEF SetParam, TypeOK
<1>2. CASE SelectChannel(r)
  <2>1. PICK count \in Nat \cup {-1}, index \in Nat, reset \in BOOLEAN :
               SetParam(r, count, index, reset)
    <3>1. group[r] \in Nat /\ retry[r] \in Nat \cup {-1}
          /\ resetNext[r] \in BOOLEAN
      BY DEF TypeOK
    <3>2. PICK i \in group[r] .. Groups - 1 :
            LET priority == IF i > group[r] THEN 0 ELSE retry[r]
            IN IF CrossGroupRetry /\ priority >= RetryTimes
               THEN SetParam(r, 0, i + 1, TRUE)
               ELSE SetParam(r, priority, i, resetNext[r])
      BY <1>2 DEF SelectChannel
    <3>3. i \in Nat /\ i + 1 \in Nat
      BY <3>1, <3>2, BillingConstants
    <3> QED
      BY <3>1, <3>2, <3>3
  <2> QED
    BY <1>1, <2>1
<1>3. CASE \E i \in 0 .. Groups - 1 : SetParam(r, 0, i, FALSE)
  <2>1. PICK i \in 0 .. Groups - 1 : SetParam(r, 0, i, FALSE)
    BY <1>3
  <2>2. i \in Nat /\ 0 \in Nat \cup {-1} /\ FALSE \in BOOLEAN
    BY <2>1, BillingConstants
  <2> QED
    BY <1>1, <2>1, <2>2
<1> QED
  BY <1>2, <1>3 DEF GetChannel

LEMMA AttemptInv ==
  ASSUME IInv, NEW r \in Request, Attempt(r)
  PROVE  TypeOK' /\ RequestInv(r)'
<1> USE DEF ledger, stores, goroutine
<1>1. TypeOK /\ RequestInv(r)
  BY DEF IInv
<1>2. /\ pc[r] \in {"attempt", "retry"}
      /\ UNCHANGED <<tokenSeen, turns, spent, actual, bg, tries, torn, record,
                     wallet, token, used, charged, tcharged, direct>>
      /\ retry' \in [Request -> Nat \cup {-1}]
      /\ group' \in [Request -> Nat] /\ resetNext' \in [Request -> BOOLEAN]
  <2>1. CASE UNCHANGED param
    BY <1>1, <2>1 DEF TypeOK, Attempt, param
  <2>2. CASE GetChannel(r)
    BY <1>1, <2>2, GetChannelType DEF Attempt
  <2> QED
    BY <2>1, <2>2 DEF Attempt
<1>3. CASE (Goto(r, "error") \/ Goto(r, "upstream"))
           /\ UNCHANGED <<sess, call, errors>>
  <2>1. /\ UNCHANGED <<sess, est, arg, faults, hit>>
        /\ pc' \in [Request -> Labels] /\ pc'[r] \in {"error", "upstream"}
    BY <1>1, <1>3 DEF TypeOK, Goto, Labels, call, errors
  <2>2. RequestInv(r)'
    BY <1>1, <1>2, <2>1, MoveInv DEF Idling, Live, Topping
  <2> QED
    BY <1>1, <1>2, <2>1, <2>2 DEF TypeOK
<1>4. ASSUME NEW target \in Estimates, PrepareTieredBilling(r, target)
      PROVE  TypeOK' /\ RequestInv(r)'
  <2>1. CASE /\ sess[r].src = "none" /\ PreConsumeBilling(r, target)
             /\ UNCHANGED arg
    <3>1. /\ sess' \in [Request -> Session] /\ pc' \in [Request -> Labels]
          /\ Opened(r)
      BY <1>1, <2>1, OpenType DEF PreConsumeBilling
    <3>2. /\ faults' \in Nat /\ hit' \in SUBSET Request
          /\ r \in hit => r \in hit'
      BY <1>1, <2>1, FaultType DEF PreConsumeBilling, NoFault, Fault, errors
    <3>3. est' \in [Request -> Nat]
      BY <1>1, <2>1, BillingConstants DEF TypeOK, PreConsumeBilling
    <3>4. /\ r \in Playground => tcharged'[r] = 0
          /\ r \notin Playground =>
               tcharged'[r] >= 0 /\ (r \notin hit' => tcharged'[r] = 0)
      BY <1>1, <1>2, <2>1, <3>2 DEF RequestInv, ControlInv, TokenInv,
         TokenDue, Committed, NoSession, Unopened, Opening2, Topping, Live, Over
    <3>5. RequestInv(r)'
      BY <1>1, <1>2, <2>1, <3>1, <3>2, <3>4, OpenedInv
    <3> QED
      BY <1>1, <1>2, <2>1, <3>1, <3>2, <3>3, <3>5 DEF TypeOK
  <2>2. CASE /\ sess[r].src # "none"
             /\ Goto(r, "upstream") \/ Goto(r, "reserveFunding")
             /\ UNCHANGED <<sess, est, errors>> /\ arg' \in [Request -> Nat]
    <3>1. /\ UNCHANGED <<faults, hit>> /\ pc' \in [Request -> Labels]
          /\ pc'[r] \in {"upstream", "reserveFunding"}
      BY <1>1, <2>2 DEF TypeOK, Goto, Labels, errors
    <3>2. RequestInv(r)'
      BY <1>1, <1>2, <2>2, <3>1, MoveInv DEF Idling, Live, Topping
    <3> QED
      BY <1>1, <1>2, <2>2, <3>1, <3>2 DEF TypeOK
  <2>3. ~ReserveSkips(r, target) => target - sess[r].pre \in Nat
    BY <1>1, BillingConstants DEF TypeOK, Session, ReserveSkips
  <2> QED
    BY <1>1, <1>4, <2>1, <2>2, <2>3 DEF TypeOK, PrepareTieredBilling
<1> QED
  BY <1>3, <1>4 DEF Attempt

LEMMA ReserveFundingInv ==
  ASSUME IInv, NEW r \in Request, ReserveFunding(r)
  PROVE  TypeOK' /\ RequestInv(r)'
<1> USE DEF call, loop, param, goroutine
<1>1. TypeOK /\ RequestInv(r) /\ arg[r] \in Nat
  BY DEF IInv, TypeOK
<1>2. /\ pc[r] = "reserveFunding"
      /\ UNCHANGED <<tokenSeen, est, arg, param, turns, spent, actual, bg,
                     tries, torn, record>>
      /\ NoFault \/ Fault(r)
  BY DEF ReserveFunding, Declined
<1>3. faults' \in Nat /\ hit' \in SUBSET Request /\ (r \in hit => r \in hit')
  BY <1>1, <1>2, FaultType DEF NoFault, Fault, errors
<1>4. CASE Declined(r, "error")
  <2>1. /\ UNCHANGED <<sess, wallet, token, used, charged, tcharged, direct>>
        /\ pc' \in [Request -> Labels] /\ pc'[r] = "error"
    BY <1>1, <1>4 DEF TypeOK, Declined, Goto, Labels, ledger, stores
  <2>2. RequestInv(r)'
    BY <1>1, <1>2, <1>3, <2>1, MoveInv DEF Idling, Live, Topping
  <2> QED
    BY <1>1, <1>2, <1>3, <2>1, <2>2 DEF TypeOK
<1>5. CASE /\ SessionFunding(r, arg[r]) /\ Goto(r, "reserveToken")
           /\ sess' = IF sess[r].src = "wallet"
                      THEN [sess EXCEPT ![r].consumed = @ + arg[r]] ELSE sess
  <2> DEFINE raised == IF sess[r].src = "wallet"
                       THEN sess[r].consumed + arg[r] ELSE sess[r].consumed
  <2>1. raised \in Nat
    BY <1>1 DEF TypeOK, Session
  <2>2. /\ sess' \in [Request -> Session]
        /\ sess'[r] = [sess[r] EXCEPT !.consumed = raised]
    <3>1. [sess[r] EXCEPT !.consumed = raised] \in Session
      BY <1>1, <2>1, HoldType DEF TypeOK
    <3>2. sess' = [sess EXCEPT ![r] = [sess[r] EXCEPT !.consumed = raised]]
      BY <1>1, <1>5 DEF TypeOK, Session
    <3> QED
      BY <1>1, <3>1, <3>2, SessType DEF TypeOK
  <2>3. /\ wallet' \in Int /\ used' \in Nat /\ charged' \in [Request -> Int]
        /\ charged'[r] = charged[r] + arg[r]
        /\ UNCHANGED <<token, tcharged, direct>>
    BY <1>1, <1>5, SessionFundingType
  <2>4. pc' \in [Request -> Labels] /\ pc'[r] = "reserveToken"
    BY <1>1, <1>5 DEF TypeOK, Goto, Labels
  <2>5. TypeOK'
    BY <1>1, <1>2, <1>3, <2>2, <2>3, <2>4 DEF TypeOK
  <2>6. ControlInv(r)'
    BY <1>1, <1>2, <2>2, <2>4
       DEF TypeOK, Session, RequestInv, ControlInv, Committed, NoSession, Unopened, Opening2, Topping, Live, Over
  <2>7. FundingInv(r)'
    BY <1>1, <1>2, <1>3, <2>2, <2>3, <2>4
       DEF TypeOK, Session, RequestInv, ControlInv, FundingInv, Committed, Due,
           ExtraDue, Pending, Unopened, Opening2, Topping, Live, Over
  <2>8. TokenInv(r)'
    BY <1>1, <1>2, <1>3, <2>2, <2>3, <2>4
       DEF TypeOK, Session, RequestInv, TokenInv, TokenDue, Unopened, Opening2, Topping, Live, Over
  <2> QED
    BY <2>5, <2>6, <2>7, <2>8 DEF RequestInv
<1> QED
  BY <1>4, <1>5 DEF ReserveFunding

LEMMA ReserveTokenInv ==
  ASSUME IInv, NEW r \in Request, ReserveToken(r)
  PROVE  TypeOK' /\ RequestInv(r)'
<1> USE DEF call, loop, param, goroutine
<1>1. TypeOK /\ RequestInv(r) /\ arg[r] \in Nat
  BY DEF IInv, TypeOK
<1>2. /\ pc[r] = "reserveToken"
      /\ UNCHANGED <<tokenSeen, est, arg, param, turns, spent, actual, bg,
                     tries, torn, record>>
      /\ NoFault \/ Fault(r)
  BY DEF ReserveToken, Declined
<1>3. faults' \in Nat /\ hit' \in SUBSET Request /\ (r \in hit => r \in hit')
  BY <1>1, <1>2, FaultType DEF NoFault, Fault, errors
<1>4. CASE Declined(r, "unreserve")
  <2>1. /\ UNCHANGED <<sess, wallet, token, used, charged, tcharged, direct>>
        /\ pc' \in [Request -> Labels] /\ pc'[r] = "unreserve"
    BY <1>1, <1>4 DEF TypeOK, Declined, Goto, Labels, ledger, stores
  <2>2. TypeOK'
    BY <1>1, <1>2, <1>3, <2>1 DEF TypeOK
  <2>3. ControlInv(r)'
    BY <1>1, <1>2, <2>1 DEF RequestInv, ControlInv, Committed, Unopened, Opening2, Topping, Live, Over
  <2>4. FundingInv(r)'
    BY <1>1, <1>2, <1>3, <2>1
       DEF RequestInv, FundingInv, Committed, Due, ExtraDue, Pending, Unopened, Opening2, Topping, Live, Over
  <2>5. TokenInv(r)'
    BY <1>1, <1>2, <1>3, <2>1 DEF RequestInv, TokenInv, TokenDue, Unopened, Opening2, Topping, Live, Over
  <2> QED
    BY <2>2, <2>3, <2>4, <2>5 DEF RequestInv
<1>5. CASE /\ SessionToken(r, arg[r]) /\ Goto(r, "upstream")
           /\ sess' = [sess EXCEPT ![r].pre = @ + arg[r],
                                   ![r].tok = @ + arg[r],
                                   ![r].extra = @ + arg[r]]
           /\ UNCHANGED record
  <2> DEFINE raised == [sess[r] EXCEPT !.pre = sess[r].pre + arg[r],
                                       !.tok = sess[r].tok + arg[r],
                                       !.extra = sess[r].extra + arg[r]]
  <2>1. /\ sess[r].pre + arg[r] \in Nat /\ sess[r].tok + arg[r] \in Nat
        /\ sess[r].extra + arg[r] \in Nat
    BY <1>1 DEF TypeOK, Session
  <2>2. sess' \in [Request -> Session] /\ sess'[r] = raised
    <3>1. raised \in Session
      BY <1>1, <2>1, HoldType DEF TypeOK
    <3>2. sess' = [sess EXCEPT ![r] = raised]
      BY <1>1, <1>5 DEF TypeOK, Session
    <3> QED
      BY <1>1, <3>1, <3>2, SessType DEF TypeOK
  <2>3. /\ token' \in Int /\ tcharged' \in [Request -> Int]
        /\ tcharged'[r] = IF r \in Playground THEN tcharged[r]
                                              ELSE tcharged[r] + arg[r]
        /\ UNCHANGED <<wallet, used, charged, direct>>
    BY <1>1, <1>5, SessionTokenType
  <2>4. pc' \in [Request -> Labels] /\ pc'[r] = "upstream"
    BY <1>1, <1>5 DEF TypeOK, Goto, Labels
  <2>5. TypeOK'
    BY <1>1, <1>2, <1>3, <2>2, <2>3, <2>4 DEF TypeOK
  <2>6. ControlInv(r)'
    BY <1>1, <1>2, <2>2, <2>4
       DEF TypeOK, Session, RequestInv, ControlInv, Committed, Unopened, Opening2, Topping, Live, Over
  <2>7. FundingInv(r)'
    BY <1>1, <1>2, <1>3, <2>2, <2>3, <2>4
       DEF TypeOK, Session, RequestInv, ControlInv, FundingInv, Committed,
           Due, ExtraDue, Pending, Unopened, Opening2, Topping, Live, Over
  <2>8. TokenInv(r)'
    BY <1>1, <1>2, <1>3, <2>2, <2>3, <2>4
       DEF TypeOK, Session, RequestInv, ControlInv, TokenInv, TokenDue, Unopened, Opening2, Topping, Live, Over
  <2> QED
    BY <2>5, <2>6, <2>7, <2>8 DEF RequestInv
<1> QED
  BY <1>4, <1>5 DEF ReserveToken

LEMMA RollbackReserveInv ==
  ASSUME IInv, NEW r \in Request, RollbackReserve(r)
  PROVE  TypeOK' /\ RequestInv(r)'
<1> USE DEF call, loop, param, goroutine
<1>1. TypeOK /\ RequestInv(r) /\ arg[r] \in Nat /\ -arg[r] \in Int
  BY DEF IInv, TypeOK
<1>2. /\ pc[r] = "unreserve"
      /\ UNCHANGED <<tokenSeen, est, arg, param, turns, spent, actual, bg,
                     tries, torn, record>>
      /\ NoFault \/ Fault(r)
  BY DEF RollbackReserve, Declined
<1>3. faults' \in Nat /\ hit' \in SUBSET Request /\ (r \in hit => r \in hit')
  BY <1>1, <1>2, FaultType DEF NoFault, Fault, errors
<1>4. CASE Declined(r, "error") /\ Fault(r)
  <2>1. /\ UNCHANGED <<sess, wallet, token, used, charged, tcharged, direct>>
        /\ pc' \in [Request -> Labels] /\ pc'[r] = "error"
        /\ r \in hit'
    BY <1>1, <1>4 DEF TypeOK, Declined, Goto, Labels, ledger, stores, Fault
  <2>2. TypeOK'
    BY <1>1, <1>2, <1>3, <2>1 DEF TypeOK
  <2>3. ControlInv(r)'
    BY <1>1, <1>2, <2>1 DEF RequestInv, ControlInv, Committed, Unopened, Opening2, Topping, Live, Over
  <2>4. FundingInv(r)'
    BY <1>1, <1>2, <1>3, <2>1 DEF TypeOK, Session, RequestInv, ControlInv,
       FundingInv, Committed, Due, ExtraDue, Pending, Unopened, Opening2, Topping, Live, Over
  <2>5. TokenInv(r)'
    BY <1>1, <1>2, <1>3, <2>1 DEF RequestInv, TokenInv, TokenDue, Unopened, Opening2, Topping, Live, Over
  <2> QED
    BY <2>2, <2>3, <2>4, <2>5 DEF RequestInv
<1>5. CASE /\ SessionFunding(r, -arg[r]) /\ Goto(r, "error")
           /\ sess' = IF sess[r].src = "wallet"
                      THEN [sess EXCEPT ![r].consumed = @ - arg[r]] ELSE sess
           /\ UNCHANGED record
  <2> DEFINE undone == IF sess[r].src = "wallet"
                       THEN sess[r].consumed - arg[r] ELSE sess[r].consumed
  <2>1. undone \in Nat
    <3>1. sess[r].src = "wallet" => sess[r].consumed = sess[r].pre + arg[r]
      BY <1>1, <1>2 DEF RequestInv, FundingInv, Pending, Unopened, Opening2, Topping, Live, Over
    <3> QED
      BY <1>1, <3>1 DEF TypeOK, Session
  <2>2. /\ sess' \in [Request -> Session]
        /\ sess'[r] = [sess[r] EXCEPT !.consumed = undone]
    <3>1. [sess[r] EXCEPT !.consumed = undone] \in Session
      BY <1>1, <2>1, HoldType DEF TypeOK
    <3>2. sess' = [sess EXCEPT ![r] = [sess[r] EXCEPT !.consumed = undone]]
      BY <1>1, <1>5 DEF TypeOK, Session
    <3> QED
      BY <1>1, <3>1, <3>2, SessType DEF TypeOK
  <2>3. /\ wallet' \in Int /\ used' \in Nat /\ charged' \in [Request -> Int]
        /\ charged'[r] = charged[r] - arg[r]
        /\ UNCHANGED <<token, tcharged, direct>>
    BY <1>1, <1>5, SessionFundingType DEF TypeOK
  <2>4. pc' \in [Request -> Labels] /\ pc'[r] = "error"
    BY <1>1, <1>5 DEF TypeOK, Goto, Labels
  <2>5. TypeOK'
    BY <1>1, <1>2, <1>3, <2>2, <2>3, <2>4 DEF TypeOK
  <2>6. ControlInv(r)'
    BY <1>1, <1>2, <2>2, <2>4
       DEF TypeOK, Session, RequestInv, ControlInv, Committed, Unopened, Opening2, Topping, Live, Over
  <2>7. FundingInv(r)'
    BY <1>1, <1>2, <1>3, <2>2, <2>3, <2>4
       DEF TypeOK, Session, RequestInv, ControlInv, FundingInv, Committed,
           Due, ExtraDue, Pending, Unopened, Opening2, Topping, Live, Over
  <2>8. TokenInv(r)'
    BY <1>1, <1>2, <1>3, <2>2, <2>3, <2>4
       DEF TypeOK, Session, RequestInv, ControlInv, TokenInv, TokenDue, Unopened, Opening2, Topping, Live, Over
  <2> QED
    BY <2>5, <2>6, <2>7, <2>8 DEF RequestInv
<1> QED
  BY <1>4, <1>5 DEF RollbackReserve

LEMMA UpstreamServedInv ==
  ASSUME IInv, NEW r \in Request, UpstreamServed(r)
  PROVE  TypeOK' /\ RequestInv(r)'
<1> USE DEF goroutine, ledger, stores, errors
<1>1. TypeOK /\ RequestInv(r)
  BY DEF IInv
<1>2. /\ pc[r] \in {"upstream", "closed"}
      /\ pc' \in [Request -> Labels] /\ pc'[r] = "settle"
      /\ UNCHANGED <<sess, est, tokenSeen, param, turns, spent, bg, tries,
                     torn, record, wallet, token, used, charged, tcharged,
                     direct, faults, hit>>
  BY <1>1 DEF TypeOK, UpstreamServed, Goto, Labels
<1>3. PICK quota \in Nat : /\ arg' = [arg EXCEPT ![r] = quota]
                           /\ actual' = [actual EXCEPT ![r] = quota]
  BY <1>1, BillingConstants DEF TypeOK, UpstreamServed
<1>4. /\ arg' \in [Request -> Nat] /\ actual' \in [Request -> Nat \cup {-1}]
      /\ arg'[r] = quota /\ actual'[r] = quota
  BY <1>1, <1>3 DEF TypeOK
<1>5. TypeOK'
  BY <1>1, <1>2, <1>4 DEF TypeOK, param
<1>6. ControlInv(r)'
  BY <1>1, <1>2, <1>4 DEF RequestInv, ControlInv, Committed, Unopened, Opening2, Topping, Live, Over
<1>7. FundingInv(r)'
  BY <1>1, <1>2, <1>4 DEF RequestInv, ControlInv, FundingInv, Committed, Due,
     ExtraDue, Pending, Unopened, Opening2, Topping, Live, Over
<1>8. TokenInv(r)'
  BY <1>1, <1>2, <1>4 DEF RequestInv, ControlInv, TokenInv, TokenDue, Unopened, Opening2, Topping, Live, Over
<1> QED
  BY <1>5, <1>6, <1>7, <1>8 DEF RequestInv

LEMMA UpstreamFailedInv ==
  ASSUME IInv, NEW r \in Request, UpstreamFailed(r)
  PROVE  TypeOK' /\ RequestInv(r)'
<1> USE DEF call, goroutine, ledger, stores, errors
<1>1. TypeOK /\ RequestInv(r)
  BY DEF IInv
<1>2. /\ pc[r] = "upstream"
      /\ pc' \in [Request -> Labels]
      /\ pc'[r] \in {"retry", "error", "violation"}
      /\ UNCHANGED <<sess, est, arg, tokenSeen, turns, spent, actual, bg,
                     tries, torn, record, wallet, token, used, charged,
                     tcharged, direct, faults, hit>>
  BY <1>1 DEF TypeOK, UpstreamFailed, Goto, Labels
<1>3. /\ retry' \in [Request -> Nat \cup {-1}]
      /\ group' \in [Request -> Nat] /\ resetNext' \in [Request -> BOOLEAN]
  <2>1. CASE IncreaseRetry(r)
    <3>1. retry[r] + 1 \in Nat
      BY <1>1 DEF TypeOK
    <3> QED
      BY <1>1, <2>1, <3>1 DEF TypeOK, IncreaseRetry
  <2>2. CASE UNCHANGED param
    BY <1>1, <2>2 DEF TypeOK, param
  <2> QED
    BY <2>1, <2>2 DEF UpstreamFailed
<1>4. RequestInv(r)'
  BY <1>1, <1>2, MoveInv DEF Idling, Live, Topping
<1> QED
  BY <1>1, <1>2, <1>3, <1>4 DEF TypeOK

(* Usage of a realtime connection is added up and passed on to be charged.  *)
LEMMA WssConsumeType ==
  ASSUME TypeOK, NEW r \in Request, NEW quota \in Nat,
         NEW charging \in Labels, NEW failed \in Labels,
         WssConsume(r, quota, charging, failed)
  PROVE  /\ spent' \in [Request -> Nat] /\ arg' \in [Request -> Nat]
         /\ pc' \in [Request -> Labels] /\ pc'[r] \in {charging, failed}
         /\ NoFault \/ Fault(r)
<1>1. /\ spent' = [spent EXCEPT ![r] = @ + quota]
      /\ arg' = [arg EXCEPT ![r] = quota]
      /\ Goto(r, charging) \/ Goto(r, failed)
      /\ NoFault \/ Fault(r)
  BY DEF WssConsume
<1> QED
  BY <1>1 DEF TypeOK, Goto

LEMMA RealtimeTurnInv ==
  ASSUME IInv, NEW r \in Request, RealtimeTurn(r)
  PROVE  TypeOK' /\ RequestInv(r)'
<1> USE DEF goroutine, ledger, stores, param
<1>1. TypeOK /\ RequestInv(r)
  BY DEF IInv
<1>2. /\ pc[r] = "upstream"
      /\ turns' \in [Request -> Nat]
      /\ UNCHANGED <<sess, est, tokenSeen, param, actual, bg, tries, torn,
                     record, wallet, token, used, charged, tcharged, direct>>
  BY <1>1 DEF TypeOK, RealtimeTurn
<1>3. PICK quota \in Nat : WssConsume(r, quota, "turn", "closing")
  BY BillingConstants DEF RealtimeTurn
<1>4. /\ spent' \in [Request -> Nat] /\ arg' \in [Request -> Nat]
      /\ pc' \in [Request -> Labels] /\ pc'[r] \in {"turn", "closing"}
      /\ NoFault \/ Fault(r)
  <2>1. "turn" \in Labels /\ "closing" \in Labels
    BY DEF Labels
  <2> QED
    BY <1>1, <1>3, <2>1, WssConsumeType
<1>5. faults' \in Nat /\ hit' \in SUBSET Request /\ (r \in hit => r \in hit')
  BY <1>1, <1>4, FaultType DEF NoFault, Fault, errors
<1>6. RequestInv(r)'
  BY <1>1, <1>2, <1>4, <1>5, MoveInv DEF Idling, Live, Topping
<1> QED
  BY <1>1, <1>2, <1>4, <1>5, <1>6 DEF TypeOK

LEMMA FlushTargets ==
  ASSUME TypeOK, NEW r \in Request, RealtimeFlush(r)
  PROVE  /\ spent' \in [Request -> Nat] /\ arg' \in [Request -> Nat]
         /\ pc' \in [Request -> Labels]
         /\ \/ pc[r] = "closing" /\ pc'[r] \in {"rest", "leaving"}
            \/ /\ pc[r] \in {"upstream", "leaving"}
               /\ pc'[r] \in {"flush", "closed"}
         /\ faults' \in Nat /\ hit' \in SUBSET Request
         /\ r \in hit => r \in hit'
<1>1. CASE pc[r] = "closing" /\ WssConsume(r, arg[r], "rest", "leaving")
  <2>1. arg[r] \in Nat
    BY DEF TypeOK
  <2>2. "rest" \in Labels /\ "leaving" \in Labels
    BY DEF Labels
  <2>3. /\ spent' \in [Request -> Nat] /\ arg' \in [Request -> Nat]
        /\ pc' \in [Request -> Labels] /\ pc'[r] \in {"rest", "leaving"}
        /\ NoFault \/ Fault(r)
    BY <1>1, <2>1, <2>2, WssConsumeType
  <2>4. faults' \in Nat /\ hit' \in SUBSET Request /\ (r \in hit => r \in hit')
    BY <2>3, FaultType DEF TypeOK, NoFault, Fault, errors
  <2> QED
    BY <1>1, <2>3, <2>4
<1>2. CASE /\ pc[r] \in {"upstream", "leaving"}
           /\ \E quota \in Actuals \ {0} : WssConsume(r, quota, "flush", "closed")
  <2>1. PICK quota \in Nat : WssConsume(r, quota, "flush", "closed")
    BY <1>2, BillingConstants
  <2>2. "flush" \in Labels /\ "closed" \in Labels
    BY DEF Labels
  <2>3. /\ spent' \in [Request -> Nat] /\ arg' \in [Request -> Nat]
        /\ pc' \in [Request -> Labels] /\ pc'[r] \in {"flush", "closed"}
        /\ NoFault \/ Fault(r)
    BY <2>1, <2>2, WssConsumeType
  <2>4. faults' \in Nat /\ hit' \in SUBSET Request /\ (r \in hit => r \in hit')
    BY <2>3, FaultType DEF TypeOK, NoFault, Fault, errors
  <2> QED
    BY <1>2, <2>3, <2>4
<1>3. CASE /\ pc[r] \in {"upstream", "leaving"} /\ Goto(r, "closed")
           /\ UNCHANGED <<spent, arg, errors>>
  BY <1>3 DEF TypeOK, Goto, Labels, errors
<1> QED
  BY <1>1, <1>2, <1>3 DEF RealtimeFlush

LEMMA RealtimeFlushInv ==
  ASSUME IInv, NEW r \in Request, RealtimeFlush(r)
  PROVE  TypeOK' /\ RequestInv(r)'
<1> USE DEF goroutine, ledger, stores, param
<1>1. TypeOK /\ RequestInv(r)
  BY DEF IInv
<1>2. UNCHANGED <<sess, est, tokenSeen, param, turns, actual, bg, tries, torn,
                  record, wallet, token, used, charged, tcharged, direct>>
  BY DEF RealtimeFlush
<1>3. RequestInv(r)'
  BY <1>1, <1>2, FlushTargets, MoveInv DEF Idling, Live, Topping
<1> QED
  BY <1>1, <1>2, <1>3, FlushTargets DEF TypeOK

(* Refund marks the session exactly if it holds something. *)
LEMMA RefundInv ==
  ASSUME TypeOK, NEW r \in Request, RequestInv(r), Refund(r),
         pc[r] \in {"upstream", "error", "violation"},
         pc'[r] \in {"post", "done"},
         UNCHANGED <<charged, tcharged, actual, hit>>
  PROVE  /\ sess' \in [Request -> Session]
         /\ bg' \in [Request -> {"none", "funding", "extra", "token", "done"}]
         /\ UNCHANGED <<tries, torn>>
         /\ RequestInv(r)'
<1> USE DEF RequestInv
<1>1. /\ actual[r] = -1 /\ bg[r] = "none"
      /\ ~sess[r].settled /\ ~sess[r].fundingSettled /\ ~sess[r].refunded
  BY DEF ControlInv, Unopened, Opening2, Topping, Live, Over
<1>2. UNCHANGED <<tries, torn>>
  BY DEF Refund
<1>3. CASE NeedsRefund(sess[r])
  <2>1. sess' = [sess EXCEPT ![r].refunded = TRUE]
        /\ bg' = [bg EXCEPT ![r] = "funding"]
    BY <1>3 DEF Refund
  <2>2. /\ sess' \in [Request -> Session]
        /\ sess'[r] = [sess[r] EXCEPT !.refunded = TRUE]
    BY <2>1, SessType, FlagType DEF TypeOK
  <2>3. /\ sess'[r].refunded
        /\ sess'[r].settled = sess[r].settled
        /\ sess'[r].fundingSettled = sess[r].fundingSettled
        /\ sess'[r].pre = sess[r].pre /\ sess'[r].tok = sess[r].tok
        /\ sess'[r].extra = sess[r].extra /\ sess'[r].src = sess[r].src
        /\ sess'[r].consumed = sess[r].consumed
    BY <2>2 DEF TypeOK, Session
  <2>4. bg' \in [Request -> {"none", "funding", "extra", "token", "done"}]
        /\ bg'[r] = "funding"
    BY <2>1 DEF TypeOK
  <2>5. sess[r].src # "none"
    BY <1>3 DEF NeedsRefund, ControlInv, NoSession
  <2>6. ControlInv(r)'
    BY <1>1, <2>3, <2>4, <2>5 DEF ControlInv, Committed, NeedsRefund, Unopened, Opening2, Topping, Live, Over
  <2>7. FundingInv(r)'
    BY <1>1, <1>2, <2>3, <2>4
       DEF TypeOK, Session, FundingInv, Committed, Due, ExtraDue, Pending,
           Unopened, Opening2, Topping, Live, Over
  <2>8. TokenInv(r)'
    BY <1>1, <2>3, <2>4 DEF TokenInv, TokenDue, Unopened, Opening2, Topping, Live, Over
  <2> QED
    BY <1>2, <2>2, <2>4, <2>6, <2>7, <2>8
<1>4. CASE ~NeedsRefund(sess[r])
  <2>1. UNCHANGED <<sess, bg>>
    BY <1>4 DEF Refund
  <2>2. ControlInv(r)'
    BY <1>1, <1>4, <2>1 DEF ControlInv, Committed, Unopened, Opening2, Topping, Live, Over
  <2>3. FundingInv(r)'
    BY <1>1, <1>2, <2>1
       DEF TypeOK, Session, FundingInv, Committed, Due, ExtraDue, Pending,
           Unopened, Opening2, Topping, Live, Over
  <2>4. TokenInv(r)'
    BY <1>1, <2>1 DEF TokenInv, TokenDue, Unopened, Opening2, Topping, Live, Over
  <2> QED
    BY <1>2, <2>1, <2>2, <2>3, <2>4 DEF TypeOK
<1> QED
  BY <1>3, <1>4

LEMMA UpstreamAbortedInv ==
  ASSUME IInv, NEW r \in Request, UpstreamAborted(r)
  PROVE  TypeOK' /\ RequestInv(r)'
<1>1. TypeOK /\ RequestInv(r)
  BY DEF IInv
<1>2. /\ pc[r] = "upstream" /\ Refund(r)
      /\ pc' \in [Request -> Labels] /\ pc'[r] = "done"
      /\ UNCHANGED <<tokenSeen, est, arg, param, turns, spent, actual,
                     record, wallet, token, used, charged, tcharged, direct,
                     faults, hit>>
  BY <1>1 DEF TypeOK, UpstreamAborted, Goto, Labels, call, loop, ledger,
     stores, errors
<1> QED
  BY <1>1, <1>2, RefundInv DEF TypeOK, param

LEMMA FinishFailedInv ==
  ASSUME IInv, NEW r \in Request, FinishFailed(r)
  PROVE  TypeOK' /\ RequestInv(r)'
<1>1. TypeOK /\ RequestInv(r)
  BY DEF IInv
<1>2. /\ pc[r] \in {"error", "violation"} /\ Refund(r)
      /\ pc' \in [Request -> Labels] /\ pc'[r] \in {"post", "done"}
      /\ arg' \in [Request -> Nat]
      /\ UNCHANGED <<tokenSeen, est, param, turns, spent, actual,
                     record, wallet, token, used, charged, tcharged, direct,
                     faults, hit>>
  BY <1>1, BillingConstants DEF TypeOK, FinishFailed, Goto, Labels, loop,
     ledger, stores, errors
<1> QED
  BY <1>1, <1>2, RefundInv DEF TypeOK, param

LEMMA SettleFundingInv ==
  ASSUME IInv, NEW r \in Request, SettleFunding(r)
  PROVE  TypeOK' /\ RequestInv(r)'
<1> USE DEF call, loop, param, goroutine
<1> DEFINE delta == arg[r] - sess[r].pre
<1>1. /\ TypeOK /\ RequestInv(r)
      /\ arg[r] \in Nat /\ sess[r].pre \in Nat /\ delta \in Int
  BY DEF IInv, TypeOK, Session
<1>2. /\ pc[r] = "settle"
      /\ UNCHANGED <<tokenSeen, est, arg, param, turns, spent, actual, bg,
                     tries, torn, record>>
      /\ NoFault \/ Fault(r)
  BY DEF SettleFunding, Declined
<1>3. faults' \in Nat /\ hit' \in SUBSET Request /\ (r \in hit => r \in hit')
  BY <1>1, <1>2, FaultType DEF NoFault, Fault, errors
<1>4. /\ actual[r] = arg[r] /\ bg[r] = "none" /\ charged[r] = sess[r].pre
      /\ sess[r].tok = sess[r].pre
      /\ ~sess[r].settled /\ ~sess[r].fundingSettled /\ ~sess[r].refunded
  BY <1>1, <1>2 DEF RequestInv, ControlInv, FundingInv, TokenInv, Pending,
     Unopened, Opening2, Topping, Live, Over
<1>5. CASE Declined(r, "done") \/ Declined(r, "post")
  <2>1. /\ UNCHANGED <<sess, wallet, token, used, charged, tcharged, direct>>
        /\ pc' \in [Request -> Labels] /\ pc'[r] \in {"done", "post"}
    BY <1>1, <1>5 DEF TypeOK, Declined, Goto, Labels, ledger, stores
  <2>2. TypeOK'
    BY <1>1, <1>2, <1>3, <2>1 DEF TypeOK
  <2>3. ControlInv(r)'
    BY <1>1, <1>2, <1>4, <2>1
       DEF RequestInv, ControlInv, Committed, Unopened, Opening2, Topping, Live, Over
  <2>4. FundingInv(r)'
    BY <1>1, <1>2, <1>3, <1>4, <2>1 DEF TypeOK, Session, RequestInv,
       FundingInv, Committed, Due, ExtraDue, Pending, Unopened, Opening2, Topping, Live, Over
  <2>5. TokenInv(r)'
    BY <1>1, <1>2, <1>3, <1>4, <2>1 DEF RequestInv, TokenInv, TokenDue, Unopened, Opening2, Topping, Live, Over
  <2> QED
    BY <2>2, <2>3, <2>4, <2>5 DEF RequestInv
<1>6. CASE /\ sess[r].src # "none" /\ delta = 0 /\ Goto(r, "done")
           /\ sess' = [sess EXCEPT ![r].settled = TRUE]
           /\ UNCHANGED ledger
  <2>1. /\ sess' \in [Request -> Session]
        /\ sess'[r] = [sess[r] EXCEPT !.settled = TRUE]
    BY <1>1, <1>6, SessType, FlagType DEF TypeOK
  <2>2. /\ UNCHANGED <<wallet, token, used, charged, tcharged, direct>>
        /\ pc' \in [Request -> Labels] /\ pc'[r] = "done"
    BY <1>1, <1>6 DEF TypeOK, Goto, Labels, ledger, stores
  <2>3. TypeOK'
    BY <1>1, <1>2, <1>3, <2>1, <2>2 DEF TypeOK
  <2>4. /\ sess'[r].settled /\ ~sess'[r].fundingSettled
        /\ ~sess'[r].refunded /\ sess'[r].tok = sess[r].tok
        /\ sess'[r].src = sess[r].src /\ sess'[r].pre = sess[r].pre
        /\ sess'[r].extra = sess[r].extra
        /\ sess'[r].consumed = sess[r].consumed
    BY <1>1, <1>4, <2>1 DEF TypeOK, Session
  <2>5. arg[r] = sess[r].pre
    BY <1>1, <1>6
  <2>6. ControlInv(r)'
    BY <1>1, <1>2, <1>4, <1>6, <2>2, <2>4
       DEF TypeOK, ControlInv, Committed, NeedsRefund, Unopened, Opening2, Topping, Live, Over
  <2>7. FundingInv(r)'
    BY <1>1, <1>2, <1>3, <1>4, <2>2, <2>4, <2>5
       DEF RequestInv, FundingInv, Committed, Pending, Unopened, Opening2, Topping, Live, Over
  <2>8. TokenInv(r)'
    BY <1>1, <1>2, <1>3, <1>4, <2>2, <2>4, <2>5
       DEF TypeOK, RequestInv, TokenInv, TokenDue, Unopened, Opening2, Topping, Live, Over
  <2> QED
    BY <2>3, <2>6, <2>7, <2>8 DEF RequestInv
<1>7. CASE /\ sess[r].src # "none" /\ SessionFunding(r, delta)
           /\ Goto(r, "settleToken")
           /\ sess' = [sess EXCEPT ![r].fundingSettled = TRUE]
  <2>1. /\ sess' \in [Request -> Session]
        /\ sess'[r] = [sess[r] EXCEPT !.fundingSettled = TRUE]
    BY <1>1, <1>7, SessType, FlagType DEF TypeOK
  <2>2. pc' \in [Request -> Labels] /\ pc'[r] = "settleToken"
    BY <1>1, <1>7 DEF TypeOK, Goto, Labels
  <2>3. /\ wallet' \in Int /\ used' \in Nat /\ charged' \in [Request -> Int]
        /\ charged'[r] = charged[r] + delta
        /\ UNCHANGED <<token, tcharged, direct>>
    BY <1>1, <1>7, SessionFundingType
  <2>4. TypeOK'
    BY <1>1, <1>2, <1>3, <2>1, <2>2, <2>3 DEF TypeOK
  <2>5. /\ ~sess'[r].settled /\ sess'[r].fundingSettled
        /\ ~sess'[r].refunded /\ sess'[r].tok = sess[r].tok
        /\ sess'[r].src = sess[r].src /\ sess'[r].pre = sess[r].pre
        /\ sess'[r].extra = sess[r].extra
        /\ sess'[r].consumed = sess[r].consumed
    BY <1>1, <1>4, <2>1 DEF TypeOK, Session
  <2>6. charged'[r] = actual[r]
    BY <1>1, <1>4, <2>3 DEF TypeOK, Session
  <2>7. ControlInv(r)'
    BY <1>1, <1>2, <1>4, <1>7, <2>2, <2>5
       DEF TypeOK, ControlInv, Committed, Unopened, Opening2, Topping, Live, Over
  <2>8. FundingInv(r)'
    BY <1>1, <1>2, <1>3, <1>4, <2>2, <2>5, <2>6
       DEF RequestInv, FundingInv, Committed, Pending, Unopened, Opening2, Topping, Live, Over
  <2>9. TokenInv(r)'
    BY <1>1, <1>2, <1>3, <1>4, <2>2, <2>3, <2>5
       DEF RequestInv, TokenInv, TokenDue, Unopened, Opening2, Topping, Live, Over
  <2> QED
    BY <2>4, <2>7, <2>8, <2>9 DEF RequestInv
<1>8. sess[r].src # "none" /\ ~(~sess[r].settled /\ delta # 0) => delta = 0
  BY <1>4
<1> QED
  BY <1>5, <1>6, <1>7, <1>8 DEF SettleFunding

LEMMA SettleTokenInv ==
  ASSUME IInv, NEW r \in Request, SettleToken(r)
  PROVE  TypeOK' /\ RequestInv(r)'
<1> USE DEF call, loop, param, goroutine
<1> DEFINE delta == arg[r] - sess[r].pre
<1>1. /\ TypeOK /\ RequestInv(r)
      /\ arg[r] \in Nat /\ sess[r].pre \in Nat /\ delta \in Int
  BY DEF IInv, TypeOK, Session
<1>2. /\ pc[r] = "settleToken"
      /\ pc' \in [Request -> Labels] /\ pc'[r] = "done"
      /\ UNCHANGED <<tokenSeen, est, arg, param, turns, spent, actual, bg,
                     tries, torn, record>>
      /\ NoFault \/ Fault(r)
  BY <1>1 DEF TypeOK, SettleToken, Goto, Labels
<1>3. faults' \in Nat /\ hit' \in SUBSET Request /\ (r \in hit => r \in hit')
  BY <1>1, <1>2, FaultType DEF NoFault, Fault, errors
<1>4. /\ sess' \in [Request -> Session]
      /\ sess'[r] = [sess[r] EXCEPT !.settled = TRUE]
  BY <1>1, SessType, FlagType DEF TypeOK, SettleToken
<1>5. /\ sess'[r].settled
      /\ sess'[r].fundingSettled = sess[r].fundingSettled
      /\ sess'[r].refunded = sess[r].refunded
      /\ sess'[r].tok = sess[r].tok /\ sess'[r].src = sess[r].src
      /\ sess'[r].pre = sess[r].pre /\ sess'[r].extra = sess[r].extra
      /\ sess'[r].consumed = sess[r].consumed
  BY <1>1, <1>4 DEF TypeOK, Session
<1>6. /\ sess[r].fundingSettled /\ ~sess[r].settled /\ bg[r] = "none"
      /\ ~sess[r].refunded /\ sess[r].src # "none"
      /\ actual[r] = arg[r] /\ sess[r].tok = sess[r].pre
  BY <1>1, <1>2
     DEF RequestInv, ControlInv, TokenInv, Committed, NoSession, Unopened, Opening2, Topping, Live, Over
<1>7. /\ wallet' \in Int /\ used' \in Nat /\ token' \in Int
      /\ tcharged' \in [Request -> Int] /\ UNCHANGED <<charged, direct>>
      /\ r \in Playground => tcharged'[r] = 0
      /\ r \notin Playground =>
           tcharged'[r] >= 0 /\ (r \notin hit' => tcharged'[r] = actual[r])
  <2>1. /\ r \in Playground => tcharged[r] = 0
        /\ r \notin Playground => tcharged[r] >= sess[r].pre
        /\ r \notin Playground /\ r \notin hit => tcharged[r] = sess[r].pre
    BY <1>1, <1>2, <1>6 DEF RequestInv, TokenInv, TokenDue
  <2>2. CASE SessionToken(r, delta)
    BY <1>1, <1>3, <1>6, <2>1, <2>2, SessionTokenType DEF TypeOK
  <2>3. CASE r \notin Playground /\ Fault(r) /\ UNCHANGED ledger
    BY <1>1, <2>1, <2>3 DEF TypeOK, Fault, ledger, stores
  <2> QED
    BY <2>2, <2>3 DEF SettleToken
<1>8. TypeOK'
  BY <1>1, <1>2, <1>3, <1>4, <1>7 DEF TypeOK
<1>9. ControlInv(r)'
  BY <1>1, <1>2, <1>5, <1>6
     DEF RequestInv, ControlInv, Committed, NeedsRefund, Unopened, Opening2, Topping, Live, Over
<1>10. FundingInv(r)'
  BY <1>1, <1>2, <1>3, <1>5, <1>6, <1>7
     DEF RequestInv, FundingInv, Committed, Pending, Unopened, Opening2, Topping, Live, Over
<1>11. TokenInv(r)'
  BY <1>1, <1>2, <1>5, <1>6, <1>7
     DEF RequestInv, TokenInv, TokenDue, Unopened, Opening2, Topping, Live, Over
<1> QED
  BY <1>8, <1>9, <1>10, <1>11 DEF RequestInv

(* A charge past the session leaves the session alone. *)
LEMMA OverInv ==
  ASSUME NEW r \in Request, RequestInv(r),
         pc[r] \in {"post", "postToken"}, pc'[r] \in {"postToken", "done"},
         UNCHANGED <<sess, charged, tcharged, actual, bg, torn>>,
         r \in hit => r \in hit'
  PROVE  RequestInv(r)'
<1> USE DEF RequestInv, Unopened, Opening2, Topping, Live, Over
<1>1. ControlInv(r)'
  BY DEF ControlInv, Committed
<1>2. FundingInv(r)'
  BY DEF FundingInv, Committed, Due, ExtraDue, Pending
<1>3. TokenInv(r)'
  BY DEF TokenInv, TokenDue
<1> QED
  BY <1>1, <1>2, <1>3

(* Where a charge past the session leads to. *)
FundingStep(r) ==
  \/ pc[r] = "turn" /\ pc'[r] \in {"turnToken", "closing"}
  \/ pc[r] = "rest" /\ pc'[r] \in {"restToken", "leaving"}
  \/ pc[r] = "flush" /\ pc'[r] \in {"flushToken", "closed"}
  \/ pc[r] = "post" /\ pc'[r] \in {"postToken", "done"}

TokenStep(r) ==
  \/ pc[r] = "turnToken" /\ pc'[r] \in {"upstream", "closing"}
  \/ pc[r] = "restToken" /\ pc'[r] = "leaving"
  \/ pc[r] = "flushToken" /\ pc'[r] = "closed"
  \/ pc[r] = "postToken" /\ pc'[r] = "done"

LEMMA ChargeTargets ==
  ASSUME TypeOK, NEW r \in Request
  PROVE  /\ PostConsumeFunding(r) => FundingStep(r) /\ pc' \in [Request -> Labels]
         /\ PostConsumeToken(r) => TokenStep(r) /\ pc' \in [Request -> Labels]
<1> USE DEF TypeOK, Goto, Labels, Charged, Uncharged
<1>1. ASSUME PostConsumeFunding(r)
      PROVE  FundingStep(r) /\ pc' \in [Request -> Labels]
  <2>1. /\ pc[r] \in Charging
        /\ Goto(r, TokenOf[pc[r]]) \/ Goto(r, Uncharged(pc[r]))
    BY <1>1 DEF PostConsumeFunding, Declined
  <2> QED
    BY <2>1 DEF FundingStep, Charging, TokenOf
<1>2. ASSUME PostConsumeToken(r)
      PROVE  TokenStep(r) /\ pc' \in [Request -> Labels]
  <2>1. /\ pc[r] \in {"turnToken", "restToken", "flushToken", "postToken"}
        /\ Goto(r, Charged(pc[r])) \/ Goto(r, Uncharged(pc[r]))
    BY <1>2 DEF PostConsumeToken, Charging, TokenOf
  <2> QED
    BY <2>1 DEF TokenStep
<1> QED
  BY <1>1, <1>2

LEMMA PostConsumeFundingInv ==
  ASSUME IInv, NEW r \in Request, PostConsumeFunding(r)
  PROVE  TypeOK' /\ RequestInv(r)'
<1> USE DEF call, loop, param, goroutine
<1>1. TypeOK /\ RequestInv(r) /\ arg[r] \in Nat
  BY DEF IInv, TypeOK
<1>2. /\ pc' \in [Request -> Labels]
      /\ FundingStep(r)
      /\ UNCHANGED <<sess, tokenSeen, est, arg, param, turns, spent,
                     actual, bg, tries, torn, record, token, charged,
                     tcharged>>
      /\ NoFault \/ Fault(r)
  BY <1>1, ChargeTargets DEF TypeOK, PostConsumeFunding, Declined, ledger,
     stores
<1>3. faults' \in Nat /\ hit' \in SUBSET Request /\ (r \in hit => r \in hit')
  BY <1>1, <1>2, FaultType DEF NoFault, Fault, errors
<1>4. wallet' \in Int /\ used' \in Nat /\ direct' \in [Request -> Int]
  BY <1>1 DEF TypeOK, PostConsumeFunding, FundingMove, Declined, ledger,
     stores
<1>5. RequestInv(r)'
  BY <1>1, <1>2, <1>3, MoveInv, OverInv
     DEF Idling, Live, Topping, FundingStep, TokenStep
<1> QED
  BY <1>1, <1>2, <1>3, <1>4, <1>5 DEF TypeOK

LEMMA PostConsumeTokenInv ==
  ASSUME IInv, NEW r \in Request, PostConsumeToken(r)
  PROVE  TypeOK' /\ RequestInv(r)'
<1> USE DEF call, loop, param, goroutine
<1>1. TypeOK /\ RequestInv(r) /\ arg[r] \in Nat
  BY DEF IInv, TypeOK
<1>2. /\ pc' \in [Request -> Labels]
      /\ TokenStep(r)
      /\ UNCHANGED <<sess, tokenSeen, est, arg, param, turns, spent,
                     actual, bg, tries, torn, record, wallet, used, charged,
                     tcharged, direct>>
      /\ NoFault \/ Fault(r)
      /\ token' \in Int
  BY <1>1, ChargeTargets DEF TypeOK, PostConsumeToken
<1>3. faults' \in Nat /\ hit' \in SUBSET Request /\ (r \in hit => r \in hit')
  BY <1>1, <1>2, FaultType DEF NoFault, Fault, errors
<1>4. RequestInv(r)'
  BY <1>1, <1>2, <1>3, MoveInv, OverInv
     DEF Idling, Live, Topping, FundingStep, TokenStep
<1> QED
  BY <1>1, <1>2, <1>3, <1>4 DEF TypeOK

(* The goroutine gives back step by step.  What a step hands over with, or  *)
(* fails to give back, never exceeds what is still due.                     *)
LEMMA GoroutineInv ==
  ASSUME TypeOK, NEW r \in Request, RequestInv(r), bg[r] # "none",
         bg'[r] \in {"funding", "extra", "token", "done"},
         UNCHANGED <<pc, sess, actual>>,
         r \in hit => r \in hit',
         torn' = 0 =>
           /\ torn = 0
           /\ charged'[r] >= Due(r)'
           /\ r \notin hit' => charged'[r] = Due(r)',
         r \in Playground => tcharged'[r] = 0,
         r \notin Playground =>
           /\ tcharged'[r] >= 0 /\ tcharged'[r] >= TokenDue(r)'
           /\ r \notin hit' => tcharged'[r] = TokenDue(r)'
  PROVE  RequestInv(r)'
<1> USE DEF RequestInv, Unopened, Opening2, Topping, Live, Over
<1>1. /\ sess[r].refunded /\ ~Committed(sess[r])
      /\ pc[r] \in Over /\ actual[r] = -1
  BY DEF ControlInv
<1>2. ControlInv(r)'
  BY <1>1 DEF ControlInv, Committed
<1>3. FundingInv(r)'
  BY <1>1 DEF FundingInv, Committed, Pending
<1>4. TokenInv(r)'
  BY <1>1 DEF TokenInv, Committed
<1> QED
  BY <1>2, <1>3, <1>4

(* What is still due while the goroutine runs. *)
LEMMA GoroutineDue ==
  ASSUME TypeOK, NEW r \in Request, RequestInv(r), bg[r] # "none"
  PROVE  /\ torn = 0 => charged[r] >= Due(r)
         /\ torn = 0 /\ r \notin hit => charged[r] = Due(r)
         /\ r \in Playground => tcharged[r] = 0
         /\ r \notin Playground => tcharged[r] >= TokenDue(r)
         /\ r \notin Playground /\ r \notin hit => tcharged[r] = TokenDue(r)
         /\ ~sess[r].settled
<1>1. /\ sess[r].refunded /\ ~Committed(sess[r])
      /\ pc[r] \in Over
  BY DEF RequestInv, ControlInv
<1> QED
  BY <1>1 DEF RequestInv, FundingInv, TokenInv, Committed, Unopened, Opening2, Topping, Live, Over

LEMMA RefundWalletInv ==
  ASSUME IInv, NEW r \in Request, RefundWallet(r)
  PROVE  TypeOK' /\ RequestInv(r)'
<1> USE DEF call, loop
<1>1. /\ TypeOK /\ RequestInv(r)
      /\ sess[r].consumed \in Nat /\ sess[r].tok \in Nat
      /\ -sess[r].consumed \in Int
  BY DEF IInv, TypeOK, Session
<1>2. /\ bg[r] = "funding" /\ sess[r].src = "wallet"
      /\ bg' \in [Request -> {"none", "funding", "extra", "token", "done"}]
      /\ bg'[r] = "extra"
      /\ UNCHANGED <<pc, sess, tokenSeen, est, arg, param, turns, spent,
                     actual, tries, torn, record>>
      /\ NoFault \/ Fault(r)
  BY <1>1 DEF TypeOK, RefundWallet, Advance
<1>3. faults' \in Nat /\ hit' \in SUBSET Request /\ (r \in hit => r \in hit')
  BY <1>1, <1>2, FaultType DEF NoFault, Fault, errors
<1>4. /\ wallet' \in Int /\ used' \in Nat /\ charged' \in [Request -> Int]
      /\ UNCHANGED <<token, tcharged, direct>>
      /\ \/ charged'[r] = charged[r] - sess[r].consumed
         \/ charged'[r] = charged[r] /\ r \in hit'
  <2>1. CASE SessionFunding(r, -sess[r].consumed)
    BY <1>1, <2>1, SessionFundingType DEF TypeOK
  <2>2. CASE Fault(r) /\ UNCHANGED ledger
    BY <1>1, <2>2 DEF TypeOK, Fault, ledger, stores
  <2> QED
    BY <2>1, <2>2 DEF RefundWallet
<1>5. Due(r) = sess[r].consumed /\ Due(r)' = 0
  BY <1>1, <1>2 DEF Due, ExtraDue
<1>6. TokenDue(r) = sess[r].tok /\ TokenDue(r)' = sess[r].tok
  BY <1>1, <1>2, GoroutineDue DEF TokenDue
<1>7. charged[r] \in Int /\ tcharged[r] \in Int
  BY <1>1 DEF TypeOK
<1>8. RequestInv(r)'
  <2>1. torn' = 0 =>
          /\ torn = 0
          /\ charged'[r] >= Due(r)'
          /\ r \notin hit' => charged'[r] = Due(r)'
    BY <1>1, <1>2, <1>3, <1>4, <1>5, <1>7, GoroutineDue
  <2>2. /\ r \in Playground => tcharged'[r] = 0
        /\ r \notin Playground =>
             /\ tcharged'[r] >= 0 /\ tcharged'[r] >= TokenDue(r)'
             /\ r \notin hit' => tcharged'[r] = TokenDue(r)'
    BY <1>1, <1>2, <1>3, <1>4, <1>6, <1>7, GoroutineDue
  <2> QED
    BY <1>1, <1>2, <1>3, <2>1, <2>2, GoroutineInv
<1> QED
  BY <1>1, <1>2, <1>3, <1>4, <1>8 DEF TypeOK, param

LEMMA RefundSubscriptionInv ==
  ASSUME IInv, NEW r \in Request, RefundSubscription(r)
  PROVE  TypeOK' /\ RequestInv(r)' /\ torn' <= MaxTorn
<1> USE DEF call, loop
<1>1. /\ TypeOK /\ RequestInv(r) /\ torn \in Nat /\ torn <= MaxTorn
      /\ sess[r].consumed \in Nat /\ sess[r].tok \in Nat
      /\ sess[r].extra \in Nat /\ -sess[r].consumed \in Int
  BY DEF IInv, TypeOK, Session
<1>2. /\ bg[r] = "funding" /\ sess[r].src = "subscription"
      /\ bg' \in [Request -> {"none", "funding", "extra", "token", "done"}]
      /\ bg'[r] \in {"funding", "extra"}
      /\ tries' \in [Request -> Nat]
      /\ record' \in [Request -> {"none", "consumed", "refunded"}]
      /\ UNCHANGED <<pc, sess, tokenSeen, est, arg, param, turns, spent,
                     actual>>
      /\ NoFault \/ Fault(r)
  BY <1>1 DEF TypeOK, RefundSubscription, RetryRefund, Advance
<1>3. faults' \in Nat /\ hit' \in SUBSET Request /\ (r \in hit => r \in hit')
  BY <1>1, <1>2, FaultType DEF NoFault, Fault, errors
<1>4. /\ wallet' \in Int /\ used' \in Nat /\ charged' \in [Request -> Int]
      /\ UNCHANGED <<token, tcharged, direct>>
      /\ torn' \in Nat /\ torn' <= MaxTorn /\ (torn' = 0 => torn = 0)
      /\ \/ /\ charged'[r] = charged[r] - sess[r].consumed
            /\ bg'[r] = "extra"
         \/ charged'[r] = charged[r] /\ r \in hit'
         \/ torn' > 0
  <2>1. CASE /\ SessionFunding(r, -sess[r].consumed) /\ Advance(r, "extra")
             /\ UNCHANGED <<tries, torn>>
    BY <1>1, <2>1, SessionFundingType DEF TypeOK, Advance
  <2>2. CASE Fault(r) /\ UNCHANGED <<torn, ledger>>
    BY <1>1, <2>2 DEF TypeOK, Fault, ledger, stores
  <2>3. CASE /\ torn < MaxTorn /\ torn' = torn + 1
             /\ SessionFunding(r, -sess[r].consumed)
    BY <1>1, <2>3, SessionFundingType, BillingConstants DEF TypeOK
  <2> QED
    BY <2>1, <2>2, <2>3 DEF RefundSubscription
<1>5. /\ Due(r) = sess[r].consumed + sess[r].extra
      /\ Due(r)' = IF bg'[r] = "extra" THEN sess[r].extra ELSE Due(r)
  BY <1>1, <1>2 DEF Due, ExtraDue
<1>6. TokenDue(r) = sess[r].tok /\ TokenDue(r)' = sess[r].tok
  BY <1>1, <1>2, GoroutineDue DEF TokenDue
<1>7. charged[r] \in Int /\ tcharged[r] \in Int
  BY <1>1 DEF TypeOK
<1>8. RequestInv(r)'
  <2>1. torn' = 0 =>
          /\ torn = 0
          /\ charged'[r] >= Due(r)'
          /\ r \notin hit' => charged'[r] = Due(r)'
    BY <1>1, <1>2, <1>3, <1>4, <1>5, <1>7, GoroutineDue
  <2>2. /\ r \in Playground => tcharged'[r] = 0
        /\ r \notin Playground =>
             /\ tcharged'[r] >= 0 /\ tcharged'[r] >= TokenDue(r)'
             /\ r \notin hit' => tcharged'[r] = TokenDue(r)'
    BY <1>1, <1>2, <1>3, <1>4, <1>6, <1>7, GoroutineDue
  <2> QED
    BY <1>1, <1>2, <1>3, <2>1, <2>2, GoroutineInv
<1> QED
  BY <1>1, <1>2, <1>3, <1>4, <1>8 DEF TypeOK, param

LEMMA RefundExtraInv ==
  ASSUME IInv, NEW r \in Request, RefundExtra(r)
  PROVE  TypeOK' /\ RequestInv(r)'
<1> USE DEF call, loop
<1> DEFINE due == ExtraDue(sess[r])
<1>1. /\ TypeOK /\ RequestInv(r) /\ due \in Nat /\ sess[r].tok \in Nat
      /\ -due \in Int
  BY DEF IInv, TypeOK, Session, ExtraDue
<1>2. /\ bg[r] = "extra"
      /\ bg' \in [Request -> {"none", "funding", "extra", "token", "done"}]
      /\ bg'[r] = "token"
      /\ UNCHANGED <<pc, sess, tokenSeen, est, arg, param, turns, spent,
                     actual, tries, torn, record>>
      /\ NoFault \/ Fault(r)
  BY <1>1 DEF TypeOK, RefundExtra, Advance
<1>3. faults' \in Nat /\ hit' \in SUBSET Request /\ (r \in hit => r \in hit')
  BY <1>1, <1>2, FaultType DEF NoFault, Fault, errors
<1>4. /\ wallet' \in Int /\ used' \in Nat /\ charged' \in [Request -> Int]
      /\ UNCHANGED <<token, tcharged, direct>>
      /\ \/ charged'[r] = charged[r] - due
         \/ charged'[r] = charged[r] /\ r \in hit'
  <2>1. CASE SessionFunding(r, -due)
    BY <1>1, <2>1, SessionFundingType DEF TypeOK
  <2>2. CASE Fault(r) /\ UNCHANGED ledger
    BY <1>1, <2>2 DEF TypeOK, Fault, ledger, stores
  <2> QED
    BY <2>1, <2>2 DEF RefundExtra, ExtraDue
<1>5. Due(r) = due /\ Due(r)' = 0
  BY <1>2 DEF Due, ExtraDue
<1>6. TokenDue(r) = sess[r].tok /\ TokenDue(r)' = sess[r].tok
  BY <1>1, <1>2, GoroutineDue DEF TokenDue
<1>7. charged[r] \in Int /\ tcharged[r] \in Int
  BY <1>1 DEF TypeOK
<1>8. RequestInv(r)'
  <2> HIDE DEF due
  <2>1. torn' = 0 =>
          /\ torn = 0
          /\ charged'[r] >= Due(r)'
          /\ r \notin hit' => charged'[r] = Due(r)'
    BY <1>1, <1>2, <1>3, <1>4, <1>5, <1>7, GoroutineDue
  <2>2. /\ r \in Playground => tcharged'[r] = 0
        /\ r \notin Playground =>
             /\ tcharged'[r] >= 0 /\ tcharged'[r] >= TokenDue(r)'
             /\ r \notin hit' => tcharged'[r] = TokenDue(r)'
    BY <1>1, <1>2, <1>3, <1>4, <1>6, <1>7, GoroutineDue
  <2> QED
    BY <1>1, <1>2, <1>3, <2>1, <2>2, GoroutineInv
<1> QED
  BY <1>1, <1>2, <1>3, <1>4, <1>8 DEF TypeOK, param

LEMMA RefundTokenInv ==
  ASSUME IInv, NEW r \in Request, RefundToken(r)
  PROVE  TypeOK' /\ RequestInv(r)'
<1> USE DEF call, loop
<1>1. /\ TypeOK /\ RequestInv(r) /\ sess[r].tok \in Nat
      /\ -sess[r].tok \in Int
  BY DEF IInv, TypeOK, Session
<1>2. /\ bg[r] = "token"
      /\ bg' \in [Request -> {"none", "funding", "extra", "token", "done"}]
      /\ bg'[r] = "done"
      /\ UNCHANGED <<pc, sess, tokenSeen, est, arg, param, turns, spent,
                     actual, tries, torn, record>>
      /\ NoFault \/ Fault(r)
  BY <1>1 DEF TypeOK, RefundToken, Advance
<1>3. faults' \in Nat /\ hit' \in SUBSET Request /\ (r \in hit => r \in hit')
  BY <1>1, <1>2, FaultType DEF NoFault, Fault, errors
<1>4. /\ wallet' \in Int /\ used' \in Nat /\ token' \in Int
      /\ tcharged' \in [Request -> Int] /\ UNCHANGED <<charged, direct>>
      /\ r \in Playground => tcharged'[r] = tcharged[r]
      /\ r \notin Playground =>
           \/ tcharged'[r] = tcharged[r] - sess[r].tok
           \/ tcharged'[r] = tcharged[r] /\ r \in hit'
  <2>1. CASE SessionToken(r, -sess[r].tok)
    BY <1>1, <2>1, SessionTokenType DEF TypeOK
  <2>2. CASE Fault(r) /\ UNCHANGED ledger
    BY <1>1, <2>2 DEF TypeOK, Fault, ledger, stores
  <2> QED
    BY <2>1, <2>2 DEF RefundToken
<1>5. Due(r) = 0 /\ Due(r)' = 0
  BY <1>2 DEF Due
<1>6. TokenDue(r) = sess[r].tok /\ TokenDue(r)' = 0
  BY <1>1, <1>2, GoroutineDue DEF TokenDue
<1>7. charged[r] \in Int /\ tcharged[r] \in Int
  BY <1>1 DEF TypeOK
<1>8. RequestInv(r)'
  <2>1. torn' = 0 =>
          /\ torn = 0
          /\ charged'[r] >= Due(r)'
          /\ r \notin hit' => charged'[r] = Due(r)'
    BY <1>1, <1>2, <1>3, <1>4, <1>5, <1>7, GoroutineDue
  <2>2. /\ r \in Playground => tcharged'[r] = 0
        /\ r \notin Playground =>
             /\ tcharged'[r] >= 0 /\ tcharged'[r] >= TokenDue(r)'
             /\ r \notin hit' => tcharged'[r] = TokenDue(r)'
    BY <1>1, <1>2, <1>3, <1>4, <1>6, <1>7, GoroutineDue
  <2> QED
    BY <1>1, <1>2, <1>3, <2>1, <2>2, GoroutineInv
<1> QED
  BY <1>1, <1>2, <1>3, <1>4, <1>8 DEF TypeOK, param
-----------------------------------------------------------------------------
(* A step of one request leaves every other request alone: what they share  *)
(* is only the balances, and the invariant of a request names none.         *)
Step(r) == PreConsume(r) \/ Relay(r) \/ Settle(r) \/ Goroutine(r)

Untouched(q) ==
  /\ pc'[q] = pc[q] /\ sess'[q] = sess[q] /\ bg'[q] = bg[q]
  /\ est'[q] = est[q] /\ arg'[q] = arg[q] /\ actual'[q] = actual[q]
  /\ charged'[q] = charged[q] /\ tcharged'[q] = tcharged[q]
  /\ q \in hit' <=> q \in hit
  /\ torn' = 0 => torn = 0

LEMMA UntouchedInv ==
  ASSUME NEW q \in Request, RequestInv(q), Untouched(q)
  PROVE  RequestInv(q)'
<1> USE DEF RequestInv, Untouched, Unopened, Opening2, Topping, Live, Over
<1>1. ControlInv(q)'
  BY DEF ControlInv, Committed, NeedsRefund
<1>2. FundingInv(q)'
  BY DEF FundingInv, Committed, Due, ExtraDue, Pending
<1>3. TokenInv(q)'
  BY DEF TokenInv, TokenDue, Effective, Amount
<1> QED
  BY <1>1, <1>2, <1>3

LEMMA OthersUntouched ==
  ASSUME TypeOK, NEW r \in Request, NEW q \in Request, q # r, Step(r)
  PROVE  Untouched(q)
<1> USE DEF TypeOK, Untouched, Goto, NoFault, Fault, Declined, call, loop,
            param, goroutine, ledger, stores, errors
<1>1. CASE PreConsume(r)
  <2> USE DEF Reject, TryWallet, TrySubscription, InsufficientQuota,
              SessionFunding, SessionToken
  <2>1. CASE Arrive(r)
    <3>1. CASE Goto(r, "attempt") /\ UNCHANGED <<sess, est, errors>>
      BY <2>1, <3>1 DEF Arrive
    <3>2. ASSUME NEW quota \in Estimates, PreConsumeBilling(r, quota)
          PROVE  Untouched(q)
      <4>1. UNCHANGED <<arg, actual, bg, torn, charged, tcharged>>
        BY <2>1 DEF Arrive
      <4> QED
        BY <3>2, <4>1, ZenonT(40) DEF PreConsumeBilling
    <3> QED
      BY <2>1, <3>1, <3>2 DEF Arrive
  <2>2. CASE TryWalletCheck(r)
    BY <2>2 DEF TryWalletCheck
  <2>3. CASE PreConsumeToken(r)
    BY <2>3 DEF PreConsumeToken
  <2>4. CASE PreConsumeFunding(r)
    BY <2>4 DEF PreConsumeFunding
  <2>5. CASE UndoToken(r)
    BY <2>5 DEF UndoToken
  <2> QED
    BY <1>1, <2>1, <2>2, <2>3, <2>4, <2>5 DEF PreConsume
<1>2. CASE Relay(r)
  <2> USE DEF SessionFunding, SessionToken
  <2>1. CASE Attempt(r)
    BY <2>1, ZenonT(40) DEF Attempt, PrepareTieredBilling, PreConsumeBilling, Reject,
       TryWallet, TrySubscription
  <2>2. CASE ReserveFunding(r)
    BY <2>2 DEF ReserveFunding
  <2>3. CASE ReserveToken(r)
    BY <2>3 DEF ReserveToken
  <2>4. CASE RollbackReserve(r)
    BY <2>4 DEF RollbackReserve
  <2>5. CASE UpstreamServed(r)
    BY <2>5 DEF UpstreamServed
  <2>6. CASE UpstreamAborted(r)
    BY <2>6 DEF UpstreamAborted, Refund
  <2>7. CASE UpstreamFailed(r)
    BY <2>7 DEF UpstreamFailed
  <2>8. CASE RealtimeTurn(r)
    BY <2>8, BillingConstants DEF RealtimeTurn, WssConsume
  <2>10. CASE RealtimeFlush(r)
    BY <2>10 DEF RealtimeFlush, WssConsume
  <2>9. CASE FinishFailed(r)
    BY <2>9 DEF FinishFailed, Refund
  <2> QED
    BY <1>2, <2>1, <2>2, <2>3, <2>4, <2>5, <2>6, <2>7, <2>8, <2>9, <2>10
       DEF Relay
<1>3. CASE Settle(r)
  <2> USE DEF SessionFunding, SessionToken
  <2>1. CASE SettleFunding(r)
    BY <2>1 DEF SettleFunding
  <2>2. CASE SettleToken(r)
    BY <2>2 DEF SettleToken
  <2>3. CASE PostConsumeFunding(r)
    BY <2>3 DEF PostConsumeFunding
  <2>4. CASE PostConsumeToken(r)
    BY <2>4 DEF PostConsumeToken
  <2> QED
    BY <1>3, <2>1, <2>2, <2>3, <2>4 DEF Settle
<1>4. CASE Goroutine(r)
  <2> USE DEF SessionFunding, SessionToken, Advance
  <2>1. CASE RefundWallet(r)
    BY <2>1 DEF RefundWallet
  <2>2. CASE RefundSubscription(r)
    BY <2>2 DEF RefundSubscription, RetryRefund
  <2>3. CASE RefundExtra(r)
    BY <2>3 DEF RefundExtra
  <2>4. CASE RefundToken(r)
    BY <2>4 DEF RefundToken
  <2> QED
    BY <1>4, <2>1, <2>2, <2>3, <2>4 DEF Goroutine
<1> QED
  BY <1>1, <1>2, <1>3, <1>4 DEF Step

LEMMA StepInv ==
  ASSUME IInv, NEW r \in Request, Step(r)
  PROVE  TypeOK' /\ RequestInv(r)'
<1>1. CASE PreConsume(r)
  BY <1>1, ArriveInv, TryWalletCheckInv, PreConsumeTokenInv,
     PreConsumeFundingInv, UndoTokenInv DEF PreConsume
<1>2. CASE Relay(r)
  BY <1>2, AttemptInv, ReserveFundingInv, ReserveTokenInv,
     RollbackReserveInv, UpstreamServedInv, UpstreamAbortedInv,
     UpstreamFailedInv, RealtimeTurnInv, RealtimeFlushInv, FinishFailedInv
     DEF Relay
<1>3. CASE Settle(r)
  BY <1>3, SettleFundingInv, SettleTokenInv, PostConsumeFundingInv,
     PostConsumeTokenInv DEF Settle
<1>4. CASE Goroutine(r)
  BY <1>4, RefundWalletInv, RefundSubscriptionInv, RefundExtraInv,
     RefundTokenInv DEF Goroutine
<1> QED
  BY <1>1, <1>2, <1>3, <1>4 DEF Step

(* Half-committed refunds stay within their bound. *)
LEMMA TornBound ==
  ASSUME IInv, NEW r \in Request, Step(r)
  PROVE  torn' <= MaxTorn
<1>1. CASE RefundSubscription(r)
  BY <1>1, RefundSubscriptionInv
<1>2. CASE ~RefundSubscription(r)
  <2>1. torn' = torn
    BY <1>2 DEF Step, PreConsume, Relay, Settle, Goroutine, goroutine,
       Arrive, TryWalletCheck, PreConsumeToken, PreConsumeFunding, UndoToken,
       Attempt, ReserveFunding, ReserveToken, RollbackReserve,
       UpstreamServed, UpstreamAborted, UpstreamFailed, RealtimeTurn,
       RealtimeFlush, FinishFailed, Refund, SettleFunding, SettleToken, PostConsumeFunding,
       PostConsumeToken, RefundWallet, RefundExtra, RefundToken
  <2> QED
    BY <2>1 DEF IInv
<1> QED
  BY <1>1, <1>2

(* IInv is inductive. *)
THEOREM Invariance == Spec => []IInv
<1>1. IInv /\ [Next]_vars => IInv'
  <2> SUFFICES ASSUME IInv, [Next]_vars PROVE IInv'
    OBVIOUS
  <2>1. CASE Next
    <3>1. PICK r \in Request : Step(r)
      BY <2>1 DEF Next, Step
    <3>2. ASSUME NEW q \in Request PROVE RequestInv(q)'
      <4>1. CASE q = r
        BY <3>1, <4>1, StepInv
      <4>2. CASE q # r
        BY <3>1, <4>2, OthersUntouched, UntouchedInv DEF IInv
      <4> QED
        BY <4>1, <4>2
    <3> QED
      BY <3>1, <3>2, StepInv, TornBound DEF IInv
  <2>2. CASE UNCHANGED vars
    <3> USE DEF vars, call, loop, param, goroutine, ledger, stores, errors
    <3>1. TypeOK'
      BY <2>2 DEF IInv, TypeOK
    <3>2. ASSUME NEW q \in Request PROVE RequestInv(q)'
      BY <2>2, UntouchedInv DEF IInv, Untouched
    <3> QED
      BY <2>2, <3>1, <3>2 DEF IInv
  <2> QED
    BY <2>1, <2>2
<1> QED
  BY <1>1, InitInv, PTL DEF Spec
-----------------------------------------------------------------------------
(* The types of the state (TypeOK) hold for any number of requests. *)
THEOREM TypeCorrect == Spec => []TypeOK
<1>1. IInv => TypeOK
  BY DEF IInv
<1> QED
  BY <1>1, Invariance, PTL

(* No session is both settled and refunded (BillingSession.Settle, Refund). *)
THEOREM SettlesOrRefunds == Spec => []SettleXorRefund
<1>1. IInv => SettleXorRefund
  BY DEF IInv, RequestInv, ControlInv, Committed, SettleXorRefund
<1> QED
  BY <1>1, Invariance, PTL

(* No interleaving and no number of database errors makes a rollback and a  *)
(* refund together return more than a session took.                         *)
THEOREM NeverOverRefunds == Spec => []NoOverRefund
<1>1. ASSUME IInv, torn = 0, NEW r \in Request
      PROVE  charged[r] >= 0 /\ tcharged[r] >= 0
  <2>1. /\ TypeOK /\ RequestInv(r) /\ actual[r] \in Nat \cup {-1}
        /\ sess[r].consumed \in Nat /\ sess[r].extra \in Nat
        /\ charged[r] \in Int
    BY <1>1 DEF IInv, TypeOK, Session
  <2>2. CASE Committed(sess[r])
    BY <2>1, <2>2 DEF RequestInv, ControlInv, FundingInv, TokenInv
  <2>3. CASE ~Committed(sess[r])
    <3>1. Due(r) >= 0
      BY <2>1 DEF Due, ExtraDue
    <3>2. Due(r) \in Int /\ charged[r] >= Due(r)
      BY <1>1, <2>1, <2>3 DEF RequestInv, FundingInv, Due, ExtraDue
    <3> QED
      BY <2>1, <3>1, <3>2 DEF RequestInv, TokenInv
  <2> QED
    BY <2>2, <2>3
<1>2. IInv => NoOverRefund
  BY <1>1 DEF NoOverRefund
<1> QED
  BY <1>2, Invariance, PTL

(* Every settled session was charged the cost of its answer, whatever it    *)
(* had reserved and however often it was topped up.                         *)
THEOREM SettlesAtCost == Spec => []SettledAtCost
<1>1. ASSUME IInv, NEW r \in Request, sess[r].settled
      PROVE  /\ charged[r] = actual[r]
             /\ r \notin hit \cup Playground => tcharged[r] = actual[r]
  <2>1. RequestInv(r)
    BY <1>1 DEF IInv
  <2>2. Committed(sess[r])
    BY <1>1 DEF Committed
  <2>3. TokenDue(r) = actual[r]
    BY <1>1 DEF TokenDue
  <2> QED
    BY <2>1, <2>2, <2>3 DEF RequestInv, FundingInv, TokenInv
<1>2. IInv => SettledAtCost
  BY <1>1 DEF SettledAtCost
<1> QED
  BY <1>2, Invariance, PTL

(* A request that failed or was aborted without a database error has given  *)
(* everything back once its goroutine is through.                           *)
THEOREM FailuresAreFree == Spec => []FailureCostsNothing
<1>1. ASSUME IInv, NEW r \in Request, pc[r] = "done",
             bg[r] \in {"none", "done"}, actual[r] = -1, r \notin hit,
             torn = 0
      PROVE  charged[r] = 0 /\ tcharged[r] = 0
  <2>1. /\ TypeOK /\ RequestInv(r)
        /\ sess[r].src \in {"none", "wallet", "subscription"}
        /\ sess[r].consumed \in Nat /\ sess[r].extra \in Nat
        /\ sess[r].tok \in Nat /\ sess[r].pre \in Nat
    BY <1>1 DEF IInv, TypeOK, Session
  <2>2. /\ ~Committed(sess[r]) /\ ~sess[r].settled
        /\ charged[r] = Due(r) /\ sess[r].tok = sess[r].pre
    BY <1>1, <2>1
       DEF RequestInv, ControlInv, FundingInv, TokenInv, Committed, Unopened, Opening2, Topping, Live, Over
  <2>3. CASE bg[r] = "done"
    BY <1>1, <2>1, <2>2, <2>3 DEF RequestInv, TokenInv, Due, TokenDue
  <2>4. CASE bg[r] = "none"
    <3>1. ~NeedsRefund(sess[r]) /\ ~sess[r].refunded
      BY <1>1, <2>1, <2>4 DEF RequestInv, ControlInv, Over
    <3>2. sess[r].tok = 0
      BY <2>1, <2>2, <3>1 DEF NeedsRefund, Committed
    <3>3. sess[r].consumed + ExtraDue(sess[r]) = 0
      BY <1>1, <2>1, <2>2, <3>2
         DEF RequestInv, FundingInv, Pending, ExtraDue, Topping
    <3>4. Due(r) = 0 /\ TokenDue(r) = 0
      BY <2>2, <2>4, <3>2, <3>3 DEF Due, TokenDue
    <3> QED
      BY <1>1, <2>1, <2>2, <3>4 DEF RequestInv, TokenInv
  <2> QED
    BY <1>1, <2>3, <2>4
<1>2. IInv => FailureCostsNothing
  BY <1>1 DEF FailureCostsNothing
<1> QED
  BY <1>2, Invariance, PTL
-----------------------------------------------------------------------------
(* A settled session, and one whose goroutine is through, is never charged  *)
(* or refunded again: neither the deferred function of Relay nor a late     *)
(* settlement reaches it.                                                   *)
LEMMA ClosedStep ==
  ASSUME IInv, NEW r \in Request, Closed(r), Step(r)
  PROVE  charged'[r] = charged[r] /\ tcharged'[r] = tcharged[r]
<1>1. pc[r] \in Over /\ bg[r] \in {"none", "done"}
  BY DEF IInv, RequestInv, ControlInv, Closed, Over, Committed
<1>2. PostConsumeFunding(r) \/ PostConsumeToken(r)
  BY <1>1 DEF Over, Step, PreConsume, Relay, Settle, Goroutine, Arrive,
     TryWalletCheck, PreConsumeToken, PreConsumeFunding, UndoToken, Attempt,
     ReserveFunding, ReserveToken, RollbackReserve, UpstreamServed,
     UpstreamAborted, UpstreamFailed, RealtimeTurn, RealtimeFlush, FinishFailed,
     SettleFunding, SettleToken, RefundWallet, RefundSubscription,
     RefundExtra, RefundToken
<1>3. CASE PostConsumeFunding(r)
  BY <1>3 DEF PostConsumeFunding, Declined, ledger
<1>4. CASE PostConsumeToken(r)
  BY <1>4 DEF PostConsumeToken
<1> QED
  BY <1>2, <1>3, <1>4

THEOREM ClosedStaysClosed == Spec => ClosedIsFinal
<1>1. IInv /\ [Next]_vars =>
        [\A r \in Request :
           Closed(r) => UNCHANGED <<charged[r], tcharged[r]>>]_vars
  <2> SUFFICES ASSUME IInv, Next, NEW r \in Request, Closed(r)
               PROVE  UNCHANGED <<charged[r], tcharged[r]>>
    OBVIOUS
  <2>1. PICK p \in Request : Step(p)
    BY DEF Next, Step
  <2>2. CASE p = r
    BY <2>1, <2>2, ClosedStep
  <2>3. CASE p # r
    BY <2>1, <2>3, OthersUntouched DEF IInv, Untouched
  <2> QED
    BY <2>2, <2>3
<1> QED
  BY <1>1, Invariance, PTL DEF Spec, ClosedIsFinal
-----------------------------------------------------------------------------
(* The session implements QuotaHold.  Each step of a request is one of the  *)
(* moves of its hold.                                                       *)
Ph(r) == Phase(sess[r])

HoldMove(r) ==
  \/ Ph(r) = "open" /\ Ph(r)' = "open" /\ actual'[r] = actual[r]
  \/ /\ Ph(r) = "open" /\ Ph(r)' = "open"
     /\ actual[r] = -1 /\ actual'[r] \in Nat /\ charged'[r] = charged[r]
  \/ Ph(r) = "open" /\ Ph(r)' = "committed" /\ actual'[r] = actual[r]
  \/ /\ Ph(r) = "open" /\ Ph(r)' = "returning"
     /\ actual[r] = -1 /\ actual'[r] = -1 /\ charged'[r] = charged[r]
  \/ /\ Ph(r) = "returning" /\ Ph(r)' = "returning"
     /\ actual'[r] = actual[r] /\ charged'[r] <= charged[r]
  \/ /\ Ph(r) = "committed" /\ Ph(r)' = "committed"
     /\ actual'[r] = actual[r] /\ charged'[r] = charged[r]

(* As long as a session is open its request has no flag set. *)
LEMMA OpenPhase ==
  ASSUME NEW r \in Request, ControlInv(r)
  PROVE  /\ pc[r] \notin Over \cup {"settleToken"} => Ph(r) = "open"
         /\ bg[r] # "none" => Ph(r) = "returning"
         /\ sess[r] = NoSession => Ph(r) = "open"
         /\ pc[r] = "settleToken" => Ph(r) = "committed"
         /\ sess[r].refunded => actual[r] = -1
BY DEF ControlInv, Committed, Ph, Phase, NoSession, Over

LEMMA PreConsumeMove ==
  ASSUME IInv, IInv', NEW r \in Request, PreConsume(r)
  PROVE  HoldMove(r)
<1>1. TypeOK /\ ControlInv(r) /\ ControlInv(r)'
  BY DEF IInv, RequestInv
<1>2. pc[r] \in Unopened /\ actual'[r] = actual[r]
  BY DEF PreConsume, Arrive, TryWalletCheck, PreConsumeToken,
     PreConsumeFunding, UndoToken, loop, Unopened, Opening2
<1>3. Ph(r) = "open"
  BY <1>1, <1>2, OpenPhase DEF Unopened, Opening2, Over
<1>4. pc'[r] \notin Over \cup {"settleToken"} \/ sess'[r] = NoSession
  <2>1. CASE Arrive(r)
    <3>1. CASE Goto(r, "attempt")
      BY <1>1, <3>1 DEF TypeOK, Goto, Over
    <3>2. CASE \E quota \in Estimates : PreConsumeBilling(r, quota)
      <4>1. TryWallet(r) \/ TrySubscription(r) \/ Reject(r)
        BY <3>2 DEF PreConsumeBilling
      <4>2. Opened(r)
        BY <1>1, <4>1, OpenType
      <4> QED
        BY <4>2 DEF Opened, Over
    <3> QED
      BY <2>1, <3>1, <3>2 DEF Arrive
  <2>2. CASE InsufficientQuota(r, sess[r].src) \/ Reject(r)
             \/ InsufficientQuota(r, "wallet")
    <3>1. Opened(r)
      BY <1>1, <2>2, InsufficientOpens, OpenType
    <3> QED
      BY <3>1 DEF Opened, Over
  <2>3. CASE \/ Goto(r, "token") \/ Goto(r, "funding")
             \/ Goto(r, IF InLoop(r) THEN "upstream" ELSE "attempt")
             \/ Goto(r, "shortfall") \/ Goto(r, "fundingError")
    BY <1>1, <2>3 DEF TypeOK, Goto, Over
  <2>4. CASE TryWalletCheck(r)
    BY <2>2, <2>3, <2>4 DEF TryWalletCheck
  <2>5. CASE PreConsumeToken(r)
    BY <2>2, <2>3, <2>5 DEF PreConsumeToken
  <2>6. CASE PreConsumeFunding(r)
    BY <2>3, <2>6 DEF PreConsumeFunding, Declined
  <2>7. CASE UndoToken(r)
    BY <2>2, <2>7 DEF UndoToken
  <2> QED
    BY <2>1, <2>4, <2>5, <2>6, <2>7 DEF PreConsume
<1>5. Ph(r)' = "open"
  BY <1>1, <1>4, OpenPhase DEF ControlInv, Committed, Ph, Phase, NoSession, Over
<1> QED
  BY <1>2, <1>3, <1>5 DEF HoldMove

LEMMA RelayMove ==
  ASSUME IInv, IInv', NEW r \in Request, Relay(r)
  PROVE  HoldMove(r)
<1>1. TypeOK /\ ControlInv(r) /\ ControlInv(r)'
  BY DEF IInv, RequestInv
<1>2. pc[r] \in Live \cup {"error", "violation"} /\ pc[r] # "settle"
  BY DEF Relay, Attempt, ReserveFunding, ReserveToken, RollbackReserve,
     UpstreamServed, UpstreamAborted, UpstreamFailed, RealtimeTurn,
     RealtimeFlush, FinishFailed, Live, Topping
<1>3. Ph(r) = "open" /\ actual[r] = -1
  BY <1>1, <1>2, OpenPhase DEF ControlInv, Unopened, Opening2, Topping, Live, Over
<1>4. CASE UpstreamAborted(r) \/ FinishFailed(r)
  <2>1. UNCHANGED <<actual, charged>> /\ Refund(r)
    BY <1>4 DEF UpstreamAborted, FinishFailed, loop, ledger
  <2>2. Ph(r)' \in {"open", "returning"}
    BY <1>1, <1>3, <2>1 DEF ControlInv, Committed, Ph, Phase
  <2> QED
    BY <1>3, <2>1, <2>2 DEF HoldMove
<1>5. CASE UpstreamServed(r)
  <2>1. actual'[r] \in Nat /\ UNCHANGED <<sess, charged>>
    BY <1>1, <1>5, BillingConstants DEF TypeOK, UpstreamServed, ledger
  <2> QED
    BY <1>3, <2>1 DEF HoldMove, Ph
<1>6. CASE \/ Attempt(r) \/ ReserveFunding(r) \/ ReserveToken(r)
           \/ RollbackReserve(r) \/ UpstreamFailed(r) \/ RealtimeTurn(r)
           \/ RealtimeFlush(r)
  <2>1. actual'[r] = actual[r]
    BY <1>6 DEF Attempt, ReserveFunding, ReserveToken, RollbackReserve,
       UpstreamFailed, RealtimeTurn, RealtimeFlush, loop
  <2>2. pc'[r] \notin Over \cup {"settleToken"} \/ sess'[r] = NoSession
    <3>1. CASE Attempt(r)
      <4>1. CASE Goto(r, "error") \/ Goto(r, "upstream")
                 \/ Goto(r, "reserveFunding")
        BY <1>1, <4>1 DEF TypeOK, Goto, Over
      <4>2. CASE \E target \in Estimates : PreConsumeBilling(r, target)
        <5>1. TryWallet(r) \/ TrySubscription(r) \/ Reject(r)
          BY <4>2 DEF PreConsumeBilling
        <5>2. Opened(r)
          BY <1>1, <5>1, OpenType
        <5> QED
          BY <5>2 DEF Opened, Over
      <4> QED
        BY <3>1, <4>1, <4>2 DEF Attempt, PrepareTieredBilling
    <3>2. CASE ~Attempt(r)
      BY <1>1, <1>6, <3>2 DEF TypeOK, ReserveFunding, ReserveToken,
         RollbackReserve, UpstreamFailed, RealtimeTurn, RealtimeFlush,
         WssConsume, Declined, Goto, Over
    <3> QED
      BY <3>1, <3>2
  <2>3. Ph(r)' = "open"
    BY <1>1, <2>2 DEF ControlInv, Committed, Ph, Phase, NoSession, Over
  <2> QED
    BY <1>3, <2>1, <2>3 DEF HoldMove
<1> QED
  BY <1>4, <1>5, <1>6 DEF Relay

LEMMA SettleMove ==
  ASSUME IInv, IInv', NEW r \in Request, Settle(r)
  PROVE  HoldMove(r)
<1>1. TypeOK /\ ControlInv(r) /\ ControlInv(r)' /\ charged[r] \in Int
  BY DEF IInv, RequestInv, TypeOK
<1>2. actual'[r] = actual[r]
  BY DEF Settle, SettleFunding, SettleToken, PostConsumeFunding,
     PostConsumeToken, loop
<1>3. CASE SettleFunding(r)
  <2>1. Ph(r) = "open"
    BY <1>1, <1>3, OpenPhase DEF SettleFunding, Over
  <2>2. Ph(r)' \in {"open", "committed"}
    BY <1>1, <1>3, <2>1 DEF TypeOK, Session, SettleFunding, Declined, Ph, Phase
  <2> QED
    BY <1>2, <2>1, <2>2 DEF HoldMove
<1>4. CASE SettleToken(r)
  <2>1. Ph(r) = "committed" /\ charged'[r] = charged[r]
    BY <1>1, <1>4, OpenPhase
       DEF SettleToken, SessionToken, ledger
  <2>2. Ph(r)' = "committed"
    BY <1>1, <1>4 DEF TypeOK, Session, SettleToken, Ph, Phase
  <2> QED
    BY <1>2, <2>1, <2>2 DEF HoldMove
<1>5. CASE PostConsumeFunding(r) \/ PostConsumeToken(r)
  <2>1. UNCHANGED <<sess, charged>>
    BY <1>5 DEF PostConsumeFunding, PostConsumeToken, Declined, ledger
  <2>2. Ph(r)' = Ph(r) /\ Ph(r) \in {"open", "returning", "committed"}
    BY <2>1 DEF Ph, Phase
  <2> QED
    BY <1>1, <1>2, <2>1, <2>2 DEF HoldMove
<1> QED
  BY <1>3, <1>4, <1>5 DEF Settle

LEMMA GoroutineMove ==
  ASSUME IInv, NEW r \in Request, Goroutine(r)
  PROVE  HoldMove(r)
<1>1. TypeOK /\ ControlInv(r) /\ charged[r] \in Int
      /\ sess[r].consumed \in Nat /\ sess[r].extra \in Nat
  BY DEF IInv, RequestInv, TypeOK, Session
<1>2. bg[r] # "none" /\ UNCHANGED <<sess, actual>>
  BY DEF Goroutine, RefundWallet, RefundSubscription, RefundExtra,
     RefundToken, loop
<1>3. Ph(r) = "returning" /\ Ph(r)' = "returning"
  BY <1>1, <1>2, OpenPhase DEF Ph
<1>4. charged'[r] <= charged[r]
  <2>1. ASSUME NEW quota \in Nat, SessionFunding(r, -quota)
        PROVE  charged'[r] <= charged[r]
    <3>1. -quota \in Int
      OBVIOUS
    <3>2. charged'[r] = charged[r] - quota
      BY <1>1, <2>1, <3>1, SessionFundingType
    <3> QED
      BY <1>1, <3>2
  <2>2. CASE UNCHANGED charged
    BY <1>1, <2>2
  <2>3. CASE RefundWallet(r)
    BY <1>1, <2>1, <2>2, <2>3 DEF RefundWallet, ledger
  <2>4. CASE RefundSubscription(r)
    BY <1>1, <2>1, <2>2, <2>4 DEF RefundSubscription, ledger
  <2>5. CASE RefundExtra(r)
    BY <1>1, <2>1, <2>2, <2>5 DEF RefundExtra, ledger
  <2>6. CASE RefundToken(r)
    BY <1>1, <2>2, <2>6 DEF RefundToken, SessionToken, ledger
  <2> QED
    BY <2>3, <2>4, <2>5, <2>6 DEF Goroutine
<1> QED
  BY <1>2, <1>3, <1>4 DEF HoldMove

LEMMA ChargedNat ==
  ASSUME IInv, torn = 0, NEW r \in Request
  PROVE  charged[r] \in Nat
<1>1. /\ TypeOK /\ RequestInv(r) /\ actual[r] \in Nat \cup {-1}
      /\ sess[r].consumed \in Nat /\ sess[r].extra \in Nat
      /\ charged[r] \in Int
  BY DEF IInv, TypeOK, Session
<1>2. CASE Committed(sess[r])
  BY <1>1, <1>2 DEF RequestInv, ControlInv, FundingInv
<1>3. CASE ~Committed(sess[r])
  BY <1>1, <1>3 DEF RequestInv, FundingInv, Due, ExtraDue
<1> QED
  BY <1>2, <1>3

LEMMA ChargedNatNext ==
  ASSUME IInv', torn' = 0, NEW r \in Request
  PROVE  charged'[r] \in Nat
<1>1. /\ TypeOK' /\ RequestInv(r)' /\ actual'[r] \in Nat \cup {-1}
      /\ sess'[r].consumed \in Nat /\ sess'[r].extra \in Nat
      /\ charged'[r] \in Int
  BY DEF IInv, TypeOK, Session
<1>2. CASE Committed(sess[r])'
  BY <1>1, <1>2 DEF RequestInv, ControlInv, FundingInv
<1>3. CASE ~Committed(sess[r])'
  BY <1>1, <1>3 DEF RequestInv, FundingInv, Due, ExtraDue
<1> QED
  BY <1>2, <1>3

(* The session implements the hold: without half-committed refunds, every   *)
(* behaviour of BillingSession is one of QuotaHold under the mapping of     *)
(* HoldSpec, so whoever calls it may rely on the three phases alone.        *)
THEOREM ImplementsHold == ASSUME MaxTorn = 0 PROVE Spec => KeepsPromise
<1> DEFINE phaseOf == [r \in Request |-> Phase(sess[r])]
<1>1. Init => HoldSpec!Init
  BY DEF Init, HoldSpec!Init, Phase, NoSession
<1>2. IInv /\ IInv' /\ [Next]_vars => [HoldSpec!Next]_HoldSpec!vars
  <2> SUFFICES ASSUME IInv, IInv', [Next]_vars
               PROVE  [HoldSpec!Next]_HoldSpec!vars
    OBVIOUS
  <2>1. CASE UNCHANGED vars
    BY <2>1 DEF vars, ledger, loop, HoldSpec!vars
  <2>2. CASE Next
    <3>1. PICK r \in Request : Step(r)
      BY <2>2 DEF Next, Step
    <3>2. torn = 0 /\ torn' = 0
      BY DEF IInv, TypeOK
    <3>3. HoldMove(r)
      BY <3>1, PreConsumeMove, RelayMove, SettleMove, GoroutineMove DEF Step
    <3>4. /\ charged[r] \in Nat /\ charged'[r] \in Nat
          /\ Ph(r)' = "committed" => charged'[r] = actual'[r] /\ actual'[r] # -1
      <4>1. charged[r] \in Nat
        BY <3>2, ChargedNat
      <4>2. charged'[r] \in Nat
        BY <3>2, ChargedNatNext
      <4>3. Ph(r)' = "committed" => Committed(sess[r])'
        BY DEF Ph, Phase, Committed
      <4> QED
        BY <4>1, <4>2, <4>3 DEF IInv, RequestInv, ControlInv, FundingInv
    <3>5. /\ phaseOf' = [phaseOf EXCEPT ![r] = Ph(r)']
          /\ charged' = [charged EXCEPT ![r] = charged'[r]]
          /\ actual' = [actual EXCEPT ![r] = actual'[r]]
      <4>1. \A q \in Request \ {r} : Untouched(q)
        BY <3>1, OthersUntouched DEF IInv
      <4>2. \A q \in Request \ {r} : phaseOf'[q] = phaseOf[q]
        BY <4>1 DEF Untouched
      <4>3. phaseOf'[r] = Ph(r)'
        BY DEF Ph
      <4>4. phaseOf' = [phaseOf EXCEPT ![r] = Ph(r)']
        BY <4>2, <4>3
      <4>5. charged' = [charged EXCEPT ![r] = charged'[r]]
        BY <4>1 DEF IInv, TypeOK, Untouched
      <4>6. actual' = [actual EXCEPT ![r] = actual'[r]]
        BY <4>1 DEF IInv, TypeOK, Untouched
      <4> QED
        BY <4>4, <4>5, <4>6
    <3>6. phaseOf[r] = Ph(r)
      BY DEF Ph
    <3>7. HoldSpec!Next \/ UNCHANGED HoldSpec!vars
      <4>1. /\ charged \in [Request -> Int]
            /\ actual \in [Request -> Nat \cup {-1}]
        BY DEF IInv, TypeOK
      <4>2. Ph(r)' = Ph(r) => phaseOf' = phaseOf
        BY <3>5, <3>6
      <4>3. charged'[r] = charged[r] => charged' = charged
        BY <3>5, <4>1
      <4>4. actual'[r] = actual[r] => actual' = actual
        BY <3>5, <4>1
      <4>5. CASE Ph(r) = "open" /\ Ph(r)' = "open" /\ actual'[r] = actual[r]
        <5>1. HoldSpec!Hold(r)
          BY <3>4, <3>5, <3>6, <4>2, <4>4, <4>5
             DEF HoldSpec!Hold, HoldSpec!Renewed
        <5> QED
          BY <5>1 DEF HoldSpec!Next
      <4>6. CASE /\ Ph(r) = "open" /\ Ph(r)' = "open" /\ actual[r] = -1
                 /\ actual'[r] \in Nat /\ charged'[r] = charged[r]
        <5>1. HoldSpec!Serve(r)
          BY <3>5, <3>6, <4>2, <4>3, <4>6 DEF HoldSpec!Serve, HoldSpec!Renewed
        <5> QED
          BY <5>1 DEF HoldSpec!Next
      <4>7. CASE /\ Ph(r) = "open" /\ Ph(r)' = "committed"
                 /\ actual'[r] = actual[r]
        <5>1. HoldSpec!Commit(r)
          BY <3>4, <3>5, <3>6, <4>4, <4>7 DEF HoldSpec!Commit
        <5> QED
          BY <5>1 DEF HoldSpec!Next
      <4>8. CASE /\ Ph(r) = "open" /\ Ph(r)' = "returning" /\ actual[r] = -1
                 /\ actual'[r] = -1 /\ charged'[r] = charged[r]
        <5>1. HoldSpec!Return(r)
          BY <3>5, <3>6, <4>3, <4>4, <4>8 DEF HoldSpec!Return
        <5> QED
          BY <5>1 DEF HoldSpec!Next
      <4>9. CASE /\ Ph(r) = "returning" /\ Ph(r)' = "returning"
                 /\ actual'[r] = actual[r] /\ charged'[r] <= charged[r]
        <5>1. CASE charged'[r] = charged[r]
          BY <4>2, <4>3, <4>4, <4>9, <5>1 DEF HoldSpec!vars
        <5>2. CASE charged'[r] # charged[r]
          <6>1. charged'[r] < charged[r]
            BY <3>4, <4>9, <5>2
          <6>2. HoldSpec!GiveBack(r)
            BY <3>4, <3>5, <3>6, <4>2, <4>4, <4>9, <6>1
               DEF HoldSpec!GiveBack, HoldSpec!Renewed
          <6> QED
            BY <6>2 DEF HoldSpec!Next
        <5> QED
          BY <5>1, <5>2
      <4>10. CASE /\ Ph(r) = "committed" /\ Ph(r)' = "committed"
                  /\ actual'[r] = actual[r] /\ charged'[r] = charged[r]
        BY <4>2, <4>3, <4>4, <4>10 DEF HoldSpec!vars
      <4> QED
        BY <3>3, <4>5, <4>6, <4>7, <4>8, <4>9, <4>10 DEF HoldMove
    <3> QED
      BY <3>7
  <2> QED
    BY <2>1, <2>2
<1> QED
  BY <1>1, <1>2, Invariance, PTL DEF Spec, KeepsPromise, HoldSpec!Spec
-----------------------------------------------------------------------------
(* Every step counts.  The counters the measure is made of stay within      *)
(* their bounds; that of the retry loop is checked where a request goes     *)
(* back to its top, that of refundWithRetry where it would try again.       *)
ParamInv(r) ==
  /\ group[r] <= Groups
  /\ retry[r] <= RetryTimes
  /\ retry[r] = -1 => group[r] = 0 /\ ~resetNext[r]
  /\ pc[r] \in {"idle", "attempt"} => retry[r] = -1
  /\ pc[r] = "retry" => retry[r] # -1 /\ ~resetNext[r]
  /\ group[r] = Groups => retry[r] = 0
  /\ group[r] = Groups /\ ~resetNext[r] => pc[r] \in {"retry", "error", "done"}

BoundInv(r) ==
  /\ ParamInv(r)
  /\ turns[r] <= MaxTurns
  /\ bg[r] = "none" => tries[r] = 0
  /\ bg[r] = "funding" => tries[r] < MaxTries

Counts(r) == BoundInv(r)' /\ Remaining(r)' < Remaining(r)

(* The part of the measure that changes when no counter does. *)
Score(r) == Place[pc[r]] + (IF HasFallback(r) THEN 4 ELSE 0)

LEMMA PlaceValues ==
  /\ Place["idle"] = 18 /\ Place["wallet"] = 12 /\ Place["token"] = 11
  /\ Place["funding"] = 10 /\ Place["shortfall"] = 9
  /\ Place["fundingError"] = 9 /\ Place["attempt"] = 5 /\ Place["retry"] = 17
  /\ Place["reserveFunding"] = 10 /\ Place["reserveToken"] = 9
  /\ Place["unreserve"] = 2 /\ Place["upstream"] = 8 /\ Place["turn"] = 12
  /\ Place["turnToken"] = 11 /\ Place["closing"] = 10 /\ Place["rest"] = 9
  /\ Place["restToken"] = 8 /\ Place["leaving"] = 7 /\ Place["flush"] = 6
  /\ Place["flushToken"] = 5 /\ Place["closed"] = 4 /\ Place["settle"] = 3
  /\ Place["settleToken"] = 1 /\ Place["post"] = 2 /\ Place["postToken"] = 1
  /\ Place["error"] = 1 /\ Place["violation"] = 3 /\ Place["done"] = 0
BY DEF Place

LEMMA PlaceNat ==
  ASSUME NEW label \in Labels
  PROVE  Place[label] \in 0..18
BY PlaceValues DEF Labels

(* A request with a fallback is on its way to its first session. *)
LEMMA ScoreBounds ==
  ASSUME NEW r \in Request, pc[r] \in Labels
  PROVE  /\ Score(r) \in Nat
         /\ Place[pc[r]] <= Score(r)
         /\ pc[r] \notin {"wallet", "token", "funding", "shortfall"} =>
              Score(r) = Place[pc[r]]
BY PlaceNat DEF Score, HasFallback

LEMMA ScoreBoundsNext ==
  ASSUME NEW r \in Request, pc'[r] \in Labels
  PROVE  /\ Score(r)' \in Nat
         /\ Place[pc'[r]] <= Score(r)'
         /\ Score(r)' <= Place[pc'[r]] + 4
         /\ pc'[r] \notin {"wallet", "token", "funding", "shortfall"} =>
              Score(r)' = Place[pc'[r]]
BY PlaceNat DEF Score, HasFallback

(* The rounds of the groups from an index on: each group adds as many.      *)
LEMMA RoundsValues ==
  /\ Rounds(Groups) = 0
  /\ \A i \in 0 .. Groups : Rounds(i) \in Nat
  /\ \A i \in 0 .. Groups - 1 : Rounds(i) = Rounds(i + 1) + RetryTimes + 1
  /\ \A i, j \in 0 .. Groups : i < j => Rounds(j) + RetryTimes + 1 <= Rounds(i)
<1> DEFINE n == RetryTimes + 1
<1>1. n \in Nat /\ Groups \in Nat
  BY BillingConstants
<1>2. \A a, b \in Nat : a * b \in Nat /\ (a + 1) * b = a * b + b
  OBVIOUS
<1>3. ASSUME NEW i \in 0 .. Groups
      PROVE  Groups - i \in Nat /\ Rounds(i) = (Groups - i) * n
  BY <1>1 DEF Rounds
<1>4. Rounds(Groups) = 0
  BY <1>1 DEF Rounds
<1>5. \A i \in 0 .. Groups : Rounds(i) \in Nat
  BY <1>1, <1>2, <1>3
<1>6. ASSUME NEW i \in 0 .. Groups - 1
      PROVE  Rounds(i) = Rounds(i + 1) + RetryTimes + 1
  <2>1. /\ i \in 0 .. Groups /\ i + 1 \in 0 .. Groups
        /\ Groups - i = (Groups - (i + 1)) + 1
    BY <1>1
  <2>2. ((Groups - (i + 1)) + 1) * n = (Groups - (i + 1)) * n + n
    BY <1>1, <1>2, <1>3, <2>1
  <2>3. Rounds(i) = Rounds(i + 1) + n
    BY <1>3, <2>1, <2>2
  <2> QED
    BY <1>1, <1>5, <2>1, <2>3, BillingConstants
<1>7. ASSUME NEW i \in 0 .. Groups, NEW j \in 0 .. Groups, i < j
      PROVE  Rounds(j) + RetryTimes + 1 <= Rounds(i)
  <2>1. /\ j - i - 1 \in Nat /\ Groups - j \in Nat
        /\ Groups - i = ((Groups - j) + (j - i - 1)) + 1
    BY <1>1, <1>7
  <2>2. Groups - i = (Groups - j) + (j - i - 1) + 1
    BY <2>1
  <2>3. \A a, b, c \in Nat : (a + b + 1) * c = a * c + b * c + c
    OBVIOUS
  <2>4. Rounds(i) = (Groups - j) * n + (j - i - 1) * n + n
    BY <1>1, <1>3, <2>1, <2>2, <2>3
  <2>5. /\ (j - i - 1) * n \in Nat
        /\ Rounds(i) = Rounds(j) + (j - i - 1) * n + n
    BY <1>1, <1>2, <1>3, <2>1, <2>4
  <2> QED
    BY <1>1, <1>5, <2>5, BillingConstants
<1> QED
  BY <1>4, <1>5, <1>6, <1>7

LEMMA AheadNat ==
  ASSUME TypeOK, NEW r \in Request, ParamInv(r)
  PROVE  Ahead(r) \in Nat
<1>1. /\ retry[r] \in Nat \cup {-1} /\ group[r] \in 0 .. Groups
      /\ RetryTimes \in Nat /\ Groups \in Nat
  BY BillingConstants DEF TypeOK, ParamInv
<1>2. CASE group[r] = Groups
  BY <1>1, <1>2, RoundsValues DEF Ahead, ParamInv
<1>3. CASE group[r] # Groups
  <2>1. Rounds(Groups) + RetryTimes + 1 <= Rounds(group[r])
    BY <1>1, <1>3, RoundsValues
  <2>2. Rounds(group[r]) \in Nat /\ Rounds(Groups) = 0
    BY <1>1, RoundsValues
  <2>3. retry[r] <= RetryTimes
    BY DEF ParamInv
  <2> QED
    BY <1>1, <2>1, <2>2, <2>3 DEF Ahead
<1> QED
  BY <1>2, <1>3

LEMMA RemainingNat ==
  ASSUME TypeOK, NEW r \in Request, BoundInv(r)
  PROVE  Remaining(r) \in Nat
<1>1. /\ turns[r] \in Nat /\ tries[r] \in Nat /\ pc[r] \in Labels
      /\ Ahead(r) \in Nat
  BY AheadNat DEF TypeOK, BoundInv
<1>2. Handler(r) \in Nat
  BY <1>1, ScoreBounds, BillingConstants DEF Handler, Score, BoundInv
<1>3. Refunding(r) \in Nat
  BY <1>1 DEF Refunding, BoundInv, MaxTries
<1> QED
  BY <1>2, <1>3 DEF Remaining

(* A step of the handler that leaves the counters and the goroutine alone   *)
(* counts if it goes to a cheaper place.                                    *)
LEMMA ScoreCounts ==
  ASSUME TypeOK, TypeOK', NEW r \in Request, BoundInv(r),
         UNCHANGED <<param, turns, bg, tries>>,
         Score(r)' < Score(r),
         pc[r] \notin {"retry", "error", "done"},
         pc'[r] \notin {"idle", "retry"},
         pc'[r] = "attempt" => retry[r] = -1
  PROVE  Counts(r)
<1>1. /\ turns[r] \in Nat /\ pc[r] \in Labels /\ pc'[r] \in Labels
  BY DEF TypeOK
<1>2. ParamInv(r)' /\ Ahead(r)' = Ahead(r) /\ Ahead(r) \in Nat
  BY AheadNat DEF BoundInv, ParamInv, param, Ahead
<1>3. BoundInv(r)'
  BY <1>2 DEF BoundInv
<1>4. Handler(r)' < Handler(r) /\ Handler(r)' \in Int /\ Handler(r) \in Int
  BY <1>1, <1>2, ScoreBounds, ScoreBoundsNext, BillingConstants
     DEF Handler, Score
<1>5. Refunding(r)' = Refunding(r) /\ Refunding(r) \in Int
  BY DEF Refunding, TypeOK, MaxTries
<1> QED
  BY <1>3, <1>4, <1>5 DEF Counts, Remaining

(* Opening a session costs less than the place it is opened from, and the   *)
(* second source less than the first.                                       *)
LEMMA OpenScore ==
  ASSUME TypeOK, TypeOK', NEW r \in Request,
         TryWallet(r) \/ TrySubscription(r) \/ Reject(r)
  PROVE  /\ pc'[r] \in {"wallet", "token", "error", "done"}
         /\ TryWallet(r) => pc'[r] = "wallet"
         /\ TrySubscription(r) => pc'[r] = "token"
         /\ Reject(r) => pc'[r] \in {"error", "done"}
         /\ Score(r)' \in Nat
         /\ Score(r)' <= 16
         /\ pc'[r] \in {"error", "done"} => Score(r)' <= 1
         /\ pc'[r] = "wallet" /\ Preference[r] # "wallet_first" =>
              Score(r)' = 12
         /\ pc'[r] = "token" /\ Preference[r] # "subscription_first" =>
              Score(r)' = 11
<1>1. pc \in [Request -> Labels] /\ sess \in [Request -> Session]
  BY DEF TypeOK
<1>2. /\ TryWallet(r) => pc'[r] = "wallet"
      /\ TrySubscription(r) =>
           pc'[r] = "token" /\ sess'[r].src = "subscription"
      /\ Reject(r) => pc'[r] \in {"error", "done"}
  BY <1>1 DEF TryWallet, TrySubscription, Reject, Goto, Opening, NoSession
<1>3. Score(r)' \in Nat
  BY ScoreBoundsNext DEF TypeOK
<1>4. CASE pc'[r] = "wallet"
  BY <1>2, <1>3, <1>4, PlaceValues DEF Score, HasFallback
<1>5. CASE pc'[r] = "token"
  BY <1>2, <1>3, <1>5, PlaceValues DEF Score, HasFallback
<1>6. CASE pc'[r] \in {"error", "done"}
  BY <1>2, <1>3, <1>6, PlaceValues DEF Score, HasFallback
<1> QED
  BY <1>2, <1>3, <1>4, <1>5, <1>6

(* The fallback of NewBillingSession ends: only the source the preference   *)
(* puts first has one.                                                      *)
LEMMA FallbackCounts ==
  ASSUME TypeOK, TypeOK', NEW r \in Request, NEW src,
         InsufficientQuota(r, src),
         \/ pc[r] = "wallet" /\ src = "wallet"
         \/ pc[r] = "shortfall" /\ src = sess[r].src
  PROVE  /\ Score(r)' < Score(r)
         /\ pc'[r] \in {"wallet", "token", "error", "done"}
<1>1. CASE src = "wallet" /\ Preference[r] = "wallet_first"
  <2>1. Score(r) \in Nat /\ Score(r) >= 13
    BY <1>1, PlaceValues DEF Score, HasFallback
  <2>2. TrySubscription(r) /\ Preference[r] # "subscription_first"
    BY <1>1 DEF InsufficientQuota
  <2> QED
    BY <1>1, <2>1, <2>2, OpenScore
<1>2. CASE /\ src = "subscription" /\ Preference[r] = "subscription_first"
           /\ AllowOverflow
  <2>1. Score(r) = 13
    BY <1>2, PlaceValues DEF Score, HasFallback
  <2>2. TryWallet(r) /\ Preference[r] # "wallet_first"
    BY <1>2 DEF InsufficientQuota
  <2> QED
    BY <1>2, <2>1, <2>2, OpenScore
<1>3. CASE Reject(r)
  <2>1. Score(r) \in Nat /\ Score(r) >= 9
    BY ScoreBounds, PlaceValues DEF TypeOK
  <2> QED
    BY <1>3, <2>1, OpenScore
<1> QED
  BY <1>1, <1>2, <1>3 DEF InsufficientQuota

LEMMA PreConsumeCounts ==
  ASSUME TypeOK, TypeOK', NEW r \in Request, BoundInv(r), PreConsume(r)
  PROVE  Counts(r)
<1> USE DEF call, loop, goroutine
<1>0. pc \in [Request -> Labels] /\ sess \in [Request -> Session]
  BY DEF TypeOK
<1>1. CASE Arrive(r)
  <2>1. /\ pc[r] = "idle" /\ retry[r] = -1
        /\ UNCHANGED <<param, turns, bg, tries>>
    BY <1>1 DEF Arrive, BoundInv, ParamInv
  <2>2. Score(r) = 18
    BY <2>1, ScoreBounds, PlaceValues DEF TypeOK
  <2>3. CASE Goto(r, "attempt")
    <3>1. pc'[r] = "attempt"
      BY <1>0, <2>3 DEF Goto
    <3>2. Score(r)' = 5
      BY <3>1, ScoreBoundsNext, PlaceValues DEF Labels
    <3> QED
      BY <2>1, <2>2, <3>1, <3>2, ScoreCounts, BillingConstants
  <2>4. CASE TryWallet(r) \/ TrySubscription(r) \/ Reject(r)
    <3>1. Score(r)' <= 16 /\ pc'[r] \in {"wallet", "token", "error", "done"}
      BY <2>4, OpenScore
    <3>2. Score(r)' \in Nat
      BY ScoreBoundsNext DEF TypeOK
    <3> QED
      BY <2>1, <2>2, <3>1, <3>2, ScoreCounts
  <2> QED
    BY <1>1, <2>3, <2>4 DEF Arrive, PreConsumeBilling
<1>2. CASE TryWalletCheck(r)
  <2>1. pc[r] = "wallet" /\ UNCHANGED <<param, turns, bg, tries>>
    BY <1>2 DEF TryWalletCheck
  <2>2. CASE InsufficientQuota(r, "wallet")
    BY <2>1, <2>2, FallbackCounts, ScoreCounts
  <2>3. CASE /\ sess' = [sess EXCEPT ![r] = Opening("wallet", ShouldTrust(r))]
             /\ Goto(r, "token")
    <3>1. pc'[r] = "token" /\ sess'[r].src = "wallet"
      BY <1>0, <2>3 DEF Goto, Opening, NoSession
    <3>2. Score(r)' < Score(r)
      BY <2>1, <3>1, PlaceValues DEF Score, HasFallback
    <3> QED
      BY <2>1, <3>1, <3>2, ScoreCounts
  <2>4. CASE Reject(r)
    <3>1. Score(r) \in Nat /\ Score(r) >= 12
      BY <2>1, ScoreBounds, PlaceValues DEF TypeOK
    <3>2. Score(r)' \in Nat
      BY ScoreBoundsNext DEF TypeOK
    <3> QED
      BY <2>1, <2>4, <3>1, <3>2, OpenScore, ScoreCounts
  <2> QED
    BY <1>2, <2>2, <2>3, <2>4 DEF TryWalletCheck
<1>3. CASE PreConsumeToken(r)
  <2>1. pc[r] = "token" /\ UNCHANGED <<param, turns, bg, tries>>
    BY <1>3 DEF PreConsumeToken
  <2>2. CASE /\ sess' = [sess EXCEPT ![r].tok = Effective(r)]
             /\ Goto(r, "funding")
    <3>1. pc'[r] = "funding" /\ sess'[r].src = sess[r].src
      BY <1>0, <2>2 DEF Goto, Session
    <3>2. Score(r)' < Score(r)
      BY <2>1, <3>1, PlaceValues DEF Score, HasFallback
    <3> QED
      BY <2>1, <3>1, <3>2, ScoreCounts
  <2>3. CASE Reject(r)
    <3>1. Score(r) \in Nat /\ Score(r) >= 11
      BY <2>1, ScoreBounds, PlaceValues DEF TypeOK
    <3>2. Score(r)' \in Nat
      BY ScoreBoundsNext DEF TypeOK
    <3> QED
      BY <2>1, <2>3, <3>1, <3>2, OpenScore, ScoreCounts
  <2> QED
    BY <1>3, <2>2, <2>3 DEF PreConsumeToken
<1>4. CASE PreConsumeFunding(r)
  <2>1. pc[r] = "funding" /\ UNCHANGED <<param, turns, bg, tries>>
    BY <1>4 DEF PreConsumeFunding
  <2>2. Score(r) \in Nat /\ Score(r) >= 10
    BY <2>1, ScoreBounds, PlaceValues DEF TypeOK
  <2>3. CASE Goto(r, IF InLoop(r) THEN "upstream" ELSE "attempt")
    <3>1. /\ pc'[r] \in {"upstream", "attempt"}
          /\ pc'[r] = "attempt" => retry[r] = -1
      BY <1>0, <2>1, <2>3 DEF Goto, InLoop
    <3>2. Score(r)' <= 8
      BY <3>1, ScoreBoundsNext, PlaceValues DEF TypeOK
    <3>3. Score(r)' \in Nat
      BY ScoreBoundsNext DEF TypeOK
    <3> QED
      BY <2>1, <2>2, <3>1, <3>2, <3>3, ScoreCounts, BillingConstants
  <2>4. CASE Declined(r, "shortfall")
    <3>1. pc'[r] = "shortfall" /\ sess' = sess
      BY <1>0, <2>4 DEF Goto, Declined
    <3>2. Score(r)' < Score(r)
      BY <2>1, <3>1, PlaceValues DEF Score, HasFallback
    <3> QED
      BY <2>1, <3>1, <3>2, ScoreCounts
  <2>5. CASE Declined(r, "fundingError")
    <3>1. pc'[r] = "fundingError"
      BY <1>0, <2>5 DEF Goto, Declined
    <3>2. Score(r)' = 9
      BY <3>1, ScoreBoundsNext, PlaceValues DEF TypeOK
    <3> QED
      BY <2>1, <2>2, <3>1, <3>2, ScoreCounts
  <2> QED
    BY <1>4, <2>3, <2>4, <2>5 DEF PreConsumeFunding
<1>5. CASE UndoToken(r)
  <2>1. /\ pc[r] \in {"shortfall", "fundingError"}
        /\ UNCHANGED <<param, turns, bg, tries>>
    BY <1>5 DEF UndoToken
  <2>2. CASE pc[r] = "shortfall" /\ InsufficientQuota(r, sess[r].src)
    BY <2>1, <2>2, FallbackCounts, ScoreCounts
  <2>3. CASE Reject(r)
    <3>1. Score(r) \in Nat /\ Score(r) >= 9
      BY <2>1, ScoreBounds, PlaceValues DEF TypeOK
    <3>2. Score(r)' \in Nat
      BY ScoreBoundsNext DEF TypeOK
    <3> QED
      BY <2>1, <2>3, <3>1, <3>2, OpenScore, ScoreCounts
  <2> QED
    BY <1>5, <2>2, <2>3 DEF UndoToken
<1> QED
  BY <1>1, <1>2, <1>3, <1>4, <1>5 DEF PreConsume

(* The retry loop.  Selecting a channel makes no attempt possible that was  *)
(* not: a group that hands over to the next one has no more of its own, and *)
(* the one that is skipped keeps none.                                      *)
SelectedInv(r) ==
  /\ group'[r] <= Groups /\ retry'[r] \in 0 .. RetryTimes
  /\ group'[r] = Groups => retry'[r] = 0 /\ resetNext'[r]

LEMMA GetChannelAhead ==
  ASSUME TypeOK, NEW r \in Request, ParamInv(r), GetChannel(r)
  PROVE  /\ Ahead(r) \in Nat /\ Ahead(r)' \in Int
         /\ Ahead(r)' <= Ahead(r)
         /\ pc[r] = "attempt" => Ahead(r)' <= Ahead(r) - 1
         /\ SelectedInv(r)
<1>1. /\ retry \in [Request -> Nat \cup {-1}]
      /\ group \in [Request -> Nat] /\ resetNext \in [Request -> BOOLEAN]
      /\ RetryTimes \in Nat /\ Groups \in Nat \ {0}
  BY BillingConstants DEF TypeOK
<1>2. Ahead(r) \in Nat
  BY AheadNat
<1>3. CASE pc[r] = "attempt" /\ \E i \in 0 .. Groups - 1 : SetParam(r, 0, i, FALSE)
  <2>1. PICK i \in 0 .. Groups - 1 : SetParam(r, 0, i, FALSE)
    BY <1>3
  <2>2. retry'[r] = 0 /\ group'[r] = i /\ resetNext'[r] = FALSE
    BY <1>1, <2>1 DEF SetParam
  <2>3. Ahead(r) = Rounds(0) + 1
    BY <1>1, <1>3, RoundsValues DEF ParamInv, Ahead
  <2>4. Ahead(r)' = Rounds(i)
    BY <1>1, <2>2, RoundsValues DEF Ahead, Rounds
  <2>5. Rounds(i) \in Nat /\ Rounds(0) \in Nat /\ Rounds(i) <= Rounds(0)
    BY <1>1, RoundsValues
  <2> QED
    BY <1>1, <1>2, <2>2, <2>3, <2>4, <2>5 DEF SelectedInv
<1>4. CASE pc[r] = "retry" /\ SelectChannel(r)
  <2>1. /\ retry[r] \in 0 .. RetryTimes /\ ~resetNext[r]
        /\ group[r] \in 0 .. Groups
    BY <1>1, <1>4 DEF ParamInv
  <2> DEFINE Priority(i) == IF i > group[r] THEN 0 ELSE retry[r]
  <2>2. PICK i \in group[r] .. Groups - 1 :
          IF CrossGroupRetry /\ Priority(i) >= RetryTimes
          THEN SetParam(r, 0, i + 1, TRUE)
          ELSE SetParam(r, Priority(i), i, resetNext[r])
    BY <1>4 DEF SelectChannel
  <2>3. /\ i \in 0 .. Groups - 1 /\ i + 1 \in 0 .. Groups
        /\ Priority(i) \in 0 .. RetryTimes
        /\ Rounds(i) \in Nat /\ Rounds(i + 1) \in Nat
        /\ Rounds(i) = Rounds(i + 1) + RetryTimes + 1
    BY <1>1, <2>1, <2>2, RoundsValues
  <2>4. Ahead(r) = Rounds(group[r]) - retry[r]
    BY <2>1, <1>1, RoundsValues DEF Ahead
  <2>5. Rounds(i) - Priority(i) <= Ahead(r)
    <3>1. CASE i = group[r]
      BY <2>1, <2>3, <2>4, <3>1
    <3>2. CASE i > group[r]
      <4>1. Rounds(i) + RetryTimes + 1 <= Rounds(group[r])
        BY <1>1, <2>1, <2>3, <3>2, RoundsValues
      <4>2. Rounds(group[r]) \in Nat
        BY <1>1, <2>1, RoundsValues
      <4> QED
        BY <1>1, <2>1, <2>3, <2>4, <3>2, <4>1, <4>2
    <3> QED
      BY <1>1, <2>1, <2>2, <3>1, <3>2
  <2>6. CASE CrossGroupRetry /\ Priority(i) >= RetryTimes
    <3>1. retry'[r] = 0 /\ group'[r] = i + 1 /\ resetNext'[r] = TRUE
      BY <1>1, <2>2, <2>6 DEF SetParam
    <3>2. Ahead(r)' = Rounds(i + 1) + 1
      BY <1>1, <2>3, <3>1 DEF Ahead, Rounds
    <3>3. Priority(i) = RetryTimes
      BY <1>1, <2>3, <2>6
    <3> QED
      BY <1>1, <1>2, <1>4, <2>3, <2>5, <3>1, <3>2, <3>3 DEF SelectedInv
  <2>7. CASE ~(CrossGroupRetry /\ Priority(i) >= RetryTimes)
    <3>1. /\ retry'[r] = Priority(i) /\ group'[r] = i
          /\ resetNext'[r] = FALSE
      BY <1>1, <2>1, <2>2, <2>7 DEF SetParam
    <3> HIDE DEF Priority
    <3>2. Ahead(r)' = Rounds(i) - Priority(i)
      BY <1>1, <2>3, <3>1 DEF Ahead, Rounds
    <3> QED
      BY <1>1, <1>2, <1>4, <2>3, <2>5, <3>1, <3>2 DEF SelectedInv
  <2> QED
    BY <2>6, <2>7
<1> QED
  BY <1>3, <1>4 DEF GetChannel

(* An attempt costs more than anything it can lead to. *)
LEMMA AttemptCounts ==
  ASSUME TypeOK, TypeOK', NEW r \in Request, BoundInv(r), Attempt(r)
  PROVE  Counts(r)
<1> USE DEF call, goroutine
<1>1. /\ pc \in [Request -> Labels]
      /\ turns[r] \in Nat /\ tries[r] \in Nat
      /\ pc[r] \in {"attempt", "retry"} /\ UNCHANGED <<turns, bg, tries>>
      /\ ParamInv(r)
  BY DEF TypeOK, Attempt, BoundInv
<1>2. /\ pc[r] = "attempt" => Score(r) = 5
      /\ pc[r] = "retry" => Score(r) = 17
  BY <1>1, ScoreBounds, PlaceValues DEF Labels
<1>3. /\ pc'[r] \notin {"idle", "attempt", "retry"}
      /\ Score(r)' \in Nat /\ Score(r)' <= 16
      /\ pc'[r] = "error" => Score(r)' = 1
  <2>1. CASE \E label \in {"error", "upstream", "reserveFunding"} :
               Goto(r, label)
    <3>1. pc'[r] \in {"error", "upstream", "reserveFunding"}
      BY <1>1, <2>1 DEF Goto
    <3> QED
      BY <3>1, ScoreBoundsNext, PlaceValues DEF TypeOK
  <2>2. CASE TryWallet(r) \/ TrySubscription(r) \/ Reject(r)
    <3>1. pc'[r] = "error" => Score(r)' = 1
      BY ScoreBoundsNext, PlaceValues DEF TypeOK
    <3> QED
      BY <2>2, <3>1, OpenScore
  <2> QED
    BY <2>1, <2>2 DEF Attempt, PrepareTieredBilling, PreConsumeBilling
<1>4. CASE UNCHANGED param /\ Goto(r, "error")
  <2>1. pc'[r] = "error" /\ Score(r)' = 1
    BY <1>1, <1>3, <1>4 DEF Goto
  <2>2. /\ ParamInv(r)' /\ Ahead(r)' = Ahead(r) /\ Ahead(r) \in Nat
    BY <1>1, <1>4, <2>1, AheadNat DEF ParamInv, Ahead, param
  <2>3. BoundInv(r)'
    BY <1>1, <2>1, <2>2 DEF BoundInv
  <2>4. Handler(r)' < Handler(r) /\ Handler(r)' \in Int /\ Handler(r) \in Int
    BY <1>1, <1>2, <2>1, <2>2, BillingConstants DEF Handler, Score
  <2>5. Refunding(r)' = Refunding(r) /\ Refunding(r) \in Int
    BY <1>1 DEF Refunding, MaxTries
  <2> QED
    BY <2>3, <2>4, <2>5 DEF Counts, Remaining
<1>5. CASE GetChannel(r)
  <2>1. /\ Ahead(r) \in Nat /\ Ahead(r)' \in Int /\ Ahead(r)' <= Ahead(r)
        /\ pc[r] = "attempt" => Ahead(r)' <= Ahead(r) - 1
        /\ SelectedInv(r)
    BY <1>1, <1>5, GetChannelAhead
  <2>2. BoundInv(r)'
    BY <1>1, <1>3, <2>1, BillingConstants
       DEF BoundInv, ParamInv, SelectedInv, TypeOK
  <2>3. Handler(r)' < Handler(r) /\ Handler(r)' \in Int /\ Handler(r) \in Int
    BY <1>1, <1>2, <1>3, <2>1, BillingConstants DEF Handler, Score
  <2>4. Refunding(r)' = Refunding(r) /\ Refunding(r) \in Int
    BY <1>1 DEF Refunding, MaxTries
  <2> QED
    BY <2>2, <2>3, <2>4 DEF Counts, Remaining
<1> QED
  BY <1>4, <1>5 DEF Attempt

(* A failed attempt that is retried uses one up, whether the retry counter  *)
(* goes on or has been set back.                                            *)
LEMMA RetryCounts ==
  ASSUME TypeOK, TypeOK', NEW r \in Request, BoundInv(r), UpstreamFailed(r),
         pc'[r] = "retry"
  PROVE  Counts(r)
<1> USE DEF call, goroutine
<1>1. /\ pc \in [Request -> Labels] /\ pc[r] = "upstream"
      /\ turns[r] \in Nat /\ tries[r] \in Nat
      /\ UNCHANGED <<turns, bg, tries>>
      /\ ParamInv(r)
  BY DEF TypeOK, UpstreamFailed, BoundInv
<1>2. IncreaseRetry(r) /\ retry'[r] <= RetryTimes
  BY <1>1 DEF UpstreamFailed, Goto
<1>3. /\ resetNext'[r] = FALSE /\ group'[r] = group[r]
      /\ retry'[r] = IF resetNext[r] THEN retry[r] ELSE retry[r] + 1
      /\ retry[r] \in Nat \cup {-1} /\ group[r] \in 0 .. Groups
      /\ resetNext[r] \in BOOLEAN
  BY <1>1, <1>2 DEF IncreaseRetry, TypeOK, ParamInv
<1>4. Ahead(r) \in Nat /\ Ahead(r)' = Ahead(r) - 1
  <2>1. Rounds(group[r]) \in Nat
    BY <1>3, RoundsValues
  <2>2. Rounds(group[r])' = Rounds(group[r])
    BY <1>3 DEF Rounds
  <2> QED
    BY <1>1, <1>3, <2>1, <2>2, AheadNat DEF Ahead
<1>5. Score(r) = 8 /\ Score(r)' = 17
  BY <1>1, ScoreBounds, ScoreBoundsNext, PlaceValues DEF TypeOK
<1>6. BoundInv(r)'
  BY <1>1, <1>2, <1>3, BillingConstants DEF BoundInv, ParamInv
<1>7. Handler(r)' < Handler(r) /\ Handler(r)' \in Int /\ Handler(r) \in Int
  BY <1>1, <1>4, <1>5, BillingConstants DEF Handler, Score
<1>8. Refunding(r)' = Refunding(r) /\ Refunding(r) \in Int
  BY <1>1 DEF Refunding, MaxTries
<1> QED
  BY <1>6, <1>7, <1>8 DEF Counts, Remaining

(* A realtime turn: charged, it costs less than the turn it was. *)
LEMMA TurnCounts ==
  ASSUME TypeOK, TypeOK', NEW r \in Request, BoundInv(r), RealtimeTurn(r)
  PROVE  Counts(r)
<1>1. /\ pc \in [Request -> Labels] /\ turns[r] \in Nat
      /\ turns'[r] = turns[r] + 1 /\ turns[r] < MaxTurns
      /\ tries[r] \in Nat /\ pc[r] = "upstream"
      /\ UNCHANGED <<param, bg, tries>>
  BY DEF TypeOK, RealtimeTurn, goroutine
<1>2. pc'[r] \in {"turn", "closing"}
  BY <1>1 DEF RealtimeTurn, WssConsume, Goto
<1>3. Score(r) = 8 /\ Score(r)' \in Nat /\ Score(r)' <= 12
  BY <1>1, <1>2, ScoreBounds, ScoreBoundsNext, PlaceValues DEF TypeOK
<1>4. ParamInv(r)' /\ Ahead(r)' = Ahead(r) /\ Ahead(r) \in Nat
  BY <1>1, <1>2, AheadNat DEF BoundInv, ParamInv, Ahead, param
<1>5. BoundInv(r)'
  BY <1>1, <1>4, BillingConstants DEF BoundInv
<1>6. Handler(r)' < Handler(r) /\ Handler(r)' \in Int /\ Handler(r) \in Int
  BY <1>1, <1>3, <1>4, BillingConstants DEF Handler, Score
<1>7. Refunding(r)' = Refunding(r) /\ Refunding(r) \in Int
  BY <1>1 DEF Refunding, MaxTries
<1> QED
  BY <1>5, <1>6, <1>7 DEF Counts, Remaining

(* A handler that spawns the refund goroutine goes to a cheaper place, and  *)
(* a place counts more than all the goroutine has to do.                    *)
LEMMA RefundCounts ==
  ASSUME TypeOK, TypeOK', NEW r \in Request, BoundInv(r), ControlInv(r),
         Refund(r), UNCHANGED <<param, turns>>, Score(r)' < Score(r),
         pc'[r] \in {"post", "done"}, pc[r] \notin {"retry", "done"},
         pc[r] = "error" => pc'[r] = "done"
  PROVE  Counts(r)
<1>1. /\ turns[r] \in Nat /\ tries[r] \in Nat
      /\ pc[r] \in Labels /\ pc'[r] \in Labels
      /\ bg \in [Request -> {"none", "funding", "extra", "token", "done"}]
      /\ ParamInv(r)' /\ Ahead(r)' = Ahead(r) /\ Ahead(r) \in Nat
  BY AheadNat DEF TypeOK, BoundInv, ParamInv, Ahead, param
<1>2. Handler(r)' < Handler(r) /\ Handler(r)' \in Int /\ Handler(r) \in Int
  BY <1>1, ScoreBounds, ScoreBoundsNext, BillingConstants DEF Handler, Score
<1>3. CASE NeedsRefund(sess[r])
  <2>1. /\ bg[r] = "none" /\ tries[r] = 0
        /\ bg'[r] = "funding" /\ tries' = tries
    BY <1>1, <1>3 DEF ControlInv, BoundInv, NeedsRefund, Refund
  <2>2. Refunding(r) = 0 /\ Refunding(r)' = 5
    BY <2>1 DEF Refunding, MaxTries
  <2>3. BoundInv(r)'
    BY <1>1, <2>1 DEF BoundInv, MaxTries
  <2> QED
    BY <1>2, <2>2, <2>3 DEF Counts, Remaining
<1>4. CASE ~NeedsRefund(sess[r])
  <2>1. UNCHANGED <<bg, tries>>
    BY <1>4 DEF Refund
  <2>2. Refunding(r)' = Refunding(r) /\ Refunding(r) \in Int
    BY <1>1, <2>1 DEF Refunding, MaxTries
  <2>3. BoundInv(r)'
    BY <1>1, <2>1 DEF BoundInv
  <2> QED
    BY <1>2, <2>2, <2>3 DEF Counts, Remaining
<1> QED
  BY <1>3, <1>4

LEMMA RelayCounts ==
  ASSUME TypeOK, TypeOK', NEW r \in Request, BoundInv(r), ControlInv(r),
         Relay(r)
  PROVE  Counts(r)
<1> USE DEF call, loop, goroutine
<1>0. pc \in [Request -> Labels]
  BY DEF TypeOK
<1>1. CASE ReserveFunding(r)
  <2>1. /\ pc[r] \in {"reserveFunding"}
        /\ pc'[r] \in {"reserveToken", "error"}
        /\ UNCHANGED <<param, turns, bg, tries>>
    BY <1>0, <1>1 DEF ReserveFunding, Goto, Declined
  <2>2. Score(r)' < Score(r)
    BY <2>1, ScoreBounds, ScoreBoundsNext, PlaceValues DEF TypeOK
  <2> QED
    BY <2>1, <2>2, ScoreCounts
<1>2. CASE ReserveToken(r)
  <2>1. /\ pc[r] \in {"reserveToken"}
        /\ pc'[r] \in {"upstream", "unreserve"}
        /\ UNCHANGED <<param, turns, bg, tries>>
    BY <1>0, <1>2 DEF ReserveToken, Goto, Declined
  <2>2. Score(r)' < Score(r)
    BY <2>1, ScoreBounds, ScoreBoundsNext, PlaceValues DEF TypeOK
  <2> QED
    BY <2>1, <2>2, ScoreCounts
<1>3. CASE RollbackReserve(r)
  <2>1. /\ pc[r] \in {"unreserve"}
        /\ pc'[r] \in {"error"}
        /\ UNCHANGED <<param, turns, bg, tries>>
    BY <1>0, <1>3 DEF RollbackReserve, Goto, Declined
  <2>2. Score(r)' < Score(r)
    BY <2>1, ScoreBounds, ScoreBoundsNext, PlaceValues DEF TypeOK
  <2> QED
    BY <2>1, <2>2, ScoreCounts
<1>4. CASE UpstreamServed(r)
  <2>1. /\ pc[r] \in {"upstream", "closed"}
        /\ pc'[r] \in {"settle"}
        /\ UNCHANGED <<param, turns, bg, tries>>
    BY <1>0, <1>4 DEF UpstreamServed, Goto, Declined
  <2>2. Score(r)' < Score(r)
    BY <2>1, ScoreBounds, ScoreBoundsNext, PlaceValues DEF TypeOK
  <2> QED
    BY <2>1, <2>2, ScoreCounts
<1>5. CASE UpstreamFailed(r)
  <2>1. CASE pc'[r] = "retry"
    BY <1>5, <2>1, RetryCounts
  <2>2. CASE pc'[r] # "retry"
    <3>1. /\ pc[r] = "upstream" /\ pc'[r] \in {"error", "violation"}
          /\ UNCHANGED <<param, turns, bg, tries>>
      BY <1>0, <1>5, <2>2 DEF UpstreamFailed, Goto
    <3>2. Score(r)' < Score(r)
      BY <3>1, ScoreBounds, ScoreBoundsNext, PlaceValues DEF TypeOK
    <3> QED
      BY <3>1, <3>2, ScoreCounts
  <2> QED
    BY <2>1, <2>2
<1>8. CASE RealtimeFlush(r)
  <2>1. /\ \/ pc[r] = "closing" /\ pc'[r] \in {"rest", "leaving"}
           \/ /\ pc[r] \in {"upstream", "leaving"}
              /\ pc'[r] \in {"flush", "closed"}
        /\ UNCHANGED <<param, turns, bg, tries>>
    BY <1>8, FlushTargets DEF RealtimeFlush
  <2>2. Score(r)' < Score(r)
    BY <2>1, ScoreBounds, ScoreBoundsNext, PlaceValues DEF TypeOK
  <2> QED
    BY <2>1, <2>2, ScoreCounts
<1>6. CASE UpstreamAborted(r)
  <2>1. /\ pc[r] = "upstream" /\ pc'[r] = "done" /\ Refund(r)
        /\ UNCHANGED <<param, turns>>
    BY <1>0, <1>6 DEF UpstreamAborted, Goto
  <2>2. Score(r)' < Score(r)
    BY <2>1, ScoreBounds, ScoreBoundsNext, PlaceValues DEF TypeOK
  <2> QED
    BY <2>1, <2>2, RefundCounts
<1>7. CASE FinishFailed(r)
  <2>1. /\ \/ pc[r] = "violation" /\ pc'[r] \in {"post", "done"}
           \/ pc[r] = "error" /\ pc'[r] = "done"
        /\ Refund(r)
        /\ UNCHANGED <<param, turns>>
    BY <1>0, <1>7 DEF FinishFailed, Goto
  <2>2. Score(r)' < Score(r)
    BY <2>1, ScoreBounds, ScoreBoundsNext, PlaceValues DEF TypeOK
  <2> QED
    BY <2>1, <2>2, RefundCounts
<1> QED
  BY <1>1, <1>2, <1>3, <1>4, <1>5, <1>6, <1>7, <1>8, AttemptCounts,
     TurnCounts DEF Relay

LEMMA SettleCounts ==
  ASSUME TypeOK, TypeOK', NEW r \in Request, BoundInv(r), Settle(r)
  PROVE  Counts(r)
<1> USE DEF call, loop, goroutine
<1>0. pc \in [Request -> Labels]
  BY DEF TypeOK
<1>1. CASE SettleFunding(r)
  <2>1. /\ pc[r] \in {"settle"}
        /\ pc'[r] \in {"settleToken", "post", "done"}
        /\ UNCHANGED <<param, turns, bg, tries>>
    BY <1>0, <1>1 DEF SettleFunding, Goto, Declined
  <2>2. Score(r)' < Score(r)
    BY <2>1, ScoreBounds, ScoreBoundsNext, PlaceValues DEF TypeOK
  <2> QED
    BY <2>1, <2>2, ScoreCounts
<1>2. CASE SettleToken(r)
  <2>1. /\ pc[r] \in {"settleToken"}
        /\ pc'[r] \in {"done"}
        /\ UNCHANGED <<param, turns, bg, tries>>
    BY <1>0, <1>2 DEF SettleToken, Goto, Declined
  <2>2. Score(r)' < Score(r)
    BY <2>1, ScoreBounds, ScoreBoundsNext, PlaceValues DEF TypeOK
  <2> QED
    BY <2>1, <2>2, ScoreCounts
<1>3. CASE PostConsumeFunding(r)
  <2>1. FundingStep(r) /\ UNCHANGED <<param, turns, bg, tries>>
    BY <1>3, ChargeTargets DEF PostConsumeFunding
  <2>2. Score(r)' < Score(r)
    BY <2>1, ScoreBounds, ScoreBoundsNext, PlaceValues
       DEF TypeOK, FundingStep
  <2> QED
    BY <2>1, <2>2, ScoreCounts DEF FundingStep
<1>4. CASE PostConsumeToken(r)
  <2>1. TokenStep(r) /\ UNCHANGED <<param, turns, bg, tries>>
    BY <1>4, ChargeTargets DEF PostConsumeToken
  <2>2. Score(r)' < Score(r)
    BY <2>1, ScoreBounds, ScoreBoundsNext, PlaceValues DEF TypeOK, TokenStep
  <2> QED
    BY <2>1, <2>2, ScoreCounts DEF TokenStep
<1> QED
  BY <1>1, <1>2, <1>3, <1>4 DEF Settle

(* The goroutine: each step hands over to the next or uses up a try. *)
LEMMA GoroutineCounts ==
  ASSUME TypeOK, TypeOK', NEW r \in Request, BoundInv(r), Goroutine(r)
  PROVE  Counts(r)
<1> USE DEF call, loop
<1>1. /\ turns[r] \in Nat /\ tries[r] \in Nat
      /\ ParamInv(r) /\ Ahead(r) \in Nat
      /\ pc[r] \in Labels
      /\ bg \in [Request -> {"none", "funding", "extra", "token", "done"}]
      /\ tries \in [Request -> Nat]
  BY AheadNat DEF TypeOK, BoundInv
<1>2. UNCHANGED <<pc, param, turns>> /\ sess' = sess
  BY DEF Goroutine, RefundWallet, RefundSubscription, RefundExtra, RefundToken
<1>3. Handler(r)' = Handler(r) /\ Handler(r) \in Int
  BY <1>1, <1>2, ScoreBounds, BillingConstants
     DEF Handler, Score, HasFallback, Ahead, param
<1>4. /\ Refunding(r)' < Refunding(r)
      /\ Refunding(r)' \in Int /\ Refunding(r) \in Int
      /\ bg'[r] # "none"
      /\ bg'[r] = "funding" => tries'[r] < MaxTries
  <2>1. CASE /\ bg[r] = "funding" /\ bg'[r] = "funding"
             /\ tries'[r] = tries[r] + 1 /\ tries'[r] < MaxTries
    BY <1>1, <2>1 DEF Refunding, MaxTries
  <2>2. CASE bg[r] = "funding" /\ bg'[r] = "extra"
    BY <1>1, <2>2 DEF Refunding, MaxTries, BoundInv
  <2>3. CASE bg[r] = "extra" /\ bg'[r] = "token"
    BY <2>3 DEF Refunding
  <2>4. CASE bg[r] = "token" /\ bg'[r] = "done"
    BY <2>4 DEF Refunding
  <2>5. RefundWallet(r) => bg[r] = "funding" /\ bg'[r] = "extra"
    BY <1>1 DEF RefundWallet, Advance
  <2>6. CASE RefundSubscription(r)
    <3>1. CASE RetryRefund(r)
      <4>1. /\ bg[r] = "funding" /\ tries'[r] = tries[r] + 1
            /\ IF tries[r] + 1 < MaxTries THEN bg'[r] = "funding"
                                          ELSE bg'[r] = "extra"
        BY <1>1, <2>6, <3>1 DEF RefundSubscription, RetryRefund, Advance
      <4> QED
        BY <4>1, <2>1, <2>2
    <3>2. CASE Advance(r, "extra")
      BY <1>1, <2>2, <2>6, <3>2 DEF RefundSubscription, Advance
    <3> QED
      BY <2>6, <3>1, <3>2 DEF RefundSubscription
  <2>7. RefundExtra(r) => bg[r] = "extra" /\ bg'[r] = "token"
    BY <1>1 DEF RefundExtra, Advance
  <2>8. RefundToken(r) => bg[r] = "token" /\ bg'[r] = "done"
    BY <1>1 DEF RefundToken, Advance
  <2> QED
    BY <2>2, <2>3, <2>4, <2>5, <2>6, <2>7, <2>8 DEF Goroutine
<1>5. BoundInv(r)'
  BY <1>1, <1>2, <1>4 DEF BoundInv, ParamInv, param
<1> QED
  BY <1>3, <1>4, <1>5 DEF Counts, Remaining

(* What a step leaves alone of the other requests. *)
LEMMA CountersUntouched ==
  ASSUME TypeOK, NEW r \in Request, NEW q \in Request, q # r, Step(r)
  PROVE  /\ retry'[q] = retry[q] /\ group'[q] = group[q]
         /\ resetNext'[q] = resetNext[q] /\ turns'[q] = turns[q]
         /\ tries'[q] = tries[q]
<1> USE DEF TypeOK, call, loop, param, goroutine
<1>1. CASE PreConsume(r)
  BY <1>1 DEF PreConsume, Arrive, TryWalletCheck, PreConsumeToken,
     PreConsumeFunding, UndoToken
<1>2. CASE Relay(r)
  BY <1>2 DEF Relay, Attempt, ReserveFunding, ReserveToken, RollbackReserve,
     UpstreamServed, UpstreamAborted, UpstreamFailed, IncreaseRetry,
     GetChannel, SelectChannel, SetParam, RealtimeTurn, RealtimeFlush,
     FinishFailed, Refund
<1>3. CASE Settle(r)
  BY <1>3 DEF Settle, SettleFunding, SettleToken, PostConsumeFunding,
     PostConsumeToken
<1>4. CASE Goroutine(r)
  BY <1>4 DEF Goroutine, RefundWallet, RefundSubscription, RetryRefund,
     RefundExtra, RefundToken
<1> QED
  BY <1>1, <1>2, <1>3, <1>4 DEF Step

LEMMA StepCounts ==
  ASSUME IInv, \A q \in Request : BoundInv(q), NEW r \in Request, Step(r)
  PROVE  /\ Counts(r)
         /\ \A q \in Request \ {r} :
              BoundInv(q)' /\ Remaining(q)' = Remaining(q)
<1>1. TypeOK /\ TypeOK' /\ ControlInv(r)
  BY StepInv DEF IInv, RequestInv
<1>2. Counts(r)
  BY <1>1, PreConsumeCounts, RelayCounts, SettleCounts, GoroutineCounts
     DEF Step
<1>3. ASSUME NEW q \in Request, q # r
      PROVE  BoundInv(q)' /\ Remaining(q)' = Remaining(q)
  <2>1. /\ pc'[q] = pc[q] /\ sess'[q] = sess[q] /\ bg'[q] = bg[q]
        /\ retry'[q] = retry[q] /\ group'[q] = group[q]
        /\ resetNext'[q] = resetNext[q] /\ turns'[q] = turns[q]
        /\ tries'[q] = tries[q]
    BY <1>1, <1>3, OthersUntouched, CountersUntouched DEF Untouched
  <2> QED
    BY <2>1 DEF BoundInv, ParamInv, Remaining, Handler, HasFallback, Ahead,
       Refunding
<1> QED
  BY <1>2, <1>3

(* Every step counts: no request goes round in circles, and what a request  *)
(* has left to do bounds its steps whatever the others do.                  *)
THEOREM StepsCount == Spec => EveryStepCounts
<1> DEFINE Bounds == \A q \in Request : BoundInv(q)
<1>1. Init => Bounds
  BY BillingConstants DEF Init, BoundInv, ParamInv
<1>2. IInv /\ Bounds /\ Next =>
        /\ Bounds'
        /\ \E r \in Request :
             /\ Remaining(r)' < Remaining(r)
             /\ \A other \in Request \ {r} :
                  Remaining(other)' = Remaining(other)
  BY StepCounts DEF Next, Step, Counts
<1>3. Bounds /\ UNCHANGED vars => Bounds'
  BY DEF vars, call, loop, param, goroutine, BoundInv, ParamInv
<1>4. IInv /\ Bounds => \A r \in Request : Remaining(r) \in Nat
  BY RemainingNat DEF IInv
<1> HIDE DEF Bounds
<1> QED
  BY <1>1, <1>2, <1>3, <1>4, Invariance, PTL DEF Spec, EveryStepCounts
=============================================================================
