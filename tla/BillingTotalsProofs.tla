------------------------- MODULE BillingTotalsProofs -------------------------
(***************************************************************************)
(* Proofs of the conservation laws of BillingTotals, for any finite set of *)
(* requests.  Each law is a sum over all the requests; a step moves the    *)
(* summand of the request that takes it and the store alike (StoreMove),   *)
(* and SumStep carries that over to the sum.                               *)
(***************************************************************************)
EXTENDS BillingTotals, BillingSessionProofs, SumTheorems

Paying == {"turnToken", "restToken", "flushToken", "postToken"}

(* A charge past the session is owed by the funding source first and by the *)
(* token one step later; no request carries one while its funding source    *)
(* may still change.                                                        *)
DirectInv(r) ==
  /\ direct[r] >= 0
  /\ pc[r] \in Paying => direct[r] >= arg[r]
  /\ direct[r] # 0 =>
       pc[r] \in {"upstream", "turn", "turnToken", "closing", "rest",
                  "restToken", "leaving", "flush", "flushToken", "closed",
                  "settle", "settleToken", "post", "postToken", "done"}
  /\ pc[r] \in {"turn", "turnToken"} \/ (pc[r] = "upstream" /\ direct[r] # 0) =>
       r \in Realtime /\ turns[r] > 0

(* The part of it that the token has not paid yet. *)
Unpaid(r) == IF r \notin Playground /\ pc[r] \in Paying THEN arg[r] ELSE 0

TokenShare(r) == TokenOverdraft(r) - Unpaid(r)

TotalsInv ==
  /\ \A r \in Request : DirectInv(r)
  /\ WalletDebtExplained
  /\ UnlimitedToken \/ token + SumFunction([r \in Request |-> TokenShare(r)]) >= 0
  /\ SubscriptionReconciles

(* A step of r either leaves a store above zero, or takes from it no more   *)
(* than it adds to the summand of r; a subscription's usage moves by        *)
(* exactly as much, unless it is clamped.                                   *)
WalletMove(r) ==
  wallet' >= 0 \/ wallet' + Overdraft(r)' >= wallet + Overdraft(r)

TokenMove(r) ==
  \/ UnlimitedToken \/ token' >= 0
  \/ token' + TokenShare(r)' >= token + TokenShare(r)

UsedMove(r) ==
  LET delta == SubscriptionCharge(r)' - SubscriptionCharge(r)
  IN used' = IF used + delta < 0 THEN 0 ELSE used + delta

StoreMove(r) == WalletMove(r) /\ TokenMove(r) /\ UsedMove(r)
-----------------------------------------------------------------------------
(* The summands are integers, and never negative. *)
Summands(r) ==
  /\ sess[r].src \in {"none", "wallet", "subscription"}
  /\ sess[r].pre \in Nat /\ sess[r].extra \in Nat /\ sess[r].tok \in Nat
  /\ sess[r].consumed \in Nat
  /\ charged[r] \in Int /\ tcharged[r] \in Int /\ direct[r] \in Int
  /\ arg[r] \in Nat
  /\ wallet \in Int /\ token \in Int /\ used \in Nat
  /\ Overdraft(r) \in Int /\ TokenShare(r) \in Int
  /\ TokenOverdraft(r) \in Int /\ Unpaid(r) \in Nat
  /\ SubscriptionCharge(r) \in Int

LEMMA SummandTypes ==
  ASSUME TypeOK, NEW r \in Request
  PROVE  Summands(r)
<1>1. sess[r] \in Session /\ arg[r] \in Nat
  BY DEF TypeOK
<1> QED
  BY <1>1 DEF TypeOK, Session, Summands, Overdraft, TokenShare,
     TokenOverdraft, Unpaid, SubscriptionCharge, Positive

LEMMA SummandTypesNext ==
  ASSUME TypeOK', NEW r \in Request
  PROVE  Summands(r)'
<1>1. sess'[r] \in Session /\ arg'[r] \in Nat
  BY DEF TypeOK
<1> QED
  BY <1>1 DEF TypeOK, Session, Summands, Overdraft, TokenShare,
     TokenOverdraft, Unpaid, SubscriptionCharge, Positive

LEMMA SummandsNat ==
  ASSUME IInv, NEW r \in Request, DirectInv(r)
  PROVE  /\ Overdraft(r) >= 0 /\ TokenShare(r) >= 0
         /\ TokenOverdraft(r) >= TokenShare(r)
         /\ torn = 0 => SubscriptionCharge(r) >= 0
<1>1. Summands(r)
  BY SummandTypes DEF IInv
<1>2. direct[r] >= Unpaid(r)
  BY <1>1 DEF Summands, DirectInv, Unpaid
<1>3. torn = 0 => charged[r] \in Nat
  BY ChargedNat
<1> QED
  BY <1>1, <1>2, <1>3 DEF Summands, DirectInv, Overdraft, TokenShare,
     TokenOverdraft, SubscriptionCharge, Positive, Unpaid

LEMMA SummandsNatNext ==
  ASSUME IInv', NEW r \in Request, DirectInv(r)'
  PROVE  /\ Overdraft(r)' >= 0 /\ TokenShare(r)' >= 0
         /\ torn' = 0 => SubscriptionCharge(r)' >= 0
<1>1. Summands(r)'
  BY SummandTypesNext DEF IInv
<1>2. direct'[r] >= Unpaid(r)'
  BY <1>1 DEF Summands, DirectInv, Unpaid
<1>3. torn' = 0 => charged'[r] \in Nat
  BY ChargedNatNext
<1> QED
  BY <1>1, <1>2, <1>3 DEF Summands, DirectInv, Overdraft, TokenShare,
     TokenOverdraft, SubscriptionCharge, Positive, Unpaid
-----------------------------------------------------------------------------
(* The four ways a step touches the stores.  First, not at all. *)
SameHold(r) ==
  /\ sess'[r].src = sess[r].src
  /\ sess'[r].pre - sess'[r].extra = sess[r].pre - sess[r].extra

PaysNothing(r) == pc'[r] \notin Paying \/ UNCHANGED <<pc, arg>>

LEMMA PaysNothingUnpaid ==
  ASSUME TypeOK, NEW r \in Request, PaysNothing(r)
  PROVE  Unpaid(r)' <= Unpaid(r)
<1>1. Unpaid(r) \in Nat
  BY SummandTypes DEF Summands
<1> QED
  BY <1>1 DEF PaysNothing, Unpaid

LEMMA QuietMoves ==
  ASSUME TypeOK, TypeOK', NEW r \in Request, UNCHANGED ledger,
         SameHold(r), sess'[r].tok = sess[r].tok, PaysNothing(r)
  PROVE  StoreMove(r)
<1>1. Summands(r) /\ Summands(r)'
  BY SummandTypes, SummandTypesNext
<1>2. UNCHANGED <<wallet, token, used, charged, tcharged, direct>>
  BY DEF ledger, stores
<1>3. Overdraft(r)' = Overdraft(r)
  BY <1>1, <1>2 DEF Summands, SameHold, Overdraft, Positive
<1>4. TokenShare(r)' >= TokenShare(r)
  BY <1>1, <1>2, PaysNothingUnpaid DEF Summands, TokenShare, TokenOverdraft, Positive
<1>5. SubscriptionCharge(r)' = SubscriptionCharge(r)
  BY <1>1, <1>2 DEF Summands, SameHold, SubscriptionCharge
<1> QED
  BY <1>1, <1>2, <1>3, <1>4, <1>5
     DEF Summands, StoreMove, WalletMove, TokenMove, UsedMove

(* A session that holds nothing is given up, or another one opened. *)
LEMMA OpeningMoves ==
  ASSUME IInv, TypeOK', NEW r \in Request, Opened(r), DirectInv(r),
         \/ pc[r] \in Unopened
         \/ pc[r] \in {"attempt", "retry"} /\ sess[r].src = "none",
         UNCHANGED ledger \/ SessionToken(r, -sess[r].tok)
  PROVE  StoreMove(r)
<1>1. Summands(r) /\ Summands(r)' /\ RequestInv(r)
  BY SummandTypes, SummandTypesNext DEF IInv
<1>2. /\ UNCHANGED <<wallet, used, charged, direct>>
      /\ \/ UNCHANGED <<token, tcharged>>
         \/ /\ r \notin Playground
            /\ token' = token + sess[r].tok
            /\ tcharged'[r] = tcharged[r] - sess[r].tok
  BY <1>1, SessionTokenType DEF IInv, TypeOK, SessionToken, ledger, stores, Summands
<1>3. /\ charged[r] = 0 /\ direct[r] = 0
      /\ sess[r].pre = 0 /\ sess[r].extra = 0
      /\ r \notin Playground => tcharged[r] >= sess[r].tok
  BY <1>1 DEF RequestInv, ControlInv, FundingInv, TokenInv, TokenDue,
     Committed, NoSession, Pending, DirectInv, Paying, Unopened, Opening2,
     Topping, Live, Over
<1>4. /\ sess'[r].pre = 0 /\ sess'[r].extra = 0 /\ sess'[r].tok = 0
      /\ pc'[r] \notin Paying
  <2>1. NoSession.pre = 0 /\ NoSession.extra = 0 /\ NoSession.tok = 0
    BY DEF NoSession
  <2>2. LET o == Opening("subscription", FALSE)
        IN  o.pre = 0 /\ o.extra = 0 /\ o.tok = 0
    BY DEF Opening, NoSession
  <2>3. sess'[r] \in {NoSession, Opening("subscription", FALSE)}
    BY DEF Opened
  <2>4. pc'[r] \notin Paying
    BY DEF Opened, Paying
  <2> QED
    BY <2>1, <2>2, <2>3, <2>4
<1>5. charged'[r] = 0 /\ direct'[r] = 0
  BY <1>2, <1>3
<1>6. Overdraft(r) = 0 /\ Overdraft(r)' = 0
  BY <1>3, <1>4, <1>5 DEF Overdraft, Positive
<1>7. SubscriptionCharge(r) = 0 /\ SubscriptionCharge(r)' = 0
  BY <1>3, <1>5 DEF SubscriptionCharge
<1>8. Unpaid(r)' = 0
  BY <1>4 DEF Unpaid
<1>9. token' + TokenShare(r)' >= token + TokenShare(r)
  <2>1. CASE r \in Playground
    <3>1. TokenShare(r) = 0 /\ TokenShare(r)' = 0 /\ token' = token
      BY <1>2, <2>1 DEF TokenShare, TokenOverdraft, Unpaid
    <3> QED
      BY <1>1, <3>1 DEF Summands
  <2>2. CASE r \notin Playground
    BY <1>1, <1>2, <1>3, <1>4, <1>5, <1>8, <2>2
       DEF Summands, TokenShare, TokenOverdraft, Positive
  <2> QED
    BY <2>1, <2>2
<1> QED
  BY <1>1, <1>2, <1>6, <1>7, <1>9
     DEF Summands, StoreMove, WalletMove, TokenMove, UsedMove

(* The funding source moves; the wallet is only overdrawn by what was       *)
(* already reserved beyond its check.                                       *)
LEMMA FundingMoves ==
  ASSUME TypeOK, TypeOK', NEW r \in Request, NEW delta \in Int,
         SessionFunding(r, delta), sess[r].src # "none",
         SameHold(r), sess'[r].tok = sess[r].tok, PaysNothing(r),
         delta > 0 => charged[r] >= sess[r].pre - sess[r].extra
  PROVE  StoreMove(r)
<1>1. Summands(r) /\ Summands(r)'
  BY SummandTypes, SummandTypesNext
<1>2. charged'[r] = charged[r] + delta /\ UNCHANGED <<token, tcharged, direct>>
  BY SessionFundingType
<1>3. TokenShare(r)' >= TokenShare(r)
  BY <1>1, <1>2, PaysNothingUnpaid DEF Summands, TokenShare, TokenOverdraft, Positive
<1>4. CASE sess[r].src = "subscription"
  <2>1. wallet' = wallet /\ used' = IF used + delta < 0 THEN 0 ELSE used + delta
    BY <1>4 DEF SessionFunding, FundingMove
  <2>2. Overdraft(r)' = Overdraft(r)
    BY <1>4 DEF SameHold, Overdraft
  <2>3. SubscriptionCharge(r)' - SubscriptionCharge(r) = delta
    BY <1>1, <1>2, <1>4 DEF Summands, SameHold, SubscriptionCharge
  <2> QED
    BY <1>1, <1>2, <1>3, <2>1, <2>2, <2>3
       DEF Summands, StoreMove, WalletMove, TokenMove, UsedMove
<1>5. CASE sess[r].src # "subscription"
  <2>1. wallet' = wallet - delta /\ used' = used
    BY <1>5 DEF SessionFunding, FundingMove
  <2>2. Overdraft(r)' - Overdraft(r) >= delta
    <3> DEFINE held == sess[r].pre - sess[r].extra
    <3>1. Overdraft(r) = Positive(charged[r] - held) + direct[r]
      BY <1>5 DEF Overdraft
    <3>2. Overdraft(r)' = Positive(charged'[r] - held) + direct'[r]
      BY <1>5 DEF SameHold, Overdraft
    <3>3. charged'[r] = charged[r] + delta /\ direct'[r] = direct[r] /\ held \in Int
      BY <1>1, <1>2 DEF Summands
    <3>4. delta > 0 => charged[r] >= held
      OBVIOUS
    <3> HIDE DEF held
    <3> QED
      BY <1>1, <3>1, <3>2, <3>3, <3>4 DEF Summands, Positive
  <2>3. SubscriptionCharge(r)' = 0 /\ SubscriptionCharge(r) = 0
    BY <1>5 DEF SameHold, SubscriptionCharge
  <2> QED
    BY <1>1, <1>2, <1>3, <2>1, <2>2, <2>3
       DEF Summands, StoreMove, WalletMove, TokenMove, UsedMove
<1> QED
  BY <1>4, <1>5

(* The token moves: a reservation is checked, a settlement overdraws it. *)
LEMMA TokenMoves ==
  ASSUME TypeOK, TypeOK', NEW r \in Request, NEW delta \in Int,
         SessionToken(r, delta), SameHold(r), PaysNothing(r),
         \/ TokenCovers(r, delta) /\ sess'[r].tok = sess[r].tok + delta
         \/ /\ sess'[r].tok = sess[r].tok
            /\ r \in Playground \/ delta <= 0 \/ tcharged[r] >= sess[r].tok
  PROVE  StoreMove(r)
<1>1. Summands(r) /\ Summands(r)'
  BY SummandTypes, SummandTypesNext
<1>2. UNCHANGED <<wallet, used, charged, direct>>
  BY SessionTokenType
<1>3. Overdraft(r)' = Overdraft(r)
  BY <1>1, <1>2 DEF Summands, SameHold, Overdraft, Positive
<1>4. SubscriptionCharge(r)' = SubscriptionCharge(r)
  BY <1>2 DEF SameHold, SubscriptionCharge
<1>5. TokenMove(r)
  <2>1. CASE r \in Playground
    <3>1. token' = token /\ TokenShare(r) = 0 /\ TokenShare(r)' = 0
      BY <2>1 DEF SessionToken, ledger, stores, TokenShare, TokenOverdraft, Unpaid
    <3> QED
      BY <1>1, <3>1 DEF Summands, TokenMove
  <2>2. CASE r \notin Playground
    <3>1. token' = token - delta /\ tcharged'[r] = tcharged[r] + delta
      BY <2>2 DEF TypeOK, SessionToken
    <3>2. Unpaid(r)' <= Unpaid(r)
      BY PaysNothingUnpaid
    <3>3. CASE TokenCovers(r, delta) /\ sess'[r].tok = sess[r].tok + delta
      <4>1. CASE UnlimitedToken \/ token >= delta
        BY <1>1, <3>1, <4>1 DEF Summands, TokenMove
      <4>2. CASE delta = 0
        BY <1>1, <1>2, <2>2, <3>1, <3>2, <3>3, <4>2
           DEF Summands, TokenMove, TokenShare, TokenOverdraft, Positive
      <4> QED
        BY <2>2, <3>3, <4>1, <4>2 DEF TokenCovers
    <3>4. CASE /\ sess'[r].tok = sess[r].tok
               /\ delta <= 0 \/ tcharged[r] >= sess[r].tok
      BY <1>1, <1>2, <2>2, <3>1, <3>2, <3>4
         DEF Summands, TokenMove, TokenShare, TokenOverdraft, Positive
    <3> QED
      BY <2>2, <3>3, <3>4
  <2> QED
    BY <2>1, <2>2
<1> QED
  BY <1>1, <1>2, <1>3, <1>4, <1>5 DEF Summands, StoreMove, WalletMove, UsedMove
-----------------------------------------------------------------------------
(* DirectInv is kept by the request that takes a step. *)
LEMMA DirectStep ==
  ASSUME TypeOK, NEW r \in Request, DirectInv(r), Step(r)
  PROVE  DirectInv(r)'
<1> USE DEF Paying
<1>1. /\ pc \in [Request -> Labels] /\ direct[r] \in Int /\ arg[r] \in Nat
      /\ turns \in [Request -> Nat] /\ direct \in [Request -> Int]
  BY DEF TypeOK
<1>2. ASSUME direct[r] = 0, direct'[r] = 0,
             pc'[r] \notin Paying \cup {"turn"}
      PROVE  DirectInv(r)'
  BY <1>2 DEF DirectInv
<1>3. CASE PreConsume(r)
  <2>1. pc[r] \in Unopened /\ direct' = direct
    BY <1>3, <1>1 DEF PreConsume, Arrive, TryWalletCheck, PreConsumeToken,
       PreConsumeFunding, UndoToken, SessionToken, SessionFunding, Declined,
       ledger, Unopened, Opening2
  <2>2. direct[r] = 0
    BY <2>1 DEF DirectInv, Unopened, Opening2
  <2>3. pc'[r] \notin Paying \cup {"turn"}
    <3> USE <1>1 DEF Goto, TryWallet, TrySubscription, Reject,
                     InsufficientQuota, Declined
    <3>1. CASE Arrive(r)
      BY <3>1 DEF Arrive, PreConsumeBilling
    <3>2. CASE TryWalletCheck(r)
      BY <3>2 DEF TryWalletCheck
    <3>3. CASE PreConsumeToken(r)
      BY <3>3 DEF PreConsumeToken
    <3>4. CASE PreConsumeFunding(r)
      BY <3>4 DEF PreConsumeFunding
    <3>5. CASE UndoToken(r)
      BY <3>5 DEF UndoToken
    <3> QED
      BY <1>3, <3>1, <3>2, <3>3, <3>4, <3>5 DEF PreConsume
  <2> QED
    BY <1>2, <2>1, <2>2, <2>3
<1>4. CASE Attempt(r) \/ ReserveFunding(r) \/ ReserveToken(r)
           \/ RollbackReserve(r) \/ FinishFailed(r)
  <2>1. /\ pc[r] \in {"attempt", "retry", "reserveFunding", "reserveToken",
                      "unreserve", "error", "violation"}
        /\ direct' = direct
    BY <1>1, <1>4 DEF Attempt, ReserveFunding, ReserveToken, RollbackReserve,
       FinishFailed, SessionToken, SessionFunding, Declined, ledger
  <2>2. direct[r] = 0
    BY <2>1 DEF DirectInv
  <2>3. pc'[r] \notin Paying \cup {"turn"}
    BY <1>1, <1>4 DEF Goto, Declined, Attempt, PrepareTieredBilling,
       PreConsumeBilling, TryWallet, TrySubscription, Reject, ReserveFunding,
       ReserveToken, RollbackReserve, FinishFailed
  <2> QED
    BY <1>2, <2>1, <2>2, <2>3
<1>5. CASE UpstreamFailed(r)
  <2>1. direct[r] = 0 /\ direct' = direct
    BY <1>1, <1>5 DEF UpstreamFailed, DirectInv, ledger
  <2>2. pc'[r] \notin Paying \cup {"turn"}
    BY <1>1, <1>5 DEF UpstreamFailed, Goto
  <2> QED
    BY <1>2, <2>1, <2>2
<1>6. CASE UpstreamServed(r) \/ UpstreamAborted(r) \/ SettleFunding(r)
           \/ SettleToken(r)
  <2>1. direct' = direct
    BY <1>6 DEF UpstreamServed, UpstreamAborted, SettleFunding, SettleToken,
       SessionToken, SessionFunding, Declined, ledger
  <2>2. pc'[r] \in {"settle", "settleToken", "post", "done"}
    BY <1>1, <1>6 DEF UpstreamServed, UpstreamAborted, SettleFunding,
       SettleToken, Declined, Goto
  <2> QED
    BY <2>1, <2>2 DEF DirectInv
<1>7. CASE RealtimeTurn(r)
  <2>1. /\ r \in Realtime /\ turns'[r] = turns[r] + 1 /\ direct' = direct
        /\ pc'[r] \in {"turn", "closing"}
    BY <1>1, <1>7 DEF RealtimeTurn, WssConsume, Goto, ledger
  <2> QED
    BY <1>1, <2>1 DEF DirectInv
<1>8. CASE PostConsumeFunding(r)
  <2>1. FundingStep(r) /\ turns' = turns /\ arg' = arg
    BY <1>8, ChargeTargets DEF PostConsumeFunding, call, loop
  <2>2. CASE /\ direct' = [direct EXCEPT ![r] = @ + arg[r]]
    <3>1. direct'[r] = direct[r] + arg[r]
      BY <1>1, <2>2
    <3> QED
      BY <1>1, <2>1, <3>1 DEF DirectInv, FundingStep
  <2>3. CASE direct' = direct /\ Goto(r, Uncharged(pc[r]))
    <3>1. pc'[r] = Uncharged(pc[r])
      BY <1>1, <2>3 DEF Goto
    <3> QED
      BY <1>1, <2>1, <2>3, <3>1 DEF DirectInv, FundingStep, Uncharged, Charged
  <2> QED
    BY <1>8, <2>2, <2>3 DEF PostConsumeFunding, Declined, ledger
<1>9. CASE PostConsumeToken(r)
  <2>1. TokenStep(r) /\ turns' = turns /\ direct' = direct
    BY <1>9, ChargeTargets DEF PostConsumeToken, loop
  <2> QED
    BY <1>1, <2>1 DEF DirectInv, TokenStep
<1>10. CASE RealtimeFlush(r)
  <2>1. /\ pc'[r] \in {"rest", "leaving", "flush", "closed"}
        /\ direct' = direct
    BY <1>10, FlushTargets DEF RealtimeFlush, ledger
  <2> QED
    BY <2>1 DEF DirectInv
<1>11. CASE Goroutine(r)
  <2>1. UNCHANGED <<pc, turns, direct, arg>>
    BY <1>11 DEF Goroutine, RefundWallet, RefundSubscription, RefundExtra,
       RefundToken, SessionFunding, SessionToken, call, loop, ledger
  <2> QED
    BY <2>1 DEF DirectInv
<1> QED
  BY <1>3, <1>4, <1>5, <1>6, <1>7, <1>8, <1>9, <1>10, <1>11
     DEF Step, Relay, Settle
-----------------------------------------------------------------------------
(* Every action is one of the four. *)
LEMMA PreConsumeStores ==
  ASSUME IInv, IInv', NEW r \in Request, DirectInv(r), PreConsume(r)
  PROVE  StoreMove(r)
<1>1. /\ TypeOK /\ TypeOK' /\ RequestInv(r)
      /\ pc \in [Request -> Labels] /\ sess \in [Request -> Session]
      /\ Summands(r) /\ Summands(r)'
  BY SummandTypes, SummandTypesNext DEF IInv, TypeOK
<1>2. pc[r] \in Unopened
  BY DEF PreConsume, Arrive, TryWalletCheck, PreConsumeToken,
     PreConsumeFunding, UndoToken, Unopened, Opening2
<1>3. ASSUME NEW src, InsufficientQuota(r, src) PROVE Opened(r)
  BY <1>1, <1>3, InsufficientOpens, OpenType
<1>4. Reject(r) => Opened(r)
  BY <1>1, OpenType
<1>5. CASE Opened(r) /\ UNCHANGED ledger
  BY <1>1, <1>2, <1>5, OpeningMoves
<1>6. CASE UNCHANGED <<ledger, sess>> /\ pc'[r] \notin Paying
  BY <1>1, <1>6, QuietMoves DEF SameHold, PaysNothing
<1>7. CASE Arrive(r)
  <2>1. UNCHANGED ledger
    BY <1>7 DEF Arrive
  <2>2. CASE Goto(r, "attempt") /\ UNCHANGED <<sess, est, errors>>
    BY <1>1, <1>6, <2>1, <2>2 DEF Goto, Paying
  <2>3. CASE \E quota \in Estimates : PreConsumeBilling(r, quota)
    <3>1. TryWallet(r) \/ TrySubscription(r) \/ Reject(r)
      BY <2>3 DEF PreConsumeBilling
    <3>2. Opened(r)
      BY <1>1, <3>1, OpenType
    <3> QED
      BY <1>5, <2>1, <3>2
  <2> QED
    BY <1>7, <2>2, <2>3 DEF Arrive
<1>8. CASE TryWalletCheck(r)
  <2>1. UNCHANGED ledger /\ pc[r] = "wallet"
    BY <1>8 DEF TryWalletCheck
  <2>2. CASE /\ sess' = [sess EXCEPT ![r] = Opening("wallet", ShouldTrust(r))]
             /\ Goto(r, "token")
    <3>1. /\ sess'[r].src = "wallet" /\ sess'[r].pre = 0
          /\ sess'[r].extra = 0 /\ sess'[r].tok = 0 /\ pc'[r] = "token"
      BY <1>1, <2>2 DEF Opening, NoSession, Goto
    <3>2. /\ sess[r].pre = 0 /\ sess[r].extra = 0 /\ sess[r].tok = 0
          /\ charged[r] = 0 /\ direct[r] = 0
      BY <1>1, <2>1 DEF RequestInv, FundingInv, TokenInv, DirectInv, Unopened
    <3>3. UNCHANGED <<wallet, token, used, charged, tcharged, direct>>
      BY <2>1 DEF ledger, stores
    <3>4. Overdraft(r) = 0 /\ Overdraft(r)' = 0
      BY <3>1, <3>2, <3>3 DEF Overdraft, Positive
    <3>5. SubscriptionCharge(r) = 0 /\ SubscriptionCharge(r)' = 0
      BY <3>1, <3>2, <3>3 DEF SubscriptionCharge
    <3>6. TokenShare(r)' = TokenShare(r)
      BY <2>1, <3>1, <3>2, <3>3 DEF TokenShare, TokenOverdraft, Unpaid, Paying
    <3> QED
      BY <1>1, <3>3, <3>4, <3>5, <3>6
         DEF Summands, StoreMove, WalletMove, TokenMove, UsedMove
  <2> QED
    BY <1>3, <1>4, <1>5, <1>8, <2>1, <2>2 DEF TryWalletCheck
<1>9. CASE PreConsumeToken(r)
  <2>1. CASE /\ TokenCovers(r, Effective(r))
             /\ SessionToken(r, Effective(r))
             /\ sess' = [sess EXCEPT ![r].tok = Effective(r)]
             /\ Goto(r, "funding")
    <3>1. pc[r] = "token" /\ sess[r].tok = 0 /\ Effective(r) \in Nat
      BY <1>1, <1>9, AmountNat DEF PreConsumeToken, RequestInv, TokenInv
    <3>2. /\ SameHold(r) /\ sess'[r].tok = sess[r].tok + Effective(r)
          /\ pc'[r] \notin Paying
      BY <1>1, <2>1, <3>1 DEF Session, SameHold, Goto, Paying
    <3> QED
      BY <1>1, <2>1, <3>1, <3>2, TokenMoves DEF PaysNothing
  <2> QED
    BY <1>4, <1>5, <1>9, <2>1 DEF PreConsumeToken
<1>10. CASE PreConsumeFunding(r)
  <2> DEFINE quota == Effective(r)
  <2>1. CASE /\ FundingCovers(r, quota) /\ SessionFunding(r, quota)
             /\ sess' = [sess EXCEPT ![r].consumed = quota, ![r].pre = quota]
             /\ Goto(r, IF InLoop(r) THEN "upstream" ELSE "attempt")
    <3>1. /\ pc[r] = "funding" /\ quota \in Nat
          /\ sess[r].pre = 0 /\ sess[r].extra = 0 /\ charged[r] = 0
          /\ direct[r] = 0 /\ sess[r].src # "none"
      BY <1>1, <1>10, AmountNat
         DEF PreConsumeFunding, RequestInv, ControlInv, FundingInv, DirectInv,
             Unopened, Opening2, Paying
    <3>2. /\ sess'[r].src = sess[r].src /\ sess'[r].pre = quota
          /\ sess'[r].extra = 0 /\ sess'[r].tok = sess[r].tok
          /\ pc'[r] \notin Paying
      BY <1>1, <2>1, <3>1 DEF Session, Goto, Paying
    <3>3. charged'[r] = quota /\ UNCHANGED <<token, tcharged, direct>>
      <4> HIDE DEF quota
      <4> QED
        BY <1>1, <2>1, <3>1, SessionFundingType
    <3> HIDE DEF quota
    <3>4. TokenShare(r)' = TokenShare(r)
      BY <3>1, <3>2, <3>3 DEF TokenShare, TokenOverdraft, Unpaid, Paying
    <3>5. CASE sess[r].src = "subscription"
      <4>1. /\ wallet' = wallet
            /\ used' = IF used + quota < 0 THEN 0 ELSE used + quota
        BY <2>1, <3>5 DEF SessionFunding, FundingMove
      <4>2. Overdraft(r) = 0 /\ Overdraft(r)' = 0
        BY <3>2, <3>5 DEF Overdraft
      <4>3. SubscriptionCharge(r) = 0 /\ SubscriptionCharge(r)' = quota
        BY <3>1, <3>2, <3>3, <3>5 DEF SubscriptionCharge
      <4> QED
        BY <1>1, <3>1, <3>3, <3>4, <4>1, <4>2, <4>3
           DEF Summands, StoreMove, WalletMove, TokenMove, UsedMove
    <3>6. CASE sess[r].src # "subscription"
      <4>1. /\ wallet' = wallet - quota /\ used' = used
            /\ quota = 0 \/ wallet >= quota
        BY <1>1, <2>1, <3>1, <3>6
           DEF Summands, SessionFunding, FundingMove, FundingCovers
      <4>2. Overdraft(r) = 0 /\ Overdraft(r)' = 0
        BY <3>1, <3>2, <3>3, <3>6 DEF Overdraft, Positive
      <4>3. SubscriptionCharge(r) = 0 /\ SubscriptionCharge(r)' = 0
        BY <3>2, <3>6 DEF SubscriptionCharge
      <4> QED
        BY <1>1, <3>1, <3>3, <3>4, <4>1, <4>2, <4>3
           DEF Summands, StoreMove, WalletMove, TokenMove, UsedMove
    <3> QED
      BY <3>5, <3>6
  <2>2. CASE Declined(r, "shortfall") \/ Declined(r, "fundingError")
    BY <1>1, <1>6, <2>2 DEF Declined, Goto, Paying
  <2> QED
    BY <1>10, <2>1, <2>2 DEF PreConsumeFunding
<1>11. CASE UndoToken(r)
  <2>1. SessionToken(r, -sess[r].tok) \/ UNCHANGED ledger
    BY <1>11 DEF UndoToken
  <2>2. Opened(r)
    BY <1>3, <1>4, <1>11 DEF UndoToken
  <2> QED
    BY <1>1, <1>2, <2>1, <2>2, OpeningMoves
<1> QED
  BY <1>7, <1>8, <1>9, <1>10, <1>11 DEF PreConsume

LEMMA RelayStores ==
  ASSUME IInv, IInv', NEW r \in Request, DirectInv(r), Relay(r)
  PROVE  StoreMove(r)
<1>1. /\ TypeOK /\ TypeOK' /\ RequestInv(r)
      /\ pc \in [Request -> Labels] /\ sess \in [Request -> Session]
      /\ Summands(r) /\ Summands(r)'
  BY SummandTypes, SummandTypesNext DEF IInv, TypeOK
<1>2. CASE UNCHANGED <<ledger, sess>> /\ pc'[r] \notin Paying
  BY <1>1, <1>2, QuietMoves DEF SameHold, PaysNothing
<1>3. CASE Attempt(r)
  <2>1. UNCHANGED ledger /\ pc[r] \in {"attempt", "retry"}
    BY <1>3 DEF Attempt
  <2>2. CASE /\ UNCHANGED sess
             /\ Goto(r, "error") \/ Goto(r, "upstream") \/ Goto(r, "reserveFunding")
    BY <1>1, <1>2, <2>1, <2>2 DEF Goto, Paying
  <2>3. CASE sess[r].src = "none" /\ \E q \in Estimates : PreConsumeBilling(r, q)
    <3>1. TryWallet(r) \/ TrySubscription(r) \/ Reject(r)
      BY <2>3 DEF PreConsumeBilling
    <3>2. Opened(r)
      BY <1>1, <3>1, OpenType
    <3> QED
      BY <1>1, <2>1, <2>3, <3>2, OpeningMoves
  <2> QED
    BY <1>3, <2>2, <2>3 DEF Attempt, PrepareTieredBilling
<1>4. CASE ReserveFunding(r)
  <2>1. CASE /\ SessionFunding(r, arg[r])
             /\ sess' = IF sess[r].src = "wallet"
                        THEN [sess EXCEPT ![r].consumed = @ + arg[r]] ELSE sess
             /\ Goto(r, "reserveToken")
    <3>1. /\ pc[r] = "reserveFunding" /\ sess[r].src # "none"
          /\ charged[r] = sess[r].pre
      BY <1>1, <1>4
         DEF ReserveFunding, RequestInv, ControlInv, FundingInv, Pending,
             Summands, Topping, Live
    <3>2. SameHold(r) /\ sess'[r].tok = sess[r].tok /\ pc'[r] \notin Paying
      BY <1>1, <2>1 DEF Session, SameHold, Goto, Paying
    <3>3. arg[r] \in Int /\ charged[r] >= sess[r].pre - sess[r].extra
      BY <1>1, <3>1 DEF Summands
    <3> QED
      BY <1>1, <2>1, <3>1, <3>2, <3>3, FundingMoves DEF PaysNothing
  <2>2. CASE Declined(r, "error")
    BY <1>1, <1>2, <2>2 DEF Declined, Goto, Paying
  <2> QED
    BY <1>4, <2>1, <2>2 DEF ReserveFunding
<1>5. CASE ReserveToken(r)
  <2>1. CASE /\ TokenCovers(r, arg[r]) /\ SessionToken(r, arg[r])
             /\ sess' = [sess EXCEPT ![r].pre = @ + arg[r], ![r].tok = @ + arg[r],
                                     ![r].extra = @ + arg[r]]
             /\ Goto(r, "upstream")
    <3>1. /\ SameHold(r) /\ sess'[r].tok = sess[r].tok + arg[r]
          /\ pc'[r] \notin Paying /\ arg[r] \in Int
      BY <1>1, <2>1 DEF Session, Summands, SameHold, Goto, Paying
    <3> QED
      BY <1>1, <2>1, <3>1, TokenMoves DEF PaysNothing
  <2>2. CASE Declined(r, "unreserve")
    BY <1>1, <1>2, <2>2 DEF Declined, Goto, Paying
  <2> QED
    BY <1>5, <2>1, <2>2 DEF ReserveToken
<1>6. CASE RollbackReserve(r)
  <2>1. CASE /\ SessionFunding(r, -arg[r])
             /\ sess' = IF sess[r].src = "wallet"
                        THEN [sess EXCEPT ![r].consumed = @ - arg[r]] ELSE sess
             /\ Goto(r, "error")
    <3>1. sess[r].src # "none"
      BY <1>1, <1>6 DEF RollbackReserve, RequestInv, ControlInv, Topping
    <3>2. SameHold(r) /\ sess'[r].tok = sess[r].tok /\ pc'[r] \notin Paying
      BY <1>1, <2>1 DEF Session, SameHold, Goto, Paying
    <3>3. -arg[r] \in Int /\ ~(-arg[r] > 0)
      BY <1>1 DEF Summands
    <3> QED
      BY <1>1, <2>1, <3>1, <3>2, <3>3, FundingMoves DEF PaysNothing
  <2>2. CASE Declined(r, "error")
    BY <1>1, <1>2, <2>2 DEF Declined, Goto, Paying
  <2> QED
    BY <1>6, <2>1, <2>2 DEF RollbackReserve
<1>7. CASE UpstreamServed(r) \/ UpstreamFailed(r) \/ RealtimeTurn(r)
           \/ RealtimeFlush(r)
  <2>1. UNCHANGED <<ledger, sess>>
    BY <1>7 DEF UpstreamServed, UpstreamFailed, RealtimeTurn, RealtimeFlush
  <2>2. pc'[r] \notin Paying
    BY <1>1, <1>7, FlushTargets
       DEF UpstreamServed, UpstreamFailed, RealtimeTurn, WssConsume, Goto, Paying
  <2> QED
    BY <1>2, <2>1, <2>2
<1>8. CASE UpstreamAborted(r) \/ FinishFailed(r)
  <2>1. UNCHANGED ledger /\ Refund(r)
    BY <1>8 DEF UpstreamAborted, FinishFailed
  <2>2. SameHold(r) /\ sess'[r].tok = sess[r].tok
    BY <1>1, <2>1 DEF Session, Refund, SameHold
  <2>3. pc'[r] \notin Paying
    BY <1>1, <1>8 DEF UpstreamAborted, FinishFailed, Goto, Paying
  <2> QED
    BY <1>1, <2>1, <2>2, <2>3, QuietMoves DEF PaysNothing
<1> QED
  BY <1>3, <1>4, <1>5, <1>6, <1>7, <1>8 DEF Relay

LEMMA SettleStores ==
  ASSUME IInv, IInv', NEW r \in Request, DirectInv(r), Settle(r)
  PROVE  StoreMove(r)
<1>1. /\ TypeOK /\ TypeOK' /\ RequestInv(r)
      /\ pc \in [Request -> Labels] /\ sess \in [Request -> Session]
      /\ Summands(r) /\ Summands(r)'
  BY SummandTypes, SummandTypesNext DEF IInv, TypeOK
<1>2. CASE UNCHANGED <<ledger, sess>> /\ pc'[r] \notin Paying
  BY <1>1, <1>2, QuietMoves DEF SameHold, PaysNothing
<1>3. CASE SettleFunding(r)
  <2> DEFINE delta == arg[r] - sess[r].pre
  <2>1. CASE /\ sess[r].src # "none" /\ SessionFunding(r, delta)
             /\ sess' = [sess EXCEPT ![r].fundingSettled = TRUE]
             /\ Goto(r, "settleToken")
    <3>1. charged[r] = sess[r].pre /\ delta \in Int
      BY <1>1, <1>3
         DEF SettleFunding, RequestInv, FundingInv, Pending, Summands,
             Topping, Live
    <3>2. SameHold(r) /\ sess'[r].tok = sess[r].tok /\ pc'[r] \notin Paying
      BY <1>1, <2>1 DEF Session, SameHold, Goto, Paying
    <3>3. charged[r] >= sess[r].pre - sess[r].extra
      BY <1>1, <3>1 DEF Summands
    <3> HIDE DEF delta
    <3> QED
      BY <1>1, <2>1, <3>1, <3>2, <3>3, FundingMoves DEF PaysNothing
  <2>2. CASE /\ sess' = [sess EXCEPT ![r].settled = TRUE]
             /\ Goto(r, "done") /\ UNCHANGED <<record, ledger>>
    <3>1. SameHold(r) /\ sess'[r].tok = sess[r].tok /\ pc'[r] \notin Paying
      BY <1>1, <2>2 DEF Session, SameHold, Goto, Paying
    <3> QED
      BY <1>1, <2>2, <3>1, QuietMoves DEF PaysNothing
  <2>3. CASE Declined(r, "done") \/ Declined(r, "post")
    BY <1>1, <1>2, <2>3 DEF Declined, Goto, Paying
  <2>4. CASE Declined(r, IF arg[r] = 0 THEN "done" ELSE "post")
    BY <2>3, <2>4
  <2> QED
    BY <1>3, <2>1, <2>2, <2>3, <2>4 DEF SettleFunding
<1>4. CASE SettleToken(r)
  <2> DEFINE delta == arg[r] - sess[r].pre
  <2>1. /\ SameHold(r) /\ sess'[r].tok = sess[r].tok /\ pc'[r] \notin Paying
        /\ pc[r] = "settleToken" /\ delta \in Int
    BY <1>1, <1>4 DEF Session, Summands, SettleToken, SameHold, Goto, Paying
  <2>2. CASE UNCHANGED ledger
    BY <1>1, <2>1, <2>2, QuietMoves DEF PaysNothing
  <2>3. CASE SessionToken(r, delta)
    <3>1. r \in Playground \/ tcharged[r] >= sess[r].tok
      BY <1>1, <2>1
         DEF RequestInv, ControlInv, TokenInv, TokenDue, Summands
    <3> HIDE DEF delta
    <3> QED
      BY <1>1, <2>1, <2>3, <3>1, TokenMoves DEF PaysNothing
  <2> QED
    BY <1>4, <2>2, <2>3 DEF SettleToken
<1>5. CASE PostConsumeFunding(r)
  <2>1. CASE /\ FundingMove(sess[r].src, arg[r])
             /\ direct' = [direct EXCEPT ![r] = @ + arg[r]]
             /\ Goto(r, TokenOf[pc[r]])
             /\ UNCHANGED <<sess, arg, token, charged, tcharged>>
    <3>1. pc[r] \in Charging /\ pc'[r] \in Paying
      BY <1>1, <1>5, <2>1
         DEF PostConsumeFunding, Goto, Paying, Charging, TokenOf
    <3>2. direct'[r] = direct[r] + arg[r]
      BY <1>1, <2>1 DEF TypeOK
    <3>3. TokenShare(r)' = TokenShare(r)
      <4>1. CASE r \in Playground
        BY <4>1 DEF TokenShare, TokenOverdraft, Unpaid
      <4>2. CASE r \notin Playground
        <5>1. Unpaid(r) = 0 /\ Unpaid(r)' = arg[r]
          BY <2>1, <3>1, <4>2 DEF Unpaid, Paying, Charging
        <5>2. TokenOverdraft(r)' = TokenOverdraft(r) + arg[r]
          BY <1>1, <2>1, <3>2, <4>2 DEF Summands, TokenOverdraft, Positive
        <5> QED
          BY <1>1, <5>1, <5>2 DEF Summands, TokenShare
      <4> QED
        BY <4>1, <4>2
    <3>4. CASE sess[r].src = "subscription"
      <4>1. /\ wallet' = wallet
            /\ used' = IF used + arg[r] < 0 THEN 0 ELSE used + arg[r]
        BY <2>1, <3>4 DEF FundingMove
      <4>2. Overdraft(r) = 0 /\ Overdraft(r)' = 0
        BY <2>1, <3>4 DEF Overdraft
      <4>3. SubscriptionCharge(r)' - SubscriptionCharge(r) = arg[r]
        BY <1>1, <2>1, <3>2, <3>4 DEF Summands, SubscriptionCharge
      <4> QED
        BY <1>1, <2>1, <3>3, <4>1, <4>2, <4>3
           DEF Summands, StoreMove, WalletMove, TokenMove, UsedMove
    <3>5. CASE sess[r].src # "subscription"
      <4>1. wallet' = wallet - arg[r] /\ used' = used
        BY <2>1, <3>5 DEF FundingMove
      <4>2. Overdraft(r)' = Overdraft(r) + arg[r]
        BY <1>1, <2>1, <3>2, <3>5 DEF Summands, Overdraft, Positive
      <4>3. SubscriptionCharge(r) = 0 /\ SubscriptionCharge(r)' = 0
        BY <2>1, <3>5 DEF SubscriptionCharge
      <4> QED
        BY <1>1, <2>1, <3>3, <4>1, <4>2, <4>3
           DEF Summands, StoreMove, WalletMove, TokenMove, UsedMove
    <3> QED
      BY <3>4, <3>5
  <2>2. CASE Declined(r, Uncharged(pc[r]))
    BY <1>1, <1>2, <2>2 DEF Declined, Goto, Paying, Uncharged, Charged
  <2> QED
    BY <1>5, <2>1, <2>2 DEF PostConsumeFunding, call
<1>6. CASE PostConsumeToken(r)
  <2>1. /\ UNCHANGED <<sess, arg, wallet, used, charged, tcharged, direct>>
        /\ pc[r] \in Paying /\ pc'[r] \notin Paying
        /\ token' = token \/ (r \notin Playground /\ token' = token - arg[r])
    BY <1>1, <1>6, ChargeTargets DEF PostConsumeToken, TokenStep, Paying, call
  <2>2. Overdraft(r)' = Overdraft(r)
    BY <2>1 DEF Overdraft
  <2>3. SubscriptionCharge(r)' = SubscriptionCharge(r)
    BY <2>1 DEF SubscriptionCharge
  <2>4. TokenOverdraft(r)' = TokenOverdraft(r)
    BY <2>1 DEF TokenOverdraft
  <2>5. /\ Unpaid(r)' = 0
        /\ r \notin Playground => Unpaid(r) = arg[r]
    BY <2>1 DEF Unpaid
  <2>6. token' + TokenShare(r)' >= token + TokenShare(r)
    BY <1>1, <2>1, <2>4, <2>5 DEF Summands, TokenShare
  <2> QED
    BY <1>1, <2>1, <2>2, <2>3, <2>6
       DEF Summands, StoreMove, WalletMove, TokenMove, UsedMove
<1> QED
  BY <1>3, <1>4, <1>5, <1>6 DEF Settle

LEMMA GoroutineStores ==
  ASSUME IInv, IInv', NEW r \in Request, DirectInv(r), Goroutine(r)
  PROVE  StoreMove(r)
<1>1. /\ TypeOK /\ TypeOK' /\ RequestInv(r)
      /\ Summands(r) /\ Summands(r)'
  BY SummandTypes, SummandTypesNext DEF IInv, TypeOK
<1>2. bg[r] # "none" /\ UNCHANGED <<pc, arg, sess>>
  BY DEF Goroutine, RefundWallet, RefundSubscription, RefundExtra,
     RefundToken, call
<1>3. SameHold(r) /\ sess'[r].tok = sess[r].tok /\ PaysNothing(r)
  BY <1>2 DEF SameHold, PaysNothing
<1>4. sess[r].src # "none"
  BY <1>1, <1>2 DEF RequestInv, ControlInv, NoSession
<1>5. CASE UNCHANGED ledger
  BY <1>1, <1>3, <1>5, QuietMoves
<1>6. ASSUME NEW quota \in Nat, SessionFunding(r, -quota) PROVE StoreMove(r)
  <2>1. -quota \in Int /\ ~(-quota > 0)
    OBVIOUS
  <2> QED
    BY <1>1, <1>3, <1>4, <1>6, <2>1, FundingMoves
<1>7. CASE RefundWallet(r)
  BY <1>1, <1>5, <1>6, <1>7 DEF Summands, RefundWallet
<1>8. CASE RefundSubscription(r)
  BY <1>1, <1>5, <1>6, <1>8 DEF Summands, RefundSubscription
<1>9. CASE RefundExtra(r)
  BY <1>1, <1>5, <1>6, <1>9 DEF Summands, RefundExtra
<1>10. CASE RefundToken(r)
  <2>1. CASE SessionToken(r, -sess[r].tok)
    <3>1. -sess[r].tok \in Int /\ -sess[r].tok <= 0
      BY <1>1 DEF Summands
    <3> QED
      BY <1>1, <1>3, <2>1, <3>1, TokenMoves
  <2> QED
    BY <1>5, <1>10, <2>1 DEF RefundToken
<1> QED
  BY <1>7, <1>8, <1>9, <1>10 DEF Goroutine
-----------------------------------------------------------------------------
(* The other requests, and the number of half-committed refunds. *)
LEMMA OthersKeepDirect ==
  ASSUME TypeOK, NEW r \in Request, NEW q \in Request, q # r, Step(r)
  PROVE  direct'[q] = direct[q] /\ turns'[q] = turns[q]
<1>1. direct \in [Request -> Int] /\ turns \in [Request -> Nat]
  BY DEF TypeOK
<1> USE DEF loop, ledger, Declined
<1>2. CASE PreConsume(r)
  BY <1>2 DEF PreConsume, Arrive, TryWalletCheck, PreConsumeToken,
     PreConsumeFunding, UndoToken, SessionToken, SessionFunding
<1>3. CASE Relay(r)
  BY <1>1, <1>3 DEF Relay, Attempt, ReserveFunding, ReserveToken,
     RollbackReserve, UpstreamServed, UpstreamAborted, UpstreamFailed,
     RealtimeTurn, RealtimeFlush, FinishFailed, SessionToken, SessionFunding
<1>4. CASE Settle(r)
  BY <1>1, <1>4 DEF Settle, SettleFunding, SettleToken, PostConsumeFunding,
     PostConsumeToken, SessionToken, SessionFunding
<1>5. CASE Goroutine(r)
  BY <1>5 DEF Goroutine, RefundWallet, RefundSubscription, RefundExtra,
     RefundToken, SessionToken, SessionFunding
<1> QED
  BY <1>2, <1>3, <1>4, <1>5 DEF Step

LEMMA OthersKeepSummands ==
  ASSUME TypeOK, NEW r \in Request, NEW q \in Request, q # r, Step(r),
         DirectInv(q)
  PROVE  /\ Overdraft(q)' = Overdraft(q)
         /\ TokenShare(q)' = TokenShare(q)
         /\ SubscriptionCharge(q)' = SubscriptionCharge(q)
         /\ DirectInv(q)'
<1>1. Untouched(q) /\ direct'[q] = direct[q] /\ turns'[q] = turns[q]
  BY OthersUntouched, OthersKeepDirect
<1> QED
  BY <1>1 DEF Untouched, Overdraft, TokenShare, TokenOverdraft, Unpaid,
     SubscriptionCharge, DirectInv

LEMMA TornGrows ==
  ASSUME TypeOK, NEW r \in Request, Step(r)
  PROVE  torn' = 0 => torn = 0
<1>1. torn \in Nat
  BY DEF TypeOK
<1>2. CASE RefundSubscription(r)
  BY <1>1, <1>2 DEF RefundSubscription
<1>3. CASE ~RefundSubscription(r)
  BY <1>3 DEF Step, PreConsume, Relay, Settle, Goroutine, goroutine,
     Arrive, TryWalletCheck, PreConsumeToken, PreConsumeFunding, UndoToken,
     Attempt, ReserveFunding, ReserveToken, RollbackReserve,
     UpstreamServed, UpstreamAborted, UpstreamFailed, RealtimeTurn,
     RealtimeFlush, FinishFailed, Refund, SettleFunding, SettleToken, PostConsumeFunding,
     PostConsumeToken, RefundWallet, RefundExtra, RefundToken
<1> QED
  BY <1>2, <1>3

LEMMA StepStores ==
  ASSUME IInv, IInv', NEW r \in Request, DirectInv(r), Step(r)
  PROVE  StoreMove(r)
BY PreConsumeStores, RelayStores, SettleStores, GoroutineStores DEF Step
-----------------------------------------------------------------------------
(* A store and the sum of its summands, before and after a step of r. *)
LEMMA DebtStep ==
  ASSUME NEW f \in [Request -> Int], NEW g \in [Request -> Int],
         NEW r \in Request, \A q \in Request \ {r} : g[q] = f[q],
         \A q \in Request : g[q] >= 0,
         NEW store \in Int, NEW next \in Int, store + SumFunction(f) >= 0,
         next >= 0 \/ next + g[r] >= store + f[r]
  PROVE  next + SumFunction(g) >= 0
<1>1. /\ SumFunction(g) = SumFunction(f) - f[r] + g[r]
      /\ SumFunction(f) \in Int /\ SumFunction(g) \in Int /\ SumFunction(g) >= 0
  BY FiniteRequests, SumStep, SumType
<1>2. f[r] \in Int /\ g[r] \in Int
  OBVIOUS
<1> QED
  BY <1>1, <1>2

LEMMA ClampedStep ==
  ASSUME NEW f \in [Request -> Int], NEW g \in [Request -> Int],
         NEW r \in Request, \A q \in Request \ {r} : g[q] = f[q],
         \A q \in Request : f[q] >= 0 /\ g[q] >= 0,
         NEW next,
         LET sum == SumFunction(f) + (g[r] - f[r])
         IN next = IF sum < 0 THEN 0 ELSE sum
  PROVE  next = SumFunction(g)
<1>1. /\ SumFunction(g) = SumFunction(f) - f[r] + g[r]
      /\ SumFunction(f) \in Int /\ SumFunction(f) >= f[r]
  BY FiniteRequests, SumStep, SumType, SumAtLeast
<1>2. f[r] \in Int /\ g[r] \in Int /\ g[r] >= 0
  OBVIOUS
<1> QED
  BY <1>1, <1>2

(* The conservation laws, with the part of a charge that the token has not  *)
(* paid yet, are inductive.                                                 *)
LEMMA TotalsStep ==
  ASSUME IInv, IInv', TotalsInv, NEW r \in Request, Step(r)
  PROVE  TotalsInv'
<1>1. TypeOK /\ TypeOK' /\ Summands(r) /\ Summands(r)'
  BY SummandTypes, SummandTypesNext DEF IInv
<1>2. ASSUME NEW q \in Request
      PROVE  /\ DirectInv(q) /\ DirectInv(q)'
             /\ Summands(q) /\ Summands(q)'
  BY <1>1, DirectStep, OthersKeepSummands, SummandTypes, SummandTypesNext
     DEF TotalsInv
<1>3. ASSUME NEW q \in Request \ {r}
      PROVE  /\ Overdraft(q)' = Overdraft(q)
             /\ TokenShare(q)' = TokenShare(q)
             /\ SubscriptionCharge(q)' = SubscriptionCharge(q)
  BY <1>1, <1>2, OthersKeepSummands
<1>4. StoreMove(r)
  BY <1>2, StepStores
<1>5. wallet \in Int /\ wallet' \in Int /\ token \in Int /\ token' \in Int
  BY <1>1 DEF Summands
<1>6. WalletDebtExplained'
  <2> DEFINE f == [q \in Request |-> Overdraft(q)]
             g == [q \in Request |-> Overdraft(q)']
  <2>1. /\ f \in [Request -> Int] /\ g \in [Request -> Int]
        /\ \A q \in Request \ {r} : g[q] = f[q]
        /\ \A q \in Request : g[q] >= 0
        /\ f[r] = Overdraft(r) /\ g[r] = Overdraft(r)'
    BY <1>2, <1>3, SummandsNatNext DEF Summands
  <2>2. wallet + SumFunction(f) >= 0
    BY DEF TotalsInv, WalletDebtExplained
  <2> HIDE DEF f, g
  <2>3. wallet' >= 0 \/ wallet' + g[r] >= wallet + f[r]
    BY <1>4, <2>1 DEF StoreMove, WalletMove
  <2>4. wallet' + SumFunction(g) >= 0
    BY <1>5, <2>1, <2>2, <2>3, DebtStep
  <2> QED
    BY <2>4 DEF g, WalletDebtExplained
<1>7. (UnlimitedToken \/ token + SumFunction([q \in Request |-> TokenShare(q)]) >= 0)'
  <2> SUFFICES ASSUME ~UnlimitedToken
               PROVE  token' + SumFunction([q \in Request |-> TokenShare(q)'])  >= 0
    OBVIOUS
  <2> DEFINE f == [q \in Request |-> TokenShare(q)]
             g == [q \in Request |-> TokenShare(q)']
  <2>1. /\ f \in [Request -> Int] /\ g \in [Request -> Int]
        /\ \A q \in Request \ {r} : g[q] = f[q]
        /\ \A q \in Request : g[q] >= 0
        /\ f[r] = TokenShare(r) /\ g[r] = TokenShare(r)'
    BY <1>2, <1>3, SummandsNatNext DEF Summands
  <2>2. token + SumFunction(f) >= 0
    BY DEF TotalsInv
  <2> HIDE DEF f, g
  <2>3. token' >= 0 \/ token' + g[r] >= token + f[r]
    BY <1>4, <2>1 DEF StoreMove, TokenMove
  <2>4. token' + SumFunction(g) >= 0
    BY <1>5, <2>1, <2>2, <2>3, DebtStep
  <2> QED
    BY <2>4 DEF g
<1>8. SubscriptionReconciles'
  <2> SUFFICES ASSUME torn' = 0
               PROVE  used' = SumFunction([q \in Request |-> SubscriptionCharge(q)'])
    BY DEF SubscriptionReconciles
  <2> DEFINE f == [q \in Request |-> SubscriptionCharge(q)]
             g == [q \in Request |-> SubscriptionCharge(q)']
  <2>1. torn = 0
    BY <1>1, TornGrows
  <2>2. /\ f \in [Request -> Int] /\ g \in [Request -> Int]
        /\ \A q \in Request \ {r} : g[q] = f[q]
        /\ \A q \in Request : f[q] >= 0 /\ g[q] >= 0
        /\ f[r] = SubscriptionCharge(r) /\ g[r] = SubscriptionCharge(r)'
    BY <1>2, <1>3, <2>1, SummandsNat, SummandsNatNext DEF Summands
  <2>3. used = SumFunction(f)
    BY <2>1 DEF TotalsInv, SubscriptionReconciles
  <2> HIDE DEF f, g
  <2>4. LET sum == SumFunction(f) + (g[r] - f[r])
        IN  used' = IF sum < 0 THEN 0 ELSE sum
    BY <1>4, <2>2, <2>3 DEF StoreMove, UsedMove
  <2>5. used' = SumFunction(g)
    BY <2>2, <2>4, ClampedStep
  <2> QED
    BY <2>5 DEF g
<1> QED
  BY <1>2, <1>6, <1>7, <1>8 DEF TotalsInv

LEMMA TotalsInit == Init => TotalsInv
<1> SUFFICES ASSUME Init PROVE TotalsInv
  OBVIOUS
<1>1. IInv
  BY InitInv
<1>2. ASSUME NEW r \in Request
      PROVE  /\ DirectInv(r)
             /\ Overdraft(r) = 0 /\ TokenShare(r) = 0
             /\ SubscriptionCharge(r) = 0
  BY DEF Init, NoSession, DirectInv, Paying, Overdraft, TokenShare,
     TokenOverdraft, Unpaid, SubscriptionCharge, Positive
<1> DEFINE zero == [r \in Request |-> 0]
<1>3. SumFunction(zero) = 0
  <2>1. zero \in [Request -> Int] /\ \A r \in Request : zero[r] = 0
    OBVIOUS
  <2> HIDE DEF zero
  <2> QED
    BY <2>1, FiniteRequests, SumType
<1>4. /\ [r \in Request |-> Overdraft(r)] = zero
      /\ [r \in Request |-> TokenShare(r)] = zero
      /\ [r \in Request |-> SubscriptionCharge(r)] = zero
  BY <1>2
<1>5. wallet \in Nat /\ token \in Nat /\ used = 0
  BY BillingConstants DEF Init
<1> HIDE DEF zero
<1> QED
  BY <1>2, <1>3, <1>4, <1>5 DEF TotalsInv, WalletDebtExplained,
     SubscriptionReconciles

THEOREM TotalsInvariance == Spec => []TotalsInv
<1>1. IInv /\ IInv' /\ TotalsInv /\ [Next]_vars => TotalsInv'
  <2> SUFFICES ASSUME IInv, IInv', TotalsInv, [Next]_vars PROVE TotalsInv'
    OBVIOUS
  <2>1. CASE Next
    BY <2>1, TotalsStep DEF Next, Step
  <2>2. CASE UNCHANGED vars
    <3>1. UNCHANGED <<pc, sess, arg, turns, torn, wallet, token, used,
                      charged, tcharged, direct>>
      BY <2>2 DEF vars, call, loop, goroutine, ledger, stores
    <3> QED
      BY <3>1 DEF TotalsInv, DirectInv, WalletDebtExplained,
         SubscriptionReconciles, Overdraft, TokenShare, TokenOverdraft,
         Unpaid, SubscriptionCharge
  <2> QED
    BY <2>1, <2>2
<1> QED
  BY <1>1, TotalsInit, Invariance, PTL DEF Spec

(* The wallet check of PreConsume and the unchecked charges of Reserve and  *)
(* Settle, by however many concurrent requests: the wallet's debt is what   *)
(* was charged beyond checked reservations.                                 *)
THEOREM WalletNeverOversold == Spec => []WalletDebtExplained
<1>1. TotalsInv => WalletDebtExplained
  BY DEF TotalsInv
<1> QED
  BY <1>1, TotalsInvariance, PTL

(* The same of a limited token, whose top-ups are checked as well. *)
THEOREM TokenNeverOversold == Spec => []TokenDebtExplained
<1>1. IInv /\ TotalsInv => TokenDebtExplained
  <2> SUFFICES ASSUME IInv, TotalsInv, ~UnlimitedToken
               PROVE  token + SumFunction([r \in Request |-> TokenOverdraft(r)]) >= 0
    BY DEF TokenDebtExplained
  <2> DEFINE f == [r \in Request |-> TokenShare(r)]
             g == [r \in Request |-> TokenOverdraft(r)]
  <2>1. ASSUME NEW r \in Request
        PROVE  Summands(r) /\ TokenOverdraft(r) >= TokenShare(r)
    BY SummandTypes, SummandsNat DEF IInv, TotalsInv
  <2>2. f \in [Request -> Int] /\ g \in [Request -> Int]
        /\ \A r \in Request : f[r] <= g[r]
    BY <2>1 DEF Summands
  <2>3. token + SumFunction(f) >= 0 /\ token \in Int
    BY DEF TotalsInv, IInv, TypeOK
  <2> HIDE DEF f, g
  <2>4. SumFunction(f) <= SumFunction(g) /\ SumFunction(f) \in Int /\ SumFunction(g) \in Int
    BY <2>2, FiniteRequests, SumMonotone, SumType
  <2>5. token + SumFunction(g) >= 0
    BY <2>3, <2>4
  <2> QED
    BY <2>5 DEF g
<1> QED
  BY <1>1, Invariance, TotalsInvariance, PTL

(* Without half-committed refunds the clamp of a subscription's usage at    *)
(* zero never bites: its usage is the sum of what its requests were         *)
(* charged.                                                                 *)
THEOREM SubscriptionAddsUp == Spec => []SubscriptionReconciles
<1>1. TotalsInv => SubscriptionReconciles
  BY DEF TotalsInv
<1> QED
  BY <1>1, TotalsInvariance, PTL
=============================================================================
