--------------------------- MODULE BillingSession ---------------------------
(***************************************************************************)
(* The billing life cycle of a relayed request: pre-consume, top-up        *)
(* reservation before each upstream attempt, settlement and asynchronous   *)
(* refund (service/billing_session.go, service/funding_source.go), driven  *)
(* by the relay controller and its retry loop (controller/relay.go).       *)
(*                                                                         *)
(* Many requests of one user run concurrently.  They share the user's      *)
(* wallet, one API token and one subscription; every action is one         *)
(* database (or Lua) operation, so requests interleave between any two of  *)
(* them.  A request's own steps are ordered by pc; the goroutine a refund  *)
(* spawns has its own program counter bg.                                  *)
(*                                                                         *)
(* The stores are linearizable here: the Redis cache and the batch writer  *)
(* in front of them are another component, and so are the periodic resets  *)
(* of a subscription.                                                      *)
(***************************************************************************)
EXTENDS Integers

CONSTANTS
  Request,         \* concurrent relay requests, one RelayInfo each
  Estimates,       \* quotas the price helper may estimate for a request
  Actuals,         \* quotas a finished request may turn out to cost
  Preference,      \* [Request -> billing preference of the user's setting]
  Playground,      \* requests of the playground: no API token is charged
  ForcePreConsume, \* requests that may not use the trust bypass
  Realtime,        \* requests relayed over a realtime websocket
  UnlimitedToken,  \* TRUE iff the API token has no quota limit
  HasSubscription, \* TRUE iff the user owns an active subscription
  AllowOverflow,   \* its plan lets the wallet take over
  AmountTotal,     \* quota of the subscription, 0 = unlimited
  WalletInit, TokenInit,
  TrustQuota,      \* common.GetTrustQuota()
  FeeQuota,        \* violation fee, 0 = disabled
  RetryTimes,      \* common.RetryTimes
  Groups,          \* groups an "auto" token may use; 1 for any other token
  CrossGroupRetry, \* TRUE iff the auto token retries across groups
  MaxFaults,       \* bound: database errors in a behaviour
  MaxTorn,         \* bound: half-committed subscription refunds
  MaxTurns         \* bound: billed turns of a realtime connection

Preferences == {"subscription_only", "wallet_only", "wallet_first",
                "subscription_first"}

ASSUME BillingConstants ==
  /\ Estimates \subseteq Nat
  /\ Actuals \subseteq Nat
  /\ Preference \in [Request -> Preferences]
  /\ Playground \subseteq Request
  /\ ForcePreConsume \subseteq Request
  /\ Realtime \subseteq Request
  /\ UnlimitedToken \in BOOLEAN
  /\ HasSubscription \in BOOLEAN
  /\ AllowOverflow \in BOOLEAN
  /\ AmountTotal \in Nat
  /\ WalletInit \in Nat
  /\ TokenInit \in Nat
  /\ TrustQuota \in Nat
  /\ FeeQuota \in Nat
  /\ RetryTimes \in Nat
  /\ Groups \in Nat \ {0}
  /\ CrossGroupRetry \in BOOLEAN
  /\ MaxFaults \in Nat
  /\ MaxTorn \in Nat
  /\ MaxTurns \in Nat

VARIABLES
  pc,        \* where each request stands
  sess,      \* its BillingSession; NoSession while RelayInfo.Billing is nil
  tokenSeen, \* the token quota its authentication read
  est,       \* the estimate its pre-consume was called with
  arg,       \* argument of the call in progress (Reserve, Settle, PostConsume)
  retry,     \* Retry of its RetryParam, -1 before the retry loop
  group,     \* ContextKeyAutoGroupIndex, the group to select from
  resetNext, \* resetNextTry of its RetryParam
  turns,     \* realtime turns billed
  spent,     \* the usage of those turns
  actual,    \* history: the cost of the answer it served, -1 before
  bg,        \* program counter of its refund goroutine
  tries,     \* failed tries of refundWithRetry
  torn,      \* half-committed subscription refunds so far
  record,    \* its SubscriptionPreConsumeRecord
  wallet,    \* users.quota
  token,     \* tokens.remain_quota
  used,      \* user_subscriptions.amount_used
  charged,   \* history: what its session took from its funding source, net
  tcharged,  \* history: what its session took from the token, net
  direct,    \* history: what it was charged past its session
  faults,    \* database errors so far
  hit        \* history: the requests that met one

stores == <<wallet, token, used>>
ledger == <<stores, charged, tcharged, direct>>
call == <<est, arg>>
param == <<retry, group, resetNext>>
loop == <<tokenSeen, param, turns, spent, actual>>
goroutine == <<bg, tries, torn>>
errors == <<faults, hit>>
vars == <<pc, sess, call, loop, goroutine, record, ledger, errors>>
-----------------------------------------------------------------------------
Session ==
  [src : {"none", "wallet", "subscription"}, pre : Nat, tok : Nat,
   extra : Nat, consumed : Nat, trusted : BOOLEAN,
   fundingSettled : BOOLEAN, settled : BOOLEAN, refunded : BOOLEAN]

NoSession ==
  [src |-> "none", pre |-> 0, tok |-> 0, extra |-> 0, consumed |-> 0,
   trusted |-> FALSE, fundingSettled |-> FALSE, settled |-> FALSE,
   refunded |-> FALSE]

Opening(src, trust) == [NoSession EXCEPT !.src = src, !.trusted = trust]

(* trySubscription never pre-consumes zero. *)
Amount(r) == IF sess[r].src = "subscription" /\ est[r] = 0 THEN 1 ELSE est[r]

Effective(r) == IF sess[r].trusted THEN 0 ELSE Amount(r)

Goto(r, label) == pc' = [pc EXCEPT ![r] = label]

NoFault == UNCHANGED errors

(* The database operation of this step fails and changes nothing. *)
Fault(r) ==
  /\ faults < MaxFaults
  /\ faults' = faults + 1
  /\ hit' = hit \cup {r}

(* A step that moves no quota and goes on at label. *)
Declined(r, label) ==
  /\ Goto(r, label)
  /\ UNCHANGED <<sess, record, ledger>>

(* PostConsumeUserSubscriptionDelta: clamped at zero, an error past the     *)
(* total.  The wallet takes any delta.                                      *)
FundingFits(src, delta) ==
  src = "subscription" => AmountTotal = 0 \/ used + delta <= AmountTotal

FundingMove(src, delta) ==
  IF src = "subscription"
  THEN /\ used' = IF used + delta < 0 THEN 0 ELSE used + delta
       /\ UNCHANGED wallet
  ELSE /\ wallet' = wallet - delta
       /\ UNCHANGED used

SessionFunding(r, delta) ==
  /\ FundingMove(sess[r].src, delta)
  /\ charged' = [charged EXCEPT ![r] = @ + delta]
  /\ UNCHANGED <<token, tcharged, direct>>

(* The token's share, skipped for the playground. *)
SessionToken(r, delta) ==
  IF r \in Playground
  THEN UNCHANGED ledger
  ELSE /\ token' = token - delta
       /\ tcharged' = [tcharged EXCEPT ![r] = @ + delta]
       /\ UNCHANGED <<wallet, used, charged, direct>>

(* Mutant: checks the balance the authentication read. *)
TokenCoversStale(r, quota) ==
  r \in Playground \/ quota = 0 \/ UnlimitedToken \/ tokenSeen[r] >= quota

(* PreConsumeTokenQuota: only a limited token is checked. *)
TokenCovers(r, quota) ==
  r \in Playground \/ quota = 0 \/ UnlimitedToken \/ token >= quota
-----------------------------------------------------------------------------
Init ==
  /\ pc = [r \in Request |-> "idle"]
  /\ sess = [r \in Request |-> NoSession]
  /\ tokenSeen = [r \in Request |-> 0]
  /\ est = [r \in Request |-> 0]
  /\ arg = [r \in Request |-> 0]
  /\ retry = [r \in Request |-> -1]
  /\ group = [r \in Request |-> 0]
  /\ resetNext = [r \in Request |-> FALSE]
  /\ turns = [r \in Request |-> 0]
  /\ spent = [r \in Request |-> 0]
  /\ actual = [r \in Request |-> -1]
  /\ bg = [r \in Request |-> "none"]
  /\ tries = [r \in Request |-> 0]
  /\ torn = 0
  /\ record = [r \in Request |-> "none"]
  /\ wallet = WalletInit
  /\ token = TokenInit
  /\ used = 0
  /\ charged = [r \in Request |-> 0]
  /\ tcharged = [r \in Request |-> 0]
  /\ direct = [r \in Request |-> 0]
  /\ faults = 0
  /\ hit = {}
-----------------------------------------------------------------------------
(* NewBillingSession: the funding source tried first. *)
WalletFirst(r) ==
  \/ Preference[r] \in {"wallet_only", "wallet_first"}
  \/ Preference[r] = "subscription_first" /\ ~HasSubscription

TryWallet(r) ==
  /\ Goto(r, "wallet")
  /\ sess' = [sess EXCEPT ![r] = NoSession]

TrySubscription(r) ==
  /\ Goto(r, "token")
  /\ sess' = [sess EXCEPT ![r] = Opening("subscription", FALSE)]

InLoop(r) == pc[r] = "attempt" \/ retry[r] # -1

(* The request gets no session; before the retry loop it just returns. *)
Reject(r) ==
  /\ Goto(r, IF InLoop(r) THEN "error" ELSE "done")
  /\ sess' = [sess EXCEPT ![r] = NoSession]

PreConsumeBilling(r, quota) ==
  /\ est' = [est EXCEPT ![r] = quota]
  /\ \/ (IF WalletFirst(r) THEN TryWallet(r) ELSE TrySubscription(r)) /\ NoFault
     \/ Preference[r] = "subscription_first" /\ Reject(r) /\ Fault(r)

(* Mutant: falls back whatever the preference. *)
FallBackAlways(r, src) ==
  IF src = "wallet" THEN TrySubscription(r) ELSE TryWallet(r)

(* ErrorCodeInsufficientUserQuota: the other source, where allowed. *)
InsufficientQuota(r, src) ==
  CASE src = "wallet" /\ Preference[r] = "wallet_first" -> TrySubscription(r)
    [] src = "subscription" /\ Preference[r] = "subscription_first"
         /\ AllowOverflow -> TryWallet(r)
    [] OTHER -> Reject(r)

(* Relay: the request is authenticated and priced; a free model skips the   *)
(* pre-consume.                                                             *)
Arrive(r) ==
  /\ pc[r] = "idle"
  /\ tokenSeen' = [tokenSeen EXCEPT ![r] = token]
  /\ \/ Goto(r, "attempt") /\ UNCHANGED <<sess, est, errors>>
     \/ \E quota \in Estimates : PreConsumeBilling(r, quota)
  /\ UNCHANGED <<arg, param, turns, spent, actual, goroutine, record, ledger>>

(* shouldTrust: the token as authentication saw it, the wallet just read. *)
ShouldTrust(r) ==
  /\ r \notin ForcePreConsume
  /\ TrustQuota > 0
  /\ UnlimitedToken \/ tokenSeen[r] > TrustQuota
  /\ wallet > TrustQuota

(* tryWallet: read the balance and open a wallet session. *)
TryWalletCheck(r) ==
  /\ pc[r] = "wallet"
  /\ \/ /\ wallet <= 0 \/ wallet < est[r]
        /\ InsufficientQuota(r, "wallet")
        /\ NoFault
     \/ /\ wallet > 0 /\ wallet >= est[r]
        /\ sess' = [sess EXCEPT ![r] = Opening("wallet", ShouldTrust(r))]
        /\ Goto(r, "token")
        /\ NoFault
     \/ Reject(r) /\ Fault(r)
  /\ UNCHANGED <<call, loop, goroutine, record, ledger>>

(* preConsume, step 1: reserve the token quota. *)
PreConsumeToken(r) ==
  LET quota == Effective(r)
  IN
  /\ pc[r] = "token"
  /\ \/ /\ TokenCovers(r, quota)
        /\ SessionToken(r, quota)
        /\ sess' = [sess EXCEPT ![r].tok = quota]
        /\ Goto(r, "funding")
        /\ NoFault
     \/ ~TokenCovers(r, quota) /\ Reject(r) /\ NoFault /\ UNCHANGED ledger
     \/ /\ quota > 0 /\ r \notin Playground
        /\ Reject(r) /\ Fault(r) /\ UNCHANGED ledger
  /\ UNCHANGED <<call, loop, goroutine, record>>

(* Mutant: the wallet's balance was checked earlier, when it was read. *)
FundingCoversUnchecked(r, quota) ==
  \/ sess[r].src = "wallet"
  \/ HasSubscription /\ FundingFits("subscription", quota)

(* The wallet's check-and-deduct is atomic; the subscription must be active *)
(* and have that much left.                                                 *)
FundingCovers(r, quota) ==
  IF sess[r].src = "wallet"
  THEN quota = 0 \/ wallet >= quota
  ELSE HasSubscription /\ FundingFits("subscription", quota)

(* Mutant: a trusted session remembers the estimate as reserved. *)
PreConsumeFundingEstimate(r) ==
  /\ pc[r] = "funding"
  /\ FundingCovers(r, Effective(r))
  /\ SessionFunding(r, Effective(r))
  /\ sess' = [sess EXCEPT ![r].consumed = Effective(r), ![r].pre = Amount(r)]
  /\ Goto(r, IF InLoop(r) THEN "upstream" ELSE "attempt")
  /\ NoFault
  /\ UNCHANGED <<record, call, loop, goroutine>>

(* preConsume, step 2: reserve the funding source.  The subscription path   *)
(* reports some database errors as a missing subscription.                  *)
PreConsumeFunding(r) ==
  LET quota == Effective(r)
  IN
  /\ pc[r] = "funding"
  /\ \/ /\ FundingCovers(r, quota)
        /\ SessionFunding(r, quota)
        /\ sess' = [sess EXCEPT ![r].consumed = quota, ![r].pre = quota]
        /\ record' = IF sess[r].src = "subscription"
                     THEN [record EXCEPT ![r] = "consumed"] ELSE record
        /\ Goto(r, IF InLoop(r) THEN "upstream" ELSE "attempt")
        /\ NoFault
     \/ ~FundingCovers(r, quota) /\ Declined(r, "shortfall") /\ NoFault
     \/ quota > 0 /\ Declined(r, "fundingError") /\ Fault(r)
     \/ /\ sess[r].src = "subscription"
        /\ Declined(r, "shortfall") /\ Fault(r)
  /\ UNCHANGED <<call, loop, goroutine>>

(* preConsume, failed step 2: roll the token back, then report the error.   *)
(* Whether the subscription allows the wallet is another query.             *)
UndoToken(r) ==
  /\ pc[r] \in {"shortfall", "fundingError"}
  /\ \/ /\ \/ SessionToken(r, -sess[r].tok) /\ NoFault
           \/ /\ sess[r].tok > 0 /\ r \notin Playground
              /\ Fault(r) /\ UNCHANGED ledger
        /\ IF pc[r] = "shortfall"
           THEN InsufficientQuota(r, sess[r].src)
           ELSE Reject(r)
     \/ /\ pc[r] = "shortfall" /\ sess[r].src = "subscription"
        /\ Preference[r] = "subscription_first"
        /\ SessionToken(r, -sess[r].tok)
        /\ Reject(r) /\ Fault(r)
  /\ UNCHANGED <<call, loop, goroutine, record>>
-----------------------------------------------------------------------------
(* Mutant: a target below the reservation is not skipped. *)
ReserveSkipsNever(r, target) ==
  sess[r].settled \/ sess[r].refunded \/ sess[r].trusted

ReserveSkips(r, target) ==
  \/ sess[r].settled \/ sess[r].refunded \/ sess[r].trusted
  \/ target <= sess[r].pre

(* PrepareTieredBillingForSelectedGroup for a paid group: the session may   *)
(* only be opened now, if the first group was free.                         *)
PrepareTieredBilling(r, target) ==
  \/ /\ sess[r].src = "none"
     /\ PreConsumeBilling(r, target)
     /\ UNCHANGED arg
  \/ /\ sess[r].src # "none"
     /\ IF ReserveSkips(r, target)
        THEN Goto(r, "upstream") /\ UNCHANGED arg
        ELSE /\ Goto(r, "reserveFunding")
             /\ arg' = [arg EXCEPT ![r] = target - sess[r].pre]
     /\ UNCHANGED <<sess, est, errors>>

SetParam(r, count, index, reset) ==
  /\ retry' = [retry EXCEPT ![r] = count]
  /\ group' = [group EXCEPT ![r] = index]
  /\ resetNext' = [resetNext EXCEPT ![r] = reset]

(* Mutant: the exhausted group stays the one to select from. *)
SelectChannelAgain(r) ==
  \E i \in group[r] .. Groups - 1 :
    LET priority == IF i > group[r] THEN 0 ELSE retry[r]
    IN IF CrossGroupRetry /\ priority >= RetryTimes
       THEN SetParam(r, 0, i, TRUE)
       ELSE SetParam(r, priority, i, resetNext[r])

(* CacheGetRandomSatisfiedChannel finds a channel in group i, after groups  *)
(* without one.  A later group starts at its first priority; a group that   *)
(* has used up its retries hands over to the next one, which gets as many.  *)
SelectChannel(r) ==
  \E i \in group[r] .. Groups - 1 :
    LET priority == IF i > group[r] THEN 0 ELSE retry[r]
    IN IF CrossGroupRetry /\ priority >= RetryTimes
       THEN SetParam(r, 0, i + 1, TRUE)
       ELSE SetParam(r, priority, i, resetNext[r])

(* getChannel: the first attempt uses the channel of the distributor, which *)
(* leaves the index of its group behind.                                    *)
GetChannel(r) ==
  \/ /\ pc[r] = "attempt"
     /\ \E i \in 0 .. Groups - 1 : SetParam(r, 0, i, FALSE)
  \/ pc[r] = "retry" /\ SelectChannel(r)

(* The top of the retry loop: no channel left, an unreadable body, a model  *)
(* without tiered billing (or a free group), or a paid group of a tiered    *)
(* model.  The RetryParam is dead once the loop is left.                    *)
Attempt(r) ==
  /\ pc[r] \in {"attempt", "retry"}
  /\ \/ Goto(r, "error") /\ UNCHANGED <<sess, call, param, errors>>
     \/ /\ GetChannel(r)
        /\ \/ Goto(r, "upstream") /\ UNCHANGED <<sess, call, errors>>
           \/ \E target \in Estimates : PrepareTieredBilling(r, target)
  /\ UNCHANGED <<tokenSeen, turns, spent, actual, goroutine, record, ledger>>

(* Reserve, step 1: the wallet is charged even below zero. *)
ReserveFunding(r) ==
  /\ pc[r] = "reserveFunding"
  /\ \/ /\ FundingFits(sess[r].src, arg[r])
        /\ SessionFunding(r, arg[r])
        /\ sess' = IF sess[r].src = "wallet"
                   THEN [sess EXCEPT ![r].consumed = @ + arg[r]] ELSE sess
        /\ Goto(r, "reserveToken")
        /\ NoFault
        /\ UNCHANGED record
     \/ ~FundingFits(sess[r].src, arg[r]) /\ Declined(r, "error") /\ NoFault
     \/ Declined(r, "error") /\ Fault(r)
  /\ UNCHANGED <<call, loop, goroutine>>

(* Mutant: a token that does not cover the top-up ends the request without  *)
(* a rollback.                                                              *)
ReserveTokenNoRollback(r) ==
  /\ pc[r] = "reserveToken"
  /\ ~TokenCovers(r, arg[r]) /\ Declined(r, "error") /\ NoFault
  /\ UNCHANGED <<call, loop, goroutine>>

(* Reserve, step 2: the token is checked. *)
ReserveToken(r) ==
  /\ pc[r] = "reserveToken"
  /\ \/ /\ TokenCovers(r, arg[r])
        /\ SessionToken(r, arg[r])
        /\ sess' = [sess EXCEPT ![r].pre = @ + arg[r], ![r].tok = @ + arg[r],
                                ![r].extra = @ + arg[r]]
        /\ Goto(r, "upstream")
        /\ NoFault
        /\ UNCHANGED record
     \/ ~TokenCovers(r, arg[r]) /\ Declined(r, "unreserve") /\ NoFault
     \/ r \notin Playground /\ Declined(r, "unreserve") /\ Fault(r)
  /\ UNCHANGED <<call, loop, goroutine>>

(* Mutant: the wallet's consumption keeps the top-up that was undone. *)
RollbackReserveKeeps(r) ==
  /\ pc[r] = "unreserve"
  /\ SessionFunding(r, -arg[r])
  /\ Goto(r, "error")
  /\ NoFault
  /\ UNCHANGED <<sess, record, call, loop, goroutine>>

(* rollbackFundingReserve; its failure is only logged. *)
RollbackReserve(r) ==
  /\ pc[r] = "unreserve"
  /\ \/ /\ SessionFunding(r, -arg[r])
        /\ sess' = IF sess[r].src = "wallet"
                   THEN [sess EXCEPT ![r].consumed = @ - arg[r]] ELSE sess
        /\ Goto(r, "error")
        /\ NoFault
        /\ UNCHANGED record
     \/ Declined(r, "error") /\ Fault(r)
  /\ UNCHANGED <<call, loop, goroutine>>
-----------------------------------------------------------------------------
NeedsRefund(s) ==
  /\ ~s.settled /\ ~s.refunded /\ ~s.fundingSettled
  /\ s.tok > 0 \/ (s.src = "subscription" /\ s.consumed > 0)

(* Refund: marks the session and spawns the goroutine. *)
Refund(r) ==
  /\ IF NeedsRefund(sess[r])
     THEN /\ sess' = [sess EXCEPT ![r].refunded = TRUE]
          /\ bg' = [bg EXCEPT ![r] = "funding"]
     ELSE UNCHANGED <<sess, bg>>
  /\ UNCHANGED <<tries, torn>>

(* The upstream answered; a realtime connection is closed. *)
UpstreamServed(r) ==
  /\ pc[r] = IF r \in Realtime THEN "closed" ELSE "upstream"
  /\ \E quota \in IF r \in Realtime THEN {spent[r]} ELSE Actuals :
       /\ arg' = [arg EXCEPT ![r] = quota]
       /\ actual' = [actual EXCEPT ![r] = quota]
  /\ Goto(r, "settle")
  /\ UNCHANGED <<sess, est, tokenSeen, param, turns, spent, goroutine, record,
                 ledger, errors>>

(* Mutant: the handler refunds and goes on to settle. *)
UpstreamAbortedSettles(r) ==
  /\ pc[r] = "upstream"
  /\ r \notin Realtime
  /\ Refund(r)
  /\ Goto(r, "settle")
  /\ UNCHANGED <<call, loop, record, ledger, errors>>

(* A stream that ended abnormally, or an answer without tokens: the handler *)
(* refunds and reports success to the controller.                           *)
UpstreamAborted(r) ==
  /\ pc[r] = "upstream"
  /\ r \notin Realtime
  /\ Refund(r)
  /\ Goto(r, "done")
  /\ UNCHANGED <<call, loop, record, ledger, errors>>

(* An upstream error: retried while the loop of Relay goes on (a channel    *)
(* error is retried whatever shouldRetry counts), final, or a violation.  A *)
(* realtime connection can only fail to open.                               *)
IncreaseRetry(r) ==
  /\ resetNext' = [resetNext EXCEPT ![r] = FALSE]
  /\ retry' = IF resetNext[r] THEN retry ELSE [retry EXCEPT ![r] = @ + 1]
  /\ UNCHANGED group

UpstreamFailed(r) ==
  /\ pc[r] = "upstream"
  /\ r \in Realtime => turns[r] = 0
  /\ \/ IncreaseRetry(r) /\ retry'[r] <= RetryTimes /\ Goto(r, "retry")
     \/ Goto(r, "error") /\ UNCHANGED param
     \/ Goto(r, "violation") /\ UNCHANGED param
  /\ UNCHANGED <<sess, call, tokenSeen, turns, spent, actual, goroutine,
                 record, ledger, errors>>

(* The deferred function of Relay: refund, then the violation fee. *)
FinishFailed(r) ==
  /\ pc[r] \in {"error", "violation"}
  /\ Refund(r)
  /\ IF pc[r] = "violation" /\ FeeQuota > 0
     THEN Goto(r, "post") /\ arg' = [arg EXCEPT ![r] = FeeQuota]
     ELSE Goto(r, "done") /\ UNCHANGED arg
  /\ UNCHANGED <<est, loop, record, ledger, errors>>
-----------------------------------------------------------------------------
(* Mutant: settles against the first reservation, not the topped-up one. *)
SettleFundingAtEstimate(r) ==
  LET delta == arg[r] - Effective(r)
  IN
  /\ pc[r] = "settle"
  /\ sess[r].src # "none" /\ FundingFits(sess[r].src, delta)
  /\ SessionFunding(r, delta)
  /\ sess' = [sess EXCEPT ![r].fundingSettled = TRUE]
  /\ Goto(r, "settleToken")
  /\ NoFault
  /\ UNCHANGED <<record, call, loop, goroutine>>

(* SettleBilling, up to the funding source of Settle.  Without a session    *)
(* the cost is charged directly.                                            *)
SettleFunding(r) ==
  LET delta == arg[r] - sess[r].pre
      src == sess[r].src
      open == src # "none" /\ ~sess[r].settled /\ delta # 0
  IN
  /\ pc[r] = "settle"
  /\ \/ /\ src = "none"
        /\ Declined(r, IF arg[r] = 0 THEN "done" ELSE "post")
        /\ NoFault
     \/ /\ src # "none" /\ ~open
        /\ sess' = [sess EXCEPT ![r].settled = TRUE]
        /\ Goto(r, "done")
        /\ NoFault
        /\ UNCHANGED <<record, ledger>>
     \/ /\ open /\ FundingFits(src, delta)
        /\ SessionFunding(r, delta)
        /\ sess' = [sess EXCEPT ![r].fundingSettled = TRUE]
        /\ Goto(r, "settleToken")
        /\ NoFault
        /\ UNCHANGED record
     \/ open /\ ~FundingFits(src, delta) /\ Declined(r, "done") /\ NoFault
     \/ open /\ Declined(r, "done") /\ Fault(r)
  /\ UNCHANGED <<call, loop, goroutine>>

(* Settle, the token part: its failure is only logged. *)
SettleToken(r) ==
  /\ pc[r] = "settleToken"
  /\ \/ SessionToken(r, arg[r] - sess[r].pre) /\ NoFault
     \/ r \notin Playground /\ Fault(r) /\ UNCHANGED ledger
  /\ sess' = [sess EXCEPT ![r].settled = TRUE]
  /\ Goto(r, "done")
  /\ UNCHANGED <<call, loop, goroutine, record>>
-----------------------------------------------------------------------------
(* preConsumeUsage and PreWssConsumeQuota, for a model priced by usage: the *)
(* usage is added to the connection's, and charged at once if the balances  *)
(* can be read and suffice.                                                 *)
WssConsume(r, quota, charging, failed) ==
  /\ spent' = [spent EXCEPT ![r] = @ + quota]
  /\ arg' = [arg EXCEPT ![r] = quota]
  /\ \/ /\ wallet >= quota /\ (UnlimitedToken \/ token >= quota)
        /\ Goto(r, charging) /\ NoFault
     \/ /\ wallet < quota \/ (~UnlimitedToken /\ token < quota)
        /\ Goto(r, failed) /\ NoFault
     \/ Goto(r, failed) /\ Fault(r)

(* The upstream reports a response as done.  A turn that cannot be charged  *)
(* ends the connection, with its usage not cleared.                         *)
RealtimeTurn(r) ==
  /\ pc[r] = "upstream"
  /\ r \in Realtime
  /\ turns[r] < MaxTurns
  /\ turns' = [turns EXCEPT ![r] = @ + 1]
  /\ \E quota \in Actuals \ {0} : WssConsume(r, quota, "turn", "closing")
  /\ UNCHANGED <<sess, est, tokenSeen, param, actual, goroutine, record, ledger>>

(* The end of OpenaiRealtimeHandler: the usage of a failed turn is consumed *)
(* once more, then what was counted locally since the last turn.            *)
RealtimeFlush(r) ==
  /\ r \in Realtime
  /\ \/ pc[r] = "closing" /\ WssConsume(r, arg[r], "rest", "leaving")
     \/ /\ pc[r] \in {"upstream", "leaving"}
        /\ \E quota \in Actuals \ {0} : WssConsume(r, quota, "flush", "closed")
     \/ /\ pc[r] \in {"upstream", "leaving"}
        /\ Goto(r, "closed")
        /\ UNCHANGED <<spent, arg, errors>>
  /\ UNCHANGED <<sess, est, tokenSeen, param, turns, actual, goroutine, record,
                 ledger>>

(* Where a charge past the session goes on: only a failed turn matters.     *)
Charging == {"turn", "rest", "flush", "post"}

TokenOf ==
  [turn |-> "turnToken", rest |-> "restToken", flush |-> "flushToken",
   post |-> "postToken"]

Charged(label) ==
  CASE label \in {"turn", "turnToken"} -> "upstream"
    [] label \in {"rest", "restToken"} -> "leaving"
    [] label \in {"flush", "flushToken"} -> "closed"
    [] OTHER -> "done"

Uncharged(label) ==
  IF label \in {"turn", "turnToken"} THEN "closing" ELSE Charged(label)

(* PostConsumeQuota, a charge past the session: realtime usage, a violation *)
(* fee, or the cost of a request without a session.                         *)
PostConsumeFunding(r) ==
  /\ pc[r] \in Charging
  /\ \/ /\ FundingFits(sess[r].src, arg[r])
        /\ FundingMove(sess[r].src, arg[r])
        /\ direct' = [direct EXCEPT ![r] = @ + arg[r]]
        /\ Goto(r, TokenOf[pc[r]])
        /\ NoFault
        /\ UNCHANGED <<sess, record, token, charged, tcharged>>
     \/ /\ ~FundingFits(sess[r].src, arg[r])
        /\ Declined(r, Uncharged(pc[r])) /\ NoFault
     \/ Declined(r, Uncharged(pc[r])) /\ Fault(r)
  /\ UNCHANGED <<call, loop, goroutine>>

PostConsumeToken(r) ==
  /\ pc[r] \in {TokenOf[label] : label \in Charging}
  /\ \/ /\ token' = IF r \in Playground THEN token ELSE token - arg[r]
        /\ Goto(r, Charged(pc[r]))
        /\ NoFault
     \/ /\ r \notin Playground
        /\ Goto(r, Uncharged(pc[r]))
        /\ Fault(r)
        /\ UNCHANGED token
  /\ UNCHANGED <<sess, call, loop, goroutine, record, wallet, used, charged,
                 tcharged, direct>>
-----------------------------------------------------------------------------
(* The refund goroutine.  Each step hands over to the next one whether it   *)
(* succeeded or not.                                                        *)
Advance(r, label) == bg' = [bg EXCEPT ![r] = label]

(* WalletFunding.Refund: not idempotent, tried once. *)
RefundWallet(r) ==
  /\ bg[r] = "funding"
  /\ sess[r].src = "wallet"
  /\ \/ SessionFunding(r, -sess[r].consumed) /\ NoFault
     \/ sess[r].consumed > 0 /\ Fault(r) /\ UNCHANGED ledger
  /\ Advance(r, "extra")
  /\ UNCHANGED <<pc, sess, call, loop, tries, torn, record>>

(* refundWithRetry over RefundSubscriptionPreConsume.  The quota goes back  *)
(* in a transaction of its own, inside the one that marks the record: the   *)
(* outer commit may fail after the inner one succeeded.                     *)
MaxTries == 3

RetryRefund(r) ==
  /\ tries' = [tries EXCEPT ![r] = @ + 1]
  /\ IF tries[r] + 1 < MaxTries THEN UNCHANGED bg ELSE Advance(r, "extra")
  /\ UNCHANGED record

RefundSubscription(r) ==
  /\ bg[r] = "funding"
  /\ sess[r].src = "subscription"
  /\ \/ /\ record[r] = "consumed"
        /\ SessionFunding(r, -sess[r].consumed)
        /\ record' = [record EXCEPT ![r] = "refunded"]
        /\ Advance(r, "extra")
        /\ NoFault
        /\ UNCHANGED <<tries, torn>>
     \/ RetryRefund(r) /\ Fault(r) /\ UNCHANGED <<torn, ledger>>
     \/ /\ torn < MaxTorn
        /\ torn' = torn + 1
        /\ SessionFunding(r, -sess[r].consumed)
        /\ RetryRefund(r)
        /\ NoFault
  /\ UNCHANGED <<pc, sess, call, loop>>

(* Mutant: gives back the whole reservation, whatever the source. *)
RefundExtraAll(r) ==
  /\ bg[r] = "extra"
  /\ SessionFunding(r, -sess[r].pre) /\ NoFault
  /\ Advance(r, "token")
  /\ UNCHANGED <<pc, sess, call, loop, tries, torn, record>>

(* The top-up reservation of a subscription is given back separately. *)
RefundExtra(r) ==
  LET due == IF sess[r].src = "subscription" THEN sess[r].extra ELSE 0
  IN
  /\ bg[r] = "extra"
  /\ \/ SessionFunding(r, -due) /\ NoFault
     \/ due > 0 /\ Fault(r) /\ UNCHANGED ledger
  /\ Advance(r, "token")
  /\ UNCHANGED <<pc, sess, call, loop, tries, torn, record>>

RefundToken(r) ==
  /\ bg[r] = "token"
  /\ \/ SessionToken(r, -sess[r].tok) /\ NoFault
     \/ /\ sess[r].tok > 0 /\ r \notin Playground
        /\ Fault(r) /\ UNCHANGED ledger
  /\ Advance(r, "done")
  /\ UNCHANGED <<pc, sess, call, loop, tries, torn, record>>
-----------------------------------------------------------------------------
PreConsume(r) ==
  \/ Arrive(r) \/ TryWalletCheck(r) \/ PreConsumeToken(r)
  \/ PreConsumeFunding(r) \/ UndoToken(r)

Relay(r) ==
  \/ Attempt(r) \/ ReserveFunding(r) \/ ReserveToken(r) \/ RollbackReserve(r)
  \/ UpstreamServed(r) \/ UpstreamAborted(r) \/ UpstreamFailed(r)
  \/ RealtimeTurn(r) \/ RealtimeFlush(r) \/ FinishFailed(r)

Settle(r) ==
  \/ SettleFunding(r) \/ SettleToken(r)
  \/ PostConsumeFunding(r) \/ PostConsumeToken(r)

Goroutine(r) ==
  \/ RefundWallet(r) \/ RefundSubscription(r) \/ RefundExtra(r)
  \/ RefundToken(r)

Next == \E r \in Request :
          PreConsume(r) \/ Relay(r) \/ Settle(r) \/ Goroutine(r)

Spec == Init /\ [][Next]_vars

(* A request that has arrived is run to its end by its handler goroutine,   *)
(* the upstream call ends at the latest with its timeout, and the scheduler *)
(* runs the refund goroutine.                                               *)
Fairness ==
  \A r \in Request :
    /\ WF_vars(pc[r] # "idle" /\ (PreConsume(r) \/ Relay(r) \/ Settle(r)))
    /\ WF_vars(Goroutine(r))

FairSpec == Spec /\ Fairness
-----------------------------------------------------------------------------
(* Types of the request, goroutine and ledger state. *)
Labels ==
  {"idle", "wallet", "token", "funding", "shortfall", "fundingError",
   "attempt", "retry", "reserveFunding", "reserveToken", "unreserve",
   "upstream", "turn", "turnToken", "closing", "rest", "restToken", "leaving",
   "flush", "flushToken", "closed", "settle", "settleToken", "post",
   "postToken", "error", "violation", "done"}

TypeOK ==
  /\ pc \in [Request -> Labels]
  /\ sess \in [Request -> Session]
  /\ tokenSeen \in [Request -> Int]
  /\ est \in [Request -> Nat]
  /\ arg \in [Request -> Nat]
  /\ retry \in [Request -> Nat \cup {-1}]
  /\ group \in [Request -> Nat]
  /\ resetNext \in [Request -> BOOLEAN]
  /\ turns \in [Request -> Nat]
  /\ spent \in [Request -> Nat]
  /\ actual \in [Request -> Nat \cup {-1}]
  /\ bg \in [Request -> {"none", "funding", "extra", "token", "done"}]
  /\ tries \in [Request -> Nat]
  /\ torn \in Nat
  /\ record \in [Request -> {"none", "consumed", "refunded"}]
  /\ wallet \in Int
  /\ token \in Int
  /\ used \in Nat
  /\ charged \in [Request -> Int]
  /\ tcharged \in [Request -> Int]
  /\ direct \in [Request -> Int]
  /\ faults \in Nat
  /\ hit \in SUBSET Request

(* A session is committed by Settle or returned by Refund, never both: the  *)
(* flags exclude each other although the handlers, the deferred function of *)
(* Relay and the goroutine call them independently.                         *)
SettleXorRefund ==
  \A r \in Request :
    ~((sess[r].settled \/ sess[r].fundingSettled) /\ sess[r].refunded)

(* Whatever fails along the way, a request never gets back more than its    *)
(* session took, neither from the funding source nor from the token.        *)
NoOverRefund ==
  torn = 0 => \A r \in Request : charged[r] >= 0 /\ tcharged[r] >= 0

(* A settled session was charged exactly the cost of the answer, however    *)
(* often it was topped up; its token too, unless a database error hit it.   *)
SettledAtCost ==
  \A r \in Request :
    sess[r].settled =>
      /\ charged[r] = actual[r]
      /\ r \notin hit \cup Playground => tcharged[r] = actual[r]

(* A request that served nothing ends up with nothing charged to its        *)
(* session, once its refund goroutine is through and unless a database      *)
(* error hit it: no path through fallback, retries, top-ups and rollbacks   *)
(* strands a reservation.                                                   *)
FailureCostsNothing ==
  \A r \in Request :
    /\ pc[r] = "done" /\ bg[r] \in {"none", "done"}
    /\ actual[r] = -1 /\ r \notin hit /\ torn = 0
    => charged[r] = 0 /\ tcharged[r] = 0

(* Nothing moves for a session that is settled, or whose refund is through. *)
Closed(r) == sess[r].settled \/ bg[r] = "done"

ClosedIsFinal ==
  [][\A r \in Request :
       Closed(r) => UNCHANGED <<charged[r], tcharged[r]>>]_vars

(* The session keeps the promise of QuotaHold for its funding source.       *)
Phase(s) ==
  IF s.settled \/ s.fundingSettled THEN "committed"
  ELSE IF s.refunded THEN "returning" ELSE "open"

HoldSpec == INSTANCE QuotaHold WITH
  phase <- [r \in Request |-> Phase(sess[r])],
  held <- charged,
  cost <- actual

KeepsPromise == HoldSpec!Spec

(* What a request has left to do.  A place in the program counts more than  *)
(* the places it leads to, a funding source that has another one to fall    *)
(* back to more than that one, and each attempt and realtime turn not made  *)
(* yet more than all that one of them can take.                             *)
Place ==
  [idle |-> 18, wallet |-> 12, token |-> 11, funding |-> 10, shortfall |-> 9,
   fundingError |-> 9, attempt |-> 5, retry |-> 17, reserveFunding |-> 10,
   reserveToken |-> 9, unreserve |-> 2, upstream |-> 8, turn |-> 12,
   turnToken |-> 11, closing |-> 10, rest |-> 9, restToken |-> 8,
   leaving |-> 7, flush |-> 6, flushToken |-> 5, closed |-> 4, settle |-> 3,
   settleToken |-> 1, post |-> 2, postToken |-> 1, error |-> 1,
   violation |-> 3, done |-> 0]

(* The attempts ahead: RetryTimes + 1 in each group from the current one    *)
(* on, less those made in it.                                               *)
Rounds(index) == (Groups - index) * (RetryTimes + 1)

Ahead(r) ==
  Rounds(group[r]) - retry[r] + (IF resetNext[r] THEN 1 ELSE 0)

HasFallback(r) ==
  \/ /\ Preference[r] = "wallet_first"
     /\ \/ pc[r] = "wallet"
        \/ pc[r] \in {"token", "funding", "shortfall"}
           /\ sess[r].src = "wallet"
  \/ /\ Preference[r] = "subscription_first"
     /\ pc[r] \in {"token", "funding", "shortfall"}
     /\ sess[r].src = "subscription"

Handler(r) ==
  Place[pc[r]] + (IF HasFallback(r) THEN 4 ELSE 0)
    + 20 * Ahead(r) + 5 * (MaxTurns - turns[r])

Refunding(r) ==
  CASE bg[r] = "funding" -> 2 + (MaxTries - tries[r])
    [] bg[r] = "extra" -> 2
    [] bg[r] = "token" -> 1
    [] OTHER -> 0

Remaining(r) == 6 * Handler(r) + Refunding(r)

(* Nothing goes round in circles: not the fallback from one funding source  *)
(* to the other (NewBillingSession), not the retries of Relay, although the *)
(* counter they are bounded by is set back at every switch to another group *)
(* (CacheGetRandomSatisfiedChannel), not those of refundWithRetry. Whatever *)
(* a step does, it leaves its request less to do and the others as much as  *)
(* before.                                                                  *)
EveryStepCounts ==
  /\ [](\A r \in Request : Remaining(r) \in Nat)
  /\ [][\E r \in Request :
          /\ Remaining(r)' < Remaining(r)
          /\ \A other \in Request \ {r} :
               Remaining(other)' = Remaining(other)]_vars

(* Every request that arrives ends, its refund goroutine included. *)
EveryRequestEnds ==
  \A r \in Request :
    pc[r] # "idle" ~> pc[r] = "done" /\ bg[r] \in {"none", "done"}
=============================================================================
