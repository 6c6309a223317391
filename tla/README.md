# A verification of the API gateway's core

The repository is a gateway in Go (`module github.com/QuantumNous/new-api`) that
relays requests of paying users to AI providers: it picks a channel, converts the
request, forwards it, and charges the user's wallet, API token and subscription.
Everything that is hard about it happens around the money and around work that
outlives a request. Many requests of one user share three balances in two stores,
handlers refund in goroutines, answers arrive from polling loops, several nodes
share one database, and most state changes are single SQL statements or Lua scripts
without a transaction around a whole operation. A web console in TypeScript (`web`)
comes with it; what is hard there is the sign-in that the tabs of a browser share,
and the playground, whose requests replace each other while they stream. This
directory holds TLA+ models of these parts, TLC runs that check them on small
instances, and proofs of the main results for every instance.

## 1. Inventory

| Component | Source | State | Operations | Hard behaviour |
|---|---|---|---|---|
| Billing session | `service/billing_session.go`, `service/funding_source.go`, `service/billing.go`, `service/tiered_settle.go`, `controller/relay.go`, `service/quota.go`, `service/violation_fee.go` | one `BillingSession` per request in memory; `users.quota`, `tokens.remain_quota`, `user_subscriptions.amount_used`, `subscription_pre_consume_records` in the database | pre-consume (with trust bypass and fallback), `Reserve` before each upstream attempt, `Settle`, `Refund` (a goroutine), realtime turns, violation fee, retries through the groups of an auto token (`service/channel_select.go`) | requests interleave between any two database operations; an operation of several steps fails in the middle; refunds are retried |
| Subscription ledger | `model/subscription.go`, `service/subscription_reset_task.go` | several subscriptions per user, their amounts, periods and pre-consume records | pre-consume, delta, refund, periodic reset, expiry, record cleanup | a reset between a pre-consume and its refund; retries; a transaction inside a transaction |
| System tasks | `model/system_task.go`, `service/system_task.go` | `system_tasks`, `system_task_locks` rows; the runner of each node | enqueue, claim, heartbeat, finish, stale-lock expiry | several nodes, crashes, lost leases, a late owner |
| Asynchronous tasks | `relay/relay_task.go`, `model/task.go`, `service/task_billing.go`, `service/task_polling.go` | `tasks` rows (status, progress, quota), the pollers' in-memory snapshots | submit, poll and update, timeout sweep, recalculation, refund | stale snapshots, compare-and-swap against blind update, a crash between the status change and the refund |
| Stream worker | `worker/processor.go`, `cmd/worker/main.go` | a Redis queue, a semaphore, a task row | pop, process, finish | work popped and lost; a blind update against the sweeper |
| Quota cache and batch writer | `model/quota_reserve.go`, `model/utils.go`, `model/user_cache.go`, `model/token_cache.go` | Redis hashes in front of rows; the in-memory batch stores | reserve by script, load and retry, asynchronous deltas, flush, invalidation with a fence | the cache against the database; loss of a batch at a crash |
| Top-up orders | `model/topup.go`, `controller/topup*.go` | `top_ups` rows, `users.quota` | create, webhook, admin completion, expiry | duplicated and concurrent callbacks: an order is credited once |
| Session records | `model/user_session.go`, `service/auth_session.go` | `user_sessions` rows and their entries in the Redis cache | validate, create, rotate, advance the security version, revoke | a snapshot read before a revocation is cached after it; a revocation that fails half way |
| Browser sign-in | `web/src/lib/auth-session.ts`, `web/src/lib/auth-session-sync.ts`, `web/src/lib/http-client.ts`, `web/src/routes/__root.tsx`, `web/src/features/auth/api.ts`, `web/src/components/sign-out-dialog.tsx`; `service/auth_session.go`, `controller/auth_session.go`, `model/user_session.go` | the store and `refreshPromise` of each tab, the lock and the refresh cookie of the browser, the session on the server | refresh with token rotation, replay, login, logout, events between tabs | late answers, tabs that reload while they hold the lock, lost answers, two tabs with different sessions |
| Playground | `web/src/features/playground/hooks`, `web/src/features/playground/lib` | the conversation, the refs of the handlers, the stream controller, a copy in `localStorage` | send, regenerate, edit, delete, stop, chunks and their batch, save, load | late events of requests that were replaced; batched chunks; a reload in the middle of an answer |
| Channel selection | `model/channel.go`, `model/channel_cache.go`, `model/ability.go`, `service/channel_select.go`, `service/channel_affinity.go` | the in-memory channel cache | weighted choice by priority and retry, multi-key polling (the switch from group to group is part of `BillingSession`) | the cache is rebuilt while it is used |
| Rate limits | `middleware/rate-limit.go`, `middleware/model-rate-limit.go`, `common/limiter` | Redis lists and buckets | admit | check and record are separate |
| Provider adapters | `relay/channel`, `relaykit` | none | conversion between formats | none: data |
| The rest of the web console, settings, OAuth, logging, routing, migrations, docs | `web`, `setting`, `oauth`, ... | forms, configuration | - | none of interest here |

How they interact: the relay controller owns a request. It opens a billing
session (`service.PreConsumeBilling`), then loops over channels; each attempt
may enlarge the reservation (`PrepareTieredBillingForSelectedGroup`), calls an
adapter, and the adapter's handler settles or refunds through the
`BillingSettler` interface of `relay/common/billing.go`. A deferred function
refunds what failed. Asynchronous tasks settle at submission and are refunded or
recalculated later by the poller, which the system-task runner schedules on one
node. Balances are reached through the quota cache, whose writes the batch
writer may postpone. The console reaches the gateway by HTTP: each request is
validated against a session record, and a 401 makes the tab refresh its session
(`http-client.ts`); the playground asks for fresh headers through the same
refresh before it opens a stream.

What makes each component correct:

- Billing session: a request that was served pays its cost, one that was not
  pays nothing; no refund exceeds what was taken; no balance is oversold except
  by what the code charges without a check on purpose.
- Subscription ledger: the amount used is the sum of what its requests hold;
  a refund takes effect at most once, and not in a later period.
- System tasks: at most one node runs a task under a valid lease; an orphaned
  task is taken up again.
- Asynchronous tasks: a task reaches one final status, and is refunded exactly
  if that is a failure.
- Quota cache: the cache and the database agree when everything is flushed.
- Top-up orders: credited once; never both expired and credited.
- Session records: a revoked session is not accepted again; whatever fails, a
  stale cache entry is believed for a bounded time.
- Browser sign-in: a tab never shows another user without a sign-in; the way its tabs
  refresh never signs a browser out of a session that nobody ended; every refresh
  ends.
- Playground: an answer shows what its own request was sent, whole when it is
  finished; no spinner outlives its request, unless a connection closes and nobody
  is told (findings); what is shown is saved.

## 2. Modules

| Module | What it is |
|---|---|
| `BillingSession` | the billing session of concurrent requests, with the controller's loop |
| `QuotaHold` | the abstract promise of a session to its caller |
| `BillingTotals` | the conservation laws of the shared balances, which sum over requests |
| `MCBillingSession` and `MCBilling*.cfg` | the instances TLC checks |
| `BillingSessionProofs` | the inductive invariant and the theorems |
| `SumTheorems` | lemmas about sums over finite sets, for `BillingTotalsProofs` |
| `BillingTotalsProofs` | the conservation laws, for any finite number of requests |
| `SystemTask` | the tasks of one type and their lock, over the runners of several nodes |
| `MCSystemTask` and `MCSystemTask*.cfg` | the instances TLC checks |
| `SystemTaskProofs` | the inductive invariants and the theorems |
| `TaskBilling` | one asynchronous task and its charge, over overlapping polling passes and user queries |
| `TaskCharge` | the abstract promise of a task to whoever pays for it |
| `MCTaskBilling` and `MCTaskBilling*.cfg` | the instances TLC checks |
| `TaskBillingProofs` | the inductive invariants, the theorems, the refinement of `TaskCharge` |
| `AuthTabs` and `MCAuthTabs.cfg` | the sign-in of the tabs of one browser, with the server's half of it |
| `AuthTabsProofs` | the inductive invariant and the theorems |
| `SessionFence` | one session's row, its cache entry, and concurrent operations on them |
| `MCSessionFence` and its `.cfg` | the instance TLC checks |
| `SessionFenceProofs` | the inductive invariant and the theorems |
| `PlaygroundChat` and `MCPlayground*.cfg` | the conversation of the playground |
| `PlaygroundChatProofs` | the inductive invariants and the theorems |

`BillingSession`, `SystemTask`, `TaskBilling`, `SessionFence` model one component
each. `AuthTabs` composes the tabs with the browser's lock and cookie and with
the server's sessions, which it takes as one linearizable record; `SessionFence`
looks behind that record, at the cache and the database. `PlaygroundChat` takes
the refresh of a tab as one call that answers or fails.

### BillingSession

One action is one database operation (or Lua script) together with what the
code does up to the next one; requests interleave between any two of them.
`pc[r]` says which operation of request `r` comes next, `sess[r]` is its
`BillingSession` (`src` the funding source, `pre` = `preConsumedQuota`, `tok` =
`tokenConsumed`, `extra` = `extraReserved`, `consumed` = `WalletFunding.consumed`
or `SubscriptionFunding.preConsumed`, and the flags by their names), `bg[r]` the
program counter of the goroutine `Refund` spawns. `charged`, `tcharged`,
`direct`, `actual` and `hit` are history: what the session took from its funding
source and from the token, what was charged past it, what the answer cost, and
which requests met a database error.

| Action | Code |
|---|---|
| `Arrive` | `Relay` up to `PreConsumeBilling`, `NewBillingSession`'s choice of the source tried first |
| `TryWalletCheck` | `tryWallet`: balance check and `shouldTrust` |
| `PreConsumeToken`, `PreConsumeFunding`, `UndoToken` | `preConsume`: token, then funding source, then the rollback, and the fallback to the other source |
| `Attempt` | the head of the retry loop: `getChannel` (`GetChannel`, `SelectChannel`: which group of an auto token `CacheGetRandomSatisfiedChannel` selects from, and when it sets the retry counter back) and `PrepareTieredBillingForSelectedGroup` |
| `ReserveFunding`, `ReserveToken`, `RollbackReserve` | `Reserve` |
| `UpstreamServed`, `UpstreamAborted`, `UpstreamFailed` | how the upstream call ends; `shouldRetry`, `IncreaseRetry` |
| `FinishFailed` | the deferred function of `Relay`: refund, violation fee |
| `SettleFunding`, `SettleToken` | `SettleBilling` and `Settle` |
| `RealtimeTurn`, `RealtimeFlush`, `PostConsumeFunding`, `PostConsumeToken` | the turns of `OpenaiRealtimeHandler` and what it charges when the connection ends: the usage of a turn that failed once more, then what was counted since; `preConsumeUsage` and `PreWssConsumeQuota` (`WssConsume`), and `PostConsumeQuota`, which charges past the session |
| `RefundWallet`, `RefundSubscription`, `RefundExtra`, `RefundToken` | the refund goroutine, with `refundWithRetry` |

Every database operation may fail (`Fault`, at most `MaxFaults` times). The
refund of a subscription may also fail after its inner transaction has committed
(`torn`, at most `MaxTorn` times).

Abstracted: prices are members of the sets `Estimates` and `Actuals`; users, tokens
and subscriptions are one each, shared by all requests; which channel of a group is
tried, and the adapters, are the outcomes of the upstream call; the list of an auto
token's groups stays the same during a request. Left out: a client that leaves a
realtime connection while a turn is being charged, when the handler and the
goroutine that reads from the upstream go on side by side. Balances are
linearizable: the cache and the batch writer belong to another component, as do
resets.

Properties:

| Property | Says |
|---|---|
| `SettleXorRefund` | a session is committed or returned, never both (proved only) |
| `NoOverRefund` | no request gets back more than was taken |
| `SettledAtCost` | a settled session was charged exactly the cost |
| `FailureCostsNothing` | a request that served nothing and met no error ends with nothing charged |
| `ClosedIsFinal` | nothing moves for a session once it is closed |
| `KeepsPromise` | the session implements `QuotaHold` |
| `EveryStepCounts` | a measure of what a request has left to do, a natural number, falls with each of its steps and with no other's: fallback, turns, the refund's tries and the retries, whose counter is set back at every switch to another group, cannot go round in circles |
| `EveryRequestEnds` | every request ends, its refund goroutine included |
| `WalletDebtExplained`, `TokenDebtExplained` | a negative balance is at most what is charged without a check: top-ups of the wallet, costs above the reservation, trusted requests, and charges past the session |
| `SubscriptionReconciles` | the subscription's amount used is the sum of what the requests hold |

### QuotaHold

Three phases: open (the hold moves freely), committed (at exactly the cost),
returning (the hold only shrinks, never below zero).

### SystemTask

`model/system_task.go` keeps one row per task and one lock row per type; the
types do not touch each other's rows, so the module models one type. A runner is
one incarnation of a node's runner goroutine: a restart draws a new runner ID
(`StartSystemTaskRunner`), so `Crash` is for good and a restarted node is another
member of `Runner`. Its pass is sequential, the handlers it dispatches are
goroutines of their own. No operation is a transaction, so one action is one SQL
statement; `pc[n]` says which statement of the pass comes next.

| Action | Code |
|---|---|
| `CreateSystemTask` | the insert of that function, by the scheduler or on demand; `active_key` is its guard |
| `Start`, `BeginSweep`, `BeginClaim` | `StartSystemTaskRunner` and its `runPass` |
| `FindStale`, `MarkStale`, `DeleteStale` | the three statements of `ExpireStaleSystemTaskLocks` |
| `FindPending` | `FindEarliestPendingSystemTasks` and the first query of `ClaimSystemTask` |
| `InsertLock`, `ReadExisting`, `TakeOver` | `acquireSystemTaskLock` |
| `ExpireOld`, `StartTask`, `ReleaseClaim` | the rest of `ClaimSystemTask` |
| `Dispatch` | the read-back of the claimed row and the goroutine |
| `Renew` | the heartbeat of `runWithLeaseHeartbeat` |
| `FinishSystemTask`, `ReleaseFinished` | the two statements of that function |
| `Abandon` | a handler that returns or panics without writing a verdict |
| `Crash`, `Tick` | the node dies; time passes |

Time: leases are counted down instead of compared with a clock. `left` in the
lock row is the time until `locked_until`, -1 once that is past; `grant` and
`lease` are the copies of it that a claim and a handler could compute for
themselves, and exist for the properties. A sweep and a claim read the clock once
and compare with it several statements later; what such an old reading can still
tell is one bit, whether the row that is in the table now had run out when it was
read, and `late` keeps it. A lease is measured from the statement that writes it:
the code computes `locked_until` a few statements before, which makes the lease
shorter by that much and is the same as a `TTL` that is smaller by as much.

`SlowClaims` says whether a claim may take longer than the lease it acquires (60 s).
`Legacy` holds pending rows without `active_key`, which the tests of the repository
call legacy (`createLegacyPendingSystemTask`); they are what lets a takeover meet
another unfinished task. `lease_recovery` has none, because with them a claim that
fails after such a takeover leaves the other task to nobody; that step is part of
`lease_exclusive` only.

| Property | Says |
|---|---|
| `LeaseIsExclusive` | no two handlers run while both believe in their lease |
| `ExecutedOnce` | a task is dispatched by one runner, once |
| `VerdictIsFinal` | a verdict is never changed |
| `RunningIsLeased` | a running task has its lock row, by which it is found should its runner die |
| `EveryTaskEnds` | every task that was created ends |

### TaskBilling

An asynchronous task (a video, a song) is paid for when it is submitted, and
refunded or settled again when a polling pass learns how it ended. Tasks share no
row, so the module models one; `row` is its row in `tasks` (`complete` is `progress
= "100%"`, which `updateVideoSingleTask` copies from the upstream whatever the
status is, a failure apart), `charged` and `token` what its funding source and its
token have paid for it. The passes run as a system task, and overlap when a pass has
lost its lease (`SystemTask`) or runs on. Each worker holds a copy of the row
(`mem[w]`, with the status it read in `from`), and one action is one statement or
one call of the provider.

| Action | Code |
|---|---|
| `PreConsume`, `SubmitFails`, `Settle`, `Insert` | `RelayTask` and `RelayTaskSubmit`; the session behind them is `BillingSession` |
| `FindTimedOut` | `sweepTimedOutTasks` up to its update |
| `FindUnfinished`, `Ask` | `RunTaskPollingOnce`; `updateVideoSingleTask` and `updateSunoTasks` up to their update |
| `Save` | `UpdateWithStatus`, and what the winner decides to bill (`settleTaskBillingOnComplete`, `shouldRefund`) |
| `AdjustFunding`, `AdjustToken`, `UpdateQuota` | the statements of `RefundTaskQuota` and `RecalculateTaskQuota`: a refund is the difference to 0 |
| `ChannelGone` | `TaskBulkUpdateByID` where the channel cannot be loaded |
| `ReadRow`, `Query`, `Show` | `videoFetchByIDRespBodyBuilder` and `tryRealtimeFetch`, for a Gemini or Vertex task |
| `UpstreamEnds`, `TimePasses`, `Crash` | the provider, the timeout, the node of a poller |

An answer may be an error that counts as a failure (`updateVideoSingleTask` maps
unknown answers to one), or be lost. An update may take effect and be reported
as failed, in which case nobody bills. `Legacy` tasks, submitted before
`TaskRefundLegacyCutoff`, are swept without a refund. `hit` keeps which steps
went wrong; the properties except the steps that they depend on and no others.

`Sweeps` says that `TaskTimeoutMinutes` is positive; without it nothing ends a task
but its provider.

Abstracted: statuses between start and end (`SUBMITTED`, `QUEUED`) are
`IN_PROGRESS`; the adapter's price is a member of `Actuals`, 0 for "as
submitted", which also stands for tasks billed per call; statistics and logs are
left out.

| Property | Says |
|---|---|
| `FinalStands` | no pass overwrites a final status |
| `ChargedOnce` | funding source and token are each adjusted at most once after the submission: the task implements `TaskCharge` for both |
| `RefundedOnce` | no more is refunded than was charged |
| `FailureIsRefunded`, `SuccessIsPaid` | what a task at rest was charged, by its verdict |
| `MarkerIsRight` | the quota column says what is still charged, also after a crash or a failed refund |
| `NeverOvercharged` | no task costs more than was submitted or the actual cost, whatever queries and lost channels do to its status, unless a query put it back in progress after it ended |
| `EveryTaskEnds` | if there are sweeps, every task reaches a final status, or its provider has reported it as 100% complete without one (finding below) |

A worker that is done with the row forgets its copy (`Leave`). A query that writes
an unfinished status over a final one is kept in `hit` as `"reopen"` (finding
below). `NeverOvercharged` has to except it: with two queries that overlap a
polling pass TLC finds a task reopened after a success and charged its difference a
second time. With one query at a time the same does not happen.

### TaskCharge

An estimate is held, and becomes a price or is returned; then the difference to
the actual cost (0 for a failure) is taken or returned at most once, and after that
nothing. `TaskBilling` implements it twice, with `price <- quota`: for the funding
source, `paid <- charged`, where the charge is open while the task is unfinished or
its winner has not passed the step `"fund"`; and for the token, `paid <- token`,
where the winner also has the step `"token"` ahead (`Phase`).

### AuthTabs

A refresh or a logout is sent, answered by the server and handled by the tab in
three steps, a login in two; everything else is one callback of a tab's event
loop. `refresh[t]` is the refresh in flight of tab `t` with the epoch check it
will meet (`current` is `authEpoch === refreshEpoch`), `queue` the queue of the
Web Lock, `cookie` the refresh cookie, `inbox[t]` the events of the
`BroadcastChannel` or the `storage` event, `logout[t]` the state of
`executeLogout`. Each refresh secret determines the next
(`deriveNextRefreshSecret`), so a token is its session and its age: 0 current, 1
previous, 2 older. `grace[s]` says that the last rotation lies within
`RefreshReplayWindow`; `late` keeps for which sessions the window passed before
the browser had the current token.

| Action | Code |
|---|---|
| `Refresh`, `Denied` | `bootstrapAuthentication`, the 401 interceptor, both through `refreshAuthentication` |
| `Granted` | the lock is granted: `run` starts with the cookie and `X-Auth-Session`, or ends because its epoch is over |
| `Serve` | `RefreshAuth`, `RefreshLoginSession`, `RotateUserSessionRefresh`: mismatch, rotation, replay, and the two refusals (`Refusals`): the session has ended or the token is too old (`"denied"`), or the server cannot read the session (`"unread"`) |
| `HandleRefresh` | the rest of `run`: `applyAuthBundle`, the retry after a mismatch, `clearAuthentication`, `publishAuthSessionEvent` |
| `LoseRefresh`, `LoseLogin`, `LoseLogout` | a request or its answer is lost, or is 429 or 5xx |
| `Login`, `HandleLogin` | `setupLoginAtAuthVersion` and `handleLoginSuccess` |
| `Logout`, `ServeLogout`, `HandleLogout` | `executeLogout`, `AuthLogout`, `handleSignOut`, with the recovery from a mismatch by a refresh |
| `HandleEvent`, `Reload` | the listener of `RootComponent`; the user's reload, the same page load |
| `Revoke`, `GraceEnds` | another device, expiry; time |

Abstracted: access tokens are valid as long as their session; `bootstrapState`
only spares refreshes, which here may start at any time; after a refusal the
interceptor replaces the page, which is `Reload`; a page that reloads takes its
requests with it, and the server has served them before or never. Left out: the
fallback without Web Locks (plain HTTP: an answer that is late can put back an
older cookie), `applyAuthRotation`, a refresh that falls between the two writes of a
security change (the user's version, then the session's), which ends the session,
users that are deleted, a second 401 of one request.

| Property | Says |
|---|---|
| `SwitchOnlyByLogin` | what a tab shows is replaced by another session only by its own sign-in |
| `CookieStaysUsable` | the cookie of a session in force is the current token or the one before |
| `NotForcedOut` | a refresh is refused, and its session revoked for reuse, only if somebody ended it or the replay window passed first; or else the server could not read the session, which then stays in force |
| `RefreshSettles` | every refresh ends, whatever happens to the holder of the lock |
| `StaleShowsEnd` | a tab that shows an ended session stops doing so |

### SessionFence

The cache entry `auth:session:<sid>` of one session is filled by whoever reads or
writes the row, with a snapshot that may be old when it arrives. Against that, an
active snapshot carries a deadline captured before the row was read, a revocation
first publishes a deny entry (the fence) and afterwards a tombstone, and an active
snapshot never overwrites a deny entry or a higher version. A process is one
operation at a time, one action one statement, one script or one reading of the
clock; `snap` is the version it has seen, `deadline` its `cacheDeadline`.

| Action | Code |
|---|---|
| `Begin` | the operation starts: `CreateUserSession`, `GetUserSessionCached`, `RotateUserSessionRefresh`, `AdvanceUserSessionAuthVersion`, `RevokeUserSession` |
| `Lookup` | `getUserSessionCache` |
| `Database` | the query, the insert, the compare-and-swap or the transaction of the operation |
| `PublishDeny` | a revoked row is found: its deny entry |
| `Write`, `Complete`, `Confirm` | the two scripts of `writeUserSessionCache`, and `confirmUserSessionActiveSnapshot` |
| `Fence`, `Commit`, `Seal` | `RevokeUserSession`: `writeUserSessionDenyFence`, the transaction, the tombstone |
| `Tick` | time |

Every statement and script may fail (`Fault`), the transaction of a revocation also
after it has committed. A process that dies is one that takes no further step, which
is also the state that a new version leaves when it is committed and then reported
as failed.

| Property | Says |
|---|---|
| `NoResurrection` | once a deny entry has been published for a revoked session, no operation that begins later accepts the session |
| `StaleIsBounded` | whatever fails, an operation that begins `TTL` after the last change of the row was committed accepts nothing older than it; a revocation is the last change |

Assumed: one clock for all nodes, and a Redis that keeps keys until they expire.
Left out: the end of a session by age, which every reader tests in either store,
the cleanup of rows, and a Redis that is switched off. The user record that
validation also looks at, and whose `auth_version` bounds an old session version
once more, is another table.

### PlaygroundChat

One action is one callback of the event loop of the console's playground: a
click, a continuation after an `await`, an event of the stream, a timer. A request
is known by its generation (`requestGenerationRef`); a request that was replaced,
stopped or left behind is aborted, but a read that has already finished still
delivers its event, so `ChunkArrives`, `DoneArrives`, `ResponseArrives` and the
like are possible for every request that was ever made.

| Action | Code |
|---|---|
| `HandleSendMessage`, `HandleRegenerateMessage`, `HandleEditMessage`, `CancelEdit`, `SaveEdit`, `SubmitEdit`, `HandleDeleteMessage`, `HandleClearMessages` | `usePlaygroundConversation`, with `sendStreamingChat` or `sendNonStreamingChat` |
| `StopGeneration` | that function of `useChatHandler` |
| `HeadersArrive`, `HeadersFail` | `useStreamRequest`: `send` after its `await` |
| `ChunkArrives`, `DoneArrives`, `ErrorArrives`, `SourceCloses` | its listeners, and what `FetchSSE` does before it reports an error |
| `ResponseArrives`, `ResponseFails` | `sendNonStreamingChat` after its `await` |
| `FlushTimer`, `SaveTimer` | the batch of chunks (`flushStreamUpdates`) and the debounced save |
| `Leave`, `Reload`, `Mount` | the effects' cleanup; a reload or a crash; `loadMessages` and its repairs |

Abstracted: a text is a sequence of tokens, `<<g, k>>` the k-th of the answer to
request `g`, all distinct; a chunk is the next one or everything up to it; React has
applied the updates of a callback before the next one, but for the case
`StopGeneration` names; the first load (`setTimeout` 0) is one step with the mount.
Left out: a second tab, which shares the key in `localStorage`, reasoning text,
models and parameters, the cut of the store by size.

| Property | Says |
|---|---|
| `AnswerIsFaithful` | an answer shows a beginning of what its own request was sent |
| `DoneIsWhole` | an answer that ended by itself shows all of it |
| `PendingIsLive` | a message with a spinner is the last one, the user can stop it, and its own request has not ended, unless its connection closed unreported (finding below) |
| `SavedIsShown` | when no save is due, `localStorage` holds what is shown |
| `FinalStands` | an answer that has ended changes only by an edit of it |
| `RequestsEnd` | a request ends by itself: violated, see findings |

## 3. Runs

| Run | Instance | Shows |
|---|---|---|
| `billing_wallet` | two wallet requests, one that may be trusted and one that is forced to reserve, a wallet and a token that cover one of them, top-ups, one group and one retry, a violation fee as high as the wallet, one database error | the safety of the wallet path; requests that reserved nothing still settle at cost |
| `billing_mixed` | a realtime connection that falls back from the wallet to the subscription, a playground request the opposite way, an auto token of two groups with cross-group retry, one turn, one error | the subscription's sum over mixed sources and charges past the session; `KeepsPromise`; `EveryStepCounts` over both directions of the fallback and the switch of groups |
| `billing_ends` | one request, two groups, three errors and a torn refund | liveness |
| `lease_exclusive` | two runners, one legacy and one new task, claims of any duration, one error | what the lock guarantees whatever stalls |
| `lease_recovery` | two runners, one of which survives, two tasks in turn, fast claims, one error | a crash is recovered |
| `tasks_polled` | two passes, two errors and two crashes anywhere, a provider that may report 100% at any time | verdict, bill and marker agree; `ChargedOnce` |
| `tasks_queried` | two passes, two queries of two users that overlap, a lost channel | a task that is not reopened is not overcharged; every task ends |
| `task_reopened` | one pass and two user queries | expected violation, see findings |
| `auth_tabs` | two tabs, two sessions, one upset: a logout (which may be lost), a reload by the user, a revocation from elsewhere, a refresh or login that is lost, or a store that cannot be read | everything said of `AuthTabs`, liveness included |
| `session_fence` | two processes that repeat operations, `TTL` 2, five instants, two versions, one error | both promises of the cache, over fills that are delayed across revocation and expiry |
| `playground` | three generations, answers of two chunks, a store of three messages, one edit or deletion | the safety of the conversation against late events, timers, reloads |
| `playground_hang` | one request, a user who waits | expected violation, see findings |

Why the bounds suffice (billing): two requests are what it takes to interleave a
check with another's deduction; quotas of 0 to 3 separate below, equal and above a
reservation and let a balance cover one request and not two; one retry gives two
attempts, hence a top-up after a top-up; with two groups the counter is set back
once, and the last group is left behind as well; one error places one failure at
every step; `billing_ends` has three so that `refundWithRetry` exhausts its tries.
The proofs lift all bounds for the properties they cover.

Why the bounds suffice (leases): one runner holds a lease while the other claims,
sweeps or crashes; two tasks give a successor to a task that ended, and the case
where the lock of one is taken over for the other; `TTL = 1` separates a lease
that was just renewed, one about to run out and one that has.

Why the bounds suffice (tasks): two passes are what a compare-and-swap has to
keep apart; a query is a third writer. Quotas 1 and 3 and a cost of 2 let the
settlement at submission and the one at the end go either way. Two errors and two
crashes place failures at any four statements. The two queries overlap each other
and the passes, which is what it takes to bill a reopened task twice; they run
without errors, which the proofs add. The
queries need the bound `MaxQueries`: each can reopen the task, and each reopening
can be refunded, so `charged` would fall without end. The runs set `Legacy` to
`FALSE`; what it changes is one assignment of the sweep, which the proofs cover.

Why the bounds suffice (sign-in): two tabs are a holder of the lock and one behind
it, a tab that ends a session and one that shows it; two sessions are what a
mismatch and a switch need. One upset places one logout, reload, loss, failure of
the store or revocation at every step; that two or more break nothing safe is what
the proofs show. The end of the replay window is no upset and may come at any time.

Why the bounds suffice (session records): a process carries a snapshot while the
other revokes, seals, lets the entry expire and validates; a process repeats
operations, so that there is no bound on their number. With `TTL = 2` a deadline
is ahead, due and past; `MaxTime = 4` lets a deny entry expire and a deadline that
was taken before it pass as well. `Proc` is symmetric. The proofs lift all bounds.

Why the bounds suffice (playground): a generation that is current, one that was
replaced and is late, and one more after a stop; two chunks let one wait in the
batch behind one that is shown; a store of three messages trims the second
exchange. The proofs lift all bounds.

Fairness: `EveryRequestEnds` assumes weak fairness of each handler after its
arrival and of each refund goroutine: the Go scheduler runs every goroutine, the
database operations return, and the upstream call ends at the latest with the
relay timeout. Nothing is assumed about arrivals, nor about which outcome is
taken. `CHECK_DEADLOCK FALSE` is set because a behaviour with finitely many
requests ends.

`EveryTaskEnds` assumes that time passes (weak fairness of `Tick`), that one
runner survives and makes its passes (weak fairness), the sweep again and again
(strong fairness of `BeginSweep`: a pass sweeps whenever 30 seconds have gone by
since the last sweep, and passes are made every 15 seconds), that a claim which
got its lock goes on unless its node dies, and that a handler ends unless its
node dies (log cleanup, channel tests, model update and the polling passes are
finite). Nothing is assumed about the heartbeat, about which runner claims, or
about errors beyond their number. Deadlock is checked in `lease_recovery`: a
runner that has nothing to do still makes passes.

`EveryTaskEnds` of `TaskBilling` assumes that the submission goes on, that time
passes, that a worker of a pass goes on, and that sweeps come again and again as
long as there is a timeout (`Sweeps`) and the task is unfinished and not complete
(strong fairness of `FindTimedOut`: each pass begins with a sweep, and
`HasUnfinishedSyncTasks` schedules passes every 15 seconds; that passes do get
scheduled is `EveryTaskEnds` of `SystemTask`). Nothing is assumed about the provider
or the user. `CHECK_DEADLOCK FALSE`: a task ends.

`AuthTabs` assumes that the lock is granted in turn (the Web Locks queue), that
the server answers a request that was sent unless it is lost, that a tab handles
an answer, and, for `StaleShowsEnd`, that an open page goes on to make requests
(`Denied`). Losses, reloads and logouts are bounded and owed nothing; the server's
answers to logouts and the events between tabs need not arrive. Deadlock is
checked: a tab can always refresh.

`playground_hang` assumes that timers fire, that awaited promises settle, and that
a stream ends by `[DONE]`, an error or a closed connection; nothing is assumed
about the user. `CHECK_DEADLOCK FALSE` in the playground runs: generations are
bounded.

## 4. Proofs

`BillingSessionProofs` proves for any set of requests, any estimates and costs,
any preferences and any number of errors, from the assumption
`BillingConstants` alone: `TypeCorrect`, `SettlesOrRefunds`, `NeverOverRefunds`,
`SettlesAtCost`, `FailuresAreFree`, `ClosedStaysClosed`, `StepsCount`, and under
`MaxTorn = 0` `ImplementsHold`.

None of the properties is inductive: they speak of closed sessions, and a
session closes at the end of a long sequence. The invariant `IInv` accounts for
the charge at every point before. `ControlInv` says where a request stands when
its session has which flags; `FundingInv` that the charge equals what the session
remembers (`pre`, plus the top-up in progress) while it is live, and at least
`Due`, what the refund goroutine is still going to return, afterwards, with
equality for a request that met no error; `TokenInv` the same for the token.
There is one lemma per action (`...Inv`), `OthersUntouched` (a step of one
request leaves the others alone) and `StepInv` combines them. `ClosedStep` gives
the action property, `HoldMove` classifies the steps for the refinement.

`StepsCount` proves `EveryStepCounts`, the part of termination that needs no
fairness: a request takes finitely many steps, so it ends once the scheduler lets
it, and no bound of a run is what stops it (the errors are not counted in the
measure; the tries are bounded by the code's 3, and only the realtime turns by the
model's `MaxTurns`). `Remaining` weighs a place in the program, a fallback still
ahead (4), an attempt still ahead (20), a realtime turn still ahead (5) and, six
times lighter than any of these, the goroutine. `RetryTimes` alone does not bound
the attempts: for an auto token `CacheGetRandomSatisfiedChannel` sets the counter
back to 0 whenever it goes on to the next group, so there may be `RetryTimes + 1`
attempts in each. `Ahead` counts those of the groups from the current one on, less
what the counter has used of this one; it falls because a group handed over is never
selected from again, also where the counter is set back an attempt before the switch
(`resetNext`, `GetChannelAhead`). `BoundInv` keeps the counters within their bounds;
`PreConsumeCounts`, `AttemptCounts`, `RetryCounts`, `TurnCounts`, `RefundCounts`,
`SettleCounts` and `GoroutineCounts` are the ways in which a step can count, and
`FallbackCounts` is the reason why `wallet_first` and `subscription_first` do not
chase each other.

`BillingTotalsProofs` proves the conservation laws for any finite set of requests
(`FiniteRequests`): `WalletNeverOversold`, `TokenNeverOversold`,
`SubscriptionAddsUp`. Each compares one shared balance with a sum over all
requests. Neither is inductive. A charge past a session is written to the funding
source and one statement later to the token, so the token's law holds with the part
that is still `Unpaid`; and `DirectInv` says that no request carries such a charge
while its session may still be replaced by one of another source. `StoreMove` says
what one step does: it leaves the balance above zero, or takes no more than it adds
to the summand of its own request; the subscription moves by exactly as much unless
the clamp at zero cuts it off, and the clamp never does, since the sum it would cut
is a sum of natural numbers. `TotalsStep` carries that to the sums by `SumStep`:
changing one summand changes the sum by as much. `SumTheorems` proves that, and
`SumMonotone`, from the definition of the community modules' fold; where one would
use induction over finite sets, it takes a smallest counterexample
(`SmallestSubset`).

`SystemTaskProofs` proves for any runners, tasks, lease time and number of
errors, from `SystemTaskConstants` alone: `TypeCorrect`, `LeasesExclude`,
`RunsOnce`, `VerdictsStand`. `LeaseIsExclusive` is not inductive, since it does
not mention the lock table. `IInv` ties the copies to it: whoever counts on a
lease (`Counting` handlers, and claims with a positive `grant`) still owns the
row, with exactly that much left (`TaskInv`, `PassInv`); whoever is `late` is
right (`LateInv`). So a row is taken over or swept only when nobody counts on it,
and two that count on a lease own the same row. `PassInv` also says whose task is
being claimed, which gives `ExecutedOnce`.

`RunningStaysLeased` needs two hypotheses, `SlowClaims = FALSE` and `Legacy = {}`;
without either TLC refutes the property. Its invariant `FInv` adds that one task
is unfinished (`OneActive`), that a claim under way still has its lease
(`ClaimLeased`), and that nothing is running that a late takeover or a late
deletion could hurt (`LateIsSafe`). `RowFate` lists all that can happen to a lock
row, `StatusOrigin` where a status can come from.

`TaskBillingProofs` proves, for any pollers, quotas, costs, errors and crashes,
`TypeCorrect` of the whole module and, of tasks that no real-time query touches
and whose channel stays (`Polled`), `RefundsOnce`, `FailuresAreRefunded`,
`SuccessesArePaid`, `MarkersAreRight` and `FinalStatusStands`. `Polled` is
needed: TLC refutes them without it (findings). The properties speak of
a task at rest; `IInv` follows the books on the way there. While the status is
unfinished, row and books agree (`Open`) and so do the copies about to be written
(`CopyInv`: made of an unfinished row, with its quota), so the compare-and-swap
can be won into a final status only once; while the one winner bills, the books
are where its program counter says (`BillInv`); afterwards nobody can win.
`Written` is the lemma of the winning update, `BillerMoves` that of the winner's
steps, `Aside` that of all others.

Its second part needs no `Polled`. With queries and lost channels `IInv` is lost: a
failure they write is not refunded, and their copies overwrite the marker. `SInv`
keeps what matters to the payers as long as no query has reopened the task: whoever
bills does it alone (`ChargeInv`) and from the quota that was submitted, whatever
the row says by then, because a copy of an unfinished row has that quota
(`HolderInv`); while nobody bills the books agree at a price the task may have
(`Resting`). It gives `NobodyOvercharged`, which proves `NeverOvercharged` without
any hypothesis, `RefundsOnceUnlessReopened`, and the refinement `ImplementsCharge`:
`Spec` and never `"reopen"` imply `ChargedOnce`. `PolledTaskImplementsCharge` has no
condition but that the task cannot be queried (`Fetcher = {}`). `FundingMove` and
`TokenMove` map the steps; `ClosedToPayer` says that a charge, once closed, is not
opened again.

`AuthTabsProofs` proves, for any finite set of tabs, any number of sessions and
any number of upsets, from `AuthTabsConstants` alone: `TypeCorrect`,
`CookieUsable`, `NoSwitch`, `NobodyForcedOut`. They rest on three facts that `IInv`
adds to each other. `QueueInv`: the queue of the lock holds the tabs that refresh,
each once, and only its first one is talking to the server. `AgeInv`: the token
that tab sent is as old as the browser's own cookie of that session, and the
server still answers both, unless it cannot read the session, which then stays as it
is; so a rotation makes the cookie one step older and never
two, because no second request can start before the first is answered or its tab is
gone, and then the next one starts from the cookie. `ShowsInv`: a refresh that is
still current asks for what its tab shows. `KnownInv` keeps the session of a
sign-in that is not answered yet away from all cookies. `CalmStep` is the lemma of
the steps that bring no refresh forward, `Served` that of the answers, `Settled`
that of the ends; `Answered` says that only `Serve` answers a request.

`SessionFenceProofs` proves, for any processes, any time to live and any number of
versions and errors, from `SessionFenceConstants` alone: `TypeCorrect`,
`RevokedStaysRevoked`, `StaleEnds`. Neither property mentions the snapshots under
way, which are what could break it. `IInv` bounds them by deadlines: a process that
still holds a stale snapshot (`Holds`, `Stale`) took its deadline at most `TTL`
after the row changed, and so does an active entry made of one (`CacheInv`,
`HolderInv`); a deny entry, once published after the revocation, lives at least as
long as any of them (`SealedInv`), so when it expires nothing is left that could
be cached. `FloorInv` carries the same to the operations that have begun.

`PlaygroundChatProofs` proves, for any number of generations, chunks, stored
messages and edits, from `PlaygroundConstants` alone: `TypeCorrect`, `PendingLive`,
`SavedShown`, `FinalAnswers`, `AnswersFaithful`, `DoneWhole`. The lemmas on data
say what each callback makes of the conversation: it `Rewrites` at most the last
message, it takes a part of it (`PartOf`), or it `Sends`. Two invariants follow.

`IInv` is about control. `ConvInv`: while a request is under way the last message,
and no other, waits for its answer. `ReqInv`: the source, the batch and the headers
under way belong to the current generation, so whatever a callback of another one
finds, it fails a check. `StoreInv`: at most one stored message is pending, since
`sanitizeMessagesOnLoad` repairs only one. `LiveInv`, that a conversation which still
waits waits for a request that has neither ended nor been given up, goes on top of
it (`LiveStep`), and together they give `PendingLive`. `IInv` gives, step by step,
`FinalAnswers`: what ends or flushes a request rewrites a pending message only.
`SavedStep` needs of it only that a conversation just loaded fits into the store.

`FaithInv` is about texts. The faithfulness of what is shown is not inductive: it
says nothing of the batch that is about to be appended. `LiveAnswer` does: if `a`
chunks are shown, the batch is empty and `a` is all that has come, or it holds the
pieces from `a` on (deltas), or the newest snapshot. `MergedIs` and `AppendableIs`
are the lemmas about adjoining pieces, for any lengths: merging a chunk into the
batch and appending the batch to the text give a piece again, in both styles.
`Good` says the same of stored messages, which `Mount` brings back. `EditInv`, that
the editor is never on the answer being generated, is needed because an editor that
was open before a send stays usable during it; saving there would replace the text
under the stream.

Model-checked only are the liveness properties: `EveryTaskEnds` (of both modules),
`EveryRequestEnds`, `RefreshSettles` and `StaleShowsEnd`. The prover has no rule for
fairness and `ENABLED`. Every other property of a passing
run is proved, under the hypotheses named above.

## 5. Findings

Two have a run each that TLC refutes.

- A query reopens a failed task, which is refunded again (`task_reopened`).
  The compare-and-swap of `tryRealtimeFetch` compares with whatever status was
  read, so it also leads out of FAILURE, and it writes the whole row, the quota
  that was just refunded included. For the same reason a task reopened after a
  success can be charged its difference twice, if two queries overlap.
- A broken stream hangs the playground (`playground_hang`). `FetchSSE` sets
  `readyState` to closed before it emits `error`, and the error listener of
  `useStreamRequest` ignores a source that is closed; the other listener needs
  `source.status`, which `FetchSSE` does not have. An answer that is not ok, a
  connection that breaks and a body without `[DONE]` never reach
  `handleStreamError`: the spinner stays until the user stops the request.

The rest are behaviours of the models, or of code next to them, that no property
of a passing run forbids.

Billing and tasks:

- A torn refund returns a reservation twice. `RefundSubscriptionPreConsume` calls
  `PostConsumeUserSubscriptionDelta`, which commits a transaction of its own; when
  the outer one then fails, the retry finds the record still `consumed`. The
  comment above the function calls it idempotent.
- A realtime connection pays twice. Each turn is charged through
  `PostConsumeQuota` at once, and the sum of all turns again when
  `PostWssConsumeQuota` settles the session. A turn that could not be charged ends
  the connection with its usage not cleared: it is added to the sum and charged once
  more at the end (`relay/channel/openai/relay_realtime.go:213`).
- A slow claim orphans its task. `ClaimSystemTask` acquires the lock and starts the
  task in two statements, and the second does not look at the lock again. If the
  lease runs out in between and a sweep deletes the row, the task becomes `running`
  with no lock row; should the runner then die, neither sweep nor takeover finds it,
  and `active_key` keeps the type from being scheduled for ever. `RunningIsLeased`
  is therefore checked and proved for claims that are faster than their lease.
- A failure that the user sees first is never refunded. `tryRealtimeFetch` writes
  FAILURE and returns; the passes and the sweep look at unfinished tasks only.
- A stalled sweep can fail a healthy task: `ExpireStaleSystemTaskLocks` reads the
  stale rows and then fails tasks by `task_id`, and the row of a claim that died
  before it started its task can be taken over for the same task in between.
- A provider that reports 100% with an unfinished status strands its task.
  `updateVideoSingleTask` copies the progress whatever the status is
  (`service/task_polling.go:507`, `:588`), and both the poll and the sweep look only
  for rows below 100%: the task stays unfinished for ever, and what was submitted is
  neither settled nor refunded. `EveryTaskEnds` excepts it.
- A lost channel overwrites a success: `TaskBulkUpdateByID` has no guard on the
  status, refunds nothing, and its own comment forbids this use; this is why
  `FinalStands` is checked and proved for a channel that stays.

Sign-in and sessions:

- Answers carry cookies, and the browser takes them whether or not the tab still
  wants the answer. A refresh of an old session that is answered after a sign-in
  puts the old session's cookie back, and the next refresh of that page, once
  loaded anew, adopts that session. A logout answered after a sign-in clears the
  cookie of the new session.
- A logout whose cookie belongs to another session refreshes once and then ends the
  session the cookie names; the one the page had shown stays active.
- `RefreshLoginSession` answers every error of `GetUserSessionCached`, a store that
  is down included, with 401 and a cleared cookie (`service/auth_session.go:209`): the
  browser is signed out of a session that stays in force. It is the answer
  `"unread"` of the model, which `NotForcedOut` excepts by name.
- `RevokeUserSession` reports success when its tombstone could not be written; an
  active entry may then be believed until `TTL` after the change, which is what
  `StaleIsBounded` promises and `NoResurrection` does not. A fence that a higher
  cached version refuses makes the revocation return an error.
- After a new version has been committed, an older one may be cached again once the
  new entry has expired, within the same bound; the user's `auth_version` check
  behind it covers the case.

## 6. Not modelled

Provider adapters, the rest of the web console (forms and tables over requests,
which is most of its code), settings, OAuth, logging and routing hold no state of
interest; this is why the share of the code that is mapped is small. A crash of the
process between pre-consume and settlement strands the reservation; nothing in the
code recovers it, so there is no property to check. The same holds of a task whose
row could not be inserted, or whose settlement failed: the code logs it. The
Midjourney tasks repeat `TaskBilling` on a table of their own.

The fallback of the sign-in without Web Locks and `applyAuthRotation` are not
modelled, nor is a second tab of the playground; sections 2 and 5 say where the
models stop.

## 7. Plan

1. Done: billing session, its promise, its proofs.
2. Done: system tasks, mutual exclusion and recovery, with proofs.
3. Done: asynchronous tasks and their billing, with proofs.
4. Done: the sign-in of a browser, with proofs; session records and their cache,
   with proofs; the playground, with proofs.
5. Left, in this order: the quota cache and the batch writer, composed with the
   stores of the billing session; top-up orders (an abstract once-only credit and
   its implementation); the subscription ledger with resets and records; the stream
   worker, whose blind update meets the rows of `TaskBilling`; rate limits and
   channel selection.
6. To prove next: a queue that hands each task to one runner as the abstraction of
   `SystemTask`; the safety half of `RefreshSettles`, as `EveryStepCounts` is that
   of `EveryRequestEnds`.
