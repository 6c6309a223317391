------------------------------ MODULE AuthTabs ------------------------------
(***************************************************************************)
(* The sign-in of one browser: its tabs, the refresh cookie they share, and*)
(* the sessions of the server.                                             *)
(*   web/src/lib/auth-session.ts, web/src/lib/auth-session-sync.ts         *)
(*   web/src/lib/http-client.ts, web/src/routes/__root.tsx                 *)
(*   web/src/features/auth/api.ts, web/src/components/sign-out-dialog.tsx  *)
(*   service/auth_session.go, controller/auth_session.go,                  *)
(*   model/user_session.go                                                 *)
(*                                                                         *)
(* A refresh or a logout is sent, answered by the server and handled by the*)
(* tab in three steps, a login in two; the browser takes the cookie of an  *)
(* answer when it arrives, whether the tab still wants it or not.  Each    *)
(* refresh secret determines the next one, so a token is known by its      *)
(* session and its age: 0 for the current one, 1 for the previous one,     *)
(* 2 for any older.  bootstrapState is left out: it decides when a refresh *)
(* may be spared, and here one may start at any time.  The browser has Web *)
(* Locks.                                                                  *)
(***************************************************************************)
EXTENDS Integers, Sequences, FiniteSets

CONSTANTS
  Tabs,         \* the tabs of the browser
  MaxSessions,  \* bound: logins
  MaxUpsets     \* bound: logouts, reloads by the user, revocations from elsewhere,
                \* refreshes and logins that are lost or answered with 5xx, and
                \* refreshes the server's stores fail, together

ASSUME AuthTabsConstants ==
  IsFiniteSet(Tabs) /\ Tabs # {} /\ MaxSessions \in Nat \ {0} /\ MaxUpsets \in Nat

Sids == 1..MaxSessions

VARIABLES
  status,       \* user_sessions: status of a session
  grace,        \* of an active session: the previous token is within
                \* RefreshReplayWindow
  cookie,       \* the refresh cookie
  page,         \* a tab: "loading" (beforeLoad) or "mounted" (it hears events)
  shows,        \* auth.session.sid of a tab, 0 for null
  refresh,      \* refreshPromise of a tab
  queue,        \* the queue of the lock new-api:auth-refresh, its holder first
  login,        \* the session a sign-in has created for a tab, 0 for none
  logout,       \* executeLogout of a tab
  inbox,        \* events published to a tab and not handled yet
  upsets,       \* history: how many of these there have been
  late          \* history: sessions whose grace ended before the browser had
                \* the current token

serverVars == <<status, grace>>
history == <<upsets, late>>
vars == <<serverVars, cookie, page, shows, refresh, queue, login, logout,
          inbox, history>>

-----------------------------------------------------------------------------

Token(s, age) == [sid |-> s, age |-> age]
NoToken == Token(0, 0)
Tokens == [sid : {0} \cup Sids, age : 0..2]

\* the kind of an HTTP answer, and the token its cookie carries
Answer(kind, token) == [kind |-> kind, token |-> token]
NoAnswer == Answer("none", NoToken)

\* the answers 401 to a refresh, which clear the cookie.  The browser does not
\* tell them apart: "unread" is the one to a session that could not be read.
Refusals == {"denied", "unread"}

\* current: authEpoch is still refreshEpoch; mayRetry: allowMismatchRetry
NoRefresh == [phase |-> "none", current |-> FALSE, mayRetry |-> FALSE,
              expected |-> 0, token |-> NoToken, answer |-> NoAnswer]

\* mayRecover: allowMismatchRecovery; "refreshing" awaits refreshAuthentication
NoLogout == [phase |-> "none", mayRecover |-> FALSE, expected |-> 0,
             token |-> NoToken, answer |-> "none"]

Refreshes ==
  [phase : {"none", "queued", "sent", "served"}, current : BOOLEAN, mayRetry : BOOLEAN,
   expected : {0} \cup Sids, token : Tokens,
   answer : [kind : {"none", "ok", "mismatch", "denied", "unread"}, token : Tokens]]
Logouts ==
  [phase : {"none", "sent", "served", "refreshing"}, mayRecover : BOOLEAN,
   expected : {0} \cup Sids, token : Tokens,
   answer : {"none", "cleared", "kept", "mismatch"}]
Events == [kind : {"authenticated", "signed_out"}, sid : Sids]

\* Type correctness of the server's, the browser's and the tabs' states.
TypeOK ==
  /\ status \in [Sids -> {"none", "active", "revoked"}]
  /\ grace \in [Sids -> BOOLEAN]
  /\ cookie \in Tokens
  /\ page \in [Tabs -> {"loading", "mounted"}]
  /\ shows \in [Tabs -> {0} \cup Sids]
  /\ refresh \in [Tabs -> Refreshes]
  /\ queue \in Seq(Tabs) /\ Len(queue) <= Cardinality(Tabs)
  /\ login \in [Tabs -> {0} \cup Sids]
  /\ logout \in [Tabs -> Logouts]
  /\ inbox \in [Tabs -> Seq(Events)]
  /\ upsets \in 0..MaxUpsets
  /\ late \subseteq Sids

-----------------------------------------------------------------------------
(* Tokens grow older                                                       *)

Older(token, s) ==
  IF token.sid = s THEN Token(s, IF token.age < 2 THEN token.age + 1 ELSE 2)
  ELSE token

Aged(r, s) ==
  [r EXCEPT !.token = Older(@, s), !.answer = Answer(@.kind, Older(@.token, s))]

\* the tokens of s the browser has, has sent in a refresh or is being sent
Copies(s) ==
  {x \in {cookie} \cup {refresh[t].token : t \in Tabs}
         \cup {refresh[t].answer.token : t \in Tabs} : x.sid = s}

-----------------------------------------------------------------------------
(* What the tabs do with their stores                                      *)

Upset == upsets < MaxUpsets /\ upsets' = upsets + 1

\* publishAuthSessionEvent: every other tab that has subscribed
Published(t, kind, s) ==
  IF s = 0 THEN inbox
  ELSE [u \in Tabs |-> IF u # t /\ page[u] = "mounted"
                       THEN Append(inbox[u], [kind |-> kind, sid |-> s])
                       ELSE inbox[u]]

\* the queue of the lock when t, which is in it at most once, has left it
Without(t) ==
  LET places == {i \in DOMAIN queue : queue[i] = t} IN
  IF places = {} THEN queue
  ELSE LET i == CHOOSE i \in places : TRUE
       IN  SubSeq(queue, 1, i - 1) \o SubSeq(queue, i + 1, Len(queue))

\* clearAuthentication: the store is reset
Clear(t) == shows' = [shows EXCEPT ![t] = 0]

\* authEpoch += 1, for a tab whose refresh goes on
Superseded(t) == [refresh EXCEPT ![t] = [@ EXCEPT !.current = FALSE]]

\* the request of a logout; its cookie is the one the browser has by then
LogoutRequest(s, token, mayRecover) ==
  [NoLogout EXCEPT !.phase = "sent", !.mayRecover = mayRecover, !.expected = s,
                   !.token = token]

\* the refresh of t settles: the lock is released, beforeLoad goes on, and so
\* does a logout that waited for it
Settle(t, outcome) ==
  /\ refresh' = [refresh EXCEPT ![t] = NoRefresh]
  /\ queue' = Without(t)
  /\ page' = [page EXCEPT ![t] = "mounted"]
  /\ logout' = IF logout[t].phase # "refreshing" THEN logout
               ELSE [logout EXCEPT ![t] =
                       IF outcome = "authenticated"
                       THEN LogoutRequest(shows'[t], cookie', FALSE) ELSE NoLogout]

JoinNone(t) ==       \* mutant: another one starts beside it
  /\ refresh' = [refresh EXCEPT ![t] = [NoRefresh EXCEPT
                    !.phase = "queued", !.current = TRUE, !.mayRetry = TRUE]]
  /\ queue' = Append(queue, t)

\* refreshAuthentication: the refresh under way is joined, or one starts
JoinRefresh(t) ==
  IF refresh[t].phase # "none" THEN UNCHANGED <<refresh, queue>>
  ELSE /\ refresh' = [refresh EXCEPT ![t] = [NoRefresh EXCEPT
                        !.phase = "queued", !.current = TRUE, !.mayRetry = TRUE]]
       /\ queue' = Append(queue, t)

-----------------------------------------------------------------------------
(* Refresh                                                                 *)

\* a page loads, a token is about to expire, a request was answered 401
Refresh(t) ==
  /\ refresh[t].phase = "none"
  /\ JoinRefresh(t)
  /\ UNCHANGED <<serverVars, cookie, page, shows, login, logout, inbox, history>>

\* the next request of a tab that shows an ended session is answered 401
Denied(t) ==
  /\ shows[t] # 0 /\ status[shows[t]] # "active"
  /\ Refresh(t)

\* the lock is granted and run starts, or a superseded run ends
Granted(t) ==
  /\ refresh[t].phase = "queued"
  /\ queue # <<>> /\ Head(queue) = t
  /\ IF refresh[t].current
     THEN /\ refresh' = [refresh EXCEPT ![t] =
                          [@ EXCEPT !.phase = "sent", !.expected = shows[t], !.token = cookie]]
          /\ UNCHANGED <<queue, page, logout>>
     ELSE Settle(t, "transient_error")
  /\ UNCHANGED <<serverVars, cookie, shows, login, inbox, history>>

NoMismatch(r) == FALSE   \* mutant: X-Auth-Session is ignored

\* RefreshLoginSession refuses the cookie of another session than the page shows
Mismatch(r) == r.token.sid # 0 /\ r.expected \notin {0, r.token.sid}

\* the request is over, but for the answer under way
Replied(r, kind, token) ==
  [NoRefresh EXCEPT !.phase = "served", !.current = r.current, !.mayRetry = r.mayRetry,
                    !.answer = Answer(kind, token)]

\* RotateUserSessionRefresh with the current token: every copy of it grows older
Rotate(t, s) ==
  /\ grace' = [grace EXCEPT ![s] = TRUE]
  /\ cookie' = Older(cookie, s)
  /\ refresh' = [u \in Tabs |-> IF u = t THEN Replied(refresh[u], "ok", Token(s, 0))
                                ELSE Aged(refresh[u], s)]
  /\ logout' = [u \in Tabs |-> [logout[u] EXCEPT !.token = Older(@, s)]]
  /\ UNCHANGED status

ReplayRefused(t, s) ==   \* mutant: the previous token has no grace
  /\ refresh' = [refresh EXCEPT ![t] = Replied(@, "denied", NoToken)]
  /\ status' = [status EXCEPT ![s] = "revoked"]
  /\ UNCHANGED <<grace, cookie, logout>>

ReplayRotates(t, s) ==   \* mutant: the previous token gets a successor of its own
  IF grace[s] THEN Rotate(t, s) ELSE ReplayRefused(t, s)

\* with the previous one: it gets the successor again while it has grace, and
\* after that it ends the session
Replay(t, s) ==
  /\ IF grace[s]
     THEN /\ refresh' = [refresh EXCEPT ![t] = Replied(@, "ok", Token(s, 0))]
          /\ UNCHANGED status
     ELSE /\ refresh' = [refresh EXCEPT ![t] = Replied(@, "denied", NoToken)]
          /\ status' = [status EXCEPT ![s] = "revoked"]
  /\ UNCHANGED <<grace, cookie, logout>>

AnyStatus(s) == TRUE     \* mutant: a revoked session may be refreshed

InForce(s) == status[s] = "active"

\* RefreshAuth answers.  An error of GetUserSessionCached, and the fence that a
\* failed revocation has left in the cache, are answered like a bad token.
Serve(t) ==
  LET r == refresh[t]
      s == r.token.sid
      reply(kind) == /\ refresh' = [refresh EXCEPT ![t] = Replied(@, kind, NoToken)]
                     /\ UNCHANGED <<serverVars, cookie, logout>>
  IN
  /\ r.phase = "sent"
  /\ \/ Mismatch(r) /\ reply("mismatch") /\ UNCHANGED history
     \/ s = 0 /\ reply("denied") /\ UNCHANGED history
     \/ /\ s # 0 /\ ~Mismatch(r)
        /\ IF ~InForce(s) \/ r.token.age = 2 THEN reply("denied")
           ELSE IF r.token.age = 0 THEN Rotate(t, s) ELSE Replay(t, s)
        /\ UNCHANGED history
     \/ /\ s # 0 /\ ~Mismatch(r)
        /\ Upset /\ reply("unread") /\ UNCHANGED late
  /\ UNCHANGED <<page, shows, queue, login, inbox>>

\* run goes on with the answer.  Its cookie is taken first, by the browser.
\* A mismatch shows nothing any more and asks again without X-Auth-Session, in
\* the same epoch, so a second mismatch cannot be.
HandleRefresh(t) ==
  LET r == refresh[t] IN
  /\ r.phase = "served"
  /\ cookie' = CASE r.answer.kind = "ok" -> r.answer.token
                 [] r.answer.kind \in Refusals -> NoToken
                 [] OTHER -> cookie
  /\ \/ /\ ~r.current
        /\ Settle(t, "transient_error") /\ UNCHANGED <<shows, inbox>>
     \/ /\ r.current /\ r.answer.kind = "ok"
        /\ shows' = [shows EXCEPT ![t] = r.answer.token.sid]
        /\ Settle(t, "authenticated") /\ UNCHANGED inbox
     \/ /\ r.current /\ r.answer.kind = "mismatch" /\ r.mayRetry
        /\ Clear(t)
        /\ refresh' = [refresh EXCEPT ![t] = [NoRefresh EXCEPT
                         !.phase = "sent", !.current = TRUE, !.token = cookie]]
        /\ UNCHANGED <<queue, page, logout, inbox>>
     \/ /\ r.current /\ r.answer.kind \in Refusals
        /\ Clear(t)
        /\ inbox' = Published(t, "signed_out", shows[t])
        /\ Settle(t, "anonymous")
  /\ UNCHANGED <<serverVars, login, history>>

LoseForGood(t) ==        \* mutant: refreshPromise is reset after a success only
  /\ refresh[t].phase \in {"sent", "served"}
  /\ Upset
  /\ refresh' = [refresh EXCEPT ![t] = [NoRefresh EXCEPT !.phase = "queued"]]
  /\ queue' = Without(t)
  /\ UNCHANGED <<serverVars, cookie, page, shows, login, logout, inbox, late>>

\* the request or its answer is lost, or the answer is 429 or 5xx: the page
\* keeps what it shows
LoseRefresh(t) ==
  /\ refresh[t].phase \in {"sent", "served"}
  /\ Upset
  /\ UNCHANGED <<serverVars, cookie, shows, login, inbox, late>>
  /\ Settle(t, "transient_error")

-----------------------------------------------------------------------------
(* Login and logout                                                        *)

\* the sign-in page is answered by setupLogin
Login(t) ==
  /\ page[t] = "mounted" /\ shows[t] = 0 /\ login[t] = 0
  /\ \E s \in Sids :
       /\ status[s] = "none" /\ \A u \in 1..(s - 1) : status[u] # "none"
       /\ status' = [status EXCEPT ![s] = "active"]
       /\ login' = [login EXCEPT ![t] = s]
  /\ UNCHANGED <<grace, cookie, page, shows, refresh, queue, logout, inbox, history>>

\* handleLoginSuccess: applyAuthBundle
HandleLogin(t) ==
  /\ login[t] # 0
  /\ cookie' = Token(login[t], 0)
  /\ shows' = [shows EXCEPT ![t] = login[t]]
  /\ login' = [login EXCEPT ![t] = 0]
  /\ refresh' = Superseded(t)
  /\ inbox' = Published(t, "authenticated", login[t])
  /\ UNCHANGED <<serverVars, page, queue, logout, history>>

\* the answer is lost: the session stays, unused
LoseLogin(t) ==
  /\ login[t] # 0
  /\ Upset
  /\ login' = [login EXCEPT ![t] = 0]
  /\ UNCHANGED <<serverVars, cookie, page, shows, refresh, queue, logout, inbox, late>>

\* executeLogout
Logout(t) ==
  /\ page[t] = "mounted" /\ shows[t] # 0 /\ logout[t].phase = "none"
  /\ Upset
  /\ logout' = [logout EXCEPT ![t] = LogoutRequest(shows[t], cookie, TRUE)]
  /\ UNCHANGED <<serverVars, cookie, page, shows, refresh, queue, login, inbox, late>>

\* RevokeUserSession, of an active session
Revoked(s) ==
  IF status[s] = "active"
  THEN status' = [status EXCEPT ![s] = "revoked"] /\ grace' = [grace EXCEPT ![s] = FALSE]
  ELSE UNCHANGED serverVars

\* AuthLogout.  A valid access token ends its session, and without one the
\* refresh token does: the current one, or the previous one with grace.
ServeLogout(t) ==
  LET l == logout[t]
      s == l.token.sid
      reply(kind) == logout' = [logout EXCEPT ![t] = [NoLogout EXCEPT
                                  !.phase = "served", !.mayRecover = l.mayRecover, !.answer = kind]]
  IN
  /\ l.phase = "sent"
  /\ \/ /\ s \notin {0, l.expected}
        /\ reply("mismatch") /\ UNCHANGED serverVars
     \/ /\ s \in {0, l.expected}
        /\ Revoked(l.expected)
        /\ reply(IF s = 0 THEN "kept" ELSE "cleared")
     \/ /\ s \in {0, l.expected}
        /\ IF s # 0 /\ (l.token.age = 0 \/ (l.token.age = 1 /\ grace[s]))
           THEN Revoked(s) ELSE UNCHANGED serverVars
        /\ reply("cleared")
  /\ UNCHANGED <<cookie, page, shows, refresh, queue, login, inbox, history>>

\* the answer: handleSignOut forgets the session and tells the other tabs; a
\* mismatch is put right by a refresh, once
HandleLogout(t) ==
  LET l == logout[t] IN
  /\ l.phase = "served"
  /\ cookie' = IF l.answer = "cleared" THEN NoToken ELSE cookie
  /\ \/ /\ l.answer # "mismatch"
        /\ logout' = [logout EXCEPT ![t] = NoLogout]
        /\ Clear(t)
        /\ inbox' = Published(t, "signed_out", shows[t])
        /\ refresh' = Superseded(t)
        /\ UNCHANGED queue
     \/ /\ l.answer = "mismatch" /\ l.mayRecover
        /\ logout' = [logout EXCEPT ![t] = [NoLogout EXCEPT !.phase = "refreshing"]]
        /\ JoinRefresh(t)
        /\ UNCHANGED <<shows, inbox>>
     \/ /\ l.answer = "mismatch" /\ ~l.mayRecover
        /\ logout' = [logout EXCEPT ![t] = NoLogout]
        /\ UNCHANGED <<shows, inbox, refresh, queue>>
  /\ UNCHANGED <<serverVars, page, login, history>>

\* the request or its answer is lost; the logout has been counted
LoseLogout(t) ==
  /\ logout[t].phase \in {"sent", "served"}
  /\ logout' = [logout EXCEPT ![t] = NoLogout]
  /\ UNCHANGED <<serverVars, cookie, page, shows, refresh, queue, login, inbox, history>>

-----------------------------------------------------------------------------
(* The other tabs, other devices, and time                                 *)

\* the page is gone, with its lock and its requests, and loads anew
PageReloads(t) ==
  /\ page' = [page EXCEPT ![t] = "loading"]
  /\ Clear(t)
  /\ refresh' = [refresh EXCEPT ![t] = NoRefresh]
  /\ queue' = Without(t)
  /\ login' = [login EXCEPT ![t] = 0]
  /\ logout' = [logout EXCEPT ![t] = NoLogout]
  /\ inbox' = [inbox EXCEPT ![t] = <<>>]

Reload(t) ==
  /\ PageReloads(t)
  /\ Upset
  /\ UNCHANGED <<serverVars, cookie, late>>

\* the listener of RootComponent
HandleEvent(t) ==
  LET e == Head(inbox[t]) IN
  /\ inbox[t] # <<>>
  /\ IF e.kind = "authenticated" /\ e.sid # shows[t]
     THEN PageReloads(t)
     ELSE /\ inbox' = [inbox EXCEPT ![t] = Tail(@)]
          /\ IF e.kind = "signed_out" /\ e.sid = shows[t]
             THEN /\ Clear(t)
                  /\ refresh' = Superseded(t)
             ELSE UNCHANGED <<shows, refresh>>
          /\ UNCHANGED <<page, queue, login, logout>>
  /\ UNCHANGED <<serverVars, cookie, history>>

\* the session expires, or is ended from another device
Revoke(s) ==
  /\ status[s] = "active" /\ Revoked(s)
  /\ Upset
  /\ UNCHANGED <<cookie, page, shows, refresh, queue, login, logout, inbox, late>>

\* RefreshReplayWindow has passed since the last rotation of s, when this can
\* matter: somebody has an older token
GraceEnds(s) ==
  /\ grace[s]
  /\ \E c \in Copies(s) \cup {logout[t].token : t \in Tabs} : c.sid = s /\ c.age # 0
  /\ grace' = [grace EXCEPT ![s] = FALSE]
  /\ late' = late \cup {x \in {s} : \E c \in Copies(s) : c.age # 0}
  /\ UNCHANGED <<status, cookie, page, shows, refresh, queue, login, logout, inbox, upsets>>

-----------------------------------------------------------------------------

Init ==
  /\ status = [s \in Sids |-> "none"] /\ grace = [s \in Sids |-> FALSE]
  /\ cookie = NoToken
  /\ page = [t \in Tabs |-> "loading"] /\ shows = [t \in Tabs |-> 0]
  /\ refresh = [t \in Tabs |-> NoRefresh] /\ queue = <<>>
  /\ login = [t \in Tabs |-> 0] /\ logout = [t \in Tabs |-> NoLogout]
  /\ inbox = [t \in Tabs |-> <<>>]
  /\ upsets = 0 /\ late = {}

Next ==
  \/ \E t \in Tabs :
       \/ Refresh(t) \/ Denied(t) \/ Granted(t) \/ Serve(t) \/ HandleRefresh(t) \/ LoseRefresh(t)
       \/ Login(t) \/ HandleLogin(t) \/ LoseLogin(t)
       \/ Logout(t) \/ ServeLogout(t) \/ HandleLogout(t) \/ LoseLogout(t)
       \/ Reload(t) \/ HandleEvent(t)
  \/ \E s \in Sids : Revoke(s) \/ GraceEnds(s)

Spec == Init /\ [][Next]_vars

\* a lock is granted in turn, a request is answered or lost, an answer is
\* handled, and a page that is open makes requests
FairSpec ==
  /\ Spec
  /\ \A t \in Tabs : /\ WF_vars(Denied(t)) /\ WF_vars(Granted(t))
                     /\ WF_vars(Serve(t)) /\ WF_vars(HandleRefresh(t))

-----------------------------------------------------------------------------
(* Properties                                                              *)

\* A tab that shows one session never goes on to show another without showing
\* none in between (the caches are cleared, the page is loaded anew), but by its
\* own sign-in: whatever cookie a refresh was sent with, and however late its
\* answer comes, it cannot put another user in front of the page.
\* (applyAuthBundle, RefreshLoginSession: expectedSID.)
SwitchOnlyByLogin ==
  [][\A t \in Tabs : shows[t] # 0 => \/ shows'[t] \in {0, shows[t]}
                                    \/ shows'[t] = login[t]]_vars

\* The refresh cookie of a session in force is its current token or the one
\* before, which is what the server still answers: tabs that refresh in turn
\* never leave the browser two rotations behind, even when one of them is closed
\* or loaded anew between the rotation and its answer.
\* (performRefreshWithBrowserLock, deriveNextRefreshSecret.)
CookieStaysUsable ==
  cookie.sid # 0 /\ status[cookie.sid] = "active" => cookie.age <= 1

\* A browser is not forced out of a session that nobody ended by the way its tabs
\* refresh: a refresh with its cookie is refused, and the session revoked for
\* refresh_reuse, only when the grace of the previous token ended before the
\* browser had its successor.  The other refusal is no verdict about the session,
\* which stays in force: the server could not read it.
\* (RotateUserSessionRefresh, RefreshLoginSession; docs/authentication.md on a
\* lost winning answer.)
NotForcedOut ==
  [][\A t \in Tabs :
       LET s == refresh[t].token.sid IN
       /\ refresh[t].phase = "sent" /\ s # 0
       /\ refresh'[t].phase = "served" /\ refresh'[t].answer.kind \in Refusals
       => \/ status[s] # "active" \/ s \in late
          \/ refresh'[t].answer.kind = "unread" /\ status'[s] = "active"]_vars

\* Whoever awaits refreshAuthentication goes on: the lock is released whatever
\* happens to its holder, and every tab gets its turn.
RefreshSettles == \A t \in Tabs : []<>(refresh[t].phase = "none")

\* A tab that shows a session which was ended stops showing it: by an event of
\* the tab that ended it, or at its next request.
StaleShowsEnd == []<>(\A t \in Tabs : shows[t] # 0 => status[shows[t]] = "active")
=============================================================================
