--------------------------- MODULE AuthTabsProofs ---------------------------
(***************************************************************************)
(* Proofs about AuthTabs, for any tabs of the browser, any number of       *)
(* sessions and any number of upsets.                                      *)
(*                                                                         *)
(* The lock lets one tab at a time talk to the server, and its holder sent *)
(* the cookie the browser has: so a rotation makes the cookie one step     *)
(* older, never two, unless its answer brings the new one.  A refresh that *)
(* is still current speaks for the session its tab shows.                  *)
(***************************************************************************)
EXTENDS AuthTabs, TLAPS, FiniteSetTheorems, SequenceTheorems

InQueue(t) == \E i \in 1..Len(queue) : queue[i] = t

(* The queue holds the tabs that refresh, each once; the first has the lock. *)
QueueInv ==
  /\ \A i, j \in 1..Len(queue) : queue[i] = queue[j] => i = j
  /\ \A t \in Tabs : refresh[t].phase # "none" <=> InQueue(t)
  /\ \A t \in Tabs : refresh[t].phase \in {"sent", "served"} =>
       queue # <<>> /\ queue[1] = t

(* What a current refresh was asked for, and brings, is what its tab shows. *)
ShowsInv ==
  \A t \in Tabs :
    LET r == refresh[t] IN
    /\ r.current /\ r.phase = "sent" => r.expected = shows[t]
    /\ r.current /\ r.phase = "served" /\ r.answer.kind = "ok" =>
         shows[t] \in {0, r.answer.token.sid}

(* s is a session, and not one whose sign-in is still to be answered. *)
Known(s) == s = 0 \/ (status[s] # "none" /\ \A t \in Tabs : login[t] # s)

KnownInv ==
  /\ Known(cookie.sid)
  /\ \A t \in Tabs : Known(refresh[t].token.sid) /\ Known(refresh[t].answer.token.sid)
  /\ \A t \in Tabs : login[t] # 0 => /\ status[login[t]] # "none"
                                     /\ \A u \in Tabs : login[u] = login[t] => u = t

(* The server answers the token of a session in force, or it is too late. *)
Usable(token) ==
  token.sid # 0 /\ status[token.sid] = "active" =>
    /\ token.age <= 1
    /\ token.age = 1 => grace[token.sid] \/ token.sid \in late

AgeInv ==
  /\ Usable(cookie)
  /\ \A t \in Tabs :
       refresh[t].phase = "sent" =>
         /\ Usable(refresh[t].token)
         /\ refresh[t].token.sid = cookie.sid /\ cookie.sid # 0 =>
              refresh[t].token.age = cookie.age
  /\ \A t \in Tabs :
       refresh[t].phase = "served" => refresh[t].answer.token.age = 0

IInv ==
  /\ TypeOK
  /\ QueueInv
  /\ ShowsInv
  /\ KnownInv
  /\ AgeInv
-----------------------------------------------------------------------------
(* Data                                                                     *)

Kinds == {"none", "ok", "mismatch", "denied", "unread"}

LEMMA KindsAre ==
  "ok" \in Kinds /\ "mismatch" \in Kinds /\ "denied" \in Kinds /\ "unread" \in Kinds
BY DEF Kinds

LEMMA SidsType == 0 \notin Sids /\ Sids \subseteq Nat
BY AuthTabsConstants DEF Sids

LEMMA TokenType ==
  /\ NoToken \in Tokens /\ NoToken.sid = 0 /\ NoToken.age = 0
  /\ \A s \in {0} \cup Sids, a \in 0..2 :
       Token(s, a) \in Tokens /\ Token(s, a).sid = s /\ Token(s, a).age = a
BY DEF NoToken, Token, Tokens

LEMMA OlderType ==
  ASSUME NEW x \in Tokens, NEW s \in Sids
  PROVE  /\ Older(x, s) \in Tokens /\ Older(x, s).sid = x.sid
         /\ x.sid # s => Older(x, s) = x
         /\ x.sid = s => Older(x, s).age = IF x.age < 2 THEN x.age + 1 ELSE 2
BY DEF Older, Token, Tokens

LEMMA NoRefreshType ==
  /\ NoRefresh \in Refreshes /\ NoRefresh.phase = "none" /\ ~NoRefresh.current
  /\ NoRefresh.token = NoToken /\ NoRefresh.answer = NoAnswer
  /\ NoAnswer.token = NoToken /\ NoAnswer.kind = "none"
BY TokenType DEF NoRefresh, Refreshes, NoAnswer, Answer

LEMMA NoLogoutType == NoLogout \in Logouts
BY TokenType DEF NoLogout, Logouts

LEMMA LogoutRequestType ==
  ASSUME NEW s \in {0} \cup Sids, NEW x \in Tokens, NEW b \in BOOLEAN
  PROVE  LogoutRequest(s, x, b) \in Logouts
BY NoLogoutType DEF LogoutRequest, Logouts

LEMMA UpsetType == ASSUME TypeOK, Upset PROVE upsets' \in 0..MaxUpsets
BY AuthTabsConstants DEF TypeOK, Upset

(* The refresh of one tab loses its epoch.                                  *)
Dulled(u) ==
  /\ refresh'[u].phase = refresh[u].phase /\ refresh'[u].expected = refresh[u].expected
  /\ refresh'[u].token = refresh[u].token /\ refresh'[u].answer = refresh[u].answer
  /\ refresh'[u].current => refresh[u].current

LEMMA SupersededType ==
  ASSUME TypeOK, NEW t \in Tabs, refresh' = Superseded(t)
  PROVE  /\ refresh' \in [Tabs -> Refreshes]
         /\ \A u \in Tabs : Dulled(u) /\ (refresh'[u].current => u # t)
<1> DEFINE r == [refresh[t] EXCEPT !.current = FALSE]
<1>1. refresh' = [refresh EXCEPT ![t] = r] /\ \A u \in Tabs : refresh[u] \in Refreshes
  BY DEF Superseded, TypeOK
<1>2. /\ r \in Refreshes /\ r.phase = refresh[t].phase /\ r.expected = refresh[t].expected
      /\ r.token = refresh[t].token /\ r.answer = refresh[t].answer /\ ~r.current
  BY <1>1 DEF Refreshes
<1> HIDE DEF r
<1>3. /\ refresh' \in [Tabs -> Refreshes] /\ refresh'[t] = r
      /\ \A u \in Tabs : u # t => refresh'[u] = refresh[u]
  BY <1>1, <1>2 DEF TypeOK
<1> QED
  BY <1>2, <1>3 DEF Dulled

LEMMA PublishedType ==
  ASSUME TypeOK, NEW t, NEW kind \in {"authenticated", "signed_out"}, NEW s \in {0} \cup Sids
  PROVE  Published(t, kind, s) \in [Tabs -> Seq(Events)]
<1>1. CASE s = 0
  BY <1>1 DEF Published, TypeOK
<1>2. CASE s # 0
  <2> DEFINE e == [kind |-> kind, sid |-> s]
  <2>1. e \in Events
    BY <1>2 DEF Events
  <2>2. \A u \in Tabs : inbox[u] \in Seq(Events) /\ Append(inbox[u], e) \in Seq(Events)
    BY <2>1 DEF TypeOK
  <2>3. Published(t, kind, s) = [u \in Tabs |-> IF u # t /\ page[u] = "mounted"
                                               THEN Append(inbox[u], e) ELSE inbox[u]]
    BY <1>2 DEF Published
  <2> QED
    BY <2>2, <2>3
<1> QED
  BY <1>1, <1>2
-----------------------------------------------------------------------------
(* The queue of the lock                                                    *)

Distinct(q) == \A i, j \in 1..Len(q) : q[i] = q[j] => i = j

LEMMA QueueBound ==
  ASSUME NEW q \in Seq(Tabs), Distinct(q)
  PROVE  Len(q) <= Cardinality(Tabs)
<1>1. IsFiniteSet(Tabs) /\ Cardinality(Tabs) \in Nat
  BY AuthTabsConstants, FS_CardinalityType
<1>2. Len(q) \in Nat /\ q \in [1..Len(q) -> Tabs]
  OBVIOUS
<1>3. IsFiniteSet(1..Len(q)) /\ Cardinality(1..Len(q)) = Len(q)
  BY <1>2, FS_Interval
<1>4. SUFFICES ASSUME Cardinality(Tabs) < Len(q) PROVE FALSE
  BY <1>1, <1>2
<1>5. \E i, j \in 1..Len(q) : i # j /\ q[i] = q[j]
  BY <1>1, <1>2, <1>3, <1>4, FS_PigeonHole
<1> QED
  BY <1>5 DEF Distinct

LEMMA WithoutQueue ==
  ASSUME TypeOK, QueueInv, NEW t \in Tabs
  PROVE  LET q == Without(t) IN
         /\ q \in Seq(Tabs) /\ Distinct(q)
         /\ \A u : (\E i \in 1..Len(q) : q[i] = u) <=> InQueue(u) /\ u # t
         /\ queue # <<>> /\ queue[1] # t => q # <<>> /\ q[1] = queue[1]
<1> DEFINE places == {i \in DOMAIN queue : queue[i] = t}
<1>1. queue \in Seq(Tabs) /\ Distinct(queue) /\ DOMAIN queue = 1..Len(queue) /\ Len(queue) \in Nat
  BY DEF TypeOK, QueueInv, Distinct
<1>2. CASE places = {}
  <2>1. Without(t) = queue
    BY <1>2 DEF Without
  <2> QED
    BY <1>1, <1>2, <2>1 DEF InQueue
<1>3. CASE places # {}
  <2> DEFINE i == CHOOSE i \in places : TRUE
             q == SubSeq(queue, 1, i - 1) \o SubSeq(queue, i + 1, Len(queue))
  <2>1. Without(t) = q
    BY <1>3 DEF Without
  <2>2. i \in places
    BY <1>3
  <2> HIDE DEF i
  <2>3. i \in 1..Len(queue) /\ queue[i] = t
    BY <1>1, <2>2
  <2>4. /\ q \in Seq(Tabs) /\ Len(q) = Len(queue) - 1
        /\ \A k \in 1..(i - 1) : q[k] = queue[k]
        /\ \A k \in i..(Len(queue) - 1) : q[k] = queue[k + 1]
    <3> DEFINE a == SubSeq(queue, 1, i - 1)
               b == SubSeq(queue, i + 1, Len(queue))
    <3>1. /\ a \in Seq(Tabs) /\ Len(a) = i - 1
          /\ \A k \in 1..(i - 1) : a[k] = queue[k]
      <4>1. 1 \in Int /\ i - 1 \in Int
        BY <1>1, <2>3
      <4> QED
        BY <1>1, <2>3, <4>1, SubSeqProperties
    <3>2. /\ b \in Seq(Tabs) /\ Len(b) = Len(queue) - i
          /\ \A k \in 1..(Len(queue) - i) : b[k] = queue[k + i]
      <4>1. i + 1 \in Int /\ Len(queue) \in Int /\ \A k \in (i + 1)..Len(queue) : queue[k] \in Tabs
        BY <1>1, <2>3
      <4>2. /\ b \in Seq(Tabs)
            /\ Len(b) = IF i + 1 <= Len(queue) THEN Len(queue) - (i + 1) + 1 ELSE 0
            /\ \A k \in 1..(Len(queue) - (i + 1) + 1) : b[k] = queue[i + 1 + k - 1]
        BY <4>1, SubSeqProperties
      <4> HIDE DEF b
      <4>3. Len(queue) - (i + 1) + 1 = Len(queue) - i
        BY <1>1, <2>3
      <4>4. Len(b) = Len(queue) - i
        <5>1. CASE i + 1 <= Len(queue)
          BY <4>2, <4>3, <5>1
        <5>2. CASE ~(i + 1 <= Len(queue))
          <6>1. i \in Int /\ Len(queue) \in Int /\ i <= Len(queue)
            BY <1>1, <2>3
          <6>2. Len(queue) - i = 0
            BY <5>2, <6>1
          <6> QED
            BY <4>2, <5>2, <6>2
        <5> QED
          BY <5>1, <5>2
      <4>5. ASSUME NEW k \in 1..(Len(queue) - i) PROVE b[k] = queue[k + i]
        <5>1. i + 1 + k - 1 = k + i
          BY <1>1, <2>3, <4>5
        <5> QED
          BY <4>2, <4>3, <4>5, <5>1
      <4> QED
        BY <4>2, <4>4, <4>5
    <3>3. Len(a) \in Nat /\ Len(b) \in Nat
      BY <3>1, <3>2
    <3> HIDE DEF a, b
    <3>4. /\ a \o b \in Seq(Tabs) /\ Len(a \o b) = Len(a) + Len(b)
          /\ \A k \in 1..(Len(a) + Len(b)) :
               (a \o b)[k] = IF k <= Len(a) THEN a[k] ELSE b[k - Len(a)]
      BY <3>1, <3>2, ConcatProperties
    <3>5. \A k \in 1..(i - 1) : (a \o b)[k] = queue[k]
      BY <1>1, <2>3, <3>1, <3>2, <3>4
    <3>6. ASSUME NEW k \in i..(Len(queue) - 1) PROVE (a \o b)[k] = queue[k + 1]
      <4> DEFINE j == k - (i - 1)
      <4>1. /\ j \in 1..(Len(queue) - i) /\ j + i = k + 1
            /\ k \in 1..(Len(a) + Len(b)) /\ ~(k <= Len(a)) /\ k - Len(a) = j
        BY <1>1, <2>3, <3>1, <3>2
      <4> HIDE DEF j
      <4>2. (a \o b)[k] = b[j]
        BY <3>4, <4>1
      <4>3. b[j] = queue[k + 1]
        BY <3>2, <4>1
      <4> QED
        BY <4>2, <4>3
    <3>7. Len(a) + Len(b) = Len(queue) - 1
      BY <1>1, <2>3, <3>1, <3>2
    <3> QED
      BY <3>4, <3>5, <3>6, <3>7 DEF a, b
  <2> HIDE DEF q
  <2>5. ASSUME NEW k \in 1..Len(q)
        PROVE  \E m \in 1..Len(queue) :
                 m # i /\ q[k] = queue[m] /\ (k < i => m = k) /\ (k >= i => m = k + 1)
    <3>1. CASE k < i
      BY <1>1, <2>3, <2>4, <2>5, <3>1
    <3>2. CASE k >= i
      <4>1. k + 1 \in 1..Len(queue) /\ k + 1 # i /\ q[k] = queue[k + 1]
        BY <1>1, <2>3, <2>4, <2>5, <3>2
      <4> QED
        BY <2>3, <2>5, <3>2, <4>1
    <3> QED
      BY <1>1, <2>3, <2>4, <2>5, <3>1, <3>2
  <2>6. Distinct(q)
    BY <1>1, <2>3, <2>4, <2>5 DEF Distinct
  <2>7. ASSUME NEW u PROVE (\E k \in 1..Len(q) : q[k] = u) <=> InQueue(u) /\ u # t
    <3>1. ASSUME NEW k \in 1..Len(q), q[k] = u PROVE InQueue(u) /\ u # t
      BY <1>1, <2>3, <2>5, <3>1 DEF InQueue, Distinct
    <3>2. ASSUME InQueue(u), u # t PROVE \E k \in 1..Len(q) : q[k] = u
      <4>1. PICK m \in 1..Len(queue) : queue[m] = u
        BY <3>2 DEF InQueue
      <4>2. m # i
        BY <2>3, <3>2, <4>1
      <4>3. CASE m < i
        BY <1>1, <2>3, <2>4, <4>1, <4>3
      <4>4. CASE m > i
        <5>1. m - 1 \in i..(Len(queue) - 1) /\ q[m - 1] = queue[m]
          BY <1>1, <2>3, <2>4, <4>4
        <5> QED
          BY <1>1, <2>3, <2>4, <4>1, <4>4, <5>1
      <4> QED
        BY <2>3, <4>2, <4>3, <4>4
    <3> QED
      BY <3>1, <3>2
  <2>8. ASSUME queue # <<>>, queue[1] # t PROVE q # <<>> /\ q[1] = queue[1]
    <3>1. i > 1
      BY <1>1, <2>3, <2>8
    <3> QED
      BY <1>1, <2>3, <2>4, <3>1
  <2> QED
    BY <2>1, <2>4, <2>6, <2>7, <2>8
<1> QED
  BY <1>2, <1>3

(* A refresh that ends leaves the queue.                                    *)
LEMMA Dropped ==
  ASSUME TypeOK, QueueInv, NEW t \in Tabs,
         refresh' = [refresh EXCEPT ![t] = NoRefresh], queue' = Without(t)
  PROVE  /\ QueueInv'
         /\ refresh' \in [Tabs -> Refreshes]
         /\ queue' \in Seq(Tabs) /\ Len(queue') <= Cardinality(Tabs)
<1>1. /\ queue' \in Seq(Tabs) /\ Distinct(queue')
      /\ \A u : (\E i \in 1..Len(queue') : queue'[i] = u) <=> InQueue(u) /\ u # t
      /\ queue # <<>> /\ queue[1] # t => queue' # <<>> /\ queue'[1] = queue[1]
  BY WithoutQueue
<1>2. refresh' \in [Tabs -> Refreshes] /\ refresh'[t] = NoRefresh
      /\ \A u \in Tabs : u # t => refresh'[u] = refresh[u]
  BY NoRefreshType DEF TypeOK
<1>3. \A u \in Tabs : refresh'[u].phase # "none" <=> InQueue(u)'
  <2>1. \A u : InQueue(u)' <=> InQueue(u) /\ u # t
    BY <1>1 DEF InQueue
  <2>2. \A u \in Tabs : refresh[u].phase # "none" <=> InQueue(u)
    BY DEF QueueInv
  <2> QED
    BY <1>2, <2>1, <2>2, NoRefreshType
<1>4. \A u \in Tabs : refresh'[u].phase \in {"sent", "served"} => queue' # <<>> /\ queue'[1] = u
  BY <1>1, <1>2, NoRefreshType DEF QueueInv
<1> QED
  BY <1>1, <1>2, <1>3, <1>4, QueueBound DEF QueueInv, Distinct

(* A refresh that starts goes to its end.                                   *)
LEMMA Joined ==
  ASSUME TypeOK, QueueInv, NEW t \in Tabs, JoinRefresh(t)
  PROVE  /\ QueueInv'
         /\ refresh' \in [Tabs -> Refreshes]
         /\ queue' \in Seq(Tabs) /\ Len(queue') <= Cardinality(Tabs)
         /\ \A u \in Tabs : \/ refresh'[u] = refresh[u]
                            \/ /\ refresh'[u].phase = "queued"
                               /\ refresh'[u].token = NoToken /\ refresh'[u].answer = NoAnswer
<1>1. CASE refresh[t].phase # "none"
  BY <1>1 DEF JoinRefresh, TypeOK, QueueInv, InQueue
<1>2. CASE refresh[t].phase = "none"
  <2> DEFINE r == [NoRefresh EXCEPT !.phase = "queued", !.current = TRUE, !.mayRetry = TRUE]
  <2>1. refresh' = [refresh EXCEPT ![t] = r] /\ queue' = Append(queue, t)
    BY <1>2 DEF JoinRefresh
  <2>2. /\ r \in Refreshes /\ r.phase = "queued" /\ r.token = NoToken /\ r.answer = NoAnswer
    BY NoRefreshType DEF Refreshes
  <2> HIDE DEF r
  <2>3. /\ refresh' \in [Tabs -> Refreshes] /\ refresh'[t] = r
        /\ \A u \in Tabs : u # t => refresh'[u] = refresh[u]
    BY <2>1, <2>2 DEF TypeOK
  <2>4. /\ queue \in Seq(Tabs) /\ Len(queue) \in Nat /\ queue' \in Seq(Tabs)
        /\ Len(queue') = Len(queue) + 1 /\ queue'[Len(queue) + 1] = t
        /\ \A i \in 1..Len(queue) : queue'[i] = queue[i]
    BY <2>1 DEF TypeOK
  <2>5. ~InQueue(t)
    BY <1>2 DEF QueueInv
  <2>6. Distinct(queue')
    BY <2>4, <2>5 DEF QueueInv, Distinct, InQueue
  <2>7. \A u \in Tabs : refresh'[u].phase # "none" <=> InQueue(u)'
    BY <2>2, <2>3, <2>4 DEF QueueInv, InQueue
  <2>8. \A u \in Tabs : refresh'[u].phase \in {"sent", "served"} => queue' # <<>> /\ queue'[1] = u
    BY <2>2, <2>3, <2>4 DEF QueueInv
  <2> QED
    BY <2>2, <2>3, <2>4, <2>6, <2>7, <2>8, QueueBound DEF QueueInv, Distinct
<1> QED
  BY <1>1, <1>2
-----------------------------------------------------------------------------
(* Steps that bring no refresh forward                                      *)

(* A refresh is dropped, or waits for the lock; or it is as it was, and     *)
(* still current only if its tab shows what it showed.                      *)
Silent(r) == r.phase \in {"none", "queued"} /\ r.token = NoToken /\ r.answer = NoAnswer

Same(u) ==
  /\ refresh'[u].phase = refresh[u].phase /\ refresh'[u].expected = refresh[u].expected
  /\ refresh'[u].token = refresh[u].token /\ refresh'[u].answer = refresh[u].answer
  /\ refresh'[u].current => refresh[u].current /\ shows'[u] = shows[u]

Calm == \A u \in Tabs : Silent(refresh'[u]) \/ Same(u)

(* No known session is forgotten, and no token the server answers loses     *)
(* its use.                                                                 *)
KnownStays == \A s : Known(s) => Known(s)'
UsableStays == \A x \in Tokens : Known(x.sid) /\ Usable(x) => Usable(x)'

LoginInv ==
  \A t \in Tabs : login[t] # 0 => /\ status[login[t]] # "none"
                                  /\ \A u \in Tabs : login[u] = login[t] => u = t

(* The cookie stays, or is a current token that no request under way has.   *)
CookieFits ==
  /\ Known(cookie.sid)'
  /\ \/ cookie' = cookie
     \/ /\ cookie'.age = 0
        /\ \A u \in Tabs : refresh'[u].phase = "sent" /\ cookie'.sid # 0 =>
                             refresh'[u].token.sid # cookie'.sid

LEMMA CalmStep ==
  ASSUME IInv, Calm, KnownStays, UsableStays, LoginInv', CookieFits
  PROVE  ShowsInv' /\ KnownInv' /\ AgeInv'
<1>1. ShowsInv'
  BY DEF IInv, ShowsInv, Calm, Silent, Same
<1>2. KnownInv'
  <2>1. ASSUME NEW t \in Tabs
        PROVE  Known(refresh[t].token.sid)' /\ Known(refresh[t].answer.token.sid)'
    <3>1. CASE Silent(refresh'[t])
      BY <3>1, TokenType, NoRefreshType DEF Silent, Known
    <3>2. CASE Same(t)
      BY <2>1, <3>2 DEF IInv, KnownInv, KnownStays, Same
    <3> QED
      BY <2>1, <3>1, <3>2 DEF Calm
  <2> QED
    BY <2>1 DEF CookieFits, LoginInv, KnownInv
<1>3. AgeInv'
  <2>1. \A t \in Tabs : Same(t) \/ refresh'[t].phase \notin {"sent", "served"}
    BY DEF Calm, Silent
  <2>2. Usable(cookie)'
    <3>1. CASE cookie' = cookie
      BY <3>1 DEF IInv, TypeOK, KnownInv, AgeInv, UsableStays
    <3>2. CASE cookie'.age = 0
      BY <3>2 DEF Usable
    <3> QED
      BY <3>1, <3>2 DEF CookieFits
  <2>3. ASSUME NEW t \in Tabs, refresh'[t].phase = "sent"
        PROVE  /\ Usable(refresh[t].token)'
               /\ refresh'[t].token.sid = cookie'.sid /\ cookie'.sid # 0 =>
                    refresh'[t].token.age = cookie'.age
    <3>1. Same(t) /\ refresh[t].phase = "sent"
      BY <2>1, <2>3 DEF Same
    <3>2. refresh[t].token \in Tokens /\ Known(refresh[t].token.sid) /\ Usable(refresh[t].token)
      BY <2>3, <3>1 DEF IInv, TypeOK, Refreshes, KnownInv, AgeInv
    <3>3. Usable(refresh[t].token)'
      BY <3>1, <3>2 DEF UsableStays, Same, Usable
    <3> QED
      BY <2>3, <3>1, <3>3 DEF CookieFits, IInv, AgeInv, Same
  <2>4. ASSUME NEW t \in Tabs, refresh'[t].phase = "served" PROVE refresh'[t].answer.token.age = 0
    BY <2>1, <2>4 DEF IInv, AgeInv, Same
  <2> QED
    BY <2>2, <2>3, <2>4 DEF AgeInv
<1> QED
  BY <1>1, <1>2, <1>3

(* The server has done nothing, and no sign-in ends.                        *)
LEMMA ServerIdle ==
  ASSUME IInv, UNCHANGED <<serverVars, late, login>>
  PROVE  KnownStays /\ UsableStays /\ LoginInv'
BY DEF IInv, KnownInv, LoginInv, KnownStays, UsableStays, Known, Usable, serverVars

LEMMA CookieStays == ASSUME IInv, cookie' = cookie, KnownStays PROVE CookieFits
BY DEF IInv, KnownInv, KnownStays, CookieFits

LEMMA CookieCleared == ASSUME cookie' = NoToken PROVE CookieFits
BY TokenType DEF CookieFits, Known

(* Phases are as they were, and so is the queue.                            *)
LEMMA QueueStays ==
  ASSUME QueueInv, queue' = queue,
         \A u \in Tabs : \/ refresh'[u].phase = refresh[u].phase
                         \/ /\ refresh[u].phase # "none" /\ queue # <<>> /\ queue[1] = u
                            /\ refresh'[u].phase \in {"sent", "served"}
  PROVE  QueueInv'
BY DEF QueueInv, InQueue

(* A refresh that settles.                                                  *)
LEMMA Settled ==
  ASSUME IInv, NEW t \in Tabs, NEW outcome, Settle(t, outcome),
         cookie' \in Tokens, shows' \in [Tabs -> {0} \cup Sids],
         \A u \in Tabs : u # t => shows'[u] = shows[u]
  PROVE  /\ QueueInv' /\ Calm
         /\ refresh' = [refresh EXCEPT ![t] = NoRefresh]
         /\ refresh' \in [Tabs -> Refreshes] /\ page' \in [Tabs -> {"loading", "mounted"}]
         /\ queue' \in Seq(Tabs) /\ Len(queue') <= Cardinality(Tabs)
         /\ logout' \in [Tabs -> Logouts]
<1>1. TypeOK /\ QueueInv
  BY DEF IInv
<1>2. refresh' = [refresh EXCEPT ![t] = NoRefresh] /\ queue' = Without(t)
  BY DEF Settle
<1>3. /\ QueueInv' /\ refresh' \in [Tabs -> Refreshes]
      /\ queue' \in Seq(Tabs) /\ Len(queue') <= Cardinality(Tabs)
  BY <1>1, <1>2, Dropped
<1>4. Calm
  BY <1>1, <1>2, NoRefreshType DEF TypeOK, Calm, Silent, Same
<1>5. page' \in [Tabs -> {"loading", "mounted"}]
  BY <1>1 DEF Settle, TypeOK
<1>6. logout' \in [Tabs -> Logouts]
  <2>1. LogoutRequest(shows'[t], cookie', FALSE) \in Logouts
    BY LogoutRequestType
  <2> QED
    BY <1>1, <2>1, NoLogoutType DEF Settle, TypeOK
<1> QED
  BY <1>2, <1>3, <1>4, <1>5, <1>6
-----------------------------------------------------------------------------
(* The actions                                                              *)

LEMMA InitInv == Init => IInv
<1> SUFFICES ASSUME Init PROVE IInv
  OBVIOUS
<1>1. TypeOK
  <2>1. Len(queue) <= Cardinality(Tabs)
    BY AuthTabsConstants, FS_CardinalityType DEF Init
  <2>2. refresh \in [Tabs -> Refreshes] /\ logout \in [Tabs -> Logouts] /\ cookie \in Tokens
    BY NoRefreshType, NoLogoutType, TokenType DEF Init
  <2>3. inbox \in [Tabs -> Seq(Events)] /\ queue \in Seq(Tabs)
    BY DEF Init
  <2>4. upsets \in 0..MaxUpsets /\ late \subseteq Sids
    BY AuthTabsConstants DEF Init
  <2>5. status \in [Sids -> {"none", "active", "revoked"}]
    BY DEF Init
  <2>6. grace \in [Sids -> BOOLEAN]
    BY DEF Init
  <2>7. page \in [Tabs -> {"loading", "mounted"}] /\ shows \in [Tabs -> {0} \cup Sids]
    BY DEF Init
  <2>8. login \in [Tabs -> {0} \cup Sids]
    BY DEF Init
  <2> QED
    BY <2>1, <2>2, <2>3, <2>4, <2>5, <2>6, <2>7, <2>8 DEF TypeOK
<1>2. QueueInv
  BY NoRefreshType DEF Init, QueueInv, InQueue
<1>3. ShowsInv
  BY NoRefreshType DEF Init, ShowsInv
<1>4. KnownInv
  BY NoRefreshType, TokenType DEF Init, KnownInv, Known
<1>5. AgeInv
  BY NoRefreshType, TokenType DEF Init, AgeInv, Usable
<1> QED
  BY <1>1, <1>2, <1>3, <1>4, <1>5 DEF IInv

LEMMA RefreshInv == ASSUME IInv, NEW t \in Tabs, Refresh(t) PROVE IInv'
<1>1. TypeOK /\ QueueInv /\ JoinRefresh(t)
      /\ UNCHANGED <<serverVars, cookie, page, shows, login, logout, inbox, history>>
  BY DEF IInv, Refresh
<1>2. /\ QueueInv' /\ refresh' \in [Tabs -> Refreshes]
      /\ queue' \in Seq(Tabs) /\ Len(queue') <= Cardinality(Tabs)
      /\ \A u \in Tabs : \/ refresh'[u] = refresh[u]
                         \/ /\ refresh'[u].phase = "queued"
                            /\ refresh'[u].token = NoToken /\ refresh'[u].answer = NoAnswer
  BY <1>1, Joined
<1>3. TypeOK'
  BY <1>1, <1>2 DEF TypeOK, serverVars, history
<1>4. Calm
  BY <1>1, <1>2 DEF Calm, Silent, Same
<1>5. ShowsInv' /\ KnownInv' /\ AgeInv'
  BY <1>1, <1>4, CalmStep, ServerIdle, CookieStays DEF history
<1> QED
  BY <1>2, <1>3, <1>5 DEF IInv

LEMMA LoseRefreshInv == ASSUME IInv, NEW t \in Tabs, LoseRefresh(t) PROVE IInv'
<1>1. TypeOK /\ Settle(t, "transient_error") /\ Upset
      /\ UNCHANGED <<serverVars, cookie, shows, login, inbox, late>>
  BY DEF IInv, LoseRefresh
<1>2. /\ QueueInv' /\ Calm /\ refresh' \in [Tabs -> Refreshes]
      /\ page' \in [Tabs -> {"loading", "mounted"}] /\ logout' \in [Tabs -> Logouts]
      /\ queue' \in Seq(Tabs) /\ Len(queue') <= Cardinality(Tabs)
  BY <1>1, Settled DEF TypeOK
<1>3. TypeOK'
  BY <1>1, <1>2, AuthTabsConstants DEF TypeOK, serverVars, Upset
<1>4. ShowsInv' /\ KnownInv' /\ AgeInv'
  BY <1>1, <1>2, CalmStep, ServerIdle, CookieStays
<1> QED
  BY <1>2, <1>3, <1>4 DEF IInv

(* A request leaves with the cookie, for the session that is shown or none. *)
LEMMA Sent ==
  ASSUME IInv, NEW t \in Tabs, NEW r \in Refreshes,
         refresh[t].phase # "none", queue # <<>>, queue[1] = t, queue' = queue,
         refresh' = [refresh EXCEPT ![t] = r],
         r.phase = "sent", r.token = cookie, Known(r.answer.token.sid),
         r.expected = shows'[t], \A u \in Tabs : u # t => shows'[u] = shows[u],
         UNCHANGED <<serverVars, cookie, login, late>>
  PROVE  QueueInv' /\ ShowsInv' /\ KnownInv' /\ AgeInv' /\ refresh' \in [Tabs -> Refreshes]
<1>1. TypeOK /\ QueueInv /\ ShowsInv /\ KnownInv /\ AgeInv
  BY DEF IInv
<1>2. /\ refresh' \in [Tabs -> Refreshes] /\ refresh'[t] = r
      /\ \A u \in Tabs : u # t => refresh'[u] = refresh[u]
  BY <1>1 DEF TypeOK
<1>3. QueueInv'
  BY <1>1, <1>2, QueueStays
<1>4. ShowsInv'
  BY <1>1, <1>2 DEF ShowsInv
<1>5. KnownInv'
  BY <1>1, <1>2 DEF KnownInv, Known, serverVars
<1>6. AgeInv'
  BY <1>1, <1>2 DEF AgeInv, Usable, serverVars
<1> QED
  BY <1>2, <1>3, <1>4, <1>5, <1>6

LEMMA GrantedInv == ASSUME IInv, NEW t \in Tabs, Granted(t) PROVE IInv'
<1>1. /\ TypeOK /\ KnownInv
      /\ refresh[t].phase = "queued" /\ queue # <<>> /\ queue[1] = t
      /\ UNCHANGED <<serverVars, cookie, shows, login, inbox, history>>
  BY DEF IInv, Granted
<1>2. CASE refresh[t].current
  <2> DEFINE r == [refresh[t] EXCEPT !.phase = "sent", !.expected = shows[t], !.token = cookie]
  <2>1. refresh' = [refresh EXCEPT ![t] = r] /\ UNCHANGED <<queue, page, logout>>
    BY <1>2, Zenon DEF Granted
  <2>2. /\ r \in Refreshes /\ r.phase = "sent" /\ r.token = cookie
        /\ r.expected = shows[t] /\ r.answer = refresh[t].answer
    <3>1. refresh[t] \in Refreshes /\ cookie \in Tokens /\ shows[t] \in {0} \cup Sids
      BY <1>1 DEF TypeOK
    <3> QED
      BY <3>1 DEF Refreshes
  <2> HIDE DEF r
  <2>3. QueueInv' /\ ShowsInv' /\ KnownInv' /\ AgeInv' /\ refresh' \in [Tabs -> Refreshes]
    BY <1>1, <2>1, <2>2, Sent DEF KnownInv, history
  <2>4. TypeOK'
    BY <1>1, <2>1, <2>3 DEF TypeOK, serverVars, history
  <2> QED
    BY <2>3, <2>4 DEF IInv
<1>3. CASE ~refresh[t].current
  <2>1. Settle(t, "transient_error")
    BY <1>3 DEF Granted
  <2>2. /\ QueueInv' /\ Calm /\ refresh' \in [Tabs -> Refreshes]
        /\ page' \in [Tabs -> {"loading", "mounted"}] /\ logout' \in [Tabs -> Logouts]
        /\ queue' \in Seq(Tabs) /\ Len(queue') <= Cardinality(Tabs)
    BY <1>1, <2>1, Settled DEF TypeOK
  <2>3. TypeOK'
    BY <1>1, <2>2 DEF TypeOK, serverVars, history
  <2>4. ShowsInv' /\ KnownInv' /\ AgeInv'
    BY <1>1, <2>2, CalmStep, ServerIdle, CookieStays DEF history
  <2> QED
    BY <2>2, <2>3, <2>4 DEF IInv
<1> QED
  BY <1>2, <1>3

LEMMA RepliedType ==
  ASSUME NEW r \in Refreshes, NEW kind \in Kinds, NEW x \in Tokens
  PROVE  /\ Replied(r, kind, x) \in Refreshes
         /\ Replied(r, kind, x).phase = "served" /\ Replied(r, kind, x).current = r.current
         /\ Replied(r, kind, x).token = NoToken
         /\ Replied(r, kind, x).answer.kind = kind /\ Replied(r, kind, x).answer.token = x
<1>1. /\ Answer(kind, x) \in [kind : Kinds, token : Tokens]
      /\ Answer(kind, x).kind = kind /\ Answer(kind, x).token = x
  BY DEF Answer
<1>2. r.current \in BOOLEAN /\ r.mayRetry \in BOOLEAN
  BY DEF Refreshes
<1>3. NoRefresh \in Refreshes /\ NoRefresh.token = NoToken
  BY NoRefreshType
<1> QED
  BY <1>1, <1>2, <1>3 DEF Replied, Refreshes, Kinds

LEMMA AgedType ==
  ASSUME NEW r \in Refreshes, NEW s \in Sids
  PROVE  /\ Aged(r, s) \in Refreshes
         /\ Aged(r, s).phase = r.phase /\ Aged(r, s).current = r.current
         /\ Aged(r, s).expected = r.expected /\ Aged(r, s).answer.kind = r.answer.kind
         /\ Aged(r, s).token.sid = r.token.sid
         /\ Aged(r, s).answer.token.sid = r.answer.token.sid
<1>1. /\ r.token \in Tokens /\ r.answer.token \in Tokens
      /\ r.answer.kind \in Kinds
  BY DEF Refreshes, Kinds
<1>2. /\ Older(r.token, s) \in Tokens /\ Older(r.token, s).sid = r.token.sid
      /\ Older(r.answer.token, s) \in Tokens
      /\ Older(r.answer.token, s).sid = r.answer.token.sid
  BY <1>1, OlderType
<1> DEFINE a == Answer(r.answer.kind, Older(r.answer.token, s))
<1>3. /\ a \in [kind : Kinds, token : Tokens]
      /\ a.kind = r.answer.kind /\ a.token = Older(r.answer.token, s)
  BY <1>1, <1>2 DEF Answer
<1>4. Aged(r, s) = [r EXCEPT !.token = Older(r.token, s), !.answer = a]
  BY DEF Aged, Refreshes
<1> HIDE DEF a
<1> QED
  BY <1>2, <1>3, <1>4 DEF Refreshes

(* The holder of the lock is answered; no other request is under way.       *)
LEMMA Served ==
  ASSUME IInv, NEW t \in Tabs, NEW kind, NEW x \in Tokens,
         refresh[t].phase = "sent", UNCHANGED <<queue, shows, login>>,
         refresh' \in [Tabs -> Refreshes],
         refresh'[t].phase = "served", refresh'[t].current = refresh[t].current,
         refresh'[t].token = NoToken,
         refresh'[t].answer.kind = kind, refresh'[t].answer.token = x,
         \A u \in Tabs : u # t =>
           /\ refresh'[u].phase = refresh[u].phase /\ refresh'[u].current = refresh[u].current
           /\ refresh'[u].expected = refresh[u].expected
           /\ refresh'[u].answer.kind = refresh[u].answer.kind
           /\ refresh'[u].token.sid = refresh[u].token.sid
           /\ refresh'[u].answer.token.sid = refresh[u].answer.token.sid,
         x.age = 0, Known(x.sid), kind = "ok" => refresh[t].expected \in {0, x.sid},
         KnownStays, LoginInv', cookie'.sid = cookie.sid, Usable(cookie)'
  PROVE  QueueInv' /\ ShowsInv' /\ KnownInv' /\ AgeInv'
<1>1. TypeOK /\ QueueInv /\ ShowsInv /\ KnownInv
  BY DEF IInv
<1>2. queue # <<>> /\ queue[1] = t /\ \A u \in Tabs : u # t => refresh[u].phase \notin {"sent", "served"}
  BY <1>1 DEF QueueInv
<1>3. QueueInv'
  BY <1>1, <1>2, QueueStays
<1>4. ShowsInv'
  <2>1. ASSUME NEW u \in Tabs, refresh'[u].current
        PROVE  /\ refresh'[u].phase # "sent"
               /\ refresh'[u].phase = "served" /\ refresh'[u].answer.kind = "ok" =>
                    shows'[u] \in {0, refresh'[u].answer.token.sid}
    <3>1. CASE u = t
      BY <1>1, <2>1, <3>1 DEF ShowsInv
    <3>2. CASE u # t
      BY <1>2, <2>1, <3>2
    <3> QED
      BY <3>1, <3>2
  <2> QED
    BY <2>1 DEF ShowsInv
<1>5. KnownInv'
  <2>1. Known(cookie.sid)'
    BY <1>1 DEF KnownInv, KnownStays, Known
  <2>2. ASSUME NEW u \in Tabs
        PROVE  Known(refresh[u].token.sid)' /\ Known(refresh[u].answer.token.sid)'
    <3>1. CASE u = t
      BY <3>1, TokenType DEF KnownStays, Known
    <3>2. CASE u # t
      BY <1>1, <2>2, <3>2 DEF KnownInv, KnownStays, Known
    <3> QED
      BY <3>1, <3>2
  <2> QED
    BY <2>1, <2>2 DEF KnownInv, LoginInv
<1>6. AgeInv'
  BY <1>2 DEF AgeInv
<1> QED
  BY <1>3, <1>4, <1>5, <1>6

(* A session ends.                                                          *)
LEMMA SessionEnds ==
  ASSUME IInv, NEW s \in Sids, status[s] = "active",
         status' = [status EXCEPT ![s] = "revoked"],
         grace' \in {grace, [grace EXCEPT ![s] = FALSE]},
         UNCHANGED <<late, login>>
  PROVE  /\ status' \in [Sids -> {"none", "active", "revoked"}] /\ grace' \in [Sids -> BOOLEAN]
         /\ KnownStays /\ UsableStays /\ LoginInv'
<1>1. TypeOK /\ KnownInv
  BY DEF IInv
<1>2. /\ status' \in [Sids -> {"none", "active", "revoked"}]
      /\ status'[s] = "revoked" /\ \A u \in Sids : u # s => status'[u] = status[u]
  BY <1>1 DEF TypeOK
<1>3. grace' \in [Sids -> BOOLEAN] /\ \A u \in Sids : u # s => grace'[u] = grace[u]
  BY <1>1 DEF TypeOK
<1>4. ASSUME NEW u, Known(u) PROVE Known(u)'
  <2>1. CASE u = 0
    BY <2>1 DEF Known
  <2>2. CASE u # 0
    <3>1. status[u] # "none" /\ \A t \in Tabs : login[t] # u
      BY <1>4, <2>2 DEF Known
    <3>2. status'[u] # "none"
      BY <1>1, <3>1 DEF TypeOK
    <3> QED
      BY <3>1, <3>2 DEF Known
  <2> QED
    BY <2>1, <2>2
<1>5. ASSUME NEW x \in Tokens, Usable(x) PROVE Usable(x)'
  <2>1. x.sid \in {0} \cup Sids
    BY DEF Tokens
  <2> QED
    BY <1>2, <1>3, <1>5, <2>1 DEF Usable
<1>6. LoginInv'
  BY <1>1, <1>2 DEF TypeOK, KnownInv, LoginInv
<1> QED
  BY <1>2, <1>3, <1>4, <1>5, <1>6 DEF KnownStays, UsableStays

(* The answers of RefreshAuth, one by one.                                  *)
Refused(t, kind) == refresh' = [refresh EXCEPT ![t] = Replied(@, kind, NoToken)]

LEMMA RefusedStep ==
  ASSUME IInv, NEW t \in Tabs, NEW kind \in {"mismatch", "denied", "unread"},
         refresh[t].phase = "sent", Refused(t, kind),
         UNCHANGED <<cookie, queue, shows, login>>, KnownStays, UsableStays, LoginInv'
  PROVE  /\ QueueInv' /\ ShowsInv' /\ KnownInv' /\ AgeInv'
         /\ refresh' \in [Tabs -> Refreshes]
<1>0. kind \in Kinds
  BY KindsAre
<1>1. TypeOK /\ KnownInv /\ AgeInv /\ refresh[t] \in Refreshes
  BY DEF IInv, TypeOK
<1>2. /\ Replied(refresh[t], kind, NoToken) \in Refreshes
      /\ refresh' = [refresh EXCEPT ![t] = Replied(refresh[t], kind, NoToken)]
  BY <1>0, <1>1, RepliedType, TokenType DEF Refused
<1>3. /\ refresh' \in [Tabs -> Refreshes]
      /\ refresh'[t] = Replied(refresh[t], kind, NoToken)
      /\ \A u \in Tabs : u # t => refresh'[u] = refresh[u]
  BY <1>1, <1>2 DEF TypeOK
<1>4. /\ refresh'[t].phase = "served" /\ refresh'[t].current = refresh[t].current
      /\ refresh'[t].token = NoToken
      /\ refresh'[t].answer.kind = kind /\ refresh'[t].answer.token = NoToken
  <2>1. kind \in Kinds /\ NoToken \in Tokens /\ refresh[t] \in Refreshes
    BY <1>0, <1>1, TokenType
  <2> DEFINE n == Replied(refresh[t], kind, NoToken)
  <2>2. /\ n.phase = "served" /\ n.current = refresh[t].current /\ n.token = NoToken
        /\ n.answer.kind = kind /\ n.answer.token = NoToken
    BY <2>1, RepliedType, SMTT(30)
  <2> HIDE DEF n
  <2>3. refresh'[t] = n
    BY <1>3 DEF n
  <2> QED
    BY <2>2, <2>3
<1>5. Usable(cookie)'
  BY <1>1 DEF TypeOK, KnownInv, AgeInv, UsableStays, Usable
<1>6. Known(NoToken.sid) /\ NoToken \in Tokens /\ NoToken.age = 0
  BY TokenType DEF Known
<1> QED
  BY <1>3, <1>4, <1>5, <1>6, Served

LEMMA RotateStep ==
  ASSUME IInv, NEW t \in Tabs, NEW s \in Sids, refresh[t].phase = "sent",
         refresh[t].token.sid = s, refresh[t].token.age = 0,
         refresh[t].expected \in {0, s}, Rotate(t, s), UNCHANGED <<queue, shows, login, late>>
  PROVE  /\ QueueInv' /\ ShowsInv' /\ KnownInv' /\ AgeInv'
         /\ refresh' \in [Tabs -> Refreshes] /\ logout' \in [Tabs -> Logouts]
         /\ status' = status /\ grace' \in [Sids -> BOOLEAN] /\ cookie' \in Tokens
<1>1. TypeOK /\ KnownInv /\ AgeInv
  BY DEF IInv
<1>2. Token(s, 0) \in Tokens /\ Token(s, 0).sid = s /\ Token(s, 0).age = 0
  BY DEF Token, Tokens
<1>3. /\ refresh'[t] = Replied(refresh[t], "ok", Token(s, 0))
      /\ \A u \in Tabs : u # t => refresh'[u] = Aged(refresh[u], s)
      /\ refresh' = [u \in Tabs |-> refresh'[u]]
  BY DEF Rotate
<1>4. \A u \in Tabs : refresh[u] \in Refreshes
  BY <1>1 DEF TypeOK
<1>5. refresh' \in [Tabs -> Refreshes]
  <2>1. ASSUME NEW u \in Tabs PROVE refresh'[u] \in Refreshes
    <3>1. CASE u = t
      BY <1>2, <1>3, <1>4, <3>1, RepliedType, KindsAre
    <3>2. CASE u # t
      BY <1>3, <1>4, <2>1, <3>2, AgedType
    <3> QED
      BY <3>1, <3>2
  <2> QED
    BY <1>3, <2>1
<1>6. /\ refresh'[t].phase = "served" /\ refresh'[t].current = refresh[t].current
      /\ refresh'[t].token = NoToken
      /\ refresh'[t].answer.kind = "ok" /\ refresh'[t].answer.token = Token(s, 0)
  BY <1>2, <1>3, <1>4, RepliedType, KindsAre
<1>7. ASSUME NEW u \in Tabs, u # t
      PROVE  /\ refresh'[u].phase = refresh[u].phase /\ refresh'[u].current = refresh[u].current
             /\ refresh'[u].expected = refresh[u].expected
             /\ refresh'[u].answer.kind = refresh[u].answer.kind
             /\ refresh'[u].token.sid = refresh[u].token.sid
             /\ refresh'[u].answer.token.sid = refresh[u].answer.token.sid
  BY <1>3, <1>4, <1>7, AgedType
<1>8. status' = status /\ grace' \in [Sids -> BOOLEAN] /\ grace'[s] = TRUE
      /\ \A u \in Sids : u # s => grace'[u] = grace[u]
  BY <1>1 DEF Rotate, TypeOK
<1>9. /\ cookie \in Tokens /\ cookie' = Older(cookie, s) /\ cookie' \in Tokens
      /\ cookie'.sid = cookie.sid
      /\ cookie.sid # s => cookie' = cookie
      /\ cookie.sid = s => cookie'.age = IF cookie.age < 2 THEN cookie.age + 1 ELSE 2
  BY <1>1, OlderType DEF Rotate, TypeOK
<1>10. Usable(cookie)'
  <2>1. CASE cookie.sid = s
    <3>1. cookie.age = 0
      BY <1>1, <2>1, SidsType DEF AgeInv
    <3>2. cookie'.age = 1
      BY <1>9, <2>1, <3>1
    <3> QED
      BY <1>8, <1>9, <2>1, <3>2 DEF Usable
  <2>2. CASE cookie.sid # s
    BY <1>1, <1>8, <1>9, <2>2 DEF AgeInv, Usable, Tokens
  <2> QED
    BY <2>1, <2>2
<1>11. KnownStays /\ LoginInv'
  BY <1>1, <1>8 DEF KnownStays, KnownInv, LoginInv, Known
<1>12. Known(s)
  BY <1>1 DEF KnownInv
<1>13. logout' \in [Tabs -> Logouts]
  <2>1. ASSUME NEW u \in Tabs PROVE [logout[u] EXCEPT !.token = Older(@, s)] \in Logouts
    <3>1. logout[u] \in Logouts /\ logout[u].token \in Tokens
      BY <1>1, <2>1 DEF TypeOK, Logouts
    <3>2. Older(logout[u].token, s) \in Tokens
      BY <3>1, OlderType
    <3> QED
      BY <3>1, <3>2 DEF Logouts
  <2> QED
    BY <2>1 DEF Rotate
<1>14. QueueInv' /\ ShowsInv' /\ KnownInv' /\ AgeInv'
  BY <1>2, <1>5, <1>6, <1>7, <1>9, <1>10, <1>11, <1>12, Served
<1> QED
  BY <1>5, <1>8, <1>9, <1>13, <1>14

LEMMA ReplayStep ==
  ASSUME IInv, NEW t \in Tabs, NEW s \in Sids, refresh[t].phase = "sent",
         refresh[t].token.sid = s, status[s] = "active",
         refresh[t].expected \in {0, s}, Replay(t, s), UNCHANGED <<queue, shows, login, late>>
  PROVE  /\ QueueInv' /\ ShowsInv' /\ KnownInv' /\ AgeInv'
         /\ refresh' \in [Tabs -> Refreshes]
         /\ status' \in [Sids -> {"none", "active", "revoked"}]
<1>1. TypeOK /\ KnownInv /\ AgeInv /\ UNCHANGED <<grace, cookie, logout>>
  BY DEF IInv, Replay
<1>2. CASE grace[s]
  <2>1. /\ refresh' = [refresh EXCEPT ![t] = Replied(refresh[t], "ok", Token(s, 0))]
        /\ status' = status
    BY <1>2 DEF Replay
  <2>2. Token(s, 0) \in Tokens /\ Token(s, 0).sid = s /\ Token(s, 0).age = 0
    BY DEF Token, Tokens
  <2>3. refresh[t] \in Refreshes /\ Replied(refresh[t], "ok", Token(s, 0)) \in Refreshes
    BY <1>1, <2>2, RepliedType, KindsAre DEF TypeOK
  <2>4. /\ refresh' \in [Tabs -> Refreshes]
        /\ refresh'[t] = Replied(refresh[t], "ok", Token(s, 0))
        /\ \A u \in Tabs : u # t => refresh'[u] = refresh[u]
    BY <1>1, <2>1, <2>3 DEF TypeOK
  <2>5. /\ refresh'[t].phase = "served" /\ refresh'[t].current = refresh[t].current
        /\ refresh'[t].token = NoToken
        /\ refresh'[t].answer.kind = "ok" /\ refresh'[t].answer.token = Token(s, 0)
    <3> DEFINE x == Token(s, 0)
           n == Replied(refresh[t], "ok", x)
    <3>1. x \in Tokens
      BY <2>2
    <3> HIDE DEF x
    <3>2. /\ n.phase = "served" /\ n.current = refresh[t].current /\ n.token = NoToken
          /\ n.answer.kind = "ok" /\ n.answer.token = x
      BY <2>3, <3>1, RepliedType, KindsAre, SMTT(30)
    <3> HIDE DEF n
    <3>3. refresh'[t] = n
      BY <2>4 DEF n, x
    <3> QED
      BY <3>2, <3>3 DEF x
  <2>6. Known(s) /\ KnownStays /\ LoginInv' /\ Usable(cookie)'
    BY <1>1, <2>1 DEF KnownInv, LoginInv, AgeInv, KnownStays, Known, Usable
  <2> QED
    <3>1. QueueInv' /\ ShowsInv' /\ KnownInv' /\ AgeInv'
      BY <1>1, <2>2, <2>4, <2>5, <2>6, Served
    <3> QED
      BY <1>1, <2>1, <2>4, <3>1 DEF TypeOK
<1>3. CASE ~grace[s]
  <2>1. Refused(t, "denied") /\ status' = [status EXCEPT ![s] = "revoked"]
    BY <1>3 DEF Replay, Refused
  <2> QED
    BY <1>1, <2>1, SessionEnds, RefusedStep
<1> QED
  BY <1>2, <1>3

LEMMA ServeInv == ASSUME IInv, NEW t \in Tabs, Serve(t) PROVE IInv'
<1> DEFINE s == refresh[t].token.sid
<1>1. /\ TypeOK /\ refresh[t].phase = "sent"
      /\ UNCHANGED <<page, shows, queue, login, inbox, late>>
      /\ upsets' \in 0..MaxUpsets
  BY UpsetType DEF IInv, TypeOK, Serve, history
<1>2. s \in {0} \cup Sids
  BY <1>1 DEF TypeOK, Refreshes, Tokens
<1>3. CASE \E kind \in {"mismatch", "denied", "unread"} :
             Refused(t, kind) /\ UNCHANGED <<serverVars, cookie, logout>>
  <2>1. QueueInv' /\ ShowsInv' /\ KnownInv' /\ AgeInv' /\ refresh' \in [Tabs -> Refreshes]
    BY <1>1, <1>3, ServerIdle, RefusedStep
  <2>2. TypeOK'
    BY <1>1, <1>3, <2>1 DEF TypeOK, serverVars
  <2> QED
    BY <2>1, <2>2 DEF IInv
<1>4. CASE s # 0 /\ ~Mismatch(refresh[t]) /\ refresh[t].token.age = 0 /\ Rotate(t, s)
  <2>1. s \in Sids /\ refresh[t].expected \in {0, s}
    BY <1>2, <1>4 DEF Mismatch
  <2>2. /\ QueueInv' /\ ShowsInv' /\ KnownInv' /\ AgeInv'
        /\ refresh' \in [Tabs -> Refreshes] /\ logout' \in [Tabs -> Logouts]
        /\ status' = status /\ grace' \in [Sids -> BOOLEAN] /\ cookie' \in Tokens
    BY <1>1, <1>4, <2>1, RotateStep DEF history
  <2>3. TypeOK'
    BY <1>1, <2>2 DEF TypeOK, history
  <2> QED
    BY <2>2, <2>3 DEF IInv
<1>5. CASE s # 0 /\ ~Mismatch(refresh[t]) /\ InForce(s) /\ Replay(t, s)
  <2>1. s \in Sids /\ refresh[t].expected \in {0, s} /\ status[s] = "active"
    BY <1>2, <1>5 DEF Mismatch, InForce
  <2>2. /\ QueueInv' /\ ShowsInv' /\ KnownInv' /\ AgeInv'
        /\ refresh' \in [Tabs -> Refreshes]
        /\ status' \in [Sids -> {"none", "active", "revoked"}]
        /\ UNCHANGED <<grace, cookie, logout>>
    BY <1>1, <1>5, <2>1, ReplayStep DEF history, Replay
  <2>3. TypeOK'
    BY <1>1, <2>2 DEF TypeOK, history
  <2> QED
    BY <2>2, <2>3 DEF IInv
<1> QED
  BY <1>3, <1>4, <1>5 DEF Serve, Refused

(* A refresh that was answered settles, with the cookie of its answer.      *)
LEMMA SettledStep ==
  ASSUME IInv, NEW t \in Tabs, NEW outcome, Settle(t, outcome), refresh[t].phase = "served",
         cookie' \in {cookie, NoToken, refresh[t].answer.token},
         shows' \in [Tabs -> {0} \cup Sids], \A u \in Tabs : u # t => shows'[u] = shows[u],
         inbox' \in [Tabs -> Seq(Events)], UNCHANGED <<serverVars, login, history>>
  PROVE  IInv'
<1>1. TypeOK /\ QueueInv /\ KnownInv /\ AgeInv
  BY DEF IInv
<1>2. refresh[t].answer.token \in Tokens
  BY <1>1 DEF TypeOK, Refreshes
<1>3. cookie' \in Tokens
  BY <1>1, <1>2, TokenType DEF TypeOK
<1>4. /\ QueueInv' /\ Calm /\ refresh' = [refresh EXCEPT ![t] = NoRefresh]
      /\ refresh' \in [Tabs -> Refreshes] /\ page' \in [Tabs -> {"loading", "mounted"}]
      /\ queue' \in Seq(Tabs) /\ Len(queue') <= Cardinality(Tabs)
      /\ logout' \in [Tabs -> Logouts]
  BY <1>3, Settled
<1>5. TypeOK'
  BY <1>1, <1>3, <1>4 DEF TypeOK, serverVars, history
<1>6. KnownStays /\ UsableStays /\ LoginInv'
  BY ServerIdle DEF history
<1>7. CookieFits
  <2>1. Known(cookie.sid)'
    <3>1. CASE cookie' = NoToken
      BY <3>1, TokenType DEF Known
    <3>2. CASE cookie' = cookie
      BY <1>1, <1>6, <3>2 DEF KnownInv, KnownStays, Known
    <3>3. CASE cookie' = refresh[t].answer.token
      BY <1>1, <1>6, <3>3 DEF KnownInv, KnownStays, Known
    <3> QED
      BY <3>1, <3>2, <3>3
  <2>2. \A u \in Tabs : refresh'[u].phase # "sent"
    <3>1. \A u \in Tabs : u # t => refresh[u].phase # "sent"
      BY <1>1 DEF QueueInv
    <3>2. refresh'[t] = NoRefresh /\ \A u \in Tabs : u # t => refresh'[u] = refresh[u]
      BY <1>1, <1>4 DEF TypeOK
    <3> QED
      BY <3>1, <3>2, NoRefreshType
  <2>3. cookie' = cookie \/ cookie'.age = 0
    BY <1>1, TokenType DEF AgeInv
  <2> QED
    BY <2>1, <2>2, <2>3 DEF CookieFits
<1> QED
  BY <1>4, <1>5, <1>6, <1>7, CalmStep DEF IInv

LEMMA HandleRefreshInv == ASSUME IInv, NEW t \in Tabs, HandleRefresh(t) PROVE IInv'
<1> DEFINE r == refresh[t]
<1>1. /\ TypeOK /\ QueueInv /\ KnownInv /\ r.phase = "served"
      /\ UNCHANGED <<serverVars, login, history>>
  BY DEF IInv, HandleRefresh
<1>2. /\ r.answer.kind \in Kinds
      /\ r.answer.token \in Tokens
  BY <1>1 DEF TypeOK, Refreshes, Kinds
<1>3. /\ r.answer.kind = "ok" => cookie' = r.answer.token
      /\ r.answer.kind \in Refusals => cookie' = NoToken
      /\ r.answer.kind \in {"none", "mismatch"} => cookie' = cookie
  BY DEF HandleRefresh, Refusals
<1>4. cookie' \in {cookie, NoToken, r.answer.token}
  BY <1>2, <1>3 DEF Kinds, Refusals
<1>5. CASE Settle(t, "transient_error") /\ UNCHANGED <<shows, inbox>>
  BY <1>1, <1>4, <1>5, SettledStep DEF TypeOK
<1>6. CASE /\ r.answer.kind = "ok" /\ shows' = [shows EXCEPT ![t] = r.answer.token.sid]
           /\ Settle(t, "authenticated") /\ UNCHANGED inbox
  <2>1. /\ shows' \in [Tabs -> {0} \cup Sids] /\ \A u \in Tabs : u # t => shows'[u] = shows[u]
        /\ inbox' \in [Tabs -> Seq(Events)]
    BY <1>1, <1>2, <1>6 DEF TypeOK, Tokens
  <2> QED
    BY <1>1, <1>4, <1>6, <2>1, SettledStep
<1>7. CASE Clear(t) /\ Settle(t, "anonymous") /\ inbox' = Published(t, "signed_out", shows[t])
  <2>1. /\ shows' \in [Tabs -> {0} \cup Sids] /\ \A u \in Tabs : u # t => shows'[u] = shows[u]
    BY <1>1, <1>7 DEF TypeOK, Clear
  <2>2. inbox' \in [Tabs -> Seq(Events)]
    BY <1>1, <1>7, PublishedType DEF TypeOK
  <2> QED
    BY <1>1, <1>4, <1>7, <2>1, <2>2, SettledStep
<1>8. CASE /\ r.answer.kind = "mismatch" /\ Clear(t)
           /\ refresh' = [refresh EXCEPT ![t] = [NoRefresh EXCEPT
                            !.phase = "sent", !.current = TRUE, !.token = cookie]]
           /\ UNCHANGED <<queue, page, logout, inbox>>
  <2> DEFINE n == [NoRefresh EXCEPT !.phase = "sent", !.current = TRUE, !.token = cookie]
  <2>1. /\ n \in Refreshes /\ n.phase = "sent" /\ n.token = cookie
        /\ n.answer = NoAnswer /\ n.expected = 0
    <3>1. cookie \in Tokens
      BY <1>1 DEF TypeOK
    <3> QED
      BY <3>1, NoRefreshType DEF Refreshes, NoRefresh
  <2>2. refresh' = [refresh EXCEPT ![t] = n]
    BY <1>8
  <2> HIDE DEF n
  <2>3. /\ shows' \in [Tabs -> {0} \cup Sids] /\ shows'[t] = 0
        /\ \A u \in Tabs : u # t => shows'[u] = shows[u]
    BY <1>1, <1>8 DEF TypeOK, Clear
  <2>4. Known(n.answer.token.sid)
    BY <2>1, NoRefreshType, TokenType DEF Known
  <2>5. queue # <<>> /\ queue[1] = t
    BY <1>1 DEF QueueInv
  <2>6. QueueInv' /\ ShowsInv' /\ KnownInv' /\ AgeInv' /\ refresh' \in [Tabs -> Refreshes]
    BY <1>1, <1>3, <1>8, <2>1, <2>2, <2>3, <2>4, <2>5, Sent DEF history
  <2>7. TypeOK'
    BY <1>1, <1>3, <1>8, <2>3, <2>6 DEF TypeOK, serverVars, history
  <2> QED
    BY <2>6, <2>7 DEF IInv
<1> QED
  BY <1>5, <1>6, <1>7, <1>8 DEF HandleRefresh

LEMMA LoginInvStep == ASSUME IInv, NEW t \in Tabs, Login(t) PROVE IInv'
<1>1. /\ TypeOK /\ QueueInv /\ KnownInv /\ login[t] = 0
      /\ UNCHANGED <<grace, cookie, page, shows, refresh, queue, logout, inbox, history>>
  BY DEF IInv, Login
<1>2. PICK s \in Sids : /\ status[s] = "none" /\ status' = [status EXCEPT ![s] = "active"]
                        /\ login' = [login EXCEPT ![t] = s]
  BY DEF Login
<1>3. /\ status' \in [Sids -> {"none", "active", "revoked"}] /\ status'[s] = "active"
      /\ \A u \in Sids : u # s => status'[u] = status[u]
      /\ login' \in [Tabs -> {0} \cup Sids] /\ login'[t] = s
      /\ \A u \in Tabs : u # t => login'[u] = login[u]
  BY <1>1, <1>2 DEF TypeOK
<1>4. TypeOK'
  BY <1>1, <1>3 DEF TypeOK, history
<1>5. QueueInv' /\ Calm
  BY <1>1 DEF QueueInv, InQueue, Calm, Same
<1>6. ASSUME NEW u, Known(u) PROVE Known(u)'
  <2>1. CASE u = 0
    BY <2>1 DEF Known
  <2>2. CASE u # 0
    <3>1. status[u] # "none" /\ u # s /\ \A v \in Tabs : login[v] # u
      BY <1>2, <1>6, <2>2 DEF Known
    <3>2. status'[u] = status[u] /\ \A v \in Tabs : login'[v] # u
      BY <1>1, <1>2, <1>3, <3>1 DEF TypeOK
    <3> QED
      BY <3>1, <3>2 DEF Known
  <2> QED
    BY <2>1, <2>2
<1>7. ASSUME NEW x \in Tokens, Known(x.sid), Usable(x) PROVE Usable(x)'
  <2>1. x.sid # 0 => x.sid \in Sids /\ x.sid # s
    BY <1>2, <1>7, SidsType DEF Known, Tokens
  <2> QED
    BY <1>1, <1>3, <1>7, <2>1 DEF Usable, history
<1>8. LoginInv'
  <2>1. \A u \in Tabs : login[u] # s
    <3> SUFFICES ASSUME NEW u \in Tabs, login[u] = s PROVE FALSE
      OBVIOUS
    <3>1. login[u] # 0
      BY SidsType
    <3> QED
      BY <1>1, <1>2, <3>1 DEF KnownInv
  <2>2. ASSUME NEW u \in Tabs, login'[u] # 0
        PROVE  status'[login'[u]] # "none" /\ \A v \in Tabs : login'[v] = login'[u] => v = u
    <3>1. CASE u = t
      BY <1>3, <2>1, <2>2, <3>1
    <3>2. CASE u # t
      <4>1. login'[u] = login[u] /\ login[u] \in Sids /\ login[u] # s
        BY <1>1, <1>3, <2>1, <2>2, <3>2 DEF TypeOK
      <4>2. status[login[u]] # "none" /\ \A v \in Tabs : login[v] = login[u] => v = u
        BY <1>1, <2>2, <4>1 DEF KnownInv
      <4> QED
        BY <1>3, <4>1, <4>2
    <3> QED
      BY <3>1, <3>2
  <2> QED
    BY <2>2 DEF LoginInv
<1>9. KnownStays /\ UsableStays
  BY <1>6, <1>7 DEF KnownStays, UsableStays
<1> QED
  BY <1>1, <1>4, <1>5, <1>8, <1>9, CookieStays, CalmStep DEF IInv

(* A sign-in is over: its session is known.                                 *)
LEMMA LoginEnds ==
  ASSUME IInv, NEW t \in Tabs, login' = [login EXCEPT ![t] = 0],
         UNCHANGED <<serverVars, late>>
  PROVE  /\ login' \in [Tabs -> {0} \cup Sids] /\ KnownStays /\ UsableStays /\ LoginInv'
         /\ login[t] # 0 => status'[login[t]] # "none" /\ \A u \in Tabs : login'[u] # login[t]
<1>1. TypeOK /\ KnownInv
  BY DEF IInv
<1>2. /\ login' \in [Tabs -> {0} \cup Sids] /\ login'[t] = 0
      /\ \A u \in Tabs : u # t => login'[u] = login[u]
  BY <1>1 DEF TypeOK
<1>3. ASSUME NEW u, Known(u) PROVE Known(u)'
  BY <1>2, <1>3 DEF Known, serverVars
<1>4. UsableStays
  BY DEF UsableStays, Usable, serverVars
<1>5. LoginInv'
  BY <1>1, <1>2 DEF KnownInv, LoginInv, serverVars
<1>6. ASSUME login[t] # 0 PROVE status'[login[t]] # "none" /\ \A u \in Tabs : login'[u] # login[t]
  BY <1>1, <1>2, <1>6 DEF KnownInv, serverVars
<1> QED
  BY <1>2, <1>3, <1>4, <1>5, <1>6 DEF KnownStays

LEMMA HandleLoginInv == ASSUME IInv, NEW t \in Tabs, HandleLogin(t) PROVE IInv'
<1>1. /\ TypeOK /\ QueueInv /\ KnownInv /\ login[t] # 0
      /\ cookie' = Token(login[t], 0) /\ shows' = [shows EXCEPT ![t] = login[t]]
      /\ login' = [login EXCEPT ![t] = 0] /\ refresh' = Superseded(t)
      /\ inbox' = Published(t, "authenticated", login[t])
      /\ UNCHANGED <<serverVars, page, queue, logout, history>>
  BY DEF IInv, HandleLogin
<1>2. login[t] \in Sids
  BY <1>1 DEF TypeOK
<1>3. cookie' \in Tokens /\ cookie'.sid = login[t] /\ cookie'.age = 0
  BY <1>1, <1>2 DEF Token, Tokens
<1>4. /\ login' \in [Tabs -> {0} \cup Sids] /\ KnownStays /\ UsableStays /\ LoginInv'
      /\ status'[login[t]] # "none" /\ \A u \in Tabs : login'[u] # login[t]
  BY <1>1, LoginEnds DEF history
<1>5. /\ refresh' \in [Tabs -> Refreshes]
      /\ \A u \in Tabs : Dulled(u) /\ (refresh'[u].current => u # t)
  BY <1>1, SupersededType
<1>6. QueueInv' /\ Calm
  <2>1. QueueInv'
    BY <1>1, <1>5, QueueStays DEF Dulled
  <2>2. \A u \in Tabs : refresh'[u].current => shows'[u] = shows[u]
    BY <1>1, <1>5 DEF TypeOK
  <2> QED
    BY <1>5, <2>1, <2>2 DEF Calm, Same, Dulled
<1>7. TypeOK'
  <2>1. inbox' \in [Tabs -> Seq(Events)]
    BY <1>1, <1>2, PublishedType
  <2>2. shows' \in [Tabs -> {0} \cup Sids]
    BY <1>1, <1>2 DEF TypeOK
  <2> QED
    BY <1>1, <1>3, <1>4, <1>5, <2>1, <2>2 DEF TypeOK, serverVars, history
<1>8. CookieFits
  <2>1. \A u \in Tabs : refresh'[u].token.sid # login[t]
    BY <1>1, <1>5 DEF KnownInv, Known, Dulled
  <2> QED
    BY <1>3, <1>4, <2>1 DEF CookieFits, Known
<1> QED
  BY <1>4, <1>6, <1>7, <1>8, CalmStep DEF IInv

LEMMA LoseLoginInv == ASSUME IInv, NEW t \in Tabs, LoseLogin(t) PROVE IInv'
<1>1. /\ TypeOK /\ QueueInv /\ Upset /\ login' = [login EXCEPT ![t] = 0]
      /\ UNCHANGED <<serverVars, cookie, page, shows, refresh, queue, logout, inbox, late>>
  BY DEF IInv, LoseLogin
<1>2. login' \in [Tabs -> {0} \cup Sids] /\ KnownStays /\ UsableStays /\ LoginInv'
  BY <1>1, LoginEnds
<1>3. TypeOK'
  BY <1>1, <1>2, UpsetType DEF TypeOK, serverVars
<1>4. QueueInv' /\ Calm
  BY <1>1 DEF QueueInv, InQueue, Calm, Same
<1> QED
  BY <1>1, <1>2, <1>3, <1>4, CookieStays, CalmStep DEF IInv

(* Nothing but a logout changes, or the server ends a session as well.      *)
LEMMA OnlyLogout ==
  ASSUME IInv, logout' \in [Tabs -> Logouts], upsets' \in 0..MaxUpsets,
         \/ UNCHANGED serverVars
         \/ \E s \in Sids : Revoked(s),
         UNCHANGED <<cookie, page, shows, refresh, queue, login, inbox, late>>
  PROVE  IInv'
<1>1. TypeOK /\ QueueInv
  BY DEF IInv
<1>2. /\ status' \in [Sids -> {"none", "active", "revoked"}] /\ grace' \in [Sids -> BOOLEAN]
      /\ KnownStays /\ UsableStays /\ LoginInv'
  <2>1. CASE UNCHANGED serverVars
    <3>1. KnownStays /\ UsableStays /\ LoginInv'
      BY <2>1, ServerIdle
    <3> QED
      BY <1>1, <2>1, <3>1 DEF serverVars, TypeOK
  <2>2. ASSUME NEW s \in Sids, Revoked(s), ~UNCHANGED serverVars
        PROVE  /\ status[s] = "active" /\ status' = [status EXCEPT ![s] = "revoked"]
               /\ grace' = [grace EXCEPT ![s] = FALSE]
    BY <2>2, Zenon DEF Revoked
  <2> QED
    BY <2>1, <2>2, SessionEnds
<1>3. TypeOK'
  BY <1>1, <1>2 DEF TypeOK
<1>4. QueueInv' /\ Calm
  BY <1>1 DEF QueueInv, InQueue, Calm, Same
<1> QED
  BY <1>2, <1>3, <1>4, CookieStays, CalmStep DEF IInv

LEMMA LogoutInv == ASSUME IInv, NEW t \in Tabs, Logout(t) PROVE IInv'
<1>1. /\ TypeOK /\ Upset /\ logout' = [logout EXCEPT ![t] = LogoutRequest(shows[t], cookie, TRUE)]
      /\ UNCHANGED <<serverVars, cookie, page, shows, refresh, queue, login, inbox, late>>
  BY DEF IInv, Logout
<1>2. LogoutRequest(shows[t], cookie, TRUE) \in Logouts
  BY <1>1, LogoutRequestType DEF TypeOK
<1>3. logout' \in [Tabs -> Logouts] /\ upsets' \in 0..MaxUpsets
  BY <1>1, <1>2, UpsetType DEF TypeOK
<1> QED
  BY <1>1, <1>3, OnlyLogout

LEMMA LoseLogoutInv == ASSUME IInv, NEW t \in Tabs, LoseLogout(t) PROVE IInv'
<1>1. /\ TypeOK /\ logout' = [logout EXCEPT ![t] = NoLogout]
      /\ UNCHANGED <<serverVars, cookie, page, shows, refresh, queue, login, inbox, history>>
  BY DEF IInv, LoseLogout
<1>2. logout' \in [Tabs -> Logouts] /\ upsets' \in 0..MaxUpsets
  BY <1>1, NoLogoutType DEF TypeOK, history
<1> QED
  BY <1>1, <1>2, OnlyLogout DEF history

LEMMA ServeLogoutInv == ASSUME IInv, NEW t \in Tabs, ServeLogout(t) PROVE IInv'
<1> DEFINE l == logout[t]
           s == l.token.sid
           Told(kind) == logout' = [logout EXCEPT ![t] = [NoLogout EXCEPT
                           !.phase = "served", !.mayRecover = l.mayRecover, !.answer = kind]]
<1>1. /\ TypeOK /\ l \in Logouts
      /\ UNCHANGED <<cookie, page, shows, refresh, queue, login, inbox, history>>
  BY DEF IInv, TypeOK, ServeLogout
<1>2. l.expected \in {0} \cup Sids /\ s \in {0} \cup Sids /\ l.mayRecover \in BOOLEAN
  BY <1>1 DEF Logouts, Tokens
<1>3. \E kind \in {"cleared", "kept", "mismatch"} : Told(kind)
  BY Zenon DEF ServeLogout
<1>4. logout' \in [Tabs -> Logouts]
  <2>1. PICK kind \in {"cleared", "kept", "mismatch"} : Told(kind)
    BY <1>3
  <2>2. [NoLogout EXCEPT !.phase = "served", !.mayRecover = l.mayRecover,
                         !.answer = kind] \in Logouts
    BY <1>2, NoLogoutType DEF Logouts
  <2> QED
    BY <1>1, <2>1, <2>2 DEF TypeOK
<1>5. UNCHANGED serverVars \/ Revoked(l.expected) \/ (s # 0 /\ Revoked(s))
  BY Zenon DEF ServeLogout
<1>6. UNCHANGED serverVars \/ \E u \in Sids : Revoked(u)
  <2>1. ASSUME Revoked(0) PROVE UNCHANGED serverVars
    <3>1. /\ status = [u \in Sids |-> status[u]] /\ grace = [u \in Sids |-> grace[u]]
          /\ 0 \notin Sids
      BY <1>1, SidsType DEF TypeOK
    <3>2. /\ [status EXCEPT ![0] = "revoked"] = status /\ [grace EXCEPT ![0] = FALSE] = grace
      BY <3>1
    <3>3. \/ UNCHANGED <<status, grace>>
          \/ /\ status' = [status EXCEPT ![0] = "revoked"]
             /\ grace' = [grace EXCEPT ![0] = FALSE]
      BY <2>1, Zenon DEF Revoked, serverVars
    <3> QED
      BY <3>2, <3>3 DEF serverVars
  <2> QED
    BY <1>2, <1>5, <2>1
<1> QED
  BY <1>1, <1>4, <1>6, OnlyLogout DEF TypeOK, history

LEMMA RevokeInv == ASSUME IInv, NEW s \in Sids, Revoke(s) PROVE IInv'
<1>1. /\ TypeOK /\ Revoked(s) /\ Upset
      /\ UNCHANGED <<cookie, page, shows, refresh, queue, login, logout, inbox, late>>
  BY DEF IInv, Revoke
<1>2. logout' \in [Tabs -> Logouts] /\ upsets' \in 0..MaxUpsets
  BY <1>1, UpsetType DEF TypeOK
<1> QED
  BY <1>1, <1>2, OnlyLogout

LEMMA HandleLogoutInv == ASSUME IInv, NEW t \in Tabs, HandleLogout(t) PROVE IInv'
<1>1. /\ TypeOK /\ QueueInv /\ cookie' \in {cookie, NoToken}
      /\ UNCHANGED <<serverVars, page, login, history>>
  BY DEF IInv, HandleLogout
<1>2. cookie' \in Tokens
  BY <1>1, TokenType DEF TypeOK
<1>3. KnownStays /\ UsableStays /\ LoginInv'
  BY <1>1, ServerIdle DEF history
<1>4. CookieFits
  BY <1>1, <1>3, CookieStays, CookieCleared
<1>5. logout' \in [Tabs -> Logouts]
  <2>1. [NoLogout EXCEPT !.phase = "refreshing"] \in Logouts
    BY NoLogoutType DEF Logouts
  <2> QED
    BY <1>1, <2>1, NoLogoutType DEF HandleLogout, TypeOK
<1>6. CASE /\ Clear(t) /\ inbox' = Published(t, "signed_out", shows[t])
           /\ refresh' = Superseded(t) /\ UNCHANGED queue
  <2>1. /\ refresh' \in [Tabs -> Refreshes]
        /\ \A u \in Tabs : Dulled(u) /\ (refresh'[u].current => u # t)
    BY <1>1, <1>6, SupersededType
  <2>2. /\ shows' \in [Tabs -> {0} \cup Sids] /\ \A u \in Tabs : u # t => shows'[u] = shows[u]
    BY <1>1, <1>6 DEF TypeOK, Clear
  <2>3. inbox' \in [Tabs -> Seq(Events)]
    <3>1. shows[t] \in {0} \cup Sids
      BY <1>1 DEF TypeOK
    <3> QED
      BY <1>1, <1>6, <3>1, PublishedType
  <2>4. QueueInv' /\ Calm
    <3>1. QueueInv'
      BY <1>1, <1>6, <2>1, QueueStays DEF Dulled
    <3> QED
      BY <2>1, <2>2, <3>1 DEF Calm, Same, Dulled
  <2>5. TypeOK'
    BY <1>1, <1>2, <1>5, <1>6, <2>1, <2>2, <2>3 DEF TypeOK, serverVars, history
  <2> QED
    BY <1>3, <1>4, <2>4, <2>5, CalmStep DEF IInv
<1>7. CASE JoinRefresh(t) /\ UNCHANGED <<shows, inbox>>
  <2>1. /\ QueueInv' /\ refresh' \in [Tabs -> Refreshes]
        /\ queue' \in Seq(Tabs) /\ Len(queue') <= Cardinality(Tabs)
        /\ \A u \in Tabs : \/ refresh'[u] = refresh[u]
                           \/ /\ refresh'[u].phase = "queued"
                              /\ refresh'[u].token = NoToken /\ refresh'[u].answer = NoAnswer
    BY <1>1, <1>7, Joined
  <2>2. TypeOK'
    BY <1>1, <1>2, <1>5, <1>7, <2>1 DEF TypeOK, serverVars, history
  <2>3. Calm
    BY <1>7, <2>1 DEF Calm, Silent, Same
  <2> QED
    BY <1>3, <1>4, <2>1, <2>2, <2>3, CalmStep DEF IInv
<1>8. CASE UNCHANGED <<shows, inbox, refresh, queue>>
  <2>1. TypeOK'
    BY <1>1, <1>2, <1>5, <1>8 DEF TypeOK, serverVars, history
  <2>2. QueueInv' /\ Calm
    BY <1>1, <1>8 DEF QueueInv, InQueue, Calm, Same
  <2> QED
    BY <1>3, <1>4, <2>1, <2>2, CalmStep DEF IInv
<1> QED
  BY <1>6, <1>7, <1>8 DEF HandleLogout

LEMMA PageReloadsStep ==
  ASSUME IInv, NEW t \in Tabs, PageReloads(t), upsets' \in 0..MaxUpsets,
         UNCHANGED <<serverVars, cookie, late>>
  PROVE  IInv'
<1>1. TypeOK /\ QueueInv
  BY DEF IInv
<1>2. /\ refresh' = [refresh EXCEPT ![t] = NoRefresh] /\ queue' = Without(t)
      /\ login' = [login EXCEPT ![t] = 0]
  BY DEF PageReloads
<1>3. /\ QueueInv' /\ refresh' \in [Tabs -> Refreshes]
      /\ queue' \in Seq(Tabs) /\ Len(queue') <= Cardinality(Tabs)
  BY <1>1, <1>2, Dropped
<1>4. login' \in [Tabs -> {0} \cup Sids] /\ KnownStays /\ UsableStays /\ LoginInv'
  BY <1>2, LoginEnds
<1>5. Calm
  <2>1. refresh'[t] = NoRefresh /\ \A u \in Tabs : u # t => refresh'[u] = refresh[u] /\ shows'[u] = shows[u]
    BY <1>1, <1>2 DEF TypeOK, PageReloads, Clear
  <2> QED
    BY <2>1, NoRefreshType DEF Calm, Silent, Same
<1>6. TypeOK'
  <2>1. page' \in [Tabs -> {"loading", "mounted"}] /\ shows' \in [Tabs -> {0} \cup Sids]
    BY <1>1 DEF TypeOK, PageReloads, Clear
  <2>2. logout' \in [Tabs -> Logouts]
    BY <1>1, NoLogoutType DEF TypeOK, PageReloads
  <2>3. inbox' \in [Tabs -> Seq(Events)]
    <3>1. <<>> \in Seq(Events)
      OBVIOUS
    <3> QED
      BY <1>1, <3>1 DEF TypeOK, PageReloads
  <2> QED
    BY <1>1, <1>3, <1>4, <2>1, <2>2, <2>3 DEF TypeOK, serverVars
<1> QED
  BY <1>3, <1>4, <1>5, <1>6, CookieStays, CalmStep DEF IInv

LEMMA ReloadInv == ASSUME IInv, NEW t \in Tabs, Reload(t) PROVE IInv'
<1>1. PageReloads(t) /\ Upset /\ UNCHANGED <<serverVars, cookie, late>> /\ TypeOK
  BY DEF Reload, IInv
<1> QED
  BY <1>1, UpsetType, PageReloadsStep

LEMMA HandleEventInv == ASSUME IInv, NEW t \in Tabs, HandleEvent(t) PROVE IInv'
<1>1. /\ TypeOK /\ QueueInv /\ inbox[t] # <<>> /\ UNCHANGED <<serverVars, cookie, history>>
  BY DEF IInv, HandleEvent
<1>2. CASE PageReloads(t)
  BY <1>1, <1>2, PageReloadsStep DEF history, TypeOK
<1>3. CASE /\ inbox' = [inbox EXCEPT ![t] = Tail(inbox[t])]
           /\ \/ Clear(t) /\ refresh' = Superseded(t)
              \/ UNCHANGED <<shows, refresh>>
           /\ UNCHANGED <<page, queue, login, logout>>
  <2>1. inbox' \in [Tabs -> Seq(Events)]
    <3>1. Tail(inbox[t]) \in Seq(Events)
      BY <1>1 DEF TypeOK
    <3> QED
      BY <1>1, <1>3, <3>1 DEF TypeOK
  <2>2. KnownStays /\ UsableStays /\ LoginInv'
    BY <1>1, <1>3, ServerIdle DEF history
  <2>3. /\ refresh' \in [Tabs -> Refreshes] /\ \A u \in Tabs : Dulled(u)
        /\ shows' \in [Tabs -> {0} \cup Sids]
        /\ \A u \in Tabs : refresh'[u].current => shows'[u] = shows[u]
    <3>1. CASE Clear(t) /\ refresh' = Superseded(t)
      <4>1. /\ refresh' \in [Tabs -> Refreshes]
            /\ \A u \in Tabs : Dulled(u) /\ (refresh'[u].current => u # t)
        BY <1>1, <3>1, SupersededType
      <4> QED
        BY <1>1, <3>1, <4>1 DEF TypeOK, Clear
    <3>2. CASE UNCHANGED <<shows, refresh>>
      BY <1>1, <3>2 DEF TypeOK, Dulled
    <3> QED
      BY <1>3, <3>1, <3>2
  <2>4. QueueInv' /\ Calm
    <3>1. QueueInv'
      BY <1>1, <1>3, <2>3, QueueStays DEF Dulled
    <3> QED
      BY <2>3, <3>1 DEF Calm, Same, Dulled
  <2>5. TypeOK'
    BY <1>1, <1>3, <2>1, <2>3 DEF TypeOK, serverVars, history
  <2> QED
    BY <1>1, <2>2, <2>4, <2>5, CookieStays, CalmStep DEF IInv
<1> QED
  BY <1>2, <1>3 DEF HandleEvent

LEMMA GraceEndsInv == ASSUME IInv, NEW s \in Sids, GraceEnds(s) PROVE IInv'
<1>1. /\ TypeOK /\ QueueInv /\ ShowsInv /\ KnownInv /\ AgeInv
      /\ grace' = [grace EXCEPT ![s] = FALSE]
      /\ late' = late \cup {x \in {s} : \E c \in Copies(s) : c.age # 0}
      /\ UNCHANGED <<status, cookie, page, shows, refresh, queue, login, logout, inbox, upsets>>
  BY DEF IInv, GraceEnds
<1>2. /\ grace' \in [Sids -> BOOLEAN] /\ \A u \in Sids : u # s => grace'[u] = grace[u]
      /\ late' \subseteq Sids /\ late \subseteq late'
      /\ \A c \in Copies(s) : c.age # 0 => s \in late'
  BY <1>1 DEF TypeOK
<1>3. ASSUME NEW x \in Tokens, x.sid = s => x \in Copies(s), Usable(x) PROVE Usable(x)'
  <2>1. CASE x.sid = s
    BY <1>1, <1>2, <1>3, <2>1 DEF Usable
  <2>2. CASE x.sid # s
    <3>1. x.sid \in {0} \cup Sids
      BY DEF Tokens
    <3> QED
      BY <1>1, <1>2, <1>3, <2>2, <3>1 DEF Usable
  <2> QED
    BY <2>1, <2>2
<1>4. AgeInv'
  <2>1. Usable(cookie)'
    <3>1. cookie \in Tokens /\ (cookie.sid = s => cookie \in Copies(s)) /\ Usable(cookie)
      BY <1>1 DEF TypeOK, Copies, AgeInv
    <3> QED
      BY <1>1, <1>3, <3>1 DEF Usable
  <2>2. ASSUME NEW t \in Tabs, refresh[t].phase = "sent" PROVE Usable(refresh[t].token)'
    <3> DEFINE x == refresh[t].token
    <3>1. x \in Tokens /\ (x.sid = s => x \in Copies(s)) /\ Usable(x)
      BY <1>1, <2>2 DEF TypeOK, Refreshes, Copies, AgeInv
    <3> QED
      BY <1>1, <1>3, <3>1 DEF Usable
  <2> QED
    BY <1>1, <2>1, <2>2 DEF AgeInv
<1>5. TypeOK'
  BY <1>1, <1>2 DEF TypeOK
<1>6. QueueInv' /\ ShowsInv' /\ KnownInv'
  BY <1>1 DEF QueueInv, InQueue, ShowsInv, KnownInv, Known
<1> QED
  BY <1>4, <1>5, <1>6 DEF IInv
-----------------------------------------------------------------------------
(* The theorems                                                             *)

LEMMA NextInv == ASSUME IInv, [Next]_vars PROVE IInv'
<1>1. CASE UNCHANGED vars
  BY <1>1 DEF vars, serverVars, history, IInv, TypeOK, QueueInv, InQueue, ShowsInv,
              KnownInv, Known, AgeInv, Usable
<1>2. ASSUME NEW t \in Tabs, Refresh(t) \/ Denied(t) PROVE IInv'
  BY <1>2, RefreshInv DEF Denied
<1>3. ASSUME NEW t \in Tabs,
             Granted(t) \/ Serve(t) \/ HandleRefresh(t) \/ LoseRefresh(t)
      PROVE  IInv'
  BY <1>3, GrantedInv, ServeInv, HandleRefreshInv, LoseRefreshInv
<1>4. ASSUME NEW t \in Tabs, Login(t) \/ HandleLogin(t) \/ LoseLogin(t) PROVE IInv'
  BY <1>4, LoginInvStep, HandleLoginInv, LoseLoginInv
<1>5. ASSUME NEW t \in Tabs,
             Logout(t) \/ ServeLogout(t) \/ HandleLogout(t) \/ LoseLogout(t)
      PROVE  IInv'
  BY <1>5, LogoutInv, ServeLogoutInv, HandleLogoutInv, LoseLogoutInv
<1>6. ASSUME NEW t \in Tabs, Reload(t) \/ HandleEvent(t) PROVE IInv'
  BY <1>6, ReloadInv, HandleEventInv
<1>7. ASSUME NEW s \in Sids, Revoke(s) \/ GraceEnds(s) PROVE IInv'
  BY <1>7, RevokeInv, GraceEndsInv
<1> QED
  BY <1>1, <1>2, <1>3, <1>4, <1>5, <1>6, <1>7 DEF Next

(* The strengthened invariant holds in every reachable state.               *)
THEOREM Inductive == Spec => []IInv
BY InitInv, NextInv, PTL DEF Spec

(* Type correctness of the server's, the browser's and the tabs' states.    *)
THEOREM TypeCorrect == Spec => []TypeOK
<1>1. IInv => TypeOK
  BY DEF IInv
<1> QED
  BY <1>1, Inductive, PTL

(* The browser's cookie for a session in force is never two rotations       *)
(* behind, for any number of tabs that refresh in turn, reload or sign out. *)
THEOREM CookieUsable == Spec => []CookieStaysUsable
<1>1. IInv => CookieStaysUsable
  BY DEF IInv, AgeInv, Usable, CookieStaysUsable
<1> QED
  BY <1>1, Inductive, PTL

(* What a tab shows is replaced by another session only by its own sign-in. *)
LEMMA SwitchStep ==
  ASSUME IInv, [Next]_vars, NEW t \in Tabs, shows[t] # 0
  PROVE  shows'[t] \in {0, shows[t]} \/ shows'[t] = login[t]
<1>1. TypeOK /\ ShowsInv
  BY DEF IInv
<1>2. CASE UNCHANGED shows
  BY <1>2
<1>3. ASSUME NEW u \in Tabs, Clear(u) \/ PageReloads(u) PROVE shows'[t] \in {0, shows[t]}
  BY <1>1, <1>3 DEF Clear, PageReloads, TypeOK
<1>4. ASSUME NEW u \in Tabs, HandleRefresh(u) PROVE shows'[t] \in {0, shows[t]}
  <2>1. CASE UNCHANGED shows
    BY <2>1
  <2>2. CASE Clear(u)
    BY <1>3, <2>2
  <2>3. CASE /\ refresh[u].current /\ refresh[u].phase = "served"
             /\ refresh[u].answer.kind = "ok"
             /\ shows' = [shows EXCEPT ![u] = refresh[u].answer.token.sid]
    <3>1. CASE u = t
      BY <1>1, <2>3, <3>1 DEF ShowsInv, TypeOK
    <3>2. CASE u # t
      BY <1>1, <2>3, <3>2 DEF TypeOK
    <3> QED
      BY <3>1, <3>2
  <2> QED
    BY <1>4, <2>1, <2>2, <2>3 DEF HandleRefresh
<1>5. ASSUME NEW u \in Tabs, HandleLogin(u)
      PROVE  shows'[t] \in {0, shows[t]} \/ shows'[t] = login[t]
  <2>1. shows' = [shows EXCEPT ![u] = login[u]]
    BY <1>5 DEF HandleLogin
  <2> QED
    BY <1>1, <2>1 DEF TypeOK
<1>6. ASSUME NEW u \in Tabs, HandleLogout(u) \/ HandleEvent(u) PROVE shows'[t] \in {0, shows[t]}
  <2>1. Clear(u) \/ PageReloads(u) \/ UNCHANGED shows
    BY <1>6 DEF HandleLogout, HandleEvent
  <2> QED
    BY <1>3, <2>1
<1>7. ASSUME NEW u \in Tabs, Reload(u) PROVE shows'[t] \in {0, shows[t]}
  BY <1>3, <1>7 DEF Reload
<1>8. ASSUME NEW u \in Tabs,
             \/ Refresh(u) \/ Denied(u) \/ Granted(u) \/ Serve(u) \/ LoseRefresh(u)
             \/ Login(u) \/ LoseLogin(u) \/ Logout(u) \/ ServeLogout(u) \/ LoseLogout(u)
      PROVE  UNCHANGED shows
  BY <1>8 DEF Denied, Refresh, Granted, Serve, LoseRefresh, Login, LoseLogin, Logout,
              ServeLogout, LoseLogout
<1>9. ASSUME NEW s \in Sids, Revoke(s) \/ GraceEnds(s) PROVE UNCHANGED shows
  BY <1>9 DEF Revoke, GraceEnds
<1> QED
  BY <1>2, <1>4, <1>5, <1>6, <1>7, <1>8, <1>9 DEF Next, vars

(* No refresh, whenever it was sent and answered, shows a tab another       *)
(* session than the one it shows.                                           *)
THEOREM NoSwitch == Spec => SwitchOnlyByLogin
<1>1. ASSUME IInv, [Next]_vars
      PROVE  [\A t \in Tabs : shows[t] # 0 => \/ shows'[t] \in {0, shows[t]}
                                             \/ shows'[t] = login[t]]_vars
  BY <1>1, SwitchStep
<1> QED
  BY <1>1, Inductive, PTL DEF Spec, SwitchOnlyByLogin

(* Only the server answers a request.                                       *)
LEMMA Answered ==
  ASSUME IInv, Next, NEW t \in Tabs,
         refresh[t].phase = "sent", refresh'[t].phase = "served"
  PROVE  Serve(t)
<1>1. TypeOK /\ QueueInv
  BY DEF IInv
<1>2. ASSUME NEW u \in Tabs, NEW o, Settle(u, o) PROVE FALSE
  BY <1>1, <1>2, NoRefreshType DEF Settle, TypeOK
<1>3. ASSUME NEW u \in Tabs, JoinRefresh(u) PROVE FALSE
  <2>1. refresh'[t] = refresh[t] \/ refresh'[t].phase = "queued"
    BY <1>1, <1>3, Joined
  <2> QED
    BY <2>1
<1>4. ASSUME NEW u \in Tabs, refresh' = Superseded(u) PROVE FALSE
  BY <1>1, <1>4, SupersededType DEF Dulled
<1>5. ASSUME UNCHANGED refresh PROVE FALSE
  BY <1>5
<1>6. ASSUME NEW u \in Tabs, PageReloads(u) PROVE FALSE
  BY <1>1, <1>6, NoRefreshType DEF PageReloads, TypeOK
<1>7. ASSUME NEW u \in Tabs, Refresh(u) \/ Denied(u) PROVE FALSE
  BY <1>3, <1>7 DEF Denied, Refresh
<1>8. ASSUME NEW u \in Tabs, Granted(u) PROVE FALSE
  <2>1. CASE ~refresh[u].current
    BY <1>2, <1>8, <2>1 DEF Granted
  <2>2. CASE refresh[u].current
    <3>1. u # t
      BY <1>8 DEF Granted
    <3>2. refresh'[t] = refresh[t]
      BY <1>1, <1>8, <2>2, <3>1 DEF Granted, TypeOK
    <3> QED
      BY <3>2
  <2> QED
    BY <2>1, <2>2
<1>9. ASSUME NEW u \in Tabs, HandleRefresh(u) PROVE FALSE
  <2> DEFINE r == [NoRefresh EXCEPT !.phase = "sent", !.current = TRUE, !.token = cookie]
  <2>1. u # t
    BY <1>9 DEF HandleRefresh
  <2>2. (\E o : Settle(u, o)) \/ refresh' = [refresh EXCEPT ![u] = r]
    BY <1>9, Zenon DEF HandleRefresh
  <2>3. refresh' # [refresh EXCEPT ![u] = r]
    BY <1>1, <2>1 DEF TypeOK
  <2> QED
    BY <1>2, <2>2, <2>3
<1>10. ASSUME NEW u \in Tabs, LoseRefresh(u) PROVE FALSE
  BY <1>2, <1>10 DEF LoseRefresh
<1>11. ASSUME NEW u \in Tabs, Serve(u), u # t PROVE FALSE
  BY <1>1, <1>11 DEF Serve, QueueInv
<1>12. ASSUME NEW u \in Tabs, HandleLogin(u) \/ HandleLogout(u) \/ HandleEvent(u) PROVE FALSE
  <2>1. \/ refresh' = Superseded(u) \/ JoinRefresh(u) \/ PageReloads(u) \/ UNCHANGED refresh
    BY <1>12 DEF HandleLogin, HandleLogout, HandleEvent
  <2> QED
    BY <1>3, <1>4, <1>5, <1>6, <2>1
<1>13. ASSUME NEW u \in Tabs,
              \/ Login(u) \/ LoseLogin(u) \/ Logout(u) \/ ServeLogout(u) \/ LoseLogout(u)
       PROVE  FALSE
  BY <1>5, <1>13 DEF Login, LoseLogin, Logout, ServeLogout, LoseLogout
<1>14. ASSUME NEW u \in Tabs, Reload(u) PROVE FALSE
  BY <1>6, <1>14 DEF Reload
<1>15. ASSUME NEW s \in Sids, Revoke(s) \/ GraceEnds(s) PROVE FALSE
  BY <1>5, <1>15 DEF Revoke, GraceEnds
<1> QED
  BY <1>7, <1>8, <1>9, <1>10, <1>11, <1>12, <1>13, <1>14, <1>15 DEF Next

LEMMA ForcedStep ==
  ASSUME IInv, [Next]_vars, NEW t \in Tabs, refresh[t].token.sid # 0,
         refresh[t].phase = "sent",
         refresh'[t].phase = "served", refresh'[t].answer.kind \in Refusals
  PROVE  \/ status[refresh[t].token.sid] # "active" \/ refresh[t].token.sid \in late
         \/ /\ refresh'[t].answer.kind = "unread"
            /\ status'[refresh[t].token.sid] = "active"
<1> DEFINE s == refresh[t].token.sid
<1>1. TypeOK /\ Serve(t)
  <2>1. ~UNCHANGED vars
    BY DEF vars
  <2> QED
    BY <2>1, Answered DEF IInv
<1>2. Usable(refresh[t].token)
  BY DEF IInv, AgeInv
<1>3. refresh[t] \in Refreshes /\ s \in Sids /\ refresh[t].token.age \in 0..2
  BY <1>1 DEF TypeOK, Refreshes, Tokens
<1>4. Token(s, 0) \in Tokens /\ NoToken \in Tokens
  BY <1>3, TokenType DEF Token, Tokens
<1>5. SUFFICES ASSUME status[s] = "active", s \notin late
               PROVE  refresh'[t].answer.kind = "unread" /\ status'[s] = "active"
  OBVIOUS
<1>6. refresh[t].token.age <= 1 /\ (refresh[t].token.age = 1 => grace[s])
  BY <1>2, <1>5 DEF Usable
<1>7. CASE Refused(t, "mismatch")
  <2>1. refresh'[t] = Replied(refresh[t], "mismatch", NoToken)
    BY <1>1, <1>7 DEF Refused, TypeOK
  <2>2. refresh[t] \in Refreshes /\ NoToken \in Tokens
    BY <1>3, <1>4
  <2>3. refresh'[t].answer.kind = "mismatch"
    BY <2>1, <2>2, RepliedType, KindsAre
  <2> QED
    BY <2>3 DEF Refusals
<1>8. CASE Rotate(t, s) \/ (grace[s] /\ Replay(t, s))
  <2>1. refresh'[t] = Replied(refresh[t], "ok", Token(s, 0))
    <3>1. CASE Rotate(t, s)
      BY <3>1, Zenon DEF Rotate
    <3>2. CASE grace[s] /\ Replay(t, s)
      <4>1. refresh' = [refresh EXCEPT ![t] = Replied(refresh[t], "ok", Token(s, 0))]
        BY <3>2 DEF Replay
      <4> QED
        BY <1>1, <4>1 DEF TypeOK
    <3> QED
      BY <1>8, <3>1, <3>2
  <2> DEFINE x == Token(s, 0)
  <2>2. x \in Tokens /\ refresh'[t] = Replied(refresh[t], "ok", x)
    BY <1>4, <2>1
  <2> HIDE DEF x
  <2>3. refresh[t] \in Refreshes
    BY <1>3
  <2>4. refresh'[t].answer.kind = "ok"
    BY <2>2, <2>3, RepliedType, KindsAre
  <2> QED
    BY <2>4 DEF Refusals
<1>9. CASE Refused(t, "unread") /\ status' = status
  <2>1. refresh'[t] = Replied(refresh[t], "unread", NoToken)
    BY <1>1, <1>9 DEF Refused, TypeOK
  <2>2. refresh[t] \in Refreshes /\ NoToken \in Tokens
    BY <1>3, <1>4
  <2>3. refresh'[t].answer.kind = "unread"
    BY <2>1, <2>2, RepliedType, KindsAre
  <2> QED
    BY <1>5, <1>9, <2>3
<1>10. \/ Refused(t, "mismatch") \/ ~InForce(s) \/ refresh[t].token.age = 2
       \/ refresh[t].token.age = 0 /\ Rotate(t, s)
       \/ refresh[t].token.age # 0 /\ Replay(t, s)
       \/ Refused(t, "unread") /\ status' = status
  BY <1>1 DEF Serve, Refused, serverVars
<1> QED
  BY <1>3, <1>5, <1>6, <1>7, <1>8, <1>9, <1>10 DEF InForce

(* A refresh is refused only for a session that was ended, or whose grace   *)
(* ran out before the browser had the successor of its token, or because    *)
(* the server could not read the session, which it then leaves in force.    *)
THEOREM NobodyForcedOut == Spec => NotForcedOut
<1>1. ASSUME IInv, [Next]_vars
      PROVE  [\A t \in Tabs :
                LET s == refresh[t].token.sid IN
                /\ refresh[t].phase = "sent" /\ s # 0
                /\ refresh'[t].phase = "served" /\ refresh'[t].answer.kind \in Refusals
                => \/ status[s] # "active" \/ s \in late
                   \/ refresh'[t].answer.kind = "unread" /\ status'[s] = "active"]_vars
  BY <1>1, ForcedStep
<1> QED
  BY <1>1, Inductive, PTL DEF Spec, NotForcedOut
=============================================================================
