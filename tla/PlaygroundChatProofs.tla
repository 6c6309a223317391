------------------------ MODULE PlaygroundChatProofs ------------------------
(***************************************************************************)
(* Proofs about PlaygroundChat, for any number of requests, chunks, stored *)
(* messages and edits.                                                     *)
(*                                                                         *)
(* Whatever callback runs, it rewrites at most the last message of the     *)
(* conversation, and only while the current request is unanswered; so an   *)
(* answer that has ended is out of reach.  While one is being generated,   *)
(* the text shown and the batch that waits for the flush timer are two     *)
(* adjoining pieces of what the provider has sent.                         *)
(***************************************************************************)
EXTENDS PlaygroundChat, TLAPS, SequenceTheorems, FiniteSetTheorems, WellFoundedInduction

IsPending(m) == m.status \in Pending

KeysDiffer(msgs) == \A i, j \in DOMAIN msgs : msgs[i].key = msgs[j].key => i = j

(* TypeOK in two parts, the sequences of messages apart, and with the keys  *)
(* of the stored messages, which Mount brings back.                        *)
MessageTypes ==
  /\ messages \in Seq(Message) /\ stored \in Seq(Message)
  /\ KeysDiffer(messages) /\ KeysDiffer(stored)

StateTypes ==
  /\ editing \in Nat /\ changes \in 0..MaxChanges
  /\ chatGen \in 0..MaxGen /\ flushTimer \in 0..MaxGen
  /\ pending \in [gen : 0..MaxGen, text : Seq(Tokens)]
  /\ requesting \in BOOLEAN /\ streaming \in BOOLEAN
  /\ streamGen \in Nat /\ source \in 0..MaxGen
  /\ req \in [Gen -> Request] /\ answer \in [style : Styles, got : 0..MaxChunks]
  /\ mounted \in BOOLEAN /\ saveTimer \in BOOLEAN

TypeInv == MessageTypes /\ StateTypes

(* What every callback does to the conversation that neither sends nor     *)
(* cuts: the last message may change, keeping its identity, if it is an    *)
(* answer.                                                                 *)
Rewrites(msgs, new) ==
  /\ new \in Seq(Message) /\ Len(new) = Len(msgs)
  /\ \A i \in 1..Len(msgs) :
       /\ new[i].key = msgs[i].key /\ new[i].of = msgs[i].of
       /\ new[i] # msgs[i] => i = Len(msgs) /\ ~IsUser(msgs[i])

-----------------------------------------------------------------------------
(* What the callbacks do to the last message *)

LEMMA RewritesNothing ==
  ASSUME NEW msgs \in Seq(Message)
  PROVE  Rewrites(msgs, msgs)
BY DEF Rewrites

LEMMA RewritesTwice ==
  ASSUME NEW a \in Seq(Message), NEW b, NEW c, Rewrites(a, b), Rewrites(b, c)
  PROVE  Rewrites(a, c)
BY SMTT(30) DEF Rewrites, IsUser

LEMMA RewritesKeys ==
  ASSUME NEW a \in Seq(Message), NEW b, Rewrites(a, b), KeysDiffer(a)
  PROVE  b \in Seq(Message) /\ KeysDiffer(b)
<1>1. DOMAIN a = 1..Len(a) /\ DOMAIN b = 1..Len(a)
  BY LenProperties DEF Rewrites
<1> QED
  BY <1>1 DEF Rewrites, KeysDiffer

LEMMA LastOf ==
  ASSUME NEW msgs \in Seq(Message), msgs # <<>>
  PROVE  /\ Len(msgs) \in 1..Len(msgs) /\ Last(msgs) = msgs[Len(msgs)]
         /\ Last(msgs) \in Message
<1>1. Len(msgs) \in Nat \ {0}
  BY EmptySeq
<1> QED
  BY <1>1, ElementOfSeq DEF Last

LEMMA LastUpdated ==
  ASSUME NEW msgs \in Seq(Message), NEW m,
         msgs # <<>> /\ ~IsUser(Last(msgs)) =>
           m \in Message /\ m.key = Last(msgs).key /\ m.of = Last(msgs).of
  PROVE  /\ Rewrites(msgs, UpdateLastAssistantMessage(msgs, m))
         /\ msgs = <<>> \/ IsUser(Last(msgs)) => UpdateLastAssistantMessage(msgs, m) = msgs
         /\ msgs # <<>> /\ ~IsUser(Last(msgs)) => Last(UpdateLastAssistantMessage(msgs, m)) = m
<1> DEFINE new == UpdateLastAssistantMessage(msgs, m)
<1>1. CASE msgs = <<>> \/ IsUser(Last(msgs))
  <2>1. new = msgs
    BY <1>1 DEF UpdateLastAssistantMessage
  <2> QED
    BY <1>1, <2>1, RewritesNothing
<1>2. CASE msgs # <<>> /\ ~IsUser(Last(msgs))
  <2>1. new = [msgs EXCEPT ![Len(msgs)] = m]
    BY <1>2 DEF UpdateLastAssistantMessage, ReplaceAt
  <2>2. Len(msgs) \in 1..Len(msgs) /\ Last(msgs) = msgs[Len(msgs)]
    BY <1>2, LastOf
  <2>3. /\ new \in Seq(Message) /\ Len(new) = Len(msgs)
        /\ \A j \in 1..Len(msgs) : new[j] = IF j = Len(msgs) THEN m ELSE msgs[j]
    BY <1>2, <2>1, <2>2, ExceptSeq
  <2> HIDE DEF new
  <2>4. Rewrites(msgs, new)
    BY <1>2, <2>2, <2>3 DEF Rewrites
  <2>5. Last(new) = m
    BY <2>2, <2>3 DEF Last
  <2> QED
    BY <1>2, <2>4, <2>5 DEF new
<1> QED
  BY <1>1, <1>2

LEMMA TextOps ==
  ASSUME NEW current \in Seq(Tokens), NEW next \in Seq(Tokens)
  PROVE  Merged(current, next) \in Seq(Tokens) /\ Appendable(current, next) \in Seq(Tokens)
<1>1. SubSeq(next, Len(current) + 1, Len(next)) \in Seq(Tokens)
  BY SubSeqProperties, LenProperties, ElementOfSeq
<1> QED
  BY <1>1, ConcatProperties DEF Merged, Appendable

LEMMA TokenTexts ==
  /\ <<Typed>> \in Seq(Tokens) /\ <<ErrorText>> \in Seq(Tokens) /\ <<>> \in Seq(Tokens)
  /\ \A g \in Gen : \A k \in 0..MaxChunks : Answer(g, k) \in Seq(Tokens)
  /\ \A g \in Gen : \A k \in 1..MaxChunks : \A s \in Styles : Chunk(g, k, s) \in Seq(Tokens)
<1>1. Typed \in Tokens /\ ErrorText \in Tokens
  BY PlaygroundConstants DEF Typed, ErrorText, Tokens
<1>2. ASSUME NEW g \in Gen, NEW k \in 0..MaxChunks
      PROVE  Answer(g, k) \in Seq(Tokens)
  <2>1. Answer(g, k) \in [1..k -> Tokens]
    BY PlaygroundConstants DEF Answer, Tokens
  <2> QED
    BY <2>1, PlaygroundConstants, SeqDef
<1>3. ASSUME NEW g \in Gen, NEW k \in 1..MaxChunks, NEW s \in Styles
      PROVE  Chunk(g, k, s) \in Seq(Tokens)
  <2>1. << <<g, k>> >> \in Seq(Tokens)
    BY PlaygroundConstants DEF Tokens
  <2> QED
    BY <1>2, <2>1, PlaygroundConstants DEF Chunk
<1> QED
  BY <1>1, <1>2, <1>3

LEMMA MessageOps ==
  ASSUME NEW m \in Message
  PROVE  /\ \A chunk \in Seq(Tokens) :
              LET n == ApplyStreamingChunk(m, chunk)
              IN  n \in Message /\ n.key = m.key /\ n.of = m.of
         /\ WithError(m) \in Message /\ WithError(m).key = m.key /\ WithError(m).of = m.of
         /\ LET n == CompleteAssistantMessage(m)
            IN  n \in Message /\ n.key = m.key /\ n.of = m.of
<1>1. m.text \in Seq(Tokens)
  BY DEF Message
<1>2. ASSUME NEW chunk \in Seq(Tokens)
      PROVE  LET n == ApplyStreamingChunk(m, chunk)
             IN  n \in Message /\ n.key = m.key /\ n.of = m.of
  <2>1. m.text \o Appendable(m.text, chunk) \in Seq(Tokens)
    BY <1>1, TextOps, ConcatProperties
  <2> QED
    BY <2>1 DEF ApplyStreamingChunk, Message, Statuses, Pending
<1>3. WithError(m) \in Message /\ WithError(m).key = m.key /\ WithError(m).of = m.of
  BY TokenTexts DEF WithError, Message, Statuses
<1>4. LET n == CompleteAssistantMessage(m)
      IN  n \in Message /\ n.key = m.key /\ n.of = m.of
  BY DEF CompleteAssistantMessage, Message, Statuses
<1> QED
  BY <1>2, <1>3, <1>4

\* flushStreamUpdates
LEMMA FlushedIs ==
  ASSUME TypeInv, NEW g
  PROVE  /\ Rewrites(messages, Flushed(g))
         /\ pending.gen # g \/ pending.text = <<>> => Flushed(g) = messages
         /\ messages = <<>> => Flushed(g) = messages
         /\ messages # <<>> /\ IsUser(Last(messages)) => Flushed(g) = messages
         /\ messages # <<>> /\ ~IsUser(Last(messages)) =>
              Last(Flushed(g)) = IF pending.gen # g \/ pending.text = <<>>
                                 THEN Last(messages)
                                 ELSE ApplyStreamingChunk(Last(messages), pending.text)
<1>1. messages \in Seq(Message) /\ pending.text \in Seq(Tokens)
  BY DEF TypeInv, MessageTypes, StateTypes
<1>2. CASE pending.gen # g \/ pending.text = <<>>
  BY <1>1, <1>2, RewritesNothing DEF Flushed
<1>3. CASE ~(pending.gen # g \/ pending.text = <<>>)
  <2> DEFINE m == ApplyStreamingChunk(Last(messages), pending.text)
  <2>1. messages # <<>> => m \in Message /\ m.key = Last(messages).key /\ m.of = Last(messages).of
    BY <1>1, LastOf, MessageOps
  <2>2. Flushed(g) = UpdateLastAssistantMessage(messages, m)
    BY <1>3 DEF Flushed
  <2> HIDE DEF m
  <2>3. /\ Rewrites(messages, Flushed(g))
        /\ messages = <<>> \/ IsUser(Last(messages)) => Flushed(g) = messages
        /\ messages # <<>> /\ ~IsUser(Last(messages)) => Last(Flushed(g)) = m
    BY <1>1, <2>1, <2>2, LastUpdated
  <2> QED
    BY <1>3, <2>3 DEF m
<1> QED
  BY <1>2, <1>3

LEMMA RewrittenLast ==
  ASSUME NEW a \in Seq(Message), NEW b, Rewrites(a, b), a # <<>>
  PROVE  /\ b \in Seq(Message) /\ b # <<>> /\ Len(b) = Len(a)
         /\ Last(b) \in Message /\ Last(b).key = Last(a).key /\ Last(b).of = Last(a).of
         /\ IsUser(Last(b)) <=> IsUser(Last(a))
         /\ \A i \in 1..Len(a) : i # Len(a) => b[i] = a[i]
<1>1. Len(a) \in 1..Len(a) /\ Last(a) = a[Len(a)]
  BY LastOf
<1>2. b \in Seq(Message) /\ Len(b) = Len(a) /\ b # <<>>
  BY <1>1, EmptySeq DEF Rewrites
<1>3. Last(b) \in Message /\ Last(b) = b[Len(a)]
  BY <1>2, LastOf
<1> QED
  BY <1>1, <1>2, <1>3 DEF Rewrites, IsUser

\* handleStreamError
LEMMA StreamErrorIs ==
  ASSUME TypeInv, NEW g \in Gen, StreamError(g)
  PROVE  /\ Rewrites(messages, messages')
         /\ g # chatGen => UNCHANGED <<messages, saveTimer, chatVars>>
         /\ g = chatGen => /\ requesting' = FALSE /\ saveTimer' = TRUE /\ flushTimer' = 0
                           /\ pending' = [pending EXCEPT !.text = <<>>] /\ chatGen' = chatGen
                           /\ messages # <<>> /\ ~IsUser(Last(messages)) =>
                                Last(messages') = WithError(Last(Flushed(g)))
<1>1. messages \in Seq(Message)
  BY DEF TypeInv, MessageTypes
<1>2. CASE g # chatGen
  BY <1>1, <1>2, RewritesNothing DEF StreamError
<1>3. CASE g = chatGen
  <2> DEFINE shown == Flushed(g)
             m == WithError(Last(shown))
  <2>1. Rewrites(messages, shown) /\ shown \in Seq(Message)
    BY FlushedIs DEF Rewrites
  <2>2. shown # <<>> => m \in Message /\ m.key = Last(shown).key /\ m.of = Last(shown).of
    BY <2>1, LastOf, MessageOps
  <2>3. messages' = UpdateLastAssistantMessage(shown, m)
    BY <1>3 DEF StreamError, UpdateMessages
  <2> HIDE DEF m, shown
  <2>4. /\ Rewrites(shown, messages')
        /\ shown # <<>> /\ ~IsUser(Last(shown)) => Last(messages') = m
    BY <2>1, <2>2, <2>3, LastUpdated
  <2>5. Rewrites(messages, messages')
    BY <1>1, <2>1, <2>4, RewritesTwice
  <2>6. messages # <<>> /\ ~IsUser(Last(messages)) => Last(messages') = m
    BY <1>1, <2>1, <2>4, RewrittenLast
  <2> QED
    BY <1>3, <2>5, <2>6 DEF StreamError, UpdateMessages, ClearPending, m, shown
<1> QED
  BY <1>2, <1>3

(* What handleStreamComplete, stopGeneration and an answer that is not     *)
(* streamed make of the last message.                                      *)
Finished(m) == IF IsPending(m) THEN [CompleteAssistantMessage(m) EXCEPT !.sent = answer.got] ELSE m

LEMMA StreamCompleteIs ==
  ASSUME TypeInv, NEW g \in Gen, StreamComplete(g)
  PROVE  /\ Rewrites(messages, messages')
         /\ g # chatGen => UNCHANGED <<messages, saveTimer, chatVars>>
         /\ g = chatGen => /\ requesting' = FALSE /\ saveTimer' = TRUE /\ flushTimer' = 0
                           /\ pending' = [pending EXCEPT !.text = <<>>] /\ chatGen' = chatGen
                           /\ messages # <<>> /\ ~IsUser(Last(messages)) =>
                                Last(messages') = Finished(Last(Flushed(g)))
<1>1. messages \in Seq(Message) /\ answer.got \in 0..MaxChunks
  BY DEF TypeInv, MessageTypes, StateTypes
<1>2. CASE g # chatGen
  BY <1>1, <1>2, RewritesNothing DEF StreamComplete
<1>3. CASE g = chatGen
  <2> DEFINE shown == Flushed(g)
             m == Finished(Last(shown))
  <2>1. Rewrites(messages, shown) /\ shown \in Seq(Message)
    BY FlushedIs DEF Rewrites
  <2>2. shown # <<>> => m \in Message /\ m.key = Last(shown).key /\ m.of = Last(shown).of
    <3> SUFFICES ASSUME shown # <<>>
                 PROVE  m \in Message /\ m.key = Last(shown).key /\ m.of = Last(shown).of
      OBVIOUS
    <3>1. Last(shown) \in Message
      BY <2>1, LastOf
    <3> HIDE DEF shown
    <3> QED
      BY <1>1, <3>1 DEF Finished, CompleteAssistantMessage, Message, Statuses
  <2>3. messages' = UpdateLastAssistantMessage(shown, m)
    BY <1>3 DEF StreamComplete, UpdateMessages, Finished, IsPending
  <2> HIDE DEF m, shown
  <2>4. /\ Rewrites(shown, messages')
        /\ shown # <<>> /\ ~IsUser(Last(shown)) => Last(messages') = m
    BY <2>1, <2>2, <2>3, LastUpdated
  <2>5. Rewrites(messages, messages')
    BY <1>1, <2>1, <2>4, RewritesTwice
  <2>6. messages # <<>> /\ ~IsUser(Last(messages)) => Last(messages') = m
    BY <1>1, <2>1, <2>4, RewrittenLast
  <2> QED
    BY <1>3, <2>5, <2>6 DEF StreamComplete, UpdateMessages, ClearPending, m, shown
<1> QED
  BY <1>2, <1>3

Stopped(m) == IF IsPending(m) THEN CompleteAssistantMessage(m) ELSE m

LEMMA StopIs ==
  ASSUME TypeInv, StopGeneration
  PROVE  /\ Rewrites(messages, messages')
         /\ messages # <<>> /\ ~IsUser(Last(messages)) =>
              \E m \in {Last(messages), Last(Flushed(chatGen))} : Last(messages') = Stopped(m)
<1>1. messages \in Seq(Message)
  BY DEF TypeInv, MessageTypes
<1>2. PICK shown \in {messages, Flushed(chatGen)} :
        messages' = UpdateLastAssistantMessage(shown, Stopped(Last(shown)))
  BY DEF StopGeneration, UpdateMessages, Stopped, IsPending
<1> DEFINE m == Stopped(Last(shown))
<1>3. Rewrites(messages, shown) /\ shown \in Seq(Message)
  BY <1>1, FlushedIs, RewritesNothing DEF Rewrites
<1>4. shown # <<>> => m \in Message /\ m.key = Last(shown).key /\ m.of = Last(shown).of
  BY <1>3, LastOf, MessageOps DEF Stopped
<1>5. messages' = UpdateLastAssistantMessage(shown, m)
  BY <1>2
<1> HIDE DEF m
<1>6. /\ Rewrites(shown, messages')
      /\ shown # <<>> /\ ~IsUser(Last(shown)) => Last(messages') = m
  BY <1>3, <1>4, <1>5, LastUpdated
<1>7. Rewrites(messages, messages')
  BY <1>1, <1>3, <1>6, RewritesTwice
<1>8. messages # <<>> /\ ~IsUser(Last(messages)) => Last(messages') = m
  BY <1>1, <1>3, <1>6, RewrittenLast
<1> QED
  BY <1>2, <1>7, <1>8 DEF m

Whole(m, g) ==
  [CompleteAssistantMessage(m) EXCEPT !.text = Answer(g, MaxChunks), !.sent = MaxChunks]

LEMMA ResponseIs ==
  ASSUME TypeInv, NEW g \in Gen, ResponseArrives(g)
  PROVE  /\ Rewrites(messages, messages')
         /\ g # chatGen => UNCHANGED <<messages, saveTimer, requesting>>
         /\ g = chatGen => /\ requesting' = FALSE /\ saveTimer' = TRUE
                           /\ messages # <<>> /\ ~IsUser(Last(messages)) =>
                                Last(messages') = Whole(Last(messages), g)
<1>1. messages \in Seq(Message)
  BY DEF TypeInv, MessageTypes
<1>2. CASE g # chatGen
  BY <1>1, <1>2, RewritesNothing DEF ResponseArrives
<1>3. CASE g = chatGen
  <2> DEFINE m == Whole(Last(messages), g)
  <2>1. messages # <<>> => m \in Message /\ m.key = Last(messages).key /\ m.of = Last(messages).of
    <3> SUFFICES ASSUME messages # <<>>
                 PROVE  m \in Message /\ m.key = Last(messages).key /\ m.of = Last(messages).of
      OBVIOUS
    <3>1. Last(messages) \in Message
      BY <1>1, LastOf
    <3>2. Answer(g, MaxChunks) \in Seq(Tokens)
      BY PlaygroundConstants, TokenTexts
    <3> DEFINE c == CompleteAssistantMessage(Last(messages))
    <3>3. c \in Message /\ c.key = Last(messages).key /\ c.of = Last(messages).of
      BY <3>1, MessageOps
    <3>4. m = [c EXCEPT !.text = Answer(g, MaxChunks), !.sent = MaxChunks]
      BY DEF Whole
    <3> HIDE DEF c, m
    <3>5. MaxChunks \in 0..MaxChunks
      BY PlaygroundConstants
    <3>6. m \in Message /\ m.key = c.key /\ m.of = c.of
      BY <3>2, <3>3, <3>4, <3>5 DEF Message
    <3> QED
      BY <3>3, <3>6
  <2>2. messages' = UpdateLastAssistantMessage(messages, m)
    BY <1>3 DEF ResponseArrives, UpdateMessages, Whole
  <2> HIDE DEF m
  <2>3. /\ Rewrites(messages, messages')
        /\ messages # <<>> /\ ~IsUser(Last(messages)) => Last(messages') = m
    BY <1>1, <2>1, <2>2, LastUpdated
  <2> QED
    BY <1>3, <2>3 DEF ResponseArrives, UpdateMessages, m
<1> QED
  BY <1>2, <1>3

-----------------------------------------------------------------------------
(* Cutting the conversation, and adding to it *)

PartOf(msgs, new) ==
  /\ new \in Seq(Message) /\ KeysDiffer(new)
  /\ \A j \in DOMAIN new : \E i \in DOMAIN msgs : new[j] = msgs[i]

LEMMA SubSeqPart ==
  ASSUME NEW a \in Seq(Message), KeysDiffer(a),
         NEW p \in 1..(Len(a) + 1), NEW q \in 0..Len(a)
  PROVE  /\ PartOf(a, SubSeq(a, p, q))
         /\ Len(SubSeq(a, p, q)) = IF p <= q THEN q - p + 1 ELSE 0
         /\ \A j \in DOMAIN SubSeq(a, p, q) : SubSeq(a, p, q)[j] = a[p + j - 1] /\ p + j - 1 \in p..q
<1> DEFINE s == SubSeq(a, p, q)
<1>0. Len(a) \in Nat /\ DOMAIN a = 1..Len(a)
  BY LenProperties
<1>1. \A i \in p..q : a[i] \in Message
  BY <1>0, ElementOfSeq
<1>2. /\ s \in Seq(Message)
      /\ Len(s) = IF p <= q THEN q - p + 1 ELSE 0
      /\ \A j \in 1..(q - p + 1) : s[j] = a[p + j - 1]
  BY <1>0, <1>1, SubSeqProperties
<1>3. DOMAIN s = 1..Len(s)
  BY <1>2, LenProperties
<1> HIDE DEF s
<1>4. \A j \in DOMAIN s : s[j] = a[p + j - 1] /\ p + j - 1 \in p..q
  BY <1>0, <1>2, <1>3
<1>5. KeysDiffer(s)
  <2> SUFFICES ASSUME NEW j \in DOMAIN s, NEW h \in DOMAIN s, s[j].key = s[h].key
               PROVE  j = h
    BY DEF KeysDiffer
  <2>1. p + j - 1 \in DOMAIN a /\ p + h - 1 \in DOMAIN a
    BY <1>0, <1>4
  <2>2. p + j - 1 = p + h - 1
    BY <1>4, <2>1 DEF KeysDiffer
  <2> QED
    BY <1>3, <2>2
<1>6. PartOf(a, s)
  BY <1>0, <1>2, <1>4, <1>5 DEF PartOf
<1> QED
  BY <1>2, <1>4, <1>6 DEF s

LEMMA RemovedPart ==
  ASSUME NEW a \in Seq(Message), KeysDiffer(a), NEW i \in DOMAIN a
  PROVE  PartOf(a, RemoveAt(a, i))
<1> DEFINE b == SubSeq(a, 1, i - 1)
           c == SubSeq(a, i + 1, Len(a))
           s == b \o c
<1>0. Len(a) \in Nat /\ DOMAIN a = 1..Len(a)
  BY LenProperties
<1>1. /\ b \in Seq(Message) /\ Len(b) = i - 1
      /\ \A j \in DOMAIN b : b[j] = a[j]
  BY <1>0, SubSeqPart DEF PartOf
<1>2. /\ c \in Seq(Message) /\ Len(c) = Len(a) - i
      /\ \A j \in DOMAIN c : c[j] = a[i + j]
  BY <1>0, SubSeqPart DEF PartOf
<1> HIDE DEF b, c
<1>3. DOMAIN b = 1..(i - 1) /\ DOMAIN c = 1..(Len(a) - i)
  BY <1>1, <1>2, LenProperties
<1>4. /\ s \in Seq(Message) /\ Len(s) = Len(b) + Len(c)
      /\ \A j \in 1..(Len(b) + Len(c)) : s[j] = IF j <= Len(b) THEN b[j] ELSE c[j - Len(b)]
  BY <1>1, <1>2, ConcatProperties
<1>5. DOMAIN s = 1..(Len(a) - 1)
  <2>1. Len(s) = Len(a) - 1
    BY <1>0, <1>1, <1>2, <1>4
  <2> QED
    BY <1>4, <2>1, LenProperties
<1> HIDE DEF s
<1>6. \A j \in DOMAIN s : s[j] = a[IF j <= i - 1 THEN j ELSE j + 1]
  <2> SUFFICES ASSUME NEW j \in DOMAIN s
               PROVE  s[j] = a[IF j <= i - 1 THEN j ELSE j + 1]
    OBVIOUS
  <2>1. s[j] = IF j <= i - 1 THEN b[j] ELSE c[j - (i - 1)]
    BY <1>0, <1>1, <1>2, <1>4, <1>5
  <2>2. CASE j <= i - 1
    BY <1>0, <1>1, <1>3, <1>5, <2>1, <2>2
  <2>3. CASE ~(j <= i - 1)
    <3>1. j - (i - 1) \in DOMAIN c /\ i + (j - (i - 1)) = j + 1
      BY <1>0, <1>3, <1>5, <2>3
    <3> QED
      BY <1>2, <2>1, <2>3, <3>1
  <2> QED
    BY <2>2, <2>3
<1>7. KeysDiffer(s)
  <2> SUFFICES ASSUME NEW j \in DOMAIN s, NEW h \in DOMAIN s, s[j].key = s[h].key
               PROVE  j = h
    BY DEF KeysDiffer
  <2> DEFINE at(x) == IF x <= i - 1 THEN x ELSE x + 1
  <2>1. at(j) \in DOMAIN a /\ at(h) \in DOMAIN a
    BY <1>0, <1>5
  <2>2. at(j) = at(h)
    BY <1>6, <2>1 DEF KeysDiffer
  <2> QED
    BY <1>0, <1>5, <2>2
<1>8. PartOf(a, s)
  <2>1. \A j \in DOMAIN s : (IF j <= i - 1 THEN j ELSE j + 1) \in DOMAIN a
    BY <1>0, <1>5
  <2> QED
    BY <1>4, <1>6, <1>7, <2>1 DEF PartOf
<1> QED
  BY <1>8 DEF RemoveAt, s, b, c

LEMMA TrimmedPart ==
  ASSUME NEW a \in Seq(Message), KeysDiffer(a)
  PROVE  /\ PartOf(a, Trimmed(a)) /\ Len(Trimmed(a)) <= MaxStored
         /\ \A j \in DOMAIN Trimmed(a) :
              j + Len(a) - Len(Trimmed(a)) \in DOMAIN a
              /\ Trimmed(a)[j] = a[j + Len(a) - Len(Trimmed(a))]
<1>0. Len(a) \in Nat /\ DOMAIN a = 1..Len(a) /\ MaxStored \in Nat
  BY LenProperties, PlaygroundConstants
<1>1. CASE Len(a) <= MaxStored
  BY <1>0, <1>1 DEF Trimmed, PartOf
<1>2. CASE ~(Len(a) <= MaxStored)
  <2> DEFINE p == Len(a) - MaxStored + 1
             s == SubSeq(a, p, Len(a))
  <2>1. p \in 1..(Len(a) + 1) /\ Len(a) \in 0..Len(a) /\ p + MaxStored = Len(a) + 1
    BY <1>0, <1>2
  <2> HIDE DEF p
  <2>2. /\ PartOf(a, s)
        /\ Len(s) = IF p <= Len(a) THEN Len(a) - p + 1 ELSE 0
        /\ \A j \in DOMAIN s : s[j] = a[p + j - 1] /\ p + j - 1 \in p..Len(a)
    BY <2>1, SubSeqPart
  <2>3. Trimmed(a) = s
    BY <1>2 DEF Trimmed, p
  <2>4. DOMAIN s = 1..Len(s)
    BY <2>2, LenProperties DEF PartOf
  <2> HIDE DEF s
  <2>5. Len(s) = MaxStored
    BY <1>0, <2>1, <2>2, PlaygroundConstants
  <2>6. \A j \in DOMAIN s : p + j - 1 = j + Len(a) - Len(s) /\ p + j - 1 \in DOMAIN a
    BY <1>0, <2>1, <2>4, <2>5
  <2> QED
    BY <1>0, <2>2, <2>3, <2>5, <2>6
<1> QED
  BY <1>1, <1>2

LEMMA Appended ==
  ASSUME NEW a \in Seq(Message), KeysDiffer(a), NEW m \in Message,
         \A i \in DOMAIN a : a[i].key # m.key
  PROVE  /\ Append(a, m) \in Seq(Message) /\ KeysDiffer(Append(a, m))
         /\ Len(Append(a, m)) = Len(a) + 1 /\ Append(a, m) # <<>> /\ Last(Append(a, m)) = m
         /\ \A j \in DOMAIN Append(a, m) : j \in DOMAIN a \/ j = Len(a) + 1
         /\ \A j \in DOMAIN a : Append(a, m)[j] = a[j]
         /\ Append(a, m)[Len(a) + 1] = m
<1> DEFINE s == Append(a, m)
<1>0. Len(a) \in Nat /\ DOMAIN a = 1..Len(a)
  BY LenProperties
<1>1. /\ s \in Seq(Message) /\ Len(s) = Len(a) + 1 /\ s # <<>>
      /\ \A j \in 1..Len(a) : s[j] = a[j]
      /\ s[Len(a) + 1] = m
  BY AppendProperties
<1>2. DOMAIN s = 1..(Len(a) + 1)
  BY <1>1, LenProperties
<1> HIDE DEF s
<1>3. KeysDiffer(s)
  BY <1>0, <1>1, <1>2 DEF KeysDiffer
<1>4. Last(s) = m
  BY <1>1 DEF Last
<1> QED
  BY <1>0, <1>1, <1>2, <1>3, <1>4 DEF s

LEMMA EditedIs ==
  ASSUME TypeInv, NEW i \in DOMAIN messages
  PROVE  /\ EditedMessages(i) \in Seq(Message) /\ KeysDiffer(EditedMessages(i))
         /\ Len(EditedMessages(i)) = Len(messages)
         /\ \A j \in DOMAIN messages : j # i => EditedMessages(i)[j] = messages[j]
         /\ LET m == EditedMessages(i)[i] IN
            /\ m \in Message /\ m.key = messages[i].key /\ m.of = messages[i].of
            /\ m.status = messages[i].status /\ m.sent = messages[i].sent /\ ~m.own
<1> DEFINE m == [messages[i] EXCEPT !.text = <<Typed>>, !.own = FALSE]
           s == EditedMessages(i)
<1>1. messages \in Seq(Message) /\ KeysDiffer(messages) /\ DOMAIN messages = 1..Len(messages)
  BY LenProperties DEF TypeInv, MessageTypes
<1>2. messages[i] \in Message
  BY <1>1, ElementOfSeq
<1>3. /\ m \in Message /\ m.key = messages[i].key /\ m.of = messages[i].of
      /\ m.status = messages[i].status /\ m.sent = messages[i].sent /\ ~m.own
  BY <1>2, TokenTexts DEF Message
<1>4. s = [messages EXCEPT ![i] = m]
  BY <1>2 DEF EditedMessages, Message
<1> HIDE DEF m, s
<1>5. /\ s \in Seq(Message) /\ Len(s) = Len(messages)
      /\ \A j \in 1..Len(messages) : s[j] = IF j = i THEN m ELSE messages[j]
  BY <1>1, <1>3, <1>4, ExceptSeq
<1>6. DOMAIN s = 1..Len(messages)
  BY <1>5, LenProperties
<1>7. KeysDiffer(s)
  BY <1>1, <1>3, <1>5, <1>6 DEF KeysDiffer
<1> QED
  BY <1>1, <1>3, <1>5, <1>7 DEF m, s

-----------------------------------------------------------------------------
(* The inductive invariant *)

(* While a request is under way the last message waits for its answer; no  *)
(* other message ever does, and a page that is closed shows nothing.       *)
ConvInv ==
  /\ requesting => /\ messages # <<>> /\ chatGen # 0
                   /\ IsPending(Last(messages)) /\ Last(messages).of = chatGen
  /\ \A i \in DOMAIN messages : IsPending(messages[i]) => i = Len(messages) /\ requesting
  /\ ~mounted => messages = <<>>

(* A request that waits for its headers, and one that is not plain. *)
Running(g) == req[g].phase = "headers" /\ req[g].stream = streamGen
Streamed(g) == req[g].kind # "plain" /\ req[g].phase # "headers"

(* Only the current request has a source, a batch, or headers under way,   *)
(* and it has not ended; a request yet to come has no phase.               *)
ReqInv ==
  /\ streaming => source # 0
  /\ source # 0 => source = chatGen /\ requesting /\ Streamed(source)
  /\ pending.gen = chatGen /\ pending.text # <<>> => requesting /\ Streamed(chatGen)
  /\ requesting => pending.gen = chatGen
  /\ \A g \in Gen :
       /\ req[g].phase = "headers" => req[g].kind = "stream"
       /\ Running(g) => g = chatGen /\ requesting
       /\ req[g].phase = "open" /\ req[g].kind = "plain" /\ g = chatGen => requesting
       /\ req[g].stream <= streamGen
       /\ g > chatGen => req[g].phase = "none"
       /\ req[g].phase = "open" /\ req[g].kind = "stream" /\ g = chatGen /\ requesting => IsCurrent(g)

(* At most one stored message is pending, so that sanitizeMessagesOnLoad,  *)
(* which repairs one, leaves none.                                         *)
StoreInv ==
  /\ \A i, j \in DOMAIN stored : IsPending(stored[i]) /\ IsPending(stored[j]) => i = j
  /\ \A i \in DOMAIN stored : IsPending(stored[i]) => ~IsUser(stored[i])

IInv == TypeInv /\ ConvInv /\ ReqInv /\ StoreInv

\* a request that is under way has an answer to write to
LEMMA LastIsAnswered ==
  ASSUME IInv, requesting
  PROVE  messages # <<>> /\ IsPending(Last(messages)) /\ ~IsUser(Last(messages))
BY SMTT(30) DEF IInv, ConvInv, IsUser

LEMMA RewrittenInv ==
  ASSUME IInv, Rewrites(messages, messages'), UNCHANGED <<stored, mounted>>
  PROVE  /\ MessageTypes' /\ StoreInv'
         /\ messages = <<>> <=> messages' = <<>>
         /\ messages # <<>> => Last(messages').of = Last(messages).of
         /\ \A i \in DOMAIN messages' :
              i \in DOMAIN messages /\ (i # Len(messages') => messages'[i] = messages[i])
         /\ Len(messages') = Len(messages)
         /\ messages' # <<>> => messages'[Len(messages')] = Last(messages')
<1>1. messages \in Seq(Message) /\ KeysDiffer(messages) /\ stored \in Seq(Message) /\ KeysDiffer(stored)
  BY DEF IInv, TypeInv, MessageTypes
<1>2. messages' \in Seq(Message) /\ KeysDiffer(messages')
  BY <1>1, RewritesKeys
<1>3. MessageTypes'
  BY <1>1, <1>2 DEF MessageTypes, KeysDiffer
<1>4. StoreInv'
  BY DEF IInv, StoreInv
<1>5. messages = <<>> => messages' = <<>>
  BY <1>1, <1>2, EmptySeq DEF Rewrites
<1>6. Len(messages') = Len(messages) /\ DOMAIN messages = 1..Len(messages) /\ DOMAIN messages' = 1..Len(messages)
  BY <1>1, <1>2, LenProperties DEF Rewrites
<1> QED
  BY <1>1, <1>2, <1>3, <1>4, <1>5, <1>6, RewrittenLast, LastOf DEF Rewrites

\* the end of the current request: the last answer is no longer pending
LEMMA EndedConv ==
  ASSUME IInv, Rewrites(messages, messages'), UNCHANGED <<stored, mounted>>, ~requesting',
         IF requesting THEN ~IsPending(Last(messages')) ELSE messages' = messages
  PROVE  ConvInv'
<1>1. CASE requesting
  <2>1. \A i \in DOMAIN messages' : ~IsPending(messages'[i])
    BY <1>1, RewrittenInv, LastIsAnswered DEF IInv, ConvInv
  <2> QED
    BY <1>1, <2>1, RewrittenInv DEF IInv, ConvInv
<1>2. CASE ~requesting
  BY <1>2 DEF IInv, ConvInv
<1> QED
  BY <1>1, <1>2

-----------------------------------------------------------------------------
(* Keys: among n numbers one is free if fewer than n are taken *)

LEMMA LeastFree ==
  ASSUME NEW n \in Nat, NEW T, IsFiniteSet(T), Cardinality(T) < n
  PROVE  \E k \in 1..n : k \notin T /\ 1..(k - 1) \subseteq T
<1> DEFINE Free == {k \in 1..n : k \notin T}
           R == OpToRel(<, Nat)
<1>1. Free # {}
  <2> SUFFICES ASSUME Free = {} PROVE FALSE
    OBVIOUS
  <2>1. 1..n \in SUBSET T
    OBVIOUS
  <2>2. Cardinality(1..n) <= Cardinality(T)
    BY <2>1, FS_Subset
  <2>3. Cardinality(1..n) = n
    BY FS_Interval
  <2>4. Cardinality(T) \in Nat
    BY FS_CardinalityType
  <2> QED
    BY <2>2, <2>3, <2>4
<1>2. Free \subseteq Nat
  OBVIOUS
<1>3. IsWellFoundedOn(R, Nat)
  BY NatLessThanWellFounded
<1>4. PICK k \in Free : \A j \in Free : <<j, k>> \notin R
  <2> HIDE DEF Free, R
  <2> QED
    BY <1>1, <1>2, <1>3, WFMin
<1>5. \A j \in Free : ~(j < k)
  BY <1>2, <1>4 DEF OpToRel
<1> QED
  BY <1>5

LEMMA OneMore ==
  ASSUME NEW S, NEW x, IsFiniteSet(S), NEW n \in Nat, Cardinality(S) < n
  PROVE  IsFiniteSet(S \cup {x}) /\ Cardinality(S \cup {x}) < n + 1
<1>1. IsFiniteSet(S \cup {x})
  BY FS_AddElement
<1>2. Cardinality(S) \in Nat
  BY FS_CardinalityType
<1>3. CASE x \in S
  <2>1. S \cup {x} = S
    BY <1>3
  <2>2. Cardinality(S) < n + 1
    BY <1>2
  <2> QED
    BY <1>1, <2>1, <2>2
<1>4. CASE x \notin S
  <2>1. Cardinality(S \cup {x}) = Cardinality(S) + 1
    BY <1>4, FS_AddElement
  <2> DEFINE c == Cardinality(S)
             d == Cardinality(S \cup {x})
  <2>2. c \in Nat /\ d = c + 1 /\ c < n
    BY <1>2, <2>1
  <2>3. d < n + 1
    <3> HIDE DEF c, d
    <3> QED
      BY <2>2
  <2> QED
    BY <1>1, <2>3
<1> QED
  BY <1>3, <1>4

LEMMA FreshKeys ==
  ASSUME messages \in Seq(Message), editing \in Nat
  PROVE  /\ NextKey \in Nat /\ NextKey \notin Keys
         /\ AnswerKey \in Nat /\ AnswerKey \notin Keys /\ AnswerKey # NextKey
<1> DEFINE S == {messages[i].key : i \in DOMAIN messages}
           f == [i \in DOMAIN messages |-> messages[i].key]
           n == Len(messages) + 3
<1>1. DOMAIN messages = 1..Len(messages) /\ Len(messages) \in Nat
  BY LenProperties
<1>2. IsFiniteSet(DOMAIN messages) /\ Cardinality(DOMAIN messages) = Len(messages)
  BY <1>1, FS_Interval
<1>3. f \in Surjection(DOMAIN messages, S)
  BY DEF Surjection
<1>4. IsFiniteSet(S) /\ Cardinality(S) <= Len(messages)
  <2> HIDE DEF S, f
  <2> QED
    BY <1>2, <1>3, FS_Surjection
<1> HIDE DEF S
<1>5. Cardinality(S) < Len(messages) + 1
  BY <1>1, <1>4, FS_CardinalityType
<1>6. Keys = S \cup {editing}
  BY DEF Keys, S
<1>7. IsFiniteSet(Keys) /\ Cardinality(Keys) < Len(messages) + 2
  <2>1. Len(messages) + 1 \in Nat
    BY <1>1
  <2>2. Cardinality(S \cup {editing}) < (Len(messages) + 1) + 1 /\ IsFiniteSet(S \cup {editing})
    BY <1>4, <1>5, <2>1, OneMore
  <2>3. (Len(messages) + 1) + 1 = Len(messages) + 2
    BY <1>1
  <2> QED
    BY <1>6, <2>2, <2>3
<1>8. IsFiniteSet(Keys \cup {NextKey}) /\ Cardinality(Keys \cup {NextKey}) < Len(messages) + 3
  <2>1. Len(messages) + 2 \in Nat
    BY <1>1
  <2>2. Cardinality(Keys \cup {NextKey}) < (Len(messages) + 2) + 1 /\ IsFiniteSet(Keys \cup {NextKey})
    BY <1>7, <2>1, OneMore
  <2>3. (Len(messages) + 2) + 1 = Len(messages) + 3
    BY <1>1
  <2> QED
    BY <2>2, <2>3
<1>9. \E k \in 1..n : k \notin Keys /\ 1..(k - 1) \subseteq Keys
  <2>1. n \in Nat /\ Cardinality(Keys) < n
    BY <1>1, <1>7, FS_CardinalityType
  <2> HIDE DEF n
  <2> QED
    BY <2>1, <1>7, LeastFree
<1>10. \E k \in 1..n : k \notin Keys \cup {NextKey} /\ 1..(k - 1) \subseteq Keys \cup {NextKey}
  <2>1. n \in Nat /\ Cardinality(Keys \cup {NextKey}) < n
    BY <1>1, <1>8
  <2> HIDE DEF n
  <2> QED
    BY <2>1, <1>8, LeastFree
<1>11. NextKey \in 1..n /\ NextKey \notin Keys
  BY <1>9 DEF NextKey, FreeKey
<1>12. AnswerKey \in 1..n /\ AnswerKey \notin Keys \cup {NextKey}
  BY <1>10 DEF AnswerKey, FreeKey
<1> QED
  BY <1>1, <1>11, <1>12

-----------------------------------------------------------------------------
(* loadMessages: a loaded message is a stored one, repaired *)

LEMMA NormalizedIs ==
  ASSUME NEW m \in Message
  PROVE  /\ Normalized(m) \in Message /\ Normalized(m).key = m.key /\ Normalized(m).of = m.of
         /\ IsPending(Normalized(m)) => Normalized(m) = m
BY MessageOps DEF Normalized, IsPending, CompleteAssistantMessage, Pending, Message

Repaired(m) == {Normalized(m)} \cup IF IsPending(m) THEN {WithError(m)} ELSE {}

LEMMA LoadedIs ==
  ASSUME TypeInv, StoreInv
  PROVE  LET loaded == LoadMessages(stored) IN
         /\ loaded \in Seq(Message) /\ KeysDiffer(loaded) /\ Len(loaded) <= MaxStored
         /\ \A i \in DOMAIN loaded : ~IsPending(loaded[i])
         /\ \A i \in DOMAIN loaded : \E j \in DOMAIN stored : loaded[i] \in Repaired(stored[j])
<1> DEFINE norm == [i \in DOMAIN stored |-> Normalized(stored[i])]
           trim == Trimmed(norm)
           open == {i \in DOMAIN trim : ~IsUser(trim[i]) /\ trim[i].status \in Pending}
           last == CHOOSE i \in open : \A j \in open : j <= i
           loaded == IF open = {} THEN trim ELSE [trim EXCEPT ![last] = WithError(@)]
<1>1. /\ stored \in Seq(Message) /\ KeysDiffer(stored)
      /\ DOMAIN stored = 1..Len(stored) /\ Len(stored) \in Nat
  BY LenProperties DEF TypeInv, MessageTypes
<1>2. \A i \in DOMAIN stored : stored[i] \in Message
  BY <1>1, ElementOfSeq
<1>3. norm \in [1..Len(stored) -> Message]
  BY <1>1, <1>2, NormalizedIs
<1>4. norm \in Seq(Message) /\ DOMAIN norm = DOMAIN stored
  BY <1>1, <1>3, SeqDef
<1>5. \A i \in DOMAIN stored : norm[i] = Normalized(stored[i])
  OBVIOUS
<1>6. KeysDiffer(norm)
  BY <1>1, <1>2, <1>4, <1>5, NormalizedIs DEF KeysDiffer
<1> HIDE DEF norm
<1>7. /\ PartOf(norm, trim) /\ Len(trim) <= MaxStored
      /\ \A j \in DOMAIN trim : /\ j + Len(norm) - Len(trim) \in DOMAIN norm
                                /\ trim[j] = norm[j + Len(norm) - Len(trim)]
  BY <1>4, <1>6, TrimmedPart
<1> HIDE DEF trim
<1>8. trim \in Seq(Message) /\ KeysDiffer(trim) /\ DOMAIN trim = 1..Len(trim) /\ Len(trim) \in Nat
  BY <1>7, LenProperties DEF PartOf
<1>9. \A i \in DOMAIN trim : trim[i] \in Message /\ \E j \in DOMAIN stored : trim[i] = Normalized(stored[j])
  BY <1>4, <1>5, <1>7, <1>8, ElementOfSeq DEF PartOf
<1>10. \A i \in DOMAIN trim : IsPending(trim[i]) =>
         \E j \in DOMAIN stored : trim[i] = stored[j] /\ IsPending(stored[j])
  BY <1>2, <1>9, NormalizedIs
<1>11. open = {i \in DOMAIN trim : IsPending(trim[i])}
  BY <1>10 DEF StoreInv, IsPending
<1>12. \A i, j \in open : i = j
  <2> SUFFICES ASSUME NEW i \in open, NEW j \in open
               PROVE  i = j
    OBVIOUS
  <2>1. PICK h \in DOMAIN stored : trim[i] = stored[h] /\ IsPending(stored[h])
    BY <1>10, <1>11
  <2>2. PICK k \in DOMAIN stored : trim[j] = stored[k] /\ IsPending(stored[k])
    BY <1>10, <1>11
  <2>3. h = k
    BY <2>1, <2>2 DEF StoreInv
  <2> QED
    BY <1>8, <1>11, <2>1, <2>2, <2>3 DEF KeysDiffer
<1>13. LoadMessages(stored) = loaded
  BY DEF LoadMessages, Sanitized, norm, trim
<1>14. CASE open = {}
  <2>1. loaded = trim
    BY <1>14
  <2> QED
    BY <1>7, <1>8, <1>9, <1>11, <1>13, <1>14, <2>1 DEF Repaired
<1>15. CASE open # {}
  <2>1. PICK i \in open : TRUE
    BY <1>15
  <2>2. i \in Nat
    BY <1>8
  <2>3. last = i
    BY <1>12, <2>1, <2>2
  <2> HIDE DEF last
  <2>4. loaded = [trim EXCEPT ![i] = WithError(trim[i])]
    BY <1>15, <2>3
  <2>5. WithError(trim[i]) \in Message /\ WithError(trim[i]).key = trim[i].key
    BY <1>9, MessageOps
  <2>6. ~IsPending(WithError(trim[i]))
    BY <1>9 DEF IsPending, WithError, Pending, Message
  <2>7. i \in 1..Len(trim)
    BY <1>8
  <2> HIDE DEF loaded
  <2>8. /\ loaded \in Seq(Message) /\ Len(loaded) = Len(trim)
        /\ \A j \in 1..Len(trim) : loaded[j] = IF j = i THEN WithError(trim[i]) ELSE trim[j]
    BY <1>8, <2>4, <2>5, <2>7, ExceptSeq
  <2>9. DOMAIN loaded = 1..Len(trim)
    BY <2>8, LenProperties
  <2>10. KeysDiffer(loaded)
    BY <1>8, <2>5, <2>8, <2>9 DEF KeysDiffer
  <2>11. \A j \in DOMAIN loaded : ~IsPending(loaded[j])
    BY <1>8, <1>11, <1>12, <2>6, <2>8, <2>9
  <2>12. \A j \in DOMAIN loaded : \E h \in DOMAIN stored : loaded[j] \in Repaired(stored[h])
    <3> SUFFICES ASSUME NEW j \in DOMAIN loaded
                 PROVE  \E h \in DOMAIN stored : loaded[j] \in Repaired(stored[h])
      OBVIOUS
    <3>1. CASE j = i
      <4>1. PICK h \in DOMAIN stored : trim[i] = stored[h] /\ IsPending(stored[h])
        BY <1>10, <1>11
      <4> QED
        BY <2>7, <2>8, <3>1, <4>1 DEF Repaired
    <3>2. CASE j # i
      BY <1>8, <1>9, <2>8, <2>9, <3>2 DEF Repaired
    <3> QED
      BY <3>1, <3>2
  <2> QED
    BY <1>7, <1>13, <2>8, <2>10, <2>11, <2>12
<1> QED
  BY <1>14, <1>15

-----------------------------------------------------------------------------
(* Sending: sendChat called by send, regenerate and submit *)

LEMMA UserMessages ==
  ASSUME NEW k \in Nat
  PROVE  /\ UserMessage(k) \in Message /\ UserMessage(k).key = k
         /\ ~IsPending(UserMessage(k)) /\ IsUser(UserMessage(k))
         /\ \A g \in Gen : /\ LoadingMessage(k, g) \in Message /\ LoadingMessage(k, g).key = k
                           /\ IsPending(LoadingMessage(k, g)) /\ LoadingMessage(k, g).of = g
BY PlaygroundConstants, TokenTexts
   DEF UserMessage, LoadingMessage, Message, Statuses, Pending, IsPending, IsUser

(* sendChat from any of its callers: the messages before the placeholder   *)
(* are shown ones, the new one of the user, or the edited one.             *)
Sends(msgs) ==
  /\ mounted /\ SendChat(msgs) /\ changes' = changes /\ editing' \in {editing, 0}
  /\ msgs \in Seq(Message) /\ KeysDiffer(msgs)
  /\ \A i \in DOMAIN msgs :
       /\ msgs[i].key # AnswerKey /\ ~IsPending(msgs[i])
       /\ \/ \E h \in DOMAIN messages : msgs[i] = messages[h]
          \/ msgs[i] = UserMessage(NextKey)
          \/ \E h \in DOMAIN messages :
               /\ msgs[i].key = messages[h].key /\ msgs[i].key = editing /\ editing' = 0
               /\ ~msgs[i].own /\ msgs[i].sent = messages[h].sent

LEMMA SentIs ==
  ASSUME IInv, NEW msgs, Sends(msgs)
  PROVE  LET g == chatGen + 1
             m == LoadingMessage(AnswerKey, g)
         IN  /\ g \in Gen /\ g # 0 /\ chatGen' = g /\ requesting' = TRUE
             /\ m \in Message /\ m.key = AnswerKey /\ IsPending(m) /\ m.of = g
             /\ messages' \in Seq(Message) /\ KeysDiffer(messages')
             /\ Len(messages') = Len(msgs) + 1 /\ messages' # <<>> /\ Last(messages') = m
             /\ \A j \in DOMAIN messages' :
                  j \in DOMAIN msgs \/ (j = Len(msgs) + 1 /\ messages'[j] = m)
             /\ \A j \in DOMAIN msgs : messages'[j] = msgs[j]
<1> DEFINE g == chatGen + 1
           m == LoadingMessage(AnswerKey, g)
<1>1. MessageTypes /\ StateTypes
  BY DEF IInv, TypeInv
<1>2. g \in Gen /\ g # 0 /\ chatGen' = g /\ requesting' = TRUE
  BY <1>1, PlaygroundConstants DEF Sends, SendChat, SendStreaming, SendPlain, StateTypes, Gen
<1>3. AnswerKey \in Nat
  BY <1>1, FreshKeys DEF MessageTypes, StateTypes
<1>4. m \in Message /\ m.key = AnswerKey /\ IsPending(m) /\ m.of = g
  BY <1>2, <1>3, UserMessages
<1>5. messages' = Append(msgs, m)
  BY DEF Sends, SendChat, UpdateMessages
<1> HIDE DEF m
<1>6. /\ messages' \in Seq(Message) /\ KeysDiffer(messages')
      /\ Len(messages') = Len(msgs) + 1 /\ messages' # <<>> /\ Last(messages') = m
      /\ \A j \in DOMAIN messages' : j \in DOMAIN msgs \/ j = Len(msgs) + 1
      /\ \A j \in DOMAIN msgs : messages'[j] = msgs[j]
      /\ messages'[Len(msgs) + 1] = m
  BY <1>4, <1>5, Appended, SMTT(30) DEF Sends
<1> QED
  BY <1>2, <1>4, <1>6 DEF m

LEMMA SendIs ==
  ASSUME IInv, NEW msgs, Sends(msgs)
  PROVE  IInv'
<1> DEFINE g == chatGen + 1
           m == LoadingMessage(AnswerKey, g)
<1>1. MessageTypes /\ StateTypes /\ ReqInv /\ StoreInv
  BY DEF IInv, TypeInv
<1>2. g \in Gen /\ g # 0 /\ chatGen' = g /\ requesting' = TRUE
  BY SentIs
<1>4. IsPending(m) /\ m.of = g
  BY SentIs
<1>5. /\ UNCHANGED <<mounted, stored>> /\ saveTimer' = TRUE /\ mounted /\ SendChat(msgs)
      /\ \A i \in DOMAIN msgs : ~IsPending(msgs[i])
  BY DEF Sends, SendChat, UpdateMessages
<1>6. /\ messages' \in Seq(Message) /\ KeysDiffer(messages')
      /\ Len(messages') = Len(msgs) + 1 /\ messages' # <<>> /\ Last(messages') = m
      /\ \A j \in DOMAIN messages' : j \in DOMAIN msgs \/ j = Len(msgs) + 1
      /\ \A j \in DOMAIN msgs : messages'[j] = msgs[j]
  BY SentIs
<1> HIDE DEF m
<1>0. editing' \in Nat /\ changes' \in 0..MaxChanges
  BY <1>1 DEF Sends, StateTypes
<1>7. MessageTypes'
  BY <1>1, <1>5, <1>6 DEF MessageTypes, KeysDiffer
<1>8. ConvInv'
  BY <1>2, <1>4, <1>5, <1>6 DEF ConvInv
<1>9. StoreInv'
  BY <1>1, <1>5 DEF StoreInv
<1>10. StateTypes'
  <2>1. Unanswered \in [style : Styles, got : 0..MaxChunks]
        /\ \A s \in Styles : [style |-> s, got |-> 0] \in [style : Styles, got : 0..MaxChunks]
    BY PlaygroundConstants DEF Unanswered, Styles
  <2>2. answer' \in [style : Styles, got : 0..MaxChunks]
    BY <1>5, <2>1 DEF SendChat, SendStreaming, SendPlain
  <2>3. pending' = [gen |-> g, text |-> <<>>] /\ flushTimer' = 0
    BY <1>5 DEF SendChat, SendStreaming, SendPlain, Discard
  <2>4. streamGen' = streamGen + 1 /\ source' = 0 /\ streaming' = FALSE
    BY <1>5 DEF SendChat, SendStreaming, SendPlain
  <2>5. \E r \in Request : req' = [req EXCEPT ![g] = r]
    <3>1. /\ [kind |-> "plain", stream |-> 0, phase |-> "open"] \in Request
          /\ [kind |-> "stream", stream |-> streamGen + 1, phase |-> "headers"] \in Request
      BY <1>1 DEF StateTypes, Request
    <3> QED
      BY <1>5, <3>1 DEF SendChat, SendStreaming, SendPlain
  <2>6. req' \in [Gen -> Request]
    BY <1>1, <1>2, <2>5 DEF StateTypes
  <2> HIDE DEF g
  <2>7. pending' \in [gen : 0..MaxGen, text : Seq(Tokens)]
    BY <1>2, <2>3, TokenTexts DEF Gen
  <2>8. chatGen' \in 0..MaxGen /\ flushTimer' \in 0..MaxGen /\ source' \in 0..MaxGen /\ streamGen' \in Nat
    BY <1>1, <1>2, <2>3, <2>4, PlaygroundConstants DEF StateTypes, Gen
  <2> QED
    BY <1>0, <1>2, <1>5, <2>2, <2>4, <2>6, <2>7, <2>8, <1>1 DEF StateTypes
<1>11. ReqInv'
  <2>1. /\ source' = 0 /\ streaming' = FALSE /\ streamGen' = streamGen + 1
        /\ pending'.gen = g /\ pending'.text = <<>>
    BY <1>5 DEF SendChat, SendStreaming, SendPlain, Discard
  <2>2. \E r \in Request :
          /\ req' = [req EXCEPT ![g] = r] /\ r.stream <= streamGen + 1
          /\ r.phase = "headers" => r.kind = "stream"
          /\ r.phase = "open" => r.kind = "plain"
    <3> HIDE DEF g
    <3>1. streamGen \in Nat
      BY <1>1 DEF StateTypes
    <3> DEFINE r == [kind |-> "stream", stream |-> streamGen + 1, phase |-> "headers"]
               q == [kind |-> "plain", stream |-> 0, phase |-> "open"]
    <3>2. /\ r \in Request /\ r.stream <= streamGen + 1
          /\ r.phase = "headers" /\ r.kind = "stream"
      BY <3>1 DEF Request
    <3>3. q \in Request /\ q.stream <= streamGen + 1 /\ q.phase = "open" /\ q.kind = "plain"
      BY <3>1 DEF Request
    <3>4. req' = [req EXCEPT ![g] = r] \/ req' = [req EXCEPT ![g] = q]
      BY <1>5 DEF SendChat, SendStreaming, SendPlain, g
    <3> HIDE DEF r, q
    <3> QED
      BY <3>2, <3>3, <3>4
  <2>3. chatGen \in Nat /\ streamGen \in Nat /\ req \in [Gen -> Request] /\ Gen \subseteq Nat
        /\ \A h \in Gen : req[h].stream \in Nat
    BY <1>1, PlaygroundConstants DEF StateTypes, Request, Gen
  <2>4. \A h \in Gen : h # g => req'[h] = req[h]
    BY <2>2, <2>3
  <2>5. /\ req'[g].stream <= streamGen' /\ (req'[g].phase = "headers" => req'[g].kind = "stream")
        /\ (req'[g].phase = "open" => req'[g].kind = "plain")
    BY <1>2, <2>1, <2>2, <2>3
  <2>6. ASSUME NEW h \in Gen
        PROVE  /\ req'[h].phase = "headers" => req'[h].kind = "stream"
               /\ (Running(h))' => h = chatGen'
               /\ req'[h].stream <= streamGen'
               /\ h > chatGen' => req'[h].phase = "none"
               /\ h = chatGen' => ~(req'[h].phase = "open" /\ req'[h].kind = "stream")
    <3>1. CASE h = g
      BY <1>2, <2>1, <2>3, <2>5, <3>1 DEF Running
    <3>2. CASE h # g
      <4>1. req'[h] = req[h] /\ req[h].stream <= streamGen /\ (h > chatGen => req[h].phase = "none")
            /\ (req[h].phase = "headers" => req[h].kind = "stream")
        BY <1>1, <2>4, <3>2 DEF ReqInv
      <4> QED
        BY <1>2, <2>1, <2>3, <3>2, <4>1 DEF Running
    <3> QED
      BY <3>1, <3>2
  <2> QED
    BY <1>2, <2>1, <2>6 DEF ReqInv, Running
<1> QED
  BY <1>7, <1>8, <1>9, <1>10, <1>11 DEF IInv, TypeInv

LEMMA KeysTaken ==
  ASSUME IInv
  PROVE  /\ NextKey \in Nat /\ AnswerKey \in Nat /\ AnswerKey # NextKey
         /\ \A i \in DOMAIN messages : messages[i].key # NextKey /\ messages[i].key # AnswerKey
  BY FreshKeys DEF IInv, TypeInv, MessageTypes, StateTypes, Keys

LEMMA NothingPending ==
  ASSUME IInv, ~Generating
  PROVE  ~requesting /\ \A i \in DOMAIN messages : ~IsPending(messages[i])
BY DEF IInv, ConvInv, Generating

LEMMA SendStep ==
  ASSUME IInv, HandleSendMessage
  PROVE  Sends(Append(messages, UserMessage(NextKey)))
<1> DEFINE u == UserMessage(NextKey)
           msgs == Append(messages, u)
<1>1. /\ messages \in Seq(Message) /\ KeysDiffer(messages) /\ editing \in Nat /\ changes \in 0..MaxChanges
      /\ DOMAIN messages = 1..Len(messages)
  BY LenProperties DEF IInv, TypeInv, MessageTypes, StateTypes
<1>2. u \in Message /\ u.key = NextKey /\ ~IsPending(u)
  BY KeysTaken, UserMessages
<1>3. mounted /\ ~Generating /\ SendChat(msgs) /\ UNCHANGED <<editing, changes>>
  BY DEF HandleSendMessage
<1> HIDE DEF u
<1>4. /\ msgs \in Seq(Message) /\ KeysDiffer(msgs)
      /\ \A j \in DOMAIN msgs : j \in DOMAIN messages \/ j = Len(messages) + 1
      /\ \A j \in DOMAIN messages : msgs[j] = messages[j]
      /\ msgs[Len(messages) + 1] = u
  BY <1>1, <1>2, KeysTaken, Appended
<1> HIDE DEF msgs
<1>5. \A i \in DOMAIN msgs : msgs[i].key # AnswerKey /\ ~IsPending(msgs[i])
  BY <1>2, <1>3, <1>4, KeysTaken, NothingPending
<1>6. \A i \in DOMAIN msgs :
        msgs[i] = UserMessage(NextKey) \/ \E h \in DOMAIN messages : msgs[i] = messages[h]
  BY <1>4 DEF u
<1>7. Sends(msgs)
  BY <1>3, <1>4, <1>5, <1>6 DEF Sends
<1> QED
  BY <1>7 DEF msgs, u

LEMMA RegenerateStep ==
  ASSUME IInv, NEW i \in DOMAIN messages, HandleRegenerateMessage(i)
  PROVE  Sends(SubSeq(messages, 1, IF IsUser(messages[i]) THEN i ELSE i - 1))
<1> DEFINE n == IF IsUser(messages[i]) THEN i ELSE i - 1
           msgs == SubSeq(messages, 1, n)
<1>1. /\ messages \in Seq(Message) /\ KeysDiffer(messages) /\ editing \in Nat /\ changes \in 0..MaxChanges
      /\ DOMAIN messages = 1..Len(messages) /\ Len(messages) \in Nat
  BY LenProperties DEF IInv, TypeInv, MessageTypes, StateTypes
<1>2. mounted /\ ~Generating /\ SendChat(msgs) /\ UNCHANGED <<editing, changes>>
  BY DEF HandleRegenerateMessage
<1>3. n \in 0..Len(messages) /\ 1 \in 1..(Len(messages) + 1)
  BY <1>1
<1> HIDE DEF n
<1>4. PartOf(messages, msgs)
  BY <1>1, <1>3, SubSeqPart
<1> HIDE DEF msgs
<1>5. \A j \in DOMAIN msgs : msgs[j].key # AnswerKey /\ ~IsPending(msgs[j])
  BY <1>2, <1>4, KeysTaken, NothingPending DEF PartOf
<1>6. Sends(msgs)
  BY <1>2, <1>4, <1>5 DEF PartOf, Sends
<1> QED
  BY <1>6 DEF msgs, n

\* the messages up to an edited message of the user, and those before it
LEMMA CutAfterEdit ==
  ASSUME IInv, NEW i \in DOMAIN messages
  PROVE  LET msgs == SubSeq(EditedMessages(i), 1, i) IN
         /\ msgs \in Seq(Message) /\ KeysDiffer(msgs)
         /\ \A j \in DOMAIN msgs : /\ j \in 1..i
                                   /\ msgs[j] = IF j = i THEN EditedMessages(i)[i] ELSE messages[j]
<1>1. /\ messages \in Seq(Message) /\ DOMAIN messages = 1..Len(messages) /\ Len(messages) \in Nat
  BY LenProperties DEF IInv, TypeInv, MessageTypes
<1> DEFINE s == EditedMessages(i)
<1>2. /\ s \in Seq(Message) /\ KeysDiffer(s) /\ Len(s) = Len(messages)
      /\ \A j \in DOMAIN messages : j # i => s[j] = messages[j]
  BY EditedIs DEF IInv
<1>3. i \in 0..Len(s) /\ 1 \in 1..(Len(s) + 1)
  BY <1>1, <1>2
<1> HIDE DEF s
<1> DEFINE msgs == SubSeq(s, 1, i)
<1>4. PartOf(s, msgs) /\ \A j \in DOMAIN msgs : msgs[j] = s[1 + j - 1] /\ 1 + j - 1 \in 1..i
  BY <1>2, <1>3, SubSeqPart
<1>5. DOMAIN msgs \subseteq Nat
  BY <1>4, LenProperties DEF PartOf
<1> HIDE DEF msgs
<1>6. \A j \in DOMAIN msgs : j \in 1..i /\ msgs[j] = IF j = i THEN s[i] ELSE messages[j]
  BY <1>1, <1>2, <1>4, <1>5
<1> QED
  BY <1>4, <1>6 DEF PartOf, msgs, s

LEMMA SubmitStep ==
  ASSUME IInv, NEW i \in DOMAIN messages, SubmitEdit(i)
  PROVE  Sends(SubSeq(EditedMessages(i), 1, i))
<1> DEFINE msgs == SubSeq(EditedMessages(i), 1, i)
           m == EditedMessages(i)[i]
<1>1. /\ messages \in Seq(Message) /\ DOMAIN messages = 1..Len(messages) /\ Len(messages) \in Nat
      /\ changes \in 0..MaxChanges /\ messages[i] \in Message
  BY LenProperties, ElementOfSeq DEF IInv, TypeInv, MessageTypes, StateTypes
<1>2. /\ mounted /\ SendChat(msgs) /\ IsUser(messages[i]) /\ editing' = 0 /\ changes' = changes
      /\ messages[i].key = editing
  BY DEF SubmitEdit
<1>3. /\ msgs \in Seq(Message) /\ KeysDiffer(msgs)
      /\ \A j \in DOMAIN msgs : j \in 1..i /\ msgs[j] = IF j = i THEN m ELSE messages[j]
  BY CutAfterEdit
<1>4. m.key = messages[i].key /\ m.status = messages[i].status /\ m.sent = messages[i].sent /\ ~m.own
  BY EditedIs DEF IInv
<1> HIDE DEF msgs, m
<1>5. ~IsPending(messages[i])
  <2> SUFFICES ASSUME IsPending(messages[i]) PROVE FALSE
    OBVIOUS
  <2>1. messages[i] = Last(messages) /\ requesting
    BY DEF IInv, ConvInv, Last
  <2> QED
    BY <1>2, <2>1 DEF IInv, ConvInv, IsUser
<1>6. \A j \in 1..i : j # i => ~IsPending(messages[j])
  BY <1>1 DEF IInv, ConvInv
<1>7. \A j \in DOMAIN msgs : msgs[j].key # AnswerKey /\ ~IsPending(msgs[j])
  BY <1>1, <1>3, <1>4, <1>5, <1>6, KeysTaken DEF IsPending
<1>8. \A j \in DOMAIN msgs : j \in DOMAIN messages /\ (j # i => msgs[j] = messages[j])
  BY <1>1, <1>3
<1>9. i \in DOMAIN msgs =>
        /\ msgs[i].key = messages[i].key /\ msgs[i].key = editing /\ editing' = 0
        /\ ~msgs[i].own /\ msgs[i].sent = messages[i].sent
  BY <1>2, <1>3, <1>4
<1>10. Sends(msgs)
  BY <1>2, <1>3, <1>7, <1>8, <1>9 DEF Sends
<1> QED
  BY <1>10 DEF msgs

-----------------------------------------------------------------------------
(* The other actions of the user *)

\* the conversation is cut while nothing is under way
LEMMA CutInv ==
  ASSUME IInv, ~Generating, mounted, PartOf(messages, messages'), saveTimer' \in BOOLEAN,
         editing' \in Nat, changes' \in 0..MaxChanges,
         UNCHANGED <<chatVars, streamVars, reqVars, mounted, stored>>
  PROVE  IInv'
<1>1. MessageTypes'
  BY DEF IInv, TypeInv, MessageTypes, PartOf, KeysDiffer
<1>2. StateTypes'
  BY DEF IInv, TypeInv, StateTypes, chatVars, streamVars, reqVars
<1>3. ConvInv'
  BY NothingPending DEF ConvInv, PartOf, chatVars
<1>4. ReqInv'
  BY DEF IInv, ReqInv, Running, Streamed, IsCurrent, chatVars, streamVars, reqVars
<1>5. StoreInv'
  BY DEF IInv, StoreInv
<1> QED
  BY <1>1, <1>2, <1>3, <1>4, <1>5 DEF IInv, TypeInv

LEMMA EditorStep ==
  ASSUME IInv, CancelEdit \/ \E i \in DOMAIN messages : HandleEditMessage(i)
  PROVE  IInv'
<1>1. /\ UNCHANGED <<messages, chatVars, streamVars, reqVars, storageVars>>
      /\ editing' = 0 \/ \E i \in DOMAIN messages : editing' = messages[i].key
      /\ changes' = changes \/ (changes < MaxChanges /\ changes' = changes + 1)
  BY DEF CancelEdit, HandleEditMessage
<1>2. \A i \in DOMAIN messages : messages[i].key \in Nat
  <2>1. messages \in Seq(Message) /\ DOMAIN messages = 1..Len(messages)
    BY LenProperties DEF IInv, TypeInv, MessageTypes
  <2>2. \A i \in DOMAIN messages : messages[i] \in Message
    BY <2>1, ElementOfSeq
  <2> QED
    BY <2>2 DEF Message
<1>3. MessageTypes'
  BY <1>1 DEF IInv, TypeInv, MessageTypes, KeysDiffer, storageVars
<1>4. editing' \in Nat /\ changes' \in 0..MaxChanges
  BY <1>1, <1>2, PlaygroundConstants DEF IInv, TypeInv, StateTypes
<1>5. StateTypes'
  BY <1>1, <1>4 DEF IInv, TypeInv, StateTypes, chatVars, streamVars, reqVars, storageVars
<1>6. ConvInv' /\ ReqInv' /\ StoreInv'
  BY <1>1 DEF IInv, ConvInv, ReqInv, StoreInv, Running, Streamed, IsCurrent,
              chatVars, streamVars, reqVars, storageVars
<1> QED
  BY <1>3, <1>5, <1>6 DEF IInv, TypeInv

LEMMA SaveEditStep ==
  ASSUME IInv, NEW i \in DOMAIN messages, SaveEdit(i)
  PROVE  IInv'
<1>1. /\ messages' = EditedMessages(i) /\ saveTimer' = TRUE /\ editing' = 0
      /\ UNCHANGED <<chatVars, streamVars, reqVars, mounted, stored, changes>>
  BY DEF SaveEdit, UpdateMessages
<1>2. /\ messages \in Seq(Message) /\ DOMAIN messages = 1..Len(messages) /\ messages[i] \in Message
  BY LenProperties, ElementOfSeq DEF IInv, TypeInv, MessageTypes
<1>3. /\ messages' \in Seq(Message) /\ KeysDiffer(messages') /\ Len(messages') = Len(messages)
      /\ \A j \in DOMAIN messages : messages'[j].status = messages[j].status /\ messages'[j].of = messages[j].of
  BY <1>1, <1>2, EditedIs DEF IInv
<1>4. DOMAIN messages' = DOMAIN messages
  BY <1>2, <1>3, LenProperties
<1>5. MessageTypes'
  BY <1>1, <1>3 DEF IInv, TypeInv, MessageTypes, KeysDiffer
<1>6. StateTypes'
  BY <1>1 DEF IInv, TypeInv, StateTypes, chatVars, streamVars, reqVars
<1>7. messages' # <<>> /\ messages # <<>>
  BY <1>2, <1>3, <1>4, EmptySeq
<1>8. Last(messages').status = Last(messages).status /\ Last(messages').of = Last(messages).of
  BY <1>2, <1>3, <1>4, <1>7, LastOf DEF Last
<1>9. ConvInv'
  BY <1>1, <1>3, <1>4, <1>7, <1>8 DEF IInv, ConvInv, IsPending, chatVars
<1>10. ReqInv' /\ StoreInv'
  BY <1>1 DEF IInv, ReqInv, StoreInv, Running, Streamed, IsCurrent, chatVars, streamVars, reqVars
<1> QED
  BY <1>5, <1>6, <1>9, <1>10 DEF IInv, TypeInv

LEMMA DeleteStep ==
  ASSUME IInv, NEW i \in DOMAIN messages, HandleDeleteMessage(i)
  PROVE  IInv'
<1>1. PartOf(messages, messages')
  BY RemovedPart DEF HandleDeleteMessage, UpdateMessages, IInv, TypeInv, MessageTypes
<1>2. editing' \in Nat /\ changes' \in 0..MaxChanges /\ saveTimer' \in BOOLEAN
  BY PlaygroundConstants DEF HandleDeleteMessage, UpdateMessages, IInv, TypeInv, StateTypes
<1> QED
  BY <1>1, <1>2, CutInv DEF HandleDeleteMessage

LEMMA ClearStep ==
  ASSUME IInv, HandleClearMessages
  PROVE  IInv'
<1>1. messages' = <<>> /\ saveTimer' = TRUE
  BY DEF HandleClearMessages, UpdateMessages
<1>2. PartOf(messages, messages')
  BY <1>1, EmptySeq DEF PartOf, KeysDiffer
<1>3. editing' \in Nat /\ changes' \in 0..MaxChanges
  BY DEF HandleClearMessages, IInv, TypeInv, StateTypes
<1> QED
  BY <1>1, <1>2, <1>3, CutInv DEF HandleClearMessages

-----------------------------------------------------------------------------
(* Events: what ends the current request leaves nothing pending *)

LEMMA UnchangedConv ==
  ASSUME IInv, UNCHANGED <<messages, requesting, chatGen, stored, mounted>>
  PROVE  MessageTypes' /\ StoreInv' /\ ConvInv'
BY DEF IInv, TypeInv, MessageTypes, KeysDiffer, StoreInv, ConvInv

LEMMA StatusAfter ==
  ASSUME NEW m \in Message
  PROVE  /\ ~IsPending(WithError(m)) /\ ~IsPending(Finished(m)) /\ ~IsPending(Stopped(m))
         /\ ~IsPending(CompleteAssistantMessage(m)) /\ \A g \in Gen : ~IsPending(Whole(m, g))
BY DEF IsPending, WithError, Finished, Stopped, Whole, CompleteAssistantMessage, Pending, Message

LEMMA FlushedLast ==
  ASSUME IInv, NEW g, messages # <<>>
  PROVE  Last(Flushed(g)) \in Message /\ Last(messages) \in Message
<1>1. messages \in Seq(Message) /\ Rewrites(messages, Flushed(g))
  BY FlushedIs DEF IInv, TypeInv, MessageTypes
<1> QED
  BY <1>1, RewrittenLast, LastOf

LEMMA ErrorInv ==
  ASSUME IInv, NEW g \in Gen, StreamError(g), g = chatGen => requesting,
         UNCHANGED <<mounted, stored>>
  PROVE  MessageTypes' /\ StoreInv' /\ ConvInv'
<1>1. CASE g # chatGen
  BY <1>1, UnchangedConv DEF StreamError, chatVars
<1>2. CASE g = chatGen
  <2>1. messages # <<>> /\ ~IsUser(Last(messages))
    BY <1>2, LastIsAnswered
  <2>2. Rewrites(messages, messages') /\ Last(messages') = WithError(Last(Flushed(g))) /\ ~requesting'
    BY <1>2, <2>1, StreamErrorIs DEF IInv
  <2>3. ~IsPending(Last(messages'))
    BY <2>1, <2>2, FlushedLast, StatusAfter
  <2> QED
    BY <1>2, <2>2, <2>3, EndedConv, RewrittenInv
<1> QED
  BY <1>1, <1>2

LEMMA CompleteInv ==
  ASSUME IInv, NEW g \in Gen, StreamComplete(g), g = chatGen => requesting,
         UNCHANGED <<mounted, stored>>
  PROVE  MessageTypes' /\ StoreInv' /\ ConvInv'
<1>1. CASE g # chatGen
  BY <1>1, UnchangedConv DEF StreamComplete, chatVars
<1>2. CASE g = chatGen
  <2>1. messages # <<>> /\ ~IsUser(Last(messages))
    BY <1>2, LastIsAnswered
  <2>2. Rewrites(messages, messages') /\ Last(messages') = Finished(Last(Flushed(g))) /\ ~requesting'
    BY <1>2, <2>1, StreamCompleteIs DEF IInv
  <2>3. ~IsPending(Last(messages'))
    BY <2>1, <2>2, FlushedLast, StatusAfter
  <2> QED
    BY <1>2, <2>2, <2>3, EndedConv, RewrittenInv
<1> QED
  BY <1>1, <1>2

LEMMA IdleIs ==
  /\ Idle \in Request /\ Idle.phase = "none" /\ Idle.kind = "none" /\ Idle.stream = 0
  /\ 0 \in 0..MaxGen
  /\ Unanswered \in [style : Styles, got : 0..MaxChunks]
BY PlaygroundConstants DEF Idle, Request, Unanswered, Styles

\* what the callbacks do to the variables that StreamError and StreamComplete set
LEMMA EndTypes ==
  ASSUME IInv, NEW g \in Gen, StreamError(g) \/ StreamComplete(g)
  PROVE  /\ chatGen' = chatGen /\ requesting' \in BOOLEAN /\ saveTimer' \in BOOLEAN
         /\ flushTimer' \in 0..MaxGen /\ pending' \in [gen : 0..MaxGen, text : Seq(Tokens)]
<1>1. [pending EXCEPT !.text = <<>>] \in [gen : 0..MaxGen, text : Seq(Tokens)]
  BY TokenTexts DEF IInv, TypeInv, StateTypes
<1>2. StateTypes /\ TypeInv
  BY DEF IInv, TypeInv
<1>3. CASE g # chatGen
  <2>1. UNCHANGED <<saveTimer, chatVars>>
    BY <1>3 DEF StreamError, StreamComplete
  <2> QED
    BY <1>2, <2>1 DEF StateTypes, chatVars
<1>4. CASE g = chatGen
  <2>1. /\ requesting' = FALSE /\ saveTimer' = TRUE /\ flushTimer' = 0
        /\ pending' = [pending EXCEPT !.text = <<>>] /\ chatGen' = chatGen
    BY <1>2, <1>4, StreamErrorIs, StreamCompleteIs
  <2>2. pending' \in [gen : 0..MaxGen, text : Seq(Tokens)] /\ flushTimer' \in 0..MaxGen
    BY <1>1, <2>1, IdleIs
  <2> QED
    BY <2>1, <2>2
<1> QED
  BY <1>3, <1>4

LEMMA HeadersArriveStep ==
  ASSUME IInv, NEW g \in Gen, HeadersArrive(g)
  PROVE  IInv'
<1>1. UNCHANGED <<messages, editing, chatVars, streamGen, storageVars, answer, changes>>
  BY DEF HeadersArrive
<1>2. MessageTypes' /\ StoreInv' /\ ConvInv'
  BY <1>1, UnchangedConv DEF chatVars, storageVars
<1>3. StateTypes'
  <2>1. StateTypes /\ req[g] \in Request
    BY DEF IInv, TypeInv, StateTypes
  <2>2. [req[g] EXCEPT !.phase = "open"] \in Request
    BY <2>1 DEF Request
  <2>3. req' \in [Gen -> Request]
    BY <2>1, <2>2, IdleIs DEF HeadersArrive, Over, StateTypes
  <2>4. source' \in 0..MaxGen /\ streaming' \in BOOLEAN
    <3>1. g \in 0..MaxGen
      BY PlaygroundConstants DEF Gen
    <3>2. (source' = source /\ streaming' = streaming) \/ (source' = g /\ streaming' = TRUE)
      BY DEF HeadersArrive
    <3> QED
      BY <2>1, <3>1, <3>2 DEF StateTypes
  <2> QED
    BY <1>1, <2>1, <2>3, <2>4 DEF StateTypes, chatVars, storageVars
<1>4. ReqInv'
  <2>1. ReqInv /\ StateTypes /\ chatGen' = chatGen /\ requesting' = requesting /\ pending' = pending
        /\ streamGen' = streamGen
    BY <1>1 DEF IInv, TypeInv, chatVars
  <2>2. CASE req[g].stream # streamGen
    <3>1. req' = [req EXCEPT ![g] = Idle] /\ source' = source /\ streaming' = streaming
      BY <2>2 DEF HeadersArrive, Over
    <3> QED
      BY <2>1, <3>1, IdleIs DEF ReqInv, StateTypes, Running, Streamed, IsCurrent, Gen
  <2>3. CASE req[g].stream = streamGen
    BY <2>1, <2>3 DEF HeadersArrive, ReqInv, StateTypes, Request, Running, Streamed, IsCurrent, Gen
  <2> QED
    BY <2>2, <2>3
<1> QED
  BY <1>2, <1>3, <1>4 DEF IInv, TypeInv

LEMMA HeadersFailStep ==
  ASSUME IInv, NEW g \in Gen, HeadersFail(g)
  PROVE  IInv'
<1>1. /\ UNCHANGED <<editing, streamVars, mounted, stored, answer, changes>>
      /\ req[g].phase = "headers" /\ Over(g)
  BY DEF HeadersFail
<1>2. CASE req[g].stream # streamGen
  <2>1. UNCHANGED <<messages, saveTimer, chatVars>>
    BY <1>2 DEF HeadersFail
  <2>2. MessageTypes' /\ StoreInv' /\ ConvInv'
    BY <1>1, <2>1, UnchangedConv DEF chatVars
  <2>3. StateTypes'
    BY <1>1, <2>1, IdleIs DEF Over, IInv, TypeInv, StateTypes, chatVars, streamVars
  <2>4. ReqInv'
    BY <1>1, <2>1, IdleIs
       DEF Over, IInv, TypeInv, ReqInv, StateTypes, Running, Streamed, IsCurrent, chatVars, streamVars, Gen
  <2> QED
    BY <2>2, <2>3, <2>4 DEF IInv, TypeInv
<1>3. CASE req[g].stream = streamGen
  <2>1. StreamError(g)
    BY <1>3 DEF HeadersFail
  <2>2. g = chatGen /\ requesting
    BY <1>1, <1>3 DEF IInv, ReqInv, Running
  <2>3. MessageTypes' /\ StoreInv' /\ ConvInv'
    BY <1>1, <2>1, <2>2, ErrorInv
  <2>4. StateTypes'
    BY <1>1, <2>1, EndTypes, IdleIs DEF Over, IInv, TypeInv, StateTypes, streamVars
  <2>5. ReqInv'
    <3>1. pending'.text = <<>> /\ chatGen' = chatGen /\ requesting' = FALSE
      BY <2>1, <2>2, StreamErrorIs DEF IInv, TypeInv, StateTypes
    <3>2. source = 0
      BY <1>1, <2>2 DEF IInv, ReqInv, Streamed
    <3> QED
      BY <1>1, <2>2, <3>1, <3>2, IdleIs
         DEF Over, IInv, TypeInv, ReqInv, StateTypes, Running, Streamed, IsCurrent, streamVars, Gen
  <2> QED
    BY <2>3, <2>4, <2>5 DEF IInv, TypeInv
<1> QED
  BY <1>2, <1>3

LEMMA ChunkStep ==
  ASSUME IInv, NEW g \in Gen, NEW k \in 1..MaxChunks, NEW style \in Styles, ChunkArrives(g, k, style)
  PROVE  IInv'
<1>1. UNCHANGED <<messages, editing, chatGen, requesting, streamVars, req, storageVars, changes>>
  BY DEF ChunkArrives
<1>2. MessageTypes' /\ StoreInv' /\ ConvInv'
  BY <1>1, UnchangedConv DEF storageVars
<1>3. answer' \in [style : Styles, got : 0..MaxChunks]
  BY PlaygroundConstants, SMTT(30) DEF ChunkArrives, IInv, TypeInv, StateTypes
<1>4. pending' \in [gen : 0..MaxGen, text : Seq(Tokens)] /\ flushTimer' \in 0..MaxGen
  <2>1. Merged(pending.text, Chunk(g, k, style)) \in Seq(Tokens)
    BY TextOps, TokenTexts DEF IInv, TypeInv, StateTypes
  <2> QED
    BY <2>1, PlaygroundConstants DEF ChunkArrives, IInv, TypeInv, StateTypes, Gen
<1>5. StateTypes'
  BY <1>1, <1>3, <1>4 DEF IInv, TypeInv, StateTypes, streamVars, storageVars
<1>6. ReqInv'
  <2>1. ReqInv /\ StateTypes
    BY DEF IInv, TypeInv
  <2>2. pending' = pending \/ (source = g /\ g = chatGen /\ pending'.gen = pending.gen)
    BY <2>1 DEF ChunkArrives, IsCurrent, StateTypes
  <2>3. g # 0
    BY PlaygroundConstants DEF Gen
  <2> QED
    BY <1>1, <2>1, <2>2, <2>3 DEF ReqInv, Running, Streamed, IsCurrent, streamVars
<1> QED
  BY <1>2, <1>5, <1>6 DEF IInv, TypeInv

LEMMA DoneStep ==
  ASSUME IInv, NEW g \in Gen, DoneArrives(g)
  PROVE  IInv'
<1>1. /\ UNCHANGED <<editing, streamGen, mounted, stored, answer, changes>>
      /\ req[g].kind = "stream" /\ req[g].phase = "open" /\ Over(g)
  BY DEF DoneArrives
<1>2. CASE ~IsCurrent(g)
  <2>1. UNCHANGED <<messages, saveTimer, chatVars, source, streaming>>
    BY <1>2 DEF DoneArrives
  <2>2. MessageTypes' /\ StoreInv' /\ ConvInv'
    BY <1>1, <2>1, UnchangedConv DEF chatVars
  <2>3. StateTypes'
    BY <1>1, <2>1, IdleIs DEF Over, IInv, TypeInv, StateTypes, chatVars
  <2>4. ReqInv'
    BY <1>1, <2>1, IdleIs
       DEF Over, IInv, TypeInv, ReqInv, StateTypes, Running, Streamed, IsCurrent, chatVars, Gen
  <2> QED
    BY <2>2, <2>3, <2>4 DEF IInv, TypeInv
<1>3. CASE IsCurrent(g)
  <2>1. StreamComplete(g) /\ source' = 0 /\ streaming' = FALSE
    BY <1>3 DEF DoneArrives
  <2>2. g = chatGen /\ requesting
    BY <1>3, PlaygroundConstants DEF IInv, ReqInv, IsCurrent, Gen
  <2>3. MessageTypes' /\ StoreInv' /\ ConvInv'
    BY <1>1, <2>1, <2>2, CompleteInv
  <2>4. StateTypes'
    <3>1. StateTypes /\ req' \in [Gen -> Request]
      BY <1>1, IdleIs DEF Over, IInv, TypeInv, StateTypes
    <3> QED
      BY <1>1, <2>1, <3>1, EndTypes, IdleIs DEF StateTypes
  <2>5. ReqInv'
    <3>1. pending'.text = <<>> /\ chatGen' = chatGen /\ requesting' = FALSE
      BY <2>1, <2>2, StreamCompleteIs DEF IInv, TypeInv, StateTypes
    <3> QED
      BY <1>1, <2>1, <2>2, <3>1, IdleIs
         DEF Over, IInv, TypeInv, ReqInv, StateTypes, Running, Streamed, IsCurrent, Gen
  <2> QED
    BY <2>3, <2>4, <2>5 DEF IInv, TypeInv
<1> QED
  BY <1>2, <1>3

LEMMA ErrorStep ==
  ASSUME IInv, NEW g \in Gen, ErrorArrives(g)
  PROVE  IInv'
<1>1. /\ UNCHANGED <<editing, streamGen, reqVars, mounted, stored, changes>>
      /\ req[g].kind = "stream" /\ req[g].phase = "open"
      /\ StreamError(g) /\ source' = 0 /\ streaming' = FALSE
  BY DEF ErrorArrives
<1>2. g = chatGen /\ requesting
  BY PlaygroundConstants DEF ErrorArrives, IInv, ReqInv, IsCurrent, Gen
<1>3. MessageTypes' /\ StoreInv' /\ ConvInv'
  BY <1>1, <1>2, ErrorInv
<1>4. StateTypes'
  BY <1>1, EndTypes, IdleIs DEF IInv, TypeInv, StateTypes, reqVars
<1>5. ReqInv'
  <2>1. pending'.text = <<>> /\ chatGen' = chatGen /\ requesting' = FALSE
    BY <1>1, <1>2, StreamErrorIs DEF IInv, TypeInv, StateTypes
  <2> QED
    BY <1>1, <1>2, <2>1 DEF IInv, TypeInv, ReqInv, StateTypes, Running, Streamed, IsCurrent, reqVars, Gen
<1> QED
  BY <1>3, <1>4, <1>5 DEF IInv, TypeInv

LEMMA ClosesStep ==
  ASSUME IInv, NEW g \in Gen, SourceCloses(g)
  PROVE  IInv'
<1>1. /\ UNCHANGED <<messages, editing, chatVars, streamVars, storageVars, answer, changes>>
      /\ req[g].kind = "stream" /\ req[g].phase = "open"
      /\ req' = [req EXCEPT ![g].phase = "closed"]
  BY DEF SourceCloses
<1>2. MessageTypes' /\ StoreInv' /\ ConvInv'
  BY <1>1, UnchangedConv DEF chatVars, storageVars
<1>3. StateTypes'
  <2>1. StateTypes /\ req[g] \in Request
    BY DEF IInv, TypeInv, StateTypes
  <2>2. [req[g] EXCEPT !.phase = "closed"] \in Request
    BY <2>1 DEF Request
  <2>3. req' \in [Gen -> Request]
    BY <1>1, <2>1, <2>2 DEF StateTypes
  <2> QED
    BY <1>1, <2>1, <2>3 DEF StateTypes, chatVars, streamVars, storageVars
<1>4. ReqInv'
  <2>1. ReqInv /\ StateTypes
    BY DEF IInv, TypeInv
  <2>2. \A h \in Gen : /\ req'[h].kind = req[h].kind /\ req'[h].stream = req[h].stream
                       /\ h # g => req'[h] = req[h]
    BY <1>1, <2>1 DEF StateTypes, Request
  <2>3. req'[g].phase = "closed"
    BY <1>1, <2>1 DEF StateTypes, Request
  <2> QED
    BY <1>1, <2>1, <2>2, <2>3
       DEF ReqInv, StateTypes, Running, Streamed, IsCurrent, chatVars, streamVars, Gen
<1> QED
  BY <1>2, <1>3, <1>4 DEF IInv, TypeInv

LEMMA ResponseStep ==
  ASSUME IInv, NEW g \in Gen, ResponseArrives(g)
  PROVE  IInv'
<1>1. /\ UNCHANGED <<editing, chatGen, pending, flushTimer, streamVars, mounted, stored, answer, changes>>
      /\ req[g].kind = "plain" /\ req[g].phase = "open" /\ Over(g)
  BY DEF ResponseArrives
<1>2. IF g = chatGen THEN requesting /\ requesting' = FALSE /\ saveTimer' = TRUE
      ELSE UNCHANGED <<messages, saveTimer, requesting>>
  BY <1>1, ResponseIs DEF IInv, ReqInv
<1>3. MessageTypes' /\ StoreInv' /\ ConvInv'
  <2>1. CASE g # chatGen
    BY <1>1, <1>2, <2>1, UnchangedConv
  <2>2. CASE g = chatGen
    <3>1. messages # <<>> /\ ~IsUser(Last(messages))
      BY <1>2, <2>2, LastIsAnswered
    <3>2. Rewrites(messages, messages') /\ Last(messages') = Whole(Last(messages), g)
      BY <2>2, <3>1, ResponseIs DEF IInv
    <3>3. ~IsPending(Last(messages'))
      BY <3>1, <3>2, FlushedLast, StatusAfter
    <3> QED
      BY <1>1, <1>2, <2>2, <3>2, <3>3, EndedConv, RewrittenInv
  <2> QED
    BY <2>1, <2>2
<1>4. StateTypes'
  <2>1. StateTypes /\ req' \in [Gen -> Request]
    BY <1>1, IdleIs DEF Over, IInv, TypeInv, StateTypes
  <2>2. requesting' \in BOOLEAN /\ saveTimer' \in BOOLEAN
    BY <1>2, <2>1 DEF StateTypes
  <2> QED
    BY <1>1, <2>1, <2>2 DEF StateTypes, streamVars
<1>5. ReqInv'
  <2>1. ReqInv /\ StateTypes /\ req' = [req EXCEPT ![g] = Idle]
    BY <1>1 DEF IInv, TypeInv, Over
  <2>2. CASE g # chatGen
    BY <1>1, <1>2, <2>1, <2>2, IdleIs DEF ReqInv, StateTypes, Running, Streamed, IsCurrent, streamVars, Gen
  <2>3. CASE g = chatGen
    <3>1. source = 0 /\ ~(pending.gen = chatGen /\ pending.text # <<>>)
      BY <1>1, <2>1, <2>3 DEF ReqInv, Streamed
    <3> QED
      BY <1>1, <1>2, <2>1, <2>3, <3>1, IdleIs DEF ReqInv, StateTypes, Running, Streamed, IsCurrent, streamVars, Gen
  <2> QED
    BY <2>2, <2>3
<1> QED
  BY <1>3, <1>4, <1>5 DEF IInv, TypeInv

LEMMA ResponseFailStep ==
  ASSUME IInv, NEW g \in Gen, ResponseFails(g)
  PROVE  IInv'
<1>1. /\ UNCHANGED <<editing, streamVars, mounted, stored, answer, changes>>
      /\ req[g].kind = "plain" /\ req[g].phase = "open" /\ Over(g) /\ StreamError(g)
  BY DEF ResponseFails
<1>2. g = chatGen => requesting
  BY <1>1 DEF IInv, ReqInv
<1>3. MessageTypes' /\ StoreInv' /\ ConvInv'
  BY <1>1, <1>2, ErrorInv
<1>4. StateTypes'
  <2>1. StateTypes /\ req' \in [Gen -> Request]
    BY <1>1, IdleIs DEF Over, IInv, TypeInv, StateTypes
  <2> QED
    BY <1>1, <2>1, EndTypes DEF StateTypes, streamVars
<1>5. ReqInv'
  <2>1. ReqInv /\ StateTypes /\ req' = [req EXCEPT ![g] = Idle]
    BY <1>1 DEF IInv, TypeInv, Over
  <2>2. CASE g # chatGen
    <3>1. UNCHANGED <<messages, saveTimer, chatVars>>
      BY <1>1, <2>2 DEF StreamError
    <3> QED
      BY <1>1, <2>1, <2>2, <3>1, IdleIs DEF ReqInv, StateTypes, Running, Streamed, IsCurrent, streamVars, chatVars, Gen
  <2>3. CASE g = chatGen
    <3>1. source = 0
      BY <1>1, <2>1, <2>3 DEF ReqInv, Streamed
    <3>2. pending'.text = <<>> /\ chatGen' = chatGen /\ requesting' = FALSE
      BY <1>1, <2>1, <2>3, StreamErrorIs DEF IInv, StateTypes
    <3> QED
      BY <1>1, <2>1, <2>3, <3>1, <3>2, IdleIs DEF ReqInv, StateTypes, Running, Streamed, IsCurrent, streamVars, Gen
  <2> QED
    BY <2>2, <2>3
<1> QED
  BY <1>3, <1>4, <1>5 DEF IInv, TypeInv

-----------------------------------------------------------------------------
(* Timers, and the life of the page *)

LEMMA FlushStep ==
  ASSUME IInv, FlushTimer
  PROVE  IInv'
<1>1. UNCHANGED <<editing, chatGen, requesting, streamVars, reqVars, mounted, stored, changes>>
  BY DEF FlushTimer
<1>2. /\ pending' = pending \/ pending' = [pending EXCEPT !.text = <<>>]
      /\ flushTimer' = 0
      /\ saveTimer' = saveTimer \/ saveTimer' = TRUE
  BY DEF FlushTimer, ClearPending, UpdateMessages
<1>3. messages' = messages
      \/ (messages' = Flushed(chatGen) /\ pending.gen = chatGen /\ pending.text # <<>>)
  BY DEF FlushTimer, UpdateMessages
<1>4. MessageTypes' /\ StoreInv' /\ ConvInv'
  <2>1. CASE messages' = messages
    BY <1>1, <2>1, UnchangedConv
  <2>2. CASE messages' = Flushed(chatGen) /\ pending.gen = chatGen /\ pending.text # <<>>
    <3>1. requesting
      BY <2>2 DEF IInv, ReqInv
    <3>2. messages # <<>> /\ ~IsUser(Last(messages)) /\ IsPending(Last(messages)) /\ Last(messages).of = chatGen
      BY <3>1, LastIsAnswered DEF IInv, ConvInv
    <3>3. /\ Rewrites(messages, messages')
          /\ Last(messages') = ApplyStreamingChunk(Last(messages), pending.text)
      BY <2>2, <3>2, FlushedIs DEF IInv
    <3>4. IsPending(Last(messages'))
      <4>1. Last(messages) \in Message
        BY <3>2, FlushedLast
      <4> QED
        BY <3>2, <3>3, <4>1 DEF ApplyStreamingChunk, IsPending, Pending, Message
    <3>5. \A i \in DOMAIN messages' : IsPending(messages'[i]) => i = Len(messages')
      BY <1>1, <3>3, RewrittenInv DEF IInv, ConvInv
    <3> QED
      BY <1>1, <3>1, <3>2, <3>3, <3>4, <3>5, RewrittenInv DEF IInv, ConvInv
  <2> QED
    BY <1>3, <2>1, <2>2
<1>5. StateTypes'
  <2>1. StateTypes
    BY DEF IInv, TypeInv
  <2>2. pending' \in [gen : 0..MaxGen, text : Seq(Tokens)]
    BY <1>2, <2>1, TokenTexts DEF StateTypes
  <2>3. flushTimer' \in 0..MaxGen /\ saveTimer' \in BOOLEAN
    BY <1>2, <2>1, IdleIs DEF StateTypes
  <2> QED
    BY <1>1, <2>1, <2>2, <2>3 DEF StateTypes, streamVars, reqVars
<1>6. ReqInv'
  <2>1. pending'.gen = pending.gen /\ (pending'.text = <<>> \/ pending' = pending)
    BY <1>2 DEF IInv, TypeInv, StateTypes
  <2> QED
    BY <1>1, <2>1 DEF IInv, ReqInv, Running, Streamed, IsCurrent, streamVars, reqVars
<1> QED
  BY <1>4, <1>5, <1>6 DEF IInv, TypeInv

\* what of the conversation goes into localStorage
LEMMA TrimmedInv ==
  ASSUME IInv
  PROVE  LET new == Trimmed(messages) IN
         /\ PartOf(messages, new)
         /\ \A i, j \in DOMAIN new : IsPending(new[i]) /\ IsPending(new[j]) => i = j
         /\ \A i \in DOMAIN new : IsPending(new[i]) => ~IsUser(new[i])
<1> DEFINE new == Trimmed(messages)
<1>1. messages \in Seq(Message) /\ KeysDiffer(messages) /\ DOMAIN messages = 1..Len(messages) /\ Len(messages) \in Nat
  BY LenProperties DEF IInv, TypeInv, MessageTypes
<1>2. /\ PartOf(messages, new)
      /\ \A j \in DOMAIN new : j + Len(messages) - Len(new) \in DOMAIN messages
                               /\ new[j] = messages[j + Len(messages) - Len(new)]
  BY <1>1, TrimmedPart
<1> HIDE DEF new
<1>3. DOMAIN new = 1..Len(new) /\ Len(new) \in Nat
  BY <1>2, LenProperties DEF PartOf
<1>4. \A i \in DOMAIN messages : IsPending(messages[i]) => i = Len(messages) /\ ~IsUser(messages[i])
  <2> SUFFICES ASSUME NEW i \in DOMAIN messages, IsPending(messages[i])
               PROVE  i = Len(messages) /\ ~IsUser(messages[i])
    OBVIOUS
  <2>1. i = Len(messages) /\ requesting
    BY DEF IInv, ConvInv
  <2>2. Last(messages) = messages[i]
    BY <2>1 DEF Last
  <2> QED
    BY <2>1, <2>2, LastIsAnswered
<1>5. \A i \in DOMAIN new : IsPending(new[i]) => i = Len(new) /\ ~IsUser(new[i])
  BY <1>1, <1>2, <1>3, <1>4
<1> QED
  BY <1>2, <1>5 DEF new

LEMMA SaveStep ==
  ASSUME IInv, SaveTimer
  PROVE  IInv'
<1>1. /\ saveTimer' = FALSE /\ stored' = Trimmed(messages)
      /\ UNCHANGED <<messages, editing, chatVars, streamVars, reqVars, mounted, changes>>
  BY DEF SaveTimer
<1>2. MessageTypes' /\ StoreInv'
  BY <1>1, TrimmedInv DEF IInv, TypeInv, MessageTypes, KeysDiffer, StoreInv, PartOf
<1>3. StateTypes' /\ ConvInv' /\ ReqInv'
  BY <1>1 DEF IInv, TypeInv, StateTypes, ConvInv, ReqInv, Running, Streamed, IsCurrent, chatVars, streamVars, reqVars
<1> QED
  BY <1>2, <1>3 DEF IInv, TypeInv

\* a new generation, and nothing under way for it
LEMMA DisownedReq ==
  ASSUME IInv, chatGen' = chatGen + 1, Discard(chatGen + 1), streamGen' = streamGen + 1,
         source' = 0, streaming' = FALSE, requesting' = FALSE,
         req' = req \/ req' = [g \in Gen |-> Idle]
  PROVE  ReqInv'
<1>1. /\ chatGen \in 0..MaxGen /\ streamGen \in Nat /\ MaxGen \in Nat
      /\ \A g \in Gen : req[g].stream <= streamGen /\ req[g].stream \in Nat
      /\ \A g \in Gen : g \in Nat /\ (req[g].phase = "headers" => req[g].kind = "stream")
  BY PlaygroundConstants DEF IInv, TypeInv, StateTypes, ReqInv, Request, Gen
<1>2. pending'.text = <<>>
  BY DEF Discard
<1>3. CASE req' = req
  <2>1. ASSUME NEW g \in Gen
        PROVE  /\ req'[g].stream <= streamGen' /\ req'[g].stream # streamGen'
               /\ req'[g].phase = "headers" => req'[g].kind = "stream"
    BY <1>1, <1>3
  <2>2. ASSUME NEW g \in Gen, g >= chatGen'
        PROVE  req'[g].phase = "none"
    BY <1>1, <1>3, <2>2 DEF IInv, ReqInv
  <2>3. \A g \in Gen : g > chatGen' => g >= chatGen'
    BY <1>1
  <2>4. chatGen' >= chatGen'
    BY <1>1
  <2> QED
    BY <1>2, <2>1, <2>2, <2>3, <2>4 DEF ReqInv, Running, Streamed, IsCurrent
<1>4. CASE req' = [g \in Gen |-> Idle]
  <2>1. \A g \in Gen : req'[g].phase = "none" /\ req'[g].stream <= streamGen'
    BY <1>1, <1>4, IdleIs
  <2> QED
    BY <1>2, <2>1 DEF ReqInv, Running, Streamed, IsCurrent
<1> QED
  BY <1>3, <1>4

LEMMA StopStep ==
  ASSUME IInv, StopGeneration
  PROVE  IInv'
<1>1. /\ chatGen < MaxGen /\ chatGen' = chatGen + 1 /\ Discard(chatGen + 1) /\ requesting' = FALSE
      /\ streamGen' = streamGen + 1 /\ source' = 0 /\ streaming' = FALSE /\ saveTimer' = TRUE
      /\ answer' = Unanswered /\ UNCHANGED <<editing, req, mounted, stored, changes>>
  BY DEF StopGeneration, UpdateMessages
<1>2. requesting
  BY DEF StopGeneration, Generating, IInv, ReqInv
<1>3. messages # <<>> /\ ~IsUser(Last(messages))
  BY <1>2, LastIsAnswered
<1>4. Rewrites(messages, messages')
      /\ \E m \in {Last(messages), Last(Flushed(chatGen))} : Last(messages') = Stopped(m)
  BY <1>3, StopIs DEF IInv
<1>5. ~IsPending(Last(messages'))
  BY <1>3, <1>4, FlushedLast, StatusAfter
<1>6. MessageTypes' /\ StoreInv' /\ ConvInv'
  BY <1>1, <1>2, <1>4, <1>5, EndedConv, RewrittenInv
<1>7. StateTypes'
  <2>1. StateTypes /\ chatGen + 1 \in 0..MaxGen
    BY <1>1, PlaygroundConstants DEF IInv, TypeInv, StateTypes
  <2>2. pending' \in [gen : 0..MaxGen, text : Seq(Tokens)] /\ flushTimer' = 0
    BY <1>1, <2>1, TokenTexts DEF Discard
  <2>3. /\ chatGen' \in 0..MaxGen /\ flushTimer' \in 0..MaxGen /\ source' \in 0..MaxGen
        /\ streamGen' \in Nat
    BY <1>1, <2>1, <2>2, IdleIs DEF StateTypes
  <2>4. answer' \in [style : Styles, got : 0..MaxChunks]
    BY <1>1, IdleIs
  <2> QED
    BY <1>1, <2>1, <2>2, <2>3, <2>4 DEF StateTypes
<1>8. ReqInv'
  BY <1>1, DisownedReq
<1> QED
  BY <1>6, <1>7, <1>8 DEF IInv, TypeInv

LEMMA GoneInv ==
  ASSUME IInv, Gone, chatGen < MaxGen,
         req' = req \/ req' = [g \in Gen |-> Idle],
         stored' = stored \/ stored' = Trimmed(messages)
  PROVE  IInv'
<1>1. /\ mounted' = FALSE /\ saveTimer' = FALSE /\ messages' = <<>> /\ editing' = 0
      /\ answer' = Unanswered /\ chatGen' = chatGen + 1 /\ Discard(chatGen + 1) /\ requesting' = FALSE
      /\ streamGen' = streamGen + 1 /\ source' = 0 /\ streaming' = FALSE /\ changes' = changes
  BY DEF Gone
<1>2. MessageTypes' /\ StoreInv'
  BY <1>1, EmptySeq, TrimmedInv DEF IInv, TypeInv, MessageTypes, KeysDiffer, StoreInv, PartOf
<1>3. StateTypes'
  <2>1. StateTypes /\ chatGen + 1 \in 0..MaxGen
    BY PlaygroundConstants DEF IInv, TypeInv, StateTypes
  <2>2. pending' \in [gen : 0..MaxGen, text : Seq(Tokens)] /\ flushTimer' = 0
    BY <1>1, <2>1, TokenTexts DEF Discard
  <2>3. req' \in [Gen -> Request]
    BY <2>1, IdleIs DEF StateTypes
  <2>4. /\ chatGen' \in 0..MaxGen /\ flushTimer' \in 0..MaxGen /\ source' \in 0..MaxGen
        /\ streamGen' \in Nat /\ editing' \in Nat
    BY <1>1, <2>1, <2>2, IdleIs DEF StateTypes
  <2>5. answer' \in [style : Styles, got : 0..MaxChunks]
    BY <1>1, IdleIs
  <2> QED
    BY <1>1, <2>1, <2>2, <2>3, <2>4, <2>5 DEF StateTypes
<1>4. ConvInv'
  BY <1>1 DEF ConvInv
<1>5. ReqInv'
  BY <1>1, DisownedReq
<1> QED
  BY <1>2, <1>3, <1>4, <1>5 DEF IInv, TypeInv

LEMMA LeaveStep ==
  ASSUME IInv, Leave \/ Reload
  PROVE  IInv'
<1>1. CASE Leave
  <2>1. Gone /\ chatGen < MaxGen /\ req' = req /\ (stored' = stored \/ stored' = Trimmed(messages))
    BY <1>1 DEF Leave
  <2> QED
    BY <2>1, GoneInv
<1>2. CASE Reload
  <2>1. Gone /\ chatGen < MaxGen /\ req' = [g \in Gen |-> Idle] /\ stored' = stored
    BY <1>2 DEF Reload
  <2> QED
    BY <2>1, GoneInv
<1> QED
  BY <1>1, <1>2

LEMMA MountStep ==
  ASSUME IInv, Mount
  PROVE  IInv'
<1>1. /\ mounted' = TRUE /\ messages' = LoadMessages(stored) /\ stored' = LoadMessages(stored) /\ ~mounted
      /\ UNCHANGED <<editing, chatVars, streamVars, reqVars, saveTimer, changes>>
  BY DEF Mount
<1>2. /\ messages' \in Seq(Message) /\ KeysDiffer(messages')
      /\ \A i \in DOMAIN messages' : ~IsPending(messages'[i])
      /\ stored' = messages'
  BY <1>1, LoadedIs DEF IInv
<1>3. ~requesting
  BY <1>1 DEF IInv, ConvInv
<1>4. MessageTypes' /\ ConvInv' /\ StoreInv'
  BY <1>1, <1>2, <1>3 DEF MessageTypes, KeysDiffer, ConvInv, StoreInv, chatVars
<1>5. StateTypes' /\ ReqInv'
  BY <1>1 DEF IInv, TypeInv, StateTypes, ReqInv, Running, Streamed, IsCurrent, chatVars, streamVars, reqVars
<1> QED
  BY <1>4, <1>5 DEF IInv, TypeInv

-----------------------------------------------------------------------------
(* The invariant *)

LEMMA Initially ==
  Init => IInv
<1> SUFFICES ASSUME Init PROVE IInv
  OBVIOUS
<1>1. MessageTypes /\ ConvInv /\ StoreInv
  BY EmptySeq DEF Init, MessageTypes, KeysDiffer, ConvInv, StoreInv
<1>2. StateTypes
  <2>1. pending \in [gen : 0..MaxGen, text : Seq(Tokens)]
    BY IdleIs, TokenTexts DEF Init
  <2>2. req \in [Gen -> Request] /\ answer \in [style : Styles, got : 0..MaxChunks]
    BY IdleIs DEF Init
  <2>3. /\ chatGen \in 0..MaxGen /\ flushTimer \in 0..MaxGen /\ source \in 0..MaxGen
        /\ streamGen \in Nat /\ editing \in Nat /\ changes \in 0..MaxChanges
    BY IdleIs, PlaygroundConstants DEF Init
  <2> QED
    BY <2>1, <2>2, <2>3 DEF Init, StateTypes
<1>3. ReqInv
  BY IdleIs, PlaygroundConstants DEF Init, ReqInv, Running, Streamed, IsCurrent, Gen
<1> QED
  BY <1>1, <1>2, <1>3 DEF IInv, TypeInv

LEMMA Step ==
  IInv /\ [Next]_vars => IInv'
<1> SUFFICES ASSUME IInv, [Next]_vars PROVE IInv'
  OBVIOUS
<1>1. CASE UNCHANGED vars
  BY <1>1 DEF vars, chatVars, streamVars, reqVars, storageVars, IInv, TypeInv, MessageTypes, KeysDiffer,
              StateTypes, ConvInv, ReqInv, Running, Streamed, IsCurrent, StoreInv
<1>2. CASE User
  <2>1. CASE HandleSendMessage
    BY <2>1, SendStep, SendIs
  <2>2. CASE HandleClearMessages
    BY <2>2, ClearStep
  <2>3. CASE StopGeneration
    BY <2>3, StopStep
  <2>4. CASE CancelEdit
    BY <2>4, EditorStep
  <2>5. ASSUME NEW i \in DOMAIN messages,
               \/ HandleRegenerateMessage(i) \/ HandleEditMessage(i)
               \/ SaveEdit(i) \/ SubmitEdit(i) \/ HandleDeleteMessage(i)
        PROVE  IInv'
    BY <2>5, RegenerateStep, SubmitStep, SendIs, EditorStep, SaveEditStep, DeleteStep
  <2>6. CASE Leave \/ Reload
    BY <2>6, LeaveStep
  <2>7. CASE Mount
    BY <2>7, MountStep
  <2> QED
    BY <1>2, <2>1, <2>2, <2>3, <2>4, <2>5, <2>6, <2>7 DEF User
<1>3. CASE FlushTimer
  BY <1>3, FlushStep
<1>4. CASE SaveTimer
  BY <1>4, SaveStep
<1>5. ASSUME NEW g \in Gen, Event(g) PROVE IInv'
  BY <1>5, HeadersArriveStep, HeadersFailStep, DoneStep, ErrorStep, ClosesStep,
     ResponseStep, ResponseFailStep, ChunkStep DEF Event
<1> QED
  BY <1>1, <1>2, <1>3, <1>4, <1>5 DEF Next

(* The invariant holds in every reachable state: in particular only the    *)
(* current request has a source, a batch or an answer to write to, however *)
(* sends, stops, departures and late events interleave.                    *)
THEOREM Inductive == Spec => []IInv
<1>1. Init => IInv
  BY Initially
<1>2. IInv /\ [Next]_vars => IInv'
  BY Step
<1> QED
  BY <1>1, <1>2, PTL DEF Spec

(* The state has its types, and no two messages have the same key, though  *)
(* keys are chosen while a message is being edited and after a reload.     *)
THEOREM TypeCorrect == Spec => []TypeOK
<1>1. IInv => TypeOK
  BY DEF IInv, TypeInv, MessageTypes, StateTypes, TypeOK, KeysDiffer
<1> QED
  BY <1>1, Inductive, PTL

(* The request that is answered now has not gone, and it is the one the    *)
(* stream controller waits for.                                            *)
LiveInv ==
  requesting => /\ req[chatGen].phase # "none"
                /\ req[chatGen].phase = "headers" => req[chatGen].stream = streamGen

LEMMA SendLive ==
  ASSUME IInv, NEW msgs, SendChat(msgs)
  PROVE  LiveInv'
<1>1. /\ chatGen < MaxGen /\ chatGen' = chatGen + 1 /\ streamGen' = streamGen + 1
      /\ \/ req' = [req EXCEPT ![chatGen + 1] =
                      [kind |-> "stream", stream |-> streamGen + 1, phase |-> "headers"]]
         \/ req' = [req EXCEPT ![chatGen + 1] = [kind |-> "plain", stream |-> 0, phase |-> "open"]]
  BY DEF SendChat, SendStreaming, SendPlain
<1>2. chatGen + 1 \in Gen /\ req \in [Gen -> Request]
  BY <1>1, PlaygroundConstants DEF IInv, TypeInv, StateTypes, Gen
<1>3. CASE req' = [req EXCEPT ![chatGen + 1] =
                    [kind |-> "stream", stream |-> streamGen + 1, phase |-> "headers"]]
  BY <1>1, <1>2, <1>3 DEF LiveInv
<1>4. CASE req' = [req EXCEPT ![chatGen + 1] = [kind |-> "plain", stream |-> 0, phase |-> "open"]]
  BY <1>1, <1>2, <1>4 DEF LiveInv
<1> QED
  BY <1>1, <1>3, <1>4

LEMMA LiveStep ==
  IInv /\ LiveInv /\ [Next]_vars => LiveInv'
<1> SUFFICES ASSUME IInv, LiveInv, [Next]_vars PROVE LiveInv'
  OBVIOUS
<1>0. /\ req \in [Gen -> Request] /\ ReqInv /\ TypeInv
      /\ requesting => chatGen \in Gen
  BY DEF IInv, TypeInv, StateTypes, ConvInv, Gen
<1>1. ASSUME UNCHANGED <<chatGen, requesting, streamGen, req>> PROVE LiveInv'
  BY <1>1 DEF LiveInv
<1>2. ASSUME requesting' = FALSE PROVE LiveInv'
  BY <1>2 DEF LiveInv
<1>3. ASSUME NEW g \in Gen, g # chatGen, UNCHANGED <<chatGen, requesting, streamGen>>,
             NEW r, req' = [req EXCEPT ![g] = r]
      PROVE  LiveInv'
  BY <1>0, <1>3 DEF LiveInv
<1>4. CASE UNCHANGED vars
  BY <1>1, <1>4 DEF vars, chatVars, streamVars, reqVars
<1>5. CASE User
  <2>1. CASE HandleSendMessage
    BY <2>1, SendLive DEF HandleSendMessage
  <2>2. CASE HandleClearMessages \/ CancelEdit \/ Mount
    BY <1>1, <2>2 DEF HandleClearMessages, CancelEdit, Mount, chatVars, streamVars, reqVars
  <2>3. CASE StopGeneration \/ Leave \/ Reload
    BY <1>2, <2>3 DEF StopGeneration, Leave, Reload, Gone
  <2>4. ASSUME NEW i \in DOMAIN messages, HandleRegenerateMessage(i) \/ SubmitEdit(i)
        PROVE  LiveInv'
    BY <2>4, SendLive DEF HandleRegenerateMessage, SubmitEdit
  <2>5. ASSUME NEW i \in DOMAIN messages,
               HandleEditMessage(i) \/ SaveEdit(i) \/ HandleDeleteMessage(i)
        PROVE  LiveInv'
    BY <1>1, <2>5
       DEF HandleEditMessage, SaveEdit, HandleDeleteMessage, chatVars, streamVars, reqVars
  <2> QED
    BY <1>5, <2>1, <2>2, <2>3, <2>4, <2>5 DEF User
<1>6. CASE FlushTimer \/ SaveTimer
  BY <1>1, <1>6 DEF FlushTimer, SaveTimer, chatVars, streamVars, reqVars
<1>7. ASSUME NEW g \in Gen, Event(g) PROVE LiveInv'
  <2>1. CASE HeadersArrive(g)
    <3>1. UNCHANGED <<chatGen, requesting, streamGen>>
      BY <2>1 DEF HeadersArrive, chatVars
    <3>2. CASE req[g].stream # streamGen
      <4>1. req' = [req EXCEPT ![g] = Idle] /\ (requesting => g # chatGen)
        BY <2>1, <3>2 DEF HeadersArrive, Over, LiveInv
      <4> QED
        BY <1>0, <3>1, <4>1 DEF LiveInv
    <3>3. CASE req[g].stream = streamGen
      <4>1. req' = [req EXCEPT ![g].phase = "open"]
        BY <2>1, <3>3 DEF HeadersArrive
      <4> QED
        BY <1>0, <3>1, <4>1 DEF LiveInv, Request
    <3> QED
      BY <3>2, <3>3
  <2>2. CASE HeadersFail(g)
    <3>1. UNCHANGED <<streamGen>> /\ req' = [req EXCEPT ![g] = Idle] /\ req[g].phase = "headers"
      BY <2>2 DEF HeadersFail, streamVars, Over
    <3>2. CASE g = chatGen /\ req[g].stream = streamGen
      BY <1>2, <2>2, <3>2 DEF HeadersFail, StreamError
    <3>3. CASE g = chatGen /\ req[g].stream # streamGen
      BY <1>2, <2>2, <3>1, <3>3 DEF HeadersFail, chatVars, LiveInv
    <3>4. CASE g # chatGen
      BY <1>3, <2>2, <3>1, <3>4 DEF HeadersFail, StreamError, chatVars
    <3> QED
      BY <3>2, <3>3, <3>4
  <2>3. CASE ErrorArrives(g)
    <3>1. CASE g = chatGen
      BY <1>2, <2>3, <3>1 DEF ErrorArrives, StreamError
    <3>2. CASE g # chatGen
      BY <1>1, <2>3, <3>2 DEF ErrorArrives, StreamError, chatVars, reqVars
    <3> QED
      BY <3>1, <3>2
  <2>4. CASE DoneArrives(g)
    <3>1. req[g].kind = "stream" /\ req[g].phase = "open" /\ req' = [req EXCEPT ![g] = Idle]
          /\ streamGen' = streamGen
      BY <2>4 DEF DoneArrives, Over
    <3>2. CASE g = chatGen /\ requesting
      <4>1. IsCurrent(g)
        BY <1>0, <3>1, <3>2 DEF ReqInv
      <4> QED
        BY <1>2, <2>4, <3>2, <4>1 DEF DoneArrives, StreamComplete
    <3>3. CASE g = chatGen /\ ~requesting
      BY <1>2, <2>4, <3>3 DEF DoneArrives, StreamComplete, chatVars, LiveInv
    <3>4. CASE g # chatGen
      BY <1>3, <2>4, <3>1, <3>4 DEF DoneArrives, StreamComplete, chatVars
    <3> QED
      BY <3>2, <3>3, <3>4
  <2>5. CASE SourceCloses(g)
    <3>1. UNCHANGED <<chatGen, requesting, streamGen>> /\ req' = [req EXCEPT ![g].phase = "closed"]
      BY <2>5 DEF SourceCloses, chatVars, streamVars
    <3> QED
      BY <1>0, <3>1 DEF LiveInv, Request
  <2>6. CASE ResponseArrives(g) \/ ResponseFails(g)
    <3>1. streamGen' = streamGen /\ chatGen' = chatGen /\ req' = [req EXCEPT ![g] = Idle]
      BY <2>6 DEF ResponseArrives, ResponseFails, StreamError, chatVars, streamVars, Over
    <3>2. CASE g = chatGen
      BY <1>2, <2>6, <3>2 DEF ResponseArrives, ResponseFails, StreamError
    <3>3. CASE g # chatGen
      BY <1>3, <2>6, <3>1, <3>3 DEF ResponseArrives, ResponseFails, StreamError, chatVars
    <3> QED
      BY <3>2, <3>3
  <2>7. CASE \E k \in 1..MaxChunks, style \in Styles : ChunkArrives(g, k, style)
    BY <1>1, <2>7 DEF ChunkArrives, streamVars
  <2> QED
    BY <1>7, <2>1, <2>2, <2>3, <2>4, <2>5, <2>6, <2>7 DEF Event
<1> QED
  BY <1>4, <1>5, <1>6, <1>7 DEF Next

(* A message that is shown as being answered is the last one, can be       *)
(* stopped, and belongs to a request that has not ended: one that may      *)
(* still be answered, or one whose connection closed and nobody was told.  *)
(* So an answer, a reported error, a stop and a reload all end the spinner.*)
THEOREM PendingLive == Spec => []PendingIsLive
<1>1. Init => LiveInv
  BY DEF Init, LiveInv
<1>2. IInv /\ LiveInv => PendingIsLive
  <2> SUFFICES ASSUME IInv, LiveInv, NEW i \in DOMAIN messages, messages[i].status \in Pending
               PROVE  /\ i = Len(messages) /\ Generating
                      /\ messages[i].of = chatGen /\ chatGen \in Awaited \cup Unreported
    BY DEF PendingIsLive
  <2>1. i = Len(messages) /\ requesting /\ chatGen # 0
    BY DEF IInv, ConvInv, IsPending
  <2>2. chatGen \in Gen /\ req[chatGen] \in Request /\ req[chatGen].phase # "none"
    BY <2>1 DEF IInv, TypeInv, StateTypes, Gen, LiveInv
  <2>3. chatGen \in Awaited \cup Unreported
    BY <2>2 DEF Awaited, Unreported, Request
  <2> QED
    BY <2>1, <2>3 DEF IInv, ConvInv, Generating, Last
<1> QED
  BY <1>1, <1>2, LiveStep, Inductive, PTL DEF Spec

-----------------------------------------------------------------------------
(* What is stored *)

LEMMA SavedStep ==
  IInv /\ SavedIsShown /\ [Next]_vars => SavedIsShown'
<1> SUFFICES ASSUME IInv, SavedIsShown, [Next]_vars PROVE SavedIsShown'
  OBVIOUS
<1> DEFINE Kept == UNCHANGED <<messages, stored, mounted, saveTimer>>
           Due == saveTimer' = TRUE
<1>1. ASSUME Kept \/ Due PROVE SavedIsShown'
  BY <1>1 DEF SavedIsShown, Trimmed
<1>2. CASE UNCHANGED vars
  BY <1>1, <1>2 DEF vars, storageVars
<1>3. CASE User
  <2>1. CASE HandleSendMessage
    BY <1>1, <2>1 DEF HandleSendMessage, SendChat, UpdateMessages
  <2>2. CASE HandleClearMessages
    BY <1>1, <2>2 DEF HandleClearMessages, UpdateMessages
  <2>3. CASE StopGeneration
    BY <1>1, <2>3 DEF StopGeneration, UpdateMessages
  <2>4. CASE CancelEdit
    BY <1>1, <2>4 DEF CancelEdit, storageVars
  <2>5. ASSUME NEW i \in DOMAIN messages,
               \/ HandleRegenerateMessage(i) \/ HandleEditMessage(i)
               \/ SaveEdit(i) \/ SubmitEdit(i) \/ HandleDeleteMessage(i)
        PROVE  SavedIsShown'
    BY <1>1, <2>5
       DEF HandleRegenerateMessage, HandleEditMessage, SaveEdit, SubmitEdit, HandleDeleteMessage,
           SendChat, UpdateMessages, storageVars
  <2>6. CASE Leave \/ Reload
    BY <2>6 DEF Leave, Reload, Gone, SavedIsShown
  <2>7. CASE Mount
    <3>1. messages' = LoadMessages(stored) /\ stored' = LoadMessages(stored)
      BY <2>7 DEF Mount
    <3>2. Trimmed(LoadMessages(stored)) = LoadMessages(stored)
      BY LoadedIs DEF IInv, Trimmed
    <3>3. stored' = Trimmed(messages')
      BY <3>1, <3>2
    <3> QED
      BY <3>3 DEF SavedIsShown, Trimmed
  <2> QED
    BY <1>3, <2>1, <2>2, <2>3, <2>4, <2>5, <2>6, <2>7 DEF User
<1>4. CASE FlushTimer
  BY <1>1, <1>4 DEF FlushTimer, UpdateMessages
<1>5. CASE SaveTimer
  <2>1. stored' = Trimmed(messages) /\ messages' = messages
    BY <1>5 DEF SaveTimer
  <2> QED
    BY <2>1 DEF SavedIsShown, Trimmed
<1>6. ASSUME NEW g \in Gen, Event(g) PROVE SavedIsShown'
  <2>1. CASE HeadersArrive(g)
    BY <1>1, <2>1 DEF HeadersArrive, storageVars
  <2>2. CASE HeadersFail(g) \/ ErrorArrives(g) \/ ResponseFails(g)
    BY <1>1, <2>2 DEF HeadersFail, ErrorArrives, ResponseFails, StreamError, UpdateMessages
  <2>3. CASE DoneArrives(g)
    BY <1>1, <2>3 DEF DoneArrives, StreamComplete, UpdateMessages
  <2>4. CASE SourceCloses(g) \/ \E k \in 1..MaxChunks, style \in Styles : ChunkArrives(g, k, style)
    BY <1>1, <2>4 DEF SourceCloses, ChunkArrives, storageVars
  <2>5. CASE ResponseArrives(g)
    BY <1>1, <2>5 DEF ResponseArrives, UpdateMessages
  <2> QED
    BY <1>6, <2>1, <2>2, <2>3, <2>4, <2>5 DEF Event
<1> QED
  BY <1>2, <1>3, <1>4, <1>5, <1>6 DEF Next

(* When no save is due, localStorage holds the conversation on the screen, *)
(* trimmed: every handler that changes it goes through updateMessages, and *)
(* what loadMessages repaired is stored repaired.                          *)
THEOREM SavedShown == Spec => []SavedIsShown
<1>1. Init => SavedIsShown
  BY PlaygroundConstants, EmptySeq DEF Init, SavedIsShown, Trimmed
<1>2. IInv /\ SavedIsShown /\ [Next]_vars => SavedIsShown'
  BY SavedStep
<1> QED
  BY <1>1, <1>2, Inductive, PTL DEF Spec

-----------------------------------------------------------------------------
(* Answers that have ended *)

Stands ==
  \A i \in DOMAIN messages : \A j \in DOMAIN messages' :
    Same(messages[i], messages'[j]) /\ messages[i].status \notin Pending
    => \/ messages'[j] = messages[i]
       \/ editing = messages[i].key /\ editing' = 0

LEMMA StandsFrom ==
  ASSUME IInv,
         \A j \in DOMAIN messages' :
           \/ \E h \in DOMAIN messages : messages'[j] = messages[h]
           \/ \A h \in DOMAIN messages : messages[h].key # messages'[j].key
           \/ messages'[j].key = editing /\ editing' = 0
  PROVE  Stands
<1> SUFFICES ASSUME NEW i \in DOMAIN messages, NEW j \in DOMAIN messages',
                    messages[i].key = messages'[j].key
             PROVE  \/ messages'[j] = messages[i]
                    \/ editing = messages[i].key /\ editing' = 0
  BY DEF Stands, Same
<1>1. CASE \E h \in DOMAIN messages : messages'[j] = messages[h]
  BY <1>1 DEF IInv, TypeInv, MessageTypes, KeysDiffer
<1>2. CASE ~\E h \in DOMAIN messages : messages'[j] = messages[h]
  BY <1>2
<1> QED
  BY <1>1, <1>2

LEMMA StandsRewritten ==
  ASSUME IInv, Rewrites(messages, messages'), requesting \/ messages' = messages
  PROVE  Stands
<1>1. /\ messages \in Seq(Message) /\ messages' \in Seq(Message) /\ Len(messages') = Len(messages)
      /\ DOMAIN messages = 1..Len(messages)
  BY LenProperties DEF IInv, TypeInv, MessageTypes, Rewrites
<1>2. DOMAIN messages' = DOMAIN messages
  BY <1>1, LenProperties
<1> SUFFICES ASSUME NEW i \in DOMAIN messages, NEW j \in DOMAIN messages',
                    messages[i].key = messages'[j].key, ~IsPending(messages[i])
             PROVE  messages'[j] = messages[i]
  BY SMTT(30) DEF Stands, Same, IsPending
<1>3. messages'[j].key = messages[j].key
  BY <1>1, <1>2 DEF Rewrites
<1>4. i = j
  BY <1>2, <1>3 DEF IInv, TypeInv, MessageTypes, KeysDiffer
<1>5. CASE messages' = messages
  BY <1>4, <1>5
<1>6. CASE requesting
  <2>1. i # Len(messages)
    <3> SUFFICES ASSUME i = Len(messages) PROVE FALSE
      OBVIOUS
    <3>1. messages[i] = Last(messages)
      BY DEF Last
    <3> QED
      BY <1>6, <3>1, LastIsAnswered
  <2> QED
    BY <1>1, <1>4, <2>1 DEF Rewrites
<1> QED
  BY <1>5, <1>6

LEMMA FinalStep ==
  IInv /\ [Next]_vars => Stands
<1> SUFFICES ASSUME IInv, [Next]_vars PROVE Stands
  OBVIOUS
<1>0. messages \in Seq(Message) /\ KeysDiffer(messages) /\ TypeInv
  BY DEF IInv, TypeInv, MessageTypes
<1>1. ASSUME messages' = messages PROVE Stands
  BY <1>1, StandsFrom
<1>2. ASSUME NEW msgs, Sends(msgs) PROVE Stands
  <2>1. /\ \A j \in DOMAIN messages' : j \in DOMAIN msgs \/ messages'[j].key = AnswerKey
        /\ \A j \in DOMAIN msgs : messages'[j] = msgs[j]
    BY <1>2, SentIs
  <2>2. UserMessage(NextKey).key = NextKey
    BY KeysTaken, UserMessages
  <2> QED
    BY <1>2, <2>1, <2>2, KeysTaken, StandsFrom DEF Sends
<1>3. ASSUME PartOf(messages, messages') PROVE Stands
  BY <1>3, StandsFrom DEF PartOf
<1>4. CASE UNCHANGED vars
  BY <1>1, <1>4 DEF vars
<1>5. CASE User
  <2>1. CASE HandleSendMessage
    BY <1>2, <2>1, SendStep
  <2>2. CASE HandleClearMessages \/ Leave \/ Reload
    <3>1. messages' = <<>>
      BY <2>2 DEF HandleClearMessages, UpdateMessages, Leave, Reload, Gone
    <3> QED
      BY <3>1, EmptySeq DEF Stands
  <2>3. CASE StopGeneration
    BY <1>0, <2>3, StopIs, StandsRewritten DEF StopGeneration, Generating, IInv, ReqInv
  <2>4. CASE CancelEdit
    BY <1>1, <2>4 DEF CancelEdit
  <2>5. ASSUME NEW i \in DOMAIN messages, HandleRegenerateMessage(i) \/ SubmitEdit(i)
        PROVE  Stands
    BY <1>2, <2>5, RegenerateStep, SubmitStep
  <2>6. ASSUME NEW i \in DOMAIN messages, HandleEditMessage(i) PROVE Stands
    BY <1>1, <2>6 DEF HandleEditMessage
  <2>7. ASSUME NEW i \in DOMAIN messages, HandleDeleteMessage(i) PROVE Stands
    BY <1>0, <1>3, <2>7, RemovedPart DEF HandleDeleteMessage, UpdateMessages
  <2>8. ASSUME NEW i \in DOMAIN messages, SaveEdit(i) PROVE Stands
    <3>1. messages' = EditedMessages(i) /\ editing' = 0 /\ messages[i].key = editing
      BY <2>8 DEF SaveEdit, UpdateMessages
    <3>2. /\ messages' \in Seq(Message) /\ Len(messages') = Len(messages)
          /\ \A j \in DOMAIN messages : j # i => messages'[j] = messages[j]
          /\ messages'[i].key = messages[i].key
      BY <1>0, <3>1, EditedIs
    <3>3. DOMAIN messages' = DOMAIN messages
      BY <1>0, <3>2, LenProperties
    <3> QED
      BY <3>1, <3>2, <3>3, StandsFrom
  <2>9. CASE Mount
    BY <2>9 DEF Mount, IInv, ConvInv, Stands
  <2> QED
    BY <1>5, <2>1, <2>2, <2>3, <2>4, <2>5, <2>6, <2>7, <2>8, <2>9 DEF User
<1>6. CASE FlushTimer
  <2>1. messages' = messages
        \/ (messages' = Flushed(chatGen) /\ pending.gen = chatGen /\ pending.text # <<>>)
    BY <1>6 DEF FlushTimer, UpdateMessages
  <2> QED
    BY <1>0, <1>1, <2>1, FlushedIs, StandsRewritten DEF IInv, ReqInv
<1>7. CASE SaveTimer
  BY <1>1, <1>7 DEF SaveTimer
<1>8. ASSUME NEW g \in Gen, Event(g) PROVE Stands
  <2>1. CASE HeadersArrive(g) \/ SourceCloses(g)
             \/ \E k \in 1..MaxChunks, style \in Styles : ChunkArrives(g, k, style)
    BY <1>1, <2>1 DEF HeadersArrive, SourceCloses, ChunkArrives
  <2>2. CASE HeadersFail(g)
    <3>1. CASE req[g].stream # streamGen
      BY <1>1, <2>2, <3>1 DEF HeadersFail
    <3>2. CASE req[g].stream = streamGen
      BY <1>0, <2>2, <3>2, StreamErrorIs, StandsRewritten DEF HeadersFail, IInv, ReqInv, Running
    <3> QED
      BY <3>1, <3>2
  <2>3. CASE ErrorArrives(g)
    <3>1. StreamError(g) /\ requesting
      BY <2>3, PlaygroundConstants DEF ErrorArrives, IInv, ReqInv, IsCurrent, Gen
    <3> QED
      BY <1>0, <3>1, StreamErrorIs, StandsRewritten
  <2>4. CASE ResponseFails(g)
    <3>1. StreamError(g) /\ (g = chatGen => requesting)
      BY <2>4 DEF ResponseFails, IInv, ReqInv
    <3> QED
      BY <1>0, <3>1, StreamErrorIs, StandsRewritten
  <2>5. CASE DoneArrives(g)
    <3>1. messages' = messages \/ (StreamComplete(g) /\ requesting)
      BY <2>5, PlaygroundConstants DEF DoneArrives, IInv, ReqInv, IsCurrent, Gen
    <3> QED
      BY <1>0, <1>1, <3>1, StreamCompleteIs, StandsRewritten
  <2>6. CASE ResponseArrives(g)
    <3>1. g = chatGen => requesting
      BY <2>6 DEF ResponseArrives, IInv, ReqInv
    <3> QED
      BY <1>0, <2>6, <3>1, ResponseIs, StandsRewritten
  <2> QED
    BY <1>8, <2>1, <2>2, <2>3, <2>4, <2>5, <2>6 DEF Event
<1> QED
  BY <1>4, <1>5, <1>6, <1>7, <1>8 DEF Next

(* An answer that has ended stays as it is: no late event of its request   *)
(* or of another, and no timer, changes it; only an edit that is saved.    *)
THEOREM FinalAnswers == Spec => FinalStands
<1>1. IInv /\ [Next]_vars =>
        [\A i \in DOMAIN messages : \A j \in DOMAIN messages' :
           Same(messages[i], messages'[j]) /\ messages[i].status \notin Pending
           => \/ messages'[j] = messages[i]
              \/ editing = messages[i].key /\ editing' = 0]_vars
  BY FinalStep DEF Stands
<1> QED
  BY <1>1, Inductive, PTL DEF Spec, FinalStands

-----------------------------------------------------------------------------
(* Texts: the pieces of the answer to request g, and what Merged and      *)
(* Appendable make of two that adjoin.                                     *)

TokensOf(g) == {g} \X Nat

\* the tokens after the first a, up to b
Piece(g, a, b) == [i \in 1..(b - a) |-> <<g, a + i>>]

LEMMA PieceIs ==
  ASSUME NEW g, NEW a \in Nat, NEW b \in Nat, a <= b
  PROVE  Piece(g, a, b) \in Seq(TokensOf(g)) /\ Len(Piece(g, a, b)) = b - a
<1>1. Piece(g, a, b) \in [1..(b - a) -> TokensOf(g)]
  BY DEF Piece, TokensOf
<1>2. b - a \in Nat
  OBVIOUS
<1>3. Piece(g, a, b) \in Seq(TokensOf(g))
  BY <1>1, <1>2, SeqDef
<1>4. DOMAIN Piece(g, a, b) = 1..(b - a)
  BY DEF Piece
<1>5. Len(Piece(g, a, b)) = b - a
  BY <1>2, <1>3, <1>4, LenProperties
<1> QED
  BY <1>3, <1>5

LEMMA PieceAt ==
  ASSUME NEW g, NEW a \in Nat, NEW b \in Nat
  PROVE  \A i \in 1..(b - a) : Piece(g, a, b)[i] = <<g, a + i>>
BY DEF Piece

LEMMA StartIs ==
  ASSUME NEW g, NEW b \in Nat
  PROVE  /\ Piece(g, 0, b) \in Seq(TokensOf(g)) /\ Len(Piece(g, 0, b)) = b
         /\ \A i \in 1..b : Piece(g, 0, b)[i] = <<g, i>>
<1>1. Len(Piece(g, 0, b)) = b - 0 /\ Piece(g, 0, b) \in Seq(TokensOf(g))
  <2>1. 0 \in Nat /\ 0 <= b
    OBVIOUS
  <2> QED
    BY <2>1, PieceIs
<1>2. \A i \in 1..(b - 0) : Piece(g, 0, b)[i] = <<g, 0 + i>>
  BY PieceAt
<1>3. b - 0 = b /\ \A i \in 1..b : 0 + i = i
  OBVIOUS
<1> QED
  BY <1>1, <1>2, <1>3

LEMMA AnswerIs ==
  ASSUME NEW g, NEW k \in Nat
  PROVE  Answer(g, k) = Piece(g, 0, k)
BY DEF Answer, Piece

LEMMA PieceJoin ==
  ASSUME NEW g, NEW a \in Nat, NEW b \in Nat, NEW c \in Nat, a <= b, b <= c
  PROVE  Piece(g, a, b) \o Piece(g, b, c) = Piece(g, a, c)
<1> DEFINE s == Piece(g, a, b)
           t == Piece(g, b, c)
           u == Piece(g, a, c)
<1>1. /\ s \in Seq(TokensOf(g)) /\ Len(s) = b - a /\ \A i \in 1..(b - a) : s[i] = <<g, a + i>>
      /\ t \in Seq(TokensOf(g)) /\ Len(t) = c - b /\ \A i \in 1..(c - b) : t[i] = <<g, b + i>>
      /\ u \in Seq(TokensOf(g)) /\ Len(u) = c - a /\ \A i \in 1..(c - a) : u[i] = <<g, a + i>>
  <2>1. a <= c
    OBVIOUS
  <2> QED
    BY <2>1, PieceIs, PieceAt
<1> HIDE DEF s, t, u
<1>2. /\ s \o t \in Seq(TokensOf(g)) /\ Len(s \o t) = Len(s) + Len(t)
      /\ \A i \in 1..(Len(s) + Len(t)) : (s \o t)[i] = IF i <= Len(s) THEN s[i] ELSE t[i - Len(s)]
  BY <1>1, ConcatProperties
<1>3. Len(s \o t) = Len(u)
  BY <1>1, <1>2
<1>4. ASSUME NEW i \in 1..Len(s \o t) PROVE (s \o t)[i] = u[i]
  <2>1. CASE i <= b - a
    <3>1. i \in 1..(b - a) /\ i \in 1..(c - a)
      BY <1>1, <1>2, <2>1
    <3>2. (s \o t)[i] = s[i]
      BY <1>1, <1>2, <2>1
    <3> QED
      BY <1>1, <3>1, <3>2
  <2>2. CASE ~(i <= b - a)
    <3>1. i - (b - a) \in 1..(c - b) /\ b + (i - (b - a)) = a + i /\ i \in 1..(c - a)
      BY <1>1, <1>2, <2>2
    <3>2. (s \o t)[i] = t[i - (b - a)]
      BY <1>1, <1>2, <2>2
    <3> QED
      BY <1>1, <3>1, <3>2
  <2> QED
    BY <2>1, <2>2
<1>5. s \o t = u
  BY <1>1, <1>2, <1>3, <1>4, SeqEqual
<1> QED
  BY <1>5 DEF s, t, u

LEMMA PieceCut ==
  ASSUME NEW g, NEW b \in Nat, NEW p \in Nat, NEW q \in Nat, p <= q, q <= b
  PROVE  SubSeq(Piece(g, 0, b), p + 1, q) = Piece(g, p, q)
<1> DEFINE s == Piece(g, 0, b)
           t == Piece(g, p, q)
           u == SubSeq(s, p + 1, q)
<1>1. /\ Len(s) = b /\ \A i \in 1..b : s[i] = <<g, i>>
      /\ t \in Seq(TokensOf(g)) /\ Len(t) = q - p /\ \A i \in 1..(q - p) : t[i] = <<g, p + i>>
  <2>1. Len(s) = b
    BY StartIs
  <2>2. \A i \in 1..b : s[i] = <<g, i>>
    BY StartIs
  <2>3. t \in Seq(TokensOf(g)) /\ Len(t) = q - p
    BY PieceIs
  <2>4. \A i \in 1..(q - p) : t[i] = <<g, p + i>>
    BY PieceAt
  <2> QED
    BY <2>1, <2>2, <2>3, <2>4
<1> HIDE DEF s, t
<1>2. \A i \in (p + 1)..q : s[i] \in TokensOf(g)
  <2>1. \A i \in (p + 1)..q : i \in 1..b
    OBVIOUS
  <2>2. \A i \in 1..b : <<g, i>> \in TokensOf(g)
    BY DEF TokensOf
  <2> QED
    BY <1>1, <2>1, <2>2
<1>3. /\ u \in Seq(TokensOf(g))
      /\ Len(u) = IF p + 1 <= q THEN q - (p + 1) + 1 ELSE 0
      /\ \A i \in 1..(q - (p + 1) + 1) : u[i] = s[(p + 1) + i - 1]
  BY <1>2, SubSeqProperties
<1> HIDE DEF u
<1>4. Len(u) = Len(t)
  BY <1>1, <1>3
<1>5. ASSUME NEW i \in 1..Len(u) PROVE u[i] = t[i]
  <2>1. i \in 1..(q - (p + 1) + 1) /\ (p + 1) + i - 1 = p + i /\ p + i \in 1..b /\ i \in 1..(q - p)
    BY <1>1, <1>4
  <2> QED
    BY <1>1, <1>3, <2>1
<1>6. u = t
  BY <1>1, <1>3, <1>4, <1>5, SeqEqual
<1> QED
  BY <1>6 DEF s, t, u

LEMMA PiecePrefix ==
  ASSUME NEW g, NEW a \in Nat, NEW b \in Nat, a <= b
  PROVE  IsPrefix(Piece(g, 0, a), Piece(g, 0, b))
<1>1. Len(Piece(g, 0, a)) = a /\ Len(Piece(g, 0, b)) = b
  BY StartIs
<1>2. SubSeq(Piece(g, 0, a), 0 + 1, a) = Piece(g, 0, a) /\ SubSeq(Piece(g, 0, b), 0 + 1, a) = Piece(g, 0, a)
  BY PieceCut
<1>3. 0 + 1 = 1
  OBVIOUS
<1> QED
  BY <1>1, <1>2, <1>3 DEF IsPrefix

LEMMA PieceNoPrefix ==
  ASSUME NEW g, NEW a \in Nat, NEW b \in Nat, NEW c \in Nat, NEW d \in Nat, a < b, c <= d, a # c
  PROVE  ~IsPrefix(Piece(g, a, b), Piece(g, c, d))
<1> DEFINE s == Piece(g, a, b)
           t == Piece(g, c, d)
<1>1. /\ s \in Seq(TokensOf(g)) /\ Len(s) = b - a /\ \A i \in 1..(b - a) : s[i] = <<g, a + i>>
      /\ t \in Seq(TokensOf(g)) /\ Len(t) = d - c /\ \A i \in 1..(d - c) : t[i] = <<g, c + i>>
  <2>1. s \in Seq(TokensOf(g)) /\ Len(s) = b - a /\ \A i \in 1..(b - a) : s[i] = <<g, a + i>>
    <3>1. a <= b
      OBVIOUS
    <3> QED
      BY <3>1, PieceIs, PieceAt
  <2>2. t \in Seq(TokensOf(g)) /\ Len(t) = d - c /\ \A i \in 1..(d - c) : t[i] = <<g, c + i>>
    BY PieceIs, PieceAt
  <2> QED
    BY <2>1, <2>2
<1> HIDE DEF s, t
<1> SUFFICES ASSUME IsPrefix(s, t) PROVE FALSE
  BY DEF s, t
<1>2. b - a <= d - c /\ SubSeq(s, 1, b - a) = SubSeq(t, 1, b - a)
  BY <1>1 DEF IsPrefix
<1>3. SubSeq(s, 1, b - a)[1] = s[1] /\ SubSeq(t, 1, b - a)[1] = t[1]
  <2>1. (\A i \in 1..(b - a) : s[i] \in TokensOf(g)) /\ (\A i \in 1..(b - a) : t[i] \in TokensOf(g))
    BY <1>1, <1>2 DEF TokensOf
  <2>2. b - a \in Int /\ 1 \in 1..((b - a) - 1 + 1) /\ 1 + 1 - 1 = 1
    OBVIOUS
  <2> QED
    BY <2>1, <2>2, SubSeqProperties
<1>4. s[1] = <<g, a + 1>> /\ t[1] = <<g, c + 1>>
  BY <1>1, <1>2
<1> QED
  BY <1>2, <1>3, <1>4

\* a text that is behind by what is pending, and what is pending
LEMMA AppendableIs ==
  ASSUME NEW g, NEW a \in Nat, NEW b \in Nat, a <= b, a < b \/ b = 0
  PROVE  /\ Answer(g, a) \o Appendable(Answer(g, a), Piece(g, a, b)) = Answer(g, b)
         /\ Answer(g, a) \o Appendable(Answer(g, a), Answer(g, b)) = Answer(g, b)
<1>1. Answer(g, a) = Piece(g, 0, a) /\ Answer(g, b) = Piece(g, 0, b)
  BY AnswerIs
<1>2. Len(Piece(g, 0, a)) = a /\ Len(Piece(g, 0, b)) = b
  BY StartIs
<1>3. Piece(g, 0, a) \o Piece(g, a, b) = Piece(g, 0, b)
  <2>1. 0 \in Nat /\ 0 <= a
    OBVIOUS
  <2> QED
    BY <2>1, PieceJoin
<1>4. Appendable(Piece(g, 0, a), Piece(g, a, b)) = Piece(g, a, b)
  <2>1. CASE a = 0
    <3>1. Piece(g, 0, a) = <<>>
      BY <1>2, <2>1, StartIs, EmptySeq
    <3> QED
      BY <3>1 DEF Appendable
  <2>2. CASE a # 0
    <3>1. ~IsPrefix(Piece(g, 0, a), Piece(g, a, b))
      BY <2>2, PieceNoPrefix
    <3> QED
      BY <3>1 DEF Appendable
  <2> QED
    BY <2>1, <2>2
<1>5. Piece(g, 0, a) \o Appendable(Piece(g, 0, a), Piece(g, 0, b)) = Piece(g, 0, b)
  <2>1. CASE a = 0
    <3>1. Piece(g, 0, a) = <<>>
      BY <1>2, <2>1, StartIs, EmptySeq
    <3>2. Appendable(Piece(g, 0, a), Piece(g, 0, b)) = Piece(g, a, b)
      BY <2>1, <3>1 DEF Appendable
    <3> QED
      BY <1>3, <3>2
  <2>2. CASE a # 0
    <3>1. Piece(g, 0, a) # <<>>
      BY <1>2, <2>2, EmptySeq
    <3>2. IsPrefix(Piece(g, 0, a), Piece(g, 0, b))
      BY PiecePrefix
    <3>3. Appendable(Piece(g, 0, a), Piece(g, 0, b)) = SubSeq(Piece(g, 0, b), a + 1, b)
      BY <1>2, <3>1, <3>2 DEF Appendable
    <3>4. SubSeq(Piece(g, 0, b), a + 1, b) = Piece(g, a, b)
      <4>1. b <= b
        OBVIOUS
      <4> QED
        BY <4>1, PieceCut
    <3> QED
      BY <1>3, <3>3, <3>4
  <2> QED
    BY <2>1, <2>2
<1> QED
  BY <1>1, <1>3, <1>4, <1>5

\* what is pending when the next chunk arrives
LEMMA MergedIs ==
  ASSUME NEW g, NEW a \in Nat, NEW b \in Nat, a <= b
  PROVE  /\ Merged(Piece(g, a, b), << <<g, b + 1>> >>) = Piece(g, a, b + 1)
         /\ Merged(Answer(g, b), Answer(g, b + 1)) = Answer(g, b + 1)
         /\ Merged(<<>>, Answer(g, b + 1)) = Answer(g, b + 1)
<1>1. Answer(g, b) = Piece(g, 0, b) /\ Answer(g, b + 1) = Piece(g, 0, b + 1)
  BY AnswerIs
<1>2. << <<g, b + 1>> >> = Piece(g, b, b + 1)
  <2> DEFINE s == << <<g, b + 1>> >>
  <2>1. s \in Seq(TokensOf(g)) /\ Len(s) = 1 /\ s[1] = <<g, b + 1>>
    BY DEF TokensOf
  <2>2. Piece(g, b, b + 1) \in Seq(TokensOf(g)) /\ Len(Piece(g, b, b + 1)) = 1 /\ Piece(g, b, b + 1)[1] = <<g, b + 1>>
    <3>1. b + 1 \in Nat /\ b <= b + 1 /\ (b + 1) - b = 1
      OBVIOUS
    <3>2. Piece(g, b, b + 1) \in Seq(TokensOf(g)) /\ Len(Piece(g, b, b + 1)) = 1
      BY <3>1, PieceIs
    <3>3. Piece(g, b, b + 1)[1] = <<g, b + 1>>
      <4>1. 1 \in 1..((b + 1) - b)
        BY <3>1
      <4> QED
        BY <3>1, <4>1, PieceAt
    <3> QED
      BY <3>2, <3>3
  <2> HIDE DEF s
  <2>3. s = Piece(g, b, b + 1)
    BY <2>1, <2>2, SeqEqual
  <2> QED
    BY <2>3 DEF s
<1>0. b + 1 \in Nat /\ b <= b + 1 /\ b < b + 1
  OBVIOUS
<1>3. Piece(g, a, b) \o Piece(g, b, b + 1) = Piece(g, a, b + 1)
  BY <1>0, PieceJoin
<1>4. Piece(g, a, b) = <<>> \/ ~IsPrefix(Piece(g, a, b), Piece(g, b, b + 1))
  <2>1. CASE a = b
    <3>1. Len(Piece(g, a, b)) = 0 /\ Piece(g, a, b) \in Seq(TokensOf(g))
      BY <2>1, PieceIs
    <3> QED
      BY <3>1, EmptySeq
  <2>2. CASE a # b
    <3>1. a < b
      BY <2>2
    <3> QED
      BY <1>0, <2>2, <3>1, PieceNoPrefix
  <2> QED
    BY <2>1, <2>2
<1>5. Merged(Piece(g, a, b), << <<g, b + 1>> >>) = Piece(g, a, b + 1)
  BY <1>2, <1>3, <1>4 DEF Merged
<1>6. Piece(g, 0, b + 1) \in Seq(TokensOf(g))
  BY <1>0, StartIs
<1>7. <<>> \o Piece(g, 0, b + 1) = Piece(g, 0, b + 1)
  BY <1>6, ConcatEmptySeq
<1>8. Merged(<<>>, Piece(g, 0, b + 1)) = Piece(g, 0, b + 1)
  BY <1>7 DEF Merged
<1>9. Merged(Piece(g, 0, b), Piece(g, 0, b + 1)) = Piece(g, 0, b + 1)
  <2>1. IsPrefix(Piece(g, 0, b), Piece(g, 0, b + 1))
    BY PiecePrefix
  <2> QED
    BY <1>8, <2>1 DEF Merged
<1> QED
  BY <1>1, <1>5, <1>8, <1>9

-----------------------------------------------------------------------------
(* What the answers show *)

(* The text of an answer nobody edited is a beginning of what its provider *)
(* sends, the whole of it when the answer ended by itself.                 *)
Good(m) ==
  /\ ~IsUser(m) /\ m.own /\ m.status # "error" => \E a \in 0..MaxChunks : m.text = Answer(m.of, a)
  /\ IsPending(m) => m.sent = 0
  /\ m.sent > 0 /\ m.own => m.text = Answer(m.of, m.sent)

(* a chunks are shown.  What waits for the flush timer is the chunks after *)
(* them (deltas) or the newest snapshot, nothing if all is shown.          *)
Waiting(a) ==
  IF pending.text = <<>> THEN a = answer.got
  ELSE /\ a < answer.got
       /\ pending.text = IF answer.style = "delta" THEN Piece(chatGen, a, answer.got)
                         ELSE Answer(chatGen, answer.got)

LiveAnswer ==
  requesting =>
    /\ Last(messages).own
    /\ \E a \in 0..MaxChunks : Last(messages).text = Answer(chatGen, a) /\ Waiting(a)

(* What is stored is as good as what is shown: Mount brings it back. *)
FaithInv ==
  /\ \A i \in DOMAIN messages : Good(messages[i])
  /\ \A i \in DOMAIN stored : Good(stored[i])
  /\ LiveAnswer

LEMMA FlushText ==
  ASSUME IInv, FaithInv, requesting
  PROVE  LET m == Last(Flushed(chatGen)) IN
         /\ m \in Message /\ m.text = Answer(chatGen, answer.got)
         /\ m.own /\ m.sent = 0 /\ IsPending(m) /\ m.of = chatGen
<1> DEFINE l == Last(messages)
           m == Last(Flushed(chatGen))
           got == answer.got
<1>1. messages # <<>> /\ IsPending(l) /\ ~IsUser(l) /\ l.of = chatGen /\ pending.gen = chatGen
  BY LastIsAnswered DEF IInv, ConvInv, ReqInv
<1>2. l \in Message /\ m \in Message
  BY <1>1, FlushedLast
<1>3. l.sent = 0
  <2>1. messages \in Seq(Message) /\ DOMAIN messages = 1..Len(messages)
    BY LenProperties DEF IInv, TypeInv, MessageTypes
  <2>2. Good(l)
    BY <1>1, <2>1, LastOf DEF FaithInv
  <2> QED
    BY <1>1, <2>2 DEF Good
<1>4. l.own
  BY DEF FaithInv, LiveAnswer
<1>5. PICK a \in 0..MaxChunks : l.text = Answer(chatGen, a) /\ Waiting(a)
  BY DEF FaithInv, LiveAnswer
<1>6. m = IF pending.text = <<>> THEN l ELSE ApplyStreamingChunk(l, pending.text)
  BY <1>1, FlushedIs DEF IInv
<1> HIDE DEF l, m
<1>7. CASE pending.text = <<>>
  <2>1. m = l /\ a = got
    BY <1>5, <1>6, <1>7 DEF Waiting
  <2> QED
    BY <1>1, <1>2, <1>3, <1>4, <1>5, <2>1 DEF m
<1>8. CASE pending.text # <<>>
  <2>1. /\ a < got /\ a \in Nat /\ got \in Nat
        /\ pending.text = Piece(chatGen, a, got) \/ pending.text = Answer(chatGen, got)
    BY <1>5, <1>8, PlaygroundConstants DEF Waiting, IInv, TypeInv, StateTypes
  <2> HIDE DEF got
  <2>2. l.text \o Appendable(l.text, pending.text) = Answer(chatGen, got)
    <3>1. a <= got
      BY <2>1
    <3> QED
      BY <1>5, <2>1, <3>1, AppendableIs
  <2>3. m = [l EXCEPT !.text = Answer(chatGen, got), !.status = "streaming"]
    BY <1>1, <1>2, <1>6, <1>8, <2>2 DEF ApplyStreamingChunk, IsPending, Pending, Message
  <2>4. m.text = Answer(chatGen, got) /\ m.own = l.own /\ m.sent = l.sent /\ m.of = l.of /\ m.status = "streaming"
    BY <1>2, <2>3 DEF Message
  <2> QED
    BY <1>1, <1>2, <1>3, <1>4, <2>4 DEF IsPending, Pending, m, got
<1> QED
  BY <1>7, <1>8

LEMMA EndedGood ==
  ASSUME NEW m \in Message, m.own, m.sent = 0, NEW a \in 0..MaxChunks, m.text = Answer(m.of, a),
         m.of # 0, IInv
  PROVE  /\ Good(WithError(m)) /\ Good(Stopped(m)) /\ Good(CompleteAssistantMessage(m))
         /\ a = answer.got => Good(Finished(m))
         /\ Good(Whole(m, m.of)) /\ Good(m)
<1>1. answer.got \in Nat /\ MaxChunks \in 0..MaxChunks
  BY PlaygroundConstants DEF IInv, TypeInv, StateTypes
<1>2. Good(m)
  BY DEF Good
<1>3. Good(WithError(m))
  <2>1. WithError(m).sent = 0 /\ WithError(m).status = "error"
    BY DEF WithError, Message
  <2> QED
    BY <2>1 DEF Good, IsPending, Pending
<1>4. Good(CompleteAssistantMessage(m))
  <2> DEFINE c == CompleteAssistantMessage(m)
  <2>1. c.sent = 0 /\ c.text = m.text /\ c.of = m.of /\ c.own = m.own
    BY DEF CompleteAssistantMessage, Message
  <2> HIDE DEF c
  <2>2. Good(c)
    BY <2>1 DEF Good
  <2> QED
    BY <2>2 DEF c
<1>5. Good(Stopped(m))
  BY <1>2, <1>4 DEF Stopped
<1>6. a = answer.got => Good(Finished(m))
  <2> SUFFICES ASSUME a = answer.got, IsPending(m) PROVE Good(Finished(m))
    BY <1>2 DEF Finished
  <2> DEFINE c == Finished(m)
  <2>1. c.sent = a /\ c.text = m.text /\ c.of = m.of /\ c.own = m.own /\ c.status = "complete"
    BY DEF Finished, CompleteAssistantMessage, Message
  <2> HIDE DEF c
  <2>2. Good(c)
    BY <2>1 DEF Good, IsPending, Pending
  <2> QED
    BY <2>2 DEF c
<1>7. Good(Whole(m, m.of))
  <2> DEFINE c == Whole(m, m.of)
  <2>1. /\ c.sent = MaxChunks /\ c.text = Answer(m.of, MaxChunks) /\ c.of = m.of /\ c.own = m.own
        /\ c.status = "complete"
    <3> DEFINE d == CompleteAssistantMessage(m)
    <3>1. d \in Message /\ d.of = m.of /\ d.own = m.own /\ d.status = "complete"
      BY MessageOps DEF CompleteAssistantMessage, Message
    <3>2. c = [d EXCEPT !.text = Answer(m.of, MaxChunks), !.sent = MaxChunks]
      BY DEF Whole
    <3> HIDE DEF c, d
    <3> QED
      BY <3>1, <3>2 DEF Message
  <2> HIDE DEF c
  <2>2. Good(c)
    BY <1>1, <2>1 DEF Good, IsPending, Pending
  <2> QED
    BY <2>2 DEF c
<1> QED
  BY <1>2, <1>3, <1>4, <1>5, <1>6, <1>7

LEMMA GoodRewritten ==
  ASSUME IInv, FaithInv, requesting, Rewrites(messages, messages'), stored' = stored,
         Good(Last(messages'))
  PROVE  (\A i \in DOMAIN messages' : Good(messages'[i])) /\ (\A i \in DOMAIN stored' : Good(stored'[i]))
<1>1. messages \in Seq(Message) /\ messages # <<>> /\ DOMAIN messages = 1..Len(messages)
  BY LastIsAnswered, LenProperties, SMTT(30) DEF IInv, TypeInv, MessageTypes
<1>2. /\ messages' \in Seq(Message) /\ Len(messages') = Len(messages)
      /\ \A i \in 1..Len(messages) : i # Len(messages) => messages'[i] = messages[i]
  BY <1>1, RewrittenLast
<1>3. DOMAIN messages' = DOMAIN messages
  BY <1>1, <1>2, LenProperties
<1> QED
  BY <1>1, <1>2, <1>3 DEF FaithInv, Last

-----------------------------------------------------------------------------
(* The editor: it may stay open while an answer is generated, but never on *)
(* that answer, whose text saving the edit would replace under the stream. *)
EditInv ==
  \A i \in DOMAIN messages : IsPending(messages[i]) /\ editing # 0 => messages[i].key # editing

LEMMA EditRewritten ==
  ASSUME IInv, EditInv, Rewrites(messages, messages'), requesting \/ messages' = messages,
         editing' = editing
  PROVE  EditInv'
<1>1. messages \in Seq(Message) /\ messages' \in Seq(Message) /\ Len(messages') = Len(messages)
      /\ DOMAIN messages = 1..Len(messages)
  BY LenProperties DEF IInv, TypeInv, MessageTypes, Rewrites
<1>2. DOMAIN messages' = DOMAIN messages
  BY <1>1, LenProperties
<1>3. CASE messages' = messages
  BY <1>3 DEF EditInv
<1>4. CASE requesting
  <2> SUFFICES ASSUME NEW i \in DOMAIN messages, IsPending(messages'[i]), editing # 0
               PROVE  messages[i].key # editing
    BY <1>1, <1>2 DEF EditInv, Rewrites
  <2>1. CASE i # Len(messages)
    BY <1>1, <2>1 DEF Rewrites, EditInv
  <2>2. CASE i = Len(messages)
    <3>1. messages[i] = Last(messages)
      BY <2>2 DEF Last
    <3> QED
      BY <1>4, <3>1, LastIsAnswered DEF EditInv
  <2> QED
    BY <2>1, <2>2, SMTT(30)
<1> QED
  BY <1>3, <1>4

LEMMA EditStep ==
  IInv /\ EditInv /\ [Next]_vars => EditInv'
<1> SUFFICES ASSUME IInv, EditInv, [Next]_vars PROVE EditInv'
  OBVIOUS
<1>0. messages \in Seq(Message) /\ KeysDiffer(messages) /\ TypeInv
  BY DEF IInv, TypeInv, MessageTypes
<1>1. ASSUME messages' = messages, editing' = editing PROVE EditInv'
  BY <1>1 DEF EditInv
<1>2. ASSUME editing' = 0 PROVE EditInv'
  BY <1>2 DEF EditInv
<1>3. ASSUME NEW msgs, Sends(msgs) PROVE EditInv'
  <2>1. /\ \A j \in DOMAIN messages' : j \in DOMAIN msgs \/ messages'[j].key = AnswerKey
        /\ \A j \in DOMAIN msgs : messages'[j] = msgs[j] /\ ~IsPending(msgs[j])
    BY <1>3, SentIs DEF Sends
  <2>2. AnswerKey # editing
    BY <1>0, FreshKeys DEF TypeInv, StateTypes, Keys
  <2> QED
    BY <1>2, <1>3, <2>1, <2>2 DEF Sends, EditInv
<1>4. CASE UNCHANGED vars
  BY <1>1, <1>4 DEF vars
<1>5. CASE User
  <2>1. CASE HandleSendMessage
    BY <1>3, <2>1, SendStep
  <2>2. CASE HandleClearMessages \/ Leave \/ Reload \/ CancelEdit
    BY <1>2, <2>2 DEF HandleClearMessages, Leave, Reload, Gone, CancelEdit
  <2>3. CASE StopGeneration
    BY <1>0, <2>3, StopIs, EditRewritten DEF StopGeneration, Generating, IInv, ReqInv
  <2>4. ASSUME NEW i \in DOMAIN messages, HandleRegenerateMessage(i) \/ SubmitEdit(i)
        PROVE  EditInv'
    BY <1>3, <2>4, RegenerateStep, SubmitStep
  <2>5. ASSUME NEW i \in DOMAIN messages, HandleEditMessage(i) PROVE EditInv'
    BY <2>5, NothingPending DEF HandleEditMessage, EditInv
  <2>6. ASSUME NEW i \in DOMAIN messages, HandleDeleteMessage(i) PROVE EditInv'
    <3>1. PartOf(messages, messages') /\ ~Generating
      BY <1>0, <2>6, RemovedPart DEF HandleDeleteMessage, UpdateMessages
    <3> QED
      BY <3>1, NothingPending DEF PartOf, EditInv
  <2>7. ASSUME NEW i \in DOMAIN messages, SaveEdit(i) PROVE EditInv'
    BY <1>2, <2>7 DEF SaveEdit
  <2>8. CASE Mount
    <3>1. \A i \in DOMAIN messages' : ~IsPending(messages'[i])
      BY <2>8, LoadedIs DEF Mount, IInv
    <3> QED
      BY <3>1 DEF EditInv
  <2> QED
    BY <1>5, <2>1, <2>2, <2>3, <2>4, <2>5, <2>6, <2>7, <2>8 DEF User
<1>6. CASE FlushTimer
  <2>1. editing' = editing
        /\ \/ messages' = messages
           \/ messages' = Flushed(chatGen) /\ pending.gen = chatGen /\ pending.text # <<>>
    BY <1>6 DEF FlushTimer, UpdateMessages
  <2> QED
    BY <1>0, <1>1, <2>1, FlushedIs, EditRewritten DEF IInv, ReqInv
<1>7. CASE SaveTimer
  BY <1>1, <1>7 DEF SaveTimer
<1>8. ASSUME NEW g \in Gen, Event(g) PROVE EditInv'
  <2>1. CASE HeadersArrive(g) \/ SourceCloses(g)
             \/ \E k \in 1..MaxChunks, style \in Styles : ChunkArrives(g, k, style)
    BY <1>1, <2>1 DEF HeadersArrive, SourceCloses, ChunkArrives
  <2>2. CASE HeadersFail(g)
    <3>1. CASE req[g].stream # streamGen
      BY <1>1, <2>2, <3>1 DEF HeadersFail
    <3>2. CASE req[g].stream = streamGen
      BY <1>0, <2>2, <3>2, StreamErrorIs, EditRewritten DEF HeadersFail, IInv, ReqInv, Running
    <3> QED
      BY <3>1, <3>2
  <2>3. CASE ErrorArrives(g)
    <3>1. StreamError(g) /\ requesting /\ editing' = editing
      BY <2>3, PlaygroundConstants DEF ErrorArrives, IInv, ReqInv, IsCurrent, Gen
    <3> QED
      BY <1>0, <3>1, StreamErrorIs, EditRewritten
  <2>4. CASE ResponseFails(g)
    <3>1. StreamError(g) /\ (g = chatGen => requesting) /\ editing' = editing
      BY <2>4 DEF ResponseFails, IInv, ReqInv
    <3> QED
      BY <1>0, <3>1, StreamErrorIs, EditRewritten
  <2>5. CASE DoneArrives(g)
    <3>1. editing' = editing /\ (messages' = messages \/ (StreamComplete(g) /\ requesting))
      BY <2>5, PlaygroundConstants DEF DoneArrives, IInv, ReqInv, IsCurrent, Gen
    <3> QED
      BY <1>0, <1>1, <3>1, StreamCompleteIs, EditRewritten
  <2>6. CASE ResponseArrives(g)
    <3>1. (g = chatGen => requesting) /\ editing' = editing
      BY <2>6 DEF ResponseArrives, IInv, ReqInv
    <3> QED
      BY <1>0, <2>6, <3>1, ResponseIs, EditRewritten
  <2> QED
    BY <1>8, <2>1, <2>2, <2>3, <2>4, <2>5, <2>6 DEF Event
<1> QED
  BY <1>4, <1>5, <1>6, <1>7, <1>8 DEF Next

-----------------------------------------------------------------------------
(* The answers under every action *)

LEMMA QuietFaith ==
  ASSUME FaithInv, UNCHANGED <<messages, stored, pending, answer, chatGen, requesting>>
  PROVE  FaithInv'
BY DEF FaithInv, LiveAnswer, Waiting

LEMMA ErrorFaith ==
  ASSUME IInv, FaithInv, NEW g \in Gen, StreamError(g), g = chatGen => requesting,
         UNCHANGED <<stored, answer>>
  PROVE  FaithInv'
<1>1. CASE g # chatGen
  BY <1>1, QuietFaith DEF StreamError, chatVars
<1>2. CASE g = chatGen
  <2> DEFINE m == Last(Flushed(chatGen))
  <2>1. /\ Rewrites(messages, messages') /\ ~requesting'
        /\ Last(messages') = WithError(m)
    BY <1>2, LastIsAnswered, StreamErrorIs DEF IInv
  <2>2. m \in Message /\ m.own /\ m.sent = 0 /\ m.text = Answer(m.of, answer.got) /\ m.of = chatGen
    BY <1>2, FlushText
  <2>3. answer.got \in 0..MaxChunks /\ chatGen # 0
    BY <1>2 DEF IInv, TypeInv, StateTypes, ConvInv
  <2> HIDE DEF m
  <2>4. Good(WithError(m))
    BY <2>2, <2>3, EndedGood
  <2> QED
    BY <1>2, <2>1, <2>4, GoodRewritten DEF FaithInv, LiveAnswer
<1> QED
  BY <1>1, <1>2

LEMMA CompleteFaith ==
  ASSUME IInv, FaithInv, NEW g \in Gen, StreamComplete(g), g = chatGen, requesting,
         UNCHANGED <<stored, answer>>
  PROVE  FaithInv'
<1> DEFINE m == Last(Flushed(chatGen))
<1>1. /\ Rewrites(messages, messages') /\ ~requesting'
      /\ Last(messages') = Finished(m)
  BY LastIsAnswered, StreamCompleteIs DEF IInv
<1>2. m \in Message /\ m.own /\ m.sent = 0 /\ m.text = Answer(m.of, answer.got) /\ m.of = chatGen
  BY FlushText
<1>3. answer.got \in 0..MaxChunks /\ chatGen # 0
  BY DEF IInv, TypeInv, StateTypes, ConvInv
<1> HIDE DEF m
<1>4. Good(Finished(m))
  BY <1>2, <1>3, EndedGood
<1> QED
  BY <1>1, <1>4, GoodRewritten DEF FaithInv, LiveAnswer

LEMMA LastAnswer ==
  ASSUME IInv, FaithInv, requesting
  PROVE  LET m == Last(messages) IN
         /\ m \in Message /\ m.own /\ m.sent = 0 /\ m.of = chatGen /\ m.of # 0
         /\ \E a \in 0..MaxChunks : m.text = Answer(m.of, a)
<1>1. messages # <<>> /\ messages \in Seq(Message) /\ DOMAIN messages = 1..Len(messages)
  BY LastIsAnswered, LenProperties DEF IInv, TypeInv, MessageTypes
<1>2. Last(messages) \in Message /\ Good(Last(messages))
  BY <1>1, LastOf DEF FaithInv
<1> QED
  BY <1>2 DEF IInv, ConvInv, FaithInv, LiveAnswer, Good

LEMMA StopFaith ==
  ASSUME IInv, FaithInv, StopGeneration
  PROVE  FaithInv'
<1>1. requesting /\ ~requesting' /\ stored' = stored
  BY DEF StopGeneration, Generating, IInv, ReqInv
<1>2. Rewrites(messages, messages')
  BY StopIs DEF IInv
<1>3. PICK m \in {Last(messages), Last(Flushed(chatGen))} : Last(messages') = Stopped(m)
  BY <1>1, LastIsAnswered, StopIs DEF IInv
<1>4. answer.got \in 0..MaxChunks /\ chatGen # 0
  BY <1>1 DEF IInv, TypeInv, StateTypes, ConvInv
<1>5. /\ m \in Message /\ m.own /\ m.sent = 0 /\ m.of # 0
      /\ \E a \in 0..MaxChunks : m.text = Answer(m.of, a)
  BY <1>1, <1>3, <1>4, FlushText, LastAnswer
<1>6. Good(Stopped(m))
  BY <1>5, EndedGood
<1> QED
  BY <1>1, <1>2, <1>3, <1>6, GoodRewritten DEF FaithInv, LiveAnswer

LEMMA ResponseFaith ==
  ASSUME IInv, FaithInv, NEW g \in Gen, ResponseArrives(g)
  PROVE  FaithInv'
<1>1. UNCHANGED <<chatGen, pending, stored, answer>> /\ (g = chatGen => requesting)
  BY DEF ResponseArrives, IInv, ReqInv
<1>2. CASE g # chatGen
  BY <1>1, <1>2, ResponseIs, QuietFaith DEF IInv
<1>3. CASE g = chatGen
  <2> DEFINE m == Last(messages)
  <2>1. Rewrites(messages, messages') /\ Last(messages') = Whole(m, g) /\ ~requesting'
    BY <1>1, <1>3, LastIsAnswered, ResponseIs DEF IInv
  <2>2. /\ m \in Message /\ m.own /\ m.sent = 0 /\ m.of = g /\ m.of # 0
        /\ \E a \in 0..MaxChunks : m.text = Answer(m.of, a)
    BY <1>1, <1>3, LastAnswer
  <2> HIDE DEF m
  <2>3. Good(Whole(m, g))
    BY <2>2, EndedGood
  <2> QED
    BY <1>1, <1>3, <2>1, <2>3, GoodRewritten DEF FaithInv, LiveAnswer
<1> QED
  BY <1>2, <1>3

LEMMA FlushFaith ==
  ASSUME IInv, FaithInv, FlushTimer
  PROVE  FaithInv'
<1>1. UNCHANGED <<chatGen, requesting, stored, answer>>
  BY DEF FlushTimer, reqVars
<1>2. CASE flushTimer # chatGen
  BY <1>1, <1>2, QuietFaith DEF FlushTimer
<1>3. CASE flushTimer = chatGen
  <2>1. pending' = [pending EXCEPT !.text = <<>>]
    BY <1>3 DEF FlushTimer, ClearPending
  <2>2. CASE requesting
    <3> DEFINE m == Last(Flushed(chatGen))
    <3>1. messages' = Flushed(chatGen)
      BY <1>3, <2>2 DEF FlushTimer, UpdateMessages, Flushed
    <3>2. Rewrites(messages, messages') /\ Last(messages') = m
      BY <3>1, FlushedIs DEF IInv
    <3>3. m \in Message /\ m.own /\ m.sent = 0 /\ m.text = Answer(chatGen, answer.got) /\ m.of = chatGen
      BY <2>2, FlushText
    <3>4. answer.got \in 0..MaxChunks /\ chatGen # 0
      BY <2>2 DEF IInv, TypeInv, StateTypes, ConvInv
    <3> HIDE DEF m
    <3>5. Good(m)
      BY <3>3, <3>4, EndedGood
    <3>6. pending'.text = <<>>
      BY <2>1 DEF IInv, TypeInv, StateTypes
    <3>7. LiveAnswer'
      BY <1>1, <3>2, <3>3, <3>4, <3>6 DEF LiveAnswer, Waiting
    <3> QED
      BY <1>1, <2>2, <3>2, <3>5, <3>7, GoodRewritten DEF FaithInv
  <2>3. CASE ~requesting
    <3>1. messages' = messages
      BY <1>3, <2>3 DEF FlushTimer, IInv, ReqInv
    <3> QED
      BY <1>1, <2>3, <3>1 DEF FaithInv, LiveAnswer
  <2> QED
    BY <2>2, <2>3
<1> QED
  BY <1>2, <1>3

LEMMA KeptWaiting ==
  ASSUME FaithInv, requesting, UNCHANGED <<messages, stored, chatGen, requesting>>,
         NEW a \in 0..MaxChunks, Last(messages).text = Answer(chatGen, a), a < answer'.got,
         pending'.text = IF answer'.style = "delta" THEN Piece(chatGen, a, answer'.got)
                         ELSE Answer(chatGen, answer'.got),
         pending'.text # <<>>
  PROVE  FaithInv'
BY DEF FaithInv, LiveAnswer, Waiting

LEMMA ChunkFaith ==
  ASSUME IInv, FaithInv, NEW g \in Gen, NEW k \in 1..MaxChunks, NEW style \in Styles,
         ChunkArrives(g, k, style)
  PROVE  FaithInv'
<1>1. UNCHANGED <<messages, stored, chatGen, requesting>>
  BY DEF ChunkArrives, storageVars
<1>2. CASE ~requesting
  BY <1>1, <1>2 DEF FaithInv, LiveAnswer
<1>3. CASE requesting /\ g # chatGen
  BY <1>1, <1>3, QuietFaith DEF ChunkArrives
<1>4. CASE requesting /\ g = chatGen
  <2>1. IsCurrent(g) /\ pending.gen = g
    BY <1>4 DEF ChunkArrives, IInv, ReqInv
  <2>2. /\ k = answer.got + 1 /\ style = answer.style /\ answer' = [answer EXCEPT !.got = k]
        /\ pending' = [pending EXCEPT !.text = Merged(pending.text, Chunk(g, k, style))]
    BY <1>4, <2>1 DEF ChunkArrives
  <2>3. /\ answer.got \in Nat /\ k \in Nat /\ answer'.got = k /\ answer'.style = style
        /\ pending'.text = Merged(pending.text, Chunk(g, k, style))
    BY <2>2, PlaygroundConstants DEF IInv, TypeInv, StateTypes
  <2>4. PICK a \in 0..MaxChunks : Last(messages).text = Answer(chatGen, a) /\ Waiting(a)
    BY <1>4 DEF FaithInv, LiveAnswer
  <2>5. a \in Nat /\ a <= answer.got /\ a < k
    BY <2>2, <2>3, <2>4, PlaygroundConstants DEF Waiting
  <2>6. CASE style = "delta"
    <3>1. pending.text = Piece(g, a, answer.got)
      <4>1. CASE pending.text = <<>>
        <5>1. a = answer.got
          BY <2>4, <4>1 DEF Waiting
        <5>2. Len(Piece(g, a, answer.got)) = 0 /\ Piece(g, a, answer.got) \in Seq(TokensOf(g))
          BY <2>3, <2>5, <5>1, PieceIs
        <5> QED
          BY <4>1, <5>2, EmptySeq
      <4>2. CASE pending.text # <<>>
        BY <1>4, <2>2, <2>4, <2>6, <4>2 DEF Waiting
      <4> QED
        BY <4>1, <4>2
    <3>2. Chunk(g, k, style) = << <<g, answer.got + 1>> >>
      BY <2>2, <2>6 DEF Chunk
    <3>3. pending'.text = Piece(g, a, k)
      BY <2>2, <2>3, <2>5, <3>1, <3>2, MergedIs
    <3>4. pending'.text # <<>>
      <4>1. Len(Piece(g, a, k)) = k - a
        <5>1. a <= k
          BY <2>3, <2>5
        <5> QED
          BY <2>3, <2>5, <5>1, PieceIs
      <4> QED
        BY <2>3, <2>5, <3>3, <4>1, EmptySeq
    <3> QED
      BY <1>1, <1>4, <2>3, <2>4, <2>5, <2>6, <3>3, <3>4, KeptWaiting
  <2>7. CASE style = "snapshot"
    <3>1. pending.text = <<>> \/ pending.text = Answer(g, answer.got)
      BY <1>4, <2>2, <2>4, <2>7 DEF Waiting
    <3>2. Chunk(g, k, style) = Answer(g, answer.got + 1)
      BY <2>2, <2>7 DEF Chunk
    <3>3. pending'.text = Answer(g, k)
      <4>1. /\ Merged(Answer(g, answer.got), Answer(g, answer.got + 1)) = Answer(g, answer.got + 1)
            /\ Merged(<<>>, Answer(g, answer.got + 1)) = Answer(g, answer.got + 1)
        BY <2>3, <2>5, MergedIs
      <4> QED
        BY <2>2, <2>3, <3>1, <3>2, <4>1
    <3>4. pending'.text # <<>>
      <4>1. Len(Answer(g, k)) = k
        BY <2>3, AnswerIs, StartIs
      <4> QED
        BY <2>3, <2>5, <3>3, <4>1, EmptySeq
    <3> QED
      BY <1>1, <1>4, <2>3, <2>4, <2>5, <2>7, <3>3, <3>4, KeptWaiting
  <2> QED
    BY <2>6, <2>7 DEF Styles
<1> QED
  BY <1>2, <1>3, <1>4

LEMMA SendFaith ==
  ASSUME IInv, FaithInv, NEW msgs, Sends(msgs)
  PROVE  FaithInv'
<1> DEFINE g == chatGen + 1
           m == LoadingMessage(AnswerKey, g)
<1>1. /\ g # 0 /\ chatGen' = g /\ Last(messages') = m
      /\ \A j \in DOMAIN messages' : j \in DOMAIN msgs \/ messages'[j] = m
      /\ \A j \in DOMAIN msgs : messages'[j] = msgs[j]
  BY SentIs
<1>2. m.text = <<>> /\ m.own /\ m.sent = 0 /\ m.of = g
  BY DEF LoadingMessage
<1>3. stored' = stored /\ pending'.text = <<>> /\ answer'.got = 0
  BY DEF Sends, SendChat, SendStreaming, SendPlain, Discard, Unanswered
<1> HIDE DEF m, g
<1>4. \A h : Answer(h, 0) = <<>>
  <2> TAKE h
  <2>1. Piece(h, 0, 0) \in Seq(TokensOf(h)) /\ Len(Piece(h, 0, 0)) = 0
    BY StartIs
  <2> QED
    BY <2>1, EmptySeq, AnswerIs
<1>5. 0 \in 0..MaxChunks
  BY PlaygroundConstants
<1>6. Good(m)
  BY <1>2, <1>4, <1>5 DEF Good
<1>7. ASSUME NEW j \in DOMAIN msgs PROVE Good(msgs[j])
  <2>1. CASE \E h \in DOMAIN messages : msgs[j] = messages[h]
    BY <2>1 DEF FaithInv
  <2>2. CASE msgs[j] = UserMessage(NextKey)
    BY <2>2 DEF UserMessage, Good, IsUser, IsPending, Pending
  <2>3. CASE ~msgs[j].own
    BY <2>3 DEF Sends, Good
  <2> QED
    BY <2>1, <2>2, <2>3 DEF Sends
<1>8. \A j \in DOMAIN messages' : Good(messages'[j])
  BY <1>1, <1>6, <1>7
<1>9. LiveAnswer'
  BY <1>1, <1>2, <1>3, <1>4, <1>5 DEF LiveAnswer, Waiting
<1> QED
  BY <1>3, <1>8, <1>9 DEF FaithInv

LEMMA RepairedGood ==
  ASSUME NEW m \in Message, Good(m), NEW n \in Repaired(m)
  PROVE  Good(n)
<1>1. CASE n = Normalized(m)
  <2>1. CASE n = m
    BY <2>1
  <2>2. CASE n # m
    <3>1. n = CompleteAssistantMessage(m) /\ IsPending(m)
      BY <1>1, <2>2 DEF Normalized, IsPending
    <3>2. n.sent = 0 /\ n.text = m.text /\ n.of = m.of /\ n.own = m.own /\ m.status # "error"
      BY <3>1 DEF CompleteAssistantMessage, Message, Good, IsPending, Pending
    <3> QED
      BY <3>2 DEF Good, IsUser
  <2> QED
    BY <2>1, <2>2
<1>2. CASE n = WithError(m) /\ IsPending(m)
  <2>1. n.sent = 0 /\ n.status = "error"
    BY <1>2 DEF WithError, Message, Good
  <2> QED
    BY <2>1 DEF Good, IsPending, Pending
<1> QED
  BY <1>1, <1>2 DEF Repaired

LEMMA SaveEditFaith ==
  ASSUME IInv, EditInv, FaithInv, NEW i \in DOMAIN messages, SaveEdit(i)
  PROVE  FaithInv'
<1>1. /\ messages' = EditedMessages(i) /\ messages[i].key = editing /\ editing # 0
      /\ UNCHANGED <<stored, pending, answer, chatGen, requesting>>
  BY DEF SaveEdit, UpdateMessages, chatVars, reqVars
<1>2. messages \in Seq(Message) /\ DOMAIN messages = 1..Len(messages) /\ TypeInv
  BY LenProperties DEF IInv, TypeInv, MessageTypes
<1>3. /\ messages' \in Seq(Message) /\ Len(messages') = Len(messages)
      /\ \A j \in DOMAIN messages : j # i => messages'[j] = messages[j]
      /\ ~messages'[i].own /\ messages'[i].status = messages[i].status
      /\ messages'[i].sent = messages[i].sent
  BY <1>1, <1>2, EditedIs
<1>4. DOMAIN messages' = DOMAIN messages
  BY <1>2, <1>3, LenProperties
<1>5. Good(messages'[i])
  BY <1>3 DEF FaithInv, Good, IsPending
<1>6. \A j \in DOMAIN messages' : Good(messages'[j])
  BY <1>3, <1>4, <1>5 DEF FaithInv
<1>7. requesting => i # Len(messages)
  <2> SUFFICES ASSUME requesting, i = Len(messages) PROVE FALSE
    OBVIOUS
  <2>1. messages[i] = Last(messages) /\ IsPending(messages[i])
    BY LastIsAnswered DEF Last
  <2> QED
    BY <1>1, <2>1 DEF EditInv
<1>8. requesting => Last(messages') = Last(messages)
  <2> SUFFICES ASSUME requesting PROVE Last(messages') = Last(messages)
    OBVIOUS
  <2>1. Len(messages) \in DOMAIN messages
    BY <1>2, LastIsAnswered, LastOf
  <2> QED
    BY <1>3, <1>7, <2>1 DEF Last
<1>9. LiveAnswer'
  BY <1>1, <1>8 DEF FaithInv, LiveAnswer, Waiting
<1> QED
  BY <1>1, <1>6, <1>9 DEF FaithInv

LEMMA FaithStep ==
  IInv /\ EditInv /\ FaithInv /\ [Next]_vars => FaithInv'
<1> SUFFICES ASSUME IInv, EditInv, FaithInv, [Next]_vars PROVE FaithInv'
  OBVIOUS
<1>0. /\ messages \in Seq(Message) /\ KeysDiffer(messages)
      /\ stored \in Seq(Message) /\ DOMAIN stored = 1..Len(stored)
  BY LenProperties DEF IInv, TypeInv, MessageTypes
<1>1. CASE UNCHANGED vars
  BY <1>1, QuietFaith DEF vars, chatVars, reqVars, storageVars
<1>2. CASE User
  <2>1. CASE HandleSendMessage
    BY <2>1, SendStep, SendFaith
  <2>2. CASE HandleClearMessages
    BY <2>2 DEF HandleClearMessages, UpdateMessages, Generating, FaithInv, LiveAnswer, chatVars
  <2>3. CASE StopGeneration
    BY <2>3, StopFaith
  <2>4. CASE CancelEdit
    BY <2>4, QuietFaith DEF CancelEdit, chatVars, reqVars, storageVars
  <2>5. ASSUME NEW i \in DOMAIN messages, HandleRegenerateMessage(i) \/ SubmitEdit(i)
        PROVE  FaithInv'
    BY <2>5, RegenerateStep, SubmitStep, SendFaith
  <2>6. ASSUME NEW i \in DOMAIN messages, HandleEditMessage(i) PROVE FaithInv'
    BY <2>6, QuietFaith DEF HandleEditMessage, chatVars, reqVars, storageVars
  <2>7. ASSUME NEW i \in DOMAIN messages, HandleDeleteMessage(i) PROVE FaithInv'
    <3>1. PartOf(messages, messages') /\ stored' = stored /\ ~requesting'
      BY <1>0, <2>7, RemovedPart DEF HandleDeleteMessage, UpdateMessages, Generating, chatVars
    <3> QED
      BY <3>1 DEF FaithInv, LiveAnswer, PartOf
  <2>8. ASSUME NEW i \in DOMAIN messages, SaveEdit(i) PROVE FaithInv'
    BY <2>8, SaveEditFaith
  <2>9. CASE Leave \/ Reload
    <3>1. messages' = <<>> /\ ~requesting' /\ (stored' = stored \/ stored' = Trimmed(messages))
      BY <2>9 DEF Leave, Reload, Gone
    <3> QED
      BY <3>1, TrimmedInv DEF FaithInv, LiveAnswer, PartOf
  <2>10. CASE Mount
    <3>1. messages' = LoadMessages(stored) /\ stored' = LoadMessages(stored) /\ ~requesting'
      BY <2>10 DEF Mount, IInv, ConvInv, chatVars
    <3>2. \A i \in DOMAIN LoadMessages(stored) :
            \E j \in DOMAIN stored : LoadMessages(stored)[i] \in Repaired(stored[j])
      BY LoadedIs DEF IInv
    <3>3. \A j \in DOMAIN stored : stored[j] \in Message /\ Good(stored[j])
      BY <1>0, ElementOfSeq DEF FaithInv
    <3>4. \A i \in DOMAIN LoadMessages(stored) : Good(LoadMessages(stored)[i])
      BY <3>2, <3>3, RepairedGood
    <3> QED
      BY <3>1, <3>4 DEF FaithInv, LiveAnswer
  <2> QED
    BY <1>2, <2>1, <2>2, <2>3, <2>4, <2>5, <2>6, <2>7, <2>8, <2>9, <2>10 DEF User
<1>3. CASE FlushTimer
  BY <1>3, FlushFaith
<1>4. CASE SaveTimer
  <2>1. /\ stored' = Trimmed(messages)
        /\ UNCHANGED <<messages, pending, answer, chatGen, requesting>>
    BY <1>4 DEF SaveTimer, chatVars, reqVars
  <2> QED
    BY <2>1, TrimmedInv DEF FaithInv, LiveAnswer, Waiting, PartOf
<1>5. ASSUME NEW g \in Gen, Event(g) PROVE FaithInv'
  <2>1. CASE HeadersArrive(g) \/ SourceCloses(g)
    BY <2>1, QuietFaith DEF HeadersArrive, SourceCloses, chatVars, storageVars
  <2>2. CASE HeadersFail(g)
    <3>1. CASE req[g].stream # streamGen
      BY <2>2, <3>1, QuietFaith DEF HeadersFail, chatVars
    <3>2. CASE req[g].stream = streamGen
      BY <2>2, <3>2, ErrorFaith DEF HeadersFail, IInv, ReqInv, Running
    <3> QED
      BY <3>1, <3>2
  <2>3. CASE ErrorArrives(g)
    <3>1. StreamError(g) /\ requesting /\ UNCHANGED <<stored, answer>>
      BY <2>3, PlaygroundConstants DEF ErrorArrives, IInv, ReqInv, IsCurrent, Gen, reqVars
    <3> QED
      BY <3>1, ErrorFaith
  <2>4. CASE ResponseFails(g)
    <3>1. StreamError(g) /\ (g = chatGen => requesting) /\ UNCHANGED <<stored, answer>>
      BY <2>4 DEF ResponseFails, IInv, ReqInv
    <3> QED
      BY <3>1, ErrorFaith
  <2>5. CASE DoneArrives(g)
    <3>1. CASE IsCurrent(g)
      <4>1. StreamComplete(g) /\ requesting /\ g = chatGen /\ UNCHANGED <<stored, answer>>
        BY <2>5, <3>1, PlaygroundConstants DEF DoneArrives, IInv, ReqInv, IsCurrent, Gen
      <4> QED
        BY <4>1, CompleteFaith
    <3>2. CASE ~IsCurrent(g)
      BY <2>5, <3>2, QuietFaith DEF DoneArrives, chatVars
    <3> QED
      BY <3>1, <3>2
  <2>6. CASE ResponseArrives(g)
    BY <2>6, ResponseFaith
  <2>7. ASSUME NEW k \in 1..MaxChunks, NEW style \in Styles, ChunkArrives(g, k, style)
        PROVE  FaithInv'
    BY <2>7, ChunkFaith
  <2> QED
    BY <1>5, <2>1, <2>2, <2>3, <2>4, <2>5, <2>6, <2>7 DEF Event
<1> QED
  BY <1>1, <1>2, <1>3, <1>4, <1>5 DEF Next

(* In every reachable state what is shown and what waits for the flush     *)
(* timer adjoin, for deltas and for snapshots, and the editor is never on  *)
(* the answer that is being generated.                                     *)
THEOREM Faithful == Spec => [](EditInv /\ FaithInv)
<1>1. Init => EditInv /\ FaithInv
  BY EmptySeq DEF Init, EditInv, FaithInv, LiveAnswer
<1>2. IInv /\ EditInv /\ [Next]_vars => EditInv'
  BY EditStep
<1>3. IInv /\ EditInv /\ FaithInv /\ [Next]_vars => FaithInv'
  BY FaithStep
<1> QED
  BY <1>1, <1>2, <1>3, Inductive, PTL DEF Spec

(* An answer shows a beginning of what the provider sent for its own       *)
(* request: no chunk of another one, none twice, none left out, however    *)
(* requests replace each other and chunks are batched.                     *)
THEOREM AnswersFaithful == Spec => []AnswerIsFaithful
<1>1. FaithInv => AnswerIsFaithful
  <2> SUFFICES ASSUME FaithInv, NEW i \in DOMAIN messages,
                      ~IsUser(messages[i]), messages[i].own, messages[i].status # "error"
               PROVE  IsPrefix(messages[i].text, Answer(messages[i].of, MaxChunks))
    BY DEF AnswerIsFaithful
  <2> DEFINE of == messages[i].of
  <2>1. PICK a \in 0..MaxChunks : messages[i].text = Answer(of, a)
    BY DEF FaithInv, Good
  <2> HIDE DEF of
  <2>2. a \in Nat /\ MaxChunks \in Nat /\ a <= MaxChunks
    BY PlaygroundConstants
  <2>3. IsPrefix(Answer(of, a), Answer(of, MaxChunks))
    <3>1. Answer(of, a) = Piece(of, 0, a) /\ Answer(of, MaxChunks) = Piece(of, 0, MaxChunks)
      BY <2>2, AnswerIs
    <3>2. IsPrefix(Piece(of, 0, a), Piece(of, 0, MaxChunks))
      BY <2>2, PiecePrefix
    <3> QED
      BY <3>1, <3>2
  <2> QED
    BY <2>1, <2>3 DEF of
<1> QED
  BY <1>1, Faithful, PTL

(* An answer that ended by itself shows all that was sent, the chunks that *)
(* were waiting for the flush timer included.                              *)
THEOREM DoneWhole == Spec => []DoneIsWhole
<1>1. FaithInv => DoneIsWhole
  BY DEF FaithInv, Good, DoneIsWhole
<1> QED
  BY <1>1, Faithful, PTL
=============================================================================
