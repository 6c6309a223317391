--------------------------- MODULE PlaygroundChat ---------------------------
(***************************************************************************)
(* The playground of the web console: one conversation, the requests that  *)
(* answer it, and its copy in localStorage.                                *)
(*   web/src/features/playground/hooks/use-chat-handler.ts                 *)
(*   web/src/features/playground/hooks/use-stream-request.ts               *)
(*   web/src/features/playground/hooks/use-playground-conversation.ts      *)
(*   web/src/features/playground/hooks/use-playground-state.ts             *)
(*   web/src/features/playground/lib/ (fetch-sse, message, storage)        *)
(*                                                                         *)
(* One action is one callback of the event loop: a click, a continuation   *)
(* after an await, an event of the stream, a timer.  React has applied the *)
(* state updates of a callback before the next one runs.  A request that   *)
(* was replaced, stopped or left behind is aborted, but a read that had    *)
(* already finished still delivers its event: nothing but the generation   *)
(* numbers keeps it off the screen.                                        *)
(***************************************************************************)
EXTENDS Integers, Sequences, SequencesExt

CONSTANTS
  MaxGen,       \* bound: generations (sends, stops and departures)
  MaxChunks,    \* bound: chunks in an answer
  MaxStored,    \* MAX_STORED_MESSAGES
  MaxChanges    \* bound: edits and deletions of messages

ASSUME PlaygroundConstants ==
  /\ MaxGen \in Nat \ {0} /\ MaxChunks \in Nat \ {0}
  /\ MaxStored \in Nat \ {0} /\ MaxChanges \in Nat

Gen == 1..MaxGen

VARIABLES
  messages,     \* the conversation, and latestMessagesRef
  editing,      \* editingMessageKey, 0 for null
  chatGen,      \* requestGenerationRef of useChatHandler
  pending,      \* pendingStreamChunksRef
  flushTimer,   \* the generation streamFlushTimerRef was armed for, 0 for null
  requesting,   \* isRequesting
  streaming,    \* isStreaming
  streamGen,    \* generation of the stream request controller
  source,       \* source of the controller: the request it serves, 0 for null
  req,          \* the requests, by their chat generation
  answer,       \* what the provider has sent to the current one, and how
  mounted,      \* the playground page is open
  stored,       \* the conversation in localStorage
  saveTimer,    \* messagesSaveTimerRef is armed
  changes       \* history: editors opened and messages deleted

chatVars == <<chatGen, pending, flushTimer, requesting>>
streamVars == <<streaming, streamGen, source>>
storageVars == <<mounted, stored, saveTimer>>
reqVars == <<req, answer>>
vars == <<messages, editing, chatVars, streamVars, reqVars, storageVars, changes>>

-----------------------------------------------------------------------------
(* Texts are sequences of tokens.  Token k of the answer to request g is   *)
(* <<g, k>>; what the user types is one token.  A chunk is the next token  *)
(* (a provider that sends deltas) or everything up to it (one that sends   *)
(* snapshots).                                                             *)

Typed == <<0, 0>>
ErrorText == <<0, 1>>
Answer(g, k) == [i \in 1..k |-> <<g, i>>]
Styles == {"delta", "snapshot"}
Chunk(g, k, style) == IF style = "delta" THEN << <<g, k>> >> ELSE Answer(g, k)

Pending == {"loading", "streaming"}
Statuses == Pending \cup {"complete", "error"}

\* key is unique; of is the generation that answers it, 0 for a user message.
\* History: sent is the length of an answer that ended by itself, own is true
\* until somebody edits it.
UserMessage(k) ==
  [key |-> k, of |-> 0, status |-> "complete", text |-> <<Typed>>,
   sent |-> 0, own |-> TRUE]
LoadingMessage(k, g) ==
  [key |-> k, of |-> g, status |-> "loading", text |-> <<>>,
   sent |-> 0, own |-> TRUE]

HasContent(m) == m.text # <<>>
IsUser(m) == m.of = 0

\* pendingStreamChunksRef: a chunk that repeats what is pending replaces it
Merged(current, next) ==
  IF current = <<>> \/ ~IsPrefix(current, next) THEN current \o next ELSE next

\* what of a chunk goes behind a text: the text a snapshot repeats is cut off
Appendable(current, chunk) ==
  IF current = <<>> \/ ~IsPrefix(current, chunk) THEN chunk
  ELSE SubSeq(chunk, Len(current) + 1, Len(chunk))

ApplyStreamingChunk(m, chunk) ==
  IF m.status = "error" THEN m
  ELSE [m EXCEPT !.text = @ \o Appendable(@, chunk), !.status = "streaming"]

CompleteAssistantMessage(m) == [m EXCEPT !.status = "complete"]
WithError(m) == [m EXCEPT !.text = <<ErrorText>>, !.status = "error"]

\* m, made of the last message, takes its place if that is an answer
UpdateLastAssistantMessage(msgs, m) ==
  IF msgs = <<>> \/ IsUser(Last(msgs)) THEN msgs ELSE ReplaceAt(msgs, Len(msgs), m)

-----------------------------------------------------------------------------
(* localStorage                                                            *)

\* saveMessages keeps the newest
Trimmed(msgs) ==
  IF Len(msgs) <= MaxStored THEN msgs
  ELSE SubSeq(msgs, Len(msgs) - MaxStored + 1, Len(msgs))

\* normalizeStoredMessageForLoad: a pending answer that has a text is complete
Normalized(m) ==
  IF m.status \in Pending /\ HasContent(m) THEN CompleteAssistantMessage(m) ELSE m

\* sanitizeMessagesOnLoad: the last answer that is still pending is an error
Sanitized(msgs) ==
  LET open == {i \in DOMAIN msgs : ~IsUser(msgs[i]) /\ msgs[i].status \in Pending}
      last == CHOOSE i \in open : \A j \in open : j <= i
  IN  IF open = {} THEN msgs ELSE [msgs EXCEPT ![last] = WithError(@)]

\* mutant: loading repairs nothing
LoadAsStored(msgs) == Trimmed(msgs)

LoadMessages(msgs) == Sanitized(Trimmed([i \in DOMAIN msgs |-> Normalized(msgs[i])]))

-----------------------------------------------------------------------------
(* What the callbacks share                                                *)

Generating == requesting \/ streaming

\* two keys nothing on the page has
Keys == {messages[i].key : i \in DOMAIN messages} \cup {editing}
FreeKey(taken) ==
  CHOOSE k \in 1..(Len(messages) + 3) : k \notin taken /\ 1..(k - 1) \subseteq taken
NextKey == FreeKey(Keys)
\* mutant: keys made from the same clock reading
SameKey == NextKey
AnswerKey == FreeKey(Keys \cup {NextKey})

\* updateMessages: the new conversation, to be saved 500 ms after the last one
UpdateMessages(msgs) == messages' = msgs /\ saveTimer' = TRUE

\* mutant: the batch of the last request is kept
DiscardTimer(g) == pending' = [pending EXCEPT !.gen = g] /\ flushTimer' = 0

\* discardPendingStreamUpdates
Discard(g) == pending' = [gen |-> g, text |-> <<>>] /\ flushTimer' = 0

\* flushStreamUpdates, of the current generation: what it makes of messages
Flushed(g) ==
  IF pending.gen # g \/ pending.text = <<>> THEN messages
  ELSE UpdateLastAssistantMessage(messages, ApplyStreamingChunk(Last(messages), pending.text))

ClearPending == pending' = [pending EXCEPT !.text = <<>>] /\ flushTimer' = 0

\* no request, or one nothing more is heard of
Idle == [kind |-> "none", stream |-> 0, phase |-> "none"]
Unanswered == [style |-> "delta", got |-> 0]
Over(g) == req' = [req EXCEPT ![g] = Idle]

\* sendStreamingChat up to the await of send, which asks for fresh headers
SendStreaming(style) ==
  LET g == chatGen + 1 IN
  /\ chatGen' = g /\ Discard(g) /\ requesting' = TRUE
  /\ streamGen' = streamGen + 1 /\ source' = 0 /\ streaming' = FALSE
  /\ answer' = [style |-> style, got |-> 0]
  /\ req' = [req EXCEPT ![g] =
               [kind |-> "stream", stream |-> streamGen + 1, phase |-> "headers"]]

\* sendNonStreamingChat up to the await of sendChatCompletion
SendPlain ==
  LET g == chatGen + 1 IN
  /\ chatGen' = g /\ Discard(g) /\ requesting' = TRUE
  /\ streamGen' = streamGen + 1 /\ source' = 0 /\ streaming' = FALSE
  /\ answer' = Unanswered
  /\ req' = [req EXCEPT ![g] = [kind |-> "plain", stream |-> 0, phase |-> "open"]]

\* sendChat, with the last message of msgs as the placeholder of the answer
SendChat(msgs) ==
  /\ chatGen < MaxGen
  /\ UpdateMessages(Append(msgs, LoadingMessage(AnswerKey, chatGen + 1)))
  /\ (\E style \in Styles : SendStreaming(style)) \/ SendPlain
  /\ UNCHANGED <<mounted, stored>>

-----------------------------------------------------------------------------
(* The user.  The buttons of a message and the input are disabled while an *)
(* answer is generated; an editor that is already open is not.             *)

HandleSendMessage ==
  /\ mounted /\ ~Generating
  /\ SendChat(Append(messages, UserMessage(NextKey)))
  /\ UNCHANGED <<editing, changes>>

\* createRegeneratedMessages: the answer and all that follows are replaced
HandleRegenerateMessage(i) ==
  /\ mounted /\ ~Generating
  /\ HasContent(messages[i]) /\ messages[i].status \notin Pending
  /\ SendChat(SubSeq(messages, 1, IF IsUser(messages[i]) THEN i ELSE i - 1))
  /\ UNCHANGED <<editing, changes>>

HandleEditMessage(i) ==
  /\ mounted /\ ~Generating /\ changes < MaxChanges
  /\ HasContent(messages[i]) /\ editing # messages[i].key
  /\ editing' = messages[i].key /\ changes' = changes + 1
  /\ UNCHANGED <<messages, chatVars, streamVars, reqVars, storageVars>>

CancelEdit ==
  /\ mounted /\ editing # 0
  /\ editing' = 0
  /\ UNCHANGED <<messages, chatVars, streamVars, reqVars, storageVars, changes>>

\* applyEdit: a message of the user may be submitted again with the new text
EditedMessages(i) ==
  [messages EXCEPT ![i] = [@ EXCEPT !.text = <<Typed>>, !.own = FALSE]]

SaveEdit(i) ==
  /\ mounted /\ editing # 0 /\ messages[i].key = editing
  /\ editing' = 0
  /\ UpdateMessages(EditedMessages(i))
  /\ UNCHANGED <<chatVars, streamVars, reqVars, mounted, stored, changes>>

SubmitEdit(i) ==
  /\ mounted /\ editing # 0 /\ messages[i].key = editing
  /\ IsUser(messages[i])
  /\ editing' = 0
  /\ SendChat(SubSeq(EditedMessages(i), 1, i))
  /\ UNCHANGED changes

\* mutant: deletes without updateMessages
DeleteUnsaved(i) ==
  /\ mounted /\ ~Generating /\ changes < MaxChanges
  /\ changes' = changes + 1
  /\ messages' = RemoveAt(messages, i)
  /\ UNCHANGED <<editing, chatVars, streamVars, reqVars, mounted, stored, saveTimer>>

HandleDeleteMessage(i) ==
  /\ mounted /\ ~Generating /\ changes < MaxChanges
  /\ changes' = changes + 1
  /\ UpdateMessages(RemoveAt(messages, i))
  /\ UNCHANGED <<editing, chatVars, streamVars, reqVars, mounted, stored>>

HandleClearMessages ==
  /\ mounted /\ ~Generating /\ messages # <<>>
  /\ editing' = 0
  /\ UpdateMessages(<<>>)
  /\ UNCHANGED <<chatVars, streamVars, reqVars, mounted, stored, changes>>

\* stopGeneration: what is pending is shown, then the request is disowned.  When
\* React runs the updater of the flush only with the next render, the request
\* is disowned by then and what was pending is lost.
StopGeneration ==
  /\ mounted /\ Generating /\ chatGen < MaxGen
  /\ chatGen' = chatGen + 1 /\ Discard(chatGen + 1) /\ requesting' = FALSE
  /\ streamGen' = streamGen + 1 /\ source' = 0 /\ streaming' = FALSE
  /\ LET finish(m) == IF m.status \in Pending THEN CompleteAssistantMessage(m) ELSE m
     IN  \E shown \in {messages, Flushed(chatGen)} :
           UpdateMessages(UpdateLastAssistantMessage(shown, finish(Last(shown))))
  /\ answer' = Unanswered
  /\ UNCHANGED <<editing, req, mounted, stored, changes>>

-----------------------------------------------------------------------------
(* The stream request controller                                           *)

\* a continuation belongs to the request the controller serves now
IsCurrent(g) == req[g].stream = streamGen /\ source = g

\* mutant: the error callback does not ask which request it serves
StreamErrorAny(g) ==
  /\ UpdateMessages(UpdateLastAssistantMessage(Flushed(g), WithError(Last(Flushed(g)))))
  /\ ClearPending /\ requesting' = FALSE
  /\ UNCHANGED chatGen

\* handleStreamError, for a callback of request g
StreamError(g) ==
  IF g # chatGen
  THEN UNCHANGED <<messages, saveTimer, chatVars>>
  ELSE /\ UpdateMessages(UpdateLastAssistantMessage(Flushed(g), WithError(Last(Flushed(g)))))
       /\ ClearPending /\ requesting' = FALSE
       /\ UNCHANGED chatGen

\* mutant: completes without the flush
StreamCompleteEarly(g) ==
  IF g # chatGen
  THEN UNCHANGED <<messages, saveTimer, chatVars>>
  ELSE /\ LET finish(m) == [CompleteAssistantMessage(m) EXCEPT !.sent = answer.got]
          IN  UpdateMessages(UpdateLastAssistantMessage(messages, finish(Last(messages))))
       /\ ClearPending /\ requesting' = FALSE
       /\ UNCHANGED chatGen

\* handleStreamComplete
StreamComplete(g) ==
  IF g # chatGen
  THEN UNCHANGED <<messages, saveTimer, chatVars>>
  ELSE /\ LET finish(m) == IF m.status \in Pending
                           THEN [CompleteAssistantMessage(m) EXCEPT !.sent = answer.got]
                           ELSE m
          IN  UpdateMessages(UpdateLastAssistantMessage(Flushed(g), finish(Last(Flushed(g)))))
       /\ ClearPending /\ requesting' = FALSE
       /\ UNCHANGED chatGen

\* getHeaders has answered: the source is created and starts
HeadersArrive(g) ==
  /\ req[g].phase = "headers"
  /\ IF req[g].stream # streamGen
     THEN /\ Over(g)
          /\ UNCHANGED <<source, streaming>>
     ELSE /\ req' = [req EXCEPT ![g].phase = "open"]
          /\ source' = g /\ streaming' = TRUE
  /\ UNCHANGED <<messages, editing, chatVars, streamGen, storageVars, answer, changes>>

\* getHeaders has thrown: the session is over, or could not be refreshed
HeadersFail(g) ==
  /\ req[g].phase = "headers"
  /\ Over(g)
  /\ IF req[g].stream # streamGen
     THEN UNCHANGED <<messages, saveTimer, chatVars>>
     ELSE StreamError(g)
  /\ UNCHANGED <<editing, streamVars, mounted, stored, answer, changes>>

\* a data line with a piece of the answer, the next one if anybody listens
ChunkArrives(g, k, style) ==
  /\ req[g].kind = "stream" /\ req[g].phase = "open"
  /\ g = chatGen => k = answer.got + 1 /\ style = answer.style
  /\ answer' = IF g = chatGen THEN [answer EXCEPT !.got = k] ELSE answer
  /\ IF ~IsCurrent(g) \/ g # chatGen \/ pending.gen # g
     THEN UNCHANGED <<pending, flushTimer>>
     ELSE /\ pending' = [pending EXCEPT !.text = Merged(@, Chunk(g, k, style))]
          /\ flushTimer' = IF flushTimer = 0 THEN g ELSE flushTimer
  /\ UNCHANGED <<messages, editing, chatGen, requesting, streamVars, req, storageVars, changes>>

\* the line [DONE]
DoneArrives(g) ==
  /\ req[g].kind = "stream" /\ req[g].phase = "open"
  /\ Over(g)
  /\ IF IsCurrent(g)
     THEN source' = 0 /\ streaming' = FALSE /\ StreamComplete(g)
     ELSE UNCHANGED <<messages, saveTimer, chatVars, source, streaming>>
  /\ UNCHANGED <<editing, streamGen, mounted, stored, answer, changes>>

\* a line that does not parse, or an error event while the stream is open:
\* handleError.  Lines that were read with it are still delivered, in vain.
ErrorArrives(g) ==
  /\ req[g].kind = "stream" /\ req[g].phase = "open" /\ IsCurrent(g)
  /\ StreamError(g)
  /\ source' = 0 /\ streaming' = FALSE
  /\ UNCHANGED <<editing, streamGen, reqVars, mounted, stored, changes>>

\* FetchSSE closes before it reports: an answer that is not ok, a connection
\* that breaks, a body that ends without [DONE].  The error listener ignores a
\* source that is closed, and the source has no status for the other listener:
\* nobody learns of it.
SourceCloses(g) ==
  /\ req[g].kind = "stream" /\ req[g].phase = "open"
  /\ req' = [req EXCEPT ![g].phase = "closed"]
  /\ UNCHANGED <<messages, editing, chatVars, streamVars, storageVars, answer, changes>>

-----------------------------------------------------------------------------
(* Requests without streaming                                              *)

\* the answer is there
ResponseArrives(g) ==
  /\ req[g].kind = "plain" /\ req[g].phase = "open"
  /\ Over(g)
  /\ IF g # chatGen
     THEN UNCHANGED <<messages, saveTimer, requesting>>
     ELSE /\ LET filled(m) == [CompleteAssistantMessage(m) EXCEPT
                                 !.text = Answer(g, MaxChunks), !.sent = MaxChunks]
             IN  UpdateMessages(UpdateLastAssistantMessage(messages, filled(Last(messages))))
          /\ requesting' = FALSE
  /\ UNCHANGED <<editing, chatGen, pending, flushTimer, streamVars, mounted, stored, answer, changes>>

\* no choices in the answer, or the request has failed
ResponseFails(g) ==
  /\ req[g].kind = "plain" /\ req[g].phase = "open"
  /\ Over(g)
  /\ StreamError(g)
  /\ UNCHANGED <<editing, streamVars, mounted, stored, answer, changes>>

-----------------------------------------------------------------------------
(* Timers, and the life of the page                                        *)

FlushTimer ==
  /\ flushTimer # 0
  /\ IF flushTimer = chatGen
     THEN /\ ClearPending
          /\ IF pending.gen # chatGen \/ pending.text = <<>>
             THEN UNCHANGED <<messages, saveTimer>>
             ELSE UpdateMessages(Flushed(chatGen))
     ELSE flushTimer' = 0 /\ UNCHANGED <<pending, messages, saveTimer>>
  /\ UNCHANGED <<editing, chatGen, requesting, streamVars, reqVars, mounted, stored, changes>>

SaveTimer ==
  /\ saveTimer
  /\ saveTimer' = FALSE /\ stored' = Trimmed(messages)
  /\ UNCHANGED <<messages, editing, chatVars, streamVars, reqVars, mounted, changes>>

\* the state of a page that is not there; its refs are never current again
Gone ==
  /\ mounted' = FALSE /\ saveTimer' = FALSE
  /\ messages' = <<>> /\ editing' = 0 /\ answer' = Unanswered
  /\ chatGen' = chatGen + 1 /\ Discard(chatGen + 1) /\ requesting' = FALSE
  /\ streamGen' = streamGen + 1 /\ source' = 0 /\ streaming' = FALSE
  /\ UNCHANGED changes

\* the user goes to another page: the effects clean up, an armed save is done
Leave ==
  /\ mounted /\ chatGen < MaxGen
  /\ Gone
  /\ stored' = IF saveTimer THEN Trimmed(messages) ELSE stored
  /\ UNCHANGED req

\* the tab is reloaded or crashes: no effect runs, and no callback
Reload ==
  /\ mounted /\ chatGen < MaxGen
  /\ Gone
  /\ req' = [g \in Gen |-> Idle]
  /\ UNCHANGED stored

\* the page opens; what loading had to repair is saved at once
Mount ==
  /\ ~mounted
  /\ mounted' = TRUE
  /\ messages' = LoadMessages(stored) /\ stored' = LoadMessages(stored)
  /\ UNCHANGED <<editing, chatVars, streamVars, reqVars, saveTimer, changes>>

Init ==
  /\ messages = <<>> /\ editing = 0 /\ changes = 0
  /\ chatGen = 0 /\ pending = [gen |-> 0, text |-> <<>>] /\ flushTimer = 0
  /\ requesting = FALSE /\ streaming = FALSE /\ streamGen = 0 /\ source = 0
  /\ req = [g \in Gen |-> Idle] /\ answer = Unanswered
  /\ mounted = TRUE /\ stored = <<>> /\ saveTimer = FALSE

Event(g) ==
  \/ HeadersArrive(g) \/ HeadersFail(g)
  \/ DoneArrives(g) \/ ErrorArrives(g) \/ SourceCloses(g)
  \/ ResponseArrives(g) \/ ResponseFails(g)
  \/ \E k \in 1..MaxChunks, style \in Styles : ChunkArrives(g, k, style)

User ==
  \/ HandleSendMessage \/ HandleClearMessages \/ StopGeneration \/ CancelEdit
  \/ \E i \in DOMAIN messages :
       \/ HandleRegenerateMessage(i) \/ HandleEditMessage(i)
       \/ SaveEdit(i) \/ SubmitEdit(i) \/ HandleDeleteMessage(i)
  \/ Leave \/ Reload \/ Mount

Next == User \/ FlushTimer \/ SaveTimer \/ \E g \in Gen : Event(g)

Spec == Init /\ [][Next]_vars

\* Timers fire, awaited promises settle, and a stream ends: by [DONE], by an
\* error, or because the connection closes.
Fairness ==
  /\ WF_vars(FlushTimer) /\ WF_vars(SaveTimer)
  /\ \A g \in Gen : WF_vars(Event(g))

FairSpec == Spec /\ Fairness

-----------------------------------------------------------------------------
(* Properties                                                              *)

Tokens == ({0} \cup Gen) \X (0..MaxChunks)
Message == [key : Nat, of : {0} \cup Gen, status : Statuses, text : Seq(Tokens),
            sent : 0..MaxChunks, own : BOOLEAN]
Request == [kind : {"none", "stream", "plain"}, stream : Nat,
            phase : {"none", "headers", "open", "closed"}]

\* The types of the state; no two messages have the same key.
TypeOK ==
  /\ messages \in Seq(Message) /\ stored \in Seq(Message)
  /\ \A i, j \in DOMAIN messages : messages[i].key = messages[j].key => i = j
  /\ editing \in Nat /\ changes \in 0..MaxChanges
  /\ chatGen \in 0..MaxGen /\ flushTimer \in 0..MaxGen
  /\ pending \in [gen : 0..MaxGen, text : Seq(Tokens)]
  /\ requesting \in BOOLEAN /\ streaming \in BOOLEAN
  /\ streamGen \in Nat /\ source \in 0..MaxGen
  /\ req \in [Gen -> Request] /\ answer \in [style : Styles, got : 0..MaxChunks]
  /\ mounted \in BOOLEAN /\ saveTimer \in BOOLEAN

\* What stands in an answer is a beginning of the answer of its own request:
\* no chunk of another request, none twice, none left out, however requests
\* replace each other and chunks are batched (flushStreamUpdates, the
\* generation checks, Appendable).  Tokens of an answer are distinct here: a
\* delta that begins with all that is pending is taken for a snapshot.
AnswerIsFaithful ==
  \A i \in DOMAIN messages :
    LET m == messages[i] IN
    ~IsUser(m) /\ m.own /\ m.status # "error" => IsPrefix(m.text, Answer(m.of, MaxChunks))

\* An answer that ended by itself shows every chunk that was sent, those that
\* were waiting for the flush timer included (handleStreamComplete).
DoneIsWhole ==
  \A i \in DOMAIN messages :
    LET m == messages[i] IN
    m.sent > 0 /\ m.own => m.text = Answer(m.of, m.sent)

\* Requests an answer may still come from, and those that nobody knows to be
\* over (SourceCloses).
Awaited == {g \in Gen : req[g].phase \in {"headers", "open"}}
Unreported == {g \in Gen : req[g].phase = "closed"}

\* A message that is shown as being answered is the last one, the user can stop
\* it, and its own request is under way: no spinner survives an answer, a failure,
\* a stop, or the loss of the page (handleStreamComplete, handleStreamError,
\* stopGeneration, sanitizeMessagesOnLoad).  The one end it survives is a
\* connection that closes unreported.
PendingIsLive ==
  \A i \in DOMAIN messages :
    messages[i].status \in Pending =>
      /\ i = Len(messages) /\ Generating
      /\ messages[i].of = chatGen /\ chatGen \in Awaited \cup Unreported

\* When no save is due, localStorage holds what is on the screen, trimmed to
\* its newest messages: no handler changes the conversation and forgets to save
\* it, and what loading repaired is stored repaired (updateMessages, loadMessages).
SavedIsShown == mounted /\ ~saveTimer => stored = Trimmed(messages)

\* An answer that has ended stays as it is: a late event of its request or of
\* another one, or a timer, changes neither its text nor its status.  Only
\* saving an edit of it does (the checks of the generation in every callback).
Same(m, n) == m.key = n.key /\ m.of = n.of
FinalStands ==
  [][\A i \in DOMAIN messages : \A j \in DOMAIN messages' :
       Same(messages[i], messages'[j]) /\ messages[i].status \notin Pending
       => \/ messages'[j] = messages[i]
          \/ editing = messages[i].key /\ editing' = 0]_vars

\* A request that is under way ends: with an answer, with an error ("Handle
\* stream error"), or because the user ends it.
RequestsEnd == requesting ~> ~requesting
=============================================================================
