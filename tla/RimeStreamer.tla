---------------------------- MODULE RimeStreamer ----------------------------
(***************************************************************************)
(* The streaming text-to-speech client of agent/tts_rime.py, the socket to *)
(* Rime and, as its environment, Rime itself.                              *)
(*                                                                         *)
(* speak() and cancel() only set fields and create tasks, which the event  *)
(* loop starts in the order they were created.  _synthesize and warm_up    *)
(* take their turns on an asyncio.Lock, first come first served: the head  *)
(* of `queue` holds it.  An action is what runs between two suspensions.   *)
(* Time is abstracted: a watchdog limit may be reached at any poll.        *)
(***************************************************************************)
EXTENDS Naturals, Sequences

CONSTANTS
  Utterances,  \* bound: how often speak() is called
  MaxCancels,  \* bound: how often cancel() is called
  MaxChunks,   \* bound: chunks Rime makes of one text
  None

ASSUME BoundsAssumption ==
  /\ Utterances \in Nat \ {0}
  /\ MaxCancels \in Nat
  /\ MaxChunks \in Nat
ASSUME NoneAssumption == None \notin 0..Utterances

VARIABLES
  current,    \* _current: token of the latest speak(), 0 before the first
  sent,       \* _sent: token whose text was sent last
  fired,      \* _fired: token whose done has been fired
  active,     \* active
  dropped,    \* _dropped
  ws,         \* _ws: none, open, or a socket that is closed
  reading,    \* the reader task of the socket is running
  ready,      \* tasks created and not yet started
  queue,      \* tasks at the lock, the holder first; token 0 is warm_up
  phase,      \* what the head of the queue awaits: the lock, the handshake, the next poll
  closing,    \* close(): not called, closing the socket, finished
  up,         \* what Rime has been sent and has not finished with
  down,       \* what Rime has sent and the reader has not read
  cancels,    \* number of cancel() calls
  dones,      \* history: calls of on_done for each token
  cancelled,  \* history: tokens that were current when cancel() was called
  quiet,      \* history: cancel() has been called since the last speak()
  played      \* history: tokens of the chunks given to on_audio

client == <<current, sent, fired, active, dropped>>
tasks == <<ready, queue, phase>>
socket == <<ws, reading, up, down>>
history == <<cancels, cancelled, quiet>>
vars == <<client, tasks, socket, closing, history, dones, played>>

Tokens == 0..Utterances
Task == [do : {"clear", "fire", "synthesize"}, token : Tokens]
Up == [op : {"text"}, token : Tokens, left : 0..MaxChunks] \cup {[op |-> "clear"]}
Down == [type : {"chunk", "done"}, token : Tokens] \cup {[type |-> "close"]}

TypeOK ==
  /\ current \in Tokens
  /\ sent \in Tokens \cup {None}
  /\ fired \in Tokens \cup {None}
  /\ active \in BOOLEAN /\ dropped \in BOOLEAN /\ reading \in BOOLEAN /\ quiet \in BOOLEAN
  /\ ws \in {"none", "open", "closed"}
  /\ ready \in Seq(Task)
  /\ queue \in Seq(Tokens)
  /\ phase \in {"lock", "handshake", "poll"} /\ (phase # "lock" => queue # <<>>)
  /\ closing \in {"no", "begun", "over"}
  /\ up \in Seq(Up)
  /\ down \in Seq(Down)
  /\ cancels \in 0..MaxCancels
  /\ dones \in [Tokens -> Nat]
  /\ cancelled \in SUBSET Tokens
  /\ played \in Seq(Tokens)

\* The session creates the streamer and at once its warm_up task.
Init ==
  /\ current = 0 /\ sent = None /\ fired = None
  /\ active = FALSE /\ dropped = FALSE
  /\ ws = "none" /\ reading = FALSE
  /\ ready = <<>> /\ queue = <<0>> /\ phase = "lock"
  /\ closing = "no"
  /\ up = <<>> /\ down = <<>>
  /\ cancels = 0
  /\ dones = [t \in Tokens |-> 0]
  /\ cancelled = {} /\ quiet = FALSE /\ played = <<>>

-----------------------------------------------------------------------------
(* The facade.                                                             *)

create_task(created, what, t) == Append(created, [do |-> what, token |-> t])

speak ==
  /\ current < Utterances
  /\ current' = current + 1
  /\ dropped' = FALSE
  /\ active' = TRUE
  /\ ready' = create_task(ready, "synthesize", current + 1)
  /\ quiet' = FALSE
  /\ UNCHANGED <<sent, fired, queue, phase, socket, closing, cancels, cancelled, dones, played>>

cancel ==
  /\ cancels < MaxCancels
  /\ dropped' = TRUE
  /\ active' = FALSE
  /\ ready' = create_task(create_task(ready, "clear", current), "fire", current)
  /\ cancels' = cancels + 1
  /\ cancelled' = cancelled \cup {current}
  /\ quiet' = TRUE
  /\ UNCHANGED <<current, sent, fired, queue, phase, socket, closing, dones, played>>

\* Mutant: fires however often it is asked to.
mayFireAgain(t) == t = current

\* Once for each token, and not for one that a newer speak() has superseded.
mayFire(t) == t = current /\ t # fired

\* Mutant: the streamer still counts as speaking.
fireAndStayActive(t) ==
  IF mayFire(t)
  THEN fired' = t /\ dones' = [dones EXCEPT ![t] = @ + 1] /\ UNCHANGED active
  ELSE UNCHANGED <<fired, active, dones>>

_fire_done(t) ==
  IF mayFire(t)
  THEN /\ fired' = t
       /\ active' = FALSE
       /\ dones' = [dones EXCEPT ![t] = @ + 1]
  ELSE UNCHANGED <<fired, active, dones>>

-----------------------------------------------------------------------------
(* Tasks that have been created.                                           *)

\* Created tasks start in the next iteration of the loop, before Rime, a round trip
\* away, can answer what follows.  (A handshake that has ended may be ahead of them.)
tasksStarted == ready = <<>>

\* Rime can be sent to: the socket is open as far as the client knows.
send(msg) == up' = IF ws = "open" THEN Append(up, msg) ELSE up

StartClear ==
  /\ ready # <<>> /\ Head(ready).do = "clear"
  /\ ready' = Tail(ready)
  /\ send([op |-> "clear"])
  /\ UNCHANGED <<client, queue, phase, ws, reading, down, closing, history, dones, played>>

StartFire ==
  /\ ready # <<>> /\ Head(ready).do = "fire"
  /\ ready' = Tail(ready)
  /\ _fire_done(Head(ready).token)
  /\ UNCHANGED <<current, sent, dropped, queue, phase, socket, closing, history, played>>

\* Mutant: the newest utterance goes ahead of those waiting for the lock.
StartSynthesizeAhead ==
  /\ ready # <<>> /\ Head(ready).do = "synthesize"
  /\ ready' = Tail(ready)
  /\ queue' = IF queue = <<>>
              THEN <<Head(ready).token>>
              ELSE <<Head(queue), Head(ready).token>> \o Tail(queue)
  /\ UNCHANGED <<client, phase, socket, closing, history, dones, played>>

\* The task asks for the lock.
StartSynthesize ==
  /\ ready # <<>> /\ Head(ready).do = "synthesize"
  /\ ready' = Tail(ready)
  /\ queue' = Append(queue, Head(ready).token)
  /\ UNCHANGED <<client, phase, socket, closing, history, dones, played>>

-----------------------------------------------------------------------------
(* The holder of the lock.                                                 *)

\* Mutant: the next task takes the lock in the middle of the old one's wait.
releaseMidWait == queue' = Tail(queue) /\ UNCHANGED phase

release == queue' = Tail(queue) /\ phase' = "lock"

\* The utterance is over for its task: done is fired, the lock released.
finish(t) ==
  /\ _fire_done(t)
  /\ release
  /\ UNCHANGED <<current, sent, dropped, ready, socket, closing, history, played>>

\* There is no socket yet: open one.  warm_up, the first at the lock, never finds
\* one, and an utterance does not replace one that is closed.
needsSocket == ws = "none"

StartConnect ==
  /\ queue # <<>> /\ phase = "lock"
  /\ needsSocket
  /\ phase' = "handshake"
  /\ UNCHANGED <<client, ready, queue, socket, closing, history, dones, played>>

\* Mutant: a failed handshake ends the task without a completion.
ConnectFailsSilently ==
  /\ phase = "handshake"
  /\ release
  /\ UNCHANGED <<client, ready, socket, closing, history, dones, played>>

ConnectFails ==
  /\ phase = "handshake"
  /\ IF Head(queue) = 0
     THEN /\ release
          /\ UNCHANGED <<client, ready, socket, closing, history, dones, played>>
     ELSE finish(Head(queue))

text(t) == [op |-> "text", token |-> t, left |-> MaxChunks]

\* The text is on the wire: the watchdog loop begins.
sentOff(t) ==
  /\ dropped' = FALSE
  /\ sent' = t
  /\ phase' = "poll"
  /\ UNCHANGED <<current, fired, active, ready, queue, closing, history, dones, played>>

\* A new socket, with a reader of its own.
opened == ws' = "open" /\ reading' = TRUE /\ down' = <<>>

\* The handshake succeeds.  warm_up is done; an utterance goes on at once, unless
\* it was cancelled meanwhile.
WarmUpConnects ==
  /\ phase = "handshake" /\ Head(queue) = 0
  /\ opened /\ up' = <<>>
  /\ release
  /\ UNCHANGED <<client, ready, closing, history, dones, played>>

ConnectsToSend ==
  /\ phase = "handshake" /\ Head(queue) # 0 /\ active
  /\ opened /\ up' = <<text(Head(queue))>>
  /\ sentOff(Head(queue))

ConnectsTooLate ==
  /\ phase = "handshake" /\ Head(queue) # 0 /\ ~active
  /\ opened /\ up' = <<>>
  /\ _fire_done(Head(queue))
  /\ release
  /\ UNCHANGED <<current, sent, dropped, ready, closing, history, played>>

\* "socket dead, or cancelled while we were connecting/sending".
givesUp == ws # "open" \/ ~active

\* The utterance at the head of the queue has the lock and a socket.
atSocket ==
  /\ queue # <<>> /\ phase = "lock"
  /\ Head(queue) # 0 /\ ~needsSocket

Abandon == atSocket /\ givesUp /\ finish(Head(queue))

Send ==
  /\ atSocket /\ ~givesUp
  /\ send(text(Head(queue)))
  /\ sentOff(Head(queue))
  /\ UNCHANGED <<ws, reading, down>>

\* Rime's end of the socket is gone: send_str raises.
peerGone == \E i \in 1..Len(down) : down[i].type = "close"

SendFails ==
  /\ atSocket /\ ~givesUp /\ peerGone
  /\ dropped' = FALSE
  /\ _fire_done(Head(queue))
  /\ release
  /\ UNCHANGED <<current, sent, ready, socket, closing, history, played>>

\* Mutant: the loop has no limits.
PollWithoutWatchdog ==
  /\ phase = "poll"
  /\ ~active \/ Head(queue) # current
  /\ finish(Head(queue))

\* The watchdog loop ends: the utterance has ended or been superseded, or one of
\* the watchdog's limits (8 s, 15 s, 60 s) has passed.
PollEnds ==
  /\ phase = "poll"
  /\ finish(Head(queue))

-----------------------------------------------------------------------------
(* The reader.                                                             *)

ReadChunk ==
  /\ reading /\ down # <<>> /\ Head(down).type = "chunk"
  /\ down' = Tail(down)
  /\ played' = IF dropped THEN played ELSE Append(played, Head(down).token)
  /\ UNCHANGED <<client, tasks, ws, reading, up, closing, history, dones>>

\* "fire for the utterance whose text we actually sent".
ReadDone ==
  /\ reading /\ down # <<>> /\ Head(down).type = "done"
  /\ down' = Tail(down)
  /\ IF sent # None THEN _fire_done(sent) ELSE UNCHANGED <<fired, active, dones>>
  /\ UNCHANGED <<current, sent, dropped, tasks, ws, reading, up, closing, history, played>>

\* The socket is closed, by Rime once all it sent is read or by close(): the
\* reader's last act.
ReaderEnds ==
  /\ reading
  /\ ws = "closed" \/ (down # <<>> /\ Head(down).type = "close")
  /\ ws' = "closed" /\ reading' = FALSE /\ up' = <<>> /\ down' = <<>>
  /\ active' = FALSE
  /\ IF sent # None /\ mayFire(sent)
     THEN fired' = sent /\ dones' = [dones EXCEPT ![sent] = @ + 1]
     ELSE UNCHANGED <<fired, dones>>
  /\ UNCHANGED <<current, sent, dropped, tasks, closing, history, played>>

-----------------------------------------------------------------------------
(* close(), when the browser's socket is gone.                             *)

\* A last clear and eos, and the socket is closed: its reader has to end first.
CloseBegins ==
  /\ closing = "no" /\ ws = "open"
  /\ closing' = "begun"
  /\ ws' = "closed"
  /\ UNCHANGED <<client, tasks, reading, up, down, history, dones, played>>

CloseEnds ==
  /\ closing = "begun" \/ (closing = "no" /\ ws # "open")
  /\ ~reading
  /\ closing' = "over"
  /\ ws' = "none"
  /\ active' = FALSE
  /\ UNCHANGED <<current, sent, fired, dropped, tasks, reading, up, down, history, dones, played>>

-----------------------------------------------------------------------------
(* Rime.                                                                   *)

Serving == ws = "open" /\ ~peerGone /\ tasksStarted

Clears == {i \in 1..Len(up) : up[i].op = "clear"}

RimeChunk ==
  /\ Serving /\ up # <<>> /\ Head(up).op = "text" /\ Head(up).left > 0
  /\ down' = Append(down, [type |-> "chunk", token |-> Head(up).token])
  /\ up' = [up EXCEPT ![1].left = @ - 1]
  /\ UNCHANGED <<client, tasks, ws, reading, closing, history, dones, played>>

RimeDone ==
  /\ Serving /\ up # <<>> /\ Head(up).op = "text"
  /\ down' = Append(down, [type |-> "done", token |-> Head(up).token])
  /\ up' = Tail(up)
  /\ UNCHANGED <<client, tasks, ws, reading, closing, history, dones, played>>

\* A clear discards the texts before it; what is already on the wire stays there.
RimeClears ==
  /\ Serving
  /\ \E i \in Clears :
       /\ \A j \in Clears : i <= j
       /\ up' = SubSeq(up, i + 1, Len(up))
  /\ UNCHANGED <<client, tasks, ws, reading, down, closing, history, dones, played>>

RimeCloses ==
  /\ Serving
  /\ down' = Append(down, [type |-> "close"])
  /\ UNCHANGED <<client, tasks, ws, reading, up, closing, history, dones, played>>

-----------------------------------------------------------------------------
StartTask == StartClear \/ StartFire \/ StartSynthesize

HolderStep ==
  \/ StartConnect \/ ConnectFails \/ WarmUpConnects \/ ConnectsToSend \/ ConnectsTooLate
  \/ Abandon \/ Send \/ SendFails \/ PollEnds

Rime == RimeChunk \/ RimeDone \/ RimeClears \/ RimeCloses

Next ==
  \/ speak \/ cancel \/ StartTask \/ HolderStep
  \/ ReadChunk \/ ReadDone \/ ReaderEnds
  \/ CloseBegins \/ CloseEnds
  \/ Rime

\* The event loop runs what is ready; a handshake and a poll come to an end.
\* Nothing is assumed of Rime, the user or the browser.
Fairness == WF_vars(StartTask) /\ WF_vars(HolderStep)

Spec == Init /\ [][Next]_vars /\ Fairness

-----------------------------------------------------------------------------
(* Properties.                                                             *)

\* "every exit path funnels through _fire_done": as long as an utterance is not
\* over, some task holds its token and will end it.
CompletionPending ==
  current > 0 /\ fired # current
    => \/ \E i \in 1..Len(queue) : queue[i] = current
       \/ \E i \in 1..Len(ready) : ready[i].token = current /\ ready[i].do # "clear"

\* The streamer counts as speaking only during an utterance that is not over and
\* has not been cancelled.
ActiveIsSpeaking == active => current > 0 /\ fired # current /\ ~quiet

\* The streamer implements the facade: completion fires exactly once, for the
\* latest utterance only, and nothing is heard from cancel() to the next speak(),
\* nor a text after a later one.
Facade == INSTANCE Speech WITH heard <- played

ImplementsSpeech == Facade!SpeechSafe

\* "serialize: previous utterance fully ends first": whatever is cancelled, dropped,
\* stalled or reconnected, the texts are heard in the order of their speak() calls.
HeardInOrder == \A i, j \in 1..Len(played) : i < j => played[i] <= played[j]

\* Every utterance ends or is superseded, though Rime may stall, the handshake fail
\* and the socket die: the caller's busy flag is not left set.
EveryUtteranceEnds ==
  \A t \in 1..Utterances : current = t ~> dones[t] = 1 \/ current # t

\* An utterance that has been cancelled is not sent to Rime.
CancelledIsNotSent == [][sent' # sent => sent' \notin cancelled]_vars

\* No audio of a cancelled utterance is forwarded.
CancelledIsNotHeard ==
  [][played' # played => played'[Len(played')] \notin cancelled]_vars
=============================================================================
