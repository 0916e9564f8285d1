---------------------------- MODULE CallLifetime ----------------------------
(***************************************************************************)
(* What one /ws/call connection (backend/main.py) opens and releases: the  *)
(* session's writer task, the socket to Deepgram with its reader           *)
(* (agent/stt_pipeline.py) and the sockets to Rime (agent/tts_rime.py),    *)
(* each in an HTTP session of its own.                                     *)
(*                                                                         *)
(* A socket to Rime is opened by the first task at the streamer's lock     *)
(* that finds none: warm_up, the greeting or the speech of a turn.  These  *)
(* tasks go on when the browser hangs up, while close() awaits one close   *)
(* after another.  What is said, and what ends an utterance, is left to    *)
(* RimeStreamer; after warm_up, the order at the lock is any here.         *)
(***************************************************************************)
CONSTANTS
  Turns,  \* the final transcripts of the call
  None

Tasks == Turns \cup {"warm_up", "greeting"}

ASSUME TurnsAssumption == Turns \cap {"warm_up", "greeting"} = {}
ASSUME NoneAssumption == None \notin Tasks

VARIABLES
  phase,    \* what ws_call awaits
  writer,   \* the writer task
  sttWs,    \* DeepgramStreamer: its socket,
  sttHttp,  \* its HTTP session,
  reading,  \* and whether its reader runs
  task,     \* the tasks that speak, and warm_up
  ws,       \* RimeStreamer._ws and _http: the task that opened them
  sock,     \* the socket each task has opened,
  http,     \* and its HTTP session
  late      \* history: tasks that opened theirs after close() had closed the streamer's

stt == <<sttWs, sttHttp, reading>>
tts == <<ws, sock, http, late>>
vars == <<phase, writer, stt, task, tts>>

Closing == {"closing_stt", "closing_stt_http", "closing_tts", "closing_tts_http"}
Phases == {"accepted", "refused", "opening", "serving", "closed"} \cup Closing
Resource == {"none", "open", "shut"}

TypeOK ==
  /\ phase \in Phases
  /\ writer \in {"none", "running", "cancelled"}
  /\ sttWs \in Resource /\ sttHttp \in Resource /\ reading \in BOOLEAN
  /\ task \in [Tasks -> {"none", "thinking", "waiting", "handshake", "talking", "done"}]
  /\ reading => sttWs = "open"
  /\ ws \in Tasks \cup {None}
  /\ sock \in [Tasks -> Resource] /\ http \in [Tasks -> Resource]
  /\ late \in SUBSET Tasks

Init ==
  /\ phase = "accepted" /\ writer = "none"
  /\ sttWs = "none" /\ sttHttp = "none" /\ reading = FALSE
  /\ task = [k \in Tasks |-> "none"]
  /\ ws = None
  /\ sock = [k \in Tasks |-> "none"] /\ http = [k \in Tasks |-> "none"]
  /\ late = {}

TaskTo(k, s) == task' = [task EXCEPT ![k] = s]

-----------------------------------------------------------------------------
(* The session begins.                                                     *)

\* The constructor, and start() up to the handshake with Deepgram.  warm_up, the first
\* task at the lock, finds it free and no socket: its handshake begins.
Begin ==
  /\ phase = "accepted"
  /\ phase' = "opening"
  /\ writer' = "running"
  /\ TaskTo("warm_up", "handshake")
  /\ http' = [http EXCEPT !["warm_up"] = "open"]
  /\ sttHttp' = "open"
  /\ UNCHANGED <<sttWs, reading, ws, sock, late>>

\* Redis cannot be reached: the constructor raises, outside of the handler's try,
\* in store.reset or, with the writer and warm_up under way, in create_session.
Refuse ==
  /\ phase = "accepted"
  /\ phase' = "refused"
  /\ \/ UNCHANGED <<writer, task, http>>
     \/ /\ writer' = "running"
        /\ TaskTo("warm_up", "handshake")
        /\ http' = [http EXCEPT !["warm_up"] = "open"]
  /\ UNCHANGED <<stt, ws, sock, late>>

\* Mutants: Deepgram's HTTP session is closed only with a socket; Deepgram's part is
\* not closed.
closeSttIfOpen(socket) == IF socket = "none" THEN "closing_tts" ELSE "closing_stt"
closeRimeOnly(socket) == "closing_tts"

\* stt.close awaits its socket's close, if there is one, and then its session's.
closeStt(socket) == IF socket = "none" THEN "closing_stt_http" ELSE "closing_stt"

\* Mutant: the reader is begun though there is no socket.
readsAnyway(socket) == TRUE

\* Only an open() that has not raised begins the reader.
readsFrom(socket) == socket = "open"

\* Deepgram answers, or open() raises, which is only logged.  The greeting is spoken, but
\* that Redis may not tell its version: the handler closes the session.
SttOpens ==
  /\ phase = "opening"
  /\ sttWs' \in {"open", "none"} /\ reading' = readsFrom(sttWs')
  /\ \/ phase' = "serving" /\ TaskTo("greeting", "waiting")
     \/ phase' = closeStt(sttWs') /\ UNCHANGED task
  /\ UNCHANGED <<writer, sttHttp, tts>>

\* A final transcript, of Deepgram or typed in the browser, starts a turn.
Transcript(t) ==
  /\ reading \/ phase = "serving"
  /\ task[t] = "none"
  /\ TaskTo(t, "thinking")
  /\ UNCHANGED <<phase, writer, stt, tts>>

\* Deepgram closes its socket, or a transcript's handler raises: the reader ends, and
\* nothing opens another.
ReaderEnds ==
  /\ reading
  /\ reading' = FALSE
  /\ sttWs' \in {"open", "shut"}
  /\ UNCHANGED <<phase, writer, sttHttp, task, tts>>

-----------------------------------------------------------------------------
(* The tasks.                                                              *)

\* The turn's reply or confirmation is spoken, or there is none.
Speak(t) ==
  /\ task[t] = "thinking"
  /\ TaskTo(t, "waiting") \/ TaskTo(t, "done")
  /\ UNCHANGED <<phase, writer, stt, tts>>

\* Mutant: there is no lock.
unlocked == TRUE

lockFree == \A k \in Tasks : task[k] \notin {"handshake", "talking"}

\* Not when there is one that is closed.
needsSocket == ws = None

\* The lock is taken and no socket found: _connect begins.
StartConnect(k) ==
  /\ task[k] = "waiting" /\ lockFree /\ needsSocket
  /\ TaskTo(k, "handshake")
  /\ http' = [http EXCEPT ![k] = "open"]
  /\ UNCHANGED <<phase, writer, stt, ws, sock, late>>

\* There is a socket: it is spoken over, or the task gives up, because the socket is
\* closed or the utterance cancelled.
UseSocket(k) ==
  /\ task[k] = "waiting" /\ lockFree /\ ~needsSocket
  /\ \/ sock[ws] = "open" /\ TaskTo(k, "talking")
     \/ TaskTo(k, "done")
  /\ UNCHANGED <<phase, writer, stt, tts>>

\* close() has let go of the streamer's socket, or found none.
TtsClosed == phase \in {"closing_tts_http", "closed"}

\* The handshake succeeds.  warm_up speaks nothing, nor does a cancelled utterance.
Connects(k) ==
  /\ task[k] = "handshake"
  /\ sock' = [sock EXCEPT ![k] = "open"]
  /\ ws' = k
  /\ \/ TaskTo(k, "done")
     \/ k # "warm_up" /\ TaskTo(k, "talking")
  /\ late' = late \cup {j \in {k} : TtsClosed}
  /\ UNCHANGED <<phase, writer, stt, http>>

\* "a failed handshake must not leak the session".
ConnectFails(k) ==
  /\ task[k] = "handshake"
  /\ http' = [http EXCEPT ![k] = "shut"]
  /\ TaskTo(k, "done")
  /\ UNCHANGED <<phase, writer, stt, ws, sock, late>>

\* The utterance is over.
SpeechEnds(k) ==
  /\ task[k] = "talking"
  /\ TaskTo(k, "done")
  /\ UNCHANGED <<phase, writer, stt, tts>>

\* Rime closes its socket.
RimeCloses(k) ==
  /\ sock[k] = "open"
  /\ sock' = [sock EXCEPT ![k] = "shut"]
  /\ UNCHANGED <<phase, writer, stt, task, ws, http, late>>

-----------------------------------------------------------------------------
(* close().                                                                *)

\* The browser is gone, or the handler raises.
HangUp ==
  /\ phase = "serving"
  /\ phase' = closeStt(sttWs)
  /\ UNCHANGED <<writer, stt, task, tts>>

\* Mutant: close() waits until Deepgram has ended the reader.
readerHasEnded == ~reading

\* The socket's close wakes the reader, which ends.
readerGivesWay == TRUE

SttWsCloses ==
  /\ phase = "closing_stt" /\ readerGivesWay
  /\ phase' = "closing_stt_http"
  /\ sttWs' = "shut" /\ reading' = FALSE
  /\ UNCHANGED <<writer, sttHttp, task, tts>>

SttHttpCloses ==
  /\ phase = "closing_stt_http"
  /\ phase' = "closing_tts"
  /\ sttHttp' = "shut"
  /\ UNCHANGED <<writer, sttWs, reading, task, tts>>

\* tts.close finds no socket and no session: the writer is cancelled at once.
NoTtsToClose ==
  /\ phase = "closing_tts" /\ ws = None
  /\ phase' = "closed"
  /\ writer' = "cancelled"
  /\ UNCHANGED <<stt, task, tts>>

\* The socket's close, and at its end the beginning of its session's.
TtsWsCloses ==
  /\ phase = "closing_tts" /\ ws # None
  /\ phase' = "closing_tts_http"
  /\ sock' = [sock EXCEPT ![ws] = "shut"]
  /\ http' = [http EXCEPT ![ws] = "shut"]
  /\ ws' = None
  /\ UNCHANGED <<writer, stt, task, late>>

TtsHttpCloses ==
  /\ phase = "closing_tts_http"
  /\ phase' = "closed"
  /\ writer' = "cancelled"
  /\ UNCHANGED <<stt, task, tts>>

-----------------------------------------------------------------------------
CloseStep == SttWsCloses \/ SttHttpCloses \/ NoTtsToClose \/ TtsWsCloses \/ TtsHttpCloses

TaskStep(k) ==
  \/ k \in Turns /\ Speak(k)
  \/ StartConnect(k) \/ UseSocket(k) \/ Connects(k) \/ ConnectFails(k) \/ SpeechEnds(k)

Next ==
  \/ Begin \/ Refuse \/ SttOpens \/ ReaderEnds \/ HangUp \/ CloseStep
  \/ \E t \in Turns : Transcript(t)
  \/ \E k \in Tasks : TaskStep(k) \/ RimeCloses(k)

\* The closes, handshakes, the LLM and utterances end (their timeouts, the watchdog);
\* nothing is assumed of the browser, Deepgram and Rime.
Fairness == WF_vars(CloseStep) /\ \A k \in Tasks : WF_vars(TaskStep(k))

Spec == Init /\ [][Next]_vars /\ Fairness

-----------------------------------------------------------------------------
(* Properties.                                                             *)

\* What is still open after close() was opened later or is being opened, by a task
\* that close() does not wait for: it releases all else, though Deepgram or Rime may
\* have refused, or hung up first.
ClosedCallIsReleased ==
  phase = "closed" =>
    /\ writer = "cancelled" /\ ~reading
    /\ sttWs # "open" /\ sttHttp # "open"
    /\ \A k \in Tasks \ late :
         sock[k] # "open" /\ (http[k] = "open" => task[k] = "handshake")

\* "Safe to race with speak(): both serialize on the same lock": warm_up, greeting and
\* turns never hold two connections to Rime between them, and nor do those that come
\* late; "a failed handshake must not leak the session", which counts as one.
OneConnectionToRime ==
  LET holds(k) == sock[k] = "open" \/ http[k] = "open"
  IN \A j, k \in Tasks : holds(j) /\ holds(k) => j = k

\* close() ends Deepgram's transcripts before the streamer: no turn begins that has no
\* streamer to speak with.
NoTurnBeginsLate ==
  [][(phase \in {"closing_tts", "closing_tts_http", "closed"}) =>
       \A t \in Turns : task'[t] = "thinking" => task[t] = "thinking"]_vars

\* A browser that hangs up in the middle of anything leaves no task behind.
HangUpEnds ==
  phase \in Closing ~> phase = "closed" /\ \A k \in Tasks : task[k] \in {"none", "done"}
=============================================================================
