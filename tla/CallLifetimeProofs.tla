------------------------- MODULE CallLifetimeProofs -------------------------
(* Theorems about CallLifetime and their proofs. *)
EXTENDS CallLifetime, TLAPS

-----------------------------------------------------------------------------
(* The inductive invariant.                                                *)

\* Nothing is under way before the constructor, nor the greeting before Deepgram's part.
Fresh ==
  /\ phase = "accepted" =>
       ws = None /\ ~reading /\ \A k \in Tasks : task[k] = "none"
  /\ phase = "opening" => task["greeting"] = "none"

\* How far close() has come.
SttReleased ==
  /\ phase \in {"closing_stt_http", "closing_tts", "closing_tts_http", "closed"} =>
       ~reading /\ sttWs # "open"
  /\ phase \in {"closing_tts", "closing_tts_http", "closed"} => sttHttp # "open"

TtsReleased ==
  /\ TtsClosed => ws = None \/ ws \in late
  /\ phase = "closed" => writer = "cancelled"

\* One task at the lock, and a handshake only without a socket.
HoldsLock(k) == task[k] \in {"handshake", "talking"}

LockHeldOnce == \A j, k \in Tasks : HoldsLock(j) /\ HoldsLock(k) => j = k

SocketKnown ==
  \A k \in Tasks :
    /\ task[k] = "handshake" => ws = None
    /\ sock[k] = "open" => ws = k
    /\ http[k] = "open" => task[k] = "handshake" \/ ws = k

IInv == TypeOK /\ Fresh /\ SttReleased /\ TtsReleased /\ LockHeldOnce /\ SocketKnown

LEMMA InitIInv == Init => IInv
  BY DEF Init, IInv, TypeOK, Fresh, SttReleased, TtsReleased, LockHeldOnce, SocketKnown,
         HoldsLock, TtsClosed, Phases, Closing, Resource

-----------------------------------------------------------------------------
(* Each step keeps the invariant.                                          *)

LEMMA BeginKeeps == IInv /\ (Begin \/ Refuse) => IInv'
<1> SUFFICES ASSUME IInv, Begin \/ Refuse PROVE IInv'
  OBVIOUS
<1>1. /\ phase = "accepted" /\ phase' \in {"opening", "refused"}
      /\ writer' \in {writer, "running"} /\ sttHttp' \in {sttHttp, "open"}
      /\ UNCHANGED <<sttWs, reading, ws, sock, late>>
      /\ \/ UNCHANGED <<task, http>>
         \/ /\ task' = [task EXCEPT !["warm_up"] = "handshake"]
            /\ http' = [http EXCEPT !["warm_up"] = "open"]
  BY DEF Begin, Refuse, TaskTo, stt
<1>2. {"warm_up", "greeting"} \subseteq Tasks /\ ws = None /\ \A k \in Tasks : task[k] = "none"
  BY <1>1 DEF IInv, Fresh, Tasks
<1>3. TypeOK'
  BY <1>1 DEF IInv, TypeOK, Phases, Resource
<1>4. LockHeldOnce' /\ SocketKnown'
  BY <1>1, <1>2 DEF IInv, TypeOK, LockHeldOnce, SocketKnown, HoldsLock
<1>5. Fresh'
  BY <1>1, <1>2 DEF IInv, TypeOK, Fresh
<1> QED
  BY <1>1, <1>3, <1>4, <1>5 DEF IInv, SttReleased, TtsReleased, TtsClosed

\* The handler, Deepgram's side and the closes that touch no task.
LEMMA HandlerKeeps ==
  IInv /\ (SttOpens \/ ReaderEnds \/ HangUp \/ SttWsCloses \/ SttHttpCloses) => IInv'
<1> SUFFICES ASSUME IInv, SttOpens \/ ReaderEnds \/ HangUp \/ SttWsCloses \/ SttHttpCloses
             PROVE  IInv'
  OBVIOUS
<1>1. /\ task' = task \/ task' = [task EXCEPT !["greeting"] = "waiting"]
      /\ UNCHANGED <<ws, sock, http, late, writer>>
  BY DEF SttOpens, ReaderEnds, HangUp, SttWsCloses, SttHttpCloses, TaskTo, tts
<1>2. phase' \in Phases \ {"accepted", "closing_tts_http", "closed"} \/ phase' = phase
  BY DEF SttOpens, ReaderEnds, HangUp, SttWsCloses, SttHttpCloses, closeStt, Phases, Closing
<1>3. /\ sttWs' \in Resource /\ sttHttp' \in Resource /\ reading' \in BOOLEAN
      /\ reading' => sttWs' = "open"
  <2>1. CASE SttOpens
    BY <2>1 DEF IInv, TypeOK, SttOpens, readsFrom, Resource
  <2>2. CASE ReaderEnds
    BY <2>2 DEF IInv, TypeOK, ReaderEnds, Resource
  <2>3. CASE HangUp
    <3>1. sttWs' = sttWs /\ sttHttp' = sttHttp /\ reading' = reading
      BY <2>3 DEF HangUp, stt
    <3> QED
      BY <3>1 DEF IInv, TypeOK
  <2>4. CASE SttWsCloses
    BY <2>4 DEF IInv, TypeOK, SttWsCloses, Resource
  <2>5. CASE SttHttpCloses
    <3>1. sttWs' = sttWs /\ sttHttp' = "shut" /\ reading' = reading
      BY <2>5 DEF SttHttpCloses
    <3> QED
      BY <3>1 DEF IInv, TypeOK, Resource
  <2> QED
    BY <2>1, <2>2, <2>3, <2>4, <2>5
<1>4. Fresh'
  <2>1. phase' # "accepted"
    BY DEF IInv, Fresh, SttOpens, ReaderEnds, HangUp, SttWsCloses, SttHttpCloses, closeStt
  <2>2. phase' = "opening" => phase = "opening" /\ task' = task
    BY DEF SttOpens, ReaderEnds, HangUp, SttWsCloses, SttHttpCloses, closeStt
  <2> QED
    BY <2>1, <2>2 DEF IInv, Fresh
<1>5. SttReleased'
  <2>1. CASE SttOpens
    BY <2>1 DEF SttReleased, SttOpens, closeStt, readsFrom
  <2>2. CASE ReaderEnds
    BY <2>2 DEF IInv, SttReleased, ReaderEnds
  <2>3. CASE HangUp
    BY <2>3 DEF IInv, TypeOK, SttReleased, HangUp, closeStt, stt
  <2>4. CASE SttWsCloses \/ SttHttpCloses
    BY <2>4 DEF IInv, SttReleased, SttWsCloses, SttHttpCloses
  <2> QED
    BY <2>1, <2>2, <2>3, <2>4
<1>6. TtsReleased'
  BY <1>1, <1>2 DEF IInv, TtsReleased, TtsClosed
<1>7. TypeOK'
  BY <1>1, <1>2, <1>3 DEF IInv, TypeOK
<1>8. LockHeldOnce' /\ SocketKnown'
  <2>1. "greeting" \in Tasks /\ (task' # task => task["greeting"] = "none")
    BY DEF IInv, Fresh, Tasks, SttOpens, ReaderEnds, HangUp, SttWsCloses, SttHttpCloses
  <2> QED
    BY <1>1, <2>1 DEF IInv, TypeOK, LockHeldOnce, HoldsLock, SocketKnown
<1> QED
  BY <1>4, <1>5, <1>6, <1>7, <1>8 DEF IInv

\* A task that neither opens nor closes anything.
LEMMA QuietTaskKeeps ==
  ASSUME IInv, NEW k \in Tasks,
         \/ k \in Turns /\ (Transcript(k) \/ Speak(k))
         \/ UseSocket(k) \/ SpeechEnds(k)
  PROVE  IInv'
<1>1. PICK s \in {"thinking", "waiting", "talking", "done"} :
        /\ task' = [task EXCEPT ![k] = s]
        /\ s = "talking" => lockFree
  BY DEF Transcript, Speak, UseSocket, SpeechEnds, TaskTo
<1>2. UNCHANGED <<phase, writer, stt, tts>>
  BY DEF Transcript, Speak, UseSocket, SpeechEnds
<1>3. Fresh'
  <2>1. phase # "accepted"
    BY DEF IInv, Fresh, Transcript, Speak, UseSocket, SpeechEnds
  <2>2. phase = "opening" => k # "greeting"
    BY TurnsAssumption DEF IInv, Fresh, Transcript, Speak, UseSocket, SpeechEnds
  <2> QED
    BY <1>1, <1>2, <2>1, <2>2 DEF IInv, TypeOK, Fresh
<1>4. TypeOK'
  BY <1>1, <1>2 DEF IInv, TypeOK, stt, tts
<1>5. LockHeldOnce'
  BY <1>1 DEF IInv, TypeOK, LockHeldOnce, HoldsLock, lockFree
<1>6. SocketKnown'
  <2>1. task[k] # "handshake"
    BY DEF Transcript, Speak, UseSocket, SpeechEnds
  <2> QED
    BY <1>1, <1>2, <2>1 DEF IInv, TypeOK, SocketKnown, tts
<1> QED
  BY <1>2, <1>3, <1>4, <1>5, <1>6
     DEF IInv, Fresh, SttReleased, TtsReleased, TtsClosed, stt, tts

LEMMA StartConnectKeeps ==
  ASSUME IInv, NEW k \in Tasks, StartConnect(k)
  PROVE  IInv'
<1>1. /\ task[k] = "waiting" /\ lockFree /\ ws = None
      /\ task' = [task EXCEPT ![k] = "handshake"] /\ http' = [http EXCEPT ![k] = "open"]
      /\ UNCHANGED <<phase, writer, stt, ws, sock, late>>
  BY DEF StartConnect, needsSocket, TaskTo
<1>2. TypeOK'
  BY <1>1 DEF IInv, TypeOK, stt, Resource
<1>3. LockHeldOnce'
  BY <1>1 DEF IInv, TypeOK, LockHeldOnce, HoldsLock, lockFree
<1>4. SocketKnown'
  BY <1>1 DEF IInv, TypeOK, SocketKnown
<1> QED
  BY <1>1, <1>2, <1>3, <1>4 DEF IInv, Fresh, SttReleased, TtsReleased, TtsClosed, stt

LEMMA ConnectsKeeps ==
  ASSUME IInv, NEW k \in Tasks, Connects(k)
  PROVE  IInv'
<1>1. PICK s \in {"done", "talking"} : task' = [task EXCEPT ![k] = s]
  BY DEF Connects, TaskTo
<1>2. /\ task[k] = "handshake" /\ ws = None /\ ws' = k
      /\ sock' = [sock EXCEPT ![k] = "open"]
      /\ late' = late \cup {j \in {k} : TtsClosed}
      /\ UNCHANGED <<phase, writer, stt, http>>
  BY DEF Connects, IInv, SocketKnown
<1>3. TypeOK'
  BY <1>1, <1>2 DEF IInv, TypeOK, stt, Resource
<1>4. Fresh'
  <2>1. phase # "accepted" /\ (phase = "opening" => k # "greeting")
    BY <1>2 DEF IInv, Fresh
  <2> QED
    BY <1>1, <1>2, <2>1 DEF IInv, TypeOK, Fresh
<1>5. TtsReleased'
  BY <1>2 DEF IInv, TtsReleased, TtsClosed
<1>6. LockHeldOnce'
  BY <1>1, <1>2 DEF IInv, TypeOK, LockHeldOnce, HoldsLock
<1>7. SocketKnown'
  <2>1. \A j \in Tasks \ {k} : task'[j] # "handshake" /\ http'[j] # "open"
    BY <1>1, <1>2, NoneAssumption DEF IInv, TypeOK, LockHeldOnce, HoldsLock, SocketKnown
  <2>2. \A j \in Tasks \ {k} : sock'[j] # "open"
    BY <1>2, NoneAssumption DEF IInv, TypeOK, SocketKnown
  <2> QED
    BY <1>1, <1>2, <2>1, <2>2 DEF IInv, TypeOK, SocketKnown
<1> QED
  BY <1>2, <1>3, <1>4, <1>5, <1>6, <1>7 DEF IInv, SttReleased, stt

LEMMA ConnectFailsKeeps ==
  ASSUME IInv, NEW k \in Tasks, ConnectFails(k)
  PROVE  IInv'
<1>1. /\ task[k] = "handshake"
      /\ task' = [task EXCEPT ![k] = "done"] /\ http' = [http EXCEPT ![k] = "shut"]
      /\ UNCHANGED <<phase, writer, stt, ws, sock, late>>
  BY DEF ConnectFails, TaskTo
<1>2. TypeOK'
  BY <1>1 DEF IInv, TypeOK, stt, Resource
<1>3. Fresh' /\ LockHeldOnce' /\ SocketKnown'
  BY <1>1 DEF IInv, TypeOK, Fresh, LockHeldOnce, HoldsLock, SocketKnown
<1> QED
  BY <1>1, <1>2, <1>3 DEF IInv, SttReleased, TtsReleased, TtsClosed, stt

LEMMA RimeClosesKeeps ==
  ASSUME IInv, NEW k \in Tasks, RimeCloses(k)
  PROVE  IInv'
<1>1. /\ sock' = [sock EXCEPT ![k] = "shut"]
      /\ UNCHANGED <<phase, writer, stt, task, ws, http, late>>
  BY DEF RimeCloses
<1>2. TypeOK' /\ SocketKnown'
  BY <1>1 DEF IInv, TypeOK, SocketKnown, stt, Resource
<1> QED
  BY <1>1, <1>2 DEF IInv, Fresh, SttReleased, TtsReleased, TtsClosed, LockHeldOnce, HoldsLock, stt

LEMMA TtsClosesKeep == IInv /\ (NoTtsToClose \/ TtsWsCloses \/ TtsHttpCloses) => IInv'
<1> SUFFICES ASSUME IInv, NoTtsToClose \/ TtsWsCloses \/ TtsHttpCloses PROVE IInv'
  OBVIOUS
<1>1. /\ \/ phase = "closing_tts" /\ phase' \in {"closing_tts_http", "closed"}
         \/ phase = "closing_tts_http" /\ phase' = "closed"
      /\ phase' = "closed" => writer' = "cancelled"
      /\ UNCHANGED <<sttWs, sttHttp, reading, task, late>>
  BY DEF NoTtsToClose, TtsWsCloses, TtsHttpCloses, stt, tts
<1>2. \/ /\ UNCHANGED <<ws, sock, http>>
         /\ phase = "closing_tts" => ws = None
      \/ /\ ws # None /\ ws' = None
         /\ sock' = [sock EXCEPT ![ws] = "shut"] /\ http' = [http EXCEPT ![ws] = "shut"]
  BY DEF NoTtsToClose, TtsWsCloses, TtsHttpCloses, tts
<1>3. TypeOK'
  <2>1. writer' \in {writer, "cancelled"}
    BY DEF NoTtsToClose, TtsWsCloses, TtsHttpCloses
  <2> QED
    BY <1>1, <1>2, <2>1 DEF IInv, TypeOK, Phases, Closing, Resource
<1>4. TtsReleased'
  BY <1>1, <1>2 DEF IInv, TtsReleased, TtsClosed
<1>5. SocketKnown'
  BY <1>1, <1>2 DEF IInv, TypeOK, SocketKnown
<1> QED
  BY <1>1, <1>3, <1>4, <1>5 DEF IInv, Fresh, SttReleased, LockHeldOnce, HoldsLock

LEMMA NextKeeps == IInv /\ [Next]_vars => IInv'
<1> SUFFICES ASSUME IInv, [Next]_vars PROVE IInv'
  OBVIOUS
<1>1. CASE UNCHANGED vars
  BY <1>1 DEF vars, stt, tts, IInv, TypeOK, Fresh, SttReleased, TtsReleased, TtsClosed,
              LockHeldOnce, HoldsLock, SocketKnown
<1>2. ASSUME NEW k \in Tasks, TaskStep(k) PROVE IInv'
  BY <1>2, QuietTaskKeeps, StartConnectKeeps, ConnectsKeeps, ConnectFailsKeeps DEF TaskStep
<1>3. ASSUME NEW t \in Turns, Transcript(t) PROVE IInv'
  BY <1>3, QuietTaskKeeps DEF Tasks
<1> QED
  BY <1>1, <1>2, <1>3, BeginKeeps, HandlerKeeps, TtsClosesKeep, RimeClosesKeeps
     DEF Next, CloseStep

LEMMA Invariance == Spec => []IInv
  BY InitIInv, NextKeeps, PTL DEF Spec

-----------------------------------------------------------------------------
(* Theorems.                                                               *)

\* The type invariant.
THEOREM TypeCorrect == Spec => []TypeOK
<1>1. IInv => TypeOK
  BY DEF IInv
<1> QED
  BY <1>1, Invariance, PTL

\* close() releases all but what is opened behind it.
THEOREM ClosedCallReleased == Spec => []ClosedCallIsReleased
<1>1. IInv => ClosedCallIsReleased
  BY NoneAssumption
     DEF IInv, SttReleased, TtsReleased, TtsClosed, SocketKnown, ClosedCallIsReleased
<1> QED
  BY <1>1, Invariance, PTL

\* The lock makes one connection of them all, the sessions of handshakes that failed
\* or are under way included.
THEOREM OneConnection == Spec => []OneConnectionToRime
<1>1. IInv => OneConnectionToRime
  BY NoneAssumption DEF IInv, SocketKnown, LockHeldOnce, HoldsLock, OneConnectionToRime
<1> QED
  BY <1>1, Invariance, PTL

\* With the reader gone, nothing begins a turn.
THEOREM NoLateTurn == Spec => NoTurnBeginsLate
<1> DEFINE SttClosed == phase \in {"closing_tts", "closing_tts_http", "closed"}
           NoneBegins == \A t \in Turns : task'[t] = "thinking" => task[t] = "thinking"
<1>1. IInv /\ [Next]_vars => [SttClosed => NoneBegins]_vars
  <2> SUFFICES ASSUME IInv, Next, SttClosed, NEW t \in Turns, task'[t] = "thinking"
               PROVE  task[t] = "thinking"
    BY DEF vars
  <2>1. ~reading /\ phase \notin {"accepted", "opening", "serving"} /\ t \in Tasks
    BY DEF IInv, SttReleased, Tasks
  <2>2. ASSUME NEW k \in Tasks, TaskStep(k) PROVE task[t] = "thinking"
    BY <2>1, <2>2 DEF TaskStep, Speak, StartConnect, UseSocket, Connects, ConnectFails,
                      SpeechEnds, TaskTo, IInv, TypeOK
  <2>3. CASE task' = task
    BY <2>3
  <2> QED
    BY <2>1, <2>2, <2>3
       DEF Next, Begin, Refuse, SttOpens, ReaderEnds, HangUp, CloseStep, SttWsCloses,
           SttHttpCloses, NoTtsToClose, TtsWsCloses, TtsHttpCloses, Transcript, RimeCloses
<1>2. Spec => [][SttClosed => NoneBegins]_vars
  BY <1>1, Invariance, PTL DEF Spec
<1> QED
  BY <1>2 DEF NoTurnBeginsLate
=============================================================================
