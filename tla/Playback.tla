------------------------------ MODULE Playback ------------------------------
(***************************************************************************)
(* The way of the agent's voice from Rime to the caller's ear: the bytes   *)
(* of a text as Rime streams them, the reader of agent/tts_rime.py that    *)
(* makes frames of whole samples of them, the outbound queue and its       *)
(* writer in backend/voice.py, the browser's socket and page               *)
(* (web/index.html) and its player (web/audio-worklet.js).                 *)
(*                                                                         *)
(* The streamer's control appears as Speech.  Of the bytes only the parity *)
(* matters: a sample has two.  A tick of the player is the time one frame  *)
(* lasts; the fades at its edges are left out.  The player drops what it   *)
(* holds on a `flush`, which the page sends on a message `interrupted`;    *)
(* the server has no such message, so there is no such step, and the       *)
(* larger cushion an underrun asks for after the next flush is left out.   *)
(***************************************************************************)
EXTENDS Naturals, Sequences

CONSTANTS
  Utterances,   \* bound of Speech
  MaxChunks,    \* bound: chunks Rime makes of one text
  MaxSaid,      \* bound: transcripts of the user
  MaxQueued,    \* _MAX_QUEUED_AUDIO
  Cushion,      \* frames the player waits for before it starts ...
  EscapeAfter,  \* ... unless this many ticks have passed ...
  EscapeFrames, \* ... and it has more than this many frames
  None

ASSUME PlaybackAssumption ==
  /\ Utterances \in Nat \ {0}
  /\ MaxChunks \in Nat /\ MaxSaid \in Nat /\ MaxQueued \in Nat
  /\ Cushion \in Nat \ {0} /\ EscapeAfter \in Nat /\ EscapeFrames \in Nat
  /\ EscapeFrames < Cushion
ASSUME NoneIsNoToken == None \notin 0..Utterances

VARIABLES
  current, quiet, dones,  \* the streamer's facade; `quiet` is _dropped
  busy,       \* the detector's _agent_busy
  said,       \* number of transcripts
  stream,     \* the text Rime is sending
  left,       \* chunks Rime still makes of it
  half,       \* Rime has sent an odd number of its bytes
  carry,      \* _pcm_carry: the text whose byte it holds, or None
  out,        \* _out, the outbound queue
  net,        \* what the browser's socket holds
  gone,       \* the caller has hung up
  agentSpeaking,  \* the page shows that the agent speaks
  queue, started, \* the player's
  waited,     \* ticks since the player's firstChunkAt, or None
  silenced,   \* history: current at the latest cancel; it and all before are over
  late,       \* history: a chunk of such a text has been forwarded
  shown,      \* history: utterances whose end the page has shown
  hushed      \* history: the latest of those that had been cancelled

speechVars == <<current, quiet, dones>>
rimeVars == <<stream, left, half, carry, late>>
pageVars == <<gone, agentSpeaking, shown, hushed>>
playerVars == <<queue, started, waited>>
vars == <<speechVars, busy, said, rimeVars, out, net, pageVars, playerVars, silenced>>

TTS == INSTANCE Speech WITH heard <- <<>>

Tokens == 0..Utterances
Frame == [of : Tokens, aligned : BOOLEAN]
Message ==
  [type : {"audio"}, frame : Frame] \cup [type : {"ready", "transcript"}]
    \cup [type : {"speech_end"}, of : Tokens, cancelled : BOOLEAN]

TypeOK ==
  /\ current \in 1..Utterances
  /\ quiet \in BOOLEAN /\ busy \in BOOLEAN /\ half \in BOOLEAN /\ late \in BOOLEAN
  /\ dones \in [Tokens -> {0, 1}]
  /\ said \in 0..MaxSaid
  /\ stream \in Tokens /\ left \in 0..MaxChunks
  /\ carry \in Tokens \cup {None}
  /\ out \in Seq(Message) /\ net \in Seq(Message)
  /\ gone \in BOOLEAN /\ agentSpeaking \in BOOLEAN
  /\ queue \in Seq(Frame) /\ started \in BOOLEAN
  /\ waited \in 0..EscapeAfter + 1 \cup {None}
  /\ silenced \in Tokens /\ hushed \in Tokens /\ shown \in SUBSET Tokens

\* The player's constructor.
PlayerInit == queue = <<>> /\ started = FALSE /\ waited = None

\* start() has run.
Init ==
  /\ current = 1 /\ quiet = FALSE
  /\ dones = [u \in Tokens |-> 0]
  /\ busy = TRUE /\ said = 0
  /\ stream = 0 /\ left = 0 /\ half = FALSE /\ carry = None
  /\ out = <<[type |-> "ready"]>> /\ net = <<>>
  /\ gone = FALSE /\ agentSpeaking = FALSE
  /\ PlayerInit
  /\ silenced = 0 /\ late = FALSE /\ shown = {} /\ hushed = 0

-----------------------------------------------------------------------------
(* The call.                                                               *)

send_json_msg(msg) == out' = Append(out, msg)

\* A turn speaks its reply.  (Confirmations, which do not raise the flag, are in
\* VoiceCall.)
Speak ==
  /\ TTS!Speak
  /\ busy' = TRUE
  /\ UNCHANGED <<said, rimeVars, out, net, pageVars, playerVars, silenced>>

\* A turn dispatches a tool.
CallTool ==
  /\ ~busy
  /\ busy' = TRUE
  /\ UNCHANGED <<speechVars, said, rimeVars, out, net, pageVars, playerVars, silenced>>

\* Mutant: the byte that waits for its other half is kept.
cancelKeepingCarry == TTS!Cancel /\ silenced' = current /\ UNCHANGED carry

\* cancel() and the _clear it schedules.
cancel == TTS!Cancel /\ silenced' = current /\ carry' = None

\* _on_stt: the words are echoed, and interrupt a busy agent.
HearUser ==
  /\ said < MaxSaid
  /\ said' = said + 1
  /\ send_json_msg([type |-> "transcript"])
  /\ busy' = FALSE
  /\ IF busy THEN cancel ELSE UNCHANGED <<speechVars, carry, silenced>>
  /\ UNCHANGED <<stream, left, half, late, net, pageVars, playerVars>>

\* Mutants: the end of speech overtakes the audio in the queue, or is shed like it.
endOvertakes(msg) == out' = <<msg>> \o out
endIsShed(msg) == IF Len(out) < MaxQueued THEN send_json_msg(msg) ELSE UNCHANGED out

sendEnd(msg) == send_json_msg(msg)

\* _speech_done.
SpeechDone ==
  /\ TTS!Done
  /\ busy' = FALSE
  /\ sendEnd([type |-> "speech_end", of |-> current, cancelled |-> quiet])
  /\ UNCHANGED <<said, rimeVars, net, pageVars, playerVars, silenced>>

-----------------------------------------------------------------------------
(* Rime and the reader.                                                    *)

\* Rime goes on to another text: it has sent all of the one before, or discarded
\* it on a clear.
NextText ==
  /\ ~half \/ stream <= silenced
  /\ stream' \in stream + 1..current
  /\ left' = MaxChunks
  /\ half' = FALSE
  /\ UNCHANGED <<speechVars, busy, said, carry, late, out, net, pageVars, playerVars, silenced>>

\* The first byte of what the reader makes of the next chunk is the first of a
\* sample: of the chunk's, or the byte before the chunk.
Aligned == IF carry = None THEN ~half ELSE carry = stream /\ half

\* Audio drops rather than blocks.
send_audio(frame) ==
  out' = IF Len(out) < MaxQueued THEN Append(out, [type |-> "audio", frame |-> frame]) ELSE out

\* Whether the frame has an odd number of bytes and so leaves one for the next.
oddFrame(odd) == odd # (carry # None)

\* A chunk is read: dropped after a cancel, else made even and forwarded.
ReadChunk(odd) ==
  /\ stream > 0 /\ left > 0
  /\ left' = left - 1
  /\ half' = (half # odd)
  /\ IF quiet
     THEN carry' = None /\ UNCHANGED <<out, late>>
     ELSE /\ send_audio([of |-> stream, aligned |-> Aligned])
          /\ carry' = IF oddFrame(odd) THEN stream ELSE None
          /\ late' = (late \/ stream <= silenced)
  /\ UNCHANGED <<speechVars, busy, said, stream, net, pageVars, playerVars, silenced>>

-----------------------------------------------------------------------------
(* The writer and the browser.                                             *)

\* The writer goes on when the browser is gone and the send raises.
Write ==
  /\ out # <<>>
  /\ out' = Tail(out)
  /\ net' = IF gone THEN net ELSE Append(net, Head(out))
  /\ UNCHANGED <<speechVars, busy, said, rimeVars, pageVars, playerVars, silenced>>

Receive(type) ==
  /\ net # <<>> /\ Head(net).type = type
  /\ net' = Tail(net)
  /\ UNCHANGED <<speechVars, busy, said, rimeVars, out, gone, silenced>>

ShowText ==
  /\ \E type \in {"ready", "transcript"} : Receive(type)
  /\ UNCHANGED <<agentSpeaking, shown, hushed, playerVars>>

\* The page shows that the agent is silent; the player is told nothing.
ShowEnd ==
  /\ Receive("speech_end")
  /\ agentSpeaking' = FALSE
  /\ shown' = shown \cup {Head(net).of}
  /\ hushed' = IF Head(net).cancelled THEN Head(net).of ELSE hushed
  /\ UNCHANGED playerVars

\* Mutants: the clock of the escape hatch never starts, or runs from the call's start.
clockStopped == None
clockOfCall == EscapeAfter + 2

\* firstChunkAt.
clockStarted == IF waited = None THEN 0 ELSE waited

ReceiveAudio ==
  /\ Receive("audio")
  /\ queue' = Append(queue, Head(net).frame)
  /\ waited' = clockStarted
  /\ agentSpeaking' = TRUE
  /\ UNCHANGED <<started, shown, hushed>>

\* A full cushion, or the escape hatch: audio trickles without ever filling it.
mayStart ==
  \/ Len(queue) >= Cushion
  \/ waited # None /\ waited > EscapeAfter /\ Len(queue) > EscapeFrames

\* The player plays through once it has started.
Play ==
  /\ started \/ mayStart
  /\ queue # <<>>
  /\ started' = TRUE
  /\ queue' = Tail(queue)
  /\ UNCHANGED <<speechVars, busy, said, rimeVars, out, net, pageVars, waited, silenced>>

\* Before the start: silence.
Wait ==
  /\ ~started /\ ~mayStart
  /\ waited # None /\ waited <= EscapeAfter
  /\ waited' = waited + 1
  /\ UNCHANGED <<speechVars, busy, said, rimeVars, out, net, pageVars, queue, started, silenced>>

HangUp ==
  /\ ~gone
  /\ gone' = TRUE
  /\ net' = <<>> /\ queue' = <<>>
  /\ agentSpeaking' = FALSE
  /\ UNCHANGED <<speechVars, busy, said, rimeVars, out, shown, hushed, started, waited, silenced>>

-----------------------------------------------------------------------------
Page == ShowText \/ ShowEnd \/ ReceiveAudio
Tick == Play \/ Wait

Next ==
  \/ Speak \/ CallTool \/ HearUser \/ SpeechDone
  \/ NextText \/ \E odd \in BOOLEAN : ReadChunk(odd)
  \/ Write \/ Page \/ Tick \/ HangUp

\* The writer, the socket, the page and the audio thread go on.  Nothing is assumed
\* of the user or of Rime.
Fairness == WF_vars(Write) /\ WF_vars(Page) /\ WF_vars(Tick)

Spec == Init /\ [][Next]_vars /\ Fairness

-----------------------------------------------------------------------------
(* Properties.                                                             *)

RangeOf(s) == {s[i] : i \in 1..Len(s)}

underway == net \o out

\* The frames on their way to the ear.
Frames == {m.frame : m \in {x \in RangeOf(underway) : x.type = "audio"}} \cup RangeOf(queue)

\* "every forwarded frame is sample-aligned": interruptions at any byte leave no
\* stray byte to the texts after, as long as no chunk of an interrupted text is read
\* after the next speak().
FramesAligned == ~late => \A f \in Frames : f.aligned

\* What the page shows is not undone: once it has shown the end of an interrupted
\* utterance, none of its audio comes in, nor is any in the queue behind the message.
EndFollowsAudio ==
  ~late =>
    \A j \in 1..Len(underway) : underway[j].type = "audio" =>
      /\ underway[j].frame.of > hushed
      /\ \A i \in 1..j - 1 :
           underway[i].type = "speech_end" /\ underway[i].cancelled
             => underway[j].frame.of > underway[i].of

\* Control messages are never shed: the page shows the end of every utterance that
\* ends, however much audio is queued, unless the caller hangs up.
EveryEndIsShown == \A u \in Tokens : dones[u] = 1 ~> u \in shown \/ gone

\* An utterance too short to fill the cushion is played nevertheless.
ShortSpeechIsPlayed == Len(queue) > EscapeFrames ~> queue = <<>>

\* "the browser flushes playback right away": once the page has been told that an
\* interrupted utterance is over, no more of it is played.
InterruptedStopsPlaying ==
  [][queue # <<>> /\ queue' = Tail(queue) /\ ~gone' => Head(queue).of > hushed]_vars
=============================================================================
