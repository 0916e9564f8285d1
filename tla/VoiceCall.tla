------------------------------ MODULE VoiceCall ------------------------------
(***************************************************************************)
(* One voice call: the pipeline of backend/voice.py with the interruption  *)
(* detector of agent/stt_pipeline.py.                                      *)
(*                                                                         *)
(* The components it ties together appear by what they promise: the turn   *)
(* manager as TurnGate, the streamer as Speech.  Every final transcript    *)
(* runs a turn of its own, so turns overlap: one may be thinking while     *)
(* another's tool runs and a third's reply is being spoken.  The LLM, the  *)
(* tools and the user are the environment; transcripts hold words, as the  *)
(* recognizer's do.  A user who hangs up is one who says nothing more: the *)
(* turns' tasks go on.                                                     *)
(***************************************************************************)
EXTENDS Naturals

CONSTANTS
  Turns,       \* the final transcripts of the call
  MaxVersion,  \* bound: the last turn version of the call
  Utterances,  \* bound of Speech; each turn speaks at most once
  None         \* whose reply the greeting is

ASSUME TurnsAssumption == None \notin Turns
ASSUME MaxVersionAssumption == MaxVersion \in Nat \ {0}
ASSUME UtterancesAssumption == Utterances \in Nat \ {0}

VARIABLES
  version, tag, outcome,  \* the turn manager's gate, a call for each turn
  current, quiet, dones,  \* the streamer's facade
  busy,                   \* the detector's _agent_busy
  stage,                  \* how far the _run_turn task of each transcript has come
  gate,                   \* `version` in _run_turn: read when the task starts
  sayer,                  \* the turn whose reply is the current utterance
  born                    \* history: the version once each transcript had been heard

gateVars == <<version, tag, outcome>>
speechVars == <<current, quiet, dones>>
callVars == <<stage, gate, sayer, born>>
vars == <<gateVars, speechVars, busy, callVars>>

Gate == INSTANCE TurnGate WITH Calls <- Turns

\* The audio itself goes from the streamer to the browser past this state.
TTS == INSTANCE Speech WITH heard <- <<>>

Stages == {"none", "created", "thinking", "calling", "spoken", "dropped", "failed"}

TypeOK ==
  /\ version \in 1..MaxVersion
  /\ tag \in [Turns -> 0..MaxVersion]
  /\ outcome \in [Turns -> Gate!Outcomes]
  /\ current \in 1..Utterances
  /\ quiet \in BOOLEAN /\ busy \in BOOLEAN
  /\ dones \in [0..Utterances -> {0, 1}]
  /\ stage \in [Turns -> Stages]
  /\ gate \in [Turns -> 0..MaxVersion]
  /\ sayer \in Turns \cup {None}
  /\ born \in [Turns -> 0..MaxVersion]

\* start() has run: no audio or text of the user is taken before it speaks the
\* greeting.
Init ==
  /\ Gate!GateInit
  /\ current = 1 /\ quiet = FALSE
  /\ dones = [u \in 0..Utterances |-> 0]
  /\ busy = TRUE
  /\ stage = [t \in Turns |-> "none"]
  /\ gate = [t \in Turns |-> 0]
  /\ sayer = None
  /\ born = [t \in Turns |-> 0]

MoveTo(t, s) == stage' = [stage EXCEPT ![t] = s]

set_agent_busy(b) == busy' = b

-----------------------------------------------------------------------------
(* The user.                                                               *)

\* TurnManager.on_interrupt, the flag being cleared first.
interrupt ==
  /\ version < MaxVersion
  /\ Gate!NewTurn
  /\ set_agent_busy(FALSE)
  /\ TTS!Cancel

\* The detector: speech while the agent is busy interrupts it.
on_user_speech == IF busy THEN interrupt ELSE UNCHANGED <<gateVars, speechVars, busy>>

\* A partial transcript.
HearPartial == on_user_speech /\ UNCHANGED callVars

\* A final transcript: the turn's task is created whether or not it has just
\* interrupted.
HearFinal(t) ==
  /\ stage[t] = "none"
  /\ on_user_speech
  /\ MoveTo(t, "created")
  /\ born' = [born EXCEPT ![t] = version']
  /\ UNCHANGED <<gate, sayer>>

-----------------------------------------------------------------------------
(* A turn.                                                                 *)

\* Mutants: the version the transcript was heard in, before it interrupted; a
\* version that has not been read.
VersionUnread(t) == None
VersionBeforeSpeech(t) == IF born[t] > 1 THEN born[t] - 1 ELSE born[t]

VersionAtStart(t) == version

StartTurn(t) ==
  /\ stage[t] = "created"
  /\ gate' = [gate EXCEPT ![t] = VersionAtStart(t)]
  /\ MoveTo(t, "thinking")
  /\ UNCHANGED <<gateVars, speechVars, busy, sayer, born>>

\* There is no LLM, or it raises.
ThinkingFails(t) ==
  /\ stage[t] = "thinking"
  /\ MoveTo(t, "failed")
  /\ UNCHANGED <<gateVars, speechVars, busy, gate, sayer, born>>

\* The LLM decides on a tool: it is dispatched, whatever was said meanwhile.
CallTool(t) ==
  /\ stage[t] = "thinking"
  /\ set_agent_busy(TRUE)
  /\ Gate!Open(t)
  /\ MoveTo(t, "calling")
  /\ UNCHANGED <<speechVars, gate, sayer, born>>

speak(t) ==
  /\ TTS!Speak
  /\ sayer' = t
  /\ MoveTo(t, "spoken")

\* Mutants: the reply is spoken without the busy flag, or however late it is.
speakUnguarded(t) == speak(t) /\ UNCHANGED busy
alwaysCurrent(t) == TRUE

\* "not interrupted while thinking".
notInterrupted(t) == version = gate[t]

speakReply(t) == set_agent_busy(TRUE) /\ speak(t)

\* The LLM answers with text.
Reply(t) ==
  /\ stage[t] = "thinking"
  /\ notInterrupted(t)
  /\ speakReply(t)
  /\ UNCHANGED <<gateVars, gate, born>>

DropReply(t) ==
  /\ stage[t] = "thinking"
  /\ ~notInterrupted(t)
  /\ MoveTo(t, "dropped")
  /\ UNCHANGED <<gateVars, speechVars, busy, gate, sayer, born>>

\* The tool's result reaches the gate: found stale, or fresh and applied (unless
\* the commit raises); or the tool raises.
ToolResult(t) ==
  /\ stage[t] = "calling"
  /\ \/ Gate!Accept(t) /\ (UNCHANGED stage \/ MoveTo(t, "failed"))
     \/ (Gate!Reject(t) \/ Gate!Lose(t)) /\ UNCHANGED stage
  /\ UNCHANGED <<speechVars, busy, gate, sayer, born>>

\* Mutant: a confirmation the LLM fails to word is never spoken.
confirmNever(t) == FALSE /\ speak(t)

\* _confirm_tool has worded the confirmation, or fallen back on its template.
_confirm_tool(t) == speak(t)

Confirm(t) ==
  /\ stage[t] = "calling" /\ outcome[t] = "accepted"
  /\ _confirm_tool(t)
  /\ UNCHANGED <<gateVars, busy, gate, born>>

-----------------------------------------------------------------------------
\* The streamer calls on_done.
_speech_done == TTS!Done /\ set_agent_busy(FALSE)

SpeechDone == _speech_done /\ UNCHANGED <<gateVars, callVars>>

TurnStep(t) ==
  \/ StartTurn(t) \/ ThinkingFails(t) \/ CallTool(t) \/ Reply(t) \/ DropReply(t)
  \/ ToolResult(t) \/ Confirm(t)

Next ==
  \/ HearPartial \/ SpeechDone
  \/ \E t \in Turns : HearFinal(t) \/ TurnStep(t)

\* The loop runs what is ready, the LLM and the tools answer or raise, and every
\* utterance ends (EveryUtteranceEnds of RimeStreamer).
Fairness == WF_vars(SpeechDone) /\ \A t \in Turns : WF_vars(TurnStep(t))

Spec == Init /\ [][Next]_vars /\ Fairness

-----------------------------------------------------------------------------
(* Properties.                                                             *)

Speaking == ~quiet /\ dones[current] = 0

\* The current utterance confirms a tool's result; else it is a reply of the LLM,
\* or the greeting.
Confirming == sayer # None /\ outcome[sayer] # "none"

\* "an interruption while the LLM is thinking cancels the reply": no reply is being
\* spoken that was thought of before the latest interruption.
RepliesAreCurrent ==
  Speaking /\ ~Confirming => version = IF sayer = None THEN 1 ELSE gate[sayer]

\* "barge-in works during this reply": however turns overlap, speech of the user
\* interrupts a reply that is being spoken.
RepliesCanBeInterrupted == Speaking /\ ~Confirming => busy

\* "stop AND take the new request": a reply is dropped only if the user interrupted
\* after the transcript it answers, never by the transcript itself.
OwnSpeechDropsNoReply ==
  \A t \in Turns : stage[t] = "dropped" => version > born[t]

\* Every final transcript comes to an end: a reply or a confirmation is spoken, or
\* it is found outdated, or the LLM or the tool raised.
Ended(t) == stage[t] \in {"spoken", "dropped", "failed"} \/ outcome[t] \in {"rejected", "lost"}

EveryTurnEnds == \A t \in Turns : stage[t] = "created" ~> Ended(t)
=============================================================================
