---------------------------- MODULE Conversation ----------------------------
(***************************************************************************)
(* What the turns of a call tell each other: the history of                *)
(* VoiceCallSession (backend/voice.py), which they append to on the event  *)
(* loop and which the LLM's calls (agent/llm_tools.py) read in threads of  *)
(* their own.  Turns overlap.                                              *)
(*                                                                         *)
(* Between two awaits the loop runs one task, but a thread may read        *)
(* between any two appends of it.  Versions, tools and speech are          *)
(* VoiceCall's: here a reply may be spoken or not, and a tool may end in   *)
(* any way.                                                                *)
(***************************************************************************)
EXTENDS Naturals, Sequences

CONSTANTS
  Turns,       \* the final transcripts of the call
  MAX_HISTORY  \* the entries a prompt quotes

ASSUME MaxHistoryAssumption == MAX_HISTORY \in Nat \ {0}

VARIABLES
  stage,    \* how far _run_turn has come
  history,  \* VoiceCallSession.history
  prompt,   \* the entries that the last LLM call of each turn quotes
  known     \* history: the length of `history` when that call was begun

vars == <<stage, history, prompt, known>>

Entries == {"transcript", "reply", "result"} \X Turns

Stages == {"none", "asking", "thinking", "telling", "calling", "fresh", "wording", "ended"}

TypeOK ==
  /\ stage \in [Turns -> Stages]
  /\ history \in Seq(Entries)
  /\ prompt \in [Turns -> Seq(Entries)]
  /\ \A t \in Turns : Len(prompt[t]) <= MAX_HISTORY
  /\ known \in [Turns -> Nat]

Init ==
  /\ stage = [t \in Turns |-> "none"]
  /\ history = <<>>
  /\ prompt = [t \in Turns |-> <<>>]
  /\ known = [t \in Turns |-> 0]

MoveTo(t, s) == stage' = [stage EXCEPT ![t] = s]

Tell(kind, t) == history' = Append(history, <<kind, t>>)

\* asyncio.to_thread: the history is handed over as it is, not as a copy.
ToThread(t) == known' = [known EXCEPT ![t] = Len(history)]

-----------------------------------------------------------------------------
(* The threads.                                                            *)

Newest(s, n) == SubSeq(s, IF Len(s) < n THEN 1 ELSE Len(s) - n + 1, Len(s))

\* Mutants: one entry too many is quoted; the oldest entries are.
trimLate == Newest(history, MAX_HISTORY + 1)
trimNewest == SubSeq(history, 1, IF Len(history) < MAX_HISTORY THEN Len(history) ELSE MAX_HISTORY)

_trim == Newest(history, MAX_HISTORY)

\* conversation_turn or confirmation_turn has begun in its thread.
Read(t) ==
  /\ \/ stage[t] = "asking" /\ MoveTo(t, "thinking")
     \/ stage[t] = "fresh" /\ MoveTo(t, "wording")
  /\ prompt' = [prompt EXCEPT ![t] = _trim]
  /\ UNCHANGED <<history, known>>

-----------------------------------------------------------------------------
(* The loop.                                                               *)

\* Mutant: there is an await between the appends of an exchange.
awaitsBetween == TRUE

\* No task is between the two appends of an exchange.
loopFree == \A t \in Turns : stage[t] # "telling"

\* A final transcript: its task goes straight to its thread.
Hear(t) ==
  /\ stage[t] = "none" /\ loopFree
  /\ MoveTo(t, "asking") /\ ToThread(t)
  /\ UNCHANGED <<history, prompt>>

\* There is no LLM, or the call raises: the transcript is forgotten.
ThinkingFails(t) ==
  /\ stage[t] \in {"asking", "thinking"} /\ loopFree
  /\ MoveTo(t, "ended")
  /\ UNCHANGED <<history, prompt, known>>

\* Mutant: the transcript is not told when a tool is called.
tellNothing(t) == UNCHANGED history

tellRequest(t) == Tell("transcript", t)

\* The LLM decides on a tool, which is dispatched.
CallTool(t) ==
  /\ stage[t] = "thinking" /\ loopFree
  /\ tellRequest(t)
  /\ MoveTo(t, "calling")
  /\ UNCHANGED <<prompt, known>>

\* The LLM answers with text.
TellTranscript(t) ==
  /\ stage[t] = "thinking" /\ loopFree
  /\ Tell("transcript", t)
  /\ MoveTo(t, "telling")
  /\ UNCHANGED <<prompt, known>>

\* The reply is told, whether it is then spoken or dropped.
TellReply(t) ==
  /\ stage[t] = "telling"
  /\ Tell("reply", t)
  /\ MoveTo(t, "ended")
  /\ UNCHANGED <<prompt, known>>

\* The result is fresh: it is to be confirmed.
ToolAnswers(t) ==
  /\ stage[t] = "calling" /\ loopFree
  /\ MoveTo(t, "fresh") /\ ToThread(t)
  /\ UNCHANGED <<history, prompt>>

\* The result is stale, or the tool or its commit raises.
ToolEnds(t) ==
  /\ stage[t] = "calling" /\ loopFree
  /\ MoveTo(t, "ended")
  /\ UNCHANGED <<history, prompt, known>>

\* The confirmation is worded: the result is told, not the words.
TellResult(t) ==
  /\ stage[t] = "wording" /\ loopFree
  /\ Tell("result", t)
  /\ MoveTo(t, "ended")
  /\ UNCHANGED <<prompt, known>>

\* The call raises: the template is spoken, and nothing told.
WordingFails(t) ==
  /\ stage[t] \in {"fresh", "wording"} /\ loopFree
  /\ MoveTo(t, "ended")
  /\ UNCHANGED <<history, prompt, known>>

-----------------------------------------------------------------------------
TurnStep(t) ==
  \/ Read(t) \/ Hear(t) \/ ThinkingFails(t) \/ CallTool(t) \/ TellTranscript(t)
  \/ TellReply(t) \/ ToolAnswers(t) \/ ToolEnds(t) \/ TellResult(t) \/ WordingFails(t)

Next == \E t \in Turns : TurnStep(t)

Spec == Init /\ [][Next]_vars

-----------------------------------------------------------------------------
(* Properties.                                                             *)

Answered(t) == \E i \in DOMAIN history : history[i] = <<"reply", t>>

\* However turns overlap, a reply stands right behind the transcript it answers, and a
\* prompt quotes an answered transcript without its reply only as the last it quotes.
ExchangesAreWhole ==
  /\ \A i \in DOMAIN history :
       history[i][1] = "reply" => i > 1 /\ history[i - 1] = <<"transcript", history[i][2]>>
  /\ \A t, u \in Turns : \A i \in 1..(Len(prompt[t]) - 1) :
       prompt[t][i] = <<"transcript", u>> /\ Answered(u) => prompt[t][i + 1] = <<"reply", u>>

\* What was in the history before the LLM was called is in the prompt, but for what
\* newer entries have pushed out of it: nothing a turn has told is lost to later ones,
\* and a confirmation is worded with the request at hand.
PromptsAreCurrent ==
  \A t \in Turns : stage[t] \in {"thinking", "wording"} =>
    \E n \in known[t]..Len(history) : prompt[t] = Newest(SubSeq(history, 1, n), MAX_HISTORY)

\* The result of a tool stands behind the transcript that asked for it, and only there.
ResultsFollowRequests ==
  \A j \in DOMAIN history : history[j][1] = "result" =>
    \E i \in 1..(j - 1) : history[i] = <<"transcript", history[j][2]>>
=============================================================================
