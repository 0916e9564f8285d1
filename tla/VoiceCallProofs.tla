--------------------------- MODULE VoiceCallProofs ---------------------------
(* Theorems about VoiceCall and their proofs. *)
EXTENDS VoiceCall, FiniteSetTheorems, TLAPS

-----------------------------------------------------------------------------
(* The inductive invariant.                                                *)

\* Whoever speaks has come to its end: nothing else will happen to its turn.
SayerSpoken == sayer # None => stage[sayer] = "spoken"

\* A turn's versions never run ahead, and it reads its own after its transcript's.
VersionsGrow ==
  \A t \in Turns :
    /\ born[t] <= version /\ gate[t] <= version
    /\ stage[t] \notin {"none", "created"} => born[t] <= gate[t]

IInv ==
  /\ TypeOK /\ SayerSpoken /\ VersionsGrow
  /\ RepliesAreCurrent /\ RepliesCanBeInterrupted /\ OwnSpeechDropsNoReply

LEMMA InitIInv == Init => IInv
<1> SUFFICES ASSUME Init PROVE IInv
  OBVIOUS
<1>1. TypeOK
  <2>1. /\ version \in 1..MaxVersion /\ tag \in [Turns -> 0..MaxVersion]
        /\ outcome \in [Turns -> Gate!Outcomes]
    BY MaxVersionAssumption DEF Init, Gate!GateInit, Gate!Outcomes
  <2>2. current \in 1..Utterances /\ dones \in [0..Utterances -> {0, 1}]
    <3>1. current = 1 /\ dones = [u \in 0..Utterances |-> 0]
      BY DEF Init
    <3> QED
      BY <3>1, UtterancesAssumption
  <2>3. quiet \in BOOLEAN /\ busy \in BOOLEAN
    BY DEF Init
  <2>4. /\ stage \in [Turns -> Stages] /\ sayer \in Turns \cup {None}
        /\ gate \in [Turns -> 0..MaxVersion] /\ born \in [Turns -> 0..MaxVersion]
    BY MaxVersionAssumption DEF Init, Stages
  <2> QED
    BY <2>1, <2>2, <2>3, <2>4 DEF TypeOK
<1> QED
  BY <1>1 DEF Init, IInv, SayerSpoken, VersionsGrow, RepliesAreCurrent, Gate!GateInit,
              RepliesCanBeInterrupted, OwnSpeechDropsNoReply

LEMMA VersionTypes ==
  ASSUME TypeOK
  PROVE  /\ version \in 1..MaxVersion /\ version \in Nat
         /\ \A t \in Turns : gate[t] \in Nat /\ born[t] \in Nat
BY MaxVersionAssumption DEF TypeOK

-----------------------------------------------------------------------------
(* Each step keeps the invariant.                                          *)

\* What speech of the user does: the version moves only as what is spoken is cut off.
LEMMA SpeechOfUser ==
  ASSUME IInv, on_user_speech
  PROVE  /\ version' \in 1..MaxVersion /\ version <= version'
         /\ version' # version => quiet'
         /\ quiet' \in BOOLEAN /\ busy' \in BOOLEAN
         /\ ~quiet' => ~quiet /\ (busy => busy')
         /\ tag' = tag /\ outcome' = outcome /\ current' = current /\ dones' = dones
<1>1. CASE busy
  <2>1. /\ version < MaxVersion /\ version' = version + 1 /\ tag' = tag /\ outcome' = outcome
        /\ quiet' = TRUE /\ current' = current /\ dones' = dones /\ busy' = FALSE
    BY <1>1 DEF on_user_speech, interrupt, Gate!NewTurn, TTS!Cancel, set_agent_busy
  <2>2. version' \in 1..MaxVersion /\ version <= version'
    BY <2>1, MaxVersionAssumption, VersionTypes DEF IInv
  <2> QED
    BY <2>1, <2>2
<1>2. CASE ~busy
  <2>1. /\ version' = version /\ tag' = tag /\ outcome' = outcome
        /\ current' = current /\ quiet' = quiet /\ dones' = dones /\ busy' = busy
    BY <1>2 DEF on_user_speech, gateVars, speechVars
  <2>2. version \in 1..MaxVersion /\ quiet \in BOOLEAN /\ busy \in BOOLEAN
    BY DEF IInv, TypeOK
  <2> QED
    BY <1>2, <2>1, <2>2, MaxVersionAssumption
<1> QED
  BY <1>1, <1>2

LEMMA HearKeeps ==
  ASSUME IInv, HearPartial \/ \E t \in Turns : HearFinal(t)
  PROVE  IInv'
<1>1. on_user_speech /\ gate' = gate /\ sayer' = sayer
  BY DEF HearPartial, HearFinal, callVars
<1>2. \/ stage' = stage /\ born' = born
      \/ \E t \in Turns : /\ stage[t] = "none" /\ stage' = [stage EXCEPT ![t] = "created"]
                          /\ born' = [born EXCEPT ![t] = version']
  BY DEF HearPartial, HearFinal, MoveTo, callVars
<1>3. /\ version' \in 1..MaxVersion /\ version <= version'
      /\ version' # version => quiet'
      /\ quiet' \in BOOLEAN /\ busy' \in BOOLEAN
      /\ ~quiet' => ~quiet /\ (busy => busy')
      /\ tag' = tag /\ outcome' = outcome /\ current' = current /\ dones' = dones
  BY <1>1, SpeechOfUser
<1>4. TypeOK'
  <2>1. stage' \in [Turns -> Stages]
    BY <1>2 DEF IInv, TypeOK, Stages
  <2>2. born' \in [Turns -> 0..MaxVersion]
    <3>1. version' \in 0..MaxVersion
      BY <1>3, MaxVersionAssumption
    <3> QED
      BY <1>2, <3>1 DEF IInv, TypeOK
  <2> QED
    BY <1>1, <1>3, <2>1, <2>2 DEF IInv, TypeOK
<1>5. SayerSpoken'
  BY <1>1, <1>2 DEF IInv, TypeOK, SayerSpoken
<1>6. VersionsGrow' /\ OwnSpeechDropsNoReply'
  <2> SUFFICES ASSUME NEW t \in Turns
               PROVE  /\ born'[t] <= version' /\ gate'[t] <= version'
                      /\ stage'[t] \notin {"none", "created"} => born'[t] <= gate'[t]
                      /\ stage'[t] = "dropped" => version' > born'[t]
    BY DEF VersionsGrow, OwnSpeechDropsNoReply
  <2>1. \/ stage'[t] = stage[t] /\ born'[t] = born[t]
        \/ stage'[t] = "created" /\ born'[t] = version'
    BY <1>2 DEF IInv, TypeOK
  <2>2. /\ version \in Nat /\ version' \in Nat /\ gate[t] \in Nat /\ born[t] \in Nat
        /\ gate'[t] = gate[t]
    BY <1>1, <1>3, VersionTypes DEF IInv
  <2> QED
    BY <1>3, <2>1, <2>2 DEF IInv, VersionsGrow, OwnSpeechDropsNoReply
<1>7. Speaking' => Speaking /\ version' = version /\ (busy => busy')
  BY <1>3 DEF Speaking
<1>8. Confirming' = Confirming
  BY <1>1, <1>3 DEF Confirming
<1> QED
  BY <1>1, <1>4, <1>5, <1>6, <1>7, <1>8
     DEF IInv, RepliesAreCurrent, RepliesCanBeInterrupted

\* A step of a turn that is silent.
LEMMA SilentKeeps ==
  ASSUME IInv, NEW t \in Turns,
         StartTurn(t) \/ ThinkingFails(t) \/ CallTool(t) \/ DropReply(t) \/ ToolResult(t)
  PROVE  IInv'
<1>1. /\ version' = version /\ current' = current /\ quiet' = quiet /\ dones' = dones
      /\ sayer' = sayer /\ born' = born /\ busy' \in {busy, TRUE}
  BY DEF StartTurn, ThinkingFails, CallTool, DropReply, ToolResult, Gate!Open, Gate!Accept,
         Gate!Reject, Gate!Lose, Gate!Decide, gateVars, speechVars, set_agent_busy
<1>2. PICK s \in {"thinking", "failed", "calling", "dropped"} :
        stage' = [stage EXCEPT ![t] = s]
  <2>1. CASE StartTurn(t) \/ ThinkingFails(t) \/ CallTool(t) \/ DropReply(t)
    BY <2>1 DEF StartTurn, ThinkingFails, CallTool, DropReply, MoveTo
  <2>2. CASE ToolResult(t)
    <3>1. stage[t] = "calling" /\ (stage' = stage \/ stage' = [stage EXCEPT ![t] = "failed"])
      BY <2>2 DEF ToolResult, MoveTo
    <3> QED
      BY <3>1 DEF IInv, TypeOK
  <2> QED
    BY <2>1, <2>2
<1>3. gate' = gate \/ (StartTurn(t) /\ gate' = [gate EXCEPT ![t] = version])
  BY DEF StartTurn, ThinkingFails, CallTool, DropReply, ToolResult, VersionAtStart
<1>4. /\ tag' = tag \/ tag' = [tag EXCEPT ![t] = version]
      /\ \/ outcome' = outcome
         \/ \E o \in Gate!Outcomes \ {"none"} : outcome' = [outcome EXCEPT ![t] = o]
  BY DEF StartTurn, ThinkingFails, CallTool, DropReply, ToolResult, Gate!Open, Gate!Accept,
         Gate!Reject, Gate!Lose, Gate!Decide, Gate!Outcomes, gateVars
<1>5. stage[t] \in {"created", "thinking", "calling"} /\ (StartTurn(t) => stage[t] = "created")
  BY DEF StartTurn, ThinkingFails, CallTool, DropReply, ToolResult
<1>6. TypeOK'
  <2>1. gate' \in [Turns -> 0..MaxVersion] /\ tag' \in [Turns -> 0..MaxVersion]
    <3>1. version \in 0..MaxVersion
      BY MaxVersionAssumption DEF IInv, TypeOK
    <3> QED
      BY <1>3, <1>4, <3>1 DEF IInv, TypeOK
  <2>2. outcome' \in [Turns -> Gate!Outcomes]
    BY <1>4 DEF IInv, TypeOK
  <2>3. stage' \in [Turns -> Stages] /\ busy' \in BOOLEAN
    BY <1>1, <1>2 DEF IInv, TypeOK, Stages
  <2> QED
    BY <1>1, <2>1, <2>2, <2>3 DEF IInv, TypeOK
<1>7. sayer # t /\ SayerSpoken'
  <2>1. t # None /\ sayer # t
    BY <1>5, TurnsAssumption DEF IInv, SayerSpoken
  <2>2. sayer # None => stage'[sayer] = stage[sayer]
    BY <1>2, <2>1 DEF IInv, TypeOK
  <2> QED
    BY <1>1, <2>1, <2>2 DEF IInv, SayerSpoken
<1>8. VersionsGrow'
  <2> SUFFICES ASSUME NEW u \in Turns
               PROVE  /\ born'[u] <= version' /\ gate'[u] <= version'
                      /\ stage'[u] \notin {"none", "created"} => born'[u] <= gate'[u]
    BY DEF VersionsGrow
  <2>1. version \in Nat /\ gate[u] \in Nat /\ born[u] \in Nat
    BY VersionTypes DEF IInv
  <2>2. gate'[u] = gate[u] \/ gate'[u] = version
    BY <1>3 DEF IInv, TypeOK
  <2>3. \/ stage'[u] = stage[u]
        \/ stage[u] # "created"
        \/ gate'[u] = version
    <3>1. CASE u # t
      BY <1>2, <3>1 DEF IInv, TypeOK
    <3>2. CASE u = t /\ stage[t] = "created"
      <4>1. StartTurn(t) => gate'[t] = version
        BY DEF StartTurn, VersionAtStart, IInv, TypeOK
      <4>2. StartTurn(t)
        BY <3>2 DEF ThinkingFails, CallTool, DropReply, ToolResult
      <4> QED
        BY <3>2, <4>1, <4>2
    <3> QED
      BY <3>1, <3>2
  <2>4. stage[u] = "none" => stage'[u] = "none"
    BY <1>2, <1>5 DEF IInv, TypeOK
  <2> QED
    BY <1>1, <2>1, <2>2, <2>3, <2>4 DEF IInv, VersionsGrow
<1>9. OwnSpeechDropsNoReply'
  <2>1. s = "dropped" => version # gate[t] /\ stage[t] = "thinking"
    BY <1>2, <1>5 DEF StartTurn, ThinkingFails, CallTool, DropReply, ToolResult, MoveTo,
                      notInterrupted, IInv, TypeOK
  <2>2. s = "dropped" => version > born[t]
    <3>1. version \in Nat /\ gate[t] \in Nat /\ born[t] \in Nat
      BY VersionTypes DEF IInv
    <3> QED
      BY <2>1, <3>1 DEF IInv, VersionsGrow
  <2> QED
    BY <1>1, <1>2, <2>2 DEF IInv, TypeOK, OwnSpeechDropsNoReply
<1>10. /\ Speaking' = Speaking /\ Confirming' = Confirming
       /\ sayer # None => gate'[sayer] = gate[sayer]
  BY <1>1, <1>3, <1>4, <1>7 DEF IInv, TypeOK, Speaking, Confirming
<1>11. RepliesAreCurrent' /\ RepliesCanBeInterrupted'
  BY <1>1, <1>10 DEF IInv, RepliesAreCurrent, RepliesCanBeInterrupted
<1> QED
  BY <1>6, <1>7, <1>8, <1>9, <1>11 DEF IInv

\* A step of a turn that speaks: a reply is current and raises the flag, and what is not
\* a reply confirms a result.
LEMMA SpokenKeeps ==
  ASSUME IInv, NEW t \in Turns, Reply(t) \/ Confirm(t)
  PROVE  IInv'
<1>1. /\ version' = version /\ tag' = tag /\ outcome' = outcome
      /\ gate' = gate /\ born' = born
      /\ current < Utterances /\ current' = current + 1 /\ ~quiet' /\ dones' = dones
      /\ sayer' = t /\ stage' = [stage EXCEPT ![t] = "spoken"]
  BY DEF Reply, Confirm, speakReply, _confirm_tool, speak, TTS!Speak, MoveTo, gateVars
<1>2. \/ busy' /\ version = gate[t]
      \/ busy' = busy /\ outcome[t] = "accepted"
  BY DEF Reply, Confirm, speakReply, set_agent_busy, notInterrupted, _confirm_tool
<1>3. quiet' \in BOOLEAN /\ busy' \in BOOLEAN
  <2>1. CASE Reply(t)
    BY <2>1 DEF Reply, speakReply, speak, TTS!Speak, set_agent_busy
  <2>2. CASE Confirm(t)
    BY <2>2 DEF IInv, TypeOK, Confirm, _confirm_tool, speak, TTS!Speak
  <2> QED
    BY <2>1, <2>2
<1>4. TypeOK'
  BY <1>1, <1>3, UtterancesAssumption DEF IInv, TypeOK, Stages
<1>5. SayerSpoken' /\ VersionsGrow' /\ OwnSpeechDropsNoReply'
  <2>1. stage[t] \in {"thinking", "calling"}
    BY DEF Reply, Confirm
  <2> QED
    BY <1>1, <2>1 DEF IInv, TypeOK, SayerSpoken, VersionsGrow, OwnSpeechDropsNoReply
<1>6. RepliesAreCurrent' /\ RepliesCanBeInterrupted'
  BY <1>1, <1>2, TurnsAssumption DEF RepliesAreCurrent, RepliesCanBeInterrupted, Confirming
<1> QED
  BY <1>4, <1>5, <1>6 DEF IInv

\* The end of speech lowers the flag when nobody speaks any more.
LEMMA DoneKeeps ==
  ASSUME IInv, SpeechDone
  PROVE  IInv'
<1>1. /\ version' = version /\ tag' = tag /\ outcome' = outcome
      /\ stage' = stage /\ gate' = gate /\ sayer' = sayer /\ born' = born
      /\ current' = current /\ quiet' = quiet /\ dones' = [dones EXCEPT ![current] = 1]
      /\ busy' = FALSE
  BY DEF SpeechDone, _speech_done, TTS!Done, set_agent_busy, gateVars, callVars
<1>2. TypeOK' /\ dones'[current'] = 1
  <2>1. /\ dones' \in [0..Utterances -> {0, 1}] /\ dones'[current'] = 1
        /\ current' \in 1..Utterances
    BY <1>1, UtterancesAssumption DEF IInv, TypeOK
  <2>2. quiet' \in BOOLEAN /\ busy' \in BOOLEAN
    BY <1>1 DEF IInv, TypeOK
  <2> QED
    BY <1>1, <2>1, <2>2 DEF IInv, TypeOK
<1>3. ~Speaking'
  BY <1>2 DEF Speaking
<1> QED
  BY <1>1, <1>2, <1>3 DEF IInv, SayerSpoken, VersionsGrow, RepliesAreCurrent,
                          RepliesCanBeInterrupted, OwnSpeechDropsNoReply

LEMMA NextKeeps == IInv /\ [Next]_vars => IInv'
<1> SUFFICES ASSUME IInv, [Next]_vars PROVE IInv'
  OBVIOUS
<1>1. CASE UNCHANGED vars
  BY <1>1 DEF vars, gateVars, speechVars, callVars, IInv, TypeOK, SayerSpoken, VersionsGrow,
              RepliesAreCurrent, RepliesCanBeInterrupted, OwnSpeechDropsNoReply, Speaking,
              Confirming
<1>2. CASE Next
  BY <1>2, HearKeeps, SilentKeeps, SpokenKeeps, DoneKeeps DEF Next, TurnStep
<1> QED
  BY <1>1, <1>2

LEMMA Invariance == Spec => []IInv
  BY InitIInv, NextKeeps, PTL DEF Spec

-----------------------------------------------------------------------------
(* Theorems.                                                               *)

\* The type invariant.
THEOREM TypeCorrect == Spec => []TypeOK
<1>1. IInv => TypeOK
  BY DEF IInv
<1> QED
  BY <1>1, Invariance, PTL

\* An interruption cancels the replies that were being thought of.
THEOREM CurrentReplies == Spec => []RepliesAreCurrent
<1>1. IInv => RepliesAreCurrent
  BY DEF IInv
<1> QED
  BY <1>1, Invariance, PTL

\* The busy flag is up as long as a reply is spoken.
THEOREM InterruptibleReplies == Spec => []RepliesCanBeInterrupted
<1>1. IInv => RepliesCanBeInterrupted
  BY DEF IInv
<1> QED
  BY <1>1, Invariance, PTL

\* A transcript that interrupts is answered all the same.
THEOREM OwnSpeechKeepsReply == Spec => []OwnSpeechDropsNoReply
<1>1. IInv => OwnSpeechDropsNoReply
  BY DEF IInv
<1> QED
  BY <1>1, Invariance, PTL

-----------------------------------------------------------------------------
(* What a turn says, and how often.                                        *)

\* A turn that has dispatched a tool comes to speak only if its result was accepted.
SpokenAccepted == \A t \in Turns : stage[t] = "spoken" => outcome[t] \in {"none", "accepted"}

\* No call is opened before its turn calls a tool.
UncalledUnopened ==
  \A t \in Turns : stage[t] \in {"none", "created", "thinking"} => outcome[t] = "none"

SpokenTurns == {t \in Turns : stage[t] = "spoken"}

\* Each utterance but the greeting is the only one of its turn.
OneUtteranceEach == current = 1 + Cardinality(SpokenTurns)

Said == SpokenAccepted /\ UncalledUnopened /\ OneUtteranceEach

LEMMA InitSaid == Init => Said
<1> SUFFICES ASSUME Init PROVE Said
  OBVIOUS
<1>1. SpokenTurns = {}
  BY DEF Init, SpokenTurns
<1>2. OneUtteranceEach
  BY <1>1, FS_EmptySet DEF Init, OneUtteranceEach
<1> QED
  BY <1>2 DEF Init, Gate!GateInit, SpokenAccepted, UncalledUnopened, Said

\* The turns that have spoken are finitely many, if all turns are.
LEMMA SpokenFinite ==
  ASSUME IsFiniteSet(Turns)
  PROVE  /\ IsFiniteSet(SpokenTurns)
         /\ Cardinality(SpokenTurns) \in Nat /\ Cardinality(Turns) \in Nat
         /\ Cardinality(SpokenTurns) <= Cardinality(Turns)
         /\ SpokenTurns # Turns => Cardinality(SpokenTurns) < Cardinality(Turns)
<1>1. SpokenTurns \in SUBSET Turns
  BY DEF SpokenTurns
<1> QED
  BY <1>1, FS_Subset, FS_CardinalityType

LEMMA NextSaid == IsFiniteSet(Turns) /\ TypeOK /\ Said /\ [Next]_vars => Said'
<1> SUFFICES ASSUME IsFiniteSet(Turns), TypeOK, Said, [Next]_vars PROVE Said'
  OBVIOUS
<1> USE DEF TypeOK, Said
<1>1. ASSUME NEW t \in Turns, Reply(t) \/ Confirm(t) PROVE Said'
  <2>1. /\ current' = current + 1 /\ outcome' = outcome
        /\ stage' = [stage EXCEPT ![t] = "spoken"]
    BY <1>1 DEF Reply, Confirm, speakReply, _confirm_tool, speak, TTS!Speak, MoveTo, gateVars
  <2>2. \/ stage[t] = "thinking"
        \/ stage[t] = "calling" /\ outcome[t] = "accepted"
    BY <1>1 DEF Reply, Confirm
  <2>3. SpokenAccepted' /\ UncalledUnopened'
    BY <2>1, <2>2 DEF SpokenAccepted, UncalledUnopened
  <2>4. SpokenTurns' = SpokenTurns \cup {t} /\ t \notin SpokenTurns
    BY <2>1, <2>2 DEF SpokenTurns
  <2>5. Cardinality(SpokenTurns') = Cardinality(SpokenTurns) + 1
    BY <2>4, SpokenFinite, FS_AddElement
  <2>6. OneUtteranceEach'
    BY <2>1, <2>5, SpokenFinite DEF OneUtteranceEach
  <2> QED
    BY <2>3, <2>6
\* Nobody else speaks.
<1>2. ASSUME current' = current,
             \A t \in Turns : stage'[t] = "spoken" <=> stage[t] = "spoken",
             SpokenAccepted', UncalledUnopened'
      PROVE  Said'
  <2>1. SpokenTurns' = SpokenTurns
    BY <1>2 DEF SpokenTurns
  <2> QED
    BY <1>2, <2>1 DEF OneUtteranceEach
<1>3. CASE HearPartial \/ SpeechDone \/ UNCHANGED vars
  <2>1. current' = current /\ outcome' = outcome /\ stage' = stage
    BY <1>3 DEF HearPartial, SpeechDone, _speech_done, on_user_speech, interrupt, TTS!Cancel,
                TTS!Done, Gate!NewTurn, vars, gateVars, speechVars, callVars
  <2> QED
    BY <1>2, <2>1 DEF SpokenAccepted, UncalledUnopened
<1>4. ASSUME NEW t \in Turns, HearFinal(t) PROVE Said'
  <2>1. /\ current' = current /\ outcome' = outcome
        /\ stage[t] = "none" /\ stage' = [stage EXCEPT ![t] = "created"]
    BY <1>4 DEF HearFinal, on_user_speech, interrupt, TTS!Cancel, Gate!NewTurn, MoveTo,
                gateVars, speechVars
  <2> QED
    BY <1>2, <2>1 DEF SpokenAccepted, UncalledUnopened
<1>5. ASSUME NEW t \in Turns, StartTurn(t) \/ ThinkingFails(t) \/ DropReply(t) PROVE Said'
  <2>1. /\ current' = current /\ outcome' = outcome
        /\ stage[t] \in {"created", "thinking"}
        /\ \E s \in {"thinking", "failed", "dropped"} : stage' = [stage EXCEPT ![t] = s]
    BY <1>5 DEF StartTurn, ThinkingFails, DropReply, MoveTo, gateVars, speechVars
  <2> QED
    BY <1>2, <2>1 DEF SpokenAccepted, UncalledUnopened
<1>6. ASSUME NEW t \in Turns, CallTool(t) PROVE Said'
  <2>1. /\ current' = current /\ stage[t] = "thinking"
        /\ stage' = [stage EXCEPT ![t] = "calling"]
        /\ outcome' = [outcome EXCEPT ![t] = "open"]
    BY <1>6 DEF CallTool, Gate!Open, MoveTo, speechVars
  <2> QED
    BY <1>2, <2>1 DEF SpokenAccepted, UncalledUnopened
<1>7. ASSUME NEW t \in Turns, ToolResult(t) PROVE Said'
  <2>1. /\ current' = current /\ stage[t] = "calling"
        /\ stage' = stage \/ stage' = [stage EXCEPT ![t] = "failed"]
        /\ \E o \in {"accepted", "rejected", "lost"} : outcome' = [outcome EXCEPT ![t] = o]
    BY <1>7 DEF ToolResult, Gate!Accept, Gate!Reject, Gate!Lose, Gate!Decide, MoveTo, speechVars
  <2> QED
    BY <1>2, <2>1 DEF SpokenAccepted, UncalledUnopened
<1> QED
  BY <1>1, <1>3, <1>4, <1>5, <1>6, <1>7 DEF Next, TurnStep

\* "the fresh tool result speaks via reply_hook; stale is silent": whoever is speaking
\* about a tool speaks of a result the turn manager has accepted, and a turn speaks once.
THEOREM StaleIsSilent ==
  ASSUME IsFiniteSet(Turns)
  PROVE  Spec => [](/\ Confirming => outcome[sayer] = "accepted"
                    /\ OneUtteranceEach)
<1>1. IInv /\ Said => (Confirming => outcome[sayer] = "accepted") /\ OneUtteranceEach
  BY DEF IInv, TypeOK, SayerSpoken, Said, SpokenAccepted, Confirming
<1>2. Spec => []Said
  <2>1. IInv => TypeOK
    BY DEF IInv
  <2> QED
    BY <2>1, InitSaid, NextSaid, Invariance, PTL DEF Spec
<1> QED
  BY <1>1, <1>2, Invariance, PTL

\* The bound on utterances costs no behaviour once there is one for the greeting and one
\* for each turn: nobody who has something to say is refused by it.
THEOREM BoundRefusesNobody ==
  ASSUME IsFiniteSet(Turns), Utterances > Cardinality(Turns)
  PROVE  Spec => [](\A t \in Turns : stage[t] # "spoken" => current < Utterances)
<1>1. OneUtteranceEach => \A t \in Turns : stage[t] # "spoken" => current < Utterances
  <2> SUFFICES ASSUME OneUtteranceEach, NEW t \in Turns, stage[t] # "spoken"
               PROVE  current < Utterances
    OBVIOUS
  <2>1. SpokenTurns # Turns
    BY DEF SpokenTurns
  <2> QED
    BY <2>1, SpokenFinite, UtterancesAssumption DEF OneUtteranceEach
<1>2. Spec => []OneUtteranceEach
  BY StaleIsSilent, PTL
<1> QED
  BY <1>1, <1>2, PTL
=============================================================================
