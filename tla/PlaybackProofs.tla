--------------------------- MODULE PlaybackProofs ---------------------------
(* Theorems about Playback and their proofs. *)
EXTENDS Playback, SequenceTheorems, TLAPS

-----------------------------------------------------------------------------
(* The inductive invariant.                                                *)

\* A cancel silences every utterance so far; Rime is sent no others.
SilencedKnown ==
  /\ silenced <= current /\ stream <= current
  /\ quiet => silenced = current

\* The byte that is carried is the first half of the sample Rime is in the middle of,
\* unless the text has been silenced: then there is none.
CarryMatches == ~late => carry = IF half /\ stream > silenced THEN stream ELSE None

\* FramesAligned, place by place.
AlignedOnTheWay ==
  ~late => /\ \A i \in 1..Len(underway) :
                underway[i].type = "audio" => underway[i].frame.aligned
           /\ \A i \in 1..Len(queue) : queue[i].aligned

\* An end that is reported as an interruption's is of a silenced utterance.
EndsKnown ==
  /\ hushed <= silenced
  /\ \A i \in 1..Len(underway) :
       underway[i].type = "speech_end" /\ underway[i].cancelled => underway[i].of <= silenced

IInv ==
  /\ TypeOK
  /\ gone => net = <<>>
  /\ SilencedKnown
  /\ CarryMatches
  /\ AlignedOnTheWay
  /\ EndsKnown
  /\ EndFollowsAudio

-----------------------------------------------------------------------------
(* The messages on their way are a sequence of which both ends move.       *)

LEMMA TailOf ==
  ASSUME NEW S, NEW s \in Seq(S), s # <<>>
  PROVE  /\ Head(s) = s[1] /\ Head(s) \in S
         /\ Tail(s) \in Seq(S)
         /\ Len(s) \in Nat /\ Len(s) > 0
         /\ Len(Tail(s)) = Len(s) - 1
         /\ \A i \in 1..Len(Tail(s)) : Tail(s)[i] = s[i + 1]
BY HeadTailProperties, EmptySeq

LEMMA WayEnters ==
  ASSUME NEW S, NEW a \in Seq(S), NEW b \in Seq(S), NEW e \in S
  PROVE  /\ Append(b, e) \in Seq(S)
         /\ Len(a \o Append(b, e)) = Len(a \o b) + 1
         /\ \A i \in 1..Len(a \o b) : (a \o Append(b, e))[i] = (a \o b)[i]
         /\ (a \o Append(b, e))[Len(a \o b) + 1] = e
<1>1. /\ Append(b, e) \in Seq(S) /\ Len(a) \in Nat /\ Len(b) \in Nat
      /\ Len(Append(b, e)) = Len(b) + 1
      /\ \A i \in 1..Len(b) : Append(b, e)[i] = b[i]
      /\ Append(b, e)[Len(b) + 1] = e
  BY AppendProperties, LenProperties
<1>2. /\ Len(a \o b) = Len(a) + Len(b)
      /\ \A i \in 1..Len(a) + Len(b) :
           (a \o b)[i] = IF i <= Len(a) THEN a[i] ELSE b[i - Len(a)]
  BY ConcatProperties
<1>3. /\ Len(a \o Append(b, e)) = Len(a) + Len(b) + 1
      /\ \A i \in 1..Len(a) + Len(b) + 1 :
           (a \o Append(b, e))[i] = IF i <= Len(a) THEN a[i] ELSE Append(b, e)[i - Len(a)]
  BY <1>1, ConcatProperties
<1> QED
  BY <1>1, <1>2, <1>3

LEMMA WayMoves ==
  ASSUME NEW S, NEW a \in Seq(S), NEW b \in Seq(S), b # <<>>
  PROVE  /\ Append(a, Head(b)) \in Seq(S)
         /\ Len(Append(a, Head(b)) \o Tail(b)) = Len(a \o b)
         /\ \A i \in 1..Len(a \o b) : (Append(a, Head(b)) \o Tail(b))[i] = (a \o b)[i]
<1>1. /\ Head(b) \in S /\ Head(b) = b[1] /\ Tail(b) \in Seq(S) /\ Len(a) \in Nat
      /\ Len(b) \in Nat /\ Len(Tail(b)) = Len(b) - 1 /\ Len(b) > 0
      /\ \A i \in 1..Len(b) - 1 : Tail(b)[i] = b[i + 1]
  BY TailOf, LenProperties
<1>2. /\ Append(a, Head(b)) \in Seq(S)
      /\ Len(Append(a, Head(b))) = Len(a) + 1
      /\ \A i \in 1..Len(a) : Append(a, Head(b))[i] = a[i]
      /\ Append(a, Head(b))[Len(a) + 1] = b[1]
  BY <1>1, AppendProperties
<1>3. /\ Len(a \o b) = Len(a) + Len(b)
      /\ \A i \in 1..Len(a) + Len(b) :
           (a \o b)[i] = IF i <= Len(a) THEN a[i] ELSE b[i - Len(a)]
  BY ConcatProperties
<1> DEFINE c == Append(a, Head(b))
<1>4. /\ Len(c \o Tail(b)) = Len(a) + Len(b)
      /\ \A i \in 1..Len(a) + Len(b) :
           (c \o Tail(b))[i] = IF i <= Len(a) + 1 THEN c[i] ELSE Tail(b)[i - (Len(a) + 1)]
  <2> HIDE DEF c
  <2>1. c \in Seq(S) /\ Len(c) = Len(a) + 1
    BY <1>2 DEF c
  <2>2. /\ Len(c \o Tail(b)) = Len(c) + Len(Tail(b))
        /\ \A i \in 1..Len(c) + Len(Tail(b)) :
             (c \o Tail(b))[i] = IF i <= Len(c) THEN c[i] ELSE Tail(b)[i - Len(c)]
    BY <1>1, <2>1, ConcatProperties, Zenon
  <2>3. Len(a) + Len(b) = Len(c) + Len(Tail(b))
    BY <1>1, <2>1
  <2> QED
    BY <2>1, <2>2, <2>3
<1> QED
  BY <1>1, <1>2, <1>3, <1>4

LEMMA WayLeaves ==
  ASSUME NEW S, NEW a \in Seq(S), NEW b \in Seq(S), a # <<>>
  PROVE  /\ Len(Tail(a) \o b) = Len(a \o b) - 1
         /\ \A i \in 1..Len(a \o b) - 1 : (Tail(a) \o b)[i] = (a \o b)[i + 1]
         /\ (a \o b)[1] = Head(a) /\ Len(a \o b) >= 1
<1>1. /\ Head(a) = a[1] /\ Tail(a) \in Seq(S) /\ Len(b) \in Nat
      /\ Len(a) \in Nat /\ Len(Tail(a)) = Len(a) - 1 /\ Len(a) > 0
      /\ \A i \in 1..Len(a) - 1 : Tail(a)[i] = a[i + 1]
  BY TailOf, LenProperties
<1>2. /\ Len(a \o b) = Len(a) + Len(b)
      /\ \A i \in 1..Len(a) + Len(b) :
           (a \o b)[i] = IF i <= Len(a) THEN a[i] ELSE b[i - Len(a)]
  BY ConcatProperties
<1>3. /\ Len(Tail(a) \o b) = Len(a) - 1 + Len(b)
      /\ \A i \in 1..Len(a) - 1 + Len(b) :
           (Tail(a) \o b)[i] = IF i <= Len(a) - 1 THEN Tail(a)[i] ELSE b[i - (Len(a) - 1)]
  BY <1>1, ConcatProperties
<1> QED
  BY <1>1, <1>2, <1>3

-----------------------------------------------------------------------------
(* The invariant holds initially, and the types always.                    *)

LEMMA InitIInv == Init => IInv
<1> SUFFICES ASSUME Init PROVE IInv
  OBVIOUS
<1> USE PlaybackAssumption, NoneIsNoToken DEF Init, PlayerInit
<1> DEFINE ready == [type |-> "ready"]
<1>1. /\ out = <<ready>> /\ net = <<>> /\ ready \in Message
      /\ out \in Seq(Message) /\ net \in Seq(Message) /\ queue \in Seq(Frame) /\ Len(queue) = 0
  BY DEF Message
<1>2. TypeOK
  <2>1. /\ current \in 1..Utterances /\ dones \in [Tokens -> {0, 1}]
        /\ stream \in Tokens /\ left \in 0..MaxChunks /\ said \in 0..MaxSaid
        /\ silenced \in Tokens /\ hushed \in Tokens /\ shown \in SUBSET Tokens
    BY DEF Tokens
  <2>2. /\ quiet \in BOOLEAN /\ busy \in BOOLEAN /\ half \in BOOLEAN /\ late \in BOOLEAN
        /\ gone \in BOOLEAN /\ agentSpeaking \in BOOLEAN /\ started \in BOOLEAN
        /\ carry \in Tokens \cup {None}
        /\ waited \in 0..EscapeAfter + 1 \cup {None}
    OBVIOUS
  <2> QED
    BY <1>1, <2>1, <2>2 DEF TypeOK
<1>3. /\ Len(underway) = 1 /\ underway[1] = ready
  BY <1>1, ConcatEmptySeq DEF underway
<1>4. SilencedKnown /\ CarryMatches
  BY DEF SilencedKnown, CarryMatches
<1>5. AlignedOnTheWay /\ EndsKnown /\ EndFollowsAudio
  BY <1>1, <1>3 DEF AlignedOnTheWay, EndsKnown, EndFollowsAudio
<1> QED
  BY <1>1, <1>2, <1>4, <1>5 DEF IInv

\* What the messages hold.
LEMMA MessageParts ==
  ASSUME NEW m \in Message
  PROVE  /\ m.type = "audio" => m.frame \in Frame
         /\ m.type = "speech_end" => m.of \in Tokens /\ m.cancelled \in BOOLEAN
BY DEF Message

LEMMA TypeStep == TypeOK /\ [Next]_vars => TypeOK'
<1> SUFFICES ASSUME TypeOK, [Next]_vars PROVE TypeOK'
  OBVIOUS
<1> USE PlaybackAssumption, NoneIsNoToken
<1>1. /\ 0 \in Tokens /\ \A n \in Tokens : n \in 0..Utterances
  BY DEF Tokens
<1>2. CASE Speak
  <2>1. current' \in 1..Utterances /\ UNCHANGED dones
    BY <1>2 DEF Speak, TTS!Speak, TypeOK
  <2> QED
    BY <1>2, <2>1 DEF Speak, TTS!Speak, TypeOK, rimeVars, pageVars, playerVars
<1>3. CASE CallTool
  BY <1>3 DEF CallTool, TypeOK, speechVars, rimeVars, pageVars, playerVars
<1>4. CASE HearUser
  <2>1. [type |-> "transcript"] \in Message
    BY DEF Message
  <2>2. out' \in Seq(Message)
    BY <1>4, <2>1, AppendProperties DEF HearUser, send_json_msg, TypeOK
  <2>3. /\ UNCHANGED <<current, dones>> /\ quiet' \in BOOLEAN
        /\ carry' \in Tokens \cup {None} /\ silenced' \in Tokens
    <3>1. current \in Tokens
      BY DEF TypeOK, Tokens
    <3> QED
      BY <1>4, <3>1 DEF HearUser, cancel, TTS!Cancel, TypeOK, speechVars
  <2>4. said' \in 0..MaxSaid
    BY <1>4 DEF HearUser, TypeOK
  <2> QED
    BY <1>4, <2>2, <2>3, <2>4 DEF HearUser, TypeOK, pageVars, playerVars
<1>5. CASE SpeechDone
  <2>1. [type |-> "speech_end", of |-> current, cancelled |-> quiet] \in Message
    BY DEF Message, TypeOK, Tokens
  <2>2. out' \in Seq(Message)
    BY <1>5, <2>1, AppendProperties DEF SpeechDone, sendEnd, send_json_msg, TypeOK
  <2>3. dones' \in [Tokens -> {0, 1}]
    BY <1>5 DEF SpeechDone, TTS!Done, TypeOK
  <2>4. UNCHANGED <<current, quiet>>
    BY <1>5 DEF SpeechDone, TTS!Done
  <2> QED
    BY <1>5, <2>2, <2>3, <2>4 DEF SpeechDone, TypeOK, rimeVars, pageVars, playerVars
<1>6. CASE NextText
  <2>1. stream' \in Tokens
    BY <1>6 DEF NextText, TypeOK, Tokens
  <2>2. left' \in 0..MaxChunks
    BY <1>6 DEF NextText
  <2> QED
    BY <1>6, <2>1, <2>2 DEF NextText, TypeOK, speechVars, pageVars, playerVars
<1>7. ASSUME NEW odd \in BOOLEAN, ReadChunk(odd) PROVE TypeOK'
  <2> DEFINE m == [type |-> "audio", frame |-> [of |-> stream, aligned |-> Aligned]]
  <2>1. Aligned \in BOOLEAN
    BY DEF Aligned, TypeOK
  <2>2. m \in Message
    BY <2>1 DEF Message, Frame, TypeOK
  <2>3. out' \in Seq(Message)
    <3>1. out \in Seq(Message) /\ Append(out, m) \in Seq(Message)
      BY <2>2, AppendProperties DEF TypeOK
    <3>2. out' = out \/ out' = Append(out, m)
      BY <1>7 DEF ReadChunk, send_audio
    <3> QED
      BY <3>1, <3>2, Zenon
  <2>4. carry' \in Tokens \cup {None}
    BY <1>7 DEF ReadChunk, TypeOK
  <2>5. half' \in BOOLEAN /\ late' \in BOOLEAN
    BY <1>7, Zenon DEF ReadChunk, TypeOK
  <2>6. left' \in 0..MaxChunks
    BY <1>7 DEF ReadChunk, TypeOK
  <2> QED
    BY <1>7, <2>3, <2>4, <2>5, <2>6 DEF ReadChunk, TypeOK, speechVars, pageVars, playerVars
<1>8. CASE Write
  <2>1. Head(out) \in Message /\ Tail(out) \in Seq(Message)
    BY <1>8, TailOf DEF Write, TypeOK
  <2>2. Append(net, Head(out)) \in Seq(Message)
    BY <2>1, AppendProperties DEF TypeOK
  <2> QED
    BY <1>8, <2>1, <2>2 DEF Write, TypeOK, speechVars, rimeVars, pageVars, playerVars
<1>9. CASE Page
  <2>1. PICK type : Receive(type)
    BY <1>9 DEF Page, ShowText, ShowEnd, ReceiveAudio
  <2>2. net' \in Seq(Message) /\ Head(net) \in Message
    BY <2>1, TailOf DEF Receive, TypeOK
  <2>3. /\ Head(net).type = "audio" => Head(net).frame \in Frame
        /\ Head(net).type = "speech_end" => Head(net).of \in Tokens
    BY <2>2, MessageParts
  <2>4. CASE ShowText
    BY <2>1, <2>2, <2>4 DEF ShowText, Receive, TypeOK, speechVars, rimeVars, playerVars
  <2>5. CASE ShowEnd
    BY <2>2, <2>3, <2>5 DEF ShowEnd, Receive, TypeOK, speechVars, rimeVars, playerVars
  <2>6. CASE ReceiveAudio
    <3>1. queue' \in Seq(Frame)
      BY <2>3, <2>6, AppendProperties DEF ReceiveAudio, Receive, TypeOK
    <3>2. waited' \in 0..EscapeAfter + 1 \cup {None}
      BY <2>6 DEF ReceiveAudio, clockStarted, TypeOK
    <3> QED
      BY <2>2, <2>6, <3>1, <3>2 DEF ReceiveAudio, Receive, TypeOK, speechVars, rimeVars
  <2> QED
    BY <1>9, <2>4, <2>5, <2>6 DEF Page
<1>10. CASE Play
  <2>1. queue' \in Seq(Frame)
    BY <1>10, TailOf DEF Play, TypeOK
  <2> QED
    BY <1>10, <2>1 DEF Play, TypeOK, speechVars, rimeVars, pageVars
<1>11. CASE Wait
  <2>1. waited' \in 0..EscapeAfter + 1 \cup {None}
    BY <1>11 DEF Wait, TypeOK
  <2> QED
    BY <1>11, <2>1 DEF Wait, TypeOK, speechVars, rimeVars, pageVars
<1>12. CASE HangUp
  BY <1>12, EmptySeq DEF HangUp, TypeOK, speechVars, rimeVars
<1>13. CASE UNCHANGED vars
  BY <1>13 DEF vars, TypeOK, speechVars, rimeVars, pageVars, playerVars
<1> QED
  BY <1>2, <1>3, <1>4, <1>5, <1>6, <1>7, <1>8, <1>9, <1>10, <1>11, <1>12, <1>13 DEF Next, Tick
-----------------------------------------------------------------------------
(* What a step does to the messages on their way.                          *)

\* A message that enters the queue in this step.
Entering(m) ==
  \/ m = [type |-> "transcript"]
  \/ m = [type |-> "speech_end", of |-> current, cancelled |-> quiet]
  \/ /\ m = [type |-> "audio", frame |-> [of |-> stream, aligned |-> Aligned]]
     /\ late' = (late \/ stream <= silenced)
     /\ UNCHANGED <<silenced, hushed>>

\* The messages underway are some of those that were, in their order, and then
\* perhaps a new one.
LEMMA WayStep ==
  ASSUME TypeOK, gone => net = <<>>, [Next]_vars
  PROVE  /\ Len(underway) \in Nat /\ Len(underway') \in Nat
         /\ \E n \in Nat : \A i \in 1..Len(underway') :
              \/ i + n <= Len(underway) /\ underway'[i] = underway[i + n]
              \/ i = Len(underway') /\ Entering(underway'[i])
<1>1. /\ out \in Seq(Message) /\ net \in Seq(Message) /\ out' \in Seq(Message)
      /\ net' \in Seq(Message)
  BY TypeStep DEF TypeOK
<1>2. Len(underway) \in Nat /\ Len(underway') \in Nat
  BY <1>1, ConcatProperties, LenProperties DEF underway
<1> DEFINE Shifted(n) ==
      \A i \in 1..Len(underway') :
        \/ i + n <= Len(underway) /\ underway'[i] = underway[i + n]
        \/ i = Len(underway') /\ Entering(underway'[i])
<1>3. CASE UNCHANGED <<out, net>>
  <2>1. underway' = underway
    BY <1>3 DEF underway
  <2> QED
    BY <1>2, <2>1
<1>4. ASSUME NEW m \in Message, out' = Append(out, m), net' = net, Entering(m) PROVE Shifted(0)
  <2>1. underway' = net \o Append(out, m)
    BY <1>4 DEF underway
  <2>2. /\ Len(underway') = Len(underway) + 1
        /\ \A i \in 1..Len(underway) : underway'[i] = underway[i]
        /\ underway'[Len(underway) + 1] = m
    BY <1>1, <2>1, WayEnters DEF underway
  <2> QED
    BY <1>2, <1>4, <2>2
<1>5. CASE HearUser
  <2>1. [type |-> "transcript"] \in Message /\ Entering([type |-> "transcript"])
    BY DEF Message, Entering
  <2> QED
    BY <1>2, <1>4, <1>5, <2>1 DEF HearUser, send_json_msg
<1>6. CASE SpeechDone
  <2> DEFINE m == [type |-> "speech_end", of |-> current, cancelled |-> quiet]
  <2>1. m \in Message /\ Entering(m)
    BY DEF Message, Entering, TypeOK, Tokens
  <2> QED
    BY <1>2, <1>4, <1>6, <2>1 DEF SpeechDone, sendEnd, send_json_msg
<1>7. ASSUME NEW odd \in BOOLEAN, ReadChunk(odd) PROVE \E n \in Nat : Shifted(n)
  <2> DEFINE m == [type |-> "audio", frame |-> [of |-> stream, aligned |-> Aligned]]
  <2>1. UNCHANGED net
    BY <1>7 DEF ReadChunk
  <2>2. CASE UNCHANGED out
    BY <1>3, <2>1, <2>2
  <2>3. CASE out' # out
    <3>1. /\ out' = Append(out, m)
          /\ late' = (late \/ stream <= silenced)
          /\ UNCHANGED <<silenced, hushed>>
      BY <1>7, <2>3 DEF ReadChunk, send_audio, pageVars
    <3>2. m \in Message
      BY DEF Message, Frame, Aligned, TypeOK
    <3>3. Entering(m)
      BY <3>1 DEF Entering
    <3> HIDE DEF m
    <3> QED
      BY <1>4, <2>1, <3>1, <3>2, <3>3
  <2> QED
    BY <2>2, <2>3
<1>8. CASE Write
  <2>1. out # <<>> /\ out' = Tail(out)
    BY <1>8 DEF Write
  <2>2. CASE gone
    <3>1. net = <<>> /\ net' = <<>>
      BY <1>8, <2>2 DEF Write
    <3>2. underway = out /\ underway' = Tail(out)
      BY <1>1, <2>1, <3>1, ConcatEmptySeq DEF underway
    <3>3. Shifted(1)
      BY <1>1, <2>1, <3>2, TailOf
    <3> QED
      BY <1>2, <3>3
  <2>3. CASE ~gone
    <3>1. underway' = Append(net, Head(out)) \o Tail(out)
      BY <1>8, <2>1, <2>3 DEF Write, underway
    <3>2. /\ Len(underway') = Len(underway)
          /\ \A i \in 1..Len(underway) : underway'[i] = underway[i]
      BY <1>1, <2>1, <3>1, WayMoves DEF underway
    <3>3. Shifted(0)
      BY <1>2, <3>2
    <3> QED
      BY <1>2, <3>3
  <2> QED
    BY <2>2, <2>3
<1>9. CASE Page
  <2>1. net # <<>> /\ net' = Tail(net) /\ out' = out
    BY <1>9 DEF Page, ShowText, ShowEnd, ReceiveAudio, Receive
  <2>2. underway' = Tail(net) \o out
    BY <2>1 DEF underway
  <2>3. /\ Len(underway') = Len(underway) - 1
        /\ \A i \in 1..Len(underway) - 1 : underway'[i] = underway[i + 1]
    BY <1>1, <2>1, <2>2, WayLeaves DEF underway
  <2>4. Shifted(1)
    BY <1>2, <2>3
  <2> QED
    BY <1>2, <2>4
<1>10. CASE HangUp
  <2>1. net' = <<>> /\ out' = out
    BY <1>10 DEF HangUp
  <2>2. underway' = out
    BY <1>1, <2>1, ConcatEmptySeq DEF underway
  <2>3. /\ Len(underway) = Len(net) + Len(out)
        /\ Len(net) \in Nat /\ Len(out) \in Nat
        /\ \A i \in 1..Len(net) + Len(out) :
             underway[i] = IF i <= Len(net) THEN net[i] ELSE out[i - Len(net)]
    BY <1>1, ConcatProperties, LenProperties DEF underway
  <2>4. Shifted(Len(net))
    BY <2>2, <2>3
  <2> QED
    BY <1>2, <2>3, <2>4
<1>11. CASE Speak \/ CallTool \/ NextText \/ Tick \/ UNCHANGED vars
  BY <1>3, <1>11 DEF Speak, CallTool, NextText, Tick, Play, Wait, vars
<1> QED
  BY <1>2, <1>5, <1>6, <1>7, <1>8, <1>9, <1>10, <1>11 DEF Next
-----------------------------------------------------------------------------
(* Each part of the invariant is preserved.                                *)

LEMMA SilencedStep ==
  TypeOK /\ SilencedKnown /\ [Next]_vars => SilencedKnown' /\ silenced <= silenced'
<1> SUFFICES ASSUME TypeOK, SilencedKnown, [Next]_vars
    PROVE  SilencedKnown' /\ silenced <= silenced'
  OBVIOUS
<1> USE PlaybackAssumption DEF SilencedKnown
<1>1. current \in Nat /\ silenced \in Nat /\ stream \in Nat
  BY DEF TypeOK, Tokens
<1>2. CASE Speak
  BY <1>1, <1>2 DEF Speak, TTS!Speak, rimeVars
<1>3. CASE HearUser
  BY <1>1, <1>3 DEF HearUser, cancel, TTS!Cancel, speechVars
<1>4. CASE SpeechDone
  BY <1>1, <1>4 DEF SpeechDone, TTS!Done, rimeVars
<1>5. CASE NextText
  BY <1>1, <1>5 DEF NextText, speechVars
<1>6. ASSUME NEW odd \in BOOLEAN, ReadChunk(odd) PROVE SilencedKnown' /\ silenced <= silenced'
  BY <1>1, <1>6 DEF ReadChunk, speechVars
<1>7. CASE CallTool \/ Write \/ Page \/ Tick \/ HangUp \/ UNCHANGED vars
  <2>1. UNCHANGED <<current, quiet, silenced, stream>>
    BY <1>7 DEF CallTool, Write, Page, ShowText, ShowEnd, ReceiveAudio, Receive, Tick, Play, Wait,
                HangUp, vars, speechVars, rimeVars
  <2> QED
    BY <1>1, <2>1
<1> QED
  BY <1>2, <1>3, <1>4, <1>5, <1>6, <1>7 DEF Next

\* A silenced text has no byte carried, for its chunks are dropped or late; one that
\* Rime has finished has none left.
LEMMA CarryStep ==
  TypeOK /\ SilencedKnown /\ CarryMatches /\ [Next]_vars => CarryMatches'
<1> SUFFICES ASSUME TypeOK, SilencedKnown, CarryMatches, [Next]_vars, ~late'
    PROVE  carry' = IF half' /\ stream' > silenced' THEN stream' ELSE None
  BY DEF CarryMatches
<1> USE PlaybackAssumption, NoneIsNoToken DEF SilencedKnown, CarryMatches
<1>1. current \in Nat /\ silenced \in Nat /\ stream \in Nat /\ half \in BOOLEAN /\ late \in BOOLEAN
  BY DEF TypeOK, Tokens
<1>2. CASE HearUser
  BY <1>1, <1>2 DEF HearUser, cancel, speechVars
<1>3. CASE NextText
  BY <1>1, <1>3 DEF NextText
<1>4. ASSUME NEW odd \in BOOLEAN, ReadChunk(odd)
      PROVE  carry' = IF half' /\ stream' > silenced' THEN stream' ELSE None
  <2>1. /\ UNCHANGED <<stream, silenced>>
        /\ half' = (half # odd)
    BY <1>4 DEF ReadChunk
  <2>2. CASE quiet
    BY <1>1, <1>4, <2>1, <2>2 DEF ReadChunk
  <2>3. CASE ~quiet
    <3>1. /\ carry' = IF oddFrame(odd) THEN stream ELSE None
          /\ ~late /\ ~(stream <= silenced)
      BY <1>4, <2>3 DEF ReadChunk
    <3>2. carry = IF half THEN stream ELSE None
      BY <1>1, <3>1
    <3>3. stream # None
      BY DEF TypeOK, Tokens
    <3>4. (carry # None) = half
      BY <1>1, <3>2, <3>3
    <3>5. oddFrame(odd) = half'
      BY <1>1, <2>1, <3>4 DEF oddFrame
    <3> QED
      BY <1>1, <2>1, <3>1, <3>5
  <2> QED
    BY <2>2, <2>3
<1>5. CASE \/ Speak \/ CallTool \/ SpeechDone \/ Write \/ Page \/ Tick \/ HangUp
           \/ UNCHANGED vars
  <2>1. UNCHANGED <<late, carry, half, stream, silenced>>
    BY <1>5 DEF Speak, CallTool, SpeechDone, Write, Page, ShowText, ShowEnd, ReceiveAudio,
                Receive, Tick, Play, Wait, HangUp, vars, rimeVars
  <2> QED
    BY <2>1
<1> QED
  BY <1>2, <1>3, <1>4, <1>5 DEF Next

\* What has been forwarded late stays so.
LEMMA LateStays == ASSUME TypeOK, [Next]_vars, late PROVE late'
<1>1. ASSUME NEW odd \in BOOLEAN, ReadChunk(odd) PROVE late'
  BY <1>1 DEF ReadChunk
<1>2. CASE HearUser \/ NextText
  BY <1>2 DEF HearUser, NextText
<1>3. CASE \/ Speak \/ CallTool \/ SpeechDone \/ Write \/ Page \/ Tick \/ HangUp
           \/ UNCHANGED vars
  BY <1>3 DEF Speak, CallTool, SpeechDone, Write, Page, ShowText, ShowEnd, ReceiveAudio,
              Receive, Tick, Play, Wait, HangUp, vars, rimeVars
<1> QED
  BY <1>1, <1>2, <1>3 DEF Next

\* The message the page handles is the first one underway.
LEMMA FirstUnderway ==
  ASSUME TypeOK, net # <<>>
  PROVE  1 <= Len(underway) /\ underway[1] = Head(net)
BY WayLeaves DEF TypeOK, underway

LEMMA EndsStep ==
  TypeOK /\ (gone => net = <<>>) /\ SilencedKnown /\ EndsKnown /\ [Next]_vars => EndsKnown'
<1> SUFFICES ASSUME TypeOK, gone => net = <<>>, SilencedKnown, EndsKnown, [Next]_vars
    PROVE  EndsKnown'
  OBVIOUS
<1>1. /\ current \in Nat /\ silenced \in Nat /\ stream \in Nat /\ hushed \in Nat
      /\ silenced' \in Nat /\ silenced <= silenced'
  BY TypeStep, SilencedStep, PlaybackAssumption DEF TypeOK, Tokens
<1>2. hushed' <= silenced'
  <2>1. CASE ShowEnd
    <3>1. /\ net # <<>> /\ Head(net).type = "speech_end"
          /\ hushed' = IF Head(net).cancelled THEN Head(net).of ELSE hushed
      BY <2>1 DEF ShowEnd, Receive
    <3>2. Head(net) \in Message /\ Head(net).of \in Tokens
      BY <3>1, TailOf, MessageParts DEF TypeOK
    <3>3. Head(net).of \in Nat
      BY <3>2, PlaybackAssumption DEF Tokens
    <3>4. Len(underway) \in Nat
      BY WayStep
    <3> QED
      BY <1>1, <3>1, <3>3, <3>4, FirstUnderway DEF EndsKnown
  <2>2. CASE ~ShowEnd
    <3>1. hushed' = hushed
      BY <2>2 DEF Next, vars, Speak, CallTool, HearUser, SpeechDone, NextText, ReadChunk, Write,
                  Page, ShowText, ReceiveAudio, Tick, Play, Wait, HangUp, pageVars
    <3> QED
      BY <1>1, <3>1 DEF EndsKnown
  <2> QED
    BY <2>1, <2>2
<1>3. ASSUME NEW i \in 1..Len(underway'),
             underway'[i].type = "speech_end", underway'[i].cancelled
      PROVE  underway'[i].of <= silenced'
  <2>1. PICK n \in Nat :
          \/ i + n <= Len(underway) /\ underway'[i] = underway[i + n]
          \/ Entering(underway'[i])
    BY WayStep
  <2>2. CASE i + n <= Len(underway) /\ underway'[i] = underway[i + n]
    <3>1. i + n \in 1..Len(underway)
      BY <2>2, WayStep
    <3>2. underway[i + n].of <= silenced
      BY <1>3, <2>2, <3>1 DEF EndsKnown
    <3>3. underway[i + n].of \in Nat
      <4>1. underway[i + n] \in Message
        BY <3>1, ConcatProperties, ElementOfSeq DEF TypeOK, underway
      <4> QED
        BY <1>3, <2>2, <4>1, MessageParts, PlaybackAssumption DEF Tokens
    <3> QED
      BY <1>1, <2>2, <3>2, <3>3
  <2>3. CASE Entering(underway'[i])
    <3>1. underway'[i].of = current /\ quiet
      BY <1>3, <2>3 DEF Entering
    <3> QED
      BY <1>1, <3>1 DEF SilencedKnown
  <2> QED
    BY <2>1, <2>2, <2>3
<1> QED
  BY <1>2, <1>3 DEF EndsKnown
\* Audio that enters while nothing is late is of a text that is not silenced.
LEMMA EnteringAudio ==
  ASSUME NEW m, Entering(m), m.type = "audio", ~late'
  PROVE  /\ m = [type |-> "audio", frame |-> [of |-> stream, aligned |-> Aligned]]
         /\ ~(stream <= silenced)
         /\ UNCHANGED <<silenced, hushed>>
<1> DEFINE old == late
           over == stream <= silenced
<1>1. /\ m # [type |-> "transcript"]
      /\ m # [type |-> "speech_end", of |-> current, cancelled |-> quiet]
  OBVIOUS
<1>2. /\ m = [type |-> "audio", frame |-> [of |-> stream, aligned |-> Aligned]]
      /\ late' = (old \/ over)
      /\ silenced' = silenced /\ hushed' = hushed
  BY <1>1 DEF Entering
<1>3. ~over
  <2> HIDE DEF old, over
  <2> QED
    BY <1>2, Zenon
<1> QED
  BY <1>2, <1>3

\* The player holds some of the frames it held, in their order, and then perhaps the
\* one the page has just received.
LEMMA QueueStep ==
  ASSUME TypeOK, [Next]_vars
  PROVE  /\ Len(queue) \in Nat /\ Len(queue') \in Nat
         /\ \E n \in Nat : \A i \in 1..Len(queue') :
              \/ i + n <= Len(queue) /\ queue'[i] = queue[i + n]
              \/ /\ i = Len(queue')
                 /\ net # <<>> /\ Head(net).type = "audio"
                 /\ queue'[i] = Head(net).frame
<1>1. queue \in Seq(Frame) /\ Len(queue) \in Nat /\ Len(queue') \in Nat
  BY TypeStep, LenProperties DEF TypeOK
<1> DEFINE Shifted(n) ==
      \A i \in 1..Len(queue') :
        \/ i + n <= Len(queue) /\ queue'[i] = queue[i + n]
        \/ /\ i = Len(queue')
           /\ net # <<>> /\ Head(net).type = "audio"
           /\ queue'[i] = Head(net).frame
<1>2. CASE ReceiveAudio
  <2>1. /\ net # <<>> /\ Head(net).type = "audio"
        /\ queue' = Append(queue, Head(net).frame)
    BY <1>2 DEF ReceiveAudio, Receive
  <2>2. Head(net).frame \in Frame
    BY <2>1, TailOf, MessageParts DEF TypeOK
  <2>3. /\ Len(queue') = Len(queue) + 1
        /\ \A j \in 1..Len(queue) : queue'[j] = queue[j]
        /\ queue'[Len(queue) + 1] = Head(net).frame
    BY <1>1, <2>1, <2>2, AppendProperties
  <2>4. Shifted(0)
    BY <1>1, <2>1, <2>3
  <2> QED
    BY <1>1, <2>4
<1>3. CASE Play
  <2>1. queue # <<>> /\ queue' = Tail(queue)
    BY <1>3 DEF Play
  <2>2. /\ Len(queue') = Len(queue) - 1
        /\ \A j \in 1..Len(queue') : queue'[j] = queue[j + 1]
    BY <1>1, <2>1, TailOf
  <2>3. Shifted(1)
    BY <1>1, <2>2
  <2> QED
    BY <1>1, <2>3
<1>4. CASE HangUp
  <2>1. Len(queue') = 0
    BY <1>4, EmptySeq DEF HangUp
  <2>2. Shifted(0)
    BY <2>1
  <2> QED
    BY <1>1, <2>2
<1>5. CASE UNCHANGED queue
  <2>1. Shifted(0)
    BY <1>1, <1>5
  <2> QED
    BY <1>1, <2>1
<1> QED
  BY <1>2, <1>3, <1>4, <1>5
     DEF Next, vars, Speak, CallTool, HearUser, SpeechDone, NextText, ReadChunk, Write, Page,
         ShowText, ShowEnd, Tick, Wait, playerVars

LEMMA AlignedStep ==
  /\ TypeOK /\ (gone => net = <<>>)
  /\ CarryMatches /\ AlignedOnTheWay /\ [Next]_vars
  => AlignedOnTheWay'
<1> SUFFICES ASSUME TypeOK, gone => net = <<>>, CarryMatches, AlignedOnTheWay, [Next]_vars, ~late'
    PROVE  AlignedOnTheWay'
  BY DEF AlignedOnTheWay
<1>1. ~late
  BY LateStays
<1>2. ASSUME NEW i \in 1..Len(underway'), underway'[i].type = "audio"
      PROVE  underway'[i].frame.aligned
  <2>1. PICK n \in Nat :
          \/ i + n <= Len(underway) /\ underway'[i] = underway[i + n]
          \/ Entering(underway'[i])
    BY WayStep
  <2>2. CASE i + n <= Len(underway) /\ underway'[i] = underway[i + n]
    <3>1. i + n \in 1..Len(underway)
      BY <2>2, WayStep
    <3> QED
      BY <1>1, <1>2, <2>2, <3>1 DEF AlignedOnTheWay
  <2>3. CASE Entering(underway'[i])
    <3>1. /\ underway'[i] = [type |-> "audio", frame |-> [of |-> stream, aligned |-> Aligned]]
          /\ ~(stream <= silenced)
      BY <1>2, <2>3, EnteringAudio
    <3>2. stream \in Nat /\ silenced \in Nat /\ stream # None /\ half \in BOOLEAN
      BY PlaybackAssumption, NoneIsNoToken DEF TypeOK, Tokens
    <3>3. carry = IF half THEN stream ELSE None
      BY <1>1, <3>1, <3>2 DEF CarryMatches
    <3>4. Aligned
      BY <3>2, <3>3 DEF Aligned
    <3> QED
      BY <3>1, <3>4
  <2> QED
    BY <2>1, <2>2, <2>3
<1>3. ASSUME NEW i \in 1..Len(queue') PROVE queue'[i].aligned
  <2>1. PICK n \in Nat :
          \/ i + n <= Len(queue) /\ queue'[i] = queue[i + n]
          \/ net # <<>> /\ Head(net).type = "audio" /\ queue'[i] = Head(net).frame
    BY QueueStep
  <2>2. CASE i + n <= Len(queue) /\ queue'[i] = queue[i + n]
    <3>1. i + n \in 1..Len(queue)
      BY <2>2, QueueStep
    <3> QED
      BY <1>1, <2>2, <3>1 DEF AlignedOnTheWay
  <2>3. CASE net # <<>> /\ Head(net).type = "audio" /\ queue'[i] = Head(net).frame
    BY <1>1, <2>3, FirstUnderway, WayStep DEF AlignedOnTheWay
  <2> QED
    BY <2>1, <2>2, <2>3
<1> QED
  BY <1>2, <1>3 DEF AlignedOnTheWay

\* Audio enters behind every end that was reported, and is of a later utterance than
\* any that was interrupted.
LEMMA EndFollowsStep ==
  IInv /\ [Next]_vars => EndFollowsAudio'
<1> SUFFICES ASSUME IInv, [Next]_vars, ~late',
                    NEW j \in 1..Len(underway'), underway'[j].type = "audio"
    PROVE  /\ underway'[j].frame.of > hushed'
           /\ \A i \in 1..j - 1 :
                underway'[i].type = "speech_end" /\ underway'[i].cancelled
                  => underway'[j].frame.of > underway'[i].of
  BY DEF EndFollowsAudio
<1> USE DEF IInv
<1>1. ~late
  BY LateStays
<1>2. PICK n \in Nat :
        \A i \in 1..Len(underway') :
          \/ i + n <= Len(underway) /\ underway'[i] = underway[i + n]
          \/ i = Len(underway') /\ Entering(underway'[i])
  BY WayStep
<1>3. Len(underway) \in Nat /\ Len(underway') \in Nat
  BY WayStep
<1>4. \A i \in 1..j - 1 : i + n \in 1..Len(underway) /\ underway'[i] = underway[i + n]
  BY <1>2, <1>3
<1>5. CASE j + n <= Len(underway) /\ underway'[j] = underway[j + n]
  <2>1. j + n \in 1..Len(underway)
    BY <1>3, <1>5
  <2>2. /\ underway[j + n].frame.of > hushed
        /\ \A i \in 1..j + n - 1 :
             underway[i].type = "speech_end" /\ underway[i].cancelled
               => underway[j + n].frame.of > underway[i].of
    BY <1>1, <1>5, <2>1 DEF EndFollowsAudio
  <2>3. \A i \in 1..j - 1 :
          underway'[i].type = "speech_end" /\ underway'[i].cancelled
            => underway'[j].frame.of > underway'[i].of
    BY <1>3, <1>4, <1>5, <2>2
  <2>4. underway'[j].frame.of > hushed'
    <3>1. CASE hushed' = hushed
      BY <1>5, <2>2, <3>1
    <3>2. CASE hushed' # hushed
      <4>1. /\ net # <<>> /\ Head(net).type = "speech_end"
            /\ Head(net).cancelled /\ hushed' = Head(net).of
        BY <3>2 DEF Next, vars, Speak, CallTool, HearUser, SpeechDone, NextText, ReadChunk, Write,
                    Page, ShowText, ShowEnd, ReceiveAudio, Receive, Tick, Play, Wait, HangUp,
                    pageVars
      <4>2. underway[1] = Head(net)
        BY <4>1, FirstUnderway
      <4>3. j + n # 1
        BY <1>5, <4>1, <4>2
      <4> QED
        BY <1>3, <1>5, <2>1, <2>2, <4>1, <4>2, <4>3
    <3> QED
      BY <3>1, <3>2
  <2> QED
    BY <2>3, <2>4
<1>6. CASE Entering(underway'[j])
  <2>1. /\ underway'[j].frame.of = stream
        /\ ~(stream <= silenced) /\ hushed' = hushed
    BY <1>6, EnteringAudio
  <2>2. stream \in Nat /\ silenced \in Nat /\ hushed \in Nat /\ hushed <= silenced
    BY PlaybackAssumption DEF TypeOK, Tokens, EndsKnown
  <2>3. ASSUME NEW i \in 1..j - 1, underway'[i].type = "speech_end", underway'[i].cancelled
        PROVE  stream > underway'[i].of
    <3>1. i + n \in 1..Len(underway) /\ underway'[i] = underway[i + n]
      BY <1>4
    <3>2. underway[i + n] \in Message
      BY <3>1, ConcatProperties, ElementOfSeq DEF TypeOK, underway
    <3>3. underway[i + n].of \in Nat
      BY <2>3, <3>1, <3>2, MessageParts, PlaybackAssumption DEF Tokens
    <3>4. underway[i + n].of <= silenced
      BY <2>3, <3>1 DEF EndsKnown
    <3> QED
      BY <2>1, <2>2, <3>1, <3>3, <3>4
  <2> QED
    BY <2>1, <2>2, <2>3
<1> QED
  BY <1>2, <1>5, <1>6

LEMMA GoneStep ==
  (gone => net = <<>>) /\ [Next]_vars => (gone => net = <<>>)'
<1> SUFFICES ASSUME gone => net = <<>>, [Next]_vars, gone' PROVE net' = <<>>
  OBVIOUS
<1>1. CASE HangUp
  BY <1>1 DEF HangUp
<1>2. CASE ~HangUp
  BY <1>2 DEF Next, vars, Speak, CallTool, HearUser, SpeechDone, NextText, ReadChunk, Write,
              Page, ShowText, ShowEnd, ReceiveAudio, Receive, Tick, Play, Wait, pageVars
<1> QED
  BY <1>1, <1>2

LEMMA StepIInv == IInv /\ [Next]_vars => IInv'
BY TypeStep, GoneStep, SilencedStep, CarryStep, AlignedStep, EndsStep, EndFollowsStep DEF IInv

LEMMA InvariantHolds == Spec => []IInv
BY InitIInv, StepIInv, PTL DEF Spec

-----------------------------------------------------------------------------
(* The order of the texts on the way to the ear.                           *)

\* Where the messages underway have audio, and of which text.
AudioAt(i) == i \in 1..Len(underway) /\ underway[i].type = "audio"
TextAt(i) == underway[i].frame.of

\* Of two frames on their way the one that is played first is of the same text as the
\* other or of an earlier one, and none is of a text that Rime is not sent yet.
FramesInOrder ==
  /\ \A i, j \in 1..Len(queue) : i <= j => queue[i].of <= queue[j].of
  /\ \A i, j \in 1..Len(underway) : AudioAt(i) /\ AudioAt(j) /\ i <= j => TextAt(i) <= TextAt(j)
  /\ \A i \in 1..Len(queue), j \in 1..Len(underway) : AudioAt(j) => queue[i].of <= TextAt(j)
  /\ \A i \in 1..Len(queue) : queue[i].of <= stream
  /\ \A i \in 1..Len(underway) : AudioAt(i) => TextAt(i) <= stream

LEMMA InitOrder == Init => FramesInOrder
<1> SUFFICES ASSUME Init PROVE FramesInOrder
  OBVIOUS
<1> DEFINE ready == [type |-> "ready"]
<1>1. /\ out = <<ready>> /\ net = <<>> /\ ready \in Message
      /\ out \in Seq(Message) /\ Len(queue) = 0
  BY DEF Init, PlayerInit, Message
<1>2. Len(underway) = 1 /\ underway[1] = ready
  BY <1>1, ConcatEmptySeq DEF underway
<1> QED
  BY <1>1, <1>2 DEF FramesInOrder, AudioAt

\* Rime is sent the texts in the order of speak().
LEMMA StreamGrows == ASSUME TypeOK, [Next]_vars PROVE stream <= stream' /\ stream \in Nat /\ stream' \in Nat
<1>1. stream \in Nat /\ stream' \in Nat
  BY TypeStep, PlaybackAssumption DEF TypeOK, Tokens
<1>2. CASE NextText
  BY <1>1, <1>2 DEF NextText
<1>3. CASE UNCHANGED stream
  BY <1>1, <1>3
<1> QED
  BY <1>1, <1>2, <1>3
     DEF Next, vars, Speak, CallTool, HearUser, SpeechDone, ReadChunk, Write, Page, ShowText,
         ShowEnd, ReceiveAudio, Receive, Tick, Play, Wait, HangUp, rimeVars

\* The texts of frames are numbers.
LEMMA TextsAreNumbers ==
  ASSUME TypeOK
  PROVE  /\ \A i \in 1..Len(queue) : queue[i].of \in Nat
         /\ \A i : AudioAt(i) => TextAt(i) \in Nat
<1>1. \A i \in 1..Len(queue) : queue[i] \in Frame
  BY ElementOfSeq DEF TypeOK
<1>2. ASSUME NEW i, AudioAt(i) PROVE TextAt(i) \in Nat
  <2>1. underway[i] \in Message
    BY <1>2, ConcatProperties, ElementOfSeq DEF TypeOK, underway, AudioAt
  <2>2. underway[i].frame \in Frame
    BY <1>2, <2>1, MessageParts DEF AudioAt
  <2> QED
    BY <2>2, PlaybackAssumption DEF Frame, Tokens, TextAt
<1> QED
  BY <1>1, <1>2, PlaybackAssumption DEF Frame, Tokens

LEMMA OrderStep ==
  TypeOK /\ (gone => net = <<>>) /\ FramesInOrder /\ [Next]_vars => FramesInOrder'
<1> SUFFICES ASSUME TypeOK, gone => net = <<>>, FramesInOrder, [Next]_vars
    PROVE  FramesInOrder'
  OBVIOUS
<1>1. PICK n \in Nat :
        \A i \in 1..Len(underway') :
          \/ i + n <= Len(underway) /\ underway'[i] = underway[i + n]
          \/ i = Len(underway') /\ Entering(underway'[i])
  BY WayStep
<1>2. PICK k \in Nat :
        \A i \in 1..Len(queue') :
          \/ i + k <= Len(queue) /\ queue'[i] = queue[i + k]
          \/ /\ i = Len(queue')
             /\ net # <<>> /\ Head(net).type = "audio" /\ queue'[i] = Head(net).frame
  BY QueueStep
<1>3. /\ Len(underway) \in Nat /\ Len(underway') \in Nat
      /\ Len(queue) \in Nat /\ Len(queue') \in Nat
      /\ stream <= stream' /\ stream \in Nat /\ stream' \in Nat
  BY WayStep, QueueStep, StreamGrows
<1>4. /\ \A i \in 1..Len(queue) : queue[i].of \in Nat
      /\ \A i : AudioAt(i) => TextAt(i) \in Nat
  BY TextsAreNumbers
\* Where a frame underway comes from, and one of the player's.
<1>5. ASSUME NEW i \in 1..Len(underway'), AudioAt(i)'
      PROVE  \/ AudioAt(i + n) /\ TextAt(i)' = TextAt(i + n)
             \/ i = Len(underway') /\ TextAt(i)' = stream
  <2>1. underway'[i].type = "audio"
    BY <1>5 DEF AudioAt
  <2>2. CASE i + n <= Len(underway) /\ underway'[i] = underway[i + n]
    BY <1>3, <2>1, <2>2 DEF AudioAt, TextAt
  <2>3. CASE i = Len(underway') /\ Entering(underway'[i])
    <3>1. underway'[i] = [type |-> "audio", frame |-> [of |-> stream, aligned |-> Aligned]]
      BY <2>1, <2>3 DEF Entering
    <3> QED
      BY <2>3, <3>1 DEF TextAt
  <2> QED
    BY <1>1, <2>2, <2>3
<1>6. ASSUME NEW i \in 1..Len(queue')
      PROVE  \/ i + k \in 1..Len(queue) /\ queue'[i].of = queue[i + k].of
             \/ i = Len(queue') /\ AudioAt(1) /\ queue'[i].of = TextAt(1)
  <2>1. CASE i + k <= Len(queue) /\ queue'[i] = queue[i + k]
    BY <1>3, <2>1
  <2>2. CASE /\ i = Len(queue')
             /\ net # <<>> /\ Head(net).type = "audio" /\ queue'[i] = Head(net).frame
    <3>1. 1 <= Len(underway) /\ underway[1] = Head(net)
      BY <2>2, FirstUnderway
    <3> QED
      BY <1>3, <2>2, <3>1 DEF AudioAt, TextAt
  <2> QED
    BY <1>2, <2>1, <2>2
<1> HIDE DEF AudioAt, TextAt
\* What the order says of the frames there were.
<1>7. /\ \A i, j \in 1..Len(queue) : i <= j => queue[i].of <= queue[j].of
      /\ \A i, j : AudioAt(i) /\ AudioAt(j) /\ i <= j => TextAt(i) <= TextAt(j)
      /\ \A i \in 1..Len(queue) : \A j : AudioAt(j) => queue[i].of <= TextAt(j)
      /\ \A i \in 1..Len(queue) : queue[i].of <= stream
      /\ \A i : AudioAt(i) => TextAt(i) <= stream /\ 1 <= i /\ i \in Nat
  <2>1. \A i : AudioAt(i) => i \in 1..Len(underway)
    BY DEF AudioAt
  <2> QED
    BY <1>3, <2>1 DEF FramesInOrder
<1>8. \A i, j \in 1..Len(queue') : i <= j => queue'[i].of <= queue'[j].of
  <2> SUFFICES ASSUME NEW i \in 1..Len(queue'), NEW j \in 1..Len(queue'), i <= j
               PROVE  queue'[i].of <= queue'[j].of
    OBVIOUS
  <2>1. CASE j + k \in 1..Len(queue) /\ queue'[j].of = queue[j + k].of
    <3>1. CASE i + k \in 1..Len(queue) /\ queue'[i].of = queue[i + k].of
      BY <1>3, <1>7, <2>1, <3>1
    <3>2. CASE i = Len(queue') /\ AudioAt(1) /\ queue'[i].of = TextAt(1)
      <4>1. i = j
        BY <1>3, <3>2
      <4> QED
        BY <1>4, <3>2, <4>1
    <3> QED
      BY <1>6, <3>1, <3>2
  <2>2. CASE j = Len(queue') /\ AudioAt(1) /\ queue'[j].of = TextAt(1)
    BY <1>4, <1>6, <1>7, <2>2
  <2> QED
    BY <1>6, <2>1, <2>2
<1>9. \A i, j \in 1..Len(underway') :
        AudioAt(i)' /\ AudioAt(j)' /\ i <= j => TextAt(i)' <= TextAt(j)'
  BY <1>3, <1>4, <1>5, <1>7
<1>10. \A i \in 1..Len(queue'), j \in 1..Len(underway') : AudioAt(j)' => queue'[i].of <= TextAt(j)'
  BY <1>3, <1>4, <1>5, <1>6, <1>7
<1>11. \A i \in 1..Len(queue') : queue'[i].of <= stream'
  <2> SUFFICES ASSUME NEW i \in 1..Len(queue') PROVE queue'[i].of <= stream
    BY <1>3, <1>4, <1>6
  <2>1. CASE i + k \in 1..Len(queue) /\ queue'[i].of = queue[i + k].of
    BY <1>7, <2>1
  <2>2. CASE AudioAt(1) /\ queue'[i].of = TextAt(1)
    BY <1>7, <2>2
  <2> QED
    BY <1>6, <2>1, <2>2
<1>12. \A i \in 1..Len(underway') : AudioAt(i)' => TextAt(i)' <= stream'
  BY <1>3, <1>4, <1>5, <1>7
<1> QED
  BY <1>8, <1>9, <1>10, <1>11, <1>12 DEF FramesInOrder

-----------------------------------------------------------------------------
(* The theorems.                                                           *)

\* The variables keep their types, whatever the bounds.
THEOREM TypeCorrect == Spec => []TypeOK
<1>1. IInv => TypeOK
  BY DEF IInv
<1> QED
  BY <1>1, InvariantHolds, PTL

\* The one-byte carry of _read_loop and its resets keep every forwarded frame aligned
\* to whole samples, wherever Rime cuts its chunks and wherever the user interrupts,
\* up to the first chunk of an interrupted text that is read after the next speak().
THEOREM SamplesStayWhole == Spec => []FramesAligned
<1>1. IInv => FramesAligned
  <2> SUFFICES ASSUME IInv, ~late, NEW f \in Frames PROVE f.aligned
    BY DEF FramesAligned
  <2>1. CASE f \in RangeOf(queue)
    BY <2>1 DEF IInv, AlignedOnTheWay, RangeOf
  <2>2. CASE \E m \in RangeOf(underway) : m.type = "audio" /\ f = m.frame
    BY <2>2 DEF IInv, AlignedOnTheWay, RangeOf
  <2> QED
    BY <2>1, <2>2 DEF Frames
<1> QED
  BY <1>1, InvariantHolds, PTL

\* The page never hears more of an interrupted utterance than came before the message
\* that ends it: control messages and audio share one queue, cap and order.
THEOREM EndsFollowAudio == Spec => []EndFollowsAudio
<1>1. IInv => EndFollowsAudio
  BY DEF IInv
<1> QED
  BY <1>1, InvariantHolds, PTL

\* The caller hears the texts in the order they were spoken: whatever is shed, dropped
\* or late, no frame is played after one of a later text.
THEOREM TextsArePlayedInOrder == Spec => []FramesInOrder
<1>1. IInv => TypeOK /\ (gone => net = <<>>)
  BY DEF IInv
<1> QED
  BY <1>1, InitOrder, OrderStep, InvariantHolds, PTL DEF Spec
=============================================================================
