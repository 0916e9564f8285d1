------------------------------- MODULE Speech -------------------------------
(***************************************************************************)
(* What the rest of the call relies on from its text-to-speech: the facade *)
(* of agent/tts_rime.py.  speak() begins a new utterance, which takes over *)
(* from the one before; cancel() silences it until the next speak(); every *)
(* utterance ends, once, unless another takes over first, and only the     *)
(* latest one can end.  Texts are heard in the order they were spoken in.  *)
(* Token 0 stands for the time before any speak().                         *)
(***************************************************************************)
EXTENDS Naturals, Sequences

CONSTANT Utterances  \* bound: how often speak() is called

VARIABLES
  current,  \* the latest utterance
  quiet,    \* cancel() has been called since the last speak()
  dones,    \* how often on_done has been called for each utterance
  heard     \* the utterances of the chunks on_audio has been given

speechVars == <<current, quiet, dones, heard>>

SpeechInit ==
  /\ current = 0
  /\ quiet = FALSE
  /\ dones = [t \in 0..Utterances |-> 0]
  /\ heard = <<>>

Speak ==
  /\ current < Utterances
  /\ current' = current + 1
  /\ quiet' = FALSE
  /\ UNCHANGED <<dones, heard>>

Cancel ==
  /\ quiet' = TRUE
  /\ UNCHANGED <<current, dones, heard>>

\* on_done: the utterance is over.  Nothing is before the first speak() unless it
\* is cancelled.
Done ==
  /\ dones[current] = 0
  /\ current > 0 \/ quiet
  /\ dones' = [dones EXCEPT ![current] = 1]
  /\ UNCHANGED <<current, quiet, heard>>

\* on_audio.  The chunk may be a late one of an earlier text, but of no text before
\* the one heard last.
Hear ==
  /\ ~quiet
  /\ \E t \in 1..current :
       /\ heard # <<>> => heard[Len(heard)] <= t
       /\ heard' = Append(heard, t)
  /\ UNCHANGED <<current, quiet, dones>>

SpeechNext == Speak \/ Cancel \/ Done \/ Hear

SpeechSafe == SpeechInit /\ [][SpeechNext]_speechVars
=============================================================================
