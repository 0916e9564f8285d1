------------------------------ MODULE TurnGate ------------------------------
(***************************************************************************)
(* What the turn manager promises about tool calls (the rules at the head  *)
(* of agent/turn_manager.py): every call is tagged with the version of the *)
(* turn it was dispatched in; it is decided at most once; it is accepted   *)
(* only while that turn is still the current one and rejected only when it *)
(* no longer is.  A call that dies before its result arrives is lost.      *)
(***************************************************************************)
EXTENDS Naturals

CONSTANT Calls

VARIABLES version, tag, outcome

gateVars == <<version, tag, outcome>>

Outcomes == {"none", "open", "accepted", "rejected", "lost"}

GateTypeOK ==
  /\ version \in Nat \ {0}
  /\ tag \in [Calls -> Nat]
  /\ outcome \in [Calls -> Outcomes]

GateInit ==
  /\ version = 1
  /\ tag = [c \in Calls |-> 0]
  /\ outcome = [c \in Calls |-> "none"]

\* The user barges in: a new turn begins.
NewTurn ==
  /\ version' = version + 1
  /\ UNCHANGED <<tag, outcome>>

Open(c) ==
  /\ outcome[c] = "none"
  /\ outcome' = [outcome EXCEPT ![c] = "open"]
  /\ tag' = [tag EXCEPT ![c] = version]
  /\ UNCHANGED version

Decide(c, verdict) ==
  /\ outcome[c] = "open"
  /\ outcome' = [outcome EXCEPT ![c] = verdict]
  /\ UNCHANGED <<version, tag>>

Accept(c) == tag[c] = version /\ Decide(c, "accepted")
Reject(c) == tag[c] # version /\ Decide(c, "rejected")
Lose(c) == Decide(c, "lost")

GateNext ==
  \/ NewTurn
  \/ \E c \in Calls : Open(c) \/ Accept(c) \/ Reject(c) \/ Lose(c)

GateSpec == GateInit /\ [][GateNext]_gateVars
=============================================================================
