----------------------------- MODULE TurnManager -----------------------------
(***************************************************************************)
(* One session's TurnManager (agent/turn_manager.py) with its session      *)
(* store (redis_state/session_store.py), a tool client                     *)
(* (agent/tool_client.py) and the bookings table the client works on.      *)
(*                                                                         *)
(* An action is what the event loop runs between two suspensions.  With    *)
(* LocalToolClient only the sleep before the tool suspends, so running the *)
(* tool, checking the version, committing and confirming are one step.     *)
(* With HttpToolClient the tool and the commit are two requests to a       *)
(* server, and anything may happen while either is under way.              *)
(***************************************************************************)
EXTENDS BookingTools

CONSTANTS
  Calls,          \* tool calls of the session, each dispatched at most once
  MaxVersion,     \* bound: the last turn of the session
  Requests,       \* what the user may ask for
  OtherRequests,  \* what other sessions on the same table may ask for
  Seeded,         \* the table when the session begins
  Http,           \* HttpToolClient or LocalToolClient
  ReplyHook       \* with or without a reply_hook

ASSUME MaxVersionAssumption == MaxVersion \in Nat \ {0}
ASSUME RequestsAssumption == Requests \subseteq Request
ASSUME OthersAssumption == OtherRequests \subseteq {r \in Request : r.tool \in Mutating}
ASSUME SeededAssumption == Seeded \in Table
ASSUME FlagsAssumption == Http \in BOOLEAN /\ ReplyHook \in BOOLEAN
ASSUME SilenceAssumption == None \notin [call : Calls, version : 1..MaxVersion]

VARIABLES
  turnVersion,  \* session:{id}:turn_version
  pending,      \* session:{id}:pending_tools: version each call was tagged with
  confirmed,    \* session:{id}:state: the bookings last confirmed
  db,           \* the bookings table
  stage,        \* how far the task of each call has come
  tag,          \* the version in the local variables of each call's task
  req,          \* the tool and arguments of each call
  answer,       \* what the server last replied to each call
  playing,      \* the utterance the TTS has been told to speak
  obeyed,       \* history: what db would be had every write done what its request says
  raced         \* history: calls whose booking was written after their tool had read it

vars ==
  <<turnVersion, pending, confirmed, db, stage, tag, req, answer, playing, obeyed, raced>>

Versions == 1..MaxVersion

\* idle, the dispatched call's `await tools.run` (running; answered once the
\* server has replied), the decision, then for a mutation over HTTP the commit
\* request (committing; abandoned when the client has given up on it; committed
\* once the server has replied), the reply hook, and how the task ended.
Stages == {"idle", "running", "answered", "discarded", "committing", "abandoned",
           "committed", "confirming", "spoken", "failed", "broken"}

Utterance == [call : Calls, version : Versions]

TypeOK ==
  /\ turnVersion \in Versions
  /\ pending \in [Calls -> Versions \cup {None}]
  /\ confirmed \in SUBSET Proposal
  /\ db \in Table
  /\ stage \in [Calls -> Stages]
  /\ tag \in [Calls -> 0..MaxVersion]
  /\ req \in [Calls -> Request \cup {None}]
  /\ answer \in [Calls -> SUBSET Proposal]
  /\ playing \in Utterance \cup {None}
  /\ obeyed \in Table
  /\ raced \in SUBSET Calls

\* create_session: setnx turn_version 1.  A key that is missing reads as 0.
MissingVersion == 0
StartVersion == 1

Init ==
  /\ turnVersion = StartVersion
  /\ pending = [c \in Calls |-> None]
  /\ confirmed = {}
  /\ db = Seeded
  /\ stage = [c \in Calls |-> "idle"]
  /\ tag = [c \in Calls |-> 0]
  /\ req = [c \in Calls |-> None]
  /\ answer = [c \in Calls |-> {}]
  /\ playing = None
  /\ obeyed = Seeded
  /\ raced = {}

-----------------------------------------------------------------------------
\* Mutant: the new turn begins and the TTS is left alone.
InterruptWithoutCancel ==
  /\ turnVersion < MaxVersion
  /\ turnVersion' = turnVersion + 1
  /\ UNCHANGED <<pending, confirmed, db, stage, tag, req, answer, playing, obeyed, raced>>

\* The user barges in: a new turn, and the TTS is told to stop.
on_interrupt ==
  /\ turnVersion < MaxVersion
  /\ turnVersion' = turnVersion + 1
  /\ playing' = None
  /\ UNCHANGED <<pending, confirmed, db, stage, tag, req, answer, obeyed, raced>>

dispatch_tool(c, r) ==
  /\ stage[c] = "idle"
  /\ stage' = [stage EXCEPT ![c] = "running"]
  /\ tag' = [tag EXCEPT ![c] = turnVersion]
  /\ req' = [req EXCEPT ![c] = r]
  /\ pending' = [pending EXCEPT ![c] = turnVersion]
  /\ UNCHANGED <<turnVersion, confirmed, db, answer, playing, obeyed, raced>>

\* Mutants: the version check is left out, or is always lost.
NeverStale(c) == FALSE
AlwaysStale(c) == TRUE

Stale(c) == tag[c] # turnVersion
Mutates(c) == req[c].tool \in Mutating

pop_pending_tool(c) == pending' = [pending EXCEPT ![c] = None]

MoveTo(c, s) == stage' = [stage EXCEPT ![c] = s]

\* tts.speak: takes over from whatever was being spoken.
Say(c) ==
  /\ MoveTo(c, "spoken")
  /\ playing' = [call |-> c, version |-> tag[c]]

\* _on_tool_result from set_confirmed_state on: confirm the result and render
\* the reply, or await the hook that words it.  `current`, the version the
\* utterance is spoken for, is the one the result was found fresh in.
Apply(c, payload) ==
  /\ confirmed' = payload
  /\ IF ReplyHook THEN MoveTo(c, "confirming") /\ UNCHANGED playing ELSE Say(c)

\* Mutant: the commit answers with the proposal it was given.
ProposedRow(i, p) == p

\* What commit_booking returns: the row as it is now stored.
StoredRow(i, p) == BookingAt(db', i)

\* A proposal the server has answered with and that is not written yet.
Proposing(c) == stage[c] \in {"answered", "committing", "abandoned"} /\ Mutates(c)

\* The calls whose proposal is for booking i.  A create's is for none that exists.
ReadersOf(i) == {c \in Calls : Proposing(c) /\ req[c].tool # "create_booking" /\ req[c].id = i}

\* commit_booking of proposal p under id i, on behalf of request r.
Commit(i, p, r) ==
  /\ db' = Committed(db, i, p)
  /\ obeyed' = Obeyed(obeyed, i, r)
  /\ raced' = raced \cup ReadersOf(i)

-----------------------------------------------------------------------------
(* LocalToolClient: from the end of the sleep to the next suspension.      *)

\* tools.run raises: the task ends before the pending entry is popped.
LocalRunRaises(c) ==
  /\ ~Http
  /\ stage[c] = "running"
  /\ Answers(db, req[c]) = {}
  /\ MoveTo(c, "failed")
  /\ UNCHANGED <<turnVersion, pending, confirmed, db, tag, req, answer, playing, obeyed, raced>>

LocalStale(c) ==
  /\ ~Http
  /\ stage[c] = "running"
  /\ Answers(db, req[c]) # {}
  /\ Stale(c)
  /\ pop_pending_tool(c)
  /\ MoveTo(c, "discarded")
  /\ UNCHANGED <<turnVersion, confirmed, db, tag, req, answer, playing, obeyed, raced>>

LocalRead(c) ==
  /\ ~Http
  /\ stage[c] = "running"
  /\ ~Stale(c)
  /\ ~Mutates(c)
  /\ \E a \in Answers(db, req[c]) : Apply(c, a)
  /\ pop_pending_tool(c)
  /\ UNCHANGED <<turnVersion, db, tag, req, answer, obeyed, raced>>

LocalCommit(c) ==
  /\ ~Http
  /\ stage[c] = "running"
  /\ ~Stale(c)
  /\ Mutates(c)
  /\ \E a \in Answers(db, req[c]) : \E p \in a : \E i \in CommitIds(db, p) :
       /\ Commit(i, p, req[c])
       /\ Apply(c, {StoredRow(i, p)})
  /\ pop_pending_tool(c)
  /\ UNCHANGED <<turnVersion, tag, req, answer>>

\* The insert is refused: the task ends with nothing confirmed or spoken.
LocalCommitRaises(c) ==
  /\ ~Http
  /\ stage[c] = "running"
  /\ ~Stale(c)
  /\ Mutates(c)
  /\ \E a \in Answers(db, req[c]) : \E p \in a : CommitIds(db, p) = {}
  /\ pop_pending_tool(c)
  /\ MoveTo(c, "broken")
  /\ UNCHANGED <<turnVersion, confirmed, db, tag, req, answer, playing, obeyed, raced>>

-----------------------------------------------------------------------------
(* HttpToolClient against the endpoints of backend/main.py.                *)

\* The columns that a request's model in schemas.py declares as str: null is refused.
Texts(r) ==
  CASE r.tool = "create_booking" -> Fields \ {"status"}
    [] r.tool = "find_bookings"  -> {"customer_name", "phone"}
    [] OTHER                     -> {}

WellFormed(r) == \A f \in Texts(r) : r.given[f] # None

\* POST /tools/...: the server validates and replies.
ServeTool(c) ==
  /\ Http
  /\ stage[c] = "running"
  /\ WellFormed(req[c])
  /\ \E a \in Answers(db, req[c]) : answer' = [answer EXCEPT ![c] = a]
  /\ MoveTo(c, "answered")
  /\ UNCHANGED <<turnVersion, pending, confirmed, db, tag, req, playing, obeyed, raced>>

\* Mutant: neither an error status nor a timeout ends the client's wait.
HttpRunWaits(c) ==
  /\ Http
  /\ stage[c] = "answered"
  /\ MoveTo(c, "failed")
  /\ UNCHANGED <<turnVersion, pending, confirmed, db, tag, req, answer, playing, obeyed, raced>>

\* An error status (422 for a request that is not well-formed), a broken connection
\* or the 30 s timeout: _post raises.
HttpRunRaises(c) ==
  /\ Http
  /\ stage[c] \in {"running", "answered"}
  /\ MoveTo(c, "failed")
  /\ UNCHANGED <<turnVersion, pending, confirmed, db, tag, req, answer, playing, obeyed, raced>>

ResultStale(c) ==
  /\ stage[c] = "answered"
  /\ Stale(c)
  /\ pop_pending_tool(c)
  /\ MoveTo(c, "discarded")
  /\ UNCHANGED <<turnVersion, confirmed, db, tag, req, answer, playing, obeyed, raced>>

ResultRead(c) ==
  /\ stage[c] = "answered"
  /\ ~Stale(c)
  /\ ~Mutates(c)
  /\ Apply(c, answer[c])
  /\ pop_pending_tool(c)
  /\ UNCHANGED <<turnVersion, db, tag, req, answer, obeyed, raced>>

\* The result is fresh: POST /commit is sent with its proposal.
ResultCommits(c) ==
  /\ stage[c] = "answered"
  /\ ~Stale(c)
  /\ Mutates(c)
  /\ pop_pending_tool(c)
  /\ MoveTo(c, "committing")
  /\ UNCHANGED <<turnVersion, confirmed, db, tag, req, answer, playing, obeyed, raced>>

\* POST /commit: the server writes, whether or not the client still listens.
ServeCommit(c) ==
  /\ stage[c] \in {"committing", "abandoned"}
  /\ \E p \in answer[c] : \E i \in CommitIds(db, p) :
       /\ Commit(i, p, req[c])
       /\ answer' = [answer EXCEPT ![c] = {StoredRow(i, p)}]
  /\ MoveTo(c, IF stage[c] = "committing" THEN "committed" ELSE "broken")
  /\ UNCHANGED <<turnVersion, pending, confirmed, tag, req, playing>>

CommitReply(c) ==
  /\ stage[c] = "committed"
  /\ Apply(c, answer[c])
  /\ UNCHANGED <<turnVersion, pending, db, tag, req, answer, obeyed, raced>>

\* _post raises: the client gives up on a request the server may yet serve, an
\* abandoned request never arrives, or the reply is lost.
HttpCommitRaises(c) ==
  /\ \/ stage[c] = "committing" /\ MoveTo(c, "abandoned")
     \/ stage[c] \in {"abandoned", "committed"} /\ MoveTo(c, "broken")
  /\ UNCHANGED <<turnVersion, pending, confirmed, db, tag, req, answer, playing, obeyed, raced>>

-----------------------------------------------------------------------------
\* The reply hook returns, or raises and the template is used: either way the
\* reply is spoken.
Confirm(c) ==
  /\ stage[c] = "confirming"
  /\ Say(c)
  /\ UNCHANGED <<turnVersion, pending, confirmed, db, tag, req, answer, obeyed, raced>>

\* The utterance has been spoken to its end.
SpeechEnds ==
  /\ playing # None
  /\ playing' = None
  /\ UNCHANGED <<turnVersion, pending, confirmed, db, stage, tag, req, answer, obeyed, raced>>

\* Another session of the same process validates and commits a change of its
\* own to the same table, through a LocalToolClient.
OtherSessionCommits ==
  /\ \E r \in OtherRequests : \E a \in Answers(db, r) : \E p \in a :
       \E i \in CommitIds(db, p) : Commit(i, p, r)
  /\ UNCHANGED <<turnVersion, pending, confirmed, stage, tag, req, answer, playing>>

LocalResult(c) ==
  LocalRunRaises(c) \/ LocalStale(c) \/ LocalRead(c) \/ LocalCommit(c) \/ LocalCommitRaises(c)

HttpReply(c) ==
  ServeTool(c) \/ HttpRunRaises(c) \/ ServeCommit(c) \/ CommitReply(c) \/ HttpCommitRaises(c)

HttpResult(c) == ResultStale(c) \/ ResultRead(c) \/ ResultCommits(c)

Next ==
  \/ on_interrupt
  \/ \E c \in Calls : \E r \in Requests : dispatch_tool(c, r)
  \/ \E c \in Calls : LocalResult(c) \/ HttpReply(c) \/ HttpResult(c) \/ Confirm(c)
  \/ SpeechEnds
  \/ OtherSessionCommits

\* Sleeps end, awaited replies arrive or time out, and the event loop runs what
\* is ready.  Nothing obliges the user to speak or another session to act.
Fairness ==
  \A c \in Calls :
    /\ WF_vars(LocalResult(c))
    /\ WF_vars(HttpReply(c))
    /\ WF_vars(HttpResult(c))
    /\ WF_vars(Confirm(c))

Spec == Init /\ [][Next]_vars /\ Fairness

-----------------------------------------------------------------------------
(* Properties.                                                             *)

\* "stale ... never committed": a step of a call whose turn is over changes
\* neither the bookings nor the confirmed state, whatever its task was doing when
\* the user barged in.
StaleNeverWrites ==
  [][\A c \in Calls :
       stage'[c] # stage[c] /\ tag[c] # turnVersion => UNCHANGED <<db, confirmed>>]_vars

\* In process a whole row is read and stored in one step, by each call and session: no
\* commit undoes what another wrote, nor stores a null its request happens to hold.  The
\* table is what applying each request's own changes, in the order they were committed,
\* would give.
NoLostUpdate == db = obeyed

\* Over HTTP the whole row of a proposal is read in one request and written in
\* another, perhaps one the client no longer waits for.  If nobody wrote that booking
\* in between, the commit still does what the request asks for and nothing else.
UndisturbedCommitObeys ==
  [][\A c \in Calls \ raced :
       Proposing(c) /\ stage'[c] # stage[c] /\ (stage'[c] = "committed" \/ db' # db)
         => \E i \in (IF req[c].tool = "create_booking" THEN Ids \ Existing(db) ELSE {req[c].id}) :
              db' = Obeyed(db, i, req[c])]_vars

\* In process, what becomes the confirmed state is what the table holds at that moment.
ConfirmedIsStored ==
  [][confirmed' # confirmed =>
       confirmed' \subseteq {BookingAt(db', i) : i \in Existing(db')}]_vars

\* "never spoken": whatever is being spoken belongs to the current turn.
PlayingIsCurrent == playing # None => playing.version = turnVersion

\* A call the user does not interrupt is answered: spoken, unless the tool or the
\* commit raised (nothing tells the user of either).
FreshIsAnswered ==
  \A c \in Calls :
    stage[c] = "running" /\ tag[c] = turnVersion
      ~> stage[c] \in {"spoken", "failed", "broken"} \/ tag[c] # turnVersion

\* No task waits for ever, whatever the user and the network do; one that raises has
\* ended, too.
EveryCallEnds ==
  \A c \in Calls :
    stage[c] = "running" ~> stage[c] \in {"discarded", "spoken", "failed", "broken"}

\* The tasks implement the gate: each call is decided once, by the version that
\* is current at that moment.
OutcomeOf(s) ==
  CASE s = "idle" -> "none"
    [] s \in {"running", "answered"} -> "open"
    [] s = "discarded" -> "rejected"
    [] s = "failed" -> "lost"
    [] OTHER -> "accepted"

Gate == INSTANCE TurnGate
          WITH version <- turnVersion, outcome <- [c \in Calls |-> OutcomeOf(stage[c])]

ImplementsGate == Gate!GateSpec
=============================================================================
