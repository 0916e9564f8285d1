------------------------- MODULE TurnManagerProofs -------------------------
(* Theorems about TurnManager and their proofs. *)
EXTENDS TurnManager, BookingToolsTheorems

-----------------------------------------------------------------------------
(* The inductive invariant.                                                *)

\* A call that has been dispatched carries one of the session's requests and the
\* version of one of its turns.
Dispatched ==
  \A c \in Calls : stage[c] # "idle" => req[c] \in Requests /\ tag[c] \in Versions

\* Only a mutation has a commit under way.
CommitsMutate ==
  \A c \in Calls : stage[c] \in {"committing", "abandoned", "committed"} => Mutates(c)

\* The proposal a mutation holds fits its request: only a create's has no id.
ProposalsFit ==
  \A c \in Calls :
    stage[c] \in {"answered", "committing", "abandoned"} /\ Mutates(c)
      => \A p \in answer[c] : p.id = None <=> req[c].tool = "create_booking"

\* The reference table has rows exactly where the table has.
SameRows == Existing(obeyed) = Existing(db)

IInv == TypeOK /\ Dispatched /\ CommitsMutate /\ ProposalsFit /\ SameRows

LEMMA InitIInv == Init => IInv
BY MaxVersionAssumption, SeededAssumption
   DEF Init, IInv, TypeOK, Dispatched, CommitsMutate, ProposalsFit, SameRows,
       StartVersion, Versions, Stages

\* What a commit on behalf of request r does to the two tables.
LEMMA CommitStep ==
  ASSUME TypeOK, SameRows,
         NEW r \in Request, NEW p \in Proposal, NEW i \in CommitIds(db, p),
         p.id = None <=> r.tool = "create_booking",
         Commit(i, p, r)
  PROVE  /\ db' \in Table /\ obeyed' \in Table
         /\ raced' \in SUBSET Calls
         /\ StoredRow(i, p) \in Proposal
         /\ SameRows'
<1>1. db \in Table /\ obeyed \in Table
  BY DEF TypeOK
<1>2. i \in Ids /\ (r.tool # "create_booking" => i \in Existing(obeyed))
  BY <1>1 DEF CommitIds, SameRows, Existing
<1>3. db' = Committed(db, i, p) /\ obeyed' = Obeyed(obeyed, i, r)
  BY DEF Commit
<1>4. /\ db' \in Table /\ db'[i] \in Row
      /\ Existing(db') = Existing(db) \cup {i}
  BY <1>1, <1>3, CommittedType
<1>5. /\ obeyed' \in Table
      /\ Existing(obeyed') = Existing(obeyed) \cup {i}
  BY <1>1, <1>2, <1>3, ObeyedType
<1>6. StoredRow(i, p) \in Proposal
  BY <1>2, <1>4 DEF StoredRow, BookingAt, Proposal
<1>7. raced' \in SUBSET Calls
  BY DEF Commit, ReadersOf, TypeOK
<1> QED
  BY <1>4, <1>5, <1>6, <1>7 DEF SameRows

\* A call in flight asks for something a tool understands, and a mutation's
\* answers each hold one proposal that fits it.
LEMMA MutationAnswer ==
  ASSUME IInv, NEW c \in Calls, stage[c] # "idle", Mutates(c),
         NEW a \in Answers(db, req[c]), NEW p \in a
  PROVE  /\ req[c] \in Request
         /\ p \in Proposal
         /\ p.id = None <=> req[c].tool = "create_booking"
<1>1. req[c] \in Request /\ db \in Table
  BY RequestsAssumption DEF IInv, Dispatched, TypeOK
<1> QED
  BY <1>1, ProposalShape DEF Mutates

\* Confirming a result and wording the reply.
LEMMA ApplyStep ==
  ASSUME TypeOK, Dispatched, NEW c \in Calls, stage[c] # "idle",
         NEW payload \in SUBSET Proposal, Apply(c, payload)
  PROVE  /\ confirmed' \in SUBSET Proposal
         /\ playing' \in Utterance \cup {None}
         /\ \/ stage' = [stage EXCEPT ![c] = "confirming"]
            \/ stage' = [stage EXCEPT ![c] = "spoken"]
BY DEF Apply, Say, MoveTo, TypeOK, Dispatched, Utterance

LEMMA NextIInv == IInv /\ [Next]_vars => IInv'
<1> SUFFICES ASSUME IInv, [Next]_vars PROVE IInv'
  OBVIOUS
<1> USE DEF IInv, Mutates, Dispatched, CommitsMutate, ProposalsFit
<1>0. TypeOK /\ Dispatched /\ CommitsMutate /\ ProposalsFit /\ SameRows
  OBVIOUS
<1>1. CASE UNCHANGED vars
  BY <1>1 DEF vars, TypeOK, SameRows
<1>2. CASE on_interrupt
  BY <1>2, MaxVersionAssumption DEF on_interrupt, TypeOK, SameRows, Versions
<1>3. ASSUME NEW c \in Calls, NEW r \in Requests, dispatch_tool(c, r) PROVE IInv'
  BY <1>3, RequestsAssumption, MaxVersionAssumption
     DEF dispatch_tool, TypeOK, SameRows, Versions, Stages
<1>4. ASSUME NEW c \in Calls, LocalResult(c) PROVE IInv'
  <2>1. CASE LocalRunRaises(c)
    BY <2>1 DEF LocalRunRaises, MoveTo, TypeOK, SameRows, Stages
  <2>2. CASE LocalStale(c)
    BY <2>2 DEF LocalStale, MoveTo, pop_pending_tool, TypeOK, SameRows, Stages
  <2>3. CASE LocalRead(c)
    <3>1. PICK a \in Answers(db, req[c]) : Apply(c, a)
      BY <2>3 DEF LocalRead
    <3>2. a \in SUBSET Proposal
      BY <2>3, <3>1, AnswersType, RequestsAssumption DEF LocalRead, TypeOK
    <3> QED
      BY <1>0, <2>3, <3>1, <3>2, ApplyStep
         DEF LocalRead, pop_pending_tool, TypeOK, SameRows, Stages
  <2>4. CASE LocalCommit(c)
    <3>1. PICK a \in Answers(db, req[c]) : \E p \in a : \E i \in CommitIds(db, p) :
            Commit(i, p, req[c]) /\ Apply(c, {StoredRow(i, p)})
      BY <2>4 DEF LocalCommit
    <3>2. PICK p \in a : \E i \in CommitIds(db, p) :
            Commit(i, p, req[c]) /\ Apply(c, {StoredRow(i, p)})
      BY <3>1
    <3>3. PICK i \in CommitIds(db, p) : Commit(i, p, req[c]) /\ Apply(c, {StoredRow(i, p)})
      BY <3>2
    <3>4. req[c] \in Request /\ p \in Proposal /\ (p.id = None <=> req[c].tool = "create_booking")
      BY <2>4, MutationAnswer DEF LocalCommit
    <3>5. /\ db' \in Table /\ obeyed' \in Table /\ raced' \in SUBSET Calls
          /\ StoredRow(i, p) \in Proposal /\ SameRows'
      BY <1>0, <3>3, <3>4, CommitStep
    <3>6. /\ confirmed' \in SUBSET Proposal
          /\ playing' \in Utterance \cup {None}
          /\ \/ stage' = [stage EXCEPT ![c] = "confirming"]
             \/ stage' = [stage EXCEPT ![c] = "spoken"]
      BY <1>0, <2>4, <3>3, <3>5, ApplyStep DEF LocalCommit
    <3> QED
      BY <2>4, <3>5, <3>6 DEF LocalCommit, pop_pending_tool, TypeOK, Stages
  <2>5. CASE LocalCommitRaises(c)
    BY <2>5 DEF LocalCommitRaises, MoveTo, pop_pending_tool, TypeOK, SameRows, Stages
  <2> QED
    BY <1>4, <2>1, <2>2, <2>3, <2>4, <2>5 DEF LocalResult
<1>5. ASSUME NEW c \in Calls, HttpReply(c) PROVE IInv'
  <2>1. CASE ServeTool(c)
    <3>1. PICK a \in Answers(db, req[c]) : answer' = [answer EXCEPT ![c] = a]
      BY <2>1 DEF ServeTool
    <3>2. a \in SUBSET Proposal
      BY <2>1, AnswersType, RequestsAssumption DEF ServeTool, TypeOK
    <3>3. Mutates(c) => \A p \in a : (p.id = None <=> req[c].tool = "create_booking")
      BY <2>1, MutationAnswer DEF ServeTool
    <3> QED
      BY <2>1, <3>1, <3>2, <3>3 DEF ServeTool, MoveTo, TypeOK, SameRows, Stages
  <2>2. CASE HttpRunRaises(c)
    BY <2>2 DEF HttpRunRaises, MoveTo, TypeOK, SameRows, Stages
  <2>3. CASE ServeCommit(c)
    <3>1. PICK p \in answer[c] : \E i \in CommitIds(db, p) :
            Commit(i, p, req[c]) /\ answer' = [answer EXCEPT ![c] = {StoredRow(i, p)}]
      BY <2>3 DEF ServeCommit
    <3>2. PICK i \in CommitIds(db, p) :
            Commit(i, p, req[c]) /\ answer' = [answer EXCEPT ![c] = {StoredRow(i, p)}]
      BY <3>1
    <3>3. req[c] \in Request /\ p \in Proposal /\ (p.id = None <=> req[c].tool = "create_booking")
      BY <2>3, RequestsAssumption DEF ServeCommit, TypeOK
    <3>4. /\ db' \in Table /\ obeyed' \in Table /\ raced' \in SUBSET Calls
          /\ StoredRow(i, p) \in Proposal /\ SameRows'
      BY <1>0, <3>2, <3>3, CommitStep
    <3> QED
      BY <2>3, <3>2, <3>4 DEF ServeCommit, MoveTo, TypeOK, Stages
  <2>4. CASE CommitReply(c)
    <3>1. Apply(c, answer[c]) /\ answer[c] \in SUBSET Proposal
      BY <2>4 DEF CommitReply, TypeOK
    <3> QED
      BY <1>0, <2>4, <3>1, ApplyStep DEF CommitReply, TypeOK, SameRows, Stages
  <2>5. CASE HttpCommitRaises(c)
    BY <2>5 DEF HttpCommitRaises, MoveTo, TypeOK, SameRows, Stages
  <2> QED
    BY <1>5, <2>1, <2>2, <2>3, <2>4, <2>5 DEF HttpReply
<1>6. ASSUME NEW c \in Calls, HttpResult(c) PROVE IInv'
  <2>1. CASE ResultStale(c)
    BY <2>1 DEF ResultStale, MoveTo, pop_pending_tool, TypeOK, SameRows, Stages
  <2>2. CASE ResultRead(c)
    <3>1. Apply(c, answer[c]) /\ answer[c] \in SUBSET Proposal
      BY <2>2 DEF ResultRead, TypeOK
    <3> QED
      BY <1>0, <2>2, <3>1, ApplyStep
         DEF ResultRead, pop_pending_tool, TypeOK, SameRows, Stages
  <2>3. CASE ResultCommits(c)
    BY <2>3 DEF ResultCommits, MoveTo, pop_pending_tool, TypeOK, SameRows, Stages
  <2> QED
    BY <1>6, <2>1, <2>2, <2>3 DEF HttpResult
<1>7. ASSUME NEW c \in Calls, Confirm(c) PROVE IInv'
  BY <1>7 DEF Confirm, Say, MoveTo, TypeOK, SameRows, Stages, Utterance
<1>8. CASE SpeechEnds
  BY <1>8 DEF SpeechEnds, TypeOK, SameRows
<1>9. CASE OtherSessionCommits
  <2>1. PICK r \in OtherRequests : \E a \in Answers(db, r) : \E p \in a :
          \E i \in CommitIds(db, p) : Commit(i, p, r)
    BY <1>9 DEF OtherSessionCommits
  <2>2. PICK a \in Answers(db, r) : \E p \in a : \E i \in CommitIds(db, p) : Commit(i, p, r)
    BY <2>1
  <2>3. PICK p \in a : \E i \in CommitIds(db, p) : Commit(i, p, r)
    BY <2>2
  <2>4. PICK i \in CommitIds(db, p) : Commit(i, p, r)
    BY <2>3
  <2>5. r \in Request /\ r.tool \in Mutating /\ db \in Table
    BY OthersAssumption DEF TypeOK
  <2>6. p \in Proposal /\ (p.id = None <=> r.tool = "create_booking")
    BY <2>5, ProposalShape
  <2>7. db' \in Table /\ obeyed' \in Table /\ raced' \in SUBSET Calls /\ SameRows'
    BY <1>0, <2>4, <2>5, <2>6, CommitStep
  <2> QED
    BY <1>9, <2>7 DEF OtherSessionCommits, TypeOK
<1> QED
  BY <1>1, <1>2, <1>3, <1>4, <1>5, <1>6, <1>7, <1>8, <1>9 DEF Next

LEMMA Invariance == Spec => []IInv
BY InitIInv, NextIInv, PTL DEF Spec

\* Type correctness, for both clients, with and without a reply hook.
THEOREM TypeCorrect == Spec => []TypeOK
BY Invariance, PTL DEF IInv

-----------------------------------------------------------------------------
(* In-process tools.                                                       *)

\* With a LocalToolClient no call ever waits for a server.
NoRequestOut ==
  \A c \in Calls : stage[c] \notin {"answered", "committing", "abandoned", "committed"}

LEMMA LocalStages ==
  ASSUME ~Http
  PROVE  Spec => []NoRequestOut
<1>1. Init => NoRequestOut
  BY DEF Init, NoRequestOut
<1>2. NoRequestOut /\ TypeOK /\ [Next]_vars => NoRequestOut'
  <2> SUFFICES ASSUME NoRequestOut, TypeOK, [Next]_vars PROVE NoRequestOut'
    OBVIOUS
  <2>1. CASE UNCHANGED stage
    BY <2>1 DEF NoRequestOut
  <2>2. ASSUME NEW c \in Calls, NEW s, s \notin {"answered", "committing", "abandoned", "committed"},
               stage' = [stage EXCEPT ![c] = s]
        PROVE  NoRequestOut'
    BY <2>2 DEF NoRequestOut, TypeOK
  <2>3. ASSUME NEW c \in Calls, NEW r \in Requests, dispatch_tool(c, r) PROVE NoRequestOut'
    BY <2>2, <2>3 DEF dispatch_tool
  <2>4. ASSUME NEW c \in Calls, LocalResult(c) PROVE NoRequestOut'
    BY <2>2, <2>4
       DEF LocalResult, LocalRunRaises, LocalStale, LocalRead, LocalCommit, LocalCommitRaises,
           Apply, Say, MoveTo
  <2>5. ASSUME NEW c \in Calls, Confirm(c) PROVE NoRequestOut'
    BY <2>2, <2>5 DEF Confirm, Say, MoveTo
  <2>6. ASSUME NEW c \in Calls PROVE ~HttpReply(c) /\ ~HttpResult(c)
    BY <2>6 DEF NoRequestOut, HttpReply, ServeTool, HttpRunRaises, ServeCommit, CommitReply,
                HttpCommitRaises, HttpResult, ResultStale, ResultRead, ResultCommits
  <2> QED
    BY <2>1, <2>3, <2>4, <2>5, <2>6
       DEF Next, vars, on_interrupt, SpeechEnds, OtherSessionCommits
<1> QED
  BY <1>1, <1>2, TypeCorrect, PTL DEF Spec

\* What a commit by this session's tools does, validated and stored in one step.
LEMMA LocalCommitWrites ==
  ASSUME IInv, NEW c \in Calls, LocalCommit(c)
  PROVE  \E a \in Answers(db, req[c]) : \E p \in a : \E i \in CommitIds(db, p) :
           /\ Committed(db, i, p) = Obeyed(db, i, req[c])
           /\ Commit(i, p, req[c])
           /\ confirmed' = {BookingAt(db', i)}
<1>1. req[c] \in Request /\ req[c].tool \in Mutating /\ db \in Table
  BY RequestsAssumption DEF IInv, Dispatched, TypeOK, LocalCommit, Mutates
<1>2. PICK a \in Answers(db, req[c]) : \E p \in a : \E i \in CommitIds(db, p) :
        Commit(i, p, req[c]) /\ Apply(c, {StoredRow(i, p)})
  BY DEF LocalCommit
<1>3. PICK p \in a : \E i \in CommitIds(db, p) :
        Commit(i, p, req[c]) /\ Apply(c, {StoredRow(i, p)})
  BY <1>2
<1>4. PICK i \in CommitIds(db, p) : Commit(i, p, req[c]) /\ Apply(c, {StoredRow(i, p)})
  BY <1>3
<1>5. Committed(db, i, p) = Obeyed(db, i, req[c])
  BY <1>1, CommitObeysRequest
<1> QED
  BY <1>4, <1>5 DEF Apply, StoredRow

\* With in-process tools no commit undoes what another call or session wrote in
\* between, although each stores a whole row: validating and committing are one
\* step, and together they do what the request asks for.
THEOREM LocalNoLostUpdate ==
  ASSUME ~Http
  PROVE  Spec => []NoLostUpdate
<1>1. Init => NoLostUpdate
  BY DEF Init, NoLostUpdate
<1>2. IInv /\ NoRequestOut /\ NoLostUpdate /\ [Next]_vars => NoLostUpdate'
  <2> SUFFICES ASSUME IInv, NoRequestOut, NoLostUpdate, [Next]_vars PROVE NoLostUpdate'
    OBVIOUS
  <2>1. CASE UNCHANGED <<db, obeyed>>
    BY <2>1 DEF NoLostUpdate
  <2>2. ASSUME NEW c \in Calls, LocalCommit(c) PROVE NoLostUpdate'
    BY <2>2, LocalCommitWrites DEF Commit, NoLostUpdate
  <2>3. CASE OtherSessionCommits
    <3>1. db \in Table /\ OtherRequests \subseteq {r \in Request : r.tool \in Mutating}
      BY OthersAssumption DEF IInv, TypeOK
    <3>2. \A r \in OtherRequests : \A a \in Answers(db, r) : \A p \in a :
            \A i \in CommitIds(db, p) : Committed(db, i, p) = Obeyed(db, i, r)
      BY <3>1, CommitObeysRequest
    <3> QED
      BY <2>3, <3>2 DEF OtherSessionCommits, Commit, NoLostUpdate
  <2>4. ASSUME NEW c \in Calls PROVE ~ServeCommit(c)
    BY <2>4 DEF NoRequestOut, ServeCommit
  <2> QED
    BY <2>1, <2>2, <2>3, <2>4
       DEF Next, vars, on_interrupt, dispatch_tool, LocalResult, LocalRunRaises, LocalStale,
           LocalRead, LocalCommitRaises, HttpReply, ServeTool, HttpRunRaises, CommitReply,
           HttpCommitRaises, HttpResult, ResultStale, ResultRead, ResultCommits, Confirm,
           SpeechEnds
<1> QED
  BY <1>1, <1>2, Invariance, LocalStages, PTL DEF Spec

\* With in-process tools a call whose turn is over never writes: the check and the
\* commit are one step, so the user cannot barge in between them.
THEOREM LocalStaleNeverWrites ==
  ASSUME ~Http
  PROVE  Spec => StaleNeverWrites
<1> DEFINE Harmless == \A c \in Calls : stage'[c] # stage[c] /\ tag[c] # turnVersion
                                         => UNCHANGED <<db, confirmed>>
<1>1. TypeOK /\ NoRequestOut /\ [Next]_vars => [Harmless]_vars
  <2> SUFFICES ASSUME TypeOK, NoRequestOut, Next PROVE Harmless
    OBVIOUS
  <2>1. CASE UNCHANGED <<db, confirmed>>
    BY <2>1
  <2>2. ASSUME NEW c \in Calls, LocalRead(c) \/ LocalCommit(c) PROVE Harmless
    <3>1. tag[c] = turnVersion
      BY <2>2 DEF LocalRead, LocalCommit, Stale
    <3>2. \A d \in Calls \ {c} : stage'[d] = stage[d]
      BY <2>2 DEF LocalRead, LocalCommit, Apply, Say, MoveTo, TypeOK
    <3> QED
      BY <3>1, <3>2
  <2>3. CASE OtherSessionCommits
    BY <2>3 DEF OtherSessionCommits
  <2>4. ASSUME NEW c \in Calls PROVE ~HttpReply(c) /\ ~HttpResult(c)
    BY <2>4 DEF NoRequestOut, HttpReply, ServeTool, HttpRunRaises, ServeCommit, CommitReply,
                HttpCommitRaises, HttpResult, ResultStale, ResultRead, ResultCommits
  <2> QED
    BY <2>1, <2>2, <2>3, <2>4
       DEF Next, on_interrupt, dispatch_tool, LocalResult, LocalRunRaises, LocalStale,
           LocalCommitRaises, Confirm, SpeechEnds
<1> QED
  BY <1>1, TypeCorrect, LocalStages, PTL DEF Spec, StaleNeverWrites

\* With in-process tools the confirmed state is, when it is set, what the table
\* holds.
THEOREM LocalConfirmedIsStored ==
  ASSUME ~Http
  PROVE  Spec => ConfirmedIsStored
<1> DEFINE Stored == confirmed' # confirmed =>
                        confirmed' \subseteq {BookingAt(db', i) : i \in Existing(db')}
<1>1. IInv /\ NoRequestOut /\ [Next]_vars => [Stored]_vars
  <2> SUFFICES ASSUME IInv, NoRequestOut, Next PROVE Stored
    OBVIOUS
  <2>1. CASE UNCHANGED confirmed
    BY <2>1
  <2>2. ASSUME NEW c \in Calls, LocalCommit(c) PROVE Stored
    <3>1. PICK a \in Answers(db, req[c]) : \E p \in a : \E i \in CommitIds(db, p) :
            Commit(i, p, req[c]) /\ confirmed' = {BookingAt(db', i)}
      BY <2>2, LocalCommitWrites
    <3>2. PICK p \in a : \E i \in CommitIds(db, p) :
            Commit(i, p, req[c]) /\ confirmed' = {BookingAt(db', i)}
      BY <3>1
    <3>3. PICK i \in CommitIds(db, p) :
            Commit(i, p, req[c]) /\ confirmed' = {BookingAt(db', i)}
      BY <3>2
    <3>4. db \in Table /\ req[c] \in Request
      BY <2>2, RequestsAssumption DEF IInv, TypeOK, Dispatched, LocalCommit
    <3>5. p \in Proposal
      BY <3>1, <3>2, <3>4, AnswersType
    <3>6. i \in Existing(db')
      BY <3>3, <3>4, <3>5, CommittedType DEF Commit
    <3> QED
      BY <3>3, <3>6
  <2>3. ASSUME NEW c \in Calls, LocalRead(c) PROVE Stored
    <3>1. PICK a \in Answers(db, req[c]) : confirmed' = a
      BY <2>3 DEF LocalRead, Apply
    <3>2. req[c].tool \notin Mutating /\ db' = db
      BY <2>3 DEF LocalRead, Mutates
    <3>3. a \subseteq {BookingAt(db, i) : i \in Existing(db)}
      <4>1. CASE req[c].tool = "lookup_booking"
        BY <4>1 DEF Answers, lookup_booking
      <4>2. CASE req[c].tool = "find_bookings"
        <5>1. PICK S \in SUBSET Matching(db, req[c]) : a = {BookingAt(db, i) : i \in S}
          BY <4>2 DEF Answers, find_bookings
        <5> QED
          BY <5>1 DEF Matching
      <4> QED
        BY <3>2, <4>1, <4>2 DEF Answers, Mutating
    <3> QED
      BY <3>1, <3>2, <3>3
  <2>4. ASSUME NEW c \in Calls PROVE ~HttpReply(c) /\ ~HttpResult(c)
    BY <2>4 DEF NoRequestOut, HttpReply, ServeTool, HttpRunRaises, ServeCommit, CommitReply,
                HttpCommitRaises, HttpResult, ResultStale, ResultRead, ResultCommits
  <2> QED
    BY <2>1, <2>2, <2>3, <2>4
       DEF Next, on_interrupt, dispatch_tool, LocalResult, LocalRunRaises, LocalStale,
           LocalCommitRaises, Confirm, SpeechEnds, OtherSessionCommits
<1> QED
  BY <1>1, Invariance, LocalStages, PTL DEF Spec, ConfirmedIsStored

\* With in-process tools and no reply hook, nothing but the current turn's reply is
\* ever being spoken.
THEOREM UnhookedPlayingIsCurrent ==
  ASSUME ~Http, ~ReplyHook
  PROVE  Spec => []PlayingIsCurrent
<1> DEFINE Inv == PlayingIsCurrent /\ NoRequestOut /\ \A c \in Calls : stage[c] # "confirming"
<1>1. Init => Inv
  BY DEF Init, PlayingIsCurrent, NoRequestOut
<1>2. TypeOK /\ NoRequestOut' /\ Inv /\ [Next]_vars => Inv'
  <2> SUFFICES ASSUME TypeOK, NoRequestOut', Inv, [Next]_vars PROVE Inv'
    OBVIOUS
  <2>1. CASE UNCHANGED vars
    BY <2>1 DEF vars, PlayingIsCurrent
  <2>2. CASE on_interrupt
    BY <2>2 DEF on_interrupt, PlayingIsCurrent
  <2>3. ASSUME NEW c \in Calls, NEW r \in Requests, dispatch_tool(c, r) PROVE Inv'
    BY <2>3 DEF dispatch_tool, PlayingIsCurrent, TypeOK
  <2>4. ASSUME NEW c \in Calls, LocalResult(c) PROVE Inv'
    BY <2>4 DEF LocalResult, LocalRunRaises, LocalStale, LocalRead, LocalCommit,
                LocalCommitRaises, Apply, Say, MoveTo, Stale, PlayingIsCurrent, TypeOK
  <2>5. ASSUME NEW c \in Calls PROVE ~HttpReply(c) /\ ~HttpResult(c) /\ ~Confirm(c)
    BY <2>5 DEF NoRequestOut, HttpReply, ServeTool, HttpRunRaises, ServeCommit, CommitReply,
                HttpCommitRaises, HttpResult, ResultStale, ResultRead, ResultCommits, Confirm
  <2>6. CASE SpeechEnds
    BY <2>6 DEF SpeechEnds, PlayingIsCurrent
  <2>7. CASE OtherSessionCommits
    BY <2>7 DEF OtherSessionCommits, PlayingIsCurrent
  <2> QED
    BY <2>1, <2>2, <2>3, <2>4, <2>5, <2>6, <2>7 DEF Next
<1>3. Spec => []Inv
  BY <1>1, <1>2, TypeCorrect, LocalStages, PTL DEF Spec
<1> QED
  BY <1>3, PTL

-----------------------------------------------------------------------------
(* Proposals that nobody has overtaken, with either client.                *)

\* The proposal of a call whose booking nobody has written since its tool read it is
\* what the tool would still answer.
Undisturbed ==
  \A c \in Calls \ raced : Proposing(c) => answer[c] \in Answers(db, req[c])

\* A commit leaves the proposals alone that are not for the booking it writes.
LEMMA CommitSpares ==
  ASSUME IInv, Undisturbed, NEW i \in Ids, NEW p \in Proposal, NEW r, Commit(i, p, r), db' \in Table,
         NEW c \in Calls \ raced', Proposing(c)
  PROVE  answer[c] \in Answers(db', req[c])
<1>1. c \in Calls \ raced /\ c \notin ReadersOf(i)
  BY DEF Commit
<1>2. req[c] \in Request /\ req[c].tool \in Mutating /\ db \in Table
  BY RequestsAssumption DEF IInv, Dispatched, TypeOK, Proposing, Mutates
<1>3. req[c].tool # "create_booking" => db[req[c].id] = db'[req[c].id]
  <2> SUFFICES ASSUME req[c].tool # "create_booking"
               PROVE  db[req[c].id] = db'[req[c].id]
    OBVIOUS
  <2>1. req[c].id # i
    BY <1>1 DEF ReadersOf
  <2>2. \A j \in Ids : j # i => Committed(db, i, p)[j] = db[j]
    BY <1>2 DEF Committed, Table
  <2> QED
    BY <1>2, <2>1, <2>2 DEF Commit, Request
<1>4. Answers(db', req[c]) = Answers(db, req[c])
  BY <1>2, <1>3, AnswersReadOneRow
<1> QED
  BY <1>1, <1>4 DEF Undisturbed

LEMMA NextUndisturbed ==
  ASSUME IInv, IInv', Undisturbed, [Next]_vars
  PROVE  Undisturbed'
<1> SUFFICES ASSUME NEW c \in Calls \ raced', Proposing(c)'
             PROVE  answer'[c] \in Answers(db', req'[c])
  BY DEF Undisturbed
<1>0. stage \in [Calls -> Stages] /\ answer \in [Calls -> SUBSET Proposal] /\ db' \in Table
      /\ req \in [Calls -> Request \cup {None}]
  BY DEF IInv, TypeOK
<1>1. ASSUME c \notin raced, Proposing(c), UNCHANGED <<db, req>>, answer'[c] = answer[c]
      PROVE  answer'[c] \in Answers(db', req'[c])
  BY <1>1 DEF Undisturbed
<1>2. CASE UNCHANGED vars
  BY <1>1, <1>2 DEF vars, Proposing, Mutates
<1>3. ASSUME NEW d \in Calls, ServeTool(d)
      PROVE  answer'[c] \in Answers(db', req'[c])
  <2>1. CASE c = d
    BY <1>0, <1>3, <2>1 DEF ServeTool
  <2>2. CASE c # d
    BY <1>0, <1>1, <1>3, <2>2 DEF ServeTool, MoveTo, Proposing, Mutates
  <2> QED
    BY <2>1, <2>2
<1>4. ASSUME NEW d \in Calls, ServeCommit(d)
      PROVE  answer'[c] \in Answers(db', req'[c])
  <2>1. c # d
    BY <1>0, <1>4 DEF ServeCommit, MoveTo, Proposing
  <2>2. PICK p \in answer[d] : \E i \in CommitIds(db, p) : Commit(i, p, req[d])
    BY <1>4 DEF ServeCommit
  <2>3. PICK i \in CommitIds(db, p) : Commit(i, p, req[d])
    BY <2>2
  <2>4. i \in Ids /\ p \in Proposal
    <3>1. p \in Proposal
      BY <1>0, <2>2
    <3>2. i \in Ids
      BY <2>3 DEF CommitIds, Existing
    <3> QED
      BY <3>1, <3>2
  <2>5. answer'[c] = answer[c] /\ req' = req /\ Proposing(c)
    <3>1. answer'[c] = answer[c]
      BY <1>0, <1>4, <2>1 DEF ServeCommit
    <3>2. req' = req /\ Proposing(c)
      BY <1>0, <1>4, <2>1 DEF ServeCommit, MoveTo, Proposing, Mutates
    <3> QED
      BY <3>1, <3>2
  <2>6. answer[c] \in Answers(db', req[c])
    BY <1>0, <2>3, <2>4, <2>5, CommitSpares
  <2> QED
    BY <2>5, <2>6
<1>5. ASSUME NEW d \in Calls, LocalCommit(d)
      PROVE  answer'[c] \in Answers(db', req'[c])
  <2>1. PICK a \in Answers(db, req[d]) : \E p \in a : \E i \in CommitIds(db, p) :
          Commit(i, p, req[d]) /\ Apply(d, {StoredRow(i, p)})
    BY <1>5 DEF LocalCommit
  <2>2. PICK p \in a : \E i \in CommitIds(db, p) :
          Commit(i, p, req[d]) /\ Apply(d, {StoredRow(i, p)})
    BY <2>1
  <2>3. PICK i \in CommitIds(db, p) : Commit(i, p, req[d]) /\ Apply(d, {StoredRow(i, p)})
    BY <2>2
  <2>4. i \in Ids /\ p \in Proposal
    <3>1. p \in Proposal
      BY <1>5, <2>1, <2>2, MutationAnswer DEF LocalCommit
    <3>2. i \in Ids
      BY <2>3 DEF CommitIds, Existing
    <3> QED
      BY <3>1, <3>2
  <2>5. answer' = answer /\ req' = req /\ Proposing(c)
    BY <1>0, <1>5, <2>3 DEF LocalCommit, Apply, Say, MoveTo, Proposing, Mutates
  <2>6. answer[c] \in Answers(db', req[c])
    BY <1>0, <2>3, <2>4, <2>5, CommitSpares
  <2> QED
    BY <2>5, <2>6
<1>6. CASE OtherSessionCommits
  <2>1. PICK r \in OtherRequests : \E a \in Answers(db, r) : \E p \in a :
          \E i \in CommitIds(db, p) : Commit(i, p, r)
    BY <1>6 DEF OtherSessionCommits
  <2>2. PICK a \in Answers(db, r) : \E p \in a : \E i \in CommitIds(db, p) : Commit(i, p, r)
    BY <2>1
  <2>3. PICK p \in a : \E i \in CommitIds(db, p) : Commit(i, p, r)
    BY <2>2
  <2>4. PICK i \in CommitIds(db, p) : Commit(i, p, r)
    BY <2>3
  <2>5. i \in Ids /\ p \in Proposal
    <3>1. r \in Request /\ r.tool \in Mutating /\ db \in Table
      BY OthersAssumption DEF IInv, TypeOK
    <3>2. p \in Proposal
      BY <3>1, ProposalShape
    <3>3. i \in Ids
      BY <2>4 DEF CommitIds, Existing
    <3> QED
      BY <3>2, <3>3
  <2>6. answer' = answer /\ req' = req /\ Proposing(c)
    BY <1>6 DEF OtherSessionCommits, Proposing, Mutates
  <2>7. answer[c] \in Answers(db', req[c])
    BY <1>0, <2>4, <2>5, <2>6, CommitSpares
  <2> QED
    BY <2>6, <2>7
<1>7. ASSUME NEW d \in Calls, NEW r \in Requests, dispatch_tool(d, r)
      PROVE  answer'[c] \in Answers(db', req'[c])
  <2>1. c # d
    BY <1>0, <1>7 DEF dispatch_tool, Proposing
  <2> QED
    BY <1>0, <1>7, <2>1 DEF dispatch_tool, Proposing, Mutates, Undisturbed
<1>8. ASSUME NEW d \in Calls, NEW s, s \notin {"answered", "committing", "abandoned"},
             stage' = [stage EXCEPT ![d] = s], UNCHANGED <<db, req, answer, raced>>
      PROVE  answer'[c] \in Answers(db', req'[c])
  BY <1>0, <1>1, <1>8 DEF Proposing, Mutates
<1>9. ASSUME NEW d \in Calls, ResultCommits(d)
      PROVE  answer'[c] \in Answers(db', req'[c])
  BY <1>0, <1>1, <1>9 DEF ResultCommits, MoveTo, Proposing, Mutates
<1>10. ASSUME NEW d \in Calls, HttpCommitRaises(d)
       PROVE  answer'[c] \in Answers(db', req'[c])
  BY <1>0, <1>1, <1>10 DEF HttpCommitRaises, MoveTo, Proposing, Mutates
<1>11. ASSUME NEW d \in Calls,
              \/ LocalRunRaises(d) \/ LocalStale(d) \/ LocalRead(d) \/ LocalCommitRaises(d)
              \/ HttpRunRaises(d) \/ CommitReply(d) \/ ResultStale(d) \/ ResultRead(d)
              \/ Confirm(d)
       PROVE  answer'[c] \in Answers(db', req'[c])
  BY <1>8, <1>11
     DEF LocalRunRaises, LocalStale, LocalRead, LocalCommitRaises, HttpRunRaises, CommitReply,
         ResultStale, ResultRead, Confirm, Apply, Say, MoveTo
<1>12. CASE on_interrupt \/ SpeechEnds
  BY <1>1, <1>12 DEF on_interrupt, SpeechEnds, Proposing, Mutates
<1> QED
  BY <1>2, <1>3, <1>4, <1>5, <1>6, <1>7, <1>9, <1>10, <1>11, <1>12
     DEF Next, LocalResult, HttpReply, HttpResult

\* Over HTTP, where a proposal is written in a later request than the one it was read
\* in, and perhaps after the client has given up: a commit does what the request asks
\* for and nothing else, unless someone wrote the same booking in between.
THEOREM UndisturbedCommitsObey == Spec => UndisturbedCommitObeys
<1> DEFINE Targets(c) == IF req[c].tool = "create_booking" THEN Ids \ Existing(db) ELSE {req[c].id}
           Commits(c) == Proposing(c) /\ stage'[c] # stage[c] /\ (stage'[c] = "committed" \/ db' # db)
           Obeys == \A c \in Calls \ raced :
                      Commits(c) => \E i \in Targets(c) : db' = Obeyed(db, i, req[c])
<1>1. Init => Undisturbed
  BY DEF Init, Undisturbed, Proposing
<1>2. IInv /\ Undisturbed /\ [Next]_vars => [Obeys]_vars
  <2> SUFFICES ASSUME IInv, Undisturbed, Next,
                      NEW c \in Calls \ raced, Commits(c)
               PROVE  \E i \in Targets(c) : db' = Obeyed(db, i, req[c])
    OBVIOUS
  <2>0. stage \in [Calls -> Stages] /\ answer \in [Calls -> SUBSET Proposal]
    BY DEF IInv, TypeOK
  <2>1. ServeCommit(c)
    <3>1. ASSUME NEW d \in Calls, NEW s, stage' = [stage EXCEPT ![d] = s], s # "committed", db' = db
          PROVE  FALSE
      BY <2>0, <3>1
    <3>2. ASSUME NEW d \in Calls, ServeCommit(d)
          PROVE  d = c
      BY <2>0, <3>2 DEF ServeCommit, MoveTo
    <3>3. ASSUME NEW d \in Calls, LocalCommit(d)
          PROVE  FALSE
      <4>1. d = c
        BY <2>0, <3>3 DEF LocalCommit, Apply, Say, MoveTo
      <4> QED
        BY <3>3, <4>1 DEF LocalCommit, Proposing
    <3>4. stage' # stage
      OBVIOUS
    <3> QED
      BY <3>1, <3>2, <3>3, <3>4
         DEF Next, on_interrupt, dispatch_tool, LocalResult, LocalRunRaises, LocalStale, LocalRead,
             LocalCommitRaises, HttpReply, ServeTool, HttpRunRaises, CommitReply, HttpCommitRaises,
             HttpResult, ResultStale, ResultRead, ResultCommits, Confirm, SpeechEnds,
             OtherSessionCommits, Apply, Say, MoveTo
  <2>2. PICK p \in answer[c] : \E i \in CommitIds(db, p) : Commit(i, p, req[c])
    BY <2>1 DEF ServeCommit
  <2>3. PICK i \in CommitIds(db, p) : Commit(i, p, req[c])
    BY <2>2
  <2>4. answer[c] \in Answers(db, req[c])
    BY DEF Undisturbed
  <2>5. req[c] \in Request /\ req[c].tool \in Mutating /\ db \in Table
    BY RequestsAssumption DEF IInv, Dispatched, TypeOK, Proposing, Mutates
  <2>6. Committed(db, i, p) = Obeyed(db, i, req[c])
    BY <2>4, <2>5, CommitObeysRequest
  <2>7. i \in Targets(c)
    <3>1. p.id = None <=> req[c].tool = "create_booking"
      BY <2>4, <2>5, ProposalShape
    <3>2. p.id # None => p.id = req[c].id
      BY <2>4, <2>5, ProposalShape
    <3> QED
      BY <2>3, <3>1, <3>2 DEF CommitIds
  <2> QED
    BY <2>3, <2>6, <2>7 DEF Commit
<1>3. IInv /\ IInv' /\ Undisturbed /\ [Next]_vars => Undisturbed'
  BY NextUndisturbed
<1>4. Spec => []Undisturbed
  BY <1>1, <1>3, Invariance, PTL DEF Spec
<1>5. Spec => [][Obeys]_vars
  BY <1>2, <1>4, Invariance, PTL DEF Spec
<1> QED
  BY <1>5, PTL DEF UndisturbedCommitObeys

-----------------------------------------------------------------------------
(* The gate.                                                               *)

Decisions == [c \in Calls |-> OutcomeOf(stage[c])]

\* A call that moves to another stage changes its own outcome and no other.
LEMMA OutcomeMoves ==
  ASSUME TypeOK, NEW c \in Calls, NEW s, stage' = [stage EXCEPT ![c] = s]
  PROVE  Decisions' = [Decisions EXCEPT ![c] = OutcomeOf(s)]
BY DEF Decisions, TypeOK

\* A move between stages with the same outcome leaves every outcome as it is.
LEMMA OutcomeStays ==
  ASSUME TypeOK, NEW c \in Calls, NEW s, MoveTo(c, s), OutcomeOf(s) = OutcomeOf(stage[c])
  PROVE  Decisions' = Decisions
<1>1. Decisions' = [Decisions EXCEPT ![c] = OutcomeOf(s)]
  BY OutcomeMoves DEF MoveTo
<1> QED
  BY <1>1 DEF Decisions

\* Confirming and wording the reply of a call, fresh or already accepted, accepts it.
LEMMA ApplyAccepts ==
  ASSUME TypeOK, NEW c \in Calls, NEW payload, Apply(c, payload)
  PROVE  Decisions' = [Decisions EXCEPT ![c] = "accepted"]
<1>1. stage' = [stage EXCEPT ![c] = "confirming"] \/ stage' = [stage EXCEPT ![c] = "spoken"]
  BY DEF Apply, Say, MoveTo
<1>2. OutcomeOf("confirming") = "accepted" /\ OutcomeOf("spoken") = "accepted"
  BY DEF OutcomeOf
<1> QED
  BY <1>1, <1>2, OutcomeMoves

\* Over either client, with or without a hook, the session implements the gate:
\* each call is decided once, accepted only in the turn it was dispatched in and
\* rejected only after it.
THEOREM SessionImplementsGate == Spec => ImplementsGate
<1> USE DEF OutcomeOf
<1>1. Init => Gate!GateInit
  BY DEF Init, StartVersion, Gate!GateInit
<1>2. TypeOK /\ [Next]_vars => [Gate!GateNext]_(Gate!gateVars)
  <2> SUFFICES ASSUME TypeOK, [Next]_vars
               PROVE  Gate!GateNext \/ UNCHANGED <<turnVersion, tag, Decisions>>
    BY DEF Gate!gateVars, Decisions
  <2>1. CASE UNCHANGED vars
    BY <2>1 DEF vars, Decisions
  <2>2. CASE on_interrupt
    BY <2>2 DEF on_interrupt, Gate!GateNext, Gate!NewTurn
  <2>3. ASSUME NEW c \in Calls, NEW r \in Requests, dispatch_tool(c, r) PROVE Gate!Open(c)
    <3>1. Decisions' = [Decisions EXCEPT ![c] = "open"]
      BY <2>3, OutcomeMoves DEF dispatch_tool
    <3> QED
      BY <2>3, <3>1 DEF dispatch_tool, Gate!Open, Decisions
  <2>4. ASSUME NEW c \in Calls, UNCHANGED <<turnVersion, tag>>, OutcomeOf(stage[c]) = "open",
               NEW v, Decisions' = [Decisions EXCEPT ![c] = v]
        PROVE  Gate!Decide(c, v)
    BY <2>4 DEF Gate!Decide, Decisions
  <2>5. ASSUME NEW c \in Calls, LocalRunRaises(c) \/ HttpRunRaises(c) PROVE Gate!Lose(c)
    BY <2>4, <2>5, OutcomeMoves DEF LocalRunRaises, HttpRunRaises, MoveTo, Gate!Lose
  <2>6. ASSUME NEW c \in Calls, LocalStale(c) \/ ResultStale(c) PROVE Gate!Reject(c)
    BY <2>4, <2>6, OutcomeMoves DEF LocalStale, ResultStale, MoveTo, Stale, Gate!Reject
  <2>7. ASSUME NEW c \in Calls,
               LocalRead(c) \/ LocalCommit(c) \/ LocalCommitRaises(c)
               \/ ResultRead(c) \/ ResultCommits(c)
        PROVE  Gate!Accept(c)
    <3>1. tag[c] = turnVersion /\ OutcomeOf(stage[c]) = "open" /\ UNCHANGED <<turnVersion, tag>>
      BY <2>7 DEF LocalRead, LocalCommit, LocalCommitRaises, ResultRead, ResultCommits, Stale
    <3>2. Decisions' = [Decisions EXCEPT ![c] = "accepted"]
      <4>1. CASE LocalRead(c) \/ LocalCommit(c) \/ ResultRead(c)
        BY <4>1, ApplyAccepts DEF LocalRead, LocalCommit, ResultRead
      <4>2. CASE LocalCommitRaises(c) \/ ResultCommits(c)
        BY <4>2, OutcomeMoves DEF LocalCommitRaises, ResultCommits, MoveTo
      <4> QED
        BY <2>7, <4>1, <4>2
    <3> QED
      BY <2>4, <3>1, <3>2 DEF Gate!Accept
  <2>8. ASSUME NEW c \in Calls,
               ServeTool(c) \/ ServeCommit(c) \/ CommitReply(c) \/ HttpCommitRaises(c) \/ Confirm(c)
        PROVE  UNCHANGED <<turnVersion, tag, Decisions>>
    <3>1. UNCHANGED <<turnVersion, tag>>
      BY <2>8 DEF ServeTool, ServeCommit, CommitReply, HttpCommitRaises, Confirm
    <3>2. CASE ServeTool(c) \/ ServeCommit(c) \/ HttpCommitRaises(c) \/ Confirm(c)
      BY <3>1, <3>2, OutcomeStays DEF ServeTool, ServeCommit, HttpCommitRaises, Confirm, Say
    <3>3. CASE CommitReply(c)
      <4>1. Decisions' = [Decisions EXCEPT ![c] = "accepted"] /\ Decisions[c] = "accepted"
        BY <3>3, ApplyAccepts DEF CommitReply, Decisions
      <4> QED
        BY <3>1, <4>1 DEF Decisions
    <3> QED
      BY <2>8, <3>2, <3>3
  <2>9. CASE SpeechEnds \/ OtherSessionCommits
    BY <2>9 DEF SpeechEnds, OtherSessionCommits, Decisions
  <2> QED
    BY <2>1, <2>2, <2>3, <2>5, <2>6, <2>7, <2>8, <2>9
       DEF Next, LocalResult, HttpReply, HttpResult, Gate!GateNext
<1> QED
  BY <1>1, <1>2, TypeCorrect, PTL DEF Spec, ImplementsGate, Gate!GateSpec

\* What is left of "stale is neither spoken nor committed" over HTTP and with a hook,
\* where tm_http_write and tm_hook_speech refute it: a call writes, confirms or begins to
\* speak only once it has been accepted, and it is accepted only in its own turn.  One
\* found stale stays silent for good, as the gate does not decide twice.
OnlyAcceptedActs ==
  [][\A c \in Calls :
       stage'[c] # stage[c]
         /\ (db' # db \/ confirmed' # confirmed \/ playing' \notin {playing, None})
         => \/ OutcomeOf(stage[c]) = "accepted"
            \/ OutcomeOf(stage'[c]) = "accepted" /\ tag[c] = turnVersion]_vars

\* Either client, with or without a hook: calls act only once they are accepted.
THEOREM ActingIsAccepted == Spec => OnlyAcceptedActs
<1> DEFINE Acts == db' # db \/ confirmed' # confirmed \/ playing' \notin {playing, None}
           Accepted(c) == \/ OutcomeOf(stage[c]) = "accepted"
                          \/ OutcomeOf(stage'[c]) = "accepted" /\ tag[c] = turnVersion
<1>1. TypeOK /\ [Next]_vars => [\A c \in Calls : stage'[c] # stage[c] /\ Acts => Accepted(c)]_vars
  <2> SUFFICES ASSUME TypeOK, Next, NEW c \in Calls, stage'[c] # stage[c], Acts
               PROVE  Accepted(c)
    OBVIOUS
  <2> USE DEF OutcomeOf, TypeOK, MoveTo
  <2>1. ASSUME NEW d \in Calls, LocalRead(d) \/ LocalCommit(d) \/ ResultRead(d) PROVE Accepted(c)
    <3>1. /\ stage' = [stage EXCEPT ![d] = "confirming"] \/ stage' = [stage EXCEPT ![d] = "spoken"]
          /\ tag[d] = turnVersion
      BY <2>1 DEF LocalRead, LocalCommit, ResultRead, Apply, Say, Stale
    <3>2. c = d
      BY <3>1
    <3> QED
      BY <3>1, <3>2
  <2>2. ASSUME NEW d \in Calls, ServeCommit(d) \/ CommitReply(d) \/ Confirm(d) PROVE Accepted(c)
    <3>1. /\ stage[d] \in {"committing", "abandoned", "committed", "confirming"}
          /\ \E s : stage' = [stage EXCEPT ![d] = s]
      BY <2>2 DEF ServeCommit, CommitReply, Confirm, Apply, Say
    <3>2. c = d
      BY <3>1
    <3> QED
      BY <3>1, <3>2
  <2>3. ASSUME NEW d \in Calls, NEW r \in Requests, dispatch_tool(d, r) PROVE FALSE
    BY <2>3 DEF dispatch_tool
  <2>4. ASSUME NEW d \in Calls,
               \/ LocalRunRaises(d) \/ LocalStale(d) \/ LocalCommitRaises(d) \/ ServeTool(d)
               \/ HttpRunRaises(d) \/ HttpCommitRaises(d) \/ ResultStale(d) \/ ResultCommits(d)
        PROVE  FALSE
    BY <2>4 DEF LocalRunRaises, LocalStale, LocalCommitRaises, ServeTool, HttpRunRaises,
                HttpCommitRaises, ResultStale, ResultCommits
  <2>5. CASE on_interrupt \/ SpeechEnds \/ OtherSessionCommits
    BY <2>5 DEF on_interrupt, SpeechEnds, OtherSessionCommits
  <2> QED
    BY <2>1, <2>2, <2>3, <2>4, <2>5 DEF Next, LocalResult, HttpReply, HttpResult
<1> QED
  BY <1>1, TypeCorrect, PTL DEF Spec, OnlyAcceptedActs
=============================================================================
