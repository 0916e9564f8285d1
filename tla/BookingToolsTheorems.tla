----------------------- MODULE BookingToolsTheorems -----------------------
(* What the booking tools and commit_booking return, for every table,      *)
(* request and proposal.                                                   *)
EXTENDS BookingTools, TLAPS

\* The row a create proposes is a row, whatever the request leaves out.
LEMMA NewRowType ==
  ASSUME NEW r \in Request
  PROVE  NewRow(r) \in Row
BY ValuesAssumption DEF Request, Given, NewRow, Row

\* A tool answers with bookings or proposals: every answer has their type.
LEMMA AnswersType ==
  ASSUME NEW t \in Table, NEW r \in Request, NEW a \in Answers(t, r)
  PROVE  a \in SUBSET Proposal
<1> DEFINE Stored == {BookingAt(t, i) : i \in Existing(t)}
<1>1. \A i \in Existing(t) : t[i] \in Row /\ BookingAt(t, i) \in Proposal
  BY DEF Existing, Table, BookingAt, Proposal
<1>2. CASE r.tool = "lookup_booking"
  BY <1>1, <1>2 DEF Answers, lookup_booking
<1>3. CASE r.tool = "find_bookings"
  <2>1. PICK S \in SUBSET Matching(t, r) : a = {BookingAt(t, i) : i \in S}
    BY <1>3 DEF Answers, find_bookings
  <2> QED
    BY <1>1, <2>1 DEF Matching
<1>4. CASE r.tool = "create_booking"
  BY <1>4, NewRowType DEF Answers, validate_create, Proposal
<1>5. CASE r.tool = "update_booking"
  BY <1>1, <1>5, ValuesAssumption DEF Answers, validate_update, Proposal, Row, Existing, Request, Given
<1>6. CASE r.tool = "cancel_booking"
  BY <1>1, <1>6, ValuesAssumption DEF Answers, validate_cancel, Proposal, Row, Existing
<1> QED
  BY <1>2, <1>3, <1>4, <1>5, <1>6 DEF Answers

\* A mutating tool answers with one proposal.  Only a create's has no id; any
\* other proposal is for the booking of the request, and it exists.
LEMMA ProposalShape ==
  ASSUME NEW t \in Table, NEW r \in Request, r.tool \in Mutating,
         NEW a \in Answers(t, r), NEW p \in a
  PROVE  /\ p \in Proposal
         /\ p.id = None <=> r.tool = "create_booking"
         /\ p.id # None => p.id \in Existing(t) /\ p.id = r.id
<1>1. p \in Proposal
  BY AnswersType
<1>2. CASE r.tool = "create_booking"
  BY <1>1, <1>2 DEF Answers, validate_create
<1>3. CASE r.tool = "update_booking"
  BY <1>1, <1>3, ValuesAssumption DEF Answers, validate_update, Existing
<1>4. CASE r.tool = "cancel_booking"
  BY <1>1, <1>4, ValuesAssumption DEF Answers, validate_cancel, Existing
<1> QED
  BY <1>2, <1>3, <1>4, <1>1 DEF Mutating

\* Of the table a mutating tool reads only the booking its request is for, and a
\* create reads none.
LEMMA AnswersReadOneRow ==
  ASSUME NEW t \in Table, NEW u \in Table, NEW r \in Request, r.tool \in Mutating,
         r.tool # "create_booking" => t[r.id] = u[r.id]
  PROVE  Answers(t, r) = Answers(u, r)
<1>1. CASE r.tool = "create_booking"
  BY <1>1 DEF Answers
<1>2. CASE r.tool # "create_booking"
  <2>1. {r.id} \cap Existing(t) = {r.id} \cap Existing(u)
    BY <1>2 DEF Existing, Request
  <2>2. \A i \in {r.id} \cap Existing(t) : t[i] = u[i]
    BY <1>2
  <2>3. CASE r.tool = "update_booking"
    BY <2>1, <2>2, <2>3 DEF Answers, validate_update
  <2>4. CASE r.tool = "cancel_booking"
    BY <2>1, <2>2, <2>4 DEF Answers, validate_cancel
  <2> QED
    BY <1>2, <2>3, <2>4 DEF Mutating
<1> QED
  BY <1>1, <1>2

\* A commit leaves a table that has one row more or as many as before, and the
\* row it wrote is a row.
LEMMA CommittedType ==
  ASSUME NEW t \in Table, NEW p \in Proposal, NEW i \in CommitIds(t, p)
  PROVE  /\ i \in Ids
         /\ Committed(t, i, p) \in Table
         /\ Committed(t, i, p)[i] \in Row
         /\ Existing(Committed(t, i, p)) = Existing(t) \cup {i}
<1>1. i \in Ids /\ (p.id # None => t[i] \in Row)
  BY DEF CommitIds, Existing, Table
<1> DEFINE new == IF p.id = None THEN p.row
                  ELSE [f \in Fields |-> IF p.row[f] = None THEN t[i][f] ELSE p.row[f]]
<1>2. new \in Row
  BY <1>1 DEF Proposal, Row
<1>3. Committed(t, i, p) = [t EXCEPT ![i] = new]
  BY DEF Committed
<1> QED
  BY <1>1, <1>2, <1>3, ValuesAssumption DEF Table, Existing

\* So does the reference, when the row it changes is there.
LEMMA ObeyedType ==
  ASSUME NEW t \in Table, NEW r \in Request, NEW i \in Ids,
         r.tool # "create_booking" => i \in Existing(t)
  PROVE  /\ Obeyed(t, i, r) \in Table
         /\ Existing(Obeyed(t, i, r)) = Existing(t) \cup {i}
<1>1. Wanted(t[i], r) \in Row
  <2>1. CASE r.tool = "create_booking"
    BY <2>1, ValuesAssumption DEF Wanted, Unspecified, Row, Fields
  <2>2. CASE r.tool # "create_booking"
    <3>1. t[i] \in Row
      BY <2>2 DEF Existing, Table
    <3> QED
      BY <2>2, <3>1, ValuesAssumption DEF Wanted, Row
  <2> QED
    BY <2>1, <2>2
<1> QED
  BY <1>1, ValuesAssumption DEF Obeyed, Table, Existing

-----------------------------------------------------------------------------
(* What a proposal does when it is committed on the table it was read from *)
(* or on a later one.                                                      *)

\* The columns a request says nothing about: its proposal repeats what they held.
Untold(r) ==
  CASE r.tool = "create_booking" -> {}
    [] r.tool = "cancel_booking" -> Fields \ {"status"}
    [] OTHER -> {f \in Fields : r.given[f] = Absent}

\* The row a proposal read from t holds, and the one its request wants, differ only
\* in what t held.
LEMMA ProposalRepeats ==
  ASSUME NEW t \in Table, NEW r \in Request, r.tool \in Mutating \ {"create_booking"},
         NEW a \in Answers(t, r), NEW p \in a, NEW row \in Row
  PROVE  /\ p.id = r.id /\ p.id \in Existing(t)
         /\ \A f \in Untold(r) : p.row[f] = t[p.id][f] /\ Wanted(row, r)[f] = row[f]
         /\ \A f \in Fields \ Untold(r) :
              Wanted(row, r)[f] = IF p.row[f] = None THEN row[f] ELSE p.row[f]
<1>1. p.id = r.id /\ p.id \in Existing(t) /\ t[p.id] \in Row
  BY ProposalShape DEF Mutating, Existing, Table
<1>2. CASE r.tool = "update_booking"
  <2>1. p.row = [f \in Fields |-> IF r.given[f] = Absent THEN t[p.id][f] ELSE r.given[f]]
    BY <1>1, <1>2 DEF Answers, validate_update
  <2>2. Untold(r) = {f \in Fields : r.given[f] = Absent}
    BY <1>2 DEF Untold
  <2>3. Wanted(row, r) = [f \in Fields |-> IF r.given[f] \in Values THEN r.given[f] ELSE row[f]]
    BY <1>2 DEF Wanted
  <2>4. \A f \in Fields : r.given[f] \in Values \cup {None, Absent}
    BY DEF Request, Given
  <2> QED
    BY <1>1, <2>1, <2>2, <2>3, <2>4, ValuesAssumption
<1>3. CASE r.tool = "cancel_booking"
  <2>1. p.row = [t[p.id] EXCEPT !["status"] = "cancelled"]
    BY <1>1, <1>3 DEF Answers, validate_cancel
  <2>2. /\ Untold(r) = Fields \ {"status"}
        /\ Wanted(row, r) = [row EXCEPT !["status"] = "cancelled"]
    BY <1>3 DEF Untold, Wanted
  <2> QED
    BY <1>1, <2>1, <2>2, ValuesAssumption DEF Row, Fields
<1> QED
  BY <1>2, <1>3 DEF Mutating

\* A proposal that was read from t and is committed on u, as over HTTP with anything
\* in between, does what its request asks for exactly if every column the request
\* says nothing about still holds what t held, unless that is NULL.  What others
\* have changed in the columns the request does name is overwritten rightly.
THEOREM StaleCommitObeys ==
  ASSUME NEW t \in Table, NEW u \in Table, NEW r \in Request, r.tool \in Mutating,
         NEW a \in Answers(t, r), NEW p \in a, NEW i \in CommitIds(u, p)
  PROVE  Committed(u, i, p) = Obeyed(u, i, r)
           <=> \A f \in Untold(r) : t[i][f] \in {None, u[i][f]}
<1>1. CASE r.tool = "create_booking"
  <2>1. p.id = None /\ p.row = NewRow(r)
    BY <1>1 DEF Answers, validate_create
  <2>2. \A f \in Required : p.row[f] # None
    BY <2>1 DEF CommitIds
  <2>3. Wanted(u[i], r) = NewRow(r)
    <3>1. \A f \in Fields : r.given[f] \in Values \cup {None, Absent}
      BY DEF Request, Given
    <3>2. \A f \in Fields : Wanted(u[i], r)[f] = NewRow(r)[f]
      BY <1>1, <2>1, <2>2, <3>1, ValuesAssumption
         DEF Wanted, Unspecified, NewRow, Required, Fields
    <3> QED
      BY <1>1, <3>2 DEF Wanted, NewRow
  <2>4. Committed(u, i, p) = Obeyed(u, i, r)
    BY <2>1, <2>3 DEF Committed, Obeyed
  <2> QED
    BY <1>1, <2>4 DEF Untold
<1>2. CASE r.tool # "create_booking"
  <2> DEFINE stored == [f \in Fields |-> IF p.row[f] = None THEN u[i][f] ELSE p.row[f]]
             wanted == Wanted(u[i], r)
  <2>1. p.id # None /\ p.id = r.id /\ r.id \in Ids
    BY <1>2, ProposalShape DEF Request
  <2>2. i = p.id /\ i \in Ids /\ u[i] \in Row
    BY <2>1 DEF CommitIds, Existing, Table
  <2>3. /\ \A f \in Untold(r) : p.row[f] = t[i][f] /\ wanted[f] = u[i][f]
        /\ \A f \in Fields \ Untold(r) :
             wanted[f] = IF p.row[f] = None THEN u[i][f] ELSE p.row[f]
    BY <1>2, <2>2, ProposalRepeats
  <2>4. wanted \in [Fields -> Values \cup {None}]
    BY <2>2, <1>2, ValuesAssumption DEF Wanted, Row
  <2>5. Untold(r) \subseteq Fields
    BY DEF Untold
  <2>6. Committed(u, i, p) = [u EXCEPT ![i] = stored] /\ Obeyed(u, i, r) = [u EXCEPT ![i] = wanted]
    BY <2>1 DEF Committed, Obeyed
  <2> HIDE DEF wanted
  <2>7. stored = wanted <=> \A f \in Fields : stored[f] = wanted[f]
    BY <2>4
  <2>8. stored = wanted <=> \A f \in Untold(r) : t[i][f] \in {None, u[i][f]}
    BY <2>3, <2>5, <2>7
  <2> HIDE DEF stored
  <2>9. Committed(u, i, p) = Obeyed(u, i, r) <=> stored = wanted
    <3>1. \A x : [u EXCEPT ![i] = x][i] = x
      BY <2>2 DEF Table
    <3>2. [u EXCEPT ![i] = stored] = [u EXCEPT ![i] = wanted] => stored = wanted
      <4> SUFFICES ASSUME [u EXCEPT ![i] = stored] = [u EXCEPT ![i] = wanted]
                   PROVE  stored = wanted
        OBVIOUS
      <4>1. [u EXCEPT ![i] = stored][i] = stored /\ [u EXCEPT ![i] = wanted][i] = wanted
        BY <3>1
      <4> QED
        BY <4>1, Zenon
    <3> QED
      BY <2>6, <3>2, Zenon
  <2> QED
    BY <2>8, <2>9
<1> QED
  BY <1>1, <1>2

\* Validating a request and committing the proposal at once does what the request
\* asks for and nothing else: storing the whole row changes only the columns the
\* request gives a value for.
THEOREM CommitObeysRequest ==
  ASSUME NEW t \in Table, NEW r \in Request, r.tool \in Mutating,
         NEW a \in Answers(t, r), NEW p \in a, NEW i \in CommitIds(t, p)
  PROVE  Committed(t, i, p) = Obeyed(t, i, r)
BY StaleCommitObeys
=============================================================================
