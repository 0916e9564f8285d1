---------------------------- MODULE BookingTools ----------------------------
(***************************************************************************)
(* The bookings table and the five booking tools of backend/tools.py, as   *)
(* pure operators over a table.  A tool either raises or returns; what it  *)
(* may return is given as the SET of its possible answers, so a tool that  *)
(* raises is one whose set of answers is empty.  The mutating tools only   *)
(* validate: they answer with a proposal, the whole row that               *)
(* commit_booking would store.                                             *)
(*                                                                         *)
(* Columns keep their names; what a column holds is an abstract value.     *)
(* PartOf is the relation "this query text occurs in that column text"     *)
(* behind contains() and ilike().                                          *)
(***************************************************************************)
EXTENDS Naturals, FiniteSets

CONSTANTS
  Ids,        \* primary keys; those without a row are free
  Values,     \* what a column can hold
  PartOf,     \* <<query, text>>: the query text matches the column text
  Blank,      \* the texts that hold no word
  FindLimit,  \* find_bookings answers with at most this many rows
  None,       \* SQL NULL, Python None, and the id of a row not yet stored
  Absent,     \* a key the caller left out of the arguments
  NoRow       \* no row is stored under this id

Fields == {"customer_name", "phone", "date", "time", "service_type", "status"}

\* The columns declared nullable=False.
Required == Fields \ {"phone"}

Row == [Fields -> Values \cup {None}]
Table == [Ids -> Row \cup {NoRow}]

Mutating == {"create_booking", "update_booking", "cancel_booking"}
Tools == Mutating \cup {"lookup_booking", "find_bookings", "unknown"}

\* A request names a tool, a booking and the values it gives for the columns:
\* the `changes` of an update, the columns of a create, the query of a find.
Given == [Fields -> Values \cup {None, Absent}]
Request == [tool : Tools, id : Ids, given : Given]

\* booking_to_dict: a stored row with its id.  A proposal may lack the id.
Booking == [id : Ids, row : Row]
Proposal == [id : Ids \cup {None}, row : Row]

ASSUME ValuesAssumption ==
  /\ {"confirmed", "cancelled", "Haircut"} \subseteq Values
  /\ None \notin Values /\ None \notin Ids
  /\ Absent \notin Values /\ Absent # None
  /\ Blank \subseteq Values
  /\ NoRow \notin Row
  /\ FindLimit \in Nat

-----------------------------------------------------------------------------
Existing(t) == {i \in Ids : t[i] # NoRow}

BookingAt(t, i) == [id |-> i, row |-> t[i]]

\* lookup_booking: BookingNotFound when the id has no row.
lookup_booking(t, r) ==
  {{BookingAt(t, i)} : i \in {r.id} \cap Existing(t)}

\* The column find_bookings filters on: the phone when one is given, else the
\* name, else none.
Searched(r) ==
  IF r.given["phone"] \in Values THEN {"phone"}
  ELSE IF r.given["customer_name"] \in Values THEN {"customer_name"}
  ELSE {}

Matching(t, r) ==
  {i \in Existing(t) : \A f \in Searched(r) : <<r.given[f], t[i][f]>> \in PartOf}

\* A name is searched for by its first word: IndexError if it has none.
Searchable(r) == Searched(r) = {"customer_name"} => r.given["customer_name"] \notin Blank

\* find_bookings: the matching rows, the first FindLimit by date when there are
\* more.  Dates are not ordered here, so any FindLimit of them may be the first.
find_bookings(t, r) ==
  LET Limited(S) == /\ Searchable(r)
                    /\ Cardinality(S) <= FindLimit
                    /\ S # Matching(t, r) => Cardinality(S) = FindLimit
  IN {{BookingAt(t, i) : i \in S} : S \in {F \in SUBSET Matching(t, r) : Limited(F)}}

\* validate_create: name, date and time must be present (KeyError otherwise);
\* the service has a default, an empty phone is NULL, the status is fixed.
NewRow(r) ==
  [f \in Fields |->
     IF f = "status" THEN "confirmed"
     ELSE IF r.given[f] # Absent THEN r.given[f]
     ELSE IF f = "service_type" THEN "Haircut" ELSE None]

validate_create(r) ==
  IF \A f \in {"customer_name", "date", "time"} : r.given[f] # Absent
  THEN {{[id |-> None, row |-> NewRow(r)]}} ELSE {}

\* validate_update: the stored row overlaid with the changes, None included.
validate_update(t, r) ==
  {{[id |-> i,
     row |-> [f \in Fields |-> IF r.given[f] = Absent THEN t[i][f] ELSE r.given[f]]]} :
     i \in {r.id} \cap Existing(t)}

\* validate_cancel: the stored row with its status changed.
validate_cancel(t, r) ==
  {{[id |-> i, row |-> [t[i] EXCEPT !["status"] = "cancelled"]]} :
     i \in {r.id} \cap Existing(t)}

\* What tools.run may answer on table t; nothing when it raises (no such
\* booking, a missing argument, a tool that does not exist).
Answers(t, r) ==
  CASE r.tool = "lookup_booking" -> lookup_booking(t, r)
    [] r.tool = "find_bookings"  -> find_bookings(t, r)
    [] r.tool = "create_booking" -> validate_create(r)
    [] r.tool = "update_booking" -> validate_update(t, r)
    [] r.tool = "cancel_booking" -> validate_cancel(t, r)
    [] OTHER                     -> {}

-----------------------------------------------------------------------------
\* The ids commit_booking may write proposal p under; none when it raises.  A
\* proposal without an id is inserted under a free one, unless a column that
\* may not be NULL is; any other is written over its row, unless it has none.
CommitIds(t, p) ==
  IF p.id = None
  THEN {i \in Ids \ Existing(t) : \A f \in Required : p.row[f] # None}
  ELSE {p.id} \cap Existing(t)

\* Mutant: an update writes the columns that are None too.
CommittedWhole(t, i, p) == [t EXCEPT ![i] = p.row]

\* The table after the commit: an update skips the columns that are None.
Committed(t, i, p) ==
  [t EXCEPT ![i] =
     IF p.id = None THEN p.row
     ELSE [f \in Fields |-> IF p.row[f] = None THEN t[i][f] ELSE p.row[f]]]

-----------------------------------------------------------------------------
(* Reference: what a request asks for, in terms of the request alone.      *)

\* A booking nothing is known of: a haircut, and confirmed.
Unspecified ==
  [[f \in Fields |-> None] EXCEPT !["service_type"] = "Haircut", !["status"] = "confirmed"]

\* The row a request leaves behind, given the row it finds: a create and an update
\* set the columns it gives a value for and no other, the one in a new booking, whose
\* status nobody chooses; a cancel changes the status.
Wanted(row, r) ==
  CASE r.tool = "create_booking" ->
         [f \in Fields |-> IF f # "status" /\ r.given[f] \in Values
                           THEN r.given[f] ELSE Unspecified[f]]
    [] r.tool = "cancel_booking" -> [row EXCEPT !["status"] = "cancelled"]
    [] OTHER -> [f \in Fields |-> IF r.given[f] \in Values THEN r.given[f] ELSE row[f]]

Obeyed(t, i, r) == [t EXCEPT ![i] = Wanted(t[i], r)]
=============================================================================
