--------------------------- MODULE MCTurnManager ---------------------------
(* Small instances of TurnManager for TLC. *)
EXTENDS TurnManager, TLC

MCIds == 1..2
MCValues ==
  {"Priya", "Arjun", "98", "d1", "d2", "t1", "t2", "Haircut", "confirmed", "cancelled", " "}
MCBlank == {" "}
MCPartOf == {<<v, v>> : v \in MCValues}

MCRow == ("customer_name" :> "Priya") @@ ("phone" :> "98") @@ ("date" :> "d1")
         @@ ("time" :> "t1") @@ ("service_type" :> "Haircut") @@ ("status" :> "confirmed")
MCSeeded == (1 :> MCRow) @@ (2 :> NoRow)

Nothing == [f \in Fields |-> Absent]

Lookup == [tool |-> "lookup_booking", id |-> 1, given |-> Nothing]
Find == [tool |-> "find_bookings", id |-> 1,
         given |-> ("customer_name" :> "Priya") @@ Nothing]
\* A search for a name of blanks, which raises.
FindBlank == [tool |-> "find_bookings", id |-> 1,
              given |-> ("customer_name" :> " ") @@ Nothing]
\* The phone is given as null, which an update skips.
MoveDate == [tool |-> "update_booking", id |-> 1,
             given |-> ("date" :> "d2") @@ ("phone" :> None) @@ Nothing]
MoveTime == [tool |-> "update_booking", id |-> 1, given |-> ("time" :> "t2") @@ Nothing]
Cancel == [tool |-> "cancel_booking", id |-> 1, given |-> Nothing]
Create == [tool |-> "create_booking", id |-> 1,
           given |-> ("customer_name" :> "Arjun") @@ ("date" :> "d1") @@ ("time" :> "t1") @@ Nothing]
\* The name is null, which the insert refuses, and over HTTP already the request's model.
Nameless == [tool |-> "create_booking", id |-> 1,
             given |-> ("customer_name" :> None) @@ ("date" :> "d1") @@ ("time" :> "t1") @@ Nothing]
Missing == [tool |-> "lookup_booking", id |-> 2, given |-> Nothing]

LocalRequests == {MoveDate, Cancel, Create, Nameless, Find, FindBlank, Missing}
HttpRequests == {MoveDate, Cancel, Lookup, Nameless}
OtherSession == {MoveTime}
=============================================================================
