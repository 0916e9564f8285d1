---------------------------- MODULE DemoScenario ----------------------------
(***************************************************************************)
(* POST /demo/run (backend/main.py): runs of the acceptance scenario of    *)
(* agent/demo_scenario.py over the shared bookings table and, when         *)
(* REDIS_URL is set, a shared store in which all runs of a mode use one    *)
(* session id.  A run dispatches a slow lookup, interrupts it, dispatches  *)
(* an update and tells how both ended.                                     *)
(*                                                                         *)
(* An action is what the event loop runs between two suspensions.  The     *)
(* timers of different runs fire in any order; in one run the interruption *)
(* comes before the lookup's result (MODES).  The confirmed state and the  *)
(* recording TTS, which nothing in a run reads, are left out, and the      *)
(* columns of a row other than its date and status.                        *)
(***************************************************************************)
EXTENDS Naturals

CONSTANTS
  Runs,      \* requests to /demo/run
  Modes,     \* the keys of MODES
  Bookings,
  Dates,
  Corrections,  \* the dates a run may be asked to change a booking to
  Seeded,       \* the bookings build_rows makes
  SeedDate,     \* the date of their rows
  SharedRedis,  \* REDIS_URL is set
  None

ASSUME SeedAssumption == Seeded \subseteq Bookings /\ SeedDate \in Dates
ASSUME CorrectionsAssumption == Corrections \subseteq Dates
ASSUME RedisAssumption == SharedRedis \in BOOLEAN
ASSUME NoneAssumption == None \notin Modes /\ None \notin Bookings /\ None \notin Dates

VARIABLES
  version,  \* turn_version of each session, 0 when the key is missing
  pending,  \* pending_tools of each session
  db,       \* the bookings table
  stage,    \* how far each run has come
  params,   \* what each run was asked for
  tag,      \* the version each run's calls were tagged with
  result,   \* how each run's calls have ended
  after,    \* the row each run read at its end, and the version
  intruded, \* history: runs whose session another has used meanwhile
  touched   \* history: runs whose booking someone else has written meanwhile

store == <<version, pending>>
calls == <<tag, result>>
vars == <<store, db, stage, params, calls, after, intruded, touched>>

Tools == {"lookup_booking", "update_booking"}
\* "confirmed" stands for "pending" too: only "cancelled" is told apart.
Row == [date : Dates, status : {"confirmed", "cancelled"}]
NoRow == [date |-> None, status |-> "missing"]
Params == [mode : Modes, booking : Bookings, date : Corrections]
NoParams == [mode |-> None, booking |-> None, date |-> None]
Outcomes == {"none", "running", "discarded_stale", "applied"}

\* make_redis_client: each fakeredis client has a server of its own.
Sessions == IF SharedRedis THEN Modes ELSE Runs
sid(r) == IF SharedRedis THEN params[r].mode ELSE r

TypeOK ==
  /\ version \in [Sessions -> Nat]
  /\ pending \in [Sessions -> SUBSET (Runs \X Tools)]
  /\ db \in [Bookings -> Row \cup {NoRow}]
  /\ stage \in [Runs -> {"idle", "asking", "corrected", "ended", "refused"}]
  /\ params \in [Runs -> Params \cup {NoParams}]
  /\ tag \in [Runs -> [Tools -> Nat]]
  /\ result \in [Runs -> [Tools -> Outcomes]]
  /\ after \in [Runs -> [row : Row \cup {NoRow}, version : Nat]]
  /\ intruded \in SUBSET Runs /\ touched \in SUBSET Runs

\* The table is as callers have left it.
Init ==
  /\ version = [s \in Sessions |-> 0]
  /\ pending = [s \in Sessions |-> {}]
  /\ db \in [Bookings -> Row \cup {NoRow}]
  /\ \A b \in Seeded : db[b] # NoRow
  /\ stage = [r \in Runs |-> "idle"]
  /\ params = [r \in Runs |-> NoParams]
  /\ tag = [r \in Runs |-> [k \in Tools |-> 0]]
  /\ result = [r \in Runs |-> [k \in Tools |-> "none"]]
  /\ after = [r \in Runs |-> [row |-> NoRow, version |-> 0]]
  /\ intruded = {} /\ touched = {}

-----------------------------------------------------------------------------
Running(r) == stage[r] \in {"asking", "corrected"}

MoveTo(r, s) == stage' = [stage EXCEPT ![r] = s]

\* Others that run on the session, or on the booking.
OnSession(s, r) == {q \in Runs \ {r} : Running(q) /\ sid(q) = s}
OnBooking(b, r) == {q \in Runs \ {r} : Running(q) /\ params[q].booking = b}

\* History: r changes its session's version (writes a row) while others use it.
Intrude(r, s) == intruded' = intruded \cup OnSession(s, r)
Touch(r, b) == touched' = touched \cup OnBooking(b, r)

\* Mutant: only the date of the row is restored.
resetDateOnly(b) == [date |-> SeedDate, status |-> db[b].status]

\* What _reset_to_seed leaves: the seeded row, or an unseeded one as it is.
resetRow(b) == [date |-> SeedDate, status |-> "confirmed"]
_reset_to_seed(b) == db' = IF b \in Seeded THEN [db EXCEPT ![b] = resetRow(b)] ELSE db

\* dispatch_tool in session s at version v; the pending entries are those given.
Dispatch(r, s, k, v, entries) ==
  /\ tag' = [tag EXCEPT ![r][k] = v]
  /\ result' = [result EXCEPT ![r][k] = "running"]
  /\ pending' = [pending EXCEPT ![s] = entries \cup {<<r, k>>}]

\* store.reset and the manager's create_session.
StartVersion == 1

\* Up to the sleep: the row and the store are reset, the lookup is dispatched.
Start(r, p) ==
  /\ stage[r] = "idle"
  /\ db[p.booking] # NoRow
  /\ MoveTo(r, "asking")
  /\ params' = [params EXCEPT ![r] = p]
  /\ _reset_to_seed(p.booking)
  /\ version' = [version EXCEPT ![sid(r)'] = StartVersion]
  /\ Dispatch(r, sid(r)', "lookup_booking", StartVersion, {})
  /\ Intrude(r, sid(r)')
  /\ Touch(r, p.booking)
  /\ UNCHANGED after

\* An unknown mode (400), or a booking that does not exist (ValueError).
Refuse(r) ==
  /\ stage[r] = "idle"
  /\ MoveTo(r, "refused")
  /\ UNCHANGED <<store, db, params, calls, after, intruded, touched>>

\* Mutants: the update is dispatched before the interruption; its tag is not read.
versionUnread(r) == None
versionForUpdateLate(r) == version[sid(r)]

\* It is dispatched after on_interrupt.
versionForUpdate(r) == version[sid(r)] + 1

\* After the sleep: on_interrupt, the update is dispatched, join begins.
Interrupt(r) ==
  /\ stage[r] = "asking"
  /\ MoveTo(r, "corrected")
  /\ version' = [version EXCEPT ![sid(r)] = @ + 1]
  /\ Dispatch(r, sid(r), "update_booking", versionForUpdate(r), pending[sid(r)])
  /\ Intrude(r, sid(r))
  /\ UNCHANGED <<db, params, after, touched>>

\* Mutants: a stale call stays pending; it is asked again.
popNothing(r, k) == pending
keepAsking(r, k) == result

popped(r, k) == [pending EXCEPT ![sid(r)] = @ \ {<<r, k>>}]

discarded(r, k) == [result EXCEPT ![r][k] = "discarded_stale"]

Stale(r, k) == tag[r][k] # version[sid(r)]

Discard(r, k) ==
  /\ stage[r] = "corrected" /\ result[r][k] = "running"
  /\ Stale(r, k)
  /\ result' = discarded(r, k)
  /\ pending' = popped(r, k)
  /\ UNCHANGED <<version, db, stage, params, tag, after, intruded, touched>>

\* A fresh result: the update is validated and committed, the lookup confirmed.
Apply(r, k) ==
  /\ stage[r] = "corrected" /\ result[r][k] = "running"
  /\ ~Stale(r, k)
  /\ result' = [result EXCEPT ![r][k] = "applied"]
  /\ pending' = popped(r, k)
  /\ IF k = "update_booking"
     THEN db' = [db EXCEPT ![params[r].booking].date = params[r].date] /\ Touch(r, params[r].booking)
     ELSE UNCHANGED <<db, touched>>
  /\ UNCHANGED <<version, stage, params, tag, after, intruded>>

\* join returns once both calls have ended: the row and the version are read for
\* the summary.
Finish(r) ==
  /\ stage[r] = "corrected"
  /\ \A k \in Tools : result[r][k] # "running"
  /\ MoveTo(r, "ended")
  /\ after' = [after EXCEPT ![r] = [row |-> db[params[r].booking],
                                    version |-> version[sid(r)]]]
  /\ UNCHANGED <<store, db, params, calls, intruded, touched>>

\* A call or an API client commits a change to the same table.
OtherSessionCommits(b) ==
  /\ \E row \in Row : db' = [db EXCEPT ![b] = row]
  /\ touched' = touched \cup {r \in Runs : Running(r) /\ params[r].booking = b}
  /\ UNCHANGED <<store, stage, params, calls, after, intruded>>

RunStep(r) == Interrupt(r) \/ Finish(r) \/ \E k \in Tools : Discard(r, k) \/ Apply(r, k)

Next ==
  \/ \E r \in Runs : Refuse(r) \/ RunStep(r) \/ \E p \in Params : Start(r, p)
  \/ \E b \in Bookings : OtherSessionCommits(b)

\* Sleeps end and the loop runs what is ready; nobody has to press the button.
Fairness == \A r \in Runs : WF_vars(RunStep(r))

Spec == Init /\ [][Next]_vars /\ Fairness

-----------------------------------------------------------------------------
(* Properties.                                                             *)

\* The turn manager's rule, run by run: as long as no other run changes the version
\* of its session, the lookup that was interrupted is not applied and the correction
\* is not discarded, whatever other sessions do and whoever writes the booking.
InterruptedIsDiscarded ==
  \A r \in Runs \ intruded :
    /\ result[r]["lookup_booking"] # "applied"
    /\ result[r]["update_booking"] # "discarded_stale"

\* `pass`, and the version shown beside it.
Passes(r) ==
  /\ result[r]["lookup_booking"] = "discarded_stale"
  /\ result[r]["update_booking"] = "applied"
  /\ after[r] = [row |-> [date |-> params[r].date, status |-> "confirmed"], version |-> 2]

\* "every run tells the same deterministic story ... no matter how many times the
\* demo button is pressed": whatever earlier runs and callers have left behind, a
\* run of a seeded booking passes, unless another run or a caller writes the row or
\* changes the version in between.
EveryRunTellsItsStory ==
  \A r \in Runs \ (intruded \cup touched) :
    stage[r] = "ended" /\ params[r].booking \in Seeded => Passes(r)

\* The calls a session holds as pending are those under way: neither a discarded
\* result nor a run that resets the session of another leaves one behind.
PendingIsRunning ==
  \A s \in Sessions : \A c \in pending[s] : result[c[1]][c[2]] = "running"

\* Every run answers its request.
EveryRunEnds == \A r \in Runs : stage[r] = "asking" ~> stage[r] = "ended"
=============================================================================
