------------------------- MODULE DemoScenarioProofs -------------------------
(* Theorems about DemoScenario and their proofs. *)
EXTENDS DemoScenario, TLAPS

-----------------------------------------------------------------------------
(* The inductive invariant, as facts about each run.                       *)

Known(r) == Running(r) => params[r] \in Params /\ db[params[r].booking] \in Row

Unstarted(r) ==
  stage[r] \in {"idle", "refused"} => \A k \in Tools : result[r][k] = "none"

\* Whose session no other run has changed the version of.
OnCourse(r) ==
  r \notin intruded =>
    /\ stage[r] = "asking" =>
         /\ version[sid(r)] = 1 /\ tag[r]["lookup_booking"] = 1
         /\ result[r]["lookup_booking"] = "running"
         /\ result[r]["update_booking"] = "none"
    /\ stage[r] = "corrected" =>
         /\ version[sid(r)] = 2
         /\ tag[r]["lookup_booking"] = 1 /\ tag[r]["update_booking"] = 2
         /\ result[r]["lookup_booking"] \in {"running", "discarded_stale"}
         /\ result[r]["update_booking"] \in {"running", "applied"}
    /\ stage[r] = "ended" =>
         /\ result[r]["lookup_booking"] = "discarded_stale"
         /\ result[r]["update_booking"] = "applied"
         /\ after[r].version = 2

\* Whose booking, a seeded one, nobody else has written.
RowOnCourse(r) ==
  r \notin touched /\ params[r].booking \in Seeded =>
    /\ Running(r) =>
         /\ db[params[r].booking].status = "confirmed"
         /\ result[r]["update_booking"] = "applied"
              => db[params[r].booking].date = params[r].date
    /\ stage[r] = "ended" /\ result[r]["update_booking"] = "applied"
         => after[r].row = [date |-> params[r].date, status |-> "confirmed"]

PendingKnown ==
  \A s \in Sessions : \A c \in pending[s] :
    /\ Running(c[1]) /\ sid(c[1]) = s
    /\ result[c[1]][c[2]] = "running"

IInv ==
  /\ TypeOK
  /\ \A r \in Runs : Known(r) /\ Unstarted(r) /\ OnCourse(r) /\ RowOnCourse(r)
  /\ PendingKnown

LEMMA InitIInv == Init => IInv
  BY SeedAssumption
     DEF Init, IInv, TypeOK, Known, Unstarted, OnCourse, RowOnCourse, PendingKnown, Running,
         NoParams, Params, Outcomes, Tools

\* A run that is under way has a session.
LEMMA SidType ==
  ASSUME NEW r \in Runs, params[r] \in Params
  PROVE  sid(r) \in Sessions
BY RedisAssumption DEF sid, Sessions, Params

-----------------------------------------------------------------------------
(* Each step keeps the invariant.                                          *)

LEMMA StartKeeps ==
  ASSUME IInv, NEW r \in Runs, NEW p \in Params, Start(r, p)
  PROVE  IInv'
<1> DEFINE s == sid(r)'
<1>1. params' = [params EXCEPT ![r] = p] /\ params' \in [Runs -> Params \cup {NoParams}]
  BY DEF Start, IInv, TypeOK
<1>2. s \in Sessions /\ \A q \in Runs \ {r} : sid(q)' = sid(q)
  BY <1>1, RedisAssumption DEF sid, Sessions, Params, IInv, TypeOK
<1>3. /\ stage' = [stage EXCEPT ![r] = "asking"]
      /\ version' = [version EXCEPT ![s] = 1]
      /\ tag' = [tag EXCEPT ![r]["lookup_booking"] = 1]
      /\ result' = [result EXCEPT ![r]["lookup_booking"] = "running"]
      /\ pending' = [pending EXCEPT ![s] = {} \cup {<<r, "lookup_booking">>}]
      /\ UNCHANGED after
  BY DEF Start, MoveTo, Dispatch, StartVersion
<1>4. /\ intruded' = intruded \cup OnSession(s, r)
      /\ touched' = touched \cup OnBooking(p.booking, r)
  BY DEF Start, Intrude, Touch
<1>5. /\ p.booking \in Bookings /\ db[p.booking] \in Row
      /\ db' = IF p.booking \in Seeded
               THEN [db EXCEPT ![p.booking] = [date |-> SeedDate, status |-> "confirmed"]]
               ELSE db
  BY DEF Start, _reset_to_seed, resetRow, Params, IInv, TypeOK
<1>6. TypeOK'
  BY <1>1, <1>2, <1>3, <1>4, <1>5, SeedAssumption
     DEF IInv, TypeOK, OnSession, OnBooking, Row, Tools, Outcomes
<1>7. Known(r)' /\ Unstarted(r)' /\ OnCourse(r)' /\ RowOnCourse(r)'
  <2>1. /\ stage'[r] = "asking" /\ params'[r] = p /\ version'[s] = 1
        /\ tag'[r]["lookup_booking"] = 1
        /\ result'[r]["lookup_booking"] = "running"
    BY <1>1, <1>2, <1>3 DEF IInv, TypeOK, Tools
  <2>2. result'[r]["update_booking"] = "none"
    BY <1>3 DEF Start, IInv, TypeOK, Unstarted, Tools
  <2>3. /\ db'[p.booking] \in Row
        /\ p.booking \in Seeded => db'[p.booking].status = "confirmed"
    BY <1>5, SeedAssumption DEF IInv, TypeOK, Row
  <2>4. Known(r)' /\ Unstarted(r)'
    BY <2>1, <2>3 DEF Known, Unstarted
  <2>5. OnCourse(r)'
    BY <2>1, <2>2 DEF OnCourse
  <2> QED
    BY <2>1, <2>2, <2>3, <2>4, <2>5 DEF RowOnCourse
<1>8. ASSUME NEW q \in Runs \ {r}
      PROVE  Known(q)' /\ Unstarted(q)' /\ OnCourse(q)' /\ RowOnCourse(q)'
  <2>1. /\ stage'[q] = stage[q] /\ result'[q] = result[q] /\ tag'[q] = tag[q]
        /\ params'[q] = params[q] /\ after'[q] = after[q] /\ sid(q)' = sid(q)
        /\ q \in Runs
    BY <1>1, <1>2, <1>3 DEF IInv, TypeOK
  <2>2. Known(q)' /\ Unstarted(q)'
    BY <1>5, <2>1, SeedAssumption DEF IInv, TypeOK, Known, Unstarted, Running, Row, Params
  <2>3. OnCourse(q)'
    BY <1>2, <1>3, <1>4, <2>1 DEF IInv, TypeOK, OnCourse, OnSession, Running
  <2>4. Running(q) /\ q \notin touched' => db'[params[q].booking] = db[params[q].booking]
    BY <1>4, <1>5 DEF IInv, TypeOK, Known, OnBooking, Params
  <2>5. RowOnCourse(q)'
    BY <1>4, <2>1, <2>4 DEF IInv, RowOnCourse, Running
  <2> QED
    BY <2>2, <2>3, <2>5
<1>9. PendingKnown'
  BY <1>1, <1>2, <1>3 DEF Start, IInv, TypeOK, PendingKnown, Running, Tools
<1> QED
  BY <1>6, <1>7, <1>8, <1>9 DEF IInv

LEMMA RefuseKeeps ==
  ASSUME IInv, NEW r \in Runs, Refuse(r)
  PROVE  IInv'
<1>1. /\ stage' = [stage EXCEPT ![r] = "refused"] /\ stage[r] = "idle"
      /\ UNCHANGED <<version, pending, db, params, tag, result, after, intruded, touched>>
  BY DEF Refuse, MoveTo, store, calls
<1>2. TypeOK'
  BY <1>1 DEF IInv, TypeOK
<1>3. \A q \in Runs : sid(q)' = sid(q)
  BY <1>1 DEF sid
<1>4. ASSUME NEW q \in Runs PROVE Known(q)' /\ Unstarted(q)' /\ OnCourse(q)' /\ RowOnCourse(q)'
  BY <1>1, <1>3 DEF IInv, TypeOK, Known, Unstarted, OnCourse, RowOnCourse, Running
<1>5. PendingKnown'
  BY <1>1, <1>3 DEF IInv, TypeOK, PendingKnown, Running
<1> QED
  BY <1>2, <1>4, <1>5 DEF IInv

LEMMA InterruptKeeps ==
  ASSUME IInv, NEW r \in Runs, Interrupt(r)
  PROVE  IInv'
<1> DEFINE s == sid(r)
<1>1. /\ stage[r] = "asking" /\ stage' = [stage EXCEPT ![r] = "corrected"]
      /\ version' = [version EXCEPT ![s] = @ + 1]
      /\ tag' = [tag EXCEPT ![r]["update_booking"] = version[s] + 1]
      /\ result' = [result EXCEPT ![r]["update_booking"] = "running"]
      /\ pending' = [pending EXCEPT ![s] = pending[s] \cup {<<r, "update_booking">>}]
      /\ intruded' = intruded \cup OnSession(s, r)
      /\ UNCHANGED <<db, params, after, touched>>
  BY DEF Interrupt, MoveTo, Dispatch, versionForUpdate, Intrude
<1>2. Running(r) /\ s \in Sessions /\ version[s] \in Nat
  BY <1>1, SidType DEF IInv, TypeOK, Known, Running
<1>3. TypeOK'
  BY <1>1, <1>2 DEF IInv, TypeOK, OnSession, Tools, Outcomes
<1>4. \A q \in Runs : sid(q)' = sid(q)
  BY <1>1 DEF sid
<1>5. Known(r)' /\ Unstarted(r)' /\ OnCourse(r)' /\ RowOnCourse(r)'
  <2>1. /\ stage'[r] = "corrected" /\ version'[s] = version[s] + 1
        /\ tag'[r]["update_booking"] = version[s] + 1
        /\ tag'[r]["lookup_booking"] = tag[r]["lookup_booking"]
        /\ result'[r]["update_booking"] = "running"
        /\ result'[r]["lookup_booking"] = result[r]["lookup_booking"]
        /\ sid(r)' = s
    BY <1>1, <1>2, <1>4 DEF IInv, TypeOK, Tools
  <2>2. Known(r)' /\ Unstarted(r)'
    BY <1>1, <1>2, <2>1 DEF IInv, Known, Unstarted
  <2>3. OnCourse(r)'
    BY <1>1, <2>1 DEF IInv, OnCourse
  <2>4. RowOnCourse(r)'
    BY <1>1, <1>2, <2>1 DEF IInv, RowOnCourse
  <2> QED
    BY <2>2, <2>3, <2>4
<1>6. ASSUME NEW q \in Runs \ {r}
      PROVE  Known(q)' /\ Unstarted(q)' /\ OnCourse(q)' /\ RowOnCourse(q)'
  BY <1>1, <1>2, <1>4
     DEF IInv, TypeOK, Known, Unstarted, OnCourse, RowOnCourse, OnSession, Running
<1>7. PendingKnown'
  BY <1>1, <1>2, <1>4 DEF IInv, TypeOK, PendingKnown, Running, Tools
<1> QED
  BY <1>3, <1>5, <1>6, <1>7 DEF IInv

LEMMA DiscardKeeps ==
  ASSUME IInv, NEW r \in Runs, NEW k \in Tools, Discard(r, k)
  PROVE  IInv'
<1>1. /\ stage[r] = "corrected" /\ result[r][k] = "running" /\ tag[r][k] # version[sid(r)]
      /\ result' = [result EXCEPT ![r][k] = "discarded_stale"]
      /\ pending' = [pending EXCEPT ![sid(r)] = @ \ {<<r, k>>}]
      /\ UNCHANGED <<version, db, stage, params, tag, after, intruded, touched>>
  BY DEF Discard, Stale, discarded, popped
<1>2. Running(r) /\ sid(r) \in Sessions
  BY <1>1, SidType DEF IInv, TypeOK, Known, Running
<1>3. TypeOK'
  BY <1>1, <1>2 DEF IInv, TypeOK, Outcomes
<1>4. \A q \in Runs : sid(q)' = sid(q)
  BY <1>1 DEF sid
<1>5. ASSUME NEW q \in Runs PROVE Known(q)' /\ Unstarted(q)' /\ OnCourse(q)' /\ RowOnCourse(q)'
  BY <1>1, <1>4 DEF IInv, TypeOK, Known, Unstarted, OnCourse, RowOnCourse, Running, Tools
<1>6. PendingKnown'
  BY <1>1, <1>2, <1>4 DEF IInv, TypeOK, PendingKnown, Running
<1> QED
  BY <1>3, <1>5, <1>6 DEF IInv

LEMMA ApplyKeeps ==
  ASSUME IInv, NEW r \in Runs, NEW k \in Tools, Apply(r, k)
  PROVE  IInv'
<1> DEFINE b == params[r].booking
<1>1. /\ stage[r] = "corrected" /\ result[r][k] = "running" /\ tag[r][k] = version[sid(r)]
      /\ result' = [result EXCEPT ![r][k] = "applied"]
      /\ pending' = [pending EXCEPT ![sid(r)] = @ \ {<<r, k>>}]
      /\ UNCHANGED <<version, stage, params, tag, after, intruded>>
  BY DEF Apply, Stale, popped
<1>2. Running(r) /\ sid(r) \in Sessions /\ b \in Bookings /\ db[b] \in Row /\ params[r].date \in Dates
  BY <1>1, SidType, CorrectionsAssumption DEF IInv, TypeOK, Known, Running, Params
<1>3. /\ db' \in [Bookings -> Row \cup {NoRow}]
      /\ \A c \in Bookings : db[c] \in Row => db'[c] \in Row /\ db'[c].status = db[c].status
      /\ \A c \in Bookings \ {b} : db'[c] = db[c]
      /\ k # "update_booking" => db' = db
      /\ k = "update_booking" => db'[b].date = params[r].date
  <2>1. CASE k # "update_booking"
    BY <2>1 DEF Apply, IInv, TypeOK
  <2>2. CASE k = "update_booking"
    <3> DEFINE row == [db[b] EXCEPT !.date = params[r].date]
    <3>1. row \in Row /\ row.status = db[b].status /\ row.date = params[r].date
      BY <1>2 DEF Row
    <3>2. db' = [db EXCEPT ![b] = row]
      BY <2>2 DEF Apply
    <3> HIDE DEF row
    <3> QED
      BY <1>2, <2>2, <3>1, <3>2 DEF IInv, TypeOK
  <2> QED
    BY <2>1, <2>2
<1>4. touched' = IF k = "update_booking" THEN touched \cup OnBooking(b, r) ELSE touched
  BY DEF Apply, Touch
<1>5. TypeOK'
  <2>1. result' \in [Runs -> [Tools -> Outcomes]] /\ pending' \in [Sessions -> SUBSET (Runs \X Tools)]
    BY <1>1, <1>2 DEF IInv, TypeOK, Outcomes
  <2>2. touched' \in SUBSET Runs
    BY <1>4 DEF IInv, TypeOK, OnBooking
  <2> QED
    BY <1>1, <1>3, <2>1, <2>2 DEF IInv, TypeOK
<1>6. \A q \in Runs : sid(q)' = sid(q)
  BY <1>1 DEF sid
<1>7. ASSUME NEW q \in Runs PROVE Known(q)' /\ Unstarted(q)' /\ OnCourse(q)'
  <2>1. Known(q)'
    BY <1>1, <1>3 DEF IInv, Known, Running, Params
  <2>2. Unstarted(q)' /\ OnCourse(q)'
    BY <1>1, <1>6 DEF IInv, TypeOK, Unstarted, OnCourse, Tools
  <2> QED
    BY <2>1, <2>2
<1>8. RowOnCourse(r)'
  <2>1. /\ stage'[r] = "corrected" /\ params' = params
        /\ r \notin touched' => r \notin touched
        /\ db'[b].status = db[b].status
    BY <1>1, <1>2, <1>3, <1>4
  <2>2. CASE k = "update_booking"
    BY <1>2, <1>3, <2>1, <2>2 DEF IInv, RowOnCourse
  <2>3. CASE k # "update_booking"
    <3>1. result'[r]["update_booking"] = result[r]["update_booking"]
      BY <1>1, <2>3 DEF IInv, TypeOK, Tools
    <3> QED
      BY <1>2, <1>3, <2>1, <2>3, <3>1 DEF IInv, RowOnCourse
  <2> QED
    BY <2>2, <2>3
<1>9. ASSUME NEW q \in Runs \ {r} PROVE RowOnCourse(q)'
  <2>1. result'[q] = result[q]
    BY <1>1 DEF IInv, TypeOK
  <2>2. Running(q) /\ q \notin touched' => db'[params[q].booking] = db[params[q].booking]
    BY <1>3, <1>4 DEF IInv, Known, OnBooking, Params
  <2> QED
    BY <1>1, <1>4, <2>1, <2>2 DEF IInv, RowOnCourse, Running
<1>10. PendingKnown'
  BY <1>1, <1>2, <1>6 DEF IInv, TypeOK, PendingKnown, Running
<1> QED
  BY <1>5, <1>7, <1>8, <1>9, <1>10 DEF IInv

LEMMA FinishKeeps ==
  ASSUME IInv, NEW r \in Runs, Finish(r)
  PROVE  IInv'
<1>1. /\ stage[r] = "corrected" /\ \A k \in Tools : result[r][k] # "running"
      /\ stage' = [stage EXCEPT ![r] = "ended"]
      /\ after' = [after EXCEPT ![r] = [row |-> db[params[r].booking],
                                        version |-> version[sid(r)]]]
      /\ UNCHANGED <<version, pending, db, params, tag, result, intruded, touched>>
  BY DEF Finish, MoveTo, store, calls
<1>2. /\ sid(r) \in Sessions /\ version[sid(r)] \in Nat
      /\ db[params[r].booking] \in Row
  BY <1>1, SidType DEF IInv, TypeOK, Known, Running
<1>3. TypeOK'
  BY <1>1, <1>2 DEF IInv, TypeOK
<1>4. \A q \in Runs : sid(q)' = sid(q)
  BY <1>1 DEF sid
<1>5. ASSUME NEW q \in Runs PROVE Known(q)' /\ Unstarted(q)' /\ OnCourse(q)'
  BY <1>1, <1>4 DEF IInv, TypeOK, Known, Unstarted, OnCourse, Running, Tools
<1>6. ASSUME NEW q \in Runs PROVE RowOnCourse(q)'
  <2>1. CASE q = r
    BY <1>1, <1>2, <2>1 DEF IInv, TypeOK, RowOnCourse, Running, Row
  <2>2. CASE q # r
    BY <1>1, <2>2 DEF IInv, TypeOK, RowOnCourse, Running
  <2> QED
    BY <2>1, <2>2
<1>7. PendingKnown'
  BY <1>1, <1>4 DEF IInv, TypeOK, PendingKnown, Running, Tools
<1> QED
  BY <1>3, <1>5, <1>6, <1>7 DEF IInv

LEMMA OthersKeep ==
  ASSUME IInv, NEW b \in Bookings, OtherSessionCommits(b)
  PROVE  IInv'
<1>1. PICK row \in Row : db' = [db EXCEPT ![b] = row]
  BY DEF OtherSessionCommits
<1>2. /\ touched' = touched \cup {r \in Runs : Running(r) /\ params[r].booking = b}
      /\ UNCHANGED <<version, pending, stage, params, tag, result, after, intruded>>
  BY DEF OtherSessionCommits, store, calls
<1>3. TypeOK'
  BY <1>1, <1>2 DEF IInv, TypeOK
<1>4. \A q \in Runs : sid(q)' = sid(q)
  BY <1>2 DEF sid
<1>5. ASSUME NEW q \in Runs PROVE Known(q)' /\ Unstarted(q)' /\ OnCourse(q)' /\ RowOnCourse(q)'
  BY <1>1, <1>2, <1>4 DEF IInv, TypeOK, Known, Unstarted, OnCourse, RowOnCourse, Running, Params
<1>6. PendingKnown'
  BY <1>2, <1>4 DEF IInv, TypeOK, PendingKnown, Running
<1> QED
  BY <1>3, <1>5, <1>6 DEF IInv

LEMMA NextKeeps == IInv /\ [Next]_vars => IInv'
<1> SUFFICES ASSUME IInv, [Next]_vars PROVE IInv'
  OBVIOUS
<1>1. CASE UNCHANGED vars
  BY <1>1 DEF vars, store, calls, IInv, TypeOK, Known, Unstarted, OnCourse, RowOnCourse,
              PendingKnown, Running, sid
<1>2. CASE Next
  BY <1>2, StartKeeps, RefuseKeeps, InterruptKeeps, DiscardKeeps, ApplyKeeps, FinishKeeps,
     OthersKeep DEF Next, RunStep
<1> QED
  BY <1>1, <1>2

LEMMA Invariance == Spec => []IInv
  BY InitIInv, NextKeeps, PTL DEF Spec

-----------------------------------------------------------------------------
(* Theorems.                                                               *)

\* The type invariant.
THEOREM TypeCorrect == Spec => []TypeOK
<1>1. IInv => TypeOK
  BY DEF IInv
<1> QED
  BY <1>1, Invariance, PTL

\* Runs decide their calls rightly as long as no other changes their session's version.
THEOREM RunsDiscardInterrupted == Spec => []InterruptedIsDiscarded
<1>1. IInv => InterruptedIsDiscarded
  BY DEF IInv, TypeOK, Unstarted, OnCourse, InterruptedIsDiscarded, Tools
<1> QED
  BY <1>1, Invariance, PTL

\* A run nobody disturbs passes, however often and after whatever it is repeated.
THEOREM RunsTellTheirStory == Spec => []EveryRunTellsItsStory
<1>1. IInv => EveryRunTellsItsStory
  <2> SUFFICES ASSUME IInv, NEW r \in Runs \ (intruded \cup touched),
                      stage[r] = "ended", params[r].booking \in Seeded
               PROVE  Passes(r)
    BY DEF EveryRunTellsItsStory
  <2>1. OnCourse(r) /\ RowOnCourse(r) /\ after[r] \in [row : Row \cup {NoRow}, version : Nat]
    BY DEF IInv, TypeOK
  <2> QED
    BY <2>1 DEF OnCourse, RowOnCourse, Passes
<1> QED
  BY <1>1, Invariance, PTL

\* Pending entries are of calls under way, though a run may reset another's session.
THEOREM NothingIsLeftPending == Spec => []PendingIsRunning
<1>1. IInv => PendingIsRunning
  BY DEF IInv, PendingKnown, PendingIsRunning
<1> QED
  BY <1>1, Invariance, PTL

-----------------------------------------------------------------------------
(* Who can intrude on a run.                                               *)

Begun(r) == stage[r] \in {"asking", "corrected", "ended"}

\* A run is intruded on only by another that uses its session.
IntrudersKnown ==
  \A r \in intruded : Begun(r) /\ \E q \in Runs \ {r} : Begun(q) /\ sid(q) = sid(r)

LEMMA InitIntruders == Init => IntrudersKnown
  BY DEF Init, IntrudersKnown

\* What a step that changes the version of a session leaves known.
LEMMA IntrusionKnown ==
  ASSUME IInv, IntrudersKnown, NEW r \in Runs, NEW s,
         intruded' = intruded \cup OnSession(s, r),
         Begun(r)', sid(r)' = s,
         \A q \in Runs \ {r} : stage'[q] = stage[q] /\ sid(q)' = sid(q),
         Begun(r) => sid(r)' = sid(r)
  PROVE  IntrudersKnown'
<1>1. ASSUME NEW q \in Runs, Begun(q)
      PROVE  Begun(q)' /\ sid(q)' = sid(q)
  BY <1>1 DEF Begun
<1>2. ASSUME NEW q \in intruded
      PROVE  Begun(q)' /\ \E t \in Runs \ {q} : Begun(t)' /\ sid(t)' = sid(q)'
  <2>1. PICK t \in Runs \ {q} : Begun(q) /\ Begun(t) /\ sid(t) = sid(q)
    BY <1>2 DEF IntrudersKnown
  <2>2. q \in Runs
    BY <1>2 DEF IInv, TypeOK
  <2> QED
    BY <2>1, <2>2, <1>1
<1>3. ASSUME NEW q \in OnSession(s, r)
      PROVE  Begun(q)' /\ \E t \in Runs \ {q} : Begun(t)' /\ sid(t)' = sid(q)'
  <2>1. q \in Runs \ {r} /\ Begun(q) /\ sid(q) = s
    BY <1>3 DEF OnSession, Running, Begun
  <2> QED
    BY <2>1, <1>1
<1> QED
  BY <1>2, <1>3 DEF IntrudersKnown

LEMMA NextIntruders == IInv /\ IntrudersKnown /\ [Next]_vars => IntrudersKnown'
<1> SUFFICES ASSUME IInv, IntrudersKnown, [Next]_vars PROVE IntrudersKnown'
  OBVIOUS
<1>1. ASSUME NEW r \in Runs, NEW p \in Params, Start(r, p) PROVE IntrudersKnown'
  <2>1. /\ stage' = [stage EXCEPT ![r] = "asking"] /\ params' = [params EXCEPT ![r] = p]
        /\ ~Begun(r)
        /\ intruded' = intruded \cup OnSession(sid(r)', r)
    BY <1>1 DEF Start, MoveTo, Intrude, Begun
  <2>2. Begun(r)' /\ \A q \in Runs \ {r} : stage'[q] = stage[q] /\ sid(q)' = sid(q)
    BY <2>1 DEF IInv, TypeOK, Begun, sid
  <2> QED
    BY <2>1, <2>2, IntrusionKnown
<1>2. ASSUME NEW r \in Runs, Interrupt(r) PROVE IntrudersKnown'
  <2>1. /\ stage' = [stage EXCEPT ![r] = "corrected"] /\ params' = params
        /\ intruded' = intruded \cup OnSession(sid(r), r)
    BY <1>2 DEF Interrupt, MoveTo, Intrude
  <2>2. Begun(r)' /\ \A q \in Runs : sid(q)' = sid(q)
    BY <2>1 DEF IInv, TypeOK, Begun, sid
  <2>3. \A q \in Runs \ {r} : stage'[q] = stage[q]
    BY <2>1 DEF IInv, TypeOK
  <2> QED
    BY <2>1, <2>2, <2>3, IntrusionKnown
<1>3. ASSUME UNCHANGED <<params, intruded>>,
             \A q \in Runs : Begun(q) => Begun(q)'
      PROVE  IntrudersKnown'
  BY <1>3 DEF IInv, TypeOK, IntrudersKnown, sid
<1>4. ASSUME NEW r \in Runs, Refuse(r) \/ Finish(r) \/ \E k \in Tools : Discard(r, k) \/ Apply(r, k)
      PROVE  IntrudersKnown'
  <2>1. UNCHANGED <<params, intruded>>
    BY <1>4 DEF Refuse, Finish, Discard, Apply
  <2>2. \A q \in Runs : Begun(q) => Begun(q)'
    BY <1>4 DEF IInv, TypeOK, Begun, Refuse, Finish, Discard, Apply, MoveTo
  <2> QED
    BY <2>1, <2>2, <1>3
<1>5. ASSUME NEW b \in Bookings, OtherSessionCommits(b) PROVE IntrudersKnown'
  BY <1>5, <1>3 DEF OtherSessionCommits, Begun
<1>6. CASE UNCHANGED vars
  BY <1>6, <1>3 DEF vars, Begun
<1> QED
  BY <1>1, <1>2, <1>4, <1>5, <1>6 DEF Next, RunStep

LEMMA IntrudersInvariance == Spec => []IntrudersKnown
  BY InitIntruders, NextIntruders, Invariance, PTL DEF Spec

\* With a shared Redis only a run of the same mode can make a run apply what was
\* interrupted: the premise of the two stories fails for no other reason.
THEOREM OnlyTheSameModeIntrudes ==
  ASSUME SharedRedis
  PROVE  Spec => [](\A r \in intruded : \E q \in Runs \ {r} : params[q].mode = params[r].mode)
<1>1. IntrudersKnown => \A r \in intruded : \E q \in Runs \ {r} : params[q].mode = params[r].mode
  BY DEF IntrudersKnown, sid
<1> QED
  BY <1>1, IntrudersInvariance, PTL

\* Without REDIS_URL every run has a store of its own: each, however many are under
\* way, discards what was interrupted and applies the correction, and each of a
\* seeded booking whose row nobody else writes passes.
THEOREM PrivateRunsAreSafe ==
  ASSUME ~SharedRedis
  PROVE  Spec => [](\A r \in Runs :
           /\ result[r]["lookup_booking"] # "applied"
           /\ result[r]["update_booking"] # "discarded_stale"
           /\ stage[r] = "ended" /\ params[r].booking \in Seeded /\ r \notin touched => Passes(r))
<1> DEFINE Safe == \A r \in Runs :
             /\ result[r]["lookup_booking"] # "applied"
             /\ result[r]["update_booking"] # "discarded_stale"
             /\ stage[r] = "ended" /\ params[r].booking \in Seeded /\ r \notin touched => Passes(r)
<1>1. IntrudersKnown => intruded = {}
  BY DEF IntrudersKnown, sid
<1>2. intruded = {} /\ InterruptedIsDiscarded /\ EveryRunTellsItsStory => Safe
  BY DEF InterruptedIsDiscarded, EveryRunTellsItsStory
<1> HIDE DEF Safe
<1>3. Spec => []Safe
  BY <1>1, <1>2, IntrudersInvariance, RunsDiscardInterrupted, RunsTellTheirStory, PTL
<1> QED
  BY <1>3 DEF Safe
=============================================================================
