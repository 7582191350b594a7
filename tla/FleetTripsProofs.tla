--------------------------- MODULE FleetTripsProofs ---------------------------
(***************************************************************************)
(* Proofs about FleetTrips, for any number of requests and any readings.   *)
(* Every check of the code is a query that is over before its write        *)
(* begins; the inductive invariant says what a request that has decided    *)
(* may still rely on when it writes, as long as the race that would take   *)
(* it away has not happened.                                               *)
(***************************************************************************)
EXTENDS FleetTrips, FiniteSetTheorems, TLAPS

(* The log holds the vehicle's row as it is. *)
PublishedIsRow == published = [odometer |-> odometer, status |-> vstatus]

(* A start that was not overridden and an odometer update were at or past  *)
(* the odometer they read.                                                 *)
CheckedReadings ==
    \A r \in Requests :
        /\ pc[r] \in {"check", "write"} /\ job[r].kind = "start" /\ "override" \notin races
               => seen[r] \in Readings /\ seen[r] <= job[r].reading
        /\ pc[r] \in {"check", "write"} /\ job[r].kind = "put"
               => seen[r] \in Readings /\ seen[r] <= job[r].reading

(* A trip exists once the request it is named after is done; one that is   *)
(* about to be ended is there, open still and with one ender, unless two   *)
(* ends overlapped.                                                        *)
KnownTrips ==
    /\ \A t \in Requests : tstate[t] # "ABSENT" => pc[t] = "done"
    /\ \A r \in Writing("end") :
           /\ tstate[job[r].trip] # "ABSENT"
           /\ "ends" \notin races =>
                  /\ tstate[job[r].trip] = "OPEN"
                  /\ \A q \in Writing("end") : job[q].trip = job[r].trip => q = r

(* A start that passed the query for open trips is the only one about to   *)
(* write, and there is no open trip until it has.                          *)
LoneStart ==
    races \cap {"starts", "override"} = {} =>
        /\ \A t, u \in Open : t = u
        /\ \A q, r \in Writing("start") : q = r
        /\ Writing("start") # {} => Open = {}

Busy ==
    races \cap {"starts", "ends", "override"} = {} /\ Open # {} => vstatus = "ON_ROUTE"

(* No completed trip ended past the odometer. *)
BehindOdometer ==
    "odometer" \notin races => \A t \in Requests : tstate[t] = "COMPLETED" => to[t] <= odometer

(* A refuel about to be written has read the latest one. *)
RefuelChain ==
    "refuels" \notin races =>
        /\ \A r \in Writing("fuel") : seen[r] = refuel.last
        /\ \A q, r \in Writing("fuel") : q = r
        /\ refuel.first = NoReading <=> refuel.last = NoReading
        /\ refuel.first = NoReading => refuelKm = 0

IndInv ==
    /\ TypeOK
    /\ PublishedIsRow
    /\ CheckedReadings
    /\ KnownTrips
    /\ LoneStart
    /\ Busy
    /\ BehindOdometer
    /\ TripsInSequence
    /\ RefuelChain
    /\ RefuelsAddUp

-----------------------------------------------------------------------------

(* A request that is over keeps nothing. *)
LEMMA DoneType ==
    ASSUME TypeOK, NEW r \in Requests, Done(r)
    PROVE  /\ pc' \in [Requests -> {"new", "check", "write", "done"}]
           /\ job' \in [Requests -> Jobs]
           /\ seen' \in [Requests -> Readings \cup {NoReading}]
<1>1. Idle(r) \in Jobs /\ 0 \in Readings
    BY FleetAssumption DEF Idle, Jobs, Readings
<1> QED
    BY <1>1 DEF Done, TypeOK

(* Every action keeps every variable in its type. *)
LEMMA TypeStep ==
    ASSUME TypeOK, [Next]_vars
    PROVE  TypeOK'
<1>1. ASSUME NEW r \in Requests, NEW kind \in Kinds, NEW reading \in Readings, ReadVehicle(r, kind, reading)
      PROVE  TypeOK'
    <2>1. UNCHANGED dbVars
        BY <1>1 DEF ReadVehicle, Refuse, Done, Raced, Regressed, Overrides, dbVars, tripVars, fuelVars
    <2>2. /\ pc' \in [Requests -> {"new", "check", "write", "done"}]
          /\ job' \in [Requests -> Jobs]
          /\ seen' \in [Requests -> Readings \cup {NoReading}]
        <3>1. CASE Done(r)
            BY <3>1, DoneType
        <3>2. CASE /\ pc' \in {[pc EXCEPT ![r] = p] : p \in {"check", "write"}}
                   /\ job' = [job EXCEPT ![r] = [kind |-> kind, reading |-> reading, trip |-> r]]
                   /\ seen' = [seen EXCEPT ![r] = odometer]
            <4>1. [kind |-> kind, reading |-> reading, trip |-> r] \in Jobs
                BY DEF Jobs
            <4> QED
                BY <3>2, <4>1 DEF TypeOK
        <3> QED
            BY <1>1, <3>1, <3>2 DEF ReadVehicle, Refuse
    <2>3. races' \subseteq Races
        BY <1>1 DEF ReadVehicle, Refuse, Done, Raced, Regressed, Overrides, dbVars, tripVars, fuelVars, TypeOK, Races
    <2> QED
        BY <2>1, <2>2, <2>3 DEF dbVars, tripVars, fuelVars, TypeOK
<1>2. ASSUME NEW r \in Requests, NEW t \in Requests, NEW reading \in Readings, ReadTrip(r, t, reading)
      PROVE  TypeOK'
    <2>1. UNCHANGED dbVars
        BY <1>2 DEF ReadTrip, Refuse, Done, Ended, Overrides, dbVars, tripVars, fuelVars
    <2>2. /\ pc' \in [Requests -> {"new", "check", "write", "done"}]
          /\ job' \in [Requests -> Jobs]
          /\ seen' \in [Requests -> Readings \cup {NoReading}]
        <3>1. CASE Done(r)
            BY <3>1, DoneType
        <3>2. CASE /\ pc' = [pc EXCEPT ![r] = "write"]
                   /\ job' = [job EXCEPT ![r] = [kind |-> "end", reading |-> reading, trip |-> t]]
                   /\ seen' = seen
            <4>1. [kind |-> "end", reading |-> reading, trip |-> t] \in Jobs
                BY <1>2 DEF ReadTrip, Jobs
            <4> QED
                BY <3>2, <4>1 DEF TypeOK
        <3> QED
            BY <1>2, <3>1, <3>2 DEF ReadTrip, Refuse
    <2>3. races' \subseteq Races
        BY <1>2 DEF ReadTrip, Refuse, Done, Ended, Overrides, dbVars, tripVars, fuelVars, TypeOK, Races
    <2> QED
        BY <2>1, <2>2, <2>3 DEF dbVars, tripVars, fuelVars, TypeOK
<1>3. ASSUME NEW r \in Requests, NEW key \in Requests, CheckTrips(r, key)
      PROVE  TypeOK'
    <2>1. UNCHANGED dbVars
        BY <1>3 DEF CheckTrips, Refuse, Done, ActiveTrips, dbVars, tripVars, fuelVars
    <2>2. /\ pc' \in [Requests -> {"new", "check", "write", "done"}]
          /\ job' \in [Requests -> Jobs]
          /\ seen' \in [Requests -> Readings \cup {NoReading}]
        <3>1. CASE Done(r)
            BY <3>1, DoneType
        <3>2. CASE pc' = [pc EXCEPT ![r] = "write"] /\ UNCHANGED <<job, seen>>
            BY <3>2 DEF TypeOK
        <3> QED
            BY <1>3, <3>1, <3>2 DEF CheckTrips, Refuse
    <2>3. races' \subseteq Races
        BY <1>3 DEF CheckTrips, Refuse, Done, ActiveTrips, dbVars, tripVars, fuelVars, TypeOK, Races
    <2> QED
        BY <2>1, <2>2, <2>3 DEF dbVars, tripVars, fuelVars, TypeOK
<1>4. ASSUME NEW r \in Requests, ReadLastRefuel(r)
      PROVE  TypeOK'
    BY <1>4, FleetAssumption DEF ReadLastRefuel, Raced, dbVars, tripVars, fuelVars, TypeOK, Jobs, Idle, Readings, Races
<1>5. ASSUME NEW r \in Requests, StartTrip(r)
      PROVE  TypeOK'
    BY <1>5, FleetAssumption DEF StartTrip, Publish, Raced, Done, dbVars, tripVars, fuelVars, TypeOK, Jobs, Idle, Readings, Races
<1>6. ASSUME NEW r \in Requests, EndTrip(r)
      PROVE  TypeOK'
    BY <1>6, FleetAssumption DEF EndTrip, Publish, Release, Done, dbVars, tripVars, fuelVars, TypeOK, Jobs, Idle, Readings, Races
<1>7. ASSUME NEW r \in Requests, RecordFuelLog(r)
      PROVE  TypeOK'
    <2>1. /\ job[r].reading \in Readings /\ Readings \subseteq Int
          /\ seen[r] \in Readings \cup {NoReading}
        BY FleetAssumption DEF TypeOK, Jobs, Readings
    <2>2. refuelKm' \in Int
        BY <1>7, <2>1 DEF RecordFuelLog, Publish, Done, KmSinceLast, tripVars, TypeOK
    <2>3. /\ refuel' \in [first : Readings \cup {NoReading}, last : Readings \cup {NoReading}]
          /\ odometer' \in Readings
        BY <1>7, <2>1 DEF RecordFuelLog, Publish, Done, KmSinceLast, tripVars, TypeOK
    <2>4. published' \in [odometer : Readings, status : {"ACTIVE", "ON_ROUTE"}]
        BY <1>7, <2>3 DEF RecordFuelLog, Publish, Done, KmSinceLast, tripVars, TypeOK
    <2> QED
        BY <1>7, <2>2, <2>3, <2>4, DoneType DEF RecordFuelLog, tripVars, TypeOK
<1>8. ASSUME NEW r \in Requests, PutOdometer(r)
      PROVE  TypeOK'
    BY <1>8, FleetAssumption DEF PutOdometer, Publish, Raced, Done, dbVars, tripVars, fuelVars, TypeOK, Jobs, Idle, Readings, Races
<1>9. ASSUME NEW r \in Requests, Fail(r)
      PROVE  TypeOK'
    BY <1>9, FleetAssumption DEF Fail, Refuse, Done, dbVars, tripVars, fuelVars, TypeOK, Jobs, Idle, Readings, Races
<1>10. CASE UNCHANGED vars
    BY <1>10 DEF vars, dbVars, tripVars, fuelVars, dbVars, tripVars, fuelVars, TypeOK, Jobs, Idle, Readings, Races
<1> QED
    BY <1>1, <1>2, <1>3, <1>4, <1>5, <1>6, <1>7, <1>8, <1>9, <1>10 DEF Next

(* Whoever writes the vehicle publishes its row. *)
LEMMA PublishedStep ==
    ASSUME TypeOK, PublishedIsRow, [Next]_vars
    PROVE  PublishedIsRow'
<1>1. ASSUME NEW r \in Requests, NEW kind \in Kinds, NEW reading \in Readings, ReadVehicle(r, kind, reading)
      PROVE  PublishedIsRow'
    BY <1>1 DEF ReadVehicle, Refuse, Done, Raced, Regressed, Overrides, dbVars, tripVars, fuelVars, TypeOK, PublishedIsRow
<1>2. ASSUME NEW r \in Requests, NEW t \in Requests, NEW reading \in Readings, ReadTrip(r, t, reading)
      PROVE  PublishedIsRow'
    BY <1>2 DEF ReadTrip, Refuse, Done, Ended, Overrides, dbVars, tripVars, fuelVars, TypeOK, PublishedIsRow
<1>3. ASSUME NEW r \in Requests, NEW key \in Requests, CheckTrips(r, key)
      PROVE  PublishedIsRow'
    BY <1>3 DEF CheckTrips, Refuse, Done, ActiveTrips, dbVars, tripVars, fuelVars, TypeOK, PublishedIsRow
<1>4. ASSUME NEW r \in Requests, ReadLastRefuel(r)
      PROVE  PublishedIsRow'
    BY <1>4 DEF ReadLastRefuel, Raced, dbVars, tripVars, fuelVars, TypeOK, PublishedIsRow
<1>5. ASSUME NEW r \in Requests, StartTrip(r)
      PROVE  PublishedIsRow'
    BY <1>5 DEF StartTrip, Publish, Raced, Done, dbVars, tripVars, fuelVars, TypeOK, PublishedIsRow
<1>6. ASSUME NEW r \in Requests, EndTrip(r)
      PROVE  PublishedIsRow'
    BY <1>6 DEF EndTrip, Publish, Release, Done, dbVars, tripVars, fuelVars, TypeOK, PublishedIsRow
<1>7. ASSUME NEW r \in Requests, RecordFuelLog(r)
      PROVE  PublishedIsRow'
    BY <1>7 DEF RecordFuelLog, Publish, Done, KmSinceLast, dbVars, tripVars, fuelVars, TypeOK, PublishedIsRow
<1>8. ASSUME NEW r \in Requests, PutOdometer(r)
      PROVE  PublishedIsRow'
    BY <1>8 DEF PutOdometer, Publish, Raced, Done, dbVars, tripVars, fuelVars, TypeOK, PublishedIsRow
<1>9. ASSUME NEW r \in Requests, Fail(r)
      PROVE  PublishedIsRow'
    BY <1>9 DEF Fail, Refuse, Done, dbVars, tripVars, fuelVars, TypeOK, PublishedIsRow
<1>10. CASE UNCHANGED vars
    BY <1>10 DEF vars, dbVars, tripVars, fuelVars, dbVars, tripVars, fuelVars, TypeOK, PublishedIsRow
<1> QED
    BY <1>1, <1>2, <1>3, <1>4, <1>5, <1>6, <1>7, <1>8, <1>9, <1>10 DEF Next

(* What a request read and what it sent change only when it reads anew.    *)
LEMMA ReadingsStep ==
    ASSUME TypeOK, CheckedReadings, [Next]_vars
    PROVE  CheckedReadings'
<1>1. ASSUME NEW r \in Requests, NEW kind \in Kinds, NEW reading \in Readings, ReadVehicle(r, kind, reading)
      PROVE  CheckedReadings'
    BY <1>1 DEF ReadVehicle, Refuse, Done, Raced, Regressed, Overrides, dbVars, tripVars, fuelVars, TypeOK, CheckedReadings, Idle, Jobs, Readings
<1>2. ASSUME NEW r \in Requests, NEW t \in Requests, NEW reading \in Readings, ReadTrip(r, t, reading)
      PROVE  CheckedReadings'
    <2>1. \A q \in Requests \ {r} :
              pc'[q] = pc[q] /\ job'[q] = job[q] /\ seen'[q] = seen[q]
        BY <1>2 DEF ReadTrip, Refuse, Done, Ended, Overrides, dbVars, tripVars, fuelVars, TypeOK
    <2>2. job'[r].kind \in {"none", "end"}
        BY <1>2 DEF ReadTrip, Refuse, Done, Ended, Overrides, dbVars, tripVars, fuelVars, TypeOK, Idle
    <2>3. races \subseteq races'
        BY <1>2 DEF ReadTrip, Refuse, Done, Ended, Overrides, dbVars, tripVars, fuelVars
    <2> QED
        BY <2>1, <2>2, <2>3 DEF CheckedReadings
<1>3. ASSUME NEW r \in Requests, NEW key \in Requests, CheckTrips(r, key)
      PROVE  CheckedReadings'
    BY <1>3 DEF CheckTrips, Refuse, Done, ActiveTrips, dbVars, tripVars, fuelVars, TypeOK, CheckedReadings, Idle, Jobs, Readings
<1>4. ASSUME NEW r \in Requests, ReadLastRefuel(r)
      PROVE  CheckedReadings'
    BY <1>4 DEF ReadLastRefuel, Raced, dbVars, tripVars, fuelVars, TypeOK, CheckedReadings, Idle, Jobs, Readings
<1>5. ASSUME NEW r \in Requests, StartTrip(r)
      PROVE  CheckedReadings'
    BY <1>5 DEF StartTrip, Publish, Raced, Done, dbVars, tripVars, fuelVars, TypeOK, CheckedReadings, Idle, Jobs, Readings
<1>6. ASSUME NEW r \in Requests, EndTrip(r)
      PROVE  CheckedReadings'
    BY <1>6 DEF EndTrip, Publish, Release, Done, dbVars, tripVars, fuelVars, TypeOK, CheckedReadings, Idle, Jobs, Readings
<1>7. ASSUME NEW r \in Requests, RecordFuelLog(r)
      PROVE  CheckedReadings'
    BY <1>7 DEF RecordFuelLog, Publish, Done, KmSinceLast, dbVars, tripVars, fuelVars, TypeOK, CheckedReadings, Idle, Jobs, Readings
<1>8. ASSUME NEW r \in Requests, PutOdometer(r)
      PROVE  CheckedReadings'
    BY <1>8 DEF PutOdometer, Publish, Raced, Done, dbVars, tripVars, fuelVars, TypeOK, CheckedReadings, Idle, Jobs, Readings
<1>9. ASSUME NEW r \in Requests, Fail(r)
      PROVE  CheckedReadings'
    BY <1>9 DEF Fail, Refuse, Done, dbVars, tripVars, fuelVars, TypeOK, CheckedReadings, Idle, Jobs, Readings
<1>10. CASE UNCHANGED vars
    BY <1>10 DEF vars, dbVars, tripVars, fuelVars, dbVars, tripVars, fuelVars, TypeOK, CheckedReadings, Idle, Jobs, Readings
<1> QED
    BY <1>1, <1>2, <1>3, <1>4, <1>5, <1>6, <1>7, <1>8, <1>9, <1>10 DEF Next

(* Trips are made by the one request they are named after. *)
LEMMA KnownTripsStep ==
    ASSUME TypeOK, KnownTrips, [Next]_vars
    PROVE  KnownTrips'
<1>1. ASSUME NEW r \in Requests, NEW kind \in Kinds, NEW reading \in Readings, ReadVehicle(r, kind, reading)
      PROVE  KnownTrips'
    BY <1>1 DEF ReadVehicle, Refuse, Done, Raced, Regressed, Overrides, dbVars, tripVars, fuelVars, TypeOK, KnownTrips, Writing, Idle, Jobs
<1>2. ASSUME NEW r \in Requests, NEW t \in Requests, NEW reading \in Readings, ReadTrip(r, t, reading)
      PROVE  KnownTrips'
    BY <1>2 DEF ReadTrip, Refuse, Done, Ended, Overrides, dbVars, tripVars, fuelVars, TypeOK, KnownTrips, Writing, Idle, Jobs
<1>3. ASSUME NEW r \in Requests, NEW key \in Requests, CheckTrips(r, key)
      PROVE  KnownTrips'
    BY <1>3 DEF CheckTrips, Refuse, Done, ActiveTrips, dbVars, tripVars, fuelVars, TypeOK, KnownTrips, Writing, Idle, Jobs
<1>4. ASSUME NEW r \in Requests, ReadLastRefuel(r)
      PROVE  KnownTrips'
    BY <1>4 DEF ReadLastRefuel, Raced, dbVars, tripVars, fuelVars, TypeOK, KnownTrips, Writing, Idle, Jobs
<1>5. ASSUME NEW r \in Requests, StartTrip(r)
      PROVE  KnownTrips'
    BY <1>5 DEF StartTrip, Publish, Raced, Done, dbVars, tripVars, fuelVars, TypeOK, KnownTrips, Writing, Idle, Jobs
<1>6. ASSUME NEW r \in Requests, EndTrip(r)
      PROVE  KnownTrips'
    BY <1>6 DEF EndTrip, Publish, Release, Done, dbVars, tripVars, fuelVars, TypeOK, KnownTrips, Writing, Idle, Jobs
<1>7. ASSUME NEW r \in Requests, RecordFuelLog(r)
      PROVE  KnownTrips'
    BY <1>7 DEF RecordFuelLog, Publish, Done, KmSinceLast, dbVars, tripVars, fuelVars, TypeOK, KnownTrips, Writing, Idle, Jobs
<1>8. ASSUME NEW r \in Requests, PutOdometer(r)
      PROVE  KnownTrips'
    BY <1>8 DEF PutOdometer, Publish, Raced, Done, dbVars, tripVars, fuelVars, TypeOK, KnownTrips, Writing, Idle, Jobs
<1>9. ASSUME NEW r \in Requests, Fail(r)
      PROVE  KnownTrips'
    BY <1>9 DEF Fail, Refuse, Done, dbVars, tripVars, fuelVars, TypeOK, KnownTrips, Writing, Idle, Jobs
<1>10. CASE UNCHANGED vars
    BY <1>10 DEF vars, dbVars, tripVars, fuelVars, dbVars, tripVars, fuelVars, TypeOK, KnownTrips, Writing, Idle, Jobs
<1> QED
    BY <1>1, <1>2, <1>3, <1>4, <1>5, <1>6, <1>7, <1>8, <1>9, <1>10 DEF Next

(* A second start passes the query for open trips only while the first has *)
(* not written, which is the race.                                         *)
LEMMA LoneStartStep ==
    ASSUME TypeOK, LoneStart, [Next]_vars
    PROVE  LoneStart'
<1>1. ASSUME NEW r \in Requests, NEW kind \in Kinds, NEW reading \in Readings, ReadVehicle(r, kind, reading)
      PROVE  LoneStart'
    <2>1. Open' = Open /\ races \subseteq races'
        BY <1>1 DEF ReadVehicle, Refuse, Done, Raced, Regressed, Overrides, dbVars, tripVars, fuelVars, Open
    <2>2. \A q \in Requests \ {r} : pc'[q] = pc[q] /\ job'[q] = job[q]
        BY <1>1 DEF ReadVehicle, Refuse, Done, Raced, Regressed, Overrides, dbVars, tripVars, fuelVars, TypeOK
    <2>3. pc'[r] = "write" /\ job'[r].kind = "start" => "override" \in races'
        BY <1>1 DEF ReadVehicle, Refuse, Done, Raced, Regressed, Overrides, dbVars, tripVars, fuelVars, TypeOK, Idle
    <2>4. "override" \notin races' => Writing("start")' \subseteq Writing("start")
        BY <2>2, <2>3 DEF Writing
    <2> QED
        BY <2>1, <2>4 DEF LoneStart
<1>2. ASSUME NEW r \in Requests, NEW t \in Requests, NEW reading \in Readings, ReadTrip(r, t, reading)
      PROVE  LoneStart'
    <2>1. Open' = Open /\ races \subseteq races'
        BY <1>2 DEF ReadTrip, Refuse, dbVars, tripVars, Open
    <2>2. \A q \in Requests \ {r} : pc'[q] = pc[q] /\ job'[q] = job[q]
        BY <1>2 DEF ReadTrip, Refuse, Done, TypeOK
    <2>3. ~(pc'[r] = "write" /\ job'[r].kind = "start")
        BY <1>2 DEF ReadTrip, Refuse, Done, TypeOK
    <2>4. Writing("start")' \subseteq Writing("start")
        BY <2>2, <2>3 DEF Writing
    <2> QED
        BY <2>1, <2>4 DEF LoneStart
<1>3. ASSUME NEW r \in Requests, NEW key \in Requests, CheckTrips(r, key)
      PROVE  LoneStart'
    <2>1. Open' = Open /\ races \subseteq races'
        BY <1>3 DEF CheckTrips, Refuse, Done, ActiveTrips, dbVars, tripVars, fuelVars, Open
    <2>2. \A q \in Requests \ {r} : pc'[q] = pc[q] /\ job'[q] = job[q]
        BY <1>3 DEF CheckTrips, Refuse, Done, ActiveTrips, dbVars, tripVars, fuelVars, TypeOK
    <2>3. CASE pc'[r] = "write"
        <3>1. Writing("start")' \subseteq Writing("start") \cup {r}
            BY <2>2 DEF Writing
        <3>2. races' \cap {"starts", "override"} = {} => Writing("start") = {} /\ Open = {}
            BY <1>3, <2>3 DEF CheckTrips, Refuse, Done, ActiveTrips, dbVars, tripVars, fuelVars, TypeOK, Open
        <3> QED
            BY <2>1, <3>1, <3>2 DEF LoneStart
    <2>4. CASE pc'[r] # "write"
        <3>1. Writing("start")' \subseteq Writing("start")
            BY <2>2, <2>4 DEF Writing
        <3> QED
            BY <2>1, <3>1 DEF LoneStart
    <2> QED
        BY <2>3, <2>4
<1>4. ASSUME NEW r \in Requests, ReadLastRefuel(r)
      PROVE  LoneStart'
    BY <1>4 DEF ReadLastRefuel, Raced, dbVars, tripVars, fuelVars, TypeOK, LoneStart, Writing, Open, Idle, Jobs
<1>5. ASSUME NEW r \in Requests, StartTrip(r)
      PROVE  LoneStart'
    BY <1>5 DEF StartTrip, Publish, Raced, Done, dbVars, tripVars, fuelVars, TypeOK, LoneStart, Writing, Open, Idle, Jobs
<1>6. ASSUME NEW r \in Requests, EndTrip(r)
      PROVE  LoneStart'
    BY <1>6 DEF EndTrip, Publish, Release, Done, dbVars, tripVars, fuelVars, TypeOK, LoneStart, Writing, Open, Idle, Jobs
<1>7. ASSUME NEW r \in Requests, RecordFuelLog(r)
      PROVE  LoneStart'
    BY <1>7 DEF RecordFuelLog, Publish, Done, KmSinceLast, dbVars, tripVars, fuelVars, TypeOK, LoneStart, Writing, Open, Idle, Jobs
<1>8. ASSUME NEW r \in Requests, PutOdometer(r)
      PROVE  LoneStart'
    BY <1>8 DEF PutOdometer, Publish, Raced, Done, dbVars, tripVars, fuelVars, TypeOK, LoneStart, Writing, Open, Idle, Jobs
<1>9. ASSUME NEW r \in Requests, Fail(r)
      PROVE  LoneStart'
    BY <1>9 DEF Fail, Refuse, Done, dbVars, tripVars, fuelVars, TypeOK, LoneStart, Writing, Open, Idle, Jobs
<1>10. CASE UNCHANGED vars
    BY <1>10 DEF vars, dbVars, tripVars, fuelVars, dbVars, tripVars, fuelVars, TypeOK, LoneStart, Writing, Open, Idle, Jobs
<1> QED
    BY <1>1, <1>2, <1>3, <1>4, <1>5, <1>6, <1>7, <1>8, <1>9, <1>10 DEF Next

(* Only the end of the open trip sets the vehicle free. *)
LEMMA BusyStep ==
    ASSUME TypeOK, KnownTrips, LoneStart, Busy, [Next]_vars
    PROVE  Busy'
<1>1. ASSUME NEW r \in Requests, NEW kind \in Kinds, NEW reading \in Readings, ReadVehicle(r, kind, reading)
      PROVE  Busy'
    BY <1>1 DEF ReadVehicle, Refuse, Done, Raced, Regressed, Overrides, dbVars, tripVars, fuelVars, TypeOK, Busy, KnownTrips, LoneStart, Writing, Open, Idle, Jobs
<1>2. ASSUME NEW r \in Requests, NEW t \in Requests, NEW reading \in Readings, ReadTrip(r, t, reading)
      PROVE  Busy'
    BY <1>2 DEF ReadTrip, Refuse, Done, Ended, Overrides, dbVars, tripVars, fuelVars, TypeOK, Busy, KnownTrips, LoneStart, Writing, Open, Idle, Jobs
<1>3. ASSUME NEW r \in Requests, NEW key \in Requests, CheckTrips(r, key)
      PROVE  Busy'
    BY <1>3 DEF CheckTrips, Refuse, Done, ActiveTrips, dbVars, tripVars, fuelVars, TypeOK, Busy, KnownTrips, LoneStart, Writing, Open, Idle, Jobs
<1>4. ASSUME NEW r \in Requests, ReadLastRefuel(r)
      PROVE  Busy'
    BY <1>4 DEF ReadLastRefuel, Raced, dbVars, tripVars, fuelVars, TypeOK, Busy, KnownTrips, LoneStart, Writing, Open, Idle, Jobs
<1>5. ASSUME NEW r \in Requests, StartTrip(r)
      PROVE  Busy'
    BY <1>5 DEF StartTrip, Publish, Raced, Done, dbVars, tripVars, fuelVars, TypeOK, Busy, KnownTrips, LoneStart, Writing, Open, Idle, Jobs
<1>6. ASSUME NEW r \in Requests, EndTrip(r)
      PROVE  Busy'
    BY <1>6 DEF EndTrip, Publish, Release, Done, dbVars, tripVars, fuelVars, TypeOK, Busy, KnownTrips, LoneStart, Writing, Open, Idle, Jobs
<1>7. ASSUME NEW r \in Requests, RecordFuelLog(r)
      PROVE  Busy'
    BY <1>7 DEF RecordFuelLog, Publish, Done, KmSinceLast, dbVars, tripVars, fuelVars, TypeOK, Busy, KnownTrips, LoneStart, Writing, Open, Idle, Jobs
<1>8. ASSUME NEW r \in Requests, PutOdometer(r)
      PROVE  Busy'
    BY <1>8 DEF PutOdometer, Publish, Raced, Done, dbVars, tripVars, fuelVars, TypeOK, Busy, KnownTrips, LoneStart, Writing, Open, Idle, Jobs
<1>9. ASSUME NEW r \in Requests, Fail(r)
      PROVE  Busy'
    BY <1>9 DEF Fail, Refuse, Done, dbVars, tripVars, fuelVars, TypeOK, Busy, KnownTrips, LoneStart, Writing, Open, Idle, Jobs
<1>10. CASE UNCHANGED vars
    BY <1>10 DEF vars, dbVars, tripVars, fuelVars, dbVars, tripVars, fuelVars, TypeOK, Busy, KnownTrips, LoneStart, Writing, Open, Idle, Jobs
<1> QED
    BY <1>1, <1>2, <1>3, <1>4, <1>5, <1>6, <1>7, <1>8, <1>9, <1>10 DEF Next

(* The odometer goes back only where an update overwrites a later one. *)
LEMMA OdometerStep ==
    ASSUME TypeOK, CheckedReadings, [Next]_vars
    PROVE  odometer' < odometer => "odometer" \in races'
<1>1. ASSUME NEW r \in Requests, NEW kind \in Kinds, NEW reading \in Readings, ReadVehicle(r, kind, reading)
      PROVE  odometer' < odometer => "odometer" \in races'
    BY <1>1 DEF ReadVehicle, Refuse, Done, Raced, Regressed, Overrides, dbVars, tripVars, fuelVars, TypeOK, CheckedReadings, Jobs, Readings
<1>2. ASSUME NEW r \in Requests, NEW t \in Requests, NEW reading \in Readings, ReadTrip(r, t, reading)
      PROVE  odometer' < odometer => "odometer" \in races'
    BY <1>2 DEF ReadTrip, Refuse, Done, Ended, Overrides, dbVars, tripVars, fuelVars, TypeOK, CheckedReadings, Jobs, Readings
<1>3. ASSUME NEW r \in Requests, NEW key \in Requests, CheckTrips(r, key)
      PROVE  odometer' < odometer => "odometer" \in races'
    BY <1>3 DEF CheckTrips, Refuse, Done, ActiveTrips, dbVars, tripVars, fuelVars, TypeOK, CheckedReadings, Jobs, Readings
<1>4. ASSUME NEW r \in Requests, ReadLastRefuel(r)
      PROVE  odometer' < odometer => "odometer" \in races'
    BY <1>4 DEF ReadLastRefuel, Raced, dbVars, tripVars, fuelVars, TypeOK, CheckedReadings, Jobs, Readings
<1>5. ASSUME NEW r \in Requests, StartTrip(r)
      PROVE  odometer' < odometer => "odometer" \in races'
    BY <1>5 DEF StartTrip, Publish, Raced, Done, dbVars, tripVars, fuelVars, TypeOK, CheckedReadings, Jobs, Readings
<1>6. ASSUME NEW r \in Requests, EndTrip(r)
      PROVE  odometer' < odometer => "odometer" \in races'
    BY <1>6 DEF EndTrip, Publish, Release, Done, dbVars, tripVars, fuelVars, TypeOK, CheckedReadings, Jobs, Readings
<1>7. ASSUME NEW r \in Requests, RecordFuelLog(r)
      PROVE  odometer' < odometer => "odometer" \in races'
    BY <1>7 DEF RecordFuelLog, Publish, Done, KmSinceLast, dbVars, tripVars, fuelVars, TypeOK, CheckedReadings, Jobs, Readings
<1>8. ASSUME NEW r \in Requests, PutOdometer(r)
      PROVE  odometer' < odometer => "odometer" \in races'
    BY <1>8 DEF PutOdometer, Publish, Raced, Done, dbVars, tripVars, fuelVars, TypeOK, CheckedReadings, Jobs, Readings
<1>9. ASSUME NEW r \in Requests, Fail(r)
      PROVE  odometer' < odometer => "odometer" \in races'
    BY <1>9 DEF Fail, Refuse, Done, dbVars, tripVars, fuelVars, TypeOK, CheckedReadings, Jobs, Readings
<1>10. CASE UNCHANGED vars
    BY <1>10 DEF vars, dbVars, tripVars, fuelVars, dbVars, tripVars, fuelVars, TypeOK, CheckedReadings, Jobs, Readings
<1> QED
    BY <1>1, <1>2, <1>3, <1>4, <1>5, <1>6, <1>7, <1>8, <1>9, <1>10 DEF Next

(* An end moves the odometer to the end of its trip at least. *)
LEMMA BehindStep ==
    ASSUME TypeOK, CheckedReadings, BehindOdometer, [Next]_vars
    PROVE  BehindOdometer'
<1>1. ASSUME NEW r \in Requests, NEW kind \in Kinds, NEW reading \in Readings, ReadVehicle(r, kind, reading)
      PROVE  BehindOdometer'
    BY <1>1 DEF ReadVehicle, Refuse, Done, Raced, Regressed, Overrides, dbVars, tripVars, fuelVars, TypeOK, BehindOdometer, CheckedReadings, Jobs, Readings
<1>2. ASSUME NEW r \in Requests, NEW t \in Requests, NEW reading \in Readings, ReadTrip(r, t, reading)
      PROVE  BehindOdometer'
    BY <1>2 DEF ReadTrip, Refuse, Done, Ended, Overrides, dbVars, tripVars, fuelVars, TypeOK, BehindOdometer, CheckedReadings, Jobs, Readings
<1>3. ASSUME NEW r \in Requests, NEW key \in Requests, CheckTrips(r, key)
      PROVE  BehindOdometer'
    BY <1>3 DEF CheckTrips, Refuse, Done, ActiveTrips, dbVars, tripVars, fuelVars, TypeOK, BehindOdometer, CheckedReadings, Jobs, Readings
<1>4. ASSUME NEW r \in Requests, ReadLastRefuel(r)
      PROVE  BehindOdometer'
    BY <1>4 DEF ReadLastRefuel, Raced, dbVars, tripVars, fuelVars, TypeOK, BehindOdometer, CheckedReadings, Jobs, Readings
<1>5. ASSUME NEW r \in Requests, StartTrip(r)
      PROVE  BehindOdometer'
    BY <1>5 DEF StartTrip, Publish, Raced, Done, dbVars, tripVars, fuelVars, TypeOK, BehindOdometer, CheckedReadings, Jobs, Readings
<1>6. ASSUME NEW r \in Requests, EndTrip(r)
      PROVE  BehindOdometer'
    BY <1>6 DEF EndTrip, Publish, Release, Done, dbVars, tripVars, fuelVars, TypeOK, BehindOdometer, CheckedReadings, Jobs, Readings
<1>7. ASSUME NEW r \in Requests, RecordFuelLog(r)
      PROVE  BehindOdometer'
    BY <1>7 DEF RecordFuelLog, Publish, Done, KmSinceLast, dbVars, tripVars, fuelVars, TypeOK, BehindOdometer, CheckedReadings, Jobs, Readings
<1>8. ASSUME NEW r \in Requests, PutOdometer(r)
      PROVE  BehindOdometer'
    BY <1>8 DEF PutOdometer, Publish, Raced, Done, dbVars, tripVars, fuelVars, TypeOK, BehindOdometer, CheckedReadings, Jobs, Readings
<1>9. ASSUME NEW r \in Requests, Fail(r)
      PROVE  BehindOdometer'
    BY <1>9 DEF Fail, Refuse, Done, dbVars, tripVars, fuelVars, TypeOK, BehindOdometer, CheckedReadings, Jobs, Readings
<1>10. CASE UNCHANGED vars
    BY <1>10 DEF vars, dbVars, tripVars, fuelVars, dbVars, tripVars, fuelVars, TypeOK, BehindOdometer, CheckedReadings, Jobs, Readings
<1> QED
    BY <1>1, <1>2, <1>3, <1>4, <1>5, <1>6, <1>7, <1>8, <1>9, <1>10 DEF Next

(* A start is at or past the odometer, and so past every completed trip;   *)
(* an end completes the last trip.                                         *)
LEMMA SequenceStep ==
    ASSUME TypeOK, CheckedReadings, KnownTrips, LoneStart, BehindOdometer, TripsInSequence, [Next]_vars
    PROVE  TripsInSequence'
<1>1. ASSUME NEW r \in Requests, NEW kind \in Kinds, NEW reading \in Readings, ReadVehicle(r, kind, reading)
      PROVE  TripsInSequence'
    BY <1>1 DEF ReadVehicle, Refuse, Done, Raced, Regressed, Overrides, dbVars, tripVars, fuelVars, TypeOK, TripsInSequence, BehindOdometer, CheckedReadings, KnownTrips, LoneStart, Writing, Open, Jobs, Readings
<1>2. ASSUME NEW r \in Requests, NEW t \in Requests, NEW reading \in Readings, ReadTrip(r, t, reading)
      PROVE  TripsInSequence'
    BY <1>2 DEF ReadTrip, Refuse, Done, Ended, Overrides, dbVars, tripVars, fuelVars, TypeOK, TripsInSequence, BehindOdometer, CheckedReadings, KnownTrips, LoneStart, Writing, Open, Jobs, Readings
<1>3. ASSUME NEW r \in Requests, NEW key \in Requests, CheckTrips(r, key)
      PROVE  TripsInSequence'
    BY <1>3 DEF CheckTrips, Refuse, Done, ActiveTrips, dbVars, tripVars, fuelVars, TypeOK, TripsInSequence, BehindOdometer, CheckedReadings, KnownTrips, LoneStart, Writing, Open, Jobs, Readings
<1>4. ASSUME NEW r \in Requests, ReadLastRefuel(r)
      PROVE  TripsInSequence'
    BY <1>4 DEF ReadLastRefuel, Raced, dbVars, tripVars, fuelVars, TypeOK, TripsInSequence, BehindOdometer, CheckedReadings, KnownTrips, LoneStart, Writing, Open, Jobs, Readings
<1>5. ASSUME NEW r \in Requests, StartTrip(r)
      PROVE  TripsInSequence'
    <2> DEFINE Clean == races' \cap {"starts", "ends", "reading", "odometer", "override"} = {}
    <2>1. SUFFICES ASSUME Clean PROVE TripsInSequence'
        BY DEF TripsInSequence
    <2>2. races = races' /\ odometer = seen[r] /\ races' \subseteq Races
        BY <1>5, <2>1 DEF StartTrip, Raced, Done, fuelVars, TypeOK, Races
    <2>3. odometer <= job[r].reading
        BY <1>5, <2>1, <2>2 DEF StartTrip, Raced, Done, fuelVars, CheckedReadings
    <2>4. \A t \in Requests : tstate[t] = "COMPLETED" => to[t] <= job[r].reading
        BY <2>1, <2>2, <2>3 DEF BehindOdometer, TypeOK, Jobs, Readings
    <2>5. tstate[r] = "ABSENT"
        BY <1>5 DEF StartTrip, Raced, Done, fuelVars, KnownTrips
    <2>6. /\ tstate'[r] = "OPEN" /\ from'[r] = job[r].reading /\ to' = to
          /\ \A t \in Requests \ {r} : tstate'[t] = tstate[t] /\ from'[t] = from[t]
        BY <1>5 DEF StartTrip, Raced, Done, fuelVars, TypeOK
    <2> QED
        BY <2>1, <2>2, <2>4, <2>5, <2>6 DEF TripsInSequence
<1>6. ASSUME NEW r \in Requests, EndTrip(r)
      PROVE  TripsInSequence'
    BY <1>6 DEF EndTrip, Publish, Release, Done, dbVars, tripVars, fuelVars, TypeOK, TripsInSequence, BehindOdometer, CheckedReadings, KnownTrips, LoneStart, Writing, Open, Jobs, Readings
<1>7. ASSUME NEW r \in Requests, RecordFuelLog(r)
      PROVE  TripsInSequence'
    BY <1>7 DEF RecordFuelLog, Publish, Done, KmSinceLast, dbVars, tripVars, fuelVars, TypeOK, TripsInSequence, BehindOdometer, CheckedReadings, KnownTrips, LoneStart, Writing, Open, Jobs, Readings
<1>8. ASSUME NEW r \in Requests, PutOdometer(r)
      PROVE  TripsInSequence'
    BY <1>8 DEF PutOdometer, Publish, Raced, Done, dbVars, tripVars, fuelVars, TypeOK, TripsInSequence, BehindOdometer, CheckedReadings, KnownTrips, LoneStart, Writing, Open, Jobs, Readings
<1>9. ASSUME NEW r \in Requests, Fail(r)
      PROVE  TripsInSequence'
    BY <1>9 DEF Fail, Refuse, Done, dbVars, tripVars, fuelVars, TypeOK, TripsInSequence, BehindOdometer, CheckedReadings, KnownTrips, LoneStart, Writing, Open, Jobs, Readings
<1>10. CASE UNCHANGED vars
    BY <1>10 DEF vars, dbVars, tripVars, fuelVars, dbVars, tripVars, fuelVars, TypeOK, TripsInSequence, BehindOdometer, CheckedReadings, KnownTrips, LoneStart, Writing, Open, Jobs, Readings
<1> QED
    BY <1>1, <1>2, <1>3, <1>4, <1>5, <1>6, <1>7, <1>8, <1>9, <1>10 DEF Next

(* A refuel adds the way from the one before it. *)
LEMMA RefuelStep ==
    ASSUME TypeOK, RefuelChain, RefuelsAddUp, [Next]_vars
    PROVE  RefuelChain' /\ RefuelsAddUp'
<1>1. ASSUME NEW r \in Requests, NEW kind \in Kinds, NEW reading \in Readings, ReadVehicle(r, kind, reading)
      PROVE  RefuelChain' /\ RefuelsAddUp'
    BY <1>1, FleetAssumption DEF ReadVehicle, Refuse, Done, Raced, Regressed, Overrides, dbVars, tripVars, fuelVars, TypeOK, RefuelChain, RefuelsAddUp, Writing, Jobs, Idle, Readings
<1>2. ASSUME NEW r \in Requests, NEW t \in Requests, NEW reading \in Readings, ReadTrip(r, t, reading)
      PROVE  RefuelChain' /\ RefuelsAddUp'
    BY <1>2, FleetAssumption DEF ReadTrip, Refuse, Done, Ended, Overrides, dbVars, tripVars, fuelVars, TypeOK, RefuelChain, RefuelsAddUp, Writing, Jobs, Idle, Readings
<1>3. ASSUME NEW r \in Requests, NEW key \in Requests, CheckTrips(r, key)
      PROVE  RefuelChain' /\ RefuelsAddUp'
    BY <1>3, FleetAssumption DEF CheckTrips, Refuse, Done, ActiveTrips, dbVars, tripVars, fuelVars, TypeOK, RefuelChain, RefuelsAddUp, Writing, Jobs, Idle, Readings
<1>4. ASSUME NEW r \in Requests, ReadLastRefuel(r)
      PROVE  RefuelChain' /\ RefuelsAddUp'
    BY <1>4, FleetAssumption DEF ReadLastRefuel, Raced, dbVars, tripVars, fuelVars, TypeOK, RefuelChain, RefuelsAddUp, Writing, Jobs, Idle, Readings
<1>5. ASSUME NEW r \in Requests, StartTrip(r)
      PROVE  RefuelChain' /\ RefuelsAddUp'
    BY <1>5, FleetAssumption DEF StartTrip, Publish, Raced, Done, dbVars, tripVars, fuelVars, TypeOK, RefuelChain, RefuelsAddUp, Writing, Jobs, Idle, Readings
<1>6. ASSUME NEW r \in Requests, EndTrip(r)
      PROVE  RefuelChain' /\ RefuelsAddUp'
    BY <1>6, FleetAssumption DEF EndTrip, Publish, Release, Done, dbVars, tripVars, fuelVars, TypeOK, RefuelChain, RefuelsAddUp, Writing, Jobs, Idle, Readings
<1>7. ASSUME NEW r \in Requests, RecordFuelLog(r)
      PROVE  RefuelChain' /\ RefuelsAddUp'
    BY <1>7, FleetAssumption DEF RecordFuelLog, Publish, Done, KmSinceLast, dbVars, tripVars, fuelVars, TypeOK, RefuelChain, RefuelsAddUp, Writing, Jobs, Idle, Readings
<1>8. ASSUME NEW r \in Requests, PutOdometer(r)
      PROVE  RefuelChain' /\ RefuelsAddUp'
    BY <1>8, FleetAssumption DEF PutOdometer, Publish, Raced, Done, dbVars, tripVars, fuelVars, TypeOK, RefuelChain, RefuelsAddUp, Writing, Jobs, Idle, Readings
<1>9. ASSUME NEW r \in Requests, Fail(r)
      PROVE  RefuelChain' /\ RefuelsAddUp'
    BY <1>9, FleetAssumption DEF Fail, Refuse, Done, dbVars, tripVars, fuelVars, TypeOK, RefuelChain, RefuelsAddUp, Writing, Jobs, Idle, Readings
<1>10. CASE UNCHANGED vars
    BY <1>10 DEF vars, dbVars, tripVars, fuelVars, dbVars, tripVars, fuelVars, TypeOK, RefuelChain, RefuelsAddUp, Writing, Jobs, Idle, Readings
<1> QED
    BY <1>1, <1>2, <1>3, <1>4, <1>5, <1>6, <1>7, <1>8, <1>9, <1>10 DEF Next

-----------------------------------------------------------------------------

(* The invariant holds at first and is kept. *)
LEMMA Invariant == Spec => []IndInv
<1>1. Init => IndInv
    <2> SUFFICES ASSUME Init PROVE IndInv
        OBVIOUS
    <2>1. TypeOK
        BY FleetAssumption DEF Init, TypeOK, Jobs, Idle, Readings, Races
    <2>2. \A s : Writing(s) = {} /\ Open = {}
        BY DEF Init, Writing, Open
    <2>3. PublishedIsRow /\ CheckedReadings /\ BehindOdometer /\ TripsInSequence
        BY DEF Init, PublishedIsRow, CheckedReadings, BehindOdometer, TripsInSequence
    <2>4. KnownTrips /\ LoneStart /\ Busy
        BY <2>2 DEF Init, KnownTrips, LoneStart, Busy
    <2>5. RefuelChain /\ RefuelsAddUp
        BY <2>2 DEF Init, RefuelChain, RefuelsAddUp
    <2> QED
        BY <2>1, <2>3, <2>4, <2>5 DEF IndInv
<1>2. IndInv /\ [Next]_vars => IndInv'
    BY TypeStep, PublishedStep, ReadingsStep, KnownTripsStep, LoneStartStep, BusyStep,
       BehindStep, SequenceStep, RefuelStep DEF IndInv
<1> QED
    BY <1>1, <1>2, PTL DEF Spec

(* Every variable has its type, whatever the requests and their order. *)
THEOREM FleetTypeCorrect == Spec => []TypeOK
<1>1. IndInv => TypeOK
    BY DEF IndInv
<1> QED
    BY <1>1, Invariant, PTL

(* A vehicle has one open trip at most (assertNoActiveTrip() of guards.js), *)
(* unless two starts overlapped or one was let past the check.             *)
THEOREM OneTripAtATime == Spec => []OneOpenTrip
<1>1. IndInv => OneOpenTrip
    <2> SUFFICES ASSUME IndInv, races \cap {"starts", "override"} = {}
                 PROVE  Cardinality(Open) <= 1
        BY DEF OneOpenTrip
    <2>1. CASE Open = {}
        BY <2>1, FS_EmptySet
    <2>2. CASE Open # {}
        <3>1. PICK t \in Open : TRUE
            BY <2>2
        <3>2. Open = {t}
            BY <3>1 DEF IndInv, LoneStart
        <3> QED
            BY <3>2, FS_Singleton
    <2> QED
        BY <2>1, <2>2
<1> QED
    BY <1>1, Invariant, PTL

(* A vehicle with an open trip is ON_ROUTE in the table and in the last    *)
(* change its devices were sent.                                           *)
THEOREM VehicleIsBusy == Spec => []BusyWhileOpen
<1>1. IndInv => BusyWhileOpen
    BY DEF IndInv, BusyWhileOpen, Busy, PublishedIsRow
<1> QED
    BY <1>1, Invariant, PTL

(* No kilometre belongs to two trips, as long as no check was overtaken.   *)
THEOREM TripsDoNotOverlap == Spec => []TripsInSequence
<1>1. IndInv => TripsInSequence
    BY DEF IndInv
<1> QED
    BY <1>1, Invariant, PTL

(* The kilometres of the refuels add up, unless two refuels overlapped.    *)
THEOREM RefuelSum == Spec => []RefuelsAddUp
<1>1. IndInv => RefuelsAddUp
    BY DEF IndInv
<1> QED
    BY <1>1, Invariant, PTL

(* Only an odometer update whose check was overtaken takes it back.        *)
THEOREM OdometerNeverRegresses == Spec => OdometerMonotone
<1>1. IndInv /\ [Next]_vars => [odometer' < odometer => "odometer" \in races']_vars
    BY OdometerStep DEF IndInv
<1> QED
    BY <1>1, Invariant, PTL DEF Spec, OdometerMonotone

=============================================================================
