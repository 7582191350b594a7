------------------------------ MODULE FleetTrips ------------------------------
(***************************************************************************)
(* One vehicle, its trips and its refuels (services/fleetService.js).      *)
(* Every request, online or from the push queue, first reads the vehicle   *)
(* or the trip and decides, in queries of its own, and writes later in one *)
(* transaction; other requests run in between.  A trip is named after the  *)
(* request that started it.                                                *)
(***************************************************************************)
EXTENDS Integers, FiniteSets

CONSTANTS
    Requests,     \* requests, each made once; a retry is another one
    Overriding,   \* those with conflictOverride, sent to resolve a conflict
    Kinds,        \* what they may ask for
    MaxReading,   \* largest odometer reading of a payload
    NoReading     \* no refuel is on record

ASSUME FleetAssumption ==
    /\ Overriding \subseteq Requests
    /\ Kinds \subseteq {"start", "end", "fuel", "put"}
    /\ MaxReading \in Nat
    /\ NoReading \notin Int

VARIABLES
    (* dim_vehicle *)
    odometer,     \* current_odometer
    vstatus,      \* status
    (* fact_trip *)
    tstate,       \* trip_status; STARTED is "OPEN", "ABSENT" before the INSERT
    from, to,     \* start_odometer, end_odometer
    (* fact_fuel_log *)
    refuel,       \* odometer_reading of the latest row, and of the first
    refuelKm,     \* sum of km_since_last_refuel
    (* change_log *)
    published,    \* the vehicle row of the latest VEHICLES change
    (* the requests *)
    pc,           \* "new", "check", "write" (its transaction is to run) or "done"
    job,          \* what it is about
    seen,         \* the odometer, or the last refuel, it decided upon
    (* history *)
    races         \* what has run into each other

tripVars == <<tstate, from, to>>
fuelVars == <<refuel, refuelKm>>
dbVars == <<odometer, vstatus, tripVars, fuelVars, published>>
vars == <<dbVars, pc, job, seen, races>>

Readings == 0..MaxReading

Jobs == [kind : {"none"} \cup Kinds, reading : Readings, trip : Requests]

Idle(r) == [kind |-> "none", reading |-> 0, trip |-> r]

(* "starts", "ends", "refuels": two requests of that kind decided before   *)
(* either wrote; "reading": a trip started on an odometer that has moved   *)
(* since it was checked; "odometer": the odometer was set on such a check; *)
(* "override": a trip was started or ended past a check it failed, or      *)
(* started by a payload that names the vehicle's open trip.                *)
Races == {"starts", "ends", "refuels", "reading", "odometer", "override"}

TypeOK ==
    /\ odometer \in Readings /\ vstatus \in {"ACTIVE", "ON_ROUTE"}
    /\ tstate \in [Requests -> {"ABSENT", "OPEN", "COMPLETED"}]
    /\ from \in [Requests -> Readings] /\ to \in [Requests -> Readings]
    /\ refuel \in [first : Readings \cup {NoReading}, last : Readings \cup {NoReading}]
    /\ refuelKm \in Int
    /\ published \in [odometer : Readings, status : {"ACTIVE", "ON_ROUTE"}]
    /\ pc \in [Requests -> {"new", "check", "write", "done"}]
    /\ job \in [Requests -> Jobs]
    /\ seen \in [Requests -> Readings \cup {NoReading}]
    /\ races \subseteq Races

Init ==
    /\ odometer = 0 /\ vstatus = "ACTIVE"
    /\ tstate = [r \in Requests |-> "ABSENT"]
    /\ from = [r \in Requests |-> 0] /\ to = [r \in Requests |-> 0]
    /\ refuel = [first |-> NoReading, last |-> NoReading]
    /\ refuelKm = 0
    /\ published = [odometer |-> 0, status |-> "ACTIVE"]
    /\ pc = [r \in Requests |-> "new"]
    /\ job = [r \in Requests |-> Idle(r)]
    /\ seen = [r \in Requests |-> 0]
    /\ races = {}

-----------------------------------------------------------------------------

Open == {t \in Requests : tstate[t] = "OPEN"}

(* The requests of a kind that have decided and not yet written. *)
Writing(kind) == {r \in Requests : pc[r] = "write" /\ job[r].kind = kind}

(* Only trips and refuels sent to resolve a conflict override a check; the *)
(* odometer route has no such option.                                      *)
Overrides(r, kind) == r \in Overriding /\ kind # "put"

Raced(happened, race) == races' = IF happened THEN races \cup {race} ELSE races

Done(r) ==
    /\ pc' = [pc EXCEPT ![r] = "done"]
    /\ job' = [job EXCEPT ![r] = Idle(r)]
    /\ seen' = [seen EXCEPT ![r] = 0]

Refuse(r) ==
    /\ Done(r)
    /\ UNCHANGED <<dbVars, races>>

(* Mutant: the reading is not compared. *)
RegressedNever(reading) == FALSE

(* assertOdometerNotRegressed() *)
Regressed(reading) == reading < odometer

(* The first query of a start, a refuel or an odometer update: a reading   *)
(* below the vehicle's is a 409 or a parked conflict.  An overriding start *)
(* skips the query for open trips too.                                     *)
ReadVehicle(r, kind, reading) ==
    /\ pc[r] = "new"
    /\ kind \in Kinds \ {"end"}
    /\ IF Regressed(reading) /\ ~Overrides(r, kind)
       THEN Refuse(r)
       ELSE /\ pc' = [pc EXCEPT ![r] =
                   IF kind = "fuel" \/ (kind = "start" /\ ~Overrides(r, kind))
                   THEN "check" ELSE "write"]
            /\ job' = [job EXCEPT ![r] = [kind |-> kind, reading |-> reading, trip |-> r]]
            /\ seen' = [seen EXCEPT ![r] = odometer]
            /\ Raced(kind = "start" /\ Overrides(r, kind), "override")
            /\ UNCHANGED dbVars

(* Mutant: the query for open trips is forgotten. *)
OpenUnchecked(key) == {}

(* findActiveTrip(), which leaves out the trip whose key it is given. *)
ActiveTrips(key) == Open \ {key}

(* The key comes from the payload of the start; r itself stands for none. *)
CheckTrips(r, key) ==
    /\ pc[r] = "check" /\ job[r].kind = "start"
    /\ IF ActiveTrips(key) # {}
       THEN Refuse(r)
       ELSE /\ pc' = [pc EXCEPT ![r] = "write"]
            /\ races' = races \cup (IF Writing("start") # {} THEN {"starts"} ELSE {})
                   \cup (IF key \in Open THEN {"override"} ELSE {})
            /\ UNCHANGED <<dbVars, job, seen>>

ReadLastRefuel(r) ==
    /\ pc[r] = "check" /\ job[r].kind = "fuel"
    /\ pc' = [pc EXCEPT ![r] = "write"]
    /\ seen' = [seen EXCEPT ![r] = refuel.last]
    /\ Raced(Writing("fuel") # {}, "refuels")
    /\ UNCHANGED <<dbVars, job>>

(* Mutant: a completed trip is ended again. *)
EndedNever(t) == FALSE

Ended(t) == tstate[t] = "COMPLETED"

(* The first query of endTrip(): no such trip is a 404 or a conflict, a    *)
(* completed one is acknowledged, a reading below its start is refused.    *)
ReadTrip(r, t, reading) ==
    /\ pc[r] = "new"
    /\ "end" \in Kinds
    /\ LET short == reading < from[t]
       IN  IF tstate[t] = "ABSENT" \/ Ended(t) \/ (short /\ ~Overrides(r, "end"))
           THEN Refuse(r)
           ELSE /\ pc' = [pc EXCEPT ![r] = "write"]
                /\ job' = [job EXCEPT ![r] = [kind |-> "end", reading |-> reading, trip |-> t]]
                /\ races' = races \cup (IF short THEN {"override"} ELSE {})
                       \cup (IF \E q \in Writing("end") : job[q].trip = t THEN {"ends"} ELSE {})
                /\ UNCHANGED <<dbVars, seen>>

-----------------------------------------------------------------------------
(* The transactions.  Each ends with recordChange(), which puts the        *)
(* vehicle's row as it now is into the change log.                         *)

Publish == published' = [odometer |-> odometer', status |-> vstatus']

StartTrip(r) ==
    /\ pc[r] = "write" /\ job[r].kind = "start"
    /\ tstate' = [tstate EXCEPT ![r] = "OPEN"]
    /\ from' = [from EXCEPT ![r] = job[r].reading]
    /\ vstatus' = "ON_ROUTE"
    /\ UNCHANGED <<odometer, to, fuelVars>>
    /\ Publish
    /\ Raced(odometer # seen[r], "reading")
    /\ Done(r)

(* Mutant: the UPDATE at the end of a trip has no WHERE on the odometer. *)
ReleaseAlways(reading) == odometer' = reading /\ vstatus' = "ACTIVE"

(* One UPDATE sets odometer and status, WHERE current_odometer < @endOdometer. *)
Release(reading) ==
    IF odometer < reading
    THEN odometer' = reading /\ vstatus' = "ACTIVE"
    ELSE UNCHANGED <<odometer, vstatus>>

EndTrip(r) ==
    /\ pc[r] = "write" /\ job[r].kind = "end"
    /\ tstate' = [tstate EXCEPT ![job[r].trip] = "COMPLETED"]
    /\ to' = [to EXCEPT ![job[r].trip] = job[r].reading]
    /\ Release(job[r].reading)
    /\ Publish
    /\ Done(r)
    /\ UNCHANGED <<from, fuelVars, races>>

(* Mutant: kilometres are counted from the vehicle's odometer. *)
KmSinceOdometer(r) == IF seen[r] = NoReading THEN 0 ELSE job[r].reading - odometer

KmSinceLast(r) == IF seen[r] = NoReading THEN 0 ELSE job[r].reading - seen[r]

RecordFuelLog(r) ==
    /\ pc[r] = "write" /\ job[r].kind = "fuel"
    /\ refuel' = [refuel EXCEPT !.last = job[r].reading,
                                !.first = IF @ = NoReading THEN job[r].reading ELSE @]
    /\ refuelKm' = refuelKm + KmSinceLast(r)
    /\ odometer' = IF odometer < job[r].reading THEN job[r].reading ELSE odometer
    /\ UNCHANGED <<vstatus, tripVars, races>>
    /\ Publish
    /\ Done(r)

PutOdometer(r) ==
    /\ pc[r] = "write" /\ job[r].kind = "put"
    /\ odometer' = job[r].reading
    /\ UNCHANGED <<vstatus, tripVars, fuelVars>>
    /\ Publish
    /\ Raced(odometer # seen[r], "odometer")
    /\ Done(r)

(* A query or the transaction fails, or the process dies: nothing is written. *)
Fail(r) ==
    /\ pc[r] \in {"check", "write"}
    /\ Refuse(r)

Next ==
    \E r \in Requests :
        \/ \E kind \in Kinds, reading \in Readings : ReadVehicle(r, kind, reading)
        \/ \E t \in Requests, reading \in Readings : ReadTrip(r, t, reading)
        \/ \E key \in Requests : CheckTrips(r, key)
        \/ ReadLastRefuel(r)
        \/ StartTrip(r)
        \/ EndTrip(r)
        \/ RecordFuelLog(r)
        \/ PutOdometer(r)
        \/ Fail(r)

Spec == Init /\ [][Next]_vars

-----------------------------------------------------------------------------
(* Properties *)

(* A vehicle has one open trip at most, unless two starts overlapped, a    *)
(* manager overrode the collision or the payload named the open trip:      *)
(* ends, failures and refuels between check and insert never make a second *)
(* one.                                                                    *)
OneOpenTrip == races \cap {"starts", "override"} = {} => Cardinality(Open) <= 1

(* Whoever is on a trip is ON_ROUTE, in the table and for the devices: no  *)
(* late or repeated end of another trip, refuel or odometer update sets    *)
(* the vehicle free under it, or publishes it as free.                     *)
BusyWhileOpen ==
    races \cap {"starts", "ends", "override"} = {} /\ Open # {} =>
        vstatus = "ON_ROUTE" /\ published.status = "ON_ROUTE"

(* No kilometre is driven twice: the odometer ranges of two completed      *)
(* trips do not overlap, and an open one begins past every completed one,  *)
(* as long as no check was overtaken by a write it should have seen.       *)
TripsInSequence ==
    races \cap {"starts", "ends", "reading", "odometer", "override"} = {} =>
        \A t \in Requests : \A u \in Requests \ {t} :
            tstate[t] = "COMPLETED" =>
                \/ tstate[u] = "OPEN" /\ to[t] <= from[u]
                \/ tstate[u] = "COMPLETED" /\ (to[t] <= from[u] \/ to[u] <= from[t])
                \/ tstate[u] = "ABSENT"

(* The kilometres since the last refuel add up to the way from the first   *)
(* refuel to the last, overridden readings included, unless two refuels    *)
(* overlapped.                                                             *)
RefuelsAddUp ==
    "refuels" \notin races /\ refuel.first # NoReading =>
        refuelKm = refuel.last - refuel.first

(* TD-13: no override, failure or overlap of trips and refuels takes the   *)
(* odometer back; only an odometer update whose check was overtaken does.  *)
OdometerMonotone ==
    [][odometer' < odometer => "odometer" \in races']_vars

-----------------------------------------------------------------------------
(* What comments and docs claim, to check against the code *)

(* guards.js: "a vehicle may not have two open trips".                     *)
TwoOpenTripsNever == Cardinality(Open) <= 1

(* guards.js: "a new reading may never be below the vehicle's current      *)
(* reading".                                                               *)
OdometerNeverBack == [][odometer' >= odometer]_vars

(* docs/openapi.yaml, endTrip: "the vehicle returns to ACTIVE".  Stated of *)
(* a vehicle's only open trip, and one that covered some distance.         *)
VehicleFreed ==
    [][\A r \in Requests :
           /\ EndTrip(r)
           /\ Open = {job[r].trip} /\ from[job[r].trip] < job[r].reading
           => vstatus' = "ACTIVE"]_vars

(* fleetService.js: "ending an already-COMPLETED trip is a no-op".         *)
EndingAgainChangesNothing ==
    [][\A t \in Requests : tstate[t] = "COMPLETED" => to'[t] = to[t]]_vars

=============================================================================
