------------------------------- MODULE ChangeFeed -------------------------------
(***************************************************************************)
(* The transactional outbox and the delta pull with their transactions in  *)
(* flight (services/changeLogService.js recordChange(), config/db.js       *)
(* withTransaction(), services/syncPullService.js, migration 05): what     *)
(* PullSync takes as one step.  A transaction bumps version_no, keeps the  *)
(* lock of the row, inserts into the log under the next IDENTITY key, and  *)
(* commits or rolls back; a change_key is handed out at the INSERT and its *)
(* row is there for others at the COMMIT, so keys commit in any order.     *)
(*                                                                         *)
(* A delta page is a range scan of IX_change_log_pull in key order.  The   *)
(* scripts leave the database at locking READ COMMITTED (Blocking = TRUE): *)
(* the scan waits at a row that is in flight.  Under READ_COMMITTED_       *)
(* SNAPSHOT (Blocking = FALSE) it would pass over it.                      *)
(*                                                                         *)
(* Cursor 0 stands for the key the snapshot of a device ended at; the      *)
(* snapshots, the tombstones and the retention are in PullSync.            *)
(***************************************************************************)
EXTENDS Naturals, FiniteSets

CONSTANTS
    Writers,      \* transactions of services, sweeps and snapshots, at a time
    Entities,     \* rows of the dataset
    Devices,      \* devices with a cursor
    NoEntity,     \* "no row bumped"
    PageSize,     \* SYNC_PULL_PAGE_SIZE
    Blocking,     \* reads wait for rows in flight
    MaxKeys,      \* bound on the IDENTITY
    MaxFaults     \* bound on lost replies

ASSUME FeedAssumption ==
    /\ NoEntity \notin Entities
    /\ PageSize \in Nat \ {0} /\ Blocking \in BOOLEAN
    /\ MaxKeys \in Nat /\ MaxFaults \in Nat

VARIABLES
    (* the table and sync_change_log *)
    version,      \* version_no of a row, as committed
    log,          \* committed rows of the log
    lastKey,      \* the IDENTITY counter of change_key
    (* the transactions *)
    bumped,       \* the row it has bumped and not yet logged
    tx,           \* the log rows it has inserted
    (* the requests of the devices *)
    pc,           \* "idle" or "scan"
    page,         \* rows the scan has collected
    at,           \* the key it has come to
    (* the devices *)
    cursor,       \* the last applied change_key
    seen,         \* the changes it has been sent
    faults

tableVars == <<version, log, lastKey, bumped, tx>>
deviceVars == <<pc, page, at, cursor, seen, faults>>
vars == <<tableVars, deviceVars>>

Rows == [key : Nat, entity : Entities, version : Nat]

TypeOK ==
    /\ version \in [Entities -> Nat]
    /\ log \subseteq Rows /\ lastKey \in Nat
    /\ bumped \in [Writers -> Entities \cup {NoEntity}]
    /\ tx \in [Writers -> SUBSET Rows]
    /\ pc \in [Devices -> {"idle", "scan"}]
    /\ page \in [Devices -> SUBSET Rows] /\ at \in [Devices -> Nat]
    /\ cursor \in [Devices -> Nat] /\ seen \in [Devices -> SUBSET Rows]
    /\ faults \in Nat

Init ==
    /\ version = [e \in Entities |-> 1]
    /\ log = {} /\ lastKey = 0
    /\ bumped = [w \in Writers |-> NoEntity]
    /\ tx = [w \in Writers |-> {}]
    /\ pc = [d \in Devices |-> "idle"]
    /\ page = [d \in Devices |-> {}] /\ at = [d \in Devices |-> 0]
    /\ cursor = [d \in Devices |-> 0] /\ seen = [d \in Devices |-> {}]
    /\ faults = 0

-----------------------------------------------------------------------------
(* recordChange() in a transaction; a transaction may log several rows     *)
(* (runGRNAutoClose() logs every GRN it escalates).                        *)

Locks(w, e) == bumped[w] = e \/ \E l \in tx[w] : l.entity = e

(* Mutant: the new version is computed from a read without a lock. *)
UnlockedRow(e) == TRUE

(* UPDATE ... SET version_no = version_no + 1: one holder of the row until *)
(* its transaction ends.                                                   *)
RowLockFree(e) == \A w \in Writers : ~Locks(w, e)

Bump(w, e) ==
    /\ lastKey + Cardinality({v \in Writers : bumped[v] # NoEntity}) < MaxKeys
    /\ bumped[w] = NoEntity
    /\ RowLockFree(e)
    /\ bumped' = [bumped EXCEPT ![w] = e]
    /\ UNCHANGED <<version, log, lastKey, tx, deviceVars>>

LogChange(w) ==
    /\ bumped[w] # NoEntity
    /\ lastKey' = lastKey + 1
    /\ tx' = [tx EXCEPT ![w] = @ \cup
           {[key |-> lastKey + 1, entity |-> bumped[w], version |-> version[bumped[w]] + 1]}]
    /\ bumped' = [bumped EXCEPT ![w] = NoEntity]
    /\ UNCHANGED <<version, log, deviceVars>>

Close(w) ==
    /\ tx' = [tx EXCEPT ![w] = {}]
    /\ bumped' = [bumped EXCEPT ![w] = NoEntity]
    /\ UNCHANGED <<lastKey, deviceVars>>

Commit(w) ==
    /\ bumped[w] = NoEntity /\ tx[w] # {}
    /\ log' = log \cup tx[w]
    /\ version' = [e \in Entities |->
           IF \E l \in tx[w] : l.entity = e THEN version[e] + 1 ELSE version[e]]
    /\ Close(w)

(* An error of a later statement, a deadlock victim, a crash.  The keys it *)
(* took are gone.                                                          *)
Rollback(w) ==
    /\ bumped[w] # NoEntity \/ tx[w] # {}
    /\ UNCHANGED <<version, log>>
    /\ Close(w)

-----------------------------------------------------------------------------
(* The delta page of pullChanges()                                         *)

InFlight == UNION {tx[w] : w \in Writers}

Ask(d) ==
    /\ pc[d] = "idle"
    /\ pc' = [pc EXCEPT ![d] = "scan"]
    /\ at' = [at EXCEPT ![d] = cursor[d]]
    /\ page' = [page EXCEPT ![d] = {}]
    /\ UNCHANGED <<tableVars, cursor, seen, faults>>

(* What the scan comes across: also rows in flight, if reads block. *)
Visible == IF Blocking THEN log \cup InFlight ELSE log

Ahead(d) == {l \in Visible : at[d] < l.key}

(* Mutant: the page is not read in the order of its keys. *)
AnyAhead(d, l) == l \in Ahead(d)

NextAhead(d, l) == l \in Ahead(d) /\ \A m \in Ahead(d) : l.key <= m.key

Full(d) == Cardinality(page[d]) >= PageSize

Scan(d) ==
    /\ pc[d] = "scan" /\ ~Full(d)
    /\ \E l \in log :
           /\ NextAhead(d, l)
           /\ page' = [page EXCEPT ![d] = @ \cup {l}]
           /\ at' = [at EXCEPT ![d] = l.key]
    /\ UNCHANGED <<tableVars, pc, cursor, seen, faults>>

(* Mutant: the cursor becomes the newest key of the log. *)
NewestKey(d) ==
    IF page[d] = {} THEN cursor[d] ELSE CHOOSE k \in {l.key : l \in log} : \A l \in log : l.key <= k

(* The last change_key of the page, or the cursor as it was. *)
NextCursor(d) == IF page[d] = {} THEN cursor[d] ELSE at[d]

Answered(d) ==
    /\ pc[d] = "scan"
    /\ Full(d) \/ Ahead(d) = {}
    /\ pc' = [pc EXCEPT ![d] = "idle"]
    /\ page' = [page EXCEPT ![d] = {}]
    /\ at' = [at EXCEPT ![d] = 0]
    /\ UNCHANGED tableVars

Reply(d) ==
    /\ Answered(d)
    /\ seen' = [seen EXCEPT ![d] = @ \cup page[d]]
    /\ cursor' = [cursor EXCEPT ![d] = NextCursor(d)]
    /\ UNCHANGED faults

(* The device did not get the answer and will ask with its old cursor.     *)
LoseReply(d) ==
    /\ Answered(d)
    /\ faults < MaxFaults /\ faults' = faults + 1
    /\ UNCHANGED <<seen, cursor>>

-----------------------------------------------------------------------------

Transact(w) ==
    \/ \E e \in Entities : Bump(w, e)
    \/ LogChange(w)
    \/ Commit(w)
    \/ Rollback(w)

Pull(d) == Ask(d) \/ Scan(d) \/ Reply(d)

Next ==
    \/ \E w \in Writers : Transact(w)
    \/ \E d \in Devices : Pull(d) \/ LoseReply(d)

Spec == Init /\ [][Next]_vars

(* Devices keep pulling, and a transaction ends: the driver's request      *)
(* timeout and withTransaction() see to it.                                *)
FairSpec ==
    /\ Spec
    /\ \A d \in Devices : WF_vars(Pull(d))
    /\ \A w \in Writers : WF_vars(Commit(w) \/ Rollback(w))

-----------------------------------------------------------------------------
(* Properties *)

(* The changes no transaction in flight can come before. *)
Stable == {l \in log : \A m \in InFlight : l.key < m.key}

(* A delta pull never passes a key that commits later: a device has every  *)
(* committed change up to its cursor, although keys are handed out in one  *)
(* order and committed in another and some never are.                      *)
NothingSkipped ==
    \A d \in Devices : seen[d] = {l \in log : l.key <= cursor[d]}

F == INSTANCE Feed WITH Readers <- Devices, published <- Stable,
                        position <- cursor, delivered <- seen

(* Transactions that overlap, roll back and commit in any order, and pages *)
(* that are read row by row and lost, amount to the one ordered feed of    *)
(* the migration's header: what is behind the oldest key in flight is      *)
(* published in key order, and the versions of an entity follow its keys.  *)
ImplementsFeed == F!Spec

(* A scan goes up the keys; an answer takes the device past a change it    *)
(* did not have, or finds none committed or in flight after its cursor;    *)
(* and no change is sent again in a page that arrives.                     *)
ScansAdvance ==
    [][\A d \in Devices :
           /\ Scan(d) => at'[d] > at[d]
           /\ Reply(d) => /\ cursor'[d] > cursor[d] \/ \A l \in Visible : l.key <= cursor[d]
                          /\ page[d] \cap seen[d] = {}]_vars

(* A committed change reaches every device, whatever transactions its scan *)
(* has to wait for.                                                        *)
Delivered ==
    \A d \in Devices, k \in 1..MaxKeys :
        (\E l \in log : l.key = k) ~> (\E l \in seen[d] : l.key = k)

=============================================================================
