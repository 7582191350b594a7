------------------------------- MODULE PullSync -------------------------------
(***************************************************************************)
(* The download side of synchronisation, for one dataset of one business:  *)
(* the transactional outbox sync_change_log (services/changeLogService.js),*)
(* its sweeper and its retention purge (jobs/scheduler.js, migration 05),  *)
(* and the paged pull a device resumes with its cursor                     *)
(* (services/syncPullService.js).                                          *)
(*                                                                         *)
(* A transaction is one step: its row locks and the blocking reads of      *)
(* READ COMMITTED make it so.  Separate statements and separate            *)
(* transactions of a request are separate steps.                           *)
(***************************************************************************)
EXTENDS Naturals, FiniteSets, FiniteSetsExt

CONSTANTS
    NumEntities,   \* entity keys are 1..NumEntities, handed out in order
    Devices,       \* devices that pull the dataset
    Sweepers,      \* concurrent sweepChanges() runs, one per instance
    PageSize,      \* SYNC_PULL_PAGE_SIZE
    HasActive,     \* the table of the dataset has the column is_active
    MaxWrites,     \* bound on changes to the table
    MaxPurges,     \* bound on retention purges
    MaxFaults      \* bound on lost replies and died sweeps

ASSUME PullAssumption ==
    /\ NumEntities \in Nat \ {0} /\ PageSize \in Nat \ {0} /\ HasActive \in BOOLEAN
    /\ MaxWrites \in Nat /\ MaxPurges \in Nat /\ MaxFaults \in Nat

Entities == 1..NumEntities

VARIABLES
    (* the table of the dataset *)
    life,         \* "unborn", "active", "inactive" (is_active = 0) or "gone"
    rev,          \* the content of the row: the number of business writes to it
    version,      \* version_no
    (* sync_change_log *)
    log,          \* its rows
    lastKey,      \* the IDENTITY counter of change_key
    old,          \* rows up to this key are older than the retention window
    (* sweepChanges() *)
    phase,        \* what a sweep does next
    todo,         \* rows its last query returned, not yet handled
    mark,         \* the tombstone it is about to insert: entity and version
    (* the requests of the devices *)
    pc,           \* what the server does next for the device
    page,         \* rows of the snapshot page not yet emitted
    upto,         \* last key of the page; NumEntities if there is no next one
    got,          \* log rows emitted for the page so far
    (* the devices *)
    cursor, after,\* the dataset's cursor and snapshotAfterKey
    copy,         \* the local copy of each entity
    (* history and bounds *)
    lost,         \* entities with a change the device's pages passed by
    forgotten,    \* entities deleted when the log knew nothing of them
    dropped,      \* the purged log rows: key and entity
    writes, purges, faults

tableVars == <<life, rev, version>>
logVars == <<log, lastKey, old>>
sweepVars == <<phase, todo, mark>>
requestVars == <<pc, page, upto, got>>
deviceVars == <<cursor, after, copy>>
historyVars == <<lost, forgotten, dropped>>
boundVars == <<writes, purges, faults>>
vars == <<tableVars, logVars, sweepVars, requestVars, deviceVars, historyVars, boundVars>>

Ops == {"UPSERT", "DELETE"}

LogRows == [key : Nat, entity : Entities, op : Ops, version : Nat, rev : Nat, active : BOOLEAN]

NoCopy == [version |-> 0, rev |-> 0]
NoMark == [entity |-> 0, version |-> 0]

RowsOf(e) == {l \in log : l.entity = e}

(* MIN and MAX over the keys of a nonempty set of log rows. *)
Oldest(rows) == CHOOSE l \in rows : \A m \in rows : l.key <= m.key
Newest(rows) == CHOOSE l \in rows : \A m \in rows : m.key <= l.key

Live(e) == life[e] \in {"active", "inactive"}

TypeOK ==
    /\ life \in [Entities -> {"unborn", "active", "inactive", "gone"}]
    /\ rev \in [Entities -> Nat] /\ version \in [Entities -> Nat]
    /\ log \subseteq LogRows /\ lastKey \in Nat /\ old \in Nat
    /\ phase \in [Sweepers -> {"idle", "reemit", "tombstone"}]
    /\ todo \in [Sweepers -> SUBSET Entities]
    /\ mark \in [Sweepers -> [entity : 0..NumEntities, version : Nat]]
    /\ pc \in [Devices -> {"idle", "delta", "snapshot"}]
    /\ page \in [Devices -> SUBSET Entities] /\ upto \in [Devices -> 0..NumEntities]
    /\ got \in [Devices -> SUBSET LogRows]
    /\ cursor \in [Devices -> Nat] /\ after \in [Devices -> 0..NumEntities]
    /\ copy \in [Devices -> [Entities -> [version : Nat, rev : Nat]]]
    /\ lost \in [Devices -> SUBSET Entities] /\ forgotten \subseteq Entities
    /\ dropped \subseteq [key : Nat, entity : Entities]
    /\ writes \in 0..MaxWrites /\ purges \in 0..MaxPurges /\ faults \in 0..MaxFaults

(* The rows that were there before migration 05 have version 1 and are in  *)
(* no log row.                                                             *)
Init ==
    /\ \E n \in 0..NumEntities :
           /\ life = [e \in Entities |-> IF e <= n THEN "active" ELSE "unborn"]
           /\ rev = [e \in Entities |-> IF e <= n THEN 1 ELSE 0]
           /\ version = rev
    /\ log = {} /\ lastKey = 0 /\ old = 0
    /\ phase = [s \in Sweepers |-> "idle"]
    /\ todo = [s \in Sweepers |-> {}]
    /\ mark = [s \in Sweepers |-> NoMark]
    /\ pc = [d \in Devices |-> "idle"]
    /\ page = [d \in Devices |-> {}] /\ upto = [d \in Devices |-> 0]
    /\ got = [d \in Devices |-> {}]
    /\ cursor = [d \in Devices |-> 0] /\ after = [d \in Devices |-> 0]
    /\ copy = [d \in Devices |-> [e \in Entities |-> NoCopy]]
    /\ lost = [d \in Devices |-> {}] /\ forgotten = {} /\ dropped = {}
    /\ writes = 0 /\ purges = 0 /\ faults = 0

-----------------------------------------------------------------------------
(* recordChange(): in the caller's transaction, bump the version, read the *)
(* row back and append it to the log.                                      *)

(* The snapshot a device is being sent is already past entity e.           *)
Passed(d, e) ==
    /\ cursor[d] = 0
    /\ e <= (IF pc[d] = "snapshot" THEN upto[d] ELSE after[d])
    /\ e \notin page[d]

Append(l) ==
    /\ log' = log \cup {l}
    /\ lastKey' = l.key
    /\ UNCHANGED old

UpsertRow(e, v, r, active) ==
    [key |-> lastKey + 1, entity |-> e, op |-> "UPSERT", version |-> v,
     rev |-> r, active |-> active]

DeleteRow(e, v) ==
    [key |-> lastKey + 1, entity |-> e, op |-> "DELETE", version |-> v,
     rev |-> 0, active |-> FALSE]

(* Mutant: the version is not bumped. *)
BumpForgotten(e) == UNCHANGED version

Bump(e) == version' = [version EXCEPT ![e] = @ + 1]

Overtaken(e) == [d \in Devices |-> IF Passed(d, e) THEN lost[d] \cup {e} ELSE lost[d]]

(* Mutant: a unique index of the log refuses the second row of an entity.  *)
EmitSnapshotOnce(e) ==
    /\ Live(e)
    /\ RowsOf(e) = {}
    /\ Bump(e)
    /\ Append(UpsertRow(e, version[e] + 1, rev[e], life[e] = "active"))

(* emitSnapshot(): a transaction that only bumps and logs the row.  It     *)
(* needs the row to be there.                                              *)
EmitSnapshot(e) ==
    /\ Live(e)
    /\ Bump(e)
    /\ Append(UpsertRow(e, version[e] + 1, rev[e], life[e] = "active"))

-----------------------------------------------------------------------------
(* What happens to the table                                               *)

Change ==
    /\ writes < MaxWrites
    /\ writes' = writes + 1
    /\ UNCHANGED <<sweepVars, requestVars, deviceVars, purges, faults>>

(* IDENTITY keys are handed out in order and never reused. *)
IsNextKey(e) == life[e] = "unborn" /\ \A f \in Entities : f < e => life[f] # "unborn"

(* createGRN() and createDispatch(): INSERT (version 1), then the emit.    *)
Create(e) ==
    /\ Change
    /\ IsNextKey(e)
    /\ life' = [life EXCEPT ![e] = "active"]
    /\ rev' = [rev EXCEPT ![e] = 1]
    /\ version' = [version EXCEPT ![e] = 2]
    /\ Append(UpsertRow(e, 2, 1, TRUE))
    /\ lost' = Overtaken(e)
    /\ UNCHANGED <<forgotten, dropped>>

(* Every other service write: the UPDATE and the emit in one transaction.  *)
Write(e) ==
    /\ Change
    /\ Live(e)
    /\ rev' = [rev EXCEPT ![e] = @ + 1]
    /\ Bump(e)
    /\ Append(UpsertRow(e, version[e] + 1, rev[e] + 1, life[e] = "active"))
    /\ lost' = Overtaken(e)
    /\ UNCHANGED <<life, forgotten, dropped>>

(* Writes past the service layer: a seeded row, a manual fix that bumps    *)
(* version_no, a deactivation, a hard DELETE.                              *)
Insert(e) ==
    /\ Change
    /\ IsNextKey(e)
    /\ life' = [life EXCEPT ![e] = "active"]
    /\ rev' = [rev EXCEPT ![e] = 1]
    /\ version' = [version EXCEPT ![e] = 1]
    /\ UNCHANGED <<logVars, historyVars>>

Fix(e, newLife) ==
    /\ Change
    /\ Live(e)
    /\ newLife = "inactive" => HasActive
    /\ life' = [life EXCEPT ![e] = newLife]
    /\ rev' = [rev EXCEPT ![e] = @ + 1]
    /\ Bump(e)
    /\ UNCHANGED <<logVars, historyVars>>

HardDelete(e) ==
    /\ Change
    /\ Live(e)
    /\ life' = [life EXCEPT ![e] = "gone"]
    /\ forgotten' = IF RowsOf(e) = {} THEN forgotten \cup {e} ELSE forgotten
    /\ UNCHANGED <<rev, version, logVars, lost, dropped>>

-----------------------------------------------------------------------------
(* sweepChanges(): branch 1 re-emits the rows whose exact version is not   *)
(* in the log, branch 2 tombstones the entities the log remembers and the  *)
(* table does not.                                                         *)

(* Mutants: a row of any version will do; deleted rows are not looked for. *)
MissingNeverLogged == {e \in Entities : Live(e) /\ RowsOf(e) = {}}

Missing == {e \in Entities : Live(e) /\ \A l \in RowsOf(e) : l.version # version[e]}

Vanished == {e \in Entities : ~Live(e) /\ RowsOf(e) # {} /\ Newest(RowsOf(e)).op # "DELETE"}

(* A sweep that finds nothing has no effect and is left out. *)
SweepList(s) ==
    /\ phase[s] = "idle"
    /\ Missing \cup Vanished # {}
    /\ phase' = [phase EXCEPT ![s] = "reemit"]
    /\ todo' = [todo EXCEPT ![s] = Missing]
    /\ UNCHANGED <<tableVars, logVars, mark, requestVars, deviceVars, historyVars, boundVars>>

(* An emit that throws, the row being gone, is logged and skipped. *)
SweepEmit(s, e) ==
    /\ phase[s] = "reemit" /\ e \in todo[s]
    /\ todo' = [todo EXCEPT ![s] = @ \ {e}]
    /\ \/ /\ EmitSnapshot(e)
          /\ lost' = Overtaken(e)
       \/ /\ ~Live(e)
          /\ UNCHANGED <<version, logVars, lost>>
    /\ UNCHANGED <<life, rev, phase, mark, requestVars, deviceVars, forgotten, dropped, boundVars>>

SweepListVanished(s) ==
    /\ phase[s] = "reemit" /\ todo[s] = {}
    /\ phase' = [phase EXCEPT ![s] = IF Vanished = {} THEN "idle" ELSE "tombstone"]
    /\ todo' = [todo EXCEPT ![s] = Vanished]
    /\ UNCHANGED <<tableVars, logVars, mark, requestVars, deviceVars, historyVars, boundVars>>

(* recordChange(DELETE) reads MAX(version_no) and then inserts; nothing    *)
(* keeps another sweep from reading the same maximum in between.           *)
SweepReadVersion(s, e) ==
    /\ phase[s] = "tombstone" /\ e \in todo[s] /\ mark[s] = NoMark
    /\ LET last == IF RowsOf(e) = {} THEN 0 ELSE Max({l.version : l \in RowsOf(e)})
       IN mark' = [mark EXCEPT ![s] = [entity |-> e, version |-> last + 1]]
    /\ UNCHANGED <<tableVars, logVars, phase, todo, requestVars, deviceVars, historyVars, boundVars>>

SweepTombstone(s) ==
    /\ phase[s] = "tombstone" /\ mark[s] # NoMark
    /\ LET e == mark[s].entity
       IN  /\ Append(DeleteRow(e, mark[s].version))
           /\ todo' = [todo EXCEPT ![s] = @ \ {e}]
           /\ phase' = [phase EXCEPT ![s] = IF todo[s] = {e} THEN "idle" ELSE @]
           /\ lost' = Overtaken(e)
    /\ mark' = [mark EXCEPT ![s] = NoMark]
    /\ UNCHANGED <<tableVars, requestVars, deviceVars, forgotten, dropped, boundVars>>

Fault == faults < MaxFaults /\ faults' = faults + 1 /\ UNCHANGED <<writes, purges>>

(* The process dies or its database does; the next sweep starts afresh.    *)
SweepDies(s) ==
    /\ phase[s] # "idle"
    /\ Fault
    /\ phase' = [phase EXCEPT ![s] = "idle"]
    /\ todo' = [todo EXCEPT ![s] = {}]
    /\ mark' = [mark EXCEPT ![s] = NoMark]
    /\ UNCHANGED <<tableVars, logVars, requestVars, deviceVars, historyVars>>

(* Days pass; no request and no sweep lasts that long.  Rows were inserted *)
(* in the order of their keys.                                             *)
Age ==
    /\ \A d \in Devices : pc[d] = "idle"
    /\ \A s \in Sweepers : phase[s] = "idle"
    /\ \E l \in log : l.key > old /\ old' = l.key
    /\ purges < MaxPurges
    /\ UNCHANGED <<tableVars, log, lastKey, sweepVars, requestVars, deviceVars, historyVars, boundVars>>

(* sp_sync_change_log_retention deletes the rows older than the window.    *)
Retention ==
    /\ purges < MaxPurges
    /\ LET purged == {l \in log : l.key <= old}
       IN  /\ purged # {}
           /\ log' = log \ purged
           /\ dropped' = dropped \cup {[key |-> l.key, entity |-> l.entity] : l \in purged}
           /\ forgotten' = forgotten \cup {e \in Vanished : RowsOf(e) \subseteq purged}
    /\ purges' = purges + 1
    /\ UNCHANGED <<tableVars, lastKey, old, sweepVars, requestVars, deviceVars, lost, writes, faults>>

-----------------------------------------------------------------------------
(* pullChanges(), and the device that applies its answer                   *)

(* Mutant: without the watermark. *)
StaleNever(d) == FALSE

(* oldestChangeKey() is 0 for an empty log. *)
Stale(d) == cursor[d] > 0 /\ log # {} /\ cursor[d] < Oldest(log).key

(* resetRequired: the device drops its copy and starts over at cursor 0.   *)
Reset(d) ==
    /\ pc[d] = "idle"
    /\ Stale(d)
    /\ cursor' = [cursor EXCEPT ![d] = 0]
    /\ after' = [after EXCEPT ![d] = 0]
    /\ copy' = [copy EXCEPT ![d] = [e \in Entities |-> NoCopy]]
    /\ lost' = [lost EXCEPT ![d] = {}]
    /\ UNCHANGED <<tableVars, logVars, sweepVars, requestVars, forgotten, dropped, boundVars>>

(* What the device still has of entities a snapshot is yet to come to.  An *)
(* empty last page ends a snapshot at cursor 0, and the next one starts    *)
(* over on top of the copy.                                                *)
Kept(d) == {e \in Entities : e > after[d] /\ copy[d][e] # NoCopy}

FirstN(S, n) == {x \in S : Cardinality({y \in S : y < x}) < n}

(* snapshotDataset(): one query for a page of active rows ...              *)
SnapshotRead(d) ==
    /\ pc[d] = "idle" /\ cursor[d] = 0
    /\ HasActive
    /\ LET rest == {e \in Entities : life[e] = "active" /\ e > after[d]}
           fetched == FirstN(rest, PageSize)
       IN  /\ rest # {} \/ after[d] # 0
           /\ page' = [page EXCEPT ![d] = fetched]
           /\ upto' = [upto EXCEPT ![d] = IF fetched = rest THEN NumEntities ELSE Max(fetched)]
    /\ pc' = [pc EXCEPT ![d] = "snapshot"]
    /\ lost' = [lost EXCEPT ![d] = Kept(d) \cup (IF after[d] = 0 THEN {} ELSE @)]
    /\ UNCHANGED <<tableVars, logVars, sweepVars, got, deviceVars, forgotten, dropped, boundVars>>

(* ... and, in key order, one emit in its own transaction for each.  A row *)
(* deleted meanwhile makes the emit throw and the request fail.            *)
SnapshotEmit(d) ==
    /\ pc[d] = "snapshot" /\ page[d] # {}
    /\ LET e == Min(page[d])
       IN  \/ /\ EmitSnapshot(e)
              /\ page' = [page EXCEPT ![d] = @ \ {e}]
              /\ got' = [got EXCEPT ![d] = @ \cup (log' \ log)]
              /\ lost' = [Overtaken(e) EXCEPT ![d] = @ \ {e}]
              /\ UNCHANGED <<pc, upto>>
           \/ /\ ~Live(e)
              /\ pc' = [pc EXCEPT ![d] = "idle"]
              /\ page' = [page EXCEPT ![d] = {}]
              /\ upto' = [upto EXCEPT ![d] = 0]
              /\ got' = [got EXCEPT ![d] = {}]
              /\ UNCHANGED <<version, logVars, lost>>
    /\ UNCHANGED <<life, rev, sweepVars, deviceVars, forgotten, dropped, boundVars>>

(* The device goes through the rows in key order and takes a row whose     *)
(* version is newer than its own; the last row of an entity decides.       *)
Applied(d, rows) ==
    [e \in Entities |->
        LET mine == {l \in rows : l.entity = e /\ l.version > copy[d][e].version}
        IN  IF mine = {} THEN copy[d][e]
            ELSE IF Newest(mine).op = "DELETE" THEN NoCopy
            ELSE [version |-> Newest(mine).version, rev |-> Newest(mine).rev]]

Answered(d) ==
    /\ pc' = [pc EXCEPT ![d] = "idle"]
    /\ page' = [page EXCEPT ![d] = {}]
    /\ upto' = [upto EXCEPT ![d] = 0]
    /\ got' = [got EXCEPT ![d] = {}]

MaxChangeKey(rows) == IF rows = {} THEN 0 ELSE Newest(rows).key

(* The cursor stays 0 while pages are to come; with the last page it       *)
(* becomes the largest change_key of that page.                            *)
SnapshotReply(d) ==
    /\ pc[d] = "snapshot" /\ page[d] = {}
    /\ copy' = [copy EXCEPT ![d] = Applied(d, got[d])]
    /\ IF upto[d] < NumEntities
       THEN after' = [after EXCEPT ![d] = upto[d]] /\ UNCHANGED cursor
       ELSE /\ after' = [after EXCEPT ![d] = 0]
            /\ cursor' = [cursor EXCEPT ![d] = MaxChangeKey(got[d])]
    /\ Answered(d)
    /\ UNCHANGED <<tableVars, logVars, sweepVars, historyVars, boundVars>>

(* The delta pull checks the watermark with one query ...                  *)
DeltaCheck(d) ==
    /\ pc[d] = "idle" /\ cursor[d] > 0
    /\ ~Stale(d)
    /\ pc' = [pc EXCEPT ![d] = "delta"]
    /\ UNCHANGED <<tableVars, logVars, sweepVars, page, upto, got, deviceVars, historyVars, boundVars>>

(* ... and reads its page with the next.                                   *)
DeltaRows(d) ==
    LET newer == {l \in log : l.key > cursor[d]}
    IN {l \in newer : Cardinality({m \in newer : m.key < l.key}) < PageSize}

Skipped(d) == {p.entity : p \in {q \in dropped : q.key > cursor[d]}}

Taken(d) == {l.entity : l \in {m \in DeltaRows(d) : m.version > copy[d][m.entity].version}}

DeltaReply(d) ==
    /\ pc[d] = "delta"
    /\ copy' = [copy EXCEPT ![d] = Applied(d, DeltaRows(d))]
    /\ cursor' = [cursor EXCEPT ![d] = IF DeltaRows(d) = {} THEN @ ELSE Newest(DeltaRows(d)).key]
    /\ lost' = [lost EXCEPT ![d] = IF DeltaRows(d) = {} THEN @ ELSE (@ \cup Skipped(d)) \ Taken(d)]
    /\ Answered(d)
    /\ UNCHANGED <<tableVars, logVars, sweepVars, after, forgotten, dropped, boundVars>>

(* The answer never arrives: the device will ask again.                    *)
LoseReply(d) ==
    /\ pc[d] # "idle"
    /\ Fault
    /\ Answered(d)
    /\ UNCHANGED <<tableVars, logVars, sweepVars, deviceVars, historyVars>>

-----------------------------------------------------------------------------

TableStep ==
    \E e \in Entities :
        \/ Create(e)
        \/ Write(e)
        \/ Insert(e)
        \/ \E newLife \in {"active", "inactive"} : Fix(e, newLife)
        \/ HardDelete(e)

Sweep(s) ==
    \/ SweepList(s)
    \/ SweepListVanished(s)
    \/ SweepTombstone(s)
    \/ \E e \in Entities : SweepEmit(s, e) \/ SweepReadVersion(s, e)

Pull(d) ==
    \/ Reset(d)
    \/ SnapshotRead(d)
    \/ SnapshotEmit(d)
    \/ SnapshotReply(d)
    \/ DeltaCheck(d)
    \/ DeltaReply(d)

Next ==
    \/ TableStep
    \/ Age
    \/ Retention
    \/ \E s \in Sweepers : Sweep(s) \/ SweepDies(s)
    \/ \E d \in Devices : Pull(d) \/ LoseReply(d)

Spec == Init /\ [][Next]_vars

(* The cron keeps sweeping and a device keeps pulling. *)
FairSpec ==
    /\ Spec
    /\ \A s \in Sweepers : WF_vars(Sweep(s))
    /\ \A d \in Devices : WF_vars(Pull(d))

-----------------------------------------------------------------------------
(* Properties *)

(* For one entity the order of change keys is the order of versions up to  *)
(* its tombstone, so the device's version guard never turns away a newer   *)
(* change, and nothing follows a tombstone but a tombstone: no sweep,      *)
(* snapshot or write that ran late resurrects a deleted row.  Sweeps of    *)
(* several instances may tombstone an entity again, in any order of        *)
(* versions.                                                               *)
LogOrdered ==
    \A l, m \in log : l.entity = m.entity /\ l.key < m.key =>
        IF l.op = "DELETE" THEN m.op = "DELETE" ELSE l.version < m.version

Current(d, e) ==
    CASE life[e] = "active"   -> copy[d][e].rev = rev[e]
      [] life[e] = "inactive" -> copy[d][e] = NoCopy \/ copy[d][e].rev = rev[e]
      [] OTHER                -> copy[d][e] = NoCopy

(* A change the device's next delta pages bring, or the next sweep logs.   *)
Pending(d, e) ==
    /\ RowsOf(e) # {}
    /\ LET last == Newest(RowsOf(e))
       IN last.key > cursor[d] /\ last.version > copy[d][e].version

AwaitsSweep(e) == e \in Missing \cup Vanished

(* The contract of the cursor: what a device with a cursor does not have   *)
(* is behind its cursor or will be put there, or the watermark tells it to *)
(* start over.  The exceptions are the ones the history variables name: a  *)
(* change logged while the device's snapshot was already past the entity,  *)
(* a copy from an earlier snapshot that the last one did not renew, rows   *)
(* purged between the watermark check and the page query, and rows deleted *)
(* by hand when the log had already been purged of them.                   *)
NothingMissed ==
    \A d \in Devices : cursor[d] > 0 =>
        \A e \in Entities \ (lost[d] \cup forgotten) :
            \/ Current(d, e)
            \/ Pending(d, e)
            \/ AwaitsSweep(e)
            \/ Stale(d)
            \/ log = {}

(* A device with nothing before it in the log has the table, up to what    *)
(* the next sweep will log: so any two such devices agree.                 *)
CaughtUp(d) == cursor[d] > 0 /\ log # {} /\ \A l \in log : l.key <= cursor[d]

CaughtUpIsCurrent ==
    \A d \in Devices : CaughtUp(d) =>
        \A e \in Entities \ (lost[d] \cup forgotten) : Current(d, e) \/ AwaitsSweep(e)

(* No pull goes in a circle: a page of the log moves the cursor on, a page *)
(* of the snapshot its place in the table, and only the watermark sends a  *)
(* device back.                                                            *)
PullsAdvance ==
    [][\A d \in Devices :
           /\ DeltaReply(d) => cursor'[d] > cursor[d] \/ \A l \in log : l.key <= cursor[d]
           /\ SnapshotReply(d) => after'[d] > after[d] \/ upto[d] = NumEntities
           /\ cursor'[d] < cursor[d] => Reset(d)]_vars

(* An answer that comes late, twice or out of a snapshot never replaces a  *)
(* copy by an older one, and never brings back what the device was told is *)
(* deleted.                                                                *)
CopiesAdvance ==
    [][\A d \in Devices, e \in Entities :
           /\ copy'[d][e] = NoCopy \/ copy'[d][e].version >= copy[d][e].version
           /\ /\ cursor[d] > 0 /\ copy[d][e] = NoCopy
              /\ \E l \in RowsOf(e) : l.op = "DELETE" /\ l.key <= cursor[d]
              => copy'[d][e] = NoCopy]_vars

(* Changes stop, and every device ends up with the table.                  *)
Converges ==
    \A d \in Devices, e \in Entities :
        <>[](Current(d, e) \/ e \in lost[d] \cup forgotten \/ log = {})

(* A device that starts from nothing gets through its snapshot.            *)
Bootstraps ==
    \A d \in Devices :
        cursor[d] = 0 ~> cursor[d] > 0 \/ \A e \in Entities : life[e] # "active"

-----------------------------------------------------------------------------
(* What comments of the source claim, to check against the code *)

(* syncPullService.js: the snapshot is emitted through the outbox "so      *)
(* subsequent delta pulls from ANY device see a consistent continuation".  *)
ConsistentContinuation ==
    \A d \in Devices : cursor[d] > 0 =>
        \A e \in Entities : Current(d, e) \/ Pending(d, e) \/ AwaitsSweep(e)

(* The key up to which the log has been purged. *)
Watermark == IF log = {} THEN lastKey ELSE Oldest(log).key - 1

(* syncPullService.js: a stale cursor leads to resetRequired; "the log can *)
(* no longer prove continuity, so the device MUST re-bootstrap".           *)
ContinuityProven == [][\A d \in Devices : DeltaReply(d) => cursor[d] >= Watermark]_vars

(* constants.js: rows are deactivated "and downstream devices are          *)
(* tombstoned via CHANGE_OP.DELETE".                                       *)
SoftDeletesTombstoned == \A l \in log : l.op = "UPSERT" => l.active

=============================================================================
