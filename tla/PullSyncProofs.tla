---------------------------- MODULE PullSyncProofs ----------------------------
(***************************************************************************)
(* Proofs, for every number of entities, devices and sweeps and every page *)
(* size, that the change log is ordered and that a device with a cursor    *)
(* misses nothing.                                                         *)
(*                                                                         *)
(* The argument goes from the log to the devices.  Up to its tombstone the *)
(* log rows of an entity carry rising versions, and a tombstone lies above *)
(* every version a device can hold of it (Covered): so the version guard   *)
(* of a device and the order of the keys agree on which change is last.    *)
(* Then what a device sees of an entity its cursor or its snapshot has     *)
(* passed is what the last log row of the entity says, or another row of   *)
(* the entity is ahead of the cursor (Delivered).                          *)
(***************************************************************************)
EXTENDS PullSync, FiniteSetTheorems, WellFoundedInduction, TLAPS

IsNewest(l, e) == l \in RowsOf(e) /\ \A m \in RowsOf(e) : m.key <= l.key

(* What the device has of the entity once it has applied the page in hand. *)
Sees(d, e) == Applied(d, got[d])[e]

(* Keys identify the rows, the purge takes them from below. *)
Keys ==
    /\ old <= lastKey
    /\ \A l \in log : l.key <= lastKey
    /\ \A l, m \in log : l.key = m.key => l = m
    /\ \A p \in dropped : p.key <= old /\ \A l \in log : p.key < l.key
    /\ \A d \in Devices : cursor[d] <= lastKey /\ \A g \in got[d] : g.key <= lastKey
    /\ IsFiniteSet(log) /\ \A d \in Devices : IsFiniteSet(got[d])

(* A version is one content of a row, and it is no newer than the row's. *)
Stamped(e, v, r) == v <= version[e] /\ (v = version[e] => r = rev[e])

Versions ==
    /\ \A e \in Entities : IF life[e] = "unborn" THEN version[e] = 0 /\ rev[e] = 0
                                                 ELSE version[e] > 0
    /\ \A l \in log :
           /\ life[l.entity] # "unborn" /\ l.version > 0
           /\ l.op = "DELETE" => life[l.entity] = "gone"
           /\ l.op = "UPSERT" => Stamped(l.entity, l.version, l.rev)
    /\ \A d \in Devices :
           /\ \A g \in got[d] : g.op = "UPSERT" /\ Stamped(g.entity, g.version, g.rev)
           /\ \A e \in Entities : Stamped(e, copy[d][e].version, copy[d][e].rev)

(* The versions that are out: on a device, or on their way to it. *)
Out(e) ==
    {copy[d][e].version : d \in Devices}
        \cup UNION {{g.version : g \in {h \in got[d] : h.entity = e}} : d \in Devices}

(* The log of an entity reaches up to what is out of it, and above with a  *)
(* tombstone.                                                              *)
Covered ==
    \A e \in Entities \ forgotten : \A v \in Out(e) :
        /\ RowsOf(e) # {} => \E l \in RowsOf(e) : v <= l.version
        /\ \A l \in RowsOf(e) : l.op = "DELETE" => v < l.version

(* A row a sweep will tombstone is gone, and the purge does not take a     *)
(* tombstone another sweep put there meanwhile.                            *)
Doomed(e) ==
    /\ life[e] = "gone"
    /\ e \notin forgotten => RowsOf(e) # {}
    /\ \A l \in RowsOf(e) : l.op = "DELETE" => l.key > old

(* The version of a tombstone is above all that is out of the entity. *)
Above(e, v) ==
    /\ v > 0
    /\ \A l \in RowsOf(e) : l.op = "UPSERT" => l.version < v
    /\ e \notin forgotten => \A u \in Out(e) : u < v

Tombstoning ==
    \A s \in Sweepers :
        /\ phase[s] = "tombstone" => \A e \in todo[s] : Doomed(e)
        /\ mark[s] # NoMark =>
               /\ phase[s] = "tombstone" /\ mark[s].entity \in todo[s]
               /\ Above(mark[s].entity, mark[s].version)

(* Where a request has come to. *)
Requests ==
    \A d \in Devices :
        /\ pc[d] = "snapshot" =>
               /\ cursor[d] = 0 /\ after[d] <= upto[d]
               /\ after[d] < upto[d] \/ upto[d] = NumEntities
               /\ \A e \in page[d] : after[d] < e /\ e <= upto[d]
               /\ \A g \in got[d] : after[d] < g.entity
        /\ pc[d] # "snapshot" => page[d] = {} /\ got[d] = {}
        /\ pc[d] = "delta" => cursor[d] > 0

(* A row of the entity that the device has not come to, in the log or      *)
(* purged from it.                                                         *)
Ahead(d, e) ==
    \/ \E l \in RowsOf(e) : l.key > cursor[d]
    \/ \E p \in dropped : p.entity = e /\ p.key > cursor[d]

(* The copy is as the last log row of the entity says; a snapshot leaves   *)
(* out what is not active.                                                 *)
AsLogged(e, c) ==
    /\ \A l \in RowsOf(e) : IsNewest(l, e) =>
           IF l.op = "DELETE" THEN c = NoCopy
           ELSE \/ c.version = l.version
                \/ c = NoCopy /\ (l.version = version[e] => life[e] # "active")
    /\ RowsOf(e) = {} /\ ~Live(e) => c = NoCopy

Delivered ==
    \A d \in Devices : \A e \in Entities \ (lost[d] \cup forgotten) :
        cursor[d] > 0 \/ Passed(d, e) =>
            (cursor[d] > 0 /\ Ahead(d, e)) \/ AsLogged(e, Sees(d, e))

IndInv ==
    /\ TypeOK
    /\ Keys
    /\ Versions
    /\ LogOrdered
    /\ Covered
    /\ Tombstoning
    /\ Requests
    /\ Delivered


-----------------------------------------------------------------------------
(* Extremes of finite sets: what CHOOSE finds in Newest, Oldest, Max, Min. *)

LEMMA LeastElement ==
    ASSUME NEW S, IsFiniteSet(S), S # {}, NEW f \in [S -> Int]
    PROVE  \E x \in S : \A y \in S : f[x] <= f[y]
<1> DEFINE Below(x) == {y \in S : f[y] < f[x]}
           T == {Below(x) : x \in S}
<1>1. IsWellFoundedOn(StrictSubsetOrdering(S), SUBSET S)
  <2>1. FiniteSubsetsOf(S) = SUBSET S
    BY FS_FiniteSubsetsOfFinite
  <2> QED
    BY <2>1, FS_StrictSubsetOrderingWellFounded
<1>2. T \subseteq SUBSET S /\ T # {}
  <2>1. \A x \in S : Below(x) \in SUBSET S
    OBVIOUS
  <2>2. \A U \in T : \E x \in S : U = Below(x)
    OBVIOUS
  <2>3. PICK x \in S : TRUE
    OBVIOUS
  <2>4. Below(x) \in T
    OBVIOUS
  <2> HIDE DEF Below, T
  <2> QED
    BY <2>1, <2>2, <2>4
<1>3. PICK U \in T : \A V \in T : <<V, U>> \notin StrictSubsetOrdering(S)
  BY <1>1, <1>2, WFMin
<1>4. PICK x \in S : U = Below(x)
  OBVIOUS
<1>5. ASSUME NEW y \in S, f[y] < f[x] PROVE FALSE
  <2>1. Below(y) \subseteq Below(x) /\ y \in Below(x) /\ y \notin Below(y)
    BY <1>5
  <2>2. Below(y) \in SUBSET S /\ Below(x) \in SUBSET S /\ Below(y) # Below(x) /\ Below(y) \in T
    BY <2>1
  <2> HIDE DEF Below, T
  <2>3. <<Below(y), Below(x)>> \in StrictSubsetOrdering(S)
    BY <2>1, <2>2 DEF StrictSubsetOrdering
  <2> QED
    BY <1>3, <1>4, <2>2, <2>3
<1> QED
  BY <1>5

LEMMA GreatestElement ==
    ASSUME NEW S, IsFiniteSet(S), S # {}, NEW f \in [S -> Int]
    PROVE  \E x \in S : \A y \in S : f[y] <= f[x]
<1> DEFINE g == [x \in S |-> 0 - f[x]]
<1>1. PICK x \in S : \A y \in S : g[x] <= g[y]
  <2>1. g \in [S -> Int]
    OBVIOUS
  <2> HIDE DEF g
  <2> QED
    BY <2>1, LeastElement
<1> QED
  BY <1>1

LEMMA NewestOf ==
    ASSUME NEW rows \in SUBSET LogRows, IsFiniteSet(rows), rows # {}
    PROVE  Newest(rows) \in rows /\ \A m \in rows : m.key <= Newest(rows).key
<1> DEFINE f == [l \in rows |-> l.key]
<1>1. f \in [rows -> Int]
  BY DEF LogRows
<1>2. PICK l \in rows : \A m \in rows : f[m] <= f[l]
  <2> HIDE DEF f
  <2> QED
    BY <1>1, GreatestElement
<1> QED
  BY <1>2 DEF Newest

LEMMA NewestIs ==
    ASSUME NEW rows \in SUBSET LogRows, NEW l \in rows,
           \A m \in rows : m = l \/ m.key < l.key
    PROVE  Newest(rows) = l
<1>1. \A m \in rows : m.key \in Nat
  BY DEF LogRows
<1>2. \A m \in rows : m.key <= l.key
  BY <1>1
<1>3. ASSUME NEW k \in rows, \A m \in rows : m.key <= k.key PROVE k = l
  BY <1>1, <1>3
<1> QED
  BY <1>2, <1>3 DEF Newest

LEMMA OldestOf ==
    ASSUME NEW rows \in SUBSET LogRows, IsFiniteSet(rows), rows # {}
    PROVE  Oldest(rows) \in rows /\ \A m \in rows : Oldest(rows).key <= m.key
<1> DEFINE f == [l \in rows |-> l.key]
<1>1. f \in [rows -> Int]
  BY DEF LogRows
<1>2. PICK l \in rows : \A m \in rows : f[l] <= f[m]
  <2> HIDE DEF f
  <2> QED
    BY <1>1, LeastElement
<1> QED
  BY <1>2 DEF Oldest

LEMMA MaxOf ==
    ASSUME NEW S \in SUBSET Nat, IsFiniteSet(S), S # {}
    PROVE  Max(S) \in S /\ \A x \in S : x <= Max(S)
<1> DEFINE f == [x \in S |-> x]
<1>1. f \in [S -> Int]
  OBVIOUS
<1>2. PICK x \in S : \A y \in S : f[y] <= f[x]
  <2> HIDE DEF f
  <2> QED
    BY <1>1, GreatestElement
<1> QED
  BY <1>2 DEF Max

LEMMA MinOf ==
    ASSUME NEW S \in SUBSET Nat, IsFiniteSet(S), S # {}
    PROVE  Min(S) \in S /\ \A x \in S : Min(S) <= x
<1> DEFINE f == [x \in S |-> x]
<1>1. f \in [S -> Int]
  OBVIOUS
<1>2. PICK x \in S : \A y \in S : f[x] <= f[y]
  <2> HIDE DEF f
  <2> QED
    BY <1>1, LeastElement
<1> QED
  BY <1>2 DEF Min

(* Whatever numbers a log row, there are finitely many below and the set   *)
(* of entities is finite.                                                  *)
LEMMA FiniteEntities == \A S \in SUBSET Entities : IsFiniteSet(S) /\ S \subseteq Nat
<1>1. IsFiniteSet(Entities) /\ Entities \subseteq Nat
  BY PullAssumption, FS_Interval DEF Entities, PullAssumption
<1> QED
  BY <1>1, FS_Subset

-----------------------------------------------------------------------------
(* Pages *)

(* A page of entities starts at the first of them and leaves out none      *)
(* below its last.                                                         *)
LEMMA FirstNIsPrefix ==
    ASSUME NEW S \in SUBSET Entities, NEW n \in Nat \ {0}
    PROVE  /\ FirstN(S, n) \subseteq S
           /\ S # {} => FirstN(S, n) # {}
           /\ \A x \in FirstN(S, n), y \in S : y <= x => y \in FirstN(S, n)
<1> DEFINE Before(x) == {y \in S : y < x}
<1>1. \A x \in S : IsFiniteSet(Before(x)) /\ Cardinality(Before(x)) \in Nat
  BY FiniteEntities, FS_CardinalityType
<1>2. ASSUME S # {} PROVE FirstN(S, n) # {}
  <2>1. Min(S) \in S /\ \A x \in S : Min(S) <= x
    BY <1>2, FiniteEntities, MinOf
  <2>2. Before(Min(S)) = {}
    BY <2>1, FiniteEntities
  <2>3. Cardinality(Before(Min(S))) = 0
    BY <2>2, FS_EmptySet
  <2> QED
    BY <2>1, <2>3 DEF FirstN
<1>3. ASSUME NEW x \in FirstN(S, n), NEW y \in S, y <= x PROVE y \in FirstN(S, n)
  <2>1. x \in S /\ Cardinality(Before(x)) < n
    BY DEF FirstN
  <2>2. Before(y) \in SUBSET Before(x)
    BY <1>3, <2>1, FiniteEntities
  <2>3. Cardinality(Before(y)) <= Cardinality(Before(x))
    BY <1>1, <2>1, <2>2, FS_Subset
  <2>4. Cardinality(Before(y)) < n
    BY <1>1, <2>1, <2>3
  <2> QED
    BY <2>4 DEF FirstN
<1> QED
  BY <1>2, <1>3 DEF FirstN

(* So does a page of the log.                                              *)
LEMMA DeltaIsPrefix ==
    ASSUME TypeOK, Keys, NEW d \in Devices
    PROVE  /\ DeltaRows(d) \subseteq log /\ IsFiniteSet(DeltaRows(d))
           /\ \A l \in DeltaRows(d) : l.key > cursor[d]
           /\ \A l \in DeltaRows(d), m \in log :
                  cursor[d] < m.key /\ m.key <= l.key => m \in DeltaRows(d)
<1> DEFINE newer == {l \in log : l.key > cursor[d]}
           Before(l) == {m \in newer : m.key < l.key}
<1>1. \A l \in newer : IsFiniteSet(Before(l)) /\ Cardinality(Before(l)) \in Nat
  BY FS_Subset, FS_CardinalityType DEF Keys
<1>2. DeltaRows(d) \subseteq newer /\ newer \subseteq log
  BY DEF DeltaRows
<1>3. IsFiniteSet(DeltaRows(d))
  BY <1>2, FS_Subset DEF Keys
<1>4. ASSUME NEW l \in DeltaRows(d), NEW m \in log, cursor[d] < m.key, m.key <= l.key
      PROVE  m \in DeltaRows(d)
  <2>1. l \in newer /\ Cardinality(Before(l)) < PageSize
    BY DEF DeltaRows
  <2>2. m \in newer /\ Before(m) \in SUBSET Before(l)
    BY <1>4, <2>1 DEF TypeOK, LogRows
  <2>3. Cardinality(Before(m)) <= Cardinality(Before(l))
    BY <1>1, <2>1, <2>2, FS_Subset
  <2>4. Cardinality(Before(m)) < PageSize
    <3>1. PageSize \in Nat /\ Cardinality(Before(m)) \in Nat /\ Cardinality(Before(l)) \in Nat
      BY <1>1, <2>1, <2>2, PullAssumption
    <3> HIDE DEF Before
    <3> QED
      BY <2>1, <2>3, <3>1
  <2> QED
    BY <2>2, <2>4 DEF DeltaRows
<1> QED
  BY <1>2, <1>3, <1>4

(* What a device makes of a set of rows: the last row newer than its copy  *)
(* decides.                                                                *)
LEMMA AppliedRows ==
    ASSUME TypeOK, NEW d \in Devices, NEW e \in Entities,
           NEW rows \in SUBSET LogRows, IsFiniteSet(rows)
    PROVE  LET mine == {l \in rows : l.entity = e /\ l.version > copy[d][e].version}
           IN  /\ mine = {} => Applied(d, rows)[e] = copy[d][e]
               /\ mine # {} =>
                      \E n \in mine :
                          /\ \A m \in mine : m.key <= n.key
                          /\ Applied(d, rows)[e] =
                                 IF n.op = "DELETE" THEN NoCopy
                                 ELSE [version |-> n.version, rev |-> n.rev]
<1> DEFINE mine == {l \in rows : l.entity = e /\ l.version > copy[d][e].version}
<1>1. Applied(d, rows)[e] = IF mine = {} THEN copy[d][e]
                            ELSE IF Newest(mine).op = "DELETE" THEN NoCopy
                            ELSE [version |-> Newest(mine).version, rev |-> Newest(mine).rev]
  BY DEF Applied
<1>2. mine \in SUBSET LogRows /\ IsFiniteSet(mine)
  BY FS_Subset
<1> HIDE DEF mine
<1>3. ASSUME mine # {}
      PROVE  Newest(mine) \in mine /\ \A m \in mine : m.key <= Newest(mine).key
  BY <1>2, <1>3, NewestOf
<1>4. /\ mine = {} => Applied(d, rows)[e] = copy[d][e]
      /\ mine # {} =>
             \E n \in mine :
                 /\ \A m \in mine : m.key <= n.key
                 /\ Applied(d, rows)[e] = IF n.op = "DELETE" THEN NoCopy
                                          ELSE [version |-> n.version, rev |-> n.rev]
  BY <1>1, <1>3
<1> QED
  BY <1>4 DEF mine

-----------------------------------------------------------------------------
(* The steps by what they do to the log *)

(* recordChange() and emitSnapshot(): the new row l carries the new        *)
(* version of an entity e that is there.                                   *)
Emitted(e, l) ==
    /\ l \in LogRows
    /\ l.key = lastKey + 1 /\ l.entity = e /\ l.op = "UPSERT"
    /\ l.version = version'[e] /\ l.rev = rev'[e]
    /\ life[e] # "gone" /\ life'[e] \in {"active", "inactive"}
    /\ version'[e] > version[e]
    /\ log' = log \cup {l} /\ lastKey' = lastKey + 1
    /\ \A f \in Entities \ {e} : life'[f] = life[f] /\ version'[f] = version[f] /\ rev'[f] = rev[f]
    /\ UNCHANGED <<old, forgotten, dropped>>

LEMMA UpsertFields ==
    ASSUME lastKey \in Nat, NEW e \in Entities, NEW v \in Nat, NEW r \in Nat, NEW a \in BOOLEAN
    PROVE  LET l == UpsertRow(e, v, r, a)
           IN  /\ l \in LogRows
               /\ l.key = lastKey + 1 /\ l.entity = e /\ l.op = "UPSERT"
               /\ l.version = v /\ l.rev = r
  BY DEF UpsertRow, LogRows, Ops

LEMMA CreateEmits ==
    ASSUME TypeOK, Versions, NEW e \in Entities, Create(e)
    PROVE  Emitted(e, UpsertRow(e, 2, 1, TRUE))
<1> DEFINE a == TRUE
           l == UpsertRow(e, 2, 1, a)
<1>0. a \in BOOLEAN /\ lastKey \in Nat
  BY DEF TypeOK
<1>1. Append(l)
  BY DEF Create
<1> HIDE DEF a
<1>2. /\ l \in LogRows
      /\ l.key = lastKey + 1 /\ l.entity = e /\ l.op = "UPSERT" /\ l.version = 2 /\ l.rev = 1
  BY <1>0, UpsertFields
<1> HIDE DEF l
<1>3. log' = log \cup {l} /\ lastKey' = lastKey + 1 /\ old' = old
  BY <1>1, <1>2 DEF Append
<1>4. /\ life' = [life EXCEPT ![e] = "active"] /\ life[e] = "unborn"
      /\ rev' = [rev EXCEPT ![e] = 1] /\ version' = [version EXCEPT ![e] = 2]
      /\ UNCHANGED <<forgotten, dropped>> /\ version[e] = 0
  BY DEF Create, IsNextKey, Versions
<1>5. /\ life'[e] = "active" /\ rev'[e] = 1 /\ version'[e] = 2
      /\ \A f \in Entities \ {e} : life'[f] = life[f] /\ version'[f] = version[f] /\ rev'[f] = rev[f]
  BY <1>4 DEF TypeOK
<1>6. Emitted(e, l)
  BY <1>2, <1>3, <1>4, <1>5 DEF Emitted
<1> QED
  BY <1>6 DEF l, a

LEMMA WriteEmits ==
    ASSUME TypeOK, NEW e \in Entities, Write(e)
    PROVE  Emitted(e, UpsertRow(e, version[e] + 1, rev[e] + 1, life[e] = "active"))
<1> DEFINE a == life[e] = "active"
           l == UpsertRow(e, version[e] + 1, rev[e] + 1, a)
<1>0. a \in BOOLEAN /\ version[e] + 1 \in Nat /\ rev[e] + 1 \in Nat /\ lastKey \in Nat
  BY DEF TypeOK
<1>1. Append(l)
  BY DEF Write
<1> HIDE DEF a
<1>2. /\ l \in LogRows
      /\ l.key = lastKey + 1 /\ l.entity = e /\ l.op = "UPSERT"
      /\ l.version = version[e] + 1 /\ l.rev = rev[e] + 1
  BY <1>0, UpsertFields
<1> HIDE DEF l
<1>3. log' = log \cup {l} /\ lastKey' = lastKey + 1 /\ old' = old
  BY <1>1, <1>2 DEF Append
<1>4. /\ life' = life /\ life[e] \in {"active", "inactive"}
      /\ rev' = [rev EXCEPT ![e] = rev[e] + 1] /\ version' = [version EXCEPT ![e] = version[e] + 1]
      /\ UNCHANGED <<forgotten, dropped>>
  BY DEF Write, Bump, Live
<1>5. Emitted(e, l)
  BY <1>2, <1>3, <1>4 DEF Emitted, TypeOK
<1> QED
  BY <1>5 DEF l, a

LEMMA SnapshotEmits ==
    ASSUME TypeOK, NEW e \in Entities, EmitSnapshot(e), UNCHANGED <<life, rev, forgotten, dropped>>
    PROVE  Emitted(e, UpsertRow(e, version[e] + 1, rev[e], life[e] = "active"))
<1> DEFINE a == life[e] = "active"
           l == UpsertRow(e, version[e] + 1, rev[e], a)
<1>0. a \in BOOLEAN /\ version[e] + 1 \in Nat /\ rev[e] \in Nat /\ lastKey \in Nat
  BY DEF TypeOK
<1>1. Append(l)
  BY DEF EmitSnapshot
<1> HIDE DEF a
<1>2. /\ l \in LogRows
      /\ l.key = lastKey + 1 /\ l.entity = e /\ l.op = "UPSERT"
      /\ l.version = version[e] + 1 /\ l.rev = rev[e]
  BY <1>0, UpsertFields
<1> HIDE DEF l
<1>3. log' = log \cup {l} /\ lastKey' = lastKey + 1 /\ old' = old
  BY <1>1, <1>2 DEF Append
<1>4. /\ life' = life /\ life[e] \in {"active", "inactive"}
      /\ rev' = rev /\ version' = [version EXCEPT ![e] = version[e] + 1]
      /\ UNCHANGED <<forgotten, dropped>>
  BY DEF EmitSnapshot, Bump, Live
<1>5. Emitted(e, l)
  BY <1>2, <1>3, <1>4 DEF Emitted, TypeOK
<1> QED
  BY <1>5 DEF l, a

(* The tombstone of a sweep. *)
LEMMA DeleteFields ==
    ASSUME lastKey \in Nat, NEW e \in Entities, NEW v \in Nat
    PROVE  LET l == DeleteRow(e, v)
           IN  /\ l \in LogRows
               /\ l.key = lastKey + 1 /\ l.entity = e /\ l.op = "DELETE" /\ l.version = v
  BY DEF DeleteRow, LogRows, Ops

Tombstoned(s, l) ==
    /\ phase[s] = "tombstone" /\ mark[s] # NoMark
    /\ l \in LogRows
    /\ l.key = lastKey + 1 /\ l.entity = mark[s].entity
    /\ l.op = "DELETE" /\ l.version = mark[s].version
    /\ log' = log \cup {l} /\ lastKey' = lastKey + 1
    /\ UNCHANGED <<old, forgotten, dropped>>

LEMMA SweepTombstones ==
    ASSUME TypeOK, Tombstoning, NEW s \in Sweepers, SweepTombstone(s)
    PROVE  /\ mark[s].entity \in Entities
           /\ Tombstoned(s, DeleteRow(mark[s].entity, mark[s].version))
<1> DEFINE l == DeleteRow(mark[s].entity, mark[s].version)
<1>1. mark[s] # NoMark /\ phase[s] = "tombstone" /\ Append(l) /\ UNCHANGED <<forgotten, dropped>>
  BY DEF SweepTombstone
<1>2. mark[s].entity \in Entities /\ mark[s].version \in Nat /\ lastKey \in Nat
  BY <1>1 DEF Tombstoning, Doomed, Above, TypeOK
<1>3. /\ l \in LogRows
      /\ l.key = lastKey + 1 /\ l.entity = mark[s].entity
      /\ l.op = "DELETE" /\ l.version = mark[s].version
  BY <1>2, DeleteFields
<1> HIDE DEF l
<1>4. Tombstoned(s, l)
  BY <1>1, <1>3 DEF Append, Tombstoned
<1> QED
  BY <1>2, <1>4 DEF l

(* An emission, and what it does to the requests in hand. *)
Emission(e, l) ==
    /\ Emitted(e, l)
    /\ UNCHANGED deviceVars
    /\ \A d \in Devices : got'[d] \in {got[d], got[d] \cup {l}}

(* Any other step leaves the log alone; a request in hand may end. *)
Quiet ==
    /\ UNCHANGED <<log, lastKey, dropped>>
    /\ old' = old \/ Age
    /\ \A d \in Devices : got'[d] \in {got[d], {}}

LEMMA StepKinds ==
    ASSUME TypeOK, Keys, Versions, Tombstoning, [Next]_vars
    PROVE  \/ \E e \in Entities, l \in LogRows : Emission(e, l)
           \/ \E s \in Sweepers, l \in LogRows : Tombstoned(s, l) /\ SweepTombstone(s)
           \/ Retention
           \/ Quiet
<1> USE DEF deviceVars, requestVars
<1>1. ASSUME NEW e \in Entities, Create(e) PROVE \E l \in LogRows : Emission(e, l)
  <2>1. UNCHANGED deviceVars /\ got' = got
    BY <1>1 DEF Create, Change
  <2>2. PICK l \in LogRows : Emitted(e, l)
    BY <1>1, CreateEmits DEF Emitted
  <2> QED
    BY <2>1, <2>2 DEF Emission
<1>2. ASSUME NEW e \in Entities, Write(e) PROVE \E l \in LogRows : Emission(e, l)
  <2>1. UNCHANGED deviceVars /\ got' = got
    BY <1>2 DEF Write, Change
  <2>2. PICK l \in LogRows : Emitted(e, l)
    BY <1>2, WriteEmits DEF Emitted
  <2> QED
    BY <2>1, <2>2 DEF Emission
<1>3. ASSUME NEW s \in Sweepers, NEW e \in Entities, SweepEmit(s, e)
      PROVE  (\E l \in LogRows : Emission(e, l)) \/ Quiet
  <2>1. CASE EmitSnapshot(e)
    <3>1. UNCHANGED <<life, rev, forgotten, dropped>> /\ UNCHANGED deviceVars /\ got' = got
      BY <1>3 DEF SweepEmit
    <3> QED
      BY <2>1, <3>1, SnapshotEmits DEF Emission, Emitted
  <2>2. CASE UNCHANGED <<version, logVars, lost>>
    BY <1>3, <2>2 DEF SweepEmit, logVars, Quiet
  <2> QED
    BY <1>3, <2>1, <2>2 DEF SweepEmit
<1>4. ASSUME NEW s \in Sweepers, SweepTombstone(s)
      PROVE  \E l \in LogRows : Tombstoned(s, l)
  BY <1>4, SweepTombstones DEF Tombstoned
<1>5. ASSUME NEW d \in Devices, SnapshotEmit(d)
      PROVE  (\E e \in Entities, l \in LogRows : Emission(e, l)) \/ Quiet
  <2> DEFINE e == Min(page[d])
  <2>1. e \in Entities
    BY <1>5, FiniteEntities, MinOf DEF SnapshotEmit, TypeOK
  <2>2. UNCHANGED <<life, rev, forgotten, dropped>> /\ UNCHANGED deviceVars
    BY <1>5 DEF SnapshotEmit
  <2>3. \/ EmitSnapshot(e) /\ got' = [got EXCEPT ![d] = @ \cup (log' \ log)]
        \/ Quiet
    BY <1>5 DEF SnapshotEmit, logVars, Quiet, TypeOK
  <2> HIDE DEF e
  <2>4. CASE EmitSnapshot(e) /\ got' = [got EXCEPT ![d] = @ \cup (log' \ log)]
    <3>1. PICK l \in LogRows : Emitted(e, l)
      BY <2>1, <2>2, <2>4, SnapshotEmits DEF Emitted
    <3>2. log' \ log = {l}
      <4>1. l \notin log
        BY <3>1 DEF Emitted, Keys, TypeOK
      <4> QED
        BY <3>1, <4>1 DEF Emitted
    <3>3. \A c \in Devices : got'[c] \in {got[c], got[c] \cup {l}}
      BY <2>4, <3>2 DEF TypeOK
    <3> QED
      BY <2>1, <2>2, <3>1, <3>3 DEF Emission
  <2> QED
    BY <2>3, <2>4
<1>6. ASSUME NEW e \in Entities, NEW newLife, Insert(e) \/ Fix(e, newLife) \/ HardDelete(e)
      PROVE  Quiet
  BY <1>6 DEF Insert, Fix, HardDelete, Change, logVars, historyVars, Quiet
<1>7. ASSUME NEW s \in Sweepers, NEW e \in Entities, SweepReadVersion(s, e)
      PROVE  Quiet
  BY <1>7 DEF SweepReadVersion, logVars, historyVars, Quiet
<1>8. ASSUME NEW d \in Devices,
             \/ Reset(d) \/ SnapshotRead(d) \/ SnapshotReply(d) \/ DeltaCheck(d) \/ DeltaReply(d)
             \/ LoseReply(d)
      PROVE  Quiet
  BY <1>8 DEF Reset, SnapshotRead, SnapshotReply, DeltaCheck, DeltaReply, LoseReply, Answered,
              logVars, historyVars, Quiet, TypeOK
<1>9. CASE Age \/ UNCHANGED vars
  BY <1>9 DEF Age, vars, logVars, historyVars, Quiet
<1>10. CASE TableStep
  BY <1>1, <1>2, <1>6, <1>10 DEF TableStep
<1>11. ASSUME NEW s \in Sweepers, Sweep(s) \/ SweepDies(s)
       PROVE  \/ \E e \in Entities, l \in LogRows : Emission(e, l)
              \/ \E l \in LogRows : Tombstoned(s, l) /\ SweepTombstone(s)
              \/ Quiet
  <2>1. CASE SweepList(s) \/ SweepListVanished(s) \/ SweepDies(s)
    BY <2>1 DEF SweepList, SweepListVanished, SweepDies, Fault, logVars, historyVars, Quiet
  <2> QED
    BY <1>3, <1>4, <1>7, <1>11, <2>1 DEF Sweep
<1>12. ASSUME NEW d \in Devices, Pull(d) \/ LoseReply(d)
       PROVE  \/ \E e \in Entities, l \in LogRows : Emission(e, l)
              \/ Quiet
  BY <1>5, <1>8, <1>12 DEF Pull
<1> QED
  BY <1>9, <1>10, <1>11, <1>12 DEF Next

-----------------------------------------------------------------------------

(* What a device holds is well-typed, whatever rows it applied. *)
LEMMA AppliedType ==
    ASSUME TypeOK, NEW d \in Devices, NEW rows \in SUBSET LogRows, IsFiniteSet(rows)
    PROVE  Applied(d, rows) \in [Entities -> [version : Nat, rev : Nat]]
<1>1. ASSUME NEW e \in Entities PROVE Applied(d, rows)[e] \in [version : Nat, rev : Nat]
  <2> DEFINE mine == {l \in rows : l.entity = e /\ l.version > copy[d][e].version}
  <2>1. NoCopy \in [version : Nat, rev : Nat] /\ copy[d][e] \in [version : Nat, rev : Nat]
    BY DEF TypeOK, NoCopy
  <2>2. \A n \in mine : n.version \in Nat /\ n.rev \in Nat
    BY DEF LogRows
  <2>3. /\ mine = {} => Applied(d, rows)[e] = copy[d][e]
        /\ mine # {} => \E n \in mine : Applied(d, rows)[e] =
                            IF n.op = "DELETE" THEN NoCopy
                            ELSE [version |-> n.version, rev |-> n.rev]
    BY AppliedRows
  <2> HIDE DEF mine
  <2>4. CASE mine = {}
    BY <2>1, <2>3, <2>4
  <2>5. CASE mine # {}
    <3>1. PICK n \in mine : Applied(d, rows)[e] = IF n.op = "DELETE" THEN NoCopy
                                                  ELSE [version |-> n.version, rev |-> n.rev]
      BY <2>3, <2>5
    <3>2. [version |-> n.version, rev |-> n.rev] \in [version : Nat, rev : Nat]
      BY <2>2
    <3> QED
      BY <2>1, <3>1, <3>2
  <2> QED
    BY <2>4, <2>5
<1>2. Applied(d, rows) = [e \in Entities |-> Applied(d, rows)[e]]
  BY DEF Applied
<1> QED
  BY <1>1, <1>2

(* MAX(version_no) of an entity in the log. *)
LEMMA LastVersion ==
    ASSUME TypeOK, Keys, NEW e \in Entities
    PROVE  LET last == IF RowsOf(e) = {} THEN 0 ELSE Max({l.version : l \in RowsOf(e)})
           IN  last \in Nat /\ \A l \in RowsOf(e) : l.version <= last
<1> DEFINE versions == {l.version : l \in RowsOf(e)}
           f == [l \in RowsOf(e) |-> l.version]
<1>1. RowsOf(e) \in SUBSET log /\ IsFiniteSet(log)
  BY DEF RowsOf, Keys
<1>2. IsFiniteSet(RowsOf(e)) /\ f \in Surjection(RowsOf(e), versions)
  BY <1>1, FS_Subset DEF Surjection
<1>3. IsFiniteSet(versions)
  BY <1>2, FS_Surjection
<1>4. versions \in SUBSET Nat
  BY <1>1 DEF TypeOK, LogRows
<1>5. \A l \in RowsOf(e) : l.version \in versions
  OBVIOUS
<1> HIDE DEF versions, f
<1>6. RowsOf(e) # {} => Max(versions) \in Nat /\ \A l \in RowsOf(e) : l.version <= Max(versions)
  BY <1>3, <1>4, <1>5, MaxOf
<1> QED
  BY <1>6 DEF versions

(* Every step keeps the state well-typed. *)
LEMMA TypeStep ==
    TypeOK /\ Keys /\ Versions /\ Tombstoning /\ Requests /\ [Next]_vars => TypeOK'
<1> SUFFICES ASSUME TypeOK, Keys, Versions, Tombstoning, Requests, [Next]_vars
             PROVE  TypeOK'
  OBVIOUS
<1> USE PullAssumption
    DEF TypeOK, PullAssumption, tableVars, logVars, sweepVars, requestVars, deviceVars, historyVars,
        boundVars
<1>0. NoCopy \in [version : Nat, rev : Nat] /\ NoMark \in [entity : 0..NumEntities, version : Nat]
      /\ Entities \subseteq 0..NumEntities /\ Entities \subseteq Nat
  BY DEF NoCopy, NoMark, Entities
<1>e. \A e \in Entities : \A l : Emitted(e, l) => log' \subseteq LogRows /\ lastKey' \in Nat /\ old' \in Nat
  BY DEF Emitted
<1>1. ASSUME NEW e \in Entities, Create(e) PROVE TypeOK'
  <2>1. log' \subseteq LogRows /\ lastKey' \in Nat /\ old' \in Nat
    BY <1>1, <1>e, CreateEmits
  <2> QED
    BY <1>1, <2>1 DEF Create, Change, Overtaken
<1>2. ASSUME NEW e \in Entities, Write(e) PROVE TypeOK'
  <2>1. log' \subseteq LogRows /\ lastKey' \in Nat /\ old' \in Nat
    BY <1>2, <1>e, WriteEmits
  <2> QED
    BY <1>2, <2>1 DEF Write, Change, Overtaken, Bump
<1>3. ASSUME NEW e \in Entities, Insert(e) PROVE TypeOK'
  BY <1>3 DEF Insert, Change
<1>4. ASSUME NEW e \in Entities, NEW newLife \in {"active", "inactive"}, Fix(e, newLife) PROVE TypeOK'
  BY <1>4 DEF Fix, Change, Bump
<1>5. ASSUME NEW e \in Entities, HardDelete(e) PROVE TypeOK'
  BY <1>5 DEF HardDelete, Change
<1>6. ASSUME NEW s \in Sweepers, SweepList(s) \/ SweepListVanished(s) \/ SweepDies(s) PROVE TypeOK'
  <2>1. Missing \subseteq Entities /\ Vanished \subseteq Entities
    BY DEF Missing, Vanished
  <2>2. CASE SweepList(s)
    BY <2>1, <2>2 DEF SweepList
  <2>3. CASE SweepListVanished(s)
    BY <2>1, <2>3 DEF SweepListVanished
  <2>4. CASE SweepDies(s)
    BY <1>0, <2>4 DEF SweepDies, Fault
  <2> QED
    BY <1>6, <2>2, <2>3, <2>4
<1>7. ASSUME NEW s \in Sweepers, NEW e \in Entities, SweepEmit(s, e) PROVE TypeOK'
  <2>1. CASE EmitSnapshot(e) /\ lost' = Overtaken(e)
    <3>1. log' \subseteq LogRows /\ lastKey' \in Nat /\ old' \in Nat
      BY <1>7, <1>e, <2>1, SnapshotEmits DEF SweepEmit
    <3>2. version' = [version EXCEPT ![e] = @ + 1]
      BY <2>1 DEF EmitSnapshot, Bump
    <3> QED
      BY <1>7, <2>1, <3>1, <3>2 DEF SweepEmit, Overtaken
  <2>2. CASE UNCHANGED <<version, logVars, lost>>
    BY <1>7, <2>2 DEF SweepEmit
  <2> QED
    BY <1>7, <2>1, <2>2 DEF SweepEmit
<1>8. ASSUME NEW s \in Sweepers, NEW e \in Entities, SweepReadVersion(s, e) PROVE TypeOK'
  <2> DEFINE last == IF RowsOf(e) = {} THEN 0 ELSE Max({l.version : l \in RowsOf(e)})
  <2>1. last \in Nat
    BY LastVersion
  <2>2. mark' = [mark EXCEPT ![s] = [entity |-> e, version |-> last + 1]]
    BY <1>8 DEF SweepReadVersion
  <2> HIDE DEF last
  <2> QED
    BY <1>0, <1>8, <2>1, <2>2 DEF SweepReadVersion
<1>9. ASSUME NEW s \in Sweepers, SweepTombstone(s) PROVE TypeOK'
  <2>1. log' \subseteq LogRows /\ lastKey' \in Nat /\ old' \in Nat
    BY <1>9, SweepTombstones DEF Tombstoned
  <2> DEFINE e == mark[s].entity
  <2>2. e \in Entities
    BY <1>9, SweepTombstones
  <2>3. /\ todo' = [todo EXCEPT ![s] = @ \ {e}]
        /\ phase' = [phase EXCEPT ![s] = IF todo[s] = {e} THEN "idle" ELSE @]
        /\ lost' = Overtaken(e)
        /\ mark' = [mark EXCEPT ![s] = NoMark]
        /\ UNCHANGED <<tableVars, requestVars, deviceVars, forgotten, dropped, boundVars>>
    BY <1>9 DEF SweepTombstone
  <2> HIDE DEF e
  <2>4. lost' \in [Devices -> SUBSET Entities]
    BY <2>2, <2>3 DEF Overtaken
  <2> QED
    BY <1>0, <2>1, <2>2, <2>3, <2>4
<1>10. CASE Age
  BY <1>10 DEF Age, LogRows
<1>11. CASE Retention
  <2>1. dropped' \subseteq [key : Nat, entity : Entities]
    BY <1>11 DEF Retention, LogRows
  <2> QED
    BY <1>11, <2>1 DEF Retention, Vanished
<1>12. ASSUME NEW d \in Devices, Reset(d) PROVE TypeOK'
  BY <1>0, <1>12 DEF Reset
<1>13. ASSUME NEW d \in Devices, SnapshotRead(d) PROVE TypeOK'
  <2> DEFINE rest == {e \in Entities : life[e] = "active" /\ e > after[d]}
             fetched == FirstN(rest, PageSize)
             last == IF fetched = rest THEN NumEntities ELSE Max(fetched)
  <2>1. fetched \subseteq Entities
    BY FirstNIsPrefix
  <2>2. last \in 0..NumEntities
    <3>1. fetched # rest => fetched # {}
      BY FirstNIsPrefix
    <3>2. fetched # {} => Max(fetched) \in fetched
      BY <2>1, FiniteEntities, MaxOf
    <3>3. NumEntities \in 0..NumEntities
      OBVIOUS
    <3> HIDE DEF fetched, rest
    <3>4. CASE fetched = rest
      BY <3>3, <3>4
    <3>5. CASE fetched # rest
      BY <1>0, <2>1, <3>1, <3>2, <3>5
    <3> QED
      BY <3>4, <3>5
  <2>3. page' = [page EXCEPT ![d] = fetched] /\ upto' = [upto EXCEPT ![d] = last]
    BY <1>13 DEF SnapshotRead
  <2>4. /\ lost' = [lost EXCEPT ![d] = Kept(d) \cup (IF after[d] = 0 THEN {} ELSE @)]
        /\ pc' = [pc EXCEPT ![d] = "snapshot"]
        /\ UNCHANGED <<tableVars, logVars, sweepVars, got, deviceVars, forgotten, dropped, boundVars>>
    BY <1>13 DEF SnapshotRead
  <2>5. Kept(d) \subseteq Entities
    BY DEF Kept
  <2> HIDE DEF fetched, last
  <2> QED
    BY <2>1, <2>2, <2>3, <2>4, <2>5
<1>14. ASSUME NEW d \in Devices, SnapshotEmit(d) PROVE TypeOK'
  <2> DEFINE e == Min(page[d])
  <2>1. e \in Entities
    BY <1>14, FiniteEntities, MinOf DEF SnapshotEmit
  <2>2. \/ /\ EmitSnapshot(e)
           /\ page' = [page EXCEPT ![d] = @ \ {e}]
           /\ got' = [got EXCEPT ![d] = @ \cup (log' \ log)]
           /\ lost' = [Overtaken(e) EXCEPT ![d] = @ \ {e}]
           /\ UNCHANGED <<pc, upto>>
        \/ /\ pc' = [pc EXCEPT ![d] = "idle"] /\ page' = [page EXCEPT ![d] = {}]
           /\ upto' = [upto EXCEPT ![d] = 0] /\ got' = [got EXCEPT ![d] = {}]
           /\ UNCHANGED <<version, logVars, lost>>
    BY <1>14 DEF SnapshotEmit
  <2>3. UNCHANGED <<life, rev, sweepVars, deviceVars, forgotten, dropped, boundVars>>
    BY <1>14 DEF SnapshotEmit
  <2> HIDE DEF e
  <2>4. CASE EmitSnapshot(e) /\ got' = [got EXCEPT ![d] = @ \cup (log' \ log)]
             /\ page' = [page EXCEPT ![d] = @ \ {e}] /\ lost' = [Overtaken(e) EXCEPT ![d] = @ \ {e}]
             /\ UNCHANGED <<pc, upto>>
    <3>1. log' \subseteq LogRows /\ lastKey' \in Nat /\ old' \in Nat
      BY <1>e, <2>1, <2>3, <2>4, SnapshotEmits
    <3>2. version' = [version EXCEPT ![e] = @ + 1]
      BY <2>4 DEF EmitSnapshot, Bump
    <3>3. lost' \in [Devices -> SUBSET Entities]
      BY <2>1, <2>4 DEF Overtaken
    <3> QED
      BY <2>1, <2>3, <2>4, <3>1, <3>2, <3>3
  <2>5. CASE /\ pc' = [pc EXCEPT ![d] = "idle"] /\ page' = [page EXCEPT ![d] = {}]
             /\ upto' = [upto EXCEPT ![d] = 0] /\ got' = [got EXCEPT ![d] = {}]
             /\ UNCHANGED <<version, logVars, lost>>
    BY <2>3, <2>5
  <2> QED
    BY <2>2, <2>4, <2>5
<1>15. ASSUME NEW d \in Devices, SnapshotReply(d) PROVE TypeOK'
  <2>1. Applied(d, got[d]) \in [Entities -> [version : Nat, rev : Nat]]
    BY AppliedType DEF Keys
  <2>2. MaxChangeKey(got[d]) \in Nat
    <3>1. got[d] \in SUBSET LogRows /\ IsFiniteSet(got[d])
      BY DEF Keys
    <3>2. got[d] # {} => Newest(got[d]) \in got[d]
      BY <3>1, NewestOf
    <3> QED
      BY <3>1, <3>2 DEF MaxChangeKey, LogRows
  <2>3. /\ copy' = [copy EXCEPT ![d] = Applied(d, got[d])]
        /\ after' = [after EXCEPT ![d] = IF upto[d] < NumEntities THEN upto[d] ELSE 0]
        /\ cursor' = [cursor EXCEPT ![d] = IF upto[d] < NumEntities THEN @ ELSE MaxChangeKey(got[d])]
        /\ UNCHANGED <<tableVars, logVars, sweepVars, historyVars, boundVars>>
    BY <1>15 DEF SnapshotReply
  <2>4. Answered(d)
    BY <1>15 DEF SnapshotReply
  <2> QED
    BY <2>1, <2>2, <2>3, <2>4 DEF Answered
<1>16. ASSUME NEW d \in Devices, DeltaCheck(d) PROVE TypeOK'
  BY <1>16 DEF DeltaCheck
<1>17. ASSUME NEW d \in Devices, DeltaReply(d) PROVE TypeOK'
  <2>1. Applied(d, DeltaRows(d)) \in [Entities -> [version : Nat, rev : Nat]]
    BY AppliedType, DeltaIsPrefix
  <2>2. DeltaRows(d) # {} => Newest(DeltaRows(d)).key \in Nat
    <3>1. DeltaRows(d) \in SUBSET LogRows /\ IsFiniteSet(DeltaRows(d))
      BY DeltaIsPrefix
    <3>2. DeltaRows(d) # {} => Newest(DeltaRows(d)) \in DeltaRows(d)
      BY <3>1, NewestOf
    <3> QED
      BY <3>1, <3>2 DEF LogRows
  <2>3. Skipped(d) \subseteq Entities
    BY DEF Skipped
  <2> QED
    BY <1>17, <2>1, <2>2, <2>3 DEF DeltaReply, Answered
<1>18. ASSUME NEW d \in Devices, LoseReply(d) PROVE TypeOK'
  BY <1>18 DEF LoseReply, Answered, Fault
<1>19. CASE UNCHANGED vars
  BY <1>19 DEF vars
<1> QED
  BY <1>1, <1>2, <1>3, <1>4, <1>5, <1>6, <1>7, <1>8, <1>9, <1>10, <1>11, <1>12, <1>13, <1>14,
     <1>15, <1>16, <1>17, <1>18, <1>19 DEF Next, TableStep, Sweep, Pull

(* The steps by what they do to a row of the table: nothing, a new         *)
(* version, a deletion.                                                    *)
LEMMA RowMoves ==
    ASSUME TypeOK, Versions, [Next]_vars, NEW e \in Entities
    PROVE  \/ UNCHANGED <<life[e], version[e], rev[e]>>
           \/ life[e] # "gone" /\ life'[e] \in {"active", "inactive"} /\ version'[e] > version[e]
           \/ HardDelete(e) /\ Live(e) /\ life'[e] = "gone" /\ UNCHANGED <<version[e], rev[e]>>
<1> USE DEF tableVars
<1>1. ASSUME NEW f \in Entities, Create(f)
      PROVE  \/ UNCHANGED <<life[e], version[e], rev[e]>>
             \/ life[e] # "gone" /\ life'[e] \in {"active", "inactive"} /\ version'[e] > version[e]
  BY <1>1 DEF Create, IsNextKey, TypeOK, Versions
<1>2. ASSUME NEW f \in Entities, Insert(f)
      PROVE  \/ UNCHANGED <<life[e], version[e], rev[e]>>
             \/ life[e] # "gone" /\ life'[e] \in {"active", "inactive"} /\ version'[e] > version[e]
  BY <1>2 DEF Insert, IsNextKey, TypeOK, Versions
<1>3. ASSUME NEW f \in Entities, Write(f)
      PROVE  \/ UNCHANGED <<life[e], version[e], rev[e]>>
             \/ life[e] # "gone" /\ life'[e] \in {"active", "inactive"} /\ version'[e] > version[e]
  BY <1>3 DEF Write, Bump, Live, TypeOK
<1>4. ASSUME NEW f \in Entities, NEW newLife \in {"active", "inactive"}, Fix(f, newLife)
      PROVE  \/ UNCHANGED <<life[e], version[e], rev[e]>>
             \/ life[e] # "gone" /\ life'[e] \in {"active", "inactive"} /\ version'[e] > version[e]
  BY <1>4 DEF Fix, Bump, Live, TypeOK
<1>5. ASSUME NEW f \in Entities, HardDelete(f)
      PROVE  \/ UNCHANGED <<life[e], version[e], rev[e]>>
             \/ HardDelete(e) /\ Live(e) /\ life'[e] = "gone" /\ UNCHANGED <<version[e], rev[e]>>
  <2>1. /\ life' = [life EXCEPT ![f] = "gone"] /\ UNCHANGED <<rev, version>> /\ Live(f)
    BY <1>5 DEF HardDelete
  <2> QED
    BY <1>5, <2>1 DEF TypeOK
<1>6. ASSUME NEW f \in Entities, EmitSnapshot(f), UNCHANGED <<life, rev>>
      PROVE  \/ UNCHANGED <<life[e], version[e], rev[e]>>
             \/ life[e] # "gone" /\ life'[e] \in {"active", "inactive"} /\ version'[e] > version[e]
  BY <1>6 DEF EmitSnapshot, Bump, Live, TypeOK
<1>7. CASE TableStep
  BY <1>1, <1>2, <1>3, <1>4, <1>5, <1>7 DEF TableStep
<1>8. ASSUME NEW s \in Sweepers, Sweep(s) \/ SweepDies(s)
      PROVE  \/ UNCHANGED <<life[e], version[e], rev[e]>>
             \/ life[e] # "gone" /\ life'[e] \in {"active", "inactive"} /\ version'[e] > version[e]
  <2>1. CASE SweepList(s) \/ SweepListVanished(s) \/ SweepTombstone(s) \/ SweepDies(s)
    BY <2>1 DEF SweepList, SweepListVanished, SweepTombstone, SweepDies
  <2>2. ASSUME NEW f \in Entities, SweepReadVersion(s, f) PROVE UNCHANGED <<life, version, rev>>
    BY <2>2 DEF SweepReadVersion
  <2>3. ASSUME NEW f \in Entities, SweepEmit(s, f)
        PROVE  UNCHANGED <<life, rev>> /\ (EmitSnapshot(f) \/ UNCHANGED version)
    BY <2>3 DEF SweepEmit
  <2> QED
    BY <1>6, <1>8, <2>1, <2>2, <2>3 DEF Sweep
<1>9. ASSUME NEW d \in Devices, Pull(d) \/ LoseReply(d)
      PROVE  \/ UNCHANGED <<life[e], version[e], rev[e]>>
             \/ life[e] # "gone" /\ life'[e] \in {"active", "inactive"} /\ version'[e] > version[e]
  <2>1. CASE \/ Reset(d) \/ SnapshotRead(d) \/ SnapshotReply(d) \/ DeltaCheck(d) \/ DeltaReply(d)
             \/ LoseReply(d)
    BY <2>1 DEF Reset, SnapshotRead, SnapshotReply, DeltaCheck, DeltaReply, LoseReply
  <2>2. CASE SnapshotEmit(d)
    <3>1. Min(page[d]) \in Entities
      BY <2>2, FiniteEntities, MinOf DEF SnapshotEmit, TypeOK
    <3>2. UNCHANGED <<life, rev>> /\ (EmitSnapshot(Min(page[d])) \/ UNCHANGED version)
      BY <2>2 DEF SnapshotEmit
    <3> QED
      BY <1>6, <3>1, <3>2
  <2> QED
    BY <1>9, <2>1, <2>2 DEF Pull
<1>10. CASE Age \/ Retention \/ UNCHANGED vars
  BY <1>10 DEF Age, Retention, vars
<1> QED
  BY <1>7, <1>8, <1>9, <1>10 DEF Next

(* The steps by what they do to a device: nothing, or its cursor moves to  *)
(* a key of the log and its copy is dropped or takes over rows.            *)
DeviceMoves(d) ==
    \/ UNCHANGED <<cursor[d], copy[d]>>
    \/ Reset(d) /\ cursor'[d] = 0 /\ copy'[d] = [e \in Entities |-> NoCopy]
    \/ SnapshotReply(d) /\ copy'[d] = Applied(d, got[d])
           /\ cursor'[d] = IF upto[d] < NumEntities THEN cursor[d] ELSE MaxChangeKey(got[d])
    \/ DeltaReply(d) /\ copy'[d] = Applied(d, DeltaRows(d))
           /\ cursor'[d] = IF DeltaRows(d) = {} THEN cursor[d] ELSE Newest(DeltaRows(d)).key

LEMMA DeviceSteps ==
    ASSUME TypeOK, [Next]_vars, NEW d \in Devices
    PROVE  DeviceMoves(d)
<1>1. CASE TableStep
  BY <1>1 DEF TableStep, Create, Write, Insert, Fix, HardDelete, Change, deviceVars, DeviceMoves
<1>2. ASSUME NEW s \in Sweepers, Sweep(s) \/ SweepDies(s) PROVE DeviceMoves(d)
  BY <1>2 DEF Sweep, SweepList, SweepListVanished, SweepTombstone, SweepEmit, SweepReadVersion,
              SweepDies, deviceVars, DeviceMoves
<1>3. ASSUME NEW c \in Devices, Reset(c) PROVE DeviceMoves(d)
  BY <1>3 DEF Reset, DeviceMoves, TypeOK
<1>4. ASSUME NEW c \in Devices, SnapshotReply(c) PROVE DeviceMoves(d)
  <2>1. /\ copy' = [copy EXCEPT ![c] = Applied(c, got[c])]
        /\ cursor' = [cursor EXCEPT ![c] = IF upto[c] < NumEntities THEN cursor[c] ELSE MaxChangeKey(got[c])]
    BY <1>4 DEF SnapshotReply, TypeOK
  <2> QED
    BY <1>4, <2>1 DEF DeviceMoves, TypeOK
<1>5. ASSUME NEW c \in Devices, DeltaReply(c) PROVE DeviceMoves(d)
  <2>1. /\ copy' = [copy EXCEPT ![c] = Applied(c, DeltaRows(c))]
        /\ cursor' = [cursor EXCEPT ![c] = IF DeltaRows(c) = {} THEN cursor[c] ELSE Newest(DeltaRows(c)).key]
    BY <1>5 DEF DeltaReply
  <2> QED
    BY <1>5, <2>1 DEF DeviceMoves, TypeOK
<1>6. ASSUME NEW c \in Devices, SnapshotRead(c) \/ SnapshotEmit(c) \/ DeltaCheck(c) \/ LoseReply(c)
      PROVE  DeviceMoves(d)
  BY <1>6 DEF SnapshotRead, SnapshotEmit, DeltaCheck, LoseReply, deviceVars, DeviceMoves
<1>7. CASE Age \/ Retention \/ UNCHANGED vars
  BY <1>7 DEF Age, Retention, vars, deviceVars, DeviceMoves
<1> QED
  BY <1>1, <1>2, <1>3, <1>4, <1>5, <1>6, <1>7 DEF Next, Pull

(* What the device takes over comes from the page or from the log. *)
LEMMA CopyMoves ==
    ASSUME TypeOK, Keys, Versions, [Next]_vars, NEW d \in Devices, NEW e \in Entities
    PROVE  \/ copy'[d][e] = copy[d][e]
           \/ copy'[d][e] = NoCopy
           \/ \E l \in got[d] \cup log :
                  /\ l.entity = e /\ l.op = "UPSERT"
                  /\ copy'[d][e] = [version |-> l.version, rev |-> l.rev]
                  /\ l \in got[d] \/ log' = log
<1>1. ASSUME NEW rows \in SUBSET LogRows, IsFiniteSet(rows), copy'[d] = Applied(d, rows)
      PROVE  \/ copy'[d][e] = copy[d][e]
             \/ copy'[d][e] = NoCopy
             \/ \E l \in rows : /\ l.entity = e /\ l.op = "UPSERT"
                                /\ copy'[d][e] = [version |-> l.version, rev |-> l.rev]
  <2> DEFINE mine == {l \in rows : l.entity = e /\ l.version > copy[d][e].version}
  <2>1. /\ mine = {} => Applied(d, rows)[e] = copy[d][e]
        /\ mine # {} => \E n \in mine : Applied(d, rows)[e] =
                            IF n.op = "DELETE" THEN NoCopy
                            ELSE [version |-> n.version, rev |-> n.rev]
    BY <1>1, AppliedRows
  <2>2. \A n \in mine : n \in rows /\ n.entity = e /\ n.op \in {"UPSERT", "DELETE"}
    BY DEF LogRows, Ops
  <2> HIDE DEF mine
  <2> QED
    BY <1>1, <2>1, <2>2
<1>2. CASE SnapshotReply(d) /\ copy'[d] = Applied(d, got[d])
  <2>1. got[d] \in SUBSET LogRows /\ IsFiniteSet(got[d])
    BY DEF TypeOK, Keys
  <2> QED
    BY <1>1, <1>2, <2>1
<1>3. CASE DeltaReply(d) /\ copy'[d] = Applied(d, DeltaRows(d))
  <2>1. DeltaRows(d) \in SUBSET LogRows /\ IsFiniteSet(DeltaRows(d)) /\ DeltaRows(d) \subseteq log
    BY DeltaIsPrefix DEF TypeOK
  <2>2. log' = log
    BY <1>3 DEF DeltaReply, logVars
  <2> QED
    BY <1>1, <1>3, <2>1, <2>2
<1>4. CASE UNCHANGED <<cursor[d], copy[d]>> \/ (Reset(d) /\ copy'[d] = [f \in Entities |-> NoCopy])
  BY <1>4
<1> QED
  BY <1>2, <1>3, <1>4, DeviceSteps DEF DeviceMoves

(* A cursor is 0 or the key of a row that was in the log. *)
LEMMA CursorMoves ==
    ASSUME TypeOK, Keys, [Next]_vars, NEW d \in Devices
    PROVE  cursor'[d] <= lastKey
<1>1. cursor[d] <= lastKey /\ cursor[d] \in Nat /\ lastKey \in Nat
  BY DEF TypeOK, Keys
<1>2. CASE SnapshotReply(d) /\ cursor'[d] = IF upto[d] < NumEntities THEN cursor[d] ELSE MaxChangeKey(got[d])
  <2>1. got[d] \in SUBSET LogRows /\ IsFiniteSet(got[d]) /\ \A g \in got[d] : g.key <= lastKey
    BY DEF TypeOK, Keys
  <2>2. got[d] # {} => Newest(got[d]) \in got[d]
    BY <2>1, NewestOf
  <2>3. MaxChangeKey(got[d]) <= lastKey
    BY <1>1, <2>1, <2>2 DEF MaxChangeKey
  <2> QED
    BY <1>1, <1>2, <2>3
<1>3. CASE cursor'[d] = IF DeltaRows(d) = {} THEN cursor[d] ELSE Newest(DeltaRows(d)).key
  <2>1. DeltaRows(d) \in SUBSET LogRows /\ IsFiniteSet(DeltaRows(d)) /\ DeltaRows(d) \subseteq log
    BY DeltaIsPrefix DEF TypeOK
  <2>2. DeltaRows(d) # {} => Newest(DeltaRows(d)) \in DeltaRows(d)
    BY <2>1, NewestOf
  <2> QED
    BY <1>1, <1>3, <2>1, <2>2 DEF Keys
<1> QED
  BY <1>1, <1>2, <1>3, DeviceSteps DEF DeviceMoves

-----------------------------------------------------------------------------

LEMMA KeysStep ==
    TypeOK /\ Keys /\ Versions /\ Tombstoning /\ Requests /\ [Next]_vars => Keys'
<1> SUFFICES ASSUME TypeOK, Keys, Versions, Tombstoning, Requests, [Next]_vars
             PROVE  Keys'
  OBVIOUS
<1>1. \A d \in Devices : cursor'[d] <= lastKey /\ cursor'[d] \in Nat
  BY CursorMoves, TypeStep DEF TypeOK
<1>2. lastKey \in Nat /\ old \in Nat /\ \A l \in log : l.key \in Nat
  BY DEF TypeOK, LogRows
<1>3. \A d \in Devices : \A g \in got[d] : g.key \in Nat
  BY DEF TypeOK, LogRows
<1>4. ASSUME NEW l \in LogRows, l.key = lastKey + 1, log' = log \cup {l}, lastKey' = lastKey + 1,
             UNCHANGED <<old, dropped>>, (\A d \in Devices : got'[d] \in {got[d], got[d] \cup {l}})
      PROVE  Keys'
  <2>1. IsFiniteSet(log')
    BY <1>4, FS_AddElement DEF Keys
  <2>2. ASSUME NEW d \in Devices
        PROVE  IsFiniteSet(got'[d]) /\ \A g \in got'[d] : g.key <= lastKey'
    <3>1. IsFiniteSet(got[d]) /\ IsFiniteSet(got[d] \cup {l})
      BY FS_AddElement DEF Keys
    <3>2. \A g \in got[d] \cup {l} : g.key <= lastKey + 1
      BY <1>2, <1>3, <1>4 DEF Keys
    <3> QED
      BY <1>4, <3>1, <3>2
  <2>3. \A d \in Devices : cursor'[d] <= lastKey'
    BY <1>1, <1>2, <1>4
  <2>4. \A k \in log' : k.key <= lastKey'
    BY <1>2, <1>4 DEF Keys
  <2>5. \A k, m \in log' : k.key = m.key => k = m
    BY <1>2, <1>4 DEF Keys
  <2>6. \A p \in dropped' : p.key <= old' /\ \A k \in log' : p.key < k.key
    BY <1>2, <1>4 DEF Keys, TypeOK
  <2>7. old' <= lastKey'
    BY <1>2, <1>4 DEF Keys
  <2> QED
    BY <2>1, <2>2, <2>3, <2>4, <2>5, <2>6, <2>7 DEF Keys
<1>5. ASSUME NEW e \in Entities, NEW l \in LogRows, Emission(e, l) PROVE Keys'
  BY <1>4, <1>5 DEF Emission, Emitted
<1>6. ASSUME NEW s \in Sweepers, NEW l \in LogRows, Tombstoned(s, l), SweepTombstone(s) PROVE Keys'
  <2>1. got' = got
    BY <1>6 DEF SweepTombstone, requestVars
  <2> QED
    BY <1>4, <1>6, <2>1 DEF Tombstoned
<1>7. CASE Retention
  <2> DEFINE purged == {l \in log : l.key <= old}
  <2>1. /\ log' = log \ purged
        /\ dropped' = dropped \cup {[key |-> l.key, entity |-> l.entity] : l \in purged}
        /\ UNCHANGED <<lastKey, old, got, cursor>>
    BY <1>7 DEF Retention, requestVars, deviceVars
  <2>2. IsFiniteSet(log')
    BY <2>1, FS_Subset DEF Keys
  <2>3. \A p \in dropped' : p.key <= old' /\ \A k \in log' : p.key < k.key
    <3>1. \A p \in dropped' : p \in dropped \/ p.key <= old
      BY <2>1
    <3>2. \A k \in log' : k \in log /\ old < k.key
      BY <1>2, <2>1
    <3>3. \A p \in dropped' : p.key \in Nat
      BY TypeStep DEF TypeOK
    <3> QED
      BY <1>2, <2>1, <3>1, <3>2, <3>3 DEF Keys
  <2> QED
    BY <2>1, <2>2, <2>3 DEF Keys
<1>8. CASE Quiet
  <2>1. UNCHANGED <<log, lastKey, dropped>>
    BY <1>8 DEF Quiet
  <2>2. old' <= lastKey /\ old <= old'
    <3>1. CASE old' = old
      BY <1>2, <3>1 DEF Keys
    <3>2. CASE Age
      BY <1>2, <3>2 DEF Age, Keys
    <3> QED
      BY <1>8, <3>1, <3>2 DEF Quiet
  <2>3. \A d \in Devices : IsFiniteSet(got'[d]) /\ \A g \in got'[d] : g.key <= lastKey'
    <3>1. \A d \in Devices : got'[d] = got[d] \/ got'[d] = {}
      BY <1>8 DEF Quiet
    <3> QED
      BY <2>1, <3>1, FS_EmptySet DEF Keys
  <2>4. \A p \in dropped' : p.key <= old'
    BY <1>2, <2>1, <2>2, TypeStep DEF Keys, TypeOK
  <2> QED
    BY <1>1, <2>1, <2>2, <2>3, <2>4 DEF Keys
<1> QED
  BY <1>5, <1>6, <1>7, <1>8, StepKinds

(* A stamp stays valid: versions grow, and content changes with them. *)
LEMMA StampStays ==
    ASSUME TypeOK, Versions, [Next]_vars, version' \in [Entities -> Nat],
           NEW e \in Entities, NEW v \in Nat, NEW r \in Nat,
           Stamped(e, v, r)
    PROVE  v <= version'[e] /\ (v = version'[e] => r = rev'[e])
<1>1. version[e] \in Nat /\ rev[e] \in Nat /\ version'[e] \in Nat
  BY DEF TypeOK
<1>2. (version'[e] = version[e] /\ rev'[e] = rev[e]) \/ version'[e] > version[e]
  BY RowMoves
<1> QED
  BY <1>1, <1>2 DEF Stamped

LEMMA VersionsStep ==
    TypeOK /\ Keys /\ Versions /\ Tombstoning /\ Requests /\ [Next]_vars => Versions'
<1> SUFFICES ASSUME TypeOK, Keys, Versions, Tombstoning, Requests, [Next]_vars
             PROVE  Versions'
  OBVIOUS
<1>0. TypeOK' /\ version' \in [Entities -> Nat]
  BY TypeStep DEF TypeOK
<1>1. ASSUME NEW e \in Entities
      PROVE  IF life'[e] = "unborn" THEN version'[e] = 0 /\ rev'[e] = 0 ELSE version'[e] > 0
  <2>1. version[e] \in Nat /\ version'[e] \in Nat
    BY <1>0 DEF TypeOK
  <2>2. \/ life'[e] = life[e] /\ version'[e] = version[e] /\ rev'[e] = rev[e]
        \/ life'[e] \in {"active", "inactive"} /\ version'[e] > version[e]
        \/ life[e] \in {"active", "inactive"} /\ life'[e] = "gone" /\ version'[e] = version[e]
    BY RowMoves DEF Live
  <2> QED
    BY <2>1, <2>2 DEF Versions
<1>2. ASSUME NEW l \in log
      PROVE  /\ life'[l.entity] # "unborn" /\ l.version > 0
             /\ l.op = "DELETE" => life'[l.entity] = "gone"
             /\ l.op = "UPSERT" => /\ l.version <= version'[l.entity]
                                   /\ l.version = version'[l.entity] => l.rev = rev'[l.entity]
  <2>1. l.entity \in Entities /\ l.version \in Nat /\ l.rev \in Nat
    BY DEF TypeOK, LogRows
  <2>2. /\ life[l.entity] # "unborn" /\ l.version > 0
        /\ l.op = "DELETE" => life[l.entity] = "gone"
        /\ l.op = "UPSERT" => Stamped(l.entity, l.version, l.rev)
    BY DEF Versions
  <2>3. life'[l.entity] # "unborn" /\ (life[l.entity] = "gone" => life'[l.entity] = "gone")
    BY <2>1, <2>2, RowMoves DEF Live
  <2> QED
    BY <1>0, <2>1, <2>2, <2>3, StampStays
<1>3. ASSUME NEW d \in Devices, NEW g \in got[d]
      PROVE  /\ g.op = "UPSERT" /\ g.version <= version'[g.entity]
             /\ g.version = version'[g.entity] => g.rev = rev'[g.entity]
  <2>1. g.entity \in Entities /\ g.version \in Nat /\ g.rev \in Nat
    BY DEF TypeOK, LogRows
  <2> QED
    BY <1>0, <2>1, StampStays DEF Versions
<1>4. ASSUME NEW d \in Devices, NEW e \in Entities
      PROVE  /\ copy'[d][e].version <= version'[e]
             /\ copy'[d][e].version = version'[e] => copy'[d][e].rev = rev'[e]
  <2>1. CASE copy'[d][e] = copy[d][e]
    <3>1. copy[d][e].version \in Nat /\ copy[d][e].rev \in Nat /\ Stamped(e, copy[d][e].version, copy[d][e].rev)
      BY DEF TypeOK, Versions
    <3> QED
      BY <1>0, <2>1, <3>1, StampStays
  <2>2. CASE copy'[d][e] = NoCopy
    <3>1. NoCopy.version = 0 /\ NoCopy.rev = 0
      BY DEF NoCopy
    <3>2. version'[e] \in Nat /\ (version'[e] = 0 => rev'[e] = 0)
      BY <1>0, <1>1 DEF TypeOK
    <3> QED
      BY <2>2, <3>1, <3>2
  <2>3. ASSUME NEW l \in got[d] \cup log, l.entity = e, l.op = "UPSERT",
               copy'[d][e] = [version |-> l.version, rev |-> l.rev]
        PROVE  /\ copy'[d][e].version <= version'[e]
               /\ copy'[d][e].version = version'[e] => copy'[d][e].rev = rev'[e]
    BY <1>2, <1>3, <2>3
  <2> QED
    BY <2>1, <2>2, <2>3, CopyMoves
<1>5. ASSUME \A l \in log' : /\ life'[l.entity] # "unborn" /\ l.version > 0
                             /\ l.op = "DELETE" => life'[l.entity] = "gone"
                             /\ l.op = "UPSERT" =>
                                    /\ l.version <= version'[l.entity]
                                    /\ l.version = version'[l.entity] => l.rev = rev'[l.entity],
             \A d \in Devices : \A g \in got'[d] :
                             /\ g.op = "UPSERT" /\ g.version <= version'[g.entity]
                             /\ g.version = version'[g.entity] => g.rev = rev'[g.entity]
      PROVE  Versions'
  BY <1>1, <1>4, <1>5 DEF Versions, Stamped
<1>6. ASSUME NEW e \in Entities, NEW l \in LogRows, Emission(e, l) PROVE Versions'
  <2>1. /\ l.entity = e /\ l.op = "UPSERT" /\ l.version = version'[e] /\ l.rev = rev'[e]
        /\ life'[e] \in {"active", "inactive"} /\ log' = log \cup {l}
        /\ \A d \in Devices : got'[d] \in {got[d], got[d] \cup {l}}
        /\ version'[e] > 0
    BY <1>1, <1>6 DEF Emission, Emitted
  <2>2. version'[e] \in Nat
    BY <1>0
  <2>3. \A d \in Devices : \A g \in got'[d] : g \in got[d] \/ g = l
    BY <2>1
  <2> QED
    BY <1>2, <1>3, <1>5, <2>1, <2>2, <2>3
<1>7. ASSUME NEW s \in Sweepers, NEW l \in LogRows, Tombstoned(s, l), SweepTombstone(s) PROVE Versions'
  <2>1. got' = got /\ life' = life
    BY <1>7 DEF SweepTombstone, requestVars, tableVars
  <2>2. /\ l.entity = mark[s].entity /\ l.op = "DELETE" /\ l.version = mark[s].version
        /\ log' = log \cup {l} /\ phase[s] = "tombstone" /\ mark[s] # NoMark
    BY <1>7 DEF Tombstoned
  <2>3. l.version > 0 /\ life[l.entity] = "gone"
    BY <2>2 DEF Tombstoning, Doomed, Above
  <2> QED
    BY <1>2, <1>3, <1>5, <2>1, <2>2, <2>3
<1>8. CASE Retention
  <2>1. got' = got /\ log' \subseteq log
    BY <1>8 DEF Retention, requestVars
  <2> QED
    BY <1>2, <1>3, <1>5, <2>1
<1>9. CASE Quiet
  <2>1. log' = log /\ \A d \in Devices : got'[d] = got[d] \/ got'[d] = {}
    BY <1>9 DEF Quiet
  <2> QED
    BY <1>2, <1>3, <1>5, <2>1
<1> QED
  BY <1>6, <1>7, <1>8, <1>9, StepKinds

(* What the log forgot stays forgotten. *)
LEMMA ForgottenGrows == [Next]_vars => forgotten \subseteq forgotten'
<1> USE DEF historyVars
<1>1. TableStep => forgotten \subseteq forgotten'
  BY DEF TableStep, Create, Write, Insert, Fix, HardDelete
<1>2. \A s \in Sweepers : Sweep(s) \/ SweepDies(s) => forgotten \subseteq forgotten'
  BY DEF Sweep, SweepList, SweepListVanished, SweepTombstone, SweepEmit, SweepReadVersion, SweepDies
<1>3. \A d \in Devices : Pull(d) \/ LoseReply(d) => forgotten \subseteq forgotten'
  BY DEF Pull, Reset, SnapshotRead, SnapshotEmit, SnapshotReply, DeltaCheck, DeltaReply, LoseReply
<1>4. Age \/ Retention \/ UNCHANGED vars => forgotten \subseteq forgotten'
  BY DEF Age, Retention, vars
<1> QED
  BY <1>1, <1>2, <1>3, <1>4 DEF Next

LEMMA OrderStep ==
    TypeOK /\ Keys /\ Versions /\ LogOrdered /\ Tombstoning /\ Requests /\ [Next]_vars
        => LogOrdered'
<1> SUFFICES ASSUME TypeOK, Keys, Versions, LogOrdered, Tombstoning, Requests, [Next]_vars
             PROVE  LogOrdered'
  OBVIOUS
<1>1. ASSUME NEW l \in LogRows, l.key = lastKey + 1, log' = log \cup {l},
             \A m \in log : m.entity = l.entity /\ m.op # "DELETE" => m.version < l.version,
             l.op = "UPSERT" => \A m \in log : m.entity = l.entity => m.op # "DELETE"
      PROVE  LogOrdered'
  <2>1. \A m \in log : m.key <= lastKey /\ m.key \in Nat /\ m.op \in {"UPSERT", "DELETE"}
    BY DEF Keys, TypeOK, LogRows, Ops
  <2>2. l.op \in {"UPSERT", "DELETE"} /\ lastKey \in Nat
    BY DEF LogRows, Ops, TypeOK
  <2> QED
    BY <1>1, <2>1, <2>2 DEF LogOrdered
<1>2. ASSUME NEW e \in Entities, NEW l \in LogRows, Emission(e, l) PROVE LogOrdered'
  <2>1. /\ l.key = lastKey + 1 /\ l.entity = e /\ l.op = "UPSERT" /\ l.version = version'[e]
        /\ log' = log \cup {l} /\ life[e] # "gone" /\ version'[e] > version[e]
    BY <1>2 DEF Emission, Emitted
  <2>2. ASSUME NEW m \in log, m.entity = e PROVE m.op # "DELETE" /\ m.version < l.version
    <3>1. m.version \in Nat /\ version[e] \in Nat /\ l.version \in Nat /\ m.op \in {"UPSERT", "DELETE"}
      BY DEF TypeOK, LogRows, Ops
    <3>2. m.op = "UPSERT" /\ m.version <= version[e]
      BY <2>1, <2>2, <3>1 DEF Versions, Stamped
    <3> QED
      BY <2>1, <3>1, <3>2
  <2> QED
    BY <1>1, <2>1, <2>2
<1>3. ASSUME NEW s \in Sweepers, NEW l \in LogRows, Tombstoned(s, l) PROVE LogOrdered'
  <2>1. /\ l.key = lastKey + 1 /\ l.entity = mark[s].entity /\ l.op = "DELETE"
        /\ l.version = mark[s].version /\ log' = log \cup {l} /\ mark[s] # NoMark
    BY <1>3 DEF Tombstoned
  <2>2. \A m \in log : m.entity = l.entity /\ m.op = "UPSERT" => m.version < l.version
    BY <2>1 DEF Tombstoning, Doomed, Above, RowsOf
  <2>3. \A m \in log : m.op \in {"UPSERT", "DELETE"}
    BY DEF TypeOK, LogRows, Ops
  <2> QED
    BY <1>1, <2>1, <2>2, <2>3
<1>4. CASE Retention \/ Quiet
  <2>1. log' \subseteq log
    BY <1>4 DEF Retention, Quiet
  <2> QED
    BY <2>1 DEF LogOrdered
<1> QED
  BY <1>2, <1>3, <1>4, StepKinds

-----------------------------------------------------------------------------
(* What is out of an entity is no newer than its row; what a step adds     *)
(* comes from the log.                                                     *)

LEMMA OutBound ==
    ASSUME TypeOK, Versions, NEW e \in Entities, NEW v \in Out(e)
    PROVE  v \in Nat /\ v <= version[e]
<1>1. \A d \in Devices : copy[d][e].version \in Nat /\ copy[d][e].version <= version[e]
  BY DEF TypeOK, Versions, Stamped
<1>2. ASSUME NEW d \in Devices, NEW g \in got[d], g.entity = e
      PROVE  g.version \in Nat /\ g.version <= version[e]
  BY <1>2 DEF TypeOK, Versions, Stamped, LogRows
<1> QED
  BY <1>1, <1>2 DEF Out

LEMMA OutMoves ==
    ASSUME TypeOK, Keys, Versions, Tombstoning, Requests, [Next]_vars,
           NEW e \in Entities, NEW v \in Out(e)'
    PROVE  \/ v \in Out(e)
           \/ v = 0
           \/ \E l \in log' : l.entity = e /\ l.op = "UPSERT" /\ l.version = v
<1>1. ASSUME NEW d \in Devices, v = copy'[d][e].version
      PROVE  \/ v \in Out(e)
             \/ v = 0
             \/ \E l \in log' : l.entity = e /\ l.op = "UPSERT" /\ l.version = v
  <2>1. CASE copy'[d][e] = copy[d][e]
    BY <1>1, <2>1 DEF Out
  <2>2. CASE copy'[d][e] = NoCopy
    BY <1>1, <2>2 DEF NoCopy
  <2>3. ASSUME NEW l \in got[d] \cup log, l.entity = e, l.op = "UPSERT",
               copy'[d][e] = [version |-> l.version, rev |-> l.rev],
               l \in got[d] \/ log' = log
        PROVE  v \in Out(e) \/ \E k \in log' : k.entity = e /\ k.op = "UPSERT" /\ k.version = v
    <3>1. v = l.version
      BY <1>1, <2>3
    <3>2. CASE l \in got[d]
      BY <2>3, <3>1, <3>2 DEF Out
    <3>3. CASE l \notin got[d]
      <4>1. l \in log'
        BY <2>3, <3>3
      <4> QED
        BY <2>3, <3>1, <4>1
    <3> QED
      BY <3>2, <3>3
  <2>4. \/ copy'[d][e] = copy[d][e]
        \/ copy'[d][e] = NoCopy
        \/ \E l \in got[d] \cup log :
               /\ l.entity = e /\ l.op = "UPSERT"
               /\ copy'[d][e] = [version |-> l.version, rev |-> l.rev]
               /\ l \in got[d] \/ log' = log
    BY CopyMoves
  <2> QED
    BY <2>1, <2>2, <2>3, <2>4
<1>2. ASSUME NEW d \in Devices, NEW g \in got'[d], g.entity = e, v = g.version
      PROVE  \/ v \in Out(e)
             \/ \E l \in log' : l.entity = e /\ l.op = "UPSERT" /\ l.version = v
  <2>1. g \in got[d] \/ (g \in log' /\ g.op = "UPSERT")
    <3>1. ASSUME NEW f \in Entities, NEW l \in LogRows, Emission(f, l)
          PROVE  g \in got[d] \/ (g \in log' /\ g.op = "UPSERT")
      <4>1. l \in log' /\ l.op = "UPSERT" /\ got'[d] \in {got[d], got[d] \cup {l}}
        BY <3>1 DEF Emission, Emitted
      <4> QED
        BY <4>1
    <3>2. CASE Quiet
      <4>1. got'[d] \in {got[d], {}}
        BY <3>2 DEF Quiet
      <4> QED
        BY <4>1
    <3>3. CASE Retention \/ \E s \in Sweepers : SweepTombstone(s)
      <4>1. got' = got
        BY <3>3 DEF Retention, SweepTombstone, requestVars
      <4> QED
        BY <4>1
    <3> QED
      BY <3>1, <3>2, <3>3, StepKinds
  <2> QED
    BY <1>2, <2>1 DEF Out
<1> QED
  BY <1>1, <1>2 DEF Out

LEMMA CoveredStep ==
    TypeOK /\ Keys /\ Versions /\ LogOrdered /\ Covered /\ Tombstoning /\ Requests /\ [Next]_vars
        => Covered'
<1> SUFFICES ASSUME TypeOK, Keys, Versions, LogOrdered, Covered, Tombstoning, Requests, [Next]_vars,
                    NEW e \in Entities, e \notin forgotten', NEW v \in Out(e)'
             PROVE  /\ RowsOf(e)' # {} => \E l \in RowsOf(e)' : v <= l.version
                    /\ \A l \in RowsOf(e)' : l.op = "DELETE" => v < l.version
  BY DEF Covered
<1>0. TypeOK' /\ Keys' /\ Versions' /\ LogOrdered'
  BY TypeStep, KeysStep, VersionsStep, OrderStep
<1>1. \A l \in RowsOf(e)' : /\ l \in log' /\ l.entity = e /\ l.version \in Nat /\ l.version > 0
                            /\ l.key \in Nat /\ l.op \in {"UPSERT", "DELETE"}
  BY <1>0 DEF TypeOK, LogRows, RowsOf, Versions, Ops
<1>2. CASE v = 0
  BY <1>1, <1>2
<1>3. ASSUME NEW l \in log', l.entity = e, l.op = "UPSERT", l.version = v
      PROVE  /\ \E k \in RowsOf(e)' : v <= k.version
             /\ \A k \in RowsOf(e)' : k.op = "DELETE" => v < k.version
  <2>1. l \in RowsOf(e)'
    BY <1>3 DEF RowsOf
  <2>2. ASSUME NEW k \in RowsOf(e)', k.op = "DELETE" PROVE v < k.version
    <3>1. k.key # l.key
      BY <1>0, <1>1, <1>3, <2>2 DEF Keys
    <3>2. ~(k.key < l.key)
      BY <1>0, <1>1, <1>3, <2>2 DEF LogOrdered
    <3>3. l.key < k.key
      BY <1>1, <2>1, <3>1, <3>2
    <3> QED
      BY <1>0, <1>1, <1>3, <3>3 DEF LogOrdered
  <2> QED
    BY <1>1, <1>3, <2>1, <2>2
<1>4. CASE v \in Out(e)
  <2>0. v \in Nat /\ v <= version[e]
    BY <1>4, OutBound
  <2>1. ASSUME e \notin forgotten
        PROVE  /\ RowsOf(e) # {} => \E l \in RowsOf(e) : v <= l.version
               /\ \A l \in RowsOf(e) : l.op = "DELETE" => v < l.version
    BY <1>4, <2>1 DEF Covered
  <2>2. ASSUME NEW l \in LogRows, log' = log \cup {l}, forgotten' = forgotten,
               l.entity = e => v < l.version
        PROVE  /\ RowsOf(e)' # {} => \E k \in RowsOf(e)' : v <= k.version
               /\ \A k \in RowsOf(e)' : k.op = "DELETE" => v < k.version
    <3>1. /\ RowsOf(e) # {} => \E k \in RowsOf(e) : v <= k.version
          /\ \A k \in RowsOf(e) : k.op = "DELETE" => v < k.version
      BY <2>1, <2>2
    <3>2. CASE l.entity # e
      <4>1. RowsOf(e)' = RowsOf(e)
        BY <2>2, <3>2 DEF RowsOf
      <4> QED
        BY <3>1, <4>1
    <3>3. CASE l.entity = e
      <4>1. RowsOf(e)' = RowsOf(e) \cup {l}
        BY <2>2, <3>3 DEF RowsOf
      <4>2. v <= l.version
        BY <2>0, <2>2, <3>3 DEF LogRows
      <4> QED
        BY <2>2, <3>1, <3>3, <4>1, <4>2
    <3> QED
      BY <3>2, <3>3
  <2>3. ASSUME NEW f \in Entities, NEW l \in LogRows, Emission(f, l)
        PROVE  /\ RowsOf(e)' # {} => \E k \in RowsOf(e)' : v <= k.version
               /\ \A k \in RowsOf(e)' : k.op = "DELETE" => v < k.version
    <3>1. /\ l.entity = f /\ l.version = version'[f] /\ version'[f] > version[f]
          /\ log' = log \cup {l} /\ forgotten' = forgotten
      BY <2>3 DEF Emission, Emitted
    <3>2. version[e] \in Nat /\ version'[e] \in Nat
      BY <1>0 DEF TypeOK
    <3> QED
      BY <2>0, <2>2, <3>1, <3>2
  <2>4. ASSUME NEW s \in Sweepers, NEW l \in LogRows, Tombstoned(s, l)
        PROVE  /\ RowsOf(e)' # {} => \E k \in RowsOf(e)' : v <= k.version
               /\ \A k \in RowsOf(e)' : k.op = "DELETE" => v < k.version
    <3>1. /\ l.entity = mark[s].entity /\ l.version = mark[s].version /\ mark[s] # NoMark
          /\ log' = log \cup {l} /\ forgotten' = forgotten
      BY <2>4 DEF Tombstoned
    <3>2. l.entity = e => v < l.version
      BY <1>4, <3>1 DEF Tombstoning, Doomed, Above
    <3> QED
      BY <2>2, <3>1, <3>2
  <2>5. CASE Retention
    <3>1. log' = {l \in log : ~(l.key <= old)} /\ e \notin forgotten
      BY <2>5 DEF Retention
    <3>2. RowsOf(e)' = {l \in RowsOf(e) : ~(l.key <= old)}
      BY <3>1 DEF RowsOf
    <3>3. ASSUME NEW m \in RowsOf(e)' PROVE \E k \in RowsOf(e)' : v <= k.version
      <4>1. PICK l \in RowsOf(e) : v <= l.version
        BY <2>1, <3>1, <3>2
      <4>2. l.key \in Nat /\ m.key \in Nat /\ old \in Nat /\ l.version \in Nat /\ m.version \in Nat
        BY <3>2 DEF TypeOK, LogRows, RowsOf
      <4>3. CASE ~(l.key <= old)
        BY <3>2, <4>1, <4>3
      <4>4. CASE l.key <= old
        <5>1. l.key < m.key
          BY <3>2, <4>2, <4>4
        <5>2. IF l.op = "DELETE" THEN m.op = "DELETE" ELSE l.version < m.version
          BY <3>2, <5>1 DEF LogOrdered, RowsOf
        <5>3. v <= m.version
          BY <2>0, <2>1, <3>1, <3>2, <4>1, <4>2, <5>2
        <5> QED
          BY <5>3
      <4> QED
        BY <4>3, <4>4
    <3> QED
      BY <2>1, <3>1, <3>2, <3>3
  <2>6. CASE Quiet
    <3>1. log' = log
      BY <2>6 DEF Quiet
    <3>2. e \notin forgotten
      BY ForgottenGrows
    <3> QED
      BY <2>1, <3>1, <3>2 DEF RowsOf
  <2> QED
    BY <2>3, <2>4, <2>5, <2>6, StepKinds
<1> QED
  BY <1>2, <1>3, <1>4, OutMoves

-----------------------------------------------------------------------------
(* Tombstoning *)

(* The steps by what they do to a sweep. *)
SweepMoves(s) ==
    \/ UNCHANGED <<phase[s], todo[s], mark[s]>>
    \/ phase'[s] \in {"idle", "reemit"} /\ (mark'[s] = NoMark \/ (phase[s] # "tombstone" /\ mark'[s] = mark[s]))
    \/ SweepListVanished(s) /\ phase[s] = "reemit" /\ todo'[s] = Vanished /\ mark'[s] = mark[s]
    \/ \E e \in Entities : SweepReadVersion(s, e) /\ UNCHANGED <<phase[s], todo[s]>>
    \/ phase'[s] \in {"idle", "tombstone"} /\ phase[s] = "tombstone"
           /\ todo'[s] \subseteq todo[s] /\ mark'[s] = NoMark

LEMMA SweepSteps ==
    ASSUME TypeOK, [Next]_vars, NEW s \in Sweepers
    PROVE  SweepMoves(s)
<1> USE DEF sweepVars
<1>1. CASE TableStep
  BY <1>1 DEF TableStep, Create, Write, Insert, Fix, HardDelete, Change, SweepMoves
<1>2. CASE Age \/ Retention \/ UNCHANGED vars
  BY <1>2 DEF Age, Retention, vars, SweepMoves
<1>3. ASSUME NEW d \in Devices, Pull(d) \/ LoseReply(d) PROVE SweepMoves(s)
  BY <1>3 DEF Pull, Reset, SnapshotRead, SnapshotEmit, SnapshotReply, DeltaCheck, DeltaReply,
              LoseReply, SweepMoves
<1>4. ASSUME NEW t \in Sweepers, t # s, Sweep(t) \/ SweepDies(t)
      PROVE  UNCHANGED <<phase[s], todo[s], mark[s]>>
  BY <1>4 DEF Sweep, SweepList, SweepListVanished, SweepTombstone, SweepEmit, SweepReadVersion,
              SweepDies, TypeOK
<1>5. CASE SweepList(s)
  BY <1>5 DEF SweepList, SweepMoves, TypeOK
<1>6. ASSUME NEW e \in Entities, SweepEmit(s, e) PROVE SweepMoves(s)
  BY <1>6 DEF SweepEmit, SweepMoves, TypeOK
<1>7. CASE SweepListVanished(s)
  BY <1>7 DEF SweepListVanished, SweepMoves, TypeOK
<1>8. ASSUME NEW e \in Entities, SweepReadVersion(s, e) PROVE SweepMoves(s)
  BY <1>8 DEF SweepReadVersion, SweepMoves
<1>9. CASE SweepTombstone(s)
  <2>1. /\ todo'[s] \subseteq todo[s] /\ mark'[s] = NoMark
        /\ phase[s] = "tombstone" /\ phase'[s] \in {"idle", phase[s]}
    BY <1>9 DEF SweepTombstone, TypeOK
  <2> QED
    BY <2>1 DEF SweepMoves
<1>10. CASE SweepDies(s)
  BY <1>10 DEF SweepDies, SweepMoves, TypeOK
<1> QED
  BY <1>1, <1>2, <1>3, <1>4, <1>5, <1>6, <1>7, <1>8, <1>9, <1>10 DEF Next, Sweep, SweepMoves

(* A row that is gone has no newer row in the log than its tombstone; if   *)
(* it has no tombstone it is found.                                        *)
LEMMA NewestRow ==
    ASSUME TypeOK, Keys, NEW e \in Entities, RowsOf(e) # {}
    PROVE  Newest(RowsOf(e)) \in RowsOf(e) /\ \A l \in RowsOf(e) : l.key <= Newest(RowsOf(e)).key
<1>1. RowsOf(e) \in SUBSET log /\ log \in SUBSET LogRows
  BY DEF RowsOf, TypeOK
<1>2. IsFiniteSet(RowsOf(e))
  BY <1>1, FS_Subset DEF Keys
<1> QED
  BY <1>1, <1>2, NewestOf

LEMMA VanishedRows ==
    ASSUME TypeOK, Keys, LogOrdered, NEW e \in Vanished
    PROVE  RowsOf(e) # {} /\ \A l \in RowsOf(e) : l.op # "DELETE"
<1> DEFINE n == Newest(RowsOf(e))
<1>1. e \in Entities /\ RowsOf(e) # {} /\ n.op # "DELETE"
  BY DEF Vanished
<1>2. n \in RowsOf(e) /\ \A l \in RowsOf(e) : l.key <= n.key
  BY <1>1, NewestRow
<1> HIDE DEF n
<1>3. ASSUME NEW l \in RowsOf(e), l.op = "DELETE" PROVE FALSE
  <2>1. l \in log /\ n \in log /\ l.entity = n.entity /\ l.key \in Nat /\ n.key \in Nat
    BY <1>2 DEF RowsOf, TypeOK, LogRows
  <2>2. l.key # n.key
    BY <1>1, <1>3, <2>1 DEF Keys
  <2>3. l.key < n.key
    BY <1>2, <2>1, <2>2
  <2> QED
    BY <1>1, <1>3, <2>1, <2>3 DEF LogOrdered
<1> QED
  BY <1>1, <1>3

LEMMA DoomedStays ==
    ASSUME TypeOK, Keys, Versions, LogOrdered, Tombstoning, Requests, [Next]_vars,
           NEW s \in Sweepers, phase[s] = "tombstone", NEW e \in Entities, Doomed(e)
    PROVE  Doomed(e)'
<1>0. forgotten \subseteq forgotten' /\ TypeOK'
  BY ForgottenGrows, TypeStep
<1>1. life'[e] = "gone"
  BY RowMoves DEF Doomed, Live
<1>2. ASSUME NEW l \in LogRows, log' = log \cup {l}, l.key = lastKey + 1, old' = old
      PROVE  Doomed(e)'
  <2>1. RowsOf(e) \subseteq RowsOf(e)' /\ \A k \in RowsOf(e)' : k \in RowsOf(e) \/ k = l
    BY <1>2 DEF RowsOf
  <2>2. l.key > old'
    BY <1>2 DEF Keys, TypeOK
  <2> QED
    BY <1>0, <1>1, <1>2, <2>1, <2>2 DEF Doomed
<1>3. CASE Retention
  <2>1. log' = {l \in log : ~(l.key <= old)} /\ old' = old
        /\ forgotten' = forgotten \cup {f \in Vanished : RowsOf(f) \subseteq {l \in log : l.key <= old}}
    BY <1>3 DEF Retention
  <2>2. RowsOf(e)' = {l \in RowsOf(e) : ~(l.key <= old)}
    BY <2>1 DEF RowsOf
  <2>3. ASSUME RowsOf(e)' = {}, RowsOf(e) # {} PROVE e \in forgotten'
    <3>1. Newest(RowsOf(e)) \in RowsOf(e)
      BY <2>3, NewestRow
    <3>2. RowsOf(e) \subseteq {l \in log : l.key <= old}
      BY <2>2, <2>3 DEF RowsOf
    <3>3. Newest(RowsOf(e)).key <= old /\ Newest(RowsOf(e)).key \in Nat /\ old \in Nat
      BY <3>1, <3>2 DEF TypeOK, LogRows
    <3>4. Newest(RowsOf(e)).op # "DELETE"
      BY <3>1, <3>3 DEF Doomed
    <3>5. e \in Vanished
      BY <2>3, <3>4 DEF Vanished, Doomed, Live
    <3> QED
      BY <2>1, <3>2, <3>5
  <2> QED
    BY <1>0, <1>1, <2>1, <2>2, <2>3 DEF Doomed
<1>4. CASE Quiet
  <2>1. log' = log /\ old' = old
    BY <1>4 DEF Quiet, Age
  <2> QED
    BY <1>0, <1>1, <2>1 DEF Doomed, RowsOf
<1> QED
  BY <1>2, <1>3, <1>4, StepKinds DEF Emission, Emitted, Tombstoned

LEMMA AboveStays ==
    ASSUME TypeOK, Keys, Versions, LogOrdered, Tombstoning, Requests, [Next]_vars,
           NEW e \in Entities, life[e] = "gone", NEW v \in Nat, Above(e, v)
    PROVE  Above(e, v)'
<1>0. forgotten \subseteq forgotten'
  BY ForgottenGrows
<1>1. ASSUME NEW l \in log', l.entity = e, l.op = "UPSERT" PROVE l.version < v
  <2>1. l \in log
    <3>1. ASSUME NEW f \in Entities, NEW k \in LogRows, Emission(f, k) PROVE l \in log
      BY <1>1, <3>1 DEF Emission, Emitted
    <3>2. ASSUME NEW s \in Sweepers, NEW k \in LogRows, Tombstoned(s, k) PROVE l \in log
      BY <1>1, <3>2 DEF Tombstoned
    <3>3. CASE Retention \/ Quiet
      BY <3>3 DEF Retention, Quiet
    <3> QED
      BY <3>1, <3>2, <3>3, StepKinds
  <2> QED
    BY <1>1, <2>1 DEF Above, RowsOf
<1>2. ASSUME e \notin forgotten', NEW u \in Out(e)' PROVE u < v
  <2>1. CASE u \in Out(e)
    BY <1>0, <1>2, <2>1 DEF Above
  <2>2. CASE u = 0
    BY <2>2 DEF Above
  <2> QED
    BY <1>1, <2>1, <2>2, OutMoves
<1> QED
  BY <1>1, <1>2 DEF Above, RowsOf

LEMMA TombstoningStep ==
    /\ TypeOK /\ Keys /\ Versions /\ LogOrdered /\ Covered /\ Tombstoning /\ Requests
    /\ [Next]_vars
    => Tombstoning'
<1> SUFFICES ASSUME TypeOK, Keys, Versions, LogOrdered, Covered, Tombstoning, Requests, [Next]_vars
             PROVE  Tombstoning'
  OBVIOUS
<1>0. \A s \in Sweepers : todo'[s] \subseteq Entities /\ mark'[s].version \in Nat
  BY TypeStep DEF TypeOK
<1> SUFFICES ASSUME NEW s \in Sweepers
             PROVE  /\ phase'[s] = "tombstone" => \A e \in todo'[s] : Doomed(e)'
                    /\ mark'[s] # NoMark =>
                           /\ phase'[s] = "tombstone" /\ mark'[s].entity \in todo'[s]
                           /\ \A e \in Entities, v \in Nat :
                                  e = mark'[s].entity /\ v = mark'[s].version => Above(e, v)'
  BY <1>0 DEF Tombstoning, Doomed, Above, Out, RowsOf
<1>1. /\ phase[s] = "tombstone" => \A e \in todo[s] : e \in Entities /\ Doomed(e)
      /\ mark[s] # NoMark => /\ phase[s] = "tombstone" /\ mark[s].entity \in todo[s]
                             /\ mark[s].entity \in Entities /\ mark[s].version \in Nat
                             /\ Above(mark[s].entity, mark[s].version)
  BY DEF Tombstoning, TypeOK
<1>2. phase[s] = "tombstone" => \A e \in todo[s] : Doomed(e)'
  BY <1>1, DoomedStays
<1>3. CASE UNCHANGED <<phase[s], todo[s], mark[s]>>
  <2>1. mark[s] # NoMark => Above(mark[s].entity, mark[s].version) /\ life[mark[s].entity] = "gone"
    BY <1>1 DEF Doomed
  <2>2. ASSUME mark[s] # NoMark, NEW e \in Entities, NEW v \in Nat, e = mark[s].entity, v = mark[s].version
        PROVE  Above(e, v)'
    <3>1. Above(e, v) /\ life[e] = "gone"
      BY <2>1, <2>2
    <3> QED
      BY <3>1, AboveStays
  <2> QED
    BY <1>1, <1>2, <1>3, <2>2
<1>4. CASE /\ phase'[s] \in {"idle", "reemit"}
           /\ mark'[s] = NoMark \/ (phase[s] # "tombstone" /\ mark'[s] = mark[s])
  BY <1>1, <1>4
<1>5. CASE SweepListVanished(s) /\ phase[s] = "reemit" /\ todo'[s] = Vanished /\ mark'[s] = mark[s]
  <2>1. UNCHANGED <<life, log, forgotten, old>>
    BY <1>5 DEF SweepListVanished, tableVars, logVars, historyVars
  <2>2. ASSUME NEW e \in Vanished PROVE e \in Entities /\ Doomed(e)
    <3>1. e \in Entities /\ RowsOf(e) # {} /\ \A l \in RowsOf(e) : l.op # "DELETE"
      BY VanishedRows DEF Vanished
    <3>2. life[e] # "unborn" /\ ~Live(e) /\ life[e] \in {"unborn", "active", "inactive", "gone"}
      BY <3>1 DEF Versions, RowsOf, Vanished, TypeOK
    <3> QED
      BY <3>1, <3>2 DEF Doomed, Live
  <2>3. \A e \in Vanished : Doomed(e)'
    BY <2>1, <2>2 DEF Doomed, RowsOf
  <2> QED
    BY <1>1, <1>5, <2>3
<1>6. ASSUME NEW f \in Entities, SweepReadVersion(s, f), UNCHANGED <<phase[s], todo[s]>>
      PROVE  /\ phase'[s] = "tombstone" /\ mark'[s].entity \in todo'[s]
             /\ \A e \in Entities, v \in Nat :
                    e = mark'[s].entity /\ v = mark'[s].version => Above(e, v)'
  <2> DEFINE versions == {l.version : l \in RowsOf(f)}
             last == IF RowsOf(f) = {} THEN 0 ELSE Max(versions)
  <2>1. /\ phase[s] = "tombstone" /\ f \in todo[s]
        /\ mark' = [mark EXCEPT ![s] = [entity |-> f, version |-> last + 1]]
        /\ UNCHANGED <<life, log, forgotten, copy, got>>
    BY <1>6 DEF SweepReadVersion, tableVars, logVars, historyVars, deviceVars, requestVars
  <2>2. last \in Nat /\ \A l \in RowsOf(f) : l.version <= last
    BY LastVersion
  <2>3. Doomed(f)
    BY <1>1, <2>1
  <2> HIDE DEF last, versions
  <2>4. ASSUME f \notin forgotten, NEW u \in Out(f) PROVE u < last + 1
    <3>1. u \in Nat
      BY OutBound
    <3>2. PICK l \in RowsOf(f) : u <= l.version
      BY <2>3, <2>4 DEF Doomed, Covered
    <3>3. l.version \in Nat /\ l.version <= last
      BY <2>2, <3>2 DEF RowsOf, TypeOK, LogRows
    <3> QED
      BY <2>2, <3>1, <3>2, <3>3
  <2>5. \A l \in RowsOf(f) : l.version < last + 1
    BY <2>2 DEF RowsOf, TypeOK, LogRows
  <2>6. ASSUME NEW v \in Nat, v = last + 1 PROVE Above(f, v)'
    <3>1. Above(f, v)
      BY <2>2, <2>4, <2>5, <2>6 DEF Above
    <3> QED
      BY <2>1, <3>1 DEF Above, Out, RowsOf
  <2>7. mark'[s].entity = f /\ mark'[s].version = last + 1
    BY <2>1 DEF TypeOK
  <2> QED
    BY <1>6, <2>1, <2>6, <2>7
<1>7. CASE /\ phase'[s] \in {"idle", "tombstone"} /\ phase[s] = "tombstone"
           /\ todo'[s] \subseteq todo[s] /\ mark'[s] = NoMark
  BY <1>2, <1>7
<1> QED
  BY <1>2, <1>3, <1>4, <1>5, <1>6, <1>7, SweepSteps DEF SweepMoves

-----------------------------------------------------------------------------
(* Requests *)

(* A device and its request are left alone by everyone else. *)
Waits(d) == UNCHANGED <<pc[d], page[d], upto[d], got[d], cursor[d], after[d], copy[d]>>

LEMMA OthersWait ==
    ASSUME TypeOK, [Next]_vars, NEW d \in Devices
    PROVE  Waits(d) \/ Pull(d) \/ LoseReply(d)
<1> USE DEF requestVars, deviceVars, Waits
<1>1. CASE TableStep
  BY <1>1 DEF TableStep, Create, Write, Insert, Fix, HardDelete, Change
<1>2. CASE Age \/ Retention \/ UNCHANGED vars
  BY <1>2 DEF Age, Retention, vars
<1>3. ASSUME NEW s \in Sweepers, Sweep(s) \/ SweepDies(s) PROVE Waits(d)
  BY <1>3 DEF Sweep, SweepList, SweepListVanished, SweepTombstone, SweepEmit, SweepReadVersion,
              SweepDies
<1>4. ASSUME NEW c \in Devices, c # d, Pull(c) \/ LoseReply(c) PROVE Waits(d)
  <2> USE DEF TypeOK
  <2>1. CASE Reset(c)
    BY <1>4, <2>1 DEF Reset
  <2>2. CASE SnapshotRead(c)
    BY <1>4, <2>2 DEF SnapshotRead
  <2>3. CASE SnapshotEmit(c)
    BY <1>4, <2>3 DEF SnapshotEmit
  <2>4. CASE SnapshotReply(c)
    BY <1>4, <2>4 DEF SnapshotReply, Answered
  <2>5. CASE DeltaCheck(c)
    BY <1>4, <2>5 DEF DeltaCheck
  <2>6. CASE DeltaReply(c)
    BY <1>4, <2>6 DEF DeltaReply, Answered
  <2>7. CASE LoseReply(c)
    BY <1>4, <2>7 DEF LoseReply, Answered
  <2> QED
    BY <1>4, <2>1, <2>2, <2>3, <2>4, <2>5, <2>6, <2>7 DEF Pull
<1> QED
  BY <1>1, <1>2, <1>3, <1>4 DEF Next

(* What a page query fetches. *)
Rest(d) == {e \in Entities : life[e] = "active" /\ e > after[d]}

LEMMA SnapshotPage ==
    ASSUME TypeOK, NEW d \in Devices, SnapshotRead(d)
    PROVE  /\ pc[d] = "idle" /\ cursor[d] = 0 /\ pc'[d] = "snapshot"
           /\ UNCHANGED <<got, cursor, after, copy, tableVars, logVars>>
           /\ page'[d] \subseteq Rest(d) /\ upto'[d] \in 0..NumEntities /\ after[d] <= upto'[d]
           /\ after[d] < upto'[d] \/ upto'[d] = NumEntities
           /\ \A e \in page'[d] : e <= upto'[d]
           /\ \A e \in Rest(d) : e <= upto'[d] => e \in page'[d]
           /\ lost'[d] = Kept(d) \cup (IF after[d] = 0 THEN {} ELSE lost[d])
           /\ \A c \in Devices \ {d} : lost'[c] = lost[c] /\ page'[c] = page[c] /\ pc'[c] = pc[c]
                                       /\ upto'[c] = upto[c]
<1> DEFINE fetched == FirstN(Rest(d), PageSize)
           last == IF fetched = Rest(d) THEN NumEntities ELSE Max(fetched)
<1>1. /\ pc[d] = "idle" /\ cursor[d] = 0 /\ pc' = [pc EXCEPT ![d] = "snapshot"]
      /\ page' = [page EXCEPT ![d] = fetched] /\ upto' = [upto EXCEPT ![d] = last]
      /\ lost' = [lost EXCEPT ![d] = Kept(d) \cup (IF after[d] = 0 THEN {} ELSE lost[d])]
      /\ UNCHANGED <<got, cursor, after, copy, tableVars, logVars>>
  BY DEF SnapshotRead, Rest, deviceVars
<1>2. /\ Rest(d) \in SUBSET Entities /\ fetched \subseteq Rest(d)
      /\ Rest(d) # {} => fetched # {}
      /\ \A x \in fetched, y \in Rest(d) : y <= x => y \in fetched
  <2>1. Rest(d) \in SUBSET Entities /\ PageSize \in Nat \ {0}
    BY PullAssumption DEF Rest, PullAssumption
  <2> HIDE DEF fetched
  <2> QED
    BY <2>1, FirstNIsPrefix DEF fetched
<1>3. after[d] \in 0..NumEntities /\ NumEntities \in Nat /\ Entities \subseteq 0..NumEntities
      /\ \A e \in Rest(d) : e > after[d]
  BY PullAssumption DEF TypeOK, PullAssumption, Rest, Entities
<1>4. fetched # Rest(d) => Max(fetched) \in fetched /\ \A e \in fetched : e <= Max(fetched)
  BY <1>2, FiniteEntities, MaxOf
<1>5. /\ last \in 0..NumEntities /\ after[d] <= last
      /\ after[d] < last \/ last = NumEntities
      /\ \A e \in fetched : e <= last
      /\ \A e \in Rest(d) : e <= last => e \in fetched
  <2> HIDE DEF fetched
  <2>1. CASE fetched = Rest(d)
    <3>1. last = NumEntities
      BY <2>1
    <3>2. \A e \in Rest(d) : e \in 0..NumEntities
      BY <1>2, <1>3
    <3> HIDE DEF last
    <3> QED
      BY <1>3, <2>1, <3>1, <3>2
  <2>2. CASE fetched # Rest(d)
    <3>1. last = Max(fetched)
      BY <2>2
    <3>2. last \in Rest(d) /\ last \in fetched /\ \A e \in fetched : e <= last
      BY <1>2, <1>4, <2>2, <3>1
    <3>3. last \in 0..NumEntities /\ last > after[d]
      BY <1>2, <1>3, <3>2
    <3> HIDE DEF last
    <3> QED
      BY <1>2, <1>3, <3>2, <3>3
  <2> QED
    BY <2>1, <2>2
<1> HIDE DEF fetched, last
<1> QED
  BY <1>1, <1>2, <1>5 DEF TypeOK

(* A snapshot page that is emitted, row by row. *)
LEMMA SnapshotEmission ==
    ASSUME TypeOK, Keys, NEW d \in Devices, SnapshotEmit(d)
    PROVE  /\ pc[d] = "snapshot" /\ Min(page[d]) \in page[d] /\ Min(page[d]) \in Entities
           /\ UNCHANGED <<cursor, after, copy, life, rev, forgotten, dropped>>
           /\ \/ \E l \in LogRows :
                     /\ Emitted(Min(page[d]), l) /\ l \notin log
                     /\ page' = [page EXCEPT ![d] = @ \ {Min(page[d])}]
                     /\ got' = [got EXCEPT ![d] = @ \cup {l}]
                     /\ lost' = [Overtaken(Min(page[d])) EXCEPT ![d] = @ \ {Min(page[d])}]
                     /\ UNCHANGED <<pc, upto>>
              \/ Answered(d) /\ UNCHANGED <<version, logVars, lost>>
<1> DEFINE e == Min(page[d])
<1>1. pc[d] = "snapshot" /\ page[d] # {} /\ page[d] \in SUBSET Entities
  BY DEF SnapshotEmit, TypeOK
<1>2. e \in page[d] /\ e \in Entities
  BY <1>1, FiniteEntities, MinOf
<1>3. UNCHANGED <<cursor, after, copy, life, rev, forgotten, dropped>>
  BY DEF SnapshotEmit, deviceVars
<1>4. \/ /\ EmitSnapshot(e)
         /\ page' = [page EXCEPT ![d] = @ \ {e}]
         /\ got' = [got EXCEPT ![d] = @ \cup (log' \ log)]
         /\ lost' = [Overtaken(e) EXCEPT ![d] = @ \ {e}]
         /\ UNCHANGED <<pc, upto>>
      \/ Answered(d) /\ UNCHANGED <<version, logVars, lost>>
  BY DEF SnapshotEmit, Answered
<1> HIDE DEF e
<1>5. ASSUME EmitSnapshot(e)
      PROVE  \E l \in LogRows : Emitted(e, l) /\ l \notin log /\ log' \ log = {l}
  <2>1. PICK l \in LogRows : Emitted(e, l)
    BY <1>2, <1>3, <1>5, SnapshotEmits DEF Emitted
  <2>2. l \notin log
    BY <2>1 DEF Emitted, Keys, TypeOK
  <2>3. log' \ log = {l}
    BY <2>1, <2>2 DEF Emitted
  <2> QED
    BY <2>1, <2>2, <2>3
<1> QED
  BY <1>1, <1>2, <1>3, <1>4, <1>5 DEF e

LEMMA RequestsStep ==
    TypeOK /\ Keys /\ Versions /\ Tombstoning /\ Requests /\ [Next]_vars => Requests'
<1> SUFFICES ASSUME TypeOK, Keys, Versions, Tombstoning, Requests, [Next]_vars,
                    NEW d \in Devices
             PROVE  /\ pc'[d] = "snapshot" =>
                           /\ cursor'[d] = 0 /\ after'[d] <= upto'[d]
                           /\ after'[d] < upto'[d] \/ upto'[d] = NumEntities
                           /\ \A e \in page'[d] : after'[d] < e /\ e <= upto'[d]
                           /\ \A g \in got'[d] : after'[d] < g.entity
                    /\ pc'[d] # "snapshot" => page'[d] = {} /\ got'[d] = {}
                    /\ pc'[d] = "delta" => cursor'[d] > 0
  BY DEF Requests
<1>0. /\ pc[d] = "snapshot" =>
             /\ cursor[d] = 0 /\ after[d] <= upto[d]
             /\ after[d] < upto[d] \/ upto[d] = NumEntities
             /\ \A e \in page[d] : after[d] < e /\ e <= upto[d]
             /\ \A g \in got[d] : after[d] < g.entity
      /\ pc[d] # "snapshot" => page[d] = {} /\ got[d] = {}
      /\ pc[d] = "delta" => cursor[d] > 0
  BY DEF Requests
<1>1. CASE Waits(d)
  BY <1>0, <1>1 DEF Waits
<1>2. CASE Reset(d)
  BY <1>0, <1>2 DEF Reset, requestVars
<1>3. CASE SnapshotRead(d)
  <2>1. \A e \in page'[d] : e > after[d] /\ e \in Entities
    BY <1>3, SnapshotPage DEF Rest
  <2>2. after[d] \in Nat /\ Entities \subseteq Nat
    BY DEF TypeOK, Entities
  <2> QED
    BY <1>0, <1>3, <2>1, <2>2, SnapshotPage
<1>4. CASE SnapshotEmit(d)
  <2> DEFINE e == Min(page[d])
  <2>1. pc[d] = "snapshot" /\ e \in page[d] /\ UNCHANGED <<cursor, after>>
    BY <1>4, SnapshotEmission
  <2>2. ASSUME NEW l \in LogRows, l.entity = e, page' = [page EXCEPT ![d] = @ \ {e}],
               got' = [got EXCEPT ![d] = @ \cup {l}], UNCHANGED <<pc, upto>>
        PROVE  /\ pc'[d] = "snapshot" /\ \A f \in page'[d] : f \in page[d]
               /\ \A g \in got'[d] : after[d] < g.entity
               /\ upto'[d] = upto[d]
    BY <1>0, <2>1, <2>2 DEF TypeOK
  <2>3. CASE Answered(d)
    BY <2>3 DEF Answered, TypeOK
  <2> QED
    BY <1>0, <1>4, <2>1, <2>2, <2>3, SnapshotEmission DEF Emitted
<1>5. CASE SnapshotReply(d) \/ DeltaReply(d) \/ LoseReply(d)
  BY <1>5 DEF SnapshotReply, DeltaReply, LoseReply, Answered, TypeOK
<1>6. CASE DeltaCheck(d)
  BY <1>0, <1>6 DEF DeltaCheck, deviceVars, TypeOK
<1> QED
  BY <1>1, <1>2, <1>3, <1>4, <1>5, <1>6, OthersWait DEF Pull

-----------------------------------------------------------------------------
(* What a device sees of an entity, step by step                           *)

(* A change that is logged when the snapshot of a device is past the       *)
(* entity is written down in its lost.                                     *)
LEMMA OthersOvertake ==
    ASSUME TypeOK, Keys, Versions, Tombstoning, [Next]_vars,
           NEW d \in Devices, ~Pull(d), NEW e \in Entities
    PROVE  /\ lost[d] \subseteq lost'[d]
           /\ Passed(d, e) => e \in lost'[d] \/ \A l \in log' : l.entity = e => l \in log
<1> USE DEF historyVars, logVars
<1>1. ASSUME NEW f \in Entities, NEW l, Emitted(f, l), lost'[d] = Overtaken(f)[d]
      PROVE  /\ lost[d] \subseteq lost'[d]
             /\ Passed(d, e) => e \in lost'[d] \/ \A k \in log' : k.entity = e => k \in log
  BY <1>1 DEF Emitted, Overtaken
<1>2. ASSUME lost' = lost, log' \subseteq log
      PROVE  /\ lost[d] \subseteq lost'[d]
             /\ Passed(d, e) => e \in lost'[d] \/ \A k \in log' : k.entity = e => k \in log
  BY <1>2
<1>3. CASE TableStep
  <2>1. ASSUME NEW f \in Entities, Create(f) PROVE lost'[d] = Overtaken(f)[d] /\ \E l : Emitted(f, l)
    BY <2>1, CreateEmits DEF Create
  <2>2. ASSUME NEW f \in Entities, Write(f) PROVE lost'[d] = Overtaken(f)[d] /\ \E l : Emitted(f, l)
    BY <2>2, WriteEmits DEF Write
  <2>3. ASSUME NEW f \in Entities, NEW newLife, Insert(f) \/ Fix(f, newLife) \/ HardDelete(f)
        PROVE  lost' = lost /\ log' \subseteq log
    BY <2>3 DEF Insert, Fix, HardDelete
  <2> QED
    BY <1>1, <1>2, <1>3, <2>1, <2>2, <2>3 DEF TableStep
<1>4. ASSUME NEW s \in Sweepers, Sweep(s) \/ SweepDies(s)
      PROVE  /\ lost[d] \subseteq lost'[d]
             /\ Passed(d, e) => e \in lost'[d] \/ \A k \in log' : k.entity = e => k \in log
  <2>1. CASE SweepList(s) \/ SweepListVanished(s) \/ SweepDies(s)
    BY <1>2, <2>1 DEF SweepList, SweepListVanished, SweepDies
  <2>2. CASE SweepTombstone(s)
    <3>1. mark[s].entity \in Entities /\ \E l : l.entity = mark[s].entity /\ log' = log \cup {l}
      BY <2>2, SweepTombstones DEF Tombstoned
    <3>2. lost' = Overtaken(mark[s].entity)
      BY <2>2 DEF SweepTombstone
    <3> QED
      BY <3>1, <3>2 DEF Overtaken
  <2>3. ASSUME NEW f \in Entities, SweepReadVersion(s, f) PROVE lost' = lost /\ log' \subseteq log
    BY <2>3 DEF SweepReadVersion
  <2>4. ASSUME NEW f \in Entities, SweepEmit(s, f)
        PROVE  \/ lost'[d] = Overtaken(f)[d] /\ \E l : Emitted(f, l)
               \/ lost' = lost /\ log' \subseteq log
    BY <2>4, SnapshotEmits DEF SweepEmit
  <2> QED
    BY <1>1, <1>2, <1>4, <2>1, <2>2, <2>3, <2>4 DEF Sweep
<1>5. ASSUME NEW c \in Devices, c # d, Pull(c)
      PROVE  /\ lost[d] \subseteq lost'[d]
             /\ Passed(d, e) => e \in lost'[d] \/ \A k \in log' : k.entity = e => k \in log
  <2>1. CASE Reset(c) \/ SnapshotRead(c) \/ SnapshotReply(c) \/ DeltaCheck(c) \/ DeltaReply(c)
    <3>1. log' = log /\ lost'[d] = lost[d]
      BY <1>5, <2>1 DEF Reset, SnapshotRead, SnapshotReply, DeltaCheck, DeltaReply, TypeOK
    <3> QED
      BY <3>1
  <2>2. CASE SnapshotEmit(c)
    <3>1. Min(page[c]) \in Entities
      BY <2>2, SnapshotEmission
    <3>2. ASSUME lost' = [Overtaken(Min(page[c])) EXCEPT ![c] = @ \ {Min(page[c])}]
          PROVE  lost'[d] = Overtaken(Min(page[c]))[d]
      BY <1>5, <3>2 DEF Overtaken
    <3> QED
      BY <1>1, <1>2, <2>2, <3>1, <3>2, SnapshotEmission
  <2> QED
    BY <1>5, <2>1, <2>2 DEF Pull
<1>6. CASE Age \/ Retention \/ UNCHANGED vars \/ \E c \in Devices : LoseReply(c)
  BY <1>2, <1>6 DEF Age, Retention, vars, LoseReply
<1> QED
  BY <1>3, <1>4, <1>5, <1>6 DEF Next

LEMMA NewRows ==
    ASSUME TypeOK, Keys, Versions, Tombstoning, [Next]_vars, NEW l \in log', l \notin log
    PROVE  l.key = lastKey + 1
BY StepKinds DEF Emission, Emitted, Tombstoned, Retention, Quiet

(* A row ahead of a cursor stays ahead of it. *)
LEMMA AheadStays ==
    ASSUME TypeOK, Keys, Versions, Tombstoning, [Next]_vars,
           NEW d \in Devices, NEW e \in Entities, cursor'[d] = cursor[d], Ahead(d, e)
    PROVE  Ahead(d, e)'
<1>1. CASE log \subseteq log' /\ dropped' = dropped
  BY <1>1 DEF Ahead, RowsOf
<1>2. CASE Retention
  <2> DEFINE purged == {l \in log : l.key <= old}
             gone == {[key |-> l.key, entity |-> l.entity] : l \in purged}
  <2>1. log' = log \ purged /\ dropped' = dropped \cup gone
    BY <1>2 DEF Retention
  <2>2. ASSUME NEW l \in log, l.entity = e, l.key > cursor[d] PROVE Ahead(d, e)'
    <3>1. CASE l \in purged
      <4> DEFINE p == [key |-> l.key, entity |-> l.entity]
      <4>1. p \in gone
        BY <3>1
      <4>2. p.entity = e /\ p.key > cursor'[d]
        BY <2>2
      <4> HIDE DEF p, gone
      <4> QED
        BY <2>1, <4>1, <4>2 DEF Ahead
    <3>2. CASE l \notin purged
      BY <2>1, <2>2, <3>2 DEF Ahead, RowsOf
    <3> QED
      BY <3>1, <3>2
  <2>3. ASSUME NEW p \in dropped, p.entity = e, p.key > cursor[d] PROVE Ahead(d, e)'
    BY <2>1, <2>3 DEF Ahead
  <2> QED
    BY <2>2, <2>3 DEF Ahead, RowsOf
<1> QED
  BY <1>1, <1>2, StepKinds DEF Emission, Emitted, Tombstoned, Quiet

(* What is as the log says stays so until the log says something new:      *)
(* every change of the table is a change the sweep sees, or one the log    *)
(* had forgotten.                                                          *)
LEMMA AsLoggedStays ==
    ASSUME TypeOK, Keys, Versions, LogOrdered, Tombstoning, Requests, [Next]_vars,
           NEW e \in Entities, e \notin forgotten', NEW c, AsLogged(e, c),
           \A l \in log' : l.entity = e => l \in log
    PROVE  AsLogged(e, c)'
<1>1. \A l \in RowsOf(e) : l \in log /\ l.entity = e /\ l.key \in Nat /\ l.version \in Nat
                           /\ l.op \in {"UPSERT", "DELETE"}
  BY DEF RowsOf, TypeOK, LogRows, Ops
<1>2. Retention \/ \A l \in RowsOf(e) : l \in log'
  BY StepKinds DEF Emission, Emitted, Tombstoned, Quiet, RowsOf
<1>3. version[e] \in Nat /\ version'[e] \in Nat /\ old \in Nat
  BY TypeStep DEF TypeOK
<1>4. ASSUME NEW l \in RowsOf(e)', IsNewest(l, e)' PROVE IsNewest(l, e)
  <2>1. l \in RowsOf(e)
    BY DEF RowsOf
  <2>2. CASE \A m \in RowsOf(e) : m \in log'
    BY <1>1, <1>4, <2>1, <2>2 DEF IsNewest, RowsOf
  <2>3. CASE Retention
    <3>1. log' = {m \in log : ~(m.key <= old)}
      BY <2>3 DEF Retention
    <3>2. ASSUME NEW m \in RowsOf(e) PROVE m.key <= l.key
      <4>1. CASE m \in log'
        BY <1>1, <1>4, <4>1 DEF IsNewest, RowsOf
      <4>2. CASE m.key <= old
        BY <1>1, <1>3, <2>1, <3>1, <4>2 DEF RowsOf
      <4> QED
        BY <1>1, <3>1, <4>1, <4>2
    <3> QED
      BY <2>1, <3>2 DEF IsNewest
  <2> QED
    BY <1>1, <1>2, <2>2, <2>3
<1>5. ASSUME NEW l \in RowsOf(e)', IsNewest(l, e)'
      PROVE  IF l.op = "DELETE" THEN c = NoCopy
             ELSE \/ c.version = l.version
                  \/ c = NoCopy /\ (l.version = version'[e] => life'[e] # "active")
  <2>1. IsNewest(l, e) /\ l \in RowsOf(e)
    BY <1>4, <1>5 DEF RowsOf
  <2>2. IF l.op = "DELETE" THEN c = NoCopy
        ELSE \/ c.version = l.version
             \/ c = NoCopy /\ (l.version = version[e] => life[e] # "active")
    BY <2>1 DEF AsLogged
  <2>3. l.op = "UPSERT" => l.version <= version[e]
    BY <1>1, <2>1 DEF Versions, Stamped
  <2>4. \/ life'[e] = life[e] /\ version'[e] = version[e]
        \/ version'[e] > version[e]
        \/ life'[e] = "gone"
    BY RowMoves
  <2> QED
    BY <1>1, <1>3, <2>1, <2>2, <2>3, <2>4
<1>6. ASSUME RowsOf(e)' = {}, ~(life'[e] \in {"active", "inactive"}) PROVE c = NoCopy
  <2>1. ASSUME RowsOf(e) = {}, ~Live(e) PROVE c = NoCopy
    BY <2>1 DEF AsLogged
  <2>2. CASE RowsOf(e) = {}
    <3>1. ~HardDelete(e)
      BY <2>2 DEF HardDelete
    <3>2. ~Live(e)
      BY <1>6, <3>1, RowMoves DEF Live
    <3> QED
      BY <2>1, <2>2, <3>2
  <2>3. CASE RowsOf(e) # {}
    <3> DEFINE n == Newest(RowsOf(e))
    <3>1. n \in RowsOf(e) /\ IsNewest(n, e)
      BY <2>3, NewestRow DEF IsNewest
    <3>2. Retention
      BY <1>1, <1>2, <1>6, <3>1 DEF RowsOf
    <3>3. /\ life' = life /\ log' = {l \in log : ~(l.key <= old)}
          /\ forgotten' = forgotten \cup {f \in Vanished : RowsOf(f) \subseteq {l \in log : l.key <= old}}
      BY <3>2 DEF Retention, tableVars
    <3>4. RowsOf(e) \subseteq {l \in log : l.key <= old}
      BY <1>6, <3>3 DEF RowsOf
    <3>5. e \notin Vanished
      BY <3>3, <3>4
    <3>6. n.op = "DELETE"
      BY <1>6, <2>3, <3>3, <3>5 DEF Vanished, Live
    <3> QED
      BY <3>1, <3>6 DEF AsLogged
  <2> QED
    BY <2>2, <2>3
<1> QED
  BY <1>5, <1>6 DEF AsLogged, Live

(* With no page in hand a device sees its copy. *)
LEMMA SeesCopy ==
    ASSUME NEW d \in Devices, NEW e \in Entities
    PROVE  /\ (\A g \in got[d] : g.entity # e) => Sees(d, e) = copy[d][e]
           /\ got'[d] = {} => Sees(d, e)' = copy'[d][e]
<1>1. ASSUME \A g \in got[d] : g.entity # e PROVE Sees(d, e) = copy[d][e]
  <2>1. {l \in got[d] : l.entity = e /\ l.version > copy[d][e].version} = {}
    BY <1>1
  <2> QED
    BY <2>1 DEF Sees, Applied
<1>2. ASSUME got'[d] = {} PROVE Sees(d, e)' = copy'[d][e]
  <2>1. {l \in got'[d] : l.entity = e /\ l.version > copy'[d][e].version} = {}
    BY <1>2
  <2> QED
    BY <2>1 DEF Sees, Applied
<1> QED
  BY <1>1, <1>2

(* And it sees the same as long as its copy and what it got of the entity  *)
(* do not change.                                                          *)
LEMMA SeesSame ==
    ASSUME NEW d \in Devices, NEW e \in Entities, copy'[d] = copy[d],
           \A g : g.entity = e => (g \in got'[d] <=> g \in got[d])
    PROVE  Sees(d, e)' = Sees(d, e)
<1>1. {l \in got'[d] : l.entity = e /\ l.version > copy'[d][e].version}
        = {l \in got[d] : l.entity = e /\ l.version > copy[d][e].version}
  OBVIOUS
<1> QED
  BY <1>1 DEF Sees, Applied

(* What was delivered and is not ahead is as the log says. *)
LEMMA DeliveredBefore ==
    ASSUME Delivered, NEW d \in Devices, NEW e \in Entities, e \notin lost[d], e \notin forgotten,
           cursor[d] > 0 \/ Passed(d, e), ~(cursor[d] > 0 /\ Ahead(d, e))
    PROVE  AsLogged(e, Sees(d, e))
BY DEF Delivered

(* Everyone else: a new row of the entity is ahead of the device, or has   *)
(* overtaken its snapshot.                                                 *)
LEMMA OthersDeliver ==
    ASSUME TypeOK, Keys, Versions, LogOrdered, Tombstoning, Requests, Delivered, [Next]_vars,
           NEW d \in Devices, Waits(d), ~Pull(d),
           NEW e \in Entities, e \notin lost'[d], e \notin forgotten',
           cursor'[d] > 0 \/ Passed(d, e)', ~(cursor'[d] > 0 /\ Ahead(d, e)'),
           NEW c, c = Sees(d, e)'
    PROVE  AsLogged(e, c)'
<1>1. cursor'[d] = cursor[d] /\ (Passed(d, e)' <=> Passed(d, e))
  BY DEF Waits, Passed
<1>2. ASSUME NEW l \in log', l.entity = e, l \notin log PROVE FALSE
  <2>1. l.key = lastKey + 1 /\ lastKey \in Nat /\ cursor[d] <= lastKey /\ cursor[d] \in Nat
    BY <1>2, NewRows DEF Keys, TypeOK
  <2>2. l.key > cursor'[d]
    BY <1>1, <2>1
  <2>3. Ahead(d, e)'
    BY <1>2, <2>2 DEF Ahead, RowsOf
  <2>4. Passed(d, e)
    BY <1>1, <2>3
  <2> QED
    BY <1>2, <2>4, OthersOvertake
<1>3. e \notin lost[d] /\ e \notin forgotten
  BY OthersOvertake, ForgottenGrows
<1>4. ~(cursor[d] > 0 /\ Ahead(d, e))
  BY <1>1, AheadStays
<1>5. c = Sees(d, e)
  BY SeesSame DEF Waits
<1>6. AsLogged(e, c)
  BY <1>1, <1>3, <1>4, <1>5, DeliveredBefore
<1> QED
  BY <1>2, <1>3, <1>6, AsLoggedStays

(* The snapshot comes past rows that are not active, and the device has    *)
(* nothing of them.                                                        *)
LEMMA SnapshotReadDelivers ==
    ASSUME TypeOK, Keys, Versions, LogOrdered, Tombstoning, Requests, Delivered, [Next]_vars,
           NEW d \in Devices, SnapshotRead(d),
           NEW e \in Entities, e \notin lost'[d], e \notin forgotten', Passed(d, e)',
           NEW c, c = Sees(d, e)'
    PROVE  AsLogged(e, c)'
<1>1. /\ pc[d] = "idle" /\ cursor[d] = 0 /\ pc'[d] = "snapshot"
      /\ UNCHANGED <<got, cursor, after, copy, life, version, log>>
      /\ \A f \in Rest(d) : f <= upto'[d] => f \in page'[d]
      /\ lost'[d] = Kept(d) \cup (IF after[d] = 0 THEN {} ELSE lost[d])
  BY SnapshotPage DEF tableVars, logVars
<1>2. e <= upto'[d] /\ e \notin page'[d]
  BY <1>1 DEF Passed
<1>3. page[d] = {} /\ got[d] = {} /\ got'[d] = {}
  BY <1>1 DEF Requests
<1>4. c = copy[d][e] /\ Sees(d, e) = copy[d][e]
  BY <1>1, <1>3, SeesCopy
<1>5. after[d] \in Nat /\ e \in Nat /\ e > 0
  BY PullAssumption DEF TypeOK, Entities, PullAssumption
<1>6. CASE e <= after[d]
  <2>1. Passed(d, e) /\ e \notin lost[d]
    BY <1>1, <1>3, <1>5, <1>6 DEF Passed
  <2>2. AsLogged(e, c)
    BY <1>1, <1>4, <2>1, DeliveredBefore, ForgottenGrows
  <2> QED
    BY <1>1, <2>2, AsLoggedStays
<1>7. CASE e > after[d]
  <2>1. c = NoCopy
    BY <1>1, <1>4, <1>7 DEF Kept
  <2>2. life[e] # "active"
    BY <1>1, <1>2, <1>7 DEF Rest
  <2>3. AsLogged(e, c)
    BY <2>1, <2>2 DEF AsLogged
  <2> QED
    BY <1>1, <2>3, AsLoggedStays
<1> QED
  BY <1>5, <1>6, <1>7

(* An answer that never comes, or fails, leaves the device where it was. *)
LEMMA LossDelivers ==
    ASSUME TypeOK, Keys, Versions, LogOrdered, Tombstoning, Requests, Delivered, [Next]_vars,
           NEW d \in Devices, Answered(d), UNCHANGED <<log, cursor, after, copy, lost>>,
           NEW e \in Entities, e \notin lost'[d], e \notin forgotten',
           cursor'[d] > 0 \/ Passed(d, e)', ~(cursor'[d] > 0 /\ Ahead(d, e)'),
           NEW c, c = Sees(d, e)'
    PROVE  AsLogged(e, c)'
<1>1. pc'[d] = "idle" /\ got'[d] = {} /\ page'[d] = {}
  BY DEF Answered, TypeOK
<1>2. c = copy[d][e]
  BY <1>1, SeesCopy
<1>3. cursor[d] = 0 => e <= after[d]
  BY <1>1 DEF Passed, TypeOK
<1>4. after[d] \in Nat /\ upto[d] \in Nat /\ e \in Nat /\ cursor[d] \in Nat
      /\ \A g \in got[d] : g.entity \in Nat
  BY DEF TypeOK, Entities, LogRows
<1>5. cursor[d] > 0 \/ Passed(d, e)
  <2>1. ASSUME cursor[d] = 0 PROVE Passed(d, e)
    <3>1. CASE pc[d] = "snapshot"
      BY <1>3, <1>4, <2>1, <3>1 DEF Passed, Requests
    <3>2. CASE pc[d] # "snapshot"
      BY <1>3, <1>4, <2>1, <3>2 DEF Passed, Requests
    <3> QED
      BY <3>1, <3>2
  <2> QED
    BY <1>4, <2>1
<1>6. \A g \in got[d] : g.entity # e
  <2>1. CASE pc[d] = "snapshot"
    BY <1>3, <1>4, <2>1 DEF Requests
  <2>2. CASE pc[d] # "snapshot"
    BY <2>2 DEF Requests
  <2> QED
    BY <2>1, <2>2
<1>7. ~(cursor[d] > 0 /\ Ahead(d, e))
  BY AheadStays
<1>8. AsLogged(e, c)
  BY <1>2, <1>5, <1>6, <1>7, SeesCopy, DeliveredBefore, ForgottenGrows
<1> QED
  BY <1>8, AsLoggedStays

(* A row of a snapshot page that is emitted is the last of its entity, and *)
(* newer than the copy.                                                    *)
LEMMA SnapshotEmitDelivers ==
    ASSUME TypeOK, Keys, Versions, LogOrdered, Tombstoning, Requests, Delivered, [Next]_vars,
           NEW d \in Devices, SnapshotEmit(d),
           NEW e \in Entities, e \notin lost'[d], e \notin forgotten',
           cursor'[d] > 0 \/ Passed(d, e)', ~(cursor'[d] > 0 /\ Ahead(d, e)'),
           NEW c, c = Sees(d, e)'
    PROVE  AsLogged(e, c)'
<1> DEFINE f == Min(page[d])
<1>1. /\ pc[d] = "snapshot" /\ f \in page[d] /\ f \in Entities
      /\ UNCHANGED <<cursor, after, copy, life, rev, forgotten, dropped>>
      /\ \/ \E l \in LogRows :
                /\ Emitted(f, l) /\ l \notin log
                /\ page' = [page EXCEPT ![d] = @ \ {f}]
                /\ got' = [got EXCEPT ![d] = @ \cup {l}]
                /\ lost' = [Overtaken(f) EXCEPT ![d] = @ \ {f}]
                /\ UNCHANGED <<pc, upto>>
         \/ Answered(d) /\ UNCHANGED <<version, logVars, lost>>
  BY SnapshotEmission
<1> HIDE DEF f
<1>2. CASE Answered(d) /\ UNCHANGED <<version, logVars, lost>>
  BY <1>1, <1>2, LossDelivers DEF logVars
<1>3. ASSUME NEW l \in LogRows,
             Emitted(f, l), l \notin log,
             page' = [page EXCEPT ![d] = @ \ {f}],
             got' = [got EXCEPT ![d] = @ \cup {l}],
             lost' = [Overtaken(f) EXCEPT ![d] = @ \ {f}],
             UNCHANGED <<pc, upto>>
      PROVE  AsLogged(e, c)'
  <2>1. /\ l.entity = f /\ l.op = "UPSERT" /\ l.key = lastKey + 1 /\ l.version = version'[f]
        /\ version'[f] > version[f] /\ log' = log \cup {l}
    BY <1>3 DEF Emitted
  <2>2. cursor[d] = 0 /\ got'[d] = got[d] \cup {l} /\ page'[d] = page[d] \ {f}
    BY <1>1, <1>3 DEF Requests, TypeOK
  <2>3. CASE e # f
    <3>1. Passed(d, e)
      BY <1>1, <1>3, <2>2, <2>3 DEF Passed
    <3>2. lost[d] \subseteq lost'[d] \cup {f}
      BY <1>3 DEF Overtaken, TypeOK
    <3>3. c = Sees(d, e)
      BY <1>1, <2>1, <2>2, <2>3, SeesSame
    <3>4. AsLogged(e, c)
      BY <1>1, <2>2, <2>3, <3>1, <3>2, <3>3, DeliveredBefore
    <3>5. \A k \in log' : k.entity = e => k \in log
      BY <2>1, <2>3
    <3> QED
      BY <3>4, <3>5, AsLoggedStays
  <2>4. CASE e = f
    <3>1. ASSUME NEW g \in got[d] PROVE g \in LogRows /\ g.key <= lastKey /\ g.key \in Nat
      BY DEF TypeOK, Keys, LogRows
    <3>2. lastKey \in Nat /\ copy[d][e].version \in Nat /\ copy[d][e].version <= version[e]
          /\ version[e] \in Nat /\ l.version \in Nat /\ l.rev \in Nat
      BY DEF TypeOK, Versions, Stamped, LogRows
    <3> DEFINE mine == {g \in got'[d] : g.entity = e /\ g.version > copy'[d][e].version}
    <3>3. l \in mine
      BY <1>1, <2>1, <2>2, <2>4, <3>2
    <3>4. \A g \in mine : g = l \/ g.key < l.key
      BY <2>1, <2>2, <3>1, <3>2
    <3>5. Newest(mine) = l
      <4>1. mine \in SUBSET LogRows
        BY <2>2, <3>1
      <4> HIDE DEF mine
      <4> QED
        BY <3>3, <3>4, <4>1, NewestIs
    <3>6. Sees(d, e)' = [version |-> l.version, rev |-> l.rev]
      BY <2>1, <3>3, <3>5 DEF Sees, Applied
    <3>7. c.version = l.version
      BY <3>6
    <3>8. ASSUME NEW k \in RowsOf(e)', IsNewest(k, e)' PROVE k = l
      <4>1. l \in RowsOf(e)' /\ l.key <= k.key
        BY <2>1, <2>4, <3>8 DEF IsNewest, RowsOf
      <4>2. k \in log => k.key <= lastKey /\ k.key \in Nat
        BY DEF Keys, TypeOK, LogRows
      <4> QED
        BY <2>1, <3>2, <4>1, <4>2 DEF RowsOf
    <3>9. RowsOf(e)' # {}
      BY <2>1, <2>4 DEF RowsOf
    <3> QED
      BY <2>1, <3>7, <3>8, <3>9 DEF AsLogged
  <2> QED
    BY <2>3, <2>4
<1> QED
  BY <1>1, <1>2, <1>3

(* The device applies a page of the snapshot: what it saw becomes its copy. *)
LEMMA SnapshotReplyDelivers ==
    ASSUME TypeOK, Keys, Versions, LogOrdered, Tombstoning, Requests, Delivered, [Next]_vars,
           NEW d \in Devices, SnapshotReply(d),
           NEW e \in Entities, e \notin lost'[d], e \notin forgotten',
           cursor'[d] > 0 \/ Passed(d, e)',
           NEW c, c = Sees(d, e)'
    PROVE  AsLogged(e, c)'
<1>1. /\ pc[d] = "snapshot" /\ page[d] = {} /\ cursor[d] = 0
      /\ copy'[d] = Applied(d, got[d]) /\ got'[d] = {} /\ page'[d] = {} /\ pc'[d] = "idle"
      /\ UNCHANGED <<log, lost, forgotten>>
      /\ upto[d] < NumEntities => after'[d] = upto[d] /\ cursor'[d] = cursor[d]
      /\ ~(upto[d] < NumEntities) => after'[d] = 0
  BY DEF SnapshotReply, Answered, TypeOK, Requests, logVars, historyVars
<1>2. c = Sees(d, e)
  BY <1>1, SeesCopy DEF Sees
<1>3. e \in Nat /\ e > 0 /\ e <= NumEntities /\ NumEntities \in Nat /\ upto[d] \in 0..NumEntities
  BY PullAssumption DEF Entities, TypeOK, PullAssumption
<1>4. e <= upto[d]
  <2>1. CASE upto[d] < NumEntities
    BY <1>1, <2>1 DEF Passed
  <2>2. CASE ~(upto[d] < NumEntities)
    BY <1>3, <2>2
  <2> QED
    BY <2>1, <2>2
<1>5. Passed(d, e)
  BY <1>1, <1>4 DEF Passed
<1>6. AsLogged(e, c)
  BY <1>1, <1>2, <1>5, DeliveredBefore
<1> QED
  BY <1>1, <1>6, AsLoggedStays

(* A copy the last log row is not newer than has the version of that row.  *)
LEMMA CopyHasNewest ==
    ASSUME TypeOK, Keys, LogOrdered, Covered, NEW d \in Devices, NEW e \in Entities, e \notin forgotten,
           NEW n \in RowsOf(e), \A m \in RowsOf(e) : m.key <= n.key, n.version <= copy[d][e].version
    PROVE  n.op = "UPSERT" /\ n.version = copy[d][e].version
<1>1. \A l \in RowsOf(e) : l \in log /\ l.entity = e /\ l.key \in Nat /\ l.version \in Nat
                           /\ l.op \in {"UPSERT", "DELETE"}
  BY DEF TypeOK, LogRows, Ops, RowsOf
<1>2. copy[d][e].version \in Out(e) /\ copy[d][e].version \in Nat
  BY DEF Out, TypeOK
<1>3. n.op = "UPSERT"
  BY <1>1, <1>2 DEF Covered
<1>4. PICK k \in RowsOf(e) : copy[d][e].version <= k.version
  BY <1>2 DEF Covered
<1>5. CASE k = n
  BY <1>1, <1>2, <1>3, <1>4, <1>5
<1>6. CASE k # n
  <2>1. k.key < n.key
    BY <1>1, <1>6 DEF Keys
  <2>2. k.version < n.version
    BY <1>1, <1>3, <2>1 DEF LogOrdered
  <2> QED
    BY <1>1, <1>2, <1>4, <2>2
<1> QED
  BY <1>5, <1>6

(* A page of the log: it ends before or after the last row of the entity;  *)
(* if after, that row decides unless the copy already has its version.     *)
LEMMA DeltaReplyDelivers ==
    ASSUME TypeOK, Keys, Versions, LogOrdered, Covered, Tombstoning, Requests, Delivered, [Next]_vars,
           NEW d \in Devices, DeltaReply(d),
           NEW e \in Entities, e \notin lost'[d], e \notin forgotten', ~Ahead(d, e)',
           NEW c, c = Sees(d, e)'
    PROVE  AsLogged(e, c)'
<1> DEFINE D == DeltaRows(d)
           mine == {l \in D : l.entity = e /\ l.version > copy[d][e].version}
<1>1. /\ pc[d] = "delta" /\ got'[d] = {} /\ copy'[d] = Applied(d, D)
      /\ cursor'[d] = IF D = {} THEN cursor[d] ELSE Newest(D).key
      /\ lost'[d] = IF D = {} THEN lost[d] ELSE (lost[d] \cup Skipped(d)) \ Taken(d)
      /\ UNCHANGED <<log, dropped, forgotten>>
  BY DEF DeltaReply, Answered, TypeOK, logVars
<1>2. cursor[d] > 0 /\ got[d] = {}
  BY <1>1 DEF Requests
<1>3. c = Applied(d, D)[e] /\ Sees(d, e) = copy[d][e]
  BY <1>1, <1>2, SeesCopy
<1>4. /\ D \in SUBSET log /\ D \in SUBSET LogRows /\ IsFiniteSet(D)
      /\ \A l \in D : l.key > cursor[d]
      /\ \A l \in D, m \in log : cursor[d] < m.key /\ m.key <= l.key => m \in D
  BY DeltaIsPrefix DEF TypeOK
<1>5. /\ mine = {} => c = copy[d][e]
      /\ mine # {} => \E n \in mine :
             /\ \A m \in mine : m.key <= n.key
             /\ c = IF n.op = "DELETE" THEN NoCopy ELSE [version |-> n.version, rev |-> n.rev]
  BY <1>3, <1>4, AppliedRows
<1>6. \A l \in log : l.key \in Nat /\ l.version \in Nat /\ l.rev \in Nat /\ l.op \in {"UPSERT", "DELETE"}
  BY DEF TypeOK, LogRows, Ops
<1>7. D # {} => Newest(D) \in D
  BY <1>4, NewestOf
<1>8. cursor[d] \in Nat /\ copy[d][e].version \in Nat
  BY DEF TypeOK
<1>9. e \in Taken(d) <=> mine # {}
  BY <1>4 DEF Taken
<1>10. e \notin forgotten /\ copy[d][e].version \in Out(e)
  BY <1>1 DEF Out
<1>11. \A l \in RowsOf(e) : l.op = "DELETE" => copy[d][e].version < l.version
  BY <1>10 DEF Covered
<1> HIDE DEF D
(* No row of the entity is ahead of the new cursor. *)
<1>12. ASSUME NEW l \in RowsOf(e) PROVE ~(l.key > cursor'[d])
  BY <1>1 DEF Ahead, RowsOf
<1>13. ASSUME NEW l \in RowsOf(e), l.key > cursor[d] PROVE D # {} /\ l \in D
  <2>1. l \in log /\ ~(l.key > cursor'[d])
    BY <1>12 DEF RowsOf
  <2>2. D # {}
    BY <1>1, <1>13, <2>1
  <2>3. l.key <= Newest(D).key /\ Newest(D) \in D
    BY <1>1, <1>4, <1>6, <1>7, <2>1, <2>2
  <2> QED
    BY <1>4, <1>13, <2>1, <2>2, <2>3
<1>14. CASE mine = {}
  <2>1. c = copy[d][e]
    BY <1>5, <1>14
  <2>2. CASE Ahead(d, e)
    <3>1. PICK l \in RowsOf(e) : l.key > cursor[d]
      <4>1. ASSUME NEW p \in dropped, p.entity = e, p.key > cursor[d] PROVE FALSE
        <5>1. e \in Skipped(d)
          BY <4>1 DEF Skipped
        <5>2. D # {}
          <6>1. CASE D = {}
            <7>1. cursor'[d] = cursor[d]
              BY <1>1, <6>1
            <7>2. Ahead(d, e)'
              BY <1>1, <4>1, <7>1 DEF Ahead
            <7> QED
              BY <7>2
          <6> QED
            BY <6>1
        <5> QED
          BY <1>1, <1>9, <1>14, <5>1, <5>2
      <4> QED
        BY <2>2, <4>1 DEF Ahead
    <3> DEFINE n == Newest(RowsOf(e))
    <3>2. n \in RowsOf(e) /\ \A m \in RowsOf(e) : m.key <= n.key
      BY NewestRow
    <3> HIDE DEF n
    <3>3. n \in D /\ n \in log /\ n.entity = e
      <4>1. n \in log /\ l \in log /\ n.entity = e /\ l.key <= n.key
        BY <3>2 DEF RowsOf
      <4>2. n.key > cursor[d]
        BY <1>6, <1>8, <3>1, <4>1
      <4> QED
        BY <1>13, <3>2, <4>1, <4>2
    <3>4. n.version <= copy[d][e].version
      BY <1>6, <1>8, <1>14, <3>3
    <3>5. n.op = "UPSERT" /\ n.version = copy[d][e].version
      BY <1>10, <3>2, <3>4, CopyHasNewest
    <3>8. \A m \in RowsOf(e) : IsNewest(m, e) => m = n
      <4>1. ASSUME NEW m \in RowsOf(e), IsNewest(m, e) PROVE m = n
        <5>1. m \in log /\ m.key <= n.key /\ n.key <= m.key
          BY <3>2, <4>1 DEF IsNewest, RowsOf
        <5> QED
          BY <1>6, <3>3, <5>1 DEF Keys
      <4> QED
        BY <4>1
    <3>9. AsLogged(e, c)
      BY <2>1, <3>2, <3>5, <3>8 DEF AsLogged
    <3> QED
      BY <1>1, <3>9, AsLoggedStays
  <2>3. CASE ~Ahead(d, e)
    <3>1. e \notin lost[d]
      BY <1>1, <1>9, <1>14
    <3>2. AsLogged(e, c)
      BY <1>2, <1>3, <1>10, <2>1, <2>3, <3>1, DeliveredBefore
    <3> QED
      BY <1>1, <3>2, AsLoggedStays
  <2> QED
    BY <2>2, <2>3
<1>15. CASE mine # {}
  <2>1. PICK n \in mine :
            /\ \A m \in mine : m.key <= n.key
            /\ c = IF n.op = "DELETE" THEN NoCopy ELSE [version |-> n.version, rev |-> n.rev]
    BY <1>5, <1>15
  <2>2. n \in D /\ n \in log /\ n.entity = e /\ n.version > copy[d][e].version /\ n.key > cursor[d]
    BY <1>4, <2>1
  <2>3. ASSUME NEW m \in RowsOf(e), IsNewest(m, e) PROVE m = n
    <3>1. m \in log /\ m.entity = e /\ n.key <= m.key
      BY <2>2, <2>3 DEF IsNewest, RowsOf
    <3>2. m \in D
      BY <1>6, <1>8, <1>13, <2>2, <3>1
    <3>3. ASSUME m # n PROVE FALSE
      <4>1. n.key # m.key
        BY <2>2, <3>1, <3>3 DEF Keys
      <4>2. n.key < m.key
        BY <1>6, <2>2, <3>1, <4>1
      <4>3. IF n.op = "DELETE" THEN m.op = "DELETE" ELSE n.version < m.version
        BY <2>2, <3>1, <4>2 DEF LogOrdered
      <4>4. m.version > copy[d][e].version
        BY <1>6, <1>8, <1>11, <2>2, <3>1, <4>3
      <4>5. m \in mine
        BY <3>1, <3>2, <4>4
      <4>6. m.key <= n.key
        BY <2>1, <4>5
      <4> QED
        BY <1>6, <2>2, <3>1, <4>2, <4>6
    <3> QED
      BY <3>3
  <2>4. RowsOf(e) # {}
    BY <2>2 DEF RowsOf
  <2>5. IF n.op = "DELETE" THEN c = NoCopy ELSE c.version = n.version
    BY <2>1
  <2>6. AsLogged(e, c)
    BY <2>3, <2>4, <2>5 DEF AsLogged
  <2> QED
    BY <1>1, <2>6, AsLoggedStays
<1> QED
  BY <1>14, <1>15

LEMMA DeliveredStep ==
    /\ TypeOK /\ Keys /\ Versions /\ LogOrdered /\ Covered /\ Tombstoning /\ Requests /\ Delivered
    /\ [Next]_vars
    => Delivered'
<1> SUFFICES ASSUME TypeOK, Keys, Versions, LogOrdered, Covered, Tombstoning, Requests, Delivered,
                    [Next]_vars,
                    NEW d \in Devices, NEW e \in Entities, e \notin lost'[d], e \notin forgotten',
                    cursor'[d] > 0 \/ Passed(d, e)', ~(cursor'[d] > 0 /\ Ahead(d, e)'),
                    NEW c, c = Sees(d, e)'
             PROVE  AsLogged(e, c)'
  BY DEF Delivered, AsLogged, IsNewest, RowsOf, Live
<1>1. CASE Waits(d) /\ ~Pull(d)
  BY <1>1, OthersDeliver
<1>2. CASE Reset(d)
  <2>1. cursor'[d] = 0 /\ after'[d] = 0 /\ pc'[d] = "idle"
    BY <1>2 DEF Reset, requestVars, TypeOK
  <2>2. ~(e <= 0)
    BY DEF Entities
  <2> QED
    BY <2>1, <2>2 DEF Passed
<1>3. CASE SnapshotRead(d)
  <2>1. cursor'[d] = 0
    BY <1>3, SnapshotPage
  <2> QED
    BY <1>3, <2>1, SnapshotReadDelivers
<1>4. CASE SnapshotEmit(d)
  BY <1>4, SnapshotEmitDelivers
<1>5. CASE SnapshotReply(d)
  BY <1>5, SnapshotReplyDelivers
<1>6. CASE DeltaCheck(d)
  <2>1. /\ got[d] = {} /\ got'[d] = {} /\ cursor[d] > 0 /\ UNCHANGED <<cursor[d], copy[d]>>
        /\ UNCHANGED <<log, lost>>
    BY <1>6 DEF DeltaCheck, Requests, deviceVars, logVars, historyVars
  <2>2. c = Sees(d, e)
    BY <2>1, SeesCopy
  <2>3. ~(cursor[d] > 0 /\ Ahead(d, e))
    BY <2>1, AheadStays
  <2>4. AsLogged(e, c)
    BY <2>1, <2>2, <2>3, DeliveredBefore, ForgottenGrows
  <2> QED
    BY <2>1, <2>4, AsLoggedStays
<1>7. CASE DeltaReply(d)
  <2>1. cursor'[d] > 0
    <3>1. cursor[d] > 0 /\ cursor[d] \in Nat
      BY <1>7 DEF DeltaReply, Requests, TypeOK
    <3>2. DeltaRows(d) \in SUBSET LogRows /\ IsFiniteSet(DeltaRows(d))
          /\ \A l \in DeltaRows(d) : l.key > cursor[d]
      BY DeltaIsPrefix DEF TypeOK
    <3>3. DeltaRows(d) # {} => Newest(DeltaRows(d)) \in DeltaRows(d)
      BY <3>2, NewestOf
    <3>4. cursor'[d] = IF DeltaRows(d) = {} THEN cursor[d] ELSE Newest(DeltaRows(d)).key
      BY <1>7 DEF DeltaReply, TypeOK
    <3> QED
      BY <3>1, <3>2, <3>3, <3>4 DEF LogRows
  <2> QED
    BY <1>7, <2>1, DeltaReplyDelivers
<1>8. CASE LoseReply(d)
  <2>1. Answered(d) /\ UNCHANGED <<log, cursor, after, copy, lost>>
    BY <1>8 DEF LoseReply, logVars, deviceVars, historyVars
  <2> QED
    BY <2>1, LossDelivers
<1> QED
  BY <1>1, <1>2, <1>3, <1>4, <1>5, <1>6, <1>7, <1>8, OthersWait DEF Pull

-----------------------------------------------------------------------------
(* The invariants *)

LEMMA InitialInv == Init => IndInv
<1> SUFFICES ASSUME Init PROVE IndInv
  OBVIOUS
<1>1. PICK n \in 0..NumEntities :
          /\ life = [e \in Entities |-> IF e <= n THEN "active" ELSE "unborn"]
          /\ rev = [e \in Entities |-> IF e <= n THEN 1 ELSE 0]
          /\ version = rev
  BY DEF Init
<1>2. /\ log = {} /\ lastKey = 0 /\ old = 0 /\ dropped = {} /\ forgotten = {}
      /\ phase = [s \in Sweepers |-> "idle"] /\ todo = [s \in Sweepers |-> {}]
      /\ mark = [s \in Sweepers |-> NoMark]
      /\ pc = [d \in Devices |-> "idle"] /\ page = [d \in Devices |-> {}]
      /\ upto = [d \in Devices |-> 0] /\ got = [d \in Devices |-> {}]
      /\ cursor = [d \in Devices |-> 0] /\ after = [d \in Devices |-> 0]
      /\ copy = [d \in Devices |-> [e \in Entities |-> NoCopy]]
      /\ lost = [d \in Devices |-> {}] /\ writes = 0 /\ purges = 0 /\ faults = 0
  BY DEF Init
<1>3. TypeOK
  <2>1. NoCopy \in [version : Nat, rev : Nat] /\ NoMark \in [entity : 0..NumEntities, version : Nat]
        /\ 0 \in 0..NumEntities
    BY PullAssumption DEF NoCopy, NoMark, PullAssumption
  <2>2. /\ life \in [Entities -> {"unborn", "active", "inactive", "gone"}]
        /\ rev \in [Entities -> Nat] /\ version \in [Entities -> Nat]
    BY <1>1
  <2> QED
    BY <1>2, <2>1, <2>2, PullAssumption DEF TypeOK, PullAssumption
<1>4. Keys
  BY <1>2, FS_EmptySet DEF Keys
<1>5. Versions
  <2>1. ASSUME NEW e \in Entities
        PROVE  /\ IF life[e] = "unborn" THEN version[e] = 0 /\ rev[e] = 0 ELSE version[e] > 0
               /\ version[e] = rev[e] /\ version[e] \in Nat
    BY <1>1
  <2>2. \A d \in Devices, e \in Entities : copy[d][e].version = 0 /\ copy[d][e].rev = 0
    BY <1>2 DEF NoCopy
  <2> QED
    BY <1>2, <2>1, <2>2 DEF Versions, Stamped
<1>6. LogOrdered
  BY <1>2 DEF LogOrdered
<1>7. Covered
  BY <1>2 DEF Covered, RowsOf
<1>8. Tombstoning
  BY <1>2 DEF Tombstoning
<1>9. Requests
  BY <1>2 DEF Requests
<1>10. Delivered
  BY <1>2 DEF Delivered, Passed, Entities
<1> QED
  BY <1>3, <1>4, <1>5, <1>6, <1>7, <1>8, <1>9, <1>10 DEF IndInv

LEMMA InvStep == IndInv /\ [Next]_vars => IndInv'
  BY TypeStep, KeysStep, VersionsStep, OrderStep, CoveredStep, TombstoningStep, RequestsStep,
     DeliveredStep DEF IndInv

(* The last log row of an entity that is there and awaits no sweep has its *)
(* version.                                                                *)
LEMMA LoggedVersion ==
    ASSUME TypeOK, Keys, Versions, LogOrdered, NEW e \in Entities, ~AwaitsSweep(e),
           NEW n \in RowsOf(e), n = Newest(RowsOf(e)), \A m \in RowsOf(e) : m.key <= n.key
    PROVE  \/ n.op = "DELETE" /\ life[e] = "gone"
           \/ n.op = "UPSERT" /\ Live(e) /\ n.version = version[e]
<1>1. \A l \in RowsOf(e) : l \in log /\ l.entity = e /\ l.key \in Nat /\ l.version \in Nat
                           /\ l.op \in {"UPSERT", "DELETE"}
  BY DEF TypeOK, LogRows, Ops, RowsOf
<1>2. CASE n.op = "DELETE"
  BY <1>1, <1>2 DEF Versions
<1>3. CASE n.op = "UPSERT"
  <2>1. Live(e)
    BY <1>3 DEF AwaitsSweep, Vanished
  <2>2. PICK l \in RowsOf(e) : l.version = version[e]
    BY <2>1 DEF AwaitsSweep, Missing
  <2>3. n.version <= version[e]
    BY <1>1, <1>3 DEF Versions, Stamped
  <2>4. l.op = "UPSERT"
    BY <1>1, <2>1 DEF Versions, Live
  <2>5. ASSUME l # n PROVE FALSE
    <3>1. l.key < n.key
      BY <1>1, <2>5 DEF Keys
    <3>2. l.version < n.version
      BY <1>1, <2>4, <3>1 DEF LogOrdered
    <3> QED
      BY <1>1, <2>2, <2>3, <3>2
  <2> QED
    BY <1>3, <2>1, <2>2, <2>5
<1> QED
  BY <1>1, <1>2, <1>3

LEMMA InvMissesNothing == IndInv => NothingMissed
<1> SUFFICES ASSUME TypeOK, Keys, Versions, LogOrdered, Covered, Requests, Delivered,
                    NEW d \in Devices, cursor[d] > 0,
                    NEW e \in Entities, e \notin lost[d], e \notin forgotten,
                    ~AwaitsSweep(e), ~Stale(d), log # {}, ~Pending(d, e)
             PROVE  Current(d, e)
  BY DEF IndInv, NothingMissed
<1> DEFINE n == Newest(RowsOf(e))
           c == copy[d][e]
<1>1. ASSUME RowsOf(e) # {}
      PROVE  /\ n \in RowsOf(e) /\ \A m \in RowsOf(e) : m.key <= n.key
             /\ \/ n.op = "DELETE" /\ life[e] = "gone"
                \/ n.op = "UPSERT" /\ Live(e) /\ n.version = version[e]
  <2>1. n \in RowsOf(e) /\ \A m \in RowsOf(e) : m.key <= n.key
    BY <1>1, NewestRow
  <2> QED
    BY <2>1, LoggedVersion
<1>2. \A l \in RowsOf(e) : l \in log /\ l.key \in Nat /\ l.version \in Nat
  BY DEF TypeOK, LogRows, RowsOf
<1>3. c.version \in Nat /\ c.rev \in Nat /\ version[e] \in Nat /\ cursor[d] \in Nat /\ c.version <= version[e]
      /\ (c.version = version[e] => c.rev = rev[e])
  BY DEF TypeOK, Versions, Stamped
<1>4. Sees(d, e) = c
  BY SeesCopy DEF Requests
<1>5. ASSUME Live(e), c.version = version[e] PROVE Current(d, e)
  BY <1>3, <1>5 DEF Current, Live
<1>6. ASSUME ~Live(e), c = NoCopy PROVE Current(d, e)
  BY <1>6 DEF Current, Live
<1>7. CASE Ahead(d, e)
  <2>1. Oldest(log) \in log /\ Oldest(log).key <= cursor[d] /\ Oldest(log).key \in Nat
    <3>1. Oldest(log) \in log
      BY OldestOf DEF TypeOK, Keys
    <3> QED
      BY <1>3, <3>1 DEF Stale, TypeOK, LogRows
  <2>2. \A p \in dropped : ~(p.key > cursor[d])
    BY <1>3, <2>1 DEF Keys, TypeOK
  <2>3. PICK l \in RowsOf(e) : l.key > cursor[d]
    BY <1>7, <2>2 DEF Ahead
  <2>4. RowsOf(e) # {} /\ n.key > cursor[d]
    BY <1>1, <1>2, <1>3, <2>3
  <2>5. n.version <= c.version
    BY <1>1, <1>2, <1>3, <2>4 DEF Pending
  <2>6. n.op = "UPSERT" /\ n.version = c.version
    <3> HIDE DEF n
    <3> QED
      BY <1>1, <2>4, <2>5, CopyHasNewest
  <2> QED
    BY <1>1, <1>5, <2>4, <2>6
<1>8. CASE ~Ahead(d, e)
  <2>1. AsLogged(e, c)
    BY <1>4, <1>8, DeliveredBefore
  <2>2. CASE RowsOf(e) = {}
    <3>1. ~Live(e)
      BY <2>2 DEF AwaitsSweep, Missing
    <3> QED
      BY <1>6, <2>1, <2>2, <3>1 DEF AsLogged
  <2>3. CASE RowsOf(e) # {}
    <3>1. IsNewest(n, e)
      BY <1>1, <2>3 DEF IsNewest
    <3>2. IF n.op = "DELETE" THEN c = NoCopy
          ELSE \/ c.version = n.version
               \/ c = NoCopy /\ (n.version = version[e] => life[e] # "active")
      BY <2>1, <3>1 DEF AsLogged, IsNewest
    <3>3. CASE n.op = "DELETE"
      BY <1>1, <1>6, <2>3, <3>2, <3>3 DEF Live
    <3>4. CASE n.op = "UPSERT"
      <4>1. Live(e) /\ n.version = version[e]
        BY <1>1, <2>3, <3>4
      <4>2. CASE c.version = n.version
        BY <1>5, <4>1, <4>2
      <4>3. CASE c = NoCopy /\ life[e] # "active"
        BY <4>1, <4>3 DEF Current, Live
      <4> QED
        BY <3>2, <3>4, <4>1, <4>2, <4>3
    <3> QED
      BY <1>1, <2>3, <3>3, <3>4
  <2> QED
    BY <2>2, <2>3
<1> QED
  BY <1>7, <1>8

LEMMA SpecInv == Spec => []IndInv
<1>1. Init => IndInv
  BY InitialInv
<1>2. IndInv /\ [Next]_vars => IndInv'
  BY InvStep
<1> QED
  BY <1>1, <1>2, PTL DEF Spec

(* The download side keeps its state well-typed. *)
THEOREM PullTypeCorrect == Spec => []TypeOK
<1>1. IndInv => TypeOK
  BY DEF IndInv
<1> QED
  BY <1>1, SpecInv, PTL

(* In the log of every entity versions rise with the keys up to its        *)
(* tombstone, and only tombstones follow a tombstone, whatever writes,     *)
(* sweeps, snapshots and purges do at the same time.                       *)
THEOREM LogStaysOrdered == Spec => []LogOrdered
<1>1. IndInv => LogOrdered
  BY DEF IndInv
<1> QED
  BY <1>1, SpecInv, PTL

(* A device with a cursor misses nothing but what the history variables    *)
(* name: for any number of devices, sweeps, entities and any page size.    *)
THEOREM NothingIsMissed == Spec => []NothingMissed
  BY SpecInv, InvMissesNothing, PTL

-----------------------------------------------------------------------------
(* What follows for the pulls of a device *)

LEMMA InvCaughtUp == TypeOK /\ Keys /\ NothingMissed => CaughtUpIsCurrent
<1> SUFFICES ASSUME TypeOK, Keys, NothingMissed,
                    NEW d \in Devices, CaughtUp(d), NEW e \in Entities \ (lost[d] \cup forgotten)
             PROVE  Current(d, e) \/ AwaitsSweep(e)
  BY DEF CaughtUpIsCurrent
<1>1. cursor[d] > 0 /\ log # {} /\ \A l \in log : l.key <= cursor[d]
  BY DEF CaughtUp
<1>2. cursor[d] \in Nat /\ \A l \in log : l.key \in Nat
  BY DEF TypeOK, LogRows
<1>3. ~Stale(d)
  <2>1. Oldest(log) \in log
    BY <1>1, OldestOf DEF TypeOK, Keys
  <2> QED
    BY <1>1, <1>2, <2>1 DEF Stale
<1>4. ~Pending(d, e)
  <2>1. ASSUME RowsOf(e) # {} PROVE Newest(RowsOf(e)) \in log
    BY <2>1, NewestRow DEF RowsOf
  <2> QED
    BY <1>1, <1>2, <2>1 DEF Pending
<1> QED
  BY <1>1, <1>3, <1>4 DEF NothingMissed

(* A device that has no log row before it has the table, up to what the    *)
(* next sweep logs and the exceptions of NothingMissed.                    *)
THEOREM CaughtUpDevicesAreCurrent == Spec => []CaughtUpIsCurrent
<1>1. IndInv => CaughtUpIsCurrent
  BY InvMissesNothing, InvCaughtUp DEF IndInv
<1> QED
  BY <1>1, SpecInv, PTL

(* A page of the log is empty only if there is no row after the cursor.    *)
LEMMA DeltaComes ==
    ASSUME TypeOK, Keys, NEW d \in Devices, DeltaRows(d) = {}
    PROVE  \A l \in log : l.key <= cursor[d]
<1> DEFINE newer == {l \in log : l.key > cursor[d]}
           first == Oldest(newer)
<1>1. cursor[d] \in Nat /\ \A l \in log : l.key \in Nat
  BY DEF TypeOK, LogRows
<1>2. ASSUME newer # {} PROVE FALSE
  <2>1. newer \in SUBSET LogRows /\ IsFiniteSet(newer)
    BY FS_Subset DEF TypeOK, Keys
  <2>2. first \in newer /\ \A m \in newer : first.key <= m.key
    <3> HIDE DEF newer
    <3> QED
      BY <1>2, <2>1, OldestOf
  <2>3. {m \in newer : m.key < first.key} = {}
    <3> HIDE DEF first
    <3> QED
      BY <1>1, <2>2
  <2>4. Cardinality({m \in newer : m.key < first.key}) < PageSize
    <3>1. Cardinality({m \in newer : m.key < first.key}) = 0
      <4> HIDE DEF newer, first
      <4> QED
        BY <2>3, FS_EmptySet
    <3>2. PageSize \in Nat \ {0}
      BY PullAssumption DEF PullAssumption
    <3> HIDE DEF newer, first
    <3> QED
      BY <3>1, <3>2
  <2>5. first \in DeltaRows(d)
    BY <2>2, <2>4 DEF DeltaRows
  <2> QED
    BY <2>5
<1> QED
  BY <1>1, <1>2

LEMMA DeltaAdvances ==
    ASSUME TypeOK, Keys, NEW d \in Devices, DeltaReply(d)
    PROVE  /\ cursor'[d] >= cursor[d]
           /\ cursor'[d] > cursor[d] \/ \A l \in log : l.key <= cursor[d]
<1> DEFINE D == DeltaRows(d)
<1>1. cursor'[d] = IF D = {} THEN cursor[d] ELSE Newest(D).key
  BY DEF DeltaReply, TypeOK
<1>2. cursor[d] \in Nat /\ \A l \in log : l.key \in Nat
  BY DEF TypeOK, LogRows
<1>3. D \subseteq log /\ IsFiniteSet(D) /\ \A l \in D : l.key > cursor[d]
  BY DeltaIsPrefix
<1>4. D \in SUBSET LogRows
  BY <1>3 DEF TypeOK
<1> HIDE DEF D
<1>5. CASE D = {}
  <2>1. \A l \in log : l.key <= cursor[d]
    BY <1>5, DeltaComes DEF D
  <2> QED
    BY <1>1, <1>2, <1>5, <2>1
<1>6. CASE D # {}
  <2>1. Newest(D) \in D
    BY <1>3, <1>4, <1>6, NewestOf
  <2> QED
    BY <1>1, <1>2, <1>3, <1>6, <2>1
<1> QED
  BY <1>5, <1>6

LEMMA PullAdvances ==
    ASSUME TypeOK, Keys, Versions, Tombstoning, Requests, [Next]_vars, NEW d \in Devices
    PROVE  /\ DeltaReply(d) => cursor'[d] > cursor[d] \/ \A l \in log : l.key <= cursor[d]
           /\ SnapshotReply(d) => after'[d] > after[d] \/ upto[d] = NumEntities
           /\ cursor'[d] < cursor[d] => Reset(d)
<1>1. SnapshotReply(d) => after'[d] > after[d] \/ upto[d] = NumEntities
  <2> SUFFICES ASSUME SnapshotReply(d), upto[d] # NumEntities PROVE after'[d] > after[d]
    OBVIOUS
  <2>1. upto[d] \in 0..NumEntities /\ NumEntities \in Nat /\ after[d] \in 0..NumEntities
    BY PullAssumption DEF TypeOK, PullAssumption
  <2>2. upto[d] < NumEntities
    BY <2>1
  <2>3. after'[d] = upto[d]
    BY <2>2 DEF SnapshotReply, TypeOK
  <2>4. after[d] < upto[d]
    BY DEF SnapshotReply, Requests
  <2> QED
    BY <2>1, <2>3, <2>4
<1>2. ASSUME cursor'[d] < cursor[d] PROVE Reset(d)
  <2>1. cursor[d] \in Nat /\ cursor'[d] \in Nat
    <3>1. TypeOK'
      BY TypeStep
    <3> QED
      BY <3>1 DEF TypeOK
  <2>2. CASE UNCHANGED cursor[d]
    BY <1>2, <2>1, <2>2
  <2>3. CASE DeltaReply(d)
    BY <1>2, <2>1, <2>3, DeltaAdvances
  <2>4. CASE SnapshotReply(d)
    <3>1. cursor[d] = 0
      BY <2>4 DEF SnapshotReply, Requests
    <3> QED
      BY <1>2, <2>1, <3>1
  <2> QED
    BY <2>2, <2>3, <2>4, DeviceSteps DEF DeviceMoves
<1> QED
  BY <1>1, <1>2, DeltaAdvances

(* No pull goes in a circle: what a page of the log or of a snapshot       *)
(* brings is behind the device afterwards, until it has all of it, and     *)
(* nothing but the watermark takes a cursor back.                          *)
THEOREM PullsGoForward == Spec => PullsAdvance
<1>1. IndInv /\ [Next]_vars =>
          [\A d \in Devices :
               /\ DeltaReply(d) => cursor'[d] > cursor[d] \/ \A l \in log : l.key <= cursor[d]
               /\ SnapshotReply(d) => after'[d] > after[d] \/ upto[d] = NumEntities
               /\ cursor'[d] < cursor[d] => Reset(d)]_vars
  BY PullAdvances DEF IndInv
<1> QED
  BY <1>1, SpecInv, PTL DEF Spec, PullsAdvance

(* An answer of the server never makes a copy older: the device takes a    *)
(* row only for a newer version.                                           *)
LEMMA AppliedIsNewer ==
    ASSUME TypeOK, NEW d \in Devices, NEW e \in Entities,
           NEW rows \in SUBSET LogRows, IsFiniteSet(rows)
    PROVE  \/ Applied(d, rows)[e] = NoCopy
           \/ Applied(d, rows)[e].version >= copy[d][e].version
<1> DEFINE mine == {l \in rows : l.entity = e /\ l.version > copy[d][e].version}
<1>1. copy[d][e].version \in Nat /\ \A l \in rows : l.version \in Nat
  BY DEF TypeOK, LogRows
<1>2. /\ mine = {} => Applied(d, rows)[e] = copy[d][e]
      /\ mine # {} =>
             \E n \in mine :
                 /\ \A m \in mine : m.key <= n.key
                 /\ Applied(d, rows)[e] = IF n.op = "DELETE" THEN NoCopy
                                          ELSE [version |-> n.version, rev |-> n.rev]
  BY AppliedRows
<1>3. CASE mine = {}
  BY <1>1, <1>2, <1>3
<1>4. CASE mine # {}
  <2>1. PICK n \in mine : Applied(d, rows)[e] = IF n.op = "DELETE" THEN NoCopy
                                                ELSE [version |-> n.version, rev |-> n.rev]
    BY <1>2, <1>4
  <2>2. n.version \in Nat /\ n.version > copy[d][e].version
    BY <1>1
  <2> HIDE DEF mine
  <2>3. CASE n.op = "DELETE"
    BY <2>1, <2>3
  <2>4. CASE n.op # "DELETE"
    <3>1. Applied(d, rows)[e].version = n.version
      BY <2>1, <2>4
    <3> QED
      BY <1>1, <2>2, <3>1
  <2> QED
    BY <2>3, <2>4
<1> QED
  BY <1>3, <1>4

(* What follows a tombstone in the log of its entity are tombstones, so a  *)
(* device past it is told of nothing else.                                 *)
LEMMA DeletedStays ==
    ASSUME TypeOK, Keys, LogOrdered, NEW d \in Devices, NEW e \in Entities, copy[d][e] = NoCopy,
           NEW l \in RowsOf(e), l.op = "DELETE", l.key <= cursor[d]
    PROVE  Applied(d, DeltaRows(d))[e] = NoCopy
<1> DEFINE D == DeltaRows(d)
           mine == {m \in D : m.entity = e /\ m.version > copy[d][e].version}
<1>1. D \subseteq log /\ IsFiniteSet(D) /\ \A m \in D : m.key > cursor[d]
  BY DeltaIsPrefix
<1>2. D \in SUBSET LogRows /\ cursor[d] \in Nat /\ l \in log /\ l.entity = e
      /\ \A m \in log : m.key \in Nat
  BY <1>1 DEF TypeOK, LogRows, RowsOf
<1> HIDE DEF D
<1>3. /\ mine = {} => Applied(d, D)[e] = copy[d][e]
      /\ mine # {} =>
             \E n \in mine :
                 /\ \A m \in mine : m.key <= n.key
                 /\ Applied(d, D)[e] = IF n.op = "DELETE" THEN NoCopy
                                       ELSE [version |-> n.version, rev |-> n.rev]
  BY <1>1, <1>2, AppliedRows
<1>4. ASSUME NEW n \in mine PROVE n.op = "DELETE"
  <2>1. n \in log /\ n.entity = e /\ n.key > cursor[d]
    BY <1>1
  <2>2. l.key < n.key
    BY <1>2, <2>1
  <2> HIDE DEF mine
  <2> QED
    BY <1>2, <2>1, <2>2 DEF LogOrdered
<1> HIDE DEF mine
<1>5. Applied(d, D)[e] = NoCopy
  BY <1>3, <1>4
<1> QED
  BY <1>5 DEF D

LEMMA CopyAdvances ==
    ASSUME TypeOK, Keys, LogOrdered, Requests, [Next]_vars, NEW d \in Devices, NEW e \in Entities
    PROVE  /\ copy'[d][e] = NoCopy \/ copy'[d][e].version >= copy[d][e].version
           /\ /\ cursor[d] > 0 /\ copy[d][e] = NoCopy
              /\ \E l \in RowsOf(e) : l.op = "DELETE" /\ l.key <= cursor[d]
              => copy'[d][e] = NoCopy
<1>1. CASE UNCHANGED copy[d]
  <2>1. copy[d][e].version \in Nat
    BY DEF TypeOK
  <2> QED
    BY <1>1, <2>1
<1>2. CASE copy'[d] = [f \in Entities |-> NoCopy]
  BY <1>2
<1>3. CASE SnapshotReply(d) /\ copy'[d] = Applied(d, got[d])
  <2>1. cursor[d] = 0
    BY <1>3 DEF SnapshotReply, Requests
  <2>2. got[d] \in SUBSET LogRows /\ IsFiniteSet(got[d])
    BY DEF TypeOK, Keys
  <2> QED
    BY <1>3, <2>1, <2>2, AppliedIsNewer
<1>4. CASE DeltaReply(d) /\ copy'[d] = Applied(d, DeltaRows(d))
  <2>1. DeltaRows(d) \subseteq log /\ IsFiniteSet(DeltaRows(d))
    BY DeltaIsPrefix
  <2>2. DeltaRows(d) \in SUBSET LogRows
    BY <2>1 DEF TypeOK
  <2>3. copy'[d][e] = NoCopy \/ copy'[d][e].version >= copy[d][e].version
    BY <1>4, <2>1, <2>2, AppliedIsNewer
  <2> QED
    BY <1>4, <2>3, DeletedStays
<1> QED
  BY <1>1, <1>2, <1>3, <1>4, DeviceSteps DEF DeviceMoves

(* No answer replaces a copy by an older one, and no page of the log       *)
(* brings back what the device was told is deleted.                        *)
THEOREM CopiesGoForward == Spec => CopiesAdvance
<1>1. IndInv /\ [Next]_vars =>
          [\A d \in Devices, e \in Entities :
               /\ copy'[d][e] = NoCopy \/ copy'[d][e].version >= copy[d][e].version
               /\ /\ cursor[d] > 0 /\ copy[d][e] = NoCopy
                  /\ \E l \in RowsOf(e) : l.op = "DELETE" /\ l.key <= cursor[d]
                  => copy'[d][e] = NoCopy]_vars
  BY CopyAdvances DEF IndInv
<1> QED
  BY <1>1, SpecInv, PTL DEF Spec, CopiesAdvance

=============================================================================
