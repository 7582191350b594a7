----------------------------- MODULE PagingProofs -----------------------------
(***************************************************************************)
(* Proofs about those who read a moving table page by page.                *)
(*                                                                         *)
(* Part 1: ChangeFeed for any writers, entities, devices and page size.    *)
(* What the bounded runs show of a page that waits for rows in flight is   *)
(* shown here under Blocking alone: the keys in flight are all ahead of    *)
(* every scan, one transaction holds an entity at a time, and so what is   *)
(* behind a cursor is complete and in order.                               *)
(*                                                                         *)
(* Part 2: Pagination for any limits, rows, inserts, deletes and secrets   *)
(* and any precision of the sort column; whole milliseconds are assumed    *)
(* only where a walk is to be exact.  A page is characterised by the place *)
(* each row has in the order; that every place has its row is a pigeonhole *)
(* argument.                                                               *)
(***************************************************************************)
EXTENDS ChangeFeed, Pagination, FiniteSetTheorems, SequenceTheorems, TLAPS

-----------------------------------------------------------------------------
(* Part 1: ChangeFeed *)

(* One key, one row, whether committed or in flight. *)
KeysUnique ==
    /\ \A l \in log : l.key <= lastKey
    /\ \A w \in Writers : \A l \in tx[w] : l.key <= lastKey
    /\ \A l, m \in log : l.key = m.key => l = m
    /\ \A w \in Writers : \A l \in tx[w], m \in log : l.key # m.key
    /\ \A w, v \in Writers : \A l \in tx[w], m \in tx[v] :
           l.key = m.key => w = v /\ l = m

(* One transaction holds an entity, and logs it once. *)
OneHolder ==
    /\ \A w, v \in Writers : \A e \in Entities : Locks(w, e) /\ Locks(v, e) => w = v
    /\ \A w \in Writers : \A l \in tx[w] : bumped[w] # l.entity
    /\ \A w \in Writers : \A l, m \in tx[w] : l.entity = m.entity => l = m

(* The next version of an entity is in flight behind all its others. *)
VersionsFollow ==
    /\ \A l \in log : l.version <= version[l.entity]
    /\ \A w \in Writers : \A l \in tx[w] : l.version = version[l.entity] + 1
    /\ \A w \in Writers : \A l \in tx[w], m \in log :
           l.entity = m.entity => m.key < l.key
    /\ \A l, m \in log : l.entity = m.entity /\ l.key < m.key => l.version < m.version

(* Every key in flight is ahead of cursors and scans, and a page has all   *)
(* there is between the two.                                               *)
ScansComplete ==
    \A d \in Devices :
        /\ cursor[d] <= lastKey
        /\ \A w \in Writers : \A l \in tx[w] : cursor[d] < l.key
        /\ pc[d] = "scan" =>
               /\ cursor[d] <= at[d] /\ at[d] <= lastKey
               /\ \A w \in Writers : \A l \in tx[w] : at[d] < l.key
               /\ page[d] = {l \in log : cursor[d] < l.key /\ l.key <= at[d]}
               /\ page[d] # {} => \E l \in page[d] : l.key = at[d]

Inv == TypeOK /\ KeysUnique /\ OneHolder /\ VersionsFollow /\ ScansComplete /\ NothingSkipped

-----------------------------------------------------------------------------

LEMMA InitInv == Init => Inv
  <1> SUFFICES ASSUME Init PROVE Inv
    OBVIOUS
  <1>1. TypeOK
    BY DEF Init, TypeOK
  <1>2. KeysUnique /\ OneHolder /\ VersionsFollow
    BY FeedAssumption DEF Init, KeysUnique, OneHolder, VersionsFollow, Locks
  <1>3. ScansComplete /\ NothingSkipped
    BY DEF Init, ScansComplete, NothingSkipped
  <1> QED
    BY <1>1, <1>2, <1>3 DEF Inv

(* A row is taken by a transaction only when no other has it.              *)
LEMMA BumpStep ==
    ASSUME Inv, NEW w \in Writers, NEW e \in Entities, Bump(w, e)
    PROVE  Inv'
  <1> USE FeedAssumption DEF Inv
  <1>1. TypeOK'
    BY DEF TypeOK, Bump, deviceVars
  <1>2. KeysUnique' /\ VersionsFollow' /\ ScansComplete' /\ NothingSkipped'
    BY DEF KeysUnique, VersionsFollow, ScansComplete, NothingSkipped, Bump, deviceVars
  <1>3. OneHolder'
    BY DEF OneHolder, Bump, RowLockFree, Locks, TypeOK, Rows, deviceVars
  <1> QED
    BY <1>1, <1>2, <1>3

(* The key of a new row is ahead of all others, of every cursor and scan.  *)
LEMMA LogChangeStep ==
    ASSUME Inv, NEW w \in Writers, LogChange(w)
    PROVE  Inv'
  <1> DEFINE e == bumped[w]
             r == [key |-> lastKey + 1, entity |-> e, version |-> version[e] + 1]
  <1>1. /\ e \in Entities /\ r \in Rows
        /\ lastKey' = lastKey + 1 /\ lastKey \in Nat
        /\ tx' = [tx EXCEPT ![w] = @ \cup {r}]
        /\ bumped' = [bumped EXCEPT ![w] = NoEntity]
        /\ UNCHANGED <<version, log, pc, page, at, cursor, seen, faults>>
    BY DEF Inv, TypeOK, LogChange, deviceVars, Rows
  <1>2. TypeOK'
    BY <1>1 DEF Inv, TypeOK
  <1>3. /\ r.key = lastKey + 1 /\ r.entity = e /\ r.version = version[e] + 1
        /\ \A v \in Writers : tx'[v] = IF v = w THEN tx[w] \cup {r} ELSE tx[v]
        /\ \A v \in Writers : bumped'[v] = IF v = w THEN NoEntity ELSE bumped[v]
    BY <1>1 DEF Inv, TypeOK
  <1>4. /\ \A l \in log : l \in Rows
        /\ \A v \in Writers : \A l \in tx[v] : l \in Rows
        /\ \A l \in Rows : l.key \in Nat /\ l.entity \in Entities /\ l.version \in Nat
    BY DEF Inv, TypeOK, Rows
  <1> HIDE DEF r, e
  <1>5. KeysUnique'
    BY <1>1, <1>3, <1>4 DEF Inv, KeysUnique
  <1>6. OneHolder'
    <2>1. \A v \in Writers : \A f \in Entities : Locks(v, f)' => Locks(v, f)
      BY <1>1, <1>3, FeedAssumption DEF Locks, e
    <2>2. \A v \in Writers : \A l \in tx'[v] : bumped'[v] # l.entity
      BY <1>1, <1>3, <1>4, FeedAssumption DEF Inv, OneHolder, Locks, e
    <2>3. \A v \in Writers : \A l, m \in tx'[v] : l.entity = m.entity => l = m
      BY <1>1, <1>3, <1>4 DEF Inv, OneHolder, e
    <2> QED
      BY <2>1, <2>2, <2>3 DEF Inv, OneHolder
  <1>7. VersionsFollow'
    BY <1>1, <1>3, <1>4 DEF Inv, VersionsFollow, KeysUnique
  <1>8. ScansComplete' /\ NothingSkipped'
    BY <1>1, <1>3, <1>4 DEF Inv, TypeOK, ScansComplete, NothingSkipped
  <1> QED
    BY <1>2, <1>5, <1>6, <1>7, <1>8 DEF Inv

(* What is committed was in flight, hence ahead of every cursor and scan.  *)
LEMMA CommitStep ==
    ASSUME Inv, NEW w \in Writers, Commit(w)
    PROVE  Inv'
  <1>1. /\ log' = log \cup tx[w] /\ lastKey' = lastKey /\ lastKey \in Nat
        /\ \A e \in Entities : version'[e] =
               IF \E l \in tx[w] : l.entity = e THEN version[e] + 1 ELSE version[e]
        /\ UNCHANGED <<pc, page, at, cursor, seen, faults>>
    BY DEF Inv, TypeOK, Commit, Close, deviceVars
  <1>2. TypeOK'
    BY DEF Inv, TypeOK, Commit, Close, deviceVars
  <1>3. /\ \A v \in Writers : tx'[v] = IF v = w THEN {} ELSE tx[v]
        /\ \A v \in Writers : bumped'[v] = IF v = w THEN NoEntity ELSE bumped[v]
    BY DEF Inv, TypeOK, Commit, Close
  <1>4. /\ \A l \in log : l \in Rows
        /\ \A v \in Writers : \A l \in tx[v] : l \in Rows
        /\ \A l \in Rows : l.key \in Nat /\ l.entity \in Entities /\ l.version \in Nat
        /\ \A e \in Entities : version[e] \in Nat
    BY DEF Inv, TypeOK, Rows
  <1>5. KeysUnique'
    BY <1>1, <1>3 DEF Inv, KeysUnique
  <1>6. OneHolder'
    <2>1. \A v \in Writers : \A f \in Entities : Locks(v, f)' => Locks(v, f)
      BY <1>3, FeedAssumption DEF Locks
    <2> QED
      BY <2>1, <1>3 DEF Inv, OneHolder
  <1>7. VersionsFollow'
    <2>1. \A v \in Writers \ {w} : \A l \in tx[v], m \in tx[w] : l.entity # m.entity
      BY <1>4 DEF Inv, OneHolder, Locks
    <2>2. \A l \in log' : l.version <= version'[l.entity]
      BY <1>1, <1>4 DEF Inv, VersionsFollow
    <2>3. \A v \in Writers : \A l \in tx'[v] : l.version = version'[l.entity] + 1
      BY <1>1, <1>3, <1>4, <2>1 DEF Inv, VersionsFollow
    <2>4. \A v \in Writers : \A l \in tx'[v], m \in log' : l.entity = m.entity => m.key < l.key
      BY <1>1, <1>3, <2>1 DEF Inv, VersionsFollow
    <2>5. \A l, m \in log' : l.entity = m.entity /\ l.key < m.key => l.version < m.version
      <3> SUFFICES ASSUME NEW l \in log', NEW m \in log', l.entity = m.entity, l.key < m.key
                   PROVE  l.version < m.version
        OBVIOUS
      <3>1. CASE l \in log /\ m \in log
        BY <3>1 DEF Inv, VersionsFollow
      <3>2. CASE l \in log /\ m \in tx[w]
        BY <3>2, <1>4 DEF Inv, VersionsFollow
      <3>3. CASE l \in tx[w] /\ m \in log
        BY <3>3, <1>4 DEF Inv, VersionsFollow
      <3>4. CASE l \in tx[w] /\ m \in tx[w]
        BY <3>4, <1>4 DEF Inv, OneHolder
      <3> QED
        BY <1>1, <3>1, <3>2, <3>3, <3>4
    <2> QED
      BY <2>2, <2>3, <2>4, <2>5 DEF VersionsFollow
  <1>8. /\ \A d \in Devices : \A l \in tx[w] : ~ (l.key <= cursor[d])
        /\ \A d \in Devices : pc[d] = "scan" => \A l \in tx[w] : ~ (l.key <= at[d])
    BY <1>4 DEF Inv, TypeOK, ScansComplete
  <1>9. ScansComplete'
    BY <1>1, <1>3, <1>8 DEF Inv, ScansComplete
  <1>10. NothingSkipped'
    BY <1>1, <1>8 DEF Inv, NothingSkipped
  <1> QED
    BY <1>2, <1>5, <1>6, <1>7, <1>9, <1>10 DEF Inv

LEMMA RollbackStep ==
    ASSUME Inv, NEW w \in Writers, Rollback(w)
    PROVE  Inv'
  <1>1. /\ \A v \in Writers : tx'[v] = IF v = w THEN {} ELSE tx[v]
        /\ \A v \in Writers : bumped'[v] = IF v = w THEN NoEntity ELSE bumped[v]
        /\ UNCHANGED <<version, log, lastKey, pc, page, at, cursor, seen, faults>>
    BY DEF Inv, TypeOK, Rollback, Close, deviceVars
  <1>2. TypeOK'
    BY DEF Inv, TypeOK, Rollback, Close, deviceVars
  <1>3. KeysUnique' /\ VersionsFollow'
    BY <1>1 DEF Inv, KeysUnique, VersionsFollow
  <1>4. OneHolder'
    <2>1. \A v \in Writers : \A f \in Entities : Locks(v, f)' => Locks(v, f)
      BY <1>1, FeedAssumption DEF Locks
    <2> QED
      BY <2>1, <1>1 DEF Inv, OneHolder
  <1>5. ScansComplete' /\ NothingSkipped'
    BY <1>1 DEF Inv, ScansComplete, NothingSkipped
  <1> QED
    BY <1>2, <1>3, <1>4, <1>5 DEF Inv

-----------------------------------------------------------------------------

LEMMA AskStep ==
    ASSUME Inv, NEW d \in Devices, Ask(d)
    PROVE  Inv'
  <1>1. TypeOK'
    BY DEF Inv, TypeOK, Ask, tableVars
  <1>2. KeysUnique' /\ OneHolder' /\ VersionsFollow' /\ NothingSkipped'
    BY DEF Inv, KeysUnique, OneHolder, Locks, VersionsFollow, NothingSkipped, Ask, tableVars
  <1>3. \A l \in log : l.key \in Nat
    BY DEF Inv, TypeOK, Rows
  <1>4. ScansComplete'
    <2>1. {l \in log : cursor[d] < l.key /\ l.key <= cursor[d]} = {}
      BY <1>3 DEF Inv, TypeOK
    <2> QED
      BY <2>1 DEF Inv, TypeOK, ScansComplete, Ask, tableVars
  <1> QED
    BY <1>1, <1>2, <1>4 DEF Inv

(* The scan moves to the next key only past rows that are in the page.     *)
LEMMA ScanStep ==
    ASSUME Blocking, Inv, NEW d \in Devices, Scan(d)
    PROVE  Inv'
  <1>1. PICK l \in log :
            /\ NextAhead(d, l)
            /\ page' = [page EXCEPT ![d] = @ \cup {l}]
            /\ at' = [at EXCEPT ![d] = l.key]
    BY DEF Scan
  <1>2. /\ pc[d] = "scan"
        /\ UNCHANGED <<version, log, lastKey, bumped, tx, pc, cursor, seen, faults>>
    BY DEF Scan, tableVars
  <1>3. /\ \A m \in log : m \in Rows
        /\ \A v \in Writers : \A m \in tx[v] : m \in Rows
        /\ \A m \in Rows : m.key \in Nat
        /\ at[d] \in Nat /\ cursor[d] \in Nat /\ lastKey \in Nat
    BY DEF Inv, TypeOK, Rows
  <1>4. TypeOK'
    BY <1>1, <1>2, <1>3 DEF Inv, TypeOK
  <1>5. KeysUnique' /\ OneHolder' /\ VersionsFollow' /\ NothingSkipped'
    BY <1>2 DEF Inv, KeysUnique, OneHolder, Locks, VersionsFollow, NothingSkipped
  <1>6. /\ at[d] < l.key
        /\ \A m \in log : at[d] < m.key => l.key <= m.key
        /\ \A w \in Writers : \A m \in tx[w] : at[d] < m.key => l.key <= m.key
    BY <1>1 DEF NextAhead, Ahead, Visible, InFlight
  <1>7. \A w \in Writers : \A m \in tx[w] : l.key < m.key
    BY <1>2, <1>3, <1>6 DEF Inv, ScansComplete, KeysUnique
  <1>8. page[d] \cup {l} = {m \in log : cursor[d] < m.key /\ m.key <= l.key}
    <2>1. page[d] = {m \in log : cursor[d] < m.key /\ m.key <= at[d]} /\ cursor[d] <= at[d]
      BY <1>2 DEF Inv, ScansComplete
    <2>2. ASSUME NEW m \in log, cursor[d] < m.key, m.key <= l.key
          PROVE  m \in page[d] \/ m = l
      BY <2>1, <2>2, <1>3, <1>6 DEF Inv, KeysUnique
    <2>3. ASSUME NEW m \in log, cursor[d] < m.key, m.key <= at[d]
          PROVE  m.key <= l.key
      BY <2>3, <1>3, <1>6
    <2>4. cursor[d] < l.key /\ l.key <= l.key
      BY <2>1, <1>3, <1>6
    <2> QED
      BY <2>1, <2>2, <2>3, <2>4
  <1>9. ScansComplete'
    <2> SUFFICES ASSUME NEW c \in Devices PROVE ScansComplete!(c)'
      BY DEF ScansComplete
    <2>1. CASE c = d
      <3>1. page'[d] = page[d] \cup {l} /\ at'[d] = l.key
        BY <1>1 DEF Inv, TypeOK
      <3>2. cursor[d] <= l.key /\ l.key <= lastKey
        BY <1>2, <1>3, <1>6 DEF Inv, ScansComplete, KeysUnique
      <3> QED
        BY <2>1, <3>1, <3>2, <1>2, <1>7, <1>8 DEF Inv, ScansComplete
    <2>2. CASE c # d
      <3>1. page'[c] = page[c] /\ at'[c] = at[c]
        BY <2>2, <1>1 DEF Inv, TypeOK
      <3> QED
        BY <3>1, <1>2 DEF Inv, ScansComplete
    <2> QED
      BY <2>1, <2>2
  <1> QED
    BY <1>4, <1>5, <1>9 DEF Inv

(* What the device is given takes it from its cursor to the scan's key.    *)
LEMMA ReplyStep ==
    ASSUME Inv, NEW d \in Devices, Reply(d)
    PROVE  Inv'
  <1>1. /\ pc[d] = "scan"
        /\ pc' = [pc EXCEPT ![d] = "idle"]
        /\ seen' = [seen EXCEPT ![d] = @ \cup page[d]]
        /\ cursor' = [cursor EXCEPT ![d] = NextCursor(d)]
        /\ UNCHANGED <<version, log, lastKey, bumped, tx>>
    BY DEF Reply, Answered, tableVars
  <1>2. /\ \A m \in log : m \in Rows
        /\ \A m \in Rows : m.key \in Nat
        /\ at[d] \in Nat /\ cursor[d] \in Nat
    BY DEF Inv, TypeOK, Rows
  <1>3. TypeOK'
    BY <1>1, <1>2 DEF Inv, TypeOK, Reply, Answered, NextCursor
  <1>4. KeysUnique' /\ OneHolder' /\ VersionsFollow'
    BY <1>1 DEF Inv, KeysUnique, OneHolder, Locks, VersionsFollow
  <1>5. /\ NextCursor(d) <= lastKey
        /\ \A w \in Writers : \A l \in tx[w] : NextCursor(d) < l.key
    BY <1>1 DEF Inv, ScansComplete, NextCursor
  <1>6. ScansComplete'
    BY <1>1, <1>5 DEF Inv, TypeOK, ScansComplete, Reply, Answered
  <1>7. seen[d] \cup page[d] = {l \in log : l.key <= NextCursor(d)}
    <2>1. /\ seen[d] = {l \in log : l.key <= cursor[d]}
          /\ page[d] = {l \in log : cursor[d] < l.key /\ l.key <= at[d]}
          /\ cursor[d] <= at[d]
      BY <1>1 DEF Inv, NothingSkipped, ScansComplete
    <2>2. CASE page[d] = {}
      BY <2>1, <2>2 DEF NextCursor
    <2>3. CASE page[d] # {}
      BY <2>1, <2>3, <1>2 DEF NextCursor
    <2> QED
      BY <2>2, <2>3
  <1>8. NothingSkipped'
    BY <1>1, <1>7 DEF Inv, TypeOK, NothingSkipped
  <1> QED
    BY <1>3, <1>4, <1>6, <1>8 DEF Inv

LEMMA LoseReplyStep ==
    ASSUME Inv, NEW d \in Devices, LoseReply(d)
    PROVE  Inv'
  <1>1. TypeOK'
    BY DEF Inv, TypeOK, LoseReply, Answered, tableVars
  <1>2. KeysUnique' /\ OneHolder' /\ VersionsFollow' /\ NothingSkipped'
    BY DEF Inv, KeysUnique, OneHolder, Locks, VersionsFollow, NothingSkipped,
           LoseReply, Answered, tableVars
  <1>3. ScansComplete'
    BY DEF Inv, TypeOK, ScansComplete, LoseReply, Answered, tableVars
  <1> QED
    BY <1>1, <1>2, <1>3 DEF Inv

-----------------------------------------------------------------------------

LEMMA StepInv == ASSUME Blocking, Inv, [Next]_vars PROVE Inv'
  <1>1. CASE \E w \in Writers : Transact(w)
    BY <1>1, BumpStep, LogChangeStep, CommitStep, RollbackStep DEF Transact
  <1>2. CASE \E d \in Devices : Pull(d) \/ LoseReply(d)
    BY <1>2, AskStep, ScanStep, ReplyStep, LoseReplyStep DEF Pull
  <1>3. CASE UNCHANGED vars
    BY <1>3 DEF Inv, TypeOK, KeysUnique, OneHolder, Locks, VersionsFollow, ScansComplete,
                NothingSkipped, vars, tableVars, deviceVars
  <1> QED
    BY <1>1, <1>2, <1>3 DEF Next

LEMMA Invariance == ASSUME Blocking PROVE Spec => []Inv
  <1>1. Inv /\ [Next]_vars => Inv'
    BY StepInv
  <1> QED
    BY InitInv, <1>1, PTL DEF Spec

(* The variables of the outbox and of its readers keep their types.        *)
THEOREM FeedTypeCorrect == ASSUME Blocking PROVE Spec => []TypeOK
  <1>1. Inv => TypeOK
    BY DEF Inv
  <1> QED
    BY <1>1, Invariance, PTL

(* Where reads wait for rows in flight, no delta pull passes a key that    *)
(* commits later: a device has every change up to its cursor.              *)
THEOREM NoChangeIsSkipped == ASSUME Blocking PROVE Spec => []NothingSkipped
  <1>1. Inv => NothingSkipped
    BY DEF Inv
  <1> QED
    BY <1>1, Invariance, PTL

LEMMA ScanAdvances ==
    ASSUME Inv, NEW d \in Devices, Scan(d)
    PROVE  at'[d] > at[d]
  <1>1. PICK l \in log : at[d] < l.key /\ at' = [at EXCEPT ![d] = l.key]
    BY DEF Scan, NextAhead, Ahead
  <1>2. at'[d] = l.key /\ l.key \in Nat /\ at[d] \in Nat
    BY <1>1 DEF Inv, TypeOK, Rows
  <1> QED
    BY <1>1, <1>2

(* An empty page is not full, so it is the answer to a log with nothing    *)
(* ahead.                                                                  *)
LEMMA AnswerAdvances ==
    ASSUME Blocking, Inv, NEW d \in Devices, Reply(d)
    PROVE  /\ cursor'[d] > cursor[d] \/ \A l \in Visible : l.key <= cursor[d]
           /\ page[d] \cap seen[d] = {}
  <1>1. pc[d] = "scan" /\ (Full(d) \/ Ahead(d) = {}) /\ cursor'[d] = NextCursor(d)
    BY DEF Reply, Answered, Inv, TypeOK
  <1>2. /\ cursor[d] <= at[d]
        /\ page[d] = {l \in log : cursor[d] < l.key /\ l.key <= at[d]}
        /\ page[d] # {} => \E l \in page[d] : l.key = at[d]
    BY <1>1 DEF Inv, ScansComplete
  <1>3. cursor[d] \in Nat /\ at[d] \in Nat /\ \A l \in log : l.key \in Nat
    BY DEF Inv, TypeOK, Rows
  <1>4. page[d] \cap seen[d] = {}
    BY <1>2, <1>3 DEF Inv, NothingSkipped
  <1>5. CASE page[d] # {}
    <2>1. cursor[d] < at[d] /\ cursor'[d] = at[d]
      BY <1>1, <1>2, <1>5 DEF NextCursor
    <2> QED
      BY <1>3, <1>4, <2>1
  <1>6. CASE page[d] = {}
    <2>1. Ahead(d) = {}
      <3>1. Cardinality(page[d]) = 0
        BY <1>6, FS_EmptySet
      <3>2. PageSize \in Nat \ {0}
        BY FeedAssumption
      <3> QED
        BY <1>1, <3>1, <3>2 DEF Full
    <2>2. \A l \in Visible : ~(at[d] < l.key)
      BY <2>1 DEF Ahead
    <2>3. ASSUME NEW w \in Writers, NEW l \in tx[w] PROVE FALSE
      <3>1. l \in Visible
        BY <2>3 DEF Visible, InFlight
      <3>2. at[d] < l.key
        BY <1>1, <2>3 DEF Inv, ScansComplete
      <3> QED
        BY <2>2, <3>1, <3>2
    <2>4. \A l \in Visible : l \in log
      BY <2>3 DEF Visible, InFlight
    <2>5. \A l \in Visible : l.key <= cursor[d]
      BY <1>2, <1>3, <1>6, <2>2, <2>4
    <2> QED
      BY <1>4, <2>5
  <1> QED
    BY <1>5, <1>6

(* Scans and answers come to later keys, and an answer that brings nothing *)
(* leaves nothing behind the cursor, in flight or committed.               *)
THEOREM ScansGoForward == ASSUME Blocking PROVE Spec => ScansAdvance
  <1>1. Inv /\ [Next]_vars =>
            [\A d \in Devices :
                 /\ Scan(d) => at'[d] > at[d]
                 /\ Reply(d) => /\ cursor'[d] > cursor[d] \/ \A l \in Visible : l.key <= cursor[d]
                                /\ page[d] \cap seen[d] = {}]_vars
    BY ScanAdvances, AnswerAdvances
  <1> QED
    BY <1>1, Invariance, PTL DEF Spec, ScansAdvance

-----------------------------------------------------------------------------
(* The outbox implements Feed.  Stable grows only when a transaction ends, *)
(* and in key order, because a row that was not stable is behind a key in  *)
(* flight and a row that was is not; an answered page is Advance.          *)

LEMMA FlightTyped ==
    ASSUME Inv
    PROVE  /\ InFlight \subseteq Rows /\ log \subseteq Rows
           /\ \A l \in Rows : l.key \in Nat /\ l.entity \in Entities /\ l.version \in Nat
  BY DEF Inv, TypeOK, InFlight, Rows

(* A transaction that ends publishes behind everything published.          *)
LEMMA ClosePublishes ==
    ASSUME Inv, Inv', NEW w \in Writers, Commit(w) \/ Rollback(w)
    PROVE  F!Publish
  <1>1. /\ UNCHANGED <<cursor, seen>>
        /\ log \subseteq log' /\ log' \subseteq log \cup InFlight
        /\ InFlight' \subseteq InFlight
    BY DEF Inv, TypeOK, Commit, Rollback, Close, deviceVars, InFlight
  <1>2. Stable \subseteq Stable'
    BY <1>1 DEF Stable
  <1>3. ASSUME NEW l \in Stable, NEW m \in Stable' \ Stable PROVE l.key < m.key
    <2>1. CASE m \in InFlight
      BY <2>1, <1>3 DEF Stable
    <2>2. CASE m \in log
      <3>1. PICK k \in InFlight : ~ (m.key < k.key)
        BY <2>2, <1>3 DEF Stable
      <3> QED
        BY <3>1, <2>2, <1>3, FlightTyped DEF Stable
    <2> QED
      BY <2>1, <2>2, <1>1, <1>3 DEF Stable
  <1>4. F!Ordered(Stable')
    BY DEF F!Ordered, Stable, Inv, KeysUnique, VersionsFollow
  <1> QED
    BY <1>1, <1>2, <1>3, <1>4 DEF F!Publish

(* A row newly logged is ahead of everything stable.                       *)
LEMMA LogChangeStutters ==
    ASSUME Inv, NEW w \in Writers, LogChange(w)
    PROVE  UNCHANGED <<Stable, cursor, seen>>
  <1> DEFINE r == [key |-> lastKey + 1, entity |-> bumped[w], version |-> version[bumped[w]] + 1]
  <1>1. InFlight' = InFlight \cup {r} /\ UNCHANGED <<log, cursor, seen>>
    BY DEF Inv, TypeOK, LogChange, deviceVars, InFlight
  <1>2. \A l \in log : l.key < r.key
    BY FlightTyped DEF Inv, TypeOK, KeysUnique
  <1> QED
    BY <1>1, <1>2 DEF Stable

(* An answer that is not empty takes the device to the scan's key, which   *)
(* is stable because every key in flight is ahead of it.                   *)
LEMMA ReplyAdvances ==
    ASSUME Inv, NEW d \in Devices, Reply(d)
    PROVE  F!Advance(d) \/ UNCHANGED <<Stable, cursor, seen>>
  <1>1. /\ pc[d] = "scan" /\ cursor \in [Devices -> Nat] /\ seen \in [Devices -> SUBSET Rows]
        /\ seen' = [seen EXCEPT ![d] = @ \cup page[d]]
        /\ cursor' = [cursor EXCEPT ![d] = NextCursor(d)]
        /\ UNCHANGED <<log, tx>>
    BY DEF Inv, TypeOK, Reply, Answered, tableVars
  <1>2. Stable' = Stable
    BY <1>1 DEF Stable, InFlight
  <1>3. CASE page[d] = {}
    BY <1>1, <1>2, <1>3 DEF NextCursor
  <1>4. CASE page[d] # {}
    <2>1. /\ page[d] = {l \in log : cursor[d] < l.key /\ l.key <= at[d]}
          /\ \A m \in InFlight : at[d] < m.key
          /\ \E l \in page[d] : l.key = at[d]
      BY <1>1, <1>4 DEF Inv, ScansComplete, InFlight
    <2>2. page[d] = {m \in Stable : cursor[d] < m.key /\ m.key <= at[d]}
      <3>1. at[d] \in Nat
        BY DEF Inv, TypeOK
      <3> QED
        BY <2>1, <3>1, FlightTyped DEF Stable
    <2>3. PICK l \in Stable : cursor[d] < l.key /\ l.key = at[d]
      BY <2>1, <2>2
    <2>4. /\ cursor' = [cursor EXCEPT ![d] = l.key]
          /\ seen' = [seen EXCEPT ![d] =
                 @ \cup {m \in Stable : cursor[d] < m.key /\ m.key <= l.key}]
      BY <1>1, <1>4, <2>2, <2>3 DEF NextCursor
    <2> QED
      BY <1>2, <2>3, <2>4 DEF F!Advance
  <1> QED
    BY <1>3, <1>4

LEMMA StepRefines ==
    ASSUME Inv, Inv', [Next]_vars
    PROVE  [F!Next]_<<Stable, cursor, seen>>
  <1>1. ASSUME NEW w \in Writers, Transact(w)
        PROVE  F!Publish \/ UNCHANGED <<Stable, cursor, seen>>
    <2>1. ASSUME NEW e \in Entities, Bump(w, e)
          PROVE  UNCHANGED <<Stable, cursor, seen>>
      BY <2>1 DEF Bump, Stable, InFlight, deviceVars
    <2> QED
      BY <1>1, <2>1, LogChangeStutters, ClosePublishes DEF Transact
  <1>2. ASSUME NEW d \in Devices, Pull(d) \/ LoseReply(d)
        PROVE  F!Advance(d) \/ UNCHANGED <<Stable, cursor, seen>>
    <2>1. ASSUME Ask(d) \/ Scan(d) \/ LoseReply(d)
          PROVE  UNCHANGED <<Stable, cursor, seen>>
      BY <2>1 DEF Ask, Scan, LoseReply, Answered, tableVars, Stable, InFlight
    <2> QED
      BY <1>2, <2>1, ReplyAdvances DEF Pull
  <1>3. ASSUME UNCHANGED vars
        PROVE  UNCHANGED <<Stable, cursor, seen>>
    BY <1>3 DEF vars, tableVars, deviceVars, Stable, InFlight
  <1> QED
    BY <1>1, <1>2, <1>3 DEF Next, F!Next

(* The outbox with its transactions in flight, read by scans that wait,    *)
(* implements the ordered feed the devices are promised.                   *)
THEOREM OutboxImplementsFeed == ASSUME Blocking PROVE Spec => ImplementsFeed
  <1>1. Init => F!Init
    BY DEF Init, F!Init, Stable
  <1>2. Inv /\ Inv' /\ [Next]_vars => [F!Next]_(F!feedVars)
    BY StepRefines DEF F!feedVars
  <1> QED
    BY <1>1, <1>2, Invariance, PTL DEF Spec, ImplementsFeed, F!Spec

-----------------------------------------------------------------------------
(* Part 2: Pagination *)

(* What the client holds: nothing yet, the row it came to, or the whole    *)
(* list.                                                                   *)
AtAnchor ==
    /\ walk = "new" => token = NoToken /\ got = <<>>
    /\ walk = "more" => /\ got # <<>>
                        /\ token.ts = InMs(got[Len(got)].time) /\ token.id = got[Len(got)].id

WalkIndInv ==
    /\ WalkTypeOK
    /\ IsFiniteSet(rows)
    /\ AtAnchor
    /\ WalkOrdered

-----------------------------------------------------------------------------

LEMMA Bounds ==
    /\ MinLimit \in Nat \ {0} /\ DefaultLimit \in Nat \ {0} /\ MaxLimit \in Nat \ {0}
    /\ MaxTime \in Nat /\ MaxRows \in Nat /\ MaxDeploys \in Nat
    /\ Raw \subseteq Nat /\ Absent \notin Raw
BY PaginationAssumption

(* validateLimit() lets no limit below 1 through. *)
LEMMA LimitsPositive == Limits \subseteq Nat \ {0}
<1> SUFFICES ASSUME NEW p \in Params, EffectiveLimit(LimitParam(p)) # 0
             PROVE  EffectiveLimit(LimitParam(p)) \in Nat \ {0}
    BY DEF Limits
<1> DEFINE raw == LimitParam(p)
<1>1. raw \in Raw \cup {Absent}
    <2>1. \A a, b \in Raw \cup {Absent} : PickParam(a, b) \in Raw \cup {Absent}
        BY DEF PickParam
    <2>2. /\ p[1] \in Raw \cup {Absent} /\ p[2] \in Raw \cup {Absent}
          /\ p[3] \in Raw \cup {Absent} /\ p[4] \in Raw \cup {Absent}
        BY DEF Params
    <2>3. PickParam(p[1], p[2]) \in Raw \cup {Absent} /\ PickParam(p[3], p[4]) \in Raw \cup {Absent}
        BY <2>1, <2>2
    <2>4. PickParam(PickParam(p[1], p[2]), PickParam(p[3], p[4])) \in Raw \cup {Absent}
        BY <2>1, <2>3
    <2> QED
        BY <2>4 DEF LimitParam
<1> HIDE DEF raw
<1>2. CASE raw = Absent
    BY <1>2, Bounds DEF EffectiveLimit, raw
<1>3. CASE raw \in Raw
    <2>1. raw \in Nat /\ raw # Absent /\ MaxLimit \in Nat \ {0}
        BY <1>3, Bounds
    <2>2. CASE raw < MinLimit \/ (raw > MaxLimit /\ ~ClampMax)
        BY <2>1, <2>2 DEF EffectiveLimit, raw
    <2>3. CASE ~(raw < MinLimit) /\ ~(raw > MaxLimit /\ ~ClampMax)
        <3>1. raw >= 1
            BY <2>1, <2>3, Bounds
        <3>2. Min({raw, MaxLimit}) \in {raw, MaxLimit}
            <4>1. \E x \in {raw, MaxLimit} : \A y \in {raw, MaxLimit} : x <= y
                BY <2>1
            <4> QED
                BY <4>1 DEF Min
        <3>3. EffectiveLimit(raw) = Min({raw, MaxLimit})
            BY <2>1, <2>3 DEF EffectiveLimit
        <3> QED
            BY <2>1, <3>1, <3>2, <3>3 DEF raw
    <2> QED
        BY <2>2, <2>3
<1> QED
    BY <1>1, <1>2, <1>3 DEF raw

(* The index order is a strict total order. *)
LEMMA RowOrder ==
    /\ \A r \in AllRows : r.time \in Nat /\ r.id \in Nat /\ r.id > 0
    /\ \A r \in AllRows : ~Before(r, r)
    /\ \A r, s \in AllRows : r = s \/ Before(r, s) \/ Before(s, r)
    /\ \A r, s, u \in AllRows : Before(r, s) /\ Before(s, u) => Before(r, u)
<1>1. \A r \in AllRows : r.time \in Nat /\ r.id \in Nat /\ r.id > 0
    BY Bounds DEF AllRows
<1>2. \A r, s \in AllRows : r.time = s.time /\ r.id = s.id => r = s
    BY DEF AllRows
<1> QED
    BY <1>1, <1>2 DEF Before

(* A date in whole milliseconds is no later than the date. *)
LEMMA MsFloor == \A n \in Nat : InMs(n) \in Nat /\ InMs(n) <= n
<1>1. TicksPerMs \in Nat \ {0}
    BY PaginationAssumption
<1>2. ASSUME NEW n \in Nat PROVE n % TicksPerMs \in Nat /\ n % TicksPerMs <= n
    BY <1>1
<1> QED
    BY <1>2 DEF InMs

(* Every row of a list has a place of its own, and every place its row. *)
LEMMA Places ==
    ASSUME NEW S \in SUBSET AllRows, IsFiniteSet(S)
    PROVE  /\ Cardinality(S) \in Nat
           /\ \A r \in S : Place(r, S) \in 1..Cardinality(S)
           /\ \A r, s \in S : Before(r, s) <=> Place(r, S) < Place(s, S)
           /\ \A i \in 1..Cardinality(S) : \E r \in S : Place(r, S) = i
<1> DEFINE Up(r) == {s \in S : Before(s, r)}
           n == Cardinality(S)
<1>1. n \in Nat
    BY FS_CardinalityType
<1>2. \A r \in S : Up(r) \in SUBSET S /\ r \notin Up(r) /\ IsFiniteSet(Up(r))
    BY RowOrder, FS_Subset
<1>3. ASSUME NEW r \in S
      PROVE  /\ Place(r, S) = Cardinality(Up(r)) + 1 /\ Cardinality(Up(r)) \in Nat
             /\ Place(r, S) \in Nat
    <2>1. Cardinality(Up(r)) \in Nat
        BY <1>2, FS_CardinalityType
    <2>2. Place(r, S) = Cardinality(Up(r)) + 1
        BY DEF Place
    <2> QED
        BY <2>1, <2>2
<1>4. ASSUME NEW r \in S PROVE Place(r, S) \in 1..n
    <2>1. Cardinality(Up(r)) <= n /\ (n = Cardinality(Up(r)) => S = Up(r))
        BY <1>2, FS_Subset
    <2>2. Cardinality(Up(r)) # n
        BY <1>2, <2>1
    <2> QED
        BY <1>1, <1>3, <2>1, <2>2
<1>5. ASSUME NEW r \in S, NEW s \in S, Before(r, s) PROVE Place(r, S) < Place(s, S)
    <2>1. Up(r) \in SUBSET Up(s) /\ r \in Up(s)
        BY <1>5, RowOrder
    <2>2. Cardinality(Up(r)) <= Cardinality(Up(s))
          /\ (Cardinality(Up(s)) = Cardinality(Up(r)) => Up(s) = Up(r))
        BY <1>2, <2>1, FS_Subset
    <2>3. Cardinality(Up(r)) # Cardinality(Up(s))
        BY <1>2, <2>1, <2>2
    <2> QED
        BY <1>3, <2>2, <2>3
<1>6. ASSUME NEW r \in S, NEW s \in S PROVE Before(r, s) <=> Place(r, S) < Place(s, S)
    <2>1. Place(r, S) \in Nat /\ Place(s, S) \in Nat
        BY <1>3
    <2>2. r = s \/ Before(r, s) \/ Before(s, r)
        BY RowOrder
    <2>3. ~Before(r, r)
        BY RowOrder
    <2>4. CASE r = s
        BY <2>1, <2>3, <2>4
    <2>5. CASE Before(r, s)
        BY <1>5, <2>5
    <2>6. CASE Before(s, r)
        <3>1. Place(s, S) < Place(r, S)
            BY <1>5, <2>6
        <3>2. ~Before(r, s)
            BY <2>3, <2>6, RowOrder
        <3> QED
            BY <2>1, <3>1, <3>2
    <2> QED
        BY <2>2, <2>4, <2>5, <2>6
<1>7. \A i \in 1..n : \E r \in S : Place(r, S) = i
    <2> DEFINE f == [r \in S |-> Place(r, S)]
    <2>1. f \in Injection(S, 1..n)
        <3>1. f \in [S -> 1..n]
            BY <1>4
        <3>2. ASSUME NEW r \in S, NEW s \in S, f[r] = f[s] PROVE r = s
            <4>1. Place(r, S) = Place(s, S) /\ Place(r, S) \in Nat
                BY <1>3, <3>2
            <4>2. ~Before(r, s) /\ ~Before(s, r)
                BY <1>6, <4>1
            <4> QED
                BY <4>2, RowOrder DEF Before
        <3> QED
            BY <3>1, <3>2 DEF Injection, IsInjective
    <2>2. IsFiniteSet(1..n) /\ Cardinality(1..n) = n
        BY <1>1, FS_Interval
    <2>3. f \in Surjection(S, 1..n)
        BY <2>1, <2>2, FS_Injection
    <2> QED
        BY <2>3 DEF Surjection
<1> QED
    BY <1>1, <1>4, <1>6, <1>7

(* ORDER BY returns every row once, in order. *)
LEMMA OrderedIsSorted ==
    ASSUME NEW S \in SUBSET AllRows, IsFiniteSet(S)
    PROVE  /\ Ordered(S) \in Seq(S) /\ Len(Ordered(S)) = Cardinality(S)
           /\ Cardinality(S) \in Nat
           /\ \A r \in S : \E i \in 1..Cardinality(S) : Ordered(S)[i] = r
           /\ \A i, j \in 1..Cardinality(S) : i < j <=> Before(Ordered(S)[i], Ordered(S)[j])
<1> DEFINE n == Cardinality(S)
           L == Ordered(S)
<1>1. n \in Nat
    BY Places
<1>2. ASSUME NEW i \in 1..n PROVE L[i] \in S /\ Place(L[i], S) = i
    <2>1. \E r \in S : Place(r, S) = i
        BY Places
    <2>2. L[i] = CHOOSE r \in S : Place(r, S) = i
        BY DEF Ordered
    <2> QED
        BY <2>1, <2>2
<1>3. L \in [1..n -> S] /\ L \in Seq(S) /\ Len(L) = n
    BY <1>1, <1>2 DEF Ordered
<1>4. ASSUME NEW r \in S PROVE \E i \in 1..n : L[i] = r
    <2>1. Place(r, S) \in 1..n
        BY Places
    <2>2. L[Place(r, S)] \in S /\ Place(L[Place(r, S)], S) = Place(r, S)
        BY <1>2, <2>1
    <2>3. ~Before(L[Place(r, S)], r) /\ ~Before(r, L[Place(r, S)])
        BY <1>1, <2>1, <2>2, Places
    <2>4. L[Place(r, S)] = r
        BY <2>2, <2>3, RowOrder
    <2> QED
        BY <2>1, <2>4
<1>5. ASSUME NEW i \in 1..n, NEW j \in 1..n PROVE i < j <=> Before(L[i], L[j])
    BY <1>2, Places
<1> QED
    BY <1>1, <1>3, <1>4, <1>5

(* A page holds what comes first below the cursor; only what comes after   *)
(* its last row is left for the next one.                                  *)
LEMMA PageFacts ==
    ASSUME NEW t, Below(t) \in SUBSET AllRows, IsFiniteSet(Below(t)), NEW limit \in Nat \ {0}
    PROVE  LET fetched == Fetched(t, limit)
               P == PageOf(fetched, limit)
           IN  /\ P \in Seq(AllRows) /\ Len(P) \in Nat
               /\ \A i \in 1..Len(P) : P[i] \in Below(t)
               /\ \A i, j \in 1..Len(P) : i < j => Before(P[i], P[j])
               /\ HasMore(fetched, limit) => Len(P) > 0
               /\ HasMore(fetched, limit) =>
                      \A r \in Below(t) : (\E i \in 1..Len(P) : P[i] = r) \/ Before(P[Len(P)], r)
               /\ ~HasMore(fetched, limit) => \A r \in Below(t) : \E i \in 1..Len(P) : P[i] = r
<1> DEFINE B == Below(t)
           L == Ordered(B)
           n == Cardinality(B)
           k == Min({limit + 1, Len(L)})
           fetched == Fetched(t, limit)
           m == Min({limit, Len(fetched)})
           P == PageOf(fetched, limit)
<1>1. /\ L \in Seq(B) /\ Len(L) = n /\ n \in Nat
      /\ \A r \in B : \E i \in 1..n : L[i] = r
      /\ \A i, j \in 1..n : i < j <=> Before(L[i], L[j])
    BY OrderedIsSorted
<1>2. ASSUME NEW a \in Nat, NEW b \in Nat PROVE Min({a, b}) = IF a <= b THEN a ELSE b
    <2>1. \A x \in {a, b} : (\A y \in {a, b} : x <= y) <=> x = (IF a <= b THEN a ELSE b)
        OBVIOUS
    <2> QED
        BY <2>1 DEF Min
<1>3. k = IF limit + 1 <= n THEN limit + 1 ELSE n
    BY <1>1, <1>2
<1>4. fetched = SubSeq(L, 1, k)
    BY DEF Fetched
<1> HIDE DEF L, n, k, fetched
<1>5. k \in Nat /\ k <= n
    BY <1>1, <1>3
<1>6. \A i \in 1..n : L[i] \in B
    BY <1>1, ElementOfSeq
<1>7. fetched \in Seq(B) /\ Len(fetched) = k /\ \A i \in 1..k : fetched[i] = L[i]
    <2>1. \A i \in 1..k : L[i] \in B
        BY <1>1, <1>5, <1>6
    <2>2. /\ SubSeq(L, 1, k) \in Seq(B)
          /\ Len(SubSeq(L, 1, k)) = IF 1 <= k THEN k - 1 + 1 ELSE 0
          /\ \A i \in 1..k-1+1 : SubSeq(L, 1, k)[i] = L[1 + i - 1]
        BY <1>5, <2>1, SubSeqProperties
    <2> QED
        BY <1>4, <1>5, <2>2
<1>8. m = (IF limit <= k THEN limit ELSE k) /\ P = SubSeq(fetched, 1, m)
    BY <1>2, <1>5, <1>7 DEF PageOf
<1>9. HasMore(fetched, limit) <=> k > limit
    BY <1>7 DEF HasMore
<1> HIDE DEF m, P
<1>10. m \in Nat /\ m <= k /\ m <= n
    BY <1>1, <1>5, <1>8
<1>11. P \in Seq(B) /\ Len(P) = m /\ \A i \in 1..m : P[i] = L[i]
    <2>1. \A i \in 1..m : fetched[i] \in B /\ fetched[i] = L[i]
        BY <1>1, <1>5, <1>6, <1>7, <1>10
    <2>2. /\ SubSeq(fetched, 1, m) \in Seq(B)
          /\ Len(SubSeq(fetched, 1, m)) = IF 1 <= m THEN m - 1 + 1 ELSE 0
          /\ \A i \in 1..m-1+1 : SubSeq(fetched, 1, m)[i] = fetched[1 + i - 1]
        BY <1>10, <2>1, SubSeqProperties
    <2> QED
        BY <1>8, <1>10, <2>1, <2>2
<1>12. P \in Seq(AllRows)
    BY <1>11, SeqMonotonic
<1>13. \A i \in 1..m : P[i] \in B /\ i \in 1..n
    BY <1>1, <1>6, <1>10, <1>11
<1>14. \A i, j \in 1..m : i < j => Before(P[i], P[j])
    BY <1>1, <1>11, <1>13
<1>15. ASSUME HasMore(fetched, limit)
       PROVE  m > 0 /\ \A r \in B : (\E i \in 1..m : P[i] = r) \/ Before(P[m], r)
    <2>1. m = limit /\ m \in 1..n
        BY <1>5, <1>8, <1>9, <1>10, <1>15
    <2>2. ASSUME NEW r \in B, ~\E i \in 1..m : P[i] = r PROVE Before(P[m], r)
        <3>1. PICK i \in 1..n : L[i] = r
            BY <1>1
        <3>2. m < i
            BY <1>10, <1>11, <2>2, <3>1
        <3>3. Before(L[m], L[i])
            BY <1>1, <2>1, <3>1, <3>2
        <3> QED
            BY <1>11, <2>1, <3>1, <3>3
    <2> QED
        BY <2>1, <2>2
<1>16. ASSUME ~HasMore(fetched, limit) PROVE \A r \in B : \E i \in 1..m : P[i] = r
    <2>1. m = n
        BY <1>1, <1>3, <1>5, <1>8, <1>9, <1>16
    <2> QED
        BY <1>1, <1>11, <2>1
<1> QED
    BY <1>10, <1>11, <1>12, <1>13, <1>14, <1>15, <1>16 DEF fetched, P

(* A page is appended in order, and the rows it did not come to stay below *)
(* the next cursor.                                                        *)
LEMMA FetchStep ==
    ASSUME WalkIndInv, NEW limit \in Limits, FetchPage(limit)
    PROVE  WalkIndInv'
<1> DEFINE B == Below(token)
           fetched == Fetched(token, limit)
           P == PageOf(fetched, limit)
<1>1. /\ rows \subseteq AllRows /\ IsFiniteSet(rows) /\ got \in Seq(AllRows)
      /\ stayed \subseteq rows /\ secret \in 1..(MaxDeploys + 1)
    BY DEF WalkIndInv, WalkTypeOK
<1>2. B \in SUBSET rows /\ B \in SUBSET AllRows /\ IsFiniteSet(B)
    <2>1. B \in SUBSET rows
        BY DEF Below
    <2> QED
        BY <1>1, <2>1, FS_Subset
<1>3. limit \in Nat \ {0}
    BY LimitsPositive
<1>4. /\ P \in Seq(AllRows) /\ Len(P) \in Nat
      /\ \A i \in 1..Len(P) : P[i] \in B
      /\ \A i, j \in 1..Len(P) : i < j => Before(P[i], P[j])
      /\ HasMore(fetched, limit) => Len(P) > 0
      /\ HasMore(fetched, limit) =>
             \A r \in B : (\E i \in 1..Len(P) : P[i] = r) \/ Before(P[Len(P)], r)
      /\ ~HasMore(fetched, limit) => \A r \in B : \E i \in 1..Len(P) : P[i] = r
    BY <1>2, <1>3, PageFacts
<1>5. /\ walk \in {"new", "more"} /\ got' = got \o P
      /\ IF HasMore(fetched, limit)
         THEN walk' = "more" /\ token' = EncodeCursor(Anchor(fetched, limit))
         ELSE walk' = "done" /\ token' = NoToken
      /\ stayed' = IF walk = "new" THEN rows ELSE stayed
      /\ UNCHANGED <<rows, lastId, secret>>
    BY DEF FetchPage, WalkIndInv, WalkTypeOK
<1>6. Anchor(fetched, limit) = P[Len(P)]
    BY DEF Anchor, Last
<1> HIDE DEF B, fetched, P
<1>7. /\ Len(got) \in Nat /\ Len(got') = Len(got) + Len(P) /\ got' \in Seq(AllRows)
      /\ \A i \in 1..Len(got') : got'[i] = IF i <= Len(got) THEN got[i] ELSE P[i - Len(got)]
    BY <1>1, <1>4, <1>5, ConcatProperties, LenProperties
<1>8. Range(got') = Range(got) \cup Range(P)
    BY <1>1, <1>4, <1>5, RangeConcatenation
<1>9. \A r \in AllRows : EncodeCursor(r) = [ts |-> InMs(r.time), id |-> r.id, secret |-> secret]
    BY DEF EncodeCursor
<1>10. ASSUME HasMore(fetched, limit)
       PROVE  /\ P[Len(P)] \in AllRows /\ P[Len(P)] \in B /\ got'[Len(got')] = P[Len(P)]
              /\ token' = [ts |-> InMs(P[Len(P)].time), id |-> P[Len(P)].id, secret |-> secret]
              /\ walk' = "more" /\ got' # <<>>
    <2>1. Len(P) \in 1..Len(P) /\ Len(got') \in 1..Len(got') /\ ~(Len(got') <= Len(got))
        BY <1>4, <1>7, <1>10
    <2>2. P[Len(P)] \in B /\ P[Len(P)] \in AllRows
        BY <1>2, <1>4, <2>1
    <2>3. Len(got') - Len(got) = Len(P)
        BY <1>4, <1>7
    <2>4. got'[Len(got')] = P[Len(P)]
        BY <1>7, <2>1, <2>3
    <2>5. got' # <<>>
        BY <1>7, <2>1, EmptySeq
    <2> QED
        BY <1>5, <1>6, <1>9, <1>10, <2>2, <2>4, <2>5
<1>11. WalkTypeOK'
    <2>1. token' \in [ts : 0..MaxTime, id : 0..MaxRows, secret : 0..(MaxDeploys + 1)]
        <3>1. CASE HasMore(fetched, limit)
            <4>1. InMs(P[Len(P)].time) \in 0..MaxTime /\ P[Len(P)].id \in 0..MaxRows
                <5>1. P[Len(P)].time \in 0..MaxTime /\ P[Len(P)].id \in 0..MaxRows
                    BY <1>10, <3>1, Bounds DEF AllRows
                <5>2. \A t \in 0..MaxTime : InMs(t) \in 0..MaxTime
                    <6> SUFFICES ASSUME NEW t \in 0..MaxTime PROVE InMs(t) \in 0..MaxTime
                        OBVIOUS
                    <6>1. t \in Nat /\ t <= MaxTime /\ MaxTime \in Nat
                        BY Bounds
                    <6>2. InMs(t) \in Nat /\ InMs(t) <= t
                        BY <6>1, MsFloor
                    <6> QED
                        BY <6>1, <6>2
                <5> QED
                    BY <5>1, <5>2
            <4>2. secret \in 0..(MaxDeploys + 1)
                BY <1>1, Bounds
            <4> QED
                BY <1>10, <3>1, <4>1, <4>2
        <3>2. CASE ~HasMore(fetched, limit)
            BY <1>5, <3>2, Bounds DEF NoToken
        <3> QED
            BY <3>1, <3>2
    <2>2. walk' \in {"new", "more", "done"} /\ stayed' \subseteq rows'
        BY <1>1, <1>5
    <2>3. rows' \subseteq AllRows /\ lastId' \in 0..MaxRows /\ secret' \in 1..(MaxDeploys + 1)
        BY <1>5 DEF WalkIndInv, WalkTypeOK
    <2> QED
        BY <1>7, <2>1, <2>2, <2>3 DEF WalkTypeOK
<1>12. AtAnchor'
    <2>1. walk' # "new"
        BY <1>5
    <2>2. walk' = "more" => HasMore(fetched, limit)
        BY <1>5
    <2> QED
        BY <1>10, <2>1, <2>2 DEF AtAnchor
<1>13. PagesInOrder'
    <2> SUFFICES ASSUME NEW i \in 1..(Len(got') - 1) PROVE Before(got'[i], got'[i + 1])
        BY DEF PagesInOrder
    <2>1. i \in 1..Len(got') /\ i + 1 \in 1..Len(got') /\ i \in Nat
        BY <1>4, <1>7
    <2>2. CASE i < Len(got)
        <3>1. got'[i] = got[i] /\ got'[i + 1] = got[i + 1] /\ i \in 1..(Len(got) - 1)
            BY <1>7, <2>1, <2>2
        <3> QED
            BY <3>1 DEF WalkIndInv, WalkOrdered, PagesInOrder
    <2>3. CASE i = Len(got)
        <3>1. got'[i] = got[i] /\ got'[i + 1] = P[1] /\ 1 \in 1..Len(P)
            BY <1>4, <1>7, <2>1, <2>3
        <3>2. P[1] \in B /\ P[1] \in AllRows /\ got[i] \in AllRows
            BY <1>1, <1>2, <1>4, <1>7, <2>1, <2>3, <3>1, ElementOfSeq
        <3>3. got # <<>>
            BY <1>7, <2>1, <2>3
        <3>4. walk = "more"
            BY <1>5, <3>3 DEF WalkIndInv, AtAnchor
        <3>5. token.ts = InMs(got[i].time) /\ token.id = got[i].id
              /\ InMs(got[i].time) \in Nat /\ InMs(got[i].time) <= got[i].time
            BY <2>3, <3>2, <3>4, MsFloor, RowOrder DEF WalkIndInv, AtAnchor
        <3>6. token # NoToken
            BY <3>2, <3>5, RowOrder DEF NoToken
        <3>7. P[1].time < token.ts \/ (P[1].time = token.ts /\ P[1].id < token.id)
            BY <3>2, <3>6 DEF B, Below
        <3>8. Before(got[i], P[1])
            BY <3>2, <3>5, <3>7, RowOrder DEF Before
        <3> QED
            BY <3>1, <3>8
    <2>4. CASE i > Len(got)
        <3> DEFINE h == i - Len(got)
        <3>1. h \in 1..Len(P) /\ h + 1 \in 1..Len(P) /\ h < h + 1
              /\ (i + 1) - Len(got) = h + 1
            BY <1>4, <1>7, <2>1, <2>4
        <3>2. got'[i] = P[h] /\ got'[i + 1] = P[h + 1]
            <4>1. ~(i <= Len(got)) /\ ~(i + 1 <= Len(got))
                BY <1>7, <2>1, <2>4
            <4> QED
                BY <1>7, <2>1, <3>1, <4>1
        <3> HIDE DEF h
        <3> QED
            BY <1>4, <3>1, <3>2
    <2> QED
        BY <1>7, <2>1, <2>2, <2>3, <2>4
<1>14. \A i \in 1..Len(P) : P[i] \in Range(P)
    BY <1>4, RangeEquality
<1>15. stayed' \subseteq Range(got) \cup B \cup CutOff
    <2>1. CASE walk = "new"
        <3>1. B = rows
            BY <2>1 DEF B, Below, WalkIndInv, AtAnchor
        <3> QED
            BY <1>5, <2>1, <3>1
    <2>2. CASE walk = "more"
        BY <1>5, <2>2 DEF WalkIndInv, WalkOrdered, B
    <2> QED
        BY <1>5, <2>1, <2>2
<1>16. CutOff \subseteq CutOff'
    BY <1>8 DEF CutOff
<1>17. ASSUME HasMore(fetched, limit)
       PROVE  stayed' \subseteq Range(got') \cup Below(token)' \cup CutOff'
    <2> SUFFICES ASSUME NEW r \in stayed', r \notin Range(got'), r \notin CutOff'
                 PROVE  r \in Below(token)'
        OBVIOUS
    <2>1. r \in B /\ r \in rows /\ r \in AllRows
        BY <1>2, <1>8, <1>15, <1>16
    <2> DEFINE s == P[Len(P)]
    <2>2. s \in AllRows /\ s \in Range(got')
        BY <1>4, <1>8, <1>10, <1>14, <1>17
    <2>3. Before(s, r)
        BY <1>4, <1>8, <1>14, <1>17, <2>1
    <2>4. token'.ts = InMs(s.time) /\ token'.id = s.id
        BY <1>10, <1>17
    <2> HIDE DEF s
    <2>5. ~(InMs(s.time) < r.time \/ (InMs(s.time) = r.time /\ s.id <= r.id))
        BY <2>1, <2>2, <2>3 DEF CutOff
    <2>6. /\ r.time \in Nat /\ r.id \in Nat /\ s.time \in Nat /\ s.id \in Nat
          /\ InMs(s.time) \in Nat
        BY <2>1, <2>2, RowOrder, MsFloor
    <2>7. r.time < token'.ts \/ (r.time = token'.ts /\ r.id < token'.id)
        BY <2>4, <2>5, <2>6
    <2> QED
        BY <1>5, <2>1, <2>7 DEF Below
<1>18. WalkOrdered'
    <2>1. CASE HasMore(fetched, limit)
        BY <1>5, <1>13, <1>17, <2>1 DEF WalkOrdered
    <2>2. CASE ~HasMore(fetched, limit)
        <3>1. stayed' \subseteq Range(got') \cup CutOff'
            BY <1>4, <1>8, <1>14, <1>15, <1>16, <2>2
        <3> QED
            BY <1>5, <1>13, <2>2, <3>1 DEF WalkOrdered
    <2> QED
        BY <2>1, <2>2
<1>19. IsFiniteSet(rows')
    BY <1>1, <1>5
<1> QED
    BY <1>11, <1>12, <1>18, <1>19 DEF WalkIndInv

(* Rows that come and go, and new secrets, leave the pages alone; a row    *)
(* that stayed stays below the cursor.                                     *)
LEMMA TableStep ==
    ASSUME WalkIndInv,
           \/ \E t \in 0..MaxTime : Insert(t)
           \/ \E r \in rows : Delete(r)
           \/ Deploy
           \/ UNCHANGED walkVars
    PROVE  WalkIndInv'
<1>1. UNCHANGED <<token, walk, got>>
    BY DEF Insert, Delete, Deploy, walkVars
<1>2. /\ IsFiniteSet(rows') /\ rows' \subseteq AllRows /\ lastId' \in 0..MaxRows
      /\ secret' \in 1..(MaxDeploys + 1)
      /\ stayed' \subseteq stayed /\ stayed' \subseteq rows'
      /\ \A r \in rows : r \in stayed' => r \in rows'
    <2> USE DEF WalkIndInv, WalkTypeOK
    <2>1. ASSUME NEW t \in 0..MaxTime, Insert(t)
          PROVE  /\ IsFiniteSet(rows') /\ rows' \subseteq AllRows /\ lastId' \in 0..MaxRows
                 /\ UNCHANGED <<secret, stayed>> /\ rows \subseteq rows'
        <3>1. lastId \in 0..MaxRows /\ lastId < MaxRows /\ MaxRows \in Nat
            BY <2>1, Bounds DEF Insert
        <3>2. lastId + 1 \in 1..MaxRows /\ lastId + 1 \in 0..MaxRows
            BY <3>1
        <3>3. [time |-> t, id |-> lastId + 1] \in AllRows
            BY <3>2 DEF AllRows
        <3>4. IsFiniteSet(rows \cup {[time |-> t, id |-> lastId + 1]})
            BY FS_AddElement
        <3> QED
            BY <2>1, <3>2, <3>3, <3>4 DEF Insert
    <2>2. ASSUME NEW r \in rows, Delete(r)
          PROVE  /\ IsFiniteSet(rows') /\ rows' = rows \ {r} /\ stayed' = stayed \ {r}
                 /\ UNCHANGED <<secret, lastId>>
        BY <2>2, FS_RemoveElement DEF Delete
    <2>3. CASE Deploy
        <3>1. secret' \in 1..(MaxDeploys + 1)
            BY <2>3, Bounds DEF Deploy
        <3> QED
            BY <2>3, <3>1 DEF Deploy
    <2>4. CASE UNCHANGED walkVars
        BY <2>4 DEF walkVars
    <2> QED
        BY <2>1, <2>2, <2>3, <2>4
<1>3. WalkTypeOK'
    BY <1>1, <1>2 DEF WalkIndInv, WalkTypeOK
<1>4. AtAnchor' /\ PagesInOrder' /\ CutOff' = CutOff
    BY <1>1 DEF WalkIndInv, AtAnchor, WalkOrdered, PagesInOrder, CutOff
<1>5. WalkOrdered'
    <2>1. walk = "more" => stayed' \subseteq Range(got) \cup Below(token)' \cup CutOff
        <3> SUFFICES ASSUME walk = "more", NEW r \in stayed', r \notin Range(got), r \notin CutOff
                     PROVE  r \in Below(token)'
            OBVIOUS
        <3>1. r \in Below(token)
            BY <1>2 DEF WalkIndInv, WalkOrdered
        <3>2. r \in rows'
            BY <1>2
        <3> QED
            BY <1>1, <3>1, <3>2 DEF Below
    <2>2. walk = "done" => stayed' \subseteq Range(got) \cup CutOff
        BY <1>2 DEF WalkIndInv, WalkOrdered
    <2> QED
        BY <1>1, <1>4, <2>1, <2>2 DEF WalkOrdered
<1> QED
    BY <1>2, <1>3, <1>4, <1>5 DEF WalkIndInv

-----------------------------------------------------------------------------

LEMMA WalkInvariant == WalkSpec => []WalkIndInv
<1>1. WalkInit => WalkIndInv
    <2> SUFFICES ASSUME NEW n \in 0..MaxRows, NEW time \in [1..n -> 0..MaxTime],
                        rows = {[time |-> time[i], id |-> i] : i \in 1..n}, lastId = n,
                        secret = 1, token = NoToken, walk = "new", got = <<>>, stayed = {}
                 PROVE  WalkIndInv
        BY DEF WalkInit
    <2>1. n \in Nat /\ n <= MaxRows
        BY Bounds
    <2>2. IsFiniteSet(1..n)
        BY <2>1, FS_Interval
    <2>3. IsFiniteSet(rows)
        <3> DEFINE f == [i \in 1..n |-> [time |-> time[i], id |-> i]]
        <3>1. f \in Surjection(1..n, rows)
            BY DEF Surjection
        <3> QED
            BY <2>2, <3>1, FS_Surjection
    <2>4. \A i \in 1..n : i \in 1..MaxRows /\ time[i] \in 0..MaxTime
        BY <2>1, Bounds
    <2>5. rows \subseteq AllRows
        BY <2>4 DEF AllRows
    <2>6. got \in Seq(AllRows) /\ Len(got) = 0
        BY EmptySeq
    <2>7. WalkTypeOK
        BY <2>1, <2>5, <2>6, Bounds DEF WalkTypeOK, NoToken
    <2>8. PagesInOrder
        BY <2>6 DEF PagesInOrder
    <2> QED
        BY <2>3, <2>7, <2>8 DEF WalkIndInv, AtAnchor, WalkOrdered
<1>2. WalkIndInv /\ [WalkNext]_walkVars => WalkIndInv'
    <2> SUFFICES ASSUME WalkIndInv, [WalkNext]_walkVars PROVE WalkIndInv'
        OBVIOUS
    <2>1. CASE StartOver
        <3>1. /\ token' = NoToken /\ walk' = "new" /\ got' = <<>> /\ stayed' = {}
              /\ UNCHANGED <<rows, lastId, secret>>
            BY <2>1 DEF StartOver
        <3>2. got' \in Seq(AllRows) /\ Len(got') = 0
            BY <3>1, EmptySeq
        <3>3. WalkTypeOK'
            BY <3>1, <3>2, Bounds DEF WalkIndInv, WalkTypeOK, NoToken
        <3>4. PagesInOrder'
            BY <3>2 DEF PagesInOrder
        <3>5. AtAnchor' /\ WalkOrdered' /\ IsFiniteSet(rows')
            BY <3>1, <3>4 DEF AtAnchor, WalkOrdered, WalkIndInv
        <3> QED
            BY <3>3, <3>5 DEF WalkIndInv
    <2>2. CASE \E limit \in Limits : FetchPage(limit)
        BY <2>2, FetchStep
    <2> QED
        BY <2>1, <2>2, TableStep DEF WalkNext
<1> QED
    BY <1>1, <1>2, PTL DEF WalkSpec

(* utils/pagination.js: whatever the resolution of the sort column and of  *)
(* the cursor, page sizes, inserts, deletes and new secrets, a walk shows  *)
(* no row twice and in order, and leaves out no row that was there all     *)
(* along but the rest of the millisecond of a row it shows.                *)
THEOREM WalksLoseOnlyTies == WalkSpec => []WalkOrdered
<1>1. WalkIndInv => WalkOrdered
    BY DEF WalkIndInv
<1> QED
    BY <1>1, WalkInvariant, PTL

(* What is cut off lies between a row of the pages and the start of that   *)
(* row's millisecond.                                                      *)
LEMMA CutOffTies ==
    ASSUME WalkTypeOK
    PROVE  \A r \in CutOff : \E s \in Range(got) : InMs(s.time) <= r.time /\ r.time <= s.time
<1>1. \A s \in Range(got) : s \in AllRows
    BY RangeEquality, ElementOfSeq DEF WalkTypeOK
<1>2. ASSUME NEW r \in AllRows, NEW s \in Range(got), Before(s, r),
             InMs(s.time) < r.time \/ (InMs(s.time) = r.time /\ s.id <= r.id)
      PROVE  InMs(s.time) <= r.time /\ r.time <= s.time
    <2>1. /\ r.time \in Nat /\ r.id \in Nat /\ s.time \in Nat /\ s.id \in Nat
          /\ InMs(s.time) \in Nat
        BY <1>1, RowOrder, MsFloor
    <2> QED
        BY <1>2, <2>1 DEF Before
<1> QED
    BY <1>2 DEF CutOff

(* utils/pagination.js: a walk cannot run in a circle.  Each cursor is     *)
(* below the one before it, whatever the resolution of the sort column,    *)
(* also when rows keep appearing above it.                                 *)
THEOREM WalksAdvance == WalkSpec => WalkAdvances
<1>1. ASSUME WalkIndInv, NEW limit \in Limits, FetchPage(limit) PROVE Descends
    <2> SUFFICES ASSUME walk' # "done", token # NoToken
                 PROVE  token'.ts < token.ts \/ (token'.ts = token.ts /\ token'.id < token.id)
        BY DEF Descends
    <2> DEFINE B == Below(token)
               fetched == Fetched(token, limit)
               P == PageOf(fetched, limit)
               s == P[Len(P)]
    <2>1. HasMore(fetched, limit) /\ token' = EncodeCursor(Anchor(fetched, limit))
        BY <1>1 DEF FetchPage
    <2>2. /\ B \in SUBSET rows /\ B \in SUBSET AllRows /\ IsFiniteSet(B)
          /\ limit \in Nat \ {0}
        <3>1. B \in SUBSET rows
            BY DEF Below
        <3> QED
            BY <1>1, <3>1, FS_Subset, LimitsPositive DEF WalkIndInv, WalkTypeOK
    <2>3. Len(P) \in Nat /\ Len(P) > 0 /\ \A i \in 1..Len(P) : P[i] \in B
        BY <2>1, <2>2, PageFacts
    <2>4. s \in B /\ s \in AllRows
        BY <2>2, <2>3
    <2>5. token'.ts = InMs(s.time) /\ token'.id = s.id
        BY <2>1 DEF EncodeCursor, Anchor, Last
    <2>6. s.time < token.ts \/ (s.time = token.ts /\ s.id < token.id)
        BY <2>4 DEF Below
    <2> HIDE DEF s
    <2>7. s.time \in Nat /\ s.id \in Nat /\ InMs(s.time) \in Nat /\ InMs(s.time) <= s.time
        BY <2>4, RowOrder, MsFloor
    <2>8. token.ts \in Nat /\ token.id \in Nat
        BY <1>1, Bounds DEF WalkIndInv, WalkTypeOK
    <2> QED
        BY <2>5, <2>6, <2>7, <2>8
<1>2. WalkIndInv /\ [WalkNext]_walkVars =>
          [(\E limit \in Limits : FetchPage(limit)) => Descends]_walkVars
    BY <1>1
<1> QED
    BY <1>2, WalkInvariant, PTL DEF WalkSpec, WalkAdvances

=============================================================================
