--------------------------- MODULE SyncQueueProofs ---------------------------
(***************************************************************************)
(* Proofs, for every set of items and workers and every bound, of the      *)
(* safety properties of SyncQueue.  The properties are not inductive by    *)
(* themselves: that the effects agree with the rows needs to know who      *)
(* holds a row and in which phase, and that needs the shape of a worker's  *)
(* local state.                                                            *)
(*                                                                         *)
(* From the same invariant follows the refinement of SyncQueueInbox: each  *)
(* step of the queue is a step of the inbox or leaves it alone, and the    *)
(* invariant tells which, for it says what the row of a held, undisturbed  *)
(* item looks like in each phase of its worker.                            *)
(***************************************************************************)
EXTENDS ConflictResolution, SyncQueueInbox, TLAPS

(* What a worker has in memory in each phase. *)
WorkerShape ==
    \A w \in Workers :
        /\ pc[w] = "idle" => batch[w] = {}
        /\ pc[w] \in {"idle", "loop"} => cur[w] = None
        /\ pc[w] \in Busy => cur[w] \in Items /\ cur[w] \notin batch[w]

(* A worker about to call markSynced has a committed write behind it. *)
EffectBehindSync ==
    /\ NoPhantomSync
    /\ \A w \in Workers : pc[w] = "applied" => applied[cur[w]] > 0

(* Undisturbed, a committed write is one write, and its row is SYNCED or   *)
(* about to be.                                                            *)
EffectMatchesRow ==
    \A i \in Items \ (overrun \cup torn) : applied[i] > 0 =>
        /\ applied[i] = 1
        /\ status[i] = "SYNCED" \/ \E w \in Workers : pc[w] = "applied" /\ cur[w] = i

(* An open conflict is not being logged a second time. *)
LogMatchesRow ==
    /\ ConflictOnRecord
    /\ \A i \in Items \ overrun : \A w \in Workers :
           pc[w] = "logging" /\ cur[w] = i => open[i] = 0

IndInv ==
    /\ TypeOK
    /\ WorkerShape
    /\ BudgetRespected
    /\ ExclusiveClaim
    /\ EffectBehindSync
    /\ EffectMatchesRow
    /\ LogMatchesRow

-----------------------------------------------------------------------------

(* The TOP (n) rows of a candidate set are candidates. *)
LEMMA OldestSubset == \A S, n : Oldest(S, n) \subseteq S
  BY DEF Oldest

(* Every step keeps the tables, the workers and the bounds well-typed. *)
LEMMA TypeStep == ConstantsAssumption /\ TypeOK /\ WorkerShape /\ [Next]_vars => TypeOK'
<1> SUFFICES ASSUME ConstantsAssumption, TypeOK, WorkerShape, [Next]_vars
             PROVE  TypeOK'
  OBVIOUS
<1> USE DEF TypeOK, ConstantsAssumption, Statuses, Phases
<1>0. \A w \in Workers : pc[w] \in {"applied", "conflict", "logging", "failed"} => cur[w] \in Items
  BY DEF WorkerShape, Busy
<1>1. ASSUME NEW i \in Items, Enqueue(i) PROVE TypeOK'
  BY <1>1 DEF Enqueue, workerVars, seenVars, boundVars
<1>2. ASSUME NEW i \in Items, PushAgain(i) PROVE TypeOK'
  BY <1>2 DEF PushAgain, rowVars, workerVars, boundVars
<1>3. ASSUME NEW i \in Items, Requeue(i) PROVE TypeOK'
  BY <1>3 DEF Requeue, workerVars, seenVars
<1>4. ASSUME NEW w \in Workers, Claim(w) PROVE TypeOK'
  <2> DEFINE claimed == Oldest(Runnable, BatchSize)
  <2>1. claimed \subseteq Items
    BY OldestSubset DEF Runnable, Due, Stuck
  <2> QED
    BY <1>4, <2>1 DEF Claim, seenVars
<1>5. ASSUME NEW w \in Workers, NEW i \in Items,
             ProcessorCommits(w, i) \/ ProcessorConflicts(w, i) \/ ProcessorFails(w, i)
      PROVE  TypeOK'
  BY <1>5 DEF ProcessorCommits, ProcessorConflicts, ProcessorFails, Start, Committed,
              rowVars, seenVars, boundVars
<1>6. ASSUME NEW w \in Workers, MarkSynced(w) PROVE TypeOK'
  BY <1>0, <1>6 DEF MarkSynced, SetSynced, Proceed, seenVars, boundVars
<1>7. ASSUME NEW w \in Workers, MarkConflict(w) PROVE TypeOK'
  BY <1>0, <1>7 DEF MarkConflict, SetConflict, seenVars, boundVars
<1>8. ASSUME NEW w \in Workers, LogConflict(w) PROVE TypeOK'
  BY <1>0, <1>8 DEF LogConflict, InsertConflictLog, Proceed, seenVars, boundVars
<1>9. ASSUME NEW w \in Workers, MarkFailed(w) PROVE TypeOK'
  BY <1>0, <1>9 DEF MarkFailed, SetFailed, Backoff, Proceed, seenVars, boundVars
<1>10. ASSUME NEW w \in Workers, NEW i \in Items, CommitReplyLost(w, i) PROVE TypeOK'
  BY <1>10 DEF CommitReplyLost, Fault, Start, Committed, rowVars
<1>11. ASSUME NEW w \in Workers, MarkSyncedFails(w) PROVE TypeOK'
  BY <1>0, <1>11 DEF MarkSyncedFails, Fault, SetSynced, rowVars, seenVars
<1>12. ASSUME NEW w \in Workers, MarkAborts(w) PROVE TypeOK'
  BY <1>0, <1>12 DEF MarkAborts, Fault, Leave, SetConflict, InsertConflictLog, SetFailed, Backoff,
               rowVars, seenVars
<1>13. ASSUME NEW w \in Workers, Crash(w) PROVE TypeOK'
  BY <1>0, <1>13 DEF Crash, Fault, Leave, rowVars, seenVars
<1>14. CASE Tick
  BY <1>14 DEF Tick, Aging, workerVars, seenVars, boundVars
<1>15. CASE UNCHANGED vars
  BY <1>15 DEF vars, rowVars, workerVars, seenVars, boundVars
<1> QED
  BY <1>1, <1>2, <1>3, <1>4, <1>5, <1>6, <1>7, <1>8, <1>9, <1>10, <1>11, <1>12, <1>13,
     <1>14, <1>15 DEF Next, Work, Disturb

(* Every step leaves each worker's memory in the shape of its phase. *)
LEMMA ShapeStep == ConstantsAssumption /\ TypeOK /\ WorkerShape /\ [Next]_vars => WorkerShape'
<1> SUFFICES ASSUME ConstantsAssumption, TypeOK, WorkerShape, [Next]_vars
             PROVE  WorkerShape'
  OBVIOUS
<1> USE DEF TypeOK, ConstantsAssumption, WorkerShape, Phases, Busy
<1>1. ASSUME NEW i \in Items, Enqueue(i) \/ PushAgain(i) \/ Requeue(i) PROVE WorkerShape'
  BY <1>1 DEF Enqueue, PushAgain, Requeue, workerVars
<1>2. ASSUME NEW w \in Workers, Claim(w) PROVE WorkerShape'
  <2> DEFINE claimed == Oldest(Runnable, BatchSize)
  <2>1. /\ pc' = [pc EXCEPT ![w] = "loop"]
        /\ batch' = [batch EXCEPT ![w] = claimed]
        /\ cur' = cur /\ pc[w] = "idle"
    BY <1>2 DEF Claim
  <2> HIDE DEF claimed
  <2> QED
    BY <2>1
<1>3. ASSUME NEW w \in Workers, NEW i \in Items, NEW phase \in {"applied", "conflict", "failed"},
             Start(w, i, phase)
      PROVE  WorkerShape'
  BY <1>3 DEF Start
<1>4. ASSUME NEW w \in Workers, Proceed(w) PROVE WorkerShape'
  BY <1>4 DEF Proceed
<1>5. ASSUME NEW w \in Workers, Leave(w) PROVE WorkerShape'
  BY <1>5 DEF Leave
<1>6. ASSUME NEW w \in Workers, MarkConflict(w) \/ MarkSyncedFails(w) PROVE WorkerShape'
  BY <1>6 DEF MarkConflict, MarkSyncedFails
<1>7. CASE Tick \/ UNCHANGED vars
  BY <1>7 DEF Tick, workerVars, vars
<1> QED
  BY <1>1, <1>2, <1>3, <1>4, <1>5, <1>6, <1>7
     DEF Next, Work, Disturb, ProcessorCommits, ProcessorConflicts, ProcessorFails,
         CommitReplyLost, MarkSynced, LogConflict, MarkFailed, MarkAborts, Crash

(* Every step keeps the retry budget and the status of a row in agreement. *)
LEMMA BudgetStep ==
    ConstantsAssumption /\ TypeOK /\ WorkerShape /\ BudgetRespected /\ [Next]_vars
        => BudgetRespected'
<1> SUFFICES ASSUME ConstantsAssumption, TypeOK, WorkerShape, BudgetRespected, [Next]_vars
             PROVE  BudgetRespected'
  OBVIOUS
<1> USE DEF TypeOK, ConstantsAssumption, Statuses, BudgetRespected
<1>1. ASSUME NEW i \in Items, Enqueue(i) \/ Requeue(i) PROVE BudgetRespected'
  BY <1>1 DEF Enqueue, Requeue
<1>2. ASSUME NEW w \in Workers, Claim(w) PROVE BudgetRespected'
  <2> DEFINE claimed == Oldest(Runnable, BatchSize)
  <2>1. \A i \in claimed : i \in Items /\ retry[i] < MaxRetry
    BY OldestSubset DEF Runnable, Due, Stuck
  <2>2. /\ status' = [i \in Items |-> IF i \in claimed THEN "PROCESSING" ELSE status[i]]
        /\ retry' = retry
    BY <1>2 DEF Claim
  <2> HIDE DEF claimed
  <2> QED
    BY <2>1, <2>2
<1>3. ASSUME NEW i \in Items, SetSynced(i) \/ SetConflict(i) \/ InsertConflictLog(i)
      PROVE  BudgetRespected'
  BY <1>3 DEF SetSynced, SetConflict, InsertConflictLog
<1>4. ASSUME NEW i \in Items, SetFailed(i) PROVE BudgetRespected'
  BY <1>4 DEF SetFailed, Exhausted
<1>5. CASE UNCHANGED <<status, retry>>
  BY <1>5
<1>6. \A w \in Workers : pc[w] \in {"applied", "conflict", "logging", "failed"} => cur[w] \in Items
  BY DEF WorkerShape, Busy
<1>7. ASSUME NEW i \in Items, PushAgain(i) PROVE BudgetRespected'
  BY <1>5, <1>7 DEF PushAgain, rowVars
<1>8. ASSUME NEW w \in Workers, Work(w) PROVE BudgetRespected'
  BY <1>3, <1>4, <1>5, <1>6, <1>8
     DEF Work, ProcessorCommits, ProcessorConflicts, ProcessorFails, rowVars,
         MarkSynced, MarkConflict, LogConflict, MarkFailed
<1>9. ASSUME NEW w \in Workers, Disturb(w) PROVE BudgetRespected'
  BY <1>3, <1>4, <1>5, <1>6, <1>9
     DEF Disturb, CommitReplyLost, MarkSyncedFails, MarkAborts, Crash, rowVars
<1>10. CASE Tick \/ UNCHANGED vars
  BY <1>5, <1>10 DEF Tick, vars, rowVars
<1> QED
  BY <1>1, <1>2, <1>7, <1>8, <1>9, <1>10 DEF Next

(* Every step keeps undisturbed claims exclusive.                          *)
LEMMA ClaimStep ==
    ConstantsAssumption /\ TypeOK /\ WorkerShape /\ ExclusiveClaim /\ [Next]_vars
        => ExclusiveClaim'
<1> SUFFICES ASSUME ConstantsAssumption, TypeOK, WorkerShape, ExclusiveClaim, [Next]_vars
             PROVE  ExclusiveClaim'
  OBVIOUS
<1> USE DEF TypeOK, ConstantsAssumption, Statuses, Phases, ExclusiveClaim, StatusUnder, Holds
<1>0. \A w \in Workers : pc[w] \in {"applied", "conflict", "logging", "failed"} => cur[w] \in Items
  BY DEF WorkerShape, Busy
<1>1. ASSUME NEW i \in Items, Enqueue(i) PROVE ExclusiveClaim'
  BY <1>1 DEF Enqueue, workerVars, boundVars
<1>2. ASSUME NEW i \in Items, PushAgain(i) PROVE ExclusiveClaim'
  BY <1>2 DEF PushAgain, rowVars, workerVars, boundVars
<1>3. ASSUME NEW i \in Items, Requeue(i) PROVE ExclusiveClaim'
  BY <1>3 DEF Requeue, workerVars
<1>4. ASSUME NEW w \in Workers, Claim(w) PROVE ExclusiveClaim'
  <2> DEFINE claimed == Oldest(Runnable, BatchSize)
  <2>1. claimed \subseteq Items
    BY OldestSubset DEF Runnable, Due, Stuck
  <2>2. /\ status' = [i \in Items |-> IF i \in claimed THEN "PROCESSING" ELSE status[i]]
        /\ batch' = [batch EXCEPT ![w] = claimed]
        /\ overrun' = overrun \cup {i \in claimed : Stuck(i) /\ Held(i)}
        /\ pc' = [pc EXCEPT ![w] = "loop"]
        /\ cur' = cur /\ torn' = torn /\ pc[w] = "idle"
    BY <1>4 DEF Claim
  <2> HIDE DEF claimed
  <2>3. cur[w] = None /\ batch[w] = {}
    BY <2>2 DEF WorkerShape
  <2> SUFFICES ASSUME NEW i \in Items \ overrun', NEW v \in Workers, Holds(v, i)'
               PROVE  /\ (status[i] \in StatusUnder(v, i))'
                      /\ \A u \in Workers : Holds(u, i)' => u = v
    BY DEF ExclusiveClaim
  <2>4. CASE i \in claimed
    <3>0. ASSUME NEW u \in Workers, Holds(u, i) PROVE FALSE
      <4>1. i \notin overrun /\ ~(Stuck(i) /\ Held(i))
        BY <2>2, <2>4
      <4>2. Due(i)
        BY <4>1, <3>0, <2>4, OldestSubset DEF Held, Runnable, claimed
      <4>3. status[i] \in StatusUnder(u, i)
        BY <4>1, <3>0 DEF ExclusiveClaim
      <4>4. status[i] \in {"PROCESSING", "CONFLICT", "SYNCED"}
        BY <4>3 DEF StatusUnder
      <4> QED
        BY <4>2, <4>4 DEF Due
    <3>1. \A u \in Workers : ~Holds(u, i)
      BY <3>0
    <3>2. \A u \in Workers : Holds(u, i)' => u = w
      BY <3>1, <2>2
    <3>3. cur'[v] # i /\ status'[i] = "PROCESSING"
      BY <3>1, <2>2, <2>4
    <3> QED
      BY <3>2, <3>3
  <2>5. CASE i \notin claimed
    <3>1. status'[i] = status[i] /\ i \notin overrun
      BY <2>2, <2>5
    <3>2. \A u \in Workers : Holds(u, i)' => Holds(u, i) /\ u # w
      BY <2>2, <2>3, <2>5
    <3>3. pc'[v] = pc[v]
      BY <2>2, <3>2
    <3> QED
      BY <2>2, <3>1, <3>2, <3>3
  <2> QED
    BY <2>4, <2>5
<1>5. ASSUME NEW w \in Workers, NEW i \in Items, NEW phase \in {"applied", "conflict", "failed"},
             Start(w, i, phase), status' = status, overrun' = overrun, torn \subseteq torn'
      PROVE  ExclusiveClaim'
  BY <1>5 DEF Start
<1>6. ASSUME NEW w \in Workers, NEW i \in Items, cur[w] = i, cur'[w] # i, i \notin batch[w],
             \A v \in Workers : batch'[v] \subseteq batch[v],
             \A v \in Workers \ {w} : cur'[v] = cur[v] /\ pc'[v] = pc[v],
             cur'[w] = None,
             overrun' = overrun, torn \subseteq torn',
             \A j \in Items \ {i} : status'[j] = status[j]
      PROVE  ExclusiveClaim'
  <2> SUFFICES ASSUME NEW j \in Items \ overrun, NEW v \in Workers, Holds(v, j)'
               PROVE  /\ (status[j] \in StatusUnder(v, j))'
                      /\ \A u \in Workers : Holds(u, j)' => u = v
    BY <1>6 DEF ExclusiveClaim
  <2>1. \A u \in Workers : Holds(u, j)' => Holds(u, j)
    BY <1>6
  <2>2. j # i
    BY <1>6, <2>1
  <2> QED
    BY <1>6, <2>1, <2>2
<1>7. ASSUME NEW w \in Workers, MarkSynced(w) \/ LogConflict(w) \/ MarkFailed(w)
      PROVE  ExclusiveClaim'
  <2>1. cur[w] \in Items /\ cur[w] \notin batch[w] /\ cur[w] # None
    BY <1>0, <1>7 DEF MarkSynced, LogConflict, MarkFailed, WorkerShape, Busy
  <2>2. \A j \in Items \ {cur[w]} : status'[j] = status[j]
    BY <1>7, <2>1 DEF MarkSynced, LogConflict, MarkFailed, SetSynced, InsertConflictLog, SetFailed
  <2>3. Proceed(w) /\ overrun' = overrun /\ torn' = torn
    BY <1>7 DEF MarkSynced, LogConflict, MarkFailed, boundVars
  <2> QED
    BY <1>6, <2>1, <2>2, <2>3 DEF Proceed
<1>8. ASSUME NEW w \in Workers, MarkConflict(w) PROVE ExclusiveClaim'
  BY <1>0, <1>8 DEF MarkConflict, SetConflict, boundVars, WorkerShape, Busy
<1>9. ASSUME NEW w \in Workers, MarkSyncedFails(w) PROVE ExclusiveClaim'
  BY <1>0, <1>9 DEF MarkSyncedFails, Fault, SetSynced, rowVars, WorkerShape, Busy
<1>10. ASSUME NEW w \in Workers, MarkAborts(w) PROVE ExclusiveClaim'
  <2>1. cur[w] \in Items /\ cur[w] \notin batch[w] /\ cur[w] # None
    BY <1>0, <1>10 DEF MarkAborts, WorkerShape, Busy
  <2>2. \A j \in Items \ {cur[w]} : status'[j] = status[j]
    BY <1>10, <2>1 DEF MarkAborts, SetConflict, InsertConflictLog, SetFailed, rowVars
  <2>3. Leave(w) /\ overrun' = overrun /\ torn \subseteq torn'
    BY <1>10 DEF MarkAborts, Fault
  <2> QED
    BY <1>6, <2>1, <2>2, <2>3 DEF Leave
<1>11. ASSUME NEW w \in Workers, Crash(w) PROVE ExclusiveClaim'
  BY <1>11 DEF Crash, Fault, Leave, rowVars
<1>12. CASE Tick
  BY <1>12 DEF Tick, workerVars, boundVars
<1>13. CASE UNCHANGED vars
  BY <1>13 DEF vars, rowVars, workerVars, boundVars
<1>14. ASSUME NEW w \in Workers, NEW i \in Items,
              \/ ProcessorCommits(w, i) \/ ProcessorConflicts(w, i) \/ ProcessorFails(w, i)
              \/ CommitReplyLost(w, i)
       PROVE  ExclusiveClaim'
  BY <1>5, <1>14 DEF ProcessorCommits, ProcessorConflicts, ProcessorFails, CommitReplyLost,
                     Fault, rowVars, boundVars
<1> QED
  BY <1>1, <1>2, <1>3, <1>4, <1>7, <1>8, <1>9, <1>10, <1>11, <1>12, <1>13, <1>14
     DEF Next, Work, Disturb

(* Every step keeps a committed write behind whatever says SYNCED.         *)
LEMMA EffectStep ==
    ConstantsAssumption /\ TypeOK /\ WorkerShape /\ EffectBehindSync /\ [Next]_vars
        => EffectBehindSync'
<1> SUFFICES ASSUME ConstantsAssumption, TypeOK, WorkerShape, EffectBehindSync, [Next]_vars
             PROVE  EffectBehindSync'
  OBVIOUS
<1> USE DEF TypeOK, ConstantsAssumption, Statuses, Phases, EffectBehindSync, NoPhantomSync
<1>0. \A w \in Workers : pc[w] \in {"applied", "conflict", "logging", "failed"} => cur[w] \in Items
  BY DEF WorkerShape, Busy
<1>1. ASSUME NEW i \in Items, Enqueue(i) \/ PushAgain(i) \/ Requeue(i) PROVE EffectBehindSync'
  BY <1>1 DEF Enqueue, PushAgain, Requeue, rowVars, workerVars, seenVars
<1>2. ASSUME NEW w \in Workers, Claim(w) PROVE EffectBehindSync'
  BY <1>2 DEF Claim, seenVars
<1>3. ASSUME NEW w \in Workers, NEW i \in Items,
             \/ ProcessorCommits(w, i) \/ ProcessorConflicts(w, i) \/ ProcessorFails(w, i)
             \/ CommitReplyLost(w, i)
      PROVE  EffectBehindSync'
  <2>1. CASE ProcessorCommits(w, i)
    BY <1>0, <2>1 DEF ProcessorCommits, Start, Committed, rowVars
  <2>2. CASE CommitReplyLost(w, i)
    BY <1>0, <2>2 DEF CommitReplyLost, Start, Committed, rowVars
  <2>3. CASE ProcessorConflicts(w, i) \/ ProcessorFails(w, i)
    BY <1>0, <2>3 DEF ProcessorConflicts, ProcessorFails, Start, rowVars, seenVars
  <2> QED
    BY <1>3, <2>1, <2>2, <2>3
<1>4. ASSUME NEW w \in Workers, MarkSynced(w) PROVE EffectBehindSync'
  BY <1>0, <1>4 DEF MarkSynced, SetSynced, Proceed, seenVars
<1>5. ASSUME NEW w \in Workers, MarkConflict(w) \/ LogConflict(w) \/ MarkFailed(w)
      PROVE  EffectBehindSync'
  BY <1>0, <1>5 DEF MarkConflict, LogConflict, MarkFailed, SetConflict, InsertConflictLog,
                    SetFailed, Exhausted, Proceed, seenVars
<1>6. ASSUME NEW w \in Workers, MarkSyncedFails(w) PROVE EffectBehindSync'
  BY <1>0, <1>6 DEF MarkSyncedFails, SetSynced, rowVars, seenVars
<1>7. ASSUME NEW w \in Workers, MarkAborts(w) \/ Crash(w) PROVE EffectBehindSync'
  BY <1>0, <1>7 DEF MarkAborts, Crash, Leave, SetConflict, InsertConflictLog, SetFailed,
                    Exhausted, rowVars, seenVars
<1>8. CASE Tick \/ UNCHANGED vars
  BY <1>8 DEF Tick, vars, rowVars, workerVars, seenVars
<1> QED
  BY <1>1, <1>2, <1>3, <1>4, <1>5, <1>6, <1>7, <1>8 DEF Next, Work, Disturb

(* Every step keeps undisturbed writes single and accounted for.  Only a   *)
(* worker that holds the row alone can have written it.                    *)
LEMMA MatchStep ==
    ConstantsAssumption /\ TypeOK /\ WorkerShape /\ ExclusiveClaim /\ EffectMatchesRow /\ [Next]_vars
        => EffectMatchesRow'
<1> SUFFICES ASSUME ConstantsAssumption, TypeOK, WorkerShape, ExclusiveClaim, EffectMatchesRow,
                    [Next]_vars
             PROVE  EffectMatchesRow'
  OBVIOUS
<1> USE DEF TypeOK, ConstantsAssumption, Statuses, Phases, EffectMatchesRow
<1>0. \A w \in Workers : pc[w] \in {"applied", "conflict", "logging", "failed"} => cur[w] \in Items
  BY DEF WorkerShape, Busy
<1>1. ASSUME NEW i \in Items, Enqueue(i) \/ PushAgain(i) \/ Requeue(i) PROVE EffectMatchesRow'
  <2>1. \A j \in Items \ overrun : \A w \in Workers :
            pc[w] = "applied" /\ cur[w] = j => status[j] = "PROCESSING"
    BY DEF ExclusiveClaim, Holds, StatusUnder
  <2>2. i \in overrun \cup torn \/ applied[i] = 0 \/ status[i] = "SYNCED"
    BY <1>1, <2>1 DEF Enqueue, PushAgain, Requeue
  <2>3. /\ pc' = pc /\ cur' = cur /\ applied' = applied /\ overrun' = overrun /\ torn' = torn
        /\ status[i] = "SYNCED" => status' = status
        /\ \A j \in Items \ {i} : status'[j] = status[j]
    BY <1>1 DEF Enqueue, PushAgain, Requeue, rowVars, workerVars, seenVars, boundVars
  <2> QED
    BY <2>2, <2>3
<1>2. ASSUME NEW w \in Workers, Claim(w) PROVE EffectMatchesRow'
  <2> DEFINE claimed == Oldest(Runnable, BatchSize)
  <2>1. \A i \in claimed : i \in Items /\ status[i] # "SYNCED"
    BY OldestSubset DEF Runnable, Due, Stuck
  <2>2. /\ status' = [i \in Items |-> IF i \in claimed THEN "PROCESSING" ELSE status[i]]
        /\ overrun' = overrun \cup {i \in claimed : Stuck(i) /\ Held(i)}
        /\ pc' = [pc EXCEPT ![w] = "loop"]
        /\ cur' = cur /\ torn' = torn /\ applied' = applied /\ pc[w] = "idle"
    BY <1>2 DEF Claim, seenVars
  <2> HIDE DEF claimed
  <2> QED
    BY <2>1, <2>2 DEF Held, Holds
<1>3. ASSUME NEW w \in Workers, NEW i \in Items, Start(w, i, "applied"), Committed(i),
             status' = status, overrun' = overrun, torn' = torn
      PROVE  EffectMatchesRow'
  <2>1. i \in overrun \/ applied[i] = 0 \/ i \in torn
    BY <1>3 DEF Start, ExclusiveClaim, Holds, StatusUnder
  <2> QED
    BY <1>3, <2>1 DEF Start, Committed
<1>4. ASSUME NEW w \in Workers, NEW i \in Items,
             Start(w, i, "conflict") \/ Start(w, i, "failed"),
             status' = status, overrun' = overrun, torn \subseteq torn',
             \A j \in Items \ torn' : applied'[j] = applied[j]
      PROVE  EffectMatchesRow'
  BY <1>4 DEF Start
<1>5. ASSUME NEW w \in Workers, MarkSynced(w) PROVE EffectMatchesRow'
  BY <1>0, <1>5 DEF MarkSynced, SetSynced, Proceed, seenVars, boundVars
<1>6. ASSUME NEW w \in Workers, MarkConflict(w) \/ LogConflict(w) \/ MarkFailed(w)
      PROVE  EffectMatchesRow'
  <2> DEFINE i == cur[w]
  <2>1. i \in Items
    BY <1>0, <1>6 DEF MarkConflict, LogConflict, MarkFailed
  <2>2. /\ overrun' = overrun /\ torn' = torn /\ applied' = applied
        /\ \A j \in Items \ {i} : status'[j] = status[j]
        /\ \A v \in Workers \ {w} : pc'[v] = pc[v] /\ cur'[v] = cur[v]
        /\ pc[w] # "applied"
    BY <1>6, <2>1 DEF MarkConflict, LogConflict, MarkFailed, SetConflict, InsertConflictLog,
                      SetFailed, Proceed, seenVars, boundVars
  <2>3. i \in overrun \cup torn \/ applied[i] = 0
    BY <1>6, <2>1 DEF MarkConflict, LogConflict, MarkFailed, ExclusiveClaim, Holds, StatusUnder
  <2> QED
    BY <2>1, <2>2, <2>3
<1>7. ASSUME NEW w \in Workers, MarkSyncedFails(w) PROVE EffectMatchesRow'
  BY <1>0, <1>7 DEF MarkSyncedFails, Fault, SetSynced, rowVars, seenVars
<1>8. ASSUME NEW w \in Workers, MarkAborts(w) PROVE EffectMatchesRow'
  <2> DEFINE i == cur[w]
  <2>1. i \in Items
    BY <1>0, <1>8 DEF MarkAborts
  <2>2. /\ overrun' = overrun /\ torn \subseteq torn' /\ applied' = applied
        /\ \A j \in Items \ {i} : status'[j] = status[j]
        /\ \A v \in Workers \ {w} : pc'[v] = pc[v] /\ cur'[v] = cur[v]
        /\ pc[w] # "applied"
    BY <1>8, <2>1 DEF MarkAborts, Fault, Leave, SetConflict, InsertConflictLog, SetFailed,
                      rowVars, seenVars
  <2>3. i \in overrun \cup torn \/ applied[i] = 0
    BY <1>8, <2>1 DEF MarkAborts, ExclusiveClaim, Holds, StatusUnder
  <2> QED
    BY <2>1, <2>2, <2>3
<1>9. ASSUME NEW w \in Workers, Crash(w) PROVE EffectMatchesRow'
  BY <1>0, <1>9 DEF Crash, Fault, Leave, rowVars, seenVars
<1>10. CASE Tick \/ UNCHANGED vars
  BY <1>10 DEF Tick, vars, rowVars, workerVars, seenVars, boundVars
<1>11. ASSUME NEW w \in Workers, NEW i \in Items,
              \/ ProcessorCommits(w, i) \/ ProcessorConflicts(w, i) \/ ProcessorFails(w, i)
              \/ CommitReplyLost(w, i)
       PROVE  EffectMatchesRow'
  BY <1>3, <1>4, <1>11 DEF ProcessorCommits, ProcessorConflicts, ProcessorFails,
                           CommitReplyLost, Committed, Fault, rowVars, seenVars, boundVars
<1> QED
  BY <1>1, <1>2, <1>5, <1>6, <1>7, <1>8, <1>9, <1>10, <1>11 DEF Next, Work, Disturb

(* Every step keeps the conflict log and the parked rows in agreement.     *)
LEMMA LogStep ==
    ConstantsAssumption /\ TypeOK /\ WorkerShape /\ ExclusiveClaim /\ EffectMatchesRow
    /\ LogMatchesRow /\ [Next]_vars
        => LogMatchesRow'
<1> SUFFICES ASSUME ConstantsAssumption, TypeOK, WorkerShape, ExclusiveClaim, EffectMatchesRow,
                    LogMatchesRow, [Next]_vars
             PROVE  LogMatchesRow'
  OBVIOUS
<1> USE DEF TypeOK, ConstantsAssumption, Statuses, Phases, LogMatchesRow, ConflictOnRecord
<1>0. \A w \in Workers : pc[w] \in {"applied", "conflict", "logging", "failed"} => cur[w] \in Items
  BY DEF WorkerShape, Busy
<1>1. ASSUME NEW i \in Items, Enqueue(i) \/ PushAgain(i) \/ Requeue(i) PROVE LogMatchesRow'
  <2>1. /\ pc' = pc /\ cur' = cur /\ applied' = applied /\ overrun' = overrun /\ torn' = torn
        /\ open' = open
        /\ status[i] = "CONFLICT" => status' = status
        /\ status'[i] = "CONFLICT" => status' = status
        /\ \A j \in Items \ {i} : status'[j] = status[j]
    BY <1>1 DEF Enqueue, PushAgain, Requeue, rowVars, workerVars, seenVars, boundVars
  <2> QED
    BY <2>1
<1>2. ASSUME NEW w \in Workers, Claim(w) PROVE LogMatchesRow'
  <2> DEFINE claimed == Oldest(Runnable, BatchSize)
  <2>1. \A i \in claimed : i \in Items /\ status[i] # "CONFLICT"
    BY OldestSubset DEF Runnable, Due, Stuck
  <2>2. /\ status' = [i \in Items |-> IF i \in claimed THEN "PROCESSING" ELSE status[i]]
        /\ overrun \subseteq overrun'
        /\ pc' = [pc EXCEPT ![w] = "loop"]
        /\ cur' = cur /\ torn' = torn /\ applied' = applied /\ open' = open /\ pc[w] = "idle"
    BY <1>2 DEF Claim, seenVars
  <2> HIDE DEF claimed
  <2> QED
    BY <2>1, <2>2
<1>3. ASSUME NEW w \in Workers, NEW i \in Items, NEW phase \in {"applied", "conflict", "failed"},
             Start(w, i, phase), status' = status, open' = open, overrun' = overrun,
             torn \subseteq torn', \A j \in Items \ {i} : applied'[j] = applied[j]
      PROVE  LogMatchesRow'
  <2>1. i \in overrun \/ status[i] = "PROCESSING"
    BY <1>3 DEF Start, ExclusiveClaim, Holds, StatusUnder, WorkerShape, Busy
  <2> QED
    BY <1>3, <2>1 DEF Start
<1>4. ASSUME NEW w \in Workers, MarkSynced(w) \/ MarkFailed(w) PROVE LogMatchesRow'
  <2> DEFINE i == cur[w]
  <2>1. i \in Items
    BY <1>0, <1>4 DEF MarkSynced, MarkFailed
  <2>2. /\ overrun' = overrun /\ torn' = torn /\ applied' = applied /\ open' = open
        /\ \A j \in Items \ {i} : status'[j] = status[j]
        /\ status'[i] # "CONFLICT"
        /\ \A v \in Workers \ {w} : pc'[v] = pc[v] /\ cur'[v] = cur[v]
        /\ pc[w] # "logging" /\ cur'[w] = None
    BY <1>4, <2>1 DEF MarkSynced, MarkFailed, SetSynced, SetFailed, Exhausted, Proceed,
                      seenVars, boundVars
  <2>3. i \in overrun \/ status[i] # "CONFLICT"
    BY <1>4, <2>1 DEF MarkSynced, MarkFailed, ExclusiveClaim, Holds, StatusUnder
  <2> QED
    BY <2>1, <2>2, <2>3
<1>5. ASSUME NEW w \in Workers, MarkConflict(w) PROVE LogMatchesRow'
  <2> DEFINE i == cur[w]
  <2>1. i \in Items
    BY <1>0, <1>5 DEF MarkConflict
  <2>2. i \notin overrun => /\ status[i] = "PROCESSING"
                            /\ i \notin torn => applied[i] = 0
    BY <1>5, <2>1 DEF MarkConflict, ExclusiveClaim, Holds, StatusUnder, EffectMatchesRow
  <2> QED
    BY <1>5, <2>1, <2>2 DEF MarkConflict, SetConflict, seenVars, boundVars
<1>6. ASSUME NEW w \in Workers, LogConflict(w) PROVE LogMatchesRow'
  <2> DEFINE i == cur[w]
  <2>1. i \in Items
    BY <1>0, <1>6 DEF LogConflict
  <2>2. i \notin overrun => /\ status[i] = "CONFLICT"
                            /\ \A v \in Workers \ {w} : cur[v] # i
                            /\ open[i] = 0
    BY <1>6, <2>1 DEF LogConflict, ExclusiveClaim, Holds, StatusUnder
  <2>3. /\ overrun' = overrun /\ torn' = torn /\ applied' = applied /\ status' = status
        /\ open' = [open EXCEPT ![i] = @ + 1]
        /\ \A v \in Workers \ {w} : pc'[v] = pc[v] /\ cur'[v] = cur[v]
        /\ cur'[w] = None
    BY <1>6, <2>1 DEF LogConflict, InsertConflictLog, Proceed, seenVars, boundVars
  <2> QED
    BY <2>1, <2>2, <2>3
<1>7. ASSUME NEW w \in Workers, MarkSyncedFails(w) PROVE LogMatchesRow'
  <2> DEFINE i == cur[w]
  <2>1. i \in Items
    BY <1>0, <1>7 DEF MarkSyncedFails
  <2>2. i \in overrun \/ status[i] # "CONFLICT"
    BY <1>7, <2>1 DEF MarkSyncedFails, ExclusiveClaim, Holds, StatusUnder
  <2>3. /\ overrun' = overrun /\ torn \subseteq torn' /\ applied' = applied /\ open' = open
        /\ \A j \in Items \ {i} : status'[j] = status[j]
        /\ status'[i] \in {status[i], "SYNCED"}
        /\ pc' = [pc EXCEPT ![w] = "failed"] /\ cur' = cur /\ pc[w] = "applied"
    BY <1>7, <2>1 DEF MarkSyncedFails, Fault, SetSynced, rowVars, seenVars
  <2> QED
    BY <2>1, <2>2, <2>3
<1>8. ASSUME NEW w \in Workers, MarkAborts(w) PROVE LogMatchesRow'
  <2> DEFINE i == cur[w]
  <2>1. i \in Items
    BY <1>0, <1>8 DEF MarkAborts
  <2>2. /\ overrun' = overrun /\ torn \subseteq torn' /\ applied' = applied
        /\ \A v \in Workers \ {w} : pc'[v] = pc[v] /\ cur'[v] = cur[v]
        /\ cur'[w] = None
    BY <1>8 DEF MarkAborts, Fault, Leave, seenVars
  <2>3. i \notin overrun => \A v \in Workers \ {w} : cur[v] # i
    BY <1>8, <2>1 DEF ExclusiveClaim, Holds
  <2>4. CASE pc[w] = "conflict"
    <3>1. i \in overrun \/ status[i] = "PROCESSING"
      BY <2>1, <2>4 DEF ExclusiveClaim, Holds, StatusUnder
    <3>2. \/ SetConflict(i) /\ torn' = torn \cup {i}
          \/ status' = status /\ open' = open
      BY <1>8, <2>4 DEF MarkAborts, rowVars
    <3> QED
      BY <2>1, <2>2, <2>3, <2>4, <3>1, <3>2 DEF SetConflict
  <2>5. CASE pc[w] = "logging"
    <3>1. i \in overrun \/ (status[i] = "CONFLICT" /\ open[i] = 0)
      BY <2>1, <2>5 DEF ExclusiveClaim, Holds, StatusUnder
    <3>2. \/ InsertConflictLog(i)
          \/ i \in torn' /\ status' = status /\ open' = open
      BY <1>8, <2>5 DEF MarkAborts, rowVars
    <3> QED
      BY <2>1, <2>2, <2>3, <2>5, <3>1, <3>2 DEF InsertConflictLog
  <2>6. CASE pc[w] = "failed"
    <3>1. i \in overrun \/ status[i] # "CONFLICT"
      BY <2>1, <2>6 DEF ExclusiveClaim, Holds, StatusUnder
    <3>2. /\ open' = open
          /\ \A j \in Items \ {i} : status'[j] = status[j]
          /\ status'[i] \in {status[i], "FAILED", "DEAD_LETTER"}
      BY <1>8, <2>1, <2>6 DEF MarkAborts, SetFailed, Exhausted, rowVars
    <3> QED
      BY <2>1, <2>2, <2>6, <3>1, <3>2
  <2> QED
    BY <1>8, <2>4, <2>5, <2>6 DEF MarkAborts
<1>9. ASSUME NEW w \in Workers, Crash(w) PROVE LogMatchesRow'
  BY <1>0, <1>9 DEF Crash, Fault, Leave, rowVars, seenVars
<1>10. CASE Tick \/ UNCHANGED vars
  BY <1>10 DEF Tick, vars, rowVars, workerVars, seenVars, boundVars
<1>11. ASSUME NEW w \in Workers, NEW i \in Items,
              \/ ProcessorCommits(w, i) \/ ProcessorConflicts(w, i) \/ ProcessorFails(w, i)
              \/ CommitReplyLost(w, i)
       PROVE  LogMatchesRow'
  BY <1>3, <1>11 DEF ProcessorCommits, ProcessorConflicts, ProcessorFails,
                     CommitReplyLost, Committed, Fault, rowVars, seenVars, boundVars
<1> QED
  BY <1>1, <1>2, <1>4, <1>5, <1>6, <1>7, <1>8, <1>9, <1>10, <1>11 DEF Next, Work, Disturb

-----------------------------------------------------------------------------

(* The parts above are together inductive. *)
LEMMA Inductive == IndInv /\ [Next]_vars => IndInv'
  BY ConstantsAssumption, TypeStep, ShapeStep, BudgetStep, ClaimStep, EffectStep, MatchStep,
     LogStep DEF IndInv

(* An empty queue satisfies them. *)
LEMMA InitialInv == Init => IndInv
  BY ConstantsAssumption
     DEF Init, IndInv, ConstantsAssumption, TypeOK, Statuses, Phases, Busy, WorkerShape,
         BudgetRespected, ExclusiveClaim, Holds, EffectBehindSync, NoPhantomSync,
         EffectMatchesRow, LogMatchesRow, ConflictOnRecord

LEMMA Invariance == Spec => []IndInv
  BY InitialInv, Inductive, PTL DEF Spec

(* Types: of every row, every worker and every bound, in every state.      *)
THEOREM TypeCorrect == Spec => []TypeOK
<1>1. IndInv => TypeOK
  BY DEF IndInv
<1> QED
  BY <1>1, Invariance, PTL

(* markFailed() and claimBatch() respect the retry budget, for any budget, *)
(* batch size and number of workers.                                       *)
THEOREM BudgetIsRespected == Spec => []BudgetRespected
<1>1. IndInv => BudgetRespected
  BY DEF IndInv
<1> QED
  BY <1>1, Invariance, PTL

(* Until a claim is overrun, the PROCESSING row is a mutex: one holder.    *)
THEOREM ClaimsAreExclusive == Spec => []ExclusiveClaim
<1>1. IndInv => ExclusiveClaim
  BY DEF IndInv
<1> QED
  BY <1>1, Invariance, PTL

(* processQueue() applies an undisturbed item at most once.                *)
THEOREM AppliedOnce == Spec => []AppliedAtMostOnce
<1>1. IndInv => AppliedAtMostOnce
  BY DEF IndInv, TypeOK, EffectMatchesRow, AppliedAtMostOnce
<1> QED
  BY <1>1, Invariance, PTL

(* SYNCED and DUPLICATE_ACK are never said of an item that was not         *)
(* written, under any faults and any overrun claims.                       *)
THEOREM NothingLostSaidSynced == Spec => []NoPhantomSync
<1>1. IndInv => NoPhantomSync
  BY DEF IndInv, EffectBehindSync
<1> QED
  BY <1>1, Invariance, PTL

(* The conflict log and the CONFLICT rows agree.                           *)
THEOREM ConflictsAreOnRecord == Spec => []ConflictOnRecord
<1>1. IndInv => ConflictOnRecord
  BY DEF IndInv, LogMatchesRow
<1> QED
  BY <1>1, Invariance, PTL

(* No step reopens an undisturbed SYNCED or CONFLICT row: every statement  *)
(* that could is issued by a worker that holds the row, and the row of a   *)
(* sole holder is neither, but for the one being logged.                   *)
THEOREM SettledRowsStay == Spec => SettledStays
<1> DEFINE Stays == \A i \in Items \ (overrun \cup torn) :
                        status[i] \in {"SYNCED", "CONFLICT"} => status'[i] = status[i]
<1>1. IndInv /\ [Next]_vars => [Stays]_vars
  <2> SUFFICES ASSUME IndInv, Next,
                      NEW i \in Items \ (overrun \cup torn),
                      status[i] \in {"SYNCED", "CONFLICT"}
               PROVE  status'[i] = status[i]
    OBVIOUS
  <2> USE DEF IndInv, TypeOK, Statuses, Phases
  <2>0. /\ i \notin Runnable
        /\ \A w \in Workers : pc[w] \in {"applied", "conflict", "failed"} => cur[w] # i
    BY DEF Runnable, Due, Stuck, ExclusiveClaim, Holds, StatusUnder
  <2>1. ASSUME NEW w \in Workers, Claim(w) PROVE status'[i] = status[i]
    BY <2>0, <2>1, OldestSubset DEF Claim
  <2>2. ASSUME NEW j \in Items, Enqueue(j) \/ PushAgain(j) \/ Requeue(j)
        PROVE  status'[i] = status[i]
    BY <2>2 DEF Enqueue, PushAgain, Requeue, rowVars
  <2>3. ASSUME NEW w \in Workers, Work(w) PROVE status'[i] = status[i]
    BY <2>0, <2>3
       DEF Work, ProcessorCommits, ProcessorConflicts, ProcessorFails, MarkSynced, MarkConflict,
           LogConflict, MarkFailed, SetSynced, SetConflict, InsertConflictLog, SetFailed, rowVars
  <2>4. ASSUME NEW w \in Workers, Disturb(w) PROVE status'[i] = status[i]
    BY <2>0, <2>4
       DEF Disturb, CommitReplyLost, MarkSyncedFails, MarkAborts, Crash,
           SetSynced, SetConflict, InsertConflictLog, SetFailed, rowVars
  <2>5. CASE Tick
    BY <2>5 DEF Tick
  <2> QED
    BY <2>1, <2>2, <2>3, <2>4, <2>5 DEF Next
<1> QED
  BY <1>1, Invariance, PTL DEF Spec, SettledStays

-----------------------------------------------------------------------------
(* How far a worker and a row have come *)

(* Each step of an invocation takes a row out of its batch, or brings the  *)
(* row in hand further.                                                    *)
LEMMA WorkerStep ==
    ASSUME IndInv, NEW w \in Workers, Work(w) \/ Disturb(w), pc[w] # "idle"
    PROVE  WorkerCloser(w)
<1>1. /\ pc \in [Workers -> Phases] /\ batch \in [Workers -> SUBSET Items]
      /\ pc[w] \in Busy => cur[w] \notin batch[w]
      /\ pc[w] = "idle" => batch[w] = {}
  BY DEF IndInv, TypeOK, WorkerShape
<1>2. ASSUME NEW i \in Items, NEW phase, Start(w, i, phase) PROVE WorkerCloser(w)
  <2>1. i \in batch[w] /\ batch'[w] = batch[w] \ {i}
    BY <1>1, <1>2 DEF Start
  <2> QED
    BY <2>1 DEF WorkerCloser
<1>3. ASSUME Proceed(w), pc[w] \in {"applied", "logging", "failed"} PROVE WorkerCloser(w)
  <2>1. batch' = batch /\ pc'[w] \in {"idle", "loop"}
    BY <1>1, <1>3 DEF Proceed
  <2>2. Distance(w) \in {2, 3} /\ Distance(w)' \in {0, 1}
    BY <1>3, <2>1 DEF Distance
  <2>3. Distance(w)' < Distance(w)
    BY <2>2
  <2> QED
    BY <2>1, <2>3 DEF WorkerCloser
<1>4. ASSUME Leave(w) PROVE WorkerCloser(w)
  <2>1. batch'[w] = {} /\ pc'[w] = "idle" /\ pc[w] \in Phases \ {"idle"}
    BY <1>1, <1>4 DEF Leave
  <2>2. Distance(w) \in {1, 2, 3} /\ Distance(w)' = 0
    BY <2>1 DEF Distance, Phases
  <2>3. Distance(w)' < Distance(w)
    BY <2>2
  <2> QED
    BY <2>1, <2>3 DEF WorkerCloser
<1>5. ASSUME MarkConflict(w) \/ MarkSyncedFails(w) PROVE WorkerCloser(w)
  <2>1. batch' = batch /\ pc[w] \in {"applied", "conflict"} /\ pc'[w] \in {"logging", "failed"}
    BY <1>1, <1>5 DEF MarkConflict, MarkSyncedFails
  <2>2. Distance(w) = 3 /\ Distance(w)' = 2
    BY <2>1 DEF Distance
  <2>3. Distance(w)' < Distance(w)
    BY <2>2
  <2> QED
    BY <2>1, <2>3 DEF WorkerCloser
<1> QED
  BY <1>2, <1>3, <1>4, <1>5
     DEF Work, Disturb, ProcessorCommits, ProcessorConflicts, ProcessorFails, MarkSynced,
         LogConflict, MarkFailed, CommitReplyLost, MarkAborts, Crash

(* What a worker holds is its own. *)
LEMMA WorkerAlone ==
    ASSUME IndInv, NEW w \in Workers, [Next]_vars, ~Work(w), ~Disturb(w), ~Claim(w)
    PROVE  UNCHANGED <<pc[w], batch[w], cur[w]>>
<1>1. /\ pc \in [Workers -> Phases] /\ batch \in [Workers -> SUBSET Items]
      /\ cur \in [Workers -> Items \cup {None}]
  BY DEF IndInv, TypeOK
<1>2. ASSUME UNCHANGED workerVars PROVE UNCHANGED <<pc[w], batch[w], cur[w]>>
  BY <1>2 DEF workerVars
<1>3. ASSUME NEW i \in Items, Enqueue(i) \/ PushAgain(i) \/ Requeue(i) PROVE UNCHANGED workerVars
  BY <1>3 DEF Enqueue, PushAgain, Requeue
<1>4. CASE Tick \/ UNCHANGED vars
  BY <1>2, <1>4 DEF Tick, vars
<1>5. ASSUME NEW v \in Workers, v # w,
             Claim(v) \/ Proceed(v) \/ Leave(v) \/ MarkConflict(v) \/ MarkSyncedFails(v)
             \/ \E i \in Items, phase \in Phases : Start(v, i, phase)
      PROVE  UNCHANGED <<pc[w], batch[w], cur[w]>>
  BY <1>1, <1>5 DEF Claim, Proceed, Leave, MarkConflict, MarkSyncedFails, Start
<1>6. ASSUME NEW v \in Workers, v # w, Work(v) \/ Disturb(v)
      PROVE  UNCHANGED <<pc[w], batch[w], cur[w]>>
  <2>1. {"applied", "conflict", "failed"} \subseteq Phases
    BY DEF Phases
  <2> QED
    BY <1>5, <1>6, <2>1
       DEF Work, Disturb, ProcessorCommits, ProcessorConflicts, ProcessorFails, MarkSynced,
           LogConflict, MarkFailed, CommitReplyLost, MarkAborts, Crash
<1> QED
  BY <1>2, <1>3, <1>4, <1>5, <1>6 DEF Next

(* syncQueueService.js: processQueue() comes to an end, whatever its       *)
(* statements meet: each step of it takes a row out of the batch or brings *)
(* the row in hand further, and nobody gives it more.                      *)
THEOREM WorkersComeToAnEnd == Spec => WorkersRunDown
<1>1. ASSUME NEW w \in Workers, Claim(w) PROVE pc[w] = "idle"
  BY <1>1 DEF Claim
<1>2. IndInv /\ [Next]_vars =>
          [\A w \in Workers : pc[w] # "idle" =>
               /\ Work(w) \/ Disturb(w) => WorkerCloser(w)
               /\ ~(Work(w) \/ Disturb(w)) => UNCHANGED <<pc[w], batch[w], cur[w]>>]_vars
  BY <1>1, WorkerStep, WorkerAlone
<1> QED
  BY <1>2, Invariance, PTL DEF Spec, WorkersRunDown

(* A row whose status, count and holders stay is where it was. *)
LEMMA SameStage ==
    ASSUME NEW i \in Items, status'[i] = status[i], retry'[i] = retry[i],
           \A w \in Workers : /\ i \in batch'[w] <=> i \in batch[w]
                              /\ cur'[w] = i <=> cur[w] = i
    PROVE  UNCHANGED <<status[i], retry[i], Stage(i)>>
<1>1. Held(i)' <=> Held(i)
  BY DEF Held, Holds
<1>2. (\E w \in Workers : i \in batch'[w]) <=> (\E w \in Workers : i \in batch[w])
  OBVIOUS
<1> QED
  BY <1>1, <1>2 DEF Stage

(* The claim of a row that nobody holds. *)
LEMMA ClaimedRow ==
    ASSUME IndInv, NEW w \in Workers, Claim(w), NEW i \in Items \ overrun'
    PROVE  IF i \in batch'[w] THEN RowCloser(i)
           ELSE UNCHANGED <<status[i], retry[i], Stage(i)>>
<1> DEFINE claimed == Oldest(Runnable, BatchSize)
<1>1. /\ pc[w] = "idle" /\ cur' = cur /\ retry' = retry
      /\ batch' = [batch EXCEPT ![w] = claimed]
      /\ status' = [j \in Items |-> IF j \in claimed THEN "PROCESSING" ELSE status[j]]
      /\ overrun' = overrun \cup {j \in claimed : Stuck(j) /\ Held(j)}
  BY DEF Claim
<1>2. /\ batch \in [Workers -> SUBSET Items] /\ batch[w] = {} /\ retry[i] \in Nat
      /\ claimed \subseteq Runnable
  BY <1>1, OldestSubset DEF IndInv, TypeOK, WorkerShape
<1> HIDE DEF claimed
<1>3. batch'[w] = claimed /\ \A v \in Workers \ {w} : batch'[v] = batch[v]
  BY <1>1, <1>2
<1>4. CASE i \in claimed
  <2>1. Stage(i) \in {3, 4}
    <3>1. Due(i) \/ (Stuck(i) /\ ~Held(i))
      BY <1>1, <1>2, <1>4 DEF Runnable
    <3> QED
      BY <3>1 DEF Due, Stuck, Stage
  <2>2. Stage(i)' = 2
    <3>1. status'[i] = "PROCESSING"
      BY <1>1, <1>4
    <3>2. i \in batch'[w]
      BY <1>3, <1>4
    <3>3. Held(i)'
      BY <3>2 DEF Held, Holds
    <3> QED
      BY <3>1, <3>2, <3>3 DEF Stage
  <2>3. Stage(i)' < Stage(i)
    BY <2>1, <2>2
  <2> QED
    BY <1>1, <1>3, <1>4, <2>3 DEF RowCloser
<1>5. CASE i \notin claimed
  <2>1. status'[i] = status[i] /\ retry'[i] = retry[i]
    BY <1>1, <1>5
  <2>2. \A v \in Workers : (i \in batch'[v] <=> i \in batch[v]) /\ (cur'[v] = i <=> cur[v] = i)
    BY <1>1, <1>2, <1>3, <1>5
  <2> QED
    BY <1>3, <1>5, <2>1, <2>2, SameStage
<1> QED
  BY <1>4, <1>5

(* A row that is taken from the batch comes into hand; the others stay.    *)
LEMMA StartedRow ==
    ASSUME IndInv, NEW w \in Workers, NEW i \in Items \ overrun, NEW j \in Items, NEW phase,
           Start(w, j, phase), UNCHANGED <<status, retry>>
    PROVE  /\ j = i => RowCloser(i)
           /\ j # i => UNCHANGED <<status[i], retry[i], Stage(i)>>
<1>1. /\ pc[w] = "loop" /\ j \in batch[w]
      /\ batch \in [Workers -> SUBSET Items] /\ cur \in [Workers -> Items \cup {None}]
      /\ cur[w] = None /\ None \notin Items /\ retry[i] \in Nat
  BY ConstantsAssumption DEF Start, IndInv, TypeOK, WorkerShape
<1>2. /\ batch'[w] = batch[w] \ {j} /\ cur'[w] = j
      /\ \A v \in Workers \ {w} : batch'[v] = batch[v] /\ cur'[v] = cur[v]
  BY <1>1 DEF Start
<1>3. CASE j = i
  <2>1. Holds(w, i) /\ \A v \in Workers : Holds(v, i) => v = w
    BY <1>1, <1>3 DEF IndInv, ExclusiveClaim, Holds
  <2>2. status[i] = "PROCESSING"
    <3>1. status[i] \in StatusUnder(w, i)
      BY <2>1 DEF IndInv, ExclusiveClaim
    <3> QED
      BY <1>1, <3>1 DEF StatusUnder
  <2>3. Stage(i) = 2
    BY <1>1, <1>3, <2>1, <2>2 DEF Stage, Held
  <2>4. Stage(i)' = 1
    <3>1. \A v \in Workers : i \notin batch'[v]
      BY <1>2, <1>3, <2>1 DEF Holds
    <3>2. Held(i)'
      BY <1>2, <1>3 DEF Held, Holds
    <3>3. status'[i] = "PROCESSING"
      BY <2>2
    <3> QED
      BY <3>1, <3>2, <3>3 DEF Stage
  <2>5. Stage(i)' < Stage(i)
    BY <2>3, <2>4
  <2> QED
    BY <1>3, <2>5 DEF RowCloser
<1>4. CASE j # i
  <2>1. \A v \in Workers : (i \in batch'[v] <=> i \in batch[v]) /\ (cur'[v] = i <=> cur[v] = i)
    BY <1>1, <1>2, <1>4
  <2> QED
    BY <1>4, <2>1, SameStage
<1> QED
  BY <1>3, <1>4

(* A row in hand leaves the hand settled, or with an attempt spent.        *)
LEMMA MarkedRow ==
    ASSUME IndInv, NEW w \in Workers, NEW i \in Items \ overrun,
           MarkSynced(w) \/ MarkConflict(w) \/ LogConflict(w) \/ MarkFailed(w)
    PROVE  /\ cur[w] = i /\ pc[w] # "logging" => RowCloser(i)
           /\ cur[w] # i \/ pc[w] = "logging" =>
                  UNCHANGED <<status[i], retry[i], Stage(i)>>
<1>1. /\ pc \in [Workers -> Phases] /\ batch \in [Workers -> SUBSET Items]
      /\ cur \in [Workers -> Items \cup {None}] /\ None \notin Items
      /\ status \in [Items -> Statuses] /\ retry \in [Items -> Nat]
      /\ cur[w] \in Items /\ cur[w] \notin batch[w] /\ batch' = batch
      /\ pc[w] \in {"applied", "conflict", "logging", "failed"}
  BY ConstantsAssumption
     DEF MarkSynced, MarkConflict, LogConflict, MarkFailed, Proceed,
         IndInv, TypeOK, WorkerShape, Busy, Phases
<1>2. \A v \in Workers : cur'[v] = cur[v] \/ (v = w /\ cur'[v] = None)
  BY <1>1 DEF MarkSynced, MarkConflict, LogConflict, MarkFailed, Proceed
<1>3. CASE cur[w] # i
  <2>1. status'[i] = status[i] /\ retry'[i] = retry[i]
    BY <1>1, <1>3 DEF MarkSynced, MarkConflict, LogConflict, MarkFailed,
                      SetSynced, SetConflict, InsertConflictLog, SetFailed
  <2>2. \A v \in Workers : (i \in batch'[v] <=> i \in batch[v]) /\ (cur'[v] = i <=> cur[v] = i)
    BY <1>1, <1>2, <1>3
  <2> QED
    BY <1>3, <2>1, <2>2, SameStage
<1>4. CASE cur[w] = i /\ pc[w] = "logging"
  <2>1. /\ status'[i] = status[i] /\ retry'[i] = retry[i]
    BY <1>4 DEF MarkSynced, MarkConflict, LogConflict, MarkFailed, InsertConflictLog
  <2>2. status[i] = "CONFLICT"
    BY <1>4 DEF IndInv, ExclusiveClaim, Holds, StatusUnder
  <2> QED
    BY <1>4, <2>1, <2>2 DEF Stage
<1>5. CASE cur[w] = i /\ MarkFailed(w)
  <2>1. retry'[i] = retry[i] + 1 /\ retry[i] \in Nat /\ pc[w] = "failed"
    BY <1>1, <1>5 DEF MarkFailed, SetFailed
  <2> QED
    BY <1>5, <2>1 DEF RowCloser
<1>6. CASE cur[w] = i /\ (MarkSynced(w) \/ MarkConflict(w))
  <2>1. /\ status'[i] \in {"SYNCED", "CONFLICT"} /\ retry'[i] = retry[i]
        /\ pc[w] \in {"applied", "conflict"}
    BY <1>1, <1>6 DEF MarkSynced, MarkConflict, SetSynced, SetConflict
  <2>2. status[i] = "PROCESSING" /\ Held(i)
    <3>1. Holds(w, i)
      BY <1>6 DEF Holds
    <3>2. status[i] \in StatusUnder(w, i)
      BY <3>1 DEF IndInv, ExclusiveClaim
    <3> QED
      BY <2>1, <3>1, <3>2 DEF StatusUnder, Held
  <2>3. Stage(i) \in {1, 2}
    BY <2>2 DEF Stage
  <2>4. Stage(i)' = 0
    BY <2>1 DEF Stage
  <2>5. Stage(i)' < Stage(i)
    BY <2>3, <2>4
  <2> QED
    BY <1>6, <2>1, <2>5 DEF RowCloser
<1> QED
  BY <1>3, <1>4, <1>5, <1>6 DEF LogConflict

(* The faults of a worker pass by the rows it does not hold. *)
LEMMA BystanderRow ==
    ASSUME IndInv, NEW w \in Workers, NEW i \in Items, Disturb(w), ~Holds(w, i)
    PROVE  UNCHANGED <<status[i], retry[i], Stage(i)>>
<1>1. /\ pc \in [Workers -> Phases] /\ batch \in [Workers -> SUBSET Items]
      /\ cur \in [Workers -> Items \cup {None}] /\ None \notin Items
      /\ status \in [Items -> Statuses] /\ retry \in [Items -> Nat]
      /\ cur[w] # i /\ i \notin batch[w]
      /\ pc[w] \in Busy => cur[w] \in Items
  BY ConstantsAssumption DEF IndInv, TypeOK, WorkerShape, Holds
<1>2. ASSUME NEW j \in Items, CommitReplyLost(w, j)
      PROVE  UNCHANGED <<status[i], retry[i], Stage(i)>>
  <2>1. j # i /\ UNCHANGED <<status, retry>> /\ Start(w, j, "failed")
    BY <1>1, <1>2 DEF CommitReplyLost, Start, rowVars
  <2>2. \A v \in Workers : (i \in batch'[v] <=> i \in batch[v]) /\ (cur'[v] = i <=> cur[v] = i)
    BY <1>1, <2>1 DEF Start
  <2> QED
    BY <2>1, <2>2, SameStage
<1>3. ASSUME MarkSyncedFails(w) \/ MarkAborts(w) \/ Crash(w)
      PROVE  UNCHANGED <<status[i], retry[i], Stage(i)>>
  <2>1. status'[i] = status[i] /\ retry'[i] = retry[i]
    BY <1>1, <1>3 DEF MarkSyncedFails, MarkAborts, Crash, Busy, Phases, rowVars,
                      SetSynced, SetConflict, InsertConflictLog, SetFailed
  <2>2. UNCHANGED <<batch, cur>> \/ Leave(w)
    BY <1>3 DEF MarkSyncedFails, MarkAborts, Crash
  <2>3. \A v \in Workers : (i \in batch'[v] <=> i \in batch[v]) /\ (cur'[v] = i <=> cur[v] = i)
    BY <1>1, <2>2 DEF Leave
  <2> QED
    BY <2>1, <2>3, SameStage
<1> QED
  BY <1>2, <1>3 DEF Disturb

(* A step that is no worker's leaves a row in its stage. *)
LEMMA OutsideRow ==
    ASSUME IndInv, NEW i \in Items, status[i] # "ABSENT", ~Requeue(i),
           \/ \E j \in Items : Enqueue(j) \/ PushAgain(j) \/ Requeue(j)
           \/ Tick \/ UNCHANGED vars
    PROVE  UNCHANGED <<status[i], retry[i], Stage(i)>>
<1>1. status \in [Items -> Statuses] /\ retry \in [Items -> Nat]
  BY DEF IndInv, TypeOK
<1>2. UNCHANGED <<batch, cur>>
  BY DEF Enqueue, PushAgain, Requeue, Tick, vars, workerVars
<1>3. status'[i] = status[i] /\ retry'[i] = retry[i]
  BY <1>1 DEF Enqueue, PushAgain, Requeue, Tick, vars, rowVars
<1> QED
  BY <1>2, <1>3, SameStage

(* What a worker without a fault does for a row, and for the others. *)
LEMMA WorkedRow ==
    ASSUME IndInv, NEW w \in Workers, NEW i \in Items \ overrun, Work(w)
    PROVE  /\ (i \in batch[w] /\ i \notin batch'[w]) \/ (cur[w] = i /\ pc[w] # "logging")
                  => RowCloser(i)
           /\ RowCloser(i) \/ UNCHANGED <<status[i], retry[i], Stage(i)>>
<1>1. CASE MarkSynced(w) \/ MarkConflict(w) \/ LogConflict(w) \/ MarkFailed(w)
  <2>1. batch' = batch
    BY <1>1 DEF MarkSynced, MarkConflict, LogConflict, MarkFailed, Proceed
  <2> QED
    BY <1>1, <2>1, MarkedRow
<1>2. ASSUME NEW j \in Items,
             ProcessorCommits(w, j) \/ ProcessorConflicts(w, j) \/ ProcessorFails(w, j)
      PROVE  /\ (i \in batch[w] /\ i \notin batch'[w]) \/ (cur[w] = i /\ pc[w] # "logging")
                    => RowCloser(i)
             /\ RowCloser(i) \/ UNCHANGED <<status[i], retry[i], Stage(i)>>
  <2>1. PICK phase \in {"applied", "conflict", "failed"} : Start(w, j, phase)
    BY <1>2 DEF ProcessorCommits, ProcessorConflicts, ProcessorFails
  <2>2. UNCHANGED <<status, retry>>
    BY <1>2 DEF ProcessorCommits, ProcessorConflicts, ProcessorFails, rowVars
  <2>3. cur[w] # i /\ batch'[w] = batch[w] \ {j}
    BY <2>1, ConstantsAssumption DEF Start, IndInv, TypeOK, WorkerShape
  <2> QED
    BY <2>1, <2>2, <2>3, StartedRow
<1> QED
  BY <1>1, <1>2 DEF Work

(* syncQueueService.js: a row is served only at the price of a stage or of *)
(* an attempt, of which it has MaxRetry; pushes, other rows, other workers *)
(* and their faults cost it nothing.                                       *)
THEOREM RowsComeToRest == Spec => RowsRunDown
<1>1. ASSUME IndInv, [Next]_vars, NEW i \in Items \ overrun'
      PROVE  /\ Served(i) => RowCloser(i)
             /\ status[i] # "ABSENT" /\ ~Disrupted(i) =>
                    RowCloser(i) \/ UNCHANGED <<status[i], retry[i], Stage(i)>>
  <2>1. i \in Items \ overrun
    BY <1>1 DEF Next, Enqueue, PushAgain, Requeue, Claim, Work, Disturb, Tick, vars, boundVars,
                ProcessorCommits, ProcessorConflicts, ProcessorFails, MarkSynced, MarkConflict,
                LogConflict, MarkFailed, CommitReplyLost, MarkSyncedFails, MarkAborts, Crash, Fault
  <2>2. Served(i) => RowCloser(i)
    BY <1>1, <2>1, ClaimedRow, WorkedRow DEF Served
  <2>3. ASSUME status[i] # "ABSENT", ~Disrupted(i)
        PROVE  RowCloser(i) \/ UNCHANGED <<status[i], retry[i], Stage(i)>>
    <3>1. ~Requeue(i) /\ \A w \in Workers : Disturb(w) => ~Holds(w, i)
      BY <2>3 DEF Disrupted
    <3>2. ASSUME NEW w \in Workers, Claim(w)
          PROVE  RowCloser(i) \/ UNCHANGED <<status[i], retry[i], Stage(i)>>
      BY <1>1, <3>2, ClaimedRow
    <3>3. ASSUME NEW w \in Workers, Work(w)
          PROVE  RowCloser(i) \/ UNCHANGED <<status[i], retry[i], Stage(i)>>
      BY <1>1, <2>1, <3>3, WorkedRow
    <3>4. ASSUME NEW w \in Workers, Disturb(w)
          PROVE  UNCHANGED <<status[i], retry[i], Stage(i)>>
      BY <1>1, <3>1, <3>4, BystanderRow
    <3>5. ASSUME \/ \E j \in Items : Enqueue(j) \/ PushAgain(j) \/ Requeue(j)
                 \/ Tick \/ UNCHANGED vars
          PROVE  UNCHANGED <<status[i], retry[i], Stage(i)>>
      BY <1>1, <2>3, <3>1, <3>5, OutsideRow
    <3> QED
      BY <1>1, <3>2, <3>3, <3>4, <3>5 DEF Next
  <2> QED
    BY <2>2, <2>3
<1>2. IndInv /\ [Next]_vars =>
          [\A i \in Items \ overrun' :
              /\ Served(i) => RowCloser(i)
              /\ status[i] # "ABSENT" /\ ~Disrupted(i) =>
                     RowCloser(i) \/ UNCHANGED <<status[i], retry[i], Stage(i)>>]_vars
  BY <1>1
<1> QED
  BY <1>2, Invariance, PTL DEF Spec, RowsRunDown

-----------------------------------------------------------------------------
(* The queue implements the inbox *)

(* A claimed row has been pushed. *)
HeldIsPresent == \A w \in Workers, i \in Items : Holds(w, i) => status[i] # "ABSENT"

Inbox == [i \in Items |-> Place(status[i])]

(* No step turns a row back into one that is not there. *)
LEMMA PresenceStep ==
    IndInv /\ [Next]_vars => \A i \in Items : status[i] # "ABSENT" => status'[i] # "ABSENT"
<1> SUFFICES ASSUME IndInv, [Next]_vars, NEW i \in Items, status[i] # "ABSENT"
             PROVE  status'[i] # "ABSENT"
  OBVIOUS
<1> USE DEF IndInv, TypeOK, Statuses
<1>1. ASSUME NEW w \in Workers, Claim(w) PROVE status'[i] # "ABSENT"
  BY <1>1 DEF Claim
<1>2. ASSUME NEW j \in Items, Enqueue(j) \/ PushAgain(j) \/ Requeue(j)
      PROVE  status'[i] # "ABSENT"
  BY <1>2 DEF Enqueue, PushAgain, Requeue, rowVars
<1>3. ASSUME NEW w \in Workers, Work(w) PROVE status'[i] # "ABSENT"
  BY <1>3
     DEF Work, ProcessorCommits, ProcessorConflicts, ProcessorFails, MarkSynced, MarkConflict,
         LogConflict, MarkFailed, SetSynced, SetConflict, InsertConflictLog, SetFailed, rowVars
<1>4. ASSUME NEW w \in Workers, Disturb(w) PROVE status'[i] # "ABSENT"
  BY <1>4
     DEF Disturb, CommitReplyLost, MarkSyncedFails, MarkAborts, Crash, SetSynced, SetConflict,
         InsertConflictLog, SetFailed, rowVars
<1>5. CASE Tick \/ UNCHANGED vars
  BY <1>5 DEF Tick, vars, rowVars
<1> QED
  BY <1>1, <1>2, <1>3, <1>4, <1>5 DEF Next

(* Every step hands only rows that are there to a worker. *)
LEMMA HeldStep == IndInv /\ HeldIsPresent /\ [Next]_vars => HeldIsPresent'
<1> SUFFICES ASSUME IndInv, HeldIsPresent, [Next]_vars, NEW v \in Workers, NEW i \in Items,
                    Holds(v, i)'
             PROVE  status'[i] # "ABSENT"
  BY DEF HeldIsPresent
<1>1. ASSUME Holds(v, i) PROVE status'[i] # "ABSENT"
  BY <1>1, PresenceStep DEF HeldIsPresent
<1>2. ASSUME NEW w \in Workers, Claim(w) PROVE status'[i] # "ABSENT"
  <2> DEFINE claimed == Oldest(Runnable, BatchSize)
  <2>1. claimed \subseteq Items
    BY OldestSubset DEF Runnable
  <2>2. /\ status' = [j \in Items |-> IF j \in claimed THEN "PROCESSING" ELSE status[j]]
        /\ batch' = [batch EXCEPT ![w] = claimed]
        /\ cur' = cur
    BY <1>2 DEF Claim
  <2> HIDE DEF claimed
  <2> QED
    BY <1>1, <2>1, <2>2 DEF Holds, IndInv, TypeOK
<1>3. ASSUME NEW w \in Workers, NEW j \in Items, NEW phase, Start(w, j, phase)
      PROVE  Holds(v, i)
  BY <1>3 DEF Start, Holds, IndInv, TypeOK
<1>4. ASSUME NEW w \in Workers, Proceed(w) PROVE Holds(v, i) \/ i = None
  BY <1>4 DEF Proceed, Holds, IndInv, TypeOK
<1>5. ASSUME NEW w \in Workers, Leave(w) PROVE Holds(v, i) \/ i = None
  BY <1>5 DEF Leave, Holds, IndInv, TypeOK
<1>6. ASSUME UNCHANGED <<batch, cur>> PROVE Holds(v, i)
  BY <1>6 DEF Holds
<1>7. i # None
  BY ConstantsAssumption DEF ConstantsAssumption
<1>8. ASSUME NEW j \in Items, Enqueue(j) \/ PushAgain(j) \/ Requeue(j) PROVE Holds(v, i)
  BY <1>6, <1>8 DEF Enqueue, PushAgain, Requeue, workerVars
<1>9. ASSUME NEW w \in Workers, Work(w) PROVE Holds(v, i)
  BY <1>3, <1>4, <1>6, <1>7, <1>9
     DEF Work, ProcessorCommits, ProcessorConflicts, ProcessorFails, MarkSynced, MarkConflict,
         LogConflict, MarkFailed
<1>10. ASSUME NEW w \in Workers, Disturb(w) PROVE Holds(v, i)
  BY <1>3, <1>5, <1>6, <1>7, <1>10
     DEF Disturb, CommitReplyLost, MarkSyncedFails, MarkAborts, Crash
<1>11. CASE Tick \/ UNCHANGED vars
  BY <1>1, <1>6, <1>11 DEF Tick, workerVars, vars
<1> QED
  BY <1>1, <1>2, <1>8, <1>9, <1>10, <1>11 DEF Next

-----------------------------------------------------------------------------

(* Each status has its place, and the places tell the statuses apart but   *)
(* for the three of an open item.                                          *)
LEMMA PlaceOf ==
    \A s \in Statuses :
        /\ Place(s) \in {"absent", "open", "synced", "parked", "dead"}
        /\ Place(s) = "absent" <=> s = "ABSENT"
        /\ Place(s) = "open" <=> s \in {"PENDING", "PROCESSING", "FAILED"}
        /\ Place(s) = "synced" <=> s = "SYNCED"
        /\ Place(s) = "parked" <=> s = "CONFLICT"
        /\ Place(s) = "dead" <=> s = "DEAD_LETTER"
  BY DEF Place, Statuses

(* Where one row changes its status, the inbox shows one item moving.      *)
LEMMA OneMoves ==
    ASSUME TypeOK, NEW i \in Items, NEW s, status' = [status EXCEPT ![i] = s]
    PROVE  Inbox' = [Inbox EXCEPT ![i] = Place(s)]
  BY DEF TypeOK, Inbox

(* Whatever a step does to one disturbed item, the inbox allows it. *)
LEMMA Suffering ==
    ASSUME TypeOK, TypeOK', NoPhantomSync', NEW i \in Items,
           status[i] # "ABSENT", status'[i] # "ABSENT",
           NEW s, status' = [status EXCEPT ![i] = s],
           NEW n, applied' = [applied EXCEPT ![i] = n], n >= applied[i],
           confirmed' = confirmed,
           overrun' \cup torn' = (overrun \cup torn) \cup {i}
    PROVE  Promise!Suffer(i)
<1>1. status[i] \in Statuses /\ s \in Statuses /\ status'[i] = s /\ applied'[i] = n /\ n \in 0..2
  BY DEF TypeOK
<1>2. Inbox[i] # "absent" /\ Inbox' = [Inbox EXCEPT ![i] = Place(s)]
  BY <1>1, OneMoves, PlaceOf DEF Inbox
<1>3. Place(s) \in {"open"} \cup Promise!Settled /\ (Place(s) = "synced" => n > 0)
  BY <1>1, PlaceOf DEF Promise!Settled, NoPhantomSync
<1> QED
  BY <1>1, <1>2, <1>3 DEF Promise!Suffer, Inbox

-----------------------------------------------------------------------------

Undisturbed(i) == i \notin overrun \cup torn

(* The row of an undisturbed item that a worker holds, its effect not yet  *)
(* committed and its conflict not yet parked, is PROCESSING.               *)
LEMMA HeldRow ==
    ASSUME IndInv, NEW w \in Workers, NEW i \in Items, Holds(w, i), Undisturbed(i),
           cur[w] = i => pc[w] \in {"conflict", "failed"}
    PROVE  status[i] = "PROCESSING" /\ applied[i] = 0
<1> USE DEF Undisturbed, IndInv
<1>1. status[i] = "PROCESSING" /\ \A v \in Workers : Holds(v, i) => v = w
  BY DEF ExclusiveClaim, StatusUnder
<1>2. \A v \in Workers : ~(pc[v] = "applied" /\ cur[v] = i)
  BY <1>1 DEF Holds
<1> QED
  BY <1>1, <1>2 DEF EffectMatchesRow, TypeOK

(* A disturbed item that a worker marks may end anywhere.                  *)
LEMMA DisturbedMark ==
    ASSUME IndInv, IndInv', HeldIsPresent, NEW w \in Workers, pc[w] \in Busy,
           NEW s, s # "ABSENT", status' = [status EXCEPT ![cur[w]] = s],
           UNCHANGED <<applied, confirmed>>,
           overrun' \cup torn' = (overrun \cup torn) \cup {cur[w]}
    PROVE  [Promise!Next]_(Promise!vars)
<1> DEFINE i == cur[w]
<1>1. i \in Items /\ Holds(w, i)
  BY DEF IndInv, WorkerShape, Holds
<1>2. TypeOK /\ TypeOK' /\ NoPhantomSync'
  BY DEF IndInv, EffectBehindSync
<1> HIDE DEF i
<1>3. status[i] # "ABSENT" /\ status' = [status EXCEPT ![i] = s] /\ status'[i] # "ABSENT"
  BY <1>1, <1>2 DEF i, TypeOK, HeldIsPresent
<1>4. applied' = [applied EXCEPT ![i] = applied[i]] /\ applied[i] >= applied[i]
  BY <1>1, <1>2 DEF TypeOK
<1>5. Promise!Suffer(i)
  BY <1>1, <1>2, <1>3, <1>4, Suffering DEF i
<1> QED
  BY <1>1, <1>5 DEF Promise!Next

(* markFailed() leaves an undisturbed item open or gives it up.            *)
LEMMA FailedStep ==
    ASSUME IndInv, IndInv', HeldIsPresent, NEW w \in Workers, pc[w] = "failed",
           SetFailed(cur[w]), UNCHANGED <<applied, confirmed, overrun, torn>>
    PROVE  [Promise!Next]_(Promise!vars)
<1> DEFINE i == cur[w]
<1>1. i \in Items /\ Holds(w, i)
  BY DEF IndInv, WorkerShape, Busy, Phases, Holds
<1>2. PICK s \in {"DEAD_LETTER", "FAILED"} : status' = [status EXCEPT ![i] = s]
  BY DEF SetFailed
<1>3. status[i] \in Statuses /\ status'[i] = s
  BY <1>1, <1>2 DEF IndInv, TypeOK
<1> HIDE DEF i
<1>4. CASE Undisturbed(i)
  <2>1. status[i] = "PROCESSING" /\ applied[i] = 0
    BY <1>1, <1>4, HeldRow DEF i
  <2>2. Inbox[i] = "open" /\ Inbox' = [Inbox EXCEPT ![i] = Place(s)]
    BY <1>1, <1>2, <1>3, <2>1, OneMoves, PlaceOf DEF Inbox, IndInv
  <2>3. CASE s = "DEAD_LETTER"
    <3>1. Place(s) = "dead"
      BY <2>3, PlaceOf DEF Statuses
    <3>2. Promise!GiveUp(i)
      BY <2>1, <2>2, <3>1 DEF Promise!GiveUp, Promise!Move, Inbox
    <3> QED
      BY <1>1, <3>2 DEF Promise!Next
  <2>4. CASE s = "FAILED"
    <3>1. Place(s) = "open"
      BY <2>4, PlaceOf DEF Statuses
    <3>2. Inbox' = Inbox
      BY <2>2, <3>1 DEF Inbox
    <3> QED
      BY <3>2 DEF Promise!vars, Inbox
  <2> QED
    BY <2>3, <2>4
<1>5. CASE ~Undisturbed(i)
  BY <1>2, <1>5, DisturbedMark DEF i, Undisturbed, Busy, Phases
<1> QED
  BY <1>4, <1>5

(* A commit of the processor adds to what was written.                     *)
LEMMA CommitGrows ==
    ASSUME TypeOK, NEW i \in Items, Committed(i)
    PROVE  \E n \in 0..2 : n >= applied[i] /\ applied' = [applied EXCEPT ![i] = n]
<1>1. CASE applied[i] = 0
  <2>1. applied' = [applied EXCEPT ![i] = 1]
    BY <1>1 DEF Committed
  <2>2. 1 \in 0..2 /\ 1 >= applied[i]
    BY <1>1
  <2> QED
    BY <2>1, <2>2
<1>2. CASE applied[i] # 0
  <2>1. applied' = [applied EXCEPT ![i] = 2]
    BY <1>2 DEF Committed
  <2>2. 2 \in 0..2 /\ 2 >= applied[i]
    BY DEF TypeOK
  <2> QED
    BY <2>1, <2>2
<1> QED
  BY <1>1, <1>2

(* Each step of the queue is a step of the inbox, or none.                 *)
LEMMA InboxStep == IndInv /\ HeldIsPresent /\ [Next]_vars => [Promise!Next]_(Promise!vars)
<1> SUFFICES ASSUME IndInv, HeldIsPresent, [Next]_vars
             PROVE  [Promise!Next]_(Promise!vars)
  OBVIOUS
<1> DEFINE Stutter == UNCHANGED <<Inbox, applied, confirmed, overrun, torn>>
<1>a. IndInv'
  BY Inductive
<1>b. Stutter => [Promise!Next]_(Promise!vars)
  BY DEF Promise!vars, Inbox
<1>c. status' = status => Inbox' = Inbox
  BY DEF Inbox
<1>d. TypeOK /\ TypeOK' /\ NoPhantomSync'
  BY <1>a DEF IndInv, EffectBehindSync
<1>e. \A w \in Workers : pc[w] \in Busy => cur[w] \in Items /\ Holds(w, cur[w])
  BY DEF IndInv, WorkerShape, Holds
<1>f. \A i \in Items : status[i] \in Statuses
  BY <1>d DEF TypeOK
<1> HIDE DEF Stutter
<1>1. ASSUME NEW i \in Items, Enqueue(i) PROVE [Promise!Next]_(Promise!vars)
  <2>1. Place("ABSENT") = "absent" /\ Place("PENDING") = "open"
    BY PlaceOf DEF Statuses
  <2>2. Inbox[i] = "absent" /\ Inbox' = [Inbox EXCEPT ![i] = "open"]
    BY <1>1, <1>d, <2>1, OneMoves DEF Enqueue, Inbox
  <2>3. Promise!Accept(i)
    BY <1>1, <2>2 DEF Enqueue, seenVars, boundVars, Promise!Accept, Promise!Move, Inbox
  <2> QED
    BY <2>3 DEF Promise!Next
<1>2. ASSUME NEW i \in Items, PushAgain(i) PROVE [Promise!Next]_(Promise!vars)
  <2>1. Place("SYNCED") = "synced"
    BY PlaceOf DEF Statuses
  <2>2. Inbox[i] = "synced" /\ Inbox' = Inbox
    BY <1>2, <1>c, <2>1 DEF PushAgain, rowVars, Inbox
  <2>3. Promise!Acknowledge(i)
    BY <1>2, <2>2 DEF PushAgain, boundVars, Promise!Acknowledge, Inbox
  <2> QED
    BY <2>3 DEF Promise!Next
<1>3. ASSUME NEW i \in Items, Requeue(i) PROVE [Promise!Next]_(Promise!vars)
  <2>1. Place("DEAD_LETTER") = "dead" /\ Place("PENDING") = "open" /\ Place("FAILED") = "open"
    BY PlaceOf DEF Statuses
  <2>2. Inbox' = [Inbox EXCEPT ![i] = "open"] /\ UNCHANGED <<applied, confirmed, overrun, torn>>
    BY <1>3, <1>d, <2>1, OneMoves DEF Requeue, seenVars
  <2>3. CASE status[i] = "FAILED"
    BY <1>b, <2>1, <2>2, <2>3 DEF Stutter, Inbox
  <2>4. CASE status[i] = "DEAD_LETTER"
    <3>1. Promise!Reopen(i)
      BY <2>1, <2>2, <2>4 DEF Promise!Reopen, Promise!Move, Inbox
    <3> QED
      BY <3>1 DEF Promise!Next
  <2> QED
    BY <1>3, <2>3, <2>4 DEF Requeue
<1>4. ASSUME NEW w \in Workers, Claim(w) PROVE [Promise!Next]_(Promise!vars)
  <2> DEFINE claimed == Oldest(Runnable, BatchSize)
             seized == {i \in claimed : Stuck(i) /\ Held(i)}
  <2>1. /\ claimed \subseteq Items
        /\ \A i \in claimed : status[i] \in {"PENDING", "PROCESSING", "FAILED"}
    BY OldestSubset DEF Runnable, Due, Stuck
  <2>2. /\ status' = [i \in Items |-> IF i \in claimed THEN "PROCESSING" ELSE status[i]]
        /\ overrun' = overrun \cup seized
        /\ UNCHANGED <<applied, confirmed, torn>>
    BY <1>4 DEF Claim, seenVars
  <2>3. seized \subseteq Items
    BY <2>1
  <2> HIDE DEF claimed, seized
  <2>4. \A i \in Items : Place(status'[i]) = Place(status[i])
    BY <1>f, <2>1, <2>2, PlaceOf DEF Statuses
  <2>5. Inbox' = Inbox
    BY <2>4 DEF Inbox
  <2>6. Promise!Disturb(seized)
    BY <2>2, <2>5 DEF Promise!Disturb, Inbox
  <2> QED
    BY <2>3, <2>6 DEF Promise!Next
<1>5. ASSUME NEW w \in Workers, NEW i \in Items, ProcessorCommits(w, i)
      PROVE  [Promise!Next]_(Promise!vars)
  <2>1. /\ status' = status /\ UNCHANGED <<confirmed, overrun, torn>>
        /\ applied' = [applied EXCEPT ![i] = IF @ = 0 THEN 1 ELSE 2]
        /\ i \in batch[w] /\ pc[w] = "loop"
    BY <1>5 DEF ProcessorCommits, Start, Committed, rowVars, boundVars
  <2>2. Holds(w, i) /\ cur[w] # i
    BY <2>1, ConstantsAssumption
       DEF Holds, IndInv, WorkerShape, ConstantsAssumption
  <2>3. CASE Undisturbed(i)
    <3>1. status[i] = "PROCESSING" /\ applied[i] = 0
      BY <2>2, <2>3, HeldRow
    <3>2. Place("PROCESSING") = "open"
      BY PlaceOf DEF Statuses
    <3>3. applied' = [applied EXCEPT ![i] = 1]
      BY <2>1, <3>1 DEF IndInv, TypeOK
    <3>4. Promise!Write(i)
      BY <1>c, <2>1, <3>1, <3>2, <3>3 DEF Promise!Write, Inbox
    <3> QED
      BY <3>4 DEF Promise!Next
  <2>4. CASE ~Undisturbed(i)
    <3>1. PICK n \in 0..2 : n >= applied[i] /\ applied' = [applied EXCEPT ![i] = n]
      BY <1>5, <1>d, CommitGrows DEF ProcessorCommits
    <3>2. status' = [status EXCEPT ![i] = status[i]] /\ status[i] # "ABSENT" /\ status'[i] # "ABSENT"
      BY <1>d, <2>1, <2>2 DEF TypeOK, HeldIsPresent
    <3>3. Promise!Suffer(i)
      BY <1>d, <2>1, <2>4, <3>1, <3>2, Suffering DEF Undisturbed
    <3> QED
      BY <3>3 DEF Promise!Next
  <2> QED
    BY <2>3, <2>4
<1>6. ASSUME NEW w \in Workers, NEW i \in Items, ProcessorConflicts(w, i) \/ ProcessorFails(w, i)
      PROVE  [Promise!Next]_(Promise!vars)
  BY <1>6, <1>b, <1>c
     DEF ProcessorConflicts, ProcessorFails, rowVars, seenVars, boundVars, Stutter
<1>7. ASSUME NEW w \in Workers, MarkSynced(w) PROVE [Promise!Next]_(Promise!vars)
  <2>1. /\ status' = [status EXCEPT ![cur[w]] = "SYNCED"]
        /\ UNCHANGED <<applied, confirmed, overrun, torn>>
        /\ pc[w] = "applied"
    BY <1>7 DEF MarkSynced, SetSynced, seenVars, boundVars
  <2>2. cur[w] \in Items /\ Holds(w, cur[w]) /\ applied[cur[w]] > 0
    BY <1>e, <2>1 DEF Busy, Phases, IndInv, EffectBehindSync
  <2>3. CASE Undisturbed(cur[w])
    <3>1. status[cur[w]] = "PROCESSING"
      BY <2>1, <2>2, <2>3 DEF IndInv, ExclusiveClaim, StatusUnder, Undisturbed
    <3>2. Place("PROCESSING") = "open" /\ Place("SYNCED") = "synced"
      BY PlaceOf DEF Statuses
    <3>3. Inbox[cur[w]] = "open" /\ Inbox' = [Inbox EXCEPT ![cur[w]] = "synced"]
      <4>1. Inbox[cur[w]] = "open"
        BY <2>2, <3>1, <3>2 DEF Inbox
      <4>2. Inbox' = [Inbox EXCEPT ![cur[w]] = Place("SYNCED")]
        BY <1>d, <2>1, <2>2, OneMoves
      <4> QED
        BY <3>2, <4>1, <4>2
    <3>4. Promise!Sync(cur[w])
      BY <2>1, <2>2, <3>3 DEF Promise!Sync, Promise!Move, Inbox
    <3> QED
      BY <2>2, <3>4 DEF Promise!Next
  <2>4. CASE ~Undisturbed(cur[w])
    BY <1>a, <2>1, <2>4, DisturbedMark DEF Undisturbed, Busy, Phases
  <2> QED
    BY <2>3, <2>4
<1>8. ASSUME NEW w \in Workers, MarkConflict(w) PROVE [Promise!Next]_(Promise!vars)
  <2>1. /\ status' = [status EXCEPT ![cur[w]] = "CONFLICT"]
        /\ UNCHANGED <<applied, confirmed, overrun, torn>>
        /\ pc[w] = "conflict"
    BY <1>8 DEF MarkConflict, SetConflict, seenVars, boundVars
  <2>2. cur[w] \in Items /\ Holds(w, cur[w])
    BY <1>e, <2>1 DEF Busy, Phases
  <2>3. CASE Undisturbed(cur[w])
    <3>1. status[cur[w]] = "PROCESSING" /\ applied[cur[w]] = 0
      BY <2>1, <2>2, <2>3, HeldRow
    <3>2. Place("PROCESSING") = "open" /\ Place("CONFLICT") = "parked"
      BY PlaceOf DEF Statuses
    <3>3. Inbox[cur[w]] = "open" /\ Inbox' = [Inbox EXCEPT ![cur[w]] = "parked"]
      <4>1. Inbox[cur[w]] = "open"
        BY <2>2, <3>1, <3>2 DEF Inbox
      <4>2. Inbox' = [Inbox EXCEPT ![cur[w]] = Place("CONFLICT")]
        BY <1>d, <2>1, <2>2, OneMoves
      <4> QED
        BY <3>2, <4>1, <4>2
    <3>4. Promise!Park(cur[w])
      BY <2>1, <3>1, <3>3 DEF Promise!Park, Promise!Move, Inbox
    <3> QED
      BY <2>2, <3>4 DEF Promise!Next
  <2>4. CASE ~Undisturbed(cur[w])
    BY <1>a, <2>1, <2>4, DisturbedMark DEF Undisturbed, Busy, Phases
  <2> QED
    BY <2>3, <2>4
<1>9. ASSUME NEW w \in Workers, LogConflict(w) PROVE [Promise!Next]_(Promise!vars)
  BY <1>9, <1>b, <1>c DEF LogConflict, InsertConflictLog, seenVars, boundVars, Stutter
<1>10. ASSUME NEW w \in Workers, MarkFailed(w) PROVE [Promise!Next]_(Promise!vars)
  BY <1>10, <1>a, FailedStep DEF MarkFailed, seenVars, boundVars
<1>11. ASSUME NEW w \in Workers, NEW i \in Items, CommitReplyLost(w, i)
       PROVE  [Promise!Next]_(Promise!vars)
  <2>1. /\ status' = status /\ confirmed' = confirmed
        /\ overrun' \cup torn' = (overrun \cup torn) \cup {i}
        /\ applied' = [applied EXCEPT ![i] = IF @ = 0 THEN 1 ELSE 2]
        /\ Holds(w, i)
    BY <1>11 DEF CommitReplyLost, Fault, Start, Committed, rowVars, Holds
  <2>2. PICK n \in 0..2 : n >= applied[i] /\ applied' = [applied EXCEPT ![i] = n]
    BY <1>11, <1>d, CommitGrows DEF CommitReplyLost
  <2>3. status' = [status EXCEPT ![i] = status[i]] /\ status[i] # "ABSENT" /\ status'[i] # "ABSENT"
    BY <1>d, <2>1 DEF TypeOK, HeldIsPresent
  <2>4. Promise!Suffer(i)
    BY <1>d, <2>1, <2>2, <2>3, Suffering
  <2> QED
    BY <2>4 DEF Promise!Next
<1>12. ASSUME NEW w \in Workers, MarkSyncedFails(w) PROVE [Promise!Next]_(Promise!vars)
  <2>1. /\ UNCHANGED <<applied, confirmed>>
        /\ overrun' \cup torn' = (overrun \cup torn) \cup {cur[w]}
        /\ pc[w] \in Busy
    BY <1>12 DEF MarkSyncedFails, Fault, seenVars, Busy, Phases
  <2>2. PICK s : s # "ABSENT" /\ status' = [status EXCEPT ![cur[w]] = s]
    <3>1. CASE SetSynced(cur[w])
      BY <3>1 DEF SetSynced
    <3>2. CASE UNCHANGED rowVars
      <4>1. status[cur[w]] # "ABSENT"
        BY <1>e, <2>1 DEF HeldIsPresent
      <4>2. status' = [status EXCEPT ![cur[w]] = status[cur[w]]]
        <5>1. status \in [Items -> Statuses]
          BY <1>d DEF TypeOK
        <5>2. status' = status
          BY <3>2 DEF rowVars
        <5> QED
          BY <5>1, <5>2
      <4> QED
        BY <4>1, <4>2
    <3> QED
      BY <1>12, <3>1, <3>2 DEF MarkSyncedFails
  <2> QED
    BY <1>a, <2>1, <2>2, DisturbedMark
<1>13. ASSUME NEW w \in Workers, MarkAborts(w) PROVE [Promise!Next]_(Promise!vars)
  <2>1. UNCHANGED <<applied, confirmed, overrun>>
    BY <1>13 DEF MarkAborts, Fault, seenVars
  <2>2. CASE pc[w] = "conflict" /\ SetConflict(cur[w]) /\ torn' = torn \cup {cur[w]}
    <3>1. status' = [status EXCEPT ![cur[w]] = "CONFLICT"]
      BY <2>2 DEF SetConflict
    <3> QED
      BY <1>a, <2>1, <2>2, <3>1, DisturbedMark DEF Busy, Phases
  <2>3. CASE status' = status /\ torn' = torn
    BY <1>b, <1>c, <2>1, <2>3 DEF Stutter
  <2>4. CASE pc[w] = "logging" /\ status' = status /\ torn' = torn \cup {cur[w]}
    <3>1. Promise!Disturb({cur[w]})
      BY <1>c, <2>1, <2>4 DEF Promise!Disturb, Inbox
    <3>2. {cur[w]} \in SUBSET Items
      BY <1>e, <2>4 DEF Busy, Phases
    <3> QED
      BY <3>1, <3>2 DEF Promise!Next
  <2>5. CASE pc[w] = "failed" /\ SetFailed(cur[w]) /\ torn' = torn
    BY <1>a, <2>1, <2>5, FailedStep
  <2> QED
    BY <1>13, <2>2, <2>3, <2>4, <2>5 DEF MarkAborts, InsertConflictLog, rowVars
<1>14. ASSUME NEW w \in Workers, Crash(w) PROVE [Promise!Next]_(Promise!vars)
  <2>1. status' = status /\ UNCHANGED <<applied, confirmed, overrun>>
    BY <1>14 DEF Crash, Fault, rowVars, seenVars
  <2>2. CASE torn' = torn
    BY <1>b, <1>c, <2>1, <2>2 DEF Stutter
  <2>3. CASE pc[w] \in {"applied", "logging"} /\ torn' = torn \cup {cur[w]}
    <3>1. Promise!Disturb({cur[w]})
      BY <1>c, <2>1, <2>3 DEF Promise!Disturb, Inbox
    <3>2. {cur[w]} \in SUBSET Items
      BY <1>e, <2>3 DEF Busy, Phases
    <3> QED
      BY <3>1, <3>2 DEF Promise!Next
  <2> QED
    BY <1>14, <2>2, <2>3 DEF Crash
<1>15. CASE Tick \/ UNCHANGED vars
  BY <1>15, <1>b, <1>c DEF Tick, vars, rowVars, seenVars, boundVars, Stutter
<1> QED
  BY <1>1, <1>2, <1>3, <1>4, <1>5, <1>6, <1>7, <1>8, <1>9, <1>10, <1>11, <1>12, <1>13, <1>14,
     <1>15 DEF Next, Work, Disturb

(* The refinement: to its devices, the queue with its workers, claims,     *)
(* retries, requeues and faults is an inbox.                               *)
THEOREM QueueImplementsInbox == Spec => ImplementsInbox
<1>1. Init => Promise!Init
  BY PlaceOf DEF Init, Promise!Init, Statuses
<1>2. Init => HeldIsPresent
  BY ConstantsAssumption DEF Init, HeldIsPresent, Holds, ConstantsAssumption
<1>3. Spec => []HeldIsPresent
  BY <1>2, HeldStep, Invariance, PTL DEF Spec
<1> QED
  BY <1>1, <1>3, InboxStep, Invariance, PTL DEF Spec, ImplementsInbox, Promise!Spec

-----------------------------------------------------------------------------
(***************************************************************************)
(* ConflictResolution: proofs, for every number of managers, items and     *)
(* workers, of what keeps the two ways into the fact tables apart.  A      *)
(* request reads the conflict one round trip before it acts on it, and in  *)
(* between the queue may take any number of steps.  What carries the       *)
(* request over them is the conflict log: no step of the queue takes an    *)
(* open conflict back, and (ConflictOnRecord) the row of an open conflict  *)
(* is parked, unwritten.                                                   *)
(***************************************************************************)

(* A request between its steps, and a payload it re-applied, have an open  *)
(* conflict behind them.                                                   *)
RequestsHaveConflict ==
    \A r \in Resolvers : rpc[r] # "idle" => target[r] \in Items /\ open[target[r]] > 0

ForcedHaveConflict == \A i \in Items : forced[i] > 0 => open[i] > 0

CRIndInv ==
    /\ IndInv
    /\ CRTypeOK
    /\ RequestsHaveConflict
    /\ ForcedHaveConflict

-----------------------------------------------------------------------------

(* No step of the queue closes a conflict: markConflict() only adds one.   *)
LEMMA OpenGrows == IndInv /\ [Next]_vars => \A i \in Items : open'[i] >= open[i]
<1> SUFFICES ASSUME IndInv, [Next]_vars, NEW i \in Items
             PROVE  open'[i] >= open[i]
  OBVIOUS
<1> USE DEF IndInv, TypeOK
<1>0. open' = open => open'[i] >= open[i]
  OBVIOUS
<1>1. ASSUME NEW j \in Items, InsertConflictLog(j) PROVE open'[i] >= open[i]
  BY <1>1 DEF InsertConflictLog
<1>2. \A w \in Workers : pc[w] = "logging" => cur[w] \in Items
  BY DEF WorkerShape, Busy, Phases
<1>3. ASSUME NEW w \in Workers, Work(w) PROVE open'[i] >= open[i]
  BY <1>0, <1>1, <1>2, <1>3
     DEF Work, ProcessorCommits, ProcessorConflicts, ProcessorFails, MarkSynced, MarkConflict,
         LogConflict, MarkFailed, SetSynced, SetConflict, SetFailed, rowVars
<1>4. ASSUME NEW w \in Workers, Disturb(w) PROVE open'[i] >= open[i]
  BY <1>0, <1>1, <1>2, <1>4
     DEF Disturb, CommitReplyLost, MarkSyncedFails, MarkAborts, Crash, SetSynced, SetConflict,
         SetFailed, rowVars
<1>5. ASSUME NEW w \in Workers, Claim(w) PROVE open' = open
  BY <1>5 DEF Claim
<1>6. ASSUME NEW j \in Items, Enqueue(j) \/ PushAgain(j) \/ Requeue(j) PROVE open' = open
  BY <1>6 DEF Enqueue, PushAgain, Requeue, rowVars
<1>7. CASE Tick \/ UNCHANGED vars
  BY <1>0, <1>7 DEF Tick, vars, rowVars
<1> QED
  BY <1>0, <1>3, <1>4, <1>5, <1>6, <1>7 DEF Next

(* An open conflict of an item whose claim was not overrun is that of a    *)
(* parked row, and the item is not written if nothing tore it.             *)
LEMMA OpenIsParked ==
    ASSUME IndInv, NEW i \in Items \ overrun, open[i] > 0
    PROVE  status[i] = "CONFLICT" /\ (i \notin torn => applied[i] = 0)
<1>1. open[i] = 1
  BY DEF IndInv, TypeOK, LogMatchesRow, ConflictOnRecord
<1> QED
  BY <1>1 DEF IndInv, LogMatchesRow, ConflictOnRecord

(* Every step of the system is, for the queue, a step of the queue or none. *)
LEMMA QueueView == [CRNext]_allVars => [Next]_vars
  BY DEF CRNext, QueueStep, Resolve, ResolverStep, Reapply, ReapplyFails, Finalize, allVars

(* Every step keeps the requests well-typed. *)
LEMMA CRTypeStep == CRIndInv /\ [CRNext]_allVars => CRTypeOK'
<1> SUFFICES ASSUME CRIndInv, [CRNext]_allVars PROVE CRTypeOK'
  OBVIOUS
<1>1. TypeOK'
  BY QueueView, Inductive DEF CRIndInv, IndInv
<1> USE DEF CRIndInv, CRTypeOK, ResolverPhases
<1>2. ASSUME NEW r \in Resolvers, NEW i \in Items, NEW resolution \in Resolutions,
             Resolve(r, i, resolution)
      PROVE  CRTypeOK'
  BY <1>1, <1>2 DEF Resolve
<1>3. ASSUME NEW r \in Resolvers, Reapply(r) PROVE CRTypeOK'
  BY <1>1, <1>3 DEF Reapply, RequestsHaveConflict
<1>4. ASSUME NEW r \in Resolvers, ReapplyFails(r) \/ Finalize(r) PROVE CRTypeOK'
  BY <1>1, <1>4 DEF ReapplyFails, Finalize, Answer
<1>5. CASE QueueStep \/ UNCHANGED allVars
  BY <1>1, <1>5 DEF QueueStep, allVars, resolverVars
<1> QED
  BY <1>2, <1>3, <1>4, <1>5 DEF CRNext, ResolverStep

(* Every step keeps a conflict behind each request and each re-application. *)
LEMMA CRBackedStep ==
    CRIndInv /\ [CRNext]_allVars => RequestsHaveConflict' /\ ForcedHaveConflict'
<1> SUFFICES ASSUME CRIndInv, [CRNext]_allVars
             PROVE  RequestsHaveConflict' /\ ForcedHaveConflict'
  OBVIOUS
<1>0. /\ \A i \in Items : open[i] \in Nat /\ open'[i] \in Nat /\ open'[i] >= open[i]
      /\ CRTypeOK /\ RequestsHaveConflict /\ ForcedHaveConflict
  BY QueueView, OpenGrows, Inductive DEF CRIndInv, IndInv, TypeOK
<1> USE DEF CRTypeOK, ResolverPhases, RequestsHaveConflict, ForcedHaveConflict
<1>1. ASSUME NEW r \in Resolvers, NEW i \in Items, NEW resolution \in Resolutions,
             Resolve(r, i, resolution)
      PROVE  RequestsHaveConflict' /\ ForcedHaveConflict'
  BY <1>0, <1>1 DEF Resolve, Resolvable
<1>2. ASSUME NEW r \in Resolvers, Reapply(r)
      PROVE  RequestsHaveConflict' /\ ForcedHaveConflict'
  BY <1>0, <1>2 DEF Reapply
<1>3. ASSUME NEW r \in Resolvers, ReapplyFails(r) \/ Finalize(r)
      PROVE  RequestsHaveConflict' /\ ForcedHaveConflict'
  BY <1>0, <1>3 DEF ReapplyFails, Finalize, Answer
<1>4. CASE QueueStep \/ UNCHANGED allVars
  BY <1>0, <1>4 DEF QueueStep, allVars, resolverVars
<1> QED
  BY <1>1, <1>2, <1>3, <1>4 DEF CRNext, ResolverStep

LEMMA CRInductive == CRIndInv /\ [CRNext]_allVars => CRIndInv'
  BY QueueView, Inductive, CRTypeStep, CRBackedStep DEF CRIndInv

LEMMA CRInvariance == CRSpec => []CRIndInv
<1>1. CRInit => CRIndInv
  BY InitialInv
     DEF CRInit, Init, CRIndInv, CRTypeOK, IndInv, ResolverPhases, RequestsHaveConflict,
         ForcedHaveConflict
<1> QED
  BY <1>1, CRInductive, PTL DEF CRSpec

-----------------------------------------------------------------------------

(* Types: of the requests of resolveConflict() and of the queue beside     *)
(* them.                                                                   *)
THEOREM ResolutionTypeCorrect == CRSpec => []CRTypeOK
<1>1. CRIndInv => CRTypeOK
  BY DEF CRIndInv
<1> QED
  BY <1>1, CRInvariance, PTL

(* resolveConflict() and processQueue() never both write an undisturbed    *)
(* item, however many managers resolve it how often: a re-applied item has *)
(* an open conflict, so its row is parked and the queue has not written it. *)
THEOREM ItemsEnterOneWay == CRSpec => []OneWayIn
<1>1. CRIndInv => OneWayIn
  <2> SUFFICES ASSUME CRIndInv, NEW i \in Items \ (overrun \cup torn), forced[i] > 0
               PROVE  ~(applied[i] > 0)
    BY DEF OneWayIn
  <2>1. open[i] > 0 /\ IndInv
    BY DEF CRIndInv, ForcedHaveConflict
  <2>2. applied[i] = 0
    BY <2>1, OpenIsParked
  <2> QED
    BY <2>2
<1> QED
  BY <1>1, CRInvariance, PTL

(* When conflictOverride reaches the processor, the conflict it overrides  *)
(* is parked and listed, whatever the queue did since the request read it. *)
THEOREM OverridesFallOnParked == CRSpec => OverrideOnlyParked
<1> DEFINE Parked == \A i \in Items \ overrun : forced'[i] # forced[i] =>
                         status[i] = "CONFLICT" /\ open[i] > 0
<1>1. CRIndInv /\ [CRNext]_allVars => [Parked]_allVars
  <2> SUFFICES ASSUME CRIndInv, CRNext, NEW i \in Items \ overrun, forced'[i] # forced[i]
               PROVE  status[i] = "CONFLICT" /\ open[i] > 0
    OBVIOUS
  <2>1. PICK r \in Resolvers : Reapply(r)
    BY DEF CRNext, QueueStep, resolverVars, Resolve, ResolverStep, ReapplyFails, Finalize
  <2>2. target[r] = i
    BY <2>1 DEF Reapply, CRIndInv, CRTypeOK
  <2>3. open[i] > 0
    BY <2>1, <2>2 DEF Reapply, CRIndInv, RequestsHaveConflict
  <2> QED
    BY <2>3, OpenIsParked DEF CRIndInv
<1> QED
  BY <1>1, CRInvariance, PTL DEF CRSpec, OverrideOnlyParked

===============================================================================
