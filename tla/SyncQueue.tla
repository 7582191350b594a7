------------------------------ MODULE SyncQueue ------------------------------
(***************************************************************************)
(* The push queue of src/backend/src/services/syncQueueService.js: devices *)
(* push items into the table sync_queue, and any number of concurrent      *)
(* processQueue() invocations (POST /batch, POST /process, the cron of     *)
(* every instance) claim rows, run the entity processor and record the     *)
(* outcome.  The rows of one business are modelled; a worker is one        *)
(* invocation of processQueue().                                           *)
(*                                                                         *)
(* The statements of processQueue() are separate database round trips, so  *)
(* each is an action of its own.  A round trip may fail before or after    *)
(* the server executed it, and a worker may die between any two of them.   *)
(***************************************************************************)
EXTENDS Naturals, FiniteSets

CONSTANTS
    Items,        \* idempotency keys (device, user, entity type, clientRef)
    Workers,      \* concurrent processQueue() invocations
    None,         \* "no current row" of a worker
    BatchSize,    \* SYNC_BATCH_SIZE
    MaxRetry,     \* SYNC_RETRY_MAX
    StuckAge,     \* ticks after which a PROCESSING claim counts as stuck
    MaxBackoff,   \* longest retry delay, in ticks (jitter picks 0..MaxBackoff)
    MaxFaults,    \* bound on crashes and failed round trips
    MaxRequeues,  \* bound on manual requeues
    MaxIncidents  \* bound on faults and manual requeues together

ASSUME ConstantsAssumption ==
    /\ BatchSize \in Nat \ {0} /\ MaxRetry \in Nat \ {0}
    /\ StuckAge \in Nat \ {0} /\ MaxBackoff \in Nat
    /\ MaxFaults \in Nat /\ MaxRequeues \in Nat /\ MaxIncidents \in Nat
    /\ None \notin Items

VARIABLES
    (* the table sync_queue, one row per pushed item *)
    status,       \* sync_status, "ABSENT" before the INSERT
    queueId,      \* queue_id, 0 before the INSERT
    lastId,       \* the IDENTITY counter of queue_id
    retry,        \* retry_count
    wait,         \* ticks until next_retry_at; 0 when NULL or passed
    age,          \* ticks since claimed_at, saturating at StuckAge
    (* the table sync_conflict_log *)
    open,         \* number of rows of the item with resolution PENDING
    (* the processQueue() invocations *)
    pc,           \* what the worker does next
    batch,        \* claimed rows it has not started on
    cur,          \* the row it is working on
    (* what the rest of the world has seen *)
    applied,      \* committed runs of the processor: 0, 1, or 2 for "more"
    confirmed,    \* items whose device was answered DUPLICATE_ACK
    (* history and bounds *)
    overrun,      \* items taken over as stuck while a worker still held them
    torn,         \* items where a fault split an effect from its record
    faults, requeues

rowVars == <<status, queueId, lastId, retry, wait, age, open>>
workerVars == <<pc, batch, cur>>
seenVars == <<applied, confirmed>>
boundVars == <<overrun, torn, faults, requeues>>
vars == <<rowVars, workerVars, seenVars, boundVars>>

Statuses == {"ABSENT", "PENDING", "PROCESSING", "SYNCED", "FAILED", "CONFLICT",
             "DEAD_LETTER"}

(* "loop": at the head of the for loop; "applied": the processor returned; *)
(* "conflict": it threw a SyncConflictError; "logging": the row is parked, *)
(* its conflict log row is not yet written; "failed": any other error.     *)
Phases == {"idle", "loop", "applied", "conflict", "logging", "failed"}

Busy == Phases \ {"idle", "loop"}

Holds(w, i) == i \in batch[w] \/ cur[w] = i

Held(i) == \E w \in Workers : Holds(w, i)

-----------------------------------------------------------------------------

TypeOK ==
    /\ status \in [Items -> Statuses]
    /\ queueId \in [Items -> Nat]
    /\ lastId \in Nat
    /\ retry \in [Items -> Nat]
    /\ wait \in [Items -> 0..MaxBackoff]
    /\ age \in [Items -> 0..StuckAge]
    /\ open \in [Items -> Nat]
    /\ pc \in [Workers -> Phases]
    /\ batch \in [Workers -> SUBSET Items]
    /\ cur \in [Workers -> Items \cup {None}]
    /\ applied \in [Items -> 0..2]
    /\ confirmed \subseteq Items
    /\ overrun \subseteq Items
    /\ torn \subseteq Items
    /\ faults \in 0..MaxFaults
    /\ requeues \in 0..MaxRequeues

Init ==
    /\ status = [i \in Items |-> "ABSENT"]
    /\ queueId = [i \in Items |-> 0]
    /\ lastId = 0
    /\ retry = [i \in Items |-> 0]
    /\ wait = [i \in Items |-> 0]
    /\ age = [i \in Items |-> 0]
    /\ open = [i \in Items |-> 0]
    /\ pc = [w \in Workers |-> "idle"]
    /\ batch = [w \in Workers |-> {}]
    /\ cur = [w \in Workers |-> None]
    /\ applied = [i \in Items |-> 0]
    /\ confirmed = {}
    /\ overrun = {}
    /\ torn = {}
    /\ faults = 0
    /\ requeues = 0

-----------------------------------------------------------------------------
(* enqueueItem(): one INSERT; the unique index on the idempotency key      *)
(* turns a repeated push into a SELECT of the row already there.           *)

(* Mutant: a MERGE that inserts a finished item anew. *)
EnqueueAnew(i) ==
    /\ status[i] \in {"ABSENT", "SYNCED"}
    /\ status' = [status EXCEPT ![i] = "PENDING"]
    /\ lastId' = lastId + 1
    /\ queueId' = [queueId EXCEPT ![i] = lastId + 1]
    /\ retry' = [retry EXCEPT ![i] = 0]
    /\ UNCHANGED <<wait, age, open, workerVars, seenVars, boundVars>>

Enqueue(i) ==
    /\ status[i] = "ABSENT"
    /\ status' = [status EXCEPT ![i] = "PENDING"]
    /\ lastId' = lastId + 1
    /\ queueId' = [queueId EXCEPT ![i] = lastId + 1]
    /\ retry' = [retry EXCEPT ![i] = 0]
    /\ UNCHANGED <<wait, age, open, workerVars, seenVars, boundVars>>

(* Mutant: any repeated push is answered DUPLICATE_ACK. *)
AckEveryDuplicate(i) ==
    /\ status[i] # "ABSENT"
    /\ confirmed' = confirmed \cup {i}
    /\ UNCHANGED <<rowVars, workerVars, applied, boundVars>>

(* A repeated push of a row in any other state is answered ALREADY_QUEUED  *)
(* and changes nothing.                                                    *)
PushAgain(i) ==
    /\ status[i] = "SYNCED"
    /\ confirmed' = confirmed \cup {i}
    /\ UNCHANGED <<rowVars, workerVars, applied, boundVars>>

-----------------------------------------------------------------------------
(* claimBatch(): one atomic UPDATE ... OUTPUT over the TOP (batchSize)     *)
(* runnable rows in queue_id order.  Rows held by nobody and rows whose    *)
(* claim is older than stuckMinutes are both runnable; the second kind is  *)
(* not checked against maxRetry.                                           *)

Due(i) ==
    /\ status[i] \in {"PENDING", "FAILED"}
    /\ retry[i] < MaxRetry
    /\ wait[i] = 0

Stuck(i) == status[i] = "PROCESSING" /\ age[i] >= StuckAge

(* Mutants: without the age of the claim; without the stuck rows. *)
RunnableAtAnyAge == {i \in Items : Due(i) \/ status[i] = "PROCESSING"}

RunnableNeverStuck == {i \in Items : Due(i)}

Runnable == {i \in Items : Due(i) \/ Stuck(i)}

(* The rows of S that fewer than n rows of S precede. *)
Oldest(S, n) == {i \in S : Cardinality({j \in S : queueId[j] < queueId[i]}) < n}

Claim(w) ==
    /\ pc[w] = "idle"
    /\ Runnable # {}
    /\ LET claimed == Oldest(Runnable, BatchSize)
       IN  /\ status' = [i \in Items |-> IF i \in claimed THEN "PROCESSING" ELSE status[i]]
           /\ age' = [i \in Items |-> IF i \in claimed THEN 0 ELSE age[i]]
           /\ batch' = [batch EXCEPT ![w] = claimed]
           /\ overrun' = overrun \cup {i \in claimed : Stuck(i) /\ Held(i)}
    /\ pc' = [pc EXCEPT ![w] = "loop"]
    /\ UNCHANGED <<queueId, lastId, retry, wait, open, cur, seenVars, torn, faults, requeues>>

-----------------------------------------------------------------------------
(* The loop of processQueue(): each claimed row is handed to its           *)
(* processor, whose own transaction commits or rolls back as a whole, and  *)
(* then marked.  The OUTPUT clause returns the rows in no set order.       *)

Start(w, i, phase) ==
    /\ pc[w] = "loop"
    /\ i \in batch[w]
    /\ batch' = [batch EXCEPT ![w] = @ \ {i}]
    /\ cur' = [cur EXCEPT ![w] = i]
    /\ pc' = [pc EXCEPT ![w] = phase]

Committed(i) == applied' = [applied EXCEPT ![i] = IF @ = 0 THEN 1 ELSE 2]

ProcessorCommits(w, i) ==
    /\ Start(w, i, "applied")
    /\ Committed(i)
    /\ UNCHANGED <<rowVars, confirmed, boundVars>>

ProcessorConflicts(w, i) ==
    /\ Start(w, i, "conflict")
    /\ UNCHANGED <<rowVars, seenVars, boundVars>>

(* Unparsable payload, unknown entity type, a refused or failed write.     *)
ProcessorFails(w, i) ==
    /\ Start(w, i, "failed")
    /\ UNCHANGED <<rowVars, seenVars, boundVars>>

(* Back to the head of the loop, or out of processQueue() after the last.  *)
Proceed(w) ==
    /\ pc' = [pc EXCEPT ![w] = IF batch[w] = {} THEN "idle" ELSE "loop"]
    /\ cur' = [cur EXCEPT ![w] = None]
    /\ UNCHANGED batch

(* What the statements of markSynced, markConflict and markFailed write.   *)
(* None of them looks at the status of the row or at claimed_by.           *)

SetSynced(i) ==
    /\ status' = [status EXCEPT ![i] = "SYNCED"]
    /\ UNCHANGED <<queueId, lastId, retry, wait, age, open>>

(* Mutant: a conflict goes the way of any other failure. *)
SetConflictFailed(i) ==
    /\ status' = [status EXCEPT ![i] = "FAILED"]
    /\ UNCHANGED <<queueId, lastId, retry, wait, age, open>>

SetConflict(i) ==
    /\ status' = [status EXCEPT ![i] = "CONFLICT"]
    /\ UNCHANGED <<queueId, lastId, retry, wait, age, open>>

InsertConflictLog(i) ==
    /\ open' = [open EXCEPT ![i] = @ + 1]
    /\ UNCHANGED <<status, queueId, lastId, retry, wait, age>>

(* Mutant: one attempt too many. *)
ExhaustedLate(i) == retry[i] + 1 > MaxRetry

Exhausted(i) == retry[i] + 1 >= MaxRetry

(* Mutant: the backoff is not capped. *)
BackoffUncapped == 0..2 * MaxBackoff

(* backoffDelayMs() grows the delay with the attempts up to its cap and    *)
(* then takes a random part of it: any delay up to the cap.                *)
Backoff == 0..MaxBackoff

SetFailed(i) ==
    /\ retry' = [retry EXCEPT ![i] = @ + 1]
    /\ status' = [status EXCEPT ![i] = IF Exhausted(i) THEN "DEAD_LETTER" ELSE "FAILED"]
    /\ IF Exhausted(i)
       THEN wait' = [wait EXCEPT ![i] = 0]
       ELSE \E delay \in Backoff : wait' = [wait EXCEPT ![i] = delay]
    /\ UNCHANGED <<queueId, lastId, age, open>>

MarkSynced(w) ==
    /\ pc[w] = "applied"
    /\ SetSynced(cur[w])
    /\ Proceed(w)
    /\ UNCHANGED <<seenVars, boundVars>>

MarkConflict(w) ==
    /\ pc[w] = "conflict"
    /\ SetConflict(cur[w])
    /\ pc' = [pc EXCEPT ![w] = "logging"]
    /\ UNCHANGED <<batch, cur, seenVars, boundVars>>

LogConflict(w) ==
    /\ pc[w] = "logging"
    /\ InsertConflictLog(cur[w])
    /\ Proceed(w)
    /\ UNCHANGED <<seenVars, boundVars>>

MarkFailed(w) ==
    /\ pc[w] = "failed"
    /\ SetFailed(cur[w])
    /\ Proceed(w)
    /\ UNCHANGED <<seenVars, boundVars>>

-----------------------------------------------------------------------------
(* Faults.  A failed round trip is an exception in processQueue(); the     *)
(* server may or may not have executed the statement.                      *)

Fault ==
    /\ faults < MaxFaults /\ faults + requeues < MaxIncidents
    /\ faults' = faults + 1
    /\ UNCHANGED <<overrun, requeues>>

(* The processor's COMMIT goes through, its reply is lost: the catch block *)
(* takes it for a failure.                                                 *)
CommitReplyLost(w, i) ==
    /\ Fault
    /\ Start(w, i, "failed")
    /\ Committed(i)
    /\ torn' = torn \cup {i}
    /\ UNCHANGED <<rowVars, confirmed>>

(* markSynced() is inside the try: its error is caught and treated as a    *)
(* failure of the row.                                                     *)
MarkSyncedFails(w) ==
    /\ pc[w] = "applied"
    /\ Fault
    /\ SetSynced(cur[w]) \/ UNCHANGED rowVars
    /\ pc' = [pc EXCEPT ![w] = "failed"]
    /\ torn' = torn \cup {cur[w]}
    /\ UNCHANGED <<batch, cur, seenVars>>

Leave(w) ==
    /\ pc' = [pc EXCEPT ![w] = "idle"]
    /\ batch' = [batch EXCEPT ![w] = {}]
    /\ cur' = [cur EXCEPT ![w] = None]

(* An error in the catch block leaves processQueue(): the rest of the      *)
(* batch stays PROCESSING until it counts as stuck.                        *)
MarkAborts(w) ==
    /\ Fault
    /\ \/ /\ pc[w] = "conflict"
          /\ \/ SetConflict(cur[w]) /\ torn' = torn \cup {cur[w]}
             \/ UNCHANGED <<rowVars, torn>>
       \/ /\ pc[w] = "logging"
          /\ \/ InsertConflictLog(cur[w]) /\ UNCHANGED torn
             \/ torn' = torn \cup {cur[w]} /\ UNCHANGED rowVars
       \/ /\ pc[w] = "failed"
          /\ SetFailed(cur[w]) \/ UNCHANGED rowVars
          /\ UNCHANGED torn
    /\ Leave(w)
    /\ UNCHANGED seenVars

(* The process dies, or shutdown() exits without waiting for the drain in  *)
(* hand; its claims stay in the table.                                     *)
Crash(w) ==
    /\ pc[w] # "idle"
    /\ Fault
    /\ torn' = IF pc[w] \in {"applied", "logging"} THEN torn \cup {cur[w]} ELSE torn
    /\ Leave(w)
    /\ UNCHANGED <<rowVars, seenVars>>

-----------------------------------------------------------------------------
(* Mutant: the manual reset takes a parked row too. *)
RequeueParked(i) ==
    /\ requeues < MaxRequeues /\ faults + requeues < MaxIncidents
    /\ status[i] \in {"FAILED", "DEAD_LETTER", "CONFLICT"}
    /\ requeues' = requeues + 1
    /\ status' = [status EXCEPT ![i] = "PENDING"]
    /\ retry' = [retry EXCEPT ![i] = 0]
    /\ wait' = [wait EXCEPT ![i] = 0]
    /\ UNCHANGED <<queueId, lastId, age, open, workerVars, seenVars, overrun, torn, faults>>

(* requeueQueueRow(): the manual reset of a FAILED or DEAD_LETTER row.     *)
Requeue(i) ==
    /\ requeues < MaxRequeues /\ faults + requeues < MaxIncidents
    /\ status[i] \in {"FAILED", "DEAD_LETTER"}
    /\ requeues' = requeues + 1
    /\ status' = [status EXCEPT ![i] = "PENDING"]
    /\ retry' = [retry EXCEPT ![i] = 0]
    /\ wait' = [wait EXCEPT ![i] = 0]
    /\ UNCHANGED <<queueId, lastId, age, open, workerVars, seenVars, overrun, torn, faults>>

(* The database clock, against which next_retry_at and claimed_at are      *)
(* compared.  It does not wait for a slow worker.                          *)
Aging(i) == status[i] = "PROCESSING" /\ age[i] < StuckAge

Tick ==
    /\ \E i \in Items : wait[i] > 0 \/ Aging(i)
    /\ wait' = [i \in Items |-> IF wait[i] > 0 THEN wait[i] - 1 ELSE 0]
    /\ age' = [i \in Items |-> IF Aging(i) THEN age[i] + 1 ELSE age[i]]
    /\ UNCHANGED <<status, queueId, lastId, retry, open, workerVars, seenVars, boundVars>>

-----------------------------------------------------------------------------

(* What a worker does when nothing goes wrong with its database. *)
Work(w) ==
    \/ \E i \in Items : \/ ProcessorCommits(w, i)
                        \/ ProcessorConflicts(w, i)
                        \/ ProcessorFails(w, i)
    \/ MarkSynced(w)
    \/ MarkConflict(w)
    \/ LogConflict(w)
    \/ MarkFailed(w)

Disturb(w) ==
    \/ \E i \in Items : CommitReplyLost(w, i)
    \/ MarkSyncedFails(w)
    \/ MarkAborts(w)
    \/ Crash(w)

Next ==
    \/ \E i \in Items : Enqueue(i) \/ PushAgain(i) \/ Requeue(i)
    \/ \E w \in Workers : Claim(w) \/ Work(w) \/ Disturb(w)
    \/ Tick

Spec == Init /\ [][Next]_vars

(* A worker that neither crashed nor returned goes on, the cron keeps      *)
(* starting processQueue(), and time passes.  Devices, managers and faults *)
(* owe nothing.                                                            *)
Fairness ==
    /\ \A w \in Workers : WF_vars(Claim(w)) /\ WF_vars(Work(w))
    /\ WF_vars(Tick)

FairSpec == Spec /\ Fairness

-----------------------------------------------------------------------------
(* Properties *)

(* The exhaustion rule of markFailed() survives every interleaving, stale  *)
(* workers, stuck reclaims and requeues: a row still in play has attempts  *)
(* left (claimBatch() does not check a stuck row's count), a FAILED row    *)
(* has used at least one, and a dead-lettered row has used them all.       *)
BudgetRespected ==
    \A i \in Items :
        /\ status[i] \in {"PENDING", "PROCESSING", "FAILED"} => retry[i] < MaxRetry
        /\ status[i] = "FAILED" => retry[i] > 0
        /\ status[i] = "DEAD_LETTER" => retry[i] >= MaxRetry

(* The status a held row has while nobody but its holder touches it. *)
StatusUnder(w, i) ==
    IF cur[w] = i /\ pc[w] = "logging" THEN {"CONFLICT"}
    ELSE IF cur[w] = i /\ pc[w] = "failed" /\ i \in torn THEN {"PROCESSING", "SYNCED"}
    ELSE {"PROCESSING"}

(* The row is the mutex: unless a claim was taken over as stuck while its  *)
(* worker was still alive, no two invocations ever hold the same row, and  *)
(* the holder alone moves the row's status.                                *)
ExclusiveClaim ==
    \A i \in Items \ overrun : \A w \in Workers : Holds(w, i) =>
        /\ status[i] \in StatusUnder(w, i)
        /\ \A v \in Workers : Holds(v, i) => v = w

(* The promise idempotent pushes and atomic claims make together: an item  *)
(* is written to the fact tables twice only if its claim was overrun or a  *)
(* fault fell between the processor's commit and the marking of the row.   *)
(* Pushing again, failing, retrying, requeuing and crashing elsewhere      *)
(* never do it.                                                            *)
AppliedAtMostOnce == \A i \in Items \ (overrun \cup torn) : applied[i] < 2

(* A row that says SYNCED, or a device that was answered DUPLICATE_ACK     *)
(* and may drop its copy, is backed by a committed write: nothing a device *)
(* was told is safe is lost.                                               *)
NoPhantomSync ==
    \A i \in Items : status[i] = "SYNCED" \/ i \in confirmed => applied[i] > 0

(* Parked rows and the list the manager works from agree: an open conflict *)
(* is that of a row still parked, there is one per row, and a parked row   *)
(* has one as soon as its worker has written it; its payload has not been  *)
(* written.                                                                *)
ConflictOnRecord ==
    \A i \in Items \ overrun :
        /\ open[i] < 2
        /\ open[i] = 1 => status[i] = "CONFLICT"
        /\ status[i] = "CONFLICT" /\ i \notin torn =>
               /\ applied[i] = 0
               /\ open[i] = 1 \/ \E w \in Workers : pc[w] = "logging" /\ cur[w] = i

(* A settled row stays settled: no retry, requeue or reclaim reopens a     *)
(* SYNCED or a CONFLICT row whose claim was not overrun and not torn.      *)
SettledStays ==
    [][\A i \in Items \ (overrun \cup torn) :
           status[i] \in {"SYNCED", "CONFLICT"} => status'[i] = status[i]]_vars

(* A worker's way through its batch. *)
Distance(w) ==
    CASE pc[w] \in {"applied", "conflict"} -> 3
      [] pc[w] \in {"logging", "failed"}   -> 2
      [] pc[w] = "loop"                    -> 1
      [] pc[w] = "idle"                    -> 0

WorkerCloser(w) ==
    \/ batch'[w] \subseteq batch[w] /\ batch'[w] # batch[w]
    \/ batch'[w] = batch[w] /\ Distance(w)' < Distance(w)

(* An invocation of processQueue() cannot go on for ever: every step of    *)
(* it, also one that goes wrong, brings it closer to its return, and       *)
(* nothing but its own steps touches what it holds.                        *)
WorkersRunDown ==
    [][\A w \in Workers : pc[w] # "idle" =>
           /\ Work(w) \/ Disturb(w) => WorkerCloser(w)
           /\ ~(Work(w) \/ Disturb(w)) => UNCHANGED <<pc[w], batch[w], cur[w]>>]_vars

(* A row's way through one attempt; after it, what counts is retry_count.  *)
Stage(i) ==
    IF status[i] \in {"PENDING", "FAILED"} THEN 4
    ELSE IF status[i] # "PROCESSING" THEN 0
    ELSE IF ~Held(i) THEN 3
    ELSE IF \E w \in Workers : i \in batch[w] THEN 2 ELSE 1

RowCloser(i) ==
    \/ retry'[i] > retry[i]
    \/ retry'[i] = retry[i] /\ Stage(i)' < Stage(i)

(* A claim that takes the row, and a step of its worker that is about it.  *)
Served(i) ==
    \E w \in Workers :
        \/ Claim(w) /\ i \in batch'[w]
        \/ Work(w) /\ i \in batch[w] /\ i \notin batch'[w]
        \/ Work(w) /\ cur[w] = i /\ pc[w] # "logging"

Disrupted(i) == Requeue(i) \/ \E w \in Workers : Holds(w, i) /\ Disturb(w)

(* No attempt is free: each time a row is served it comes closer to being  *)
(* settled, by an attempt of its budget or a stage of the one under way.   *)
(* Whatever happens to other rows and workers takes it no step back; only  *)
(* a fault of its own worker and a manual requeue do.                      *)
RowsRunDown ==
    [][\A i \in Items \ overrun' :
           /\ Served(i) => RowCloser(i)
           /\ status[i] # "ABSENT" /\ ~Disrupted(i) =>
                  RowCloser(i) \/ UNCHANGED <<status[i], retry[i], Stage(i)>>]_vars

Settled == {"SYNCED", "CONFLICT", "DEAD_LETTER"}

(* No row is stranded: whatever crashes, lost replies and aborted batches  *)
(* did to it, a pushed row ends SYNCED, CONFLICT or DEAD_LETTER.           *)
Drains ==
    \A i \in Items :
        status[i] \in {"PENDING", "PROCESSING", "FAILED"} ~> status[i] \in Settled

-----------------------------------------------------------------------------
(* What comments of the source claim, to check against the code *)

(* claimBatch(): "claimers always receive DISJOINT sets".                  *)
ClaimsDisjoint ==
    \A i \in Items : \A w, v \in Workers : Holds(w, i) /\ Holds(v, i) => w = v

(* syncError.js: conflicts "are NEVER retried automatically".              *)
ConflictNeverRetried ==
    [][\A i \in Items : status[i] = "CONFLICT" =>
           status'[i] \notin {"FAILED", "DEAD_LETTER", "PROCESSING"}]_vars

(* syncError.js: the row is parked "and a sync_conflict_log row is         *)
(* written ... so a manager can resolve it".                               *)
ParkedIsListed ==
    \A i \in Items : status[i] = "CONFLICT" =>
        open[i] > 0 \/ \E w \in Workers : pc[w] = "logging" /\ cur[w] = i

=============================================================================
