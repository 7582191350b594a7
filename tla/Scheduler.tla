------------------------------- MODULE Scheduler -------------------------------
(***************************************************************************)
(* The cron of every API instance (jobs/scheduler.js, processAllQueues())  *)
(* draining the push queues of all businesses (syncQueueService.js,        *)
(* processQueue()), on payloads that depend on each other: the custody     *)
(* stamps of a dispatch that a device made offline and pushes as one batch *)
(* of DISPATCH_ACK items (sync/warehouseProcessors.js).  A stamp that runs *)
(* before the one it requires is parked as a conflict, for good.           *)
(*                                                                         *)
(* Processing an item and marking its row is one step here, and a claim is *)
(* taken over only after its tick is over: SyncQueue has the finer steps,  *)
(* the slow workers and the lost replies, and ConflictResolution what a    *)
(* manager does with a parked row.                                         *)
(***************************************************************************)
EXTENDS Naturals, FiniteSets, FiniteSetsExt

CONSTANTS
    Instances,    \* API processes, each with a scheduler of its own
    Businesses,   \* active businesses
    NoBusiness,
    Steps,        \* stamps of a dispatch: the items 1..Steps, in queue_id order
    WholeChain,   \* businesses whose devices make all stamps of a dispatch
                  \* offline; those of the others only the last one
    BatchSize,    \* SYNC_BATCH_SIZE
    MaxPass,      \* passes over one business in a tick, 20
    MaxRetry,     \* SYNC_RETRY_MAX
    MaxErrors     \* bound on failed attempts, errors and crashes

ASSUME SchedulerAssumption ==
    /\ NoBusiness \notin Businesses
    /\ {Steps, BatchSize, MaxPass, MaxRetry} \subseteq Nat \ {0}
    /\ MaxErrors \in Nat

Items == 1..Steps

VARIABLES
    (* sync_queue and fact_dispatch *)
    row,          \* sync_status of an item
    retry,        \* its retry_count
    stamped,      \* how far the custody chain of the dispatch has come
    (* processAllQueues() *)
    running,      \* queueRunning
    todo,         \* keys of activeBusinessKeys() still to come
    at,           \* the business it is draining
    pass,         \* passes it has made over it
    batch,        \* claimed rows of the pass, not yet processed
    (* history and bounds *)
    disturbed,    \* an attempt failed, a tick died or two drains overlapped
    overtook,     \* items processed while an earlier one was in the same batch
    hungry,       \* businesses with work when the tick began, unserved since
    errors

queueVars == <<row, retry, stamped>>
tickVars == <<running, todo, at, pass, batch>>
historyVars == <<disturbed, overtook, hungry, errors>>
cronVars == <<queueVars, tickVars, historyVars>>

Unsettled == {"PENDING", "FAILED", "PROCESSING"}
Settled == {"SYNCED", "CONFLICT", "DEAD_LETTER"}

CronTypeOK ==
    /\ row \in [Businesses -> [Items -> Unsettled \cup Settled \cup {"WAITING"}]]
    /\ retry \in [Businesses -> [Items -> 0..MaxRetry]]
    /\ stamped \in [Businesses -> 0..Steps]
    /\ running \in [Instances -> BOOLEAN]
    /\ todo \in [Instances -> SUBSET Businesses]
    /\ at \in [Instances -> Businesses \cup {NoBusiness}]
    /\ pass \in [Instances -> 0..MaxPass]
    /\ batch \in [Instances -> SUBSET Items]
    /\ disturbed \subseteq Businesses
    /\ overtook \in [Businesses -> SUBSET Items]
    /\ hungry \in [Instances -> SUBSET Businesses]
    /\ errors \in 0..MaxErrors

(* The dispatches of before are done. *)
CronInit ==
    /\ row = [b \in Businesses |-> [k \in Items |-> "SYNCED"]]
    /\ retry = [b \in Businesses |-> [k \in Items |-> 0]]
    /\ stamped = [b \in Businesses |-> Steps]
    /\ running = [i \in Instances |-> FALSE]
    /\ todo = [i \in Instances |-> {}]
    /\ at = [i \in Instances |-> NoBusiness]
    /\ pass = [i \in Instances |-> 0]
    /\ batch = [i \in Instances |-> {}]
    /\ disturbed = {} /\ overtook = [b \in Businesses |-> {}]
    /\ hungry = [i \in Instances |-> {}] /\ errors = 0

-----------------------------------------------------------------------------

FirstOffline(b) == IF b \in WholeChain THEN 1 ELSE Steps

(* A device comes back online with stamps of another dispatch.             *)
Push(b) ==
    /\ \A k \in Items : row[b][k] \in Settled
    /\ row' = [row EXCEPT ![b] = [k \in Items |->
                  IF k < FirstOffline(b) THEN "SYNCED" ELSE "PENDING"]]
    /\ retry' = [retry EXCEPT ![b] = [k \in Items |-> 0]]
    /\ stamped' = [stamped EXCEPT ![b] = FirstOffline(b) - 1]
    /\ disturbed' = disturbed \ {b}
    /\ overtook' = [overtook EXCEPT ![b] = {}]
    /\ UNCHANGED <<tickVars, hungry, errors>>

(* next_retry_at of a failed row ("WAITING" until then) has passed.        *)
Elapse(b, k) ==
    /\ row[b][k] = "WAITING"
    /\ row' = [row EXCEPT ![b][k] = "FAILED"]
    /\ UNCHANGED <<retry, stamped, tickVars, historyVars>>

Holders(b, k) == {i \in Instances : at[i] = b /\ k \in batch[i]}

(* Mutant: a claim never counts as stuck. *)
RunnableUnclaimed(b) == {k \in Items : row[b][k] \in {"PENDING", "FAILED"}}

(* The predicate of claimBatch(): a claim whose tick is over counts as     *)
(* stuck, whatever its retry_count.                                        *)
Runnable(b) ==
    {k \in Items : \/ row[b][k] \in {"PENDING", "FAILED"}
                   \/ row[b][k] = "PROCESSING" /\ Holders(b, k) = {}}

(* Mutant: ORDER BY queue_id DESC. *)
LastOf(S) == {k \in S : Cardinality({m \in S : m > k}) < BatchSize}

(* SELECT TOP (@batchSize) ... ORDER BY queue_id *)
FirstOf(S) == {k \in S : Cardinality({m \in S : m < k}) < BatchSize}

-----------------------------------------------------------------------------
(* processAllQueues() *)

Begin(i) ==
    /\ ~running[i]
    /\ running' = [running EXCEPT ![i] = TRUE]
    /\ todo' = [todo EXCEPT ![i] = Businesses]
    /\ hungry' = [hungry EXCEPT ![i] = {b \in Businesses : Runnable(b) # {}}]
    /\ UNCHANGED <<queueVars, at, pass, batch, disturbed, overtook, errors>>

(* The keys come in no particular order. *)
Visit(i, b) ==
    /\ running[i] /\ at[i] = NoBusiness
    /\ b \in todo[i]
    /\ todo' = [todo EXCEPT ![i] = @ \ {b}]
    /\ at' = [at EXCEPT ![i] = b]
    /\ pass' = [pass EXCEPT ![i] = 0]
    /\ UNCHANGED <<queueVars, running, batch, historyVars>>

Capped(i) == pass[i] = MaxPass

Claim(i) ==
    /\ at[i] # NoBusiness /\ batch[i] = {} /\ ~Capped(i)
    /\ LET b == at[i]
           claimed == FirstOf(Runnable(b))
       IN  /\ claimed # {}
           /\ row' = [row EXCEPT ![b] = [k \in Items |->
                  IF k \in claimed THEN "PROCESSING" ELSE row[b][k]]]
           /\ batch' = [batch EXCEPT ![i] = claimed]
           /\ hungry' = [j \in Instances |-> hungry[j] \ {b}]
           /\ disturbed' = IF \E j \in Instances \ {i} : at[j] = b /\ batch[j] # {}
                           THEN disturbed \cup {b} ELSE disturbed
    /\ pass' = [pass EXCEPT ![i] = @ + 1]
    /\ UNCHANGED <<retry, stamped, running, todo, at, overtook, errors>>

(* Mutant: an idle business ends the tick. *)
RestIfDry(i) == IF Capped(i) THEN todo[i] ELSE {}

Rest(i) == todo[i]

(* A pass that claims nothing, or the last pass. *)
Leave(i) ==
    /\ at[i] # NoBusiness /\ batch[i] = {}
    /\ Capped(i) \/ Runnable(at[i]) = {}
    /\ at' = [at EXCEPT ![i] = NoBusiness]
    /\ todo' = [todo EXCEPT ![i] = Rest(i)]
    /\ pass' = [pass EXCEPT ![i] = 0]
    /\ UNCHANGED <<queueVars, running, batch, historyVars>>

EndTick(i) ==
    /\ running[i] /\ at[i] = NoBusiness /\ todo[i] = {}
    /\ running' = [running EXCEPT ![i] = FALSE]
    /\ hungry' = [hungry EXCEPT ![i] = {}]
    /\ UNCHANGED <<queueVars, todo, at, pass, batch, disturbed, overtook, errors>>

(* processQueue() goes through its rows as they come, and the OUTPUT of    *)
(* claimBatch() has no order.  What becomes of row k:                      *)
Row(i, k) ==
    /\ k \in batch[i]
    /\ batch' = [batch EXCEPT ![i] = @ \ {k}]
    /\ overtook' = IF \E m \in batch[i] : m < k
                   THEN [overtook EXCEPT ![at[i]] = @ \cup {k}] ELSE overtook
    /\ UNCHANGED <<running, todo, at, pass, hungry>>

Mark(i, k, status) == row' = [row EXCEPT ![at[i]][k] = status]

(* A stamp already there is acknowledged. *)
Apply(i, k) ==
    /\ Row(i, k)
    /\ stamped[at[i]] >= k - 1
    /\ stamped' = [stamped EXCEPT ![at[i]] = Max({@, k})]
    /\ Mark(i, k, "SYNCED")
    /\ UNCHANGED <<retry, disturbed, errors>>

Park(i, k) ==
    /\ Row(i, k)
    /\ stamped[at[i]] < k - 1
    /\ Mark(i, k, "CONFLICT")
    /\ UNCHANGED <<retry, stamped, disturbed, errors>>

AfterFailure(n) == IF n >= MaxRetry THEN "DEAD_LETTER" ELSE "WAITING"

Disturb(i) ==
    /\ errors < MaxErrors /\ errors' = errors + 1
    /\ disturbed' = disturbed \cup ({at[i]} \ {NoBusiness})

Fail(i, k) ==
    /\ Row(i, k)
    /\ Disturb(i)
    /\ LET n == retry[at[i]][k] + 1
       IN  /\ retry' = [retry EXCEPT ![at[i]][k] = n]
           /\ Mark(i, k, AfterFailure(n))
    /\ UNCHANGED stamped

(* An error anywhere in the tick, logged and swallowed, or a crash: the    *)
(* rest of the batch and of the businesses waits for another tick.         *)
Abort(i) ==
    /\ running[i]
    /\ Disturb(i)
    /\ running' = [running EXCEPT ![i] = FALSE]
    /\ todo' = [todo EXCEPT ![i] = {}]
    /\ at' = [at EXCEPT ![i] = NoBusiness]
    /\ pass' = [pass EXCEPT ![i] = 0]
    /\ batch' = [batch EXCEPT ![i] = {}]
    /\ hungry' = [hungry EXCEPT ![i] = {}]
    /\ UNCHANGED <<queueVars, overtook>>

-----------------------------------------------------------------------------

Step(i) ==
    \/ Begin(i)
    \/ \E b \in Businesses : Visit(i, b)
    \/ Claim(i)
    \/ \E k \in Items : Apply(i, k) \/ Park(i, k)
    \/ Leave(i)
    \/ EndTick(i)

CronNext ==
    \/ \E b \in Businesses : Push(b) \/ \E k \in Items : Elapse(b, k)
    \/ \E i \in Instances : Step(i) \/ Abort(i) \/ \E k \in Items : Fail(i, k)

CronSpec == CronInit /\ [][CronNext]_cronVars

(* The cron keeps ticking, a tick that was not aborted goes on, and time   *)
(* passes.  Devices may push for ever.                                     *)
CronFairSpec ==
    /\ CronSpec
    /\ \A i \in Instances : WF_cronVars(Step(i))
    /\ \A b \in Businesses, k \in Items : WF_cronVars(Elapse(b, k))

-----------------------------------------------------------------------------
(* Properties *)

(* Only inside a batch can the stamps of a dispatch get out of order.  As  *)
(* long as no attempt fails, no tick dies and no two instances drain the   *)
(* business at a time, none is given up, what went through is a prefix of  *)
(* the chain, and the first one that is parked as a conflict was processed *)
(* before another of its batch: over any number of batches and ticks, none *)
(* meets a conflict because of a row that it does not share a batch with.  *)
NoFalseConflict ==
    \A b \in Businesses \ disturbed, k \in Items :
        /\ row[b][k] # "DEAD_LETTER"
        /\ row[b][k] = "SYNCED" <=> k <= stamped[b]
        /\ row[b][k] = "CONFLICT" => \E m \in overtook[b] : m <= k

(* A tick that comes to its end has served every business that had work    *)
(* when it began, or another instance has in the meantime.                 *)
TickServesAll == [][\A i \in Instances : EndTick(i) => hungry[i] = {}]_cronVars

(* What a tick has before it: after the businesses still to come, the      *)
(* passes over the one it is at; then only its end.                        *)
Ahead(i) ==
    IF at[i] # NoBusiness THEN MaxPass - pass[i] + 2
    ELSE IF running[i] THEN 1 ELSE 0

Closer(i) ==
    \/ todo'[i] \subseteq todo[i] /\ todo'[i] # todo[i]
    \/ todo'[i] = todo[i] /\ Ahead(i)' < Ahead(i)
    \/ /\ todo'[i] = todo[i] /\ Ahead(i)' = Ahead(i)
       /\ batch'[i] \subseteq batch[i] /\ batch'[i] # batch[i]

(* However many rows keep coming in while it drains: each step of a tick   *)
(* brings it closer to its end, and no other instance takes it back.       *)
TicksRunDown ==
    [][\A i \in Instances : running[i] =>
           /\ Step(i) => Closer(i)
           /\ Closer(i) \/ UNCHANGED <<running[i], todo[i], at[i], pass[i], batch[i]>>
      ]_cronVars

(* Errors that pass, crashes, and a business whose devices never stop      *)
(* pushing keep no other business from being drained: whatever was pushed  *)
(* is settled, all of it.                                                  *)
EveryBusinessDrains ==
    \A b \in Businesses :
        (\E k \in Items : row[b][k] \notin Settled) ~> \A k \in Items : row[b][k] \in Settled

-----------------------------------------------------------------------------
(* What a test claims, to check against the code *)

(* syncBatchIdempotency.test.js: "DISPATCH_ACK stamps the custody chain in *)
(* order", pushed as one batch.                                            *)
StampedInOrder == \A b \in Businesses \ disturbed, k \in Items : row[b][k] # "CONFLICT"

=============================================================================
