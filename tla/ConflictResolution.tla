------------------------- MODULE ConflictResolution -------------------------
(***************************************************************************)
(* src/backend/src/services/conflictService.js on top of the push queue: a *)
(* manager resolves a parked conflict while workers go on with theirs.     *)
(* resolveConflict() reads the conflict, re-runs the processor with        *)
(* conflictOverride for CLIENT_WINS and MERGED (its own transaction), and  *)
(* then calls finalizeResolution(), whose transaction is to close the log  *)
(* row and the queue row.                                                  *)
(*                                                                         *)
(* finalizeResolution() builds the parameters of its first statement from  *)
(* resolutionNotes, a parameter of resolveConflict() that is not in scope: *)
(* the callback throws before anything is sent, withTransaction() rolls    *)
(* back, and the request ends in a 500.                                    *)
(***************************************************************************)
EXTENDS SyncQueue

CONSTANTS
    Resolvers,    \* concurrent PUT /conflicts/:key/resolve requests
    NoItem        \* "no conflict" of an idle request

VARIABLES
    rpc,          \* what the request does next
    target,       \* the conflict it resolves
    forced        \* committed re-applications: 0, 1, or 2 for "more"

resolverVars == <<rpc, target, forced>>
allVars == <<vars, resolverVars>>

ResolverPhases == {"idle", "apply", "finalize"}

Resolutions == {"SERVER_WINS", "CLIENT_WINS", "MERGED"}

CRTypeOK ==
    /\ TypeOK
    /\ rpc \in [Resolvers -> ResolverPhases]
    /\ target \in [Resolvers -> Items \cup {NoItem}]
    /\ forced \in [Items -> 0..2]

CRInit ==
    /\ Init
    /\ rpc = [r \in Resolvers |-> "idle"]
    /\ target = [r \in Resolvers |-> NoItem]
    /\ forced = [i \in Items |-> 0]

-----------------------------------------------------------------------------

(* The row of sync_conflict_log exists and its resolution is PENDING;      *)
(* otherwise the answer is 404 or 409.                                     *)
Resolvable(i) == open[i] > 0

Resolve(r, i, resolution) ==
    /\ rpc[r] = "idle"
    /\ Resolvable(i)
    /\ rpc' = [rpc EXCEPT ![r] = IF resolution = "SERVER_WINS" THEN "finalize" ELSE "apply"]
    /\ target' = [target EXCEPT ![r] = i]
    /\ UNCHANGED <<vars, forced>>

Answer(r) ==
    /\ rpc' = [rpc EXCEPT ![r] = "idle"]
    /\ target' = [target EXCEPT ![r] = NoItem]

(* The override makes the processor accept the client version ... *)
Reapply(r) ==
    /\ rpc[r] = "apply"
    /\ forced' = [forced EXCEPT ![target[r]] = IF @ = 0 THEN 1 ELSE 2]
    /\ rpc' = [rpc EXCEPT ![r] = "finalize"]
    /\ UNCHANGED <<vars, target>>

(* ... unless it violates a hard rule, or the write fails. *)
ReapplyFails(r) ==
    /\ rpc[r] = "apply"
    /\ Answer(r)
    /\ UNCHANGED <<vars, forced>>

(* The ReferenceError rolls the transaction back; neither table changes.   *)
Finalize(r) ==
    /\ rpc[r] = "finalize"
    /\ Answer(r)
    /\ UNCHANGED <<vars, forced>>

ResolverStep(r) == Reapply(r) \/ ReapplyFails(r) \/ Finalize(r)

QueueStep == Next /\ UNCHANGED resolverVars

CRNext ==
    \/ QueueStep
    \/ \E r \in Resolvers, i \in Items, resolution \in Resolutions : Resolve(r, i, resolution)
    \/ \E r \in Resolvers : ResolverStep(r)

CRSpec == CRInit /\ [][CRNext]_allVars

(* The manager keeps resolving what is listed, and a request runs on. *)
CRFairSpec ==
    /\ CRSpec
    /\ \A r \in Resolvers :
           /\ WF_allVars(ResolverStep(r))
           /\ SF_allVars(\E i \in Items, resolution \in Resolutions : Resolve(r, i, resolution))

(* The queue runs on beside the managers, who owe it nothing. *)
CRQueueFairSpec ==
    /\ CRSpec
    /\ \A w \in Workers :
           /\ WF_allVars(Claim(w) /\ UNCHANGED resolverVars)
           /\ WF_allVars(Work(w) /\ UNCHANGED resolverVars)
    /\ WF_allVars(Tick /\ UNCHANGED resolverVars)

-----------------------------------------------------------------------------
(* Properties *)

(* conflictOverride bypasses the processor's guards, so it may only fall   *)
(* on a payload whose conflict is still parked and listed at that very     *)
(* moment, although the request read the conflict one round trip earlier:  *)
(* no requeue, retry or reclaim moves the row in between, unless its claim *)
(* was overrun.                                                            *)
OverrideOnlyParked ==
    [][\A i \in Items \ overrun : forced'[i] # forced[i] =>
           status[i] = "CONFLICT" /\ open[i] > 0]_allVars

(* An undisturbed item reaches the fact tables by one way only: through    *)
(* the queue, or through an override, never through both.                  *)
OneWayIn ==
    \A i \in Items \ (overrun \cup torn) : ~(applied[i] > 0 /\ forced[i] > 0)

(* conflictService.js: resolution "closes the loop".                       *)
LoopCloses ==
    \A i \in Items : (\E r \in Resolvers : target[r] = i /\ rpc[r] = "finalize")
                         ~> status[i] = "SYNCED"

(* syncConflictResolution.test.js: "resolving twice is rejected (already   *)
(* resolved)", so the winner is re-applied once.                           *)
ReappliedOnce == \A i \in Items : forced[i] < 2

=============================================================================
