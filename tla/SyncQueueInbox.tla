---------------------------- MODULE SyncQueueInbox ----------------------------
(***************************************************************************)
(* The push queue implements the inbox.                                    *)
(***************************************************************************)
EXTENDS SyncQueue

(* What a sync_status means to the device, ABSENT for no row. *)
Place(s) ==
    CASE s = "ABSENT"                              -> "absent"
      [] s \in {"PENDING", "PROCESSING", "FAILED"} -> "open"
      [] s = "SYNCED"                              -> "synced"
      [] s = "CONFLICT"                            -> "parked"
      [] s = "DEAD_LETTER"                         -> "dead"

Promise == INSTANCE Inbox WITH
    state <- [i \in Items |-> Place(status[i])],
    written <- applied,
    acked <- confirmed,
    disturbed <- overrun \cup torn

(* Every behaviour of processQueue(), enqueueItem() and requeueQueueRow()  *)
(* is one of the inbox: what they do in several statements, from several   *)
(* workers, with stale claims and lost replies, a device cannot tell from  *)
(* the inbox's single steps, and only a disturbed item is ever served      *)
(* twice or changes its outcome.                                           *)
ImplementsInbox == Promise!Spec

================================================================================
