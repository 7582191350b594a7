---------------------------- MODULE MCSyncQueue ----------------------------
(***************************************************************************)
(* Model values for checking SyncQueue and that it implements Inbox.       *)
(* Items are pushed in any order and every worker is alike, so both sets   *)
(* are symmetric in the safety runs.                                       *)
(***************************************************************************)
EXTENDS SyncQueueInbox, TLC

Symmetry == Permutations(Items) \cup Permutations(Workers)

=============================================================================
