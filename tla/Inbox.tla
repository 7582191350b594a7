--------------------------------- MODULE Inbox ---------------------------------
(***************************************************************************)
(* What the push queue promises a device, without rows, workers, claims or *)
(* retries: each item it pushes is taken in once, its effect is written,   *)
(* and it is synced, parked for a manager, or given up.                    *)
(*                                                                         *)
(* An item is disturbed when two workers were at it, or when a fault fell  *)
(* between its effect and the record of it.  From then on the promise is   *)
(* at-least-once: the outcome may change and the effect be repeated.       *)
(***************************************************************************)
EXTENDS Naturals

CONSTANT Items

VARIABLES
    state,        \* where the item stands
    written,      \* how often its effect was committed: 0, 1, or 2 for "more"
    acked,        \* items whose device was told that they are synced
    disturbed     \* items that only have the weaker promise

vars == <<state, written, acked, disturbed>>

Settled == {"synced", "parked", "dead"}

Init ==
    /\ state = [i \in Items |-> "absent"]
    /\ written = [i \in Items |-> 0]
    /\ acked = {}
    /\ disturbed = {}

Move(i, before, after) ==
    /\ state[i] = before
    /\ state' = [state EXCEPT ![i] = after]
    /\ UNCHANGED <<written, acked, disturbed>>

Accept(i) == Move(i, "absent", "open")

(* The effect of an item is written once, while it is open ... *)
Write(i) ==
    /\ state[i] = "open" /\ written[i] = 0
    /\ written' = [written EXCEPT ![i] = 1]
    /\ UNCHANGED <<state, acked, disturbed>>

(* ... and then it can only be synced; parked or given up, it has none.    *)
Sync(i) == written[i] > 0 /\ Move(i, "open", "synced")

Park(i) == written[i] = 0 /\ Move(i, "open", "parked")

GiveUp(i) == written[i] = 0 /\ Move(i, "open", "dead")

(* A manager has the queue try again. *)
Reopen(i) == Move(i, "dead", "open")

Acknowledge(i) ==
    /\ state[i] = "synced"
    /\ acked' = acked \cup {i}
    /\ UNCHANGED <<state, written, disturbed>>

Disturb(S) ==
    /\ disturbed' = disturbed \cup S
    /\ UNCHANGED <<state, written, acked>>

(* Anything may happen to a disturbed item, but it is not forgotten, what  *)
(* was written stays written, and it is not called synced without.         *)
Suffer(i) ==
    /\ state[i] # "absent"
    /\ disturbed' = disturbed \cup {i}
    /\ \E s \in {"open"} \cup Settled, n \in 0..2 :
           /\ n >= written[i]
           /\ s = "synced" => n > 0
           /\ state' = [state EXCEPT ![i] = s]
           /\ written' = [written EXCEPT ![i] = n]
    /\ UNCHANGED acked

Next ==
    \/ \E i \in Items :
           \/ Accept(i)
           \/ Write(i)
           \/ Sync(i)
           \/ Park(i)
           \/ GiveUp(i)
           \/ Reopen(i)
           \/ Acknowledge(i)
           \/ Suffer(i)
    \/ \E S \in SUBSET Items : Disturb(S)

Spec == Init /\ [][Next]_vars

================================================================================
