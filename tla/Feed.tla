---------------------------------- MODULE Feed ----------------------------------
(***************************************************************************)
(* What the change log promises to the devices that page through it        *)
(* (migration 05: change_key is "the monotonic per-DB cursor devices page  *)
(* through"): changes are published in the order of their keys, never      *)
(* below a key already published, and a device has every change up to its  *)
(* position.  Nothing is said of transactions, locks or pages.             *)
(***************************************************************************)
EXTENDS Naturals

CONSTANT Readers      \* the devices

VARIABLES
    published,    \* the changes devices may be told of
    position,     \* the key up to which a device has been told
    delivered     \* what it has been told

feedVars == <<published, position, delivered>>

(* A key names one change, and the changes of an entity carry ascending    *)
(* versions.                                                               *)
Ordered(changes) ==
    \A l, m \in changes :
        /\ l.key = m.key => l = m
        /\ l.entity = m.entity /\ l.key < m.key => l.version < m.version

Init ==
    /\ published = {}
    /\ position = [d \in Readers |-> 0]
    /\ delivered = [d \in Readers |-> {}]

(* Some changes appear, all of them behind every change there is.          *)
Publish ==
    /\ published \subseteq published'
    /\ \A l \in published, m \in published' \ published : l.key < m.key
    /\ Ordered(published')
    /\ UNCHANGED <<position, delivered>>

(* A device moves on to a published change, and gets it and all between.   *)
Advance(d) ==
    /\ \E l \in published :
           /\ position[d] < l.key
           /\ position' = [position EXCEPT ![d] = l.key]
           /\ delivered' = [delivered EXCEPT ![d] =
                  @ \cup {m \in published : position[d] < m.key /\ m.key <= l.key}]
    /\ UNCHANGED published

Next == Publish \/ \E d \in Readers : Advance(d)

Spec == Init /\ [][Next]_feedVars

=============================================================================
