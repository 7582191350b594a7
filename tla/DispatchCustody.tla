---------------------------- MODULE DispatchCustody ----------------------------
(***************************************************************************)
(* The custody chain of one dispatch (services/warehouseService.js):       *)
(* createDispatch() inserts it, and stampDispatchCustody() stamps it, for  *)
(* the four routes and for the DISPATCH_ACK items of the push queue alike. *)
(* A stamping request reads the header, decides, and writes in a later     *)
(* transaction: two round trips, with other requests in between.           *)
(*                                                                         *)
(* Left out: who signs, the picked and loaded quantities of the warehouse  *)
(* stage (no later step reads them), and the change log row that ends each *)
(* transaction, which is the action Write of PullSync.                     *)
(***************************************************************************)
EXTENDS Integers, FiniteSets

CONSTANTS
    Requests,     \* stamping requests, each made once; a retry is another one
    Overriding,   \* those with overridePrereqs, sent to resolve a conflict
    Lines,        \* lines of the dispatch
    MaxQty        \* bound on the quantities of a delivery payload, either way

ASSUME CustodyAssumption == Overriding \subseteq Requests /\ MaxQty \in Nat

VARIABLES
    (* fact_dispatch *)
    status,       \* dispatch_status, "ABSENT" before the INSERT
    stamps,       \* warehouse_stamp, security_stamp, driver_ and customer_acknowledged
    (* fact_dispatch_line *)
    delivered, returned,
    (* fact_stock_movement, summed over the movements of the dispatch *)
    movedOut,     \* DISPATCH
    movedIn,      \* TRANSFER_IN
    (* the requests *)
    pc,           \* "new", "write" (its transaction is still to run) or "done"
    stage,        \* the stage it is to stamp
    (* history *)
    contended,    \* stages two requests were about to write at a time
    forced        \* stages stamped with overridePrereqs

rowVars == <<status, stamps, delivered, returned, movedOut, movedIn>>
vars == <<rowVars, pc, stage, contended, forced>>

Stages == {"WAREHOUSE", "SECURITY", "DRIVER", "CUSTOMER"}

(* The stamp a stage requires. *)
Required(s) ==
    CASE s = "WAREHOUSE" -> {}
      [] s = "SECURITY"  -> {"WAREHOUSE"}
      [] s = "DRIVER"    -> {"SECURITY"}
      [] s = "CUSTOMER"  -> {"DRIVER"}

Statuses == {"ABSENT", "PENDING", "LOADED", "IN_TRANSIT", "DELIVERED", "RETURNED"}

Final == {"DELIVERED", "RETURNED"}

(* Nothing checks the sign of deliveredQty and returnedQty: neither the    *)
(* routes nor the processor, the service or a constraint of the table.     *)
Quantities == [delivered : -MaxQty..MaxQty, returned : -MaxQty..MaxQty]

(* lineDeliveries may name any of the lines. *)
Deliveries == UNION {[named -> Quantities] : named \in SUBSET Lines}

TypeOK ==
    /\ status \in Statuses /\ stamps \subseteq Stages
    /\ delivered \in [Lines -> Int] /\ returned \in [Lines -> Int]
    /\ movedOut \in [Lines -> Nat] /\ movedIn \in [Lines -> Nat]
    /\ pc \in [Requests -> {"new", "write", "done"}]
    /\ stage \in [Requests -> Stages]
    /\ contended \subseteq Stages /\ forced \subseteq Stages

Init ==
    /\ status = "ABSENT" /\ stamps = {}
    /\ delivered = [l \in Lines |-> 0] /\ returned = [l \in Lines |-> 0]
    /\ movedOut = [l \in Lines |-> 0] /\ movedIn = [l \in Lines |-> 0]
    /\ pc = [r \in Requests |-> "new"]
    /\ stage = [r \in Requests |-> "WAREHOUSE"]
    /\ contended = {} /\ forced = {}

-----------------------------------------------------------------------------

CreateDispatch ==
    /\ status = "ABSENT"
    /\ status' = "PENDING"
    /\ UNCHANGED <<stamps, delivered, returned, movedOut, movedIn, pc, stage, contended, forced>>

(* Mutants: without the prerequisite; without the idempotent answer. *)
AllowedInAnyOrder(r, s) ==
    /\ status # "ABSENT"
    /\ s \notin stamps
    /\ s = "CUSTOMER" => status \notin Final

AllowedAgain(r, s) ==
    /\ status # "ABSENT"
    /\ r \in Overriding \/ Required(s) \subseteq stamps
    /\ s = "CUSTOMER" => status \notin Final

(* The checks on the header as read: an existing stamp is acknowledged, a  *)
(* missing prerequisite (unless overridden), a final status or an unknown  *)
(* dispatch is a 409, a 404 or a parked conflict.  Then nothing is         *)
(* written and the request is over.                                        *)
Allowed(r, s) ==
    /\ status # "ABSENT"
    /\ s \notin stamps
    /\ r \in Overriding \/ Required(s) \subseteq stamps
    /\ s = "CUSTOMER" => status \notin Final

Writing(s) == {q \in Requests : pc[q] = "write" /\ stage[q] = s}

Read(r, s) ==
    /\ pc[r] = "new"
    /\ IF Allowed(r, s)
       THEN /\ pc' = [pc EXCEPT ![r] = "write"]
            /\ stage' = [stage EXCEPT ![r] = s]
            /\ contended' = IF Writing(s) = {} THEN contended ELSE contended \cup {s}
       ELSE /\ pc' = [pc EXCEPT ![r] = "done"]
            /\ UNCHANGED <<stage, contended>>
    /\ UNCHANGED <<rowVars, forced>>

(* The UPDATE of each stage.  None of them looks at the stamps again.      *)
Over(r) ==
    /\ pc' = [pc EXCEPT ![r] = "done"]
    /\ stage' = [stage EXCEPT ![r] = "WAREHOUSE"]
    /\ UNCHANGED contended

Stamp(r, s, newStatus) ==
    /\ pc[r] = "write" /\ stage[r] = s
    /\ stamps' = stamps \cup {s}
    /\ status' = newStatus
    /\ forced' = IF r \in Overriding THEN forced \cup {s} ELSE forced
    /\ Over(r)

(* Mutant: without the CASE on the status. *)
StampWarehouseBlindly(r) ==
    /\ Stamp(r, "WAREHOUSE", "LOADED")
    /\ UNCHANGED <<delivered, returned, movedOut, movedIn>>

StampWarehouse(r) ==
    /\ Stamp(r, "WAREHOUSE", IF status = "PENDING" THEN "LOADED" ELSE status)
    /\ UNCHANGED <<delivered, returned, movedOut, movedIn>>

StampSecurity(r) ==
    /\ Stamp(r, "SECURITY", IF status \in {"PENDING", "LOADED"} THEN "LOADED" ELSE status)
    /\ UNCHANGED <<delivered, returned, movedOut, movedIn>>

StampDriver(r) ==
    /\ Stamp(r, "DRIVER", "IN_TRANSIT")
    /\ UNCHANGED <<delivered, returned, movedOut, movedIn>>

(* What a movement is written for: only a quantity above 0. *)
Moving(n) == IF n > 0 THEN n ELSE 0

(* The CUSTOMER transaction records the quantities of the lines it was     *)
(* given, reads all lines back and moves stock for each of them.           *)
StampCustomer(r, final, given) ==
    /\ Stamp(r, "CUSTOMER", final)
    /\ delivered' = [l \in Lines |->
           IF l \in DOMAIN given THEN given[l].delivered ELSE delivered[l]]
    /\ returned' = [l \in Lines |->
           IF l \in DOMAIN given THEN given[l].returned ELSE returned[l]]
    /\ movedOut' = [l \in Lines |-> movedOut[l] + Moving(delivered'[l])]
    /\ movedIn' = [l \in Lines |-> movedIn[l] + Moving(returned'[l])]

(* The transaction rolls back, or the process is gone before it began.     *)
Fail(r) ==
    /\ pc[r] = "write"
    /\ Over(r)
    /\ UNCHANGED <<rowVars, forced>>

Next ==
    \/ CreateDispatch
    \/ \E r \in Requests :
           \/ \E s \in Stages : Read(r, s)
           \/ StampWarehouse(r)
           \/ StampSecurity(r)
           \/ StampDriver(r)
           \/ \E final \in Final, given \in Deliveries : StampCustomer(r, final, given)
           \/ Fail(r)

Spec == Init /\ [][Next]_vars

-----------------------------------------------------------------------------
(* Properties *)

(* The chain has no hole, although the prerequisite was checked one round  *)
(* trip before the stamp was written: a stage is stamped only after the    *)
(* one it requires, unless a manager overrode it.                          *)
ChainUnbroken ==
    \A s \in stamps \ forced : Required(s) \subseteq stamps

(* Warehouse and security stamps are idempotent under any overlap, crash   *)
(* and retry, and so is the chain as a whole as long as no two driver      *)
(* acknowledgements overlap and nothing is overridden: the status says     *)
(* exactly how far the chain has come.                                     *)
StatusTellsStage ==
    "DRIVER" \notin contended /\ forced = {} =>
        /\ (status \in Final) <=> "CUSTOMER" \in stamps
        /\ (status = "IN_TRANSIT") <=> ("DRIVER" \in stamps /\ "CUSTOMER" \notin stamps)
        /\ (status = "LOADED") <=> ("WAREHOUSE" \in stamps /\ "DRIVER" \notin stamps)

(* The stock ledger against the lines, whatever was retried, overlapped or *)
(* overridden.  Before the customer has signed neither holds a quantity.   *)
(* From then on the ledger has every quantity above 0 that a line shows,   *)
(* though the lines may have been rewritten since; and it has more than    *)
(* the lines show only if two customer acknowledgements overlapped.        *)
StockMatchesLines ==
    \A l \in Lines :
        /\ "CUSTOMER" \notin stamps =>
               delivered[l] = 0 /\ returned[l] = 0 /\ movedOut[l] = 0 /\ movedIn[l] = 0
        /\ movedOut[l] >= Moving(delivered[l]) /\ movedIn[l] >= Moving(returned[l])
        /\ \/ "CUSTOMER" \in contended
           \/ movedOut[l] = Moving(delivered[l]) /\ movedIn[l] = Moving(returned[l])

-----------------------------------------------------------------------------
(* What comments of the source claim, to check against the code *)

(* docs/openapi.yaml: "Every stage is idempotent".  Whoever asks last, a   *)
(* delivery moves stock once.                                              *)
StockMovedOnce ==
    [][movedOut' # movedOut \/ movedIn' # movedIn => "CUSTOMER" \notin stamps]_vars

(* warehouseService.js: "Stock movements: delivered qty leaves stock;      *)
(* returns come back".  The lines and the ledger tell the same quantities. *)
StockMovedAsDelivered ==
    "CUSTOMER" \notin contended => movedOut = delivered /\ movedIn = returned

(* warehouseService.js: "DRIVER: ... sets IN_TRANSIT (idempotent)".        *)
DriverStampIdempotent ==
    [][\A r \in Requests : StampDriver(r) /\ "DRIVER" \in stamps => status' = status]_vars

=============================================================================
