------------------------------ MODULE GoodsReceipt ------------------------------
(***************************************************************************)
(* The goods receipt notes (GRNs) of one business and one day              *)
(* (services/warehouseService.js, docNumbers.js, guards.js): createGRN()   *)
(* takes a daily number and writes header, lines and stock movements in    *)
(* one transaction, finance signs a GRN off, and managers book manual      *)
(* stock movements.  A GRN is named after the request that creates it.     *)
(*                                                                         *)
(* The number is a COUNT over the numbers of the day under UPDLOCK and     *)
(* HOLDLOCK: until its transaction ends, no other one can count them.      *)
(***************************************************************************)
EXTENDS Integers, FiniteSets, Functions

CONSTANTS
    Creators,     \* createGRN() requests, each made once
    Signers,      \* finance sign-off requests, each made once
    Movers,       \* requests for a manual stock movement, each made once
    Lines,        \* lines of a GRN
    MaxQty,       \* bound on the quantities of a line, either way
    LineKinds,    \* quantities a line may have
    GivenTotals,  \* sets of totals a device may send along
    None          \* nobody holds the lock

ASSUME ReceiptAssumption ==
    /\ IsFiniteSet(Creators) /\ IsFiniteSet(Lines)
    /\ MaxQty \in Nat
    /\ LineKinds \subseteq [{"invoiced", "received", "rejected"} -> -MaxQty..MaxQty]
    /\ GivenTotals \subseteq SUBSET {"invoiced", "received", "rejected"}
    /\ None \notin Creators

VARIABLES
    (* fact_grn, and the transactions that insert its rows *)
    gstate,       \* "new", "numbered", "committed" or "aborted"
    number,       \* the sequence part of grn_number
    header,       \* receipt_status and the three totals
    signed,       \* GRNs with finance_signoff = 1
    note,         \* credit_note_number; 0 for none
    holder,       \* whose transaction holds the lock on the day's numbers
    (* fact_stock_movement *)
    receipts,     \* sum of the RECEIPT movements of a GRN
    manual,       \* number of manual movements
    (* sync_change_log *)
    published,    \* sign-off and note in the latest GRNS change of a GRN
    (* the other requests *)
    pc,           \* of a signer: "new", "write" or "done"
    job,          \* the GRN it signs off and its note
    mpc,          \* of a mover: "new", "recorded" or "failed"
    (* history *)
    given,        \* the totals that came with a GRN
    refused,      \* a number was refused by the UNIQUE index
    contended     \* GRNs two signers were about to sign off at a time

createVars == <<gstate, number, header, holder, receipts, given, refused>>
signVars == <<signed, note, published, pc, job, contended>>
moveVars == <<manual, mpc>>
vars == <<createVars, signVars, moveVars>>

Totals == {"invoiced", "received", "rejected"}

MaxTotal == MaxQty * Cardinality(Lines)

(* Nothing checks the sign of a quantity or of a total that is sent along. *)
Sums == -MaxTotal..MaxTotal

Headers == [status : {"NONE", "PARTIAL", "COMPLETE", "REJECTED"},
            invoiced : Sums, received : Sums, rejected : Sums]

NoHeader == [status |-> "NONE", invoiced |-> 0, received |-> 0, rejected |-> 0]

Notes == 0..2

Unsigned == [signed |-> FALSE, note |-> 0]

Committed == {g \in Creators : gstate[g] = "committed"}

TypeOK ==
    /\ gstate \in [Creators -> {"new", "numbered", "committed", "aborted"}]
    /\ number \in [Creators -> 0..Cardinality(Creators)]
    /\ header \in [Creators -> Headers]
    /\ signed \subseteq Committed /\ note \in [Creators -> Notes]
    /\ holder \in Creators \cup {None}
    /\ receipts \in [Creators -> 0..MaxTotal] /\ manual \in Nat
    /\ published \in [Creators -> [signed : BOOLEAN, note : Notes]]
    /\ pc \in [Signers -> {"new", "write", "done"}]
    /\ job \in [Signers -> [grn : Creators \cup {None}, note : Notes]]
    /\ mpc \in [Movers -> {"new", "recorded", "failed"}]
    /\ given \in [Creators -> SUBSET Totals]
    /\ refused \in BOOLEAN /\ contended \subseteq Creators

Init ==
    /\ gstate = [g \in Creators |-> "new"]
    /\ number = [g \in Creators |-> 0]
    /\ header = [g \in Creators |-> NoHeader]
    /\ signed = {} /\ note = [g \in Creators |-> 0]
    /\ holder = None
    /\ receipts = [g \in Creators |-> 0] /\ manual = 0
    /\ published = [g \in Creators |-> Unsigned]
    /\ pc = [r \in Signers |-> "new"]
    /\ job = [r \in Signers |-> [grn |-> None, note |-> 0]]
    /\ mpc = [m \in Movers |-> "new"]
    /\ given = [g \in Creators |-> {}]
    /\ refused = FALSE /\ contended = {}

-----------------------------------------------------------------------------
(* createGRN() *)

(* Mutant: the COUNT takes no lock. *)
Lockless(g) == TRUE

Lockable(g) == holder = None

NextNumber == Cardinality(Committed) + 1

(* nextDocNumber(), early in the transaction. *)
TakeNumber(g) ==
    /\ gstate[g] = "new"
    /\ Lockable(g)
    /\ holder' = g
    /\ number' = [number EXCEPT ![g] = NextNumber]
    /\ gstate' = [gstate EXCEPT ![g] = "numbered"]
    /\ UNCHANGED <<header, receipts, given, refused, signVars, moveVars>>

(* A payload: the quantities of the lines, and the totals sent along. *)
Payloads ==
    UNION {[lines : [Lines -> LineKinds], totals : [T -> Sums]] :
               T \in GivenTotals}

LineTotal(p, t) == SumFunction([l \in Lines |-> p.lines[l][t]])

(* total*Qty ?? lines.reduce(...): what the header stores. *)
Stored(p, t) == IF t \in DOMAIN p.totals THEN p.totals[t] ELSE LineTotal(p, t)

(* deriveReceiptStatus() on the numbers it has settled on. *)
Derive(inv, rec, rej) ==
    IF rec = 0 /\ rej > 0 THEN "REJECTED"
    ELSE IF rec + rej < inv THEN "PARTIAL" ELSE "COMPLETE"

(* It takes the totals only if both the received and the invoiced one are  *)
(* there (a missing rejected one is then 0), and all of the lines if not.  *)
ReceiptStatus(p) ==
    IF {"invoiced", "received"} \subseteq DOMAIN p.totals
    THEN Derive(p.totals["invoiced"], p.totals["received"],
                IF "rejected" \in DOMAIN p.totals THEN p.totals["rejected"] ELSE 0)
    ELSE Derive(LineTotal(p, "invoiced"), LineTotal(p, "received"), LineTotal(p, "rejected"))

(* Mutant: what was invoiced is booked. *)
BookedInvoice(p) == LineTotal(p, "invoiced")

(* What a movement is written for: only a quantity above 0. *)
Moving(n) == IF n > 0 THEN n ELSE 0

(* One RECEIPT movement for each line of which something was received. *)
Booked(p) == SumFunction([l \in Lines |-> Moving(p.lines[l]["received"])])

Taken(g) == \E h \in Committed : number[h] = number[g]

(* The inserts and the COMMIT; the UNIQUE index has the last word. *)
CreateGRN(g, p) ==
    /\ gstate[g] = "numbered"
    /\ ~Taken(g)
    /\ header' = [header EXCEPT ![g] =
           [status |-> ReceiptStatus(p), invoiced |-> Stored(p, "invoiced"),
            received |-> Stored(p, "received"), rejected |-> Stored(p, "rejected")]]
    /\ receipts' = [receipts EXCEPT ![g] = Booked(p)]
    /\ given' = [given EXCEPT ![g] = DOMAIN p.totals]
    /\ gstate' = [gstate EXCEPT ![g] = "committed"]
    /\ holder' = None
    /\ UNCHANGED <<number, refused, signVars, moveVars>>

(* A number already there, a foreign product, a failed statement, a crash: *)
(* the transaction rolls back and gives the lock up.                       *)
AbortGRN(g) ==
    /\ gstate[g] = "numbered"
    /\ gstate' = [gstate EXCEPT ![g] = "aborted"]
    /\ number' = [number EXCEPT ![g] = 0]
    /\ refused' = (refused \/ Taken(g))
    /\ holder' = None
    /\ UNCHANGED <<header, receipts, given, signVars, moveVars>>

-----------------------------------------------------------------------------
(* signoffGRNFinance(): the SELECT, and the transaction with the UPDATE    *)
(* and the change log row.                                                 *)

(* Mutant: a signed-off GRN may be signed off again. *)
SignableAgain(g) == g \in Committed

Signable(g) == g \in Committed \ signed

ReadGRN(r, g, n) ==
    /\ pc[r] = "new"
    /\ IF Signable(g)
       THEN /\ pc' = [pc EXCEPT ![r] = "write"]
            /\ job' = [job EXCEPT ![r] = [grn |-> g, note |-> n]]
            /\ contended' = IF \E q \in Signers : job[q].grn = g
                            THEN contended \cup {g} ELSE contended
       ELSE /\ pc' = [pc EXCEPT ![r] = "done"]
            /\ UNCHANGED <<job, contended>>
    /\ UNCHANGED <<signed, note, published, createVars, moveVars>>

Over(r) ==
    /\ pc[r] = "write"
    /\ pc' = [pc EXCEPT ![r] = "done"]
    /\ job' = [job EXCEPT ![r] = [grn |-> None, note |-> 0]]
    /\ UNCHANGED contended

Snapshot(g) == [signed |-> g \in signed', note |-> note'[g]]

SignOff(r) ==
    /\ Over(r)
    /\ LET g == job[r].grn
       IN  /\ signed' = signed \cup {g}
           /\ note' = [note EXCEPT ![g] = job[r].note]
           /\ published' = [published EXCEPT ![g] = Snapshot(g)]
    /\ UNCHANGED <<createVars, moveVars>>

SignOffFails(r) ==
    /\ Over(r)
    /\ UNCHANGED <<signed, note, published, createVars, moveVars>>

-----------------------------------------------------------------------------
(* recordStockMovement(), past its checks.  The INSERT names @quantity and *)
(* the parameters do not bind it: the server refuses the batch, the        *)
(* request ends in a 500 and a queued item in a failed attempt.            *)
RecordStockMovement(m) ==
    /\ mpc[m] = "new"
    /\ mpc' = [mpc EXCEPT ![m] = "failed"]
    /\ UNCHANGED <<manual, createVars, signVars>>

Next ==
    \/ \E g \in Creators :
           \/ TakeNumber(g)
           \/ \E p \in Payloads : CreateGRN(g, p)
           \/ AbortGRN(g)
    \/ \E r \in Signers :
           \/ \E g \in Creators, n \in Notes : ReadGRN(r, g, n)
           \/ SignOff(r)
           \/ SignOffFails(r)
    \/ \E m \in Movers : RecordStockMovement(m)

Spec == Init /\ [][Next]_vars

-----------------------------------------------------------------------------
(* Properties *)

(* docNumbers.js, "CRITICAL INVARIANT": concurrent creators never mint the *)
(* same number.  The committed numbers of a day are 1, 2, 3, ... without a *)
(* gap, aborted transactions included, and the UNIQUE index never has to   *)
(* refuse one.                                                             *)
NumbersSequential ==
    /\ {number[g] : g \in Committed} = 1..Cardinality(Committed)
    /\ ~refused

(* No header claims stock that the ledger does not have.  The ledger is    *)
(* written line by line, quantities above 0 only, the header adds up       *)
(* whatever the lines say or takes a total that was sent along, and the    *)
(* status is derived from a third choice of operands.  Still, what a       *)
(* header with a received total of its own making says is in stock, and if *)
(* all totals are of its making, COMPLETE means that stock and rejections  *)
(* cover the invoice.                                                      *)
StockCoversHeader ==
    \A g \in Committed :
        /\ "received" \notin given[g] => header[g].received <= receipts[g]
        /\ given[g] = {} /\ header[g].status = "COMPLETE"
               => header[g].invoiced <= receipts[g] + header[g].rejected

(* A sign-off is final: it is never undone, a late or repeated one does    *)
(* not replace the credit note unless two of them overlapped, and then the *)
(* devices were still told the note that stands in the row.                *)
SignOffStands ==
    [][\A g \in signed :
           /\ g \in signed' /\ published'[g] = [signed |-> TRUE, note |-> note'[g]]
           /\ g \notin contended => note'[g] = note[g]]_vars

-----------------------------------------------------------------------------
(* What docs and tests claim, to check against the code *)

(* docs/openapi.yaml: signing off is "one-shot".                           *)
SignedOffOnce == [][\A g \in signed : note'[g] = note[g]]_vars

(* docs/openapi.yaml: "receiptStatus is derived from the totals".          *)
StatusFromTotals ==
    \A g \in Committed :
        header[g].status = Derive(header[g].invoiced, header[g].received, header[g].rejected)

(* syncBatchIdempotency.test.js: a GRN whose lines add up to the invoice,  *)
(* a part of them rejected, is PARTIAL.                                    *)
PartlyRejectedIsPartial ==
    \A g \in Committed :
        /\ given[g] = {}
        /\ header[g].received > 0 /\ header[g].rejected > 0
        /\ header[g].received + header[g].rejected = header[g].invoiced
        => header[g].status = "PARTIAL"

(* warehouseProcessors.js: "STOCK_MOVEMENT: manual                         *)
(* adjustment/transfer/damage/expiry movements" run for real.              *)
MovementsAreRecorded ==
    [][\A m \in Movers : mpc'[m] # mpc[m] => mpc'[m] = "recorded" /\ manual' = manual + 1]_vars

=============================================================================
