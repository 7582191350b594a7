------------------------------- MODULE Approvals -------------------------------
(***************************************************************************)
(* The decisions of the fleet managers (services/fleetService.js): one     *)
(* fuel request, approved or rejected, and one maintenance ticket, which   *)
(* OPS approves first and the MD too when its cost is above a threshold,   *)
(* and on which work then proceeds (routes/fleet.js).  Every decision is a *)
(* SELECT of the row and, in a later round trip, an UPDATE that does not   *)
(* look at the row again.                                                  *)
(***************************************************************************)
EXTENDS Naturals

CONSTANTS
    Requests,     \* the managers' requests, each made once
    MaxAmount     \* largest disbursement of a decision

ASSUME ApprovalsAssumption == MaxAmount \in Nat

VARIABLES
    (* fact_fuel_request *)
    fuel,         \* approval_status, "ABSENT" before the INSERT
    disbursed,    \* disbursed_amount, 0 for NULL
    (* fact_maintenance *)
    approval,     \* approval_status, "ABSENT" before the INSERT
    signed,       \* levels with an approved_by_key
    work,         \* maintenance_status
    above,        \* estimated_cost > MAINTENANCE_MD_THRESHOLD, as of now
    (* the requests *)
    pc,           \* "new", "write" (its UPDATE is still to run) or "done"
    job,          \* what it is about, and what it read
    (* history *)
    contended,    \* decisions that two requests were about to write at a time
    moved         \* the threshold moved across the cost of the ticket

fuelVars == <<fuel, disbursed>>
ticketVars == <<approval, signed, work, above>>
vars == <<fuelVars, ticketVars, pc, job, contended, moved>>

Levels == {"OPS", "MD"}

Decisions == {"APPROVED", "REJECTED"}

Works == {"OPEN", "IN_PROGRESS", "COMPLETED", "CANCELLED"}

(* Work that needs an approved ticket. *)
Progress == {"IN_PROGRESS", "COMPLETED"}

(* What a request is about; needsMd is what the first query of an approval *)
(* found.                                                                  *)
Jobs == [on : {"none", "fuel", "OPS", "MD", "work"}, decision : Decisions,
         amount : 0..MaxAmount, needsMd : BOOLEAN, to : Works]

NoJob == [on |-> "none", decision |-> "REJECTED", amount |-> 0, needsMd |-> FALSE, to |-> "OPEN"]

TypeOK ==
    /\ fuel \in {"ABSENT", "PENDING"} \cup Decisions
    /\ disbursed \in 0..MaxAmount
    /\ approval \in {"ABSENT", "PENDING", "OPS_APPROVED", "MD_APPROVED"}
    /\ signed \subseteq Levels
    /\ work \in Works
    /\ above \in BOOLEAN /\ moved \in BOOLEAN
    /\ pc \in [Requests -> {"new", "write", "done"}]
    /\ job \in [Requests -> Jobs]
    /\ contended \subseteq {"fuel", "OPS", "MD", "work"}

Init ==
    /\ fuel = "ABSENT" /\ disbursed = 0
    /\ approval = "ABSENT" /\ signed = {} /\ work = "OPEN"
    /\ above \in BOOLEAN /\ moved = FALSE
    /\ pc = [r \in Requests |-> "new"]
    /\ job = [r \in Requests |-> NoJob]
    /\ contended = {}

-----------------------------------------------------------------------------

Writing(on) == {r \in Requests : pc[r] = "write" /\ job[r].on = on}

(* The first query of a request: it goes on if the row allows what it is   *)
(* about, and is answered 404 or 409 otherwise.                            *)
Read(r, allowed, j) ==
    /\ pc[r] = "new"
    /\ IF allowed
       THEN /\ pc' = [pc EXCEPT ![r] = "write"]
            /\ job' = [job EXCEPT ![r] = j]
            /\ contended' = IF Writing(j.on) = {} THEN contended ELSE contended \cup {j.on}
       ELSE /\ pc' = [pc EXCEPT ![r] = "done"]
            /\ UNCHANGED <<job, contended>>
    /\ UNCHANGED <<fuelVars, ticketVars, moved>>

Write(r, on) ==
    /\ pc[r] = "write" /\ job[r].on = on
    /\ pc' = [pc EXCEPT ![r] = "done"]
    /\ job' = [job EXCEPT ![r] = NoJob]
    /\ UNCHANGED <<contended, moved>>

(* createFuelRequest() *)
RequestFuel ==
    /\ fuel = "ABSENT"
    /\ fuel' = "PENDING"
    /\ UNCHANGED <<disbursed, ticketVars, pc, job, contended, moved>>

(* Mutant: a decided request may be decided again. *)
DecidableAgain == fuel # "ABSENT"

Decidable == fuel = "PENDING"

(* decideFuelRequest() *)
ReadFuel(r, decision, amount) ==
    Read(r, Decidable,
         [NoJob EXCEPT !.on = "fuel", !.decision = decision, !.amount = amount])

Payout(decision, amount) == IF decision = "APPROVED" THEN amount ELSE 0

DecideFuel(r) ==
    /\ Write(r, "fuel")
    /\ fuel' = job[r].decision
    /\ disbursed' = Payout(job[r].decision, job[r].amount)
    /\ UNCHANGED ticketVars

-----------------------------------------------------------------------------
(* reportMaintenance(): a ticket within the threshold is born OPS_APPROVED *)
(* without anybody's signature.                                            *)
Report ==
    /\ approval = "ABSENT"
    /\ approval' = IF above THEN "PENDING" ELSE "OPS_APPROVED"
    /\ UNCHANGED <<fuelVars, signed, work, above, pc, job, contended, moved>>

(* Mutant: the MD need not wait for OPS. *)
MdFirst(level) ==
    IF level = "OPS" THEN approval = "PENDING" ELSE approval # "ABSENT" /\ above

(* approveMaintenance(): the checks of each level. *)
Approvable(level) ==
    IF level = "OPS" THEN approval = "PENDING" ELSE approval = "OPS_APPROVED" /\ above

ReadTicket(r, level) ==
    Read(r, Approvable(level), [NoJob EXCEPT !.on = level, !.needsMd = above])

ApproveOps(r) ==
    /\ Write(r, "OPS")
    /\ approval' = IF job[r].needsMd THEN "OPS_APPROVED" ELSE "MD_APPROVED"
    /\ signed' = signed \cup {"OPS"}
    /\ UNCHANGED <<fuelVars, work, above>>

ApproveMd(r) ==
    /\ Write(r, "MD")
    /\ approval' = "MD_APPROVED"
    /\ signed' = signed \cup {"MD"}
    /\ UNCHANGED <<fuelVars, work, above>>

(* Mutant: work may proceed on any ticket. *)
WorkableAlways(to) == approval # "ABSENT"

(* PUT /maintenance/:key/status.  The work may be set to anything at any   *)
(* time, also back; only progress needs an approval.                       *)
Workable(to) ==
    /\ approval # "ABSENT"
    /\ to \in Progress => approval \in {"OPS_APPROVED", "MD_APPROVED"}

ReadForWork(r, to) == Read(r, Workable(to), [NoJob EXCEPT !.on = "work", !.to = to])

SetWork(r) ==
    /\ Write(r, "work")
    /\ work' = job[r].to
    /\ UNCHANGED <<fuelVars, approval, signed, above>>

(* The UPDATE fails, or the process is gone before it began. *)
Fail(r) ==
    /\ \E on \in {"fuel", "OPS", "MD", "work"} : Write(r, on)
    /\ UNCHANGED <<fuelVars, ticketVars>>

(* An operator edits MAINTENANCE_MD_THRESHOLD in app_config. *)
MoveThreshold ==
    /\ above' = ~above
    /\ moved' = TRUE
    /\ UNCHANGED <<fuelVars, approval, signed, work, pc, job, contended>>

Next ==
    \/ RequestFuel
    \/ Report
    \/ MoveThreshold
    \/ \E r \in Requests :
           \/ \E decision \in Decisions, amount \in 0..MaxAmount : ReadFuel(r, decision, amount)
           \/ DecideFuel(r)
           \/ \E level \in Levels : ReadTicket(r, level)
           \/ ApproveOps(r)
           \/ ApproveMd(r)
           \/ \E to \in Works : ReadForWork(r, to)
           \/ SetWork(r)
           \/ Fail(r)

Spec == Init /\ [][Next]_vars

-----------------------------------------------------------------------------
(* Properties *)

(* What the managers decided stands: no late, repeated or failed request   *)
(* changes a decided fuel request or its payout, unless two deciders       *)
(* overlapped, or takes a full approval back, unless two OPS approvals     *)
(* did.  An MD approval may overtake an OPS approval that is under way.    *)
(* Overlapping deciders may replace a decision as a whole, but never undo  *)
(* it, nor leave the payout of one with the decision of the other.         *)
DecisionsStand ==
    [][/\ fuel \in Decisions =>
              /\ fuel' \in Decisions
              /\ disbursed' > 0 => fuel' = "APPROVED"
              /\ "fuel" \notin contended => fuelVars' = fuelVars
       /\ approval = "MD_APPROVED" =>
              /\ approval' \in {"OPS_APPROVED", "MD_APPROVED"}
              /\ "OPS" \notin contended => approval' = approval]_vars

(* A ticket is fully approved with the signatures of both levels, in       *)
(* whatever order their requests ran, unless the threshold moved across    *)
(* its cost while it was open.                                             *)
TwoSignatures == approval = "MD_APPROVED" /\ ~moved => signed = Levels

(* No work is in progress or done on a ticket that is not approved, though *)
(* the approval was read a round trip earlier.                             *)
WorkIsApproved == work \in Progress => approval \in {"OPS_APPROVED", "MD_APPROVED"}

-----------------------------------------------------------------------------
(* What the docs claim, to check against the code *)

(* docs/openapi.yaml: "Only PENDING requests can be decided".              *)
OnlyPendingDecided == [][\A r \in Requests : DecideFuel(r) => fuel = "PENDING"]_vars

(* docs/openapi.yaml: "OPS approves from PENDING".                         *)
OpsFromPending == [][\A r \in Requests : ApproveOps(r) => approval = "PENDING"]_vars

=============================================================================
