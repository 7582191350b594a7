---------------------------- MODULE ApprovalsProofs ----------------------------
(***************************************************************************)
(* Proofs about Approvals, for any number of requests and any amounts.  An *)
(* UPDATE does not look at the row again, so the inductive invariant says  *)
(* what the row still is when it runs: some facts are never taken back (an *)
(* approval), the others hold as long as no second request read the same.  *)
(***************************************************************************)
EXTENDS Approvals, TLAPS

Granted == approval \in {"OPS_APPROVED", "MD_APPROVED"}

(* The only decider of a fuel request, or of the OPS level, finds it open  *)
(* when it writes.                                                         *)
StillOpen ==
    /\ "fuel" \notin contended =>
           \A r \in Writing("fuel") : fuel = "PENDING" /\ \A q \in Writing("fuel") : q = r
    /\ "OPS" \notin contended =>
           \A r \in Writing("OPS") : approval = "PENDING" /\ \A q \in Writing("OPS") : q = r

(* An approval that let the MD or the workshop go on is not taken back.    *)
StillGranted ==
    /\ \A r \in Writing("MD") : Granted
    /\ \A r \in Writing("work") : job[r].to \in Progress => Granted

(* While the threshold stays where it is, a ticket above it needs the MD,  *)
(* and it is granted by a signature of OPS only.                           *)
FixedThreshold ==
    ~moved =>
        /\ approval = "PENDING" => above
        /\ above /\ Granted => "OPS" \in signed
        /\ \A r \in Writing("OPS") : job[r].needsMd
        /\ \A r \in Writing("MD") : above

(* Money is paid out on an approved request only. *)
PaidIsApproved == disbursed > 0 => fuel = "APPROVED"

IndInv ==
    /\ TypeOK
    /\ PaidIsApproved
    /\ StillOpen
    /\ StillGranted
    /\ FixedThreshold
    /\ TwoSignatures
    /\ WorkIsApproved

-----------------------------------------------------------------------------

(* The three handlers begin with a query. *)
Reading(r) ==
    \/ \E decision \in Decisions, amount \in 0..MaxAmount : ReadFuel(r, decision, amount)
    \/ \E level \in Levels : ReadTicket(r, level)
    \/ \E to \in Works : ReadForWork(r, to)

(* What the query found of the row a request is now about to write. *)
Found(r) ==
    /\ job'[r].on = "fuel" => fuel = "PENDING"
    /\ job'[r].on = "OPS" => approval = "PENDING" /\ job'[r].needsMd = above
    /\ job'[r].on = "MD" => Granted /\ above
    /\ job'[r].on = "work" /\ job'[r].to \in Progress => Granted

LEMMA ReadEffect ==
    ASSUME TypeOK, NEW r \in Requests, NEW allowed \in BOOLEAN, NEW j \in Jobs,
           j.on # "none", Read(r, allowed, j)
    PROVE  /\ UNCHANGED <<fuelVars, ticketVars, moved>>
           /\ TypeOK'
           /\ \A q \in Requests \ {r} : pc'[q] = pc[q] /\ job'[q] = job[q]
           /\ contended \subseteq contended'
           /\ pc'[r] = "write" => /\ allowed = TRUE /\ job'[r] = j
                                 /\ \A q \in Requests :
                                      pc[q] = "write" /\ job[q].on = j.on => j.on \in contended'
<1>1. UNCHANGED <<fuelVars, ticketVars, moved>>
    BY DEF Read
<1>2. /\ pc' \in [Requests -> {"new", "write", "done"}]
      /\ job' \in [Requests -> Jobs]
      /\ contended' \subseteq {"fuel", "OPS", "MD", "work"}
    <2>1. pc' \in [Requests -> {"new", "write", "done"}]
        BY DEF Read, TypeOK
    <2>2. job' \in [Requests -> Jobs]
        BY DEF Read, TypeOK
    <2>3. j.on \in {"fuel", "OPS", "MD", "work"}
        BY DEF Jobs
    <2>4. contended' \subseteq {"fuel", "OPS", "MD", "work"}
        BY <2>3 DEF Read, TypeOK
    <2> QED
        BY <2>1, <2>2, <2>4
<1>3. TypeOK'
    BY <1>1, <1>2 DEF TypeOK, fuelVars, ticketVars
<1> QED
    BY <1>1, <1>3 DEF Read, TypeOK, Writing

LEMMA Reads ==
    ASSUME TypeOK, NEW r \in Requests, Reading(r)
    PROVE  /\ UNCHANGED <<fuelVars, ticketVars, moved>>
           /\ TypeOK'
           /\ \A q \in Requests \ {r} : pc'[q] = pc[q] /\ job'[q] = job[q]
           /\ contended \subseteq contended'
           /\ pc'[r] = "write" => /\ Found(r)
                                 /\ \A q \in Requests : pc[q] = "write" /\ job[q].on = job'[r].on
                                                           => job'[r].on \in contended'
<1>1. ASSUME NEW decision \in Decisions, NEW amount \in 0..MaxAmount,
             ReadFuel(r, decision, amount)
      PROVE  \E allowed \in BOOLEAN, j \in Jobs :
                 /\ Read(r, allowed, j) /\ j.on # "none"
                 /\ allowed = TRUE => j.on = "fuel" /\ fuel = "PENDING"
    <2> DEFINE j == [NoJob EXCEPT !.on = "fuel", !.decision = decision, !.amount = amount]
    <2>1. j \in Jobs /\ j.on = "fuel"
        BY ApprovalsAssumption DEF Jobs, NoJob, Decisions, Works
    <2>2. Read(r, Decidable, j) /\ Decidable \in BOOLEAN
        BY <1>1 DEF ReadFuel, Decidable
    <2> HIDE DEF j
    <2> QED
        BY <2>1, <2>2 DEF Decidable
<1>2. ASSUME NEW level \in Levels, ReadTicket(r, level)
      PROVE  \E allowed \in BOOLEAN, j \in Jobs :
                 /\ Read(r, allowed, j) /\ j.on # "none"
                 /\ allowed = TRUE =>
                        \/ j.on = "OPS" /\ approval = "PENDING" /\ j.needsMd = above
                        \/ j.on = "MD" /\ Granted /\ above
    <2> DEFINE j == [NoJob EXCEPT !.on = level, !.needsMd = above]
    <2>1. j \in Jobs /\ j.on = level /\ j.needsMd = above
        <3>1. NoJob \in Jobs
            BY ApprovalsAssumption DEF NoJob, Jobs, Decisions, Works
        <3>2. j \in Jobs
            BY <3>1 DEF Jobs, Levels, TypeOK
        <3> QED
            BY <3>2 DEF NoJob
    <2>2. Approvable(level) \in BOOLEAN
        BY DEF Approvable, TypeOK
    <2>3. level = "OPS" \/ level = "MD"
        BY DEF Levels
    <2>4. Read(r, Approvable(level), j)
        BY <1>2 DEF ReadTicket
    <2>5. Approvable(level) =>
              \/ level = "OPS" /\ approval = "PENDING"
              \/ level = "MD" /\ Granted /\ above
        BY <2>3 DEF Approvable, Granted
    <2> HIDE DEF j
    <2> QED
        BY <2>1, <2>2, <2>3, <2>4, <2>5
<1>3. ASSUME NEW to \in Works, ReadForWork(r, to)
      PROVE  \E allowed \in BOOLEAN, j \in Jobs :
                 /\ Read(r, allowed, j) /\ j.on # "none"
                 /\ allowed = TRUE => j.on = "work" /\ (j.to \in Progress => Granted)
    <2> DEFINE j == [NoJob EXCEPT !.on = "work", !.to = to]
    <2>1. j \in Jobs /\ j.on = "work" /\ j.to = to
        <3>1. NoJob \in Jobs
            BY ApprovalsAssumption DEF NoJob, Jobs, Decisions, Works
        <3>2. j \in Jobs
            BY <3>1 DEF Jobs
        <3> QED
            BY <3>2 DEF NoJob
    <2>2. Read(r, Workable(to), j) /\ Workable(to) \in BOOLEAN
        BY <1>3 DEF ReadForWork, Workable
    <2>3. Workable(to) /\ to \in Progress => Granted
        BY DEF Workable, Granted
    <2> HIDE DEF j
    <2> QED
        BY <2>1, <2>2, <2>3
<1>4. \E allowed \in BOOLEAN, j \in Jobs :
          /\ Read(r, allowed, j) /\ j.on # "none"
          /\ allowed = TRUE =>
                 \/ j.on = "fuel" /\ fuel = "PENDING"
                 \/ j.on = "OPS" /\ approval = "PENDING" /\ j.needsMd = above
                 \/ j.on = "MD" /\ Granted /\ above
                 \/ j.on = "work" /\ (j.to \in Progress => Granted)
    BY <1>1, <1>2, <1>3 DEF Reading
<1>5. PICK allowed \in BOOLEAN, j \in Jobs :
          /\ Read(r, allowed, j) /\ j.on # "none"
          /\ allowed = TRUE =>
                 \/ j.on = "fuel" /\ fuel = "PENDING"
                 \/ j.on = "OPS" /\ approval = "PENDING" /\ j.needsMd = above
                 \/ j.on = "MD" /\ Granted /\ above
                 \/ j.on = "work" /\ (j.to \in Progress => Granted)
    BY <1>4
<1>6. /\ UNCHANGED <<fuelVars, ticketVars, moved>>
      /\ TypeOK'
      /\ \A q \in Requests \ {r} : pc'[q] = pc[q] /\ job'[q] = job[q]
      /\ contended \subseteq contended'
      /\ pc'[r] = "write" => /\ allowed = TRUE /\ job'[r] = j
                            /\ \A q \in Requests :
                                      pc[q] = "write" /\ job[q].on = j.on => j.on \in contended'
    BY <1>5, ReadEffect
<1>7. ASSUME pc'[r] = "write" PROVE Found(r)
    <2>1. allowed = TRUE /\ job'[r] = j
        BY <1>6, <1>7
    <2> QED
        BY <1>5, <2>1 DEF Found
<1> QED
    BY <1>6, <1>7

(* Who is about to write after a query was so before, or made the query.   *)
LEMMA WritersAfterRead ==
    ASSUME TypeOK, NEW r \in Requests, Reading(r), NEW on
    PROVE  \A q \in Writing(on)' :
               \/ q \in Writing(on) /\ job'[q] = job[q]
               \/ /\ q = r /\ job'[r].on = on /\ Found(r)
                  /\ Writing(on) # {} => on \in contended'
<1> SUFFICES ASSUME NEW q \in Writing(on)'
             PROVE  \/ q \in Writing(on) /\ job'[q] = job[q]
                    \/ /\ q = r /\ job'[r].on = on /\ Found(r)
                       /\ Writing(on) # {} => on \in contended'
    OBVIOUS
<1>1. q \in Requests /\ pc'[q] = "write" /\ job'[q].on = on
    BY DEF Writing
<1>2. CASE q = r
    BY <1>1, <1>2, Reads DEF Writing
<1>3. CASE q # r
    <2>1. pc'[q] = pc[q] /\ job'[q] = job[q]
        BY <1>1, <1>3, Reads
    <2> QED
        BY <1>1, <2>1 DEF Writing
<1> QED
    BY <1>2, <1>3

(* Every action keeps every variable in its type. *)
LEMMA TypeStep ==
    ASSUME TypeOK, [Next]_vars
    PROVE  TypeOK'
<1>1. CASE RequestFuel
    BY <1>1, ApprovalsAssumption DEF RequestFuel, fuelVars, ticketVars, TypeOK, Jobs, NoJob, Levels, Decisions, Works
<1>2. CASE Report
    BY <1>2, ApprovalsAssumption DEF Report, fuelVars, ticketVars, TypeOK, Jobs, NoJob, Levels, Decisions, Works
<1>3. CASE MoveThreshold
    BY <1>3, ApprovalsAssumption DEF MoveThreshold, fuelVars, ticketVars, TypeOK, Jobs, NoJob, Levels, Decisions, Works
<1>4. ASSUME NEW r \in Requests, Reading(r)
      PROVE  TypeOK'
    BY <1>4, Reads
<1>5. ASSUME NEW r \in Requests, DecideFuel(r)
      PROVE  TypeOK'
    BY <1>5, ApprovalsAssumption DEF DecideFuel, Write, Payout, fuelVars, ticketVars, TypeOK, Jobs, NoJob, Levels, Decisions, Works
<1>6. ASSUME NEW r \in Requests, ApproveOps(r)
      PROVE  TypeOK'
    BY <1>6, ApprovalsAssumption DEF ApproveOps, Write, fuelVars, ticketVars, TypeOK, Jobs, NoJob, Levels, Decisions, Works
<1>7. ASSUME NEW r \in Requests, ApproveMd(r)
      PROVE  TypeOK'
    BY <1>7, ApprovalsAssumption DEF ApproveMd, Write, fuelVars, ticketVars, TypeOK, Jobs, NoJob, Levels, Decisions, Works
<1>8. ASSUME NEW r \in Requests, SetWork(r)
      PROVE  TypeOK'
    BY <1>8, ApprovalsAssumption DEF SetWork, Write, fuelVars, ticketVars, TypeOK, Jobs, NoJob, Levels, Decisions, Works
<1>9. ASSUME NEW r \in Requests, Fail(r)
      PROVE  TypeOK'
    BY <1>9, ApprovalsAssumption DEF Fail, Write, fuelVars, ticketVars, TypeOK, Jobs, NoJob, Levels, Decisions, Works
<1>10. CASE UNCHANGED vars
    BY <1>10, ApprovalsAssumption DEF vars, fuelVars, ticketVars, TypeOK, Jobs, NoJob, Levels, Decisions, Works
<1> QED
    BY <1>1, <1>2, <1>3, <1>4, <1>5, <1>6, <1>7, <1>8, <1>9, <1>10 DEF Next, Reading

(* A second reader of an open row is one more that contends. *)
LEMMA OpenStep ==
    ASSUME TypeOK, StillOpen, StillGranted, [Next]_vars
    PROVE  StillOpen'
<1>1. CASE RequestFuel
    BY <1>1 DEF RequestFuel, fuelVars, ticketVars, TypeOK, StillOpen, StillGranted, Granted, Writing, Jobs, NoJob, Levels
<1>2. CASE Report
    BY <1>2 DEF Report, fuelVars, ticketVars, TypeOK, StillOpen, StillGranted, Granted, Writing, Jobs, NoJob, Levels
<1>3. CASE MoveThreshold
    BY <1>3 DEF MoveThreshold, fuelVars, ticketVars, TypeOK, StillOpen, StillGranted, Granted, Writing, Jobs, NoJob, Levels
<1>4. ASSUME NEW r \in Requests, Reading(r)
      PROVE  StillOpen'
    BY <1>4, Reads, WritersAfterRead DEF Found, fuelVars, ticketVars, StillOpen, StillGranted, Granted
<1>5. ASSUME NEW r \in Requests, DecideFuel(r)
      PROVE  StillOpen'
    BY <1>5 DEF DecideFuel, Write, Payout, fuelVars, ticketVars, TypeOK, StillOpen, StillGranted, Granted, Writing, Jobs, NoJob, Levels
<1>6. ASSUME NEW r \in Requests, ApproveOps(r)
      PROVE  StillOpen'
    BY <1>6 DEF ApproveOps, Write, fuelVars, ticketVars, TypeOK, StillOpen, StillGranted, Granted, Writing, Jobs, NoJob, Levels
<1>7. ASSUME NEW r \in Requests, ApproveMd(r)
      PROVE  StillOpen'
    BY <1>7 DEF ApproveMd, Write, fuelVars, ticketVars, TypeOK, StillOpen, StillGranted, Granted, Writing, Jobs, NoJob, Levels
<1>8. ASSUME NEW r \in Requests, SetWork(r)
      PROVE  StillOpen'
    BY <1>8 DEF SetWork, Write, fuelVars, ticketVars, TypeOK, StillOpen, StillGranted, Granted, Writing, Jobs, NoJob, Levels
<1>9. ASSUME NEW r \in Requests, Fail(r)
      PROVE  StillOpen'
    BY <1>9 DEF Fail, Write, fuelVars, ticketVars, TypeOK, StillOpen, StillGranted, Granted, Writing, Jobs, NoJob, Levels
<1>10. CASE UNCHANGED vars
    BY <1>10 DEF vars, fuelVars, ticketVars, TypeOK, StillOpen, StillGranted, Granted, Writing, Jobs, NoJob, Levels
<1> QED
    BY <1>1, <1>2, <1>3, <1>4, <1>5, <1>6, <1>7, <1>8, <1>9, <1>10 DEF Next, Reading

(* PENDING is only where a ticket begins. *)
LEMMA GrantedStep ==
    ASSUME TypeOK, StillGranted, WorkIsApproved, [Next]_vars
    PROVE  StillGranted' /\ WorkIsApproved'
<1>1. CASE RequestFuel
    BY <1>1 DEF RequestFuel, fuelVars, ticketVars, TypeOK, StillGranted, WorkIsApproved, Granted, Writing, Jobs, NoJob, Levels
<1>2. CASE Report
    BY <1>2 DEF Report, fuelVars, ticketVars, TypeOK, StillGranted, WorkIsApproved, Granted, Writing, Jobs, NoJob, Levels
<1>3. CASE MoveThreshold
    BY <1>3 DEF MoveThreshold, fuelVars, ticketVars, TypeOK, StillGranted, WorkIsApproved, Granted, Writing, Jobs, NoJob, Levels
<1>4. ASSUME NEW r \in Requests, Reading(r)
      PROVE  StillGranted' /\ WorkIsApproved'
    BY <1>4, Reads, WritersAfterRead DEF Found, fuelVars, ticketVars, StillGranted, WorkIsApproved, Granted
<1>5. ASSUME NEW r \in Requests, DecideFuel(r)
      PROVE  StillGranted' /\ WorkIsApproved'
    BY <1>5 DEF DecideFuel, Write, Payout, fuelVars, ticketVars, TypeOK, StillGranted, WorkIsApproved, Granted, Writing, Jobs, NoJob, Levels
<1>6. ASSUME NEW r \in Requests, ApproveOps(r)
      PROVE  StillGranted' /\ WorkIsApproved'
    BY <1>6 DEF ApproveOps, Write, fuelVars, ticketVars, TypeOK, StillGranted, WorkIsApproved, Granted, Writing, Jobs, NoJob, Levels
<1>7. ASSUME NEW r \in Requests, ApproveMd(r)
      PROVE  StillGranted' /\ WorkIsApproved'
    BY <1>7 DEF ApproveMd, Write, fuelVars, ticketVars, TypeOK, StillGranted, WorkIsApproved, Granted, Writing, Jobs, NoJob, Levels
<1>8. ASSUME NEW r \in Requests, SetWork(r)
      PROVE  StillGranted' /\ WorkIsApproved'
    BY <1>8 DEF SetWork, Write, fuelVars, ticketVars, TypeOK, StillGranted, WorkIsApproved, Granted, Writing, Jobs, NoJob, Levels
<1>9. ASSUME NEW r \in Requests, Fail(r)
      PROVE  StillGranted' /\ WorkIsApproved'
    BY <1>9 DEF Fail, Write, fuelVars, ticketVars, TypeOK, StillGranted, WorkIsApproved, Granted, Writing, Jobs, NoJob, Levels
<1>10. CASE UNCHANGED vars
    BY <1>10 DEF vars, fuelVars, ticketVars, TypeOK, StillGranted, WorkIsApproved, Granted, Writing, Jobs, NoJob, Levels
<1> QED
    BY <1>1, <1>2, <1>3, <1>4, <1>5, <1>6, <1>7, <1>8, <1>9, <1>10 DEF Next, Reading

(* The order of the two signatures, in whatever order their requests run. *)
LEMMA SignatureStep ==
    ASSUME TypeOK, StillGranted, FixedThreshold, TwoSignatures, [Next]_vars
    PROVE  FixedThreshold' /\ TwoSignatures'
<1>1. CASE RequestFuel
    BY <1>1 DEF RequestFuel, fuelVars, ticketVars, TypeOK, StillGranted, FixedThreshold, TwoSignatures, Granted, Writing, Jobs, NoJob, Levels
<1>2. CASE Report
    BY <1>2 DEF Report, fuelVars, ticketVars, TypeOK, StillGranted, FixedThreshold, TwoSignatures, Granted, Writing, Jobs, NoJob, Levels
<1>3. CASE MoveThreshold
    BY <1>3 DEF MoveThreshold, fuelVars, ticketVars, TypeOK, StillGranted, FixedThreshold, TwoSignatures, Granted, Writing, Jobs, NoJob, Levels
<1>4. ASSUME NEW r \in Requests, Reading(r)
      PROVE  FixedThreshold' /\ TwoSignatures'
    BY <1>4, Reads, WritersAfterRead DEF Found, fuelVars, ticketVars, StillGranted, FixedThreshold, TwoSignatures, Granted
<1>5. ASSUME NEW r \in Requests, DecideFuel(r)
      PROVE  FixedThreshold' /\ TwoSignatures'
    BY <1>5 DEF DecideFuel, Write, Payout, fuelVars, ticketVars, TypeOK, StillGranted, FixedThreshold, TwoSignatures, Granted, Writing, Jobs, NoJob, Levels
<1>6. ASSUME NEW r \in Requests, ApproveOps(r)
      PROVE  FixedThreshold' /\ TwoSignatures'
    BY <1>6 DEF ApproveOps, Write, fuelVars, ticketVars, TypeOK, StillGranted, FixedThreshold, TwoSignatures, Granted, Writing, Jobs, NoJob, Levels
<1>7. ASSUME NEW r \in Requests, ApproveMd(r)
      PROVE  FixedThreshold' /\ TwoSignatures'
    BY <1>7 DEF ApproveMd, Write, fuelVars, ticketVars, TypeOK, StillGranted, FixedThreshold, TwoSignatures, Granted, Writing, Jobs, NoJob, Levels
<1>8. ASSUME NEW r \in Requests, SetWork(r)
      PROVE  FixedThreshold' /\ TwoSignatures'
    BY <1>8 DEF SetWork, Write, fuelVars, ticketVars, TypeOK, StillGranted, FixedThreshold, TwoSignatures, Granted, Writing, Jobs, NoJob, Levels
<1>9. ASSUME NEW r \in Requests, Fail(r)
      PROVE  FixedThreshold' /\ TwoSignatures'
    BY <1>9 DEF Fail, Write, fuelVars, ticketVars, TypeOK, StillGranted, FixedThreshold, TwoSignatures, Granted, Writing, Jobs, NoJob, Levels
<1>10. CASE UNCHANGED vars
    BY <1>10 DEF vars, fuelVars, ticketVars, TypeOK, StillGranted, FixedThreshold, TwoSignatures, Granted, Writing, Jobs, NoJob, Levels
<1> QED
    BY <1>1, <1>2, <1>3, <1>4, <1>5, <1>6, <1>7, <1>8, <1>9, <1>10 DEF Next, Reading

(* A payout comes with the approval it belongs to, in one UPDATE. *)
LEMMA PaidStep ==
    ASSUME TypeOK, PaidIsApproved, [Next]_vars
    PROVE  PaidIsApproved'
<1>1. CASE RequestFuel
    BY <1>1 DEF RequestFuel, PaidIsApproved
<1>2. ASSUME NEW r \in Requests, Reading(r) PROVE PaidIsApproved'
    BY <1>2, Reads DEF fuelVars, PaidIsApproved
<1>3. ASSUME NEW r \in Requests, DecideFuel(r) PROVE PaidIsApproved'
    BY <1>3 DEF DecideFuel, Payout, PaidIsApproved
<1>4. CASE UNCHANGED fuelVars
    BY <1>4 DEF fuelVars, PaidIsApproved
<1> QED
    BY <1>1, <1>2, <1>3, <1>4
    DEF Next, Reading, Report, MoveThreshold, ApproveOps, ApproveMd, SetWork, Fail, vars

(* What a decision takes back it takes back from another decision that was *)
(* under way at the same time.                                             *)
LEMMA DecisionStep ==
    ASSUME TypeOK, StillOpen, PaidIsApproved, [Next]_vars
    PROVE  /\ fuel \in Decisions =>
                  /\ fuel' \in Decisions
                  /\ disbursed' > 0 => fuel' = "APPROVED"
                  /\ "fuel" \notin contended => fuelVars' = fuelVars
           /\ approval = "MD_APPROVED" =>
                  /\ approval' \in {"OPS_APPROVED", "MD_APPROVED"}
                  /\ "OPS" \notin contended => approval' = approval
<1> DEFINE Stand == /\ fuel \in Decisions =>
                           /\ fuel' \in Decisions
                           /\ disbursed' > 0 => fuel' = "APPROVED"
                           /\ "fuel" \notin contended => fuelVars' = fuelVars
                    /\ approval = "MD_APPROVED" =>
                           /\ approval' \in {"OPS_APPROVED", "MD_APPROVED"}
                           /\ "OPS" \notin contended => approval' = approval
<1>1. CASE RequestFuel
    BY <1>1 DEF RequestFuel, ticketVars, Decisions
<1>2. CASE Report
    BY <1>2 DEF Report, fuelVars, PaidIsApproved
<1>3. CASE MoveThreshold
    BY <1>3 DEF MoveThreshold, fuelVars, PaidIsApproved
<1>4. ASSUME NEW r \in Requests, Reading(r) PROVE Stand
    BY <1>4, Reads DEF fuelVars, ticketVars, PaidIsApproved
<1>5. ASSUME NEW r \in Requests, DecideFuel(r) PROVE Stand
    BY <1>5 DEF DecideFuel, Write, Payout, StillOpen, Writing, ticketVars, TypeOK, Jobs, Decisions
<1>6. ASSUME NEW r \in Requests, ApproveOps(r) PROVE Stand
    BY <1>6 DEF ApproveOps, Write, StillOpen, Writing, fuelVars, PaidIsApproved
<1>7. ASSUME NEW r \in Requests, ApproveMd(r) PROVE Stand
    BY <1>7 DEF ApproveMd, fuelVars, PaidIsApproved
<1>8. ASSUME NEW r \in Requests, SetWork(r) PROVE Stand
    BY <1>8 DEF SetWork, fuelVars, PaidIsApproved
<1>9. ASSUME NEW r \in Requests, Fail(r) PROVE Stand
    BY <1>9 DEF Fail, fuelVars, ticketVars, PaidIsApproved
<1>10. CASE UNCHANGED vars
    BY <1>10 DEF vars, fuelVars, ticketVars, PaidIsApproved
<1> QED
    BY <1>1, <1>2, <1>3, <1>4, <1>5, <1>6, <1>7, <1>8, <1>9, <1>10 DEF Next, Reading

-----------------------------------------------------------------------------

LEMMA Invariant == Spec => []IndInv
<1>1. Init => IndInv
    <2> SUFFICES ASSUME Init PROVE IndInv
        OBVIOUS
    <2>1. TypeOK
        <3>1. NoJob \in Jobs
            BY ApprovalsAssumption DEF NoJob, Jobs, Decisions, Works
        <3>2. 0 \in 0..MaxAmount
            BY ApprovalsAssumption
        <3>3. above \in BOOLEAN /\ moved \in BOOLEAN
            BY Zenon DEF Init
        <3>4. job \in [Requests -> Jobs] /\ pc \in [Requests -> {"new", "write", "done"}]
            BY <3>1 DEF Init
        <3> QED
            BY <3>2, <3>3, <3>4 DEF Init, TypeOK, Works
    <2>2. /\ Writing("fuel") = {} /\ Writing("OPS") = {}
          /\ Writing("MD") = {} /\ Writing("work") = {}
        BY DEF Init, Writing
    <2>3. StillOpen /\ StillGranted
        BY <2>2 DEF StillOpen, StillGranted
    <2>4. FixedThreshold /\ TwoSignatures
        BY <2>2 DEF Init, FixedThreshold, Granted, TwoSignatures
    <2>5. WorkIsApproved
        BY DEF Init, WorkIsApproved, Progress
    <2>6. PaidIsApproved
        BY DEF Init, PaidIsApproved
    <2> QED
        BY <2>1, <2>3, <2>4, <2>5, <2>6 DEF IndInv
<1>2. IndInv /\ [Next]_vars => IndInv'
    BY TypeStep, PaidStep, OpenStep, GrantedStep, SignatureStep DEF IndInv
<1> QED
    BY <1>1, <1>2, PTL DEF Spec

(* Every variable has its type. *)
THEOREM ApprovalsTypeCorrect == Spec => []TypeOK
<1>1. IndInv => TypeOK
    BY DEF IndInv
<1> QED
    BY <1>1, Invariant, PTL

(* approveMaintenance(): in whatever order the requests of OPS and the MD  *)
(* run, a fully approved ticket has both signatures, unless the threshold  *)
(* moved across its cost.                                                  *)
THEOREM BothSign == Spec => []TwoSignatures
<1>1. IndInv => TwoSignatures
    BY DEF IndInv
<1> QED
    BY <1>1, Invariant, PTL

(* No work is in progress or done on a ticket that is not approved.        *)
THEOREM NoWorkUnapproved == Spec => []WorkIsApproved
<1>1. IndInv => WorkIsApproved
    BY DEF IndInv
<1> QED
    BY <1>1, Invariant, PTL

(* decideFuelRequest(), approveMaintenance(): a decision stands, unless    *)
(* two deciders overlapped; it is never undone, and decision and payout    *)
(* stay those of one decider.                                              *)
THEOREM DecisionsAreFinal == Spec => DecisionsStand
<1>1. IndInv /\ [Next]_vars =>
          [/\ fuel \in Decisions =>
                  /\ fuel' \in Decisions
                  /\ disbursed' > 0 => fuel' = "APPROVED"
                  /\ "fuel" \notin contended => fuelVars' = fuelVars
           /\ approval = "MD_APPROVED" =>
                  /\ approval' \in {"OPS_APPROVED", "MD_APPROVED"}
                  /\ "OPS" \notin contended => approval' = approval]_vars
    BY DecisionStep DEF IndInv
<1> QED
    BY <1>1, Invariant, PTL DEF Spec, DecisionsStand

================================================================================
