------------------------ MODULE DispatchCustodyProofs ------------------------
(***************************************************************************)
(* Proofs about DispatchCustody, for any number of requests, lines and     *)
(* quantities.  The inductive invariant says what a request that has read  *)
(* the header may still rely on when it writes: prerequisites never go     *)
(* away, and as long as a stage is not contended its one writer is the     *)
(* first.                                                                  *)
(***************************************************************************)
EXTENDS DispatchCustody, TLAPS

(* What a writer read still holds: its prerequisite, unless it overrides.  *)
WriterMayStamp ==
    \A r \in Requests : pc[r] = "write" =>
        /\ status # "ABSENT"
        /\ r \in Overriding \/ Required(stage[r]) \subseteq stamps

(* An uncontended stage has one writer at most, and it is the first.       *)
FirstWriter ==
    \A s \in Stages \ contended : \A q, r \in Writing(s) : q = r /\ s \notin stamps

Existing == stamps # {} => status # "ABSENT"

IndInv ==
    /\ TypeOK
    /\ WriterMayStamp
    /\ FirstWriter
    /\ Existing
    /\ ChainUnbroken
    /\ StatusTellsStage
    /\ StockMatchesLines

-----------------------------------------------------------------------------
(* The arithmetic and the function updates are kept to the type lemma; the *)
(* others are about sets of stamps.                                        *)

(* Every action keeps every variable in its type.                          *)
LEMMA TypeStep == TypeOK /\ [Next]_vars => TypeOK'
<1> SUFFICES ASSUME TypeOK, [Next]_vars PROVE TypeOK'
    OBVIOUS
<1>1. CASE CreateDispatch
    BY <1>1 DEF TypeOK, CreateDispatch, Statuses
<1>2. ASSUME NEW r \in Requests, NEW s \in Stages, Read(r, s) PROVE TypeOK'
    BY <1>2 DEF TypeOK, Read, rowVars
<1>3. ASSUME NEW r \in Requests, StampWarehouse(r) PROVE TypeOK'
    BY <1>3 DEF TypeOK, StampWarehouse, Stamp, Over, Stages, Statuses
<1>4. ASSUME NEW r \in Requests, StampSecurity(r) PROVE TypeOK'
    BY <1>4 DEF TypeOK, StampSecurity, Stamp, Over, Stages, Statuses
<1>5. ASSUME NEW r \in Requests, StampDriver(r) PROVE TypeOK'
    BY <1>5 DEF TypeOK, StampDriver, Stamp, Over, Stages, Statuses
<1>6. ASSUME NEW r \in Requests, NEW final \in Final, NEW given \in Deliveries,
             StampCustomer(r, final, given)
      PROVE  TypeOK'
    <2>1. /\ status' \in Statuses /\ stamps' \subseteq Stages
          /\ pc' \in [Requests -> {"new", "write", "done"}]
          /\ stage' \in [Requests -> Stages]
          /\ contended' \subseteq Stages /\ forced' \subseteq Stages
        BY <1>6 DEF TypeOK, StampCustomer, Stamp, Over, Stages, Statuses, Final
    <2>2. \A l \in DOMAIN given : given[l].delivered \in Int /\ given[l].returned \in Int
        BY CustodyAssumption DEF Deliveries, Quantities
    <2>3. delivered' \in [Lines -> Int] /\ returned' \in [Lines -> Int]
        BY <1>6, <2>2 DEF TypeOK, StampCustomer
    <2>4. movedOut' \in [Lines -> Nat] /\ movedIn' \in [Lines -> Nat]
        BY <1>6, <2>3 DEF TypeOK, StampCustomer, Moving
    <2> QED
        BY <2>1, <2>3, <2>4 DEF TypeOK
<1>7. ASSUME NEW r \in Requests, Fail(r) PROVE TypeOK'
    BY <1>7 DEF TypeOK, Fail, Over, rowVars, Stages
<1>8. CASE UNCHANGED vars
    BY <1>8 DEF TypeOK, vars, rowVars
<1> QED
    BY <1>1, <1>2, <1>3, <1>4, <1>5, <1>6, <1>7, <1>8 DEF Next

(* A writing request holds on to its stage from the read on, and nothing   *)
(* it found is taken away.                                                 *)
LEMMA WriterStep ==
    ASSUME TypeOK, WriterMayStamp, Existing, [Next]_vars
    PROVE  WriterMayStamp' /\ Existing' /\ stamps \subseteq stamps'
<1> USE DEF WriterMayStamp, Existing
<1>1. CASE CreateDispatch
    BY <1>1 DEF CreateDispatch
<1>2. ASSUME NEW r \in Requests, NEW s \in Stages, Read(r, s)
      PROVE  WriterMayStamp' /\ Existing' /\ stamps \subseteq stamps'
    BY <1>2 DEF Read, Allowed, rowVars, TypeOK
<1>3. ASSUME NEW r \in Requests, NEW s \in Stages, NEW newStatus, Stamp(r, s, newStatus),
             newStatus # "ABSENT"
      PROVE  WriterMayStamp' /\ Existing' /\ stamps \subseteq stamps'
    BY <1>3 DEF Stamp, Over, TypeOK
<1>4. ASSUME NEW r \in Requests, StampWarehouse(r)
      PROVE  WriterMayStamp' /\ Existing' /\ stamps \subseteq stamps'
    <2>1. (IF status = "PENDING" THEN "LOADED" ELSE status) # "ABSENT"
        BY <1>4 DEF StampWarehouse, Stamp
    <2> QED
        BY <1>3, <1>4, <2>1 DEF StampWarehouse, Stages
<1>5. ASSUME NEW r \in Requests, StampSecurity(r)
      PROVE  WriterMayStamp' /\ Existing' /\ stamps \subseteq stamps'
    <2>1. (IF status \in {"PENDING", "LOADED"} THEN "LOADED" ELSE status) # "ABSENT"
        BY <1>5 DEF StampSecurity, Stamp
    <2> QED
        BY <1>3, <1>5, <2>1 DEF StampSecurity, Stages
<1>6. ASSUME NEW r \in Requests, StampDriver(r)
      PROVE  WriterMayStamp' /\ Existing' /\ stamps \subseteq stamps'
    BY <1>3, <1>6 DEF StampDriver, Stages
<1>7. ASSUME NEW r \in Requests, NEW final \in Final, NEW given \in Deliveries,
             StampCustomer(r, final, given)
      PROVE  WriterMayStamp' /\ Existing' /\ stamps \subseteq stamps'
    BY <1>3, <1>7 DEF StampCustomer, Stages, Final
<1>8. ASSUME NEW r \in Requests, Fail(r)
      PROVE  WriterMayStamp' /\ Existing' /\ stamps \subseteq stamps'
    BY <1>8 DEF Fail, Over, rowVars, TypeOK
<1>9. CASE UNCHANGED vars
    BY <1>9 DEF vars, rowVars
<1> QED
    BY <1>1, <1>2, <1>4, <1>5, <1>6, <1>7, <1>8, <1>9 DEF Next

(* The four stamping actions, for what does not depend on the quantities.  *)
Stamping(r) ==
    \/ StampWarehouse(r)
    \/ StampSecurity(r)
    \/ StampDriver(r)
    \/ \E final \in Final, given \in Deliveries : StampCustomer(r, final, given)

(* A stamping action adds the stage its request read to the stamps.        *)
LEMMA StampingAdds ==
    ASSUME TypeOK, NEW r \in Requests, Stamping(r)
    PROVE  /\ pc[r] = "write" /\ stage[r] \in Stages
           /\ stamps' = stamps \cup {stage[r]}
           /\ forced' = IF r \in Overriding THEN forced \cup {stage[r]} ELSE forced
           /\ pc' = [pc EXCEPT ![r] = "done"]
           /\ stage' = [stage EXCEPT ![r] = "WAREHOUSE"]
           /\ contended' = contended
<1>1. ASSUME NEW s \in Stages, NEW newStatus, Stamp(r, s, newStatus)
      PROVE  /\ pc[r] = "write" /\ stage[r] \in Stages
             /\ stamps' = stamps \cup {stage[r]}
             /\ forced' = IF r \in Overriding THEN forced \cup {stage[r]} ELSE forced
             /\ pc' = [pc EXCEPT ![r] = "done"]
             /\ stage' = [stage EXCEPT ![r] = "WAREHOUSE"]
             /\ contended' = contended
    BY <1>1 DEF Stamp, Over
<1> QED
    BY <1>1 DEF Stamping, StampWarehouse, StampSecurity, StampDriver, StampCustomer, Stages

(* The kinds of steps.                                                     *)
LEMMA StepKinds ==
    ASSUME [Next]_vars
    PROVE  \/ CreateDispatch
           \/ \E r \in Requests, s \in Stages : Read(r, s)
           \/ \E r \in Requests : Stamping(r)
           \/ \E r \in Requests : Fail(r)
           \/ UNCHANGED vars
    BY DEF Next, Stamping

(* As long as a stage is not contended, its one writer is the first.       *)
LEMMA FirstStep == TypeOK /\ FirstWriter /\ [Next]_vars => FirstWriter'
<1> SUFFICES ASSUME TypeOK, FirstWriter, [Next]_vars,
                    NEW s \in Stages, s \notin contended',
                    NEW q \in Writing(s)', NEW p \in Writing(s)'
             PROVE  q = p /\ s \notin stamps'
    BY DEF FirstWriter
<1> q \in Requests /\ p \in Requests /\ pc'[q] = "write" /\ pc'[p] = "write"
    /\ stage'[q] = s /\ stage'[p] = s
    BY DEF Writing
<1>1. CASE CreateDispatch
    BY <1>1 DEF CreateDispatch, FirstWriter, Writing
<1>2. ASSUME NEW r \in Requests, NEW t \in Stages, Read(r, t) PROVE q = p /\ s \notin stamps'
    <2>1. s \notin contended /\ stamps' = stamps
        BY <1>2 DEF Read, rowVars
    <2>2. \A x \in Requests : pc'[x] = "write" /\ stage'[x] = s /\ x # r => x \in Writing(s)
        BY <1>2 DEF Read, TypeOK, Writing
    <2>3. CASE pc'[r] = "write" /\ stage'[r] = s
        <3>1. Allowed(r, s) /\ Writing(s) = {}
            BY <1>2, <2>3 DEF Read, TypeOK
        <3> QED
            BY <2>1, <2>2, <3>1 DEF Allowed
    <2>4. CASE ~(pc'[r] = "write" /\ stage'[r] = s)
        BY <2>1, <2>2, <2>4 DEF FirstWriter
    <2> QED
        BY <2>3, <2>4
<1>3. ASSUME NEW r \in Requests, Stamping(r) PROVE q = p /\ s \notin stamps'
    <2>1. q # r /\ p # r /\ q \in Writing(s) /\ p \in Writing(s) /\ s \notin contended
        BY <1>3, StampingAdds DEF Writing, TypeOK
    <2>2. r \in Writing(stage[r])
        BY <1>3, StampingAdds DEF Writing
    <2>3. stage[r] # s
        BY <2>1, <2>2 DEF FirstWriter
    <2> QED
        BY <1>3, <2>1, <2>3, StampingAdds DEF FirstWriter
<1>4. ASSUME NEW r \in Requests, Fail(r) PROVE q = p /\ s \notin stamps'
    <2>1. q \in Writing(s) /\ p \in Writing(s) /\ s \notin contended /\ stamps' = stamps
        BY <1>4 DEF Fail, Over, rowVars, Writing, TypeOK
    <2> QED
        BY <2>1 DEF FirstWriter
<1>5. CASE UNCHANGED vars
    BY <1>5 DEF vars, rowVars, FirstWriter, Writing
<1> QED
    BY <1>1, <1>2, <1>3, <1>4, <1>5, StepKinds

(* A stamp is only added behind the one it requires, or by an override.    *)
LEMMA ChainStep ==
    TypeOK /\ WriterMayStamp /\ ChainUnbroken /\ [Next]_vars => ChainUnbroken'
<1> SUFFICES ASSUME TypeOK, WriterMayStamp, ChainUnbroken, [Next]_vars,
                    NEW s \in stamps', s \notin forced'
             PROVE  Required(s) \subseteq stamps'
    BY DEF ChainUnbroken
<1>1. CASE stamps' = stamps /\ forced' = forced
    BY <1>1 DEF ChainUnbroken
<1>2. ASSUME NEW r \in Requests, Stamping(r) PROVE Required(s) \subseteq stamps'
    <2>1. CASE s = stage[r]
        BY <1>2, <2>1, StampingAdds DEF WriterMayStamp
    <2>2. CASE s # stage[r]
        BY <1>2, <2>2, StampingAdds DEF ChainUnbroken
    <2> QED
        BY <2>1, <2>2
<1> QED
    BY <1>1, <1>2, StepKinds DEF CreateDispatch, Read, Fail, vars, rowVars

(* The status follows the stamps.                                          *)
LEMMA StatusStep == IndInv /\ [Next]_vars => StatusTellsStage'
<1> SUFFICES ASSUME IndInv, [Next]_vars, "DRIVER" \notin contended', forced' = {}
             PROVE  /\ (status' \in Final) <=> "CUSTOMER" \in stamps'
                    /\ (status' = "IN_TRANSIT")
                         <=> ("DRIVER" \in stamps' /\ "CUSTOMER" \notin stamps')
                    /\ (status' = "LOADED") <=> ("WAREHOUSE" \in stamps' /\ "DRIVER" \notin stamps')
    BY DEF StatusTellsStage
<1> DEFINE Goal ==
        /\ (status' \in Final) <=> "CUSTOMER" \in stamps'
        /\ (status' = "IN_TRANSIT") <=> ("DRIVER" \in stamps' /\ "CUSTOMER" \notin stamps')
        /\ (status' = "LOADED") <=> ("WAREHOUSE" \in stamps' /\ "DRIVER" \notin stamps')
<1> USE DEF Final
<1>1. /\ (status \in Final) <=> "CUSTOMER" \in stamps
      /\ (status = "IN_TRANSIT") <=> ("DRIVER" \in stamps /\ "CUSTOMER" \notin stamps)
      /\ (status = "LOADED") <=> ("WAREHOUSE" \in stamps /\ "DRIVER" \notin stamps)
      /\ forced = {} /\ "DRIVER" \notin contended
    <2>1. forced = {} /\ "DRIVER" \notin contended
        BY StepKinds, StampingAdds DEF IndInv, CreateDispatch, Read, Fail, Over, vars
    <2> QED
        BY <2>1 DEF IndInv, StatusTellsStage
<1>2. /\ "SECURITY" \in stamps => "WAREHOUSE" \in stamps
      /\ "DRIVER" \in stamps => "SECURITY" \in stamps
      /\ "CUSTOMER" \in stamps => "DRIVER" \in stamps
    BY <1>1 DEF IndInv, ChainUnbroken, Required
<1>3. CASE CreateDispatch
    <2>1. stamps = {}
        BY <1>3 DEF IndInv, Existing, CreateDispatch
    <2> QED
        BY <1>3, <2>1 DEF CreateDispatch
<1>4. CASE UNCHANGED <<status, stamps>>
    BY <1>1, <1>4
<1>5. ASSUME NEW r \in Requests, Stamping(r) PROVE Goal
    <2>1. /\ pc[r] = "write" /\ stage[r] \in Stages /\ r \notin Overriding
          /\ stamps' = stamps \cup {stage[r]}
          /\ Required(stage[r]) \subseteq stamps
          /\ status # "ABSENT" /\ status \in Statuses
        BY <1>5, StampingAdds DEF IndInv, TypeOK, WriterMayStamp
    <2>2. CASE StampWarehouse(r)
        <3>1. stage[r] = "WAREHOUSE" /\ status' = IF status = "PENDING" THEN "LOADED" ELSE status
            BY <2>2 DEF StampWarehouse, Stamp
        <3> QED
            BY <1>1, <1>2, <2>1, <3>1 DEF Statuses
    <2>3. CASE StampSecurity(r)
        <3>1. /\ stage[r] = "SECURITY" /\ "WAREHOUSE" \in stamps
              /\ status' = IF status \in {"PENDING", "LOADED"} THEN "LOADED" ELSE status
            BY <2>1, <2>3 DEF StampSecurity, Stamp, Required
        <3> QED
            BY <1>1, <1>2, <2>1, <3>1 DEF Statuses
    <2>4. CASE StampDriver(r)
        <3>1. stage[r] = "DRIVER" /\ "SECURITY" \in stamps /\ status' = "IN_TRANSIT"
            BY <2>1, <2>4 DEF StampDriver, Stamp, Required
        <3>2. "DRIVER" \notin stamps
            BY <1>1, <2>1, <3>1 DEF IndInv, FirstWriter, Writing, Stages
        <3> QED
            BY <1>1, <1>2, <2>1, <3>1, <3>2
    <2>5. ASSUME NEW final \in Final, NEW given \in Deliveries, StampCustomer(r, final, given)
          PROVE  Goal
        <3>1. stage[r] = "CUSTOMER" /\ "DRIVER" \in stamps /\ status' = final
            BY <2>1, <2>5 DEF StampCustomer, Stamp, Required
        <3> QED
            BY <1>1, <1>2, <2>1, <3>1
    <2> QED
        BY <1>5, <2>2, <2>3, <2>4, <2>5 DEF Stamping
<1> QED
    BY <1>3, <1>4, <1>5, StepKinds DEF Read, Fail, vars, rowVars

(* Every CUSTOMER transaction moves what the lines then say, and without   *)
(* contention it is the first.                                             *)
LEMMA StockStep == IndInv /\ [Next]_vars => StockMatchesLines'
<1> SUFFICES ASSUME IndInv, [Next]_vars PROVE StockMatchesLines'
    OBVIOUS
<1> USE DEF IndInv, StockMatchesLines
<1>1. CASE UNCHANGED <<delivered, returned, movedOut, movedIn>>
    <2>1. stamps \subseteq stamps'
        BY WriterStep
    <2>2. contended \subseteq contended'
        BY StepKinds, StampingAdds DEF CreateDispatch, Read, Fail, Over, vars
    <2> QED
        BY <1>1, <2>1, <2>2
<1>2. ASSUME NEW r \in Requests, NEW final \in Final, NEW given \in Deliveries,
             StampCustomer(r, final, given)
      PROVE  StockMatchesLines'
    <2> SUFFICES ASSUME NEW l \in Lines
                 PROVE  /\ movedOut'[l] >= Moving(delivered'[l])
                        /\ movedIn'[l] >= Moving(returned'[l])
                        /\ "CUSTOMER" \notin contended' =>
                               /\ movedOut'[l] = Moving(delivered'[l])
                               /\ movedIn'[l] = Moving(returned'[l])
        BY <1>2 DEF StampCustomer, Stamp
    <2>1. /\ delivered'[l] \in Int /\ returned'[l] \in Int
          /\ movedOut[l] \in Nat /\ movedIn[l] \in Nat
        BY TypeStep DEF TypeOK
    <2>2. /\ movedOut'[l] = movedOut[l] + Moving(delivered'[l])
          /\ movedIn'[l] = movedIn[l] + Moving(returned'[l])
        BY <1>2 DEF StampCustomer
    <2>3. "CUSTOMER" \notin contended' => movedOut[l] = 0 /\ movedIn[l] = 0
        BY <1>2 DEF StampCustomer, Stamp, Over, FirstWriter, Writing, Stages
    <2> QED
        BY <2>1, <2>2, <2>3 DEF Moving
<1> QED
    BY <1>1, <1>2 DEF Next, vars, rowVars, CreateDispatch, Read, Fail,
       StampWarehouse, StampSecurity, StampDriver

LEMMA Invariance == Spec => []IndInv
<1>1. Init => IndInv
    BY DEF Init, IndInv, TypeOK, Statuses, Stages, WriterMayStamp, FirstWriter, Writing,
           Existing, ChainUnbroken, StatusTellsStage, Final, StockMatchesLines,
           Moving
<1>2. IndInv /\ [Next]_vars => IndInv'
    BY TypeStep, WriterStep, FirstStep, ChainStep, StatusStep, StockStep DEF IndInv
<1> QED
    BY <1>1, <1>2, PTL DEF Spec

-----------------------------------------------------------------------------

(* Every variable of the custody chain stays in its type.                  *)
THEOREM CustodyTypeCorrect == Spec => []TypeOK
    BY Invariance, PTL DEF IndInv

(* No stage is stamped before the one it requires unless a manager said    *)
(* so, however many requests overlap between reading and stamping.         *)
THEOREM CustodyChainHolds == Spec => []ChainUnbroken
    BY Invariance, PTL DEF IndInv

(* The dispatch status never contradicts the stamps, as long as no two     *)
(* driver acknowledgements overlap and nothing is overridden.              *)
THEOREM StatusFollowsStamps == Spec => []StatusTellsStage
    BY Invariance, PTL DEF IndInv

(* The ledger has every quantity above 0 that a line shows, whatever       *)
(* overlaps, and nothing else unless two customer acknowledgements did.    *)
THEOREM StockFollowsLines == Spec => []StockMatchesLines
    BY Invariance, PTL DEF IndInv

=============================================================================
