----------------------------- MODULE ProcessProofs -----------------------------
(***************************************************************************)
(* Proofs about the API process, its cron and its connections.             *)
(*                                                                         *)
(* Part 1: Scheduler, for any number of instances, businesses and items    *)
(* and every batch size.  A tick's claim and the stamps its rows carry are *)
(* made in different steps; the inductive invariant says what a batch may  *)
(* hold between them.                                                      *)
(*                                                                         *)
(* Part 2: ServerProcess, for any number of requests, jobs, pools and      *)
(* faults.  The pool and the promise of config/db.js are two variables     *)
(* that are set and cleared in different handlers; the inductive invariant *)
(* says which pools they and the requests may still refer to.              *)
(***************************************************************************)
EXTENDS Scheduler, ServerProcess, FiniteSetTheorems, WellFoundedInduction, TLAPS

-----------------------------------------------------------------------------
(* Part 1: Scheduler *)

(* A row that is not settled has an attempt left. *)
AttemptsLeft ==
    \A b \in Businesses, k \in Items : row[b][k] \notin Settled => retry[b][k] < MaxRetry

(* A tick's batch is claimed from the business it is at, and by it alone. *)
Held ==
    /\ \A i \in Instances : batch[i] # {} =>
           at[i] \in Businesses /\ \A k \in batch[i] : row[at[i]][k] = "PROCESSING"
    /\ \A i, j \in Instances : i # j /\ at[i] = at[j] => batch[i] \cap batch[j] = {}

(* One tick drains the business, what comes before a row of its batch is   *)
(* settled or in the batch too, and a conflict lies behind an overtaking.  *)
Orderly(b) ==
    /\ \A k \in Items : row[b][k] \in {"PENDING", "PROCESSING", "SYNCED", "CONFLICT"}
    /\ \A k \in Items : row[b][k] = "SYNCED" <=> k <= stamped[b]
    /\ \A k \in Items : row[b][k] = "CONFLICT" => \E m \in overtook[b] : m <= k
    /\ \A i, j \in Instances : at[i] = b /\ at[j] = b /\ batch[i] # {} /\ batch[j] # {} => i = j
    /\ \A i \in Instances : at[i] = b =>
           \A k \in batch[i], m \in Items :
               m < k => m \in batch[i] \/ row[b][m] \in {"SYNCED", "CONFLICT"}

InLine == \A b \in Businesses \ disturbed : Orderly(b)

(* A hungry business has work nobody claimed, and the tick is still to     *)
(* come to it.                                                             *)
Awaited ==
    \A i \in Instances :
        /\ at[i] # NoBusiness => running[i]
        /\ \A b \in hungry[i] :
               /\ running[i] /\ Runnable(b) # {}
               /\ b \in todo[i] \/ (at[i] = b /\ pass[i] = 0)

CronIndInv ==
    /\ CronTypeOK
    /\ AttemptsLeft
    /\ Held
    /\ InLine
    /\ Awaited

-----------------------------------------------------------------------------

NatOrder == {ss \in Nat \X Nat : ss[1] < ss[2]}

LEMMA NatOrderWellFounded == IsWellFoundedOn(NatOrder, Nat)
<1>1. NatOrder = OpToRel(<, Nat)
    BY DEF NatOrder, OpToRel
<1> QED
    BY <1>1, NatLessThanWellFounded

LEMMA SmallestOf ==
    ASSUME NEW T \in SUBSET Nat, T # {} PROVE \E n \in T : \A m \in T : n <= m
<1>1. \A m, n \in Nat : m < n => <<m, n>> \in NatOrder
    BY DEF NatOrder
<1>2. PICK n \in T : \A m \in T : <<m, n>> \notin NatOrder
    BY NatOrderWellFounded, WFMin
<1>3. ASSUME NEW m \in T PROVE n <= m
    <2>1. n \in Nat /\ m \in Nat /\ ~(m < n)
        BY <1>1, <1>2
    <2> QED
        BY <2>1
<1> QED
    BY <1>2, <1>3

LEMMA Sizes ==
    /\ Steps \in Nat /\ BatchSize \in Nat /\ MaxPass \in Nat /\ MaxRetry \in Nat
    /\ BatchSize > 0 /\ MaxPass > 0 /\ MaxRetry > 0
    /\ MaxErrors \in Nat /\ NoBusiness \notin Businesses
    /\ IsFiniteSet(Items) /\ Items \subseteq Nat
<1>1. /\ Steps \in Nat \ {0} /\ BatchSize \in Nat \ {0}
      /\ MaxPass \in Nat \ {0} /\ MaxRetry \in Nat \ {0}
    BY SchedulerAssumption
<1>2. IsFiniteSet(1..Steps)
    BY <1>1, FS_Interval
<1> QED
    BY <1>1, <1>2, SchedulerAssumption DEF Items

(* TOP (n) ... ORDER BY leaves nothing out in between. *)
LEMMA FirstOfIsClosed ==
    ASSUME NEW S \in SUBSET Items, NEW k \in FirstOf(S), NEW m \in S, m < k
    PROVE  m \in FirstOf(S)
<1> DEFINE Lower(x) == {y \in S : y < x}
<1>1. S \subseteq Nat /\ IsFiniteSet(S)
    BY Sizes, FS_Subset
<1>2. Lower(m) \in SUBSET Lower(k) /\ IsFiniteSet(Lower(k))
    <2>1. k \in S
        BY DEF FirstOf
    <2>2. \A y \in S : y < m => y < k
        BY <1>1, <2>1
    <2>3. Lower(m) \subseteq Lower(k)
        BY <2>2
    <2> QED
        BY <1>1, <2>3, FS_Subset
<1>3. Cardinality(Lower(m)) <= Cardinality(Lower(k)) /\ IsFiniteSet(Lower(m))
    BY <1>2, FS_Subset
<1>4. Cardinality(Lower(k)) < BatchSize
    BY DEF FirstOf
<1>5. Cardinality(Lower(m)) \in Nat /\ Cardinality(Lower(k)) \in Nat
    BY <1>2, <1>3, FS_CardinalityType
<1>6. Cardinality(Lower(m)) < BatchSize
    BY <1>3, <1>4, <1>5, Sizes
<1> QED
    BY <1>6 DEF FirstOf

(* What an attempt at a row finds. *)
LEMMA RowFacts ==
    ASSUME CronTypeOK, Held, AttemptsLeft, NEW i \in Instances, NEW k \in Items, Row(i, k)
    PROVE  /\ at[i] \in Businesses /\ at[i] # NoBusiness
           /\ row[at[i]][k] = "PROCESSING" /\ retry[at[i]][k] < MaxRetry
           /\ batch' = [batch EXCEPT ![i] = batch[i] \ {k}]
           /\ UNCHANGED <<running, todo, at, pass, hungry>>
           /\ overtook' \in [Businesses -> SUBSET Items]
           /\ overtook' = IF \E m \in batch[i] : m < k
                          THEN [overtook EXCEPT ![at[i]] = overtook[at[i]] \cup {k}]
                          ELSE overtook
<1>1. k \in batch[i] /\ batch' = [batch EXCEPT ![i] = batch[i] \ {k}]
      /\ UNCHANGED <<running, todo, at, pass, hungry>>
      /\ overtook' = IF \E m \in batch[i] : m < k
                     THEN [overtook EXCEPT ![at[i]] = overtook[at[i]] \cup {k}]
                     ELSE overtook
    BY DEF Row
<1>2. at[i] \in Businesses /\ at[i] # NoBusiness
    BY <1>1, SchedulerAssumption DEF Held
<1>3. overtook' \in [Businesses -> SUBSET Items]
    BY <1>1, <1>2 DEF CronTypeOK
<1> QED
    BY <1>1, <1>2, <1>3 DEF Held, AttemptsLeft, Settled

LEMMA FirstIsItem ==
    ASSUME NEW b PROVE FirstOffline(b) \in Items
<1>1. Steps \in Nat \ {0}
    BY SchedulerAssumption
<1> QED
    BY <1>1 DEF FirstOffline, Items

LEMMA CronTypeStep ==
    ASSUME CronTypeOK, Held, AttemptsLeft, [CronNext]_cronVars
    PROVE  CronTypeOK' /\ AttemptsLeft'
<1> USE Sizes DEF CronTypeOK, Unsettled, Settled
<1>1. ASSUME NEW b \in Businesses, Push(b) PROVE CronTypeOK' /\ AttemptsLeft'
    <2>1. /\ row' \in [Businesses -> [Items -> Unsettled \cup Settled \cup {"WAITING"}]]
          /\ stamped' \in [Businesses -> 0..Steps]
          /\ overtook' \in [Businesses -> SUBSET Items]
        BY <1>1, FirstIsItem DEF Push, Items
    <2>2. retry' \in [Businesses -> [Items -> 0..MaxRetry]]
        BY <1>1 DEF Push
    <2>3. CronTypeOK'
        BY <1>1, <2>1, <2>2 DEF Push, tickVars
    <2>4. \A k \in Items : retry'[b][k] < MaxRetry
        BY <1>1 DEF Push
    <2>5. \A c \in Businesses \ {b} : row'[c] = row[c] /\ retry'[c] = retry[c]
        BY <1>1 DEF Push
    <2> QED
        BY <2>3, <2>4, <2>5 DEF AttemptsLeft
<1>2. ASSUME NEW b \in Businesses, NEW k \in Items, Elapse(b, k)
      PROVE  CronTypeOK' /\ AttemptsLeft'
    BY <1>2 DEF Elapse, tickVars, historyVars, AttemptsLeft
<1>3. ASSUME NEW i \in Instances, Begin(i) PROVE CronTypeOK' /\ AttemptsLeft'
    BY <1>3 DEF Begin, queueVars, AttemptsLeft
<1>4. ASSUME NEW i \in Instances, NEW b \in Businesses, Visit(i, b)
      PROVE  CronTypeOK' /\ AttemptsLeft'
    BY <1>4 DEF Visit, queueVars, historyVars, AttemptsLeft
<1>5. ASSUME NEW i \in Instances, Claim(i) PROVE CronTypeOK' /\ AttemptsLeft'
    <2>1. at[i] \in Businesses /\ FirstOf(Runnable(at[i])) \subseteq Runnable(at[i])
        BY <1>5 DEF Claim, FirstOf
    <2>2. \A k \in FirstOf(Runnable(at[i])) : k \in Items /\ row[at[i]][k] \notin {"SYNCED", "CONFLICT", "DEAD_LETTER"}
        BY <2>1 DEF Runnable
    <2>3. CronTypeOK'
        <3>1. row' \in [Businesses -> [Items -> Unsettled \cup Settled \cup {"WAITING"}]]
            BY <1>5, <2>1 DEF Claim
        <3>2. batch' \in [Instances -> SUBSET Items]
            BY <1>5, <2>2 DEF Claim
        <3>3. hungry' \in [Instances -> SUBSET Businesses] /\ disturbed' \subseteq Businesses
            BY <1>5, <2>1 DEF Claim
        <3>4. pass' \in [Instances -> 0..MaxPass]
            <4>1. pass[i] \in 0..MaxPass /\ pass[i] # MaxPass
                BY <1>5 DEF Claim, Capped
            <4>2. \A n \in 0..MaxPass : n # MaxPass => n + 1 \in 0..MaxPass
                OBVIOUS
            <4>3. pass[i] + 1 \in 0..MaxPass
                BY <4>1, <4>2
            <4> QED
                BY <1>5, <4>3 DEF Claim
        <3> QED
            BY <1>5, <3>1, <3>2, <3>3, <3>4 DEF Claim
    <2>4. AttemptsLeft'
        BY <1>5, <2>1, <2>2 DEF Claim, AttemptsLeft
    <2> QED
        BY <2>3, <2>4
<1>6. ASSUME NEW i \in Instances, NEW k \in Items, Apply(i, k)
      PROVE  CronTypeOK' /\ AttemptsLeft'
    <2> DEFINE b == at[i]
    <2>1. /\ b \in Businesses /\ batch' = [batch EXCEPT ![i] = batch[i] \ {k}]
          /\ UNCHANGED <<running, todo, at, pass, hungry>>
          /\ overtook' \in [Businesses -> SUBSET Items]
        BY <1>6, RowFacts DEF Apply
    <2>2. Max({stamped[b], k}) \in 0..Steps
        <3>1. stamped[b] \in 0..Steps /\ k \in 0..Steps
            BY <2>1 DEF Items
        <3>2. \E x \in {stamped[b], k} : \A y \in {stamped[b], k} : x >= y
            BY <3>1
        <3> QED
            BY <3>1, <3>2 DEF Max
    <2>3. /\ row' = [row EXCEPT ![b][k] = "SYNCED"]
          /\ stamped' = [stamped EXCEPT ![b] = Max({stamped[b], k})]
          /\ UNCHANGED <<retry, disturbed, errors>>
        BY <1>6 DEF Apply, Mark
    <2> QED
        BY <2>1, <2>2, <2>3 DEF AttemptsLeft
<1>7. ASSUME NEW i \in Instances, NEW k \in Items, Park(i, k)
      PROVE  CronTypeOK' /\ AttemptsLeft'
    <2>1. /\ at[i] \in Businesses /\ batch' = [batch EXCEPT ![i] = batch[i] \ {k}]
          /\ UNCHANGED <<running, todo, at, pass, hungry>>
          /\ overtook' \in [Businesses -> SUBSET Items]
        BY <1>7, RowFacts DEF Park
    <2>2. /\ row' = [row EXCEPT ![at[i]][k] = "CONFLICT"]
          /\ UNCHANGED <<retry, stamped, disturbed, errors>>
        BY <1>7 DEF Park, Mark
    <2> QED
        BY <2>1, <2>2 DEF AttemptsLeft
<1>8. ASSUME NEW i \in Instances, NEW k \in Items, Fail(i, k)
      PROVE  CronTypeOK' /\ AttemptsLeft'
    <2> DEFINE b == at[i]
               n == retry[b][k] + 1
    <2>1. /\ b \in Businesses /\ batch' = [batch EXCEPT ![i] = batch[i] \ {k}]
          /\ UNCHANGED <<running, todo, at, pass, hungry>>
          /\ overtook' \in [Businesses -> SUBSET Items]
          /\ retry[b][k] < MaxRetry
        BY <1>8, RowFacts DEF Fail
    <2>2. n \in 0..MaxRetry
        BY <2>1
    <2>3. /\ row' = [row EXCEPT ![b][k] = AfterFailure(n)]
          /\ retry' = [retry EXCEPT ![b][k] = n]
          /\ disturbed' = disturbed \cup {b} /\ errors' \in 0..MaxErrors
          /\ stamped' = stamped
        BY <1>8, <2>1 DEF Fail, Mark, Disturb
    <2>4. AfterFailure(n) \in {"DEAD_LETTER", "WAITING"} /\ (AfterFailure(n) = "WAITING" => n < MaxRetry)
        BY <2>2 DEF AfterFailure
    <2> HIDE DEF n
    <2>5. CronTypeOK'
        BY <2>1, <2>2, <2>3, <2>4
    <2>6. AttemptsLeft'
        BY <2>1, <2>2, <2>3, <2>4 DEF AttemptsLeft
    <2> QED
        BY <2>5, <2>6
<1>9. ASSUME NEW i \in Instances, Leave(i) \/ EndTick(i) PROVE CronTypeOK' /\ AttemptsLeft'
    <2>1. /\ at' \in [Instances -> Businesses \cup {NoBusiness}]
          /\ todo' \in [Instances -> SUBSET Businesses]
          /\ pass' \in [Instances -> 0..MaxPass]
        <3>1. 0 \in 0..MaxPass
            OBVIOUS
        <3>2. CASE Leave(i)
            BY <3>1, <3>2 DEF Leave, Rest
        <3>3. CASE EndTick(i)
            BY <3>3 DEF EndTick
        <3> QED
            BY <1>9, <3>2, <3>3
    <2>2. /\ running' \in [Instances -> BOOLEAN] /\ hungry' \in [Instances -> SUBSET Businesses]
          /\ UNCHANGED <<queueVars, batch, disturbed, overtook, errors>>
        BY <1>9 DEF Leave, EndTick, historyVars
    <2> QED
        BY <2>1, <2>2 DEF queueVars, AttemptsLeft
<1>10. ASSUME NEW i \in Instances, Abort(i) PROVE CronTypeOK' /\ AttemptsLeft'
    BY <1>10 DEF Abort, Disturb, queueVars, AttemptsLeft
<1>11. CASE UNCHANGED cronVars
    BY <1>11 DEF cronVars, queueVars, tickVars, historyVars, AttemptsLeft
<1> QED
    BY <1>1, <1>2, <1>3, <1>4, <1>5, <1>6, <1>7, <1>8, <1>9, <1>10, <1>11 DEF CronNext, Step

(* The rows of a batch stay PROCESSING, and a claim takes no row of        *)
(* another batch.                                                          *)
LEMMA HeldStep ==
    ASSUME CronTypeOK, Held, AttemptsLeft, [CronNext]_cronVars
    PROVE  Held'
<1> USE SchedulerAssumption DEF CronTypeOK
<1>1. ASSUME NEW b \in Businesses, Push(b) PROVE Held'
    <2>1. \A i \in Instances : at[i] = b => batch[i] = {}
        BY <1>1 DEF Push, Held, Settled
    <2> QED
        BY <1>1, <2>1 DEF Push, tickVars, Held
<1>2. ASSUME NEW b \in Businesses, NEW k \in Items, Elapse(b, k) PROVE Held'
    BY <1>2 DEF Elapse, tickVars, Held
<1>3. ASSUME NEW i \in Instances, Begin(i) \/ EndTick(i) PROVE Held'
    BY <1>3 DEF Begin, EndTick, queueVars, Held
<1>4. ASSUME NEW i \in Instances, NEW b \in Businesses \cup {NoBusiness},
             batch[i] = {}, at' = [at EXCEPT ![i] = b], UNCHANGED <<row, batch>>
      PROVE  Held'
    BY <1>4 DEF Held
<1>10. ASSUME NEW i \in Instances, NEW b \in Businesses, Visit(i, b) PROVE Held'
    BY <1>4, <1>10 DEF Visit, queueVars, Held
<1>11. ASSUME NEW i \in Instances, Leave(i) PROVE Held'
    BY <1>4, <1>11 DEF Leave, queueVars
<1>5. ASSUME NEW i \in Instances, Claim(i) PROVE Held'
    <2> DEFINE b == at[i]
               claimed == FirstOf(Runnable(b))
    <2>1. /\ b \in Businesses /\ batch[i] = {} /\ at' = at
          /\ row' = [row EXCEPT ![b] = [k \in Items |->
                        IF k \in claimed THEN "PROCESSING" ELSE row[b][k]]]
          /\ batch' = [batch EXCEPT ![i] = claimed]
        BY <1>5 DEF Claim
    <2>2. claimed \subseteq Runnable(b) /\ claimed \subseteq Items
        BY DEF FirstOf, Runnable
    <2>3. \A j \in Instances : j # i /\ at[j] = b => batch[j] \cap claimed = {}
        BY <2>2 DEF Held, Runnable, Holders
    <2> HIDE DEF claimed
    <2>4. \A j \in Instances : batch'[j] # {} =>
              at'[j] \in Businesses /\ \A k \in batch'[j] : row'[at'[j]][k] = "PROCESSING"
        BY <2>1, <2>2 DEF Held
    <2>5. \A j, l \in Instances : j # l /\ at'[j] = at'[l] => batch'[j] \cap batch'[l] = {}
        BY <2>1, <2>3 DEF Held
    <2> QED
        BY <2>4, <2>5 DEF Held
<1>6. ASSUME NEW i \in Instances, NEW k \in Items, NEW status,
             Row(i, k), Mark(i, k, status)
      PROVE  Held'
    <2>1. /\ at[i] \in Businesses /\ batch' = [batch EXCEPT ![i] = batch[i] \ {k}] /\ at' = at
          /\ row' = [row EXCEPT ![at[i]][k] = status] /\ k \in batch[i]
        BY <1>6, RowFacts DEF Mark, Row
    <2>2. \A j \in Instances : at[j] = at[i] => k \notin batch'[j]
        BY <2>1 DEF Held
    <2>3. \A j \in Instances : batch'[j] \subseteq batch[j]
        BY <2>1
    <2>4. \A j \in Instances : batch'[j] # {} =>
              at'[j] \in Businesses /\ \A m \in batch'[j] : row'[at'[j]][m] = "PROCESSING"
        BY <2>1, <2>2, <2>3 DEF Held
    <2> QED
        BY <2>1, <2>3, <2>4 DEF Held
<1>7. ASSUME NEW i \in Instances, NEW k \in Items, Apply(i, k) \/ Park(i, k) \/ Fail(i, k)
      PROVE  Held'
    BY <1>6, <1>7 DEF Apply, Park, Fail
<1>8. ASSUME NEW i \in Instances, Abort(i) PROVE Held'
    BY <1>8 DEF Abort, queueVars, Held
<1>9. CASE UNCHANGED cronVars
    BY <1>9 DEF cronVars, queueVars, tickVars, Held
<1> QED
    BY <1>1, <1>2, <1>3, <1>5, <1>7, <1>8, <1>9, <1>10, <1>11 DEF CronNext, Step

(* What leaves a business and the batches drawn from it alone keeps it in  *)
(* order; so does letting go of a batch.                                   *)
LEMMA OrderlyStays ==
    ASSUME NEW c, Orderly(c), row'[c] = row[c], stamped'[c] = stamped[c],
           overtook'[c] = overtook[c],
           \A i \in Instances : at'[i] = c /\ batch'[i] # {} => at[i] = c /\ batch'[i] = batch[i]
    PROVE  Orderly(c)'
<1>1. /\ \A k \in Items : row[c][k] \in {"PENDING", "PROCESSING", "SYNCED", "CONFLICT"}
      /\ \A k \in Items : row[c][k] = "SYNCED" <=> k <= stamped[c]
      /\ \A k \in Items : row[c][k] = "CONFLICT" => \E m \in overtook[c] : m <= k
    BY DEF Orderly
<1>2. \A i, j \in Instances :
          at'[i] = c /\ at'[j] = c /\ batch'[i] # {} /\ batch'[j] # {} => i = j
    BY DEF Orderly
<1>3. ASSUME NEW i \in Instances, at'[i] = c, NEW k \in batch'[i], NEW m \in Items, m < k
      PROVE  m \in batch'[i] \/ row'[c][m] \in {"SYNCED", "CONFLICT"}
    <2>1. at[i] = c /\ batch'[i] = batch[i]
        BY <1>3
    <2> QED
        BY <1>3, <2>1 DEF Orderly
<1> QED
    BY <1>1, <1>2, <1>3 DEF Orderly

(* Push(): the batches that were drawn from the business are empty.        *)
LEMMA PushOrderly ==
    ASSUME CronTypeOK, Held, InLine, NEW b \in Businesses, Push(b) PROVE InLine'
<1> USE DEF CronTypeOK
<1>1. \A i \in Instances : at[i] = b => batch[i] = {}
    BY DEF Push, Held, Settled
<1>2. /\ row' = [row EXCEPT ![b] = [k \in Items |->
                    IF k < FirstOffline(b) THEN "SYNCED" ELSE "PENDING"]]
      /\ stamped' = [stamped EXCEPT ![b] = FirstOffline(b) - 1]
      /\ overtook' = [overtook EXCEPT ![b] = {}]
      /\ disturbed' = disturbed \ {b} /\ UNCHANGED <<at, batch>>
    BY DEF Push, tickVars
<1>3. Orderly(b)'
    <2>1. \A k \in Items : k < FirstOffline(b) <=> k <= FirstOffline(b) - 1
        BY FirstIsItem, Sizes DEF Items
    <2> QED
        BY <1>1, <1>2, <2>1 DEF Orderly
<1>4. ASSUME NEW c \in Businesses \ disturbed', c # b PROVE Orderly(c)'
    <2>1. /\ c \in Businesses \ disturbed /\ row'[c] = row[c] /\ stamped'[c] = stamped[c]
          /\ overtook'[c] = overtook[c]
        BY <1>2, <1>4
    <2> QED
        BY <1>2, <2>1, OrderlyStays DEF InLine
<1> QED
    BY <1>3, <1>4 DEF InLine

(* Claim(): everything before a claimed row is settled or claimed with it. *)
LEMMA ClaimOrderly ==
    ASSUME CronTypeOK, Held, InLine, NEW i \in Instances, Claim(i) PROVE InLine'
<1> USE DEF CronTypeOK
<1>0. PICK b \in Businesses : at[i] = b
    BY DEF Claim
<1> DEFINE claimed == FirstOf(Runnable(b))
<1>1. /\ batch[i] = {}
      /\ row' = [row EXCEPT ![b] = [k \in Items |->
                    IF k \in claimed THEN "PROCESSING" ELSE row[b][k]]]
      /\ batch' = [batch EXCEPT ![i] = claimed]
      /\ UNCHANGED <<at, stamped, overtook>> /\ disturbed \subseteq disturbed'
      /\ (\E j \in Instances \ {i} : at[j] = b /\ batch[j] # {}) => b \in disturbed'
    BY <1>0 DEF Claim
<1>2. claimed \subseteq Runnable(b) /\ Runnable(b) \in SUBSET Items
    BY DEF FirstOf, Runnable
<1>3. \A k \in claimed, m \in Runnable(b) : m < k => m \in claimed
    BY <1>2, FirstOfIsClosed
<1>4. ASSUME b \notin disturbed' PROVE Orderly(b)'
    <2>0. Orderly(b)
        BY <1>1, <1>4 DEF InLine
    <2>1. \A j \in Instances : at[j] = b => batch[j] = {}
        BY <1>1, <1>4
    <2>2. \A k \in Items : Holders(b, k) = {}
        BY <2>1 DEF Holders
    <2>3. \A k \in Items : k \in Runnable(b) \/ row[b][k] \in {"SYNCED", "CONFLICT"}
        BY <2>0, <2>2 DEF Runnable, Orderly
    <2>4. \A k \in claimed : k \in Items /\ row[b][k] \notin {"SYNCED", "CONFLICT"}
        BY <1>2 DEF Runnable
    <2> HIDE DEF claimed
    <2>5. row'[b] = [k \in Items |-> IF k \in claimed THEN "PROCESSING" ELSE row[b][k]]
        BY <1>1
    <2>6. \A k \in Items : row'[b][k] = IF k \in claimed THEN "PROCESSING" ELSE row[b][k]
        BY <2>5
    <2>7. /\ \A k \in Items : row'[b][k] \in {"PENDING", "PROCESSING", "SYNCED", "CONFLICT"}
          /\ \A k \in Items : row'[b][k] = "SYNCED" <=> row[b][k] = "SYNCED"
          /\ \A k \in Items : row'[b][k] = "CONFLICT" <=> row[b][k] = "CONFLICT"
        BY <2>0, <2>4, <2>6 DEF Orderly
    <2>8. \A j \in Instances : at'[j] = b /\ batch'[j] # {} => j = i
        BY <1>1, <2>1
    <2>9. ASSUME NEW j \in Instances, at'[j] = b, NEW k \in batch'[j], NEW m \in Items, m < k
          PROVE  m \in batch'[j] \/ row'[b][m] \in {"SYNCED", "CONFLICT"}
        <3>1. j = i /\ batch'[j] = claimed
            BY <1>1, <2>8, <2>9
        <3> QED
            BY <1>3, <2>3, <2>7, <2>9, <3>1
    <2>10. /\ \A k \in Items : row'[b][k] = "SYNCED" <=> k <= stamped'[b]
           /\ \A k \in Items : row'[b][k] = "CONFLICT" => \E m \in overtook'[b] : m <= k
        BY <1>1, <2>0, <2>7 DEF Orderly
    <2>11. \A j, l \in Instances :
               at'[j] = b /\ at'[l] = b /\ batch'[j] # {} /\ batch'[l] # {} => j = l
        BY <2>8
    <2> QED
        BY <1>1, <2>7, <2>9, <2>10, <2>11 DEF Orderly
<1>5. ASSUME NEW c \in Businesses \ disturbed', c # b PROVE Orderly(c)'
    <2>1. c \in Businesses \ disturbed /\ row'[c] = row[c]
          /\ stamped'[c] = stamped[c] /\ overtook'[c] = overtook[c]
        BY <1>1, <1>5
    <2>2. \A j \in Instances : at'[j] = c => at[j] = c /\ batch'[j] = batch[j]
        BY <1>0, <1>1, <1>5
    <2> QED
        BY <2>1, <2>2, OrderlyStays DEF InLine
<1> QED
    BY <1>4, <1>5 DEF InLine

(* What a row leaves behind in its batch.                                  *)
LEMMA RowBatches ==
    ASSUME CronTypeOK, NEW i \in Instances, NEW k \in batch[i], NEW b, at[i] = b, Orderly(b),
           at' = at, batch' = [batch EXCEPT ![i] = batch[i] \ {k}],
           \A m \in Items : row'[b][m] \in {"PENDING", "PROCESSING", "SYNCED", "CONFLICT"},
           \A m \in Items : row'[b][m] = "SYNCED" <=> m <= stamped'[b],
           \A m \in Items : row'[b][m] = "CONFLICT" => \E n \in overtook'[b] : n <= m,
           \A m \in Items : m = k \/ row[b][m] \in {"SYNCED", "CONFLICT"}
               => row'[b][m] \in {"SYNCED", "CONFLICT"}
    PROVE  Orderly(b)'
<1> USE DEF CronTypeOK
<1>1. /\ batch'[i] = batch[i] \ {k}
      /\ \A j \in Instances : j # i => batch'[j] = batch[j]
    OBVIOUS
<1>2. \A j, l \in Instances :
          at[j] = b /\ at[l] = b /\ batch'[j] # {} /\ batch'[l] # {} => j = l
    BY <1>1 DEF Orderly
<1>3. ASSUME NEW j \in Instances, at[j] = b, NEW n \in batch'[j], NEW m \in Items, m < n
      PROVE  m \in batch'[j] \/ row'[b][m] \in {"SYNCED", "CONFLICT"}
    <2>1. n \in batch[j]
        BY <1>1, <1>3
    <2>2. m \in batch[j] \/ row[b][m] \in {"SYNCED", "CONFLICT"}
        BY <1>3, <2>1 DEF Orderly
    <2>3. CASE m = k \/ row[b][m] \in {"SYNCED", "CONFLICT"}
        BY <2>3
    <2>4. CASE m # k /\ m \in batch[j]
        <3>1. m \in batch'[j]
            BY <1>1, <2>4
        <3> QED
            BY <3>1
    <2> QED
        BY <2>2, <2>3, <2>4
<1>4. \A j, l \in Instances :
          at'[j] = b /\ at'[l] = b /\ batch'[j] # {} /\ batch'[l] # {} => j = l
    BY <1>2
<1>5. \A j \in Instances : at'[j] = b =>
          \A n \in batch'[j], m \in Items :
              m < n => m \in batch'[j] \/ row'[b][m] \in {"SYNCED", "CONFLICT"}
    BY <1>3
<1> HIDE DEF CronTypeOK
<1> QED
    BY <1>4, <1>5 DEF Orderly

(* Apply() and Park(), of a business in order: the row is the next of the  *)
(* chain, or it overtakes a row of its batch, or lies behind a conflict.   *)
LEMMA RowOrderly ==
    ASSUME CronTypeOK, Held, AttemptsLeft, NEW i \in Instances, NEW k \in Items,
           NEW b, at[i] = b, Orderly(b), Apply(i, k) \/ Park(i, k)
    PROVE  Orderly(b)'
<1> USE DEF CronTypeOK
<1>0. Row(i, k)
    BY DEF Apply, Park
<1>1. /\ b \in Businesses /\ at' = at /\ k \in batch[i] /\ row[b][k] = "PROCESSING"
      /\ batch' = [batch EXCEPT ![i] = batch[i] \ {k}]
      /\ overtook' = IF \E m \in batch[i] : m < k
                     THEN [overtook EXCEPT ![b] = overtook[b] \cup {k}] ELSE overtook
    BY <1>0, RowFacts DEF Row
<1>2. /\ stamped[b] \in Nat /\ stamped[b] \in Int /\ k \in Nat /\ k > 0
      /\ ~(k <= stamped[b])
    BY <1>1, Sizes DEF Orderly, Items
<1>3. CASE Apply(i, k)
    <2>1. stamped[b] = k - 1 /\ row' = [row EXCEPT ![b][k] = "SYNCED"]
          /\ stamped' = [stamped EXCEPT ![b] = Max({stamped[b], k})]
        <3>1. /\ stamped[b] >= k - 1 /\ row' = [row EXCEPT ![b][k] = "SYNCED"]
              /\ stamped' = [stamped EXCEPT ![b] = Max({stamped[b], k})]
            BY <1>3 DEF Apply, Mark
        <3> DEFINE s == stamped[b]
        <3>2. s \in Int /\ k \in Int /\ s >= k - 1 /\ ~(k <= s)
            BY <1>2, <3>1
        <3> HIDE DEF s
        <3>3. s = k - 1
            BY <3>2
        <3> QED
            BY <3>1, <3>3 DEF s
    <2>2. Max({stamped[b], k}) = k
        <3>1. \A x \in {stamped[b], k} : (\A y \in {stamped[b], k} : x >= y) <=> x = k
            BY <1>2, <2>1
        <3> QED
            BY <3>1 DEF Max
    <2>3. stamped'[b] = k
        BY <1>1, <2>1, <2>2
    <2>4. \A m \in Items : row'[b][m] = IF m = k THEN "SYNCED" ELSE row[b][m]
        BY <1>1, <2>1
    <2>5. \A m \in Items : m <= k <=> m = k \/ m <= stamped[b]
        BY <1>2, <2>1, Sizes
    <2>6. \A m \in overtook[b] : m \in overtook'[b]
        BY <1>1
    <2>7. /\ \A m \in Items : row'[b][m] \in {"PENDING", "PROCESSING", "SYNCED", "CONFLICT"}
          /\ \A m \in Items : row'[b][m] = "SYNCED" <=> m <= stamped'[b]
          /\ \A m \in Items : row'[b][m] = "CONFLICT" => \E n \in overtook'[b] : n <= m
        <3>1. \A m \in Items : row'[b][m] \in {"PENDING", "PROCESSING", "SYNCED", "CONFLICT"}
            BY <2>4 DEF Orderly
        <3>2. \A m \in Items : row[b][m] = "SYNCED" <=> m <= stamped[b]
            BY DEF Orderly
        <3>3. \A m \in Items : row'[b][m] = "SYNCED" <=> m <= stamped'[b]
            BY <2>3, <2>4, <2>5, <3>2
        <3>4. \A m \in Items : row[b][m] = "CONFLICT" => \E n \in overtook[b] : n <= m
            BY DEF Orderly
        <3>5. \A m \in Items : row'[b][m] = "CONFLICT" => \E n \in overtook'[b] : n <= m
            BY <2>4, <2>6, <3>4
        <3> QED
            BY <3>1, <3>3, <3>5
    <2>8. \A m \in Items : m = k \/ row[b][m] \in {"SYNCED", "CONFLICT"}
              => row'[b][m] \in {"SYNCED", "CONFLICT"}
        BY <2>4
    <2> QED
        BY <1>1, <2>7, <2>8, RowBatches
<1>4. CASE Park(i, k)
    <2>1. stamped[b] < k - 1 /\ row' = [row EXCEPT ![b][k] = "CONFLICT"] /\ stamped' = stamped
        BY <1>4 DEF Park, Mark
    <2>2. \A m \in Items : row'[b][m] = IF m = k THEN "CONFLICT" ELSE row[b][m]
        BY <1>1, <2>1
    <2>3. \A m \in overtook[b] : m \in overtook'[b]
        BY <1>1
    <2>4. \E n \in overtook'[b] : n <= k
        <3>1. k - 1 \in Items /\ k - 1 < k /\ ~(k - 1 <= stamped[b])
            BY <1>2, <2>1, Sizes DEF Items
        <3>2. CASE k - 1 \in batch[i]
            BY <1>1, <1>2, <3>1, <3>2
        <3>3. CASE k - 1 \notin batch[i]
            <4>1. row[b][k - 1] = "CONFLICT"
                BY <1>1, <3>1, <3>3 DEF Orderly
            <4>2. PICK n \in overtook[b] : n <= k - 1
                BY <3>1, <4>1 DEF Orderly
            <4>3. n \in Nat /\ n <= k
                BY <1>1, <1>2, <4>2, Sizes
            <4> QED
                BY <2>3, <4>2, <4>3
        <3> QED
            BY <3>2, <3>3
    <2>5. /\ \A m \in Items : row'[b][m] \in {"PENDING", "PROCESSING", "SYNCED", "CONFLICT"}
          /\ \A m \in Items : row'[b][m] = "SYNCED" <=> m <= stamped'[b]
          /\ \A m \in Items : row'[b][m] = "CONFLICT" => \E n \in overtook'[b] : n <= m
        BY <1>2, <2>1, <2>2, <2>3, <2>4 DEF Orderly
    <2>6. \A m \in Items : m = k \/ row[b][m] \in {"SYNCED", "CONFLICT"}
              => row'[b][m] \in {"SYNCED", "CONFLICT"}
        BY <2>2
    <2> QED
        BY <1>1, <2>5, <2>6, RowBatches
<1> QED
    BY <1>3, <1>4

(* A business nobody disturbed is drained in order. *)
LEMMA InLineStep ==
    ASSUME CronTypeOK, Held, AttemptsLeft, InLine, [CronNext]_cronVars
    PROVE  InLine'
<1> USE DEF CronTypeOK
<1>1. ASSUME NEW b \in Businesses, NEW k \in Items, Elapse(b, k) PROVE InLine'
    <2>1. b \in disturbed
        BY <1>1 DEF Elapse, InLine, Orderly
    <2>2. \A c \in Businesses \ disturbed : row'[c] = row[c]
        BY <1>1, <2>1 DEF Elapse
    <2>3. UNCHANGED <<stamped, at, batch, disturbed, overtook>>
        BY <1>1 DEF Elapse, tickVars, historyVars
    <2> QED
        BY <2>2, <2>3, OrderlyStays DEF InLine
<1>2. ASSUME NEW i \in Instances, batch'[i] = {},
             \A j \in Instances : j # i => at'[j] = at[j] /\ batch'[j] = batch[j],
             UNCHANGED <<row, stamped, overtook>>, disturbed \subseteq disturbed'
      PROVE  InLine'
    <2>1. \A j \in Instances : batch'[j] # {} => at'[j] = at[j] /\ batch'[j] = batch[j]
        BY <1>2
    <2> QED
        BY <1>2, <2>1, OrderlyStays DEF InLine
<1>3. ASSUME NEW i \in Instances, Begin(i) \/ EndTick(i) PROVE InLine'
    <2>1. UNCHANGED <<row, stamped, at, batch, disturbed, overtook>>
        BY <1>3 DEF Begin, EndTick, queueVars
    <2> QED
        BY <2>1, OrderlyStays DEF InLine
<1>4. ASSUME NEW i \in Instances, NEW b \in Businesses, Visit(i, b) PROVE InLine'
    <2>1. at[i] = NoBusiness /\ at' = [at EXCEPT ![i] = b]
          /\ UNCHANGED <<row, stamped, batch, disturbed, overtook>>
        BY <1>4 DEF Visit, queueVars, historyVars
    <2>2. batch'[i] = {}
        BY <2>1, SchedulerAssumption DEF Held
    <2> QED
        BY <1>2, <2>1, <2>2
<1>5. ASSUME NEW i \in Instances, Leave(i) PROVE InLine'
    BY <1>2, <1>5 DEF Leave, queueVars, historyVars
<1>6. ASSUME NEW i \in Instances, Abort(i) PROVE InLine'
    BY <1>2, <1>6 DEF Abort, Disturb, queueVars
<1>7. ASSUME NEW i \in Instances, NEW k \in Items, NEW b, at[i] = b, Row(i, k),
             NEW status, Mark(i, k, status), disturbed \subseteq disturbed',
             \A c \in Businesses \ disturbed' : c # b => stamped'[c] = stamped[c],
             b \notin disturbed' => Orderly(b)'
      PROVE  InLine'
    <2>0. /\ b \in Businesses /\ at' = at
          /\ batch' = [batch EXCEPT ![i] = batch[i] \ {k}]
          /\ overtook' = IF \E m \in batch[i] : m < k
                         THEN [overtook EXCEPT ![b] = overtook[b] \cup {k}] ELSE overtook
        BY <1>7, RowFacts
    <2>1. /\ row' = [row EXCEPT ![b][k] = status]
          /\ \A c \in Businesses : c # b => overtook'[c] = overtook[c]
        BY <1>7, <2>0 DEF Mark
    <2>2. ASSUME NEW c \in Businesses \ disturbed', c # b PROVE Orderly(c)'
        <3>1. c \in Businesses \ disturbed /\ row'[c] = row[c] /\ stamped'[c] = stamped[c]
              /\ overtook'[c] = overtook[c]
            BY <1>7, <2>1, <2>2
        <3>2. \A j \in Instances : at'[j] = c => at[j] = c /\ batch'[j] = batch[j]
            BY <1>7, <2>0, <2>2
        <3> QED
            BY <3>1, <3>2, OrderlyStays DEF InLine
    <2> QED
        BY <1>7, <2>2 DEF InLine
<1>8. ASSUME NEW i \in Instances, NEW k \in Items, Apply(i, k) \/ Park(i, k) PROVE InLine'
    <2>1. /\ Row(i, k) /\ disturbed' = disturbed
          /\ \A c \in Businesses : c # at[i] => stamped'[c] = stamped[c]
        BY <1>8 DEF Apply, Park
    <2>2. PICK b \in Businesses : at[i] = b
        BY <2>1, RowFacts
    <2>3. b \notin disturbed' => Orderly(b)'
        BY <1>8, <2>1, <2>2, RowOrderly DEF InLine
    <2>4. Mark(i, k, "SYNCED") \/ Mark(i, k, "CONFLICT")
        BY <1>8 DEF Apply, Park
    <2> QED
        BY <1>7, <2>1, <2>2, <2>3, <2>4
<1>9. ASSUME NEW i \in Instances, NEW k \in Items, Fail(i, k) PROVE InLine'
    <2>1. at[i] \in disturbed' /\ disturbed \subseteq disturbed'
        BY <1>9, RowFacts DEF Fail, Disturb
    <2>2. Mark(i, k, AfterFailure(retry[at[i]][k] + 1)) /\ Row(i, k) /\ stamped' = stamped
        BY <1>9 DEF Fail
    <2> QED
        BY <1>7, <2>1, <2>2
<1>10. CASE UNCHANGED cronVars
    <2>1. UNCHANGED <<row, stamped, at, batch, disturbed, overtook>>
        BY <1>10 DEF cronVars, queueVars, tickVars, historyVars
    <2> QED
        BY <2>1, OrderlyStays DEF InLine
<1> QED
    BY <1>1, <1>3, <1>4, <1>5, <1>6, <1>8, <1>9, <1>10, PushOrderly, ClaimOrderly
       DEF CronNext, Step

(* Work that nobody claimed stays until a claim at its business.           *)
LEMMA RunnableStays ==
    ASSUME CronTypeOK, Held, AttemptsLeft, CronNext,
           NEW b \in Businesses, NEW k \in Runnable(b),
           \A i \in Instances : Claim(i) => at[i] # b
    PROVE  Runnable(b)' # {}
<1> USE Sizes DEF CronTypeOK
<1>0. k \in Items /\ row[b][k] \in {"PENDING", "FAILED", "PROCESSING"}
      /\ (row[b][k] = "PROCESSING" => \A i \in Instances : at[i] = b => k \notin batch[i])
    BY DEF Runnable, Holders
<1>1. ASSUME row'[b][k] = row[b][k] \/ row'[b][k] = "FAILED",
             \A i \in Instances : at'[i] = b =>
                 (at[i] = b /\ batch'[i] \subseteq batch[i]) \/ batch'[i] = {}
      PROVE  Runnable(b)' # {}
    <2>1. \/ row'[b][k] \in {"PENDING", "FAILED"}
          \/ row'[b][k] = "PROCESSING" /\ \A i \in Instances : at'[i] = b => k \notin batch'[i]
        BY <1>0, <1>1
    <2>2. k \in Runnable(b)'
        BY <1>0, <2>1 DEF Runnable, Holders
    <2> QED
        BY <2>2
<1>2. ASSUME NEW c \in Businesses, Push(c) PROVE Runnable(b)' # {}
    <2>1. c # b
        BY <1>0, <1>2 DEF Push, Settled
    <2> QED
        BY <1>1, <1>2, <2>1 DEF Push, tickVars
<1>3. ASSUME NEW c \in Businesses, NEW m \in Items, Elapse(c, m) PROVE Runnable(b)' # {}
    <2>1. row'[b][k] = row[b][k]
        BY <1>0, <1>3 DEF Elapse
    <2> QED
        BY <1>1, <1>3, <2>1 DEF Elapse, tickVars
<1>4. ASSUME NEW i \in Instances, Begin(i) \/ EndTick(i) PROVE Runnable(b)' # {}
    <2>1. UNCHANGED <<row, at, batch>>
        BY <1>4 DEF Begin, EndTick, queueVars
    <2> QED
        BY <1>1, <2>1
<1>5. ASSUME NEW i \in Instances, NEW c \in Businesses, Visit(i, c) PROVE Runnable(b)' # {}
    <2>1. batch[i] = {} /\ at' = [at EXCEPT ![i] = c] /\ UNCHANGED <<row, batch>>
        BY <1>5 DEF Visit, queueVars, Held
    <2> QED
        BY <1>1, <2>1
<1>6. ASSUME NEW i \in Instances, Leave(i) PROVE Runnable(b)' # {}
    <2>1. batch[i] = {} /\ at' = [at EXCEPT ![i] = NoBusiness] /\ UNCHANGED <<row, batch>>
        BY <1>6 DEF Leave, queueVars
    <2> QED
        BY <1>1, <2>1
<1>7. ASSUME NEW i \in Instances, Claim(i) PROVE Runnable(b)' # {}
    <2>1. at[i] # b
        BY <1>7
    <2>2. /\ row' = [row EXCEPT ![at[i]] = [m \in Items |->
                        IF m \in FirstOf(Runnable(at[i])) THEN "PROCESSING" ELSE row[at[i]][m]]]
          /\ batch' = [batch EXCEPT ![i] = FirstOf(Runnable(at[i]))] /\ at' = at
        BY <1>7 DEF Claim
    <2> QED
        BY <1>1, <2>1, <2>2
<1>8. ASSUME NEW i \in Instances, NEW m \in Items, Row(i, m), NEW status, Mark(i, m, status)
      PROVE  Runnable(b)' # {}
    <2>1. /\ at[i] \in Businesses /\ batch' = [batch EXCEPT ![i] = batch[i] \ {m}] /\ at' = at
          /\ row' = [row EXCEPT ![at[i]][m] = status] /\ m \in batch[i]
          /\ row[at[i]][m] = "PROCESSING"
        BY <1>8, RowFacts DEF Mark, Row
    <2>2. ~(at[i] = b /\ m = k)
        BY <1>0, <2>1
    <2>3. row'[b][k] = row[b][k]
        BY <2>1, <2>2
    <2> QED
        BY <1>1, <2>1, <2>3
<1>9. ASSUME NEW i \in Instances, NEW m \in Items, Apply(i, m) \/ Park(i, m) \/ Fail(i, m)
      PROVE  Runnable(b)' # {}
    BY <1>8, <1>9 DEF Apply, Park, Fail
<1>10. ASSUME NEW i \in Instances, Abort(i) PROVE Runnable(b)' # {}
    <2>1. /\ at' = [at EXCEPT ![i] = NoBusiness] /\ batch' = [batch EXCEPT ![i] = {}]
          /\ row' = row
        BY <1>10 DEF Abort, queueVars
    <2> QED
        BY <1>1, <2>1
<1> QED
    BY <1>2, <1>3, <1>4, <1>5, <1>6, <1>7, <1>9, <1>10 DEF CronNext, Step

(* A business leaves the hungry of a tick by a claim, of any instance. *)
LEMMA AwaitedStep ==
    ASSUME CronTypeOK, Held, AttemptsLeft, Awaited, [CronNext]_cronVars
    PROVE  Awaited'
<1> USE Sizes DEF CronTypeOK
<1>1. CASE UNCHANGED cronVars
    <2>1. UNCHANGED <<row, running, todo, at, pass, batch, hungry>>
        BY <1>1 DEF cronVars, queueVars, tickVars, historyVars
    <2> QED
        BY <2>1 DEF Awaited, Runnable, Holders
<1>2. CASE CronNext
    <2>1. ASSUME NEW j \in Instances, NEW b \in hungry[j], b \in hungry'[j]
          PROVE  Runnable(b)' # {}
        <3>1. b \in Businesses /\ Runnable(b) # {}
            BY <2>1 DEF Awaited
        <3>2. \A i \in Instances : Claim(i) => at[i] # b
            BY <2>1 DEF Claim
        <3>3. PICK k \in Runnable(b) : TRUE
            BY <3>1
        <3> QED
            BY <1>2, <3>1, <3>2, <3>3, RunnableStays
    <2> DEFINE Waits(j, b) == running'[j] /\ (b \in todo'[j] \/ (at'[j] = b /\ pass'[j] = 0))
               Fine == \A j \in Instances :
                           /\ at'[j] # NoBusiness => running'[j]
                           /\ \A b \in hungry'[j] \cap hungry[j] : Waits(j, b)
    <2>2. ASSUME UNCHANGED <<running, todo, at, pass, hungry>> PROVE Fine
        BY <2>2 DEF Awaited
    <2>3. ASSUME NEW i \in Instances, NEW b \in Businesses, Visit(i, b) PROVE Fine
        BY <2>3 DEF Visit, historyVars, Awaited
    <2>4. ASSUME NEW i \in Instances, Leave(i) PROVE Fine
        <3>1. /\ at' = [at EXCEPT ![i] = NoBusiness] /\ todo' = todo
              /\ pass' = [pass EXCEPT ![i] = 0] /\ UNCHANGED <<running, hungry>>
            BY <2>4 DEF Leave, Rest, historyVars
        <3>2. \A c \in hungry[i] : c \in todo[i]
            <4>1. pass[i] # 0 \/ Runnable(at[i]) = {}
                BY <2>4 DEF Leave, Capped
            <4>2. \A c \in hungry[i] :
                      Runnable(c) # {} /\ (c \in todo[i] \/ (at[i] = c /\ pass[i] = 0))
                BY DEF Awaited
            <4> QED
                BY <4>1, <4>2
        <3>3. \A j \in Instances :
                  /\ at'[j] # NoBusiness => running'[j]
                  /\ j # i => at'[j] = at[j] /\ pass'[j] = pass[j]
            BY <3>1 DEF Awaited
        <3>4. \A j \in Instances, b \in Businesses : b \in hungry[j] => Waits(j, b)
            BY <3>1, <3>2, <3>3 DEF Awaited
        <3> QED
            BY <3>1, <3>3, <3>4
    <2>5. ASSUME NEW i \in Instances, Claim(i) PROVE Fine
        <3>1. \A j \in Instances : hungry'[j] = hungry[j] \ {at[i]}
            BY <2>5 DEF Claim
        <3>2. \A j \in Instances : j # i => pass'[j] = pass[j]
            BY <2>5 DEF Claim
        <3> QED
            BY <2>5, <3>1, <3>2 DEF Claim, Awaited
    <2>6. ASSUME NEW i \in Instances, Begin(i) PROVE Fine
        <3>1. hungry[i] = {}
            BY <2>6 DEF Begin, Awaited
        <3> QED
            BY <2>6, <3>1 DEF Begin, queueVars, Awaited
    <2>7. ASSUME NEW i \in Instances, EndTick(i) \/ Abort(i) PROVE Fine
        BY <2>7 DEF EndTick, Abort, Disturb, queueVars, Awaited
    <2>8. Fine
        <3>1. ASSUME NEW i \in Instances, NEW k \in Items, Apply(i, k) \/ Park(i, k) \/ Fail(i, k)
              PROVE  Fine
            BY <2>2, <3>1 DEF Apply, Park, Fail, Row
        <3>2. ASSUME NEW b \in Businesses, Push(b) \/ \E k \in Items : Elapse(b, k) PROVE Fine
            BY <2>2, <3>2 DEF Push, Elapse, tickVars, historyVars
        <3> HIDE DEF Fine
        <3> QED
            BY <1>2, <2>3, <2>4, <2>5, <2>6, <2>7, <3>1, <3>2 DEF CronNext, Step
    <2>9. ASSUME NEW j \in Instances, NEW b \in hungry'[j], b \notin hungry[j]
          PROVE  Runnable(b)' # {} /\ Waits(j, b)
        <3>1. PICK i \in Instances : Begin(i)
            <4>1. ASSUME hungry' = hungry PROVE FALSE
                BY <2>9, <4>1
            <4>2. ASSUME NEW i \in Instances, Claim(i) PROVE FALSE
                <5>1. hungry'[j] = hungry[j] \ {at[i]}
                    BY <4>2 DEF Claim
                <5> QED
                    BY <2>9, <5>1
            <4>3. ASSUME NEW i \in Instances, EndTick(i) \/ Abort(i) PROVE FALSE
                <5>1. hungry' = [hungry EXCEPT ![i] = {}]
                    BY <4>3 DEF EndTick, Abort
                <5> QED
                    BY <2>9, <5>1
            <4>4. ASSUME NEW c \in Businesses, Push(c) \/ \E k \in Items : Elapse(c, k) PROVE FALSE
                BY <4>1, <4>4 DEF Push, Elapse, historyVars
            <4>5. ASSUME NEW i \in Instances,
                         (\E c \in Businesses : Visit(i, c)) \/ Leave(i)
                         \/ \E k \in Items : Apply(i, k) \/ Park(i, k) \/ Fail(i, k)
                  PROVE  FALSE
                BY <4>1, <4>5 DEF Visit, Leave, Apply, Park, Fail, Row, historyVars
            <4> QED
                BY <1>2, <4>2, <4>3, <4>4, <4>5 DEF CronNext, Step
        <3>2. i = j /\ b \in Businesses /\ Runnable(b) # {}
            BY <2>9, <3>1 DEF Begin
        <3>3. UNCHANGED <<row, at, batch>>
            BY <3>1 DEF Begin, queueVars
        <3> QED
            BY <3>1, <3>2, <3>3 DEF Begin, Runnable, Holders
    <2> QED
        BY <2>1, <2>8, <2>9 DEF Awaited
<1> QED
    BY <1>1, <1>2

-----------------------------------------------------------------------------

LEMMA CronInvariant == CronSpec => []CronIndInv
<1>1. CronInit => CronIndInv
    <2> SUFFICES ASSUME CronInit PROVE CronIndInv
        OBVIOUS
    <2> USE Sizes DEF CronInit
    <2>1. CronTypeOK
        BY DEF CronTypeOK, Settled, Unsettled
    <2>2. AttemptsLeft /\ Held /\ Awaited
        BY DEF AttemptsLeft, Held, Awaited, Settled
    <2>3. \A k \in Items : k <= Steps
        BY DEF Items
    <2>4. InLine
        BY <2>3 DEF InLine, Orderly
    <2> QED
        BY <2>1, <2>2, <2>4 DEF CronIndInv
<1>2. CronIndInv /\ [CronNext]_cronVars => CronIndInv'
    BY CronTypeStep, HeldStep, InLineStep, AwaitedStep DEF CronIndInv
<1> QED
    BY <1>1, <1>2, PTL DEF CronSpec

(* Rows, ticks and batches keep their types. *)
THEOREM CronTypeCorrect == CronSpec => []CronTypeOK
<1>1. CronIndInv => CronTypeOK
    BY DEF CronIndInv
<1> QED
    BY <1>1, CronInvariant, PTL

(* processAllQueues() over claimBatch(): a stamp is parked only behind one *)
(* that was processed before another of its own batch, in whatever order   *)
(* the claimed rows come, whatever the batch size, the number of passes    *)
(* and the number of instances.                                            *)
THEOREM StampsGoThrough == CronSpec => []NoFalseConflict
<1>1. CronIndInv => NoFalseConflict
    BY DEF CronIndInv, InLine, Orderly, NoFalseConflict
<1> QED
    BY <1>1, CronInvariant, PTL

(* processAllQueues(): a tick that comes to its end has come to every      *)
(* business that had work.                                                 *)
THEOREM TicksServeAll == CronSpec => TickServesAll
<1>1. CronIndInv /\ [CronNext]_cronVars =>
          [\A i \in Instances : EndTick(i) => hungry[i] = {}]_cronVars
    <2>1. ASSUME CronIndInv, NEW i \in Instances, EndTick(i) PROVE hungry[i] = {}
        <3>1. at[i] = NoBusiness /\ todo[i] = {}
            BY <2>1 DEF EndTick
        <3>2. hungry[i] \subseteq Businesses
            BY <2>1 DEF CronIndInv, CronTypeOK
        <3> QED
            BY <2>1, <3>1, <3>2, Sizes DEF CronIndInv, Awaited
    <2> QED
        BY <2>1
<1> QED
    BY <1>1, CronInvariant, PTL DEF CronSpec, TickServesAll

(* Which step of a tick lowers what. *)
LEMMA TickStep ==
    ASSUME CronIndInv, NEW i \in Instances, running[i],
           Step(i) \/ Abort(i) \/ \E k \in Items : Fail(i, k)
    PROVE  Closer(i)
<1> USE Sizes
<1>1. CronTypeOK /\ Held /\ AttemptsLeft
    BY DEF CronIndInv
<1>2. /\ pass[i] \in 0..MaxPass /\ todo[i] \subseteq Businesses
      /\ pass \in [Instances -> 0..MaxPass] /\ todo \in [Instances -> SUBSET Businesses]
      /\ at \in [Instances -> Businesses \cup {NoBusiness}]
      /\ running \in [Instances -> BOOLEAN] /\ batch \in [Instances -> SUBSET Items]
    BY <1>1 DEF CronTypeOK
<1>3. ASSUME NEW b \in Businesses, Visit(i, b) PROVE Closer(i)
    <2>1. b \in todo[i] /\ todo'[i] = todo[i] \ {b}
        BY <1>2, <1>3 DEF Visit
    <2> QED
        BY <2>1 DEF Closer
<1>4. CASE Claim(i)
    <2>1. /\ todo'[i] = todo[i] /\ at'[i] = at[i] /\ at[i] # NoBusiness
          /\ pass[i] # MaxPass /\ pass'[i] = pass[i] + 1
        BY <1>2, <1>4 DEF Claim, Capped
    <2>2. Ahead(i)' < Ahead(i)
        BY <1>2, <2>1 DEF Ahead
    <2> QED
        BY <2>1, <2>2 DEF Closer
<1>5. ASSUME NEW k \in Items, Row(i, k) PROVE Closer(i)
    <2>1. /\ k \in batch[i] /\ batch'[i] = batch[i] \ {k} /\ todo'[i] = todo[i]
          /\ Ahead(i)' = Ahead(i)
        BY <1>2, <1>5 DEF Row, Ahead
    <2> QED
        BY <2>1 DEF Closer
<1>6. CASE Leave(i)
    <2>1. /\ todo'[i] = todo[i] /\ at'[i] = NoBusiness /\ at[i] # NoBusiness
          /\ running' = running
        BY <1>2, <1>6 DEF Leave, Rest
    <2>2. Ahead(i)' = 1 /\ Ahead(i) = MaxPass - pass[i] + 2
        BY <2>1 DEF Ahead
    <2> QED
        BY <1>2, <2>1, <2>2 DEF Closer
<1>7. CASE EndTick(i)
    <2>1. /\ todo'[i] = todo[i] /\ at'[i] = NoBusiness /\ at[i] = NoBusiness
          /\ ~running'[i]
        BY <1>2, <1>7 DEF EndTick
    <2>2. Ahead(i)' = 0 /\ Ahead(i) = 1
        BY <2>1 DEF Ahead
    <2> QED
        BY <2>1, <2>2 DEF Closer
<1>8. CASE Abort(i)
    <2>1. todo'[i] = {} /\ at'[i] = NoBusiness /\ ~running'[i]
        BY <1>2, <1>8 DEF Abort
    <2>2. Ahead(i)' = 0 /\ Ahead(i) \in Nat /\ Ahead(i) >= 1
        BY <1>2, <2>1 DEF Ahead
    <2>3. Ahead(i)' < Ahead(i)
        BY <2>2
    <2> QED
        BY <2>1, <2>3 DEF Closer
<1>9. ~Begin(i)
    BY DEF Begin
<1> QED
    BY <1>3, <1>4, <1>5, <1>6, <1>7, <1>8, <1>9 DEF Step, Apply, Park, Fail

(* A step of another instance, of a device or of time leaves a tick alone. *)
LEMMA OtherStep ==
    ASSUME CronIndInv, NEW i \in Instances, [CronNext]_cronVars,
           ~(Step(i) \/ Abort(i) \/ \E k \in Items : Fail(i, k))
    PROVE  UNCHANGED <<running[i], todo[i], at[i], pass[i], batch[i]>>
<1>1. /\ pass \in [Instances -> 0..MaxPass] /\ todo \in [Instances -> SUBSET Businesses]
      /\ at \in [Instances -> Businesses \cup {NoBusiness}]
      /\ running \in [Instances -> BOOLEAN] /\ batch \in [Instances -> SUBSET Items]
    BY DEF CronIndInv, CronTypeOK
<1>2. ASSUME NEW j \in Instances, j # i,
             Begin(j) \/ (\E b \in Businesses : Visit(j, b)) \/ Claim(j) \/ Leave(j)
             \/ EndTick(j) \/ Abort(j) \/ \E k \in Items : Row(j, k)
      PROVE  UNCHANGED <<running[i], todo[i], at[i], pass[i], batch[i]>>
    BY <1>1, <1>2 DEF Begin, Visit, Claim, Leave, EndTick, Abort, Row
<1>3. ASSUME UNCHANGED tickVars
      PROVE  UNCHANGED <<running[i], todo[i], at[i], pass[i], batch[i]>>
    BY <1>3 DEF tickVars
<1>4. ASSUME NEW b \in Businesses, Push(b) \/ \E k \in Items : Elapse(b, k)
      PROVE  UNCHANGED tickVars
    BY <1>4 DEF Push, Elapse
<1>5. UNCHANGED cronVars => UNCHANGED tickVars
    BY DEF cronVars
<1> QED
    BY <1>2, <1>3, <1>4, <1>5 DEF CronNext, Step, Apply, Park, Fail

(* processAllQueues(), whose passes over a business are bounded by         *)
(* MaxPass: a tick cannot be kept from its end, neither by rows that keep  *)
(* coming in nor by the ticks of other instances.                          *)
THEOREM TicksComeToAnEnd == CronSpec => TicksRunDown
<1>1. CronIndInv /\ [CronNext]_cronVars =>
          [\A i \in Instances : running[i] =>
               /\ Step(i) => Closer(i)
               /\ Closer(i) \/ UNCHANGED <<running[i], todo[i], at[i], pass[i], batch[i]>>
          ]_cronVars
    BY TickStep, OtherStep
<1> QED
    BY <1>1, CronInvariant, PTL DEF CronSpec, TicksRunDown

(* The rank of a tick, and the order it descends in. *)
TickRank(i) == <<<<todo[i], Ahead(i)>>, batch[i]>>

TickRanks == ((SUBSET Businesses) \X Nat) \X (SUBSET Items)

TickOrder ==
    LexPairOrdering(
        LexPairOrdering(StrictSubsetOrdering(Businesses), NatOrder, SUBSET Businesses, Nat),
        StrictSubsetOrdering(Items),
        (SUBSET Businesses) \X Nat, SUBSET Items)

(* With finitely many businesses there is no descending for ever: a tick   *)
(* that TicksComeToAnEnd brings ever closer to its end gets there.         *)
THEOREM TickOrderIsWellFounded ==
    /\ IsFiniteSet(Businesses) => IsWellFoundedOn(TickOrder, TickRanks)
    /\ CronSpec => [][\A i \in Instances : Closer(i) =>
                          <<TickRank(i)', TickRank(i)>> \in TickOrder]_cronVars
<1>1. ASSUME IsFiniteSet(Businesses) PROVE IsWellFoundedOn(TickOrder, TickRanks)
    <2>1. IsWellFoundedOn(StrictSubsetOrdering(Businesses), SUBSET Businesses)
        BY <1>1, FS_StrictSubsetOrderingWellFounded, FS_FiniteSubsetsOfFinite
    <2>2. IsWellFoundedOn(StrictSubsetOrdering(Items), SUBSET Items)
        BY Sizes, FS_StrictSubsetOrderingWellFounded, FS_FiniteSubsetsOfFinite
    <2>3. IsWellFoundedOn(NatOrder, Nat)
        BY NatOrderWellFounded
    <2>4. IsWellFoundedOn(LexPairOrdering(StrictSubsetOrdering(Businesses), NatOrder,
                                          SUBSET Businesses, Nat), (SUBSET Businesses) \X Nat)
        BY <2>1, <2>3, WFLexPairOrdering
    <2> QED
        BY <2>2, <2>4, WFLexPairOrdering DEF TickOrder, TickRanks
<1>2. ASSUME CronTypeOK, CronTypeOK', NEW i \in Instances, Closer(i)
      PROVE  <<TickRank(i)', TickRank(i)>> \in TickOrder
    <2>1. /\ todo[i] \in SUBSET Businesses /\ todo'[i] \in SUBSET Businesses
          /\ batch[i] \in SUBSET Items /\ batch'[i] \in SUBSET Items
        BY <1>2 DEF CronTypeOK
    <2>2. Ahead(i) \in Nat /\ Ahead(i)' \in Nat
        BY <1>2, Sizes DEF CronTypeOK, Ahead
    <2> QED
        BY <1>2, <2>1, <2>2
           DEF Closer, TickRank, TickOrder, LexPairOrdering, StrictSubsetOrdering, NatOrder
<1>3. CronIndInv /\ CronIndInv' /\ [CronNext]_cronVars =>
          [\A i \in Instances : Closer(i) =>
               <<TickRank(i)', TickRank(i)>> \in TickOrder]_cronVars
    BY <1>2 DEF CronIndInv
<1>4. CronSpec => [][\A i \in Instances : Closer(i) =>
                        <<TickRank(i)', TickRank(i)>> \in TickOrder]_cronVars
    BY <1>3, CronInvariant, PTL DEF CronSpec
<1> QED
    BY <1>1, <1>4

-----------------------------------------------------------------------------
(* Part 2: ServerProcess *)

Alive == {p \in Pools : state[p] \in {"connecting", "open"}}

(* Whoever holds a pool holds one that was connected, or is being.         *)
References ==
    /\ pool # Nil => state[pool] \in {"open", "closing", "closed"}
    /\ poolPromise # Nil => state[poolPromise] \notin {"new", "failed"}
    /\ \A c \in Callers :
           /\ pc[c] \in {"await", "query"} => conn[c] \in Pools /\ state[conn[c]] # "new"
           /\ pc[c] = "query" => state[conn[c]] \in {"open", "closing", "closed"}

(* Pools are closed at the end of a shutdown only, and then every request  *)
(* has its answer.                                                         *)
ClosedLast ==
    /\ \A p \in Pools : state[p] \in {"closing", "closed"} => shutdown = "closing"
    /\ process = "exit0" => shutdown = "closing"
    /\ shutdown = "closing" => Drained
    /\ cut = {}

(* The promise is the one handle on a pool: what is alive and was not      *)
(* disowned is what it stands for, as long as the process runs.            *)
OneHandle ==
    /\ process = "up" => Alive \ disowned \subseteq {poolPromise}
    /\ \A p, q \in Alive \ disowned : p = q

(* A request under way has a query left to make. *)
Unfinished == \A c \in Callers : pc[c] \in {"call", "await", "query"} => left[c] > 0

IndInv ==
    /\ TypeOK
    /\ Unfinished
    /\ References
    /\ ClosedLast
    /\ OneHandle

-----------------------------------------------------------------------------

(* Every action keeps every variable in its type. *)
LEMMA TypeStep ==
    ASSUME TypeOK, Unfinished, [Next]_vars
    PROVE  TypeOK' /\ Unfinished'
<1>1. ASSUME NEW c \in Callers, Arrive(c)
      PROVE  TypeOK' /\ Unfinished'
    BY <1>1, ProcessAssumption DEF Arrive, poolVars, callVars, serverVars, TypeOK, Unfinished, Callers
<1>2. ASSUME NEW c \in Callers, UsePool(c)
      PROVE  TypeOK' /\ Unfinished'
    BY <1>2, ProcessAssumption DEF UsePool, Use, Connected, poolVars, callVars, serverVars, TypeOK, Unfinished, Callers
<1>3. ASSUME NEW c \in Callers, JoinConnect(c)
      PROVE  TypeOK' /\ Unfinished'
    BY <1>3, ProcessAssumption DEF JoinConnect, Use, Connected, poolVars, callVars, serverVars, TypeOK, Unfinished, Callers
<1>4. ASSUME NEW c \in Callers, NEW p \in Pools, StartConnect(c, p)
      PROVE  TypeOK' /\ Unfinished'
    BY <1>4, ProcessAssumption DEF StartConnect, Use, Alone, Connected, poolVars, callVars, serverVars, TypeOK, Unfinished, Callers
<1>5. ASSUME NEW c \in Callers, Resume(c)
      PROVE  TypeOK' /\ Unfinished'
    BY <1>5, ProcessAssumption DEF Resume, End, poolVars, callVars, serverVars, TypeOK, Unfinished, Callers
<1>6. ASSUME NEW c \in Callers, Query(c)
      PROVE  TypeOK' /\ Unfinished'
    BY <1>6, ProcessAssumption DEF Query, End, poolVars, callVars, serverVars, TypeOK, Unfinished, Callers
<1>15. ASSUME NEW c \in Callers, QueryFails(c)
      PROVE  TypeOK' /\ Unfinished'
    BY <1>15, ProcessAssumption DEF QueryFails, End, poolVars, callVars, serverVars, TypeOK, Unfinished, Callers
<1>7. ASSUME NEW p \in Pools, Open(p)
      PROVE  TypeOK' /\ Unfinished'
    BY <1>7, ProcessAssumption DEF Open, poolVars, callVars, serverVars, TypeOK, Unfinished, Callers
<1>8. ASSUME NEW p \in Pools, ConnectFails(p)
      PROVE  TypeOK' /\ Unfinished'
    BY <1>8, ProcessAssumption DEF ConnectFails, PromiseForgotten, poolVars, callVars, serverVars, TypeOK, Unfinished, Callers
<1>9. ASSUME NEW p \in Pools, PoolError(p)
      PROVE  TypeOK' /\ Unfinished'
    BY <1>9, ProcessAssumption DEF PoolError, poolVars, callVars, serverVars, TypeOK, Unfinished, Callers
<1>10. CASE Signal
    BY <1>10, ProcessAssumption DEF Signal, poolVars, callVars, serverVars, TypeOK, Unfinished, Callers
<1>11. CASE ClosePool
    BY <1>11, ProcessAssumption DEF ClosePool, poolVars, callVars, serverVars, TypeOK, Unfinished, Callers
<1>12. CASE Exit
    BY <1>12, ProcessAssumption DEF Exit, poolVars, callVars, serverVars, TypeOK, Unfinished, Callers
<1>13. CASE ForceExit
    BY <1>13, ProcessAssumption DEF ForceExit, poolVars, callVars, serverVars, TypeOK, Unfinished, Callers
<1>14. CASE UNCHANGED vars
    BY <1>14, ProcessAssumption DEF vars, poolVars, callVars, serverVars, TypeOK, Unfinished, Callers
<1> QED
    BY <1>1, <1>2, <1>3, <1>4, <1>5, <1>6, <1>7, <1>8, <1>9, <1>10, <1>11, <1>12, <1>13, <1>14, <1>15 DEF Next, Call

(* No handler drops a pool somebody still holds back to one never opened. *)
LEMMA ReferencesStep ==
    ASSUME TypeOK, References, [Next]_vars
    PROVE  References'
<1>1. ASSUME NEW c \in Callers, Arrive(c)
      PROVE  References'
    BY <1>1, ProcessAssumption DEF Arrive, poolVars, callVars, serverVars, TypeOK, References, Callers
<1>2. ASSUME NEW c \in Callers, UsePool(c)
      PROVE  References'
    BY <1>2, ProcessAssumption DEF UsePool, Use, Connected, poolVars, callVars, serverVars, TypeOK, References, Callers
<1>3. ASSUME NEW c \in Callers, JoinConnect(c)
      PROVE  References'
    BY <1>3, ProcessAssumption DEF JoinConnect, Use, Connected, poolVars, callVars, serverVars, TypeOK, References, Callers
<1>4. ASSUME NEW c \in Callers, NEW p \in Pools, StartConnect(c, p)
      PROVE  References'
    BY <1>4, ProcessAssumption DEF StartConnect, Use, Alone, Connected, poolVars, callVars, serverVars, TypeOK, References, Callers
<1>5. ASSUME NEW c \in Callers, Resume(c)
      PROVE  References'
    BY <1>5, ProcessAssumption DEF Resume, End, poolVars, callVars, serverVars, TypeOK, References, Callers
<1>6. ASSUME NEW c \in Callers, Query(c)
      PROVE  References'
    BY <1>6, ProcessAssumption DEF Query, End, poolVars, callVars, serverVars, TypeOK, References, Callers
<1>15. ASSUME NEW c \in Callers, QueryFails(c)
      PROVE  References'
    BY <1>15, ProcessAssumption DEF QueryFails, End, poolVars, callVars, serverVars, TypeOK, References, Callers
<1>7. ASSUME NEW p \in Pools, Open(p)
      PROVE  References'
    BY <1>7, ProcessAssumption DEF Open, poolVars, callVars, serverVars, TypeOK, References, Callers
<1>8. ASSUME NEW p \in Pools, ConnectFails(p)
      PROVE  References'
    BY <1>8, ProcessAssumption DEF ConnectFails, PromiseForgotten, poolVars, callVars, serverVars, TypeOK, References, Callers
<1>9. ASSUME NEW p \in Pools, PoolError(p)
      PROVE  References'
    BY <1>9, ProcessAssumption DEF PoolError, poolVars, callVars, serverVars, TypeOK, References, Callers
<1>10. CASE Signal
    BY <1>10, ProcessAssumption DEF Signal, poolVars, callVars, serverVars, TypeOK, References, Callers
<1>11. CASE ClosePool
    BY <1>11, ProcessAssumption DEF ClosePool, poolVars, callVars, serverVars, TypeOK, References, Callers
<1>12. CASE Exit
    BY <1>12, ProcessAssumption DEF Exit, poolVars, callVars, serverVars, TypeOK, References, Callers
<1>13. CASE ForceExit
    BY <1>13, ProcessAssumption DEF ForceExit, poolVars, callVars, serverVars, TypeOK, References, Callers
<1>14. CASE UNCHANGED vars
    BY <1>14, ProcessAssumption DEF vars, poolVars, callVars, serverVars, TypeOK, References, Callers
<1> QED
    BY <1>1, <1>2, <1>3, <1>4, <1>5, <1>6, <1>7, <1>8, <1>9, <1>10, <1>11, <1>12, <1>13, <1>14, <1>15 DEF Next, Call

(* After the signal nothing is accepted, so what is drained stays drained. *)
LEMMA ClosedLastStep ==
    ASSUME TypeOK, References, ClosedLast, [Next]_vars
    PROVE  ClosedLast'
<1>1. ASSUME NEW c \in Callers, Arrive(c)
      PROVE  ClosedLast'
    BY <1>1, ProcessAssumption DEF Arrive, poolVars, callVars, serverVars, TypeOK, References, ClosedLast, Drained, Answered, Callers
<1>2. ASSUME NEW c \in Callers, UsePool(c)
      PROVE  ClosedLast'
    BY <1>2, ProcessAssumption DEF UsePool, Use, Connected, poolVars, callVars, serverVars, TypeOK, References, ClosedLast, Drained, Answered, Callers
<1>3. ASSUME NEW c \in Callers, JoinConnect(c)
      PROVE  ClosedLast'
    BY <1>3, ProcessAssumption DEF JoinConnect, Use, Connected, poolVars, callVars, serverVars, TypeOK, References, ClosedLast, Drained, Answered, Callers
<1>4. ASSUME NEW c \in Callers, NEW p \in Pools, StartConnect(c, p)
      PROVE  ClosedLast'
    BY <1>4, ProcessAssumption DEF StartConnect, Use, Alone, Connected, poolVars, callVars, serverVars, TypeOK, References, ClosedLast, Drained, Answered, Callers
<1>5. ASSUME NEW c \in Callers, Resume(c)
      PROVE  ClosedLast'
    BY <1>5, ProcessAssumption DEF Resume, End, poolVars, callVars, serverVars, TypeOK, References, ClosedLast, Drained, Answered, Callers
<1>6. ASSUME NEW c \in Callers, Query(c)
      PROVE  ClosedLast'
    BY <1>6, ProcessAssumption DEF Query, End, poolVars, callVars, serverVars, TypeOK, References, ClosedLast, Drained, Answered, Callers
<1>15. ASSUME NEW c \in Callers, QueryFails(c)
      PROVE  ClosedLast'
    BY <1>15, ProcessAssumption DEF QueryFails, End, poolVars, callVars, serverVars, TypeOK, References, ClosedLast, Drained, Answered, Callers
<1>7. ASSUME NEW p \in Pools, Open(p)
      PROVE  ClosedLast'
    BY <1>7, ProcessAssumption DEF Open, poolVars, callVars, serverVars, TypeOK, References, ClosedLast, Drained, Answered, Callers
<1>8. ASSUME NEW p \in Pools, ConnectFails(p)
      PROVE  ClosedLast'
    BY <1>8, ProcessAssumption DEF ConnectFails, PromiseForgotten, poolVars, callVars, serverVars, TypeOK, References, ClosedLast, Drained, Answered, Callers
<1>9. ASSUME NEW p \in Pools, PoolError(p)
      PROVE  ClosedLast'
    BY <1>9, ProcessAssumption DEF PoolError, poolVars, callVars, serverVars, TypeOK, References, ClosedLast, Drained, Answered, Callers
<1>10. CASE Signal
    BY <1>10, ProcessAssumption DEF Signal, poolVars, callVars, serverVars, TypeOK, References, ClosedLast, Drained, Answered, Callers
<1>11. CASE ClosePool
    BY <1>11, ProcessAssumption DEF ClosePool, poolVars, callVars, serverVars, TypeOK, References, ClosedLast, Drained, Answered, Callers
<1>12. CASE Exit
    BY <1>12, ProcessAssumption DEF Exit, poolVars, callVars, serverVars, TypeOK, References, ClosedLast, Drained, Answered, Callers
<1>13. CASE ForceExit
    BY <1>13, ProcessAssumption DEF ForceExit, poolVars, callVars, serverVars, TypeOK, References, ClosedLast, Drained, Answered, Callers
<1>14. CASE UNCHANGED vars
    BY <1>14, ProcessAssumption DEF vars, poolVars, callVars, serverVars, TypeOK, References, ClosedLast, Drained, Answered, Callers
<1> QED
    BY <1>1, <1>2, <1>3, <1>4, <1>5, <1>6, <1>7, <1>8, <1>9, <1>10, <1>11, <1>12, <1>13, <1>14, <1>15 DEF Next, Call

(* Every handler that forgets the promise disowns what it stood for. *)
LEMMA OneHandleStep ==
    ASSUME TypeOK, References, OneHandle, [Next]_vars
    PROVE  OneHandle'
<1>1. ASSUME NEW c \in Callers, Arrive(c)
      PROVE  OneHandle'
    BY <1>1, ProcessAssumption DEF Arrive, poolVars, callVars, serverVars, TypeOK, References, OneHandle, Alive
<1>2. ASSUME NEW c \in Callers, UsePool(c)
      PROVE  OneHandle'
    BY <1>2, ProcessAssumption DEF UsePool, Use, Connected, poolVars, callVars, serverVars, TypeOK, References, OneHandle, Alive
<1>3. ASSUME NEW c \in Callers, JoinConnect(c)
      PROVE  OneHandle'
    BY <1>3, ProcessAssumption DEF JoinConnect, Use, Connected, poolVars, callVars, serverVars, TypeOK, References, OneHandle, Alive
<1>4. ASSUME NEW c \in Callers, NEW p \in Pools, StartConnect(c, p)
      PROVE  OneHandle'
    BY <1>4, ProcessAssumption DEF StartConnect, Use, Alone, Connected, poolVars, callVars, serverVars, TypeOK, References, OneHandle, Alive
<1>5. ASSUME NEW c \in Callers, Resume(c)
      PROVE  OneHandle'
    BY <1>5, ProcessAssumption DEF Resume, End, poolVars, callVars, serverVars, TypeOK, References, OneHandle, Alive
<1>6. ASSUME NEW c \in Callers, Query(c)
      PROVE  OneHandle'
    BY <1>6, ProcessAssumption DEF Query, End, poolVars, callVars, serverVars, TypeOK, References, OneHandle, Alive
<1>15. ASSUME NEW c \in Callers, QueryFails(c)
      PROVE  OneHandle'
    BY <1>15, ProcessAssumption DEF QueryFails, End, poolVars, callVars, serverVars, TypeOK, References, OneHandle, Alive
<1>7. ASSUME NEW p \in Pools, Open(p)
      PROVE  OneHandle'
    BY <1>7, ProcessAssumption DEF Open, poolVars, callVars, serverVars, TypeOK, References, OneHandle, Alive
<1>8. ASSUME NEW p \in Pools, ConnectFails(p)
      PROVE  OneHandle'
    BY <1>8, ProcessAssumption DEF ConnectFails, PromiseForgotten, poolVars, callVars, serverVars, TypeOK, References, OneHandle, Alive
<1>9. ASSUME NEW p \in Pools, PoolError(p)
      PROVE  OneHandle'
    BY <1>9, ProcessAssumption DEF PoolError, poolVars, callVars, serverVars, TypeOK, References, OneHandle, Alive
<1>10. CASE Signal
    BY <1>10, ProcessAssumption DEF Signal, poolVars, callVars, serverVars, TypeOK, References, OneHandle, Alive
<1>11. CASE ClosePool
    BY <1>11, ProcessAssumption DEF ClosePool, poolVars, callVars, serverVars, TypeOK, References, OneHandle, Alive
<1>12. CASE Exit
    BY <1>12, ProcessAssumption DEF Exit, poolVars, callVars, serverVars, TypeOK, References, OneHandle, Alive
<1>13. CASE ForceExit
    BY <1>13, ProcessAssumption DEF ForceExit, poolVars, callVars, serverVars, TypeOK, References, OneHandle, Alive
<1>14. CASE UNCHANGED vars
    BY <1>14, ProcessAssumption DEF vars, poolVars, callVars, serverVars, TypeOK, References, OneHandle, Alive
<1> QED
    BY <1>1, <1>2, <1>3, <1>4, <1>5, <1>6, <1>7, <1>8, <1>9, <1>10, <1>11, <1>12, <1>13, <1>14, <1>15 DEF Next, Call

-----------------------------------------------------------------------------

LEMMA Invariant == Spec => []IndInv
<1>1. Init => IndInv
    BY ProcessAssumption
       DEF Init, IndInv, TypeOK, Unfinished, References, ClosedLast, OneHandle, Alive, Callers
<1>2. IndInv /\ [Next]_vars => IndInv'
    BY TypeStep, ReferencesStep, ClosedLastStep, OneHandleStep DEF IndInv
<1> QED
    BY <1>1, <1>2, PTL DEF Spec

(* Every variable has its type. *)
THEOREM ProcessTypeCorrect == Spec => []TypeOK
<1>1. IndInv => TypeOK
    BY DEF IndInv
<1> QED
    BY <1>1, Invariant, PTL

(* getPool(): however many callers find no pool at a time, they share one  *)
(* connect; only an 'error' event leaves pools behind.                     *)
THEOREM CallersShareOnePool == Spec => []OnePool
<1>1. IndInv => OnePool
    <2> SUFFICES ASSUME IndInv PROVE Cardinality(Alive \ disowned) <= 1
        BY DEF OnePool, Alive
    <2>1. CASE Alive \ disowned = {}
        BY <2>1, FS_EmptySet
    <2>2. CASE Alive \ disowned # {}
        <3>1. PICK p \in Alive \ disowned : TRUE
            BY <2>2
        <3>2. Alive \ disowned = {p}
            BY <3>1 DEF IndInv, OneHandle
        <3> QED
            BY <3>2, FS_Singleton
    <2> QED
        BY <2>1, <2>2
<1> QED
    BY <1>1, Invariant, PTL

(* server.js: a graceful shutdown answers every request it has accepted.   *)
THEOREM ShutdownAnswersAll == Spec => []NobodyCutOff
<1>1. IndInv => NobodyCutOff
    BY DEF IndInv, ClosedLast, NobodyCutOff, Drained
<1> QED
    BY <1>1, Invariant, PTL

(* What a caller does with what it holds. *)
LEMMA CallFacts ==
    ASSUME IndInv, NEW c \in Callers, Call(c)
    PROVE  \/ /\ pc[c] = "call" /\ pc'[c] \in {"await", "query"} /\ left'[c] = left[c]
              /\ state'[conn'[c]] \notin {"new", "failed"}
           \/ /\ pc[c] = "await" /\ pc'[c] = "query" /\ left'[c] = left[c]
           \/ /\ pc[c] = "await" /\ pc'[c] = "error" /\ left'[c] = 0
              /\ state[conn[c]] = "failed"
           \/ /\ pc[c] = "query" /\ left[c] > 1
              /\ pc'[c] \in {"call", "query"} /\ left'[c] = left[c] - 1
           \/ /\ pc[c] = "query" /\ pc'[c] = "ok" /\ left'[c] = 0
           \/ /\ pc[c] = "query" /\ pc'[c] = "error" /\ left'[c] = 0
              /\ c \in Jobs /\ shutdown = "closing"
           \/ /\ pc[c] = "query" /\ pc'[c] = "error" /\ left'[c] = 0
              /\ faults' # faults
<1>1. /\ pc \in [Callers -> {"new", "call", "await", "query", "ok", "error"}]
      /\ conn \in [Callers -> Pools \cup {Nil}] /\ left \in [Callers -> 0..MaxQueries]
      /\ state \in [Pools -> {"new", "connecting", "open", "failed", "closing", "closed"}]
      /\ pool \in Pools \cup {Nil} /\ poolPromise \in Pools \cup {Nil}
      /\ faults \in Nat
    BY ProcessAssumption DEF IndInv, TypeOK
<1>2. CASE UsePool(c)
    <2>1. /\ pc[c] = "call" /\ pc'[c] = "query" /\ left' = left
          /\ conn'[c] = pool /\ state' = state /\ state[pool] = "open"
        BY <1>1, <1>2 DEF UsePool, Use, Connected
    <2> QED
        BY <2>1
<1>3. CASE JoinConnect(c)
    <2>1. /\ pc[c] = "call" /\ pc'[c] = "await" /\ left' = left
          /\ conn'[c] = poolPromise /\ state' = state /\ poolPromise # Nil
        BY <1>1, <1>3 DEF JoinConnect, Use
    <2> QED
        BY <2>1 DEF IndInv, References
<1>4. ASSUME NEW p \in Pools, StartConnect(c, p)
      PROVE  /\ pc[c] = "call" /\ pc'[c] = "await" /\ left' = left
             /\ conn'[c] = p /\ state'[p] = "connecting"
    BY <1>1, <1>4 DEF StartConnect, Use
<1>5. CASE Resume(c)
    BY <1>1, <1>5 DEF Resume, End
<1>6. CASE Query(c)
    <2>1. CASE state[conn[c]] = "open"
        <3>1. left[c] \in Nat /\ left[c] > 0
            BY <1>1, <1>6, ProcessAssumption DEF Query, IndInv, Unfinished
        <3> QED
            BY <1>1, <1>6, <2>1, <3>1 DEF Query, End
    <2>2. CASE state[conn[c]] # "open"
        <3>1. /\ pc[c] = "query" /\ pc'[c] = "error" /\ left'[c] = 0
              /\ conn[c] \in Pools
            BY <1>1, <1>6, <2>2 DEF Query, End, IndInv, References
        <3>2. state[conn[c]] \in {"closing", "closed"}
            BY <2>2, <3>1 DEF IndInv, References
        <3>3. shutdown = "closing"
            BY <3>1, <3>2 DEF IndInv, ClosedLast
        <3>4. c \notin Requests
            BY <3>1, <3>3 DEF IndInv, ClosedLast, Drained, Answered
        <3> QED
            BY <3>1, <3>3, <3>4 DEF Callers
    <2> QED
        BY <2>1, <2>2
<1>7. CASE QueryFails(c)
    <2>1. pc[c] = "query" /\ faults' = faults + 1
        BY <1>7 DEF QueryFails
    <2>2. pc'[c] = "error" /\ left'[c] = 0
        BY <1>1, <1>7 DEF QueryFails, End
    <2> QED
        BY <1>1, <2>1, <2>2
<1> QED
    BY <1>2, <1>3, <1>4, <1>5, <1>6, <1>7 DEF Call

(* Nobody else touches what a caller holds. *)
LEMMA CallerAlone ==
    ASSUME IndInv, NEW c \in Callers, [Next]_vars, ~Call(c), ~Arrive(c)
    PROVE  UNCHANGED <<pc[c], conn[c], left[c]>>
<1>1. /\ pc \in [Callers -> {"new", "call", "await", "query", "ok", "error"}]
      /\ conn \in [Callers -> Pools \cup {Nil}] /\ left \in [Callers -> 0..MaxQueries]
    BY DEF IndInv, TypeOK
<1>2. ASSUME UNCHANGED callVars PROVE UNCHANGED <<pc[c], conn[c], left[c]>>
    BY <1>2 DEF callVars
<1>3. ASSUME NEW d \in Callers, d # c, Arrive(d) \/ Resume(d) \/ Query(d) \/ QueryFails(d)
      PROVE  UNCHANGED <<pc[c], conn[c], left[c]>>
    BY <1>1, <1>3 DEF Arrive, Resume, Query, QueryFails, End
<1>4. ASSUME NEW d \in Callers, d # c,
             UsePool(d) \/ JoinConnect(d) \/ \E p \in Pools : StartConnect(d, p)
      PROVE  UNCHANGED <<pc[c], conn[c], left[c]>>
    BY <1>1, <1>4 DEF UsePool, JoinConnect, StartConnect, Use
<1>5. ASSUME \/ \E p \in Pools : Open(p) \/ ConnectFails(p) \/ PoolError(p)
             \/ Signal \/ ClosePool \/ Exit \/ ForceExit \/ UNCHANGED vars
      PROVE  UNCHANGED callVars
    BY <1>5 DEF Open, ConnectFails, PoolError, Signal, ClosePool, Exit, ForceExit, vars
<1> QED
    BY <1>2, <1>3, <1>4, <1>5 DEF Next, Call

(* db.js: the promise of a connect that failed is given to no later call,  *)
(* and requests are refused over nothing else.                             *)
THEOREM FailuresAreForgotten == Spec => FailuresForgotten
<1>1. ASSUME IndInv, [Next]_vars, NEW c \in Callers
      PROVE  /\ pc[c] = "call" /\ pc'[c] # "call" => state'[conn'[c]] \notin {"new", "failed"}
             /\ pc[c] # "error" /\ pc'[c] = "error" =>
                    \/ pc[c] = "await" /\ state[conn[c]] = "failed"
                    \/ pc[c] = "query" /\ faults' # faults
                    \/ c \in Jobs /\ shutdown = "closing"
    <2>1. CASE Call(c)
        BY <1>1, <2>1, CallFacts
    <2>2. CASE Arrive(c)
        BY <1>1, <2>2 DEF Arrive, IndInv, TypeOK
    <2>3. CASE ~Call(c) /\ ~Arrive(c)
        BY <1>1, <2>3, CallerAlone
    <2> QED
        BY <2>1, <2>2, <2>3
<1>2. IndInv /\ [Next]_vars =>
          [\A c \in Callers :
              /\ pc[c] = "call" /\ pc'[c] # "call" => state'[conn'[c]] \notin {"new", "failed"}
              /\ pc[c] # "error" /\ pc'[c] = "error" =>
                     \/ pc[c] = "await" /\ state[conn[c]] = "failed"
                     \/ pc[c] = "query" /\ faults' # faults
                     \/ c \in Jobs /\ shutdown = "closing"]_vars
    BY <1>1
<1> QED
    BY <1>2, Invariant, PTL DEF Spec, FailuresForgotten

(* db.js, server.js: a request or a job needs at most three steps for each *)
(* of its queries, however often the pool is lost and made again.          *)
THEOREM CallsComeToAnEnd == Spec => CallsRunDown
<1>1. ASSUME IndInv, NEW c \in Callers, Call(c) PROVE Work(c)' < Work(c)
    <2>1. left[c] \in Nat /\ (pc[c] \in {"call", "await", "query"} => left[c] > 0)
        BY <1>1, ProcessAssumption DEF IndInv, TypeOK, Unfinished
    <2> QED
        BY <1>1, <2>1, CallFacts DEF Work
<1>2. IndInv /\ [Next]_vars =>
          [\A c \in Callers : pc[c] # "new" =>
              /\ Call(c) => Work(c)' < Work(c)
              /\ ~Call(c) => UNCHANGED <<pc[c], conn[c], left[c]>>]_vars
    <2>1. ASSUME NEW c \in Callers, Arrive(c) PROVE pc[c] = "new"
        BY <2>1 DEF Arrive
    <2> QED
        BY <1>1, <2>1, CallerAlone
<1> QED
    BY <1>2, Invariant, PTL DEF Spec, CallsRunDown

================================================================================
