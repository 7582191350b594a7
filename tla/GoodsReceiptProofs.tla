--------------------------- MODULE GoodsReceiptProofs ---------------------------
(***************************************************************************)
(* Proofs, for any number of requests, lines and quantities, of the        *)
(* properties of GoodsReceipt.  The numbers are sequential because of the  *)
(* lock: between the COUNT and the COMMIT no other transaction commits a   *)
(* number, so the count that was read is still the count.  The sign-off    *)
(* stands because a request that holds an outdated read always overlaps    *)
(* the one that overtook it.                                               *)
(*                                                                         *)
(* Header and ledger agree because they are sums of the same lines; that   *)
(* these sums are numbers at all is an induction.                          *)
(***************************************************************************)
EXTENDS GoodsReceipt, FiniteSetTheorems, WellFoundedInduction, TLAPS

-----------------------------------------------------------------------------
(* Numbers *)

States == {"new", "numbered", "committed", "aborted"}

NumberTypes ==
    /\ gstate \in [Creators -> States]
    /\ number \in [Creators -> Nat]
    /\ holder \in Creators \cup {None}

(* The transaction that counted holds the lock, and nobody else counted. *)
LockHeld == \A g \in Creators : gstate[g] = "numbered" <=> holder = g

(* What it counted still holds. *)
CountStands == \A g \in Creators : gstate[g] = "numbered" => number[g] = NextNumber

NumberInv == NumberTypes /\ LockHeld /\ CountStands /\ NumbersSequential

LEMMA CommittedFinite == IsFiniteSet(Committed) /\ Cardinality(Committed) \in Nat
<1>1. Committed \in SUBSET Creators
    BY DEF Committed
<1> QED
    BY <1>1, ReceiptAssumption, FS_Subset, FS_CardinalityType

LEMMA NumberInit == Init => NumberInv
<1> SUFFICES ASSUME Init PROVE NumberInv
    OBVIOUS
<1> USE DEF Init
<1>1. NumberTypes
    BY DEF NumberTypes, States
<1>2. LockHeld
    BY ReceiptAssumption DEF LockHeld
<1>3. CountStands
    BY DEF CountStands
<1>4. NumbersSequential
    <2>1. Committed = {}
        BY DEF Committed
    <2>2. Cardinality(Committed) = 0
        BY <2>1, FS_EmptySet
    <2>3. {number[g] : g \in Committed} = {} /\ 1..Cardinality(Committed) = {}
        BY <2>1, <2>2
    <2> QED
        BY <2>3 DEF NumbersSequential
<1> QED
    BY <1>1, <1>2, <1>3, <1>4 DEF NumberInv

(* The mintable number is not among the committed ones. *)
LEMMA NobodyTook ==
    ASSUME NumberInv, NEW g \in Creators, gstate[g] = "numbered" PROVE ~Taken(g)
<1>1. number[g] = Cardinality(Committed) + 1
    BY DEF NumberInv, CountStands, NextNumber
<1>2. \A h \in Committed : number[h] \in 1..Cardinality(Committed)
    BY DEF NumberInv, NumbersSequential
<1> QED
    BY <1>1, <1>2, CommittedFinite DEF Taken

(* TakeNumber(): what is committed stays as it is. *)
LEMMA TakeNumberStep ==
    ASSUME NumberInv, NEW g \in Creators, TakeNumber(g) PROVE NumberInv'
<1> USE DEF NumberInv, NumberTypes, TakeNumber, Lockable, States
<1>1. NumberTypes'
    BY CommittedFinite DEF NextNumber
<1>2. Committed' = Committed /\ g \notin Committed
    BY DEF Committed
<1>3. LockHeld'
    BY ReceiptAssumption DEF LockHeld
<1>4. CountStands'
    <2> SUFFICES ASSUME NEW h \in Creators, gstate'[h] = "numbered"
                 PROVE  number'[h] = Cardinality(Committed') + 1
        BY DEF CountStands, NextNumber
    <2>1. h = g
        BY <1>3, ReceiptAssumption DEF LockHeld
    <2> QED
        BY <2>1, <1>2 DEF NextNumber
<1>5. NumbersSequential'
    <2>1. \A h \in Committed : number'[h] = number[h]
        BY <1>2 DEF Committed
    <2>2. {number'[h] : h \in Committed'} = {number[h] : h \in Committed}
        BY <1>2, <2>1
    <2> QED
        BY <1>2, <2>2 DEF NumbersSequential
<1> QED
    BY <1>1, <1>3, <1>4, <1>5

(* CreateGRN(): the counted number is the next one. *)
LEMMA CreateStep ==
    ASSUME NumberInv, NEW g \in Creators, NEW p \in Payloads, CreateGRN(g, p)
    PROVE  NumberInv'
<1> USE DEF NumberInv, NumberTypes, States
<1>0. /\ gstate[g] = "numbered" /\ gstate' = [gstate EXCEPT ![g] = "committed"]
      /\ number' = number /\ holder' = None /\ refused' = refused
    BY DEF CreateGRN
<1>1. NumberTypes'
    BY <1>0
<1>2. Committed' = Committed \cup {g} /\ g \notin Committed
    BY <1>0 DEF Committed
<1>3. Cardinality(Committed') = Cardinality(Committed) + 1
    BY <1>2, CommittedFinite, FS_AddElement
<1>4. holder = g /\ number[g] = Cardinality(Committed) + 1
    BY <1>0 DEF LockHeld, CountStands, NextNumber
<1>5. \A h \in Creators : gstate'[h] # "numbered"
    BY <1>0, <1>4 DEF LockHeld
<1>6. LockHeld' /\ CountStands'
    BY <1>0, <1>5, ReceiptAssumption DEF LockHeld, CountStands
<1>7. NumbersSequential'
    <2>1. {number'[h] : h \in Committed'} = {number[h] : h \in Committed} \cup {number[g]}
        BY <1>0, <1>2
    <2>2. {number[h] : h \in Committed} = 1..Cardinality(Committed) /\ ~refused
        BY DEF NumbersSequential
    <2>3. \A n \in Nat : (1..n) \cup {n + 1} = 1..(n + 1)
        OBVIOUS
    <2>4. {number'[h] : h \in Committed'} = 1..Cardinality(Committed')
        BY <2>1, <2>2, <2>3, <1>3, <1>4, CommittedFinite
    <2> QED
        BY <2>2, <2>4, <1>0 DEF NumbersSequential
<1> QED
    BY <1>1, <1>6, <1>7

(* AbortGRN(): the number goes back with the lock, unused. *)
LEMMA AbortStep ==
    ASSUME NumberInv, NEW g \in Creators, AbortGRN(g) PROVE NumberInv'
<1> USE DEF NumberInv, NumberTypes, States
<1>0. /\ gstate[g] = "numbered" /\ gstate' = [gstate EXCEPT ![g] = "aborted"]
      /\ number' = [number EXCEPT ![g] = 0] /\ holder' = None
      /\ refused' = (refused \/ Taken(g))
    BY DEF AbortGRN
<1>1. NumberTypes'
    BY <1>0
<1>2. Committed' = Committed /\ g \notin Committed
    BY <1>0 DEF Committed
<1>3. holder = g
    BY <1>0 DEF LockHeld
<1>4. \A h \in Creators : gstate'[h] # "numbered"
    BY <1>0, <1>3 DEF LockHeld
<1>5. LockHeld' /\ CountStands'
    BY <1>0, <1>4, ReceiptAssumption DEF LockHeld, CountStands
<1>6. NumbersSequential'
    <2>1. \A h \in Committed : number'[h] = number[h]
        BY <1>0, <1>2 DEF Committed
    <2>2. {number'[h] : h \in Committed'} = {number[h] : h \in Committed}
        BY <1>2, <2>1
    <2>3. ~refused'
        BY <1>0, NobodyTook DEF NumbersSequential
    <2> QED
        BY <1>2, <2>2, <2>3 DEF NumbersSequential
<1> QED
    BY <1>1, <1>5, <1>6

LEMMA NumberStep == NumberInv /\ [Next]_vars => NumberInv'
<1> SUFFICES ASSUME NumberInv, [Next]_vars PROVE NumberInv'
    OBVIOUS
<1>1. ASSUME UNCHANGED <<gstate, number, holder, refused>> PROVE NumberInv'
    BY <1>1 DEF NumberInv, NumberTypes, LockHeld, CountStands, NextNumber,
                NumbersSequential, Committed
<1>2. ASSUME NEW g \in Creators, TakeNumber(g) PROVE NumberInv'
    BY <1>2, TakeNumberStep
<1>3. ASSUME NEW g \in Creators, NEW p \in Payloads, CreateGRN(g, p) PROVE NumberInv'
    BY <1>3, CreateStep
<1>4. ASSUME NEW g \in Creators, AbortGRN(g) PROVE NumberInv'
    BY <1>4, AbortStep
<1>5. ASSUME NEW r \in Signers,
             (\E g \in Creators, n \in Notes : ReadGRN(r, g, n)) \/ SignOff(r) \/ SignOffFails(r)
      PROVE  NumberInv'
    BY <1>1, <1>5 DEF ReadGRN, SignOff, SignOffFails, createVars
<1>6. ASSUME NEW m \in Movers, RecordStockMovement(m) PROVE NumberInv'
    BY <1>1, <1>6 DEF RecordStockMovement, createVars
<1>7. CASE UNCHANGED vars
    BY <1>1, <1>7 DEF vars, createVars
<1> QED
    BY <1>2, <1>3, <1>4, <1>5, <1>6, <1>7 DEF Next

(* docNumbers.js: however many requests create receipts at a time, and     *)
(* however many of them roll back, the numbers of the day are 1, 2, 3, ... *)
(* and the UNIQUE index refuses none.                                      *)
THEOREM NumbersHaveNoGap == Spec => []NumbersSequential
<1>1. NumberInv => NumbersSequential
    BY DEF NumberInv
<1> QED
    BY <1>1, NumberInit, NumberStep, PTL DEF Spec

-----------------------------------------------------------------------------
(* The sign-off *)

SignTypes ==
    /\ signed \subseteq Committed
    /\ note \in [Creators -> Notes]
    /\ published \in [Creators -> [signed : BOOLEAN, note : Notes]]
    /\ pc \in [Signers -> {"new", "write", "done"}]
    /\ job \in [Signers -> [grn : Creators \cup {None}, note : Notes]]

(* A request about to write has a committed GRN before it, the others none. *)
JobInHand ==
    \A r \in Signers : IF pc[r] = "write" THEN job[r].grn \in Committed
                       ELSE job[r].grn = None

(* Two requests with the same GRN in hand overlap. *)
SharedIsContended ==
    \A r, q \in Signers :
        r # q /\ job[r].grn # None /\ job[r].grn = job[q].grn => job[r].grn \in contended

(* Nobody holds a GRN that is signed off, unless requests overlapped, and  *)
(* the devices were sent what the row says.                                *)
SignedIsOver ==
    /\ \A g \in signed \ contended, r \in Signers : job[r].grn # g
    /\ \A g \in signed : published[g] = [signed |-> TRUE, note |-> note[g]]

SignInv == SignTypes /\ JobInHand /\ SharedIsContended /\ SignedIsOver

LEMMA SignInit == Init => SignInv
BY ReceiptAssumption
   DEF Init, SignInv, SignTypes, JobInHand, SharedIsContended, SignedIsOver, Committed,
       Unsigned, Notes

(* createGRN() goes on beside the sign-offs: what is committed stays so.   *)
LEMMA OthersKeepSign ==
    ASSUME NumberInv, SignInv, UNCHANGED signVars,
           \A g \in Creators : gstate[g] = "committed" => gstate'[g] = "committed"
    PROVE  SignInv'
<1>1. Committed \subseteq Committed'
    BY DEF Committed
<1> QED
    BY <1>1 DEF SignInv, SignTypes, JobInHand, SharedIsContended, SignedIsOver, signVars

(* ReadGRN(): a GRN somebody has in hand becomes contended. *)
LEMMA ReadStep ==
    ASSUME SignInv, NEW r \in Signers, NEW g \in Creators, NEW n \in Notes, ReadGRN(r, g, n)
    PROVE  SignInv'
<1> USE DEF SignInv, SignTypes
<1>0. /\ pc[r] = "new" /\ UNCHANGED <<signed, note, published>> /\ Committed' = Committed
      /\ job[r].grn = None
    BY DEF ReadGRN, createVars, Committed, JobInHand
<1>1. CASE ~Signable(g)
    <2>1. pc' = [pc EXCEPT ![r] = "done"] /\ UNCHANGED <<job, contended>>
        BY <1>1 DEF ReadGRN
    <2>2. SignTypes' /\ JobInHand'
        BY <1>0, <2>1 DEF JobInHand
    <2> QED
        BY <1>0, <2>1, <2>2 DEF SharedIsContended, SignedIsOver
<1>2. CASE Signable(g)
    <2>1. /\ pc' = [pc EXCEPT ![r] = "write"]
          /\ job' = [job EXCEPT ![r] = [grn |-> g, note |-> n]]
          /\ contended \subseteq contended'
          /\ (\E q \in Signers : job[q].grn = g) => g \in contended'
          /\ g \in Committed /\ g \notin signed
        BY <1>2 DEF ReadGRN, Signable
    <2>2. \A q \in Signers : job'[q].grn = IF q = r THEN g ELSE job[q].grn
        BY <2>1
    <2>3. SignTypes' /\ JobInHand'
        BY <1>0, <2>1 DEF JobInHand
    <2>4. SharedIsContended'
        BY <2>1, <2>2 DEF SharedIsContended
    <2>5. SignedIsOver'
        BY <1>0, <2>1, <2>2 DEF SignedIsOver
    <2> QED
        BY <2>3, <2>4, <2>5
<1> QED
    BY <1>1, <1>2

(* What a request that ends leaves behind. *)
LEMMA OverFrees ==
    ASSUME SignInv, NEW r \in Signers, Over(r), Committed' = Committed
    PROVE  /\ pc' \in [Signers -> {"new", "write", "done"}]
           /\ job' \in [Signers -> [grn : Creators \cup {None}, note : Notes]]
           /\ JobInHand' /\ SharedIsContended'
           /\ \A q \in Signers : job'[q].grn = IF q = r THEN None ELSE job[q].grn
<1> USE DEF SignInv, SignTypes
<1>1. /\ pc' = [pc EXCEPT ![r] = "done"]
      /\ job' = [job EXCEPT ![r] = [grn |-> None, note |-> 0]]
      /\ contended' = contended
    BY DEF Over
<1>2. \A q \in Signers : job'[q].grn = IF q = r THEN None ELSE job[q].grn
    BY <1>1
<1>3. JobInHand'
    BY <1>1, <1>2 DEF JobInHand
<1>4. SharedIsContended'
    BY <1>1, <1>2 DEF SharedIsContended
<1> QED
    BY <1>1, <1>2, <1>3, <1>4 DEF Notes

(* SignOff(): whoever else has this GRN in hand has overlapped with it. *)
LEMMA SignOffStep ==
    ASSUME SignInv, NEW r \in Signers, SignOff(r) PROVE SignInv'
<1> USE DEF SignInv, SignTypes
<1> DEFINE g == job[r].grn
<1>0. Over(r) /\ Committed' = Committed /\ contended' = contended
    BY DEF SignOff, Over, createVars, Committed
<1>1. g \in Committed /\ g \in Creators /\ g # None
    BY <1>0, ReceiptAssumption DEF Over, JobInHand, Committed
<1>2. /\ signed' = signed \cup {g}
      /\ note' = [note EXCEPT ![g] = job[r].note]
      /\ published' = [published EXCEPT ![g] = [signed |-> TRUE, note |-> job[r].note]]
    BY <1>1 DEF SignOff, Snapshot
<1>3. SignTypes'
    BY <1>0, <1>1, <1>2, OverFrees
<1>4. SignedIsOver'
    <2> SUFFICES ASSUME NEW h \in signed'
                 PROVE  /\ h \notin contended => \A q \in Signers : job'[q].grn # h
                        /\ published'[h] = [signed |-> TRUE, note |-> note'[h]]
        BY <1>0 DEF SignedIsOver
    <2>1. h \in Creators /\ h # None
        BY <1>1, <1>2, ReceiptAssumption DEF Committed
    <2>2. CASE h = g
        <3>1. h \notin contended => \A q \in Signers : q # r => job[q].grn # g
            BY <1>1, <2>2 DEF SharedIsContended
        <3>2. \A q \in Signers : job'[q].grn = IF q = r THEN None ELSE job[q].grn
            BY <1>0, OverFrees
        <3>3. h \notin contended => \A q \in Signers : job'[q].grn # h
            BY <1>1, <2>2, <3>1, <3>2
        <3>4. published'[h] = [signed |-> TRUE, note |-> note'[h]]
            BY <1>1, <1>2, <2>2
        <3> QED
            BY <3>3, <3>4
    <2>3. CASE h # g
        <3>1. h \in signed
            BY <1>2, <2>3
        <3>2. h \notin contended => \A q \in Signers : job'[q].grn # h
            BY <1>0, <2>1, <3>1, OverFrees DEF SignedIsOver
        <3>3. published'[h] = published[h] /\ note'[h] = note[h]
            BY <1>2, <2>1, <2>3
        <3> QED
            BY <3>1, <3>2, <3>3 DEF SignedIsOver
    <2> QED
        BY <2>2, <2>3
<1> QED
    BY <1>0, <1>3, <1>4, OverFrees

LEMMA SignFailsStep ==
    ASSUME SignInv, NEW r \in Signers, SignOffFails(r) PROVE SignInv'
<1>0. /\ Over(r) /\ Committed' = Committed
      /\ UNCHANGED <<signed, note, published, contended>>
    BY DEF SignOffFails, Over, createVars, Committed
<1>1. SignTypes'
    BY <1>0, OverFrees DEF SignInv, SignTypes
<1>2. SignedIsOver'
    BY <1>0, OverFrees, ReceiptAssumption DEF SignInv, SignTypes, SignedIsOver, Committed
<1> QED
    BY <1>0, <1>1, <1>2, OverFrees DEF SignInv

LEMMA SignStep == NumberInv /\ SignInv /\ [Next]_vars => SignInv'
<1> SUFFICES ASSUME NumberInv, SignInv, [Next]_vars PROVE SignInv'
    OBVIOUS
<1> USE DEF NumberInv, NumberTypes, States
<1>1. ASSUME NEW g \in Creators, TakeNumber(g) PROVE SignInv'
    BY <1>1, OthersKeepSign DEF TakeNumber
<1>2. ASSUME NEW g \in Creators, NEW p \in Payloads, CreateGRN(g, p) PROVE SignInv'
    BY <1>2, OthersKeepSign DEF CreateGRN
<1>3. ASSUME NEW g \in Creators, AbortGRN(g) PROVE SignInv'
    BY <1>3, OthersKeepSign DEF AbortGRN
<1>4. ASSUME NEW r \in Signers, NEW g \in Creators, NEW n \in Notes, ReadGRN(r, g, n)
      PROVE  SignInv'
    BY <1>4, ReadStep
<1>5. ASSUME NEW r \in Signers, SignOff(r) \/ SignOffFails(r) PROVE SignInv'
    BY <1>5, SignOffStep, SignFailsStep
<1>6. ASSUME NEW m \in Movers, RecordStockMovement(m) PROVE SignInv'
    BY <1>6, OthersKeepSign DEF RecordStockMovement, createVars
<1>7. CASE UNCHANGED vars
    BY <1>7, OthersKeepSign DEF vars, createVars
<1> QED
    BY <1>1, <1>2, <1>3, <1>4, <1>5, <1>6, <1>7 DEF Next

(* The write of an overtaken request falls on a contended GRN, and what is *)
(* written is published with it.                                           *)
LEMMA StandsStep ==
    SignInv /\ SignInv' /\ [Next]_vars =>
        [\A g \in signed :
            /\ g \in signed' /\ published'[g] = [signed |-> TRUE, note |-> note'[g]]
            /\ g \notin contended => note'[g] = note[g]]_vars
<1> SUFFICES ASSUME SignInv, SignInv', Next, NEW g \in signed
             PROVE  /\ g \in signed'
                    /\ published'[g] = [signed |-> TRUE, note |-> note'[g]]
                    /\ g \notin contended => note'[g] = note[g]
    OBVIOUS
<1> USE DEF SignInv
<1>1. CASE UNCHANGED <<signed, note>>
    BY <1>1 DEF SignedIsOver
<1>2. ASSUME NEW r \in Signers, SignOff(r)
      PROVE  g \in signed' /\ (g \notin contended => note'[g] = note[g])
    <2>1. g \notin contended => job[r].grn # g
        BY DEF SignedIsOver
    <2>2. note \in [Creators -> Notes] /\ g \in Creators
        BY DEF SignTypes, Committed
    <2> QED
        BY <1>2, <2>1, <2>2 DEF SignOff
<1>3. (\E r \in Signers : SignOff(r)) \/ UNCHANGED <<signed, note>>
    BY DEF Next, TakeNumber, CreateGRN, AbortGRN, ReadGRN, SignOffFails,
           RecordStockMovement, signVars
<1> QED
    BY <1>1, <1>2, <1>3 DEF SignedIsOver

(* signoffGRNFinance(): a sign-off does not replace the credit note of an  *)
(* earlier one it did not overlap with, and the devices are always told    *)
(* the note that stands in the row.                                        *)
THEOREM SignOffIsFinal == Spec => SignOffStands
<1>1. Spec => [](NumberInv /\ SignInv)
    BY NumberInit, NumberStep, SignInit, SignStep, PTL DEF Spec
<1> QED
    BY <1>1, StandsStep, PTL DEF Spec, SignOffStands

-----------------------------------------------------------------------------
(* Sums.  SumFunction is a recursive function: that a solution of its      *)
(* equation exists, and what it is bounded by, are inductions on the size  *)
(* of a set, done by looking at a smallest counterexample.                 *)

(* The least element of a set of naturals. *)
LEMMA SmallestOf ==
    ASSUME NEW T \in SUBSET Nat, T # {} PROVE \E n \in T : \A m \in T : n <= m
<1> DEFINE R == {ss \in Nat \X Nat : ss[1] < ss[2]}
<1>1. R = OpToRel(<, Nat)
    BY DEF OpToRel
<1>2. IsWellFoundedOn(R, Nat)
    BY <1>1, NatLessThanWellFounded
<1>3. \A m, n \in Nat : m < n => <<m, n>> \in R
    OBVIOUS
<1> HIDE DEF R
<1>4. PICK n \in T : \A m \in T : <<m, n>> \notin R
    BY <1>2, WFMin
<1>5. ASSUME NEW m \in T PROVE n <= m
    <2>1. n \in Nat /\ m \in Nat /\ ~(m < n)
        BY <1>3, <1>4
    <2> QED
        BY <2>1
<1> QED
    BY <1>4, <1>5

(* The recursive function of SumFunction, on the subsets of D. *)
IsSum(s, f, D) ==
    s = [S \in D |-> IF S = {} THEN 0
                     ELSE f[CHOOSE x \in S : TRUE] + s[S \ {CHOOSE x \in S : TRUE}]]

(* The subsets of Q with at most n elements. *)
Upto(Q, n) == {S \in SUBSET Q : Cardinality(S) <= n}

(* SumFunction is that function, at the whole set. *)
LEMMA SumUnfolds ==
    ASSUME NEW Q, NEW f \in [Q -> Int]
    PROVE  SumFunction(f) = (CHOOSE s : IsSum(s, f, SUBSET Q))[Q]
<1>1. DOMAIN f = Q
    OBVIOUS
<1> QED
    BY <1>1 DEF SumFunction, SumFunctionOnSet, FoldFunctionOnSet, MapThenFoldSet, IsSum

(* A set without the element the sum takes out of it. *)
LEMMA OneLess ==
    ASSUME NEW Q, IsFiniteSet(Q), NEW n \in Nat, NEW S \in SUBSET Q, S # {}, Cardinality(S) <= n + 1
    PROVE  /\ (CHOOSE x \in S : TRUE) \in S
           /\ S \ {CHOOSE x \in S : TRUE} \in Upto(Q, n)
           /\ Cardinality(S) = Cardinality(S \ {CHOOSE x \in S : TRUE}) + 1
<1> DEFINE x == CHOOSE x \in S : TRUE
<1>1. x \in S
    OBVIOUS
<1> HIDE DEF x
<1>2. IsFiniteSet(S) /\ IsFiniteSet(S \ {x}) /\ Cardinality(S) \in Nat /\ Cardinality(S \ {x}) \in Nat
    BY FS_Subset, FS_CardinalityType
<1>3. Cardinality(S \ {x}) = Cardinality(S) - 1
    BY <1>1, <1>2, FS_RemoveElement
<1>4. S \ {x} \in Upto(Q, n)
    BY <1>2, <1>3 DEF Upto
<1>5. Cardinality(S) = Cardinality(S \ {x}) + 1
    BY <1>2, <1>3
<1> QED
    BY <1>1, <1>4, <1>5 DEF x

(* The equation has a solution on larger sets if it has one on smaller ... *)
LEMMA SumGrows ==
    ASSUME NEW Q, IsFiniteSet(Q), NEW f \in [Q -> Int], NEW n \in Nat, NEW s,
           IsSum(s, f, Upto(Q, n))
    PROVE  \E t : IsSum(t, f, Upto(Q, n + 1))
<1> DEFINE c(S) == CHOOSE x \in S : TRUE
           t == [S \in Upto(Q, n + 1) |->
                    IF S \in Upto(Q, n) THEN s[S] ELSE f[c(S)] + s[S \ {c(S)}]]
           u == [S \in Upto(Q, n + 1) |-> IF S = {} THEN 0 ELSE f[c(S)] + t[S \ {c(S)}]]
<1>0. {} \in Upto(Q, n) /\ Upto(Q, n) \subseteq Upto(Q, n + 1)
    <2>1. \A S \in SUBSET Q : Cardinality(S) \in Nat
        BY FS_Subset, FS_CardinalityType
    <2> QED
        BY <2>1, FS_EmptySet DEF Upto
<1>1. ASSUME NEW S \in Upto(Q, n + 1) PROVE t[S] = u[S]
    <2>1. CASE S = {}
        BY <2>1, <1>0 DEF IsSum
    <2>2. CASE S # {}
        <3>1. S \ {c(S)} \in Upto(Q, n)
            BY <2>2, OneLess DEF Upto
        <3>2. t[S \ {c(S)}] = s[S \ {c(S)}]
            BY <3>1, <1>0
        <3>3. u[S] = f[c(S)] + s[S \ {c(S)}]
            BY <2>2, <3>2
        <3>4. S \in Upto(Q, n) => s[S] = f[c(S)] + s[S \ {c(S)}]
            BY <2>2 DEF IsSum
        <3> QED
            BY <3>3, <3>4
    <2> QED
        BY <2>1, <2>2
<1>2. t = u
    BY <1>1
<1> HIDE DEF t
<1> QED
    BY <1>2 DEF IsSum

(* ... so it has one, and CHOOSE finds it. *)
LEMMA SumExists ==
    ASSUME NEW Q, IsFiniteSet(Q), NEW f \in [Q -> Int]
    PROVE  \E s : IsSum(s, f, SUBSET Q)
<1> DEFINE T == {n \in Nat : ~ \E s : IsSum(s, f, Upto(Q, n))}
<1>1. T = {}
    <2> SUFFICES ASSUME T # {} PROVE FALSE
        OBVIOUS
    <2>1. PICK n \in T : \A m \in T : n <= m
        BY SmallestOf
    <2>2. n # 0
        <3> DEFINE z == [S \in {{}} |-> 0]
        <3>1. Upto(Q, 0) = {{}}
            BY FS_Subset, FS_CardinalityType, FS_EmptySet DEF Upto
        <3>2. IsSum(z, f, Upto(Q, 0))
            BY <3>1 DEF IsSum
        <3> QED
            BY <3>2
    <2>3. n - 1 \in Nat /\ n - 1 \notin T
        BY <2>1, <2>2
    <2>4. \E s : IsSum(s, f, Upto(Q, (n - 1) + 1))
        BY <2>3, SumGrows
    <2> QED
        BY <2>1, <2>4
<1>2. Cardinality(Q) \in Nat /\ Upto(Q, Cardinality(Q)) = SUBSET Q
    BY FS_Subset, FS_CardinalityType DEF Upto
<1>3. \E s : IsSum(s, f, Upto(Q, Cardinality(Q)))
    BY <1>1, <1>2
<1> QED
    BY <1>2, <1>3

(* The equation, at the set CHOOSE found a solution for. *)
LEMMA SumIs ==
    ASSUME NEW Q, IsFiniteSet(Q), NEW f \in [Q -> Int]
    PROVE  \E s : IsSum(s, f, SUBSET Q) /\ SumFunction(f) = s[Q]
BY SumExists, SumUnfolds

(* The sum of integers within a bound. *)
LEMMA SumBounds ==
    ASSUME NEW Q, IsFiniteSet(Q), NEW L \in Int, NEW M \in Int, NEW f \in [Q -> L..M]
    PROVE  SumFunction(f) \in (L * Cardinality(Q))..(M * Cardinality(Q))
<1>0. f \in [Q -> Int]
    OBVIOUS
<1>1. PICK s : IsSum(s, f, SUBSET Q) /\ SumFunction(f) = s[Q]
    BY <1>0, SumIs
<1> DEFINE T == {n \in Nat : \E S \in SUBSET Q :
                     Cardinality(S) = n /\ s[S] \notin (L * n)..(M * n)}
<1>2. T = {}
    <2> SUFFICES ASSUME T # {} PROVE FALSE
        OBVIOUS
    <2>1. PICK n \in T : \A m \in T : n <= m
        BY SmallestOf
    <2>2. PICK S \in SUBSET Q : Cardinality(S) = n /\ s[S] \notin (L * n)..(M * n)
        BY <2>1
    <2>3. CASE S = {}
        <3>1. s[S] = 0 /\ n = 0
            BY <1>1, <2>2, <2>3, FS_EmptySet DEF IsSum
        <3>2. L * 0 = 0 /\ M * 0 = 0
            OBVIOUS
        <3> QED
            BY <2>2, <3>1, <3>2
    <2>4. CASE S # {}
        <3> DEFINE x == CHOOSE x \in S : TRUE
                   k == n - 1
        <3>0. n # 0
            BY <2>2, <2>4, FS_Subset, FS_EmptySet
        <3>1. k \in Nat /\ n = k + 1
            BY <3>0
        <3>2. x \in S /\ S \ {x} \in SUBSET Q /\ Cardinality(S) = Cardinality(S \ {x}) + 1
            BY <2>2, <2>4, <3>1, OneLess
        <3>3. s[S] = f[x] + s[S \ {x}]
            BY <1>1, <2>4 DEF IsSum
        <3> HIDE DEF x, k
        <3>4. k \notin T
            BY <2>1, <3>1
        <3>5. Cardinality(S \ {x}) = k
            BY <3>1, <3>2, <2>2, FS_Subset, FS_CardinalityType
        <3>6. s[S \ {x}] \in (L * k)..(M * k)
            BY <3>1, <3>2, <3>4, <3>5
        <3>7. f[x] \in L..M
            BY <3>2
        <3>8. L * n = L * k + L /\ M * n = M * k + M /\ L * k \in Int /\ M * k \in Int
            BY <3>1
        <3> QED
            BY <2>2, <3>3, <3>6, <3>7, <3>8
    <2> QED
        BY <2>3, <2>4
<1>3. Cardinality(Q) \in Nat /\ Q \in SUBSET Q
    BY FS_CardinalityType
<1> QED
    BY <1>1, <1>2, <1>3

(* Nowhere smaller, so not smaller in sum. *)
LEMMA SumMonotone ==
    ASSUME NEW Q, IsFiniteSet(Q), NEW f \in [Q -> Int], NEW g \in [Q -> Int],
           \A x \in Q : f[x] <= g[x]
    PROVE  SumFunction(f) <= SumFunction(g)
<1>1. PICK s : IsSum(s, f, SUBSET Q) /\ SumFunction(f) = s[Q]
    BY SumIs
<1>2. PICK t : IsSum(t, g, SUBSET Q) /\ SumFunction(g) = t[Q]
    BY SumIs
<1> DEFINE Fine(S) == s[S] \in Int /\ t[S] \in Int /\ s[S] <= t[S]
           T == {n \in Nat : \E S \in SUBSET Q : Cardinality(S) = n /\ ~Fine(S)}
<1>3. T = {}
    <2> SUFFICES ASSUME T # {} PROVE FALSE
        OBVIOUS
    <2>1. PICK n \in T : \A m \in T : n <= m
        BY SmallestOf
    <2>2. PICK S \in SUBSET Q : Cardinality(S) = n /\ ~Fine(S)
        BY <2>1
    <2>3. CASE S = {}
        BY <1>1, <1>2, <2>2, <2>3 DEF IsSum
    <2>4. CASE S # {}
        <3> DEFINE x == CHOOSE x \in S : TRUE
                   k == n - 1
        <3>0. n # 0
            BY <2>2, <2>4, FS_Subset, FS_EmptySet
        <3>1. k \in Nat /\ n = k + 1
            BY <3>0
        <3>2. x \in S /\ S \ {x} \in SUBSET Q /\ Cardinality(S) = Cardinality(S \ {x}) + 1
            BY <2>2, <2>4, <3>1, OneLess
        <3>3. s[S] = f[x] + s[S \ {x}] /\ t[S] = g[x] + t[S \ {x}]
            BY <1>1, <1>2, <2>4 DEF IsSum
        <3> HIDE DEF x, k
        <3>4. k \notin T
            BY <2>1, <3>1
        <3>5. Cardinality(S \ {x}) = k
            BY <3>1, <3>2, <2>2, FS_Subset, FS_CardinalityType
        <3>6. Fine(S \ {x})
            BY <3>1, <3>2, <3>4, <3>5
        <3>7. f[x] \in Int /\ g[x] \in Int /\ f[x] <= g[x]
            BY <3>2
        <3> QED
            BY <2>2, <3>3, <3>6, <3>7
    <2> QED
        BY <2>3, <2>4
<1>4. Cardinality(Q) \in Nat /\ Q \in SUBSET Q
    BY FS_CardinalityType
<1> QED
    BY <1>1, <1>2, <1>3, <1>4

-----------------------------------------------------------------------------
(* Stock *)

StockTypes ==
    /\ number \in [Creators -> 0..Cardinality(Creators)]
    /\ header \in [Creators -> Headers]
    /\ receipts \in [Creators -> 0..MaxTotal] /\ manual \in Nat
    /\ mpc \in [Movers -> {"new", "recorded", "failed"}]
    /\ given \in [Creators -> SUBSET Totals]
    /\ refused \in BOOLEAN /\ contended \subseteq Creators

IndInv == NumberInv /\ SignInv /\ StockTypes /\ StockCoversHeader

LEMMA MaxTotalNat == MaxTotal \in Nat
<1>1. Cardinality(Lines) \in Nat /\ MaxQty \in Nat
    BY ReceiptAssumption, FS_CardinalityType
<1> QED
    BY <1>1 DEF MaxTotal

LEMMA LineQuantities ==
    ASSUME NEW p \in Payloads, NEW t \in Totals
    PROVE  [l \in Lines |-> p.lines[l][t]] \in [Lines -> -MaxQty..MaxQty]
<1>1. p.lines \in [Lines -> LineKinds]
    BY DEF Payloads
<1>2. LineKinds \subseteq [Totals -> -MaxQty..MaxQty]
    BY ReceiptAssumption DEF Totals
<1> QED
    BY <1>1, <1>2

LEMMA LineTotalBounds ==
    ASSUME NEW p \in Payloads, NEW t \in Totals PROVE LineTotal(p, t) \in Sums
<1>1. LineTotal(p, t) \in ((-MaxQty) * Cardinality(Lines))..(MaxQty * Cardinality(Lines))
    BY LineQuantities, SumBounds, ReceiptAssumption DEF LineTotal
<1>2. MaxQty \in Nat /\ Cardinality(Lines) \in Nat
    BY ReceiptAssumption, FS_CardinalityType
<1>3. (-MaxQty) * Cardinality(Lines) = -(MaxQty * Cardinality(Lines))
    BY <1>2
<1> QED
    BY <1>1, <1>3 DEF MaxTotal, Sums

(* What is booked is within the bound, and no less than what was received. *)
LEMMA BookedBounds ==
    ASSUME NEW p \in Payloads
    PROVE  Booked(p) \in 0..MaxTotal /\ LineTotal(p, "received") <= Booked(p)
<1> DEFINE f == [l \in Lines |-> p.lines[l]["received"]]
           m == [l \in Lines |-> Moving(p.lines[l]["received"])]
<1>0. MaxQty \in Nat /\ IsFiniteSet(Lines) /\ Cardinality(Lines) \in Nat
    BY ReceiptAssumption, FS_CardinalityType
<1>1. f \in [Lines -> -MaxQty..MaxQty]
    BY LineQuantities DEF Totals
<1>2. \A l \in Lines : f[l] \in -MaxQty..MaxQty /\ m[l] = Moving(f[l])
    BY <1>1
<1>3. \A l \in Lines : m[l] \in 0..MaxQty /\ f[l] <= m[l]
    BY <1>0, <1>2 DEF Moving
<1>4. m \in [Lines -> 0..MaxQty] /\ m \in [Lines -> Int] /\ f \in [Lines -> Int]
    BY <1>1, <1>3
<1>5. Booked(p) = SumFunction(m) /\ LineTotal(p, "received") = SumFunction(f)
    BY DEF Booked, LineTotal
<1> HIDE DEF f, m
<1>6. SumFunction(m) \in (0 * Cardinality(Lines))..(MaxQty * Cardinality(Lines))
    BY <1>0, <1>4, SumBounds
<1>7. SumFunction(f) <= SumFunction(m)
    BY <1>0, <1>3, <1>4, SumMonotone
<1> QED
    BY <1>0, <1>5, <1>6, <1>7 DEF MaxTotal

LEMMA StoredBounds ==
    ASSUME NEW p \in Payloads, NEW t \in Totals
    PROVE  /\ Stored(p, t) \in Sums /\ DOMAIN p.totals \in SUBSET Totals
           /\ t \notin DOMAIN p.totals => Stored(p, t) = LineTotal(p, t)
<1>1. PICK T \in GivenTotals : p \in [lines : [Lines -> LineKinds], totals : [T -> Sums]]
    BY DEF Payloads
<1>2. p.totals \in [T -> Sums] /\ T \subseteq Totals
    BY <1>1, ReceiptAssumption DEF Totals
<1> QED
    BY <1>2, LineTotalBounds DEF Stored

LEMMA StatusTypes ==
    ASSUME NEW p PROVE ReceiptStatus(p) \in {"PARTIAL", "COMPLETE", "REJECTED"}
BY DEF ReceiptStatus, Derive

LEMMA StockInit == Init => StockTypes /\ StockCoversHeader
<1> SUFFICES ASSUME Init PROVE StockTypes /\ StockCoversHeader
    OBVIOUS
<1>1. Committed = {}
    BY DEF Init, Committed
<1>2. Cardinality(Creators) \in Nat
    BY ReceiptAssumption, FS_CardinalityType
<1>3. NoHeader \in Headers
    BY MaxTotalNat DEF NoHeader, Headers, Sums
<1>4. 0 \in 0..Cardinality(Creators) /\ 0 \in 0..MaxTotal
    BY <1>2, MaxTotalNat
<1>5. StockTypes
    <2>1. header \in [Creators -> Headers]
        BY <1>3 DEF Init
    <2> QED
        BY <1>4, <2>1 DEF Init, StockTypes
<1> QED
    BY <1>1, <1>5 DEF StockCoversHeader

(* TakeNumber(): there are not more numbers than requests. *)
LEMMA StockTakeStep ==
    ASSUME IndInv, NEW g \in Creators, TakeNumber(g)
    PROVE  StockTypes' /\ StockCoversHeader'
<1> USE DEF IndInv, StockTypes
<1>1. /\ gstate[g] = "new" /\ gstate' = [gstate EXCEPT ![g] = "numbered"]
      /\ number' = [number EXCEPT ![g] = NextNumber]
      /\ UNCHANGED <<header, receipts, given, refused, contended, manual, mpc>>
    BY DEF TakeNumber, signVars, moveVars
<1>2. Committed' = Committed /\ g \notin Committed /\ Committed \in SUBSET Creators
    BY <1>1 DEF Committed, NumberInv, NumberTypes
<1>3. /\ Cardinality(Committed) \in Nat /\ Cardinality(Creators) \in Nat
      /\ Cardinality(Committed) < Cardinality(Creators)
    <2>1. Cardinality(Committed) \in Nat /\ Cardinality(Creators) \in Nat
        BY CommittedFinite, ReceiptAssumption, FS_CardinalityType
    <2>2. /\ Cardinality(Committed) <= Cardinality(Creators)
          /\ Cardinality(Committed) # Cardinality(Creators)
        BY <1>2, ReceiptAssumption, FS_Subset
    <2> QED
        BY <2>1, <2>2
<1>4. NextNumber \in 0..Cardinality(Creators)
    BY <1>3 DEF NextNumber
<1>5. StockTypes'
    BY <1>1, <1>4
<1>6. StockCoversHeader'
    BY <1>1, <1>2 DEF StockCoversHeader
<1> QED
    BY <1>5, <1>6

(* CreateGRN(): header, status and movements come from operands of their   *)
(* own, and the movements come out on top.                                 *)
LEMMA StockCreateStep ==
    ASSUME IndInv, NEW g \in Creators, NEW p \in Payloads, CreateGRN(g, p)
    PROVE  StockTypes' /\ StockCoversHeader'
<1> USE DEF IndInv, StockTypes
<1> DEFINE h == [status |-> ReceiptStatus(p), invoiced |-> Stored(p, "invoiced"),
                 received |-> Stored(p, "received"), rejected |-> Stored(p, "rejected")]
<1>1. /\ gstate' = [gstate EXCEPT ![g] = "committed"]
      /\ header' = [header EXCEPT ![g] = h]
      /\ receipts' = [receipts EXCEPT ![g] = Booked(p)]
      /\ given' = [given EXCEPT ![g] = DOMAIN p.totals]
      /\ UNCHANGED <<number, refused, contended, manual, mpc>>
    BY DEF CreateGRN, signVars, moveVars
<1>2. /\ Stored(p, "invoiced") \in Sums /\ Stored(p, "received") \in Sums
      /\ Stored(p, "rejected") \in Sums /\ DOMAIN p.totals \in SUBSET Totals
    BY StoredBounds DEF Totals
<1>3. Booked(p) \in 0..MaxTotal /\ LineTotal(p, "received") <= Booked(p)
    BY BookedBounds
<1>4. h \in Headers
    BY <1>2, StatusTypes DEF Headers
<1>5. StockTypes'
    <2> HIDE DEF h
    <2> QED
        BY <1>1, <1>2, <1>3, <1>4
<1>6. /\ gstate \in [Creators -> States] /\ Committed' = Committed \cup {g}
      /\ \A c \in Committed : c \in Creators
    BY <1>1 DEF Committed, NumberInv, NumberTypes
<1>7. StockCoversHeader'
    <2> SUFFICES ASSUME NEW c \in Committed'
                 PROVE  /\ "received" \notin given'[c] => header'[c].received <= receipts'[c]
                        /\ given'[c] = {} /\ header'[c].status = "COMPLETE"
                               => header'[c].invoiced <= receipts'[c] + header'[c].rejected
        BY DEF StockCoversHeader
    <2>1. CASE c # g
        <3>1. /\ c \in Committed /\ given'[c] = given[c] /\ receipts'[c] = receipts[c]
              /\ header'[c] = header[c]
            BY <1>1, <1>6, <2>1
        <3> QED
            BY <3>1 DEF StockCoversHeader
    <2>2. CASE c = g
        <3>1. given'[c] = DOMAIN p.totals /\ receipts'[c] = Booked(p) /\ header'[c] = h
            BY <1>1, <2>2
        <3>2. "received" \notin DOMAIN p.totals =>
                  Stored(p, "received") = LineTotal(p, "received")
            BY StoredBounds DEF Totals
        <3>3. ASSUME DOMAIN p.totals = {}, ReceiptStatus(p) = "COMPLETE"
              PROVE  Stored(p, "invoiced") <= Booked(p) + Stored(p, "rejected")
            <4>1. /\ Stored(p, "invoiced") = LineTotal(p, "invoiced")
                  /\ Stored(p, "rejected") = LineTotal(p, "rejected")
                BY <3>3, StoredBounds DEF Totals
            <4>2. Derive(LineTotal(p, "invoiced"), LineTotal(p, "received"),
                         LineTotal(p, "rejected")) = "COMPLETE"
                BY <3>3 DEF ReceiptStatus
            <4>3. ASSUME NEW i \in Int, NEW r \in Int, NEW x \in Int,
                         Derive(i, r, x) = "COMPLETE"
                  PROVE  i <= r + x
                BY <4>3 DEF Derive
            <4>4. /\ LineTotal(p, "invoiced") \in Int /\ LineTotal(p, "received") \in Int
                  /\ LineTotal(p, "rejected") \in Int
                BY LineTotalBounds DEF Totals, Sums
            <4>5. LineTotal(p, "invoiced") <= LineTotal(p, "received") + LineTotal(p, "rejected")
                BY <4>2, <4>3, <4>4
            <4> QED
                BY <1>3, <4>1, <4>4, <4>5
        <3> QED
            BY <1>3, <3>1, <3>2, <3>3
    <2> QED
        BY <2>1, <2>2
<1> QED
    BY <1>5, <1>7

LEMMA StockAbortStep ==
    ASSUME IndInv, NEW g \in Creators, AbortGRN(g)
    PROVE  StockTypes' /\ StockCoversHeader'
<1> USE DEF IndInv, StockTypes
<1>1. /\ gstate[g] = "numbered" /\ gstate' = [gstate EXCEPT ![g] = "aborted"]
      /\ number' = [number EXCEPT ![g] = 0] /\ refused' \in BOOLEAN
      /\ UNCHANGED <<header, receipts, given, contended, manual, mpc>>
    BY DEF AbortGRN, signVars, moveVars
<1>2. Committed' = Committed
    BY <1>1 DEF Committed, NumberInv, NumberTypes
<1>3. 0 \in 0..Cardinality(Creators)
    BY ReceiptAssumption, FS_CardinalityType
<1> QED
    BY <1>1, <1>2, <1>3 DEF StockCoversHeader

LEMMA StockStep == IndInv /\ [Next]_vars => StockTypes' /\ StockCoversHeader'
<1> SUFFICES ASSUME IndInv, [Next]_vars PROVE StockTypes' /\ StockCoversHeader'
    OBVIOUS
<1> USE DEF IndInv
<1>1. ASSUME UNCHANGED createVars, manual' = manual, contended' \subseteq Creators,
             mpc' \in [Movers -> {"new", "recorded", "failed"}]
      PROVE  StockTypes' /\ StockCoversHeader'
    BY <1>1 DEF StockTypes, StockCoversHeader, Committed, createVars
<1>2. ASSUME NEW g \in Creators,
             TakeNumber(g) \/ (\E p \in Payloads : CreateGRN(g, p)) \/ AbortGRN(g)
      PROVE  StockTypes' /\ StockCoversHeader'
    BY <1>2, StockTakeStep, StockCreateStep, StockAbortStep
<1>3. ASSUME NEW r \in Signers, NEW g \in Creators, NEW n \in Notes, ReadGRN(r, g, n)
      PROVE  StockTypes' /\ StockCoversHeader'
    BY <1>1, <1>3 DEF ReadGRN, StockTypes, moveVars
<1>4. ASSUME NEW r \in Signers, SignOff(r) \/ SignOffFails(r)
      PROVE  StockTypes' /\ StockCoversHeader'
    BY <1>1, <1>4 DEF SignOff, SignOffFails, Over, StockTypes, moveVars
<1>5. ASSUME NEW m \in Movers, RecordStockMovement(m)
      PROVE  StockTypes' /\ StockCoversHeader'
    BY <1>1, <1>5 DEF RecordStockMovement, StockTypes, signVars
<1>6. CASE UNCHANGED vars
    BY <1>1, <1>6 DEF vars, signVars, moveVars, StockTypes
<1> QED
    BY <1>2, <1>3, <1>4, <1>5, <1>6 DEF Next

LEMMA Invariant == Spec => []IndInv
BY NumberInit, NumberStep, SignInit, SignStep, StockInit, StockStep, PTL DEF Spec, IndInv

(* Every variable has its type: the sums of the lines, too. *)
THEOREM ReceiptTypeCorrect == Spec => []TypeOK
<1>1. IndInv => TypeOK
    <2> SUFFICES ASSUME IndInv PROVE TypeOK
        OBVIOUS
    <2>1. NumberTypes
        BY DEF IndInv, NumberInv
    <2>2. SignTypes
        BY DEF IndInv, SignInv
    <2>3. StockTypes
        BY DEF IndInv
    <2> QED
        BY <2>1, <2>2, <2>3 DEF NumberTypes, States, SignTypes, StockTypes, TypeOK
<1> QED
    BY <1>1, Invariant, PTL

(* createGRN(): what a header with a received total of its own making says *)
(* is in stock, and COMPLETE means that stock and rejections cover the     *)
(* invoice, whatever lines and quantities of either sign it has.           *)
THEOREM StockCoversReceipts == Spec => []StockCoversHeader
<1>1. IndInv => StockCoversHeader
    BY DEF IndInv
<1> QED
    BY <1>1, Invariant, PTL

=============================================================================
