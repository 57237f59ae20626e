-------------------------- MODULE LifecycleProofs --------------------------
(***************************************************************************)
(* The abstract lifecycle keeps the rules the engine exists for.           *)
(***************************************************************************)
EXTENDS RefundLifecycle, MoneyProofs

Inv == LifecycleTypeOK /\ LifecycleSafe

(* With no refunds every charge has room.                                  *)
LEMMA LifecycleInitSafe ==
  ASSUME Captured \in [Charge -> Nat]
  PROVE  LifecycleInit => Inv
<1> SUFFICES ASSUME LifecycleInit PROVE Inv
  OBVIOUS
<1>1. LifecycleTypeOK
  BY DEF LifecycleInit, LifecycleTypeOK, Stage
<1>2. ASSUME NEW c \in Charge PROVE Sum(Committed(c)) <= Captured[c]
  <2>1. Committed(c) = {} /\ Cents({}) = {}
    BY DEF LifecycleInit, Committed, Cents
  <2>2. Sum({}) = 0
    BY <2>1, FS_EmptySet DEF Sum
  <2> QED BY <2>1, <2>2
<1>3. \A r \in Refund : state[r] = "none" /\ r \notin paid
  BY DEF LifecycleInit
<1>4. payments = Cardinality(paid)
  BY FS_EmptySet DEF LifecycleInit
<1> QED BY <1>1, <1>2, <1>3, <1>4 DEF Inv, LifecycleSafe

(* Accepting a refund uses up no more than the room its charge has left.   *)
LEMMA AcceptSafe ==
  ASSUME Captured \in [Charge -> Nat], ChargeOf \in [Refund -> Charge],
         LifecycleTypeOK, LifecycleSafe, NEW r \in Refund, Accept(r), NEW c \in Charge
  PROVE  Sum(Committed(c)') <= Captured[c]
<1>1. \A q \in Refund \ {r} : state'[q] = state[q]
  BY DEF Accept, LifecycleTypeOK
<1>2. Sum(Committed(c)) <= Captured[c]
  BY DEF LifecycleSafe
<1>3. CASE ChargeOf[r] # c
  <2>1. Committed(c)' = Committed(c)
    BY <1>1, <1>3 DEF Committed
  <2> QED BY <1>2, <2>1
<1>4. CASE ChargeOf[r] = c
  <2>1. Committed(c)' \subseteq Committed(c) \cup {r} /\ Committed(c) \in SUBSET Refund
    BY <1>1 DEF Committed
  <2>2. Committed(c) \cup {r} \in SUBSET Refund
    BY <2>1
  <2>3. Sum(Committed(c)') <= Sum(Committed(c) \cup {r})
    BY <2>1, <2>2, SumMonotone
  <2>4. Amount[r] > 0 /\ Amount[r] \in Int /\ Amount[r] <= Captured[c] - Sum(Committed(c))
    BY <1>4, AmountType DEF Accept
  <2>5. Sum(Committed(c) \cup {r}) <= Sum(Committed(c)) + Amount[r]
    BY <2>1, <2>4, SumAddOne
  <2>6. /\ Sum(Committed(c)') \in Nat /\ Sum(Committed(c)) \in Nat
        /\ Sum(Committed(c) \cup {r}) \in Nat /\ Captured[c] \in Nat
    BY <2>1, <2>2, SumNat
  <2> QED BY <2>3, <2>4, <2>5, <2>6
<1> QED BY <1>3, <1>4

(* Once accepted, a refund never takes more room than it did.              *)
LEMMA OthersSafe ==
  ASSUME Captured \in [Charge -> Nat], LifecycleTypeOK, LifecycleSafe, NEW c \in Charge,
         \A q \in Refund : \/ state'[q] = state[q]
                           \/ state[q] \notin {"none", "failed"}
  PROVE  Sum(Committed(c)') <= Captured[c]
<1>1. Committed(c)' \subseteq Committed(c) /\ Committed(c) \in SUBSET Refund
  BY DEF Committed
<1>2. Sum(Committed(c)') <= Sum(Committed(c)) /\ Sum(Committed(c)) <= Captured[c]
  BY <1>1, SumMonotone DEF LifecycleSafe
<1>3. Sum(Committed(c)') \in Nat /\ Sum(Committed(c)) \in Nat /\ Captured[c] \in Nat
  BY <1>1, SumNat
<1> QED BY <1>2, <1>3

(* Every decision keeps the rules.                                         *)
LEMMA LifecycleNextSafe ==
  ASSUME Captured \in [Charge -> Nat], ChargeOf \in [Refund -> Charge],
         Inv, [LifecycleNext]_lifecycleVars
  PROVE  Inv'
<1> USE DEF Inv
<1>1. ASSUME NEW r \in Refund, Accept(r) PROVE Inv'
  <2>1. LifecycleTypeOK'
    BY <1>1 DEF Accept, LifecycleTypeOK, Stage
  <2>2. \A c \in Charge : Sum(Committed(c)') <= Captured[c]
    BY <1>1, AcceptSafe
  <2>3. ASSUME NEW q \in Refund
        PROVE  /\ Large(q) /\ state'[q] \notin {"none", "held"}
                    => \E a \in approvers'[q] : a # Requester[q]
               /\ q \in paid' => state'[q] \notin {"none", "held"}
    BY <1>1 DEF Accept, LifecycleSafe, LifecycleTypeOK
  <2>4. (payments = Cardinality(paid))'
    BY <1>1 DEF Accept, LifecycleSafe
  <2> QED BY <2>1, <2>2, <2>3, <2>4 DEF LifecycleSafe, Large
<1>2. ASSUME NEW r \in Refund, NEW a \in Actor, Release(r, a) PROVE Inv'
  <2>1. LifecycleTypeOK'
    BY <1>2 DEF Release, LifecycleTypeOK, Stage
  <2>2. \A c \in Charge : Sum(Committed(c)') <= Captured[c]
    BY <1>2, OthersSafe DEF Release, LifecycleTypeOK
  <2>3. a \in approvers'[r] /\ \A q \in Refund : approvers[q] \subseteq approvers'[q]
    BY <1>2 DEF Release, LifecycleTypeOK
  <2>4. ASSUME NEW q \in Refund
        PROVE  /\ Large(q) /\ state'[q] \notin {"none", "held"}
                    => \E b \in approvers'[q] : b # Requester[q]
               /\ q \in paid' => state'[q] \notin {"none", "held"}
    BY <1>2, <2>3 DEF Release, LifecycleSafe, LifecycleTypeOK
  <2>5. (payments = Cardinality(paid))'
    BY <1>2 DEF Release, LifecycleSafe
  <2> QED BY <2>1, <2>2, <2>4, <2>5 DEF LifecycleSafe, Large
<1>3. ASSUME NEW r \in Refund, Pay(r) PROVE Inv'
  <2>1. LifecycleTypeOK'
    BY <1>3 DEF Pay, LifecycleTypeOK
  <2>2. \A c \in Charge : Sum(Committed(c)') <= Captured[c]
    BY <1>3, OthersSafe DEF Pay
  <2>3. ASSUME NEW q \in Refund
        PROVE  /\ Large(q) /\ state'[q] \notin {"none", "held"}
                    => \E a \in approvers'[q] : a # Requester[q]
               /\ q \in paid' => state'[q] \notin {"none", "held"}
    BY <1>3 DEF Pay, LifecycleSafe
  <2>4. IsFiniteSet(paid) /\ r \notin paid
    BY <1>3, AmountType, FS_Subset DEF Pay, LifecycleTypeOK
  <2>5. (payments = Cardinality(paid))'
    BY <1>3, <2>4, FS_AddElement DEF Pay, LifecycleSafe
  <2> QED BY <2>1, <2>2, <2>3, <2>5 DEF LifecycleSafe, Large
<1>4. ASSUME NEW r \in Refund, NEW verdict \in {"settled", "failed"}, Conclude(r, verdict)
      PROVE  Inv'
  <2>1. LifecycleTypeOK'
    BY <1>4 DEF Conclude, LifecycleTypeOK, Stage
  <2>2. \A c \in Charge : Sum(Committed(c)') <= Captured[c]
    BY <1>4, OthersSafe DEF Conclude, LifecycleTypeOK
  <2>3. ASSUME NEW q \in Refund
        PROVE  /\ Large(q) /\ state'[q] \notin {"none", "held"}
                    => \E a \in approvers'[q] : a # Requester[q]
               /\ q \in paid' => state'[q] \notin {"none", "held"}
    BY <1>4 DEF Conclude, LifecycleSafe, LifecycleTypeOK
  <2>4. (payments = Cardinality(paid))'
    BY <1>4 DEF Conclude, LifecycleSafe
  <2> QED BY <2>1, <2>2, <2>3, <2>4 DEF LifecycleSafe, Large
<1>5. CASE UNCHANGED lifecycleVars
  BY <1>5 DEF lifecycleVars, LifecycleTypeOK, LifecycleSafe, Committed, Large
<1> QED BY <1>1, <1>2, <1>3, <1>4, <1>5 DEF LifecycleNext

(* The lifecycle never refunds a charge beyond what was captured, never    *)
(* pays a refund twice, never lets a large one go on without a second      *)
(* person, and pays only what was accepted.                                *)
THEOREM LifecycleIsSafe ==
  ASSUME Captured \in [Charge -> Nat], ChargeOf \in [Refund -> Charge]
  PROVE  LifecycleSpec => []LifecycleSafe
<1>1. Inv /\ [LifecycleNext]_lifecycleVars => Inv'
  BY LifecycleNextSafe
<1>2. LifecycleInit => Inv
  BY LifecycleInitSafe
<1>3. Inv => LifecycleSafe
  BY DEF Inv
<1> QED BY <1>1, <1>2, <1>3, PTL DEF LifecycleSpec
=============================================================================
