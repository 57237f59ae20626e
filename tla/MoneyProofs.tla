---------------------------- MODULE MoneyProofs ----------------------------
(***************************************************************************)
(* Sums of refund amounts: what the capacity proof needs of Sum.           *)
(***************************************************************************)
EXTENDS Money, FiniteSetTheorems, TLAPS

(* The cents of finitely many rows are finitely many.                      *)
LEMMA CentsFinite ==
  ASSUME NEW S \in SUBSET Refund
  PROVE  IsFiniteSet(Cents(S))
<1> DEFINE share(r) == {r} \X (1..Amount[r])
           Shares == {share(r) : r \in S}
           f == [r \in S |-> share(r)]
<1>1. IsFiniteSet(S)
  BY AmountType, FS_Subset
<1>2. \A r \in S : IsFiniteSet(share(r))
  <2> TAKE r \in S
  <2>1. IsFiniteSet(1..Amount[r])
    BY FS_Interval, AmountType
  <2>2. IsFiniteSet({r})
    BY FS_Singleton
  <2> QED BY <2>1, <2>2, FS_Product
<1>3. IsFiniteSet(Shares)
  <2>1. f \in Surjection(S, Shares)
    BY DEF Surjection
  <2> QED BY <1>1, <2>1, FS_Surjection
<1>4. \A s \in Shares : IsFiniteSet(s)
  BY <1>2
<1> QED BY <1>3, <1>4, FS_UNION DEF Cents

(* A sum of amounts is a number of cents.                                  *)
THEOREM SumNat ==
  ASSUME NEW S \in SUBSET Refund
  PROVE  Sum(S) \in Nat
BY CentsFinite, FS_CardinalityType DEF Sum

(* Leaving rows out never makes a sum larger.                              *)
THEOREM SumMonotone ==
  ASSUME NEW T \in SUBSET Refund, NEW S \in SUBSET T
  PROVE  Sum(S) <= Sum(T)
<1>1. Cents(S) \subseteq Cents(T)
  BY DEF Cents
<1> QED BY <1>1, CentsFinite, FS_Subset DEF Sum

(* One more row adds at most its amount.                                   *)
THEOREM SumAddOne ==
  ASSUME NEW S \in SUBSET Refund, NEW r \in Refund, Amount[r] > 0
  PROVE  Sum(S \cup {r}) <= Sum(S) + Amount[r]
<1> DEFINE share == {r} \X (1..Amount[r])
<1>1. Amount[r] \in Nat
  BY AmountType
<1>2. IsFiniteSet(1..Amount[r]) /\ Cardinality(1..Amount[r]) = Amount[r]
  <2> DEFINE n == Amount[r]
  <2>1. IsFiniteSet(1..n) /\ Cardinality(1..n) = IF 1 > n THEN 0 ELSE n - 1 + 1
    <3> HIDE DEF n
    <3> QED BY <1>1, FS_Interval DEF n
  <2> QED BY <2>1, <1>1
<1>3. IsFiniteSet({r}) /\ Cardinality({r}) = 1
  BY FS_Singleton
<1>4. IsFiniteSet(share) /\ Cardinality(share) = Amount[r]
  <2>1. /\ IsFiniteSet(share)
        /\ Cardinality(share) = Cardinality({r}) * Cardinality(1..Amount[r])
    BY <1>2, <1>3, FS_Product
  <2> QED BY <2>1, <1>1, <1>2, <1>3
<1>5. Cents(S \cup {r}) = Cents(S) \cup share
  BY DEF Cents
<1>6. IsFiniteSet(Cents(S))
  BY CentsFinite
<1>7. Cardinality(Cents(S) \cup share)
        = Cardinality(Cents(S)) + Cardinality(share) - Cardinality(Cents(S) \cap share)
  BY <1>4, <1>6, FS_Union
<1>8. Cardinality(Cents(S) \cap share) \in Nat
  BY <1>6, FS_Intersection, FS_CardinalityType
<1>9. Cardinality(Cents(S)) \in Nat
  BY <1>6, FS_CardinalityType
<1>10. Cardinality(Cents(S \cup {r})) <= Cardinality(Cents(S)) + Amount[r]
  <2> DEFINE old == Cardinality(Cents(S))
             both == Cardinality(Cents(S) \cap share)
  <2>1. Cardinality(Cents(S \cup {r})) = old + Amount[r] - both
    BY <1>4, <1>5, <1>7, Zenon
  <2>2. old \in Nat /\ both \in Nat
    BY <1>8, <1>9
  <2> HIDE DEF old, both
  <2>3. Cardinality(Cents(S \cup {r})) <= old + Amount[r]
    BY <1>1, <2>1, <2>2
  <2> QED BY <2>3 DEF old
<1> QED BY <1>10 DEF Sum
=============================================================================
