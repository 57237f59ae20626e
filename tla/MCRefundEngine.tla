--------------------------- MODULE MCRefundEngine ---------------------------
(***************************************************************************)
(* Small instances of RefundEngine for TLC.  Amounts are scaled down: a    *)
(* charge of 10 USD, one of 4 EUR, a review threshold of 8.                *)
(***************************************************************************)
EXTENDS EngineClaims, TLC

CONSTANTS r1, r2, r3, zero, euro, usd, big, \* refunds
          alice, bob, carol,                \* actors
          s1, s2, f1, f2, other, unsigned   \* events

Workers == Permutations(Worker)

MCCharge == {"c1", "c2"}
MCActor == {alice, bob, carol}

MCChargeOf == [r \in Refund |-> IF r \in {zero, euro, usd} THEN "c2" ELSE "c1"]
\* usd is asked for in the wrong currency.
MCAmount == [r \in Refund |->
  CASE r = r1 -> 6 [] r = r2 -> 5 [] r = zero -> 0 [] r = big -> 8 [] OTHER -> 4]
MCCurrencyOf == [r \in Refund |-> IF r \in {zero, euro} THEN "EUR" ELSE "USD"]
MCRequester == [r \in Refund |-> alice]
MCCaptured == [c \in MCCharge |-> IF c = "c1" THEN 10 ELSE 4]
MCChargeCurrency == [c \in MCCharge |-> IF c = "c1" THEN "USD" ELSE "EUR"]
MCReviewThreshold == 8

\* f1 and f2 are two failed events for the same refund, s2 is about the next.
MCEventKind == [e \in Event |->
  CASE e \in {s1, s2, unsigned} -> "refund.settled"
    [] e \in {f1, f2} -> "refund.failed"
    [] OTHER -> "refund.updated"]
MCEventRef == [e \in Event |-> IF e = s2 THEN 2 ELSE 1]
MCSigned == [e \in Event |-> e # unsigned]

Budget(request, approve, submit, webhook, recover, abort, fault) ==
  [request |-> request, approve |-> approve, submit |-> submit,
   webhook |-> webhook, recover |-> recover, abort |-> abort, fault |-> fault]

CapacityCalls == Budget(4, 0, 2, 2, 0, 1, 0)
LifecycleCalls == Budget(1, 0, 2, 3, 1, 1, 1)
ReviewCalls == Budget(1, 2, 2, 1, 1, 1, 0)
ConvergeCalls == Budget(2, 0, 1, 0, 2, 1, 1)

\* The smallest instances in which a claim of EngineClaims fails.
RetriedCalls == Budget(1, 0, 2, 1, 0, 0, 0)
KilledCalls == Budget(1, 0, 1, 1, 0, 1, 0)
PlainCalls == Budget(1, 0, 1, 1, 0, 0, 0)
=============================================================================
