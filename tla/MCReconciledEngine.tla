------------------------- MODULE MCReconciledEngine -------------------------
(***************************************************************************)
(* Small instances of ReconciledEngine for TLC: two refunds of one charge  *)
(* of 10, of 5 and 4, and the files a bank may send about references 1, 2  *)
(* and 3.                                                                  *)
(***************************************************************************)
EXTENDS ReconciledEngine, TLC

CONSTANTS r2, r3, alice, s1, s2, f1

Workers == Permutations(Worker)

MCCharge == {"c1"}
MCChargeOf == [r \in Refund |-> "c1"]
MCAmount == [r \in Refund |-> IF r = r2 THEN 5 ELSE 4]
MCCurrencyOf == [r \in Refund |-> "USD"]
MCRequester == [r \in Refund |-> alice]
MCCaptured == [c \in MCCharge |-> 10]
MCChargeCurrency == [c \in MCCharge |-> "USD"]
MCEventKind == [e \in Event |-> IF e = f1 THEN "refund.failed" ELSE "refund.settled"]
MCEventRef == [e \in Event |-> IF e = s2 THEN 2 ELSE 1]
MCSigned == [e \in Event |-> TRUE]

MCMaxCalls == [request |-> 2, approve |-> 0, submit |-> 3, webhook |-> 2,
               recover |-> 0, abort |-> 0, fault |-> 1]

L(ref, amount) == [gateway_ref |-> ref, amount_cents |-> amount]

\* Nothing, everything, one refund only, a wrong amount, a reference nobody
\* has, and two lines for one reference.
MCFiles ==
  {<<>>,
   <<L(1, 5)>>, <<L(1, 4)>>, <<L(2, 5)>>,
   <<L(1, 5), L(2, 4)>>, <<L(2, 5), L(1, 4)>>,
   <<L(1, 5), L(3, 4)>>, <<L(1, 4), L(1, 5)>>, <<L(1, 5), L(1, 4), L(2, 4)>>}
=============================================================================
