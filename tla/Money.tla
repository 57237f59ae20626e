------------------------------- MODULE Money -------------------------------
(***************************************************************************)
(* SUM(amount_cents) over a set of refund rows.  Stored amounts are        *)
(* positive (the CHECK on refunds.amount_cents), so the sum is the number  *)
(* of cents, one pair <<row, i>> for each.                                 *)
(***************************************************************************)
EXTENDS Integers, FiniteSets

CONSTANTS
  Refund,          \* uuids request_refund may draw
  Amount           \* amount_cents of the call that draws each uuid

ASSUME AmountType ==
  /\ IsFiniteSet(Refund)
  /\ Amount \in [Refund -> Int]

Cents(S) == UNION {{r} \X (1..Amount[r]) : r \in S}

Sum(S) == Cardinality(Cents(S))
=============================================================================
