-------------------------- MODULE RefundLifecycle --------------------------
(***************************************************************************)
(* What the refund engine promises, with no database, workers or crashes:  *)
(* a refund fits into its charge when it is accepted, a large one waits    *)
(* for a second person, the gateway pays each at most once (a second       *)
(* payment would be one more of payments and no decision of this module),  *)
(* and its word ends it.  RefundEngine is shown to implement this.         *)
(***************************************************************************)
EXTENDS Money

CONSTANTS Charge, Actor, ChargeOf, CurrencyOf, Requester,
          Captured, ChargeCurrency, ReviewThreshold

VARIABLES
  state,           \* stage of each refund
  paid,            \* refunds the gateway has issued
  payments,        \* how many payments those were
  approvers        \* who let a held refund go on

lifecycleVars == <<state, paid, payments, approvers>>

Stage == {"none", "held", "open", "settled", "failed"}

LifecycleTypeOK ==
  /\ state \in [Refund -> Stage]
  /\ paid \subseteq Refund
  /\ payments \in Nat
  /\ approvers \in [Refund -> SUBSET Actor]

LifecycleInit ==
  /\ state = [r \in Refund |-> "none"]
  /\ paid = {}
  /\ payments = 0
  /\ approvers = [r \in Refund |-> {}]

\* Rows that moved, or may yet move, money of the charge.
Committed(c) == {r \in Refund : /\ ChargeOf[r] = c
                                /\ state[r] \notin {"none", "failed"}}

Large(r) == Amount[r] >= ReviewThreshold

Accept(r) ==
  /\ state[r] = "none"
  /\ Amount[r] > 0
  /\ CurrencyOf[r] = ChargeCurrency[ChargeOf[r]]
  /\ Amount[r] <= Captured[ChargeOf[r]] - Sum(Committed(ChargeOf[r]))
  /\ state' = [state EXCEPT ![r] = IF Large(r) THEN "held" ELSE "open"]
  /\ UNCHANGED <<paid, payments, approvers>>

Release(r, a) ==
  /\ state[r] = "held"
  /\ a # Requester[r]
  /\ state' = [state EXCEPT ![r] = "open"]
  /\ approvers' = [approvers EXCEPT ![r] = @ \cup {a}]
  /\ UNCHANGED <<paid, payments>>

Pay(r) ==
  /\ state[r] = "open"
  /\ r \notin paid
  /\ paid' = paid \cup {r}
  /\ payments' = payments + 1
  /\ UNCHANGED <<state, approvers>>

Conclude(r, verdict) ==
  /\ state[r] = "open"
  /\ r \in paid
  /\ state' = [state EXCEPT ![r] = verdict]
  /\ UNCHANGED <<paid, payments, approvers>>

LifecycleNext ==
  \E r \in Refund :
    \/ Accept(r)
    \/ \E a \in Actor : Release(r, a)
    \/ Pay(r)
    \/ \E verdict \in {"settled", "failed"} : Conclude(r, verdict)

LifecycleSpec == LifecycleInit /\ [][LifecycleNext]_lifecycleVars
-----------------------------------------------------------------------------
(* The rules the engine exists for: refunds never add up to more than was  *)
(* captured; every payment is for a refund of its own; a large refund is   *)
(* never payable before somebody other than its requester released it;     *)
(* the gateway is asked only for a refund that was accepted.               *)
LifecycleSafe ==
  /\ \A c \in Charge : Sum(Committed(c)) <= Captured[c]
  /\ payments = Cardinality(paid)
  /\ \A r \in Refund :
       /\ Large(r) /\ state[r] \notin {"none", "held"}
            => \E a \in approvers[r] : a # Requester[r]
       /\ r \in paid => state[r] \notin {"none", "held"}
=============================================================================
