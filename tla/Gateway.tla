------------------------------ MODULE Gateway ------------------------------
(***************************************************************************)
(* What the refund engine needs of a payment gateway (the `Gateway` trait  *)
(* of src/gateway.rs): a store keyed by idempotency key.  Creating a       *)
(* refund under a key the gateway already holds returns the original and   *)
(* moves no money; looking a key up never creates one.                     *)
(*                                                                         *)
(* The gateway itself is another company's service.  This module is its    *)
(* contract, as the trait's comments give it, and atomic: the engine's     *)
(* handlers use Issue and Holds.  What the in-crate mock keeps of it is    *)
(* the subject of MockGateway.                                             *)
(***************************************************************************)
EXTENDS Integers, FiniteSets

CONSTANT Key            \* idempotency keys: the uuids of refund rows

VARIABLES
  gw_store,             \* key -> gateway_ref of its refund, NoRef if none
  gw_seq                \* refunds issued so far = the last reference given

NoRef == 0              \* SQL NULL in refunds.gateway_ref, None from a lookup
Ref == Nat \ {NoRef}

GwInit ==
  /\ gw_store = [k \in Key |-> NoRef]
  /\ gw_seq = 0

GwTypeOK ==
  /\ gw_store \in [Key -> Ref \cup {NoRef}]
  /\ gw_seq \in Nat

Holds(k) == gw_store[k] # NoRef

\* Broken variant: a gateway that ignores the idempotency key.
IssueWithoutDedupe(k) ==
  /\ gw_seq' = gw_seq + 1
  /\ gw_store' = [gw_store EXCEPT ![k] = gw_seq + 1]

(* create_refund as it acts on the gateway's books.  The answer to the     *)
(* caller is gw_store'[k]; it may get lost on the way back.                *)
Issue(k) ==
  IF Holds(k)
  THEN UNCHANGED <<gw_store, gw_seq>>
  ELSE /\ gw_seq' = gw_seq + 1
       /\ gw_store' = [gw_store EXCEPT ![k] = gw_seq + 1]

Issued == {k \in Key : Holds(k)}

(* The references are those handed out so far, and no two keys share one.  *)
GwBooks ==
  /\ \A k \in Key : gw_store[k] <= gw_seq
  /\ \A j, k \in Key : Holds(j) /\ gw_store[j] = gw_store[k] => j = k
=============================================================================
