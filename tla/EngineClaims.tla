---------------------------- MODULE EngineClaims ----------------------------
(***************************************************************************)
(* Statements that comments and tests of the repository make and that the  *)
(* code, as RefundEngine models it, does not keep.  Each is the property   *)
(* of one run that ends in a counterexample; README.md tells them.         *)
(***************************************************************************)
EXTENDS EngineInvariant

Appended(r) == Len(refund_transitions'[r]) > Len(refund_transitions[r])
NewRow(r) == refund_transitions'[r][Len(refund_transitions'[r])]

(* webhook.rs, apply_settled: the audit row has "the correct pre-update    *)
(* `from_status`".  It has the to_status of the last audit row instead.    *)
FromStatusIsPreUpdate ==
  [][\A r \in Refund : Appended(r) /\ NewRow(r).actor = "webhook" =>
       NewRow(r).from_status = status[r]]_vars

(* webhook.rs, WebhookResult::Duplicate: "We had already processed this    *)
(* event id".  A claimed event whose call died was not, and never will be. *)
ClaimedMeansProcessed ==
  \A e \in webhook_events \ applied : \E w \in Worker : task[w].ev = e

(* demo_webhook.rs: an early settled is safe.  One that arrives before the *)
(* reference is on the row settles nothing, and is spent.                  *)
EarlySettledIsSafe ==
  \A e \in applied, r \in Refund :
    EventKind[e] = "refund.settled" /\ gw_store[r] = EventRef[e]
      => status[r] \in Terminal
=============================================================================
