------------------------------ MODULE Webhook ------------------------------
(***************************************************************************)
(* handle_webhook (src/webhook.rs): verify the signature, claim the event  *)
(* id (a statement that commits by itself), then one transaction holding   *)
(* one statement that moves the rows at the event's gateway_ref and writes *)
(* their audit rows.                                                       *)
(*                                                                         *)
(* Under READ COMMITTED that statement reads a snapshot when it starts,    *)
(* both the candidate rows and the last audit row it copies from_status    *)
(* from; it re-checks the WHERE clause on each row once it holds that      *)
(* row's lock.  Snapshot and apply are therefore two actions.              *)
(***************************************************************************)
EXTENDS EngineState

webhookVars == <<gateway_ref, gatewayVars, approved>>

\* Broken variant: every payload verifies.
TrustsAll(e) == e \in Event

Verified(e) == Signed[e]

\* The gateway only signs events about refunds it has issued.
CanArrive(e) == Signed[e] => EventRef[e] <= gw_seq

\* Broken variant: a replayed event id is processed again.
NeverSeen(e) == e \in Event

\* ON CONFLICT (id) DO NOTHING RETURNING id returned a row.
Claims(e) == e \notin webhook_events

\* Broken variant: a failed event overrules an earlier settled one.
MovableLastWins(kind) ==
  CASE kind = "refund.settled" -> {"submitted", "requested"}
    [] kind = "refund.failed"  -> Status \ {"canceled"}
    [] OTHER -> {}

(* The status guard of apply_settled and of apply_failed; an unknown type  *)
(* runs neither.                                                           *)
Movable(kind) ==
  CASE kind = "refund.settled" -> {"submitted", "requested"}
    [] kind = "refund.failed"  -> Status \ {"settled", "canceled"}
    [] OTHER -> {}

Verdict(kind) == IF kind = "refund.settled" THEN "settled" ELSE "failed"

\* Broken variant: the UPDATE forgets WHERE gateway_ref = $1.
MatchesAnyRef(r, e) == status[r] \in Movable(EventKind[e])

Matches(r, e) == /\ gateway_ref[r] = EventRef[e]
                 /\ status[r] \in Movable(EventKind[e])

\* Broken variant: the row moves and its audit row does not say by whom or
\* from where, so there is none of the webhook's.
MovedUnlogged(log, to, hit) == IF hit = {} THEN log ELSE Append(log, AuditRow(NULL, NULL, to))

\* INSERT INTO refund_transitions SELECT ... FROM moved
Moved(log, to, hit) ==
  IF hit = {} THEN log
  ELSE Append(log, AuditRow((CHOOSE row \in hit : TRUE)[2], to, "webhook"))

\* A bad signature and a duplicate return before any change.
WebhookClaim(w, e) ==
  /\ At(w, "idle")
  /\ CanArrive(e)
  /\ Verified(e)
  /\ Claims(e)
  /\ Spend("webhook")
  /\ webhook_events' = webhook_events \cup {e}
  /\ Becomes(w, [Idle EXCEPT !.pc = "webhook_snapshot", !.ev = e])
  /\ UNCHANGED <<webhookVars, status, refund_transitions, applied>>

WebhookSnapshot(w) ==
  /\ At(w, "webhook_snapshot")
  /\ Becomes(w, [task[w] EXCEPT !.pc = "webhook_apply",
                                !.rows = {<<r, LastStatus(r)>> :
                                   r \in {q \in Refund : Matches(q, task[w].ev)}}])
  /\ UNCHANGED <<webhookVars, status, refund_transitions, webhook_events, applied, left>>

WebhookApply(w) ==
  LET e == task[w].ev
      to == Verdict(EventKind[e])
      hits(r) == {row \in task[w].rows : row[1] = r /\ Matches(r, e)}
  IN
  /\ At(w, "webhook_apply")
  /\ status' = [r \in Refund |-> IF hits(r) # {} THEN to ELSE status[r]]
  /\ refund_transitions' =
       [r \in Refund |-> Moved(refund_transitions[r], to, hits(r))]
  /\ applied' = applied \cup {e}
  /\ Finish(w)
  /\ UNCHANGED <<webhookVars, webhook_events, left>>

WebhookStep(w) == WebhookSnapshot(w) \/ WebhookApply(w)
=============================================================================
