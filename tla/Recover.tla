------------------------------ MODULE Recover ------------------------------
(***************************************************************************)
(* recover_submitted (src/recover.rs): select every requested or submitted *)
(* row, then for each one, with the status read by that select, ask the    *)
(* gateway for its key.  Held: record the reference.  Not held: mark the   *)
(* row submitted and create it under the same key.  Either way an audit    *)
(* row is written.  The rows are walked in any order here (ORDER BY        *)
(* created_at in the code).                                                *)
(***************************************************************************)
EXTENDS EngineState

recoverVars == <<webhook_events, approved, applied>>

\* Broken variant: rows the batch never reached are not walked.
StuckSubmittedOnly == {"submitted"}

\* WHERE status IN ('submitted','requested')
Stuck == {"submitted", "requested"}

\* Broken variant: adopting loses AND gateway_ref IS NULL.
AdoptsAlways(r) == r \in Refund

\* Broken variant: adopting asks for gateway_ref IS NOT NULL.
AdoptsKnown(r) == gateway_ref[r] # NoRef

Adopts(r) == gateway_ref[r] = NoRef

\* The walk goes on with the next row, or the call returns its report.
NextRow(w) ==
  IF task[w].rows = {}
  THEN Finish(w)
  ELSE Becomes(w, [Idle EXCEPT !.pc = "recover_next", !.rows = task[w].rows])

RecoverScan(w) ==
  LET rows == {<<r, status[r]>> : r \in {q \in Refund : status[q] \in Stuck}} IN
  /\ At(w, "idle")
  /\ rows # {}
  /\ Spend("recover")
  /\ Becomes(w, [Idle EXCEPT !.pc = "recover_next", !.rows = rows])
  /\ UNCHANGED <<recoverVars, status, gateway_ref, refund_transitions, gatewayVars>>

RecoverLookup(w) ==
  /\ At(w, "recover_next")
  /\ \E row \in task[w].rows :
       Becomes(w, [Idle EXCEPT
         !.pc = IF Holds(row[1]) THEN "recover_adopt" ELSE "recover_mark",
         !.id = row[1], !.seen = row[2], !.ref = gw_store[row[1]],
         !.rows = task[w].rows \ {row}])
  /\ UNCHANGED <<recoverVars, status, gateway_ref, refund_transitions, gatewayVars, left>>

\* SET gateway_ref = $2, status = 'submitted', whatever the status is by now.
RecoverAdopt(w) ==
  LET r == task[w].id IN
  /\ At(w, "recover_adopt")
  /\ \/ /\ Adopts(r)
        /\ gateway_ref' = [gateway_ref EXCEPT ![r] = task[w].ref]
        /\ status' = [status EXCEPT ![r] = "submitted"]
     \/ /\ ~Adopts(r)
        /\ UNCHANGED <<gateway_ref, status>>
  /\ Goto(w, "recover_adopt_log")
  /\ UNCHANGED <<recoverVars, refund_transitions, gatewayVars, left>>

RecoverAdoptLog(w) ==
  /\ At(w, "recover_adopt_log")
  /\ RecordTransition(task[w].id, task[w].seen, "submitted", "job:recover")
  /\ NextRow(w)
  /\ UNCHANGED <<recoverVars, status, gateway_ref, gatewayVars, left>>

RecoverMark(w) ==
  /\ At(w, "recover_mark")
  /\ UpdateStatus(task[w].id, {"requested", "submitted"}, "submitted")
  /\ Goto(w, "recover_call")
  /\ UNCHANGED <<recoverVars, gateway_ref, refund_transitions, gatewayVars, left>>

\* A lost answer is no error here: the walk goes on to the audit row.
RecoverCall(w) ==
  /\ At(w, "recover_call")
  /\ CreateRefund(w, "recover_ref", Goto(w, "recover_log"))
  /\ UNCHANGED <<recoverVars, status, gateway_ref, refund_transitions>>

RecoverRef(w) ==
  /\ At(w, "recover_ref")
  /\ UpdateRef(task[w].id, task[w].ref)
  /\ Goto(w, "recover_log")
  /\ UNCHANGED <<recoverVars, status, refund_transitions, gatewayVars, left>>

RecoverLog(w) ==
  /\ At(w, "recover_log")
  /\ RecordTransition(task[w].id, task[w].seen, "submitted", "job:recover-resubmit")
  /\ NextRow(w)
  /\ UNCHANGED <<recoverVars, status, gateway_ref, gatewayVars, left>>

RecoverStep(w) ==
  \/ RecoverLookup(w) \/ RecoverAdopt(w) \/ RecoverAdoptLog(w)
  \/ RecoverMark(w) \/ RecoverCall(w) \/ RecoverRef(w) \/ RecoverLog(w)
=============================================================================
