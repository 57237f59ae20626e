------------------------------ MODULE Approval ------------------------------
(***************************************************************************)
(* approve (src/approval.rs): read the row, reject it unless it is pending *)
(* review and the approver is someone else, then a guarded UPDATE and, as  *)
(* a statement of its own, the audit row.                                  *)
(***************************************************************************)
EXTENDS EngineState

approveVars == <<gateway_ref, webhook_events, gatewayVars, applied>>

\* Broken variant: self-approval is not rejected.
AnyoneMayApprove(r, a) == status[r] = "pending_review" /\ a \in Actor

MayApprove(r, a) == status[r] = "pending_review" /\ a # Requester[r]

\* Broken variant: the UPDATE loses its status guard.
ApprovableAnytime == Status

\* AND status = 'pending_review'
Approvable == {"pending_review"}

ApproveRead(w, r, a) ==
  /\ At(w, "idle")
  /\ MayApprove(r, a)
  /\ Spend("approve")
  /\ Becomes(w, [Idle EXCEPT !.pc = "approve_mark", !.id = r, !.by = a])
  /\ UNCHANGED <<approveVars, status, refund_transitions, approved>>

ApproveMark(w) ==
  LET r == task[w].id IN
  /\ At(w, "approve_mark")
  /\ UpdateStatus(r, Approvable, "requested")
  /\ approved' = IF status[r] \in Approvable
                 THEN [approved EXCEPT ![r] = @ \cup {task[w].by}] ELSE approved
  /\ Goto(w, "approve_log")
  /\ UNCHANGED <<approveVars, refund_transitions, left>>

\* Runs whether or not the UPDATE found the row still pending.
ApproveLog(w) ==
  /\ At(w, "approve_log")
  /\ RecordTransition(task[w].id, "pending_review", "requested", task[w].by)
  /\ Finish(w)
  /\ UNCHANGED <<approveVars, status, approved, left>>

ApproveStep(w) == ApproveMark(w) \/ ApproveLog(w)
=============================================================================
