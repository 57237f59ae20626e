------------------------------- MODULE Submit -------------------------------
(***************************************************************************)
(* submit_refund (src/submit.rs): read the row, mark it submitted, call    *)
(* the gateway under the row's own id, record the reference.  No           *)
(* transaction spans these statements.                                     *)
(***************************************************************************)
EXTENDS EngineState

submitVars == <<webhook_events, approved, applied>>

\* Broken variant: rows under review are submitted like any other.
SubmittableUnreviewed == {"requested", "submitted", "pending_review"}

\* Not terminal and not pending_review; also the guard of the UPDATE.
Submittable == {"requested", "submitted"}

\* Broken variant: the gateway is called before the row is marked.
CallFirst == "submit_call"

\* Broken variant: the transition is recorded instead of made.
LogsUnmarked == "submit_log"

AfterRead == "submit_mark"

\* Broken variant: the transition is never recorded.
NeverLogs(seen) == seen \notin Status

\* A row already submitted when read gets no second audit row.
NeedsLog(seen) == seen # "submitted"

\* A row that may not be submitted makes the call return Ok(false).
SubmitRead(w, r) ==
  /\ At(w, "idle")
  /\ status[r] \in Submittable
  /\ Spend("submit")
  /\ Becomes(w, [Idle EXCEPT !.pc = AfterRead, !.id = r, !.seen = status[r]])
  /\ UNCHANGED <<submitVars, status, gateway_ref, refund_transitions, gatewayVars>>

SubmitMark(w) ==
  /\ At(w, "submit_mark")
  /\ UpdateStatus(task[w].id, Submittable, "submitted")
  /\ Goto(w, IF NeedsLog(task[w].seen) THEN "submit_log" ELSE "submit_call")
  /\ UNCHANGED <<submitVars, gateway_ref, refund_transitions, gatewayVars, left>>

SubmitLog(w) ==
  /\ At(w, "submit_log")
  /\ RecordTransition(task[w].id, task[w].seen, "submitted", "job:submit")
  /\ Goto(w, "submit_call")
  /\ UNCHANGED <<submitVars, status, gateway_ref, gatewayVars, left>>

\* A lost answer ends the call with Ok(false).
SubmitCall(w) ==
  /\ At(w, "submit_call")
  /\ CreateRefund(w, "submit_ref", Finish(w))
  /\ UNCHANGED <<submitVars, status, gateway_ref, refund_transitions>>

SubmitRef(w) ==
  /\ At(w, "submit_ref")
  /\ UpdateRef(task[w].id, task[w].ref)
  /\ Finish(w)
  /\ UNCHANGED <<submitVars, status, refund_transitions, gatewayVars, left>>

SubmitStep(w) == SubmitMark(w) \/ SubmitLog(w) \/ SubmitCall(w) \/ SubmitRef(w)
=============================================================================
