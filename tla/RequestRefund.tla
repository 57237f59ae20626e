--------------------------- MODULE RequestRefund ---------------------------
(***************************************************************************)
(* request_refund (src/request.rs): one transaction that locks the charge  *)
(* row, sums what is already refunded, checks, inserts the refund and its  *)
(* first audit row, and commits.  Nobody sees the two inserts before the   *)
(* commit, so they and the commit are one action.  Leaving the             *)
(* transaction, by commit, early return or abort, releases the lock.       *)
(***************************************************************************)
EXTENDS EngineState

requestVars == <<gateway_ref, webhook_events, gatewayVars, approved, applied>>

Requesting == {"request_lock", "request_sum", "request_insert"}

\* uuid::new_v4 draws an id no row and no other transaction has.
Fresh(r) == /\ status[r] = Absent
            /\ \A v \in Worker : task[v].pc \in Requesting => task[v].id # r

\* Broken variant: no FOR UPDATE, so nobody ever waits.
NeverLocked(c) == c \notin Charge

(* SELECT ... FOR UPDATE on the charge is granted to one transaction.      *)
HasLock(w) == task[w].pc \in {"request_sum", "request_insert"}
ChargeLocked(c) == \E v \in Worker : HasLock(v) /\ ChargeOf[task[v].id] = c

\* Broken variant: a status no CHECK allows.
MisspeltStatus(r) ==
  IF Amount[r] >= ReviewThreshold THEN "review" ELSE "requested"

InitialStatus(r) ==
  IF Amount[r] >= ReviewThreshold THEN "pending_review" ELSE "requested"

(* The assertions made on the sum just read.                               *)
Accepts(r, refunded) ==
  /\ CurrencyOf[r] = ChargeCurrency[ChargeOf[r]]
  /\ Amount[r] <= Captured[ChargeOf[r]] - refunded

RequestBegin(w, r) ==
  /\ At(w, "idle")
  /\ Fresh(r)
  /\ Spend("request")
  /\ Becomes(w, [Idle EXCEPT !.pc = "request_lock", !.id = r])
  /\ UNCHANGED <<requestVars, status, refund_transitions>>

RequestLock(w) ==
  /\ At(w, "request_lock")
  /\ ~ChargeLocked(ChargeOf[task[w].id])
  /\ Goto(w, "request_sum")
  /\ UNCHANGED <<requestVars, status, refund_transitions, left>>

\* CurrencyMismatch and OverRefund roll back and return.
RequestSum(w) ==
  LET refunded == RefundedSoFar(ChargeOf[task[w].id]) IN
  /\ At(w, "request_sum")
  /\ \/ /\ Accepts(task[w].id, refunded)
        /\ Becomes(w, [task[w] EXCEPT !.pc = "request_insert", !.sum = refunded])
     \/ /\ ~Accepts(task[w].id, refunded)
        /\ Finish(w)
  /\ UNCHANGED <<requestVars, status, refund_transitions, left>>

\* CHECK (amount_cents > 0) fails the INSERT and the transaction with it.
RequestInsert(w) ==
  LET r == task[w].id IN
  /\ At(w, "request_insert")
  /\ \/ /\ Amount[r] > 0
        /\ status' = [status EXCEPT ![r] = InitialStatus(r)]
        /\ RecordTransition(r, NULL, InitialStatus(r), Requester[r])
     \/ /\ Amount[r] <= 0
        /\ UNCHANGED <<status, refund_transitions>>
  /\ Finish(w)
  /\ UNCHANGED <<requestVars, left>>

RequestStep(w) == RequestLock(w) \/ RequestSum(w) \/ RequestInsert(w)
=============================================================================
