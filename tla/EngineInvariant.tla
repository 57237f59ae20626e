-------------------------- MODULE EngineInvariant --------------------------
(***************************************************************************)
(* The inductive invariant behind the safety properties of RefundEngine:   *)
(* what holds of a row at every moment, and what a call may rely on about  *)
(* its row at every program point although other calls ran since it read   *)
(* that row.  TLC checks it on small instances, RefundEngineProofs proves  *)
(* it.                                                                     *)
(***************************************************************************)
EXTENDS RefundEngine

\* The row exists and is past review; it never gets back.
Released(r) == status[r] \in {"requested", "submitted", "settled", "failed"}

\* The row has been marked submitted; it never gets back.
Sent(r) == status[r] \in {"submitted", "settled", "failed"}

RowInv(r) ==
  /\ status[r] # "canceled"
  /\ gateway_ref[r] # NoRef => gateway_ref[r] = gw_store[r]
  /\ Holds(r) \/ r \in late => Sent(r)
  /\ status[r] \in {"settled", "failed"} => gateway_ref[r] # NoRef
  /\ status[r] # Absent => Amount[r] > 0
  /\ Amount[r] >= ReviewThreshold /\ Released(r)
       => \E a \in approved[r] : a # Requester[r]

Walking == {"recover_next", "recover_adopt", "recover_adopt_log", "recover_mark",
            "recover_call", "recover_ref", "recover_log"}

TaskInv(w) ==
  LET t == task[w] IN
  /\ t.pc \in {"request_lock", "request_sum", "request_insert"} => status[t.id] = Absent
  /\ t.pc = "approve_mark" => t.by # Requester[t.id] /\ status[t.id] # Absent
  /\ t.pc \in {"approve_log", "submit_mark", "recover_mark"} => Released(t.id)
  /\ t.pc \in {"submit_log", "submit_call", "submit_ref", "recover_adopt",
               "recover_adopt_log", "recover_call", "recover_ref", "recover_log"} => Sent(t.id)
  /\ t.pc \in {"submit_ref", "recover_adopt", "recover_ref"} =>
       t.ref # NoRef /\ t.ref = gw_store[t.id]
  /\ t.pc \in Walking => \A row \in t.rows : Released(row[1])

\* No two transactions insert the same row, or hold the same charge.
Exclusive(v, w) ==
  /\ task[v].pc \in Requesting /\ task[w].pc \in Requesting
       => task[v].id # task[w].id
  /\ HasLock(v) /\ HasLock(w)
       => ChargeOf[task[v].id] # ChargeOf[task[w].id]

(* Each row and each call in flight is as the others rely on it to be.     *)
EngineInv ==
  /\ \A r \in Refund : RowInv(r)
  /\ \A w \in Worker : TaskInv(w)
  /\ \A v, w \in Worker : v # w => Exclusive(v, w)

\* What request_insert still knows of its checks and the sum it read.
Reserved(w) ==
  At(w, "request_insert") =>
    LET r == task[w].id
        c == ChargeOf[r]
    IN  /\ RefundedSoFar(c) <= task[w].sum
        /\ Amount[r] <= Captured[c] - task[w].sum
        /\ CurrencyOf[r] = ChargeCurrency[c]

(* The charge has room for every refund counted and for the one about to   *)
(* be inserted.                                                            *)
CapacityInv ==
  /\ NoOverRefund
  /\ \A w \in Worker : Reserved(w)

Handling(w) == task[w].pc \in {"webhook_snapshot", "webhook_apply"}

(* An event is with one handler at most, which checked its signature and   *)
(* has claimed and not yet applied it.                                     *)
EventInv ==
  /\ applied \subseteq webhook_events
  /\ IsFiniteSet(applied)
  /\ \A w \in Worker : Handling(w) =>
       Signed[task[w].ev] /\ task[w].ev \in webhook_events \ applied
  /\ \A v, w \in Worker : v # w /\ Handling(v) /\ Handling(w) => task[v].ev # task[w].ev

\* The call is still to log that r got status s, or that a approved it.
Owes(w, r, s) ==
  /\ task[w].id = r
  /\ \/ s = "requested" /\ At(w, "approve_log")
     \/ s = "submitted" /\ task[w].pc \in {"submit_log", "recover_adopt_log", "recover_call",
                                           "recover_ref", "recover_log"}

OwesName(w, r, a) == At(w, "approve_log") /\ task[w].id = r /\ task[w].by = a

\* What is logged or owed.
StatusKnown(r, s) == LoggedAs(r, s) \/ \E w \in Worker : Owes(w, r, s)
NameKnown(r, a) == SignedBy(r, a) \/ \E w \in Worker : OwesName(w, r, a)

\* What the log misses and no call is going to write.
LostStatuses == {p \in Refund \X Status : p[2] \in Through(p[1]) /\ ~StatusKnown(p[1], p[2])}
LostNames == {p \in Refund \X Actor : p[2] \in approved[p[1]] /\ ~NameKnown(p[1], p[2])}

(* What the log misses some call in flight will still write, but for one   *)
(* row of each call that was cut off.  A submit that found its row         *)
(* submitted writes nothing: it will not be the one that marks it.         *)
AuditInv ==
  /\ \A w \in Worker : At(w, "submit_mark") /\ ~NeedsLog(task[w].seen) => Sent(task[w].id)
  /\ \A lost \in {LostStatuses, LostNames} :
       IsFiniteSet(lost) /\ Cardinality(lost) <= Aborts

(* A recovery about to log a row has seen to its reference, or spent one   *)
(* of the faults.                                                          *)
RecordInv ==
  /\ left["fault"] <= MaxCalls["fault"]
  /\ \A w \in Worker :
       \/ At(w, "recover_adopt_log")
       \/ At(w, "recover_log") /\ left["fault"] = MaxCalls["fault"]
       => gateway_ref[task[w].id] # NoRef
  /\ RecoveredHasRef
=============================================================================
