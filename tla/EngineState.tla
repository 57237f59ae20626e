---------------------------- MODULE EngineState ----------------------------
(***************************************************************************)
(* The state the refund engine's handlers share: the Postgres tables of    *)
(* migrations/0001_refunds.sql, the gateway's books, and the calls in      *)
(* flight.  The handler modules (RequestRefund, Approval, Submit, Webhook, *)
(* Recover) extend this one; RefundEngine composes them.                   *)
(*                                                                         *)
(* One action is one SQL statement, one gateway call or one transaction's  *)
(* commit: between any two of them another task may run or the process     *)
(* may die.                                                                *)
(***************************************************************************)
EXTENDS Money, Sequences

CONSTANTS
  Charge, Actor, Event,
  Worker,          \* concurrently running tasks (tokio tasks, processes)
  NULL,            \* SQL NULL, and "no value" in a task's locals
  \* The other arguments of the request_refund call that draws uuid r.  A uuid is
  \* drawn once, so fixing its call's arguments loses no behaviour.
  ChargeOf, CurrencyOf, Requester,
  \* charges rows, written by the capture path and never changed here.
  Captured, ChargeCurrency,
  ReviewThreshold, \* REVIEW_THRESHOLD_CENTS
  \* A webhook event: its type, the gateway_ref it names, and whether the
  \* gateway signed it (FALSE: anybody else's payload).
  EventKind, EventRef, Signed,
  MaxCalls         \* bound: how often each kind of call or fault may happen

Status == {"requested", "pending_review", "submitted",
           "settled", "failed", "canceled"}
Terminal == {"settled", "failed", "canceled"}
Absent == "absent"          \* no row with this id (yet)

\* Audit rows not written in a person's name.
SystemActor == {"job:submit", "job:recover", "job:recover-resubmit", "webhook"}

Bounded == {"request", "approve", "submit", "webhook", "recover",
            "abort", "fault"}

ASSUME ConstantTypes ==
  /\ ChargeOf \in [Refund -> Charge]
  /\ Requester \in [Refund -> Actor]
  /\ Captured \in [Charge -> Nat]
  /\ ReviewThreshold \in Int
  /\ EventRef \in [Event -> Nat \ {0}]
  /\ Signed \in [Event -> BOOLEAN]
  /\ MaxCalls \in [Bounded -> Nat]
  /\ Actor \cap SystemActor = {}

VARIABLES
  status,             \* refunds.status, Absent before the row exists
  gateway_ref,        \* refunds.gateway_ref
  refund_transitions, \* refund_transitions of each refund, in id order
  webhook_events,     \* ids in webhook_events
  gw_store, gw_seq,   \* the gateway's books
  late,               \* creates nobody waits for that may still reach it
  task,               \* what each worker is executing, with its locals
  left,               \* calls and faults still allowed by MaxCalls
  approved,           \* history: who moved a row out of pending_review
  applied             \* history: events whose transaction committed

INSTANCE Gateway WITH Key <- Refund

gatewayVars == <<gw_store, gw_seq, late>>

vars == <<status, gateway_ref, refund_transitions, webhook_events,
          gw_store, gw_seq, late, task, left, approved, applied>>
-----------------------------------------------------------------------------
(* Rows *)

\* Broken variant: what is on its way to the gateway is not counted.
SettledOnly(c) == {r \in Refund : ChargeOf[r] = c /\ status[r] = "settled"}

Counted(c) == {r \in Refund : /\ ChargeOf[r] = c
                              /\ status[r] \notin {Absent, "failed", "canceled"}}

RefundedSoFar(c) == Sum(Counted(c))

AuditEntry == [from_status : Status \cup {NULL}, to_status : Status,
               actor : Actor \cup SystemActor]

\* actor is `by`; approve's "approver:" prefix is left out.
AuditRow(from, to, by) == [from_status |-> from, to_status |-> to, actor |-> by]

\* record_transition, and the audit INSERT of request_refund.
RecordTransition(r, from, to, by) ==
  refund_transitions' =
    [refund_transitions EXCEPT ![r] = Append(@, AuditRow(from, to, by))]

\* SELECT to_status ... ORDER BY id DESC LIMIT 1
LastStatus(r) ==
  LET log == refund_transitions[r]
  IN  IF log = <<>> THEN NULL ELSE log[Len(log)].to_status

(* UPDATE refunds SET status = to WHERE id = r AND status IN from          *)
UpdateStatus(r, from, to) ==
  status' = IF status[r] \in from THEN [status EXCEPT ![r] = to] ELSE status

(* UPDATE refunds SET gateway_ref = ref WHERE id = r AND gateway_ref IS NULL *)
UpdateRef(r, ref) ==
  gateway_ref' = IF gateway_ref[r] = NoRef
                 THEN [gateway_ref EXCEPT ![r] = ref] ELSE gateway_ref
-----------------------------------------------------------------------------
(* Tasks *)

PC == {"idle", "request_lock", "request_sum", "request_insert",
       "approve_mark", "approve_log",
       "submit_mark", "submit_log", "submit_call", "submit_ref",
       "webhook_snapshot", "webhook_apply",
       "recover_next", "recover_adopt", "recover_adopt_log", "recover_mark",
       "recover_call", "recover_ref", "recover_log"}

(* A task's locals: the row at hand, the status it read, the reference the *)
(* gateway returned, the sum it read, the approver, the event, and the     *)
(* rows <<id, status>> a result set still holds.                           *)
Task == [pc : PC, id : Refund \cup {NULL}, seen : Status \cup {NULL},
         ref : Ref \cup {NoRef}, sum : Nat, by : Actor \cup {NULL},
         ev : Event \cup {NULL}, rows : SUBSET (Refund \X (Status \cup {NULL}))]

Idle == [pc |-> "idle", id |-> NULL, seen |-> NULL, ref |-> NoRef, sum |-> 0,
         by |-> NULL, ev |-> NULL, rows |-> {}]

At(w, label) == task[w].pc = label
Becomes(w, t) == task' = [task EXCEPT ![w] = t]
Goto(w, label) == Becomes(w, [task[w] EXCEPT !.pc = label])
Finish(w) == Becomes(w, Idle)

\* Bound: one of the calls or faults MaxCalls allows.
Spend(kind) == /\ left[kind] > 0
               /\ left' = [left EXCEPT ![kind] = @ - 1]

(* gateway.create_refund(.., key): Accepted carries the reference back;    *)
(* Dropped recorded the refund and lost the answer; TimedOut recorded      *)
(* nothing, or nothing yet.  The callers treat the last two alike.         *)
CreateRefund(w, answered, lost) ==
  \/ /\ Issue(task[w].id)
     /\ Becomes(w, [task[w] EXCEPT !.pc = answered, !.ref = gw_store'[task[w].id]])
     /\ UNCHANGED <<left, late>>
  \/ /\ Spend("fault")
     /\ \/ Issue(task[w].id) /\ UNCHANGED late
        \/ UNCHANGED <<gw_store, gw_seq>> /\ late' = late \cup {task[w].id}
     /\ lost

\* A create whose caller timed out or died reaches the gateway after all.
LateArrival(r) ==
  /\ r \in late
  /\ Issue(r)
  /\ late' = late \ {r}
  /\ UNCHANGED <<status, gateway_ref, refund_transitions, webhook_events,
                 task, left, approved, applied>>
=============================================================================
