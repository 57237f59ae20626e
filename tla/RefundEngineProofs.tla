------------------------- MODULE RefundEngineProofs -------------------------
(***************************************************************************)
(* Types and the safety properties of the refund engine, for every number  *)
(* of refunds, charges, workers, events, calls and faults.                 *)
(*                                                                         *)
(* TypeOK is not inductive by itself: what a call writes to the tables     *)
(* comes from its locals, and those are only known to be there by its      *)
(* program point.                                                          *)
(***************************************************************************)
EXTENDS EngineInvariant, MoneyProofs
-----------------------------------------------------------------------------
(* Types.                                                                  *)

OnRefund == {"request_lock", "request_sum", "request_insert",
             "approve_mark", "approve_log",
             "submit_mark", "submit_log", "submit_call", "submit_ref",
             "recover_adopt", "recover_adopt_log", "recover_mark",
             "recover_call", "recover_ref", "recover_log"}

LocalsOK(t) ==
  /\ t.pc \in OnRefund => t.id \in Refund
  /\ t.pc \in {"approve_mark", "approve_log"} => t.by \in Actor
  /\ t.pc \in {"webhook_snapshot", "webhook_apply"} => t.ev \in Event

TaskTyped == task \in [Worker -> Task] /\ \A w \in Worker : LocalsOK(task[w])

Typed == TypeOK /\ TaskTyped

DBTyped ==
  /\ status \in [Refund -> Status \cup {Absent}]
  /\ gateway_ref \in [Refund -> Ref \cup {NoRef}]
  /\ refund_transitions \in [Refund -> Seq(AuditEntry)]
  /\ webhook_events \subseteq Event
  /\ applied \subseteq Event
  /\ approved \in [Refund -> SUBSET Actor]

GatewayTyped ==
  /\ gw_store \in [Refund -> Ref \cup {NoRef}]
  /\ gw_seq \in Nat
  /\ late \subseteq Refund

LeftTyped == left \in [Bounded -> Nat]

(* Typed, split by who writes what.                                        *)
LEMMA TypedParts == Typed <=> DBTyped /\ GatewayTyped /\ LeftTyped /\ TaskTyped
BY DEF Typed, TypeOK, DBTyped, GatewayTyped, LeftTyped, TaskTyped, GwTypeOK

(* The same after a step.                                                  *)
LEMMA TypedPartsPrime ==
  Typed' <=> DBTyped' /\ GatewayTyped' /\ LeftTyped' /\ TaskTyped'
BY DEF Typed, TypeOK, DBTyped, GatewayTyped, LeftTyped, TaskTyped, GwTypeOK
-----------------------------------------------------------------------------
(* What one task update, audit row, or gateway call does to the types.     *)

(* A worker given well-typed locals; the others keep theirs.               *)
LEMMA TaskUpdate ==
  ASSUME TaskTyped, NEW w \in Worker, NEW t \in Task, LocalsOK(t), Becomes(w, t)
  PROVE  /\ TaskTyped'
         /\ task'[w] = t
         /\ \A v \in Worker \ {w} : task'[v] = task[v]
BY DEF TaskTyped, Becomes

(* The locals of an idle worker are well typed.                            *)
LEMMA IdleTyped == Idle \in Task /\ LocalsOK(Idle)
BY DEF Idle, Task, PC, LocalsOK, OnRefund, NoRef

(* Ending a call keeps the tasks typed.                                    *)
LEMMA FinishTyped ==
  ASSUME TaskTyped, NEW w \in Worker, Finish(w)
  PROVE  TaskTyped'
BY IdleTyped, TaskUpdate DEF Finish

(* So does going on to a statement whose locals are there.                 *)
LEMMA GotoTyped ==
  ASSUME TaskTyped, NEW w \in Worker, NEW label \in PC, Goto(w, label),
         LocalsOK([task[w] EXCEPT !.pc = label])
  PROVE  TaskTyped'
<1>1. [task[w] EXCEPT !.pc = label] \in Task
  BY DEF TaskTyped, Task
<1> QED BY <1>1, TaskUpdate DEF Goto

(* Spending from a budget leaves a natural number.                         *)
LEMMA SpendTyped ==
  ASSUME LeftTyped, NEW kind \in Bounded, Spend(kind)
  PROVE  LeftTyped'
BY DEF Spend, LeftTyped

(* Appending an audit row keeps the logs well typed.                       *)
LEMMA LogTyped ==
  ASSUME refund_transitions \in [Refund -> Seq(AuditEntry)],
         NEW r, NEW from \in Status \cup {NULL}, NEW to \in Status,
         NEW by \in Actor \cup SystemActor,
         RecordTransition(r, from, to, by)
  PROVE  refund_transitions' \in [Refund -> Seq(AuditEntry)]
<1>1. AuditRow(from, to, by) \in AuditEntry
  BY DEF AuditRow, AuditEntry
<1> HIDE DEF AuditRow, AuditEntry
<1>2. \A log \in Seq(AuditEntry) : Append(log, AuditRow(from, to, by)) \in Seq(AuditEntry)
  BY <1>1
<1> QED BY <1>2 DEF RecordTransition

(* The gateway only ever writes a reference of its own.                    *)
LEMMA IssueTyped ==
  ASSUME GatewayTyped, NEW r \in Refund, Issue(r)
  PROVE  /\ gw_store' \in [Refund -> Ref \cup {NoRef}]
         /\ gw_seq' \in Nat
BY DEF GatewayTyped, Issue, Ref, NoRef

(* The last audit row, if there is one, names a status.                    *)
LEMMA LastStatusTyped ==
  ASSUME DBTyped, NEW r \in Refund
  PROVE  LastStatus(r) \in Status \cup {NULL}
<1> DEFINE log == refund_transitions[r]
<1>1. log \in Seq(AuditEntry)
  BY DEF DBTyped
<1>2. CASE log = <<>>
  BY <1>2 DEF LastStatus
<1>3. CASE log # <<>>
  <2>1. Len(log) \in 1..Len(log)
    BY <1>1, <1>3
  <2>2. log[Len(log)] \in AuditEntry
    BY <1>1, <2>1
  <2>3. log[Len(log)].to_status \in Status
    BY <2>2 DEF AuditEntry
  <2> QED BY <1>3, <2>3 DEF LastStatus
<1> QED BY <1>2, <1>3

(* A gateway call keeps the types, answered or not.                        *)
LEMMA CreateRefundTyped ==
  ASSUME GatewayTyped, LeftTyped, TaskTyped, NEW w \in Worker, task[w].id \in Refund,
         NEW answered \in {"submit_ref", "recover_ref"}, NEW ACTION lost,
         lost => TaskTyped',
         CreateRefund(w, answered, lost)
  PROVE  GatewayTyped' /\ LeftTyped' /\ TaskTyped'
<1>1. CASE /\ Issue(task[w].id)
           /\ Becomes(w, [task[w] EXCEPT !.pc = answered, !.ref = gw_store'[task[w].id]])
           /\ UNCHANGED <<left, late>>
  <2>1. gw_store' \in [Refund -> Ref \cup {NoRef}] /\ gw_seq' \in Nat
    BY <1>1, IssueTyped
  <2> DEFINE ref == gw_store'[task[w].id]
             t == [task[w] EXCEPT !.pc = answered, !.ref = ref]
  <2>2. t \in Task /\ LocalsOK(t)
    <3>1. ref \in Ref \cup {NoRef}
      BY <2>1
    <3>2. task[w] \in Task
      BY DEF TaskTyped
    <3> HIDE DEF ref
    <3> QED BY <3>1, <3>2 DEF Task, PC, LocalsOK, OnRefund
  <2>3. TaskTyped'
    BY <1>1, <2>2, TaskUpdate
  <2> QED BY <1>1, <2>1, <2>3 DEF GatewayTyped, LeftTyped
<1>2. CASE /\ Spend("fault")
           /\ \/ Issue(task[w].id) /\ UNCHANGED late
              \/ UNCHANGED <<gw_store, gw_seq>> /\ late' = late \cup {task[w].id}
           /\ lost
  <2>1. LeftTyped'
    BY <1>2, SpendTyped DEF Bounded
  <2>2. GatewayTyped'
    BY <1>2, IssueTyped DEF GatewayTyped
  <2> QED BY <1>2, <2>1, <2>2
<1> QED BY <1>1, <1>2 DEF CreateRefund
-----------------------------------------------------------------------------
(* Each handler keeps the types.                                           *)

(* request_refund keeps the types.                                         *)
LEMMA RequestTyped ==
  ASSUME Typed, NEW w \in Worker,
         (\E r \in Refund : RequestBegin(w, r)) \/ RequestStep(w)
  PROVE  Typed'
<1> USE TypedParts
<1>1. ASSUME NEW r \in Refund, RequestBegin(w, r) PROVE Typed'
  <2> DEFINE t == [Idle EXCEPT !.pc = "request_lock", !.id = r]
  <2>1. t \in Task /\ LocalsOK(t)
    BY DEF Idle, Task, PC, LocalsOK, OnRefund, NoRef
  <2>2. TaskTyped' /\ LeftTyped'
    BY <1>1, <2>1, TaskUpdate, SpendTyped DEF RequestBegin, Bounded
  <2>3. DBTyped' /\ GatewayTyped'
    BY <1>1 DEF RequestBegin, requestVars, gatewayVars, DBTyped, GatewayTyped
  <2> QED BY <2>2, <2>3, TypedPartsPrime
<1>2. CASE RequestLock(w)
  <2>1. TaskTyped'
    BY <1>2, GotoTyped DEF RequestLock, At, PC, LocalsOK, OnRefund, TaskTyped, Task
  <2>2. DBTyped' /\ GatewayTyped' /\ LeftTyped'
    BY <1>2 DEF RequestLock, requestVars, gatewayVars, DBTyped, GatewayTyped, LeftTyped
  <2> QED BY <2>1, <2>2, TypedPartsPrime
<1>3. CASE RequestSum(w)
  <2> DEFINE sum == RefundedSoFar(ChargeOf[task[w].id])
             t == [task[w] EXCEPT !.pc = "request_insert", !.sum = sum]
  <2>1. sum \in Nat
    BY SumNat DEF RefundedSoFar, Counted
  <2>2. t \in Task /\ LocalsOK(t)
    <3> HIDE DEF sum
    <3>1. task[w] \in Task /\ task[w].id \in Refund
      BY <1>3 DEF TaskTyped, LocalsOK, OnRefund, RequestSum, At
    <3>2. t \in Task
      BY <2>1, <3>1 DEF Task, PC
    <3>3. t.pc = "request_insert" /\ t.id = task[w].id
      BY <3>1 DEF Task
    <3> HIDE DEF t
    <3>4. LocalsOK(t)
      BY <3>1, <3>3 DEF LocalsOK
    <3> QED BY <3>2, <3>4
  <2>3. TaskTyped'
    BY <1>3, <2>2, TaskUpdate, FinishTyped DEF RequestSum
  <2>4. DBTyped' /\ GatewayTyped' /\ LeftTyped'
    BY <1>3 DEF RequestSum, requestVars, gatewayVars, DBTyped, GatewayTyped, LeftTyped
  <2> QED BY <2>3, <2>4, TypedPartsPrime
<1>4. CASE RequestInsert(w)
  <2> DEFINE r == task[w].id
  <2>1. r \in Refund
    BY <1>4 DEF RequestInsert, At, OnRefund, LocalsOK, TaskTyped
  <2>2. InitialStatus(r) \in Status /\ Requester[r] \in Actor \cup SystemActor
    BY <2>1, ConstantTypes DEF InitialStatus, Status
  <2>3. refund_transitions' \in [Refund -> Seq(AuditEntry)]
    BY <1>4, <2>2, LogTyped DEF RequestInsert, DBTyped
  <2>4. status' \in [Refund -> Status \cup {Absent}]
    BY <1>4, <2>2 DEF RequestInsert, DBTyped
  <2>5. TaskTyped'
    BY <1>4, FinishTyped DEF RequestInsert
  <2>6. DBTyped' /\ GatewayTyped' /\ LeftTyped'
    BY <1>4, <2>3, <2>4 DEF RequestInsert, requestVars, gatewayVars, DBTyped, GatewayTyped, LeftTyped
  <2> QED BY <2>5, <2>6, TypedPartsPrime
<1> QED BY <1>1, <1>2, <1>3, <1>4 DEF RequestStep

(* approve keeps the types: it only writes the name it was called with.    *)
LEMMA ApproveTyped ==
  ASSUME Typed, NEW w \in Worker,
         (\E r \in Refund, a \in Actor : ApproveRead(w, r, a)) \/ ApproveStep(w)
  PROVE  Typed'
<1> USE TypedParts
<1>1. ASSUME NEW r \in Refund, NEW a \in Actor, ApproveRead(w, r, a) PROVE Typed'
  <2> DEFINE t == [Idle EXCEPT !.pc = "approve_mark", !.id = r, !.by = a]
  <2>1. t \in Task /\ LocalsOK(t)
    BY DEF Idle, Task, PC, LocalsOK, OnRefund, NoRef
  <2>2. TaskTyped' /\ LeftTyped'
    BY <1>1, <2>1, TaskUpdate, SpendTyped DEF ApproveRead, Bounded
  <2>3. DBTyped' /\ GatewayTyped'
    BY <1>1 DEF ApproveRead, approveVars, gatewayVars, DBTyped, GatewayTyped
  <2> QED BY <2>2, <2>3, TypedPartsPrime
<1>2. CASE ApproveMark(w)
  <2> DEFINE r == task[w].id
  <2>1. r \in Refund /\ task[w].by \in Actor
    BY <1>2 DEF ApproveMark, At, OnRefund, LocalsOK, TaskTyped
  <2>2. status' \in [Refund -> Status \cup {Absent}]
    BY <1>2 DEF ApproveMark, UpdateStatus, DBTyped, Status
  <2>3. approved' \in [Refund -> SUBSET Actor]
    BY <1>2, <2>1 DEF ApproveMark, DBTyped
  <2>4. TaskTyped'
    BY <1>2, GotoTyped DEF ApproveMark, At, PC, LocalsOK, OnRefund, TaskTyped, Task
  <2>5. DBTyped' /\ GatewayTyped' /\ LeftTyped'
    BY <1>2, <2>2, <2>3 DEF ApproveMark, approveVars, gatewayVars, DBTyped, GatewayTyped, LeftTyped
  <2> QED BY <2>4, <2>5, TypedPartsPrime
<1>3. CASE ApproveLog(w)
  <2>1. task[w].by \in Actor
    BY <1>3 DEF ApproveLog, At, LocalsOK, TaskTyped
  <2>2. refund_transitions' \in [Refund -> Seq(AuditEntry)]
    BY <1>3, <2>1, LogTyped DEF ApproveLog, DBTyped, Status
  <2>3. TaskTyped'
    BY <1>3, FinishTyped DEF ApproveLog
  <2>4. DBTyped' /\ GatewayTyped' /\ LeftTyped'
    BY <1>3, <2>2 DEF ApproveLog, approveVars, gatewayVars, DBTyped, GatewayTyped, LeftTyped
  <2> QED BY <2>3, <2>4, TypedPartsPrime
<1> QED BY <1>1, <1>2, <1>3 DEF ApproveStep

(* submit_refund keeps the types.                                          *)
LEMMA SubmitTyped ==
  ASSUME Typed, NEW w \in Worker,
         (\E r \in Refund : SubmitRead(w, r)) \/ SubmitStep(w)
  PROVE  Typed'
<1> USE TypedParts
<1>1. ASSUME NEW r \in Refund, SubmitRead(w, r) PROVE Typed'
  <2> DEFINE t == [Idle EXCEPT !.pc = AfterRead, !.id = r, !.seen = status[r]]
  <2>1. status[r] \in Status
    BY <1>1 DEF SubmitRead, Submittable, Status
  <2>2. t \in Task /\ LocalsOK(t)
    BY <2>1 DEF Idle, Task, PC, LocalsOK, OnRefund, NoRef, AfterRead
  <2>3. TaskTyped' /\ LeftTyped'
    BY <1>1, <2>2, TaskUpdate, SpendTyped DEF SubmitRead, Bounded
  <2>4. DBTyped' /\ GatewayTyped'
    BY <1>1 DEF SubmitRead, submitVars, gatewayVars, DBTyped, GatewayTyped
  <2> QED BY <2>3, <2>4, TypedPartsPrime
<1>2. CASE SubmitMark(w)
  <2>1. TaskTyped'
    BY <1>2, GotoTyped DEF SubmitMark, At, PC, LocalsOK, OnRefund, TaskTyped, Task
  <2>2. DBTyped' /\ GatewayTyped' /\ LeftTyped'
    BY <1>2 DEF SubmitMark, UpdateStatus, Status, submitVars, gatewayVars, DBTyped,
                GatewayTyped, LeftTyped
  <2> QED BY <2>1, <2>2, TypedPartsPrime
<1>3. CASE SubmitLog(w)
  <2>1. task[w].seen \in Status \cup {NULL}
    BY DEF TaskTyped, Task
  <2>2. refund_transitions' \in [Refund -> Seq(AuditEntry)]
    BY <1>3, <2>1, LogTyped DEF SubmitLog, DBTyped, Status, SystemActor
  <2>3. TaskTyped'
    BY <1>3, GotoTyped DEF SubmitLog, At, PC, LocalsOK, OnRefund, TaskTyped, Task
  <2>4. DBTyped' /\ GatewayTyped' /\ LeftTyped'
    BY <1>3, <2>2 DEF SubmitLog, submitVars, gatewayVars, DBTyped, GatewayTyped, LeftTyped
  <2> QED BY <2>3, <2>4, TypedPartsPrime
<1>4. CASE SubmitCall(w)
  <2>1. task[w].id \in Refund
    BY <1>4 DEF SubmitCall, At, OnRefund, LocalsOK, TaskTyped
  <2>2. Finish(w) => TaskTyped'
    BY FinishTyped
  <2>3. GatewayTyped' /\ LeftTyped' /\ TaskTyped'
    BY <1>4, <2>1, <2>2, CreateRefundTyped DEF SubmitCall
  <2>4. DBTyped'
    BY <1>4 DEF SubmitCall, submitVars, DBTyped
  <2> QED BY <2>3, <2>4, TypedPartsPrime
<1>5. CASE SubmitRef(w)
  <2>1. task[w].ref \in Ref \cup {NoRef}
    BY DEF TaskTyped, Task
  <2>2. gateway_ref' \in [Refund -> Ref \cup {NoRef}]
    BY <1>5, <2>1 DEF SubmitRef, UpdateRef, DBTyped
  <2>3. TaskTyped'
    BY <1>5, FinishTyped DEF SubmitRef
  <2>4. DBTyped' /\ GatewayTyped' /\ LeftTyped'
    BY <1>5, <2>2 DEF SubmitRef, submitVars, gatewayVars, DBTyped, GatewayTyped, LeftTyped
  <2> QED BY <2>3, <2>4, TypedPartsPrime
<1> QED BY <1>1, <1>2, <1>3, <1>4, <1>5 DEF SubmitStep

(* handle_webhook keeps the types.                                         *)
LEMMA WebhookTyped ==
  ASSUME Typed, NEW w \in Worker,
         (\E e \in Event : WebhookClaim(w, e)) \/ WebhookStep(w)
  PROVE  Typed'
<1> USE TypedParts
<1>1. ASSUME NEW e \in Event, WebhookClaim(w, e) PROVE Typed'
  <2> DEFINE t == [Idle EXCEPT !.pc = "webhook_snapshot", !.ev = e]
  <2>1. t \in Task /\ LocalsOK(t)
    BY DEF Idle, Task, PC, LocalsOK, OnRefund, NoRef
  <2>2. TaskTyped' /\ LeftTyped'
    BY <1>1, <2>1, TaskUpdate, SpendTyped DEF WebhookClaim, Bounded
  <2>3. DBTyped' /\ GatewayTyped'
    BY <1>1 DEF WebhookClaim, webhookVars, gatewayVars, DBTyped, GatewayTyped
  <2> QED BY <2>2, <2>3, TypedPartsPrime
<1>2. CASE WebhookSnapshot(w)
  <2> DEFINE rows == {<<r, LastStatus(r)>> : r \in {q \in Refund : Matches(q, task[w].ev)}}
             t == [task[w] EXCEPT !.pc = "webhook_apply", !.rows = rows]
  <2>1. rows \subseteq Refund \X (Status \cup {NULL})
    BY LastStatusTyped
  <2>2. t \in Task /\ LocalsOK(t)
    <3>1. task[w] \in Task /\ task[w].ev \in Event
      BY <1>2 DEF TaskTyped, LocalsOK, WebhookSnapshot, At
    <3>2. rows \in SUBSET (Refund \X (Status \cup {NULL}))
      BY <2>1
    <3> HIDE DEF rows
    <3>3. t \in Task
      BY <3>1, <3>2 DEF Task, PC
    <3> QED BY <3>1, <3>3 DEF LocalsOK, OnRefund, Task
  <2>3. TaskTyped'
    BY <1>2, <2>2, TaskUpdate DEF WebhookSnapshot
  <2>4. DBTyped' /\ GatewayTyped' /\ LeftTyped'
    BY <1>2 DEF WebhookSnapshot, webhookVars, gatewayVars, DBTyped, GatewayTyped, LeftTyped
  <2> QED BY <2>3, <2>4, TypedPartsPrime
<1>3. CASE WebhookApply(w)
  <2> DEFINE e == task[w].ev
             to == Verdict(EventKind[e])
             hits(r) == {row \in task[w].rows : row[1] = r /\ Matches(r, e)}
  <2>1. e \in Event
    BY <1>3 DEF WebhookApply, At, LocalsOK, TaskTyped
  <2>2. to \in Status
    BY DEF Verdict, Status
  <2>3. status' \in [Refund -> Status \cup {Absent}]
    <3>1. status' = [r \in Refund |-> IF hits(r) # {} THEN to ELSE status[r]]
      BY <1>3 DEF WebhookApply
    <3>2. \A r \in Refund : status[r] \in Status \cup {Absent}
      BY DEF DBTyped
    <3> DEFINE hit(r) == hits(r) # {}
    <3> HIDE DEF hit, to
    <3> QED BY <2>2, <3>1, <3>2 DEF hit
  <2>4. ASSUME NEW r \in Refund
        PROVE  Moved(refund_transitions[r], to, hits(r)) \in Seq(AuditEntry)
    <3> DEFINE log == refund_transitions[r]
    <3>1. log \in Seq(AuditEntry)
      BY DEF DBTyped
    <3>2. CASE hits(r) = {}
      BY <3>1, <3>2 DEF Moved
    <3>3. CASE hits(r) # {}
      <4> DEFINE hit == CHOOSE row \in hits(r) : TRUE
      <4>1. hit \in hits(r)
        BY <3>3
      <4>2. hit[2] \in Status \cup {NULL}
        <5>1. task[w].rows \subseteq Refund \X (Status \cup {NULL})
          BY DEF TaskTyped, Task
        <5> QED BY <4>1, <5>1
      <4>3. AuditRow(hit[2], to, "webhook") \in AuditEntry
        BY <2>2, <4>2 DEF AuditRow, AuditEntry, SystemActor
      <4>4. Moved(log, to, hits(r)) = Append(log, AuditRow(hit[2], to, "webhook"))
        BY <3>3 DEF Moved
      <4> HIDE DEF hit, to, log, hits
      <4>5. Append(log, AuditRow(hit[2], to, "webhook")) \in Seq(AuditEntry)
        BY <3>1, <4>3
      <4> QED BY <4>4, <4>5 DEF log
    <3> QED BY <3>2, <3>3
  <2>5. refund_transitions' \in [Refund -> Seq(AuditEntry)]
    BY <1>3, <2>4 DEF WebhookApply
  <2>6. TaskTyped'
    BY <1>3, FinishTyped DEF WebhookApply
  <2>7. DBTyped' /\ GatewayTyped' /\ LeftTyped'
    BY <1>3, <2>1, <2>3, <2>5
       DEF WebhookApply, webhookVars, gatewayVars, DBTyped, GatewayTyped, LeftTyped
  <2> QED BY <2>6, <2>7, TypedPartsPrime
<1> QED BY <1>1, <1>2, <1>3 DEF WebhookStep

(* Going on with the next stuck row keeps the tasks typed.                 *)
LEMMA NextRowTyped ==
  ASSUME TaskTyped, NEW w \in Worker, NextRow(w)
  PROVE  TaskTyped'
<1> DEFINE t == [Idle EXCEPT !.pc = "recover_next", !.rows = task[w].rows]
<1>1. t \in Task /\ LocalsOK(t)
  BY DEF TaskTyped, Idle, Task, PC, LocalsOK, OnRefund, NoRef
<1> QED BY <1>1, TaskUpdate, FinishTyped DEF NextRow

(* recover_submitted keeps the types.                                      *)
LEMMA RecoverTyped ==
  ASSUME Typed, NEW w \in Worker, RecoverScan(w) \/ RecoverStep(w)
  PROVE  Typed'
<1> USE TypedParts
<1>1. CASE RecoverScan(w)
  <2> DEFINE rows == {<<r, status[r]>> : r \in {q \in Refund : status[q] \in Stuck}}
             t == [Idle EXCEPT !.pc = "recover_next", !.rows = rows]
  <2>1. rows \subseteq Refund \X (Status \cup {NULL})
    BY DEF Stuck, Status
  <2>2. t \in Task /\ LocalsOK(t)
    <3> HIDE DEF rows
    <3> QED BY <2>1 DEF Idle, Task, PC, LocalsOK, OnRefund, NoRef
  <2>3. TaskTyped' /\ LeftTyped'
    BY <1>1, <2>2, TaskUpdate, SpendTyped DEF RecoverScan, Bounded
  <2>4. DBTyped' /\ GatewayTyped'
    BY <1>1 DEF RecoverScan, recoverVars, gatewayVars, DBTyped, GatewayTyped
  <2> QED BY <2>3, <2>4, TypedPartsPrime
<1>2. CASE RecoverLookup(w)
  <2> DEFINE t(row) == [Idle EXCEPT
               !.pc = IF Holds(row[1]) THEN "recover_adopt" ELSE "recover_mark",
               !.id = row[1], !.seen = row[2], !.ref = gw_store[row[1]],
               !.rows = task[w].rows \ {row}]
  <2>1. PICK row \in task[w].rows : Becomes(w, t(row))
    BY <1>2 DEF RecoverLookup
  <2>2. task[w].rows \subseteq Refund \X (Status \cup {NULL})
    BY DEF TaskTyped, Task
  <2>3. /\ row[1] \in Refund /\ row[2] \in Status \cup {NULL}
        /\ gw_store[row[1]] \in Ref \cup {NoRef}
    BY <2>1, <2>2 DEF GatewayTyped
  <2>4. t(row) \in Task /\ LocalsOK(t(row))
    BY <2>2, <2>3 DEF Idle, Task, PC, LocalsOK, OnRefund, NoRef
  <2>5. TaskTyped'
    BY <2>1, <2>4, TaskUpdate
  <2>6. DBTyped' /\ GatewayTyped' /\ LeftTyped'
    BY <1>2 DEF RecoverLookup, recoverVars, gatewayVars, DBTyped, GatewayTyped, LeftTyped
  <2> QED BY <2>5, <2>6, TypedPartsPrime
<1>3. CASE RecoverAdopt(w)
  <2>1. task[w].ref \in Ref \cup {NoRef}
    BY DEF TaskTyped, Task
  <2>2. TaskTyped'
    BY <1>3, GotoTyped DEF RecoverAdopt, At, PC, LocalsOK, OnRefund, TaskTyped, Task
  <2>3. DBTyped' /\ GatewayTyped' /\ LeftTyped'
    BY <1>3, <2>1 DEF RecoverAdopt, Status, recoverVars, gatewayVars, DBTyped,
                      GatewayTyped, LeftTyped
  <2> QED BY <2>2, <2>3, TypedPartsPrime
<1>4. CASE RecoverAdoptLog(w)
  <2>1. task[w].seen \in Status \cup {NULL}
    BY DEF TaskTyped, Task
  <2>2. refund_transitions' \in [Refund -> Seq(AuditEntry)]
    BY <1>4, <2>1, LogTyped DEF RecoverAdoptLog, DBTyped, Status, SystemActor
  <2>3. TaskTyped'
    BY <1>4, NextRowTyped DEF RecoverAdoptLog
  <2>4. DBTyped' /\ GatewayTyped' /\ LeftTyped'
    BY <1>4, <2>2 DEF RecoverAdoptLog, recoverVars, gatewayVars, DBTyped, GatewayTyped, LeftTyped
  <2> QED BY <2>3, <2>4, TypedPartsPrime
<1>5. CASE RecoverMark(w)
  <2>1. TaskTyped'
    BY <1>5, GotoTyped DEF RecoverMark, At, PC, LocalsOK, OnRefund, TaskTyped, Task
  <2>2. DBTyped' /\ GatewayTyped' /\ LeftTyped'
    BY <1>5 DEF RecoverMark, UpdateStatus, Status, recoverVars, gatewayVars, DBTyped,
                GatewayTyped, LeftTyped
  <2> QED BY <2>1, <2>2, TypedPartsPrime
<1>6. CASE RecoverCall(w)
  <2>1. task[w].id \in Refund
    BY <1>6 DEF RecoverCall, At, OnRefund, LocalsOK, TaskTyped
  <2>2. Goto(w, "recover_log") => TaskTyped'
    BY <2>1, GotoTyped DEF PC, LocalsOK, OnRefund, TaskTyped, Task
  <2>3. GatewayTyped' /\ LeftTyped' /\ TaskTyped'
    BY <1>6, <2>1, <2>2, CreateRefundTyped DEF RecoverCall
  <2>4. DBTyped'
    BY <1>6 DEF RecoverCall, recoverVars, DBTyped
  <2> QED BY <2>3, <2>4, TypedPartsPrime
<1>7. CASE RecoverRef(w)
  <2>1. task[w].ref \in Ref \cup {NoRef}
    BY DEF TaskTyped, Task
  <2>2. gateway_ref' \in [Refund -> Ref \cup {NoRef}]
    BY <1>7, <2>1 DEF RecoverRef, UpdateRef, DBTyped
  <2>3. TaskTyped'
    BY <1>7, GotoTyped DEF RecoverRef, At, PC, LocalsOK, OnRefund, TaskTyped, Task
  <2>4. DBTyped' /\ GatewayTyped' /\ LeftTyped'
    BY <1>7, <2>2 DEF RecoverRef, recoverVars, gatewayVars, DBTyped, GatewayTyped, LeftTyped
  <2> QED BY <2>3, <2>4, TypedPartsPrime
<1>8. CASE RecoverLog(w)
  <2>1. task[w].seen \in Status \cup {NULL}
    BY DEF TaskTyped, Task
  <2>2. refund_transitions' \in [Refund -> Seq(AuditEntry)]
    BY <1>8, <2>1, LogTyped DEF RecoverLog, DBTyped, Status, SystemActor
  <2>3. TaskTyped'
    BY <1>8, NextRowTyped DEF RecoverLog
  <2>4. DBTyped' /\ GatewayTyped' /\ LeftTyped'
    BY <1>8, <2>2 DEF RecoverLog, recoverVars, gatewayVars, DBTyped, GatewayTyped, LeftTyped
  <2> QED BY <2>3, <2>4, TypedPartsPrime
<1> QED BY <1>1, <1>2, <1>3, <1>4, <1>5, <1>6, <1>7, <1>8 DEF RecoverStep

(* A call cut off keeps the types.                                         *)
LEMMA AbortTyped ==
  ASSUME Typed, NEW w \in Worker, Abort(w)
  PROVE  Typed'
<1> USE TypedParts
<1>1. TaskTyped' /\ LeftTyped'
  BY FinishTyped, SpendTyped DEF Abort, Bounded
<1>2. late' \subseteq Refund
  BY DEF Abort, GatewayTyped, TaskTyped, LocalsOK, OnRefund
<1>3. DBTyped' /\ GatewayTyped'
  BY <1>2 DEF Abort, DBTyped, GatewayTyped
<1> QED BY <1>1, <1>3, TypedPartsPrime

(* A create that arrives late keeps the types.                             *)
LEMMA LateArrivalTyped ==
  ASSUME Typed, NEW r \in Refund, LateArrival(r)
  PROVE  Typed'
<1> USE TypedParts
<1>1. GatewayTyped'
  BY IssueTyped DEF LateArrival, GatewayTyped
<1>2. DBTyped' /\ LeftTyped' /\ TaskTyped'
  BY DEF LateArrival, DBTyped, LeftTyped, TaskTyped
<1> QED BY <1>1, <1>2, TypedPartsPrime
-----------------------------------------------------------------------------
(* An empty database is well typed.                                        *)
LEMMA TypedInit == Init => Typed
<1> SUFFICES ASSUME Init PROVE Typed
  OBVIOUS
<1>1. TaskTyped
  BY IdleTyped DEF Init, TaskTyped
<1>2. DBTyped /\ GatewayTyped /\ LeftTyped
  BY ConstantTypes DEF Init, GwInit, DBTyped, GatewayTyped, LeftTyped
<1> QED BY <1>1, <1>2, TypedParts

(* Every step of the engine keeps the types.                               *)
LEMMA TypedNext == Typed /\ [Next]_vars => Typed'
<1> SUFFICES ASSUME Typed, [Next]_vars PROVE Typed'
  OBVIOUS
<1>1. ASSUME NEW w \in Worker, Start(w) PROVE Typed'
  BY <1>1, RequestTyped, ApproveTyped, SubmitTyped, WebhookTyped, RecoverTyped DEF Start
<1>2. ASSUME NEW w \in Worker, Step(w) PROVE Typed'
  BY <1>2, RequestTyped, ApproveTyped, SubmitTyped, WebhookTyped, RecoverTyped DEF Step
<1>3. ASSUME NEW w \in Worker, Abort(w) PROVE Typed'
  BY <1>3, AbortTyped
<1>4. ASSUME NEW r \in Refund, LateArrival(r) PROVE Typed'
  BY <1>4, LateArrivalTyped
<1>5. CASE UNCHANGED vars
  <2>1. DBTyped' /\ GatewayTyped' /\ LeftTyped' /\ TaskTyped'
    BY <1>5, TypedParts DEF vars, DBTyped, GatewayTyped, LeftTyped, TaskTyped
  <2> QED BY <2>1, TypedPartsPrime
<1> QED BY <1>1, <1>2, <1>3, <1>4, <1>5 DEF Next, Rest

(* Every variable keeps its type, and every call has, wherever it stands,  *)
(* the locals that place needs.                                            *)
THEOREM AlwaysTyped == Spec => []Typed
BY TypedInit, TypedNext, PTL DEF Spec

(* Type correctness.                                                       *)
THEOREM TypeCorrect == Spec => []TypeOK
<1>1. Typed => TypeOK
  BY DEF Typed
<1> QED BY <1>1, AlwaysTyped, PTL
-----------------------------------------------------------------------------
(* What one worker's step must respect for the others to keep what they    *)
(* rely on.                                                                *)
Advances(r) ==
  /\ status[r] # Absent => status'[r] # Absent
  /\ Released(r) => status'[r] \in {"requested", "submitted", "settled", "failed"}
  /\ Sent(r) => status'[r] \in {"submitted", "settled", "failed"}
  /\ Holds(r) => gw_store'[r] = gw_store[r]

\* Only the transaction that drew a row's id may insert it.
Inserts(w, r) == task[w].pc \in Requesting /\ task[w].id = r

(* What a change of one task leaves behind.                                *)
LEMMA TaskChange ==
  ASSUME TaskTyped, NEW w \in Worker, NEW t, Becomes(w, t)
  PROVE  /\ task'[w] = t
         /\ \A v \in Worker \ {w} : task'[v] = task[v]
BY DEF TaskTyped, Becomes

(* A call keeps what it relies on while another one takes a step.          *)
LEMMA OthersKeep ==
  ASSUME Typed, EngineInv, NEW w \in Worker,
         \A v \in Worker \ {w} : task'[v] = task[v],
         \A r \in Refund : Advances(r),
         \A r \in Refund : status[r] = Absent /\ ~Inserts(w, r) => status'[r] = Absent,
         NEW v \in Worker \ {w}
  PROVE  TaskInv(v)'
<1> DEFINE t == task[v]
<1>1. task'[v] = t /\ TaskInv(v)
  BY DEF EngineInv
<1>2. t.pc \in OnRefund => t.id \in Refund
  BY DEF Typed, TaskTyped, LocalsOK
<1>3. \A row \in t.rows : row[1] \in Refund
  BY DEF Typed, TaskTyped, Task
<1>4. t.pc \in Requesting => ~Inserts(w, t.id)
  BY DEF EngineInv, Exclusive, Inserts
<1> HIDE DEF t
<1> QED BY <1>1, <1>2, <1>3, <1>4
     DEF TaskInv, Advances, OnRefund, Requesting, Holds, Released, Sent, Walking, t

(* To show that a step of w keeps the invariant: it keeps the rows, it     *)
(* respects the other calls, and it leaves w with what w relies on next.   *)
LEMMA StepKeeps ==
  ASSUME Typed, EngineInv, NEW w \in Worker,
         \A v \in Worker \ {w} : task'[v] = task[v],
         \A r \in Refund : Advances(r) /\ RowInv(r)',
         \A r \in Refund : status[r] = Absent /\ ~Inserts(w, r) => status'[r] = Absent,
         TaskInv(w)',
         \A v \in Worker \ {w} : Exclusive(v, w)' /\ Exclusive(w, v)'
  PROVE  EngineInv'
<1>1. \A v \in Worker : TaskInv(v)'
  BY OthersKeep
<1>2. \A u, v \in Worker : u # v => Exclusive(u, v)'
  <2> SUFFICES ASSUME NEW u \in Worker, NEW v \in Worker, u # v
               PROVE  Exclusive(u, v)'
    OBVIOUS
  <2>1. CASE u = w \/ v = w
    BY <2>1
  <2>2. CASE u # w /\ v # w
    BY <2>2 DEF EngineInv, Exclusive, HasLock
  <2> QED BY <2>1, <2>2
<1> QED BY <1>1, <1>2 DEF EngineInv

(* The same for a step after which w is no request.                        *)
LEMMA OtherStepKeeps ==
  ASSUME Typed, EngineInv, NEW w \in Worker,
         \A v \in Worker \ {w} : task'[v] = task[v],
         \A r \in Refund : Advances(r) /\ RowInv(r)',
         \A r \in Refund : status[r] = Absent /\ ~Inserts(w, r) => status'[r] = Absent,
         TaskInv(w)',
         task'[w].pc \notin Requesting
  PROVE  EngineInv'
<1>1. \A v \in Worker \ {w} : Exclusive(v, w)' /\ Exclusive(w, v)'
  BY DEF Exclusive, HasLock, Requesting
<1> QED BY <1>1, StepKeeps

(* A step that leaves rows and gateway alone.                              *)
LEMMA RowsUntouched ==
  ASSUME EngineInv, UNCHANGED <<status, gateway_ref, gw_store, late, approved>>
  PROVE  /\ \A r \in Refund : Advances(r) /\ RowInv(r)'
         /\ \A r \in Refund : status[r] = Absent => status'[r] = Absent
BY DEF EngineInv, RowInv, Advances, Released, Sent, Holds

(* An idle worker relies on nothing.                                       *)
LEMMA FinishedKeeps ==
  ASSUME TaskTyped, NEW w \in Worker, Finish(w)
  PROVE  /\ TaskInv(w)'
         /\ task'[w].pc \notin Requesting
         /\ \A v \in Worker \ {w} : task'[v] = task[v]
<1>1. task'[w] = Idle /\ \A v \in Worker \ {w} : task'[v] = task[v]
  BY TaskChange DEF Finish
<1> QED BY <1>1 DEF TaskInv, Idle, Requesting, Walking
-----------------------------------------------------------------------------
(* Each handler keeps the invariant.                                       *)

(* request_refund keeps the invariant: the lock keeps transactions apart.  *)
LEMMA RequestKeeps ==
  ASSUME Typed, EngineInv, NEW w \in Worker,
         (\E r \in Refund : RequestBegin(w, r)) \/ RequestStep(w)
  PROVE  EngineInv'
<1>0. TaskTyped
  BY DEF Typed
<1>1. ASSUME NEW r \in Refund, RequestBegin(w, r) PROVE EngineInv'
  <2> DEFINE t == [Idle EXCEPT !.pc = "request_lock", !.id = r]
  <2>1. task'[w] = t /\ \A v \in Worker \ {w} : task'[v] = task[v]
    BY <1>0, <1>1, TaskChange DEF RequestBegin
  <2>2. t.pc = "request_lock" /\ t.id = r
    BY DEF Idle
  <2>3. UNCHANGED <<status, gateway_ref, gw_store, late, approved>>
    BY <1>1 DEF RequestBegin, requestVars, gatewayVars
  <2>4. TaskInv(w)'
    BY <1>1, <2>1, <2>2, <2>3 DEF TaskInv, RequestBegin, Fresh, Walking
  <2>5. \A v \in Worker \ {w} : Exclusive(v, w)' /\ Exclusive(w, v)'
    BY <1>1, <2>1, <2>2 DEF Exclusive, HasLock, RequestBegin, Fresh
  <2> QED BY <2>1, <2>3, <2>4, <2>5, RowsUntouched, StepKeeps
<1>2. CASE RequestLock(w)
  <2> DEFINE t == [task[w] EXCEPT !.pc = "request_sum"]
  <2>1. task'[w] = t /\ \A v \in Worker \ {w} : task'[v] = task[v]
    BY <1>0, <1>2, TaskChange DEF RequestLock, Goto
  <2>2. t.pc = "request_sum" /\ t.id = task[w].id
    BY <1>0 DEF TaskTyped, Task
  <2>3. UNCHANGED <<status, gateway_ref, gw_store, late, approved>>
    BY <1>2 DEF RequestLock, requestVars, gatewayVars
  <2>4. TaskInv(w)'
    BY <1>2, <2>1, <2>2, <2>3 DEF TaskInv, RequestLock, At, EngineInv, Walking
  <2>5. \A v \in Worker \ {w} : Exclusive(v, w) /\ Exclusive(w, v)
    BY DEF EngineInv
  <2>6. \A v \in Worker \ {w} : Exclusive(v, w)' /\ Exclusive(w, v)'
    BY <1>2, <2>1, <2>2, <2>5 DEF Exclusive, HasLock, RequestLock, ChargeLocked, At, Requesting
  <2> QED BY <2>1, <2>3, <2>4, <2>6, RowsUntouched, StepKeeps
<1>3. CASE RequestSum(w)
  <2>1. UNCHANGED <<status, gateway_ref, gw_store, late, approved>>
    BY <1>3 DEF RequestSum, requestVars, gatewayVars
  <2>2. CASE Finish(w)
    BY <1>0, <2>1, <2>2, FinishedKeeps, RowsUntouched, OtherStepKeeps
  <2>3. ASSUME NEW sum, Becomes(w, [task[w] EXCEPT !.pc = "request_insert", !.sum = sum])
        PROVE  EngineInv'
    <3> DEFINE t == [task[w] EXCEPT !.pc = "request_insert", !.sum = sum]
    <3>1. task'[w] = t /\ \A v \in Worker \ {w} : task'[v] = task[v]
      BY <1>0, <2>3, TaskChange
    <3>2. t.pc = "request_insert" /\ t.id = task[w].id
      BY <1>0 DEF TaskTyped, Task
    <3>3. TaskInv(w)'
      BY <1>3, <2>1, <3>1, <3>2 DEF TaskInv, RequestSum, At, EngineInv, Walking
    <3>4. \A v \in Worker \ {w} : Exclusive(v, w) /\ Exclusive(w, v)
      BY DEF EngineInv
    <3>5. \A v \in Worker \ {w} : Exclusive(v, w)' /\ Exclusive(w, v)'
      BY <1>3, <3>1, <3>2, <3>4 DEF Exclusive, HasLock, RequestSum, At, Requesting
    <3> QED BY <2>1, <3>1, <3>3, <3>5, RowsUntouched, StepKeeps
  <2> QED BY <1>3, <2>2, <2>3 DEF RequestSum
<1>4. CASE RequestInsert(w)
  <2> DEFINE r == task[w].id
  <2>1. r \in Refund /\ status[r] = Absent /\ Inserts(w, r)
    BY <1>0, <1>4 DEF RequestInsert, At, TaskTyped, LocalsOK, OnRefund, EngineInv, TaskInv,
                      Inserts, Requesting
  <2>2. Finish(w) /\ UNCHANGED <<gateway_ref, gw_store, late, approved>>
    BY <1>4 DEF RequestInsert, requestVars, gatewayVars
  <2>3. RowInv(r) /\ Amount[r] \in Int /\ ReviewThreshold \in Int
    BY <2>1, AmountType, ConstantTypes DEF EngineInv
  <2>4. \A q \in Refund \ {r} : status'[q] = status[q] /\ RowInv(q)
    BY <1>4 DEF RequestInsert, EngineInv, Typed, TypeOK
  <2>5. status'[r] = status[r] \/ (Amount[r] > 0 /\ status'[r] = InitialStatus(r))
    BY <1>4, <2>1 DEF RequestInsert, Typed, TypeOK
  <2>6. \A q \in Refund : Advances(q) /\ RowInv(q)'
    <3> SUFFICES ASSUME NEW q \in Refund PROVE Advances(q) /\ RowInv(q)'
      OBVIOUS
    <3> HIDE DEF r
    <3>1. CASE status'[q] = status[q]
      <4>1. RowInv(q)
        BY DEF EngineInv
      <4> QED BY <2>2, <3>1, <4>1 DEF RowInv, Advances, Released, Sent, Holds
    <3>2. CASE q = r /\ Amount[r] > 0 /\ status'[r] = InitialStatus(r)
      <4>1. gateway_ref'[q] = NoRef /\ ~Holds(q) /\ ~(q \in late')
        BY <2>1, <2>2, <2>3, <3>2 DEF RowInv, Holds, Sent, Absent
      <4>2. \/ status'[q] = "pending_review"
            \/ status'[q] = "requested" /\ ~(Amount[q] >= ReviewThreshold)
        BY <3>2 DEF InitialStatus
      <4>3. RowInv(q)'
        BY <2>2, <3>2, <4>1, <4>2 DEF RowInv, Released, Sent, Holds
      <4>4. Advances(q)
        BY <2>1, <3>2, <4>1 DEF Advances, Released, Sent, Absent
      <4> QED BY <4>3, <4>4
    <3> QED BY <2>4, <2>5, <3>1, <3>2
  <2>8. \A q \in Refund : status[q] = Absent /\ ~Inserts(w, q) => status'[q] = Absent
    BY <2>1, <2>4
  <2> QED BY <1>0, <2>2, <2>6, <2>8, FinishedKeeps, OtherStepKeeps
<1> QED BY <1>1, <1>2, <1>3, <1>4 DEF RequestStep

(* approve keeps the invariant: it releases a row in the name it checked.  *)
LEMMA ApproveKeeps ==
  ASSUME Typed, EngineInv, NEW w \in Worker,
         (\E r \in Refund, a \in Actor : ApproveRead(w, r, a)) \/ ApproveStep(w)
  PROVE  EngineInv'
<1>0. TaskTyped
  BY DEF Typed
<1>1. ASSUME NEW r \in Refund, NEW a \in Actor, ApproveRead(w, r, a) PROVE EngineInv'
  <2> DEFINE t == [Idle EXCEPT !.pc = "approve_mark", !.id = r, !.by = a]
  <2>1. task'[w] = t /\ \A v \in Worker \ {w} : task'[v] = task[v]
    BY <1>0, <1>1, TaskChange DEF ApproveRead
  <2>2. t.pc = "approve_mark" /\ t.id = r /\ t.by = a
    BY DEF Idle
  <2>3. UNCHANGED <<status, gateway_ref, gw_store, late, approved>>
    BY <1>1 DEF ApproveRead, approveVars, gatewayVars
  <2>4. TaskInv(w)' /\ task'[w].pc \notin Requesting
    BY <1>1, <2>1, <2>2, <2>3 DEF TaskInv, ApproveRead, MayApprove, Absent, Walking, Requesting
  <2> QED BY <2>1, <2>3, <2>4, RowsUntouched, OtherStepKeeps
<1>2. CASE ApproveMark(w)
  <2> DEFINE r == task[w].id
             t == [task[w] EXCEPT !.pc = "approve_log"]
  <2>1. /\ r \in Refund /\ task[w].by \in Actor /\ task[w].by # Requester[r]
        /\ status[r] # Absent
    BY <1>0, <1>2 DEF ApproveMark, At, TaskTyped, LocalsOK, OnRefund, EngineInv, TaskInv
  <2>2. task'[w] = t /\ \A v \in Worker \ {w} : task'[v] = task[v]
    BY <1>0, <1>2, TaskChange DEF ApproveMark, Goto
  <2>3. t.pc = "approve_log" /\ t.id = r
    BY <1>0 DEF TaskTyped, Task
  <2>5. UNCHANGED <<gateway_ref, gw_store, late>>
    BY <1>2 DEF ApproveMark, approveVars, gatewayVars
  <2>6. \/ status[r] # "pending_review" /\ UNCHANGED <<status, approved>>
        \/ /\ status[r] = "pending_review"
           /\ status' = [status EXCEPT ![r] = "requested"]
           /\ approved' = [approved EXCEPT ![r] = @ \cup {task[w].by}]
    BY <1>2 DEF ApproveMark, UpdateStatus, Approvable
  <2> HIDE DEF r, t
  <2>4. TaskInv(w)' /\ task'[w].pc \notin Requesting
    <3>1. status[r] \in Status \cup {Absent} /\ status[r] # "canceled"
      BY <2>1 DEF Typed, TypeOK, EngineInv, RowInv
    <3>2. CASE status' = status /\ status[r] # "pending_review"
      BY <2>1, <2>2, <2>3, <3>1, <3>2 DEF TaskInv, Released, Walking, Requesting, Status
    <3>3. CASE status'[r] = "requested"
      BY <2>2, <2>3, <3>3 DEF TaskInv, Released, Walking, Requesting
    <3>4. status'[r] = "requested" \/ (status' = status /\ status[r] # "pending_review")
      BY <2>1, <2>6 DEF Typed, TypeOK
    <3> QED BY <3>2, <3>3, <3>4
  <2>7. ASSUME /\ status[r] = "pending_review"
               /\ status' = [status EXCEPT ![r] = "requested"]
               /\ approved' = [approved EXCEPT ![r] = @ \cup {task[w].by}],
               NEW q \in Refund
        PROVE  Advances(q) /\ RowInv(q)' /\ (status[q] = Absent => status'[q] = Absent)
    <3>1. RowInv(q)
      BY DEF EngineInv
    <3>2. CASE q = r
      <4>1. status'[q] = "requested" /\ task[w].by \in approved'[q]
        BY <2>1, <2>7, <3>2 DEF Typed, TypeOK
      <4> QED BY <2>1, <2>5, <2>7, <3>1, <3>2, <4>1
           DEF RowInv, Advances, Released, Sent, Holds, Absent
    <3>3. CASE q # r
      <4>1. status'[q] = status[q] /\ approved'[q] = approved[q]
        BY <2>7, <3>3 DEF Typed, TypeOK
      <4> QED BY <2>5, <3>1, <4>1 DEF RowInv, Advances, Released, Sent, Holds
    <3> QED BY <3>2, <3>3
  <2>8. /\ \A q \in Refund : Advances(q) /\ RowInv(q)'
        /\ \A q \in Refund : status[q] = Absent => status'[q] = Absent
    BY <2>5, <2>6, <2>7, RowsUntouched
  <2> QED BY <2>2, <2>4, <2>8, OtherStepKeeps
<1>3. CASE ApproveLog(w)
  <2>1. Finish(w) /\ UNCHANGED <<status, gateway_ref, gw_store, late, approved>>
    BY <1>3 DEF ApproveLog, approveVars, gatewayVars
  <2> QED BY <1>0, <2>1, FinishedKeeps, RowsUntouched, OtherStepKeeps
<1> QED BY <1>1, <1>2, <1>3 DEF ApproveStep

(* What marking a row, creating it at the gateway and recording its        *)
(* reference do to the rows: the steps submit and recovery share.          *)
LEMMA MarkKeepsRows ==
  ASSUME Typed, EngineInv, NEW r \in Refund, Released(r),
         UpdateStatus(r, {"requested", "submitted"}, "submitted"),
         UNCHANGED <<gateway_ref, gw_store, late, approved>>
  PROVE  /\ \A q \in Refund : Advances(q) /\ RowInv(q)'
         /\ \A q \in Refund : status[q] = Absent => status'[q] = Absent
         /\ status'[r] \in {"submitted", "settled", "failed"}
<1>1. \A q \in Refund : RowInv(q)
  BY DEF EngineInv
<1>2. \A q \in Refund \ {r} : status'[q] = status[q]
  BY DEF UpdateStatus, Typed, TypeOK
<1>3. \/ status'[r] = status[r] /\ status[r] \notin {"requested", "submitted"}
      \/ status'[r] = "submitted" /\ status[r] \in {"requested", "submitted"}
  BY DEF UpdateStatus, Typed, TypeOK
<1>4. ASSUME NEW q \in Refund
      PROVE  Advances(q) /\ RowInv(q)' /\ (status[q] = Absent => status'[q] = Absent)
  BY <1>1, <1>2, <1>3 DEF RowInv, Advances, Released, Sent, Holds, Absent
<1>5. status'[r] \in {"submitted", "settled", "failed"}
  BY <1>3 DEF Released
<1> QED BY <1>4, <1>5

(* The gateway may issue a row that is marked submitted.                   *)
LEMMA IssueKeepsRows ==
  ASSUME Typed, EngineInv, NEW r \in Refund, Sent(r),
         Issue(r) \/ UNCHANGED <<gw_store, gw_seq>>,
         late' \subseteq late \cup {r},
         UNCHANGED <<status, gateway_ref, approved>>
  PROVE  /\ \A q \in Refund : Advances(q) /\ RowInv(q)'
         /\ \A q \in Refund : status[q] = Absent => status'[q] = Absent
<1>1. \A q \in Refund : RowInv(q)
  BY DEF EngineInv
<1>2. \A q \in Refund : gw_store'[q] = gw_store[q] \/ (q = r /\ gw_store[q] = NoRef)
  BY DEF Issue, Holds, Typed, TypeOK, GwTypeOK
<1>3. ASSUME NEW q \in Refund
      PROVE  Advances(q) /\ RowInv(q)' /\ (status[q] = Absent => status'[q] = Absent)
  BY <1>1, <1>2 DEF RowInv, Advances, Released, Sent, Holds, Absent
<1> QED BY <1>3

(* Recording the gateway's own reference keeps the rows.                   *)
LEMMA RefKeepsRows ==
  ASSUME Typed, EngineInv, NEW r \in Refund, NEW ref, ref # NoRef, ref = gw_store[r],
         UpdateRef(r, ref),
         UNCHANGED <<status, gw_store, late, approved>>
  PROVE  /\ \A q \in Refund : Advances(q) /\ RowInv(q)'
         /\ \A q \in Refund : status[q] = Absent => status'[q] = Absent
<1>1. \A q \in Refund : RowInv(q)
  BY DEF EngineInv
<1>2. \A q \in Refund : gateway_ref'[q] = gateway_ref[q] \/ (q = r /\ gateway_ref'[q] = ref)
  BY DEF UpdateRef, Typed, TypeOK
<1>3. ASSUME NEW q \in Refund
      PROVE  Advances(q) /\ RowInv(q)' /\ (status[q] = Absent => status'[q] = Absent)
  BY <1>1, <1>2 DEF RowInv, Advances, Released, Sent, Holds
<1> QED BY <1>3

(* A create leaves its caller with the gateway's reference for the row, or *)
(* where a lost answer sends it.                                           *)
LEMMA CreateRefundKeeps ==
  ASSUME Typed, EngineInv, NEW w \in Worker, task[w].id \in Refund, Sent(task[w].id),
         NEW answered \in {"submit_ref", "recover_ref"}, NEW ACTION lost,
         answered = "recover_ref" => \A row \in task[w].rows : Released(row[1]),
         CreateRefund(w, answered, lost),
         UNCHANGED <<status, gateway_ref, approved>>,
         lost /\ (\A r \in Refund : Advances(r)) =>
           /\ TaskInv(w)'
           /\ task'[w].pc \notin Requesting
           /\ \A v \in Worker \ {w} : task'[v] = task[v]
  PROVE  EngineInv'
<1>0. TaskTyped
  BY DEF Typed
<1>1. Issue(task[w].id) \/ UNCHANGED <<gw_store, gw_seq>>
  BY DEF CreateRefund
<1>2. late' \subseteq late \cup {task[w].id}
  BY DEF CreateRefund
<1>3. /\ \A r \in Refund : Advances(r) /\ RowInv(r)'
      /\ \A r \in Refund : status[r] = Absent => status'[r] = Absent
  BY <1>1, <1>2, IssueKeepsRows
<1>4. CASE /\ Issue(task[w].id)
           /\ Becomes(w, [task[w] EXCEPT !.pc = answered, !.ref = gw_store'[task[w].id]])
  <2> DEFINE r == task[w].id
             ref == gw_store'[r]
             t == [task[w] EXCEPT !.pc = answered, !.ref = ref]
  <2>1. task'[w] = t /\ \A v \in Worker \ {w} : task'[v] = task[v]
    BY <1>0, <1>4, TaskChange
  <2>2. t.pc = answered /\ t.ref = ref /\ t.id = r /\ t.rows = task[w].rows
    BY <1>0 DEF TaskTyped, Task
  <2>3. ref # NoRef
    BY <1>4 DEF Issue, Holds, Typed, TypeOK, GwTypeOK, NoRef
  <2>4. /\ status'[r] \in {"submitted", "settled", "failed"}
        /\ \A row \in task[w].rows : Released(row[1]) =>
             status'[row[1]] \in {"requested", "submitted", "settled", "failed"}
    BY DEF Sent, Released
  <2> HIDE DEF t, ref, r
  <2>5. TaskInv(w)' /\ task'[w].pc \notin Requesting
    <3>1. gw_store'[r] = ref
      BY DEF ref
    <3> QED BY <2>1, <2>2, <2>3, <2>4, <3>1 DEF TaskInv, Requesting, Walking, Sent, Released
  <2> QED BY <1>3, <2>1, <2>5, OtherStepKeeps
<1>5. CASE lost
  BY <1>3, <1>5, OtherStepKeeps
<1> QED BY <1>4, <1>5 DEF CreateRefund

(* submit_refund keeps the invariant, whatever became of the row it read.  *)
LEMMA SubmitKeeps ==
  ASSUME Typed, EngineInv, NEW w \in Worker,
         (\E r \in Refund : SubmitRead(w, r)) \/ SubmitStep(w)
  PROVE  EngineInv'
<1>0. TaskTyped
  BY DEF Typed
<1>1. ASSUME NEW r \in Refund, SubmitRead(w, r) PROVE EngineInv'
  <2> DEFINE t == [Idle EXCEPT !.pc = AfterRead, !.id = r, !.seen = status[r]]
  <2>1. task'[w] = t /\ \A v \in Worker \ {w} : task'[v] = task[v]
    BY <1>0, <1>1, TaskChange DEF SubmitRead
  <2>2. t.pc = "submit_mark" /\ t.id = r
    BY DEF Idle, AfterRead
  <2>3. UNCHANGED <<status, gateway_ref, gw_store, late, approved>>
    BY <1>1 DEF SubmitRead, submitVars, gatewayVars
  <2>4. Released(r)'
    BY <1>1, <2>3 DEF SubmitRead, Submittable, Released
  <2>5. TaskInv(w)' /\ task'[w].pc \notin Requesting
    BY <2>1, <2>2, <2>4 DEF TaskInv, Walking, Requesting, Released
  <2> QED BY <2>1, <2>3, <2>5, RowsUntouched, OtherStepKeeps
<1>2. CASE SubmitMark(w)
  <2> DEFINE r == task[w].id
             next == IF NeedsLog(task[w].seen) THEN "submit_log" ELSE "submit_call"
             t == [task[w] EXCEPT !.pc = next]
  <2>1. r \in Refund /\ Released(r)
    BY <1>0, <1>2 DEF SubmitMark, At, TaskTyped, LocalsOK, OnRefund, EngineInv, TaskInv
  <2>2. task'[w] = t /\ \A v \in Worker \ {w} : task'[v] = task[v]
    BY <1>0, <1>2, TaskChange DEF SubmitMark, Goto
  <2>3. t.pc \in {"submit_log", "submit_call"} /\ t.id = r
    BY <1>0 DEF TaskTyped, Task
  <2>4. /\ UpdateStatus(r, {"requested", "submitted"}, "submitted")
        /\ UNCHANGED <<gateway_ref, gw_store, late, approved>>
    BY <1>2 DEF SubmitMark, Submittable, submitVars, gatewayVars
  <2> HIDE DEF r, t
  <2>5. /\ \A q \in Refund : Advances(q) /\ RowInv(q)'
        /\ \A q \in Refund : status[q] = Absent => status'[q] = Absent
        /\ status'[r] \in {"submitted", "settled", "failed"}
    BY <2>1, <2>4, MarkKeepsRows
  <2>6. TaskInv(w)' /\ task'[w].pc \notin Requesting
    BY <2>2, <2>3, <2>5 DEF TaskInv, Walking, Requesting, Sent
  <2> QED BY <2>2, <2>5, <2>6, OtherStepKeeps
<1>3. CASE SubmitLog(w)
  <2> DEFINE t == [task[w] EXCEPT !.pc = "submit_call"]
  <2>1. Sent(task[w].id)
    BY <1>3 DEF SubmitLog, At, EngineInv, TaskInv
  <2>2. task'[w] = t /\ \A v \in Worker \ {w} : task'[v] = task[v]
    BY <1>0, <1>3, TaskChange DEF SubmitLog, Goto
  <2>3. t.pc = "submit_call" /\ t.id = task[w].id
    BY <1>0 DEF TaskTyped, Task
  <2>4. UNCHANGED <<status, gateway_ref, gw_store, late, approved>>
    BY <1>3 DEF SubmitLog, submitVars, gatewayVars
  <2>5. TaskInv(w)' /\ task'[w].pc \notin Requesting
    BY <2>1, <2>2, <2>3, <2>4 DEF TaskInv, Walking, Requesting, Sent
  <2> QED BY <2>2, <2>4, <2>5, RowsUntouched, OtherStepKeeps
<1>4. CASE SubmitCall(w)
  <2>1. task[w].id \in Refund /\ Sent(task[w].id)
    BY <1>0, <1>4 DEF SubmitCall, At, TaskTyped, LocalsOK, OnRefund, EngineInv, TaskInv
  <2>2. CreateRefund(w, "submit_ref", Finish(w)) /\ UNCHANGED <<status, gateway_ref, approved>>
    BY <1>4 DEF SubmitCall, submitVars
  <2>3. Finish(w) => /\ TaskInv(w)'
                     /\ task'[w].pc \notin Requesting
                     /\ \A v \in Worker \ {w} : task'[v] = task[v]
    BY <1>0, FinishedKeeps
  <2> QED BY <2>1, <2>2, <2>3, CreateRefundKeeps
<1>5. CASE SubmitRef(w)
  <2>1. task[w].id \in Refund /\ task[w].ref # NoRef /\ task[w].ref = gw_store[task[w].id]
    BY <1>0, <1>5 DEF SubmitRef, At, TaskTyped, LocalsOK, OnRefund, EngineInv, TaskInv
  <2>2. /\ UpdateRef(task[w].id, task[w].ref) /\ Finish(w)
        /\ UNCHANGED <<status, gw_store, late, approved>>
    BY <1>5 DEF SubmitRef, submitVars, gatewayVars
  <2>3. /\ \A q \in Refund : Advances(q) /\ RowInv(q)'
        /\ \A q \in Refund : status[q] = Absent => status'[q] = Absent
    BY <2>1, <2>2, RefKeepsRows
  <2> QED BY <1>0, <2>2, <2>3, FinishedKeeps, OtherStepKeeps
<1> QED BY <1>1, <1>2, <1>3, <1>4, <1>5 DEF SubmitStep

(* handle_webhook keeps the invariant: it moves rows that have a reference. *)
LEMMA WebhookKeeps ==
  ASSUME Typed, EngineInv, NEW w \in Worker,
         (\E e \in Event : WebhookClaim(w, e)) \/ WebhookStep(w)
  PROVE  EngineInv'
<1>0. TaskTyped
  BY DEF Typed
<1>1. ASSUME NEW e \in Event, WebhookClaim(w, e) PROVE EngineInv'
  <2> DEFINE t == [Idle EXCEPT !.pc = "webhook_snapshot", !.ev = e]
  <2>1. task'[w] = t /\ \A v \in Worker \ {w} : task'[v] = task[v]
    BY <1>0, <1>1, TaskChange DEF WebhookClaim
  <2>2. t.pc = "webhook_snapshot"
    BY DEF Idle
  <2>3. UNCHANGED <<status, gateway_ref, gw_store, late, approved>>
    BY <1>1 DEF WebhookClaim, webhookVars, gatewayVars
  <2>4. TaskInv(w)' /\ task'[w].pc \notin Requesting
    BY <2>1, <2>2 DEF TaskInv, Walking, Requesting
  <2> QED BY <2>1, <2>3, <2>4, RowsUntouched, OtherStepKeeps
<1>2. CASE WebhookSnapshot(w)
  <2>1. PICK rows : Becomes(w, [task[w] EXCEPT !.pc = "webhook_apply", !.rows = rows])
    BY <1>2 DEF WebhookSnapshot
  <2> DEFINE t == [task[w] EXCEPT !.pc = "webhook_apply", !.rows = rows]
  <2>2. task'[w] = t /\ \A v \in Worker \ {w} : task'[v] = task[v]
    BY <1>0, <2>1, TaskChange
  <2>3. t.pc = "webhook_apply"
    BY <1>0 DEF TaskTyped, Task
  <2>4. UNCHANGED <<status, gateway_ref, gw_store, late, approved>>
    BY <1>2 DEF WebhookSnapshot, webhookVars, gatewayVars
  <2>5. TaskInv(w)' /\ task'[w].pc \notin Requesting
    BY <2>2, <2>3 DEF TaskInv, Walking, Requesting
  <2> QED BY <2>2, <2>4, <2>5, RowsUntouched, OtherStepKeeps
<1>3. CASE WebhookApply(w)
  <2>1. PICK e \in Event : e = task[w].ev
    BY <1>0, <1>3 DEF WebhookApply, At, LocalsOK, TaskTyped
  <2>2. Finish(w) /\ UNCHANGED <<gateway_ref, gw_store, late, approved>>
    BY <1>3 DEF WebhookApply, webhookVars, gatewayVars
  <2>3. ASSUME NEW q \in Refund
        PROVE  \/ status'[q] = status[q]
               \/ Matches(q, e) /\ status'[q] \in {"settled", "failed"}
    BY <1>3, <2>1 DEF WebhookApply, Verdict
  <2>4. ASSUME NEW q \in Refund, Matches(q, e)
        PROVE  gateway_ref[q] # NoRef
    BY <2>4, ConstantTypes DEF Matches, NoRef
  <2>5. ASSUME NEW q \in Refund
        PROVE  Advances(q) /\ RowInv(q)' /\ (status[q] = Absent => status'[q] = Absent)
    <3>1. RowInv(q)
      BY DEF EngineInv
    <3>2. CASE status'[q] = status[q]
      BY <2>2, <3>1, <3>2 DEF RowInv, Advances, Released, Sent, Holds
    <3>3. CASE gateway_ref[q] # NoRef /\ status'[q] \in {"settled", "failed"}
      <4>1. Holds(q) /\ Sent(q) /\ Released(q) /\ status[q] # Absent
        BY <3>1, <3>3 DEF RowInv, Holds, Sent, Released, Absent
      <4> QED BY <2>2, <3>1, <3>3, <4>1 DEF RowInv, Advances, Released, Sent, Holds, Absent
    <3> QED BY <2>3, <2>4, <3>2, <3>3
  <2>6. /\ \A q \in Refund : Advances(q) /\ RowInv(q)'
        /\ \A q \in Refund : status[q] = Absent => status'[q] = Absent
    BY <2>5
  <2> QED BY <1>0, <2>2, <2>6, FinishedKeeps, OtherStepKeeps
<1> QED BY <1>1, <1>2, <1>3 DEF WebhookStep

(* The rows a walk has left are still released.                            *)
LEMMA NextRowKeeps ==
  ASSUME TaskTyped, NEW w \in Worker, NextRow(w), UNCHANGED status,
         \A row \in task[w].rows : Released(row[1])
  PROVE  /\ TaskInv(w)'
         /\ task'[w].pc \notin Requesting
         /\ \A v \in Worker \ {w} : task'[v] = task[v]
<1> DEFINE t == [Idle EXCEPT !.pc = "recover_next", !.rows = task[w].rows]
<1>1. CASE Finish(w)
  BY <1>1, FinishedKeeps
<1>2. CASE Becomes(w, t)
  <2>1. task'[w] = t /\ \A v \in Worker \ {w} : task'[v] = task[v]
    BY <1>2, TaskChange
  <2>2. t.pc = "recover_next" /\ t.rows = task[w].rows
    BY DEF Idle
  <2> QED BY <2>1, <2>2 DEF TaskInv, Walking, Requesting, Released
<1> QED BY <1>1, <1>2 DEF NextRow

(* recover_submitted keeps the invariant, though its scan may be stale.    *)
LEMMA RecoverKeeps ==
  ASSUME Typed, EngineInv, NEW w \in Worker, RecoverScan(w) \/ RecoverStep(w)
  PROVE  EngineInv'
<1>0. TaskTyped
  BY DEF Typed
<1>1. CASE RecoverScan(w)
  <2> DEFINE rows == {<<r, status[r]>> : r \in {q \in Refund : status[q] \in Stuck}}
             t == [Idle EXCEPT !.pc = "recover_next", !.rows = rows]
  <2>1. task'[w] = t /\ \A v \in Worker \ {w} : task'[v] = task[v]
    BY <1>0, <1>1, TaskChange DEF RecoverScan
  <2>2. t.pc = "recover_next" /\ t.rows = rows
    BY DEF Idle
  <2>3. UNCHANGED <<status, gateway_ref, gw_store, late, approved>>
    BY <1>1 DEF RecoverScan, recoverVars, gatewayVars
  <2>4. \A row \in rows : status'[row[1]] \in {"requested", "submitted"}
    BY <2>3 DEF Stuck
  <2> HIDE DEF rows, t
  <2>5. TaskInv(w)' /\ task'[w].pc \notin Requesting
    BY <2>1, <2>2, <2>4 DEF TaskInv, Walking, Requesting, Released
  <2> QED BY <2>1, <2>3, <2>5, RowsUntouched, OtherStepKeeps
<1>2. CASE RecoverLookup(w)
  <2> DEFINE t(row) == [Idle EXCEPT
               !.pc = IF Holds(row[1]) THEN "recover_adopt" ELSE "recover_mark",
               !.id = row[1], !.seen = row[2], !.ref = gw_store[row[1]],
               !.rows = task[w].rows \ {row}]
  <2>1. PICK row \in task[w].rows : Becomes(w, t(row))
    BY <1>2 DEF RecoverLookup
  <2>2. task'[w] = t(row) /\ \A v \in Worker \ {w} : task'[v] = task[v]
    BY <1>0, <2>1, TaskChange
  <2>3. /\ t(row).pc = IF Holds(row[1]) THEN "recover_adopt" ELSE "recover_mark"
        /\ t(row).id = row[1] /\ t(row).ref = gw_store[row[1]]
        /\ t(row).rows \subseteq task[w].rows
    BY DEF Idle
  <2>4. UNCHANGED <<status, gateway_ref, gw_store, late, approved>>
    BY <1>2 DEF RecoverLookup, recoverVars, gatewayVars
  <2>5. row[1] \in Refund /\ \A s \in task[w].rows : Released(s[1])
    BY <1>0, <1>2, <2>1 DEF RecoverLookup, At, TaskTyped, Task, EngineInv, TaskInv, Walking
  <2>6. RowInv(row[1])
    BY <2>5 DEF EngineInv
  <2> HIDE DEF t
  <2>7. TaskInv(w)' /\ task'[w].pc \notin Requesting
    <3>1. CASE Holds(row[1])
      BY <2>1, <2>2, <2>3, <2>4, <2>5, <2>6, <3>1
         DEF TaskInv, Walking, Requesting, Released, Sent, Holds, RowInv
    <3>2. CASE ~Holds(row[1])
      BY <2>1, <2>2, <2>3, <2>4, <2>5, <3>2
         DEF TaskInv, Walking, Requesting, Released, Sent, Holds
    <3> QED BY <3>1, <3>2
  <2> QED BY <2>2, <2>4, <2>7, RowsUntouched, OtherStepKeeps
<1>3. CASE RecoverAdopt(w)
  <2>1. PICK r \in Refund : r = task[w].id
    BY <1>0, <1>3 DEF RecoverAdopt, At, TaskTyped, LocalsOK, OnRefund
  <2>2. /\ Sent(r) /\ task[w].ref # NoRef /\ task[w].ref = gw_store[r]
        /\ \A row \in task[w].rows : Released(row[1])
    BY <1>3, <2>1 DEF RecoverAdopt, At, EngineInv, TaskInv, Walking
  <2> DEFINE t == [task[w] EXCEPT !.pc = "recover_adopt_log"]
  <2>3. task'[w] = t /\ \A v \in Worker \ {w} : task'[v] = task[v]
    BY <1>0, <1>3, TaskChange DEF RecoverAdopt, Goto
  <2>4. t.pc = "recover_adopt_log" /\ t.id = r /\ t.rows = task[w].rows
    BY <1>0, <2>1 DEF TaskTyped, Task
  <2>5. UNCHANGED <<gw_store, late, approved>>
    BY <1>3 DEF RecoverAdopt, recoverVars, gatewayVars
  <2>6. ASSUME NEW q \in Refund
        PROVE  \/ status'[q] = status[q] /\ gateway_ref'[q] = gateway_ref[q]
               \/ /\ q = r /\ gateway_ref[q] = NoRef
                  /\ status'[q] = "submitted" /\ gateway_ref'[q] = task[w].ref
    BY <1>3, <2>1 DEF RecoverAdopt, Adopts, Typed, TypeOK
  <2>7. ASSUME NEW q \in Refund
        PROVE  Advances(q) /\ RowInv(q)' /\ (status[q] = Absent => status'[q] = Absent)
    <3>1. RowInv(q)
      BY DEF EngineInv
    <3>2. CASE status'[q] = status[q] /\ gateway_ref'[q] = gateway_ref[q]
      BY <2>5, <3>1, <3>2 DEF RowInv, Advances, Released, Sent, Holds
    <3>3. CASE /\ q = r /\ gateway_ref[q] = NoRef
               /\ status'[q] = "submitted" /\ gateway_ref'[q] = task[w].ref
      BY <2>2, <2>5, <3>1, <3>3 DEF RowInv, Advances, Released, Sent, Holds, Absent
    <3> QED BY <2>6, <3>2, <3>3
  <2>8. /\ \A q \in Refund : Advances(q) /\ RowInv(q)'
        /\ \A q \in Refund : status[q] = Absent => status'[q] = Absent
    BY <2>7
  <2>9. \A row \in task[w].rows : row[1] \in Refund
    BY <1>0 DEF TaskTyped, Task
  <2> HIDE DEF t
  <2>10. TaskInv(w)' /\ task'[w].pc \notin Requesting
    BY <2>2, <2>3, <2>4, <2>8, <2>9 DEF TaskInv, Walking, Requesting, Released, Sent, Advances
  <2> QED BY <2>3, <2>8, <2>10, OtherStepKeeps
<1>4. CASE RecoverAdoptLog(w)
  <2>1. NextRow(w) /\ UNCHANGED <<status, gateway_ref, gw_store, late, approved>>
    BY <1>4 DEF RecoverAdoptLog, recoverVars, gatewayVars
  <2>2. \A row \in task[w].rows : Released(row[1])
    BY <1>4 DEF RecoverAdoptLog, At, EngineInv, TaskInv, Walking
  <2> QED BY <1>0, <2>1, <2>2, NextRowKeeps, RowsUntouched, OtherStepKeeps
<1>5. CASE RecoverMark(w)
  <2> DEFINE t == [task[w] EXCEPT !.pc = "recover_call"]
  <2>1. PICK r \in Refund : r = task[w].id
    BY <1>0, <1>5 DEF RecoverMark, At, TaskTyped, LocalsOK, OnRefund
  <2>2. Released(r) /\ \A row \in task[w].rows : Released(row[1])
    BY <1>5, <2>1 DEF RecoverMark, At, EngineInv, TaskInv, Walking
  <2>3. task'[w] = t /\ \A v \in Worker \ {w} : task'[v] = task[v]
    BY <1>0, <1>5, TaskChange DEF RecoverMark, Goto
  <2>4. t.pc = "recover_call" /\ t.id = r /\ t.rows = task[w].rows
    BY <1>0, <2>1 DEF TaskTyped, Task
  <2>5. /\ UpdateStatus(r, {"requested", "submitted"}, "submitted")
        /\ UNCHANGED <<gateway_ref, gw_store, late, approved>>
    BY <1>5, <2>1 DEF RecoverMark, recoverVars, gatewayVars
  <2>6. /\ \A q \in Refund : Advances(q) /\ RowInv(q)'
        /\ \A q \in Refund : status[q] = Absent => status'[q] = Absent
        /\ status'[r] \in {"submitted", "settled", "failed"}
    BY <2>2, <2>5, MarkKeepsRows
  <2>7. \A row \in task[w].rows : row[1] \in Refund
    BY <1>0 DEF TaskTyped, Task
  <2> HIDE DEF t
  <2>8. TaskInv(w)' /\ task'[w].pc \notin Requesting
    BY <2>2, <2>3, <2>4, <2>6, <2>7 DEF TaskInv, Walking, Requesting, Released, Sent, Advances
  <2> QED BY <2>3, <2>6, <2>8, OtherStepKeeps
<1>6. CASE RecoverCall(w)
  <2>1. /\ task[w].id \in Refund /\ Sent(task[w].id)
        /\ \A row \in task[w].rows : Released(row[1])
    BY <1>0, <1>6 DEF RecoverCall, At, TaskTyped, LocalsOK, OnRefund, EngineInv, TaskInv, Walking
  <2>2. /\ CreateRefund(w, "recover_ref", Goto(w, "recover_log"))
        /\ UNCHANGED <<status, gateway_ref, approved>>
    BY <1>6 DEF RecoverCall, recoverVars
  <2>3. Goto(w, "recover_log") => /\ TaskInv(w)'
                                  /\ task'[w].pc \notin Requesting
                                  /\ \A v \in Worker \ {w} : task'[v] = task[v]
    <3> SUFFICES ASSUME Goto(w, "recover_log")
                 PROVE  /\ TaskInv(w)'
                        /\ task'[w].pc \notin Requesting
                        /\ \A v \in Worker \ {w} : task'[v] = task[v]
      OBVIOUS
    <3> DEFINE t == [task[w] EXCEPT !.pc = "recover_log"]
    <3>1. task'[w] = t /\ \A v \in Worker \ {w} : task'[v] = task[v]
      BY <1>0, TaskChange DEF Goto
    <3>2. t.pc = "recover_log" /\ t.id = task[w].id /\ t.rows = task[w].rows
      BY <1>0 DEF TaskTyped, Task
    <3> HIDE DEF t
    <3> QED BY <2>1, <2>2, <3>1, <3>2 DEF TaskInv, Walking, Requesting, Released, Sent
  <2> QED BY <2>1, <2>2, <2>3, CreateRefundKeeps
<1>7. CASE RecoverRef(w)
  <2> DEFINE t == [task[w] EXCEPT !.pc = "recover_log"]
  <2>1. /\ task[w].id \in Refund /\ task[w].ref # NoRef
        /\ task[w].ref = gw_store[task[w].id] /\ Sent(task[w].id)
        /\ \A row \in task[w].rows : Released(row[1])
    BY <1>0, <1>7 DEF RecoverRef, At, TaskTyped, LocalsOK, OnRefund, EngineInv, TaskInv, Walking
  <2>2. /\ UpdateRef(task[w].id, task[w].ref) /\ Goto(w, "recover_log")
        /\ UNCHANGED <<status, gw_store, late, approved>>
    BY <1>7 DEF RecoverRef, recoverVars, gatewayVars
  <2>3. /\ \A q \in Refund : Advances(q) /\ RowInv(q)'
        /\ \A q \in Refund : status[q] = Absent => status'[q] = Absent
    BY <2>1, <2>2, RefKeepsRows
  <2>4. task'[w] = t /\ \A v \in Worker \ {w} : task'[v] = task[v]
    BY <1>0, <2>2, TaskChange DEF Goto
  <2>5. t.pc = "recover_log" /\ t.id = task[w].id /\ t.rows = task[w].rows
    BY <1>0 DEF TaskTyped, Task
  <2> HIDE DEF t
  <2>6. TaskInv(w)' /\ task'[w].pc \notin Requesting
    BY <2>1, <2>2, <2>4, <2>5 DEF TaskInv, Walking, Requesting, Released, Sent
  <2> QED BY <2>3, <2>4, <2>6, OtherStepKeeps
<1>8. CASE RecoverLog(w)
  <2>1. NextRow(w) /\ UNCHANGED <<status, gateway_ref, gw_store, late, approved>>
    BY <1>8 DEF RecoverLog, recoverVars, gatewayVars
  <2>2. \A row \in task[w].rows : Released(row[1])
    BY <1>8 DEF RecoverLog, At, EngineInv, TaskInv, Walking
  <2> QED BY <1>0, <2>1, <2>2, NextRowKeeps, RowsUntouched, OtherStepKeeps
<1> QED BY <1>1, <1>2, <1>3, <1>4, <1>5, <1>6, <1>7, <1>8 DEF RecoverStep

(* A call cut off keeps the invariant: what it sent was marked before.     *)
LEMMA AbortKeeps ==
  ASSUME Typed, EngineInv, NEW w \in Worker, Abort(w)
  PROVE  EngineInv'
<1>0. TaskTyped
  BY DEF Typed
<1>1. Finish(w) /\ UNCHANGED <<status, gateway_ref, gw_store, gw_seq, approved>>
  BY DEF Abort
<1>2. CASE late' = late
  BY <1>0, <1>1, <1>2, FinishedKeeps, RowsUntouched, OtherStepKeeps
<1>3. CASE /\ task[w].pc \in {"submit_call", "recover_call"}
           /\ late' = late \cup {task[w].id}
  <2>1. PICK r \in Refund : r = task[w].id
    BY <1>0, <1>3 DEF TaskTyped, LocalsOK, OnRefund
  <2>2. Sent(r)
    BY <1>3, <2>1 DEF EngineInv, TaskInv
  <2>3. /\ \A q \in Refund : Advances(q) /\ RowInv(q)'
        /\ \A q \in Refund : status[q] = Absent => status'[q] = Absent
    BY <1>1, <1>3, <2>1, <2>2, IssueKeepsRows
  <2> QED BY <1>0, <1>1, <2>3, FinishedKeeps, OtherStepKeeps
<1> QED BY <1>2, <1>3 DEF Abort

(* A create that arrives late finds its row marked submitted.              *)
LEMMA LateArrivalKeeps ==
  ASSUME Typed, EngineInv, NEW r \in Refund, LateArrival(r)
  PROVE  EngineInv'
<1>1. /\ Issue(r) /\ late' \subseteq late
      /\ UNCHANGED <<status, gateway_ref, approved, task>>
  BY DEF LateArrival
<1>2. Sent(r)
  BY DEF LateArrival, EngineInv, RowInv
<1>3. \A q \in Refund : Advances(q) /\ RowInv(q)'
  BY <1>1, <1>2, IssueKeepsRows
<1>4. \A v \in Worker : TaskInv(v)'
  <2> SUFFICES ASSUME NEW v \in Worker PROVE TaskInv(v)'
    OBVIOUS
  <2>1. TaskInv(v) /\ task'[v] = task[v]
    BY <1>1 DEF EngineInv
  <2>2. task[v].pc \in OnRefund => task[v].id \in Refund
    BY DEF Typed, TaskTyped, LocalsOK
  <2>3. \A q \in Refund : Holds(q) => gw_store'[q] = gw_store[q]
    BY <1>3 DEF Advances
  <2> QED BY <1>1, <2>1, <2>2, <2>3 DEF TaskInv, OnRefund, Released, Sent, Holds
<1>5. \A u, v \in Worker : u # v => Exclusive(u, v)'
  BY <1>1 DEF EngineInv, Exclusive, HasLock
<1> QED BY <1>3, <1>4, <1>5 DEF EngineInv
-----------------------------------------------------------------------------
(* The invariant holds of an empty database.                               *)
LEMMA EngineInvInit == Init => EngineInv
<1> SUFFICES ASSUME Init PROVE EngineInv
  OBVIOUS
<1>1. \A r \in Refund : RowInv(r)
  BY DEF Init, GwInit, RowInv, Released, Holds, Absent
<1>2. \A w \in Worker : task[w].pc = "idle"
  BY DEF Init, Idle
<1>3. \A w \in Worker : TaskInv(w)
  BY <1>2 DEF TaskInv, Walking
<1>4. \A v, w \in Worker : Exclusive(v, w)
  BY <1>2 DEF Exclusive, HasLock, Requesting
<1> QED BY <1>1, <1>3, <1>4 DEF EngineInv

(* Every step of the engine keeps the invariant.                           *)
LEMMA EngineInvNext == Typed /\ EngineInv /\ [Next]_vars => EngineInv'
<1> SUFFICES ASSUME Typed, EngineInv, [Next]_vars PROVE EngineInv'
  OBVIOUS
<1>1. ASSUME NEW w \in Worker, Start(w) PROVE EngineInv'
  BY <1>1, RequestKeeps, ApproveKeeps, SubmitKeeps, WebhookKeeps, RecoverKeeps DEF Start
<1>2. ASSUME NEW w \in Worker, Step(w) PROVE EngineInv'
  BY <1>2, RequestKeeps, ApproveKeeps, SubmitKeeps, WebhookKeeps, RecoverKeeps DEF Step
<1>3. ASSUME NEW w \in Worker, Abort(w) PROVE EngineInv'
  BY <1>3, AbortKeeps
<1>4. ASSUME NEW r \in Refund, LateArrival(r) PROVE EngineInv'
  BY <1>4, LateArrivalKeeps
<1>5. CASE UNCHANGED vars
  BY <1>5 DEF vars, EngineInv, RowInv, TaskInv, Exclusive, HasLock, Released, Sent, Holds
<1> QED BY <1>1, <1>2, <1>3, <1>4, <1>5 DEF Next, Rest

(* Rows and calls in flight are, at every moment, as the others rely on.   *)
THEOREM EngineInvariant == Spec => []EngineInv
BY EngineInvInit, EngineInvNext, AlwaysTyped, PTL DEF Spec
-----------------------------------------------------------------------------
(* What the invariant says at once.                                        *)

(* Whatever the gateway holds, or may yet get, the database shows as       *)
(* submitted.                                                              *)
THEOREM IntentIsFirst == Spec => []IntentBeforeMoney
<1>1. EngineInv => IntentBeforeMoney
  BY DEF EngineInv, RowInv, Sent, IntentBeforeMoney
<1> QED BY <1>1, EngineInvariant, PTL

(* A recorded reference is the one the gateway keeps under the row's key.  *)
THEOREM RefIsRight == Spec => []RefIsTheGateways
<1>1. EngineInv => RefIsTheGateways
  BY DEF EngineInv, RowInv, RefIsTheGateways
<1> QED BY <1>1, EngineInvariant, PTL

(* No large refund reaches the gateway on its requester's word alone.      *)
THEOREM SeparationOfDuties == Spec => []ApprovedByAnother
<1>1. EngineInv => ApprovedByAnother
  BY DEF EngineInv, RowInv, Sent, Released, ApprovedByAnother
<1> QED BY <1>1, EngineInvariant, PTL
-----------------------------------------------------------------------------
(* The moves a row's status can make in one step.                          *)
Move(r) ==
  \/ status'[r] = status[r]
  \/ status[r] = "pending_review" /\ status'[r] = "requested"
  \/ status[r] \in {"requested", "submitted"} /\ status'[r] = "submitted"
  \/ status[r] = "submitted" /\ status'[r] \in {"settled", "failed"}

InsertOf(w, r) ==
  /\ RequestInsert(w) /\ task[w].id = r
  /\ Amount[r] > 0
  /\ status[r] = Absent /\ status'[r] = InitialStatus(r)

(* A row's status only makes these moves, or the row is inserted.          *)
LEMMA StatusMoves ==
  ASSUME Typed, EngineInv, [Next]_vars, NEW r \in Refund
  PROVE  Move(r) \/ \E w \in Worker : InsertOf(w, r)
<1> USE DEF Move
<1>0. RowInv(r) /\ status \in [Refund -> Status \cup {Absent}]
  BY DEF EngineInv, Typed, TypeOK
<1>1. ASSUME NEW w \in Worker, RequestStep(w) PROVE Move(r) \/ InsertOf(w, r)
  <2>1. CASE RequestInsert(w)
    <3>1. /\ task[w].id \in Refund /\ status[task[w].id] = Absent
      BY <2>1 DEF RequestInsert, At, Typed, TaskTyped, LocalsOK, OnRefund, EngineInv, TaskInv
    <3> QED BY <1>0, <2>1, <3>1 DEF InsertOf, RequestInsert
  <2>2. CASE RequestLock(w) \/ RequestSum(w)
    BY <2>2 DEF RequestLock, RequestSum
  <2> QED BY <1>1, <2>1, <2>2 DEF RequestStep
<1>2. ASSUME NEW w \in Worker, ApproveStep(w) PROVE Move(r)
  BY <1>0, <1>2 DEF ApproveStep, ApproveMark, ApproveLog, UpdateStatus, Approvable
<1>3. ASSUME NEW w \in Worker, SubmitStep(w) PROVE Move(r)
  <2>1. CASE SubmitMark(w)
    BY <1>0, <2>1 DEF SubmitMark, UpdateStatus, Submittable
  <2>2. CASE SubmitLog(w) \/ SubmitCall(w) \/ SubmitRef(w)
    BY <2>2 DEF SubmitLog, SubmitCall, SubmitRef
  <2> QED BY <1>3, <2>1, <2>2 DEF SubmitStep
<1>4. ASSUME NEW w \in Worker, WebhookStep(w) PROVE Move(r)
  <2>1. CASE WebhookApply(w)
    <3>1. PICK e \in Event : e = task[w].ev
      BY <2>1 DEF WebhookApply, At, Typed, TaskTyped, LocalsOK
    <3>2. \/ status'[r] = status[r]
          \/ Matches(r, e) /\ status'[r] = Verdict(EventKind[e])
      BY <2>1, <3>1 DEF WebhookApply
    <3>3. CASE Matches(r, e) /\ status'[r] = Verdict(EventKind[e])
      <4>1. Sent(r)
        BY <1>0, <3>3, ConstantTypes DEF Matches, RowInv, Holds, NoRef
      <4>2. status[r] = "submitted" \/ (status[r] = "failed" /\ status'[r] = "failed")
        BY <3>3, <4>1 DEF Matches, Movable, Sent, Verdict
      <4> QED BY <3>3, <4>2 DEF Verdict
    <3> QED BY <3>2, <3>3
  <2>2. CASE WebhookSnapshot(w)
    BY <2>2 DEF WebhookSnapshot
  <2> QED BY <1>4, <2>1, <2>2 DEF WebhookStep
<1>5. ASSUME NEW w \in Worker, RecoverStep(w) PROVE Move(r)
  <2>1. CASE RecoverAdopt(w)
    <3>1. PICK q \in Refund : q = task[w].id /\ Sent(q)
      BY <2>1 DEF RecoverAdopt, At, Typed, TaskTyped, LocalsOK, OnRefund, EngineInv, TaskInv
    <3>2. status'[r] = status[r] \/ (r = q /\ gateway_ref[r] = NoRef /\ status'[r] = "submitted")
      BY <1>0, <2>1, <3>1 DEF RecoverAdopt, Adopts
    <3> QED BY <1>0, <3>1, <3>2 DEF RowInv, Sent
  <2>2. CASE RecoverMark(w)
    BY <1>0, <2>2 DEF RecoverMark, UpdateStatus
  <2>3. CASE \/ RecoverLookup(w) \/ RecoverAdoptLog(w) \/ RecoverCall(w)
             \/ RecoverRef(w) \/ RecoverLog(w)
    BY <2>3 DEF RecoverLookup, RecoverAdoptLog, RecoverCall, RecoverRef, RecoverLog
  <2> QED BY <1>5, <2>1, <2>2, <2>3 DEF RecoverStep
<1>6. ASSUME NEW w \in Worker, Start(w) PROVE Move(r)
  BY <1>6 DEF Start, RequestBegin, SubmitRead, ApproveRead, WebhookClaim, RecoverScan
<1>7. ASSUME NEW w \in Worker, Abort(w) PROVE Move(r)
  BY <1>7 DEF Abort
<1>8. ASSUME NEW q \in Refund, LateArrival(q) PROVE Move(r)
  BY <1>8 DEF LateArrival
<1>9. CASE UNCHANGED vars
  BY <1>9 DEF vars
<1> QED BY <1>1, <1>2, <1>3, <1>4, <1>5, <1>6, <1>7, <1>8, <1>9 DEF Next, Step, Rest

(* Nothing moves a refund out of a terminal status.                        *)
THEOREM TerminalForever == Spec => TerminalIsForever
<1>1. Typed /\ EngineInv /\ [Next]_vars =>
        [\A r \in Refund : status[r] \in Terminal => status'[r] = status[r]]_vars
  BY StatusMoves DEF Move, InsertOf, Terminal, Absent
<1> QED BY <1>1, EngineInvariant, AlwaysTyped, PTL DEF Spec, TerminalIsForever

(* A refund keeps what it has been through, and adds where it is now: no   *)
(* status on the way is passed over.                                       *)
LEMMA ThroughMoves ==
  ASSUME Typed, EngineInv, [Next]_vars, NEW r \in Refund, NEW s
  PROVE  /\ s \in Through(r) => s \in Through(r)'
         /\ s \in Through(r)' => s \in Through(r) \/ s = status'[r]
<1>1. Move(r) \/ \E w \in Worker : InsertOf(w, r)
  BY StatusMoves
<1>2. CASE Move(r)
  BY <1>2 DEF Move, Through, Beyond, Status, Terminal
<1>3. CASE \E w \in Worker : InsertOf(w, r)
  <2>1. status[r] = Absent /\ status'[r] = InitialStatus(r)
    BY <1>3 DEF InsertOf
  <2>2. s \notin Through(r)
    BY <2>1 DEF Through, Beyond, Status, Terminal, Absent
  <2>3. s \in Through(r)' => s = status'[r]
    BY <2>1 DEF InitialStatus, Through, Beyond, Status, Terminal
  <2> QED BY <2>2, <2>3
<1> QED BY <1>1, <1>2, <1>3

(* A reference, once recorded, is never taken back or replaced.            *)
LEMMA RefsStay ==
  ASSUME Typed, [Next]_vars, NEW r \in Refund, gateway_ref[r] # NoRef
  PROVE  gateway_ref'[r] = gateway_ref[r]
<1>0. gateway_ref \in [Refund -> Ref \cup {NoRef}]
  BY DEF Typed, TypeOK
<1>1. ASSUME NEW w \in Worker, Start(w) \/ RequestStep(w) \/ ApproveStep(w) \/ WebhookStep(w)
      PROVE  UNCHANGED gateway_ref
  <2>1. CASE Start(w)
    BY <2>1 DEF Start, RequestBegin, SubmitRead, ApproveRead, WebhookClaim, RecoverScan,
       requestVars, approveVars, webhookVars
  <2>2. CASE RequestStep(w) \/ ApproveStep(w) \/ WebhookStep(w)
    BY <2>2 DEF RequestStep, RequestLock, RequestSum, RequestInsert, ApproveStep, ApproveMark,
       ApproveLog, WebhookStep, WebhookSnapshot, WebhookApply, requestVars, approveVars, webhookVars
  <2> QED BY <1>1, <2>1, <2>2
<1>2. ASSUME NEW w \in Worker, SubmitRef(w) \/ RecoverRef(w) \/ RecoverAdopt(w)
      PROVE  gateway_ref'[r] = gateway_ref[r]
  BY <1>0, <1>2 DEF SubmitRef, RecoverRef, RecoverAdopt, UpdateRef, Adopts
<1>3. ASSUME NEW w \in Worker,
             SubmitMark(w) \/ SubmitLog(w) \/ SubmitCall(w)
             \/ RecoverLookup(w) \/ RecoverAdoptLog(w) \/ RecoverMark(w) \/ RecoverCall(w)
             \/ RecoverLog(w) \/ Abort(w)
      PROVE  UNCHANGED gateway_ref
  BY <1>3 DEF SubmitMark, SubmitLog, SubmitCall, RecoverLookup, RecoverAdoptLog, RecoverMark,
     RecoverCall, RecoverLog, Abort
<1>4. CASE (\E q \in Refund : LateArrival(q)) \/ UNCHANGED vars
  BY <1>4 DEF LateArrival, vars
<1> QED BY <1>1, <1>2, <1>3, <1>4 DEF Next, Step, Rest, SubmitStep, RecoverStep
-----------------------------------------------------------------------------
(* Where a step takes its worker: some statements are reached from one or  *)
(* two places only.                                                        *)
LeadsOn(w) ==
  /\ task'[w].pc = "request_insert" => RequestSum(w)
  /\ task'[w].pc = "submit_mark" => \E r \in Refund : SubmitRead(w, r)
  /\ task'[w].pc = "webhook_snapshot" => \E e \in Event : WebhookClaim(w, e)
  /\ task'[w].pc = "webhook_apply" => WebhookSnapshot(w)
  /\ task'[w].pc = "recover_adopt_log" => RecoverAdopt(w)
  /\ task'[w].pc = "recover_log" => RecoverCall(w) \/ RecoverRef(w)

Guarded == {"request_insert", "submit_mark", "webhook_snapshot", "webhook_apply",
            "recover_adopt_log", "recover_log"}

(* Going on to another statement keeps the locals.                         *)
LEMMA GotoAt ==
  ASSUME TaskTyped, NEW w \in Worker, NEW label, Goto(w, label)
  PROVE  /\ task'[w].pc = label
         /\ task'[w].id = task[w].id /\ task'[w].seen = task[w].seen
         /\ task'[w].by = task[w].by /\ task'[w].ev = task[w].ev
         /\ \A v \in Worker \ {w} : task'[v] = task[v]
<1>1. task[w] \in Task
  BY DEF TaskTyped
<1>2. task'[w] = [task[w] EXCEPT !.pc = label]
  BY TaskChange DEF Goto
<1>3. \A v \in Worker \ {w} : task'[v] = task[v]
  BY TaskChange DEF Goto
<1> QED BY <1>1, <1>2, <1>3 DEF Task

(* A walk that goes on looks its next row up, or ends.                     *)
LEMMA NextRowAt ==
  ASSUME TaskTyped, NEW w \in Worker, NextRow(w)
  PROVE  /\ task'[w].pc \in {"idle", "recover_next"}
         /\ \A v \in Worker \ {w} : task'[v] = task[v]
<1> DEFINE t == [Idle EXCEPT !.pc = "recover_next", !.rows = task[w].rows]
<1>1. Idle.pc = "idle" /\ t.pc = "recover_next"
  BY DEF Idle
<1> HIDE DEF t
<1>2. task'[w] \in {Idle, t} /\ \A v \in Worker \ {w} : task'[v] = task[v]
  BY TaskChange DEF NextRow, Finish, t
<1> QED BY <1>1, <1>2

(* A create is answered, or goes where a lost answer sends it.             *)
LEMMA CreateAt ==
  ASSUME TaskTyped, NEW w \in Worker, NEW answered \in {"submit_ref", "recover_ref"},
         NEW ACTION lost, CreateRefund(w, answered, lost)
  PROVE  \/ lost
         \/ /\ task'[w].pc = answered /\ task'[w].id = task[w].id
            /\ \A v \in Worker \ {w} : task'[v] = task[v]
<1>1. ASSUME NEW ref, Becomes(w, [task[w] EXCEPT !.pc = answered, !.ref = ref])
      PROVE  /\ task'[w].pc = answered /\ task'[w].id = task[w].id
             /\ \A v \in Worker \ {w} : task'[v] = task[v]
  <2> DEFINE t == [task[w] EXCEPT !.pc = answered, !.ref = ref]
  <2>1. t.pc = answered /\ t.id = task[w].id
    BY DEF TaskTyped, Task
  <2> HIDE DEF t
  <2>2. task'[w] = t /\ \A v \in Worker \ {w} : task'[v] = task[v]
    BY <1>1, TaskChange DEF t
  <2> QED BY <2>1, <2>2
<1> QED BY <1>1 DEF CreateRefund

(* A call begins at its first statement.                                   *)
LEMMA StartFlow ==
  ASSUME TaskTyped, NEW w \in Worker, Start(w)
  PROVE  LeadsOn(w) /\ \A v \in Worker \ {w} : task'[v] = task[v]
<1> USE DEF LeadsOn
<1>1. ASSUME NEW r \in Refund, RequestBegin(w, r)
      PROVE  LeadsOn(w) /\ \A v \in Worker \ {w} : task'[v] = task[v]
  <2>1. [Idle EXCEPT !.pc = "request_lock", !.id = r].pc = "request_lock"
    BY DEF Idle
  <2> QED BY <1>1, <2>1, TaskChange DEF RequestBegin
<1>2. ASSUME NEW r \in Refund, SubmitRead(w, r)
      PROVE  LeadsOn(w) /\ \A v \in Worker \ {w} : task'[v] = task[v]
  <2>1. [Idle EXCEPT !.pc = AfterRead, !.id = r, !.seen = status[r]].pc = "submit_mark"
    BY DEF Idle, AfterRead
  <2>2. task'[w].pc = "submit_mark" /\ \A v \in Worker \ {w} : task'[v] = task[v]
    BY <1>2, <2>1, TaskChange DEF SubmitRead
  <2> QED BY <1>2, <2>2
<1>3. ASSUME NEW r \in Refund, NEW a \in Actor, ApproveRead(w, r, a)
      PROVE  LeadsOn(w) /\ \A v \in Worker \ {w} : task'[v] = task[v]
  <2>1. [Idle EXCEPT !.pc = "approve_mark", !.id = r, !.by = a].pc = "approve_mark"
    BY DEF Idle
  <2> QED BY <1>3, <2>1, TaskChange DEF ApproveRead
<1>4. ASSUME NEW e \in Event, WebhookClaim(w, e)
      PROVE  LeadsOn(w) /\ \A v \in Worker \ {w} : task'[v] = task[v]
  <2>1. [Idle EXCEPT !.pc = "webhook_snapshot", !.ev = e].pc = "webhook_snapshot"
    BY DEF Idle
  <2>2. task'[w].pc = "webhook_snapshot" /\ \A v \in Worker \ {w} : task'[v] = task[v]
    BY <1>4, <2>1, TaskChange DEF WebhookClaim
  <2> QED BY <1>4, <2>2
<1>5. CASE RecoverScan(w)
  <2> DEFINE rows == {<<r, status[r]>> : r \in {q \in Refund : status[q] \in Stuck}}
             t == [Idle EXCEPT !.pc = "recover_next", !.rows = rows]
  <2>1. t.pc = "recover_next"
    BY DEF Idle
  <2> HIDE DEF t
  <2>2. task'[w] = t /\ \A v \in Worker \ {w} : task'[v] = task[v]
    BY <1>5, TaskChange DEF RecoverScan, t
  <2> QED BY <2>1, <2>2
<1> QED BY <1>1, <1>2, <1>3, <1>4, <1>5 DEF Start

(* Within a call only these steps lead to these statements.                *)
LEMMA StepFlow ==
  ASSUME TaskTyped, NEW w \in Worker, Step(w)
  PROVE  LeadsOn(w) /\ \A v \in Worker \ {w} : task'[v] = task[v]
<1>1. ASSUME task'[w].pc \notin Guarded, \A v \in Worker \ {w} : task'[v] = task[v]
      PROVE  LeadsOn(w) /\ \A v \in Worker \ {w} : task'[v] = task[v]
  BY <1>1 DEF LeadsOn, Guarded
<1>2. ASSUME NEW label \in PC \ Guarded, Goto(w, label)
      PROVE  task'[w].pc \notin Guarded /\ \A v \in Worker \ {w} : task'[v] = task[v]
  BY <1>2, GotoAt
<1>3. ASSUME Finish(w)
      PROVE  task'[w].pc \notin Guarded /\ \A v \in Worker \ {w} : task'[v] = task[v]
  BY <1>3, TaskChange DEF Finish, Idle, Guarded
<1>4. ASSUME NextRow(w)
      PROVE  task'[w].pc \notin Guarded /\ \A v \in Worker \ {w} : task'[v] = task[v]
  BY <1>4, NextRowAt DEF Guarded
<1>5. CASE RequestLock(w) \/ RequestInsert(w)
  BY <1>1, <1>2, <1>3, <1>5 DEF RequestLock, RequestInsert, PC, Guarded
<1>6. CASE RequestSum(w)
  <2> DEFINE sum == RefundedSoFar(ChargeOf[task[w].id])
             t == [task[w] EXCEPT !.pc = "request_insert", !.sum = sum]
  <2>1. CASE Becomes(w, t)
    <3>1. t.pc = "request_insert"
      BY DEF TaskTyped, Task
    <3> HIDE DEF t
    <3>2. task'[w].pc = "request_insert" /\ \A v \in Worker \ {w} : task'[v] = task[v]
      BY <2>1, <3>1, TaskChange
    <3> QED BY <1>6, <3>2 DEF LeadsOn
  <2> QED BY <1>1, <1>3, <1>6, <2>1 DEF RequestSum
<1>7. CASE ApproveStep(w)
  BY <1>1, <1>2, <1>3, <1>7 DEF ApproveStep, ApproveMark, ApproveLog, PC, Guarded
<1>8. CASE SubmitStep(w)
  <2>1. CASE SubmitMark(w) \/ SubmitLog(w) \/ SubmitRef(w)
    BY <1>1, <1>2, <1>3, <2>1 DEF SubmitMark, SubmitLog, SubmitRef, PC, Guarded
  <2>2. CASE SubmitCall(w)
    BY <1>1, <1>3, <2>2, CreateAt DEF SubmitCall, Guarded
  <2> QED BY <1>8, <2>1, <2>2 DEF SubmitStep
<1>9. CASE WebhookStep(w)
  <2>1. CASE WebhookSnapshot(w)
    <3> DEFINE rows == {<<r, LastStatus(r)>> : r \in {q \in Refund : Matches(q, task[w].ev)}}
               t == [task[w] EXCEPT !.pc = "webhook_apply", !.rows = rows]
    <3>1. t.pc = "webhook_apply"
      BY DEF TaskTyped, Task
    <3> HIDE DEF t
    <3>2. task'[w] = t /\ \A v \in Worker \ {w} : task'[v] = task[v]
      BY <2>1, TaskChange DEF WebhookSnapshot, t
    <3> QED BY <2>1, <3>1, <3>2 DEF LeadsOn
  <2>2. CASE WebhookApply(w)
    BY <1>1, <1>3, <2>2 DEF WebhookApply
  <2> QED BY <1>9, <2>1, <2>2 DEF WebhookStep
<1>10. CASE RecoverStep(w)
  <2>1. CASE RecoverLookup(w)
    <3>1. PICK row \in task[w].rows :
            Becomes(w, [Idle EXCEPT
              !.pc = IF Holds(row[1]) THEN "recover_adopt" ELSE "recover_mark",
              !.id = row[1], !.seen = row[2], !.ref = gw_store[row[1]],
              !.rows = task[w].rows \ {row}])
      BY <2>1 DEF RecoverLookup
    <3> DEFINE next == IF Holds(row[1]) THEN "recover_adopt" ELSE "recover_mark"
               t == [Idle EXCEPT !.pc = next, !.id = row[1], !.seen = row[2],
                       !.ref = gw_store[row[1]], !.rows = task[w].rows \ {row}]
    <3>2. t.pc \in {"recover_adopt", "recover_mark"}
      BY DEF Idle
    <3>3. Becomes(w, t)
      BY <3>1
    <3> HIDE DEF t
    <3>4. task'[w] = t /\ \A v \in Worker \ {w} : task'[v] = task[v]
      BY <3>3, TaskChange
    <3> QED BY <1>1, <3>2, <3>4 DEF Guarded
  <2>2. CASE RecoverCall(w)
    <3>1. Goto(w, "recover_log") \/ (/\ task'[w].pc = "recover_ref"
                                     /\ \A v \in Worker \ {w} : task'[v] = task[v])
      BY <2>2, CreateAt DEF RecoverCall
    <3>2. /\ task'[w].pc \in {"recover_log", "recover_ref"}
          /\ \A v \in Worker \ {w} : task'[v] = task[v]
      BY <3>1, GotoAt
    <3> QED BY <2>2, <3>2 DEF LeadsOn
  <2>3. CASE RecoverMark(w)
    BY <1>1, <1>2, <2>3 DEF RecoverMark, PC, Guarded
  <2>5. CASE RecoverAdopt(w) \/ RecoverRef(w)
    <3>1. /\ task'[w].pc = IF RecoverAdopt(w) THEN "recover_adopt_log" ELSE "recover_log"
          /\ \A v \in Worker \ {w} : task'[v] = task[v]
      <4>1. CASE RecoverAdopt(w)
        BY <4>1, GotoAt DEF RecoverAdopt
      <4>2. CASE RecoverRef(w) /\ ~RecoverAdopt(w)
        BY <4>2, GotoAt DEF RecoverRef
      <4> QED BY <2>5, <4>1, <4>2
    <3> QED BY <2>5, <3>1 DEF LeadsOn
  <2>4. CASE RecoverAdoptLog(w) \/ RecoverLog(w)
    BY <1>1, <1>4, <2>4 DEF RecoverAdoptLog, RecoverLog
  <2> QED BY <1>10, <2>1, <2>2, <2>3, <2>4, <2>5 DEF RecoverStep
<1> QED BY <1>5, <1>6, <1>7, <1>8, <1>9, <1>10 DEF Step, RequestStep

(* The same for every step of a worker: no other call moves.               *)
LEMMA Flow ==
  ASSUME TaskTyped, NEW w \in Worker, Start(w) \/ Step(w) \/ Abort(w)
  PROVE  LeadsOn(w) /\ \A v \in Worker \ {w} : task'[v] = task[v]
<1>1. CASE Abort(w)
  BY <1>1, TaskChange DEF Abort, Finish, Idle, LeadsOn
<1> QED BY <1>1, StartFlow, StepFlow
-----------------------------------------------------------------------------
(* What a step does to the gateway's books.                                *)

(* Only a create of a row that is marked submitted touches the books, and  *)
(* it leaves the database alone.                                           *)
LEMMA GatewayMoves ==
  ASSUME Typed, EngineInv, [Next]_vars
  PROVE  \/ UNCHANGED <<gw_store, gw_seq>>
         \/ /\ \E r \in Refund : Issue(r) /\ Sent(r)
            /\ UNCHANGED <<status, gateway_ref, refund_transitions, webhook_events,
                           approved, applied>>
<1>1. ASSUME NEW w \in Worker, Start(w) PROVE UNCHANGED <<gw_store, gw_seq>>
  BY <1>1 DEF Start, RequestBegin, SubmitRead, ApproveRead, WebhookClaim, RecoverScan,
              requestVars, submitVars, approveVars, webhookVars, recoverVars, gatewayVars
<1>2. ASSUME NEW w \in Worker, RequestStep(w) \/ ApproveStep(w) \/ WebhookStep(w) \/ Abort(w)
      PROVE  UNCHANGED <<gw_store, gw_seq>>
  <2>1. CASE RequestStep(w)
    BY <2>1 DEF RequestStep, RequestLock, RequestSum, RequestInsert, requestVars, gatewayVars
  <2>2. CASE ApproveStep(w)
    BY <2>2 DEF ApproveStep, ApproveMark, ApproveLog, approveVars, gatewayVars
  <2>3. CASE WebhookStep(w)
    BY <2>3 DEF WebhookStep, WebhookSnapshot, WebhookApply, webhookVars, gatewayVars
  <2>4. CASE Abort(w)
    BY <2>4 DEF Abort
  <2> QED BY <1>2, <2>1, <2>2, <2>3, <2>4
<1>3. ASSUME NEW w \in Worker,
             SubmitMark(w) \/ SubmitLog(w) \/ SubmitRef(w)
             \/ RecoverLookup(w) \/ RecoverAdopt(w) \/ RecoverAdoptLog(w)
             \/ RecoverMark(w) \/ RecoverRef(w) \/ RecoverLog(w)
      PROVE  UNCHANGED <<gw_store, gw_seq>>
  BY <1>3 DEF SubmitMark, SubmitLog, SubmitRef, RecoverLookup, RecoverAdopt, RecoverAdoptLog,
              RecoverMark, RecoverRef, RecoverLog, submitVars, recoverVars, gatewayVars
<1>4. ASSUME NEW w \in Worker, SubmitCall(w) \/ RecoverCall(w)
      PROVE  \/ UNCHANGED <<gw_store, gw_seq>>
             \/ /\ \E r \in Refund : Issue(r) /\ Sent(r)
                /\ UNCHANGED <<status, gateway_ref, refund_transitions, webhook_events,
                               approved, applied>>
  <2>1. task[w].id \in Refund /\ Sent(task[w].id)
    BY <1>4 DEF SubmitCall, RecoverCall, At, Typed, TaskTyped, LocalsOK, OnRefund,
                EngineInv, TaskInv
  <2>2. Issue(task[w].id) \/ UNCHANGED <<gw_store, gw_seq>>
    BY <1>4 DEF SubmitCall, RecoverCall, CreateRefund
  <2>3. UNCHANGED <<status, gateway_ref, refund_transitions, webhook_events, approved, applied>>
    BY <1>4 DEF SubmitCall, RecoverCall, submitVars, recoverVars
  <2> QED BY <2>1, <2>2, <2>3
<1>5. ASSUME NEW r \in Refund, LateArrival(r)
      PROVE  /\ Issue(r) /\ Sent(r)
             /\ UNCHANGED <<status, gateway_ref, refund_transitions, webhook_events,
                            approved, applied>>
  BY <1>5 DEF LateArrival, EngineInv, RowInv
<1>6. CASE UNCHANGED vars
  BY <1>6 DEF vars
<1> QED BY <1>1, <1>2, <1>3, <1>4, <1>5, <1>6 DEF Next, Step, Rest, SubmitStep, RecoverStep

(* A reference once given is never taken back or given again.              *)
LEMMA BooksKept ==
  ASSUME Typed, EngineInv, GwBooks, [Next]_vars
  PROVE  /\ GwBooks'
         /\ \A q \in Refund : Holds(q) => gw_store'[q] = gw_store[q]
<1>1. gw_store \in [Refund -> Ref \cup {NoRef}] /\ gw_seq \in Nat
  BY DEF Typed, TypeOK, GwTypeOK
<1>2. CASE UNCHANGED <<gw_store, gw_seq>>
  BY <1>2 DEF GwBooks, Holds
<1>3. ASSUME NEW r \in Refund, Issue(r)
      PROVE  /\ GwBooks'
             /\ \A q \in Refund : Holds(q) => gw_store'[q] = gw_store[q]
  <2>1. CASE Holds(r)
    BY <1>2, <1>3, <2>1 DEF Issue
  <2>2. CASE ~Holds(r)
    <3>1. /\ gw_seq' = gw_seq + 1 /\ gw_store'[r] = gw_seq + 1
          /\ \A q \in Refund \ {r} : gw_store'[q] = gw_store[q]
      BY <1>1, <1>3, <2>2 DEF Issue
    <3>2. \A q \in Refund : gw_store[q] \in Nat /\ gw_store[q] <= gw_seq
      BY <1>1 DEF GwBooks, Ref, NoRef
    <3>3. \A q \in Refund : gw_store'[q] <= gw_seq'
      BY <1>1, <3>1, <3>2
    <3>4. ASSUME NEW j \in Refund, NEW k \in Refund, gw_store'[j] # NoRef,
                 gw_store'[j] = gw_store'[k]
          PROVE  j = k
      BY <1>1, <3>1, <3>2, <3>4 DEF GwBooks, Holds
    <3> QED BY <2>2, <3>1, <3>3, <3>4 DEF GwBooks, Holds
  <2> QED BY <2>1, <2>2
<1> QED BY <1>2, <1>3, GatewayMoves

(* No two refunds ever have the same reference.                            *)
THEOREM Books == Spec => []GwBooks
<1>1. Init => GwBooks
  BY DEF Init, GwInit, GwBooks, Holds, NoRef
<1> QED BY <1>1, BooksKept, AlwaysTyped, EngineInvariant, PTL DEF Spec
=============================================================================
