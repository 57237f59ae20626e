----------------------------- MODULE AuditProofs -----------------------------
(***************************************************************************)
(* What the audit log and the gateway's verdicts have to do with each      *)
(* other.  The arguments are about two kinds of step: an event being       *)
(* applied, which writes the row and its log together, and every other     *)
(* step, which concludes no row and writes nothing in a webhook's name.    *)
(***************************************************************************)
EXTENDS RefundEngineProofs

(* The row is not named by the event, or not in a status it may move.      *)
Spared(r) == status'[r] = status[r] /\ refund_transitions'[r] = refund_transitions[r]

(* The row is moved by event e and logged.                                 *)
Hit(r, e) ==
  /\ Matches(r, e)
  /\ status'[r] = Verdict(EventKind[e])
  /\ \E from \in Status \cup {NULL} :
       refund_transitions'[r] =
         Append(refund_transitions[r], AuditRow(from, Verdict(EventKind[e]), "webhook"))

(* What applying an event does to each row.                                *)
LEMMA ApplyMoves ==
  ASSUME Typed, NEW w \in Worker, WebhookApply(w)
  PROVE  \E e \in Event :
           /\ e = task[w].ev /\ task[w].pc = "webhook_apply" /\ applied' = applied \cup {e}
           /\ \A r \in Refund : Spared(r) \/ Hit(r, e)
           /\ UNCHANGED <<gateway_ref, gw_store, webhook_events>>
<1>1. PICK e \in Event : e = task[w].ev
  BY DEF WebhookApply, At, Typed, TaskTyped, LocalsOK
<1>2. /\ task[w].pc = "webhook_apply" /\ applied' = applied \cup {e}
      /\ UNCHANGED <<gateway_ref, gw_store, webhook_events>>
  BY <1>1 DEF WebhookApply, At, webhookVars, gatewayVars
<1> DEFINE to == Verdict(EventKind[e])
           hits(r) == {row \in task[w].rows : row[1] = r /\ Matches(r, e)}
<1>3. ASSUME NEW r \in Refund PROVE Spared(r) \/ Hit(r, e)
  <2>1. /\ status'[r] = (IF hits(r) # {} THEN to ELSE status[r])
        /\ refund_transitions'[r] = Moved(refund_transitions[r], to, hits(r))
    BY <1>1 DEF WebhookApply
  <2>2. CASE hits(r) = {}
    <3> HIDE DEF to, hits
    <3> QED BY <2>1, <2>2 DEF Moved, Spared
  <2>3. CASE hits(r) # {}
    <3>1. Matches(r, e)
      BY <2>3
    <3>2. (CHOOSE row \in hits(r) : TRUE) \in hits(r)
      BY <2>3
    <3>3. PICK row \in hits(r) : row = CHOOSE x \in hits(r) : TRUE
      BY <3>2
    <3>4. row[2] \in Status \cup {NULL}
      <4>1. task[w].rows \subseteq Refund \X (Status \cup {NULL})
        BY DEF Typed, TaskTyped, Task
      <4> QED BY <3>3, <4>1
    <3> HIDE DEF hits
    <3>5. refund_transitions'[r] = Append(refund_transitions[r], AuditRow(row[2], to, "webhook"))
      BY <2>1, <2>3, <3>3 DEF Moved
    <3> HIDE DEF to
    <3>6. status'[r] = to
      BY <2>1, <2>3
    <3> QED BY <3>1, <3>4, <3>5, <3>6 DEF Hit, to
  <2> QED BY <2>2, <2>3
<1> QED BY <1>1, <1>2, <1>3
-----------------------------------------------------------------------------
(* All other steps.                                                        *)

(* An audit row of a person, or of a job.                                  *)
Noted(r) ==
  \E from \in Status \cup {NULL}, to \in Status, by \in (Actor \cup SystemActor) \ {"webhook"} :
    refund_transitions'[r] = Append(refund_transitions[r], AuditRow(from, to, by))

(* The row is concluded neither before nor after, or as before.            *)
Undecided(r) ==
  \/ status'[r] = status[r]
  \/ status[r] \notin Terminal /\ status'[r] \notin Terminal

Quietly(r) == /\ refund_transitions'[r] = refund_transitions[r] \/ Noted(r)
              /\ Undecided(r)

(* Writing an audit row in a person's or a job's name.                     *)
LEMMA RecordNotes ==
  ASSUME Typed, NEW q, NEW from \in Status \cup {NULL}, NEW to \in Status,
         NEW by \in (Actor \cup SystemActor) \ {"webhook"}, RecordTransition(q, from, to, by),
         NEW r \in Refund
  PROVE  refund_transitions'[r] = refund_transitions[r] \/ Noted(r)
<1> HIDE DEF AuditRow
<1>1. refund_transitions'[r] = refund_transitions[r] \/
      refund_transitions'[r] = Append(refund_transitions[r], AuditRow(from, to, by))
  BY DEF RecordTransition, Typed, TypeOK
<1> QED BY <1>1 DEF Noted

(* No step but the application of an event concludes a row or writes in a  *)
(* webhook's name.                                                         *)
LEMMA OnlyWebhooksConclude ==
  ASSUME Typed, EngineInv, [Next]_vars
  PROVE  \/ \E w \in Worker : WebhookApply(w)
         \/ applied' = applied /\ \A r \in Refund : Quietly(r)
<1>0. /\ "webhook" \notin Actor
      /\ \A a \in Actor : a \in (Actor \cup SystemActor) \ {"webhook"}
  BY ConstantTypes DEF SystemActor
<1>1. ASSUME NEW w \in Worker, RequestStep(w)
      PROVE  applied' = applied /\ \A r \in Refund : Quietly(r)
  <2>1. applied' = applied
    BY <1>1 DEF RequestStep, RequestLock, RequestSum, RequestInsert, requestVars
  <2>2. CASE RequestLock(w) \/ RequestSum(w)
    BY <2>1, <2>2 DEF RequestLock, RequestSum, Quietly, Undecided
  <2>3. CASE RequestInsert(w)
    <3>1. PICK q \in Refund : q = task[w].id /\ status[q] = Absent
      BY <2>3 DEF RequestInsert, At, Typed, TaskTyped, LocalsOK, OnRefund, EngineInv, TaskInv
    <3>2. InitialStatus(q) \in Status \ Terminal /\ Absent \notin Terminal
      BY DEF InitialStatus, Status, Terminal, Absent
    <3>3. ASSUME NEW r \in Refund PROVE Quietly(r)
      <4>1. CASE UNCHANGED <<status, refund_transitions>>
        BY <4>1 DEF Quietly, Undecided
      <4>2. CASE /\ status' = [status EXCEPT ![q] = InitialStatus(q)]
                 /\ RecordTransition(q, NULL, InitialStatus(q), Requester[q])
        <5>1. refund_transitions'[r] = refund_transitions[r] \/ Noted(r)
          <6>1. Requester[q] \in Actor
            BY ConstantTypes
          <6> QED BY <1>0, <3>2, <4>2, <6>1, RecordNotes
        <5>2. Undecided(r)
          BY <3>1, <3>2, <4>2 DEF Undecided, Typed, TypeOK
        <5> QED BY <5>1, <5>2 DEF Quietly
      <4> QED BY <2>3, <3>1, <4>1, <4>2 DEF RequestInsert
    <3> QED BY <2>1, <3>3
  <2> QED BY <1>1, <2>2, <2>3 DEF RequestStep
<1>2. ASSUME NEW w \in Worker, ApproveStep(w)
      PROVE  applied' = applied /\ \A r \in Refund : Quietly(r)
  <2>1. applied' = applied
    BY <1>2 DEF ApproveStep, ApproveMark, ApproveLog, approveVars
  <2>2. CASE ApproveMark(w)
    BY <2>1, <2>2 DEF ApproveMark, UpdateStatus, Approvable, Quietly, Undecided, Terminal,
                      Typed, TypeOK
  <2>3. CASE ApproveLog(w)
    <3>1. task[w].by \in Actor
      BY <2>3 DEF ApproveLog, At, Typed, TaskTyped, LocalsOK
    <3>2. \A r \in Refund : refund_transitions'[r] = refund_transitions[r] \/ Noted(r)
      BY <1>0, <2>3, <3>1, RecordNotes DEF ApproveLog, Status
    <3> QED BY <2>1, <2>3, <3>2 DEF ApproveLog, Quietly, Undecided
  <2> QED BY <1>2, <2>2, <2>3 DEF ApproveStep
<1>3. ASSUME NEW w \in Worker, SubmitStep(w) \/ RecoverStep(w)
      PROVE  applied' = applied /\ \A r \in Refund : Quietly(r)
  <2>0. task[w].seen \in Status \cup {NULL} /\ "submitted" \in Status
        /\ {"job:submit", "job:recover", "job:recover-resubmit"}
             \subseteq (Actor \cup SystemActor) \ {"webhook"}
    BY DEF Typed, TaskTyped, Task, Status, SystemActor
  <2>1. applied' = applied
    BY <1>3 DEF SubmitStep, SubmitMark, SubmitLog, SubmitCall, SubmitRef, RecoverStep,
       RecoverLookup, RecoverAdopt, RecoverAdoptLog, RecoverMark, RecoverCall, RecoverRef,
       RecoverLog, submitVars, recoverVars
  <2>2. CASE SubmitMark(w) \/ RecoverMark(w)
    BY <2>1, <2>2 DEF SubmitMark, RecoverMark, UpdateStatus, Submittable, Quietly, Undecided,
                      Terminal, Typed, TypeOK
  <2>3. CASE SubmitLog(w) \/ RecoverAdoptLog(w) \/ RecoverLog(w)
    <3>1. \A r \in Refund : refund_transitions'[r] = refund_transitions[r] \/ Noted(r)
      BY <2>0, <2>3, RecordNotes DEF SubmitLog, RecoverAdoptLog, RecoverLog
    <3> QED BY <2>1, <2>3, <3>1 DEF SubmitLog, RecoverAdoptLog, RecoverLog, Quietly, Undecided
  <2>4. CASE RecoverAdopt(w)
    <3>1. PICK q \in Refund : q = task[w].id /\ Sent(q)
      BY <2>4 DEF RecoverAdopt, At, Typed, TaskTyped, LocalsOK, OnRefund, EngineInv, TaskInv
    <3>2. gateway_ref[q] = NoRef => status[q] = "submitted"
      BY <3>1 DEF EngineInv, RowInv, Sent
    <3> QED BY <2>1, <2>4, <3>1, <3>2
         DEF RecoverAdopt, Adopts, Quietly, Undecided, Terminal, Typed, TypeOK
  <2>5. CASE \/ SubmitCall(w) \/ SubmitRef(w) \/ RecoverLookup(w) \/ RecoverCall(w)
             \/ RecoverRef(w)
    BY <2>1, <2>5 DEF SubmitCall, SubmitRef, RecoverLookup, RecoverCall, RecoverRef,
                      Quietly, Undecided
  <2> QED BY <1>3, <2>2, <2>3, <2>4, <2>5 DEF SubmitStep, RecoverStep
<1>4. ASSUME NEW w \in Worker, Start(w) \/ Abort(w) \/ WebhookSnapshot(w)
      PROVE  applied' = applied /\ \A r \in Refund : Quietly(r)
  BY <1>4 DEF Start, RequestBegin, SubmitRead, ApproveRead, WebhookClaim, RecoverScan, Abort,
              WebhookSnapshot, requestVars, submitVars, approveVars, recoverVars, Quietly,
              Undecided
<1>5. ASSUME NEW q \in Refund, LateArrival(q)
      PROVE  applied' = applied /\ \A r \in Refund : Quietly(r)
  BY <1>5 DEF LateArrival, Quietly, Undecided
<1>6. CASE UNCHANGED vars
  BY <1>6 DEF vars, Quietly, Undecided
<1> QED BY <1>1, <1>2, <1>3, <1>4, <1>5, <1>6 DEF Next, Step, Rest, WebhookStep
-----------------------------------------------------------------------------
(* Who handles which event.                                                *)

(* A handler keeps its event, and no step but its last applies it.         *)
LEMMA HandlingMoves ==
  ASSUME TaskTyped, NEW w \in Worker, Start(w) \/ Step(w) \/ Abort(w), Handling(w)'
  PROVE  /\ UNCHANGED applied
         /\ \/ Handling(w) /\ task'[w].ev = task[w].ev /\ UNCHANGED webhook_events
            \/ \E e \in Event : WebhookClaim(w, e) /\ task'[w].ev = e
<1>1. \/ \E e \in Event : WebhookClaim(w, e)
      \/ WebhookSnapshot(w)
  BY Flow DEF LeadsOn, Handling
<1>2. ASSUME NEW e \in Event, WebhookClaim(w, e) PROVE task'[w].ev = e /\ UNCHANGED applied
  <2>1. [Idle EXCEPT !.pc = "webhook_snapshot", !.ev = e].ev = e
    BY DEF Idle
  <2> QED BY <1>2, <2>1, TaskChange DEF WebhookClaim
<1>3. CASE WebhookSnapshot(w)
  <2> DEFINE rows == {<<r, LastStatus(r)>> : r \in {q \in Refund : Matches(q, task[w].ev)}}
             t == [task[w] EXCEPT !.pc = "webhook_apply", !.rows = rows]
  <2>1. t.ev = task[w].ev
    BY DEF TaskTyped, Task
  <2> HIDE DEF t
  <2>2. task'[w] = t
    BY <1>3, TaskChange DEF WebhookSnapshot, t
  <2> QED BY <1>3, <2>1, <2>2 DEF WebhookSnapshot, At, Handling
<1> QED BY <1>1, <1>2, <1>3

(* Only the last step of a handler applies an event, and a claim stays.    *)
LEMMA EventsMove ==
  ASSUME NEW w \in Worker, Start(w) \/ Step(w) \/ Abort(w)
  PROVE  /\ webhook_events \subseteq webhook_events'
         /\ applied' = applied \/ WebhookApply(w)
<1>1. CASE Start(w)
  BY <1>1 DEF Start, RequestBegin, SubmitRead, ApproveRead, WebhookClaim, RecoverScan,
              requestVars, submitVars, approveVars, recoverVars
<1>2. CASE RequestStep(w) \/ ApproveStep(w) \/ SubmitStep(w)
  BY <1>2 DEF RequestStep, RequestLock, RequestSum, RequestInsert, ApproveStep, ApproveMark,
     ApproveLog, SubmitStep, SubmitMark, SubmitLog, SubmitCall, SubmitRef,
     requestVars, submitVars, approveVars
<1>3. CASE RecoverStep(w) \/ Abort(w)
  BY <1>3 DEF RecoverStep, RecoverLookup, RecoverAdopt, RecoverAdoptLog, RecoverMark,
     RecoverCall, RecoverRef, RecoverLog, Abort, recoverVars
<1>4. CASE WebhookStep(w)
  BY <1>4 DEF WebhookStep, WebhookSnapshot, WebhookApply
<1> QED BY <1>1, <1>2, <1>3, <1>4 DEF Step

(* Every step keeps an event with one handler, which has not applied it.   *)
LEMMA EventInvNext ==
  ASSUME Typed, EventInv, [Next]_vars
  PROVE  EventInv'
<1>0. TaskTyped
  BY DEF Typed
<1>1. ASSUME NEW w \in Worker, Start(w) \/ Step(w) \/ Abort(w) PROVE EventInv'
  <2>1. \A v \in Worker \ {w} : task'[v] = task[v]
    BY <1>0, <1>1, Flow
  <2>2. CASE WebhookApply(w)
    <3>1. PICK e \in Event : /\ e = task[w].ev /\ Handling(w)
                             /\ applied' = applied \cup {e} /\ UNCHANGED webhook_events
      BY <2>2, ApplyMoves DEF Handling
    <3>2. ~Handling(w)'
      BY <1>0, <2>2, TaskChange DEF WebhookApply, Finish, Idle, Handling
    <3>3. IsFiniteSet(applied')
      BY <3>1, FS_AddElement DEF EventInv
    <3>4. \A v \in Worker : Handling(v)' => v # w /\ Handling(v) /\ task'[v] = task[v]
      BY <2>1, <3>2 DEF Handling
    <3> QED BY <3>1, <3>3, <3>4 DEF EventInv
  <2>3. CASE ~Handling(w)' /\ ~WebhookApply(w)
    <3>1. webhook_events \subseteq webhook_events'
      BY <1>1, EventsMove
    <3>2. applied' = applied
      BY <1>1, <2>3, EventsMove
    <3>3. \A v \in Worker : Handling(v)' => v # w /\ Handling(v) /\ task'[v] = task[v]
      BY <2>1, <2>3 DEF Handling
    <3> QED BY <3>1, <3>2, <3>3 DEF EventInv
  <2>4. CASE Handling(w)'
    <3>1. applied' = applied
      BY <1>0, <1>1, <2>4, HandlingMoves
    <3>2. \A v \in Worker \ {w} : Handling(v)' => Handling(v) /\ task'[v] = task[v]
      BY <2>1 DEF Handling
    <3>3. CASE Handling(w) /\ task'[w].ev = task[w].ev /\ UNCHANGED webhook_events
      BY <3>1, <3>2, <3>3 DEF EventInv
    <3>4. ASSUME NEW e \in Event, WebhookClaim(w, e), task'[w].ev = e PROVE EventInv'
      <4>1. Signed[e] /\ e \notin webhook_events /\ webhook_events' = webhook_events \cup {e}
        BY <3>4 DEF WebhookClaim, Verified, Claims
      <4> QED BY <3>1, <3>2, <3>4, <4>1 DEF EventInv
    <3> QED BY <1>0, <1>1, <2>4, <3>3, <3>4, HandlingMoves
  <2> QED BY <2>2, <2>3, <2>4
<1>2. CASE (\E r \in Refund : LateArrival(r)) \/ UNCHANGED vars
  BY <1>2 DEF LateArrival, vars, EventInv, Handling
<1> QED BY <1>1, <1>2 DEF Next, Rest

(* An event is with one handler at most, which has yet to apply it.        *)
THEOREM EventsInvariant == Spec => []EventInv
<1>1. Init => EventInv
  BY FS_EmptySet DEF Init, EventInv, Idle, Handling
<1> QED BY <1>1, EventInvNext, AlwaysTyped, PTL DEF Spec
-----------------------------------------------------------------------------
(* The verdicts of the rows and of their logs.                             *)

\* The statuses webhooks wrote to a refund's log.
LoggedVerdicts(r) == {refund_transitions[r][i].to_status : i \in WebhookRows(r)}

(* An audit row of a person or a job is none of a webhook.                 *)
LEMMA NotedRows ==
  ASSUME Typed, NEW r \in Refund, refund_transitions'[r] = refund_transitions[r] \/ Noted(r)
  PROVE  WebhookRows(r)' = WebhookRows(r) /\ LoggedVerdicts(r)' = LoggedVerdicts(r)
<1>1. CASE refund_transitions'[r] = refund_transitions[r]
  BY <1>1 DEF WebhookRows, LoggedVerdicts
<1>2. CASE Noted(r)
  <2>1. PICK from \in Status \cup {NULL}, to \in Status,
             by \in (Actor \cup SystemActor) \ {"webhook"} :
          refund_transitions'[r] = Append(refund_transitions[r], AuditRow(from, to, by))
    BY <1>2 DEF Noted
  <2> DEFINE log == refund_transitions[r]
             new == refund_transitions'[r]
  <2>2. log \in Seq(AuditEntry)
    BY DEF Typed, TypeOK
  <2>3. /\ DOMAIN log = 1..Len(log) /\ DOMAIN new = 1..(Len(log) + 1) /\ Len(log) \in Nat
        /\ \A i \in 1..Len(log) : new[i] = log[i]
        /\ new[Len(log) + 1] = AuditRow(from, to, by)
    BY <2>1, <2>2
  <2>4. new[Len(log) + 1].actor # "webhook"
    BY <2>3 DEF AuditRow
  <2> HIDE DEF log, new
  <2>5. {i \in DOMAIN new : new[i].actor = "webhook"} = {i \in DOMAIN log : log[i].actor = "webhook"}
    BY <2>3, <2>4
  <2>6. WebhookRows(r)' = WebhookRows(r)
    BY <2>5 DEF WebhookRows, log, new
  <2>7. \A i \in WebhookRows(r) : new[i] = log[i]
    BY <2>3 DEF WebhookRows, log
  <2> QED BY <2>6, <2>7 DEF LoggedVerdicts, log, new
<1> QED BY <1>1, <1>2

(* The audit row of an event is the next of a webhook.                     *)
LEMMA HitRows ==
  ASSUME Typed, NEW r \in Refund, NEW e \in Event, Hit(r, e)
  PROVE  /\ \E i : i \notin WebhookRows(r) /\ WebhookRows(r)' = WebhookRows(r) \cup {i}
         /\ LoggedVerdicts(r)' = LoggedVerdicts(r) \cup {Verdict(EventKind[e])}
<1> DEFINE to == Verdict(EventKind[e])
           log == refund_transitions[r]
           new == refund_transitions'[r]
<1>1. PICK from \in Status \cup {NULL} : new = Append(log, AuditRow(from, to, "webhook"))
  BY DEF Hit
<1>2. log \in Seq(AuditEntry)
  BY DEF Typed, TypeOK
<1> HIDE DEF to
<1>3. /\ DOMAIN log = 1..Len(log) /\ DOMAIN new = 1..(Len(log) + 1) /\ Len(log) \in Nat
      /\ \A i \in 1..Len(log) : new[i] = log[i]
      /\ new[Len(log) + 1] = AuditRow(from, to, "webhook")
  BY <1>1, <1>2
<1>4. new[Len(log) + 1].actor = "webhook" /\ new[Len(log) + 1].to_status = to
  BY <1>3 DEF AuditRow
<1> HIDE DEF log, new
<1>5. /\ {i \in DOMAIN new : new[i].actor = "webhook"}
           = {i \in DOMAIN log : log[i].actor = "webhook"} \cup {Len(log) + 1}
      /\ Len(log) + 1 \notin DOMAIN log
  BY <1>3, <1>4
<1>6. WebhookRows(r)' = WebhookRows(r) \cup {Len(log) + 1} /\ Len(log) + 1 \notin WebhookRows(r)
  BY <1>5 DEF WebhookRows, log, new
<1>7. \A i \in WebhookRows(r) : new[i] = log[i]
  BY <1>3 DEF WebhookRows, log
<1>8. LoggedVerdicts(r)' = LoggedVerdicts(r) \cup {to}
  BY <1>4, <1>6, <1>7 DEF LoggedVerdicts, log, new
<1> QED BY <1>6, <1>8 DEF to

(* An event moves a row that is not settled to its own verdict.            *)
LEMMA HitVerdict ==
  ASSUME Typed, EngineInv, NEW r \in Refund, NEW e \in Event, Hit(r, e)
  PROVE  /\ EventKind[e] \in {"refund.settled", "refund.failed"}
         /\ EventRef[e] = gw_store[r] /\ EventRef[e] = gateway_ref[r]
         /\ status'[r] = Verdict(EventKind[e]) /\ status'[r] \in Terminal
         /\ status[r] \in Terminal => status[r] = status'[r]
<1>1. gateway_ref[r] = EventRef[e] /\ status[r] \in Movable(EventKind[e])
  BY DEF Hit, Matches
<1>2. gateway_ref[r] = gw_store[r] /\ Sent(r)
  BY <1>1, ConstantTypes DEF EngineInv, RowInv, Holds, NoRef
<1>3. EventKind[e] \in {"refund.settled", "refund.failed"}
  BY <1>1 DEF Movable
<1>4. status'[r] = Verdict(EventKind[e]) /\ status'[r] \in Terminal
  BY DEF Hit, Verdict, Terminal
<1>5. status[r] \in Terminal => status[r] = status'[r]
  BY <1>1, <1>2, <1>3, <1>4 DEF Movable, Verdict, Sent, Terminal
<1> QED BY <1>1, <1>2, <1>3, <1>4, <1>5

(* A concluded row has the reference the gateway keeps.                    *)
LEMMA ConcludedHolds ==
  ASSUME EngineInv, NEW r \in Refund, status[r] \in Terminal
  PROVE  status[r] \in {"settled", "failed"} /\ Holds(r) /\ gateway_ref[r] = gw_store[r]
BY DEF EngineInv, RowInv, Terminal, Holds

(* Every step keeps the word of the gateway behind each verdict.           *)
LEMMA VerdictNext ==
  ASSUME Typed, EngineInv, GwBooks, EventInv, VerdictIsTheGateways, [Next]_vars
  PROVE  VerdictIsTheGateways'
<1> SUFFICES ASSUME NEW r \in Refund, status'[r] \in {"settled", "failed"}
             PROVE  \E e \in applied' :
                      /\ Signed[e]
                      /\ EventRef[e] = gw_store'[r]
                      /\ EventKind[e] \in {"refund.settled", "refund.failed"}
                      /\ Verdict(EventKind[e]) = status'[r]
  BY DEF VerdictIsTheGateways
<1>1. CASE status'[r] = status[r] /\ applied \subseteq applied'
  <2>1. Holds(r)
    BY <1>1, ConcludedHolds DEF Terminal
  <2>2. gw_store'[r] = gw_store[r]
    BY <2>1, BooksKept
  <2> QED BY <1>1, <2>2 DEF VerdictIsTheGateways
<1>2. CASE applied' = applied /\ Quietly(r)
  BY <1>1, <1>2 DEF Quietly, Undecided, Terminal
<1>3. ASSUME NEW w \in Worker, WebhookApply(w)
      PROVE  \E e \in applied' :
                      /\ Signed[e]
                      /\ EventRef[e] = gw_store'[r]
                      /\ EventKind[e] \in {"refund.settled", "refund.failed"}
                      /\ Verdict(EventKind[e]) = status'[r]
  <2>1. PICK e \in Event :
          /\ e = task[w].ev /\ task[w].pc = "webhook_apply" /\ applied' = applied \cup {e}
          /\ \A q \in Refund : Spared(q) \/ Hit(q, e)
          /\ UNCHANGED <<gateway_ref, gw_store, webhook_events>>
    BY <1>3, ApplyMoves
  <2>2. CASE Spared(r)
    BY <1>1, <2>1, <2>2 DEF Spared
  <2>3. CASE Hit(r, e)
    <3>1. Signed[e]
      BY <2>1 DEF EventInv, Handling
    <3> QED BY <2>1, <2>3, <3>1, HitVerdict
  <2> QED BY <2>1, <2>2, <2>3
<1> QED BY <1>2, <1>3, OnlyWebhooksConclude

(* No refund is settled or failed but on the word of a signed event about  *)
(* it.                                                                     *)
THEOREM GatewaysWord == Spec => []VerdictIsTheGateways
<1>1. Init => VerdictIsTheGateways
  BY DEF Init, VerdictIsTheGateways, Absent
<1> QED BY <1>1, VerdictNext, AlwaysTyped, EngineInvariant, Books, EventsInvariant, PTL DEF Spec

(* Every step writes the verdict to the row and to the log, or to neither. *)
LEMMA AuditedNext ==
  ASSUME Typed, EngineInv, VerdictAudited, [Next]_vars
  PROVE  VerdictAudited'
<1> SUFFICES ASSUME NEW r \in Refund
             PROVE  LoggedVerdicts(r)' = IF status'[r] \in Terminal THEN {status'[r]} ELSE {}
  BY DEF VerdictAudited, LoggedVerdicts
<1>1. LoggedVerdicts(r) = IF status[r] \in Terminal THEN {status[r]} ELSE {}
  BY DEF VerdictAudited, LoggedVerdicts
<1>2. CASE Quietly(r)
  BY <1>1, <1>2, NotedRows DEF Quietly, Undecided
<1>3. ASSUME NEW e \in Event, Hit(r, e)
      PROVE  LoggedVerdicts(r)' = {status'[r]} /\ status'[r] \in Terminal
  BY <1>1, <1>3, HitRows, HitVerdict
<1>4. CASE Spared(r)
  BY <1>1, <1>4, NotedRows DEF Spared
<1> QED BY <1>2, <1>3, <1>4, OnlyWebhooksConclude, ApplyMoves

(* Row and log agree on the verdict at every moment.                       *)
THEOREM RowAndLogAgree == Spec => []VerdictAudited
<1>1. Init => VerdictAudited
  <2>1. ASSUME Init, NEW r \in Refund PROVE WebhookRows(r) = {} /\ status[r] \notin Terminal
    BY <2>1 DEF Init, WebhookRows, Terminal, Absent
  <2> QED BY <2>1 DEF VerdictAudited
<1> QED BY <1>1, AuditedNext, AlwaysTyped, EngineInvariant, PTL DEF Spec

\* The applied events that name a refund.
Named(r) == {e \in applied : EventRef[e] = gateway_ref[r]}

(* A log is finite, and so are the events so far.                          *)
LEMMA LogIsFinite ==
  ASSUME Typed, EventInv, NEW r \in Refund
  PROVE  /\ IsFiniteSet(WebhookRows(r)) /\ Cardinality(WebhookRows(r)) \in Nat
         /\ IsFiniteSet(Named(r)) /\ Cardinality(Named(r)) \in Nat
<1>1. refund_transitions[r] \in Seq(AuditEntry)
  BY DEF Typed, TypeOK
<1>2. WebhookRows(r) \subseteq 1..Len(refund_transitions[r]) /\ Len(refund_transitions[r]) \in Nat
  BY <1>1 DEF WebhookRows
<1>3. IsFiniteSet(1..Len(refund_transitions[r]))
  BY <1>2, FS_Interval
<1>4. IsFiniteSet(WebhookRows(r))
  BY <1>2, <1>3, FS_Subset
<1>5. IsFiniteSet(Named(r))
  BY FS_Subset DEF EventInv, Named
<1> QED BY <1>4, <1>5, FS_CardinalityType

(* Every event accounts for one audit row at most.                         *)
LEMMA AppliedOnceNext ==
  ASSUME Typed, Typed', EngineInv, EngineInv', GwBooks, EventInv, EventInv', VerdictAudited,
         AppliedOnce, [Next]_vars
  PROVE  AppliedOnce'
<1> SUFFICES ASSUME NEW r \in Refund
             PROVE  Cardinality(WebhookRows(r)') <= Cardinality(Named(r)')
  BY DEF AppliedOnce, Named
<1>1. Cardinality(WebhookRows(r)) <= Cardinality(Named(r))
  BY DEF AppliedOnce, Named
<1>2. /\ Cardinality(WebhookRows(r)) \in Nat /\ Cardinality(Named(r)) \in Nat
      /\ IsFiniteSet(WebhookRows(r)) /\ IsFiniteSet(Named(r))
  BY LogIsFinite
<1>3. Cardinality(Named(r)') \in Nat /\ IsFiniteSet(Named(r)')
  <2>1. applied' \subseteq Event /\ IsFiniteSet(applied')
    BY DEF EventInv, Typed, TypeOK
  <2>2. Named(r)' \subseteq applied'
    BY DEF Named
  <2> QED BY <2>1, <2>2, FS_Subset, FS_CardinalityType
<1>4. CASE applied' = applied /\ Quietly(r)
  <2>1. WebhookRows(r)' = WebhookRows(r)
    BY <1>4, NotedRows DEF Quietly
  <2>2. CASE status[r] \in Terminal
    <3>1. status'[r] = status[r]
      BY <1>4, <2>2 DEF Quietly, Undecided
    <3>2. Holds(r) /\ gateway_ref[r] = gw_store[r]
      BY <2>2, ConcludedHolds
    <3>3. gateway_ref'[r] = gw_store'[r]
      BY <2>2, <3>1 DEF EngineInv, RowInv, Terminal
    <3>4. gateway_ref'[r] = gateway_ref[r]
      BY <3>2, <3>3, BooksKept
    <3>5. Named(r)' = Named(r)
      BY <1>4, <3>4 DEF Named
    <3> QED BY <1>1, <2>1, <3>5
  <2>3. CASE status[r] \notin Terminal
    <3>1. WebhookRows(r) = {}
      BY <2>3 DEF VerdictAudited
    <3>2. Cardinality(WebhookRows(r)') = 0
      BY <2>1, <3>1, FS_EmptySet
    <3> QED BY <1>3, <3>2
  <2> QED BY <2>2, <2>3
<1>5. ASSUME NEW w \in Worker, WebhookApply(w)
      PROVE  Cardinality(WebhookRows(r)') <= Cardinality(Named(r)')
  <2>1. PICK e \in Event :
          /\ e = task[w].ev /\ task[w].pc = "webhook_apply" /\ applied' = applied \cup {e}
          /\ \A q \in Refund : Spared(q) \/ Hit(q, e)
          /\ UNCHANGED <<gateway_ref, gw_store, webhook_events>>
    BY <1>5, ApplyMoves
  <2>2. Named(r) \subseteq Named(r)'
    BY <2>1 DEF Named
  <2>3. Cardinality(Named(r)) <= Cardinality(Named(r)')
    BY <1>3, <2>2, FS_Subset
  <2>4. CASE Spared(r)
    BY <1>1, <1>2, <1>3, <2>3, <2>4, NotedRows DEF Spared
  <2>5. CASE Hit(r, e)
    <3>1. e \notin applied /\ EventRef[e] = gateway_ref[r]
      BY <2>1, <2>5, HitVerdict DEF EventInv, Handling
    <3>2. Named(r)' = Named(r) \cup {e} /\ e \notin Named(r)
      BY <2>1, <3>1 DEF Named
    <3>3. Cardinality(Named(r)') = Cardinality(Named(r)) + 1
      BY <1>2, <3>2, FS_AddElement
    <3>4. PICK i : i \notin WebhookRows(r) /\ WebhookRows(r)' = WebhookRows(r) \cup {i}
      BY <2>5, HitRows
    <3>5. Cardinality(WebhookRows(r)') = Cardinality(WebhookRows(r)) + 1
      BY <1>2, <3>4, FS_AddElement
    <3> QED BY <1>1, <1>2, <3>3, <3>5
  <2> QED BY <2>1, <2>4, <2>5
<1> QED BY <1>4, <1>5, OnlyWebhooksConclude

(* However often an event is delivered, it moves a refund once.            *)
THEOREM EventsApplyOnce == Spec => []AppliedOnce
<1>1. Init => AppliedOnce
  <2> SUFFICES ASSUME Init, NEW r \in Refund
               PROVE  Cardinality(WebhookRows(r)) <= Cardinality(Named(r))
    BY DEF AppliedOnce, Named
  <2>1. WebhookRows(r) = {} /\ Named(r) = {}
    BY DEF Init, WebhookRows, Named
  <2> QED BY <2>1, FS_EmptySet
<1>2. Typed /\ Typed' /\ EngineInv /\ EngineInv' /\ GwBooks /\ EventInv /\ EventInv'
        /\ VerdictAudited /\ AppliedOnce /\ [Next]_vars => AppliedOnce'
  BY AppliedOnceNext
<1> QED BY <1>1, <1>2, AlwaysTyped, EngineInvariant, Books, EventsInvariant, RowAndLogAgree, PTL
     DEF Spec
-----------------------------------------------------------------------------
(* What the log still misses, and who will write it.                       *)

\* A row is added to the log of r, or the log is left alone.
Grows(r) ==
  \/ refund_transitions'[r] = refund_transitions[r]
  \/ \E from \in Status \cup {NULL}, to \in Status, by \in Actor \cup SystemActor :
       refund_transitions'[r] = Append(refund_transitions[r], AuditRow(from, to, by))

(* A log keeps what it says, and says what is added.                       *)
LEMMA Appending ==
  ASSUME Typed, NEW r \in Refund, NEW from, NEW to, NEW by,
         refund_transitions'[r] = Append(refund_transitions[r], AuditRow(from, to, by))
  PROVE  /\ \A s : LoggedAs(r, s) => LoggedAs(r, s)'
         /\ \A a : SignedBy(r, a) => SignedBy(r, a)'
         /\ LoggedAs(r, to)' /\ SignedBy(r, by)'
<1> DEFINE log == refund_transitions[r]
           new == refund_transitions'[r]
<1>1. log \in Seq(AuditEntry)
  BY DEF Typed, TypeOK
<1>2. /\ DOMAIN log = 1..Len(log) /\ DOMAIN new = 1..(Len(log) + 1) /\ Len(log) \in Nat
      /\ \A i \in 1..Len(log) : new[i] = log[i]
      /\ new[Len(log) + 1] = AuditRow(from, to, by)
  BY <1>1
<1>3. /\ \A i \in DOMAIN log : i \in DOMAIN new /\ new[i] = log[i]
      /\ Len(log) + 1 \in DOMAIN new
      /\ new[Len(log) + 1].to_status = to /\ new[Len(log) + 1].actor = by
  BY <1>2 DEF AuditRow
<1> QED BY <1>3 DEF LoggedAs, SignedBy

(* No step takes a row out of a log.                                       *)
LEMMA LogsGrow ==
  ASSUME Typed, EngineInv, [Next]_vars, NEW r \in Refund
  PROVE  /\ \A s : LoggedAs(r, s) => LoggedAs(r, s)'
         /\ \A a : SignedBy(r, a) => SignedBy(r, a)'
<1>1. Grows(r)
  <2>1. CASE Quietly(r)
    BY <2>1 DEF Quietly, Noted, Grows
  <2>2. CASE Spared(r)
    BY <2>2 DEF Spared, Grows
  <2>3. ASSUME NEW e \in Event, Hit(r, e) PROVE Grows(r)
    <3>1. Verdict(EventKind[e]) \in Status /\ "webhook" \in Actor \cup SystemActor
      BY DEF Verdict, Status, SystemActor
    <3> QED BY <2>3, <3>1 DEF Hit, Grows
  <2> QED BY <2>1, <2>2, <2>3, OnlyWebhooksConclude, ApplyMoves
<1>2. CASE refund_transitions'[r] = refund_transitions[r]
  BY <1>2 DEF LoggedAs, SignedBy
<1> QED BY <1>1, <1>2, Appending DEF Grows

(* Writing an audit row logs its status and its actor.                     *)
LEMMA RecordLogs ==
  ASSUME Typed, NEW r \in Refund, NEW from, NEW to, NEW by, RecordTransition(r, from, to, by)
  PROVE  LoggedAs(r, to)' /\ SignedBy(r, by)'
<1>1. refund_transitions'[r] = Append(refund_transitions[r], AuditRow(from, to, by))
  BY DEF RecordTransition, Typed, TypeOK
<1> QED BY <1>1, Appending

(* A call that owes an audit row writes it, or still owes it.              *)
LEMMA DebtsArePaid ==
  ASSUME Typed, NEW w \in Worker, Step(w), NEW r \in Refund
  PROVE  /\ \A s : Owes(w, r, s) => LoggedAs(r, s)' \/ Owes(w, r, s)'
         /\ \A a : OwesName(w, r, a) => SignedBy(r, a)' \/ OwesName(w, r, a)'
<1>0. TaskTyped
  BY DEF Typed
<1> SUFFICES ASSUME task[w].id = r,
                    task[w].pc \in {"approve_log", "submit_log", "recover_adopt_log",
                                    "recover_call", "recover_ref", "recover_log"}
             PROVE  /\ \A s : Owes(w, r, s) => LoggedAs(r, s)' \/ Owes(w, r, s)'
                    /\ \A a : OwesName(w, r, a) => SignedBy(r, a)' \/ OwesName(w, r, a)'
  BY DEF Owes, OwesName, At
<1>1. CASE ApproveLog(w)
  <2>1. PICK a : a = task[w].by
    OBVIOUS
  <2>2. LoggedAs(r, "requested")' /\ SignedBy(r, a)'
    BY <1>1, <2>1, RecordLogs DEF ApproveLog
  <2> QED BY <1>1, <2>1, <2>2 DEF ApproveLog, At, Owes, OwesName
<1>2. CASE SubmitLog(w) \/ RecoverAdoptLog(w) \/ RecoverLog(w)
  <2>1. LoggedAs(r, "submitted")'
    BY <1>2, RecordLogs DEF SubmitLog, RecoverAdoptLog, RecoverLog
  <2> QED BY <1>2, <2>1 DEF SubmitLog, RecoverAdoptLog, RecoverLog, At, Owes, OwesName
<1>3. CASE RecoverCall(w)
  <2>1. task[w].pc = "recover_call"
    BY <1>3 DEF RecoverCall, At
  <2>2. Goto(w, "recover_log") \/ (task'[w].pc = "recover_ref" /\ task'[w].id = task[w].id)
    BY <1>0, <1>3, CreateAt DEF RecoverCall
  <2>3. task'[w].id = r /\ task'[w].pc \in {"recover_ref", "recover_log"}
    BY <1>0, <2>2, GotoAt
  <2> QED BY <2>1, <2>3 DEF Owes, OwesName, At
<1>4. CASE RecoverRef(w)
  <2>1. task[w].pc = "recover_ref"
    BY <1>4 DEF RecoverRef, At
  <2>2. task'[w].id = r /\ task'[w].pc = "recover_log"
    BY <1>0, <1>4, GotoAt DEF RecoverRef
  <2> QED BY <2>1, <2>2 DEF Owes, OwesName, At
<1> QED BY <1>1, <1>2, <1>3, <1>4
     DEF Step, RequestStep, RequestLock, RequestSum, RequestInsert, ApproveStep, ApproveMark,
         SubmitStep, SubmitMark, SubmitCall, SubmitRef, WebhookStep, WebhookSnapshot, WebhookApply,
         RecoverStep, RecoverLookup, RecoverAdopt, RecoverMark, At

(* Whoever gives a row a new status logs it then, or owes it.              *)
LEMMA NewStatusIsOwed ==
  ASSUME Typed, EngineInv, AuditInv, NEW w \in Worker, Step(w),
         NEW r \in Refund, NEW s, s = status'[r], s # status[r]
  PROVE  LoggedAs(r, s)' \/ Owes(w, r, s)'
<1>0. TaskTyped /\ status \in [Refund -> Status \cup {Absent}]
  BY DEF Typed, TypeOK
<1>1. CASE RequestInsert(w)
  <2>1. PICK q \in Refund : q = task[w].id
    BY <1>1 DEF RequestInsert, At, Typed, TaskTyped, LocalsOK, OnRefund
  <2>2. /\ q = r /\ status'[r] = InitialStatus(r)
        /\ RecordTransition(r, NULL, InitialStatus(r), Requester[r])
    BY <1>0, <1>1, <2>1 DEF RequestInsert
  <2>3. LoggedAs(r, InitialStatus(r))'
    BY <2>2, RecordLogs
  <2> QED BY <2>2, <2>3 DEF LoggedAs
<1>2. CASE ApproveMark(w)
  <2>1. task[w].id = r /\ status'[r] = "requested"
    BY <1>0, <1>2 DEF ApproveMark, UpdateStatus
  <2>2. task'[w].id = r /\ task'[w].pc = "approve_log"
    BY <1>0, <1>2, <2>1, GotoAt DEF ApproveMark
  <2> QED BY <2>1, <2>2 DEF Owes, At
<1>3. CASE SubmitMark(w)
  <2>1. task[w].id = r /\ status'[r] = "submitted" /\ status[r] = "requested"
    BY <1>0, <1>3 DEF SubmitMark, UpdateStatus, Submittable
  <2>2. NeedsLog(task[w].seen)
    BY <1>3, <2>1 DEF SubmitMark, AuditInv, Sent
  <2>3. task'[w].id = r /\ task'[w].pc = "submit_log"
    BY <1>0, <1>3, <2>1, <2>2, GotoAt DEF SubmitMark
  <2> QED BY <2>1, <2>3 DEF Owes, At
<1>4. CASE RecoverMark(w) \/ RecoverAdopt(w)
  <2>1. task[w].id = r /\ status'[r] = "submitted"
    BY <1>0, <1>4 DEF RecoverMark, RecoverAdopt, UpdateStatus
  <2>2. task'[w].id = r /\ task'[w].pc \in {"recover_call", "recover_adopt_log"}
    BY <1>0, <1>4, <2>1, GotoAt DEF RecoverMark, RecoverAdopt
  <2> QED BY <2>1, <2>2 DEF Owes, At
<1>5. CASE WebhookApply(w)
  <2>1. PICK e \in Event : Hit(r, e)
    BY <1>5, ApplyMoves DEF Spared
  <2>2. PICK from : refund_transitions'[r] =
          Append(refund_transitions[r], AuditRow(from, s, "webhook"))
    BY <2>1 DEF Hit
  <2> QED BY <2>2, Appending DEF LoggedAs
<1>6. CASE \/ RequestLock(w) \/ RequestSum(w) \/ ApproveLog(w) \/ SubmitLog(w) \/ SubmitCall(w)
           \/ SubmitRef(w) \/ WebhookSnapshot(w) \/ RecoverLookup(w) \/ RecoverAdoptLog(w)
           \/ RecoverCall(w) \/ RecoverRef(w) \/ RecoverLog(w)
  BY <1>6 DEF RequestLock, RequestSum, ApproveLog, SubmitLog, SubmitCall, SubmitRef,
     WebhookSnapshot, RecoverLookup, RecoverAdoptLog, RecoverCall, RecoverRef, RecoverLog
<1> QED BY <1>1, <1>2, <1>3, <1>4, <1>5, <1>6
     DEF Step, RequestStep, ApproveStep, SubmitStep, WebhookStep, RecoverStep

(* Whoever releases a row owes its name.                                   *)
LEMMA NewNameIsOwed ==
  ASSUME Typed, NEW w \in Worker, Step(w), NEW r \in Refund, NEW a \in approved'[r] \ approved[r]
  PROVE  OwesName(w, r, a)'
<1>0. TaskTyped /\ approved \in [Refund -> SUBSET Actor]
  BY DEF Typed, TypeOK
<1>1. CASE ApproveMark(w)
  <2>1. task[w].id = r /\ task[w].by = a
    BY <1>0, <1>1 DEF ApproveMark
  <2>2. task'[w].id = r /\ task'[w].by = a /\ task'[w].pc = "approve_log"
    BY <1>0, <1>1, <2>1, GotoAt DEF ApproveMark
  <2> QED BY <2>2 DEF OwesName, At
<1>2. CASE RequestStep(w) \/ ApproveLog(w) \/ SubmitStep(w) \/ WebhookStep(w) \/ RecoverStep(w)
  <2>1. approved' = approved
    BY <1>2 DEF RequestStep, RequestLock, RequestSum, RequestInsert, ApproveLog, SubmitStep,
       SubmitMark, SubmitLog, SubmitCall, SubmitRef, WebhookStep, WebhookSnapshot, WebhookApply,
       RecoverStep, RecoverLookup, RecoverAdopt, RecoverAdoptLog, RecoverMark, RecoverCall,
       RecoverRef, RecoverLog, requestVars, approveVars, submitVars, webhookVars, recoverVars
  <2> QED BY <2>1
<1> QED BY <1>1, <1>2 DEF Step, ApproveStep

(* Only a call that is cut off spends from the budget for it.              *)
LEMMA SpendsNoAbort ==
  ASSUME LeftTyped, NEW w \in Worker, Start(w) \/ Step(w)
  PROVE  left'["abort"] = left["abort"]
<1>2. ASSUME NEW kind \in Bounded \ {"abort"}, Spend(kind)
      PROVE  left'["abort"] = left["abort"]
  BY <1>2 DEF Spend, LeftTyped, Bounded
<1>4. CASE Start(w)
  <2>1. \E kind \in Bounded \ {"abort"} : Spend(kind)
    BY <1>4 DEF Start, RequestBegin, SubmitRead, ApproveRead, WebhookClaim, RecoverScan, Bounded
  <2> QED BY <1>2, <2>1
<1>5. CASE SubmitCall(w) \/ RecoverCall(w)
  <2>1. Spend("fault") \/ UNCHANGED left
    BY <1>5 DEF SubmitCall, RecoverCall, CreateRefund
  <2> QED BY <1>2, <2>1 DEF Bounded
<1>6. CASE UNCHANGED left
  BY <1>6
<1> QED BY <1>4, <1>5, <1>6
     DEF Step, RequestStep, RequestLock, RequestSum, RequestInsert, ApproveStep, ApproveMark,
         ApproveLog, SubmitStep, SubmitMark, SubmitLog, SubmitRef, WebhookStep, WebhookSnapshot,
         WebhookApply, RecoverStep, RecoverLookup, RecoverAdopt, RecoverAdoptLog, RecoverMark,
         RecoverRef, RecoverLog

(* A debt is kept or paid by every step that is not an abort.              *)
LEMMA DebtsAreKept ==
  ASSUME Typed, EngineInv, [Next]_vars, NEW r \in Refund,
         \/ \E w \in Worker : Start(w) \/ Step(w)
         \/ \E q \in Refund : LateArrival(q)
         \/ UNCHANGED vars
  PROVE  /\ \A s : StatusKnown(r, s) => StatusKnown(r, s)'
         /\ \A a : NameKnown(r, a) => NameKnown(r, a)'
<1>0. TaskTyped
  BY DEF Typed
<1>1. ASSUME NEW v \in Worker, task'[v] = task[v]
      PROVE  /\ \A s : Owes(v, r, s) => Owes(v, r, s)'
             /\ \A a : OwesName(v, r, a) => OwesName(v, r, a)'
  BY <1>1 DEF Owes, OwesName, At
<1>2. ASSUME NEW w \in Worker, Start(w) \/ Step(w)
      PROVE  \A v \in Worker \ {w} : task'[v] = task[v]
  BY <1>0, <1>2, Flow
<1>3. ASSUME NEW w \in Worker, Start(w)
      PROVE  /\ \A s : ~Owes(w, r, s)
             /\ \A a : ~OwesName(w, r, a)
  BY <1>3 DEF Start, RequestBegin, SubmitRead, ApproveRead, WebhookClaim, RecoverScan,
              At, Owes, OwesName
<1>4. CASE \E w \in Worker : Start(w)
  BY <1>1, <1>2, <1>3, <1>4, LogsGrow DEF StatusKnown, NameKnown
<1>5. ASSUME NEW w \in Worker, Step(w)
      PROVE  /\ \A s : StatusKnown(r, s) => StatusKnown(r, s)'
             /\ \A a : NameKnown(r, a) => NameKnown(r, a)'
  BY <1>1, <1>2, <1>5, LogsGrow, DebtsArePaid DEF StatusKnown, NameKnown
<1>6. CASE UNCHANGED task
  BY <1>1, <1>6, LogsGrow DEF StatusKnown, NameKnown
<1> QED BY <1>4, <1>5, <1>6 DEF LateArrival, vars

(* Only calls change a row's status or who approved it, and not at their   *)
(* first statement.                                                        *)
LEMMA RowsUnlessStep ==
  ASSUME \/ \E w \in Worker : Start(w)
         \/ \E q \in Refund : LateArrival(q)
         \/ UNCHANGED vars
  PROVE  UNCHANGED <<status, approved>>
BY DEF Start, RequestBegin, SubmitRead, ApproveRead, WebhookClaim, RecoverScan, LateArrival, vars,
       requestVars, submitVars, approveVars, webhookVars, recoverVars

(* A submit that will write nothing has a row already marked.              *)
LEMMA SilentSubmits ==
  ASSUME Typed, EngineInv, AuditInv, [Next]_vars, NEW v \in Worker,
         task'[v].pc = "submit_mark", ~NeedsLog(task'[v].seen)
  PROVE  Sent(task[v].id)'
<1>0. TaskTyped
  BY DEF Typed
<1>1. ASSUME NEW r \in Refund, Sent(r) PROVE Sent(r)'
  BY <1>1, StatusMoves DEF Move, InsertOf, Sent, Absent
<1>2. CASE task'[v] = task[v]
  <2>1. task[v].id \in Refund /\ Sent(task[v].id)
    BY <1>0, <1>2 DEF TaskTyped, LocalsOK, OnRefund, AuditInv, At
  <2> QED BY <1>1, <1>2, <2>1 DEF Sent
<1>3. CASE Start(v) \/ Step(v) \/ Abort(v)
  <2>1. PICK r \in Refund : SubmitRead(v, r)
    BY <1>0, <1>3, Flow DEF LeadsOn
  <2>2. task'[v].id = r /\ task'[v].seen = status[r]
    <3> DEFINE t == [Idle EXCEPT !.pc = AfterRead, !.id = r, !.seen = status[r]]
    <3>1. t.id = r /\ t.seen = status[r]
      BY DEF Idle
    <3> HIDE DEF t
    <3>2. task'[v] = t
      BY <1>0, <2>1, TaskChange DEF SubmitRead, t
    <3> QED BY <3>1, <3>2
  <2>3. Sent(r)'
    BY <1>1, <2>2 DEF NeedsLog, Sent
  <2> QED BY <2>2, <2>3 DEF Sent
<1> QED BY <1>0, <1>2, <1>3, Flow DEF Next, LateArrival, Rest, vars

(* A step that is no abort loses nothing: what is new is logged or owed,   *)
(* what was owed is logged or owed still.                                  *)
LEMMA NothingMoreIsLost ==
  ASSUME Typed, EngineInv, AuditInv, [Next]_vars,
         \/ \E w \in Worker : Start(w) \/ Step(w)
         \/ \E q \in Refund : LateArrival(q)
         \/ UNCHANGED vars
  PROVE  LostStatuses' \subseteq LostStatuses /\ LostNames' \subseteq LostNames
<1>1. ASSUME NEW r \in Refund, NEW s \in Through(r)', ~StatusKnown(r, s)'
      PROVE  s \in Through(r) /\ ~StatusKnown(r, s)
  <2>1. ~StatusKnown(r, s)
    BY <1>1, DebtsAreKept
  <2>2. CASE s \notin Through(r)
    <3>1. s = status'[r] /\ status'[r] # status[r]
      BY <1>1, <2>2, ThroughMoves DEF Through
    <3>2. PICK w \in Worker : Step(w)
      BY <3>1, RowsUnlessStep
    <3>3. LoggedAs(r, s)' \/ Owes(w, r, s)'
      BY <3>1, <3>2, NewStatusIsOwed
    <3> QED BY <1>1, <3>3 DEF StatusKnown
  <2> QED BY <2>1, <2>2
<1>2. ASSUME NEW r \in Refund, NEW a \in approved'[r], ~NameKnown(r, a)'
      PROVE  a \in approved[r] /\ ~NameKnown(r, a)
  <2>1. ~NameKnown(r, a)
    BY <1>2, DebtsAreKept
  <2>2. CASE a \notin approved[r]
    <3>1. PICK w \in Worker : Step(w)
      BY <1>2, <2>2, RowsUnlessStep
    <3>2. OwesName(w, r, a)'
      BY <1>2, <2>2, <3>1, NewNameIsOwed
    <3> QED BY <1>2, <3>2 DEF NameKnown
  <2> QED BY <2>1, <2>2
<1>3. LostStatuses' \subseteq LostStatuses
  BY <1>1 DEF LostStatuses
<1>4. LostNames' \subseteq LostNames
  BY <1>2 DEF LostNames
<1> QED BY <1>3, <1>4

(* A call that is cut off owes one row, for one status and in one name.    *)
LEMMA AbortLosesOne ==
  ASSUME Typed, NEW w \in Worker, Abort(w)
  PROVE  /\ \E p : LostStatuses' \subseteq LostStatuses \cup {p}
         /\ \E p : LostNames' \subseteq LostNames \cup {p}
<1>0. TaskTyped
  BY DEF Typed
<1>1. UNCHANGED <<status, approved, refund_transitions>>
  BY DEF Abort
<1>2. \A v \in Worker \ {w} : task'[v] = task[v]
  BY <1>0, TaskChange DEF Abort, Finish
<1> DEFINE s0 == IF task[w].pc = "approve_log" THEN "requested" ELSE "submitted"
<1>3. ASSUME NEW r \in Refund, NEW s \in Through(r)', ~StatusKnown(r, s)'
      PROVE  /\ s \in Through(r)
             /\ ~StatusKnown(r, s) \/ (r = task[w].id /\ s = s0)
  <2>1. s \in Through(r) /\ ~LoggedAs(r, s)
    BY <1>1, <1>3 DEF Through, StatusKnown, LoggedAs
  <2>2. \A v \in Worker \ {w} : ~Owes(v, r, s)
    BY <1>2, <1>3 DEF StatusKnown, Owes, At
  <2>3. Owes(w, r, s) => r = task[w].id /\ s = s0
    BY DEF Owes, At
  <2> QED BY <2>1, <2>2, <2>3 DEF StatusKnown
<1>4. ASSUME NEW r \in Refund, NEW a \in approved'[r], ~NameKnown(r, a)'
      PROVE  /\ a \in approved[r]
             /\ ~NameKnown(r, a) \/ (r = task[w].id /\ a = task[w].by)
  <2>1. a \in approved[r] /\ ~SignedBy(r, a)
    BY <1>1, <1>4 DEF NameKnown, SignedBy
  <2>2. \A v \in Worker \ {w} : ~OwesName(v, r, a)
    BY <1>2, <1>4 DEF NameKnown, OwesName, At
  <2>3. OwesName(w, r, a) => r = task[w].id /\ a = task[w].by
    BY DEF OwesName
  <2> QED BY <2>1, <2>2, <2>3 DEF NameKnown
<1> HIDE DEF s0
<1>5. LostStatuses' \subseteq LostStatuses \cup {<<task[w].id, s0>>}
  <2> SUFFICES ASSUME NEW p \in LostStatuses' PROVE p \in LostStatuses \cup {<<task[w].id, s0>>}
    OBVIOUS
  <2>1. /\ p \in Refund \X Status /\ p = <<p[1], p[2]>>
        /\ p[1] \in Refund /\ p[2] \in Through(p[1])' /\ ~StatusKnown(p[1], p[2])'
    BY DEF LostStatuses
  <2>2. /\ p[2] \in Through(p[1])
        /\ ~StatusKnown(p[1], p[2]) \/ (p[1] = task[w].id /\ p[2] = s0)
    BY <1>3, <2>1
  <2> QED BY <2>1, <2>2 DEF LostStatuses
<1>6. LostNames' \subseteq LostNames \cup {<<task[w].id, task[w].by>>}
  <2> SUFFICES ASSUME NEW p \in LostNames'
               PROVE  p \in LostNames \cup {<<task[w].id, task[w].by>>}
    OBVIOUS
  <2>1. /\ p \in Refund \X Actor /\ p = <<p[1], p[2]>>
        /\ p[1] \in Refund /\ p[2] \in approved'[p[1]] /\ ~NameKnown(p[1], p[2])'
    BY DEF LostNames
  <2>2. /\ p[2] \in approved[p[1]]
        /\ ~NameKnown(p[1], p[2]) \/ (p[1] = task[w].id /\ p[2] = task[w].by)
    BY <1>4, <2>1
  <2> QED BY <2>1, <2>2 DEF LostNames
<1> QED BY <1>5, <1>6

(* A finite set has one element more at most when one is added.            *)
LEMMA OneMore ==
  ASSUME NEW S, NEW T, NEW x, IsFiniteSet(S), T \subseteq S \cup {x}
  PROVE  /\ IsFiniteSet(T) /\ Cardinality(T) \in Nat /\ Cardinality(S) \in Nat
         /\ Cardinality(T) <= Cardinality(S) + 1
<1>1. /\ IsFiniteSet(S \cup {x}) /\ Cardinality(S) \in Nat
      /\ Cardinality(S \cup {x}) \in {Cardinality(S), Cardinality(S) + 1}
  BY FS_AddElement, FS_CardinalityType
<1>2. /\ IsFiniteSet(T) /\ Cardinality(T) \in Nat
      /\ Cardinality(T) <= Cardinality(S \cup {x})
  BY <1>1, FS_Subset, FS_CardinalityType
<1> QED BY <1>1, <1>2

(* Every step keeps the account of what the log misses.                    *)
LEMMA AuditInvNext ==
  ASSUME Typed, EngineInv, AuditInv, [Next]_vars
  PROVE  AuditInv'
<1>0. TaskTyped /\ LeftTyped
  BY DEF Typed, TypeOK, LeftTyped
<1>1. MaxCalls["abort"] \in Nat /\ left["abort"] \in Nat
  BY <1>0, ConstantTypes DEF LeftTyped, Bounded
<1>2. \A w \in Worker : At(w, "submit_mark")' /\ ~NeedsLog(task'[w].seen) => Sent(task[w].id)'
  BY SilentSubmits DEF At
<1>3. CASE \E w \in Worker : Abort(w)
  <2>1. PICK w \in Worker : Abort(w)
    BY <1>3
  <2>2. Aborts' = Aborts + 1
    <3>1. left'["abort"] = left["abort"] - 1
      BY <1>0, <2>1 DEF Abort, Spend, LeftTyped, Bounded
    <3> QED BY <1>1, <3>1 DEF Aborts
  <2>3. Aborts \in Int
    BY <1>1 DEF Aborts
  <2>4. PICK p : LostStatuses' \subseteq LostStatuses \cup {p}
    BY <2>1, AbortLosesOne
  <2>5. PICK q : LostNames' \subseteq LostNames \cup {q}
    BY <2>1, AbortLosesOne
  <2>6. ASSUME NEW S, NEW T, NEW x, IsFiniteSet(S), T \subseteq S \cup {x},
               Cardinality(S) <= Aborts
        PROVE  IsFiniteSet(T) /\ Cardinality(T) <= Aborts'
    <3>1. /\ IsFiniteSet(T) /\ Cardinality(T) <= Cardinality(S) + 1
          /\ Cardinality(S) \in Nat /\ Cardinality(T) \in Nat
      BY <2>6, OneMore
    <3> QED BY <2>2, <2>3, <2>6, <3>1
  <2>7. IsFiniteSet(LostStatuses') /\ Cardinality(LostStatuses') <= Aborts'
    BY <2>4, <2>6 DEF AuditInv
  <2>8. IsFiniteSet(LostNames') /\ Cardinality(LostNames') <= Aborts'
    BY <2>5, <2>6 DEF AuditInv
  <2> QED BY <1>2, <2>7, <2>8 DEF AuditInv, At
<1>4. CASE \/ \E w \in Worker : Start(w) \/ Step(w)
           \/ \E q \in Refund : LateArrival(q)
           \/ UNCHANGED vars
  <2>1. left'["abort"] = left["abort"]
    <3>1. ASSUME NEW w \in Worker, Start(w) \/ Step(w) PROVE left'["abort"] = left["abort"]
      BY <1>0, <3>1, SpendsNoAbort
    <3>2. CASE (\E q \in Refund : LateArrival(q)) \/ UNCHANGED vars
      BY <3>2 DEF LateArrival, vars
    <3> QED BY <1>4, <3>1, <3>2
  <2>2. Aborts' = Aborts /\ Aborts \in Int
    BY <1>1, <2>1 DEF Aborts
  <2>3. LostStatuses' \subseteq LostStatuses /\ LostNames' \subseteq LostNames
    BY <1>4, NothingMoreIsLost
  <2>4. ASSUME NEW S, NEW T, IsFiniteSet(S), T \subseteq S, Cardinality(S) <= Aborts
        PROVE  IsFiniteSet(T) /\ Cardinality(T) <= Aborts'
    <3>1. /\ IsFiniteSet(T) /\ Cardinality(T) <= Cardinality(S)
          /\ Cardinality(S) \in Nat /\ Cardinality(T) \in Nat
      BY <2>4, FS_Subset, FS_CardinalityType
    <3> QED BY <2>2, <2>4, <3>1
  <2>5. IsFiniteSet(LostStatuses') /\ Cardinality(LostStatuses') <= Aborts'
    BY <2>3, <2>4 DEF AuditInv
  <2>6. IsFiniteSet(LostNames') /\ Cardinality(LostNames') <= Aborts'
    BY <2>3, <2>4 DEF AuditInv
  <2> QED BY <1>2, <2>5, <2>6 DEF AuditInv, At
<1> QED BY <1>3, <1>4 DEF Next, Rest

(* What the log misses and nobody will write is no more than one row for   *)
(* each call that was cut off.                                             *)
THEOREM DebtsInvariant == Spec => []AuditInv
<1>1. Init => AuditInv
  <2> SUFFICES ASSUME Init PROVE AuditInv
    OBVIOUS
  <2>1. LostStatuses = {} /\ LostNames = {}
    BY DEF Init, LostStatuses, LostNames, Through, Beyond, Status, Terminal, Absent
  <2>2. IsFiniteSet({}) /\ Cardinality({}) = 0
    BY FS_EmptySet
  <2>3. Aborts = 0
    BY ConstantTypes DEF Init, Aborts, Bounded
  <2> QED BY <2>1, <2>2, <2>3 DEF Init, AuditInv, At, Idle
<1>2. Typed /\ EngineInv /\ AuditInv /\ [Next]_vars => AuditInv'
  BY AuditInvNext
<1> QED BY <1>1, <1>2, AlwaysTyped, EngineInvariant, PTL DEF Spec

(* An engine at rest has logged all that every refund went through, and    *)
(* every approval, but for one row of each call that was cut off.          *)
THEOREM LogIsComplete == Spec => []AuditLossBounded
<1>1. AuditInv => AuditLossBounded
  <2> SUFFICES ASSUME AuditInv, Quiet
               PROVE  Cardinality(Unlogged) <= Aborts /\ Cardinality(Unsigned) <= Aborts
    BY DEF AuditLossBounded
  <2>1. \A r, s : ~\E w \in Worker : Owes(w, r, s) \/ OwesName(w, r, s)
    BY DEF Quiet, Owes, OwesName, At
  <2>2. Unlogged = LostStatuses /\ Unsigned = LostNames
    BY <2>1 DEF Unlogged, Unsigned, LostStatuses, LostNames, StatusKnown, NameKnown
  <2> QED BY <2>2 DEF AuditInv
<1> QED BY <1>1, DebtsInvariant, PTL
-----------------------------------------------------------------------------
(* The log does not say more than happened.                                *)

(* What a new audit row of r says: r has by now been where it says, and    *)
(* the recoveries write theirs last.                                       *)
Due(r, row) ==
  /\ row.to_status \in Through(r)'
  /\ row.actor = "job:recover" => \E w \in Worker : RecoverAdoptLog(w) /\ task[w].id = r
  /\ row.actor = "job:recover-resubmit" => \E w \in Worker : RecoverLog(w) /\ task[w].id = r

LogStays(r) == refund_transitions'[r] = refund_transitions[r]
Writes(r, row) == refund_transitions'[r] = Append(refund_transitions[r], row) /\ Due(r, row)
WritesDue(r) == LogStays(r) \/ \E row \in AuditEntry : Writes(r, row)

(* A statement that writes an audit row writes one, for one refund.        *)
LEMMA RecordWrites ==
  ASSUME Typed, NEW q \in Refund, NEW from \in Status \cup {NULL}, NEW to \in Status,
         NEW by \in Actor \cup SystemActor, RecordTransition(q, from, to, by),
         to \in Through(q)',
         by = "job:recover" => \E w \in Worker : RecoverAdoptLog(w) /\ task[w].id = q,
         by = "job:recover-resubmit" => \E w \in Worker : RecoverLog(w) /\ task[w].id = q,
         NEW r \in Refund
  PROVE  WritesDue(r)
<1>1. refund_transitions'[r] = IF r = q THEN Append(refund_transitions[r], AuditRow(from, to, by))
                               ELSE refund_transitions[r]
  BY DEF RecordTransition, Typed, TypeOK
<1>2. PICK row \in AuditEntry : row = AuditRow(from, to, by)
  BY DEF AuditEntry, AuditRow
<1>3. row.to_status = to /\ row.actor = by
  BY <1>2 DEF AuditRow
<1>4. CASE r = q
  <2>1. Due(r, row)
    BY <1>3, <1>4 DEF Due
  <2> QED BY <1>1, <1>2, <1>4, <2>1 DEF WritesDue, Writes
<1> QED BY <1>1, <1>4 DEF WritesDue, LogStays

(* Every new audit row tells of where its refund is by now.                *)
LEMMA LogMoves ==
  ASSUME Typed, EngineInv, [Next]_vars, NEW r \in Refund
  PROVE  WritesDue(r)
<1>0. /\ Actor \cap {"job:recover", "job:recover-resubmit"} = {}
      /\ Requester \in [Refund -> Actor]
  BY ConstantTypes DEF SystemActor
<1>1. ASSUME NEW w \in Worker, RequestInsert(w) PROVE WritesDue(r)
  <2>1. PICK q \in Refund : q = task[w].id
    BY <1>1 DEF RequestInsert, At, Typed, TaskTyped, LocalsOK, OnRefund
  <2>2. CASE UNCHANGED refund_transitions
    BY <2>2 DEF WritesDue, LogStays
  <2>3. CASE /\ status' = [status EXCEPT ![q] = InitialStatus(q)]
             /\ RecordTransition(q, NULL, InitialStatus(q), Requester[q])
    <3>1. status'[q] = InitialStatus(q)
      BY <2>3 DEF Typed, TypeOK
    <3>2. InitialStatus(q) \in Status /\ InitialStatus(q) \in Through(q)'
      BY <3>1 DEF InitialStatus, Through, Beyond, Status
    <3>3. /\ Requester[q] \in Actor \cup SystemActor
          /\ Requester[q] \notin {"job:recover", "job:recover-resubmit"}
      BY <1>0
    <3> QED BY <2>3, <3>2, <3>3, RecordWrites
  <2> QED BY <1>1, <2>1, <2>2, <2>3 DEF RequestInsert
<1>2. ASSUME NEW w \in Worker, ApproveLog(w) PROVE WritesDue(r)
  <2>1. PICK q \in Refund, a \in Actor : q = task[w].id /\ a = task[w].by
    BY <1>2 DEF ApproveLog, At, Typed, TaskTyped, LocalsOK, OnRefund
  <2>2. Released(q) /\ status' = status
    BY <1>2, <2>1 DEF ApproveLog, At, EngineInv, TaskInv
  <2>3. "requested" \in Through(q)'
    BY <2>2 DEF Released, Through, Beyond, Status
  <2>4. RecordTransition(q, "pending_review", "requested", a)
    BY <1>2, <2>1 DEF ApproveLog
  <2>5. a \in Actor \cup SystemActor /\ a \notin {"job:recover", "job:recover-resubmit"}
    BY <1>0
  <2> QED BY <2>3, <2>4, <2>5, RecordWrites DEF Status
<1>3. ASSUME NEW w \in Worker, SubmitLog(w) \/ RecoverAdoptLog(w) \/ RecoverLog(w)
      PROVE  WritesDue(r)
  <2>1. PICK q \in Refund : q = task[w].id /\ Sent(q)
    BY <1>3 DEF SubmitLog, RecoverAdoptLog, RecoverLog, At, Typed, TaskTyped, LocalsOK, OnRefund,
                EngineInv, TaskInv
  <2>2. status' = status
    BY <1>3 DEF SubmitLog, RecoverAdoptLog, RecoverLog
  <2>3. "submitted" \in Through(q)' /\ "submitted" \in Status
    BY <2>1, <2>2 DEF Sent, Through, Beyond, Terminal, Status
  <2>4. task[w].seen \in Status \cup {NULL}
    BY DEF Typed, TaskTyped, Task
  <2>5. {"job:submit", "job:recover", "job:recover-resubmit"} \subseteq Actor \cup SystemActor
    BY DEF SystemActor
  <2>6. CASE SubmitLog(w)
    BY <2>1, <2>3, <2>4, <2>5, <2>6, RecordWrites DEF SubmitLog
  <2>7. CASE RecoverAdoptLog(w)
    <3>1. RecordTransition(q, task[w].seen, "submitted", "job:recover")
      BY <2>1, <2>7 DEF RecoverAdoptLog
    <3> QED BY <2>1, <2>3, <2>4, <2>5, <2>7, <3>1, RecordWrites
  <2>8. CASE RecoverLog(w)
    <3>1. RecordTransition(q, task[w].seen, "submitted", "job:recover-resubmit")
      BY <2>1, <2>8 DEF RecoverLog
    <3> QED BY <2>1, <2>3, <2>4, <2>5, <2>8, <3>1, RecordWrites
  <2> QED BY <1>3, <2>6, <2>7, <2>8
<1>4. ASSUME NEW w \in Worker, WebhookApply(w) PROVE WritesDue(r)
  <2>1. CASE Spared(r)
    BY <2>1 DEF Spared, WritesDue, LogStays
  <2>2. ASSUME NEW e \in Event, Hit(r, e) PROVE WritesDue(r)
    <3>1. PICK to \in {"settled", "failed"} : to = Verdict(EventKind[e])
      BY DEF Verdict
    <3>2. PICK from \in Status \cup {NULL} :
            refund_transitions'[r] = Append(refund_transitions[r], AuditRow(from, to, "webhook"))
      BY <2>2, <3>1 DEF Hit
    <3>3. PICK row \in AuditEntry : row = AuditRow(from, to, "webhook")
      BY DEF AuditEntry, AuditRow, Status, SystemActor
    <3>4. row.to_status = to /\ row.actor = "webhook" /\ status'[r] = to
      BY <2>2, <3>1, <3>3 DEF AuditRow, Hit
    <3>5. Due(r, row)
      BY <3>4 DEF Due, Through, Beyond, Status
    <3> QED BY <3>2, <3>3, <3>5 DEF WritesDue, Writes
  <2> QED BY <1>4, <2>1, <2>2, ApplyMoves
<1>5. ASSUME NEW w \in Worker,
             \/ Start(w) \/ Abort(w) \/ RequestLock(w) \/ RequestSum(w) \/ ApproveMark(w)
             \/ SubmitMark(w) \/ SubmitCall(w) \/ SubmitRef(w) \/ WebhookSnapshot(w)
             \/ RecoverLookup(w) \/ RecoverAdopt(w) \/ RecoverMark(w) \/ RecoverCall(w)
             \/ RecoverRef(w)
      PROVE  WritesDue(r)
  <2>1. UNCHANGED refund_transitions
    BY <1>5 DEF Start, RequestBegin, SubmitRead, ApproveRead, WebhookClaim, RecoverScan, Abort,
       RequestLock, RequestSum, ApproveMark, SubmitMark, SubmitCall, SubmitRef, WebhookSnapshot,
       RecoverLookup, RecoverAdopt, RecoverMark, RecoverCall, RecoverRef
  <2> QED BY <2>1 DEF WritesDue, LogStays
<1>6. CASE (\E q \in Refund : LateArrival(q)) \/ UNCHANGED vars
  BY <1>6 DEF LateArrival, vars, WritesDue, LogStays
<1> QED BY <1>1, <1>2, <1>3, <1>4, <1>5, <1>6
     DEF Next, Step, Rest, RequestStep, ApproveStep, SubmitStep, WebhookStep, RecoverStep

(* What the rows of a log so far keep, and the new one has, they all have. *)
LEMMA OneRowMore ==
  ASSUME Typed, NEW r \in Refund, NEW row \in AuditEntry, Writes(r, row),
         NEW i \in DOMAIN refund_transitions'[r]
  PROVE  \/ refund_transitions'[r][i] = row
         \/ /\ i \in DOMAIN refund_transitions[r]
            /\ refund_transitions'[r][i] = refund_transitions[r][i]
<1>1. refund_transitions[r] \in Seq(AuditEntry)
  BY DEF Typed, TypeOK
<1> QED BY <1>1 DEF Writes

(* The log never says of a row more than the row has done.                 *)
THEOREM LogFollows == Spec => []LogNeverAhead
<1>1. Init => LogNeverAhead
  BY DEF Init, LogNeverAhead
<1>2. Typed /\ EngineInv /\ LogNeverAhead /\ [Next]_vars => LogNeverAhead'
  <2> SUFFICES ASSUME Typed, EngineInv, LogNeverAhead, [Next]_vars,
                      NEW r \in Refund, NEW i \in DOMAIN refund_transitions'[r]
               PROVE  refund_transitions'[r][i].to_status \in Through(r)'
    BY DEF LogNeverAhead
  <2>1. ASSUME i \in DOMAIN refund_transitions[r],
               refund_transitions'[r][i] = refund_transitions[r][i]
        PROVE  refund_transitions'[r][i].to_status \in Through(r)'
    BY <2>1, ThroughMoves DEF LogNeverAhead
  <2>2. CASE LogStays(r)
    BY <2>1, <2>2 DEF LogStays
  <2>3. ASSUME NEW row \in AuditEntry, Writes(r, row)
        PROVE  refund_transitions'[r][i].to_status \in Through(r)'
    BY <2>1, <2>3, OneRowMore DEF Writes, Due
  <2> QED BY <2>2, <2>3, LogMoves DEF WritesDue
<1> QED BY <1>1, <1>2, AlwaysTyped, EngineInvariant, PTL DEF Spec
-----------------------------------------------------------------------------
(* What the log says was recovered was recovered.                          *)

(* Faults are spent and never earned.                                      *)
LEMMA FaultsSpend ==
  ASSUME LeftTyped, [Next]_vars
  PROVE  left'["fault"] \in Nat /\ left'["fault"] <= left["fault"]
<1>0. left["fault"] \in Nat
  BY DEF LeftTyped, Bounded
<1>1. ASSUME NEW kind \in Bounded, Spend(kind)
      PROVE  left'["fault"] \in Nat /\ left'["fault"] <= left["fault"]
  BY <1>1 DEF Spend, LeftTyped, Bounded
<1>2. ASSUME NEW w \in Worker, Start(w) \/ Abort(w) \/ SubmitCall(w) \/ RecoverCall(w)
      PROVE  UNCHANGED left \/ \E kind \in Bounded : Spend(kind)
  <2>1. CASE Start(w)
    BY <2>1 DEF Start, RequestBegin, SubmitRead, ApproveRead, WebhookClaim, RecoverScan, Bounded
  <2>2. CASE Abort(w)
    BY <2>2 DEF Abort, Bounded
  <2>3. CASE SubmitCall(w) \/ RecoverCall(w)
    BY <2>3 DEF SubmitCall, RecoverCall, CreateRefund, Bounded
  <2> QED BY <1>2, <2>1, <2>2, <2>3
<1>3. CASE UNCHANGED left
  BY <1>0, <1>3
<1> QED BY <1>1, <1>2, <1>3
     DEF Next, Step, Rest, LateArrival, vars, RequestStep, RequestLock, RequestSum, RequestInsert,
         ApproveStep, ApproveMark, ApproveLog, SubmitStep, SubmitMark, SubmitLog, SubmitRef,
         WebhookStep, WebhookSnapshot, WebhookApply, RecoverStep, RecoverLookup, RecoverAdopt,
         RecoverAdoptLog, RecoverMark, RecoverRef, RecoverLog

(* A recovery whose create went unanswered spent a fault.                  *)
LEMMA LostSpends ==
  ASSUME TaskTyped, LeftTyped, NEW w \in Worker, RecoverCall(w), task'[w].pc = "recover_log"
  PROVE  left'["fault"] = left["fault"] - 1
<1> DEFINE t == [task[w] EXCEPT !.pc = "recover_ref", !.ref = gw_store'[task[w].id]]
<1>1. CASE Becomes(w, t)
  <2>1. t.pc = "recover_ref"
    BY DEF TaskTyped, Task
  <2> HIDE DEF t
  <2>2. task'[w] = t
    BY <1>1, TaskChange
  <2> QED BY <2>1, <2>2
<1>2. CASE Spend("fault")
  BY <1>2 DEF Spend, LeftTyped, Bounded
<1> QED BY <1>1, <1>2 DEF RecoverCall, CreateRefund

(* A recovery that comes to its audit row has seen to the reference.       *)
LEMMA RefBeforeLog ==
  ASSUME Typed, EngineInv, NEW w \in Worker, Start(w) \/ Step(w) \/ Abort(w),
         \/ task'[w].pc = "recover_adopt_log"
         \/ task'[w].pc = "recover_log" /\ left'["fault"] # left["fault"] - 1
  PROVE  gateway_ref'[task'[w].id] # NoRef
<1>0. /\ TaskTyped /\ LeftTyped
      /\ gateway_ref \in [Refund -> Ref \cup {NoRef}]
  BY DEF Typed, TypeOK, LeftTyped
<1>1. CASE RecoverAdopt(w)
  <2>1. PICK r \in Refund : r = task[w].id /\ task[w].ref # NoRef
    BY <1>1 DEF RecoverAdopt, At, Typed, TaskTyped, LocalsOK, OnRefund, EngineInv, TaskInv
  <2>2. task'[w].id = r
    BY <1>0, <1>1, <2>1, GotoAt DEF RecoverAdopt
  <2>3. gateway_ref'[r] # NoRef
    BY <1>0, <1>1, <2>1 DEF RecoverAdopt, Adopts
  <2> QED BY <2>2, <2>3
<1>2. CASE RecoverRef(w)
  <2>1. PICK r \in Refund : r = task[w].id /\ task[w].ref # NoRef
    BY <1>2 DEF RecoverRef, At, Typed, TaskTyped, LocalsOK, OnRefund, EngineInv, TaskInv
  <2>2. task'[w].id = r
    BY <1>0, <1>2, <2>1, GotoAt DEF RecoverRef
  <2>3. gateway_ref'[r] # NoRef
    BY <1>0, <1>2, <2>1 DEF RecoverRef, UpdateRef
  <2> QED BY <2>2, <2>3
<1> QED BY <1>0, <1>1, <1>2, Flow, LostSpends DEF LeadsOn

(* Every step keeps what the log may say of recoveries.                    *)
LEMMA RecordInvNext ==
  ASSUME Typed, EngineInv, RecordInv, [Next]_vars
  PROVE  RecordInv'
<1>0. TaskTyped /\ LeftTyped
  BY DEF Typed, TypeOK, LeftTyped
<1>1. /\ left'["fault"] <= MaxCalls["fault"]
      /\ left'["fault"] = MaxCalls["fault"] => left["fault"] = MaxCalls["fault"]
  <2>1. left["fault"] \in Nat /\ MaxCalls["fault"] \in Nat
    BY <1>0, ConstantTypes DEF LeftTyped, Bounded
  <2> QED BY <1>0, <2>1, FaultsSpend DEF RecordInv
<1>2. ASSUME NEW v \in Worker,
             \/ task'[v].pc = "recover_adopt_log"
             \/ task'[v].pc = "recover_log" /\ left'["fault"] = MaxCalls["fault"]
      PROVE  gateway_ref'[task'[v].id] # NoRef
  <2>1. CASE task'[v] = task[v]
    <3>1. PICK r \in Refund : r = task[v].id
      BY <1>2, <2>1 DEF Typed, TaskTyped, LocalsOK, OnRefund
    <3>2. gateway_ref[r] # NoRef
      BY <1>1, <1>2, <2>1, <3>1 DEF RecordInv, At
    <3> QED BY <2>1, <3>1, <3>2, RefsStay
  <2>2. CASE Start(v) \/ Step(v) \/ Abort(v)
    <3>1. left["fault"] \in Nat
      BY <1>0 DEF LeftTyped, Bounded
    <3>2. left'["fault"] = MaxCalls["fault"] => left'["fault"] # left["fault"] - 1
      BY <1>1, <3>1
    <3> QED BY <1>2, <2>2, <3>2, RefBeforeLog
  <2> QED BY <1>0, <2>1, <2>2, Flow DEF Next, LateArrival, Rest, vars
<1>3. ASSUME NEW r \in Refund, NEW i \in DOMAIN refund_transitions'[r],
             \/ refund_transitions'[r][i].actor = "job:recover"
             \/ /\ refund_transitions'[r][i].actor = "job:recover-resubmit"
                /\ left'["fault"] = MaxCalls["fault"]
      PROVE  gateway_ref'[r] # NoRef
  <2>1. ASSUME i \in DOMAIN refund_transitions[r],
               refund_transitions'[r][i] = refund_transitions[r][i]
        PROVE  gateway_ref'[r] # NoRef
    <3>1. gateway_ref[r] # NoRef
      BY <1>1, <1>3, <2>1 DEF RecordInv, RecoveredHasRef
    <3> QED BY <3>1, RefsStay
  <2>2. CASE LogStays(r)
    BY <2>1, <2>2 DEF LogStays
  <2>3. ASSUME NEW row \in AuditEntry, Writes(r, row), refund_transitions'[r][i] = row
        PROVE  gateway_ref'[r] # NoRef
    <3>1. PICK w \in Worker :
            /\ task[w].id = r
            /\ RecoverAdoptLog(w) \/ (RecoverLog(w) /\ left'["fault"] = MaxCalls["fault"])
      BY <1>3, <2>3 DEF Writes, Due
    <3>2. gateway_ref[r] # NoRef
      BY <1>1, <3>1 DEF RecoverAdoptLog, RecoverLog, RecordInv
    <3> QED BY <3>2, RefsStay
  <2> QED BY <2>1, <2>2, <2>3, LogMoves, OneRowMore DEF WritesDue
<1> QED BY <1>1, <1>2, <1>3 DEF RecordInv, RecoveredHasRef, At

(* The account of what recoveries have seen to and spent holds throughout. *)
THEOREM RecordsInvariant == Spec => []RecordInv
<1>1. Init => RecordInv
  BY ConstantTypes DEF Init, RecordInv, RecoveredHasRef, Idle, At, Bounded
<1> QED BY <1>1, RecordInvNext, AlwaysTyped, EngineInvariant, PTL DEF Spec

(* A refund the log calls recovered has its reference.                     *)
THEOREM RecoveredReally == Spec => []RecoveredHasRef
<1>1. RecordInv => RecoveredHasRef
  BY DEF RecordInv
<1> QED BY <1>1, RecordsInvariant, PTL
=============================================================================
