---------------------------- MODULE RefundEngine ----------------------------
(***************************************************************************)
(* The refund engine: any number of calls of request_refund, approve,      *)
(* submit_refund, handle_webhook and recover_submitted at the same time    *)
(* against one database and one gateway, any of which may be cut off       *)
(* between two statements.                                                 *)
(***************************************************************************)
EXTENDS RequestRefund, Approval, Submit, Webhook, Recover

Init ==
  /\ status = [r \in Refund |-> Absent]
  /\ gateway_ref = [r \in Refund |-> NoRef]
  /\ refund_transitions = [r \in Refund |-> <<>>]
  /\ webhook_events = {}
  /\ GwInit
  /\ late = {}
  /\ task = [w \in Worker |-> Idle]
  /\ left = MaxCalls
  /\ approved = [r \in Refund |-> {}]
  /\ applied = {}

(* A SIGKILL, a dropped future, or a statement whose error `?` passes on:  *)
(* the call ends where it is, an open transaction rolls back and lets go   *)
(* of its lock.  A create on its way may still reach the gateway.          *)
Abort(w) ==
  /\ ~At(w, "idle")
  /\ Spend("abort")
  /\ Finish(w)
  /\ late' = IF task[w].pc \in {"submit_call", "recover_call"}
             THEN late \cup {task[w].id} ELSE late
  /\ UNCHANGED <<status, gateway_ref, refund_transitions, webhook_events,
                 gw_store, gw_seq, approved, applied>>

Start(w) ==
  \/ \E r \in Refund : RequestBegin(w, r) \/ SubmitRead(w, r)
  \/ \E r \in Refund, a \in Actor : ApproveRead(w, r, a)
  \/ \E e \in Event : WebhookClaim(w, e)
  \/ RecoverScan(w)

Step(w) ==
  RequestStep(w) \/ ApproveStep(w) \/ SubmitStep(w) \/ WebhookStep(w) \/ RecoverStep(w)

\* No call is in flight; the engine may rest here, and only here.
Quiet == \A w \in Worker : At(w, "idle")
Rest == Quiet /\ UNCHANGED vars

Next ==
  \/ \E w \in Worker : Start(w) \/ Step(w) \/ Abort(w)
  \/ \E r \in Refund : LateArrival(r)
  \/ Rest

Spec == Init /\ [][Next]_vars

(* tokio polls every task that can make progress, Postgres answers every   *)
(* statement; and whoever operates the engine runs recovery again as long  *)
(* as rows are stuck (examples/demo_incident.rs).                      *)
Fairness ==
  /\ \A w \in Worker : WF_vars(Step(w))
  /\ WF_vars(\E w \in Worker : RecoverScan(w))

FairSpec == Spec /\ Fairness
-----------------------------------------------------------------------------
(* Every variable has its type: no row holds a status the CHECK forbids,   *)
(* and no call a local it cannot have.                                     *)
TypeOK ==
  /\ status \in [Refund -> Status \cup {Absent}]
  /\ gateway_ref \in [Refund -> Ref \cup {NoRef}]
  /\ refund_transitions \in [Refund -> Seq(AuditEntry)]
  /\ webhook_events \subseteq Event
  /\ GwTypeOK
  /\ late \subseteq Refund
  /\ task \in [Worker -> Task]
  /\ left \in [Bounded -> Nat]
  /\ approved \in [Refund -> SUBSET Actor]
  /\ applied \subseteq Event

(* The refunds of a charge never add up to more than was captured, however *)
(* many request_refund calls race (request.rs, the FOR UPDATE), and none of *)
(* them is for nothing or for less, which would make room for others.      *)
NoOverRefund ==
  /\ \A r \in Refund : status[r] # Absent => Amount[r] > 0
  /\ \A c \in Charge : RefundedSoFar(c) <= Captured[c]

(* Between reading the sum and inserting the refund, nothing is added to   *)
(* the charge: the assertion still holds when the row goes in.             *)
LockedSumNeverGrows ==
  \A w \in Worker : At(w, "request_insert") =>
    RefundedSoFar(ChargeOf[task[w].id]) <= task[w].sum

(* A settled, failed or canceled refund keeps that status, whatever stale  *)
(* read a submit, an approval, a recovery or a second event acts on        *)
(* (model.rs, Status::is_terminal).                                        *)
TerminalIsForever ==
  [][\A r \in Refund : status[r] \in Terminal => status'[r] = status[r]]_vars

(* A refund at or above the review threshold reaches the gateway only      *)
(* after somebody other than its requester approved it (approval.rs).      *)
ApprovedByAnother ==
  \A r \in Refund :
    /\ Amount[r] >= ReviewThreshold
    /\ Holds(r) \/ r \in late
    => \E a \in approved[r] : a # Requester[r]

(* The gateway never holds, nor is about to get, a refund the database     *)
(* does not show as submitted: after a crash recovery finds every refund   *)
(* that may have moved money (submit.rs, "persisted before").              *)
IntentBeforeMoney ==
  \A r \in Refund : Holds(r) \/ r \in late =>
    status[r] \in {"submitted", "settled", "failed"}

(* The reference on a row is the one the gateway keeps under the row's own *)
(* key, though a submit, its retry and a recovery may all have written it: *)
(* none of them paid a second time.                                        *)
RefIsTheGateways ==
  \A r \in Refund : gateway_ref[r] # NoRef => gateway_ref[r] = gw_store[r]

(* A refund is settled or failed only on the word of a signed event that   *)
(* names the gateway's reference for it (submit.rs, "Settlement is the     *)
(* gateway's word").                                                       *)
VerdictIsTheGateways ==
  \A r \in Refund : status[r] \in {"settled", "failed"} =>
    \E e \in applied :
      /\ Signed[e]
      /\ EventRef[e] = gw_store[r]
      /\ EventKind[e] \in {"refund.settled", "refund.failed"}
      /\ Verdict(EventKind[e]) = status[r]

WebhookRows(r) == {i \in DOMAIN refund_transitions[r] :
                     refund_transitions[r][i].actor = "webhook"}

(* However often an event is delivered it moves a refund once: the audit   *)
(* rows webhooks wrote never outnumber the distinct events that name it.   *)
AppliedOnce ==
  \A r \in Refund :
    Cardinality(WebhookRows(r)) <=
      Cardinality({e \in applied : EventRef[e] = gateway_ref[r]})

(* Row and log agree on the verdict: the audit rows of webhooks carry the  *)
(* refund's terminal status, there is one as soon as it is terminal, and   *)
(* no other verdict was ever logged (webhook.rs, "no window where a refund *)
(* advanced but the log missed it").                                       *)
VerdictAudited ==
  \A r \in Refund :
    {refund_transitions[r][i].to_status : i \in WebhookRows(r)} =
      IF status[r] \in Terminal THEN {status[r]} ELSE {}

\* What a refund that has been through s may be by now.
Beyond(s) == CASE s = "pending_review" -> Status
               [] s = "requested" -> Status \ {"pending_review"}
               [] s = "submitted" -> {"submitted"} \cup Terminal
               [] OTHER -> {s}

\* The statuses a refund has been through.
Through(r) == {s \in Status : /\ status[r] \in Beyond(s)
                              /\ s = "pending_review" => Amount[r] >= ReviewThreshold}

LoggedAs(r, s) == \E i \in DOMAIN refund_transitions[r] : refund_transitions[r][i].to_status = s
SignedBy(r, a) == \E i \in DOMAIN refund_transitions[r] : refund_transitions[r][i].actor = a

\* Statuses refunds have been through, and approvals, the log does not tell of.
Unlogged == {p \in Refund \X Status : p[2] \in Through(p[1]) /\ ~LoggedAs(p[1], p[2])}
Unsigned == {p \in Refund \X Actor : p[2] \in approved[p[1]] /\ ~SignedBy(p[1], p[2])}

\* How many calls were cut off.
Aborts == MaxCalls["abort"] - left["abort"]

(* The audit row is a statement of its own, so a crash may lose it for     *)
(* good; but a crash loses the one row its call was about to write, and    *)
(* nothing else does.  At rest the log lacks no more statuses and no more  *)
(* approvers than calls were cut off: none, if none was                    *)
(* (tests/integration.rs, "reconstructs the state machine").               *)
AuditLossBounded ==
  Quiet => Cardinality(Unlogged) <= Aborts /\ Cardinality(Unsigned) <= Aborts

(* Refunds of a charge that the gateway has paid, or may yet pay because a *)
(* create is still under way, and has not called off by a failed event.    *)
MoneyOut(c) ==
  {r \in Refund :
     /\ ChargeOf[r] = c
     /\ Holds(r) \/ r \in late
     /\ ~\E e \in applied : /\ Signed[e]
                            /\ EventKind[e] = "refund.failed"
                            /\ EventRef[e] = gw_store[r]}

(* The same limit on the gateway's side, where the money is: whatever the  *)
(* rows say after crashes, retries and late creates, what the gateway pays *)
(* of a charge is no more than was captured (README.md, "over-refund").    *)
NeverPaysBeyondCapture == \A c \in Charge : Sum(MoneyOut(c)) <= Captured[c]

(* The log never runs ahead of the rows: a step it tells of was taken and  *)
(* not taken back, also if the approval lost its race or the recovery read *)
(* the row long ago (submit.rs and recover.rs write it after the UPDATE).  *)
LogNeverAhead ==
  \A r \in Refund : \A i \in DOMAIN refund_transitions[r] :
    refund_transitions[r][i].to_status \in Through(r)

(* A refund the log says was recovered has its reference, and so has one   *)
(* it says was resubmitted, unless a gateway answer got lost (recover.rs,  *)
(* "We recorded the gateway_ref").                                         *)
RecoveredHasRef ==
  \A r \in Refund : \A i \in DOMAIN refund_transitions[r] :
    \/ refund_transitions[r][i].actor = "job:recover"
    \/ /\ refund_transitions[r][i].actor = "job:recover-resubmit"
       /\ left["fault"] = MaxCalls["fault"]
    => gateway_ref[r] # NoRef

(* The engine implements the abstract lifecycle, in which every payment of *)
(* the gateway is for a refund that was accepted, is open and was not paid *)
(* before, however often it is submitted, recovered and resubmitted.       *)
StageOf(s) == CASE s = Absent -> "none"
                [] s = "pending_review" -> "held"
                [] s \in {"requested", "submitted"} -> "open"
                [] OTHER -> s

Lifecycle == INSTANCE RefundLifecycle WITH
  state <- [r \in Refund |-> StageOf(status[r])],
  paid <- {r \in Refund : Holds(r)},
  payments <- gw_seq,
  approvers <- approved

RefinesLifecycle == Lifecycle!LifecycleSpec

(* Recovery converges: a row that is stuck without a reference gets one,   *)
(* if recovery is still to run more often than it is cut off or goes       *)
(* unanswered (recover.rs, "converge, don't guess").                       *)
Stranded(r) == /\ status[r] \in {"requested", "submitted"}
               /\ gateway_ref[r] = NoRef
               /\ left["recover"] > left["abort"] + left["fault"]

RecoveryConverges ==
  \A r \in Refund : Stranded(r) ~> gateway_ref[r] # NoRef
=============================================================================
