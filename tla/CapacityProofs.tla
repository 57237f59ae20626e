--------------------------- MODULE CapacityProofs ---------------------------
(***************************************************************************)
(* No charge is refunded beyond what was captured.  The argument is the    *)
(* lock's: between RequestSum and RequestInsert no other transaction can   *)
(* insert a row of the same charge, and every other step only takes rows   *)
(* out of the sum.  With what AuditProofs says of failed refunds the limit *)
(* holds of the gateway's books too, and the engine implements the         *)
(* abstract lifecycle, whose Accept asks for the room a request checked    *)
(* under the lock.                                                         *)
(***************************************************************************)
EXTENDS AuditProofs
-----------------------------------------------------------------------------
(* How one step changes what is counted against a charge.                  *)

(* A row of c joins the sum: it is the one w inserts.                      *)
Adds(w, r, c) ==
  /\ InsertOf(w, r)
  /\ ChargeOf[r] = c
  /\ RefundedSoFar(c)' <= RefundedSoFar(c) + Amount[r]

(* Moving rows that exist never makes the sum larger.                      *)
LEMMA MovesShrink ==
  ASSUME NEW c \in Charge,
         \A r \in Refund : Move(r) \/ (ChargeOf[r] # c)
  PROVE  RefundedSoFar(c)' <= RefundedSoFar(c)
<1>1. Counted(c)' \subseteq Counted(c)
  BY DEF Counted, Move, Absent
<1>2. Counted(c) \in SUBSET Refund
  BY DEF Counted
<1> QED BY <1>1, <1>2, SumMonotone DEF RefundedSoFar

(* A step either leaves the sum of a charge where it is, or below, or it   *)
(* inserts one row of that charge and adds that row's amount at most.      *)
LEMMA SumMoves ==
  ASSUME Typed, EngineInv, [Next]_vars, NEW c \in Charge
  PROVE  \/ RefundedSoFar(c)' <= RefundedSoFar(c)
         \/ \E w \in Worker, r \in Refund : Adds(w, r, c)
<1>1. CASE \A r \in Refund : Move(r) \/ ChargeOf[r] # c
  BY <1>1, MovesShrink
<1>2. CASE \E r \in Refund : ~Move(r) /\ ChargeOf[r] = c
  <2>1. PICK r \in Refund : ~Move(r) /\ ChargeOf[r] = c
    BY <1>2
  <2>2. PICK w \in Worker : InsertOf(w, r)
    BY <2>1, StatusMoves
  <2>3. \A q \in Refund \ {r} : status'[q] = status[q]
    BY <2>2 DEF InsertOf, RequestInsert, Typed, TypeOK
  <2>4. Counted(c)' \subseteq Counted(c) \cup {r}
    BY <2>3 DEF Counted
  <2>5. Counted(c) \in SUBSET Refund /\ Counted(c) \cup {r} \in SUBSET Refund
    BY DEF Counted
  <2>6. Amount[r] > 0 /\ Amount[r] \in Int
    BY <2>2, AmountType DEF InsertOf
  <2>7. Sum(Counted(c) \cup {r}) <= Sum(Counted(c)) + Amount[r]
    BY <2>5, <2>6, SumAddOne
  <2>8. Sum(Counted(c)') <= Sum(Counted(c) \cup {r})
    BY <2>4, <2>5, SumMonotone
  <2>9. /\ Sum(Counted(c)') \in Nat /\ Sum(Counted(c)) \in Nat
        /\ Sum(Counted(c) \cup {r}) \in Nat
    BY <2>4, <2>5, SumNat
  <2>10. RefundedSoFar(c)' <= RefundedSoFar(c) + Amount[r]
    BY <2>6, <2>7, <2>8, <2>9 DEF RefundedSoFar
  <2> QED BY <2>1, <2>2, <2>10 DEF Adds
<1> QED BY <1>1, <1>2
-----------------------------------------------------------------------------
(* Only RequestSum takes a call to its insert.                             *)
LEMMA OnlySumLeadsToInsert ==
  ASSUME Typed, [Next]_vars, NEW v \in Worker, task'[v].pc = "request_insert"
  PROVE  task'[v] = task[v] \/ RequestSum(v)
<1>1. ASSUME NEW w \in Worker, Start(w) \/ Step(w) \/ Abort(w)
      PROVE  task'[v] = task[v] \/ RequestSum(v)
  BY <1>1, Flow DEF Typed, LeadsOn
<1>2. CASE (\E r \in Refund : LateArrival(r)) \/ UNCHANGED vars
  BY <1>2 DEF LateArrival, vars
<1> QED BY <1>1, <1>2 DEF Next, Rest
-----------------------------------------------------------------------------
(* The invariant: every charge has room for what is counted against it,    *)
(* and for the row each call is about to insert.                           *)

(* With no rows there is room for everything.                              *)
LEMMA CapacityInit == Init => CapacityInv
<1> SUFFICES ASSUME Init PROVE CapacityInv
  OBVIOUS
<1>1. ASSUME NEW c \in Charge PROVE RefundedSoFar(c) <= Captured[c]
  <2>1. Counted(c) = {}
    BY DEF Init, Counted
  <2>2. Cents({}) = {}
    BY DEF Cents
  <2>3. Cardinality({}) = 0
    BY FS_EmptySet
  <2>4. RefundedSoFar(c) = 0
    BY <2>1, <2>2, <2>3 DEF RefundedSoFar, Sum
  <2>5. Captured[c] \in Nat
    BY ConstantTypes
  <2> QED BY <2>4, <2>5
<1>2. \A w \in Worker : Reserved(w)
  BY DEF Init, Idle, Reserved, At
<1>3. \A r \in Refund : status[r] = Absent
  BY DEF Init
<1> QED BY <1>1, <1>2, <1>3 DEF CapacityInv, NoOverRefund

(* What is refunded of a charge is a number of cents.                      *)
LEMMA RefundedNat ==
  ASSUME NEW c \in Charge
  PROVE  RefundedSoFar(c) \in Nat /\ RefundedSoFar(c)' \in Nat
<1>1. Counted(c) \in SUBSET Refund /\ Counted(c)' \in SUBSET Refund
  BY DEF Counted
<1> QED BY <1>1, SumNat DEF RefundedSoFar

(* Whoever inserts a row of a charge had room reserved for it.             *)
LEMMA RoomStays ==
  ASSUME Typed, EngineInv, CapacityInv, [Next]_vars, NEW c \in Charge
  PROVE  RefundedSoFar(c)' <= Captured[c]
<1>1. RefundedSoFar(c) <= Captured[c] /\ Captured[c] \in Nat
  BY ConstantTypes DEF CapacityInv, NoOverRefund
<1>2. RefundedSoFar(c) \in Nat /\ RefundedSoFar(c)' \in Nat
  BY RefundedNat
<1>3. CASE RefundedSoFar(c)' <= RefundedSoFar(c)
  BY <1>1, <1>2, <1>3
<1>4. CASE \E w \in Worker, r \in Refund : Adds(w, r, c)
  <2>1. PICK w \in Worker, r \in Refund : Adds(w, r, c)
    BY <1>4
  <2>2. /\ task[w].pc = "request_insert" /\ task[w].id = r /\ ChargeOf[r] = c
        /\ RefundedSoFar(c)' <= RefundedSoFar(c) + Amount[r]
    BY <2>1 DEF Adds, InsertOf, RequestInsert, At
  <2>3. /\ RefundedSoFar(c) <= task[w].sum
        /\ Amount[r] <= Captured[c] - task[w].sum
    BY <2>2 DEF CapacityInv, Reserved, At
  <2>4. task[w].sum \in Nat /\ Amount[r] \in Int
    BY AmountType DEF Typed, TaskTyped, Task
  <2> QED BY <1>1, <1>2, <2>2, <2>3, <2>4
<1> QED BY <1>3, <1>4, SumMoves

(* A call about to insert keeps its reservation: it read the sum in this   *)
(* very step, or holds the lock nobody else can add to the charge without. *)
LEMMA ReservationStays ==
  ASSUME Typed, EngineInv, CapacityInv, [Next]_vars, NEW v \in Worker
  PROVE  Reserved(v)'
<1> SUFFICES ASSUME task'[v].pc = "request_insert" PROVE Reserved(v)'
  BY DEF Reserved, At
<1>0. TaskTyped
  BY DEF Typed
<1>1. CASE task'[v] = task[v]
  <2>1. /\ task[v].pc = "request_insert" /\ task[v].id \in Refund
        /\ task[v].sum \in Nat
    BY <1>0, <1>1 DEF TaskTyped, Task, LocalsOK, OnRefund
  <2>2. PICK c \in Charge : c = ChargeOf[task[v].id]
    BY <2>1, ConstantTypes
  <2>3. /\ RefundedSoFar(c) <= task[v].sum
        /\ Amount[task[v].id] <= Captured[c] - task[v].sum
        /\ CurrencyOf[task[v].id] = ChargeCurrency[c]
    BY <2>1, <2>2 DEF CapacityInv, Reserved, At
  <2>4. ~\E w \in Worker, r \in Refund : Adds(w, r, c)
    <3> SUFFICES ASSUME NEW w \in Worker, NEW r \in Refund, Adds(w, r, c) PROVE FALSE
      OBVIOUS
    <3>1. task[w].pc = "request_insert" /\ task[w].id = r /\ ChargeOf[r] = c /\ Finish(w)
      BY DEF Adds, InsertOf, RequestInsert, At
    <3>2. w # v
      BY <1>0, <3>1, TaskChange DEF Finish, Idle
    <3> QED BY <2>1, <2>2, <3>1, <3>2 DEF EngineInv, Exclusive, HasLock
  <2>5. RefundedSoFar(c)' <= RefundedSoFar(c)
    BY <2>4, SumMoves
  <2>6. RefundedSoFar(c)' <= task[v].sum
    BY <2>1, <2>3, <2>5, RefundedNat
  <2>7. task'[v].id = task[v].id /\ task'[v].sum = task[v].sum /\ ChargeOf[task'[v].id] = c
    BY <1>1, <2>2
  <2> QED BY <2>3, <2>6, <2>7 DEF Reserved
<1>2. CASE RequestSum(v)
  <2>1. task[v].pc = "request_sum" /\ task[v].id \in Refund /\ status' = status
    BY <1>0, <1>2 DEF RequestSum, At, TaskTyped, LocalsOK, OnRefund
  <2>2. PICK c \in Charge : c = ChargeOf[task[v].id]
    BY <2>1, ConstantTypes
  <2> DEFINE sum == RefundedSoFar(ChargeOf[task[v].id])
             t == [task[v] EXCEPT !.pc = "request_insert", !.sum = sum]
  <2>3. Accepts(task[v].id, sum) /\ Becomes(v, t)
    <3>1. ~Finish(v)
      BY <1>0, TaskChange DEF Finish, Idle
    <3> QED BY <1>2, <3>1 DEF RequestSum
  <2>4. task'[v] = t
    BY <1>0, <2>3, TaskChange
  <2>5. t.id = task[v].id /\ t.sum = RefundedSoFar(c)
    BY <1>0, <2>2 DEF TaskTyped, Task
  <2>6. RefundedSoFar(c)' = RefundedSoFar(c)
    BY <2>1 DEF RefundedSoFar, Counted
  <2>7. /\ Amount[task[v].id] <= Captured[c] - RefundedSoFar(c)
        /\ CurrencyOf[task[v].id] = ChargeCurrency[c]
    BY <2>2, <2>3 DEF Accepts
  <2> HIDE DEF t
  <2>8. /\ ChargeOf[task'[v].id] = c /\ task'[v].id = task[v].id
        /\ task'[v].sum = RefundedSoFar(c)
    BY <2>2, <2>4, <2>5
  <2> QED BY <2>6, <2>7, <2>8, RefundedNat DEF Reserved
<1> QED BY <1>1, <1>2, OnlySumLeadsToInsert

(* Every charge always has the room it was found to have.                  *)
THEOREM Capacity == Spec => []CapacityInv
<1>1. Typed /\ EngineInv /\ EngineInv' /\ CapacityInv /\ [Next]_vars => CapacityInv'
  <2> SUFFICES ASSUME Typed, EngineInv, EngineInv', CapacityInv, [Next]_vars PROVE CapacityInv'
    OBVIOUS
  <2>1. NoOverRefund'
    <3>1. \A r \in Refund : status'[r] # Absent => Amount[r] > 0
      BY DEF EngineInv, RowInv
    <3> QED BY <3>1, RoomStays DEF NoOverRefund
  <2>2. \A w \in Worker : Reserved(w)'
    BY ReservationStays
  <2> QED BY <2>1, <2>2 DEF CapacityInv
<1> QED BY <1>1, CapacityInit, AlwaysTyped, EngineInvariant, PTL DEF Spec

(* No set of racing request_refund calls refunds more than the charge, or  *)
(* stores a refund of nothing.                                             *)
THEOREM NeverOverRefunded == Spec => []NoOverRefund
<1>1. CapacityInv => NoOverRefund
  BY DEF CapacityInv
<1> QED BY <1>1, Capacity, PTL

(* Every refund the gateway pays and has not called off is counted.        *)
LEMMA MoneyOutCounted ==
  ASSUME EngineInv, VerdictIsTheGateways, NEW c \in Charge
  PROVE  MoneyOut(c) \subseteq Counted(c)
<1> SUFFICES ASSUME NEW r \in MoneyOut(c)
             PROVE  r \in Counted(c)
  OBVIOUS
<1>1. r \in Refund /\ ChargeOf[r] = c /\ Sent(r)
  BY DEF MoneyOut, EngineInv, RowInv
<1>2. status[r] # "failed"
  <2> SUFFICES ASSUME status[r] = "failed" PROVE FALSE
    OBVIOUS
  <2>1. PICK e \in applied :
          /\ Signed[e] /\ EventRef[e] = gw_store[r]
          /\ EventKind[e] \in {"refund.settled", "refund.failed"}
          /\ Verdict(EventKind[e]) = "failed"
    BY <1>1 DEF VerdictIsTheGateways
  <2>2. EventKind[e] = "refund.failed"
    BY <2>1 DEF Verdict
  <2> QED BY <2>1, <2>2 DEF MoneyOut
<1> QED BY <1>1, <1>2 DEF Sent, Counted, Absent

(* The gateway pays no more of a charge than was captured.                 *)
THEOREM GatewayStaysWithin == Spec => []NeverPaysBeyondCapture
<1>1. EngineInv /\ VerdictIsTheGateways /\ NoOverRefund => NeverPaysBeyondCapture
  <2> SUFFICES ASSUME EngineInv, VerdictIsTheGateways, NoOverRefund, NEW c \in Charge
               PROVE  Sum(MoneyOut(c)) <= Captured[c]
    BY DEF NeverPaysBeyondCapture
  <2>1. MoneyOut(c) \in SUBSET Refund /\ Counted(c) \in SUBSET Refund
    BY DEF MoneyOut, Counted
  <2>2. Sum(MoneyOut(c)) <= Sum(Counted(c))
    BY <2>1, MoneyOutCounted, SumMonotone
  <2>3. Sum(MoneyOut(c)) \in Nat /\ Sum(Counted(c)) \in Nat
    BY <2>1, SumNat
  <2>4. Sum(Counted(c)) <= Captured[c] /\ Captured[c] \in Nat
    BY ConstantTypes DEF NoOverRefund, RefundedSoFar
  <2> QED BY <2>2, <2>3, <2>4
<1> QED BY <1>1, EngineInvariant, GatewaysWord, NeverOverRefunded, PTL

(* The sum a transaction checked is still an upper bound when its row goes *)
(* in.                                                                     *)
THEOREM LockHolds == Spec => []LockedSumNeverGrows
<1>1. CapacityInv => LockedSumNeverGrows
  BY DEF CapacityInv, Reserved, LockedSumNeverGrows
<1> QED BY <1>1, Capacity, PTL
-----------------------------------------------------------------------------
(* The engine implements RefundLifecycle: every statement is one of its    *)
(* decisions, or none.                                                     *)

(* A step that moves no row to another stage, pays nothing and releases    *)
(* nothing is none.                                                        *)
LEMMA Stutters ==
  ASSUME \A r \in Refund : StageOf(status'[r]) = StageOf(status[r]),
         UNCHANGED <<gw_store, gw_seq, approved>>
  PROVE  UNCHANGED Lifecycle!lifecycleVars
BY DEF Lifecycle!lifecycleVars, Holds

(* The lifecycle counts against a charge what the engine does.             *)
LEMMA CommittedIsCounted ==
  ASSUME Typed, EngineInv, NEW c \in Charge
  PROVE  Lifecycle!Sum(Lifecycle!Committed(c)) = RefundedSoFar(c)
<1>1. \A r \in Refund : status[r] \in (Status \cup {Absent}) \ {"canceled"}
  BY DEF Typed, TypeOK, EngineInv, RowInv
<1>2. Lifecycle!Committed(c) = Counted(c)
  BY <1>1 DEF Lifecycle!Committed, Counted, StageOf, Status, Absent
<1>3. \A S : Lifecycle!Sum(S) = Sum(S)
  BY Zenon DEF Lifecycle!Sum, Lifecycle!Cents, Sum, Cents, Cardinality, Lifecycle!Cardinality
<1> QED BY <1>2, <1>3 DEF RefundedSoFar

(* Inserting a row accepts it: its charge has the room it was found to     *)
(* have.                                                                   *)
LEMMA InsertAccepts ==
  ASSUME Typed, EngineInv, CapacityInv, NEW w \in Worker, RequestInsert(w)
  PROVE  \/ UNCHANGED Lifecycle!lifecycleVars
         \/ \E r \in Refund : Lifecycle!Accept(r)
<1>1. PICK r \in Refund : r = task[w].id
  BY DEF RequestInsert, At, Typed, TaskTyped, LocalsOK, OnRefund
<1>2. status[r] = Absent /\ UNCHANGED <<gw_store, gw_seq, approved>>
  BY <1>1 DEF RequestInsert, At, EngineInv, TaskInv, requestVars, gatewayVars
<1>3. CASE UNCHANGED status
  BY <1>2, <1>3, Stutters
<1>4. CASE Amount[r] > 0 /\ status' = [status EXCEPT ![r] = InitialStatus(r)]
  <2>1. PICK c \in Charge : c = ChargeOf[r]
    BY ConstantTypes
  <2>2. /\ RefundedSoFar(c) <= task[w].sum
        /\ Amount[r] <= Captured[c] - task[w].sum
        /\ CurrencyOf[r] = ChargeCurrency[c]
    BY <1>1, <2>1 DEF CapacityInv, Reserved, At, RequestInsert
  <2>3. task[w].sum \in Nat /\ Amount[r] \in Int /\ Captured[c] \in Nat
    BY AmountType, ConstantTypes DEF Typed, TaskTyped, Task
  <2>4. Amount[r] <= Captured[c] - RefundedSoFar(c)
    BY <2>2, <2>3, RefundedNat
  <2>5. Amount[r] <= Captured[c] - Lifecycle!Sum(Lifecycle!Committed(c))
    BY <2>4, CommittedIsCounted
  <2> DEFINE stages == [q \in Refund |-> StageOf(status[q])]
             after == [q \in Refund |-> StageOf(status'[q])]
  <2>6. after = [stages EXCEPT ![r] = IF Lifecycle!Large(r) THEN "held" ELSE "open"]
    <3>1. status'[r] = InitialStatus(r) /\ \A q \in Refund \ {r} : status'[q] = status[q]
      BY <1>4 DEF Typed, TypeOK
    <3>2. StageOf(InitialStatus(r)) = IF Lifecycle!Large(r) THEN "held" ELSE "open"
      BY DEF InitialStatus, StageOf, Lifecycle!Large, Absent
    <3> QED BY <3>1, <3>2
  <2>7. stages[r] = "none"
    BY <1>2 DEF StageOf, Absent
  <2> QED BY <1>2, <1>4, <2>1, <2>2, <2>5, <2>6, <2>7 DEF Lifecycle!Accept, Holds
<1> QED BY <1>1, <1>3, <1>4 DEF RequestInsert

(* Approving releases the row, if it is still held.                        *)
LEMMA MarkReleases ==
  ASSUME Typed, EngineInv, NEW w \in Worker, ApproveMark(w)
  PROVE  \/ UNCHANGED Lifecycle!lifecycleVars
         \/ \E r \in Refund, a \in Actor : Lifecycle!Release(r, a)
<1>1. PICK r \in Refund, a \in Actor : r = task[w].id /\ a = task[w].by /\ a # Requester[r]
  BY DEF ApproveMark, At, Typed, TaskTyped, LocalsOK, OnRefund, EngineInv, TaskInv
<1>2. UNCHANGED <<gw_store, gw_seq>>
  BY DEF ApproveMark, approveVars, gatewayVars
<1>3. CASE UNCHANGED <<status, approved>>
  BY <1>2, <1>3, Stutters
<1>4. CASE /\ status[r] = "pending_review"
           /\ status' = [status EXCEPT ![r] = "requested"]
           /\ approved' = [approved EXCEPT ![r] = @ \cup {a}]
  <2> DEFINE stages == [q \in Refund |-> StageOf(status[q])]
             after == [q \in Refund |-> StageOf(status'[q])]
  <2>1. stages[r] = "held" /\ after = [stages EXCEPT ![r] = "open"]
    BY <1>4 DEF StageOf, Absent, Typed, TypeOK
  <2> QED BY <1>1, <1>2, <1>4, <2>1 DEF Lifecycle!Release, Holds
<1> QED BY <1>1, <1>3, <1>4 DEF ApproveMark, UpdateStatus, Approvable

(* The gateway pays an open row it has not paid, or nothing.               *)
LEMMA IssuePays ==
  ASSUME Typed, EngineInv, NEW r \in Refund, Issue(r), Sent(r), UNCHANGED <<status, approved>>
  PROVE  UNCHANGED Lifecycle!lifecycleVars \/ Lifecycle!Pay(r)
<1>1. CASE Holds(r)
  BY <1>1, Stutters DEF Issue
<1>2. CASE ~Holds(r)
  <2>1. status[r] = "submitted"
    BY <1>2 DEF EngineInv, RowInv, Sent, Holds
  <2>2. gw_store'[r] # NoRef /\ \A q \in Refund \ {r} : gw_store'[q] = gw_store[q]
    BY <1>2 DEF Issue, Typed, TypeOK, GwTypeOK, NoRef
  <2>3. {q \in Refund : Holds(q)}' = {q \in Refund : Holds(q)} \cup {r}
    BY <2>2 DEF Holds
  <2>4. [q \in Refund |-> StageOf(status[q])][r] = "open"
    BY <2>1 DEF StageOf, Absent
  <2>5. gw_seq' = gw_seq + 1 /\ r \notin {q \in Refund : Holds(q)}
    BY <1>2 DEF Issue
  <2> QED BY <2>3, <2>4, <2>5 DEF Lifecycle!Pay
<1> QED BY <1>1, <1>2

(* A row an event names is one the gateway has issued, no other row has    *)
(* its reference, and it is past its marking.                              *)
LEMMA NamedRow ==
  ASSUME Typed, EngineInv, GwBooks, NEW e \in Event, NEW r \in Refund, gateway_ref[r] = EventRef[e]
  PROVE  /\ Sent(r) /\ gw_store[r] = EventRef[e] /\ Holds(r)
         /\ \A q \in Refund : gateway_ref[q] = EventRef[e] => q = r
<1>1. EventRef[e] # NoRef
  BY ConstantTypes DEF NoRef
<1>2. \A q \in Refund : gateway_ref[q] = EventRef[e] => Sent(q) /\ gw_store[q] = EventRef[e] /\ Holds(q)
  BY <1>1 DEF EngineInv, RowInv, Holds
<1> QED BY <1>2 DEF GwBooks

(* An event concludes the one row it names, or nothing.                    *)
LEMMA ApplyConcludes ==
  ASSUME Typed, EngineInv, GwBooks, NEW w \in Worker, WebhookApply(w)
  PROVE  \/ UNCHANGED Lifecycle!lifecycleVars
         \/ \E r \in Refund, verdict \in {"settled", "failed"} : Lifecycle!Conclude(r, verdict)
<1>1. PICK e \in Event : e = task[w].ev
  BY DEF WebhookApply, At, Typed, TaskTyped, LocalsOK
<1> DEFINE to == Verdict(EventKind[e])
<1>2. UNCHANGED <<gw_store, gw_seq, approved>> /\ to \in {"settled", "failed"}
  BY DEF WebhookApply, webhookVars, gatewayVars, Verdict
<1>3. \A q \in Refund : \/ status'[q] = status[q]
                        \/ Matches(q, e) /\ status'[q] = to
  BY <1>1 DEF WebhookApply
<1>4. CASE \A q \in Refund : status'[q] = status[q]
  BY <1>2, <1>4, Stutters
<1>5. CASE \E q \in Refund : status'[q] # status[q]
  <2>1. PICK r \in Refund : status'[r] # status[r]
    BY <1>5
  <2>2. Matches(r, e) /\ status'[r] = to
    BY <1>3, <2>1
  <2>3. /\ Sent(r) /\ Holds(r)
        /\ \A q \in Refund \ {r} : status'[q] = status[q]
    BY <1>3, <2>2, NamedRow DEF Matches
  <2>4. status[r] = "submitted"
    BY <2>1, <2>2, <2>3 DEF Matches, Movable, Sent, Verdict
  <2> DEFINE stages == [q \in Refund |-> StageOf(status[q])]
             after == [q \in Refund |-> StageOf(status'[q])]
  <2>5. stages[r] = "open" /\ after = [stages EXCEPT ![r] = to]
    <3> HIDE DEF to
    <3> QED BY <1>2, <2>2, <2>3, <2>4 DEF StageOf, Absent
  <2> QED BY <1>2, <2>3, <2>5 DEF Lifecycle!Conclude, Holds
<1> QED BY <1>4, <1>5

(* Submit and recovery only move rows that are open, and leave them so.    *)
LEMMA MarksStayOpen ==
  ASSUME Typed, EngineInv, NEW w \in Worker, SubmitStep(w) \/ RecoverStep(w)
  PROVE  /\ UNCHANGED approved
         /\ \A r \in Refund : StageOf(status'[r]) = StageOf(status[r])
<1>1. UNCHANGED approved
  BY DEF SubmitStep, SubmitMark, SubmitLog, SubmitCall, SubmitRef, RecoverStep, RecoverLookup,
         RecoverAdopt, RecoverAdoptLog, RecoverMark, RecoverCall, RecoverRef, RecoverLog,
         submitVars, recoverVars
<1>2. ASSUME NEW r \in Refund
      PROVE  \/ status'[r] = status[r]
             \/ status[r] \in {"requested", "submitted"} /\ status'[r] = "submitted"
  <2>1. CASE SubmitMark(w) \/ RecoverMark(w)
    BY <2>1 DEF SubmitMark, RecoverMark, UpdateStatus, Submittable, Typed, TypeOK
  <2>2. CASE RecoverAdopt(w)
    <3>1. PICK q \in Refund : q = task[w].id /\ Sent(q)
      BY <2>2 DEF RecoverAdopt, At, Typed, TaskTyped, LocalsOK, OnRefund, EngineInv, TaskInv
    <3>2. gateway_ref[q] = NoRef => status[q] = "submitted"
      BY <3>1 DEF EngineInv, RowInv, Sent
    <3> QED BY <2>2, <3>1, <3>2 DEF RecoverAdopt, Adopts, Typed, TypeOK
  <2>3. CASE \/ SubmitLog(w) \/ SubmitCall(w) \/ SubmitRef(w) \/ RecoverLookup(w)
             \/ RecoverAdoptLog(w) \/ RecoverCall(w) \/ RecoverRef(w) \/ RecoverLog(w)
    BY <2>3 DEF SubmitLog, SubmitCall, SubmitRef, RecoverLookup, RecoverAdoptLog, RecoverCall,
                RecoverRef, RecoverLog
  <2> QED BY <2>1, <2>2, <2>3 DEF SubmitStep, RecoverStep
<1> QED BY <1>1, <1>2 DEF StageOf, Absent

(* Every step of the engine is a decision of the lifecycle, or none.       *)
LEMMA StepRefines ==
  ASSUME Typed, EngineInv, CapacityInv, GwBooks, [Next]_vars
  PROVE  [Lifecycle!LifecycleNext]_(Lifecycle!lifecycleVars)
<1> USE DEF Lifecycle!LifecycleNext
<1>1. ASSUME NEW r \in Refund, Issue(r), Sent(r), UNCHANGED <<status, approved>>
      PROVE  [Lifecycle!LifecycleNext]_(Lifecycle!lifecycleVars)
  BY <1>1, IssuePays
<1>2. CASE UNCHANGED <<gw_store, gw_seq>>
  <2>1. ASSUME NEW w \in Worker, RequestStep(w)
        PROVE  [Lifecycle!LifecycleNext]_(Lifecycle!lifecycleVars)
    <3>1. CASE RequestInsert(w)
      BY <3>1, InsertAccepts
    <3>2. CASE RequestLock(w) \/ RequestSum(w)
      BY <1>2, <3>2, Stutters DEF RequestLock, RequestSum, requestVars
    <3> QED BY <2>1, <3>1, <3>2 DEF RequestStep
  <2>2. ASSUME NEW w \in Worker, ApproveStep(w)
        PROVE  [Lifecycle!LifecycleNext]_(Lifecycle!lifecycleVars)
    <3>1. CASE ApproveMark(w)
      BY <3>1, MarkReleases
    <3>2. CASE ApproveLog(w)
      BY <1>2, <3>2, Stutters DEF ApproveLog
    <3> QED BY <2>2, <3>1, <3>2 DEF ApproveStep
  <2>3. ASSUME NEW w \in Worker, SubmitStep(w) \/ RecoverStep(w)
        PROVE  [Lifecycle!LifecycleNext]_(Lifecycle!lifecycleVars)
    BY <1>2, <2>3, MarksStayOpen, Stutters
  <2>4. ASSUME NEW w \in Worker, WebhookStep(w)
        PROVE  [Lifecycle!LifecycleNext]_(Lifecycle!lifecycleVars)
    <3>1. CASE WebhookApply(w)
      BY <3>1, ApplyConcludes
    <3>2. CASE WebhookSnapshot(w)
      BY <1>2, <3>2, Stutters DEF WebhookSnapshot, webhookVars
    <3> QED BY <2>4, <3>1, <3>2 DEF WebhookStep
  <2>5. ASSUME NEW w \in Worker, Start(w)
        PROVE  [Lifecycle!LifecycleNext]_(Lifecycle!lifecycleVars)
    <3>1. UNCHANGED <<status, approved>>
      BY <2>5 DEF Start, RequestBegin, SubmitRead, ApproveRead, WebhookClaim, RecoverScan,
                  requestVars, submitVars, webhookVars, recoverVars
    <3> QED BY <1>2, <3>1, Stutters
  <2>6. ASSUME NEW w \in Worker, Abort(w)
        PROVE  [Lifecycle!LifecycleNext]_(Lifecycle!lifecycleVars)
    BY <1>2, <2>6, Stutters DEF Abort
  <2>7. ASSUME NEW r \in Refund, LateArrival(r)
        PROVE  [Lifecycle!LifecycleNext]_(Lifecycle!lifecycleVars)
    BY <1>2, <2>7, Stutters DEF LateArrival
  <2>8. CASE UNCHANGED vars
    BY <2>8, Stutters DEF vars
  <2> QED BY <2>1, <2>2, <2>3, <2>4, <2>5, <2>6, <2>7, <2>8 DEF Next, Step, Rest
<1> QED BY <1>1, <1>2, GatewayMoves

(* The engine, with all its statements, crashes and late answers, does     *)
(* nothing the abstract lifecycle would not.                               *)
THEOREM ImplementsLifecycle == Spec => RefinesLifecycle
<1>1. Init => Lifecycle!LifecycleInit
  BY DEF Init, GwInit, Lifecycle!LifecycleInit, StageOf, Holds, Absent, NoRef
<1>2. Typed /\ EngineInv /\ CapacityInv /\ GwBooks /\ [Next]_vars
        => [Lifecycle!LifecycleNext]_(Lifecycle!lifecycleVars)
  BY StepRefines
<1> QED BY <1>1, <1>2, AlwaysTyped, EngineInvariant, Capacity, Books, PTL
     DEF Spec, RefinesLifecycle, Lifecycle!LifecycleSpec
=============================================================================
