# refund-engine in TLA+

A model of the `refund-engine` crate: the five calls that change a refund, the
tables they share, the payment gateway they talk to, everything that can
happen between two of their statements, the reconciliation job that runs beside
them, and the redaction of card numbers. TLC checks small instances; TLAPS
proves every safety property of the engine, the job, the mock gateway and the
redaction for every number of refunds, charges, workers, events and faults, and
for texts and card numbers of every length.

Paths below are relative to `src/`.

## 1. The system

| Part | Code | State | Operations |
| --- | --- | --- | --- |
| Tables and types | `src/model.rs`, `migrations/0001_refunds.sql` | `charges`, `refunds`, `refund_transitions`, `webhook_events` | `get_refund`, `refunded_so_far` |
| Request | `src/request.rs` | a transaction holding the row lock of a charge | `request_refund` |
| Approval | `src/approval.rs` | locals between three statements | `approve` |
| Submit | `src/submit.rs` | locals between four statements and a gateway call | `submit_refund`, `record_transition` |
| Webhook | `src/webhook.rs` | a claimed event, then a transaction | `handle_webhook` |
| Recovery | `src/recover.rs` | the result set of a scan, then one row at a time | `recover_submitted` |
| Gateway contract | `src/gateway.rs`, trait `Gateway` | refunds by idempotency key, at another company | `create_refund`, `lookup_by_key` |
| Mock gateway | `src/gateway.rs`, `MockGateway` | four `Mutex`es: store, seq, issued, config | the same, `set_config` |
| Reconciliation | `src/reconcile.rs` | the rows of one SELECT, compared with a file in memory | `reconcile` |
| Redaction | `src/redact.rs` | the position and locals of two nested loops | `redact_pan`, `last4` |
| Errors, migration, `reset` | `src/error.rs`, `src/lib.rs` | none | |

How the parts interact:

- Every call works on the same Postgres tables through a pool, under READ
  COMMITTED. Only `request_refund` and the second half of `handle_webhook` open
  a transaction; all other statements commit by themselves, so calls interleave
  between them.
- `request_refund` serialises on the charge row (`FOR UPDATE`). Nothing else
  takes that lock, also not the webhook that makes the sum smaller.
- `submit_refund` and `recover_submitted` call the gateway under the refund's own
  id. The answer may get lost, and a create whose caller gave up may still
  arrive.
- The gateway sends signed events, in any order and more than once, and
  sooner than the answer to the create they are about.
- The bank draws up a settlement file at some moment, `reconcile` reads the
  settled rows at a later one, and its report is read later still; the engine
  goes on all the time.
- A process may die between any two statements; locals and an open
  transaction are lost, statements that committed are not. `recover_submitted`
  is the answer to that, run by an operator or a job.

What is hard to test: the interleavings of these calls, stale reads (every
handler but `request_refund` acts on a row it read in an earlier statement),
crashes between a change and its audit row, events overtaking answers, and
retries meeting late answers. `PROJECT.json` lists each such hazard at its line
with the properties that cover it.

What makes each part correct:

- *Request*: the refunds of a charge never add up to more than was captured.
- *Approval*: nothing large reaches the gateway on its requester's word alone.
- *Submit*: the database shows the intent before money may move; no retry, recovery
  or late create makes the gateway pay a refund twice; settled is never written
  here.
- *Webhook*: each event acts at most once, only on the refund it names, never
  on a terminal one, and its audit row agrees with the status.
- *Recovery*: records the gateway's own reference, disturbs nothing that went on
  meanwhile, and reaches every stuck row in the end.
- *Gateway*: one refund per key; for the mock, as long as no two calls for the key
  race.
- *Audit log*: tells of no step that was not taken, and lacks none but the row that
  a call was about to write when it was cut off.
- *Reconciliation*: over a truthful file, flags the lines whose refund it did not
  find settled and no others; is silent only if every line has a settled refund
  and every settled refund its line. Of two lines with one reference it
  compares the last.
- *Redaction*: masks all but the last four digits of a run of 13 to 19, leaves
  shorter runs alone, and always returns. It does not mask every card number: of
  a run of more than 19 digits only the last 19 are treated as a card (section 3,
  `claim_full_pan`).

## 2. Modules

```
Money         Gateway                 RefundLifecycle (abstract) --- LifecycleProofs
   \           /                              ^ implemented by
    EngineState                               |
      |-- RequestRefund  Approval  Submit  Webhook  Recover
      |         \           |        |        |       /
      |         +--------- RefundEngine -------------
      |                     |
   Reconcile         EngineInvariant --- RefundEngineProofs --- AuditProofs
      |                |    |              |          |              |
      |                | EngineClaims   MoneyProofs   |        CapacityProofs
      |                |    |                         |
      |                | MCRefundEngine               |
      +-- ReconciledEngine ------------------- ReconcileProofs
                |
         MCReconciledEngine

MockGateway (keeps Issue of Gateway, per key)    Redact
   |      |                                     |      |
   |  MockGatewayProofs                  MCRedact  RedactProofs
MCMockGateway
```

| Module | Models |
| --- | --- |
| `Money` | `SUM(amount_cents)` of a set of rows, as the number of their cents. This makes sums provable with the library's theorems on cardinality, without recursion |
| `Gateway` | the contract of the `Gateway` trait: a store keyed by idempotency key; `Issue` is `create_refund`, `Holds` is `lookup_by_key` |
| `EngineState` | tables, gateway books, calls in flight; the SQL statements handlers share (`UpdateStatus`, `UpdateRef`, `RecordTransition`), and a gateway call as its caller sees it (`CreateRefund`) |
| `RequestRefund`, `Approval`, `Submit`, `Webhook`, `Recover` | one handler each, one action per statement, gateway call or commit |
| `RefundEngine` | all handlers at once, `Abort`, late creates; the properties |
| `RefundLifecycle` | what the engine promises, as one atomic action per decision; `payments` counts what the gateway issued, so that paying a refund again is not a step of it |
| `EngineInvariant` | the inductive invariant |
| `EngineClaims` | statements of comments and tests that the code does not keep |
| `MockGateway` | the in-crate gateway, one action per critical section, callers free to overlap |
| `Reconcile` | `reconcile` as a job of two steps, and the file's arrival |
| `ReconciledEngine` | the engine and the job side by side, and what a report means |
| `Redact` | `redact_pan` with `scan_pan`, one action per iteration, and `last4` |
| `MoneyProofs`, `RefundEngineProofs`, `AuditProofs`, `CapacityProofs`, `LifecycleProofs`, `ReconcileProofs`, `MockGatewayProofs`, `RedactProofs` | theorems |
| `MCRefundEngine`, `MCMockGateway`, `MCReconciledEngine`, `MCRedact` | constants for TLC |

### State and code

- `status`, `gateway_ref` and `refund_transitions` are functions of the refund id;
  `Absent` is a row not inserted yet. An audit row keeps `from_status`,
  `to_status` and `actor`; an approver's `approver:` prefix is left out, and
  `Actor \cap SystemActor = {}` stands for it.
- The arguments of a `request_refund` call are constants of the uuid it draws
  (`Amount`, `ChargeOf`, `CurrencyOf`, `Requester`). A uuid is drawn once, so this
  loses no behaviour. Amounts may be zero or negative; the `CHECK` on the column
  then fails the insert.
- `charges` is constant: the engine only reads it.
- `task[w]` is what worker `w` is executing. Its `pc` names the next statement;
  `id`, `seen`, `ref`, `sum`, `by`, `ev` and `rows` are the locals that survive
  from an earlier one (`row.status` in `submit_refund`, `stuck` in
  `recover_submitted`, and so on).
- `RequestInsert` is both inserts and the commit: nobody sees one of them
  earlier. Leaving the transaction in any way frees the lock, because
  `ChargeLocked` reads it off the program counters.
- The webhook's `WITH moved AS (UPDATE ... RETURNING) INSERT ... SELECT` is two
  actions. `WebhookSnapshot` is the statement's snapshot: the rows that match,
  and for each the last audit row, from which `from_status` is copied.
  `WebhookApply` re-checks the `WHERE` clause on each of them, as READ COMMITTED
  does after waiting for a row lock, and commits.
- A gateway reference is the number of the refund at the gateway, `NoRef` is
  NULL. `late` holds creates whose caller timed out or died before an answer; any
  of them may still reach the gateway (`LateArrival`), or never.
- `approved` and `applied` are history: who moved a row out of review, and which
  events' transactions committed. No action reads them. In `MockGateway` so are
  `told`, the ids answered for each key, `races`, the misses in the store while
  another call for the key is between its own miss and its insert, and
  `contended`, the keys of those.
- `left` counts down the bound on each kind of call and fault (`MaxCalls`).
- `job` is the one call of `reconcile`: `FileArrives` is the moment the bank drew
  up the file the job is called with, `ReconcileRead` the SELECT, `ReconcileMatch`
  everything after it, which is a function of the two. `FileByRef` keeps the last
  line of a reference, as `HashMap::insert` does. The report's lists are sets: of
  refunds for the first and third class, of line numbers for the second. `known`
  is history: what the gateway had when the file was drawn up.
- `Redact` abstracts a text to what the code distinguishes, a digit, a separator
  or anything else. Positions count characters; the code counts bytes, and steps
  over a character of several bytes as one (`utf8_len`). The outer loop's `i` and
  `out`, and `scan_pan`'s `i`, `digits.len()` and `last_was_sep`, are variables.

### Environment

- *Gateway*: it holds one refund per key and signs events only about references
  it has issued (`CanArrive`). It may send any verdict, also both, also
  before the caller has its answer.
- *Anyone else* may post an event with any reference and no valid signature.
- *Faults*: a call may be cut off before any of its statements (`Abort`: a
  SIGKILL, a dropped future, an error that `?` passes on); a gateway answer may
  get lost; a create may land late or never.
- *Operator*: any call may begin at any time in any worker. Two `request_refund`
  transactions never draw the same uuid.

## 3. Runs

A charge of 10 with refunds of 6, 5, 4 and 8 (large), a charge of 4 in another
currency with refunds of 4, of 0, and of 4 in the wrong currency, and a review
threshold of 8 stand for the cents of the code.

| Run | Instance | Shows |
| --- | --- | --- |
| `capacity` | 3 workers, 2 charges, 4 of 5 requests (6 and 5 on the one; 4, 0 and the wrong currency on the other), 2 submits, 2 of 4 events (failed for the first refund, settled for the second, an unknown type, forged), a crash | racing requests on one charge and on both while earlier refunds move: `NoOverRefund`, `LockedSumNeverGrows`; the same limit where the money is, at the gateway (`NeverPaysBeyondCapture`); an event moves only the refund it names (`VerdictIsTheGateways`) |
| `lifecycle` | 3 workers, 1 refund, 2 submits, 3 of 4 events (settled, failed, failed again, forged), a recovery, a crash, a gateway fault | what happens to one refund when everything races: intent before money, the right reference, one payment (`RefinesLifecycle`), verdicts, `TerminalIsForever`; the crash costs the log one row at most (`AuditLossBounded`); a refund the log calls recovered was (`RecoveredHasRef`) |
| `review` | 2 workers, a large refund, 2 approvals by any of 3 people, 2 submits, a recovery, a crash | `TypeOK`, `EngineInv`, `ApprovedByAnother`; whoever loses the race, the log tells of no status the refund did not go through (`LogNeverAhead`) and lacks at most the row the crash took, a status or an approver (`AuditLossBounded`) |
| `converge` | 2 workers, 2 refunds, a submit, 2 recoveries, a crash, a fault | `RecoveryConverges` under fairness, a walk over two rows and two walks at once among its behaviours |
| `mock_gateway` | 3 callers, 2 keys, 5 creates, 2 changes of configuration | calls overlap freely: the mock issues one refund too many per race and none besides (`DoublesAreRaces`); a key that saw no race is answered with one refund (`OneRefundPerKey`) and keeps the contract of `Gateway` (`KeepsContract`), whatever races on the other |
| `reconcile` | 2 workers, 2 refunds, 2 requests, 3 submits, 2 of 3 events, a lost answer, one of 9 files | what a report means while the engine goes on: `AlarmsAreExplained`, `FlagsOutliveTheRead`, `CleanMeansAgreed` |
| `redact` | every text of up to 9 characters, cards of 3 to 4 digits of which 2 stay | `LayoutIsKept`, `RunsAreMasked`, `OnePassSuffices`, `AgreesWithLast4`; `Terminates` under fairness, and the measure behind it, `WorkShrinks`, without |

Bounds and why they suffice. All bounds are in `MaxCalls`, `MaxCreates`,
`MaxConfigs` and `MaxLength`. A stale read is harmful when one other call gets
between the read and the write, a lost update when two do: three workers give every
handler two others to race with. Two submits and one recovery are enough for a
retry, a crash and its repair to overlap on one row; three events cover a verdict,
its opposite and a repetition. Two charges let requests hold both locks at once,
fill one charge to the cent and overfill the other. Workers are interchangeable, so
safety runs use symmetry on them; the liveness run does not. The liveness run has no
events: an event moves only a row that has its reference already, so it neither
strands a row nor rescues one.

The files of `reconcile` are: empty, complete in either order, one refund only, a
wrong amount, a reference nobody has, and two lines for one reference. Whether a
file is honest depends on when it was drawn up, so each occurs as honest, early,
late and false. There is no crash and no recovery in this run: the job sees rows
only, and what those do to rows is covered by the other runs and by the proofs.

`redact` scales the lengths down (13, 19 and 4 to 3, 4 and 2) and so fits, within
9 characters, two whole cards in one run, a run one longer than a card with a
separator at any place, and a run of card length behind a shorter one. What the
code compares are lengths with these three numbers only; the theorems of
`RedactProofs` are about all texts and all `0 < Keep < MinPan <= MaxPan`, 4, 13
and 19 among them.

`capacity`, `lifecycle` and `review` also check `RefinesLifecycle`: each exercises
other actions of the abstract specification (`Accept` and two refunds at once;
`Pay` and `Conclude`; `Release`). Its `payments` is mapped to `gw_seq`, so a second
payment of one refund is a step the specification does not have.

### Where code and comments part

Each of these runs ends in a counterexample to something a comment, demo or test
states. None contradicts a property above.

| Run | Said | Done |
| --- | --- | --- |
| `claim_from_status` | `webhook.rs:119`: the audit row has "the correct pre-update `from_status`" | it has the last audit row's `to_status`, which lags behind while a submit is between its UPDATE and its audit row |
| `claim_duplicate` | `webhook.rs:35`: "We had already processed this event id" | the id is claimed in a statement of its own; after a crash behind it the event is a duplicate though nothing was applied |
| `claim_early_settled` | `demo_webhook.rs:80`: an early settled "is safe" | before the reference is on the row the event matches nothing, and is spent |
| `claim_full_pan` | `redact.rs:1`: "Nothing in this path may log a full PAN" | of a run of more than 19 digits, two card numbers with one space between them say, everything before the last 19 digits is copied, and may be a whole card number |
| `claim_mock_dedupe` | `gateway.rs:127`: "never issue a second refund" | two overlapping calls for one key both miss the store |

These have no run:

- `webhook.rs:146` says that rows "not already terminal" are failed, and the
  statement below it also fails, and logs, failed rows again; `TerminalIsForever`
  and `VerdictAudited` allow for that.
- `request.rs:44` says that "this sum cannot change underneath us", and a failed
  event makes it smaller, without the lock; `LockedSumNeverGrows` states what is
  needed and holds.
- `integration.rs:336` says that the log "reconstructs the state machine". A
  recovery with a stale scan (`recover.rs:63`, `recover.rs:102`) and an approval that
  lost its race (`approval.rs:38`) append their rows behind `settled`, so a log need
  not end at its refund's status; `LogNeverAhead` states what such rows are good for.
- `approval.rs:36` says that "the approver lands in the append-only audit table".
  It does so in a second statement; a crash before that leaves a released refund
  with no approver on record, and `submit.rs:47` loses its row likewise.
  `AuditLossBounded` states how much can be lost, not that nothing is.
- `reconcile.rs:25` says of the second class "with no matching refund row", and
  the code, as its comment in line 86 says, also flags lines whose row exists but is
  not settled: still submitted, failed, or left behind by a lost event.
  `AlarmsAreExplained` says so. Of two lines with one
  reference only the last is compared (`reconcile.rs:58`): a false amount on the
  first is not reported, which is why `CleanMeansAgreed` speaks of the last line.
- The comment on `last4` (`redact.rs:110`) promises "the input unchanged" for what is
  no card, the code returns `None`.

In a run of more than 19 digits the scan starts anew at each digit, so only the
last 19 count as a card. `RunsAreMasked` promises nothing of the digits before
them, in either direction; what is left of them is itself of a card's length if
the run has 32 digits or more, which is what `claim_full_pan` finds and
`OnePassSuffices` excludes.

## 4. Fairness

Safety runs and all theorems assume none. `RecoveryConverges` needs
`FairSpec`:

- `WF_vars(Step(w))` for each worker: a call in flight takes its next step. tokio
  polls every runnable task and Postgres answers every statement; a call that
  waits for the charge lock waits for a transaction that itself goes on. No
  fairness is assumed of `Abort`, of gateway faults, or of late creates arriving.
- `WF_vars(\E w : RecoverScan(w))`: while rows are stuck and a worker stays idle,
  recovery is eventually run again. The crate leaves this to whoever operates it;
  `examples/demo_incident.rs` plays that role. Nobody is obliged to request,
  approve or submit anything.

`Terminates` needs `RedactFairSpec`, `WF_redactVars(RedactStep)`: a loop that runs goes
on. There is nothing in it to wait for.

`Stranded` says that more recoveries are left than crashes and faults together.
Without that a bounded model could spend its last recovery on a crash, which
says nothing about the code.

## 5. Proofs

All theorems hold for any finite set of refunds and any sets of charges, actors,
events and workers that satisfy `AmountType` and `ConstantTypes`: amounts are
integers, captured amounts are naturals (the CHECK on `charges`), references are
positive numbers, and nobody's name is that of a system actor.

1. *Types* (`RefundEngineProofs`). `TypeOK` is not inductive: what a handler writes
   comes from its locals, and those are only there at some program points.
   `Typed` adds that (`LocalsOK`). `TypeCorrect`: `Spec => []TypeOK`.
2. *The invariant* (`RefundEngineProofs`). `EngineInv` has three parts. `RowInv`
   holds of each row: nothing is at the gateway, or on its way there, that is not
   marked submitted; a reference is the gateway's; a terminal row has a
   reference; a large row past review was released by another. `TaskInv` says
   what a call may rely on at each program point *although other calls ran since
   it read the row*: a row read as requested has been released for good, a row
   marked submitted never goes back. `Exclusive` is the row lock. The proof follows the
   rely-guarantee pattern: `Advances` is what every step guarantees of each row,
   `OthersKeep` shows that it suffices for all other calls' `TaskInv`, and each
   handler's lemma shows its own step guarantees it and leaves its own call with what
   it relies on next.
   `IntentIsFirst`, `RefIsRight` and `SeparationOfDuties` are read off the invariant.
3. *Moves* (`RefundEngineProofs`). `StatusMoves` lists the moves a status can make in
   one step. The delicate one is recovery's adopting UPDATE, which has no guard on
   the status: that it reopens nothing follows from "a terminal row has a
   reference" in `RowInv`, since it only touches rows without one.
   `TerminalForever` is a corollary.
4. *Capacity* (`CapacityProofs`). By `StatusMoves` no step adds a row to the sum of
   a charge but the insert of one request, so a sum shrinks or grows by that amount
   (`SumMoves`, with `SumMonotone` and `SumAddOne` of `MoneyProofs`). A call about
   to insert keeps its reservation (`Reserved`): it read the sum in this step, or it
   holds the lock, and then any other inserting call is on another charge.
   `NeverOverRefunded` and `LockHolds` follow; that no stored amount is below one is
   the `CHECK` on the column, carried by the invariant. `GatewayStaysWithin` carries
   the limit to the gateway's books: what it pays or may yet pay is marked submitted
   (`IntentIsFirst`), and a row that stopped counting, being failed, is so by a
   signed event that names it (`GatewaysWord`), so `MoneyOut` is part of `Counted`.
5. *The abstract lifecycle* (`LifecycleProofs`). `LifecycleIsSafe`:
   `RefundLifecycle` keeps the charge's limit, the second person's release, pays
   only what was accepted and nothing twice, for any charges and refunds with
   natural `Captured` and `ChargeOf` in `Charge`. So an implementation of it needs
   no such argument of its own.
6. *The gateway's books* (`RefundEngineProofs`). `Books`, a fact about the
   environment as it is modelled: no reference is given twice (`GwBooks`). With
   `GatewayMoves` (only a create of a marked row touches the books) this makes a
   reference name one row for good.
7. *The engine implements the lifecycle* (`CapacityProofs`). `ImplementsLifecycle`:
   `Spec => RefinesLifecycle`. Each handler's decisive statement is one abstract action:
   the insert `Accept` (the reservation gives it the room it asks for), the approving
   UPDATE `Release`, a create that issues `Pay`, an applied event `Conclude`; all
   others change nothing the lifecycle sees. `Conclude` is about one refund: that one
   event moves one row follows from `GwBooks`.
8. *Verdicts and the log* (`AuditProofs`). Two kinds of step are told apart:
   applying an event (`ApplyMoves`: each row is `Spared`, or `Hit` and logged with
   it) and all others (`OnlyWebhooksConclude`: they conclude nothing and write
   nothing in a webhook's name). `EventInv` says that an event is with one handler
   at most, with its signature checked, claimed and not yet applied; where a handler
   is comes from `Flow`, which says which statement leads to which. `GatewaysWord`,
   `RowAndLogAgree` and `EventsApplyOnce` follow, the last by counting a log's
   webhook rows against the events applied. `LogIsComplete` is about statements that
   come in pairs, a change and its audit row. What the log of a row misses some call
   in flight `Owes`, or it is lost (`LostStatuses`, `LostNames`), and `AuditInv`
   says that no more is lost than calls were cut off. Whoever gives a row a status
   owes it (`NewStatusIsOwed`), a debt is kept or paid by every step
   (`NothingMoreIsLost`), and a call that is cut off takes one debt along
   (`AbortLosesOne`), being about to write one row. No status is passed over on the
   way (`ThroughMoves`), so what is owed is all a refund went through, not only
   where it is. The subtle case is a submit that found its row submitted already and
   will log nothing: its UPDATE then changes nothing either. `LogFollows` is the
   converse: no audit row tells of a step that was not taken. Each handler writes
   its row after its UPDATE, but others run in between, and the UPDATE may have
   changed nothing; what `TaskInv` knows at the logging statements (`Released`,
   `Sent`) holds either way (`LogMoves`), and what a refund has been through stays
   so (`ThroughMoves`). At rest, with no call cut off, a log and its row then tell
   the same story but for the order. `RecoveredReally` needs `RecordInv`: a recovery
   at its audit row has seen to the reference, or its create went unanswered and a
   fault was spent (`LostSpends`). That nothing takes a reference away again is
   `RefsStay`. `RecoveredReally` is the safety core of `RecoveryConverges`: a walk
   that comes to its end with all answers has given every row it logged its
   reference.
9. *Reconciliation* (`ReconcileProofs`). `JobOnlyReads` (`ReconciledSpec => Spec`)
   carries all of the above over. `JobInv`: a row of the SELECT is still settled, and
   still at that reference, however long the job takes (`SettledStays`, from
   `StatusMoves`, `RefIsTheGateways` and `Books`). `IndexFinds` and `IndexIsLast` are the
   facts about the index; that a last line exists is the well-foundedness of `<`.
   `AlarmsExplained`, `FlagsStand` and `CleanIsAgreed` follow for every file, the first also
   from the fact that the SELECT's row of a reference is the row the gateway issued it
   for.
10. *The mock* (`MockGatewayProofs`), with no assumption on who calls when.
    `MockInv` keeps two accounts. Of numbers: what was issued and the calls past
    their miss that have still to count theirs are as many as the keys stored or
    about to be, and the races (`BooksInv`). Of each key that has seen no race: at
    most one call is past its miss, and what was told is what is stored.
    `RacesAreTheOnlyDoubles` and `RetriesAgree` are read off it;
    `ImplementsContract` takes the drawing of an id for the contract's `Issue`, key
    by key. A submit and a recovery of one refund may race for its key; then these
    theorems say what that costs, and `claim_mock_dedupe` that it happens.

11. *Redaction* (`RedactProofs`), by induction over the steps of the two loops.
    `RunsAreMasked` compares the loops with a reading of the whole text. What connects
    them is `RedactInv`: the part already written is masked as the whole text asks
    for (`MaskInv`), `scan_pan` has counted the digits of one run from `i` on
    (`ScanInv`), and the outer loop never steps over the start of a card (`AheadInv`):
    a run it is in the middle of is shorter than a card, or has `MaxPan` digits or
    more still ahead.
    The rest is counting: digits of a stretch add up (`DigitsSplit`), where the
    scan stops the run is over (`ScanReadsTheRun`), and a digit has as many behind it in
    the stretch as in its run (`DigitInStretch`). `RightDigitsMasked` and `LayoutKept` are
    read off the invariant. `SecondPassIdle` shows that fewer than `MinPan` digits of a
    run are left, and `SameDigitsAsLast4` that the `Keep` digits left are those `last4`
    picks by their rank; both pick digits by how many lie behind them, which needs the
    well-foundedness of `<` on positions, not an induction over the text.
    `WorkRunsOut`: every iteration lowers `WorkLeft`, a natural number.

Only model-checked: liveness, which is out of the prover's reach.
`RecoveryConverges` rests on fairness altogether; of `Terminates` what is left to
fairness is that a loop that runs goes on, since `WorkRunsOut` bounds the number
of its iterations.

## 6. Not modelled

- `ChargeNotFound`, `RefundNotFound` and the rejections of `approve` and
  `submit_refund`, which read and return: a call that changes nothing is not a
  step. A rejected `request_refund` is one, because it held the lock.
- Wrapping of 64-bit cents. `NoOverRefund` keeps the sum between 0 and the captured
  amount, so `amount_captured - refunded_so_far` cannot wrap; the amounts of one
  charge add up within the range of its captured amount.
- Timestamps, so the order in which recovery walks its rows: any order is
  modelled. Reasons, `failure_reason`, the report of recovery, error values.
- Two refunds given the same reference by the gateway, which the unique index on
  `gateway_ref` would reject: references are numbered per refund.

- In `reconcile`: the order of the report's lists, and a failed SELECT, after which
  there is no report.
- In `redact_pan`: which digit a digit is, and bytes.

## 7. Plan

Done: tables, the five handlers, gateway contract and mock, abstract lifecycle,
reconciliation beside the engine, redaction; all safety and action properties
the passing runs check are proved, as is the refinement of the lifecycle.

Next, in this order:

1. The engine over the mock instead of the contract. `KeepsContract` says that a key
   without a race behaves as the contract; the composition would say which engine
   calls race, and so which deployments of the mock are sound.
2. What a fair engine reaches, as far as a variant can carry it: a recovery walk
   visits each row of its scan once and ends, by the size of `rows` and the
   position in the handler.
3. A larger `review` instance, with several recoveries racing an approval. The
   proofs cover that case; the instance would guard the model.
