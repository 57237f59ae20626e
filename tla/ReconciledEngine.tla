-------------------------- MODULE ReconciledEngine --------------------------
(***************************************************************************)
(* The refund engine at work while the reconciliation job compares its     *)
(* settled rows with a file of the bank.                                   *)
(***************************************************************************)
EXTENDS EngineInvariant, Reconcile

ReconciledInit == Init /\ job = NoJob

ReconciledNext ==
  \/ Next /\ UNCHANGED job
  \/ ReconcileStep

ReconciledSpec == ReconciledInit /\ [][ReconciledNext]_<<vars, job>>

Reported == job.pc = "done"
Report == job.report
-----------------------------------------------------------------------------
(* A complete and truthful file: the refunds the gateway had issued when   *)
(* the file was drawn up, each for its amount, and nothing else.           *)
Honest(file, known) ==
  /\ \A n \in DOMAIN file : \E r \in known :
       file[n] = [gateway_ref |-> gw_store[r], amount_cents |-> Amount[r]]
  /\ \A r \in known : gw_store[r] \in Refs(file)

SettledIds == {row.id : row \in job.settled}

(* Every alarm an honest file raises is explained: what is missing from it *)
(* went to the gateway after it was drawn up; no amount differs; and the   *)
(* lines without a refund are those, no more and no fewer, whose refund    *)
(* the SELECT did not find settled, be it still under way, failed, or left *)
(* unsettled by a lost verdict.  Retries, recoveries and crashes do not    *)
(* change that (reconcile.rs, "no matching settled refund row").           *)
AlarmsAreExplained ==
  Reported /\ Honest(job.file, job.known) =>
    /\ Report.settled_missing_from_file \cap job.known = {}
    /\ Report.amount_mismatch = {}
    /\ \A n \in DOMAIN job.file, r \in Refund :
         gw_store[r] = job.file[n].gateway_ref =>
           (n \in Report.line_with_no_refund <=> r \notin SettledIds)

(* The rows are read once and the engine goes on.  Whatever it does, a     *)
(* refund reported as missing or mismatched is still settled, and at the   *)
(* reference it was compared by (reconcile.rs, fetch_all).                 *)
FlagsOutliveTheRead ==
  Reported =>
    \A r \in Report.settled_missing_from_file \cup Report.amount_mismatch :
      status[r] = "settled" /\ Row(r) \in job.settled

Clean == Report = NoReport

LastLine(file, n) ==
  \A m \in DOMAIN file : file[m].gateway_ref = file[n].gateway_ref => m <= n

(* A report with nothing in it means what finance takes it to mean, both   *)
(* ways.  Each line is about one refund, no two refunds answer to the same *)
(* line, that refund is settled, and the last line about it has its        *)
(* amount.  And each refund that was settled at the SELECT has a line, the *)
(* last one with its reference, for its amount (reconcile.rs, "Match each  *)
(* settled refund against the settlement file").                           *)
CleanMeansAgreed ==
  Reported /\ Clean =>
    /\ \A n \in DOMAIN job.file : \E r \in Refund :
         /\ {q \in Refund : gateway_ref[q] = job.file[n].gateway_ref} = {r}
         /\ status[r] = "settled"
         /\ LastLine(job.file, n) => job.file[n].amount_cents = Amount[r]
    /\ \A row \in job.settled : \E n \in DOMAIN job.file :
         /\ LastLine(job.file, n)
         /\ job.file[n] = [gateway_ref |-> row.gateway_ref, amount_cents |-> row.amount_cents]
=============================================================================
