----------------------------- MODULE Reconcile -----------------------------
(***************************************************************************)
(* reconcile (src/reconcile.rs): given the bank's settlement file, one     *)
(* SELECT of the settled rows and then, in memory, a comparison of the     *)
(* two.  The job changes no table; the engine goes on around it, also      *)
(* between the moment the bank drew up the file and the SELECT.            *)
(***************************************************************************)
EXTENDS EngineState

CONSTANT Files        \* the settlement files a bank may send

Line == [gateway_ref : Ref, amount_cents : Int]

ASSUME FileType == Files \subseteq Seq(Line)

VARIABLE
  job                 \* the call, its argument and locals, then its result

JobPC == {"idle", "read", "match", "done"}

NoReport == [settled_missing_from_file |-> {}, line_with_no_refund |-> {},
             amount_mismatch |-> {}]

NoJob == [pc |-> "idle", file |-> <<>>, known |-> {}, settled |-> {},
          report |-> NoReport]

Row(r) == [id |-> r, gateway_ref |-> gateway_ref[r], amount_cents |-> Amount[r]]

\* Broken variant: the SELECT forgets the status.
RowsWithRef == {Row(r) : r \in {q \in Refund : gateway_ref[q] # NoRef}}

\* WHERE status = 'settled' AND gateway_ref IS NOT NULL
SettledRows == {Row(r) : r \in {q \in Refund : status[q] = "settled" /\ gateway_ref[q] # NoRef}}

Refs(file) == {file[n].gateway_ref : n \in DOMAIN file}

\* Broken variant: the first line of a reference stays in the index.
FirstOf(file, ref) ==
  CHOOSE n \in DOMAIN file :
    /\ file[n].gateway_ref = ref
    /\ \A m \in DOMAIN file : file[m].gateway_ref = ref => n <= m

\* HashMap::insert replaces: file_by_ref holds the last line of a reference.
Indexed(file, ref) ==
  CHOOSE n \in DOMAIN file :
    /\ file[n].gateway_ref = ref
    /\ \A m \in DOMAIN file : file[m].gateway_ref = ref => m <= n

FileByRef(file, ref) == file[Indexed(file, ref)]

\* Class one: settled here, missing from the file.
Missing(settled, file) ==
  {row.id : row \in {s \in settled : s.gateway_ref \notin Refs(file)}}

\* Broken variant: a line counts as matched only if its amount differs.
UnmatchedUnlessWrong(settled, file) ==
  {n \in DOMAIN file : \A row \in settled :
     \/ row.gateway_ref # file[n].gateway_ref
     \/ row.amount_cents = FileByRef(file, row.gateway_ref).amount_cents}

\* Class two, by line number: no settled row has the line's reference.
Unmatched(settled, file) ==
  {n \in DOMAIN file : \A row \in settled : row.gateway_ref # file[n].gateway_ref}

\* Class three: the amounts differ.
Mismatched(settled, file) ==
  {row.id : row \in {s \in settled :
     /\ s.gateway_ref \in Refs(file)
     /\ FileByRef(file, s.gateway_ref).amount_cents # s.amount_cents}}

(* The bank draws up a file, and the job is called with it.  `known` is    *)
(* history: the refunds the gateway had by then.                           *)
FileArrives(file) ==
  /\ job.pc = "idle"
  /\ job' = [NoJob EXCEPT !.pc = "read", !.file = file, !.known = Issued]
  /\ UNCHANGED vars

ReconcileRead ==
  /\ job.pc = "read"
  /\ job' = [job EXCEPT !.pc = "match", !.settled = SettledRows]
  /\ UNCHANGED vars

ReconcileMatch ==
  /\ job.pc = "match"
  /\ job' = [job EXCEPT !.pc = "done", !.report =
       [settled_missing_from_file |-> Missing(job.settled, job.file),
        line_with_no_refund |-> Unmatched(job.settled, job.file),
        amount_mismatch |-> Mismatched(job.settled, job.file)]]
  /\ UNCHANGED vars

ReconcileStep ==
  \/ \E file \in Files : FileArrives(file)
  \/ ReconcileRead
  \/ ReconcileMatch
=============================================================================
