-------------------------- MODULE ReconcileProofs --------------------------
(***************************************************************************)
(* What a reconciliation report means, for every settlement file and       *)
(* everything the engine may do while it is drawn up.                      *)
(***************************************************************************)
EXTENDS ReconciledEngine, RefundEngineProofs, WellFoundedInduction
-----------------------------------------------------------------------------
(* The index of the file.                                                  *)

(* A bounded set of line numbers has a last one.                           *)
LEMMA LastNumber ==
  ASSUME NEW bound \in Nat, NEW S \in SUBSET (1..bound), S # {}
  PROVE  \E n \in S : \A m \in S : m <= n
<1> DEFINE T == {bound - n : n \in S}
<1>1. T \subseteq Nat /\ T # {}
  <2>1. \A n \in S : bound - n \in Nat
    OBVIOUS
  <2>2. PICK n \in S : TRUE
    OBVIOUS
  <2>3. bound - n \in T
    BY <2>2
  <2> QED BY <2>1, <2>3
<1> DEFINE R == OpToRel(<, Nat)
<1>2. IsWellFoundedOn(R, Nat)
  BY NatLessThanWellFounded
<1>3. PICK x \in T : \A y \in T : ~(<<y, x>> \in R)
  <2> HIDE DEF T, R
  <2> QED BY <1>1, <1>2, WFMin
<1>4. \A y \in T : ~(y < x)
  BY <1>1, <1>3 DEF OpToRel
<1>5. PICK n \in S : x = bound - n
  BY <1>3
<1>6. \A m \in S : ~(bound - m < bound - n)
  BY <1>4, <1>5
<1> QED BY <1>6

(* A reference of the file is found in the index, on the last of its lines.*)
LEMMA IndexFinds ==
  ASSUME NEW file \in Seq(Line), NEW ref \in Refs(file)
  PROVE  \E n \in DOMAIN file : /\ FileByRef(file, ref) = file[n] /\ file[n].gateway_ref = ref
                                /\ LastLine(file, n)
<1> DEFINE S == {n \in DOMAIN file : file[n].gateway_ref = ref}
<1>1. DOMAIN file = 1..Len(file) /\ Len(file) \in Nat
  OBVIOUS
<1>2. S # {} /\ S \subseteq 1..Len(file)
  BY <1>1 DEF Refs
<1>3. PICK last \in S : \A m \in S : m <= last
  <2> HIDE DEF S
  <2> QED BY <1>1, <1>2, LastNumber
<1>4. /\ Indexed(file, ref) \in DOMAIN file
      /\ file[Indexed(file, ref)].gateway_ref = ref
      /\ \A m \in DOMAIN file : file[m].gateway_ref = ref => m <= Indexed(file, ref)
  BY <1>3 DEF Indexed
<1> QED BY <1>4 DEF FileByRef, LastLine

(* ... and it is the only last one.                                        *)
LEMMA IndexIsLast ==
  ASSUME NEW file \in Seq(Line), NEW n \in DOMAIN file, LastLine(file, n)
  PROVE  FileByRef(file, file[n].gateway_ref) = file[n]
<1>1. DOMAIN file = 1..Len(file) /\ Len(file) \in Nat
  OBVIOUS
<1>2. Indexed(file, file[n].gateway_ref) = n
  BY <1>1 DEF Indexed, LastLine
<1> QED BY <1>2 DEF FileByRef
-----------------------------------------------------------------------------
(* The engine is not disturbed by the job.                                 *)
THEOREM JobOnlyReads == ReconciledSpec => Spec
<1>1. ReconciledInit => Init
  BY DEF ReconciledInit
<1>2. [ReconciledNext]_<<vars, job>> => [Next]_vars
  BY DEF ReconciledNext, ReconcileStep, FileArrives, ReconcileRead, ReconcileMatch, vars
<1> QED BY <1>1, <1>2, PTL DEF ReconciledSpec, Spec

\* A row of the SELECT is as it was read.
StillSettled(row) ==
  \E r \in Refund : row = Row(r) /\ status[r] = "settled" /\ gateway_ref[r] # NoRef

(* What the job relies on while the engine goes on: what the gateway had   *)
(* it still has, and what was settled is.                                  *)
JobInv ==
  /\ job = [pc |-> job.pc, file |-> job.file, known |-> job.known,
            settled |-> job.settled, report |-> job.report]
  /\ job.file \in Seq(Line)
  /\ job.known \subseteq Issued
  /\ \A row \in job.settled : StillSettled(row)
  /\ Reported => Report = [settled_missing_from_file |-> Missing(job.settled, job.file),
                          line_with_no_refund |-> Unmatched(job.settled, job.file),
                          amount_mismatch |-> Mismatched(job.settled, job.file)]

\* The engine's part of the argument.
Engine == Typed /\ EngineInv /\ GwBooks

(* A settled row keeps its status and its reference.                       *)
LEMMA SettledStays ==
  ASSUME Engine, Engine', [Next]_vars, NEW row, StillSettled(row)
  PROVE  StillSettled(row)'
<1>1. PICK r \in Refund : row = Row(r) /\ status[r] = "settled" /\ gateway_ref[r] # NoRef
  BY DEF StillSettled
<1>2. status'[r] = "settled"
  BY <1>1, StatusMoves DEF Engine, Move, InsertOf, Absent
<1>3. gateway_ref'[r] # NoRef /\ gateway_ref'[r] = gw_store'[r]
  BY <1>2 DEF Engine, EngineInv, RowInv
<1>4. gateway_ref[r] = gw_store[r] /\ Holds(r)
  BY <1>1 DEF Engine, EngineInv, RowInv, Holds
<1>5. gateway_ref'[r] = gateway_ref[r]
  BY <1>3, <1>4, BooksKept DEF Engine
<1> QED BY <1>1, <1>2, <1>3, <1>5 DEF StillSettled, Row

(* The engine's steps keep what the job relies on.                         *)
LEMMA EngineKeepsJob ==
  ASSUME Engine, Engine', JobInv, [Next]_vars, UNCHANGED job
  PROVE  JobInv'
<1>1. \A r \in Refund : Holds(r) => gw_store'[r] = gw_store[r]
  BY BooksKept DEF Engine
<1>2. Issued \subseteq Issued'
  BY <1>1 DEF Issued, Holds
<1>3. \A row \in job.settled : StillSettled(row)'
  BY SettledStays DEF JobInv
<1> QED BY <1>2, <1>3 DEF JobInv, Reported, Report, Missing, Unmatched, Mismatched

(* So do the job's own.                                                    *)
LEMMA JobStepKeeps ==
  ASSUME JobInv, ReconcileStep
  PROVE  JobInv'
<1> USE DEF Reported, Report
<1>1. ASSUME NEW r \in Refund PROVE Holds(r)' <=> Holds(r)
  BY DEF ReconcileStep, FileArrives, ReconcileRead, ReconcileMatch, vars, Holds
<1>2. ASSUME NEW row, StillSettled(row) PROVE StillSettled(row)'
  BY <1>2 DEF ReconcileStep, FileArrives, ReconcileRead, ReconcileMatch, vars, StillSettled, Row
<1>3. Issued' = Issued
  BY <1>1 DEF Issued
<1>4. ASSUME NEW file \in Files, FileArrives(file)
      PROVE  job' = [pc |-> "read", file |-> file, known |-> Issued, settled |-> {},
                     report |-> NoReport]
  BY <1>4 DEF FileArrives, NoJob
<1>5. ASSUME ReconcileRead
      PROVE  job' = [pc |-> "match", file |-> job.file, known |-> job.known,
                     settled |-> SettledRows, report |-> job.report]
  BY <1>5 DEF ReconcileRead, JobInv
<1>6. ASSUME ReconcileMatch
      PROVE  job' = [pc |-> "done", file |-> job.file, known |-> job.known,
                     settled |-> job.settled,
                     report |-> [settled_missing_from_file |-> Missing(job.settled, job.file),
                                 line_with_no_refund |-> Unmatched(job.settled, job.file),
                                 amount_mismatch |-> Mismatched(job.settled, job.file)]]
  BY <1>6 DEF ReconcileMatch, JobInv
<1>7. \A row \in SettledRows : StillSettled(row)
  BY DEF SettledRows, StillSettled
<1>8. CASE \E file \in Files : FileArrives(file)
  BY <1>3, <1>4, <1>8, FileType DEF JobInv
<1>9. CASE ReconcileRead
  BY <1>2, <1>3, <1>5, <1>7, <1>9 DEF JobInv
<1>10. CASE ReconcileMatch
  BY <1>2, <1>3, <1>6, <1>10 DEF JobInv, Missing, Unmatched, Mismatched
<1> QED BY <1>8, <1>9, <1>10 DEF ReconcileStep

(* What the job relies on always holds.                                    *)
THEOREM JobInvariant == ReconciledSpec => [](Engine /\ JobInv)
<1>1. ReconciledInit => JobInv
  BY DEF ReconciledInit, JobInv, NoJob, Reported
<1>2. ASSUME Engine, Engine', JobInv, [ReconciledNext]_<<vars, job>>
      PROVE  JobInv'
  <2>1. CASE ReconcileStep
    BY <1>2, <2>1, JobStepKeeps
  <2>2. CASE [Next]_vars /\ UNCHANGED job
    BY <1>2, <2>2, EngineKeepsJob
  <2> QED BY <1>2, <2>1, <2>2 DEF ReconciledNext
<1>3. Typed /\ EngineInv /\ GwBooks => Engine
  BY DEF Engine
<1> QED BY <1>1, <1>2, <1>3, JobOnlyReads, AlwaysTyped, EngineInvariant, Books, PTL
     DEF ReconciledSpec
-----------------------------------------------------------------------------
(* What a report means.                                                    *)

(* A reference belongs to one row.                                         *)
LEMMA OneRowPerRef ==
  ASSUME Engine, NEW q \in Refund, NEW r \in Refund,
         gateway_ref[q] = gateway_ref[r], gateway_ref[r] # NoRef
  PROVE  q = r
BY DEF Engine, EngineInv, RowInv, GwBooks, Holds

(* A truthful file raises only the alarms its own moment and the SELECT's  *)
(* explain.                                                                *)
THEOREM AlarmsExplained == ReconciledSpec => []AlarmsAreExplained
<1>1. ASSUME Engine, JobInv PROVE AlarmsAreExplained
  <2> SUFFICES ASSUME Reported, Honest(job.file, job.known)
               PROVE  /\ Report.settled_missing_from_file \cap job.known = {}
                      /\ Report.amount_mismatch = {}
                      /\ \A n \in DOMAIN job.file, r \in Refund :
                           gw_store[r] = job.file[n].gateway_ref =>
                             (n \in Report.line_with_no_refund <=> r \notin SettledIds)
    BY DEF AlarmsAreExplained
  <2>1. /\ Report.settled_missing_from_file = Missing(job.settled, job.file)
        /\ Report.line_with_no_refund = Unmatched(job.settled, job.file)
        /\ Report.amount_mismatch = Mismatched(job.settled, job.file)
    BY <1>1 DEF JobInv
  <2>2. ASSUME NEW row \in job.settled
        PROVE  \E r \in Refund : /\ row.id = r /\ row.gateway_ref = gw_store[r]
                                 /\ row.amount_cents = Amount[r] /\ Holds(r)
    <3>1. PICK r \in Refund : row = Row(r) /\ gateway_ref[r] # NoRef
      BY <1>1 DEF JobInv, StillSettled
    <3> QED BY <1>1, <3>1 DEF Row, Engine, EngineInv, RowInv, Holds
  <2>3. ASSUME NEW row \in job.settled, row.id \in job.known
        PROVE  row.gateway_ref \in Refs(job.file)
    BY <2>2, <2>3 DEF Honest
  <2>4. ASSUME NEW row \in job.settled, row.gateway_ref \in Refs(job.file)
        PROVE  FileByRef(job.file, row.gateway_ref).amount_cents = row.amount_cents
    <3>1. PICK r \in Refund : /\ row.gateway_ref = gw_store[r] /\ Holds(r)
                              /\ row.amount_cents = Amount[r]
      BY <2>2
    <3>2. PICK n \in DOMAIN job.file :
            /\ FileByRef(job.file, row.gateway_ref) = job.file[n]
            /\ job.file[n].gateway_ref = row.gateway_ref
      BY <1>1, <2>4, IndexFinds DEF JobInv
    <3>3. PICK q \in job.known :
            job.file[n] = [gateway_ref |-> gw_store[q], amount_cents |-> Amount[q]]
      BY DEF Honest
    <3>4. q \in Refund
      BY <1>1 DEF JobInv, Issued
    <3>5. q = r
      <4>1. gw_store[q] = gw_store[r]
        BY <3>1, <3>2, <3>3
      <4> QED BY <1>1, <3>1, <3>4, <4>1 DEF Engine, GwBooks
    <3> QED BY <3>1, <3>2, <3>3, <3>5
  <2>5. ASSUME NEW n \in DOMAIN job.file, NEW r \in Refund,
               gw_store[r] = job.file[n].gateway_ref
        PROVE  n \in Unmatched(job.settled, job.file) <=> r \notin SettledIds
    <3>1. ASSUME NEW row \in job.settled
          PROVE  row.gateway_ref = job.file[n].gateway_ref <=> row.id = r
      <4>1. PICK q \in Refund : row.id = q /\ row.gateway_ref = gw_store[q] /\ Holds(q)
        BY <2>2
      <4>2. gw_store[q] = gw_store[r] <=> q = r
        BY <1>1, <4>1 DEF Engine, GwBooks
      <4> QED BY <2>5, <4>1, <4>2
    <3> QED BY <3>1 DEF Unmatched, SettledIds
  <2> QED BY <2>1, <2>3, <2>4, <2>5 DEF Missing, Mismatched
<1> QED BY <1>1, JobInvariant, PTL

(* What is reported stays true of the row while finance reads it.          *)
THEOREM FlagsStand == ReconciledSpec => []FlagsOutliveTheRead
<1>1. ASSUME JobInv, Reported,
             NEW r \in Report.settled_missing_from_file \cup Report.amount_mismatch
      PROVE  status[r] = "settled" /\ Row(r) \in job.settled
  <2>1. PICK row \in job.settled : row.id = r
    BY <1>1 DEF JobInv, Missing, Mismatched
  <2>2. PICK q \in Refund : row = Row(q) /\ status[q] = "settled"
    BY <1>1 DEF JobInv, StillSettled
  <2>3. q = r
    BY <2>1, <2>2 DEF Row
  <2> QED BY <2>2, <2>3
<1>2. Engine /\ JobInv => FlagsOutliveTheRead
  BY <1>1 DEF FlagsOutliveTheRead
<1> QED BY <1>2, JobInvariant, PTL

(* An empty report means file and database agree, line by line and row by  *)
(* row.                                                                    *)
THEOREM CleanIsAgreed == ReconciledSpec => []CleanMeansAgreed
<1>1. ASSUME Engine, JobInv, Reported, Clean, NEW n \in DOMAIN job.file
      PROVE  \E r \in Refund :
               /\ {q \in Refund : gateway_ref[q] = job.file[n].gateway_ref} = {r}
               /\ status[r] = "settled"
               /\ LastLine(job.file, n) => job.file[n].amount_cents = Amount[r]
  <2>1. /\ Unmatched(job.settled, job.file) = {}
        /\ Mismatched(job.settled, job.file) = {}
    BY <1>1 DEF JobInv, Clean, NoReport
  <2>2. PICK row \in job.settled : row.gateway_ref = job.file[n].gateway_ref
    BY <1>1, <2>1 DEF Unmatched
  <2>3. PICK r \in Refund : row = Row(r) /\ status[r] = "settled" /\ gateway_ref[r] # NoRef
    BY <1>1 DEF JobInv, StillSettled
  <2>4. row.id = r /\ row.gateway_ref = gateway_ref[r] /\ row.amount_cents = Amount[r]
    BY <2>3 DEF Row
  <2>5. {q \in Refund : gateway_ref[q] = job.file[n].gateway_ref} = {r}
    BY <1>1, <2>2, <2>3, <2>4, OneRowPerRef
  <2>6. ASSUME LastLine(job.file, n)
        PROVE  job.file[n].amount_cents = Amount[r]
    <3>1. FileByRef(job.file, row.gateway_ref) = job.file[n]
      BY <1>1, <2>2, <2>6, IndexIsLast DEF JobInv
    <3>2. row.gateway_ref \in Refs(job.file)
      BY <1>1, <2>2 DEF Refs
    <3> QED BY <2>1, <2>4, <3>1, <3>2 DEF Mismatched
  <2> QED BY <2>3, <2>5, <2>6
<1>2. ASSUME Engine, JobInv, Reported, Clean, NEW row \in job.settled
      PROVE  \E n \in DOMAIN job.file :
               /\ LastLine(job.file, n)
               /\ job.file[n] = [gateway_ref |-> row.gateway_ref,
                                 amount_cents |-> row.amount_cents]
  <2>1. /\ Missing(job.settled, job.file) = {}
        /\ Mismatched(job.settled, job.file) = {}
    BY <1>2 DEF JobInv, Clean, NoReport
  <2>2. row.gateway_ref \in Refs(job.file)
    BY <2>1 DEF Missing
  <2>3. PICK n \in DOMAIN job.file :
          /\ FileByRef(job.file, row.gateway_ref) = job.file[n]
          /\ job.file[n].gateway_ref = row.gateway_ref /\ LastLine(job.file, n)
    BY <1>2, <2>2, IndexFinds DEF JobInv
  <2>4. job.file[n].amount_cents = row.amount_cents
    BY <2>1, <2>2, <2>3 DEF Mismatched
  <2>5. job.file[n] \in Line
    BY <1>2 DEF JobInv
  <2>6. job.file[n] = [gateway_ref |-> row.gateway_ref, amount_cents |-> row.amount_cents]
    BY <2>3, <2>4, <2>5 DEF Line
  <2> QED BY <2>3, <2>6
<1>3. Engine /\ JobInv => CleanMeansAgreed
  BY <1>1, <1>2 DEF CleanMeansAgreed
<1> QED BY <1>3, JobInvariant, PTL
=============================================================================
