------------------------------- MODULE Redact -------------------------------
(***************************************************************************)
(* redact_pan (src/redact.rs): walk a text, and wherever a card-shaped run *)
(* of digits starts, mask all of its digits but the last few.  The outer   *)
(* loop and scan_pan's inner one are an action per iteration.              *)
(*                                                                         *)
(* A character is what the code distinguishes: a digit, a separator (space *)
(* or hyphen), or anything else, of one byte or more.  Which digit it is   *)
(* follows from where it is, since nothing moves.                          *)
(***************************************************************************)
EXTENDS Integers, Sequences, FiniteSets

CONSTANTS
  Text,               \* the texts to redact
  MinPan, MaxPan,     \* how many digits a card number has: 13 to 19
  Keep                \* how many of them stay readable: 4

Char == {"digit", "sep", "other"}
Mask == "mask"        \* '*', which to a second pass is any other character

ASSUME RedactConstants ==
  /\ Text \subseteq Seq(Char)
  /\ MinPan \in Nat /\ MaxPan \in Nat /\ Keep \in Nat
  /\ 0 < Keep /\ Keep < MinPan /\ MinPan <= MaxPan

VARIABLES
  input, out,
  i,                  \* next character of input the outer loop looks at
  scan,               \* scan_pan's locals: its i, digits.len(), last_was_sep
  loop                \* "outer", "scan", or "done"

redactVars == <<input, out, i, scan, loop>>

NoScan == [at |-> 1, digits |-> 0, last_was_sep |-> FALSE]

RedactInit ==
  /\ input \in Text
  /\ out = <<>>
  /\ i = 1
  /\ scan = NoScan
  /\ loop = "outer"

Digits(s, a, b) == {k \in a..b : s[k] = "digit"}
CountDigits(s, a, b) == Cardinality(Digits(s, a, b))

\* (13..=19).contains(&len)
CardShaped(n) == n \in MinPan..MaxPan

\* Where the run ends: a separator behind its last digit is backed out.
RunEnd(sc) == IF sc.last_was_sep THEN sc.at - 1 ELSE sc.at

\* Broken variant: one digit fewer is kept.
KeepsFewer(a, b) ==
  [k \in 1..(b - a) |->
     IF /\ input[a + k - 1] = "digit"
        /\ CountDigits(input, a, a + k - 2) <= CountDigits(input, a, b - 1) - Keep
     THEN Mask ELSE input[a + k - 1]]

\* Broken variant: separators are masked like digits.
MasksSeparators(a, b) ==
  [k \in 1..(b - a) |->
     IF CountDigits(input, a, a + k - 2) < CountDigits(input, a, b - 1) - Keep
     THEN Mask ELSE input[a + k - 1]]

\* mask_keeping_last4 of input[a..b)
MaskKeepingLast(a, b) ==
  [k \in 1..(b - a) |->
     IF /\ input[a + k - 1] = "digit"
        /\ CountDigits(input, a, a + k - 2) < CountDigits(input, a, b - 1) - Keep
     THEN Mask ELSE input[a + k - 1]]

\* Broken variant: the outer loop forgets to step over what it copied.
CopyInPlace == /\ out' = out
               /\ i' = i

Copy == /\ out' = Append(out, input[i])
        /\ i' = i + 1

OuterCopy ==
  /\ loop = "outer"
  /\ i <= Len(input)
  /\ input[i] # "digit"
  /\ Copy
  /\ UNCHANGED <<input, scan, loop>>

ScanStart ==
  /\ loop = "outer"
  /\ i <= Len(input)
  /\ input[i] = "digit"
  /\ loop' = "scan"
  /\ scan' = [NoScan EXCEPT !.at = i]
  /\ UNCHANGED <<input, out, i>>

ScanDigit ==
  /\ loop = "scan"
  /\ scan.at <= Len(input)
  /\ input[scan.at] = "digit"
  /\ scan' = [at |-> scan.at + 1, digits |-> scan.digits + 1, last_was_sep |-> FALSE]
  /\ UNCHANGED <<input, out, i, loop>>

\* Broken variant: any number of separators in a row belongs to a run.
JoinsAnySeparators == scan.at <= Len(input) /\ input[scan.at] = "sep"

SeparatorJoins == /\ scan.at <= Len(input)
                  /\ input[scan.at] = "sep"
                  /\ ~scan.last_was_sep
                  /\ scan.digits > 0

ScanSeparator ==
  /\ loop = "scan"
  /\ SeparatorJoins
  /\ scan' = [scan EXCEPT !.at = @ + 1, !.last_was_sep = TRUE]
  /\ UNCHANGED <<input, out, i, loop>>

\* A run that is no card goes on from its second character.
ScanEnd ==
  LET end == RunEnd(scan) IN
  /\ loop = "scan"
  /\ scan.at <= Len(input) => input[scan.at] # "digit" /\ ~SeparatorJoins
  /\ loop' = "outer"
  /\ \/ /\ CardShaped(scan.digits)
        /\ out' = out \o MaskKeepingLast(i, end)
        /\ i' = end
     \/ /\ ~CardShaped(scan.digits)
        /\ Copy
  /\ scan' = NoScan
  /\ UNCHANGED input

Return ==
  /\ loop = "outer"
  /\ i > Len(input)
  /\ loop' = "done"
  /\ UNCHANGED <<input, out, i, scan>>

RedactStep == OuterCopy \/ ScanStart \/ ScanDigit \/ ScanSeparator \/ ScanEnd \/ Return

RedactNext == RedactStep \/ (loop = "done" /\ UNCHANGED redactVars)

RedactSpec == RedactInit /\ [][RedactNext]_redactVars

\* A loop that is running goes on: there is nothing it could wait for.
RedactFairSpec == RedactSpec /\ WF_redactVars(RedactStep)

\* Broken variant: the first digits are returned.
FirstDigits(s) ==
  LET digits == Digits(s, 1, Len(s)) IN
  IF CardShaped(Cardinality(digits))
  THEN {k \in digits : CountDigits(s, 1, k - 1) < Keep} ELSE {}

\* last4: the positions of the digits it returns, none if the text has too few
\* or too many digits, wherever they are.
Last4(s) ==
  LET digits == Digits(s, 1, Len(s)) IN
  IF CardShaped(Cardinality(digits))
  THEN {k \in digits : CountDigits(s, k + 1, Len(s)) < Keep} ELSE {}
-----------------------------------------------------------------------------
(* Digits a and b of a text are in one run: nothing but digits and single  *)
(* separators between them.                                                *)
SameRun(s, a, b) ==
  /\ \A k \in a..b : s[k] \in {"digit", "sep"}
  /\ \A k \in a..(b - 1) : ~(s[k] = "sep" /\ s[k + 1] = "sep")

Run(s, k) == {j \in Digits(s, 1, Len(s)) : SameRun(s, j, k) /\ SameRun(s, k, j)}

RunLength(s, k) == Cardinality(Run(s, k))

(* The text keeps its layout: whatever has been written is the text up to  *)
(* here, character by character, with some digits masked and nothing else  *)
(* changed, lost or said twice (redact.rs, mask_keeping_last4).            *)
LayoutIsKept ==
  /\ Len(out) = i - 1
  /\ \A k \in 1..(i - 1) : \/ out[k] = input[k]
                           \/ out[k] = Mask /\ input[k] = "digit"

(* What is masked: no digit of a run shorter than a card, and no run's     *)
(* last Keep; all others of a run of a card's length.  A longer run, which *)
(* is scanned again from its second digit on, ends in a card all the same, *)
(* and that is masked; of what stands before it nothing is promised        *)
(* (redact.rs, scan_pan).                                                  *)
RunsAreMasked ==
  loop = "done" =>
    \A k \in Digits(input, 1, Len(input)) :
      LET after == Cardinality({j \in Run(input, k) : j > k})
      IN  /\ RunLength(input, k) < MinPan \/ after < Keep => out[k] # Mask
          /\ RunLength(input, k) >= MinPan /\ after \in Keep..(MaxPan - 1) => out[k] = Mask

(* redact.rs, module comment: nothing may log a full PAN, and a PAN is a   *)
(* run of 13 to 19 digits.  What is copied of a longer run may be one.     *)
NoFullPan ==
  loop = "done" =>
    \A k \in Digits(out, 1, Len(out)) : ~CardShaped(RunLength(out, k))

(* Redacting twice redacts no more: no run of the result is card-shaped,   *)
(* unless it is what is left of the start of two cards in one run.         *)
OnePassSuffices ==
  loop = "done" =>
    \A k \in Digits(out, 1, Len(out)) :
      RunLength(input, k) < MinPan + MaxPan => RunLength(out, k) < MinPan

(* The two ways to shorten a card number agree: of a text that is one      *)
(* card-shaped run and no more digits, redact_pan leaves the digits last4  *)
(* returns.                                                                *)
AgreesWithLast4 ==
  loop = "done" =>
    \A k \in Digits(input, 1, Len(input)) :
      /\ Run(input, k) = Digits(input, 1, Len(input))
      /\ CardShaped(RunLength(input, k))
      => Digits(out, 1, Len(out)) = Last4(input)

(* redact_pan returns on every text: the outer loop always moves on.       *)
Terminates == <>(loop = "done")

\* A bound on the iterations that are left: none of the n - i + 1 the outer loop
\* still has costs scan_pan more than the rest of the text.
WorkLeft ==
  LET n == Len(input) IN
  IF loop = "done" THEN 0
  ELSE 1 + (n + 1 - i) * (n + 3) + (IF loop = "scan" THEN n + 1 - scan.at ELSE n + 2)

(* Every iteration of either loop leaves less to do, also where a run is   *)
(* scanned again from its second digit and where a separator is backed out *)
(* (redact.rs, scan_pan): the work is at most quadratic in the text.       *)
WorkShrinks == [][WorkLeft' \in Nat /\ WorkLeft' < WorkLeft]_redactVars
=============================================================================
