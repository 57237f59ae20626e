---------------------------- MODULE RedactProofs ----------------------------
(***************************************************************************)
(* redact_pan masks the right digits of every text, whatever the lengths   *)
(* of a card number are.  The induction is over the steps of the two       *)
(* loops; what they have to agree with, a reading of the whole text, is    *)
(* related to them by counting the digits of a run.                        *)
(***************************************************************************)
EXTENDS Redact, FiniteSetTheorems, TLAPS
-----------------------------------------------------------------------------
(* Counting digits.                                                        *)

(* The digits of a stretch of text are finitely many.                      *)
LEMMA DigitsFinite ==
  ASSUME NEW s, NEW a \in Int, NEW b \in Int
  PROVE  IsFiniteSet(Digits(s, a, b)) /\ CountDigits(s, a, b) \in Nat
<1>1. IsFiniteSet(a..b)
  BY FS_Interval
<1>2. Digits(s, a, b) \in SUBSET (a..b)
  BY DEF Digits
<1> QED BY <1>1, <1>2, FS_Subset, FS_CardinalityType DEF CountDigits

(* Two finite sets that share nothing count together.                      *)
LEMMA DisjointUnion ==
  ASSUME NEW S, NEW T, IsFiniteSet(S), IsFiniteSet(T), S \cap T = {}
  PROVE  /\ IsFiniteSet(S \cup T)
         /\ Cardinality(S \cup T) = Cardinality(S) + Cardinality(T)
         /\ Cardinality(S) \in Nat /\ Cardinality(T) \in Nat
<1>1. Cardinality(S) \in Nat /\ Cardinality(T) \in Nat
  BY FS_CardinalityType
<1>2. Cardinality(S \cap T) = 0
  BY FS_EmptySet
<1>3. Cardinality(S \cup T) = Cardinality(S) + Cardinality(T) - Cardinality(S \cap T)
  BY FS_Union
<1>4. Cardinality(S \cup T) = Cardinality(S) + Cardinality(T)
  BY <1>1, <1>2, <1>3
<1> QED BY <1>1, <1>4, FS_Union

(* A stretch can be counted in two parts.                                  *)
LEMMA DigitsSplit ==
  ASSUME NEW s, NEW a \in Int, NEW b \in Int, NEW c \in Int, a <= c, c <= b + 1
  PROVE  CountDigits(s, a, b) = CountDigits(s, a, c - 1) + CountDigits(s, c, b)
<1> DEFINE S == Digits(s, a, c - 1)
           T == Digits(s, c, b)
<1>1. Digits(s, a, b) = S \cup T
  BY DEF Digits
<1>2. S \cap T = {}
  BY DEF Digits
<1>3. IsFiniteSet(S) /\ IsFiniteSet(T)
  BY DigitsFinite
<1> HIDE DEF S, T
<1>4. Cardinality(S \cup T) = Cardinality(S) + Cardinality(T)
  BY <1>2, <1>3, DisjointUnion
<1> QED BY <1>1, <1>4 DEF CountDigits, S, T

(* One more character counts if it is a digit.                             *)
LEMMA DigitsOne ==
  ASSUME NEW s, NEW a \in Int
  PROVE  /\ CountDigits(s, a, a) = IF s[a] = "digit" THEN 1 ELSE 0
         /\ CountDigits(s, a, a - 1) = 0
<1>1. Digits(s, a, a) = IF s[a] = "digit" THEN {a} ELSE {}
  BY DEF Digits
<1>2. Digits(s, a, a - 1) = {}
  BY DEF Digits
<1> QED BY <1>1, <1>2, FS_Singleton, FS_EmptySet DEF CountDigits

(* A stretch within a stretch has no more digits.                          *)
LEMMA DigitsMonotone ==
  ASSUME NEW s, NEW a \in Int, NEW b \in Int, NEW c \in Int, NEW d \in Int, a <= c, d <= b
  PROVE  CountDigits(s, c, d) <= CountDigits(s, a, b)
<1>1. Digits(s, c, d) \in SUBSET Digits(s, a, b)
  BY DEF Digits
<1> QED BY <1>1, DigitsFinite, FS_Subset DEF CountDigits
-----------------------------------------------------------------------------
(* Runs.                                                                   *)

(* What lies within a run is a run.                                        *)
LEMMA SameRunWithin ==
  ASSUME NEW s, NEW a \in Int, NEW b \in Int, NEW c \in Int, NEW d \in Int,
         SameRun(s, a, b), a <= c, d <= b
  PROVE  SameRun(s, c, d)
BY DEF SameRun

(* Two runs with a character in common are one.                            *)
LEMMA SameRunJoined ==
  ASSUME NEW s, NEW a \in Int, NEW b \in Int, NEW c \in Int,
         SameRun(s, a, b), SameRun(s, b, c), a <= b, b <= c
  PROVE  SameRun(s, a, c)
<1>1. \A k \in a..c : s[k] \in {"digit", "sep"}
  <2> TAKE k \in a..c
  <2>1. k \in a..b \/ k \in b..c
    OBVIOUS
  <2> QED BY <2>1 DEF SameRun
<1>2. \A k \in a..(c - 1) : ~(s[k] = "sep" /\ s[k + 1] = "sep")
  <2> TAKE k \in a..(c - 1)
  <2>1. k \in a..(b - 1) \/ k \in b..(c - 1)
    OBVIOUS
  <2> QED BY <2>1 DEF SameRun
<1> QED BY <1>1, <1>2 DEF SameRun

(* A digit is in its own run, which is finite.                             *)
LEMMA RunFinite ==
  ASSUME NEW s, Len(s) \in Nat, NEW k \in Digits(s, 1, Len(s))
  PROVE  /\ k \in Run(s, k)
         /\ IsFiniteSet(Run(s, k))
         /\ RunLength(s, k) \in Nat
<1>1. k \in Run(s, k)
  BY DEF Run, SameRun, Digits
<1>2. Run(s, k) \in SUBSET Digits(s, 1, Len(s))
  BY DEF Run
<1>3. IsFiniteSet(Digits(s, 1, Len(s)))
  BY DigitsFinite
<1> QED BY <1>1, <1>2, <1>3, FS_Subset, FS_CardinalityType DEF RunLength

(* All digits of a run have that run for theirs.                           *)
LEMMA RunShared ==
  ASSUME NEW s, Len(s) \in Nat, NEW k \in Digits(s, 1, Len(s)), NEW j \in Run(s, k)
  PROVE  j \in Digits(s, 1, Len(s)) /\ Run(s, j) = Run(s, k)
<1>1. /\ j \in Digits(s, 1, Len(s)) /\ SameRun(s, j, k) /\ SameRun(s, k, j)
      /\ j \in Int /\ k \in Int
  BY DEF Run, Digits
<1>2. ASSUME NEW x \in Int, NEW y \in Int, NEW z \in Int,
             SameRun(s, x, y), SameRun(s, y, x), SameRun(s, y, z), SameRun(s, z, y)
      PROVE  SameRun(s, x, z)
  <2>1. CASE x <= y /\ y <= z
    BY <2>1, <1>2, SameRunJoined
  <2>2. CASE y <= x
    BY <2>2, <1>2, SameRunWithin
  <2>3. CASE z <= y
    BY <2>3, <1>2, SameRunWithin
  <2> QED BY <2>1, <2>2, <2>3
<1>3. ASSUME NEW x \in Digits(s, 1, Len(s))
      PROVE  x \in Run(s, j) <=> x \in Run(s, k)
  <2>1. x \in Int
    BY DEF Digits
  <2> QED BY <1>1, <1>2, <2>1 DEF Run
<1> QED BY <1>1, <1>3 DEF Run

Before(s, k, i0) == {j \in Run(s, k) : j < i0}
From(s, k, i0) == {j \in Run(s, k) : j >= i0}

(* The digits of a run lie before a place or from there on.                *)
LEMMA RunSplit ==
  ASSUME NEW s, Len(s) \in Nat, NEW k \in Digits(s, 1, Len(s)), NEW i0 \in Int
  PROVE  /\ RunLength(s, k) = Cardinality(Before(s, k, i0)) + Cardinality(From(s, k, i0))
         /\ IsFiniteSet(Before(s, k, i0)) /\ Cardinality(Before(s, k, i0)) \in Nat
         /\ IsFiniteSet(From(s, k, i0)) /\ Cardinality(From(s, k, i0)) \in Nat
<1>1. Run(s, k) = Before(s, k, i0) \cup From(s, k, i0)
  BY DEF Before, From, Run, Digits
<1>2. Before(s, k, i0) \cap From(s, k, i0) = {}
  BY DEF Before, From, Run, Digits
<1>3. IsFiniteSet(Before(s, k, i0)) /\ IsFiniteSet(From(s, k, i0))
  BY RunFinite, FS_Subset DEF Before, From
<1> QED BY <1>1, <1>2, <1>3, DisjointUnion, Zenon DEF RunLength

(* Where a run cannot be continued, its digits from one on are those up to *)
(* there.                                                                  *)
LEMMA RunEnds ==
  ASSUME NEW s, Len(s) \in Nat, NEW a \in Digits(s, 1, Len(s)), NEW b \in Int,
         a <= b, b <= Len(s), SameRun(s, a, b),
         \A k \in Digits(s, b + 1, Len(s)) : ~SameRun(s, a, k),
         NEW k \in Digits(s, a, b)
  PROVE  /\ k \in Digits(s, 1, Len(s))
         /\ Run(s, k) = Run(s, a)
         /\ From(s, k, a) = Digits(s, a, b)
         /\ From(s, k, k + 1) = Digits(s, k + 1, b)
<1>1. /\ a \in Int /\ k \in Int /\ a <= k /\ k <= b
      /\ k \in Digits(s, 1, Len(s))
  BY DEF Digits
<1>2. \A j \in Digits(s, a, b) : j \in Run(s, a)
  <2> TAKE j \in Digits(s, a, b)
  <2>1. j \in Int /\ a <= j /\ j <= b /\ j \in Digits(s, 1, Len(s))
    BY <1>1 DEF Digits
  <2>2. SameRun(s, a, j)
    BY <1>1, <2>1, SameRunWithin
  <2>3. SameRun(s, j, a)
    BY <1>1, <2>1, <2>2, SameRunWithin DEF SameRun, Digits
  <2> QED BY <2>1, <2>2, <2>3 DEF Run
<1>3. Run(s, k) = Run(s, a)
  BY <1>2, RunShared
<1>4. \A j \in Run(s, a) : j >= a => j \in Digits(s, a, b)
  <2> TAKE j \in Run(s, a)
  <2>1. j \in Digits(s, 1, Len(s)) /\ SameRun(s, a, j) /\ j \in Int
    BY DEF Run, Digits
  <2>2. j \notin Digits(s, b + 1, Len(s))
    BY <2>1
  <2> QED BY <1>1, <2>1, <2>2 DEF Digits
<1>5. ASSUME NEW c \in Int, a <= c
      PROVE  From(s, k, c) = Digits(s, c, b)
  <2>1. \A j \in Digits(s, c, b) : j \in Digits(s, a, b) /\ j >= c
    BY <1>1, <1>5 DEF Digits
  <2>2. \A j \in Run(s, a) : j >= c => j \in Digits(s, c, b)
    BY <1>1, <1>4, <1>5 DEF Run, Digits
  <2> QED BY <1>2, <1>3, <2>1, <2>2 DEF From
<1>6. From(s, k, k + 1) = Digits(s, k + 1, b)
  BY <1>1, <1>5
<1> QED BY <1>1, <1>3, <1>5, <1>6
-----------------------------------------------------------------------------
(* The inductive invariant.                                                *)

RedactTyped ==
  /\ input \in Seq(Char)
  /\ out \in Seq(Char \cup {Mask})
  /\ i \in 1..(Len(input) + 1)
  /\ scan \in [at : 1..(Len(input) + 1), digits : Nat, last_was_sep : BOOLEAN]
  /\ loop \in {"outer", "scan", "done"}
  /\ loop = "done" => i = Len(input) + 1

(* What scan_pan has read since i is a run that begins with a digit, and   *)
(* its locals describe it.                                                 *)
ScanInv ==
  loop = "scan" =>
    /\ i <= Len(input) /\ input[i] = "digit"
    /\ i <= scan.at
    /\ SameRun(input, i, scan.at - 1)
    /\ scan.digits = CountDigits(input, i, scan.at - 1)
    /\ IF scan.last_was_sep
       THEN i < scan.at - 1 /\ input[scan.at - 1] = "sep" /\ input[scan.at - 2] = "digit"
       ELSE i < scan.at => input[scan.at - 1] = "digit"

(* Which digits the loops mask, exactly: RunsAreMasked asks for less, as   *)
(* what they leave of the start of a long run is no promise.               *)
Wanted(s, k) ==
  LET before == Cardinality({j \in Run(s, k) : j < k})
      after == Cardinality({j \in Run(s, k) : j > k})
  IN  /\ before + after + 1 >= MinPan
      /\ after < MaxPan
      /\ after >= Keep

MaskInv == \A k \in Digits(input, 1, i - 1) : out[k] = Mask <=> Wanted(input, k)

(* A run the loop is already in the middle of is too short for a card, or  *)
(* still has a whole card ahead: the loop never steps over the start of a  *)
(* card.                                                                   *)
AheadInv ==
  \A k \in Digits(input, i, Len(input)) :
    (\E j \in Digits(input, 1, i - 1) : SameRun(input, j, k)) =>
      \/ RunLength(input, k) < MinPan
      \/ Cardinality(From(input, k, i)) >= MaxPan

RedactInv ==
  /\ RedactTyped
  /\ LayoutIsKept
  /\ ScanInv
  /\ MaskInv
  /\ AheadInv

(* Wanted, counted from the digit on.                                      *)
LEMMA WantedAhead ==
  ASSUME RedactTyped, NEW k \in Digits(input, 1, Len(input))
  PROVE  /\ Wanted(input, k) <=> /\ RunLength(input, k) >= MinPan
                          /\ Cardinality(From(input, k, k + 1)) < MaxPan
                          /\ Cardinality(From(input, k, k + 1)) >= Keep
         /\ Cardinality(From(input, k, k)) = Cardinality(From(input, k, k + 1)) + 1
         /\ Cardinality(From(input, k, k + 1)) \in Nat
         /\ RunLength(input, k) = Cardinality(Before(input, k, k)) + Cardinality(From(input, k, k))
<1> DEFINE n == Len(input)
           F == From(input, k, k + 1)
<1>1. n \in Nat /\ k \in Int /\ k + 1 \in Int
  BY DEF RedactTyped, Digits
<1>2. k \in Run(input, k)
  BY <1>1, RunFinite
<1>3. IsFiniteSet(F) /\ Cardinality(F) \in Nat
  BY <1>1, RunSplit
<1>4. From(input, k, k) = F \cup {k} /\ k \notin F
  BY <1>1, <1>2 DEF From, Run, Digits
<1>5. Cardinality(F \cup {k}) = Cardinality(F) + 1
  <2> HIDE DEF F
  <2> QED BY <1>3, <1>4, FS_AddElement
<1>6. RunLength(input, k) = Cardinality(Before(input, k, k)) + Cardinality(From(input, k, k))
  BY <1>1, RunSplit
<1>7. Cardinality(Before(input, k, k)) \in Nat
  BY <1>1, RunSplit
<1>8. {j \in Run(input, k) : j > k} = F
  BY <1>1 DEF From, Run, Digits
<1>9. {j \in Run(input, k) : j < k} = Before(input, k, k)
  BY DEF Before
<1>10. Wanted(input, k) <=> /\ Cardinality(Before(input, k, k)) + Cardinality(F) + 1 >= MinPan
                     /\ Cardinality(F) < MaxPan
                     /\ Cardinality(F) >= Keep
  BY <1>8, <1>9 DEF Wanted
<1> HIDE DEF F
<1>11. Cardinality(From(input, k, k)) = Cardinality(F) + 1
  BY <1>4, <1>5
<1>12. Cardinality(Before(input, k, k)) + Cardinality(F) + 1 = RunLength(input, k)
  BY <1>3, <1>6, <1>7, <1>11
<1> QED BY <1>3, <1>6, <1>10, <1>11, <1>12 DEF F

(* Where scan_pan stops the run is over: it has read the run from i on, up *)
(* to its last digit.                                                      *)
LEMMA ScanReadsTheRun ==
  ASSUME RedactTyped, ScanInv, ScanEnd
  PROVE  LET b == RunEnd(scan) - 1 IN
         /\ b \in Int /\ i <= b /\ b <= Len(input)
         /\ i \in Digits(input, 1, Len(input))
         /\ SameRun(input, i, b)
         /\ scan.digits = CountDigits(input, i, b)
         /\ \A k \in Digits(input, b + 1, Len(input)) : ~SameRun(input, i, k)
<1> DEFINE b == RunEnd(scan) - 1
           n == Len(input)
<1>1. /\ n \in Nat /\ i \in 1..n /\ input[i] = "digit" /\ scan.at \in i..(n + 1)
      /\ scan.digits \in Nat /\ scan.last_was_sep \in BOOLEAN
  BY DEF RedactTyped, ScanInv, ScanEnd
<1>2. i \in Digits(input, 1, n)
  BY <1>1 DEF Digits
<1>3. scan.at <= n => input[scan.at] # "digit" /\ ~SeparatorJoins
  BY DEF ScanEnd
<1>4. i < scan.at
  BY <1>1, <1>3
<1>5. /\ SameRun(input, i, scan.at - 1)
      /\ scan.digits = CountDigits(input, i, scan.at - 1)
  BY DEF ScanInv, ScanEnd
<1>6. scan.digits > 0
  <2>1. CountDigits(input, i, i) = 1
    BY <1>1, DigitsOne
  <2>2. CountDigits(input, i, i) <= CountDigits(input, i, scan.at - 1)
    BY <1>1, <1>4, DigitsMonotone
  <2> QED BY <1>1, <1>5, <2>1, <2>2
<1>7. CASE ~scan.last_was_sep
  <2>1. b = scan.at - 1
    BY <1>7 DEF RunEnd
  <2>2. scan.at <= n => input[scan.at] \notin {"digit", "sep"}
    BY <1>3, <1>6, <1>7 DEF SeparatorJoins
  <2>3. ASSUME NEW k \in Digits(input, b + 1, n) PROVE ~SameRun(input, i, k)
    <3>1. k \in Int /\ scan.at <= k /\ k <= n
      BY <1>1, <2>1 DEF Digits
    <3>2. scan.at \in i..k /\ scan.at <= n
      BY <1>1, <3>1
    <3> QED BY <2>2, <3>2 DEF SameRun
  <2> HIDE DEF b
  <2> QED BY <1>1, <1>2, <1>4, <1>5, <2>1, <2>3 DEF b
<1>8. CASE scan.last_was_sep
  <2>1. b = scan.at - 2
    BY <1>1, <1>8 DEF RunEnd
  <2>2. i < scan.at - 1 /\ input[scan.at - 1] = "sep"
    BY <1>8 DEF ScanInv, ScanEnd
  <2>3. SameRun(input, i, b)
    BY <1>1, <1>5, <2>1, SameRunWithin
  <2>4. scan.digits = CountDigits(input, i, b)
    <3> DEFINE c == scan.at - 1
    <3>1. c \in Int /\ i <= c /\ b = c - 1 /\ input[c] = "sep" /\ b \in Int
      BY <1>1, <2>1, <2>2
    <3>2. scan.digits = CountDigits(input, i, c)
      BY <1>5
    <3> HIDE DEF c, b
    <3>3. CountDigits(input, i, c) = CountDigits(input, i, c - 1) + CountDigits(input, c, c)
      BY <1>1, <3>1, DigitsSplit
    <3>4. CountDigits(input, c, c) = 0
      BY <3>1, DigitsOne
    <3>5. CountDigits(input, i, b) \in Nat
      BY <1>1, <3>1, DigitsFinite
    <3> QED BY <3>1, <3>2, <3>3, <3>4, <3>5
  <2>5. ASSUME NEW k \in Digits(input, b + 1, n) PROVE ~SameRun(input, i, k)
    <3>1. k \in Int /\ scan.at - 1 <= k /\ k <= n /\ input[k] = "digit"
      BY <1>1, <2>1 DEF Digits
    <3>2. scan.at - 1 # k
      BY <2>2, <3>1
    <3>3. scan.at <= n /\ scan.at \in i..k /\ scan.at - 1 \in i..(k - 1)
      BY <1>1, <2>2, <3>1, <3>2
    <3>4. input[scan.at] # "digit"
      BY <1>3, <3>3
    <3>5. SUFFICES ASSUME SameRun(input, i, k) PROVE FALSE
      OBVIOUS
    <3>6. input[scan.at] = "sep"
      BY <3>3, <3>4, <3>5 DEF SameRun
    <3>7. ~(input[scan.at - 1] = "sep" /\ input[(scan.at - 1) + 1] = "sep")
      BY <3>3, <3>5 DEF SameRun
    <3> QED BY <1>1, <2>2, <3>6, <3>7
  <2> HIDE DEF b
  <2> QED BY <1>1, <1>2, <2>1, <2>2, <2>3, <2>4, <2>5 DEF b
<1> QED BY <1>7, <1>8

(* A digit in a stretch that ends a run, and how many digits follow it.    *)
LEMMA DigitInStretch ==
  ASSUME RedactTyped, ScanInv, ScanEnd, NEW k \in Digits(input, i, RunEnd(scan) - 1)
  PROVE  LET b == RunEnd(scan) - 1
             before == CountDigits(input, i, k - 1)
             after == Cardinality(From(input, k, k + 1))
         IN  /\ k \in Digits(input, 1, Len(input))
             /\ From(input, k, i) = Digits(input, i, b)
             /\ From(input, k, k + 1) = Digits(input, k + 1, b)
             /\ Run(input, k) = Run(input, i)
             /\ before \in Nat /\ after \in Nat
             /\ scan.digits = before + 1 + after
             /\ scan.digits <= RunLength(input, k) /\ RunLength(input, k) \in Nat
<1> DEFINE b == RunEnd(scan) - 1
           before == CountDigits(input, i, k - 1)
           after == Cardinality(From(input, k, k + 1))
<1>1. /\ b \in Int /\ i <= b /\ b <= Len(input)
      /\ i \in Digits(input, 1, Len(input))
      /\ SameRun(input, i, b)
      /\ scan.digits = CountDigits(input, i, b)
      /\ \A q \in Digits(input, b + 1, Len(input)) : ~SameRun(input, i, q)
  BY ScanReadsTheRun
<1>2. /\ Len(input) \in Nat /\ i \in Int /\ k \in Int /\ k - 1 \in Int /\ k + 1 \in Int
      /\ i <= k /\ k <= b /\ input[k] = "digit"
  BY <1>1 DEF RedactTyped, Digits
<1> HIDE DEF b
<1>3. k \in Digits(input, i, b)
  BY DEF b
<1>4. /\ k \in Digits(input, 1, Len(input))
      /\ Run(input, k) = Run(input, i)
      /\ From(input, k, i) = Digits(input, i, b)
      /\ From(input, k, k + 1) = Digits(input, k + 1, b)
  BY <1>1, <1>2, <1>3, RunEnds
<1>5. after = CountDigits(input, k + 1, b)
  BY <1>4 DEF CountDigits
<1>6. before \in Nat /\ after \in Nat
  BY <1>1, <1>2, <1>5, DigitsFinite
<1>7. scan.digits = before + 1 + after
  <2>1. CountDigits(input, i, b) = CountDigits(input, i, k - 1) + CountDigits(input, k, b)
    BY <1>1, <1>2, DigitsSplit
  <2>2. CountDigits(input, k, b) = CountDigits(input, k, (k + 1) - 1) + CountDigits(input, k + 1, b)
    BY <1>1, <1>2, DigitsSplit
  <2>3. CountDigits(input, k, (k + 1) - 1) = 1
    BY <1>2, DigitsOne
  <2> HIDE DEF after, before
  <2> QED BY <1>1, <1>5, <1>6, <2>1, <2>2, <2>3 DEF before
<1>8. scan.digits <= RunLength(input, k) /\ RunLength(input, k) \in Nat
  <2>1. scan.digits = Cardinality(From(input, k, i))
    BY <1>1, <1>4 DEF CountDigits
  <2>2. /\ RunLength(input, k) = Cardinality(Before(input, k, i)) + Cardinality(From(input, k, i))
        /\ Cardinality(Before(input, k, i)) \in Nat /\ Cardinality(From(input, k, i)) \in Nat
    BY <1>2, <1>4, RunSplit
  <2> QED BY <2>1, <2>2
<1> QED BY <1>4, <1>6, <1>7, <1>8 DEF b

(* In a card the digits with at least Keep behind them are masked.         *)
LEMMA CardIsMasked ==
  ASSUME RedactTyped, ScanInv, ScanEnd, CardShaped(scan.digits),
         NEW k \in Digits(input, i, RunEnd(scan) - 1)
  PROVE  MaskKeepingLast(i, RunEnd(scan))[k - i + 1] = Mask <=> Wanted(input, k)
<1> DEFINE end == RunEnd(scan)
           before == CountDigits(input, i, k - 1)
           after == Cardinality(From(input, k, k + 1))
<1>1. /\ k \in Digits(input, 1, Len(input))
      /\ before \in Nat /\ after \in Nat
      /\ scan.digits = before + 1 + after
      /\ scan.digits <= RunLength(input, k) /\ RunLength(input, k) \in Nat
  BY DigitInStretch
<1>2. scan.digits = CountDigits(input, i, end - 1) /\ end \in Int
  BY ScanReadsTheRun DEF RunEnd, RedactTyped
<1>3. /\ i \in Int /\ k \in Int /\ i <= k /\ k <= end - 1 /\ input[k] = "digit"
  BY <1>2 DEF RedactTyped, Digits
<1>4. Wanted(input, k) <=> /\ RunLength(input, k) >= MinPan
                           /\ after < MaxPan
                           /\ after >= Keep
  BY <1>1, WantedAhead
<1>5. /\ k - i + 1 \in 1..(end - i) /\ i + (k - i + 1) - 1 = k /\ i + (k - i + 1) - 2 = k - 1
  BY <1>2, <1>3
<1>6. MaskKeepingLast(i, end)[k - i + 1]
        = IF before < scan.digits - Keep THEN Mask ELSE "digit"
  <2> HIDE DEF end
  <2> QED BY <1>2, <1>3, <1>5 DEF MaskKeepingLast
<1>7. scan.digits \in MinPan..MaxPan
  BY DEF CardShaped
<1> HIDE DEF before, after, end
<1>8. before < scan.digits - Keep <=> Wanted(input, k)
  BY <1>1, <1>4, <1>7, RedactConstants
<1> QED BY <1>6, <1>8 DEF end, Mask

(* The first digit of what is no card is not to be masked, and the run it  *)
(* is in goes on as AheadInv says.                                         *)
LEMMA NoCardGoesOn ==
  ASSUME RedactTyped, ScanInv, AheadInv, ScanEnd, ~CardShaped(scan.digits)
  PROVE  /\ ~Wanted(input, i)
         /\ \/ RunLength(input, i) < MinPan
            \/ Cardinality(From(input, i, i + 1)) >= MaxPan
<1> DEFINE after == Cardinality(From(input, i, i + 1))
<1>1. /\ i \in Digits(input, i, RunEnd(scan) - 1) /\ i \in Digits(input, 1, Len(input))
      /\ i \in Digits(input, i, Len(input))
  BY ScanReadsTheRun DEF Digits
<1>2. i \in Int /\ CountDigits(input, i, i - 1) = 0
  <2>1. i \in Int
    BY DEF RedactTyped
  <2> QED BY <2>1, DigitsOne
<1>3. /\ after \in Nat /\ scan.digits = after + 1
      /\ scan.digits <= RunLength(input, i) /\ RunLength(input, i) \in Nat
  BY <1>1, <1>2, DigitInStretch
<1>4. Cardinality(From(input, i, i)) = scan.digits
  BY <1>1, <1>3, WantedAhead
<1>5. RunLength(input, i) < MinPan \/ scan.digits > MaxPan
  <2>1. CASE Before(input, i, i) = {}
    <3>1. Cardinality(Before(input, i, i)) = 0
      BY <2>1, FS_EmptySet
    <3>2. RunLength(input, i) = Cardinality(Before(input, i, i)) + Cardinality(From(input, i, i))
      BY <1>1, WantedAhead
    <3> QED BY <1>3, <1>4, <3>1, <3>2, RedactConstants DEF CardShaped
  <2>2. CASE Before(input, i, i) # {}
    <3>1. PICK j \in Before(input, i, i) : TRUE
      BY <2>2
    <3>2. j \in Digits(input, 1, i - 1) /\ SameRun(input, j, i)
      BY <1>2, <3>1 DEF Before, Run, Digits
    <3>3. RunLength(input, i) < MinPan \/ scan.digits >= MaxPan
      BY <1>1, <1>4, <3>2 DEF AheadInv
    <3> QED BY <1>3, <3>3, RedactConstants DEF CardShaped
  <2> QED BY <2>1, <2>2
<1>6. Wanted(input, i) => RunLength(input, i) >= MinPan /\ after < MaxPan
  BY <1>1, WantedAhead
<1> HIDE DEF after
<1>7. RunLength(input, i) < MinPan \/ after >= MaxPan
  BY <1>3, <1>5, RedactConstants
<1>8. ~Wanted(input, i)
  BY <1>3, <1>6, <1>7, RedactConstants
<1> QED BY <1>7, <1>8 DEF after
-----------------------------------------------------------------------------
(* Each step keeps the invariant.                                          *)

(* Copying a character that is not to be masked.                           *)
LEMMA CopyKeeps ==
  ASSUME RedactTyped, LayoutIsKept, MaskInv, i <= Len(input), Copy, UNCHANGED input,
         input[i] = "digit" => ~Wanted(input, i),
         loop' = "outer",
         scan' \in [at : 1..(Len(input) + 1), digits : Nat, last_was_sep : BOOLEAN]
  PROVE  RedactTyped' /\ LayoutIsKept' /\ MaskInv'
<1>1. /\ Len(input) \in Nat /\ i \in 1..Len(input) /\ input[i] \in Char
      /\ out' = Append(out, input[i]) /\ i' = i + 1 /\ input' = input
  BY DEF RedactTyped, Copy
<1>2. RedactTyped'
  BY <1>1 DEF RedactTyped
<1>3. Len(out') = i /\ Len(out) = i - 1 /\ out'[i] = input[i]
  BY <1>1 DEF RedactTyped, LayoutIsKept
<1>4. \A k \in 1..(i - 1) : out'[k] = out[k]
  BY <1>1, <1>3 DEF RedactTyped
<1>5. LayoutIsKept'
  <2>1. ASSUME NEW k \in 1..i
        PROVE  out'[k] = input[k] \/ (out'[k] = Mask /\ input[k] = "digit")
    <3>1. CASE k = i
      BY <1>3, <3>1
    <3>2. CASE k # i
      BY <1>1, <1>4, <3>2 DEF LayoutIsKept
    <3> QED BY <3>1, <3>2
  <2> QED BY <1>1, <1>3, <2>1 DEF LayoutIsKept
<1>6. ASSUME NEW k \in Digits(input, 1, i) PROVE out'[k] = Mask <=> Wanted(input, k)
  <2>1. CASE k = i
    BY <1>3, <2>1 DEF Digits, Mask
  <2>2. CASE k # i
    <3>1. k \in Digits(input, 1, i - 1) /\ k \in 1..(i - 1)
      BY <1>1, <2>2 DEF Digits
    <3> QED BY <1>4, <3>1 DEF MaskInv
  <2> QED BY <2>1, <2>2
<1>7. MaskInv'
  <2>1. i' - 1 = i /\ input' = input
    BY <1>1
  <2> QED BY <1>6, <2>1, Zenon DEF MaskInv
<1> QED BY <1>2, <1>5, <1>7

(* What is no digit is copied, and ends no run.                            *)
LEMMA OuterCopyKeeps ==
  ASSUME RedactInv, OuterCopy
  PROVE  RedactInv'
<1> USE DEF RedactInv
<1>1. /\ Len(input) \in Nat /\ i \in 1..Len(input) /\ input[i] # "digit"
      /\ Copy /\ i' = i + 1 /\ UNCHANGED <<input, scan, loop>> /\ loop = "outer"
  BY DEF RedactTyped, OuterCopy, Copy
<1>2. RedactTyped' /\ LayoutIsKept' /\ MaskInv'
  BY <1>1, CopyKeeps DEF RedactTyped
<1>3. ScanInv'
  BY <1>1 DEF ScanInv
<1>4. ASSUME NEW k \in Digits(input, i + 1, Len(input)), NEW j \in Digits(input, 1, i),
             SameRun(input, j, k)
      PROVE  RunLength(input, k) < MinPan \/ Cardinality(From(input, k, i + 1)) >= MaxPan
  <2>1. k \in Digits(input, i, Len(input)) /\ j \in Digits(input, 1, i - 1)
    BY <1>1 DEF Digits
  <2>2. From(input, k, i + 1) = From(input, k, i)
    BY <1>1 DEF From, Run, Digits
  <2> QED BY <1>4, <2>1, <2>2 DEF AheadInv
<1>5. AheadInv'
  BY <1>1, <1>4 DEF AheadInv
<1> QED BY <1>2, <1>3, <1>5

(* A scan begins at a digit, with nothing read.                            *)
LEMMA ScanStartKeeps ==
  ASSUME RedactInv, ScanStart
  PROVE  RedactInv'
<1> USE DEF RedactInv
<1>1. /\ Len(input) \in Nat /\ i \in 1..Len(input) /\ input[i] = "digit"
      /\ UNCHANGED <<input, out, i>> /\ loop' = "scan"
      /\ scan' = [at |-> i, digits |-> 0, last_was_sep |-> FALSE]
  <2>1. scan' = [at |-> i, digits |-> 0, last_was_sep |-> FALSE]
    BY DEF ScanStart, NoScan
  <2>2. i <= Len(input) /\ input[i] = "digit" /\ loop' = "scan" /\ UNCHANGED <<input, out, i>>
    BY DEF ScanStart
  <2>3. Len(input) \in Nat /\ i \in 1..(Len(input) + 1)
    BY DEF RedactTyped
  <2> QED BY <2>1, <2>2, <2>3
<1>2. RedactTyped'
  BY <1>1 DEF RedactTyped
<1>3. CountDigits(input, i, i - 1) = 0 /\ SameRun(input, i, i - 1)
  <2>1. i \in Int
    BY <1>1
  <2> QED BY <2>1, DigitsOne DEF SameRun
<1>4. ScanInv'
  BY <1>1, <1>3 DEF ScanInv
<1>5. LayoutIsKept' /\ MaskInv' /\ AheadInv'
  BY <1>1 DEF LayoutIsKept, MaskInv, AheadInv
<1> QED BY <1>2, <1>4, <1>5

(* One more character of the run.                                          *)
LEMMA ScanOnKeeps ==
  ASSUME RedactInv, ScanDigit \/ ScanSeparator
  PROVE  RedactInv'
<1> USE DEF RedactInv
<1> DEFINE c == scan.at
<1>1. /\ Len(input) \in Nat /\ loop = "scan"
      /\ c \in 1..Len(input) /\ c \in Int /\ scan.digits \in Nat
      /\ input[c] \in {"digit", "sep"}
      /\ UNCHANGED <<input, out, i, loop>>
      /\ scan' = IF input[c] = "digit"
                 THEN [at |-> c + 1, digits |-> scan.digits + 1, last_was_sep |-> FALSE]
                 ELSE [at |-> c + 1, digits |-> scan.digits, last_was_sep |-> TRUE]
      /\ input[c] = "sep" => ~scan.last_was_sep /\ scan.digits > 0
  <2>1. /\ scan = [at |-> c, digits |-> scan.digits, last_was_sep |-> scan.last_was_sep]
        /\ Len(input) \in Nat /\ c \in 1..(Len(input) + 1) /\ scan.digits \in Nat
    BY DEF RedactTyped
  <2>2. CASE ScanDigit
    BY <2>1, <2>2 DEF ScanDigit
  <2>3. CASE ScanSeparator
    <3>1. scan' = [at |-> c + 1, digits |-> scan.digits, last_was_sep |-> TRUE]
      BY <2>1, <2>3 DEF ScanSeparator
    <3>2. /\ loop = "scan" /\ c <= Len(input) /\ input[c] = "sep"
          /\ ~scan.last_was_sep /\ scan.digits > 0 /\ UNCHANGED <<input, out, i, loop>>
      BY <2>3 DEF ScanSeparator, SeparatorJoins
    <3> HIDE DEF c
    <3> QED BY <2>1, <3>1, <3>2
  <2> QED BY <2>2, <2>3
<1>2. /\ i \in 1..Len(input) /\ input[i] = "digit" /\ i <= c
      /\ SameRun(input, i, c - 1)
      /\ scan.digits = CountDigits(input, i, c - 1)
  BY <1>1 DEF ScanInv, RedactTyped
<1>3. RedactTyped'
  BY <1>1 DEF RedactTyped
<1>4. input[c] = "sep" => i < c /\ input[c - 1] = "digit"
  <2> HAVE input[c] = "sep"
  <2>1. i < c
    BY <1>1, <1>2
  <2> QED BY <1>1, <2>1 DEF ScanInv, RedactTyped
<1>5. SameRun(input, i, c)
  <2>1. \A k \in i..c : input[k] \in {"digit", "sep"}
    BY <1>1, <1>2 DEF SameRun
  <2>2. ASSUME NEW k \in i..(c - 1), input[k] = "sep", input[k + 1] = "sep" PROVE FALSE
    <3>1. CASE k = c - 1
      BY <1>1, <1>4, <2>2, <3>1
    <3>2. CASE k # c - 1
      BY <1>1, <1>2, <2>2, <3>2 DEF SameRun
    <3> QED BY <3>1, <3>2
  <2> QED BY <2>1, <2>2 DEF SameRun
<1>6. scan'.digits = CountDigits(input, i, c)
  <2>1. CountDigits(input, i, c) = CountDigits(input, i, c - 1) + CountDigits(input, c, c)
    BY <1>1, <1>2, DigitsSplit
  <2>2. CountDigits(input, c, c) = IF input[c] = "digit" THEN 1 ELSE 0
    BY <1>1, DigitsOne
  <2> HIDE DEF c
  <2> QED BY <1>1, <1>2, <2>1, <2>2 DEF c
<1>7. ScanInv'
  <2>1. scan'.at = c + 1 /\ scan'.at - 1 = c /\ scan'.at - 2 = c - 1
    BY <1>1
  <2>2. scan'.last_was_sep = (input[c] # "digit")
    BY <1>1
  <2>3. /\ i' = i /\ input' = input
        /\ SameRun(input', i', scan'.at - 1)
        /\ scan'.digits = CountDigits(input', i', scan'.at - 1)
    BY <1>1, <1>5, <1>6, <2>1
  <2> HIDE DEF c
  <2>4. IF scan'.last_was_sep
        THEN i' < scan'.at - 1 /\ input'[scan'.at - 1] = "sep" /\ input'[scan'.at - 2] = "digit"
        ELSE i' < scan'.at => input'[scan'.at - 1] = "digit"
    BY <1>1, <1>4, <2>1, <2>2, <2>3
  <2> QED BY <1>1, <1>2, <2>1, <2>3, <2>4 DEF ScanInv, c
<1>8. LayoutIsKept' /\ MaskInv' /\ AheadInv'
  BY <1>1 DEF LayoutIsKept, MaskInv, AheadInv
<1> QED BY <1>3, <1>7, <1>8

(* A card is over: behind it a new run begins, if any.                     *)
LEMMA CardKeeps ==
  ASSUME RedactInv, ScanEnd, CardShaped(scan.digits),
         out' = out \o MaskKeepingLast(i, RunEnd(scan)), i' = RunEnd(scan)
  PROVE  RedactInv'
<1> USE DEF RedactInv
<1> DEFINE b == RunEnd(scan) - 1
           M == MaskKeepingLast(i, RunEnd(scan))
<1>1. /\ b \in Int /\ i <= b /\ b <= Len(input) /\ RunEnd(scan) = b + 1
      /\ i \in Digits(input, 1, Len(input))
      /\ SameRun(input, i, b)
      /\ \A k \in Digits(input, b + 1, Len(input)) : ~SameRun(input, i, k)
  BY ScanReadsTheRun DEF RunEnd, RedactTyped
<1>2. /\ Len(input) \in Nat /\ i \in 1..Len(input) /\ i \in Int /\ Len(out) = i - 1
      /\ out \in Seq(Char \cup {Mask}) /\ input \in Seq(Char)
  BY <1>1 DEF RedactTyped, LayoutIsKept
<1>3. /\ input' = input /\ loop' = "outer" /\ scan' = NoScan /\ i' = b + 1 /\ out' = out \o M
  BY <1>1 DEF ScanEnd
<1>4. /\ M \in Seq(Char \cup {Mask}) /\ Len(M) = b + 1 - i
      /\ \A k \in i..b : /\ k - i + 1 \in 1..Len(M)
                         /\ \/ M[k - i + 1] = input[k]
                            \/ M[k - i + 1] = Mask /\ input[k] = "digit"
  <2> DEFINE end == RunEnd(scan)
             elt(q) == IF /\ input[i + q - 1] = "digit"
                          /\ CountDigits(input, i, i + q - 2) < CountDigits(input, i, end - 1) - Keep
                       THEN Mask ELSE input[i + q - 1]
  <2>1. M = [q \in 1..(end - i) |-> elt(q)]
    BY DEF MaskKeepingLast
  <2>2. end = b + 1
    BY <1>1
  <2> HIDE DEF M, end, b
  <2>3. \A q \in 1..(end - i) : /\ i + q - 1 \in 1..Len(input)
                                /\ elt(q) \in Char \cup {Mask}
                                /\ \/ elt(q) = input[i + q - 1]
                                   \/ elt(q) = Mask /\ input[i + q - 1] = "digit"
    <3> TAKE q \in 1..(end - i)
    <3>1. i + q - 1 \in 1..Len(input)
      BY <1>1, <1>2, <2>2
    <3> QED BY <1>2, <3>1
  <2> HIDE DEF elt
  <2>4. end - i \in Nat /\ end - i = b + 1 - i
    BY <1>1, <1>2, <2>2
  <2>5. M \in Seq(Char \cup {Mask}) /\ Len(M) = end - i
    <3> DEFINE n == end - i
    <3>1. M \in [1..n -> Char \cup {Mask}]
      BY <2>1, <2>3
    <3> HIDE DEF n
    <3> QED BY <2>4, <3>1 DEF n
  <2>6. \A k \in i..b : k - i + 1 \in 1..(end - i) /\ i + (k - i + 1) - 1 = k
    BY <1>1, <1>2, <2>2
  <2> QED BY <2>1, <2>3, <2>4, <2>5, <2>6
<1>5. \A k \in Digits(input, i, b) : M[k - i + 1] = Mask <=> Wanted(input, k)
  BY CardIsMasked
<1> HIDE DEF b, M
<1>6. /\ out' \in Seq(Char \cup {Mask}) /\ Len(out') = b
      /\ \A k \in 1..(i - 1) : out'[k] = out[k]
      /\ \A k \in i..b : out'[k] = M[k - i + 1]
  <2>1. Len(out') = b
    BY <1>1, <1>2, <1>3, <1>4
  <2>2. \A k \in 1..(i - 1) : out'[k] = out[k]
    BY <1>1, <1>2, <1>3, <1>4
  <2>3. ASSUME NEW k \in i..b PROVE out'[k] = M[k - i + 1]
    <3>1. k \in 1..(Len(out) + Len(M)) /\ ~(k <= Len(out)) /\ k - Len(out) = k - i + 1
      BY <1>1, <1>2, <1>4
    <3> QED BY <1>2, <1>3, <1>4, <3>1
  <2>4. out' \in Seq(Char \cup {Mask})
    <3> DEFINE S == Char \cup {Mask}
    <3>1. out \in Seq(S) /\ M \in Seq(S)
      BY <1>2, <1>4
    <3>2. out' = out \o M
      BY <1>3
    <3> HIDE DEF S
    <3>3. out' \in Seq(S)
      BY <3>1, <3>2
    <3> QED BY <3>3 DEF S
  <2> QED BY <2>1, <2>2, <2>3, <2>4
<1>7. RedactTyped'
  BY <1>1, <1>2, <1>3, <1>6 DEF RedactTyped, NoScan
<1>8. LayoutIsKept'
  <2>1. ASSUME NEW k \in 1..b
        PROVE  out'[k] = input[k] \/ (out'[k] = Mask /\ input[k] = "digit")
    <3>1. k \in 1..(i - 1) \/ k \in i..b
      BY <1>1, <1>2
    <3>2. CASE k \in 1..(i - 1)
      BY <1>6, <3>2 DEF LayoutIsKept
    <3>3. CASE k \in i..b
      BY <1>4, <1>6, <3>3
    <3> QED BY <3>1, <3>2, <3>3
  <2> QED BY <1>1, <1>3, <1>6, <2>1 DEF LayoutIsKept
<1>9. MaskInv'
  <2>1. ASSUME NEW k \in Digits(input, 1, b) PROVE out'[k] = Mask <=> Wanted(input, k)
    <3>1. \/ k \in Digits(input, 1, i - 1) /\ k \in 1..(i - 1)
          \/ k \in Digits(input, i, b) /\ k \in i..b
      BY <1>1, <1>2 DEF Digits
    <3>2. CASE k \in Digits(input, 1, i - 1) /\ k \in 1..(i - 1)
      BY <1>6, <3>2 DEF MaskInv
    <3>3. CASE k \in Digits(input, i, b) /\ k \in i..b
      BY <1>5, <1>6, <3>3
    <3> QED BY <3>1, <3>2, <3>3
  <2>2. i' - 1 = b /\ input' = input
    BY <1>1, <1>3
  <2> QED BY <2>1, <2>2, Zenon DEF MaskInv
<1>10. AheadInv'
  <2>1. ASSUME NEW k \in Digits(input, b + 1, Len(input)), NEW j \in Digits(input, 1, b),
               SameRun(input, j, k)
        PROVE  FALSE
    <3>1. k \in Int /\ j \in Int /\ b < k /\ j <= b
      BY <1>1, <1>2 DEF Digits
    <3>2. CASE j <= i
      BY <1>1, <1>2, <2>1, <3>1, <3>2, SameRunWithin
    <3>3. CASE i <= j
      <4>1. SameRun(input, i, j)
        BY <1>1, <1>2, <3>1, <3>3, SameRunWithin
      <4> QED BY <1>1, <1>2, <2>1, <3>1, <3>3, <4>1, SameRunJoined
    <3> QED BY <1>2, <3>1, <3>2, <3>3
  <2>2. i' = b + 1 /\ i' - 1 = b /\ input' = input
    BY <1>1, <1>3
  <2> QED BY <2>1, <2>2, Zenon DEF AheadInv
<1>11. ScanInv'
  BY <1>3 DEF ScanInv
<1> QED BY <1>7, <1>8, <1>9, <1>10, <1>11

(* What is no card is left at its first digit.                             *)
LEMMA NoCardKeeps ==
  ASSUME RedactInv, ScanEnd, ~CardShaped(scan.digits), Copy
  PROVE  RedactInv'
<1> USE DEF RedactInv
<1>1. /\ Len(input) \in Nat /\ i \in 1..Len(input) /\ i \in Int
  BY ScanReadsTheRun DEF RedactTyped, Digits
<1>2. UNCHANGED input /\ loop' = "outer" /\ scan' = NoScan /\ i' = i + 1
  BY DEF ScanEnd, Copy
<1>3. RedactTyped' /\ LayoutIsKept' /\ MaskInv'
  <2>1. NoScan \in [at : 1..(Len(input) + 1), digits : Nat, last_was_sep : BOOLEAN]
    BY <1>1 DEF NoScan
  <2> QED BY <1>1, <1>2, <2>1, NoCardGoesOn, CopyKeeps
<1>4. ASSUME NEW k \in Digits(input, i + 1, Len(input)), NEW j \in Digits(input, 1, i),
             SameRun(input, j, k)
      PROVE  RunLength(input, k) < MinPan \/ Cardinality(From(input, k, i + 1)) >= MaxPan
  <2>1. k \in Int /\ j \in Int /\ i < k /\ j <= i /\ k \in Digits(input, 1, Len(input))
    BY <1>1 DEF Digits
  <2>2. SameRun(input, i, k)
    BY <1>1, <1>4, <2>1, SameRunWithin
  <2>3. i \in Digits(input, 1, Len(input))
    BY ScanReadsTheRun
  <2>4. k \in Run(input, i)
    <3>1. SameRun(input, k, i)
      BY <1>1, <2>1 DEF SameRun
    <3> QED BY <2>1, <2>2, <3>1 DEF Run
  <2>5. Run(input, k) = Run(input, i)
    BY <1>1, <2>3, <2>4, RunShared
  <2>6. RunLength(input, k) = RunLength(input, i) /\ From(input, k, i + 1) = From(input, i, i + 1)
    BY <2>5 DEF RunLength, From
  <2> QED BY <2>6, NoCardGoesOn
<1>5. AheadInv'
  <2>1. i' - 1 = i
    BY <1>1, <1>2
  <2> QED BY <1>2, <1>4, <2>1, Zenon DEF AheadInv
<1>6. ScanInv'
  BY <1>2 DEF ScanInv
<1> QED BY <1>3, <1>5, <1>6

(* At the end of the text all has been written.                            *)
LEMMA ReturnKeeps ==
  ASSUME RedactInv, Return
  PROVE  RedactInv'
<1> USE DEF RedactInv
<1>1. /\ UNCHANGED <<input, out, i, scan>> /\ loop' = "done" /\ i > Len(input)
  BY DEF Return
<1>2. RedactTyped'
  <2>1. i = Len(input) + 1
    BY <1>1 DEF RedactTyped
  <2> QED BY <1>1, <2>1 DEF RedactTyped
<1> QED BY <1>1, <1>2 DEF LayoutIsKept, ScanInv, MaskInv, AheadInv

(* Before the first character nothing is written or read.                  *)
LEMMA RedactInitInv ==
  RedactInit => RedactInv
<1> SUFFICES ASSUME RedactInit PROVE RedactInv
  OBVIOUS
<1>1. /\ input \in Seq(Char) /\ Len(input) \in Nat
      /\ out = <<>> /\ i = 1 /\ scan = NoScan /\ loop = "outer"
  BY RedactConstants DEF RedactInit
<1>2. RedactTyped
  BY <1>1 DEF RedactTyped, NoScan
<1>3. \A k : k \notin Digits(input, 1, i - 1)
  BY <1>1 DEF Digits
<1>4. MaskInv /\ AheadInv
  BY <1>3 DEF MaskInv, AheadInv
<1> QED BY <1>1, <1>2, <1>4 DEF RedactInv, LayoutIsKept, ScanInv

(* At every moment the part already written is the part already read, with *)
(* the right digits masked.                                                *)
THEOREM RedactInvariant == RedactSpec => []RedactInv
<1>1. RedactInv /\ [RedactNext]_redactVars => RedactInv'
  <2> SUFFICES ASSUME RedactInv, [RedactNext]_redactVars PROVE RedactInv'
    OBVIOUS
  <2>1. CASE OuterCopy
    BY <2>1, OuterCopyKeeps
  <2>2. CASE ScanStart
    BY <2>2, ScanStartKeeps
  <2>3. CASE ScanDigit \/ ScanSeparator
    BY <2>3, ScanOnKeeps
  <2>4. CASE ScanEnd
    BY <2>4, CardKeeps, NoCardKeeps DEF ScanEnd
  <2>5. CASE Return
    BY <2>5, ReturnKeeps
  <2>6. CASE UNCHANGED redactVars
    BY <2>6 DEF redactVars, RedactInv, RedactTyped, LayoutIsKept, ScanInv, MaskInv, AheadInv
  <2> QED BY <2>1, <2>2, <2>3, <2>4, <2>5, <2>6 DEF RedactNext, RedactStep
<1> QED BY <1>1, RedactInitInv, PTL DEF RedactSpec

(* The text keeps its layout, and nothing but digits is masked.            *)
THEOREM LayoutKept == RedactSpec => []LayoutIsKept
<1>1. RedactInv => LayoutIsKept
  BY DEF RedactInv
<1> QED BY <1>1, RedactInvariant, PTL

(* Every text comes out with its cards masked but for the last digits, and *)
(* with nothing masked that cannot be part of a card.                      *)
THEOREM RightDigitsMasked == RedactSpec => []RunsAreMasked
<1>1. RedactInv => RunsAreMasked
  <2> SUFFICES ASSUME RedactInv, loop = "done",
                      NEW k \in Digits(input, 1, Len(input))
               PROVE  LET after == Cardinality({j \in Run(input, k) : j > k})
                      IN  /\ RunLength(input, k) < MinPan \/ after < Keep => out[k] # Mask
                          /\ /\ RunLength(input, k) >= MinPan
                             /\ after \in Keep..(MaxPan - 1)
                             => out[k] = Mask
    BY DEF RunsAreMasked
  <2>1. i - 1 = Len(input)
    BY DEF RedactInv, RedactTyped
  <2>2. out[k] = Mask <=> Wanted(input, k)
    BY <2>1 DEF RedactInv, MaskInv
  <2>3. Len(input) \in Nat /\ RunLength(input, k) \in Nat
    BY RunFinite DEF RedactInv, RedactTyped
  <2>4. {j \in Run(input, k) : j > k} = From(input, k, k + 1)
    BY <2>3 DEF From, Run, Digits
  <2>5. /\ Wanted(input, k) <=> /\ RunLength(input, k) >= MinPan
                                /\ Cardinality(From(input, k, k + 1)) < MaxPan
                                /\ Cardinality(From(input, k, k + 1)) >= Keep
        /\ Cardinality(From(input, k, k + 1)) \in Nat
    BY WantedAhead DEF RedactInv
  <2> DEFINE c == Cardinality({j \in Run(input, k) : j > k})
  <2>6. /\ Wanted(input, k) <=> RunLength(input, k) >= MinPan /\ c < MaxPan /\ c >= Keep
        /\ c \in Nat
    BY <2>4, <2>5
  <2> SUFFICES /\ RunLength(input, k) < MinPan \/ c < Keep => out[k] # Mask
               /\ RunLength(input, k) >= MinPan /\ c \in Keep..(MaxPan - 1) => out[k] = Mask
    OBVIOUS
  <2> HIDE DEF c
  <2> QED BY <2>2, <2>3, <2>6, RedactConstants
<1> QED BY <1>1, RedactInvariant, PTL
-----------------------------------------------------------------------------
(* Ranks: how many members of a finite set of positions lie behind one.    *)

(* A set of numbers that is not empty has a least one.                     *)
LEMMA Smallest ==
  ASSUME NEW S \in SUBSET Nat, S # {}
  PROVE  \E x \in S : \A y \in S : x <= y
<1> DEFINE R == OpToRel(<, Nat)
<1>1. IsWellFoundedOn(R, Nat)
  BY NatLessThanWellFounded
<1>2. PICK x \in S : \A y \in S : ~(<<y, x>> \in R)
  <2> HIDE DEF R
  <2> QED BY <1>1, WFMin
<1>3. \A y \in S : ~(y < x)
  BY <1>2 DEF OpToRel
<1>4. \A y \in S : y \in Nat
  OBVIOUS
<1> QED BY <1>3, <1>4

(* A set of positions that is not empty has a last one.                    *)
LEMMA Largest ==
  ASSUME NEW n \in Nat, NEW S \in SUBSET (1..n), S # {}
  PROVE  \E x \in S : \A y \in S : y <= x
<1> DEFINE T == {n - x : x \in S}
<1>1. T \in SUBSET Nat /\ T # {}
  <2>1. \A x \in S : n - x \in Nat
    OBVIOUS
  <2> QED BY <2>1
<1>2. PICK t \in T : \A u \in T : t <= u
  <2> HIDE DEF T
  <2> QED BY <1>1, Smallest
<1>3. PICK x \in S : t = n - x
  BY <1>2
<1>4. \A y \in S : n - x <= n - y
  BY <1>2, <1>3
<1> QED BY <1>4

Behind(R, k) == Cardinality({x \in R : x > k})

(* How many positions lie behind one is a number.                          *)
LEMMA BehindNat ==
  ASSUME NEW n \in Nat, NEW R \in SUBSET (1..n), NEW k \in Int
  PROVE  /\ IsFiniteSet(R) /\ Cardinality(R) \in Nat
         /\ IsFiniteSet({x \in R : x > k}) /\ Behind(R, k) \in Nat
<1>1. IsFiniteSet(1..n)
  BY FS_Interval
<1>2. IsFiniteSet(R)
  BY <1>1, FS_Subset
<1>3. {x \in R : x > k} \in SUBSET R
  OBVIOUS
<1> QED BY <1>2, <1>3, FS_Subset, FS_CardinalityType DEF Behind

(* The further back, the fewer behind.                                     *)
LEMMA BehindAntitone ==
  ASSUME NEW n \in Nat, NEW R \in SUBSET (1..n), NEW j \in Int, NEW k \in Int, j <= k
  PROVE  Behind(R, k) <= Behind(R, j)
<1>1. {x \in R : x > k} \in SUBSET {x \in R : x > j}
  <2>1. \A x \in R : x > k => x > j
    <3> TAKE x \in R
    <3>1. x \in Int
      OBVIOUS
    <3> QED BY <3>1
  <2> QED BY <2>1
<1>2. IsFiniteSet({x \in R : x > j})
  BY BehindNat
<1> QED BY <1>1, <1>2, FS_Subset DEF Behind

(* The last m of a set are m at most.                                      *)
LEMMA FewBehind ==
  ASSUME NEW n \in Nat, NEW R \in SUBSET (1..n), NEW m \in Nat, NEW U \in SUBSET R,
         \A u \in U : Behind(R, u) < m
  PROVE  Cardinality(U) <= m
<1>1. CASE U = {}
  BY <1>1, FS_EmptySet
<1>2. CASE U # {}
  <2>1. U \in SUBSET Nat
    OBVIOUS
  <2>2. PICK w \in U : \A u \in U : w <= u
    BY <1>2, <2>1, Smallest
  <2> DEFINE T == {x \in R : x > w}
  <2>3. IsFiniteSet(T) /\ Cardinality(T) \in Nat /\ Cardinality(T) < m
    <3>1. w \in Int
      BY <2>2
    <3>2. Behind(R, w) = Cardinality(T)
      BY DEF Behind
    <3> QED BY <2>2, <3>1, <3>2, BehindNat
  <2>4. U \in SUBSET (T \cup {w})
    BY <2>2
  <2> HIDE DEF T
  <2>5. IsFiniteSet(T \cup {w}) /\ Cardinality(T \cup {w}) <= Cardinality(T) + 1
    <3>1. /\ IsFiniteSet(T \cup {w})
          /\ Cardinality(T \cup {w}) = IF w \in T THEN Cardinality(T) ELSE Cardinality(T) + 1
      BY <2>3, FS_AddElement
    <3> QED BY <2>3, <3>1
  <2>6. Cardinality(U) <= Cardinality(T \cup {w}) /\ IsFiniteSet(U)
    BY <2>4, <2>5, FS_Subset
  <2>7. Cardinality(U) \in Nat /\ Cardinality(T \cup {w}) \in Nat
    BY <2>5, <2>6, FS_CardinalityType
  <2> QED BY <2>3, <2>5, <2>6, <2>7
<1> QED BY <1>1, <1>2

(* Members with m behind each of them leave m over.                        *)
LEMMA ManyBehind ==
  ASSUME NEW n \in Nat, NEW R \in SUBSET (1..n), NEW m \in Nat, NEW U \in SUBSET R, U # {},
         \A u \in U : Behind(R, u) >= m
  PROVE  Cardinality(U) + m <= Cardinality(R)
<1>1. PICK w \in U : \A u \in U : u <= w
  BY Largest
<1> DEFINE T == {x \in R : x > w}
<1>2. w \in Int /\ IsFiniteSet(R) /\ Cardinality(R) \in Nat
  <2>1. w \in 1..n
    BY <1>1
  <2>2. w \in Int
    BY <2>1
  <2> QED BY <2>2, BehindNat
<1>3. IsFiniteSet(T) /\ Cardinality(T) \in Nat /\ Cardinality(T) >= m
  <2>1. Behind(R, w) = Cardinality(T)
    BY DEF Behind
  <2> QED BY <1>1, <1>2, <2>1, BehindNat
<1>4. U \cap T = {} /\ U \cup T \in SUBSET R
  <2>1. \A u \in U : u \in Int /\ ~(u > w)
    BY <1>1, <1>2
  <2> QED BY <2>1
<1> HIDE DEF T
<1>5. IsFiniteSet(U)
  BY <1>2, FS_Subset
<1>6. /\ Cardinality(U \cup T) = Cardinality(U) + Cardinality(T)
      /\ Cardinality(U) \in Nat
  BY <1>3, <1>4, <1>5, DisjointUnion
<1>7. Cardinality(U \cup T) <= Cardinality(R)
  BY <1>2, <1>4, FS_Subset
<1> QED BY <1>2, <1>3, <1>6, <1>7

(* Ranks leave no number out.                                              *)
LEMMA RankBetween ==
  ASSUME NEW n \in Nat, NEW R \in SUBSET (1..n), NEW m \in Nat, NEW j \in R, NEW k \in R,
         Behind(R, j) >= m, Behind(R, k) < m
  PROVE  \E x \in R : j <= x /\ x < k /\ Behind(R, x) = m
<1>1. \A y \in R : y \in Nat /\ y \in Int /\ Behind(R, y) \in Nat
  <2> TAKE y \in R
  <2>1. y \in 1..n
    OBVIOUS
  <2>2. y \in Nat /\ y \in Int
    BY <2>1
  <2> QED BY <2>2, BehindNat
<1> DEFINE T == {y \in R : Behind(R, y) >= m}
<1>2. T \in SUBSET (1..n) /\ j \in T
  OBVIOUS
<1>3. PICK x \in T : \A y \in T : y <= x
  <2> HIDE DEF T
  <2> QED BY <1>2, Largest
<1>4. x \in R /\ Behind(R, x) >= m /\ j <= x
  BY <1>2, <1>3
<1>5. x < k
  <2>1. k <= x => Behind(R, x) <= Behind(R, k)
    BY <1>1, <1>4, BehindAntitone
  <2> QED BY <1>1, <1>4, <2>1
<1> DEFINE V == {y \in R : y > x}
<1>6. V \in SUBSET Nat /\ k \in V
  BY <1>1, <1>4, <1>5
<1>7. PICK z \in V : \A y \in V : z <= y
  <2> HIDE DEF V
  <2> QED BY <1>6, Smallest
<1>8. z \in R /\ z > x
  BY <1>7
<1>9. Behind(R, z) < m
  BY <1>1, <1>3, <1>4, <1>8
<1> DEFINE W == {y \in R : y > z}
<1>10. V = W \cup {z} /\ z \notin W
  <2>1. z \notin W
    BY <1>1, <1>8
  <2>2. \A y \in R : y > x <=> y > z \/ y = z
    <3> TAKE y \in R
    <3>1. y > x => y \in V /\ z <= y
      BY <1>7
    <3> QED BY <1>1, <1>4, <1>8, <3>1
  <2> QED BY <1>8, <2>1, <2>2
<1>11. IsFiniteSet(W)
  BY <1>1, <1>8, BehindNat
<1>12. Behind(R, x) = Cardinality(V) /\ Behind(R, z) = Cardinality(W)
  BY DEF Behind
<1> HIDE DEF V, W
<1>13. Cardinality(V) = Cardinality(W) + 1
  BY <1>10, <1>11, FS_AddElement
<1>14. Behind(R, x) = m
  BY <1>1, <1>4, <1>8, <1>9, <1>12, <1>13
<1> QED BY <1>4, <1>5, <1>14
-----------------------------------------------------------------------------
(* What the finished text looks like.                                      *)

(* Wanted, by rank in the run.                                             *)
LEMMA WantedByRank ==
  ASSUME RedactTyped, NEW k \in Digits(input, 1, Len(input)), NEW j \in Run(input, k)
  PROVE  /\ j \in Digits(input, 1, Len(input))
         /\ Wanted(input, j) <=> /\ RunLength(input, k) >= MinPan
                                 /\ Behind(Run(input, k), j) < MaxPan
                                 /\ Behind(Run(input, k), j) >= Keep
<1>1. Len(input) \in Nat
  BY DEF RedactTyped
<1>2. j \in Digits(input, 1, Len(input)) /\ Run(input, j) = Run(input, k)
  BY <1>1, RunShared
<1>3. From(input, j, j + 1) = {x \in Run(input, k) : x > j}
  BY <1>1, <1>2 DEF From, Run, Digits
<1>4. RunLength(input, j) = RunLength(input, k)
  BY <1>2 DEF RunLength
<1> QED BY <1>2, <1>3, <1>4, WantedAhead DEF Behind

(* A run of the result is a stretch of digits of a run of the text, and    *)
(* none of them was to be masked.                                          *)
LEMMA RunsOfTheResult ==
  ASSUME RedactInv, loop = "done", NEW k \in Digits(out, 1, Len(out))
  PROVE  /\ Len(out) = Len(input) /\ Len(input) \in Nat
         /\ k \in Digits(input, 1, Len(input))
         /\ k \in Run(out, k) /\ Run(out, k) \in SUBSET Run(input, k)
         /\ \A u \in Run(out, k) :
              /\ \A x \in Digits(input, u, k) : ~Wanted(input, x)
              /\ \A x \in Digits(input, k, u) : ~Wanted(input, x)
<1> USE DEF RedactInv
<1> DEFINE n == Len(input)
<1>1. n \in Nat /\ i - 1 = n /\ Len(out) = n
  BY DEF RedactTyped, LayoutIsKept
<1> HIDE DEF n
<1>2. \A x \in 1..n : out[x] # Mask => out[x] = input[x]
  BY <1>1 DEF LayoutIsKept
<1>3. k \in Digits(input, 1, n)
  BY <1>1, <1>2 DEF Digits, Mask
<1>4. ASSUME NEW a \in 1..n, NEW b \in 1..n, SameRun(out, a, b)
      PROVE  /\ SameRun(input, a, b)
             /\ \A x \in Digits(input, a, b) : ~Wanted(input, x)
  <2>1. \A x \in a..b : x \in 1..n /\ out[x] = input[x] /\ out[x] # Mask
    BY <1>1, <1>2, <1>4 DEF SameRun, Mask
  <2>2. SameRun(input, a, b)
    <3>1. \A x \in a..(b - 1) : x \in a..b /\ x + 1 \in a..b
      BY <1>1
    <3> QED BY <1>4, <2>1, <3>1 DEF SameRun
  <2>3. \A x \in Digits(input, a, b) : x \in a..b /\ x \in Digits(input, 1, i - 1)
    BY <1>1, <2>1 DEF Digits
  <2> QED BY <2>1, <2>2, <2>3 DEF MaskInv
<1>5. ASSUME NEW u \in Run(out, k)
      PROVE  /\ u \in 1..n /\ k \in 1..n /\ u \in Digits(input, 1, n)
             /\ SameRun(out, u, k) /\ SameRun(out, k, u)
  <2>1. u \in Digits(out, 1, n)
    BY <1>1 DEF Run
  <2> QED BY <1>1, <1>2, <1>5, <2>1 DEF Run, Digits, Mask
<1>6. k \in Run(out, k)
  BY <1>1 DEF Run, SameRun, Digits
<1>7. Run(out, k) \in SUBSET Run(input, k)
  BY <1>4, <1>5 DEF Run, n
<1> QED BY <1>1, <1>3, <1>4, <1>5, <1>6, <1>7 DEF n

(* Redacting twice redacts no more.                                        *)
THEOREM SecondPassIdle == RedactSpec => []OnePassSuffices
<1>1. RedactInv => OnePassSuffices
  <2> SUFFICES ASSUME RedactInv, loop = "done", NEW k \in Digits(out, 1, Len(out)),
                      RunLength(input, k) < MinPan + MaxPan
               PROVE  RunLength(out, k) < MinPan
    BY DEF OnePassSuffices
  <2> DEFINE n == Len(input)
             R == Run(input, k)
             U == Run(out, k)
  <2>1. /\ n \in Nat /\ k \in Digits(input, 1, n)
        /\ k \in U /\ U \in SUBSET R
        /\ \A u \in U : /\ \A x \in Digits(input, u, k) : ~Wanted(input, x)
                        /\ \A x \in Digits(input, k, u) : ~Wanted(input, x)
    BY RunsOfTheResult
  <2>2. RedactTyped
    BY DEF RedactInv
  <2>3. R \in SUBSET (1..n) /\ k \in R /\ k \in Int /\ U # {}
    BY <2>1 DEF Run, Digits
  <2>4. IsFiniteSet(R) /\ Cardinality(R) \in Nat /\ Cardinality(R) < MinPan + MaxPan
    <3>1. Cardinality(R) = RunLength(input, k)
      BY DEF RunLength
    <3> HIDE DEF n, R
    <3> QED BY <2>1, <2>3, <3>1, BehindNat
  <2>5. \A j \in R : /\ j \in Digits(input, 1, n) /\ j \in Int
                     /\ Behind(R, j) \in Nat
                     /\ Wanted(input, j) <=> /\ Cardinality(R) >= MinPan
                                             /\ Behind(R, j) < MaxPan
                                             /\ Behind(R, j) >= Keep
    <3> TAKE j \in R
    <3>1. j \in Int
      BY DEF Run, Digits
    <3>2. Behind(R, j) \in Nat
      <4> HIDE DEF n, R
      <4> QED BY <2>1, <2>3, <3>1, BehindNat
    <3> QED BY <2>1, <2>2, <3>1, <3>2, WantedByRank DEF RunLength
  <2>6. RunLength(out, k) = Cardinality(U)
    BY DEF RunLength
  <2> HIDE DEF n, R, U
  <2>7. Cardinality(U) \in Nat /\ Cardinality(U) <= Cardinality(R)
    BY <2>1, <2>4, FS_Subset, FS_CardinalityType
  <2>8. CASE Cardinality(R) < MinPan
    BY <2>4, <2>6, <2>7, <2>8, RedactConstants
  <2>9. CASE Cardinality(R) >= MinPan
    <3>1. \A x \in R : Wanted(input, x) <=> Behind(R, x) < MaxPan /\ Behind(R, x) >= Keep
      BY <2>5, <2>9
    <3>2. \A u \in U : Behind(R, u) < Keep \/ Behind(R, u) >= MaxPan
      <4> TAKE u \in U
      <4>1. u \in Digits(input, u, k) \/ u \in Digits(input, k, u)
        BY <2>1, <2>3, <2>5 DEF Digits
      <4>2. ~Wanted(input, u)
        BY <2>1, <4>1
      <4> QED BY <2>1, <2>5, <3>1, <4>2, RedactConstants
    <3>3. ASSUME NEW a \in U, NEW b \in U, a = k \/ b = k,
                 Behind(R, a) >= MaxPan, Behind(R, b) < Keep
          PROVE  FALSE
      <4>1. a \in R /\ b \in R /\ Behind(R, a) >= Keep
        BY <2>1, <2>5, <3>3, RedactConstants
      <4>2. PICK x \in R : a <= x /\ x < b /\ Behind(R, x) = Keep
        BY <2>1, <2>3, <3>3, <4>1, RankBetween, RedactConstants
      <4>3. x \in Digits(input, a, b)
        BY <2>5, <4>1, <4>2 DEF Digits
      <4>4. ~Wanted(input, x)
        BY <2>1, <3>3, <4>3
      <4> QED BY <3>1, <4>2, <4>4, RedactConstants
    <3>4. CASE Behind(R, k) < Keep
      <4>1. \A u \in U : Behind(R, u) < Keep
        BY <2>1, <3>2, <3>3, <3>4
      <4>2. Cardinality(U) <= Keep
        BY <2>1, <2>3, <4>1, FewBehind, RedactConstants
      <4> QED BY <2>6, <2>7, <4>2, RedactConstants
    <3>5. CASE Behind(R, k) >= MaxPan
      <4>1. \A u \in U : Behind(R, u) >= MaxPan
        BY <2>1, <3>2, <3>3, <3>5
      <4>2. Cardinality(U) + MaxPan <= Cardinality(R)
        BY <2>1, <2>3, <4>1, ManyBehind, RedactConstants
      <4> QED BY <2>4, <2>6, <2>7, <4>2, RedactConstants
    <3> QED BY <2>1, <3>2, <3>4, <3>5
  <2> QED BY <2>4, <2>8, <2>9, RedactConstants
<1> QED BY <1>1, RedactInvariant, PTL

(* Of a text that is one card redact_pan leaves what last4 returns.        *)
THEOREM SameDigitsAsLast4 == RedactSpec => []AgreesWithLast4
<1>1. RedactInv => AgreesWithLast4
  <2> DEFINE n == Len(input)
             D == Digits(input, 1, n)
  <2> SUFFICES ASSUME RedactInv, loop = "done", NEW k \in D,
                      Run(input, k) = D, CardShaped(RunLength(input, k))
               PROVE  Digits(out, 1, Len(out)) = Last4(input)
    BY DEF AgreesWithLast4
  <2>1. /\ RedactTyped /\ LayoutIsKept /\ MaskInv
        /\ n \in Nat /\ i - 1 = n /\ Len(out) = n
    BY DEF RedactInv, RedactTyped, LayoutIsKept
  <2>2. Cardinality(D) \in MinPan..MaxPan /\ CardShaped(Cardinality(D))
    BY DEF CardShaped, RunLength
  <2>3. D \in SUBSET (1..n)
    BY DEF Digits
  <2>4. ASSUME NEW j \in D PROVE Wanted(input, j) <=> CountDigits(input, j + 1, n) >= Keep
    <3>1. /\ Wanted(input, j) <=> /\ Cardinality(D) >= MinPan
                                  /\ Behind(D, j) < MaxPan
                                  /\ Behind(D, j) >= Keep
      BY <2>1, WantedByRank DEF RunLength
    <3>2. j \in Int /\ 1 <= j /\ j <= n
      BY <2>1 DEF Digits
    <3>3. Behind(D, j) = CountDigits(input, j + 1, n)
      <4>1. Digits(input, j + 1, n) = {x \in D : x > j}
        BY <2>1, <3>2 DEF Digits
      <4> QED BY <4>1 DEF Behind, CountDigits
    <3> HIDE DEF D, n
    <3>4. Behind(D, j) < Cardinality(D)
      <4> DEFINE B == {x \in D : x > j}
      <4>1. IsFiniteSet(D) /\ Cardinality(D) \in Nat /\ IsFiniteSet(B) /\ Behind(D, j) \in Nat
        BY <2>1, <2>3, <3>2, BehindNat
      <4>2. B \in SUBSET D /\ B # D
        BY <2>4, <3>2
      <4>3. Behind(D, j) = Cardinality(B)
        BY DEF Behind
      <4> HIDE DEF B
      <4>4. Cardinality(B) <= Cardinality(D) /\ Cardinality(B) # Cardinality(D)
        BY <4>1, <4>2, FS_Subset
      <4> QED BY <4>1, <4>3, <4>4
    <3>5. Behind(D, j) \in Nat
      BY <2>1, <2>3, <3>2, BehindNat
    <3> QED BY <2>2, <3>1, <3>3, <3>4, <3>5, RedactConstants
  <2>5. Last4(input) = {j \in D : CountDigits(input, j + 1, n) < Keep}
    BY <2>2 DEF Last4
  <2>6. Digits(out, 1, n) = {j \in D : ~Wanted(input, j)}
    <3>1. \A j \in Digits(out, 1, n) : j \in D /\ ~Wanted(input, j)
      <4> TAKE j \in Digits(out, 1, n)
      <4>1. j \in 1..n /\ out[j] = "digit"
        BY DEF Digits
      <4>2. j \in D
        BY <2>1, <4>1 DEF LayoutIsKept, Digits, Mask
      <4> QED BY <2>1, <4>1, <4>2 DEF MaskInv, Mask
    <3>2. \A j \in D : ~Wanted(input, j) => j \in Digits(out, 1, n)
      <4> TAKE j \in D
      <4>1. j \in 1..n /\ input[j] = "digit"
        BY DEF Digits
      <4> QED BY <2>1, <4>1 DEF LayoutIsKept, MaskInv, Digits
    <3> QED BY <3>1, <3>2
  <2>7. \A j \in D : ~Wanted(input, j) <=> CountDigits(input, j + 1, n) < Keep
    <3> TAKE j \in D
    <3>1. CountDigits(input, j + 1, n) \in Nat
      <4>1. j + 1 \in Int /\ n \in Int
        BY <2>1 DEF Digits
      <4> QED BY <4>1, DigitsFinite
    <3> QED BY <2>4, <3>1, RedactConstants
  <2> QED BY <2>1, <2>5, <2>6, <2>7
<1> QED BY <1>1, RedactInvariant, PTL
-----------------------------------------------------------------------------
(* Termination.                                                            *)

(* One iteration of the outer loop less pays for a whole scan.             *)
LEMMA OneLess ==
  ASSUME NEW a \in Nat, NEW b \in Nat, NEW c \in Nat, b < a
  PROVE  b * c + c <= a * c /\ b * c \in Nat /\ a * c \in Nat
<1>1. (a - b - 1) * c >= 0 /\ a - b - 1 \in Nat
  OBVIOUS
<1>2. (a - b - 1) * c = a * c - b * c - c
  OBVIOUS
<1>3. b * c \in Nat /\ a * c \in Nat
  OBVIOUS
<1> QED BY <1>1, <1>2, <1>3

(* The outer loop moves on from wherever it copied or masked.              *)
LEMMA OuterMovesOn ==
  ASSUME RedactInv, OuterCopy \/ ScanEnd
  PROVE  i' \in Int /\ i < i' /\ loop' = "outer"
<1>1. i \in Int
  BY DEF RedactInv, RedactTyped
<1>2. CASE OuterCopy
  BY <1>1, <1>2 DEF OuterCopy, Copy
<1>3. CASE ScanEnd
  <2>1. RunEnd(scan) \in Int /\ i < RunEnd(scan)
    <3>1. RunEnd(scan) \in Int
      BY DEF RedactInv, RedactTyped, RunEnd
    <3> QED BY <1>1, <1>3, <3>1, ScanReadsTheRun DEF RedactInv
  <2> QED BY <1>1, <1>3, <2>1 DEF ScanEnd, Copy
<1> QED BY <1>2, <1>3

(* No step leaves as much to do as there was.                              *)
LEMMA StepShrinks ==
  ASSUME RedactInv, RedactInv', RedactStep
  PROVE  WorkLeft' \in Nat /\ WorkLeft' < WorkLeft
<1> DEFINE n == Len(input)
           scanning == IF loop = "scan" THEN n + 1 - scan.at ELSE n + 2
<1>1. /\ n \in Nat /\ input' = input /\ i \in 1..(n + 1) /\ i' \in 1..(n + 1)
      /\ scan.at \in 1..(n + 1) /\ scan'.at \in 1..(n + 1)
  <2>1. input' = input
    BY DEF RedactStep, OuterCopy, ScanStart, ScanDigit, ScanSeparator, ScanEnd, Return
  <2>2. RedactTyped /\ RedactTyped'
    BY DEF RedactInv
  <2> QED BY <2>1, <2>2 DEF RedactTyped
<1> HIDE DEF n
<1>2. n + 1 - i \in Nat /\ n + 3 \in Nat /\ n + 1 - i' \in Nat
  <2> HIDE DEF scanning
  <2>1. n + 1 - i \in Nat
    BY <1>1
  <2>2. n + 3 \in Nat
    BY <1>1
  <2>3. \A j \in 1..(n + 1) : n + 1 - j \in Nat
    BY <1>1
  <2>4. n + 1 - i' \in Nat
    BY <1>1, <2>3
  <2> QED BY <2>1, <2>2, <2>4
<1>3. (n + 1 - i) * (n + 3) \in Nat /\ (n + 1 - i') * (n + 3) \in Nat
  BY <1>2
<1>4. WorkLeft = IF loop = "done" THEN 0 ELSE 1 + (n + 1 - i) * (n + 3) + scanning
  BY DEF WorkLeft, n
<1>5. WorkLeft' = IF loop' = "done" THEN 0
                  ELSE 1 + (n + 1 - i') * (n + 3)
                         + (IF loop' = "scan" THEN n + 1 - scan'.at ELSE n + 2)
  BY <1>1 DEF WorkLeft, n
<1>6. CASE OuterCopy \/ ScanEnd
  <2>1. i < i' /\ loop' = "outer" /\ loop # "done"
    BY <1>6, OuterMovesOn DEF OuterCopy, ScanEnd
  <2>2. (n + 1 - i') * (n + 3) + (n + 3) <= (n + 1 - i) * (n + 3)
    <3> DEFINE a == n + 1 - i
               b == n + 1 - i'
               c == n + 3
    <3>1. a \in Nat /\ b \in Nat /\ c \in Nat
      BY <1>2
    <3>2. b < a
      <4>1. i \in Int /\ i' \in Int /\ n \in Int /\ i < i'
        BY <1>1, <2>1
      <4>2. \A u, v \in Int : u < v => n + 1 - v < n + 1 - u
        BY <4>1
      <4> QED BY <4>1, <4>2
    <3> HIDE DEF a, b, c
    <3>3. b * c + c <= a * c
      BY <3>1, <3>2, OneLess
    <3> QED BY <3>3 DEF a, b, c
  <2> DEFINE x == (n + 1 - i) * (n + 3)
             y == (n + 1 - i') * (n + 3)
  <2>3. WorkLeft = 1 + x + scanning /\ WorkLeft' = 1 + y + (n + 2)
    BY <1>4, <1>5, <2>1
  <2>5. scanning \in Nat
    <3>1. n \in Nat /\ scan.at \in Int /\ scan.at <= n + 1
      BY <1>1
    <3>2. n + 1 - scan.at \in Nat /\ n + 2 \in Nat
      BY <3>1
    <3> QED BY <3>2
  <2>4. x \in Nat /\ y \in Nat /\ y + (n + 3) <= x
    BY <1>3, <2>2
  <2> HIDE DEF x, y, scanning
  <2> QED BY <1>1, <2>3, <2>4, <2>5
<1>7. CASE ScanStart
  <2>1. loop = "outer" /\ loop' = "scan" /\ i' = i /\ scan'.at = i
    BY <1>7 DEF ScanStart, NoScan
  <2> DEFINE x == (n + 1 - i) * (n + 3)
  <2>2. WorkLeft = 1 + x + (n + 2) /\ WorkLeft' = 1 + x + (n + 1 - i) /\ x \in Nat
    BY <1>3, <1>4, <1>5, <2>1
  <2> HIDE DEF x
  <2> QED BY <1>1, <2>2
<1>8. CASE ScanDigit \/ ScanSeparator
  <2>1. loop = "scan" /\ loop' = "scan" /\ i' = i
    BY <1>8 DEF ScanDigit, ScanSeparator
  <2>2. scan'.at = scan.at + 1
    <3>1. CASE ScanDigit
      BY <3>1 DEF ScanDigit
    <3>2. CASE ScanSeparator
      <4> DEFINE c == scan.at
      <4>1. scan = [at |-> c, digits |-> scan.digits, last_was_sep |-> scan.last_was_sep]
        BY DEF RedactInv, RedactTyped
      <4>2. scan' = [at |-> c + 1, digits |-> scan.digits, last_was_sep |-> TRUE]
        BY <3>2, <4>1 DEF ScanSeparator
      <4> HIDE DEF c
      <4>3. scan'.at = c + 1
        BY <4>2
      <4> QED BY <4>3 DEF c
    <3> QED BY <1>8, <3>1, <3>2
  <2> DEFINE x == (n + 1 - i) * (n + 3)
  <2>3. /\ WorkLeft = 1 + x + (n + 1 - scan.at) /\ WorkLeft' = 1 + x + (n + 1 - scan'.at)
        /\ x \in Nat
    BY <1>3, <1>4, <1>5, <2>1
  <2> HIDE DEF x
  <2> QED BY <1>1, <2>2, <2>3
<1>9. CASE Return
  <2>1. loop = "outer" /\ loop' = "done"
    BY <1>9 DEF Return
  <2> DEFINE x == (n + 1 - i) * (n + 3)
  <2>2. WorkLeft = 1 + x + (n + 2) /\ WorkLeft' = 0 /\ x \in Nat
    BY <1>3, <1>4, <1>5, <2>1
  <2> HIDE DEF x
  <2> QED BY <1>1, <2>2
<1> QED BY <1>6, <1>7, <1>8, <1>9 DEF RedactStep

(* Redacting ends after a number of iterations that the length of the text *)
(* bounds.                                                                 *)
THEOREM WorkRunsOut == RedactSpec => WorkShrinks
<1>1. RedactInv /\ RedactInv' /\ [RedactNext]_redactVars
        => [WorkLeft' \in Nat /\ WorkLeft' < WorkLeft]_redactVars
  BY StepShrinks DEF RedactNext
<1> QED BY <1>1, RedactInvariant, PTL DEF RedactSpec, WorkShrinks
=============================================================================
