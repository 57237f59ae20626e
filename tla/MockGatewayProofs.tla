------------------------- MODULE MockGatewayProofs -------------------------
(***************************************************************************)
(* What the mock gateway does for any number of callers and keys, its      *)
(* callers' calls overlapping as they may: it issues one refund for each   *)
(* key and one for each race, and a key whose calls never raced is served  *)
(* as the engine's model of a gateway serves it.                           *)
(***************************************************************************)
EXTENDS MockGateway, FiniteSetTheorems, TLAPS

MockTyped ==
  /\ store \in [Key -> Nat]
  /\ seq \in Nat
  /\ issued \in Nat
  /\ config \in Config
  /\ call \in [Caller -> Call]
  /\ told \in [Key -> SUBSET Nat]
  /\ races \in Nat

\* A call that missed in the store and has not been counted yet.
Missing(c) == call[c].pc \in {"next_ref", "insert", "count"}
MissingFor(c, k) == Missing(c) /\ call[c].key = k

CallInv(c) ==
  /\ Busy(c) => call[c].key \in Key
  /\ call[c].pc \in {"insert", "count"} => call[c].id # None

\* What the calls for a key rely on as long as they have not raced.
KeyInv(k) ==
  /\ \A c, d \in Caller : MissingFor(c, k) /\ MissingFor(d, k) => c = d
  /\ \A c \in Caller : MissingFor(c, k) =>
       store[k] = IF Calling(c, "count") THEN call[c].id ELSE None
  /\ told[k] \subseteq {store[k]} \ {None}

Missed == {c \in Caller : Missing(c)}
Claimed == {k \in Key : \/ store[k] # None
                        \/ \E c \in Caller : InWindow(c) /\ call[c].key = k}

\* Each miss claims a free key, or is a race; each is counted once.
BooksInv ==
  /\ IsFiniteSet(Missed) /\ IsFiniteSet(Claimed)
  /\ issued + Cardinality(Missed) = Cardinality(Claimed) + races

(* The books balance, and the calls for a key take turns until they race.  *)
MockInv ==
  /\ MockTyped
  /\ \A c \in Caller : CallInv(c)
  /\ \A k \in Key \ contended : KeyInv(k)
  /\ BooksInv
-----------------------------------------------------------------------------
(* What a change of one call leaves behind.                                *)
LEMMA CallChange ==
  ASSUME MockTyped, NEW c \in Caller, NEW t, call' = [call EXCEPT ![c] = t]
  PROVE  call'[c] = t /\ \A d \in Caller \ {c} : call'[d] = call[d]
BY DEF MockTyped

(* Going on to the next critical section.                                  *)
LEMMA ContinueAt ==
  ASSUME MockTyped, NEW c \in Caller, NEW label \in MockPC, Continue(c, label)
  PROVE  /\ call' \in [Caller -> Call]
         /\ call'[c].pc = label /\ call'[c].key = call[c].key /\ call'[c].id = call[c].id
         /\ \A d \in Caller \ {c} : call'[d] = call[d]
BY DEF MockTyped, Continue, Call

(* A caller that returns is idle again, and nobody else moves.             *)
LEMMA ReturnAt ==
  ASSUME MockTyped, NEW c \in Caller, Return(c)
  PROVE  /\ call' \in [Caller -> Call]
         /\ call'[c].pc = "idle"
         /\ \A d \in Caller \ {c} : call'[d] = call[d]
BY DEF MockTyped, Return, NoCall, Call, Config, Default, MockPC, None

(* A caller that has drawn a number is about to insert it.                 *)
LEMMA NextRefAt ==
  ASSUME MockTyped, NEW c \in Caller, NextRef(c)
  PROVE  /\ call' \in [Caller -> Call]
         /\ call'[c].pc = "insert" /\ call'[c].key = call[c].key /\ call'[c].id = seq + 1
         /\ \A d \in Caller \ {c} : call'[d] = call[d]
<1> DEFINE t == [call[c] EXCEPT !.pc = "insert", !.id = seq + 1]
<1>1. call[c] \in Call /\ seq + 1 \in Nat
  BY DEF MockTyped
<1>2. t \in Call /\ t.pc = "insert" /\ t.key = call[c].key /\ t.id = seq + 1
  BY <1>1 DEF Call, MockPC
<1>3. call' = [call EXCEPT ![c] = t]
  BY DEF NextRef, MockTyped
<1> HIDE DEF t
<1> QED BY <1>2, <1>3 DEF MockTyped

(* A call that begins.                                                     *)
LEMMA CreateAt ==
  ASSUME MockTyped, NEW c \in Caller, NEW k \in Key, Create(c, k)
  PROVE  /\ call' \in [Caller -> Call]
         /\ call'[c].pc = "dedupe" /\ call'[c].key = k
         /\ \A d \in Caller \ {c} : call'[d] = call[d]
<1> DEFINE t == [pc |-> "dedupe", key |-> k, config |-> config, id |-> None]
<1>1. t \in Call /\ t.pc = "dedupe" /\ t.key = k
  BY DEF Call, MockPC, MockTyped, None
<1>2. call' = [call EXCEPT ![c] = t]
  BY DEF Create
<1> HIDE DEF t
<1> QED BY <1>1, <1>2 DEF MockTyped

(* An empty mock is in order.                                              *)
LEMMA MockInitInv == MockInit => MockInv
<1> SUFFICES ASSUME MockInit PROVE MockInv
  OBVIOUS
<1>1. NoCall \in Call
  BY DEF NoCall, Call, Config, Default, MockPC, None
<1>2. MockTyped
  BY <1>1 DEF MockInit, MockTyped, Config, Default, None
<1>3. \A c \in Caller : ~Busy(c) /\ ~Missing(c) /\ ~InWindow(c) /\ CallInv(c)
  BY DEF MockInit, CallInv, Busy, Missing, InWindow, NoCall
<1>4. Missed = {} /\ Claimed = {}
  BY <1>3 DEF MockInit, Missed, Claimed
<1>5. BooksInv
  BY <1>4, FS_EmptySet DEF MockInit, BooksInv
<1>6. \A k \in Key : KeyInv(k)
  BY <1>3 DEF MockInit, KeyInv, MissingFor
<1> QED BY <1>2, <1>3, <1>5, <1>6 DEF MockInv
-----------------------------------------------------------------------------
(* What steps leave alone.                                                 *)

(* What the calls for a key rely on stands if no miss for it begins, goes  *)
(* on or ends, and its refund and what was told stay.                      *)
LEMMA KeyStands ==
  ASSUME NEW k \in Key, KeyInv(k), store'[k] = store[k], told'[k] = told[k],
         \A c \in Caller : MissingFor(c, k)' =>
            /\ MissingFor(c, k)
            /\ call'[c].id = call[c].id
            /\ Calling(c, "count")' <=> Calling(c, "count")
  PROVE  KeyInv(k)'
BY DEF KeyInv

(* The books stand if the same calls are pending and the same keys claimed.*)
LEMMA BooksStand ==
  ASSUME BooksInv, Missed' = Missed, Claimed' = Claimed, UNCHANGED <<issued, races>>
  PROVE  BooksInv'
BY DEF BooksInv

(* They do if one call moves that is on neither side of its misses.        *)
LEMMA BooksStandAside ==
  ASSUME BooksInv, NEW c \in Caller, ~Missing(c), ~Missing(c)',
         \A d \in Caller \ {c} : call'[d] = call[d], UNCHANGED <<store, issued, races>>
  PROVE  BooksInv'
<1>1. \A d \in Caller : /\ Missing(d)' <=> Missing(d)
                        /\ InWindow(d)' <=> InWindow(d)
                        /\ InWindow(d) => call'[d].key = call[d].key
  BY DEF Missing, InWindow
<1>2. Missed' = Missed /\ Claimed' = Claimed
  BY <1>1 DEF Missed, Claimed
<1> QED BY <1>2, BooksStand

(* A call that is not missing leaves what every key relies on alone.       *)
LEMMA KeysStandAside ==
  ASSUME NEW c \in Caller, ~Missing(c)', \A d \in Caller \ {c} : call'[d] = call[d],
         NEW k \in Key, KeyInv(k), store'[k] = store[k], told'[k] = told[k]
  PROVE  KeyInv(k)'
<1>1. ASSUME NEW d \in Caller, MissingFor(d, k)' PROVE call'[d] = call[d]
  BY <1>1 DEF MissingFor
<1> QED BY <1>1, KeyStands DEF MissingFor, Missing, Calling

(* Telling a key's caller what is stored for the key keeps what the key    *)
(* relies on.                                                              *)
LEMMA ToldWhatIsStored ==
  ASSUME MockTyped, NEW k \in Key, store[k] # None, Tell(k, store[k])
  PROVE  /\ told' \in [Key -> SUBSET Nat]
         /\ told'[k] \subseteq told[k] \cup {store[k]}
         /\ \A q \in Key \ {k} : told'[q] = told[q]
BY DEF MockTyped, Tell
-----------------------------------------------------------------------------
(* Each step keeps the invariant.                                          *)

(* A call that begins has missed nothing yet.                              *)
LEMMA CreateKeeps ==
  ASSUME MockInv, NEW c \in Caller, NEW k \in Key, Create(c, k)
  PROVE  MockInv'
<1>0. MockTyped /\ ~Busy(c) /\ ~Missing(c)
  BY DEF Create, MockInv, Busy, Missing
<1>1. /\ call' \in [Caller -> Call] /\ call'[c].pc = "dedupe" /\ call'[c].key = k
      /\ \A d \in Caller \ {c} : call'[d] = call[d]
  BY <1>0, CreateAt
<1>2. UNCHANGED <<store, seq, issued, config, told, races, contended>>
  BY DEF Create, history
<1>3. MockTyped'
  BY <1>0, <1>1, <1>2 DEF MockTyped
<1>4. ~Missing(c)'
  BY <1>1 DEF Missing
<1>5. \A d \in Caller : CallInv(d)'
  BY <1>1 DEF MockInv, CallInv, Busy
<1>6. \A q \in Key \ contended : KeyInv(q)'
  BY <1>1, <1>2, <1>4, KeysStandAside DEF MockInv
<1>7. BooksInv'
  BY <1>0, <1>1, <1>2, <1>4, BooksStandAside DEF MockInv
<1> QED BY <1>2, <1>3, <1>5, <1>6, <1>7 DEF MockInv

(* A hit tells what is stored; a time-out leaves no trace.                 *)
LEMMA DedupeReturns ==
  ASSUME MockInv, NEW c \in Caller, Dedupe(c), Return(c)
  PROVE  MockInv'
<1> DEFINE k == call[c].key
<1>0. MockTyped /\ k \in Key /\ ~Missing(c)
  BY DEF Dedupe, MockInv, CallInv, Busy, Calling, Missing
<1>1. /\ call' \in [Caller -> Call] /\ call'[c].pc = "idle"
      /\ \A d \in Caller \ {c} : call'[d] = call[d]
  BY <1>0, ReturnAt
<1>2. UNCHANGED <<store, seq, issued, config, races, contended>>
  <2>1. ~Continue(c, "next_ref")
    BY <1>0, <1>1, ContinueAt DEF MockPC
  <2> QED BY <2>1 DEF Dedupe, history
<1>3. UNCHANGED told \/ (store[k] # None /\ Tell(k, store[k]))
  BY DEF Dedupe, Hit, Answer, history
<1>4. told' \in [Key -> SUBSET Nat]
  BY <1>0, <1>3, ToldWhatIsStored DEF MockTyped
<1>5. MockTyped'
  BY <1>0, <1>1, <1>2, <1>4 DEF MockTyped
<1>6. ~Missing(c)'
  BY <1>1 DEF Missing
<1>7. \A d \in Caller : CallInv(d)'
  BY <1>1 DEF MockInv, CallInv, Busy
<1>8. ASSUME NEW q \in Key \ contended PROVE KeyInv(q)'
  <2>1. KeyInv(q) /\ store'[q] = store[q]
    BY <1>2 DEF MockInv
  <2>2. CASE told'[q] = told[q]
    BY <1>1, <1>6, <2>1, <2>2, KeysStandAside
  <2>3. CASE told'[q] # told[q]
    <3>1. q = k /\ told'[q] \subseteq told[q] \cup {store[q]} /\ store[q] # None
      BY <1>0, <1>3, <2>3, ToldWhatIsStored
    <3>2. told'[q] \subseteq {store'[q]} \ {None}
      BY <2>1, <3>1 DEF KeyInv
    <3>3. ASSUME NEW d \in Caller, MissingFor(d, q)' PROVE call'[d] = call[d]
      BY <1>1, <1>6, <3>3 DEF MissingFor
    <3> QED BY <2>1, <3>2, <3>3 DEF KeyInv, MissingFor, Missing, Calling
  <2> QED BY <2>2, <2>3
<1>9. BooksInv'
  BY <1>0, <1>1, <1>2, <1>6, BooksStandAside DEF MockInv
<1> QED BY <1>2, <1>5, <1>7, <1>8, <1>9 DEF MockInv

(* A miss claims its key, or finds it claimed by a call it races with.     *)
LEMMA DedupeMisses ==
  ASSUME MockInv, NEW c \in Caller, Dedupe(c), ~Return(c)
  PROVE  MockInv'
<1> DEFINE k == call[c].key
<1>0. MockTyped /\ k \in Key /\ ~Missing(c) /\ ~InWindow(c)
  BY DEF Dedupe, MockInv, CallInv, Busy, Calling, Missing, InWindow
<1>1. /\ store[k] = None /\ Continue(c, "next_ref")
      /\ races' = IF Overtakes(c) THEN races + 1 ELSE races
      /\ contended' = IF Overtakes(c) THEN contended \cup {k} ELSE contended
      /\ UNCHANGED <<store, seq, issued, config, told>>
  BY DEF Dedupe, Hit
<1>2. /\ call' \in [Caller -> Call] /\ call'[c].pc = "next_ref" /\ call'[c].key = k
      /\ \A d \in Caller \ {c} : call'[d] = call[d]
  BY <1>0, <1>1, ContinueAt DEF MockPC
<1>3. MockTyped'
  BY <1>0, <1>1, <1>2 DEF MockTyped
<1>4. \A d \in Caller : CallInv(d)'
  BY <1>0, <1>2 DEF MockInv, CallInv, Busy
<1>5. ASSUME NEW q \in Key \ contended' PROVE KeyInv(q)'
  <2>1. KeyInv(q) /\ q \in Key /\ (q = k => ~Overtakes(c))
    BY <1>1 DEF MockInv
  <2>2. CASE q # k
    <3>1. ASSUME NEW d \in Caller, MissingFor(d, q)' PROVE call'[d] = call[d]
      BY <1>2, <2>2, <3>1 DEF MissingFor
    <3> QED BY <1>1, <2>1, <3>1, KeyStands DEF MissingFor, Missing, Calling
  <2>3. CASE q = k
    <3>1. \A d \in Caller \ {c} : ~MissingFor(d, k)
      <4> SUFFICES ASSUME NEW d \in Caller \ {c}, MissingFor(d, k) PROVE FALSE
        OBVIOUS
      <4>1. Calling(d, "count")
        BY <2>1, <2>3 DEF Overtakes, InWindow, MissingFor, Missing, Calling
      <4>2. store[k] = call[d].id /\ call[d].id # None
        BY <2>1, <2>3, <4>1 DEF KeyInv, MockInv, CallInv, Calling
      <4> QED BY <1>1, <4>2
    <3>2. \A d \in Caller : MissingFor(d, q)' => d = c
      BY <1>2, <2>3, <3>1 DEF MissingFor, Missing
    <3>3. store'[q] = None /\ told'[q] \subseteq {store'[q]} \ {None} /\ ~Calling(c, "count")'
      BY <1>1, <1>2, <2>1, <2>3 DEF KeyInv, Calling
    <3> QED BY <3>2, <3>3 DEF KeyInv
  <2> QED BY <2>2, <2>3
<1>6. /\ IsFiniteSet(Missed') /\ Cardinality(Missed') = Cardinality(Missed) + 1
      /\ Cardinality(Missed) \in Nat
  <2>1. Missed' = Missed \cup {c} /\ c \notin Missed
    BY <1>0, <1>2 DEF Missed, Missing
  <2> QED BY <2>1, FS_AddElement, FS_CardinalityType DEF MockInv, BooksInv
<1>7. Claimed' = Claimed \cup {k}
  <2>1. \A q \in Key : (\E d \in Caller : InWindow(d) /\ call[d].key = q)'
                         <=> q = k \/ \E d \in Caller : InWindow(d) /\ call[d].key = q
    BY <1>0, <1>2 DEF InWindow
  <2> QED BY <1>0, <1>1, <2>1 DEF Claimed
<1>8. k \in Claimed <=> Overtakes(c)
  BY <1>0, <1>1 DEF Claimed, Overtakes
<1>9. /\ IsFiniteSet(Claimed') /\ Cardinality(Claimed) \in Nat
      /\ Cardinality(Claimed') = IF Overtakes(c) THEN Cardinality(Claimed)
                                 ELSE Cardinality(Claimed) + 1
  <2>1. IsFiniteSet(Claimed)
    BY DEF MockInv, BooksInv
  <2> QED BY <1>7, <1>8, <2>1, FS_AddElement, FS_CardinalityType
<1>10. BooksInv'
  <2>1. issued + Cardinality(Missed) = Cardinality(Claimed) + races
    BY DEF MockInv, BooksInv
  <2>2. issued \in Nat /\ races \in Nat /\ issued' = issued
    BY <1>0, <1>1 DEF MockTyped
  <2>3. issued' + Cardinality(Missed') = Cardinality(Claimed') + races'
    BY <1>1, <1>6, <1>9, <2>1, <2>2
  <2> QED BY <1>6, <1>9, <2>3 DEF BooksInv
<1> QED BY <1>3, <1>4, <1>5, <1>10 DEF MockInv

(* Drawing a number changes what the call holds, not what is claimed.      *)
LEMMA NextRefKeeps ==
  ASSUME MockInv, NEW c \in Caller, NextRef(c)
  PROVE  MockInv'
<1>0. MockTyped /\ Busy(c) /\ Calling(c, "next_ref")
  BY DEF NextRef, MockInv, Busy, Calling
<1>1. UNCHANGED <<store, issued, config, told, races, contended>> /\ seq' = seq + 1
  BY DEF NextRef, history
<1>2. /\ call' \in [Caller -> Call] /\ call'[c].pc = "insert"
      /\ call'[c].key = call[c].key /\ call'[c].id = seq + 1
      /\ \A d \in Caller \ {c} : call'[d] = call[d]
  BY <1>0, NextRefAt
<1>3. MockTyped' /\ seq + 1 # None
  BY <1>0, <1>1, <1>2 DEF MockTyped, None
<1>4. \A d \in Caller : CallInv(d)'
  BY <1>0, <1>2, <1>3 DEF MockInv, CallInv, Busy
<1>5. \A d \in Caller : /\ Missing(d)' <=> Missing(d)
                        /\ InWindow(d)' <=> InWindow(d)
                        /\ Calling(d, "count")' <=> Calling(d, "count")
                        /\ call'[d].key = call[d].key
  BY <1>0, <1>2 DEF Missing, InWindow, Calling
<1>6. ASSUME NEW q \in Key \ contended PROVE KeyInv(q)'
  <2>1. KeyInv(q)
    BY DEF MockInv
  <2>2. \A d \in Caller : Calling(d, "count") => call'[d].id = call[d].id
    BY <1>0, <1>2 DEF Calling
  <2> QED BY <1>1, <1>5, <2>1, <2>2 DEF KeyInv, MissingFor
<1>7. BooksInv'
  <2>1. Missed' = Missed /\ Claimed' = Claimed
    BY <1>1, <1>5 DEF Missed, Claimed
  <2> QED BY <1>1, <2>1, BooksStand DEF MockInv
<1> QED BY <1>1, <1>3, <1>4, <1>6, <1>7 DEF MockInv

(* Inserting turns a claim of a call into one of the store.                *)
LEMMA InsertKeeps ==
  ASSUME MockInv, NEW c \in Caller, Insert(c)
  PROVE  MockInv'
<1> DEFINE k == call[c].key
<1>0. /\ MockTyped /\ k \in Key /\ call[c].id \in Nat /\ call[c].id # None
      /\ Calling(c, "insert")
  BY DEF Insert, MockInv, MockTyped, CallInv, Busy, Calling, Call
<1>1. /\ UNCHANGED <<seq, issued, config, told, races, contended>>
      /\ Continue(c, "count") /\ store' = [store EXCEPT ![k] = call[c].id]
  BY DEF Insert, history, Recorded
<1>2. /\ call' \in [Caller -> Call] /\ call'[c].pc = "count"
      /\ call'[c].key = k /\ call'[c].id = call[c].id
      /\ \A d \in Caller \ {c} : call'[d] = call[d]
  BY <1>0, <1>1, ContinueAt DEF MockPC
<1>3. MockTyped' /\ store'[k] = call[c].id /\ \A q \in Key \ {k} : store'[q] = store[q]
  BY <1>0, <1>1, <1>2 DEF MockTyped
<1>4. \A d \in Caller : CallInv(d)'
  BY <1>0, <1>2 DEF MockInv, CallInv, Busy
<1>5. ASSUME NEW q \in Key \ contended PROVE KeyInv(q)'
  <2>1. KeyInv(q)
    BY DEF MockInv
  <2>2. CASE q # k
    <3>1. ASSUME NEW d \in Caller, MissingFor(d, q)' PROVE call'[d] = call[d]
      BY <1>2, <2>2, <3>1 DEF MissingFor
    <3> QED BY <1>1, <1>3, <2>1, <2>2, <3>1, KeyStands DEF MissingFor, Missing, Calling
  <2>3. CASE q = k
    <3>1. MissingFor(c, k) /\ ~Calling(c, "count")
      BY <1>0 DEF MissingFor, Missing, Calling
    <3>2. told[k] = {}
      BY <2>1, <2>3, <3>1 DEF KeyInv
    <3>3. \A d \in Caller : MissingFor(d, q)' => d = c
      BY <1>2, <2>1, <2>3, <3>1 DEF KeyInv, MissingFor, Missing
    <3> QED BY <1>1, <1>2, <1>3, <2>3, <3>2, <3>3 DEF KeyInv, Calling
  <2> QED BY <2>2, <2>3
<1>6. BooksInv'
  <2>1. Missed' = Missed
    BY <1>0, <1>2 DEF Missed, Missing, Calling
  <2>2. ASSUME NEW q \in Key PROVE q \in Claimed' <=> q \in Claimed
    <3>1. CASE q = k
      BY <1>0, <1>3, <3>1 DEF Claimed, InWindow, Calling
    <3>2. CASE q # k
      <4>1. \A d \in Caller : (InWindow(d) /\ call[d].key = q)' <=> InWindow(d) /\ call[d].key = q
        BY <1>2, <3>2 DEF InWindow
      <4> QED BY <1>3, <3>2, <4>1 DEF Claimed
    <3> QED BY <3>1, <3>2
  <2>3. Claimed' = Claimed
    BY <2>2 DEF Claimed
  <2> QED BY <1>1, <2>1, <2>3, BooksStand DEF MockInv
<1> QED BY <1>1, <1>3, <1>4, <1>5, <1>6 DEF MockInv

(* Counting settles one miss.                                              *)
LEMMA CountKeeps ==
  ASSUME MockInv, NEW c \in Caller, Count(c)
  PROVE  MockInv'
<1> DEFINE k == call[c].key
<1>0. /\ MockTyped /\ k \in Key /\ call[c].id \in Nat /\ call[c].id # None
      /\ Calling(c, "count") /\ Return(c)
  BY DEF Count, MockInv, MockTyped, CallInv, Busy, Calling, Call
<1>1. /\ UNCHANGED <<store, seq, config, races, contended>> /\ issued' = issued + 1
      /\ UNCHANGED told \/ Tell(k, call[c].id)
  BY DEF Count, Answer
<1>2. /\ call' \in [Caller -> Call] /\ call'[c].pc = "idle"
      /\ \A d \in Caller \ {c} : call'[d] = call[d]
  BY <1>0, ReturnAt
<1>3. /\ told' \in [Key -> SUBSET Nat] /\ told'[k] \subseteq told[k] \cup {call[c].id}
      /\ \A q \in Key \ {k} : told'[q] = told[q]
  BY <1>0, <1>1 DEF Tell, MockTyped
<1>4. MockTyped' /\ ~Missing(c)'
  BY <1>0, <1>1, <1>2, <1>3 DEF MockTyped, Missing
<1>5. \A d \in Caller : CallInv(d)'
  BY <1>2 DEF MockInv, CallInv, Busy
<1>6. ASSUME NEW q \in Key \ contended PROVE KeyInv(q)'
  <2>1. KeyInv(q)
    BY DEF MockInv
  <2>2. CASE q # k
    BY <1>1, <1>2, <1>3, <1>4, <2>1, <2>2, KeysStandAside
  <2>3. CASE q = k
    <3>1. MissingFor(c, k)
      BY <1>0 DEF MissingFor, Missing, Calling
    <3>2. store[k] = call[c].id
      BY <1>0, <2>1, <2>3, <3>1 DEF KeyInv
    <3>3. told'[q] \subseteq {store'[q]} \ {None}
      BY <1>0, <1>1, <1>3, <2>1, <2>3, <3>2 DEF KeyInv
    <3>4. \A d \in Caller : ~MissingFor(d, q)'
      BY <1>2, <1>4, <2>1, <2>3, <3>1 DEF KeyInv, MissingFor, Missing
    <3> QED BY <3>3, <3>4 DEF KeyInv
  <2> QED BY <2>2, <2>3
<1>7. BooksInv'
  <2>1. Missed' = Missed \ {c} /\ c \in Missed
    BY <1>0, <1>2, <1>4 DEF Missed, Missing, Calling
  <2>2. Claimed' = Claimed
    <3>1. \A d \in Caller : /\ InWindow(d)' <=> InWindow(d)
                            /\ InWindow(d) => call'[d].key = call[d].key
      BY <1>0, <1>2 DEF InWindow, Calling
    <3> QED BY <1>1, <3>1 DEF Claimed
  <2>3. /\ IsFiniteSet(Missed') /\ Cardinality(Missed') = Cardinality(Missed) - 1
        /\ Cardinality(Missed) \in Nat /\ Cardinality(Claimed) \in Nat
    BY <2>1, FS_RemoveElement, FS_CardinalityType DEF MockInv, BooksInv
  <2>4. issued + Cardinality(Missed) = Cardinality(Claimed) + races
    BY DEF MockInv, BooksInv
  <2>5. issued' + Cardinality(Missed') = Cardinality(Claimed') + races'
    BY <1>0, <1>1, <2>2, <2>3, <2>4 DEF MockTyped
  <2> QED BY <2>2, <2>3, <2>5 DEF MockInv, BooksInv
<1> QED BY <1>1, <1>4, <1>5, <1>6, <1>7 DEF MockInv

(* A lookup tells what is stored.                                          *)
LEMMA LookupKeeps ==
  ASSUME MockInv, NEW c \in Caller, NEW k \in Key, LookupByKey(c, k)
  PROVE  MockInv'
<1>1. UNCHANGED <<store, seq, issued, config, call, races, contended>>
  BY DEF LookupByKey
<1>2. /\ told' \in [Key -> SUBSET Nat] /\ told'[k] \subseteq told[k] \cup {store[k]}
      /\ store[k] # None /\ \A q \in Key \ {k} : told'[q] = told[q]
  BY ToldWhatIsStored DEF LookupByKey, MockInv
<1>3. MockTyped'
  BY <1>1, <1>2 DEF MockInv, MockTyped
<1>4. ASSUME NEW q \in Key \ contended PROVE KeyInv(q)'
  <2>1. told'[q] \subseteq {store[q]} \ {None}
    BY <1>2 DEF MockInv, KeyInv
  <2> QED BY <1>1, <2>1 DEF MockInv, KeyInv, MissingFor, Missing, Calling
<1>5. BooksInv' /\ \A d \in Caller : CallInv(d)'
  BY <1>1 DEF MockInv, BooksInv, Missed, Claimed, Missing, InWindow, CallInv, Busy
<1> QED BY <1>1, <1>3, <1>4, <1>5 DEF MockInv

(* Every step of the mock keeps it in order.                               *)
LEMMA MockNextInv ==
  ASSUME MockInv, [MockNext]_mockVars
  PROVE  MockInv'
<1>1. ASSUME \/ \E cfg \in Config : SetConfig(cfg)
             \/ UNCHANGED mockVars
      PROVE  MockInv'
  <2>1. config' \in Config /\ UNCHANGED <<store, seq, issued, call, told, races, contended>>
    BY <1>1 DEF SetConfig, mockVars, history, MockInv, MockTyped
  <2>2. MockTyped'
    BY <2>1 DEF MockInv, MockTyped
  <2>3. \A k \in Key \ contended : KeyInv(k)'
    BY <2>1 DEF MockInv, KeyInv, MissingFor, Missing, Calling
  <2>4. BooksInv' /\ \A c \in Caller : CallInv(c)'
    BY <2>1 DEF MockInv, BooksInv, Missed, Claimed, Missing, InWindow, CallInv, Busy
  <2> QED BY <2>1, <2>2, <2>3, <2>4 DEF MockInv
<1>2. ASSUME NEW c \in Caller, Dedupe(c) PROVE MockInv'
  BY <1>2, DedupeReturns, DedupeMisses
<1> QED BY <1>1, <1>2, CreateKeeps, NextRefKeeps, InsertKeeps, CountKeeps, LookupKeeps
     DEF MockNext

(* The invariant of the mock.                                              *)
THEOREM MockInvariant == MockSpec => []MockInv
<1>1. MockInv /\ [MockNext]_mockVars => MockInv'
  BY MockNextInv
<1> QED BY <1>1, MockInitInv, PTL DEF MockSpec

(* At rest the mock has issued one refund for each key and one more for    *)
(* each race, and none for any other reason.                               *)
THEOREM RacesAreTheOnlyDoubles == MockSpec => []DoublesAreRaces
<1>1. ASSUME MockInv, AtRest
      PROVE  issued = Cardinality({k \in Key : store[k] # None}) + races
  <2>1. Missed = {} /\ Claimed = {k \in Key : store[k] # None}
    BY <1>1 DEF AtRest, Busy, Missed, Claimed, Missing, InWindow
  <2>2. Cardinality({}) = 0
    BY FS_EmptySet
  <2>3. issued \in Nat /\ issued + Cardinality(Missed) = Cardinality(Claimed) + races
    BY <1>1 DEF MockInv, MockTyped, BooksInv
  <2> QED BY <2>1, <2>2, <2>3
<1>2. MockInv => DoublesAreRaces
  BY <1>1 DEF DoublesAreRaces
<1> QED BY <1>2, MockInvariant, PTL

(* The callers of a key whose calls have not raced all hear of the same    *)
(* refund.                                                                 *)
THEOREM RetriesAgree == MockSpec => []OneRefundPerKey
<1>1. ASSUME MockInv PROVE OneRefundPerKey
  <2> SUFFICES ASSUME NEW k \in Key \ contended PROVE Cardinality(told[k]) <= 1
    BY DEF OneRefundPerKey
  <2>1. told[k] = {} \/ told[k] = {store[k]}
    BY <1>1 DEF MockInv, KeyInv
  <2>2. Cardinality({}) = 0 /\ Cardinality({store[k]}) = 1
    BY FS_EmptySet, FS_Singleton
  <2> QED BY <2>1, <2>2
<1> QED BY <1>1, MockInvariant, PTL
-----------------------------------------------------------------------------
(* Key by key, drawing a number issues the refund and no other step does   *)
(* anything to the books.                                                  *)

(* What is booked for a key, case by case.                                 *)
LEMMA BookedIs ==
  ASSUME NEW k \in Key
  PROVE  /\ store[k] # None => Booked(k) = store[k]
         /\ store[k] = None /\ Drawn(k) = {} => Booked(k) = None
         /\ \A id : store[k] = None /\ Drawn(k) = {id} => Booked(k) = id
BY DEF Booked

(* What it is in the next state.                                           *)
LEMMA BookedIsPrime ==
  ASSUME NEW k \in Key
  PROVE  /\ store'[k] # None => Booked(k)' = store'[k]
         /\ \A id : store'[k] = None /\ Drawn(k)' = {id} => Booked(k)' = id
BY DEF Booked

(* A step that touches no number drawn for a key books nothing for it.     *)
LEMMA BookedStands ==
  ASSUME NEW k \in Key, store'[k] = store[k],
         \A c \in Caller :
           \/ call'[c] = call[c]
           \/ /\ Calling(c, "insert") => call[c].key # k
              /\ Calling(c, "insert")' => call'[c].key # k
  PROVE  Booked(k)' = Booked(k)
<1>1. \A c \in Caller : /\ (Calling(c, "insert") /\ call[c].key = k)'
                              <=> Calling(c, "insert") /\ call[c].key = k
                        /\ Calling(c, "insert") /\ call[c].key = k => call'[c].id = call[c].id
  BY DEF Calling
<1>2. Drawn(k)' = Drawn(k)
  BY <1>1 DEF Drawn
<1> QED BY <1>2 DEF Booked

(* Drawing a number books it for its key, which had none.                  *)
LEMMA NextRefIssues ==
  ASSUME MockInv, NEW c \in Caller, NextRef(c), NEW k \in Key \ contended, call[c].key = k
  PROVE  Booked(k) = None /\ seq' = seq + 1 /\ Booked(k)' = seq'
<1>0. MockTyped /\ KeyInv(k) /\ MissingFor(c, k) /\ Calling(c, "next_ref")
  BY DEF NextRef, MockInv, MissingFor, Missing, Calling
<1>1. UNCHANGED store /\ seq' = seq + 1 /\ store[k] = None
  BY <1>0 DEF NextRef, KeyInv, Calling
<1>2. /\ call'[c].pc = "insert" /\ call'[c].key = k /\ call'[c].id = seq + 1
      /\ \A d \in Caller \ {c} : call'[d] = call[d]
  BY <1>0, NextRefAt
<1>3. \A d \in Caller : ~(Calling(d, "insert") /\ call[d].key = k)
  BY <1>0 DEF KeyInv, MissingFor, Missing, Calling
<1>4. Drawn(k) = {}
  BY <1>3 DEF Drawn
<1>5. \A d \in Caller : (Calling(d, "insert") /\ call[d].key = k)' <=> d = c
  BY <1>2, <1>3 DEF Calling
<1>6. Drawn(k)' = {seq + 1}
  BY <1>2, <1>5 DEF Drawn
<1> QED BY <1>1, <1>4, <1>6, BookedIs, BookedIsPrime

(* Inserting a number in hand books nothing new.                           *)
LEMMA InsertStands ==
  ASSUME MockInv, NEW c \in Caller, Insert(c), NEW k \in Key \ contended, call[c].key = k
  PROVE  Booked(k)' = Booked(k)
<1>0. /\ MockTyped /\ KeyInv(k) /\ MissingFor(c, k) /\ Calling(c, "insert")
      /\ call[c].id # None
  BY DEF Insert, MockInv, CallInv, MissingFor, Missing, Calling
<1>1. store[k] = None /\ store'[k] = call[c].id
  BY <1>0 DEF Insert, Recorded, KeyInv, Calling, MockTyped
<1>2. \A d \in Caller : Calling(d, "insert") /\ call[d].key = k <=> d = c
  BY <1>0 DEF KeyInv, MissingFor, Missing, Calling
<1>3. Drawn(k) = {call[c].id}
  BY <1>2 DEF Drawn
<1> QED BY <1>0, <1>1, <1>3, BookedIs, BookedIsPrime

(* Every step does for a key that has not been raced for what Issue does,  *)
(* or nothing.                                                             *)
LEMMA StepKeepsContract ==
  ASSUME MockInv, [MockNext]_mockVars, NEW k \in Key \ contended'
  PROVE  \/ Booked(k)' = Booked(k)
         \/ Booked(k) = None /\ seq' = seq + 1 /\ Booked(k)' = seq'
<1>0. MockTyped
  BY DEF MockInv
<1>1. k \in Key \ contended
  BY DEF MockNext, Create, Dedupe, NextRef, Insert, Count, LookupByKey, SetConfig, mockVars,
         history
<1>2. ASSUME NEW c \in Caller,
             Dedupe(c) \/ Count(c) \/ \E q \in Key : Create(c, q)
      PROVE  Booked(k)' = Booked(k)
  <2>1. /\ ~Calling(c, "insert") /\ ~Calling(c, "insert")' /\ UNCHANGED store
        /\ \A d \in Caller \ {c} : call'[d] = call[d]
    <3>1. CASE Return(c) /\ (Dedupe(c) \/ Count(c))
      BY <1>0, <3>1, ReturnAt DEF Dedupe, Count, Calling
    <3>2. CASE Continue(c, "next_ref") /\ Dedupe(c)
      BY <1>0, <3>2, ContinueAt DEF Dedupe, Calling, MockPC
    <3>3. CASE \E q \in Key : Create(c, q)
      BY <1>0, <3>3, CreateAt DEF Create, Busy, Calling
    <3> QED BY <1>2, <3>1, <3>2, <3>3 DEF Dedupe, Count
  <2> QED BY <2>1, BookedStands
<1>3. ASSUME NEW c \in Caller, NextRef(c), call[c].key # k PROVE Booked(k)' = Booked(k)
  <2>1. /\ call'[c].key = call[c].key /\ \A d \in Caller \ {c} : call'[d] = call[d]
        /\ UNCHANGED store
    BY <1>0, <1>3, NextRefAt DEF NextRef
  <2> QED BY <1>3, <2>1, BookedStands
<1>4. ASSUME NEW c \in Caller, Insert(c), call[c].key # k PROVE Booked(k)' = Booked(k)
  <2>1. /\ call'[c].key = call[c].key /\ \A d \in Caller \ {c} : call'[d] = call[d]
        /\ store'[k] = store[k]
    BY <1>0, <1>4, ContinueAt DEF Insert, Recorded, MockTyped, MockPC
  <2> QED BY <1>4, <2>1, BookedStands
<1>5. ASSUME \/ \E cfg \in Config : SetConfig(cfg)
             \/ \E c \in Caller, q \in Key : LookupByKey(c, q)
             \/ UNCHANGED mockVars
      PROVE  Booked(k)' = Booked(k)
  BY <1>5, BookedStands DEF SetConfig, LookupByKey, mockVars
<1> QED BY <1>1, <1>2, <1>3, <1>4, <1>5, NextRefIssues, InsertStands DEF MockNext

(* The mock is, for every key that has not been raced for, the gateway the *)
(* engine is modelled with.                                                *)
THEOREM ImplementsContract == MockSpec => KeepsContract
<1>1. MockInv /\ [MockNext]_mockVars =>
        [\A k \in Key \ contended' :
           \/ Booked(k)' = Booked(k)
           \/ Booked(k) = None /\ seq' = seq + 1 /\ Booked(k)' = seq']_mockVars
  BY StepKeepsContract
<1> QED BY <1>1, MockInvariant, PTL DEF MockSpec, KeepsContract
=============================================================================
