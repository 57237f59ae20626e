---------------------------- MODULE MockGateway ----------------------------
(***************************************************************************)
(* The in-memory gateway of src/gateway.rs, one action per critical        *)
(* section: config, store, seq and issued have a Mutex each, and           *)
(* create_refund takes them one after the other, never two at a time.      *)
(* Nothing keeps two calls for one key from overlapping.  The model says   *)
(* exactly what that costs: one refund more for each miss in the store     *)
(* while another call for the key is between its own miss and its insert.  *)
(***************************************************************************)
EXTENDS Integers, FiniteSets

CONSTANTS
  Key, Caller,
  NoKey,           \* the key of a caller that is not calling
  MaxCreates,      \* bound: create_refund calls
  MaxConfigs       \* bound: set_config calls

ASSUME MockConstants == MaxCreates \in Nat /\ MaxConfigs \in Nat

VARIABLES
  store,           \* idempotency_key -> id of the refund kept for it
  seq,             \* last id handed out by next_ref
  issued,          \* issued_count
  config,          \* MockConfig: drop_response, time_out
  call,            \* what each caller is executing, with its locals
  told,            \* history: ids answered for each key
  races,           \* history: misses inside another call's window
  contended,       \* history: the keys they were for
  creates, configs

history == <<told, races, contended>>
mockVars == <<store, seq, issued, config, call, history, creates, configs>>

None == 0

Config == [drop_response : BOOLEAN, time_out : BOOLEAN]
Default == [drop_response |-> FALSE, time_out |-> FALSE]

MockPC == {"idle", "dedupe", "next_ref", "insert", "count"}
Call == [pc : MockPC, key : Key \cup {NoKey}, config : Config, id : Nat]

NoCall == [pc |-> "idle", key |-> NoKey, config |-> Default, id |-> None]

MockInit ==
  /\ store = [k \in Key |-> None]
  /\ seq = 0
  /\ issued = 0
  /\ config = Default
  /\ call = [c \in Caller |-> NoCall]
  /\ told = [k \in Key |-> {}]
  /\ races = 0
  /\ contended = {}
  /\ creates = 0
  /\ configs = 0

Busy(c) == call[c].pc # "idle"
Calling(c, label) == call[c].pc = label
Continue(c, label) == call' = [call EXCEPT ![c].pc = label]
Return(c) == call' = [call EXCEPT ![c] = NoCall]
Tell(k, id) == told' = [told EXCEPT ![k] = @ \cup {id}]

\* Accepted tells the caller the id; Dropped does not.
Answer(c, id) ==
  IF call[c].config.drop_response THEN UNCHANGED told ELSE Tell(call[c].key, id)

SetConfig(cfg) ==
  /\ configs < MaxConfigs
  /\ config' = cfg
  /\ configs' = configs + 1
  /\ UNCHANGED <<store, seq, issued, call, history, creates>>

\* let config = *self.config.lock().unwrap()
Create(c, k) ==
  /\ ~Busy(c)
  /\ creates < MaxCreates
  /\ creates' = creates + 1
  /\ call' = [call EXCEPT ![c] = [pc |-> "dedupe", key |-> k,
                                  config |-> config, id |-> None]]
  /\ UNCHANGED <<store, seq, issued, config, history, configs>>

\* Broken variant: the store is never asked.
NeverHits(k) == k \notin Key

Hit(k) == store[k] # None

\* Between its miss in the store and its insert.
InWindow(c) == call[c].pc \in {"next_ref", "insert"}

Overtakes(c) == \E d \in Caller \ {c} : InWindow(d) /\ call[d].key = call[c].key

\* The store lock is released at the end of the block, hit or miss.
Dedupe(c) ==
  LET k == call[c].key IN
  /\ Calling(c, "dedupe")
  /\ \/ /\ Hit(k)
        /\ Answer(c, store[k])
        /\ Return(c)
        /\ UNCHANGED <<races, contended>>
     \/ /\ ~Hit(k)
        /\ call[c].config.time_out
        /\ Return(c)
        /\ UNCHANGED history
     \/ /\ ~Hit(k)
        /\ ~call[c].config.time_out
        /\ Continue(c, "next_ref")
        /\ races' = IF Overtakes(c) THEN races + 1 ELSE races
        /\ contended' = IF Overtakes(c) THEN contended \cup {k} ELSE contended
        /\ UNCHANGED told
  /\ UNCHANGED <<store, seq, issued, config, creates, configs>>

NextRef(c) ==
  /\ Calling(c, "next_ref")
  /\ seq' = seq + 1
  /\ call' = [call EXCEPT ![c].pc = "insert", ![c].id = seq + 1]
  /\ UNCHANGED <<store, issued, config, history, creates, configs>>

\* Broken variant: a dropped response is taken for a call that never landed.
Forgets(c) == IF call[c].config.drop_response THEN store
              ELSE [store EXCEPT ![call[c].key] = call[c].id]

\* HashMap::insert replaces what is there.
Recorded(c) == [store EXCEPT ![call[c].key] = call[c].id]

Insert(c) ==
  /\ Calling(c, "insert")
  /\ store' = Recorded(c)
  /\ Continue(c, "count")
  /\ UNCHANGED <<seq, issued, config, history, creates, configs>>

Count(c) ==
  /\ Calling(c, "count")
  /\ issued' = issued + 1
  /\ Answer(c, call[c].id)
  /\ Return(c)
  /\ UNCHANGED <<store, seq, config, races, contended, creates, configs>>

LookupByKey(c, k) ==
  /\ ~Busy(c)
  /\ store[k] # None
  /\ Tell(k, store[k])
  /\ UNCHANGED <<store, seq, issued, config, call, races, contended, creates, configs>>

AtRest == \A c \in Caller : ~Busy(c)

MockNext ==
  \/ \E cfg \in Config : SetConfig(cfg)
  \/ \E c \in Caller :
       \/ \E k \in Key : Create(c, k) \/ LookupByKey(c, k)
       \/ Dedupe(c) \/ NextRef(c) \/ Insert(c) \/ Count(c)
  \/ AtRest /\ UNCHANGED mockVars

MockSpec == MockInit /\ [][MockNext]_mockVars
-----------------------------------------------------------------------------
(* At rest the mock has issued one refund for each key it holds, and one   *)
(* more for each race, whatever set_config did meanwhile: a lost answer, a *)
(* time-out or a retry never moves money twice, and a race always does     *)
(* (create_refund, "Dedupe first").                                        *)
DoublesAreRaces ==
  AtRest => issued = Cardinality({k \in Key : store[k] # None}) + races

(* Whatever the callers of a key are told, by a create, a retry or a       *)
(* lookup, is the same refund, unless calls for that very key have raced.  *)
OneRefundPerKey == \A k \in Key \ contended : Cardinality(told[k]) <= 1

\* The refund the mock has for a key: it counts from next_ref on.
Drawn(k) == {call[c].id : c \in {d \in Caller : call[d].key = k /\ Calling(d, "insert")}}
Booked(k) == IF store[k] # None THEN store[k]
             ELSE IF Drawn(k) # {} THEN CHOOSE id \in Drawn(k) : TRUE
             ELSE None

(* Key by key the mock does what the engine is modelled with, Issue of     *)
(* Gateway: a key without a refund gets the next number, one that has a    *)
(* refund keeps it.  Races on other keys do not matter.                    *)
KeepsContract ==
  [][\A k \in Key \ contended' :
       \/ Booked(k)' = Booked(k)
       \/ Booked(k) = None /\ seq' = seq + 1 /\ Booked(k)' = seq']_mockVars

(* What the incident demo compares with the number of logical refunds (the *)
(* comment of create_refund, "never issue a second refund").  Calls that   *)
(* race refute it.                                                         *)
ZeroDoubleRefundsAtRest ==
  AtRest => issued = Cardinality({k \in Key : store[k] # None})
=============================================================================
