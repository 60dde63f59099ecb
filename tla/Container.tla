------------------------------ MODULE Container ------------------------------
(***************************************************************************)
(* core/discov, the container of a Subscriber: it turns the OnAdd and      *)
(* OnDelete calls of the registry into the list of values that Values()    *)
(* returns.  Updates run under c.lock, one step each.  GetValues first     *)
(* looks at dirty without the lock and then loads the snapshot or rebuilds *)
(* it under the lock: two steps.  The order of the keys of a value, how    *)
(* often a key is in it, and the order of the values are left out.         *)
(***************************************************************************)
EXTENDS Naturals

CONSTANTS
    Keys, Vals,
    None,        \* no value, no snapshot
    Readers,     \* goroutines that call GetValues
    Modes,       \* whether the option Exclusive() may be given
    MaxUpdates   \* bounds the calls of OnAdd and OnDelete

ASSUME ConstantsAssumption ==
    /\ None \notin Vals /\ (\A S \in SUBSET Vals : S # None)
    /\ Modes \subseteq BOOLEAN /\ MaxUpdates \in Nat

VARIABLES
    exclusive,   \* c.exclusive, fixed by newContainer
    values,      \* c.values: the keys of a value
    mapping,     \* c.mapping: the value of a key
    dirty,       \* c.dirty
    snapshot,    \* c.snapshot, None before the first Store
    pc, got,     \* where a reader is and what GetValues returned to it
    updates,     \* calls of OnAdd and OnDelete
    live,        \* history: the value of every key by the calls so far
    stale,       \* history: <<k, v>> where k got another value while it had v
    during       \* history: what could be expected at each moment since the reader called

state == <<values, mapping, dirty, snapshot>>
history == <<updates, live, stale>>
vars == <<exclusive, state, pc, got, history, during>>

\* What is in the map c.values.
Listed(f) == {v \in Vals : f[v] # {}}

\* The value of k was changed without a deletion, and the old one was not given back to it.
Changed(k) == \E v \in Vals : <<k, v>> \in stale

\* The live values that must be listed: in exclusive mode a key that is still in the list of an
\* old value is taken for a key that has it, and loses the new one.
Sure == {v \in Vals : \E k \in Keys : live[k] = v /\ ~(exclusive /\ Changed(k))}

\* The values that may be listed: the live ones and those a key had when it was changed.
Possible == {v \in Vals : \E k \in Keys : live[k] = v \/ <<k, v>> \in stale}

Moment == [sure |-> Sure, possible |-> Possible]

\* newContainer
Init ==
    /\ exclusive \in Modes
    /\ values = [v \in Vals |-> {}] /\ mapping = [k \in Keys |-> None]
    /\ dirty = TRUE /\ snapshot = None
    /\ pc = [r \in Readers |-> "idle"] /\ got = [r \in Readers |-> {}]
    /\ updates = 0 /\ live = [k \in Keys |-> None] /\ stale = {} /\ during = [r \in Readers |-> {}]
-----------------------------------------------------------------------------
\* The calls so far changed: a reader that is under way may see either.
Record ==
    /\ updates < MaxUpdates /\ updates' = updates + 1
    /\ during' = [r \in Readers |-> IF pc[r] = "idle" THEN during[r] ELSE during[r] \cup {Moment'}]

\* Mutant of MarkDirty: an update does not invalidate the snapshot.
KeepClean == UNCHANGED dirty

MarkDirty == dirty' = TRUE

\* In exclusive mode addKv calls doRemoveKey for the keys in the list of v.  It reaches the key
\* that has v; then doRemoveKey has moved the array that addKv iterates over, and keys left in the
\* list by a change of their value may be skipped, which depends on the order.
Evictions(v) ==
    IF exclusive THEN {gone \in SUBSET values[v] : \A j \in values[v] : mapping[j] = v => j \in gone}
                 ELSE {{}}

\* c.values after an OnAdd.  A change of value leaves k in the list of the old one.
Relist(k, v, gone) ==
    [w \in Vals |-> {j \in values[w] : ~(j \in gone /\ mapping[j] = w)} \cup (IF w = v THEN {k} ELSE {})]

\* c.mapping after an OnAdd
Unmap(k, v, gone) == [j \in Keys |-> IF j = k THEN v ELSE IF j \in gone THEN None ELSE mapping[j]]

\* OnAdd: addKv.  Any Put is reported in this way, also that of a new value for a known key.
OnAdd(k, v) ==
    /\ MarkDirty
    /\ \E gone \in Evictions(v) : values' = Relist(k, v, gone) /\ mapping' = Unmap(k, v, gone)
    /\ live' = [j \in Keys |-> IF j = k THEN v
                               ELSE IF exclusive /\ live[j] = v THEN None ELSE live[j]]
    /\ UNCHANGED exclusive
    /\ stale' = (IF live[k] = None THEN stale ELSE stale \cup {<<k, live[k]>>}) \ {<<k, v>>}
    /\ Record
    /\ UNCHANGED <<snapshot, pc, got>>

\* doRemoveKey takes the key out of the list of the value it is mapped to.
Forget(k) == values' = [v \in Vals |-> IF v = mapping[k] THEN values[v] \ {k} ELSE values[v]]

\* OnDelete: removeKey
OnDelete(k) ==
    /\ MarkDirty
    /\ Forget(k)
    /\ mapping' = [mapping EXCEPT ![k] = None]
    /\ live' = [live EXCEPT ![k] = None] /\ UNCHANGED <<exclusive, stale>>
    /\ Record
    /\ UNCHANGED <<snapshot, pc, got>>
-----------------------------------------------------------------------------
\* if !c.dirty.True()
GetValues(r) ==
    /\ pc[r] = "idle"
    /\ pc' = [pc EXCEPT ![r] = IF dirty THEN "build" ELSE "load"]
    /\ during' = [during EXCEPT ![r] = {Moment}]
    /\ UNCHANGED <<exclusive, state, got, history>>

\* return c.snapshot.Load()
Load(r) ==
    /\ pc[r] = "load"
    /\ got' = [got EXCEPT ![r] = snapshot]
    /\ pc' = [pc EXCEPT ![r] = "idle"]
    /\ UNCHANGED <<exclusive, state, history, during>>

\* Under the lock: build the list, store it, then clear dirty.
Build(r) ==
    /\ pc[r] = "build"
    /\ snapshot' = Listed(values) /\ dirty' = FALSE
    /\ got' = [got EXCEPT ![r] = Listed(values)]
    /\ pc' = [pc EXCEPT ![r] = "idle"]
    /\ UNCHANGED <<exclusive, values, mapping, history, during>>

Next ==
    \/ \E k \in Keys : OnDelete(k) \/ \E v \in Vals : OnAdd(k, v)
    \/ \E r \in Readers : GetValues(r) \/ Load(r) \/ Build(r)

Spec == Init /\ [][Next]_vars
-----------------------------------------------------------------------------
(* Properties *)

\* Types; nobody loads a snapshot that was never stored.
TypeOK ==
    /\ \A r \in Readers : got[r] # None
    /\ exclusive \in BOOLEAN
    /\ values \in [Vals -> SUBSET Keys] /\ mapping \in [Keys -> Vals \cup {None}]
    /\ dirty \in BOOLEAN /\ snapshot \in (SUBSET Vals) \cup {None}
    /\ pc \in [Readers -> {"idle", "load", "build"}] /\ got \in [Readers -> SUBSET Vals]
    /\ updates \in Nat /\ live \in [Keys -> Vals \cup {None}] /\ stale \subseteq Keys \X Vals
    /\ during \in [Readers -> SUBSET [sure : SUBSET Vals, possible : SUBSET Vals]]

\* The two maps of the container agree with each other and with the calls.  A key has no other
\* value than the one it was given last, is in the list of the value it has, and else only in those of
\* values it had when it was changed; it loses its value only in exclusive mode, after a change.
MapsAgree ==
    \A k \in Keys :
        /\ mapping[k] = live[k] \/ (mapping[k] = None /\ exclusive /\ Changed(k))
        /\ mapping[k] # None => k \in values[mapping[k]]
        /\ \A v \in Vals : k \in values[v] => mapping[k] = v \/ <<k, v>> \in stale

\* "Values returns all the subscription values": what GetValues returned were the live values
\* at some moment of the call, although it looks at dirty and loads the snapshot without the lock.
\* After a key has changed its value without a deletion, the old one may be among them, and in
\* exclusive mode the new one may be missing: addKv does not take the key out of the old list.
ValuesWereLive ==
    \A r \in Readers : pc[r] = "idle" /\ during[r] # {} =>
        \E d \in during[r] : d.sure \subseteq got[r] /\ got[r] \subseteq d.possible

\* Exclusive(): "key value can only be 1:1".
OneToOne == exclusive => \A j, k \in Keys : mapping[j] = mapping[k] /\ j # k => mapping[j] = None
=============================================================================
