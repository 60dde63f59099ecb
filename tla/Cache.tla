-------------------------------- MODULE Cache --------------------------------
(***************************************************************************)
(* core/collection.Cache: a map, an LRU list and a timing wheel whose      *)
(* timers delete the entries.  The map and the list change together under  *)
(* c.lock; the call of the wheel follows after the unlock.  Values are     *)
(* left out: data is the set of cached keys.                               *)
(*                                                                         *)
(* The wheel is the one of module TimingWheel, reduced to the keys that    *)
(* have a timer; a timer may fire at any moment.  A fired timer runs       *)
(* cache.Del(key) in a goroutine of its own, a member of Callbacks.        *)
(* A caller of Take that finds a fetch of its key under way waits for it   *)
(* (module SingleFlight) and changes nothing here.                         *)
(***************************************************************************)
EXTENDS Naturals, Sequences, FiniteSets, SequencesExt

CONSTANTS
    Users,       \* goroutines that use the cache
    Callbacks,   \* goroutines of fired timers that may run at a time
    Keys,
    Limit,       \* the limit of WithLimit, 0 without it
    MaxOps       \* bounds the number of operations

VARIABLES
    data,        \* c.data: the keys that are cached
    evicts,      \* keyLru.evicts, the most recently used key first
    timers,      \* keys with a timer in the wheel
    pc, key,     \* where a goroutine is, and its key
    ops,         \* number of operations begun
    raced        \* history: keys whose timer was removed after they were set again

vars == <<data, evicts, timers, pc, key, ops, raced>>

Procs == Users \cup Callbacks

Init ==
    /\ data = {} /\ evicts = <<>> /\ timers = {}
    /\ pc = [p \in Procs |-> "idle"] /\ key = [p \in Procs |-> CHOOSE k \in Keys : TRUE]
    /\ ops = 0 /\ raced = {}

Goto(p, l) == pc' = [pc EXCEPT ![p] = l]
-----------------------------------------------------------------------------
(* keyLru *)

\* keyLru.add of a key that is in the list: MoveToFront.
Touch(k) == IF Limit = 0 THEN <<>> ELSE <<k>> \o RemoveFirst(evicts, k)

\* Verify size not exceeded: what keyLru.add evicts when s is the list with the new key.
Oldest(s) == IF Limit > 0 /\ Len(s) > Limit THEN {Last(s)} ELSE {}

\* keyLru.add(k) and onEvict, which removes the data and the timer of what goes.
Add(k) ==
    LET s == Touch(k)
        gone == IF Contains(evicts, k) THEN {} ELSE Oldest(s)
    IN  /\ evicts' = IF gone = {} THEN s ELSE Front(s)
        /\ data' = (data \cup {k}) \ gone
        /\ timers' = timers \ gone
-----------------------------------------------------------------------------
(* The operations *)

Start(p, k) ==
    /\ p \in Users /\ pc[p] = "idle" /\ ops < MaxOps
    /\ ops' = ops + 1
    /\ key' = [key EXCEPT ![p] = k]

\* SetWithExpire moves the timer of a key that was there and sets one otherwise.
NextTimer(k) == IF k \in data THEN "move" ELSE "set"

\* SetWithExpire, the locked part
Set(p, k) ==
    /\ Start(p, k)
    /\ Goto(p, NextTimer(k))
    /\ Add(k)
    /\ UNCHANGED raced

\* The delay is positive, so that the wheel takes it.
SetTimer(p) ==
    /\ pc[p] = "set"
    /\ timers' = timers \cup {key[p]}
    /\ Goto(p, "idle")
    /\ UNCHANGED <<data, evicts, key, ops, raced>>

\* The wheel ignores a key without a timer.
MoveTimer(p) ==
    /\ pc[p] = "move"
    /\ Goto(p, "idle")
    /\ UNCHANGED <<data, evicts, timers, key, ops, raced>>

\* Mutant of Delete: the key stays in the LRU list.
DeleteData(p, k) ==
    /\ data' = data \ {k}
    /\ Goto(p, "remove")
    /\ UNCHANGED <<evicts, timers, raced>>

\* Del, the locked part.  keyLru.remove calls onEvict, which removes the timer.
Delete(p, k) ==
    /\ data' = data \ {k}
    /\ evicts' = RemoveFirst(evicts, k)
    /\ timers' = IF Contains(evicts, k) THEN timers \ {k} ELSE timers
    /\ Goto(p, "remove")
    /\ UNCHANGED raced

Del(p, k) == Start(p, k) /\ Delete(p, k)

\* The end of Del, outside the lock: timingWheel.RemoveTimer(key)
RemoveTimer(p) ==
    /\ pc[p] = "remove"
    /\ timers' = timers \ {key[p]}
    /\ raced' = IF key[p] \in data THEN raced \cup {key[p]} ELSE raced
    /\ Goto(p, "idle")
    /\ UNCHANGED <<data, evicts, key, ops>>

\* doGet, of Get or at the start of Take: a hit refreshes the LRU list.
Get(p, k) ==
    /\ Start(p, k)
    /\ k \in data
    /\ evicts' = Touch(k)
    /\ UNCHANGED <<data, timers, pc, raced>>

\* Take misses and becomes the one that fetches.
TakeMisses(p, k) ==
    /\ Start(p, k)
    /\ k \notin data
    /\ \A q \in Users : pc[q] \in {"check", "fetch"} => key[q] # k
    /\ Goto(p, "check")
    /\ UNCHANGED <<data, evicts, timers, raced>>

\* The double check inside the single flight.
TakeChecks(p) ==
    /\ pc[p] = "check"
    /\ IF key[p] \in data
       THEN evicts' = Touch(key[p]) /\ Goto(p, "idle")
       ELSE Goto(p, "fetch") /\ UNCHANGED evicts
    /\ UNCHANGED <<data, timers, key, ops, raced>>

\* fetch returned a value: Set(key, v), the locked part; or an error.
TakeFetched(p) ==
    /\ pc[p] = "fetch"
    /\ \/ Goto(p, NextTimer(key[p])) /\ Add(key[p])
       \/ Goto(p, "idle") /\ UNCHANGED <<data, evicts, timers>>
    /\ UNCHANGED <<key, ops, raced>>

\* The wheel runs a timer: it forgets it and starts the callback.
Fire(k) ==
    /\ k \in timers
    /\ timers' = timers \ {k}
    /\ \E c \in Callbacks : /\ pc[c] = "idle"
                            /\ Goto(c, "del")
                            /\ key' = [key EXCEPT ![c] = k]
    /\ UNCHANGED <<data, evicts, ops, raced>>

\* Mutant of Expire: the callback starts the timer again and deletes nothing.
ExpireRearms(c) ==
    /\ pc[c] = "del"
    /\ timers' = timers \cup {key[c]}
    /\ Goto(c, "idle")
    /\ UNCHANGED <<data, evicts, key, ops, raced>>

\* The callback: cache.Del(key)
Expire(c) ==
    /\ pc[c] = "del"
    /\ Delete(c, key[c])
    /\ UNCHANGED <<key, ops>>

Progress(p) ==
    SetTimer(p) \/ MoveTimer(p) \/ RemoveTimer(p) \/ TakeChecks(p) \/ TakeFetched(p) \/ Expire(p)

Next ==
    \/ \E p \in Users, k \in Keys : Set(p, k) \/ Del(p, k) \/ Get(p, k) \/ TakeMisses(p, k)
    \/ \E p \in Procs : Progress(p)
    \/ \E k \in Keys : Fire(k)

Spec == Init /\ [][Next]_vars

\* Goroutines that can run do run, the wheel ticks on, and fetch returns.
Fairness ==
    /\ \A p \in Procs : WF_vars(Progress(p))
    /\ \A k \in Keys : SF_vars(Fire(k))
-----------------------------------------------------------------------------
(* Properties *)

TypeOK ==
    /\ data \subseteq Keys /\ timers \subseteq Keys /\ raced \subseteq Keys
    /\ evicts \in Seq(Keys) /\ Len(evicts) <= Limit
    /\ pc \in [Procs -> {"idle", "set", "move", "remove", "check", "fetch", "del"}]
    /\ key \in [Procs -> Keys] /\ ops \in 0 .. MaxOps

\* WithLimit: the LRU list holds exactly the cached keys, each once, so that the
\* cache never grows beyond its limit and no entry is out of the list's reach.
LruMatchesData ==
    Limit > 0 => ToSet(evicts) = data /\ Len(evicts) = Cardinality(data) /\ Len(evicts) <= Limit

\* An entry whose operations are over has a timer, unless a RemoveTimer of an
\* earlier Del overtook its SetTimer.
EntryHasTimer ==
    \A k \in data \ (timers \cup raced) : \E p \in Procs : key[p] = k /\ pc[p] # "idle"

\* The same for keys whose timers were never overtaken by a RemoveTimer.
EntryExpiresUnlessRaced == \A k \in Keys : []<>(k \notin data \/ k \in raced)
=============================================================================
