---------------------------- MODULE MCCollection ----------------------------
(***************************************************************************)
(* core/collection and the cleaner of core/stores/cache, which share no    *)
(* state: the initial state says which of them moves, so that one run      *)
(* explores the state spaces of all, one beside the other.                 *)
(***************************************************************************)
EXTENDS SafeMap

CONSTANTS
    WheelKeys, NumSlots, MaxSteps, WheelOps,
    Users, Callbacks, Limit, CacheOps,
    Workers, MaxTasks,
    Buckets, Interval, MaxTime

\* NewTimingWheel and NewRollingWindow refuse a wheel without slots and a window without buckets.
ASSUME CollectionAssumption ==
    /\ NumSlots \in Nat \ {0} /\ MaxSteps \in Nat /\ Limit \in Nat
    /\ Buckets \in Nat \ {0} /\ Interval \in Nat \ {0} /\ MaxTime \in Nat

VARIABLES
    part,          \* the component that moves
    tickedPos, entries, stage, drained, wheelOps, expected, due, moved,
    data, evicts, timers, pc, key, cacheOps, raced,
    tasks, drain, abandoned,
    now, lastTime, offset, buckets, added, slips

wheel == <<tickedPos, entries, stage, drained, wheelOps, expected, due, moved>>
cache == <<data, evicts, timers, pc, key, cacheOps, raced>>
cleaner == <<tasks, drain, abandoned>>
window == <<now, lastTime, offset, buckets, added, slips>>

TW == INSTANCE TimingWheel WITH Keys <- WheelKeys, timers <- entries, MaxOps <- WheelOps,
                                ops <- wheelOps, UseAfterDrain <- FALSE
CA == INSTANCE Cache WITH MaxOps <- CacheOps, ops <- cacheOps
CL == INSTANCE Cleaner WITH Keys <- {Absent}
RW == INSTANCE RollingWindow WITH Size <- Buckets

Parts == {"map", "wheel", "cache", "cleaner", "window"}

CollectionInit == part \in Parts /\ Init /\ TW!Init /\ CA!Init /\ CL!Init /\ RW!Init

\* Only component p moves.
Alone(p) ==
    /\ part = p /\ UNCHANGED part
    /\ IF p = "map" THEN TRUE ELSE UNCHANGED vars
    /\ IF p = "wheel" THEN TRUE ELSE UNCHANGED wheel
    /\ IF p = "cache" THEN TRUE ELSE UNCHANGED cache
    /\ IF p = "cleaner" THEN TRUE ELSE UNCHANGED cleaner
    /\ IF p = "window" THEN TRUE ELSE UNCHANGED window

CollectionNext ==
    \/ Alone("map") /\ Next
    \/ Alone("wheel") /\ TW!Next
    \/ Alone("cache") /\ CA!Next
    \/ Alone("cleaner") /\ CL!Next
    \/ Alone("window") /\ RW!Next

CollectionSpec ==
    /\ CollectionInit
    /\ [][CollectionNext]_<<part, vars, wheel, cache, cleaner, window>>
    /\ WF_wheel(part = "wheel" /\ TW!Tick)
    /\ CA!Fairness /\ CL!Fairness
-----------------------------------------------------------------------------
(* The properties of the components *)

\* A timer that was not moved is executed exactly when its delay has passed, and one that was
\* moved then or one revolution of the wheel away from it; a key that was set and not executed,
\* removed or drained since has its item in a slot.
TimersKept == TW!SetOnTime /\ TW!MovedOnSlot /\ TW!NothingLost

\* Every timer is executed, removed or drained in the end, unless the wheel is stopped.
EveryTimerEnds == TW!EveryTimerEnds

\* The LRU list of the cache holds exactly the cached keys, and an entry whose operations are
\* over has a timer, unless the RemoveTimer of a Del overtook the SetTimer of a Set.
EntriesKept == CA!LruMatchesData /\ CA!EntryHasTimer

\* Every entry of the cache expires or is deleted or evicted in the end, unless the RemoveTimer
\* of a Del overtook the SetTimer of a Set.
EntryExpiresUnlessRaced == CA!EntryExpiresUnlessRaced

\* Every failed deletion of the cleaner ends, unless the drain at shutdown is stuck.
CleanEnds == CL!CleanEnds

\* Reduce of a RollingWindow counts exactly the additions in its window.
WindowExact == RW!WindowExact
=============================================================================
