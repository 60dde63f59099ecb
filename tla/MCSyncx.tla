------------------------------ MODULE MCSyncx ------------------------------
(***************************************************************************)
(* Components of core/syncx that share no state: the ResourceManager with  *)
(* the SingleFlight inside it, LockedCalls, TimeoutLimit and Pool.  The    *)
(* initial state says which of them moves, so that one run explores the    *)
(* state spaces of all, one beside the other.                              *)
(***************************************************************************)
EXTENDS SingleFlight, FiniteSets

CONSTANTS
    MaxInjects,
    LockKeys, MaxCalls,
    Users, Limit

\* The channel of a Limit has a size; goroutines are finitely many.
ASSUME SyncxAssumption == IsFiniteSet(Users) /\ Limit \in Nat /\ MaxFlights \in Nat

VARIABLES
    part,          \* the component that moves
    stage, local, vals, resources, closed, made, shut,
    m, groups, doneGroups, lpc, lkey, wg, left, ran,
    borrowed, bpc, missed,
    count, fresh, old, upc, leaked, dropped

manager == <<vars, stage, local, vals, resources, closed, made, shut>>
locked == <<m, groups, doneGroups, lpc, lkey, wg, left, ran>>
limit == <<borrowed, bpc, missed>>
pool == <<count, fresh, old, upc, leaked, dropped>>

RM == INSTANCE ResourceManager
LC == INSTANCE LockedCalls WITH Keys <- LockKeys, created <- groups, done <- doneGroups,
                                pc <- lpc, key <- lkey
TL == INSTANCE TimeoutLimit WITH Borrowers <- Users
PL == INSTANCE Pool WITH resources <- count

SyncxInit ==
    /\ part \in {"manager", "locked", "limit", "pool"}
    /\ RM!Init /\ LC!Init /\ TL!Init /\ PL!Init

\* Only component p moves.
Alone(p) ==
    /\ part = p /\ UNCHANGED part
    /\ IF p = "manager" THEN TRUE ELSE UNCHANGED manager
    /\ IF p = "locked" THEN TRUE ELSE UNCHANGED locked
    /\ IF p = "limit" THEN TRUE ELSE UNCHANGED limit
    /\ IF p = "pool" THEN TRUE ELSE UNCHANGED pool

SyncxNext ==
    \/ Alone("manager") /\ RM!Next
    \/ Alone("locked") /\ LC!Next
    \/ Alone("limit") /\ TL!Next
    \/ Alone("pool") /\ PL!Next

SyncxSpec ==
    /\ SyncxInit /\ [][SyncxNext]_<<part, manager, locked, limit, pool>>
    /\ RM!Fairness /\ LC!Fairness
-----------------------------------------------------------------------------
(* The properties of the components; those of the SingleFlight are its own *)

\* As long as the ResourceManager is not closed a resource is created once for a key, and what
\* GetResource returned is what the manager holds or has closed, unless Inject replaced it.
OneManagedResource == RM!CreatedOnce /\ RM!ReturnedIsManaged

\* "LockedCalls makes sure the calls with the same key to be called sequentially."
Sequential == LC!Sequential

\* A Borrow waits beside a free token only if it missed the signal in the gap before its wait,
\* or while others are about to signal or to take the token.
WaitsForToken == TL!WaitsForToken

\* The resources of the Pool are all accounted for, never more than its limit, and a Get waits
\* only while nobody needs to be woken for an idle resource or a free slot.
PoolServes == PL!Accounted /\ PL!WaitsForSlot

\* Every call of GetResource returns, whatever create does, and so does every call of
\* LockedCalls, after its own fn ran once.
EveryCallReturns == RM!EveryCallReturns /\ LC!EveryCallRuns
=============================================================================
