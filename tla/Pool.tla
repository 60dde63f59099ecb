-------------------------------- MODULE Pool --------------------------------
(***************************************************************************)
(* core/syncx.Pool: at most Limit resources, idle ones in a list whose     *)
(* head was put back last, and a condition variable for those who wait.    *)
(* Get and Put run under p.lock; only cond.Wait lets others in.            *)
(***************************************************************************)
EXTENDS Naturals, FiniteSets

CONSTANTS
    Users,         \* goroutines that hold a resource each
    Limit

VARIABLES
    resources,     \* created
    fresh, old,    \* idle resources; the ones above maxAge are at the end of the list
    upc,           \* where each user is
    leaked,        \* history: resources counted that are nobody's, at most Limit
    dropped        \* history: users that were woken and left with a panic, since one last began to wait

poolVars == <<resources, fresh, old, upc, leaked, dropped>>

In(s) == {u \in Users : upc[u] = s}
To(u, s) == upc' = [upc EXCEPT ![u] = s]

Init ==
    /\ resources = 0 /\ fresh = 0 /\ old = 0 /\ leaked = 0 /\ dropped = 0
    /\ upc = [u \in Users |-> "idle"]

\* created once Get has destroyed what is too old
Left == resources - old

\* Get, from its start or woken in cond.Wait: the head of the list, unless all of the list is
\* too old and is destroyed; a new resource, whose creation may panic; or cond.Wait.  Or destroy
\* panics, after the resources destroyed so far were taken from the list.
Get(u) ==
    /\ upc[u] \in {"idle", "woken"}
    /\ \/ /\ fresh > 0 /\ fresh' = fresh - 1 /\ To(u, "has")
          /\ UNCHANGED <<resources, old, leaked, dropped>>
       \/ /\ fresh = 0 /\ Left < Limit /\ resources' = Left + 1 /\ old' = 0 /\ UNCHANGED <<fresh, dropped>>
          /\ \/ To(u, "has") /\ UNCHANGED leaked
             \/ To(u, "idle") /\ leaked' = leaked + 1
       \/ /\ fresh = 0 /\ Left >= Limit /\ To(u, "waits") /\ dropped' = 0
          /\ UNCHANGED <<resources, fresh, old, leaked>>
       \/ /\ fresh = 0 /\ \E n \in 1 .. old : old' = old - n /\ resources' = resources - n
          /\ To(u, "idle") /\ dropped' = dropped + (IF upc[u] = "woken" THEN 1 ELSE 0)
          /\ UNCHANGED <<fresh, leaked>>

\* Mutant of Signal: as if nobody ever waited.
NoSignal(u) == To(u, "idle")

\* p.cond.Signal(), and Put returns
Signal(u) ==
    \/ In("waits") = {} /\ To(u, "idle")
    \/ \E w \in In("waits") : upc' = [upc EXCEPT ![u] = "idle", ![w] = "woken"]

\* Put(x), or Put(nil), which returns at once
Put(u) ==
    /\ upc[u] = "has"
    /\ \/ Signal(u) /\ fresh' = fresh + 1 /\ UNCHANGED leaked
       \/ To(u, "idle") /\ leaked' = leaked + 1 /\ UNCHANGED fresh
    /\ UNCHANGED <<resources, old, dropped>>

\* The idle resources last used before some time pass maxAge.
Age(n) ==
    /\ n \in 1 .. fresh /\ fresh' = fresh - n /\ old' = old + n
    /\ UNCHANGED <<resources, upc, leaked, dropped>>

Next == (\E u \in Users : Get(u) \/ Put(u)) \/ (\E n \in 1 .. Limit : Age(n))
-----------------------------------------------------------------------------
(* Properties *)

TypeOK ==
    /\ {resources, fresh, old, leaked} \subseteq 0 .. Limit
    /\ upc \in [Users -> {"idle", "has", "waits", "woken"}] /\ dropped \in 0 .. Cardinality(Users)

\* Never more than Limit resources exist, and a slot is lost for ever only by a creation that
\* panics or a resource that is never put back.
Accounted ==
    resources = Cardinality(In("has")) + fresh + old + leaked /\ resources <= Limit

\* A Get waits only while all slots are taken: what is idle, or may be created, has at least as
\* many users woken for it, also when resources were destroyed between Signal and their wake-up.
\* A woken Get whose destroy panics takes its wake-up with it, and nothing else does.
WaitsForSlot ==
    In("waits") # {} => (Limit - resources) + fresh + old <= Cardinality(In("woken")) + dropped
=============================================================================
