------------------------------ MODULE MCDiscov ------------------------------
(***************************************************************************)
(* The container of a Subscriber, a Publisher and the config center, which *)
(* share no state but what is in etcd: the initial state says which of     *)
(* them moves, so that one run explores the state spaces of all, one       *)
(* beside the other.                                                       *)
(***************************************************************************)
EXTENDS Container

CONSTANTS
    WithIds, MaxTurns,
    Feeders, MaxChanges

\* NewConfigCenter is not one of the goroutines of the registry.
ASSUME CenterAssumption == "new" \notin Feeders

VARIABLES
    part,          \* the component that moves
    withId, leases, granted, keys, lease, gpc, after, ch, deleted, quit, turns, leaked, unnoticed,
    changes, content, listening, config, npc, fpc, loaded, overtaken, odd

publisher == <<withId, leases, granted, keys, lease, gpc, after, ch, deleted, quit, turns, leaked,
               unnoticed>>
center == <<changes, content, listening, config, npc, fpc, loaded, overtaken, odd>>

PB == INSTANCE Publisher
CC == INSTANCE ConfigCenter WITH snapshot <- config

DiscovInit == part \in {"container", "publisher", "center"} /\ Init /\ PB!Init /\ CC!Init

\* Only component p moves.
Alone(p) ==
    /\ part = p /\ UNCHANGED part
    /\ IF p = "container" THEN TRUE ELSE UNCHANGED vars
    /\ IF p = "publisher" THEN TRUE ELSE UNCHANGED publisher
    /\ IF p = "center" THEN TRUE ELSE UNCHANGED center

DiscovNext ==
    \/ Alone("container") /\ Next
    \/ Alone("publisher") /\ PB!Next
    \/ Alone("center") /\ CC!Next

DiscovSpec ==
    DiscovInit /\ [][DiscovNext]_<<part, vars, publisher, center>> /\ PB!Fairness
-----------------------------------------------------------------------------
(* The properties of the components; those of the container are its own *)

\* What is still published when the Publisher is paused or has ended belongs to a lease that
\* a watch error or a failed call of etcd left behind.
StopUnpublishes == PB!StopUnpublishes

\* The service is registered again whenever its lease or key is gone, until it is paused or
\* stopped or a deletion went unnoticed.
KeptPublished == PB!KeptPublished

\* The snapshot of the config center is the value etcd has as soon as no change is being
\* delivered, unless the change came before AddListener or was overwritten by a delivery that
\* had read before it.
SnapshotCurrent == CC!SnapshotCurrent
=============================================================================
