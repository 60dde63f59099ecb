------------------------------ MODULE SafeMap ------------------------------
(***************************************************************************)
(* core/collection.SafeMap: a map kept in two maps, so that the memory of  *)
(* one that saw many deletions can be given back.  Every operation holds   *)
(* the lock throughout and is one step.  m is the struct; out is what the  *)
(* last operation returned.                                                *)
(***************************************************************************)
EXTENDS Integers, FiniteSets

CONSTANTS
    Keys, Values,
    Absent,        \* what a map holds for a key it does not have
    MaxDeletion,   \* maxDeletion
    CopyThreshold  \* copyThreshold

ASSUME ConstantsAssumption ==
    /\ IsFiniteSet(Keys) /\ Absent \notin Values
    /\ MaxDeletion \in Nat \ {0} /\ CopyThreshold \in Nat \ {0}

VARIABLES m, out

vars == <<m, out>>

\* The keys of a Go map and its entries.
Dom(f) == {k \in Keys : f[k] # Absent}
Entries(f) == {<<k, f[k]>> : k \in Dom(f)}
Empty == [k \in Keys |-> Absent]

Nothing == [op |-> "none"]

\* NewSafeMap
Init ==
    /\ m = [dirtyOld |-> Empty, dirtyNew |-> Empty, deletionOld |-> 0, deletionNew |-> 0]
    /\ out = Nothing
-----------------------------------------------------------------------------
\* The deletion at the start of Del.
Remove(s, k) ==
    CASE s.dirtyOld[k] # Absent ->
           [s EXCEPT !.dirtyOld[k] = Absent, !.deletionOld = @ + 1]
      [] s.dirtyOld[k] = Absent /\ s.dirtyNew[k] # Absent ->
           [s EXCEPT !.dirtyNew[k] = Absent, !.deletionNew = @ + 1]
      [] OTHER -> s

\* Every entry of f is put into g.
CopyInto(f, g) == [k \in Keys |-> IF f[k] # Absent THEN f[k] ELSE g[k]]

\* Mutant of CompactOld: the entries of the old map are not copied.
CompactForgets(s) ==
    IF s.deletionOld >= MaxDeletion /\ Cardinality(Dom(s.dirtyOld)) < CopyThreshold
    THEN [dirtyOld |-> s.dirtyNew, dirtyNew |-> Empty,
          deletionOld |-> s.deletionNew, deletionNew |-> 0]
    ELSE s

\* The old map saw too many deletions: its entries go to the new one, which
\* takes its place.
CompactOld(s) ==
    IF s.deletionOld >= MaxDeletion /\ Cardinality(Dom(s.dirtyOld)) < CopyThreshold
    THEN [dirtyOld |-> CopyInto(s.dirtyOld, s.dirtyNew), dirtyNew |-> Empty,
          deletionOld |-> s.deletionNew, deletionNew |-> 0]
    ELSE s

\* The new map saw too many deletions: its entries go to the old one.
CompactNew(s) ==
    IF s.deletionNew >= MaxDeletion /\ Cardinality(Dom(s.dirtyNew)) < CopyThreshold
    THEN [s EXCEPT !.dirtyOld = CopyInto(s.dirtyNew, s.dirtyOld), !.dirtyNew = Empty,
                   !.deletionNew = 0]
    ELSE s

Del(k) ==
    /\ m' = CompactNew(CompactOld(Remove(m, k)))
    /\ out' = Nothing

\* Set: the key moves to the map that takes new entries.
Insert(s, k, v) ==
    IF s.deletionOld <= MaxDeletion
    THEN [s EXCEPT !.dirtyOld[k] = v, !.dirtyNew[k] = Absent,
                   !.deletionNew = IF s.dirtyNew[k] # Absent THEN @ + 1 ELSE @]
    ELSE [s EXCEPT !.dirtyNew[k] = v, !.dirtyOld[k] = Absent,
                   !.deletionOld = IF s.dirtyOld[k] # Absent THEN @ + 1 ELSE @]

Set(k, v) ==
    /\ m' = Insert(m, k, v)
    /\ out' = Nothing
-----------------------------------------------------------------------------
\* The value a reader sees.
Lookup(s, k) == IF s.dirtyOld[k] # Absent THEN s.dirtyOld[k] ELSE s.dirtyNew[k]

Get(k) ==
    /\ out' = [op |-> "get", key |-> k, val |-> Lookup(m, k)]
    /\ UNCHANGED m

Size ==
    /\ out' = [op |-> "size",
               n |-> Cardinality(Dom(m.dirtyOld)) + Cardinality(Dom(m.dirtyNew))]
    /\ UNCHANGED m

\* Range goes through the old map and then through the new one, until f is false.
RangeOver ==
    /\ \E old \in SUBSET Entries(m.dirtyOld), new \in SUBSET Entries(m.dirtyNew) :
          /\ new # {} => old = Entries(m.dirtyOld)
          /\ out' = [op |-> "range", seen |-> old \cup new,
                     calls |-> Cardinality(old) + Cardinality(new)]
    /\ UNCHANGED m

Next ==
    \/ \E k \in Keys : Del(k) \/ Get(k) \/ \E v \in Values : Set(k, v)
    \/ Size \/ RangeOver

Spec == Init /\ [][Next]_vars
-----------------------------------------------------------------------------
(* Properties *)

TypeOK ==
    m \in [dirtyOld : [Keys -> Values \cup {Absent}], dirtyNew : [Keys -> Values \cup {Absent}],
           deletionOld : Nat, deletionNew : Nat]

\* No key is in both maps: a stale value would come back when the other entry
\* is deleted or when the maps are merged.
KeyInOneMap == Dom(m.dirtyOld) \cap Dom(m.dirtyNew) = {}

\* SafeMap is a map for its users: Set, Del, Get, Size and Range change and
\* return what they would with one plain map.
Abstract == INSTANCE PlainMap WITH m <- [k \in Keys |-> Lookup(m, k)]
IsPlainMap == Abstract!Spec
=============================================================================
