------------------------------ MODULE PlainMap ------------------------------
(***************************************************************************)
(* What core/collection.SafeMap promises: a map.  Every operation is one   *)
(* step that changes the map m and returns out.                            *)
(***************************************************************************)
EXTENDS Naturals, FiniteSets

CONSTANTS
    Keys, Values,
    Absent        \* what a map holds for a key it does not have; no value

VARIABLES
    m,            \* the map, Absent where it has no entry
    out           \* what the last operation returned

vars == <<m, out>>

\* The keys of a map and its entries.
Dom(f) == {k \in Keys : f[k] # Absent}
Entries(f) == {<<k, f[k]>> : k \in Dom(f)}

Nothing == [op |-> "none"]

Init == m = [k \in Keys |-> Absent] /\ out = Nothing

Set(k, v) == m' = [m EXCEPT ![k] = v] /\ out' = Nothing

Del(k) == m' = [m EXCEPT ![k] = Absent] /\ out' = Nothing

Get(k) == out' = [op |-> "get", key |-> k, val |-> m[k]] /\ UNCHANGED m

\* Size returns the number of keys.
Size == out' = [op |-> "size", n |-> Cardinality(Dom(m))] /\ UNCHANGED m

\* Range calls f for every entry once, or for some of them when f stops it.
RangeOver ==
    /\ \E seen \in SUBSET Entries(m) :
          out' = [op |-> "range", seen |-> seen, calls |-> Cardinality(seen)]
    /\ UNCHANGED m

Next ==
    \/ \E k \in Keys : Del(k) \/ Get(k) \/ \E v \in Values : Set(k, v)
    \/ Size \/ RangeOver

Spec == Init /\ [][Next]_vars
=============================================================================
