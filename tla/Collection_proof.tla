-------------------------- MODULE Collection_proof --------------------------
(***************************************************************************)
(* Proofs about core/collection, for any keys, sizes, limits and users:    *)
(* SafeMap implements PlainMap, because no key is in both maps and each    *)
(* piece of the struct that an operation computes has a known effect on    *)
(* what a reader sees; the TimingWheel executes its timers when they are   *)
(* due; the LRU list of the Cache is its data and no entry is without a    *)
(* timer; Reduce of a RollingWindow counts exactly what is in its window.  *)
(***************************************************************************)
EXTENDS MCCollection, SequenceTheorems, FiniteSetTheorems, TLAPS

-----------------------------------------------------------------------------
(* SafeMap *)

Maps == [Keys -> Values \cup {Absent}]
Structs == [dirtyOld : Maps, dirtyNew : Maps, deletionOld : Nat, deletionNew : Nat]
OneMap(s) == \A k \in Keys : s.dirtyOld[k] = Absent \/ s.dirtyNew[k] = Absent
View(s) == [k \in Keys |-> Lookup(s, k)]

\* CopyInto is a map.
LEMMA CopyIsMap ==
    ASSUME NEW f \in Maps, NEW g \in Maps
    PROVE  CopyInto(f, g) \in Maps
BY DEF CopyInto, Maps

\* Remove takes the key out of what a reader sees.
LEMMA RemoveEffect ==
    ASSUME NEW s \in Structs, OneMap(s), NEW k \in Keys
    PROVE  /\ Remove(s, k) \in Structs /\ OneMap(Remove(s, k))
           /\ View(Remove(s, k)) = [View(s) EXCEPT ![k] = Absent]
<1>1. CASE s.dirtyOld[k] # Absent
  <2>1. Remove(s, k) = [dirtyOld |-> [s.dirtyOld EXCEPT ![k] = Absent], dirtyNew |-> s.dirtyNew,
                        deletionOld |-> s.deletionOld + 1, deletionNew |-> s.deletionNew]
    BY <1>1 DEF Remove, Structs
  <2>2. Remove(s, k) \in Structs
    BY <2>1 DEF Structs, Maps
  <2>3. OneMap(Remove(s, k))
    BY <2>1 DEF OneMap, Structs, Maps
  <2>4. \A j \in Keys : Lookup(Remove(s, k), j) = IF j = k THEN Absent ELSE Lookup(s, j)
    BY <1>1, <2>1 DEF Lookup, OneMap, Structs, Maps
  <2>. QED BY <2>2, <2>3, <2>4 DEF View
<1>2. CASE s.dirtyOld[k] = Absent /\ s.dirtyNew[k] # Absent
  <2>1. Remove(s, k) = [dirtyOld |-> s.dirtyOld, dirtyNew |-> [s.dirtyNew EXCEPT ![k] = Absent],
                        deletionOld |-> s.deletionOld, deletionNew |-> s.deletionNew + 1]
    BY <1>2 DEF Remove, Structs
  <2>2. Remove(s, k) \in Structs
    BY <2>1 DEF Structs, Maps
  <2>3. OneMap(Remove(s, k))
    BY <2>1 DEF OneMap, Structs, Maps
  <2>4. \A j \in Keys : Lookup(Remove(s, k), j) = IF j = k THEN Absent ELSE Lookup(s, j)
    BY <1>2, <2>1 DEF Lookup, OneMap, Structs, Maps
  <2>. QED BY <2>2, <2>3, <2>4 DEF View
<1>3. CASE s.dirtyOld[k] = Absent /\ s.dirtyNew[k] = Absent
  <2>1. Remove(s, k) = s
    BY <1>3 DEF Remove
  <2>2. View(s) = [View(s) EXCEPT ![k] = Absent]
    BY <1>3 DEF View, Lookup
  <2>. QED BY <2>1, <2>2
<1>. QED BY <1>1, <1>2, <1>3

\* A compaction of the old map changes nothing a reader sees.
LEMMA CompactOldEffect ==
    ASSUME NEW s \in Structs, OneMap(s)
    PROVE  /\ CompactOld(s) \in Structs /\ OneMap(CompactOld(s))
           /\ View(CompactOld(s)) = View(s)
<1>1. CopyInto(s.dirtyOld, s.dirtyNew) \in Maps /\ Empty \in Maps
  BY CopyIsMap DEF Structs, Maps, Empty
<1>2. CompactOld(s) \in Structs
  BY <1>1 DEF CompactOld, Structs
<1>3. OneMap(CompactOld(s))
  BY DEF CompactOld, OneMap, Empty
<1>4. \A k \in Keys : Lookup(CompactOld(s), k) = Lookup(s, k)
  BY DEF CompactOld, Lookup, CopyInto, Empty
<1>. QED BY <1>2, <1>3, <1>4 DEF View

\* So does one of the new map; here it matters that no key is in both maps.
LEMMA CompactNewEffect ==
    ASSUME NEW s \in Structs, OneMap(s)
    PROVE  /\ CompactNew(s) \in Structs /\ OneMap(CompactNew(s))
           /\ View(CompactNew(s)) = View(s)
<1>1. CopyInto(s.dirtyNew, s.dirtyOld) \in Maps /\ Empty \in Maps
  BY CopyIsMap DEF Structs, Maps, Empty
<1>2. CompactNew(s) \in Structs
  BY <1>1 DEF CompactNew, Structs
<1>3. OneMap(CompactNew(s))
  BY DEF CompactNew, OneMap, Empty, Structs
<1>4. \A k \in Keys : Lookup(CompactNew(s), k) = Lookup(s, k)
  BY DEF CompactNew, Lookup, CopyInto, Empty, OneMap, Structs
<1>. QED BY <1>2, <1>3, <1>4 DEF View

\* Insert gives the key its new value.
LEMMA InsertEffect ==
    ASSUME NEW s \in Structs, OneMap(s), NEW k \in Keys, NEW v \in Values
    PROVE  /\ Insert(s, k, v) \in Structs /\ OneMap(Insert(s, k, v))
           /\ View(Insert(s, k, v)) = [View(s) EXCEPT ![k] = v]
<1>. v # Absent
  BY ConstantsAssumption
<1>1. CASE s.deletionOld <= MaxDeletion
  <2>1. Insert(s, k, v) = [dirtyOld |-> [s.dirtyOld EXCEPT ![k] = v],
                           dirtyNew |-> [s.dirtyNew EXCEPT ![k] = Absent],
                           deletionOld |-> s.deletionOld,
                           deletionNew |-> IF s.dirtyNew[k] # Absent THEN s.deletionNew + 1
                                          ELSE s.deletionNew]
    BY <1>1 DEF Insert, Structs
  <2>2. Insert(s, k, v) \in Structs
    BY <2>1 DEF Structs, Maps
  <2>3. OneMap(Insert(s, k, v))
    BY <2>1 DEF OneMap, Structs, Maps
  <2>4. \A j \in Keys : Lookup(Insert(s, k, v), j) = IF j = k THEN v ELSE Lookup(s, j)
    BY <2>1 DEF Lookup, Structs, Maps
  <2>. QED BY <2>2, <2>3, <2>4 DEF View
<1>2. CASE ~(s.deletionOld <= MaxDeletion)
  <2>1. Insert(s, k, v) = [dirtyOld |-> [s.dirtyOld EXCEPT ![k] = Absent],
                           dirtyNew |-> [s.dirtyNew EXCEPT ![k] = v],
                           deletionOld |-> IF s.dirtyOld[k] # Absent THEN s.deletionOld + 1
                                          ELSE s.deletionOld,
                           deletionNew |-> s.deletionNew]
    BY <1>2 DEF Insert, Structs
  <2>2. Insert(s, k, v) \in Structs
    BY <2>1 DEF Structs, Maps
  <2>3. OneMap(Insert(s, k, v))
    BY <2>1 DEF OneMap, Structs, Maps
  <2>4. \A j \in Keys : Lookup(Insert(s, k, v), j) = IF j = k THEN v ELSE Lookup(s, j)
    BY <2>1 DEF Lookup, Structs, Maps
  <2>. QED BY <2>2, <2>3, <2>4 DEF View
<1>. QED BY <1>1, <1>2
-----------------------------------------------------------------------------
Inv == m \in Structs /\ OneMap(m)

\* The invariant holds for the empty map.
LEMMA InitInv == Init => Inv
BY DEF Init, Inv, Structs, Maps, OneMap, Empty

\* Del keeps it, also when the maps are swapped or merged.
LEMMA DelInv ==
    ASSUME Inv, NEW k \in Keys, Del(k)
    PROVE  Inv' /\ View(m)' = [View(m) EXCEPT ![k] = Absent]
<1> DEFINE a == Remove(m, k)
           b == CompactOld(a)
<1>1. a \in Structs /\ OneMap(a) /\ View(a) = [View(m) EXCEPT ![k] = Absent]
  BY RemoveEffect DEF Inv
<1>. HIDE DEF a
<1>2. b \in Structs /\ OneMap(b) /\ View(b) = View(a)
  BY <1>1, CompactOldEffect
<1>. HIDE DEF b
<1>3. CompactNew(b) \in Structs /\ OneMap(CompactNew(b)) /\ View(CompactNew(b)) = View(b)
  BY <1>2, CompactNewEffect
<1>4. m' = CompactNew(b)
  BY DEF Del, a, b
<1>. QED BY <1>1, <1>2, <1>3, <1>4 DEF Inv

\* Set keeps it: a key goes to one map and leaves the other.
LEMMA SetInv ==
    ASSUME Inv, NEW k \in Keys, NEW v \in Values, Set(k, v)
    PROVE  Inv' /\ View(m)' = [View(m) EXCEPT ![k] = v]
BY InsertEffect DEF Set, Inv

\* Every step keeps the invariant.
LEMMA NextInv == Inv /\ [Next]_vars => Inv'
<1> SUFFICES ASSUME Inv, [Next]_vars PROVE Inv'
  OBVIOUS
<1>1. CASE \E k \in Keys : Del(k)
  BY <1>1, DelInv
<1>2. CASE \E k \in Keys, v \in Values : Set(k, v)
  BY <1>2, SetInv
<1>3. CASE UNCHANGED m
  BY <1>3 DEF Inv
<1>4. CASE \E k \in Keys : Get(k)
  BY <1>4, <1>3 DEF Get
<1>. QED BY <1>1, <1>2, <1>3, <1>4 DEF Next, Size, RangeOver, vars

\* The struct always has its type, and its counters never go below zero.
THEOREM TypeCorrect == Spec => []TypeOK
<1>1. Inv => TypeOK
  BY DEF Inv, TypeOK, Structs, Maps
<1>. QED BY <1>1, InitInv, NextInv, PTL DEF Spec

\* No sequence of operations leaves a key in both maps.
THEOREM Disjoint == Spec => []KeyInOneMap
<1>1. Inv => KeyInOneMap
  BY DEF Inv, KeyInOneMap, OneMap, Dom
<1>. QED BY <1>1, InitInv, NextInv, PTL DEF Spec
-----------------------------------------------------------------------------
\* Disjoint finite sets: the cardinality of the union is the sum.
LEMMA DisjointUnion ==
    ASSUME NEW A, NEW B, IsFiniteSet(A), IsFiniteSet(B), A \cap B = {}
    PROVE  Cardinality(A \cup B) = Cardinality(A) + Cardinality(B)
<1>1. Cardinality(A \cup B) = Cardinality(A) + Cardinality(B) - Cardinality(A \cap B)
  BY FS_Union
<1>2. Cardinality(A \cap B) = 0
  BY FS_EmptySet
<1>3. Cardinality(A) \in Nat /\ Cardinality(B) \in Nat
  BY FS_CardinalityType
<1>. QED BY <1>1, <1>2, <1>3

\* What a reader sees has as many entries as the two maps together.
LEMMA SizeAdds ==
    ASSUME Inv
    PROVE  /\ Dom(View(m)) = Dom(m.dirtyOld) \cup Dom(m.dirtyNew)
           /\ Cardinality(Dom(View(m))) = Cardinality(Dom(m.dirtyOld)) + Cardinality(Dom(m.dirtyNew))
<1>1. Dom(View(m)) = Dom(m.dirtyOld) \cup Dom(m.dirtyNew)
  BY DEF Dom, View, Lookup
<1>2. Dom(m.dirtyOld) \cap Dom(m.dirtyNew) = {}
  BY DEF Inv, OneMap, Dom
<1>3. IsFiniteSet(Dom(m.dirtyOld)) /\ IsFiniteSet(Dom(m.dirtyNew))
  BY ConstantsAssumption, FS_Subset DEF Dom
<1>. QED BY <1>1, <1>2, <1>3, DisjointUnion

\* A map with finitely many keys has finitely many entries.
LEMMA EntriesFinite ==
    ASSUME NEW f
    PROVE  IsFiniteSet(Entries(f))
<1> DEFINE first == [e \in Entries(f) |-> e[1]]
<1>1. first \in Injection(Entries(f), Keys)
  BY DEF Entries, Dom, Injection, IsInjective
<1>. QED BY <1>1, ConstantsAssumption, FS_Injection

\* The entries that Range goes through are entries a reader sees, each once.
LEMMA RangeAdds ==
    ASSUME Inv, NEW old \in SUBSET Entries(m.dirtyOld), NEW new \in SUBSET Entries(m.dirtyNew)
    PROVE  /\ old \cup new \in SUBSET Entries(View(m))
           /\ Cardinality(old \cup new) = Cardinality(old) + Cardinality(new)
<1>1. Entries(m.dirtyOld) \subseteq Entries(View(m))
  BY DEF Entries, Dom, View, Lookup
<1>2. Entries(m.dirtyNew) \subseteq Entries(View(m))
  BY DEF Entries, Dom, View, Lookup, Inv, OneMap
<1>3. Entries(m.dirtyOld) \cap Entries(m.dirtyNew) = {}
  BY DEF Entries, Dom, Inv, OneMap
<1>4. IsFiniteSet(Entries(m.dirtyOld)) /\ IsFiniteSet(Entries(m.dirtyNew))
  BY EntriesFinite
<1>5. IsFiniteSet(old) /\ IsFiniteSet(new) /\ old \cap new = {}
  BY <1>3, <1>4, FS_Subset
<1>6. Cardinality(old \cup new) = Cardinality(old) + Cardinality(new)
  BY <1>5, DisjointUnion
<1>. QED BY <1>1, <1>2, <1>6

\* The abstract specification counts as this one does.
LEMMA SameCardinality == \A S : Abstract!Cardinality(S) = Cardinality(S)
BY DEF Abstract!Cardinality, Cardinality

\* The empty SafeMap is the empty map.
LEMMA InitMaps == Init => Abstract!Init
BY DEF Init, Abstract!Init, Nothing, Abstract!Nothing, Lookup, Empty

\* Every step is a step of the plain map or leaves it alone.
LEMMA StepMaps == Inv /\ [Next]_vars => [Abstract!Next]_(Abstract!vars)
<1> SUFFICES ASSUME Inv, [Next]_vars PROVE [Abstract!Next]_(Abstract!vars)
  OBVIOUS
<1>. USE DEF Nothing, Abstract!Nothing
<1>1. ASSUME NEW k \in Keys, Del(k) PROVE Abstract!Del(k)
  BY <1>1, DelInv DEF Abstract!Del, Del, View
<1>2. ASSUME NEW k \in Keys, NEW v \in Values, Set(k, v) PROVE Abstract!Set(k, v)
  BY <1>2, SetInv DEF Abstract!Set, Set, View
<1>3. ASSUME NEW k \in Keys, Get(k) PROVE Abstract!Get(k)
  BY <1>3 DEF Abstract!Get, Get
<1>4. CASE Size
  <2>1. Cardinality(Abstract!Dom([k \in Keys |-> Lookup(m, k)]))
          = Cardinality(Dom(m.dirtyOld)) + Cardinality(Dom(m.dirtyNew))
    BY SizeAdds DEF Abstract!Dom, Dom, View
  <2>2. UNCHANGED [k \in Keys |-> Lookup(m, k)]
    BY <1>4 DEF Size
  <2>3. Abstract!Size
    BY <1>4, <2>1, <2>2, SameCardinality DEF Abstract!Size, Size
  <2>. QED BY <2>3 DEF Abstract!Next
<1>5. CASE RangeOver
  <2>1. PICK old \in SUBSET Entries(m.dirtyOld), new \in SUBSET Entries(m.dirtyNew) :
          out' = [op |-> "range", seen |-> old \cup new,
                  calls |-> Cardinality(old) + Cardinality(new)]
    BY <1>5 DEF RangeOver
  <2>2. old \cup new \in SUBSET Abstract!Entries([k \in Keys |-> Lookup(m, k)])
    BY RangeAdds DEF Abstract!Entries, Abstract!Dom, Entries, Dom, View
  <2>3. Cardinality(old \cup new) = Cardinality(old) + Cardinality(new)
    BY RangeAdds
  <2>4. UNCHANGED [k \in Keys |-> Lookup(m, k)]
    BY <1>5 DEF RangeOver
  <2>5. out' = [op |-> "range", seen |-> old \cup new, calls |-> Cardinality(old \cup new)]
    BY <2>1, <2>3
  <2>6. Abstract!RangeOver
    BY <2>2, <2>4, <2>5, SameCardinality, Zenon DEF Abstract!RangeOver
  <2>. QED BY <2>6 DEF Abstract!Next
<1>6. CASE UNCHANGED vars
  BY <1>6 DEF vars, Abstract!vars
<1>. QED BY <1>1, <1>2, <1>3, <1>4, <1>5, <1>6 DEF Next, Abstract!Next

\* SafeMap implements PlainMap: whatever the limits and however the entries are
\* spread over the two maps, its users see one map.
THEOREM Implements == Spec => IsPlainMap
BY InitInv, NextInv, InitMaps, StepMaps, PTL DEF Spec, IsPlainMap, Abstract!Spec
-----------------------------------------------------------------------------
(* Remainders and quotients, for the rings of the wheel and of the window *)

\* A number is its quotient and its remainder.
LEMMA DivMod ==
    ASSUME NEW n \in Nat \ {0}, NEW x \in Int
    PROVE  /\ x \div n \in Int /\ x % n \in 0 .. n - 1
           /\ x = n * (x \div n) + (x % n)
<1>1. x \div n \in Int /\ x % n \in 0 .. n - 1
  OBVIOUS
<1>2. x = n * (x \div n) + (x % n)
  BY SMTT(60)
<1> QED BY <1>1, <1>2

\* Only they are.
LEMMA DivModUnique ==
    ASSUME NEW n \in Nat \ {0}, NEW q \in Int, NEW r \in 0 .. n - 1
    PROVE  (n * q + r) % n = r /\ (n * q + r) \div n = q
  OBVIOUS

\* Remainders next to a revolution.
LEMMA ModNear ==
    ASSUME NEW n \in Nat \ {0}, NEW x \in -n .. 2 * n - 1
    PROVE  x % n = IF x < 0 THEN x + n ELSE IF x < n THEN x ELSE x - n
<1>1. CASE x \in 0 .. n - 1
  BY <1>1
<1>2. CASE x \in n .. 2 * n - 1
  BY <1>2
<1>3. CASE x \in -n .. -1
  BY <1>3
<1> QED BY <1>1, <1>2, <1>3

-----------------------------------------------------------------------------
(* TimingWheel: an item that is Ahead slots before the hand is executed after as many ticks and
   its revolutions and diff; a new delay is taken apart into these. *)

Ahead(p, h) == IF p > h THEN p - h ELSE p - h + NumSlots
Rounds(c) == c * NumSlots

\* The ticks until item e is executed, when the hand is at h.
Ticks(e, h) == Ahead(e.pos, h) + Rounds(e.circle) + e.diff

WheelTypes ==
    /\ tickedPos \in 0 .. NumSlots - 1
    /\ entries \in [WheelKeys -> TW!Entries \cup {TW!NoTimer}]
    /\ due \in [WheelKeys -> Int]
    /\ drained \in BOOLEAN

\* What has an entry is in a slot until Drain, and nothing after it.
Listed ==
    IF drained THEN \A k \in WheelKeys : ~entries[k].linked
    ELSE \A k \in WheelKeys : entries[k] = TW!NoTimer \/ entries[k].linked

\* The property of one key.
Kept(k) ==
    /\ k \in expected <=> entries[k].linked
    /\ k \in expected => Ticks(entries[k], tickedPos) - due[k] \in {-NumSlots, 0, NumSlots}
    /\ k \in expected \ moved => Ticks(entries[k], tickedPos) = due[k]

AllKept == expected \subseteq WheelKeys /\ \A k \in WheelKeys : Kept(k)

WheelInv == WheelTypes /\ Listed /\ AllKept

\* The fields of an entry, also of one that is absent.
LEMMA Fields ==
    ASSUME NEW e \in TW!Entries \cup {TW!NoTimer}
    PROVE  e.pos \in 0 .. NumSlots - 1 /\ e.circle \in Nat /\ e.diff \in 0 .. NumSlots - 1
<1>1. CASE e \in TW!Entries
  BY <1>1 DEF TW!Entries
<1>2. CASE e = TW!NoTimer
  <2>1. 0 \in 0 .. NumSlots - 1
    BY CollectionAssumption
  <2> QED BY <1>2, <2>1 DEF TW!NoTimer
<1> QED BY <1>1, <1>2

\* What the proofs need of a product.
LEMMA RoundsOf ==
    /\ Rounds(0) = 0
    /\ \A c \in Nat : Rounds(c) \in Nat /\ (c > 0 => Rounds(c - 1) = Rounds(c) - NumSlots)
<1>1. NumSlots \in Nat
  BY CollectionAssumption
<1> QED BY <1>1 DEF Rounds

\* A new entry.
LEMMA EntryOf ==
    ASSUME NEW p \in 0 .. NumSlots - 1, NEW c \in Nat
    PROVE  [pos |-> p, circle |-> c, diff |-> 0, linked |-> TRUE] \in TW!Entries
<1>1. 0 \in 0 .. NumSlots - 1
  BY CollectionAssumption
<1> QED BY <1>1 DEF TW!Entries

\* An entry that is changed.
LEMMA EntryIs ==
    ASSUME NEW e \in TW!Entries, NEW p \in 0 .. NumSlots - 1, NEW c \in Nat, NEW x \in 0 .. NumSlots - 1
    PROVE  /\ [e EXCEPT !.circle = c, !.diff = x] \in TW!Entries
           /\ [e EXCEPT !.circle = c] \in TW!Entries
           /\ [e EXCEPT !.pos = p, !.diff = x] \in TW!Entries
           /\ [e EXCEPT !.linked = FALSE] \in TW!Entries
  BY DEF TW!Entries

\* An absent entry stays absent in drainAll.
LEMMA AbsentStays == [TW!NoTimer EXCEPT !.linked = FALSE] = TW!NoTimer /\ ~TW!NoTimer.linked
<1> DEFINE S == [pos : {0}, circle : {0}, diff : {0}, linked : BOOLEAN, absent : BOOLEAN]
<1>1. TW!NoTimer \in S /\ TW!NoTimer.linked = FALSE
  BY DEF TW!NoTimer
<1>2. \A f \in S : [f EXCEPT !.linked = f.linked] = f
  OBVIOUS
<1> QED BY <1>1, <1>2

\* Ticks is what Remaining computes.
LEMMA RemainingIs ==
    ASSUME NEW e \in TW!Entries \cup {TW!NoTimer}, NEW h \in 0 .. NumSlots - 1
    PROVE  ((e.pos - h - 1) % NumSlots) + 1 + e.circle * NumSlots + e.diff = Ticks(e, h)
<1>1. e.pos \in 0 .. NumSlots - 1 /\ e.circle \in Nat /\ e.diff \in 0 .. NumSlots - 1
  BY Fields
<1>2. NumSlots \in Nat \ {0}
  BY CollectionAssumption
<1>3. (e.pos - h - 1) % NumSlots = IF e.pos > h THEN e.pos - h - 1 ELSE e.pos - h - 1 + NumSlots
  BY <1>1, <1>2, ModNear
<1>4. ((e.pos - h - 1) % NumSlots) + 1 = Ahead(e.pos, h) /\ Ahead(e.pos, h) \in Int
  BY <1>1, <1>2, <1>3 DEF Ahead
<1> QED BY <1>4 DEF Ticks, Rounds

\* The invariant gives the property.
LEMMA WheelSafe == WheelInv => TimersKept
<1> SUFFICES ASSUME WheelInv PROVE TimersKept
  OBVIOUS
<1>1. \A k \in WheelKeys : TW!Remaining(k) = Ticks(entries[k], tickedPos)
  BY RemainingIs, Zenon DEF WheelInv, WheelTypes, TW!Remaining
<1> QED BY <1>1 DEF WheelInv, AllKept, Kept, TimersKept, TW!SetOnTime, TW!MovedOnSlot, TW!NothingLost

\* A delay is the revolutions and the slots ahead that getPositionAndCircle computes.
LEMMA DelayIs ==
    ASSUME WheelTypes, NEW s \in Nat \ {0}
    PROVE  /\ TW!Circle(s) \in Nat /\ TW!Position(s) \in 0 .. NumSlots - 1
           /\ s = Ahead(TW!Position(s), tickedPos) + Rounds(TW!Circle(s))
<1> DEFINE n == NumSlots
           q == (s - 1) \div n
           r == (s - 1) % n
<1>0. NumSlots \in Nat \ {0} /\ s - 1 \in Int
  BY CollectionAssumption
<1>1. q \in Int /\ r \in 0 .. n - 1 /\ s - 1 = n * q + r
  BY <1>0, DivMod, Zenon
<1>2. q \in Nat
  <2>1. SUFFICES ASSUME q <= -1 PROVE FALSE
    BY <1>1
  <2>2. n * q <= -n
    BY <1>1, <2>1, CollectionAssumption
  <2> QED BY <1>1, <2>2, CollectionAssumption
<1> DEFINE x == tickedPos + 1 + r
<1>3. x \in 0 .. 2 * n - 1 /\ n \in Nat \ {0}
  BY <1>1, CollectionAssumption DEF WheelTypes
<1>4. x % n = IF x < n THEN x ELSE x - n
  BY <1>3, ModNear
<1>5. tickedPos + s = n * q + x
  BY <1>1, <1>3 DEF WheelTypes
<1>6. (tickedPos + s) % n = x % n
  <2>1. CASE x < n
    <3>1. x \in 0 .. n - 1
      BY <1>3, <2>1
    <3>2. (n * q + x) % n = x
      BY <1>1, <1>3, <3>1, DivModUnique
    <3> QED BY <1>4, <1>5, <2>1, <3>2
  <2>2. CASE x >= n
    <3>1. tickedPos + s = n * (q + 1) + (x - n)
      BY <1>1, <1>3, <1>5
    <3>2. q + 1 \in Int /\ x - n \in 0 .. n - 1
      BY <1>1, <1>3, <2>2
    <3>3. (n * (q + 1) + (x - n)) % n = x - n
      BY <1>3, <3>2, DivModUnique
    <3> QED BY <1>3, <1>4, <2>2, <3>1, <3>3
  <2> QED BY <1>1, <1>3, <2>1, <2>2 DEF WheelTypes
<1>7. TW!Position(s) = x % n /\ TW!Circle(s) = q
  BY <1>6 DEF TW!Position, TW!Circle
<1>8. q * n = n * q /\ n * q \in Int
  BY <1>1, <1>3
<1> HIDE DEF q, r
<1> QED BY <1>1, <1>2, <1>3, <1>4, <1>7, <1>8 DEF Ahead, Rounds, WheelTypes

\* Moving an item sets it to its delay, or a revolution away from it.
LEMMA MovedIs ==
    ASSUME WheelTypes, NEW e \in TW!Entries, e.linked, NEW s \in Nat \ {0}
    PROVE  /\ TW!Moved(e, s) \in TW!Entries /\ TW!Moved(e, s).linked
           /\ Ticks(TW!Moved(e, s), tickedPos) - s \in {-NumSlots, 0, NumSlots}
<1> DEFINE n == NumSlots
           p == TW!Position(s)
           c == TW!Circle(s)
           d == TW!Moved(e, s)
<1>1. n \in Nat \ {0} /\ tickedPos \in 0 .. n - 1
  BY CollectionAssumption DEF WheelTypes
<1>2. c \in Nat /\ p \in 0 .. n - 1 /\ s = Ahead(p, tickedPos) + Rounds(c)
  BY DelayIs
<1>3. e.pos \in 0 .. n - 1 /\ e.circle \in Nat /\ e.diff \in 0 .. n - 1
  BY DEF TW!Entries
<1>4. d = IF p >= e.pos THEN [e EXCEPT !.circle = c, !.diff = p - e.pos]
          ELSE IF c > 0 THEN [e EXCEPT !.circle = c - 1, !.diff = n + p - e.pos]
          ELSE [pos |-> p, circle |-> 0, diff |-> 0, linked |-> TRUE]
  BY DEF TW!Moved, TW!NewEntry
<1> HIDE DEF p, c, d
<1>5. CASE p >= e.pos
  <2>1. p - e.pos \in 0 .. n - 1
    BY <1>1, <1>2, <1>3, <1>5
  <2>2. d \in TW!Entries /\ d.linked /\ d.pos = e.pos /\ d.circle = c /\ d.diff = p - e.pos
    <3>1. d = [e EXCEPT !.circle = c, !.diff = p - e.pos]
      BY <1>4, <1>5
    <3> QED BY <1>2, <2>1, <3>1, EntryIs DEF TW!Entries
  <2>3. Ticks(d, tickedPos) - s \in {-n, 0, n}
    BY <1>1, <1>2, <1>3, <1>5, <2>2, RoundsOf DEF Ticks, Ahead
  <2> QED BY <2>2, <2>3 DEF d
<1>6. CASE p < e.pos /\ c > 0
  <2>1. n + p - e.pos \in 0 .. n - 1 /\ c - 1 \in Nat
    BY <1>1, <1>2, <1>3, <1>6
  <2>2. d \in TW!Entries /\ d.linked /\ d.pos = e.pos /\ d.circle = c - 1 /\ d.diff = n + p - e.pos
    <3>1. d = [e EXCEPT !.circle = c - 1, !.diff = n + p - e.pos]
      BY <1>2, <1>3, <1>4, <1>6
    <3> QED BY <2>1, <3>1, EntryIs DEF TW!Entries
  <2>3. Ticks(d, tickedPos) - s \in {-n, 0, n}
    <3>1. Rounds(c) \in Nat /\ Rounds(c - 1) = Rounds(c) - n
      BY <1>2, <1>6, RoundsOf
    <3> QED BY <1>1, <1>2, <1>3, <1>6, <2>2, <3>1 DEF Ticks, Ahead
  <2> QED BY <2>2, <2>3 DEF d
<1>7. CASE p < e.pos /\ c = 0
  <2>1. d = [pos |-> p, circle |-> 0, diff |-> 0, linked |-> TRUE]
    BY <1>2, <1>3, <1>4, <1>7
  <2>2. d \in TW!Entries
    BY <1>2, <2>1, EntryOf
  <2>3. Ticks(d, tickedPos) - s \in {-n, 0, n}
    BY <1>1, <1>2, <1>7, <2>1, RoundsOf DEF Ticks, Ahead
  <2> QED BY <2>1, <2>2, <2>3 DEF d
<1> QED BY <1>2, <1>3, <1>5, <1>6, <1>7

\* A new item is set to its delay.
LEMMA NewIs ==
    ASSUME WheelTypes, NEW s \in Nat \ {0}
    PROVE  LET d == TW!NewEntry(s, TW!Circle(s)) IN
           d \in TW!Entries /\ d.linked /\ Ticks(d, tickedPos) = s
<1> DEFINE p == TW!Position(s)
           c == TW!Circle(s)
           d == [pos |-> p, circle |-> c, diff |-> 0, linked |-> TRUE]
<1>1. c \in Nat /\ p \in 0 .. NumSlots - 1 /\ s = Ahead(p, tickedPos) + Rounds(c)
  BY DelayIs
<1>2. d = TW!NewEntry(s, TW!Circle(s))
  BY DEF TW!NewEntry
<1>3. d \in TW!Entries /\ d.linked
  BY <1>1, EntryOf
<1>4. Ticks(d, tickedPos) = s
  <2> HIDE DEF p, c
  <2> QED BY <1>1, CollectionAssumption, RoundsOf DEF Ticks, Ahead, WheelTypes
<1> QED BY <1>2, <1>3, <1>4, Zenon

\* The hand goes round.
LEMMA NextSlot ==
    ASSUME NEW t \in 0 .. NumSlots - 1
    PROVE  (t + 1) % NumSlots = IF t = NumSlots - 1 THEN 0 ELSE t + 1
<1>1. NumSlots \in Nat \ {0}
  BY CollectionAssumption
<1> QED BY <1>1, ModNear

\* A tick brings an item one tick nearer, until it is executed.
LEMMA ScannedIs ==
    ASSUME NEW e \in TW!Entries, e.linked, NEW t \in 0 .. NumSlots - 1, NEW h \in 0 .. NumSlots - 1,
           h = IF t = NumSlots - 1 THEN 0 ELSE t + 1
    PROVE  LET d == IF e.pos = h THEN TW!Scanned(e, h) ELSE e IN
           \/ d = TW!NoTimer /\ e.pos = h
           \/ d \in TW!Entries /\ d.linked /\ Ticks(d, h) = Ticks(e, t) - 1
<1> DEFINE n == NumSlots
           d == IF e.pos = h THEN TW!Scanned(e, h) ELSE e
<1>1. n \in Nat \ {0}
  BY CollectionAssumption
<1>2. e.pos \in 0 .. n - 1 /\ e.circle \in Nat /\ e.diff \in 0 .. n - 1
  BY DEF TW!Entries
<1>3. CASE e.pos # h
  <2>1. Ticks(e, h) = Ticks(e, t) - 1
    <3>1. Ahead(e.pos, h) = Ahead(e.pos, t) - 1 /\ Ahead(e.pos, t) \in Int
      BY <1>1, <1>2, <1>3 DEF Ahead
    <3>2. Rounds(e.circle) \in Nat
      BY <1>2, RoundsOf
    <3> QED BY <1>2, <3>1, <3>2 DEF Ticks
  <2> QED BY <1>3, <2>1
<1>4. CASE e.pos = h /\ e.circle > 0
  <2>1. d = [e EXCEPT !.circle = e.circle - 1]
    BY <1>4 DEF TW!Scanned, TW!Entries
  <2> HIDE DEF d
  <2>2. d \in TW!Entries /\ d.linked /\ d.pos = h /\ d.circle = e.circle - 1 /\ d.diff = e.diff
    <3>1. e.circle - 1 \in Nat
      BY <1>2, <1>4
    <3>2. d \in TW!Entries
      BY <1>2, <2>1, <3>1, EntryIs, Zenon
    <3> QED BY <1>4, <2>1, <3>2 DEF TW!Entries
  <2>3. Ticks(d, h) = Ticks(e, t) - 1
    BY <1>1, <1>2, <1>4, <2>2, RoundsOf DEF Ticks, Ahead
  <2> QED BY <2>2, <2>3 DEF d
<1>5. CASE e.pos = h /\ e.circle = 0 /\ e.diff > 0
  <2> DEFINE x == h + e.diff
             y == x % n
  <2>1. x \in -n .. 2 * n - 1 /\ x >= 0
    BY <1>1, <1>2
  <2>2. y = IF x < 0 THEN x + n ELSE IF x < n THEN x ELSE x - n
    BY <1>1, <2>1, ModNear, Zenon
  <2>3. d = [e EXCEPT !.pos = y, !.diff = 0]
    BY <1>5 DEF TW!Scanned, TW!Entries
  <2> HIDE DEF y, d
  <2>4. y \in 0 .. n - 1 /\ 0 \in 0 .. n - 1 /\ y = IF x < n THEN x ELSE x - n
    BY <1>1, <2>1, <2>2
  <2>5. d \in TW!Entries /\ d.linked /\ d.pos = y /\ d.circle = 0 /\ d.diff = 0
    <3>1. d \in TW!Entries
      BY <2>3, <2>4, EntryIs, Zenon
    <3> QED BY <1>5, <2>3, <3>1 DEF TW!Entries
  <2>6. Ticks(d, h) = Ticks(e, t) - 1
    BY <1>1, <1>2, <1>5, <2>4, <2>5, RoundsOf DEF Ticks, Ahead
  <2> QED BY <2>5, <2>6 DEF d
<1>6. CASE e.pos = h /\ e.circle = 0 /\ e.diff = 0
  BY <1>6 DEF TW!Scanned
<1> QED BY <1>2, <1>3, <1>4, <1>5, <1>6

\* The wheel is empty at first.
LEMMA WheelInit == TW!Init => WheelInv
<1> SUFFICES ASSUME TW!Init PROVE WheelInv
  OBVIOUS
<1>1. tickedPos \in 0 .. NumSlots - 1
  BY CollectionAssumption DEF TW!Init
<1>2. WheelTypes /\ Listed
  <2>1. 0 \in Int
    OBVIOUS
  <2> QED BY <1>1, <2>1, Zenon DEF TW!Init, WheelTypes, Listed
<1>3. AllKept
  BY DEF TW!Init, AllKept, Kept, TW!NoTimer
<1> QED BY <1>2, <1>3 DEF WheelInv

\* SetTimer and MoveTimer of key k put an item at delay s.
LEMMA ItemSet ==
    ASSUME WheelInv, ~drained, NEW k \in WheelKeys, NEW s \in Nat \ {0}, UNCHANGED <<tickedPos, drained>>,
           NEW d, entries' = [entries EXCEPT ![k] = d], due' = [due EXCEPT ![k] = s],
           \/ entries[k] = TW!NoTimer /\ d = TW!NewEntry(s, TW!Circle(s)) /\ moved' = moved \ {k}
           \/ entries[k] # TW!NoTimer /\ d = TW!Moved(entries[k], s) /\ moved' = moved \cup {k},
           expected' = expected \cup {k}
    PROVE  WheelInv'
<1> USE DEF WheelInv
<1>1. /\ d \in TW!Entries /\ d.linked
      /\ Ticks(d, tickedPos) - s \in {-NumSlots, 0, NumSlots}
      /\ entries[k] = TW!NoTimer => Ticks(d, tickedPos) = s
  <2>1. CASE entries[k] = TW!NoTimer
    <3>1. d \in TW!Entries /\ d.linked /\ Ticks(d, tickedPos) = s
      BY <2>1, NewIs, Zenon
    <3> QED BY <2>1, <3>1, CollectionAssumption
  <2>2. CASE entries[k] # TW!NoTimer
    <3>1. entries[k] \in TW!Entries /\ entries[k].linked
      BY <2>2 DEF WheelTypes, Listed
    <3> QED BY <2>2, <3>1, MovedIs
  <2> QED BY <2>1, <2>2
<1>2. WheelTypes' /\ Listed'
  BY <1>1 DEF WheelTypes, Listed
<1>3. ASSUME NEW j \in WheelKeys PROVE Kept(j)'
  <2>1. CASE j = k
    BY <1>1, <2>1 DEF Kept, WheelTypes
  <2>2. CASE j # k
    BY <2>2 DEF AllKept, Kept, WheelTypes
  <2> QED BY <2>1, <2>2
<1> QED BY <1>2, <1>3 DEF AllKept

\* A tick changes every item by one tick.
LEMMA WheelTick == WheelInv /\ TW!Tick => WheelInv'
<1> SUFFICES ASSUME WheelInv, TW!Tick PROVE WheelInv'
  OBVIOUS
<1> USE DEF WheelInv
<1> DEFINE h == (tickedPos + 1) % NumSlots
           slot == {k \in WheelKeys : entries[k].linked /\ entries[k].pos = h}
           runs == {k \in slot : TW!Scanned(entries[k], h) = TW!NoTimer}
<1>1. /\ tickedPos' = h /\ UNCHANGED <<drained, moved>>
      /\ entries' = [k \in WheelKeys |-> IF k \in slot THEN TW!Scanned(entries[k], h) ELSE entries[k]]
      /\ due' = [k \in WheelKeys |-> IF k \notin expected \ runs THEN 0
                                    ELSE IF due[k] > -NumSlots THEN due[k] - 1 ELSE due[k]]
      /\ expected' = expected \ runs
  BY Zenon DEF TW!Tick
<1>2. h \in 0 .. NumSlots - 1 /\ NumSlots \in Nat \ {0}
  BY DivMod, CollectionAssumption DEF WheelTypes
<1>3. ASSUME NEW k \in WheelKeys, k \in expected
      PROVE  \/ entries'[k] = TW!NoTimer /\ k \in runs
             \/ /\ entries'[k] \in TW!Entries /\ entries'[k].linked /\ k \notin runs
                /\ Ticks(entries'[k], h) = Ticks(entries[k], tickedPos) - 1
  <2>1. entries[k].linked /\ entries[k] \in TW!Entries
    BY <1>3 DEF AllKept, Kept, WheelTypes, TW!NoTimer
  <2>2. entries'[k] = IF entries[k].pos = h THEN TW!Scanned(entries[k], h) ELSE entries[k]
    BY <1>1, <2>1
  <2>3. \/ entries'[k] = TW!NoTimer /\ entries[k].pos = h
        \/ /\ entries'[k] \in TW!Entries /\ entries'[k].linked
           /\ Ticks(entries'[k], h) = Ticks(entries[k], tickedPos) - 1
    <3>1. h = IF tickedPos = NumSlots - 1 THEN 0 ELSE tickedPos + 1
      BY NextSlot, Zenon DEF WheelTypes
    <3>2. tickedPos \in 0 .. NumSlots - 1
      BY DEF WheelTypes
    <3> HIDE DEF h
    <3>3. LET d == IF entries[k].pos = h THEN TW!Scanned(entries[k], h) ELSE entries[k] IN
          \/ d = TW!NoTimer /\ entries[k].pos = h
          \/ d \in TW!Entries /\ d.linked /\ Ticks(d, h) = Ticks(entries[k], tickedPos) - 1
      BY <1>2, <2>1, <3>1, <3>2, ScannedIs
    <3> QED BY <2>2, <3>3
  <2>4. ~TW!NoTimer.linked
    BY DEF TW!NoTimer
  <2> QED BY <2>1, <2>2, <2>3, <2>4
<1>4. ASSUME NEW k \in WheelKeys, k \notin expected
      PROVE  entries'[k] = entries[k] /\ ~entries[k].linked
  BY <1>1, <1>4 DEF AllKept, Kept
<1> HIDE DEF h, slot, runs
<1>5. ASSUME NEW k \in WheelKeys, k \in expected, k \notin runs
      PROVE  due'[k] = due[k] - 1 /\ due[k] \in Int /\ Ticks(entries[k], tickedPos) \in Int
  <2>1. Ticks(entries[k], tickedPos) \in Int /\ Ticks(entries[k], tickedPos) >= 1
    <3>1. /\ entries[k].pos \in 0 .. NumSlots - 1 /\ entries[k].circle \in Nat
          /\ entries[k].diff \in 0 .. NumSlots - 1
      BY Fields DEF WheelTypes
    <3> QED BY <1>2, <3>1, RoundsOf DEF Ticks, Ahead, WheelTypes
  <2>2. Ticks(entries[k], tickedPos) - due[k] \in {-NumSlots, 0, NumSlots} /\ due[k] \in Int
    BY <1>5 DEF AllKept, Kept, WheelTypes
  <2>3. due[k] > -NumSlots
    BY <1>2, <2>1, <2>2
  <2> QED BY <1>1, <1>5, <2>1, <2>2, <2>3
<1>6. \A k \in WheelKeys : entries'[k] \in TW!Entries \cup {TW!NoTimer} /\ due'[k] \in Int
  BY <1>1, <1>3, <1>4, <1>5 DEF WheelTypes
<1>7. WheelTypes'
  <2>1. DOMAIN entries' = WheelKeys /\ DOMAIN due' = WheelKeys
    BY <1>1
  <2> QED BY <1>1, <1>2, <1>6, <2>1 DEF WheelTypes
<1>8. Listed'
  BY <1>1, <1>3, <1>4 DEF Listed, AllKept, Kept
<1>9. ASSUME NEW k \in WheelKeys PROVE Kept(k)'
  <2>1. CASE k \notin expected
    BY <1>1, <1>4, <2>1 DEF Kept
  <2>2. CASE k \in runs /\ k \in expected
    BY <1>1, <1>3, <2>2 DEF Kept, TW!NoTimer
  <2>3. CASE k \notin runs /\ k \in expected
    <3>1. Kept(k) /\ k \in expected'
      BY <1>1, <2>3 DEF AllKept
    <3>2. /\ entries'[k].linked /\ Ticks(entries'[k], h) = Ticks(entries[k], tickedPos) - 1
          /\ due'[k] = due[k] - 1 /\ due[k] \in Int /\ Ticks(entries[k], tickedPos) \in Int
      BY <1>3, <1>5, <2>3
    <3>3. Ticks(entries'[k], h) - due'[k] = Ticks(entries[k], tickedPos) - due[k]
      BY <3>2
    <3> QED BY <1>1, <2>3, <3>1, <3>2, <3>3 DEF Kept
  <2> QED BY <2>1, <2>2, <2>3
<1> QED BY <1>1, <1>7, <1>8, <1>9 DEF AllKept

\* Every step of the wheel keeps the invariant.
LEMMA WheelNext == WheelInv /\ [TW!Next]_wheel => WheelInv'
<1> SUFFICES ASSUME WheelInv, [TW!Next]_wheel PROVE WheelInv'
  OBVIOUS
<1>1. ASSUME NEW k \in WheelKeys, NEW n \in 0 .. MaxSteps, TW!SetTimer(k, n) PROVE WheelInv'
  <2> DEFINE s == TW!AtLeastOne(n)
  <2>1. s \in Nat \ {0}
    BY CollectionAssumption DEF TW!AtLeastOne
  <2> HIDE DEF s
  <2>2. ~drained /\ UNCHANGED <<tickedPos, drained>>
    BY <1>1 DEF TW!SetTimer, TW!Accept
  <2>3. /\ entries' = [entries EXCEPT ![k] = IF @ = TW!NoTimer THEN TW!NewEntry(s, TW!Circle(s))
                                             ELSE TW!Moved(@, s)]
        /\ due' = [due EXCEPT ![k] = s] /\ expected' = expected \cup {k}
        /\ moved' = IF entries[k] = TW!NoTimer THEN moved \ {k} ELSE moved \cup {k}
    BY <1>1 DEF TW!SetTimer, s
  <2> QED BY <2>1, <2>2, <2>3, ItemSet
<1>2. ASSUME NEW k \in WheelKeys, NEW n \in 0 .. MaxSteps, TW!MoveTimer(k, n) PROVE WheelInv'
  <2>1. n \in Nat \ {0} /\ ~drained /\ UNCHANGED <<tickedPos, drained>> /\ entries[k] # TW!NoTimer
    BY <1>2, CollectionAssumption DEF TW!MoveTimer, TW!Accept
  <2>2. /\ entries' = [entries EXCEPT ![k] = TW!Moved(@, n)]
        /\ due' = [due EXCEPT ![k] = n] /\ expected' = expected /\ moved' = moved \cup {k}
    BY <1>2 DEF TW!MoveTimer
  <2>3. expected = expected \cup {k}
    BY <2>1 DEF WheelInv, Listed, AllKept, Kept
  <2> QED BY <2>1, <2>2, <2>3, ItemSet
<1>3. ASSUME NEW k \in WheelKeys, TW!RemoveTimer(k) PROVE WheelInv'
  <2>1. /\ entries' = [entries EXCEPT ![k] = TW!NoTimer] /\ expected' = expected \ {k}
        /\ UNCHANGED <<tickedPos, drained, due, moved>>
    BY <1>3 DEF TW!RemoveTimer, TW!Accept
  <2>2. ~TW!NoTimer.linked
    BY DEF TW!NoTimer
  <2> QED BY <2>1, <2>2 DEF WheelInv, WheelTypes, Listed, AllKept, Kept
<1>4. CASE TW!Drain
  <2>1. /\ entries' = [k \in WheelKeys |-> [entries[k] EXCEPT !.linked = FALSE]] /\ expected' = {}
        /\ drained' = TRUE /\ UNCHANGED <<tickedPos, due, moved>>
    BY <1>4 DEF TW!Drain, TW!Accept
  <2>2. \A k \in WheelKeys : entries'[k] \in TW!Entries \cup {TW!NoTimer} /\ ~entries'[k].linked
    <3> SUFFICES ASSUME NEW k \in WheelKeys
                 PROVE  entries'[k] \in TW!Entries \cup {TW!NoTimer} /\ ~entries'[k].linked
      OBVIOUS
    <3>1. entries'[k] = [entries[k] EXCEPT !.linked = FALSE]
      BY <2>1
    <3>2. CASE entries[k] \in TW!Entries
      BY <3>1, <3>2 DEF TW!Entries
    <3>3. CASE entries[k] = TW!NoTimer
      BY <3>1, <3>3, AbsentStays
    <3> QED BY <3>2, <3>3 DEF WheelInv, WheelTypes
  <2> QED BY <2>1, <2>2 DEF WheelInv, WheelTypes, Listed, AllKept, Kept
<1>5. CASE UNCHANGED <<tickedPos, entries, drained, expected, due, moved>>
  BY <1>5 DEF WheelInv, WheelTypes, Listed, AllKept, Kept
<1>6. CASE TW!Tick
  BY <1>6, WheelTick
<1> QED BY <1>1, <1>2, <1>3, <1>4, <1>5, <1>6
        DEF TW!Next, wheel, TW!MoveTimerSoon, TW!MoveTimerAbsent, TW!Stop, TW!Quit, TW!Accept, TW!history

\* For any slots, keys and delays a timer that was not moved is executed when its delay has passed,
\* one that was moved then or a revolution away, and no pending timer is lost.
THEOREM TimersAreKept == TW!Init /\ [][TW!Next]_wheel => []TimersKept
  BY WheelInit, WheelNext, WheelSafe, PTL
-----------------------------------------------------------------------------
(* RollingWindow: the addition that is Rank intervals older than the current bucket is that many
   buckets before it in the ring, and nowhere else. *)

Q(t) == t \div Interval

\* The bucket that is a before bucket o in the ring.
Before(o, a) == IF o >= a THEN o - a ELSE o - a + Buckets

\* The s buckets after o.
After(o, s) == {(o + i) % Buckets : i \in 1 .. s}

Rank(v) == Q(lastTime) - v.at - (slips - v.slips)

WindowTypes ==
    /\ now \in Nat /\ lastTime \in 0 .. now /\ lastTime = Interval * Q(lastTime)
    /\ offset \in 0 .. Buckets - 1 /\ slips \in Int /\ DOMAIN buckets = 0 .. Buckets - 1
    /\ added \subseteq [at : Int, slips : Int]

\* An addition of rank a is in the bucket Before(offset, a).
InBucket(v) ==
    /\ Rank(v) \in Nat
    /\ \A b \in 0 .. Buckets - 1 : v \in buckets[b] <=> Rank(v) < Buckets /\ b = Before(offset, Rank(v))

WindowInv ==
    /\ WindowTypes
    /\ \A b \in 0 .. Buckets - 1 : buckets[b] \subseteq added
    /\ \A v \in added : InBucket(v)

\* The buckets that expire are those of the additions that leave the window.
LEMMA ExpiredIs ==
    ASSUME NEW o \in 0 .. Buckets - 1, NEW a \in 0 .. Buckets - 1, NEW s \in 0 .. Buckets
    PROVE  Before(o, a) \in {(o + i) % Buckets : i \in 1 .. s} <=> a + s >= Buckets
<1>1. Buckets \in Nat \ {0}
  BY CollectionAssumption
<1>2. \A i \in 1 .. s : (o + i) % Buckets = IF o + i < Buckets THEN o + i ELSE o + i - Buckets
  <2> SUFFICES ASSUME NEW i \in 1 .. s
               PROVE  (o + i) % Buckets = IF o + i < Buckets THEN o + i ELSE o + i - Buckets
    OBVIOUS
  <2> DEFINE x == o + i
             y == x % Buckets
  <2>1. x \in -Buckets .. 2 * Buckets - 1 /\ x >= 0
    BY <1>1
  <2>2. y = IF x < 0 THEN x + Buckets ELSE IF x < Buckets THEN x ELSE x - Buckets
    BY <1>1, <2>1, ModNear, Zenon
  <2> HIDE DEF y
  <2>3. y = IF o + i < Buckets THEN o + i ELSE o + i - Buckets
    BY <1>1, <2>1, <2>2
  <2> QED BY <2>3 DEF y
<1>3. ASSUME NEW i \in 1 .. s, Before(o, a) = (o + i) % Buckets PROVE a + s >= Buckets
  <2>1. Before(o, a) = IF o + i < Buckets THEN o + i ELSE o + i - Buckets
    BY <1>2, <1>3
  <2> QED BY <1>1, <2>1 DEF Before
<1>4. ASSUME a + s >= Buckets PROVE \E i \in 1 .. s : Before(o, a) = (o + i) % Buckets
  <2>1. Buckets - a \in 1 .. s
    BY <1>1, <1>4
  <2>2. Before(o, a) = IF o + (Buckets - a) < Buckets THEN o + (Buckets - a) ELSE o + (Buckets - a) - Buckets
    BY <1>1 DEF Before
  <2>3. Before(o, a) = (o + (Buckets - a)) % Buckets
    BY <1>2, <2>1, <2>2
  <2> QED BY <2>1, <2>3
<1> QED BY <1>3, <1>4

\* The buckets that Reduce visits.
LEMMA VisitedIs ==
    ASSUME NEW o \in 0 .. Buckets - 1, NEW a \in 0 .. Buckets - 1, NEW s \in 0 .. Buckets,
           NEW cnt \in Int, cnt <= Buckets - s
    PROVE  /\ \A i \in 0 .. cnt - 1 : (o + s + 1 + i) % Buckets \in 0 .. Buckets - 1
           /\ (\E i \in 0 .. cnt - 1 : (o + s + 1 + i) % Buckets = Before(o, a))
                <=> a + s < Buckets /\ Buckets - a - s <= cnt
<1>1. Buckets \in Nat \ {0}
  BY CollectionAssumption
<1> DEFINE V(i) == IF o + s + 1 + i < Buckets THEN o + s + 1 + i ELSE o + s + 1 + i - Buckets
<1>2. \A i \in 0 .. cnt - 1 : (o + s + 1 + i) % Buckets = V(i) /\ V(i) \in 0 .. Buckets - 1
  <2> SUFFICES ASSUME NEW i \in 0 .. cnt - 1
               PROVE  (o + s + 1 + i) % Buckets = V(i) /\ V(i) \in 0 .. Buckets - 1
    OBVIOUS
  <2> DEFINE x == o + s + 1 + i
  <2>1. x \in -Buckets .. 2 * Buckets - 1 /\ x >= 0
    BY <1>1
  <2>2. x % Buckets = IF x < 0 THEN x + Buckets ELSE IF x < Buckets THEN x ELSE x - Buckets
    BY <1>1, <2>1, ModNear, Zenon
  <2> QED BY <1>1, <2>1, <2>2
<1>3. ASSUME NEW i \in 0 .. cnt - 1, (o + s + 1 + i) % Buckets = Before(o, a)
      PROVE  a + s < Buckets /\ Buckets - a - s <= cnt
  <2>1. V(i) = Before(o, a)
    BY <1>2, <1>3
  <2> QED BY <1>1, <2>1 DEF Before
<1>4. ASSUME a + s < Buckets, Buckets - a - s <= cnt
      PROVE  \E i \in 0 .. cnt - 1 : (o + s + 1 + i) % Buckets = Before(o, a)
  <2> DEFINE i == Buckets - a - s - 1
  <2>1. i \in 0 .. cnt - 1 /\ V(i) = Before(o, a)
    BY <1>1, <1>4 DEF Before
  <2>2. (o + s + 1 + i) % Buckets = Before(o, a)
    BY <1>2, <2>1
  <2> QED BY <2>1, <2>2
<1> QED BY <1>2, <1>3, <1>4

\* Whole intervals between two times, when the first is aligned.
LEMMA Intervals ==
    ASSUME NEW l \in Nat, l = Interval * Q(l), NEW t \in Nat, l <= t
    PROVE  /\ (t - l) \div Interval = Q(t) - Q(l) /\ Q(t) - Q(l) \in Nat /\ Q(l) \in Int /\ Q(t) \in Int
           /\ t - ((t - l) % Interval) = Interval * Q(t) /\ Interval * Q(t) \in 0 .. t
           /\ Q(Interval * Q(t)) = Q(t)
<1> DEFINE n == Interval
           a == Q(l)
           b == Q(t)
           r == t % n
<1>1. n \in Nat \ {0}
  BY CollectionAssumption
<1>2. b \in Int /\ r \in 0 .. n - 1 /\ t = n * b + r /\ a \in Int
  <2>1. b \in Int /\ r \in 0 .. n - 1 /\ t = n * b + r
    BY <1>1, DivMod DEF Q
  <2>2. a \in Int
    BY <1>1, DivMod DEF Q
  <2> QED BY <2>1, <2>2
<1> HIDE DEF a, b, r
<1>3. l = n * a
  BY DEF a
<1>4. (t - l) % n = r /\ (t - l) \div n = b - a
  <2>1. t - l = n * (b - a) + r /\ b - a \in Int
    BY <1>1, <1>2, <1>3
  <2> QED BY <1>1, <1>2, <2>1, DivModUnique
<1>5. b - a \in Nat
  <2>1. SUFFICES ASSUME b - a <= -1 PROVE FALSE
    BY <1>2
  <2>2. n * (b - a) <= -n
    BY <1>1, <1>2, <2>1
  <2>3. t - l = n * (b - a) + r
    BY <1>1, <1>2, <1>3
  <2> QED BY <1>1, <1>2, <2>2, <2>3
<1>6. n * b \in Int /\ n * a \in Int
  BY <1>1, <1>2
<1>7. n * b >= n * a
  <2>1. n * (b - a) >= 0
    BY <1>1, <1>5
  <2>2. n * (b - a) = n * b - n * a
    BY <1>1, <1>2
  <2> QED BY <1>6, <2>1, <2>2
<1>8. t - r = n * b /\ n * b \in 0 .. t
  BY <1>1, <1>2, <1>3, <1>6, <1>7
<1>9. (n * b) \div n = b
  <2>1. 0 \in 0 .. n - 1 /\ n * b + 0 = n * b
    BY <1>1, <1>6
  <2>2. (n * b + 0) \div n = b
    BY <1>1, <1>2, <2>1, DivModUnique
  <2> QED BY <2>1, <2>2
<1> QED BY <1>2, <1>4, <1>5, <1>8, <1>9 DEF Q, a, b

\* Going s buckets on from o, the bucket a before is the one a + s before the new one.
LEMMA BeforeMoved ==
    ASSUME NEW o \in 0 .. Buckets - 1, NEW s \in 0 .. Buckets, NEW a \in Nat, a + s < Buckets
    PROVE  Before((o + s) % Buckets, a + s) = Before(o, a)
<1>1. Buckets \in Nat \ {0}
  BY CollectionAssumption
<1> DEFINE x == o + s
           y == x % Buckets
<1>2. x \in -Buckets .. 2 * Buckets - 1 /\ x >= 0
  BY <1>1
<1>3. y = IF x < 0 THEN x + Buckets ELSE IF x < Buckets THEN x ELSE x - Buckets
  BY <1>1, <1>2, ModNear, Zenon
<1> HIDE DEF y
<1>4. Before(y, a + s) = Before(o, a)
  BY <1>1, <1>2, <1>3 DEF Before
<1> QED BY <1>4 DEF y

\* Intervals since the current bucket began.
Gap == Q(now) - Q(lastTime)

\* span is the gap, at most the whole ring.
LEMMA SpanIs ==
    ASSUME WindowTypes
    PROVE  /\ Gap \in Nat /\ Q(now) \in Int /\ Q(lastTime) \in Int
           /\ RW!Span(now) = (IF Gap < Buckets THEN Gap ELSE Buckets)
           /\ RW!Span(now) \in 0 .. Buckets
<1>1. lastTime \in Nat /\ now \in Nat /\ lastTime <= now /\ lastTime = Interval * Q(lastTime)
  BY DEF WindowTypes
<1>2. (now - lastTime) \div Interval = Gap /\ Gap \in Nat /\ Q(now) \in Int /\ Q(lastTime) \in Int
  BY <1>1, Intervals DEF Gap
<1>3. RW!Span(now) = IF Gap < Buckets THEN Gap ELSE Buckets
  BY <1>2 DEF RW!Span
<1> QED BY <1>2, <1>3, CollectionAssumption

\* The invariant gives the property.
LEMMA WindowSafe == WindowInv => WindowExact
<1> SUFFICES ASSUME WindowInv, NEW v \in added, NEW ignore \in BOOLEAN
             PROVE  v \in RW!Reduced(ignore) <=> RW!Age(v) \in (IF ignore THEN 1 ELSE 0) .. Buckets - 1
  BY DEF WindowExact, RW!WindowExact
<1> DEFINE s == RW!Span(now)
           cnt == IF s = 0 /\ ignore THEN Buckets - 1 ELSE Buckets - s
           a == Rank(v)
<1>1. Buckets \in Nat \ {0} /\ offset \in 0 .. Buckets - 1
  BY CollectionAssumption DEF WindowInv, WindowTypes
<1>2. /\ Gap \in Nat /\ Q(now) \in Int /\ Q(lastTime) \in Int
      /\ s = (IF Gap < Buckets THEN Gap ELSE Buckets) /\ s \in 0 .. Buckets
  BY SpanIs DEF WindowInv
<1>3. /\ a \in Nat
      /\ \A b \in 0 .. Buckets - 1 : v \in buckets[b] <=> a < Buckets /\ b = Before(offset, a)
  BY DEF WindowInv, InBucket
<1>4. RW!Age(v) = a + Gap
  <2>1. v.at \in Int /\ v.slips \in Int /\ slips \in Int
    BY DEF WindowInv, WindowTypes
  <2> QED BY <1>2, <2>1 DEF RW!Age, Rank, Gap, Q
<1>5. v \in RW!Reduced(ignore) <=> \E i \in 0 .. cnt - 1 : v \in buckets[(offset + s + 1 + i) % Buckets]
  BY Zenon DEF RW!Reduced
<1> HIDE DEF s, cnt, a
<1>6. cnt \in Int /\ cnt <= Buckets - s
  BY <1>1, <1>2 DEF cnt
<1>7. v \in RW!Reduced(ignore) <=> a < Buckets /\ a + s < Buckets /\ Buckets - a - s <= cnt
  <2>1. CASE a < Buckets
    <3>1. a \in 0 .. Buckets - 1
      BY <1>1, <1>3, <2>1
    <3>2. /\ \A i \in 0 .. cnt - 1 : (offset + s + 1 + i) % Buckets \in 0 .. Buckets - 1
          /\ (\E i \in 0 .. cnt - 1 : (offset + s + 1 + i) % Buckets = Before(offset, a))
                <=> a + s < Buckets /\ Buckets - a - s <= cnt
      BY <1>1, <1>2, <1>6, <3>1, VisitedIs
    <3> QED BY <1>3, <1>5, <2>1, <3>2, Zenon
  <2>2. CASE ~(a < Buckets)
    <3>1. \A i \in 0 .. cnt - 1 : (offset + s + 1 + i) % Buckets \in 0 .. Buckets - 1
      BY <1>1, <1>2, <1>6, VisitedIs
    <3> QED BY <1>3, <1>5, <2>2, <3>1, Zenon
  <2> QED BY <2>1, <2>2
<1> QED BY <1>1, <1>2, <1>3, <1>4, <1>7 DEF cnt

\* The window is empty at first.
LEMMA WindowStart == RW!Init => WindowInv
<1> SUFFICES ASSUME RW!Init PROVE WindowInv
  OBVIOUS
<1>1. Q(0) = 0
  BY CollectionAssumption DEF Q
<1>2. WindowTypes
  BY <1>1, CollectionAssumption DEF RW!Init, WindowTypes
<1> QED BY <1>2 DEF RW!Init, WindowInv

\* Where an addition is after s buckets expired, g intervals after the last one.
LEMMA StillThere ==
    ASSUME NEW o \in 0 .. Buckets - 1, NEW a \in Nat, NEW g \in Nat, NEW b \in 0 .. Buckets - 1,
           NEW s \in 0 .. Buckets, g < Buckets => s = g, g >= Buckets => s = Buckets
    PROVE  (b \notin After(o, s) /\ a < Buckets /\ b = Before(o, a))
             <=> a + g < Buckets /\ b = Before((o + s) % Buckets, a + g)
<1>1. Buckets \in Nat \ {0} /\ s \in 0 .. Buckets
  BY CollectionAssumption
<1>2. CASE a + g < Buckets
  <2>1. a \in 0 .. Buckets - 1 /\ s = g
    BY <1>1, <1>2
  <2>2. Before((o + s) % Buckets, a + s) = Before(o, a)
    BY <1>1, <1>2, <2>1, BeforeMoved
  <2>3. ~(a + s >= Buckets)
    BY <1>1, <1>2, <2>1
  <2>4. Before(o, a) \notin After(o, s)
    BY <1>1, <2>1, <2>3, ExpiredIs DEF After
  <2>5. a < Buckets
    BY <1>1, <2>1
  <2> QED BY <1>2, <2>1, <2>2, <2>4, <2>5, Zenon
<1>3. CASE ~(a + g < Buckets) /\ a < Buckets
  <2>1. a \in 0 .. Buckets - 1 /\ a + s >= Buckets
    BY <1>1, <1>3
  <2>2. Before(o, a) \in After(o, s)
    BY <1>1, <2>1, ExpiredIs DEF After
  <2> QED BY <1>3, <2>2, Zenon
<1>4. CASE ~(a + g < Buckets) /\ ~(a < Buckets)
  BY <1>4, Zenon
<1> QED BY <1>1, <1>2, <1>3, <1>4

\* Add keeps the invariant, also when the clock moves on inside it.
LEMMA WindowAdd ==
    ASSUME WindowInv, NEW t \in now .. MaxTime, RW!Add(t)
    PROVE  WindowInv'
<1> DEFINE s == RW!Span(now)
           o == (offset + s) % Buckets
           slip == IF s = 0 THEN 0 ELSE Q(t) - Q(now)
           x == After(offset, s)
<1>0. PICK v : v = [at |-> IF s = 0 THEN Q(now) ELSE Q(t), slips |-> slips + slip]
  OBVIOUS
<1>1. /\ now' = t /\ offset' = o /\ lastTime' = (IF s = 0 THEN lastTime ELSE RW!Align(t))
      /\ slips' = slips + slip /\ added' = added \cup {v}
      /\ buckets' = [b \in DOMAIN buckets |->
             (IF b \in x THEN {} ELSE buckets[b]) \cup (IF b = o THEN {v} ELSE {})]
  BY <1>0, Zenon DEF RW!Add, Q, RW!Expired, After
<1>2. /\ now \in Nat /\ lastTime \in 0 .. now /\ lastTime = Interval * Q(lastTime)
      /\ offset \in 0 .. Buckets - 1 /\ slips \in Int /\ DOMAIN buckets = 0 .. Buckets - 1
      /\ added \subseteq [at : Int, slips : Int] /\ Buckets \in Nat \ {0} /\ t \in Nat /\ now <= t
  BY CollectionAssumption DEF WindowInv, WindowTypes
<1>3. /\ Gap \in Nat /\ Q(now) \in Int /\ Q(lastTime) \in Int
      /\ s = (IF Gap < Buckets THEN Gap ELSE Buckets) /\ s \in 0 .. Buckets
  BY SpanIs DEF WindowInv
<1>4. /\ Q(t) \in Int /\ RW!Align(t) = Interval * Q(t) /\ Interval * Q(t) \in 0 .. t
      /\ Q(Interval * Q(t)) = Q(t)
  <2>1. lastTime \in Nat /\ lastTime <= t
    BY <1>2
  <2> QED BY <1>2, <2>1, Intervals DEF RW!Align
<1>5. /\ lastTime' = Interval * Q(lastTime') /\ lastTime' \in 0 .. t
      /\ Q(lastTime') = IF s = 0 THEN Q(lastTime) ELSE Q(t)
  <2>1. CASE s = 0
    BY <1>1, <1>2, <2>1
  <2>2. CASE s # 0
    <3>1. lastTime' = Interval * Q(t)
      BY <1>1, <1>4, <2>2
    <3> QED BY <1>4, <2>2, <3>1
  <2> QED BY <2>1, <2>2
<1>6. o \in 0 .. Buckets - 1 /\ (s = 0 => o = offset)
  <2>1. o \in 0 .. Buckets - 1
    <3>1. offset + s \in Int
      BY <1>2, <1>3
    <3> QED BY <1>2, <3>1, DivMod, Zenon
  <2>2. ASSUME s = 0 PROVE o = offset
    BY <1>2, <2>2
  <2> QED BY <2>1, <2>2
<1> HIDE DEF s, o, x
<1>7. v \in [at : Int, slips : Int] /\ slips + slip \in Int /\ slip \in Int
  BY <1>0, <1>2, <1>3, <1>4
<1>8. v.at = (IF s = 0 THEN Q(now) ELSE Q(t)) /\ v.slips = slips + slip
  BY <1>0
<1> PICK l : l = Q(lastTime')
  OBVIOUS
<1> PICK y : y = slips'
  OBVIOUS
<1>16. /\ \A u : Rank(u)' = l - u.at - (y - u.slips)
       /\ l = IF s = 0 THEN Q(lastTime) ELSE Q(t)
       /\ y = slips + slip
  <2>1. \A u : Rank(u)' = Q(lastTime') - u.at - (slips' - u.slips)
    BY Zenon DEF Rank, Q
  <2>2. \A u : Rank(u)' = l - u.at - (y - u.slips)
    BY <2>1, Zenon
  <2> QED BY <1>1, <1>5, <2>2
<1>17. s = 0 => Q(now) = Q(lastTime) /\ Gap = 0
  BY <1>2, <1>3 DEF Gap
<1>9. Rank(v)' = 0
  <2>1. Rank(v)' = l - v.at - (y - v.slips)
    BY <1>16, Zenon
  <2>2. Q(t) \in Int /\ Q(now) \in Int /\ slips \in Int
    BY <1>2, <1>3, <1>4
  <2> QED BY <1>7, <1>8, <1>16, <1>17, <2>1, <2>2
<1>10. \A u \in added : Rank(u)' = Rank(u) + Gap
  <2> SUFFICES ASSUME NEW u \in added PROVE Rank(u)' = Rank(u) + Gap
    OBVIOUS
  <2>1. Rank(u)' = l - u.at - (y - u.slips)
    BY <1>16, Zenon
  <2>2. /\ Q(t) \in Int /\ Q(now) \in Int /\ Q(lastTime) \in Int
        /\ slips \in Int /\ u.at \in Int /\ u.slips \in Int
    BY <1>2, <1>3, <1>4
  <2> QED BY <1>16, <1>17, <2>1, <2>2 DEF Rank, Gap
<1>11. \A u \in added : /\ Rank(u) \in Nat
                        /\ \A b \in 0 .. Buckets - 1 :
                             u \in buckets[b] <=> Rank(u) < Buckets /\ b = Before(offset, Rank(u))
  BY DEF WindowInv, InBucket
<1>12. WindowTypes'
  BY <1>1, <1>2, <1>5, <1>6, <1>7 DEF WindowTypes
<1>13. \A b \in 0 .. Buckets - 1 : buckets'[b] \subseteq added'
  BY <1>1, <1>2 DEF WindowInv
<1>14. ASSUME NEW u \in added, u # v PROVE InBucket(u)'
  <2>1. Rank(u)' = Rank(u) + Gap /\ Rank(u)' \in Nat /\ Rank(u) \in Nat
    BY <1>3, <1>10, <1>11
  <2>2. ASSUME NEW b \in 0 .. Buckets - 1
        PROVE  u \in buckets'[b] <=> Rank(u)' < Buckets /\ b = Before(o, Rank(u)')
    <3>1. u \in buckets'[b] <=> b \notin x /\ u \in buckets[b]
      BY <1>1, <1>2, <1>14
    <3>2. u \in buckets[b] <=> Rank(u) < Buckets /\ b = Before(offset, Rank(u))
      BY <1>11
    <3>3. (b \notin x /\ Rank(u) < Buckets /\ b = Before(offset, Rank(u)))
             <=> Rank(u) + Gap < Buckets /\ b = Before(o, Rank(u) + Gap)
      <4>1. offset \in 0 .. Buckets - 1 /\ Rank(u) \in Nat
        BY <1>2, <2>1
      <4>2. Gap \in Nat /\ s \in 0 .. Buckets /\ (Gap < Buckets => s = Gap) /\ (Gap >= Buckets => s = Buckets)
        BY <1>2, <1>3
      <4>3. ASSUME NEW p \in 0 .. Buckets - 1, NEW r \in Nat, NEW g \in Nat, NEW z \in 0 .. Buckets,
                   g < Buckets => z = g, g >= Buckets => z = Buckets
            PROVE  (b \notin After(p, z) /\ r < Buckets /\ b = Before(p, r))
                     <=> r + g < Buckets /\ b = Before((p + z) % Buckets, r + g)
        BY <4>3, StillThere
      <4> QED BY <4>1, <4>2, <4>3 DEF o, x
    <3> QED BY <2>1, <3>1, <3>2, <3>3, Zenon
  <2> QED BY <1>1, <2>1, <2>2 DEF InBucket
<1>15. InBucket(v)'
  <2>1. ASSUME NEW b \in 0 .. Buckets - 1, v \in buckets[b] PROVE b = o
    <3>1. v \in added
      BY <2>1 DEF WindowInv
    <3>2. Rank(v) = 0 /\ Gap = 0
      BY <1>3, <1>9, <1>10, <1>11, <3>1
    <3>3. b = Before(offset, 0) /\ s = 0
      BY <1>2, <1>3, <1>11, <2>1, <3>1, <3>2
    <3> QED BY <1>2, <1>6, <3>3 DEF Before
  <2>2. \A b \in 0 .. Buckets - 1 : v \in buckets'[b] <=> b = o
    BY <1>1, <1>2, <2>1
  <2>3. Before(o, 0) = o
    BY <1>6 DEF Before
  <2> QED BY <1>1, <1>2, <1>9, <2>2, <2>3 DEF InBucket
<1> QED BY <1>1, <1>12, <1>13, <1>14, <1>15 DEF WindowInv

\* Every step of the window keeps the invariant.
LEMMA WindowNext == WindowInv /\ [RW!Next]_window => WindowInv'
<1> SUFFICES ASSUME WindowInv, [RW!Next]_window PROVE WindowInv'
  OBVIOUS
<1>1. CASE RW!Tick \/ UNCHANGED window
  <2>1. now' \in Nat /\ now' >= now /\ UNCHANGED <<lastTime, offset, buckets, added, slips>>
    BY <1>1 DEF RW!Tick, window, WindowInv, WindowTypes
  <2>2. WindowTypes'
    BY <2>1 DEF WindowInv, WindowTypes
  <2>3. \A u : Rank(u)' = Rank(u)
    BY <2>1 DEF Rank
  <2> QED BY <2>1, <2>2, <2>3 DEF WindowInv, InBucket
<1>2. CASE \E t \in now .. MaxTime : RW!Add(t)
  BY <1>2, WindowAdd
<1> QED BY <1>1, <1>2 DEF RW!Next

\* For any size and interval and any idle times, Reduce counts exactly the additions in the
\* window, and keeps those before a boundary that passed inside Add that much longer.
THEOREM WindowIsExact == RW!Init /\ [][RW!Next]_window => []WindowExact
  BY WindowStart, WindowNext, WindowSafe, PTL
-----------------------------------------------------------------------------
(* Cache: sequences that hold a key once *)

In(k, s) == \E i \in 1 .. Len(s) : s[i] = k
Once(s) == \A i, j \in 1 .. Len(s) : s[i] = s[j] => i = j

\* A part of a list.
LEMMA PartIs ==
    ASSUME NEW s \in Seq(Keys), NEW a \in 1 .. Len(s) + 1, NEW b \in a - 1 .. Len(s)
    PROVE  /\ SubSeq(s, a, b) \in Seq(Keys) /\ Len(SubSeq(s, a, b)) = b - a + 1
           /\ \A i \in 1 .. b - a + 1 : SubSeq(s, a, b)[i] = s[a + i - 1]
<1>1. a \in Int /\ b \in Int /\ \A i \in a .. b : s[i] \in Keys
  OBVIOUS
<1>2. SubSeq(s, a, b) \in Seq(Keys)
  BY <1>1, SubSeqProperties
<1>3. Len(SubSeq(s, a, b)) = b - a + 1
  BY <1>1, SubSeqProperties
<1>4. \A i \in 1 .. b - a + 1 : SubSeq(s, a, b)[i] = s[a + i - 1]
  BY <1>1, SubSeqProperties
<1> QED BY <1>2, <1>3, <1>4

\* list.Remove of a key that is in the list once.
LEMMA RemoveIs ==
    ASSUME NEW s \in Seq(Keys), Once(s), NEW k
    PROVE  LET t == CA!RemoveFirst(s, k) IN
           /\ t \in Seq(Keys) /\ Once(t) /\ \A j : In(j, t) <=> In(j, s) /\ j # k
           /\ Len(t) = IF In(k, s) THEN Len(s) - 1 ELSE Len(s)
<1> DEFINE t == CA!RemoveFirst(s, k)
<1>1. CASE ~In(k, s)
  <2>1. t = s
    BY <1>1 DEF CA!RemoveFirst, In
  <2> QED BY <1>1, <2>1 DEF In
<1>2. CASE In(k, s)
  <2> DEFINE I == {i \in 1 .. Len(s) : s[i] = k}
  <2>1. PICK i \in 1 .. Len(s) : s[i] = k
    BY <1>2 DEF In
  <2>2. I = {i}
    BY <2>1 DEF Once
  <2>3. CA!Min(I) = i
    BY <2>1, <2>2 DEF CA!Min
  <2>4. CA!SelectInSeq(s, LAMBDA v : v = k) = i
    BY <2>2, <2>3, Zenon DEF CA!SelectInSeq
  <2>5. t = SubSeq(s, 1, i - 1) \o SubSeq(s, i + 1, Len(s))
    BY <1>2, <2>4, Zenon DEF CA!RemoveFirst, CA!RemoveAt, In
  <2> HIDE DEF t
  <2>6. /\ t \in Seq(Keys) /\ Len(t) = Len(s) - 1
        /\ \A j \in 1 .. Len(s) - 1 : t[j] = IF j < i THEN s[j] ELSE s[j + 1]
    <3> DEFINE u == SubSeq(s, 1, i - 1)
               w == SubSeq(s, i + 1, Len(s))
    <3>1. u \in Seq(Keys) /\ Len(u) = i - 1 /\ \A j \in 1 .. i - 1 : u[j] = s[j]
      BY <2>1, PartIs
    <3>2. w \in Seq(Keys) /\ Len(w) = Len(s) - i /\ \A j \in 1 .. Len(s) - i : w[j] = s[i + j]
      <4>1. i + 1 \in 1 .. Len(s) + 1 /\ Len(s) \in (i + 1) - 1 .. Len(s)
        BY <2>1
      <4>2. /\ w \in Seq(Keys) /\ Len(w) = Len(s) - (i + 1) + 1
            /\ \A j \in 1 .. Len(s) - (i + 1) + 1 : w[j] = s[(i + 1) + j - 1]
        BY <4>1, PartIs, Zenon
      <4> HIDE DEF w
      <4> QED BY <2>1, <4>1, <4>2
    <3> HIDE DEF u, w
    <3>3. t = u \o w
      BY <2>5 DEF u, w
    <3>4. /\ t \in Seq(Keys) /\ Len(t) = Len(u) + Len(w)
          /\ \A j \in 1 .. Len(u) + Len(w) : t[j] = IF j <= Len(u) THEN u[j] ELSE w[j - Len(u)]
      BY <3>1, <3>2, <3>3, ConcatProperties
    <3>5. ASSUME NEW j \in 1 .. Len(s) - 1 PROVE t[j] = IF j < i THEN s[j] ELSE s[j + 1]
      <4>1. t[j] = IF j <= i - 1 THEN u[j] ELSE w[j - (i - 1)]
        BY <2>1, <3>1, <3>2, <3>4
      <4>2. CASE j < i
        BY <2>1, <3>1, <4>1, <4>2
      <4>3. CASE j >= i
        <5>1. j - (i - 1) \in 1 .. Len(s) - i /\ i + (j - (i - 1)) = j + 1
          BY <2>1, <4>3
        <5>2. w[j - (i - 1)] = s[i + (j - (i - 1))]
          BY <3>2, <5>1
        <5> QED BY <2>1, <4>1, <4>3, <5>1, <5>2
      <4> QED BY <2>1, <4>2, <4>3
    <3>6. Len(t) = Len(s) - 1
      BY <2>1, <3>1, <3>2, <3>4
    <3> QED BY <3>4, <3>5, <3>6
  <2>7. Once(t)
    BY <2>1, <2>6 DEF Once
  <2>8. ASSUME NEW j, In(j, t) PROVE In(j, s) /\ j # k
    BY <2>1, <2>6, <2>8 DEF In, Once
  <2>9. ASSUME NEW j, In(j, s), j # k PROVE In(j, t)
    <3>1. PICK x \in 1 .. Len(s) : s[x] = j
      BY <2>9 DEF In
    <3>2. x # i
      BY <2>1, <2>9, <3>1
    <3>3. CASE x < i
      BY <2>1, <2>6, <3>1, <3>3 DEF In
    <3>4. CASE x > i
      <4>1. x - 1 \in 1 .. Len(t) /\ t[x - 1] = j
        BY <2>1, <2>6, <3>1, <3>4
      <4> QED BY <4>1 DEF In
    <3> QED BY <2>1, <3>1, <3>2, <3>3, <3>4
  <2> QED BY <1>2, <2>6, <2>7, <2>8, <2>9 DEF t
<1> QED BY <1>1, <1>2

\* list.PushFront of a key that is not in the list.
LEMMA PushIs ==
    ASSUME NEW t \in Seq(Keys), Once(t), NEW k \in Keys, ~In(k, t)
    PROVE  LET s == <<k>> \o t IN
           /\ s \in Seq(Keys) /\ Once(s) /\ Len(s) = Len(t) + 1
           /\ \A j : In(j, s) <=> In(j, t) \/ j = k
<1> DEFINE s == <<k>> \o t
<1>1. s \in Seq(Keys) /\ Len(s) = Len(t) + 1
  OBVIOUS
<1>2. s[1] = k /\ \A i \in 1 .. Len(t) : s[i + 1] = t[i]
  OBVIOUS
<1> HIDE DEF s
<1>3. \A i \in 1 .. Len(s) : i = 1 \/ (i - 1 \in 1 .. Len(t) /\ s[i] = t[i - 1])
  BY <1>1, <1>2
<1>4. Once(s)
  <2> SUFFICES ASSUME NEW i \in 1 .. Len(s), NEW j \in 1 .. Len(s), s[i] = s[j] PROVE i = j
    BY DEF Once
  <2>1. CASE i = 1 \/ j = 1
    BY <1>2, <1>3, <2>1 DEF In
  <2>2. CASE i # 1 /\ j # 1
    <3>1. i - 1 \in 1 .. Len(t) /\ j - 1 \in 1 .. Len(t) /\ t[i - 1] = t[j - 1]
      BY <1>3, <2>2
    <3>2. i - 1 = j - 1
      BY <3>1 DEF Once
    <3> QED BY <3>2
  <2> QED BY <2>1, <2>2
<1>5. ASSUME NEW j, In(j, s) PROVE In(j, t) \/ j = k
  <2>1. PICK i \in 1 .. Len(s) : s[i] = j
    BY <1>5 DEF In
  <2>2. CASE i = 1
    BY <1>2, <2>1, <2>2
  <2>3. CASE i # 1
    <3>1. i - 1 \in 1 .. Len(t) /\ t[i - 1] = j
      BY <1>3, <2>1, <2>3
    <3> QED BY <3>1 DEF In
  <2> QED BY <2>2, <2>3
<1>6. ASSUME NEW j, In(j, t) \/ j = k PROVE In(j, s)
  <2>1. CASE j = k
    BY <1>1, <1>2, <2>1 DEF In
  <2>2. CASE In(j, t)
    <3>1. PICK x \in 1 .. Len(t) : t[x] = j
      BY <2>2 DEF In
    <3>2. x + 1 \in 1 .. Len(s) /\ s[x + 1] = j
      BY <1>1, <1>2, <3>1
    <3> QED BY <3>2 DEF In
  <2> QED BY <1>6, <2>1, <2>2
<1> QED BY <1>1, <1>4, <1>5, <1>6 DEF s

\* removeElement of the last of a list.
LEMMA FrontIs ==
    ASSUME NEW s \in Seq(Keys), Once(s), Len(s) > 0
    PROVE  LET t == CA!Front(s) IN
           /\ t \in Seq(Keys) /\ Once(t) /\ Len(t) = Len(s) - 1
           /\ \A j : In(j, t) <=> In(j, s) /\ j # CA!Last(s)
<1> DEFINE t == CA!Front(s)
<1>1. t = SubSeq(s, 1, Len(s) - 1)
  BY DEF CA!Front
<1> HIDE DEF t
<1>2. t \in Seq(Keys) /\ Len(t) = Len(s) - 1 /\ \A i \in 1 .. Len(s) - 1 : t[i] = s[i]
  <2>1. 1 \in 1 .. Len(s) + 1 /\ Len(s) - 1 \in 1 - 1 .. Len(s) /\ Len(s) - 1 - 1 + 1 = Len(s) - 1
    OBVIOUS
  <2>2. /\ t \in Seq(Keys) /\ Len(t) = Len(s) - 1 - 1 + 1
        /\ \A i \in 1 .. Len(s) - 1 - 1 + 1 : t[i] = s[1 + i - 1]
    BY <1>1, <2>1, PartIs
  <2> QED BY <2>1, <2>2
<1>3. Once(t)
  BY <1>2 DEF Once
<1>4. ASSUME NEW j PROVE In(j, t) <=> In(j, s) /\ j # CA!Last(s)
  BY <1>2 DEF In, Once, CA!Last
<1> QED BY <1>2, <1>3, <1>4 DEF t

\* A list of distinct keys counts them.
LEMMA CountIs ==
    ASSUME NEW s \in Seq(Keys), Once(s), NEW S, \A k : k \in S <=> In(k, s)
    PROVE  CA!ToSet(s) = S /\ Len(s) = Cardinality(S)
<1>1. CA!ToSet(s) = S
  BY DEF CA!ToSet, In
<1>2. s \in Bijection(1 .. Len(s), S)
  <2>1. s \in [1 .. Len(s) -> S]
    BY DEF In
  <2>2. s \in Injection(1 .. Len(s), S)
    BY <2>1 DEF Injection, IsInjective, Once
  <2>3. \A k \in S : \E i \in 1 .. Len(s) : s[i] = k
    BY DEF In
  <2> QED BY <2>1, <2>2, <2>3 DEF Bijection, Surjection
<1>3. Len(s) \in Nat /\ ExistsBijection(1 .. Len(s), S)
  BY <1>2 DEF ExistsBijection
<1>4. Cardinality(S) = Len(s)
  BY <1>3, FS_CountingElements
<1> QED BY <1>1, <1>4

-----------------------------------------------------------------------------
(* Cache: the list is the data, and an entry without a timer that was not overtaken is about to get
   one or to be deleted. *)

\* What key holds before the first operation.
NoKey == CHOOSE k \in Keys : TRUE

CacheTypes ==
    /\ pc \in [CA!Procs -> {"idle", "set", "move", "remove", "check", "fetch", "del"}] 
    /\ key \in [CA!Procs -> Keys \cup {NoKey}]
    /\ \A p \in CA!Procs : pc[p] # "idle" => key[p] \in Keys

\* The list s holds exactly the keys of d.
Lru(s, d) ==
    IF Limit = 0 THEN s = <<>>
    ELSE s \in Seq(Keys) /\ Once(s) /\ Len(s) <= Limit /\ \A k : k \in d <=> In(k, s)

Tended ==
    \A k \in data \ (timers \cup raced) : \E p \in CA!Procs : key[p] = k /\ pc[p] \in {"set", "del"}

CacheInv == CacheTypes /\ Lru(evicts, data) /\ Tended

\* The cache counts as FiniteSets does.
LEMMA SameCount == \A S : CA!Cardinality(S) = Cardinality(S)
  BY Zenon DEF CA!Cardinality, Cardinality

\* The invariant gives the property.
LEMMA CacheSafe == CacheInv => EntriesKept
<1> SUFFICES ASSUME CacheInv PROVE EntriesKept
  OBVIOUS
<1>1. CA!LruMatchesData
  <2> SUFFICES ASSUME Limit > 0
               PROVE  CA!ToSet(evicts) = data /\ Len(evicts) = Cardinality(data) /\ Len(evicts) <= Limit
    BY SameCount DEF CA!LruMatchesData
  <2>1. evicts \in Seq(Keys) /\ Once(evicts) /\ Len(evicts) <= Limit /\ \A k : k \in data <=> In(k, evicts)
    BY CollectionAssumption DEF CacheInv, Lru
  <2> QED BY <2>1, CountIs
<1>2. CA!EntryHasTimer
  BY DEF CacheInv, Tended, CA!EntryHasTimer
<1> QED BY <1>1, <1>2 DEF EntriesKept

\* The cache is empty at first.
LEMMA CacheInit == CA!Init => CacheInv
<1> SUFFICES ASSUME CA!Init PROVE CacheInv
  OBVIOUS
<1>1. CacheTypes /\ Tended
  <2>1. CacheTypes
    <3>1. pc = [p \in CA!Procs |-> "idle"] /\ key = [p \in CA!Procs |-> NoKey]
      BY Zenon DEF CA!Init, NoKey
    <3> QED BY <3>1 DEF CacheTypes
  <2>2. Tended
    BY DEF CA!Init, Tended
  <2> QED BY <2>1, <2>2
<1>2. Lru(evicts, data)
  BY CollectionAssumption DEF CA!Init, Lru, Once, In
<1> QED BY <1>1, <1>2 DEF CacheInv

\* MoveToFront.
LEMMA TouchIs ==
    ASSUME Lru(evicts, data), NEW k \in Keys, Limit # 0
    PROVE  /\ CA!Touch(k) \in Seq(Keys) /\ Once(CA!Touch(k))
           /\ \A j : In(j, CA!Touch(k)) <=> j \in data \/ j = k
           /\ Len(CA!Touch(k)) = IF k \in data THEN Len(evicts) ELSE Len(evicts) + 1
<1> DEFINE t == CA!RemoveFirst(evicts, k)
<1>1. evicts \in Seq(Keys) /\ Once(evicts) /\ \A j : j \in data <=> In(j, evicts)
  BY DEF Lru
<1>2. /\ t \in Seq(Keys) /\ Once(t) /\ \A j : In(j, t) <=> In(j, evicts) /\ j # k
      /\ Len(t) = IF In(k, evicts) THEN Len(evicts) - 1 ELSE Len(evicts)
  BY <1>1, RemoveIs
<1>3. CA!Touch(k) = <<k>> \o t
  BY DEF CA!Touch
<1> HIDE DEF t
<1>4. ~In(k, t)
  BY <1>2
<1>5. /\ <<k>> \o t \in Seq(Keys) /\ Once(<<k>> \o t) /\ Len(<<k>> \o t) = Len(t) + 1
      /\ \A j : In(j, <<k>> \o t) <=> In(j, t) \/ j = k
  BY <1>2, <1>4, PushIs
<1> QED BY <1>1, <1>2, <1>3, <1>5

\* keyLru.add keeps the list and the data together and takes no timer from what stays.
LEMMA AddIs ==
    ASSUME Lru(evicts, data), NEW k \in Keys, CA!Add(k)
    PROVE  /\ Lru(evicts', data')
           /\ \A j \in data' : j = k \/ (j \in data /\ (j \in timers => j \in timers'))
           /\ \A j \in data' : j \in timers => j \in timers'
<1> DEFINE s == CA!Touch(k)
           gone == IF CA!Contains(evicts, k) THEN {} ELSE CA!Oldest(s)
<1>1. /\ evicts' = (IF gone = {} THEN s ELSE CA!Front(s))
      /\ data' = (data \cup {k}) \ gone /\ timers' = timers \ gone
  BY DEF CA!Add
<1>2. Lru(evicts', data')
  <2>1. CASE Limit = 0
    <3>1. gone = {} /\ s = <<>>
      BY <2>1 DEF CA!Oldest, CA!Touch
    <3> QED BY <1>1, <2>1, <3>1 DEF Lru
  <2>2. CASE Limit # 0
    <3>1. /\ s \in Seq(Keys) /\ Once(s) /\ \A j : In(j, s) <=> j \in data \/ j = k
          /\ Len(s) = IF k \in data THEN Len(evicts) ELSE Len(evicts) + 1
      BY <2>2, TouchIs
    <3>2. CA!Contains(evicts, k) <=> k \in data
      BY <2>2 DEF Lru, In, CA!Contains
    <3>3. Len(evicts) <= Limit /\ Len(evicts) \in Nat /\ Limit \in Nat
      BY <2>2, CollectionAssumption DEF Lru
    <3> HIDE DEF s
    <3>4. CASE gone = {}
      <4>1. Len(s) <= Limit
        BY <2>2, <3>1, <3>2, <3>3, <3>4 DEF CA!Oldest
      <4> QED BY <1>1, <2>2, <3>1, <3>4, <4>1 DEF Lru
    <3>5. CASE gone # {}
      <4>1. gone = {CA!Last(s)} /\ k \notin data
        BY <3>2, <3>5 DEF CA!Oldest
      <4>2. Len(s) > 0 /\ Len(s) - 1 <= Limit
        BY <3>1, <3>3, <4>1
      <4>3. /\ CA!Front(s) \in Seq(Keys) /\ Once(CA!Front(s)) /\ Len(CA!Front(s)) = Len(s) - 1
            /\ \A j : In(j, CA!Front(s)) <=> In(j, s) /\ j # CA!Last(s)
        BY <3>1, <4>2, FrontIs
      <4> QED BY <1>1, <2>2, <3>1, <3>5, <4>1, <4>2, <4>3 DEF Lru
    <3> QED BY <3>4, <3>5
  <2> QED BY <2>1, <2>2
<1> QED BY <1>1, <1>2

\* keyLru.remove.
LEMMA DeleteIs ==
    ASSUME Lru(evicts, data), NEW k
    PROVE  Lru(CA!RemoveFirst(evicts, k), data \ {k})
<1>1. CASE Limit = 0
  <2>1. evicts = <<>>
    BY <1>1 DEF Lru
  <2>2. CA!RemoveFirst(<<>>, k) = <<>>
    BY DEF CA!RemoveFirst
  <2> QED BY <1>1, <2>1, <2>2 DEF Lru
<1>2. CASE Limit # 0
  <2> DEFINE t == CA!RemoveFirst(evicts, k)
  <2>1. /\ evicts \in Seq(Keys) /\ Once(evicts) /\ Len(evicts) <= Limit /\ Limit \in Nat
        /\ \A j : j \in data <=> In(j, evicts)
    BY <1>2, CollectionAssumption DEF Lru
  <2>2. /\ t \in Seq(Keys) /\ Once(t) /\ \A j : In(j, t) <=> In(j, evicts) /\ j # k
        /\ Len(t) = IF In(k, evicts) THEN Len(evicts) - 1 ELSE Len(evicts)
    BY <2>1, RemoveIs
  <2> HIDE DEF t
  <2>3. Len(t) <= Limit
    BY <2>1, <2>2
  <2>4. Lru(t, data \ {k})
    BY <1>2, <2>1, <2>2, <2>3 DEF Lru
  <2> QED BY <2>4 DEF t
<1> QED BY <1>1, <1>2

\* Set and TakeFetched: p adds k, and goes on to its timer.
LEMMA StoreStep ==
    ASSUME CacheInv, NEW p \in CA!Procs, NEW k \in Keys, CA!Add(k),
           pc[p] \in {"idle", "fetch"}, pc' = [pc EXCEPT ![p] = CA!NextTimer(k)],
           key' = [key EXCEPT ![p] = k], raced' = raced
    PROVE  CacheInv'
<1>1. /\ Lru(evicts', data')
      /\ \A j \in data' : j = k \/ (j \in data /\ (j \in timers => j \in timers'))
      /\ \A j \in data' : j \in timers => j \in timers'
  BY AddIs DEF CacheInv
<1>2. CacheTypes'
  BY DEF CacheInv, CacheTypes, CA!NextTimer
<1>3. Tended'
  <2> SUFFICES ASSUME NEW j \in data', j \notin timers', j \notin raced
               PROVE  \E q \in CA!Procs : key'[q] = j /\ pc'[q] \in {"set", "del"}
    BY DEF Tended
  <2>1. CASE j \in data
    <3>1. PICK q \in CA!Procs : key[q] = j /\ pc[q] \in {"set", "del"}
      BY <1>1, <2>1 DEF CacheInv, Tended
    <3> QED BY <3>1 DEF CacheInv, CacheTypes
  <2>2. CASE j \notin data
    <3>1. j = k /\ CA!NextTimer(k) = "set"
      BY <1>1, <2>2 DEF CA!NextTimer
    <3> QED BY <3>1 DEF CacheInv, CacheTypes
  <2> QED BY <2>1, <2>2
<1> QED BY <1>1, <1>2, <1>3 DEF CacheInv, Lru

\* Del and the callback: p deletes k.
LEMMA DropStep ==
    ASSUME CacheInv, NEW p \in CA!Procs, NEW k \in Keys, CA!Delete(p, k),
           pc[p] \in {"idle", "del"}, pc[p] = "del" => key[p] = k, key' = [key EXCEPT ![p] = k]
    PROVE  CacheInv'
<1>1. /\ data' = data \ {k} /\ evicts' = CA!RemoveFirst(evicts, k) /\ raced' = raced
      /\ pc' = [pc EXCEPT ![p] = "remove"] /\ \A j \in timers : j = k \/ j \in timers'
  BY Zenon DEF CA!Delete, CA!Goto
<1>2. Lru(evicts, data)'
  <2>1. Lru(CA!RemoveFirst(evicts, k), data \ {k})
    BY DeleteIs DEF CacheInv
  <2> QED BY <1>1, <2>1 DEF Lru
<1>3. CacheTypes'
  BY <1>1 DEF CacheInv, CacheTypes
<1>4. Tended'
  <2> SUFFICES ASSUME NEW j \in data', j \notin timers', j \notin raced
               PROVE  \E q \in CA!Procs : key'[q] = j /\ pc'[q] \in {"set", "del"}
    BY <1>1 DEF Tended
  <2>1. PICK q \in CA!Procs : key[q] = j /\ pc[q] \in {"set", "del"}
    BY <1>1 DEF CacheInv, Tended
  <2>2. q # p
    BY <1>1, <2>1
  <2> QED BY <1>1, <2>1, <2>2 DEF CacheInv, CacheTypes
<1> QED BY <1>2, <1>3, <1>4 DEF CacheInv

\* Get and TakeChecks: the list is refreshed.
LEMMA TouchStep ==
    ASSUME Lru(evicts, data), NEW k \in Keys, k \in data
    PROVE  Lru(CA!Touch(k), data)
<1>1. CASE Limit = 0
  BY <1>1 DEF Lru, CA!Touch
<1>2. CASE Limit # 0
  <2>1. Len(CA!Touch(k)) = Len(evicts) /\ Len(evicts) <= Limit
    BY <1>2, TouchIs DEF Lru
  <2> QED BY <1>2, <2>1, TouchIs DEF Lru
<1> QED BY <1>1, <1>2

\* The start of a user's operation.
LEMMA StartIs ==
    ASSUME CacheInv, NEW p \in Users, NEW k \in Keys, CA!Start(p, k)
    PROVE  p \in CA!Procs /\ pc[p] = "idle" /\ key' = [key EXCEPT ![p] = k]
  BY DEF CA!Start, CA!Procs

\* A step of p that changes neither data nor timers.
LEMMA QuietStep ==
    ASSUME CacheInv, NEW p \in CA!Procs, pc[p] \notin {"set", "del"}, UNCHANGED <<data, timers, raced>>,
           Lru(evicts', data), NEW l \in {"idle", "check", "fetch"}, pc' = [pc EXCEPT ![p] = l],
           \/ UNCHANGED key /\ pc[p] # "idle"
           \/ \E k \in Keys : key' = [key EXCEPT ![p] = k]
    PROVE  CacheInv'
<1>1. CacheTypes'
  BY DEF CacheInv, CacheTypes
<1>2. Tended'
  <2> SUFFICES ASSUME NEW j \in data, j \notin timers, j \notin raced
               PROVE  \E q \in CA!Procs : key'[q] = j /\ pc'[q] \in {"set", "del"}
    BY DEF Tended
  <2>1. PICK q \in CA!Procs : key[q] = j /\ pc[q] \in {"set", "del"}
    BY DEF CacheInv, Tended
  <2> QED BY <2>1 DEF CacheInv, CacheTypes
<1> QED BY <1>1, <1>2 DEF CacheInv, Lru

\* Every step of the cache keeps the invariant.
LEMMA CacheNext == CacheInv /\ [CA!Next]_cache => CacheInv'
<1> SUFFICES ASSUME CacheInv, [CA!Next]_cache PROVE CacheInv'
  OBVIOUS
<1>1. ASSUME NEW p \in Users, NEW k \in Keys, CA!Set(p, k) PROVE CacheInv'
  BY <1>1, StartIs, StoreStep DEF CA!Set, CA!Goto
<1>2. ASSUME NEW p \in Users, NEW k \in Keys, CA!Del(p, k) PROVE CacheInv'
  BY <1>2, StartIs, DropStep DEF CA!Del
<1>3. ASSUME NEW p \in Users, NEW k \in Keys, CA!Get(p, k) PROVE CacheInv'
  <2>1. p \in CA!Procs /\ pc[p] = "idle" /\ key' = [key EXCEPT ![p] = k]
    BY <1>3, StartIs DEF CA!Get
  <2>2. /\ k \in data /\ evicts' = CA!Touch(k) /\ UNCHANGED <<data, timers, pc, raced>>
    BY <1>3 DEF CA!Get
  <2>3. pc' = [pc EXCEPT ![p] = "idle"]
    BY <2>1, <2>2 DEF CacheInv, CacheTypes
  <2>4. Lru(evicts', data)
    BY <2>2, TouchStep DEF CacheInv
  <2> QED BY <2>1, <2>2, <2>3, <2>4, QuietStep
<1>4. ASSUME NEW p \in Users, NEW k \in Keys, CA!TakeMisses(p, k) PROVE CacheInv'
  <2>1. p \in CA!Procs /\ pc[p] = "idle" /\ key' = [key EXCEPT ![p] = k]
    BY <1>4, StartIs DEF CA!TakeMisses
  <2>2. pc' = [pc EXCEPT ![p] = "check"] /\ UNCHANGED <<data, evicts, timers, raced>>
    BY <1>4 DEF CA!TakeMisses, CA!Goto
  <2>3. Lru(evicts', data)
    BY <2>2 DEF CacheInv
  <2> QED BY <2>1, <2>2, <2>3, QuietStep
<1>5. ASSUME NEW p \in CA!Procs, CA!SetTimer(p) PROVE CacheInv'
  <2>1. /\ pc[p] = "set" /\ timers' = timers \cup {key[p]} /\ pc' = [pc EXCEPT ![p] = "idle"]
        /\ UNCHANGED <<data, evicts, key, raced>>
    BY <1>5 DEF CA!SetTimer, CA!Goto
  <2>2. CacheTypes'
    BY <2>1 DEF CacheInv, CacheTypes
  <2>3. Tended'
    <3> SUFFICES ASSUME NEW j \in data, j \notin timers', j \notin raced
                 PROVE  \E q \in CA!Procs : key[q] = j /\ pc'[q] \in {"set", "del"}
      BY <2>1 DEF Tended
    <3>1. PICK q \in CA!Procs : key[q] = j /\ pc[q] \in {"set", "del"}
      BY <2>1 DEF CacheInv, Tended
    <3>2. q # p
      BY <2>1, <3>1
    <3> QED BY <2>1, <3>1, <3>2 DEF CacheInv, CacheTypes
  <2> QED BY <2>1, <2>2, <2>3 DEF CacheInv, Lru
<1>6. ASSUME NEW p \in CA!Procs, CA!MoveTimer(p) PROVE CacheInv'
  <2>1. /\ pc[p] = "move" /\ pc' = [pc EXCEPT ![p] = "idle"]
        /\ UNCHANGED <<data, evicts, timers, key, raced>>
    BY <1>6 DEF CA!MoveTimer, CA!Goto
  <2>2. Lru(evicts', data)
    BY <2>1 DEF CacheInv
  <2> QED BY <2>1, <2>2, QuietStep
<1>7. ASSUME NEW p \in CA!Procs, CA!RemoveTimer(p) PROVE CacheInv'
  <2>1. /\ pc[p] = "remove" /\ timers' = timers \ {key[p]} /\ pc' = [pc EXCEPT ![p] = "idle"]
        /\ raced' = (IF key[p] \in data THEN raced \cup {key[p]} ELSE raced)
        /\ UNCHANGED <<data, evicts, key>>
    BY <1>7 DEF CA!RemoveTimer, CA!Goto
  <2>2. CacheTypes'
    BY <2>1 DEF CacheInv, CacheTypes
  <2>3. Tended'
    <3> SUFFICES ASSUME NEW j \in data, j \notin timers', j \notin raced'
                 PROVE  \E q \in CA!Procs : key[q] = j /\ pc'[q] \in {"set", "del"}
      BY <2>1 DEF Tended
    <3>1. j \notin timers /\ j \notin raced
      BY <2>1
    <3>2. PICK q \in CA!Procs : key[q] = j /\ pc[q] \in {"set", "del"}
      BY <3>1 DEF CacheInv, Tended
    <3> QED BY <2>1, <3>2 DEF CacheInv, CacheTypes
  <2> QED BY <2>1, <2>2, <2>3 DEF CacheInv, Lru
<1>8. ASSUME NEW p \in CA!Procs, CA!TakeChecks(p) PROVE CacheInv'
  <2>1. key[p] \in Keys /\ pc[p] = "check" /\ UNCHANGED <<data, timers, key, raced>>
    BY <1>8 DEF CA!TakeChecks, CacheInv, CacheTypes
  <2>2. CASE key[p] \in data
    <3>1. evicts' = CA!Touch(key[p]) /\ pc' = [pc EXCEPT ![p] = "idle"]
      BY <1>8, <2>2 DEF CA!TakeChecks, CA!Goto
    <3>2. Lru(evicts', data)
      BY <2>1, <2>2, <3>1, TouchStep DEF CacheInv
    <3> QED BY <2>1, <3>1, <3>2, QuietStep
  <2>3. CASE key[p] \notin data
    <3>1. evicts' = evicts /\ pc' = [pc EXCEPT ![p] = "fetch"]
      BY <1>8, <2>3 DEF CA!TakeChecks, CA!Goto
    <3>2. Lru(evicts', data)
      BY <3>1 DEF CacheInv
    <3> QED BY <2>1, <3>1, <3>2, QuietStep
  <2> QED BY <2>2, <2>3
<1>9. ASSUME NEW p \in CA!Procs, CA!TakeFetched(p) PROVE CacheInv'
  <2>1. key[p] \in Keys /\ pc[p] = "fetch" /\ UNCHANGED <<key, raced>> /\ key' = [key EXCEPT ![p] = key[p]]
    BY <1>9 DEF CA!TakeFetched, CacheInv, CacheTypes
  <2>2. CASE pc' = [pc EXCEPT ![p] = CA!NextTimer(key[p])] /\ CA!Add(key[p])
    BY <2>1, <2>2, StoreStep
  <2>3. CASE pc' = [pc EXCEPT ![p] = "idle"] /\ UNCHANGED <<data, evicts, timers>>
    <3>1. Lru(evicts', data)
      BY <2>3 DEF CacheInv
    <3> QED BY <2>1, <2>3, <3>1, QuietStep
  <2> QED BY <1>9, <2>2, <2>3 DEF CA!TakeFetched, CA!Goto
<1>10. ASSUME NEW p \in CA!Procs, CA!Expire(p) PROVE CacheInv'
  <2>1. key[p] \in Keys /\ pc[p] = "del" /\ key' = [key EXCEPT ![p] = key[p]] /\ CA!Delete(p, key[p])
    BY <1>10 DEF CA!Expire, CacheInv, CacheTypes
  <2> QED BY <2>1, DropStep
<1>11. ASSUME NEW k \in Keys, CA!Fire(k) PROVE CacheInv'
  <2>1. PICK c \in Callbacks : /\ pc[c] = "idle" /\ pc' = [pc EXCEPT ![c] = "del"]
                               /\ key' = [key EXCEPT ![c] = k]
    BY <1>11 DEF CA!Fire, CA!Goto
  <2>2. timers' = timers \ {k} /\ UNCHANGED <<data, evicts, raced>> /\ c \in CA!Procs
    BY <1>11 DEF CA!Fire, CA!Procs
  <2>3. CacheTypes'
    BY <2>1, <2>2 DEF CacheInv, CacheTypes
  <2>4. Tended'
    <3> SUFFICES ASSUME NEW j \in data, j \notin timers', j \notin raced
                 PROVE  \E q \in CA!Procs : key'[q] = j /\ pc'[q] \in {"set", "del"}
      BY <2>2 DEF Tended
    <3>1. CASE j = k
      BY <2>1, <2>2, <3>1 DEF CacheInv, CacheTypes
    <3>2. CASE j # k
      <4>1. PICK q \in CA!Procs : key[q] = j /\ pc[q] \in {"set", "del"}
        BY <2>2, <3>2 DEF CacheInv, Tended
      <4> QED BY <2>1, <2>2, <4>1 DEF CacheInv, CacheTypes
    <3> QED BY <3>1, <3>2
  <2> QED BY <2>2, <2>3, <2>4 DEF CacheInv, Lru
<1>12. CASE UNCHANGED cache
  BY <1>12 DEF cache, CacheInv, CacheTypes, Lru, Tended
<1> QED BY <1>1, <1>2, <1>3, <1>4, <1>5, <1>6, <1>7, <1>8, <1>9, <1>10, <1>11, <1>12
        DEF CA!Next, CA!Progress

\* For any users, callbacks, keys and limit: the LRU list is the data and stays within the limit,
\* and an entry has a timer or somebody who is about to give it one or to delete it, unless a
\* RemoveTimer overtook it.
THEOREM EntriesAreKept == CA!Init /\ [][CA!Next]_cache => []EntriesKept
  BY CacheInit, CacheNext, CacheSafe, PTL
-----------------------------------------------------------------------------
(* The components beside each other *)

Together == Inv /\ WheelInv /\ CacheInv /\ WindowInv

\* A step of the composition is a step of one component and leaves the others alone.
LEMMA OneMoves ==
    ASSUME [CollectionNext]_<<part, vars, wheel, cache, cleaner, window>>
    PROVE  [Next]_vars /\ [TW!Next]_wheel /\ [CA!Next]_cache /\ [RW!Next]_window
<1>1. CASE UNCHANGED <<part, vars, wheel, cache, cleaner, window>>
  BY <1>1
<1>2. CASE CollectionNext
  BY <1>2, Zenon DEF CollectionNext, Alone
<1> QED BY <1>1, <1>2

\* The specification that the run checks has the safety properties of all its components, and
\* its SafeMap implements PlainMap.
THEOREM CollectionSafe ==
    CollectionSpec => [](TimersKept /\ EntriesKept /\ WindowExact) /\ IsPlainMap
<1>1. CollectionInit => Together /\ Abstract!Init
  BY InitInv, InitMaps, WheelInit, CacheInit, WindowStart DEF CollectionInit, Together
<1>2. Together /\ [CollectionNext]_<<part, vars, wheel, cache, cleaner, window>> => Together'
  BY OneMoves, NextInv, WheelNext, CacheNext, WindowNext DEF Together
<1>3. Together /\ [CollectionNext]_<<part, vars, wheel, cache, cleaner, window>>
        => [Abstract!Next]_(Abstract!vars)
  BY OneMoves, StepMaps DEF Together
<1>4. Together => TimersKept /\ EntriesKept /\ WindowExact
  BY WheelSafe, CacheSafe, WindowSafe DEF Together
<1> QED
  BY <1>1, <1>2, <1>3, <1>4, PTL DEF CollectionSpec, IsPlainMap, Abstract!Spec
=============================================================================
