---------------------------- MODULE Discov_proof ----------------------------
(***************************************************************************)
(* Proofs about core/discov and core/configcenter for any keys, values,    *)
(* goroutines and number of failures: readers of a Subscriber see sets of  *)
(* values that were live, a Publisher that is paused or stopped leaves     *)
(* nothing published but what etcd was not told to drop, and the snapshot  *)
(* of the config center is the value of its container.                     *)
(***************************************************************************)
EXTENDS MCDiscov, TLAPS

-----------------------------------------------------------------------------
(* The container of a Subscriber *)

Clean == ~dirty => snapshot = Listed(values)
Fits(d, S) == d.sure \subseteq S /\ S \subseteq d.possible
Recorded == \A r \in Readers : pc[r] # "idle" => Moment \in during[r]
Loading == \A r \in Readers : pc[r] = "load" => snapshot \in SUBSET Vals /\ \E d \in during[r] : Fits(d, snapshot)

IInv == TypeOK /\ MapsAgree /\ Clean /\ Recorded /\ Loading /\ ValuesWereLive

\* The maps agree, so what is listed is what may be expected at this moment.
LEMMA ListedFits == TypeOK /\ MapsAgree => Fits(Moment, Listed(values)) /\ Listed(values) \in SUBSET Vals
<1> SUFFICES ASSUME TypeOK, MapsAgree PROVE Fits(Moment, Listed(values)) /\ Listed(values) \in SUBSET Vals
  OBVIOUS
<1>1. Sure \subseteq Listed(values)
  BY ConstantsAssumption DEF TypeOK, MapsAgree, Listed, Sure
<1>2. Listed(values) \subseteq Possible
  BY ConstantsAssumption DEF TypeOK, MapsAgree, Listed, Possible
<1>3. Listed(values) \in SUBSET Vals
  BY DEF Listed
<1> QED BY <1>1, <1>2, <1>3 DEF Fits, Moment

\* The invariant of the container holds initially.
LEMMA InitIInv == Init => IInv
<1> SUFFICES ASSUME Init PROVE IInv
  OBVIOUS
<1>. USE ConstantsAssumption DEF Init
<1>1. TypeOK
  BY DEF TypeOK
<1>2. MapsAgree
  BY DEF MapsAgree
<1>. QED BY <1>1, <1>2 DEF IInv, Clean, Recorded, Loading, ValuesWereLive

\* What is recorded at a moment is a pair of sets of values.
LEMMA MomentType == Moment \in [sure : SUBSET Vals, possible : SUBSET Vals]
BY DEF Moment, Sure, Possible

\* An update that keeps the maps in agreement keeps the rest: it invalidates the
\* snapshot and adds this moment to the record of every reader under way.
LEMMA UpdateStep ==
    ASSUME IInv, TypeOK', MapsAgree', dirty' = TRUE, Record, UNCHANGED <<exclusive, snapshot, pc, got>>
    PROVE  IInv'
<1>1. Clean'
  BY DEF Clean
<1>2. \A r \in Readers : during'[r] = IF pc[r] = "idle" THEN during[r] ELSE during[r] \cup {Moment'}
  BY DEF Record
<1>3. Recorded'
  BY <1>2 DEF Recorded
<1>4. Loading'
  BY <1>2 DEF IInv, Loading, Fits
<1>5. ValuesWereLive'
  BY <1>2 DEF IInv, ValuesWereLive
<1>. QED BY <1>1, <1>3, <1>4, <1>5 DEF IInv

\* The type of the record after an update.
LEMMA RecordType ==
    ASSUME TypeOK, Record
    PROVE  /\ during' \in [Readers -> SUBSET [sure : SUBSET Vals, possible : SUBSET Vals]]
           /\ updates' \in Nat
<1>1. Moment' \in [sure : SUBSET Vals, possible : SUBSET Vals]
  BY DEF Moment, Sure, Possible
<1>. QED BY <1>1 DEF TypeOK, Record

\* OnAdd keeps it: the maps change together and dirty is set.
LEMMA AddStep ==
    ASSUME IInv, NEW k \in Keys, NEW v \in Vals, OnAdd(k, v)
    PROVE  IInv'
<1>. USE ConstantsAssumption
<1> PICK gone \in Evictions(v) : values' = Relist(k, v, gone) /\ mapping' = Unmap(k, v, gone)
  BY DEF OnAdd
<1>0. /\ gone \subseteq values[v]
      /\ gone # {} => exclusive
      /\ exclusive => \A j \in values[v] : mapping[j] = v => j \in gone
  BY DEF Evictions
<1>1. TypeOK'
  <2>1. values' \in [Vals -> SUBSET Keys]
    BY DEF IInv, TypeOK, Relist
  <2>2. mapping' \in [Keys -> Vals \cup {None}]
    BY DEF IInv, TypeOK, Unmap
  <2>3. live' \in [Keys -> Vals \cup {None}] /\ stale' \subseteq Keys \X Vals
    BY DEF IInv, TypeOK, OnAdd
  <2>4. dirty' \in BOOLEAN
    BY DEF OnAdd, MarkDirty
  <2>. QED BY <2>1, <2>2, <2>3, <2>4, RecordType DEF IInv, TypeOK, OnAdd
<1>2. /\ \A j \in Keys : mapping'[j] = IF j = k THEN v ELSE IF j \in gone THEN None ELSE mapping[j]
      /\ \A j \in Keys, w \in Vals :
            j \in values'[w] <=> (j \in values[w] /\ ~(j \in gone /\ mapping[j] = w)) \/ (w = v /\ j = k)
      /\ \A j \in Keys : live'[j] = IF j = k THEN v ELSE IF exclusive /\ live[j] = v THEN None ELSE live[j]
      /\ exclusive' = exclusive
  BY DEF OnAdd, Relist, Unmap, IInv, TypeOK
<1>3. /\ \A j \in Keys, w \in Vals : j # k => (<<j, w>> \in stale' <=> <<j, w>> \in stale)
      /\ \A w \in Vals : w # v => (<<k, w>> \in stale' <=> <<k, w>> \in stale \/ live[k] = w)
  BY DEF OnAdd, IInv, TypeOK
<1>4. ASSUME NEW j \in Keys
      PROVE  /\ mapping'[j] = live'[j] \/ (mapping'[j] = None /\ exclusive' /\ Changed(j)')
             /\ mapping'[j] # None => j \in values'[mapping'[j]]
             /\ \A w \in Vals : j \in values'[w] => mapping'[j] = w \/ <<j, w>> \in stale'
  <2>1. /\ mapping[j] = live[j] \/ (mapping[j] = None /\ exclusive /\ Changed(j))
        /\ mapping[j] # None => j \in values[mapping[j]]
        /\ \A w \in Vals : j \in values[w] => mapping[j] = w \/ <<j, w>> \in stale
        /\ mapping[j] \in Vals \cup {None} /\ live[j] \in Vals \cup {None}
    BY DEF IInv, TypeOK, MapsAgree
  <2>2. CASE j = k
    <3>1. mapping'[j] = v /\ live'[j] = v /\ j \in values'[v]
      BY <1>2, <2>2
    <3>2. ASSUME NEW w \in Vals, j \in values'[w], w # v PROVE <<j, w>> \in stale'
      BY <1>2, <1>3, <2>1, <2>2, <3>2
    <3> QED BY <3>1, <3>2
  <2>3. CASE j # k
    <3>1. Changed(j)' <=> Changed(j)
      BY <1>3, <2>3 DEF Changed
    <3>2. CASE j \in gone
      <4>1. mapping'[j] = None /\ exclusive
        BY <1>0, <1>2, <2>3, <3>2
      <4>2. mapping[j] = v \/ <<j, v>> \in stale
        BY <1>0, <2>1, <3>2
      <4>3. live'[j] = None \/ Changed(j)
        BY <1>2, <2>1, <2>3, <4>1, <4>2 DEF Changed
      <4>4. ASSUME NEW w \in Vals, j \in values'[w] PROVE <<j, w>> \in stale'
        BY <1>2, <1>3, <2>1, <2>3, <3>2, <4>4
      <4> QED BY <1>2, <3>1, <4>1, <4>3, <4>4
    <3>3. CASE j \notin gone
      <4>1. mapping'[j] = mapping[j]
        BY <1>2, <2>3, <3>3
      <4>2. mapping'[j] = live'[j] \/ (mapping'[j] = None /\ exclusive' /\ Changed(j)')
        BY <1>0, <1>2, <2>1, <2>3, <3>1, <3>3, <4>1
      <4>3. mapping'[j] # None => j \in values'[mapping'[j]]
        BY <1>2, <2>1, <3>3, <4>1
      <4>4. ASSUME NEW w \in Vals, j \in values'[w] PROVE mapping'[j] = w \/ <<j, w>> \in stale'
        BY <1>2, <1>3, <2>1, <2>3, <4>1, <4>4
      <4> QED BY <4>2, <4>3, <4>4
    <3> QED BY <3>2, <3>3
  <2>. QED BY <2>2, <2>3
<1>5. MapsAgree'
  BY <1>4 DEF MapsAgree
<1>. QED BY <1>1, <1>5, UpdateStep DEF OnAdd, MarkDirty

\* OnDelete keeps it, in the same way.
LEMMA DeleteStep ==
    ASSUME IInv, NEW k \in Keys, OnDelete(k)
    PROVE  IInv'
<1>. USE ConstantsAssumption
<1>1. TypeOK'
  BY RecordType DEF IInv, TypeOK, OnDelete, Forget, MarkDirty
<1>2. \A j \in Keys : Changed(j)' <=> Changed(j)
  BY DEF Changed, OnDelete
<1>3. MapsAgree'
  BY <1>2 DEF IInv, TypeOK, MapsAgree, OnDelete, Forget
<1>. QED BY <1>1, <1>3, UpdateStep DEF OnDelete, MarkDirty

\* What a step of a reader leaves alone.
LEMMA ReaderKeeps ==
    ASSUME UNCHANGED <<exclusive, values, mapping, history>>
    PROVE  UNCHANGED Moment /\ (MapsAgree => MapsAgree')
BY DEF history, Moment, Sure, Possible, Changed, MapsAgree

\* A reader that finds the container clean will load a set it has recorded.
LEMMA GetStep ==
    ASSUME IInv, NEW r \in Readers, GetValues(r)
    PROVE  IInv'
<1>. USE DEF GetValues, state, history
<1>1. UNCHANGED Moment /\ MapsAgree'
  BY ReaderKeeps DEF IInv
<1>2. TypeOK'
  BY MomentType DEF IInv, TypeOK
<1>3. Clean'
  BY DEF IInv, Clean, Listed
<1>4. Recorded'
  BY <1>1 DEF IInv, TypeOK, Recorded
<1>5. Loading'
  <2>1. ~dirty => snapshot \in SUBSET Vals /\ Fits(Moment, snapshot)
    BY ListedFits DEF IInv, Clean
  <2> QED BY <2>1 DEF IInv, TypeOK, Loading
<1>6. ValuesWereLive'
  BY DEF IInv, TypeOK, ValuesWereLive
<1>. QED BY <1>1, <1>2, <1>3, <1>4, <1>5, <1>6 DEF IInv

\* Load returns such a set.
LEMMA LoadStep ==
    ASSUME IInv, NEW r \in Readers, Load(r)
    PROVE  IInv'
<1>. USE DEF Load, state, history
<1>1. UNCHANGED Moment /\ MapsAgree'
  BY ReaderKeeps DEF IInv
<1>2. snapshot \in SUBSET Vals /\ \E d \in during[r] : Fits(d, snapshot)
  BY DEF IInv, Loading
<1>3. TypeOK'
  BY <1>2, ConstantsAssumption DEF IInv, TypeOK
<1>4. Clean'
  BY DEF IInv, Clean, Listed
<1>5. Recorded' /\ Loading'
  BY <1>1 DEF IInv, TypeOK, Recorded, Loading
<1>6. ValuesWereLive'
  BY <1>2 DEF IInv, TypeOK, ValuesWereLive, Fits
<1>. QED BY <1>1, <1>3, <1>4, <1>5, <1>6 DEF IInv

\* The new snapshot is what is listed now, which fits this moment, and every reader recorded it.
LEMMA BuildStep ==
    ASSUME IInv, NEW r \in Readers, Build(r)
    PROVE  IInv'
<1>. USE DEF Build, history
<1>1. UNCHANGED Moment /\ MapsAgree'
  BY ReaderKeeps DEF IInv
<1>2. Listed(values) \in SUBSET Vals /\ Listed(values) # None /\ Fits(Moment, Listed(values))
  BY ListedFits, ConstantsAssumption DEF IInv
<1>3. TypeOK'
  BY <1>2 DEF IInv, TypeOK
<1>4. Clean'
  BY DEF IInv, Clean, Listed
<1>5. Recorded'
  BY <1>1 DEF IInv, TypeOK, Recorded
<1>6. Loading'
  BY <1>2 DEF IInv, TypeOK, Recorded, Loading
<1>7. ValuesWereLive'
  BY <1>2 DEF IInv, TypeOK, Recorded, ValuesWereLive, Fits
<1>. QED BY <1>1, <1>3, <1>4, <1>5, <1>6, <1>7 DEF IInv

\* Every step keeps the invariant.
LEMMA NextIInv == IInv /\ [Next]_vars => IInv'
<1> SUFFICES ASSUME IInv, [Next]_vars PROVE IInv'
  OBVIOUS
<1>1. CASE \E k \in Keys, v \in Vals : OnAdd(k, v)
  BY <1>1, AddStep
<1>2. CASE \E k \in Keys : OnDelete(k)
  BY <1>2, DeleteStep
<1>3. CASE \E r \in Readers : GetValues(r) \/ Load(r) \/ Build(r)
  BY <1>3, GetStep, LoadStep, BuildStep
<1>4. CASE UNCHANGED vars
  <2>1. UNCHANGED Moment /\ MapsAgree'
    BY <1>4, ReaderKeeps DEF vars, state, IInv
  <2> QED BY <1>4, <2>1 DEF vars, state, history, IInv, TypeOK, Clean, Recorded, Loading, ValuesWereLive,
                            Listed, Fits
<1>. QED BY <1>1, <1>2, <1>3, <1>4 DEF Next

\* Type correctness; in particular no reader loads a snapshot that was never
\* stored.
THEOREM TypeCorrect == Spec => []TypeOK
<1>1. IInv => TypeOK
  BY DEF IInv
<1>. QED BY <1>1, InitIInv, NextIInv, PTL DEF Spec

\* The maps of the container agree with the calls of OnAdd and OnDelete, whatever calls come:
\* a key is in the lists of the value it has and of values it had when it was changed, and
\* loses its value only in exclusive mode after such a change.
THEOREM MapsStayInAgreement == Spec => []MapsAgree
<1>1. IInv => MapsAgree
  BY DEF IInv
<1>. QED BY <1>1, InitIInv, NextIInv, PTL DEF Spec

\* GetValues is linearizable: it returns the values at some moment of the call, the live ones
\* and none but those and the ones left behind by a change of value.
THEOREM ReadersSeeLiveValues == Spec => []ValuesWereLive
<1>1. IInv => ValuesWereLive
  BY DEF IInv
<1>. QED BY <1>1, InitIInv, NextIInv, PTL DEF Spec

\* In exclusive mode no step gives two keys one value: the key that has the
\* value of an OnAdd is in its list, and addKv reaches it.
LEMMA OneToOneStep ==
    ASSUME IInv, OneToOne, [Next]_vars
    PROVE  OneToOne'
<1> SUFFICES ASSUME exclusive', NEW i \in Keys, NEW j \in Keys, i # j, mapping'[i] = mapping'[j]
             PROVE  mapping'[i] = None
  BY DEF OneToOne
<1>. USE DEF IInv, TypeOK
<1>1. exclusive
  BY DEF Next, vars, OnAdd, OnDelete, GetValues, Load, Build
<1>2. CASE \E k \in Keys, v \in Vals : OnAdd(k, v)
  <2> PICK k \in Keys, v \in Vals : OnAdd(k, v)
    BY <1>2
  <2> PICK gone \in Evictions(v) : mapping' = Unmap(k, v, gone)
    BY DEF OnAdd
  <2>1. \A n \in Keys : mapping'[n] = IF n = k THEN v ELSE IF n \in gone THEN None ELSE mapping[n]
    BY DEF Unmap
  <2>2. \A n \in Keys : mapping[n] = v => n \in gone
    BY <1>1, ConstantsAssumption DEF MapsAgree, Evictions
  <2>3. \A n \in Keys \ {k} : mapping'[n] # v
    BY <2>1, <2>2, ConstantsAssumption
  <2>4. i # k /\ j # k
    BY <2>1, <2>3
  <2>. QED BY <1>1, <2>1, <2>4 DEF OneToOne
<1>3. CASE \E k \in Keys : OnDelete(k)
  BY <1>1, <1>3 DEF OneToOne, OnDelete
<1>4. CASE UNCHANGED mapping
  BY <1>1, <1>4 DEF OneToOne
<1>. QED BY <1>2, <1>3, <1>4 DEF Next, vars, state, GetValues, Load, Build

\* Exclusive(): "key value can only be 1:1".
THEOREM ExclusiveIsOneToOne == Spec => []OneToOne
<1>1. Init => OneToOne
  BY DEF Init, OneToOne
<1>. QED BY <1>1, InitIInv, NextIInv, OneToOneStep, PTL DEF Spec
-----------------------------------------------------------------------------
(* Publisher: what is published belongs to the lease the goroutine cares for or was left behind;
   where it cares for none, all was left behind. *)

AllLeft == \A e \in keys : e[2] \in leaked

Cares == gpc \in {"put", "putFirst", "renew", "renewFirst", "watch", "loop", "revoke"}

PubInv ==
    /\ \A e \in keys : e[2] = lease \/ e[2] \in leaked
    /\ ~Cares => AllLeft
    /\ gpc = "revoke" => after \in {"again", "paused", "end"}

\* What a put leaves in etcd.
LEMMA PutKeyLease == ASSUME NEW l, NEW e \in PB!PutKey(l) PROVE e \in keys \/ e[2] = l
  BY DEF PB!PutKey

\* The invariant holds initially.
LEMMA PubInit == PB!Init => PubInv
  BY DEF PB!Init, PubInv, AllLeft

\* Every step preserves the invariant: a lease is let go after it was revoked or is left behind.
LEMMA PubNext == PubInv /\ [PB!Next]_publisher => PubInv'
<1> SUFFICES ASSUME PubInv, [PB!Next]_publisher PROVE PubInv'
  OBVIOUS
<1> USE DEF PubInv, AllLeft, Cares, PB!chans, PB!history, PB!Failed, PB!RevokeThen
<1>1. CASE PB!Grant
  BY <1>1 DEF PB!Grant
<1>2. CASE PB!Put
  <2>1. \A e \in keys' : e \in keys \/ e[2] = lease
    BY <1>2, PutKeyLease DEF PB!Put
  <2> QED BY <1>2, <2>1 DEF PB!Put
<1>3. CASE PB!Renew
  BY <1>3 DEF PB!Renew
<1>4. CASE PB!PutAgain
  <2>1. \A e \in keys' : e \in keys \/ e[2] = lease
    BY <1>4, PutKeyLease DEF PB!PutAgain
  <2> QED BY <1>4, <2>1 DEF PB!PutAgain
<1>5. CASE PB!Revoke
  BY <1>5 DEF PB!Revoke
<1>6. CASE PB!KeepAlive \/ PB!GiveUp \/ PB!Watch \/ PB!Resume \/ PB!Stop \/ PB!RenewalStops
  BY <1>6 DEF PB!KeepAlive, PB!GiveUp, PB!Watch, PB!Resume, PB!Stop, PB!RenewalStops
<1>7. CASE PB!RenewalEnds \/ PB!WatchError \/ PB!Pause \/ PB!Quit
  BY <1>7 DEF PB!RenewalEnds, PB!WatchError, PB!Pause, PB!Quit
<1>8. CASE (\E l \in leases : PB!LeaseEnds(l)) \/ PB!KeyDeleted
  BY <1>8 DEF PB!LeaseEnds, PB!KeyDeleted
<1>9. CASE UNCHANGED publisher
  BY <1>9 DEF publisher
<1> QED
  BY <1>1, <1>2, <1>3, <1>4, <1>5, <1>6, <1>7, <1>8, <1>9 DEF PB!Next, PB!Goroutine

\* A Publisher that is paused or stopped has taken the service out of discovery, but for leases
\* that were left behind.
THEOREM StoppedIsUnpublished == PB!Init /\ [][PB!Next]_publisher => []StopUnpublishes
<1>1. PubInv => StopUnpublishes
  BY DEF PubInv, AllLeft, Cares, StopUnpublishes, PB!StopUnpublishes
<1> QED BY <1>1, PubInit, PubNext, PTL
-----------------------------------------------------------------------------
(* ConfigCenter: when the snapshot is old, somebody is on the way to bring the present value, or
   it was missed or overwritten; and once nobody is, whoever is about to store was overtaken. *)

Hears == listening
Notified(f) == fpc[f] \in {"notify", "load"}
Holds(f) == fpc[f] = "store" /\ loaded[f] = content
Brings == \E f \in Feeders : Notified(f) \/ Holds(f)

CenterTypes ==
    /\ DOMAIN fpc = Feeders /\ DOMAIN loaded = Feeders \cup {"new"} /\ "new" \notin Feeders
    /\ Hears <=> npc \in {"check", "made", "error"}
    /\ \A f \in Feeders : fpc[f] \in {"load", "store", "tell"} => Hears

\* Before it listens, the value that NewConfigCenter has loaded and stored is the present one,
\* unless a change is about to be notified or was missed.
LoadedFirst ==
    /\ npc = "listen" => config.data = loaded["new"]
    /\ npc \in {"store", "listen"} => loaded["new"] = content \/ odd # {} \/ \E f \in Feeders : fpc[f] = "notify"

\* Afterwards the snapshot is.
Brought ==
    /\ Hears => config.data = content \/ odd # {} \/ Brings
    /\ Hears /\ ~Brings => \A f \in Feeders : fpc[f] = "store" => f \in overtaken

CenterInv == CenterTypes /\ LoadedFirst /\ Brought

\* A snapshot has the data it is made of.
LEMMA SnapshotData == ASSUME NEW v, NEW c \in CC!Values(v) PROVE c.data = v
  BY DEF CC!Values, CC!NoConfig

\* The invariant holds initially.
LEMMA CenterInit == CC!Init => CenterInv
<1> SUFFICES ASSUME CC!Init PROVE CenterInv
  OBVIOUS
<1>1. ~Hears
  BY Zenon DEF CC!Init, Hears
<1> QED BY <1>1, CenterAssumption DEF CC!Init, CenterInv, CenterTypes, LoadedFirst, Brought

\* Every step preserves the invariant.
LEMMA CenterNext == CenterInv /\ [CC!Next]_center => CenterInv'
<1> SUFFICES ASSUME CenterInv, [CC!Next]_center PROVE CenterInv'
  OBVIOUS
<1>0. CenterTypes /\ LoadedFirst /\ Brought
  BY DEF CenterInv
<1> USE DEF CenterTypes, CC!Goto
<1>1. ASSUME NEW f \in Feeders, CC!OnChangeOfKey(f) PROVE CenterInv'
  <2>1. Hears' <=> Hears
    BY <1>1, Zenon DEF CC!OnChangeOfKey, Hears
  <2>2. fpc' = [fpc EXCEPT ![f] = "notify"] /\ UNCHANGED <<npc, config, loaded>>
    BY <1>1 DEF CC!OnChangeOfKey
  <2>3. fpc'[f] = "notify"
    BY <1>0, <2>2
  <2>4. Brings' /\ LoadedFirst'
    BY <1>0, <2>2, <2>3 DEF Brings, Notified, LoadedFirst
  <2> QED BY <1>0, <2>1, <2>2, <2>4 DEF CenterInv, Brought
<1>2. ASSUME NEW f \in Feeders, CC!NotifyChange(f) PROVE CenterInv'
  <2>1. Hears' <=> Hears
    BY <1>2, Zenon DEF CC!NotifyChange, Hears
  <2>2. /\ fpc[f] = "notify" /\ UNCHANGED <<npc, config, loaded, content, overtaken>>
        /\ fpc' = [fpc EXCEPT ![f] = IF Hears THEN "load" ELSE "idle"]
    BY <1>2, Zenon DEF CC!NotifyChange, CC!Goto, Hears
  <2>3. odd' = IF ~Hears /\ npc \in {"store", "listen"} /\ content # loaded["new"] THEN {"missed"} ELSE odd
    BY <1>2, Zenon DEF CC!NotifyChange, Hears
  <2>4. CenterTypes'
    BY <1>0, <2>1, <2>2
  <2>5. LoadedFirst'
    BY <1>0, <2>2, <2>3 DEF LoadedFirst
  <2>6. Hears => fpc'[f] = "load"
    BY <1>0, <2>2
  <2>7. Hears => Brings'
    BY <2>6 DEF Brings, Notified
  <2> QED BY <2>1, <2>4, <2>5, <2>7 DEF CenterInv, Brought
<1>3. ASSUME NEW f \in Feeders, CC!Load(f) PROVE CenterInv'
  <2>1. Hears' <=> Hears
    BY <1>3, Zenon DEF CC!Load, Hears
  <2>2. /\ fpc[f] = "load" /\ UNCHANGED <<npc, config, content, odd>>
        /\ fpc' = [fpc EXCEPT ![f] = "store"] /\ loaded' = [loaded EXCEPT ![f] = content]
    BY <1>3 DEF CC!Load
  <2>3. fpc'[f] = "store" /\ loaded'[f] = content' /\ loaded'["new"] = loaded["new"]
    BY <1>0, <2>2
  <2>4. Brings'
    BY <2>3 DEF Brings, Holds
  <2>5. LoadedFirst'
    BY <1>0, <2>2, <2>3 DEF LoadedFirst
  <2> QED BY <1>0, <2>1, <2>2, <2>4, <2>5 DEF CenterInv, Brought
<1>4. ASSUME NEW f \in Feeders, CC!Store(f) PROVE CenterInv'
  <2>1. Hears' <=> Hears
    BY <1>4, Zenon DEF CC!Store, Hears
  <2>2. /\ fpc[f] = "store" /\ UNCHANGED <<npc, content, loaded>>
        /\ fpc' = [fpc EXCEPT ![f] = "tell"] /\ config'.data = loaded[f]
    BY <1>4, SnapshotData DEF CC!Store
  <2>3. /\ overtaken' = (IF loaded[f] # content THEN overtaken
                         ELSE overtaken \cup {g \in Feeders : fpc[g] = "store" /\ loaded[g] # content}) \ {f}
        /\ odd' = IF f \in overtaken /\ loaded[f] # content THEN {"raced"} ELSE {}
    BY <1>4 DEF CC!Store, CC!Overtake
  <2>4. Hears
    BY <1>0, <2>2
  <2>5. CenterTypes' /\ LoadedFirst'
    BY <1>0, <2>1, <2>2, <2>4 DEF LoadedFirst
  <2>6. \A g \in Feeders \ {f} : fpc'[g] = fpc[g] /\ (Notified(g)' <=> Notified(g)) /\ (Holds(g)' <=> Holds(g))
    BY <1>0, <2>2 DEF Notified, Holds
  <2>7. fpc'[f] = "tell"
    BY <1>0, <2>2
  <2>8. CASE loaded[f] = content
    <3>1. config'.data = content'
      BY <2>2, <2>8
    <3>2. ASSUME ~Brings', NEW g \in Feeders, fpc'[g] = "store" PROVE g \in overtaken'
      <4>1. g # f /\ fpc[g] = "store" /\ loaded[g] # content
        BY <2>6, <2>7, <3>2 DEF Brings, Holds
      <4> QED BY <2>3, <2>8, <4>1
    <3> QED BY <2>5, <3>1, <3>2 DEF CenterInv, Brought
  <2>9. CASE loaded[f] # content
    <3>1. Brings => Brings'
      BY <2>2, <2>6, <2>9 DEF Brings, Notified, Holds
    <3>2. ~Brings => f \in overtaken /\ \A g \in Feeders : fpc[g] = "store" => g \in overtaken
      BY <1>0, <2>2, <2>4 DEF Brought
    <3>3. ~Brings => odd' # {} /\ \A g \in Feeders : fpc'[g] = "store" => g \in overtaken'
      BY <2>3, <2>6, <2>7, <2>9, <3>2
    <3> QED BY <2>5, <3>1, <3>3 DEF CenterInv, Brought
  <2> QED BY <2>8, <2>9
<1>5. ASSUME NEW f \in Feeders, CC!Tell(f) PROVE CenterInv'
  <2>1. Hears' <=> Hears
    BY <1>5, Zenon DEF CC!Tell, Hears
  <2>2. /\ fpc[f] = "tell" /\ UNCHANGED <<npc, config, content, overtaken, odd>>
        /\ fpc' = [fpc EXCEPT ![f] = "idle"] /\ loaded' = [loaded EXCEPT ![f] = 0]
    BY <1>5 DEF CC!Tell
  <2>3. /\ \A g \in Feeders \ {f} : fpc'[g] = fpc[g] /\ loaded'[g] = loaded[g]
        /\ fpc'[f] = "idle" /\ loaded'["new"] = loaded["new"]
    BY <1>0, <2>2
  <2>4. Brings' <=> Brings
    BY <2>2, <2>3 DEF Brings, Notified, Holds
  <2>5. CenterTypes' /\ LoadedFirst'
    BY <1>0, <2>1, <2>2, <2>3 DEF LoadedFirst
  <2>6. Brought'
    BY <1>0, <2>1, <2>2, <2>3, <2>4 DEF Brought
  <2> QED BY <2>5, <2>6 DEF CenterInv
<1>6. CASE CC!NewStep
  <2>0. UNCHANGED <<content, fpc, odd, overtaken>>
    BY <1>6 DEF CC!NewStep
  <2>1. CASE npc = "idle"
    <3>1. Hears' <=> Hears
      <4>1. listening' = listening
        BY <1>6, <2>1 DEF CC!NewStep
      <4> QED BY <4>1, Zenon DEF Hears
    <3>2. npc' = "store" /\ loaded' = [loaded EXCEPT !["new"] = content] /\ UNCHANGED config
      BY <1>6, <2>1 DEF CC!NewStep
    <3>3. ~Hears'
      BY <1>0, <2>1, <3>1
    <3> QED BY <1>0, <2>0, <2>1, <3>1, <3>2, <3>3 DEF CenterInv, LoadedFirst, Brought
  <2>2. CASE npc = "store"
    <3>1. Hears' <=> Hears
      <4>1. listening' = listening
        BY <1>6, <2>2 DEF CC!NewStep
      <4> QED BY <4>1, Zenon DEF Hears
    <3>2. npc' = "listen" /\ UNCHANGED loaded /\ config' \in CC!Values(loaded["new"])
      BY <1>6, <2>2 DEF CC!NewStep
    <3>3. config'.data = loaded["new"]
      BY <3>2, SnapshotData
    <3>4. ~Hears'
      BY <1>0, <2>2, <3>1
    <3> QED BY <1>0, <2>0, <2>2, <3>1, <3>2, <3>3, <3>4 DEF CenterInv, LoadedFirst, Brought
  <2>3. CASE npc = "listen"
    <3>1. Hears'
      BY <1>6, <2>3, Zenon DEF CC!NewStep, Hears
    <3>2. npc' = "check" /\ UNCHANGED <<loaded, config>>
      BY <1>6, <2>3 DEF CC!NewStep
    <3>3. ~Hears
      BY <1>0, <2>3
    <3>4. \A f \in Feeders : fpc[f] \notin {"load", "store", "tell"}
      BY <1>0, <3>3
    <3>5. config.data = content \/ odd # {} \/ \E f \in Feeders : fpc[f] = "notify"
      BY <1>0, <2>3 DEF LoadedFirst
    <3>6. Brought'
      BY <2>0, <3>2, <3>4, <3>5 DEF Brought, Brings, Notified
    <3> QED BY <1>0, <2>0, <3>1, <3>2, <3>6 DEF CenterInv, LoadedFirst
  <2>4. CASE npc = "check"
    <3>1. Hears' <=> Hears
      <4>1. listening' = listening
        BY <1>6, <2>4 DEF CC!NewStep
      <4> QED BY <4>1, Zenon DEF Hears
    <3>2. npc' \in {"made", "error"} /\ UNCHANGED <<loaded, config>>
      BY <1>6, <2>4 DEF CC!NewStep
    <3>3. Brings' <=> Brings
      BY <2>0, <3>2 DEF Brings, Notified, Holds
    <3> QED BY <1>0, <2>0, <2>4, <3>1, <3>2, <3>3 DEF CenterInv, LoadedFirst, Brought
  <2> QED BY <1>6, <2>1, <2>2, <2>3, <2>4 DEF CC!NewStep
<1>7. CASE UNCHANGED center
  <2>1. Hears' <=> Hears
    BY <1>7, Zenon DEF center, Hears
  <2>2. Brings' <=> Brings
    BY <1>7 DEF center, Brings, Notified, Holds
  <2> QED BY <1>0, <1>7, <2>1, <2>2 DEF center, CenterInv, LoadedFirst, Brought
<1> QED
  BY <1>1, <1>2, <1>3, <1>4, <1>5, <1>6, <1>7 DEF CC!Next, CC!FeederStep

\* The config center has the value of its container whenever no change is being delivered, unless
\* that value was missed before AddListener or overwritten by a delivery that had read before it.
THEOREM CenterIsCurrent == CC!Init /\ [][CC!Next]_center => []SnapshotCurrent
<1>1. CenterInv => SnapshotCurrent
  <2>1. SnapshotCurrent <=>
            (Hears /\ (\A f \in Feeders : fpc[f] \notin {"notify", "load", "store"}) => config.data = content \/ odd # {})
    BY Zenon DEF SnapshotCurrent, CC!SnapshotCurrent, Hears
  <2> QED BY <2>1 DEF CenterInv, Brought, Brings, Notified, Holds
<1> QED BY <1>1, CenterInit, CenterNext, PTL
-----------------------------------------------------------------------------
(* The specification *)

\* The parts of discovery keep their promises side by side.
THEOREM DiscovSafe == DiscovSpec => [](ValuesWereLive /\ StopUnpublishes /\ SnapshotCurrent)
<1>1. DiscovInit => Init /\ PB!Init /\ CC!Init
  BY DEF DiscovInit
<1>2. [DiscovNext]_<<part, vars, publisher, center>> => [Next]_vars /\ [PB!Next]_publisher /\ [CC!Next]_center
  BY DEF DiscovNext, Alone
<1>3. Init /\ [][Next]_vars => []ValuesWereLive
  BY ReadersSeeLiveValues DEF Spec
<1> QED BY <1>1, <1>2, <1>3, StoppedIsUnpublished, CenterIsCurrent, PTL DEF DiscovSpec
=============================================================================
