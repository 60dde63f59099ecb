--------------------------- MODULE Registry_proof ---------------------------
(***************************************************************************)
(* Proofs about the registry for any keys, values, listeners and numbers   *)
(* of goroutines, failures, compactions and reconnections.                 *)
(* The argument for the values: a key whose value is not the one in etcd   *)
(* is still ahead of some goroutine, which has to load or has a change of  *)
(* the key before it.  A goroutine ends with work left only in a reload,   *)
(* which starts another, or after the last listener has left.              *)
(* The argument for a listener: what it was told, with what the goroutine  *)
(* is about to tell it, is what the registry knows.                        *)
(***************************************************************************)
EXTENDS Registry, TLAPS

Streaming == {"stream", "handle", "update", "tellevent"}
Telling == {"tellchanges", "tellevent"}
Values == Vals \cup {None}
Stores == [Keys -> Values]
Changes == [key : Keys, val : Values, store : Stores]
Notes == [new : Stores, gone : SUBSET Keys, to : SUBSET Listeners, inc : Nat]

\* The types.
LogType == log \in Seq(Changes)
PlainType ==
    /\ listeners \subseteq Listeners /\ inc \in Nat /\ leaves \in Nat
    /\ DOMAIN pc = Watches /\ rev \in [Watches -> Nat] /\ pos \in [Watches -> Nat] /\ DOMAIN mpc = Listeners
NoteType == told \in [Watches -> Notes]
ValueType == values \in Stores /\ current \in [Listeners -> Stores] /\ view \in [Listeners -> Stores]

\* The history: every change is in the store it results in, and a key that differs from what it
\* was at an earlier revision has changed since.
LogInv ==
    /\ \A n \in 1 .. Len(log) : log[n].store[log[n].key] = log[n].val
    /\ \A m \in 0 .. Len(log), k \in Keys :
         StoreAt(m)[k] = Store[k] \/ \E n \in m + 1 .. Len(log) : log[n].key = k

\* A goroutine is not ahead of etcd, and its stream not behind its load.
RevInv ==
    \A w \in Watches :
      /\ rev[w] \in 0 .. Len(log) /\ pos[w] \in 1 .. Len(log) + 1
      /\ pc[w] \in Streaming => rev[w] < pos[w]
      /\ pc[w] \in {"handle", "update", "tellevent"} => pos[w] <= Len(log)

Follows(w) == pc[w] # "off" /\ (pc[w] \in Streaming => w \notin cancelled)

\* Who watches: a goroutine with a stream is in the group, and while the key is watched one goroutine goes on.
GroupInv ==
    /\ done => locked
    /\ \A w \in Watches : pc[w] \in {"setup"} \cup Streaming => w \in group
    /\ on /\ ~locked => \E w \in Watches : Follows(w)

\* Before anyone has left there was one watchValue.
FirstInv ==
    leaves = 0 =>
      /\ \A w \in Watches : w \in cancelled => pc[w] \notin Streaming
      /\ ~on => \A w \in Watches : pc[w] = "off"
      /\ on => inc = 1
      /\ ~on => inc = 0
      /\ \A w \in Watches : pc[w] = "update" => told[w].inc = 1

\* The next event that w will apply to values.
NextEvent(w) ==
    IF pc[w] \in {"tellchanges", "setup"} THEN rev[w] + 1
    ELSE IF pc[w] = "tellevent" THEN pos[w] + 1 ELSE pos[w]

\* w will give k the value it has in etcd.
Due(w, k) ==
    \/ pc[w] \in {"load", "apply"}
    \/ pc[w] # "off" /\ \E n \in NextEvent(w) .. Len(log) : log[n].key = k

\* What the registry does not know is due.
KnownInv ==
    on /\ leaves = 0 /\ ~locked => \A k \in Keys : values[k] = Store[k] \/ \E w \in Watches : Due(w, k)

\* One goroutine at a time, unless history says otherwise.
SingleInv == ~overlap => \A u, w \in Watches : pc[u] # "off" /\ pc[w] # "off" => u = w

\* Someone gave k the value v.
Written(k, v) == \E n \in 1 .. Len(log) : log[n].key = k /\ log[n].val = v

\* Values come from etcd.
OriginInv ==
    /\ \A k \in Keys, v \in Vals : values[k] = v => Written(k, v)
    /\ \A m \in 1 .. Len(log), k \in Keys, v \in Vals : log[m].store[k] = v => Written(k, v)

\* l is the only listener there ever was.
Solo(l) == \A m \in Listeners \ {l} : mpc[m] = "out"

\* A listener waits in Monitor for the load of one goroutine.
CallerInv ==
    /\ DOMAIN caller = Watches
    /\ \A w \in Watches : caller[w] # None =>
         /\ caller[w] \in Listeners /\ mpc[caller[w]] = "load"
         /\ \A u \in Watches : caller[u] = caller[w] => u = w

\* Who has left has been here.
LeftInv == leaves # 0 => \E m \in Listeners : mpc[m] = "left"

\* The only listener has brought the watchValue, and is told of everything.
SoloInv(l) ==
    Solo(l) /\ leaves = 0 =>
      /\ mpc[l] \in {"out", "first", "load", "in"}
      /\ mpc[l] \in {"out", "first"} => ~on
      /\ listeners = IF on THEN {l} ELSE {}
      /\ ~on => view[l] = Empty
      /\ \A w \in Watches : pc[w] \in {"tellchanges", "update", "tellevent"} => told[w].to = {l}

\* It knows what the registry knows, with what it is about to be told.
Told(l) ==
    /\ \A w \in Watches : pc[w] \in Telling => After(view[l], told[w]) = values
    /\ (\A w \in Watches : pc[w] \notin Telling) => view[l] = values

AgreeInv(l) == Solo(l) /\ leaves = 0 /\ on /\ ~overlap /\ KeysKeepValues => Told(l)

\* No key has a value.
LEMMA EmptyType == Empty \in Stores
  BY DEF Empty, Stores, Values

\* There is nothing to tell.
LEMMA NothingType == Nothing \in Notes
  BY EmptyType DEF Nothing, Notes

\* A change in the history.
LEMMA EntryType ==
    ASSUME LogType, NEW n \in 1 .. Len(log)
    PROVE  log[n].key \in Keys /\ log[n].val \in Values /\ log[n].store \in Stores
<1>1. log[n] \in Changes
  BY DEF LogType
<1> QED BY <1>1 DEF Changes

\* What was in etcd at a revision.
LEMMA StoreType ==
    ASSUME LogType
    PROVE  Len(log) \in Nat /\ \A n \in 0 .. Len(log) : StoreAt(n) \in Stores
<1>1. Len(log) \in Nat
  BY DEF LogType
<1>2. ASSUME NEW n \in 0 .. Len(log) PROVE StoreAt(n) \in Stores
  BY <1>1, EmptyType, EntryType DEF StoreAt
<1> QED BY <1>1, <1>2

\* What calculateChanges finds.
LEMMA ChangedType ==
    ASSUME NEW f \in Stores, NEW g \in Stores
    PROVE  Changed(f, g).new \in Stores /\ Changed(f, g).gone \in SUBSET Keys
  BY DEF Changed, Stores, Values

\* What a listener knows.
LEMMA AfterType == ASSUME NEW f \in Stores, NEW t \in Notes PROVE After(f, t) \in Stores
  BY DEF After, Stores, Values, Notes


\* The history of etcd is made of changes.
LEMMA LogTypeNext == ASSUME LogType, [Next]_vars PROVE LogType'
<1> USE DEF LogType, Goto, etcd, watchers, goroutines, monitors, counters
<1>1. ASSUME NEW k \in Keys, NEW v \in Values, Change(k, v) PROVE LogType'
  <2>1. Store \in Stores
    BY StoreType DEF Store
  <2>2. [key |-> k, val |-> v, store |-> [Store EXCEPT ![k] = v]] \in Changes
    BY <2>1 DEF Changes, Stores
  <2> QED BY <1>1, <2>2 DEF Change
<1>2. CASE Compact \/ Reload \/ ReloadEnds \/ UNCHANGED vars
  BY <1>2 DEF Compact, Reload, ReloadEnds, Start, Restarts, vars
<1>3. ASSUME NEW l \in Listeners, Monitor(l) \/ GetCurrent(l) \/ TellCurrent(l) \/ Unmonitor(l) PROVE
      LogType'
  BY <1>3 DEF Monitor, GetCurrent, TellCurrent, Unmonitor
<1>4. ASSUME NEW l \in Listeners, NEW w \in Watches, AddListener(l, w) PROVE LogType'
  BY <1>4 DEF AddListener, Start
<1>5. ASSUME NEW w \in Watches, Load(w) \/ ReceiveEvent(w) \/ HandleChanges(w) \/ TellChanges(w) \/
      SetupWatch(w) \/ CopyListeners(w) \/ UpdateValues(w) \/ TellEvent(w) \/ StreamFails(w) \/
      StreamCompacted(w) \/ StreamEnds(w) PROVE LogType'
  BY <1>5 DEF Load, ReceiveEvent, HandleChanges, Run, TellChanges, Tell, SetupWatch, FirstEvent,
              CopyListeners, UpdateValues, TellEvent, StreamFails, StreamCompacted, StreamEnds
<1> QED
  BY <1>1, <1>2, <1>3, <1>4, <1>5 DEF Next, Progress, Joining, Values

\* Counters and places keep their types.
LEMMA PlainNext == ASSUME LogType, PlainType, [Next]_vars PROVE PlainType'
<1> USE DEF LogType, PlainType, Goto, etcd, watchers, goroutines, monitors, counters
<1>1. ASSUME NEW k \in Keys, NEW v \in Values, Change(k, v) PROVE PlainType'
  BY <1>1 DEF Change
<1>2. CASE Compact \/ Reload \/ ReloadEnds \/ UNCHANGED vars
  BY <1>2 DEF Compact, Reload, ReloadEnds, Start, Restarts, vars
<1>3. ASSUME NEW l \in Listeners, Monitor(l) \/ GetCurrent(l) \/ TellCurrent(l) \/ Unmonitor(l) PROVE
      PlainType'
  BY <1>3 DEF Monitor, GetCurrent, TellCurrent, Unmonitor
<1>4. ASSUME NEW l \in Listeners, NEW w \in Watches, AddListener(l, w) PROVE PlainType'
  BY <1>4 DEF AddListener, Start
<1>5. ASSUME NEW w \in Watches, Load(w) \/ ReceiveEvent(w) \/ HandleChanges(w) \/ TellChanges(w) \/
      SetupWatch(w) \/ CopyListeners(w) \/ UpdateValues(w) \/ TellEvent(w) \/ StreamFails(w) \/
      StreamCompacted(w) \/ StreamEnds(w) PROVE PlainType'
  BY <1>5 DEF Load, ReceiveEvent, HandleChanges, Run, TellChanges, Tell, SetupWatch, FirstEvent,
              CopyListeners, UpdateValues, TellEvent, StreamFails, StreamCompacted, StreamEnds
<1> QED
  BY <1>1, <1>2, <1>3, <1>4, <1>5 DEF Next, Progress, Joining, Values

\* What a goroutine has to tell keeps its type.
LEMMA NoteNext == ASSUME LogType, PlainType, RevInv, ValueType, NoteType, [Next]_vars PROVE NoteType'
<1> USE NothingType DEF NoteType, Goto, etcd, watchers, goroutines, monitors, counters
<1>1. ASSUME NEW k \in Keys, NEW v \in Values, Change(k, v) PROVE NoteType'
  BY <1>1 DEF Change
<1>2. CASE Compact \/ Reload \/ ReloadEnds \/ UNCHANGED vars
  BY <1>2 DEF Compact, Reload, ReloadEnds, Start, Restarts, vars
<1>3. ASSUME NEW l \in Listeners, Monitor(l) \/ GetCurrent(l) \/ TellCurrent(l) \/ Unmonitor(l) PROVE
      NoteType'
  BY <1>3 DEF Monitor, GetCurrent, TellCurrent, Unmonitor
<1>4. ASSUME NEW l \in Listeners, NEW w \in Watches, AddListener(l, w) PROVE NoteType'
  BY <1>4 DEF AddListener, Start
<1>5. ASSUME NEW w \in Watches, Load(w) \/ ReceiveEvent(w) \/ TellChanges(w) \/ SetupWatch(w) \/
      TellEvent(w) \/ StreamFails(w) \/ StreamCompacted(w) \/ StreamEnds(w) PROVE NoteType'
  BY <1>5 DEF Load, ReceiveEvent, TellChanges, Run, Tell, SetupWatch, FirstEvent, TellEvent, StreamFails,
              StreamCompacted, StreamEnds
<1>6. ASSUME NEW w \in Watches, HandleChanges(w) PROVE NoteType'
  <2>1. StoreAt(rev[w]) \in Stores
    BY StoreType DEF RevInv
  <2> DEFINE c == Changed(values, StoreAt(rev[w]))
  <2>2. c.new \in Stores /\ c.gone \in SUBSET Keys
    BY <2>1, ChangedType DEF ValueType
  <2> HIDE DEF c
  <2>3. [new |-> c.new, gone |-> c.gone, to |-> listeners, inc |-> inc] \in Notes
    BY <2>2 DEF Notes, PlainType
  <2> QED BY <1>6, <2>3 DEF HandleChanges, c
<1>7. ASSUME NEW w \in Watches, CopyListeners(w) PROVE NoteType'
  <2>1. [Nothing EXCEPT !.to = listeners, !.inc = inc] \in Notes
    BY DEF Notes, PlainType
  <2> QED BY <1>7, <2>1 DEF CopyListeners
<1>8. ASSUME NEW w \in Watches, UpdateValues(w) PROVE NoteType'
  <2> DEFINE e == log[pos[w]]
             t == [told[w] EXCEPT !.new = [Empty EXCEPT ![e.key] = e.val],
                                  !.gone = IF e.val = None THEN {e.key} ELSE {}]
  <2>1. pos[w] \in 1 .. Len(log)
    BY <1>8 DEF RevInv, UpdateValues
  <2>2. e.key \in Keys /\ e.val \in Values
    BY <2>1, EntryType
  <2>3. [Empty EXCEPT ![e.key] = e.val] \in Stores
    BY <2>2, EmptyType DEF Stores
  <2>4. t \in Notes
    BY <2>2, <2>3 DEF Notes
  <2>5. told' = [told EXCEPT ![w] = t]
    BY <1>8 DEF UpdateValues, Notes
  <2> HIDE DEF t
  <2> QED BY <2>4, <2>5
<1> QED
  BY <1>1, <1>2, <1>3, <1>4, <1>5, <1>6, <1>7, <1>8 DEF Next, Progress, Joining, Values

\* What the registry and the listeners know keeps its type.
LEMMA ValueNext == ASSUME LogType, RevInv, NoteType, ValueType, [Next]_vars PROVE ValueType'
<1> USE EmptyType DEF ValueType, Goto, etcd, watchers, goroutines, monitors, counters
<1>1. ASSUME NEW k \in Keys, NEW v \in Values, Change(k, v) PROVE ValueType'
  BY <1>1 DEF Change
<1>2. CASE Compact \/ Reload \/ ReloadEnds \/ UNCHANGED vars
  BY <1>2 DEF Compact, Reload, ReloadEnds, Start, Restarts, vars
<1>3. ASSUME NEW l \in Listeners, Monitor(l) \/ GetCurrent(l) \/ Unmonitor(l) PROVE ValueType'
  BY <1>3 DEF Monitor, GetCurrent, Unmonitor
<1>4. ASSUME NEW l \in Listeners, TellCurrent(l) PROVE ValueType'
  <2>1. [k \in Keys |-> IF current[l][k] # None THEN current[l][k] ELSE view[l][k]] \in Stores
    BY DEF Stores
  <2> QED BY <1>4, <2>1 DEF TellCurrent
<1>5. ASSUME NEW l \in Listeners, NEW w \in Watches, AddListener(l, w) PROVE ValueType'
  BY <1>5 DEF AddListener, Start
<1>6. ASSUME NEW w \in Watches, Load(w) \/ ReceiveEvent(w) \/ SetupWatch(w) \/ CopyListeners(w) \/
      StreamFails(w) \/ StreamCompacted(w) \/ StreamEnds(w) PROVE ValueType'
  BY <1>6 DEF Load, ReceiveEvent, SetupWatch, FirstEvent, CopyListeners, StreamFails, StreamCompacted,
              StreamEnds
<1>7. ASSUME NEW w \in Watches, HandleChanges(w) PROVE ValueType'
  <2>1. StoreAt(rev[w]) \in Stores
    BY StoreType DEF RevInv
  <2> QED BY <1>7, <2>1 DEF HandleChanges
<1>8. ASSUME NEW w \in Watches, TellChanges(w) PROVE ValueType'
  <2>1. \A l \in Listeners : After(view[l], told[w]) \in Stores
    BY AfterType DEF NoteType
  <2> QED BY <1>8, <2>1 DEF TellChanges, Tell
<1>9. ASSUME NEW w \in Watches, UpdateValues(w) PROVE ValueType'
  <2> DEFINE e == log[pos[w]]
  <2>1. pos[w] \in 1 .. Len(log)
    BY <1>9 DEF RevInv, UpdateValues
  <2>2. e.key \in Keys /\ e.val \in Values
    BY <2>1, EntryType
  <2>3. Updated(values, e) \in Stores
    BY <2>2 DEF Stores, Updated
  <2> QED BY <1>9, <2>3 DEF UpdateValues
<1>10. ASSUME NEW w \in Watches, TellEvent(w) PROVE ValueType'
  <2>1. \A l \in Listeners : After(view[l], told[w]) \in Stores
    BY AfterType DEF NoteType
  <2> QED BY <1>10, <2>1 DEF TellEvent, Tell
<1> QED
  BY <1>1, <1>2, <1>3, <1>4, <1>5, <1>6, <1>7, <1>8, <1>9, <1>10 DEF Next, Progress, Joining, Values

\* No goroutine gets ahead of etcd.
LEMMA RevNext == ASSUME LogType, PlainType, RevInv, [Next]_vars PROVE RevInv'
<1> USE DEF LogType, PlainType, RevInv, Streaming, Goto, etcd, watchers, goroutines, monitors, counters
<1>1. ASSUME NEW k \in Keys, NEW v \in Values, Change(k, v) PROVE RevInv'
  BY <1>1 DEF Change
<1>2. CASE Compact \/ Reload \/ ReloadEnds \/ UNCHANGED vars
  BY <1>2 DEF Compact, Reload, ReloadEnds, Start, Restarts, vars
<1>3. ASSUME NEW l \in Listeners, Monitor(l) \/ GetCurrent(l) \/ TellCurrent(l) \/ Unmonitor(l) PROVE
      RevInv'
  BY <1>3 DEF Monitor, GetCurrent, TellCurrent, Unmonitor
<1>4. ASSUME NEW l \in Listeners, NEW w \in Watches, AddListener(l, w) PROVE RevInv'
  BY <1>4 DEF AddListener, Start
<1>5. ASSUME NEW w \in Watches, Load(w) PROVE RevInv'
  BY <1>5 DEF Load
<1>6. ASSUME NEW w \in Watches, ReceiveEvent(w) \/ TellChanges(w) \/ UpdateValues(w) PROVE RevInv'
  BY <1>6 DEF ReceiveEvent, TellChanges, Run, Tell, UpdateValues
<1>7. ASSUME NEW w \in Watches, HandleChanges(w) PROVE RevInv'
  BY <1>7 DEF HandleChanges, Run
<1>8. ASSUME NEW w \in Watches, SetupWatch(w) PROVE RevInv'
  BY <1>8 DEF SetupWatch, FirstEvent
<1>9. ASSUME NEW w \in Watches, CopyListeners(w) PROVE RevInv'
  <2>1. CASE UNCHANGED pos /\ Goto(w, "update")
    BY <1>9, <2>1 DEF CopyListeners
  <2>2. CASE pos' = [pos EXCEPT ![w] = @ + 1] /\ Goto(w, "stream")
    BY <1>9, <2>2 DEF CopyListeners
  <2> QED BY <1>9, <2>1, <2>2 DEF CopyListeners
<1>10. ASSUME NEW w \in Watches, TellEvent(w) PROVE RevInv'
  BY <1>10 DEF TellEvent, Tell
<1>11. ASSUME NEW w \in Watches, StreamFails(w) PROVE RevInv'
  BY <1>11 DEF StreamFails
<1>12. ASSUME NEW w \in Watches, StreamCompacted(w) PROVE RevInv'
  BY <1>12 DEF StreamCompacted
<1>13. ASSUME NEW w \in Watches, StreamEnds(w) PROVE RevInv'
  BY <1>13 DEF StreamEnds
<1> QED
  BY <1>1, <1>2, <1>3, <1>4, <1>5, <1>6, <1>7, <1>8, <1>9, <1>10, <1>11, <1>12, <1>13 DEF Next, Progress,
      Joining, Values

\* The key stays followed.
LEMMA GroupNext == ASSUME PlainType, GroupInv, [Next]_vars PROVE GroupInv'
<1> USE DEF PlainType, GroupInv, Follows, Streaming, Goto, etcd, watchers, goroutines, monitors, counters
<1>1. ASSUME NEW k \in Keys, NEW v \in Values, Change(k, v) PROVE GroupInv'
  BY <1>1 DEF Change
<1>2. CASE Compact \/ Reload \/ ReloadEnds \/ UNCHANGED vars
  BY <1>2 DEF Compact, Reload, ReloadEnds, Start, Restarts, vars
<1>3. ASSUME NEW l \in Listeners, Monitor(l) \/ GetCurrent(l) \/ TellCurrent(l) \/ Unmonitor(l) PROVE
      GroupInv'
  BY <1>3 DEF Monitor, GetCurrent, TellCurrent, Unmonitor
<1>4. ASSUME NEW l \in Listeners, NEW w \in Watches, AddListener(l, w) PROVE GroupInv'
  BY <1>4 DEF AddListener, Start
<1>5. ASSUME NEW w \in Watches, Load(w) PROVE GroupInv'
  BY <1>5 DEF Load
<1>6. ASSUME NEW w \in Watches, ReceiveEvent(w) \/ CopyListeners(w) \/ TellEvent(w) PROVE GroupInv'
  BY <1>6 DEF ReceiveEvent, CopyListeners, TellEvent, Tell
<1>7. ASSUME NEW w \in Watches, HandleChanges(w) PROVE GroupInv'
  BY <1>7 DEF HandleChanges, Run
<1>8. ASSUME NEW w \in Watches, TellChanges(w) PROVE GroupInv'
  BY <1>8 DEF TellChanges, Run, Tell
<1>9. ASSUME NEW w \in Watches, SetupWatch(w) PROVE GroupInv'
  BY <1>9 DEF SetupWatch, FirstEvent
<1>10. ASSUME NEW w \in Watches, UpdateValues(w) PROVE GroupInv'
  BY <1>10 DEF UpdateValues
<1>11. ASSUME NEW w \in Watches, StreamFails(w) PROVE GroupInv'
  BY <1>11 DEF StreamFails
<1>12. ASSUME NEW w \in Watches, StreamCompacted(w) PROVE GroupInv'
  BY <1>12 DEF StreamCompacted
<1>13. ASSUME NEW w \in Watches, StreamEnds(w) PROVE GroupInv'
  BY <1>13 DEF StreamEnds
<1> QED
  BY <1>1, <1>2, <1>3, <1>4, <1>5, <1>6, <1>7, <1>8, <1>9, <1>10, <1>11, <1>12, <1>13 DEF Next, Progress,
      Joining, Values

\* The first watchValue stays the only one until someone leaves.
LEMMA FirstNext == ASSUME PlainType, NoteType, GroupInv, FirstInv, [Next]_vars PROVE FirstInv'
<1> USE DEF PlainType, NoteType, GroupInv, FirstInv, Streaming, Goto, etcd, watchers, goroutines, monitors,
            counters
<1>1. ASSUME NEW k \in Keys, NEW v \in Values, Change(k, v) PROVE FirstInv'
  BY <1>1 DEF Change
<1>2. CASE Compact \/ Reload \/ ReloadEnds \/ UNCHANGED vars
  BY <1>2 DEF Compact, Reload, ReloadEnds, Start, Restarts, vars
<1>3. ASSUME NEW l \in Listeners, Monitor(l) \/ GetCurrent(l) \/ TellCurrent(l) \/ Unmonitor(l) PROVE
      FirstInv'
  BY <1>3 DEF Monitor, GetCurrent, TellCurrent, Unmonitor
<1>4. ASSUME NEW l \in Listeners, NEW w \in Watches, AddListener(l, w) PROVE FirstInv'
  BY <1>4 DEF AddListener, Start
<1>5. ASSUME NEW w \in Watches, Load(w) \/ ReceiveEvent(w) \/ HandleChanges(w) \/ TellChanges(w) \/
      SetupWatch(w) \/ UpdateValues(w) \/ TellEvent(w) \/ StreamFails(w) \/ StreamCompacted(w) \/
      StreamEnds(w) PROVE FirstInv'
  BY <1>5 DEF Load, ReceiveEvent, HandleChanges, Run, TellChanges, Tell, SetupWatch, FirstEvent,
              UpdateValues, TellEvent, StreamFails, StreamCompacted, StreamEnds
<1>6. ASSUME NEW w \in Watches, CopyListeners(w) PROVE FirstInv'
  <2> DEFINE t == [Nothing EXCEPT !.to = listeners, !.inc = inc]
  <2>1. t.inc = inc
    BY DEF Nothing
  <2> HIDE DEF t
  <2>2. CASE on /\ told' = [told EXCEPT ![w] = t] /\ Goto(w, "update")
    BY <1>6, <2>1, <2>2 DEF CopyListeners
  <2>3. CASE ~on /\ Goto(w, "stream")
    BY <1>6, <2>3 DEF CopyListeners
  <2> QED BY <1>6, <2>2, <2>3 DEF CopyListeners, t
<1> QED
  BY <1>1, <1>2, <1>3, <1>4, <1>5, <1>6 DEF Next, Progress, Joining, Values

\* What a change in etcd does to its history.
LEMMA Grows ==
    ASSUME LogType, NEW k \in Keys, NEW v \in Values, Change(k, v)
    PROVE  /\ Len(log') = Len(log) + 1
           /\ \A n \in 1 .. Len(log) : log'[n] = log[n]
           /\ log'[Len(log) + 1].key = k /\ log'[Len(log) + 1].val = v
           /\ \A n \in 0 .. Len(log) : StoreAt(n)' = StoreAt(n)
           /\ (\A n \in Nat : n = Len(log) + 1 => StoreAt(n)' = Store') /\ Store'[k] = v
           /\ \A j \in Keys : j # k => Store'[j] = Store[j]
           /\ log'[Len(log) + 1].store = Store' /\ Store' \in Stores
<1> DEFINE c == [key |-> k, val |-> v, store |-> [Store EXCEPT ![k] = v]]
<1>1. log' = Append(log, c)
  BY DEF Change
<1>2. Store \in Stores /\ Len(log) \in Nat
  BY StoreType DEF Store
<1>3. c.key = k /\ c.val = v /\ c.store = [Store EXCEPT ![k] = v]
  OBVIOUS
<1>4. c.store \in Stores /\ c.store[k] = v /\ \A j \in Keys : j # k => c.store[j] = Store[j]
  BY <1>2, <1>3 DEF Stores
<1> HIDE DEF c
<1>5. Len(log') = Len(log) + 1 /\ log'[Len(log) + 1] = c /\ \A n \in 1 .. Len(log) : log'[n] = log[n]
  BY <1>1 DEF LogType
<1>6. \A n \in 0 .. Len(log) : StoreAt(n)' = StoreAt(n)
  BY <1>2, <1>5 DEF StoreAt
<1>7. (\A n \in Nat : n = Len(log) + 1 => StoreAt(n)' = c.store) /\ Store' = c.store
  BY <1>2, <1>5 DEF StoreAt, Store
<1> QED BY <1>3, <1>4, <1>5, <1>6, <1>7

\* Nothing else writes to etcd.
LEMMA OnlyChangeWrites ==
    ASSUME [Next]_vars
    PROVE  UNCHANGED log \/ \E k \in Keys, v \in Values : Change(k, v)
  BY DEF Next, Progress, Joining, Values, vars, etcd, Compact, Monitor, GetCurrent, TellCurrent, AddListener,
         Unmonitor, Load, HandleChanges, TellChanges, SetupWatch, ReceiveEvent, CopyListeners, UpdateValues,
         TellEvent, StreamFails, StreamCompacted, StreamEnds, Reload, ReloadEnds

\* The history stays in order.
LEMMA LogNext == ASSUME LogType, LogInv, [Next]_vars PROVE LogInv'
<1>1. CASE UNCHANGED log
  BY <1>1 DEF LogInv, Store, StoreAt
<1>2. ASSUME NEW k \in Keys, NEW v \in Values, Change(k, v) PROVE LogInv'
  <2>0. Len(log) \in Nat
    BY StoreType
  <2>1. ASSUME NEW n \in 1 .. Len(log') PROVE log'[n].store[log'[n].key] = log'[n].val
    BY <1>2, <2>0, Grows DEF LogInv
  <2>2. ASSUME NEW m \in 0 .. Len(log'), NEW j \in Keys
        PROVE  StoreAt(m)'[j] = Store'[j] \/ \E n \in m + 1 .. Len(log') : log'[n].key = j
    <3>1. CASE m = Len(log) + 1
      BY <3>1, <1>2, <2>0, Grows
    <3>2. CASE m # Len(log) + 1 /\ j = k
      BY <3>2, <1>2, <2>0, Grows
    <3>3. CASE m # Len(log) + 1 /\ j # k
      <4>1. m \in 0 .. Len(log) /\ StoreAt(m)' = StoreAt(m) /\ Store'[j] = Store[j]
        BY <3>3, <1>2, <2>0, Grows
      <4>2. CASE StoreAt(m)[j] = Store[j]
        BY <4>1, <4>2
      <4>3. CASE \E n \in m + 1 .. Len(log) : log[n].key = j
        <5>1. PICK n \in m + 1 .. Len(log) : log[n].key = j
          BY <4>3
        <5>2. n \in 1 .. Len(log) /\ n \in m + 1 .. Len(log') /\ log'[n] = log[n]
          BY <5>1, <4>1, <1>2, <2>0, Grows
        <5> QED BY <5>1, <5>2
      <4> QED BY <4>1, <4>2, <4>3 DEF LogInv
    <3> QED BY <3>1, <3>2, <3>3
  <2> QED BY <2>1, <2>2 DEF LogInv
<1> QED BY <1>1, <1>2, OnlyChangeWrites

\* A step that leaves etcd and the values alone, and takes no work from a goroutine.
LEMMA KnownKept ==
    ASSUME KnownInv, UNCHANGED <<log, values, on, leaves, locked>>,
           ASSUME on, leaves = 0, ~locked, NEW w \in Watches, NEW j \in Keys, Due(w, j) PROVE Due(w, j)'
    PROVE  KnownInv'
<1> SUFFICES ASSUME on, leaves = 0, ~locked, NEW j \in Keys
             PROVE  values'[j] = Store'[j] \/ \E w \in Watches : Due(w, j)'
  BY DEF KnownInv
<1>1. Store' = Store /\ values' = values
  BY DEF Store, StoreAt
<1> QED BY <1>1 DEF KnownInv

\* What the registry does not know stays due.
LEMMA KnownNext == ASSUME LogType, PlainType, NoteType, ValueType, LogInv, RevInv, GroupInv, FirstInv,
    KnownInv, [Next]_vars PROVE KnownInv'
<1> USE StoreType DEF KnownInv, PlainType, RevInv, FirstInv, Due, NextEvent, Streaming, Store, StoreAt, Goto,
                      etcd, watchers, goroutines, monitors, counters
<1>1. ASSUME NEW k \in Keys, NEW v \in Values, Change(k, v) PROVE KnownInv'
  <2> USE <1>1, Grows DEF Change
  <2> SUFFICES ASSUME on, leaves = 0, ~locked, NEW j \in Keys
               PROVE  values'[j] = Store'[j] \/ \E w \in Watches : Due(w, j)'
    OBVIOUS
  <2>1. CASE j = k
    <3>1. PICK w \in Watches : pc[w] # "off"
      BY DEF GroupInv, Follows
    <3>2. NextEvent(w) <= Len(log) + 1 /\ NextEvent(w)' = NextEvent(w) /\ NextEvent(w) \in Nat
      OBVIOUS
    <3> HIDE DEF NextEvent
    <3>3. Len(log) + 1 \in NextEvent(w)' .. Len(log')
      BY <3>2
    <3> QED BY <2>1, <3>1, <3>3
  <2>2. CASE j # k
    <3>1. CASE values[j] = Store[j]
      BY <2>2, <3>1
    <3>2. ASSUME NEW w \in Watches, Due(w, j) PROVE Due(w, j)'
      BY <3>2
    <3> QED BY <3>1, <3>2
  <2> QED BY <2>1, <2>2
<1>2. CASE Compact
  BY <1>2 DEF Compact
<1>3. ASSUME NEW l \in Listeners, Monitor(l) PROVE KnownInv'
  <2>1. ASSUME on, leaves = 0, ~locked, NEW u \in Watches, NEW j \in Keys, Due(u, j) PROVE Due(u, j)'
    BY <1>3, <2>1 DEF Monitor
  <2>2. UNCHANGED <<log, values, on, leaves, locked>>
    BY <1>3 DEF Monitor
  <2> QED BY <2>1, <2>2, KnownKept
<1>4. ASSUME NEW l \in Listeners, GetCurrent(l) PROVE KnownInv'
  BY <1>4 DEF GetCurrent
<1>5. ASSUME NEW l \in Listeners, TellCurrent(l) PROVE KnownInv'
  BY <1>5 DEF TellCurrent
<1>6. ASSUME NEW l \in Listeners, NEW w \in Watches, AddListener(l, w) PROVE KnownInv'
  BY <1>6 DEF AddListener, Start
<1>7. ASSUME NEW l \in Listeners, Unmonitor(l) PROVE KnownInv'
  BY <1>7 DEF Unmonitor
<1>8. ASSUME NEW w \in Watches, Load(w) PROVE KnownInv'
  BY <1>8 DEF Load
<1>9. ASSUME NEW w \in Watches, ReceiveEvent(w) PROVE KnownInv'
  <2>1. ASSUME on, leaves = 0, ~locked, NEW u \in Watches, NEW j \in Keys, Due(u, j) PROVE Due(u, j)'
    BY <1>9, <2>1 DEF ReceiveEvent
  <2>2. UNCHANGED <<log, values, on, leaves, locked>>
    BY <1>9 DEF ReceiveEvent
  <2> QED BY <2>1, <2>2, KnownKept
<1>10. ASSUME NEW w \in Watches, HandleChanges(w) PROVE KnownInv'
  <2> SUFFICES ASSUME on, leaves = 0, ~locked, NEW j \in Keys
               PROVE  values'[j] = Store'[j] \/ Due(w, j)'
    BY <1>10 DEF HandleChanges, Run
  <2>1. values' = StoreAt(rev[w]) /\ log' = log /\ pc'[w] = "tellchanges" /\ rev' = rev
    BY <1>10 DEF HandleChanges
  <2>2. Store' = Store
    BY <2>1
  <2>3. StoreAt(rev[w])[j] = Store[j] \/ \E n \in rev[w] + 1 .. Len(log) : log[n].key = j
    BY DEF LogInv
  <2> QED BY <2>1, <2>2, <2>3
<1>11. ASSUME NEW w \in Watches, TellChanges(w) PROVE KnownInv'
  BY <1>11 DEF TellChanges, Run, Tell
<1>12. ASSUME NEW w \in Watches, SetupWatch(w) PROVE KnownInv'
  <2>1. ASSUME on, leaves = 0, ~locked, NEW u \in Watches, NEW j \in Keys, Due(u, j) PROVE Due(u, j)'
    BY <1>12, <2>1 DEF SetupWatch, FirstEvent
  <2>2. CASE on
    <3>1. UNCHANGED <<log, values, on, leaves, locked>>
      BY <1>12, <2>2 DEF SetupWatch
    <3> QED BY <2>1, <3>1, KnownKept
  <2>3. CASE ~on
    BY <1>12, <2>3 DEF SetupWatch
  <2> QED BY <2>2, <2>3
<1>13. ASSUME NEW w \in Watches, CopyListeners(w) PROVE KnownInv'
  <2>1. ASSUME on, leaves = 0, ~locked, NEW u \in Watches, NEW j \in Keys, Due(u, j) PROVE Due(u, j)'
    <3>1. pc[w] = "handle" /\ pc' = [pc EXCEPT ![w] = "update"] /\ UNCHANGED <<pos, rev, log>>
      BY <1>13, <2>1 DEF CopyListeners
    <3> QED BY <2>1, <3>1
  <2>2. UNCHANGED <<log, values, on, leaves, locked>>
    BY <1>13 DEF CopyListeners
  <2> QED BY <2>1, <2>2, KnownKept
<1>14. ASSUME NEW w \in Watches, UpdateValues(w) PROVE KnownInv'
  <2> SUFFICES ASSUME on, leaves = 0, ~locked, NEW j \in Keys
               PROVE  values'[j] = Store'[j] \/ \E u \in Watches : Due(u, j)'
    BY <1>14 DEF UpdateValues
  <2> DEFINE e == log[pos[w]]
  <2>1. pos[w] \in 1 .. Len(log) /\ pc[w] = "update" /\ pc'[w] = "tellevent" /\ log' = log /\ pos' = pos
    BY <1>14 DEF UpdateValues
  <2>2. values' = Updated(values, e)
    BY <1>14 DEF UpdateValues
  <2>3. Store' = Store
    BY <2>1
  <2>4. CASE e.key = j
    <3>1. values'[j] = e.val
      BY <2>2, <2>4 DEF Updated, ValueType, Stores
    <3>2. StoreAt(pos[w])[j] = e.val
      BY <2>1, <2>4 DEF LogInv
    <3>3. StoreAt(pos[w])[j] = Store[j] \/ \E n \in pos[w] + 1 .. Len(log) : log[n].key = j
      BY <2>1 DEF LogInv
    <3> QED BY <2>1, <2>3, <3>1, <3>2, <3>3
  <2>5. CASE e.key # j
    <3>1. values'[j] = values[j]
      BY <2>2, <2>5 DEF Updated, ValueType, Stores
    <3>2. Due(w, j) => Due(w, j)'
      BY <2>1, <2>5
    <3>3. ASSUME NEW u \in Watches, u # w PROVE Due(u, j) => Due(u, j)'
      BY <1>14, <3>3 DEF UpdateValues
    <3> QED BY <2>3, <3>1, <3>2, <3>3
  <2> QED BY <2>4, <2>5
<1>15. ASSUME NEW w \in Watches, TellEvent(w) PROVE KnownInv'
  <2>1. ASSUME on, leaves = 0, ~locked, NEW u \in Watches, NEW j \in Keys, Due(u, j) PROVE Due(u, j)'
    BY <1>15, <2>1 DEF TellEvent, Tell
  <2>2. UNCHANGED <<log, values, on, leaves, locked>>
    BY <1>15 DEF TellEvent, Tell
  <2> QED BY <2>1, <2>2, KnownKept
<1>16. ASSUME NEW w \in Watches, StreamFails(w) PROVE KnownInv'
  BY <1>16 DEF StreamFails
<1>17. ASSUME NEW w \in Watches, StreamCompacted(w) PROVE KnownInv'
  BY <1>17 DEF StreamCompacted
<1>18. ASSUME NEW w \in Watches, StreamEnds(w) PROVE KnownInv'
  <2>1. ASSUME on, leaves = 0, ~locked, NEW u \in Watches, NEW j \in Keys, Due(u, j) PROVE Due(u, j)'
    BY <1>18, <2>1 DEF StreamEnds, GroupInv
  <2>2. UNCHANGED <<log, values, on, leaves, locked>>
    BY <1>18 DEF StreamEnds, GroupInv
  <2> QED BY <2>1, <2>2, KnownKept
<1>19. CASE Reload
  BY <1>19 DEF Reload
<1>20. CASE ReloadEnds
  BY <1>20 DEF ReloadEnds, Start, Restarts
<1>21. CASE UNCHANGED vars
  BY <1>21 DEF vars
<1> QED
  BY <1>1, <1>2, <1>3, <1>4, <1>5, <1>6, <1>7, <1>8, <1>9, <1>10, <1>11, <1>12, <1>13, <1>14, <1>15, <1>16,
      <1>17, <1>18, <1>19, <1>20, <1>21 DEF Next, Progress, Joining, Values

\* Two goroutines watch at a time only when history says so.
LEMMA SingleNext == ASSUME PlainType, SingleInv, [Next]_vars PROVE SingleInv'
<1> USE DEF PlainType, SingleInv, Active, Goto, etcd, watchers, goroutines, monitors, counters
<1>1. ASSUME NEW k \in Keys, NEW v \in Values, Change(k, v) PROVE SingleInv'
  BY <1>1 DEF Change
<1>2. CASE Compact \/ Reload \/ UNCHANGED vars
  BY <1>2 DEF Compact, Reload, vars
<1>3. ASSUME NEW l \in Listeners, Monitor(l) \/ GetCurrent(l) \/ TellCurrent(l) \/ Unmonitor(l) PROVE
      SingleInv'
  BY <1>3 DEF Monitor, GetCurrent, TellCurrent, Unmonitor
<1>4. ASSUME NEW l \in Listeners, NEW w \in Watches, AddListener(l, w) PROVE SingleInv'
  BY <1>4 DEF AddListener, Start
<1>5. ASSUME NEW w \in Watches, Load(w) \/ ReceiveEvent(w) \/ HandleChanges(w) \/ TellChanges(w) \/
      SetupWatch(w) \/ CopyListeners(w) \/ UpdateValues(w) \/ TellEvent(w) \/ StreamFails(w) \/
      StreamCompacted(w) \/ StreamEnds(w) PROVE SingleInv'
  BY <1>5 DEF Load, ReceiveEvent, HandleChanges, Run, TellChanges, Tell, SetupWatch, FirstEvent,
              CopyListeners, UpdateValues, TellEvent, StreamFails, StreamCompacted, StreamEnds
<1>6. CASE ReloadEnds
  <2>1. CASE UNCHANGED <<pc, overlap>>
    BY <2>1
  <2>2. ASSUME NEW w \in Watches, Start(w) PROVE SingleInv'
    BY <2>2 DEF Start
  <2> QED BY <1>6, <2>1, <2>2 DEF ReloadEnds
<1> QED
  BY <1>1, <1>2, <1>3, <1>4, <1>5, <1>6 DEF Next, Progress, Joining, Values

\* A listener in Monitor waits for one goroutine.
LEMMA CallerNext == ASSUME PlainType, CallerInv, [Next]_vars PROVE CallerInv'
<1> USE DEF PlainType, CallerInv, Goto, etcd, watchers, goroutines, monitors, counters
<1>1. ASSUME NEW k \in Keys, NEW v \in Values, Change(k, v) PROVE CallerInv'
  BY <1>1 DEF Change
<1>2. CASE Compact \/ Reload \/ ReloadEnds \/ UNCHANGED vars
  BY <1>2 DEF Compact, Reload, ReloadEnds, Start, Restarts, vars
<1>3. ASSUME NEW l \in Listeners, Monitor(l) \/ GetCurrent(l) \/ TellCurrent(l) \/ Unmonitor(l) PROVE
      CallerInv'
  BY <1>3 DEF Monitor, GetCurrent, TellCurrent, Unmonitor
<1>4. ASSUME NEW l \in Listeners, NEW w \in Watches, AddListener(l, w) PROVE CallerInv'
  BY <1>4 DEF AddListener, Start
<1>5. ASSUME NEW w \in Watches, Load(w) \/ ReceiveEvent(w) \/ HandleChanges(w) \/ TellChanges(w) \/
      SetupWatch(w) \/ CopyListeners(w) \/ UpdateValues(w) \/ TellEvent(w) \/ StreamFails(w) \/
      StreamCompacted(w) \/ StreamEnds(w) PROVE CallerInv'
  BY <1>5 DEF Load, ReceiveEvent, HandleChanges, Run, TellChanges, Tell, SetupWatch, FirstEvent,
              CopyListeners, UpdateValues, TellEvent, StreamFails, StreamCompacted, StreamEnds
<1> QED
  BY <1>1, <1>2, <1>3, <1>4, <1>5 DEF Next, Progress, Joining, Values

\* Who has left does not come back.
LEMMA LeftNext == ASSUME PlainType, CallerInv, LeftInv, [Next]_vars PROVE LeftInv'
<1> USE DEF PlainType, CallerInv, LeftInv, Goto, etcd, watchers, goroutines, monitors, counters
<1>1. ASSUME NEW k \in Keys, NEW v \in Values, Change(k, v) PROVE LeftInv'
  BY <1>1 DEF Change
<1>2. CASE Compact \/ Reload \/ ReloadEnds \/ UNCHANGED vars
  BY <1>2 DEF Compact, Reload, ReloadEnds, Start, Restarts, vars
<1>3. ASSUME NEW l \in Listeners, Monitor(l) \/ GetCurrent(l) \/ TellCurrent(l) \/ Unmonitor(l) PROVE
      LeftInv'
  BY <1>3 DEF Monitor, GetCurrent, TellCurrent, Unmonitor
<1>4. ASSUME NEW l \in Listeners, NEW w \in Watches, AddListener(l, w) PROVE LeftInv'
  BY <1>4 DEF AddListener, Start
<1>5. ASSUME NEW w \in Watches, Load(w) \/ ReceiveEvent(w) \/ HandleChanges(w) \/ TellChanges(w) \/
      SetupWatch(w) \/ CopyListeners(w) \/ UpdateValues(w) \/ TellEvent(w) \/ StreamFails(w) \/
      StreamCompacted(w) \/ StreamEnds(w) PROVE LeftInv'
  BY <1>5 DEF Load, ReceiveEvent, HandleChanges, Run, TellChanges, Tell, SetupWatch, FirstEvent,
              CopyListeners, UpdateValues, TellEvent, StreamFails, StreamCompacted, StreamEnds
<1> QED
  BY <1>1, <1>2, <1>3, <1>4, <1>5 DEF Next, Progress, Joining, Values

\* The only listener stays the only one that is told.
LEMMA SoloNext == ASSUME NEW o \in Listeners, PlainType, NoteType, ValueType, FirstInv, SoloInv(o),
    [Next]_vars PROVE SoloInv(o)'
<1> USE DEF PlainType, NoteType, ValueType, FirstInv, SoloInv, Solo, Goto, etcd, watchers, goroutines,
            monitors, counters
<1>1. ASSUME NEW k \in Keys, NEW v \in Values, Change(k, v) PROVE SoloInv(o)'
  BY <1>1 DEF Change
<1>2. CASE Compact \/ Reload \/ ReloadEnds \/ UNCHANGED vars
  BY <1>2 DEF Compact, Reload, ReloadEnds, Start, Restarts, vars
<1>3. ASSUME NEW l \in Listeners, Monitor(l) \/ GetCurrent(l) \/ TellCurrent(l) \/ Unmonitor(l) PROVE
      SoloInv(o)'
  BY <1>3 DEF Monitor, GetCurrent, TellCurrent, Unmonitor
<1>4. ASSUME NEW l \in Listeners, NEW w \in Watches, AddListener(l, w) PROVE SoloInv(o)'
  BY <1>4 DEF AddListener, Start
<1>5. ASSUME NEW w \in Watches, Load(w) PROVE SoloInv(o)'
  BY <1>5 DEF Load
<1>6. ASSUME NEW w \in Watches, ReceiveEvent(w) \/ StreamFails(w) \/ StreamCompacted(w) PROVE SoloInv(o)'
  BY <1>6 DEF ReceiveEvent, StreamFails, StreamCompacted
<1>7. ASSUME NEW w \in Watches, HandleChanges(w) PROVE SoloInv(o)'
  BY <1>7 DEF HandleChanges, Run
<1>8. ASSUME NEW w \in Watches, TellChanges(w) PROVE SoloInv(o)'
  BY <1>8 DEF TellChanges, Run, Tell
<1>9. ASSUME NEW w \in Watches, SetupWatch(w) PROVE SoloInv(o)'
  BY <1>9 DEF SetupWatch, FirstEvent
<1>10. ASSUME NEW w \in Watches, CopyListeners(w) PROVE SoloInv(o)'
  <2> DEFINE t == [Nothing EXCEPT !.to = listeners, !.inc = inc]
  <2>1. t.to = listeners
    BY DEF Nothing
  <2> HIDE DEF t
  <2>2. CASE on /\ told' = [told EXCEPT ![w] = t] /\ Goto(w, "update")
    BY <1>10, <2>1, <2>2 DEF CopyListeners
  <2>3. CASE ~on /\ Goto(w, "stream") /\ UNCHANGED told
    BY <1>10, <2>3 DEF CopyListeners
  <2> QED BY <1>10, <2>2, <2>3 DEF CopyListeners, t
<1>11. ASSUME NEW w \in Watches, UpdateValues(w) PROVE SoloInv(o)'
  BY <1>11 DEF UpdateValues
<1>12. ASSUME NEW w \in Watches, TellEvent(w) PROVE SoloInv(o)'
  BY <1>12 DEF TellEvent, Tell
<1>13. ASSUME NEW w \in Watches, StreamEnds(w) PROVE SoloInv(o)'
  BY <1>13 DEF StreamEnds
<1> QED
  BY <1>1, <1>2, <1>3, <1>4, <1>5, <1>6, <1>7, <1>8, <1>9, <1>10, <1>11, <1>12, <1>13 DEF Next, Progress,
      Joining, Values

\* What was written stays so.
LEMMA WrittenStays ==
    ASSUME LogType, NEW k \in Keys, NEW v, Written(k, v), [Next]_vars
    PROVE  Written(k, v)'
<1>1. CASE UNCHANGED log
  BY <1>1 DEF Written
<1>2. ASSUME NEW j \in Keys, NEW u \in Values, Change(j, u) PROVE Written(k, v)'
  BY <1>2, Grows, StoreType DEF Written
<1> QED BY <1>1, <1>2, OnlyChangeWrites

\* A value in etcd was written.
LEMMA StoreWritten ==
    ASSUME LogType, OriginInv, NEW n \in 0 .. Len(log), NEW k \in Keys, NEW v \in Vals, StoreAt(n)[k] = v
    PROVE  Written(k, v)
<1>1. n # 0
  BY ConstantsAssumption DEF ConstantsAssumption, StoreAt, Empty
<1>2. n \in 1 .. Len(log) /\ log[n].store[k] = v
  BY <1>1, StoreType DEF StoreAt
<1> QED BY <1>2 DEF OriginInv

\* Values come from etcd, also after a step.
LEMMA OriginNext ==
    ASSUME LogType, PlainType, ValueType, RevInv, OriginInv, [Next]_vars
    PROVE  OriginInv'
<1>0. Len(log) \in Nat
  BY StoreType
<1>1. ASSUME NEW m \in 1 .. Len(log'), NEW k \in Keys, NEW v \in Vals, log'[m].store[k] = v PROVE Written(k, v)'
  <2>1. CASE UNCHANGED log
    BY <2>1, <1>1, WrittenStays DEF OriginInv
  <2>2. ASSUME NEW j \in Keys, NEW u \in Values, Change(j, u) PROVE Written(k, v)'
    <3>1. CASE m \in 1 .. Len(log)
      <4>1. log[m].store[k] = v
        BY <1>1, <2>2, <3>1, Grows
      <4> QED BY <3>1, <4>1, WrittenStays DEF OriginInv
    <3>2. CASE m = Len(log) + 1 /\ k = j
      BY <1>1, <1>0, <2>2, <3>2, Grows DEF Written
    <3>3. CASE m = Len(log) + 1 /\ k # j
      <4>1. Store[k] = v
        BY <1>1, <2>2, <3>3, Grows
      <4> QED BY <4>1, <1>0, StoreWritten, WrittenStays DEF Store
    <3> QED BY <1>0, <2>2, <3>1, <3>2, <3>3, Grows
  <2> QED BY <2>1, <2>2, OnlyChangeWrites
<1>2. ASSUME NEW k \in Keys, NEW v \in Vals, values'[k] = v PROVE Written(k, v)'
  <2>1. \/ values' \in {values, Empty}
        \/ \E w \in Watches : HandleChanges(w) /\ values' = StoreAt(rev[w])
        \/ \E w \in Watches : UpdateValues(w) /\ values' = Updated(values, log[pos[w]])
    BY DEF Next, Progress, Joining, vars, watchers, Change, Compact, Monitor, GetCurrent, TellCurrent,
           AddListener, Unmonitor, Load, HandleChanges, TellChanges, SetupWatch, ReceiveEvent, CopyListeners,
           UpdateValues, TellEvent, StreamFails, StreamCompacted, StreamEnds, Reload, ReloadEnds
  <2>2. CASE values' = values
    BY <1>2, <2>2, WrittenStays DEF OriginInv
  <2>3. CASE values' = Empty
    BY <1>2, <2>3, ConstantsAssumption DEF ConstantsAssumption, Empty
  <2>4. ASSUME NEW w \in Watches, values' = StoreAt(rev[w]) PROVE Written(k, v)'
    BY <1>2, <2>4, StoreWritten, WrittenStays DEF RevInv
  <2>5. ASSUME NEW w \in Watches, UpdateValues(w), values' = Updated(values, log[pos[w]]) PROVE Written(k, v)'
    <3> DEFINE e == log[pos[w]]
    <3>1. pos[w] \in 1 .. Len(log) /\ e.key \in Keys
      BY <2>5, EntryType DEF RevInv, UpdateValues
    <3>2. CASE e.key = k
      <4>1. e.val = v
        BY <1>2, <2>5, <3>2 DEF Updated, ValueType, Stores
      <4>2. Written(k, v)
        BY <3>1, <3>2, <4>1 DEF Written
      <4> QED BY <4>2, WrittenStays
    <3>3. CASE e.key # k
      <4>1. values[k] = v
        BY <1>2, <2>5, <3>3 DEF Updated, ValueType, Stores
      <4> QED BY <4>1, WrittenStays DEF OriginInv
    <3> QED BY <3>2, <3>3
  <2> QED BY <2>1, <2>2, <2>3, <2>4, <2>5
<1> QED BY <1>1, <1>2 DEF OriginInv

\* Who was not alone will not be.
LEMMA SoloBack == ASSUME NEW o \in Listeners, PlainType, CallerInv, [Next]_vars PROVE Solo(o)' => Solo(o)
<1> USE DEF PlainType, CallerInv, Solo, Goto, etcd, watchers, goroutines, monitors, counters
<1>1. ASSUME NEW k \in Keys, NEW v \in Values, Change(k, v) PROVE Solo(o)' => Solo(o)
  BY <1>1 DEF Change
<1>2. CASE Compact \/ Reload \/ ReloadEnds \/ UNCHANGED vars
  BY <1>2 DEF Compact, Reload, ReloadEnds, Start, Restarts, vars
<1>3. ASSUME NEW l \in Listeners, Monitor(l) \/ GetCurrent(l) \/ TellCurrent(l) \/ Unmonitor(l) PROVE
      Solo(o)' => Solo(o)
  BY <1>3 DEF Monitor, GetCurrent, TellCurrent, Unmonitor
<1>4. ASSUME NEW l \in Listeners, NEW w \in Watches, AddListener(l, w) PROVE Solo(o)' => Solo(o)
  BY <1>4 DEF AddListener, Start
<1>5. ASSUME NEW w \in Watches, Load(w) \/ ReceiveEvent(w) \/ HandleChanges(w) \/ TellChanges(w) \/
      SetupWatch(w) \/ CopyListeners(w) \/ UpdateValues(w) \/ TellEvent(w) \/ StreamFails(w) \/
      StreamCompacted(w) \/ StreamEnds(w) PROVE Solo(o)' => Solo(o)
  BY <1>5 DEF Load, ReceiveEvent, HandleChanges, Run, TellChanges, Tell, SetupWatch, FirstEvent,
              CopyListeners, UpdateValues, TellEvent, StreamFails, StreamCompacted, StreamEnds
<1> QED
  BY <1>1, <1>2, <1>3, <1>4, <1>5 DEF Next, Progress, Joining, Values

\* The conditions under which a listener is informed do not come back.
LEMMA NoWayBack ==
    ASSUME NEW o \in Listeners, LogType, PlainType, CallerInv, [Next]_vars
    PROVE  /\ Solo(o)' => Solo(o)
           /\ leaves' = 0 => leaves = 0
           /\ ~overlap' => ~overlap
           /\ KeysKeepValues' => KeysKeepValues
<1> USE DEF vars, etcd, watchers, goroutines, monitors, counters, Change, Compact, Monitor, GetCurrent,
            TellCurrent, AddListener, Unmonitor, Load, HandleChanges, TellChanges, SetupWatch, ReceiveEvent,
            CopyListeners, UpdateValues, TellEvent, StreamFails, StreamCompacted, StreamEnds, Reload,
            ReloadEnds, Start
<1>1. leaves' = 0 => leaves = 0
  <2>1. leaves' \in {leaves, leaves + 1}
    BY DEF Next, Progress, Joining
  <2> QED BY <2>1 DEF PlainType
<1>2. ~overlap' => ~overlap
  BY DEF Next, Progress, Joining
<1>3. KeysKeepValues' => KeysKeepValues
  <2>1. CASE UNCHANGED log
    BY <2>1 DEF KeysKeepValues
  <2>2. ASSUME NEW k \in Keys, NEW v \in Values, Change(k, v) PROVE KeysKeepValues' => KeysKeepValues
    BY <2>2, Grows, StoreType DEF KeysKeepValues
  <2> QED BY <2>1, <2>2, OnlyChangeWrites
<1> QED BY <1>1, <1>2, <1>3, SoloBack

\* What calculateChanges finds brings a listener that knew the old values to the new ones, if keys keep their values.
LEMMA ChangesAreTold ==
    ASSUME NEW f \in Stores, NEW g \in Stores, NEW t, t.new = Changed(f, g).new, t.gone = Changed(f, g).gone,
           \A k \in Keys : f[k] # None /\ g[k] # None => f[k] = g[k]
    PROVE  After(f, t) = g
<1>1. ASSUME NEW k \in Keys PROVE After(f, t)[k] = g[k]
  BY DEF After, Changed, Stores
<1>2. After(f, t) = [k \in Keys |-> After(f, t)[k]] /\ g = [k \in Keys |-> g[k]]
  BY DEF After, Stores
<1> QED BY <1>1, <1>2

\* An event brings it to the values after the event.
LEMMA EventIsTold ==
    ASSUME NEW f \in Stores, NEW e, e.key \in Keys, e.val \in Values, NEW t,
           t.new = [Empty EXCEPT ![e.key] = e.val], t.gone = IF e.val = None THEN {e.key} ELSE {}
    PROVE  After(f, t) = Updated(f, e)
<1>1. ASSUME NEW k \in Keys PROVE After(f, t)[k] = Updated(f, e)[k]
  BY DEF After, Updated, Empty, Stores
<1>2. After(f, t) = [k \in Keys |-> After(f, t)[k]] /\ Updated(f, e) = [k \in Keys |-> Updated(f, e)[k]]
  BY DEF After, Updated, Stores
<1> QED BY <1>1, <1>2

\* Values that were written are the same, if keys keep theirs.
LEMMA SameValue ==
    ASSUME KeysKeepValues, NEW k \in Keys, NEW u \in Vals, NEW v \in Vals, Written(k, u), Written(k, v)
    PROVE  u = v
  BY ConstantsAssumption DEF ConstantsAssumption, KeysKeepValues, Written

\* The only listener keeps up with the registry.
LEMMA AgreeNext == ASSUME NEW o \in Listeners, LogType, PlainType, NoteType, ValueType, RevInv, FirstInv,
    SingleInv, CallerInv, OriginInv, SoloInv(o), AgreeInv(o), [Next]_vars PROVE AgreeInv(o)'
<1> SUFFICES ASSUME Solo(o)', leaves' = 0, on', ~overlap', KeysKeepValues' PROVE Told(o)'
  BY DEF AgreeInv, Told
<1>a. Solo(o) /\ leaves = 0 /\ ~overlap /\ KeysKeepValues /\ (on => Told(o))
  BY NoWayBack DEF AgreeInv, Told
<1> USE <1>a DEF PlainType, FirstInv, SoloInv, Solo, Told, Telling, Goto, etcd, watchers, goroutines,
                 monitors, counters
<1>1. ASSUME NEW k \in Keys, NEW v \in Values, Change(k, v) PROVE Told(o)'
  BY <1>1 DEF Change
<1>2. CASE Compact \/ Reload \/ ReloadEnds \/ UNCHANGED vars
  BY <1>2 DEF Compact, Reload, ReloadEnds, Start, Restarts, vars
<1>3. ASSUME NEW l \in Listeners, Monitor(l) \/ GetCurrent(l) \/ TellCurrent(l) \/ Unmonitor(l) PROVE
      Told(o)'
  BY <1>3 DEF Monitor, GetCurrent, TellCurrent, Unmonitor
<1>4. ASSUME NEW l \in Listeners, NEW w \in Watches, AddListener(l, w) PROVE Told(o)'
  BY <1>4 DEF AddListener, Start
<1>5. ASSUME NEW w \in Watches, Load(w) \/ ReceiveEvent(w) \/ SetupWatch(w) \/ StreamFails(w) \/
      StreamCompacted(w) \/ StreamEnds(w) PROVE Told(o)'
  BY <1>5 DEF Load, ReceiveEvent, SetupWatch, FirstEvent, StreamFails, StreamCompacted, StreamEnds
<1>6. ASSUME NEW w \in Watches, HandleChanges(w) PROVE Told(o)'
  <2>1. /\ on /\ values' = StoreAt(rev[w]) /\ view' = view /\ pc' = [pc EXCEPT ![w] = "tellchanges"]
        /\ pc[w] = "apply"
        /\ told' = [told EXCEPT ![w] = [new |-> Changed(values, StoreAt(rev[w])).new,
                                        gone |-> Changed(values, StoreAt(rev[w])).gone,
                                        to |-> listeners, inc |-> inc]]
    BY <1>6 DEF HandleChanges
  <2>2. StoreAt(rev[w]) \in Stores
    BY StoreType DEF RevInv
  <2>3. view[o] = values
    BY <2>1, <1>a DEF SingleInv, Told, Telling
  <2>4. \A k \in Keys : values[k] # None /\ StoreAt(rev[w])[k] # None => values[k] = StoreAt(rev[w])[k]
    <3> SUFFICES ASSUME NEW k \in Keys, values[k] # None, StoreAt(rev[w])[k] # None
          PROVE values[k] = StoreAt(rev[w])[k]
      OBVIOUS
    <3>1. values[k] \in Vals /\ StoreAt(rev[w])[k] \in Vals
      BY <2>2 DEF ValueType, Stores, Values
    <3>2. Written(k, values[k]) /\ Written(k, StoreAt(rev[w])[k])
      BY <3>1, StoreWritten DEF OriginInv, RevInv
    <3> QED BY <1>a, <3>1, <3>2, SameValue
  <2>5. /\ told'[w].new = Changed(values, StoreAt(rev[w])).new
        /\ told'[w].gone = Changed(values, StoreAt(rev[w])).gone
    BY <2>1 DEF NoteType
  <2>6. After(values, told'[w]) = StoreAt(rev[w])
    BY <2>2, <2>4, <2>5, ChangesAreTold DEF ValueType
  <2>7. \A u \in Watches : u # w => pc'[u] = "off"
    BY <2>1, <1>a DEF SingleInv, PlainType
  <2> QED BY <2>1, <2>3, <2>6, <2>7 DEF Told, Telling, PlainType
<1>7. ASSUME NEW w \in Watches, TellChanges(w) PROVE Told(o)'
  <2>1. pc[w] = "tellchanges" /\ pc' = [pc EXCEPT ![w] = "setup"] /\ values' = values
    BY <1>7 DEF TellChanges, Run, Goto, watchers
  <2>2. view'[o] = After(view[o], told[w])
    BY <1>7, <1>a, <2>1 DEF TellChanges, Tell, SoloInv
  <2>3. \A u \in Watches : pc'[u] \in {"off", "setup"}
    BY <2>1, <1>a DEF SingleInv, PlainType
  <2> QED BY <2>1, <2>2, <2>3, <1>a DEF Told, Telling
<1>8. ASSUME NEW w \in Watches, CopyListeners(w) PROVE Told(o)'
  <2>1. on /\ pc[w] = "handle" /\ pc' = [pc EXCEPT ![w] = "update"] /\ UNCHANGED <<values, view>>
    BY <1>8 DEF CopyListeners
  <2>2. \A u \in Watches : u # w => told'[u] = told[u]
    BY <1>8 DEF CopyListeners, NoteType
  <2> QED BY <2>1, <2>2
<1>9. ASSUME NEW w \in Watches, UpdateValues(w) PROVE Told(o)'
  <2> DEFINE e == log[pos[w]]
  <2>1. pos[w] \in 1 .. Len(log) /\ e.key \in Keys /\ e.val \in Values
    BY <1>9, EntryType DEF RevInv, UpdateValues
  <2>2. on /\ inc = told[w].inc /\ pc[w] = "update" /\ pc' = [pc EXCEPT ![w] = "tellevent"] /\ view' = view
    BY <1>9, <1>a DEF UpdateValues, FirstInv, monitors
  <2>3. values' = Updated(values, e)
    BY <1>9, <2>2 DEF UpdateValues
  <2>4. told'[w].new = [Empty EXCEPT ![e.key] = e.val] /\ told'[w].gone = IF e.val = None THEN {e.key} ELSE {}
    BY <1>9 DEF UpdateValues, NoteType, Notes
  <2>5. view[o] = values
    BY <2>2, <1>a DEF SingleInv, Told, Telling
  <2> HIDE DEF e
  <2>6. After(values, told'[w]) = values'
    <3>1. values \in Stores
      BY DEF ValueType
    <3>2. After(values, told'[w]) = Updated(values, e)
      BY ONLY <2>1, <2>4, <3>1, EventIsTold, Zenon
    <3> QED BY <2>3, <3>2
  <2>7. \A u \in Watches : u # w => pc'[u] = "off"
    BY <2>2, <1>a DEF SingleInv, PlainType
  <2> QED BY <2>2, <2>5, <2>6, <2>7 DEF Told, Telling, PlainType
<1>10. ASSUME NEW w \in Watches, TellEvent(w) PROVE Told(o)'
  <2>1. pc[w] = "tellevent" /\ pc' = [pc EXCEPT ![w] = "stream"] /\ values' = values
    BY <1>10 DEF TellEvent, Goto, watchers
  <2>2. view'[o] = After(view[o], told[w])
    BY <1>10, <1>a, <2>1 DEF TellEvent, Tell, SoloInv
  <2>3. \A u \in Watches : pc'[u] \in {"off", "stream"}
    BY <2>1, <1>a DEF SingleInv, PlainType
  <2> QED BY <2>1, <2>2, <2>3, <1>a DEF Told, Telling
<1> QED
  BY <1>1, <1>2, <1>3, <1>4, <1>5, <1>6, <1>7, <1>8, <1>9, <1>10 DEF Next, Progress, Joining, Values

\* The inductive invariant.
Inv ==
    /\ LogType /\ PlainType /\ NoteType /\ ValueType
    /\ LogInv /\ RevInv /\ GroupInv /\ FirstInv /\ KnownInv
    /\ SingleInv /\ CallerInv /\ LeftInv /\ OriginInv
    /\ \A l \in Listeners : SoloInv(l) /\ AgreeInv(l)

\* It holds initially.
LEMMA InvInit == Init => Inv
<1> SUFFICES ASSUME Init PROVE Inv
  OBVIOUS
<1> USE EmptyType, NothingType DEF Init
<1>1. LogType /\ PlainType /\ NoteType /\ ValueType
  BY DEF LogType, PlainType, NoteType, ValueType
<1>2. Len(log) = 0
  OBVIOUS
<1>3. LogInv /\ RevInv
  BY <1>2 DEF LogInv, RevInv, Store, Streaming
<1>4. GroupInv /\ FirstInv /\ KnownInv
  BY DEF GroupInv, FirstInv, KnownInv, Streaming
<1>5. SingleInv /\ CallerInv /\ LeftInv
  BY DEF SingleInv, CallerInv, LeftInv
<1>6. OriginInv
  BY <1>2, ConstantsAssumption DEF ConstantsAssumption, OriginInv, Empty
<1>7. ASSUME NEW l \in Listeners PROVE SoloInv(l) /\ AgreeInv(l)
  BY DEF SoloInv, AgreeInv
<1> QED BY <1>1, <1>3, <1>4, <1>5, <1>6, <1>7 DEF Inv

\* It is inductive.
LEMMA Inductive == Spec => []Inv
<1>1. Inv /\ [Next]_vars => Inv'
  <2> SUFFICES ASSUME Inv, [Next]_vars PROVE Inv'
    OBVIOUS
  <2>1. /\ LogType /\ PlainType /\ NoteType /\ ValueType
        /\ LogInv /\ RevInv /\ GroupInv /\ FirstInv /\ KnownInv
        /\ SingleInv /\ CallerInv /\ LeftInv /\ OriginInv
    BY DEF Inv
  <2>2. LogType' /\ PlainType' /\ NoteType' /\ ValueType'
    BY <2>1, LogTypeNext, PlainNext, NoteNext, ValueNext
  <2>3. LogInv' /\ RevInv' /\ GroupInv' /\ FirstInv' /\ KnownInv'
    BY <2>1, LogNext, RevNext, GroupNext, FirstNext, KnownNext
  <2>4. SingleInv' /\ CallerInv' /\ LeftInv' /\ OriginInv'
    BY <2>1, SingleNext, CallerNext, LeftNext, OriginNext
  <2>5. ASSUME NEW l \in Listeners PROVE SoloInv(l)' /\ AgreeInv(l)'
    <3>1. SoloInv(l) /\ AgreeInv(l)
      BY DEF Inv
    <3> QED BY <2>1, <3>1, SoloNext, AgreeNext
  <2> QED BY <2>2, <2>3, <2>4, <2>5 DEF Inv
<1> QED
  BY InvInit, <1>1, PTL DEF Spec

\* When one goroutine is left and has read all events, the registry knows the store.
LEMMA AtRestKnows == ASSUME Inv, AtRest, on, leaves = 0 PROVE values = Store
<1>1. PICK w \in Watches : Active = {w} /\ pc[w] = "stream" /\ pos[w] = Len(log) + 1
  BY DEF AtRest
<1>2. Len(log) \in Nat /\ Store \in Stores /\ values \in Stores
  BY StoreType DEF Inv, ValueType, Store
<1>3. ASSUME NEW u \in Watches, NEW k \in Keys PROVE ~Due(u, k)
  <2>1. CASE u = w
    BY <2>1, <1>1, <1>2 DEF Due, NextEvent
  <2>2. CASE u # w
    <3>1. pc[u] = "off"
      BY <2>2, <1>1 DEF Active
    <3> QED BY <3>1 DEF Due
  <2> QED BY <2>1, <2>2
<1>4. \A k \in Keys : values[k] = Store[k]
  BY <1>3 DEF Inv, KnownInv, AtRest
<1> QED BY <1>2, <1>4 DEF Stores

\* While the registry has a watcher for the key someone follows it, or a reload will; and when all
\* events are read the registry knows what is in etcd, however often streams failed, the history was
\* compacted or the connection was lost.
THEOREM RegistryCatchesUp == Spec => []CaughtUp
<1>1. Inv => CaughtUp
  <2> SUFFICES ASSUME Inv PROVE CaughtUp
    OBVIOUS
  <2>1. on => Active # {} \/ locked
    BY DEF Inv, GroupInv, Follows, Active
  <2> QED BY <2>1, AtRestKnows DEF CaughtUp
<1> QED
  BY <1>1, Inductive, PTL

\* A listener that is told of everything from the start knows what is in etcd then.
THEOREM ListenersAreInformed == Spec => []ListenerInformed
<1>1. Inv => ListenerInformed
  <2> SUFFICES ASSUME Inv, NEW l \in Listeners, AtRest, ~overlap, KeysKeepValues, mpc[l] = "in", Solo(l)
               PROVE  view[l] = Store
    BY DEF ListenerInformed, Solo
  <2>1. leaves = 0
    BY DEF Inv, LeftInv, Solo
  <2>2. PICK w \in Watches : Active = {w} /\ pc[w] = "stream"
    BY DEF AtRest
  <2>3. on
    BY <2>1, <2>2 DEF Inv, FirstInv
  <2>4. \A u \in Watches : pc[u] \notin Telling
    BY <2>2 DEF Active, Telling
  <2>5. view[l] = values
    BY <2>1, <2>3, <2>4 DEF Inv, AgreeInv, Told
  <2> QED BY <2>1, <2>3, <2>5, AtRestKnows
<1> QED
  BY <1>1, Inductive, PTL
=============================================================================
