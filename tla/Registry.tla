------------------------------ MODULE Registry ------------------------------
(***************************************************************************)
(* core/discov/internal: the registry that follows a key prefix in etcd    *)
(* for its listeners, for one cluster and one watchKey.  A watch goroutine *)
(* loads the keys, then follows the events from the revision of the load   *)
(* and starts again after errors; Monitor and Unmonitor change the         *)
(* listeners; reload restarts the watches when the connection comes back.  *)
(*                                                                         *)
(* etcd is the sequence log of its changes, each with the keys it results  *)
(* in; its revision is the length.                                         *)
(* c.lock is held for one step, except by reload, which holds it while it  *)
(* waits for the watch goroutines.  The calls of OnAdd and OnDelete that   *)
(* follow one change are one step.  A listener is a container: OnAdd gives *)
(* a key its value, OnDelete takes the key away whatever its value.        *)
(***************************************************************************)
EXTENDS Naturals, Sequences, FiniteSets

CONSTANTS
    Keys, Vals, None,
    Listeners,
    Watches,       \* watch goroutines
    MaxRev,        \* bounds the changes in etcd
    MaxFaults,     \* bounds the failures of watch streams
    MaxReloads,    \* bounds the reconnections
    Compacts,      \* whether etcd may compact its history
    MaxLeaves      \* bounds the calls of Unmonitor

ASSUME ConstantsAssumption ==
    /\ None \notin Vals /\ MaxRev \in Nat /\ MaxFaults \in Nat /\ MaxReloads \in Nat
    /\ Compacts \in BOOLEAN /\ MaxLeaves \in Nat

VARIABLES
    log, compacted,     \* etcd: its changes and the revision it was compacted to
    on,                 \* c.watchers has the watchKey
    listeners, values,  \* watchValue: its listeners and the values it knows
    cancel,             \* watchValue.cancel: the goroutine it cancels
    inc,                \* counts the watchValues created for the key
    locked, done,       \* reload holds c.lock; c.done is closed
    pc, rev, pos,       \* of a watch goroutine: where it is, rev, next event of its stream (1 without one)
    group,              \* goroutines of c.watchGroup
    cancelled,          \* goroutines whose context is cancelled
    told,               \* told[w]: what w found and whom it has to tell
    caller,             \* caller[w]: the listener whose Monitor runs the first load of w
    mpc, current,       \* where Monitor of a listener is, and what getCurrent returned
    view,               \* what the listener was told
    faults, reloads, leaves,
    overlap             \* history: two goroutines watched at a time

etcd == <<log, compacted>>
watchers == <<on, listeners, values, cancel, inc>>
goroutines == <<pc, rev, pos, group, cancelled, told, caller>>
monitors == <<mpc, current, view>>
counters == <<faults, reloads, leaves>>
vars == <<etcd, watchers, locked, done, goroutines, monitors, counters, overlap>>

Empty == [k \in Keys |-> None]

\* The keys in etcd at revision n.
StoreAt(n) == IF n = 0 THEN Empty ELSE log[n].store

Store == StoreAt(Len(log))
Nothing == [new |-> Empty, gone |-> {}, to |-> {}, inc |-> 0]

Init ==
    /\ log = <<>> /\ compacted = 0
    /\ on = FALSE /\ listeners = {} /\ values = Empty /\ cancel = None /\ inc = 0
    /\ locked = FALSE /\ done = FALSE
    /\ pc = [w \in Watches |-> "off"] /\ rev = [w \in Watches |-> 0] /\ pos = [w \in Watches |-> 1]
    /\ group = {} /\ cancelled = {} /\ told = [w \in Watches |-> Nothing]
    /\ caller = [w \in Watches |-> None]
    /\ mpc = [l \in Listeners |-> "out"] /\ view = [l \in Listeners |-> Empty] /\ current = view
    /\ faults = 0 /\ reloads = 0 /\ leaves = 0 /\ overlap = FALSE

Goto(w, l) == pc' = [pc EXCEPT ![w] = l]

Active == {w \in Watches : pc[w] # "off"}

\* A goroutine starts with a load.
Start(w) ==
    /\ pc[w] = "off" /\ Goto(w, "load")
    /\ overlap' = (overlap \/ Active # {})
-----------------------------------------------------------------------------
(* etcd (external) *)

Change(k, v) ==
    /\ Len(log) < MaxRev /\ Store[k] # v
    /\ log' = Append(log, [key |-> k, val |-> v, store |-> [Store EXCEPT ![k] = v]])
    /\ UNCHANGED <<compacted, watchers, locked, done, goroutines, monitors, counters, overlap>>

Compact ==
    /\ Compacts /\ compacted < Len(log)
    /\ compacted' = Len(log)
    /\ UNCHANGED <<log, watchers, locked, done, goroutines, monitors, counters, overlap>>
-----------------------------------------------------------------------------
(* Monitor and Unmonitor *)

\* Monitor looks for the watcher and joins it, under c.lock.
Monitor(l) ==
    /\ mpc[l] = "out" /\ ~locked
    /\ view' = [view EXCEPT ![l] = Empty]
    /\ listeners' = IF on THEN listeners \cup {l} ELSE listeners
    /\ mpc' = [mpc EXCEPT ![l] = IF on THEN "joined" ELSE "first"]
    /\ UNCHANGED <<etcd, on, values, cancel, inc, locked, done, goroutines, current, counters, overlap>>

\* getCurrent, under c.lock; what it returns is told in a second step.
GetCurrent(l) ==
    /\ mpc[l] = "joined" /\ ~locked
    /\ current' = [current EXCEPT ![l] = IF on THEN values ELSE Empty]
    /\ mpc' = [mpc EXCEPT ![l] = "tell"]
    /\ UNCHANGED <<etcd, watchers, locked, done, goroutines, view, counters, overlap>>

TellCurrent(l) ==
    /\ mpc[l] = "tell"
    /\ view' = [view EXCEPT ![l] = [k \in Keys |-> IF current[l][k] # None THEN current[l][k] ELSE @[k]]]
    /\ current' = [current EXCEPT ![l] = Empty]
    /\ mpc' = [mpc EXCEPT ![l] = "in"]
    /\ UNCHANGED <<etcd, watchers, locked, done, goroutines, counters, overlap>>

\* c.monitor: addListener.  The load that follows and the watch are those of w.
AddListener(l, w) ==
    /\ mpc[l] = "first" /\ ~locked /\ Start(w)
    /\ IF on
       THEN listeners' = listeners \cup {l} /\ UNCHANGED <<on, values, cancel, inc>>
       ELSE on' = TRUE /\ listeners' = {l} /\ values' = Empty /\ cancel' = None /\ inc' = inc + 1
    /\ mpc' = [mpc EXCEPT ![l] = "load"]
    /\ caller' = [caller EXCEPT ![w] = l]
    /\ UNCHANGED <<etcd, locked, done, rev, pos, group, cancelled, told, current, view, counters>>

\* After the load, monitor runs watch in the group and Monitor returns.
Run(w) ==
    /\ group' = group \cup {w}
    /\ mpc' = IF caller[w] = None THEN mpc ELSE [mpc EXCEPT ![caller[w]] = "in"]
    /\ caller' = [caller EXCEPT ![w] = None]
    /\ Goto(w, "setup")

Unmonitor(l) ==
    /\ leaves < MaxLeaves /\ mpc[l] = "in" /\ ~locked
    /\ leaves' = leaves + 1
    /\ mpc' = [mpc EXCEPT ![l] = "left"]
    /\ listeners' = listeners \ {l}
    /\ IF on /\ listeners' = {}
       THEN on' = FALSE /\ values' = Empty /\ cancel' = None /\ cancelled' = cancelled \cup ({cancel} \ {None})
       ELSE UNCHANGED <<on, values, cancel, cancelled>>
    /\ UNCHANGED <<etcd, inc, locked, done, pc, rev, pos, group, told, caller, current, view,
                   faults, reloads, overlap>>
-----------------------------------------------------------------------------
(* A watch goroutine *)

\* load: the answer of etcd
Load(w) ==
    /\ pc[w] = "load"
    /\ rev' = [rev EXCEPT ![w] = Len(log)]
    /\ Goto(w, "apply")
    /\ UNCHANGED <<etcd, watchers, locked, done, pos, group, cancelled, told, caller, monitors, counters,
                   overlap>>

\* Mutant of Changed: what was there and is gone is not reported.
ChangedAddOnly(old, new) ==
    [new |-> [k \in Keys |-> IF new[k] # old[k] THEN new[k] ELSE None], gone |-> {}]

\* calculateChanges: what is new, and what is gone.  A key whose value differs is
\* both.
Changed(old, new) ==
    [new |-> [k \in Keys |-> IF new[k] # old[k] THEN new[k] ELSE None],
     gone |-> {k \in Keys : old[k] # None /\ new[k] # old[k]}]

\* handleChanges, the locked part
HandleChanges(w) ==
    LET new == StoreAt(rev[w])
        c == Changed(values, new)
    IN  /\ pc[w] = "apply" /\ ~locked
        /\ IF on
           THEN /\ values' = new
                /\ told' = [told EXCEPT ![w] = [new |-> c.new, gone |-> c.gone, to |-> listeners, inc |-> inc]]
                /\ Goto(w, "tellchanges")
                /\ UNCHANGED <<group, mpc, caller>>
           ELSE Run(w) /\ UNCHANGED <<values, told>>
        /\ UNCHANGED <<etcd, on, listeners, cancel, inc, locked, done, rev, pos, cancelled, current, view,
                       counters, overlap>>

\* What a listener knows after the OnAdd and OnDelete calls for t, in this order.
After(f, t) ==
    [k \in Keys |-> IF k \in t.gone THEN None ELSE IF t.new[k] # None THEN t.new[k] ELSE f[k]]

Tell(w) ==
    /\ view' = [l \in Listeners |-> IF l \in told[w].to THEN After(view[l], told[w]) ELSE view[l]]
    /\ told' = [told EXCEPT ![w] = Nothing]

\* The calls at the end of handleChanges
TellChanges(w) ==
    /\ pc[w] = "tellchanges"
    /\ Tell(w)
    /\ Run(w)
    /\ UNCHANGED <<etcd, watchers, locked, done, rev, pos, cancelled, current, counters, overlap>>

\* clientv3.WithRev(rev+1)
FirstEvent(w) == rev[w] + 1

\* setupWatch: a new context, and its cancel in the watchValue, which is created
\* again when it is gone.
SetupWatch(w) ==
    /\ pc[w] = "setup" /\ ~locked
    /\ cancelled' = cancelled \ {w}
    /\ cancel' = w
    /\ IF on
       THEN UNCHANGED <<on, listeners, values, inc>>
       ELSE on' = TRUE /\ listeners' = {} /\ values' = Empty /\ inc' = inc + 1
    /\ pos' = [pos EXCEPT ![w] = FirstEvent(w)]
    /\ Goto(w, "stream")
    /\ UNCHANGED <<etcd, locked, done, rev, group, told, caller, monitors, counters, overlap>>

\* watchStream: an event arrives; handleWatchEvents copies the listeners.
ReceiveEvent(w) ==
    /\ pc[w] = "stream" /\ pos[w] > compacted /\ pos[w] <= Len(log)
    /\ Goto(w, "handle")
    /\ UNCHANGED <<etcd, watchers, locked, done, rev, pos, group, cancelled, told, caller, monitors,
                   counters, overlap>>

CopyListeners(w) ==
    /\ pc[w] = "handle" /\ ~locked
    /\ IF on
       THEN told' = [told EXCEPT ![w] = [Nothing EXCEPT !.to = listeners, !.inc = inc]] /\ Goto(w, "update")
            /\ UNCHANGED pos
       ELSE pos' = [pos EXCEPT ![w] = @ + 1] /\ Goto(w, "stream") /\ UNCHANGED told
    /\ UNCHANGED <<etcd, watchers, locked, done, rev, group, cancelled, caller, monitors, counters, overlap>>

\* Mutant of Updated: a deletion is not applied.
UpdatedPutOnly(f, e) == IF e.val = None THEN f ELSE [f EXCEPT ![e.key] = e.val]

\* EventTypePut and EventTypeDelete
Updated(f, e) == [f EXCEPT ![e.key] = e.val]

\* The change of values, in the watchValue found before.
UpdateValues(w) ==
    LET e == log[pos[w]] IN
    /\ pc[w] = "update" /\ ~locked
    /\ values' = IF on /\ inc = told[w].inc THEN Updated(values, e) ELSE values
    /\ told' = [told EXCEPT ![w].new = [Empty EXCEPT ![e.key] = e.val],
                            ![w].gone = IF e.val = None THEN {e.key} ELSE {}]
    /\ Goto(w, "tellevent")
    /\ UNCHANGED <<etcd, on, listeners, cancel, inc, locked, done, rev, pos, group, cancelled, caller,
                   monitors, counters, overlap>>

TellEvent(w) ==
    /\ pc[w] = "tellevent"
    /\ Tell(w)
    /\ pos' = [pos EXCEPT ![w] = @ + 1]
    /\ Goto(w, "stream")
    /\ UNCHANGED <<etcd, watchers, locked, done, rev, group, cancelled, caller, mpc, current, counters,
                   overlap>>

\* The stream is closed or has an error: watch sleeps and starts again, from the
\* same rev.
StreamFails(w) ==
    /\ pc[w] = "stream" /\ faults < MaxFaults
    /\ faults' = faults + 1 /\ pos' = [pos EXCEPT ![w] = 1]
    /\ Goto(w, "setup")
    /\ UNCHANGED <<etcd, watchers, locked, done, rev, group, cancelled, told, caller, monitors, reloads,
                   leaves, overlap>>

\* ErrCompacted: rev = c.load(cli, key)
StreamCompacted(w) ==
    /\ pc[w] = "stream" /\ pos[w] <= compacted
    /\ rev' = [rev EXCEPT ![w] = 0] /\ pos' = [pos EXCEPT ![w] = 1]
    /\ Goto(w, "load")
    /\ UNCHANGED <<etcd, watchers, locked, done, group, cancelled, told, caller, monitors, counters, overlap>>

\* ctx.Done() or c.done: the goroutine ends.
StreamEnds(w) ==
    /\ pc[w] = "stream" /\ (w \in cancelled \/ done)
    /\ group' = group \ {w} /\ cancelled' = cancelled \ {w}
    /\ rev' = [rev EXCEPT ![w] = 0] /\ pos' = [pos EXCEPT ![w] = 1]
    /\ Goto(w, "off")
    /\ UNCHANGED <<etcd, watchers, locked, done, told, caller, monitors, counters, overlap>>
-----------------------------------------------------------------------------
(* reload, when the connection is ready again *)

Reload ==
    /\ ~locked /\ reloads < MaxReloads
    /\ reloads' = reloads + 1
    /\ locked' = TRUE /\ done' = TRUE
    /\ UNCHANGED <<etcd, watchers, goroutines, monitors, faults, leaves, overlap>>

\* for wk, wval := range c.watchers
Restarts == on

\* watchGroup.Wait() is over: cancel, renew c.done, unlock, start new watches.  All in one step: a
\* second reload between the unlock and the start, whose watches would overlap, is left out.
ReloadEnds ==
    /\ locked /\ group = {}
    /\ locked' = FALSE /\ done' = FALSE
    /\ cancelled' = IF on THEN cancelled \cup ({cancel} \ {None}) ELSE cancelled
    /\ IF Restarts
       THEN \E w \in Watches : Start(w) /\ group' = {w}
       ELSE UNCHANGED <<pc, group, overlap>>
    /\ UNCHANGED <<etcd, watchers, rev, pos, told, caller, monitors, counters>>
-----------------------------------------------------------------------------
Progress(w) ==
    \/ Load(w) \/ HandleChanges(w) \/ TellChanges(w) \/ SetupWatch(w) \/ ReceiveEvent(w)
    \/ CopyListeners(w) \/ UpdateValues(w) \/ TellEvent(w) \/ StreamCompacted(w) \/ StreamEnds(w)

Joining(l) == GetCurrent(l) \/ TellCurrent(l) \/ \E w \in Watches : AddListener(l, w)

Next ==
    \/ \E k \in Keys, v \in Vals \cup {None} : Change(k, v)
    \/ Compact \/ Reload \/ ReloadEnds
    \/ \E l \in Listeners : Monitor(l) \/ Joining(l) \/ Unmonitor(l)
    \/ \E w \in Watches : Progress(w) \/ StreamFails(w)

Spec == Init /\ [][Next]_vars

\* Goroutines run, etcd answers and delivers its events.
FairSpec ==
    /\ Spec
    /\ \A w \in Watches : WF_vars(Progress(w))
    /\ \A l \in Listeners : WF_vars(Joining(l))
    /\ WF_vars(ReloadEnds)
-----------------------------------------------------------------------------
(* Properties *)

TypeOK ==
    /\ compacted \in 0 .. Len(log)
    /\ listeners \subseteq Listeners /\ values \in [Keys -> Vals \cup {None}]
    /\ cancel \in Watches \cup {None} /\ group \subseteq Active /\ cancelled \subseteq Watches
    /\ \A w \in Watches : rev[w] \in 0 .. Len(log) /\ pos[w] \in 1 .. Len(log) + 1
    /\ view \in [Listeners -> [Keys -> Vals \cup {None}]]

\* One goroutine is left, it has read all events, and no reload is under way.
AtRest == ~locked /\ \E w \in Watches : Active = {w} /\ pc[w] = "stream" /\ pos[w] = Len(log) + 1

\* Someone follows the key as long as the registry has a watcher for it, or a reload is about
\* to start a goroutine that does; and when all events are read the registry knows what is in
\* etcd, also after failures, replays, compactions and reloads.  (When the last listener left, a
\* stream that is set up later starts with a watchValue that knows nothing.)
CaughtUp ==
    /\ on => Active # {} \/ locked
    /\ AtRest /\ on /\ leaves = 0 => values = Store

\* A key has the same value whenever it is in etcd: the value of a key that changed while
\* nobody was watching is added and then removed by handleChanges.
KeysKeepValues ==
    \A m, n \in 1 .. Len(log) :
        log[m].key = log[n].key /\ None \notin {log[m].val, log[n].val} => log[m].val = log[n].val

\* And so does a listener that is told of everything from the start.  (One that joins later may
\* be told the current values after the events that changed them.  Of two goroutines that watch,
\* because a reload came while Monitor was loading, one may report old events after newer ones,
\* and the next reload may end it before it has made up for that.)
ListenerInformed ==
    \A l \in Listeners :
        /\ AtRest /\ ~overlap /\ KeysKeepValues
        /\ mpc[l] = "in" /\ \A m \in Listeners \ {l} : mpc[m] = "out"
        => view[l] = Store

\* A reload comes to its end: "cancel the previous watches", "start new watches".
ReloadCompletes == locked ~> ~locked
=============================================================================
