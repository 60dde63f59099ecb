---------------------------- MODULE ConfigCenter ----------------------------
(***************************************************************************)
(* core/configcenter over its etcd subscriber.  Goroutines of the registry *)
(* store a changed value in the container and call the listeners, one of   *)
(* which is onChange of the config center; it reads the value back and     *)
(* stores it as the snapshot that GetConfig returns.  NewConfigCenter      *)
(* loads first and adds that listener afterwards.  Values are numbered in  *)
(* the order in which etcd had them; 0 is no value.                        *)
(***************************************************************************)
EXTENDS Naturals, FiniteSets

CONSTANTS
    Feeders,       \* goroutines of the registry that deliver changes
    MaxChanges     \* bounds the changes of the key in etcd

VARIABLES
    changes,       \* changes of the key in etcd so far
    content,       \* container.value
    listening,     \* onChange is among the listeners of the container
    snapshot,      \* c.snapshot: [data, ok] with ok FALSE where data cannot be unmarshalled
    npc,           \* where NewConfigCenter is
    fpc,           \* where each feeder is
    loaded,        \* the value each goroutine has read in loadConfig
    overtaken,     \* history: feeders about to store an old value after another stored the new one
    odd            \* history, why the snapshot is old: "missed", the change came before AddListener;
                   \* "raced", one that was overtaken stored last

configVars == <<changes, content, listening, snapshot, npc, fpc, loaded, overtaken, odd>>

NoConfig == [data |-> 0, ok |-> FALSE]

Init ==
    /\ changes = 0 /\ content = 0 /\ listening = FALSE /\ snapshot = NoConfig
    /\ npc = "idle" /\ fpc = [f \in Feeders |-> "idle"] /\ odd = {} /\ overtaken = {}
    /\ loaded = [g \in Feeders \cup {"new"} |-> 0]

Goto(f, s) == fpc' = [fpc EXCEPT ![f] = s]

\* genValue: the unmarshaler may reject data; empty data is not unmarshalled
Values(v) == IF v = 0 THEN {NoConfig} ELSE [data : {v}, ok : BOOLEAN]
-----------------------------------------------------------------------------
\* OnAdd or OnDelete stores the value, new or none.
OnChangeOfKey(f) ==
    /\ fpc[f] = "idle" /\ changes < MaxChanges /\ changes' = changes + 1
    /\ content' \in {0, changes + 1} /\ Goto(f, "notify")
    /\ UNCHANGED <<listening, snapshot, npc, loaded, overtaken, odd>>

\* notifyChange copies the listeners and calls them.
NotifyChange(f) ==
    /\ fpc[f] = "notify" /\ Goto(f, IF listening THEN "load" ELSE "idle")
    /\ odd' = IF ~listening /\ npc \in {"store", "listen"} /\ content # loaded["new"]
              THEN {"missed"} ELSE odd
    /\ UNCHANGED <<changes, content, listening, snapshot, npc, loaded, overtaken>>

\* loadConfig of onChange: c.subscriber.Value()
Load(f) ==
    /\ fpc[f] = "load" /\ Goto(f, "store")
    /\ loaded' = [loaded EXCEPT ![f] = content]
    /\ UNCHANGED <<changes, content, listening, snapshot, npc, overtaken, odd>>

\* Whoever holds an old value when the present one is stored is overtaken.  A store makes up for
\* what was missed or raced before.
Overtake(f) ==
    /\ overtaken' = (IF loaded[f] # content THEN overtaken
                     ELSE overtaken \cup {g \in Feeders : fpc[g] = "store" /\ loaded[g] # content}) \ {f}
    /\ odd' = IF f \in overtaken /\ loaded[f] # content THEN {"raced"} ELSE {}

\* Mutant of Store: an empty value is not stored.
StoreNonempty(f) ==
    /\ fpc[f] = "store" /\ Goto(f, "tell")
    /\ IF loaded[f] = 0 THEN UNCHANGED snapshot ELSE snapshot' \in Values(loaded[f])
    /\ Overtake(f)
    /\ UNCHANGED <<changes, content, listening, npc, loaded>>

\* c.snapshot.Store(c.genValue(v))
Store(f) ==
    /\ fpc[f] = "store" /\ Goto(f, "tell")
    /\ snapshot' \in Values(loaded[f])
    /\ Overtake(f)
    /\ UNCHANGED <<changes, content, listening, npc, loaded>>

\* onChange starts the listeners the users have added, in goroutines of their own.
Tell(f) ==
    /\ fpc[f] = "tell" /\ Goto(f, "idle") /\ loaded' = [loaded EXCEPT ![f] = 0]
    /\ UNCHANGED <<changes, content, listening, snapshot, npc, overtaken, odd>>
-----------------------------------------------------------------------------
\* NewConfigCenter: loadConfig, subscriber.AddListener, GetConfig
NewStep ==
    /\ \/ npc = "idle" /\ npc' = "store" /\ loaded' = [loaded EXCEPT !["new"] = content]
          /\ UNCHANGED <<snapshot, listening>>
       \/ npc = "store" /\ npc' = "listen" /\ snapshot' \in Values(loaded["new"])
          /\ UNCHANGED <<loaded, listening>>
       \/ npc = "listen" /\ npc' = "check" /\ listening' = TRUE
          /\ UNCHANGED <<loaded, snapshot>>
       \/ npc = "check" /\ npc' = (IF snapshot.ok THEN "made" ELSE "error")
          /\ UNCHANGED <<loaded, listening, snapshot>>
    /\ UNCHANGED <<changes, content, fpc, overtaken, odd>>

FeederStep(f) == NotifyChange(f) \/ Load(f) \/ Store(f) \/ Tell(f)

Next == NewStep \/ \E f \in Feeders : OnChangeOfKey(f) \/ FeederStep(f)
-----------------------------------------------------------------------------
(* Properties *)

TypeOK ==
    /\ changes \in 0 .. MaxChanges /\ content \in 0 .. changes /\ listening \in BOOLEAN
    /\ snapshot \in [data : 0 .. changes, ok : BOOLEAN]
    /\ npc \in {"idle", "store", "listen", "check", "made", "error"}
    /\ fpc \in [Feeders -> {"idle", "notify", "load", "store", "tell"}]
    /\ loaded \in [Feeders \cup {"new"} -> 0 .. changes]

\* GetConfig gives the value etcd has as soon as no change is being delivered, also when two
\* goroutines of the registry deliver changes at a time.  It is old only if the change came
\* between the load and AddListener of NewConfigCenter, or if the last one to store had read
\* before the change and stored after the one that brought it; the next delivery makes up for both.
SnapshotCurrent ==
    listening /\ (\A f \in Feeders : fpc[f] \notin {"notify", "load", "store"}) =>
        snapshot.data = content \/ odd # {}
=============================================================================
