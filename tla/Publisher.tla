----------------------------- MODULE Publisher -----------------------------
(***************************************************************************)
(* core/discov.Publisher: a service puts its address into etcd under a     *)
(* lease that its client renews, and one goroutine registers again when    *)
(* the lease or the key is gone.  Pause, Resume and Stop are rendezvous    *)
(* with that goroutine.  etcd is what the code uses of it: leases, keys    *)
(* that go with their lease, a watch that reports deletions, calls that    *)
(* fail with or without effect.  The client renews a lease as long as the  *)
(* process lives, whether or not the publisher still cares for it.         *)
(***************************************************************************)
EXTENDS Naturals

CONSTANTS
    WithIds,       \* subset of BOOLEAN: is the option WithId used
    MaxTurns       \* bounds failures, deletions and pauses together

VARIABLES
    withId,
    leases,        \* leases alive in etcd, numbered as they are granted
    granted,       \* number of the last lease
    keys,          \* what is published: pairs <<full key, lease>>
    lease,         \* p.lease, 0 for NoLease
    gpc,           \* where KeepAlive, and then its goroutine, is
    after,         \* where the goroutine goes after revoke
    ch, deleted,   \* ch is closed; wch has a deletion to report
    quit,          \* p.quit is closed
    turns,         \* failures, deletions and pauses so far
    leaked,        \* history: leases nobody will revoke
    unnoticed      \* history: a deletion was not reported, or its re-put failed

chans == <<ch, deleted>>
history == <<leaked, unnoticed>>
pubVars == <<withId, leases, granted, keys, lease, gpc, after, chans, quit, turns, history>>

Init ==
    /\ withId \in WithIds
    /\ leases = {} /\ granted = 0 /\ keys = {} /\ lease = 0
    /\ gpc = "idle" /\ after = "none" /\ ch = "open" /\ deleted = FALSE
    /\ quit = FALSE /\ turns = 0 /\ leaked = {} /\ unnoticed = FALSE

FullKey(l) == IF withId THEN 0 ELSE l
PutKey(l) == {e \in keys : e[1] # FullKey(l)} \cup {<<FullKey(l), l>>}

\* A failure, a deletion or a pause happens.
Turn == turns < MaxTurns /\ turns' = turns + 1
-----------------------------------------------------------------------------
(* register *)

\* KeepAlive is called, or called again after an error; before it returns an
\* error it has registered like doKeepAlive.
KeepAlive ==
    /\ gpc = "idle" /\ gpc' = "first"
    /\ UNCHANGED <<withId, leases, granted, keys, lease, after, chans, quit, turns, history>>

\* A failed registration: KeepAlive returns the error, doKeepAlive tries again at the
\* next tick.
Failed(first) == gpc' = IF first THEN "idle" ELSE "again"

\* A tick of doKeepAlive, or the first registration: client.Grant.  When it fails
\* p.lease is NoLease.
Grant ==
    /\ gpc \in {"first", "again"} /\ ~(gpc = "again" /\ quit)
    /\ \/ /\ granted' = granted + 1 /\ leases' = leases \cup {granted + 1}
          /\ lease' = granted + 1
          /\ gpc' = (IF gpc = "first" THEN "putFirst" ELSE "put")
          /\ UNCHANGED turns
       \/ Turn /\ Failed(gpc = "first") /\ lease' = 0 /\ UNCHANGED <<granted, leases>>
    /\ UNCHANGED <<withId, keys, after, chans, quit, history>>

\* client.Put with the new lease.  The lease may have ended, and a call that
\* fails may have had its effect.
Put ==
    /\ gpc \in {"put", "putFirst"}
    /\ \/ /\ lease \in leases /\ keys' = PutKey(lease)
          /\ gpc' = (IF gpc = "putFirst" THEN "renewFirst" ELSE "renew")
          /\ UNCHANGED <<turns, leaked>>
       \/ /\ Turn \/ (lease \notin leases /\ UNCHANGED turns)
          /\ Failed(gpc = "putFirst")
          /\ keys' \in {keys} \cup {PutKey(l) : l \in leases \cap {lease}}
          /\ leaked' = leaked \cup {lease}
    /\ UNCHANGED <<withId, leases, granted, lease, after, chans, quit, unnoticed>>

\* keepAliveAsync: cli.KeepAlive, and the goroutine is started.
Renew ==
    /\ gpc \in {"renew", "renewFirst"}
    /\ \/ gpc' = "watch" /\ UNCHANGED <<turns, leaked>>
       \/ Turn /\ Failed(gpc = "renewFirst") /\ leaked' = leaked \cup {lease}
    /\ ch' = "open" /\ deleted' = FALSE
    /\ UNCHANGED <<withId, leases, granted, keys, lease, after, quit, unnoticed>>

\* doKeepAlive: p.quit is closed
GiveUp ==
    /\ gpc = "again" /\ quit /\ gpc' = "end"
    /\ UNCHANGED <<withId, leases, granted, keys, lease, after, chans, quit, turns, history>>
-----------------------------------------------------------------------------
(* The goroutine of keepAliveAsync *)

\* wch := cli.Watch(cli.Ctx(), p.fullKey, ...)
Watch ==
    /\ gpc = "watch" /\ gpc' = "loop"
    /\ UNCHANGED <<withId, leases, granted, keys, lease, after, chans, quit, turns, history>>

\* Mutant of RevokeThen: the registration is left as it is.
SkipRevoke(next) == gpc' = next /\ UNCHANGED after

\* p.revoke(cli), and what follows
RevokeThen(next) == gpc' = "revoke" /\ after' = next

\* case _, ok := <-ch with ok false
RenewalEnds ==
    /\ gpc = "loop" /\ ch = "closed" /\ RevokeThen("again")
    /\ UNCHANGED <<withId, leases, granted, keys, lease, chans, quit, turns, history>>

\* c.Err() != nil: register again; the old lease is not revoked.
WatchError ==
    /\ gpc = "loop" /\ Turn /\ gpc' = "again" /\ leaked' = leaked \cup {lease}
    /\ UNCHANGED <<withId, leases, granted, keys, lease, after, chans, quit, unnoticed>>

\* Mutant of PutAgain: the deletion is only logged.
IgnoreDeletion ==
    /\ gpc = "loop" /\ deleted /\ deleted' = FALSE
    /\ UNCHANGED <<withId, leases, granted, keys, lease, gpc, after, ch, quit, turns, history>>

\* A deletion is reported: put the key again.  An error is only logged; the put of a
\* lease that has ended is one.
PutAgain ==
    /\ gpc = "loop" /\ deleted /\ deleted' = FALSE
    /\ \/ lease \in leases /\ keys' = PutKey(lease) /\ UNCHANGED <<turns, unnoticed>>
       \/ lease \notin leases /\ UNCHANGED <<keys, turns, unnoticed>>
       \/ Turn /\ unnoticed' = TRUE /\ UNCHANGED keys
    /\ UNCHANGED <<withId, leases, granted, lease, gpc, after, ch, quit, leaked>>

Pause ==
    /\ gpc = "loop" /\ Turn /\ RevokeThen("paused")
    /\ UNCHANGED <<withId, leases, granted, keys, lease, chans, quit, history>>

Quit ==
    /\ \/ gpc = "loop" /\ RevokeThen("end")
       \/ gpc = "paused" /\ gpc' = "end" /\ UNCHANGED after
    /\ quit
    /\ UNCHANGED <<withId, leases, granted, keys, lease, chans, quit, turns, history>>

Resume ==
    /\ gpc = "paused" /\ gpc' = "again"
    /\ UNCHANGED <<withId, leases, granted, keys, lease, after, chans, quit, turns, history>>

\* cli.Revoke: the keys of the lease go with it.  An error is only logged.
Revoke ==
    /\ gpc = "revoke" /\ gpc' = after /\ after' = "none"
    /\ \/ /\ leases' = leases \ {lease} /\ keys' = {e \in keys : e[2] # lease}
          /\ UNCHANGED <<turns, leaked>>
       \/ Turn /\ leaked' = leaked \cup {lease} /\ UNCHANGED <<leases, keys>>
    /\ UNCHANGED <<withId, granted, lease, chans, quit, unnoticed>>
-----------------------------------------------------------------------------
(* Stop, and etcd *)

Stop ==
    /\ ~quit /\ quit' = TRUE
    /\ UNCHANGED <<withId, leases, granted, keys, lease, gpc, after, chans, turns, history>>

\* The watch of the goroutine has begun.
Watching == gpc = "loop"
Published == \E e \in keys : e = <<FullKey(lease), lease>>

\* A lease ends in etcd, with its keys.
LeaseEnds(l) ==
    /\ l \in leases /\ Turn
    /\ leases' = leases \ {l} /\ keys' = {e \in keys : e[2] # l}
    /\ deleted' = (deleted \/ (Watching /\ l = lease /\ Published))
    /\ UNCHANGED <<withId, granted, lease, gpc, after, ch, quit, history>>

\* The client notices that the lease has ended, or has not reached etcd for as long
\* as a lease lives, and closes ch.
RenewalStops ==
    /\ gpc \in {"watch", "loop"} /\ ch = "open"
    /\ IF lease \in leases THEN Turn ELSE UNCHANGED turns
    /\ ch' = "closed"
    /\ UNCHANGED <<withId, leases, granted, keys, lease, gpc, after, deleted, quit, history>>

\* Somebody deletes the key.
KeyDeleted ==
    /\ Published /\ Turn
    /\ keys' = keys \ {<<FullKey(lease), lease>>}
    /\ deleted' = (deleted \/ Watching) /\ unnoticed' = (unnoticed \/ ~Watching)
    /\ UNCHANGED <<withId, leases, granted, lease, gpc, after, ch, quit, leaked>>

Goroutine ==
    \/ Grant \/ Put \/ Renew \/ GiveUp \/ Watch \/ RenewalEnds \/ WatchError \/ PutAgain
    \/ Quit \/ Revoke

Next ==
    \/ KeepAlive \/ Goroutine \/ Pause \/ Resume \/ Stop
    \/ (\E l \in leases : LeaseEnds(l)) \/ RenewalStops \/ KeyDeleted

\* The goroutine runs, calls of etcd return, a select takes each of its ready cases
\* in the end, and the client notices that a lease has ended.
Fairness ==
    /\ WF_pubVars(Goroutine /\ ~WatchError)
    /\ SF_pubVars(RenewalEnds) /\ SF_pubVars(Quit)
    /\ WF_pubVars(lease \notin leases /\ RenewalStops)
-----------------------------------------------------------------------------
(* Properties *)

TypeOK ==
    /\ withId \in BOOLEAN /\ quit \in BOOLEAN /\ deleted \in BOOLEAN /\ unnoticed \in BOOLEAN
    /\ granted \in Nat /\ lease \in 0 .. granted
    /\ leases \subseteq 1 .. granted /\ leaked \subseteq 0 .. granted
    /\ keys \subseteq (0 .. granted) \X (1 .. granted)
    /\ gpc \in {"idle", "first", "putFirst", "renewFirst", "again", "put", "renew", "watch",
                "loop", "revoke", "paused", "end"}
    /\ after \in {"none", "again", "paused", "end"} /\ ch \in {"open", "closed"}
    /\ turns \in 0 .. MaxTurns

\* Stop and Pause take the service out of discovery: when the goroutine has ended or is
\* paused, what is still published belongs to a lease that was left behind by a watch
\* error or by a call of etcd that failed.  No other interleaving of Stop, Pause,
\* Resume and a new registration leaves the address of a stopped service.
StopUnpublishes == gpc \in {"paused", "end"} => \A e \in keys : e[2] \in leaked

\* The service is registered again whenever its lease or key is gone, until it is
\* paused or stopped, or a deletion went unnoticed: before the watch began, or because
\* the one attempt to put the key again failed.
KeptPublished == []<>(Published \/ gpc \in {"idle", "paused", "end"} \/ unnoticed)
=============================================================================
