------------------------------ MODULE Shutdown ------------------------------
(***************************************************************************)
(* The graceful stop: the listenerManager of core/proc, a ServiceGroup of  *)
(* core/service and the REST servers in it, each of which adds a shutdown  *)
(* listener when it starts and waits for all listeners when it was shut    *)
(* down.  Other parts, the executors for one, add listeners of their own.  *)
(* The process is killed when the time for all this is over.               *)
(***************************************************************************)
EXTENDS Naturals, FiniteSets

CONSTANTS
    Servers,       \* the services of the group
    Others,        \* other listeners
    MaxNotify      \* bounds the calls of notifyListeners

VARIABLES
    lst,           \* listeners: "adding" once the wait group counts them, "added", ...
    lock,          \* lm.lock is held by notifyListeners
    notified,      \* calls of notifyListeners
    srv,           \* where the Start of each server is
    gpc,           \* where the Start of the group is; "crashed" when the process ended with a panic
    inside         \* <<l, m>>: listener l adds listener m

serving == <<srv, gpc, inside>>
shutdownVars == <<lst, lock, notified, serving>>

Listeners == Servers \cup Others \cup {"group"}
At(s) == {l \in Listeners : lst[l] = s}
Alive == gpc # "crashed"

Init ==
    /\ lst = [l \in Listeners |-> "none"] /\ lock = FALSE /\ notified = 0
    /\ srv = [s \in Servers |-> "none"] /\ gpc = "idle" /\ inside = {}

To(l, s) == lst' = [lst EXCEPT ![l] = s]
GoS(s, t) == srv' = [srv EXCEPT ![s] = t]

\* l waits for the lock to add a listener.
Adds(l) == \E e \in inside : e[1] = l /\ lst[e[2]] = "adding"
-----------------------------------------------------------------------------
(* listenerManager *)

\* addListener: lm.waitGroup.Add(1)
AddListener(l) == Alive /\ lst[l] = "none" /\ To(l, "adding")

\* lm.lock is free: append, and whoever adds the listener goes on.
Appended(l) ==
    /\ Alive /\ lst[l] = "adding" /\ ~lock /\ To(l, "added")
    /\ srv' = CASE l = "group" -> [s \in Servers |-> "start"]
                [] l \in Servers -> [srv EXCEPT ![l] = "serve"]
                [] OTHER -> srv
    /\ gpc' = IF l = "group" THEN "started" ELSE gpc
    /\ UNCHANGED <<lock, notified, inside>>

\* notifyListeners runs all listeners in goroutines.
NotifyListeners ==
    /\ Alive /\ ~lock /\ notified < MaxNotify /\ lock' = TRUE /\ notified' = notified + 1
    /\ lst' = [l \in Listeners |-> IF lst[l] = "added" THEN "running" ELSE lst[l]]
    /\ UNCHANGED serving

\* What lm.waitGroup counts is zero.
AllCalled == At("adding") \cup At("added") \cup At("running") = {}

\* lm.waitGroup.Done(), which wakes everyone in Wait when the count comes to zero
Done(l) ==
    /\ To(l, "called")
    /\ srv' = IF AllCalled' THEN [s \in Servers |-> IF srv[s] = "wait" THEN "woken" ELSE srv[s]] ELSE srv

\* Mutant of Called: the Stop of the group waits for its servers.
CalledWaiting(l) ==
    /\ Alive /\ lst[l] = "running" /\ ~Adds(l) /\ Done(l)
    /\ l = "group" => \A s \in Servers : srv[s] = "returned"
    /\ UNCHANGED <<lock, notified, gpc, inside>>

\* Mutant of Called: notifyListeners calls the listeners one after the other.
CalledInTurn(l) ==
    /\ Alive /\ lst[l] = "running" /\ ~Adds(l) /\ Done(l) /\ l = CHOOSE m \in At("running") : TRUE
    /\ UNCHANGED <<lock, notified, gpc, inside>>

\* A listener returns or panics.  That of a server has called Shutdown and waited for its
\* connections, that of the group has called Stop of every server, which does nothing to it.
\* One that adds a listener waits for the lock that notifyListeners holds.
Called(l) ==
    /\ Alive /\ lst[l] = "running" /\ ~Adds(l) /\ Done(l)
    /\ UNCHANGED <<lock, notified, gpc, inside>>

\* group.Wait(), lm.listeners = nil, and the lock is released
NotifyEnds ==
    /\ Alive /\ lock /\ At("running") = {} /\ lock' = FALSE
    /\ UNCHANGED <<lst, notified, serving>>
-----------------------------------------------------------------------------
(* The group, the servers and the rest *)

\* sg.Start adds the listener of the group; doStart follows.
GroupStart ==
    /\ gpc = "idle" /\ gpc' = "add" /\ AddListener("group")
    /\ UNCHANGED <<lock, notified, srv, inside>>

\* A panic in a goroutine of RoutineGroup.Run, which does not recover, ends the process.
Crash == gpc' = "crashed" /\ UNCHANGED <<lst, lock, notified, srv, inside>>

\* start of rest/internal: add a listener; serve until that calls Shutdown; waitForCalled.  The
\* Wait of a wait group panics if it was woken and finds that the count is not zero any more.
ServerStep(s) ==
    /\ Alive
    /\ \/ srv[s] = "start" /\ GoS(s, "add") /\ AddListener(s) /\ UNCHANGED <<lock, notified, gpc, inside>>
       \/ /\ \/ /\ srv[s] = "serve" /\ lst[s] \in {"running", "called"}
                /\ GoS(s, IF AllCalled THEN "returned" ELSE "wait")
             \/ srv[s] = "woken" /\ AllCalled /\ GoS(s, "returned")
          /\ UNCHANGED <<lst, lock, notified, gpc, inside>>
       \/ srv[s] = "woken" /\ ~AllCalled /\ Crash

\* A server fails before its Shutdown: handleError panics.
ServerFails(s) == Alive /\ srv[s] = "serve" /\ lst[s] # "called" /\ Crash

GroupReturns ==
    /\ gpc = "started" /\ gpc' = "returned" /\ \A s \in Servers : srv[s] = "returned"
    /\ UNCHANGED <<lst, lock, notified, srv, inside>>

\* Another part of the program adds a listener, on its own or inside a listener.
OtherAdds(l) ==
    /\ AddListener(l) /\ inside' \in {inside} \cup {inside \cup {<<m, l>>} : m \in At("running")}
    /\ UNCHANGED <<lock, notified, srv, gpc>>

Next ==
    \/ GroupStart \/ GroupReturns \/ NotifyListeners \/ NotifyEnds
    \/ \E l \in Listeners : Appended(l) \/ Called(l)
    \/ \E s \in Servers : ServerStep(s) \/ ServerFails(s)
    \/ \E l \in Others : OtherAdds(l)

\* Goroutines run, listeners return, and lm.lock is not denied for ever.  A server need not fail.
Fairness ==
    /\ WF_shutdownVars(GroupReturns) /\ WF_shutdownVars(NotifyEnds)
    /\ \A l \in Listeners : WF_shutdownVars(Appended(l)) /\ WF_shutdownVars(Called(l))
    /\ \A s \in Servers : WF_shutdownVars(ServerStep(s))
-----------------------------------------------------------------------------
(* Properties *)

TypeOK ==
    /\ lst \in [Listeners -> {"none", "adding", "added", "running", "called"}]
    /\ srv \in [Servers -> {"none", "start", "add", "serve", "wait", "woken", "returned"}]
    /\ gpc \in {"idle", "add", "started", "returned", "crashed"} /\ notified \in 0 .. MaxNotify
    /\ lock \in BOOLEAN /\ inside \subseteq Listeners \X Others

\* A listener was appended when notifyListeners had taken the others: nobody calls it, and who
\* waits for the wait group waits for it, until the process is killed.
Forgotten == ~lock /\ At("added") # {}

\* A listener that adds a listener waits for the lock, and notifyListeners, which has the lock,
\* waits for the listener.
Entangled(l) == lock /\ lst[l] = "running" /\ Adds(l)

\* A listener that is notified runs to its end, whatever the others do: also when one of them is
\* stuck, only that one is.
ListenersCalled ==
    \A l \in Listeners : lst[l] = "running" ~> lst[l] = "called" \/ Entangled(l) \/ ~Alive

\* Once the listeners are notified the Start of the group returns, also when listeners are added
\* before, during and after that, servers start meanwhile, and a server still waits or was woken
\* when the count rises again.  It does not only when the process ended with a panic, when an added
\* listener is never called, or when one is stuck that adds another.
GroupEnds ==
    []<>(notified = 0 \/ gpc \in {"idle", "returned", "crashed"} \/ Forgotten
         \/ \E l \in Listeners : Entangled(l))
=============================================================================
