---------------------------- MODULE SingleFlight ----------------------------
(***************************************************************************)
(* core/syncx.SingleFlight: concurrent calls with the same key share one   *)
(* execution of fn.  The call objects of a key are numbered as they are    *)
(* created, and the number stands for what fn returned: a call returns the *)
(* number of the object it waited on or created.                           *)
(***************************************************************************)
EXTENDS Naturals

CONSTANTS
    Procs,       \* callers
    Keys,
    MaxFlights   \* bounds the calls of fn for a key

VARIABLES
    calls,       \* g.calls: the object of a key, 0 when there is none
    created,     \* number of objects created for a key
    done,        \* objects whose wg is done, as <<key, number>>
    pc,          \* where each caller is
    key, obj,    \* key and object of a caller's current or last call
    over,        \* history: objects some call has returned
    since        \* history: over when the caller called Do

vars == <<calls, created, done, pc, key, obj, over, since>>

Init ==
    /\ calls = [k \in Keys |-> 0] /\ created = [k \in Keys |-> 0]
    /\ done = {} /\ over = {}
    /\ pc = [p \in Procs |-> "idle"]
    /\ key \in [Procs -> Keys] /\ obj = [p \in Procs |-> 0]
    /\ since = [p \in Procs |-> {}]

Object(p) == <<key[p], obj[p]>>
-----------------------------------------------------------------------------
\* Mutant of Join: the check of calls is missing.
NeverJoin(k) == FALSE

\* if c, ok := g.calls[key]; ok
Join(k) == calls[k] # 0

\* createCall, under g.lock: take the object of the key or create one.  A caller
\* that has returned may call again.
CreateCall(p, k) ==
    /\ pc[p] \in {"idle", "returned"}
    /\ key' = [key EXCEPT ![p] = k]
    /\ since' = [since EXCEPT ![p] = over]
    /\ \/ /\ Join(k)
          /\ pc' = [pc EXCEPT ![p] = "waiting"]
          /\ obj' = [obj EXCEPT ![p] = calls[k]]
          /\ UNCHANGED <<calls, created>>
       \/ /\ ~Join(k) /\ created[k] < MaxFlights
          /\ pc' = [pc EXCEPT ![p] = "fn"]
          /\ obj' = [obj EXCEPT ![p] = created[k] + 1]
          /\ created' = [created EXCEPT ![k] = @ + 1]
          /\ calls' = [calls EXCEPT ![k] = created[k] + 1]
    /\ UNCHANGED <<done, over>>

\* c.wg.Wait() ends and the call returns c.val.
WaitEnds(p) ==
    /\ pc[p] = "waiting" /\ Object(p) \in done
    /\ over' = over \cup {Object(p)}
    /\ pc' = [pc EXCEPT ![p] = "returned"]
    /\ UNCHANGED <<calls, created, done, key, obj, since>>

\* c.val, c.err = fn() ends.  When fn panics the deferred function runs as well
\* and the waiters return the zero values.
FnReturns(p) ==
    /\ pc[p] = "fn"
    /\ pc' = [pc EXCEPT ![p] = "deferred1"]
    /\ UNCHANGED <<calls, created, done, key, obj, over, since>>

\* Mutant of Deferred: the waiters are woken first.
DoneFirst == <<"done", "delete">>

\* The order of the deferred function of makeCall: delete(g.calls, key), unlock,
\* c.wg.Done().
Deferred == <<"delete", "done">>

DeferredDoes(p, n) ==
    /\ pc[p] = (IF n = 1 THEN "deferred1" ELSE "deferred2")
    /\ pc' = [pc EXCEPT ![p] = IF n = 1 THEN "deferred2" ELSE "returned"]
    /\ over' = IF n = 1 THEN over ELSE over \cup {Object(p)}
    /\ \/ /\ Deferred[n] = "delete"
          /\ calls' = [calls EXCEPT ![key[p]] = 0]
          /\ UNCHANGED done
       \/ /\ Deferred[n] = "done"
          /\ done' = done \cup {Object(p)}
          /\ UNCHANGED calls
    /\ UNCHANGED <<created, key, obj, since>>

DeferredStep(p) == \E n \in {1, 2} : DeferredDoes(p, n)

Progress(p) == WaitEnds(p) \/ FnReturns(p) \/ DeferredStep(p)

Next == \E p \in Procs : Progress(p) \/ \E k \in Keys : CreateCall(p, k)

Spec == Init /\ [][Next]_vars

-----------------------------------------------------------------------------
(* Properties *)

TypeOK ==
    /\ calls \in [Keys -> Nat] /\ created \in [Keys -> Nat]
    /\ done \subseteq Keys \X Nat /\ over \subseteq Keys \X Nat
    /\ pc \in [Procs -> {"idle", "fn", "deferred1", "deferred2", "waiting", "returned"}]
    /\ key \in [Procs -> Keys] /\ obj \in [Procs -> Nat]
    /\ since \in [Procs -> SUBSET (Keys \X Nat)]

\* "Then B would not execute F": fn never runs twice at a time for a key.
OneFlight == \A p, q \in Procs : pc[p] = "fn" /\ pc[q] = "fn" /\ key[p] = key[q] => p = q

\* A call never returns what an earlier call had returned before this one began,
\* so a value that is refreshed is seen: the key is deleted from calls before the
\* waiters are woken, and a late caller runs fn again.
NoStaleResult == \A p \in Procs : pc[p] = "returned" => Object(p) \notin since[p]

\* Nobody waits for an object that no caller will complete.
WaitersServed ==
    \A p \in Procs : pc[p] = "waiting" /\ Object(p) \notin done =>
        \E q \in Procs : pc[q] \in {"fn", "deferred1", "deferred2"} /\ Object(q) = Object(p)

=============================================================================
