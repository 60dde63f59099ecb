---------------------------- MODULE LockedCalls ----------------------------
(***************************************************************************)
(* core/syncx.LockedCalls: calls with the same key run one after the       *)
(* other, each with its own fn.  The wait groups of a key are numbered as  *)
(* they are created.                                                       *)
(***************************************************************************)
EXTENDS Naturals

CONSTANTS
    Procs,     \* callers
    Keys,
    MaxCalls   \* bounds the calls of a caller

VARIABLES
    m,         \* lg.m: the wait group of a key, 0 when there is none
    created,   \* number of wait groups created for a key
    done,      \* wait groups that are done, as <<key, number>>
    pc,        \* where each caller is
    key, wg,   \* key of a caller's call, the wait group it waits on or created
    left,      \* calls a caller may still make
    ran        \* history: calls of fn during the current call of a caller

vars == <<m, created, done, pc, key, wg, left, ran>>

Init ==
    /\ m = [k \in Keys |-> 0] /\ created = [k \in Keys |-> 0] /\ done = {}
    /\ pc = [p \in Procs |-> "idle"]
    /\ key = [p \in Procs |-> CHOOSE k \in Keys : TRUE] /\ wg = [p \in Procs |-> 0]
    /\ left = [p \in Procs |-> MaxCalls] /\ ran = [p \in Procs |-> 0]
-----------------------------------------------------------------------------
Do(p, k) ==
    /\ pc[p] \in {"idle", "returned"} /\ left[p] > 0
    /\ left' = [left EXCEPT ![p] = @ - 1]
    /\ key' = [key EXCEPT ![p] = k]
    /\ ran' = [ran EXCEPT ![p] = 0]
    /\ pc' = [pc EXCEPT ![p] = "begin"]
    /\ UNCHANGED <<m, created, done, wg>>

\* begin, under lg.mu: wait for the call under way, or become it.
Begin(p) ==
    LET k == key[p] IN
    /\ pc[p] = "begin"
    /\ \/ /\ m[k] # 0
          /\ wg' = [wg EXCEPT ![p] = m[k]]
          /\ pc' = [pc EXCEPT ![p] = "waiting"]
          /\ UNCHANGED <<m, created>>
       \/ /\ m[k] = 0
          /\ created' = [created EXCEPT ![k] = @ + 1]
          /\ m' = [m EXCEPT ![k] = created[k] + 1]
          /\ wg' = [wg EXCEPT ![p] = created[k] + 1]
          /\ pc' = [pc EXCEPT ![p] = "fn"]
    /\ UNCHANGED <<done, key, left, ran>>

\* Mutant of AfterWait: the woken caller runs fn without looking at m again.
RunAfterWait == "fn"

\* goto begin
AfterWait == "begin"

WaitEnds(p) ==
    /\ pc[p] = "waiting" /\ <<key[p], wg[p]>> \in done
    /\ pc' = [pc EXCEPT ![p] = AfterWait]
    /\ UNCHANGED <<m, created, done, key, wg, left, ran>>

\* return fn(), or a panic of it
FnReturns(p) ==
    /\ pc[p] = "fn"
    /\ ran' = [ran EXCEPT ![p] = @ + 1]
    /\ pc' = [pc EXCEPT ![p] = "deferred"]
    /\ UNCHANGED <<m, created, done, key, wg, left>>

\* The deferred function: delete(lg.m, key) under lg.mu ...
Delete(p) ==
    /\ pc[p] = "deferred"
    /\ m' = [m EXCEPT ![key[p]] = 0]
    /\ pc' = [pc EXCEPT ![p] = "deleted"]
    /\ UNCHANGED <<created, done, key, wg, left, ran>>

\* Mutant of Done: the waiters are not woken.
DoneNothing(p) ==
    /\ pc[p] = "deleted"
    /\ pc' = [pc EXCEPT ![p] = "returned"]
    /\ UNCHANGED <<m, created, done, key, wg, left, ran>>

\* ... and then wg.Done().
Done(p) ==
    /\ pc[p] = "deleted"
    /\ done' = done \cup {<<key[p], wg[p]>>}
    /\ pc' = [pc EXCEPT ![p] = "returned"]
    /\ UNCHANGED <<m, created, key, wg, left, ran>>

Progress(p) == Begin(p) \/ WaitEnds(p) \/ FnReturns(p) \/ Delete(p) \/ Done(p)

Next == \E p \in Procs : Progress(p) \/ \E k \in Keys : Do(p, k)

Spec == Init /\ [][Next]_vars

\* fn returns or panics, and a goroutine that can run does run.
Fairness == \A p \in Procs : WF_vars(Progress(p))
-----------------------------------------------------------------------------
(* Properties *)

TypeOK ==
    /\ m \in [Keys -> Nat] /\ created \in [Keys -> Nat] /\ done \subseteq Keys \X Nat
    /\ pc \in [Procs -> {"idle", "begin", "fn", "deferred", "deleted", "waiting", "returned"}]
    /\ key \in [Procs -> Keys] /\ wg \in [Procs -> Nat]
    /\ left \in [Procs -> 0 .. MaxCalls] /\ ran \in [Procs -> 0 .. 1]

\* "LockedCalls makes sure the calls with the same key to be called sequentially."
Sequential == \A p, q \in Procs : pc[p] = "fn" /\ pc[q] = "fn" /\ key[p] = key[q] => p = q

\* Every call ends, after its own fn ran once, whoever else calls.
EveryCallRuns ==
    \A p \in Procs : []<>(pc[p] = "idle" \/ (pc[p] = "returned" /\ ran[p] = 1))
=============================================================================
