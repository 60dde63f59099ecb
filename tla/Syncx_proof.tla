---------------------------- MODULE Syncx_proof ----------------------------
(***************************************************************************)
(* Proofs about the components of core/syncx for any callers, keys, users  *)
(* and limits: SingleFlight hands a result only to calls that began before *)
(* it was done, LockedCalls runs the calls of a key one after the other, no *)
(* signal of TimeoutLimit is lost but to its gap, the Pool accounts for its *)
(* resources and leaves nobody waiting beside a free one, and the          *)
(* ResourceManager, on top of the invariant of SingleFlight, creates one   *)
(* resource for a key and returns only what it manages.                    *)
(***************************************************************************)
EXTENDS MCSyncx, Sequences, FiniteSetTheorems, TLAPS

-----------------------------------------------------------------------------
(* SingleFlight: the object in calls is owned by exactly one caller that is still before its
   delete (Owned, Owners), an object is not done while its creator is at work (Unfinished,
   Distinct), numbers are fresh (Fresh), and nothing is returned before it is done (OverDone). *)

Owning == {"fn", "deferred1"}
AtWork == {"fn", "deferred1", "deferred2"}

Owners == \A p \in Procs : pc[p] \in Owning => calls[key[p]] = obj[p]
Owned == \A k \in Keys : calls[k] # 0 =>
            \E p \in Procs : pc[p] \in Owning /\ key[p] = k /\ obj[p] = calls[k]
Unfinished == \A p \in Procs : pc[p] \in AtWork => obj[p] # 0 /\ Object(p) \notin done
Distinct == \A p, q \in Procs : pc[p] \in AtWork /\ pc[q] \in AtWork /\ p # q => Object(p) # Object(q)
Fresh ==
    /\ \A p \in Procs : obj[p] <= created[key[p]]
    /\ \A k \in Keys, n \in Nat : <<k, n>> \in done => n <= created[k]
OverDone == over \subseteq done
Unseen == \A p \in Procs : pc[p] # "idle" => Object(p) \notin since[p]

IInv == TypeOK /\ Owners /\ Owned /\ Unfinished /\ Distinct /\ Fresh /\ OverDone /\ Unseen /\ WaitersServed

\* The invariant of SingleFlight holds initially.
LEMMA InitIInv == Init => IInv
BY DEF Init, IInv, TypeOK, Owners, Owned, Unfinished, Distinct, Fresh, OverDone, Unseen, WaitersServed,
       Owning, AtWork

\* A caller that joins takes an object that is not done, so nobody returned it.
LEMMA JoinStep ==
    ASSUME IInv, NEW p \in Procs, NEW k \in Keys, CreateCall(p, k), calls[k] # 0
    PROVE  IInv'
<1>. USE DEF Object
<1>1. /\ key' = [key EXCEPT ![p] = k] /\ since' = [since EXCEPT ![p] = over]
      /\ pc' = [pc EXCEPT ![p] = "waiting"] /\ obj' = [obj EXCEPT ![p] = calls[k]]
      /\ UNCHANGED <<calls, created, done, over>> /\ pc[p] \in {"idle", "returned"}
  BY DEF CreateCall, Join
<1>2. TypeOK'
  BY <1>1 DEF IInv, TypeOK
<1>3. PICK q \in Procs : pc[q] \in Owning /\ key[q] = k /\ obj[q] = calls[k] /\ q # p
  BY <1>1 DEF IInv, Owned, Owning
<1>4. <<k, calls[k]>> \notin done /\ calls[k] <= created[k]
  BY <1>3 DEF IInv, Unfinished, Fresh, Owning, AtWork
<1>5. Owners'
  BY <1>1 DEF IInv, TypeOK, Owners, Owning
<1>6. Owned'
  BY <1>1 DEF IInv, TypeOK, Owned, Owning
<1>7. Unfinished'
  BY <1>1 DEF IInv, TypeOK, Unfinished, AtWork
<1>8. Distinct'
  BY <1>1 DEF IInv, TypeOK, Distinct, AtWork
<1>9. Fresh'
  BY <1>1, <1>4 DEF IInv, TypeOK, Fresh
<1>10. OverDone'
  BY <1>1 DEF IInv, OverDone
<1>11. Unseen'
  BY <1>1, <1>4 DEF IInv, TypeOK, OverDone, Unseen
<1>12. WaitersServed'
  <2> SUFFICES ASSUME NEW r \in Procs, pc'[r] = "waiting", Object(r)' \notin done'
               PROVE  \E s \in Procs : pc'[s] \in AtWork /\ Object(s)' = Object(r)'
    BY DEF WaitersServed, AtWork
  <2>1. CASE r = p
    BY <1>1, <1>3, <2>1 DEF IInv, TypeOK, Owning, AtWork
  <2>2. CASE r # p
    <3>1. PICK s \in Procs : pc[s] \in AtWork /\ Object(s) = Object(r)
      BY <1>1, <2>2 DEF IInv, TypeOK, WaitersServed, AtWork
    <3>2. s # p
      BY <1>1, <3>1 DEF AtWork
    <3>. QED BY <1>1, <2>2, <3>1, <3>2 DEF IInv, TypeOK
  <2>. QED BY <2>1, <2>2
<1>. QED BY <1>2, <1>5, <1>6, <1>7, <1>8, <1>9, <1>10, <1>11, <1>12 DEF IInv

\* A caller that finds no object creates one with a number nobody has seen.
LEMMA CreateStep ==
    ASSUME IInv, NEW p \in Procs, NEW k \in Keys, CreateCall(p, k), calls[k] = 0
    PROVE  IInv'
<1>. USE DEF Object
<1>1. /\ key' = [key EXCEPT ![p] = k] /\ since' = [since EXCEPT ![p] = over]
      /\ pc' = [pc EXCEPT ![p] = "fn"] /\ obj' = [obj EXCEPT ![p] = created[k] + 1]
      /\ created' = [created EXCEPT ![k] = @ + 1]
      /\ calls' = [calls EXCEPT ![k] = created[k] + 1]
      /\ UNCHANGED <<done, over>> /\ pc[p] \in {"idle", "returned"}
  BY DEF CreateCall, Join
<1>2. created[k] \in Nat
  BY DEF IInv, TypeOK
<1>3. TypeOK'
  BY <1>1, <1>2 DEF IInv, TypeOK
<1>4. <<k, created[k] + 1>> \notin done
  BY <1>2 DEF IInv, Fresh
<1>5. \A q \in Procs : pc[q] \in Owning => key[q] # k
  BY DEF IInv, Owners, Unfinished, Owning, AtWork
<1>6. Owners'
  BY <1>1, <1>5 DEF IInv, TypeOK, Owners, Owning
<1>7. Owned'
  <2> SUFFICES ASSUME NEW j \in Keys, calls'[j] # 0
               PROVE  \E q \in Procs : pc'[q] \in Owning /\ key'[q] = j /\ obj'[q] = calls'[j]
    BY DEF Owned
  <2>1. CASE j = k
    BY <1>1, <2>1 DEF IInv, TypeOK, Owning
  <2>2. CASE j # k
    <3>1. PICK q \in Procs : pc[q] \in Owning /\ key[q] = j /\ obj[q] = calls[j]
      BY <1>1, <2>2 DEF IInv, TypeOK, Owned
    <3>2. q # p
      BY <1>1, <3>1 DEF Owning
    <3>. QED BY <1>1, <2>2, <3>1, <3>2 DEF IInv, TypeOK
  <2>. QED BY <2>1, <2>2
<1>8. Unfinished'
  BY <1>1, <1>2, <1>4 DEF IInv, TypeOK, Unfinished, AtWork
<1>9. Distinct'
  <2>1. \A q \in Procs : Object(q) # <<k, created[k] + 1>>
    BY <1>2 DEF IInv, TypeOK, Fresh
  <2>. QED BY <1>1, <2>1 DEF IInv, TypeOK, Distinct, AtWork
<1>10. Fresh'
  BY <1>1, <1>2 DEF IInv, TypeOK, Fresh
<1>11. OverDone'
  BY <1>1 DEF IInv, OverDone
<1>12. Unseen'
  BY <1>1, <1>4 DEF IInv, TypeOK, OverDone, Unseen
<1>13. WaitersServed'
  <2> SUFFICES ASSUME NEW r \in Procs, pc'[r] = "waiting", Object(r)' \notin done'
               PROVE  \E s \in Procs : pc'[s] \in AtWork /\ Object(s)' = Object(r)'
    BY DEF WaitersServed, AtWork
  <2>1. r # p
    BY <1>1 DEF IInv, TypeOK
  <2>2. PICK s \in Procs : pc[s] \in AtWork /\ Object(s) = Object(r)
    BY <1>1, <2>1 DEF IInv, TypeOK, WaitersServed, AtWork
  <2>3. s # p
    BY <1>1, <2>2 DEF AtWork
  <2>. QED BY <1>1, <2>1, <2>2, <2>3 DEF IInv, TypeOK
<1>. QED BY <1>3, <1>6, <1>7, <1>8, <1>9, <1>10, <1>11, <1>12, <1>13 DEF IInv

\* A waiter that is released returns an object that is done.
LEMMA WaitStep ==
    ASSUME IInv, NEW p \in Procs, WaitEnds(p)
    PROVE  IInv'
<1>. USE DEF Object, WaitEnds
<1>1. TypeOK'
  BY DEF IInv, TypeOK
<1>2. Owners' /\ Owned'
  BY DEF IInv, TypeOK, Owners, Owned, Owning
<1>3. Unfinished' /\ Distinct'
  BY DEF IInv, TypeOK, Unfinished, Distinct, AtWork
<1>4. Fresh' /\ OverDone'
  BY DEF IInv, TypeOK, Fresh, OverDone
<1>5. Unseen'
  BY DEF IInv, TypeOK, Unseen
<1>6. WaitersServed'
  BY DEF IInv, TypeOK, WaitersServed
<1>. QED BY <1>1, <1>2, <1>3, <1>4, <1>5, <1>6 DEF IInv

\* fn ends, with or without a panic.
LEMMA FnStep ==
    ASSUME IInv, NEW p \in Procs, FnReturns(p)
    PROVE  IInv'
<1>. USE DEF Object, FnReturns
<1>1. TypeOK'
  BY DEF IInv, TypeOK
<1>2. Owners' /\ Owned'
  BY DEF IInv, TypeOK, Owners, Owned, Owning
<1>3. Unfinished' /\ Distinct'
  BY DEF IInv, TypeOK, Unfinished, Distinct, AtWork
<1>4. Fresh' /\ OverDone'
  BY DEF IInv, TypeOK, Fresh, OverDone
<1>5. Unseen'
  BY DEF IInv, TypeOK, Unseen
<1>6. WaitersServed'
  BY DEF IInv, TypeOK, WaitersServed
<1>. QED BY <1>1, <1>2, <1>3, <1>4, <1>5, <1>6 DEF IInv

\* delete(g.calls, key): the creator no longer owns the key, nothing is done yet.
LEMMA DeleteStep ==
    ASSUME IInv, NEW p \in Procs, DeferredStep(p), pc[p] = "deferred1"
    PROVE  IInv'
<1>. USE DEF Object
<1>1. /\ pc' = [pc EXCEPT ![p] = "deferred2"] /\ calls' = [calls EXCEPT ![key[p]] = 0]
      /\ UNCHANGED <<created, done, over, key, obj, since>>
  <2>1. Deferred[1] = "delete"
    BY DEF Deferred
  <2>2. PICK n \in {1, 2} : DeferredDoes(p, n)
    BY DEF DeferredStep, DeferredDoes
  <2>3. n = 1
    BY <2>2 DEF DeferredDoes
  <2>. QED BY <2>1, <2>2, <2>3 DEF DeferredStep, DeferredDoes
<1>2. TypeOK'
  BY <1>1 DEF IInv, TypeOK
<1>3. \A q \in Procs : q # p /\ pc[q] \in Owning => key[q] # key[p]
  BY DEF IInv, Owners, Distinct, Owning, AtWork
<1>4. Owners'
  BY <1>1, <1>3 DEF IInv, TypeOK, Owners, Owning
<1>5. Owned'
  BY <1>1 DEF IInv, TypeOK, Owned, Owning
<1>6. Unfinished' /\ Distinct'
  BY <1>1 DEF IInv, TypeOK, Unfinished, Distinct, AtWork
<1>7. Fresh' /\ OverDone'
  BY <1>1 DEF IInv, TypeOK, Fresh, OverDone
<1>8. Unseen'
  BY <1>1 DEF IInv, TypeOK, Unseen
<1>9. WaitersServed'
  BY <1>1 DEF IInv, TypeOK, WaitersServed
<1>. QED BY <1>2, <1>4, <1>5, <1>6, <1>7, <1>8, <1>9 DEF IInv

\* c.wg.Done(): the object is done and the creator returns it.
LEMMA DoneStep ==
    ASSUME IInv, NEW p \in Procs, DeferredStep(p), pc[p] = "deferred2"
    PROVE  IInv'
<1>. USE DEF Object
<1>1. /\ pc' = [pc EXCEPT ![p] = "returned"]
      /\ done' = done \cup {Object(p)} /\ over' = over \cup {Object(p)}
      /\ UNCHANGED <<calls, created, key, obj, since>>
  <2>1. Deferred[2] = "done"
    BY DEF Deferred
  <2>2. PICK n \in {1, 2} : DeferredDoes(p, n)
    BY DEF DeferredStep, DeferredDoes
  <2>3. n = 2
    BY <2>2 DEF DeferredDoes
  <2>. QED BY <2>1, <2>2, <2>3 DEF DeferredStep, DeferredDoes
<1>2. TypeOK'
  BY <1>1 DEF IInv, TypeOK
<1>3. Owners' /\ Owned'
  BY <1>1 DEF IInv, TypeOK, Owners, Owned, Owning
<1>4. Unfinished'
  BY <1>1 DEF IInv, TypeOK, Unfinished, Distinct, AtWork
<1>5. Distinct'
  BY <1>1 DEF IInv, TypeOK, Distinct, AtWork
<1>6. Fresh' /\ OverDone'
  BY <1>1 DEF IInv, TypeOK, Fresh, OverDone
<1>7. Unseen'
  BY <1>1 DEF IInv, TypeOK, Unseen
<1>8. WaitersServed'
  BY <1>1 DEF IInv, TypeOK, WaitersServed
<1>. QED BY <1>2, <1>3, <1>4, <1>5, <1>6, <1>7, <1>8 DEF IInv

\* Every step keeps the invariant.
LEMMA NextIInv == IInv /\ [Next]_vars => IInv'
<1> SUFFICES ASSUME IInv, [Next]_vars PROVE IInv'
  OBVIOUS
<1>1. CASE \E p \in Procs, k \in Keys : CreateCall(p, k)
  BY <1>1, JoinStep, CreateStep
<1>2. CASE \E p \in Procs : WaitEnds(p)
  BY <1>2, WaitStep
<1>3. CASE \E p \in Procs : FnReturns(p)
  BY <1>3, FnStep
<1>4. CASE \E p \in Procs : DeferredStep(p)
  <2>1. PICK p \in Procs : DeferredStep(p)
    BY <1>4
  <2>2. pc[p] = "deferred1" \/ pc[p] = "deferred2"
    BY <2>1 DEF DeferredStep, DeferredDoes
  <2>. QED BY <2>1, <2>2, DeleteStep, DoneStep
<1>5. CASE UNCHANGED vars
  BY <1>5 DEF vars, IInv, TypeOK, Owners, Owned, Unfinished, Distinct, Fresh, OverDone, Unseen,
              WaitersServed, Object
<1>. QED BY <1>1, <1>2, <1>3, <1>4, <1>5 DEF Next, Progress

\* The invariant of SingleFlight holds in every reachable state.
THEOREM Invariant == Spec => []IInv
BY InitIInv, NextIInv, PTL DEF Spec

\* Type correctness.
THEOREM TypeCorrect == Spec => []TypeOK
<1>1. IInv => TypeOK
  BY DEF IInv
<1>. QED BY <1>1, Invariant, PTL

\* fn never runs twice at a time for a key.
THEOREM AtMostOneFlight == Spec => []OneFlight
<1>1. IInv => OneFlight
  BY DEF IInv, OneFlight, Owners, Distinct, Owning, AtWork, Object
<1>. QED BY <1>1, Invariant, PTL

\* No call returns what was handed out before it began.
THEOREM ResultsAreNew == Spec => []NoStaleResult
<1>1. IInv => NoStaleResult
  BY DEF IInv, NoStaleResult, Unseen
<1>. QED BY <1>1, Invariant, PTL

\* Whoever waits has somebody at work to wake it.
THEOREM WaitersAreServed == Spec => []WaitersServed
<1>1. IInv => WaitersServed
  BY DEF IInv
<1>. QED BY <1>1, Invariant, PTL

-----------------------------------------------------------------------------
(* LockedCalls: a caller that runs fn has its wait group in m until it deletes it, so that
   nobody else finds the key free. *)

Running == {"fn", "deferred"}

LockTypes ==
    /\ m \in [LockKeys -> Nat] /\ groups \in [LockKeys -> Nat]
    /\ lpc \in [Procs -> {"idle", "begin", "fn", "deferred", "deleted", "waiting", "returned"}]
    /\ DOMAIN lkey = Procs /\ \A p \in Procs : lpc[p] # "idle" => lkey[p] \in LockKeys

Held == \A p \in Procs : lpc[p] \in Running => m[lkey[p]] # 0

OneRunning ==
    \A p, q \in Procs : lpc[p] \in Running /\ lpc[q] \in Running /\ lkey[p] = lkey[q] => p = q

LockInv == LockTypes /\ Held /\ OneRunning

\* The invariant holds initially.
LEMMA LockInit == LC!Init => LockInv
  BY DEF LC!Init, LockInv, LockTypes, Held, OneRunning, Running

\* Every step preserves the invariant.
LEMMA LockNext == LockInv /\ [LC!Next]_locked => LockInv'
<1> SUFFICES ASSUME LockInv, [LC!Next]_locked PROVE LockInv'
  OBVIOUS
<1> USE DEF LockInv, LockTypes, Held, OneRunning, Running
<1>1. ASSUME NEW p \in Procs, NEW k \in LockKeys, LC!Do(p, k) PROVE LockInv'
  BY <1>1 DEF LC!Do
<1>2. ASSUME NEW p \in Procs, LC!Begin(p) PROVE LockInv'
  BY <1>2 DEF LC!Begin
<1>3. ASSUME NEW p \in Procs, LC!WaitEnds(p) PROVE LockInv'
  BY <1>3 DEF LC!WaitEnds, LC!AfterWait
<1>4. ASSUME NEW p \in Procs, LC!FnReturns(p) PROVE LockInv'
  BY <1>4 DEF LC!FnReturns
<1>5. ASSUME NEW p \in Procs, LC!Delete(p) PROVE LockInv'
  BY <1>5 DEF LC!Delete
<1>6. ASSUME NEW p \in Procs, LC!Done(p) PROVE LockInv'
  BY <1>6 DEF LC!Done
<1>7. CASE UNCHANGED locked
  BY <1>7 DEF locked
<1> QED
  BY <1>1, <1>2, <1>3, <1>4, <1>5, <1>6, <1>7 DEF LC!Next, LC!Progress

\* The invariant implies the property.
LEMMA LockSafe == LockInv => Sequential
  BY DEF LockInv, OneRunning, Sequential, LC!Sequential, Running

\* The calls of a key run one after the other.
THEOREM CallsAreSequential == LC!Init /\ [][LC!Next]_locked => []Sequential
  BY LockSafe, LockInit, LockNext, PTL

-----------------------------------------------------------------------------
(* Counting *)

\* The components count with the Cardinality of their own instance of FiniteSets.
LEMMA SameCount ==
    \A S : TL!Cardinality(S) = Cardinality(S) /\ PL!Cardinality(S) = Cardinality(S)
  BY Zenon DEF TL!Cardinality, PL!Cardinality, Cardinality

\* What happens to the size of a finite set when an element comes or goes.
LEMMA Counting ==
    ASSUME NEW S, IsFiniteSet(S)
    PROVE  /\ Cardinality(S) \in Nat
           /\ Cardinality(S) = 0 <=> S = {}
           /\ \A x : x \notin S => Cardinality(S \cup {x}) = Cardinality(S) + 1
           /\ \A x : x \in S => Cardinality(S \ {x}) = Cardinality(S) - 1
  BY FS_CardinalityType, FS_EmptySet, FS_AddElement, FS_RemoveElement

\* An element goes that may not have been there; one goes and another comes.
LEMMA Exchange ==
    ASSUME NEW S, IsFiniteSet(S), NEW p
    PROVE  /\ Cardinality(S \ {p}) \in Nat /\ Cardinality(S \ {p}) >= Cardinality(S) - 1
           /\ \A q : p \in S /\ q \notin S => Cardinality((S \ {p}) \cup {q}) = Cardinality(S)
<1> DEFINE T == S \ {p}
<1>1. IsFiniteSet(T)
  BY FS_Subset
<1>2. Cardinality(T) \in Nat /\ Cardinality(S) \in Nat
  BY <1>1, Counting
<1>3. p \notin S => T = S
  OBVIOUS
<1>4. Cardinality(T) = Cardinality(S) - 1 \/ Cardinality(T) = Cardinality(S)
  BY <1>3, Counting
<1>5. ASSUME NEW q, p \in S, q \notin S PROVE Cardinality(T \cup {q}) = Cardinality(S)
  <2>1. Cardinality(T \cup {q}) = Cardinality(T) + 1
    BY <1>1, <1>5, Counting
  <2>2. Cardinality(T) = Cardinality(S) - 1
    BY <1>5, Counting
  <2> QED BY <1>2, <2>1, <2>2
<1> QED BY <1>2, <1>4, <1>5

-----------------------------------------------------------------------------
(* TimeoutLimit *)

Waking == TL!At("signal") \cup TL!At("woken")

\* WaitsForToken in the form that is inductive: a borrower in the gap before its wait counts
\* as one who waits.
GapCounts ==
    \/ TL!At("enter") \cup TL!At("wait") \subseteq missed
    \/ Limit - borrowed <= Cardinality(Waking)

LimitInv == TL!TypeOK /\ borrowed = Cardinality(TL!At("has")) /\ GapCounts

\* The sets that are counted are finite.
LEMMA LimitFinite == IsFiniteSet(Waking) /\ \A s : IsFiniteSet(TL!At(s))
<1>1. Waking \subseteq Users /\ \A s : TL!At(s) \subseteq Users
  BY DEF Waking, TL!At
<1> QED
  BY <1>1, SyncxAssumption, FS_Subset DEF SyncxAssumption

\* The invariant holds initially.
LEMMA LimitInit == TL!Init => LimitInv
<1> SUFFICES ASSUME TL!Init PROVE LimitInv
  OBVIOUS
<1>1. \A s : s # "idle" => TL!At(s) = {}
  BY DEF TL!Init, TL!At
<1>2. Cardinality(TL!At("has")) = 0
  BY <1>1, FS_EmptySet
<1> QED
  BY <1>1, <1>2, SyncxAssumption DEF SyncxAssumption, TL!Init, LimitInv, TL!TypeOK, GapCounts

\* Every step preserves the invariant.
LEMMA LimitNext == LimitInv /\ [TL!Next]_limit => LimitInv'
<1> SUFFICES ASSUME LimitInv, [TL!Next]_limit PROVE LimitInv'
  OBVIOUS
<1> USE SyncxAssumption DEF SyncxAssumption, LimitInv
<1>0. /\ Cardinality(TL!At("has")) \in Nat /\ Cardinality(Waking) \in Nat
      /\ IsFiniteSet(TL!At("has")) /\ IsFiniteSet(Waking)
  BY LimitFinite, Counting
<1>1. ASSUME NEW p \in Users, TL!Borrow(p), borrowed < Limit PROVE LimitInv'
  <2>1. /\ bpc[p] \in {"idle", "woken"} /\ borrowed' = borrowed + 1
        /\ bpc' = [bpc EXCEPT ![p] = "has"] /\ missed' = missed \ {p}
    BY <1>1 DEF TL!Borrow, TL!Go, TL!TypeOK
  <2>2. TL!TypeOK'
    BY <2>1, <1>1 DEF TL!TypeOK
  <2>3. TL!At("has")' = TL!At("has") \cup {p} /\ p \notin TL!At("has")
    BY <2>1 DEF TL!At, TL!TypeOK
  <2>4. Waking' = Waking \ {p}
    BY <2>1 DEF Waking, TL!At, TL!TypeOK
  <2>5. Cardinality(Waking') >= Cardinality(Waking) - 1 /\ Cardinality(Waking') \in Nat
    BY <2>4, <1>0, Exchange
  <2>6. (TL!At("enter") \cup TL!At("wait"))' = TL!At("enter") \cup TL!At("wait")
        /\ p \notin TL!At("enter") \cup TL!At("wait")
    BY <2>1 DEF TL!At, TL!TypeOK
  <2>7. GapCounts'
    BY <2>1, <2>5, <2>6, <1>0 DEF GapCounts, TL!TypeOK
  <2> QED BY <2>1, <2>2, <2>3, <2>7, <1>0, Counting
<1>2. ASSUME NEW p \in Users, TL!Borrow(p), ~(borrowed < Limit) PROVE LimitInv'
  <2>1. /\ bpc[p] \in {"idle", "woken"} /\ borrowed' = borrowed /\ borrowed = Limit
        /\ \/ bpc' = [bpc EXCEPT ![p] = "enter"] /\ missed' = missed
           \/ bpc' = [bpc EXCEPT ![p] = "idle"] /\ missed' = missed \ {p}
    BY <1>2 DEF TL!Borrow, TL!Go, TL!TypeOK
  <2>2. TL!TypeOK'
    BY <2>1, <1>2 DEF TL!TypeOK
  <2>3. TL!At("has")' = TL!At("has")
    BY <2>1 DEF TL!At, TL!TypeOK
  <2>4. Cardinality(Waking') \in Nat
    <3>1. Waking' \subseteq Waking
      BY <2>1 DEF Waking, TL!At, TL!TypeOK
    <3> QED BY <3>1, <1>0, FS_Subset, FS_CardinalityType
  <2>5. GapCounts'
    BY <2>1, <2>4 DEF GapCounts
  <2> QED BY <2>1, <2>2, <2>3, <2>5
<1>3. ASSUME NEW p \in Users, TL!WaitWithTimeout(p) \/ TL!Timeout(p) PROVE LimitInv'
  <2>1. /\ bpc[p] \in {"enter", "wait"} /\ borrowed' = borrowed
        /\ \/ bpc' = [bpc EXCEPT ![p] = "wait"] /\ missed' = missed
           \/ bpc' = [bpc EXCEPT ![p] = "idle"] /\ missed' = missed \ {p}
    BY <1>3 DEF TL!WaitWithTimeout, TL!Timeout, TL!Go
  <2>2. TL!TypeOK'
    BY <2>1 DEF TL!TypeOK
  <2>3. TL!At("has")' = TL!At("has") /\ Waking' = Waking
    BY <2>1 DEF TL!At, TL!TypeOK, Waking
  <2>4. TL!At("enter") \cup TL!At("wait") \subseteq missed
        => TL!At("enter")' \cup TL!At("wait")' \subseteq missed'
    BY <2>1 DEF TL!At, TL!TypeOK
  <2>5. GapCounts'
    BY <2>1, <2>3, <2>4 DEF GapCounts
  <2> QED BY <2>1, <2>2, <2>3, <2>5
<1>4. ASSUME NEW p \in Users, TL!Return(p) PROVE LimitInv'
  <2>1. /\ bpc[p] = "has" /\ borrowed' = borrowed - 1
        /\ bpc' = [bpc EXCEPT ![p] = "signal"] /\ missed' = missed
    BY <1>4 DEF TL!Return, TL!Go
  <2>2. TL!At("has")' = TL!At("has") \ {p} /\ p \in TL!At("has")
    BY <2>1 DEF TL!At, TL!TypeOK
  <2>3. Cardinality(TL!At("has")') = Cardinality(TL!At("has")) - 1 /\ Cardinality(TL!At("has")) # 0
    BY <2>2, <1>0, Counting
  <2>4. TL!TypeOK'
    BY <2>1, <2>3, <1>0 DEF TL!TypeOK
  <2>5. Waking' = Waking \cup {p} /\ p \notin Waking
    BY <2>1 DEF TL!At, TL!TypeOK, Waking
  <2>6. Cardinality(Waking') = Cardinality(Waking) + 1
    BY <2>5, <1>0, Counting
  <2>7. TL!At("enter")' \cup TL!At("wait")' = TL!At("enter") \cup TL!At("wait")
    BY <2>1 DEF TL!At, TL!TypeOK
  <2>8. GapCounts'
    BY <2>1, <2>6, <2>7, <1>0 DEF GapCounts, TL!TypeOK
  <2> QED BY <2>1, <2>3, <2>4, <2>8
<1>5. ASSUME NEW p \in Users, TL!Signal(p), TL!At("wait") = {} PROVE LimitInv'
  <2>1. /\ bpc[p] = "signal" /\ borrowed' = borrowed
        /\ bpc' = [bpc EXCEPT ![p] = "idle"] /\ missed' = missed \cup TL!At("enter")
    BY <1>5 DEF TL!Signal
  <2>2. TL!TypeOK'
    BY <2>1 DEF TL!TypeOK, TL!At
  <2>3. TL!At("has")' = TL!At("has") /\ TL!At("enter")' = TL!At("enter") /\ TL!At("wait")' = {}
    BY <2>1, <1>5 DEF TL!At, TL!TypeOK
  <2> QED BY <2>1, <2>2, <2>3 DEF GapCounts
<1>6. ASSUME NEW p \in Users, TL!Signal(p), TL!At("wait") # {} PROVE LimitInv'
  <2>1. PICK q \in TL!At("wait") : bpc' = [bpc EXCEPT ![p] = "idle", ![q] = "woken"]
    BY <1>6 DEF TL!Signal
  <2>2. /\ bpc[p] = "signal" /\ borrowed' = borrowed /\ missed' = missed
        /\ q \in Users /\ q # p /\ bpc[q] = "wait"
    BY <1>6, <2>1 DEF TL!Signal, TL!At
  <2>3. TL!TypeOK'
    BY <2>1, <2>2 DEF TL!TypeOK
  <2>4. /\ TL!At("has")' = TL!At("has")
        /\ TL!At("enter")' \cup TL!At("wait")' \subseteq TL!At("enter") \cup TL!At("wait")
    BY <2>1, <2>2 DEF TL!At, TL!TypeOK
  <2>5. Waking' = (Waking \ {p}) \cup {q} /\ p \in Waking /\ q \notin Waking
    BY <2>1, <2>2 DEF TL!At, TL!TypeOK, Waking
  <2>6. Cardinality(Waking') = Cardinality(Waking)
    BY <2>5, <1>0, Exchange
  <2>7. GapCounts'
    BY <2>2, <2>4, <2>6 DEF GapCounts
  <2> QED BY <2>2, <2>3, <2>4, <2>7
<1>7. CASE UNCHANGED limit
  BY <1>7 DEF limit, TL!TypeOK, GapCounts, Waking, TL!At
<1> QED
  BY <1>1, <1>2, <1>3, <1>4, <1>5, <1>6, <1>7 DEF TL!Next

\* The invariant implies the property.
LEMMA LimitSafe == LimitInv => WaitsForToken
  BY SameCount DEF LimitInv, GapCounts, WaitsForToken, TL!WaitsForToken, Waking

\* A Borrow that missed no signal waits only while every free token has somebody who is about
\* to signal or was woken.
THEOREM NoSignalIsLost == TL!Init /\ [][TL!Next]_limit => []WaitsForToken
  BY LimitSafe, LimitInit, LimitNext, PTL

-----------------------------------------------------------------------------
(* Pool *)

Has == PL!In("has")
Waits == PL!In("waits")
Woken == PL!In("woken")

PoolTypes ==
    /\ count \in Nat /\ fresh \in Nat /\ old \in Nat /\ leaked \in Nat /\ dropped \in Nat
    /\ upc \in [Users -> {"idle", "has", "waits", "woken"}]
PoolCounts == count = Cardinality(Has) + fresh + old + leaked /\ count <= Limit
PoolWakes == Waits # {} => (Limit - count) + fresh + old <= Cardinality(Woken) + dropped

PoolInv == PoolTypes /\ PoolCounts /\ PoolWakes

\* The sets that are counted are finite.
LEMMA PoolFinite ==
    /\ IsFiniteSet(Has) /\ IsFiniteSet(Woken)
    /\ Cardinality(Has) \in Nat /\ Cardinality(Woken) \in Nat
<1>1. Has \subseteq Users /\ Woken \subseteq Users
  BY DEF Has, Woken, PL!In
<1> QED
  BY <1>1, SyncxAssumption, FS_Subset, Counting DEF SyncxAssumption

\* The invariant holds initially.
LEMMA PoolInit == PL!Init => PoolInv
<1> SUFFICES ASSUME PL!Init PROVE PoolInv
  OBVIOUS
<1>1. Has = {} /\ Waits = {}
  BY DEF PL!Init, PL!In, Has, Waits
<1>2. Cardinality(Has) = 0
  BY <1>1, FS_EmptySet
<1> QED
  BY <1>1, <1>2, SyncxAssumption DEF SyncxAssumption, PL!Init, PoolInv, PoolTypes, PoolCounts, PoolWakes

\* A Get that finds an idle resource, creates one (or panics), or waits.
LEMMA PoolGet ==
    ASSUME PoolInv, NEW u \in Users, PL!Get(u) PROVE PoolInv'
<1> USE SyncxAssumption, PoolFinite DEF SyncxAssumption, PoolInv, PoolTypes
<1>0. upc[u] \in {"idle", "woken"} /\ u \notin Has
  BY DEF PL!Get, PL!In, Has
<1>1. CASE fresh > 0
  <2>1. fresh' = fresh - 1 /\ upc' = [upc EXCEPT ![u] = "has"] /\ UNCHANGED <<count, old, leaked, dropped>>
    BY <1>1 DEF PL!Get, PL!To
  <2>2. Has' = Has \cup {u} /\ Waits' = Waits /\ Woken' = Woken \ {u}
    BY <2>1, <1>0 DEF PL!In, Has, Waits, Woken
  <2>3. Cardinality(Has') = Cardinality(Has) + 1
    BY <2>2, <1>0, Counting
  <2>4. Cardinality(Woken') >= Cardinality(Woken) - 1 /\ Cardinality(Woken') \in Nat
    BY <2>2, Exchange
  <2>5. PoolTypes'
    BY <1>1, <2>1
  <2>6. PoolCounts'
    BY <2>1, <2>3 DEF PoolCounts
  <2>7. PoolWakes'
    BY <2>1, <2>2, <2>4 DEF PoolWakes
  <2> QED BY <2>5, <2>6, <2>7
<1>2. CASE /\ fresh = 0 /\ PL!Left < Limit
           /\ count' = PL!Left + 1 /\ old' = 0 /\ UNCHANGED <<fresh, dropped>>
           /\ \/ PL!To(u, "has") /\ UNCHANGED leaked
              \/ PL!To(u, "idle") /\ leaked' = leaked + 1
  <2>1. /\ count' = count - old + 1 /\ old' = 0 /\ fresh' = 0 /\ dropped' = dropped
        /\ \/ upc' = [upc EXCEPT ![u] = "has"] /\ leaked' = leaked
           \/ upc' = [upc EXCEPT ![u] = "idle"] /\ leaked' = leaked + 1
    BY <1>2 DEF PL!To, PL!Left
  <2>2. Waits' = Waits /\ Woken' = Woken \ {u}
    BY <2>1, <1>0 DEF PL!In, Waits, Woken
  <2>3. \/ Has' = Has \cup {u} /\ leaked' = leaked
        \/ Has' = Has /\ leaked' = leaked + 1
    BY <2>1, <1>0 DEF PL!In, Has
  <2>4. Cardinality(Has') + leaked' = Cardinality(Has) + leaked + 1
    BY <2>3, <1>0, Counting
  <2>5. Cardinality(Woken') >= Cardinality(Woken) - 1 /\ Cardinality(Woken') \in Nat
    BY <2>2, Exchange
  <2>6. PoolTypes'
    BY <2>1 DEF PoolCounts
  <2>7. Cardinality(Has') \in Nat
    BY <2>3, <1>0, Counting
  <2>8. PoolCounts'
    BY <1>2, <2>1, <2>4, <2>6, <2>7 DEF PoolCounts, PL!Left
  <2>9. PoolWakes'
    BY <1>2, <2>1, <2>2, <2>5 DEF PoolWakes
  <2> QED BY <2>6, <2>8, <2>9
<1>3. CASE fresh = 0 /\ PL!Left >= Limit /\ PL!To(u, "waits") /\ dropped' = 0
           /\ UNCHANGED <<count, fresh, old, leaked>>
  <2>1. upc' = [upc EXCEPT ![u] = "waits"] /\ UNCHANGED <<count, fresh, old, leaked>> /\ dropped' = 0
    BY <1>3 DEF PL!To
  <2>2. Has' = Has /\ Woken' = Woken \ {u}
    BY <2>1, <1>0 DEF PL!In, Has, Woken
  <2>3. (Limit - count) + fresh + old = 0
    <3>1. count - old >= Limit /\ count <= Limit
      BY <1>3 DEF PoolCounts, PL!Left
    <3>2. old = 0 /\ count = Limit
      BY <3>1
    <3> QED BY <3>2, <1>3
  <2>4. Cardinality(Woken') \in Nat
    BY <2>2, Exchange
  <2>5. PoolTypes' /\ PoolCounts'
    BY <2>1, <2>2 DEF PoolCounts
  <2>6. PoolWakes'
    BY <2>1, <2>3, <2>4 DEF PoolWakes
  <2> QED BY <2>5, <2>6
<1>4. ASSUME NEW n \in 1 .. old, fresh = 0, old' = old - n, count' = count - n, PL!To(u, "idle"),
             dropped' = dropped + (IF upc[u] = "woken" THEN 1 ELSE 0), UNCHANGED <<fresh, leaked>>
      PROVE  PoolInv'
  <2>1. upc' = [upc EXCEPT ![u] = "idle"]
    BY <1>4 DEF PL!To
  <2>2. Has' = Has /\ Waits' = Waits /\ Woken' = Woken \ {u}
    BY <2>1, <1>0 DEF PL!In, Has, Waits, Woken
  <2>3. Cardinality(Woken') >= Cardinality(Woken) - 1 /\ Cardinality(Woken') \in Nat
    BY <2>2, Exchange
  <2>4. upc[u] # "woken" => Woken' = Woken
    BY <2>2 DEF PL!In, Woken
  <2>5. Cardinality(Woken') + dropped' >= Cardinality(Woken) + dropped /\ dropped' \in Nat
    BY <1>4, <2>3, <2>4
  <2>6. PoolTypes' /\ PoolCounts'
    BY <1>4, <2>1, <2>2 DEF PoolCounts
  <2>7. PoolWakes'
    BY <1>4, <2>2, <2>3, <2>5, <2>6 DEF PoolWakes
  <2> QED BY <2>6, <2>7
<1> QED
  BY <1>1, <1>2, <1>3, <1>4 DEF PL!Get

\* A Put wakes one who waits for the resource it brings; Put(nil) brings none.
LEMMA PoolPut ==
    ASSUME PoolInv, NEW u \in Users, PL!Put(u) PROVE PoolInv'
<1> USE SyncxAssumption, PoolFinite DEF SyncxAssumption, PoolInv, PoolTypes
<1>0. upc[u] = "has" /\ u \in Has /\ count' = count /\ old' = old /\ dropped' = dropped
  BY DEF PL!Put, PL!In, Has
<1>1. CASE PL!Signal(u) /\ Waits = {} /\ fresh' = fresh + 1 /\ leaked' = leaked
  <2>1. upc' = [upc EXCEPT ![u] = "idle"]
    BY <1>1 DEF PL!Signal, PL!To, Waits
  <2>2. Has' = Has \ {u} /\ Waits' = {}
    BY <2>1, <1>0, <1>1 DEF PL!In, Has, Waits
  <2>3. Cardinality(Has') = Cardinality(Has) - 1
    BY <2>2, <1>0, Counting
  <2> QED BY <1>0, <1>1, <2>1, <2>2, <2>3 DEF PoolCounts, PoolWakes
<1>2. CASE PL!Signal(u) /\ Waits # {} /\ fresh' = fresh + 1 /\ leaked' = leaked
  <2>1. PICK w \in Waits : upc' = [upc EXCEPT ![u] = "idle", ![w] = "woken"]
    BY <1>2 DEF PL!Signal, PL!To, Waits
  <2>2. w \in Users /\ upc[w] = "waits" /\ w # u
    BY <2>1, <1>0 DEF Waits, PL!In
  <2>3. Has' = Has \ {u} /\ Waits' = Waits \ {w} /\ Woken' = Woken \cup {w} /\ w \notin Woken
    BY <2>1, <2>2, <1>0 DEF PL!In, Has, Waits, Woken
  <2>4. Cardinality(Has') = Cardinality(Has) - 1
    BY <2>3, <1>0, Counting
  <2>5. Cardinality(Woken') = Cardinality(Woken) + 1
    BY <2>3, Counting
  <2>6. PoolTypes' /\ PoolCounts'
    BY <1>0, <1>2, <2>1, <2>2, <2>4 DEF PoolCounts
  <2>7. PoolWakes'
    BY <1>0, <1>2, <2>5 DEF PoolWakes
  <2> QED BY <2>6, <2>7
<1>3. CASE PL!To(u, "idle") /\ leaked' = leaked + 1 /\ fresh' = fresh
  <2>1. upc' = [upc EXCEPT ![u] = "idle"]
    BY <1>3 DEF PL!To
  <2>2. Has' = Has \ {u} /\ Waits' = Waits /\ Woken' = Woken
    BY <2>1, <1>0 DEF PL!In, Has, Waits, Woken
  <2>3. Cardinality(Has') = Cardinality(Has) - 1
    BY <2>2, <1>0, Counting
  <2> QED BY <1>0, <1>3, <2>1, <2>2, <2>3 DEF PoolCounts, PoolWakes
<1> QED
  BY <1>1, <1>2, <1>3 DEF PL!Put

\* Every step preserves the invariant.
LEMMA PoolNext == PoolInv /\ [PL!Next]_pool => PoolInv'
<1> SUFFICES ASSUME PoolInv, [PL!Next]_pool PROVE PoolInv'
  OBVIOUS
<1>1. ASSUME NEW n \in 1 .. Limit, PL!Age(n) PROVE PoolInv'
  <2>1. Has' = Has /\ Waits' = Waits /\ Woken' = Woken
    BY <1>1 DEF PL!Age, Has, Waits, Woken, PL!In
  <2> QED
    BY <1>1, <2>1, SyncxAssumption, PoolFinite
       DEF SyncxAssumption, PL!Age, PoolInv, PoolTypes, PoolCounts, PoolWakes
<1>2. CASE UNCHANGED pool
  BY <1>2 DEF pool, PoolInv, PoolTypes, PoolCounts, PoolWakes, Has, Waits, Woken, PL!In
<1> QED
  BY <1>1, <1>2, PoolGet, PoolPut DEF PL!Next

\* The invariant implies the property.
LEMMA PoolSafe == PoolInv => PoolServes
  BY SameCount DEF PoolInv, PoolCounts, PoolWakes, PoolServes, PL!Accounted, PL!WaitsForSlot, Has, Waits,
     Woken

\* Never more than Limit resources exist and each is accounted for; nobody waits while a
\* resource or a slot is free and nobody was woken for it.
THEOREM PoolIsServed == PL!Init /\ [][PL!Next]_pool => []PoolServes
  BY PoolSafe, PoolInit, PoolNext, PTL

-----------------------------------------------------------------------------
(* ResourceManager *)

Made == [key : Keys, by : {"create", "inject"}]

ManagerTypes ==
    /\ stage \in [Procs -> {"none", "check", "create", "store", "out"}]
    /\ local \in [Procs -> Nat] /\ vals \in [Keys \X (1 .. MaxFlights) -> Nat]
    /\ resources \in [Keys -> Nat] /\ closed \in BOOLEAN /\ made \in Seq(Made)

\* The closure runs inside fn, and a call has an object whose value can be recorded.
Inside ==
    /\ \A p \in Procs : stage[p] # "none" <=> pc[p] = "fn"
    /\ \A p \in Procs : pc[p] # "idle" => obj[p] >= 1
    /\ \A k \in Keys : created[k] <= MaxFlights

\* Resource r came into being for key k.
Born(r, k, by) == r \in DOMAIN made /\ made[r] = [key |-> k, by |-> by]

\* Where a resource in a closure or in the map comes from.
Origin ==
    /\ \A p \in Procs : stage[p] = "store" => Born(local[p], key[p], "create")
    /\ \A k \in Keys : resources[k] # 0 =>
          Born(resources[k], k, "create") \/ Born(resources[k], k, "inject")

\* A resource is created once, who is about to create is the first, and what was created is
\* in the map or on its way there.
Once == ~closed =>
    /\ \A k \in Keys, r, s \in Nat : Born(r, k, "create") /\ Born(s, k, "create") => r = s
    /\ \A p \in Procs, r \in Nat : stage[p] = "create" => ~Born(r, key[p], "create")
    /\ \A k \in Keys, r \in Nat : Born(r, k, "create") =>
          resources[k] # 0 \/ \E p \in Procs : stage[p] = "store" /\ key[p] = k

Managed(k, r) == resources[k] = r \/ r \in shut \/ \E i \in Nat : Born(i, k, "inject")

\* What a flight has recorded, or is about to, is managed.
Results ==
    /\ \A k \in Keys, n \in 1 .. MaxFlights : vals[<<k, n>>] # 0 => Managed(k, vals[<<k, n>>])
    /\ \A p \in Procs : stage[p] = "out" /\ local[p] # 0 => Managed(key[p], local[p])

ManagerInv == IInv /\ ManagerTypes /\ Inside /\ Origin /\ Once /\ Results

\* The steps of the manager are steps of the single flight, or leave it alone.
LEMMA ManagerFlies ==
    ASSUME [RM!Next]_manager PROVE [Next]_vars
<1> USE DEF RM!flight
<1>1. CASE UNCHANGED manager
  BY <1>1 DEF manager
<1>2. ASSUME NEW p \in Procs, NEW k \in Keys, RM!GetResource(p, k) PROVE Next
  BY <1>2 DEF RM!GetResource, RM!SF!CreateCall, RM!SF!Join, CreateCall, Join, Next
<1>3. ASSUME NEW p \in Procs, RM!FnReturns(p) PROVE Next
  BY <1>3 DEF RM!FnReturns, RM!SF!FnReturns, FnReturns, Next, Progress
<1>4. ASSUME NEW p \in Procs, RM!EndFlight(p) PROVE Next
  BY <1>4 DEF RM!EndFlight, RM!SF!WaitEnds, RM!SF!DeferredStep, RM!SF!DeferredDoes, RM!SF!Deferred,
     RM!SF!Object, WaitEnds, DeferredStep, DeferredDoes, Deferred, Object, Next, Progress
<1>5. ASSUME NEW p \in Procs, RM!Check(p) \/ RM!Create(p) \/ RM!Store(p) PROVE UNCHANGED vars
  BY <1>5 DEF RM!Check, RM!Create, RM!Store, vars
<1>6. ASSUME NEW k \in Keys, RM!Inject(k) PROVE UNCHANGED vars
  BY <1>6 DEF RM!Inject, vars
<1>7. CASE RM!Close
  BY <1>7 DEF RM!Close, vars
<1> QED
  BY <1>1, <1>2, <1>3, <1>4, <1>5, <1>6, <1>7 DEF RM!Next, RM!Progress

\* The invariant holds initially.
LEMMA ManagerInit == RM!Init => ManagerInv
<1> SUFFICES ASSUME RM!Init PROVE ManagerInv
  OBVIOUS
<1>1. Init
  BY DEF RM!Init, RM!SF!Init, Init
<1>2. IInv
  BY <1>1, InitIInv
<1>3. DOMAIN made = {} /\ made \in Seq(Made)
  BY DEF RM!Init
<1>4. \A r, k, by : ~Born(r, k, by)
  BY <1>3 DEF Born
<1>5. ManagerTypes
  BY <1>3 DEF RM!Init, ManagerTypes
<1>6. Inside
  BY <1>1, SyncxAssumption DEF SyncxAssumption, RM!Init, Init, Inside
<1>7. Origin /\ Once
  BY <1>4 DEF RM!Init, Origin, Once
<1>8. Results
  BY DEF RM!Init, Results
<1> QED BY <1>2, <1>5, <1>6, <1>7, <1>8 DEF ManagerInv

\* A call of GetResource joins a flight, or begins one with the look-up.
LEMMA ManagerGet ==
    ASSUME ManagerInv, NEW p \in Procs, NEW k \in Keys, RM!GetResource(p, k)
    PROVE  ManagerInv'
<1> USE DEF ManagerInv
<1>1. /\ pc[p] \in {"idle", "returned"} /\ key' = [key EXCEPT ![p] = k]
      /\ \/ calls[k] # 0 /\ pc' = [pc EXCEPT ![p] = "waiting"] /\ obj' = [obj EXCEPT ![p] = calls[k]]
            /\ stage' = [stage EXCEPT ![p] = "none"] /\ created' = created
         \/ created[k] < MaxFlights /\ pc' = [pc EXCEPT ![p] = "fn"]
            /\ obj' = [obj EXCEPT ![p] = created[k] + 1] /\ stage' = [stage EXCEPT ![p] = "check"]
            /\ created' = [created EXCEPT ![k] = @ + 1]
      /\ UNCHANGED <<local, vals, resources, closed, made, shut>>
  BY DEF RM!GetResource, RM!SF!CreateCall, RM!SF!Join, IInv, TypeOK, Inside
<1>2. IInv'
  BY NextIInv, ManagerFlies DEF RM!Next
<1>3. stage[p] = "none" /\ calls[k] \in Nat /\ created[k] \in Nat /\ created \in [Keys -> Nat]
      /\ obj \in [Procs -> Nat] /\ key \in [Procs -> Keys] /\ DOMAIN pc = Procs
  BY <1>1 DEF Inside, ManagerTypes, IInv, TypeOK
<1>4. ManagerTypes'
  BY <1>1 DEF ManagerTypes
<1>5. Inside'
  <2>1. \A q \in Procs : stage'[q] # "none" <=> pc'[q] = "fn"
    BY <1>1, <1>3 DEF Inside, ManagerTypes, IInv, TypeOK
  <2>2. \A q \in Procs : pc'[q] # "idle" => obj'[q] >= 1
    BY <1>1, <1>3 DEF Inside, IInv, TypeOK
  <2>3. \A j \in Keys : created'[j] <= MaxFlights
    BY <1>1, <1>3, SyncxAssumption DEF SyncxAssumption, Inside
  <2> QED BY <2>1, <2>2, <2>3 DEF Inside
<1>6. Origin'
  BY <1>1, <1>3 DEF Origin, Born, ManagerTypes
<1>7. Once'
  <2>1. \A q \in Procs : stage'[q] \in {"store", "create"} => stage'[q] = stage[q] /\ key'[q] = key[q]
    BY <1>1, <1>3 DEF ManagerTypes
  <2>2. \A q \in Procs : stage[q] = "store" => stage'[q] = stage[q] /\ key'[q] = key[q]
    BY <1>1, <1>3 DEF ManagerTypes
  <2> QED BY <1>1, <2>1, <2>2 DEF Once, Born
<1>8. Results'
  BY <1>1, <1>3 DEF Results, Managed, Born, ManagerTypes
<1> QED BY <1>2, <1>4, <1>5, <1>6, <1>7, <1>8

\* At most one closure runs for a key.
LEMMA OneClosure ==
    ASSUME ManagerInv, NEW p \in Procs, NEW q \in Procs,
           stage[p] # "none", stage[q] # "none", key[p] = key[q]
    PROVE  p = q
  BY DEF ManagerInv, Inside, IInv, Owners, Distinct, Owning, AtWork, Object

\* The look-up: a resource that is known is managed, one that is not was not created yet.
LEMMA ManagerCheck ==
    ASSUME ManagerInv, NEW p \in Procs, RM!Check(p)
    PROVE  ManagerInv'
<1> USE DEF ManagerInv
<1>1. /\ stage[p] = "check" /\ UNCHANGED <<calls, created, done, pc, key, obj, over, since>>
      /\ UNCHANGED <<vals, resources, closed, made, shut>>
      /\ \/ local' = [local EXCEPT ![p] = resources[key[p]]] /\ stage' = [stage EXCEPT ![p] = "out"]
         \/ /\ closed \/ resources[key[p]] = 0
            /\ stage' = [stage EXCEPT ![p] = "create"] /\ local' = local
  BY DEF RM!Check, RM!Known, RM!flight
<1>2. IInv' /\ key[p] \in Keys /\ pc[p] = "fn"
  BY <1>1, NextIInv DEF vars, Inside, IInv, TypeOK
<1>3. ManagerTypes' /\ Inside'
  BY <1>1, <1>2 DEF ManagerTypes, Inside
<1>4. Origin'
  BY <1>1 DEF Origin, Born, ManagerTypes
<1>5. ~closed /\ resources[key[p]] = 0 => \A r \in Nat : ~Born(r, key[p], "create")
  BY <1>1, <1>2, OneClosure DEF Once
<1>6. \A q \in Procs : stage'[q] = "store" <=> stage[q] = "store"
  BY <1>1 DEF ManagerTypes
<1>7. \A q \in Procs : stage'[q] = "create" =>
          stage[q] = "create" \/ (q = p /\ (closed \/ resources[key[p]] = 0))
  BY <1>1 DEF ManagerTypes
<1>8. Once'
  BY <1>1, <1>5, <1>6, <1>7 DEF Once, Born
<1>9. Results'
  BY <1>1, <1>2 DEF Results, Managed, Born, ManagerTypes
<1> QED BY <1>2, <1>3, <1>4, <1>8, <1>9

\* A resource that comes into being leaves the earlier ones as they are.
LEMMA Birth ==
    ASSUME made \in Seq(Made), NEW k \in Keys, NEW by \in {"create", "inject"},
           made' = Append(made, [key |-> k, by |-> by])
    PROVE  /\ made' \in Seq(Made) /\ Len(made') \in Nat /\ Len(made') # 0
           /\ \A r, j, b : Born(r, j, b) => Born(r, j, b)'
           /\ \A r, j, b : Born(r, j, b)' => Born(r, j, b) \/ (r = Len(made') /\ j = k /\ b = by)
           /\ Born(Len(made), k, by)'
<1>1. [key |-> k, by |-> by] \in Made
  BY DEF Made
<1>2. /\ made' \in Seq(Made) /\ Len(made) \in Nat /\ Len(made') = Len(made) + 1
      /\ DOMAIN made = 1 .. Len(made) /\ DOMAIN made' = 1 .. Len(made) + 1
      /\ made'[Len(made) + 1] = [key |-> k, by |-> by]
      /\ \A r \in 1 .. Len(made) : made'[r] = made[r]
  BY <1>1
<1>3. \A r, j, b : Born(r, j, b) => Born(r, j, b)'
  BY <1>2 DEF Born
<1>4. ASSUME NEW r, NEW j, NEW b, r \in DOMAIN made', made'[r] = [key |-> j, by |-> b]
      PROVE  Born(r, j, b) \/ (r = Len(made') /\ j = k /\ b = by)
  <2>1. CASE r \in 1 .. Len(made)
    BY <1>2, <1>4, <2>1 DEF Born
  <2>2. CASE r = Len(made) + 1
    <3>1. [key |-> j, by |-> b] = [key |-> k, by |-> by]
      BY <1>2, <1>4, <2>2
    <3>2. j = k /\ b = by
      <4>1. [key |-> j, by |-> b].key = [key |-> k, by |-> by].key
        BY <3>1
      <4>2. [key |-> j, by |-> b].by = [key |-> k, by |-> by].by
        BY <3>1
      <4> QED BY <4>1, <4>2
    <3> QED BY <1>2, <2>2, <3>2
  <2> QED BY <1>2, <1>4, <2>1, <2>2
<1>5. \A r, j, b : Born(r, j, b)' => Born(r, j, b) \/ (r = Len(made') /\ j = k /\ b = by)
  BY <1>4 DEF Born
<1> QED BY <1>2, <1>3, <1>5 DEF Born

\* create makes the first resource of its key, or fails.
LEMMA ManagerCreate ==
    ASSUME ManagerInv, NEW p \in Procs, RM!Create(p)
    PROVE  ManagerInv'
<1> USE DEF ManagerInv
<1>1. /\ stage[p] = "create" /\ UNCHANGED <<calls, created, done, pc, key, obj, over, since>>
      /\ UNCHANGED <<vals, resources, closed, shut>>
      /\ \/ /\ made' = Append(made, [key |-> key[p], by |-> "create"])
            /\ local' = [local EXCEPT ![p] = Len(made')] /\ stage' = [stage EXCEPT ![p] = "store"]
         \/ made' = made /\ local' = [local EXCEPT ![p] = 0] /\ stage' = [stage EXCEPT ![p] = "out"]
  BY DEF RM!Create, RM!flight
<1>2. IInv' /\ key[p] \in Keys /\ pc[p] = "fn"
  BY <1>1, NextIInv DEF vars, Inside, IInv, TypeOK
<1> PICK k \in Keys : k = key[p]
  BY <1>2
<1>3. CASE made' = made
  <2>1. local' = [local EXCEPT ![p] = 0] /\ stage' = [stage EXCEPT ![p] = "out"]
    <3>1. ASSUME made' = Append(made, [key |-> key[p], by |-> "create"]) PROVE FALSE
      <4>1. Len(made') = Len(made) + 1 /\ Len(made) \in Nat
        BY <3>1, <1>2 DEF ManagerTypes, Made
      <4> QED BY <4>1, <1>3
    <3> QED BY <1>1, <3>1
  <2>2. ManagerTypes' /\ Inside'
    BY <1>1, <1>2, <1>3, <2>1 DEF ManagerTypes, Inside
  <2>3. Origin'
    BY <1>1, <1>3, <2>1 DEF Origin, Born, ManagerTypes
  <2>4. \A q \in Procs : /\ stage'[q] = "store" <=> stage[q] = "store"
                         /\ stage'[q] = "create" => stage[q] = "create"
    BY <1>1, <2>1 DEF ManagerTypes
  <2>5. Once'
    BY <1>1, <1>3, <2>4 DEF Once, Born
  <2>6. Results'
    BY <1>1, <1>3, <2>1 DEF Results, Managed, Born, ManagerTypes
  <2> QED BY <1>2, <2>2, <2>3, <2>5, <2>6
<1>4. CASE made' # made
  <2>1. /\ made' = Append(made, [key |-> k, by |-> "create"])
        /\ local' = [local EXCEPT ![p] = Len(made')] /\ stage' = [stage EXCEPT ![p] = "store"]
    BY <1>1, <1>4
  <2>2. /\ made' \in Seq(Made) /\ Len(made') \in Nat
        /\ \A r, j, b : Born(r, j, b) => Born(r, j, b)'
        /\ \A r, j, b : Born(r, j, b)' => Born(r, j, b) \/ (r = Len(made') /\ j = k /\ b = "create")
        /\ Born(Len(made), k, "create")'
    BY <2>1, <1>2, Birth DEF ManagerTypes
  <2>3. ManagerTypes' /\ Inside'
    BY <1>1, <1>2, <2>1, <2>2 DEF ManagerTypes, Inside
  <2>4. Origin'
    <3>1. ASSUME NEW q \in Procs, stage'[q] = "store" PROVE Born(local[q], key[q], "create")'
      <4>1. CASE q = p
        BY <1>1, <2>1, <2>2, <4>1 DEF ManagerTypes, Born
      <4>2. CASE q # p
        <5>1. stage[q] = "store" /\ local'[q] = local[q] /\ key'[q] = key[q]
          BY <1>1, <2>1, <3>1, <4>2 DEF ManagerTypes
        <5>2. Born(local[q], key[q], "create")
          BY <5>1 DEF Origin
        <5> QED BY <5>1, <5>2, <2>2 DEF Born
      <4> QED BY <4>1, <4>2
    <3>2. ASSUME NEW j \in Keys, resources'[j] # 0
          PROVE  Born(resources[j], j, "create")' \/ Born(resources[j], j, "inject")'
      <4>1. Born(resources[j], j, "create") \/ Born(resources[j], j, "inject")
        BY <1>1, <3>2 DEF Origin
      <4> QED BY <4>1, <1>1, <2>2 DEF Born
    <3> QED BY <3>1, <3>2 DEF Origin
  <2>5. Once'
    <3> SUFFICES ASSUME ~closed PROVE Once'
      BY <1>1 DEF Once
    <3>1. \A r \in Nat : ~Born(r, k, "create")
      BY <1>1 DEF Once
    <3>2. \A j \in Keys, r, s \in Nat : Born(r, j, "create")' /\ Born(s, j, "create")' => r = s
      BY <2>2, <3>1 DEF Once
    <3>3. ASSUME NEW q \in Procs, NEW r \in Nat, stage'[q] = "create"
          PROVE  ~(Born(r, key[q], "create")')
      <4>1. q # p /\ stage[q] = "create"
        BY <1>1, <2>1, <3>3 DEF ManagerTypes
      <4>2. key[q] # k
        BY <4>1, <1>1, OneClosure
      <4>3. ~Born(r, key[q], "create")
        BY <4>1 DEF Once
      <4> QED BY <4>2, <4>3, <2>2, <1>1 DEF Born
    <3>4. ASSUME NEW j \in Keys, NEW r \in Nat, Born(r, j, "create")'
          PROVE  resources'[j] # 0 \/ \E q \in Procs : stage'[q] = "store" /\ key'[q] = j
      <4>1. CASE j = k
        BY <4>1, <1>1, <2>1 DEF ManagerTypes
      <4>2. CASE j # k
        <5>1. resources[j] # 0 \/ \E q \in Procs : stage[q] = "store" /\ key[q] = j
          BY <4>2, <3>4, <2>2 DEF Once
        <5> QED BY <5>1, <4>2, <1>1, <2>1 DEF ManagerTypes
      <4> QED BY <4>1, <4>2
    <3> QED BY <3>2, <3>3, <3>4, <1>1 DEF Once
  <2>6. Results'
    <3>1. \A j \in Keys, r \in Nat : Managed(j, r) => Managed(j, r)'
      BY <1>1, <2>2 DEF Managed
    <3>2. ASSUME NEW q \in Procs, stage'[q] = "out", local'[q] # 0 PROVE Managed(key[q], local[q])'
      <4>1. stage[q] = "out" /\ local'[q] = local[q] /\ key[q] \in Keys /\ local[q] \in Nat
        BY <1>1, <2>1, <3>2 DEF ManagerTypes, IInv, TypeOK
      <4> QED BY <4>1, <3>1, <1>1, <3>2 DEF Results, Managed
    <3>3. ASSUME NEW j \in Keys, NEW n \in 1 .. MaxFlights, vals'[<<j, n>>] # 0
          PROVE  Managed(j, vals[<<j, n>>])'
      <4>1. vals[<<j, n>>] \in Nat /\ Managed(j, vals[<<j, n>>])
        BY <1>1, <3>3 DEF Results, ManagerTypes
      <4> QED BY <4>1, <3>1, <1>1 DEF Managed
    <3> QED BY <3>2, <3>3 DEF Results
  <2> QED BY <1>2, <2>3, <2>4, <2>5, <2>6
<1> QED BY <1>3, <1>4

\* The new resource is kept: what the key had before can only have been injected.
LEMMA ManagerStore ==
    ASSUME ManagerInv, NEW p \in Procs, RM!Store(p)
    PROVE  ManagerInv'
<1> USE DEF ManagerInv
<1>1. /\ stage[p] = "store" /\ UNCHANGED <<calls, created, done, pc, key, obj, over, since>>
      /\ stage' = [stage EXCEPT ![p] = "out"] /\ UNCHANGED <<vals, closed, made, shut>>
      /\ \/ ~closed /\ resources' = [resources EXCEPT ![key[p]] = local[p]] /\ local' = local
         \/ closed /\ local' = [local EXCEPT ![p] = 0] /\ resources' = resources
  BY DEF RM!Store, RM!Keep, RM!flight
<1>2. IInv' /\ key[p] \in Keys /\ pc[p] = "fn" /\ local[p] \in Nat /\ key \in [Procs -> Keys]
  BY <1>1, NextIInv DEF vars, Inside, IInv, TypeOK, ManagerTypes
<1>3. ManagerTypes' /\ Inside'
  <2>1. resources' \in [Keys -> Nat]
    BY <1>1, <1>2 DEF ManagerTypes
  <2>2. local' \in [Procs -> Nat]
    <3>1. [local EXCEPT ![p] = 0] \in [Procs -> Nat]
      BY DEF ManagerTypes
    <3> QED BY <1>1, <3>1 DEF ManagerTypes
  <2>3. ManagerTypes'
    BY <1>1, <2>1, <2>2 DEF ManagerTypes
  <2>4. Inside'
    BY <1>1, <1>2 DEF ManagerTypes, Inside
  <2> QED BY <2>3, <2>4
<1>4. \A q \in Procs : /\ stage'[q] = "create" => stage[q] = "create"
                       /\ stage'[q] = "store" => stage[q] = "store" /\ q # p
                       /\ stage'[q] = "out" => q = p \/ stage[q] = "out"
                       /\ stage[q] = "store" /\ q # p => stage'[q] = "store"
  BY <1>1 DEF ManagerTypes
<1>5. Born(local[p], key[p], "create") /\ local[p] # 0
  <2>1. Born(local[p], key[p], "create")
    BY <1>1 DEF Origin
  <2> QED BY <2>1 DEF Born, ManagerTypes, Made
<1>6. CASE closed
  <2>1. local' = [local EXCEPT ![p] = 0] /\ resources' = resources
    BY <1>1, <1>6
  <2>2. Origin' /\ Once'
    BY <1>1, <1>4, <1>6, <2>1 DEF Origin, Once, Born, ManagerTypes
  <2>3. Results'
    BY <1>1, <1>4, <2>1 DEF Results, Managed, Born, ManagerTypes
  <2> QED BY <1>2, <1>3, <2>2, <2>3
<1>7. CASE ~closed
  <2>1. local' = local /\ resources' = [resources EXCEPT ![key[p]] = local[p]]
    BY <1>1, <1>7
  <2>2. Origin'
    BY <1>1, <1>2, <1>4, <1>5, <2>1 DEF Origin, Born, ManagerTypes
  <2>3. \A j \in Keys : resources[j] # 0 => resources'[j] # 0
    BY <1>2, <1>5, <2>1 DEF ManagerTypes
  <2>4. resources'[key[p]] # 0
    BY <1>2, <1>5, <2>1 DEF ManagerTypes
  <2>5. Once'
    <3>1. ASSUME NEW j \in Keys, NEW r \in Nat, Born(r, j, "create")
          PROVE  resources'[j] # 0 \/ \E q \in Procs : stage'[q] = "store" /\ key[q] = j
      <4>1. resources[j] # 0 \/ \E q \in Procs : stage[q] = "store" /\ key[q] = j
        BY <1>7, <3>1 DEF Once
      <4> QED BY <4>1, <1>4, <2>3, <2>4
    <3> QED BY <1>1, <1>4, <1>7, <3>1 DEF Once, Born
  <2>6. ASSUME NEW j \in Keys, NEW r \in Nat, r # 0, Managed(j, r) PROVE Managed(j, r)'
    <3>1. CASE j = key[p] /\ resources[j] = r
      <4>1. Born(r, j, "create") \/ Born(r, j, "inject")
        BY <3>1, <2>6 DEF Origin
      <4>2. CASE Born(r, j, "create")
        BY <4>2, <3>1, <1>2, <1>5, <1>7, <2>1 DEF Once, Managed, ManagerTypes
      <4>3. CASE Born(r, j, "inject")
        BY <4>3, <1>1 DEF Managed, Born
      <4> QED BY <4>1, <4>2, <4>3
    <3>2. CASE j # key[p] \/ resources[j] # r
      BY <3>2, <2>6, <1>1, <1>2, <2>1 DEF Managed, Born, ManagerTypes
    <3> QED BY <3>1, <3>2
  <2>7. \A j \in Keys, n \in 1 .. MaxFlights : vals[<<j, n>>] # 0 => Managed(j, vals[<<j, n>>])'
    <3> SUFFICES ASSUME NEW j \in Keys, NEW n \in 1 .. MaxFlights, vals[<<j, n>>] # 0
                 PROVE  Managed(j, vals[<<j, n>>])'
      OBVIOUS
    <3>1. PICK r \in Nat : r = vals[<<j, n>>]
      BY DEF ManagerTypes
    <3>2. Managed(j, r)'
      BY <3>1, <2>6 DEF Results
    <3> QED BY <3>1, <3>2, <1>1 DEF Managed
  <2>8. ASSUME NEW q \in Procs, stage'[q] = "out", local'[q] # 0 PROVE Managed(key[q], local[q])'
    <3>1. CASE q = p
      BY <3>1, <1>1, <1>2, <2>1 DEF Managed, ManagerTypes
    <3>2. CASE q # p
      <4>1. PICK j \in Keys, r \in Nat : j = key[q] /\ r = local[q]
        BY <1>2 DEF ManagerTypes
      <4>2. Managed(j, r)'
        BY <4>1, <3>2, <2>8, <2>1, <1>4, <2>6 DEF Results
      <4> QED BY <4>1, <4>2, <1>1, <2>1 DEF Managed
    <3> QED BY <3>1, <3>2
  <2>9. Results'
    BY <2>7, <2>8, <1>1 DEF Results
  <2> QED BY <1>2, <1>3, <2>2, <2>5, <2>9
<1> QED BY <1>6, <1>7

\* The end of fn records what the closure had.
LEMMA ManagerFnReturns ==
    ASSUME ManagerInv, NEW p \in Procs, RM!FnReturns(p)
    PROVE  ManagerInv'
<1> USE DEF ManagerInv
<1>1. /\ stage[p] = "out" /\ pc[p] = "fn" /\ pc' = [pc EXCEPT ![p] = "deferred1"]
      /\ vals' = [vals EXCEPT ![<<key[p], obj[p]>>] = local[p]]
      /\ stage' = [stage EXCEPT ![p] = "none"]
      /\ UNCHANGED <<created, key, obj, local, resources, closed, made, shut>>
  BY DEF RM!FnReturns, RM!SF!FnReturns
<1>2. IInv'
  BY NextIInv, ManagerFlies DEF RM!Next, RM!Progress
<1>3. key[p] \in Keys /\ obj[p] \in 1 .. MaxFlights
  BY <1>1, SyncxAssumption DEF SyncxAssumption, IInv, TypeOK, Fresh, Inside
<1>4. ManagerTypes'
  BY <1>1, <1>3 DEF ManagerTypes
<1>5. Inside'
  BY <1>1 DEF Inside, ManagerTypes, IInv, TypeOK
<1>6. \A q \in Procs : \A l \in {"store", "create", "out"} : stage'[q] = l => stage[q] = l
  BY <1>1 DEF ManagerTypes
<1>7. \A q \in Procs : stage[q] = "store" => stage'[q] = "store"
  BY <1>1 DEF ManagerTypes
<1>8. Origin' /\ Once'
  BY <1>1, <1>6, <1>7 DEF Origin, Once, Born
<1>9. ASSUME NEW j \in Keys, NEW n \in 1 .. MaxFlights, vals'[<<j, n>>] # 0
      PROVE  Managed(j, vals'[<<j, n>>])
  <2>1. CASE j = key[p] /\ n = obj[p]
    <3>1. vals'[<<j, n>>] = local[p]
      BY <1>1, <1>3, <2>1 DEF ManagerTypes
    <3> QED BY <3>1, <2>1, <1>1, <1>9 DEF Results
  <2>2. CASE ~(j = key[p] /\ n = obj[p])
    <3>1. vals'[<<j, n>>] = vals[<<j, n>>]
      BY <1>1, <2>2 DEF ManagerTypes
    <3> QED BY <3>1, <1>9 DEF Results
  <2> QED BY <2>1, <2>2
<1>10. Results'
  BY <1>1, <1>6, <1>9 DEF Results, Managed, Born
<1> QED BY <1>2, <1>4, <1>5, <1>8, <1>10

\* The rest of the flight does not touch the manager.
LEMMA ManagerEndFlight ==
    ASSUME ManagerInv, NEW p \in Procs, RM!EndFlight(p)
    PROVE  ManagerInv'
<1> USE DEF ManagerInv
<1>1. /\ pc[p] \in {"waiting", "deferred1", "deferred2"}
      /\ pc' \in {[pc EXCEPT ![p] = "deferred2"], [pc EXCEPT ![p] = "returned"]}
      /\ UNCHANGED <<created, key, obj, stage, local, vals, resources, closed, made, shut>>
  BY DEF RM!EndFlight, RM!SF!WaitEnds, RM!SF!DeferredStep, RM!SF!DeferredDoes
<1>2. IInv'
  BY NextIInv, ManagerFlies DEF RM!Next, RM!Progress
<1>3. ManagerTypes' /\ Inside'
  BY <1>1 DEF ManagerTypes, Inside, IInv, TypeOK
<1>4. Origin' /\ Once' /\ Results'
  BY <1>1 DEF Origin, Once, Results, Managed, Born
<1> QED BY <1>2, <1>3, <1>4

\* Inject replaces what the key had, and leaves its mark.
LEMMA ManagerInject ==
    ASSUME ManagerInv, NEW k \in Keys, RM!Inject(k)
    PROVE  ManagerInv'
<1> USE DEF ManagerInv
<1>1. /\ UNCHANGED <<calls, created, done, pc, key, obj, over, since>>
      /\ made' = Append(made, [key |-> k, by |-> "inject"])
      /\ resources' = [resources EXCEPT ![k] = Len(made')]
      /\ UNCHANGED <<stage, local, vals, closed, shut>>
  BY DEF RM!Inject, RM!flight
<1>2. IInv'
  BY <1>1, NextIInv DEF vars
<1>3. /\ made' \in Seq(Made) /\ Len(made') \in Nat /\ Len(made') # 0
      /\ \A r, j, b : Born(r, j, b) => Born(r, j, b)'
      /\ \A r, j, b : Born(r, j, b)' => Born(r, j, b) \/ (r = Len(made') /\ j = k /\ b = "inject")
      /\ Born(Len(made), k, "inject")'
  BY <1>1, Birth DEF ManagerTypes
<1>4. ManagerTypes' /\ Inside'
  BY <1>1, <1>3 DEF ManagerTypes, Inside
<1>5. \A r, j : Born(r, j, "create")' <=> Born(r, j, "create")
  BY <1>3
<1>6. \A j \in Keys : resources[j] # 0 => resources'[j] # 0
  BY <1>1, <1>3 DEF ManagerTypes
<1>7. Origin'
  <2>1. ASSUME NEW q \in Procs, stage[q] = "store" PROVE Born(local[q], key[q], "create")'
    <3>1. Born(local[q], key[q], "create")
      BY <2>1 DEF Origin
    <3> QED BY <3>1, <1>5, <1>1 DEF Born
  <2>2. ASSUME NEW j \in Keys, resources'[j] # 0
        PROVE  Born(resources[j], j, "create")' \/ Born(resources[j], j, "inject")'
    <3>1. CASE j = k
      BY <3>1, <1>1, <1>3 DEF ManagerTypes, Born
    <3>2. CASE j # k
      <4>1. resources'[j] = resources[j]
        BY <1>1, <3>2 DEF ManagerTypes
      <4>2. Born(resources[j], j, "create") \/ Born(resources[j], j, "inject")
        BY <4>1, <2>2 DEF Origin
      <4> QED BY <4>1, <4>2, <1>3 DEF Born
    <3> QED BY <3>1, <3>2
  <2> QED BY <2>1, <2>2, <1>1 DEF Origin
<1>8. Once'
  <2> SUFFICES ASSUME ~closed PROVE Once'
    BY <1>1 DEF Once
  <2>1. \A j \in Keys, r, s \in Nat : Born(r, j, "create")' /\ Born(s, j, "create")' => r = s
    BY <1>5 DEF Once
  <2>2. ASSUME NEW q \in Procs, NEW r \in Nat, stage[q] = "create" PROVE ~(Born(r, key[q], "create")')
    <3>1. ~Born(r, key[q], "create")
      BY <2>2 DEF Once
    <3> QED BY <3>1, <1>5, <1>1 DEF Born
  <2>3. \A j \in Keys, r \in Nat : Born(r, j, "create")' =>
            resources'[j] # 0 \/ \E q \in Procs : stage[q] = "store" /\ key[q] = j
    BY <1>5, <1>6 DEF Once
  <2> QED BY <2>1, <2>2, <2>3, <1>1 DEF Once
<1>9. \A j \in Keys, r \in Nat : Managed(j, r) => Managed(j, r)'
  BY <1>1, <1>3 DEF Managed, ManagerTypes
<1>10. Results'
  <2>1. ASSUME NEW j \in Keys, NEW n \in 1 .. MaxFlights, vals[<<j, n>>] # 0
        PROVE  Managed(j, vals[<<j, n>>])'
    <3>1. vals[<<j, n>>] \in Nat /\ Managed(j, vals[<<j, n>>])
      BY <2>1 DEF Results, ManagerTypes
    <3> QED BY <3>1, <1>9, <1>1 DEF Managed
  <2>2. ASSUME NEW q \in Procs, stage[q] = "out", local[q] # 0 PROVE Managed(key[q], local[q])'
    <3>1. key[q] \in Keys /\ local[q] \in Nat /\ Managed(key[q], local[q])
      BY <2>2 DEF Results, ManagerTypes, IInv, TypeOK
    <3> QED BY <3>1, <1>9, <1>1 DEF Managed
  <2> QED BY <2>1, <2>2, <1>1 DEF Results
<1> QED BY <1>2, <1>4, <1>7, <1>8, <1>10

\* Every step preserves the invariant.
LEMMA ManagerNext == ManagerInv /\ [RM!Next]_manager => ManagerInv'
<1> SUFFICES ASSUME ManagerInv, [RM!Next]_manager PROVE ManagerInv'
  OBVIOUS
<1>1. CASE RM!Close
  <2>1. IInv'
    BY <1>1, NextIInv, ManagerFlies DEF RM!Next, ManagerInv
  <2> QED
    BY <1>1, <2>1 DEF RM!Close, RM!flight, ManagerInv, ManagerTypes, Inside, Origin, Once, Results, Managed, Born
<1>2. CASE UNCHANGED manager
  <2>1. IInv'
    BY <1>2, NextIInv DEF manager, ManagerInv
  <2> QED
    BY <1>2, <2>1 DEF manager, vars, ManagerInv, ManagerTypes, Inside, Origin, Once, Results, Managed, Born
<1> QED
  BY <1>1, <1>2, ManagerGet, ManagerCheck, ManagerCreate, ManagerStore, ManagerFnReturns, ManagerEndFlight,
     ManagerInject DEF RM!Next, RM!Progress

\* The invariant implies the property.
LEMMA ManagerSafe == ManagerInv => OneManagedResource
<1>1. ASSUME ManagerInv PROVE RM!CreatedOnce
  <2>1. \A k : RM!Of(k, "create") = {r \in DOMAIN made : Born(r, k, "create")}
    BY DEF RM!Of, Born
  <2>2. DOMAIN made \subseteq Nat
    BY <1>1 DEF ManagerInv, ManagerTypes
  <2> QED BY <1>1, <2>1, <2>2 DEF ManagerInv, Once, RM!CreatedOnce
<1>2. ASSUME ManagerInv PROVE RM!ReturnedIsManaged
  <2> SUFFICES ASSUME NEW p \in Procs, RM!Returned(p) # 0
               PROVE  \/ resources[key[p]] = RM!Returned(p) \/ RM!Returned(p) \in shut
                      \/ RM!Of(key[p], "inject") # {}
    BY DEF RM!ReturnedIsManaged
  <2>1. pc[p] = "returned" /\ RM!Returned(p) = vals[<<key[p], obj[p]>>]
    BY DEF RM!Returned
  <2>2. key[p] \in Keys /\ obj[p] \in 1 .. MaxFlights
    BY <1>2, <2>1, SyncxAssumption DEF SyncxAssumption, ManagerInv, IInv, TypeOK, Fresh, Inside
  <2>3. Managed(key[p], RM!Returned(p))
    BY <1>2, <2>1, <2>2 DEF ManagerInv, Results
  <2> QED BY <2>3 DEF Managed, Born, RM!Of
<1> QED
  BY <1>1, <1>2 DEF OneManagedResource

\* One resource for a key, and none that the manager does not know.
THEOREM ResourcesAreManaged == RM!Init /\ [][RM!Next]_manager => []OneManagedResource
  BY ManagerSafe, ManagerInit, ManagerNext, PTL
-----------------------------------------------------------------------------
(* The components beside each other *)

Together == ManagerInv /\ LockInv /\ LimitInv /\ PoolInv

\* A step of the composition is a step of one component and leaves the others alone.
LEMMA OneMoves ==
    ASSUME [SyncxNext]_<<part, manager, locked, limit, pool>>
    PROVE  [RM!Next]_manager /\ [LC!Next]_locked /\ [TL!Next]_limit /\ [PL!Next]_pool
<1>1. CASE UNCHANGED <<part, manager, locked, limit, pool>>
  BY <1>1
<1>2. CASE SyncxNext
  BY <1>2, Zenon DEF SyncxNext, Alone
<1> QED BY <1>1, <1>2

\* The specification that the run checks has the safety properties of all its components.
THEOREM SyncxSafe ==
    SyncxSpec => [](/\ OneFlight /\ NoStaleResult /\ OneManagedResource /\ Sequential
                    /\ WaitsForToken /\ PoolServes)
<1>1. SyncxInit => Together
  BY ManagerInit, LockInit, LimitInit, PoolInit DEF SyncxInit, Together
<1>2. Together /\ [SyncxNext]_<<part, manager, locked, limit, pool>> => Together'
  BY OneMoves, ManagerNext, LockNext, LimitNext, PoolNext DEF Together
<1>3. Together => OneFlight /\ NoStaleResult
  BY DEF Together, ManagerInv, IInv, OneFlight, NoStaleResult, Unseen, Owners, Distinct, Owning, AtWork, Object
<1>4. Together => OneManagedResource /\ Sequential /\ WaitsForToken /\ PoolServes
  BY ManagerSafe, LockSafe, LimitSafe, PoolSafe DEF Together
<1> QED
  BY <1>1, <1>2, <1>3, <1>4, PTL DEF SyncxSpec
=============================================================================
