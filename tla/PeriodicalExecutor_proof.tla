----------------------- MODULE PeriodicalExecutor_proof -----------------------
(***************************************************************************)
(* Proofs about PeriodicalExecutor for every number of callers, background *)
(* goroutines and tasks and every container limit: the types, the          *)
(* conservation of tasks, the safety of quitting, the counters and what    *)
(* Wait guarantees.                                                        *)
(***************************************************************************)
EXTENDS PeriodicalExecutor, FiniteSetTheorems, TLAPS

Senders == {c \in Callers : pc[c] = "send"}
Awaiting == {c \in Callers : pc[c] = "await"}
Decrementing == {f \in Flushers : pc[f] = "dec"}
ToConfirm == {f \in Flushers : Unconfirmed(f)}
InGroup == {p \in Procs : Counted(p)}

\* Which places of the code a caller and a background goroutine can be at, why
\* they can be there, and where they carry a batch.
Shape ==
    /\ \A c \in Callers :
          /\ pc[c] \notin {"confirm", "select", "dec", "quit"}
          /\ job[c] \in {"none", "flush", "wait"}
          /\ adding[c] # {} => pc[c] \in {"send", "await"}
    /\ \A f \in Flushers :
          /\ pc[f] \notin {"send", "await", "barrier", "wgwait"}
          /\ job[f] \notin {"flush", "wait"}
          /\ job[f] = "none" <=> pc[f] \in {"idle", "select", "dec", "quit"}
          /\ pc[f] = "confirm" => job[f] = "command"
          /\ job[f] = "command" => pc[f] # "remove"
    /\ \A p \in Procs :
          hand[p] # {} => \/ pc[p] \in {"send", "dec", "confirm", "execute", "done"}
                          \/ pc[p] = "enter" /\ job[p] = "command"
    /\ \A a, b \in commander : a = b

\* What the three counters count: batches taken and not yet received, callers
\* to be confirmed, goroutines inside an execution.
Counters ==
    /\ inflight = Cardinality(Senders) + Cardinality(commander) + Cardinality(Decrementing)
    /\ Cardinality(Awaiting) = Cardinality(commander) + Cardinality(ToConfirm)
    /\ waitGroup = Cardinality(InGroup)

\* What was under way when Wait was called is executed or still under way, and
\* a goroutine leaves the wait group only after it executed its batch.
EnteredTracked ==
    /\ \A p \in Procs : pc[p] = "done" => hand[p] \subseteq executed
    /\ \A c \in Callers : \A t \in atWait[c].entered :
          t \in executed \/ \E p \in InGroup : t \in hand[p]

\* p carries task t and still has to execute it.
Carries(p, t) == t \in hand[p] /\ pc[p] # "done"

\* TasksConserved task by task, the form in which it is inductive.
Placed ==
    \A t \in Tasks :
        /\ (t \in returned \/ \E c \in Callers : t \in adding[c])
            <=> \/ t \in container \/ t \in executed
                \/ (\E b \in commander : t \in b) \/ (\E p \in Procs : Carries(p, t))
        /\ t \in container => t \notin executed
        /\ \A b \in commander : t \in b => t \notin container /\ t \notin executed
        /\ \A p \in Procs : Carries(p, t) =>
              /\ t \notin container /\ t \notin executed
              /\ \A b \in commander : t \notin b
              /\ \A q \in Procs : Carries(q, t) => q = p

IInv ==
    /\ TypeOK
    /\ Shape
    /\ Counters
    /\ NoWorkStranded
    /\ Placed
    /\ EnteredTracked
-----------------------------------------------------------------------------
\* The sets counted by the counters are finite.
LEMMA CountedFinite ==
    /\ IsFiniteSet(Senders) /\ IsFiniteSet(Awaiting) /\ IsFiniteSet(Decrementing)
    /\ IsFiniteSet(ToConfirm) /\ IsFiniteSet(InGroup)
<1>1. IsFiniteSet(Callers) /\ IsFiniteSet(Flushers)
  BY ConstantsAssumption DEF ConstantsAssumption
<1>2. IsFiniteSet(Procs)
  BY <1>1, FS_Union DEF Procs
<1>3. /\ Senders \subseteq Callers /\ Awaiting \subseteq Callers
      /\ Decrementing \subseteq Flushers /\ ToConfirm \subseteq Flushers
      /\ InGroup \subseteq Procs
  BY DEF Senders, Awaiting, Decrementing, ToConfirm, InGroup
<1> QED
  BY <1>1, <1>2, <1>3, FS_Subset

\* Cardinalities as the steps of the proofs need them.
LEMMA CardFacts ==
    ASSUME NEW S, IsFiniteSet(S)
    PROVE /\ Cardinality(S) \in Nat
          /\ Cardinality(S) = 0 <=> S = {}
          /\ \A x : x \notin S => Cardinality(S \cup {x}) = Cardinality(S) + 1
          /\ \A x : x \in S => Cardinality(S \ {x}) = Cardinality(S) - 1
  BY FS_CardinalityType, FS_EmptySet, FS_AddElement, FS_RemoveElement

\* The commander holds at most one batch.
LEMMA CommanderCard ==
    ASSUME \A a, b \in commander : a = b
    PROVE /\ Cardinality(commander) = IF commander = {} THEN 0 ELSE 1
          /\ \A b \in commander : commander = {b}
<1>1. CASE commander = {}
  BY <1>1, FS_EmptySet
<1>2. CASE commander # {}
  <2>1. PICK b : commander = {b}
    BY <1>2
  <2> QED
    BY <2>1, FS_Singleton
<1> QED
  BY <1>1, <1>2

\* The cardinalities in Counters are naturals.
LEMMA CardsNat ==
    ASSUME Shape
    PROVE /\ Cardinality(Senders) \in Nat /\ Cardinality(Awaiting) \in Nat
          /\ Cardinality(Decrementing) \in Nat /\ Cardinality(ToConfirm) \in Nat
          /\ Cardinality(InGroup) \in Nat /\ Cardinality(commander) \in Nat
  BY CountedFinite, CardFacts, CommanderCard DEF Shape

\* What an Add that may start the background goroutine does to the goroutines.
Started(c, l) ==
    /\ pc' \in [Procs -> PCs] /\ pc'[c] = l
    /\ \A d \in Callers : d # c => pc'[d] = pc[d]
    /\ \A f \in Flushers : pc'[f] = pc[f] \/ (pc[f] = "idle" /\ pc'[f] = "select")
    /\ commanded' \in [Flushers -> BOOLEAN] /\ guarded' \in BOOLEAN

\* BackgroundFlush does that, whether or not it starts a goroutine.
LEMMA BackgroundFlushFacts ==
    ASSUME TypeOK, NEW c \in Callers, NEW l \in PCs, BackgroundFlush(c, l)
    PROVE Started(c, l)
<1> USE ConstantsAssumption DEF ConstantsAssumption, Procs, TypeOK, Started, Goto, loop
<1>1. CASE guarded
  BY <1>1 DEF BackgroundFlush
<1>2. CASE ~guarded
  <2>1. PICK f \in Flushers :
          /\ pc[f] = "idle"
          /\ pc' = [pc EXCEPT ![c] = l, ![f] = "select"]
          /\ commanded' = [commanded EXCEPT ![f] = FALSE]
          /\ guarded' = TRUE
    BY <1>2 DEF BackgroundFlush
  <2> QED
    BY <2>1 DEF PCs
<1> QED
  BY <1>1, <1>2

\* An Add that leaves the container below its limit.
LEMMA AddToContainerStep ==
    ASSUME IInv, NEW c \in Callers, NEW t \in Tasks, AddToContainer(c, t)
    PROVE IInv'
<1> USE ConstantsAssumption DEF ConstantsAssumption, Procs, store, channel, loop, history
<1>1. Started(c, "idle")
  BY BackgroundFlushFacts DEF IInv, AddToContainer, AddTask, PCs
<1>2. UNCHANGED <<Senders, Awaiting, Decrementing, ToConfirm, InGroup>>
  BY <1>1 DEF IInv, AddToContainer, AddTask, Started, TypeOK, Shape,
        Senders, Awaiting, Decrementing, ToConfirm, Unconfirmed, InGroup, Counted
<1>3. TypeOK'
  BY <1>1 DEF IInv, AddToContainer, AddTask, Started, TypeOK, PCs, Jobs
<1>4. Shape'
  <2>1. UNCHANGED <<job, hand, adding, commander>>
    BY DEF AddToContainer
  <2>2. pc[c] = "idle" /\ pc'[c] = "idle"
    BY <1>1 DEF AddToContainer, Started
  <2> QED
    BY <1>1, <2>1, <2>2 DEF IInv, Started, Shape
<1>5. Counters'
  BY <1>2, CardsNat DEF IInv, AddToContainer, AddTask, TypeOK, Counters
<1>6. NoWorkStranded'
  BY DEF IInv, AddToContainer, Full, AddTask, BackgroundFlush, Goto, loop, TypeOK, Shape,
     NoWorkStranded, InLoop, WillFlush
<1>7. Placed'
  <2>1. \A p \in Procs, u \in Tasks : Carries(p, u)' <=> Carries(p, u)
    BY <1>1 DEF IInv, AddToContainer, Started, Shape, Carries
  <2>2. t \notin returned /\ \A d \in Callers : t \notin adding[d]
    BY DEF AddToContainer, Added
  <2>3. /\ container' = container \cup {t} /\ returned' = returned \cup {t}
        /\ UNCHANGED <<executed, commander, adding>>
    BY DEF AddToContainer, AddTask
  <2> QED
    BY <2>1, <2>2, <2>3 DEF IInv, Placed
<1>8. EnteredTracked'
  BY <1>1 DEF IInv, AddToContainer, AddTask, Started, TypeOK, Shape, EnteredTracked,
     InGroup, Counted
<1> QED
  BY <1>3, <1>4, <1>5, <1>6, <1>7, <1>8 DEF IInv

\* An Add that fills the container: one more sender, the batch moves to its hand.
LEMMA AddAndTakeAllStep ==
    ASSUME IInv, NEW c \in Callers, NEW t \in Tasks, AddAndTakeAll(c, t)
    PROVE IInv'
<1> USE ConstantsAssumption DEF ConstantsAssumption, Procs, store, channel, loop, history
<1>1. Started(c, "send")
  BY BackgroundFlushFacts DEF IInv, AddAndTakeAll, RemoveAll, PCs
<1>2. /\ c \notin Senders /\ Senders' = Senders \cup {c}
      /\ UNCHANGED <<Awaiting, Decrementing, ToConfirm, InGroup>>
  BY <1>1 DEF IInv, AddAndTakeAll, RemoveAll, Started, TypeOK, Shape,
        Senders, Awaiting, Decrementing, ToConfirm, Unconfirmed, InGroup, Counted
<1>3. /\ Cardinality(Senders') = Cardinality(Senders) + 1
  BY <1>2, CountedFinite, CardFacts
<1>4. TypeOK'
  <2>1. inflight' \in Nat /\ hand' \in [Procs -> SUBSET Tasks]
    BY DEF IInv, AddAndTakeAll, TypeOK
  <2>2. adding' \in [Callers -> SUBSET Tasks]
    BY DEF IInv, AddAndTakeAll, TypeOK
  <2>3. container' \in SUBSET Tasks /\ size' \in Nat
    BY DEF AddAndTakeAll, RemoveAll
  <2> QED
    BY <1>1, <2>1, <2>2, <2>3 DEF IInv, AddAndTakeAll, Started, TypeOK
<1>5. Shape'
  <2>1. /\ pc[c] = "idle" /\ pc'[c] = "send"
        /\ UNCHANGED <<job, commander>>
    BY <1>1 DEF AddAndTakeAll, Started
  <2>2. \A p \in Procs : p # c => hand'[p] = hand[p]
    BY DEF IInv, AddAndTakeAll, TypeOK
  <2>3. \A d \in Callers : d # c => adding'[d] = adding[d]
    BY DEF IInv, AddAndTakeAll, TypeOK
  <2>4. \A f \in Flushers : pc'[f] = pc[f] \/ (pc[f] = "idle" /\ pc'[f] = "select")
    BY <1>1 DEF Started
  <2>5. \A d \in Callers : d # c => pc'[d] = pc[d]
    BY <1>1 DEF Started
  <2> QED
    BY <2>1, <2>2, <2>3, <2>4, <2>5 DEF IInv, Shape
<1>6. Counters'
  BY <1>2, <1>3, CardsNat DEF IInv, AddAndTakeAll, RemoveAll, TypeOK, Counters
<1>7. NoWorkStranded'
  BY DEF IInv, AddAndTakeAll, Full, RemoveAll, BackgroundFlush, Goto, loop, TypeOK, Shape,
     NoWorkStranded, InLoop, WillFlush
<1>8. Placed'
  <2>1. hand[c] = {} /\ adding[c] = {}
    BY DEF IInv, AddAndTakeAll, Shape
  <2>2. /\ hand' = [hand EXCEPT ![c] = container \cup {t}]
        /\ adding' = [adding EXCEPT ![c] = {t}]
        /\ container' = {} /\ UNCHANGED <<executed, commander, returned>>
    BY DEF AddAndTakeAll, RemoveAll
  <2>3. t \notin returned /\ \A d \in Callers : t \notin adding[d]
    BY DEF AddAndTakeAll, Added
  <2>4. \A p \in Procs, u \in Tasks : p # c => (Carries(p, u)' <=> Carries(p, u))
    BY <1>1, <2>2 DEF IInv, Started, TypeOK, Shape, Carries
  <2>5. \A u \in Tasks : (Carries(c, u)' <=> u \in container \/ u = t) /\ ~Carries(c, u)
    BY <1>1, <2>1, <2>2 DEF IInv, Started, TypeOK, Carries
  <2>6. /\ adding'[c] = {t} /\ \A d \in Callers : d # c => adding'[d] = adding[d]
    BY <2>2 DEF IInv, TypeOK
  <2> QED
    BY <2>1, <2>2, <2>3, <2>4, <2>5, <2>6 DEF IInv, Placed
<1>9. EnteredTracked'
  BY <1>1 DEF IInv, AddAndTakeAll, RemoveAll, Started, TypeOK, Shape, EnteredTracked,
     InGroup, Counted
<1> QED
  BY <1>4, <1>5, <1>6, <1>7, <1>8, <1>9 DEF IInv

\* The batch moves from the sender to the commander.
LEMMA SendCommandStep ==
    ASSUME IInv, NEW c \in Callers, SendCommand(c)
    PROVE IInv'
<1> USE ConstantsAssumption DEF ConstantsAssumption, Procs, store, channel, loop, history
<1>1. /\ c \in Senders /\ Senders' = Senders \ {c}
      /\ c \notin Awaiting /\ Awaiting' = Awaiting \cup {c}
      /\ UNCHANGED <<Decrementing, ToConfirm, InGroup>>
  BY DEF IInv, SendCommand, CommanderHasRoom, Goto, TypeOK, Shape,
        Senders, Awaiting, Decrementing, ToConfirm, Unconfirmed, InGroup, Counted
<1>2. /\ Cardinality(Senders') = Cardinality(Senders) - 1 /\ Cardinality(Senders) # 0
      /\ Cardinality(Awaiting') = Cardinality(Awaiting) + 1
  BY <1>1, CountedFinite, CardFacts
<1>3. /\ Cardinality(commander) = 0 /\ Cardinality(commander') = 1
  BY CommanderCard, FS_EmptySet, FS_Singleton DEF IInv, SendCommand, CommanderHasRoom, Goto,
     Shape
<1>4. TypeOK'
  BY DEF IInv, SendCommand, CommanderHasRoom, Goto, TypeOK, PCs, Jobs
<1>5. Shape'
  BY DEF IInv, SendCommand, CommanderHasRoom, Goto, TypeOK, Shape
<1>6. Counters'
  BY <1>1, <1>2, <1>3, CardsNat DEF IInv, SendCommand, Counters
<1>7. NoWorkStranded'
  BY DEF IInv, SendCommand, CommanderHasRoom, Goto, TypeOK, Shape, NoWorkStranded, InLoop,
     WillFlush
<1>8. Placed'
  BY DEF IInv, SendCommand, CommanderHasRoom, Goto, TypeOK, Shape, Placed, Carries
<1>9. EnteredTracked'
  BY DEF IInv, SendCommand, CommanderHasRoom, Goto, TypeOK, Shape, EnteredTracked, InGroup,
     Counted
<1> QED
  BY <1>4, <1>5, <1>6, <1>7, <1>8, <1>9 DEF IInv

\* Wait takes the barrier.
LEMMA WaitBarrierStep ==
    ASSUME IInv, NEW c \in Callers, WaitBarrier(c)
    PROVE IInv'
<1> USE ConstantsAssumption DEF ConstantsAssumption, Procs, store, channel, loop, history
<1>1. UNCHANGED <<Senders, Awaiting, Decrementing, ToConfirm, InGroup>>
  BY DEF IInv, WaitBarrier, BarrierFree, Goto, TypeOK, Shape,
        Senders, Awaiting, Decrementing, ToConfirm, Unconfirmed, InGroup, Counted
<1>2. TypeOK'
  BY DEF IInv, WaitBarrier, BarrierFree, Goto, TypeOK, PCs, Jobs
<1>3. Shape'
  BY DEF IInv, WaitBarrier, BarrierFree, Goto, TypeOK, Shape
<1>4. Counters'
  BY <1>1, CardsNat DEF IInv, WaitBarrier, BarrierFree, Goto, TypeOK, Counters
<1>5. NoWorkStranded'
  BY DEF IInv, WaitBarrier, BarrierFree, Goto, TypeOK, Shape, NoWorkStranded, InLoop, WillFlush
<1>6. Placed'
  BY DEF IInv, WaitBarrier, BarrierFree, Goto, TypeOK, Shape, Placed, Carries
<1>7. EnteredTracked'
  BY DEF IInv, WaitBarrier, BarrierFree, Goto, TypeOK, Shape, EnteredTracked, InGroup, Counted
<1> QED
  BY <1>2, <1>3, <1>4, <1>5, <1>6, <1>7 DEF IInv

\* Wait returns.
LEMMA WaitReturnStep ==
    ASSUME IInv, NEW c \in Callers, WaitReturn(c)
    PROVE IInv'
<1> USE ConstantsAssumption DEF ConstantsAssumption, Procs, store, channel, loop, history
<1>1. UNCHANGED <<Senders, Awaiting, Decrementing, ToConfirm, InGroup>>
  BY DEF IInv, WaitReturn, WaitGroupReady, NoWait, Goto, TypeOK, Shape,
        Senders, Awaiting, Decrementing, ToConfirm, Unconfirmed, InGroup, Counted
<1>2. TypeOK'
  BY DEF IInv, WaitReturn, WaitGroupReady, NoWait, Goto, TypeOK, PCs, Jobs
<1>3. Shape'
  BY DEF IInv, WaitReturn, WaitGroupReady, NoWait, Goto, TypeOK, Shape
<1>4. Counters'
  BY <1>1, CardsNat DEF IInv, WaitReturn, WaitGroupReady, NoWait, Goto, TypeOK, Counters
<1>5. NoWorkStranded'
  BY DEF IInv, WaitReturn, WaitGroupReady, NoWait, Goto, TypeOK, Shape, NoWorkStranded,
     InLoop, WillFlush
<1>6. Placed'
  BY DEF IInv, WaitReturn, WaitGroupReady, NoWait, Goto, TypeOK, Shape, Placed, Carries
<1>7. EnteredTracked'
  BY DEF IInv, WaitReturn, WaitGroupReady, NoWait, Goto, TypeOK, Shape, EnteredTracked,
     InGroup, Counted
<1> QED
  BY <1>2, <1>3, <1>4, <1>5, <1>6, <1>7 DEF IInv

\* A caller starts Flush.
LEMMA StartFlushStep ==
    ASSUME IInv, NEW w \in Waiters, StartFlush(w)
    PROVE IInv'
<1> USE ConstantsAssumption DEF ConstantsAssumption, Procs, store, channel, loop, history
<1>1. UNCHANGED <<Senders, Awaiting, Decrementing, ToConfirm, InGroup>>
  BY DEF IInv, StartFlush, Goto, TypeOK, Shape,
        Senders, Awaiting, Decrementing, ToConfirm, Unconfirmed, InGroup, Counted
<1>2. TypeOK'
  BY DEF IInv, StartFlush, Goto, TypeOK, PCs, Jobs
<1>3. Shape'
  BY DEF IInv, StartFlush, Goto, TypeOK, Shape
<1>4. Counters'
  BY <1>1, CardsNat DEF IInv, StartFlush, Goto, TypeOK, Counters
<1>5. NoWorkStranded'
  BY DEF IInv, StartFlush, Goto, TypeOK, Shape, NoWorkStranded, InLoop, WillFlush
<1>6. Placed'
  BY DEF IInv, StartFlush, Goto, TypeOK, Shape, Placed, Carries
<1>7. EnteredTracked'
  BY DEF IInv, StartFlush, Goto, TypeOK, Shape, EnteredTracked, InGroup, Counted
<1> QED
  BY <1>2, <1>3, <1>4, <1>5, <1>6, <1>7 DEF IInv

\* A caller starts Wait and notes what is under way.
LEMMA StartWaitStep ==
    ASSUME IInv, NEW w \in Waiters, StartWait(w)
    PROVE IInv'
<1> USE ConstantsAssumption DEF ConstantsAssumption, Procs, store, channel, loop, history
<1>1. UNCHANGED <<Senders, Awaiting, Decrementing, ToConfirm, InGroup>>
  BY DEF IInv, StartWait, Counted, Goto, TypeOK, Shape,
        Senders, Awaiting, Decrementing, ToConfirm, Unconfirmed, InGroup, Counted
<1>2. TypeOK'
  BY DEF IInv, StartWait, Counted, Goto, TypeOK, PCs, Jobs
<1>3. Shape'
  BY DEF IInv, StartWait, Counted, Goto, TypeOK, Shape
<1>4. Counters'
  BY <1>1, CardsNat DEF IInv, StartWait, Counted, Goto, TypeOK, Counters
<1>5. NoWorkStranded'
  BY DEF IInv, StartWait, Counted, Goto, TypeOK, Shape, NoWorkStranded, InLoop, WillFlush
<1>6. Placed'
  BY DEF IInv, StartWait, Counted, Goto, TypeOK, Shape, Placed, Carries
<1>7. EnteredTracked'
  BY DEF IInv, StartWait, Counted, Goto, TypeOK, Shape, EnteredTracked, InGroup, Counted
<1> QED
  BY <1>2, <1>3, <1>4, <1>5, <1>6, <1>7 DEF IInv

\* A goroutine enters the wait group.
LEMMA EnterExecutionStep ==
    ASSUME IInv, NEW p \in Procs, EnterExecution(p)
    PROVE IInv'
<1> USE ConstantsAssumption DEF ConstantsAssumption, Procs, store, channel, loop, history
<1>1. /\ p \notin InGroup /\ InGroup' = InGroup \cup {p}
      /\ UNCHANGED <<Senders, Awaiting, Decrementing, ToConfirm>>
  BY DEF IInv, EnterExecution, BarrierFree, WaitGroupAdd, Goto, TypeOK, Shape,
        Senders, Awaiting, Decrementing, ToConfirm, Unconfirmed, InGroup, Counted
<1>2. /\ Cardinality(InGroup') = Cardinality(InGroup) + 1
  BY <1>1, CountedFinite, CardFacts
<1>3. TypeOK'
  BY DEF IInv, EnterExecution, BarrierFree, WaitGroupAdd, Goto, TypeOK, PCs, Jobs
<1>4. Shape'
  BY DEF IInv, EnterExecution, BarrierFree, WaitGroupAdd, Goto, TypeOK, Shape
<1>5. Counters'
  BY <1>1, <1>2, CardsNat DEF IInv, EnterExecution, BarrierFree, WaitGroupAdd, Goto, TypeOK,
     Counters
<1>6. NoWorkStranded'
  BY DEF IInv, EnterExecution, BarrierFree, WaitGroupAdd, Goto, TypeOK, Shape,
     NoWorkStranded, InLoop, WillFlush
<1>7. Placed'
  BY DEF IInv, EnterExecution, BarrierFree, WaitGroupAdd, Goto, TypeOK, Shape, Placed, Carries
<1>8. EnteredTracked'
  BY DEF IInv, EnterExecution, BarrierFree, WaitGroupAdd, Goto, TypeOK, Shape,
     EnteredTracked, InGroup, Counted
<1> QED
  BY <1>3, <1>4, <1>5, <1>6, <1>7, <1>8 DEF IInv

\* The container moves to the hand of the goroutine that flushes it.
LEMMA FlushRemoveAllStep ==
    ASSUME IInv, NEW p \in Procs, FlushRemoveAll(p)
    PROVE IInv'
<1> USE ConstantsAssumption DEF ConstantsAssumption, Procs, store, channel, loop, history
<1>1. UNCHANGED <<Senders, Awaiting, Decrementing, ToConfirm, InGroup>>
  BY DEF IInv, FlushRemoveAll, RemoveAll, Goto, TypeOK, Shape,
        Senders, Awaiting, Decrementing, ToConfirm, Unconfirmed, InGroup, Counted
<1>2. TypeOK'
  BY DEF IInv, FlushRemoveAll, RemoveAll, Goto, TypeOK, PCs, Jobs
<1>3. Shape'
  BY DEF IInv, FlushRemoveAll, RemoveAll, Goto, TypeOK, Shape
<1>4. Counters'
  BY <1>1, CardsNat DEF IInv, FlushRemoveAll, RemoveAll, Goto, TypeOK, Counters
<1>5. NoWorkStranded'
  BY DEF IInv, FlushRemoveAll, RemoveAll, Goto, TypeOK, Shape, NoWorkStranded, InLoop, WillFlush
<1>6. Placed'
  BY DEF IInv, FlushRemoveAll, RemoveAll, Goto, TypeOK, Shape, Placed, Carries
<1>7. EnteredTracked'
  BY DEF IInv, FlushRemoveAll, RemoveAll, Goto, TypeOK, Shape, EnteredTracked, InGroup, Counted
<1> QED
  BY <1>2, <1>3, <1>4, <1>5, <1>6, <1>7 DEF IInv

\* The batch in hand is executed.
LEMMA ExecuteTasksStep ==
    ASSUME IInv, NEW p \in Procs, ExecuteTasks(p)
    PROVE IInv'
<1> USE ConstantsAssumption DEF ConstantsAssumption, Procs, store, channel, loop, history
<1>1. UNCHANGED <<Senders, Awaiting, Decrementing, ToConfirm, InGroup>>
  BY DEF IInv, ExecuteTasks, Goto, TypeOK, Shape,
        Senders, Awaiting, Decrementing, ToConfirm, Unconfirmed, InGroup, Counted
<1>2. TypeOK'
  BY DEF IInv, ExecuteTasks, Goto, TypeOK, PCs, Jobs
<1>3. Shape'
  BY DEF IInv, ExecuteTasks, Goto, TypeOK, Shape
<1>4. Counters'
  BY <1>1, CardsNat DEF IInv, ExecuteTasks, Goto, TypeOK, Counters
<1>5. NoWorkStranded'
  BY DEF IInv, ExecuteTasks, Goto, TypeOK, Shape, NoWorkStranded, InLoop, WillFlush
<1>6. Placed'
  BY DEF IInv, ExecuteTasks, Goto, TypeOK, Shape, Placed, Carries
<1>7. EnteredTracked'
  BY DEF IInv, ExecuteTasks, Goto, TypeOK, Shape, EnteredTracked, InGroup, Counted
<1> QED
  BY <1>2, <1>3, <1>4, <1>5, <1>6, <1>7 DEF IInv

\* A goroutine leaves the wait group with its batch executed.
LEMMA DoneExecutionStep ==
    ASSUME IInv, NEW p \in Procs, DoneExecution(p)
    PROVE IInv'
<1> USE ConstantsAssumption DEF ConstantsAssumption, Procs, store, channel, loop, history
<1>1. /\ p \in InGroup /\ InGroup' = InGroup \ {p}
      /\ UNCHANGED <<Senders, Awaiting, Decrementing, ToConfirm>>
  BY DEF IInv, DoneExecution, WaitGroupDone, AfterExecution, Goto, TypeOK, Shape,
        Senders, Awaiting, Decrementing, ToConfirm, Unconfirmed, InGroup, Counted
<1>2. /\ Cardinality(InGroup') = Cardinality(InGroup) - 1 /\ Cardinality(InGroup) # 0
  BY <1>1, CountedFinite, CardFacts
<1>3. TypeOK'
  <2>1. waitGroup' \in Nat
    <3>1. waitGroup = Cardinality(InGroup) /\ waitGroup' = waitGroup - 1
      BY DEF IInv, DoneExecution, WaitGroupDone, Counters
    <3>2. Cardinality(InGroup) \in Nat
      BY CardsNat DEF IInv
    <3> QED
      BY <1>2, <3>1, <3>2
  <2>2. AfterExecution(p) \in PCs
    BY DEF AfterExecution, PCs
  <2> QED
    BY <2>1, <2>2 DEF IInv, DoneExecution, Goto, TypeOK, Jobs
<1>4. Shape'
  BY DEF IInv, DoneExecution, WaitGroupDone, AfterExecution, Goto, TypeOK, Shape
<1>5. Counters'
  BY <1>1, <1>2, CardsNat DEF IInv, DoneExecution, WaitGroupDone, AfterExecution, Goto,
     TypeOK, Counters
<1>6. NoWorkStranded'
  <2>1. /\ pc' = [pc EXCEPT ![p] = AfterExecution(p)] /\ job' = [job EXCEPT ![p] = "none"]
        /\ pc[p] = "done" /\ UNCHANGED <<container, commander, guarded>>
    BY DEF DoneExecution, Goto
  <2>2. \A g \in Flushers : InLoop(g)' <=> InLoop(g)
    <3>1. ASSUME NEW g \in Flushers, g # p PROVE InLoop(g)' <=> InLoop(g)
      BY <2>1, <3>1 DEF IInv, TypeOK, InLoop
    <3>2. CASE p \in Flushers
      <4>1. job[p] \in {"tick", "command", "final"}
        BY <2>1, <3>2 DEF IInv, TypeOK, Jobs, Shape
      <4>2. AfterExecution(p) = "idle" <=> job[p] = "final"
        BY <4>1 DEF AfterExecution
      <4>3. pc'[p] = AfterExecution(p) /\ job'[p] = "none"
        BY <2>1 DEF IInv, TypeOK
      <4>4. InLoop(p)' <=> InLoop(p)
        BY <2>1, <4>2, <4>3 DEF InLoop
      <4> QED
        BY <3>1, <4>4
    <3> QED
      BY <3>1, <3>2
  <2>3. \A g \in Flushers : WillFlush(g)' <=> WillFlush(g)
    BY <2>1 DEF IInv, TypeOK, WillFlush
  <2>4. \A c \in Callers : pc'[c] \in {"send", "await"} => pc[c] \in {"send", "await"}
    BY <2>1 DEF IInv, TypeOK, AfterExecution
  <2> QED
    BY <2>1, <2>2, <2>3, <2>4 DEF IInv, NoWorkStranded
<1>7. Placed'
  BY DEF IInv, DoneExecution, WaitGroupDone, AfterExecution, Goto, TypeOK, Shape, Placed,
     Carries
<1>8. EnteredTracked'
  BY DEF IInv, DoneExecution, WaitGroupDone, AfterExecution, Goto, TypeOK, Shape,
     EnteredTracked, InGroup, Counted
<1> QED
  BY <1>3, <1>4, <1>5, <1>6, <1>7, <1>8 DEF IInv

\* The batch moves from the commander to the background goroutine.
LEMMA RecvCommandStep ==
    ASSUME IInv, NEW f \in Flushers, RecvCommand(f)
    PROVE IInv'
<1> USE ConstantsAssumption DEF ConstantsAssumption, Procs, store, channel, loop, history
<1>1. /\ f \notin Decrementing /\ Decrementing' = Decrementing \cup {f}
      /\ f \notin ToConfirm /\ ToConfirm' = ToConfirm \cup {f}
      /\ UNCHANGED <<Senders, Awaiting, InGroup>>
  BY DEF IInv, RecvCommand, Goto, TypeOK, Shape,
        Senders, Awaiting, Decrementing, ToConfirm, Unconfirmed, InGroup, Counted
<1>2. /\ Cardinality(Decrementing') = Cardinality(Decrementing) + 1
      /\ Cardinality(ToConfirm') = Cardinality(ToConfirm) + 1
  BY <1>1, CountedFinite, CardFacts
<1>3. /\ Cardinality(commander) = 1 /\ Cardinality(commander') = 0
  BY CommanderCard, FS_EmptySet, FS_Singleton DEF IInv, RecvCommand, Goto, Shape
<1>4. TypeOK'
  BY DEF IInv, RecvCommand, Goto, TypeOK, PCs, Jobs
<1>5. Shape'
  BY DEF IInv, RecvCommand, Goto, TypeOK, Shape
<1>6. Counters'
  BY <1>1, <1>2, <1>3, CardsNat DEF IInv, RecvCommand, Counters
<1>7. NoWorkStranded'
  BY DEF IInv, RecvCommand, Goto, TypeOK, Shape, NoWorkStranded, InLoop, WillFlush
<1>8. Placed'
  BY DEF IInv, RecvCommand, Goto, TypeOK, Shape, Placed, Carries
<1>9. EnteredTracked'
  BY DEF IInv, RecvCommand, Goto, TypeOK, Shape, EnteredTracked, InGroup, Counted
<1> QED
  BY <1>4, <1>5, <1>6, <1>7, <1>8, <1>9 DEF IInv

\* The received batch is no longer counted.
LEMMA DecInflightStep ==
    ASSUME IInv, NEW f \in Flushers, DecInflight(f)
    PROVE IInv'
<1> USE ConstantsAssumption DEF ConstantsAssumption, Procs, store, channel, loop, history
<1>1. /\ f \in Decrementing /\ Decrementing' = Decrementing \ {f}
      /\ UNCHANGED <<Senders, Awaiting, ToConfirm, InGroup>>
  BY DEF IInv, DecInflight, InflightDec, Goto, TypeOK, Shape,
        Senders, Awaiting, Decrementing, ToConfirm, Unconfirmed, InGroup, Counted
<1>2. /\ Cardinality(Decrementing') = Cardinality(Decrementing) - 1 /\ Cardinality(Decrementing) # 0
  BY <1>1, CountedFinite, CardFacts
<1>3. TypeOK'
  <2>1. inflight' \in Nat
    BY <1>2, CardsNat DEF IInv, DecInflight, InflightDec, Counters
  <2> QED
    BY <2>1 DEF IInv, DecInflight, Goto, TypeOK, PCs, Jobs
<1>4. Shape'
  BY DEF IInv, DecInflight, InflightDec, Goto, TypeOK, Shape
<1>5. Counters'
  BY <1>1, <1>2, CardsNat DEF IInv, DecInflight, InflightDec, Goto, TypeOK, Counters
<1>6. NoWorkStranded'
  BY DEF IInv, DecInflight, InflightDec, Goto, TypeOK, Shape, NoWorkStranded, InLoop, WillFlush
<1>7. Placed'
  BY DEF IInv, DecInflight, InflightDec, Goto, TypeOK, Shape, Placed, Carries
<1>8. EnteredTracked'
  BY DEF IInv, DecInflight, InflightDec, Goto, TypeOK, Shape, EnteredTracked, InGroup, Counted
<1> QED
  BY <1>3, <1>4, <1>5, <1>6, <1>7, <1>8 DEF IInv

\* A tick.
LEMMA TickStep ==
    ASSUME IInv, NEW f \in Flushers, Tick(f)
    PROVE IInv'
<1> USE ConstantsAssumption DEF ConstantsAssumption, Procs, store, channel, loop, history
<1>1. UNCHANGED <<Senders, Awaiting, Decrementing, ToConfirm, InGroup>>
  BY DEF IInv, Tick, Goto, TypeOK, Shape,
        Senders, Awaiting, Decrementing, ToConfirm, Unconfirmed, InGroup, Counted
<1>2. TypeOK'
  BY DEF IInv, Tick, Goto, TypeOK, PCs, Jobs
<1>3. Shape'
  BY DEF IInv, Tick, Goto, TypeOK, Shape
<1>4. Counters'
  BY <1>1, CardsNat DEF IInv, Tick, Goto, TypeOK, Counters
<1>5. NoWorkStranded'
  BY DEF IInv, Tick, Goto, TypeOK, Shape, NoWorkStranded, InLoop, WillFlush
<1>6. Placed'
  BY DEF IInv, Tick, Goto, TypeOK, Shape, Placed, Carries
<1>7. EnteredTracked'
  BY DEF IInv, Tick, Goto, TypeOK, Shape, EnteredTracked, InGroup, Counted
<1> QED
  BY <1>2, <1>3, <1>4, <1>5, <1>6, <1>7 DEF IInv

\* The goroutine quits: with inflight zero there is no sender and no batch in the
\* commander, and as the only loop has nothing to confirm, nobody awaits it.
LEMMA ShallQuitStep ==
    ASSUME IInv, NEW f \in Flushers, ShallQuit(f)
    PROVE IInv'
<1> USE ConstantsAssumption DEF ConstantsAssumption, Procs, store, channel, loop, history
<1>1. UNCHANGED <<Senders, Awaiting, Decrementing, ToConfirm, InGroup>>
  BY DEF IInv, ShallQuit, NothingInflight, Goto, TypeOK, Shape,
        Senders, Awaiting, Decrementing, ToConfirm, Unconfirmed, InGroup, Counted
<1>2. TypeOK'
  BY DEF IInv, ShallQuit, NothingInflight, Goto, TypeOK, PCs, Jobs
<1>3. Shape'
  BY DEF IInv, ShallQuit, NothingInflight, Goto, TypeOK, Shape
<1>4. Counters'
  BY <1>1, CardsNat DEF IInv, ShallQuit, NothingInflight, Goto, TypeOK, Counters
<1>5. NoWorkStranded'
  <2>1. Cardinality(Senders) = 0 /\ Cardinality(commander) = 0
    BY CardsNat DEF IInv, ShallQuit, NothingInflight, Counters
  <2>2. Senders = {} /\ commander = {}
    BY <2>1, CountedFinite, CardFacts, CommanderCard DEF IInv, Shape
  <2>3. \A g \in Flushers : InLoop(g) => g = f
    BY DEF IInv, ShallQuit, NoWorkStranded, InLoop, Shape
  <2>4. ToConfirm = {}
    BY <2>3 DEF IInv, ShallQuit, Shape, ToConfirm, Unconfirmed, InLoop
  <2>5. Awaiting = {}
    <3>1. Cardinality(ToConfirm) = 0
      BY <2>4, FS_EmptySet
    <3> QED
      BY <2>1, <3>1, CountedFinite, CardFacts DEF IInv, Counters
  <2>6. /\ pc' = [pc EXCEPT ![f] = "enter"] /\ job' = [job EXCEPT ![f] = "final"]
        /\ guarded' = FALSE /\ UNCHANGED <<container, commander>>
    BY DEF ShallQuit, Goto
  <2>7. (\A g \in Flushers : ~InLoop(g)') /\ WillFlush(f)'
    BY <2>3, <2>6 DEF IInv, TypeOK, InLoop, WillFlush
  <2>8. \A c \in Callers : pc'[c] \notin {"send", "await"}
    BY <2>2, <2>5, <2>6 DEF IInv, TypeOK, Senders, Awaiting
  <2> QED
    BY <2>2, <2>6, <2>7, <2>8 DEF NoWorkStranded
<1>6. Placed'
  BY DEF IInv, ShallQuit, NothingInflight, Goto, TypeOK, Shape, Placed, Carries
<1>7. EnteredTracked'
  BY DEF IInv, ShallQuit, NothingInflight, Goto, TypeOK, Shape, EnteredTracked,
     InGroup, Counted
<1> QED
  BY <1>2, <1>3, <1>4, <1>5, <1>6, <1>7 DEF IInv

\* The idle period is not over.
LEMMA KeepRunningStep ==
    ASSUME IInv, NEW f \in Flushers, KeepRunning(f)
    PROVE IInv'
<1> USE ConstantsAssumption DEF ConstantsAssumption, Procs, store, channel, loop, history
<1>1. UNCHANGED <<Senders, Awaiting, Decrementing, ToConfirm, InGroup>>
  BY DEF IInv, KeepRunning, Goto, TypeOK, Shape,
        Senders, Awaiting, Decrementing, ToConfirm, Unconfirmed, InGroup, Counted
<1>2. TypeOK'
  BY DEF IInv, KeepRunning, Goto, TypeOK, PCs, Jobs
<1>3. Shape'
  BY DEF IInv, KeepRunning, Goto, TypeOK, Shape
<1>4. Counters'
  BY <1>1, CardsNat DEF IInv, KeepRunning, Goto, TypeOK, Counters
<1>5. NoWorkStranded'
  BY DEF IInv, KeepRunning, Goto, TypeOK, Shape, NoWorkStranded, InLoop, WillFlush
<1>6. Placed'
  BY DEF IInv, KeepRunning, Goto, TypeOK, Shape, Placed, Carries
<1>7. EnteredTracked'
  BY DEF IInv, KeepRunning, Goto, TypeOK, Shape, EnteredTracked, InGroup, Counted
<1> QED
  BY <1>2, <1>3, <1>4, <1>5, <1>6, <1>7 DEF IInv

\* One batch and one caller are confirmed.
LEMMA ConfirmStep ==
    ASSUME IInv, NEW f \in Flushers, NEW c \in Callers, Confirm(f, c)
    PROVE IInv'
<1> USE ConstantsAssumption DEF ConstantsAssumption, Procs, store, channel, loop, history
<1>1. /\ c \in Awaiting /\ Awaiting' = Awaiting \ {c}
      /\ f \in ToConfirm /\ ToConfirm' = ToConfirm \ {f}
      /\ UNCHANGED <<Senders, Decrementing, InGroup>>
  BY DEF IInv, Confirm, TypeOK, Shape,
        Senders, Awaiting, Decrementing, ToConfirm, Unconfirmed, InGroup, Counted
<1>2. /\ Cardinality(Awaiting') = Cardinality(Awaiting) - 1 /\ Cardinality(Awaiting) # 0
      /\ Cardinality(ToConfirm') = Cardinality(ToConfirm) - 1 /\ Cardinality(ToConfirm) # 0
  BY <1>1, CountedFinite, CardFacts
<1>3. TypeOK'
  BY DEF IInv, Confirm, TypeOK, PCs, Jobs
<1>4. Shape'
  BY DEF IInv, Confirm, TypeOK, Shape
<1>5. Counters'
  BY <1>1, <1>2, CardsNat DEF IInv, Confirm, TypeOK, Counters
<1>6. NoWorkStranded'
  BY DEF IInv, Confirm, TypeOK, Shape, NoWorkStranded, InLoop, WillFlush
<1>7. Placed'
  BY DEF IInv, Confirm, TypeOK, Shape, Placed, Carries
<1>8. EnteredTracked'
  BY DEF IInv, Confirm, TypeOK, Shape, EnteredTracked, InGroup, Counted
<1> QED
  BY <1>3, <1>4, <1>5, <1>6, <1>7, <1>8 DEF IInv
-----------------------------------------------------------------------------
\* The inductive invariant holds initially, is kept by every step, and is an
\* invariant of the specification.
LEMMA InitIInv == Init => IInv
<1> SUFFICES ASSUME Init PROVE IInv
  OBVIOUS
<1> USE ConstantsAssumption DEF ConstantsAssumption, Procs, Init
<1>1. TypeOK
  BY DEF TypeOK, PCs, Jobs, NoWait
<1>2. Shape
  BY DEF Shape
<1>3. Counters
  <2>1. Senders = {} /\ Awaiting = {} /\ Decrementing = {} /\ ToConfirm = {} /\ InGroup = {}
    BY DEF Senders, Awaiting, Decrementing, ToConfirm, Unconfirmed, InGroup, Counted
  <2> QED
    BY <2>1, FS_EmptySet DEF Counters
<1>4. NoWorkStranded
  BY DEF NoWorkStranded, InLoop, WillFlush
<1>5. Placed
  BY DEF Placed, Carries
<1>6. EnteredTracked
  BY DEF EnteredTracked, NoWait
<1> QED
  BY <1>1, <1>2, <1>3, <1>4, <1>5, <1>6 DEF IInv

\* Stuttering.
LEMMA StutterStep == IInv /\ UNCHANGED vars => IInv'
<1> SUFFICES ASSUME IInv, UNCHANGED vars PROVE IInv'
  OBVIOUS
<1> USE DEF vars, store, channel, loop, history
<1>1. TypeOK' /\ Shape' /\ Counters'
  BY DEF IInv, TypeOK, Shape, Counters, Senders, Awaiting, Decrementing, ToConfirm, Unconfirmed,
         InGroup, Counted
<1>2. NoWorkStranded' /\ Placed' /\ EnteredTracked'
  BY DEF IInv, NoWorkStranded, InLoop, WillFlush, Placed, Carries, EnteredTracked, InGroup,
     Counted
<1> QED
  BY <1>1, <1>2 DEF IInv

\* Every action.
LEMMA NextStep == IInv /\ [Next]_vars => IInv'
<1> SUFFICES ASSUME IInv, [Next]_vars PROVE IInv'
  OBVIOUS
<1>1. CASE UNCHANGED vars
  BY <1>1, StutterStep
<1>2. ASSUME NEW c \in Callers, NEW t \in Tasks, AddToContainer(c, t) \/ AddAndTakeAll(c, t)
      PROVE IInv'
  BY <1>2, AddToContainerStep, AddAndTakeAllStep
<1>3. ASSUME NEW c \in Callers, SendCommand(c) \/ WaitBarrier(c) \/ WaitReturn(c)
      PROVE IInv'
  BY <1>3, SendCommandStep, WaitBarrierStep, WaitReturnStep
<1>4. ASSUME NEW w \in Waiters, StartFlush(w) \/ StartWait(w)
      PROVE IInv'
  BY <1>4, StartFlushStep, StartWaitStep
<1>5. ASSUME NEW p \in Procs, \/ EnterExecution(p) \/ FlushRemoveAll(p)
                              \/ ExecuteTasks(p) \/ DoneExecution(p)
      PROVE IInv'
  BY <1>5, EnterExecutionStep, FlushRemoveAllStep, ExecuteTasksStep, DoneExecutionStep
<1>6. ASSUME NEW f \in Flushers, \/ RecvCommand(f) \/ DecInflight(f) \/ Tick(f)
                                 \/ ShallQuit(f) \/ KeepRunning(f)
      PROVE IInv'
  BY <1>6, RecvCommandStep, DecInflightStep, TickStep, ShallQuitStep, KeepRunningStep
<1>7. ASSUME NEW f \in Flushers, NEW c \in Callers, Confirm(f, c)
      PROVE IInv'
  BY <1>7, ConfirmStep
<1> QED
  BY <1>1, <1>2, <1>3, <1>4, <1>5, <1>6, <1>7 DEF Next

\* IInv is an invariant.
LEMMA Invariance == Spec => []IInv
  BY InitIInv, NextStep, PTL DEF Spec
-----------------------------------------------------------------------------
\* The variables keep their types; in particular pe.inflight and the wait group
\* never go below zero.
THEOREM TypeCorrect == Spec => []TypeOK
<1>1. IInv => TypeOK
  BY DEF IInv
<1> QED
  BY <1>1, Invariance, PTL

\* No interleaving of Add, Flush, Wait, ticks and quits loses a task or
\* executes one twice.
THEOREM Conservation == Spec => []TasksConserved
<1>1. IInv => TasksConserved
  <2> SUFFICES ASSUME IInv PROVE TasksConserved
    OBVIOUS
  <2>1. \A p \in Procs, t \in Tasks : t \in Pending(p) <=> Carries(p, t)
    BY DEF Pending, Carries
  <2>2. /\ \A p \in Procs : Pending(p) \subseteq Tasks
        /\ container \subseteq Tasks /\ executed \subseteq Tasks /\ (UNION commander) \subseteq Tasks
        /\ Added \subseteq Tasks
    BY DEF IInv, TypeOK, Pending, Added
  <2>3. Added = container \cup executed \cup (UNION commander)
                \cup (UNION {Pending(p) : p \in Procs})
    <3>1. \A t \in Tasks : t \in Added <=> t \in returned \/ \E c \in Callers : t \in adding[c]
      BY DEF Added
    <3>2. \A t \in Tasks : t \in UNION {Pending(p) : p \in Procs} <=> \E p \in Procs : Carries(p, t)
      BY <2>1
    <3>3. \A t \in Tasks : t \in UNION commander <=> \E b \in commander : t \in b
      OBVIOUS
    <3>4. UNION {Pending(p) : p \in Procs} \subseteq Tasks
      BY <2>2
    <3>5. \A t \in Tasks :
            t \in Added <=> \/ t \in container \/ t \in executed \/ t \in UNION commander
                           \/ t \in UNION {Pending(p) : p \in Procs}
      BY <3>1, <3>2, <3>3 DEF IInv, Placed
    <3> DEFINE Sent == UNION commander
               Held == UNION {Pending(p) : p \in Procs}
    <3>6. /\ Sent \subseteq Tasks /\ Held \subseteq Tasks
          /\ \A t \in Tasks :
               t \in Added <=> t \in container \/ t \in executed \/ t \in Sent \/ t \in Held
      BY <2>2, <3>4, <3>5
    <3> HIDE DEF Sent, Held
    <3>7. Added = container \cup executed \cup Sent \cup Held
      BY <2>2, <3>6
    <3> QED
      BY <3>7 DEF Sent, Held
  <2>4. container \cap executed = {} /\ (UNION commander) \cap (container \cup executed) = {}
    <3>1. \A t \in Tasks : t \in container => t \notin executed
      BY DEF IInv, Placed
    <3>2. \A t \in Tasks, b \in commander : t \in b => t \notin container /\ t \notin executed
      BY DEF IInv, Placed
    <3>3. container \cap executed = {}
      BY <2>2, <3>1
    <3>4. ASSUME NEW b \in commander PROVE b \cap (container \cup executed) = {}
      BY <2>2, <3>2
    <3> QED
      BY <3>3, <3>4
  <2>5. ASSUME NEW p \in Procs
        PROVE /\ Pending(p) \cap (container \cup executed \cup (UNION commander)) = {}
              /\ \A q \in Procs \ {p} : Pending(p) \cap Pending(q) = {}
    BY <2>1, <2>2 DEF IInv, Placed
  <2> QED
    BY <2>3, <2>4, <2>5 DEF TasksConserved
<1> QED
  BY <1>1, Invariance, PTL

\* Quitting the idle background goroutine never strands a batch or a task.
THEOREM QuitIsSafe == Spec => []NoWorkStranded
<1>1. IInv => NoWorkStranded
  BY DEF IInv
<1> QED
  BY <1>1, Invariance, PTL

\* pe.inflight counts the batches not yet received, and the confirmations match
\* the callers waiting for one.
THEOREM CountersMatch == Spec => [](InflightCounts /\ ConfirmBalance)
<1>1. IInv => InflightCounts /\ ConfirmBalance
  BY DEF IInv, Counters, Senders, Awaiting, Decrementing, ToConfirm, InflightCounts,
     ConfirmBalance
<1> QED
  BY <1>1, Invariance, PTL

\* wgBarrier keeps the wait group from being raised while Wait is blocked in it.
THEOREM BarrierHolds == Spec => NoAddDuringWait
<1>1. ASSUME IInv, [Next]_vars,
             NEW c \in Callers, pc[c] = "wgwait", pc'[c] = "wgwait"
      PROVE waitGroup' <= waitGroup
  <2>1. waitGroup \in Nat
    BY <1>1 DEF IInv, TypeOK
  <2>2. \A p \in Procs : ~EnterExecution(p)
    BY <1>1 DEF EnterExecution, BarrierFree
  <2>3. waitGroup' = waitGroup \/ waitGroup' = waitGroup - 1
    BY <1>1, <2>2 DEF Next, vars, AddToContainer, AddAndTakeAll, SendCommand, WaitBarrier,
       WaitReturn, StartFlush, StartWait, FlushRemoveAll, ExecuteTasks, DoneExecution,
       WaitGroupDone, RecvCommand, DecInflight, Tick, ShallQuit, KeepRunning, Confirm
  <2> QED
    BY <2>1, <2>3
<1>2. IInv /\ [Next]_vars =>
        [(\E c \in Callers : pc[c] = "wgwait" /\ pc'[c] = "wgwait") => waitGroup' <= waitGroup]_vars
  BY <1>1
<1> QED
  BY <1>2, Invariance, PTL DEF Spec, NoAddDuringWait

\* When Wait returns, the executions under way when it was called are over.
THEOREM WaitCovers == Spec => WaitCoversEntered
<1>1. ASSUME IInv, [Next]_vars, NEW c \in Callers, WaitReturns(c)
      PROVE atWait[c].entered \subseteq executed
  <2>1. \E d \in Callers : WaitReturn(d)
    <3>1. pc[c] = "wgwait" /\ pc'[c] = "idle" /\ c \in Procs /\ pc \in [Procs -> PCs]
      BY <1>1 DEF IInv, TypeOK, WaitReturns, Procs
    <3>2. ASSUME NEW d \in Callers, NEW t \in Tasks, AddToContainer(d, t) \/ AddAndTakeAll(d, t)
          PROVE FALSE
      BY <3>1, <3>2 DEF AddToContainer, AddAndTakeAll, BackgroundFlush, Goto
    <3>3. ASSUME NEW d \in Callers,
                 SendCommand(d) \/ WaitBarrier(d) \/ StartFlush(d) \/ StartWait(d)
          PROVE FALSE
      BY <3>1, <3>3 DEF SendCommand, WaitBarrier, StartFlush, StartWait, Goto
    <3>4. ASSUME NEW p \in Procs, \/ EnterExecution(p) \/ FlushRemoveAll(p)
                                  \/ ExecuteTasks(p) \/ DoneExecution(p)
          PROVE FALSE
      BY <3>1, <3>4 DEF EnterExecution, FlushRemoveAll, ExecuteTasks, DoneExecution, Goto
    <3>5. ASSUME NEW f \in Flushers, \/ RecvCommand(f) \/ DecInflight(f) \/ Tick(f)
                                     \/ ShallQuit(f) \/ KeepRunning(f)
          PROVE FALSE
      BY <3>1, <3>5 DEF RecvCommand, DecInflight, Tick, ShallQuit, KeepRunning, Goto
    <3>6. ASSUME NEW f \in Flushers, NEW d \in Callers, Confirm(f, d)
          PROVE FALSE
      BY <3>1, <3>6 DEF Confirm
    <3>7. ~UNCHANGED vars
      BY <3>1 DEF vars
    <3> QED
      BY <1>1, <3>2, <3>3, <3>4, <3>5, <3>6, <3>7, ConstantsAssumption DEF Next,
         ConstantsAssumption
  <2>2. InGroup = {}
    BY <2>1, <1>1, CountedFinite, CardFacts DEF WaitReturn, WaitGroupReady, IInv, Counters
  <2> QED
    BY <1>1, <2>2 DEF IInv, EnteredTracked
<1>2. IInv /\ [Next]_vars =>
        [\A c \in Callers : WaitReturns(c) => atWait[c].entered \subseteq executed]_vars
  BY <1>1
<1> QED
  BY <1>2, Invariance, PTL DEF Spec, WaitCoversEntered
=============================================================================
