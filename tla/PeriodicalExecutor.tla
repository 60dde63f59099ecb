------------------------- MODULE PeriodicalExecutor -------------------------
(***************************************************************************)
(* core/executors: the PeriodicalExecutor and the task containers of the   *)
(* BulkExecutor and the ChunkExecutor.                                     *)
(*                                                                         *)
(* Callers add tasks to a container guarded by a lock.  A full container   *)
(* is emptied by the caller, handed over the commander channel to a        *)
(* background goroutine and confirmed by it; a container that does not     *)
(* fill up is flushed by that goroutine on a tick.  The goroutine is       *)
(* started by the first Add, quits when it has been idle, and is started   *)
(* again by a later Add.                                                   *)
(*                                                                         *)
(* Every critical section of pe.lock is one action: no step blocks while   *)
(* it holds the lock.  The wgBarrier is held across steps only by Wait.    *)
(***************************************************************************)
EXTENDS Integers, FiniteSets, FiniteSetsExt

CONSTANTS
    Callers,     \* goroutines that call Add
    Waiters,     \* those among them that also call Flush and Wait
    Flushers,    \* identities for background goroutines (bounds how many coexist)
    Tasks,       \* tasks, each added at most once (bounds the number of Adds)
    Size,        \* size of a task: 1 for a bulkContainer, chunk.size for a chunkContainer
    MaxSize      \* bulkContainer.maxTasks or chunkContainer.maxChunkSize

ASSUME ConstantsAssumption ==
    /\ IsFiniteSet(Callers) /\ IsFiniteSet(Flushers)
    /\ Callers \cap Flushers = {} /\ Waiters \subseteq Callers
    /\ Size \in [Tasks -> Nat]
    /\ MaxSize \in Nat \ {0}

VARIABLES
    pc,          \* where each goroutine is
    job,         \* why it is in the flush procedure, see Jobs
    hand,        \* the batch of tasks it carries
    container,   \* the tasks in the container
    size,        \* the container's running size
    commander,   \* the channel with room for one batch: the set of batches in it
    inflight,    \* pe.inflight
    guarded,     \* pe.guarded
    commanded,   \* the local variable of each background goroutine
    waitGroup,   \* counter of pe.waitGroup
    executed,    \* history: tasks passed to container.Execute
    adding,      \* history: the task a caller is in Add with, as a set
    returned,    \* history: tasks whose Add has returned
    atWait       \* history: what a caller's Wait saw when it was called

store == <<container, size>>
channel == <<commander, inflight>>
loop == <<guarded, commanded>>
history == <<adding, returned, atWait>>
vars == <<pc, job, hand, store, channel, loop, waitGroup, executed, history>>

Procs == Callers \cup Flushers

\* "flush", "wait": a caller's Flush and the one inside Wait; "tick": the flush
\* of a background tick; "command": a batch received from the commander;
\* "final": the deferred flush of a goroutine that quits.
Jobs == {"none", "flush", "wait", "tick", "command", "final"}

PCs == {"idle", "send", "await", "enter", "remove", "confirm", "execute",
        "done", "barrier", "wgwait", "select", "dec", "quit"}

NoWait == [returned |-> {}, entered |-> {}]

Goto(p, l) == pc' = [pc EXCEPT ![p] = l]

\* Tasks passed to Add so far.
Added == returned \cup (UNION {adding[c] : c \in Callers})

\* The batch p still has to execute.
Pending(p) == IF pc[p] = "done" THEN {} ELSE hand[p]

\* p is counted in the wait group.
Counted(p) == pc[p] \in {"remove", "confirm", "execute", "done"}

Init ==
    /\ pc = [p \in Procs |-> "idle"]
    /\ job = [p \in Procs |-> "none"]
    /\ hand = [p \in Procs |-> {}]
    /\ container = {} /\ size = 0
    /\ commander = {} /\ inflight = 0 /\ guarded = FALSE
    /\ commanded = [f \in Flushers |-> FALSE]
    /\ waitGroup = 0
    /\ executed = {} /\ returned = {}
    /\ adding = [c \in Callers |-> {}]
    /\ atWait = [c \in Callers |-> NoWait]
-----------------------------------------------------------------------------
(* The task container: the tasks and their running size.                   *)

\* What AddTask answers: the container needs to be flushed.
Full(t) == size + Size[t] >= MaxSize

AddTask(t) == container' = container \cup {t} /\ size' = size + Size[t]

\* Mutant of RemoveAll: the tasks stay.
RemoveAllCopies == UNCHANGED <<container, size>>

RemoveAll == container' = {} /\ size' = 0
-----------------------------------------------------------------------------
(* The wait group and the lock around its Add and its Wait.                 *)

\* Mutant of WaitGroupReady: Wait does not block.
WaitAlwaysReady == TRUE

\* wgBarrier is free: no Wait is inside Guard(waitGroup.Wait).
BarrierFree == \A c \in Callers : pc[c] # "wgwait"

WaitGroupAdd == waitGroup' = waitGroup + 1

WaitGroupDone == waitGroup' = waitGroup - 1

WaitGroupReady == waitGroup = 0
-----------------------------------------------------------------------------
(* Add *)

\* Add starts the background goroutine, after the unlock, when pe.guarded was
\* not set: a goroutine in its loop with a fresh local state.
BackgroundFlush(c, l) ==
    IF guarded
    THEN Goto(c, l) /\ UNCHANGED loop
    ELSE \E f \in Flushers :
            /\ pc[f] = "idle"
            /\ pc' = [pc EXCEPT ![c] = l, ![f] = "select"]
            /\ commanded' = [commanded EXCEPT ![f] = FALSE]
            /\ guarded' = TRUE

\* addAndCheck for a task that does not fill the container: Add returns.
AddToContainer(c, t) ==
    /\ pc[c] = "idle" /\ t \notin Added
    /\ ~Full(t)
    /\ AddTask(t)
    /\ BackgroundFlush(c, "idle")
    /\ returned' = returned \cup {t}
    /\ UNCHANGED <<job, hand, channel, waitGroup, executed, adding, atWait>>

\* addAndCheck for a task that fills it: the caller takes the whole batch.
AddAndTakeAll(c, t) ==
    /\ pc[c] = "idle" /\ t \notin Added
    /\ Full(t)
    /\ inflight' = inflight + 1
    /\ hand' = [hand EXCEPT ![c] = container \cup {t}]
    /\ RemoveAll
    /\ BackgroundFlush(c, "send")
    /\ adding' = [adding EXCEPT ![c] = {t}]
    /\ UNCHANGED <<job, commander, waitGroup, executed, returned, atWait>>

CommanderHasRoom == commander = {}

\* pe.commander <- vals
SendCommand(c) ==
    /\ pc[c] = "send"
    /\ CommanderHasRoom
    /\ commander' = {hand[c]}
    /\ hand' = [hand EXCEPT ![c] = {}]
    /\ Goto(c, "await")
    /\ UNCHANGED <<job, store, inflight, loop, waitGroup, executed, history>>

\* The rendezvous on pe.confirmChan: the confirmation goes to whichever caller
\* is waiting, not necessarily to the one whose batch is confirmed.
Confirm(f, c) ==
    /\ pc[f] = "confirm" /\ pc[c] = "await"
    /\ pc' = [pc EXCEPT ![f] = "execute", ![c] = "idle"]
    /\ returned' = returned \cup adding[c]
    /\ adding' = [adding EXCEPT ![c] = {}]
    /\ UNCHANGED <<job, hand, store, channel, loop, waitGroup, executed, atWait>>
-----------------------------------------------------------------------------
(* Flush and Wait.  A flush enters the wait group, empties the container,   *)
(* executes what it got and leaves the wait group.                          *)

StartFlush(c) ==
    /\ pc[c] = "idle"
    /\ job' = [job EXCEPT ![c] = "flush"]
    /\ Goto(c, "enter")
    /\ UNCHANGED <<hand, store, channel, loop, waitGroup, executed, history>>

StartWait(c) ==
    /\ pc[c] = "idle"
    /\ job' = [job EXCEPT ![c] = "wait"]
    /\ atWait' = [atWait EXCEPT ![c] =
                    [returned |-> returned,
                     entered |-> UNION {hand[p] : p \in {q \in Procs : Counted(q)}}]]
    /\ Goto(c, "enter")
    /\ UNCHANGED <<hand, store, channel, loop, waitGroup, executed, adding, returned>>

EnterExecution(p) ==
    /\ pc[p] = "enter"
    /\ BarrierFree
    /\ WaitGroupAdd
    /\ Goto(p, IF job[p] = "command" THEN "confirm" ELSE "remove")
    /\ UNCHANGED <<job, hand, store, channel, loop, executed, history>>

FlushRemoveAll(p) ==
    /\ pc[p] = "remove"
    /\ hand' = [hand EXCEPT ![p] = container]
    /\ RemoveAll
    /\ Goto(p, "execute")
    /\ UNCHANGED <<job, channel, loop, waitGroup, executed, history>>

\* container.Execute inside RunSafe: a panic of the callback ends it as well.
ExecuteTasks(p) ==
    /\ pc[p] = "execute"
    /\ executed' = executed \cup hand[p]
    /\ Goto(p, "done")
    /\ UNCHANGED <<job, hand, store, channel, loop, waitGroup, history>>

\* Where the caller of executeTasks continues, given whether it had tasks.
AfterExecution(p) ==
    CASE job[p] = "wait"    -> "barrier"
      [] job[p] = "command" -> "select"
      [] job[p] = "tick"    -> IF hand[p] = {} THEN "quit" ELSE "select"
      [] OTHER              -> "idle"

DoneExecution(p) ==
    /\ pc[p] = "done"
    /\ WaitGroupDone
    /\ Goto(p, AfterExecution(p))
    /\ hand' = [hand EXCEPT ![p] = {}]
    /\ job' = [job EXCEPT ![p] = "none"]
    /\ UNCHANGED <<store, channel, loop, executed, history>>

\* Wait acquires wgBarrier and then blocks in waitGroup.Wait while holding it.
WaitBarrier(c) ==
    /\ pc[c] = "barrier"
    /\ BarrierFree
    /\ Goto(c, "wgwait")
    /\ UNCHANGED <<job, hand, store, channel, loop, waitGroup, executed, history>>

WaitReturn(c) ==
    /\ pc[c] = "wgwait"
    /\ WaitGroupReady
    /\ Goto(c, "idle")
    /\ atWait' = [atWait EXCEPT ![c] = NoWait]
    /\ UNCHANGED <<job, hand, store, channel, loop, waitGroup, executed, adding, returned>>
-----------------------------------------------------------------------------
(* The background goroutine *)

\* Mutant of RecvCommand: the loop waits until nothing is inflight.
RecvNotInflight(f) ==
    /\ pc[f] = "select" /\ inflight = 0
    /\ \E vals \in commander : hand' = [hand EXCEPT ![f] = vals] /\ commander' = {}
    /\ commanded' = [commanded EXCEPT ![f] = TRUE]
    /\ Goto(f, "dec")
    /\ UNCHANGED <<job, store, inflight, guarded, waitGroup, executed, history>>

\* case vals := <-pe.commander
RecvCommand(f) ==
    /\ pc[f] = "select"
    /\ \E vals \in commander :
          /\ hand' = [hand EXCEPT ![f] = vals]
          /\ commander' = {}
    /\ commanded' = [commanded EXCEPT ![f] = TRUE]
    /\ Goto(f, "dec")
    /\ UNCHANGED <<job, store, inflight, guarded, waitGroup, executed, history>>

\* Mutant of NothingInflight: quitting ignores inflight.
QuitUnchecked == TRUE

InflightDec == inflight' = inflight - 1

DecInflight(f) ==
    /\ pc[f] = "dec"
    /\ InflightDec
    /\ job' = [job EXCEPT ![f] = "command"]
    /\ Goto(f, "enter")
    /\ UNCHANGED <<hand, store, commander, loop, waitGroup, executed, history>>

\* Mutant of Tick: a tick never flushes.
TickOnly(f) ==
    /\ pc[f] = "select"
    /\ commanded' = [commanded EXCEPT ![f] = FALSE]
    /\ UNCHANGED <<pc, job, hand, store, channel, guarded, waitGroup, executed, history>>

\* case <-ticker.Chan(): a tick after a command only clears commanded.
Tick(f) ==
    /\ pc[f] = "select"
    /\ IF commanded[f]
       THEN commanded' = [commanded EXCEPT ![f] = FALSE] /\ UNCHANGED <<pc, job>>
       ELSE /\ job' = [job EXCEPT ![f] = "tick"]
            /\ Goto(f, "enter")
            /\ UNCHANGED commanded
    /\ UNCHANGED <<hand, store, channel, guarded, waitGroup, executed, history>>

\* shallQuit may stop the loop only when no Add has a batch to hand over.
NothingInflight == inflight = 0

\* shallQuit after a flush without tasks; then the deferred pe.Flush().  Time is left out: whether the idle
\* period has passed is a nondeterministic choice between these two actions.
ShallQuit(f) ==
    /\ pc[f] = "quit"
    /\ NothingInflight
    /\ guarded' = FALSE
    /\ job' = [job EXCEPT ![f] = "final"]
    /\ Goto(f, "enter")
    /\ UNCHANGED <<hand, store, channel, commanded, waitGroup, executed, history>>

KeepRunning(f) ==
    /\ pc[f] = "quit"
    /\ Goto(f, "select")
    /\ UNCHANGED <<job, hand, store, channel, loop, waitGroup, executed, history>>
-----------------------------------------------------------------------------
Next ==
    \/ \E c \in Callers, t \in Tasks : AddToContainer(c, t) \/ AddAndTakeAll(c, t)
    \/ \E c \in Callers : SendCommand(c) \/ WaitBarrier(c) \/ WaitReturn(c)
    \/ \E c \in Waiters : StartFlush(c) \/ StartWait(c)
    \/ \E p \in Procs : \/ EnterExecution(p) \/ FlushRemoveAll(p)
                        \/ ExecuteTasks(p) \/ DoneExecution(p)
    \/ \E f \in Flushers : \/ RecvCommand(f) \/ DecInflight(f) \/ Tick(f)
                           \/ ShallQuit(f) \/ KeepRunning(f)
    \/ \E f \in Flushers, c \in Callers : Confirm(f, c)

Spec == Init /\ [][Next]_vars

(***************************************************************************)
(* Fairness.  A goroutine that can run does run.  The blocked senders and  *)
(* receivers of a Go channel are served in order, a sync.Mutex does not    *)
(* starve a waiter, and select picks among the ready cases at random, so a *)
(* step that can be taken again and again is taken (SF).  Nothing makes a  *)
(* caller start an operation.                                              *)
(***************************************************************************)
CallerStep(c) ==
    \/ SendCommand(c) \/ WaitBarrier(c) \/ WaitReturn(c) \/ EnterExecution(c)
    \/ FlushRemoveAll(c) \/ ExecuteTasks(c) \/ DoneExecution(c)
    \/ \E f \in Flushers : Confirm(f, c)

FlusherStep(f) ==
    \/ Tick(f) \/ DecInflight(f) \/ ShallQuit(f) \/ KeepRunning(f) \/ EnterExecution(f)
    \/ FlushRemoveAll(f) \/ ExecuteTasks(f) \/ DoneExecution(f)

Fairness ==
    /\ SF_vars(\E f \in Flushers : RecvCommand(f))
    /\ \A c \in Callers : SF_vars(CallerStep(c))
    /\ \A f \in Flushers : SF_vars(FlusherStep(f))

FairSpec == Spec /\ Fairness
-----------------------------------------------------------------------------
(* Properties *)

\* Types of the variables.  The counters are naturals: pe.inflight never goes
\* below zero, and neither does the wait group, whose Done would panic.
TypeOK ==
    /\ pc \in [Procs -> PCs]
    /\ job \in [Procs -> Jobs]
    /\ hand \in [Procs -> SUBSET Tasks]
    /\ container \in SUBSET Tasks /\ size \in Nat
    /\ commander \in SUBSET SUBSET Tasks
    /\ inflight \in Nat /\ guarded \in BOOLEAN
    /\ commanded \in [Flushers -> BOOLEAN]
    /\ waitGroup \in Nat
    /\ executed \in SUBSET Tasks /\ returned \in SUBSET Tasks
    /\ adding \in [Callers -> SUBSET Tasks]
    /\ atWait \in [Callers -> [returned : SUBSET Tasks, entered : SUBSET Tasks]]

\* Every task passed to Add is in exactly one place: in the container, in a
\* batch on its way (with a goroutine or in the commander) or executed.  So no
\* interleaving of Add, Flush, tick and quit loses a task or executes it twice.
TasksConserved ==
    /\ Added = container \cup executed \cup (UNION commander)
                 \cup (UNION {Pending(p) : p \in Procs})
    /\ container \cap executed = {}
    /\ (UNION commander) \cap (container \cup executed) = {}
    /\ \A p \in Procs :
          /\ Pending(p) \cap (container \cup executed \cup (UNION commander)) = {}
          /\ \A q \in Procs \ {p} : Pending(p) \cap Pending(q) = {}

\* A background goroutine that is in its loop, not in its last flush.
InLoop(f) == pc[f] # "idle" /\ job[f] # "final"

\* A goroutine that quit but will still empty the container once.
WillFlush(f) == job[f] = "final" /\ pc[f] \in {"enter", "remove"}

\* The quit of the idle background goroutine never strands work: there is at
\* most one loop and pe.guarded says whether there is one, every batch handed
\* over has a loop that will receive it, and tasks in the container have a loop
\* or the last flush of a goroutine that is quitting.
NoWorkStranded ==
    /\ \A f, g \in Flushers : InLoop(f) /\ InLoop(g) => f = g
    /\ guarded <=> \E f \in Flushers : InLoop(f)
    /\ (commander # {} \/ \E c \in Callers : pc[c] \in {"send", "await"}) => guarded
    /\ container # {} => guarded \/ \E f \in Flushers : WillFlush(f)

\* pe.inflight counts the batches taken by an Add and not yet received, which
\* is what shallQuit relies on when it reads it.
InflightCounts ==
    inflight = Cardinality({c \in Callers : pc[c] = "send"}) + Cardinality(commander)
                 + Cardinality({f \in Flushers : pc[f] = "dec"})

\* f has received a batch it has not confirmed.
Unconfirmed(f) == pc[f] \in {"dec", "confirm"} \/ (pc[f] = "enter" /\ job[f] = "command")

\* There are exactly as many callers waiting for a confirmation as batches not
\* yet confirmed, whoever gets which: no Add waits for a confirmation nobody
\* will send, and the background goroutine never blocks sending one.
ConfirmBalance ==
    Cardinality({c \in Callers : pc[c] = "await"})
        = Cardinality(commander) + Cardinality({f \in Flushers : Unconfirmed(f)})

\* wgBarrier keeps enterExecution out while a Wait is blocked in
\* waitGroup.Wait: the counter is never raised under a waiter.
NoAddDuringWait ==
    [][(\E c \in Callers : pc[c] = "wgwait" /\ pc'[c] = "wgwait") => waitGroup' <= waitGroup]_vars

\* The step in which c returns from Wait.
WaitReturns(c) == pc[c] = "wgwait" /\ pc'[c] = "idle"

\* When Wait returns, the executions that were under way when it was called
\* are over.
WaitCoversEntered ==
    [][\A c \in Callers : WaitReturns(c) => atWait[c].entered \subseteq executed]_vars

\* "Wait waits the execution to be done": when Wait returns, every task whose
\* Add had returned when Wait was called has been executed.  This holds only if
\* one goroutine calls Add and Wait: a batch that the Add of another took out of
\* the container is not yet counted in the wait group.
WaitCoversReturned ==
    [][\A c \in Callers : WaitReturns(c) => atWait[c].returned \subseteq executed]_vars

\* Every task added is eventually executed, although the goroutine that should
\* flush it may be quitting: whatever is added, there is again a moment at which
\* all of it has been executed.  (There are finitely many tasks.)
EveryTaskExecuted == []<>(Added \subseteq executed)

\* Every Add, Flush and Wait returns: the hand-over, the confirmation and the
\* barrier around the wait group do not block one another, and a Wait that
\* excludes new executions ends.
EveryCallReturns == \A c \in Callers : []<>(pc[c] = "idle")
=============================================================================
