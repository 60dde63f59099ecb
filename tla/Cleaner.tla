------------------------------ MODULE Cleaner ------------------------------
(***************************************************************************)
(* The cleaner of core/stores/cache: a Del that failed is repeated by a    *)
(* task in a timing wheel, after 1 s, 5 s, 1 min, 5 min and 1 h.  A task   *)
(* that is due runs in a TaskRunner with a few workers and goes back to    *)
(* the wheel when it fails.  At shutdown the wheel is drained: its own     *)
(* goroutine hands all tasks over and sets no timer until it has.          *)
(***************************************************************************)
EXTENDS Naturals, FiniteSets

CONSTANTS
    Keys,
    Workers,     \* cleanWorkers
    MaxTasks     \* bounds the tasks there are at a time

VARIABLES
    tasks,       \* tasks[t]: the delayTask with key t in the wheel, [keys, delay, st, drained]
    drain,       \* "no", "draining" while drainAll runs, "drained"
    abandoned    \* history: keys of the tasks that were given up or lost

cleaner == <<tasks, drain, abandoned>>

NoTask == [keys |-> {}, delay |-> 0, st |-> "none", drained |-> FALSE]

Init == tasks = [t \in 1 .. MaxTasks |-> NoTask] /\ drain = "no" /\ abandoned = {}

In(st) == {t \in 1 .. MaxTasks : tasks[t].st = st}

\* limitChan of the TaskRunner: taken from the start of a task to its end,
\* which includes a blocked SetTimer.
Busy == In("running") \cup In("setting")

To(t, st) == tasks' = [tasks EXCEPT ![t].st = st]
End(t) == tasks' = [tasks EXCEPT ![t] = NoTask]
-----------------------------------------------------------------------------
\* The goroutine of the wheel receives from setChannel unless it is in drainAll.
WheelReceives == drain # "draining"

\* SetTimer with a random key and a delay of one second
AddCleanTask(ks) ==
    /\ WheelReceives
    /\ \E t \in In("none") :
         /\ \A u \in In("none") : t <= u
         /\ tasks' = [tasks EXCEPT ![t] =
                [keys |-> ks, delay |-> 1, st |-> "timer", drained |-> FALSE]]
    /\ UNCHANGED <<drain, abandoned>>

\* A timer is due: a goroutine calls clean, which waits for a worker.  The wheel
\* forgets the timer.
Fire(t) ==
    /\ tasks[t].st = "timer" /\ drain # "draining"
    /\ To(t, "scheduled") /\ UNCHANGED <<drain, abandoned>>

\* clean: taskRunner.Schedule
Schedule(t) ==
    /\ tasks[t].st = "scheduled" /\ Cardinality(Busy) < Workers
    /\ To(t, "running") /\ UNCHANGED <<drain, abandoned>>

\* Mutant of NextDelay: the task stays with its last delay.
NextDelayForever(d) == IF d = 3600 THEN {3600} ELSE {CHOOSE n \in {5, 60, 300, 3600} : n > d}

\* nextDelay: the next delay, or none
NextDelay(d) ==
    CASE d = 1 -> {5} [] d = 5 -> {60} [] d = 60 -> {300} [] d = 300 -> {3600} [] OTHER -> {}

\* dt.task() returns nil.
Succeed(t) == tasks[t].st = "running" /\ End(t) /\ UNCHANGED <<drain, abandoned>>

\* dt.task() fails: dt.delay = next and SetTimer, or the task is given up.
Fail(t) ==
    /\ tasks[t].st = "running"
    /\ \/ /\ \E d \in NextDelay(tasks[t].delay) :
               tasks' = [tasks EXCEPT ![t].st = "setting", ![t].delay = d]
          /\ UNCHANGED abandoned
       \/ /\ NextDelay(tasks[t].delay) = {} /\ End(t)
          /\ abandoned' = abandoned \cup tasks[t].keys
    /\ UNCHANGED drain

\* tw.SetTimer(key, dt, next) returns.  For a key that was drained the wheel still
\* knows the old timer, whose item is in no slot: whether the task gets a new item
\* or is lost depends on the slots of both.
SetTimer(t) ==
    /\ tasks[t].st = "setting" /\ WheelReceives
    /\ \/ /\ tasks' = [tasks EXCEPT ![t].st = "timer", ![t].drained = FALSE]
          /\ UNCHANGED abandoned
       \/ /\ tasks[t].drained /\ End(t)
          /\ abandoned' = abandoned \cup tasks[t].keys
    /\ UNCHANGED drain

\* The shutdown listener: tw.Drain(clean).  Every timer is taken out of its slot,
\* and a goroutine of drainAll calls clean for it.
Drain ==
    /\ drain = "no" /\ drain' = "draining"
    /\ tasks' = [t \in 1 .. MaxTasks |->
            IF tasks[t].st = "timer" THEN [tasks[t] EXCEPT !.st = "scheduled", !.drained = TRUE]
                                     ELSE tasks[t]]
    /\ UNCHANGED abandoned

\* runner.Wait() of drainAll: clean has returned for every drained task.
DrainAllEnds ==
    /\ drain = "draining" /\ \A t \in In("scheduled") : ~tasks[t].drained
    /\ drain' = "drained" /\ UNCHANGED <<tasks, abandoned>>

TaskStep(t) == Fire(t) \/ Schedule(t) \/ Succeed(t) \/ Fail(t) \/ SetTimer(t)

Next ==
    \/ \E ks \in SUBSET Keys \ {{}} : AddCleanTask(ks)
    \/ \E t \in 1 .. MaxTasks : TaskStep(t)
    \/ Drain \/ DrainAllEnds

\* The wheel ticks, goroutines run, a task that runs returns, and limitChan serves those who
\* wait for a worker in turn.
Fairness ==
    /\ \A t \in 1 .. MaxTasks : WF_cleaner(TaskStep(t)) /\ SF_cleaner(Schedule(t))
    /\ WF_cleaner(DrainAllEnds)
-----------------------------------------------------------------------------
(* Properties *)

\* The drain cannot end: every worker has a failed task that waits for the wheel,
\* and the wheel waits for a worker.
Stuck == drain = "draining" /\ Cardinality(In("setting")) = Workers /\ In("scheduled") # {}

TypeOK ==
    /\ tasks \in [1 .. MaxTasks ->
         [keys : SUBSET Keys, delay : {0, 1, 5, 60, 300, 3600}, drained : BOOLEAN,
          st : {"none", "timer", "scheduled", "running", "setting"}]]
    /\ drain \in {"no", "draining", "drained"} /\ abandoned \subseteq Keys

\* Every failed deletion ends: it succeeds, is given up after the last delay, or is
\* lost in the drain at shutdown; unless the drain is stuck.
CleanEnds == \A t \in 1 .. MaxTasks : []<>(tasks[t].st = "none" \/ Stuck)
=============================================================================
