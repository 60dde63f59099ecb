----------------------------- MODULE TimingWheel -----------------------------
(***************************************************************************)
(* core/collection: the TimingWheel.                                       *)
(*                                                                         *)
(* One goroutine owns the wheel and takes ticks and client operations from *)
(* unbuffered channels, so every operation is one action.  Delays are in   *)
(* units of the interval; 0 stands for a delay shorter than one interval.  *)
(* An item that was removed or superseded stays in its slot, marked, until *)
(* the slot is scanned and has no effect there; the model drops it at      *)
(* once, which leaves at most one item for each key: the one that          *)
(* tw.timers points to.  The value of a task is left out.                  *)
(***************************************************************************)
EXTENDS Integers

CONSTANTS
    Keys,
    NumSlots,
    MaxSteps,        \* longest delay that is tried
    MaxOps,          \* bounds the number of client operations
    UseAfterDrain    \* whether clients go on using the wheel after Drain

VARIABLES
    tickedPos,   \* tw.tickedPos
    timers,      \* tw.timers: the position entry of each key, or NoTimer
    stage,       \* the goroutine: running, stopping (stopChannel closed), stopped
    drained,     \* history: Drain was called
    ops,         \* number of client operations so far
    expected,    \* history: keys set and since then not executed, removed or drained
    due,         \* history: ticks until a key should be executed (not below -NumSlots)
    moved        \* history: keys whose pending timer was moved

history == <<expected, due, moved>>
vars == <<tickedPos, timers, stage, drained, ops, history>>

\* A position entry and its item: the slot, the revolutions to wait, how many
\* slots to go on after that, and whether the item is in its slot's list.
Entries == [pos : 0 .. NumSlots - 1, circle : Nat, diff : 0 .. NumSlots - 1, linked : BOOLEAN]

NoTimer == [pos |-> 0, circle |-> 0, diff |-> 0, linked |-> FALSE, absent |-> TRUE]

Init ==
    /\ tickedPos = NumSlots - 1
    /\ timers = [k \in Keys |-> NoTimer]
    /\ stage = "running" /\ drained = FALSE /\ ops = 0
    /\ expected = {} /\ moved = {}
    /\ due = [k \in Keys |-> 0]
-----------------------------------------------------------------------------

\* getPositionAndCircle
Position(steps) == (tickedPos + steps) % NumSlots

Circle(steps) == (steps - 1) \div NumSlots

NewEntry(steps, circle) ==
    [pos |-> Position(steps), circle |-> circle, diff |-> 0, linked |-> TRUE]

\* Mutant of Moved: an item that stays in its slot keeps its old offset.
MovedKeepsDiff(e, steps) == [e EXCEPT !.circle = Circle(steps)]

\* moveTask for a delay of at least one interval: the item stays in its slot
\* with a new circle and diff, or is replaced by a new item.
Moved(e, steps) ==
    IF Position(steps) >= e.pos
    THEN [e EXCEPT !.circle = Circle(steps), !.diff = Position(steps) - e.pos]
    ELSE IF Circle(steps) > 0
    THEN [e EXCEPT !.circle = Circle(steps) - 1, !.diff = NumSlots + Position(steps) - e.pos]
    ELSE NewEntry(steps, 0)

\* A client operation the goroutine may still accept, also while stopChannel is
\* closed and the select has not chosen it yet.
Accept ==
    /\ stage # "stopped" /\ ops < MaxOps
    /\ drained => UseAfterDrain
    /\ ops' = ops + 1
    /\ UNCHANGED <<tickedPos, stage>>

AtLeastOne(steps) == IF steps = 0 THEN 1 ELSE steps

SetTimer(k, steps) ==
    /\ Accept
    /\ timers' = [timers EXCEPT ![k] =
                    IF @ = NoTimer THEN NewEntry(AtLeastOne(steps), Circle(AtLeastOne(steps)))
                    ELSE Moved(@, AtLeastOne(steps))]
    /\ due' = [due EXCEPT ![k] = AtLeastOne(steps)]
    /\ expected' = expected \cup {k}
    /\ moved' = IF timers[k] = NoTimer THEN moved \ {k} ELSE moved \cup {k}
    /\ UNCHANGED drained

MoveTimer(k, steps) ==
    /\ Accept
    /\ timers[k] # NoTimer /\ steps > 0
    /\ timers' = [timers EXCEPT ![k] = Moved(@, steps)]
    /\ due' = [due EXCEPT ![k] = steps]
    /\ moved' = moved \cup {k}
    /\ UNCHANGED <<drained, expected>>

\* A move to less than one interval executes the task and returns.
MoveTimerSoon(k) ==
    /\ Accept
    /\ timers[k] # NoTimer
    /\ UNCHANGED <<timers, drained, expected, due, moved>>

\* A move of a key without a timer does nothing.
MoveTimerAbsent(k) ==
    /\ Accept
    /\ timers[k] = NoTimer
    /\ UNCHANGED <<timers, drained, history>>

RemoveTimer(k) ==
    /\ Accept
    /\ timers' = [timers EXCEPT ![k] = NoTimer]
    /\ expected' = expected \ {k}
    /\ UNCHANGED <<drained, due, moved>>

\* drainAll takes every item out of its slot and executes it.  tw.timers is
\* not touched.
Drain ==
    /\ Accept
    /\ drained' = TRUE
    /\ timers' = [k \in Keys |-> [timers[k] EXCEPT !.linked = FALSE]]
    /\ expected' = {}
    /\ UNCHANGED <<due, moved>>

\* Close of stopChannel, and the goroutine that notices it.
Stop == stage = "running" /\ stage' = "stopping"
        /\ UNCHANGED <<tickedPos, timers, drained, ops, history>>

Quit == stage = "stopping" /\ stage' = "stopped"
        /\ UNCHANGED <<tickedPos, timers, drained, ops, history>>
-----------------------------------------------------------------------------

\* Mutant of Scanned: the revolutions are not counted down.
ScannedInVain(e, pos) ==
    IF e.circle > 0 THEN e
    ELSE IF e.diff > 0 THEN [e EXCEPT !.pos = (pos + e.diff) % NumSlots, !.diff = 0]
    ELSE NoTimer

\* scanAndRunTasks on an item of the slot at pos; NoTimer: it is executed.
Scanned(e, pos) ==
    IF e.circle > 0 THEN [e EXCEPT !.circle = @ - 1]
    ELSE IF e.diff > 0 THEN [e EXCEPT !.pos = (pos + e.diff) % NumSlots, !.diff = 0]
    ELSE NoTimer

\* onTick and scanAndRunTasks
Tick ==
    LET pos  == (tickedPos + 1) % NumSlots
        slot == {k \in Keys : timers[k].linked /\ timers[k].pos = pos}
        runs == {k \in slot : Scanned(timers[k], pos) = NoTimer}
    IN /\ stage # "stopped"
       /\ tickedPos' = pos
       /\ timers' = [k \in Keys |-> IF k \in slot THEN Scanned(timers[k], pos) ELSE timers[k]]
       /\ due' = [k \in Keys |-> IF k \notin expected \ runs THEN 0
                               ELSE IF due[k] > -NumSlots THEN due[k] - 1 ELSE due[k]]
       /\ expected' = expected \ runs
       /\ UNCHANGED <<stage, drained, ops, moved>>
-----------------------------------------------------------------------------
Next ==
    \/ \E k \in Keys, steps \in 0 .. MaxSteps : SetTimer(k, steps) \/ MoveTimer(k, steps)
    \/ \E k \in Keys : MoveTimerSoon(k) \/ MoveTimerAbsent(k) \/ RemoveTimer(k)
    \/ Drain \/ Stop \/ Quit \/ Tick

Spec == Init /\ [][Next]_vars
-----------------------------------------------------------------------------
(* Properties *)

\* Types.  That diff stays below NumSlots is what the comment in
\* scanAndRunTasks relies on: an item is never pushed to the list being scanned.
TypeOK ==
    /\ tickedPos \in 0 .. NumSlots - 1
    /\ timers \in [Keys -> Entries \cup {NoTimer}]
    /\ stage \in {"running", "stopping", "stopped"} /\ drained \in BOOLEAN
    /\ ops \in 0 .. MaxOps
    /\ expected \subseteq Keys /\ moved \subseteq Keys
    /\ due \in [Keys -> Int]

\* Ticks until the goroutine will execute the item of key k.
Remaining(k) ==
    LET e == timers[k]
    IN  ((e.pos - tickedPos - 1) % NumSlots) + 1 + e.circle * NumSlots + e.diff

\* A timer that was not moved is executed exactly when its delay has passed,
\* whatever the delay and the position of the wheel.
SetOnTime == \A k \in expected \ moved : Remaining(k) = due[k]

\* A timer that was moved, any number of times, is executed at its delay or
\* exactly one revolution of the wheel too early or too late, never elsewhere.
MovedOnSlot == \A k \in expected : Remaining(k) - due[k] \in {-NumSlots, 0, NumSlots}

\* "MoveTimer moves the task with the given key to the given delay."  This does
\* not hold: moveTask compares slot numbers without regard to tickedPos.
MovedOnTime == \A k \in expected : Remaining(k) = due[k]

\* "SetTimer sets the task value with the given key to the delay": a key that
\* was set and not executed, removed or drained since has an item in a slot.
NothingLost == expected = {k \in Keys : timers[k].linked}

\* Every timer is eventually executed (or removed or drained), if the wheel is
\* not stopped and clients do not move it forever.
EveryTimerEnds == \A k \in Keys : []<>(k \notin expected \/ stage = "stopped")
=============================================================================
