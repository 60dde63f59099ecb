----------------------------- MODULE MCServices -----------------------------
(***************************************************************************)
(* Parts of a running service that share no state: the StableRunner, one   *)
(* request under the timeout handler, a message queue and the graceful     *)
(* stop.  The initial state says which of them moves, so that one run      *)
(* explores the state spaces of all, one beside the other.                 *)
(***************************************************************************)
EXTENDS Naturals

CONSTANTS
    Pushers, BufSize, Runners, MaxPush, MayPanic,
    MaxWrites,
    Producers, NumConsumers, MaxMessages, MaxPauses, MaxBroadcasts,
    Servers, Others, MaxNotify

\* bufSize is runtime.NumCPU() times ten.
ASSUME ServicesAssumption == BufSize \in Nat \ {0}

VARIABLES
    part,          \* the component that moves
    written, consumed, locked, value, handling, sending, ppc, msg, index, closed, reader, waiter,
    author, order, out, before, odd,
    spc, hpc, conn, wbuf, code, wroteHeader, timedOut, mu, ended, panicChan, doneChan, calls, wrote,
    flushed,
    prod, cons, message, start, quit, produced, eaten, active, paused, pauses, event, todo,
    broadcasts, turns, turn, told, untold,
    lst, lock, notified, srv, gpc, inside

runner == <<written, consumed, locked, value, handling, sending, ppc, msg, index, closed, reader,
            waiter, author, order, out, before, odd>>
request == <<spc, hpc, conn, wbuf, code, wroteHeader, timedOut, mu, ended, panicChan, doneChan,
             calls, wrote, flushed>>
queue == <<prod, cons, message, start, quit, produced, eaten, active, paused, pauses, event, todo,
           broadcasts, turns, turn, told, untold>>
stop == <<lst, lock, notified, srv, gpc, inside>>

SR == INSTANCE StableRunner
TH == INSTANCE TimeoutHandler
QU == INSTANCE Queue WITH spc <- start, consumed <- eaten, odd <- untold
SD == INSTANCE Shutdown

Init ==
    /\ part \in {"runner", "request", "queue", "stop"}
    /\ SR!Init /\ TH!Init /\ QU!Init /\ SD!Init

\* Only component p moves.
Alone(p) ==
    /\ part = p /\ UNCHANGED part
    /\ IF p = "runner" THEN TRUE ELSE UNCHANGED runner
    /\ IF p = "request" THEN TRUE ELSE UNCHANGED request
    /\ IF p = "queue" THEN TRUE ELSE UNCHANGED queue
    /\ IF p = "stop" THEN TRUE ELSE UNCHANGED stop

Next ==
    \/ Alone("runner") /\ SR!Next
    \/ Alone("request") /\ TH!Next
    \/ Alone("queue") /\ QU!Next
    \/ Alone("stop") /\ SD!Next

\* The reader of the StableRunner waits from the start, but can do nothing before a Push.
Spec ==
    /\ Init /\ [][Next]_<<part, runner, request, queue, stop>>
    /\ SR!Fairness /\ TH!Fairness /\ QU!Fairness /\ SD!Fairness
-----------------------------------------------------------------------------
(* The properties of the components *)

\* The results of a StableRunner come out in the order in which a goroutine pushed them, unless
\* a pusher that has its index is overtaken by a whole ring, or a handler panicked.
OrderUnlessLapped == SR!OrderUnlessLapped

\* When its Wait returns, all that was pushed before has been taken out.
WaitCovers == SR!WaitCovers

\* Its Wait returns and its reader is told that it is closed, unless a handler panicked or a Push
\* took its index after Wait had begun.
WaitEnds == SR!WaitEnds

\* A request under the timeout handler gets one answer, the whole of one or the error.
OneAnswer == TH!OneAnswer

\* The goroutine of the handler ends, also after the timeout, and the request is answered.
HandlerReleased == TH!HandlerReleased

\* When the Start of a queue returns, every message that was produced has been consumed.
AllConsumed == QU!AllConsumed

\* The listeners of a queue know whether a producer is active, unless one was created while all
\* others were paused or they were told of an earlier change last.
PausedIsInactive == QU!PausedIsInactive

\* After Stop the Start of a queue returns.
StopEndsStart == QU!StopEndsStart

\* A shutdown listener that is notified runs to its end, also when another one is stuck.
ListenersCalled == SD!ListenersCalled

\* Once the listeners are notified the Start of the group returns, unless the process panicked,
\* a listener was added too late to be called, or one is stuck that adds another.
GroupEnds == SD!GroupEnds
=============================================================================
