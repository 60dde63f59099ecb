------------------------------ MODULE MapReduce ------------------------------
(***************************************************************************)
(* core/mr: MapReduce.  A generator goroutine, the executor of the         *)
(* mappers, one goroutine for each mapped item, the reducer and the caller *)
(* communicate over channels:                                              *)
(*   source     unbuffered, from the generator to the executor or a drain  *)
(*   collector  with room for Workers values, from mappers to the reducer  *)
(*   output     unbuffered, from the reducer to the caller                 *)
(*   panicChan  unbuffered, written at most once, to the caller            *)
(*   done       closed together with output by finish                      *)
(* The generate, map and reduce functions are the user's: they may do      *)
(* whatever acts allows and always return.  Values are left out.           *)
(* wg.Done() and <-pool of a mapper are one step.                          *)
(***************************************************************************)
EXTENDS Naturals, FiniteSets

CONSTANTS
    Items,       \* what generate sends
    Workers,     \* options.workers
    MaxWrites,   \* bounds the values the reducer writes
    Scenarios    \* sets of Acts: what the user's functions may do in one call

\* What the user's functions may do ("redearly": the reducer may write before it
\* has read everything), and the end of the context.
Acts == {"genpanic", "mapwrite", "mapcancel", "mappanic", "redwrite", "redearly", "redcancel", "redpanic", "ctx"}

ASSUME ConstantsAssumption ==
    /\ Workers \in Nat \ {0} /\ MaxWrites \in Nat
    /\ Scenarios \subseteq SUBSET Acts
    /\ Items \cap {"gen", "exec", "red", "main"} = {}

VARIABLES
    acts,         \* what the user's functions may do in this call
    pc,           \* where each goroutine is
    unsent,       \* items not yet sent to source
    sourceClosed,
    buffer,       \* number of values in collector
    collClosed,
    outClosed,    \* output and done are closed
    wrote,        \* panicChan.wrote
    once,         \* the sync.Once of cancel: "new", "running", "over"
    retErr,       \* retErr is set
    failed,       \* failed > 0
    ctxDone,      \* options.ctx is done
    panicked,     \* goroutines whose user function panicked
    writes,       \* number of values written by the reducer
    outcome       \* how the caller ends

chans == <<unsent, sourceClosed, buffer, collClosed, outClosed>>
flags == <<wrote, once, retErr, failed, ctxDone, panicked>>
vars == <<acts, pc, chans, flags, writes, outcome>>

Procs == Items \cup {"gen", "exec", "red", "main"}

Goto(p, l) == pc' = [pc EXCEPT ![p] = l]

\* Mappers that are running: the wait group and, with the slot the executor
\* holds while it receives, the occupied part of pool.
Running == {i \in Items : pc[i] \notin {"idle", "end"}}

Init ==
    /\ acts \in Scenarios
    /\ pc = [p \in Procs |-> CASE p = "gen" -> "generate" [] p = "exec" -> "loop"
                                [] p = "red" -> "reduce" [] p = "main" -> "select"
                                [] OTHER -> "idle"]
    /\ unsent = Items /\ sourceClosed = FALSE
    /\ buffer = 0 /\ collClosed = FALSE /\ outClosed = FALSE
    /\ wrote = FALSE /\ once = "new" /\ retErr = FALSE /\ failed = FALSE
    /\ ctxDone = FALSE /\ panicked = {}
    /\ writes = 0 /\ outcome = "none"
-----------------------------------------------------------------------------
(* panicChan: the first panic is handed to the caller, others are dropped.  *)

\* Mutant of AfterPanic: the generator does not close source after a panic.
AfterPanicEnd(p) == CASE p = "gen" -> "end" [] p = "red" -> "finish" [] OTHER -> "leave"

\* Where a goroutine goes on after it reported its panic.
AfterPanic(p) == CASE p = "gen" -> "close" [] p = "red" -> "finish" [] OTHER -> "leave"

\* onceChan.write: only the first write goes to the channel.
ReportOnce == ~wrote

WritePanic(p) ==
    /\ pc[p] = "panicking"
    /\ wrote' = TRUE
    /\ Goto(p, IF ReportOnce THEN "report" ELSE AfterPanic(p))
    /\ UNCHANGED <<acts, chans, once, retErr, failed, ctxDone, panicked, writes, outcome>>

\* The caller receives the panic and goes on to drain output before it panics.
ReceivePanic(p) ==
    /\ pc[p] = "report" /\ pc["main"] = "select"
    /\ pc' = [pc EXCEPT ![p] = AfterPanic(p), !["main"] = "drainout"]
    /\ outcome' = "panic"
    /\ UNCHANGED <<acts, chans, flags, writes>>
-----------------------------------------------------------------------------
(* cancel and finish *)

AfterCancel(p) == CASE p = "red" -> "reduce" [] p = "main" -> "range" [] OTHER -> "leave"

\* Mutant of SetError: cancel does not keep the error.
NoError == UNCHANGED retErr

SetError == retErr' = TRUE

\* cancel: the first call sets the error and drains source, a concurrent call
\* waits for it, a later one returns at once.
Cancel(p) ==
    \/ /\ once = "new"
       /\ once' = "running" /\ SetError
       /\ Goto(p, "cancel")
    \/ /\ once = "running"
       /\ Goto(p, "blocked")
       /\ UNCHANGED <<once, retErr>>
    \/ /\ once = "over"
       /\ Goto(p, AfterCancel(p))
       /\ UNCHANGED <<once, retErr>>

\* finish: close(done), close(output), once.
Finish == outClosed' = TRUE

\* The end of the first cancel: source is drained, so it is closed.
EndCancel(p) ==
    /\ pc[p] = "cancel" /\ sourceClosed
    /\ once' = "over"
    /\ Finish
    /\ Goto(p, AfterCancel(p))
    /\ UNCHANGED <<acts, unsent, sourceClosed, buffer, collClosed, wrote, retErr, failed, ctxDone,
                   panicked, writes, outcome>>

Unblock(p) ==
    /\ pc[p] = "blocked" /\ once = "over"
    /\ Goto(p, AfterCancel(p))
    /\ UNCHANGED <<acts, chans, flags, writes, outcome>>
-----------------------------------------------------------------------------
(* The generator: buildSource *)

\* source <- item, received by a drain and thrown away.
Drained(p) ==
    /\ pc["gen"] = "generate" /\ pc[p] \in {"cancel", "drainsrc"}
    /\ \E i \in unsent : unsent' = unsent \ {i}
    /\ UNCHANGED <<acts, pc, sourceClosed, buffer, collClosed, outClosed, flags, writes, outcome>>

GeneratePanics ==
    /\ pc["gen"] = "generate" /\ "genpanic" \in acts
    /\ panicked' = panicked \cup {"gen"}
    /\ Goto("gen", "panicking")
    /\ UNCHANGED <<acts, chans, wrote, once, retErr, failed, ctxDone, writes, outcome>>

CloseSource ==
    /\ pc["gen"] = "close" \/ (pc["gen"] = "generate" /\ unsent = {})
    /\ sourceClosed' = TRUE
    /\ Goto("gen", "end")
    /\ UNCHANGED <<acts, unsent, buffer, collClosed, outClosed, flags, writes, outcome>>
-----------------------------------------------------------------------------
(* executeMappers *)

PoolHasRoom == Cardinality(Running) < Workers

\* for atomic.LoadInt32(&failed) == 0
ExecutorLoop ==
    /\ pc["exec"] = "loop"
    /\ Goto("exec", IF failed THEN "wait" ELSE "acquire")
    /\ UNCHANGED <<acts, chans, flags, writes, outcome>>

\* The select: a free slot of pool, or ctx or done.  A panic after the loop
\* condition was read does not stop it.
ExecutorSelect ==
    /\ pc["exec"] = "acquire"
    /\ \/ PoolHasRoom /\ Goto("exec", "receive")
       \/ (ctxDone \/ outClosed) /\ Goto("exec", "wait")
    /\ UNCHANGED <<acts, chans, flags, writes, outcome>>

\* item, ok := <-source
StartMapper(i) ==
    /\ pc["exec"] = "receive" /\ pc["gen"] = "generate" /\ i \in unsent
    /\ unsent' = unsent \ {i}
    /\ pc' = [pc EXCEPT !["exec"] = "loop", ![i] = "map"]
    /\ UNCHANGED <<acts, sourceClosed, buffer, collClosed, outClosed, flags, writes, outcome>>

SourceEnded ==
    /\ pc["exec"] = "receive" /\ sourceClosed
    /\ Goto("exec", "wait")
    /\ UNCHANGED <<acts, chans, flags, writes, outcome>>

\* Mutant of MappersDone: the wait group is not waited for.
MappersIgnored == TRUE

MappersDone == Running = {}

CloseCollector ==
    /\ pc["exec"] = "wait" /\ MappersDone
    /\ collClosed' = TRUE
    /\ Goto("exec", "drainsrc")
    /\ UNCHANGED <<acts, unsent, sourceClosed, buffer, outClosed, flags, writes, outcome>>

ExecutorEnds ==
    /\ pc["exec"] = "drainsrc" /\ sourceClosed
    /\ Goto("exec", "end")
    /\ UNCHANGED <<acts, chans, flags, writes, outcome>>
-----------------------------------------------------------------------------
(* A mapper: the user's function writes, cancels, panics or just returns.   *)

\* guardedWriter.Write: nothing is written once ctx is done or done is closed.
\* The check and the send that follows it are two steps.
MapperWrite(i) ==
    /\ pc[i] = "map" /\ "mapwrite" \in acts
    /\ Goto(i, IF ctxDone \/ outClosed THEN "leave" ELSE "send")
    /\ UNCHANGED <<acts, chans, flags, writes, outcome>>

CollectorHasRoom == buffer < Workers

MapperSend(i) ==
    /\ pc[i] = "send" /\ CollectorHasRoom /\ ~collClosed
    /\ buffer' = buffer + 1
    /\ Goto(i, "leave")
    /\ UNCHANGED <<acts, unsent, sourceClosed, collClosed, outClosed, flags, writes, outcome>>

MapperCancel(i) ==
    /\ pc[i] = "map" /\ "mapcancel" \in acts
    /\ Cancel(i)
    /\ UNCHANGED <<acts, chans, wrote, failed, ctxDone, panicked, writes, outcome>>

MapperPanics(i) ==
    /\ pc[i] = "map" /\ "mappanic" \in acts
    /\ panicked' = panicked \cup {i} /\ failed' = TRUE
    /\ Goto(i, "panicking")
    /\ UNCHANGED <<acts, chans, wrote, once, retErr, ctxDone, writes, outcome>>

\* The mapper returns: wg.Done() and <-pool.
MapperLeaves(i) ==
    /\ pc[i] \in {"map", "leave"}
    /\ Goto(i, "end")
    /\ UNCHANGED <<acts, chans, flags, writes, outcome>>
-----------------------------------------------------------------------------
(* The reducer *)

ReducerReads ==
    /\ pc["red"] \in {"reduce", "drain"} /\ buffer > 0
    /\ buffer' = buffer - 1
    /\ UNCHANGED <<acts, pc, unsent, sourceClosed, collClosed, outClosed, flags, writes, outcome>>

ReducerWrite ==
    /\ pc["red"] = "reduce" /\ "redwrite" \in acts /\ writes < MaxWrites
    /\ "redearly" \in acts \/ (collClosed /\ buffer = 0)
    /\ writes' = writes + 1
    /\ IF ctxDone \/ outClosed THEN UNCHANGED pc ELSE Goto("red", "send")
    /\ UNCHANGED <<acts, chans, flags, outcome>>

\* output <- v, taken by the caller's select, by its drain after a panic, or by
\* its deferred loop, which then panics.  The receive and the retErr.Load of the caller after it
\* are one step: a cancel in between only makes the error win later.
ReducerSends ==
    /\ pc["red"] = "send" /\ ~outClosed
    /\ \/ /\ pc["main"] = "select"
          /\ pc' = [pc EXCEPT !["red"] = "reduce", !["main"] = "range"]
          /\ outcome' = IF retErr THEN "error" ELSE "value"
       \/ /\ pc["main"] = "drainout"
          /\ Goto("red", "reduce")
          /\ UNCHANGED outcome
       \/ /\ pc["main"] = "range"
          /\ pc' = [pc EXCEPT !["red"] = "reduce", !["main"] = "end"]
          /\ outcome' = "panic"
    /\ UNCHANGED <<acts, chans, flags, writes>>

\* The reducer panics by itself, or sends on the closed output.
ReducerPanics ==
    /\ \/ pc["red"] = "reduce" /\ "redpanic" \in acts
       \/ pc["red"] = "send" /\ outClosed
    /\ panicked' = panicked \cup {"red"}
    /\ Goto("red", "drain")
    /\ UNCHANGED <<acts, chans, wrote, once, retErr, failed, ctxDone, writes, outcome>>

ReducerCancel ==
    /\ pc["red"] = "reduce" /\ "redcancel" \in acts /\ once # "over"
    /\ Cancel("red")
    /\ UNCHANGED <<acts, chans, wrote, failed, ctxDone, panicked, writes, outcome>>

ReducerReturns ==
    /\ pc["red"] = "reduce"
    /\ Goto("red", "drain")
    /\ UNCHANGED <<acts, chans, flags, writes, outcome>>

\* Mutant of CollectorDrained: the reducer does not drain collector.
CollectorNotDrained == TRUE

CollectorDrained == collClosed /\ buffer = 0

\* The deferred function: drain(collector), report the panic, finish.
ReducerDrained ==
    /\ pc["red"] = "drain" /\ CollectorDrained
    /\ Goto("red", IF "red" \in panicked THEN "panicking" ELSE "finish")
    /\ UNCHANGED <<acts, chans, flags, writes, outcome>>

ReducerFinish ==
    /\ pc["red"] = "finish"
    /\ Finish
    /\ Goto("red", "end")
    /\ UNCHANGED <<acts, unsent, sourceClosed, buffer, collClosed, flags, writes, outcome>>
-----------------------------------------------------------------------------
(* The caller *)

ContextDone ==
    /\ "ctx" \in acts /\ ~ctxDone
    /\ ctxDone' = TRUE
    /\ UNCHANGED <<acts, pc, chans, wrote, once, retErr, failed, panicked, writes, outcome>>

MainContext ==
    /\ pc["main"] = "select" /\ ctxDone
    /\ Cancel("main")
    /\ outcome' = "error"
    /\ UNCHANGED <<acts, chans, wrote, failed, ctxDone, panicked, writes>>

\* <-output from the closed channel
MainNoOutput ==
    /\ pc["main"] = "select" /\ outClosed
    /\ outcome' = IF retErr THEN "error" ELSE "nooutput"
    /\ Goto("main", "range")
    /\ UNCHANGED <<acts, chans, flags, writes>>

\* The drain of output and the deferred loop end when output is closed.
MainReturns ==
    /\ pc["main"] \in {"drainout", "range"} /\ outClosed
    /\ Goto("main", "end")
    /\ UNCHANGED <<acts, chans, flags, writes, outcome>>
-----------------------------------------------------------------------------
\* All goroutines of the call are over.
AllEnded == \A p \in Procs : pc[p] = "end" \/ (p \in Items /\ pc[p] = "idle")

Terminated == AllEnded /\ UNCHANGED vars

Steps ==
    \/ \E p \in Procs : \/ WritePanic(p) \/ ReceivePanic(p) \/ EndCancel(p) \/ Unblock(p)
                        \/ Drained(p)
    \/ GeneratePanics \/ CloseSource
    \/ ExecutorLoop \/ ExecutorSelect \/ SourceEnded \/ CloseCollector \/ ExecutorEnds
    \/ \E i \in Items : \/ StartMapper(i) \/ MapperWrite(i) \/ MapperSend(i) \/ MapperCancel(i)
                        \/ MapperPanics(i) \/ MapperLeaves(i)
    \/ ReducerReads \/ ReducerWrite \/ ReducerSends \/ ReducerPanics \/ ReducerCancel
    \/ ReducerReturns \/ ReducerDrained \/ ReducerFinish
    \/ MainContext \/ MainNoOutput \/ MainReturns

Next == Steps \/ ContextDone \/ Terminated

Spec == Init /\ [][Next]_vars

\* Goroutines that can run do run, and the user's functions return.  Every step
\* makes progress (items, writes and states only go forward), so it is enough
\* that some step is taken.
FairSpec == Spec /\ WF_vars(Steps)
-----------------------------------------------------------------------------
(* Properties *)

\* Types; the collector never holds more than its capacity.
TypeOK ==
    /\ pc \in [Procs -> {"idle", "end", "generate", "close", "loop", "acquire", "receive", "wait", "drainsrc",
                         "map", "send", "leave", "reduce", "drain", "finish", "select", "drainout",
                         "range", "panicking", "report", "cancel", "blocked"}]
    /\ unsent \subseteq Items /\ buffer \in 0 .. Workers /\ writes \in 0 .. MaxWrites
    /\ once \in {"new", "running", "over"} /\ panicked \subseteq Procs
    /\ {sourceClosed, collClosed, outClosed, wrote, retErr, failed, ctxDone} \subseteq BOOLEAN
    /\ outcome \in {"none", "value", "error", "nooutput", "panic"}

\* A mapper that passed the check of guardedWriter never sends on the closed
\* collector, although check and send are two steps.
NoSendAfterClose == \A i \in Items : pc[i] = "send" => ~collClosed

\* Without a cancellation and without a done context the call does not return
\* before every mapper is over and no other will start, also when the reducer
\* wrote its result early or something panicked, and not before the generator is
\* over unless something panicked.  (A second write of the reducer ends the call at once.)
ReturnsAfterMappers ==
    pc["main"] = "end" /\ once = "new" /\ ~ctxDone /\ writes < 2
        => Running = {} /\ collClosed /\ (panicked # {} \/ sourceClosed)

\* What OutcomeFaithful needs: the context does not end (the executor may
\* see that before the caller does), at most one function panics (the caller may
\* take a result instead of the one panic that is reported), and the reducer
\* writes only after it has read everything.
Undisturbed == ~ctxDone /\ Cardinality(panicked) <= 1 /\ "redearly" \notin acts

\* The call does not end as if everything went well, with a value or with the
\* ErrReduceNoOutput that MapReduceVoid turns into success, when some item was
\* not mapped; and a panic of the user's functions reaches the caller, unless
\* the call was cancelled before.
OutcomeFaithful ==
    pc["main"] = "end" /\ Undisturbed =>
        /\ outcome \in {"value", "nooutput"} => \A i \in Items : pc[i] = "end"
        /\ panicked # {} /\ once = "new" => outcome = "panic"

\* Calls in which nobody has to wait for a reader that is gone: panicChan has no buffer and only
\* the select of the caller reads it, so a panic must not meet another way to end the call.
\* A cancel in a mapper closes output, so that an early write of the reducer may panic.
Isolated ==
    \/ acts \cap {"genpanic", "mappanic", "redpanic", "ctx"} = {} /\ ~({"mapcancel", "redearly"} \subseteq acts)
    \/ acts \subseteq {"mapwrite", "mappanic", "redpanic"}
    \/ acts \subseteq {"mapwrite", "genpanic", "redwrite"}
    \/ acts \subseteq {"mapwrite", "ctx"}

\* A goroutine waits for a reader that is gone: it reports a panic when the caller has left its
\* select, or it is the reducer, which writes again after the caller panicked at its second write.
Stranded ==
    \/ \E p \in Procs : pc[p] = "report" /\ pc["main"] # "select"
    \/ pc["red"] = "send" /\ ~outClosed /\ pc["main"] = "end"

\* No goroutine outlives the call for good ("defer goleak.VerifyNone(t)") in the calls above, if
\* the reducer writes at most twice; in no call does one for any other reason than that somebody
\* waits for a reader that is gone.
NoGoroutineLeft == (Isolated => <>(AllEnded \/ writes > 2)) /\ <>[](AllEnded \/ Stranded)

\* A panic of a mapper or of the reducer ends the call too.
PanicEndsCall == <>(pc["main"] = "end")
=============================================================================
