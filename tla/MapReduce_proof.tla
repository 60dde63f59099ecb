--------------------------- MODULE MapReduce_proof ---------------------------
(***************************************************************************)
(* Proofs about MapReduce for any items, number of workers and behaviour   *)
(* of the user's functions.                                                *)
(***************************************************************************)
EXTENDS MapReduce, FiniteSetTheorems, TLAPS

Mapping == {"map", "send", "leave", "panicking", "report", "cancel", "blocked"}

\* Where each kind of goroutine can be.
Places ==
    /\ DOMAIN pc = Procs
    /\ pc["gen"] \in {"generate", "panicking", "report", "close", "end"}
    /\ pc["exec"] \in {"loop", "acquire", "receive", "wait", "drainsrc", "end"}
    /\ pc["red"] \in {"reduce", "send", "drain", "panicking", "report", "finish", "cancel", "blocked", "end"}
    /\ pc["main"] \in {"select", "drainout", "range", "cancel", "blocked", "end"}
    /\ \A i \in Items : pc[i] \in {"idle", "end"} \cup Mapping

\* Collector is closed when the executor has waited for the mappers; it starts no other.
CollectorInv ==
    /\ collClosed <=> pc["exec"] \in {"drainsrc", "end"}
    /\ collClosed => \A i \in Items : pc[i] \in {"idle", "end"}

\* The reducer is over, and output closed but for a cancellation, after the collector.
ReducerInv ==
    /\ pc["red"] \in {"panicking", "report", "finish", "end"} => collClosed
    /\ outClosed => once = "over" \/ pc["red"] = "end"
    /\ pc["red"] = "send" => writes >= 1 /\ ("redearly" \notin acts => collClosed)

\* Someone is in cancel only once it was called, and then the error is set.
CancelInv ==
    /\ retErr <=> once # "new"
    /\ \A p \in Procs : pc[p] \in {"cancel", "blocked"} => once # "new"

\* The executor stops before source is closed only for a reason.
ExecutorInv ==
    /\ pc["exec"] \in {"wait", "drainsrc", "end"} => sourceClosed \/ failed \/ ctxDone \/ once # "new"
    /\ failed => \E i \in Items : i \in panicked

\* The generator sends all items unless it panicked, and an item is thrown away only for a reason.
SourceInv ==
    /\ sourceClosed <=> pc["gen"] = "end"
    /\ pc["gen"] = "end" => unsent = {} \/ "gen" \in panicked
    /\ pc["gen"] \in {"panicking", "report", "close"} => "gen" \in panicked
    /\ unsent \subseteq Items /\ \A i \in unsent : pc[i] = "idle"
    /\ \A i \in Items : i \notin unsent /\ pc[i] = "idle" => failed \/ ctxDone \/ once # "new"

Structure == Places /\ CollectorInv /\ ReducerInv /\ CancelInv /\ ExecutorInv /\ SourceInv /\ writes \in Nat

\* The caller leaves its select with an outcome, and ends when output is closed or at a second
\* write of the reducer.
MainInv ==
    /\ pc["main"] = "select" <=> outcome = "none"
    /\ pc["main"] = "drainout" => outcome = "panic"
    /\ pc["main"] = "range" /\ once = "new" =>
          outClosed \/ (writes >= 1 /\ (pc["red"] = "send" => writes >= 2))
    /\ pc["main"] = "end" => outClosed \/ (outcome = "panic" /\ (once # "new" \/ writes >= 2))

\* A goroutine that panicked and has not yet called write, or not yet been heard.
Silent(p) == pc[p] = "panicking" \/ (p = "red" /\ pc[p] = "drain")
Pending(p) == Silent(p) \/ pc[p] = "report"

Single == \A p, q \in panicked : p = q

\* One that panics is in panicked and stays on the way its panic takes.
PanickedInv ==
    /\ panicked \subseteq Procs
    /\ \A p \in Procs : pc[p] \in {"panicking", "report"} => p \in panicked
    /\ "gen" \in panicked => pc["gen"] \in {"panicking", "report", "close", "end"}
    /\ "red" \in panicked => pc["red"] \in {"drain", "panicking", "report", "finish", "end"}
    /\ \A i \in Items : i \in panicked => pc[i] \in {"panicking", "report", "leave", "end"}

\* The panic of the only one that panicked is on its way to the caller, or the outcome.
HeardInv ==
    /\ wrote => \E p \in panicked : ~Silent(p)
    /\ Single => \A p \in panicked : Pending(p) \/ outcome = "panic"

\* A call that ended well had all items mapped.
OutcomeInv ==
    outcome \in {"value", "nooutput"} /\ ~ctxDone /\ Single /\ "redearly" \notin acts
        => \A i \in Items : pc[i] = "end"

\* The mapper of an item is over.
Mapped(i) == pc[i] = "end"

Inv == Structure /\ MainInv /\ PanickedInv /\ HeardInv /\ OutcomeInv

\* The names of the goroutines that are not mappers.
LEMMA Names == /\ {"gen", "exec", "red", "main"} \subseteq Procs /\ Items \subseteq Procs
               /\ \A i \in Items : i # "gen" /\ i # "exec" /\ i # "red" /\ i # "main"
               /\ \A p \in Procs : p \in Items \/ p \in {"gen", "exec", "red", "main"}
  BY ConstantsAssumption DEF ConstantsAssumption, Procs

\* Where a goroutine goes on after a panic and after cancel.
LEMMA Afterwards == /\ AfterPanic("gen") = "close" /\ AfterPanic("red") = "finish"
                    /\ AfterCancel("red") = "reduce" /\ AfterCancel("main") = "range"
                    /\ \A i \in Items : AfterPanic(i) = "leave" /\ AfterCancel(i) = "leave"
  BY Names DEF AfterPanic, AfterCancel

\* Where everyone is at the beginning.
LEMMA Begins == Init => /\ DOMAIN pc = Procs /\ pc["gen"] = "generate" /\ pc["exec"] = "loop"
                        /\ pc["red"] = "reduce" /\ pc["main"] = "select"
                        /\ \A i \in Items : pc[i] = "idle"
<1> SUFFICES ASSUME Init PROVE /\ DOMAIN pc = Procs /\ pc["gen"] = "generate" /\ pc["exec"] = "loop"
                               /\ pc["red"] = "reduce" /\ pc["main"] = "select"
                               /\ \A i \in Items : pc[i] = "idle"
  OBVIOUS
<1>1. pc = [p \in Procs |-> CASE p = "gen" -> "generate" [] p = "exec" -> "loop"
                              [] p = "red" -> "reduce" [] p = "main" -> "select"
                              [] OTHER -> "idle"]
  BY DEF Init
<1>2. DOMAIN pc = Procs
  BY <1>1
<1>3. "gen" \in Procs /\ "exec" \in Procs /\ "red" \in Procs /\ "main" \in Procs
  BY Names
<1>4. pc["gen"] = "generate"
  BY <1>1, <1>3
<1>5. pc["exec"] = "loop"
  BY <1>1, <1>3
<1>6. pc["red"] = "reduce"
  BY <1>1, <1>3
<1>7. pc["main"] = "select"
  BY <1>1, <1>3
<1>8. ASSUME NEW i \in Items PROVE pc[i] = "idle"
  <2>1. i \in Procs /\ i # "gen" /\ i # "exec" /\ i # "red" /\ i # "main"
    BY Names
  <2> QED BY <1>1, <2>1
<1> QED BY <1>2, <1>4, <1>5, <1>6, <1>7, <1>8

\* The invariant holds initially.
LEMMA InvInit == Init => Inv
<1> SUFFICES ASSUME Init PROVE Inv
  OBVIOUS
<1>1. Places
  BY Begins DEF Places
<1>2. CollectorInv /\ ReducerInv /\ CancelInv /\ ExecutorInv /\ SourceInv /\ writes \in Nat
  <2>1. \A p \in Procs : pc[p] \notin {"cancel", "blocked"}
    BY Begins, Names
  <2>2. CollectorInv /\ ReducerInv /\ ExecutorInv /\ SourceInv /\ writes \in Nat
    BY Begins DEF Init, CollectorInv, ReducerInv, ExecutorInv, SourceInv
  <2>3. CancelInv
    BY <2>1 DEF Init, CancelInv
  <2> QED BY <2>2, <2>3
<1>3. MainInv
  BY Begins DEF MainInv, Init
<1>4. PanickedInv
  <2>1. \A p \in Procs : pc[p] \notin {"panicking", "report"}
    BY Begins, Names
  <2> QED BY <2>1 DEF PanickedInv, Init
<1>5. HeardInv
  BY DEF HeardInv, Init
<1>6. OutcomeInv
  BY DEF OutcomeInv, Init
<1> QED BY <1>1, <1>2, <1>3, <1>4, <1>5, <1>6 DEF Inv, Structure

\* Everyone stays where its kind of goroutine can be.
LEMMA PlacesNext == Structure /\ [Next]_vars => Places'
<1> SUFFICES ASSUME Structure, [Next]_vars PROVE Places'
  OBVIOUS
<1> USE Names, Afterwards DEF Structure, Places, Mapping, Goto, chans, flags
<1>1. ASSUME NEW p \in Procs, WritePanic(p) \/ ReceivePanic(p) \/ EndCancel(p) \/ Unblock(p) \/
      Drained(p) PROVE Places'
  BY <1>1 DEF WritePanic, ReportOnce, ReceivePanic, EndCancel, Finish, Unblock, Drained
<1>2. CASE GeneratePanics \/ CloseSource \/ ExecutorLoop \/ ExecutorSelect \/ SourceEnded \/ ExecutorEnds
      \/ CloseCollector \/ ReducerReads \/ ReducerWrite \/ ReducerSends \/ ReducerPanics \/
      ReducerReturns \/ ReducerDrained \/ ReducerFinish \/ ReducerCancel \/ ContextDone \/ MainNoOutput
      \/ MainReturns \/ MainContext \/ UNCHANGED vars
  BY <1>2 DEF GeneratePanics, CloseSource, ExecutorLoop, ExecutorSelect, SourceEnded, ExecutorEnds,
         CloseCollector, MappersDone, Running, ReducerReads, ReducerWrite, ReducerSends, ReducerPanics,
         ReducerReturns, ReducerDrained, CollectorDrained, ReducerFinish, Finish, ReducerCancel, Cancel,
         SetError, ContextDone, MainNoOutput, MainReturns, MainContext, vars
<1>3. ASSUME NEW i \in Items, StartMapper(i) \/ MapperWrite(i) \/ MapperSend(i) \/ MapperLeaves(i) \/
      MapperCancel(i) \/ MapperPanics(i) PROVE Places'
  BY <1>3 DEF StartMapper, MapperWrite, MapperSend, MapperLeaves, MapperCancel, Cancel, SetError,
         MapperPanics
<1> QED
  BY <1>1, <1>2, <1>3 DEF Next, Steps, Terminated

\* No mapper starts once collector is closed.
LEMMA CollectorNext == Structure /\ [Next]_vars => CollectorInv'
<1> SUFFICES ASSUME Structure, [Next]_vars PROVE CollectorInv'
  OBVIOUS
<1> USE Names, Afterwards DEF Structure, Places, Mapping, Goto, chans, flags, CollectorInv
<1>1. ASSUME NEW p \in Procs, WritePanic(p) \/ ReceivePanic(p) \/ EndCancel(p) \/ Unblock(p) \/
      Drained(p) PROVE CollectorInv'
  BY <1>1 DEF WritePanic, ReportOnce, ReceivePanic, EndCancel, Finish, Unblock, Drained
<1>2. CASE GeneratePanics \/ CloseSource \/ ExecutorLoop \/ ExecutorSelect \/ SourceEnded \/ ExecutorEnds
      \/ CloseCollector \/ ReducerReads \/ ReducerWrite \/ ReducerSends \/ ReducerPanics \/
      ReducerReturns \/ ReducerDrained \/ ReducerFinish \/ ReducerCancel \/ ContextDone \/ MainNoOutput
      \/ MainReturns \/ MainContext \/ UNCHANGED vars
  BY <1>2 DEF GeneratePanics, CloseSource, ExecutorLoop, ExecutorSelect, SourceEnded, ExecutorEnds,
         CloseCollector, MappersDone, Running, ReducerReads, ReducerWrite, ReducerSends, ReducerPanics,
         ReducerReturns, ReducerDrained, CollectorDrained, ReducerFinish, Finish, ReducerCancel, Cancel,
         SetError, ContextDone, MainNoOutput, MainReturns, MainContext, vars
<1>3. ASSUME NEW i \in Items, StartMapper(i) \/ MapperWrite(i) \/ MapperSend(i) \/ MapperLeaves(i) \/
      MapperCancel(i) \/ MapperPanics(i) PROVE CollectorInv'
  BY <1>3 DEF StartMapper, MapperWrite, MapperSend, MapperLeaves, MapperCancel, Cancel, SetError,
         MapperPanics
<1> QED
  BY <1>1, <1>2, <1>3 DEF Next, Steps, Terminated

\* The reducer finishes after collector.
LEMMA ReducerNext == Structure /\ [Next]_vars => ReducerInv'
<1> SUFFICES ASSUME Structure, [Next]_vars PROVE ReducerInv'
  OBVIOUS
<1> USE Names, Afterwards DEF Structure, Places, Mapping, Goto, chans, flags, CollectorInv, ReducerInv
<1>1. ASSUME NEW p \in Procs, WritePanic(p) \/ ReceivePanic(p) \/ EndCancel(p) \/ Unblock(p) \/
      Drained(p) PROVE ReducerInv'
  BY <1>1 DEF WritePanic, ReportOnce, ReceivePanic, EndCancel, Finish, Unblock, Drained
<1>2. CASE GeneratePanics \/ CloseSource \/ ExecutorLoop \/ ExecutorSelect \/ SourceEnded \/ ExecutorEnds
      \/ CloseCollector \/ ReducerReads \/ ReducerWrite \/ ReducerSends \/ ReducerPanics \/
      ReducerReturns \/ ReducerDrained \/ ReducerFinish \/ ReducerCancel \/ ContextDone \/ MainNoOutput
      \/ MainReturns \/ MainContext \/ UNCHANGED vars
  BY <1>2 DEF GeneratePanics, CloseSource, ExecutorLoop, ExecutorSelect, SourceEnded, ExecutorEnds,
         CloseCollector, MappersDone, Running, ReducerReads, ReducerWrite, ReducerSends, ReducerPanics,
         ReducerReturns, ReducerDrained, CollectorDrained, ReducerFinish, Finish, ReducerCancel, Cancel,
         SetError, ContextDone, MainNoOutput, MainReturns, MainContext, vars
<1>3. ASSUME NEW i \in Items, StartMapper(i) \/ MapperWrite(i) \/ MapperSend(i) \/ MapperLeaves(i) \/
      MapperCancel(i) \/ MapperPanics(i) PROVE ReducerInv'
  BY <1>3 DEF StartMapper, MapperWrite, MapperSend, MapperLeaves, MapperCancel, Cancel, SetError,
         MapperPanics
<1> QED
  BY <1>1, <1>2, <1>3 DEF Next, Steps, Terminated

\* The first cancel sets the error.
LEMMA CancelNext == Structure /\ [Next]_vars => CancelInv'
<1> SUFFICES ASSUME Structure, [Next]_vars PROVE CancelInv'
  OBVIOUS
<1> USE Names, Afterwards DEF Structure, Places, Mapping, Goto, chans, flags, CancelInv
<1>1. ASSUME NEW p \in Procs, WritePanic(p) \/ ReceivePanic(p) \/ EndCancel(p) \/ Unblock(p) \/
      Drained(p) PROVE CancelInv'
  BY <1>1 DEF WritePanic, ReportOnce, ReceivePanic, EndCancel, Finish, Unblock, Drained
<1>2. CASE GeneratePanics \/ CloseSource \/ ExecutorLoop \/ ExecutorSelect \/ SourceEnded \/ ExecutorEnds
      \/ CloseCollector \/ ReducerReads \/ ReducerWrite \/ ReducerSends \/ ReducerPanics \/
      ReducerReturns \/ ReducerDrained \/ ReducerFinish \/ ReducerCancel \/ ContextDone \/ MainNoOutput
      \/ MainReturns \/ MainContext \/ UNCHANGED vars
  BY <1>2 DEF GeneratePanics, CloseSource, ExecutorLoop, ExecutorSelect, SourceEnded, ExecutorEnds,
         CloseCollector, MappersDone, Running, ReducerReads, ReducerWrite, ReducerSends, ReducerPanics,
         ReducerReturns, ReducerDrained, CollectorDrained, ReducerFinish, Finish, ReducerCancel, Cancel,
         SetError, ContextDone, MainNoOutput, MainReturns, MainContext, vars
<1>3. ASSUME NEW i \in Items, StartMapper(i) \/ MapperWrite(i) \/ MapperSend(i) \/ MapperLeaves(i) \/
      MapperCancel(i) \/ MapperPanics(i) PROVE CancelInv'
  BY <1>3 DEF StartMapper, MapperWrite, MapperSend, MapperLeaves, MapperCancel, Cancel, SetError,
         MapperPanics
<1> QED
  BY <1>1, <1>2, <1>3 DEF Next, Steps, Terminated

\* The executor stops only for a reason.
LEMMA ExecutorNext == Structure /\ [Next]_vars => ExecutorInv'
<1> SUFFICES ASSUME Structure, [Next]_vars PROVE ExecutorInv'
  OBVIOUS
<1> USE Names, Afterwards DEF Structure, Places, Mapping, Goto, chans, flags, CancelInv, CollectorInv,
    ReducerInv, ExecutorInv
<1>1. ASSUME NEW p \in Procs, WritePanic(p) \/ ReceivePanic(p) \/ EndCancel(p) \/ Unblock(p) \/
      Drained(p) PROVE ExecutorInv'
  BY <1>1 DEF WritePanic, ReportOnce, ReceivePanic, EndCancel, Finish, Unblock, Drained
<1>2. CASE GeneratePanics \/ CloseSource \/ ExecutorLoop \/ ExecutorSelect \/ SourceEnded \/ ExecutorEnds
      \/ CloseCollector \/ ReducerReads \/ ReducerWrite \/ ReducerSends \/ ReducerPanics \/
      ReducerReturns \/ ReducerDrained \/ ReducerFinish \/ ReducerCancel \/ ContextDone \/ MainNoOutput
      \/ MainReturns \/ MainContext \/ UNCHANGED vars
  BY <1>2 DEF GeneratePanics, CloseSource, ExecutorLoop, ExecutorSelect, SourceEnded, ExecutorEnds,
         CloseCollector, MappersDone, Running, ReducerReads, ReducerWrite, ReducerSends, ReducerPanics,
         ReducerReturns, ReducerDrained, CollectorDrained, ReducerFinish, Finish, ReducerCancel, Cancel,
         SetError, ContextDone, MainNoOutput, MainReturns, MainContext, vars
<1>3. ASSUME NEW i \in Items, StartMapper(i) \/ MapperWrite(i) \/ MapperSend(i) \/ MapperLeaves(i) \/
      MapperCancel(i) \/ MapperPanics(i) PROVE ExecutorInv'
  BY <1>3 DEF StartMapper, MapperWrite, MapperSend, MapperLeaves, MapperCancel, Cancel, SetError,
         MapperPanics
<1> QED
  BY <1>1, <1>2, <1>3 DEF Next, Steps, Terminated

\* An item is lost only for a reason.
LEMMA SourceNext == Structure /\ [Next]_vars => SourceInv'
<1> SUFFICES ASSUME Structure, [Next]_vars PROVE SourceInv'
  OBVIOUS
<1> USE Names, Afterwards DEF Structure, Places, Mapping, Goto, chans, flags, ExecutorInv, CancelInv,
    CollectorInv, SourceInv
<1>1. ASSUME NEW p \in Procs, WritePanic(p) \/ ReceivePanic(p) \/ EndCancel(p) \/ Unblock(p) \/
      Drained(p) PROVE SourceInv'
  BY <1>1 DEF WritePanic, ReportOnce, ReceivePanic, EndCancel, Finish, Unblock, Drained
<1>2. CASE GeneratePanics \/ CloseSource \/ ExecutorLoop \/ ExecutorSelect \/ SourceEnded \/ ExecutorEnds
      \/ CloseCollector \/ ReducerReads \/ ReducerWrite \/ ReducerSends \/ ReducerPanics \/
      ReducerReturns \/ ReducerDrained \/ ReducerFinish \/ ReducerCancel \/ ContextDone \/ MainNoOutput
      \/ MainReturns \/ MainContext \/ UNCHANGED vars
  BY <1>2 DEF GeneratePanics, CloseSource, ExecutorLoop, ExecutorSelect, SourceEnded, ExecutorEnds,
         CloseCollector, MappersDone, Running, ReducerReads, ReducerWrite, ReducerSends, ReducerPanics,
         ReducerReturns, ReducerDrained, CollectorDrained, ReducerFinish, Finish, ReducerCancel, Cancel,
         SetError, ContextDone, MainNoOutput, MainReturns, MainContext, vars
<1>3. ASSUME NEW i \in Items, StartMapper(i) \/ MapperWrite(i) \/ MapperSend(i) \/ MapperLeaves(i) \/
      MapperCancel(i) \/ MapperPanics(i) PROVE SourceInv'
  BY <1>3 DEF StartMapper, MapperWrite, MapperSend, MapperLeaves, MapperCancel, Cancel, SetError,
         MapperPanics
<1> QED
  BY <1>1, <1>2, <1>3 DEF Next, Steps, Terminated

\* The caller ends when output is closed.
LEMMA MainNext == Structure /\ MainInv /\ [Next]_vars => MainInv'
<1> SUFFICES ASSUME Structure /\ MainInv, [Next]_vars PROVE MainInv'
  OBVIOUS
<1> USE Names, Afterwards DEF Structure, Places, Mapping, Goto, chans, flags, CancelInv, ReducerInv, MainInv
<1>1. ASSUME NEW p \in Procs, WritePanic(p) \/ ReceivePanic(p) \/ EndCancel(p) \/ Unblock(p) \/
      Drained(p) PROVE MainInv'
  BY <1>1 DEF WritePanic, ReportOnce, ReceivePanic, EndCancel, Finish, Unblock, Drained
<1>2. CASE GeneratePanics \/ CloseSource \/ ExecutorLoop \/ ExecutorSelect \/ SourceEnded \/ ExecutorEnds
      \/ CloseCollector \/ ReducerReads \/ ReducerWrite \/ ReducerSends \/ ReducerPanics \/
      ReducerReturns \/ ReducerDrained \/ ReducerFinish \/ ReducerCancel \/ ContextDone \/ MainNoOutput
      \/ MainReturns \/ MainContext \/ UNCHANGED vars
  BY <1>2 DEF GeneratePanics, CloseSource, ExecutorLoop, ExecutorSelect, SourceEnded, ExecutorEnds,
         CloseCollector, MappersDone, Running, ReducerReads, ReducerWrite, ReducerSends, ReducerPanics,
         ReducerReturns, ReducerDrained, CollectorDrained, ReducerFinish, Finish, ReducerCancel, Cancel,
         SetError, ContextDone, MainNoOutput, MainReturns, MainContext, vars
<1>3. ASSUME NEW i \in Items, StartMapper(i) \/ MapperWrite(i) \/ MapperSend(i) \/ MapperLeaves(i) \/
      MapperCancel(i) \/ MapperPanics(i) PROVE MainInv'
  BY <1>3 DEF StartMapper, MapperWrite, MapperSend, MapperLeaves, MapperCancel, Cancel, SetError,
         MapperPanics
<1> QED
  BY <1>1, <1>2, <1>3 DEF Next, Steps, Terminated

\* A panic takes its way.
LEMMA PanickedNext == Structure /\ PanickedInv /\ [Next]_vars => PanickedInv'
<1> SUFFICES ASSUME Structure /\ PanickedInv, [Next]_vars PROVE PanickedInv'
  OBVIOUS
<1> USE Names, Afterwards DEF Structure, Places, Mapping, Goto, chans, flags, SourceInv, PanickedInv
<1>1. ASSUME NEW p \in Procs, WritePanic(p) \/ ReceivePanic(p) \/ EndCancel(p) \/ Unblock(p) \/
      Drained(p) PROVE PanickedInv'
  BY <1>1 DEF WritePanic, ReportOnce, ReceivePanic, EndCancel, Finish, Unblock, Drained
<1>2. CASE GeneratePanics \/ CloseSource \/ ExecutorLoop \/ ExecutorSelect \/ SourceEnded \/ ExecutorEnds
      \/ CloseCollector \/ ReducerReads \/ ReducerWrite \/ ReducerSends \/ ReducerPanics \/
      ReducerReturns \/ ReducerDrained \/ ReducerFinish \/ ReducerCancel \/ ContextDone \/ MainNoOutput
      \/ MainReturns \/ MainContext \/ UNCHANGED vars
  BY <1>2 DEF GeneratePanics, CloseSource, ExecutorLoop, ExecutorSelect, SourceEnded, ExecutorEnds,
         CloseCollector, MappersDone, Running, ReducerReads, ReducerWrite, ReducerSends, ReducerPanics,
         ReducerReturns, ReducerDrained, CollectorDrained, ReducerFinish, Finish, ReducerCancel, Cancel,
         SetError, ContextDone, MainNoOutput, MainReturns, MainContext, vars
<1>3. ASSUME NEW i \in Items, StartMapper(i) \/ MapperWrite(i) \/ MapperSend(i) \/ MapperLeaves(i) \/
      MapperCancel(i) \/ MapperPanics(i) PROVE PanickedInv'
  BY <1>3 DEF StartMapper, MapperWrite, MapperSend, MapperLeaves, MapperCancel, Cancel, SetError,
         MapperPanics
<1> QED
  BY <1>1, <1>2, <1>3 DEF Next, Steps, Terminated

\* The only panic is heard.
LEMMA HeardNext == Structure /\ MainInv /\ PanickedInv /\ HeardInv /\ [Next]_vars => HeardInv'
<1> SUFFICES ASSUME Structure /\ MainInv /\ PanickedInv /\ HeardInv, [Next]_vars PROVE HeardInv'
  OBVIOUS
<1> USE Names, Afterwards DEF Structure, Places, Mapping, Goto, chans, flags, SourceInv, MainInv,
    PanickedInv, Silent, Pending, Single, HeardInv
<1>1. ASSUME NEW p \in Procs, WritePanic(p) \/ ReceivePanic(p) \/ EndCancel(p) \/ Unblock(p) \/
      Drained(p) PROVE HeardInv'
  BY <1>1 DEF WritePanic, ReportOnce, ReceivePanic, EndCancel, Finish, Unblock, Drained
<1>2. CASE GeneratePanics \/ CloseSource \/ ExecutorLoop \/ ExecutorSelect \/ SourceEnded \/ ExecutorEnds
      \/ CloseCollector \/ ReducerReads \/ ReducerWrite \/ ReducerSends \/ ReducerPanics \/
      ReducerReturns \/ ReducerDrained \/ ReducerFinish \/ ReducerCancel \/ ContextDone \/ MainNoOutput
      \/ MainReturns \/ MainContext \/ UNCHANGED vars
  BY <1>2 DEF GeneratePanics, CloseSource, ExecutorLoop, ExecutorSelect, SourceEnded, ExecutorEnds,
         CloseCollector, MappersDone, Running, ReducerReads, ReducerWrite, ReducerSends, ReducerPanics,
         ReducerReturns, ReducerDrained, CollectorDrained, ReducerFinish, Finish, ReducerCancel, Cancel,
         SetError, ContextDone, MainNoOutput, MainReturns, MainContext, vars
<1>3. ASSUME NEW i \in Items, StartMapper(i) \/ MapperWrite(i) \/ MapperSend(i) \/ MapperLeaves(i) \/
      MapperCancel(i) \/ MapperPanics(i) PROVE HeardInv'
  BY <1>3 DEF StartMapper, MapperWrite, MapperSend, MapperLeaves, MapperCancel, Cancel, SetError,
         MapperPanics
<1> QED
  BY <1>1, <1>2, <1>3 DEF Next, Steps, Terminated

\* With no cancellation and no panic that was heard, a closed collector means that all items are mapped.
LEMMA AllMapped ==
    ASSUME Inv, outcome = "none", once = "new", ~ctxDone, Single, collClosed
    PROVE  \A i \in Items : pc[i] = "end"
<1>1. \A p \in panicked : Pending(p)
  BY DEF Inv, HeardInv
<1>2. ~failed
  <2> SUFFICES ASSUME failed PROVE FALSE
    OBVIOUS
  <2>1. PICK i \in Items : i \in panicked
    BY DEF Inv, Structure, ExecutorInv
  <2>2. pc[i] \in {"idle", "end"} /\ i # "red"
    BY Names DEF Inv, Structure, CollectorInv
  <2> QED BY <1>1, <2>1, <2>2 DEF Pending, Silent
<1>3. sourceClosed /\ pc["gen"] = "end"
  BY <1>2 DEF Inv, Structure, CollectorInv, ExecutorInv, SourceInv
<1>4. unsent = {}
  BY <1>1, <1>3 DEF Inv, Structure, SourceInv, Pending, Silent
<1> QED
  BY <1>2, <1>4 DEF Inv, Structure, SourceInv, CollectorInv

\* A mapper that is over stays so.
LEMMA MappedNext == ASSUME NEW k \in Items, Structure, Mapped(k), [Next]_vars PROVE Mapped(k)'
<1> USE Names, Afterwards DEF Structure, Places, Mapping, Goto, chans, flags, SourceInv, Mapped
<1>1. ASSUME NEW p \in Procs, WritePanic(p) \/ ReceivePanic(p) \/ EndCancel(p) \/ Unblock(p) \/
      Drained(p) PROVE Mapped(k)'
  BY <1>1 DEF WritePanic, ReportOnce, ReceivePanic, EndCancel, Finish, Unblock, Drained
<1>2. CASE GeneratePanics \/ CloseSource \/ ExecutorLoop \/ ExecutorSelect \/ SourceEnded \/ ExecutorEnds
      \/ CloseCollector \/ ReducerReads \/ ReducerWrite \/ ReducerSends \/ ReducerPanics \/
      ReducerReturns \/ ReducerDrained \/ ReducerFinish \/ ReducerCancel \/ ContextDone \/ MainNoOutput
      \/ MainReturns \/ MainContext \/ UNCHANGED vars
  BY <1>2 DEF GeneratePanics, CloseSource, ExecutorLoop, ExecutorSelect, SourceEnded, ExecutorEnds,
         CloseCollector, MappersDone, Running, ReducerReads, ReducerWrite, ReducerSends, ReducerPanics,
         ReducerReturns, ReducerDrained, CollectorDrained, ReducerFinish, Finish, ReducerCancel, Cancel,
         SetError, ContextDone, MainNoOutput, MainReturns, MainContext, vars
<1>3. ASSUME NEW i \in Items, StartMapper(i) \/ MapperWrite(i) \/ MapperSend(i) \/ MapperLeaves(i) \/
      MapperCancel(i) \/ MapperPanics(i) PROVE Mapped(k)'
  BY <1>3 DEF StartMapper, MapperWrite, MapperSend, MapperLeaves, MapperCancel, Cancel, SetError,
         MapperPanics
<1> QED
  BY <1>1, <1>2, <1>3 DEF Next, Steps, Terminated

\* What a step does to the history: a context that is done stays so, a panic is not forgotten, and the
\* outcome changes when the caller leaves its select or panics.
LEMMA Monotone ==
    ASSUME [Next]_vars
    PROVE  /\ ctxDone => ctxDone'
           /\ panicked \subseteq panicked'
           /\ IsFiniteSet(panicked) => IsFiniteSet(panicked')
           /\ acts' = acts
           /\ \/ outcome' = outcome \/ outcome' \in {"error", "panic"}
              \/ (ReducerSends /\ pc["main"] = "select") \/ MainNoOutput
<1>1. ctxDone => ctxDone'
  BY DEF Next, Steps, Terminated, vars, flags,
         WritePanic, ReceivePanic, EndCancel, Unblock, Drained, GeneratePanics, CloseSource, ExecutorLoop,
         ExecutorSelect, SourceEnded, CloseCollector, ExecutorEnds, StartMapper, MapperWrite, MapperSend,
         MapperCancel, MapperPanics, MapperLeaves, ReducerReads, ReducerWrite, ReducerSends, ReducerPanics,
         ReducerCancel, ReducerReturns, ReducerDrained, ReducerFinish, MainContext, MainNoOutput, MainReturns,
         ContextDone
<1>2. panicked' = panicked \/ \E p \in Procs : panicked' = panicked \cup {p}
  BY Names DEF Next, Steps, Terminated, vars, flags,
         WritePanic, ReceivePanic, EndCancel, Unblock, Drained, GeneratePanics, CloseSource, ExecutorLoop,
         ExecutorSelect, SourceEnded, CloseCollector, ExecutorEnds, StartMapper, MapperWrite, MapperSend,
         MapperCancel, MapperPanics, MapperLeaves, ReducerReads, ReducerWrite, ReducerSends, ReducerPanics,
         ReducerCancel, ReducerReturns, ReducerDrained, ReducerFinish, MainContext, MainNoOutput, MainReturns,
         ContextDone
<1>3. IsFiniteSet(panicked) => IsFiniteSet(panicked')
  BY <1>2, FS_AddElement
<1>4. acts' = acts
  BY DEF Next, Steps, Terminated, vars,
         WritePanic, ReceivePanic, EndCancel, Unblock, Drained, GeneratePanics, CloseSource, ExecutorLoop,
         ExecutorSelect, SourceEnded, CloseCollector, ExecutorEnds, StartMapper, MapperWrite, MapperSend,
         MapperCancel, MapperPanics, MapperLeaves, ReducerReads, ReducerWrite, ReducerSends, ReducerPanics,
         ReducerCancel, ReducerReturns, ReducerDrained, ReducerFinish, MainContext, MainNoOutput, MainReturns,
         ContextDone
<1>5. \/ outcome' = outcome \/ outcome' \in {"error", "panic"}
      \/ (ReducerSends /\ pc["main"] = "select") \/ MainNoOutput
  BY DEF Next, Steps, Terminated, vars,
         WritePanic, ReceivePanic, EndCancel, Unblock, Drained, GeneratePanics, CloseSource, ExecutorLoop,
         ExecutorSelect, SourceEnded, CloseCollector, ExecutorEnds, StartMapper, MapperWrite, MapperSend,
         MapperCancel, MapperPanics, MapperLeaves, ReducerReads, ReducerWrite, ReducerSends, ReducerPanics,
         ReducerCancel, ReducerReturns, ReducerDrained, ReducerFinish, MainContext, MainNoOutput, MainReturns,
         ContextDone
<1> QED BY <1>1, <1>2, <1>3, <1>4, <1>5

\* A good outcome is taken when all items are mapped.
LEMMA OutcomeNext == Inv /\ [Next]_vars => OutcomeInv'
<1> SUFFICES ASSUME Inv, [Next]_vars, outcome' \in {"value", "nooutput"}, ~ctxDone', Single',
    "redearly" \notin acts'
             PROVE  \A i \in Items : pc'[i] = "end"
  BY DEF OutcomeInv
<1>1. ~ctxDone /\ Single /\ "redearly" \notin acts
  BY Monotone DEF Single
<1>2. \A i \in Items : pc[i] = "end"
  <2>1. CASE outcome' = outcome
    BY <2>1, <1>1 DEF Inv, OutcomeInv
  <2>2. CASE ReducerSends /\ pc["main"] = "select"
    <3>1. ~retErr /\ pc["red"] = "send" /\ outcome = "none"
      BY <2>2 DEF ReducerSends, Inv, MainInv
    <3>2. once = "new" /\ collClosed
      BY <3>1, <1>1 DEF Inv, Structure, CancelInv, ReducerInv
    <3> QED BY <3>1, <3>2, <1>1, AllMapped
  <2>3. CASE MainNoOutput
    <3>1. ~retErr /\ outClosed /\ outcome = "none"
      BY <2>3 DEF MainNoOutput, Inv, MainInv
    <3>2. once = "new" /\ collClosed
      BY <3>1 DEF Inv, Structure, CancelInv, ReducerInv
    <3> QED BY <3>1, <3>2, <1>1, AllMapped
  <2> QED BY <2>1, <2>2, <2>3, Monotone
<1> QED
  BY <1>2, MappedNext DEF Mapped, Inv

\* The invariant is inductive.
LEMMA Inductive == Spec => []Inv
<1>1. Inv /\ [Next]_vars => Inv'
  <2> SUFFICES ASSUME Inv, [Next]_vars PROVE Inv'
    OBVIOUS
  <2>1. writes' \in Nat
    BY DEF Inv, Structure, Next, Steps, Terminated, vars, WritePanic, ReceivePanic, EndCancel, Unblock, Drained,
           GeneratePanics, CloseSource, ExecutorLoop, ExecutorSelect, SourceEnded, CloseCollector, ExecutorEnds,
           StartMapper, MapperWrite, MapperSend, MapperCancel, MapperPanics, MapperLeaves, ReducerReads,
           ReducerWrite, ReducerSends, ReducerPanics, ReducerCancel, ReducerReturns, ReducerDrained,
           ReducerFinish, MainContext, MainNoOutput, MainReturns, ContextDone
  <2>2. Structure /\ MainInv /\ PanickedInv /\ HeardInv
    BY DEF Inv
  <2> QED
    BY <2>1, <2>2, PlacesNext, CollectorNext, ReducerNext, CancelNext, ExecutorNext, SourceNext, MainNext,
       PanickedNext, HeardNext, OutcomeNext DEF Inv, Structure
<1> QED
  BY InvInit, <1>1, PTL DEF Spec

\* A mapper that has passed the check of guardedWriter.Write never meets the
\* closed collector: executeMappers closes it after wg.Wait().
THEOREM CollectorOutlivesMappers == Spec => []NoSendAfterClose
<1>1. Inv => NoSendAfterClose
  BY DEF Inv, Structure, CollectorInv, NoSendAfterClose
<1> QED
  BY <1>1, Inductive, PTL

\* The call returns after all of its mappers, unless it was cancelled.
THEOREM CallOutlivesMappers == Spec => []ReturnsAfterMappers
<1>1. Inv => ReturnsAfterMappers
  <2> SUFFICES ASSUME Inv, pc["main"] = "end", once = "new", ~ctxDone, writes < 2
               PROVE  Running = {} /\ collClosed /\ (panicked # {} \/ sourceClosed)
    BY DEF ReturnsAfterMappers
  <2>1. outClosed
    BY DEF Inv, Structure, MainInv
  <2>2. pc["red"] = "end" /\ collClosed
    BY <2>1 DEF Inv, Structure, ReducerInv
  <2>3. Running = {}
    BY <2>2 DEF Inv, Structure, CollectorInv, Running
  <2>4. panicked # {} \/ sourceClosed
    BY <2>2 DEF Inv, Structure, CollectorInv, ExecutorInv
  <2> QED BY <2>2, <2>3, <2>4
<1> QED
  BY <1>1, Inductive, PTL

\* At most one member of a finite set is one.
LEMMA AtMostOne == ASSUME IsFiniteSet(panicked), Cardinality(panicked) <= 1 PROVE Single
<1> SUFFICES ASSUME NEW p \in panicked, NEW q \in panicked, p # q PROVE FALSE
  BY DEF Single
<1>1. IsFiniteSet({p, q}) /\ Cardinality({p, q}) = 2
  <2>1. IsFiniteSet({p}) /\ Cardinality({p}) = 1
    BY FS_Singleton
  <2>2. {p, q} = {p} \cup {q} /\ q \notin {p}
    OBVIOUS
  <2> QED BY <2>1, <2>2, FS_AddElement
<1>2. Cardinality({p, q}) <= Cardinality(panicked)
  BY FS_Subset
<1>3. Cardinality(panicked) \in Nat
  BY FS_CardinalityType
<1> QED
  BY <1>1, <1>2, <1>3

\* The call does not end well when an item was not mapped, and the only panic reaches the caller.
THEOREM OutcomesAreFaithful == Spec => []OutcomeFaithful
<1>1. Spec => []IsFiniteSet(panicked)
  <2>1. Init => IsFiniteSet(panicked)
    BY FS_EmptySet DEF Init
  <2>2. IsFiniteSet(panicked) /\ [Next]_vars => IsFiniteSet(panicked)'
    BY Monotone
  <2> QED BY <2>1, <2>2, PTL DEF Spec
<1>2. Inv /\ IsFiniteSet(panicked) => OutcomeFaithful
  <2> SUFFICES ASSUME Inv, IsFiniteSet(panicked), pc["main"] = "end", Undisturbed
               PROVE  /\ outcome \in {"value", "nooutput"} => \A i \in Items : pc[i] = "end"
                      /\ panicked # {} /\ once = "new" => outcome = "panic"
    BY DEF OutcomeFaithful
  <2>1. Single
    BY AtMostOne DEF Undisturbed
  <2>2. outcome \in {"value", "nooutput"} => \A i \in Items : pc[i] = "end"
    BY <2>1 DEF Inv, OutcomeInv, Undisturbed
  <2>3. ASSUME panicked # {}, once = "new" PROVE outcome = "panic"
    <3> SUFFICES ASSUME outcome # "panic" PROVE FALSE
      OBVIOUS
    <3>1. PICK p \in panicked : TRUE
      BY <2>3
    <3>2. Pending(p) /\ p \in Procs
      BY <2>1 DEF Inv, HeardInv, PanickedInv
    <3>3. pc["red"] = "end" /\ collClosed
      BY <2>3 DEF Inv, Structure, MainInv, ReducerInv
    <3>4. \A i \in Items : pc[i] \in {"idle", "end"}
      BY <3>3 DEF Inv, Structure, CollectorInv
    <3>5. p = "gen"
      BY <3>2, <3>3, <3>4, Names DEF Pending, Silent, Inv, Structure, Places
    <3>6. ~failed
      BY <2>1, <3>5, Names DEF Single, Inv, Structure, ExecutorInv
    <3>7. sourceClosed
      BY <2>3, <3>3, <3>6 DEF Inv, Structure, CollectorInv, ExecutorInv, Undisturbed
    <3> QED
      BY <3>2, <3>5, <3>7 DEF Inv, Structure, SourceInv, Pending, Silent
  <2> QED BY <2>2, <2>3
<1> QED
  BY <1>1, <1>2, Inductive, PTL
=============================================================================
