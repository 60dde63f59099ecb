-------------------------- MODULE CacheNode_proof --------------------------
(***************************************************************************)
(* A stale row in redis has a reason, for any readers, keys, workers and   *)
(* number of updates.  The argument: a row becomes stale only by an update *)
(* of the database, which makes its deletion outstanding, and the deletion *)
(* stays outstanding, from the caller of Exec to the task of the cleaner   *)
(* and from one state of the task to the next, until redis has done it or  *)
(* the task is given up.                                                   *)
(***************************************************************************)
EXTENDS CacheNode, TLAPS

Delays == {0, 1, 5, 60, 300, 3600}
States == {"none", "timer", "scheduled", "running", "setting"}
Tasks == [keys : SUBSET Keys, delay : Delays, drained : BOOLEAN, st : States]

\* The tasks of the cleaner; one that is over has no keys.
Cleaned == /\ tasks \in [1 .. MaxTasks -> Tasks] /\ abandoned \subseteq Keys
           /\ \A t \in 1 .. MaxTasks : tasks[t].st = "none" => tasks[t].keys = {}

\* What the argument needs to know of the types.
Shape == Cleaned /\ todo \subseteq Keys /\ DOMAIN redis = Keys /\ DOMAIN db = Keys

Inv == Shape /\ StaleExplained

\* A key is the business of a task, or was.
Tended(k) == (\E t \in 1 .. MaxTasks : k \in tasks[t].keys) \/ k \in abandoned

\* Its deletion is to be made by the caller of Exec.
Owed(k) == wpc \in {"delete", "add"} /\ k \in todo

Good(k) == redis[k].val \in {Row(k), Bad, Nothing.val} \/ redis[k].late

\* The parts of Outstanding and of the invariant.
LEMMA Parts == /\ \A k : Outstanding(k) <=> Owed(k) \/ Tended(k)
               /\ StaleExplained <=> \A k \in Keys : Good(k) \/ Owed(k) \/ Tended(k)
  BY DEF Outstanding, Owed, Tended, Good, StaleExplained

\* A row that SETEX writes is fresh, or its deletion is outstanding, or it is late.
LEMMA EntryIsExplained ==
    ASSUME NEW k, NEW v, redis'[k] = Entry(k, v), db'[k] = db[k], Owed(k) => Owed(k)', Tended(k) => Tended(k)'
    PROVE  Good(k)' \/ Owed(k)' \/ Tended(k)'
<1>1. CASE Outstanding(k)
  BY <1>1, Parts
<1>2. CASE ~Outstanding(k)
  <2>1. redis'[k].val = v /\ redis'[k].late = (v # Row(k))
    BY <1>2 DEF Entry
  <2>2. Row(k)' = Row(k)
    BY DEF Row
  <2> QED BY <2>1, <2>2 DEF Good
<1> QED BY <1>1, <1>2

\* One task is replaced.
LEMMA OneTask ==
    ASSUME Cleaned, NEW t \in 1 .. MaxTasks, NEW r \in Tasks, tasks' = [tasks EXCEPT ![t] = r],
           r.st = "none" => r.keys = {}, abandoned' \subseteq Keys, abandoned \subseteq abandoned'
    PROVE  /\ Cleaned'
           /\ \A k : Tended(k) => Tended(k)' \/ k \in tasks[t].keys
           /\ \A k \in r.keys : Tended(k)'
<1>1. tasks' \in [1 .. MaxTasks -> Tasks] /\ tasks'[t] = r
      /\ \A u \in 1 .. MaxTasks : u # t => tasks'[u] = tasks[u]
  BY DEF Cleaned
<1>2. Cleaned'
  BY <1>1 DEF Cleaned
<1> QED BY <1>1, <1>2 DEF Tended

\* A task goes on, with its keys.
LEMMA TaskGoesOn ==
    ASSUME Cleaned, NEW t \in 1 .. MaxTasks, NEW r \in Tasks, tasks' = [tasks EXCEPT ![t] = r],
           r.keys = tasks[t].keys, r.st # "none", abandoned' = abandoned
    PROVE  Cleaned' /\ \A k : Tended(k) => Tended(k)'
<1>1. abandoned' \subseteq Keys
  BY DEF Cleaned
<1> QED BY <1>1, OneTask

\* A task is over, and its keys are given up.
LEMMA TaskGivenUp ==
    ASSUME Cleaned, NEW t \in 1 .. MaxTasks, CL!End(t), abandoned' = abandoned \cup tasks[t].keys
    PROVE  Cleaned' /\ \A k : Tended(k) => Tended(k)'
<1> DEFINE r == [keys |-> {}, delay |-> 0, st |-> "none", drained |-> FALSE]
<1>1. r \in Tasks /\ r.keys = {}
  BY DEF Tasks, Delays, States
<1>2. tasks' = [tasks EXCEPT ![t] = r]
  BY DEF CL!End, CL!NoTask
<1>3. tasks[t].keys \subseteq Keys
  BY DEF Cleaned, Tasks
<1>4. abandoned' \subseteq Keys
  BY <1>3 DEF Cleaned
<1> HIDE DEF r
<1>5. Cleaned' /\ \A k : Tended(k) => Tended(k)' \/ k \in tasks[t].keys
  BY <1>1, <1>2, <1>4, OneTask
<1>6. \A k \in tasks[t].keys : Tended(k)'
  BY DEF Tended
<1> QED BY <1>5, <1>6

\* The cleaner forgets no key, but those that redis has deleted.
LEMMA CleanerStep ==
    ASSUME Cleaned,
           \/ \E t \in 1 .. MaxTasks : CL!Fire(t) \/ CL!Schedule(t) \/ CL!Fail(t) \/ CL!SetTimer(t)
           \/ CL!Drain \/ CL!DrainAllEnds
    PROVE  Cleaned' /\ \A k : Tended(k) => Tended(k)'
<1> DEFINE Kept == Cleaned' /\ \A k : Tended(k) => Tended(k)'
<1>1. ASSUME NEW t \in 1 .. MaxTasks, CL!Fire(t) \/ CL!Schedule(t) PROVE Kept
  <2>1. PICK s \in {"scheduled", "running"} : tasks' = [tasks EXCEPT ![t].st = s] /\ abandoned' = abandoned
    BY <1>1 DEF CL!Fire, CL!Schedule, CL!To
  <2> DEFINE r == [tasks[t] EXCEPT !.st = s]
  <2>2. r \in Tasks /\ r.keys = tasks[t].keys /\ r.st # "none"
    BY DEF Cleaned, Tasks, States
  <2>3. tasks' = [tasks EXCEPT ![t] = r]
    BY <2>1
  <2> HIDE DEF r
  <2> QED BY <2>1, <2>2, <2>3, TaskGoesOn
<1>2. ASSUME NEW t \in 1 .. MaxTasks, CL!Fail(t) PROVE Kept
  <2>1. CASE \E d \in CL!NextDelay(tasks[t].delay) : tasks' = [tasks EXCEPT ![t].st = "setting", ![t].delay = d]
             /\ abandoned' = abandoned
    <3>1. PICK d \in CL!NextDelay(tasks[t].delay) : tasks' = [tasks EXCEPT ![t].st = "setting", ![t].delay = d]
      BY <2>1
    <3>2. d \in Delays
      BY DEF CL!NextDelay, Delays
    <3> DEFINE r == [tasks[t] EXCEPT !.st = "setting", !.delay = d]
    <3>3. r \in Tasks /\ r.keys = tasks[t].keys /\ r.st # "none"
      BY <3>2 DEF Cleaned, Tasks, States
    <3>4. tasks' = [tasks EXCEPT ![t] = r]
      BY <3>1 DEF Cleaned, Tasks
    <3> HIDE DEF r
    <3> QED BY <2>1, <3>3, <3>4, TaskGoesOn
  <2>2. CASE CL!End(t) /\ abandoned' = abandoned \cup tasks[t].keys
    BY <2>2, TaskGivenUp
  <2> QED BY <1>2, <2>1, <2>2 DEF CL!Fail
<1>3. ASSUME NEW t \in 1 .. MaxTasks, CL!SetTimer(t) PROVE Kept
  <2>1. CASE tasks' = [tasks EXCEPT ![t].st = "timer", ![t].drained = FALSE] /\ abandoned' = abandoned
    <3> DEFINE r == [tasks[t] EXCEPT !.st = "timer", !.drained = FALSE]
    <3>1. r \in Tasks /\ r.keys = tasks[t].keys /\ r.st # "none"
      BY DEF Cleaned, Tasks, States
    <3>2. tasks' = [tasks EXCEPT ![t] = r]
      BY <2>1 DEF Cleaned, Tasks
    <3> HIDE DEF r
    <3> QED BY <2>1, <3>1, <3>2, TaskGoesOn
  <2>2. CASE CL!End(t) /\ abandoned' = abandoned \cup tasks[t].keys
    BY <2>2, TaskGivenUp
  <2> QED BY <1>3, <2>1, <2>2 DEF CL!SetTimer
<1>4. CASE CL!Drain
  <2> DEFINE After(t) == IF tasks[t].st = "timer"
                        THEN [tasks[t] EXCEPT !.st = "scheduled", !.drained = TRUE] ELSE tasks[t]
  <2>1. \A t \in 1 .. MaxTasks : After(t) \in Tasks /\ After(t).keys = tasks[t].keys
        /\ (After(t).st = "none" <=> tasks[t].st = "none")
    BY DEF Cleaned, Tasks, States
  <2>2. tasks' = [t \in 1 .. MaxTasks |-> After(t)] /\ abandoned' = abandoned
    BY <1>4 DEF CL!Drain
  <2> HIDE DEF After
  <2> QED BY <2>1, <2>2 DEF Cleaned, Tended
<1>5. CASE CL!DrainAllEnds
  BY <1>5 DEF CL!DrainAllEnds, Cleaned, Tended
<1> QED BY <1>1, <1>2, <1>3, <1>4, <1>5

\* A new task takes a place that was free.
LEMMA TaskAdded ==
    ASSUME Cleaned, NEW ks \in SUBSET Keys, CL!AddCleanTask(ks)
    PROVE  Cleaned' /\ (\A k : Tended(k) => Tended(k)') /\ \A k \in ks : Tended(k)'
<1> DEFINE r == [keys |-> ks, delay |-> 1, st |-> "timer", drained |-> FALSE]
<1>1. PICK t \in 1 .. MaxTasks : tasks[t].st = "none" /\ tasks' = [tasks EXCEPT ![t] = r]
  BY DEF CL!AddCleanTask, CL!In
<1>2. r \in Tasks /\ r.keys = ks /\ r.st # "none"
  BY DEF Tasks, Delays, States
<1>3. abandoned' = abandoned /\ abandoned' \subseteq Keys
  BY DEF CL!AddCleanTask, Cleaned
<1>4. tasks[t].keys = {}
  BY <1>1 DEF Cleaned
<1> HIDE DEF r
<1> QED BY <1>1, <1>2, <1>3, <1>4, OneTask

\* A task that succeeds is over, and nobody else forgets a key.
LEMMA TaskSucceeds ==
    ASSUME Cleaned, NEW t \in 1 .. MaxTasks, CL!Succeed(t)
    PROVE  Cleaned' /\ \A k : Tended(k) => Tended(k)' \/ k \in tasks[t].keys
<1> DEFINE r == [keys |-> {}, delay |-> 0, st |-> "none", drained |-> FALSE]
<1>1. r \in Tasks /\ r.keys = {}
  BY DEF Tasks, Delays, States
<1>2. tasks' = [tasks EXCEPT ![t] = r] /\ abandoned' = abandoned /\ abandoned' \subseteq Keys
  BY DEF CL!Succeed, CL!End, CL!NoTask, Cleaned
<1> HIDE DEF r
<1> QED BY <1>1, <1>2, OneTask

\* What no step but an update of the database does: make a good row stale.  Redis keeps what it had for a key,
\* forgets it or gets a new row.
LEMMA Explained ==
    ASSUME Inv, db' = db,
           NEW k \in Keys, Tended(k) => Tended(k)' \/ redis'[k] = Nothing,
           Owed(k) => Owed(k)' \/ Tended(k)' \/ redis'[k] = Nothing,
           redis'[k] \in {redis[k], Nothing}
    PROVE  Good(k)' \/ Owed(k)' \/ Tended(k)'
<1>1. CASE redis'[k] = Nothing
  BY <1>1 DEF Good, Nothing
<1>2. CASE redis'[k] = redis[k] /\ redis'[k] # Nothing
  <2>1. Good(k) => Good(k)'
    BY <1>2 DEF Good, Row
  <2> QED BY <1>2, <2>1, Parts DEF Inv
<1> QED BY <1>1, <1>2

\* The invariant holds initially.
LEMMA InvInit == Init => Inv
<1> SUFFICES ASSUME Init PROVE Inv
  OBVIOUS
<1>1. Cleaned
  BY DEF Init, CL!Init, CL!NoTask, Cleaned, Tasks, States, Delays
<1>2. StaleExplained
  BY DEF Init, StaleExplained, Nothing
<1> QED BY <1>1, <1>2 DEF Init, Inv, Shape

\* Every step preserves it.
LEMMA InvNext == Inv /\ [Next]_vars => Inv'
<1> SUFFICES ASSUME Inv, [Next]_vars PROVE Inv'
  OBVIOUS
<1>0. Shape /\ Cleaned
  BY DEF Inv, Shape
<1> DEFINE Fine == \A k \in Keys : Good(k)' \/ Owed(k)' \/ Tended(k)'
<1>a. Fine /\ Shape' => Inv'
  BY DEF Inv, StaleExplained, Outstanding, Good, Owed, Tended
<1>b. ASSUME UNCHANGED cleaner PROVE Cleaned' /\ \A k : Tended(k)' <=> Tended(k)
  BY <1>b, <1>0 DEF cleaner, Cleaned, Tended
<1>c. ASSUME UNCHANGED writer PROVE \A k : Owed(k)' <=> Owed(k)
  BY <1>c DEF writer, Owed
<1> HIDE DEF Fine
<1>1. CASE UNCHANGED <<cleaner, redis, db, writer>>
  <2>1. Shape'
    BY <1>1, <1>0, <1>b DEF Shape, writer
  <2>2. Fine
    BY <1>1, <1>b, <1>c, Explained DEF Fine
  <2> QED BY <2>1, <2>2, <1>a
<1>2. ASSUME NEW p \in Procs, TakeStep(p) PROVE Inv'
  <2>1. CASE ProcessCache(p)
    <3>1. Shape'
      BY <2>1, <1>0, <1>b DEF Shape, writer, ProcessCache
    <3>2. ASSUME NEW k \in Keys PROVE redis'[k] \in {redis[k], Nothing}
      BY <2>1, <1>0 DEF ProcessCache, Shape
    <3>3. Fine
      BY <2>1, <3>2, <1>b, <1>c, Explained DEF Fine, ProcessCache
    <3> QED BY <3>1, <3>3, <1>a
  <2>2. CASE CacheVal(p)
    <3>1. Shape'
      BY <2>2, <1>0, <1>b DEF Shape, writer, CacheVal
    <3>2. ASSUME NEW k \in Keys PROVE redis'[k] = redis[k] \/ redis'[k] = Entry(k, row[p])
      BY <2>2, <1>0 DEF CacheVal, Shape
    <3>3. UNCHANGED <<cleaner, db, writer>>
      BY <2>2 DEF CacheVal
    <3>4. Fine
      BY <3>2, <3>3, <1>b, <1>c, Explained, EntryIsExplained DEF Fine
    <3> QED BY <3>1, <3>4, <1>a
  <2>3. CASE DoGetCache(p) \/ Query(p) \/ FnReturns(p) \/ EndFlight(p)
    BY <2>3, <1>1 DEF DoGetCache, Query, FnReturns, EndFlight
  <2> QED BY <1>2, <2>1, <2>2, <2>3 DEF TakeStep
<1>3. ASSUME NEW p \in Procs, NEW k \in Keys, TakeCtx(p, k) PROVE Inv'
  BY <1>3, <1>1 DEF TakeCtx
<1>4. ASSUME NEW ks \in SUBSET Keys, ExecCtx(ks) PROVE Inv'
  <2>1. /\ db' = [k \in Keys |-> IF k \in ks THEN db[k] + 1 ELSE db[k]]
        /\ wpc = "idle" /\ wpc' = "delete" /\ todo' = ks /\ redis' = redis /\ UNCHANGED cleaner
    BY <1>4 DEF ExecCtx
  <2>2. Shape'
    BY <2>1, <1>0, <1>b DEF Shape
  <2>3. ASSUME NEW k \in Keys, k \notin ks PROVE Good(k)' \/ Owed(k)' \/ Tended(k)'
    <3>1. db'[k] = db[k]
      BY <2>1, <2>3
    <3>2. Good(k) \/ Tended(k)
      BY <2>1, Parts DEF Inv, Owed
    <3>3. Row(k)' = Row(k)
      BY <3>1 DEF Row
    <3> QED BY <2>1, <3>2, <3>3, <1>b DEF Good
  <2>4. ASSUME NEW k \in ks PROVE Owed(k)'
    BY <2>1 DEF Owed
  <2> QED BY <2>2, <2>3, <2>4, <1>a DEF Fine
<1>5. ASSUME NEW ks \in SUBSET Keys, DelCtx(ks) PROVE Inv'
  <2>1. ks \subseteq todo /\ wpc = "delete" /\ UNCHANGED <<cleaner, db>>
    BY <1>5 DEF DelCtx, Batches
  <2>2. CASE /\ redis' = [k \in Keys |-> IF k \in ks THEN Nothing ELSE redis[k]]
             /\ todo' = todo \ ks /\ UNCHANGED wpc
    <3>1. Shape'
      BY <2>1, <2>2, <1>0, <1>b DEF Shape
    <3>2. ASSUME NEW k \in Keys PROVE redis'[k] \in {redis[k], Nothing} /\ (k \in ks => redis'[k] = Nothing)
      BY <2>2
    <3>3. ASSUME NEW k \in Keys, k \notin ks PROVE Owed(k)' <=> Owed(k)
      BY <2>2, <3>3 DEF Owed
    <3>4. Fine
      BY <2>1, <3>2, <3>3, <1>b, Explained DEF Fine
    <3> QED BY <3>1, <3>4, <1>a
  <2>3. CASE wpc' = "add" /\ UNCHANGED <<redis, todo>>
    <3>1. Shape'
      BY <2>1, <2>3, <1>0, <1>b DEF Shape
    <3>2. \A k : Owed(k)' <=> Owed(k)
      BY <2>1, <2>3 DEF Owed
    <3>3. Fine
      BY <2>1, <2>3, <3>2, <1>b, Explained DEF Fine
    <3> QED BY <3>1, <3>3, <1>a
  <2> QED BY <1>5, <2>2, <2>3 DEF DelCtx
<1>6. ASSUME NEW ks \in SUBSET Keys, AsyncRetryDelCache(ks) PROVE Inv'
  <2>1. /\ ks \subseteq todo /\ CL!AddCleanTask(ks) /\ wpc = "add" /\ wpc' = "delete" /\ todo' = todo \ ks
        /\ UNCHANGED <<redis, db>>
    BY <1>6 DEF AsyncRetryDelCache, Batches
  <2>2. Cleaned' /\ (\A k : Tended(k) => Tended(k)') /\ \A k \in ks : Tended(k)'
    BY <2>1, <1>0, TaskAdded
  <2>3. Shape'
    BY <2>1, <2>2, <1>0 DEF Shape
  <2>4. \A k : Owed(k) => Owed(k)' \/ k \in ks
    BY <2>1 DEF Owed
  <2>5. Fine
    BY <2>1, <2>2, <2>4, Explained DEF Fine
  <2> QED BY <2>3, <2>5, <1>a
<1>7. CASE ExecReturns
  <2>1. \A k : ~Owed(k) /\ UNCHANGED <<cleaner, db, redis, todo>>
    BY <1>7 DEF ExecReturns, Owed
  <2>2. Shape'
    BY <2>1, <1>0, <1>b DEF Shape
  <2>3. Fine
    BY <2>1, <1>b, Explained DEF Fine
  <2> QED BY <2>2, <2>3, <1>a
<1>8. ASSUME NEW k \in Keys, Expire(k) PROVE Inv'
  <2>1. UNCHANGED <<cleaner, db, writer>> /\ DOMAIN redis' = Keys /\ \A j \in Keys : redis'[j] \in {redis[j],
        Nothing}
    BY <1>8, <1>0 DEF Expire, Shape
  <2>2. Shape'
    BY <2>1, <1>0, <1>b DEF Shape, writer
  <2>3. Fine
    BY <2>1, <1>b, <1>c, Explained DEF Fine
  <2> QED BY <2>2, <2>3, <1>a
<1>9. ASSUME NEW k \in Keys, NEW v \in 1 .. MaxUpdates, SetCtx(k, v) PROVE Inv'
  <2>1. /\ UNCHANGED <<cleaner, db, writer>> /\ DOMAIN redis' = Keys
        /\ \A j \in Keys : redis'[j] = redis[j] \/ redis'[j] = Entry(j, v)
    BY <1>9, <1>0 DEF SetCtx, Shape
  <2>2. Shape'
    BY <2>1, <1>0, <1>b DEF Shape, writer
  <2>3. Fine
    BY <2>1, <1>b, <1>c, Explained, EntryIsExplained DEF Fine
  <2> QED BY <2>2, <2>3, <1>a
<1>10. ASSUME NEW t \in 1 .. MaxTasks, CL!Succeed(t), UNCHANGED <<db, writer>>,
              redis' = [k \in Keys |-> IF k \in tasks[t].keys THEN Nothing ELSE redis[k]]
       PROVE  Inv'
  <2>1. Cleaned' /\ \A k : Tended(k) => Tended(k)' \/ k \in tasks[t].keys
    BY <1>10, <1>0, TaskSucceeds
  <2>2. Shape'
    BY <1>10, <2>1, <1>0 DEF Shape, writer
  <2>3. \A k \in Keys : redis'[k] \in {redis[k], Nothing} /\ (k \in tasks[t].keys => redis'[k] = Nothing)
    BY <1>10
  <2>4. Fine
    BY <1>10, <2>1, <2>3, <1>c, Explained DEF Fine
  <2> QED BY <2>2, <2>4, <1>a
<1>11. ASSUME UNCHANGED <<redis, db, writer>>,
              \/ \E t \in 1 .. MaxTasks : CL!Fire(t) \/ CL!Schedule(t) \/ CL!Fail(t) \/ CL!SetTimer(t)
              \/ CL!Drain \/ CL!DrainAllEnds
       PROVE  Inv'
  <2>1. Cleaned' /\ \A k : Tended(k) => Tended(k)'
    BY <1>11, <1>0, CleanerStep
  <2>2. Shape'
    BY <1>11, <2>1, <1>0 DEF Shape, writer
  <2>3. Fine
    BY <1>11, <2>1, <1>c, Explained DEF Fine
  <2> QED BY <2>2, <2>3, <1>a
<1>12. CASE UNCHANGED vars
  BY <1>12, <1>1 DEF vars
<1>13. ASSUME NEW t \in 1 .. MaxTasks, TaskStep(t) PROVE Inv'
  BY <1>13, <1>10, <1>11 DEF TaskStep, RunTask
<1>14. CASE DrainStep
  BY <1>14, <1>11 DEF DrainStep
<1> QED
  BY <1>2, <1>3, <1>4, <1>5, <1>6, <1>7, <1>8, <1>9, <1>12, <1>13, <1>14 DEF Next

\* A row in redis differs from the database only while its deletion is outstanding or was given up, or when it
\* was written late by a reader or by the application.
THEOREM StaleRowsAreExplained == Spec => []StaleExplained
<1>1. Inv => StaleExplained
  BY DEF Inv
<1> QED
  BY InvInit, InvNext, <1>1, PTL DEF Spec
=============================================================================
