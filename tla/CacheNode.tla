----------------------------- MODULE CacheNode -----------------------------
(***************************************************************************)
(* core/stores/cache.cacheNode as core/stores/sqlc uses it: cache-aside    *)
(* reads behind a single flight, updates of the database followed by the   *)
(* deletion of the cached rows, and the cleaner that repeats a failed      *)
(* deletion.  A row is the number of the update that wrote it; even        *)
(* updates delete the row.  What redis holds for a key may vanish at any   *)
(* time.  redis and the database may fail at every call.                   *)
(***************************************************************************)
EXTENDS Naturals, FiniteSetsExt

CONSTANTS
    Procs,         \* goroutines that call Take
    Keys, MaxFlights,
    Workers, MaxTasks,
    MaxUpdates,    \* bounds the updates of all rows together
    Clusters       \* values of rds.Type == redis.ClusterType

VARIABLES
    calls, created, done, pc, key, obj, over, since,   \* c.barrier
    tasks, drain, abandoned,                           \* the cleaner
    cluster,
    redis,         \* what redis holds for a key: [val, late]
    db,            \* number of the last update of a row
    stage, row,    \* where the closure of doTake is, and the row it has read
    wpc, todo      \* the goroutine that calls Exec, and the keys it still has to delete

flight == <<calls, created, done, pc, key, obj, over, since>>
cleaner == <<tasks, drain, abandoned>>
writer == <<wpc, todo>>
vars == <<flight, cleaner, cluster, redis, db, stage, row, writer>>

SF == INSTANCE SingleFlight
CL == INSTANCE Cleaner

\* What a query returns: 0 stands for errNotFound and for the placeholder in redis.
Row(k) == IF db[k] % 2 = 0 THEN 0 ELSE db[k]
Bad == MaxUpdates + 1           \* data that cannot be unmarshalled
Nothing == [val |-> Bad + 1, late |-> FALSE]

\* The deletion of k after an update is still to come, or its task has failed for good.
Outstanding(k) ==
    \/ wpc \in {"delete", "add"} /\ k \in todo
    \/ \E t \in 1 .. MaxTasks : k \in tasks[t].keys
    \/ k \in abandoned

\* What SETEX writes.  History: whether it is late, an old row that nobody will delete.
Entry(k, v) == [val |-> v, late |-> v # Row(k) /\ ~Outstanding(k)]

Init ==
    /\ SF!Init /\ CL!Init
    /\ cluster \in Clusters
    /\ redis \in [Keys -> {Nothing, [val |-> Bad, late |-> FALSE]}]
    /\ db = [k \in Keys |-> 0]
    /\ stage = [p \in Procs |-> "none"] /\ row = [p \in Procs |-> 0]
    /\ wpc = "idle" /\ todo = {}
-----------------------------------------------------------------------------
(* Take *)

\* doTake: c.barrier.DoEx(key, closure)
TakeCtx(p, k) ==
    /\ SF!CreateCall(p, k)
    /\ stage' = [stage EXCEPT ![p] = IF pc'[p] = "fn" THEN "get" ELSE "none"]
    /\ UNCHANGED <<cleaner, cluster, redis, db, row, writer>>

Goto(p, s) == stage' = [stage EXCEPT ![p] = s]

\* doGetCache: an error, the placeholder and a good value end the closure, data
\* that cannot be unmarshalled is deleted, a miss goes to the database.
DoGetCache(p) ==
    /\ stage[p] = "get"
    /\ LET v == redis[key[p]].val IN
           \/ Goto(p, "out")
              \* c.rds.GetCtx fails, or finds the placeholder or a good value
           \/ v = Bad /\ Goto(p, "delete")
           \/ v = Nothing.val /\ Goto(p, "query")
    /\ UNCHANGED <<flight, cleaner, cluster, redis, db, row, writer>>

\* processCache deletes what it cannot unmarshal, and ignores an error of that.
ProcessCache(p) ==
    /\ stage[p] = "delete" /\ Goto(p, "query")
    /\ redis' \in {redis, [redis EXCEPT ![key[p]] = Nothing]}
    /\ UNCHANGED <<flight, cleaner, cluster, db, row, writer>>

\* query(v): an error of the database ends the closure.
Query(p) ==
    /\ stage[p] = "query"
    /\ \/ Goto(p, "out") /\ UNCHANGED row
       \/ Goto(p, "cache") /\ row' = [row EXCEPT ![p] = Row(key[p])]
    /\ UNCHANGED <<flight, cleaner, cluster, redis, db, writer>>

\* setCacheWithNotFound sets the placeholder only where there is nothing.
Cacheable(k, v) == v # 0 \/ redis[k] = Nothing

\* cacheVal(v) or setCacheWithNotFound; an error is only logged.
CacheVal(p) ==
    /\ stage[p] = "cache" /\ Goto(p, "out")
    /\ \/ UNCHANGED redis
       \/ /\ Cacheable(key[p], row[p])
          /\ redis' = [redis EXCEPT ![key[p]] = Entry(key[p], row[p])]
    /\ UNCHANGED <<flight, cleaner, cluster, db, row, writer>>

FnReturns(p) ==
    /\ stage[p] = "out" /\ SF!FnReturns(p) /\ Goto(p, "none")
    /\ row' = [row EXCEPT ![p] = 0]
    /\ UNCHANGED <<cleaner, cluster, redis, db, writer>>

EndFlight(p) ==
    /\ SF!DeferredStep(p) \/ SF!WaitEnds(p)
    /\ UNCHANGED <<cleaner, cluster, redis, db, stage, row, writer>>

TakeStep(p) ==
    DoGetCache(p) \/ ProcessCache(p) \/ Query(p) \/ CacheVal(p) \/ FnReturns(p) \/ EndFlight(p)
-----------------------------------------------------------------------------
(* Exec, Del and Set *)

\* ExecCtx: exec succeeds and DelCacheCtx is called; when exec fails nothing happens.
ExecCtx(ks) ==
    /\ wpc = "idle" /\ ks # {}
    /\ MapThenSumSet(LAMBDA k : db[k], Keys) + Cardinality(ks) <= MaxUpdates
    /\ db' = [k \in Keys |-> IF k \in ks THEN db[k] + 1 ELSE db[k]]
    /\ wpc' = "delete" /\ todo' = ks
    /\ UNCHANGED <<flight, cleaner, cluster, redis, stage, row>>

\* The keys of one call of c.rds.DelCtx: all, or one at a time in a cluster.
Batches == IF cluster THEN {{k} : k \in todo} ELSE {todo}

\* Mutant of DelCtx: a failed deletion is not repeated.
DelCtxOnce(ks) ==
    /\ wpc = "delete" /\ ks \in Batches
    /\ redis' \in {redis, [k \in Keys |-> IF k \in ks THEN Nothing ELSE redis[k]]}
    /\ todo' = todo \ ks
    /\ UNCHANGED <<flight, cleaner, cluster, db, stage, row, wpc>>

\* DelCtx, one call of redis: it deletes, or fails and a task is to be added.
DelCtx(ks) ==
    /\ wpc = "delete" /\ ks \in Batches
    /\ \/ /\ redis' = [k \in Keys |-> IF k \in ks THEN Nothing ELSE redis[k]]
          /\ todo' = todo \ ks /\ UNCHANGED wpc
       \/ wpc' = "add" /\ UNCHANGED <<redis, todo>>
    /\ UNCHANGED <<flight, cleaner, cluster, db, stage, row>>

\* asyncRetryDelCache, which waits for the goroutine of the wheel
AsyncRetryDelCache(ks) ==
    /\ wpc = "add" /\ ks \in Batches /\ CL!AddCleanTask(ks)
    /\ todo' = todo \ ks /\ wpc' = "delete"
    /\ UNCHANGED <<flight, cluster, redis, db, stage, row>>

\* return res, cc.DelCacheCtx(ctx, keys...), whose error is always nil
ExecReturns ==
    /\ wpc = "delete" /\ todo = {}
    /\ wpc' = "idle"
    /\ UNCHANGED <<flight, cleaner, cluster, redis, db, stage, row, todo>>

\* SetCtx and SetWithExpireCtx by the application, with any row it may have
SetCtx(k, v) ==
    /\ v \in 1 .. db[k] /\ v % 2 = 1
    /\ redis' = [redis EXCEPT ![k] = Entry(k, v)]
    /\ UNCHANGED <<flight, cleaner, cluster, db, stage, row, writer>>

\* An entry reaches its expiry.
Expire(k) ==
    /\ redis[k] # Nothing /\ redis' = [redis EXCEPT ![k] = Nothing]
    /\ UNCHANGED <<flight, cleaner, cluster, db, stage, row, writer>>
-----------------------------------------------------------------------------
(* The cleaner *)

\* dt.task(): c.rds.Del(keys...)
RunTask(t) ==
    /\ \/ CL!Succeed(t) /\ redis' = [k \in Keys |-> IF k \in tasks[t].keys THEN Nothing ELSE redis[k]]
       \/ CL!Fail(t) /\ UNCHANGED redis
    /\ UNCHANGED <<flight, cluster, db, stage, row, writer>>

TaskStep(t) ==
    \/ RunTask(t)
    \/ /\ CL!Fire(t) \/ CL!Schedule(t) \/ CL!SetTimer(t)
       /\ UNCHANGED <<flight, cluster, redis, db, stage, row, writer>>

DrainStep ==
    /\ CL!Drain \/ CL!DrainAllEnds
    /\ UNCHANGED <<flight, cluster, redis, db, stage, row, writer>>

Next ==
    \/ \E p \in Procs : TakeStep(p) \/ \E k \in Keys : TakeCtx(p, k)
    \/ \E ks \in SUBSET Keys : ExecCtx(ks) \/ DelCtx(ks) \/ AsyncRetryDelCache(ks)
    \/ ExecReturns
    \/ \E k \in Keys : Expire(k) \/ \E v \in 1 .. MaxUpdates : SetCtx(k, v)
    \/ \E t \in 1 .. MaxTasks : TaskStep(t)
    \/ DrainStep

Spec == Init /\ [][Next]_vars
-----------------------------------------------------------------------------
(* Properties *)

TypeOK ==
    /\ SF!TypeOK /\ CL!TypeOK
    /\ cluster \in BOOLEAN
    /\ redis \in [Keys -> [val : 0 .. MaxUpdates + 2, late : BOOLEAN]]
    /\ db \in [Keys -> 0 .. MaxUpdates]
    /\ stage \in [Procs -> {"none", "get", "delete", "query", "cache", "out"}]
    /\ row \in [Procs -> 0 .. MaxUpdates]
    /\ wpc \in {"idle", "delete", "add"} /\ todo \subseteq Keys

\* A row in redis differs from the database only while its deletion is outstanding
\* or was given up, or when a reader that had read the old row before the update
\* wrote it after the deletion.  A fresh row never gets stale by itself, not when
\* the deletion fails, is repeated by the cleaner, or meets other updates.
StaleExplained ==
    \A k \in Keys :
        redis[k].val \in {Row(k), Bad, Nothing.val} \/ redis[k].late \/ Outstanding(k)

=============================================================================
