-------------------------- MODULE ResourceManager --------------------------
(***************************************************************************)
(* core/syncx.ResourceManager, which shares connections to redis, etcd and *)
(* databases.  GetResource runs a closure inside SingleFlight: look the    *)
(* key up, create the resource, store it.  The steps of the single flight  *)
(* are those of module SingleFlight; here its fn has steps of its own.     *)
(* Resources are numbered as they come into being.                         *)
(***************************************************************************)
EXTENDS Naturals, Sequences, Functions

CONSTANTS
    Procs, Keys, MaxFlights,
    MaxInjects     \* bounds the calls of Inject

VARIABLES
    calls, created, done, pc, key, obj, over, since,   \* the single flight
    stage,         \* stage[p]: where the closure of caller p is
    local,         \* local[p]: the resource the closure of p has, 0 for none
    vals,          \* what the call object of a flight returns, as a function on <<key, number>>
    resources,     \* manager.resources, 0 where a key has none
    closed,        \* Close was called: manager.resources is nil
    made,          \* history: [key, by] of every resource, by "create" or "inject"
    shut           \* history: resources that were closed

flight == <<calls, created, done, pc, key, obj, over, since>>
vars == <<flight, stage, local, vals, resources, closed, made, shut>>

SF == INSTANCE SingleFlight

Init ==
    /\ SF!Init
    /\ stage = [p \in Procs |-> "none"] /\ local = [p \in Procs |-> 0]
    /\ vals = [o \in Keys \X (1 .. MaxFlights) |-> 0]
    /\ resources = [k \in Keys |-> 0] /\ closed = FALSE
    /\ made = <<>> /\ shut = {}
-----------------------------------------------------------------------------
\* GetResource: singleFlight.Do(key, closure)
GetResource(p, k) ==
    /\ SF!CreateCall(p, k)
    /\ stage' = [stage EXCEPT ![p] = IF pc'[p] = "fn" THEN "check" ELSE "none"]
    /\ UNCHANGED <<local, vals, resources, closed, made, shut>>

\* resource, ok := manager.resources[key]; a nil map has no keys
Known(k) == ~closed /\ resources[k] # 0

Check(p) ==
    /\ stage[p] = "check"
    /\ \/ /\ Known(key[p])
          /\ local' = [local EXCEPT ![p] = resources[key[p]]]
          /\ stage' = [stage EXCEPT ![p] = "out"]
       \/ /\ ~Known(key[p])
          /\ stage' = [stage EXCEPT ![p] = "create"]
          /\ UNCHANGED local
    /\ UNCHANGED <<flight, vals, resources, closed, made, shut>>

Create(p) ==
    /\ stage[p] = "create"
    /\ \/ /\ made' = Append(made, [key |-> key[p], by |-> "create"])
          /\ local' = [local EXCEPT ![p] = Len(made')]
          /\ stage' = [stage EXCEPT ![p] = "store"]
       \/ \* create fails
          /\ local' = [local EXCEPT ![p] = 0]
          /\ stage' = [stage EXCEPT ![p] = "out"]
          /\ UNCHANGED made
    /\ UNCHANGED <<flight, vals, resources, closed, shut>>

\* Mutant of Keep: the new resource is not stored.
KeepNothing(k, r) == UNCHANGED resources

Keep(k, r) == resources' = [resources EXCEPT ![k] = r]

\* manager.resources[key] = resource; storing into a nil map panics, and the
\* object keeps its zero value.
Store(p) ==
    /\ stage[p] = "store"
    /\ \/ ~closed /\ Keep(key[p], local[p]) /\ UNCHANGED local
       \/ closed /\ local' = [local EXCEPT ![p] = 0] /\ UNCHANGED resources
    /\ stage' = [stage EXCEPT ![p] = "out"]
    /\ UNCHANGED <<flight, vals, closed, made, shut>>

\* The closure is over: the end of fn in the single flight.
FnReturns(p) ==
    /\ stage[p] = "out" /\ SF!FnReturns(p)
    /\ vals' = [vals EXCEPT ![<<key[p], obj[p]>>] = local[p]]
    /\ stage' = [stage EXCEPT ![p] = "none"]
    /\ UNCHANGED <<local, resources, closed, made, shut>>

\* The rest of Do: the deferred function, or the end of the wait.
EndFlight(p) ==
    /\ SF!DeferredStep(p) \/ SF!WaitEnds(p)
    /\ UNCHANGED <<stage, local, vals, resources, closed, made, shut>>

\* Inject into a nil map panics and changes nothing.
Inject(k) ==
    /\ ~closed
    /\ Len(SelectSeq(made, LAMBDA r : r.by = "inject")) < MaxInjects
    /\ made' = Append(made, [key |-> k, by |-> "inject"])
    /\ resources' = [resources EXCEPT ![k] = Len(made')]
    /\ UNCHANGED <<flight, stage, local, vals, closed, shut>>

\* Close closes every resource and drops the map.
Close ==
    /\ ~closed
    /\ shut' = shut \cup (Range(resources) \ {0})
    /\ closed' = TRUE
    /\ UNCHANGED <<flight, stage, local, vals, resources, made>>

Progress(p) == Check(p) \/ Create(p) \/ Store(p) \/ FnReturns(p) \/ EndFlight(p)

Next ==
    \/ \E p \in Procs : Progress(p) \/ \E k \in Keys : GetResource(p, k)
    \/ \E k \in Keys : Inject(k)
    \/ Close

\* create returns, and a goroutine that can run does run.
Fairness == \A p \in Procs : WF_vars(Progress(p))
-----------------------------------------------------------------------------
(* Properties *)

\* What a call of GetResource returned: 0 is an error, or a panic after Close.
Returned(p) == IF pc[p] = "returned" THEN vals[<<key[p], obj[p]>>] ELSE 0

Of(k, by) == {r \in DOMAIN made : made[r] = [key |-> k, by |-> by]}

\* As long as the manager is not closed a resource is created once for a key,
\* whoever calls GetResource or Inject and however often create failed before:
\* a second call of create would open a second connection.
CreatedOnce == ~closed => \A k \in Keys : \A r, s \in Of(k, "create") : r = s

\* Nobody holds a resource the manager does not know: what GetResource returned
\* is what the manager holds or has closed, unless Inject replaced it.
ReturnedIsManaged ==
    \A p \in Procs : LET r == Returned(p) IN
        r # 0 => resources[key[p]] = r \/ r \in shut \/ Of(key[p], "inject") # {}

\* Every call of GetResource returns, whoever else calls, and after Close as well.
EveryCallReturns == \A p \in Procs : []<>(pc[p] \in {"idle", "returned"})
=============================================================================
