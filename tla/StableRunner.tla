---------------------------- MODULE StableRunner ----------------------------
(***************************************************************************)
(* core/threading.StableRunner: messages are handled in parallel by a      *)
(* TaskRunner and taken out by one reader in the order they were pushed.   *)
(* A message gets an index; the slot of the ring for that index is locked  *)
(* until its result is in the channel of the slot.                         *)
(***************************************************************************)
EXTENDS Naturals, Sequences, FiniteSets

CONSTANTS
    Pushers,     \* goroutines that call Push
    BufSize,     \* slots of the ring
    Runners,     \* concurrency of the TaskRunner
    MaxPush,     \* bounds the calls of Push
    MayPanic     \* may handle panic

VARIABLES
    written, consumed,   \* writtenIndex, consumedIndex
    locked,      \* slots whose lock is held
    value,       \* what the channel of a slot holds: a message, 0 for nothing
    handling, sending,   \* <<message, slot>> of the running tasks: before and after handle
    ppc, msg, index,     \* each pusher: where it is, its message and index
    closed, reader, waiter,   \* is done closed; where the reader and the caller of Wait are
    author,      \* history: who made each call of Push; a message is the number of its call
    order,       \* history: the message of each index
    out, before, \* history: what Get returned; the messages pushed before Wait was called
    odd          \* history: "panicked", "late", "lapped": what may spoil order or completeness

pushing == <<ppc, msg, index>>
tasks == <<handling, sending>>
ends == <<consumed, closed, reader, waiter>>
runnerVars == <<written, locked, value, tasks, pushing, ends, author, order, out, before, odd>>

Slots == 0 .. BufSize - 1

Init ==
    /\ written = 0 /\ consumed = 0 /\ locked = {} /\ value = [s \in Slots |-> 0]
    /\ handling = {} /\ sending = {}
    /\ author = <<>> /\ order = <<>> /\ out = <<>> /\ before = {} /\ odd = {}
    /\ ppc = [p \in Pushers |-> "idle"]
    /\ msg = [p \in Pushers |-> 0] /\ index = [p \in Pushers |-> 0]
    /\ closed = FALSE /\ reader = "get" /\ waiter = "no"

Go(p, s) == ppc' = [ppc EXCEPT ![p] = s]
Odd(happened, what) == odd' = IF happened THEN odd \cup {what} ELSE odd
-----------------------------------------------------------------------------
(* Push *)

\* select on r.done
Push(p) ==
    /\ ppc[p] = "idle" /\ Len(author) < MaxPush /\ author' = Append(author, p)
    /\ \/ closed /\ UNCHANGED pushing
       \/ ~closed /\ Go(p, "index") /\ msg' = [msg EXCEPT ![p] = Len(author')] /\ UNCHANGED index
    /\ UNCHANGED <<written, locked, value, tasks, ends, order, out, before, odd>>

\* atomic.AddUint64(&r.writtenIndex, 1)
TakeIndex(p) ==
    /\ ppc[p] = "index" /\ Go(p, "lock") /\ Odd(closed, "late")
    /\ written' = written + 1 /\ index' = [index EXCEPT ![p] = written + 1]
    /\ order' = Append(order, msg[p])
    /\ UNCHANGED <<locked, value, tasks, msg, ends, author, out, before>>

\* Mutant of Slot: the slot that follows.
NextSlot(i) == i % BufSize

\* (index - 1) % uint64(bufSize)
Slot(i) == (i - 1) % BufSize

\* holder.lock.Lock()
Lock(p) ==
    /\ ppc[p] = "lock" /\ Slot(index[p]) \notin locked /\ Go(p, "schedule")
    /\ locked' = locked \cup {Slot(index[p])}
    /\ Odd(\E q \in Pushers : ppc[q] = "lock" /\ index[q] < index[p] /\ Slot(index[q]) = Slot(index[p]),
           "lapped")
    /\ UNCHANGED <<written, value, tasks, msg, index, ends, author, order, out, before>>

\* r.runner.Schedule gets a worker, and Push returns nil.
Schedule(p) ==
    /\ ppc[p] = "schedule" /\ Cardinality(handling \cup sending) < Runners
    /\ handling' = handling \cup {<<msg[p], Slot(index[p])>>}
    /\ Go(p, "idle") /\ msg' = [msg EXCEPT ![p] = 0] /\ index' = [index EXCEPT ![p] = 0]
    /\ UNCHANGED <<written, locked, value, sending, ends, author, order, out, before, odd>>
-----------------------------------------------------------------------------
(* The tasks *)

\* r.handle(v) returns, or panics: then the lock is released and nothing is sent.
Handle(t) ==
    /\ t \in handling /\ handling' = handling \ {t}
    /\ \/ sending' = sending \cup {t} /\ UNCHANGED <<locked, odd>>
       \/ MayPanic /\ locked' = locked \ {t[2]} /\ Odd(TRUE, "panicked") /\ UNCHANGED sending
    /\ UNCHANGED <<written, value, pushing, ends, author, order, out, before>>

\* Mutant of Send: the slot stays locked.
SendLocked(t) ==
    /\ t \in sending /\ value[t[2]] = 0
    /\ sending' = sending \ {t} /\ value' = [value EXCEPT ![t[2]] = t[1]]
    /\ UNCHANGED <<written, locked, handling, pushing, ends, author, order, out, before, odd>>

\* holder.value <- o, and the deferred unlock
Send(t) ==
    /\ t \in sending /\ value[t[2]] = 0
    /\ sending' = sending \ {t} /\ value' = [value EXCEPT ![t[2]] = t[1]]
    /\ locked' = locked \ {t[2]}
    /\ UNCHANGED <<written, handling, pushing, ends, author, order, out, before, odd>>
-----------------------------------------------------------------------------
(* Get, called again and again until it returns ErrRunnerClosed, and Wait *)

\* A result is in the channel of the slot at consumedIndex.  The deferred increment is part of the
\* step: only the reader and Wait look at the counter, and Wait would only see it later.
Get ==
    LET s == consumed % BufSize IN
    /\ reader \in {"get", "blocked"} /\ value[s] # 0 /\ reader' = "get"
    /\ value' = [value EXCEPT ![s] = 0] /\ out' = Append(out, value[s])
    /\ consumed' = consumed + 1
    /\ UNCHANGED <<written, locked, tasks, pushing, closed, waiter, author, order, before, odd>>

\* Mutant of MoreToCome: what is in the ring is not waited for.
NothingToCome == FALSE

\* consumedIndex < writtenIndex
MoreToCome == consumed < written

\* case <-r.done: wait for the result if its index was taken, or return ErrRunnerClosed;
\* consumedIndex is raised in both cases.
GetClosed ==
    /\ reader = "get" /\ closed
    /\ \/ MoreToCome /\ reader' = "blocked" /\ UNCHANGED consumed
       \/ ~MoreToCome /\ reader' = "closed" /\ consumed' = consumed + 1
    /\ UNCHANGED <<written, locked, value, tasks, pushing, closed, waiter, author, order, out, before, odd>>

\* close(r.done)
Wait ==
    /\ waiter = "no" /\ waiter' = "runner" /\ closed' = TRUE
    /\ before' = DOMAIN author \ {msg[p] : p \in Pushers}
    /\ UNCHANGED <<written, locked, value, tasks, pushing, consumed, reader, author, order, out, odd>>

\* r.runner.Wait(), whose wait group counts calls of Schedule and running tasks; then the loop
\* until consumedIndex has reached writtenIndex
WaitStep ==
    /\ \/ /\ waiter = "runner" /\ waiter' = "taken"
          /\ handling \cup sending = {} /\ \A p \in Pushers : ppc[p] # "schedule"
       \/ waiter = "taken" /\ consumed >= written /\ waiter' = "over"
    /\ UNCHANGED <<written, locked, value, tasks, pushing, consumed, closed, reader, author, order, out,
                   before, odd>>

TaskStep == \E t \in handling \cup sending : Handle(t) \/ Send(t)

Next ==
    \/ \E p \in Pushers : Push(p) \/ TakeIndex(p) \/ Lock(p) \/ Schedule(p)
    \/ TaskStep \/ Get \/ GetClosed \/ Wait \/ WaitStep

Spec == Init /\ [][Next]_runnerVars

\* Goroutines run, handle returns, and a mutex or a worker is not denied for ever.
Fairness ==
    /\ \A p \in Pushers : WF_runnerVars(TakeIndex(p)) /\ SF_runnerVars(Lock(p) \/ Schedule(p))
    /\ WF_runnerVars(TaskStep) /\ WF_runnerVars(Get \/ GetClosed) /\ WF_runnerVars(WaitStep)
-----------------------------------------------------------------------------
(* Properties *)

TypeOK ==
    /\ written \in Nat /\ consumed \in Nat /\ locked \subseteq Slots
    /\ value \in [Slots -> 0 .. MaxPush]
    /\ handling \cup sending \subseteq (1 .. MaxPush) \X Slots
    /\ msg \in [Pushers -> 0 .. MaxPush] /\ index \in [Pushers -> Nat]
    /\ ppc \in [Pushers -> {"idle", "index", "lock", "schedule"}] /\ closed \in BOOLEAN
    /\ reader \in {"get", "blocked", "closed"} /\ waiter \in {"no", "runner", "taken", "over"}

\* "StableRunner is a runner that guarantees messages are taken out with the pushed order":
\* the messages of one pusher come out in the order of its calls of Push.
PushedOrder ==
    \A i, j \in DOMAIN out : i < j /\ author[out[i]] = author[out[j]] => out[i] < out[j]

\* Two pushers keep that order at any speed of the tasks, unless one of them, having its
\* index, is overtaken by a whole ring, or a handler panicked and left a gap.
OrderUnlessLapped == PushedOrder \/ odd \cap {"lapped", "panicked"} # {}

\* When Wait returns, every message whose Push had returned before Wait was called has been
\* taken out; when a handler panicked it does not return.
WaitCovers == waiter = "over" => before \subseteq {out[i] : i \in DOMAIN out}

\* Wait returns and the reader is told that the runner is closed, unless a handler panicked, or
\* a Push passed the check of done before Wait and took its index after it.
WaitEnds ==
    []<>(waiter = "no" \/ (waiter = "over" /\ reader = "closed") \/ odd \cap {"late", "panicked"} # {})
=============================================================================
