------------------------------- MODULE Queue -------------------------------
(***************************************************************************)
(* core/queue.Queue: producers send what they produce over an unbuffered   *)
(* channel to consumers, Stop makes the producers quit, and Start closes   *)
(* the channel when they have.  Broadcast sends an event to every          *)
(* consumer.  The listeners of the queue are told when the last producer   *)
(* pauses and when the first one resumes.                                  *)
(***************************************************************************)
EXTENDS Integers, FiniteSets

CONSTANTS
    Producers,
    NumConsumers,  \* q.consumerCount
    MaxMessages, MaxPauses, MaxBroadcasts    \* bound what is produced, paused and broadcast

VARIABLES
    prod,          \* producers: where they are
    cons,          \* consumers: where they are
    message,       \* what a producer has to send, 0 for nothing
    spc, quit,     \* where Start is; Stop was called
    produced, consumed,
    active,        \* q.active
    paused,        \* what the listeners were told last
    pauses,
    event, todo, broadcasts,   \* where the goroutine of Broadcast is, whom it has to send to
    turns, turn,   \* history: how often active came to zero or left it, and which time it was
                   \* for the producer that tells the listeners
    told,          \* history: the latest of these times the listeners were told of
    odd            \* history, why they are wrong: "late", a producer was created since and they
                   \* were not told; "raced", they were told of an earlier time last

flow == <<prod, cons, message, spc, quit, produced, consumed>>
tale == <<turns, turn, told, odd>>
listeners == <<active, paused, pauses, tale>>
events == <<event, todo, broadcasts>>
queueVars == <<flow, listeners, events>>

Consumers == 1 .. NumConsumers

Init ==
    /\ prod = [p \in Producers |-> "none"] /\ cons = [c \in Consumers |-> "none"]
    /\ message = [p \in Producers |-> 0] /\ spc = "idle" /\ quit = FALSE
    /\ produced = 0 /\ consumed = {} /\ active = 0 /\ paused = FALSE /\ pauses = 0
    /\ event = "none" /\ todo = {} /\ broadcasts = 0
    /\ turns = 0 /\ turn = [p \in Producers |-> 0] /\ told = 0 /\ odd = {}

GoP(p, s) == prod' = [prod EXCEPT ![p] = s]
GoC(c, s) == cons' = [cons EXCEPT ![c] = s]
-----------------------------------------------------------------------------
(* Start and Stop *)

\* startProducers, and one turn of startConsumers, which takes eventLock for each
StartRoutines ==
    /\ \/ /\ spc = "idle" /\ spc' = "consumers"
          /\ prod' = [p \in Producers |-> "create"] /\ UNCHANGED cons
       \/ /\ spc = "consumers" /\ event # "send" /\ UNCHANGED prod
          /\ \E c \in Consumers : cons[c] = "none" /\ GoC(c, "create") /\ \A d \in 1 .. c - 1 : cons[d] # "none"
          /\ spc' = IF \A c \in Consumers : cons'[c] # "none" THEN "running" ELSE "consumers"
    /\ UNCHANGED <<message, quit, produced, consumed, listeners, events>>

\* The producers have ended: close(q.channel).  The consumers have ended: Start returns.
StartEnds ==
    /\ \/ spc = "running" /\ (\A p \in Producers : prod[p] = "end") /\ spc' = "closed"
       \/ spc = "closed" /\ (\A c \in Consumers : cons[c] = "end") /\ spc' = "returned"
    /\ UNCHANGED <<prod, cons, message, quit, produced, consumed, listeners, events>>

Stop ==
    /\ ~quit /\ quit' = TRUE
    /\ UNCHANGED <<prod, cons, message, spc, produced, consumed, listeners, events>>
-----------------------------------------------------------------------------
(* A producer *)

\* producerFactory succeeds in the end; q.active is raised.
CreateProducer(p) ==
    /\ prod[p] = "create" /\ GoP(p, "loop") /\ active' = active + 1
    /\ odd' = IF active <= 0 /\ turns > 0 THEN odd \cup {"late"} ELSE odd
    /\ UNCHANGED <<cons, message, spc, quit, produced, consumed, paused, pauses, turns, turn, told, events>>

\* Mutant of Quitting: the select has no case for q.quit.
NeverQuitting == FALSE

\* case <-q.quit
Quitting == quit

\* The select on q.quit, and Produce: a message, or none, also when it panics
Produce(p) ==
    /\ \/ prod[p] = "loop" /\ GoP(p, IF Quitting THEN "end" ELSE "produce") /\ UNCHANGED <<message, produced>>
       \/ prod[p] = "produce" /\ GoP(p, "loop") /\ UNCHANGED <<message, produced>>
       \/ /\ prod[p] = "produce" /\ produced < MaxMessages /\ produced' = produced + 1
          /\ message' = [message EXCEPT ![p] = produced'] /\ GoP(p, "send")
    /\ UNCHANGED <<cons, spc, quit, consumed, listeners, events>>

\* Mutant of Send: a producer that waits for a consumer quits as well.
SendUnlessQuit(p) ==
    /\ \/ /\ prod[p] = "send" /\ GoP(p, "loop") /\ consumed' = consumed \cup {message[p]}
          /\ \E c \in Consumers : cons[c] = "select" /\ GoC(c, "consume")
       \/ prod[p] = "send" /\ quit /\ GoP(p, "end") /\ UNCHANGED <<cons, consumed>>
    /\ message' = [message EXCEPT ![p] = 0]
    /\ UNCHANGED <<spc, quit, produced, listeners, events>>

\* q.channel <- v meets a consumer, which calls Consume; errors and panics are logged.
Send(p) ==
    /\ prod[p] = "send" /\ GoP(p, "loop") /\ consumed' = consumed \cup {message[p]}
    /\ \E c \in Consumers : cons[c] = "select" /\ GoC(c, "consume")
    /\ message' = [message EXCEPT ![p] = 0]
    /\ UNCHANGED <<spc, quit, produced, listeners, events>>

\* The producer has changed q.active; it has to tell the listeners or not.
ToTell(p, needed) ==
    IF needed THEN turns' = turns + 1 /\ turn' = [turn EXCEPT ![p] = turns + 1] /\ odd' = odd \ {"late"}
              ELSE UNCHANGED <<turns, turn, odd>>

\* It has told them.
Told(p) ==
    /\ told' = (IF turn[p] < told THEN told ELSE turn[p]) /\ turn' = [turn EXCEPT ![p] = 0]
    /\ odd' = (odd \ {"raced"}) \cup (IF turn[p] < told THEN {"raced"} ELSE {})

\* OnProducerPause and OnProducerResume, called by a producer inside Produce: first q.active,
\* then the listeners if need be.
Pause(p) ==
    /\ \/ /\ prod[p] = "produce" /\ pauses < MaxPauses /\ pauses' = pauses + 1
          /\ active' = active - 1 /\ GoP(p, IF active' <= 0 THEN "tellPause" ELSE "paused")
          /\ ToTell(p, active' <= 0) /\ UNCHANGED <<paused, told>>
       \/ /\ prod[p] = "tellPause" /\ paused' = TRUE /\ GoP(p, "paused")
          /\ Told(p) /\ UNCHANGED <<active, pauses, turns>>
    /\ UNCHANGED <<cons, message, spc, quit, produced, consumed, events>>

\* Mutant of First: off by one.
FirstOff == active' = 2

\* atomic.AddInt32(&rl.queue.active, 1) == 1
First == active' = 1

Resume(p) ==
    /\ \/ /\ prod[p] = "paused" /\ active' = active + 1
          /\ GoP(p, IF First THEN "tellResume" ELSE "produce")
          /\ ToTell(p, First) /\ UNCHANGED <<paused, told>>
       \/ /\ prod[p] = "tellResume" /\ paused' = FALSE /\ GoP(p, "produce")
          /\ Told(p) /\ UNCHANGED <<active, turns>>
    /\ UNCHANGED <<cons, message, spc, quit, produced, consumed, pauses, events>>
-----------------------------------------------------------------------------
(* A consumer, and Broadcast *)

\* consumerFactory succeeds in the end; Consume or OnEvent returns; the channel is closed.
ConsumerStep(c) ==
    /\ \/ cons[c] \in {"create", "consume"} /\ GoC(c, "select")
       \/ cons[c] = "select" /\ spc = "closed" /\ GoC(c, "end")
    /\ UNCHANGED <<prod, message, spc, quit, produced, consumed, listeners, events>>

\* go func(), which takes eventLock when no other broadcast has it, and finds the consumers
\* that were started
Broadcast ==
    /\ event \in {"none", "sent"} /\ broadcasts < MaxBroadcasts /\ broadcasts' = broadcasts + 1
    /\ event' = "send" /\ todo' = {c \in Consumers : cons[c] # "none"}
    /\ UNCHANGED <<flow, listeners>>

\* channel <- message for each consumer in turn, which calls OnEvent
SendEvent ==
    /\ event = "send"
    /\ \/ todo = {} /\ event' = "sent" /\ UNCHANGED <<todo, cons>>
       \/ /\ \E c \in todo : (\A d \in todo : c <= d) /\ cons[c] = "select"
                             /\ GoC(c, "consume") /\ todo' = todo \ {c}
          /\ UNCHANGED event
    /\ UNCHANGED <<prod, message, spc, quit, produced, consumed, broadcasts, listeners>>

ProducerStep(p) == CreateProducer(p) \/ Produce(p) \/ Send(p) \/ Resume(p)

Next ==
    \/ StartRoutines \/ StartEnds \/ Stop \/ Broadcast \/ SendEvent
    \/ \E p \in Producers : ProducerStep(p) \/ Pause(p)
    \/ \E c \in Consumers : ConsumerStep(c)

\* Goroutines run; factories, Produce, Consume and OnEvent return; a select with two ready
\* senders serves both in the end; a producer that paused resumes.
Fairness ==
    /\ WF_queueVars(StartRoutines /\ spc # "idle") /\ WF_queueVars(StartEnds) /\ SF_queueVars(SendEvent)
    /\ \A p \in Producers :
           /\ SF_queueVars(Send(p)) /\ WF_queueVars(CreateProducer(p) \/ Produce(p) \/ Resume(p))
           /\ WF_queueVars(Pause(p) /\ prod[p] = "tellPause")
    /\ \A c \in Consumers : WF_queueVars(ConsumerStep(c))
-----------------------------------------------------------------------------
(* Properties *)

TypeOK ==
    /\ prod \in [Producers -> {"none", "create", "loop", "produce", "send", "tellPause", "paused",
                               "tellResume", "end"}]
    /\ cons \in [Consumers -> {"none", "create", "select", "consume", "end"}]
    /\ message \in [Producers -> 0 .. MaxMessages] /\ consumed \subseteq 1 .. produced
    /\ active \in -Cardinality(Producers) .. Cardinality(Producers)

\* When Start returns after Stop, every message that was produced has been consumed.
AllConsumed == spc = "returned" => consumed = 1 .. produced

\* After Stop, Start returns, whatever producers and consumers were doing and also when events
\* are broadcast; a broadcast may stay behind, with eventLock, for consumers that have ended.
StopEndsStart == []<>(quit /\ spc # "idle" => spc = "returned")

\* Once no producer is on its way to tell them, the listeners know whether any producer is active,
\* although each changes q.active first and tells them later, beside others.  They are wrong only
\* if what came earlier was told last, or if a producer was created while all others were
\* paused; the next time active comes to zero or leaves it makes up for both.
PausedIsInactive ==
    pauses > 0 /\ odd = {} /\ (\A p \in Producers : prod[p] \notin {"tellPause", "tellResume"})
        => (paused <=> active <= 0)
=============================================================================
