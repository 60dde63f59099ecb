--------------------------- MODULE Services_proof ---------------------------
(***************************************************************************)
(* Proofs about the parts of a running service for any number of           *)
(* goroutines and messages: the timeout handler gives one answer, a queue  *)
(* loses no message and its listeners know whether it is paused, and the   *)
(* StableRunner keeps the order of the messages and its Wait covers them.  *)
(***************************************************************************)
EXTENDS MCServices, Integers, Sequences, SequenceTheorems, FiniteSetTheorems, TLAPS

-----------------------------------------------------------------------------
(* TimeoutHandler: without Flush the connection gets nothing before ServeHTTP decides, and the
   buffer is all that was written. *)

RequestTypes ==
    /\ wbuf \in Seq(Nat) /\ wrote \in Seq(Nat) /\ conn \in Seq(Nat) /\ code \in Nat /\ calls \in Nat
    /\ spc \in {"idle", "select", "error", "over", "panicked"}

\* A closed done means that the handler has returned; it has not begun before ServeHTTP.
HandlerOver == (doneChan => hpc = "end") /\ (spc = "idle" => hpc = "none")

Buffered == wbuf = wrote

OnConnection ==
    /\ spc \in {"idle", "select", "panicked"} => conn = <<>>
    /\ spc = "error" => conn = <<503>>
    /\ spc = "over" => conn = <<503, 0>> \/ (doneChan /\ conn = TH!Status \o wrote)

RequestInv == RequestTypes /\ HandlerOver /\ (~flushed => Buffered /\ OnConnection)

\* The first write of the timeout's error.
LEMMA ErrorBegun == Append(<<>>, 503) = <<503>>
  OBVIOUS

\* The two writes of the timeout's error make its answer.
LEMMA ErrorWritten == \A s \in Seq(Nat) : s = << 503 >> => Append(s, 0) = <<503, 0>>
<1> SUFFICES ASSUME NEW s \in Seq(Nat), s = << 503 >> PROVE Append(s, 0) = <<503, 0>>
  OBVIOUS
<1> DEFINE t == <<503, 0>>
           u == Append(s, 0)
<1>1. Len(s) = 1 /\ s[1] = 503
  OBVIOUS
<1>2. u \in Seq(Nat) /\ Len(u) = 2 /\ u[1] = 503 /\ u[2] = 0
  BY <1>1
<1>3. t \in Seq(Nat) /\ Len(t) = 2 /\ t[1] = 503 /\ t[2] = 0
  OBVIOUS
<1>4. \A i \in 1 .. 2 : t[i] = u[i]
  BY <1>2, <1>3
<1> HIDE DEF t, u
<1>5. t = u
  BY <1>2, <1>3, <1>4, SeqEqual
<1> QED BY <1>5 DEF t, u

\* Appending a number keeps a sequence of numbers one.
LEMMA NumberAppended == ASSUME NEW s \in Seq(Nat), NEW n \in Nat PROVE Append(s, n) \in Seq(Nat)
  OBVIOUS

\* The invariant holds initially.
LEMMA RequestInit == TH!Init => RequestInv
  BY DEF TH!Init, RequestInv, RequestTypes, HandlerOver, Buffered, OnConnection

\* Every step preserves the invariant.
LEMMA RequestNext == RequestInv /\ [TH!Next]_request => RequestInv'
<1> SUFFICES ASSUME RequestInv, [TH!Next]_request PROVE RequestInv'
  OBVIOUS
<1> USE DEF RequestInv, RequestTypes, HandlerOver, Buffered, OnConnection, TH!writerVars
<1>1. CASE TH!ServeHTTP
  BY <1>1 DEF TH!ServeHTTP
<1>2. CASE TH!CtxEnds
  BY <1>2 DEF TH!CtxEnds
<1>3. CASE TH!Write
  <2>1. ~doneChan
    BY <1>3 DEF TH!Write, TH!Called
  <2>2. calls' \in Nat /\ wbuf' \in Seq(Nat) /\ wrote' \in Seq(Nat) /\ (wbuf = wrote => wbuf' = wrote')
    <3>1. calls' \in Nat
      BY <1>3 DEF TH!Write, TH!Called
    <3>2. \/ wbuf' = Append(wbuf, calls') /\ wrote' = Append(wrote, calls')
          \/ wbuf' = wbuf /\ wrote' = wrote
      BY <1>3 DEF TH!Write
    <3> QED BY <3>1, <3>2, NumberAppended
  <2>3. TH!Status' = TH!Status
    BY <1>3 DEF TH!Write, TH!Status
  <2> QED BY <1>3, <2>1, <2>2, <2>3 DEF TH!Write, TH!Called
<1>4. CASE TH!WriteHeader
  <2>1. ~doneChan /\ calls' \in Nat /\ code' \in Nat
    BY <1>4 DEF TH!WriteHeader, TH!Called
  <2> QED BY <1>4, <2>1 DEF TH!WriteHeader, TH!Called
<1>5. CASE TH!Flush
  BY <1>5 DEF TH!Flush, TH!Called
<1>6. CASE TH!HandlerEnds
  <2>1. doneChan => doneChan'
    BY <1>6 DEF TH!HandlerEnds
  <2>2. (doneChan' => hpc' = "end") /\ (spc' = "idle" => hpc' = "none")
    BY <1>6 DEF TH!HandlerEnds
  <2>3. UNCHANGED <<spc, conn, wbuf, code, calls, wrote, flushed>>
    BY <1>6 DEF TH!HandlerEnds
  <2>4. TH!Status' = TH!Status
    BY <2>3 DEF TH!Status
  <2> QED BY <2>1, <2>2, <2>3, <2>4
<1>7. CASE TH!SelectPanic
  BY <1>7 DEF TH!SelectPanic
<1>8. CASE TH!SelectDone
  <2>1. TH!Status \in Seq(Nat)
    BY DEF TH!Status
  <2>2. conn' = (conn \o TH!Status) \o wbuf
    BY <1>8 DEF TH!SelectDone, TH!Status
  <2>3. conn' \in Seq(Nat)
    BY <2>1, <2>2
  <2>4. conn = <<>> => conn \o TH!Status = TH!Status
    BY <2>1
  <2>5. ~flushed => conn' = TH!Status \o wrote
    BY <1>8, <2>2, <2>4 DEF TH!SelectDone
  <2>6. TH!Status' = TH!Status
    BY <1>8 DEF TH!SelectDone, TH!Status
  <2>7. /\ spc' = "over" /\ doneChan' = doneChan /\ doneChan
        /\ UNCHANGED <<hpc, wbuf, code, calls, wrote, flushed>>
    BY <1>8 DEF TH!SelectDone
  <2>8. OnConnection' \/ flushed
    BY <2>5, <2>6, <2>7
  <2> QED BY <2>3, <2>7, <2>8
<1>9. CASE TH!SelectTimeout
  <2>1. UNCHANGED <<hpc, wbuf, code, doneChan, calls, wrote, flushed>>
    BY <1>9 DEF TH!SelectTimeout
  <2>2. CASE spc = "select" /\ spc' = "error" /\ conn' = Append(conn, 503)
    <3>1. conn' \in Seq(Nat)
      BY <2>2, NumberAppended
    <3>2. conn = <<>> => conn' = <<503>>
      BY <2>2, ErrorBegun
    <3> QED BY <2>1, <2>2, <3>1, <3>2
  <2>3. CASE spc = "error" /\ spc' = "over" /\ conn' = Append(conn, 0)
    <3>1. conn' \in Seq(Nat) /\ (conn = <<503>> => conn' = <<503, 0>>)
      BY <2>3, ErrorWritten
    <3> QED BY <2>1, <2>3, <3>1
  <2> QED BY <1>9, <2>2, <2>3 DEF TH!SelectTimeout
<1>10. CASE UNCHANGED request
  BY <1>10 DEF request, TH!Status
<1> QED
  BY <1>1, <1>2, <1>3, <1>4, <1>5, <1>6, <1>7, <1>8, <1>9, <1>10 DEF TH!Next, TH!Handler, TH!Server

\* The client gets one answer.
THEOREM RequestsGetOneAnswer == TH!Init /\ [][TH!Next]_request => []OneAnswer
<1>1. RequestInv => OneAnswer
  BY DEF RequestInv, OnConnection, OneAnswer, TH!OneAnswer
<1> QED BY <1>1, RequestInit, RequestNext, PTL

-----------------------------------------------------------------------------
(* Queue *)

\* A message that was produced is consumed or in the hands of a producer that sends it.
Carried ==
    /\ produced \in Nat /\ eaten \subseteq 1 .. produced
    /\ DOMAIN prod = Producers /\ DOMAIN message = Producers
    /\ \A p \in Producers : prod[p] = "send" => message[p] \in 1 .. produced
    /\ \A v \in 1 .. produced : v \in eaten \/ \E p \in Producers : prod[p] = "send" /\ message[p] = v

\* The channel is closed after the producers have ended.
ClosedAfter ==
    /\ start = "idle" => produced = 0 /\ \A p \in Producers : prod[p] = "none"
    /\ start \in {"closed", "returned"} => \A p \in Producers : prod[p] = "end"

\* What the listeners were told last.
Asleep == paused

Telling(p) == prod[p] \in {"tellPause", "tellResume"}

\* Each time active comes to zero or leaves it one producer has to tell the listeners; it has until
\* it does a number of its own.
Turns ==
    /\ active \in Int /\ turns \in Nat /\ told \in Nat /\ told <= turns /\ pauses \in Nat
    /\ turn \in [Producers -> Nat]
    /\ \A p \in Producers : Telling(p) => turn[p] \in 1 .. turns /\ turn[p] # told
    /\ \A p, q \in Producers : Telling(p) /\ Telling(q) /\ turn[p] = turn[q] => p = q

\* As long as there was no such time the listeners are awake, and since the first pause so is
\* some producer.
Before == turns = 0 => ~Asleep /\ (pauses > 0 => active > 0)

\* The listeners were told of the latest time, or somebody is about to tell them of it.
Latest ==
    /\ told < turns => \E p \in Producers : Telling(p) /\ turn[p] = turns
    /\ "late" \notin untold =>
         \A p \in Producers : Telling(p) /\ turn[p] = turns => (prod[p] = "tellPause" <=> active <= 0)
    /\ told = turns /\ turns > 0 /\ untold = {} => (Asleep <=> active <= 0)

Told == Turns /\ Before /\ Latest

QueueInv == Carried /\ ClosedAfter /\ Told

\* The invariant holds initially.
LEMMA QueueInit == QU!Init => QueueInv
<1> SUFFICES ASSUME QU!Init PROVE QueueInv
  OBVIOUS
<1>1. ~Asleep
  BY Zenon DEF QU!Init, Asleep
<1> QED BY <1>1 DEF QU!Init, QueueInv, Carried, ClosedAfter, Told, Turns, Before, Latest, Telling

\* Messages are carried until they are consumed, also past the end of the producers.
LEMMA QueueCarries == QueueInv /\ [QU!Next]_queue => Carried' /\ ClosedAfter'
<1> SUFFICES ASSUME QueueInv, [QU!Next]_queue PROVE Carried' /\ ClosedAfter'
  OBVIOUS
<1> USE DEF QueueInv, Carried, ClosedAfter, QU!flow, QU!listeners, QU!events, QU!GoP, QU!GoC
<1>1. CASE QU!StartRoutines
  BY <1>1 DEF QU!StartRoutines
<1>2. CASE QU!StartEnds
  BY <1>2 DEF QU!StartEnds
<1>3. CASE QU!Stop \/ QU!Broadcast \/ QU!SendEvent
  BY <1>3 DEF QU!Stop, QU!Broadcast, QU!SendEvent
<1>4. ASSUME NEW p \in Producers, QU!CreateProducer(p) PROVE Carried' /\ ClosedAfter'
  BY <1>4 DEF QU!CreateProducer
<1>5. ASSUME NEW p \in Producers, QU!Produce(p) PROVE Carried' /\ ClosedAfter'
  <2>1. CASE UNCHANGED <<message, produced>>
    BY <1>5, <2>1 DEF QU!Produce
  <2>2. CASE produced' = produced + 1 /\ message' = [message EXCEPT ![p] = produced']
             /\ prod[p] = "produce" /\ prod' = [prod EXCEPT ![p] = "send"]
    <3>1. produced' \in Nat /\ eaten' = eaten /\ start' = start
      BY <1>5, <2>2 DEF QU!Produce
    <3>2. message'[p] = produced' /\ \A q \in Producers : q # p => message'[q] = message[q]
      BY <2>2
    <3>3. ASSUME NEW v \in 1 .. produced'
          PROVE  v \in eaten \/ \E q \in Producers : prod'[q] = "send" /\ message'[q] = v
      <4>1. CASE v = produced'
        BY <4>1, <2>2, <3>2
      <4>2. CASE v \in 1 .. produced
        BY <4>2, <2>2, <3>2
      <4> QED BY <4>1, <4>2, <2>2
    <3>4. \A q \in Producers : prod'[q] = "send" => message'[q] \in 1 .. produced'
      BY <2>2, <3>2
    <3>5. start # "idle"
      BY <2>2
    <3> QED BY <2>2, <3>1, <3>3, <3>4, <3>5
  <2> QED BY <1>5, <2>1, <2>2 DEF QU!Produce
<1>6. ASSUME NEW p \in Producers, QU!Send(p) PROVE Carried' /\ ClosedAfter'
  BY <1>6 DEF QU!Send
<1>7. ASSUME NEW p \in Producers, QU!Pause(p) \/ QU!Resume(p) PROVE Carried' /\ ClosedAfter'
  BY <1>7 DEF QU!Pause, QU!Resume
<1>8. ASSUME NEW c \in QU!Consumers, QU!ConsumerStep(c) PROVE Carried' /\ ClosedAfter'
  BY <1>8 DEF QU!ConsumerStep
<1>9. CASE UNCHANGED queue
  BY <1>9 DEF queue
<1> QED
  BY <1>1, <1>2, <1>3, <1>4, <1>5, <1>6, <1>7, <1>8, <1>9 DEF QU!Next, QU!ProducerStep

\* Nothing that the listeners are told of changes.
LEMMA NothingToTell ==
    ASSUME Told, UNCHANGED QU!listeners, \A p \in Producers : (Telling(p)' <=> Telling(p))
                                             /\ (Telling(p) => prod'[p] = prod[p])
    PROVE  Told'
<1>1. Asleep' <=> Asleep
  BY Zenon DEF QU!listeners, Asleep
<1> QED BY <1>1 DEF Told, Turns, Before, Latest, QU!listeners, QU!tale

\* A producer that has just brought active to zero or away from it, and has to tell the listeners.
LEMMA NewTurn ==
    ASSUME Told, NEW p \in Producers, ~Telling(p), NEW s \in {"tellPause", "tellResume"},
           DOMAIN prod = Producers, prod' = [prod EXCEPT ![p] = s], active' \in Int,
           s = "tellPause" <=> active' <= 0,
           turns' = turns + 1, turn' = [turn EXCEPT ![p] = turns + 1], UNCHANGED told, pauses' \in Nat
    PROVE  Told'
<1>1. \A q \in Producers : Telling(q)' <=> Telling(q) \/ q = p
  BY DEF Telling
<1>2. Turns'
  BY <1>1 DEF Told, Turns
<1>3. told' < turns' /\ turns' > 0
  BY DEF Told, Turns
<1>4. \A q \in Producers : Telling(q)' /\ turn'[q] = turns' <=> q = p
  BY <1>1 DEF Told, Turns
<1>5. Latest'
  <2>1. Telling(p)' /\ turn'[p] = turns'
    BY <1>4
  <2>2. prod'[p] = s
    OBVIOUS
  <2> QED BY <1>3, <1>4, <2>1, <2>2 DEF Latest
<1> QED BY <1>2, <1>3, <1>5 DEF Told, Before

\* A producer changes active and need not tell the listeners.
LEMMA NoTurn ==
    ASSUME Told, NEW p \in Producers, ~Telling(p), DOMAIN prod = Producers,
           NEW s \in {"paused", "produce", "loop"}, prod' = [prod EXCEPT ![p] = s],
           active' \in Int, UNCHANGED <<turns, turn, told>>, pauses' \in Nat, Asleep' <=> Asleep,
           turns = 0 => (pauses' > 0 => active' > 0),
           \/ UNCHANGED untold /\ (active' <= 0 <=> active <= 0)
           \/ turns = 0 /\ UNCHANGED untold
           \/ "late" \in untold'
    PROVE  Told'
<1>1. \A q \in Producers : (Telling(q)' <=> Telling(q)) /\ (Telling(q) => prod'[q] = prod[q])
  BY DEF Telling
<1>2. Turns' /\ Before'
  BY <1>1 DEF Told, Turns, Before
<1>3. turns = 0 => \A q \in Producers : ~Telling(q)
  BY DEF Told, Turns
<1>4. Latest'
  BY <1>1, <1>3 DEF Told, Turns, Latest
<1> QED BY <1>2, <1>4 DEF Told

\* A producer tells the listeners.
LEMMA TellsListeners ==
    ASSUME Told, NEW p \in Producers, Telling(p), DOMAIN prod = Producers,
           NEW s \in {"paused", "produce"}, prod' = [prod EXCEPT ![p] = s],
           UNCHANGED <<active, turns, pauses>>, QU!Told(p), Asleep' <=> prod[p] = "tellPause"
    PROVE  Told'
<1>1. \A q \in Producers : (Telling(q)' <=> Telling(q) /\ q # p) /\ (q # p => prod'[q] = prod[q])
  BY DEF Telling
<1>2. /\ told' = (IF turn[p] < told THEN told ELSE turn[p]) /\ turn' = [turn EXCEPT ![p] = 0]
      /\ untold' = (untold \ {"raced"}) \cup (IF turn[p] < told THEN {"raced"} ELSE {})
  BY DEF QU!Told
<1>3. turn[p] \in 1 .. turns /\ turn[p] # told /\ turns > 0
  BY DEF Told, Turns
<1>4. Turns'
  BY <1>1, <1>2, <1>3 DEF Told, Turns
<1>5. Before'
  BY <1>3 DEF Before
<1>6. CASE turn[p] = turns
  <2>1. told' = turns'
    BY <1>2, <1>3, <1>6 DEF Told, Turns
  <2>2. \A q \in Producers : Telling(q)' => turn'[q] # turns'
    BY <1>1, <1>2, <1>6 DEF Told, Turns
  <2>3. untold' = {} => "late" \notin untold
    BY <1>2
  <2>4. "late" \notin untold => (prod[p] = "tellPause" <=> active <= 0)
    BY <1>6 DEF Told, Latest
  <2>5. Latest'
    BY <1>4, <2>1, <2>2, <2>3, <2>4 DEF Turns, Latest
  <2> QED BY <1>4, <1>5, <2>5 DEF Told
<1>7. CASE turn[p] # turns
  <2>1. \A q \in Producers : Telling(q) /\ turn[q] = turns => q # p
    BY <1>7
  <2>2. turn[p] > told => told' < turns'
    BY <1>2, <1>3, <1>7 DEF Told, Turns
  <2>3. turn[p] < told => "raced" \in untold' /\ told' = told
    BY <1>2
  <2>4. told < turns
    \/ (told = turns /\ turn[p] < told)
    BY <1>3, <1>7 DEF Told, Turns
  <2>5. "late" \in untold <=> "late" \in untold'
    BY <1>2
  <2>6. \A q \in Producers : Telling(q)' => turn'[q] = turn[q]
    BY <1>1, <1>2 DEF Told, Turns
  <2>7. told' < turns' => \E q \in Producers : Telling(q)' /\ turn'[q] = turns'
    <3>1. told' < turns' => told < turns
      BY <1>3, <2>3, <2>4
    <3>2. told < turns => \E q \in Producers : Telling(q) /\ turn[q] = turns
      BY DEF Told, Latest
    <3> QED BY <1>1, <2>1, <2>6, <3>1, <3>2
  <2>8. "late" \notin untold' =>
          \A q \in Producers : Telling(q)' /\ turn'[q] = turns' => (prod'[q] = "tellPause" <=> active' <= 0)
    BY <1>1, <2>5, <2>6 DEF Told, Latest
  <2>9. told' = turns' => untold' # {}
    BY <1>3, <2>2, <2>3 DEF Told, Turns
  <2>10. Latest'
    BY <2>7, <2>8, <2>9 DEF Latest
  <2> QED BY <1>4, <1>5, <2>10 DEF Told
<1> QED BY <1>6, <1>7

\* Every step keeps the listeners told, or somebody about to tell them.
LEMMA QueueTells == QueueInv /\ [QU!Next]_queue => Told'
<1> SUFFICES ASSUME QueueInv, [QU!Next]_queue PROVE Told'
  OBVIOUS
<1>0. Told /\ DOMAIN prod = Producers /\ active \in Int /\ pauses \in Nat /\ turns \in Nat
  BY DEF QueueInv, Carried, Told, Turns
<1>1. CASE UNCHANGED QU!listeners /\ UNCHANGED prod
  BY <1>0, <1>1, NothingToTell DEF Telling
<1>2. CASE QU!StartRoutines
  <2>1. UNCHANGED QU!listeners
    BY <1>2 DEF QU!StartRoutines
  <2>2. \A q \in Producers : (Telling(q)' <=> Telling(q)) /\ (Telling(q) => prod'[q] = prod[q])
    BY <1>2 DEF QU!StartRoutines, QueueInv, ClosedAfter, Telling
  <2> QED BY <1>0, <2>1, <2>2, NothingToTell
<1>3. ASSUME NEW p \in Producers, QU!CreateProducer(p) PROVE Told'
  <2>1. Asleep' <=> Asleep
    BY <1>3, Zenon DEF QU!CreateProducer, Asleep
  <2>2. /\ prod[p] = "create" /\ prod' = [prod EXCEPT ![p] = "loop"] /\ active' = active + 1
        /\ UNCHANGED <<turns, turn, told, pauses>>
        /\ untold' = IF active <= 0 /\ turns > 0 THEN untold \cup {"late"} ELSE untold
    BY <1>3 DEF QU!CreateProducer, QU!GoP
  <2>3. turns = 0 => (pauses' > 0 => active' > 0)
    BY <1>0, <2>2 DEF Told, Before
  <2>4. \/ UNCHANGED untold /\ (active' <= 0 <=> active <= 0)
        \/ turns = 0 /\ UNCHANGED untold
        \/ "late" \in untold'
    BY <1>0, <2>2
  <2>5. ~Telling(p)
    BY <2>2 DEF Telling
  <2>6. active' \in Int /\ pauses' \in Nat
    BY <1>0, <2>2
  <2>7. PICK s \in {"paused", "produce", "loop"} : prod' = [prod EXCEPT ![p] = s]
    BY <2>2
  <2> QED BY <1>0, <2>1, <2>2, <2>3, <2>4, <2>5, <2>6, <2>7, NoTurn
<1>4. ASSUME NEW p \in Producers, QU!Produce(p) \/ QU!Send(p) PROVE Told'
  <2>1. UNCHANGED QU!listeners
    BY <1>4 DEF QU!Produce, QU!Send
  <2>2. \A q \in Producers : (Telling(q)' <=> Telling(q)) /\ (Telling(q) => prod'[q] = prod[q])
    BY <1>0, <1>4 DEF QU!Produce, QU!Send, QU!GoP, Telling
  <2> QED BY <1>0, <2>1, <2>2, NothingToTell
<1>5. ASSUME NEW p \in Producers, QU!Pause(p) PROVE Told'
  <2>1. CASE prod[p] = "produce"
    <3>1. Asleep' <=> Asleep
      <4>1. paused' = paused
        BY <1>5, <2>1 DEF QU!Pause
      <4> QED BY <4>1, Zenon DEF Asleep
    <3>2. /\ active' = active - 1 /\ pauses' = pauses + 1 /\ UNCHANGED told
          /\ prod' = [prod EXCEPT ![p] = IF active' <= 0 THEN "tellPause" ELSE "paused"]
          /\ QU!ToTell(p, active' <= 0)
      BY <1>5, <2>1 DEF QU!Pause, QU!GoP
    <3>3. ~Telling(p)
      BY <2>1 DEF Telling
    <3>4. CASE active' <= 0
      <4>1. turns' = turns + 1 /\ turn' = [turn EXCEPT ![p] = turns + 1]
        BY <3>2, <3>4 DEF QU!ToTell
      <4>2. prod' = [prod EXCEPT ![p] = "tellPause"] /\ active' \in Int /\ pauses' \in Nat
        BY <1>0, <3>2, <3>4
      <4> QED BY <1>0, <3>2, <3>3, <3>4, <4>1, <4>2, NewTurn
    <3>5. CASE ~(active' <= 0)
      <4>1. UNCHANGED <<turns, turn, untold>>
        BY <3>2, <3>5 DEF QU!ToTell
      <4>2. prod' = [prod EXCEPT ![p] = "paused"] /\ active' \in Int /\ pauses' \in Nat
        BY <1>0, <3>2, <3>5
      <4>3. (active' <= 0 <=> active <= 0) /\ (turns = 0 => (pauses' > 0 => active' > 0))
        BY <1>0, <3>2, <3>5
      <4> QED BY <1>0, <3>1, <3>2, <3>3, <4>1, <4>2, <4>3, NoTurn
    <3> QED BY <3>4, <3>5
  <2>2. CASE prod[p] = "tellPause"
    <3>1. Asleep'
      BY <1>5, <2>2, Zenon DEF QU!Pause, Asleep
    <3>2. prod' = [prod EXCEPT ![p] = "paused"] /\ QU!Told(p) /\ UNCHANGED <<active, turns, pauses>>
      BY <1>5, <2>2 DEF QU!Pause, QU!GoP
    <3> QED BY <1>0, <2>2, <3>1, <3>2, TellsListeners DEF Telling
  <2> QED BY <1>5, <2>1, <2>2 DEF QU!Pause
<1>6. ASSUME NEW p \in Producers, QU!Resume(p) PROVE Told'
  <2>1. CASE prod[p] = "paused"
    <3>1. Asleep' <=> Asleep
      <4>1. paused' = paused
        BY <1>6, <2>1 DEF QU!Resume
      <4> QED BY <4>1, Zenon DEF Asleep
    <3>2. /\ active' = active + 1 /\ UNCHANGED <<told, pauses>>
          /\ prod' = [prod EXCEPT ![p] = IF active' = 1 THEN "tellResume" ELSE "produce"]
          /\ QU!ToTell(p, active' = 1)
      BY <1>6, <2>1 DEF QU!Resume, QU!First, QU!GoP
    <3>3. ~Telling(p)
      BY <2>1 DEF Telling
    <3>4. CASE active' = 1
      <4>1. turns' = turns + 1 /\ turn' = [turn EXCEPT ![p] = turns + 1]
        BY <3>2, <3>4 DEF QU!ToTell
      <4>2. active' \in Int /\ pauses' \in Nat /\ ~(active' <= 0)
        BY <1>0, <3>2, <3>4
      <4>3. prod' = [prod EXCEPT ![p] = "tellResume"]
        BY <3>2, <3>4, Zenon
      <4> QED BY <1>0, <3>2, <3>3, <4>1, <4>2, <4>3, NewTurn
    <3>5. CASE active' # 1
      <4>1. UNCHANGED <<turns, turn, untold>>
        BY <3>2, <3>5 DEF QU!ToTell
      <4>2. (active' <= 0 <=> active <= 0) /\ (turns = 0 => (pauses' > 0 => active' > 0))
        BY <1>0, <3>2, <3>5 DEF Told, Before
      <4>3. prod' = [prod EXCEPT ![p] = "produce"] /\ active' \in Int /\ pauses' \in Nat
        BY <1>0, <3>2, <3>5
      <4> QED BY <1>0, <3>1, <3>2, <3>3, <4>1, <4>2, <4>3, NoTurn
    <3> QED BY <3>4, <3>5
  <2>2. CASE prod[p] = "tellResume"
    <3>1. ~Asleep'
      BY <1>6, <2>2, Zenon DEF QU!Resume, Asleep
    <3>2. prod' = [prod EXCEPT ![p] = "produce"] /\ QU!Told(p) /\ UNCHANGED <<active, turns, pauses>>
      BY <1>6, <2>2 DEF QU!Resume, QU!GoP
    <3> QED BY <1>0, <2>2, <3>1, <3>2, TellsListeners DEF Telling
  <2> QED BY <1>6, <2>1, <2>2 DEF QU!Resume
<1> QED
  BY <1>1, <1>2, <1>3, <1>4, <1>5, <1>6
     DEF QU!Next, QU!ProducerStep, QU!ConsumerStep, QU!StartEnds, QU!Stop, QU!Broadcast, QU!SendEvent,
         QU!flow, QU!listeners, QU!tale, queue

\* When Start returns every message that was produced has been consumed.
THEOREM NoMessageIsLost == QU!Init /\ [][QU!Next]_queue => []AllConsumed
<1>1. QueueInv => AllConsumed
  BY DEF QueueInv, Carried, ClosedAfter, AllConsumed, QU!AllConsumed
<1>2. QueueInv /\ [QU!Next]_queue => QueueInv'
  BY QueueCarries, QueueTells DEF QueueInv
<1> QED BY <1>1, <1>2, QueueInit, PTL

\* Once nobody is about to tell them, the listeners of a queue know whether a producer is active.
THEOREM PausesAreReal == QU!Init /\ [][QU!Next]_queue => []PausedIsInactive
<1>1. QueueInv => PausedIsInactive
  <2> SUFFICES ASSUME QueueInv, pauses > 0, untold = {}, \A p \in Producers : ~Telling(p)
               PROVE  Asleep <=> active <= 0
    BY Zenon DEF PausedIsInactive, QU!PausedIsInactive, Asleep, Telling
  <2>1. CASE turns = 0
    BY <2>1 DEF QueueInv, Told, Turns, Before
  <2>2. CASE turns # 0
    BY <2>2 DEF QueueInv, Told, Turns, Latest
  <2> QED BY <2>1, <2>2
<1>2. QueueInv /\ [QU!Next]_queue => QueueInv'
  BY QueueCarries, QueueTells DEF QueueInv
<1> QED BY <1>1, <1>2, QueueInit, PTL
-----------------------------------------------------------------------------
(* StableRunner: a message is found by its index.  Until a result is taken out the message is with
   its pusher, in a task or in the channel of its slot; per slot, the smaller index is ahead. *)

Indices == 1 .. written
Tasks == handling \cup sending

RunnerTypes ==
    /\ written \in Nat /\ consumed \in Nat
    /\ author \in Seq(Pushers) /\ order \in Seq(Nat) /\ out \in Seq(Nat)
    /\ value \in [SR!Slots -> Nat] /\ Tasks \subseteq Nat \X SR!Slots
    /\ ppc \in [Pushers -> {"idle", "index", "lock", "schedule"}]
    /\ msg \in [Pushers -> Nat] /\ index \in [Pushers -> Nat]

\* Indices are given out in the order in which a goroutine calls Push.
Numbered ==
    /\ Len(order) = written
    /\ \A i \in Indices : order[i] \in 1 .. Len(author)
    /\ \A i, j \in Indices : i < j /\ author[order[i]] = author[order[j]] => order[i] < order[j]

\* A pusher in Push has the message of its last call and, once it has taken one, its index.
HasIndex(p) == ppc[p] \in {"lock", "schedule"}

Pushing ==
    /\ \A p \in Pushers : ppc[p] # "idle" => msg[p] \in 1 .. Len(author) /\ author[msg[p]] = p
    /\ \A p \in Pushers : ppc[p] = "index" => \A i \in Indices : author[order[i]] = p => order[i] < msg[p]
    /\ \A p \in Pushers : HasIndex(p) => index[p] \in Indices /\ order[index[p]] = msg[p]

\* What is in a task, in a channel or taken out has an index, and is in the slot of that.
Placed ==
    /\ \A t \in Tasks : \E i \in Indices : order[i] = t[1] /\ SR!Slot(i) = t[2]
    /\ \A s \in SR!Slots : value[s] # 0 => \E i \in Indices : order[i] = value[s] /\ SR!Slot(i) = s
    /\ \A k \in 1 .. Len(out) : \E i \in Indices : order[i] = out[k]

\* A message is in one place.
Apart ==
    /\ handling \cap sending = {}
    /\ \A p \in Pushers : HasIndex(p) =>
        /\ \A t \in Tasks : t[1] # msg[p]
        /\ \A s \in SR!Slots : value[s] # msg[p]
        /\ \A k \in 1 .. Len(out) : out[k] # msg[p]
    /\ \A t \in Tasks : \A s \in SR!Slots : value[s] # t[1]
    /\ \A t \in Tasks : \A k \in 1 .. Len(out) : out[k] # t[1]
    /\ \A k \in 1 .. Len(out) : \A s \in SR!Slots : value[s] # out[k]
    /\ \A k, l \in 1 .. Len(out) : out[k] = out[l] => k = l

RunnerInv == RunnerTypes /\ Numbered /\ Pushing /\ Placed /\ Apart

\* The slot of an index is one of the ring.
LEMMA SlotType == ASSUME NEW i \in Nat \ {0} PROVE SR!Slot(i) \in SR!Slots
  BY ServicesAssumption DEF SR!Slot, SR!Slots

\* The invariant holds initially.
LEMMA RunnerInit == SR!Init => RunnerInv
  BY DEF SR!Init, RunnerInv, RunnerTypes, Numbered, Pushing, Placed, Apart, Indices, Tasks, HasIndex

\* Steps keep the types.
LEMMA RunnerTyped == RunnerInv /\ [SR!Next]_runner => RunnerTypes'
<1> SUFFICES ASSUME RunnerInv, [SR!Next]_runner PROVE RunnerTypes'
  OBVIOUS
<1> USE DEF RunnerInv, RunnerTypes, Tasks, SR!pushing, SR!tasks, SR!ends, SR!Go
<1>1. ASSUME NEW p \in Pushers, SR!Push(p) PROVE RunnerTypes'
  <2>1. author' \in Seq(Pushers) /\ Len(author') \in Nat
    BY <1>1, AppendProperties DEF SR!Push
  <2> QED BY <1>1, <2>1 DEF SR!Push
<1>2. ASSUME NEW p \in Pushers, SR!TakeIndex(p) PROVE RunnerTypes'
  <2>1. order' \in Seq(Nat)
    BY <1>2, AppendProperties DEF SR!TakeIndex
  <2> QED BY <1>2, <2>1 DEF SR!TakeIndex
<1>3. ASSUME NEW p \in Pushers, SR!Lock(p) PROVE RunnerTypes'
  BY <1>3 DEF SR!Lock
<1>4. ASSUME NEW p \in Pushers, SR!Schedule(p) PROVE RunnerTypes'
  <2>1. SR!Slot(index[p]) \in SR!Slots
    BY <1>4, SlotType DEF SR!Schedule, Pushing, HasIndex, Indices
  <2> QED BY <1>4, <2>1 DEF SR!Schedule
<1>5. ASSUME NEW t \in Tasks, SR!Handle(t) PROVE RunnerTypes'
  BY <1>5 DEF SR!Handle
<1>6. ASSUME NEW t \in Tasks, SR!Send(t) PROVE RunnerTypes'
  BY <1>6 DEF SR!Send
<1>7. CASE SR!Get
  <2> DEFINE s == consumed % BufSize
  <2>1. s \in SR!Slots /\ value[s] \in Nat
    BY ServicesAssumption DEF SR!Slots
  <2>2. out' \in Seq(Nat)
    BY <1>7, <2>1, AppendProperties DEF SR!Get
  <2> HIDE DEF s
  <2>3. value' \in [SR!Slots -> Nat]
    BY <1>7, <2>1 DEF SR!Get, s
  <2> QED BY <1>7, <2>2, <2>3 DEF SR!Get
<1>8. CASE SR!GetClosed \/ SR!Wait \/ SR!WaitStep
  BY <1>8 DEF SR!GetClosed, SR!Wait, SR!WaitStep
<1>9. CASE UNCHANGED runner
  BY <1>9 DEF runner
<1> QED
  BY <1>1, <1>2, <1>3, <1>4, <1>5, <1>6, <1>7, <1>8, <1>9 DEF SR!Next, SR!TaskStep, Tasks

\* What a call of Push appends to the history leaves what was there.
LEMMA Longer == ASSUME NEW S, NEW s \in Seq(S), NEW e \in S, NEW t, t = Append(s, e)
                PROVE  /\ Len(s) \in Nat /\ Len(t) = Len(s) + 1 /\ t[Len(s) + 1] = e
                       /\ \A i \in 1 .. Len(s) : t[i] = s[i]
  BY AppendProperties, LenProperties

\* Steps keep the order of the indices.
LEMMA RunnerNumbered == RunnerInv /\ [SR!Next]_runner => Numbered' /\ Pushing'
<1> SUFFICES ASSUME RunnerInv, [SR!Next]_runner PROVE Numbered' /\ Pushing'
  OBVIOUS
<1> USE DEF RunnerInv, RunnerTypes, Numbered, Pushing, Indices, HasIndex, SR!pushing, SR!tasks, SR!ends, SR!Go
<1>1. ASSUME NEW p \in Pushers, SR!Push(p) PROVE Numbered' /\ Pushing'
  <2> DEFINE n == Len(author) + 1
  <2>1. /\ Len(author) \in Nat /\ Len(author') = n /\ author'[n] = p
        /\ \A m \in 1 .. Len(author) : author'[m] = author[m]
    BY <1>1, Longer DEF SR!Push
  <2>2. /\ ppc[p] = "idle" /\ UNCHANGED <<written, order, index>>
        /\ \/ UNCHANGED <<ppc, msg>>
           \/ ppc' = [ppc EXCEPT ![p] = "index"] /\ msg' = [msg EXCEPT ![p] = n]
    BY <1>1, <2>1 DEF SR!Push
  <2> HIDE DEF n
  <2>3. n \in Nat /\ n > Len(author) /\ 1 .. Len(author) \subseteq 1 .. n /\ n \in 1 .. n
    BY <2>1 DEF n
  <2>0. \A i \in Indices : order[i] \in 1 .. Len(author) /\ author'[order[i]] = author[order[i]]
    BY <2>1
  <2>4. Numbered'
    <3>1. Len(order') = written' /\ \A i \in Indices : order[i] \in 1 .. Len(author')
      BY <2>0, <2>1, <2>2, <2>3
    <3>2. \A i, j \in Indices : i < j /\ author'[order[i]] = author'[order[j]] => order[i] < order[j]
      BY <2>0
    <3> QED BY <2>2, <3>1, <3>2
  <2>5. ASSUME NEW q \in Pushers, ppc'[q] # "idle" PROVE msg'[q] \in 1 .. n /\ author'[msg'[q]] = q
    <3>1. CASE q = p /\ ppc'[p] # ppc[p]
      BY <3>1, <2>1, <2>2, <2>3
    <3>2. CASE ppc[q] # "idle" /\ msg'[q] = msg[q]
      <4>1. msg[q] \in 1 .. Len(author) /\ author[msg[q]] = q
        BY <3>2
      <4> QED BY <4>1, <3>2, <2>1, <2>3
    <3> QED BY <3>1, <3>2, <2>2, <2>5
  <2>6. ASSUME NEW q \in Pushers, ppc'[q] = "index", NEW i \in Indices, author'[order[i]] = q
        PROVE  order[i] < msg'[q]
    <3>1. author[order[i]] = q /\ order[i] \in 1 .. Len(author)
      BY <2>0, <2>6
    <3>2. CASE msg'[q] = n
      BY <3>1, <3>2, <2>1, <2>3
    <3>3. CASE ppc[q] = "index" /\ msg'[q] = msg[q]
      BY <3>1, <3>3
    <3> QED BY <3>2, <3>3, <2>2, <2>6
  <2>7. \A q \in Pushers : HasIndex(q)' => index'[q] \in Indices /\ order[index'[q]] = msg'[q]
    BY <2>2
  <2> QED BY <2>1, <2>2, <2>4, <2>5, <2>6, <2>7
<1>2. ASSUME NEW p \in Pushers, SR!TakeIndex(p) PROVE Numbered' /\ Pushing'
  <2>1. /\ Len(order') = written + 1 /\ order'[written + 1] = msg[p]
        /\ \A i \in Indices : order'[i] = order[i]
    BY <1>2, Longer DEF SR!TakeIndex
  <2>2. /\ written' = written + 1 /\ ppc[p] = "index" /\ ppc' = [ppc EXCEPT ![p] = "lock"]
        /\ index' = [index EXCEPT ![p] = written + 1] /\ UNCHANGED <<msg, author>>
    BY <1>2 DEF SR!TakeIndex
  <2>3. \A i \in Indices' : i \in Indices \/ i = written + 1
    BY <2>2
  <2>4. msg[p] \in 1 .. Len(author) /\ author[msg[p]] = p
    BY <2>2
  <2>5. Numbered'
    <3>1. Len(order') = written' /\ \A i \in Indices' : order'[i] \in 1 .. Len(author)
      BY <2>1, <2>2, <2>3, <2>4
    <3>2. ASSUME NEW i \in Indices', NEW j \in Indices', i < j, author[order'[i]] = author[order'[j]]
          PROVE  order'[i] < order'[j]
      <4>1. i \in Indices /\ order'[i] = order[i]
        BY <3>2, <2>1, <2>2, <2>3
      <4>2. CASE j \in Indices
        <5>1. order'[j] = order[j]
          BY <4>2, <2>1
        <5> QED BY <3>2, <4>1, <4>2, <5>1
      <4>3. CASE j = written + 1
        <5>1. order'[j] = msg[p]
          BY <4>3, <2>1
        <5> QED BY <3>2, <4>1, <5>1, <2>2, <2>4
      <4> QED BY <4>2, <4>3, <2>3
    <3> QED BY <2>2, <3>1, <3>2
  <2>6. ASSUME NEW q \in Pushers, ppc'[q] = "index", NEW i \in Indices', author[order'[i]] = q
        PROVE  order'[i] < msg[q]
    <3>1. q # p /\ ppc[q] = "index"
      BY <2>2, <2>6
    <3>2. i \in Indices /\ order'[i] = order[i]
      BY <2>1, <2>3, <2>4, <2>6, <3>1
    <3> QED BY <2>6, <3>1, <3>2
  <2>7. \A q \in Pushers : HasIndex(q)' => index'[q] \in Indices' /\ order'[index'[q]] = msg[q]
    BY <2>1, <2>2, <2>3
  <2> QED BY <2>2, <2>5, <2>6, <2>7
<1>3. ASSUME NEW p \in Pushers, SR!Lock(p) PROVE Numbered' /\ Pushing'
  BY <1>3 DEF SR!Lock
<1>4. ASSUME NEW p \in Pushers, SR!Schedule(p) PROVE Numbered' /\ Pushing'
  BY <1>4 DEF SR!Schedule
<1>5. CASE UNCHANGED <<written, order, author, ppc, msg, index>>
  BY <1>5
<1>6. ASSUME NEW t \in Tasks, SR!Handle(t) \/ SR!Send(t)
      PROVE UNCHANGED <<written, order, author, ppc, msg, index>>
  BY <1>6 DEF SR!Handle, SR!Send
<1>7. CASE SR!Get \/ SR!GetClosed \/ SR!Wait \/ SR!WaitStep
  BY <1>7, <1>5 DEF SR!Get, SR!GetClosed, SR!Wait, SR!WaitStep
<1>8. CASE UNCHANGED runner
  BY <1>8, <1>5 DEF runner
<1> QED
  BY <1>1, <1>2, <1>3, <1>4, <1>5, <1>6, <1>7, <1>8 DEF SR!Next, SR!TaskStep, Tasks

\* A message has one index.
LEMMA OneIndex == RunnerInv => \A i, j \in Indices : order[i] = order[j] => i = j
<1> SUFFICES ASSUME RunnerInv, NEW i \in Indices, NEW j \in Indices, order[i] = order[j] PROVE i = j
  OBVIOUS
<1>1. i \in Nat /\ j \in Nat /\ order[i] \in Nat
  BY DEF RunnerInv, Numbered, RunnerTypes, Indices
<1> QED BY <1>1 DEF RunnerInv, Numbered

\* A pusher that takes an index has a message that is nowhere else yet.
LEMMA NewMessage == ASSUME RunnerInv, NEW p \in Pushers, ppc[p] = "index"
                    PROVE  \A i \in Indices : order[i] # msg[p]
<1> SUFFICES ASSUME NEW i \in Indices, order[i] = msg[p] PROVE FALSE
  OBVIOUS
<1>1. author[order[i]] = p /\ msg[p] \in Nat
  BY DEF RunnerInv, Pushing, RunnerTypes
<1> QED BY <1>1 DEF RunnerInv, Pushing

\* Two tasks of one message are one, and so are two slots that hold one.
LEMMA OnePlace == RunnerInv =>
                    /\ \A t, u \in Tasks : t[1] = u[1] => t = u
                    /\ \A r, s \in SR!Slots : value[r] # 0 /\ value[r] = value[s] => r = s
<1> SUFFICES ASSUME RunnerInv
             PROVE  /\ \A t, u \in Tasks : t[1] = u[1] => t = u
                    /\ \A r, s \in SR!Slots : value[r] # 0 /\ value[r] = value[s] => r = s
  OBVIOUS
<1>1. ASSUME NEW t \in Tasks, NEW u \in Tasks, t[1] = u[1] PROVE t = u
  <2>1. t[2] = u[2]
    BY <1>1, OneIndex DEF RunnerInv, Placed
  <2>2. t = <<t[1], t[2]>> /\ u = <<u[1], u[2]>>
    BY DEF RunnerInv, RunnerTypes
  <2> QED BY <1>1, <2>1, <2>2
<1>2. ASSUME NEW r \in SR!Slots, NEW s \in SR!Slots, value[r] # 0, value[r] = value[s] PROVE r = s
  BY <1>2, OneIndex DEF RunnerInv, Placed
<1> QED BY <1>1, <1>2

\* Steps keep every message in one place.
LEMMA RunnerApart == RunnerInv /\ [SR!Next]_runner => Placed' /\ Apart'
<1> SUFFICES ASSUME RunnerInv, [SR!Next]_runner PROVE Placed' /\ Apart'
  OBVIOUS
<1> USE DEF Placed, Apart, Indices, Tasks, HasIndex, SR!Go
<1>0. RunnerTypes /\ Numbered /\ Pushing /\ Placed /\ Apart
  BY DEF RunnerInv
<1>1. ASSUME NEW p \in Pushers, SR!Push(p) PROVE Placed' /\ Apart'
  <2>1. UNCHANGED <<written, order, handling, sending, value, out>>
    BY <1>1 DEF SR!Push, SR!tasks
  <2>2. \A q \in Pushers : HasIndex(q)' => HasIndex(q) /\ msg'[q] = msg[q]
    BY <1>1, <1>0 DEF SR!Push, RunnerTypes, SR!pushing
  <2> QED BY <1>0, <2>1, <2>2
<1>2. ASSUME NEW p \in Pushers, SR!TakeIndex(p) PROVE Placed' /\ Apart'
  <2>1. UNCHANGED <<handling, sending, value, out, msg>> /\ written' = written + 1 /\ ppc[p] = "index"
    BY <1>2 DEF SR!TakeIndex, SR!tasks
  <2>2. \A i \in Indices : i \in Indices' /\ order'[i] = order[i]
    BY <1>0, <1>2, Longer DEF SR!TakeIndex, RunnerTypes, Numbered
  <2>3. \A q \in Pushers : HasIndex(q)' => HasIndex(q) \/ q = p
    BY <1>2, <1>0 DEF SR!TakeIndex, RunnerTypes
  <2>4. Placed'
    BY <1>0, <2>1, <2>2
  <2>5. \A i \in Indices : order[i] # msg[p]
    BY <2>1, NewMessage
  <2>6. msg[p] # 0
    BY <1>0, <2>1 DEF Pushing, Numbered, RunnerTypes
  <2>7. /\ \A t \in Tasks : t[1] # msg[p]
        /\ \A s \in SR!Slots : value[s] # msg[p]
        /\ \A k \in 1 .. Len(out) : out[k] # msg[p]
    BY <1>0, <2>5, <2>6
  <2> QED BY <1>0, <2>1, <2>3, <2>4, <2>7
<1>3. ASSUME NEW p \in Pushers, SR!Lock(p) PROVE Placed' /\ Apart'
  <2>1. UNCHANGED <<written, order, handling, sending, value, out>>
    BY <1>3 DEF SR!Lock, SR!tasks
  <2>2. \A q \in Pushers : HasIndex(q)' => HasIndex(q) /\ msg'[q] = msg[q]
    BY <1>3, <1>0 DEF SR!Lock, RunnerTypes
  <2> QED BY <1>0, <2>1, <2>2
<1>4. ASSUME NEW p \in Pushers, SR!Schedule(p) PROVE Placed' /\ Apart'
  <2> DEFINE t == <<msg[p], SR!Slot(index[p])>>
  <2>1. UNCHANGED <<written, order, sending, value, out>> /\ handling' = handling \cup {t}
        /\ ppc[p] = "schedule"
    BY <1>4 DEF SR!Schedule
  <2>2. \A q \in Pushers : HasIndex(q)' => HasIndex(q) /\ q # p /\ msg'[q] = msg[q]
    BY <1>4, <1>0 DEF SR!Schedule, RunnerTypes
  <2>3. t[1] = msg[p] /\ t[2] = SR!Slot(index[p]) /\ index[p] \in Indices /\ order[index[p]] = msg[p]
    BY <1>0, <2>1 DEF Pushing
  <2>4. \A q \in Pushers : HasIndex(q) /\ q # p => msg[q] # msg[p]
    BY <1>0, <2>1 DEF Pushing
  <2>5. /\ \A u \in Tasks : u[1] # msg[p]
        /\ \A s \in SR!Slots : value[s] # msg[p]
        /\ \A k \in 1 .. Len(out) : out[k] # msg[p]
    BY <1>0, <2>1
  <2> HIDE DEF t
  <2>6. Placed'
    BY <1>0, <2>1, <2>3
  <2>7. \A u \in Tasks' : u \in Tasks \/ u = t
    BY <2>1
  <2>8. (handling \cap sending)' = {}
    BY <1>0, <2>1, <2>3, <2>5
  <2> QED BY <1>0, <2>1, <2>2, <2>3, <2>4, <2>5, <2>6, <2>7, <2>8
<1>5. ASSUME NEW t \in Tasks, SR!Handle(t) PROVE Placed' /\ Apart'
  <2>1. UNCHANGED <<written, order, value, out, ppc, msg, index>> /\ Tasks' \subseteq Tasks
    BY <1>5 DEF SR!Handle, SR!pushing
  <2>2. (handling \cap sending)' = {}
    BY <1>0, <1>5 DEF SR!Handle
  <2> QED BY <1>0, <2>1, <2>2
<1>6. ASSUME NEW t \in Tasks, SR!Send(t) PROVE Placed' /\ Apart'
  <2>1. /\ UNCHANGED <<written, order, handling, out, ppc, msg, index>> /\ t \in sending
        /\ sending' = sending \ {t} /\ value' = [value EXCEPT ![t[2]] = t[1]]
    BY <1>6 DEF SR!Send, SR!pushing
  <2>2. Tasks' = Tasks \ {t}
    BY <1>0, <2>1
  <2>3. \A u \in Tasks' : u \in Tasks /\ u[1] # t[1]
    BY <2>2, OnePlace
  <2>4. \A s \in SR!Slots : value'[s] = value[s] \/ (value'[s] = t[1] /\ s = t[2])
    BY <1>0, <2>1 DEF RunnerTypes
  <2> QED BY <1>0, <2>1, <2>2, <2>3, <2>4
<1>7. CASE SR!Get
  <2>0. consumed % BufSize \in SR!Slots
    BY <1>0, ServicesAssumption DEF SR!Slots, RunnerTypes
  <2>1. PICK r \in SR!Slots : r = consumed % BufSize
    BY <2>0, Zenon
  <2>2. /\ UNCHANGED <<written, order, handling, sending, ppc, msg, index>> /\ value[r] # 0
        /\ value' = [value EXCEPT ![r] = 0] /\ out' = Append(out, value[r])
    BY <1>7, <2>1 DEF SR!Get, SR!pushing, SR!tasks
  <2>3. Len(out) \in Nat /\ Len(out') = Len(out) + 1 /\ out'[Len(out) + 1] = value[r]
        /\ \A k \in 1 .. Len(out) : out'[k] = out[k]
    BY <1>0, <2>2, Longer DEF RunnerTypes
  <2>4. \A k \in 1 .. Len(out') : k \in 1 .. Len(out) \/ k = Len(out) + 1
    BY <2>3
  <2>5. \A k \in 1 .. Len(out') : out'[k] = value[r] \/ (k \in 1 .. Len(out) /\ out'[k] = out[k])
    BY <2>3, <2>4
  <2>6. \A s \in SR!Slots : value'[s] = IF s = r THEN 0 ELSE value[s]
    BY <1>0, <2>2 DEF RunnerTypes
  <2>7. Placed'
    BY <1>0, <2>2, <2>5, <2>6
  <2>8. \A i \in Indices : order[i] # 0
    BY <1>0 DEF Numbered, RunnerTypes
  <2>9. \A k \in 1 .. Len(out') : \A s \in SR!Slots : value'[s] # out'[k]
    BY <1>0, <2>2, <2>5, <2>6, <2>8, OnePlace
  <2>10. \A k, l \in 1 .. Len(out') : out'[k] = out'[l] => k = l
    BY <1>0, <2>3, <2>4
  <2>11. ASSUME NEW p \in Pushers, HasIndex(p)
         PROVE  (\A s \in SR!Slots : value'[s] # msg[p]) /\ \A k \in 1 .. Len(out') : out'[k] # msg[p]
    <3>1. msg[p] # 0
      BY <1>0, <2>8, <2>11 DEF Pushing
    <3> QED BY <1>0, <2>5, <2>6, <2>11, <3>1
  <2>12. ASSUME NEW t \in Tasks
         PROVE  (\A s \in SR!Slots : value'[s] # t[1]) /\ \A k \in 1 .. Len(out') : out'[k] # t[1]
    <3>1. t[1] # 0
      BY <1>0, <2>8
    <3> QED BY <1>0, <2>5, <2>6, <3>1
  <2> QED BY <1>0, <2>2, <2>7, <2>9, <2>10, <2>11, <2>12
<1>8. CASE UNCHANGED <<written, order, handling, sending, value, out, ppc, msg, index>>
  BY <1>0, <1>8
<1>9. CASE SR!GetClosed \/ SR!Wait \/ SR!WaitStep \/ UNCHANGED runner
  BY <1>9, <1>8 DEF SR!GetClosed, SR!Wait, SR!WaitStep, runner, SR!pushing, SR!tasks
<1> QED
  BY <1>1, <1>2, <1>3, <1>4, <1>5, <1>6, <1>7, <1>9 DEF SR!Next, SR!TaskStep

-----------------------------------------------------------------------------
(* The order of the ring, as long as no pusher was lapped and no handler panicked *)

\* The places of the message of an index, in the order in which it gets there.
Locking(i) == \E p \in Pushers : ppc[p] = "lock" /\ index[p] = i
Scheduling(i) == \E p \in Pushers : ppc[p] = "schedule" /\ index[p] = i
Running(i) == <<order[i], SR!Slot(i)>> \in Tasks
Busy(i) == Scheduling(i) \/ Running(i)
Ready(i) == value[SR!Slot(i)] = order[i]
Taken(i) == i \in 1 .. Len(out)

Sane == odd \cap {"lapped", "panicked"} = {}

Ring ==
    /\ \A k \in 1 .. Len(out) : k \in Indices /\ out[k] = order[k]
    /\ \A i \in Indices : Locking(i) \/ Busy(i) \/ Ready(i) \/ Taken(i)
    /\ \A i \in Indices : Busy(i) => SR!Slot(i) \in locked
    /\ \A i, j \in Indices : i < j /\ SR!Slot(i) = SR!Slot(j) =>
         (Busy(j) => Ready(i) \/ Taken(i)) /\ (Ready(j) => Taken(i))

\* The reader has taken out what it has counted.
Counting == reader # "closed" => consumed = Len(out)

OrderInv == RunnerInv /\ Counting /\ (Sane => Ring)

\* One place for the message of an index.
LEMMA RingApart == ASSUME RunnerInv, Ring, NEW i \in Indices
                   PROVE  /\ Locking(i) => ~Busy(i) /\ ~Ready(i) /\ ~Taken(i)
                          /\ Scheduling(i) => ~Running(i) /\ ~Ready(i) /\ ~Taken(i)
                          /\ Running(i) => ~Ready(i) /\ ~Taken(i)
                          /\ Ready(i) => ~Taken(i)
<1>0. RunnerTypes /\ Numbered /\ Pushing /\ Apart /\ i \in Nat \ {0}
  BY DEF RunnerInv, Indices, RunnerTypes
<1>1. SR!Slot(i) \in SR!Slots
  BY <1>0, SlotType
<1>2. Taken(i) => i \in 1 .. Len(out) /\ out[i] = order[i]
  BY DEF Ring, Taken
<1>3. ASSUME NEW p \in Pushers, HasIndex(p), index[p] = i
      PROVE  ~Running(i) /\ ~Ready(i) /\ ~Taken(i)
  <2>1. order[i] = msg[p]
    BY <1>0, <1>3 DEF Pushing
  <2>2. <<order[i], SR!Slot(i)>>[1] = order[i]
    OBVIOUS
  <2> QED BY <1>0, <1>1, <1>2, <1>3, <2>1, <2>2 DEF Apart, Running, Ready
<1>4. Locking(i) => ~Scheduling(i)
  BY <1>0 DEF Locking, Scheduling, Pushing, HasIndex
<1>5. Running(i) => ~Ready(i) /\ ~Taken(i)
  <2>1. <<order[i], SR!Slot(i)>>[1] = order[i]
    OBVIOUS
  <2> QED BY <1>0, <1>1, <1>2, <2>1 DEF Apart, Running, Ready
<1>6. Ready(i) => ~Taken(i)
  BY <1>0, <1>1, <1>2 DEF Apart, Ready
<1> QED BY <1>3, <1>4, <1>5, <1>6 DEF Locking, Scheduling, Busy, HasIndex

\* The ring stays in order when no message moves.
LEMMA RingFrame ==
    ASSUME Ring, UNCHANGED <<written, order, out>>,
           \A i \in Indices : /\ Locking(i)' <=> Locking(i)
                              /\ Busy(i)' <=> Busy(i)
                              /\ Ready(i)' <=> Ready(i)
                              /\ Busy(i) => SR!Slot(i) \in locked'
    PROVE  Ring'
<1>1. Indices' = Indices /\ \A i \in Indices : Taken(i)' <=> Taken(i)
  BY DEF Indices, Taken
<1> QED BY <1>1 DEF Ring

\* The index that is taken is with its pusher.
LEMMA RingTakeIndex == ASSUME RunnerInv, Ring, NEW p \in Pushers, SR!TakeIndex(p) PROVE Ring'
<1>0. RunnerTypes /\ Numbered /\ Pushing /\ Placed
  BY DEF RunnerInv
<1>a. written + 1 \in Nat
  BY <1>0 DEF RunnerTypes
<1>n. PICK n \in Nat : n = written + 1
  BY <1>a, Zenon
<1>1. /\ UNCHANGED <<handling, sending, value, out, locked, msg>> /\ written' = n /\ ppc[p] = "index"
      /\ ppc' = [ppc EXCEPT ![p] = "lock"] /\ index' = [index EXCEPT ![p] = n]
  BY <1>n DEF SR!TakeIndex, SR!tasks, SR!Go
<1>2. (\A i \in Indices : i \in Indices' /\ order'[i] = order[i]) /\ order'[n] = msg[p]
  BY <1>0, <1>n, Longer DEF SR!TakeIndex, RunnerTypes, Numbered, Indices
<1>3. \A i \in Indices' : i \in Indices \/ i = n
  BY <1>0, <1>n, <1>1 DEF Indices, RunnerTypes
<1>4. n \notin Indices /\ n \in Indices' /\ n \in Nat \ {0}
  BY <1>0, <1>n, <1>1 DEF Indices, RunnerTypes
<1>5. Locking(n)'
  BY <1>0, <1>1 DEF Locking, RunnerTypes
<1>6. ASSUME NEW i \in Indices
      PROVE  (Locking(i)' <=> Locking(i)) /\ (Scheduling(i)' <=> Scheduling(i))
  BY <1>0, <1>1, <1>4 DEF Locking, Scheduling, RunnerTypes
<1>7. \A i \in Indices : (Running(i)' <=> Running(i)) /\ (Ready(i)' <=> Ready(i))
  BY <1>1, <1>2 DEF Running, Ready, Tasks
<1>8. \A i : Taken(i)' <=> Taken(i)
  BY <1>1 DEF Taken
<1>9. ~Scheduling(n)'
  <2> SUFFICES ASSUME NEW q \in Pushers, ppc'[q] = "schedule", index'[q] = n PROVE FALSE
    BY DEF Scheduling
  <2>1. q # p /\ ppc[q] = "schedule" /\ index[q] = n
    BY <1>0, <1>1 DEF RunnerTypes
  <2> QED BY <1>0, <1>4, <2>1 DEF Pushing, HasIndex
<1>10. \A i \in Indices : order[i] # msg[p]
  BY <1>1, NewMessage
<1>11. ~Running(n)'
  <2>1. <<msg[p], SR!Slot(n)>>[1] = msg[p]
    OBVIOUS
  <2>2. <<msg[p], SR!Slot(n)>> \notin Tasks
    BY <1>0, <1>10, <2>1 DEF Placed
  <2> QED BY <1>1, <1>2, <2>2 DEF Running, Tasks
<1>12. ~Ready(n)'
  <2>1. msg[p] # 0
    BY <1>0, <1>1 DEF Pushing
  <2>2. value[SR!Slot(n)] # msg[p]
    BY <1>0, <1>4, <1>10, <2>1, SlotType DEF Placed
  <2> QED BY <1>1, <1>2, <2>2 DEF Ready
<1>13. \A k \in (1 .. Len(out))' : k \in Indices' /\ out'[k] = order'[k]
  BY <1>1, <1>2 DEF Ring
<1>14. \A i \in Indices' : Locking(i)' \/ Busy(i)' \/ Ready(i)' \/ Taken(i)'
  BY <1>3, <1>5, <1>6, <1>7, <1>8 DEF Ring, Busy
<1>15. \A i \in Indices' : Busy(i)' => SR!Slot(i) \in locked'
  BY <1>1, <1>3, <1>6, <1>7, <1>9, <1>11 DEF Ring, Busy
<1>16. ASSUME NEW i \in Indices', NEW j \in Indices', i < j, SR!Slot(i) = SR!Slot(j)
       PROVE  (Busy(j)' => Ready(i)' \/ Taken(i)') /\ (Ready(j)' => Taken(i)')
  <2>1. CASE j = n
    BY <2>1, <1>9, <1>11, <1>12 DEF Busy
  <2>2. CASE j \in Indices
    <3>1. i \in Indices
      BY <1>16, <2>2, <1>0, <1>n, <1>1 DEF Indices, RunnerTypes
    <3> QED BY <1>16, <2>2, <3>1, <1>6, <1>7, <1>8 DEF Ring, Busy
  <2> QED BY <2>1, <2>2, <1>3
<1> QED BY <1>13, <1>14, <1>15, <1>16 DEF Ring

\* Whoever gets the lock of a slot, without lapping another, is the next in that slot.
LEMMA RingLock == ASSUME RunnerInv, Ring, Sane', NEW p \in Pushers, SR!Lock(p) PROVE Ring'
<1>0. RunnerTypes /\ Numbered /\ Pushing
  BY DEF RunnerInv
<1>1. PICK i \in Indices : i = index[p]
  BY <1>0 DEF SR!Lock, Pushing, HasIndex
<1>2. /\ UNCHANGED <<written, order, handling, sending, value, out, msg, index>> /\ ppc[p] = "lock"
      /\ ppc' = [ppc EXCEPT ![p] = "schedule"] /\ SR!Slot(i) \notin locked /\ locked' = locked \cup {SR!Slot(i)}
  BY <1>1 DEF SR!Lock, SR!tasks, SR!Go
<1>3. ~\E q \in Pushers : ppc[q] = "lock" /\ index[q] < index[p] /\ SR!Slot(index[q]) = SR!Slot(index[p])
  BY DEF SR!Lock, SR!Odd, Sane
<1>4. \A j \in Indices : Locking(j) /\ j < i => SR!Slot(j) # SR!Slot(i)
  BY <1>1, <1>3 DEF Locking
<1>5. Locking(i)
  BY <1>1, <1>2 DEF Locking
<1>6. \A j \in Indices : j # i => (Locking(j)' <=> Locking(j)) /\ (Scheduling(j)' <=> Scheduling(j))
  BY <1>0, <1>1, <1>2 DEF Locking, Scheduling, RunnerTypes
<1>7. Scheduling(i)'
  BY <1>0, <1>1, <1>2 DEF Scheduling, RunnerTypes
<1>8. \A j \in Indices : (Running(j)' <=> Running(j)) /\ (Ready(j)' <=> Ready(j)) /\ (Taken(j)' <=> Taken(j))
  BY <1>2 DEF Running, Ready, Taken, Tasks
<1>9. ~Busy(i) /\ ~Ready(i) /\ ~Taken(i)
  BY <1>5, RingApart
<1>10. \A j \in Indices : SR!Slot(j) = SR!Slot(i) => ~Busy(j)
  BY <1>2 DEF Ring
<1>11. \A j \in Indices : j # i => (Busy(j)' <=> Busy(j))
  BY <1>6, <1>8 DEF Busy
<1>12. Indices' = Indices
  BY <1>2 DEF Indices
<1>13. \A j \in Indices : Locking(j)' \/ Busy(j)' \/ Ready(j)' \/ Taken(j)'
  BY <1>6, <1>7, <1>8, <1>11 DEF Ring, Busy
<1>14. \A j \in Indices : Busy(j)' => SR!Slot(j) \in locked'
  BY <1>2, <1>11 DEF Ring
<1>15. ASSUME NEW j \in Indices, NEW k \in Indices, j < k, SR!Slot(j) = SR!Slot(k)
       PROVE  (Busy(k)' => Ready(j)' \/ Taken(j)') /\ (Ready(k)' => Taken(j)')
  <2>1. Ready(k)' => Taken(j)'
    BY <1>15, <1>8 DEF Ring
  <2>2. CASE k = i
    BY <2>1, <2>2, <1>15, <1>4, <1>8, <1>10 DEF Ring
  <2>3. CASE k # i
    BY <2>1, <2>3, <1>15, <1>8, <1>11 DEF Ring
  <2> QED BY <2>2, <2>3
<1>16. \A k \in (1 .. Len(out))' : k \in Indices' /\ out'[k] = order'[k]
  BY <1>2, <1>12 DEF Ring
<1> QED BY <1>12, <1>13, <1>14, <1>15, <1>16 DEF Ring

\* The task of a message takes the slot over from its pusher.
LEMMA RingSchedule == ASSUME RunnerInv, Ring, NEW p \in Pushers, SR!Schedule(p) PROVE Ring'
<1>0. RunnerTypes /\ Numbered /\ Pushing
  BY DEF RunnerInv
<1>1. PICK i \in Indices : i = index[p]
  BY <1>0 DEF SR!Schedule, Pushing, HasIndex
<1>2. /\ UNCHANGED <<written, order, sending, value, out, locked>> /\ ppc[p] = "schedule" /\ order[i] = msg[p]
      /\ ppc' = [ppc EXCEPT ![p] = "idle"] /\ index' = [index EXCEPT ![p] = 0]
      /\ handling' = handling \cup {<<order[i], SR!Slot(i)>>}
  BY <1>0, <1>1 DEF SR!Schedule, SR!Go, Pushing, HasIndex
<1>3. Scheduling(i) /\ Running(i)'
  BY <1>1, <1>2 DEF Scheduling, Running, Tasks
<1>4. ASSUME NEW j \in Indices, j # i PROVE Busy(j)' <=> Busy(j)
  <2>1. Scheduling(j)' <=> Scheduling(j)
    BY <1>0, <1>1, <1>2, <1>4 DEF Scheduling, RunnerTypes
  <2>2. <<order[j], SR!Slot(j)>> # <<order[i], SR!Slot(i)>>
    BY <1>4, OneIndex
  <2>3. Running(j)' <=> Running(j)
    BY <1>2, <2>2 DEF Running, Tasks
  <2> QED BY <2>1, <2>3 DEF Busy
<1>5. \A j \in Indices : Busy(j)' <=> Busy(j)
  BY <1>3, <1>4 DEF Busy
<1>6. \A j \in Indices : (Locking(j)' <=> Locking(j)) /\ (Ready(j)' <=> Ready(j))
  BY <1>0, <1>1, <1>2 DEF Locking, Ready, RunnerTypes
<1>7. \A j \in Indices : Busy(j) => SR!Slot(j) \in locked'
  BY <1>2 DEF Ring
<1> QED BY <1>2, <1>5, <1>6, <1>7, RingFrame

\* A result that goes to the channel of its slot is the next to be taken out there.
LEMMA RingSend == ASSUME RunnerInv, Ring, NEW t \in Tasks, SR!Send(t) PROVE Ring'
<1>0. RunnerTypes /\ Numbered /\ Placed /\ Apart
  BY DEF RunnerInv
<1>1. PICK i \in Indices : order[i] = t[1] /\ SR!Slot(i) = t[2]
  BY <1>0 DEF Placed
<1>2. t = <<order[i], SR!Slot(i)>> /\ SR!Slot(i) \in SR!Slots
  BY <1>0, <1>1 DEF RunnerTypes
<1>3. /\ UNCHANGED <<written, order, handling, ppc, index, out>> /\ value[SR!Slot(i)] = 0
      /\ t \in sending /\ sending' = sending \ {t} /\ value' = [value EXCEPT ![SR!Slot(i)] = order[i]]
      /\ locked' = locked \ {SR!Slot(i)}
  BY <1>1 DEF SR!Send, SR!pushing
<1>4. Running(i) /\ Busy(i)
  BY <1>2 DEF Running, Busy
<1>5. ~Scheduling(i) /\ ~Ready(i) /\ ~Taken(i) /\ ~Locking(i)
  BY <1>4, RingApart
<1>6. \A j \in Indices : /\ Locking(j)' <=> Locking(j)
                         /\ Scheduling(j)' <=> Scheduling(j)
                         /\ Taken(j)' <=> Taken(j)
  BY <1>3 DEF Locking, Scheduling, Taken
<1>7. Tasks' = Tasks \ {t}
  BY <1>0, <1>3 DEF Tasks, Apart
<1>8. ASSUME NEW j \in Indices, j # i PROVE Running(j)' <=> Running(j)
  <2>1. <<order[j], SR!Slot(j)>> # t
    BY <1>2, <1>8, OneIndex
  <2> QED BY <1>3, <1>7, <2>1 DEF Running
<1>9. ~Running(i)' /\ ~Busy(i)'
  <2>1. ~Running(i)'
    BY <1>2, <1>3, <1>7 DEF Running
  <2> QED BY <1>5, <1>6, <2>1 DEF Busy
<1>10. Ready(i)'
  BY <1>0, <1>2, <1>3 DEF Ready, RunnerTypes
<1>11. ASSUME NEW j \in Indices, j # i PROVE Ready(j)' <=> Ready(j)
  <2>1. order[j] # order[i] /\ order[j] # 0
    BY <1>0, <1>11, OneIndex DEF Numbered
  <2>2. SR!Slot(j) \in SR!Slots
    BY <1>0, SlotType DEF Indices, RunnerTypes
  <2> QED BY <1>0, <1>2, <1>3, <2>1, <2>2 DEF Ready, RunnerTypes
<1>12. \A j \in Indices : j # i => (Busy(j)' <=> Busy(j))
  BY <1>6, <1>8 DEF Busy
<1>13. Indices' = Indices
  BY <1>3 DEF Indices
<1>14. ASSUME NEW j \in Indices, j # i, Busy(j), SR!Slot(j) = SR!Slot(i) PROVE FALSE
  <2>1. ~Ready(j) /\ ~Taken(j)
    BY <1>14, RingApart DEF Busy
  <2>2. i \in Nat /\ j \in Nat
    BY <1>0 DEF Indices, RunnerTypes
  <2>3. CASE i < j
    BY <2>3, <1>5, <1>14 DEF Ring
  <2>4. CASE j < i
    BY <2>4, <2>1, <1>4, <1>14 DEF Ring
  <2> QED BY <2>2, <2>3, <2>4, <1>14
<1>15. \A j \in Indices : Locking(j)' \/ Busy(j)' \/ Ready(j)' \/ Taken(j)'
  BY <1>6, <1>10, <1>11, <1>12 DEF Ring
<1>16. \A j \in Indices : Busy(j)' => SR!Slot(j) \in locked'
  BY <1>3, <1>9, <1>12, <1>14 DEF Ring
<1>17. ASSUME NEW j \in Indices, NEW k \in Indices, j < k, SR!Slot(j) = SR!Slot(k)
       PROVE  (Busy(k)' => Ready(j)' \/ Taken(j)') /\ (Ready(k)' => Taken(j)')
  <2>0. /\ Busy(k) => Ready(j) \/ Taken(j)
        /\ Ready(k) => Taken(j)
    BY <1>17 DEF Ring
  <2>1. CASE k = i
    <3>1. ~Ready(j)
      BY <1>0, <1>3, <1>17, <2>1 DEF Ready, Numbered
    <3> QED BY <2>0, <2>1, <3>1, <1>4, <1>6, <1>9
  <2>2. CASE k # i
    <3>1. Busy(k)' => j # i
      BY <1>12, <1>14, <1>17, <2>2
    <3> QED BY <2>0, <2>2, <3>1, <1>6, <1>11, <1>12
  <2> QED BY <2>1, <2>2
<1>18. \A k \in (1 .. Len(out))' : k \in Indices' /\ out'[k] = order'[k]
  BY <1>3, <1>13 DEF Ring
<1> QED BY <1>13, <1>15, <1>16, <1>17, <1>18 DEF Ring

\* What Get takes out has the index that the reader has come to.
LEMMA RingGet == ASSUME RunnerInv, Ring, Counting, SR!Get PROVE Ring'
<1>0. RunnerTypes /\ Numbered /\ Placed /\ Apart
  BY DEF RunnerInv
<1>1. Len(out) \in Nat /\ consumed = Len(out)
  BY <1>0, LenProperties DEF SR!Get, Counting, RunnerTypes
<1>a. Len(out) + 1 \in Nat \ {0}
  BY <1>1
<1>2. PICK n \in Nat \ {0} : n = Len(out) + 1
  BY <1>a, Zenon
<1>3. SR!Slot(n) = consumed % BufSize
  BY <1>1, <1>2 DEF SR!Slot
<1>4. SR!Slot(n) \in SR!Slots
  BY SlotType
<1>5. /\ UNCHANGED <<written, order, handling, sending, ppc, index, locked>> /\ value[SR!Slot(n)] # 0
      /\ value' = [value EXCEPT ![SR!Slot(n)] = 0] /\ out' = Append(out, value[SR!Slot(n)])
  BY <1>3 DEF SR!Get, SR!pushing, SR!tasks
<1>6. PICK j \in Indices : order[j] = value[SR!Slot(n)] /\ SR!Slot(j) = SR!Slot(n)
  BY <1>0, <1>4, <1>5 DEF Placed
<1>7. Ready(j) /\ ~Taken(j)
  BY <1>6, RingApart DEF Ready
<1>8. j = n
  <2>1. j \in Nat /\ n <= j
    BY <1>0, <1>1, <1>2, <1>7 DEF Taken, Indices, RunnerTypes
  <2>2. n \in Indices
    BY <1>0, <2>1 DEF Indices, RunnerTypes
  <2>3. ~Taken(n)
    BY <1>1, <1>2 DEF Taken
  <2> QED BY <1>6, <1>7, <2>1, <2>2, <2>3 DEF Ring
<1>9. /\ Len(out') = n /\ out'[n] = order[n]
      /\ \A k \in 1 .. Len(out) : out'[k] = out[k]
  BY <1>0, <1>2, <1>4, <1>5, <1>6, <1>8, Longer DEF RunnerTypes
<1>10. \A k \in Indices : /\ Locking(k)' <=> Locking(k)
                          /\ Scheduling(k)' <=> Scheduling(k)
                          /\ Running(k)' <=> Running(k)
  BY <1>5 DEF Locking, Scheduling, Running, Tasks
<1>11. \A k \in Indices : Busy(k)' <=> Busy(k)
  BY <1>10 DEF Busy
<1>12. \A k \in Indices : Taken(k)' <=> Taken(k) \/ k = n
  BY <1>1, <1>2, <1>9 DEF Taken
<1>13. ASSUME NEW k \in Indices, k # n PROVE Ready(k)' <=> Ready(k)
  <2>1. order[k] # order[n] /\ order[k] # 0
    BY <1>0, <1>8, <1>13, OneIndex DEF Numbered
  <2>2. SR!Slot(k) \in SR!Slots
    BY <1>0, SlotType DEF Indices, RunnerTypes
  <2> QED BY <1>0, <1>4, <1>5, <1>6, <1>8, <2>1, <2>2 DEF Ready, RunnerTypes
<1>14. ~Ready(n)'
  <2>1. order[n] # 0
    BY <1>0, <1>8 DEF Numbered
  <2> QED BY <1>0, <1>4, <1>5, <2>1 DEF Ready, RunnerTypes
<1>15. Indices' = Indices
  BY <1>5 DEF Indices
<1>16. \A k \in 1 .. Len(out') : k \in Indices /\ out'[k] = order[k]
  <2>1. \A k \in 1 .. Len(out') : k \in 1 .. Len(out) \/ k = n
    BY <1>1, <1>2, <1>9
  <2> QED BY <1>8, <1>9, <2>1 DEF Ring
<1>17. \A k \in Indices : Locking(k)' \/ Busy(k)' \/ Ready(k)' \/ Taken(k)'
  BY <1>10, <1>11, <1>12, <1>13 DEF Ring
<1>18. \A k \in Indices : Busy(k)' => SR!Slot(k) \in locked'
  BY <1>5, <1>11 DEF Ring
<1>19. ASSUME NEW k \in Indices, NEW l \in Indices, k < l, SR!Slot(k) = SR!Slot(l)
       PROVE  (Busy(l)' => Ready(k)' \/ Taken(k)') /\ (Ready(l)' => Taken(k)')
  <2>0. /\ Busy(l) => Ready(k) \/ Taken(k)
        /\ Ready(l) => Taken(k)
    BY <1>19 DEF Ring
  <2> QED BY <2>0, <1>11, <1>12, <1>13, <1>14
<1> QED BY <1>5, <1>15, <1>16, <1>17, <1>18, <1>19 DEF Ring

\* The reader counts what it takes out.
LEMMA CountingNext == RunnerInv /\ Counting /\ [SR!Next]_runner => Counting'
<1> SUFFICES ASSUME RunnerInv, Counting, [SR!Next]_runner PROVE Counting'
  OBVIOUS
<1> USE DEF Counting, SR!ends
<1>1. CASE SR!Get
  <2>1. consumed % BufSize \in SR!Slots
    BY ServicesAssumption DEF RunnerInv, RunnerTypes, SR!Slots
  <2>2. value[consumed % BufSize] \in Nat
    BY <2>1 DEF RunnerInv, RunnerTypes
  <2>3. Len(out') = Len(out) + 1
    BY <1>1, <2>2, Longer DEF SR!Get, RunnerInv, RunnerTypes
  <2> QED BY <1>1, <2>3 DEF SR!Get
<1>2. CASE SR!GetClosed
  BY <1>2 DEF SR!GetClosed
<1>3. CASE UNCHANGED <<reader, consumed, out>>
  BY <1>3
<1> QED
  BY <1>1, <1>2, <1>3
     DEF SR!Next, SR!TaskStep, SR!Push, SR!TakeIndex, SR!Lock, SR!Schedule, SR!Handle, SR!Send, SR!Wait,
         SR!WaitStep, runner

\* The invariant holds initially.
LEMMA OrderInit == SR!Init => OrderInv
<1> SUFFICES ASSUME SR!Init PROVE OrderInv
  OBVIOUS
<1>1. RunnerInv
  BY RunnerInit
<1>2. Counting
  BY DEF SR!Init, Counting
<1>3. Ring
  BY DEF SR!Init, Ring, Indices
<1> QED BY <1>1, <1>2, <1>3 DEF OrderInv

\* Every step preserves the invariant.
LEMMA OrderNext == OrderInv /\ [SR!Next]_runner => OrderInv'
<1> SUFFICES ASSUME OrderInv, [SR!Next]_runner PROVE OrderInv'
  OBVIOUS
<1>1. RunnerInv /\ Counting /\ (Sane => Ring)
  BY DEF OrderInv
<1>2. RunnerInv'
  BY <1>1, RunnerTyped, RunnerNumbered, RunnerApart DEF RunnerInv
<1>3. Counting'
  BY <1>1, CountingNext
<1>4. ASSUME Sane' PROVE Ring'
  <2>0. Sane
    BY <1>4 DEF Sane, SR!Next, SR!TaskStep, SR!Push, SR!TakeIndex, SR!Lock, SR!Schedule, SR!Handle,
                SR!Send, SR!Get, SR!GetClosed, SR!Wait, SR!WaitStep, SR!Odd, runner
  <2>1. Ring
    BY <1>1, <2>0
  <2>2. CASE UNCHANGED <<written, order, out, ppc, index, handling, sending, value, locked>>
    <3>1. \A i \in Indices : (Locking(i)' <=> Locking(i)) /\ (Busy(i)' <=> Busy(i)) /\ (Ready(i)' <=> Ready(i))
      BY <2>2 DEF Locking, Busy, Scheduling, Running, Ready, Tasks
    <3> QED BY <2>1, <2>2, <3>1, RingFrame DEF Ring
  <2>3. ASSUME NEW p \in Pushers, SR!Push(p) PROVE Ring'
    <3>1. \A i : (Locking(i)' <=> Locking(i)) /\ (Scheduling(i)' <=> Scheduling(i))
      BY <1>1, <2>3 DEF SR!Push, SR!pushing, SR!Go, Locking, Scheduling, RunnerInv, RunnerTypes
    <3>2. UNCHANGED <<written, order, out, handling, sending, value, locked>>
      BY <2>3 DEF SR!Push, SR!tasks
    <3>3. \A i \in Indices : (Busy(i)' <=> Busy(i)) /\ (Ready(i)' <=> Ready(i))
      BY <3>1, <3>2 DEF Busy, Running, Ready, Tasks
    <3> QED BY <2>1, <3>1, <3>2, <3>3, RingFrame DEF Ring
  <2>4. ASSUME NEW t \in Tasks, SR!Handle(t) PROVE Ring'
    <3>1. Tasks' = Tasks /\ UNCHANGED <<written, order, out, ppc, index, value, locked>>
      BY <1>4, <2>4 DEF SR!Handle, Sane, SR!Odd, Tasks, SR!pushing
    <3>2. \A i \in Indices : (Locking(i)' <=> Locking(i)) /\ (Busy(i)' <=> Busy(i)) /\ (Ready(i)' <=> Ready(i))
      BY <3>1 DEF Locking, Busy, Scheduling, Running, Ready
    <3> QED BY <2>1, <3>1, <3>2, RingFrame DEF Ring
  <2>5. CASE SR!GetClosed \/ SR!Wait \/ SR!WaitStep \/ UNCHANGED runner
    BY <2>2, <2>5 DEF SR!GetClosed, SR!Wait, SR!WaitStep, runner, SR!pushing, SR!tasks
  <2> QED
    BY <1>1, <1>4, <2>1, <2>3, <2>4, <2>5, RingTakeIndex, RingLock, RingSchedule, RingSend, RingGet
       DEF SR!Next, SR!TaskStep, Tasks
<1> QED BY <1>2, <1>3, <1>4 DEF OrderInv

\* The results come out in the order in which a goroutine pushed them.
THEOREM ResultsInOrder == SR!Init /\ [][SR!Next]_runner => []OrderUnlessLapped
<1>1. OrderInv => OrderUnlessLapped
  <2> SUFFICES ASSUME OrderInv, Sane PROVE SR!PushedOrder
    BY DEF OrderUnlessLapped, SR!OrderUnlessLapped, Sane
  <2>1. RunnerInv /\ Ring
    BY DEF OrderInv
  <2>2. DOMAIN out = 1 .. Len(out)
    BY <2>1 DEF RunnerInv, RunnerTypes
  <2>3. Numbered /\ \A k \in 1 .. Len(out) : k \in Indices /\ out[k] = order[k]
    BY <2>1 DEF RunnerInv, Ring
  <2> QED BY <2>2, <2>3 DEF SR!PushedOrder, Numbered
<1> QED BY <1>1, OrderInit, OrderNext, PTL
-----------------------------------------------------------------------------
(* What Wait waits for *)

Out == {out[k] : k \in 1 .. Len(out)}

\* The messages that Wait waits for have an index; the reader leaves, and Wait returns, when
\* there are as many results as indices.
Covered ==
    /\ before \subseteq {order[i] : i \in Indices}
    /\ reader = "closed" => before \subseteq Out /\ waiter # "no"
    /\ waiter = "over" => before \subseteq Out

\* Until Wait is called, every message of a call of Push gets an index.
Accepted ==
    waiter = "no" =>
        \A m \in 1 .. Len(author) :
            (\E p \in Pushers : ppc[p] = "index" /\ msg[p] = m) \/ \E i \in Indices : order[i] = m

Closed == closed

CoverInv == RunnerInv /\ Counting /\ Covered /\ Accepted /\ (waiter = "no" => ~Closed)

\* There are n numbers up to n.
LEMMA CountTo == ASSUME NEW n \in Nat PROVE IsFiniteSet(1 .. n) /\ Cardinality(1 .. n) = n
<1>1. IsFiniteSet(1 .. n) /\ Cardinality(1 .. n) = IF 1 > n THEN 0 ELSE n - 1 + 1
  BY FS_Interval
<1> QED BY <1>1

\* As many results as indices are the results of all of them.
LEMMA AllTaken == ASSUME RunnerInv, written <= Len(out) PROVE {order[i] : i \in Indices} \subseteq Out
<1> DEFINE S == 1 .. Len(out)
           place == [k \in S |-> CHOOSE i \in Indices : order[i] = out[k]]
<1>0. RunnerTypes /\ Placed /\ Apart /\ Len(out) \in Nat
  BY LenProperties DEF RunnerInv, RunnerTypes
<1>1. \A k \in S : place[k] \in Indices /\ order[place[k]] = out[k]
  BY <1>0 DEF Placed
<1>2. place \in [S -> Indices]
  BY <1>1
<1>3. \A k, l \in S : place[k] = place[l] => k = l
  <2> HIDE DEF place
  <2> QED BY <1>0, <1>1 DEF Apart
<1>4. place \in Injection(S, Indices)
  <2> HIDE DEF place
  <2>1. DOMAIN place = S
    BY <1>2
  <2> QED BY <1>2, <1>3, <2>1 DEF Injection, IsInjective
<1>5. IsFiniteSet(Indices) /\ Cardinality(Indices) = written /\ Cardinality(S) = Len(out)
  BY <1>0, CountTo DEF Indices, RunnerTypes
<1> HIDE DEF place, S
<1>6. Cardinality(S) <= Cardinality(Indices)
      /\ (Cardinality(S) = Cardinality(Indices) => place \in Surjection(S, Indices))
  BY <1>4, <1>5, FS_Injection
<1>7. Cardinality(S) = Cardinality(Indices)
  BY <1>0, <1>5, <1>6 DEF RunnerTypes
<1>8. \A i \in Indices : \E k \in S : place[k] = i
  BY <1>6, <1>7 DEF Surjection
<1> QED BY <1>1, <1>8 DEF S, Out

\* The invariant holds initially.
LEMMA CoverInit == SR!Init => CoverInv
<1> SUFFICES ASSUME SR!Init PROVE CoverInv
  OBVIOUS
<1>1. RunnerInv
  BY RunnerInit
<1>2. ~Closed
  BY Zenon DEF SR!Init, Closed
<1>3. Counting /\ Covered /\ Accepted
  BY DEF SR!Init, Counting, Covered, Accepted
<1> QED BY <1>1, <1>2, <1>3 DEF CoverInv

\* Every step preserves the invariant.
LEMMA CoverNext == CoverInv /\ [SR!Next]_runner => CoverInv'
<1> SUFFICES ASSUME CoverInv, [SR!Next]_runner PROVE CoverInv'
  OBVIOUS
<1>0. RunnerInv /\ RunnerTypes /\ Numbered /\ Pushing /\ Counting /\ Covered /\ Accepted
      /\ (waiter = "no" => ~Closed)
  BY DEF CoverInv, RunnerInv
<1>1. RunnerInv'
  BY <1>0, RunnerTyped, RunnerNumbered, RunnerApart DEF RunnerInv
<1>2. Counting'
  BY <1>0, CountingNext
<1>3. waiter' = "no" => ~Closed'
  <2>1. waiter' = "no" => waiter = "no" /\ closed' = closed
    BY DEF SR!Next, SR!TaskStep, SR!Push, SR!TakeIndex, SR!Lock, SR!Schedule, SR!Handle, SR!Send,
           SR!Get, SR!GetClosed, SR!Wait, SR!WaitStep, SR!ends, runner
  <2> QED BY <1>0, <2>1, Zenon DEF Closed
<1>4. Out \subseteq Out'
  <2>1. CASE SR!Get
    <3>1. consumed % BufSize \in SR!Slots
      BY <1>0, ServicesAssumption DEF RunnerTypes, SR!Slots
    <3>2. value[consumed % BufSize] \in Nat
      BY <1>0, <3>1 DEF RunnerTypes
    <3>3. Len(out) \in Nat /\ Len(out') = Len(out) + 1 /\ \A k \in 1 .. Len(out) : out'[k] = out[k]
      BY <1>0, <2>1, <3>2, Longer DEF SR!Get, RunnerTypes
    <3> QED BY <3>3 DEF Out
  <2>2. CASE UNCHANGED out
    BY <2>2 DEF Out
  <2> QED
    BY <2>1, <2>2
       DEF SR!Next, SR!TaskStep, SR!Push, SR!TakeIndex, SR!Lock, SR!Schedule, SR!Handle, SR!Send,
           SR!GetClosed, SR!Wait, SR!WaitStep, runner
<1>5. \A i \in Indices : i \in Indices' /\ order'[i] = order[i]
  <2>1. ASSUME NEW p \in Pushers, SR!TakeIndex(p)
        PROVE \A i \in Indices : i \in Indices' /\ order'[i] = order[i]
    BY <1>0, <2>1, Longer DEF SR!TakeIndex, RunnerTypes, Numbered, Indices
  <2>2. CASE UNCHANGED <<written, order>>
    BY <2>2 DEF Indices
  <2> QED
    BY <2>1, <2>2
       DEF SR!Next, SR!TaskStep, SR!Push, SR!Lock, SR!Schedule, SR!Handle, SR!Send, SR!Get,
           SR!GetClosed, SR!Wait, SR!WaitStep, runner
<1>6. Accepted'
  <2> SUFFICES ASSUME waiter' = "no", NEW m \in 1 .. Len(author')
               PROVE  (\E p \in Pushers : ppc'[p] = "index" /\ msg'[p] = m) \/ \E i \in Indices' : order'[i] = m
    BY DEF Accepted
  <2>0. waiter = "no"
    BY DEF SR!Next, SR!TaskStep, SR!Push, SR!TakeIndex, SR!Lock, SR!Schedule, SR!Handle, SR!Send,
           SR!Get, SR!GetClosed, SR!Wait, SR!WaitStep, SR!ends, runner
  <2>a. ~Closed /\ \A n \in 1 .. Len(author) :
            (\E p \in Pushers : ppc[p] = "index" /\ msg[p] = n) \/ \E i \in Indices : order[i] = n
    BY <1>0, <2>0 DEF Accepted
  <2>1. ASSUME NEW p \in Pushers, SR!Push(p)
        PROVE (\E q \in Pushers : ppc'[q] = "index" /\ msg'[q] = m) \/ \E i \in Indices : order[i] = m
    <3>1. ~closed
      BY <2>a, Zenon DEF Closed
    <3>2. Len(author) \in Nat /\ Len(author') = Len(author) + 1
      BY <1>0, <2>1, Longer DEF SR!Push, RunnerTypes
    <3>3. ppc[p] = "idle" /\ ppc' = [ppc EXCEPT ![p] = "index"] /\ msg' = [msg EXCEPT ![p] = Len(author')]
      BY <2>1, <3>1, Zenon DEF SR!Push, SR!Go
    <3>4. CASE m = Len(author')
      BY <1>0, <3>3, <3>4 DEF RunnerTypes
    <3>5. CASE m \in 1 .. Len(author)
      BY <1>0, <2>a, <3>3, <3>5 DEF RunnerTypes
    <3> QED BY <3>2, <3>4, <3>5
  <2>2. ASSUME NEW p \in Pushers, SR!TakeIndex(p)
        PROVE (\E q \in Pushers : ppc'[q] = "index" /\ msg'[q] = m) \/ \E i \in Indices' : order'[i] = m
    <3>1. ppc' = [ppc EXCEPT ![p] = "lock"] /\ UNCHANGED <<msg, author>> /\ written' = written + 1
      BY <2>2 DEF SR!TakeIndex, SR!Go
    <3>2. order'[written + 1] = msg[p] /\ written + 1 \in Indices'
      BY <1>0, <2>2, <3>1, Longer DEF SR!TakeIndex, RunnerTypes, Numbered, Indices
    <3> QED BY <1>0, <1>5, <2>a, <3>1, <3>2 DEF RunnerTypes
  <2>3. ASSUME NEW p \in Pushers, SR!Lock(p) \/ SR!Schedule(p)
        PROVE author' = author /\ \A q \in Pushers : ppc[q] = "index" => ppc'[q] = "index" /\ msg'[q] = msg[q]
    BY <1>0, <2>3 DEF SR!Lock, SR!Schedule, SR!Go, RunnerTypes
  <2>4. CASE author' = author /\ \A q \in Pushers : ppc[q] = "index" => ppc'[q] = "index" /\ msg'[q] = msg[q]
    BY <1>5, <2>a, <2>4
  <2>5. ASSUME NEW t \in Tasks, SR!Handle(t) \/ SR!Send(t) PROVE UNCHANGED <<author, ppc, msg>>
    BY <2>5 DEF SR!Handle, SR!Send, SR!pushing
  <2>6. CASE SR!Get \/ SR!GetClosed \/ SR!Wait \/ SR!WaitStep \/ UNCHANGED runner
    BY <2>4, <2>6 DEF SR!Get, SR!GetClosed, SR!Wait, SR!WaitStep, runner, SR!pushing
  <2> QED
    BY <1>5, <2>1, <2>2, <2>3, <2>4, <2>5, <2>6 DEF SR!Next, SR!TaskStep, Tasks
<1>7. Covered'
  <2>0. before \subseteq {order[i] : i \in Indices} /\ (waiter = "over" => before \subseteq Out)
        /\ (reader = "closed" => before \subseteq Out /\ waiter # "no")
    BY <1>0 DEF Covered
  <2>a. {order[i] : i \in Indices} \subseteq {order'[i] : i \in Indices'}
    BY <1>5
  <2>1. CASE SR!Wait
    <3>1. waiter = "no" /\ waiter' = "runner" /\ UNCHANGED <<reader, order, written>>
          /\ before' = DOMAIN author \ {msg[p] : p \in Pushers}
      BY <2>1 DEF SR!Wait
    <3>2. DOMAIN author = 1 .. Len(author)
      BY <1>0 DEF RunnerTypes
    <3>3. before' \subseteq {order[i] : i \in Indices}
      BY <1>0, <3>1, <3>2 DEF Accepted
    <3> QED BY <2>0, <2>a, <3>1, <3>3 DEF Covered
  <2>2. CASE SR!WaitStep
    <3>1. UNCHANGED <<before, reader, consumed, written>> /\ waiter # "no" /\ waiter' # "no"
          /\ (waiter' = "over" => consumed >= written)
      BY <2>2 DEF SR!WaitStep
    <3>2. waiter' = "over" => before \subseteq Out
      <4>1. CASE reader = "closed"
        BY <2>0, <4>1
      <4>2. CASE reader # "closed"
        BY <1>0, <2>0, <3>1, <4>2, AllTaken DEF Counting, RunnerTypes
      <4> QED BY <4>1, <4>2
    <3> QED BY <1>4, <2>0, <2>a, <3>1, <3>2 DEF Covered
  <2>3. CASE SR!GetClosed
    <3>1. /\ UNCHANGED <<before, waiter, written>> /\ reader = "get" /\ closed
          /\ reader' = "closed" => ~(consumed < written)
      BY <2>3 DEF SR!GetClosed, SR!MoreToCome
    <3>2. waiter # "no"
      <4>1. Closed
        BY <2>3, Zenon DEF SR!GetClosed, Closed
      <4> QED BY <1>0, <4>1
    <3>3. reader' = "closed" => before \subseteq Out
      BY <1>0, <2>0, <3>1, AllTaken DEF Counting, RunnerTypes
    <3> QED BY <1>4, <2>0, <2>a, <3>1, <3>2, <3>3 DEF Covered
  <2>4. CASE UNCHANGED <<before, waiter>> /\ (reader' = "closed" => reader = "closed")
    BY <1>4, <2>0, <2>a, <2>4 DEF Covered
  <2> QED
    BY <2>1, <2>2, <2>3, <2>4
       DEF SR!Next, SR!TaskStep, SR!Push, SR!TakeIndex, SR!Lock, SR!Schedule, SR!Handle, SR!Send,
           SR!Get, SR!ends, runner
<1> QED BY <1>1, <1>2, <1>3, <1>6, <1>7 DEF CoverInv

\* When Wait returns, what was pushed before it was called has been taken out.
THEOREM WaitCoversPushes == SR!Init /\ [][SR!Next]_runner => []WaitCovers
<1>1. CoverInv => WaitCovers
  <2> SUFFICES ASSUME CoverInv PROVE WaitCovers
    OBVIOUS
  <2>1. DOMAIN out = 1 .. Len(out)
    BY DEF CoverInv, RunnerInv, RunnerTypes
  <2> QED BY <2>1 DEF CoverInv, Covered, Out, WaitCovers, SR!WaitCovers
<1> QED BY <1>1, CoverInit, CoverNext, PTL
-----------------------------------------------------------------------------
(* The specification *)

\* The parts of a service keep their promises side by side.
THEOREM ServicesSafe ==
    Spec => [](/\ OrderUnlessLapped /\ WaitCovers /\ OneAnswer /\ AllConsumed /\ PausedIsInactive)
<1>1. Init => SR!Init /\ TH!Init /\ QU!Init
  BY DEF Init
<1>2. [Next]_<<part, runner, request, queue, stop>> =>
        [SR!Next]_runner /\ [TH!Next]_request /\ [QU!Next]_queue
  BY DEF Next, Alone
<1> QED
  BY <1>1, <1>2, ResultsInOrder, WaitCoversPushes, RequestsGetOneAnswer, NoMessageIsLost, PausesAreReal,
     PTL DEF Spec
=============================================================================
