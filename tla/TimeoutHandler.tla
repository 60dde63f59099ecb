--------------------------- MODULE TimeoutHandler ---------------------------
(***************************************************************************)
(* rest/handler.timeoutHandler for one request: the handler runs in its    *)
(* own goroutine and writes to a buffer; ServeHTTP waits for its end, for  *)
(* its panic or for the deadline, and writes the buffer or an error.       *)
(* Requests that are upgraded or streamed bypass all of this.              *)
(***************************************************************************)
EXTENDS Naturals, Sequences

CONSTANT MaxWrites     \* bounds the calls of Write, WriteHeader and Flush

VARIABLES
    spc, hpc,      \* where ServeHTTP and the goroutine of the handler are
    conn,          \* what went to the connection: codes, writes (numbered) and the error
    wbuf, code, wroteHeader, timedOut,   \* of the timeoutWriter; code 0 is http.StatusOK
    mu,            \* tw.mu is held by ServeHTTP across steps
    ended,         \* the context has ended
    panicChan,     \* values in panicChan
    doneChan,      \* done is closed
    calls,         \* calls the handler has made
    wrote,         \* history: what the handler wrote without an error
    flushed        \* history: the handler called Flush

writerVars == <<wbuf, code, wroteHeader, timedOut>>
timeoutVars == <<spc, hpc, conn, writerVars, mu, ended, panicChan, doneChan, calls, wrote, flushed>>

Init ==
    /\ spc = "idle" /\ hpc = "none" /\ conn = <<>>
    /\ wbuf = <<>> /\ code = 0 /\ wroteHeader = FALSE /\ timedOut = FALSE
    /\ mu = FALSE /\ ended = FALSE /\ panicChan = 0 /\ doneChan = FALSE
    /\ calls = 0 /\ wrote = <<>> /\ flushed = FALSE
-----------------------------------------------------------------------------
\* ServeHTTP starts the handler; the deadline is set.
ServeHTTP ==
    /\ spc = "idle" /\ spc' = "select" /\ hpc' = "run"
    /\ UNCHANGED <<conn, writerVars, mu, ended, panicChan, doneChan, calls, wrote, flushed>>

\* The timeout, or the client goes away.
CtxEnds ==
    /\ spc = "select" /\ ~ended /\ ended' = TRUE
    /\ UNCHANGED <<spc, hpc, conn, writerVars, mu, panicChan, doneChan, calls, wrote, flushed>>

Called == hpc = "run" /\ calls < MaxWrites /\ calls' = calls + 1

\* Mutant of Write: it does not go through the buffer.
WriteThrough ==
    /\ Called /\ ~mu /\ ~timedOut
    /\ conn' = Append(conn, calls') /\ wrote' = Append(wrote, calls') /\ wroteHeader' = TRUE
    /\ UNCHANGED <<spc, hpc, wbuf, code, timedOut, mu, ended, panicChan, doneChan, flushed>>

\* Write checks timedOut under tw.mu.
Write ==
    /\ Called /\ ~mu
    /\ \/ /\ ~timedOut
          /\ wbuf' = Append(wbuf, calls') /\ wrote' = Append(wrote, calls') /\ wroteHeader' = TRUE
       \/ timedOut /\ UNCHANGED <<wbuf, wrote, wroteHeader>>
    /\ UNCHANGED <<spc, hpc, conn, code, timedOut, mu, ended, panicChan, doneChan, flushed>>

\* The first code wins; after the timeout none is kept.
WriteHeader ==
    /\ Called /\ ~mu
    /\ IF wroteHeader \/ timedOut THEN UNCHANGED <<wroteHeader, code>>
                                  ELSE wroteHeader' = TRUE /\ code' \in {0, 500}
    /\ UNCHANGED <<spc, hpc, conn, wbuf, timedOut, mu, ended, panicChan, doneChan, wrote, flushed>>

\* Flush takes no lock and does not look at timedOut.
Flush ==
    /\ Called /\ conn' = conn \o wbuf /\ wbuf' = <<>> /\ flushed' = TRUE
    /\ UNCHANGED <<spc, hpc, code, wroteHeader, timedOut, mu, ended, panicChan, doneChan, wrote>>

\* Mutant of PanicCap: the channel has no buffer, and only a receiver in select empties it.
NoBuffer == 0

PanicCap == 1

\* The handler returns and done is closed, or it panics and the panic is sent.
HandlerEnds ==
    /\ \/ hpc = "run" /\ hpc' = "end" /\ doneChan' = TRUE /\ UNCHANGED panicChan
       \/ hpc = "run" /\ hpc' = "panicking" /\ UNCHANGED <<doneChan, panicChan>>
       \/ /\ hpc = "panicking" /\ (panicChan < PanicCap \/ spc = "select")
          /\ hpc' = "end" /\ panicChan' = panicChan + 1 /\ UNCHANGED doneChan
    /\ UNCHANGED <<spc, conn, writerVars, mu, ended, calls, wrote, flushed>>
-----------------------------------------------------------------------------
\* case p := <-panicChan: panic(p)
SelectPanic ==
    /\ spc = "select" /\ panicChan > 0 /\ panicChan' = 0 /\ spc' = "panicked"
    /\ UNCHANGED <<hpc, conn, writerVars, mu, ended, doneChan, calls, wrote, flushed>>

\* case <-done: the code, unless it is 200, and the buffer
SelectDone ==
    /\ spc = "select" /\ doneChan /\ spc' = "over"
    /\ conn' = conn \o (IF code = 0 THEN <<>> ELSE <<code>>) \o wbuf
    /\ UNCHANGED <<hpc, writerVars, mu, ended, panicChan, doneChan, calls, wrote, flushed>>

\* case <-ctx.Done(): the code of the error, its text, and timedOut, all under tw.mu
SelectTimeout ==
    /\ \/ /\ spc = "select" /\ ended /\ spc' = "error" /\ mu' = TRUE
          /\ conn' = Append(conn, 503) /\ UNCHANGED timedOut
       \/ /\ spc = "error" /\ spc' = "over" /\ mu' = FALSE
          /\ conn' = Append(conn, 0) /\ timedOut' = TRUE
    /\ UNCHANGED <<hpc, wbuf, code, wroteHeader, ended, panicChan, doneChan, calls, wrote, flushed>>

Handler == Write \/ WriteHeader \/ Flush \/ HandlerEnds
Server == SelectPanic \/ SelectDone \/ SelectTimeout

Next == ServeHTTP \/ CtxEnds \/ Handler \/ Server

\* Both goroutines run; the handler returns or panics in the end.
Fairness ==
    WF_timeoutVars(HandlerEnds) /\ WF_timeoutVars(Server) /\ WF_timeoutVars(CtxEnds)
-----------------------------------------------------------------------------
(* Properties *)

TypeOK ==
    /\ spc \in {"idle", "select", "error", "over", "panicked"}
    /\ hpc \in {"none", "run", "panicking", "end"}
    /\ code \in {0, 500} /\ panicChan \in 0 .. 1 /\ calls \in 0 .. MaxWrites
    /\ {wroteHeader, timedOut, mu, ended, doneChan, flushed} \subseteq BOOLEAN

\* The code goes first, unless it is the one that is sent by itself.
Status == IF code = 0 THEN <<>> ELSE <<code>>

\* The client gets one answer: the code and all that the handler wrote, or the error of the
\* timeout alone, or nothing when the handler panicked first; never a part, nor both, and every
\* write the handler was told had succeeded is in the answer unless the error is.  Flush is
\* excepted.
OneAnswer ==
    spc \in {"over", "panicked"} /\ ~flushed =>
        \/ spc = "over" /\ conn = <<503, 0>>
        \/ spc = "over" /\ doneChan /\ conn = Status \o wrote
        \/ spc = "panicked" /\ conn = <<>>

\* The goroutine of the handler ends although nobody waits for it after the timeout, also
\* when it panics then; and the request is answered.
HandlerReleased == []<>(spc = "idle" \/ (hpc = "end" /\ spc \in {"over", "panicked"}))
=============================================================================
