---------------------------- MODULE TimeoutLimit ----------------------------
(***************************************************************************)
(* core/syncx.TimeoutLimit: a Limit, whose tokens are a buffered channel,  *)
(* and a Cond, an unbuffered channel on which Signal sends only when a     *)
(* goroutine is receiving.  Nothing is locked between the two.             *)
(***************************************************************************)
EXTENDS Naturals, FiniteSets

CONSTANTS
    Borrowers,     \* goroutines that borrow, one token at a time, and return
    Limit          \* tokens

VARIABLES
    borrowed,      \* tokens in l.limit.pool
    bpc,           \* where each borrower is
    missed         \* history: borrowers that were about to wait when Signal found nobody

limitVars == <<borrowed, bpc, missed>>

At(s) == {p \in Borrowers : bpc[p] = s}

Init == borrowed = 0 /\ missed = {} /\ bpc = [p \in Borrowers |-> "idle"]

\* p goes on; what it missed matters no longer once its Borrow is over.
Go(p, s) ==
    /\ bpc' = [bpc EXCEPT ![p] = s]
    /\ missed' = IF s \in {"idle", "has"} THEN missed \ {p} ELSE missed

\* TryBorrow, first of all and after a signal.  A failure leads to (another) wait, or to
\* ErrTimeout when the signal came with the time used up.
Borrow(p) ==
    /\ bpc[p] \in {"idle", "woken"}
    /\ \/ borrowed < Limit /\ borrowed' = borrowed + 1 /\ Go(p, "has")
       \/ /\ borrowed = Limit /\ UNCHANGED borrowed
          /\ Go(p, "enter") \/ (bpc[p] = "woken" /\ Go(p, "idle"))

\* WaitWithTimeout makes a timer and begins to receive.
WaitWithTimeout(p) == bpc[p] = "enter" /\ Go(p, "wait") /\ UNCHANGED borrowed

\* case <-timer.C, and ErrTimeout
Timeout(p) == bpc[p] = "wait" /\ Go(p, "idle") /\ UNCHANGED borrowed

\* l.limit.Return()
Return(p) == bpc[p] = "has" /\ borrowed' = borrowed - 1 /\ Go(p, "signal")

\* Mutant of Signal: it is left out when a token was free anyway.
SignalIfFull(p) ==
    /\ bpc[p] = "signal" /\ UNCHANGED borrowed
    /\ IF borrowed = Limit - 1 /\ At("wait") # {}
       THEN \E q \in At("wait") :
                bpc' = [bpc EXCEPT ![p] = "idle", ![q] = "woken"] /\ UNCHANGED missed
       ELSE bpc' = [bpc EXCEPT ![p] = "idle"] /\ missed' = missed \cup At("enter")

\* l.cond.Signal(): hand over to a waiting goroutine if there is one
Signal(p) ==
    /\ bpc[p] = "signal" /\ UNCHANGED borrowed
    /\ IF At("wait") # {}
       THEN \E q \in At("wait") :
                bpc' = [bpc EXCEPT ![p] = "idle", ![q] = "woken"] /\ UNCHANGED missed
       ELSE bpc' = [bpc EXCEPT ![p] = "idle"] /\ missed' = missed \cup At("enter")

Next ==
    \E p \in Borrowers : Borrow(p) \/ WaitWithTimeout(p) \/ Timeout(p) \/ Return(p) \/ Signal(p)
-----------------------------------------------------------------------------
(* Properties *)

TypeOK ==
    /\ borrowed \in 0 .. Limit /\ missed \subseteq Borrowers
    /\ bpc \in [Borrowers -> {"idle", "enter", "wait", "woken", "has", "signal"}]

\* No signal is lost but to the gap between TryBorrow and the wait: a Borrow that did not miss
\* one there waits only while every free token is matched by a goroutine that is about to
\* signal or was woken, so it times out beside a free token only when others take their time.
WaitsForToken ==
    At("wait") \subseteq missed \/ Limit - borrowed <= Cardinality(At("signal") \cup At("woken"))
=============================================================================
