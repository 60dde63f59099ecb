--------------------------- MODULE RollingWindow ---------------------------
(***************************************************************************)
(* core/collection.RollingWindow: a ring of buckets of one interval each.  *)
(* A bucket is the set of additions it counts.  Add reads the clock twice, *)
(* for span and for lastTime, and time may pass between the two.           *)
(***************************************************************************)
EXTENDS Naturals

CONSTANTS
    Size,          \* buckets
    Interval,      \* length of a bucket
    MaxTime        \* bounds the clock

VARIABLES
    now, lastTime, offset, buckets,
    added,         \* history: all additions
    slips          \* history: boundaries that passed between the two reads of Add

windowVars == <<now, lastTime, offset, buckets, added, slips>>

Init ==
    /\ now = 0 /\ lastTime = 0 /\ offset = 0 /\ slips = 0 /\ added = {}
    /\ buckets = [b \in 0 .. Size - 1 |-> {}]

\* span: whole intervals since lastTime, at most Size
Span(t) == IF (t - lastTime) \div Interval < Size THEN (t - lastTime) \div Interval ELSE Size

\* The buckets that updateOffset resets
Expired(span) == {(offset + i) % Size : i \in 1 .. span}

\* Mutant of Align: the bucket begins now.
AlignToNow(t) == t

\* now - (now - rw.lastTime) % rw.interval
Align(t) == t - ((t - lastTime) % Interval)

\* Add: updateOffset with clock reads now and t, and add.  An addition is known by its bucket
\* on the time line and by the slips before it.
Add(t) ==
    LET span == Span(now)
        o == (offset + span) % Size
        last == IF span = 0 THEN lastTime ELSE Align(t)
        slip == IF span = 0 THEN 0 ELSE t \div Interval - now \div Interval
        v == [at |-> IF span = 0 THEN now \div Interval ELSE t \div Interval, slips |-> slips + slip]
    IN  /\ now' = t /\ offset' = o /\ lastTime' = last /\ slips' = slips + slip
        /\ added' = added \cup {v}
        /\ buckets' = [b \in DOMAIN buckets |->
               (IF b \in Expired(span) THEN {} ELSE buckets[b]) \cup (IF b = o THEN {v} ELSE {})]

\* The buckets Reduce gives to fn, with and without IgnoreCurrentBucket
Reduced(ignoreCurrent) ==
    LET span == Span(now)
        diff == IF span = 0 /\ ignoreCurrent THEN Size - 1 ELSE Size - span
    IN  UNION {buckets[(offset + span + 1 + i) % Size] : i \in 0 .. diff - 1}

Tick == now' = now + 1 /\ UNCHANGED <<lastTime, offset, buckets, added, slips>>

Next == now < MaxTime /\ (Tick \/ \E t \in now .. MaxTime : Add(t))
-----------------------------------------------------------------------------
(* Properties *)

TypeOK ==
    /\ now \in 0 .. MaxTime /\ lastTime \in 0 .. now /\ offset \in DOMAIN buckets
    /\ buckets \in [0 .. Size - 1 -> SUBSET [at : 0 .. MaxTime, slips : 0 .. MaxTime]]

\* Age of an addition in intervals; a slip makes everything before it look younger.
Age(v) == now \div Interval - v.at - (slips - v.slips)

\* Reduce counts an addition exactly when it lies in the last Size intervals, the current one
\* included unless it is to be ignored: none is kept beyond the window or dropped too soon,
\* however long the window was idle.  A boundary that passes inside Add keeps the additions
\* before it in the window for that much longer, never shorter.
WindowExact ==
    \A v \in added, ignore \in BOOLEAN :
        v \in Reduced(ignore) <=> Age(v) \in (IF ignore THEN 1 ELSE 0) .. Size - 1
=============================================================================
