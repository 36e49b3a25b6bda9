------------------------------ MODULE RingQueue ------------------------------
(***************************************************************************)
(* xx::Queue (xx_queue.h): a FIFO in a ring of slots that is replaced by a *)
(* larger one when the last free slot is taken. A queue is a record; its   *)
(* operations return the queue they leave. A slot in which no element is   *)
(* constructed holds Raw, so that a destructor that runs for a slot that   *)
(* holds nothing, or does not run for one that does, can be seen.          *)
(***************************************************************************)
EXTENDS Integers, Sequences

CONSTANTS Raw,      \* a slot in which nothing is constructed
          Elements  \* what a queue may hold

ASSUME RingAssumption == Raw \notin Elements

Ring(buf, cap, head, tail) == [buf |-> buf, cap |-> cap, head |-> head, tail |-> tail]

NewQueue(cap) == Ring([k \in 0 .. cap - 1 |-> Raw], cap, 0, 0)

Count(q) == IF q.head <= q.tail THEN q.tail - q.head ELSE q.tail + (q.cap - q.head)
Slot(q, i) == IF q.head + i < q.cap THEN q.head + i ELSE q.head + i - q.cap
At(q, i) == q.buf[Slot(q, i)]
Top(q) == q.buf[q.head]

\* The slots from head up to tail, around the end of the buffer.
Window(q) ==
    IF q.head <= q.tail THEN {k \in 0 .. q.cap - 1 : q.head <= k /\ k < q.tail}
    ELSE {k \in 0 .. q.cap - 1 : q.head <= k \/ k < q.tail}

\* Every element of the queue, oldest first.
Contents(q) == [i \in 1 .. Count(q) |-> At(q, i - 1)]

Destroyed(q, slots) == [k \in DOMAIN q.buf |-> IF k \in slots THEN Raw ELSE q.buf[k]]

Clear(q) ==
    IF q.head = q.tail THEN q
    ELSE Ring(Destroyed(q, Window(q)), q.cap, 0, 0)

Stepped(q, k) == IF k + 1 = q.cap THEN 0 ELSE k + 1

\* Reserve(cap * 2, true): every slot is taken, from head around to head.
MovedStraight(q, k) == q.buf[k]
Moved(q, k) == At(q, k)
Grow(q) ==
    Ring([k \in 0 .. 2 * q.cap - 1 |-> IF k < q.cap THEN Moved(q, k) ELSE Raw],
         2 * q.cap, 0, q.cap)

Emplace(q, e) ==
    LET filled == Ring([q.buf EXCEPT ![q.tail] = e], q.cap, q.head, Stepped(q, q.tail))
    IN IF filled.tail = filled.head THEN Grow(filled) ELSE filled

Pop(q) == Ring(Destroyed(q, {q.head}), q.cap, Stepped(q, q.head), q.tail)

\* What "count" calls of Pop leave, one after the other (PopAgain proves it).
PopTimes(q, count) ==
    Ring(Destroyed(q, {Slot(q, i) : i \in 0 .. count - 1}), q.cap, Slot(q, count), q.tail)

\* What PopMulti leaves when count < Count(q): the branch of the code whose
\* elements do not reach around the end of the buffer, and the one whose do.
PopAhead(q, count) ==
    Ring(Destroyed(q, q.head .. (q.head + count - 1)), q.cap, q.head + count, q.tail)
PopAround(q, count) ==
    LET behind == count - (q.cap - q.head)
    IN Ring(Destroyed(q, (q.head .. q.cap - 1) \cup (0 .. behind - 1)), q.cap, behind, q.tail)

PopMulti(q, count) ==
    IF count = 0 THEN q
    ELSE IF count >= Count(q) THEN Clear(q)
    ELSE IF q.head < q.tail \/ count < q.cap - q.head THEN PopAhead(q, count)
    ELSE PopAround(q, count)

-----------------------------------------------------------------------------
(* A sound queue: the indices lie in the buffer, one slot at least is free, *)
(* and elements are constructed in the window and nowhere else.            *)
Sound(q) ==
    /\ q.cap \in Nat /\ q.cap > 1
    /\ q.head \in 0 .. q.cap - 1 /\ q.tail \in 0 .. q.cap - 1
    /\ q = Ring(q.buf, q.cap, q.head, q.tail)
    /\ q.buf \in [0 .. q.cap - 1 -> Elements \cup {Raw}]
    /\ \A k \in 0 .. q.cap - 1 : q.buf[k] \in Elements <=> k \in Window(q)
=============================================================================
