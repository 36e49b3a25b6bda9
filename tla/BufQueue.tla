------------------------------- MODULE BufQueue -------------------------------
(***************************************************************************)
(* xx::BufQueue (xx_buf_queue.h): a ring of buffers from which bytes are   *)
(* popped. A byte is named by its position in the stream of all bytes ever *)
(* pushed; a buffer is the position before its first byte and its length.  *)
(***************************************************************************)
EXTENDS RingQueue, SequencesExt

CONSTANT VsCap  \* UIO_MAXIOV, the entries of the vector that Fill fills

ASSUME BufAssumption == VsCap \in Nat \ {0}

NewBufQueue(cap) == [q |-> NewQueue(cap), bytes |-> 0, offset |-> 0]

ClearBytes(b) == [q |-> Clear(b.q), bytes |-> 0, offset |-> 0]

Push(b, e) == [b EXCEPT !.q = Emplace(b.q, e), !.bytes = @ + e.len]

\* How many bytes of the first i buffers are still queued, as the loops of Pop
\* and Fill add them up.
UpTo(b, n) ==
    LET upTo[i \in 0 .. n] ==
            IF i = 0 THEN 0
            ELSE IF i = 1 THEN Top(b.q).len - b.offset
            ELSE upTo[i - 1] + At(b.q, i - 1).len
    IN upTo

\* The loop of Pop(bufLen): whole buffers while they are not longer than what
\* is left to pop, then a part of the next.
PopBuffers(b, n) ==
    LET count == Count(b.q)
        upTo == UpTo(b, count)
        whole == CHOOSE i \in 0 .. count - 1 : upTo[i] <= n /\ n < upTo[i + 1]
    IN [b EXCEPT !.q = PopTimes(b.q, whole),
                 !.offset = (IF whole = 0 THEN @ ELSE 0) + n - upTo[whole]]

PopBytes(b, n) ==
    IF n = 0 THEN b
    ELSE IF n >= b.bytes THEN ClearBytes(b)
    ELSE PopBuffers([b EXCEPT !.bytes = @ - n], n)

\* Pop(vsLen, offset, bufLen), after a write of all that Fill planned.
PopPlannedKeepsOffset(b, plan) ==
    [q |-> PopMulti(b.q, plan.vsLen), bytes |-> b.bytes - plan.bufLen, offset |-> b.offset]
PopPlanned(b, plan) ==
    IF plan.vsLen = 1 /\ Top(b.q).len > b.offset + plan.bufLen
    THEN [b EXCEPT !.bytes = @ - plan.bufLen, !.offset = plan.offset + plan.bufLen]
    ELSE [q |-> PopMulti(b.q, plan.vsLen), bytes |-> b.bytes - plan.bufLen, offset |-> plan.offset]

\* The positions of the bytes that are queued, in the order they are written.
Unsent(b) ==
    FlattenSeq([i \in 1 .. Count(b.q) |->
        LET from == IF i = 1 THEN b.offset ELSE 0 IN
        [k \in 1 .. At(b.q, i - 1).len - from |-> At(b.q, i - 1).at + from + k]])

\* Fill: what one writev is to send. "limit" is the length asked for, "ask" the
\* sum of the iov_len that it sets, "set" the entries that it sets, and vsLen
\* the entries that writev is told of.
Plan(vsLen, set, bufLen, ask, offset) ==
    [vsLen |-> vsLen, set |-> set, bufLen |-> bufLen, ask |-> ask, offset |-> offset]

Fill(b, limit) ==
    LET bufLen == IF limit > b.bytes THEN b.bytes ELSE limit
        cap == IF VsCap < Count(b.q) THEN VsCap ELSE Count(b.q)
        upTo == UpTo(b, cap)
        enough == {i \in 1 .. cap : upTo[i] >= bufLen}
        last == CHOOSE i \in enough : \A j \in enough : i <= j
    IN IF enough = {} THEN Plan(VsCap, cap, upTo[cap], upTo[cap], 0)
       ELSE IF last = 1 /\ upTo[1] > bufLen THEN Plan(1, 1, bufLen, upTo[1], b.offset + bufLen)
       ELSE IF last = 1 THEN Plan(1, 1, bufLen, bufLen, 0)
       ELSE IF upTo[last] > bufLen THEN Plan(last, last, bufLen, bufLen, bufLen - upTo[last - 1])
       ELSE Plan(VsCap, last, bufLen, bufLen, 0)
=============================================================================
