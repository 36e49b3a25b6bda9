---------------------------- MODULE TimeoutWheel ----------------------------
(***************************************************************************)
(* The timeout wheel of the event loop: ItemTimeout::SetTimeout, its       *)
(* destructor, Context::UpdateTimeoutWheel and the OnTimeout of Timer and  *)
(* Peer (xx_epoll2.hpp:103-191, 1255-1269; xx_timeout.h is the same code). *)
(* A slot holds an intrusive doubly linked list; one frame detaches a      *)
(* whole list and walks it with a saved next pointer while the handlers    *)
(* arm, cancel, create and destroy items.                                  *)
(***************************************************************************)
EXTENDS Integers, FiniteSets

CONSTANTS W,          \* wheel.size(), a power of two
          Items,      \* storage an item may live in; reused after its death
          Nil,
          Timers,     \* items that are a Timer
          Peers,      \* items that are a Peer; the rest leave OnTimeout as they are
          Intervals,  \* bound: the arguments SetTimeout is called with
          Careful     \* handlers keep to what the walk tolerates, see MayTouch

ASSUME WheelAssumption ==
    /\ W \in Nat \ {0} /\ Intervals \subseteq Int /\ Nil \notin Items
    /\ Timers \subseteq Items /\ Peers \subseteq Items /\ Timers \cap Peers = {}
    /\ Careful \in BOOLEAN

VARIABLES
    cursor,
    h,       \* the pointers: wheel heads, and each item's timeoutIndex, Prev, Next
    alive,   \* items whose destructor has not run
    p, np,   \* the walk: the item whose OnTimeout runs, and the saved next one
    left     \* history: frames from now to the deadline last asked for, 0 for none

vars == <<cursor, h, alive, p, np, left>>

Unset == -1
SlotSet == 0 .. W - 1

Init ==
    /\ cursor = 0 /\ alive = {} /\ p = Nil /\ np = Nil
    /\ left = [i \in Items |-> 0]
    /\ h = [head |-> [s \in SlotSet |-> Nil], index |-> [i \in Items |-> Unset],
            prev |-> [i \in Items |-> Nil], next |-> [i \in Items |-> Nil]]

\* The items met from i on along timeoutNext: those in every set that has i and
\* that timeoutNext does not lead out of.
Closed(hp, S) == \A j \in S : hp.next[j] # Nil => hp.next[j] \in S

From(hp, i) ==
    {j \in Items : \A S \in SUBSET Items : (i # Nil => i \in S) /\ Closed(hp, S) => j \in S}

\* The detached list that the walk still has to visit.
Pending == From(h, np)

-----------------------------------------------------------------------------
(* SetTimeout *)

UnlinkForward(hp, i) ==
    LET n == hp.next[i]
        q == hp.prev[i]
    IN IF hp.index[i] = Unset THEN hp
       ELSE IF q = Nil THEN [hp EXCEPT !.head[hp.index[i]] = n]
       ELSE [hp EXCEPT !.next[q] = n]

Unlink(hp, i) ==
    LET n == hp.next[i]
        q == hp.prev[i]
        hn == IF n = Nil THEN hp ELSE [hp EXCEPT !.prev[n] = q]
    IN IF hp.index[i] = Unset THEN hp
       ELSE IF q = Nil THEN [hn EXCEPT !.head[hp.index[i]] = n]
       ELSE [hn EXCEPT !.next[q] = n]

Reset(hp, i) == [hp EXCEPT !.index[i] = Unset, !.prev[i] = Nil, !.next[i] = Nil]

SlotLate(k) == (k + cursor + 1) % W
Slot(k) == (k + cursor) % W

\* The item becomes the head of its new slot's list.
Link(hp, i, k) ==
    LET s == Slot(k)
        n == hp.head[s]
        hn == [hp EXCEPT !.index[i] = s, !.prev[i] = Nil, !.next[i] = n, !.head[s] = i]
    IN IF n = Nil THEN hn ELSE [hn EXCEPT !.prev[n] = i]

\* An interval outside the wheel unlinks the item and leaves its three fields
\* as they were (return -2).
AfterSetTimeout(hp, i, k) ==
    LET u == Unlink(hp, i) IN
    CASE k = 0 -> Reset(u, i)
      [] k < 0 \/ k > W -> u
      [] OTHER -> Link(u, i, k)

\* ~ItemTimeout
DestructorForgetful(hp, i) == hp
Destructor(hp, i) ==
    IF hp.index[i] = Unset THEN hp ELSE AfterSetTimeout(hp, i, 0)

-----------------------------------------------------------------------------
(* What the program does to an item, from a handler or between frames. A   *)
(* careful one leaves alone the items of the list being walked that have   *)
(* not fired yet, and never passes an armed item a bad interval.           *)

MayTouch(i) == i \in alive /\ (Careful => i \notin Pending)

SetTimeout(i, k) ==
    /\ MayTouch(i)
    /\ Careful => k \in 0 .. W \/ h.index[i] = Unset
    /\ h' = AfterSetTimeout(h, i, k)
    /\ left' = [left EXCEPT ![i] = IF k \in 1 .. W THEN k ELSE 0]
    /\ UNCHANGED <<cursor, alive, p, np>>

\* Storage is not reused while a handler still runs in it: the handler's own
\* Ref tells it that its item is gone (ItemPool, RefSafe).
Create(i) ==
    /\ i \notin alive /\ i # p
    /\ alive' = alive \cup {i}
    /\ h' = Reset(h, i)
    /\ UNCHANGED <<cursor, p, np, left>>

Dispose(i) ==
    /\ MayTouch(i)
    /\ alive' = alive \ {i}
    /\ h' = Destructor(h, i)
    /\ left' = [left EXCEPT ![i] = 0]
    /\ UNCHANGED <<cursor, p, np>>

-----------------------------------------------------------------------------
(* UpdateTimeoutWheel *)

\* The loop takes item i: saves its successor, clears its fields, calls it.
Take(hp, i) ==
    /\ p' = i
    /\ np' = IF i = Nil THEN Nil ELSE hp.next[i]
    /\ h' = IF i = Nil THEN hp ELSE Reset(hp, i)

Detach(s) == [h EXCEPT !.head[s] = Nil]

Update ==
    LET c == (cursor + 1) % W IN
    /\ p = Nil
    /\ cursor' = c
    /\ Take(Detach(c), h.head[c])
    /\ left' = [i \in Items |-> IF left[i] = 0 THEN 0 ELSE left[i] - 1]
    /\ UNCHANGED alive

\* A Timer that was not armed again and a Peer in any case dispose of
\* themselves when the callback returns and left them alive.
Doomed(i) ==
    /\ i \in alive
    /\ i \in Peers \/ (i \in Timers /\ h.index[i] = Unset)

HandlerReturns ==
    /\ p # Nil
    /\ alive' = IF Doomed(p) THEN alive \ {p} ELSE alive
    /\ Take(IF Doomed(p) THEN Destructor(h, p) ELSE h, np)
    /\ left' = IF Doomed(p) THEN [left EXCEPT ![p] = 0] ELSE left
    /\ UNCHANGED cursor

Next == \/ Update \/ HandlerReturns
        \/ \E i \in Items : Create(i) \/ Dispose(i)
        \/ \E i \in Items, k \in Intervals : SetTimeout(i, k)

Spec == Init /\ [][Next]_vars

-----------------------------------------------------------------------------
\* The lists: one per slot, and the detached one.
OnSlot(s) == From(h, h.head[s])

\* Every armed item hangs on the list of its slot and on no other, or waits in
\* the detached list of the current slot; lists are linked the same way in both
\* directions; nothing on a list, and not the saved next pointer of the walk,
\* leads to a destroyed or an unarmed item.
ListsSound ==
    /\ \A s \in SlotSet : \A i \in OnSlot(s) :
          /\ i \in alive /\ h.index[i] = s /\ i \notin Pending
          /\ h.prev[i] = Nil <=> i = h.head[s]
    /\ \A i \in Pending : i \in alive /\ h.index[i] = cursor
    /\ \A i \in Items : h.next[i] # Nil /\ i \in alive => h.prev[h.next[i]] = i
    /\ \A i \in alive : h.index[i] # Unset => i \in OnSlot(h.index[i]) \cup Pending
    /\ p # Nil => p \notin Pending

\* UpdateTimeoutWheel calls OnTimeout only on an item that exists and was armed
\* when its turn came: a cancelled timeout stays silent.
FiresOnlyArmed ==
    [][p' # p /\ p' # Nil => p' \in alive /\ h.index[p'] # Unset]_vars

\* SetTimeout(0) on an item that stays alive means it is not called.
CancelledStaysSilent ==
    [][p' # p /\ p' # Nil /\ p' \in alive => h.index[p'] # Unset]_vars

\* An item fires in the frame that SetTimeout asked for, neither a frame nor a
\* turn of the wheel too early or too late: the wheel implements the abstract
\* deadlines.
Promise == INSTANCE Deadlines WITH
    MaxInterval <- W,
    due <- Pending,
    firing <- p
ImplementsDeadlines == Promise!Spec
=============================================================================
