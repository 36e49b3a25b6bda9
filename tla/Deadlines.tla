------------------------------ MODULE Deadlines ------------------------------
(***************************************************************************)
(* What SetTimeout and OnTimeout promise (xx_timeout.h:18): an item armed  *)
(* with k fires at the k-th frame from then, once, unless it is armed      *)
(* again, cancelled or destroyed before. Items due in the same frame fire  *)
(* one after the other, in no promised order.                              *)
(***************************************************************************)
EXTENDS Naturals, FiniteSets

CONSTANTS Items, Nil, MaxInterval

VARIABLES alive,
          left,    \* frames until an item fires, 0 when it is not armed
          due,     \* items of this frame that have not fired yet
          firing   \* the item whose OnTimeout runs, or Nil

vars == <<alive, left, due, firing>>

Init == /\ alive = {} /\ left = [i \in Items |-> 0]
        /\ due = {} /\ firing = Nil

FireOneOf(S) ==
    IF S = {} THEN firing' = Nil /\ due' = {}
              ELSE \E i \in S : firing' = i /\ due' = S \ {i}

Frame ==
    /\ firing = Nil
    /\ left' = [i \in Items |-> IF left[i] = 0 THEN 0 ELSE left[i] - 1]
    /\ FireOneOf({i \in Items : left[i] = 1})
    /\ UNCHANGED alive

\* A handler returns: its item may be destroyed on the way out.
Return ==
    /\ firing # Nil
    /\ \/ UNCHANGED <<alive, left>>
       \/ alive' = alive \ {firing} /\ left' = [left EXCEPT ![firing] = 0]
    /\ FireOneOf(due)

Arm(i, k) ==
    /\ i \in alive
    /\ left' = [left EXCEPT ![i] = k]
    /\ due' = due \ {i}
    /\ UNCHANGED <<alive, firing>>

Create(i) ==
    /\ i \notin alive
    /\ alive' = alive \cup {i}
    /\ UNCHANGED <<left, due, firing>>

Destroy(i) ==
    /\ alive' = alive \ {i}
    /\ left' = [left EXCEPT ![i] = 0]
    /\ due' = due \ {i}
    /\ UNCHANGED firing

Next == \/ Frame \/ Return
        \/ \E i \in Items : Create(i) \/ Destroy(i)
        \/ \E i \in Items, k \in 0 .. MaxInterval : Arm(i, k)

Spec == Init /\ [][Next]_vars
=============================================================================
