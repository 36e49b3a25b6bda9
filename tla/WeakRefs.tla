------------------------------ MODULE WeakRefs ------------------------------
(***************************************************************************)
(* What xx::Epoll::Ref promises its users (xx_epoll2.h:104-157): a weak    *)
(* reference to an object resolves to that object while the object exists, *)
(* and resolves to nothing from the moment its destruction begins.         *)
(***************************************************************************)
EXTENDS Naturals

CONSTANTS Objects,  \* every object the program may ever create
          RefIds    \* the references it holds

Nothing == 0

VARIABLES alive,    \* objects created and not yet being destroyed
          used,     \* objects created so far: an object is created once
          target    \* what each reference resolves to

vars == <<alive, used, target>>

Init == alive = {} /\ used = {} /\ target = [r \in RefIds |-> Nothing]

Create(o) ==
    /\ o \notin used
    /\ used' = used \cup {o}
    /\ alive' = alive \cup {o}
    /\ UNCHANGED target

Destroy(o) ==
    /\ alive' = alive \ {o}
    /\ target' = [r \in RefIds |-> IF target[r] = o THEN Nothing ELSE target[r]]
    /\ UNCHANGED used

Point(r, o) ==
    /\ target' = [target EXCEPT ![r] = o]
    /\ UNCHANGED <<alive, used>>

Next == \/ \E o \in Objects : Create(o)
        \/ \E o \in alive : Destroy(o)
        \/ \E r \in RefIds, o \in alive \cup {Nothing} : Point(r, o)

Spec == Init /\ [][Next]_vars
=============================================================================
