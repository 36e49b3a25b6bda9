------------------------------ MODULE TaskQueue ------------------------------
(***************************************************************************)
(* What a pool of threads promises of the jobs given to it: they start in  *)
(* the order in which they were accepted, each once; a job is refused only *)
(* after the pool was closed; and the pool ends when all is done.          *)
(***************************************************************************)
EXTENDS Sequences, Naturals

CONSTANT Jobs

VARIABLES waiting,   \* accepted jobs that have not started, oldest first
          running,   \* jobs that have started and not returned
          finished,  \* jobs that have returned
          refused,   \* jobs that were turned away
          phase      \* "open", "closed", then "ended"

vars == <<waiting, running, finished, refused, phase>>

Seen == {waiting[k] : k \in 1 .. Len(waiting)} \cup running \cup finished \cup refused

Init ==
    /\ waiting = <<>> /\ running = {} /\ finished = {} /\ refused = {}
    /\ phase = "open"

Accept(j) ==
    /\ phase = "open" /\ j \notin Seen
    /\ waiting' = Append(waiting, j)
    /\ UNCHANGED <<running, finished, refused, phase>>

Refuse(j) ==
    /\ phase = "closed" /\ j \notin Seen
    /\ refused' = refused \cup {j}
    /\ UNCHANGED <<waiting, running, finished, phase>>

Start ==
    /\ waiting # <<>> /\ phase # "ended"
    /\ running' = running \cup {Head(waiting)} /\ waiting' = Tail(waiting)
    /\ UNCHANGED <<finished, refused, phase>>

Finish(j) ==
    /\ j \in running
    /\ running' = running \ {j} /\ finished' = finished \cup {j}
    /\ UNCHANGED <<waiting, refused, phase>>

Close ==
    /\ phase = "open" /\ phase' = "closed"
    /\ UNCHANGED <<waiting, running, finished, refused>>

End ==
    /\ phase = "closed" /\ waiting = <<>> /\ running = {} /\ phase' = "ended"
    /\ UNCHANGED <<waiting, running, finished, refused>>

Next ==
    \/ Start \/ Close \/ End
    \/ \E j \in Jobs : Accept(j) \/ Refuse(j) \/ Finish(j)

Spec == Init /\ [][Next]_vars

=============================================================================
