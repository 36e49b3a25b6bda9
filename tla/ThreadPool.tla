------------------------------ MODULE ThreadPool ------------------------------
(***************************************************************************)
(* xx::ThreadPool (xx_threadpool.h), and ThreadPoolEx, which differs only  *)
(* in what it hands to a job. Code under the mutex is one action: a step   *)
(* of Add, one look of a worker, the flag set by the destructor. The calls *)
(* of notify_one and notify_all come after the unlock and are steps of     *)
(* their own; a worker in cond.wait may also wake without a reason.        *)
(***************************************************************************)
EXTENDS Naturals, Sequences, FiniteSets

CONSTANTS Workers,  \* the threads of the pool
          Users,    \* other threads that call Add
          Jobs,     \* jobs that are ever offered, each once
          NoJob

ASSUME ThreadPoolAssumption ==
    /\ IsFiniteSet(Workers) /\ IsFiniteSet(Users) /\ Workers \cap Users = {}
    /\ Workers # {} /\ NoJob \notin Jobs

VARIABLES
    jobs,    \* the queue
    stop,
    at,      \* of each worker: "awake" (about to look, perhaps waiting for the mutex),
             \* "asleep" (in cond.wait), "running" (in a job), "returned"
    job,     \* the job a worker runs
    owing,   \* threads in Add that have unlocked and not called notify_one yet
    owner,   \* the owner of the pool: "using" it, then in the destructor
             \* "stopping" (stop is set), "joining", and "gone"
    done,    \* history: jobs that have returned
    refused  \* history: jobs for which Add returned -1

vars == <<jobs, stop, at, job, owing, owner, done, refused>>

Threads == Workers \cup Users
Queued == {jobs[k] : k \in 1 .. Len(jobs)}
Running == {job[w] : w \in {v \in Workers : at[v] = "running"}}
InState(state) == {w \in Workers : at[w] = state}

Init ==
    /\ jobs = <<>> /\ stop = FALSE
    /\ at = [w \in Workers |-> "awake"] /\ job = [w \in Workers |-> NoJob]
    /\ owing = {} /\ owner = "using" /\ done = {} /\ refused = {}

-----------------------------------------------------------------------------
(* Add, called by a user while the pool lives or by a job *)

MayCall(t) ==
    /\ t \notin owing
    /\ IF t \in Users THEN owner = "using" ELSE at[t] = "running"

OwesIfEmpty(t) == IF jobs = <<>> THEN owing \cup {t} ELSE owing
Owes(t) == owing \cup {t}

Add(t, j) ==
    /\ MayCall(t) /\ ~stop /\ j \notin Queued \cup Running \cup done \cup refused
    /\ jobs' = Append(jobs, j) /\ owing' = Owes(t)
    /\ UNCHANGED <<stop, at, job, owner, done, refused>>

AddRefused(t, j) ==
    /\ MayCall(t) /\ stop /\ j \notin Queued \cup Running \cup done \cup refused
    /\ refused' = refused \cup {j}
    /\ UNCHANGED <<jobs, stop, at, job, owing, owner, done>>

Wake(w) == at' = [at EXCEPT ![w] = "awake"]

NotifyOne(t) ==
    /\ t \in owing /\ owing' = owing \ {t}
    /\ \/ InState("asleep") = {} /\ UNCHANGED at
       \/ \E w \in InState("asleep") : Wake(w)
    /\ UNCHANGED <<jobs, stop, job, owner, done, refused>>

-----------------------------------------------------------------------------
(* A worker *)

LeftAll == jobs
Left == Tail(jobs)

TakeJob(w) ==
    /\ at[w] = "awake" /\ jobs # <<>>
    /\ job' = [job EXCEPT ![w] = Head(jobs)] /\ jobs' = Left
    /\ at' = [at EXCEPT ![w] = "running"]
    /\ UNCHANGED <<stop, owing, owner, done, refused>>

MayReturnAtOnce == stop
MayReturn == stop /\ jobs = <<>>

Return(w) ==
    /\ at[w] = "awake" /\ MayReturn
    /\ at' = [at EXCEPT ![w] = "returned"]
    /\ UNCHANGED <<jobs, stop, job, owing, owner, done, refused>>

Sleep(w) ==
    /\ at[w] = "awake" /\ ~stop /\ jobs = <<>>
    /\ at' = [at EXCEPT ![w] = "asleep"]
    /\ UNCHANGED <<jobs, stop, job, owing, owner, done, refused>>

WakeForNothing(w) ==
    /\ at[w] = "asleep" /\ Wake(w)
    /\ UNCHANGED <<jobs, stop, job, owing, owner, done, refused>>

NextJobKept(w) == job
NextJob(w) == [job EXCEPT ![w] = NoJob]

JobReturns(w) ==
    /\ at[w] = "running" /\ w \notin owing
    /\ Wake(w) /\ job' = NextJob(w) /\ done' = done \cup {job[w]}
    /\ UNCHANGED <<jobs, stop, owing, owner, refused>>

-----------------------------------------------------------------------------
(* ~ThreadPool, when no user is in a call of Add any more *)

Stop ==
    /\ owner = "using" /\ owing \cap Users = {}
    /\ stop' = TRUE /\ owner' = "stopping"
    /\ UNCHANGED <<jobs, at, job, owing, done, refused>>

WokenOne == IF InState("asleep") = {} THEN {} ELSE {CHOOSE w \in InState("asleep") : TRUE}
Woken == InState("asleep")

NotifyAll ==
    /\ owner = "stopping" /\ owner' = "joining"
    /\ at' = [w \in Workers |-> IF w \in Woken THEN "awake" ELSE at[w]]
    /\ UNCHANGED <<jobs, stop, job, owing, done, refused>>

Joined ==
    /\ owner = "joining" /\ InState("returned") = Workers
    /\ owner' = "gone"
    /\ UNCHANGED <<jobs, stop, at, job, owing, done, refused>>

-----------------------------------------------------------------------------

Worker(w) ==
    \/ TakeJob(w) \/ Return(w) \/ Sleep(w) \/ WakeForNothing(w) \/ JobReturns(w)

Next ==
    \/ \E t \in Threads : NotifyOne(t) \/ \E j \in Jobs : Add(t, j) \/ AddRefused(t, j)
    \/ \E w \in Workers : Worker(w)
    \/ Stop \/ NotifyAll \/ Joined

Spec == Init /\ [][Next]_vars

\* Threads are scheduled and get the mutex in the end, and jobs return.
FairSpec ==
    /\ Spec /\ WF_vars(NotifyAll) /\ WF_vars(Joined)
    /\ \A t \in Threads : WF_vars(NotifyOne(t))
    /\ \A w \in Workers : WF_vars(TakeJob(w) \/ Return(w) \/ Sleep(w) \/ JobReturns(w))

-----------------------------------------------------------------------------
(* Properties *)

\* Types; a worker has a job exactly while it runs one, and only threads in Add
\* owe a call of notify_one.
TypeOK ==
    /\ jobs \in Seq(Jobs) /\ stop \in BOOLEAN
    /\ at \in [Workers -> {"awake", "asleep", "running", "returned"}]
    /\ job \in [Workers -> Jobs \cup {NoJob}]
    /\ \A w \in Workers : job[w] = NoJob <=> at[w] # "running"
    /\ owing \subseteq Threads /\ \A w \in owing \cap Workers : at[w] = "running"
    /\ owner \in {"using", "stopping", "joining", "gone"}
    /\ done \subseteq Jobs /\ refused \subseteq Jobs

\* No job waits beside a sleeping worker without a wake-up on its way for it: of a
\* burst of Adds none loses its notify_one (the notify after the unlock).
NoIdleHands ==
    InState("asleep") # {} =>
        Len(jobs) <= Cardinality(owing) + Cardinality(InState("awake"))

\* When the destructor has joined the workers, every accepted job has returned
\* and no thread is left in a call that uses the mutex or the condition.
NothingForgotten ==
    owner = "gone" => jobs = <<>> /\ Running = {} /\ owing = {}

TQ == INSTANCE TaskQueue
      WITH waiting <- jobs, running <- Running, finished <- done,
           phase <- CASE owner = "using" -> "open" [] owner = "gone" -> "ended"
                      [] OTHER -> "closed"

\* Jobs start in the order of their Adds, each once, whichever worker takes them;
\* Add refuses only once the destructor has begun.
ImplementsTaskQueue == TQ!Spec

\* A job that Add accepted runs, whoever was asleep or busy at the time.
EveryJobRuns == \A j \in Jobs : j \in Queued ~> j \in done

\* The destructor returns: no worker sleeps through notify_all.
DestructorEnds == owner = "stopping" ~> owner = "gone"

=============================================================================
