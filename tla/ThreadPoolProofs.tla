--------------------------- MODULE ThreadPoolProofs ---------------------------
(***************************************************************************)
(* Proofs about ThreadPool for any numbers of workers, users and jobs.     *)
(***************************************************************************)
EXTENDS ThreadPool, SequenceTheorems, FiniteSetTheorems, TLAPS

USE ThreadPoolAssumption DEF ThreadPoolAssumption

(* The inductive invariant: the queue and the workers hold different jobs, *)
(* no worker returns before the destructor began and the queue ran empty,  *)
(* and the destructor begins when no user is in Add.                       *)

Distinct ==
    /\ \A k, m \in 1 .. Len(jobs) : jobs[k] = jobs[m] => k = m
    /\ Queued \cap Running = {}
    /\ \A v, w \in InState("running") : job[v] = job[w] => v = w

PhaseInv ==
    /\ stop <=> owner # "using"
    /\ stop => owing \cap Users = {}
    /\ \A w \in Workers : at[w] = "returned" => stop /\ jobs = <<>>
    /\ owner = "gone" => \A w \in Workers : at[w] = "returned"

IInv == TypeOK /\ Distinct /\ PhaseInv

-----------------------------------------------------------------------------
(* The queue *)

\* Add puts one job more into the queue.
LEMMA AddToQueue ==
    ASSUME jobs \in Seq(Jobs), NEW j \in Jobs, jobs' = Append(jobs, j)
    PROVE  /\ jobs' \in Seq(Jobs) /\ jobs' # <<>>
           /\ Len(jobs) \in Nat /\ Len(jobs') = Len(jobs) + 1
           /\ \A k \in 1 .. Len(jobs) : jobs'[k] = jobs[k]
           /\ jobs'[Len(jobs) + 1] = j
           /\ Queued' = Queued \cup {j}
<1>1. /\ jobs' \in Seq(Jobs) /\ jobs' # <<>>
      /\ Len(jobs) \in Nat /\ Len(jobs') = Len(jobs) + 1
      /\ \A k \in 1 .. Len(jobs) : jobs'[k] = jobs[k]
      /\ jobs'[Len(jobs) + 1] = j
    BY AppendProperties, LenProperties
<1>2. Queued' = Queued \cup {j}
    BY <1>1 DEF Queued
<1> QED BY <1>1, <1>2

\* TakeJob takes the oldest job out of it, and that job alone.
LEMMA TakeFromQueue ==
    ASSUME jobs \in Seq(Jobs), jobs # <<>>, jobs' = Tail(jobs),
           \A k, m \in 1 .. Len(jobs) : jobs[k] = jobs[m] => k = m
    PROVE  /\ jobs' \in Seq(Jobs) /\ Head(jobs) \in Jobs
           /\ Len(jobs) \in Nat /\ Len(jobs') = Len(jobs) - 1
           /\ Head(jobs) \in Queued /\ Queued' = Queued \ {Head(jobs)}
           /\ \A k, m \in 1 .. Len(jobs') : jobs'[k] = jobs'[m] => k = m
<1>1. /\ jobs' \in Seq(Jobs) /\ Head(jobs) \in Jobs
      /\ Len(jobs) \in Nat /\ Len(jobs) > 0 /\ Len(jobs') = Len(jobs) - 1
      /\ \A k \in 1 .. Len(jobs') : jobs'[k] = jobs[k + 1]
      /\ Head(jobs) = jobs[1]
    BY HeadTailProperties, LenProperties, EmptySeq
<1>2. Head(jobs) \in Queued
    BY <1>1 DEF Queued
<1>3. Queued' = Queued \ {Head(jobs)}
  <2>1. ASSUME NEW k \in 1 .. Len(jobs') PROVE jobs'[k] \in Queued \ {Head(jobs)}
      BY <1>1, <2>1 DEF Queued
  <2>2. ASSUME NEW k \in 1 .. Len(jobs), jobs[k] # Head(jobs) PROVE jobs[k] \in Queued'
    <3>1. k - 1 \in 1 .. Len(jobs') /\ jobs'[k - 1] = jobs[k]
        BY <1>1, <2>2
    <3> QED BY <3>1 DEF Queued
  <2> QED BY <2>1, <2>2 DEF Queued
<1>4. \A k, m \in 1 .. Len(jobs') : jobs'[k] = jobs'[m] => k = m
    BY <1>1
<1> QED BY <1>1, <1>2, <1>3, <1>4

-----------------------------------------------------------------------------
(* The invariant *)

\* The new pool satisfies the invariant.
LEMMA InitInv == Init => IInv
<1> SUFFICES ASSUME Init PROVE IInv
    OBVIOUS
<1>1. jobs \in Seq(Jobs) /\ Len(jobs) = 0
    BY EmptySeq DEF Init
<1>2. Queued = {} /\ InState("running") = {} /\ Running = {}
    BY <1>1 DEF Init, Queued, InState, Running
<1>3. TypeOK
    BY <1>1 DEF Init, TypeOK
<1>4. Distinct
    BY <1>1, <1>2 DEF Distinct
<1>5. PhaseInv
    BY DEF Init, PhaseInv
<1> QED
    BY <1>3, <1>4, <1>5 DEF IInv

\* Every step of a thread keeps the types.
LEMMA NextType == IInv /\ [Next]_vars => TypeOK'
<1> SUFFICES ASSUME IInv, [Next]_vars PROVE TypeOK'
    OBVIOUS
<1> USE DEF IInv, TypeOK, Threads
<1>1. ASSUME NEW t \in Threads, NotifyOne(t) PROVE TypeOK'
    BY <1>1 DEF NotifyOne, Wake, InState
<1>2. ASSUME NEW t \in Threads, NEW j \in Jobs, Add(t, j) PROVE TypeOK'
    BY <1>2, AddToQueue DEF Add, MayCall, Owes
<1>3. ASSUME NEW t \in Threads, NEW j \in Jobs, AddRefused(t, j) PROVE TypeOK'
    BY <1>3 DEF AddRefused
<1>4. ASSUME NEW w \in Workers, TakeJob(w) PROVE TypeOK'
  <2>1. jobs' \in Seq(Jobs) /\ Head(jobs) \in Jobs
      BY <1>4, TakeFromQueue DEF TakeJob, Left, Distinct
  <2> QED BY <1>4, <2>1 DEF TakeJob
<1>5. ASSUME NEW w \in Workers, Return(w) PROVE TypeOK'
    BY <1>5 DEF Return
<1>6. ASSUME NEW w \in Workers, Sleep(w) PROVE TypeOK'
    BY <1>6 DEF Sleep
<1>7. ASSUME NEW w \in Workers, WakeForNothing(w) PROVE TypeOK'
    BY <1>7 DEF WakeForNothing, Wake
<1>8. ASSUME NEW w \in Workers, JobReturns(w) PROVE TypeOK'
    BY <1>8 DEF JobReturns, Wake, NextJob
<1>9. CASE Stop
    BY <1>9 DEF Stop
<1>10. CASE NotifyAll
    BY <1>10 DEF NotifyAll, Woken, InState
<1>11. CASE Joined
    BY <1>11 DEF Joined
<1>12. CASE UNCHANGED vars
    BY <1>12 DEF vars
<1> QED
    BY <1>1, <1>2, <1>3, <1>4, <1>5, <1>6, <1>7, <1>8, <1>9, <1>10, <1>11, <1>12
    DEF Next, Worker

\* No step puts a job in two places.
LEMMA NextDistinct == IInv /\ [Next]_vars => Distinct'
<1> SUFFICES ASSUME IInv, [Next]_vars PROVE Distinct'
    OBVIOUS
<1> USE DEF IInv, TypeOK, Distinct, Threads
<1>1. ASSUME NEW t \in Threads, NotifyOne(t) PROVE Distinct'
  <2>1. /\ jobs' = jobs /\ job' = job
        /\ InState("running")' = InState("running") /\ Running' = Running
      BY <1>1 DEF NotifyOne, Wake, Running, InState
  <2> QED BY <2>1 DEF Queued
<1>2. ASSUME NEW t \in Threads, NEW j \in Jobs, Add(t, j) PROVE Distinct'
  <2>1. Running' = Running /\ InState("running")' = InState("running") /\ job' = job
      BY <1>2 DEF Add, Running, InState
  <2>2. j \notin Queued \cup Running
      BY <1>2 DEF Add
  <2>3. \A k, m \in 1 .. Len(jobs') : jobs'[k] = jobs'[m] => k = m
      BY <1>2, <2>2, AddToQueue DEF Add, Queued
  <2>4. Queued' \cap Running' = {}
      BY <1>2, <2>1, <2>2, AddToQueue DEF Add
  <2> QED BY <2>1, <2>3, <2>4
<1>3. ASSUME NEW t \in Threads, NEW j \in Jobs, AddRefused(t, j) PROVE Distinct'
    BY <1>3 DEF AddRefused, Queued, Running, InState
<1>4. ASSUME NEW w \in Workers, TakeJob(w) PROVE Distinct'
  <2> DEFINE h == Head(jobs)
  <2>1. /\ h \in Queued /\ Queued' = Queued \ {h}
        /\ \A k, m \in 1 .. Len(jobs') : jobs'[k] = jobs'[m] => k = m
      BY <1>4, TakeFromQueue DEF TakeJob, Left
  <2>2. /\ at[w] # "running" /\ job'[w] = h
        /\ InState("running")' = InState("running") \cup {w}
        /\ \A v \in InState("running") : v # w /\ job'[v] = job[v]
      BY <1>4 DEF TakeJob, InState
  <2>3. Running' = Running \cup {h}
      BY <2>2 DEF Running, InState
  <2>4. \A v \in InState("running") : job[v] # h
      BY <2>1 DEF Running, InState
  <2>5. Queued' \cap Running' = {}
      BY <2>1, <2>3
  <2>6. \A u, v \in InState("running")' : job'[u] = job'[v] => u = v
      BY <2>2, <2>4
  <2> QED BY <2>1, <2>5, <2>6
<1>5. ASSUME NEW w \in Workers, Return(w) PROVE Distinct'
    BY <1>5 DEF Return, Queued, Running, InState
<1>6. ASSUME NEW w \in Workers, Sleep(w) PROVE Distinct'
    BY <1>6 DEF Sleep, Queued, Running, InState
<1>7. ASSUME NEW w \in Workers, WakeForNothing(w) PROVE Distinct'
    BY <1>7 DEF WakeForNothing, Wake, Queued, Running, InState
<1>8. ASSUME NEW w \in Workers, JobReturns(w) PROVE Distinct'
    BY <1>8 DEF JobReturns, Wake, NextJob, Queued, Running, InState
<1>9. CASE Stop
    BY <1>9 DEF Stop, Queued, Running, InState
<1>10. CASE NotifyAll
    BY <1>10 DEF NotifyAll, Woken, Queued, Running, InState
<1>11. CASE Joined
    BY <1>11 DEF Joined, Queued, Running, InState
<1>12. CASE UNCHANGED vars
    BY <1>12 DEF vars, Queued, Running, InState
<1> QED
    BY <1>1, <1>2, <1>3, <1>4, <1>5, <1>6, <1>7, <1>8, <1>9, <1>10, <1>11, <1>12
    DEF Next, Worker

\* No step brings a worker's return or the owner's departure too early.
LEMMA NextPhase == IInv /\ [Next]_vars => PhaseInv'
<1> SUFFICES ASSUME IInv, [Next]_vars PROVE PhaseInv'
    OBVIOUS
<1> USE DEF IInv, TypeOK, PhaseInv, Threads
<1>1. ASSUME NEW t \in Threads, NotifyOne(t) PROVE PhaseInv'
    BY <1>1 DEF NotifyOne, Wake, InState
<1>2. ASSUME NEW t \in Threads, NEW j \in Jobs, Add(t, j) PROVE PhaseInv'
    BY <1>2 DEF Add, MayCall, Owes
<1>3. ASSUME NEW t \in Threads, NEW j \in Jobs, AddRefused(t, j) PROVE PhaseInv'
    BY <1>3 DEF AddRefused
<1>4. ASSUME NEW w \in Workers, TakeJob(w) PROVE PhaseInv'
    BY <1>4 DEF TakeJob
<1>5. ASSUME NEW w \in Workers, Return(w) PROVE PhaseInv'
    BY <1>5 DEF Return, MayReturn
<1>6. ASSUME NEW w \in Workers, Sleep(w) PROVE PhaseInv'
    BY <1>6 DEF Sleep
<1>7. ASSUME NEW w \in Workers, WakeForNothing(w) PROVE PhaseInv'
    BY <1>7 DEF WakeForNothing, Wake
<1>8. ASSUME NEW w \in Workers, JobReturns(w) PROVE PhaseInv'
    BY <1>8 DEF JobReturns, Wake
<1>9. CASE Stop
    BY <1>9 DEF Stop
<1>10. CASE NotifyAll
    BY <1>10 DEF NotifyAll, Woken, InState
<1>11. CASE Joined
    BY <1>11 DEF Joined, InState
<1>12. CASE UNCHANGED vars
    BY <1>12 DEF vars
<1> QED
    BY <1>1, <1>2, <1>3, <1>4, <1>5, <1>6, <1>7, <1>8, <1>9, <1>10, <1>11, <1>12
    DEF Next, Worker

\* The invariant holds throughout.
THEOREM PoolInvariant == Spec => []IInv
<1>1. IInv /\ [Next]_vars => IInv'
    BY NextType, NextDistinct, NextPhase DEF IInv
<1> QED BY InitInv, <1>1, PTL DEF Spec

\* The variables of the pool keep their types, and a worker has a job exactly
\* while it runs one.
THEOREM TypeCorrect == Spec => []TypeOK
<1>1. IInv => TypeOK
    BY DEF IInv
<1> QED BY <1>1, PoolInvariant, PTL

\* When the destructor ends, every accepted job has returned and no thread is in
\* a call that uses the pool.
THEOREM DestructorForgetsNothing == Spec => []NothingForgotten
<1>1. ASSUME IInv, owner = "gone" PROVE jobs = <<>> /\ Running = {} /\ owing = {}
  <2>1. \A w \in Workers : at[w] = "returned"
      BY <1>1 DEF IInv, PhaseInv
  <2>2. PICK w \in Workers : TRUE
      OBVIOUS
  <2>3. jobs = <<>> /\ stop
      BY <1>1, <2>1, <2>2 DEF IInv, PhaseInv
  <2>4. Running = {}
      BY <2>1 DEF Running
  <2>5. owing = {}
      BY <1>1, <2>1, <2>3 DEF IInv, TypeOK, PhaseInv, Threads
  <2> QED BY <2>3, <2>4, <2>5
<1>2. IInv => NothingForgotten
    BY <1>1 DEF NothingForgotten
<1> QED BY <1>2, PoolInvariant, PTL

-----------------------------------------------------------------------------
(* Wake-ups *)

\* What NoIdleHands counts is finite.
LEMMA Finite ==
    ASSUME TypeOK
    PROVE  /\ IsFiniteSet(owing) /\ Cardinality(owing) \in Nat
           /\ \A state : IsFiniteSet(InState(state)) /\ Cardinality(InState(state)) \in Nat
           /\ Len(jobs) \in Nat
<1>1. IsFiniteSet(Threads)
    BY FS_Union DEF Threads
<1>2. owing \in SUBSET Threads
    BY DEF TypeOK
<1>3. IsFiniteSet(owing) /\ Cardinality(owing) \in Nat
    BY <1>1, <1>2, FS_Subset, FS_CardinalityType
<1>4. ASSUME NEW state
      PROVE IsFiniteSet(InState(state)) /\ Cardinality(InState(state)) \in Nat
  <2>1. InState(state) \in SUBSET Workers
      BY DEF InState
  <2> QED BY <2>1, FS_Subset, FS_CardinalityType
<1> QED BY <1>3, <1>4, LenProperties DEF TypeOK

\* Every step keeps as many wake-ups on their way as there are jobs, as long as
\* a worker sleeps.
LEMMA NextIdle == IInv /\ TypeOK' /\ NoIdleHands /\ [Next]_vars => NoIdleHands'
<1> SUFFICES ASSUME IInv, TypeOK', NoIdleHands, [Next]_vars PROVE NoIdleHands'
    OBVIOUS
<1> DEFINE awake == InState("awake")
           asleep == InState("asleep")
<1>a. /\ IsFiniteSet(owing) /\ Cardinality(owing) \in Nat
      /\ IsFiniteSet(awake) /\ Cardinality(awake) \in Nat /\ Len(jobs) \in Nat
    BY Finite DEF IInv
<1>b. ASSUME NEW w \in Workers, at[w] # "awake", at' = [at EXCEPT ![w] = "awake"]
      PROVE  /\ awake' = awake \cup {w} /\ Cardinality(awake') = Cardinality(awake) + 1
             /\ asleep' \subseteq asleep
  <2>1. awake' = awake \cup {w} /\ w \notin awake /\ asleep' \subseteq asleep
      BY <1>b DEF InState, IInv, TypeOK
  <2> QED BY <2>1, <1>a, FS_AddElement
<1>c. ASSUME UNCHANGED <<jobs, owing, at>> PROVE NoIdleHands'
    BY <1>c DEF NoIdleHands, InState
<1>d. ASSUME jobs' = <<>> PROVE NoIdleHands'
  <2>1. Len(jobs') = 0
      BY <1>d, EmptySeq
  <2>2. Cardinality(owing') \in Nat /\ Cardinality(awake') \in Nat
    <3>1. IsFiniteSet(Threads) /\ owing' \in SUBSET Threads /\ awake' \in SUBSET Workers
        BY FS_Union DEF Threads, TypeOK, InState
    <3> QED BY <3>1, FS_Subset, FS_CardinalityType
  <2> QED BY <2>1, <2>2 DEF NoIdleHands
<1>1. ASSUME NEW t \in Threads, NotifyOne(t) PROVE NoIdleHands'
  <2>1. Cardinality(owing') = Cardinality(owing) - 1
      BY <1>1, <1>a, FS_RemoveElement DEF NotifyOne
  <2>2. CASE asleep = {} /\ UNCHANGED at
      BY <2>2 DEF NoIdleHands, InState
  <2>3. CASE \E w \in asleep : Wake(w)
    <3>1. PICK w \in asleep : Wake(w)
        BY <2>3
    <3>2. Cardinality(awake') = Cardinality(awake) + 1 /\ asleep # {}
        BY <1>b, <3>1 DEF Wake, InState
    <3>3. jobs' = jobs
        BY <1>1 DEF NotifyOne
    <3> HIDE DEF awake
    <3>4. Len(jobs) <= Cardinality(owing) + Cardinality(awake)
        BY <3>2 DEF NoIdleHands, awake
    <3>5. Len(jobs') <= Cardinality(owing') + Cardinality(awake')
        BY <1>a, <2>1, <3>2, <3>3, <3>4
    <3> QED BY <3>5 DEF NoIdleHands, awake
  <2> QED BY <1>1, <2>2, <2>3 DEF NotifyOne
<1>2. ASSUME NEW t \in Threads, NEW j \in Jobs, Add(t, j) PROVE NoIdleHands'
  <2>1. /\ Cardinality(owing') = Cardinality(owing) + 1
        /\ Len(jobs') = Len(jobs) + 1 /\ at' = at
      BY <1>2, <1>a, FS_AddElement, AddToQueue DEF Add, MayCall, Owes, IInv, TypeOK
  <2> QED BY <1>a, <2>1 DEF NoIdleHands, InState
<1>3. ASSUME NEW t \in Threads, NEW j \in Jobs, AddRefused(t, j) PROVE NoIdleHands'
    BY <1>3, <1>c DEF AddRefused
<1>4. ASSUME NEW w \in Workers, TakeJob(w) PROVE NoIdleHands'
  <2>1. Len(jobs') = Len(jobs) - 1 /\ owing' = owing
      BY <1>4, TakeFromQueue DEF TakeJob, Left, IInv, TypeOK, Distinct
  <2>2. awake' = awake \ {w} /\ w \in awake /\ asleep' = asleep
      BY <1>4 DEF TakeJob, InState, IInv, TypeOK
  <2>3. Cardinality(awake') = Cardinality(awake) - 1
      BY <1>a, <2>2, FS_RemoveElement
  <2> QED BY <1>a, <2>1, <2>2, <2>3 DEF NoIdleHands
<1>5. ASSUME NEW w \in Workers, Return(w) PROVE NoIdleHands'
    BY <1>5, <1>d DEF Return, MayReturn
<1>6. ASSUME NEW w \in Workers, Sleep(w) PROVE NoIdleHands'
    BY <1>6, <1>d DEF Sleep
<1>7. ASSUME NEW w \in Workers, WakeForNothing(w) PROVE NoIdleHands'
  <2>1. Cardinality(awake') = Cardinality(awake) + 1 /\ asleep' \subseteq asleep
      BY <1>7, <1>b DEF WakeForNothing, Wake
  <2> QED BY <1>7, <1>a, <2>1 DEF WakeForNothing, NoIdleHands
<1>8. ASSUME NEW w \in Workers, JobReturns(w) PROVE NoIdleHands'
  <2>1. Cardinality(awake') = Cardinality(awake) + 1 /\ asleep' \subseteq asleep
      BY <1>8, <1>b DEF JobReturns, Wake
  <2> QED BY <1>8, <1>a, <2>1 DEF JobReturns, NoIdleHands
<1>9. CASE Stop
    BY <1>9, <1>c DEF Stop
<1>10. CASE NotifyAll
  <2>1. asleep' = {}
      BY <1>10 DEF NotifyAll, Woken, InState
  <2> QED BY <2>1 DEF NoIdleHands
<1>11. CASE Joined
    BY <1>11, <1>c DEF Joined
<1>12. CASE UNCHANGED vars
    BY <1>12, <1>c DEF vars
<1> QED
    BY <1>1, <1>2, <1>3, <1>4, <1>5, <1>6, <1>7, <1>8, <1>9, <1>10, <1>11, <1>12
    DEF Next, Worker

\* No job waits beside a sleeping worker without a wake-up on its way for it.
THEOREM NoWakeUpIsLost == Spec => []NoIdleHands
<1>1. Init => NoIdleHands
    BY DEF Init, NoIdleHands, InState
<1> QED BY <1>1, NextIdle, TypeCorrect, PoolInvariant, PTL DEF Spec

-----------------------------------------------------------------------------
(* The abstract queue *)

\* Every step of a thread is a step of the abstract queue or leaves it as it is.
LEMMA NextRefines == IInv /\ [Next]_vars => [TQ!Next]_(TQ!vars)
<1> SUFFICES ASSUME IInv, [Next]_vars PROVE [TQ!Next]_(TQ!vars)
    OBVIOUS
<1> USE DEF IInv, TypeOK, Distinct, PhaseInv, Threads
<1>a. TQ!Seen = Queued \cup Running \cup done \cup refused
    BY DEF TQ!Seen, Queued
<1>b. ASSUME UNCHANGED <<jobs, owner, done, refused>>, Running' = Running
      PROVE  [TQ!Next]_(TQ!vars)
    BY <1>b DEF TQ!vars
<1>1. ASSUME NEW t \in Threads, NotifyOne(t) PROVE [TQ!Next]_(TQ!vars)
    BY <1>1, <1>b DEF NotifyOne, Wake, Running, InState
<1>2. ASSUME NEW t \in Threads, NEW j \in Jobs, Add(t, j) PROVE [TQ!Next]_(TQ!vars)
  <2>1. Running' = Running /\ owner = "using"
      BY <1>2 DEF Add, MayCall, Running
  <2>2. TQ!Accept(j)
      BY <1>2, <1>a, <2>1 DEF Add, TQ!Accept
  <2> QED BY <2>2 DEF TQ!Next
<1>3. ASSUME NEW t \in Threads, NEW j \in Jobs, AddRefused(t, j) PROVE [TQ!Next]_(TQ!vars)
  <2>1. Running' = Running /\ owner \notin {"using", "gone"}
      BY <1>3 DEF AddRefused, MayCall, Running
  <2>2. TQ!Refuse(j)
      BY <1>3, <1>a, <2>1 DEF AddRefused, TQ!Refuse
  <2> QED BY <2>2 DEF TQ!Next
<1>4. ASSUME NEW w \in Workers, TakeJob(w) PROVE [TQ!Next]_(TQ!vars)
  <2>1. Running' = Running \cup {Head(jobs)}
      BY <1>4 DEF TakeJob, Running
  <2>2. owner # "gone"
      BY <1>4 DEF TakeJob
  <2>3. TQ!Start
      BY <1>4, <2>1, <2>2 DEF TakeJob, Left, TQ!Start
  <2> QED BY <2>3 DEF TQ!Next
<1>5. ASSUME NEW w \in Workers, Return(w) PROVE [TQ!Next]_(TQ!vars)
    BY <1>5, <1>b DEF Return, Running
<1>6. ASSUME NEW w \in Workers, Sleep(w) PROVE [TQ!Next]_(TQ!vars)
    BY <1>6, <1>b DEF Sleep, Running
<1>7. ASSUME NEW w \in Workers, WakeForNothing(w) PROVE [TQ!Next]_(TQ!vars)
    BY <1>7, <1>b DEF WakeForNothing, Wake, Running
<1>8. ASSUME NEW w \in Workers, JobReturns(w) PROVE [TQ!Next]_(TQ!vars)
  <2>1. job[w] \in Running /\ job[w] \in Jobs
      BY <1>8 DEF JobReturns, Running
  <2>2. Running' = Running \ {job[w]}
      BY <1>8 DEF JobReturns, Wake, NextJob, Running, InState
  <2>3. TQ!Finish(job[w])
      BY <1>8, <2>1, <2>2 DEF JobReturns, TQ!Finish
  <2> QED BY <2>1, <2>3 DEF TQ!Next
<1>9. CASE Stop
  <2>1. TQ!Close
      BY <1>9 DEF Stop, Running, TQ!Close
  <2> QED BY <2>1 DEF TQ!Next
<1>10. CASE NotifyAll
    BY <1>10 DEF NotifyAll, Woken, Running, InState, TQ!vars
<1>11. CASE Joined
  <2>1. \A w \in Workers : at[w] = "returned"
      BY <1>11 DEF Joined, InState
  <2>2. jobs = <<>> /\ Running = {}
      BY <2>1 DEF Running
  <2>3. TQ!End
      BY <1>11, <2>2 DEF Joined, Running, TQ!End
  <2> QED BY <2>3 DEF TQ!Next
<1>12. CASE UNCHANGED vars
    BY <1>12, <1>b DEF vars, Running
<1> QED
    BY <1>1, <1>2, <1>3, <1>4, <1>5, <1>6, <1>7, <1>8, <1>9, <1>10, <1>11, <1>12
    DEF Next, Worker

\* The pool implements the abstract queue: jobs start in the order of their Adds,
\* each once, and are refused only once the destructor has begun.
THEOREM PoolIsAQueue == Spec => ImplementsTaskQueue
<1>1. Init => TQ!Init
    BY DEF Init, Running, TQ!Init
<1> QED BY <1>1, NextRefines, PoolInvariant, PTL DEF Spec, ImplementsTaskQueue, TQ!Spec

=============================================================================
