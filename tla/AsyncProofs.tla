---------------------------- MODULE AsyncProofs ----------------------------
(***************************************************************************)
(* Proofs about AsyncProxy, for any pool of threads, any jobs and either   *)
(* build: the types, and that a job in the queue is never left to the      *)
(* timeout of a wait.  The invariant also says who holds the lock: a       *)
(* worker that reads the count without it can only miss a job while        *)
(* another thread is in the queue, and that thread signals or counts when  *)
(* it is out.                                                              *)
(***************************************************************************)
EXTENDS AsyncProxy, Naturals, TLAPS

LockHeld ==
  /\ lock = Server <=> server = "adding"
  /\ \A w \in Workers : lock = w <=> pc[w] \in {"front", "pop"}

JobInHand ==
  /\ server = "adding" => posting \in Jobs
  /\ \A w \in Workers : pc[w] \in {"pop", "run"} => job[w] \in Jobs
  /\ \A w \in Workers : pc[w] = "pop" => waitQueue # <<>>

IInv == TypeOK /\ LockHeld /\ JobInHand /\ WakePending

LEMMA InitInv == Init => IInv
<1> SUFFICES ASSUME Init PROVE IInv
  OBVIOUS
<1>1. auto \in BOOLEAN
  BY ResetsAssumption DEF Init
<1>2. shutdown \in BOOLEAN /\ fetch \in BOOLEAN
  BY DEF Init
<1>3. /\ waitQueue \in Seq(Jobs) /\ resultQueue \in Seq(Jobs) /\ collected \in SUBSET Jobs
      /\ lock \in Workers \cup {Server, NoOne}
      /\ pc \in [Workers -> WorkerStates]
      /\ job \in [Workers -> Jobs \cup {NoJob}]
      /\ server \in ServerStates /\ posting \in Jobs \cup {NoJob}
  BY DEF Init, WorkerStates, ServerStates
<1>4. LockHeld /\ JobInHand /\ WakePending
  BY WorkersAssumption DEF Init, LockHeld, JobInHand, WakePending
<1>5. QED
  BY <1>1, <1>2, <1>3, <1>4 DEF IInv, TypeOK

\* The server's steps.
LEMMA ServerInv ==
  ASSUME IInv, (\E j \in Jobs : PostLock(j)) \/ ServerStep \/ Destroy
  PROVE  IInv'
<1> USE DEF IInv, TypeOK, LockHeld, JobInHand, WakePending, ServerStates, queues, events
<1>1. ASSUME NEW j \in Jobs, PostLock(j) PROVE IInv'
  BY <1>1, WorkersAssumption DEF PostLock
<1>2. CASE PostAdd
  <2>1. /\ posting \in Jobs /\ waitQueue \in Seq(Jobs)
        /\ waitQueue' = Append(waitQueue, posting)
    BY <1>2 DEF PostAdd
  <2>2. waitQueue' \in Seq(Jobs) /\ waitQueue' # <<>>
    BY <2>1
  <2>3. QED
    BY <1>2, <2>2, WorkersAssumption DEF PostAdd
<1>3. CASE PostSet
  BY <1>3, WorkersAssumption DEF PostSet
<1>4. CASE Collect
  BY <1>4 DEF Collect
<1>5. CASE Destroy
  BY <1>5, WorkersAssumption DEF Destroy
<1>6. QED
  BY <1>1, <1>2, <1>3, <1>4, <1>5 DEF ServerStep

\* A worker's steps.
LEMMA WorkerInv ==
  ASSUME IInv, NEW w \in Workers, Worker(w)
  PROVE  IInv'
<1> USE DEF IInv, TypeOK, LockHeld, JobInHand, WakePending, WorkerStates, Goto, queues, events
<1>1. CASE WakeToStop(w)
  BY <1>1, WorkersAssumption DEF WakeToStop
<1>2. CASE WakeToFetch(w)
  BY <1>2, WorkersAssumption DEF WakeToFetch
<1>3. CASE Timeout(w)
  BY <1>3, WorkersAssumption DEF Timeout
<1>4. CASE Lock(w)
  BY <1>4, WorkersAssumption DEF Lock
<1>5. CASE Front(w)
  BY <1>5, WorkersAssumption DEF Front
<1>6. CASE Pop(w)
  BY <1>6, WorkersAssumption DEF Pop
<1>7. CASE Run(w)
  BY <1>7, WorkersAssumption DEF Run
<1>8. CASE Count(w)
  BY <1>8, WorkersAssumption DEF Count
<1>9. CASE Signal(w)
  BY <1>9, WorkersAssumption DEF Signal
<1>10. QED
  BY <1>1, <1>2, <1>3, <1>4, <1>5, <1>6, <1>7, <1>8, <1>9 DEF Worker

THEOREM Invariance == Spec => []IInv
<1>1. IInv /\ [Next]_vars => IInv'
  <2> SUFFICES ASSUME IInv, [Next]_vars PROVE IInv'
    OBVIOUS
  <2>1. CASE UNCHANGED vars
    BY <2>1 DEF vars, queues, events, IInv, TypeOK, LockHeld, JobInHand, WakePending
  <2>2. CASE Next
    BY <2>2, ServerInv, WorkerInv DEF Next
  <2>3. QED
    BY <2>1, <2>2
<1>2. QED
  BY <1>1, InitInv, PTL DEF Spec

\* Queues, events, threads and the jobs in their hands keep their types.
THEOREM TypeCorrect == Spec => []TypeOK
BY Invariance, PTL DEF IInv

\* A job in the wait queue always has a signal set or a thread on its way, in
\* either build and whatever GetCount sees without the lock.
THEOREM NeverForgotten == Spec => []WakePending
BY Invariance, PTL DEF IInv

-----------------------------------------------------------------------------
(* AsyncProxy implements JobPool: a job waits until it is popped.  What is  *)
(* popped is what was read, and what is being posted is nowhere yet.        *)

Fresh ==
  /\ \A w \in Workers : pc[w] = "pop" => job[w] = Head(waitQueue)
  /\ server = "adding" => posting \notin Posted

LEMMA InitFresh == Init => Fresh
BY DEF Init, Fresh

LEMMA AppendElements ==
  ASSUME NEW q \in Seq(Jobs), NEW j \in Jobs
  PROVE  Elements(Append(q, j)) = Elements(q) \cup {j}
<1> DEFINE r == Append(q, j)
<1>1. /\ DOMAIN q = 1 .. Len(q) /\ DOMAIN r = 1 .. Len(q) + 1 /\ Len(q) \in Nat
      /\ \A i \in 1 .. Len(q) : r[i] = q[i]
      /\ r[Len(q) + 1] = j
  OBVIOUS
<1> HIDE DEF r
<1>2. DOMAIN r = DOMAIN q \cup {Len(q) + 1}
  BY <1>1
<1>3. QED
  BY <1>1, <1>2 DEF Elements, r

LEMMA TailElements ==
  ASSUME NEW q \in Seq(Jobs), q # <<>>
  PROVE  Head(q) \in Elements(q) /\ Elements(Tail(q)) \subseteq Elements(q)
BY DEF Elements

LEMMA StepFresh ==
  ASSUME IInv, Fresh, [Next]_vars
  PROVE  Fresh'
<1> USE DEF queues, events
<1>1. CASE UNCHANGED vars
  BY <1>1 DEF vars, Fresh, Posted, Elements
<1>2. ASSUME NEW j \in Jobs, PostLock(j) PROVE Fresh'
  BY <1>2 DEF PostLock, Fresh, Posted, Elements
<1>3. CASE PostAdd
  <2>1. server' = "setting" /\ pc' = pc
    BY <1>3 DEF PostAdd
  <2>2. \A w \in Workers : pc[w] # "pop"
    BY <1>3, WorkersAssumption DEF PostAdd, IInv, LockHeld
  <2>3. QED
    BY <2>1, <2>2 DEF Fresh
<1>4. CASE PostSet
  BY <1>4 DEF PostSet, Fresh
<1>5. CASE Collect
  BY <1>5 DEF Collect, Fresh
<1>6. CASE Destroy
  BY <1>6 DEF Destroy, Fresh
<1>7. ASSUME NEW w \in Workers, Worker(w) PROVE Fresh'
  <2> USE DEF Goto
  <2>0. pc \in [Workers -> WorkerStates] /\ job \in [Workers -> Jobs \cup {NoJob}]
    BY DEF IInv, TypeOK
  <2>1. CASE WakeToStop(w) \/ WakeToFetch(w) \/ Timeout(w) \/ Lock(w) \/ Count(w) \/ Signal(w)
    <3>1. /\ waitQueue' = waitQueue /\ resultQueue' = resultQueue /\ collected' = collected
          /\ job' = job /\ server' = server /\ posting' = posting
          /\ \A v \in Workers : pc'[v] = "pop" => pc'[v] = pc[v]
      BY <2>0, <2>1 DEF WakeToStop, WakeToFetch, Timeout, Lock, Count, Signal
    <3>2. Posted' = Posted
      BY <3>1 DEF Posted, Elements
    <3>3. QED
      BY <3>1, <3>2 DEF Fresh
  <2>2. CASE Front(w)
    <3>1. server # "adding"
      BY <2>2, WorkersAssumption DEF Front, IInv, LockHeld
    <3>2. waitQueue' = waitQueue /\ server' = server
      BY <2>2 DEF Front
    <3>3. \A v \in Workers : pc'[v] = "pop" => job'[v] = Head(waitQueue)
      BY <2>0, <2>2 DEF Front, Fresh
    <3>4. QED
      BY <3>1, <3>2, <3>3 DEF Fresh
  <2>3. CASE Pop(w)
    <3>1. server # "adding" /\ \A v \in Workers : pc[v] = "pop" => v = w
      BY <2>3, WorkersAssumption DEF Pop, IInv, LockHeld
    <3>2. server' = server /\ pc' = [pc EXCEPT ![w] = "run"]
      BY <2>3 DEF Pop
    <3>3. QED
      BY <2>0, <3>1, <3>2 DEF Fresh
  <2>4. CASE Run(w)
    <3>1. /\ waitQueue' = waitQueue /\ server' = server /\ posting' = posting
          /\ collected' = collected /\ resultQueue' = Append(resultQueue, job[w])
          /\ job' = [job EXCEPT ![w] = NoJob] /\ pc' = [pc EXCEPT ![w] = "count"]
          /\ job[w] \in Jobs /\ resultQueue \in Seq(Jobs)
      BY <2>4 DEF Run, IInv, JobInHand, TypeOK
    <3>2. Elements(resultQueue') = Elements(resultQueue) \cup {job[w]}
      BY <3>1, AppendElements
    <3>3. Elements(waitQueue') = Elements(waitQueue)
      BY <3>1 DEF Elements
    <3>4. Posted' \subseteq Posted \cup {NoJob}
      BY <2>0, <3>1, <3>2, <3>3 DEF Posted
    <3>5. server = "adding" => posting # NoJob
      BY JobsAssumption DEF IInv, JobInHand
    <3>6. QED
      BY <2>0, <3>1, <3>4, <3>5 DEF Fresh
  <2>5. QED
    BY <1>7, <2>1, <2>2, <2>3, <2>4 DEF Worker
<1>8. QED
  BY <1>1, <1>2, <1>3, <1>4, <1>5, <1>6, <1>7 DEF Next, ServerStep

LEMMA RefineStep ==
  ASSUME IInv, Fresh, [Next]_vars
  PROVE  [Pool!Next]_(Pool!poolVars)
<1> USE DEF queues, events, Pool!poolVars
<1>0. pc \in [Workers -> WorkerStates] /\ job \in [Workers -> Jobs \cup {NoJob}]
  BY DEF IInv, TypeOK
<1>1. CASE UNCHANGED vars
  BY <1>1 DEF vars, Running
<1>2. CASE (\E j \in Jobs : PostLock(j)) \/ PostSet \/ Destroy
  BY <1>2 DEF PostLock, PostSet, Destroy, Running
<1>3. CASE PostAdd
  <2>1. posting \in Jobs /\ posting \notin Posted
    BY <1>3 DEF PostAdd, IInv, JobInHand, Fresh
  <2>2. posting \notin Pool!Known
    BY <2>1, JobsAssumption DEF Pool!Known, Posted, Elements, Running
  <2>3. Pool!Post(posting)
    BY <1>3, <2>2 DEF PostAdd, Pool!Post, Running
  <2>4. QED
    BY <2>1, <2>3 DEF Pool!Next
<1>4. CASE Collect
  <2>1. Pool!Collect
    BY <1>4 DEF Collect, Pool!Collect, Running
  <2>2. QED
    BY <2>1 DEF Pool!Next
<1>5. ASSUME NEW w \in Workers, Worker(w)
      PROVE  [Pool!Next]_(Pool!poolVars)
  <2> USE DEF Goto
  <2>1. CASE WakeToStop(w) \/ WakeToFetch(w) \/ Timeout(w) \/ Lock(w) \/ Count(w) \/ Signal(w)
    <3>1. /\ waitQueue' = waitQueue /\ resultQueue' = resultQueue /\ collected' = collected
          /\ job' = job /\ \A v \in Workers : pc'[v] = "run" <=> pc[v] = "run"
      BY <1>0, <2>1 DEF WakeToStop, WakeToFetch, Timeout, Lock, Count, Signal
    <3>2. Running' = Running
      BY <3>1 DEF Running
    <3>3. QED
      BY <3>1, <3>2
  <2>2. CASE Front(w)
    <3>1. /\ waitQueue' = waitQueue /\ resultQueue' = resultQueue /\ collected' = collected
      BY <2>2 DEF Front
    <3>2. \A v \in Workers : /\ pc'[v] = "run" <=> pc[v] = "run"
                             /\ pc[v] = "run" => job'[v] = job[v]
      BY <1>0, <2>2 DEF Front
    <3>3. Running' = Running
      BY <3>2 DEF Running
    <3>4. QED
      BY <3>1, <3>3
  <2>3. CASE Pop(w)
    <3>1. /\ waitQueue' = Tail(waitQueue) /\ resultQueue' = resultQueue
          /\ collected' = collected /\ job' = job /\ pc' = [pc EXCEPT ![w] = "run"]
          /\ pc[w] = "pop" /\ waitQueue # <<>> /\ job[w] = Head(waitQueue)
      BY <2>3 DEF Pop, IInv, JobInHand, Fresh
    <3>2. Running[w] = NoJob /\ Running' = [Running EXCEPT ![w] = Head(waitQueue)]
      BY <1>0, <3>1 DEF Running
    <3>3. Pool!Start(w)
      BY <3>1, <3>2 DEF Pool!Start
    <3>4. QED
      BY <3>3 DEF Pool!Next
  <2>4. CASE Run(w)
    <3>1. /\ waitQueue' = waitQueue /\ resultQueue' = Append(resultQueue, job[w])
          /\ collected' = collected /\ job' = [job EXCEPT ![w] = NoJob]
          /\ pc' = [pc EXCEPT ![w] = "count"] /\ pc[w] = "run" /\ job[w] \in Jobs
      BY <2>4 DEF Run, IInv, JobInHand
    <3>2. Running[w] = job[w] /\ Running' = [Running EXCEPT ![w] = NoJob]
      BY <1>0, <3>1 DEF Running
    <3>3. Pool!Finish(w)
      BY <3>1, <3>2, JobsAssumption DEF Pool!Finish
    <3>4. QED
      BY <3>3 DEF Pool!Next
  <2>5. QED
    BY <1>5, <2>1, <2>2, <2>3, <2>4 DEF Worker
<1>6. QED
  BY <1>1, <1>2, <1>3, <1>4, <1>5 DEF Next, ServerStep

\* The pool does what JobPool says: jobs start once, in the order of posting, on
\* a thread that is free, and each result is handed out once.
THEOREM Refinement == Spec => ImplementsPool
<1>1. Init => Pool!Init
  BY DEF Init, Pool!Init, Running
<1>2. IInv /\ Fresh /\ [Next]_vars => Fresh'
  BY StepFresh
<1>3. IInv /\ Fresh /\ [Next]_vars => [Pool!Next]_(Pool!poolVars)
  BY RefineStep
<1>4. QED
  BY <1>1, <1>2, <1>3, InitFresh, Invariance, PTL DEF Spec, Pool!Spec, ImplementsPool
=============================================================================
