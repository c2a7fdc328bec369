----------------------------- MODULE AsyncProxy -----------------------------
(***************************************************************************)
(* MAsyncProxy: the thread of the match server posts database jobs, a pool *)
(* of threads runs them, and the server's thread collects the results.     *)
(* Two MSignalEvents wake the pool.  Windows resets an event when a wait   *)
(* returns because of it; the eventfd of the other build stays set, as     *)
(* nobody reads it; there each event also has a flag SetEvents that every  *)
(* thread clears when it begins to wait and reads without a lock.          *)
(*                                                                         *)
(* Every access to the wait queue is under its lock but GetCount, which    *)
(* may see anything while another thread holds the lock.  The result queue *)
(* is only touched in critical sections of one step.                       *)
(***************************************************************************)
EXTENDS Sequences

CONSTANTS
  Workers, Jobs,     \* a job is posted at most once
  Server, NoOne,     \* who else may hold the lock
  NoJob,
  Resets             \* the builds: TRUE when a wait resets its event (Windows)

ASSUME WorkersAssumption == /\ Server \notin Workers /\ NoOne \notin Workers
                            /\ Server # NoOne
ASSUME JobsAssumption == NoJob \notin Jobs
ASSUME ResetsAssumption == Resets \subseteq BOOLEAN

VARIABLES
  auto,        \* the build
  waitQueue, lock,
  resultQueue, collected,
  shutdown, fetch,     \* EventShutdown and EventFetchJob are set
  pc, job,     \* of each worker
  server,      \* what the server's thread is at
  posting      \* the job it posts

vars == <<auto, waitQueue, lock, resultQueue, collected, shutdown, fetch,
          pc, job, server, posting>>
queues == <<waitQueue, resultQueue, collected>>
events == <<shutdown, fetch>>

WorkerStates == {"wait", "lock", "front", "pop", "run", "count", "signal", "stopped"}
ServerStates == {"idle", "adding", "setting", "destroyed"}

Elements(s) == {s[i] : i \in DOMAIN s}
Posted == Elements(waitQueue) \cup {job[w] : w \in Workers} \cup Elements(resultQueue)
            \cup collected

-----------------------------------------------------------------------------
(* The server's thread.                                                    *)

\* PostJob: lock, add, unlock, then set the event.
PostLock(j) ==
  /\ server = "idle" /\ j \notin Posted
  /\ lock = NoOne
  /\ lock' = Server
  /\ server' = "adding" /\ posting' = j
  /\ UNCHANGED <<auto, queues, events, pc, job>>

PostAdd ==
  /\ server = "adding"
  /\ waitQueue' = Append(waitQueue, posting)
  /\ lock' = NoOne
  /\ server' = "setting"
  /\ UNCHANGED <<auto, resultQueue, collected, events, pc, job, posting>>

PostSet ==
  /\ server = "setting"
  /\ fetch' = TRUE
  /\ server' = "idle"
  /\ UNCHANGED <<auto, queues, lock, shutdown, pc, job, posting>>

\* One turn of the loop of ProcessAsyncJob, which deletes the job.
Collect ==
  /\ server = "idle" /\ resultQueue # <<>>
  /\ collected' = collected \cup {Head(resultQueue)}
  /\ resultQueue' = Tail(resultQueue)
  /\ UNCHANGED <<auto, waitQueue, lock, events, pc, job, server, posting>>

\* From MMatchServer::Destroy: the server's thread posts and collects no more.
Destroy ==
  /\ server = "idle"
  /\ shutdown' = TRUE
  /\ server' = "destroyed"
  /\ UNCHANGED <<auto, queues, lock, fetch, pc, job, posting>>

-----------------------------------------------------------------------------
(* OnRun of a worker.                                                      *)

Goto(w, place) == pc' = [pc EXCEPT ![w] = place]

\* In the build with eventfds, a thread that begins to wait may clear what w
\* has just written to SetEvents and is about to read: w misses a set event.
Missed(w) == ~ auto /\ \E v \in Workers \ {w} : pc[v] = "wait"

\* WaitForMultipleEvents prefers EventShutdown, the first of the array.
WakeToStop(w) ==
  /\ pc[w] = "wait" /\ shutdown
  /\ shutdown' = ~ auto
  /\ Goto(w, "stopped")
  /\ UNCHANGED <<auto, queues, lock, fetch, job, server, posting>>

WakeToFetch(w) ==
  /\ pc[w] = "wait" /\ fetch
  /\ shutdown => Missed(w)
  /\ fetch' = ~ auto
  /\ Goto(w, "lock")
  /\ UNCHANGED <<auto, queues, lock, shutdown, job, server, posting>>

Timeout(w) ==
  /\ pc[w] = "wait"
  /\ shutdown \/ fetch => Missed(w)
  /\ Goto(w, "count")
  /\ UNCHANGED <<auto, queues, lock, events, job, server, posting>>

Lock(w) ==
  /\ pc[w] = "lock" /\ lock = NoOne
  /\ lock' = w
  /\ Goto(w, "front")
  /\ UNCHANGED <<auto, queues, events, job, server, posting>>

\* The null pointer of an empty queue is run: a bug to try the properties
\* against, as are the three definitions below that are said to be trials.
FrontUnchecked(w) ==
  /\ pc[w] = "front"
  /\ IF waitQueue = <<>>
       THEN /\ lock' = NoOne
            /\ Goto(w, "run")
            /\ UNCHANGED job
       ELSE /\ job' = [job EXCEPT ![w] = Head(waitQueue)]
            /\ Goto(w, "pop")
            /\ UNCHANGED lock
  /\ UNCHANGED <<auto, queues, events, server, posting>>

\* GetJobUnsafe: the first job is read, then popped.
Front(w) ==
  /\ pc[w] = "front"
  /\ IF waitQueue = <<>>
       THEN /\ lock' = NoOne
            /\ Goto(w, "count")
            /\ UNCHANGED job
       ELSE /\ job' = [job EXCEPT ![w] = Head(waitQueue)]
            /\ Goto(w, "pop")
            /\ UNCHANGED lock
  /\ UNCHANGED <<auto, queues, events, server, posting>>

\* A trial: the job that was read stays in the queue.
PopNothing(w) ==
  /\ pc[w] = "pop"
  /\ lock' = NoOne
  /\ Goto(w, "run")
  /\ UNCHANGED <<auto, queues, events, job, server, posting>>

Pop(w) ==
  /\ pc[w] = "pop"
  /\ waitQueue' = Tail(waitQueue)
  /\ lock' = NoOne
  /\ Goto(w, "run")
  /\ UNCHANGED <<auto, resultQueue, collected, events, job, server, posting>>

\* A trial: a worker that has run its job goes back to wait.
RunAndWait(w) ==
  /\ pc[w] = "run"
  /\ resultQueue' = Append(resultQueue, job[w])
  /\ job' = [job EXCEPT ![w] = NoJob]
  /\ Goto(w, "wait")
  /\ UNCHANGED <<auto, waitQueue, collected, lock, events, server, posting>>

\* The query, and its result.
Run(w) ==
  /\ pc[w] = "run"
  /\ resultQueue' = Append(resultQueue, job[w])
  /\ job' = [job EXCEPT ![w] = NoJob]
  /\ Goto(w, "count")
  /\ UNCHANGED <<auto, waitQueue, collected, lock, events, server, posting>>

\* A trial: nobody signals again for the jobs that are left.
CountNone(w) ==
  /\ pc[w] = "count"
  /\ Goto(w, "wait")
  /\ UNCHANGED <<auto, queues, lock, events, job, server, posting>>

\* GetCount without the lock, after a job and after a timeout.
Count(w) ==
  /\ pc[w] = "count"
  /\ \E some \in IF lock = NoOne THEN {waitQueue # <<>>} ELSE BOOLEAN :
       Goto(w, IF some THEN "signal" ELSE "wait")
  /\ UNCHANGED <<auto, queues, lock, events, job, server, posting>>

Signal(w) ==
  /\ pc[w] = "signal"
  /\ fetch' = TRUE
  /\ Goto(w, "wait")
  /\ UNCHANGED <<auto, queues, lock, shutdown, job, server, posting>>

-----------------------------------------------------------------------------
Init ==
  /\ auto \in Resets
  /\ waitQueue = <<>> /\ lock = NoOne
  /\ resultQueue = <<>> /\ collected = {}
  /\ shutdown = FALSE /\ fetch = FALSE
  /\ pc = [w \in Workers |-> "wait"]
  /\ job = [w \in Workers |-> NoJob]
  /\ server = "idle" /\ posting = NoJob

ServerStep == PostAdd \/ PostSet \/ Collect
Worker(w) ==
  \/ WakeToStop(w) \/ WakeToFetch(w) \/ Timeout(w) \/ Lock(w) \/ Front(w)
  \/ Pop(w) \/ Run(w) \/ Count(w) \/ Signal(w)

Next ==
  \/ \E j \in Jobs : PostLock(j)
  \/ ServerStep \/ Destroy
  \/ \E w \in Workers : Worker(w)

Spec == Init /\ [][Next]_vars

\* Threads are scheduled, queries return, and OnRun of the server collects.
\* Nothing obliges the server to post or to be destroyed.  Missing an event
\* takes another thread between two instructions, which is not always there.
Fairness ==
  /\ WF_vars(ServerStep)
  /\ \A w \in Workers : /\ WF_vars(Worker(w))
                         /\ SF_vars(WakeToFetch(w)) /\ SF_vars(WakeToStop(w))

FairSpec == Spec /\ Fairness

-----------------------------------------------------------------------------
(* Properties.                                                             *)

TypeOK ==
  /\ auto \in BOOLEAN
  /\ waitQueue \in Seq(Jobs) /\ resultQueue \in Seq(Jobs) /\ collected \in SUBSET Jobs
  /\ lock \in Workers \cup {Server, NoOne}
  /\ shutdown \in BOOLEAN /\ fetch \in BOOLEAN
  /\ pc \in [Workers -> WorkerStates]
  /\ job \in [Workers -> Jobs \cup {NoJob}]
  /\ server \in ServerStates /\ posting \in Jobs \cup {NoJob}

\* A job in the queue is not left to the timeout: the event is set, or will be
\* by who posts, or a worker is at work and will look again.
WakePending ==
  waitQueue # <<>> => \/ fetch
                      \/ server \in {"adding", "setting"}
                      \/ \E w \in Workers : pc[w] \notin {"wait", "stopped"}

\* The job of a worker: popped and not yet in the result queue.
Running == [w \in Workers |-> IF pc[w] = "run" THEN job[w] ELSE NoJob]

Pool == INSTANCE JobPool WITH Threads <- Workers, waiting <- waitQueue,
                              running <- Running, results <- resultQueue

\* The pool does what JobPool says: jobs start once, in order, and each result
\* is handed out once, whatever the threads do meanwhile.
ImplementsPool == Pool!Spec

\* A job posted is run and collected, unless the server is destroyed first.
JobsCollected ==
  \A j \in Jobs : j \in Elements(waitQueue) ~> j \in collected \/ server = "destroyed"

\* A job posted is run.
JobsRun == \A j \in Jobs : j \in Elements(waitQueue) ~> j \notin Elements(waitQueue)
=============================================================================
