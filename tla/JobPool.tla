------------------------------ MODULE JobPool ------------------------------
(***************************************************************************)
(* What MAsyncProxy promises: each job posted is started once, in the      *)
(* order of posting, by a thread that has nothing to do, and its result is *)
(* handed out once, in the order of completion.                            *)
(***************************************************************************)
EXTENDS Sequences

CONSTANTS Threads, Jobs, NoJob

VARIABLES
  waiting, running,   \* the jobs posted, and the job of each thread or NoJob
  results, collected

poolVars == <<waiting, running, results, collected>>

Known == {waiting[i] : i \in DOMAIN waiting} \cup {running[t] : t \in Threads}
           \cup {results[i] : i \in DOMAIN results} \cup collected

Init ==
  /\ waiting = <<>> /\ running = [t \in Threads |-> NoJob]
  /\ results = <<>> /\ collected = {}

Post(j) ==
  /\ j \notin Known
  /\ waiting' = Append(waiting, j)
  /\ UNCHANGED <<running, results, collected>>

Start(t) ==
  /\ waiting # <<>> /\ running[t] = NoJob
  /\ running' = [running EXCEPT ![t] = Head(waiting)]
  /\ waiting' = Tail(waiting)
  /\ UNCHANGED <<results, collected>>

Finish(t) ==
  /\ running[t] # NoJob
  /\ results' = Append(results, running[t])
  /\ running' = [running EXCEPT ![t] = NoJob]
  /\ UNCHANGED <<waiting, collected>>

Collect ==
  /\ results # <<>>
  /\ collected' = collected \cup {Head(results)}
  /\ results' = Tail(results)
  /\ UNCHANGED <<waiting, running>>

Next == Collect \/ (\E j \in Jobs : Post(j)) \/ \E t \in Threads : Start(t) \/ Finish(t)

Spec == Init /\ [][Next]_poolVars
=============================================================================
