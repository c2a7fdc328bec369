------------------------------ MODULE Session ------------------------------
(***************************************************************************)
(* The sessions of one account and the bounty of its character: login,     *)
(* which throws the account's older session out, the choice of the         *)
(* character, what is earned in battle, the shop, and the clearing of      *)
(* closed connections.  MMatchServer_Login.cpp, _Char.cpp, _Item.cpp and   *)
(* _Async.cpp, MServer.cpp.                                                *)
(*                                                                         *)
(* The server's thread handles one command or one result at a time.  It    *)
(* uses the database itself in the shop, and through jobs elsewhere; the   *)
(* jobs run in the pool of JobPool, that is, they start in the order of    *)
(* posting, and read and write and end in any.                             *)
(***************************************************************************)
EXTENDS Integers, Sequences, FiniteSets, Functions

CONSTANTS
  MaxConns,   \* bound on connections; numbered as their MUIDs are given
  Workers,    \* the threads of the pool
  Debug,      \* the builds: TRUE when _DEBUG is defined
  StartBP,    \* the character's bounty at first
  Price, Value,   \* of an item: to buy, to sell
  MaxEarned, MaxItems, MaxLoads   \* bounds on what is earned, bought and chosen

ASSUME SessionBuildsAssumption == Debug \subseteq BOOLEAN
ASSUME SessionNumbersAssumption ==
  {MaxConns, StartBP, Price, Value, MaxEarned, MaxItems, MaxLoads} \subseteq Nat

VARIABLES
  debug,       \* the build
  conn,        \* how far each connection is
  displaced,   \* the session each login threw out
  obj,         \* the MMatchObject of each connection
  queue,       \* m_SafeCmdQueue: logins, first requests and NET_CLEARs
  db,          \* the character's rows: its BP, and the items that are its
  job,         \* what each job posted has to do, or has done
  hand,        \* the result that ProcessAsyncJob handles
  ledger,      \* what was earned, lost with a failed save, bought, and how often a
               \* character was chosen
  waiting, running, results, collected    \* of the pool

pool == <<waiting, running, results, collected>>
vars == <<debug, conn, displaced, obj, queue, db, job, hand, ledger, pool>>

Conns == 1..MaxConns
Items == 1..MaxItems
MaxJobs == MaxEarned + MaxLoads     \* a save takes something earned
Pool == INSTANCE JobPool WITH Threads <- Workers, Jobs <- 1..MaxJobs, NoJob <- 0

-----------------------------------------------------------------------------
(* The data.                                                               *)

\* An object has no character at first.  Of its character: m_nBP, nAddedBP of
\* the DBCharCachingData, the items, and whether it is in a stage.
None == [state |-> "none"]
NoChar == [state |-> "no char"]
Char(bp, items) ==
  [state |-> "char", bp |-> bp, cache |-> 0, items |-> items, inStage |-> FALSE]
Chars == [state : {"char"}, bp : Int, cache : Nat, items : SUBSET Items, inStage : BOOLEAN]
HasChar(k) == obj[k].state = "char"

\* A job: UpdateCharInfoData adds bp; GetCharInfo reads the row, is then half
\* done, and reads the items.  "over" is one that saved, failed or was taken.
Job(kind, k, bp, items) == [kind |-> kind, conn |-> k, bp |-> bp, items |-> items]
Over(k) == Job("over", k, 0, {})
JobRecords ==
  [kind : {"save", "load", "half", "read", "over"}, conn : Conns, bp : Int, items : SUBSET Items]
NoResult == [kind |-> "none"]

\* A connection is "open" before its login, "answered" when the server has let
\* it in, "asking" when its first request is under way, "choosing" while it
\* waits for the character it chose, and "closed" when it was cleared.
Inside == {"answered", "asking", "active", "choosing"}
Places == {"open", "logging in", "closed"} \cup Inside

-----------------------------------------------------------------------------
(* Jobs.                                                                   *)

Post(record) ==
  /\ job' = Append(job, record)
  /\ Pool!Post(Len(job) + 1)

\* UpdateCharDBCachingData: the cache is saved, if there is anything in it, and
\* emptied at once, whether the save will succeed or not.
FlushedKept(o) == o                 \* without the Reset
Flushed(o) == [o EXCEPT !.cache = 0]
PostFlush(k) ==
  IF HasChar(k) /\ obj[k].cache # 0 THEN Post(Job("save", k, obj[k].cache, {}))
  ELSE UNCHANGED <<job, pool>>

StartJob(w) ==
  /\ Pool!Start(w)
  /\ UNCHANGED <<debug, conn, displaced, obj, queue, db, job, hand, ledger>>

\* One query of a job, which may fail.
ExecuteJob(w) ==
  /\ running[w] # 0
  /\ LET j == running[w]
         r == job[j]
     IN  \/ /\ r.kind = "save"
            /\ job' = [job EXCEPT ![j] = Over(r.conn)]
            /\ \/ db' = [db EXCEPT !.bp = @ + r.bp] /\ UNCHANGED ledger
               \/ ledger' = [ledger EXCEPT !.lost = @ + r.bp] /\ UNCHANGED db
         \/ /\ r.kind = "load"
            /\ \E answer \in {Job("half", r.conn, db.bp, {}), Over(r.conn)} :
                 job' = [job EXCEPT ![j] = answer]
            /\ UNCHANGED <<db, ledger>>
         \/ /\ r.kind = "half"
            /\ \E answer \in {Job("read", r.conn, r.bp, db.items), Over(r.conn)} :
                 job' = [job EXCEPT ![j] = answer]
            /\ UNCHANGED <<db, ledger>>
  /\ UNCHANGED <<debug, conn, displaced, obj, queue, hand, pool>>

\* The thread adds the job to the results when its Run has returned.
Returned(j) == job[j].kind \in {"over", "read"}
FinishJob(w) ==
  /\ running[w] # 0 /\ Returned(running[w])
  /\ Pool!Finish(w)
  /\ UNCHANGED <<debug, conn, displaced, obj, queue, db, job, hand, ledger>>

\* ProcessAsyncJob takes a result, ...
CollectResult ==
  /\ hand = NoResult
  /\ Pool!Collect
  /\ hand' = job[Head(results)]
  /\ job' = [job EXCEPT ![Head(results)] = Over(@.conn)]
  /\ UNCHANGED <<debug, conn, displaced, obj, queue, db, ledger>>

\* ... and handles it: nothing for a save or a failure; OnAsyncGetCharInfo for
\* a character, whose connection may have gone by now, and which finalizes the
\* character the object already has.
HandleResultBlindly ==              \* the object is not looked up
  /\ hand # NoResult
  /\ hand' = NoResult
  /\ IF hand.kind # "read" THEN UNCHANGED <<obj, conn>>
     ELSE /\ obj' = [obj EXCEPT ![hand.conn] = Char(hand.bp, hand.items)]
          /\ conn' = [conn EXCEPT ![hand.conn] = IF @ = "choosing" THEN "active" ELSE @]
  /\ UNCHANGED <<debug, displaced, queue, db, job, ledger, pool>>
HandleResult ==
  /\ hand # NoResult
  /\ hand' = NoResult
  /\ IF hand.kind = "read" /\ obj[hand.conn] # None
       THEN /\ obj' = [obj EXCEPT ![hand.conn] = Char(hand.bp, hand.items)]
            /\ conn' = [conn EXCEPT ![hand.conn] = "active"]
            /\ PostFlush(hand.conn)
       ELSE UNCHANGED <<obj, conn, job, pool>>
  /\ UNCHANGED <<debug, displaced, queue, db, ledger>>

-----------------------------------------------------------------------------
(* Logins and closed connections.                                          *)

SendLogin(k) ==
  /\ conn[k] = "open"
  /\ conn' = [conn EXCEPT ![k] = "logging in"]
  /\ queue' = Append(queue, <<"login", k>>)
  /\ UNCHANGED <<debug, displaced, obj, db, job, hand, ledger, pool>>

\* GetPlayerByAID: the session with the lowest MUID, even if it is about to be
\* cleared already.
Found == {k \in Conns : obj[k] # None /\ \A i \in Conns : obj[i] # None => k <= i}

\* OnMatchLogin and AddObjectOnMatchLogin.  A session that is found is
\* disconnected, which puts a NET_CLEAR at the end of the queue, and so before
\* any request of the new session.  A login may be refused before that, or
\* after it when the account is blocked; the connection stays, and may try
\* again.  One that has been cleared by now is not looked at.  A build for
\* debugging disconnects nobody.
After == [ok |-> "answered", refused |-> "open", blocked |-> "open", gone |-> "closed"]
Login(k, outcome) ==
  /\ hand = NoResult /\ queue # <<>> /\ Head(queue) = <<"login", k>>
  /\ conn[k] = "closed" <=> outcome = "gone"
  /\ LET old == IF outcome \in {"ok", "blocked"} /\ ~ debug THEN Found ELSE {}
     IN  /\ queue' = IF old = {} THEN Tail(queue)
                     ELSE Append(Tail(queue), <<"clear", CHOOSE j \in old : TRUE>>)
         /\ displaced' = [displaced EXCEPT ![k] = @ \cup old]
  /\ conn' = [conn EXCEPT ![k] = After[outcome]]
  /\ obj' = IF outcome = "ok" THEN [obj EXCEPT ![k] = NoChar] ELSE obj
  /\ UNCHANGED <<debug, db, job, hand, ledger, pool>>

\* The client has its answer and sends its first request; what it sends after
\* that is handled after that, and may be handled when it is sent.
AskUnqueued(k) ==                   \* the thread of the socket handles it
  /\ conn[k] = "answered"
  /\ conn' = [conn EXCEPT ![k] = "active"]
  /\ UNCHANGED <<debug, displaced, obj, queue, db, job, hand, ledger, pool>>
Ask(k) ==
  /\ conn[k] = "answered"
  /\ conn' = [conn EXCEPT ![k] = "asking"]
  /\ queue' = Append(queue, <<"request", k>>)
  /\ UNCHANGED <<debug, displaced, obj, db, job, hand, ledger, pool>>
FirstRequest(k) ==
  /\ hand = NoResult /\ queue # <<>> /\ Head(queue) = <<"request", k>>
  /\ queue' = Tail(queue)
  /\ conn' = [conn EXCEPT ![k] = IF @ = "asking" THEN "active" ELSE @]
  /\ UNCHANGED <<debug, displaced, obj, db, job, hand, ledger, pool>>

\* The connection breaks, in whatever it is doing.  While a NET_CLEAR of it is
\* in the queue a second one is left out: it would find nothing to clear.
Close(k) ==
  /\ conn[k] # "closed" /\ <<"clear", k>> \notin {queue[i] : i \in DOMAIN queue}
  /\ queue' = Append(queue, <<"clear", k>>)
  /\ UNCHANGED <<debug, conn, displaced, obj, db, job, hand, ledger, pool>>

\* OnNetClear and OnCharClear: finalize the character, remove the object.
NetClearKept(k) ==                  \* not while the character is being read
  /\ hand = NoResult /\ queue # <<>> /\ Head(queue) = <<"clear", k>>
  /\ queue' = Tail(queue)
  /\ IF conn[k] = "choosing" THEN UNCHANGED <<conn, obj, job, pool>>
     ELSE /\ conn' = [conn EXCEPT ![k] = "closed"]
          /\ PostFlush(k)
          /\ obj' = [obj EXCEPT ![k] = None]
  /\ UNCHANGED <<debug, displaced, db, hand, ledger>>
NetClear(k) ==
  /\ hand = NoResult /\ queue # <<>> /\ Head(queue) = <<"clear", k>>
  /\ queue' = Tail(queue)
  /\ conn' = [conn EXCEPT ![k] = "closed"]
  /\ PostFlush(k)
  /\ obj' = [obj EXCEPT ![k] = None]
  /\ UNCHANGED <<debug, displaced, db, hand, ledger>>

-----------------------------------------------------------------------------
(* Requests of a session.                                                  *)

Requests(k) ==
  /\ hand = NoResult /\ conn[k] = "active"
  /\ UNCHANGED <<debug, displaced, queue, hand>>

\* OnRequestSelectChar, for the first time or from the lobby.
SelectChar(k) ==
  /\ Requests(k)
  /\ ~ (HasChar(k) /\ obj[k].inStage)
  /\ ledger.chosen < MaxLoads
  /\ ledger' = [ledger EXCEPT !.chosen = @ + 1]
  /\ Post(Job("load", k, 0, {}))
  /\ conn' = [conn EXCEPT ![k] = "choosing"]
  /\ UNCHANGED <<obj, db>>

\* Into a stage and out of it: leaving the battle saves, leaving the stage
\* does not.
EnterStage(k) ==
  /\ Requests(k) /\ HasChar(k) /\ ~ obj[k].inStage
  /\ obj' = [obj EXCEPT ![k].inStage = TRUE]
  /\ UNCHANGED <<conn, db, job, ledger, pool>>
LeaveBattle(k) ==
  /\ Requests(k) /\ HasChar(k) /\ obj[k].inStage
  /\ obj' = [obj EXCEPT ![k] = Flushed(@)]
  /\ PostFlush(k)
  /\ UNCHANGED <<conn, db, ledger>>
LeaveStage(k) ==
  /\ Requests(k) /\ HasChar(k) /\ obj[k].inStage
  /\ obj' = [obj EXCEPT ![k].inStage = FALSE]
  /\ UNCHANGED <<conn, db, job, ledger, pool>>

\* ProcessOnGameKill, of a victim in the stage: IncBP.  Levels and full caches
\* save, which LeaveBattle may do next.
Earn(k) ==
  /\ Requests(k) /\ HasChar(k) /\ obj[k].inStage
  /\ ledger.earned < MaxEarned
  /\ obj' = [obj EXCEPT ![k].bp = @ + 1, ![k].cache = @ + 1]
  /\ ledger' = [ledger EXCEPT !.earned = @ + 1]
  /\ UNCHANGED <<conn, db, job, pool>>

\* BuyItem: by the bounty in memory, then, after a save is posted, by that in
\* the database (BuyBountyItem), which may be less.  What BuyBountyItem read is
\* still there when it pays, for in between only saves run, and they add.
AffordedAlways == TRUE
Afforded == db.bp >= Price
Bought(o, item) == [Flushed(o) EXCEPT !.bp = @ - Price, !.items = @ \cup {item}]
BuyItem(k) ==
  /\ Requests(k) /\ HasChar(k) /\ ~ obj[k].inStage
  /\ obj[k].bp >= Price
  /\ PostFlush(k)
  /\ IF Afforded
       THEN /\ ledger.bought < MaxItems
            /\ LET item == ledger.bought + 1
               IN  /\ db' = [db EXCEPT !.bp = @ - Price, !.items = @ \cup {item}]
                   /\ obj' = [obj EXCEPT ![k] = Bought(@, item)]
            /\ ledger' = [ledger EXCEPT !.bought = @ + 1]
       ELSE /\ obj' = [obj EXCEPT ![k] = Flushed(@)]
            /\ UNCHANGED <<db, ledger>>
  /\ UNCHANGED conn

\* ResponseSellItem: by the items in memory, then by those in the database
\* (SellBountyItem).
Sold(o, item) == [Flushed(o) EXCEPT !.bp = @ + Value, !.items = @ \ {item}]
SellUnchecked(k, item) ==           \* RowsModified is not asked
  /\ Requests(k) /\ HasChar(k) /\ ~ obj[k].inStage
  /\ item \in obj[k].items
  /\ PostFlush(k)
  /\ db' = [db EXCEPT !.bp = @ + Value, !.items = @ \ {item}]
  /\ obj' = [obj EXCEPT ![k] = Sold(@, item)]
  /\ UNCHANGED <<conn, ledger>>
SellItem(k, item) ==
  /\ Requests(k) /\ HasChar(k) /\ ~ obj[k].inStage
  /\ item \in obj[k].items
  /\ PostFlush(k)
  /\ IF item \in db.items
       THEN /\ db' = [db EXCEPT !.bp = @ + Value, !.items = @ \ {item}]
            /\ obj' = [obj EXCEPT ![k] = Sold(@, item)]
       ELSE /\ obj' = [obj EXCEPT ![k] = Flushed(@)]
            /\ UNCHANGED db
  /\ UNCHANGED <<conn, ledger>>

-----------------------------------------------------------------------------
Init ==
  /\ debug \in Debug
  /\ conn = [k \in Conns |-> "open"]
  /\ displaced = [k \in Conns |-> {}]
  /\ obj = [k \in Conns |-> None]
  /\ queue = <<>>
  /\ db = [bp |-> StartBP, items |-> {}]
  /\ job = <<>> /\ hand = NoResult
  /\ ledger = [earned |-> 0, lost |-> 0, bought |-> 0, chosen |-> 0]
  /\ Pool!Init

HandleCommand ==
  \E k \in Conns :
    \/ \E outcome \in DOMAIN After : Login(k, outcome)
    \/ FirstRequest(k) \/ NetClear(k)
RunJob(w) == StartJob(w) \/ ExecuteJob(w) \/ FinishJob(w)
Play(k) ==
  \/ SelectChar(k) \/ EnterStage(k) \/ LeaveBattle(k) \/ LeaveStage(k) \/ Earn(k)
  \/ BuyItem(k) \/ \E item \in Items : SellItem(k, item)

Next ==
  \/ HandleCommand \/ CollectResult \/ HandleResult
  \/ \E w \in Workers : RunJob(w)
  \/ \E k \in Conns : SendLogin(k) \/ Ask(k) \/ Close(k) \/ Play(k)

Spec == Init /\ [][Next]_vars

\* The server's thread handles what there is; the pool's threads run, and
\* queries return.  No client need do anything.
FairSpec ==
  /\ Spec
  /\ WF_vars(HandleCommand) /\ WF_vars(CollectResult) /\ WF_vars(HandleResult)
  /\ \A w \in Workers : WF_vars(RunJob(w))

-----------------------------------------------------------------------------
(* Properties.                                                             *)

Types ==
  /\ conn \in [Conns -> Places]
  /\ displaced \in [Conns -> SUBSET Conns]
  /\ obj \in [Conns -> Chars \cup {None, NoChar}]
  /\ queue \in Seq({"login", "request", "clear"} \X Conns)
  /\ db \in [bp : Int, items : SUBSET Items]
  /\ job \in Seq(JobRecords) /\ hand \in JobRecords \cup {NoResult}
  /\ ledger \in [earned : 0..MaxEarned, lost : Nat, bought : 0..MaxItems,
                chosen : 0..MaxLoads]

\* What the server and the database hold has its type, and no job is posted for
\* an empty cache: there is at most one for each choice and each thing earned.
TypeOK == Types /\ Len(job) <= MaxJobs

\* Only a connection that was let in has an object: the result of a job never
\* brings one back that was cleared while the job ran.
NoGhost == \A k \in Conns : obj[k] # None <=> conn[k] \in Inside

\* A session acts only when the session it threw out is gone, and so after the
\* last save of that one was posted.
UsurperWaits ==
  \A k \in Conns : conn[k] \in {"active", "choosing"} =>
    \A old \in displaced[k] : obj[old] = None

\* Nothing earned is saved twice or forgotten, and nothing is bought or sold
\* for any other price, whichever sessions there are, however late saves run
\* and whatever they have in memory: what the database has, with what is on its
\* way there, is what there was and what was earned, less what was spent and
\* what a failed save lost.
Saving == [j \in DOMAIN job |-> IF job[j].kind = "save" THEN job[j].bp ELSE 0]
Cached == [k \in Conns |-> IF HasChar(k) THEN obj[k].cache ELSE 0]
InDatabase == db.bp + SumFunction(Saving)
InCaches == SumFunction(Cached)
Conserved ==
  InDatabase + InCaches =
    StartBP + ledger.earned - ledger.lost - Price * ledger.bought
      + Value * (ledger.bought - Cardinality(db.items))

\* Nobody buys on credit: the bounty in the database is never negative, though
\* a session may have another's bounty in memory, or not yet its own.
Solvent == db.bp >= 0

\* A session that is being closed comes to its end, and what it earned to the
\* database (or is lost with its job), whatever the session was waiting for.
Settled(k) == obj[k] = None /\ \A j \in DOMAIN job : job[j].kind = "save" => job[j].conn # k
Settles ==
  \A k \in Conns : <<"clear", k>> \in {queue[i] : i \in DOMAIN queue} ~> Settled(k)
=============================================================================
