--------------------------- MODULE SessionProofs ---------------------------
(***************************************************************************)
(* Proofs about Session, for any connections, threads, builds, prices and  *)
(* bounds: nobody buys on credit, objects exist for the connections that   *)
(* were let in, and a session begins when the one it threw out is gone.    *)
(*                                                                         *)
(* Solvent needs that what a save adds is no debt (Saves), and that the    *)
(* threads have jobs that were posted (Posted).  UsurperWaits depends on   *)
(* the order of the queue: while the older session lives, its NET_CLEAR is *)
(* in the queue and before any request of the newer one (Displacement).    *)
(* That a login has one entry in the queue (Logins), that a connection is  *)
(* let in once (FirstRequests, Used), and that only sessions that have     *)
(* begun have jobs (Jobs) is what keeps this true.                         *)
(***************************************************************************)
EXTENDS Session, TLAPS

-----------------------------------------------------------------------------
(* Types, and what the jobs of the pool are.                               *)

Posted ==
  /\ waiting \in Seq(Nat) /\ \A i \in DOMAIN waiting : waiting[i] \in DOMAIN job
  /\ results \in Seq(Nat) /\ \A i \in DOMAIN results : results[i] \in DOMAIN job
  /\ running \in [Workers -> Nat]
  /\ \A w \in Workers : running[w] # 0 => running[w] \in DOMAIN job
Saves == \A j \in DOMAIN job : job[j].kind = "save" => job[j].bp \in Nat
DataInv == Types /\ Posted /\ Saves /\ Solvent

USE DEF Conns, Items

LEMMA Numbers ==
  /\ MaxConns \in Nat /\ StartBP \in Nat /\ Price \in Nat /\ Value \in Nat
  /\ MaxEarned \in Nat /\ MaxItems \in Nat /\ MaxLoads \in Nat
BY SessionNumbersAssumption

\* The states of an object.
LEMMA Objects ==
  ASSUME Types, NEW k \in Conns
  PROVE  /\ obj[k] \in Chars \cup {None, NoChar}
         /\ obj[k] = None => ~ HasChar(k)
         /\ HasChar(k) => /\ obj[k] \in Chars /\ obj[k].bp \in Int
                          /\ obj[k].cache \in Nat /\ obj[k].items \in SUBSET Items
                          /\ obj[k].inStage \in BOOLEAN
<1>1. obj[k] \in Chars \cup {None, NoChar}
  BY DEF Types
<1>2. None.state = "none" /\ NoChar.state = "no char"
  BY DEF None, NoChar
<1> QED BY <1>1, <1>2 DEF HasChar, Chars

\* A job posted is one of those posted.
LEMMA PostedOne ==
  ASSUME Types, Posted, Saves, NEW r \in JobRecords, r.kind = "save" => r.bp \in Nat,
         Post(r)
  PROVE  job' \in Seq(JobRecords) /\ Posted' /\ Saves'
<1>1. /\ job \in Seq(JobRecords) /\ job' = Append(job, r)
      /\ waiting' = Append(waiting, Len(job) + 1) /\ UNCHANGED <<running, results>>
  BY DEF Types, Post, Pool!Post
<1>2. /\ job' \in Seq(JobRecords) /\ DOMAIN job' = 1..(Len(job) + 1)
      /\ job'[Len(job) + 1] = r /\ \A j \in DOMAIN job : j \in DOMAIN job' /\ job'[j] = job[j]
      /\ DOMAIN job = 1..Len(job) /\ Len(job) \in Nat
  BY <1>1
<1>3. /\ waiting' \in Seq(Nat) /\ DOMAIN waiting' = 1..(Len(waiting) + 1)
      /\ waiting'[Len(waiting) + 1] = Len(job) + 1
      /\ \A i \in DOMAIN waiting : waiting'[i] = waiting[i]
      /\ DOMAIN waiting = 1..Len(waiting) /\ Len(waiting) \in Nat
  BY <1>1, <1>2 DEF Posted
<1>4. ASSUME NEW i \in DOMAIN waiting' PROVE waiting'[i] \in DOMAIN job'
  <2>1. CASE i = Len(waiting) + 1
    BY <2>1, <1>2, <1>3
  <2>2. CASE i \in DOMAIN waiting
    <3>1. waiting[i] \in DOMAIN job
      BY <2>2 DEF Posted
    <3> QED BY <2>2, <3>1, <1>2, <1>3
  <2>3. i = Len(waiting) + 1 \/ i \in DOMAIN waiting
    BY <1>3
  <2> QED BY <2>1, <2>2, <2>3
<1>5. Posted'
  BY <1>1, <1>2, <1>3, <1>4 DEF Posted
<1>6. Saves'
  BY <1>2 DEF Saves
<1> QED BY <1>2, <1>5, <1>6

LEMMA PostFlushed ==
  ASSUME Types, Posted, Saves, NEW k \in Conns, PostFlush(k)
  PROVE  job' \in Seq(JobRecords) /\ Posted' /\ Saves'
<1>1. CASE HasChar(k) /\ obj[k].cache # 0
  <2>1. /\ Job("save", k, obj[k].cache, {}) \in JobRecords
        /\ Job("save", k, obj[k].cache, {}).bp \in Nat
    BY <1>1, Objects DEF Job, JobRecords
  <2> QED BY <1>1, <2>1, PostedOne DEF PostFlush
<1>2. CASE ~ (HasChar(k) /\ obj[k].cache # 0)
  BY <1>2 DEF PostFlush, pool, Posted, Saves, Types
<1> QED BY <1>1, <1>2
\* What the handlers make of a character.
LEMMA Characters ==
  ASSUME NEW o \in Chars, NEW n \in Int, NEW m \in Nat, NEW S \in SUBSET Items,
         NEW b \in BOOLEAN
  PROVE  /\ Char(n, S) \in Chars /\ Flushed(o) \in Chars
         /\ [o EXCEPT !.inStage = b] \in Chars
         /\ [o EXCEPT !.bp = n, !.cache = m] \in Chars
         /\ [Flushed(o) EXCEPT !.bp = n, !.items = S] \in Chars
BY DEF Chars, Char, Flushed

\* Handling the first command, with or without adding one.
LEMMA Commands ==
  ASSUME NEW S, NEW s \in Seq(S), s # <<>>, NEW c \in S
  PROVE  /\ Tail(s) \in Seq(S) /\ Append(s, c) \in Seq(S) /\ Append(Tail(s), c) \in Seq(S)
         /\ Len(s) \in Nat \ {0} /\ DOMAIN s = 1..Len(s) /\ Head(s) = s[1]
         /\ DOMAIN Tail(s) = 1..(Len(s) - 1)
         /\ \A i \in DOMAIN Tail(s) : Tail(s)[i] = s[i + 1]
OBVIOUS

LEMMA DataInit == Init => DataInv
<1> SUFFICES ASSUME Init PROVE DataInv
  OBVIOUS
<1>1. Types
  BY Numbers DEF Init, Types, Places, JobRecords, NoResult
<1>2. Posted
  BY DEF Init, Pool!Init, Posted
<1> QED BY <1>1, <1>2, Numbers DEF Init, DataInv, Saves, Solvent

LEMMA DataStart ==
  ASSUME DataInv, NEW w \in Workers, StartJob(w)
  PROVE  DataInv'
<1>1. /\ waiting # <<>> /\ running' = [running EXCEPT ![w] = Head(waiting)]
      /\ waiting' = Tail(waiting) /\ UNCHANGED <<conn, displaced, obj, queue, db, job,
                                                hand, ledger, results>>
  BY DEF StartJob, Pool!Start
<1>2. /\ waiting' \in Seq(Nat) /\ Head(waiting) \in DOMAIN job /\ Head(waiting) \in Nat
      /\ \A i \in DOMAIN waiting' : waiting'[i] \in DOMAIN job
  BY <1>1 DEF DataInv, Posted
<1>3. Posted'
  BY <1>1, <1>2 DEF DataInv, Posted
<1> QED BY <1>1, <1>3 DEF DataInv, Types, Saves, Solvent

LEMMA DataExecute ==
  ASSUME DataInv, NEW w \in Workers, ExecuteJob(w)
  PROVE  DataInv'
<1> DEFINE j == running[w]  r == job[j]
<1>1. /\ j \in DOMAIN job /\ r \in JobRecords /\ r.conn \in Conns /\ r.bp \in Int
      /\ job \in Seq(JobRecords) /\ (r.kind = "save" => r.bp \in Nat)
      /\ db.bp \in Int /\ db.items \in SUBSET Items
  <2>1. j \in DOMAIN job
    BY DEF ExecuteJob, DataInv, Posted
  <2>2. job \in Seq(JobRecords) /\ db.bp \in Int /\ db.items \in SUBSET Items
    BY DEF DataInv, Types
  <2>3. r \in JobRecords
    BY <2>1, <2>2
  <2>4. r.conn \in Conns /\ r.bp \in Int
    BY <2>3 DEF JobRecords
  <2>5. r.kind = "save" => r.bp \in Nat
    BY <2>1 DEF DataInv, Saves
  <2> QED BY <2>1, <2>2, <2>3, <2>4, <2>5
<1>2. PICK a \in JobRecords : job' = [job EXCEPT ![j] = a] /\ a.kind # "save"
  <2>1. /\ Over(r.conn) \in JobRecords /\ Over(r.conn).kind # "save"
        /\ Job("half", r.conn, db.bp, {}) \in JobRecords
        /\ Job("half", r.conn, db.bp, {}).kind # "save"
        /\ Job("read", r.conn, r.bp, db.items) \in JobRecords
        /\ Job("read", r.conn, r.bp, db.items).kind # "save"
    BY <1>1 DEF Over, Job, JobRecords
  <2> QED BY <2>1 DEF ExecuteJob
<1>3. /\ job' \in Seq(JobRecords) /\ DOMAIN job' = DOMAIN job
      /\ \A i \in DOMAIN job : job'[i] = IF i = j THEN a ELSE job[i]
  BY <1>1, <1>2
<1>4. Posted'
  BY <1>3 DEF ExecuteJob, pool, DataInv, Posted
<1>5. Saves'
  BY <1>2, <1>3 DEF DataInv, Saves
<1>6. db' \in [bp : Int, items : SUBSET Items] /\ db'.bp >= 0
  <2>1. db' = db \/ (r.kind = "save" /\ db' = [db EXCEPT !.bp = @ + r.bp])
    BY DEF ExecuteJob
  <2>2. db \in [bp : Int, items : SUBSET Items] /\ db.bp >= 0
    BY DEF DataInv, Types, Solvent
  <2>3. CASE r.kind = "save" /\ db' = [db EXCEPT !.bp = @ + r.bp]
    <3>1. db.bp + r.bp \in Int /\ db.bp + r.bp >= 0
      BY <2>2, <2>3, <1>1
    <3>2. db' \in [bp : Int, items : SUBSET Items] /\ db'.bp = db.bp + r.bp
      BY <2>2, <2>3, <3>1
    <3> QED BY <3>1, <3>2
  <2> QED BY <2>1, <2>2, <2>3
<1>7. ledger' \in [earned : 0..MaxEarned, lost : Nat, bought : 0..MaxItems,
                   chosen : 0..MaxLoads]
  <2>1. ledger' = ledger \/ (r.kind = "save" /\ ledger' = [ledger EXCEPT !.lost = @ + r.bp])
    BY DEF ExecuteJob
  <2> QED BY <2>1, <1>1 DEF DataInv, Types
<1> QED BY <1>3, <1>4, <1>5, <1>6, <1>7 DEF ExecuteJob, DataInv, Types, Solvent

LEMMA DataFinish ==
  ASSUME DataInv, NEW w \in Workers, FinishJob(w)
  PROVE  DataInv'
<1>1. /\ results' = Append(results, running[w]) /\ running' = [running EXCEPT ![w] = 0]
      /\ running[w] # 0 /\ UNCHANGED <<conn, displaced, obj, queue, db, job, hand, ledger, waiting>>
  BY DEF FinishJob, Pool!Finish
<1>2. /\ results' \in Seq(Nat) /\ \A i \in DOMAIN results' : results'[i] \in DOMAIN job
  BY <1>1 DEF DataInv, Posted
<1>3. Posted'
  BY <1>1, <1>2 DEF DataInv, Posted
<1> QED BY <1>1, <1>3 DEF DataInv, Types, Saves, Solvent

LEMMA DataCollect ==
  ASSUME DataInv, CollectResult
  PROVE  DataInv'
<1> DEFINE j == Head(results)
<1>1. /\ results # <<>> /\ results' = Tail(results) /\ hand' = job[j]
      /\ job' = [job EXCEPT ![j] = Over(job[j].conn)]
      /\ UNCHANGED <<conn, displaced, obj, queue, db, ledger, waiting, running>>
  BY DEF CollectResult, Pool!Collect
<1>2. /\ j \in DOMAIN job /\ results' \in Seq(Nat)
      /\ \A i \in DOMAIN results' : results'[i] \in DOMAIN job
  BY <1>1 DEF DataInv, Posted
<1>3. /\ job[j] \in JobRecords /\ job[j].conn \in Conns /\ job \in Seq(JobRecords)
  <2>1. job \in Seq(JobRecords)
    BY DEF DataInv, Types
  <2>2. job[j] \in JobRecords
    BY <2>1, <1>2
  <2> QED BY <2>1, <2>2 DEF JobRecords
<1>4. Over(job[j].conn) \in JobRecords /\ Over(job[j].conn).kind = "over"
  BY <1>3 DEF Over, Job, JobRecords
<1>5. job' \in Seq(JobRecords) /\ DOMAIN job' = DOMAIN job
  BY <1>1, <1>2, <1>3, <1>4
<1>6. Posted'
  BY <1>1, <1>2, <1>5 DEF DataInv, Posted
<1>7. Saves'
  BY <1>1, <1>2, <1>3, <1>4, <1>5 DEF DataInv, Saves
<1> QED BY <1>1, <1>3, <1>5, <1>6, <1>7 DEF DataInv, Types, Solvent

\* An action that changes neither the pool nor the database.
LEMMA DataQuiet ==
  ASSUME DataInv, Types', UNCHANGED <<db, job, pool>>
  PROVE  DataInv'
BY DEF DataInv, Posted, Saves, Solvent, pool

LEMMA DataResult ==
  ASSUME DataInv, HandleResult
  PROVE  DataInv'
<1>1. CASE hand.kind = "read" /\ obj[hand.conn] # None
  <2>1. hand \in JobRecords
    BY DEF HandleResult, DataInv, Types
  <2>2. hand.conn \in Conns /\ Char(hand.bp, hand.items) \in Chars
    BY <2>1, Characters DEF JobRecords, Char, Chars
  <2>3. PostFlush(hand.conn)
    BY <1>1 DEF HandleResult
  <2>4. job' \in Seq(JobRecords) /\ Posted' /\ Saves'
    BY <2>2, <2>3, PostFlushed DEF DataInv
  <2>5. /\ obj' \in [Conns -> Chars \cup {None, NoChar}]
        /\ conn' \in [Conns -> Places]
    <3>1. /\ obj' = [obj EXCEPT ![hand.conn] = Char(hand.bp, hand.items)]
          /\ conn' = [conn EXCEPT ![hand.conn] = "active"]
      BY <1>1 DEF HandleResult
    <3>2. "active" \in Places
      BY DEF Places, Inside
    <3> QED BY <2>2, <3>1, <3>2 DEF DataInv, Types
  <2> QED BY <2>4, <2>5 DEF HandleResult, DataInv, Types, Solvent
<1>2. CASE ~ (hand.kind = "read" /\ obj[hand.conn] # None)
  <2>1. UNCHANGED <<obj, conn, job, pool>> /\ UNCHANGED <<displaced, queue, db, ledger>>
    BY <1>2 DEF HandleResult
  <2>2. Types'
    BY <2>1 DEF HandleResult, DataInv, Types
  <2> QED BY <2>1, <2>2, DataQuiet
<1> QED BY <1>1, <1>2

Entries == {"login", "request", "clear"} \X Conns

LEMMA DataSend ==
  ASSUME DataInv, NEW k \in Conns, SendLogin(k) \/ Ask(k) \/ Close(k)
  PROVE  DataInv'
<1>1. PICK c \in Entries : queue' = Append(queue, c)
  BY DEF SendLogin, Ask, Close, Entries
<1>2. queue' \in Seq(Entries)
  BY <1>1 DEF DataInv, Types, Entries
<1>3. conn' \in [Conns -> Places]
  BY DEF SendLogin, Ask, Close, DataInv, Types, Places, Inside
<1>4. UNCHANGED <<displaced, obj, db, job, hand, ledger, pool>>
  BY DEF SendLogin, Ask, Close
<1>5. Types'
  BY <1>2, <1>3, <1>4 DEF DataInv, Types, Entries
<1> QED BY <1>4, <1>5, DataQuiet

LEMMA DataFirst ==
  ASSUME DataInv, NEW k \in Conns, FirstRequest(k)
  PROVE  DataInv'
<1>1. queue' \in Seq(Entries)
  BY DEF FirstRequest, DataInv, Types, Entries
<1>2. conn' \in [Conns -> Places]
  BY DEF FirstRequest, DataInv, Types, Places, Inside
<1>3. UNCHANGED <<displaced, obj, db, job, hand, ledger, pool>>
  BY DEF FirstRequest
<1>4. Types'
  BY <1>1, <1>2, <1>3 DEF DataInv, Types, Entries
<1> QED BY <1>3, <1>4, DataQuiet

\* What a login does to the queue and to the sessions it throws out.
LEMMA Thrown ==
  ASSUME Types, NEW k \in Conns, NEW outcome \in DOMAIN After, Login(k, outcome)
  PROVE  /\ queue # <<>> /\ queue[1] = <<"login", k>>
         /\ \E old \in SUBSET Conns :
              /\ displaced' = [displaced EXCEPT ![k] = @ \cup old]
              /\ old \subseteq Found
              /\ old = {} => queue' = Tail(queue)
              /\ \A j \in old : queue' = Append(Tail(queue), <<"clear", j>>)
              /\ outcome \in {"refused", "gone"} => old = {}
<1> DEFINE old == IF outcome \in {"ok", "blocked"} /\ ~ debug THEN Found ELSE {}
<1>1. queue # <<>> /\ queue[1] = <<"login", k>>
  BY DEF Login, Types
<1>2. old \in SUBSET Conns /\ old \subseteq Found
  BY DEF Found
<1>3. /\ displaced' = [displaced EXCEPT ![k] = @ \cup old]
      /\ queue' = IF old = {} THEN Tail(queue)
                  ELSE Append(Tail(queue), <<"clear", CHOOSE j \in old : TRUE>>)
  BY DEF Login
<1>4. \A i, j \in old : i = j
  BY Numbers DEF Found
<1>5. \A j \in old : queue' = Append(Tail(queue), <<"clear", j>>)
  <2> SUFFICES ASSUME NEW j \in old PROVE (CHOOSE i \in old : TRUE) = j
    BY <1>3
  <2>1. (CHOOSE i \in old : TRUE) \in old
    OBVIOUS
  <2> QED BY <2>1, <1>4
<1>6. outcome \in {"refused", "gone"} => old = {}
  OBVIOUS
<1> QED BY <1>1, <1>2, <1>3, <1>5, <1>6

LEMMA DataLogin ==
  ASSUME DataInv, NEW k \in Conns, NEW outcome \in DOMAIN After, Login(k, outcome)
  PROVE  DataInv'
<1>1. queue' \in Seq(Entries) /\ displaced' \in [Conns -> SUBSET Conns]
  <2>1. PICK old \in SUBSET Conns :
          /\ displaced' = [displaced EXCEPT ![k] = @ \cup old]
          /\ old = {} => queue' = Tail(queue)
          /\ \A j \in old : queue' = Append(Tail(queue), <<"clear", j>>)
    BY Thrown DEF DataInv
  <2>2. queue # <<>> /\ queue \in Seq(Entries) /\ \A j \in old : <<"clear", j>> \in Entries
    BY Thrown DEF DataInv, Types, Entries
  <2>3. queue' \in Seq(Entries)
    <3>1. Tail(queue) \in Seq(Entries)
      BY <2>2
    <3>2. CASE queue' = Tail(queue)
      BY <3>1, <3>2
    <3>3. CASE \E j \in old : queue' = Append(Tail(queue), <<"clear", j>>)
      BY <3>1, <3>3, <2>2
    <3> QED BY <2>1, <3>2, <3>3
  <2>4. displaced' \in [Conns -> SUBSET Conns]
    BY <2>1 DEF DataInv, Types
  <2> QED BY <2>3, <2>4
<1>2. conn' \in [Conns -> Places]
  <2>1. After[outcome] \in {"answered", "open", "closed"}
    BY DEF After
  <2>2. After[outcome] \in Places
    BY <2>1 DEF Places, Inside
  <2>3. conn' = [conn EXCEPT ![k] = After[outcome]]
    BY DEF Login
  <2> QED BY <2>2, <2>3 DEF DataInv, Types
<1>3. obj' \in [Conns -> Chars \cup {None, NoChar}]
  BY DEF Login, DataInv, Types
<1>4. UNCHANGED <<db, job, hand, ledger, pool>>
  BY DEF Login
<1>5. Types'
  BY <1>1, <1>2, <1>3, <1>4 DEF DataInv, Types, Entries
<1> QED BY <1>4, <1>5, DataQuiet

LEMMA DataClear ==
  ASSUME DataInv, NEW k \in Conns, NetClear(k)
  PROVE  DataInv'
<1>1. job' \in Seq(JobRecords) /\ Posted' /\ Saves'
  BY PostFlushed DEF NetClear, DataInv
<1>2. queue' \in Seq(Entries)
  BY DEF NetClear, DataInv, Types, Entries
<1>3. conn' \in [Conns -> Places] /\ obj' \in [Conns -> Chars \cup {None, NoChar}]
  BY DEF NetClear, DataInv, Types, Places
<1> QED BY <1>1, <1>2, <1>3 DEF NetClear, DataInv, Types, Solvent, Entries

\* Requests leave the connections and the queue alone, and every object that
\* was there is there, with a character where there was one.
LEMMA Played ==
  ASSUME DataInv, NEW k \in Conns, Play(k)
  PROVE  /\ hand = NoResult /\ conn[k] = "active" /\ UNCHANGED <<displaced, queue, hand>>
         /\ \/ SelectChar(k)
            \/ /\ conn' = conn /\ HasChar(k)
               /\ \E o \in Chars : obj' = [obj EXCEPT ![k] = o]
<1> DEFINE o == obj[k]
<1>1. Requests(k)
  BY DEF Play, SelectChar, EnterStage, LeaveBattle, LeaveStage, Earn, BuyItem, SellItem
<1>2. HasChar(k) => /\ o \in Chars /\ o.bp \in Int /\ o.cache \in Nat
                    /\ o.items \in SUBSET Items /\ o.inStage \in BOOLEAN
  BY Objects DEF DataInv
<1>3. ledger.bought \in 0..MaxItems
  BY DEF DataInv, Types
<1>4. CASE EnterStage(k) \/ LeaveStage(k)
  <2>1. PICK b \in BOOLEAN : obj' = [obj EXCEPT ![k].inStage = b] /\ conn' = conn /\ HasChar(k)
    BY <1>4 DEF EnterStage, LeaveStage
  <2>2. [o EXCEPT !.inStage = b] \in Chars
    BY <2>1, <1>2 DEF Chars
  <2> QED BY <2>1, <2>2, <1>1 DEF Requests
<1>5. CASE LeaveBattle(k)
  <2>1. obj' = [obj EXCEPT ![k] = Flushed(o)] /\ conn' = conn /\ HasChar(k)
    BY <1>5 DEF LeaveBattle
  <2>2. Flushed(o) \in Chars
    BY <2>1, <1>2 DEF Flushed, Chars
  <2> QED BY <2>1, <2>2, <1>1 DEF Requests
<1>6. CASE Earn(k)
  <2>1. /\ obj' = [obj EXCEPT ![k] = [o EXCEPT !.bp = o.bp + 1, !.cache = o.cache + 1]]
        /\ conn' = conn /\ HasChar(k)
    BY <1>6 DEF Earn
  <2>2. o \in Chars /\ o.bp + 1 \in Int /\ o.cache + 1 \in Nat
    BY <2>1, <1>2
  <2>3. [o EXCEPT !.bp = o.bp + 1, !.cache = o.cache + 1] \in Chars
    BY <2>2, Characters, FALSE \in BOOLEAN
  <2> QED BY <2>1, <2>3, <1>1 DEF Requests
<1>7. ASSUME HasChar(k), NEW n \in Int, NEW S \in SUBSET Items
      PROVE  [Flushed(o) EXCEPT !.bp = n, !.items = S] \in Chars /\ Flushed(o) \in Chars
  BY <1>7, <1>2 DEF Flushed, Chars
<1>8. CASE BuyItem(k)
  <2>1. CASE Afforded
    <3> DEFINE i == ledger.bought + 1
    <3>1. /\ i \in Items /\ conn' = conn /\ HasChar(k)
          /\ obj' = [obj EXCEPT ![k] = Bought(o, i)]
      <4>1. i \in Items
        BY <1>8, <2>1, <1>3, Numbers DEF BuyItem
      <4>2. conn' = conn /\ HasChar(k)
        BY <1>8 DEF BuyItem
      <4>3. obj' = [obj EXCEPT ![k] = Bought(o, i)]
        BY <1>8, <2>1 DEF BuyItem
      <4> QED BY <4>1, <4>2, <4>3
    <3>2. Flushed(o).bp \in Int /\ Flushed(o).items \in SUBSET Items
      BY <3>1, <1>2 DEF Flushed, Chars
    <3>3. /\ Flushed(o).bp - Price \in Int /\ Flushed(o).items \cup {i} \in SUBSET Items
      BY <3>1, <3>2, Numbers
    <3>4. Bought(o, i) \in Chars
      BY <3>1, <3>3, <1>7 DEF Bought
    <3> QED BY <3>1, <3>4, <1>1 DEF Requests
  <2>2. CASE ~ Afforded
    <3>1. obj' = [obj EXCEPT ![k] = Flushed(o)] /\ conn' = conn /\ HasChar(k)
      BY <1>8, <2>2 DEF BuyItem
    <3> QED BY <3>1, <1>2, <1>7, <1>1 DEF Requests
  <2> QED BY <2>1, <2>2
<1>9. ASSUME NEW item \in Items, SellItem(k, item)
      PROVE  /\ conn' = conn /\ HasChar(k)
             /\ \E q \in Chars : obj' = [obj EXCEPT ![k] = q]
  <2>1. CASE item \in db.items
    <3>1. /\ conn' = conn /\ HasChar(k)
          /\ obj' = [obj EXCEPT ![k] = Sold(o, item)]
      BY <1>9, <2>1 DEF SellItem
    <3>2. Flushed(o).bp \in Int /\ Flushed(o).items \in SUBSET Items
      BY <3>1, <1>2 DEF Flushed, Chars
    <3>3. /\ Flushed(o).bp + Value \in Int /\ Flushed(o).items \ {item} \in SUBSET Items
      BY <3>1, <3>2, Numbers
    <3>4. Sold(o, item) \in Chars
      BY <3>1, <3>3, <1>7 DEF Sold
    <3> QED BY <3>1, <3>4
  <2>2. CASE item \notin db.items
    <3>1. obj' = [obj EXCEPT ![k] = Flushed(o)] /\ conn' = conn /\ HasChar(k)
      BY <1>9, <2>2 DEF SellItem
    <3> QED BY <3>1, <1>2, <1>7
  <2> QED BY <2>1, <2>2
<1> QED BY <1>1, <1>4, <1>5, <1>6, <1>8, <1>9 DEF Play, Requests

LEMMA DataPlay ==
  ASSUME DataInv, NEW k \in Conns, Play(k)
  PROVE  DataInv'
<1>1. obj' \in [Conns -> Chars \cup {None, NoChar}] /\ conn' \in [Conns -> Places]
  <2>1. CASE SelectChar(k)
    BY <2>1 DEF SelectChar, DataInv, Types, Places, Inside
  <2>2. CASE conn' = conn /\ \E o \in Chars : obj' = [obj EXCEPT ![k] = o]
    BY <2>2 DEF DataInv, Types
  <2> QED BY <2>1, <2>2, Played
<1>2. /\ db.bp \in Int /\ db.bp >= 0 /\ db.items \in SUBSET Items
      /\ db \in [bp : Int, items : SUBSET Items] /\ ledger.bought \in 0..MaxItems
      /\ ledger.earned \in 0..MaxEarned /\ ledger.chosen \in 0..MaxLoads
      /\ ledger \in [earned : 0..MaxEarned, lost : Nat, bought : 0..MaxItems,
                     chosen : 0..MaxLoads]
  BY DEF DataInv, Types, Solvent
<1>3. job' \in Seq(JobRecords) /\ Posted' /\ Saves'
  <2>1. CASE SelectChar(k)
    <3>1. Job("load", k, 0, {}) \in JobRecords /\ Job("load", k, 0, {}).kind # "save"
      BY DEF Job, JobRecords
    <3> QED BY <2>1, <3>1, PostedOne DEF SelectChar, DataInv
  <2>2. CASE PostFlush(k)
    BY <2>2, PostFlushed DEF DataInv
  <2>3. CASE UNCHANGED <<job, pool>>
    BY <2>3 DEF DataInv, Types, Posted, Saves, pool
  <2> QED BY <2>1, <2>2, <2>3 DEF Play, EnterStage, LeaveBattle, LeaveStage, Earn, BuyItem, SellItem
<1>4. db' \in [bp : Int, items : SUBSET Items] /\ db'.bp >= 0
  <2>1. CASE BuyItem(k) /\ db' # db
    <3>1. /\ ledger.bought + 1 \in Items /\ db.bp - Price \in Int /\ db.bp - Price >= 0
          /\ db' = [db EXCEPT !.bp = @ - Price, !.items = @ \cup {ledger.bought + 1}]
      BY <2>1, <1>2, Numbers DEF BuyItem, Afforded
    <3> QED BY <3>1, <1>2
  <2>2. ASSUME NEW item \in Items, SellItem(k, item), db' # db
        PROVE  db' \in [bp : Int, items : SUBSET Items] /\ db'.bp >= 0
    <3>1. /\ db.bp + Value \in Int /\ db.bp + Value >= 0
          /\ db' = [db EXCEPT !.bp = @ + Value, !.items = @ \ {item}]
      BY <2>2, <1>2, Numbers DEF SellItem
    <3> QED BY <3>1, <1>2
  <2>3. CASE db' = db
    BY <2>3, <1>2
  <2> QED BY <2>1, <2>2, <2>3 DEF Play, SelectChar, EnterStage, LeaveBattle, LeaveStage, Earn
<1>5. ledger' \in [earned : 0..MaxEarned, lost : Nat, bought : 0..MaxItems,
                   chosen : 0..MaxLoads]
  <2>1. CASE SelectChar(k)
    BY <2>1, <1>2, Numbers DEF SelectChar
  <2>2. CASE Earn(k)
    BY <2>2, <1>2, Numbers DEF Earn
  <2>3. CASE BuyItem(k)
    BY <2>3, <1>2, Numbers DEF BuyItem
  <2>4. CASE ledger' = ledger
    BY <2>4, <1>2
  <2> QED BY <2>1, <2>2, <2>3, <2>4 DEF Play, EnterStage, LeaveBattle, LeaveStage, SellItem
<1>6. UNCHANGED <<displaced, queue, hand>>
  BY Played
<1> QED BY <1>1, <1>3, <1>4, <1>5, <1>6 DEF DataInv, Types, Solvent

LEMMA DataStep == DataInv /\ [Next]_vars => DataInv'
<1> SUFFICES ASSUME DataInv, [Next]_vars PROVE DataInv'
  OBVIOUS
<1>1. CASE HandleCommand
  BY <1>1, DataLogin, DataFirst, DataClear DEF HandleCommand
<1>2. CASE \E w \in Workers : RunJob(w)
  BY <1>2, DataStart, DataExecute, DataFinish DEF RunJob
<1>3. CASE CollectResult \/ HandleResult
  BY <1>3, DataCollect, DataResult
<1>4. CASE \E k \in Conns : SendLogin(k) \/ Ask(k) \/ Close(k) \/ Play(k)
  BY <1>4, DataSend, DataPlay
<1>5. CASE UNCHANGED vars
  BY <1>5, DataQuiet DEF vars, DataInv, Types
<1> QED BY <1>1, <1>2, <1>3, <1>4, <1>5 DEF Next

LEMMA DataInvariance == Spec => []DataInv
BY DataInit, DataStep, PTL DEF Spec

\* The bounty in the database is never negative, for any prices and earnings,
\* whatever the sessions believe it to be and however late saves come.
THEOREM NobodyOwes == Spec => []Solvent
<1>1. DataInv => Solvent
  BY DEF DataInv
<1> QED BY <1>1, DataInvariance, PTL

-----------------------------------------------------------------------------
(* Connections and the order of the queue.                                 *)

Begun(c, k) == c[k] \in {"active", "choosing", "closed"}
Logins ==
  \A k \in Conns, i \in DOMAIN queue : queue[i] = <<"login", k>> =>
    /\ conn[k] \in {"logging in", "closed"}
    /\ \A j \in DOMAIN queue : queue[j] = <<"login", k>> => i = j
FirstRequests ==
  \A k \in Conns, i \in DOMAIN queue : queue[i] = <<"request", k>> =>
    conn[k] \notin {"open", "logging in", "answered"}
Used == \A k \in Conns : \A old \in displaced[k] : conn[old] \in Inside \cup {"closed"}
ClearedBefore(q, old, k) ==
  \E i \in DOMAIN q :
    /\ q[i] = <<"clear", old>>
    /\ \A j \in DOMAIN q : q[j] = <<"request", k>> => i < j
Displacement ==
  \A k \in Conns : \A old \in displaced[k] : obj[old] # None =>
    conn[k] \notin {"active", "choosing"} /\ ClearedBefore(queue, old, k)
Jobs ==
  /\ \A j \in DOMAIN job : Begun(conn, job[j].conn)
  /\ hand # NoResult => Begun(conn, hand.conn)
OrderInv == NoGhost /\ Logins /\ FirstRequests /\ Used /\ Displacement /\ Jobs

\* A command at the end of the queue.
LEMMA Put ==
  ASSUME NEW s \in Seq(Entries), NEW c \in Entries
  PROVE  /\ Append(s, c) \in Seq(Entries) /\ Len(s) \in Nat /\ DOMAIN s = 1..Len(s)
         /\ DOMAIN Append(s, c) = 1..(Len(s) + 1) /\ Append(s, c)[Len(s) + 1] = c
         /\ \A i \in DOMAIN s : i \in DOMAIN Append(s, c) /\ Append(s, c)[i] = s[i]
         /\ \A i \in DOMAIN Append(s, c) : i \in DOMAIN s \/ i = Len(s) + 1
OBVIOUS

LEMMA PutKeeps ==
  ASSUME NEW s \in Seq(Entries), NEW c \in Entries, NEW old, NEW k, ClearedBefore(s, old, k)
  PROVE  ClearedBefore(Append(s, c), old, k)
<1>1. PICK i \in DOMAIN s : /\ s[i] = <<"clear", old>>
                           /\ \A j \in DOMAIN s : s[j] = <<"request", k>> => i < j
  BY DEF ClearedBefore
<1>2. i \in DOMAIN Append(s, c) /\ Append(s, c)[i] = <<"clear", old>> /\ i < Len(s) + 1
  BY <1>1, Put
<1>3. ASSUME NEW j \in DOMAIN Append(s, c), Append(s, c)[j] = <<"request", k>> PROVE i < j
  BY <1>1, <1>2, <1>3, Put
<1> QED BY <1>2, <1>3 DEF ClearedBefore

\* The first command taken from the queue.
LEMMA Take ==
  ASSUME NEW s \in Seq(Entries), s # <<>>
  PROVE  /\ Tail(s) \in Seq(Entries) /\ 1 \in DOMAIN s /\ Head(s) = s[1]
         /\ \A i \in DOMAIN Tail(s) : /\ i \in Nat \ {0} /\ i + 1 \in DOMAIN s
                                     /\ Tail(s)[i] = s[i + 1]
         /\ \A i \in DOMAIN s : i = 1 \/ (i - 1 \in DOMAIN Tail(s) /\ Tail(s)[i - 1] = s[i])
         /\ DOMAIN s \subseteq Nat
<1>1. /\ Len(s) \in Nat \ {0} /\ DOMAIN s = 1..Len(s) /\ Tail(s) \in Seq(Entries)
      /\ Head(s) = s[1] /\ DOMAIN Tail(s) = 1..(Len(s) - 1)
      /\ \A i \in DOMAIN Tail(s) : Tail(s)[i] = s[i + 1]
  OBVIOUS
<1>2. \A i \in DOMAIN Tail(s) : i \in Nat \ {0} /\ i + 1 \in DOMAIN s
  BY <1>1
<1>3. ASSUME NEW i \in DOMAIN s, i # 1
      PROVE  i - 1 \in DOMAIN Tail(s) /\ Tail(s)[i - 1] = s[i]
  <2>1. i - 1 \in DOMAIN Tail(s) /\ (i - 1) + 1 = i
    BY <1>1, <1>3
  <2> QED BY <2>1, <1>1
<1> QED BY <1>1, <1>2, <1>3

LEMMA TakeKeeps ==
  ASSUME NEW s \in Seq(Entries), s # <<>>, NEW old, NEW k, ClearedBefore(s, old, k),
         s[1] # <<"clear", old>>
  PROVE  ClearedBefore(Tail(s), old, k)
<1>1. PICK i \in DOMAIN s : /\ s[i] = <<"clear", old>>
                           /\ \A j \in DOMAIN s : s[j] = <<"request", k>> => i < j
  BY DEF ClearedBefore
<1>2. i - 1 \in DOMAIN Tail(s) /\ Tail(s)[i - 1] = <<"clear", old>> /\ i \in Nat
  BY <1>1, Take
<1>3. ASSUME NEW j \in DOMAIN Tail(s), Tail(s)[j] = <<"request", k>> PROVE i - 1 < j
  <2>1. j \in Nat /\ j + 1 \in DOMAIN s /\ s[j + 1] = <<"request", k>>
    BY <1>3, Take
  <2> QED BY <2>1, <1>1, <1>2
<1> QED BY <1>2, <1>3 DEF ClearedBefore

\* The connections of the jobs after a save is posted, or not.
LEMMA SavedConns ==
  ASSUME Types, NEW k \in Conns, PostFlush(k)
  PROVE  \A j \in DOMAIN job' : job'[j].conn = k \/ (j \in DOMAIN job /\ job'[j] = job[j])
<1>1. CASE job' = job
  BY <1>1
<1>2. CASE job' = Append(job, Job("save", k, obj[k].cache, {}))
  <2>1. job \in Seq(JobRecords) /\ Job("save", k, obj[k].cache, {}).conn = k
    BY DEF Types, Job
  <2> QED BY <2>1, <1>2
<1> QED BY <1>1, <1>2 DEF PostFlush, Post

\* The connections of jobs and results are connections, and have begun.
LEMMA JobConns ==
  ASSUME DataInv, OrderInv
  PROVE  /\ \A j \in DOMAIN job : job[j].conn \in Conns /\ Begun(conn, job[j].conn)
         /\ hand # NoResult => hand.conn \in Conns /\ Begun(conn, hand.conn)
<1>1. job \in Seq(JobRecords) /\ (hand # NoResult => hand \in JobRecords)
  BY DEF DataInv, Types
<1>2. \A j \in DOMAIN job : job[j] \in JobRecords
  BY <1>1
<1>3. \A r \in JobRecords : r.conn \in Conns
  BY DEF JobRecords
<1> QED BY <1>1, <1>2, <1>3 DEF OrderInv, Jobs

LEMMA OrderInit == Init => OrderInv
BY DEF Init, OrderInv, NoGhost, Logins, FirstRequests, Used, Displacement, Jobs, Inside, NoResult

\* Actions that leave connections, the queue and who has an object alone.
LEMMA Quiet ==
  ASSUME Types, OrderInv, UNCHANGED <<conn, displaced, queue>>, Jobs',
         \A k \in Conns : obj'[k] = None <=> obj[k] = None
  PROVE  OrderInv'
<1>1. NoGhost' /\ Logins' /\ FirstRequests' /\ Used'
  BY DEF OrderInv, NoGhost, Logins, FirstRequests, Used
<1>2. \A k \in Conns : displaced[k] \subseteq Conns
  BY DEF Types
<1>3. Displacement'
  BY <1>2 DEF OrderInv, Displacement
<1> QED BY <1>1, <1>3 DEF OrderInv

\* A session that has begun goes on.
LEMMA Advance ==
  ASSUME Types, OrderInv, UNCHANGED <<displaced, queue>>, Jobs', NEW k \in Conns,
         conn[k] \in {"active", "choosing"}, NEW c \in {"active", "choosing"},
         conn' = [conn EXCEPT ![k] = c],
         \A i \in Conns : obj'[i] = None <=> obj[i] = None
  PROVE  OrderInv'
<1>1. \A i \in Conns : displaced[i] \subseteq Conns /\ conn'[i] = IF i = k THEN c ELSE conn[i]
  BY DEF Types
<1>2. NoGhost'
  BY <1>1 DEF OrderInv, NoGhost, Inside
<1>3. Logins' /\ FirstRequests'
  BY <1>1 DEF OrderInv, Logins, FirstRequests
<1>4. Used'
  BY <1>1 DEF OrderInv, Used, Inside
<1>5. Displacement'
  BY <1>1 DEF OrderInv, Displacement
<1> QED BY <1>2, <1>3, <1>4, <1>5 DEF OrderInv

LEMMA OrderPool ==
  ASSUME DataInv, OrderInv, NEW w \in Workers, RunJob(w)
  PROVE  OrderInv'
<1>1. UNCHANGED <<conn, displaced, queue, obj, hand>>
  BY DEF RunJob, StartJob, ExecuteJob, FinishJob
<1>2. CASE ExecuteJob(w)
  <2> DEFINE j == running[w]
  <2>1. PICK a : job' = [job EXCEPT ![j] = a] /\ a.conn = job[j].conn
    BY <1>2 DEF ExecuteJob, Over, Job
  <2>2. job \in Seq(JobRecords) /\ j \in DOMAIN job
    BY <1>2 DEF ExecuteJob, DataInv, Types, Posted
  <2>3. DOMAIN job' = DOMAIN job /\ \A i \in DOMAIN job : job'[i].conn = job[i].conn
    BY <2>1, <2>2
  <2>4. Jobs'
    BY <2>3, <1>1 DEF OrderInv, Jobs, Begun
  <2> QED BY <1>1, <2>4, Quiet DEF DataInv
<1>3. CASE StartJob(w) \/ FinishJob(w)
  <2>1. Jobs'
    BY <1>1, <1>3 DEF StartJob, FinishJob, OrderInv, Jobs, Begun
  <2> QED BY <1>1, <2>1, Quiet DEF DataInv
<1> QED BY <1>2, <1>3 DEF RunJob

LEMMA OrderCollect ==
  ASSUME DataInv, OrderInv, CollectResult
  PROVE  OrderInv'
<1> DEFINE j == Head(results)
<1>1. /\ results # <<>> /\ hand' = job[j] /\ job' = [job EXCEPT ![j] = Over(job[j].conn)]
      /\ UNCHANGED <<conn, displaced, obj, queue>>
  BY DEF CollectResult, Pool!Collect
<1>2. j \in DOMAIN job /\ job \in Seq(JobRecords) /\ Over(job[j].conn).conn = job[j].conn
  BY <1>1 DEF DataInv, Posted, Types, Over, Job
<1>3. DOMAIN job' = DOMAIN job /\ \A i \in DOMAIN job : job'[i].conn = job[i].conn
  BY <1>1, <1>2
<1>4. Jobs'
  BY <1>1, <1>2, <1>3 DEF OrderInv, Jobs, Begun
<1> QED BY <1>1, <1>4, Quiet DEF DataInv

LEMMA OrderResult ==
  ASSUME DataInv, OrderInv, HandleResult
  PROVE  OrderInv'
<1>1. CASE hand.kind = "read" /\ obj[hand.conn] # None
  <2>k. PICK k \in Conns : k = hand.conn
    BY <1>1 DEF HandleResult, DataInv, Types, JobRecords
  <2>1. /\ obj' = [obj EXCEPT ![k] = Char(hand.bp, hand.items)]
        /\ conn' = [conn EXCEPT ![k] = "active"] /\ PostFlush(k) /\ hand' = NoResult
        /\ UNCHANGED <<displaced, queue>>
    BY <1>1, <2>k DEF HandleResult
  <2>2. obj[k] # None /\ Begun(conn, k)
    BY <1>1, <2>k DEF HandleResult, OrderInv, Jobs
  <2>3. conn[k] \in {"active", "choosing"}
    BY <2>2 DEF OrderInv, Begun, NoGhost, Inside
  <2>4. \A i \in Conns : obj'[i] = None <=> obj[i] = None
    BY <2>1, <2>2 DEF DataInv, Types, Char, None
  <2>5. \A i \in Conns : Begun(conn, i) => Begun(conn', i)
    BY <2>1, <2>2 DEF DataInv, Types, Begun
  <2>6. Jobs'
    <3>1. ASSUME NEW j \in DOMAIN job' PROVE Begun(conn', job'[j].conn)
      <4>1. job'[j].conn = k \/ (j \in DOMAIN job /\ job'[j] = job[j])
        BY <2>1, SavedConns DEF DataInv
      <4>2. ASSUME j \in DOMAIN job PROVE job[j].conn \in Conns /\ Begun(conn, job[j].conn)
        BY <4>2, JobConns
      <4>3. Begun(conn', k)
        BY <2>1, <2>2 DEF DataInv, Types, Begun
      <4> QED BY <4>1, <4>2, <4>3, <2>5
    <3> QED BY <2>1, <3>1 DEF Jobs
  <2> QED BY <2>1, <2>2, <2>3, <2>4, <2>6, Advance DEF DataInv
<1>2. CASE ~ (hand.kind = "read" /\ obj[hand.conn] # None)
  <2>1. UNCHANGED <<obj, conn, job, displaced, queue>> /\ hand' = NoResult
    BY <1>2 DEF HandleResult
  <2>2. Jobs'
    BY <2>1 DEF OrderInv, Jobs, Begun
  <2> QED BY <2>1, <2>2, Quiet DEF DataInv
<1> QED BY <1>1, <1>2

LEMMA OrderPlay ==
  ASSUME DataInv, OrderInv, NEW k \in Conns, Play(k)
  PROVE  OrderInv'
<1>1. hand' = hand /\ conn[k] = "active" /\ UNCHANGED <<displaced, queue>>
  BY Played
<1>2. \A j \in DOMAIN job' : job'[j].conn = k \/ (j \in DOMAIN job /\ job'[j] = job[j])
  <2>1. CASE SelectChar(k)
    <3>1. job' = Append(job, Job("load", k, 0, {})) /\ job \in Seq(JobRecords)
      BY <2>1 DEF SelectChar, Post, DataInv, Types
    <3>2. Job("load", k, 0, {}).conn = k
      BY DEF Job
    <3> QED BY <3>1, <3>2
  <2>2. CASE PostFlush(k)
    BY <2>2, SavedConns DEF DataInv
  <2>3. CASE job' = job
    BY <2>3
  <2> QED BY <2>1, <2>2, <2>3 DEF Play, EnterStage, LeaveBattle, LeaveStage, Earn, BuyItem, SellItem
<1>3. ASSUME NEW c \in {"active", "choosing"}, conn' = [conn EXCEPT ![k] = c] PROVE Jobs'
  <2>1. \A i \in Conns : Begun(conn, i) => Begun(conn', i)
    BY <1>3 DEF DataInv, Types, Begun
  <2>2. Begun(conn', k)
    BY <1>3 DEF DataInv, Types, Begun
  <2> QED BY <1>1, <1>2, <2>1, <2>2, JobConns DEF Jobs
<1>4. CASE SelectChar(k)
  <2>1. conn' = [conn EXCEPT ![k] = "choosing"] /\ obj' = obj
    BY <1>4 DEF SelectChar
  <2> QED BY <1>1, <1>3, <2>1, Advance DEF DataInv
<1>5. CASE conn' = conn /\ HasChar(k) /\ \E o \in Chars : obj' = [obj EXCEPT ![k] = o]
  <2>1. \A i \in Conns : obj'[i] = None <=> obj[i] = None
    BY <1>5 DEF DataInv, Types, Chars, None, HasChar
  <2>2. conn' = [conn EXCEPT ![k] = "active"]
    BY <1>1, <1>5 DEF DataInv, Types
  <2> QED BY <1>1, <1>3, <2>1, <2>2, Advance DEF DataInv
<1> QED BY <1>4, <1>5, Played

\* Commands that arrive: a login, a first request, the end of a connection.
LEMMA OrderSend ==
  ASSUME DataInv, OrderInv, NEW k \in Conns, SendLogin(k) \/ Ask(k) \/ Close(k)
  PROVE  OrderInv'
<1>1. PICK c \in Entries :
        /\ queue' = Append(queue, c)
        /\ \/ c = <<"login", k>> /\ conn[k] = "open" /\ conn' = [conn EXCEPT ![k] = "logging in"]
           \/ c = <<"request", k>> /\ conn[k] = "answered" /\ conn' = [conn EXCEPT ![k] = "asking"]
           \/ c = <<"clear", k>> /\ conn' = conn
  BY DEF SendLogin, Ask, Close, Entries
<1>2. /\ UNCHANGED <<displaced, obj, job, hand>> /\ queue \in Seq(Entries)
      /\ \A x \in Conns : displaced[x] \subseteq Conns
      /\ conn \in [Conns -> Places]
  BY DEF SendLogin, Ask, Close, DataInv, Types, Entries
<1>3. \A x \in Conns \ {k} : conn'[x] = conn[x]
  BY <1>1, <1>2
<1>4. /\ \A i \in DOMAIN queue' :
           \/ i \in DOMAIN queue /\ queue'[i] = queue[i]
           \/ i = Len(queue) + 1 /\ queue'[i] = c
      /\ \A i \in DOMAIN queue : i \in DOMAIN queue' /\ queue'[i] = queue[i]
  <2>1. queue' = Append(queue, c) /\ queue \in Seq(Entries)
    BY <1>1, <1>2
  <2>2. /\ \A i \in DOMAIN queue : i \in DOMAIN queue' /\ queue'[i] = queue[i]
        /\ \A i \in DOMAIN queue' : i \in DOMAIN queue \/ i = Len(queue) + 1
        /\ queue'[Len(queue) + 1] = c
    BY <2>1, Put
  <2> QED BY <2>2
<1>5. NoGhost'
  BY <1>1, <1>2 DEF OrderInv, NoGhost, Inside
<1>6. Logins'
  <2>1. ASSUME NEW x \in Conns, NEW i \in DOMAIN queue', queue'[i] = <<"login", x>>
        PROVE  /\ conn'[x] \in {"logging in", "closed"}
               /\ \A j \in DOMAIN queue' : queue'[j] = <<"login", x>> => i = j
    <3>1. CASE c = <<"login", x>>
      <4>1. x = k /\ conn[k] = "open" /\ conn'[k] = "logging in"
        BY <3>1, <1>1, <1>2
      <4>2. \A j \in DOMAIN queue : queue[j] # <<"login", k>>
        BY <4>1 DEF OrderInv, Logins
      <4> QED BY <2>1, <3>1, <4>1, <4>2, <1>4
    <3>2. CASE c # <<"login", x>>
      <4>1. i \in DOMAIN queue /\ queue[i] = <<"login", x>>
        BY <2>1, <3>2, <1>4
      <4>2. conn[x] \in {"logging in", "closed"} /\ \A j \in DOMAIN queue : queue[j] = <<"login", x>> => i = j
        BY <4>1 DEF OrderInv, Logins
      <4>3. conn'[x] = conn[x]
        BY <4>2, <1>1, <1>2, <1>3
      <4> QED BY <3>2, <4>2, <4>3, <1>4
    <3> QED BY <3>1, <3>2
  <2> QED BY <2>1 DEF Logins
<1>7. FirstRequests'
  <2>1. ASSUME NEW x \in Conns, NEW i \in DOMAIN queue', queue'[i] = <<"request", x>>
        PROVE  conn'[x] \notin {"open", "logging in", "answered"}
    <3>1. CASE c = <<"request", x>>
      BY <3>1, <1>1, <1>2
    <3>2. CASE c # <<"request", x>>
      <4>1. conn[x] \notin {"open", "logging in", "answered"}
        BY <2>1, <3>2, <1>4 DEF OrderInv, FirstRequests
      <4> QED BY <4>1, <1>1, <1>2, <1>3
    <3> QED BY <3>1, <3>2
  <2> QED BY <2>1 DEF FirstRequests
<1>8. Used'
  BY <1>1, <1>2, <1>3 DEF OrderInv, Used, Inside
<1>9. Displacement'
  <2>1. ASSUME NEW x \in Conns, NEW old \in displaced[x], obj[old] # None
        PROVE  conn'[x] \notin {"active", "choosing"} /\ ClearedBefore(queue', old, x)
    <3>1. conn[x] \notin {"active", "choosing"} /\ ClearedBefore(queue, old, x)
      BY <2>1 DEF OrderInv, Displacement
    <3>2. ClearedBefore(queue', old, x)
      BY <3>1, <1>1, <1>2, PutKeeps
    <3> QED BY <3>1, <3>2, <1>1, <1>2, <1>3
  <2> QED BY <2>1, <1>2 DEF Displacement
<1>10. Jobs'
  BY <1>1, <1>2, <1>3, JobConns DEF Jobs, Begun
<1> QED BY <1>5, <1>6, <1>7, <1>8, <1>9, <1>10 DEF OrderInv

\* The first request of a session, and the end of one.
LEMMA OrderFirst ==
  ASSUME DataInv, OrderInv, NEW k \in Conns, FirstRequest(k) \/ NetClear(k)
  PROVE  OrderInv'
<1>1. /\ queue # <<>> /\ queue' = Tail(queue) /\ queue \in Seq(Entries)
      /\ \A x \in Conns : displaced[x] \subseteq Conns
      /\ UNCHANGED <<displaced, hand>>
      /\ conn \in [Conns -> Places] /\ obj \in [Conns -> Chars \cup {None, NoChar}]
  BY DEF FirstRequest, NetClear, DataInv, Types, Entries
<1>2. \/ /\ queue[1] = <<"request", k>> /\ UNCHANGED <<obj, job>>
         /\ conn' = [conn EXCEPT ![k] = IF conn[k] = "asking" THEN "active" ELSE conn[k]]
      \/ /\ queue[1] = <<"clear", k>> /\ obj' = [obj EXCEPT ![k] = None]
         /\ conn' = [conn EXCEPT ![k] = "closed"] /\ PostFlush(k)
  BY <1>1, Take DEF FirstRequest, NetClear
<1>3. /\ 1 \in DOMAIN queue
      /\ \A i \in DOMAIN queue' : i + 1 \in DOMAIN queue /\ i \in Nat /\ queue'[i] = queue[i + 1]
  BY <1>1, Take
<1>4. queue[1] = <<"request", k>> => conn[k] \notin {"open", "logging in", "answered"}
  BY <1>3 DEF OrderInv, FirstRequests
<1>5. \A x \in Conns \ {k} : conn'[x] = conn[x] /\ obj'[x] = obj[x]
  BY <1>1, <1>2
<1>6. NoGhost'
  BY <1>1, <1>2, <1>4 DEF OrderInv, NoGhost, Inside
<1>7. Logins'
  <2>1. ASSUME NEW x \in Conns, NEW i \in DOMAIN queue', queue'[i] = <<"login", x>>
        PROVE  /\ conn'[x] \in {"logging in", "closed"}
               /\ \A j \in DOMAIN queue' : queue'[j] = <<"login", x>> => i = j
    <3>1. /\ conn[x] \in {"logging in", "closed"}
          /\ \A j \in DOMAIN queue : queue[j] = <<"login", x>> => i + 1 = j
      BY <2>1, <1>3 DEF OrderInv, Logins
    <3>2. conn'[x] \in {"logging in", "closed"}
      BY <3>1, <1>1, <1>2, <1>5
    <3>3. ASSUME NEW j \in DOMAIN queue', queue'[j] = <<"login", x>> PROVE i = j
      <4>1. i + 1 = j + 1
        BY <3>1, <3>3, <1>3
      <4> QED BY <4>1, <1>3
    <3> QED BY <3>2, <3>3
  <2> QED BY <2>1 DEF Logins
<1>8. FirstRequests'
  <2>1. ASSUME NEW x \in Conns, NEW i \in DOMAIN queue', queue'[i] = <<"request", x>>
        PROVE  conn'[x] \notin {"open", "logging in", "answered"}
    <3>1. conn[x] \notin {"open", "logging in", "answered"}
      BY <2>1, <1>3 DEF OrderInv, FirstRequests
    <3> QED BY <3>1, <1>1, <1>2, <1>5
  <2> QED BY <2>1 DEF FirstRequests
<1>9. Used'
  BY <1>1, <1>2, <1>5 DEF OrderInv, Used, Inside
<1>10. Displacement'
  <2>1. ASSUME NEW x \in Conns, NEW old \in displaced[x], obj'[old] # None
        PROVE  conn'[x] \notin {"active", "choosing"} /\ ClearedBefore(queue', old, x)
    <3>1. old \in Conns
      BY <1>1, <2>1
    <3>2. obj[old] # None /\ queue[1] # <<"clear", old>>
      <4>1. CASE queue[1] = <<"request", k>> /\ obj' = obj
        BY <4>1, <2>1
      <4>2. CASE queue[1] = <<"clear", k>> /\ obj' = [obj EXCEPT ![k] = None]
        <5>1. old # k
          BY <4>2, <2>1, <1>1
        <5> QED BY <4>2, <5>1, <2>1, <3>1, <1>5
      <4> QED BY <4>1, <4>2, <1>2
    <3>3. conn[x] \notin {"active", "choosing"} /\ ClearedBefore(queue, old, x)
      BY <2>1, <3>2 DEF OrderInv, Displacement
    <3>4. ClearedBefore(queue', old, x)
      BY <3>2, <3>3, <1>1, TakeKeeps
    <3>5. queue[1] # <<"request", x>>
      <4> SUFFICES ASSUME queue[1] = <<"request", x>> PROVE FALSE
        OBVIOUS
      <4>1. PICK i \in DOMAIN queue : i < 1
        BY <3>3, <1>3 DEF ClearedBefore
      <4> QED BY <4>1, <1>1
    <3>6. conn'[x] \notin {"active", "choosing"}
      BY <3>3, <3>5, <1>1, <1>2, <1>5
    <3> QED BY <3>4, <3>6
  <2> QED BY <2>1, <1>1 DEF Displacement
<1>11. Jobs'
  <2>1. \A x \in Conns : Begun(conn, x) => Begun(conn', x)
    BY <1>1, <1>2, <1>5 DEF Begun
  <2>2. CASE UNCHANGED job
    BY <2>1, <2>2, <1>1, JobConns DEF Jobs
  <2>3. CASE PostFlush(k) /\ conn' = [conn EXCEPT ![k] = "closed"]
    <3>1. Begun(conn', k)
      BY <2>3, <1>1 DEF Begun
    <3>2. \A j \in DOMAIN job' : job'[j].conn = k \/ (j \in DOMAIN job /\ job'[j] = job[j])
      BY <2>3, SavedConns DEF DataInv
    <3> QED BY <2>1, <3>1, <3>2, <1>1, JobConns DEF Jobs
  <2> QED BY <2>2, <2>3, <1>2
<1> QED BY <1>6, <1>7, <1>8, <1>9, <1>10, <1>11 DEF OrderInv

\* A login: the session found, if there is one, is to be cleared before any
\* request of the new one, for there is none yet.
LEMMA OrderLogin ==
  ASSUME DataInv, OrderInv, NEW k \in Conns, NEW outcome \in DOMAIN After, Login(k, outcome)
  PROVE  OrderInv'
<1>1. /\ queue # <<>> /\ queue[1] = <<"login", k>> /\ queue \in Seq(Entries)
      /\ UNCHANGED <<job, hand>> /\ conn \in [Conns -> Places]
      /\ \A x \in Conns : displaced[x] \subseteq Conns
      /\ displaced \in [Conns -> SUBSET Conns]
      /\ obj \in [Conns -> Chars \cup {None, NoChar}]
  BY Thrown DEF Login, DataInv, Types, Entries
<1>2. PICK old \in SUBSET Conns :
        /\ displaced' = [displaced EXCEPT ![k] = @ \cup old]
        /\ old \subseteq Found
        /\ old = {} => queue' = Tail(queue)
        /\ \A j \in old : queue' = Append(Tail(queue), <<"clear", j>>)
        /\ outcome \in {"refused", "gone"} => old = {}
  BY Thrown DEF DataInv
<1>3. 1 \in DOMAIN queue
  BY <1>1, Take
<1>4. /\ conn[k] \in {"logging in", "closed"}
      /\ \A j \in DOMAIN queue : queue[j] = <<"login", k>> => j = 1
  BY <1>1, <1>3 DEF OrderInv, Logins
<1>5. \/ conn[k] = "closed" /\ conn'[k] = "closed" /\ obj' = obj /\ old = {}
      \/ conn[k] = "logging in" /\ conn'[k] = "open" /\ obj' = obj
      \/ conn[k] = "logging in" /\ conn'[k] = "answered" /\ obj' = [obj EXCEPT ![k] = NoChar]
  <2>1. outcome \in {"ok", "refused", "blocked", "gone"}
    BY DEF After
  <2>2. conn'[k] = After[outcome] /\ (conn[k] = "closed" <=> outcome = "gone")
    BY <1>1 DEF Login
  <2>3. obj' = IF outcome = "ok" THEN [obj EXCEPT ![k] = NoChar] ELSE obj
    BY DEF Login
  <2>4. /\ After["ok"] = "answered" /\ After["refused"] = "open"
        /\ After["blocked"] = "open" /\ After["gone"] = "closed"
    BY DEF After
  <2> QED BY <2>1, <2>2, <2>3, <2>4, <1>2, <1>4
<1>6. \A x \in Conns \ {k} : conn'[x] = conn[x] /\ obj'[x] = obj[x]
  BY <1>1, <1>5 DEF Login
<1>7. NoChar # None
  BY DEF NoChar, None
<1>8. NoGhost'
  BY <1>1, <1>5, <1>6, <1>7 DEF OrderInv, NoGhost, Inside
<1>9. \A i \in DOMAIN queue' :
        \/ i \in Nat /\ i + 1 \in DOMAIN queue /\ queue'[i] = queue[i + 1] /\ i + 1 # 1
        \/ \E j \in old : queue'[i] = <<"clear", j>>
  <2>1. CASE old = {}
    BY <2>1, <1>1, <1>2, Take
  <2>2. ASSUME NEW j \in old PROVE \A i \in DOMAIN queue' :
          \/ i \in Nat /\ i + 1 \in DOMAIN queue /\ queue'[i] = queue[i + 1] /\ i + 1 # 1
          \/ queue'[i] = <<"clear", j>>
    <3> DEFINE rest == Tail(queue)
    <3>1. rest \in Seq(Entries) /\ <<"clear", j>> \in Entries
      BY <1>1, Take DEF Entries
    <3>2. queue' = Append(rest, <<"clear", j>>)
      BY <1>2
    <3>3. ASSUME NEW i \in DOMAIN rest
          PROVE  i \in Nat /\ i + 1 \in DOMAIN queue /\ rest[i] = queue[i + 1] /\ i + 1 # 1
      BY <1>1, Take
    <3> HIDE DEF rest
    <3>4. ASSUME NEW i \in DOMAIN queue', i \notin DOMAIN rest PROVE queue'[i] = <<"clear", j>>
      BY <3>1, <3>2, <3>4, Put
    <3>5. \A i \in DOMAIN rest : queue'[i] = rest[i]
      BY <3>1, <3>2, Put
    <3> QED BY <3>3, <3>4, <3>5
  <2> QED BY <2>1, <2>2
<1>10. Logins'
  <2>1. ASSUME NEW x \in Conns, NEW i \in DOMAIN queue', queue'[i] = <<"login", x>>
        PROVE  /\ conn'[x] \in {"logging in", "closed"}
               /\ \A j \in DOMAIN queue' : queue'[j] = <<"login", x>> => i = j
    <3>1. i \in Nat /\ i + 1 \in DOMAIN queue /\ queue[i + 1] = <<"login", x>> /\ i + 1 # 1
      BY <2>1, <1>9
    <3>2. x # k
      BY <3>1, <1>4
    <3>3. /\ conn[x] \in {"logging in", "closed"}
          /\ \A j \in DOMAIN queue : queue[j] = <<"login", x>> => i + 1 = j
      BY <3>1 DEF OrderInv, Logins
    <3>4. ASSUME NEW j \in DOMAIN queue', queue'[j] = <<"login", x>> PROVE i = j
      <4>1. j \in Nat /\ j + 1 \in DOMAIN queue /\ queue[j + 1] = <<"login", x>>
        BY <3>4, <1>9
      <4>2. i + 1 = j + 1
        BY <4>1, <3>3
      <4> QED BY <4>1, <4>2, <3>1
    <3> QED BY <3>2, <3>3, <3>4, <1>6
  <2> QED BY <2>1 DEF Logins
<1>11. FirstRequests'
  <2>1. ASSUME NEW x \in Conns, NEW i \in DOMAIN queue', queue'[i] = <<"request", x>>
        PROVE  conn'[x] \notin {"open", "logging in", "answered"}
    <3>1. i + 1 \in DOMAIN queue /\ queue[i + 1] = <<"request", x>>
      BY <2>1, <1>9
    <3>2. conn[x] \notin {"open", "logging in", "answered"}
      BY <3>1 DEF OrderInv, FirstRequests
    <3> QED BY <3>2, <1>5, <1>6
  <2> QED BY <2>1 DEF FirstRequests
<1>12. \A x \in Conns : displaced'[x] = IF x = k THEN displaced[k] \cup old ELSE displaced[x]
  BY <1>1, <1>2
<1>13. \A j \in old : obj[j] # None /\ conn[j] \in Inside /\ j # k
  BY <1>2, <1>4 DEF Found, OrderInv, NoGhost, Inside
<1>14. Used'
  <2>1. ASSUME NEW x \in Conns, NEW o \in displaced'[x]
        PROVE  conn'[o] \in Inside \cup {"closed"}
    <3>1. o \in Conns /\ conn[o] \in Inside \cup {"closed"}
      BY <2>1, <1>1, <1>12, <1>13 DEF OrderInv, Used
    <3>2. CASE o = k
      BY <3>1, <3>2, <1>4, <1>5 DEF Inside
    <3> QED BY <3>1, <3>2, <1>6
  <2> QED BY <2>1 DEF Used
<1>15. Displacement'
  <2>1. ASSUME NEW x \in Conns, NEW o \in displaced'[x], obj'[o] # None
        PROVE  conn'[x] \notin {"active", "choosing"} /\ ClearedBefore(queue', o, x)
    <3>1. CASE o \in displaced[x]
      <4>1. o \in Conns /\ conn[o] \in Inside \cup {"closed"}
        BY <3>1, <1>1 DEF OrderInv, Used
      <4>2. obj[o] # None
        BY <4>1, <2>1, <1>4, <1>5, <1>6 DEF Inside
      <4>3. conn[x] \notin {"active", "choosing"} /\ ClearedBefore(queue, o, x)
        BY <3>1, <4>2 DEF OrderInv, Displacement
      <4>4. Tail(queue) \in Seq(Entries) /\ ClearedBefore(Tail(queue), o, x)
        BY <4>3, <1>1, Take, TakeKeeps
      <4>5. ClearedBefore(queue', o, x)
        <5>1. CASE old = {}
          BY <5>1, <4>4, <1>2
        <5>2. ASSUME NEW j \in old PROVE ClearedBefore(queue', o, x)
          <6>1. <<"clear", j>> \in Entries /\ queue' = Append(Tail(queue), <<"clear", j>>)
            BY <1>2 DEF Entries
          <6> QED BY <6>1, <4>4, PutKeeps
        <5> QED BY <5>1, <5>2
      <4>6. conn'[x] \notin {"active", "choosing"}
        BY <4>3, <1>5, <1>6
      <4> QED BY <4>5, <4>6
    <3>2. CASE x = k /\ o \in old
      <4>1. Tail(queue) \in Seq(Entries) /\ <<"clear", o>> \in Entries
        BY <3>2, <1>1, Take DEF Entries
      <4>2. PICK i \in DOMAIN queue' : queue'[i] = <<"clear", o>>
        <5>1. queue' = Append(Tail(queue), <<"clear", o>>)
          BY <3>2, <1>2
        <5>2. Len(Tail(queue)) + 1 \in 1..(Len(Tail(queue)) + 1)
          BY <4>1
        <5> QED BY <5>1, <5>2, <4>1, Put
      <4>3. conn[k] = "logging in" /\ conn'[k] \in {"open", "answered"}
        BY <3>2, <1>5
      <4>4. ASSUME NEW j \in DOMAIN queue', queue'[j] = <<"request", k>> PROVE FALSE
        <5>1. j + 1 \in DOMAIN queue /\ queue[j + 1] = <<"request", k>>
          BY <4>4, <1>9
        <5> QED BY <5>1, <4>3 DEF OrderInv, FirstRequests
      <4>5. ClearedBefore(queue', o, x)
        BY <3>2, <4>2, <4>4 DEF ClearedBefore
      <4> QED BY <3>2, <4>3, <4>5
    <3> QED BY <2>1, <3>1, <3>2, <1>12
  <2> QED BY <2>1 DEF Displacement
<1>16. Jobs'
  <2>1. \A x \in Conns : Begun(conn, x) => Begun(conn', x)
    BY <1>5, <1>6 DEF Begun
  <2> QED BY <2>1, <1>1, JobConns DEF Jobs
<1> QED BY <1>8, <1>10, <1>11, <1>14, <1>15, <1>16 DEF OrderInv

LEMMA OrderStep == DataInv /\ OrderInv /\ [Next]_vars => OrderInv'
<1> SUFFICES ASSUME DataInv, OrderInv, [Next]_vars PROVE OrderInv'
  OBVIOUS
<1>1. CASE HandleCommand
  BY <1>1, OrderLogin, OrderFirst DEF HandleCommand
<1>2. CASE \E w \in Workers : RunJob(w)
  BY <1>2, OrderPool
<1>3. CASE CollectResult \/ HandleResult
  BY <1>3, OrderCollect, OrderResult
<1>4. CASE \E k \in Conns : SendLogin(k) \/ Ask(k) \/ Close(k) \/ Play(k)
  BY <1>4, OrderSend, OrderPlay
<1>5. CASE UNCHANGED vars
  <2>1. Jobs'
    BY <1>5 DEF vars, OrderInv, Jobs
  <2> QED BY <1>5, <2>1, Quiet DEF vars, DataInv
<1> QED BY <1>1, <1>2, <1>3, <1>4, <1>5 DEF Next

LEMMA OrderInvariance == Spec => []OrderInv
BY OrderInit, OrderStep, DataInvariance, PTL DEF Spec

\* The result of a job never brings back an object whose connection was
\* cleared, and every connection that was let in has one until then.
THEOREM NoGhosts == Spec => []NoGhost
<1>1. OrderInv => NoGhost
  BY DEF OrderInv
<1> QED BY <1>1, OrderInvariance, PTL

\* A session acts only when the sessions it threw out are gone, for any number
\* of connections, however they log in, are refused and try again.
THEOREM UsurpersWait == Spec => []UsurperWaits
<1>1. DataInv /\ OrderInv => UsurperWaits
  BY DEF OrderInv, Displacement, UsurperWaits
<1> QED BY <1>1, DataInvariance, OrderInvariance, PTL
=============================================================================
