---------------------------- MODULE BountyProofs ----------------------------
(***************************************************************************)
(* Proofs about the bounty of Session: it adds up, whatever the sessions   *)
(* do and however late jobs run.                                           *)
(*                                                                         *)
(* Conserved is about two sums: of the bounty in the jobs that save, and   *)
(* of that in the caches.  A sum of natural numbers is the cardinality of  *)
(* a set (SumIsCount), and so changes by what one summand changes by       *)
(* (SumChange, SumMore).  A save that is posted moves bounty from one sum  *)
(* to the other (FlushMoves), and takes at least one from the caches: this *)
(* is why there are no more jobs than TypeOK says (Books).  That a result  *)
(* that is taken was no save (Unsaved), and that an item that is bought is *)
(* a new one (Stock), is what else is needed.                              *)
(***************************************************************************)
EXTENDS SessionProofs, FiniteSetTheorems

-----------------------------------------------------------------------------
(* Sums.  The sum of natural numbers f[x] counts the pairs <<x, i>> with i *)
(* in 1..f[x]: what is true of cardinalities is true of sums.              *)

Units(f, T) == UNION {{x} \X (1..f[x]) : x \in T}
Pick(T) == CHOOSE x \in T : TRUE
Unfolds(f, S, sum) ==
  sum = [T \in SUBSET S |-> IF T = {} THEN 0 ELSE f[Pick(T)] + sum[T \ {Pick(T)}]]

LEMMA SumUnfolds ==
  ASSUME NEW f
  PROVE  SumFunction(f) = (CHOOSE sum : Unfolds(f, DOMAIN f, sum))[DOMAIN f]
BY Zenon DEF SumFunction, SumFunctionOnSet, FoldFunctionOnSet, MapThenFoldSet, Unfolds, Pick

LEMMA UnitsFinite ==
  ASSUME NEW S, IsFiniteSet(S), NEW f \in [S -> Nat], NEW T \in SUBSET S
  PROVE  IsFiniteSet(Units(f, T)) /\ Cardinality(Units(f, T)) \in Nat
<1> DEFINE rows == [x \in T |-> {x} \X (1..f[x])]
           R == {{x} \X (1..f[x]) : x \in T}
<1>1. IsFiniteSet(T)
  BY FS_Subset
<1>2. rows \in Surjection(T, R)
  BY DEF Surjection
<1>3. IsFiniteSet(R)
  <2> HIDE DEF rows, R
  <2> QED BY <1>1, <1>2, FS_Surjection
<1>4. \A r \in R : IsFiniteSet(r)
  <2> SUFFICES ASSUME NEW x \in T PROVE IsFiniteSet({x} \X (1..f[x]))
    OBVIOUS
  <2>1. f[x] \in Int
    OBVIOUS
  <2>2. IsFiniteSet(1..f[x])
    BY <2>1, FS_Interval
  <2>3. IsFiniteSet({x})
    BY FS_Singleton
  <2> QED BY <2>2, <2>3, FS_Product
<1>5. IsFiniteSet(UNION R)
  <2> HIDE DEF R
  <2> QED BY <1>3, <1>4, FS_UNION
<1> QED BY <1>5, FS_CardinalityType DEF Units

LEMMA UnitsSplit ==
  ASSUME NEW S, IsFiniteSet(S), NEW f \in [S -> Nat], NEW T \in SUBSET S, NEW x \in T
  PROVE  Cardinality(Units(f, T)) = f[x] + Cardinality(Units(f, T \ {x}))
<1> DEFINE A == {x} \X (1..f[x])
           B == Units(f, T \ {x})
<1>1. IsFiniteSet(A) /\ Cardinality(A) = f[x]
  <2>1. IsFiniteSet({x}) /\ Cardinality({x}) = 1
    BY FS_Singleton
  <2>2. IsFiniteSet(1..f[x]) /\ Cardinality(1..f[x]) = f[x]
    <3>1. f[x] \in Nat
      OBVIOUS
    <3> QED BY <3>1, FS_Interval
  <2>3. IsFiniteSet(A) /\ Cardinality(A) = 1 * f[x]
    BY <2>1, <2>2, FS_Product
  <2> QED BY <2>3
<1>2. IsFiniteSet(B) /\ Cardinality(B) \in Nat
  BY UnitsFinite
<1>3. Units(f, T) = A \cup B
  BY DEF Units
<1>4. A \cap B = {}
  BY DEF Units
<1>5. Cardinality(A \cup B) = Cardinality(A) + Cardinality(B) - Cardinality({})
  <2> HIDE DEF A, B
  <2> QED BY <1>1, <1>2, <1>4, FS_Union
<1> QED BY <1>1, <1>2, <1>3, <1>5, FS_EmptySet

LEMMA UnitsNone == ASSUME NEW f PROVE Cardinality(Units(f, {})) = 0
<1>1. Units(f, {}) = {}
  BY DEF Units
<1> QED BY <1>1, FS_EmptySet

\* A function that unfolds is the number of units: were it not, there would be
\* a smallest set where it is not.
LEMMA UnfoldsToUnits ==
  ASSUME NEW S, IsFiniteSet(S), NEW f \in [S -> Nat], NEW sum, Unfolds(f, S, sum)
  PROVE  sum[S] = Cardinality(Units(f, S))
<1> DEFINE Bad == {T \in SUBSET S : sum[T] # Cardinality(Units(f, T))}
<1>1. SUFFICES ASSUME Bad # {} PROVE FALSE
  OBVIOUS
<1>2. PICK T \in Bad : \A U \in Bad : ~ (<<U, T>> \in StrictSubsetOrdering(S))
  <2>1. IsWellFoundedOn(StrictSubsetOrdering(S), SUBSET S)
    BY FS_StrictSubsetOrderingWellFounded, FS_FiniteSubsetsOfFinite
  <2>2. Bad \subseteq SUBSET S
    OBVIOUS
  <2> HIDE DEF Bad
  <2> QED BY <2>1, <2>2, <1>1, WFMin
<1>3. CASE T = {}
  <2>1. sum[{}] = 0
    BY DEF Unfolds
  <2> QED BY <1>2, <1>3, <2>1, UnitsNone
<1>4. CASE T # {}
  <2> DEFINE x == Pick(T)
  <2>1. x \in T
    BY <1>4 DEF Pick
  <2>2. sum[T] = f[x] + sum[T \ {x}]
    BY <1>4, <1>2 DEF Unfolds
  <2> HIDE DEF x
  <2>3. T \ {x} \in SUBSET S /\ <<T \ {x}, T>> \in StrictSubsetOrdering(S)
    BY <2>1, <1>2 DEF StrictSubsetOrdering
  <2>4. sum[T \ {x}] = Cardinality(Units(f, T \ {x}))
    BY <2>3, <1>2
  <2>5. Cardinality(Units(f, T)) = f[x] + Cardinality(Units(f, T \ {x}))
    BY <2>1, <1>2, UnitsSplit
  <2> QED BY <2>2, <2>4, <2>5, <1>2
<1> QED BY <1>3, <1>4

LEMMA SumIsCount ==
  ASSUME NEW S, IsFiniteSet(S), NEW f \in [S -> Nat]
  PROVE  SumFunction(f) = Cardinality(Units(f, S)) /\ SumFunction(f) \in Nat
<1> DEFINE count == [T \in SUBSET S |-> Cardinality(Units(f, T))]
<1>1. Unfolds(f, S, count)
  <2> SUFFICES ASSUME NEW T \in SUBSET S
               PROVE  count[T] = IF T = {} THEN 0 ELSE f[Pick(T)] + count[T \ {Pick(T)}]
    BY DEF Unfolds
  <2>1. CASE T = {}
    BY <2>1, UnitsNone
  <2>2. CASE T # {}
    <3>1. Pick(T) \in T /\ T \ {Pick(T)} \in SUBSET S
      BY <2>2 DEF Pick
    <3> QED BY <2>2, <3>1, UnitsSplit
  <2> QED BY <2>1, <2>2
<1>2. Unfolds(f, S, CHOOSE sum : Unfolds(f, S, sum))
  BY <1>1
<1>3. SumFunction(f) = (CHOOSE sum : Unfolds(f, S, sum))[S]
  BY SumUnfolds
<1> QED BY <1>2, <1>3, UnfoldsToUnits, UnitsFinite

\* The sum of a function that changes at one point, or is given one more.
LEMMA SumChange ==
  ASSUME NEW S, IsFiniteSet(S), NEW f \in [S -> Nat], NEW g \in [S -> Nat], NEW x \in S,
         \A y \in S : y # x => g[y] = f[y]
  PROVE  SumFunction(g) = SumFunction(f) - f[x] + g[x]
<1>1. Units(g, S \ {x}) = Units(f, S \ {x})
  BY DEF Units
<1>2. /\ Cardinality(Units(f, S)) = f[x] + Cardinality(Units(f, S \ {x}))
      /\ Cardinality(Units(g, S)) = g[x] + Cardinality(Units(f, S \ {x}))
  BY <1>1, UnitsSplit
<1>3. Cardinality(Units(f, S \ {x})) \in Nat /\ f[x] \in Nat /\ g[x] \in Nat
  BY UnitsFinite
<1>4. SumFunction(f) = Cardinality(Units(f, S)) /\ SumFunction(g) = Cardinality(Units(g, S))
  BY SumIsCount
<1> QED BY <1>2, <1>3, <1>4

LEMMA SumMore ==
  ASSUME NEW S, IsFiniteSet(S), NEW x, x \notin S,
         NEW f \in [S -> Nat], NEW g \in [S \cup {x} -> Nat], \A y \in S : g[y] = f[y]
  PROVE  SumFunction(g) = SumFunction(f) + g[x]
<1>1. IsFiniteSet(S \cup {x})
  BY FS_AddElement
<1>2. Units(g, (S \cup {x}) \ {x}) = Units(f, S)
  BY DEF Units
<1>3. Cardinality(Units(g, S \cup {x})) = g[x] + Cardinality(Units(f, S))
  BY <1>1, <1>2, UnitsSplit
<1>4. Cardinality(Units(f, S)) \in Nat /\ g[x] \in Nat
  BY UnitsFinite
<1>5. SumFunction(f) = Cardinality(Units(f, S))
  BY SumIsCount
<1>6. SumFunction(g) = Cardinality(Units(g, S \cup {x}))
  BY <1>1, SumIsCount
<1> QED BY <1>3, <1>4, <1>5, <1>6

LEMMA SumNothing ==
  ASSUME NEW S, IsFiniteSet(S), NEW f \in [S -> Nat], \A x \in S : f[x] = 0
  PROVE  SumFunction(f) = 0
<1>1. Units(f, S) = Units(f, {})
  <2>1. \A x \in S : 1..f[x] = {}
    OBVIOUS
  <2>2. Units(f, S) = {}
    BY <2>1 DEF Units
  <2>3. Units(f, {}) = {}
    BY DEF Units
  <2> QED BY <2>2, <2>3
<1> QED BY <1>1, SumIsCount, UnitsNone

-----------------------------------------------------------------------------
(* What is on its way, and what is in the caches.                          *)

\* What there ought to be.
Account ==
  StartBP + ledger.earned - ledger.lost - Price * ledger.bought
    + Value * (ledger.bought - Cardinality(db.items))
Books == Conserved /\ Len(job) + InCaches <= ledger.earned + ledger.chosen
Stock == db.items \subseteq 1..ledger.bought
Unsaved == \A i \in DOMAIN results : job[results[i]].kind # "save"
BountyInv == Books /\ Stock /\ Unsaved

\* The sums are natural numbers.
LEMMA SavingSum ==
  ASSUME Types, Saves
  PROVE  /\ DOMAIN job = 1..Len(job) /\ Len(job) \in Nat /\ IsFiniteSet(1..Len(job))
         /\ Saving \in [1..Len(job) -> Nat] /\ SumFunction(Saving) \in Nat
<1>1. DOMAIN job = 1..Len(job) /\ Len(job) \in Nat
  BY DEF Types
<1>2. IsFiniteSet(1..Len(job))
  BY <1>1, FS_Interval
<1>3. Saving \in [1..Len(job) -> Nat]
  BY <1>1 DEF Saving, Saves
<1> QED BY <1>1, <1>2, <1>3, SumIsCount

LEMMA CachedSum ==
  ASSUME Types
  PROVE  IsFiniteSet(Conns) /\ Cached \in [Conns -> Nat] /\ InCaches \in Nat
<1>1. IsFiniteSet(Conns)
  <2>1. 1 \in Int /\ MaxConns \in Int
    BY Numbers
  <2> QED BY ONLY <2>1, FS_Interval DEF Conns
<1>2. Cached \in [Conns -> Nat]
  BY Objects DEF Cached
<1> QED BY <1>1, <1>2, SumIsCount DEF InCaches

\* A job more.
LEMMA SavingPosted ==
  ASSUME Types, Saves, NEW r \in JobRecords, r.kind = "save" => r.bp \in Nat,
         job' = Append(job, r)
  PROVE  /\ SumFunction(Saving') = SumFunction(Saving) + (IF r.kind = "save" THEN r.bp ELSE 0)
         /\ Len(job') = Len(job) + 1
<1> DEFINE n == Len(job)
<1>1. /\ job \in Seq(JobRecords) /\ n \in Nat /\ IsFiniteSet(1..n)
      /\ Saving \in [1..n -> Nat] /\ DOMAIN job = 1..n
  BY SavingSum DEF Types
<1>2. /\ Len(job') = n + 1 /\ DOMAIN job' = (1..n) \cup {n + 1} /\ n + 1 \notin 1..n
      /\ job'[n + 1] = r /\ \A j \in 1..n : job'[j] = job[j]
  BY <1>1
<1>3. /\ Saving' \in [(1..n) \cup {n + 1} -> Nat]
      /\ Saving'[n + 1] = IF r.kind = "save" THEN r.bp ELSE 0
      /\ \A j \in 1..n : Saving'[j] = Saving[j]
  <2> HIDE DEF n
  <2> QED BY <1>1, <1>2 DEF Saving, Saves
<1>4. SumFunction(Saving') = SumFunction(Saving) + Saving'[n + 1]
  <2> DEFINE f == Saving  g == Saving'  S == 1..n  x == n + 1
  <2>1. /\ f \in [S -> Nat] /\ g \in [S \cup {x} -> Nat]
        /\ \A j \in S : g[j] = f[j]
        /\ IsFiniteSet(S) /\ x \notin S
    BY <1>1, <1>2, <1>3
  <2> HIDE DEF f, g, S, x
  <2>2. SumFunction(g) = SumFunction(f) + g[x]
    BY ONLY <2>1, SumMore
  <2> QED BY <2>2 DEF f, g, x
<1> QED BY <1>2, <1>3, <1>4

\* A job that becomes something that is no save.
LEMMA SavingChanged ==
  ASSUME Types, Saves, NEW j \in DOMAIN job, NEW a \in JobRecords, a.kind # "save",
         job' = [job EXCEPT ![j] = a]
  PROVE  /\ SumFunction(Saving') =
              SumFunction(Saving) - (IF job[j].kind = "save" THEN job[j].bp ELSE 0)
         /\ Len(job') = Len(job)
<1> DEFINE n == Len(job)
<1>1. /\ job \in Seq(JobRecords) /\ n \in Nat /\ IsFiniteSet(1..n)
      /\ Saving \in [1..n -> Nat] /\ DOMAIN job = 1..n /\ SumFunction(Saving) \in Nat
  BY SavingSum DEF Types
<1>2. /\ Len(job') = n /\ DOMAIN job' = 1..n
      /\ job'[j] = a /\ \A i \in 1..n : i # j => job'[i] = job[i]
  BY <1>1
<1>3. /\ Saving' \in [1..n -> Nat] /\ Saving'[j] = 0
      /\ \A i \in 1..n : i # j => Saving'[i] = Saving[i]
  <2> HIDE DEF n
  <2> QED BY <1>1, <1>2 DEF Saving, Saves
<1>4. Saving[j] = IF job[j].kind = "save" THEN job[j].bp ELSE 0
  BY DEF Saving
<1>5. SumFunction(Saving') = SumFunction(Saving) - Saving[j] + Saving'[j]
  <2> DEFINE f == Saving  g == Saving'  S == 1..n
  <2>1. /\ f \in [S -> Nat] /\ g \in [S -> Nat] /\ j \in S
        /\ \A i \in S : i # j => g[i] = f[i]
        /\ IsFiniteSet(S)
    BY <1>1, <1>3
  <2> HIDE DEF f, g, S
  <2>2. SumFunction(g) = SumFunction(f) - f[j] + g[j]
    BY ONLY <2>1, SumChange
  <2> QED BY <2>2 DEF f, g
<1>6. Saving[j] \in Nat
  BY <1>1
<1> QED BY <1>1, <1>2, <1>3, <1>4, <1>5, <1>6

\* An object that changes.
LEMMA CachedChanged ==
  ASSUME Types, Types', NEW k \in Conns, \A i \in Conns : i # k => obj'[i] = obj[i]
  PROVE  /\ InCaches' = InCaches - Cached[k] + Cached'[k] /\ InCaches' \in Nat
         /\ Cached[k] \in Nat /\ Cached'[k] \in Nat
<1> DEFINE f == Cached  g == Cached'
<1>1. IsFiniteSet(Conns) /\ f \in [Conns -> Nat]
  BY CachedSum
<1>2. g \in [Conns -> Nat]
  <2>1. ASSUME NEW i \in Conns, HasChar(i)' PROVE obj'[i].cache \in Nat
    <3>1. obj'[i] \in Chars \cup {None, NoChar}
      BY DEF Types
    <3>2. None.state = "none" /\ NoChar.state = "no char"
      BY DEF None, NoChar
    <3> QED BY <2>1, <3>1, <3>2 DEF HasChar, Chars
  <2> QED BY <2>1 DEF Cached
<1>3. \A i \in Conns : i # k => g[i] = f[i]
  BY DEF Cached, HasChar
<1> HIDE DEF f, g
<1>4. SumFunction(g) = SumFunction(f) - f[k] + g[k]
  <2>1. k \in Conns
    OBVIOUS
  <2> HIDE DEF Conns
  <2> QED BY <2>1, <1>1, <1>2, <1>3, SumChange
<1>5. SumFunction(g) \in Nat
  <2> HIDE DEF Conns
  <2> QED BY <1>1, <1>2, SumIsCount
<1> QED BY <1>1, <1>2, <1>4, <1>5 DEF f, g, InCaches

LEMMA Numbered ==
  ASSUME Types
  PROVE  /\ ledger.earned \in Nat /\ ledger.lost \in Nat /\ ledger.bought \in Nat
         /\ ledger.chosen \in Nat /\ db.bp \in Int /\ db.items \in SUBSET Items
         /\ IsFiniteSet(db.items) /\ Cardinality(db.items) \in Nat
         /\ Account \in Int /\ (Conserved <=> InDatabase + InCaches = Account)
<1>1. /\ ledger.earned \in Nat /\ ledger.lost \in Nat /\ ledger.bought \in Nat
      /\ ledger.chosen \in Nat /\ db.bp \in Int /\ db.items \in SUBSET Items
  BY Numbers DEF Types
<1>2. IsFiniteSet(Items)
  <2>1. 1 \in Int /\ MaxItems \in Int
    BY Numbers
  <2> QED BY ONLY <2>1, FS_Interval DEF Items
<1>3. IsFiniteSet(db.items) /\ Cardinality(db.items) \in Nat
  <2>1. db.items \in SUBSET Items
    BY <1>1
  <2> HIDE DEF Items
  <2> QED BY <2>1, <1>2, FS_Subset, FS_CardinalityType
<1>4. Account \in Int
  <2>1. ledger.bought - Cardinality(db.items) \in Int
    BY <1>1, <1>3
  <2>2. Price * ledger.bought \in Int /\ Value * (ledger.bought - Cardinality(db.items)) \in Int
    BY <1>1, <2>1, Numbers
  <2> QED BY <1>1, <2>2, Numbers DEF Account
<1> QED BY <1>1, <1>3, <1>4 DEF Conserved, Account

\* Steps by which nothing comes in or goes out, and no more jobs are posted than
\* there was in the caches.
LEMMA BooksKept ==
  ASSUME Types, Books, UNCHANGED <<db, ledger>>,
         SumFunction(Saving) \in Nat, SumFunction(Saving') \in Nat,
         InCaches \in Nat, InCaches' \in Nat, Len(job) \in Nat, Len(job') \in Nat,
         SumFunction(Saving') + InCaches' = SumFunction(Saving) + InCaches,
         Len(job') + InCaches' <= Len(job) + InCaches
  PROVE  Books'
<1>1. Account' = Account /\ (Conserved' <=> (InDatabase' + InCaches' = Account'))
  BY DEF Account, Conserved
<1>2. InDatabase + InCaches = Account /\ db.bp \in Int
  BY Numbered DEF Books
<1>3. InDatabase' + InCaches' = InDatabase + InCaches
  <2> DEFINE s == SumFunction(Saving)  t == SumFunction(Saving')
             c == InCaches  d == InCaches'  b == db.bp
  <2>1. /\ InDatabase = b + s /\ InDatabase' = b + t
        /\ s \in Nat /\ t \in Nat /\ c \in Nat /\ d \in Nat /\ b \in Int /\ t + d = s + c
    BY <1>2 DEF InDatabase
  <2> HIDE DEF s, t, c, d, b
  <2>2. (b + t) + d = (b + s) + c
    BY ONLY <2>1
  <2> QED BY <2>1, <2>2 DEF c, d
<1>4. Len(job') + InCaches' <= ledger'.earned + ledger'.chosen
  <2>1. /\ Len(job) + InCaches <= ledger.earned + ledger.chosen /\ ledger' = ledger
        /\ ledger.earned \in Nat /\ ledger.chosen \in Nat
    BY Numbered DEF Books
  <2> QED BY <2>1
<1> QED BY <1>1, <1>2, <1>3, <1>4 DEF Books

\* Neither jobs nor caches.
LEMMA BooksAside ==
  ASSUME Types, Books, Stock, UNCHANGED <<obj, job, db, ledger>>
  PROVE  Books' /\ Stock'
<1>1. Saving' = Saving /\ Cached' = Cached
  BY DEF Saving, Cached, HasChar
<1>2. Conserved' = Conserved /\ InCaches' = InCaches
  BY <1>1 DEF Conserved, InDatabase, InCaches
<1> QED BY <1>2 DEF Books, Stock

\* An object that changes and has the same in its cache.
LEMMA BooksObject ==
  ASSUME Types, Types', Saves, Books, Stock, UNCHANGED <<job, db, ledger>>, NEW k \in Conns,
         \A i \in Conns : i # k => obj'[i] = obj[i], Cached'[k] = Cached[k]
  PROVE  Books' /\ Stock'
<1>1. Saving' = Saving
  BY DEF Saving
<1>2. /\ InCaches' = InCaches - Cached[k] + Cached'[k] /\ InCaches' \in Nat
      /\ Cached[k] \in Nat
  BY CachedChanged
<1>3. InCaches \in Nat
  BY CachedSum
<1>4. SumFunction(Saving) \in Nat /\ Len(job) \in Nat
  BY SavingSum
<1>5. SumFunction(Saving') + InCaches' = SumFunction(Saving) + InCaches
  BY <1>1, <1>2, <1>3, <1>4
<1>6. Len(job') + InCaches' <= Len(job) + InCaches
  BY <1>2, <1>3, <1>4
<1> QED BY <1>1, <1>2, <1>3, <1>4, <1>5, <1>6, BooksKept DEF Stock

\* A cache that is saved and emptied.
LEMMA FlushMoves ==
  ASSUME Types, Types', Saves, NEW k \in Conns, PostFlush(k),
         \A i \in Conns : i # k => obj'[i] = obj[i], Cached'[k] = 0
  PROVE  /\ SumFunction(Saving') + InCaches' = SumFunction(Saving) + InCaches
         /\ Len(job') + InCaches' <= Len(job) + InCaches
         /\ SumFunction(Saving) \in Nat /\ SumFunction(Saving') \in Nat
         /\ InCaches \in Nat /\ InCaches' \in Nat /\ Len(job) \in Nat /\ Len(job') \in Nat
<1>1. /\ InCaches' = InCaches - Cached[k] + Cached'[k] /\ InCaches' \in Nat
      /\ Cached[k] \in Nat
  BY CachedChanged
<1>2. InCaches \in Nat
  BY CachedSum
<1>3. SumFunction(Saving) \in Nat /\ Len(job) \in Nat
  BY SavingSum
<1>4. CASE HasChar(k) /\ obj[k].cache # 0
  <2> DEFINE r == Job("save", k, obj[k].cache, {})
  <2>1. job' = Append(job, r)
    BY <1>4 DEF PostFlush, Post
  <2>2. r \in JobRecords /\ r.kind = "save" /\ r.bp = obj[k].cache /\ r.bp \in Nat
    BY <1>4, Objects DEF Job, JobRecords
  <2>3. Cached[k] = obj[k].cache
    BY <1>4 DEF Cached
  <2> HIDE DEF r
  <2>4. SumFunction(Saving') = SumFunction(Saving) + r.bp /\ Len(job') = Len(job) + 1
    BY <2>1, <2>2, SavingPosted
  <2>5. r.bp >= 1 /\ r.bp = Cached[k]
    BY <1>4, <2>2, <2>3
  <2> QED BY <1>1, <1>2, <1>3, <2>2, <2>4, <2>5
<1>5. CASE ~ (HasChar(k) /\ obj[k].cache # 0)
  <2>1. job' = job /\ Saving' = Saving
    BY <1>5 DEF PostFlush, Saving
  <2>2. Cached[k] = 0
    BY <1>5 DEF Cached
  <2> QED BY <1>1, <1>2, <1>3, <2>1, <2>2
<1> QED BY <1>4, <1>5

LEMMA BooksFlush ==
  ASSUME Types, Types', Saves, Books, Stock, UNCHANGED <<db, ledger>>,
         NEW k \in Conns, PostFlush(k),
         \A i \in Conns : i # k => obj'[i] = obj[i], Cached'[k] = 0
  PROVE  Books' /\ Stock'
BY FlushMoves, BooksKept DEF Stock

\* No job in the results is a save: jobs that change do not become saves.
LEMMA UnsavedKept ==
  ASSUME DataInv, Unsaved, results' = results,
         \A j \in DOMAIN job : job'[j].kind = "save" => job[j].kind = "save"
  PROVE  Unsaved'
BY DEF DataInv, Posted, Unsaved

\* Posting leaves the jobs there are as they are.
LEMMA UnsavedPost ==
  ASSUME DataInv, Unsaved, NEW r, Post(r) PROVE Unsaved'
<1>1. job' = Append(job, r) /\ results' = results /\ job \in Seq(JobRecords)
  BY DEF Post, Pool!Post, DataInv, Types
<1>2. \A j \in DOMAIN job : job'[j] = job[j]
  BY <1>1
<1> QED BY <1>1, <1>2, UnsavedKept

LEMMA UnsavedFlush ==
  ASSUME DataInv, Unsaved, NEW k \in Conns, PostFlush(k) PROVE Unsaved'
BY UnsavedPost, UnsavedKept DEF PostFlush, pool

-----------------------------------------------------------------------------
(* Every step.                                                             *)

LEMMA BountyInit == Init => BountyInv
<1> SUFFICES ASSUME Init PROVE BountyInv
  OBVIOUS
<1>1. DataInv
  BY DataInit
<1>2. Types /\ Saves
  BY <1>1 DEF DataInv
<1>3. SumFunction(Saving) = 0
  <2>1. \A j \in 1..Len(job) : Saving[j] = 0
    BY DEF Init
  <2>2. IsFiniteSet(1..Len(job)) /\ Saving \in [1..Len(job) -> Nat]
    BY <1>2, SavingSum
  <2> QED BY <2>1, <2>2, SumNothing
<1>4. InCaches = 0
  <2>1. \A k \in Conns : Cached[k] = 0
    BY DEF Init, Cached, HasChar, None
  <2>2. IsFiniteSet(Conns) /\ Cached \in [Conns -> Nat]
    BY <1>2, CachedSum
  <2> HIDE DEF Conns
  <2> QED BY <2>1, <2>2, SumNothing DEF InCaches
<1>5. InDatabase = StartBP
  BY <1>3, Numbers DEF InDatabase, Init
<1>6. Account = StartBP
  <2>1. ledger.earned = 0 /\ ledger.lost = 0 /\ ledger.bought = 0 /\ Cardinality(db.items) = 0
    BY FS_EmptySet DEF Init
  <2>2. Price * 0 = 0 /\ Value * (0 - 0) = 0
    BY Numbers
  <2> QED BY <2>1, <2>2, Numbers DEF Account
<1>7. Books
  BY <1>2, <1>4, <1>5, <1>6, Numbered, Numbers DEF Books, Init
<1> QED BY <1>7 DEF BountyInv, Stock, Unsaved, Init, Pool!Init

\* The pool: a save that was run is in the database, or lost.
LEMMA BountyExecute ==
  ASSUME DataInv, DataInv', BountyInv, NEW w \in Workers, ExecuteJob(w)
  PROVE  BountyInv'
<1> DEFINE j == running[w]  r == job[j]
<1>1. /\ j \in DOMAIN job /\ r \in JobRecords /\ Types /\ Types' /\ Saves /\ Posted
      /\ (r.kind = "save" => r.bp \in Nat) /\ r.conn \in Conns /\ r.bp \in Int
      /\ job \in Seq(JobRecords)
  <2>1. j \in DOMAIN job /\ job \in Seq(JobRecords) /\ Types /\ Types' /\ Saves /\ Posted
    BY DEF ExecuteJob, DataInv, Posted, Types
  <2>2. r \in JobRecords
    BY <2>1
  <2> QED BY <2>1, <2>2 DEF JobRecords, Saves
<1>2. PICK a \in JobRecords : job' = [job EXCEPT ![j] = a] /\ a.kind # "save"
  <2>1. db.bp \in Int /\ db.items \in SUBSET Items
    BY <1>1, Numbered
  <2>2. /\ Over(r.conn) \in JobRecords /\ Over(r.conn).kind # "save"
        /\ Job("half", r.conn, db.bp, {}) \in JobRecords
        /\ Job("half", r.conn, db.bp, {}).kind # "save"
        /\ Job("read", r.conn, r.bp, db.items) \in JobRecords
        /\ Job("read", r.conn, r.bp, db.items).kind # "save"
    BY <1>1, <2>1 DEF Over, Job, JobRecords
  <2> QED BY <2>2 DEF ExecuteJob
<1>3. results' = results /\ obj' = obj
  BY DEF ExecuteJob, pool
<1>4. Unsaved'
  <2>1. \A i \in DOMAIN job : job'[i].kind = "save" => job[i].kind = "save"
    BY <1>1, <1>2
  <2> QED BY <2>1, <1>3, UnsavedKept DEF BountyInv
<1> DEFINE v == IF r.kind = "save" THEN r.bp ELSE 0
<1>5. SumFunction(Saving') = SumFunction(Saving) - v /\ Len(job') = Len(job)
  BY <1>1, <1>2, SavingChanged
<1>6. InCaches' = InCaches
  BY <1>3 DEF InCaches, Cached, HasChar
<1>7. \/ db' = [db EXCEPT !.bp = @ + v] /\ ledger' = ledger
      \/ ledger' = [ledger EXCEPT !.lost = @ + v] /\ db' = db
  <2>1. CASE r.kind = "save"
    BY <2>1 DEF ExecuteJob
  <2>2. CASE r.kind # "save"
    <3>1. db' = db /\ ledger' = ledger
      BY <2>2 DEF ExecuteJob
    <3>2. [db EXCEPT !.bp = @ + 0] = db
      BY <1>1 DEF Types
    <3> QED BY <2>2, <3>1, <3>2
  <2> QED BY <2>1, <2>2
<1>8. /\ v \in Nat /\ SumFunction(Saving) \in Nat /\ InCaches \in Nat /\ Len(job) \in Nat
      /\ InDatabase + InCaches = Account /\ Account \in Int
      /\ Len(job) + InCaches <= ledger.earned + ledger.chosen
      /\ db.bp \in Int /\ ledger.lost \in Nat /\ ledger.earned \in Nat /\ ledger.chosen \in Nat
  BY <1>1, Numbered, SavingSum, CachedSum DEF BountyInv, Books
<1>9. CASE db' = [db EXCEPT !.bp = @ + v] /\ ledger' = ledger
  <2>1. db'.bp = db.bp + v /\ db'.items = db.items
    BY <1>9, <1>1 DEF Types
  <2>2. Account' = Account /\ (Conserved' <=> (InDatabase' + InCaches' = Account'))
    BY <1>9, <2>1 DEF Account, Conserved
  <2>3. InDatabase' = InDatabase
    <3> DEFINE s == SumFunction(Saving)  t == SumFunction(Saving')  b == db.bp  c == db'.bp
    <3>1. /\ InDatabase = b + s /\ InDatabase' = c + t /\ t = s - v /\ c = b + v
          /\ b \in Int /\ s \in Nat /\ v \in Nat
      BY <1>5, <1>8, <2>1 DEF InDatabase
    <3> HIDE DEF s, t, b, c, v
    <3>2. c + t = b + s
      BY ONLY <3>1
    <3> QED BY <3>1, <3>2
  <2>4. Books'
    BY <1>5, <1>6, <1>8, <1>9, <2>2, <2>3 DEF Books
  <2>5. Stock'
    BY <1>9, <2>1 DEF BountyInv, Stock
  <2> QED BY <1>4, <2>4, <2>5 DEF BountyInv
<1>10. CASE ledger' = [ledger EXCEPT !.lost = @ + v] /\ db' = db
  <2>1. /\ ledger'.lost = ledger.lost + v /\ ledger'.earned = ledger.earned
        /\ ledger'.bought = ledger.bought /\ ledger'.chosen = ledger.chosen
    BY <1>10, <1>1 DEF Types
  <2>2. Account' = Account - v /\ (Conserved' <=> (InDatabase' + InCaches' = Account'))
    <3> DEFINE p == Price * ledger.bought  q == Value * (ledger.bought - Cardinality(db.items))
               e == ledger.earned  l == ledger.lost
    <3>1. /\ Account = StartBP + e - l - p + q /\ Account' = StartBP + e - (l + v) - p + q
          /\ (Conserved' <=> (InDatabase' + InCaches' = Account'))
      BY <1>10, <2>1 DEF Account, Conserved
    <3>2. p \in Int /\ q \in Int /\ e \in Nat /\ l \in Nat /\ v \in Nat /\ StartBP \in Nat
      BY <1>1, <1>8, Numbered, Numbers
    <3> HIDE DEF p, q, e, l, v
    <3>3. StartBP + e - (l + v) - p + q = (StartBP + e - l - p + q) - v
      BY ONLY <3>2
    <3> QED BY <3>1, <3>3
  <2>3. InDatabase' = InDatabase - v /\ InDatabase \in Int
    <3> DEFINE s == SumFunction(Saving)  t == SumFunction(Saving')  b == db.bp
    <3>1. /\ InDatabase = b + s /\ InDatabase' = b + t /\ t = s - v
          /\ b \in Int /\ s \in Nat /\ v \in Nat
      BY <1>5, <1>8, <1>10 DEF InDatabase
    <3> HIDE DEF s, t, b, v
    <3>2. b + t = (b + s) - v /\ b + s \in Int
      BY ONLY <3>1
    <3> QED BY <3>1, <3>2
  <2>4. Conserved'
    <3> HIDE DEF v
    <3>1. (InDatabase - v) + InCaches = Account - v
      BY <2>3, <1>8
    <3> QED BY <3>1, <2>2, <2>3, <1>6
  <2>5. Books'
    BY <1>5, <1>6, <1>8, <2>1, <2>4 DEF Books
  <2>6. Stock'
    BY <1>10, <2>1 DEF BountyInv, Stock
  <2> QED BY <1>4, <2>5, <2>6 DEF BountyInv
<1> QED BY <1>7, <1>9, <1>10

LEMMA BountyPool ==
  ASSUME DataInv, DataInv', BountyInv, NEW w \in Workers, RunJob(w)
  PROVE  BountyInv'
<1>1. Types
  BY DEF DataInv
<1>2. CASE StartJob(w)
  <2>1. UNCHANGED <<obj, job, db, ledger, results>>
    BY <1>2 DEF StartJob, Pool!Start
  <2> QED BY <1>1, <2>1, BooksAside, UnsavedKept DEF BountyInv
<1>3. CASE FinishJob(w)
  <2>1. /\ UNCHANGED <<obj, job, db, ledger>> /\ results' = Append(results, running[w])
        /\ job[running[w]].kind # "save" /\ results \in Seq(Nat)
    BY <1>3 DEF FinishJob, Pool!Finish, Returned, DataInv, Posted
  <2>2. running[w] \in Nat
    BY DEF DataInv, Posted
  <2>3. \A i \in DOMAIN results' :
          (i \in DOMAIN results /\ results'[i] = results[i]) \/ results'[i] = running[w]
    BY <2>1, <2>2
  <2>4. Unsaved'
    BY <2>1, <2>3 DEF BountyInv, Unsaved
  <2> QED BY <1>1, <2>1, <2>4, BooksAside DEF BountyInv
<1> QED BY <1>2, <1>3, BountyExecute DEF RunJob

\* A result that is taken was no save.
LEMMA BountyCollect ==
  ASSUME DataInv, DataInv', BountyInv, CollectResult
  PROVE  BountyInv'
<1> DEFINE j == Head(results)
<1>1. /\ results # <<>> /\ results' = Tail(results) /\ job' = [job EXCEPT ![j] = Over(job[j].conn)]
      /\ UNCHANGED <<obj, db, ledger>> /\ Types /\ Saves /\ results \in Seq(Nat)
      /\ job \in Seq(JobRecords)
  BY DEF CollectResult, Pool!Collect, DataInv, Posted, Types
<1>2. j \in DOMAIN job /\ job[j].kind # "save"
  <2>1. 1 \in DOMAIN results /\ j = results[1]
    BY <1>1
  <2> QED BY <2>1 DEF BountyInv, Unsaved, DataInv, Posted
<1>3. Over(job[j].conn) \in JobRecords /\ Over(job[j].conn).kind # "save"
  <2>1. job[j] \in JobRecords
    BY <1>1, <1>2
  <2> QED BY <2>1 DEF JobRecords, Over, Job
<1>4. SumFunction(Saving') = SumFunction(Saving) - 0 /\ Len(job') = Len(job)
  BY <1>1, <1>2, <1>3, SavingChanged
<1>5. InCaches' = InCaches /\ InCaches \in Nat /\ SumFunction(Saving) \in Nat /\ Len(job) \in Nat
  BY <1>1, CachedSum, SavingSum DEF InCaches, Cached, HasChar
<1>6. Books' /\ Stock'
  <2>1. Books'
    BY <1>1, <1>4, <1>5, BooksKept DEF BountyInv
  <2> QED BY <2>1, <1>1 DEF BountyInv, Stock
<1>7. Unsaved'
  <2>1. \A i \in DOMAIN results' : i + 1 \in DOMAIN results /\ results'[i] = results[i + 1]
    BY <1>1
  <2>2. \A i \in DOMAIN job : job'[i].kind = "save" => job[i].kind = "save"
    BY <1>1, <1>3
  <2>3. \A i \in DOMAIN results : results[i] \in DOMAIN job /\ job[results[i]].kind # "save"
    BY DEF BountyInv, Unsaved, DataInv, Posted
  <2> QED BY <2>1, <2>2, <2>3 DEF Unsaved
<1> QED BY <1>6, <1>7 DEF BountyInv

LEMMA BountyResult ==
  ASSUME DataInv, DataInv', BountyInv, HandleResult
  PROVE  BountyInv'
<1>1. Types /\ Types' /\ Saves /\ UNCHANGED <<db, ledger>>
  BY DEF DataInv, HandleResult
<1>2. CASE hand.kind = "read" /\ obj[hand.conn] # None
  <2>1. PICK k \in Conns : k = hand.conn
    BY <1>1, <1>2 DEF HandleResult, Types, JobRecords
  <2>2. obj' = [obj EXCEPT ![k] = Char(hand.bp, hand.items)] /\ PostFlush(k)
    BY <1>2, <2>1 DEF HandleResult
  <2>3. (\A i \in Conns : i # k => obj'[i] = obj[i]) /\ Cached'[k] = 0
    BY <1>1, <2>2 DEF Types, Cached, Char
  <2> QED BY <1>1, <2>2, <2>3, BooksFlush, UnsavedFlush DEF BountyInv
<1>3. CASE ~ (hand.kind = "read" /\ obj[hand.conn] # None)
  <2>1. UNCHANGED <<obj, job, results>>
    BY <1>3 DEF HandleResult, pool
  <2> QED BY <1>1, <2>1, BooksAside, UnsavedKept DEF BountyInv
<1> QED BY <1>2, <1>3

\* Commands.  An object that a login adds was not there before.
LEMMA BountyCommand ==
  ASSUME DataInv, DataInv', OrderInv, BountyInv, HandleCommand
  PROVE  BountyInv'
<1>1. Types /\ Types' /\ Saves /\ UNCHANGED <<db, ledger>>
  BY DEF DataInv, HandleCommand, Login, FirstRequest, NetClear
<1>2. ASSUME NEW k \in Conns, NEW outcome \in DOMAIN After, Login(k, outcome)
      PROVE  BountyInv'
  <2>1. /\ UNCHANGED <<job, results>>
        /\ obj' = obj \/ (outcome = "ok" /\ obj' = [obj EXCEPT ![k] = NoChar])
    BY <1>2 DEF Login, pool
  <2>2. ASSUME outcome = "ok" PROVE obj[k] = None
    <3>1. queue # <<>> /\ queue[1] = <<"login", k>> /\ queue \in Seq(Entries)
      BY <1>1, <1>2, Thrown DEF Types, Entries
    <3>2. 1 \in DOMAIN queue
      BY <3>1, Take
    <3>3. conn[k] \in {"logging in", "closed"}
      BY <3>1, <3>2 DEF OrderInv, Logins
    <3> QED BY <3>3 DEF OrderInv, NoGhost, Inside
  <2>3. Unsaved'
    BY <2>1, UnsavedKept DEF BountyInv
  <2>4. CASE obj' = obj
    BY <1>1, <2>1, <2>3, <2>4, BooksAside DEF BountyInv
  <2>5. CASE outcome = "ok" /\ obj' = [obj EXCEPT ![k] = NoChar]
    <3>1. (\A i \in Conns : i # k => obj'[i] = obj[i]) /\ obj'[k] = NoChar
      BY <1>1, <2>5 DEF Types
    <3>2. obj'[k].state # "char"
      <4>1. NoChar.state # "char"
        BY DEF NoChar
      <4> QED BY <3>1, <4>1
    <3>4. Cached'[k] = 0
      BY <3>2 DEF Cached, HasChar
    <3>3. Cached[k] = 0
      BY <2>2, <2>5 DEF Cached, HasChar, None
    <3> QED BY <1>1, <2>1, <2>3, <3>1, <3>3, <3>4, BooksObject DEF BountyInv
  <2> QED BY <2>1, <2>4, <2>5
<1>3. ASSUME NEW k \in Conns, FirstRequest(k) PROVE BountyInv'
  <2>1. UNCHANGED <<obj, job, results>>
    BY <1>3 DEF FirstRequest, pool
  <2> QED BY <1>1, <2>1, BooksAside, UnsavedKept DEF BountyInv
<1>4. ASSUME NEW k \in Conns, NetClear(k) PROVE BountyInv'
  <2>1. obj' = [obj EXCEPT ![k] = None] /\ PostFlush(k)
    BY <1>4 DEF NetClear
  <2>2. (\A i \in Conns : i # k => obj'[i] = obj[i]) /\ Cached'[k] = 0
    BY <1>1, <2>1 DEF Types, Cached, HasChar, None
  <2> QED BY <1>1, <2>1, <2>2, BooksFlush, UnsavedFlush DEF BountyInv
<1> QED BY <1>2, <1>3, <1>4 DEF HandleCommand

LEMMA EmptyCaches ==
  ASSUME NEW o \in Chars, NEW n \in Int, NEW S \in SUBSET Items
  PROVE  /\ Flushed(o).cache = 0
         /\ [Flushed(o) EXCEPT !.bp = n, !.items = S].cache = 0
BY DEF Chars, Flushed

LEMMA BountySelect ==
  ASSUME DataInv, BountyInv, NEW k \in Conns, SelectChar(k)
  PROVE  BountyInv'
<1> DEFINE r == Job("load", k, 0, {})
<1>1. /\ Post(r) /\ obj' = obj /\ db' = db
      /\ ledger' = [ledger EXCEPT !.chosen = @ + 1] /\ Types /\ Saves
  BY DEF SelectChar, DataInv
<1>2. r \in JobRecords /\ r.kind # "save"
  BY DEF Job, JobRecords
<1>3. SumFunction(Saving') = SumFunction(Saving) + 0 /\ Len(job') = Len(job) + 1
  <2>1. job' = Append(job, r)
    BY <1>1 DEF Post
  <2> QED BY <1>1, <1>2, <2>1, SavingPosted
<1>4. /\ InCaches' = InCaches /\ InCaches \in Nat /\ SumFunction(Saving) \in Nat
      /\ Len(job) \in Nat
  BY <1>1, CachedSum, SavingSum DEF InCaches, Cached, HasChar
<1>5. /\ ledger'.chosen = ledger.chosen + 1 /\ ledger'.earned = ledger.earned
      /\ ledger'.lost = ledger.lost /\ ledger'.bought = ledger.bought
      /\ ledger.earned \in Nat /\ ledger.chosen \in Nat
  BY <1>1, Numbered DEF Types
<1>6. Conserved'
  <2>1. SumFunction(Saving') = SumFunction(Saving)
    BY <1>3, <1>4
  <2> QED BY <1>1, <1>4, <1>5, <2>1 DEF BountyInv, Books, Conserved, InDatabase
<1>7. Books'
  BY <1>3, <1>4, <1>5, <1>6 DEF BountyInv, Books
<1>8. Unsaved'
  BY <1>1, UnsavedPost DEF BountyInv
<1> QED BY <1>1, <1>5, <1>7, <1>8 DEF BountyInv, Stock

LEMMA BountyEarn ==
  ASSUME DataInv, DataInv', BountyInv, NEW k \in Conns, Earn(k)
  PROVE  BountyInv'
<1>1. /\ UNCHANGED <<db, job, results>> /\ Types /\ Types' /\ Saves /\ HasChar(k)
      /\ obj' = [obj EXCEPT ![k] = [obj[k] EXCEPT !.bp = @ + 1, !.cache = @ + 1]]
      /\ ledger' = [ledger EXCEPT !.earned = @ + 1]
  BY DEF Earn, DataInv, pool
<1>2. (\A i \in Conns : i # k => obj'[i] = obj[i]) /\ Cached'[k] = Cached[k] + 1
  <2>1. obj[k] \in Chars /\ obj[k].state = "char" /\ obj[k].cache \in Nat
    BY <1>1, Objects DEF HasChar
  <2>2. obj'[k] = [obj[k] EXCEPT !.bp = @ + 1, !.cache = @ + 1]
    BY <1>1 DEF Types
  <2>3. obj'[k].state = "char" /\ obj'[k].cache = obj[k].cache + 1
    BY <2>1, <2>2 DEF Chars
  <2> QED BY <1>1, <2>1, <2>3 DEF Types, Cached, HasChar
<1>3. InCaches' = InCaches + 1 /\ InCaches \in Nat
  <2>1. InCaches' = InCaches - Cached[k] + Cached'[k] /\ Cached[k] \in Nat
    BY <1>1, <1>2, CachedChanged
  <2>2. InCaches \in Nat
    BY <1>1, CachedSum
  <2> QED BY <1>2, <2>1, <2>2
<1>4. /\ ledger'.earned = ledger.earned + 1 /\ ledger'.chosen = ledger.chosen
      /\ ledger'.lost = ledger.lost /\ ledger'.bought = ledger.bought
      /\ ledger.earned \in Nat /\ ledger.chosen \in Nat /\ ledger.lost \in Nat
  BY <1>1, Numbered DEF Types
<1>5. InDatabase' = InDatabase /\ InDatabase \in Int
  <2>1. Saving' = Saving
    BY <1>1 DEF Saving
  <2> QED BY <1>1, <2>1, Numbered, SavingSum DEF InDatabase
<1>6. Account' = Account + 1 /\ (Conserved' <=> (InDatabase' + InCaches' = Account'))
  <2> DEFINE p == Price * ledger.bought  q == Value * (ledger.bought - Cardinality(db.items))
             e == ledger.earned  l == ledger.lost
  <2>1. /\ Account = StartBP + e - l - p + q /\ Account' = StartBP + (e + 1) - l - p + q
        /\ (Conserved' <=> (InDatabase' + InCaches' = Account'))
    BY <1>1, <1>4 DEF Account, Conserved
  <2>2. p \in Int /\ q \in Int /\ e \in Nat /\ l \in Nat /\ StartBP \in Nat
    BY <1>1, <1>4, Numbered, Numbers
  <2> HIDE DEF p, q, e, l
  <2>3. StartBP + (e + 1) - l - p + q = (StartBP + e - l - p + q) + 1
    BY ONLY <2>2
  <2> QED BY <2>1, <2>3
<1>7. Conserved'
  <2>1. InDatabase + InCaches = Account
    BY <1>1, Numbered DEF BountyInv, Books
  <2> QED BY <1>3, <1>5, <1>6, <2>1
<1>8. Books'
  <2>1. Len(job) \in Nat
    BY <1>1, SavingSum
  <2> QED BY <1>1, <1>3, <1>4, <1>7, <2>1 DEF BountyInv, Books
<1>9. Unsaved'
  BY <1>1, UnsavedKept DEF BountyInv
<1> QED BY <1>1, <1>4, <1>8, <1>9 DEF BountyInv, Stock

\* The shop: a save is posted, and the price or the value goes to or from the
\* database with the item.
LEMMA BountyTrade ==
  ASSUME DataInv, DataInv', BountyInv, NEW k \in Conns, PostFlush(k),
         \A i \in Conns : i # k => obj'[i] = obj[i], Cached'[k] = 0,
         ledger'.earned = ledger.earned, ledger'.lost = ledger.lost,
         ledger'.chosen = ledger.chosen,
         NEW v \in Int, db'.bp = db.bp + v,
         - Price * ledger'.bought + Value * (ledger'.bought - Cardinality(db'.items))
           = v - Price * ledger.bought + Value * (ledger.bought - Cardinality(db.items))
  PROVE  Books'
<1>1. Types /\ Types' /\ Saves
  BY DEF DataInv
<1>2. /\ SumFunction(Saving') + InCaches' = SumFunction(Saving) + InCaches
      /\ Len(job') + InCaches' <= Len(job) + InCaches
      /\ SumFunction(Saving) \in Nat /\ SumFunction(Saving') \in Nat
      /\ InCaches \in Nat /\ InCaches' \in Nat /\ Len(job) \in Nat /\ Len(job') \in Nat
  BY <1>1, FlushMoves
<1>3. InDatabase + InCaches = Account /\ Len(job) + InCaches <= ledger.earned + ledger.chosen
  BY <1>1, Numbered DEF BountyInv, Books
<1>4. /\ ledger.earned \in Nat /\ ledger.lost \in Nat /\ ledger.chosen \in Nat /\ db.bp \in Int
      /\ ledger'.bought \in Nat /\ ledger.bought \in Nat /\ StartBP \in Nat
  <2>1. ledger'.bought \in Nat
    BY <1>1, Numbers DEF Types
  <2> QED BY <1>1, <2>1, Numbered, Numbers
<1>5. Account' = Account + v /\ (Conserved' <=> (InDatabase' + InCaches' = Account'))
  <2> DEFINE p == Price * ledger.bought  q == Value * (ledger.bought - Cardinality(db.items))
             pp == Price * ledger'.bought  qq == Value * (ledger'.bought - Cardinality(db'.items))
             e == ledger.earned  l == ledger.lost
  <2>1. /\ Account = StartBP + e - l - p + q /\ Account' = StartBP + e - l - pp + qq
        /\ (Conserved' <=> (InDatabase' + InCaches' = Account'))
    BY DEF Account, Conserved
  <2>2. p \in Int /\ q \in Int /\ pp \in Int /\ qq \in Int
    <3>1. IsFiniteSet(db'.items) /\ Cardinality(db'.items) \in Nat
      <4>1. db'.items \in SUBSET Items
        BY <1>1 DEF Types
      <4>2. IsFiniteSet(Items)
        <5>1. 1 \in Int /\ MaxItems \in Int
          BY Numbers
        <5> QED BY ONLY <5>1, FS_Interval DEF Items
      <4> HIDE DEF Items
      <4> QED BY <4>1, <4>2, FS_Subset, FS_CardinalityType
    <3>2. Cardinality(db.items) \in Nat
      BY <1>1, Numbered
    <3> QED BY <1>4, <3>1, <3>2, Numbers
  <2>3. - pp + qq = v - p + q
    OBVIOUS
  <2>4. e \in Nat /\ l \in Nat
    BY <1>4
  <2> HIDE DEF p, q, pp, qq, e, l
  <2>5. StartBP + e - l - pp + qq = (StartBP + e - l - p + q) + v
    BY ONLY <2>2, <2>3, <2>4, <1>4, v \in Int
  <2> QED BY <2>1, <2>5
<1>6. InDatabase' + InCaches' = InDatabase + InCaches + v
  <2> DEFINE s == SumFunction(Saving)  t == SumFunction(Saving')
             c == InCaches  d == InCaches'  b == db.bp  bb == db'.bp
  <2>1. /\ InDatabase = b + s /\ InDatabase' = bb + t /\ bb = b + v
        /\ s \in Nat /\ t \in Nat /\ c \in Nat /\ d \in Nat /\ b \in Int /\ t + d = s + c
    BY <1>2, <1>4 DEF InDatabase
  <2> HIDE DEF s, t, c, d, b, bb
  <2>2. (bb + t) + d = (b + s) + c + v
    BY ONLY <2>1, v \in Int
  <2> QED BY <2>1, <2>2 DEF c, d
<1>7. Conserved'
  BY <1>3, <1>5, <1>6
<1>8. Len(job') + InCaches' <= ledger'.earned + ledger'.chosen
  <2> DEFINE c == Len(job) + InCaches  d == Len(job') + InCaches'
             e == ledger.earned + ledger.chosen
  <2>1. d <= c /\ c <= e
    BY <1>2, <1>3
  <2>2. c \in Int /\ d \in Int
    BY <1>2
  <2>3. e \in Int
    BY <1>4
  <2>4. ledger'.earned + ledger'.chosen = e
    OBVIOUS
  <2> HIDE DEF c, d, e
  <2>5. d <= e
    BY ONLY <2>1, <2>2, <2>3
  <2> QED BY <2>4, <2>5 DEF d
<1> QED BY <1>7, <1>8 DEF Books

LEMMA BountyBuy ==
  ASSUME DataInv, DataInv', BountyInv, NEW k \in Conns, BuyItem(k)
  PROVE  BountyInv'
<1>1. /\ Types /\ Types' /\ Saves /\ HasChar(k) /\ PostFlush(k) /\ obj[k] \in Chars
      /\ obj[k].bp \in Int /\ obj[k].items \in SUBSET Items
  BY Objects DEF BuyItem, DataInv
<1>2. Unsaved'
  BY <1>1, UnsavedFlush DEF BountyInv
<1>3. CASE ~ Afforded
  <2>1. obj' = [obj EXCEPT ![k] = Flushed(obj[k])] /\ UNCHANGED <<db, ledger>>
    BY <1>3 DEF BuyItem
  <2>2. (\A i \in Conns : i # k => obj'[i] = obj[i]) /\ obj'[k] = Flushed(obj[k])
    BY <1>1, <2>1 DEF Types
  <2>3. Flushed(obj[k]).cache = 0
    BY <1>1, EmptyCaches
  <2>4. Cached'[k] = 0
    BY <2>2, <2>3 DEF Cached
  <2> QED BY <1>1, <1>2, <2>1, <2>2, <2>4, BooksFlush DEF BountyInv
<1>4. CASE Afforded
  <2> DEFINE item == ledger.bought + 1
  <2>1. /\ obj' = [obj EXCEPT ![k] = Bought(obj[k], item)]
        /\ db' = [db EXCEPT !.bp = @ - Price, !.items = @ \cup {item}]
        /\ ledger' = [ledger EXCEPT !.bought = @ + 1] /\ ledger.bought < MaxItems
    BY <1>4 DEF BuyItem
  <2>2. /\ ledger.bought \in Nat /\ item \in Items /\ db.bp \in Int
        /\ MaxItems \in Nat /\ Price \in Nat
    <3>1. ledger.bought \in Nat /\ db.bp \in Int /\ MaxItems \in Nat /\ Price \in Nat
      BY <1>1, Numbered, Numbers
    <3>2. item \in Items
      <4>1. ledger.bought < MaxItems
        BY <2>1
      <4> QED BY ONLY <3>1, <4>1 DEF Items
    <3> QED BY <3>1, <3>2
  <2>3. /\ db'.bp = db.bp - Price /\ db'.items = db.items \cup {item}
        /\ ledger'.bought = ledger.bought + 1 /\ ledger'.earned = ledger.earned
        /\ ledger'.lost = ledger.lost /\ ledger'.chosen = ledger.chosen
    BY <1>1, <2>1 DEF Types
  <2>4. (\A i \in Conns : i # k => obj'[i] = obj[i]) /\ Cached'[k] = 0
    <3>1. (\A i \in Conns : i # k => obj'[i] = obj[i]) /\ obj'[k] = Bought(obj[k], item)
      BY <1>1, <2>1 DEF Types
    <3>2. Bought(obj[k], item).cache = 0
      BY <1>1, <2>2 DEF Bought, Flushed, Chars
    <3> QED BY <3>1, <3>2 DEF Cached
  <2>5. item \notin db.items
    BY <2>2 DEF BountyInv, Stock
  <2>6. Cardinality(db'.items) = Cardinality(db.items) + 1 /\ Cardinality(db.items) \in Nat
    <3>1. IsFiniteSet(db.items) /\ Cardinality(db.items) \in Nat
      BY <1>1, Numbered
    <3> HIDE DEF item
    <3> QED BY <2>3, <2>5, <3>1, FS_AddElement
  <2>7. - Price * ledger'.bought + Value * (ledger'.bought - Cardinality(db'.items))
          = (- Price) - Price * ledger.bought + Value * (ledger.bought - Cardinality(db.items))
    <3> DEFINE b == ledger.bought  c == Cardinality(db.items)
    <3>1. /\ ledger'.bought = b + 1 /\ Cardinality(db'.items) = c + 1 /\ b \in Nat /\ c \in Nat
          /\ Price \in Nat /\ Value \in Nat
      BY <2>2, <2>3, <2>6, Numbers
    <3> HIDE DEF b, c
    <3>2. (b + 1) - (c + 1) = b - c /\ Price * (b + 1) = Price * b + Price
      BY ONLY <3>1
    <3>3. Value * (b - c) \in Int /\ Price * b \in Int
      BY ONLY <3>1
    <3>4. - (Price * (b + 1)) + Value * (b - c) = (- Price) - Price * b + Value * (b - c)
      BY ONLY <3>1, <3>2, <3>3
    <3> QED BY <3>1, <3>2, <3>4 DEF b, c
  <2>8. - Price \in Int /\ db'.bp = db.bp + (- Price)
    BY <2>2, <2>3
  <2>9. Books'
    <3> HIDE DEF item
    <3> QED BY <1>1, <2>3, <2>4, <2>7, <2>8, BountyTrade
  <2>10. Stock'
    BY <2>2, <2>3 DEF BountyInv, Stock
  <2> QED BY <1>2, <2>9, <2>10 DEF BountyInv
<1> QED BY <1>3, <1>4

LEMMA BountySell ==
  ASSUME DataInv, DataInv', BountyInv, NEW k \in Conns, NEW item \in Items, SellItem(k, item)
  PROVE  BountyInv'
<1>1. /\ Types /\ Types' /\ Saves /\ HasChar(k) /\ PostFlush(k) /\ obj[k] \in Chars
      /\ obj[k].bp \in Int /\ obj[k].items \in SUBSET Items /\ ledger' = ledger
  BY Objects DEF SellItem, DataInv
<1>2. Unsaved'
  BY <1>1, UnsavedFlush DEF BountyInv
<1>3. CASE item \notin db.items
  <2>1. obj' = [obj EXCEPT ![k] = Flushed(obj[k])] /\ UNCHANGED <<db, ledger>>
    BY <1>3 DEF SellItem
  <2>2. (\A i \in Conns : i # k => obj'[i] = obj[i]) /\ obj'[k] = Flushed(obj[k])
    BY <1>1, <2>1 DEF Types
  <2>3. Flushed(obj[k]).cache = 0
    BY <1>1, EmptyCaches
  <2>4. Cached'[k] = 0
    BY <2>2, <2>3 DEF Cached
  <2> QED BY <1>1, <1>2, <2>1, <2>2, <2>4, BooksFlush DEF BountyInv
<1>4. CASE item \in db.items
  <2>1. /\ obj' = [obj EXCEPT ![k] = Sold(obj[k], item)]
        /\ db' = [db EXCEPT !.bp = @ + Value, !.items = @ \ {item}]
    BY <1>4 DEF SellItem
  <2>2. ledger.bought \in Nat /\ db.bp \in Int /\ Value \in Nat
    BY <1>1, Numbered, Numbers
  <2>3. db'.bp = db.bp + Value /\ db'.items = db.items \ {item}
    BY <1>1, <2>1 DEF Types
  <2>4. (\A i \in Conns : i # k => obj'[i] = obj[i]) /\ Cached'[k] = 0
    <3>1. (\A i \in Conns : i # k => obj'[i] = obj[i]) /\ obj'[k] = Sold(obj[k], item)
      BY <1>1, <2>1 DEF Types
    <3>2. Sold(obj[k], item).cache = 0
      BY <1>1, <2>2 DEF Sold, Flushed, Chars
    <3> QED BY <3>1, <3>2 DEF Cached
  <2>5. Cardinality(db'.items) = Cardinality(db.items) - 1 /\ Cardinality(db.items) \in Nat
    <3>1. IsFiniteSet(db.items) /\ Cardinality(db.items) \in Nat
      BY <1>1, Numbered
    <3> QED BY <2>3, <1>4, <3>1, FS_RemoveElement
  <2>6. - Price * ledger'.bought + Value * (ledger'.bought - Cardinality(db'.items))
          = Value - Price * ledger.bought + Value * (ledger.bought - Cardinality(db.items))
    <3> DEFINE b == ledger.bought  c == Cardinality(db.items)
    <3>1. /\ ledger'.bought = b /\ Cardinality(db'.items) = c - 1 /\ b \in Nat /\ c \in Nat
          /\ Price \in Nat /\ Value \in Nat
      BY <1>1, <2>2, <2>5, Numbers
    <3> HIDE DEF b, c
    <3>2. b - (c - 1) = (b - c) + 1 /\ Value * ((b - c) + 1) = Value * (b - c) + Value
      BY ONLY <3>1
    <3>3. Value * (b - c) \in Int /\ Price * b \in Int
      BY ONLY <3>1
    <3>4. - (Price * b) + Value * ((b - c) + 1) = Value - Price * b + Value * (b - c)
      BY ONLY <3>1, <3>2, <3>3
    <3> QED BY <3>1, <3>2, <3>4 DEF b, c
  <2>7. Books'
    <3>1. /\ ledger'.earned = ledger.earned /\ ledger'.lost = ledger.lost
          /\ ledger'.chosen = ledger.chosen /\ Value \in Int
      BY <1>1, <2>2
    <3> QED BY <1>1, <2>3, <2>4, <2>6, <3>1, BountyTrade
  <2>8. Stock'
    BY <1>1, <2>3 DEF BountyInv, Stock
  <2> QED BY <1>2, <2>7, <2>8 DEF BountyInv
<1> QED BY <1>3, <1>4

LEMMA BountyPlay ==
  ASSUME DataInv, DataInv', BountyInv, NEW k \in Conns, Play(k)
  PROVE  BountyInv'
<1>1. Types /\ Types' /\ Saves
  BY DEF DataInv
<1>2. CASE EnterStage(k) \/ LeaveStage(k)
  <2>1. PICK b \in BOOLEAN : obj' = [obj EXCEPT ![k] = [obj[k] EXCEPT !.inStage = b]]
    BY <1>2 DEF EnterStage, LeaveStage
  <2>2. HasChar(k) /\ UNCHANGED <<job, db, ledger, results>>
    BY <1>2 DEF EnterStage, LeaveStage, pool
  <2>3. (\A i \in Conns : i # k => obj'[i] = obj[i]) /\ Cached'[k] = Cached[k]
    <3>1. obj[k] \in Chars
      BY <1>1, <2>2, Objects
    <3>2. obj'[k] = [obj[k] EXCEPT !.inStage = b]
      BY <1>1, <2>1 DEF Types
    <3>3. obj'[k].cache = obj[k].cache /\ obj'[k].state = obj[k].state
      BY <3>1, <3>2 DEF Chars
    <3> QED BY <1>1, <2>1, <3>3 DEF Types, Cached, HasChar
  <2> QED BY <1>1, <2>2, <2>3, BooksObject, UnsavedKept DEF BountyInv
<1>3. CASE LeaveBattle(k)
  <2>1. /\ HasChar(k) /\ obj' = [obj EXCEPT ![k] = Flushed(obj[k])] /\ PostFlush(k)
        /\ UNCHANGED <<db, ledger>>
    BY <1>3 DEF LeaveBattle
  <2>2. (\A i \in Conns : i # k => obj'[i] = obj[i]) /\ obj'[k] = Flushed(obj[k])
    BY <1>1, <2>1 DEF Types
  <2>3. Flushed(obj[k]).cache = 0
    BY <1>1, <2>1, Objects, EmptyCaches
  <2>4. Cached'[k] = 0
    BY <2>2, <2>3 DEF Cached
  <2> QED BY <1>1, <2>1, <2>2, <2>4, BooksFlush, UnsavedFlush DEF BountyInv
<1> QED BY <1>2, <1>3, BountySelect, BountyEarn, BountyBuy, BountySell DEF Play

LEMMA BountyStep == DataInv /\ DataInv' /\ OrderInv /\ BountyInv /\ [Next]_vars => BountyInv'
<1> SUFFICES ASSUME DataInv, DataInv', OrderInv, BountyInv, [Next]_vars PROVE BountyInv'
  OBVIOUS
<1>1. CASE HandleCommand
  BY <1>1, BountyCommand
<1>2. CASE \E w \in Workers : RunJob(w)
  BY <1>2, BountyPool
<1>3. CASE CollectResult \/ HandleResult
  BY <1>3, BountyCollect, BountyResult
<1>4. ASSUME NEW k \in Conns, SendLogin(k) \/ Ask(k) \/ Close(k) \/ Play(k)
      PROVE  BountyInv'
  <2>1. CASE SendLogin(k) \/ Ask(k) \/ Close(k)
    <3>1. UNCHANGED <<obj, job, db, ledger, results>>
      BY <2>1 DEF SendLogin, Ask, Close, pool
    <3> QED BY <3>1, BooksAside, UnsavedKept DEF BountyInv, DataInv
  <2> QED BY <1>4, <2>1, BountyPlay
<1>5. CASE UNCHANGED vars
  <2>1. UNCHANGED <<obj, job, db, ledger, results>>
    BY <1>5 DEF vars, pool
  <2> QED BY <2>1, BooksAside, UnsavedKept DEF BountyInv, DataInv
<1> QED BY <1>1, <1>2, <1>3, <1>4, <1>5 DEF Next

LEMMA BountyInvariance == Spec => []BountyInv
BY BountyInit, BountyStep, DataInvariance, OrderInvariance, PTL DEF Spec

\* Nothing earned is saved twice or forgotten, and nothing is bought or sold for
\* any other price, for any prices, connections, threads and builds.
THEOREM BountyConserved == Spec => []Conserved
<1>1. BountyInv => Conserved
  BY DEF BountyInv, Books
<1> QED BY <1>1, BountyInvariance, PTL

\* What the server and the database hold has its type, and there are no more jobs
\* than characters chosen and things earned: no empty cache is saved.
THEOREM TypeCorrect == Spec => []TypeOK
<1>1. DataInv /\ BountyInv => TypeOK
  <2> SUFFICES ASSUME DataInv, BountyInv PROVE TypeOK
    OBVIOUS
  <2>1. Types
    BY DEF DataInv
  <2>2. /\ Len(job) + InCaches <= ledger.earned + ledger.chosen
        /\ InCaches \in Nat /\ Len(job) \in Nat
    BY <2>1, CachedSum, SavingSum DEF BountyInv, Books, DataInv
  <2>3. ledger.earned <= MaxEarned /\ ledger.chosen <= MaxLoads
        /\ ledger.earned \in Nat /\ ledger.chosen \in Nat
    BY <2>1, Numbers DEF Types
  <2> QED BY <2>1, <2>2, <2>3, Numbers DEF TypeOK, MaxJobs
<1> QED BY <1>1, DataInvariance, BountyInvariance, PTL
=============================================================================
