----------------------------- MODULE DuelProofs -----------------------------
(***************************************************************************)
(* Proofs about Duel.  Everyone has at most one place in the queue or in   *)
(* the fight, the two hold only members of the stage and all of those in   *)
(* the battle who do not just watch, and nobody overtakes who goes on      *)
(* waiting.                                                                *)
(*                                                                         *)
(* Each handler of the rule keeps a queue and a fight sane (Sane) and lets *)
(* nobody pass (NoPass); the lemmas say so for each, and what becomes of   *)
(* the set of those who have a place (Placed).                             *)
(***************************************************************************)
EXTENDS Duel, TLAPS, FiniteSetTheorems, SequenceTheorems

-----------------------------------------------------------------------------
(* The queue.                                                              *)

\* The places that list::remove keeps are numbered in order, none left out.
LEMMA KeptPlaces ==
  ASSUME NEW T, NEW list \in Seq(T), NEW p
  PROVE  \E place \in [1..Len(ListRemove(list, p)) -> Kept(list, p)] :
           /\ \A k \in 1..Len(ListRemove(list, p)) :
                ListRemove(list, p)[k] = list[place[k]]
           /\ \A k, l \in 1..Len(ListRemove(list, p)) : k < l => place[k] < place[l]
           /\ \A i \in Kept(list, p) : \E k \in 1..Len(ListRemove(list, p)) : place[k] = i
<1> DEFINE K == Kept(list, p)
           n == Cardinality(K)
           upto(i) == {j \in K : j <= i}
           rank == [i \in K |-> Cardinality(upto(i))]
           place == [k \in 1..n |-> CHOOSE i \in K : Cardinality(upto(i)) = k]
<1>1. K \subseteq 1..Len(list) /\ IsFiniteSet(K) /\ n \in Nat
  <2>1. K \subseteq 1..Len(list) /\ Len(list) \in Nat
    BY DEF Kept
  <2>2. IsFiniteSet(1..Len(list))
    BY <2>1, FS_Interval
  <2> QED BY <2>1, <2>2, FS_Subset, FS_CardinalityType
<1>2. ListRemove(list, p) = [k \in 1..n |-> list[place[k]]]
  BY DEF ListRemove
<1>3. Len(ListRemove(list, p)) = n
  <2>1. DOMAIN ListRemove(list, p) = 1..n
    BY <1>2
  <2> QED BY <1>1, <2>1
<1>4. \A i \in K : /\ IsFiniteSet(upto(i)) /\ Cardinality(upto(i)) \in 1..n
                   /\ i \in Int /\ Cardinality(upto(i)) \in Int
  <2> SUFFICES ASSUME NEW i \in K
               PROVE  /\ IsFiniteSet(upto(i)) /\ Cardinality(upto(i)) \in 1..n
                      /\ i \in Int /\ Cardinality(upto(i)) \in Int
    OBVIOUS
  <2>1. IsFiniteSet(upto(i)) /\ Cardinality(upto(i)) \in Nat /\ Cardinality(upto(i)) <= n
    <3>1. upto(i) \in SUBSET K
      OBVIOUS
    <3> QED BY <1>1, <3>1, FS_Subset, FS_CardinalityType
  <2>2. i \in upto(i)
    BY <1>1
  <2>3. Cardinality(upto(i)) # 0
    BY <2>1, <2>2, FS_EmptySet
  <2> HIDE DEF K, n, upto
  <2> QED BY <1>1, <2>1, <2>3
<1>5. \A i, j \in K : i < j => Cardinality(upto(i)) < Cardinality(upto(j))
  <2> SUFFICES ASSUME NEW i \in K, NEW j \in K, i < j
               PROVE  Cardinality(upto(i)) < Cardinality(upto(j))
    OBVIOUS
  <2>1. upto(i) \in SUBSET upto(j)
    BY <1>1
  <2>2. j \in upto(j) /\ j \notin upto(i)
    BY <1>1
  <2>3. Cardinality(upto(i)) <= Cardinality(upto(j)) /\ Cardinality(upto(i)) # Cardinality(upto(j))
    BY <1>4, <2>1, <2>2, FS_Subset
  <2>4. Cardinality(upto(i)) \in Int /\ Cardinality(upto(j)) \in Int
    BY ONLY <1>4, i \in K, j \in K, Zenon
  <2> HIDE DEF upto
  <2> QED BY <2>3, <2>4
<1>6. rank \in Surjection(K, 1..n)
  <2>1. rank \in [K -> 1..n]
    BY <1>4
  <2>2. \A i, j \in K : rank[i] = rank[j] => i = j
    <3> SUFFICES ASSUME NEW i \in K, NEW j \in K, rank[i] = rank[j]
                 PROVE  i = j
      OBVIOUS
    <3>1. Cardinality(upto(i)) = Cardinality(upto(j))
      OBVIOUS
    <3>2. ~ (i < j) /\ ~ (j < i)
      <4>1. Cardinality(upto(i)) \in Int /\ Cardinality(upto(j)) \in Int
        BY ONLY <1>4, i \in K, j \in K, Zenon
      <4> HIDE DEF upto
      <4> QED BY <1>5, <3>1, <4>1
    <3>3. i \in Int /\ j \in Int
      BY <1>4
    <3> QED BY <3>2, <3>3
  <2>3. rank \in Injection(K, 1..n)
    BY <2>1, <2>2 DEF Injection, IsInjective
  <2>4. IsFiniteSet(1..n) /\ Cardinality(1..n) = n
    BY <1>1, FS_Interval
  <2> HIDE DEF rank, K
  <2> QED BY <2>3, <2>4, FS_Injection
<1>7. \A k \in 1..n : place[k] \in K /\ Cardinality(upto(place[k])) = k
  <2> SUFFICES ASSUME NEW k \in 1..n
               PROVE  \E i \in K : Cardinality(upto(i)) = k
    OBVIOUS
  <2>1. PICK i \in K : rank[i] = k
    BY <1>6 DEF Surjection
  <2> QED BY <2>1
<1>8. \A k, l \in 1..n : k < l => place[k] < place[l]
  <2> SUFFICES ASSUME NEW k \in 1..n, NEW l \in 1..n, k < l, ~ (place[k] < place[l])
               PROVE  FALSE
    OBVIOUS
  <2>1. PICK i, j : i = place[k] /\ j = place[l]
    OBVIOUS
  <2>2. i \in K /\ j \in K /\ Cardinality(upto(i)) = k /\ Cardinality(upto(j)) = l
    BY <1>7, <2>1
  <2>3. ~ (i < j) /\ i \in Int /\ j \in Int
    BY <1>4, <2>1, <2>2
  <2>4. i = j \/ j < i
    BY <2>3
  <2>5. i # j
    <3> SUFFICES ASSUME i = j PROVE FALSE
      OBVIOUS
    <3>1. Cardinality(upto(i)) = Cardinality(upto(j))
      OBVIOUS
    <3> HIDE DEF upto
    <3> QED BY <2>2, <3>1
  <2>6. Cardinality(upto(j)) < Cardinality(upto(i))
    BY <1>5, <2>2, <2>4, <2>5
  <2> HIDE DEF upto, place
  <2> QED BY <2>2, <2>6
<1>9. \A i \in K : \E k \in 1..n : place[k] = i
  <2> SUFFICES ASSUME NEW i \in K
               PROVE  \E k \in 1..n : place[k] = i
    OBVIOUS
  <2>1. PICK k : k = Cardinality(upto(i)) /\ k \in 1..n
    BY <1>4
  <2>2. place[k] \in K /\ Cardinality(upto(place[k])) = k
    BY <1>7, <2>1
  <2>3. ~ (i < place[k]) /\ ~ (place[k] < i)
    <3>1. PICK j \in K : j = place[k]
      BY <2>2
    <3>2. Cardinality(upto(i)) = k /\ Cardinality(upto(j)) = k /\ k \in Int
      BY <2>1, <2>2, <3>1
    <3>3. ~ (i < j) /\ ~ (j < i)
      <4> HIDE DEF upto
      <4> QED BY <1>5, <3>2
    <3> QED BY <3>1, <3>3
  <2>4. i \in Int /\ place[k] \in Int
    BY <1>4, <2>2
  <2> HIDE DEF place
  <2> QED BY <2>1, <2>3, <2>4
<1>10. place \in [1..n -> K]
  BY <1>7
<1> HIDE DEF place, K, n
<1> QED BY <1>2, <1>3, <1>8, <1>9, <1>10 DEF K

\* rest is what of the list is not p, in the same order.
Filtered(list, rest, p) ==
  /\ \A i, j \in 1..Len(rest) : i < j =>
       \E k, l \in 1..Len(list) : k < l /\ list[k] = rest[i] /\ list[l] = rest[j]
  /\ \A i \in 1..Len(rest) : rest[i] # p /\ \E k \in 1..Len(list) : list[k] = rest[i]
  /\ \A k \in 1..Len(list) : list[k] # p => \E i \in 1..Len(rest) : rest[i] = list[k]

LEMMA ListRemoved ==
  ASSUME NEW T, NEW list \in Seq(T), NEW p
  PROVE  ListRemove(list, p) \in Seq(T) /\ Filtered(list, ListRemove(list, p), p)
<1>0. PICK rest : rest = ListRemove(list, p)
  OBVIOUS
<1>1. PICK place \in [1..Len(rest) -> Kept(list, p)] :
        /\ \A k \in 1..Len(rest) : rest[k] = list[place[k]]
        /\ \A k, l \in 1..Len(rest) : k < l => place[k] < place[l]
        /\ \A i \in Kept(list, p) : \E k \in 1..Len(rest) : place[k] = i
  BY <1>0, KeptPlaces
<1>2. \A i \in Kept(list, p) : i \in 1..Len(list) /\ list[i] # p /\ list[i] \in T
  BY DEF Kept
<1>3. Kept(list, p) = {i \in 1..Len(list) : list[i] # p} /\ Len(list) \in Nat
  BY DEF Kept
<1>4. rest = [k \in 1..Cardinality(Kept(list, p)) |-> rest[k]]
      /\ Cardinality(Kept(list, p)) \in Nat
  <2>1. IsFiniteSet(1..Len(list)) /\ Kept(list, p) \in SUBSET (1..Len(list))
    BY <1>3, FS_Interval
  <2>2. IsFiniteSet(Kept(list, p))
    BY <2>1, FS_Subset
  <2> QED BY <1>0, <2>2, FS_CardinalityType DEF ListRemove
<1>5. DOMAIN rest = 1..Cardinality(Kept(list, p)) /\ Len(rest) = Cardinality(Kept(list, p))
  BY <1>4
<1>6. rest \in Seq(T)
  <2>1. \A k \in 1..Len(rest) : rest[k] \in T
    BY <1>1, <1>2
  <2> QED BY <1>4, <1>5, <2>1
<1>7. \A i, j \in 1..Len(rest) : i < j =>
        \E k, l \in 1..Len(list) : k < l /\ list[k] = rest[i] /\ list[l] = rest[j]
  <2> SUFFICES ASSUME NEW i \in 1..Len(rest), NEW j \in 1..Len(rest), i < j
               PROVE  \E k, l \in 1..Len(list) :
                        k < l /\ list[k] = rest[i] /\ list[l] = rest[j]
    OBVIOUS
  <2>1. place[i] \in Kept(list, p) /\ place[j] \in Kept(list, p)
    OBVIOUS
  <2>2. place[i] \in 1..Len(list) /\ place[j] \in 1..Len(list) /\ place[i] < place[j]
    BY <1>1, <1>2, <2>1
  <2> QED BY <1>1, <2>2
<1>8. \A i \in 1..Len(rest) : rest[i] # p /\ \E k \in 1..Len(list) : list[k] = rest[i]
  BY <1>1, <1>2
<1>9. \A k \in 1..Len(list) : list[k] # p => \E i \in 1..Len(rest) : rest[i] = list[k]
  BY <1>1, <1>3
<1> QED BY <1>0, <1>6, <1>7, <1>8, <1>9 DEF Filtered

-----------------------------------------------------------------------------
(* A sane duel, and steps that let nobody pass.                            *)

Sane(d) ==
  /\ d \in Duels
  /\ \A i, j \in DOMAIN d.queue :
       d.queue[i] = d.queue[j] => i = j \/ d.queue[i] = NoPlayer
  /\ Queued(d) \cap Fighting(d) = {}
  /\ d.champion = d.challenger => d.champion = NoPlayer
Placed(d) == Queued(d) \cup Fighting(d)

NoPass(d, e) ==
  \A p \in Queued(d) \cap Queued(e), q \in Players :
    Ahead(e, q, p) \/ q \in Fighting(e) \ Fighting(d) => Ahead(d, q, p)

LEMMA QueuedAt ==
  ASSUME NEW d, d \in Duels
  PROVE  /\ Len(d.queue) \in Nat /\ DOMAIN d.queue = 1..Len(d.queue)
         /\ \A i \in 1..Len(d.queue) : d.queue[i] \in Players \cup {NoPlayer}
         /\ \A q : q \in Queued(d) <=>
                     (q # NoPlayer /\ \E i \in 1..Len(d.queue) : d.queue[i] = q)
<1>1. d.queue \in Seq(Players \cup {NoPlayer})
  BY DEF Duels
<1>2. Len(d.queue) \in Nat /\ DOMAIN d.queue = 1..Len(d.queue)
  BY <1>1
<1>3. \A i \in 1..Len(d.queue) : d.queue[i] \in Players \cup {NoPlayer}
  BY <1>1
<1>4. ASSUME NEW q
      PROVE  q \in Queued(d) <=>
               (q # NoPlayer /\ \E i \in 1..Len(d.queue) : d.queue[i] = q)
  BY <1>2 DEF Queued, Range
<1> QED BY <1>2, <1>3, <1>4

LEMMA AheadAt ==
  ASSUME NEW d, d \in Duels, NEW p, NEW q
  PROVE  Ahead(d, p, q) <=>
           \E i, j \in 1..Len(d.queue) : i < j /\ d.queue[i] = p /\ d.queue[j] = q
BY QueuedAt DEF Ahead

\* Two steps in a row let nobody pass who waits in between.
LEMMA NoPassTwice ==
  ASSUME NEW d, NEW e, NEW f, NoPass(d, e), NoPass(e, f),
         Queued(d) \cap Queued(f) \subseteq Queued(e)
  PROVE  NoPass(d, f)
<1> SUFFICES ASSUME NEW p \in Queued(d) \cap Queued(f), NEW q \in Players,
                    Ahead(f, q, p) \/ q \in Fighting(f) \ Fighting(d)
             PROVE  Ahead(d, q, p)
  BY DEF NoPass
<1>1. p \in Queued(d) \cap Queued(e) /\ p \in Queued(e) \cap Queued(f)
  OBVIOUS
<1>2. Ahead(e, q, p) \/ q \in Fighting(e) \ Fighting(d)
  BY <1>1 DEF NoPass
<1> QED BY <1>1, <1>2 DEF NoPass

\* The queue stays; of the two who fight, some may stop.
LEMMA SameQueue ==
  ASSUME NEW d, NEW e \in Duels, Sane(d), e.queue = d.queue,
         e.champion \in {d.champion, NoPlayer}, e.challenger \in {d.challenger, NoPlayer}
  PROVE  Sane(e) /\ NoPass(d, e) /\ Queued(e) = Queued(d)
BY DEF Sane, NoPass, Queued, Fighting, Ahead

\* The first of the queue takes a free place in the fight.
LEMMA HeadFights ==
  ASSUME NEW d, NEW e \in Duels, Sane(d), d.queue # <<>>, e.queue = Tail(d.queue),
         \/ /\ d.champion = NoPlayer /\ e.champion = Head(d.queue)
            /\ e.challenger = d.challenger
         \/ /\ d.challenger = NoPlayer /\ e.challenger = Head(d.queue)
            /\ e.champion = d.champion
  PROVE  /\ Sane(e) /\ NoPass(d, e) /\ Placed(e) = Placed(d)
         /\ Queued(e) \subseteq Queued(d)
<1>1. d \in Duels /\ d.queue \in Seq(Players \cup {NoPlayer})
  BY DEF Sane, Duels
<1>2. PICK n, first : n = Len(d.queue) /\ first = d.queue[1]
  OBVIOUS
<1>3. /\ n \in Nat \ {0} /\ Len(e.queue) = n - 1
      /\ \A i \in 1..(n - 1) : e.queue[i] = d.queue[i + 1]
      /\ Head(d.queue) = first
  BY <1>1, <1>2
<1>4. /\ \A q : q \in Queued(d) <=> (q # NoPlayer /\ \E i \in 1..n : d.queue[i] = q)
      /\ \A q : q \in Queued(e) <=> (q # NoPlayer /\ \E i \in 1..(n - 1) : e.queue[i] = q)
  <2>1. \A q : q \in Queued(d) <=>
                 (q # NoPlayer /\ \E i \in 1..Len(d.queue) : d.queue[i] = q)
    BY <1>1, QueuedAt
  <2>2. \A q : q \in Queued(e) <=>
                 (q # NoPlayer /\ \E i \in 1..Len(e.queue) : e.queue[i] = q)
    BY QueuedAt
  <2> QED BY <1>2, <1>3, <2>1, <2>2
<1>5. \A i, j \in 1..n : d.queue[i] = d.queue[j] => i = j \/ d.queue[i] = NoPlayer
  BY <1>1, <1>2, QueuedAt DEF Sane
<1>6. \A q : q \in Queued(d) <=> (q \in Queued(e) \/ (q = first /\ q # NoPlayer))
  <2>1. \A i \in 1..n : i = 1 \/ (i - 1 \in 1..(n - 1) /\ e.queue[i - 1] = d.queue[i])
    BY <1>3
  <2>2. \A i \in 1..(n - 1) : i + 1 \in 1..n /\ e.queue[i] = d.queue[i + 1]
    BY <1>3
  <2>3. 1 \in 1..n
    BY <1>3
  <2>4. ASSUME NEW q \in Queued(d)
        PROVE  q \in Queued(e) \/ (q = first /\ q # NoPlayer)
    <3>1. PICK i \in 1..n : d.queue[i] = q /\ q # NoPlayer
      BY <1>4
    <3> QED BY <1>2, <1>4, <2>1, <3>1
  <2>5. ASSUME NEW q \in Queued(e)
        PROVE  q \in Queued(d)
    <3>1. PICK i \in 1..(n - 1) : e.queue[i] = q /\ q # NoPlayer
      BY <1>4
    <3> QED BY <1>4, <2>2, <3>1
  <2>6. first # NoPlayer => first \in Queued(d)
    BY <1>2, <1>4, <2>3
  <2> QED BY <2>4, <2>5, <2>6
<1>7. first \notin Queued(e)
  BY <1>2, <1>3, <1>4, <1>5
<1>8. /\ Fighting(e) = Fighting(d) \cup ({first} \ {NoPlayer})
      /\ e.champion = e.challenger => e.champion = NoPlayer
  <2>1. first \notin Fighting(d)
    BY <1>6 DEF Sane, Fighting
  <2> QED BY <1>3, <2>1 DEF Fighting
<1>9. Placed(e) = Placed(d) /\ Queued(e) \subseteq Queued(d)
  BY <1>6, <1>8 DEF Placed
<1>10. Sane(e)
  <2>1. \A i, j \in DOMAIN e.queue :
          e.queue[i] = e.queue[j] => i = j \/ e.queue[i] = NoPlayer
    <3>1. DOMAIN e.queue = 1..(n - 1)
      BY <1>3, QueuedAt
    <3> QED BY <1>3, <1>5, <3>1
  <2>2. Queued(e) \cap Fighting(e) = {}
    BY <1>6, <1>7, <1>8 DEF Sane
  <2> QED BY <1>8, <2>1, <2>2 DEF Sane
<1>11. NoPass(d, e)
  <2> SUFFICES ASSUME NEW p \in Queued(d) \cap Queued(e), NEW q \in Players,
                      Ahead(e, q, p) \/ q \in Fighting(e) \ Fighting(d)
               PROVE  \E i, j \in 1..n : i < j /\ d.queue[i] = q /\ d.queue[j] = p
    BY <1>1, <1>2, AheadAt DEF NoPass
  <2>1. CASE Ahead(e, q, p)
    <3>1. PICK i, j \in 1..(n - 1) : i < j /\ e.queue[i] = q /\ e.queue[j] = p
      <4>1. \E i, j \in 1..Len(e.queue) : i < j /\ e.queue[i] = q /\ e.queue[j] = p
        <5>1. Ahead(e, q, p) <=>
                \E i, j \in 1..Len(e.queue) : i < j /\ e.queue[i] = q /\ e.queue[j] = p
          BY ONLY e \in Duels, AheadAt
        <5> QED BY <2>1, <5>1
      <4> QED BY <1>3, <4>1
    <3>2. i + 1 \in 1..n /\ j + 1 \in 1..n /\ i + 1 < j + 1
      BY <1>3, <3>1
    <3>3. d.queue[i + 1] = q /\ d.queue[j + 1] = p
      BY <1>3, <3>1
    <3> QED BY <3>2, <3>3
  <2>2. CASE q \in Fighting(e) \ Fighting(d)
    <3>1. q = first
      BY <1>8, <2>2
    <3>2. PICK j \in 1..(n - 1) : e.queue[j] = p
      BY <1>4
    <3>3. 1 \in 1..n /\ j + 1 \in 1..n /\ 1 < j + 1
      BY <1>3, <3>2
    <3>4. d.queue[1] = q /\ d.queue[j + 1] = p
      BY <1>2, <1>3, <3>1, <3>2
    <3> QED BY <3>3, <3>4
  <2> QED BY <2>1, <2>2
<1> QED BY <1>9, <1>10, <1>11

\* Some who do not wait go to the end of the queue.
LEMMA OthersWait ==
  ASSUME NEW d, NEW e \in Duels, NEW more \in Seq(Players \cup {NoPlayer}), Sane(d),
         e.queue = d.queue \o more, Fighting(e) \subseteq Fighting(d),
         \A i \in 1..Len(more) : more[i] \notin Queued(d) \cup Fighting(e),
         \A i, j \in 1..Len(more) : more[i] = more[j] => i = j \/ more[i] = NoPlayer,
         e.champion = e.challenger => e.champion = NoPlayer
  PROVE  /\ Sane(e) /\ NoPass(d, e)
         /\ \A q : q \in Queued(e) <=>
                     (q \in Queued(d) \/ (q \in Players /\ \E i \in 1..Len(more) : more[i] = q))
<1>1. d \in Duels /\ d.queue \in Seq(Players \cup {NoPlayer})
  BY DEF Sane, Duels
<1>2. PICK n, m : n = Len(d.queue) /\ m = Len(more)
  OBVIOUS
<1>3. /\ n \in Nat /\ m \in Nat /\ Len(e.queue) = n + m
      /\ \A i \in 1..(n + m) : e.queue[i] = IF i <= n THEN d.queue[i] ELSE more[i - n]
  BY <1>1, <1>2
<1>4. /\ \A q : q \in Queued(d) <=> (q # NoPlayer /\ \E i \in 1..n : d.queue[i] = q)
      /\ \A q : q \in Queued(e) <=> (q # NoPlayer /\ \E i \in 1..(n + m) : e.queue[i] = q)
  <2>1. \A q : q \in Queued(d) <=>
                 (q # NoPlayer /\ \E i \in 1..Len(d.queue) : d.queue[i] = q)
    BY <1>1, QueuedAt
  <2>2. \A q : q \in Queued(e) <=>
                 (q # NoPlayer /\ \E i \in 1..Len(e.queue) : e.queue[i] = q)
    BY QueuedAt
  <2> QED BY <1>2, <1>3, <2>1, <2>2
<1>5. \A i, j \in 1..n : d.queue[i] = d.queue[j] => i = j \/ d.queue[i] = NoPlayer
  BY <1>1, <1>2, QueuedAt DEF Sane
<1>6. /\ \A i \in 1..n : i \in 1..(n + m) /\ e.queue[i] = d.queue[i]
      /\ \A i \in 1..m : n + i \in 1..(n + m) /\ e.queue[n + i] = more[i]
      /\ \A i \in 1..(n + m) :
           \/ i \in 1..n /\ e.queue[i] = d.queue[i]
           \/ i - n \in 1..m /\ i > n /\ e.queue[i] = more[i - n]
  <2>1. ASSUME NEW i \in 1..n
        PROVE  i \in 1..(n + m) /\ e.queue[i] = d.queue[i]
    BY <1>3
  <2>2. ASSUME NEW i \in 1..m
        PROVE  n + i \in 1..(n + m) /\ e.queue[n + i] = more[i]
    <3>1. n + i \in 1..(n + m) /\ ~ (n + i <= n) /\ (n + i) - n = i
      BY <1>3
    <3> QED BY <1>3, <3>1
  <2>3. ASSUME NEW i \in 1..(n + m)
        PROVE  \/ i \in 1..n /\ e.queue[i] = d.queue[i]
               \/ i - n \in 1..m /\ i > n /\ e.queue[i] = more[i - n]
    BY <1>3
  <2> QED BY <2>1, <2>2, <2>3
<1>7. \A i \in 1..m : more[i] \in Players \cup {NoPlayer} /\ more[i] \notin Queued(d) \cup Fighting(e)
  BY <1>2
<1>8. \A q : q \in Queued(e) <=> (q \in Queued(d) \/ (q \in Players /\ \E i \in 1..m : more[i] = q))
  <2>1. ASSUME NEW q \in Queued(e)
        PROVE  q \in Queued(d) \/ (q \in Players /\ \E i \in 1..m : more[i] = q)
    <3>1. PICK i \in 1..(n + m) : e.queue[i] = q /\ q # NoPlayer
      BY <1>4
    <3>2. CASE i \in 1..n /\ e.queue[i] = d.queue[i]
      BY <1>4, <3>1, <3>2
    <3>3. CASE i - n \in 1..m /\ e.queue[i] = more[i - n]
      BY <1>7, <3>1, <3>3
    <3> QED BY <1>6, <3>2, <3>3
  <2>2. ASSUME NEW q \in Queued(d)
        PROVE  q \in Queued(e)
    <3>1. PICK i \in 1..n : d.queue[i] = q /\ q # NoPlayer
      BY <1>4
    <3> QED BY <1>4, <1>6, <3>1
  <2>3. ASSUME NEW q \in Players, NEW i \in 1..m, more[i] = q
        PROVE  q \in Queued(e)
    <3>1. n + i \in 1..(n + m) /\ e.queue[n + i] = q
      BY <1>6, <2>3
    <3> QED BY <1>4, <3>1, PlayersAssumption
  <2> QED BY <2>1, <2>2, <2>3
<1>9. Sane(e)
  <2>1. Queued(e) \cap Fighting(e) = {}
    BY <1>7, <1>8 DEF Sane
  <2>2. ASSUME NEW i \in 1..(n + m), NEW j \in 1..(n + m), e.queue[i] = e.queue[j],
               e.queue[i] # NoPlayer
        PROVE  i = j
    <3>1. CASE i \in 1..n /\ j \in 1..n
      BY <1>5, <1>6, <2>2, <3>1
    <3>2. CASE i \notin 1..n /\ j \notin 1..n
      <4>1. i - n \in 1..m /\ j - n \in 1..m /\ more[i - n] = more[j - n]
            /\ more[i - n] # NoPlayer
        BY <1>6, <2>2, <3>2
      <4>2. i - n = j - n
        BY <1>2, <4>1
      <4> QED BY <1>3, <4>2
    <3>3. CASE i \in 1..n /\ j \notin 1..n
      <4>1. j - n \in 1..m /\ more[j - n] = d.queue[i] /\ d.queue[i] # NoPlayer
        BY <1>6, <2>2, <3>3
      <4>2. d.queue[i] \in Queued(d)
        BY <1>4, <3>3, <4>1
      <4> QED BY <1>7, <4>1, <4>2
    <3>4. CASE i \notin 1..n /\ j \in 1..n
      <4>1. i - n \in 1..m /\ more[i - n] = d.queue[j] /\ d.queue[j] # NoPlayer
        BY <1>6, <2>2, <3>4
      <4>2. d.queue[j] \in Queued(d)
        BY <1>4, <3>4, <4>1
      <4> QED BY <1>7, <4>1, <4>2
    <3> QED BY <3>1, <3>2, <3>3, <3>4
  <2>3. DOMAIN e.queue = 1..(n + m)
    BY <1>3, QueuedAt
  <2> QED BY <2>1, <2>2, <2>3 DEF Sane
<1>10. NoPass(d, e)
  <2> SUFFICES ASSUME NEW p \in Queued(d), NEW q \in Players, Ahead(e, q, p)
               PROVE  \E i, j \in 1..n : i < j /\ d.queue[i] = q /\ d.queue[j] = p
    <3>1. ASSUME NEW p \in Queued(d), NEW q \in Players
          PROVE  Ahead(d, q, p) <=> \E i, j \in 1..n : i < j /\ d.queue[i] = q /\ d.queue[j] = p
      BY <1>1, <1>2, AheadAt
    <3> QED BY <3>1 DEF NoPass
  <2>1. PICK i, j \in 1..(n + m) : i < j /\ e.queue[i] = q /\ e.queue[j] = p
    <3>1. \E i, j \in 1..Len(e.queue) : i < j /\ e.queue[i] = q /\ e.queue[j] = p
      <4>1. Ahead(e, q, p) <=>
              \E i, j \in 1..Len(e.queue) : i < j /\ e.queue[i] = q /\ e.queue[j] = p
        BY ONLY e \in Duels, AheadAt
      <4> QED BY <4>1
    <3> QED BY <1>3, <3>1
  <2>2. j \in 1..n
    BY <1>6, <1>7, <2>1
  <2>3. i \in 1..n
    BY <1>3, <2>1, <2>2
  <2> QED BY <1>6, <2>1, <2>2, <2>3
<1> QED BY <1>2, <1>8, <1>9, <1>10

\* One player leaves the queue.
LEMMA OneLeavesQueue ==
  ASSUME NEW d, NEW e \in Duels, NEW p \in Players, Sane(d),
         e.queue = ListRemove(d.queue, p),
         e.champion = d.champion, e.challenger = d.challenger
  PROVE  Sane(e) /\ NoPass(d, e) /\ Queued(e) = Queued(d) \ {p}
<1>1. d \in Duels /\ d.queue \in Seq(Players \cup {NoPlayer})
  BY DEF Sane, Duels
<1>2. PICK n, m : n = Len(d.queue) /\ m = Len(e.queue)
  OBVIOUS
<1>3. /\ \A i, j \in 1..m : i < j =>
           \E k, l \in 1..n : k < l /\ d.queue[k] = e.queue[i] /\ d.queue[l] = e.queue[j]
      /\ \A i \in 1..m : e.queue[i] # p /\ \E k \in 1..n : d.queue[k] = e.queue[i]
      /\ \A k \in 1..n : d.queue[k] # p => \E i \in 1..m : e.queue[i] = d.queue[k]
  <2>1. Filtered(d.queue, e.queue, p)
    BY <1>1, ListRemoved
  <2> QED BY <1>2, <2>1 DEF Filtered
<1>4. /\ n \in Nat /\ m \in Nat /\ DOMAIN e.queue = 1..m
      /\ \A q : q \in Queued(d) <=> (q # NoPlayer /\ \E i \in 1..n : d.queue[i] = q)
      /\ \A q : q \in Queued(e) <=> (q # NoPlayer /\ \E i \in 1..m : e.queue[i] = q)
  BY <1>1, <1>2, QueuedAt
<1>5. \A i, j \in 1..n : d.queue[i] = d.queue[j] => i = j \/ d.queue[i] = NoPlayer
  BY <1>1, <1>2, QueuedAt DEF Sane
<1>6. Queued(e) = Queued(d) \ {p}
  <2>1. \A q : q \in Queued(e) <=> (q \in Queued(d) /\ q # p)
    <3>1. ASSUME NEW q \in Queued(e)
          PROVE  q \in Queued(d) /\ q # p
      <4>1. PICK i \in 1..m : e.queue[i] = q /\ q # NoPlayer
        BY <1>4
      <4> QED BY <1>3, <1>4, <4>1
    <3>2. ASSUME NEW q \in Queued(d), q # p
          PROVE  q \in Queued(e)
      <4>1. PICK k \in 1..n : d.queue[k] = q /\ q # NoPlayer
        BY <1>4
      <4> QED BY <1>3, <1>4, <3>2, <4>1
    <3> QED BY <3>1, <3>2
  <2> QED BY <2>1
<1>7. Fighting(e) = Fighting(d)
  BY DEF Fighting
<1>8. Sane(e)
  <2>1. ASSUME NEW i \in 1..m, NEW j \in 1..m, e.queue[i] = e.queue[j],
               e.queue[i] # NoPlayer
        PROVE  i = j
    <3>1. ~ (i < j)
      BY <1>3, <1>5, <2>1
    <3>2. ~ (j < i)
      BY <1>3, <1>5, <2>1
    <3> QED BY <3>1, <3>2
  <2> QED BY <1>4, <1>6, <1>7, <2>1 DEF Sane
<1>9. NoPass(d, e)
  <2> SUFFICES ASSUME NEW q, NEW r, Ahead(e, q, r)
               PROVE  Ahead(d, q, r)
    BY <1>7 DEF NoPass
  <2>1. PICK i, j \in 1..m : i < j /\ e.queue[i] = q /\ e.queue[j] = r
    BY <1>2, AheadAt
  <2>2. \E k, l \in 1..n : k < l /\ d.queue[k] = q /\ d.queue[l] = r
    BY ONLY <1>3, <2>1, SMT
  <2> QED BY <1>1, <1>2, <2>2, AheadAt
<1> QED BY <1>6, <1>8, <1>9

-----------------------------------------------------------------------------
(* The handlers of MMatchRuleDuel.                                         *)

LEMMA Flags ==
  ASSUME NEW d, NEW e \in Duels, Sane(d), e.queue = d.queue,
         e.champion = d.champion, e.challenger = d.challenger
  PROVE  Sane(e) /\ NoPass(d, e) /\ Placed(e) = Placed(d)
<1>1. Sane(e) /\ NoPass(d, e) /\ Queued(e) = Queued(d)
  BY SameQueue
<1> QED BY <1>1 DEF Placed, Fighting

LEMMA QueueTypes ==
  ASSUME NEW d \in Duels, d.queue # <<>>
  PROVE  Head(d.queue) \in Players \cup {NoPlayer}
         /\ Tail(d.queue) \in Seq(Players \cup {NoPlayer})
<1>1. d.queue \in Seq(Players \cup {NoPlayer})
  BY DEF Duels
<1> QED BY <1>1

LEMMA SpawnSound ==
  ASSUME NEW d, Sane(d)
  PROVE  /\ Sane(SpawnPlayers(d)) /\ NoPass(d, SpawnPlayers(d))
         /\ Placed(SpawnPlayers(d)) = Placed(d) /\ Queued(SpawnPlayers(d)) \subseteq Queued(d)
<1>1. ASSUME NEW f, Sane(f)
      PROVE  /\ Sane(FillChampion(f)) /\ NoPass(f, FillChampion(f))
             /\ Placed(FillChampion(f)) = Placed(f) /\ Queued(FillChampion(f)) \subseteq Queued(f)
  <2>1. f \in Duels
    BY <1>1 DEF Sane
  <2>2. CASE f.champion = NoPlayer /\ f.queue # <<>>
    <3>1. PICK e : e = [f EXCEPT !.champion = Head(f.queue), !.queue = Tail(f.queue)]
      OBVIOUS
    <3>2. FillChampion(f) = e
      BY <2>2, <3>1 DEF FillChampion
    <3>3. /\ e \in Duels /\ e.queue = Tail(f.queue) /\ e.champion = Head(f.queue)
          /\ e.challenger = f.challenger
      BY <2>1, <2>2, <3>1, QueueTypes DEF Duels
    <3> QED BY <1>1, <2>2, <3>2, <3>3, HeadFights
  <2>3. CASE ~ (f.champion = NoPlayer /\ f.queue # <<>>)
    <3>1. FillChampion(f) = f
      BY <2>3 DEF FillChampion
    <3> QED BY <1>1, <2>1, <3>1, Flags
  <2> QED BY <2>2, <2>3
<1>2. ASSUME NEW f, Sane(f)
      PROVE  /\ Sane(FillChallenger(f)) /\ NoPass(f, FillChallenger(f))
             /\ Placed(FillChallenger(f)) = Placed(f)
             /\ Queued(FillChallenger(f)) \subseteq Queued(f)
  <2>1. f \in Duels
    BY <1>2 DEF Sane
  <2>2. CASE f.challenger = NoPlayer /\ f.queue # <<>>
    <3>1. PICK e : e = [f EXCEPT !.challenger = Head(f.queue), !.queue = Tail(f.queue)]
      OBVIOUS
    <3>2. FillChallenger(f) = e
      BY <2>2, <3>1 DEF FillChallenger
    <3>3. /\ e \in Duels /\ e.queue = Tail(f.queue) /\ e.challenger = Head(f.queue)
          /\ e.champion = f.champion
      BY <2>1, <2>2, <3>1, QueueTypes DEF Duels
    <3> QED BY <1>2, <2>2, <3>2, <3>3, HeadFights
  <2>3. CASE ~ (f.challenger = NoPlayer /\ f.queue # <<>>)
    <3>1. FillChallenger(f) = f
      BY <2>3 DEF FillChallenger
    <3> QED BY <1>2, <2>1, <3>1, Flags
  <2> QED BY <2>2, <2>3
<1>3. PICK mid : mid = FillChampion(d)
  OBVIOUS
<1>4. PICK e : e = FillChallenger(mid)
  OBVIOUS
<1>5. SpawnPlayers(d) = e
  BY <1>3, <1>4 DEF SpawnPlayers
<1>6. /\ Sane(mid) /\ NoPass(d, mid) /\ Placed(mid) = Placed(d)
      /\ Queued(mid) \subseteq Queued(d)
  BY <1>1, <1>3
<1>7. Sane(e) /\ NoPass(mid, e) /\ Placed(e) = Placed(mid) /\ Queued(e) \subseteq Queued(mid)
  BY <1>2, <1>4, <1>6
<1>8. NoPass(d, e)
  BY <1>6, <1>7, NoPassTwice
<1> QED BY <1>5, <1>6, <1>7, <1>8

LEMMA RoundBeginSound ==
  ASSUME NEW d, Sane(d)
  PROVE  /\ Sane(OnRoundBegin(d)) /\ NoPass(d, OnRoundBegin(d))
         /\ Placed(OnRoundBegin(d)) = Placed(d)
<1>1. PICK mid : mid = [d EXCEPT !.isRoundEnd = FALSE, !.isTimeover = TRUE]
  OBVIOUS
<1>2. /\ mid \in Duels /\ mid.queue = d.queue /\ mid.champion = d.champion
      /\ mid.challenger = d.challenger
  BY <1>1 DEF Sane, Duels
<1>3. Sane(mid) /\ NoPass(d, mid) /\ Placed(mid) = Placed(d)
  BY <1>2, Flags
<1>4. PICK e : e = SpawnPlayers(mid)
  OBVIOUS
<1>5. /\ Sane(e) /\ NoPass(mid, e) /\ Placed(e) = Placed(mid)
      /\ Queued(e) \subseteq Queued(mid)
  BY <1>3, <1>4, SpawnSound
<1>6. NoPass(d, e)
  BY <1>3, <1>5, NoPassTwice
<1> QED BY <1>1, <1>3, <1>4, <1>5, <1>6 DEF OnRoundBegin

LEMMA RoundEndSound ==
  ASSUME NEW d, Sane(d)
  PROVE  /\ Sane(OnRoundEnd(d)) /\ NoPass(d, OnRoundEnd(d))
         /\ Placed(OnRoundEnd(d)) = Placed(d)
<1>1. d \in Duels /\ d.queue \in Seq(Players \cup {NoPlayer})
      /\ d.champion \in Players \cup {NoPlayer} /\ d.challenger \in Players \cup {NoPlayer}
  BY DEF Sane, Duels
<1>2. d.champion = d.challenger => d.champion = NoPlayer
  BY DEF Sane
<1>3. \A q : q \in Fighting(d) => q \notin Queued(d)
  BY DEF Sane
<1>4. NoPlayer \notin Queued(d) /\ NoPlayer \notin Players
  BY PlayersAssumption DEF Queued
<1>5. CASE d.isTimeover
  <2>1. PICK more, e : more = <<d.champion, d.challenger>> /\ e = BothWait(d)
    OBVIOUS
  <2>2. /\ more \in Seq(Players \cup {NoPlayer}) /\ Len(more) = 2
        /\ more[1] = d.champion /\ more[2] = d.challenger
    BY <1>1, <2>1
  <2>3. /\ e \in Duels /\ e.queue = d.queue \o more
        /\ e.champion = NoPlayer /\ e.challenger = NoPlayer
    <3>1. d.queue \o more \in Seq(Players \cup {NoPlayer})
      BY <1>1, <2>2
    <3>2. e = [d EXCEPT !.queue = d.queue \o more,
                        !.champion = NoPlayer, !.challenger = NoPlayer]
      BY <2>1 DEF BothWait
    <3> HIDE <2>1
    <3> QED BY <1>1, <3>1, <3>2 DEF Duels
  <2>4. Fighting(e) = {}
    BY <2>3 DEF Fighting
  <2>5. \A i \in 1..2 : i = 1 \/ i = 2
    OBVIOUS
  <2>6. \A i \in 1..Len(more) : more[i] \notin Queued(d) \cup Fighting(e)
    BY <1>3, <1>4, <2>2, <2>4, <2>5 DEF Fighting
  <2>7. \A i, j \in 1..Len(more) : more[i] = more[j] => i = j \/ more[i] = NoPlayer
    BY <1>2, <2>2, <2>5
  <2>8. /\ Sane(e) /\ NoPass(d, e)
        /\ \A q : q \in Queued(e) <=>
                    (q \in Queued(d) \/ (q \in Players /\ \E i \in 1..Len(more) : more[i] = q))
    <3>1. Fighting(e) \subseteq Fighting(d) /\ (e.champion = e.challenger => e.champion = NoPlayer)
      BY <2>3, <2>4
    <3>2. Sane(e) /\ NoPass(d, e)
      BY <2>2, <2>3, <2>6, <2>7, <3>1, OthersWait
    <3>3. \A q : q \in Queued(e) <=>
                    (q \in Queued(d) \/ (q \in Players /\ \E i \in 1..Len(more) : more[i] = q))
      <4>1. e.queue = d.queue \o more /\ more \in Seq(Players \cup {NoPlayer})
        BY <2>2, <2>3
      <4> QED BY <2>3, <2>6, <2>7, <3>1, <4>1, OthersWait
    <3> QED BY <3>2, <3>3
  <2>9. {q \in Players : \E i \in 1..Len(more) : more[i] = q} = Fighting(d)
    <3>1. 1 \in 1..2 /\ 2 \in 1..2
      OBVIOUS
    <3> QED BY <1>1, <1>4, <2>2, <2>5, <3>1 DEF Fighting
  <2>10. OnRoundEnd(d) = e
    BY <1>5, <2>1 DEF OnRoundEnd
  <2> QED BY <2>4, <2>8, <2>9, <2>10 DEF Placed
<1>6. CASE ~ d.isTimeover
  <2>1. PICK w, l : w = Winner(d) /\ l = Loser(d)
    OBVIOUS
  <2>2. \/ w = d.champion /\ l = d.challenger
        \/ w = d.challenger /\ l = d.champion
    BY <2>1 DEF Winner, Loser
  <2>3. PICK e : e = OnRoundEnd(d)
    OBVIOUS
  <2>4. e = [d EXCEPT !.champion = w, !.challenger = NoPlayer,
                      !.queue = IF l = NoPlayer THEN @ ELSE Append(@, l)]
    BY <1>6, <2>1, <2>3 DEF OnRoundEnd
  <2>5. e \in Duels /\ e.champion = w /\ e.challenger = NoPlayer
        /\ e.queue = IF l = NoPlayer THEN d.queue ELSE Append(d.queue, l)
    <3>1. PICK queue : queue = IF l = NoPlayer THEN d.queue ELSE Append(d.queue, l)
      OBVIOUS
    <3>2. queue \in Seq(Players \cup {NoPlayer}) /\ w \in Players \cup {NoPlayer}
      BY <1>1, <2>2, <3>1
    <3>3. e = [d EXCEPT !.champion = w, !.challenger = NoPlayer, !.queue = queue]
      BY <2>4, <3>1
    <3> QED BY <1>1, <3>1, <3>2, <3>3 DEF Duels
  <2>6. Fighting(e) = {w} \ {NoPlayer} /\ Fighting(d) = {w, l} \ {NoPlayer}
        /\ (w = l => w = NoPlayer)
    BY <1>2, <2>2, <2>5 DEF Fighting
  <2>7. PICK more : more = IF l = NoPlayer THEN <<>> ELSE <<l>>
    OBVIOUS
  <2>8. more \in Seq(Players \cup {NoPlayer}) /\ e.queue = d.queue \o more
    <3>1. CASE l = NoPlayer
      BY <1>1, <2>5, <2>7, <3>1, EmptySeq, ConcatEmptySeq
    <3>2. CASE l # NoPlayer
      BY <1>1, <2>2, <2>5, <2>7, <3>2, AppendIsConcat
    <3> QED BY <3>1, <3>2
  <2>9. \A i \in 1..Len(more) : i = 1 /\ more[i] = l /\ l # NoPlayer
    BY <2>7
  <2>10. \A i \in 1..Len(more) : more[i] \notin Queued(d) \cup Fighting(e)
    BY <1>3, <2>6, <2>9
  <2>11. /\ Sane(e) /\ NoPass(d, e)
         /\ \A q : q \in Queued(e) <=>
                    (q \in Queued(d) \/ (q \in Players /\ \E i \in 1..Len(more) : more[i] = q))
    <3>1. Fighting(e) \subseteq Fighting(d) /\ (e.champion = e.challenger => e.champion = NoPlayer)
      BY <2>5, <2>6
    <3>2. \A i, j \in 1..Len(more) : more[i] = more[j] => i = j \/ more[i] = NoPlayer
      BY <2>9
    <3>3. Sane(e) /\ NoPass(d, e)
      BY <2>5, <2>8, <2>10, <3>1, <3>2, OthersWait
    <3>4. \A q : q \in Queued(e) <=>
                    (q \in Queued(d) \/ (q \in Players /\ \E i \in 1..Len(more) : more[i] = q))
      BY <2>5, <2>8, <2>10, <3>1, <3>2, OthersWait
    <3> QED BY <3>3, <3>4
  <2>12. {q \in Players : \E i \in 1..Len(more) : more[i] = q} = {l} \ {NoPlayer}
    <3>1. CASE l = NoPlayer
      BY <1>4, <2>9, <3>1
    <3>2. CASE l # NoPlayer
      <4>1. 1 \in 1..Len(more) /\ more[1] = l
        BY <2>7, <3>2
      <4> QED BY <1>1, <2>2, <2>9, <3>2, <4>1
    <3> QED BY <3>1, <3>2
  <2> QED BY <2>3, <2>6, <2>11, <2>12 DEF Placed
<1> QED BY <1>5, <1>6

LEMMA EnterSound ==
  ASSUME NEW d, Sane(d), NEW p \in Players
  PROVE  /\ Sane(OnEnterBattle(d, p)) /\ NoPass(d, OnEnterBattle(d, p))
         /\ Placed(OnEnterBattle(d, p)) \in {Placed(d), Placed(d) \cup {p}}
         /\ p \notin spectators => p \in Placed(OnEnterBattle(d, p))
<1>1. d \in Duels /\ d.queue \in Seq(Players \cup {NoPlayer})
  BY DEF Sane, Duels
<1>2. CASE p \in spectators \/ p \in Placed(d)
  <2>1. OnEnterBattle(d, p) = d
    BY <1>2 DEF OnEnterBattle, Placed
  <2> QED BY <1>1, <1>2, <2>1, Flags
<1>3. CASE p \notin spectators /\ p \notin Placed(d)
  <2>1. PICK mid, more : mid = [d EXCEPT !.queue = Append(@, p)] /\ more = <<p>>
    OBVIOUS
  <2>2. /\ more \in Seq(Players \cup {NoPlayer}) /\ Len(more) = 1 /\ more[1] = p
    BY <2>1
  <2>3. /\ mid \in Duels /\ mid.queue = d.queue \o more
        /\ mid.champion = d.champion /\ mid.challenger = d.challenger
    <3>1. Append(d.queue, p) = d.queue \o more /\ Append(d.queue, p) \in Seq(Players \cup {NoPlayer})
      BY <1>1, <2>1, AppendIsConcat
    <3>2. mid = [d EXCEPT !.queue = Append(d.queue, p)]
      BY <2>1
    <3> QED BY <1>1, <3>1, <3>2 DEF Duels
  <2>4. Fighting(mid) = Fighting(d)
    BY <2>3 DEF Fighting
  <2>5. \A i \in 1..1 : i = 1
    OBVIOUS
  <2>6. \A i \in 1..Len(more) : more[i] = p
    BY <2>2, <2>5
  <2>7. \A i \in 1..Len(more) : more[i] \notin Queued(d) \cup Fighting(mid)
    BY <1>3, <2>4, <2>6 DEF Placed
  <2>8. \A i, j \in 1..Len(more) : more[i] = more[j] => i = j \/ more[i] = NoPlayer
    BY <2>2, <2>5
  <2>9. mid.champion = mid.challenger => mid.champion = NoPlayer
    BY <2>3 DEF Sane
  <2>10. /\ Sane(mid) /\ NoPass(d, mid)
         /\ \A q : q \in Queued(mid) <=>
                     (q \in Queued(d) \/ (q \in Players /\ \E i \in 1..Len(more) : more[i] = q))
    BY <2>2, <2>3, <2>4, <2>7, <2>8, <2>9, OthersWait
  <2>11. {q \in Players : \E i \in 1..Len(more) : more[i] = q} = {p}
    <3>1. 1 \in 1..Len(more)
      BY <2>2
    <3> QED BY <2>6, <3>1
  <2>12. PICK e : e = SpawnPlayers(mid)
    OBVIOUS
  <2>13. /\ Sane(e) /\ NoPass(mid, e) /\ Placed(e) = Placed(mid)
         /\ Queued(e) \subseteq Queued(mid)
    BY <2>10, <2>12, SpawnSound
  <2>14. NoPass(d, e)
    BY <2>10, <2>13, NoPassTwice
  <2>15. OnEnterBattle(d, p) = e
    BY <1>3, <2>1, <2>12 DEF OnEnterBattle, Placed
  <2>16. Placed(e) = Placed(d) \cup {p}
    BY <2>4, <2>10, <2>11, <2>13 DEF Placed
  <2> QED BY <2>13, <2>14, <2>15, <2>16
<1> QED BY <1>2, <1>3

LEMMA RemoveTypes ==
  ASSUME NEW d \in Duels, NEW p
  PROVE  ListRemove(d.queue, p) \in Seq(Players \cup {NoPlayer})
<1>1. d.queue \in Seq(Players \cup {NoPlayer})
  BY DEF Duels
<1> QED BY <1>1, ListRemoved

LEMMA LeaveSound ==
  ASSUME NEW d, Sane(d), NEW p \in Players
  PROVE  /\ Sane(OnLeaveBattle(d, p)) /\ NoPass(d, OnLeaveBattle(d, p))
         /\ Queued(OnLeaveBattle(d, p)) \subseteq Queued(d)
         /\ Placed(OnLeaveBattle(d, p)) = Placed(d) \ {p}
<1>1. d \in Duels
  BY DEF Sane
<1>2. PICK e : e = OnLeaveBattle(d, p)
  OBVIOUS
<1>3. p # NoPlayer
  BY PlayersAssumption
<1> SUFFICES /\ Sane(e) /\ NoPass(d, e) /\ Queued(e) \subseteq Queued(d)
             /\ Placed(e) = Placed(d) \ {p}
  BY <1>2
<1>4. CASE p = d.champion \/ p = d.challenger
  <2>1. /\ e \in Duels /\ e.queue = d.queue
        /\ \/ p = d.champion /\ e.champion = NoPlayer /\ e.challenger = d.challenger
           \/ p = d.challenger /\ e.champion = d.champion /\ e.challenger = NoPlayer
    <3>1. CASE p = d.champion
      <4>1. e = [d EXCEPT !.isChangeChampion = TRUE, !.isRoundEnd = TRUE,
                          !.champion = NoPlayer]
        BY <1>2, <1>3, <3>1 DEF OnLeaveBattle, Sane
      <4> QED BY <1>1, <3>1, <4>1 DEF Duels
    <3>2. CASE p # d.champion /\ p = d.challenger
      <4>1. e = [d EXCEPT !.isChangeChampion = FALSE, !.isRoundEnd = TRUE,
                          !.challenger = NoPlayer]
        BY <1>2, <3>2 DEF OnLeaveBattle
      <4> QED BY <1>1, <3>2, <4>1 DEF Duels
    <3> QED BY <1>4, <3>1, <3>2
  <2>2. Sane(e) /\ NoPass(d, e) /\ Queued(e) = Queued(d)
    BY <2>1, SameQueue
  <2>3. Fighting(e) = Fighting(d) \ {p} /\ p \notin Queued(d)
    BY <1>3, <2>1 DEF Sane, Fighting
  <2> QED BY <2>2, <2>3 DEF Placed
<1>5. CASE p # d.champion /\ p # d.challenger
  <2>1. e = [d EXCEPT !.queue = ListRemove(@, p)]
    BY <1>2, <1>5 DEF OnLeaveBattle
  <2>2. /\ e \in Duels /\ e.queue = ListRemove(d.queue, p)
        /\ e.champion = d.champion /\ e.challenger = d.challenger
    BY <1>1, <2>1, RemoveTypes DEF Duels
  <2>3. Sane(e) /\ NoPass(d, e) /\ Queued(e) = Queued(d) \ {p}
    BY <2>2, OneLeavesQueue
  <2>4. Fighting(e) = Fighting(d) /\ p \notin Fighting(d)
    BY <1>5, <2>2 DEF Fighting
  <2> QED BY <2>3, <2>4 DEF Placed
<1> QED BY <1>4, <1>5

LEMMA SpectatorSound ==
  ASSUME NEW d, Sane(d), NEW p \in Players
  PROVE  /\ Sane(OnTeamSpectator(d, p)) /\ NoPass(d, OnTeamSpectator(d, p))
         /\ Placed(OnTeamSpectator(d, p)) \subseteq Placed(d)
         /\ Placed(d) \ {p} \subseteq Placed(OnTeamSpectator(d, p))
<1>1. d \in Duels
  BY DEF Sane
<1>2. PICK e : e = OnTeamSpectator(d, p)
  OBVIOUS
<1>3. /\ e \in Duels /\ e.queue = ListRemove(d.queue, p)
      /\ e.champion = d.champion /\ e.challenger = d.challenger
  BY <1>1, <1>2, RemoveTypes DEF OnTeamSpectator, Duels
<1>4. Sane(e) /\ NoPass(d, e) /\ Queued(e) = Queued(d) \ {p}
  BY <1>3, OneLeavesQueue
<1> QED BY <1>2, <1>3, <1>4 DEF Placed, Fighting

\* OnBegin puts every member into the queue once.
LEMMA BeginSound ==
  ASSUME NEW d \in Duels, NEW ps \in SUBSET Players, NEW order \in Orders(ps)
  PROVE  Sane(OnBegin(d, order)) /\ Placed(OnBegin(d, order)) = ps
<1>1. IsFiniteSet(ps) /\ Cardinality(ps) \in Nat
  BY PlayersAssumption, FS_Subset, FS_CardinalityType
<1>2. PICK n : n = Cardinality(ps) /\ n \in Nat
  BY <1>1
<1>3. order \in [1..n -> ps] /\ IsInjective(order)
  BY <1>2 DEF Orders
<1>4. order \in Surjection(1..n, ps)
  <2>1. order \in Injection(1..n, ps)
    BY <1>3 DEF Injection
  <2>2. Cardinality(1..n) = n
    BY <1>2, FS_Interval
  <2> QED BY <1>1, <1>2, <2>1, <2>2, FS_Injection
<1>5. PICK e : e = OnBegin(d, order)
  OBVIOUS
<1>6. order \in Seq(Players \cup {NoPlayer}) /\ Len(order) = n /\ DOMAIN order = 1..n
  BY <1>2, <1>3
<1>7. /\ e \in Duels /\ e.queue = order /\ e.champion = NoPlayer /\ e.challenger = NoPlayer
  BY <1>5, <1>6 DEF OnBegin, Duels
<1>8. Fighting(e) = {}
  BY <1>7 DEF Fighting
<1>9. Queued(e) = ps
  <2>1. \A q : q \in Queued(e) <=> (q # NoPlayer /\ \E i \in 1..n : order[i] = q)
    BY <1>6, <1>7, QueuedAt
  <2>2. \A q \in ps : \E i \in 1..n : order[i] = q
    BY <1>4 DEF Surjection
  <2> QED BY <1>3, <2>1, <2>2, PlayersAssumption
<1>10. \A i, j \in DOMAIN e.queue :
         e.queue[i] = e.queue[j] => i = j \/ e.queue[i] = NoPlayer
  BY <1>3, <1>7 DEF IsInjective
<1> QED BY <1>5, <1>7, <1>8, <1>9, <1>10 DEF Sane, Placed

LEMMA FlagTypes ==
  ASSUME NEW d \in Duels, NEW p \in Players
  PROVE  /\ Checked(d) \in Duels /\ OnGameKill(d, p) \in Duels
         /\ OnTeamSpectator(d, p) \in Duels
<1>1. Checked(d) \in Duels
  BY DEF Checked, Duels
<1>2. OnGameKill(d, p) \in Duels
  <2>1. (p # d.challenger) \in BOOLEAN
    OBVIOUS
  <2> QED BY <2>1 DEF OnGameKill, Duels
<1>3. OnTeamSpectator(d, p) \in Duels
  BY RemoveTypes DEF OnTeamSpectator, Duels
<1> QED BY <1>1, <1>2, <1>3

LEMMA KillSound ==
  ASSUME NEW d, Sane(d), NEW p \in Players
  PROVE  /\ Sane(OnGameKill(d, p)) /\ NoPass(d, OnGameKill(d, p))
         /\ Placed(OnGameKill(d, p)) = Placed(d)
<1>1. PICK e : e = OnGameKill(d, p)
  OBVIOUS
<1>2. d \in Duels /\ e \in Duels
  BY <1>1, FlagTypes DEF Sane
<1>3. e.queue = d.queue /\ e.champion = d.champion /\ e.challenger = d.challenger
  BY <1>1, <1>2 DEF OnGameKill, Duels
<1> QED BY <1>1, <1>2, <1>3, Flags

LEMMA CheckedSound ==
  ASSUME NEW d, Sane(d)
  PROVE  Sane(Checked(d)) /\ NoPass(d, Checked(d)) /\ Placed(Checked(d)) = Placed(d)
         /\ Queued(Checked(d)) = Queued(d)
<1>1. PICK e : e = Checked(d)
  OBVIOUS
<1>2. d \in Duels /\ e \in Duels
  BY <1>1 DEF Sane, Checked, Duels
<1>3. e.queue = d.queue /\ e.champion = d.champion /\ e.challenger = d.challenger
  BY <1>1, <1>2 DEF Checked, Duels
<1> QED BY <1>1, <1>2, <1>3, Flags DEF Queued

\* A round that ends, decided or not: the flags are set before the queue.
LEMMA FinishedSound ==
  ASSUME NEW d, Sane(d), NEW mid \in Duels, mid.queue = d.queue,
         mid.champion = d.champion, mid.challenger = d.challenger
  PROVE  /\ Sane(OnRoundEnd(mid)) /\ NoPass(d, OnRoundEnd(mid))
         /\ Placed(OnRoundEnd(mid)) = Placed(d)
<1>1. Sane(mid) /\ NoPass(d, mid) /\ Placed(mid) = Placed(d) /\ Queued(mid) = Queued(d)
  BY Flags DEF Queued
<1>2. PICK e : e = OnRoundEnd(mid)
  OBVIOUS
<1>3. Sane(e) /\ NoPass(mid, e) /\ Placed(e) = Placed(mid)
  BY <1>1, <1>2, RoundEndSound
<1>4. NoPass(d, e)
  BY <1>1, <1>3, NoPassTwice
<1> QED BY <1>1, <1>2, <1>3, <1>4

-----------------------------------------------------------------------------
(* The invariant.                                                          *)

\* While the rule runs, everyone has one place, those who have one are members,
\* and so has everyone in the battle who does not just watch.
DInv ==
  /\ TypeOK
  /\ stage = "RUN" => /\ Sane(duel)
                      /\ Placed(duel) \subseteq members
                      /\ battle \ spectators \subseteq Placed(duel)

\* What every step owes: the invariant, and that nobody passes in a game.
Orderly == DInv' /\ (stage = "RUN" /\ stage' = "RUN" => NoPass(duel, duel'))

\* A tick of a running game whose handlers keep who has a place.
LEMMA TickOrderly ==
  ASSUME DInv, stage = "RUN", stage' \in {"RUN", "STANDBY"}, round' \in RoundStates,
         members' = members, battle' = battle, launched' = launched,
         spectators' = spectators, alive' \in SUBSET battle,
         Sane(duel'), NoPass(duel, duel'), Placed(duel') = Placed(duel)
  PROVE  Orderly
BY DEF Orderly, DInv, TypeOK, Sane

LEMMA RunOrderly ==
  ASSUME DInv, Run
  PROVE  Orderly
<1>0. stage = "RUN" /\ Sane(duel) /\ duel \in Duels
  BY DEF Run, DInv, TypeOK
<1>1. alive \in SUBSET battle
  BY DEF DInv, TypeOK
<1>2. PICK d : d = Checked(duel)
  OBVIOUS
<1>3. /\ Sane(d) /\ d \in Duels /\ NoPass(duel, d) /\ Placed(d) = Placed(duel)
      /\ Queued(d) = Queued(duel)
  BY <1>0, <1>2, CheckedSound DEF Sane
<1>4. Sane(duel) /\ NoPass(duel, duel)
  BY <1>0, Flags
<1>5. CASE Prepare
  <2>1. duel' = d /\ round' \in RoundStates /\ alive' \in SUBSET battle
    BY <1>1, <1>2, <1>5 DEF Prepare, RoundStates
  <2> QED BY <1>0, <1>3, <1>5, <2>1, TickOrderly DEF Prepare
<1>6. CASE Countdown
  <2>1. Sane(duel') /\ NoPass(duel, duel') /\ Placed(duel') = Placed(duel)
    BY <1>0, <1>6, RoundBeginSound DEF Countdown
  <2> QED BY <1>0, <1>1, <1>6, <2>1, TickOrderly DEF Countdown, people, RoundStates
<1>7. CASE Play
  <2>1. Sane(duel') /\ NoPass(duel, duel') /\ Placed(duel') = Placed(duel)
    <3>1. CASE duel' = d
      BY <1>3, <3>1
    <3>2. ASSUME NEW mid, duel' = OnRoundEnd(mid),
                 mid = d \/ mid = [d EXCEPT !.isRoundEnd = FALSE, !.isTimeover = FALSE]
          PROVE  Sane(duel') /\ NoPass(duel, duel') /\ Placed(duel') = Placed(duel)
      <4>1. /\ mid \in Duels /\ mid.queue = d.queue /\ mid.champion = d.champion
            /\ mid.challenger = d.challenger
        BY <1>3, <3>2 DEF Duels
      <4>2. Sane(duel') /\ NoPass(d, duel') /\ Placed(duel') = Placed(d)
        BY <1>3, <3>2, <4>1, FinishedSound
      <4>3. NoPass(duel, duel')
        BY <1>3, <4>2, NoPassTwice
      <4> QED BY <1>3, <4>2, <4>3
    <3>3. \/ duel' = d
          \/ duel' = OnRoundEnd(d)
          \/ duel' = OnRoundEnd([d EXCEPT !.isRoundEnd = FALSE, !.isTimeover = FALSE])
      BY <1>2, <1>7 DEF Play
    <3> QED BY <3>1, <3>2, <3>3
  <2>2. round' \in RoundStates /\ stage' = stage
    BY <1>7 DEF Play, RoundStates
  <2> QED BY <1>0, <1>1, <1>7, <2>1, <2>2, TickOrderly DEF Play, people
<1>8. CASE Finish
  <2>1. round' \in RoundStates /\ duel' = duel
    BY <1>8 DEF Finish, RoundStates
  <2> QED BY <1>0, <1>1, <1>4, <1>8, <2>1, TickOrderly DEF Finish, people
<1>9. CASE Free
  <2>1. round' \in RoundStates /\ duel' = d
    BY <1>2, <1>9 DEF Free, RoundStates
  <2> QED BY <1>0, <1>1, <1>3, <1>9, <2>1, TickOrderly DEF Free, people
<1>10. CASE Exit
  <2>1. round' \in RoundStates /\ duel' = duel
    BY <1>10 DEF Exit, DInv, TypeOK
  <2> QED BY <1>0, <1>1, <1>4, <1>10, <2>1, TickOrderly DEF Exit, people
<1> QED BY <1>5, <1>6, <1>7, <1>8, <1>9, <1>10 DEF Run

LEMMA BeginOrderly ==
  ASSUME DInv, Begin
  PROVE  Orderly
<1>1. PICK order \in Orders(members) : duel' = OnBegin(duel, order)
  BY DEF Begin
<1>2. duel \in Duels /\ members \in SUBSET Players /\ battle \subseteq members
  BY DEF DInv, TypeOK
<1>3. Sane(duel') /\ Placed(duel') = members
  BY <1>1, <1>2, BeginSound
<1>4. stage = "COUNTDOWN" /\ stage' = "RUN" /\ round' \in RoundStates /\ UNCHANGED people
  BY DEF Begin, RoundStates
<1>5. TypeOK'
  BY <1>3, <1>4 DEF DInv, TypeOK, people, Sane
<1> QED BY <1>2, <1>3, <1>4, <1>5 DEF Orderly, DInv, people

LEMMA LeaveOrderly ==
  ASSUME DInv, NEW p \in Players, LeaveStage(p) \/ LeaveBattle(p)
  PROVE  Orderly
<1>1. CASE LeaveBattle(p)
  <2>1. CASE stage = "RUN"
    <3>1. /\ Sane(duel') /\ NoPass(duel, duel') /\ Placed(duel') = Placed(duel) \ {p}
      BY <1>1, <2>1, LeaveSound DEF LeaveBattle, Without, DInv
    <3> QED BY <1>1, <2>1, <3>1 DEF LeaveBattle, Orderly, DInv, TypeOK, Sane
  <2>2. CASE stage # "RUN"
    BY <1>1, <2>2 DEF LeaveBattle, Without, Orderly, DInv, TypeOK
  <2> QED BY <2>1, <2>2
<1>2. CASE LeaveStage(p)
  <2>1. CASE stage = "RUN"
    <3>1. PICK mid : mid = IF p \in battle THEN OnLeaveBattle(duel, p) ELSE duel
      OBVIOUS
    <3>2. duel' = OnLeaveBattle(mid, p) /\ Sane(duel) /\ duel \in Duels
      BY <1>2, <2>1, <3>1 DEF LeaveStage, Without, DInv, Sane
    <3>3. /\ Sane(mid) /\ NoPass(duel, mid) /\ Queued(mid) \subseteq Queued(duel)
          /\ Placed(mid) \in {Placed(duel), Placed(duel) \ {p}}
      BY <3>1, <3>2, LeaveSound, Flags
    <3>4. /\ Sane(duel') /\ NoPass(mid, duel') /\ Queued(duel') \subseteq Queued(mid)
          /\ Placed(duel') = Placed(duel) \ {p}
      BY <3>2, <3>3, LeaveSound
    <3>5. NoPass(duel, duel')
      BY <3>3, <3>4, NoPassTwice
    <3> QED BY <1>2, <2>1, <3>4, <3>5 DEF LeaveStage, Gone, Orderly, DInv, TypeOK, Sane
  <2>2. CASE stage # "RUN"
    BY <1>2, <2>2 DEF LeaveStage, Gone, Without, Orderly, DInv, TypeOK
  <2> QED BY <2>1, <2>2
<1> QED BY <1>1, <1>2

LEMMA EnterOrderly ==
  ASSUME DInv, NEW p \in Players, EnterBattle(p)
  PROVE  Orderly
<1>1. CASE stage = "RUN"
  <2>1. /\ Sane(duel') /\ NoPass(duel, duel')
        /\ Placed(duel') \in {Placed(duel), Placed(duel) \cup {p}}
        /\ p \notin spectators => p \in Placed(duel')
    BY <1>1, EnterSound DEF EnterBattle, DInv
  <2> QED BY <1>1, <2>1 DEF EnterBattle, Orderly, DInv, TypeOK, Sane
<1>2. CASE stage # "RUN"
  BY <1>2 DEF EnterBattle, Orderly, DInv, TypeOK
<1> QED BY <1>1, <1>2

LEMMA TeamOrderly ==
  ASSUME DInv, NEW p \in Players, SetTeam(p)
  PROVE  Orderly
<1>0. duel \in Duels
  BY DEF DInv, TypeOK
<1>1. CASE spectators' = spectators \ {p} /\ UNCHANGED duel
  <2>1. stage = "RUN" => NoPass(duel, duel')
    BY <1>0, <1>1, Flags DEF DInv
  <2> QED BY <1>1, <2>1 DEF SetTeam, Orderly, DInv, TypeOK
<1>2. CASE spectators' = spectators \cup {p} /\ duel' = OnTeamSpectator(duel, p)
  <2>1. CASE stage = "RUN"
    <3>1. /\ Sane(duel') /\ NoPass(duel, duel') /\ Placed(duel') \subseteq Placed(duel)
          /\ Placed(duel) \ {p} \subseteq Placed(duel')
      BY <1>2, <2>1, SpectatorSound DEF DInv
    <3> QED BY <1>2, <2>1, <3>1 DEF SetTeam, Orderly, DInv, TypeOK, Sane
  <2>2. CASE stage # "RUN"
    BY <1>0, <1>2, <2>2, FlagTypes DEF SetTeam, Orderly, DInv, TypeOK
  <2> QED BY <2>1, <2>2
<1> QED BY <1>1, <1>2 DEF SetTeam

LEMMA OthersOrderly ==
  ASSUME DInv, NEW p \in Players, Join(p) \/ Kill(p) \/ RequestSpawn(p)
  PROVE  Orderly
<1>0. duel \in Duels
  BY DEF DInv, TypeOK
<1>1. CASE Join(p) \/ RequestSpawn(p)
  <2>1. duel' = duel /\ (stage = "RUN" => NoPass(duel, duel'))
    BY <1>0, <1>1, Flags DEF DInv, Join, RequestSpawn
  <2> QED BY <1>1, <2>1 DEF Join, RequestSpawn, Orderly, DInv, TypeOK
<1>2. CASE Kill(p)
  <2>1. duel' = OnGameKill(duel, p) /\ duel' \in Duels
    BY <1>0, <1>2, FlagTypes DEF Kill
  <2>2. stage = "RUN" => Sane(duel') /\ NoPass(duel, duel') /\ Placed(duel') = Placed(duel)
    BY <2>1, KillSound DEF DInv
  <2> QED BY <1>2, <2>1, <2>2 DEF Kill, Orderly, DInv, TypeOK
<1> QED BY <1>1, <1>2

LEMMA StepOrderly ==
  ASSUME DInv, Next
  PROVE  Orderly
<1>1. CASE Tick
  BY <1>1, BeginOrderly, RunOrderly DEF Tick
<1>2. CASE StartGame
  BY <1>2 DEF StartGame, Orderly, DInv, TypeOK
<1>3. ASSUME NEW p \in Players,
             \/ Join(p) \/ LeaveStage(p) \/ EnterBattle(p) \/ LeaveBattle(p)
             \/ SetTeam(p) \/ Kill(p) \/ RequestSpawn(p)
      PROVE  Orderly
  BY <1>3, LeaveOrderly, EnterOrderly, TeamOrderly, OthersOrderly
<1> QED BY <1>1, <1>2, <1>3 DEF Next

THEOREM Invariance == Spec => []DInv
<1>1. Init => DInv
  <2>1. <<>> \in Seq(Players \cup {NoPlayer})
    OBVIOUS
  <2> QED BY <2>1 DEF Init, DInv, TypeOK, Duels, RoundStates
<1>2. DInv /\ [Next]_vars => DInv'
  <2>1. CASE Next
    BY <2>1, StepOrderly DEF Orderly
  <2>2. CASE UNCHANGED vars
    BY <2>2 DEF vars, DInv, TypeOK
  <2> QED BY <2>1, <2>2
<1> QED BY <1>1, <1>2, PTL DEF Spec

-----------------------------------------------------------------------------
(* The results.                                                            *)

\* The fields of the rule and the sets of players keep their types.
THEOREM TypeCorrect == Spec => []TypeOK
<1>1. DInv => TypeOK
  BY DEF DInv
<1> QED BY <1>1, Invariance, PTL

\* WaitQueue holds nobody twice and neither of the two who fight, and nobody
\* fights oneself.
THEOREM PlacesSound == Spec => []OnePlaceEach
<1>1. DInv => OnePlaceEach
  BY DEF DInv, Sane, OnePlaceEach
<1> QED BY <1>1, Invariance, PTL

\* The rule calls only members of the stage to fight.
THEOREM CallsSound == Spec => []OnlyMembersCalled
<1>1. DInv => OnlyMembersCalled
  BY DEF DInv, Placed, OnlyMembersCalled
<1> QED BY <1>1, Invariance, PTL

\* The rule forgets nobody who is in the battle to fight.
THEOREM NoneForgotten == Spec => []NobodyForgotten
<1>1. DInv => NobodyForgotten
  BY DEF DInv, Placed, NobodyForgotten
<1> QED BY <1>1, Invariance, PTL

\* In a game, nobody comes to be ahead of a player who waits before and after
\* the step, or to fight before that player, who was not ahead already.
THEOREM TurnsSound == Spec => NoOvertaking
<1> DEFINE A == stage = "RUN" /\ stage' = "RUN" =>
                  \A p \in Queued(duel) \cap Queued(duel'), q \in Players :
                    Ahead(duel', q, p) \/ q \in Fighting(duel') \ Fighting(duel)
                      => Ahead(duel, q, p)
<1>1. DInv /\ [Next]_vars => [A]_vars
  BY StepOrderly DEF Orderly, NoPass
<1> QED BY <1>1, Invariance, PTL DEF Spec, NoOvertaking
=============================================================================
