----------------------------- MODULE VoteProofs -----------------------------
(***************************************************************************)
(* Proofs about Vote, for any players, admins, texts and bounds: the       *)
(* types, when a client can come to ask about a vote that is over, and     *)
(* that a vote about somebody ends with that player's departure.           *)
(*                                                                         *)
(* A client that has unread notices may come to ask about anything: what   *)
(* is inductive is that the last notice it was sent, if that is a call, is *)
(* about the vote that is open.  A client without unread notices asks      *)
(* about that vote too, unless it dropped a result; from then on nothing   *)
(* is said of it until the next notice.                                    *)
(***************************************************************************)
EXTENDS Vote, TLAPS

\* What p's client asks about when it has read the box b, if it heeds all of it.
Ends(b, p) == IF b[p] = <<>> THEN asked[p] ELSE b[p][Len(b[p])].id
WillAsk(p) == Ends(box, p)

Fits(p) == WillAsk(p) # 0 => Open /\ vote.id = WillAsk(p) /\ p \in members
IInv == TypeOK /\ \A p \in Players : box[p] # <<>> => Fits(p)

Boxes == [Players -> Seq(Notices)]

-----------------------------------------------------------------------------
(* Notices.                                                                *)

LEMMA NoticeTypes ==
  /\ Over \in Notices /\ Gone \in Notices /\ Left \in Notices
  /\ Over.id = 0 /\ Gone.id = 0 /\ Left.id = 0
  /\ \A n \in Notices : n.id \in 0..MaxMotions
  /\ \A n \in Notices : n.kind \notin {"call", "over"} => n.id = 0
  /\ \A i \in Motions : Call(i) \in Notices /\ Call(i).id = i /\ Call(i) \notin {Over, Gone, Left}
<1>1. \A i \in Motions : i \in 0..MaxMotions
  BY VoteBoundsAssumption DEF Motions
<1>2. 0 \in 0..MaxMotions
  BY VoteBoundsAssumption
<1> QED BY <1>1, <1>2 DEF Notices, Call, Over, Gone, Left

LEMMA Appended ==
  ASSUME NEW S, NEW s \in Seq(S), NEW n \in S
  PROVE  /\ Append(s, n) \in Seq(S) /\ Append(s, n) # <<>> /\ Append(s, n) # s
         /\ Append(s, n)[Len(Append(s, n))] = n
<1>1. Len(Append(s, n)) = Len(s) + 1 /\ Append(s, n)[Len(s) + 1] = n /\ Len(s) \in Nat
  OBVIOUS
<1>2. Append(s, n) \in Seq(S)
  OBVIOUS
<1>3. Len(Append(s, n)) # Len(s) /\ Len(Append(s, n)) # 0
  BY <1>1
<1> QED BY <1>1, <1>2, <1>3

\* Taking the first notice out of a box leaves its last one, if it was not that.
LEMMA FirstAndLast ==
  ASSUME NEW S, NEW s \in Seq(S), s # <<>>
  PROVE  /\ Tail(s) \in Seq(S) /\ Head(s) \in S
         /\ Tail(s) = <<>> => Head(s) = s[Len(s)]
         /\ Tail(s) # <<>> => Tail(s)[Len(Tail(s))] = s[Len(s)]
<1>1. Len(s) \in Nat /\ Len(s) >= 1 /\ Head(s) = s[1] /\ s[1] \in S
  OBVIOUS
<1>2. Tail(s) \in Seq(S) /\ Len(Tail(s)) = Len(s) - 1
  OBVIOUS
<1>3. \A i \in 1..Len(Tail(s)) : Tail(s)[i] = s[i + 1]
  BY <1>1, <1>2
<1>4. Tail(s) = <<>> => Len(s) = 1
  BY <1>1, <1>2
<1>5. Tail(s) # <<>> => Len(Tail(s)) \in 1..Len(Tail(s))
  BY <1>2
<1>6. Tail(s) # <<>> => Tail(s)[Len(Tail(s))] = s[(Len(s) - 1) + 1]
  BY <1>2, <1>3, <1>5
<1>7. (Len(s) - 1) + 1 = Len(s)
  BY <1>1
<1> QED BY <1>1, <1>2, <1>4, <1>6, <1>7

\* Whoever is sent a notice will ask about what it says (nothing, if it is not
\* a call); the boxes of the others stay.
LEMMA Notified ==
  ASSUME TypeOK, NEW b \in Boxes, NEW ps, NEW n \in Notices
  PROVE  /\ Notify(b, ps, n) \in Boxes
         /\ \A p \in Players : p \notin ps => Notify(b, ps, n)[p] = b[p]
         /\ \A p \in ps \cap Players :
              Ends(Notify(b, ps, n), p) = n.id \/ Ends(Notify(b, ps, n), p) = 0
         /\ \A p \in Players : Notify(b, ps, n)[p] = <<>> => b[p] = <<>>
<1> DEFINE c == Notify(b, ps, n)
<1>1. \A p \in Players : c[p] = IF p \in ps /\ (n \notin {Over, Gone} \/ MayAsk(b, p))
                               THEN Append(b[p], n) ELSE b[p]
  BY DEF Notify
<1>2. \A p \in Players : b[p] \in Seq(Notices)
  BY DEF Boxes
<1>3. \A p \in Players : /\ Append(b[p], n) \in Seq(Notices) /\ Append(b[p], n) # <<>>
                         /\ Append(b[p], n)[Len(Append(b[p], n))] = n
  BY <1>2, Appended
<1>4. c \in Boxes
  BY <1>2, <1>3 DEF Boxes, Notify
<1>5. ASSUME NEW p \in ps \cap Players PROVE Ends(c, p) = n.id \/ Ends(c, p) = 0
  <2>1. CASE n \notin {Over, Gone} \/ MayAsk(b, p)
    <3>1. c[p] = Append(b[p], n)
      BY <1>1, <2>1
    <3> HIDE DEF c
    <3> QED BY <3>1, <1>3 DEF Ends
  <2>2. CASE ~ MayAsk(b, p) /\ n \in {Over, Gone}
    <3>1. c[p] = b[p]
      BY <1>1, <2>2
    <3>2. CASE b[p] = <<>>
      BY <3>1, <3>2, <2>2 DEF Ends, MayAsk
    <3>3. CASE b[p] # <<>>
      <4>1. b[p][Len(b[p])] \in Notices
        BY <1>2, <3>3, FirstAndLast
      <4>2. b[p][Len(b[p])].kind \notin {"call", "over"}
        BY <2>2, <3>3 DEF MayAsk
      <4>3. b[p][Len(b[p])].id = 0
        BY <4>1, <4>2, NoticeTypes
      <4> HIDE DEF c
      <4> QED BY <3>1, <3>3, <4>3 DEF Ends
    <3> QED BY <3>2, <3>3
  <2> QED BY <2>1, <2>2
<1>6. \A p \in Players : c[p] = <<>> => b[p] = <<>>
  BY <1>1, <1>3
<1>7. \A p \in Players : p \notin ps => c[p] = b[p]
  BY <1>1
<1> QED BY <1>4, <1>5, <1>6, <1>7

\* When q leaves, all in the stage will ask about nothing.
LEMMA AllDeparted ==
  ASSUME TypeOK, NEW b \in Boxes, NEW q \in Players
  PROVE  /\ Departed(b, q) \in Boxes
         /\ \A p \in Players : p \notin members /\ p # q => Departed(b, q)[p] = b[p]
         /\ \A p \in Players : p \in members \/ p = q => Ends(Departed(b, q), p) = 0
<1> DEFINE d == Notify(b, members \ {q}, Gone)
<1>1. /\ d \in Boxes
      /\ \A p \in Players : p \notin members \ {q} => d[p] = b[p]
      /\ \A p \in (members \ {q}) \cap Players : Ends(d, p) = 0
  BY Notified, NoticeTypes
<1> HIDE DEF d
<1>2. /\ Notify(d, {q}, Left) \in Boxes
      /\ \A p \in Players : p \notin {q} => Notify(d, {q}, Left)[p] = d[p]
      /\ \A p \in {q} \cap Players : Ends(Notify(d, {q}, Left), p) = 0
  BY <1>1, Notified, NoticeTypes
<1>3. Departed(b, q) = Notify(d, {q}, Left)
  BY DEF Departed, d
<1>4. \A p \in Players : p # q /\ p \in members => Ends(Departed(b, q), p) = 0
  BY <1>1, <1>2, <1>3 DEF Ends
<1> QED BY <1>1, <1>2, <1>3, <1>4

-----------------------------------------------------------------------------
(* Votes.                                                                  *)

\* A vote whose ballots are sets of players, yes and no apart.
WellFormed(v) == v \in Votes /\ v.yes \cap v.no = {} /\ v.agree \subseteq v.yes

LEMMA NewVoteWellFormed ==
  ASSUME motions \in 0..MaxMotions, motions < MaxMotions,
         NEW p \in Players, NEW q \in Players, NEW t \in Texts
  PROVE  /\ WellFormed(NewVote(p, q, t)) /\ NewVote(p, q, t).id = motions + 1
         /\ NewVote(p, q, t) # NoVote
<1>1. motions + 1 \in Motions /\ motions + 1 # 0 /\ 0 \in 0..MaxLost
  BY VoteBoundsAssumption DEF Motions
<1> QED BY <1>1 DEF WellFormed, NewVote, Votes, NoVote

\* A ballot changes neither the motion nor any ballot that was cast.
LEMMA CastWellFormed ==
  ASSUME NEW v, WellFormed(v), NEW p \in Players, NEW yes \in BOOLEAN, NEW meant \in BOOLEAN
  PROVE  WellFormed(Cast(v, p, yes, meant)) /\ Cast(v, p, yes, meant).id = v.id
BY DEF WellFormed, Cast, Votes

LEMMA IdOfVote ==
  ASSUME NEW v \in Votes
  PROVE  v # NoVote /\ v.id \in Motions /\ v.id # 0
<1>1. v.id \in Motions
  BY DEF Votes
<1>2. v.id # 0
  BY <1>1, VoteBoundsAssumption DEF Motions
<1> QED BY <1>1, <1>2 DEF NoVote

-----------------------------------------------------------------------------
(* The types.                                                              *)

LEMMA TypeStart == Init => TypeOK
BY VoteBoundsAssumption DEF Init, TypeOK, Open, NoVote

\* What TypeOK says of the vote, in one word.
VoteTyped == vote = NoVote \/ (WellFormed(vote) /\ vote.id = motions)

LEMMA TypedVote == TypeOK => VoteTyped
BY DEF TypeOK, VoteTyped, WellFormed, Open

LEMMA VoteTypedNext ==
  ASSUME TypeOK, NEW p \in Players, PlayerStep(p) \/ StartGame \/ Tick
  PROVE  VoteTyped' /\ motions' \in 0..MaxMotions
<1> VoteTyped
  BY TypedVote
<1> motions \in 0..MaxMotions
  BY DEF TypeOK
<1> USE DEF VoteTyped
<1>1. CASE Join(p)
  BY <1>1 DEF Join, WellFormed
<1>2. CASE Leave(p)
  BY <1>2 DEF Leave, RemoveObject, WellFormed
<1>3. CASE Disconnect(p)
  <2>1. motions' = motions
    BY <1>3 DEF Disconnect
  <2>2. CASE vote' = NoVote
    BY <2>1, <2>2
  <2>3. CASE vote' # NoVote
    <3>1. /\ vote # NoVote
          /\ vote' = [vote EXCEPT !.lostYes = IF p \in vote.yes THEN @ + 1 ELSE @,
                                  !.yes = @ \ {p}, !.no = @ \ {p}, !.agree = @ \ {p}]
          /\ p \in vote.yes => vote.lostYes < MaxLost
      BY <1>3, <2>3 DEF Disconnect, Open
    <3>2. vote \in Votes /\ vote.lostYes \in 0..MaxLost
      BY <3>1 DEF WellFormed, Votes
    <3>3. (IF p \in vote.yes THEN vote.lostYes + 1 ELSE vote.lostYes) \in 0..MaxLost
      BY <3>1, <3>2, VoteBoundsAssumption
    <3>4. WellFormed(vote') /\ vote'.id = vote.id
      BY <3>1, <3>2, <3>3 DEF WellFormed, Votes
    <3> QED BY <3>1, <3>4, <2>1 DEF WellFormed
  <2> QED BY <2>2, <2>3
<1>4. CASE EnterGame(p) \/ LeaveBattle(p)
  BY <1>4 DEF EnterGame, LeaveBattle, server, WellFormed
<1>5. CASE \E q \in Players : AdminKick(p, q)
  BY <1>5 DEF AdminKick, RemoveObject, WellFormed
<1>6. CASE \E q \in Players, t \in Texts, listed \in BOOLEAN : CallVote(p, q, t, listed)
  <2>1. PICK q \in Players, t \in Texts : PutMotion(p, q, t)
    BY <1>6 DEF CallVote
  <2>2. CASE Refused(p)
    BY <2>1, <2>2 DEF PutMotion, WellFormed
  <2>3. CASE ~ Refused(p)
    <3>1. motions < MaxMotions /\ vote' = NewVote(p, q, t) /\ motions' = motions + 1
      BY <2>1, <2>3 DEF PutMotion
    <3>2. WellFormed(vote') /\ vote'.id = motions'
      BY <3>1, NewVoteWellFormed
    <3> QED BY <3>1, <3>2, VoteBoundsAssumption DEF WellFormed
  <2> QED BY <2>2, <2>3
<1>7. CASE \E i \in 0..MaxMotions : FollowingYes(p, i)
  <2>1. PICK i \in 0..MaxMotions : FollowingYes(p, i)
    BY <1>7
  <2>2. CASE vote' = vote
    BY <2>1, <2>2 DEF FollowingYes, WellFormed
  <2>3. CASE Open /\ vote' = Cast(vote, p, TRUE, i = vote.id)
    <3>1. WellFormed(vote') /\ vote'.id = vote.id
      BY <2>3, CastWellFormed DEF Open
    <3> QED BY <2>1, <2>3, <3>1 DEF FollowingYes, WellFormed, Open
  <2> QED BY <2>1, <2>2, <2>3 DEF FollowingYes
<1>8. CASE \E yes, typed \in BOOLEAN : Answer(p, yes, typed)
  <2>1. PICK yes \in BOOLEAN, typed \in BOOLEAN : Answer(p, yes, typed)
    BY <1>8
  <2> DEFINE meant == typed \/ asked[p] = vote.id
  <2>2. CASE vote' = vote
    BY <2>1, <2>2 DEF Answer, WellFormed
  <2>3. CASE Open /\ vote' = Cast(vote, p, yes, meant)
    <3>1. WellFormed(vote') /\ vote'.id = vote.id
      BY <2>3, CastWellFormed DEF Open
    <3> QED BY <2>1, <2>3, <3>1 DEF Answer, WellFormed, Open
  <2> QED BY <2>1, <2>2, <2>3 DEF Answer
<1>9. CASE ReceiveNotice(p)
  BY <1>9 DEF ReceiveNotice, server, WellFormed
<1>10. CASE StartGame
  BY <1>10 DEF StartGame, WellFormed
<1>11. CASE Tick
  BY <1>11 DEF Tick, FinishDiscuss
<1> QED BY <1>1, <1>2, <1>3, <1>4, <1>5, <1>6, <1>7, <1>8, <1>9, <1>10, <1>11 DEF PlayerStep

\* Players come and go together with their right to vote.
LEMMA MembersTyped ==
  ASSUME TypeOK, NEW p \in Players, PlayerStep(p) \/ StartGame \/ Tick
  PROVE  /\ members' \subseteq Players /\ voters' = members'
         /\ banned' \subseteq Players /\ called' \subseteq Players
         /\ ingame' \subseteq Players
         /\ yeses' \subseteq Players \X (0..MaxMotions)
<1> USE DEF TypeOK
<1>1. CASE Join(p) \/ Leave(p) \/ EnterGame(p) \/ LeaveBattle(p) \/ ReceiveNotice(p) \/ StartGame
  BY <1>1 DEF Join, Leave, EnterGame, LeaveBattle, ReceiveNotice, StartGame, RemoveObject,
              server, client
<1>2. CASE Disconnect(p)
  BY <1>2 DEF Disconnect
<1>3. CASE \E q \in Players : AdminKick(p, q)
  BY <1>3 DEF AdminKick, RemoveObject, client
<1>4. CASE \E q \in Players, t \in Texts, listed \in BOOLEAN : CallVote(p, q, t, listed)
  <2>1. PICK q \in Players, t \in Texts, listed \in BOOLEAN : CallVote(p, q, t, listed)
    BY <1>4
  <2>2. UNCHANGED <<members, voters, banned, ingame>> /\ called' \subseteq called \cup {p}
    BY <2>1 DEF CallVote
  <2>3. yeses' \subseteq Players \X (0..MaxMotions)
    <3>1. CASE ~ listed
      BY <2>1, <3>1 DEF CallVote
    <3>2. CASE listed /\ Refused(p)
      <4>1. <<p, 0>> \in Players \X (0..MaxMotions)
        BY VoteBoundsAssumption
      <4> QED BY <2>1, <3>2, <4>1 DEF CallVote
    <3>3. CASE listed /\ ~ Refused(p)
      <4>1. motions + 1 \in 0..MaxMotions
        BY <2>1, <3>3, VoteBoundsAssumption DEF CallVote, PutMotion
      <4> QED BY <2>1, <3>3, <4>1 DEF CallVote
    <3> QED BY <3>1, <3>2, <3>3
  <2> QED BY <2>2, <2>3
<1>5. CASE \E i \in 0..MaxMotions : FollowingYes(p, i)
  BY <1>5 DEF FollowingYes
<1>6. CASE \E yes, typed \in BOOLEAN : Answer(p, yes, typed)
  BY <1>6 DEF Answer
<1>7. CASE Tick
  BY <1>7 DEF Tick, FinishDiscuss, client
<1> QED BY <1>1, <1>2, <1>3, <1>4, <1>5, <1>6, <1>7 DEF PlayerStep

-----------------------------------------------------------------------------
(* What the clients ask about.                                             *)

\* What a step that reads nothing does to q's question: q's box stays, and its
\* question stays or is reset (its player answered); or q will ask about i.
Untouched(q) == box'[q] = box[q] /\ asked'[q] \in {asked[q], 0}
Turned(q, i) == WillAsk(q)' \in {i, 0}

\* The three kinds of step: the vote stays and so do its voters; all players of
\* the stage are told to forget it; they are all told of a new one.
Keeps == /\ \A q \in Players : Untouched(q) \/ Turned(q, 0)
         /\ members \subseteq members'
         /\ vote # NoVote => vote' # NoVote /\ vote'.id = vote.id
Clears == \A q \in Players : Turned(q, 0) \/ (q \notin members /\ Untouched(q))
Puts == /\ \A q \in Players : \/ q \in members /\ Turned(q, motions + 1)
                              \/ q \notin members /\ Untouched(q)
        /\ members' = members /\ vote' # NoVote /\ vote'.id = motions + 1

\* Who asked about the open vote, or is sent something, asks about the open vote.
LEMMA FitsNext ==
  ASSUME Keeps \/ Clears \/ Puts, NEW q \in Players, Fits(q) \/ box'[q] # box[q]
  PROVE  Fits(q)'
<1> USE DEF Fits, Open
<1>1. Untouched(q) => Fits(q) /\ WillAsk(q)' \in {WillAsk(q), 0}
  BY DEF Untouched, WillAsk, Ends
<1>2. Turned(q, 0) => WillAsk(q)' = 0
  BY DEF Turned
<1>3. CASE Keeps
  BY <1>1, <1>2, <1>3 DEF Keeps
<1>4. CASE Clears
  BY <1>1, <1>2, <1>4 DEF Clears
<1>5. CASE Puts
  BY <1>1, <1>5 DEF Puts, Turned
<1> QED BY <1>3, <1>4, <1>5

\* Nothing is sent.
LEMMA NothingSent ==
  ASSUME box' = box, \A q \in Players : asked'[q] \in {asked[q], 0}
  PROVE  \A q \in Players : Untouched(q)
BY DEF Untouched

\* A box that ends with nothing to ask about, read by a client that asks about
\* what it did before.
LEMMA NothingToAsk ==
  ASSUME NEW q \in Players, asked' = asked
  PROVE  /\ Ends(box', q) = 0 => Turned(q, 0)
         /\ box'[q] = box[q] => Untouched(q)
BY DEF Turned, WillAsk, Ends, Untouched

\* Every step is of one of the three kinds, or a client reads a notice.
LEMMA Kinds ==
  ASSUME IInv, NEW p \in Players, PlayerStep(p) \/ StartGame \/ Tick, ~ ReceiveNotice(p)
  PROVE  /\ Keeps \/ Clears \/ Puts
         /\ box' \in Boxes /\ asked' \in [Players -> 0..MaxMotions]
<1> TypeOK /\ VoteTyped /\ box \in Boxes
  BY TypedVote DEF IInv, TypeOK, Boxes
<1> asked \in [Players -> 0..MaxMotions] /\ 0 \in 0..MaxMotions
  BY VoteBoundsAssumption DEF TypeOK
<1>1. CASE Join(p) \/ EnterGame(p) \/ StartGame
  <2>1. /\ box' = box /\ asked' = asked /\ vote' = vote /\ members \subseteq members'
    BY <1>1 DEF Join, EnterGame, StartGame, server, client
  <2>2. \A q \in Players : Untouched(q)
    BY <2>1, NothingSent
  <2> QED BY <2>1, <2>2 DEF Keeps
<1>2. CASE Leave(p) \/ \E q \in Players : AdminKick(p, q)
  <2>1. PICK q \in Players : q \in members /\ box' = Departed(box, q) /\ asked' = asked
    BY <1>2 DEF Leave, Idle, AdminKick, RemoveObject, client
  <2>2. \A r \in Players : Turned(r, 0) \/ (r \notin members /\ Untouched(r))
    BY <2>1, AllDeparted, NothingToAsk
  <2> QED BY <2>1, <2>2, AllDeparted DEF Clears
<1>3. CASE Disconnect(p)
  <2> DEFINE ps == IF p \in members THEN members ELSE {}
             b == Notify(box, ps, Gone)
  <2>1. box' = [b EXCEPT ![p] = <<>>] /\ asked' = [asked EXCEPT ![p] = 0]
    BY <1>3 DEF Disconnect
  <2>2. /\ b \in Boxes
        /\ \A q \in Players : q \notin ps => b[q] = box[q]
        /\ \A q \in ps \cap Players : Ends(b, q) = 0
    BY Notified, NoticeTypes
  <2>3. box' \in Boxes /\ asked' \in [Players -> 0..MaxMotions]
    <3>1. <<>> \in Seq(Notices)
      OBVIOUS
    <3> HIDE DEF b
    <3> QED BY <2>1, <2>2, <3>1 DEF Boxes
  <2>4. Turned(p, 0)
    <3> HIDE DEF b
    <3> QED BY <2>1, <2>2 DEF Turned, WillAsk, Ends, Boxes
  <2>5. \A q \in Players \ {p} : Turned(q, 0) \/ (q \notin ps /\ Untouched(q))
    <3> SUFFICES ASSUME NEW q \in Players \ {p}
                 PROVE  Turned(q, 0) \/ (q \notin ps /\ Untouched(q))
      OBVIOUS
    <3> HIDE DEF b
    <3>1. box'[q] = b[q] /\ asked'[q] = asked[q]
      BY <2>1, <2>2 DEF Boxes
    <3>2. CASE q \in ps
      BY <2>2, <3>1, <3>2 DEF Turned, WillAsk, Ends
    <3>3. CASE q \notin ps
      BY <2>2, <3>1, <3>3 DEF Untouched
    <3> QED BY <3>2, <3>3
  <2> HIDE DEF b
  <2>6. CASE p \in members
    BY <2>3, <2>4, <2>5, <2>6 DEF Clears
  <2>7. CASE p \notin members
    <3>1. members' = members
      BY <1>3, <2>7 DEF Disconnect
    <3>2. vote # NoVote => vote' = [vote EXCEPT
                              !.lostYes = IF p \in vote.yes THEN @ + 1 ELSE @,
                              !.yes = @ \ {p}, !.no = @ \ {p}, !.agree = @ \ {p}]
      BY <1>3, <2>7 DEF Disconnect, Open
    <3>3. vote # NoVote => vote'.id = vote.id
      BY <3>2 DEF VoteTyped, WellFormed, Votes
    <3>4. vote # NoVote => vote' # NoVote
      BY <3>3, IdOfVote DEF VoteTyped, WellFormed, NoVote
    <3> QED BY <2>3, <2>4, <2>5, <3>1, <3>3, <3>4 DEF Keeps
  <2> QED BY <2>6, <2>7
<1>4. CASE LeaveBattle(p)
  <2>1. PICK told : box' = Notify(box, told, Over)
    BY <1>4 DEF LeaveBattle
  <2>2. asked' = asked /\ vote' = vote /\ members' = members
    BY <1>4 DEF LeaveBattle, server
  <2>3. /\ box' \in Boxes
        /\ \A q \in Players : q \notin told => box'[q] = box[q]
        /\ \A q \in told \cap Players : Ends(box', q) = 0
    BY <2>1, Notified, NoticeTypes
  <2>4. \A q \in Players : Untouched(q) \/ Turned(q, 0)
    BY <2>2, <2>3, NothingToAsk
  <2> QED BY <2>2, <2>3, <2>4 DEF Keeps
<1>5. CASE \E q \in Players, t \in Texts, listed \in BOOLEAN : CallVote(p, q, t, listed)
  <2>1. PICK q \in Players, t \in Texts, listed \in BOOLEAN : CallVote(p, q, t, listed)
    BY <1>5
  <2>2. /\ members' = members
        /\ asked' \in [Players -> 0..MaxMotions]
        /\ \A r \in Players : asked'[r] \in {asked[r], 0}
    BY <2>1 DEF CallVote
  <2>3. CASE Refused(p)
    <3>1. box' = box /\ vote' = vote
      BY <2>1, <2>3 DEF CallVote, PutMotion
    <3>2. \A r \in Players : Untouched(r)
      BY <2>2, <3>1, NothingSent
    <3> QED BY <2>2, <3>1, <3>2 DEF Keeps
  <2>4. CASE ~ Refused(p)
    <3>1. /\ motions < MaxMotions /\ vote' = NewVote(p, q, t)
          /\ box' = Notify(box, members, Call(motions + 1))
      BY <2>1, <2>4 DEF CallVote, PutMotion
    <3>2. motions \in 0..MaxMotions /\ motions + 1 \in Motions /\ motions + 1 # 0
      BY <3>1, VoteBoundsAssumption DEF TypeOK, Motions
    <3>3. /\ Call(motions + 1) \in Notices /\ Call(motions + 1).id = motions + 1
          /\ Call(motions + 1) \notin {Over, Gone}
      BY <3>2, NoticeTypes
    <3>4. /\ box' \in Boxes
          /\ \A r \in Players : r \notin members => box'[r] = box[r]
      BY <3>1, <3>3, Notified
    <3>5. ASSUME NEW r \in members \cap Players PROVE Turned(r, motions + 1)
      <4>1. box'[r] = Append(box[r], Call(motions + 1)) /\ box[r] \in Seq(Notices)
        BY <3>1, <3>3 DEF Notify, Boxes
      <4>2. box'[r] # <<>> /\ box'[r][Len(box'[r])] = Call(motions + 1)
        BY <4>1, <3>3, Appended
      <4> QED BY <4>2, <3>3 DEF Turned, WillAsk, Ends
    <3>6. vote'.id = motions + 1 /\ vote' # NoVote
      BY <3>1, <3>2, NewVoteWellFormed
    <3> QED BY <2>2, <3>4, <3>5, <3>6 DEF Puts, Untouched
  <2> QED BY <2>3, <2>4
<1>6. CASE \/ \E i \in 0..MaxMotions : FollowingYes(p, i)
           \/ \E yes, typed \in BOOLEAN : Answer(p, yes, typed)
  <2>1. /\ members' = members /\ box' = box
        /\ asked' \in [Players -> 0..MaxMotions]
        /\ \A r \in Players : asked'[r] \in {asked[r], 0}
    BY <1>6 DEF FollowingYes, Answer
  <2>2. vote' = vote \/ \E yes, m \in BOOLEAN : vote # NoVote /\ vote' = Cast(vote, p, yes, m)
    BY <1>6 DEF FollowingYes, Answer, Open
  <2>3. vote # NoVote => vote'.id = vote.id /\ vote' # NoVote
    BY <2>2, CastWellFormed, IdOfVote DEF VoteTyped, WellFormed
  <2>4. \A r \in Players : Untouched(r)
    BY <2>1, NothingSent
  <2> QED BY <2>1, <2>3, <2>4 DEF Keeps
<1>7. CASE Tick
  <2> DEFINE told == Notify(box, members, Over)
  <2>1. asked' = asked
    BY <1>7 DEF Tick, client
  <2>2. /\ told \in Boxes
        /\ \A q \in Players : q \notin members => told[q] = box[q]
        /\ \A q \in members \cap Players : Ends(told, q) = 0
    BY Notified, NoticeTypes
  <2>3. box' = told \/ \E q \in members \cap Players : box' = Departed(told, q)
    <3>1. vote.about \in Players
      BY <1>7 DEF Tick, Open, VoteTyped, WellFormed, Votes
    <3> QED BY <1>7, <3>1 DEF Tick, FinishDiscuss
  <2> HIDE DEF told
  <2>4. CASE box' = told
    BY <2>1, <2>2, <2>4, NothingToAsk DEF Clears
  <2>5. CASE \E q \in members \cap Players : box' = Departed(told, q)
    <3>1. PICK q \in members \cap Players : box' = Departed(told, q)
      BY <2>5
    <3>2. /\ box' \in Boxes
          /\ \A r \in Players : r \notin members => box'[r] = box[r]
          /\ \A r \in Players : r \in members => Ends(box', r) = 0
      BY <3>1, <2>2, AllDeparted
    <3> QED BY <2>1, <3>2, NothingToAsk DEF Clears
  <2> QED BY <2>1, <2>3, <2>4, <2>5
<1> QED BY <1>1, <1>2, <1>3, <1>4, <1>5, <1>6, <1>7 DEF PlayerStep

\* Reading a notice: what is left in the box ends as before; the last one leaves
\* the client with its question only if it was dropped.
LEMMA Reading ==
  ASSUME IInv, NEW p \in Players, ReceiveNotice(p)
  PROVE  /\ box' \in Boxes /\ asked' \in [Players -> 0..MaxMotions]
         /\ \A q \in Players : box'[q] # <<>> => Fits(q)'
         /\ \A q \in Players \ {p} : box'[q] = box[q] /\ asked'[q] = asked[q]
         /\ (Head(box[p]) = Over /\ p \notin ingame) \/ Fits(p)'
<1>1. box \in Boxes /\ box[p] \in Seq(Notices) /\ asked \in [Players -> 0..MaxMotions]
  BY DEF IInv, TypeOK, Boxes
<1> DEFINE n == Head(box[p])
<1>2. /\ box[p] # <<>>
      /\ box' = [box EXCEPT ![p] = Tail(box[p])]
      /\ (asked' = asked /\ n = Over /\ p \notin ingame) \/ asked' = [asked EXCEPT ![p] = n.id]
      /\ vote' = vote /\ members' = members
  BY DEF ReceiveNotice, server
<1>3. /\ Tail(box[p]) \in Seq(Notices) /\ n \in Notices
      /\ Tail(box[p]) = <<>> => n = box[p][Len(box[p])]
      /\ Tail(box[p]) # <<>> => Tail(box[p])[Len(Tail(box[p]))] = box[p][Len(box[p])]
  BY <1>1, <1>2, FirstAndLast
<1>4. n.id \in 0..MaxMotions
  BY <1>3, NoticeTypes
<1> HIDE DEF n
<1>5. box' \in Boxes /\ asked' \in [Players -> 0..MaxMotions]
  BY <1>1, <1>2, <1>3, <1>4 DEF Boxes
<1>6. \A q \in Players \ {p} : box'[q] = box[q] /\ asked'[q] = asked[q]
  BY <1>1, <1>2 DEF Boxes
<1>7. box'[p] = Tail(box[p])
  BY <1>1, <1>2 DEF Boxes
<1>8. \/ box'[p] = <<>> /\ asked' = asked /\ n = Over /\ p \notin ingame
      \/ WillAsk(p)' = WillAsk(p)
  BY <1>1, <1>2, <1>3, <1>7 DEF WillAsk, Ends
<1>9. Fits(p)
  BY <1>2 DEF IInv
<1>10. WillAsk(p)' = WillAsk(p) => Fits(p)'
  BY <1>2, <1>9 DEF Fits, Open
<1>11. \A q \in Players \ {p} : box'[q] # <<>> => Fits(q)'
  BY <1>2, <1>6 DEF IInv, Fits, WillAsk, Ends, Open
<1> QED BY <1>5, <1>6, <1>8, <1>10, <1>11 DEF n

-----------------------------------------------------------------------------
(* The invariant and what follows from it.                                 *)

LEMMA Start == Init => IInv
<1> SUFFICES ASSUME Init PROVE \A p \in Players : box[p] = <<>>
  BY TypeStart DEF IInv
<1> QED BY DEF Init

LEMMA Step == IInv /\ [Next]_vars => IInv'
<1> SUFFICES ASSUME IInv, [Next]_vars PROVE IInv'
  OBVIOUS
<1>1. CASE UNCHANGED vars
  <2>1. TypeOK'
    BY <1>1 DEF IInv, TypeOK, Open, vars, server, client
  <2>2. \A p \in Players : box'[p] # <<>> => Fits(p)'
    BY <1>1 DEF IInv, Fits, WillAsk, Ends, Open, vars, server, client
  <2> QED BY <2>1, <2>2 DEF IInv
<1>2. ASSUME NEW p \in Players, PlayerStep(p) \/ StartGame \/ Tick
      PROVE  IInv'
  <2>1. /\ members' \subseteq Players /\ voters' = members'
        /\ banned' \subseteq Players /\ called' \subseteq Players
        /\ ingame' \subseteq Players
        /\ yeses' \subseteq Players \X (0..MaxMotions)
    BY <1>2, MembersTyped DEF IInv
  <2>2. VoteTyped' /\ motions' \in 0..MaxMotions
    BY <1>2, VoteTypedNext DEF IInv
  <2>3. /\ box' \in Boxes
        /\ asked' \in [Players -> 0..MaxMotions]
        /\ \A q \in Players : box'[q] # <<>> => Fits(q)'
    <3>1. CASE ReceiveNotice(p)
      BY <3>1, Reading
    <3>2. CASE ~ ReceiveNotice(p)
      <4>1. /\ Keeps \/ Clears \/ Puts
            /\ box' \in Boxes /\ asked' \in [Players -> 0..MaxMotions]
        BY <1>2, <3>2, Kinds
      <4>2. ASSUME NEW q \in Players, box'[q] # <<>> PROVE Fits(q)'
        <5>1. Fits(q) \/ box'[q] # box[q]
          BY <4>2 DEF IInv
        <5> QED BY <4>1, <5>1, FitsNext
      <4> QED BY <4>1, <4>2
    <3> QED BY <3>1, <3>2
  <2>4. /\ vote' \in Votes \cup {NoVote}
        /\ Open' => /\ vote'.id = motions' /\ vote'.yes \cap vote'.no = {}
                   /\ vote'.agree \subseteq vote'.yes
    BY <2>2 DEF VoteTyped, WellFormed, Open
  <2>5. TypeOK'
    BY <2>1, <2>2, <2>3, <2>4 DEF TypeOK, Boxes
  <2> QED BY <2>3, <2>5 DEF IInv
<1>3. CASE Next
  <2>1. CASE \E p \in Players : PlayerStep(p)
    BY <1>2, <2>1
  <2>2. CASE StartGame \/ Tick
    BY <1>2, <2>2, VotePlayersAssumption
  <2> QED BY <1>3, <2>1, <2>2 DEF Next
<1> QED BY <1>1, <1>3

LEMMA Invariance == Spec => []IInv
<1>1. Init => IInv
  BY Start
<1>2. IInv /\ [Next]_vars => IInv'
  BY Step
<1> QED BY <1>1, <1>2, PTL DEF Spec

\* Types, that the voters are the players of the stage, and that nobody's
\* ballot is both, for any players and bounds.
THEOREM TypeCorrect == Spec => []TypeOK
<1>1. IInv => TypeOK
  BY DEF IInv
<1> QED BY <1>1, Invariance, PTL

\* A client comes to ask about a vote that is over only by reading its result
\* out of the game, for any number of players, votes and notices under way.
THEOREM ScreenSound == Spec => StaleByDroppedResult
<1> DEFINE Dropped(p) == p \notin ingame /\ box[p] # <<>> /\ Head(box[p]) = Over
           Good == \A p \in Players : Stale(p)' => Stale(p) \/ Dropped(p)
<1>1. IInv /\ [Next]_vars => [Good]_vars
  <2> SUFFICES ASSUME IInv, Next, NEW q \in Players, ~ Stale(q), ~ Dropped(q)
               PROVE  ~ Stale(q)'
    BY DEF vars
  <2>1. Fits(q)
    BY DEF IInv, Fits, Stale, WillAsk, Ends
  <2>2. Fits(q)' => ~ Stale(q)'
    BY DEF Fits, Stale, WillAsk, Ends
  <2>3. PICK p \in Players : PlayerStep(p) \/ StartGame \/ Tick
    BY VotePlayersAssumption DEF Next
  <2>4. CASE ReceiveNotice(p)
    <3>1. CASE q = p
      <4>1. box[p] # <<>>
        BY <2>4 DEF ReceiveNotice
      <4> QED BY <2>2, <2>4, <3>1, <4>1, Reading
    <3>2. CASE q # p
      <4>1. box'[q] = box[q] /\ asked'[q] = asked[q]
        BY <2>4, <3>2, Reading
      <4>2. vote' = vote /\ members' = members
        BY <2>4 DEF ReceiveNotice, server
      <4> QED BY <4>1, <4>2 DEF Stale, Open
    <3> QED BY <3>1, <3>2
  <2>5. CASE ~ ReceiveNotice(p)
    BY <2>1, <2>2, <2>3, <2>5, Kinds, FitsNext
  <2> QED BY <2>4, <2>5
<1> QED BY <1>1, Invariance, PTL DEF Spec, StaleByDroppedResult

\* A vote about a player ends in the step in which that player leaves.
THEOREM TargetSound == Spec => TargetGone
<1> DEFINE Ended == \A q \in members \ members' : WasVoted(q) => vote' = NoVote
<1>1. IInv /\ [Next]_vars => [Ended]_vars
  <2> SUFFICES ASSUME Next, NEW q \in members \ members', WasVoted(q)
               PROVE  vote' = NoVote
    BY DEF vars
  <2>1. CASE Tick
    BY <2>1 DEF Tick, FinishDiscuss
  <2>2. CASE StartGame
    BY <2>2 DEF StartGame
  <2>3. CASE \E p \in Players : PlayerStep(p)
    <3>1. PICK p \in Players : PlayerStep(p)
      BY <2>3
    <3>2. CASE Leave(p) \/ \E r \in Players : AdminKick(p, r)
      BY <3>2 DEF Leave, AdminKick, RemoveObject
    <3>3. CASE Disconnect(p)
      BY <3>3 DEF Disconnect
    <3>4. CASE Join(p) \/ EnterGame(p) \/ LeaveBattle(p) \/ ReceiveNotice(p)
      BY <3>4 DEF Join, EnterGame, LeaveBattle, ReceiveNotice, server
    <3>5. CASE \E r \in Players, t \in Texts, listed \in BOOLEAN : CallVote(p, r, t, listed)
      BY <3>5 DEF CallVote
    <3>6. CASE \/ \E i \in 0..MaxMotions : FollowingYes(p, i)
               \/ \E yes, typed \in BOOLEAN : Answer(p, yes, typed)
      BY <3>6 DEF FollowingYes, Answer
    <3> QED BY <3>1, <3>2, <3>3, <3>4, <3>5, <3>6 DEF PlayerStep
  <2> QED BY <2>1, <2>2, <2>3 DEF Next
<1> QED BY <1>1, Invariance, PTL DEF Spec, TargetGone
=============================================================================
