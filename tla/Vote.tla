-------------------------------- MODULE Vote --------------------------------
(***************************************************************************)
(* Votes in one stage while its game is on: MVoteMgr.cpp, the two kinds of *)
(* motion of MVoteDiscussImpl.cpp, the handlers of MMatchServer_Stage.cpp, *)
(* the parts of MMatchStage that add and remove voters, and the clients,   *)
(* who ask and answer by what they were told and by whether they are in    *)
(* the game.                                                               *)
(*                                                                         *)
(* The server is one thread; a request is handled when it is sent, and the *)
(* server's notices reach the client in order and late (box), as in Stage. *)
(***************************************************************************)
EXTENDS Naturals, Sequences, FiniteSets

CONSTANTS
  Players,     \* characters
  Admins,      \* those whose grade satisfies IsAdminGrade
  Texts,       \* what a motion may say: its kind, and whether its text is
               \* exactly the name of the player it is about
  MaxMotions,  \* bound on the motions put in one run
  MaxLost,     \* bound on the ballots of closed connections in one vote
  MaxInside,   \* bound on the players in the stage at once
  MaxBox       \* bound on the notices to a client that others left the battle

ASSUME VotePlayersAssumption ==
  IsFiniteSet(Players) /\ Players # {} /\ Admins \subseteq Players
ASSUME VoteTextsAssumption ==
  Texts \subseteq [kind : {"kick", "joke"}, exact : BOOLEAN]
ASSUME VoteBoundsAssumption ==
  MaxMotions \in Nat /\ MaxLost \in Nat /\ MaxInside \in Nat /\ MaxBox \in Nat

VARIABLES
  members,   \* m_ObjUIDCaches of the stage
  voters,    \* the keys of m_VoterMap
  banned,    \* m_BanCIDList
  called,    \* the players whose object has m_bWasCallVote
  vote,      \* m_pDiscuss
  motions,   \* how many motions were put: the last one's number
  asked,     \* the motion each client asks its player about (m_bCanVote), or 0
  ingame,    \* the clients that have a combat interface, from OnGameCreate to
             \* OnGameDestroy
  box,       \* notices to each client that are not handled yet
  yeses      \* VOTE_YES commands on their way right behind a CALLVOTE

server == <<members, voters, banned, called, vote, motions>>
client == <<asked, ingame, yeses>>
vars == <<server, client, box>>

-----------------------------------------------------------------------------
(* The data.                                                               *)

Motions == 1..MaxMotions

\* Notices: a motion that was put; those that a client heeds in the game only
\* (VOTERESULT, and somebody else's STAGE_LEAVEBATTLE); those that make any
\* client drop its vote (VOTE_STOP, somebody else's STAGE_LEAVE); and one's own
\* STAGE_LEAVE, which also takes the client out of the game.
Call(i) == [kind |-> "call", id |-> i]
Over == [kind |-> "over", id |-> 0]
Gone == [kind |-> "gone", id |-> 0]
Left == [kind |-> "left", id |-> 0]
Notices == {Call(i) : i \in Motions} \cup {Over, Gone, Left}

\* A notice that can find nothing to clear changes nothing, and is left out.
MayAsk(b, p) == IF b[p] = <<>> THEN asked[p] # 0
                ELSE b[p][Len(b[p])].kind \in {"call", "over"}
Notify(b, ps, n) ==
  [p \in Players |-> IF p \in ps /\ (n \notin {Over, Gone} \/ MayAsk(b, p))
                       THEN Append(b[p], n) ELSE b[p]]

\* StageLeave routes STAGE_LEAVE to everybody in the stage, q included.
Departed(b, q) == Notify(Notify(b, members \ {q}, Gone), {q}, Left)

\* MVoteDiscuss.  A ballot is a connection's: one that closes leaves its
\* ballot behind in the list, and its player may come back as another (a NO
\* that is left behind only helps to end the vote, and is not counted here).
\* agree: those in yes who said it of this very motion (it only serves the
\* properties).
NoVote == [id |-> 0]
Votes == [id : Motions, about : Players, text : Texts, yes : SUBSET Players,
          no : SUBSET Players, lostYes : 0..MaxLost, agree : SUBSET Players]
Open == vote # NoVote

\* MVoteDiscuss::Vote, through OnVoteYes or OnVoteNo of a player in the stage.
CastTwice(v, p, yes, meant) ==      \* CheckVoter is not asked
  [v EXCEPT !.yes = IF yes THEN @ \cup {p} ELSE @,
            !.no = IF yes THEN @ ELSE @ \cup {p},
            !.agree = IF yes /\ meant THEN @ \cup {p} ELSE @]
Cast(v, p, yes, meant) ==
  IF p \in v.yes \cup v.no THEN v
  ELSE [v EXCEPT !.yes = IF yes THEN @ \cup {p} ELSE @,
                 !.no = IF yes THEN @ ELSE @ \cup {p},
                 !.agree = IF yes /\ meant THEN @ \cup {p} ELSE @]

YesCount(v) == Cardinality(v.yes) + v.lostYes

\* MVoteMgr::CheckDiscuss.
Passes(v) == 100 * YesCount(v) > 66 * Cardinality(voters)

-----------------------------------------------------------------------------
(* Who comes and goes.                                                     *)

\* MMatchStage::CheckUserWasVoted: the text is the name of q, case included.
WasVoted(q) == Open /\ vote.text.exact /\ vote.about = q

\* MMatchStage::AddObject.  A client only joins when it is out of a stage, and
\* a stage that was emptied is closed.
Join(p) ==
  /\ members # {} /\ Cardinality(members) < MaxInside
  /\ p \notin members
  /\ p \notin banned \/ p \in Admins
  /\ box[p] = <<>>
  /\ members' = members \cup {p}
  /\ voters' = voters \cup {p}
  /\ UNCHANGED <<banned, called, vote, motions, client, box>>

\* MMatchServer::StageLeave and MMatchStage::RemoveObject: everybody is told
\* that q leaves, q is no longer a voter, and a vote about q is stopped.
RemoveObjectOnly(q) ==              \* the vote goes on
  /\ members' = members \ {q}
  /\ voters' = voters \ {q}
  /\ vote' = vote
  /\ box' = Departed(box, q)
RemoveObject(q) ==
  /\ members' = members \ {q}
  /\ voters' = voters \ {q}
  /\ vote' = IF WasVoted(q) THEN NoVote ELSE vote
  /\ box' = Departed(box, q)

\* A connection's commands are handled in order: its YES comes first.
Idle(p) == p \in members /\ \A i \in 0..MaxMotions : <<p, i>> \notin yeses

\* A client leaves the game before it leaves the stage.
Leave(p) ==
  /\ Idle(p) /\ p \notin ingame
  /\ RemoveObject(p)
  /\ UNCHANGED <<banned, called, motions, client>>

\* ObjectRemove, of a player in the stage or one who left it before.  What the
\* player does next it does with a new object: a new MUID, which neither voted
\* nor called for a vote.
Disconnect(p) ==
  /\ Open /\ p \in vote.yes => vote.lostYes < MaxLost
  /\ vote' = IF ~ Open \/ (p \in members /\ WasVoted(p)) THEN NoVote
             ELSE [vote EXCEPT !.lostYes = IF p \in vote.yes THEN @ + 1 ELSE @,
                               !.yes = @ \ {p}, !.no = @ \ {p}, !.agree = @ \ {p}]
  /\ members' = members \ {p}
  /\ voters' = voters \ {p}
  /\ box' = [Notify(box, IF p \in members THEN members ELSE {}, Gone) EXCEPT ![p] = <<>>]
  /\ called' = called \ {p}
  /\ asked' = [asked EXCEPT ![p] = 0]
  /\ ingame' = ingame \ {p}
  /\ yeses' = yeses \ ({p} \X (0..MaxMotions))
  /\ UNCHANGED <<banned, motions>>

\* The game of a launched or force-entering client is created.  A client
\* believes to be in the stage until it reads that it left.
EnterGame(p) ==
  /\ p \in members \/ \E i \in DOMAIN box[p] : box[p][i] = Left
  /\ p \notin ingame
  /\ ingame' = ingame \cup {p}
  /\ UNCHANGED <<server, asked, yeses, box>>

\* A client goes back to the stage's window, at the end of the game or before.
\* The stage is told if the server had its player in the battle already.
LeaveBattle(p) ==
  /\ p \in ingame
  /\ ingame' = ingame \ {p}
  /\ \E told \in {{}, IF p \in members THEN members \ {p} ELSE {}} :
       /\ \A q \in told : Len(box[q]) < MaxBox
       /\ box' = Notify(box, told, Over)
  /\ UNCHANGED <<server, asked, yeses>>

\* MMatchStage::OnStartGame.
StartGame ==
  /\ called' = called \ members
  /\ UNCHANGED <<members, voters, banned, vote, motions, client, box>>
-----------------------------------------------------------------------------
(* Motions and ballots.                                                    *)

\* MMatchServer::OnVoteCallVote of one who is no admin.  The admins are looked
\* for when the vote is called only, and the flag is set for a call that is
\* then refused because there is a vote.
Refused(p) == Open \/ p \in called \/ members \cap Admins # {}
NewVote(p, q, t) ==
  [id |-> motions + 1, about |-> q, text |-> t, yes |-> {p}, no |-> {},
   lostYes |-> 0, agree |-> {p}]
PutMotion(p, q, t) ==
  IF Refused(p) THEN UNCHANGED <<vote, motions, box>>
  ELSE /\ motions < MaxMotions
       /\ vote' = NewVote(p, q, t)
       /\ motions' = motions + 1
       /\ box' = Notify(box, members, Call(motions + 1))

\* All of this is offered in the game only.
Playing(p) == Idle(p) /\ p \in ingame

\* p puts a motion about q, who need not be in the stage: typed as /callvote,
\* or chosen from the list of those in the game, where the client sends a
\* VOTE_YES after it.  That one means p's own motion, and none (0) if the
\* motion is refused.
CallVote(p, q, t, listed) ==
  /\ Playing(p) /\ p \notin Admins
  /\ listed => q \in members /\ t = [kind |-> "kick", exact |-> TRUE]
  /\ PutMotion(p, q, t)
  /\ called' = IF members \cap Admins = {} THEN called \cup {p} ELSE called
  /\ yeses' = IF listed THEN yeses \cup {<<p, IF Refused(p) THEN 0 ELSE motions + 1>>}
              ELSE yeses
  /\ asked' = IF listed THEN [asked EXCEPT ![p] = 0] ELSE asked
  /\ UNCHANGED <<members, voters, banned, ingame>>

\* The same request of an admin kicks whom it names, and bans nobody.
AdminKick(p, q) ==
  /\ Playing(p) /\ p \in Admins
  /\ q \in members
  /\ RemoveObject(q)
  /\ UNCHANGED <<banned, called, motions, client>>

\* The VOTE_YES behind a CALLVOTE arrives, whatever vote there is by then.
FollowingYes(p, i) ==
  /\ <<p, i>> \in yeses
  /\ yeses' = yeses \ {<<p, i>>}
  /\ vote' = IF Open /\ p \in members THEN Cast(vote, p, TRUE, i = vote.id) ELSE vote
  /\ UNCHANGED <<members, voters, banned, called, motions, asked, ingame, box>>

\* p answers with a key, which its client takes once and only while it asks,
\* and which means the motion asked about; or types /yes or /no, which it
\* takes again and again, and which may mean whatever is open.
Answer(p, yes, typed) ==
  /\ Playing(p)
  /\ typed \/ asked[p] # 0
  /\ asked' = IF typed THEN asked ELSE [asked EXCEPT ![p] = 0]
  /\ vote' = IF Open THEN Cast(vote, p, yes, typed \/ asked[p] = vote.id) ELSE vote
  /\ UNCHANGED <<members, voters, banned, called, motions, ingame, yeses, box>>

ReceiveNoticeInGame(p) ==           \* everything but a call is dropped elsewhere
  /\ box[p] # <<>>
  /\ box' = [box EXCEPT ![p] = Tail(@)]
  /\ asked' = IF Head(box[p]).kind # "call" /\ p \notin ingame THEN asked
              ELSE [asked EXCEPT ![p] = Head(box[p]).id]
  /\ ingame' = IF Head(box[p]) = Left THEN ingame \ {p} ELSE ingame
  /\ UNCHANGED <<server, yeses>>
\* OnNotifyCallVote, which does not ask whether the client is in the game;
\* OnNotifyVoteResult and ZGame::OnStageLeaveBattle, which do nothing if it is
\* not; OnStopVote and OnStageLeave, which clear at all events.
ReceiveNotice(p) ==
  /\ box[p] # <<>>
  /\ box' = [box EXCEPT ![p] = Tail(@)]
  /\ asked' = IF Head(box[p]) = Over /\ p \notin ingame THEN asked
              ELSE [asked EXCEPT ![p] = Head(box[p]).id]
  /\ ingame' = IF Head(box[p]) = Left THEN ingame \ {p} ELSE ingame
  /\ UNCHANGED <<server, yeses>>

-----------------------------------------------------------------------------
(* MVoteMgr::Tick.                                                         *)

\* FinishDiscuss: everybody is told, then OnJudge kicks and bans the one a
\* motion that passed is about, which stops the vote that is being finished;
\* either way there is none when it returns.  (A joke is announced whether it
\* passed or not.)
FinishSilently(pass) ==             \* a vote that runs out is not announced
  LET out == IF pass /\ vote.text.kind = "kick" THEN {vote.about} \cap members ELSE {}
  IN  /\ vote' = NoVote
      /\ members' = members \ out
      /\ voters' = voters \ out
      /\ banned' = banned \cup out
      /\ box' = LET told == IF pass THEN Notify(box, members, Over) ELSE box
                IN  IF out = {} THEN told ELSE Departed(told, vote.about)
FinishDiscuss(pass) ==
  LET out == IF pass /\ vote.text.kind = "kick" THEN {vote.about} \cap members ELSE {}
  IN  /\ vote' = NoVote
      /\ members' = members \ out
      /\ voters' = voters \ out
      /\ banned' = banned \cup out
      /\ box' = LET told == Notify(box, members, Over)
                IN  IF out = {} THEN told ELSE Departed(told, vote.about)

\* A vote that does not pass ends when all voters have voted, or when Tick
\* finds it more than a minute old, which may be at any time.
Tick ==
  /\ Open
  /\ FinishDiscuss(Passes(vote))
  /\ UNCHANGED <<called, motions, client>>

-----------------------------------------------------------------------------
Init ==
  /\ members \in SUBSET Players \ {{}} /\ Cardinality(members) <= MaxInside
  /\ ingame \in SUBSET members
  /\ voters = members /\ banned = {} /\ called = {}
  /\ vote = NoVote /\ motions = 0
  /\ asked = [p \in Players |-> 0] /\ yeses = {}
  /\ box = [p \in Players |-> <<>>]

PlayerStep(p) ==
  \/ Join(p) \/ Leave(p) \/ Disconnect(p) \/ EnterGame(p) \/ LeaveBattle(p)
  \/ \E q \in Players :
       \/ AdminKick(p, q)
       \/ \E t \in Texts, listed \in BOOLEAN : CallVote(p, q, t, listed)
  \/ \E i \in 0..MaxMotions : FollowingYes(p, i)
  \/ \E yes, typed \in BOOLEAN : Answer(p, yes, typed)
  \/ ReceiveNotice(p)

Next == (\E p \in Players : PlayerStep(p)) \/ StartGame \/ Tick

Spec == Init /\ [][Next]_vars

\* MMatchStage::Tick calls MVoteMgr::Tick each time round, and time passes; a
\* client handles its commands in every frame.
FairSpec == Spec /\ WF_vars(Tick) /\ \A p \in Players : WF_vars(ReceiveNotice(p))

-----------------------------------------------------------------------------
(* Properties.                                                             *)

\* Types, and that the voters are the players of the stage, nobody's ballot is
\* both, and the vote is about the last motion that was put.
TypeOK ==
  /\ members \subseteq Players /\ voters = members
  /\ banned \subseteq Players /\ called \subseteq Players
  /\ motions \in 0..MaxMotions
  /\ vote \in Votes \cup {NoVote}
  /\ Open => vote.id = motions /\ vote.yes \cap vote.no = {} /\ vote.agree \subseteq vote.yes
  /\ asked \in [Players -> 0..MaxMotions] /\ ingame \subseteq Players
  /\ yeses \subseteq Players \X (0..MaxMotions)
  /\ box \in [Players -> Seq(Notices)]

\* A client that has read all its notices asks its player for an answer, but
\* not about the vote that is open in the player's stage.
Stale(p) == /\ asked[p] # 0 /\ box[p] = <<>>
            /\ ~ (Open /\ vote.id = asked[p] /\ p \in members)

\* A client comes to ask about a vote that is over in one way only: it reads
\* the result while it is not in the game (OnNotifyVoteResult returns).  Any
\* other end of a vote (its target's departure in any of four ways, the voter's
\* own, a result read in the game) leaves no client asking about it.
StaleByDroppedResult ==
  [][\A p \in Players :
       Stale(p)' => Stale(p) \/ (p \notin ingame /\ box[p] # <<>> /\ Head(box[p]) = Over)]_vars

\* What the comment in DrawVoteMessage says: the message it draws in the game is
\* there while a vote is in progress.
MessageDuringVote == \A p \in ingame : ~ Stale(p)

\* A vote about a player is over when that player leaves the stage, in
\* whichever way, by leave, by a cut connection, by an admin or by that vote.
TargetGone ==
  [][\A q \in members \ members' : WasVoted(q) => vote' = NoVote]_vars

\* A client in the game that asks about the vote that is open does not go on
\* for ever, unless it leaves the game: every vote ends, whoever comes, leaves,
\* answers or does not, and whoever is asked is told.
AskingPasses(p) ==
  \A i \in Motions :
    asked[p] = i /\ Open /\ vote.id = i ~> asked[p] # i \/ p \notin ingame

\* Nobody is banned unless two thirds of the players who are there agreed to
\* it (the comment in CheckDiscuss).
TwoThirdsAgree ==
  [][banned' # banned => 3 * Cardinality(vote.agree \cap members) >= 2 * Cardinality(members)]_vars
=============================================================================
