# A verification of the RefinedGunz match server

TLA+ models of the parts of RefinedGunz in which several actors meet: players
who move between game rooms, players who take turns in a duel, players who vote
in a room, sessions of one account that earn and spend, and threads that run
database jobs for the server. TLC checks the models on small instances, TLAPS
proves every safety property that the runs check (invariants, what a step may do, and a
refinement) for every value of the constants; what is about eventuality TLC checks. Paths below are relative to `src/`; "MatchServer" files are in
`src/MatchServer/`.

## 1. The system

| Component | State it keeps | Operations | What is hard | What makes it correct |
|---|---|---|---|---|
| Stages (`MMatchServer_Stage.cpp`, `MMatchStage.cpp`, `MMatchObject.*`) | per player an object (stage, place, ready, battle, launched); per room the objects, master, admin count, state, settings, banned | connect, create, join, follow, leave, kick, vote ban, ready, start, forced entry, enter and leave battle, settings, master change, tick | each client names the room it *believes* to be in, which it learns from notices that come late; a player is recorded twice (in the room and in the object); memory is freed at disconnection | the room an object names lists it, and no other room keeps it for long; a room with players has a master in it; capacity; bans |
| Round machine and duel rule (`MMatchRule.cpp`, `MMatchRuleDuel.cpp`) | round state and its timer; champion, challenger, queue, three flags | a tick of the round, enter, leave, die, respawn, watch | any player event between any two ticks; flags set by one event and read by a later tick; clock differences; a fixed-size message | everyone in the battle fights or waits, in one place; nobody overtakes; everyone who waits gets a turn |
| Database jobs (`MAsyncProxy.*`, `cml/source/MSync.cpp`) | two queues, a lock, two events, threads | post, run, collect, destroy | real threads; events that reset; a count read without the lock; destruction | each job runs once, in order; none is left waiting; the pool stops |
| Other rules (`MMatchRule*.cpp`) | as the duel's, each its own | as above | a state set while another is being set | rounds begin and end once |
| Votes (`MVoteMgr.*`, `MVoteDiscussImpl.*`, the client's `ZVoteInterface.cpp`) | the open vote, its voters and ballots; in each client whether it asks | call, vote, stop, judge, tick | voters who leave; a vote that ends itself while it is judged; notices under way, or read where they are dropped | nobody in the game is asked about a vote that is over; it ends with its target; it passes with the voices of those present |
| Channels, world items, chat rooms | tables of members, rooms, items | join, leave, refresh, spawn, pick up | indexes and iterators | tables agree with the objects |
| Login, characters, items (`MMatchServer_Login.cpp`, `_Char.cpp`, `_Item.cpp`, `_Async.cpp`, `MServer.cpp`) | the objects of connections, the queue of commands, characters in memory, their caches, rows in the database | log in, throw a session out, choose a character, earn, buy, sell, save, clear | results that come when the connection is gone, or in another order; saves that come after what they were to precede; two sessions of one account | no object for a closed connection; one session at a time; bounty adds up, and is never negative |
| Clans, ladder, quests | groups, monsters, sacrifices | form, match, cancel, control | members who leave in between | as their stages |
| Match agent, SafeUDP, Locator, sockets | peers, packets to resend | relay, acknowledge, answer | lost and repeated packets | what is sent is delivered once |
| Client, libraries, tools | rendering, input, files | - | - | outside the server |

The parts interact in three ways. The **server's thread** runs handlers of
commands (`MMatchServer_OnCommand.cpp`) and, in `MMatchServer::OnRun`, one tick
for each room; these call each other directly and never run at once.
**Clients** send commands to it and handle its notices in their order, late.
**Job threads** share only the queues of `MAsyncProxy` with it. A room owns its
rule: `MMatchStage::Tick` runs the round machine, and joining, leaving, dying
call the rule's hooks.

`PROJECT.json` lists every component with its sources and whether it is
modelled, every hazard with its line, and for every definition the lines it
stands for.

## 2. The modules

| Module | Models | Grain of a step |
|---|---|---|
| `Stage` | rooms, objects, and what each client knows | one handler, or the tick of one room, on the server; one notice handled by one client |
| `MCStage` | values and symmetry for `Stage` | |
| `StageProofs` | theorems about `Stage`: types, membership, masters, bans, removal | |
| `StageStepProofs` | theorems about `Stage`: what one step may do to one room (admins, capacity, masters, membership) | |
| `Duel` | one life of a room that plays duels: round machine and rule | one handler, or one transition of the round |
| `MCDuel` | values for `Duel` | |
| `DuelProofs` | theorems about `Duel` | |
| `JobPool` | what `MAsyncProxy` promises (abstract) | start or finish of a job |
| `AsyncProxy` | what it does (detailed) | an access to shared memory, a critical section, a wait |
| `AsyncProofs` | theorems about `AsyncProxy`, with the refinement | |
| `Vote` | the votes of one room, its players and their clients | one handler, or a tick; one notice handled by one client |
| `MCVote` | values for `Vote` | |
| `VoteProofs` | theorems about `Vote` | |
| `Session` | the connections of one account, its character in memory and in the database, and the jobs between; composed with `JobPool` | one command or result on the server; one query of a job |
| `MCSession` | values for `Session` | |
| `SessionProofs` | theorems about `Session`: objects, sessions, no debts | |
| `BountyProofs` | theorems about `Session`: sums, and that the bounty adds up | |

`AsyncProxy` refines `JobPool`: `waiting` is the wait queue, a thread's job is
`running` from the pop until its result is queued (`Running`), results and
collected jobs are themselves. `Session` uses the same `JobPool` for its jobs
(`Pool`), so what it says of jobs rests on what `AsyncProofs` proves of the code.

### Stage

`obj[p]` is the `MMatchObject` of a player, `stg[s]` the `MMatchStage` of a
name, `view[p]` the client's `m_uidStage`, `inbox[p]` the notices sent to that
client and not handled. Each action is one handler with all it calls:
`StageJoin` for example leaves the old room (which may choose a new master or
close the room), validates, adds, and notifies.

* A request is handled when it is sent. A client that reads a notice late does
  all that a request delivered late could do, so only notices are queued.
* The client locks its lobby while a join or a creation is unanswered, but not while a
  `StageFollow` is, so its requests may overlap (`MayAskToMove`). What follows from
  that is part of the model:
  - a client may leave a room by name that its player is not in, or join the room
    its player is in already (`StageJoin` then makes the player leave it first);
  - the two records of membership (`m_ObjUIDCaches` of the room, `GetStageUID` of the
    object) may disagree: a room may go on listing a player whose object names another
    room or none. What remains true is `NamedStageLists`, and how it comes about
    is `StrayedBetweenStages`;
  - an admin who enters a room that still lists him is counted twice
    (`MiscountedOnlyOnReentry`), and the room then takes one player too many;
  - a master who joins his own room again loses it (`MasterKeepsStage` says so).
* What depends on data that is not modelled is a choice: the level limit and the
  forced-entry setting may refuse a player (`MayRefuse`); the new master is any
  of the candidates (the code takes the first in the order of identifiers); a
  rule may end a running game at any tick. Bans by vote may come at any time.
* The client's own conditions are guards where it has them: it does not leave the
  room while ready, does not show the room's window in the battle, and offers a
  forced entry only while a game is on, and once.
* The handlers read freed memory if a room lists a deleted object. What would
  follow is undefined, so `Next` stops there (`NoDeadMember` is a conjunct), and nothing
  is said of it. The program can get there: the run `StageOverlap`.
* Only stages of type `MST_NORMAL`; the flag `m_bForcedEntried` is left out.

### Duel

`duel` is a record of the fields of `MMatchRuleDuel`; each hook of the rule is an
operator from one such record to the next, and the actions compose the hooks as
the handlers do (leaving the room calls `OnLeaveBattle` twice for a fighter,
because `LeaveBattle` is called by the server and again by `RemoveObject`).
The timer of the round is a choice: waiting is a step that changes nothing, so
time-outs may come at any tick, and so may the underflow at `MMatchRule.cpp:181`.
The three flags of a new rule are not initialised by the code, and have any value
in `Init`. The queue made at the beginning is in the order of identifiers, hence
in any order. `RoundCount`'s number of kills is a choice (the game may end after
a round if somebody is in the battle). Bots and `nVictory` are left out.
`std::list::remove` is `ListRemove`: what stays is numbered anew, in the order it had. It is
written with cardinalities, and not with `SelectSeq`, because nothing can be proved here of an
operator that is recursive over a sequence.

### AsyncProxy

The lock holder, each thread's program point, the two events. `GetCount` is read
without the lock: while somebody holds the lock it may return anything. The two
builds differ: on Windows a wait resets the event (`auto`); with eventfds the
event stays set, but the flag `SetEvents` is written and read by all threads
without a lock, so that a thread may miss a set event while another begins to
wait (`Missed`). The constant `Resets` gives the builds, and both are checked.

### Vote

`members` are the players of the room and `voters` those of the open `vote`; `vote` is
the `MVoteDiscuss` with its ballots, or `NoVote`. `asked[p]` is the vote a client asks
its player about, `ingame` the clients that have a combat interface (from `OnGameCreate`
to `OnGameDestroy`), `box[p]` the notices on their way to a client, of four kinds:

| Notice | Sent by | In the game | Outside it |
|---|---|---|---|
| `Call` | `NOTIFY_CALLVOTE` | the client asks | the client asks |
| `Over` | `NOTIFY_VOTERESULT`; another's `STAGE_LEAVEBATTLE` | it stops asking | **nothing** (`ZGameClient.cpp:1741`, `ZGame.cpp:4718`) |
| `Gone` | `VOTE_STOP`; another's `STAGE_LEAVE` | it stops asking | it stops asking |
| `Left` | one's own `STAGE_LEAVE` | it stops asking and leaves the game | it stops asking |

All but the calls are sent to a box only if they can find something to clear there
(`MayAsk`); otherwise they change nothing. `yeses` are the ballots on their way behind a
`CALLVOTE` of one's own.

* A client enters the game and leaves it at any time (`EnterGame`, `LeaveBattle`); what
  starts and ends the game is the subject of `Stage`. Calling a vote and answering it are
  offered in the game only.
* A ballot is counted for the vote that is open when it *arrives*. The client sends `VOTE_YES`
  right behind `CALLVOTE`, whether its motion was accepted or not (`FollowingYes`).
* A vote may time out at any tick. Which texts name a player, and whether a client's list
  still shows one who left, are choices (`Texts`, `listed`).
* `MaxMotions` bounds how many votes are called, `MaxLost` how many ballots of closed
  connections may be left in one, `MaxInside` how many players are in the room at once, `MaxBox` how many notices a client has
  on its way when one more tells it that another left the battle (0: the run has none of these).
* Leaving takes the voter and stops the vote about him, all within one step: the recursion of
  `StopVote` inside `OnJudge` is what `Tick` composes.

### Session

`conn[k]` is how far a connection is, `obj[k]` its `MMatchObject`, `queue` the part of
`m_SafeCmdQueue` whose order matters: logins, the first request of each session, and
`NET_CLEAR`s. `db` has the character's `BP` and items, `job` what each posted job has to do, and
the pool of `JobPool` says where each job is. A job is a save (`UpdateCharInfoData`, one
query) or the reading of a character (two queries, with anything in between).

* The first request of a session is queued, because it is what may overtake a `NET_CLEAR` of
  the session it replaces; what follows it is handled when sent. A client waits for
  its character before it asks for anything else.
* `Debug` gives the builds: one compiled with `_DEBUG` throws nobody out, so that two
  sessions of one account go on side by side. The bounty has to add up there as well.
* Any query may fail. A failed save loses what it had (`ledger.lost`): the code empties the
  cache when it posts the job and says so (`MMatchServer.cpp:2483`).
* `ledger` records what happened, for the properties, and numbers the items: it guards nothing but
  `MaxEarned`, `MaxItems` and `MaxLoads`.
* Refusals of a login are a choice. A connection that breaks is one `NET_CLEAR`; a second one would
  find nothing.

## 3. The runs

| Run | Instance | Shows |
|---|---|---|
| `StageMoves` | 2 players, 2 rooms | `NamedStageLists`, `MasterIsMember`, `BannedStayOut`, `StrayedBetweenStages`, `RemovedOnlyEmpty` |
| `StageAdmins` | a hidden admin, 2 players, 2 rooms for 1 or 2, nobody starts a game | `TypeOK`, `MiscountedOnlyOnReentry`, `CapacityRespected`, `MasterKeepsStage` |
| `StageLive` | an event master, 1 player, 1 room for 1 or 2 | `LaunchedEnters`, under `FairSpec` |
| `StageOverlap` | as `StageMoves` | **violated** `NoDeadMember` |
| `AsyncPool` | 2 threads, 3 jobs, both builds | `TypeOK`, `WakePending`, `ImplementsPool`, `JobsCollected` |
| `AsyncLost` | the same | **violated** `JobsRun` |
| `DuelQueue` | 3 players, one of whom also watches | `TypeOK`, `OnePlaceEach`, `OnlyMembersCalled`, `NobodyForgotten`, `NoOvertaking`, and `WaiterFightsHere` under `FairSpec` |
| `DuelOverflow` | 3 players, 1 slot | **violated** `QueueInfoFits` |
| `VotePolls` | an admin and 2 players, at most 2 in the room at once, 1 motion | `TypeOK`, `StaleByDroppedResult`, `TargetGone`, and `AskingEnds` under `FairSpec` |
| `VoteStale` | 2 players, 1 motion, notices that others leave the battle | **violated** `MessageDuringVote` |
| `VoteAbsent` | 3 players, 2 motions | **violated** `TwoThirdsAgree` |
| `SessionBounty` | 2 connections, 2 job threads, both builds | `TypeOK`, `NoGhost`, `UsurperWaits`, `Conserved`, `Solvent`, and `Settles` under `FairSpec` |

### Bounds, and why they are enough

* *Two players and two rooms* are what it takes to be in one room and believed in
  another, with somebody left behind. A choice among several masters takes three
  players: for those, and any number more, `MasterSound` is proved.
* *A room for one or two* is full with one or two players, and an admin makes the difference. That an
  admin is counted twice takes two rooms, the one he follows a player into and the one he
  follows another into meanwhile; what the count then decides takes two ordinary players,
  one inside and one at the door.
* `OneGame` (the `CONSTRAINT` of `StageMoves`): a game is on in one room at a time. What a game does in
  one room does not touch another's.
* `AdminsRoam` (the `CONSTRAINT` of `StageAdmins`) keeps to rooms without a game, players who are not
  ready, and no bans: counts and limits depend on none of them, a ban only refuses one more, and that a room
  whose game runs chooses its next master among those in the battle is in `StageMoves` and the proofs. The
  clients of ordinary players lag behind by one notice only; it is the admin whose requests overlap. The
  count of admins stops at twice their number: by entering again and again an admin raises it
  without end, and twice shows what more does. Both constraints bound only what is checked; the
  proofs have neither.
* `MaxInbox` (4 or 5) bounds what is under way to a client that asks for
  more: an answer to a follow, an answer to a join, the departures that come with each,
  and a launch. One slot is kept for launches, so that the bound never prevents a room
  from starting its game for good. Notices of departure by others' doing are not bounded.
* A name of a room is used again when nobody refers to it: the code never gives a
  `MUID` twice.
* *Two threads, three jobs*: a thread is running a job while another wakes up,
  and one more job waits for both.
* *Three players in a duel*: two fight and one waits; somebody overtakes or is
  forgotten among one waiting and one returning. `Watchers` bounds who ever
  presses the spectators' button; the player whose turn must come (`WaiterFightsHere`) is one who does not. One slot for three players stands for fourteen for
  sixteen.

* *Three players in a vote*: who calls it, whom it is about, and who is asked; any of
  them may leave. `VotePolls` has two of them in the room at once (`MaxInside`), who come and go, with an admin,
  whose presence keeps a vote from being called but not from going on. In it a player who has voted for the
  open vote is not cut off (`MaxLost = 0`); this, a third player inside and two motions, where one ballot may be
  counted for another vote, are in `VoteAbsent` and in the proofs. With one motion a client
  may still ask too long or for ever, or enter the game after the result. One of
  the two players who are no admins stands for both in `AskingEnds`.
* *Two connections of one account* are the old session and the new one. One choice
  of character each, one kill, and one item that costs more than the first bounty are
  enough for memory, cache, jobs and database to have four different bounties, and for
  two sessions to hold the same item. With three connections, where a login may find
  a session that is already being cleared, there are too many states to check; what
  is checked with two of them is proved for any number, except `Settles`.

Deadlock is not checked, except in `StageOverlap`, whose counterexample comes first. `Stage` stops
where a room lists a deleted player (`Next`), the threads of `AsyncProxy` after `Destroy`, `Duel` when the
last player leaves the room in a state without further steps, `Vote` when all players are gone and the
motions used up, and `Session` when all connections are closed.

### Fairness, and why the code justifies it

* `Stage`: `OnRun` ticks every room each time round (`MMatchServer.cpp:651`), and a
  client handles its commands in every frame. A client that is told to come to a game loads its map and
  asks to enter. This last is an assumption about clients and not about the server: the time-out
  for those who never come is empty (`MMatchRule.cpp:145-148`), and one who stays connected without
  loading holds up the round for ever. What `LaunchedEnters` shows is the rest: nobody counts as
  launched whom the server did not tell to come, or does not let go when the game ends. It speaks of
  players whom no room lists but the one their object names. No player is
  obliged to do anything.
* `Duel`: the room is ticked, every duel has a time limit of one to five minutes,
  and a launched player enters or leaves. The last is what `LaunchedEnters` shows of
  `Stage`; a client that stays connected and never loads its map is excluded by
  it (the code has no time-out for that: `MMatchRule.cpp:145-148`).
* `AsyncProxy`: threads are scheduled, queries return, `OnRun` collects. Wake-ups are
  strongly fair: an event is missed only if another thread executes between two
  particular instructions, which does not happen every time. The server need
  not post or be destroyed.
* `Vote`: the room is ticked, which times votes out, and each client reads its notices. Nobody
  need vote, enter the game or stay in it: `AskingEnds` speaks of a client that stays in the game.
* `Session`: the server's thread takes commands and results while there are any (`OnRun`),
  threads run and queries return. No client need do anything: `Settles` speaks of connections
  that are closing.

## 4. What is proved

`StageProofs`, for any sets of players, rooms and admins and any limits, and whatever clients
ask and when:

* `TypeCorrect`: `Spec => []TypeOK`;
* `MembershipSound`: `Spec => []NamedStageLists`;
* `MasterSound`: `Spec => []MasterIsMember`;
* `BannedSound`: `Spec => []BannedStayOut`;
* `RemovalSound`: `Spec => RemovedOnlyEmpty`.

That the two records of membership agree is not true (section 2); one half is: the room that an object
names lists its player (`Listed`), because a handler that takes a player out of a room clears
what the object names, whichever room that is, and one that lets a player in first takes
the player out of the room the object names. This half is what the others need: the admin who
takes a room is one of its players, and a room that a join finds gone was not the player's.
The invariant `HalfInv` adds what each room keeps by itself (`Whole`): empty when closed, with a
master among its players, and none of the banned among them. A ban and the removal of the banned
are one step but two calls; between them the room is whole but for that player (`WholeBut`).
There is a lemma for the effect of each helper on one room (`RemovedStage`, `AddedStage`,
`RemovedWhole`, `AddedWhole`), then for a departure and a join among all rooms (`LeaveHalf`,
`JoinSafely`), then one for each action; each step is shown to keep `HalfInv` and to end no room
with players (`Safely`).

`StageStepProofs`, for the same constants and as little assumed:

* `MiscountSound`: `Spec => MiscountedOnlyOnReentry`;
* `CapacitySound`: `Spec => CapacityRespected`;
* `MasterKeeps`: `Spec => MasterKeepsStage`;
* `StraysSound`: `Spec => StrayedBetweenStages`.

These compare a room before and after a step. The argument of the first three is that each of the actions does to any
one room one of a few things (`Moves`, and `StepMoves`, which proves it): nothing but settings
(`Rests`), another master by an admin (`Crowns`), one player less (`Loses`), one player
more (`Enters`), a player who leaves and comes back, and is told of the departure (`Reenters`), or
it is made or ends (`Made`, `Dies`). What the properties say is then read off these. `Enters` says that
the player's object did not name the room before and does now, and not that the room did not list
the player: if it did, and the player is an admin, that is how the count gets too high
(`GainsCounted`, `MovesCounted`), and the only way. Capacity is therefore stated, and proved, of
rooms whose count is not too high yet. `StraysSound` looks at the objects instead: an object stops naming
a room when its player leaves that one, which then does not list it (`LeaveStrays`), or when the
client leaves another or the player joins another, and there the room may keep it
(`StageLeaveStrays`, `JoinStrays`). As everywhere in `Stage`, nothing is said of
what follows a handler's meeting a deleted object (`NoDeadMember` in `Next`).

`DuelProofs`, for any players and watchers:

* `TypeCorrect`: `Spec => []TypeOK`;
* `PlacesSound`: `Spec => []OnePlaceEach`;
* `CallsSound`: `Spec => []OnlyMembersCalled`;
* `NoneForgotten`: `Spec => []NobodyForgotten`;
* `TurnsSound`: `Spec => NoOvertaking`.

The invariant `DInv` says while a game runs that the places are sane (`Sane`: nobody is twice in the
queue, or in it and in the fight, and the two who fight are two), that all who have one
(`Placed`) are in the room, and that all in the battle who do not watch have one. Each hook of the rule
has a lemma of three parts: it keeps `Sane`; it lets nobody pass (`NoPass`, which is
transitive, for the handlers that call two hooks); and it changes `Placed` by the player it is about, or
not at all. The hooks rest on three lemmas about the queue: taking its head (`HeadFights`),
adding at its end (`OthersWait`) and `list::remove` (`ListRemoved`). The last one needs that the places
which stay are counted in order and without gaps (`KeptPlaces`). `Sane` is also why the cases of
`LeaveBattle` exclude each other: champion and challenger differ, or are both nobody.

`AsyncProofs`, for any threads, jobs and builds:

* `TypeCorrect`: `Spec => []TypeOK`;
* `NeverForgotten`: `Spec => []WakePending`; a posted job never depends on
  the one-second time-out;
* `Refinement`: `Spec => ImplementsPool`.

The inductive invariant is `TypeOK`, `WakePending`, `LockHeld` (who is inside the
critical section holds the lock, and nobody else) and `JobInHand` (a thread about to
pop holds the head of the queue; a thread that runs has a job). `LockHeld` is what
makes the unlocked count harmless: it can be wrong only while a thread or the
server is inside, and then somebody is at work or about to set the event. The refinement
needs that a job is in one place only (`Fresh`).

`VoteProofs`, for any players, admins, texts and bounds:

* `TypeCorrect`: `Spec => []TypeOK`; in it that the voters are the players of the room and
  that nobody has two ballots;
* `ScreenSound`: `Spec => StaleByDroppedResult`;
* `TargetSound`: `Spec => TargetGone`.

`StaleByDroppedResult` speaks of clients that have read their notices, and of the step in which
one comes to ask about a vote that is over. The invariant (`IInv`) is about the others: of a client with
unread notices, the last one tells what it will ask about (`WillAsk`), and that is the open vote or none (`Fits`).
A vote that ends sends its notice in the same step, and so does any departure, so the last notice is
always right. A client without unread notices that asks about the open vote then stops
being right only in a step that sends it a notice, and with the last notice it
becomes right, unless that notice is an `Over` read out of the game (`Reading`).

`SessionProofs`, for any connections, threads, builds, prices and bounds:

* `NobodyOwes`: `Spec => []Solvent`;
* `NoGhosts`: `Spec => []NoGhost`;
* `UsurpersWait`: `Spec => []UsurperWaits`.

The first needs the types (`Types`), that the threads have jobs that were posted
(`Posted`) and that no save takes anything away (`Saves`). `UsurperWaits` is not
inductive: it depends on the order of the queue. `Displacement` says it for sessions that
have not begun: while the object of the older one lives, its `NET_CLEAR` is in the queue, before
every request of the newer one. What keeps that true is that a login is in the queue once
(`Logins`), that no request precedes its login (`FirstRequests`), that a session thrown out
never logs in again on the same connection (`Used`), and that only sessions that have begun
have jobs (`Jobs`), so that no result lets one begin early.

`BountyProofs`, under no further assumption:

* `BountyConserved`: `Spec => []Conserved`;
* `TypeCorrect`: `Spec => []TypeOK`.

Both are about sums, over the jobs that save (`Saving`) and over the caches (`Cached`), as
the community module folds them. What a fold over a set computes is a matter of induction,
and the library's theorems of induction cannot be used here (they take an operator); what is proved
instead is that a sum of natural numbers counts the pairs of an index and a number up to the
value there (`SumIsCount`): the function of these cardinalities satisfies the equation of
the fold, and a function that satisfies it is this one, for otherwise there would be a
smallest set where it is not (`UnfoldsToUnits`, from the library's `WFMin`). From this follow what
a sum becomes when one value changes (`SumChange`) and when there is one value more (`SumMore`). The
invariant adds to `Conserved`: jobs and what is in the caches are together no more than what
was chosen and earned (in `Books`: this bounds the jobs, because a save takes at
least one from a cache), a result that waits to be collected is no save that was not run
(`Unsaved`), and the items in the database were bought (`Stock`, so that the next one is new). A save
that is posted moves bounty from one sum to the other (`FlushMoves`); a purchase changes the
database and the account of what was spent alike (`BountyTrade`). It rests on the invariants of
`SessionProofs`: a login adds an object where there was none, with nothing in its cache.

Assumptions on constants are the named `ASSUME`s of the modules; TLC evaluates
them in every run.

### Only model-checked

What is about eventuality: `LaunchedEnters`, `JobsCollected`, `WaiterFightsHere`, `AskingEnds` and
`Settles`. Liveness under fairness and `ENABLED` are beyond the provers; TLC checks these for the
bounds above.

## 5. Disagreements found between the code and what it says

1. `StageOverlap`. A player follows another (unanswered), joins a second room, then
   handles the first answer and leaves that room. `StageLeave` clears the object's
   room although the player is in another, which keeps the player in its list; a
   disconnection then deletes an object that a room still lists. `StageJoin` logs
   such a state as invalid. The same overlap has two milder consequences, which the properties
   name as exceptions: an admin counted twice, and a master who loses his room by joining it.
2. `AsyncLost`. `MMatchServer::Destroy` posts jobs that save each character and then
   destroys the pool, whose threads prefer to stop.
3. `DuelOverflow`. The queue of up to sixteen players is copied into fourteen places.
4. `VoteAbsent`. "When two thirds or more agree" (`MVoteMgr.cpp:85`): a voter who leaves is
   taken from those who are counted, his ballot is not. One player calls a vote and
   leaves, and the only one who stays is banned without having agreed.
5. `VoteStale`. A client in the room's window is told of a vote and drops its result, because
   `OnNotifyVoteResult` returns when there is no combat interface. It enters the game, and is asked to
   vote on what is over: "the message while a vote is in progress" (`ZVoteInterface.cpp:90`) is drawn,
   and a key sends a ballot.

Noted while modelling and not the subject of a run: one shutdown event that resets itself on
Windows stops one thread of the pool (`MAsyncProxy.cpp:37`); a round that cannot be played
ends as a time-out when the clock moves on within the tick (`MMatchRule.cpp:181`); and the
save that the shop wants "first" (comment at `MMatchServer_Item.cpp:81`) is only posted, so that
a purchase may be refused which the bounty in memory allows. `Session` has the last, and shows
that nothing is lost by it.

## 6. What is not modelled, and the plan

Rendering, physics, hit registration, database engines, administration, tools and
vendored code have no protocol of their own worth a model. The following have, in
the order in which they are to be added:

1. `TeamRound` (team death match and assassination) on the same round machine as
   `Duel`; the round machine becomes a module of its own. Property: a round that begins
   has both teams and, in an assassination, both commanders.
2. `SafeUDP` and `MatchAgent`: lossy, repeating network; abstract specification: each packet
   delivered once. Bound: losses and packets.
3. `Ladder`: groups waiting for an opponent, cancellation while matched.
4. Channels' table of rooms, world items, quests' control of monsters, chat rooms: small
   modules.
5. Of `Session`: creation and deletion of characters, rent and equipment, the shop of quests
   (which asks memory only), and login through the database agent.

The runs are as many as one wants to wait for; a new module's takes the place of one whose question
is answered by a proof.

Proofs to come: with the new modules their own; for `Session`, a refinement of
a specification that has only the bounty and what is done with it, without jobs and caches.
