-------------------------------- MODULE Duel --------------------------------
(***************************************************************************)
(* A stage that plays duels: MMatchRuleDuel.cpp (who fights whom) run by   *)
(* the round machine of MMatchRule.cpp, inside MMatchStage.cpp.  Two of    *)
(* the players fight, the others wait in a queue; the winner stays and the *)
(* loser goes to the end of the queue.  Players join, leave, enter and     *)
(* leave the battle, change team and die at any moment between two ticks.  *)
(*                                                                         *)
(* This is one life of one stage.  Which stage a player is in, its master  *)
(* and the start of a game are the subject of Stage.  Bots are left out.   *)
(***************************************************************************)
EXTENDS Naturals, FiniteSets, SequencesExt

CONSTANTS
  Players,
  Watchers,      \* bound: the players who ever press the button of the spectators
  NoPlayer,      \* MUID(0,0)
  QueueSlots     \* the length of MTD_DuelQueueInfo::m_WaitQueue

ASSUME PlayersAssumption == /\ IsFiniteSet(Players) /\ NoPlayer \notin Players
                            /\ Watchers \subseteq Players
ASSUME SlotsAssumption == QueueSlots \in Nat

VARIABLES
  stage,        \* the stage's state
  members,      \* its objects
  battle,       \* those with GetEnterBattle
  launched,     \* those with IsLaunchedGame
  spectators,   \* those of team MMT_SPECTATOR
  alive,        \* those with CheckAlive
  round,        \* m_nRoundState
  duel          \* the fields of MMatchRuleDuel

vars == <<stage, members, battle, launched, spectators, alive, round, duel>>
people == <<members, battle, launched, spectators, alive>>

RoundStates == {"FREE", "PREPARE", "COUNTDOWN", "PLAY", "FINISH", "EXIT"}

Duels == [queue : Seq(Players \cup {NoPlayer}), champion : Players \cup {NoPlayer},
          challenger : Players \cup {NoPlayer}, isChangeChampion : BOOLEAN,
          isRoundEnd : BOOLEAN, isTimeover : BOOLEAN]

\* list<MUID>::remove: what is kept keeps its order.  (SelectSeq is recursive;
\* this definition can be expanded in a proof.)
Kept(list, p) == {i \in DOMAIN list : list[i] # p}
ListRemove(list, p) ==
  LET kept == Kept(list, p)
      place(k) == CHOOSE i \in kept : Cardinality({j \in kept : j <= i}) = k
  IN  [k \in 1..Cardinality(kept) |-> list[place(k)]]

Queued(d) == Range(d.queue) \ {NoPlayer}
Fighting(d) == {d.champion, d.challenger} \ {NoPlayer}

-----------------------------------------------------------------------------
(* MMatchRuleDuel: what each handler makes of the fields d.                *)

\* Everyone in the stage waits, in the order of the identifiers.  The flags
\* keep the values of the last game, or none.
OnBegin(d, order) == [d EXCEPT !.queue = order, !.champion = NoPlayer,
                               !.challenger = NoPlayer]

FillChampion(d) ==
  IF d.champion = NoPlayer /\ d.queue # <<>>
    THEN [d EXCEPT !.champion = Head(d.queue), !.queue = Tail(d.queue)] ELSE d
FillChallenger(d) ==
  IF d.challenger = NoPlayer /\ d.queue # <<>>
    THEN [d EXCEPT !.challenger = Head(d.queue), !.queue = Tail(d.queue)] ELSE d
SpawnPlayers(d) == FillChallenger(FillChampion(d))

OnRoundBegin(d) == SpawnPlayers([d EXCEPT !.isRoundEnd = FALSE, !.isTimeover = TRUE])

\* Who is champion after a round, and who goes to wait.
Swapped(d) == d.isChangeChampion \/ d.champion = NoPlayer
Winner(d) == IF Swapped(d) THEN d.challenger ELSE d.champion
Loser(d) == IF Swapped(d) THEN d.champion ELSE d.challenger
BothWait(d) == [d EXCEPT !.queue = @ \o <<d.champion, d.challenger>>,
                         !.champion = NoPlayer, !.challenger = NoPlayer]

\* Bugs the properties are tried against, here and below: the loser waits in
\* front, or is not queued.
OnRoundEndInFront(d) ==
  IF d.isTimeover THEN BothWait(d)
  ELSE [d EXCEPT !.champion = Winner(d), !.challenger = NoPlayer,
                 !.queue = IF Loser(d) = NoPlayer THEN @ ELSE <<Loser(d)>> \o @]
OnRoundEndDropped(d) ==
  IF d.isTimeover THEN BothWait(d)
  ELSE [d EXCEPT !.champion = Winner(d), !.challenger = NoPlayer]

OnRoundEnd(d) ==
  IF d.isTimeover THEN BothWait(d)
  ELSE [d EXCEPT !.champion = Winner(d), !.challenger = NoPlayer,
                 !.queue = IF Loser(d) = NoPlayer THEN @ ELSE Append(@, Loser(d))]

OnGameKill(d, victim) == [d EXCEPT !.isRoundEnd = TRUE,
                                   !.isChangeChampion = victim # d.challenger]

OnEnterBattleUnsought(d, p) ==     \* a player who waits already is queued again
  IF p \in spectators \/ p \in Fighting(d) THEN d
  ELSE SpawnPlayers([d EXCEPT !.queue = Append(@, p)])

OnEnterBattle(d, p) ==
  IF p \in spectators \/ p \in Fighting(d) \cup Queued(d) THEN d
  ELSE SpawnPlayers([d EXCEPT !.queue = Append(@, p)])

OnLeaveBattle(d, p) ==
  CASE p = d.champion -> [d EXCEPT !.isChangeChampion = TRUE, !.isRoundEnd = TRUE,
                                   !.champion = NoPlayer]
    [] p = d.challenger -> [d EXCEPT !.isChangeChampion = FALSE, !.isRoundEnd = TRUE,
                                     !.challenger = NoPlayer]
    [] OTHER -> [d EXCEPT !.queue = ListRemove(@, p)]

OnTeamSpectator(d, p) == [d EXCEPT !.queue = ListRemove(@, p)]

\* OnCheckEnableBattleCondition: its result, and what it does to the fields.
SlotFree(d) == d.champion = NoPlayer \/ d.challenger = NoPlayer
Enabled(d) == ~ (SlotFree(d) /\ d.queue = <<>>)
Checked(d) == IF SlotFree(d) /\ d.queue # <<>> THEN [d EXCEPT !.isRoundEnd = TRUE] ELSE d

-----------------------------------------------------------------------------
(* The players.                                                            *)

\* StageJoin gives a team, not that of the spectators.
Join(p) ==
  /\ stage # "CLOSE" /\ p \notin members
  /\ members' = members \cup {p}
  /\ UNCHANGED <<stage, battle, launched, spectators, alive, round, duel>>

\* MMatchStage::LeaveBattle informs the rule of a running game only.
Without(d, p) == IF stage = "RUN" THEN OnLeaveBattle(d, p) ELSE d

\* A player who joins gets a team; that of one who left does not matter.
Gone(p) ==
  /\ members' = members \ {p} /\ battle' = battle \ {p} /\ launched' = launched \ {p}
  /\ spectators' = spectators \ {p} /\ alive' = alive \ {p}

LeaveStageSilently(p) ==     \* a trial: only who fights is taken from the rule
  /\ p \in members
  /\ Gone(p)
  /\ duel' = IF p \in battle THEN Without(duel, p) ELSE duel
  /\ stage' = IF members = {p} THEN "CLOSE" ELSE stage
  /\ UNCHANGED round

\* A disconnected or kicked player leaves the battle before the stage, and
\* RemoveObject leaves the battle again, of whoever it removes.
LeaveStage(p) ==
  /\ p \in members
  /\ Gone(p)
  /\ duel' = Without(IF p \in battle THEN Without(duel, p) ELSE duel, p)
  /\ stage' = IF members = {p} THEN "CLOSE" ELSE stage
  /\ UNCHANGED round

\* A launched player enters when the map is loaded; others by a forced entry,
\* which may come when the game has just ended.
EnterBattle(p) ==
  /\ p \in members \ battle
  /\ battle' = battle \cup {p}
  /\ alive' = alive \ {p}
  /\ duel' = IF stage = "RUN" THEN OnEnterBattle(duel, p) ELSE duel
  /\ UNCHANGED <<stage, members, launched, spectators, round>>

LeaveBattleAlive(p) ==       \* a trial: SetAlive is forgotten
  /\ p \in battle
  /\ battle' = battle \ {p} /\ launched' = launched \ {p}
  /\ duel' = Without(duel, p)
  /\ UNCHANGED <<stage, members, spectators, alive, round>>

LeaveBattle(p) ==
  /\ p \in battle
  /\ battle' = battle \ {p} /\ launched' = launched \ {p} /\ alive' = alive \ {p}
  /\ duel' = Without(duel, p)
  /\ UNCHANGED <<stage, members, spectators, round>>

\* MMatchStage::PlayerTeam; the button is in the window of the stage, which
\* is not shown in the battle.
SetTeam(p) ==
  /\ p \in Watchers /\ p \in members \ battle
  /\ \/ /\ p \in spectators
        /\ spectators' = spectators \ {p}
        /\ UNCHANGED duel
     \/ /\ spectators' = spectators \cup {p}
        /\ duel' = OnTeamSpectator(duel, p)
  /\ UNCHANGED <<stage, members, battle, launched, alive, round>>

\* A client tells of its own death.
Kill(p) ==
  /\ p \in alive
  /\ alive' = alive \ {p}
  /\ duel' = OnGameKill(duel, p)
  /\ UNCHANGED <<stage, members, battle, launched, spectators, round>>

\* OnRequestSpawn: the two who fight, not spectators.  The delays it asks for
\* may have passed.
RequestSpawn(p) ==
  /\ p \in battle \ spectators
  /\ p \in Fighting(duel)
  /\ alive' = alive \cup {p}
  /\ UNCHANGED <<stage, members, battle, launched, spectators, round, duel>>

\* The master may start a game that runs.
StartGame ==
  /\ members # {}
  /\ launched' = members
  /\ stage' = "COUNTDOWN"
  /\ UNCHANGED <<members, battle, spectators, alive, round, duel>>

-----------------------------------------------------------------------------
(* MMatchStage::Tick.  Waiting for a timer is a step that changes nothing. *)

Orders(ps) == {order \in [1..Cardinality(ps) -> ps] : IsInjective(order)}

\* OnStartGame: MMatchRule::Begin, then OnBegin.
Begin ==
  /\ stage = "COUNTDOWN"
  /\ stage' = "RUN"
  /\ round' = "PREPARE"
  /\ \E order \in Orders(members) : duel' = OnBegin(duel, order)
  /\ UNCHANGED people

Prepare ==
  /\ round = "PREPARE"
  /\ launched \subseteq battle                    \* CheckBattleEntry
  /\ duel' = Checked(duel)
  /\ IF Enabled(duel)
       THEN round' = "COUNTDOWN" /\ alive' = alive \cup (battle \ spectators)
       ELSE round' = "FREE" /\ UNCHANGED alive
  /\ UNCHANGED <<stage, members, battle, launched, spectators>>

Countdown ==
  /\ round = "COUNTDOWN"
  /\ round' = "PLAY"
  /\ duel' = OnRoundBegin(duel)
  /\ UNCHANGED <<stage, people>>

\* The round may go from PLAY to FREE and on to FINISH in one tick.  Going to
\* FREE sets the timer to a clock read after nClock: when it has moved on, the
\* time spent is a huge unsigned number, and time is up.
Play ==
  /\ round = "PLAY"
  /\ LET d == Checked(duel) IN
       \/ /\ d.isRoundEnd
          /\ duel' = OnRoundEnd([d EXCEPT !.isRoundEnd = FALSE, !.isTimeover = FALSE])
          /\ round' = "FINISH"
       \/ /\ ~ d.isRoundEnd                          \* OnCheckBattleTimeOut
          /\ duel' = OnRoundEnd(d)
          /\ round' = "FINISH"
       \/ /\ ~ d.isRoundEnd /\ ~ Enabled(duel)
          /\ duel' = d
          /\ round' = "FREE"
       \/ /\ ~ d.isRoundEnd /\ Enabled(duel)      \* CheckOnGameEvent
          /\ battle \cup launched = {}
          /\ duel' = d
          /\ round' = "EXIT"
  /\ UNCHANGED <<stage, people>>

\* RoundCount: a player in the battle may have enough kills.
Finish ==
  /\ round = "FINISH"
  /\ \/ round' = "PREPARE"
     \/ battle # {} /\ round' = "EXIT"
  /\ UNCHANGED <<stage, people, duel>>

Free ==
  /\ round = "FREE"
  /\ Enabled(duel)
  /\ duel' = Checked(duel)
  /\ round' = "PREPARE"
  /\ UNCHANGED <<stage, people>>

\* OnFinishGame.
Exit ==
  /\ round = "EXIT"
  /\ stage' = "STANDBY"
  /\ UNCHANGED <<people, round, duel>>

Run == stage = "RUN" /\ (Prepare \/ Countdown \/ Play \/ Finish \/ Free \/ Exit)
Tick == Begin \/ Run

-----------------------------------------------------------------------------
\* The flags of a new rule are not initialised.
Init ==
  /\ stage = "STANDBY" /\ members = {}
  /\ battle = {} /\ launched = {} /\ spectators = {} /\ alive = {}
  /\ round = "FREE"
  /\ duel \in [queue : {<<>>}, champion : {NoPlayer}, challenger : {NoPlayer},
               isChangeChampion : BOOLEAN, isRoundEnd : BOOLEAN, isTimeover : BOOLEAN]

Next ==
  \/ Tick \/ StartGame
  \/ \E p \in Players : \/ Join(p) \/ LeaveStage(p) \/ EnterBattle(p) \/ LeaveBattle(p)
                        \/ SetTeam(p) \/ Kill(p) \/ RequestSpawn(p)

Spec == Init /\ [][Next]_vars

\* The server ticks, time limits pass (a duel's is one to five minutes), and
\* a launched player enters the battle or leaves (LaunchedEnters of Stage).
Fairness == /\ WF_vars(Tick)
            /\ \A p \in Players : WF_vars(p \in launched /\ EnterBattle(p))

FairSpec == Spec /\ Fairness

-----------------------------------------------------------------------------
(* Properties.                                                             *)

TypeOK ==
  /\ stage \in {"STANDBY", "COUNTDOWN", "RUN", "CLOSE"}
  /\ battle \subseteq members /\ launched \subseteq members /\ members \subseteq Players
  /\ spectators \subseteq members /\ alive \subseteq battle
  /\ round \in RoundStates
  /\ duel \in Duels

\* Nobody waits twice, fights oneself, or waits for the fight one is in.  (The
\* queue may hold MUID(0,0), and more than once.)
OnePlaceEach ==
  stage = "RUN" =>
    /\ \A i, j \in DOMAIN duel.queue :
         duel.queue[i] = duel.queue[j] => i = j \/ duel.queue[i] = NoPlayer
    /\ Queued(duel) \cap Fighting(duel) = {}
    /\ duel.champion = duel.challenger => duel.champion = NoPlayer

\* Whoever left the stage is not called to fight.
OnlyMembersCalled == stage = "RUN" => Queued(duel) \cup Fighting(duel) \subseteq members

\* Whoever is in the battle, and does not just watch, fights or waits for it.
NobodyForgotten ==
  stage = "RUN" => battle \ spectators \subseteq Queued(duel) \cup Fighting(duel)

Ahead(d, p, q) == \E i, j \in DOMAIN d.queue : i < j /\ d.queue[i] = p /\ d.queue[j] = q

\* Nobody overtakes who goes on waiting: whoever is ahead of such a player, or
\* comes to fight, was ahead before.  A new game makes a new queue.
NoOvertaking ==
  [][stage = "RUN" /\ stage' = "RUN" =>
       \A p \in Queued(duel) \cap Queued(duel'), q \in Players :
         Ahead(duel', q, p) \/ q \in Fighting(duel') \ Fighting(duel)
           => Ahead(duel, q, p)]_vars

\* A player who waits in a game comes to fight, unless the player leaves the
\* queue (for the stage, or to watch), or the game ends or is started again.
WaiterFights(p) ==
  stage = "RUN" /\ p \in Queued(duel) ~> stage # "RUN" \/ p \notin Queued(duel)

\* The steps that call SendQueueInfo.
SendsQueueInfo ==
  /\ stage = "RUN"
  /\ \/ Countdown
     \/ \E p \in Players : EnterBattle(p) /\ p \notin spectators
     \/ \E p \in Players : (LeaveBattle(p) \/ LeaveStage(p)) /\ p \notin Fighting(duel)

\* The queue that is sent to the clients fits its message.
QueueInfoFits == [][SendsQueueInfo => Len(duel'.queue) <= QueueSlots]_vars
=============================================================================
