------------------------------- MODULE Stage -------------------------------
(***************************************************************************)
(* Stages (game rooms) of the match server and the players who move        *)
(* between them: MMatchServer_Stage.cpp (the message handlers),            *)
(* MMatchStage.cpp (one room), MMatchObject.cpp (one player), the stage    *)
(* part of MMatchServer::OnRun, and what the client of a player knows.     *)
(*                                                                         *)
(* The server is one thread: a message handler, or the tick of one stage,  *)
(* is one step.  What is concurrent is the clients.  A client names the    *)
(* stage it speaks of by its own m_uidStage (view), which follows the      *)
(* server's notices in order and late (inbox).  A request is handled when  *)
(* it is sent: reading a notice later gives the same runs as delivering    *)
(* the request later.                                                      *)
(***************************************************************************)
EXTENDS Naturals, Sequences, FiniteSets

CONSTANTS
  Players,      \* connections, each with one character
  Stages,       \* names of stages; a name is free again once all forgot it
  Admins,       \* players whose grade satisfies IsAdminGrade
  Hidden,       \* admins playing with the flag AdminHide
  EventMasters, \* admins of grade MMUG_EVENTMASTER
  NoPlayer, NoStage,   \* MUID(0,0)
  Capacities,   \* the values of the setting MaxPlayers
  DefaultMax,   \* MaxPlayers of a new stage
  MaxInbox      \* bound on the notices under way to a client in a stage

ASSUME PlayersAssumption == /\ IsFiniteSet(Players) /\ NoPlayer \notin Players
                            /\ Admins \subseteq Players
                            /\ Hidden \subseteq Admins
                            /\ EventMasters \subseteq Admins
ASSUME StagesAssumption == NoStage \notin Stages
ASSUME NumbersAssumption == /\ Capacities \subseteq Nat \ {0}
                            /\ DefaultMax \in Capacities
                            /\ MaxInbox \in Nat

VARIABLES
  obj,    \* the MMatchObject of each player
  stg,    \* the MMatchStage of each name
  view,   \* m_uidStage of each client
  inbox   \* notices sent to each client and not handled yet, in order

vars == <<obj, stg, view, inbox>>

-----------------------------------------------------------------------------
(* The data.                                                               *)

Places == {"OUTSIDE", "LOBBY", "STAGE", "BATTLE"}          \* MMatchPlace
StageStates == {"NONE", "STANDBY", "COUNTDOWN", "RUN", "CLOSE"}

\* launch: MC_MATCH_STAGE_LAUNCH or MC_MATCH_STAGE_RESPONSE_FORCED_ENTRY;
\* joined and followed: MC_MATCH_STAGE_JOIN about oneself, after a request
\* of the lobby's window or after a StageFollow; left: MC_MATCH_STAGE_LEAVE.
Notices == [kind : {"joined", "followed", "left", "launch"},
            stage : Stages \cup {NoStage}]
Launch == [kind |-> "launch", stage |-> NoStage]
Left(s) == [kind |-> "left", stage |-> s]

Objects == [stage : Stages \cup {NoStage}, place : Places, ready : BOOLEAN,
            battle : BOOLEAN, launched : BOOLEAN]
OutsideObject == [stage |-> NoStage, place |-> "OUTSIDE", ready |-> FALSE,
                  battle |-> FALSE, launched |-> FALSE]

\* What RemoveObject leaves of a player: LeaveBattle and the five setters.
LobbyObject == [OutsideObject EXCEPT !.place = "LOBBY"]

StageRecords == [state : StageStates, members : SUBSET Players,
                 master : Players \cup {NoPlayer}, admins : Nat,
                 max : Capacities, banned : SUBSET Players]
NewStage == [state |-> "STANDBY", members |-> {}, master |-> NoPlayer,
             admins |-> 0, max |-> DefaultMax, banned |-> {}]
NoneStage == [NewStage EXCEPT !.state = "NONE"]

Exists(st, s) == s # NoStage /\ st[s].state # "NONE"
Connected(p) == obj[p].place # "OUTSIDE"
Mentions(p, s) == view[p] = s \/ \E i \in DOMAIN inbox[p] : inbox[p][i].stage = s

\* GetObjCount minus m_nAdminObjectCount, kept in Nat: 0 when it is negative.
Countable(g) == IF Cardinality(g.members) >= g.admins
                  THEN Cardinality(g.members) - g.admins ELSE 0

\* Launches and what a client asks for stop at the bound, the second one short
\* of it, so that the tick of a stage need not wait for room to launch a player;
\* one who leaves gets one more notice and is then out of reach.
HasRoom(p, n) == Len(inbox[p]) + n <= MaxInbox
Notify(box, ps, n) == [q \in Players |-> IF q \in ps THEN Append(box[q], n) ELSE box[q]]

-----------------------------------------------------------------------------
(* One stage and one player.                                               *)

\* Bugs the properties are tried against; nothing but those trials uses them.
HeirsBeforeErase(g, p) ==     \* a master chosen before p is erased
  IF p # g.master THEN {g.master} ELSE g.members
HeirsAnew(g, p) ==            \* a master chosen whoever leaves
  IF g.members \ {p} = {} THEN {g.master} ELSE g.members \ {p}

\* Who may be master once p is gone.  RecommandMaster takes the first object
\* in the order of the identifiers, which are given out at connection: any
\* of the candidates can be that one.
Heirs(g, p) ==
  LET rest == g.members \ {p}
      fighting == {q \in rest : obj[q].battle}
  IN  IF p \notin g.members \/ p # g.master \/ rest = {} THEN {g.master}
      ELSE IF g.state = "RUN" /\ fighting # {} THEN fighting ELSE rest

RemovedUnguarded(g, p, heir) ==   \* a count of admins that goes below zero
  [g EXCEPT !.members = @ \ {p},
            !.state   = IF p \in g.members /\ g.members = {p} THEN "CLOSE" ELSE @,
            !.master  = heir,
            !.admins  = IF p \in Admins THEN @ - 1 ELSE @]
RemovedUncounted(g, p, heir) ==   \* an admin who leaves stays counted
  [g EXCEPT !.members = @ \ {p},
            !.state   = IF p \in g.members /\ g.members = {p} THEN "CLOSE" ELSE @,
            !.master  = heir]

\* MMatchStage::RemoveObject for a connected player p, the stage's side.  The
\* count of admins goes down even if p is not one of the members.
Removed(g, p, heir) ==
  [g EXCEPT !.members = @ \ {p},
            !.state   = IF p \in g.members /\ g.members = {p} THEN "CLOSE" ELSE @,
            !.master  = heir,
            !.admins  = IF p \in Admins /\ @ > 0 THEN @ - 1 ELSE @]

\* MMatchStage::AddObject, then OnEventChangeMaster for an event master.
Added(g, p) ==
  [g EXCEPT !.members = @ \cup {p},
            !.admins  = IF p \in Admins THEN @ + 1 ELSE @,
            !.master  = IF p \in EventMasters \/ g.members \subseteq {p}
                          THEN p ELSE @]

ValidClosed(g, p) ==          \* a closed stage that is still ticked takes players
  p \in Admins \/ (Countable(g) < g.max /\ p \notin g.banned)
ValidBanned(g, p) ==          \* the list of the banned is not read
  g.state # "CLOSE" /\ (p \in Admins \/ Countable(g) < g.max)
ValidOneMore(g, p) ==         \* off by one
  g.state # "CLOSE" /\ (p \in Admins \/ (Countable(g) <= g.max /\ p \notin g.banned))

\* MMatchServer::ValidateStageJoin.  The limits of level (against the master's)
\* and of forced entry (against the state) may refuse whom the rest admits.
Valid(g, p) ==
  /\ g.state # "CLOSE"
  /\ p \in Admins \/ (Countable(g) < g.max /\ p \notin g.banned)
MayRefuse(g, p) ==
  \/ ~ Valid(g, p)
  \/ p \notin Admins /\ (g.members # {} \/ g.state # "STANDBY")

LeaveWithOldStage(p, s, st, box, heir) ==   \* SetStageUID is forgotten
  [obj   |-> [obj EXCEPT ![p] = [LobbyObject EXCEPT !.stage = obj[p].stage]],
   stg   |-> [st EXCEPT ![s] = Removed(@, p, heir)],
   inbox |-> IF p \in st[s].members THEN Notify(box, {p}, Left(s)) ELSE box]

\* MMatchServer::StageLeave: p is told only if it is one of the members.
LeaveWith(p, s, st, box, heir) ==
  [obj   |-> [obj EXCEPT ![p] = LobbyObject],
   stg   |-> [st EXCEPT ![s] = Removed(@, p, heir)],
   inbox |-> IF p \in st[s].members THEN Notify(box, {p}, Left(s)) ELSE box]

StageLeave(p, s) ==
  \E heir \in Heirs(stg[s], p) :
    LET after == LeaveWith(p, s, stg, inbox, heir)
    IN  obj' = after.obj /\ stg' = after.stg /\ inbox' = after.inbox

\* MMatchServer::StageJoin from the stage table st: p leaves the stage it is
\* in before the request is validated.  Its flags ready and battle: the first
\* is reset, the second is not.
StageJoin(p, s, st, kind) ==
  LET old == obj[p].stage IN
  \E heir \in IF Exists(st, old) THEN Heirs(st[old], p) ELSE {NoPlayer} :
    LET mid == IF Exists(st, old)
                 THEN LeaveWith(p, old, st, inbox, heir)
                 ELSE [obj |-> obj, stg |-> st, inbox |-> inbox]
    IN  \/ /\ Valid(mid.stg[s], p)
           /\ obj' = [mid.obj EXCEPT ![p] = [@ EXCEPT !.stage = s, !.place = "STAGE",
                                                      !.ready = FALSE]]
           /\ stg' = [mid.stg EXCEPT ![s] = Added(@, p)]
           /\ inbox' = Notify(mid.inbox, {p}, [kind |-> kind, stage |-> s])
        \/ /\ MayRefuse(mid.stg[s], p)
           /\ obj' = mid.obj /\ stg' = mid.stg /\ inbox' = mid.inbox

-----------------------------------------------------------------------------
(* Connections.                                                            *)

Connect(p) ==
  /\ ~ Connected(p)
  /\ \A s \in Stages : p \notin stg[s].members   \* a new connection, a new MUID
  /\ obj' = [obj EXCEPT ![p] = LobbyObject]
  /\ UNCHANGED <<stg, view, inbox>>

DisconnectOnly(p) ==          \* the object is deleted and stays in its stage
  /\ Connected(p)
  /\ obj' = [obj EXCEPT ![p] = OutsideObject]
  /\ view' = [view EXCEPT ![p] = NoStage]
  /\ inbox' = [inbox EXCEPT ![p] = <<>>]
  /\ UNCHANGED stg

\* MMatchServer::ObjectRemove: leave the battle and the stage the object
\* names, then delete the object.  Leaving the battle first only clears flags
\* that leaving the stage clears too.
Disconnect(p) ==
  /\ Connected(p)
  /\ LET old == obj[p].stage IN
       \E heir \in IF Exists(stg, old) THEN Heirs(stg[old], p) ELSE {NoPlayer} :
         stg' = IF Exists(stg, old) THEN [stg EXCEPT ![old] = Removed(@, p, heir)] ELSE stg
  /\ obj' = [obj EXCEPT ![p] = OutsideObject]
  /\ view' = [view EXCEPT ![p] = NoStage]
  /\ inbox' = [inbox EXCEPT ![p] = <<>>]

-----------------------------------------------------------------------------
(* Requests to move.  The client asks from the lobby, and locks its window *)
(* until the answer to a join or a creation, but not to a StageFollow.     *)

MayAskToMove(p) ==
  /\ Connected(p)
  /\ view[p] = NoStage
  /\ \A i \in DOMAIN inbox[p] : inbox[p][i].kind # "joined"
  /\ HasRoom(p, 3)

CreateStage(p, s) ==
  /\ MayAskToMove(p)
  /\ stg[s].state = "NONE"
  /\ \A q \in Players : obj[q].stage # s /\ ~ Mentions(q, s)  \* a fresh MUID
  /\ StageJoin(p, s, [stg EXCEPT ![s] = NewStage], "joined")
  /\ UNCHANGED view

JoinStage(p, s) ==
  /\ MayAskToMove(p)
  /\ Exists(stg, s)
  /\ StageJoin(p, s, stg, "joined")
  /\ UNCHANGED view

FollowPlayer(p, q) ==
  /\ MayAskToMove(p)
  /\ p # q /\ Connected(q) /\ q \notin Admins
  /\ obj[p].place = "LOBBY"                       \* CheckEnableAction
  /\ Exists(stg, obj[q].stage)
  /\ StageJoin(p, obj[q].stage, stg, "followed")
  /\ UNCHANGED view

\* The client locks the way out while its player is ready, and leaves a battle
\* before the stage.
LeaveStage(p) ==
  /\ Exists(stg, view[p])
  /\ obj[p].place # "BATTLE" /\ ~ obj[p].ready
  /\ StageLeave(p, view[p])
  /\ UNCHANGED view

-----------------------------------------------------------------------------
(* The client handles its notices.                                         *)

ReceiveNotice(p) ==
  /\ inbox[p] # <<>>
  /\ Head(inbox[p]).kind # "launch"
  /\ view' = [view EXCEPT ![p] = IF Head(inbox[p]).kind = "left" THEN NoStage
                                 ELSE Head(inbox[p]).stage]
  /\ inbox' = [inbox EXCEPT ![p] = Tail(@)]
  /\ UNCHANGED <<obj, stg>>

\* The client of a launched (or force-entering) player loads the map and
\* requests to enter the battle of its m_uidStage, unless it is in the game
\* already.  StageEnterBattle does not ask whether that is the player's stage.
EnterBattle(p) ==
  /\ inbox[p] # <<>>
  /\ Head(inbox[p]) = Launch
  /\ inbox' = [inbox EXCEPT ![p] = Tail(@)]
  /\ obj' = IF obj[p].place # "BATTLE" /\ Exists(stg, view[p])
              THEN [obj EXCEPT ![p] = [@ EXCEPT !.place = "BATTLE", !.battle = TRUE]]
              ELSE obj
  /\ UNCHANGED <<stg, view>>

-----------------------------------------------------------------------------
(* Requests about the stage the client believes to be in.                  *)

LeaveBattle(p) ==
  /\ Exists(stg, view[p])
  /\ obj[p].place = "BATTLE"
  /\ obj' = [obj EXCEPT ![p] = [@ EXCEPT !.place = "STAGE", !.battle = FALSE,
                                         !.ready = FALSE, !.launched = FALSE]]
  /\ UNCHANGED <<stg, view, inbox>>

SetReady(p) ==
  /\ Exists(stg, view[p])
  /\ p \in stg[view[p]].members
  /\ obj[p].place # "BATTLE"                      \* the window is not shown
  /\ \E r \in BOOLEAN : obj' = [obj EXCEPT ![p].ready = r]
  /\ UNCHANGED <<stg, view, inbox>>

\* The client offers it while a game is on, and locks its window until the
\* answer.  The server does not ask for either.  The flag m_bForcedEntried it
\* sets only tells the rule how to spawn the player, and is left out.
RequestForcedEntry(p) ==
  /\ Exists(stg, view[p])
  /\ stg[view[p]].state \in {"COUNTDOWN", "RUN"}
  /\ obj[p].place # "BATTLE"
  /\ \A i \in DOMAIN inbox[p] : inbox[p][i] # Launch
  /\ HasRoom(p, 2)
  /\ inbox' = Notify(inbox, {p}, Launch)
  /\ UNCHANGED <<obj, stg, view>>

HiddenAdmin(p) == p \in Hidden
AllReady(g) == \A q \in g.members \ {g.master} : obj[q].ready \/ HiddenAdmin(q)

\* MMatchServer::OnStageStart and MMatchStage::StartGame.  The state of the
\* stage is not asked: a master can start again what runs already.
StartGame(p) ==
  /\ Exists(stg, view[p])
  /\ LET g == stg[view[p]]
     IN  /\ g.master = p
         /\ Countable(g) <= g.max
         /\ AllReady(g) \/ HiddenAdmin(p)
         /\ obj' = [q \in Players |-> IF q \in g.members
                                        THEN [obj[q] EXCEPT !.launched = TRUE]
                                        ELSE obj[q]]
         /\ stg' = [stg EXCEPT ![view[p]].state = "COUNTDOWN"]
  /\ UNCHANGED <<view, inbox>>

\* /kick of the master, refused for a player in the battle.
StageKick(p, q) ==
  /\ Exists(stg, view[p])
  /\ stg[view[p]].master = p
  /\ q \in stg[view[p]].members
  /\ obj[q].place # "BATTLE"
  /\ StageLeave(q, view[p])
  /\ UNCHANGED view

\* MMatchStage::KickBanPlayer, by a vote that passed (with a ban) or by the
\* command of an admin in the stage (without).
KickPlayer(s, q) ==
  /\ q \in stg[s].members
  /\ \E ban \in BOOLEAN, heir \in Heirs(stg[s], q) :
       /\ ban \/ \E a \in Admins : obj[a].stage = s
       /\ LET g == IF ban THEN [stg[s] EXCEPT !.banned = @ \cup {q}] ELSE stg[s]
              after == LeaveWith(q, s, [stg EXCEPT ![s] = g], inbox, heir)
          IN  obj' = after.obj /\ stg' = after.stg /\ inbox' = after.inbox
  /\ UNCHANGED view

ChangeMaster(p) ==
  /\ p \in Admins
  /\ Exists(stg, obj[p].stage)
  /\ stg' = [stg EXCEPT ![obj[p].stage].master = p]
  /\ UNCHANGED <<obj, view, inbox>>

\* OnStageSetting: the master's, or any admin's, and it may set a maximum
\* below the number of players.
ChangeSetting(p) ==
  /\ Exists(stg, view[p])
  /\ stg[view[p]].state = "STANDBY"
  /\ p = stg[view[p]].master \/ p \in Admins
  /\ \E n \in Capacities : stg' = [stg EXCEPT ![view[p]].max = n]
  /\ UNCHANGED <<obj, view, inbox>>

-----------------------------------------------------------------------------
(* MMatchServer::OnRun for one stage: MMatchStage::Tick, then StageRemove  *)
(* if that left it closed.                                                 *)

TickStatesCancelled(g) ==     \* a countdown is called off, the launched are not told
  IF g.members = {} \/ g.state = "CLOSE" THEN {"CLOSE"}
  ELSE IF g.state = "STANDBY" THEN {"STANDBY"} ELSE {"RUN", "STANDBY"}

\* The states a tick can end in: a countdown starts the game, the rule of a
\* running game may end it, and an empty stage is closed whatever it does.
TickStates(g) ==
  IF g.members = {} \/ g.state = "CLOSE" THEN {"CLOSE"}
  ELSE CASE g.state = "STANDBY" -> {"STANDBY"}
         [] g.state = "COUNTDOWN" -> {"RUN"}
         [] g.state = "RUN" -> {"RUN", "STANDBY"}

Tick(s) ==
  /\ Exists(stg, s)
  /\ LET g == stg[s] IN
     \E state \in TickStates(g) :
       /\ \A q \in g.members : g.state = "COUNTDOWN" => HasRoom(q, 1)
       /\ stg' = [stg EXCEPT ![s] = IF state = "CLOSE" THEN NoneStage
                                    ELSE [g EXCEPT !.state = state]]
       /\ obj' = [q \in Players |->
                    IF q \notin g.members THEN obj[q]
                    ELSE IF state = "CLOSE" THEN LobbyObject  \* Destroy
                    ELSE IF g.state = "RUN" /\ state = "STANDBY"
                    THEN [obj[q] EXCEPT !.ready = FALSE]      \* OnFinishGame
                    ELSE obj[q]]
       /\ inbox' = IF g.state = "COUNTDOWN" /\ state = "RUN"  \* OnStartGame
                     THEN Notify(inbox, g.members, Launch) ELSE inbox
  /\ UNCHANGED view

-----------------------------------------------------------------------------
Init ==
  /\ obj = [p \in Players |-> OutsideObject]
  /\ stg = [s \in Stages |-> NoneStage]
  /\ view = [p \in Players |-> NoStage]
  /\ inbox = [p \in Players |-> <<>>]

\* A handler that meets a deleted object in m_ObjUIDCaches reads freed memory:
\* nothing is said of what follows.
NoDeadMember == \A s \in Stages : \A p \in stg[s].members : Connected(p)

PlayerStep(p) ==
  \/ Connect(p) \/ Disconnect(p)
  \/ \E s \in Stages : CreateStage(p, s) \/ JoinStage(p, s)
  \/ \E q \in Players : FollowPlayer(p, q) \/ StageKick(p, q)
  \/ LeaveStage(p) \/ LeaveBattle(p) \/ SetReady(p) \/ RequestForcedEntry(p)
  \/ StartGame(p) \/ ChangeMaster(p) \/ ChangeSetting(p)

ClientStep(p) == ReceiveNotice(p) \/ EnterBattle(p)

Next ==
  /\ NoDeadMember
  /\ \/ \E p \in Players : PlayerStep(p) \/ ClientStep(p)
     \/ \E s \in Stages : Tick(s) \/ \E q \in Players : KickPlayer(s, q)

Spec == Init /\ [][Next]_vars

\* OnRun ticks every stage of the map each time round, and the client handles
\* its commands in every frame.
Fairness == /\ \A s \in Stages : WF_vars(Tick(s))
            /\ \A p \in Players : WF_vars(ClientStep(p))

FairSpec == Spec /\ Fairness

-----------------------------------------------------------------------------
(* Properties.                                                             *)

TypeOK ==
  /\ obj \in [Players -> Objects]
  /\ stg \in [Stages -> StageRecords]
  /\ view \in [Players -> Stages \cup {NoStage}]
  /\ inbox \in [Players -> Seq(Notices)]

\* There are two records of who is where: the objects of a stage
\* (m_ObjUIDCaches), and the stage a player's object names (GetStageUID).  They
\* may disagree, but whom an object names the stage of, that stage lists.
NamedStageLists ==
  \A p \in Players, s \in Stages : obj[p].stage = s => p \in stg[s].members

\* A stage goes on listing a player whose object stops naming it only for a
\* player of two stages: one whose client speaks of another stage, as it may
\* after a StageFollow and a join that overlap, or whom another lists as well.
\* (A player so listed who is disconnected stays listed: see NoDeadMember.)
StrayedBetweenStages ==
  [][\A p \in Players, s \in Stages :
       obj[p].stage = s /\ obj'[p].stage # s /\ p \in stg'[s].members
         => \E t \in Stages \ {s} : view[p] = t \/ p \in stg[t].members]_vars

\* A stage with players has one of them as master, so that somebody can start
\* its game, whoever left, was kicked or was disconnected, in any order.
MasterIsMember ==
  \A s \in Stages : stg[s].members # {} => stg[s].master \in stg[s].members

\* A player banned from a stage by a vote is not in it until it is gone.
BannedStayOut ==
  \A s \in Stages : stg[s].banned \cap stg[s].members \subseteq Admins

\* m_nAdminObjectCount, which is subtracted from the number of objects, does not
\* exceed the number of admins in the stage.
AdminsCounted(g) == g.admins <= Cardinality(g.members \cap Admins)

\* It gets too high in one way only: an admin enters a stage that lists him while
\* his object names none or another, and is counted twice.
MiscountedOnlyOnReentry ==
  [][\A s \in Stages : AdminsCounted(stg[s]) /\ ~ AdminsCounted(stg'[s])
       => \E p \in Admins \cap stg[s].members :
            obj[p].stage # s /\ obj'[p].stage = s]_vars

\* OnRun only destroys a stage that nobody is in.
RemovedOnlyEmpty ==
  [][\A s \in Stages : Exists(stg, s) /\ ~ Exists(stg', s) => stg[s].members = {}]_vars

\* As long as its admins are counted right a stage takes in nobody who is not an
\* admin beyond its maximum of such players, whatever joins, leaves and kicks
\* the count went through before.
CapacityRespected ==
  [][\A s \in Stages :
       AdminsCounted(stg[s]) /\ ~ (stg'[s].members \ stg[s].members \subseteq Admins)
         => Cardinality(stg'[s].members \ Admins) <= stg'[s].max]_vars

\* A master who stays in the stage loses it only to an admin, or by joining the
\* stage he is in: StageJoin makes him leave it first, and tells him so.
MasterKeepsStage ==
  [][\A s \in Stages :
       LET m == stg[s].master IN
       m \in stg[s].members \cap stg'[s].members
         => \/ stg'[s].master \in {m} \cup Admins
            \/ \E i \in DOMAIN inbox'[m] \ DOMAIN inbox[m] : inbox'[m][i] = Left(s)]_vars

\* A player launched with the game of the one stage that lists him reaches the
\* battle or is let go: the round of CheckBattleEntry, which waits for all the
\* launched, is not kept waiting by one who was never told to come.
LaunchedEnters ==
  \A p \in Players :
    obj[p].launched /\ (\A s \in Stages : p \in stg[s].members => obj[p].stage = s)
      ~> obj[p].place = "BATTLE" \/ ~ obj[p].launched
=============================================================================
