-------------------------- MODULE StageStepProofs --------------------------
(***************************************************************************)
(* Proofs about what one step may do to one stage: the count of admins     *)
(* gets too high in one way only, capacity is respected while it is right, *)
(* a master loses the stage to admins only or by joining it again, and a   *)
(* stage goes on listing a player whose object leaves it only for a player *)
(* of two stages.                                                          *)
(*                                                                         *)
(* Every step leaves a stage as one of a few moves does (Moves).  Two of   *)
(* them enter a stage: Enters, by a player whose object does not name it   *)
(* but whom it may list, and Reenters, by a player who leaves it first.    *)
(***************************************************************************)
EXTENDS StageProofs, FiniteSetTheorems

\* Its state or maximum changes; an admin takes it; a player p leaves it, and may
\* be banned; a player p joins it.
Rests(g, h) ==
  /\ h.members = g.members /\ h.master = g.master /\ h.admins = g.admins
Crowns(g, h) == \E p \in Admins : h = [g EXCEPT !.master = p]
Loses(g, h, p) ==
  \E banned \in {g.banned, g.banned \cup {p}}, heir \in Heirs(g, p) :
    h = Removed([g EXCEPT !.banned = banned], p, heir)
Gains(g, h, p) == Valid(g, p) /\ h = Added(g, p)

\* A stage may also be made, with its first player or with nobody, or removed
\* when it is empty.
Made(g, h) ==
  g.members = {} /\ (h = NewStage \/ \E p \in Players : Gains(NewStage, h, p))
Dies(g, h) == g.members = {} /\ h = NoneStage

\* A player whose object names another stage or none joins it; one whose object
\* names it leaves it, is told so, and joins it again.
Enters(s, h) ==
  \E p \in Players : /\ obj[p].stage # s /\ obj'[p].stage = s
                     /\ Gains(stg[s], h, p)
Reenters(s, h) ==
  \E p \in Players, mid \in StageRecords :
    /\ p \in stg[s].members
    /\ Loses(stg[s], mid, p) /\ Gains(mid, h, p)
    /\ \E i \in DOMAIN inbox'[p] \ DOMAIN inbox[p] : inbox'[p][i] = Left(s)

MovesTo(s, h) ==
  \/ Rests(stg[s], h) \/ Crowns(stg[s], h) \/ Made(stg[s], h) \/ Dies(stg[s], h)
  \/ \E p \in Players : Loses(stg[s], h, p)
  \/ Enters(s, h) \/ Reenters(s, h)
Moves == \A s \in Stages : MovesTo(s, stg'[s])

-----------------------------------------------------------------------------
(* Every step moves every stage so.                                        *)

LEMMA OneStageMoves ==
  ASSUME HalfInv, NEW s \in Stages, NEW h, stg' = [stg EXCEPT ![s] = h], MovesTo(s, h)
  PROVE  Moves
BY DEF HalfInv, Half, Moves, MovesTo, Rests

LEMMA NoStageMoves ==
  ASSUME stg' = stg
  PROVE  Moves
BY DEF Moves, MovesTo, Rests

LEMMA RemovedLoses ==
  ASSUME NEW g \in StageRecords, NEW p \in Players, NEW heir \in Heirs(g, p)
  PROVE  Loses(g, Removed(g, p, heir), p)
<1>1. [g EXCEPT !.banned = g.banned] = g
  BY DEF StageRecords
<1> QED BY <1>1 DEF Loses

LEMMA LeaveMoves ==
  ASSUME HalfInv, NEW s \in Stages, NEW p \in Players, NEW heir \in Heirs(stg[s], p),
         NEW after, after = LeaveWith(p, s, stg, inbox, heir), stg' = after.stg
  PROVE  Moves
<1>1. stg' = [stg EXCEPT ![s] = Removed(stg[s], p, heir)] /\ stg[s] \in StageRecords
  BY DEF LeaveWith, HalfInv, Half
<1>2. MovesTo(s, Removed(stg[s], p, heir))
  BY <1>1, RemovedLoses DEF MovesTo
<1> QED BY <1>1, <1>2, OneStageMoves

LEMMA StageLeaveMoves ==
  ASSUME HalfInv, NEW s \in Stages, NEW p \in Players, StageLeave(p, s)
  PROVE  Moves
BY LeaveMoves DEF StageLeave

\* StageJoin has made p leave the stage old of the table st, which lists p, and
\* told p so; the other stages are as they were.
HasLeft(mid, p, old, st) ==
  /\ mid.stg = [st EXCEPT ![old] = mid.stg[old]]
  /\ mid.stg[old] \in StageRecords
  /\ Loses(stg[old], mid.stg[old], p)
  /\ p \in stg[old].members
  /\ mid.inbox[p] = Append(inbox[p], Left(old))

LEMMA LeavesOld ==
  ASSUME HalfInv, NEW p \in Players, NEW old \in Stages, obj[p].stage = old,
         NEW st \in [Stages -> StageRecords], st[old] = stg[old],
         NEW heir \in Heirs(st[old], p),
         NEW mid, mid = LeaveWith(p, old, st, inbox, heir)
  PROVE  HasLeft(mid, p, old, st)
<1>1. p \in stg[old].members /\ Whole(stg[old]) /\ stg[old] \in StageRecords
  BY DEF HalfInv, Half, Listed
<1>2. mid.stg = [st EXCEPT ![old] = Removed(st[old], p, heir)]
  BY DEF LeaveWith
<1>3. WholeBut(stg[old], {p})
  BY <1>1 DEF Whole, WholeBut
<1>4. Removed(stg[old], p, heir) \in StageRecords
  BY <1>1, <1>3, RemovedWhole
<1>5. mid.stg[old] = Removed(stg[old], p, heir)
  BY <1>2
<1>6. mid.inbox[p] = Append(inbox[p], Left(old))
  BY <1>1 DEF LeaveWith, Notify
<1> QED BY <1>1, <1>2, <1>4, <1>5, <1>6, RemovedLoses DEF HasLeft

\* The table StageJoin starts from: the server's, or with a new stage s in it
\* that no object names.
StartsFrom(st, p, s) ==
  /\ Half(obj, st)
  /\ \A t \in Stages \ {s} : st[t] = stg[t]
  /\ \/ st[s] = stg[s]
     \/ st[s] = NewStage /\ stg[s].members = {} /\ obj[p].stage # s

LEMMA StartMoves ==
  ASSUME NEW p \in Players, NEW s \in Stages, NEW st, StartsFrom(st, p, s)
  PROVE  /\ MovesTo(s, st[s])
         /\ obj[p].stage # s /\ obj'[p].stage = s /\ Valid(st[s], p)
              => MovesTo(s, Added(st[s], p))
<1>1. CASE st[s] = stg[s]
  BY <1>1 DEF MovesTo, Rests, Enters, Gains
<1>2. CASE st[s] = NewStage /\ stg[s].members = {}
  BY <1>2 DEF MovesTo, Made, Gains
<1> QED BY <1>1, <1>2 DEF StartsFrom

\* A player joins the stage s of that table.
LEMMA JoinMoves ==
  ASSUME HalfInv, NEW p \in Players, NEW s \in Stages, NEW st, StartsFrom(st, p, s),
         NEW kind \in {"joined", "followed"}, StageJoin(p, s, st, kind)
  PROVE  Moves
<1>0. PICK old : old = obj[p].stage
  OBVIOUS
<1> DEFINE note == [kind |-> kind, stage |-> s]
           Mid(heir) == IF Exists(st, old)
                          THEN LeaveWith(p, old, st, inbox, heir)
                          ELSE [obj |-> obj, stg |-> st, inbox |-> inbox]
<1>1. PICK heir \in IF Exists(st, old) THEN Heirs(st[old], p) ELSE {NoPlayer} :
        \/ /\ Valid(Mid(heir).stg[s], p)
           /\ obj' = [Mid(heir).obj EXCEPT ![p] = [@ EXCEPT !.stage = s, !.place = "STAGE",
                                                             !.ready = FALSE]]
           /\ stg' = [Mid(heir).stg EXCEPT ![s] = Added(@, p)]
           /\ inbox' = Notify(Mid(heir).inbox, {p}, note)
        \/ /\ obj' = Mid(heir).obj
           /\ stg' = Mid(heir).stg
           /\ inbox' = Mid(heir).inbox
  BY <1>0 DEF StageJoin
<1>2. PICK mid : mid = Mid(heir)
  OBVIOUS
<1>3. /\ st \in [Stages -> StageRecords] /\ Half(obj, st)
      /\ \A t \in Stages \ {s} : st[t] = stg[t]
      /\ obj[p].stage = s => st[s] = stg[s]
      /\ inbox[p] \in Seq(Notices) /\ old \in Stages \cup {NoStage}
  BY <1>0 DEF HalfInv, Half, Objects, StartsFrom
<1>4. Departs(mid, p, st)
  BY ONLY HalfInv, p \in Players, <1>3,
     heir \in IF Exists(st, old) THEN Heirs(st[old], p) ELSE {NoPlayer},
     <1>0, <1>2, JoinDeparts, Zenon
<1>5. mid.obj \in [Players -> Objects] /\ mid.inbox \in [Players -> Seq(Notices)]
  BY <1>4 DEF Departs, Half
<1>6. note \in Notices
  BY DEF Notices
<1> HIDE DEF note
<1>7. \/ /\ Valid(mid.stg[s], p)
         /\ obj'[p].stage = s
         /\ stg' = [mid.stg EXCEPT ![s] = Added(@, p)]
         /\ inbox'[p] = Append(mid.inbox[p], note)
      \/ stg' = mid.stg
  <2>1. CASE stg' = Mid(heir).stg
    BY <1>2, <2>1
  <2>2. CASE /\ Valid(Mid(heir).stg[s], p)
             /\ obj' = [Mid(heir).obj EXCEPT ![p] = [@ EXCEPT !.stage = s, !.place = "STAGE",
                                                               !.ready = FALSE]]
             /\ stg' = [Mid(heir).stg EXCEPT ![s] = Added(@, p)]
             /\ inbox' = Notify(Mid(heir).inbox, {p}, note)
    <3> HIDE DEF Mid
    <3>1. obj' = [mid.obj EXCEPT ![p] = [@ EXCEPT !.stage = s, !.place = "STAGE",
                                                  !.ready = FALSE]]
      BY <1>2, <2>2
    <3>2. obj'[p].stage = s
      BY <1>5, <3>1 DEF Objects
    <3>3. inbox'[p] = Append(mid.inbox[p], note)
      BY <1>2, <2>2 DEF Notify
    <3> QED BY <1>2, <2>2, <3>2, <3>3
  <2> QED BY <1>1, <2>1, <2>2
<1>8. MovesTo(s, st[s]) /\ \A t \in Stages \ {s} : MovesTo(t, st[t])
  BY <1>3, StartMoves DEF MovesTo, Rests
<1>9. CASE Exists(st, old)
  <2>1. old \in Stages /\ heir \in Heirs(st[old], p) /\ mid = LeaveWith(p, old, st, inbox, heir)
    BY <1>1, <1>2, <1>3, <1>9 DEF Exists
  <2> HIDE DEF Mid
  <2>2. /\ mid.stg = [st EXCEPT ![old] = mid.stg[old]]
        /\ mid.stg[old] \in StageRecords
        /\ Loses(stg[old], mid.stg[old], p)
        /\ p \in stg[old].members
        /\ mid.inbox[p] = Append(inbox[p], Left(old))
    <3>1. obj[p].stage = old /\ st[old] = stg[old]
      BY <1>0, <1>3, <2>1
    <3>2. HasLeft(mid, p, old, st)
      BY ONLY HalfInv, p \in Players, <1>3, <2>1, <3>1, LeavesOld, Zenon
    <3> QED BY <3>2 DEF HasLeft
  <2>3. MovesTo(old, mid.stg[old])
    BY <2>2 DEF MovesTo
  <2>4. CASE stg' = mid.stg
    BY <1>3, <1>8, <2>1, <2>2, <2>3, <2>4 DEF Moves
  <2>5. CASE /\ Valid(mid.stg[s], p) /\ obj'[p].stage = s
             /\ stg' = [mid.stg EXCEPT ![s] = Added(@, p)]
             /\ inbox'[p] = Append(mid.inbox[p], note)
    <3>1. CASE s = old
      <4>1. Gains(mid.stg[s], Added(mid.stg[s], p), p)
        BY <2>5 DEF Gains
      <4>2. stg'[s] = Added(mid.stg[s], p) /\ \A t \in Stages \ {s} : stg'[t] = st[t]
        BY <1>3, <2>2, <2>5, <3>1
      <4>3. \E i \in DOMAIN inbox'[p] \ DOMAIN inbox[p] : inbox'[p][i] = Left(s)
        <5>1. inbox'[p] = Append(Append(inbox[p], Left(s)), note)
          BY <2>2, <2>5, <3>1
        <5>2. Left(s) \in Notices
          BY ObjectTypes
        <5>3. /\ Len(inbox[p]) + 1 \in DOMAIN inbox'[p] \ DOMAIN inbox[p]
              /\ inbox'[p][Len(inbox[p]) + 1] = Left(s)
          BY <1>3, <1>6, <5>1, <5>2
        <5> QED BY <5>3
      <4>4. Reenters(s, Added(mid.stg[s], p))
        BY <2>2, <3>1, <4>1, <4>3 DEF Reenters
      <4> QED BY <1>8, <4>2, <4>4 DEF Moves, MovesTo
    <3>2. CASE s # old
      <4>1. mid.stg[s] = st[s]
        BY <1>3, <2>2, <3>2
      <4>2. MovesTo(s, Added(st[s], p))
        BY <1>0, <2>5, <3>2, <4>1, StartMoves
      <4>3. /\ stg'[s] = Added(st[s], p) /\ stg'[old] = mid.stg[old]
            /\ \A t \in Stages \ {s, old} : stg'[t] = st[t]
        BY <1>3, <2>1, <2>2, <2>5, <3>2, <4>1
      <4> QED BY <1>8, <2>3, <4>2, <4>3 DEF Moves
    <3> QED BY <3>1, <3>2
  <2> QED BY <1>7, <2>4, <2>5
<1>10. CASE ~ Exists(st, old)
  <2>1. mid.stg = st
    BY <1>2, <1>10
  <2> HIDE DEF Mid
  <2>2. CASE stg' = mid.stg
    BY <1>8, <2>1, <2>2 DEF Moves
  <2>3. CASE /\ Valid(mid.stg[s], p) /\ obj'[p].stage = s
             /\ stg' = [mid.stg EXCEPT ![s] = Added(@, p)]
    <3>1. stg'[s] = Added(st[s], p) /\ \A t \in Stages \ {s} : stg'[t] = st[t]
      BY <1>3, <2>1, <2>3
    <3>2. CASE s # old
      <4>1. MovesTo(s, Added(st[s], p))
        BY <1>0, <2>1, <2>3, <3>2, StartMoves
      <4> QED BY <1>8, <3>1, <4>1 DEF Moves
    <3>3. CASE s = old
      <4>1. st[s].state = "NONE" /\ p \in st[s].members
        BY <1>0, <1>3, <1>10, <3>3, StagesAssumption DEF Exists, Half, Listed
      <4> QED BY <1>3, <4>1 DEF Half, Whole, WholeBut
    <3> QED BY <3>2, <3>3
  <2> QED BY <1>7, <2>2, <2>3
<1> QED BY <1>9, <1>10

LEMMA StepMoves ==
  ASSUME HalfInv, Next
  PROVE  Moves
<1>0. /\ obj \in [Players -> Objects] /\ stg \in [Stages -> StageRecords]
      /\ view \in [Players -> Stages \cup {NoStage}]
      /\ Half(obj, stg) /\ \A s \in Stages : Whole(stg[s])
  BY DEF HalfInv, Half
<1>1. ASSUME NEW p \in Players, PlayerStep(p)
      PROVE  Moves
  <2>1. CASE Disconnect(p)
    <3>1. CASE Exists(stg, obj[p].stage)
      <4>0. PICK s : s = obj[p].stage
        OBVIOUS
      <4>1. s \in Stages /\ \E heir \in Heirs(stg[s], p) :
              stg' = [stg EXCEPT ![s] = Removed(@, p, heir)]
        BY <1>0, <2>1, <3>1, <4>0 DEF Disconnect, Exists, Objects
      <4>2. \E heir \in Heirs(stg[s], p) :
              stg' = LeaveWith(p, s, stg, inbox, heir).stg
        BY <4>1 DEF LeaveWith
      <4> QED BY <4>1, <4>2, LeaveMoves
    <3>2. CASE ~ Exists(stg, obj[p].stage)
      BY <2>1, <3>2, NoStageMoves DEF Disconnect
    <3> QED BY <3>1, <3>2
  <2>2. ASSUME NEW s \in Stages, CreateStage(p, s)
        PROVE  Moves
    <3>1. PICK st : st = [stg EXCEPT ![s] = NewStage]
      OBVIOUS
    <3>2. /\ stg[s].state = "NONE" /\ \A q \in Players : obj[q].stage # s
          /\ StageJoin(p, s, st, "joined")
      BY <2>2, <3>1 DEF CreateStage
    <3>3. NewStage \in StageRecords /\ Whole(NewStage) /\ stg[s].members = {}
      BY <1>0, <3>2, ObjectTypes, NewWhole DEF Whole, WholeBut
    <3>4. StartsFrom(st, p, s)
      BY <1>0, <3>1, <3>2, <3>3 DEF StartsFrom, Half, Listed
    <3> QED BY <3>2, <3>4, JoinMoves
  <2>3. ASSUME NEW s \in Stages, StageJoin(p, s, stg, "joined") \/ StageJoin(p, s, stg, "followed")
        PROVE  Moves
    BY <1>0, <2>3, JoinMoves DEF StartsFrom
  <2>4. ASSUME NEW q \in Players, FollowPlayer(p, q)
        PROVE  Moves
    <3>1. PICK s : s = obj[q].stage
      OBVIOUS
    <3>2. s \in Stages /\ StageJoin(p, s, stg, "followed")
      BY <1>0, <2>4, <3>1 DEF FollowPlayer, Exists, Objects
    <3> QED BY <2>3, <3>2
  <2>5. ASSUME NEW q \in Players, StageKick(p, q)
        PROVE  Moves
    <3>1. view[p] \in Stages /\ StageLeave(q, view[p])
      BY <1>0, <2>5 DEF StageKick, Exists
    <3> QED BY <3>1, StageLeaveMoves
  <2>6. CASE LeaveStage(p)
    <3>1. view[p] \in Stages /\ StageLeave(p, view[p])
      BY <1>0, <2>6 DEF LeaveStage, Exists
    <3> QED BY <3>1, StageLeaveMoves
  <2>7. CASE StartGame(p)
    <3>1. view[p] \in Stages /\ stg' = [stg EXCEPT ![view[p]].state = "COUNTDOWN"]
      BY <1>0, <2>7 DEF StartGame, Exists
    <3>2. Rests(stg[view[p]], [stg[view[p]] EXCEPT !.state = "COUNTDOWN"])
      BY <1>0, <3>1 DEF Rests, StageRecords
    <3> QED BY <3>1, <3>2, OneStageMoves DEF MovesTo
  <2>8. CASE ChangeMaster(p)
    <3>1. /\ obj[p].stage \in Stages /\ p \in Admins
          /\ stg' = [stg EXCEPT ![obj[p].stage].master = p]
      BY <1>0, <2>8 DEF ChangeMaster, Exists, Objects
    <3>2. Crowns(stg[obj[p].stage], [stg[obj[p].stage] EXCEPT !.master = p])
      BY <3>1 DEF Crowns
    <3> QED BY <3>1, <3>2, OneStageMoves DEF MovesTo
  <2>9. CASE ChangeSetting(p)
    <3>1. PICK n \in Capacities : /\ view[p] \in Stages
                                  /\ stg' = [stg EXCEPT ![view[p]].max = n]
      BY <1>0, <2>9 DEF ChangeSetting, Exists
    <3>2. Rests(stg[view[p]], [stg[view[p]] EXCEPT !.max = n])
      BY <1>0, <3>1 DEF Rests, StageRecords
    <3> QED BY <3>1, <3>2, OneStageMoves DEF MovesTo
  <2>10. CASE Connect(p) \/ LeaveBattle(p) \/ SetReady(p) \/ RequestForcedEntry(p)
    BY <2>10, NoStageMoves DEF Connect, LeaveBattle, SetReady, RequestForcedEntry
  <2> QED BY <1>1, <2>1, <2>2, <2>3, <2>4, <2>5, <2>6, <2>7, <2>8, <2>9, <2>10
          DEF PlayerStep, JoinStage
<1>2. ASSUME NEW p \in Players, ClientStep(p)
      PROVE  Moves
  BY <1>2, NoStageMoves DEF ClientStep, ReceiveNotice, EnterBattle
<1>3. ASSUME NEW s \in Stages, Tick(s)
      PROVE  Moves
  <2>1. PICK state \in TickStates(stg[s]) :
          stg' = [stg EXCEPT ![s] = IF state = "CLOSE" THEN NoneStage
                                    ELSE [stg[s] EXCEPT !.state = state]]
    BY <1>3 DEF Tick
  <2>2. CASE state = "CLOSE"
    <3>1. stg[s].members = {}
      <4>1. CASE stg[s].state = "CLOSE"
        BY <1>0, <4>1 DEF Whole, WholeBut
      <4>2. CASE stg[s].members # {} /\ stg[s].state # "CLOSE"
        <5>1. stg[s].state \in {"STANDBY", "COUNTDOWN", "RUN"}
          BY <1>0, <1>3, <4>2 DEF Tick, Exists, StageRecords, StageStates
        <5>2. state \in {"STANDBY", "RUN"}
          BY <2>1, <4>2, <5>1 DEF TickStates
        <5> QED BY <2>2, <5>2
      <4> QED BY <4>1, <4>2
    <3>2. Dies(stg[s], NoneStage)
      BY <3>1 DEF Dies
    <3> QED BY <2>1, <2>2, <3>2, OneStageMoves DEF MovesTo
  <2>3. CASE state # "CLOSE"
    <3>1. Rests(stg[s], [stg[s] EXCEPT !.state = state])
      BY <1>0 DEF Rests, StageRecords
    <3> QED BY <2>1, <2>3, <3>1, OneStageMoves DEF MovesTo
  <2> QED BY <2>2, <2>3
<1>4. ASSUME NEW s \in Stages, NEW q \in Players, KickPlayer(s, q)
      PROVE  Moves
  <2>1. PICK ban \in BOOLEAN, heir \in Heirs(stg[s], q) :
          LET g == IF ban THEN [stg[s] EXCEPT !.banned = @ \cup {q}] ELSE stg[s]
          IN  stg' = LeaveWith(q, s, [stg EXCEPT ![s] = g], inbox, heir).stg
    BY <1>4 DEF KickPlayer
  <2>2. PICK g : g = IF ban THEN [stg[s] EXCEPT !.banned = @ \cup {q}] ELSE stg[s]
    OBVIOUS
  <2>3. stg' = [stg EXCEPT ![s] = Removed(g, q, heir)]
    <3>1. stg' = [[stg EXCEPT ![s] = g] EXCEPT ![s] = Removed(@, q, heir)]
      BY <2>1, <2>2 DEF LeaveWith
    <3>2. [stg EXCEPT ![s] = g][s] = g
      BY <1>0
    <3> QED BY <1>0, <3>1, <3>2
  <2>4. [stg[s] EXCEPT !.banned = stg[s].banned] = stg[s]
    BY <1>0 DEF StageRecords
  <2>5. Loses(stg[s], Removed(g, q, heir), q)
    BY <2>2, <2>4 DEF Loses
  <2> QED BY <2>3, <2>5, OneStageMoves DEF MovesTo
<1> QED BY <1>1, <1>2, <1>3, <1>4 DEF Next

-----------------------------------------------------------------------------
(* What every move keeps, and what it never does.                          *)

LEMMA FewAdmins ==
  ASSUME NEW g \in StageRecords
  PROVE  /\ IsFiniteSet(g.members) /\ IsFiniteSet(g.members \cap Admins)
         /\ Cardinality(g.members) \in Nat /\ Cardinality(g.members \cap Admins) \in Nat
         /\ g.admins \in Nat
<1>1. g.members \subseteq Players /\ g.admins \in Nat
  BY DEF StageRecords
<1>2. IsFiniteSet(g.members) /\ IsFiniteSet(g.members \cap Admins)
  BY <1>1, PlayersAssumption, FS_Subset
<1> QED BY <1>1, <1>2, FS_CardinalityType

LEMMA NewCounted == AdminsCounted(NewStage) /\ AdminsCounted(NoneStage)
<1>1. NewStage.members \cap Admins = {} /\ NoneStage.members \cap Admins = {}
  BY DEF NewStage, NoneStage
<1> QED BY <1>1, FS_EmptySet DEF AdminsCounted, NewStage, NoneStage

\* RemoveObject, field by field.
LEMMA LosesFields ==
  ASSUME NEW g \in StageRecords, NEW h, NEW p \in Players, Loses(g, h, p)
  PROVE  /\ h.members = g.members \ {p}
         /\ h.admins = IF p \in Admins /\ g.admins > 0 THEN g.admins - 1 ELSE g.admins
         /\ p # g.master => h.master = g.master
<1>1. PICK banned \in {g.banned, g.banned \cup {p}}, heir \in Heirs(g, p) :
        h = Removed([g EXCEPT !.banned = banned], p, heir)
  BY DEF Loses
<1>2. h.master = heir
  BY <1>1 DEF Removed, StageRecords
<1>3. p # g.master => heir = g.master
  BY DEF Heirs
<1> QED BY <1>1, <1>2, <1>3 DEF Removed, StageRecords

\* AddObject and OnEventChangeMaster, field by field.
LEMMA GainsFields ==
  ASSUME NEW g \in StageRecords, NEW h, NEW p \in Players, Gains(g, h, p)
  PROVE  /\ h.members = g.members \cup {p} /\ h.max = g.max
         /\ h.admins = IF p \in Admins THEN g.admins + 1 ELSE g.admins
         /\ h.master = IF p \in EventMasters \/ g.members \subseteq {p} THEN p ELSE g.master
BY DEF Gains, Added, StageRecords

\* RemoveObject takes an admin out of the count when it takes one out of the
\* objects, if the count is above zero: it does not stay above their number.
LEMMA LosesCounted ==
  ASSUME NEW g \in StageRecords, NEW h \in StageRecords, NEW p \in Players,
         AdminsCounted(g), Loses(g, h, p)
  PROVE  AdminsCounted(h)
<1>1. /\ h.members = g.members \ {p}
      /\ h.admins = IF p \in Admins /\ g.admins > 0 THEN g.admins - 1 ELSE g.admins
  BY LosesFields
<1>2. h.members \cap Admins = (g.members \cap Admins) \ {p}
  BY <1>1
<1>3. Cardinality(h.members \cap Admins)
        = IF p \in g.members \cap Admins THEN Cardinality(g.members \cap Admins) - 1
          ELSE Cardinality(g.members \cap Admins)
  BY <1>2, FewAdmins, FS_RemoveElement
<1>4. g.admins <= Cardinality(g.members \cap Admins)
  BY DEF AdminsCounted
<1>5. /\ Cardinality(g.members \cap Admins) \in Nat /\ g.admins \in Nat
      /\ Cardinality(h.members \cap Admins) \in Nat
  BY FewAdmins
<1> QED BY <1>1, <1>3, <1>4, <1>5 DEF AdminsCounted

\* AddObject counts an admin: twice, if the admin is one of the objects.
LEMMA GainsCounted ==
  ASSUME NEW g \in StageRecords, NEW h \in StageRecords, NEW p \in Players,
         AdminsCounted(g), Gains(g, h, p), p \notin g.members \cap Admins
  PROVE  AdminsCounted(h)
<1>1. /\ h.members = g.members \cup {p}
      /\ h.admins = IF p \in Admins THEN g.admins + 1 ELSE g.admins
  BY GainsFields
<1>2. CASE p \in Admins
  <2>1. h.members \cap Admins = (g.members \cap Admins) \cup {p}
    BY <1>1, <1>2
  <2>2. Cardinality(h.members \cap Admins) = Cardinality(g.members \cap Admins) + 1
    BY <1>2, <2>1, FewAdmins, FS_AddElement
  <2> QED BY <1>1, <1>2, <2>2, FewAdmins DEF AdminsCounted
<1>3. CASE p \notin Admins
  <2>1. h.members \cap Admins = g.members \cap Admins
    BY <1>1, <1>3
  <2> QED BY <1>1, <1>3, <2>1 DEF AdminsCounted
<1> QED BY <1>2, <1>3

LEMMA MovesCounted ==
  ASSUME HalfInv, HalfInv', NEW s \in Stages, MovesTo(s, stg'[s]), AdminsCounted(stg[s])
  PROVE  \/ AdminsCounted(stg'[s])
         \/ \E p \in Admins \cap stg[s].members : obj[p].stage # s /\ obj'[p].stage = s
<1>1. PICK g, h : g = stg[s] /\ h = stg'[s]
  OBVIOUS
<1>2. g \in StageRecords /\ h \in StageRecords /\ AdminsCounted(g)
  BY <1>1 DEF HalfInv, Half
<1>3. CASE Rests(g, h)
  BY <1>1, <1>2, <1>3 DEF Rests, AdminsCounted
<1>4. CASE Crowns(g, h)
  BY <1>1, <1>2, <1>4 DEF Crowns, AdminsCounted, StageRecords
<1>5. CASE Made(g, h) \/ Dies(g, h)
  <2>1. ASSUME NEW p \in Players, Gains(NewStage, h, p) PROVE AdminsCounted(h)
    <3>1. NewStage \in StageRecords /\ NewStage.members = {}
      BY ObjectTypes
    <3> QED BY <1>2, <2>1, <3>1, NewCounted, GainsCounted
  <2> QED BY <1>1, <1>5, <2>1, NewCounted DEF Made, Dies
<1>6. ASSUME NEW p \in Players, Loses(g, h, p) PROVE AdminsCounted(h)
  BY <1>2, <1>6, LosesCounted
<1>7. ASSUME NEW p \in Players, obj[p].stage # s, obj'[p].stage = s, Gains(g, h, p)
      PROVE  AdminsCounted(h) \/ p \in g.members \cap Admins
  BY <1>2, <1>7, GainsCounted
<1>8. ASSUME NEW p \in Players, NEW mid \in StageRecords, Loses(g, mid, p), Gains(mid, h, p)
      PROVE  AdminsCounted(h)
  <2>1. AdminsCounted(mid) /\ p \notin mid.members
    BY <1>2, <1>8, LosesCounted, LosesFields
  <2> QED BY <1>2, <1>8, <2>1, GainsCounted
<1> QED BY <1>1, <1>3, <1>4, <1>5, <1>6, <1>7, <1>8 DEF MovesTo, Enters, Reenters

\* Every admission that GetCountableObjCount allows while the count is right leaves
\* the players who are not admins within the stage's maximum.
LEMMA GainsRoom ==
  ASSUME NEW g \in StageRecords, NEW h, NEW p \in Players, AdminsCounted(g),
         Gains(g, h, p), p \notin g.members, p \notin Admins
  PROVE  Cardinality(h.members \ Admins) <= h.max
<1>1. h.members = g.members \cup {p} /\ h.max = g.max
  BY GainsFields
<1>2. Countable(g) < g.max
  BY DEF Gains, Valid
<1>3. h.members \ Admins = (g.members \ Admins) \cup {p} /\ p \notin g.members \ Admins
  BY <1>1
<1>4. /\ IsFiniteSet(g.members \ Admins)
      /\ Cardinality(g.members \ Admins)
           = Cardinality(g.members) - Cardinality(g.members \cap Admins)
  BY FewAdmins, FS_Difference
<1>5. Cardinality(h.members \ Admins) = Cardinality(g.members \ Admins) + 1
  BY <1>3, <1>4, FS_AddElement
<1>6. g.admins <= Cardinality(g.members \cap Admins) /\ g.max \in Nat
  BY NumbersAssumption DEF AdminsCounted, StageRecords
<1>7. Cardinality(g.members \cap Admins) <= Cardinality(g.members)
  BY FewAdmins, FS_Subset
<1>8. PICK all, admins : /\ all = Cardinality(g.members)
                         /\ admins = Cardinality(g.members \cap Admins)
  OBVIOUS
<1>9. all \in Nat /\ admins \in Nat /\ g.admins \in Nat /\ g.admins <= admins /\ admins <= all
  BY <1>6, <1>7, <1>8, FewAdmins
<1>10. all - g.admins < g.max
  BY <1>2, <1>8, <1>9 DEF Countable
<1>11. Cardinality(h.members \ Admins) = all - admins + 1
  BY <1>4, <1>5, <1>8
<1> QED BY <1>1, <1>6, <1>9, <1>10, <1>11

-----------------------------------------------------------------------------
(* Who is listed by a stage that the object has left.                      *)

Strays(p, s) == obj[p].stage = s /\ obj'[p].stage # s /\ p \in stg'[s].members
OfTwo(p, s) == \E t \in Stages \ {s} : view[p] = t \/ p \in stg[t].members
StraysOnlyOfTwo == \A p \in Players, s \in Stages : Strays(p, s) => OfTwo(p, s)

LEMMA NobodyStrays ==
  ASSUME \A q \in Players, s \in Stages :
           obj'[q].stage = obj[q].stage \/ obj[q].stage # s \/ q \notin stg'[s].members
  PROVE  StraysOnlyOfTwo
BY DEF StraysOnlyOfTwo, Strays

\* Who leaves a stage that lists the player, or that the player's client speaks of,
\* strays only if the object names another.
LEMMA LeaveStrays ==
  ASSUME HalfInv, NEW p \in Players, NEW t \in Stages,
         NEW st \in [Stages -> StageRecords], NEW heir \in Heirs(st[t], p),
         NEW after, after = LeaveWith(p, t, st, inbox, heir),
         obj' = after.obj, stg' = after.stg,
         view[p] = t \/ p \in stg[t].members
  PROVE  StraysOnlyOfTwo
<1>1. obj' = [obj EXCEPT ![p] = LobbyObject] /\ obj \in [Players -> Objects]
  BY DEF LeaveWith, HalfInv, Half
<1>2. stg'[t].members = st[t].members \ {p}
  <2>1. stg' = [st EXCEPT ![t] = Removed(st[t], p, heir)]
    BY DEF LeaveWith
  <2>2. Removed(st[t], p, heir).members = st[t].members \ {p}
    BY DEF Removed, StageRecords
  <2> QED BY <2>1, <2>2
<1>3. \A q \in Players, s \in Stages : Strays(q, s) => q = p /\ s # t
  BY <1>1, <1>2 DEF Strays
<1> QED BY <1>3 DEF StraysOnlyOfTwo, OfTwo

LEMMA StageLeaveStrays ==
  ASSUME HalfInv, NEW p \in Players, NEW t \in Stages, StageLeave(p, t),
         view[p] = t \/ p \in stg[t].members
  PROVE  StraysOnlyOfTwo
<1>1. PICK heir \in Heirs(stg[t], p) :
        LET after == LeaveWith(p, t, stg, inbox, heir)
        IN  obj' = after.obj /\ stg' = after.stg /\ inbox' = after.inbox
  BY DEF StageLeave
<1>2. stg \in [Stages -> StageRecords]
  BY DEF HalfInv, Half
<1> QED BY <1>1, <1>2, LeaveStrays

\* StageJoin takes a player out of the stage that the object names.
LEMMA JoinStrays ==
  ASSUME HalfInv, NEW p \in Players, NEW s \in Stages, NEW st, StartsFrom(st, p, s),
         NEW kind, StageJoin(p, s, st, kind)
  PROVE  StraysOnlyOfTwo
<1>0. PICK old : old = obj[p].stage
  OBVIOUS
<1> DEFINE Mid(heir) == IF Exists(st, old)
                          THEN LeaveWith(p, old, st, inbox, heir)
                          ELSE [obj |-> obj, stg |-> st, inbox |-> inbox]
<1>1. PICK heir \in IF Exists(st, old) THEN Heirs(st[old], p) ELSE {NoPlayer} :
        \/ /\ obj' = [Mid(heir).obj EXCEPT ![p] = [@ EXCEPT !.stage = s, !.place = "STAGE",
                                                             !.ready = FALSE]]
           /\ stg' = [Mid(heir).stg EXCEPT ![s] = Added(@, p)]
        \/ obj' = Mid(heir).obj /\ stg' = Mid(heir).stg
  BY <1>0 DEF StageJoin
<1>2. /\ st \in [Stages -> StageRecords] /\ obj \in [Players -> Objects]
      /\ Half(obj, st) /\ old \in Stages \cup {NoStage}
  BY <1>0 DEF HalfInv, Half, Objects, StartsFrom
<1>3. PICK mid : mid = Mid(heir)
  OBVIOUS
<1>4. CASE Exists(st, old)
  <2>1. old \in Stages /\ mid = LeaveWith(p, old, st, inbox, heir)
    BY <1>2, <1>3, <1>4 DEF Exists
  <2>2. /\ mid.obj = [obj EXCEPT ![p] = LobbyObject]
        /\ mid.stg = [st EXCEPT ![old] = Removed(st[old], p, heir)]
    BY <2>1 DEF LeaveWith
  <2>3. Removed(st[old], p, heir).members = st[old].members \ {p}
    BY <1>2, <2>1 DEF Removed, StageRecords
  <2>4. p \notin mid.stg[old].members
    BY <1>2, <2>1, <2>2, <2>3
  <2>5. \A q \in Players \ {p} : obj'[q] = obj[q]
    BY <1>1, <1>2, <1>3, <2>2
  <2>6. obj'[p].stage = old \/ p \notin stg'[old].members
    <3>1. CASE stg' = Mid(heir).stg
      BY <1>3, <2>4, <3>1
    <3>2. CASE /\ obj' = [Mid(heir).obj EXCEPT ![p] = [@ EXCEPT !.stage = s, !.place = "STAGE",
                                                                !.ready = FALSE]]
               /\ stg' = [Mid(heir).stg EXCEPT ![s] = Added(@, p)]
      <4> HIDE DEF Mid
      <4>1. /\ obj' = [mid.obj EXCEPT ![p] = [@ EXCEPT !.stage = s, !.place = "STAGE",
                                                       !.ready = FALSE]]
            /\ stg' = [mid.stg EXCEPT ![s] = Added(@, p)]
        BY <1>3, <3>2
      <4>2. mid.obj[p] \in Objects
        BY <1>2, <2>2, ObjectTypes
      <4>3. obj'[p].stage = s
        <5>1. [mid.obj[p] EXCEPT !.stage = s, !.place = "STAGE", !.ready = FALSE].stage = s
          BY <4>2 DEF Objects
        <5> QED BY <1>2, <2>2, <4>1, <5>1
      <4>4. s # old => stg'[old] = mid.stg[old]
        BY <1>2, <2>1, <2>2, <4>1
      <4> QED BY <2>4, <4>3, <4>4
    <3> QED BY <1>1, <3>1, <3>2
  <2> QED BY <1>0, <2>5, <2>6, NobodyStrays
<1>5. CASE ~ Exists(st, old)
  <2>1. old \notin Stages
    <3> SUFFICES ASSUME old \in Stages PROVE FALSE
      OBVIOUS
    <3>1. p \in st[old].members /\ st[old].state = "NONE"
      BY <1>0, <1>2, <1>5, StagesAssumption DEF Half, Listed, Exists
    <3> QED BY <1>2, <3>1 DEF Half, Whole, WholeBut
  <2>2. mid.obj = obj
    BY <1>3, <1>5
  <2>3. \A q \in Players \ {p} : obj'[q] = obj[q]
    BY <1>1, <1>2, <1>3, <2>2
  <2> QED BY <1>0, <2>1, <2>3, NobodyStrays
<1> QED BY <1>4, <1>5

LEMMA StepStrays ==
  ASSUME HalfInv, Next
  PROVE  StraysOnlyOfTwo
<1>0. /\ obj \in [Players -> Objects] /\ stg \in [Stages -> StageRecords]
      /\ view \in [Players -> Stages \cup {NoStage}]
      /\ Half(obj, stg) /\ Listed(obj, stg) /\ \A s \in Stages : Whole(stg[s])
  BY DEF HalfInv, Half
<1>1. ASSUME NEW p \in Players, PlayerStep(p)
      PROVE  StraysOnlyOfTwo
  <2>1. CASE Connect(p)
    <3>1. obj' = [obj EXCEPT ![p] = LobbyObject] /\ \A s \in Stages : obj[p].stage # s
      BY <1>0, <2>1 DEF Connect, Listed
    <3> QED BY <1>0, <3>1, NobodyStrays
  <2>2. CASE Disconnect(p)
    <3>1. obj' = [obj EXCEPT ![p] = OutsideObject]
      BY <2>2 DEF Disconnect
    <3>2. PICK s : s = obj[p].stage
      OBVIOUS
    <3>3. CASE s \in Stages
      <4>1. Exists(stg, s)
        <5>1. p \in stg[s].members
          BY <1>0, <3>2, <3>3 DEF Listed
        <5> QED BY <1>0, <3>3, <5>1, StagesAssumption DEF Exists, Whole, WholeBut
      <4>2. PICK heir \in Heirs(stg[s], p) : stg' = [stg EXCEPT ![s] = Removed(@, p, heir)]
        BY <2>2, <3>2, <4>1 DEF Disconnect
      <4>3. Removed(stg[s], p, heir).members = stg[s].members \ {p}
        BY <1>0, <3>3 DEF Removed, StageRecords
      <4>4. p \notin stg'[s].members
        BY <1>0, <3>3, <4>2, <4>3
      <4> QED BY <1>0, <3>1, <3>2, <4>4, NobodyStrays
    <3>4. CASE s \notin Stages
      BY <1>0, <3>1, <3>2, <3>4, NobodyStrays
    <3> QED BY <3>3, <3>4
  <2>3. ASSUME NEW s \in Stages, CreateStage(p, s)
        PROVE  StraysOnlyOfTwo
    <3>1. PICK st : st = [stg EXCEPT ![s] = NewStage]
      OBVIOUS
    <3>2. /\ stg[s].state = "NONE" /\ \A q \in Players : obj[q].stage # s
          /\ StageJoin(p, s, st, "joined")
      BY <2>3, <3>1 DEF CreateStage
    <3>3. NewStage \in StageRecords /\ Whole(NewStage) /\ stg[s].members = {}
      BY <1>0, <3>2, ObjectTypes, NewWhole DEF Whole, WholeBut
    <3>4. StartsFrom(st, p, s)
      BY <1>0, <3>1, <3>2, <3>3 DEF StartsFrom, Half, Listed
    <3> QED BY <3>2, <3>4, JoinStrays
  <2>4. ASSUME NEW s \in Stages, NEW kind, StageJoin(p, s, stg, kind)
        PROVE  StraysOnlyOfTwo
    BY <1>0, <2>4, JoinStrays DEF StartsFrom
  <2>5. ASSUME NEW q \in Players, FollowPlayer(p, q)
        PROVE  StraysOnlyOfTwo
    <3>1. PICK s : s = obj[q].stage
      OBVIOUS
    <3>2. s \in Stages /\ StageJoin(p, s, stg, "followed")
      BY <1>0, <2>5, <3>1 DEF FollowPlayer, Exists, Objects
    <3> QED BY <2>4, <3>2
  <2>6. ASSUME NEW q \in Players, StageKick(p, q)
        PROVE  StraysOnlyOfTwo
    <3>1. view[p] \in Stages /\ StageLeave(q, view[p]) /\ q \in stg[view[p]].members
      BY <1>0, <2>6 DEF StageKick, Exists
    <3> QED BY <3>1, StageLeaveStrays
  <2>7. CASE LeaveStage(p)
    <3>1. view[p] \in Stages /\ StageLeave(p, view[p])
      BY <1>0, <2>7 DEF LeaveStage, Exists
    <3> QED BY <3>1, StageLeaveStrays
  <2>8. CASE LeaveBattle(p)
    BY <1>0, <2>8, NobodyStrays DEF LeaveBattle, Objects
  <2>9. CASE SetReady(p)
    <3>1. PICK r \in BOOLEAN : obj' = [obj EXCEPT ![p].ready = r]
      BY <2>9 DEF SetReady
    <3> QED BY <1>0, <3>1, NobodyStrays DEF Objects
  <2>10. CASE StartGame(p)
    <3>1. PICK ps : obj' = [q \in Players |-> IF q \in ps
                                THEN [obj[q] EXCEPT !.launched = TRUE] ELSE obj[q]]
      BY <2>10 DEF StartGame
    <3> QED BY <1>0, <3>1, NobodyStrays DEF Objects
  <2>11. CASE RequestForcedEntry(p) \/ ChangeMaster(p) \/ ChangeSetting(p)
    BY <2>11, NobodyStrays DEF RequestForcedEntry, ChangeMaster, ChangeSetting
  <2> QED BY <1>1, <2>1, <2>2, <2>3, <2>4, <2>5, <2>6, <2>7, <2>8, <2>9, <2>10, <2>11
          DEF PlayerStep, JoinStage
<1>2. ASSUME NEW p \in Players, ClientStep(p)
      PROVE  StraysOnlyOfTwo
  <2>1. \A q \in Players :
          obj'[q] \in {obj[q], [obj[q] EXCEPT !.place = "BATTLE", !.battle = TRUE]}
    BY <1>0, <1>2 DEF ClientStep, ReceiveNotice, EnterBattle
  <2>2. \A q \in Players : obj'[q].stage = obj[q].stage
    <3> SUFFICES ASSUME NEW q \in Players PROVE obj'[q].stage = obj[q].stage
      OBVIOUS
    <3>1. [obj[q] EXCEPT !.place = "BATTLE", !.battle = TRUE].stage = obj[q].stage
      <4>1. obj[q] \in Objects
        BY <1>0
      <4> QED BY <4>1 DEF Objects
    <3> QED BY <2>1, <3>1
  <2> QED BY <2>2, NobodyStrays
<1>3. ASSUME NEW s \in Stages, Tick(s)
      PROVE  StraysOnlyOfTwo
  <2>1. PICK state \in TickStates(stg[s]) :
          obj' = [q \in Players |->
                    IF q \notin stg[s].members THEN obj[q]
                    ELSE IF state = "CLOSE" THEN LobbyObject
                    ELSE IF stg[s].state = "RUN" /\ state = "STANDBY"
                    THEN [obj[q] EXCEPT !.ready = FALSE] ELSE obj[q]]
    BY <1>3 DEF Tick
  <2>2. state = "CLOSE" => stg[s].members = {}
    <3>1. stg[s].state \in {"STANDBY", "COUNTDOWN", "RUN", "CLOSE"}
      BY <1>0, <1>3 DEF Tick, Exists, StageRecords, StageStates
    <3> QED BY <1>0, <2>1, <3>1 DEF TickStates, Whole, WholeBut
  <2>3. \A q \in Players : obj'[q].stage = obj[q].stage
    <3>1. \A q \in Players : obj'[q] \in {obj[q], [obj[q] EXCEPT !.ready = FALSE]}
      BY <2>1, <2>2
    <3> QED BY <1>0, <3>1 DEF Objects
  <2> QED BY <2>3, NobodyStrays
<1>4. ASSUME NEW s \in Stages, NEW q \in Players, KickPlayer(s, q)
      PROVE  StraysOnlyOfTwo
  <2>1. PICK ban \in BOOLEAN, heir \in Heirs(stg[s], q) :
          LET g == IF ban THEN [stg[s] EXCEPT !.banned = @ \cup {q}] ELSE stg[s]
              after == LeaveWith(q, s, [stg EXCEPT ![s] = g], inbox, heir)
          IN  obj' = after.obj /\ stg' = after.stg
    BY <1>4 DEF KickPlayer
  <2>2. PICK g : g = IF ban THEN [stg[s] EXCEPT !.banned = @ \cup {q}] ELSE stg[s]
    OBVIOUS
  <2>3. PICK st : st = [stg EXCEPT ![s] = g]
    OBVIOUS
  <2>4. /\ g \in StageRecords /\ g.members = stg[s].members /\ g.master = stg[s].master
        /\ g.state = stg[s].state
    BY <1>0, <2>2 DEF StageRecords
  <2>5. st \in [Stages -> StageRecords] /\ heir \in Heirs(st[s], q) /\ q \in stg[s].members
    BY <1>0, <1>4, <2>3, <2>4 DEF Heirs, KickPlayer
  <2>6. PICK after : after = LeaveWith(q, s, st, inbox, heir)
    OBVIOUS
  <2>7. obj' = after.obj /\ stg' = after.stg
    BY <2>1, <2>2, <2>3, <2>6
  <2> QED BY ONLY HalfInv, q \in Players, s \in Stages, <2>5, <2>6, <2>7, LeaveStrays, Zenon
<1> QED BY <1>1, <1>2, <1>3, <1>4 DEF Next

-----------------------------------------------------------------------------
(* The results.                                                            *)

\* m_nAdminObjectCount exceeds the number of admins among the objects of a stage
\* only from a step on in which an admin enters a stage that lists the admin while
\* the admin's object names none or another.
THEOREM MiscountSound == Spec => MiscountedOnlyOnReentry
<1> DEFINE A == \A s \in Stages : AdminsCounted(stg[s]) /\ ~ AdminsCounted(stg'[s])
                  => \E p \in Admins \cap stg[s].members :
                       obj[p].stage # s /\ obj'[p].stage = s
<1>1. HalfInv /\ [Next]_vars => [A]_vars
  <2> SUFFICES ASSUME HalfInv, Next PROVE A
    OBVIOUS
  <2>1. HalfInv' /\ Moves
    BY StepSafely, StepMoves DEF Safely
  <2> QED BY <2>1, MovesCounted DEF Moves
<1> QED BY <1>1, HalfInvariance, PTL DEF Spec, MiscountedOnlyOnReentry

\* While its admins are counted right, nobody but an admin enters a stage whose
\* other players fill it.
THEOREM CapacitySound == Spec => CapacityRespected
<1> DEFINE A == \A s \in Stages :
                  AdminsCounted(stg[s]) /\ ~ (stg'[s].members \ stg[s].members \subseteq Admins)
                    => Cardinality(stg'[s].members \ Admins) <= stg'[s].max
<1>1. HalfInv /\ [Next]_vars => [A]_vars
  <2> SUFFICES ASSUME HalfInv, Next, NEW s \in Stages, AdminsCounted(stg[s]),
                      ~ (stg'[s].members \ stg[s].members \subseteq Admins)
               PROVE  Cardinality(stg'[s].members \ Admins) <= stg'[s].max
    BY DEF A
  <2>1. PICK g, h : g = stg[s] /\ h = stg'[s]
    OBVIOUS
  <2>2. g \in StageRecords /\ AdminsCounted(g) /\ MovesTo(s, h)
    BY <2>1, StepMoves DEF HalfInv, Half, Moves
  <2>3. ~ (h.members \ g.members \subseteq Admins)
    BY <2>1
  <2>4. ~ (Rests(g, h) \/ Crowns(g, h) \/ Dies(g, h))
    BY <2>2, <2>3 DEF Rests, Crowns, Dies, StageRecords, NewStage, NoneStage
  <2>5. ASSUME NEW p \in Players, Loses(g, h, p) PROVE FALSE
    BY <2>2, <2>3, <2>5, LosesFields
  <2>6. ASSUME NEW p \in Players, Gains(g, h, p)
        PROVE  Cardinality(h.members \ Admins) <= h.max
    <3>1. p \notin g.members /\ p \notin Admins
      BY <2>2, <2>3, <2>6, GainsFields
    <3> QED BY <2>2, <2>6, <3>1, GainsRoom
  <2>7. ASSUME NEW p \in Players, NEW mid \in StageRecords, p \in g.members,
               Loses(g, mid, p), Gains(mid, h, p)
        PROVE  FALSE
    <3>1. mid.members = g.members \ {p} /\ h.members = mid.members \cup {p}
      BY <2>2, <2>7, LosesFields, GainsFields
    <3> QED BY <2>3, <2>7, <3>1
  <2>8. ASSUME Made(g, h)
        PROVE  Cardinality(h.members \ Admins) <= h.max
    <3>1. g.members = {} /\ h # NewStage
      BY <2>3, <2>8 DEF Made, NewStage
    <3>2. PICK p \in Players : Gains(NewStage, h, p)
      BY <2>8, <3>1 DEF Made
    <3>3. NewStage \in StageRecords /\ NewStage.members = {}
      BY ObjectTypes
    <3>4. p \notin Admins
      BY <2>3, <3>1, <3>2, <3>3, GainsFields
    <3> QED BY <3>2, <3>3, <3>4, NewCounted, GainsRoom
  <2>9. Cardinality(h.members \ Admins) <= h.max
    BY <2>1, <2>2, <2>4, <2>5, <2>6, <2>7, <2>8 DEF MovesTo, Enters, Reenters
  <2> QED BY <2>1, <2>9
<1> QED BY <1>1, HalfInvariance, PTL DEF Spec, CapacityRespected

\* A master who stays in the stage loses it to an admin, or is told of leaving it:
\* the master joined the stage again.
THEOREM MasterKeeps == Spec => MasterKeepsStage
<1> DEFINE Told(m, s) ==
             \E i \in DOMAIN inbox'[m] \ DOMAIN inbox[m] : inbox'[m][i] = Left(s)
           A == \A s \in Stages :
                  LET m == stg[s].master IN
                  m \in stg[s].members \cap stg'[s].members
                    => \/ stg'[s].master \in {m} \cup Admins
                       \/ \E i \in DOMAIN inbox'[m] \ DOMAIN inbox[m] : inbox'[m][i] = Left(s)
<1>1. HalfInv /\ [Next]_vars => [A]_vars
  <2> SUFFICES ASSUME HalfInv, Next, NEW s \in Stages,
                      stg[s].master \in stg[s].members \cap stg'[s].members
               PROVE  stg'[s].master \in {stg[s].master} \cup Admins \/ Told(stg[s].master, s)
    BY DEF A
  <2>1. PICK g, h : g = stg[s] /\ h = stg'[s]
    OBVIOUS
  <2>2. g \in StageRecords /\ MovesTo(s, h) /\ g.master \in g.members \cap h.members
    BY <2>1, StepMoves DEF HalfInv, Half, Moves
  <2> DEFINE Goal == h.master \in {g.master} \cup Admins \/ Told(g.master, s)
  <2>3. ASSUME Rests(g, h) \/ Crowns(g, h) PROVE Goal
    BY <2>2, <2>3 DEF Rests, Crowns, StageRecords
  <2>4. ~ (Made(g, h) \/ Dies(g, h))
    BY <2>2 DEF Made, Dies
  <2>5. ASSUME NEW p \in Players, Loses(g, h, p) PROVE Goal
    BY <2>2, <2>5, LosesFields
  <2>6. ASSUME NEW p \in Players, Gains(g, h, p) PROVE Goal
    BY <2>2, <2>6, GainsFields, PlayersAssumption
  <2>7. ASSUME NEW p \in Players, NEW mid \in StageRecords,
               Loses(g, mid, p), Gains(mid, h, p), Told(p, s)
        PROVE  Goal
    <3>1. CASE p = g.master
      BY <2>7, <3>1
    <3>2. CASE p # g.master
      <4>1. mid.master = g.master /\ g.master \in mid.members
        BY <2>2, <2>7, <3>2, LosesFields
      <4> QED BY <2>7, <3>2, <4>1, GainsFields, PlayersAssumption
    <3> QED BY <3>1, <3>2
  <2>8. Goal
    BY <2>1, <2>2, <2>3, <2>4, <2>5, <2>6, <2>7 DEF MovesTo, Enters, Reenters
  <2> QED BY <2>1, <2>8
<1> QED BY <1>1, HalfInvariance, PTL DEF Spec, MasterKeepsStage

\* A stage goes on listing a player whose object stops naming it only if the
\* player's client spoke of another stage, or another listed the player as well.
THEOREM StraysSound == Spec => StrayedBetweenStages
<1> DEFINE A == \A p \in Players, s \in Stages :
                  obj[p].stage = s /\ obj'[p].stage # s /\ p \in stg'[s].members
                    => \E t \in Stages \ {s} : view[p] = t \/ p \in stg[t].members
<1>1. HalfInv /\ [Next]_vars => [A]_vars
  BY StepStrays DEF StraysOnlyOfTwo, Strays, OfTwo
<1> QED BY <1>1, HalfInvariance, PTL DEF Spec, StrayedBetweenStages
=============================================================================
