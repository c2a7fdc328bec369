---------------------------- MODULE StageProofs ----------------------------
(***************************************************************************)
(* What a stage promises whatever its clients ask: the types, the stage    *)
(* that an object names lists it, a master among the players, the banned   *)
(* outside, no removal of a stage that somebody is in.                     *)
(*                                                                         *)
(* A client may leave a stage that its player is not in, and a stage may   *)
(* list a player whose object names another or none, so the two records of *)
(* membership need not agree.  What is inductive is one half (Listed).     *)
(***************************************************************************)
EXTENDS Stage, TLAPS

\* A stage that lists nobody when it is closed, has a master among its players,
\* and has banned none of them but admins and those of out.
WholeBut(g, out) ==
  /\ g.state \in {"NONE", "CLOSE"} => g.members = {}
  /\ g.members # {} => g.master \in g.members
  /\ g.banned \cap g.members \subseteq Admins \cup out
Whole(g) == WholeBut(g, {})

Listed(o, st) == \A p \in Players, s \in Stages : o[p].stage = s => p \in st[s].members

Half(o, st) ==
  /\ o \in [Players -> Objects]
  /\ st \in [Stages -> StageRecords]
  /\ Listed(o, st)
  /\ \A s \in Stages : Whole(st[s])

HalfInv ==
  /\ Half(obj, stg)
  /\ view \in [Players -> Stages \cup {NoStage}]
  /\ inbox \in [Players -> Seq(Notices)]

\* A stage that is gone after the step had nobody in it, or was gone before.
Lasting ==
  \A s \in Stages : stg'[s].state = "NONE" => stg[s].state = "NONE" \/ stg[s].members = {}

\* What each step is shown to do.
Safely == HalfInv' /\ Lasting

-----------------------------------------------------------------------------
(* One stage.                                                              *)

LEMMA ObjectTypes ==
  /\ OutsideObject \in Objects /\ LobbyObject \in Objects
  /\ OutsideObject.stage = NoStage /\ LobbyObject.stage = NoStage
  /\ NewStage \in StageRecords /\ NoneStage \in StageRecords
  /\ NewStage.members = {} /\ NoneStage.members = {}
  /\ Launch \in Notices
  /\ \A s \in Stages : Left(s) \in Notices
BY NumbersAssumption DEF OutsideObject, LobbyObject, Objects, Places, NewStage, NoneStage,
     StageRecords, StageStates, Launch, Left, Notices

\* Removing p leaves a well-formed stage without p, mastered by a member.
LEMMA RemovedStage ==
  ASSUME NEW g \in StageRecords, NEW p \in Players, NEW heir \in Heirs(g, p),
         g.members # {} => g.master \in g.members,
         g.state = "NONE" => g.members = {}
  PROVE  LET h == Removed(g, p, heir) IN
         /\ h \in StageRecords
         /\ h.members = g.members \ {p}
         /\ h.members # {} => h.master \in h.members
         /\ h.state = "NONE" => h.members = {}
<1>1. heir \in Players \cup {NoPlayer}
  BY DEF Heirs, StageRecords
<1>2. g.members \ {p} # {} => heir \in g.members \ {p}
  BY DEF Heirs, StageRecords
<1> DEFINE h == Removed(g, p, heir)
<1>3. h \in StageRecords
  <2>1. (IF p \in Admins /\ g.admins > 0 THEN g.admins - 1 ELSE g.admins) \in Nat
    BY DEF StageRecords
  <2>2. (IF p \in g.members /\ g.members = {p} THEN "CLOSE" ELSE g.state) \in StageStates
    BY DEF StageRecords, StageStates
  <2>3. g.members \ {p} \in SUBSET Players
    BY DEF StageRecords
  <2>4. QED
    BY <1>1, <2>1, <2>2, <2>3 DEF Removed, StageRecords
<1>4. h.members = g.members \ {p} /\ h.master = heir
  BY DEF Removed, StageRecords
<1>5. h.state = "NONE" => h.members = {}
  BY <1>4 DEF Removed, StageRecords
<1>6. QED
  BY <1>2, <1>3, <1>4, <1>5

\* Adding p to a stage leaves it well-formed and mastered by a member.
LEMMA AddedStage ==
  ASSUME NEW g \in StageRecords, NEW p \in Players,
         g.members # {} => g.master \in g.members,
         g.state # "NONE"
  PROVE  LET h == Added(g, p) IN
         /\ h \in StageRecords
         /\ h.members = g.members \cup {p}
         /\ h.members # {} => h.master \in h.members
         /\ h.state # "NONE"
<1> DEFINE h == Added(g, p)
<1>1. h \in StageRecords
  <2>1. (IF p \in Admins THEN g.admins + 1 ELSE g.admins) \in Nat
    BY DEF StageRecords
  <2>2. (IF p \in EventMasters \/ g.members \subseteq {p} THEN p ELSE g.master)
           \in Players \cup {NoPlayer}
    BY DEF StageRecords
  <2>3. g.members \cup {p} \in SUBSET Players
    BY DEF StageRecords
  <2>4. QED
    BY <2>1, <2>2, <2>3 DEF Added, StageRecords
<1>2. /\ h.members = g.members \cup {p} /\ h.state = g.state
      /\ h.master = IF p \in EventMasters \/ g.members \subseteq {p} THEN p ELSE g.master
  BY DEF Added, StageRecords
<1>3. h.master \in h.members
  BY <1>2
<1>4. QED
  BY <1>1, <1>2, <1>3

LEMMA NotifyType ==
  ASSUME NEW box \in [Players -> Seq(Notices)], NEW ps, NEW n \in Notices
  PROVE  Notify(box, ps, n) \in [Players -> Seq(Notices)]
BY DEF Notify

\* What a leave adds to the notices is a notice.
LEMMA LeaveNotices ==
  ASSUME NEW st, NEW box \in [Players -> Seq(Notices)], NEW p \in Players,
         NEW s \in Stages, NEW heir,
         NEW after, after = LeaveWith(p, s, st, box, heir)
  PROVE  after.inbox \in [Players -> Seq(Notices)]
<1>1. Notify(box, {p}, Left(s)) \in [Players -> Seq(Notices)]
  BY ObjectTypes, NotifyType
<1> QED BY <1>1 DEF LeaveWith

\* A notice that is handled leaves notices.
LEMMA Handled ==
  ASSUME NEW box \in [Players -> Seq(Notices)], NEW p \in Players, box[p] # <<>>
  PROVE  /\ [box EXCEPT ![p] = Tail(@)] \in [Players -> Seq(Notices)]
         /\ Head(box[p]) \in Notices
OBVIOUS

LEMMA NewWhole == Whole(NewStage) /\ Whole(NoneStage)
BY DEF Whole, WholeBut, NewStage, NoneStage

\* Removing p leaves a whole stage even if p has just been banned.
LEMMA RemovedWhole ==
  ASSUME NEW g \in StageRecords, NEW p \in Players, NEW heir \in Heirs(g, p),
         WholeBut(g, {p})
  PROVE  LET h == Removed(g, p, heir) IN
         /\ h \in StageRecords
         /\ h.members = g.members \ {p}
         /\ h.state \in {g.state, "CLOSE"}
         /\ Whole(h)
<1> DEFINE h == Removed(g, p, heir)
<1>1. /\ h \in StageRecords
      /\ h.members = g.members \ {p}
      /\ h.members # {} => h.master \in h.members
  BY RemovedStage DEF WholeBut
<1>2. /\ h.state = IF p \in g.members /\ g.members = {p} THEN "CLOSE" ELSE g.state
      /\ h.banned = g.banned
  BY DEF Removed, StageRecords
<1>3. h.state \in {"NONE", "CLOSE"} => h.members = {}
  BY <1>1, <1>2 DEF WholeBut
<1>4. h.banned \cap h.members \subseteq Admins
  BY <1>1, <1>2 DEF WholeBut
<1> QED BY <1>1, <1>2, <1>3, <1>4 DEF Whole, WholeBut

\* Adding a player who is admitted leaves a whole stage, also if the player is
\* in it already.
LEMMA AddedWhole ==
  ASSUME NEW g \in StageRecords, NEW p \in Players, Whole(g), Valid(g, p),
         g.state # "NONE"
  PROVE  LET h == Added(g, p) IN
         /\ h \in StageRecords
         /\ h.members = g.members \cup {p}
         /\ h.state = g.state
         /\ Whole(h)
<1> DEFINE h == Added(g, p)
<1>1. /\ h \in StageRecords
      /\ h.members = g.members \cup {p}
      /\ h.members # {} => h.master \in h.members
  BY AddedStage DEF Whole, WholeBut
<1>2. h.state = g.state /\ h.banned = g.banned
  BY DEF Added, StageRecords
<1>3. g.state \notin {"NONE", "CLOSE"}
  BY DEF Valid
<1>4. h.banned \cap h.members \subseteq Admins
  BY <1>1, <1>2 DEF Valid, Whole, WholeBut
<1> QED BY <1>1, <1>2, <1>3, <1>4 DEF Whole, WholeBut

-----------------------------------------------------------------------------
(* The tables.                                                             *)

\* Only the stage that objects name is of interest here.
LEMMA SameHalf ==
  ASSUME NEW o, NEW st, Half(o, st), NEW o2 \in [Players -> Objects],
         \A q \in Players : o2[q].stage \in {o[q].stage, NoStage}
  PROVE  Half(o2, st)
BY StagesAssumption DEF Half, Listed

\* p is out of the stages that mid holds; they are as in st or closed.
Departs(mid, p, st) ==
  /\ Half(mid.obj, mid.stg)
  /\ mid.inbox \in [Players -> Seq(Notices)]
  /\ mid.obj[p].stage = NoStage
  /\ \A t \in Stages : mid.stg[t].state \in {st[t].state, "CLOSE"}

\* Whoever leaves, of whichever stage, names no stage any more.
LEMMA LeaveHalf ==
  ASSUME HalfInv, NEW p \in Players, NEW s \in Stages,
         NEW st \in [Stages -> StageRecords], Listed(obj, st),
         \A t \in Stages \ {s} : Whole(st[t]), WholeBut(st[s], {p}),
         NEW heir \in Heirs(st[s], p),
         NEW after, after = LeaveWith(p, s, st, inbox, heir)
  PROVE  Departs(after, p, st)
<1> DEFINE h == Removed(st[s], p, heir)
<1>1. obj \in [Players -> Objects] /\ inbox \in [Players -> Seq(Notices)]
  BY DEF HalfInv, Half
<1>2. /\ h \in StageRecords /\ h.members = st[s].members \ {p}
      /\ h.state \in {st[s].state, "CLOSE"} /\ Whole(h)
  BY RemovedWhole
<1> HIDE DEF h
<1>3. after.obj = [obj EXCEPT ![p] = LobbyObject] /\ after.stg = [st EXCEPT ![s] = h]
  BY DEF LeaveWith, h
<1>4. after.obj \in [Players -> Objects] /\ after.stg \in [Stages -> StageRecords]
  BY <1>1, <1>2, <1>3, ObjectTypes
<1>5. after.obj[p].stage = NoStage
  BY <1>1, <1>3, ObjectTypes
<1>6. Listed(after.obj, after.stg)
  BY <1>1, <1>2, <1>3, <1>5, StagesAssumption DEF Listed
<1>7. \A t \in Stages : Whole(after.stg[t]) /\ after.stg[t].state \in {st[t].state, "CLOSE"}
  BY <1>2, <1>3
<1>8. after.inbox \in [Players -> Seq(Notices)]
  BY <1>1, LeaveNotices
<1> QED BY <1>3, <1>4, <1>5, <1>6, <1>7, <1>8 DEF Departs, Half

\* Leaving is a step that is safe, if the table st is the server's but for the
\* list of the banned.
LEMMA LeaveSafely ==
  ASSUME HalfInv, NEW p \in Players, NEW s \in Stages, NEW st \in [Stages -> StageRecords],
         \A t \in Stages : st[t].members = stg[t].members /\ st[t].state = stg[t].state,
         \A t \in Stages \ {s} : Whole(st[t]), WholeBut(st[s], {p}),
         NEW heir \in Heirs(st[s], p),
         NEW after, after = LeaveWith(p, s, st, inbox, heir),
         obj' = after.obj, stg' = after.stg, inbox' = after.inbox, view' = view
  PROVE  Safely
<1>1. Listed(obj, st)
  BY DEF HalfInv, Half, Listed
<1>2. Departs(after, p, st)
  BY <1>1, LeaveHalf
<1>3. HalfInv'
  BY <1>2 DEF Departs, HalfInv
<1>4. Lasting
  BY <1>2 DEF Departs, Lasting
<1> QED BY <1>3, <1>4 DEF Safely

LEMMA StageLeaveSafely ==
  ASSUME HalfInv, NEW p \in Players, NEW s \in Stages, StageLeave(p, s), view' = view
  PROVE  Safely
<1>1. PICK heir \in Heirs(stg[s], p) :
        LET after == LeaveWith(p, s, stg, inbox, heir)
        IN  obj' = after.obj /\ stg' = after.stg /\ inbox' = after.inbox
  BY DEF StageLeave
<1>2. /\ stg \in [Stages -> StageRecords]
      /\ \A t \in Stages \ {s} : Whole(stg[t])
      /\ WholeBut(stg[s], {p})
  BY DEF HalfInv, Half, Whole, WholeBut
<1> QED BY <1>1, <1>2, LeaveSafely

-----------------------------------------------------------------------------
(* StageJoin.                                                              *)

\* The first half: p has left the stage its object names, if any.
LEMMA JoinDeparts ==
  ASSUME HalfInv, NEW p \in Players, NEW st, Half(obj, st),
         NEW old, old = obj[p].stage,
         NEW heir \in IF Exists(st, old) THEN Heirs(st[old], p) ELSE {NoPlayer},
         NEW mid, mid = IF Exists(st, old)
                          THEN LeaveWith(p, old, st, inbox, heir)
                          ELSE [obj |-> obj, stg |-> st, inbox |-> inbox]
  PROVE  Departs(mid, p, st)
<1>1. /\ old \in Stages \cup {NoStage} /\ st \in [Stages -> StageRecords]
      /\ Listed(obj, st) /\ \A t \in Stages : Whole(st[t])
  BY DEF Half, Objects
<1>2. CASE Exists(st, old)
  <2>1. mid = LeaveWith(p, old, st, inbox, heir) /\ heir \in Heirs(st[old], p) /\ old \in Stages
    BY <1>1, <1>2 DEF Exists
  <2>2. WholeBut(st[old], {p})
    BY <1>1, <2>1 DEF Whole, WholeBut
  <2> QED BY ONLY HalfInv, p \in Players, <1>1, <2>1, <2>2, LeaveHalf, Zenon
<1>3. CASE ~ Exists(st, old)
  <2>1. mid.obj = obj /\ mid.stg = st /\ mid.inbox = inbox
    BY <1>3
  <2>2. old = NoStage
    <3> SUFFICES ASSUME old \in Stages PROVE FALSE
      BY <1>1
    <3>1. p \in st[old].members /\ st[old].state = "NONE"
      BY <1>1, <1>3, StagesAssumption DEF Listed, Exists
    <3> QED BY <1>1, <3>1 DEF Whole, WholeBut
  <2> QED BY <2>1, <2>2 DEF Departs, HalfInv
<1> QED BY <1>2, <1>3

\* The whole of it, from a table that has not lost any stage.
LEMMA JoinSafely ==
  ASSUME HalfInv, NEW p \in Players, NEW s \in Stages, NEW st, Half(obj, st),
         st[s].state # "NONE",
         \A t \in Stages : st[t].state = "NONE" => stg[t].state = "NONE",
         NEW kind \in {"joined", "followed"},
         StageJoin(p, s, st, kind), view' = view
  PROVE  Safely
<1>0. PICK old : old = obj[p].stage
  OBVIOUS
<1> DEFINE note == [kind |-> kind, stage |-> s]
           Mid(heir) == IF Exists(st, old)
                          THEN LeaveWith(p, old, st, inbox, heir)
                          ELSE [obj |-> obj, stg |-> st, inbox |-> inbox]
<1>1. PICK heir \in IF Exists(st, old) THEN Heirs(st[old], p) ELSE {NoPlayer} :
        \/ /\ Valid(Mid(heir).stg[s], p)
           /\ obj' = [Mid(heir).obj EXCEPT ![p] = [@ EXCEPT !.stage = s, !.place = "STAGE",
                                                             !.ready = FALSE]]
           /\ stg' = [Mid(heir).stg EXCEPT ![s] = Added(@, p)]
           /\ inbox' = Notify(Mid(heir).inbox, {p}, note)
        \/ /\ obj' = Mid(heir).obj
           /\ stg' = Mid(heir).stg
           /\ inbox' = Mid(heir).inbox
  BY <1>0 DEF StageJoin
<1>2. PICK mid : mid = Mid(heir)
  OBVIOUS
<1>3. Departs(mid, p, st)
  BY ONLY HalfInv, p \in Players, Half(obj, st),
     heir \in IF Exists(st, old) THEN Heirs(st[old], p) ELSE {NoPlayer},
     <1>0, <1>2, JoinDeparts, Zenon
<1>4. note \in Notices
  BY DEF Notices
<1> HIDE DEF Mid, note
<1>5. CASE /\ Valid(mid.stg[s], p)
           /\ obj' = [mid.obj EXCEPT ![p] = [@ EXCEPT !.stage = s, !.place = "STAGE",
                                                      !.ready = FALSE]]
           /\ stg' = [mid.stg EXCEPT ![s] = Added(@, p)]
           /\ inbox' = Notify(mid.inbox, {p}, note)
  <2> DEFINE h == Added(mid.stg[s], p)
  <2>1. /\ mid.obj \in [Players -> Objects] /\ mid.stg \in [Stages -> StageRecords]
        /\ Listed(mid.obj, mid.stg) /\ \A t \in Stages : Whole(mid.stg[t])
        /\ mid.inbox \in [Players -> Seq(Notices)]
        /\ \A t \in Stages : mid.stg[t].state \in {st[t].state, "CLOSE"}
    BY <1>3 DEF Departs, Half
  <2>2. /\ h \in StageRecords /\ h.members = mid.stg[s].members \cup {p}
        /\ h.state = mid.stg[s].state /\ Whole(h)
    BY <1>5, <2>1, AddedWhole
  <2> HIDE DEF h
  <2>3. stg' = [mid.stg EXCEPT ![s] = h]
    BY <1>5 DEF h
  <2>4. [mid.obj[p] EXCEPT !.stage = s, !.place = "STAGE", !.ready = FALSE] \in Objects
    BY <2>1 DEF Objects, Places
  <2>5. obj' \in [Players -> Objects] /\ obj'[p].stage = s
    BY <1>5, <2>1, <2>4 DEF Objects
  <2>6. \A q \in Players \ {p} : obj'[q] = mid.obj[q]
    BY <1>5, <2>1
  <2>7. Listed(obj', stg')
    BY <2>1, <2>2, <2>3, <2>5, <2>6 DEF Listed
  <2>8. Half(obj', stg')
    BY <2>1, <2>2, <2>3, <2>5, <2>7 DEF Half
  <2>9. inbox' \in [Players -> Seq(Notices)]
    BY <1>4, <1>5, <2>1, NotifyType
  <2>10. Lasting
    BY <2>1, <2>2, <2>3 DEF Lasting
  <2> QED BY <2>8, <2>9, <2>10 DEF HalfInv, Safely
<1>6. CASE obj' = mid.obj /\ stg' = mid.stg /\ inbox' = mid.inbox
  BY <1>3, <1>6 DEF Departs, HalfInv, Lasting, Safely
<1> QED BY <1>1, <1>2, <1>5, <1>6

-----------------------------------------------------------------------------
(* Steps that move nobody, or one stage only.                              *)

\* Objects keep the stage they name or leave it; one stage at most changes, and
\* stays whole with the same players.
LEMMA QuietSafely ==
  ASSUME HalfInv, obj' \in [Players -> Objects],
         \A q \in Players : obj'[q].stage \in {obj[q].stage, NoStage},
         \/ stg' = stg
         \/ \E s \in Stages, g \in StageRecords :
              /\ stg' = [stg EXCEPT ![s] = g]
              /\ g.members = stg[s].members
              /\ Whole(g)
              /\ g.state = "NONE" => stg[s].members = {},
         view' \in [Players -> Stages \cup {NoStage}],
         inbox' \in [Players -> Seq(Notices)]
  PROVE  Safely
<1>1. Half(obj', stg)
  BY SameHalf DEF HalfInv
<1>2. CASE stg' = stg
  BY <1>1, <1>2 DEF HalfInv, Lasting, Safely
<1>3. ASSUME NEW s \in Stages, NEW g \in StageRecords,
             stg' = [stg EXCEPT ![s] = g], g.members = stg[s].members, Whole(g),
             g.state = "NONE" => stg[s].members = {}
      PROVE  Safely
  <2>1. Half(obj', stg')
    BY <1>1, <1>3 DEF Half, Listed
  <2>2. Lasting
    BY <1>1, <1>3 DEF Lasting, Half
  <2> QED BY <2>1, <2>2 DEF HalfInv, Safely
<1> QED BY <1>2, <1>3

-----------------------------------------------------------------------------
(* The steps.                                                              *)

LEMMA ConnectSafely ==
  ASSUME HalfInv, NEW p \in Players, Connect(p)
  PROVE  Safely
<1>1. obj \in [Players -> Objects]
  BY DEF HalfInv, Half
<1>2. obj' \in [Players -> Objects] /\ \A q \in Players : obj'[q].stage \in {obj[q].stage, NoStage}
  BY <1>1, ObjectTypes DEF Connect
<1> QED BY <1>2, QuietSafely DEF Connect, HalfInv

LEMMA DisconnectSafely ==
  ASSUME HalfInv, NEW p \in Players, Disconnect(p)
  PROVE  Safely
<1>0. PICK s : s = obj[p].stage
  OBVIOUS
<1>1. /\ obj \in [Players -> Objects] /\ stg \in [Stages -> StageRecords]
      /\ Listed(obj, stg) /\ \A t \in Stages : Whole(stg[t])
      /\ view \in [Players -> Stages \cup {NoStage}] /\ inbox \in [Players -> Seq(Notices)]
  BY DEF HalfInv, Half
<1>2. /\ obj' = [obj EXCEPT ![p] = OutsideObject]
      /\ view' = [view EXCEPT ![p] = NoStage]
      /\ inbox' = [inbox EXCEPT ![p] = <<>>]
  BY DEF Disconnect
<1>3. /\ obj' \in [Players -> Objects]
      /\ \A q \in Players : obj'[q].stage = IF q = p THEN NoStage ELSE obj[q].stage
      /\ view' \in [Players -> Stages \cup {NoStage}] /\ inbox' \in [Players -> Seq(Notices)]
  BY <1>1, <1>2, ObjectTypes
<1>4. CASE Exists(stg, s)
  <2>1. PICK heir \in Heirs(stg[s], p) : stg' = [stg EXCEPT ![s] = Removed(@, p, heir)]
    BY <1>0, <1>4 DEF Disconnect
  <2>2. s \in Stages
    BY <1>0, <1>1, <1>4 DEF Exists, Objects
  <2>3. PICK after : after = LeaveWith(p, s, stg, inbox, heir)
    OBVIOUS
  <2>4. WholeBut(stg[s], {p})
    BY <1>1, <2>2 DEF Whole, WholeBut
  <2>5. Departs(after, p, stg)
    <3>1. heir \in Heirs(stg[s], p)
      OBVIOUS
    <3> QED BY ONLY HalfInv, p \in Players, <1>1, <2>2, <2>3, <2>4, <3>1, LeaveHalf, Zenon
  <2>6. after.stg = stg' /\ after.obj = [obj EXCEPT ![p] = LobbyObject]
    BY <2>1, <2>3 DEF LeaveWith
  <2>7. \A q \in Players : obj'[q].stage = after.obj[q].stage
    BY <1>1, <1>3, <2>6, ObjectTypes
  <2>8. Half(obj', stg')
    <3>1. Half(after.obj, stg')
      BY <2>5, <2>6 DEF Departs
    <3> QED BY ONLY <1>3, <2>7, <3>1, SameHalf
  <2>9. Lasting
    BY <2>5, <2>6 DEF Departs, Lasting
  <2> QED BY <1>3, <2>8, <2>9 DEF HalfInv, Safely
<1>5. CASE ~ Exists(stg, s)
  <2>1. stg' = stg
    BY <1>0, <1>5 DEF Disconnect
  <2> QED BY <1>3, <2>1, QuietSafely
<1> QED BY <1>4, <1>5

LEMMA CreateStageSafely ==
  ASSUME HalfInv, NEW p \in Players, NEW s \in Stages, CreateStage(p, s)
  PROVE  Safely
<1>1. PICK st : st = [stg EXCEPT ![s] = NewStage]
  OBVIOUS
<1>2. /\ stg[s].state = "NONE" /\ \A q \in Players : obj[q].stage # s
      /\ StageJoin(p, s, st, "joined") /\ view' = view
  BY <1>1 DEF CreateStage
<1>3. Half(obj, stg) /\ stg \in [Stages -> StageRecords]
  BY DEF HalfInv, Half
<1>4. NewStage \in StageRecords /\ NewStage.state = "STANDBY" /\ Whole(NewStage)
  BY ObjectTypes, NewWhole DEF NewStage
<1>5. Half(obj, st)
  BY <1>1, <1>2, <1>3, <1>4 DEF Half, Listed
<1>6. st[s].state # "NONE" /\ \A t \in Stages : st[t].state = "NONE" => stg[t].state = "NONE"
  BY <1>1, <1>2, <1>3, <1>4
<1> QED BY <1>2, <1>5, <1>6, JoinSafely

LEMMA JoinStageSafely ==
  ASSUME HalfInv, NEW p \in Players, NEW s \in Stages, JoinStage(p, s)
  PROVE  Safely
BY JoinSafely DEF HalfInv, JoinStage, Exists

LEMMA FollowPlayerSafely ==
  ASSUME HalfInv, NEW p \in Players, NEW q \in Players, FollowPlayer(p, q)
  PROVE  Safely
<1>1. PICK s : s = obj[q].stage
  OBVIOUS
<1>2. /\ StageJoin(p, s, stg, "followed") /\ view' = view
      /\ s \in Stages /\ stg[s].state # "NONE" /\ Half(obj, stg)
  BY <1>1 DEF FollowPlayer, Exists, HalfInv, Half, Objects
<1> QED BY <1>2, JoinSafely

LEMMA LeaveStageSafely ==
  ASSUME HalfInv, NEW p \in Players, LeaveStage(p)
  PROVE  Safely
<1>1. view[p] \in Stages /\ StageLeave(p, view[p]) /\ view' = view
  BY DEF LeaveStage, Exists, HalfInv
<1> QED BY <1>1, StageLeaveSafely

LEMMA StageKickSafely ==
  ASSUME HalfInv, NEW p \in Players, NEW q \in Players, StageKick(p, q)
  PROVE  Safely
<1>1. view[p] \in Stages /\ StageLeave(q, view[p]) /\ view' = view
  BY DEF StageKick, Exists, HalfInv
<1> QED BY <1>1, StageLeaveSafely

\* The player who is banned and leaves in one step is the one that WholeBut lets
\* be banned and listed.
LEMMA KickPlayerSafely ==
  ASSUME HalfInv, NEW s \in Stages, NEW q \in Players, KickPlayer(s, q)
  PROVE  Safely
<1>1. stg \in [Stages -> StageRecords] /\ \A t \in Stages : Whole(stg[t])
  BY DEF HalfInv, Half
<1>2. PICK ban \in BOOLEAN, heir \in Heirs(stg[s], q) :
        LET g == IF ban THEN [stg[s] EXCEPT !.banned = @ \cup {q}] ELSE stg[s]
            after == LeaveWith(q, s, [stg EXCEPT ![s] = g], inbox, heir)
        IN  obj' = after.obj /\ stg' = after.stg /\ inbox' = after.inbox
  BY DEF KickPlayer
<1>3. view' = view
  BY DEF KickPlayer
<1>4. PICK g : g = IF ban THEN [stg[s] EXCEPT !.banned = @ \cup {q}] ELSE stg[s]
  OBVIOUS
<1>5. /\ g \in StageRecords /\ g.members = stg[s].members /\ g.master = stg[s].master
      /\ g.state = stg[s].state /\ g.banned \subseteq stg[s].banned \cup {q}
  BY <1>1, <1>4 DEF StageRecords
<1>6. PICK st : st = [stg EXCEPT ![s] = g]
  OBVIOUS
<1>7. /\ st \in [Stages -> StageRecords] /\ st[s] = g
      /\ \A t \in Stages : st[t].members = stg[t].members /\ st[t].state = stg[t].state
      /\ \A t \in Stages \ {s} : Whole(st[t])
  BY <1>1, <1>5, <1>6
<1>8. WholeBut(st[s], {q})
  BY <1>1, <1>5, <1>7 DEF Whole, WholeBut
<1>9. heir \in Heirs(st[s], q)
  BY <1>2, <1>5, <1>7 DEF Heirs
<1>10. PICK after : after = LeaveWith(q, s, st, inbox, heir)
  OBVIOUS
<1>11. obj' = after.obj /\ stg' = after.stg /\ inbox' = after.inbox
  BY <1>2, <1>4, <1>6, <1>10
<1> QED BY ONLY <1>3, <1>7, <1>8, <1>9, <1>10, <1>11, HalfInv, s \in Stages, q \in Players,
                LeaveSafely, Zenon

\* The client's own steps, whatever notice is next, and the requests that only
\* change what the player does.
LEMMA NoticeSafely ==
  ASSUME HalfInv, NEW p \in Players, ClientStep(p)
  PROVE  Safely
<1>1. /\ obj \in [Players -> Objects] /\ inbox \in [Players -> Seq(Notices)]
      /\ view \in [Players -> Stages \cup {NoStage}]
  BY DEF HalfInv, Half
<1>2. inbox[p] # <<>> /\ inbox' = [inbox EXCEPT ![p] = Tail(@)] /\ stg' = stg
  BY DEF ClientStep, ReceiveNotice, EnterBattle
<1>3. inbox' \in [Players -> Seq(Notices)] /\ Head(inbox[p]) \in Notices
  BY <1>1, <1>2, Handled
<1>4. view' \in [Players -> Stages \cup {NoStage}]
  BY <1>1, <1>3 DEF ClientStep, ReceiveNotice, EnterBattle, Notices
<1>5. obj' \in [Players -> Objects] /\ \A q \in Players : obj'[q].stage = obj[q].stage
  <2>1. CASE ReceiveNotice(p)
    BY <1>1, <2>1 DEF ReceiveNotice
  <2>2. CASE EnterBattle(p)
    BY <1>1, <2>2 DEF EnterBattle, Objects, Places
  <2> QED BY <2>1, <2>2 DEF ClientStep
<1> QED BY <1>2, <1>3, <1>4, <1>5, QuietSafely

LEMMA FlagsSafely ==
  ASSUME HalfInv, NEW p \in Players,
         LeaveBattle(p) \/ SetReady(p) \/ RequestForcedEntry(p)
  PROVE  Safely
<1>1. /\ obj \in [Players -> Objects] /\ inbox \in [Players -> Seq(Notices)]
      /\ view \in [Players -> Stages \cup {NoStage}]
  BY DEF HalfInv, Half
<1>2. stg' = stg /\ view' = view
  BY DEF LeaveBattle, SetReady, RequestForcedEntry
<1>3. inbox' \in [Players -> Seq(Notices)]
  <2>1. inbox' \in {inbox, Notify(inbox, {p}, Launch)}
    BY DEF LeaveBattle, SetReady, RequestForcedEntry
  <2> QED BY <1>1, <2>1, NotifyType, ObjectTypes
<1>4. obj' \in [Players -> Objects] /\ \A q \in Players : obj'[q].stage = obj[q].stage
  <2>1. CASE LeaveBattle(p)
    BY <1>1, <2>1 DEF LeaveBattle, Objects, Places
  <2>2. CASE SetReady(p)
    <3>1. PICK r \in BOOLEAN : obj' = [obj EXCEPT ![p].ready = r]
      BY <2>2 DEF SetReady
    <3> QED BY <1>1, <3>1 DEF Objects
  <2>3. CASE RequestForcedEntry(p)
    BY <1>1, <2>3 DEF RequestForcedEntry
  <2> QED BY <2>1, <2>2, <2>3
<1> QED BY <1>1, <1>2, <1>3, <1>4, QuietSafely

LEMMA StartGameSafely ==
  ASSUME HalfInv, NEW p \in Players, StartGame(p)
  PROVE  Safely
<1>1. /\ obj \in [Players -> Objects] /\ stg \in [Stages -> StageRecords]
      /\ \A t \in Stages : Whole(stg[t])
  BY DEF HalfInv, Half
<1>2. PICK s : s = view[p]
  OBVIOUS
<1>3. s \in Stages
  BY <1>2 DEF StartGame, Exists, HalfInv
<1>4. obj' = [q \in Players |-> IF q \in stg[s].members
                                  THEN [obj[q] EXCEPT !.launched = TRUE] ELSE obj[q]]
  BY <1>2 DEF StartGame
<1>5. obj' \in [Players -> Objects] /\ \A q \in Players : obj'[q].stage = obj[q].stage
  BY <1>1, <1>4 DEF Objects
<1>6. PICK g : g = [stg[s] EXCEPT !.state = "COUNTDOWN"]
  OBVIOUS
<1>7. stg' = [stg EXCEPT ![s] = g] /\ view' = view /\ inbox' = inbox
  BY <1>2, <1>6 DEF StartGame
<1>8. /\ g \in StageRecords /\ g.members = stg[s].members /\ g.master = stg[s].master
      /\ g.banned = stg[s].banned /\ g.state = "COUNTDOWN"
  BY <1>1, <1>3, <1>6 DEF StageRecords, StageStates
<1>9. Whole(g)
  BY <1>1, <1>3, <1>8 DEF Whole, WholeBut
<1> QED BY <1>3, <1>5, <1>7, <1>8, <1>9, QuietSafely DEF HalfInv

\* The stage an admin takes is the one its object names, which lists the admin.
LEMMA ChangeMasterSafely ==
  ASSUME HalfInv, NEW p \in Players, ChangeMaster(p)
  PROVE  Safely
<1>1. /\ obj \in [Players -> Objects] /\ stg \in [Stages -> StageRecords]
      /\ Listed(obj, stg) /\ \A t \in Stages : Whole(stg[t])
  BY DEF HalfInv, Half
<1>2. PICK s : s = obj[p].stage
  OBVIOUS
<1>3. s \in Stages /\ stg[s].state # "NONE"
  BY <1>1, <1>2 DEF ChangeMaster, Exists, Objects
<1>4. p \in stg[s].members
  BY <1>1, <1>2, <1>3 DEF Listed
<1>5. PICK g : g = [stg[s] EXCEPT !.master = p]
  OBVIOUS
<1>6. stg' = [stg EXCEPT ![s] = g] /\ obj' = obj /\ view' = view /\ inbox' = inbox
  BY <1>2, <1>5 DEF ChangeMaster
<1>7. /\ g \in StageRecords /\ g.members = stg[s].members /\ g.master = p
      /\ g.banned = stg[s].banned /\ g.state = stg[s].state
  BY <1>1, <1>3, <1>5 DEF StageRecords
<1>8. Whole(g)
  BY <1>1, <1>3, <1>4, <1>7 DEF Whole, WholeBut
<1> QED BY <1>1, <1>3, <1>6, <1>7, <1>8, QuietSafely DEF HalfInv

LEMMA ChangeSettingSafely ==
  ASSUME HalfInv, NEW p \in Players, ChangeSetting(p)
  PROVE  Safely
<1>1. /\ obj \in [Players -> Objects] /\ stg \in [Stages -> StageRecords]
      /\ \A t \in Stages : Whole(stg[t])
  BY DEF HalfInv, Half
<1>2. PICK s : s = view[p]
  OBVIOUS
<1>3. s \in Stages /\ stg[s].state # "NONE"
  BY <1>2 DEF ChangeSetting, Exists, HalfInv
<1>4. PICK n \in Capacities : stg' = [stg EXCEPT ![s].max = n]
  BY <1>2 DEF ChangeSetting
<1>5. PICK g : g = [stg[s] EXCEPT !.max = n]
  OBVIOUS
<1>6. stg' = [stg EXCEPT ![s] = g] /\ obj' = obj /\ view' = view /\ inbox' = inbox
  BY <1>4, <1>5 DEF ChangeSetting
<1>7. /\ g \in StageRecords /\ g.members = stg[s].members /\ g.master = stg[s].master
      /\ g.banned = stg[s].banned /\ g.state = stg[s].state
  BY <1>1, <1>3, <1>5 DEF StageRecords
<1>8. Whole(g)
  BY <1>1, <1>3, <1>7 DEF Whole, WholeBut
<1> QED BY <1>1, <1>3, <1>6, <1>7, <1>8, QuietSafely DEF HalfInv

\* A stage that a tick destroys has no players: closed or not, nobody is listed.
LEMMA TickSafely ==
  ASSUME HalfInv, NEW s \in Stages, Tick(s)
  PROVE  Safely
<1>1. /\ obj \in [Players -> Objects] /\ stg \in [Stages -> StageRecords]
      /\ inbox \in [Players -> Seq(Notices)] /\ \A t \in Stages : Whole(stg[t])
  BY DEF HalfInv, Half
<1>2. PICK g : g = stg[s]
  OBVIOUS
<1>3. PICK state \in TickStates(g) :
        /\ stg' = [stg EXCEPT ![s] = IF state = "CLOSE" THEN NoneStage
                                     ELSE [g EXCEPT !.state = state]]
        /\ obj' = [q \in Players |->
                     IF q \notin g.members THEN obj[q]
                     ELSE IF state = "CLOSE" THEN LobbyObject
                     ELSE IF g.state = "RUN" /\ state = "STANDBY"
                     THEN [obj[q] EXCEPT !.ready = FALSE] ELSE obj[q]]
        /\ inbox' = IF g.state = "COUNTDOWN" /\ state = "RUN"
                      THEN Notify(inbox, g.members, Launch) ELSE inbox
  BY <1>2 DEF Tick
<1>4. view' = view /\ g \in StageRecords /\ g.state # "NONE" /\ Whole(g)
  BY <1>1, <1>2 DEF Tick, Exists
<1>5. inbox' \in [Players -> Seq(Notices)]
  <2>1. inbox' \in {inbox, Notify(inbox, g.members, Launch)}
    BY <1>3
  <2> QED BY <1>1, <2>1, NotifyType, ObjectTypes
<1>6. obj' \in [Players -> Objects] /\ \A q \in Players : obj'[q].stage \in {obj[q].stage, NoStage}
  <2>1. \A q \in Players : /\ [obj[q] EXCEPT !.ready = FALSE] \in Objects
                           /\ [obj[q] EXCEPT !.ready = FALSE].stage = obj[q].stage
    BY <1>1 DEF Objects
  <2> QED BY <1>1, <1>3, <2>1, ObjectTypes
<1>7. CASE state = "CLOSE"
  <2>1. g.members = {}
    BY <1>3, <1>4, <1>7 DEF TickStates, Whole, WholeBut, StageRecords, StageStates
  <2>2. stg' = [stg EXCEPT ![s] = NoneStage] /\ NoneStage \in StageRecords
        /\ NoneStage.members = {} /\ Whole(NoneStage)
    BY <1>3, <1>7, ObjectTypes, NewWhole
  <2> QED BY <1>2, <1>4, <1>5, <1>6, <2>1, <2>2, QuietSafely DEF HalfInv
<1>8. CASE state # "CLOSE"
  <2>1. PICK h : h = [g EXCEPT !.state = state]
    OBVIOUS
  <2>2. stg' = [stg EXCEPT ![s] = h]
    BY <1>3, <1>8, <2>1
  <2>3. state \in StageStates /\ state # "NONE"
    BY <1>3, <1>4 DEF TickStates, StageStates, StageRecords
  <2>4. /\ h \in StageRecords /\ h.members = g.members /\ h.master = g.master
        /\ h.banned = g.banned /\ h.state = state
    BY <1>4, <2>1, <2>3 DEF StageRecords
  <2>5. Whole(h)
    BY <1>4, <1>8, <2>3, <2>4 DEF Whole, WholeBut
  <2> QED BY <1>2, <1>4, <1>5, <1>6, <2>2, <2>3, <2>4, <2>5, QuietSafely DEF HalfInv
<1> QED BY <1>7, <1>8

LEMMA StepSafely ==
  ASSUME HalfInv, [Next]_vars
  PROVE  Safely
<1>1. CASE UNCHANGED vars
  BY <1>1 DEF vars, HalfInv, Half, Listed, Lasting, Safely
<1>2. ASSUME NEW p \in Players, PlayerStep(p)
      PROVE  Safely
  <2>1. CASE Connect(p)
    BY <2>1, ConnectSafely
  <2>2. CASE Disconnect(p)
    BY <2>2, DisconnectSafely
  <2>3. ASSUME NEW s \in Stages, CreateStage(p, s) PROVE Safely
    BY <2>3, CreateStageSafely
  <2>4. ASSUME NEW s \in Stages, JoinStage(p, s) PROVE Safely
    BY <2>4, JoinStageSafely
  <2>5. ASSUME NEW q \in Players, FollowPlayer(p, q) PROVE Safely
    BY <2>5, FollowPlayerSafely
  <2>6. ASSUME NEW q \in Players, StageKick(p, q) PROVE Safely
    BY <2>6, StageKickSafely
  <2>7. CASE LeaveStage(p)
    BY <2>7, LeaveStageSafely
  <2>8. CASE LeaveBattle(p) \/ SetReady(p) \/ RequestForcedEntry(p)
    BY <2>8, FlagsSafely
  <2>9. CASE StartGame(p)
    BY <2>9, StartGameSafely
  <2>10. CASE ChangeMaster(p)
    BY <2>10, ChangeMasterSafely
  <2>11. CASE ChangeSetting(p)
    BY <2>11, ChangeSettingSafely
  <2> QED BY <1>2, <2>1, <2>2, <2>3, <2>4, <2>5, <2>6, <2>7, <2>8, <2>9, <2>10, <2>11
          DEF PlayerStep
<1>3. ASSUME NEW p \in Players, ClientStep(p) PROVE Safely
  BY <1>3, NoticeSafely
<1>4. ASSUME NEW s \in Stages, Tick(s) PROVE Safely
  BY <1>4, TickSafely
<1>5. ASSUME NEW s \in Stages, NEW q \in Players, KickPlayer(s, q) PROVE Safely
  BY <1>5, KickPlayerSafely
<1> QED BY <1>1, <1>2, <1>3, <1>4, <1>5 DEF Next

LEMMA HalfInit == Init => HalfInv
<1> SUFFICES ASSUME Init PROVE HalfInv
  OBVIOUS
<1>1. obj \in [Players -> Objects] /\ stg \in [Stages -> StageRecords]
  BY ObjectTypes DEF Init
<1>2. Listed(obj, stg)
  BY ObjectTypes, StagesAssumption DEF Init, Listed
<1>3. \A s \in Stages : Whole(stg[s])
  BY NewWhole DEF Init
<1> QED BY <1>1, <1>2, <1>3 DEF Init, HalfInv, Half

\* Whatever clients ask and when, every reachable state satisfies HalfInv.
THEOREM HalfInvariance == Spec => []HalfInv
<1>1. HalfInv /\ [Next]_vars => HalfInv'
  BY StepSafely DEF Safely
<1> QED BY <1>1, HalfInit, PTL DEF Spec

-----------------------------------------------------------------------------
(* The results.                                                            *)

\* Objects, stages, the clients' views and notices keep their types.
THEOREM TypeCorrect == Spec => []TypeOK
<1>1. HalfInv => TypeOK
  BY DEF HalfInv, Half, TypeOK
<1> QED BY <1>1, HalfInvariance, PTL

\* Whom an object names the stage of (GetStageUID), that stage lists among its
\* objects: one half of what the two records of membership would say together.
THEOREM MembershipSound == Spec => []NamedStageLists
<1>1. HalfInv => NamedStageLists
  BY DEF HalfInv, Half, Listed, NamedStageLists
<1> QED BY <1>1, HalfInvariance, PTL

\* A stage with players always has one of them as its master.
THEOREM MasterSound == Spec => []MasterIsMember
<1>1. HalfInv => MasterIsMember
  BY DEF HalfInv, Half, Whole, WholeBut, MasterIsMember
<1> QED BY <1>1, HalfInvariance, PTL

\* Nobody is in a stage that banned them, admins excepted, in whatever order a
\* client's requests are answered.
THEOREM BannedSound == Spec => []BannedStayOut
<1>1. HalfInv => BannedStayOut
  BY DEF HalfInv, Half, Whole, WholeBut, BannedStayOut
<1> QED BY <1>1, HalfInvariance, PTL

\* A stage that disappears had nobody in it.
THEOREM RemovalSound == Spec => RemovedOnlyEmpty
<1> DEFINE A == \A s \in Stages : Exists(stg, s) /\ ~ Exists(stg', s) => stg[s].members = {}
<1>1. HalfInv /\ [Next]_vars => [A]_vars
  BY StepSafely DEF Safely, Lasting, Exists
<1> QED BY <1>1, HalfInvariance, PTL DEF Spec, RemovedOnlyEmpty
=============================================================================
