-------------------------- MODULE DocumentProofs --------------------------
(***************************************************************************)
(* Theorems about what a document has beside its text: the rooms that      *)
(* serve it (RoomLifecycle), for any set of connections, and its history   *)
(* of versions (Versions), for any histories and any order of answers.     *)
(***************************************************************************)
EXTENDS RoomLifecycle, Versions, TLAPS

(***************************************************************************)
(* Rooms: type correctness, and that no room is left behind                *)
(* (NoOrphanRoom), from the inductive invariant LifeInv.                   *)
(***************************************************************************)

\* Every step keeps the types.
LEMMA TypeStep ==
  ASSUME TypeOK, [Next]_vars
  PROVE  TypeOK'
<1>1. ASSUME NEW c \in Conns, Do(c)
      PROVE  TypeOK'
  BY <1>1, Zenon DEF TypeOK, Creating, Closing, Tasks, Rooms,
      vars, connVars, roomVars, taskVars, Do
<1>2. ASSUME NEW c \in Conns, Recheck(c)
      PROVE  TypeOK'
  <2>1. CASE reg # None
    <3>1. ReturnAll(c, reg) /\ UNCHANGED <<open, reg, roomVars, taskVars, exited>>
      BY <1>2, <2>1, Zenon DEF Recheck
    <3>2. QED
      BY <2>1, <3>1, Zenon DEF TypeOK, Creating, Closing, Tasks, Rooms,
      vars, connVars, roomVars, taskVars, ReturnAll
  <2>2. CASE reg = None
    BY <1>2, <2>2, Zenon DEF TypeOK, Creating, Closing, Tasks, Rooms,
      vars, connVars, roomVars, taskVars, Recheck
  <2>3. QED
    BY <2>1, <2>2, Zenon
<1>3. ASSUME NEW c \in Conns, Store(c)
      PROVE  TypeOK'
  BY <1>3, Zenon DEF TypeOK, Creating, Closing, Tasks, Rooms,
      vars, connVars, roomVars, taskVars, Store
<1>4. ASSUME NEW c \in Conns, Deliver(c)
      PROVE  TypeOK'
  BY <1>4, Zenon DEF TypeOK, Creating, Closing, Tasks, Rooms,
      vars, connVars, roomVars, taskVars, Deliver, ReturnAll
<1>5. ASSUME NEW c \in Conns, AddPeer(c)
      PROVE  TypeOK'
  BY <1>5, Zenon DEF TypeOK, Creating, Closing, Tasks, Rooms,
      vars, connVars, roomVars, taskVars, AddPeer
<1>6. ASSUME NEW c \in Conns, RemovePeer(c)
      PROVE  TypeOK'
  BY <1>6, Zenon DEF TypeOK, Creating, Closing, Tasks, Rooms,
      vars, connVars, roomVars, taskVars, RemovePeer
<1>7. ASSUME NEW c \in Conns, NEW subscribed \in BOOLEAN, Bootstrap(c, subscribed)
      PROVE  TypeOK'
  BY <1>7, Zenon DEF TypeOK, Creating, Closing, Tasks, Rooms,
      vars, connVars, roomVars, taskVars, Bootstrap
<1>8. ASSUME NEW c \in Conns, Connect(c)
      PROVE  TypeOK'
  BY <1>8, Zenon DEF TypeOK, Creating, Closing, Tasks, Rooms,
      vars, connVars, roomVars, taskVars, Connect
<1>9. ASSUME NEW c \in Conns, Update(c)
      PROVE  TypeOK'
  BY <1>9, Zenon DEF TypeOK, Creating, Closing, Tasks, Rooms,
      vars, connVars, roomVars, taskVars, Update
<1>10. ASSUME NEW c \in Conns, ReadEnds(c)
      PROVE  TypeOK'
  BY <1>10, Zenon DEF TypeOK, Creating, Closing, Tasks, Rooms,
      vars, connVars, roomVars, taskVars, ReadEnds
<1>11. ASSUME NEW t \in Conns, TimerFires(t)
      PROVE  TypeOK'
  BY <1>11, Zenon DEF TypeOK, Creating, Closing, Tasks, Rooms,
      vars, connVars, roomVars, taskVars, TimerFires
<1>12. ASSUME NEW t \in Conns, PeerCount(t)
      PROVE  TypeOK'
  BY <1>12, Zenon DEF TypeOK, Creating, Closing, Tasks, Rooms,
      vars, connVars, roomVars, taskVars, PeerCount
<1>13. ASSUME NEW t \in Conns, Remove(t)
      PROVE  TypeOK'
  BY <1>13, Zenon DEF TypeOK, Creating, Closing, Tasks, Rooms,
      vars, connVars, roomVars, taskVars, Remove
<1>14. ASSUME NEW t \in Tasks, CloseChannel(t)
      PROVE  TypeOK'
  <2>1. /\ closed' \in [Rooms -> BOOLEAN]
        /\ once' \in [Rooms -> {"no", "running", "done"}]
    BY <1>14, Zenon DEF TypeOK, CloseChannel
  <2>2. task' \in [Tasks -> {"none", "armed", "count", "remove", "after", "end"} \cup Closing]
    BY <1>14, Zenon DEF TypeOK, CloseChannel, Closing
  <2>3. UNCHANGED <<connVars, reg, peers, done, loop, buf, open, victim, exited>>
    BY <1>14, Zenon DEF CloseChannel
  <2>4. QED
    BY <2>1, <2>2, <2>3, Zenon DEF TypeOK, connVars
<1>15. ASSUME NEW t \in Tasks, ClosePeers(t)
      PROVE  TypeOK'
  BY <1>15, Zenon DEF TypeOK, Creating, Closing, Tasks, Rooms,
      vars, connVars, roomVars, taskVars, ClosePeers
<1>16. ASSUME NEW t \in Tasks, CloseEngine(t)
      PROVE  TypeOK'
  BY <1>16, Zenon DEF TypeOK, Creating, Closing, Tasks, Rooms,
      vars, connVars, roomVars, taskVars, CloseEngine
<1>17. ASSUME NEW t \in Tasks, AfterClose(t)
      PROVE  TypeOK'
  BY <1>17, Zenon DEF TypeOK, Creating, Closing, Tasks, Rooms,
      vars, connVars, roomVars, taskVars, AfterClose
<1>18. ASSUME NEW r \in Rooms, Tick(r)
      PROVE  TypeOK'
  BY <1>18, Zenon DEF TypeOK, Creating, Closing, Tasks, Rooms,
      vars, connVars, roomVars, taskVars, Tick
<1>19. ASSUME NEW r \in Rooms, NEW acquired \in BOOLEAN, OnClose(r, acquired)
      PROVE  TypeOK'
  BY <1>19, Zenon DEF TypeOK, Creating, Closing, Tasks, Rooms,
      vars, connVars, roomVars, taskVars, OnClose
<1>20. ASSUME NEW r \in Rooms, NEW requeued \in BOOLEAN, FlushReturns(r, requeued)
      PROVE  TypeOK'
  BY <1>20, Zenon DEF TypeOK, Creating, Closing, Tasks, Rooms,
      vars, connVars, roomVars, taskVars, FlushReturns
<1>21. ASSUME NEW r \in Rooms, BrokerUpdate(r)
      PROVE  TypeOK'
  BY <1>21, Zenon DEF TypeOK, Creating, Closing, Tasks, Rooms,
      vars, connVars, roomVars, taskVars, BrokerUpdate
<1>22. CASE CloseAll
  BY <1>22, Zenon DEF TypeOK, Creating, Closing, Tasks, Rooms,
      vars, connVars, roomVars, taskVars, CloseAll
<1>23. CASE Exit
  BY <1>23, Zenon DEF TypeOK, Creating, Closing, Tasks, Rooms,
      vars, connVars, roomVars, taskVars, Exit
<1>24. CASE UNCHANGED vars
  BY <1>24, Zenon DEF TypeOK, Creating, Closing, Tasks, Rooms,
      vars, connVars, roomVars, taskVars
<1>25. QED
  BY <1>1, <1>2, <1>3, <1>4, <1>5, <1>6, <1>7, <1>8, <1>9, <1>10, <1>11, <1>12, <1>13, <1>14, <1>15,
     <1>16, <1>17, <1>18, <1>19, <1>20, <1>21, <1>22, <1>23, <1>24, Zenon
  DEF Next, ConnStep, ClientStep, TimerStep, CloseStep, LoopStep

\* The variables of the lifecycle always have their types.
THEOREM TypeCorrect == Spec => []TypeOK
<1>1. Init => TypeOK
  <2> SUFFICES ASSUME Init PROVE TypeOK
    BY Zenon
  <2>1. /\ closed \in [Rooms -> BOOLEAN] /\ buf \in [Rooms -> BOOLEAN]
        /\ open \in BOOLEAN /\ exited \in BOOLEAN
    BY Zenon DEF Init
  <2>2. /\ peers \in [Rooms -> SUBSET (Conns \cup {Broker})]
        /\ done \in [Rooms -> SUBSET (Conns \cup {Broker})]
    BY SMT DEF Init
  <2>3. /\ pc \in [Conns -> {"start"}] /\ room \in [Conns -> {None}]
        /\ once \in [Rooms -> {"no"}] /\ loop \in [Rooms -> {"none"}]
        /\ task \in [Tasks -> {"none"}] /\ victim \in [Tasks -> {None}]
    BY SMT DEF Init
  <2>4. reg = None /\ flight = None
    BY Zenon DEF Init
  <2>5. QED
    BY <2>1, <2>2, <2>3, <2>4 DEF TypeOK
<1>2. QED
  BY <1>1, TypeStep, PTL DEF Spec

\* Every step keeps the inductive invariant.
LEMMA LifeStep ==
  ASSUME TypeOK, LifeInv, [Next]_vars
  PROVE  LifeInv'
<1>1. ASSUME NEW c \in Conns, Do(c)
      PROVE  LifeInv'
  BY <1>1, NamesAssumption
  DEF TypeOK, LifeInv, NoOrphanRoom, Live, Creating, Closing, Tasks, Rooms,
      vars, connVars, roomVars, taskVars, Do
<1>2. ASSUME NEW c \in Conns, Recheck(c)
      PROVE  LifeInv'
  BY <1>2, NamesAssumption
  DEF TypeOK, LifeInv, NoOrphanRoom, Live, Creating, Closing, Tasks, Rooms,
      vars, connVars, roomVars, taskVars, Recheck, ReturnAll
<1>3. ASSUME NEW c \in Conns, Store(c)
      PROVE  LifeInv'
  BY <1>3, NamesAssumption
  DEF TypeOK, LifeInv, NoOrphanRoom, Live, Creating, Closing, Tasks, Rooms,
      vars, connVars, roomVars, taskVars, Store
<1>4. ASSUME NEW c \in Conns, Deliver(c)
      PROVE  LifeInv'
  BY <1>4, NamesAssumption
  DEF TypeOK, LifeInv, NoOrphanRoom, Live, Creating, Closing, Tasks, Rooms,
      vars, connVars, roomVars, taskVars, Deliver, ReturnAll
<1>5. ASSUME NEW c \in Conns, AddPeer(c)
      PROVE  LifeInv'
  BY <1>5, NamesAssumption
  DEF TypeOK, LifeInv, NoOrphanRoom, Live, Creating, Closing, Tasks, Rooms,
      vars, connVars, roomVars, taskVars, AddPeer
<1>6. ASSUME NEW c \in Conns, RemovePeer(c)
      PROVE  LifeInv'
  BY <1>6, NamesAssumption
  DEF TypeOK, LifeInv, NoOrphanRoom, Live, Creating, Closing, Tasks, Rooms,
      vars, connVars, roomVars, taskVars, RemovePeer
<1>7. ASSUME NEW c \in Conns, NEW subscribed \in BOOLEAN, Bootstrap(c, subscribed)
      PROVE  LifeInv'
  BY <1>7, NamesAssumption
  DEF TypeOK, LifeInv, NoOrphanRoom, Live, Creating, Closing, Tasks, Rooms,
      vars, connVars, roomVars, taskVars, Bootstrap
<1>8. ASSUME NEW c \in Conns, Connect(c)
      PROVE  LifeInv'
  BY <1>8, NamesAssumption
  DEF TypeOK, LifeInv, NoOrphanRoom, Live, Creating, Closing, Tasks, Rooms,
      vars, connVars, roomVars, taskVars, Connect
<1>9. ASSUME NEW c \in Conns, Update(c)
      PROVE  LifeInv'
  BY <1>9, NamesAssumption
  DEF TypeOK, LifeInv, NoOrphanRoom, Live, Creating, Closing, Tasks, Rooms,
      vars, connVars, roomVars, taskVars, Update
<1>10. ASSUME NEW c \in Conns, ReadEnds(c)
      PROVE  LifeInv'
  BY <1>10, NamesAssumption
  DEF TypeOK, LifeInv, NoOrphanRoom, Live, Creating, Closing, Tasks, Rooms,
      vars, connVars, roomVars, taskVars, ReadEnds
<1>11. ASSUME NEW t \in Conns, TimerFires(t)
      PROVE  LifeInv'
  BY <1>11, NamesAssumption
  DEF TypeOK, LifeInv, NoOrphanRoom, Live, Creating, Closing, Tasks, Rooms,
      vars, connVars, roomVars, taskVars, TimerFires
<1>12. ASSUME NEW t \in Conns, PeerCount(t)
      PROVE  LifeInv'
  BY <1>12, NamesAssumption
  DEF TypeOK, LifeInv, NoOrphanRoom, Live, Creating, Closing, Tasks, Rooms,
      vars, connVars, roomVars, taskVars, PeerCount
<1>13. ASSUME NEW t \in Conns, Remove(t)
      PROVE  LifeInv'
  BY <1>13, NamesAssumption
  DEF TypeOK, LifeInv, NoOrphanRoom, Live, Creating, Closing, Tasks, Rooms,
      vars, connVars, roomVars, taskVars, Remove
<1>14. ASSUME NEW t \in Tasks, CloseChannel(t)
      PROVE  LifeInv'
  BY <1>14, NamesAssumption
  DEF TypeOK, LifeInv, NoOrphanRoom, Live, Creating, Closing, Tasks, Rooms,
      vars, connVars, roomVars, taskVars, CloseChannel
<1>15. ASSUME NEW t \in Tasks, ClosePeers(t)
      PROVE  LifeInv'
  BY <1>15, NamesAssumption
  DEF TypeOK, LifeInv, NoOrphanRoom, Live, Creating, Closing, Tasks, Rooms,
      vars, connVars, roomVars, taskVars, ClosePeers
<1>16. ASSUME NEW t \in Tasks, CloseEngine(t)
      PROVE  LifeInv'
  BY <1>16, NamesAssumption
  DEF TypeOK, LifeInv, NoOrphanRoom, Live, Creating, Closing, Tasks, Rooms,
      vars, connVars, roomVars, taskVars, CloseEngine
<1>17. ASSUME NEW t \in Tasks, AfterClose(t)
      PROVE  LifeInv'
  BY <1>17, NamesAssumption
  DEF TypeOK, LifeInv, NoOrphanRoom, Live, Creating, Closing, Tasks, Rooms,
      vars, connVars, roomVars, taskVars, AfterClose
<1>18. ASSUME NEW r \in Rooms, Tick(r)
      PROVE  LifeInv'
  BY <1>18, NamesAssumption
  DEF TypeOK, LifeInv, NoOrphanRoom, Live, Creating, Closing, Tasks, Rooms,
      vars, connVars, roomVars, taskVars, Tick
<1>19. ASSUME NEW r \in Rooms, NEW acquired \in BOOLEAN, OnClose(r, acquired)
      PROVE  LifeInv'
  BY <1>19, NamesAssumption
  DEF TypeOK, LifeInv, NoOrphanRoom, Live, Creating, Closing, Tasks, Rooms,
      vars, connVars, roomVars, taskVars, OnClose
<1>20. ASSUME NEW r \in Rooms, NEW requeued \in BOOLEAN, FlushReturns(r, requeued)
      PROVE  LifeInv'
  BY <1>20, NamesAssumption
  DEF TypeOK, LifeInv, NoOrphanRoom, Live, Creating, Closing, Tasks, Rooms,
      vars, connVars, roomVars, taskVars, FlushReturns
<1>21. ASSUME NEW r \in Rooms, BrokerUpdate(r)
      PROVE  LifeInv'
  BY <1>21, NamesAssumption
  DEF TypeOK, LifeInv, NoOrphanRoom, Live, Creating, Closing, Tasks, Rooms,
      vars, connVars, roomVars, taskVars, BrokerUpdate
<1>22. CASE CloseAll
  BY <1>22, NamesAssumption
  DEF TypeOK, LifeInv, NoOrphanRoom, Live, Creating, Closing, Tasks, Rooms,
      vars, connVars, roomVars, taskVars, CloseAll
<1>23. CASE Exit
  BY <1>23, NamesAssumption, Zenon
  DEF TypeOK, LifeInv, NoOrphanRoom, Live, Creating, Closing, Tasks, Rooms,
      vars, connVars, roomVars, taskVars, Exit
<1>24. CASE UNCHANGED vars
  BY <1>24, NamesAssumption
  DEF TypeOK, LifeInv, NoOrphanRoom, Live, Creating, Closing, Tasks, Rooms,
      vars, connVars, roomVars, taskVars
<1>25. QED
  BY <1>1, <1>2, <1>3, <1>4, <1>5, <1>6, <1>7, <1>8, <1>9, <1>10, <1>11, <1>12, <1>13, <1>14, <1>15,
     <1>16, <1>17, <1>18, <1>19, <1>20, <1>21, <1>22, <1>23, <1>24, Zenon
  DEF Next, ConnStep, ClientStep, TimerStep, CloseStep, LoopStep

\* Until shutdown no room with a live flush goroutine is unreachable, however
\* many connections come, leave and time out at once: GetOrCreate's second
\* Load and Remove's LoadAndDelete account for every room.
THEOREM NoOrphanCorrect == Spec => []NoOrphanRoom
<1>1. Init => LifeInv
  BY NamesAssumption DEF Init, LifeInv, NoOrphanRoom, Live, Tasks, Rooms, Creating, Closing
<1>2. LifeInv => NoOrphanRoom
  BY Zenon DEF LifeInv
<1>3. QED
  BY <1>1, <1>2, LifeStep, TypeCorrect, PTL DEF Spec

----
(***************************************************************************)
(* Versions.                                                               *)
(***************************************************************************)

\* What leaving a view relies on: attach captured the host's readonly, and no
\* view outlives the document it was opened on.
ViewInv ==
    /\ readonly \in [now : BOOLEAN, attach : BOOLEAN, changed : BOOLEAN]
    /\ locked \in BOOLEAN /\ viewing \in BOOLEAN /\ attached \in BOOLEAN
    /\ ~attached => ~viewing
    /\ ~readonly.changed => readonly.attach = readonly.now
    /\ LockMatches

LEMMA ExitKeepsView ==
    ASSUME ViewInv, attached, ExitVersionView, UNCHANGED <<readonly, attached>>
    PROVE  ViewInv'
<1>1. CASE viewing
  BY <1>1, Zenon DEF ViewInv, LockMatches, ExitVersionView
<1>2. CASE ~viewing
  BY <1>2, Zenon DEF ViewInv, LockMatches, ExitVersionView, viewVars
<1> QED
  BY <1>1, <1>2, Zenon

\* The steps that leave the lock, the view and the host's readonly alone.
ViewFrame == UNCHANGED <<viewing, locked, readonly, attached>>

LEMMA FrameKeepsView ==
    ASSUME ViewInv, ViewFrame
    PROVE  ViewInv'
  BY Zenon DEF ViewInv, LockMatches, ViewFrame

\* What a step may do to the view.
LEMMA ViewSteps ==
    ASSUME VersionsNext
    PROVE  \/ ViewFrame /\ (UNCHANGED selected \/ UNCHANGED live)
           \/ \E r \in pending : Viewed(r) \/ RevertToVersion(r)
           \/ SetReadonly \/ ClosePanel \/ Detach
           \/ \E text \in Texts : Attach(text)
<1> USE DEF ViewFrame, viewVars
<1>1. ASSUME NEW r \in pending, Answer(r)
      PROVE  (ViewFrame /\ (UNCHANGED selected \/ UNCHANGED live)) \/ Viewed(r) \/ RevertToVersion(r)
  BY <1>1, Zenon DEF Answer, Listed, Saved, RevertSaved, Fails, Selected, DiffFirst, DiffSecond
<1>2. ASSUME NEW text \in Texts, Edit(text) PROVE ViewFrame /\ UNCHANGED selected
  BY <1>2, Zenon DEF Edit
<1>3. ASSUME NEW v \in versions, SelectVersion(v) PROVE ViewFrame /\ UNCHANGED selected
  BY <1>3, Zenon DEF SelectVersion
<1>4. ASSUME NEW op, ViewOrRevert(op) PROVE ViewFrame /\ UNCHANGED selected
  BY <1>4, Zenon DEF ViewOrRevert
<1>5. ASSUME VersionCreated \/ Compare \/ ClearSelection \/ BackToList \/ Save \/ OpenPanel
      PROVE  ViewFrame /\ UNCHANGED selected
  BY <1>5, Zenon DEF VersionCreated, Compare, ClearSelection, BackToList, Save, OpenPanel
<1> QED
  BY <1>1, <1>2, <1>3, <1>4, <1>5, Zenon DEF VersionsNext

LEMMA ViewStep ==
    ASSUME ViewInv, [VersionsNext]_versionsVars
    PROVE  ViewInv'
<1>1. CASE ViewFrame
  BY <1>1, FrameKeepsView, Zenon
<1>2. ASSUME NEW r \in pending, Viewed(r) PROVE ViewInv'
  BY <1>2, Zenon DEF ViewInv, LockMatches, Viewed
<1>3. ASSUME NEW r \in pending, RevertToVersion(r) PROVE ViewInv'
  BY <1>3, ExitKeepsView, Zenon DEF RevertToVersion
<1>4. CASE SetReadonly
  <2>1. readonly' \in [now : BOOLEAN, attach : BOOLEAN, changed : BOOLEAN] /\ readonly'.changed
    BY <1>4, Zenon DEF ViewInv, SetReadonly
  <2>2. locked' \in BOOLEAN /\ UNCHANGED <<viewing, attached>>
    BY <1>4, Zenon DEF ViewInv, SetReadonly
  <2> QED
    BY <2>1, <2>2, Zenon DEF ViewInv, LockMatches
<1>5. CASE ClosePanel
  BY <1>5, ExitKeepsView, Zenon DEF ClosePanel
<1>6. CASE Detach
  BY <1>6, Zenon DEF ViewInv, LockMatches, Detach
<1>7. ASSUME NEW text \in Texts, Attach(text) PROVE ViewInv'
  <2>1. /\ readonly' = HostReadonly(readonly.now) /\ readonly.now \in BOOLEAN
        /\ locked' = readonly.now /\ ~viewing /\ viewing' = viewing /\ attached' = TRUE
    BY <1>7, Zenon DEF ViewInv, Attach
  <2> QED
    BY <2>1, Zenon DEF ViewInv, LockMatches, HostReadonly
<1>8. CASE UNCHANGED versionsVars
  BY <1>8, FrameKeepsView, Zenon DEF versionsVars, ViewFrame
<1> QED
  BY <1>1, <1>2, <1>3, <1>4, <1>5, <1>6, <1>7, <1>8, ViewSteps, Zenon

LEMMA ViewHolds == VersionsSpec => []ViewInv
<1>1. VersionsInit => ViewInv
  <2> SUFFICES ASSUME VersionsInit PROVE ViewInv
    BY Zenon
  <2>1. /\ readonly \in [now : BOOLEAN, attach : BOOLEAN, changed : BOOLEAN]
        /\ readonly.now = FALSE /\ readonly.attach = FALSE
    BY Zenon DEF VersionsInit, HostReadonly
  <2>2. attached = TRUE /\ locked = FALSE /\ viewing = FALSE
    BY Zenon DEF VersionsInit
  <2> QED
    BY <2>1, <2>2, Zenon DEF ViewInv, LockMatches
<1>2. ViewInv /\ [VersionsNext]_versionsVars => ViewInv'
  BY ViewStep, Zenon
<1> QED
  BY <1>1, <1>2, PTL DEF VersionsSpec

\* The binding is locked while a version is viewed or the host holds the editor
\* read-only, and only then (VersionCoordinator's view, exit, revert and detach).
THEOREM LockMatchesCorrect == VersionsSpec => []LockMatches
<1>1. ViewInv => LockMatches
  BY Zenon DEF ViewInv
<1> QED
  BY <1>1, ViewHolds, PTL

\* No answer that opens a version view changes a document that has content
\* (the binding's setContent), nor does attaching to the next document show the
\* last one's view.
THEOREM ViewKeepsCorrect == VersionsSpec => ViewKeepsDocument
<1>1. ASSUME ViewInv, [VersionsNext]_versionsVars
      PROVE  [viewing' /\ selected' # selected /\ live # <<>> => live' = live]_versionsVars
  <2>1. ASSUME NEW r \in pending, Viewed(r), live # <<>> PROVE live' = live
    BY <2>1, Zenon DEF Viewed, SetContent
  <2>2. ASSUME ExitVersionView, viewing' PROVE UNCHANGED selected
    <3>1. CASE viewing
      BY <2>2, <3>1, Zenon DEF ExitVersionView
    <3>2. CASE ~viewing
      BY <3>2, <2>2, Zenon DEF ExitVersionView, viewVars
    <3> QED
      BY <3>1, <3>2, Zenon
  <2>3. ASSUME NEW text \in Texts, Attach(text) PROVE ~viewing'
    <3>1. ~attached /\ viewing' = viewing
      BY <2>3, Zenon DEF Attach
    <3> QED
      BY <1>1, <3>1, Zenon DEF ViewInv
  <2>4. CASE UNCHANGED versionsVars
    BY <2>4, Zenon
  <2>5. CASE VersionsNext
    <3>1. ASSUME NEW r \in pending, RevertToVersion(r) PROVE ExitVersionView
      BY <3>1, Zenon DEF RevertToVersion
    <3>2. SetReadonly => UNCHANGED selected
      BY Zenon DEF SetReadonly
    <3>3. ClosePanel => UNCHANGED live
      BY Zenon DEF ClosePanel
    <3>4. Detach => ~viewing'
      BY Zenon DEF Detach
    <3> QED
      BY <2>1, <2>2, <2>3, <2>5, <3>1, <3>2, <3>3, <3>4, ViewSteps, Zenon
  <2> QED
    BY <1>1, <2>4, <2>5, Zenon
<1> QED
  BY <1>1, ViewHolds, PTL DEF VersionsSpec, ViewKeepsDocument
----
\* v is a version that its document's history holds.
Stored(v) == v \in AllVersions /\ v.id <= Len(store[v.doc])

RequestTyped(q) ==
    /\ q.op \in Ops /\ q.doc \in DOMAIN Histories /\ q.text \in Contents
    /\ q.vs \in Seq(AllVersions)
    /\ \A i \in DOMAIN q.vs : Stored(q.vs[i])
    /\ q.op \in {"select", "view", "revert"} => Len(q.vs) = 1
    /\ q.op \in {"diff", "diff2"} => Len(q.vs) = 2

StoreTyped ==
    /\ store \in [DOMAIN Histories -> Seq(Contents)]
    /\ \A d \in DOMAIN Histories : Len(Histories[d]) <= Len(store[d]) /\ Len(store[d]) <= MaxVersions

PanelTyped ==
    /\ panel \in [from : AllVersions \cup {Null}, to : AllVersions \cup {Null}, view : {"list", "diff"}]
    /\ panel.from # Null => Stored(panel.from)
    /\ panel.to # Null => Stored(panel.to)
    /\ TwoToCompare

DiffTyped ==
    diffResult # Null => /\ diffResult.of \in Seq(AllVersions)
                         /\ \A i \in DOMAIN diffResult.of : Stored(diffResult.of[i])

VersionsInv ==
    /\ StoreTyped /\ PanelTyped /\ DiffTyped
    /\ doc \in DOMAIN Histories /\ live \in Contents /\ sent \in 0 .. MaxRequests /\ panelOpen \in BOOLEAN
    /\ \A v \in versions : Stored(v)
    /\ selected # Null => Stored(selected)
    /\ \A q \in pending : RequestTyped(q)

\* The histories grow.
Grows == StoreTyped' /\ \A d \in DOMAIN Histories : Len(store[d]) <= Len(store'[d])

LEMMA GrowsKeeps ==
    ASSUME StoreTyped, Grows
    PROVE  /\ \A v : Stored(v) => Stored(v)'
           /\ \A q : RequestTyped(q) => RequestTyped(q)'
<1>1. ASSUME NEW v, Stored(v) PROVE Stored(v)'
  <2>1. v \in AllVersions /\ v.doc \in DOMAIN Histories /\ v.id \in Nat /\ v.id <= Len(store[v.doc])
    BY <1>1 DEF Stored, AllVersions
  <2>2. Len(store[v.doc]) \in Nat /\ Len(store'[v.doc]) \in Nat /\ Len(store[v.doc]) <= Len(store'[v.doc])
    BY <2>1 DEF Grows, StoreTyped
  <2> QED
    BY <2>1, <2>2 DEF Stored
<1> QED
  BY <1>1, Zenon DEF RequestTyped

LEMMA AppendGrows ==
    ASSUME StoreTyped, NEW d \in DOMAIN Histories, NEW text \in Contents, Len(store[d]) < MaxVersions,
           store' = [store EXCEPT ![d] = Append(@, text)]
    PROVE  Grows /\ \A v : v = Version(d, Len(store[d]) + 1) => Stored(v)'
<1>1. store[d] \in Seq(Contents) /\ Len(store[d]) \in Nat /\ MaxVersions \in Nat
  BY BoundsAssumption DEF StoreTyped
<1>2. Append(store[d], text) \in Seq(Contents) /\ Len(Append(store[d], text)) = Len(store[d]) + 1
  BY <1>1
<1>3. store'[d] = Append(store[d], text) /\ \A e \in DOMAIN Histories : e # d => store'[e] = store[e]
  BY Zenon DEF StoreTyped
<1>4. store' \in [DOMAIN Histories -> Seq(Contents)]
  BY <1>2, Zenon DEF StoreTyped
<1>5. ASSUME NEW e \in DOMAIN Histories
      PROVE  /\ Len(Histories[e]) <= Len(store'[e]) /\ Len(store'[e]) <= MaxVersions
             /\ Len(store[e]) <= Len(store'[e])
  <2>1. Len(store[e]) \in Nat /\ Len(Histories[e]) \in Nat
    BY HistoriesAssumption DEF StoreTyped
  <2>2. CASE e = d
    BY <1>1, <1>2, <1>3, <2>1, <2>2 DEF StoreTyped
  <2>3. CASE e # d
    BY <1>3, <2>1, <2>3 DEF StoreTyped
  <2> QED
    BY <2>2, <2>3, Zenon
<1>6. Version(d, Len(store[d]) + 1) \in AllVersions
  BY <1>1 DEF Version, AllVersions
<1>7. Version(d, Len(store[d]) + 1).doc = d /\ Version(d, Len(store[d]) + 1).id = Len(store[d]) + 1
  BY Zenon DEF Version
<1>8. Grows
  BY <1>4, <1>5, Zenon DEF Grows, StoreTyped
<1>9. ASSUME NEW v, v = Version(d, Len(store[d]) + 1) PROVE Stored(v)'
  BY <1>2, <1>3, <1>6, <1>7, <1>9 DEF Stored
<1> QED
  BY <1>8, <1>9, Zenon

LEMMA SameStore ==
    ASSUME StoreTyped, UNCHANGED store
    PROVE  Grows
<1>1. \A d \in DOMAIN Histories : Len(store[d]) \in Nat
  BY DEF StoreTyped
<1> QED
  BY <1>1 DEF Grows, StoreTyped

LEMMA VersionFacts ==
    /\ Null \notin AllVersions
    /\ \A v : Stored(v) => v # Null
    /\ <<>> \in Contents /\ <<>> \in Seq(AllVersions)
    /\ \A v \in AllVersions : <<v>> \in Seq(AllVersions) /\ DOMAIN <<v>> = {1} /\ <<v>>[1] = v
    /\ \A v, w \in AllVersions : /\ <<v, w>> \in Seq(AllVersions) /\ DOMAIN <<v, w>> = {1, 2}
                                 /\ <<v, w>>[1] = v /\ <<v, w>>[2] = w
<1>1. AllVersions \subseteq [doc : Nat, id : Nat]
  <2>1. DOMAIN Histories \subseteq Nat /\ 1 .. MaxVersions \subseteq Nat
    BY HistoriesAssumption
  <2> QED
    BY <2>1, Zenon DEF AllVersions
<1>2. Null \notin AllVersions
  BY <1>1, NullAssumption, Zenon
<1>3. <<>> \in Contents
  BY TextsAssumption, Zenon DEF Contents
<1>4. \A v \in AllVersions : <<v>> \in Seq(AllVersions) /\ DOMAIN <<v>> = {1} /\ <<v>>[1] = v
  OBVIOUS
<1>5. \A v, w \in AllVersions : /\ <<v, w>> \in Seq(AllVersions) /\ DOMAIN <<v, w>> = {1, 2}
                                /\ <<v, w>>[1] = v /\ <<v, w>>[2] = w
  OBVIOUS
<1> QED
  BY <1>2, <1>3, <1>4, <1>5 DEF Stored

LEMMA ContentTyped ==
    ASSUME StoreTyped, NEW v, Stored(v)
    PROVE  Content(v) \in Contents
<1>1. v.doc \in DOMAIN Histories /\ v.id \in 1 .. Len(store[v.doc]) /\ store[v.doc] \in Seq(Contents)
  BY BoundsAssumption DEF Stored, AllVersions, StoreTyped
<1> QED
  BY <1>1 DEF Content

\* The requests of the three shapes.
LEMMA RequestFacts ==
    ASSUME doc \in DOMAIN Histories, NEW op \in Ops, NEW text \in Contents
    PROVE  /\ op \notin {"select", "view", "revert", "diff", "diff2"} => RequestTyped(Request(op, <<>>, text))
           /\ \A v : Stored(v) /\ op \in {"select", "view", "revert"} => RequestTyped(Request(op, <<v>>, text))
           /\ \A v, w : Stored(v) /\ Stored(w) /\ op \in {"diff", "diff2"} =>
                 RequestTyped(Request(op, <<v, w>>, text))
<1>1. ASSUME NEW vs
      PROVE  /\ Request(op, vs, text).op = op /\ Request(op, vs, text).doc = doc
             /\ Request(op, vs, text).vs = vs /\ Request(op, vs, text).text = text
  BY Zenon DEF Request
<1>2. ASSUME op \notin {"select", "view", "revert", "diff", "diff2"} PROVE RequestTyped(Request(op, <<>>, text))
  <2>1. <<>> \in Seq(AllVersions) /\ \A i \in DOMAIN <<>> : Stored(<<>>[i])
    OBVIOUS
  <2> QED
    BY <1>1, <1>2, <2>1, Zenon DEF RequestTyped
<1>3. ASSUME NEW v, Stored(v), op \in {"select", "view", "revert"} PROVE RequestTyped(Request(op, <<v>>, text))
  <2>1. v \in AllVersions /\ Len(<<v>>) = 1
    BY <1>3, Zenon DEF Stored
  <2>2. <<v>> \in Seq(AllVersions) /\ \A i \in DOMAIN <<v>> : Stored(<<v>>[i])
    BY <1>3, <2>1, VersionFacts
  <2> QED
    BY <1>1, <1>3, <2>1, <2>2, Zenon DEF RequestTyped
<1>4. ASSUME NEW v, NEW w, Stored(v), Stored(w), op \in {"diff", "diff2"}
      PROVE  RequestTyped(Request(op, <<v, w>>, text))
  <2>1. v \in AllVersions /\ w \in AllVersions /\ Len(<<v, w>>) = 2
    BY <1>4, Zenon DEF Stored
  <2>2. <<v, w>> \in Seq(AllVersions) /\ \A i \in DOMAIN <<v, w>> : Stored(<<v, w>>[i])
    BY <1>4, <2>1, VersionFacts
  <2> QED
    BY <1>1, <1>4, <2>1, <2>2, Zenon DEF RequestTyped
<1> QED
  BY <1>2, <1>3, <1>4, Zenon

\* The parts of the invariant apart from the store.
Named ==
    /\ PanelTyped /\ DiffTyped
    /\ \A v \in versions : Stored(v)
    /\ selected # Null => Stored(selected)
    /\ \A q \in pending : RequestTyped(q)

Plain == doc \in DOMAIN Histories /\ live \in Contents /\ sent \in 0 .. MaxRequests /\ panelOpen \in BOOLEAN

LEMMA VersionsInvSplit == VersionsInv <=> StoreTyped /\ Named /\ Plain
  BY Zenon DEF VersionsInv, Named, Plain

\* A step that lets the histories grow keeps what it does not touch.
LEMMA NamedKept ==
    ASSUME StoreTyped, Named, Grows
    PROVE  /\ UNCHANGED panel => PanelTyped'
           /\ UNCHANGED diffResult => DiffTyped'
           /\ \A v \in versions : Stored(v)'
           /\ UNCHANGED selected => (selected # Null => Stored(selected))'
           /\ \A q \in pending : RequestTyped(q)'
<1>1. UNCHANGED panel => PanelTyped'
  BY GrowsKeeps, Zenon DEF Named, PanelTyped, TwoToCompare
<1>2. UNCHANGED diffResult => DiffTyped'
  BY GrowsKeeps, Zenon DEF Named, DiffTyped
<1> QED
  BY <1>1, <1>2, GrowsKeeps, Zenon DEF Named

LEMMA AnswersKeep ==
    ASSUME VersionsInv, NEW r \in pending, Answer(r)
    PROVE  VersionsInv'
<1>1. StoreTyped /\ Named /\ Plain /\ RequestTyped(r)
  BY VersionsInvSplit, Zenon DEF Named
<1>2. ASSUME UNCHANGED store, UNCHANGED <<doc, sent, panelOpen>>, live' \in Contents,
             PanelTyped', DiffTyped', \A v \in versions' : Stored(v)',
             selected' = Null \/ Stored(selected'), \A q \in pending' : q \in pending \/ RequestTyped(q)
      PROVE  VersionsInv'
  <2>1. Grows
    BY <1>1, <1>2, SameStore, Zenon
  <2>2. \A q \in pending' : RequestTyped(q)'
    BY <1>1, <1>2, <2>1, GrowsKeeps, Zenon DEF Named
  <2>3. selected' # Null => Stored(selected)'
    <3>1. Stored(selected') => Stored(selected)'
      BY <1>2, Zenon DEF Stored
    <3> QED
      BY <1>2, <3>1, Zenon
  <2>4. Plain'
    BY <1>1, <1>2, Zenon DEF Plain
  <2> QED
    BY <1>2, <2>1, <2>2, <2>3, <2>4, Zenon DEF VersionsInv, Grows, Plain
<1>3. UNCHANGED store => Grows
  BY <1>1, SameStore, Zenon
<1>4. live \in Contents
  BY <1>1, Zenon DEF Plain
<1>5. ASSUME NEW n \in 0 .. MaxVersions, Listed(r, n) PROVE VersionsInv'
  <2>1. /\ r.doc \in DOMAIN Histories /\ n \in 0 .. Len(store[r.doc])
        /\ Len(store[r.doc]) \in Nat /\ Len(store[r.doc]) <= MaxVersions
    BY <1>1, <1>5, HistoriesAssumption DEF RequestTyped, StoreTyped, Listed
  <2>2. ASSUME NEW i \in 1 .. n PROVE Stored(Version(r.doc, i))
    <3>1. Version(r.doc, i) \in AllVersions
      BY <2>1, BoundsAssumption DEF Version, AllVersions
    <3>2. Version(r.doc, i).doc = r.doc /\ Version(r.doc, i).id = i
      BY SMTT(30) DEF Version
    <3> QED
      BY <2>1, <3>1, <3>2 DEF Stored
  <2>3. \A v \in versions' : Stored(v)
    BY <1>5, <2>2, Zenon DEF Listed
  <2>4. UNCHANGED <<store, doc, sent, panelOpen, live, panel, diffResult, selected>>
    BY <1>5, Zenon DEF Listed, viewVars
  <2>5. pending' \subseteq pending
    BY <1>5, Zenon DEF Listed
  <2>6. \A v \in versions' : Stored(v)'
    BY <1>1, <1>3, <2>3, <2>4, GrowsKeeps, Zenon
  <2>7. selected' = Null \/ Stored(selected')
    BY <1>1, <2>4, Zenon DEF Named
  <2> QED
    BY <1>1, <1>2, <1>3, <1>4, <2>4, <2>5, <2>6, <2>7, NamedKept, Zenon
<1>6. CASE Saved(r)
  <2>1. /\ r.doc \in DOMAIN Histories /\ r.text \in Contents /\ Len(store[r.doc]) < MaxVersions
        /\ store' = [store EXCEPT ![r.doc] = Append(@, r.text)]
        /\ pending' \subseteq pending
        /\ versions' = versions \cup {Version(r.doc, Len(store[r.doc]) + 1)}
        /\ UNCHANGED <<doc, live, selected, panelOpen, diffResult, panel, sent>>
    BY <1>1, <1>6, Zenon DEF RequestTyped, Saved, StoreVersion, viewVars
  <2>2. Grows /\ \A v : v = Version(r.doc, Len(store[r.doc]) + 1) => Stored(v)'
    BY <1>1, <2>1, AppendGrows, Zenon
  <2>3. \A v \in versions' : Stored(v)'
    BY <1>1, <2>1, <2>2, NamedKept, Zenon
  <2>4. Plain'
    BY <1>1, <2>1, SMTT(30) DEF Plain
  <2>5. Named'
    BY <1>1, <2>1, <2>2, <2>3, NamedKept, Zenon DEF Named
  <2> QED
    BY <2>2, <2>4, <2>5, VersionsInvSplit, Zenon DEF Grows, VersionsInv, Named, Plain
<1>7. CASE RevertSaved(r)
  <2>1. /\ r.doc \in DOMAIN Histories /\ r.text \in Contents
        /\ pending' \subseteq pending \cup {Request("list", <<>>, <<>>)}
        /\ UNCHANGED <<doc, live, versions, selected, panelOpen, diffResult, panel, sent>>
    BY <1>1, <1>7, Zenon DEF RequestTyped, RevertSaved, viewVars
  <2>2. Grows
    <3>1. CASE StoreVersion(r)
      BY <1>1, <2>1, <3>1, AppendGrows, Zenon DEF StoreVersion
    <3> QED
      BY <1>3, <1>7, <3>1, Zenon DEF RevertSaved
  <2>3. RequestTyped(Request("list", <<>>, <<>>))
    BY <1>1, RequestFacts, VersionFacts, Zenon DEF Plain, Ops
  <2>4. \A q \in pending' : RequestTyped(q)'
    BY <1>1, <2>1, <2>2, <2>3, GrowsKeeps, Zenon DEF Named
  <2>5. Plain'
    BY <1>1, <2>1, SMTT(30) DEF Plain
  <2>6. Named'
    BY <1>1, <2>1, <2>2, <2>4, NamedKept, Zenon DEF Named
  <2> QED
    BY <2>2, <2>5, <2>6, Zenon DEF Grows, VersionsInv, Named, Plain
<1>8. CASE Fails(r)
  <2>1. pending' \subseteq pending
        /\ UNCHANGED <<store, doc, live, versions, selected, panelOpen, diffResult, panel, sent>>
    BY <1>8, Zenon DEF Fails, viewVars
  <2>2. selected' = Null \/ Stored(selected')
    BY <1>1, <2>1, Zenon DEF Named
  <2> QED
    BY <1>1, <1>2, <1>3, <1>4, <2>1, <2>2, NamedKept, Zenon
<1>9. CASE Selected(r) \/ Viewed(r)
  <2>1. Stored(r.vs[1])
    BY <1>1, <1>9, SMTT(30) DEF RequestTyped, Selected, Viewed
  <2>2. /\ pending' \subseteq pending /\ selected' = r.vs[1]
        /\ live' \in {live, Content(r.vs[1])}
        /\ UNCHANGED <<store, doc, versions, panelOpen, diffResult, panel, sent>>
    BY <1>9, Zenon DEF Selected, Viewed, SetContent
  <2>3. Content(r.vs[1]) \in Contents
    BY <1>1, <2>1, ContentTyped, SMTT(30)
  <2> QED
    BY <1>1, <1>2, <1>3, <1>4, <2>1, <2>2, <2>3, NamedKept, Zenon
<1>10. CASE RevertToVersion(r)
  <2>1. Stored(r.vs[1])
    BY <1>1, <1>10, SMTT(30) DEF RequestTyped, RevertToVersion
  <2>2. /\ pending' = (pending \ {r}) \cup {Request("reverted", <<>>, Content(r.vs[1]))}
        /\ selected' \in {selected, Null} /\ live' = Content(r.vs[1])
        /\ UNCHANGED <<store, doc, versions, panelOpen, diffResult, panel, sent>>
    <3>1. /\ pending' = (pending \ {r}) \cup {Request("reverted", <<>>, Content(r.vs[1]))}
          /\ ExitVersionView /\ live' = Content(r.vs[1])
          /\ UNCHANGED <<store, doc, versions, panelOpen, diffResult, panel, sent>>
      BY <1>10, Zenon DEF RevertToVersion
    <3>2. selected' \in {selected, Null}
      BY <3>1, Zenon DEF ExitVersionView, viewVars
    <3> QED
      BY <3>1, <3>2, Zenon
  <2>3. Content(r.vs[1]) \in Contents
    BY <1>1, <2>1, ContentTyped, Zenon
  <2>4. RequestTyped(Request("reverted", <<>>, Content(r.vs[1])))
    BY <1>1, <2>3, RequestFacts, SMTT(30) DEF Plain, Ops
  <2>5. selected' = Null \/ Stored(selected')
    BY <1>1, <2>2, Zenon DEF Named
  <2> QED
    BY <1>1, <1>2, <1>3, <2>2, <2>3, <2>4, <2>5, NamedKept, SMTT(30)
<1>11. CASE DiffFirst(r)
  <2>1. /\ r.vs \in Seq(AllVersions) /\ Len(r.vs) = 2 /\ Stored(r.vs[1]) /\ Stored(r.vs[2])
    BY <1>1, <1>11 DEF RequestTyped, DiffFirst
  <2>2. r.vs = <<r.vs[1], r.vs[2]>>
    BY <2>1, SMTT(30)
  <2>3. RequestTyped(Request("diff2", <<r.vs[1], r.vs[2]>>, <<>>))
    BY <1>1, <2>1, RequestFacts, VersionFacts, SMTT(30) DEF Plain, Ops
  <2>4. /\ pending' = (pending \ {r}) \cup {Request("diff2", r.vs, <<>>)}
        /\ UNCHANGED <<store, doc, live, versions, selected, panelOpen, diffResult, panel, sent>>
    BY <1>11, Zenon DEF DiffFirst, viewVars
  <2>5. \A q \in pending' : q \in pending \/ RequestTyped(q)
    BY <2>2, <2>3, <2>4, Zenon
  <2>6. selected' = Null \/ Stored(selected')
    BY <1>1, <2>4, Zenon DEF Named
  <2> QED
    BY <1>1, <1>2, <1>3, <1>4, <2>4, <2>5, <2>6, NamedKept, SMTT(30)
<1>12. CASE DiffSecond(r)
  <2>1. /\ r.vs \in Seq(AllVersions) /\ \A i \in DOMAIN r.vs : Stored(r.vs[i])
        /\ diffResult'.of = r.vs /\ pending' \subseteq pending
        /\ UNCHANGED <<store, doc, live, versions, selected, panelOpen, panel, sent>>
    BY <1>1, <1>12, Zenon DEF RequestTyped, DiffSecond, viewVars
  <2>2. DiffTyped'
    BY <1>1, <1>3, <2>1, GrowsKeeps, Zenon DEF DiffTyped
  <2>3. selected' = Null \/ Stored(selected')
    BY <1>1, <2>1, Zenon DEF Named
  <2> QED
    BY <1>1, <1>2, <1>3, <1>4, <2>1, <2>2, <2>3, NamedKept, SMTT(30)
<1> QED
  BY <1>5, <1>6, <1>7, <1>8, <1>9, <1>10, <1>11, <1>12, Zenon DEF Answer

\* A click on a version: the pair to compare stays a pair.
LEMMA PickedTyped ==
    ASSUME PanelTyped, NEW v, Stored(v), panel' = Picked(v), UNCHANGED store
    PROVE  PanelTyped'
<1>1. v \in AllVersions /\ v # Null /\ \A w : Stored(w) => Stored(w)'
  BY VersionFacts, Zenon DEF Stored
<1>2. CASE panel.from = Null
  <2>1. panel' = [panel EXCEPT !.from = v] /\ panel.to = Null
    BY <1>2, Zenon DEF Picked, PanelTyped, TwoToCompare
  <2> QED
    BY <1>1, <2>1, Zenon DEF PanelTyped, TwoToCompare
<1>3. CASE panel.from # Null /\ panel.from = v
  <2>1. panel' = [panel EXCEPT !.from = panel.to, !.to = Null]
    BY <1>3, Zenon DEF Picked
  <2> QED
    BY <1>1, <2>1, Zenon DEF PanelTyped, TwoToCompare
<1>4. CASE panel.from # Null /\ panel.from # v /\ panel.to = v
  <2>1. panel' = [panel EXCEPT !.to = Null]
    BY <1>4, Zenon DEF Picked
  <2> QED
    BY <1>1, <2>1, Zenon DEF PanelTyped, TwoToCompare
<1>5. CASE panel.from # Null /\ panel.from # v /\ panel.to # v
  <2>1. panel' = [panel EXCEPT !.to = v]
    BY <1>5, Zenon DEF Picked
  <2> QED
    BY <1>1, <1>5, <2>1, Zenon DEF PanelTyped, TwoToCompare
<1> QED
  BY <1>2, <1>3, <1>4, <1>5, Zenon

LEMMA VersionsStep ==
    ASSUME VersionsInv, [VersionsNext]_versionsVars
    PROVE  VersionsInv'
<1>1. StoreTyped /\ Named /\ Plain
  BY VersionsInvSplit, Zenon
<1>2. ASSUME UNCHANGED store, Plain', PanelTyped', DiffTyped', versions' \subseteq versions,
             selected' \in {selected, Null}, \A q \in pending' : q \in pending \/ RequestTyped(q)
      PROVE  VersionsInv'
  <2>1. Grows
    BY <1>1, <1>2, SameStore, Zenon
  <2>2. \A q \in pending' : RequestTyped(q)'
    BY <1>1, <1>2, <2>1, GrowsKeeps, Zenon DEF Named
  <2>3. \A v \in versions' : Stored(v)'
    BY <1>1, <1>2, <2>1, NamedKept, Zenon
  <2>4. selected' # Null => Stored(selected)'
    BY <1>1, <1>2, <2>1, NamedKept, Zenon
  <2> QED
    BY <1>2, <2>1, <2>2, <2>3, <2>4, Zenon DEF VersionsInv, Grows, Plain
<1>3. UNCHANGED store => Grows
  BY <1>1, SameStore, Zenon
<1>4. UNCHANGED <<store, panel>> => PanelTyped'
  BY <1>1, <1>3, NamedKept, Zenon
<1>5. UNCHANGED <<store, diffResult>> => DiffTyped'
  BY <1>1, <1>3, NamedKept, Zenon
<1>6. ASSUME NEW r, RequestTyped(r), Sends(r)
      PROVE  sent' \in 0 .. MaxRequests /\ \A q \in pending' : q \in pending \/ RequestTyped(q)
  BY <1>1, <1>6, BoundsAssumption DEF Sends, Plain
<1>7. /\ RequestTyped(Request("list", <<>>, <<>>)) /\ RequestTyped(Request("save", <<>>, live))
      /\ \A v : Stored(v) => \A op \in {"select", "view", "revert"} : RequestTyped(Request(op, <<v>>, <<>>))
      /\ \A v, w : Stored(v) /\ Stored(w) => RequestTyped(Request("diff", <<v, w>>, <<>>))
  BY <1>1, RequestFacts, VersionFacts, Zenon DEF Plain, Ops
<1>8. ASSUME NEW text \in Texts, Edit(text) PROVE VersionsInv'
  <2>1. Plain'
    BY <1>1, <1>8, Zenon DEF Edit, Plain, Contents
  <2>2. UNCHANGED <<store, panel, diffResult, versions, selected, pending>>
    BY <1>8, Zenon DEF Edit, viewVars
  <2> QED
    BY <1>2, <1>4, <1>5, <2>1, <2>2, Zenon
<1>9. ASSUME NEW v \in versions, SelectVersion(v) PROVE VersionsInv'
  <2>1. Stored(v) /\ PanelTyped
    BY <1>1, Zenon DEF Named
  <2>2. /\ panel' = Picked(v) /\ Sends(Request("select", <<v>>, <<>>))
        /\ UNCHANGED <<store, doc, live, panelOpen, diffResult, versions, selected>>
    BY <1>9, Zenon DEF SelectVersion, viewVars
  <2>3. PanelTyped'
    BY <2>1, <2>2, PickedTyped, Zenon
  <2>4. Plain' /\ \A q \in pending' : q \in pending \/ RequestTyped(q)
    BY <1>1, <1>6, <1>7, <2>1, <2>2, Zenon DEF Plain
  <2> QED
    BY <1>2, <1>5, <2>2, <2>3, <2>4, Zenon
<1>10. ASSUME NEW op \in {"view", "revert"}, ViewOrRevert(op) PROVE VersionsInv'
  <2>1. /\ Stored(panel.from) /\ Sends(Request(op, <<panel.from>>, <<>>))
        /\ UNCHANGED <<store, doc, live, panelOpen, panel, diffResult, versions, selected>>
    BY <1>1, <1>10, Zenon DEF ViewOrRevert, Named, PanelTyped, viewVars
  <2>2. Plain' /\ \A q \in pending' : q \in pending \/ RequestTyped(q)
    BY <1>1, <1>6, <1>7, <2>1, Zenon DEF Plain
  <2> QED
    BY <1>2, <1>4, <1>5, <2>1, <2>2, Zenon
<1>11. CASE Compare
  <2>1. /\ PanelTyped /\ Stored(panel.from) /\ Stored(panel.to)
        /\ Sends(Request("diff", <<panel.from, panel.to>>, <<>>))
        /\ panel' = [panel EXCEPT !.view = "diff"]
        /\ UNCHANGED <<store, doc, live, panelOpen, diffResult, versions, selected>>
    BY <1>1, <1>11, Zenon DEF Compare, Named, PanelTyped, viewVars
  <2>2. Plain' /\ \A q \in pending' : q \in pending \/ RequestTyped(q)
    BY <1>1, <1>6, <1>7, <2>1, Zenon DEF Plain
  <2>3. PanelTyped'
    BY <2>1, Zenon DEF PanelTyped, TwoToCompare, Stored
  <2> QED
    BY <1>2, <1>5, <2>1, <2>2, <2>3, Zenon
<1>12. CASE ClearSelection
  <2>1. PanelTyped'
    BY <1>12, Zenon DEF ClearSelection, PanelTyped, TwoToCompare
  <2>2. DiffTyped' /\ Plain' /\ UNCHANGED <<store, versions, selected, pending>>
    BY <1>1, <1>12, Zenon DEF ClearSelection, DiffTyped, Plain, viewVars
  <2> QED
    BY <1>2, <2>1, <2>2, Zenon
<1>13. CASE BackToList
  <2>1. PanelTyped'
    BY <1>1, <1>13, Zenon DEF BackToList, Named, PanelTyped, TwoToCompare, Stored
  <2>2. Plain' /\ UNCHANGED <<store, diffResult, versions, selected, pending>>
    BY <1>1, <1>13, Zenon DEF BackToList, Plain, viewVars
  <2> QED
    BY <1>2, <1>5, <2>1, <2>2, Zenon
<1>14. CASE Save
  <2>1. Plain' /\ \A q \in pending' : q \in pending \/ RequestTyped(q)
    BY <1>1, <1>6, <1>7, <1>14, Zenon DEF Plain, Save
  <2>2. UNCHANGED <<store, panel, diffResult, versions, selected>>
    BY <1>14, Zenon DEF Save, viewVars
  <2> QED
    BY <1>2, <1>4, <1>5, <2>1, <2>2, Zenon
<1>15. CASE OpenPanel
  <2>1. /\ UNCHANGED <<store, panel, diffResult, versions, selected>>
        /\ pending' = pending \cup {Request("list", <<>>, <<>>)}
    BY <1>15, Zenon DEF OpenPanel, viewVars
  <2>2. Plain'
    BY <1>1, <1>15, Zenon DEF OpenPanel, Plain
  <2> QED
    BY <1>2, <1>4, <1>5, <1>7, <2>1, <2>2, Zenon
<1>16. CASE ClosePanel
  <2>1. selected' \in {selected, Null} /\ UNCHANGED <<store, panel, diffResult, versions, pending>>
    BY <1>16, Zenon DEF ClosePanel, ExitVersionView, viewVars
  <2>2. Plain'
    BY <1>1, <1>16, Zenon DEF ClosePanel, Plain
  <2> QED
    BY <1>2, <1>4, <1>5, <2>1, <2>2, Zenon
<1>17. CASE VersionCreated
  <2>1. /\ doc \in DOMAIN Histories /\ live \in Contents /\ Len(store[doc]) < MaxVersions
        /\ store' = [store EXCEPT ![doc] = Append(@, live)]
        /\ versions' = versions \cup {Version(doc, Len(store[doc]) + 1)}
        /\ UNCHANGED <<doc, live, selected, panelOpen, diffResult, panel, pending, sent>>
    BY <1>1, <1>17, Zenon DEF VersionCreated, Plain, viewVars
  <2>2. Grows /\ \A v : v = Version(doc, Len(store[doc]) + 1) => Stored(v)'
    BY <1>1, <2>1, AppendGrows, Zenon
  <2>3. \A v \in versions' : Stored(v)'
    BY <1>1, <2>1, <2>2, NamedKept, Zenon
  <2>4. Plain'
    BY <1>1, <2>1, Zenon DEF Plain
  <2>5. Named'
    BY <1>1, <2>1, <2>2, <2>3, NamedKept, Zenon DEF Named
  <2> QED
    BY <2>2, <2>4, <2>5, Zenon DEF Grows, VersionsInv, Named, Plain
<1>18. CASE SetReadonly
  <2>1. UNCHANGED <<store, doc, live, panelOpen, sent, panel, diffResult, versions, selected, pending>>
    BY <1>18, Zenon DEF SetReadonly
  <2> QED
    BY <1>1, <1>2, <1>4, <1>5, <2>1, Zenon DEF Plain
<1>19. CASE Detach
  <2>1. /\ UNCHANGED <<store, doc, panel, pending, sent>> /\ versions' = {} /\ selected' = Null
        /\ diffResult' = Null /\ panelOpen' = FALSE /\ live' = <<>>
    BY <1>19, Zenon DEF Detach
  <2>2. Plain' /\ DiffTyped'
    BY <1>1, <2>1, VersionFacts, Zenon DEF Plain, DiffTyped
  <2> QED
    BY <1>2, <1>4, <2>1, <2>2, Zenon
<1>20. ASSUME NEW text \in Texts, Attach(text) PROVE VersionsInv'
  <2> DEFINE q == [Request("list", <<>>, <<>>) EXCEPT !.doc = doc + 1]
  <2>1. /\ UNCHANGED <<store, panelOpen, panel, sent>> /\ versions' = {} /\ selected' = Null
        /\ diffResult' = Null /\ doc' = doc + 1 /\ doc < Len(Histories) /\ live' = text
        /\ pending' = pending \cup {q}
    BY <1>20, Zenon DEF Attach
  <2>2. doc + 1 \in DOMAIN Histories
    BY <1>1, <2>1, HistoriesAssumption DEF Plain
  <2>3. RequestTyped(q)
    <3>1. q.op = "list" /\ q.doc = doc + 1 /\ q.vs = <<>> /\ q.text = <<>>
      BY Zenon DEF Request
    <3>2. <<>> \in Seq(AllVersions) /\ \A i \in DOMAIN <<>> : Stored(<<>>[i])
      OBVIOUS
    <3> QED
      BY <2>2, <3>1, <3>2, VersionFacts, Zenon DEF RequestTyped, Ops
  <2>4. Plain' /\ DiffTyped'
    BY <1>1, <2>1, <2>2, Zenon DEF Plain, DiffTyped, Contents
  <2> QED
    BY <1>2, <1>4, <2>1, <2>3, <2>4, Zenon
<1>21. CASE UNCHANGED versionsVars
  BY <1>1, <1>2, <1>4, <1>5, <1>21, Zenon DEF versionsVars, Plain
<1> QED
  BY AnswersKeep, <1>8, <1>9, <1>10, <1>11, <1>12, <1>13, <1>14, <1>15, <1>16, <1>17, <1>18, <1>19,
     <1>20, <1>21, Zenon DEF VersionsNext

LEMMA VersionsHold == VersionsSpec => []VersionsInv
<1>1. VersionsInit => VersionsInv
  <2> SUFFICES ASSUME VersionsInit PROVE VersionsInv
    BY Zenon
  <2>1. StoreTyped
    <3>1. ASSUME NEW d \in DOMAIN Histories PROVE Histories[d] \in Seq(Contents) /\ Len(Histories[d]) \in Nat
      <4>1. Histories[d] \in Seq(Seq(STRING))
        BY HistoriesAssumption
      <4>2. \A i \in 1 .. Len(Histories[d]) : Histories[d][i] \in Contents
        BY <4>1 DEF Contents, ToSet
      <4> QED
        BY <4>1, <4>2
    <3> QED
      BY <3>1, HistoriesAssumption DEF VersionsInit, StoreTyped
  <2>2. PanelTyped /\ DiffTyped
    BY Zenon DEF VersionsInit, PanelTyped, DiffTyped, TwoToCompare
  <2>3. Plain
    <3>1. 1 \in DOMAIN Histories
      BY HistoriesAssumption
    <3>2. doc = 1 /\ sent = 0 /\ panelOpen = FALSE /\ live \in Contents
      BY Zenon DEF VersionsInit, Contents
    <3>3. sent \in 0 .. MaxRequests
      BY <3>2, BoundsAssumption
    <3> QED
      BY <3>1, <3>2, <3>3, Zenon DEF Plain
  <2>4. \A q \in pending : RequestTyped(q)
    BY <2>3, RequestFacts, VersionFacts, Zenon DEF VersionsInit, Plain, Ops
  <2>5. versions = {} /\ selected = Null
    BY Zenon DEF VersionsInit
  <2> QED
    BY <2>1, <2>2, <2>3, <2>4, <2>5, Zenon DEF VersionsInv, Plain
<1>2. VersionsInv /\ [VersionsNext]_versionsVars => VersionsInv'
  BY VersionsStep, Zenon
<1> QED
  BY <1>1, <1>2, PTL DEF VersionsSpec

\* The panel's pair is two different versions or less than a pair, whatever is
\* clicked in whatever order (VersionPanel's _selectVersion).
THEOREM TwoToCompareCorrect == VersionsSpec => []TwoToCompare
<1>1. VersionsInv => TwoToCompare
  BY Zenon DEF VersionsInv, PanelTyped
<1> QED
  BY <1>1, VersionsHold, PTL

\* No version is listed, selected, asked for or compared that the history of its
\* document does not hold, for any histories and any order of the answers.
THEOREM OnlyStoredCorrect == VersionsSpec => []OnlyStored
<1>1. ASSUME VersionsInv PROVE OnlyStored
  <2>1. ASSUME NEW v, Stored(v) PROVE v.doc \in DOMAIN store /\ v.id \in DOMAIN store[v.doc]
    BY <1>1, <2>1, BoundsAssumption DEF VersionsInv, StoreTyped, Stored, AllVersions
  <2>2. ASSUME NEW q \in pending, NEW v \in ToSet(q.vs) PROVE Stored(v)
    BY <1>1, <2>2, Zenon DEF VersionsInv, RequestTyped, ToSet
  <2>3. ASSUME diffResult # Null, NEW v \in ToSet(diffResult.of) PROVE Stored(v)
    BY <1>1, <2>3, Zenon DEF VersionsInv, DiffTyped, ToSet
  <2>4. ASSUME NEW v \in versions \cup {selected, panel.from, panel.to}, v # Null PROVE Stored(v)
    <3>1. \A w \in versions : Stored(w)
      BY <1>1, Zenon DEF VersionsInv
    <3>2. /\ selected # Null => Stored(selected)
          /\ panel.from # Null => Stored(panel.from)
          /\ panel.to # Null => Stored(panel.to)
      BY <1>1, Zenon DEF VersionsInv, PanelTyped
    <3> QED
      BY <2>4, <3>1, <3>2
  <2> DEFINE asked == UNION {ToSet(q.vs) : q \in pending}
             compared == IF diffResult = Null THEN {} ELSE ToSet(diffResult.of)
             named == versions \cup asked \cup compared \cup {selected, panel.from, panel.to}
  <2>5. ASSUME NEW v \in named \ {Null} PROVE Stored(v)
    <3>1. CASE v \in asked
      BY <2>2, <3>1, Zenon
    <3>2. CASE v \in compared
      BY <2>3, <3>2, Zenon
    <3> QED
      BY <2>4, <2>5, <3>1, <3>2, Zenon
  <2> QED
    BY <2>1, <2>5, Zenon DEF OnlyStored
<1> QED
  BY <1>1, VersionsHold, PTL

\* The panel, the requests, the history and the diff on display keep their types,
\* for any histories (VersionCoordinator and VersionPanel).
THEOREM VersionsTypeCorrect == VersionsSpec => []VersionsTypeOK
<1>1. ASSUME VersionsInv, ViewInv PROVE VersionsTypeOK
  <2>1. ASSUME NEW d \in DOMAIN Histories
        PROVE  Len(store[d]) <= MaxVersions /\ ToSet(store[d]) \subseteq Contents
    <3>1. store[d] \in Seq(Contents) /\ Len(store[d]) <= MaxVersions
      BY <1>1, <2>1, Zenon DEF VersionsInv, StoreTyped
    <3>2. \A i \in DOMAIN store[d] : store[d][i] \in Contents
      BY <3>1
    <3> QED
      BY <3>1, <3>2, Zenon DEF ToSet
  <2>2. diffResult # Null => \A v \in ToSet(diffResult.of) : v \in AllVersions
    BY <1>1, Zenon DEF VersionsInv, DiffTyped, Stored, ToSet
  <2>3. \A v \in versions : v \in AllVersions
    BY <1>1, Zenon DEF VersionsInv, Stored
  <2>4. selected \in AllVersions \cup {Null} /\ {panel.from, panel.to} \subseteq AllVersions \cup {Null}
        /\ panel.view \in {"list", "diff"}
    BY <1>1, Zenon DEF VersionsInv, PanelTyped, Stored
  <2>5. \A q \in pending : q.op \in Ops /\ q.text \in Contents /\ q.doc \in DOMAIN Histories
    BY <1>1, Zenon DEF VersionsInv, RequestTyped
  <2> QED
    BY <1>1, <2>1, <2>2, <2>3, <2>4, <2>5, Zenon DEF VersionsTypeOK, VersionsInv, ViewInv
<1> QED
  BY <1>1, VersionsHold, ViewHolds, PTL

=============================================================================
