--------------------------- MODULE RoomLifecycle ---------------------------
(***************************************************************************)
(* The life of the rooms of one document in one relay process:             *)
(* HandleConnection, RoomManager (GetOrCreate, Remove, ScheduleRemoval,    *)
(* CloseAll), Room (AddPeer, RemovePeer, Close, StartFlushLoop) and the    *)
(* engine document, which all rooms of the document share.                 *)
(*                                                                         *)
(* A connection handler runs once, so everything it creates is named       *)
(* after it: the room it makes as the leader of the singleflight call, and *)
(* the timer it arms when it leaves the room empty.  A client that comes   *)
(* back is another connection.  Contents are left to RoomState and the     *)
(* steps of one flush to RelayFlush.                                       *)
(***************************************************************************)
EXTENDS Naturals

CONSTANTS Conns,   \* the connections
          None,    \* no room, no connection
          Main,    \* the goroutine that shuts the process down
          Broker   \* the peer that stands for the sibling instances

ASSUME NamesAssumption == /\ None \notin Conns
                          /\ Main \notin Conns
                          /\ Broker \notin Conns

VARIABLES
  pc,       \* per connection, where HandleConnection is
  room,     \* per connection, the room GetOrCreate returned
  reg,      \* RoomManager.rooms: the document's room
  flight,   \* RoomManager.group: the leader of the call in progress
  peers,    \* Room.peers
  done,     \* per room, the peers whose done channel is closed: they get no
            \* more frames
  closed,   \* Room.closeCh is closed
  once,     \* Room.closeOnce
  loop,     \* the room's flush goroutine
  buf,      \* Room.buffer holds updates
  open,     \* the engine has the document
  task,     \* per timer, and for Main, where the removal of a room is
  victim,   \* the room that removal is about
  exited    \* the process has ended

connVars == <<pc, room, flight>>
roomVars == <<peers, done, closed, once, loop, buf>>
taskVars == <<task, victim>>
vars == <<connVars, reg, roomVars, open, taskVars, exited>>

Rooms == Conns
Tasks == Conns \cup {Main}
Creating == {"recheck", "boot", "store", "deliver"}
Closing == {"once", "peers", "engine"}

TypeOK ==
  /\ pc \in [Conns -> {"start", "do", "wait", "have", "in", "leave", "gone"} \cup Creating]
  /\ room \in [Conns -> Rooms \cup {None}]
  /\ reg \in Rooms \cup {None}
  /\ flight \in Conns \cup {None}
  /\ peers \in [Rooms -> SUBSET (Conns \cup {Broker})]
  /\ done \in [Rooms -> SUBSET (Conns \cup {Broker})]
  /\ closed \in [Rooms -> BOOLEAN]
  /\ once \in [Rooms -> {"no", "running", "done"}]
  /\ loop \in [Rooms -> {"none", "running", "flushing", "final", "missed", "ended"}]
  /\ buf \in [Rooms -> BOOLEAN]
  /\ open \in BOOLEAN
  /\ task \in [Tasks -> {"none", "armed", "count", "remove", "after", "end"} \cup Closing]
  /\ victim \in [Tasks -> Rooms \cup {None}]
  /\ exited \in BOOLEAN

Init ==
  /\ pc = [c \in Conns |-> "start"]
  /\ room = [c \in Conns |-> None]
  /\ reg = None
  /\ flight = None
  /\ peers = [r \in Rooms |-> {}]
  /\ done = [r \in Rooms |-> {}]
  /\ closed = [r \in Rooms |-> FALSE]
  /\ once = [r \in Rooms |-> "no"]
  /\ loop = [r \in Rooms |-> "none"]
  /\ buf = [r \in Rooms |-> FALSE]
  /\ open = FALSE
  /\ task = [t \in Tasks |-> "none"]
  /\ victim = [t \in Tasks |-> None]
  /\ exited = FALSE

-----------------------------------------------------------------------------
(* GetOrCreate.                                                            *)

\* The first Load: the room, or a singleflight call.
Connect(c) ==
  /\ ~exited /\ pc[c] = "start"
  /\ room' = [room EXCEPT ![c] = reg]
  /\ pc' = [pc EXCEPT ![c] = IF reg = None THEN "do" ELSE "have"]
  /\ UNCHANGED <<flight, reg, roomVars, open, taskVars, exited>>

\* group.Do: lead a call or wait for the one in progress.
Do(c) ==
  /\ ~exited /\ pc[c] = "do"
  /\ IF flight = None
     THEN /\ flight' = c
          /\ pc' = [pc EXCEPT ![c] = "recheck"]
     ELSE /\ pc' = [pc EXCEPT ![c] = "wait"]
          /\ UNCHANGED flight
  /\ UNCHANGED <<room, reg, roomVars, open, taskVars, exited>>

\* Variant: those who wait are not woken.
ReturnAll_LeaderOnly(c, r) ==
  /\ pc' = [pc EXCEPT ![c] = "have"]
  /\ room' = [room EXCEPT ![c] = r]
  /\ flight' = None

\* The call returns r to its leader and to everyone who waits, and is forgotten.
ReturnAll(c, r) ==
  LET got == {d \in Conns : d = c \/ pc[d] = "wait"}
  IN  /\ pc' = [d \in Conns |-> IF d \in got THEN "have" ELSE pc[d]]
      /\ room' = [d \in Conns |-> IF d \in got THEN r ELSE room[d]]
      /\ flight' = None

\* Variant: without the second Load.
Recheck_Dropped(c) ==
  /\ ~exited /\ pc[c] = "recheck"
  /\ pc' = [pc EXCEPT ![c] = "boot"]
  /\ open' = TRUE
  /\ UNCHANGED <<room, flight, reg, roomVars, taskVars, exited>>

\* The second Load, inside the call, and NewRoom, which opens the document.
Recheck(c) ==
  /\ ~exited /\ pc[c] = "recheck"
  /\ IF reg # None
     THEN ReturnAll(c, reg) /\ UNCHANGED open
     ELSE /\ pc' = [pc EXCEPT ![c] = "boot"]
          /\ open' = TRUE
          /\ UNCHANGED <<room, flight>>
  /\ UNCHANGED <<reg, roomVars, taskVars, exited>>

\* The bootstrap function: load the document, start the flush goroutine, add
\* the broker peer unless there is no broker or the subscription fails.  It
\* never returns an error.
Bootstrap(c, subscribed) ==
  /\ ~exited /\ pc[c] = "boot"
  /\ loop' = [loop EXCEPT ![c] = "running"]
  /\ peers' = [peers EXCEPT ![c] = IF subscribed THEN {Broker} ELSE {}]
  /\ pc' = [pc EXCEPT ![c] = "store"]
  /\ UNCHANGED <<room, flight, reg, done, closed, once, buf, open, taskVars, exited>>

\* rooms.Store.
Store(c) ==
  /\ ~exited /\ pc[c] = "store"
  /\ reg' = c
  /\ pc' = [pc EXCEPT ![c] = "deliver"]
  /\ UNCHANGED <<room, flight, roomVars, open, taskVars, exited>>

Deliver(c) ==
  /\ ~exited /\ pc[c] = "deliver"
  /\ ReturnAll(c, c)
  /\ UNCHANGED <<reg, roomVars, open, taskVars, exited>>

-----------------------------------------------------------------------------
(* A peer in its room.                                                     *)

AddPeer(c) ==
  /\ ~exited /\ pc[c] = "have"
  /\ peers' = [peers EXCEPT ![room[c]] = @ \cup {c}]
  /\ pc' = [pc EXCEPT ![c] = "in"]
  /\ UNCHANGED <<room, flight, reg, done, closed, once, loop, buf, open, taskVars, exited>>

\* handleMessage on an Update frame: it is buffered whether or not the engine
\* could apply it, and whether or not the room is closed.
Update(c) ==
  /\ ~exited /\ pc[c] = "in"
  /\ buf' = [buf EXCEPT ![room[c]] = TRUE]
  /\ UNCHANGED <<connVars, reg, peers, done, closed, once, loop, open, taskVars, exited>>

\* The same for a frame of a sibling instance.  Nothing ends this peer's
\* readLoop.
BrokerUpdate(r) ==
  /\ ~exited /\ Broker \in peers[r]
  /\ buf' = [buf EXCEPT ![r] = TRUE]
  /\ UNCHANGED <<connVars, reg, peers, done, closed, once, loop, open, taskVars, exited>>

\* readLoop returns because the client is gone; peer.Close.
ReadEnds(c) ==
  /\ ~exited /\ pc[c] = "in"
  /\ done' = [done EXCEPT ![room[c]] = @ \cup {c}]
  /\ pc' = [pc EXCEPT ![c] = "leave"]
  /\ UNCHANGED <<room, flight, reg, peers, closed, once, loop, buf, open, taskVars, exited>>

\* Variant: emptiness is decided before the peer is taken out.
RemovePeer_AsksFirst(c) ==
  /\ ~exited /\ pc[c] = "leave"
  /\ peers' = [peers EXCEPT ![room[c]] = @ \ {c}]
  /\ pc' = [pc EXCEPT ![c] = "gone"]
  /\ task' = [task EXCEPT ![c] = IF peers[room[c]] = {} THEN "armed" ELSE @]
  /\ UNCHANGED <<room, flight, reg, done, closed, once, loop, buf, open, victim, exited>>

\* RemovePeer, and ScheduleRemoval when the room is empty.
RemovePeer(c) ==
  /\ ~exited /\ pc[c] = "leave"
  /\ peers' = [peers EXCEPT ![room[c]] = @ \ {c}]
  /\ pc' = [pc EXCEPT ![c] = "gone"]
  /\ task' = [task EXCEPT ![c] = IF peers'[room[c]] = {} THEN "armed" ELSE @]
  /\ UNCHANGED <<room, flight, reg, done, closed, once, loop, buf, open, victim, exited>>

-----------------------------------------------------------------------------
(* Removal of an idle room, by a timer, and of every room, at shutdown.    *)

\* The timer fires after IdleTimeout and loads the room.
TimerFires(t) ==
  /\ ~exited /\ task[t] = "armed"
  /\ task' = [task EXCEPT ![t] = IF reg = None THEN "end" ELSE "count"]
  /\ victim' = [victim EXCEPT ![t] = reg]
  /\ UNCHANGED <<connVars, reg, roomVars, open, exited>>

PeerCount(t) ==
  /\ ~exited /\ task[t] = "count"
  /\ task' = [task EXCEPT ![t] = IF peers[victim[t]] = {} THEN "remove" ELSE "end"]
  /\ UNCHANGED <<connVars, reg, roomVars, open, victim, exited>>

\* Remove: LoadAndDelete takes whatever room is registered now.
Remove(t) ==
  /\ ~exited /\ task[t] = "remove"
  /\ task' = [task EXCEPT ![t] = IF reg = None THEN "end" ELSE "once"]
  /\ victim' = [victim EXCEPT ![t] = reg]
  /\ reg' = None
  /\ UNCHANGED <<connVars, roomVars, open, exited>>

\* Shutdown: CloseAll ranges over the registered rooms.
CloseAll ==
  /\ ~exited /\ task[Main] = "none"
  /\ task' = [task EXCEPT ![Main] = IF reg = None THEN "end" ELSE "once"]
  /\ victim' = [victim EXCEPT ![Main] = reg]
  /\ UNCHANGED <<connVars, reg, roomVars, open, exited>>

\* Room.Close.  closeOnce lets the first caller in, makes the others wait for
\* it, and turns away those who come later.
CloseChannel(t) ==
  /\ ~exited /\ task[t] = "once"
  /\ \/ /\ once[victim[t]] = "no"
        /\ once' = [once EXCEPT ![victim[t]] = "running"]
        /\ closed' = [closed EXCEPT ![victim[t]] = TRUE]
        /\ task' = [task EXCEPT ![t] = "peers"]
     \/ /\ once[victim[t]] = "done"
        /\ task' = [task EXCEPT ![t] = "after"]
        /\ UNCHANGED <<once, closed>>
  /\ UNCHANGED <<connVars, reg, peers, done, loop, buf, open, victim, exited>>

\* p.Close of every peer: its writeLoop ends, its readLoop does not.
ClosePeers(t) ==
  /\ ~exited /\ task[t] = "peers"
  /\ done' = [done EXCEPT ![victim[t]] = @ \cup peers[victim[t]]]
  /\ task' = [task EXCEPT ![t] = "engine"]
  /\ UNCHANGED <<connVars, reg, peers, closed, once, loop, buf, open, victim, exited>>

\* engine.Close of the document, whichever room uses it.
CloseEngine(t) ==
  /\ ~exited /\ task[t] = "engine"
  /\ open' = FALSE
  /\ once' = [once EXCEPT ![victim[t]] = "done"]
  /\ task' = [task EXCEPT ![t] = "after"]
  /\ UNCHANGED <<connVars, reg, peers, done, closed, loop, buf, victim, exited>>

\* Close has returned: Remove is done; CloseAll deletes the document's key.
AfterClose(t) ==
  /\ ~exited /\ task[t] = "after"
  /\ task' = [task EXCEPT ![t] = "end"]
  /\ reg' = IF t = Main THEN None ELSE reg
  /\ UNCHANGED <<connVars, roomVars, open, victim, exited>>

\* main returns after its pause, finished flushes or not.
Exit ==
  /\ ~exited /\ task[Main] = "end"
  /\ exited' = TRUE
  /\ UNCHANGED <<connVars, reg, roomVars, open, taskVars>>

-----------------------------------------------------------------------------
(* StartFlushLoop.                                                         *)

\* The ticker or flushCh: flushBuffer drains the buffer.  When another
\* instance holds the flush lock nothing happens.
Tick(r) ==
  /\ ~exited /\ loop[r] = "running"
  /\ buf[r]
  /\ buf' = [buf EXCEPT ![r] = FALSE]
  /\ loop' = [loop EXCEPT ![r] = "flushing"]
  /\ UNCHANGED <<connVars, reg, peers, done, closed, once, open, taskVars, exited>>

\* Variant: the goroutine returns without its final flush.
OnClose_NoFinalFlush(r, acquired) ==
  /\ ~exited /\ loop[r] = "running"
  /\ closed[r]
  /\ loop' = [loop EXCEPT ![r] = "ended"]
  /\ UNCHANGED <<connVars, reg, peers, done, closed, once, buf, open, taskVars, exited>>

\* closeCh: the final flush, which may find the lock taken.
OnClose(r, acquired) ==
  /\ ~exited /\ loop[r] = "running"
  /\ closed[r]
  /\ loop' = [loop EXCEPT ![r] = IF ~buf[r] THEN "ended"
                                 ELSE IF acquired THEN "final" ELSE "missed"]
  /\ buf' = [buf EXCEPT ![r] = @ /\ ~acquired]
  /\ UNCHANGED <<connVars, reg, peers, done, closed, once, open, taskVars, exited>>

\* flushBuffer returns and has put back what Flush wants re-queued; RelayFlush
\* has the detail.
FlushReturns(r, requeued) ==
  /\ ~exited /\ loop[r] \in {"flushing", "final", "missed"}
  /\ requeued => loop[r] # "missed"
  /\ buf' = [buf EXCEPT ![r] = @ \/ requeued]
  /\ loop' = [loop EXCEPT ![r] = IF @ = "flushing" THEN "running" ELSE "ended"]
  /\ UNCHANGED <<connVars, reg, peers, done, closed, once, open, taskVars, exited>>

-----------------------------------------------------------------------------
ConnStep(c) ==
  \/ Do(c) \/ Recheck(c) \/ Store(c) \/ Deliver(c) \/ AddPeer(c) \/ RemovePeer(c)
  \/ \E subscribed \in BOOLEAN : Bootstrap(c, subscribed)

ClientStep(c) == Connect(c) \/ Update(c) \/ ReadEnds(c)

TimerStep(t) == TimerFires(t) \/ PeerCount(t) \/ Remove(t)

CloseStep(t) == CloseChannel(t) \/ ClosePeers(t) \/ CloseEngine(t) \/ AfterClose(t)

LoopStep(r) ==
  \/ Tick(r)
  \/ \E acquired \in BOOLEAN : OnClose(r, acquired)
  \/ \E requeued \in BOOLEAN : FlushReturns(r, requeued)

Next ==
  \/ \E c \in Conns : ConnStep(c) \/ ClientStep(c) \/ TimerStep(c)
  \/ \E t \in Tasks : CloseStep(t)
  \/ \E r \in Rooms : LoopStep(r) \/ BrokerUpdate(r)
  \/ CloseAll
  \/ Exit

Spec == Init /\ [][Next]_vars

\* Go runs every goroutine that can run, timers fire, a flush, which has a
\* timeout, returns, and the flush lock, which expires, is not missed forever.
\* A client need not connect, edit or leave, and the process need not be shut
\* down.
FairSpec ==
  /\ Spec
  /\ \A c \in Conns : WF_vars(ConnStep(c)) /\ WF_vars(TimerStep(c))
  /\ \A t \in Tasks : WF_vars(CloseStep(t))
  /\ \A r \in Rooms : WF_vars(LoopStep(r))

-----------------------------------------------------------------------------
(* Properties.                                                             *)

\* The rooms whose goroutine runs and that nobody has begun to close.
Live == {r \in Rooms : loop[r] \in {"running", "flushing"} /\ ~closed[r]}

\* Until the process is shut down, a room with a live flush goroutine is the
\* registered one, the one its creator is about to register, or one that a
\* removal has taken and will close: the second Load inside the singleflight
\* call and LoadAndDelete leave no room behind that nothing can reach.
NoOrphanRoom ==
  task[Main] = "none" =>
    \A r \in Live : \/ reg = r
                    \/ pc[r] = "store"
                    \/ \E t \in Conns : victim[t] = r /\ task[t] \in Closing

\* Why: one connection at a time creates, and only while no room is registered;
\* a removal that has got past closeOnce has closed its room.
LifeInv ==
  /\ \A c \in Conns : pc[c] \in Creating <=> flight = c
  /\ \A c \in Conns : pc[c] \in {"boot", "store"} => reg = None
  /\ \A c \in Conns : pc[c] # "gone" => task[c] = "none"
  /\ \A r \in Rooms : once[r] # "no" => closed[r]
  /\ \A t \in Tasks : task[t] \in Closing => victim[t] \in Rooms
  /\ \A t \in Tasks : task[t] \in {"peers", "engine"} => closed[victim[t]]
  /\ NoOrphanRoom

\* A room without a broker peer that its last client has left is removed,
\* unless another client comes: the timer of RemovePeer is always armed by the
\* peer that leaves the room empty.
IdleRoomRemoved ==
  \A r \in Rooms :
    (reg = r /\ Broker \notin peers[r] /\ \A c \in Conns : pc[c] \in {"start", "gone"})
      ~> (reg # r \/ exited \/ \E c \in Conns : pc[c] \notin {"start", "gone"})

\* Every connection that asked for the room gets into one, whether it found
\* it, created it or waited for the one who did.
EveryoneAdmitted ==
  \A c \in Conns : pc[c] \in {"do", "wait", "have"} \cup Creating ~> (pc[c] = "in" \/ exited)

\* What is buffered in a room before it is closed is drained by its flush
\* goroutine, by the final flush at the latest, unless another instance has the
\* flush lock then.
BufferDrained ==
  \A r \in Rooms : (buf[r] /\ ~closed[r]) ~> (~buf[r] \/ loop[r] = "missed" \/ exited)

=============================================================================
