------------------------------ MODULE RoomState ------------------------------
(***************************************************************************)
(* The durable state of one document's room, kept in Redis by the relay    *)
(* pods that serve it: the update log with its counter, the snapshot with  *)
(* its offset, the flush lock, and the pub/sub channel between pods        *)
(* (internal/relay/room.go, server.go, redis_state_store.go,               *)
(* redis_flush_lock.go, redis_broker.go, broker_conn.go).                  *)
(*                                                                         *)
(* A Yjs document is the set of updates whose effect it contains: applying *)
(* an update twice or in another order makes no difference.  Each command  *)
(* sent to Redis is one atomic step, a MULTI block is one step, and a pod  *)
(* may be anywhere between two of them when another pod acts, or when it   *)
(* crashes.  Messages between pods may be dropped (full channels).         *)
(***************************************************************************)
EXTENDS Integers, Sequences

CONSTANTS
    Pods,           \* the relay processes
    Updates,        \* the updates clients send, each once
    NoPod,          \* no owner
    MaxLog,         \* bound: entries ever appended to the log
    MaxCrashes,     \* bound: crashes
    Faults          \* whether Redis, the engine and channels may fail

ASSUME BoundsAssumption == MaxLog \in Nat /\ MaxCrashes \in Nat
ASSUME FaultsAssumption == Faults \in BOOLEAN
ASSUME NoPodAssumption == NoPod \notin Pods

VARIABLES
    \* Redis
    log,            \* :log, a list of updates
    counter,        \* :log_len, the number of RPUSHes so far
    snapshot,       \* :snapshot, a document (see NoSnapshot)
    snapOff,        \* :snap_off
    lock,           \* the flush lock: its owner, or NoPod
    \* Pods
    phase,          \* where the pod's room is: booting, idle, flushing
    doc,            \* the engine's document
    handling,       \* frames applied to doc, the rest of handleSyncMessage to come
    buf,            \* UpdateBuffer, as a set
    drained,        \* what the running Flush took out of it
    pending,        \* AppendUpdate goroutines not finished
    outbox,         \* the broker peer's writeCh
    inbox,          \* the subscription's channel
    state,          \* flushBuffer: the encoded document
    offset,         \* a counter value read from Redis (WriteSnapshot, bootstrap)
    tail,           \* ReadLogTail: counter and list length read
    \* The provider, the clients, and history
    stored,         \* updates the provider holds
    sent,           \* updates sent by clients so far
    crashes,
    stale,          \* auxiliary: the pod's last read or write of the snapshot failed
    quiet           \* auxiliary: Redis was not written since the pod started to boot

redisVars == <<log, counter, snapshot, snapOff>>
localVars == <<state, offset, tail>>
msgVars == <<pending, outbox, inbox>>
vars == <<redisVars, lock, phase, doc, handling, buf, drained, msgVars, localVars,
          stored, sent, crashes, stale, quiet>>

NoSnapshot == [exists |-> FALSE, doc |-> {}]
Elems(s) == {s[i] : i \in DOMAIN s}

Booting == {"snapshot", "offset", "counter", "length", "range", "subscribe"}
Up == {"idle", "flush", "encode", "count", "exec"}

TypeOK ==
    /\ log \in Seq(Updates)
    /\ counter \in Nat
    /\ snapshot \in [exists : BOOLEAN, doc : SUBSET Updates]
    /\ snapOff \in Nat
    /\ lock \in Pods \cup {NoPod}
    /\ phase \in [Pods -> {"down"} \cup Booting \cup Up]
    /\ doc \in [Pods -> SUBSET Updates]
    /\ handling \in [Pods -> SUBSET (Updates \X BOOLEAN)]
    /\ buf \in [Pods -> SUBSET Updates]
    /\ drained \in [Pods -> SUBSET Updates]
    /\ pending \in [Pods -> SUBSET Updates]
    /\ outbox \in [Pods -> SUBSET Updates]
    /\ inbox \in [Pods -> SUBSET Updates]
    /\ state \in [Pods -> SUBSET Updates]
    /\ offset \in [Pods -> Nat]
    /\ tail \in [Pods -> [counter : Nat, length : Nat]]
    /\ stored \in SUBSET Updates
    /\ sent \in SUBSET Updates
    /\ crashes \in Nat
    /\ stale \in [Pods -> BOOLEAN]
    /\ quiet \in [Pods -> BOOLEAN]

Init ==
    /\ log = <<>>
    /\ counter = 0
    /\ snapshot = NoSnapshot
    /\ snapOff = 0
    /\ lock = NoPod
    /\ phase = [p \in Pods |-> "down"]
    /\ doc = [p \in Pods |-> {}]
    /\ handling = [p \in Pods |-> {}]
    /\ buf = [p \in Pods |-> {}]
    /\ drained = [p \in Pods |-> {}]
    /\ pending = [p \in Pods |-> {}]
    /\ outbox = [p \in Pods |-> {}]
    /\ inbox = [p \in Pods |-> {}]
    /\ state = [p \in Pods |-> {}]
    /\ offset = [p \in Pods |-> 0]
    /\ tail = [p \in Pods |-> [counter |-> 0, length |-> 0]]
    /\ stored = {}
    /\ sent = {}
    /\ crashes = 0
    /\ stale = [p \in Pods |-> FALSE]
    /\ quiet = [p \in Pods |-> FALSE]

\* A write to the log or the snapshot disturbs every pod.
Disturb == quiet' = [p \in Pods |-> FALSE]

-----------------------------------------------------------------------------
(* Cold start of the room on a pod: bootstrapRoom, then Subscribe.         *)

Boot(p) ==
    /\ phase[p] = "down"
    /\ phase' = [phase EXCEPT ![p] = "snapshot"]
    /\ quiet' = [quiet EXCEPT ![p] = TRUE]
    /\ UNCHANGED <<redisVars, lock, doc, handling, buf, drained, msgVars,
                   localVars, stored, sent, crashes, stale>>

\* ReadSnapshot's first GET.  Without a snapshot the room is loaded from the
\* provider, and the log is not looked at.
ReadSnapshot(p) ==
    /\ phase[p] = "snapshot"
    /\ state' = [state EXCEPT ![p] = snapshot.doc]
    /\ doc' = [doc EXCEPT ![p] = IF snapshot.exists THEN @ ELSE stored]
    /\ phase' = [phase EXCEPT ![p] = IF snapshot.exists THEN "offset" ELSE "subscribe"]
    /\ UNCHANGED <<redisVars, lock, handling, buf, drained, msgVars, offset, tail,
                   stored, sent, crashes, stale, quiet>>

\* The engine failed, or did not fail, to apply what was read: a warning.
Replayed(p, ok) ==
    /\ ok \/ Faults
    /\ quiet' = [quiet EXCEPT ![p] = IF ok THEN @ ELSE FALSE]
    /\ stale' = [stale EXCEPT ![p] = IF ok THEN @ ELSE TRUE]

\* ReadSnapshot's second GET, and BootstrapFromSnapshot.
ReadSnapOffset(p, ok) ==
    /\ phase[p] = "offset"
    /\ offset' = [offset EXCEPT ![p] = snapOff]
    /\ doc' = [doc EXCEPT ![p] = IF ok THEN state[p] ELSE @]
    /\ Replayed(p, ok)
    /\ phase' = [phase EXCEPT ![p] = "counter"]
    /\ UNCHANGED <<redisVars, lock, handling, buf, drained, msgVars, state, tail,
                   stored, sent, crashes>>

\* ReadLogTail: GET of the counter; nothing to do if it is not past the offset.
ReadCounter(p) ==
    /\ phase[p] = "counter"
    /\ tail' = [tail EXCEPT ![p].counter = counter]
    /\ phase' = [phase EXCEPT ![p] = IF counter <= offset[p] THEN "subscribe" ELSE "length"]
    /\ UNCHANGED <<redisVars, lock, doc, handling, buf, drained, msgVars, state,
                   offset, stored, sent, crashes, stale, quiet>>

\* ReadLogTail: LLEN.
ReadLength(p) ==
    /\ phase[p] = "length"
    /\ tail' = [tail EXCEPT ![p].length = Len(log)]
    /\ phase' = [phase EXCEPT ![p] = "range"]
    /\ UNCHANGED <<redisVars, lock, doc, handling, buf, drained, msgVars, state,
                   offset, stored, sent, crashes, stale, quiet>>

\* Mutant: the offset is taken for the index of the last entry to skip.
RelativeStart_OffByOne(p) ==
    LET start == offset[p] - (tail[p].counter - tail[p].length) + 1
    IN  IF start < 0 THEN 0 ELSE start

\* ReadLogTail: how many entries of the list are before the caller's offset.
RelativeStart(p) ==
    LET start == offset[p] - (tail[p].counter - tail[p].length)
    IN  IF start < 0 THEN 0 ELSE start

\* What LRANGE returns.
LogTail(p) == {log[i] : i \in {j \in DOMAIN log : j > RelativeStart(p)}}

\* Mutant: the tail replaces the snapshot.
ReadRange_Replaces(p, ok) ==
    /\ phase[p] = "range"
    /\ doc' = [doc EXCEPT ![p] = IF ok THEN LogTail(p) ELSE @]
    /\ Replayed(p, ok)
    /\ phase' = [phase EXCEPT ![p] = "subscribe"]
    /\ UNCHANGED <<redisVars, lock, handling, buf, drained, msgVars, localVars,
                   stored, sent, crashes>>

\* ReadLogTail: LRANGE, and ApplyLogEntry for what it returned.
ReadRange(p, ok) ==
    /\ phase[p] = "range"
    /\ doc' = [doc EXCEPT ![p] = IF ok THEN @ \cup LogTail(p) ELSE @]
    /\ Replayed(p, ok)
    /\ phase' = [phase EXCEPT ![p] = "subscribe"]
    /\ UNCHANGED <<redisVars, lock, handling, buf, drained, msgVars, localVars,
                   stored, sent, crashes>>

\* A read fails: bootstrapRoom falls back to the provider when it has no
\* snapshot (whose Load may fail too), and goes without the log tail otherwise.
BootReadFails(p, loaded) ==
    /\ Faults
    /\ phase[p] \in Booting \ {"subscribe"}
    /\ doc' = [doc EXCEPT ![p] =
                 IF phase[p] \in {"snapshot", "offset"} /\ loaded THEN stored ELSE @]
    /\ phase' = [phase EXCEPT ![p] = "subscribe"]
    /\ quiet' = [quiet EXCEPT ![p] = FALSE]
    /\ stale' = [stale EXCEPT ![p] = TRUE]
    /\ UNCHANGED <<redisVars, lock, handling, buf, drained, msgVars, localVars,
                   stored, sent, crashes>>

\* newBrokerConn: from here on the pod receives what siblings publish.
Subscribe(p) ==
    /\ phase[p] = "subscribe"
    /\ phase' = [phase EXCEPT ![p] = "idle"]
    /\ UNCHANGED <<redisVars, lock, doc, handling, buf, drained, msgVars,
                   localVars, stored, sent, crashes, stale, quiet>>

-----------------------------------------------------------------------------
(* Update frames.                                                          *)

\* handleSyncMessage, the part under engMu: SyncMessage.  A failed apply is not
\* fatal for an Update frame.
Apply(p, u, fromClient, ok) ==
    /\ doc' = [doc EXCEPT ![p] = IF ok THEN @ \cup {u} ELSE @]
    /\ handling' = [handling EXCEPT ![p] = @ \cup {<<u, fromClient>>}]
    /\ UNCHANGED buf

ClientUpdate(p, u, ok) ==
    /\ ok \/ Faults
    /\ phase[p] \in Up
    /\ u \notin sent
    /\ sent' = sent \cup {u}
    /\ Apply(p, u, TRUE, ok)
    /\ UNCHANGED <<redisVars, lock, phase, drained, msgVars, localVars,
                   stored, crashes, stale, quiet>>

\* The broker peer's readLoop: the same handler, from a sibling's frame.
BrokerUpdate(p, u, ok) ==
    /\ ok \/ Faults
    /\ u \in inbox[p]
    /\ inbox' = [inbox EXCEPT ![p] = @ \ {u}]
    /\ Apply(p, u, FALSE, ok)
    /\ UNCHANGED <<redisVars, lock, phase, drained, pending, outbox,
                   localVars, stored, sent, crashes, stale, quiet>>

\* The rest of handleSyncMessage: Broadcast (to the broker peer unless it is the
\* sender), buffer.Append, and the goroutine that appends to the log.
Enqueue(p, u, fromClient) ==
    /\ <<u, fromClient>> \in handling[p]
    /\ handling' = [handling EXCEPT ![p] = @ \ {<<u, fromClient>>}]
    /\ outbox' = [outbox EXCEPT ![p] = IF fromClient THEN @ \cup {u} ELSE @]
    /\ buf' = [buf EXCEPT ![p] = @ \cup {u}]
    /\ pending' = [pending EXCEPT ![p] = @ \cup {u}]
    /\ UNCHANGED <<redisVars, lock, phase, doc, drained, inbox, localVars,
                   stored, sent, crashes, stale, quiet>>

\* The pods that hear p: redisBroker drops a pod's own messages.
Subscribed(p) == {q \in Pods \ {p} : phase[q] \in Up}

\* The broker peer's writeLoop: of the pods subscribed now, those in "to" get the
\* frame; for the others a channel was full or the connection was down.
Publish(p, u, to) ==
    /\ u \in outbox[p]
    /\ to \subseteq Subscribed(p)
    /\ to = Subscribed(p) \/ Faults
    /\ outbox' = [outbox EXCEPT ![p] = @ \ {u}]
    /\ inbox' = [q \in Pods |-> IF q \in to THEN inbox[q] \cup {u} ELSE inbox[q]]
    /\ UNCHANGED <<redisVars, lock, phase, doc, handling, buf, drained, pending,
                   localVars, stored, sent, crashes, stale, quiet>>

\* AppendUpdate: MULTI RPUSH, INCR EXEC.  The PUBLISH that follows carries the
\* bare update without a frame: a sibling passes it on uninterpreted, or, if it
\* starts with a zero byte, reads it as a malformed sync frame.  Neither is taken
\* to change its document, and the PUBLISH is left out.
AppendUpdate(p, u) ==
    /\ u \in pending[p]
    /\ counter < MaxLog
    /\ pending' = [pending EXCEPT ![p] = @ \ {u}]
    /\ log' = Append(log, u)
    /\ counter' = counter + 1
    /\ Disturb
    /\ UNCHANGED <<snapshot, snapOff, lock, phase, doc, handling, buf, drained,
                   outbox, inbox, localVars, stored, sent, crashes, stale>>

\* Its two-second timeout, or Redis, failed it: only a warning is logged.
AppendFails(p, u) ==
    /\ Faults
    /\ u \in pending[p]
    /\ pending' = [pending EXCEPT ![p] = @ \ {u}]
    /\ UNCHANGED <<redisVars, lock, phase, doc, handling, buf, drained, outbox,
                   inbox, localVars, stored, sent, crashes, stale, quiet>>

-----------------------------------------------------------------------------
(* flushBuffer: Flush under the lock, then a snapshot without it.          *)

\* Mutant: SET without NX.
Acquire_NoNX(p) == lock' = p

\* Acquire: SETNX.
Acquire(p) == lock = NoPod /\ lock' = p

\* The lock is won and the buffer drained.
FlushWon(p) ==
    /\ phase[p] = "idle"
    /\ buf[p] # {}
    /\ Acquire(p)
    /\ drained' = [drained EXCEPT ![p] = buf[p]]
    /\ buf' = [buf EXCEPT ![p] = {}]
    /\ phase' = [phase EXCEPT ![p] = "flush"]
    /\ UNCHANGED <<redisVars, doc, handling, msgVars, localVars, stored, sent,
                   crashes, stale, quiet>>

\* The lock is taken, or Acquire fails: Flush returns an empty result and
\* flushBuffer goes on as after any other.
FlushMissed(p) ==
    /\ phase[p] = "idle"
    /\ buf[p] # {}
    /\ lock # NoPod \/ Faults
    /\ phase' = [phase EXCEPT ![p] = "encode"]
    /\ UNCHANGED <<redisVars, lock, doc, handling, buf, drained, msgVars, localVars,
                   stored, sent, crashes, stale, quiet>>

\* Mutant: no snapshot after a flush the lock was won for.
FlushDone_SkipsSnapshot(p, landed, back, released) ==
    /\ phase[p] = "flush"
    /\ Faults \/ (landed /\ ~back /\ released)
    /\ stored' = IF landed THEN stored \cup drained[p] ELSE stored
    /\ buf' = [buf EXCEPT ![p] = IF back THEN @ \cup drained[p] ELSE @]
    /\ drained' = [drained EXCEPT ![p] = {}]
    /\ lock' = IF released /\ lock = p THEN NoPod ELSE lock
    /\ phase' = [phase EXCEPT ![p] = "idle"]
    /\ UNCHANGED <<redisVars, doc, handling, msgVars, localVars, sent, crashes,
                   stale, quiet>>

\* The end of Flush, whose inside is RelayFlush: the drained updates reached the
\* provider or not ("landed"), and are prepended to the buffer or not ("back").
\* Release fails when the flush's context has expired.
FlushDone(p, landed, back, released) ==
    /\ phase[p] = "flush"
    /\ Faults \/ (landed /\ ~back /\ released)
    /\ stored' = IF landed THEN stored \cup drained[p] ELSE stored
    /\ buf' = [buf EXCEPT ![p] = IF back THEN @ \cup drained[p] ELSE @]
    /\ drained' = [drained EXCEPT ![p] = {}]
    /\ lock' = IF released /\ lock = p THEN NoPod ELSE lock
    /\ phase' = [phase EXCEPT ![p] = "encode"]
    /\ UNCHANGED <<redisVars, doc, handling, msgVars, localVars, sent, crashes,
                   stale, quiet>>

\* The lock's ten seconds are over.  They outlast a flush, whose context ends
\* after StoreTimeout (five seconds).
LockExpires ==
    /\ lock # NoPod
    /\ phase[lock] # "flush"
    /\ lock' = NoPod
    /\ UNCHANGED <<redisVars, phase, doc, handling, buf, drained, msgVars, localVars,
                   stored, sent, crashes, stale, quiet>>

\* YDocState.
EncodeState(p) ==
    /\ phase[p] = "encode"
    /\ state' = [state EXCEPT ![p] = doc[p]]
    /\ phase' = [phase EXCEPT ![p] = "count"]
    /\ UNCHANGED <<redisVars, lock, doc, handling, buf, drained, msgVars, offset,
                   tail, stored, sent, crashes, stale, quiet>>

\* WriteSnapshot: GET of the counter.
CaptureOffset(p) ==
    /\ phase[p] = "count"
    /\ offset' = [offset EXCEPT ![p] = counter]
    /\ phase' = [phase EXCEPT ![p] = "exec"]
    /\ UNCHANGED <<redisVars, lock, doc, handling, buf, drained, msgVars, state,
                   tail, stored, sent, crashes, stale, quiet>>

\* Mutant: what is buffered is taken to be in the snapshot.
WriteSnapshot_ResetsBuffer(p) ==
    /\ phase[p] = "exec"
    /\ snapshot' = [exists |-> TRUE, doc |-> state[p]]
    /\ snapOff' = offset[p]
    /\ log' = <<>>
    /\ stale' = [stale EXCEPT ![p] = FALSE]
    /\ Disturb
    /\ phase' = [phase EXCEPT ![p] = "idle"]
    /\ buf' = [buf EXCEPT ![p] = {}]
    /\ UNCHANGED <<counter, lock, doc, handling, drained, msgVars, localVars,
                   stored, sent, crashes>>

\* WriteSnapshot: MULTI SET, SET, LTRIM to nothing, EXEC.
WriteSnapshot(p) ==
    /\ phase[p] = "exec"
    /\ snapshot' = [exists |-> TRUE, doc |-> state[p]]
    /\ snapOff' = offset[p]
    /\ log' = <<>>
    /\ stale' = [stale EXCEPT ![p] = FALSE]
    /\ Disturb
    /\ phase' = [phase EXCEPT ![p] = "idle"]
    /\ UNCHANGED <<counter, lock, doc, handling, buf, drained, msgVars, localVars,
                   stored, sent, crashes>>

\* The engine, a Redis command or the context fails: a warning at most.
SnapshotFails(p) ==
    /\ Faults
    /\ phase[p] \in {"encode", "count", "exec"}
    /\ stale' = [stale EXCEPT ![p] = TRUE]
    /\ phase' = [phase EXCEPT ![p] = "idle"]
    /\ UNCHANGED <<redisVars, lock, doc, handling, buf, drained, msgVars, localVars,
                   stored, sent, crashes, quiet>>

\* The process dies.  Redis, the lock included, stays as it is.
Crash(p) ==
    /\ phase[p] # "down"
    /\ crashes < MaxCrashes
    /\ crashes' = crashes + 1
    /\ phase' = [phase EXCEPT ![p] = "down"]
    /\ doc' = [doc EXCEPT ![p] = {}]
    /\ handling' = [handling EXCEPT ![p] = {}]
    /\ buf' = [buf EXCEPT ![p] = {}]
    /\ drained' = [drained EXCEPT ![p] = {}]
    /\ pending' = [pending EXCEPT ![p] = {}]
    /\ outbox' = [outbox EXCEPT ![p] = {}]
    /\ inbox' = [inbox EXCEPT ![p] = {}]
    /\ state' = [state EXCEPT ![p] = {}]
    /\ offset' = [offset EXCEPT ![p] = 0]
    /\ tail' = [tail EXCEPT ![p] = [counter |-> 0, length |-> 0]]
    /\ stale' = [stale EXCEPT ![p] = FALSE]
    /\ quiet' = [quiet EXCEPT ![p] = FALSE]
    /\ UNCHANGED <<redisVars, lock, stored, sent>>

-----------------------------------------------------------------------------

BootStep(p) ==
    \/ Boot(p) \/ ReadSnapshot(p) \/ ReadCounter(p) \/ ReadLength(p) \/ Subscribe(p)
    \/ \E ok \in BOOLEAN : ReadSnapOffset(p, ok) \/ ReadRange(p, ok)
    \/ \E loaded \in BOOLEAN : BootReadFails(p, loaded)

FrameStep(p) ==
    \E u \in Updates :
        \/ \E ok \in BOOLEAN : ClientUpdate(p, u, ok) \/ BrokerUpdate(p, u, ok)
        \/ \E fromClient \in BOOLEAN : Enqueue(p, u, fromClient)
        \/ \E to \in SUBSET Pods : Publish(p, u, to)
        \/ AppendUpdate(p, u) \/ AppendFails(p, u)

FlushStep(p) ==
    \/ FlushWon(p) \/ FlushMissed(p)
    \/ \E landed, back, released \in BOOLEAN : FlushDone(p, landed, back, released)
    \/ EncodeState(p) \/ CaptureOffset(p) \/ WriteSnapshot(p) \/ SnapshotFails(p)

Next ==
    \/ LockExpires
    \/ \E p \in Pods : BootStep(p) \/ FrameStep(p) \/ FlushStep(p) \/ Crash(p)

Spec == Init /\ [][Next]_vars

\* A started handler and a started flush go on, the ticker keeps firing, and the
\* lock's TTL runs out.
Fairness ==
    /\ WF_vars(LockExpires)
    /\ \A p \in Pods :
         /\ WF_vars(FlushStep(p))
         /\ \A u \in Updates, fromClient \in BOOLEAN : WF_vars(Enqueue(p, u, fromClient))

FairSpec == Spec /\ Fairness

-----------------------------------------------------------------------------
(* Properties.                                                             *)

Handled(p) == {h[1] : h \in handling[p]}

\* The counter never falls behind the log: the entries still listed are among
\* those appended after the snapshot's offset.  relativeStart of ReadLogTail
\* relies on it (redis_state_store.go:141-153).
LogWindow == snapOff + Len(log) <= counter

\* A pod that bootstraps from a snapshot while nobody writes has, when it is
\* done, everything the snapshot and the log hold (bootstrapRoom).
QuietBootComplete ==
    \A p \in Pods :
        phase[p] = "subscribe" /\ quiet[p] /\ snapshot.exists
            => snapshot.doc \cup Elems(log) \subseteq doc[p]

\* At most one pod at a time is between Acquire and Release, so one stores the
\* document's updates (flush.go:46-58).
FlushExclusive ==
    \A p, q \in Pods : phase[p] = "flush" /\ phase[q] = "flush" => p = q

\* With one pod: between two flushes, what the document has and the snapshot
\* lacks is in the log, in the buffer or in a running handler, so that the next
\* start or flush has it.  This holds although the provider may lose what it is sent, the log is
\* trimmed wholesale and updates arrive while the snapshot is taken; it needs the
\* order of handleSyncMessage (apply, then buffer) and of flushBuffer (drain,
\* then encode).
NotForgotten ==
    \A p \in Pods :
        phase[p] = "idle" /\ snapshot.exists /\ ~stale[p]
            => doc[p] \subseteq snapshot.doc \cup Elems(log) \cup buf[p] \cup Handled(p)

\* With one pod, a snapshot never loses what an earlier one had, unless the pod
\* failed to read it or to write the last one: a restarted pod continues from the
\* snapshot (bootstrapRoom).
SnapshotGrows ==
    [][\A p \in Pods : WriteSnapshot(p) /\ ~stale[p]
          => snapshot.doc \subseteq snapshot'.doc]_snapshot

\* With one pod: an update in the document that is being handled or is buffered
\* reaches the snapshot, whatever the provider does with it, unless a read or
\* write of the snapshot fails or the pod crashes.
EventuallyDurable ==
    \A p \in Pods, u \in Updates :
        u \in doc[p] \cap (buf[p] \cup Handled(p))
            ~> (u \in snapshot.doc \/ stale[p] \/ phase[p] = "down")

\* Why LogWindow holds: an offset read from Redis is not ahead of the counter.
WindowInv == LogWindow /\ \A p \in Pods : offset[p] <= counter

\* Why FlushExclusive holds: who flushes owns the lock.
LockInv == \A p \in Pods : phase[p] = "flush" => lock = p

\* Why QuietBootComplete holds: what an undisturbed pod has read is still so.
BootInv ==
    \A p \in Pods : quiet[p] =>
        /\ phase[p] = "offset" => state[p] = snapshot.doc
        /\ phase[p] \in {"counter", "length", "range"}
             => snapshot.doc \subseteq doc[p] /\ offset[p] = snapOff
        /\ phase[p] \in {"length", "range"} => tail[p].counter = counter
        /\ phase[p] = "range" => tail[p].length = Len(log)
        /\ phase[p] = "subscribe" /\ snapshot.exists
             => snapshot.doc \cup Elems(log) \subseteq doc[p]

\* What has been applied to the document and is not yet drained.
Fresh(p) == buf[p] \cup Handled(p)

\* Why NotForgotten holds, with one pod: where the document comes from while the
\* pod boots, and what its snapshot covers while it is being written.
CoverInv ==
    \A p \in Pods :
        /\ phase[p] \in {"down", "snapshot", "offset"} => doc[p] \subseteq Fresh(p)
        /\ phase[p] = "offset" => state[p] = snapshot.doc
        /\ phase[p] \in {"counter", "length", "range"} => doc[p] \subseteq snapshot.doc \cup Fresh(p)
        /\ phase[p] \in {"subscribe", "idle"} /\ snapshot.exists /\ ~stale[p]
             => doc[p] \subseteq snapshot.doc \cup Elems(log) \cup Fresh(p)
        /\ phase[p] \in {"count", "exec"} => doc[p] \subseteq state[p] \cup Fresh(p)

\* Why SnapshotGrows holds, with one pod: a running pod's document contains the
\* snapshot, and so does what it encodes.
GrowInv ==
    /\ ~snapshot.exists => snapshot.doc = {}
    /\ \A p \in Pods :
        /\ phase[p] = "offset" => state[p] = snapshot.doc
        /\ phase[p] \in {"counter", "length", "range", "subscribe"} \cup Up /\ ~stale[p]
             => snapshot.doc \subseteq doc[p]
        /\ phase[p] \in {"count", "exec"} =>
             /\ state[p] \subseteq doc[p]
             /\ ~stale[p] => snapshot.doc \subseteq state[p]

=============================================================================
