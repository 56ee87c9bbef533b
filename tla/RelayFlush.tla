----------------------------- MODULE RelayFlush -----------------------------
(***************************************************************************)
(* The persistence path of one relay process: the update buffer of every   *)
(* room, the flush goroutine of every room (StartFlushLoop, flushBuffer,   *)
(* Flusher.Flush, storeWithRetry), and the circuit breaker with its health *)
(* checker, which all rooms share (internal/relay/buffer.go, flush.go,     *)
(* circuit_breaker.go and the flush half of room.go).                      *)
(*                                                                         *)
(* A BufferedUpdate is its Sequence number: the frame it carries is opaque *)
(* to this code.  Every frame counts one unit of buffer size.  The storage *)
(* provider and the distributed flush lock are the environment: a Store    *)
(* call may succeed, fail for some of the updates (207), or return an      *)
(* error after any part of the request was stored; the lock may be missed. *)
(* The context of a flush may expire wherever the code looks at it.        *)
(***************************************************************************)
EXTENDS Naturals, Sequences

CONSTANTS
    Rooms,          \* the documents open on this relay
    MaxRetries,     \* storage.retry.max_attempts
    Threshold,      \* storage.health_check.threshold
    FlushMaxBytes,  \* room.flush_max_bytes, in frames
    MaxSeq          \* bound: updates received per room

\* A retry count and a size limit are numbers; a breaker that opens after zero
\* failures is excluded, as no configuration of the repository has one.
ASSUME ConfigAssumption ==
    /\ MaxRetries \in Nat
    /\ Threshold \in Nat \ {0}
    /\ FlushMaxBytes \in Nat
    /\ MaxSeq \in Nat

VARIABLES
    \* UpdateBuffer, per room
    buffer,         \* updates: the sequence numbers waiting to be flushed
    size,           \* size
    seq,            \* seq: the last sequence number given out
    \* Room, per room
    flushCh,        \* the one-slot channel holds a signal
    closeCh,        \* the channel has been closed (Room.Close)
    \* The flush goroutine, per room
    pc,             \* where it is
    final,          \* it serves the closeCh branch: the loop ends after it
    updates,        \* Flush: what Drain returned
    payloads,       \* storeWithRetry: what the next attempt sends
    attempt,        \* storeWithRetry: attempt
    resp,           \* storeWithRetry: the response so far (see Nil)
    scan,           \* Flush: index of the loop that maps Failed to updates
    requeue,        \* FlushResult.Requeue
    \* CircuitBreaker and its health checker, shared
    breakerState, failureCount, checker,
    \* The provider, and what is known of it, per room
    stored,         \* updates the provider holds
    acked,          \* auxiliary: updates a response said are stored
    lost            \* auxiliary: updates in hand when Flush gave up on them

bufferVars == <<buffer, size, seq>>
roomVars == <<flushCh, closeCh>>
flushVars == <<pc, final, updates, payloads, attempt, resp, scan, requeue>>
breakerVars == <<breakerState, failureCount>>
providerVars == <<stored, acked>>
vars == <<bufferVars, roomVars, flushVars, breakerVars, checker, providerVars,
          lost>>

\* A *spi.StoreResponse is the set of sequence numbers in Failed; Nil is the
\* nil pointer.  Sequence numbers start at 1, so {0} is no response.
Nil == {0}

Elems(s) == {s[i] : i \in DOMAIN s}

Breaker == {"closed", "open", "half-open"}
Locations == {"select", "lock", "allow", "store", "backoff", "result",
              "requeue", "prepend", "done"}

TypeOK ==
    /\ buffer \in [Rooms -> Seq(Nat)]
    /\ size \in [Rooms -> Nat]
    /\ seq \in [Rooms -> Nat]
    /\ flushCh \in [Rooms -> BOOLEAN]
    /\ closeCh \in [Rooms -> BOOLEAN]
    /\ pc \in [Rooms -> Locations]
    /\ final \in [Rooms -> BOOLEAN]
    /\ updates \in [Rooms -> Seq(Nat)]
    /\ payloads \in [Rooms -> SUBSET Nat]
    /\ attempt \in [Rooms -> Nat]
    /\ resp \in [Rooms -> SUBSET Nat]
    /\ scan \in [Rooms -> Nat]
    /\ requeue \in [Rooms -> Seq(Nat)]
    /\ breakerState \in Breaker
    /\ failureCount \in Nat
    /\ checker \in {"idle", "probed", "confirm"}
    /\ stored \in [Rooms -> SUBSET Nat]
    /\ acked \in [Rooms -> SUBSET Nat]
    /\ lost \in [Rooms -> SUBSET Nat]

Init ==
    /\ buffer = [r \in Rooms |-> <<>>]
    /\ size = [r \in Rooms |-> 0]
    /\ seq = [r \in Rooms |-> 0]
    /\ flushCh = [r \in Rooms |-> FALSE]
    /\ closeCh = [r \in Rooms |-> FALSE]
    /\ pc = [r \in Rooms |-> "select"]
    /\ final = [r \in Rooms |-> FALSE]
    /\ updates = [r \in Rooms |-> <<>>]
    /\ payloads = [r \in Rooms |-> {}]
    /\ attempt = [r \in Rooms |-> 0]
    /\ resp = [r \in Rooms |-> Nil]
    /\ scan = [r \in Rooms |-> 0]
    /\ requeue = [r \in Rooms |-> <<>>]
    /\ breakerState = "closed"
    /\ failureCount = 0
    /\ checker = "idle"
    /\ stored = [r \in Rooms |-> {}]
    /\ acked = [r \in Rooms |-> {}]
    /\ lost = [r \in Rooms |-> {}]

-----------------------------------------------------------------------------
(* CircuitBreaker: each method runs under the breaker's mutex.             *)

Allow == breakerState # "open"

\* The counter is only ever compared with Threshold, so it saturates there.
RecordFailure ==
    /\ failureCount' = IF failureCount < Threshold THEN failureCount + 1
                                                   ELSE failureCount
    /\ breakerState' = IF failureCount' >= Threshold /\ breakerState = "closed"
                         THEN "open" ELSE breakerState

RecordSuccess ==
    /\ failureCount' = 0
    /\ breakerState' = "closed"

\* checkHealth, the provider down or not "ok".
HealthFailed ==
    /\ checker = "idle"
    /\ RecordFailure
    /\ UNCHANGED <<bufferVars, roomVars, flushVars, checker, providerVars, lost>>

\* Mutant: a passed check leaves an open breaker open.
HealthOk_StaysOpen ==
    /\ checker = "idle"
    /\ checker' = "probed"
    /\ UNCHANGED <<bufferVars, roomVars, flushVars, breakerVars, providerVars, lost>>

\* checkHealth, the provider "ok": the locked section that half-opens.
HealthOk ==
    /\ checker = "idle"
    /\ breakerState' = IF breakerState = "open" THEN "half-open" ELSE breakerState
    /\ checker' = "probed"
    /\ UNCHANGED <<bufferVars, roomVars, flushVars, failureCount, providerVars, lost>>

\* checkHealth: cb.State() == BreakerHalfOpen is read after the unlock.
HealthReadState ==
    /\ checker = "probed"
    /\ checker' = IF breakerState = "half-open" THEN "confirm" ELSE "idle"
    /\ UNCHANGED <<bufferVars, roomVars, flushVars, breakerVars, providerVars,
                   lost>>

HealthConfirm ==
    /\ checker = "confirm"
    /\ RecordSuccess
    /\ checker' = "idle"
    /\ UNCHANGED <<bufferVars, roomVars, flushVars, providerVars, lost>>

Health == HealthFailed \/ HealthOk \/ HealthReadState \/ HealthConfirm

-----------------------------------------------------------------------------
(* UpdateBuffer: each method runs under the buffer's mutex.                *)

BufferAppend(r) ==
    /\ seq' = [seq EXCEPT ![r] = @ + 1]
    /\ buffer' = [buffer EXCEPT ![r] = Append(@, seq[r] + 1)]
    /\ size' = [size EXCEPT ![r] = @ + 1]

BufferDrain(r) ==
    /\ buffer' = [buffer EXCEPT ![r] = <<>>]
    /\ size' = [size EXCEPT ![r] = 0]
    /\ UNCHANGED seq

\* Mutant: re-queued updates go to the back.
BufferPrepend_AtBack(r, us) ==
    /\ buffer' = [buffer EXCEPT ![r] = @ \o us]
    /\ size' = [size EXCEPT ![r] = @ + Len(us)]
    /\ UNCHANGED seq

BufferPrepend(r, us) ==
    /\ buffer' = [buffer EXCEPT ![r] = us \o @]
    /\ size' = [size EXCEPT ![r] = @ + Len(us)]
    /\ UNCHANGED seq

-----------------------------------------------------------------------------
(* The room: receiving an update, and being closed.                        *)

\* handleSyncMessage on an Update frame: buffer.Append, then the non-blocking
\* signal.  Nothing stops it after Close: readLoop does not look at closeCh.
ReceiveUpdate(r) ==
    /\ seq[r] < MaxSeq
    /\ BufferAppend(r)
    /\ flushCh' = [flushCh EXCEPT ![r] = IF size[r] + 1 >= FlushMaxBytes THEN TRUE ELSE @]
    /\ UNCHANGED <<closeCh, flushVars, breakerVars, checker, providerVars,
                   lost>>

Close(r) ==
    /\ ~closeCh[r]
    /\ closeCh' = [closeCh EXCEPT ![r] = TRUE]
    /\ UNCHANGED <<bufferVars, flushCh, flushVars, breakerVars, checker,
                   providerVars, lost>>

-----------------------------------------------------------------------------
(* The flush goroutine of a room.                                          *)

\* flushBuffer was entered with an empty buffer, or has finished: the select
\* loop goes round, or ends when it served closeCh.
LoopTo(isFinal) == IF isFinal THEN "done" ELSE "select"

\* StartFlushLoop's select, and flushBuffer's early return.  A ready closeCh
\* does not take precedence: Go picks any ready branch.
StartFlush(r, isFinal) ==
    /\ pc[r] = "select"
    /\ final' = [final EXCEPT ![r] = isFinal]
    /\ pc' = [pc EXCEPT ![r] = IF buffer[r] = <<>> THEN LoopTo(isFinal) ELSE "lock"]
    /\ UNCHANGED <<bufferVars, closeCh, updates, payloads, attempt, resp, scan,
                   requeue, breakerVars, checker, providerVars, lost>>

OnTicker(r) == StartFlush(r, FALSE) /\ UNCHANGED flushCh
OnFlushCh(r) == flushCh[r] /\ StartFlush(r, FALSE)
                           /\ flushCh' = [flushCh EXCEPT ![r] = FALSE]
OnCloseCh(r) == closeCh[r] /\ StartFlush(r, TRUE) /\ UNCHANGED flushCh

\* Flush: the lock is held elsewhere or Acquire failed.  Nothing is drained
\* and the empty FlushResult takes the same way out as a successful one.
LockMissed(r) ==
    /\ pc[r] = "lock"
    /\ requeue' = [requeue EXCEPT ![r] = <<>>]
    /\ pc' = [pc EXCEPT ![r] = "prepend"]
    /\ UNCHANGED <<bufferVars, roomVars, final, updates, payloads, attempt, resp,
                   scan, breakerVars, checker, providerVars, lost>>

\* Flush: the lock is acquired (or none is configured); buffer.Drain.
Drain(r) ==
    /\ pc[r] = "lock"
    /\ updates' = [updates EXCEPT ![r] = buffer[r]]
    /\ BufferDrain(r)
    /\ pc' = [pc EXCEPT ![r] = "allow"]
    /\ UNCHANGED <<roomVars, final, payloads, attempt, resp, scan, requeue,
                   breakerVars, checker, providerVars, lost>>

\* Mutant: the drained updates are forgotten when the breaker is open.
BreakerRefused_Drops(r) ==
    /\ pc[r] = "allow"
    /\ ~Allow
    /\ updates' = [updates EXCEPT ![r] = <<>>]
    /\ pc' = [pc EXCEPT ![r] = "prepend"]
    /\ UNCHANGED <<bufferVars, roomVars, final, payloads, attempt, resp, scan,
                   requeue, breakerVars, checker, providerVars, lost>>

\* Flush: the breaker refuses; everything drained is re-queued.
BreakerRefused(r) ==
    /\ pc[r] = "allow"
    /\ ~Allow
    /\ requeue' = [requeue EXCEPT ![r] = updates[r]]
    /\ updates' = [updates EXCEPT ![r] = <<>>]
    /\ pc' = [pc EXCEPT ![r] = "prepend"]
    /\ UNCHANGED <<bufferVars, roomVars, final, payloads, attempt, resp, scan,
                   breakerVars, checker, providerVars, lost>>

\* Flush enters storeWithRetry; with no attempts allowed the loop body never
\* runs and the result is nil.
BeginStore(r) ==
    /\ pc[r] = "allow"
    /\ Allow
    /\ payloads' = [payloads EXCEPT ![r] = Elems(updates[r])]
    /\ attempt' = [attempt EXCEPT ![r] = 0]
    /\ resp' = [resp EXCEPT ![r] = Nil]
    /\ pc' = [pc EXCEPT ![r] = IF MaxRetries = 0 THEN "result" ELSE "store"]
    /\ UNCHANGED <<bufferVars, roomVars, final, updates, scan, requeue,
                   breakerVars, checker, providerVars, lost>>

\* Where the loop goes after an attempt that was not a full success.
AfterAttempt(r) == IF attempt[r] + 1 < MaxRetries THEN "backoff" ELSE "result"

\* client.Store answers 202: everything sent is stored.
StoreOk(r) ==
    /\ pc[r] = "store"
    /\ stored' = [stored EXCEPT ![r] = @ \cup payloads[r]]
    /\ acked' = [acked EXCEPT ![r] = @ \cup payloads[r]]
    /\ payloads' = [payloads EXCEPT ![r] = {}]
    /\ resp' = [resp EXCEPT ![r] = {}]
    /\ pc' = [pc EXCEPT ![r] = "result"]
    /\ UNCHANGED <<bufferVars, roomVars, final, updates, attempt, scan, requeue,
                   breakerVars, checker, lost>>

\* Mutant: the retry sends everything again.
StorePartial_ResendsAll(r, failed) ==
    /\ pc[r] = "store"
    /\ failed # {}
    /\ stored' = [stored EXCEPT ![r] = @ \cup (payloads[r] \ failed)]
    /\ acked' = [acked EXCEPT ![r] = @ \cup (payloads[r] \ failed)]
    /\ resp' = [resp EXCEPT ![r] = failed]
    /\ pc' = [pc EXCEPT ![r] = AfterAttempt(r)]
    /\ UNCHANGED <<bufferVars, roomVars, final, updates, payloads, attempt, scan,
                   requeue, breakerVars, checker, lost>>

\* client.Store answers 207: the retry sends only what failed.
StorePartial(r, failed) ==
    /\ pc[r] = "store"
    /\ failed # {}
    /\ stored' = [stored EXCEPT ![r] = @ \cup (payloads[r] \ failed)]
    /\ acked' = [acked EXCEPT ![r] = @ \cup (payloads[r] \ failed)]
    /\ payloads' = [payloads EXCEPT ![r] = failed]
    /\ resp' = [resp EXCEPT ![r] = failed]
    /\ pc' = [pc EXCEPT ![r] = AfterAttempt(r)]
    /\ UNCHANGED <<bufferVars, roomVars, final, updates, attempt, scan, requeue,
                   breakerVars, checker, lost>>

\* client.Store returns an error (refused, 5xx, timeout): the provider may
\* have stored any part of the request; the response of this attempt is nil.
StoreError(r, landed) ==
    /\ pc[r] = "store"
    /\ stored' = [stored EXCEPT ![r] = @ \cup landed]
    /\ resp' = [resp EXCEPT ![r] = Nil]
    /\ RecordFailure
    /\ pc' = [pc EXCEPT ![r] = AfterAttempt(r)]
    /\ UNCHANGED <<bufferVars, roomVars, final, updates, payloads, attempt, scan,
                   requeue, checker, acked, lost>>

\* The backoff timer fires: next attempt.
Retry(r) ==
    /\ pc[r] = "backoff"
    /\ attempt' = [attempt EXCEPT ![r] = @ + 1]
    /\ pc' = [pc EXCEPT ![r] = "store"]
    /\ UNCHANGED <<bufferVars, roomVars, final, updates, payloads, resp, scan,
                   requeue, breakerVars, checker, providerVars, lost>>

\* The flush context ends during the backoff: the last response is returned,
\* which is nil after an error.
BackoffCancelled(r) ==
    /\ pc[r] = "backoff"
    /\ pc' = [pc EXCEPT ![r] = "result"]
    /\ UNCHANGED <<bufferVars, roomVars, final, updates, payloads, attempt, resp,
                   scan, requeue, breakerVars, checker, providerVars, lost>>

\* Flush, nil response: RecordSuccess and an empty result.
GiveUp(r) ==
    /\ pc[r] = "result"
    /\ resp[r] = Nil
    /\ RecordSuccess
    /\ lost' = [lost EXCEPT ![r] = @ \cup payloads[r]]
    /\ updates' = [updates EXCEPT ![r] = <<>>]
    /\ payloads' = [payloads EXCEPT ![r] = {}]
    /\ requeue' = [requeue EXCEPT ![r] = <<>>]
    /\ pc' = [pc EXCEPT ![r] = "prepend"]
    /\ UNCHANGED <<bufferVars, roomVars, final, attempt, resp, scan, checker,
                   providerVars>>

\* Flush, nothing failed.
Succeed(r) ==
    /\ pc[r] = "result"
    /\ resp[r] = {}
    /\ RecordSuccess
    /\ updates' = [updates EXCEPT ![r] = <<>>]
    /\ requeue' = [requeue EXCEPT ![r] = <<>>]
    /\ pc' = [pc EXCEPT ![r] = "prepend"]
    /\ UNCHANGED <<bufferVars, roomVars, final, payloads, attempt, resp, scan,
                   checker, providerVars, lost>>

\* Flush, some failed: start the loop over updates; the breaker is not told.
BeginRequeue(r) ==
    /\ pc[r] = "result"
    /\ resp[r] \notin {Nil, {}}
    /\ requeue' = [requeue EXCEPT ![r] = <<>>]
    /\ scan' = [scan EXCEPT ![r] = 0]
    /\ pc' = [pc EXCEPT ![r] = "requeue"]
    /\ UNCHANGED <<bufferVars, roomVars, final, updates, payloads, attempt, resp,
                   breakerVars, checker, providerVars, lost>>

\* One turn of that loop.
RequeueFailed(r) ==
    /\ pc[r] = "requeue"
    /\ scan[r] < Len(updates[r])
    /\ scan' = [scan EXCEPT ![r] = @ + 1]
    /\ requeue' = [requeue EXCEPT ![r] =
                     IF updates[r][scan[r] + 1] \in resp[r]
                       THEN Append(@, updates[r][scan[r] + 1]) ELSE @]
    /\ UNCHANGED <<bufferVars, roomVars, pc, final, updates, payloads, attempt,
                   resp, breakerVars, checker, providerVars, lost>>

\* Mutant: the loop stops one short.
EndRequeue_OneShort(r) ==
    /\ pc[r] = "requeue"
    /\ scan[r] + 1 >= Len(updates[r])
    /\ updates' = [updates EXCEPT ![r] = <<>>]
    /\ payloads' = [payloads EXCEPT ![r] = {}]
    /\ pc' = [pc EXCEPT ![r] = "prepend"]
    /\ UNCHANGED <<bufferVars, roomVars, final, attempt, resp, scan, requeue,
                   breakerVars, checker, providerVars, lost>>

EndRequeue(r) ==
    /\ pc[r] = "requeue"
    /\ scan[r] = Len(updates[r])
    /\ updates' = [updates EXCEPT ![r] = <<>>]
    /\ payloads' = [payloads EXCEPT ![r] = {}]
    /\ pc' = [pc EXCEPT ![r] = "prepend"]
    /\ UNCHANGED <<bufferVars, roomVars, final, attempt, resp, scan, requeue,
                   breakerVars, checker, providerVars, lost>>

\* flushBuffer after Flush: Prepend what is to be re-queued.  The version event
\* and the snapshot that follow touch nothing here (see RoomState).
Prepend(r) ==
    /\ pc[r] = "prepend"
    /\ BufferPrepend(r, requeue[r])
    /\ requeue' = [requeue EXCEPT ![r] = <<>>]
    /\ pc' = [pc EXCEPT ![r] = LoopTo(final[r])]
    /\ UNCHANGED <<roomVars, final, updates, payloads, attempt, resp, scan,
                   breakerVars, checker, providerVars, lost>>

Store(r) ==
    \/ StoreOk(r)
    \/ \E failed \in SUBSET payloads[r] : StorePartial(r, failed)
    \/ \E landed \in SUBSET payloads[r] : StoreError(r, landed)

FlushStep(r) ==
    \/ OnTicker(r) \/ OnFlushCh(r) \/ OnCloseCh(r)
    \/ LockMissed(r) \/ Drain(r) \/ BreakerRefused(r) \/ BeginStore(r)
    \/ Store(r) \/ Retry(r) \/ BackoffCancelled(r)
    \/ GiveUp(r) \/ Succeed(r)
    \/ BeginRequeue(r) \/ RequeueFailed(r) \/ EndRequeue(r) \/ Prepend(r)

Next ==
    \/ Health
    \/ \E r \in Rooms : ReceiveUpdate(r) \/ Close(r) \/ FlushStep(r)

Spec == Init /\ [][Next]_vars

\* The goroutines run, tickers included (weak fairness), and select is fair
\* between its ready branches (OnCloseCh).  The rest are assumptions on the
\* environment: of infinitely many tries the lock is won and a Store succeeds,
\* and from some time on health checks pass.
Fairness ==
    /\ WF_vars(HealthOk) /\ WF_vars(HealthReadState) /\ WF_vars(HealthConfirm)
    /\ <>[][~HealthFailed]_vars
    /\ \A r \in Rooms :
         /\ WF_vars(FlushStep(r))
         /\ SF_vars(OnCloseCh(r))
         /\ SF_vars(Drain(r))
         /\ SF_vars(StoreOk(r))

FairSpec == Spec /\ Fairness

-----------------------------------------------------------------------------
(* Properties.                                                             *)

\* The updates of the room that the relay still answers for: buffered, drained
\* and not yet sent, about to be sent (again), or about to be re-queued.
Held(r) == Elems(buffer[r]) \cup Elems(requeue[r]) \cup payloads[r]
             \cup (IF pc[r] = "allow" THEN Elems(updates[r]) ELSE {})

\* The relay implements UpdateLedger: whatever happens inside a flush, an update
\* stays held until the provider acknowledges it or Flush gives up on it.
Ledger == INSTANCE UpdateLedger WITH
    Updates <- 1 .. MaxSeq,
    received <- [r \in Rooms |-> 1 .. seq[r]],
    held <- [r \in Rooms |-> Held(r)]
ImplementsLedger == Ledger!Spec

\* Every update the room received is still held by the relay, is in the
\* provider, or was in hand when Flush gave up after nothing but errors: the
\* way through Drain, partial retries, re-queueing and Prepend loses nothing by
\* itself, whatever arrives meanwhile.
Accounted ==
    \A r \in Rooms : 1 .. seq[r] \subseteq Held(r) \cup stored[r] \cup lost[r]

Increasing(s) == \A i, j \in DOMAIN s : i < j => s[i] < s[j]
Below(s, t) == \A i \in DOMAIN s, j \in DOMAIN t : s[i] < t[j]

\* Updates reach the provider in the order of their sequence numbers, each at
\* most once per drain: the buffer is sorted, and what a flush has in hand will
\* be put back sorted and in front of everything that arrived meanwhile.
InOrder ==
    \A r \in Rooms :
      /\ Increasing(buffer[r]) /\ Increasing(updates[r]) /\ Increasing(requeue[r])
      /\ Below(updates[r], buffer[r]) /\ Below(requeue[r], buffer[r])

\* An update the provider acknowledged (202, or not among Failed in a 207) is
\* neither sent again nor re-queued.
NoResendOfAcked == \A r \in Rooms : Held(r) \cap acked[r] = {}

\* The byte count that triggers early flushes follows the buffer through Append,
\* Drain and Prepend.
SizeMatches == \A r \in Rooms : size[r] = Len(buffer[r])

\* The breaker refuses or probes exactly when the failure count has reached the
\* threshold, for every interleaving of the flushes and the health checker,
\* whose half-opening and closing are separate critical sections.
BreakerCoherent == breakerState = "closed" <=> failureCount < Threshold

\* What the flush goroutine's locals hold where: the room part of the inductive
\* invariant.  payloads is always the part of updates that is not acknowledged,
\* a response that is not nil names exactly payloads, and the re-queueing loop
\* has collected exactly the failed ones among those it has seen.
InFlight == {"store", "backoff", "result", "requeue"}

LocalsInv(r) ==
    /\ pc[r] \notin InFlight => payloads[r] = {}
    /\ pc[r] \notin InFlight \cup {"allow"} => updates[r] = <<>>
    /\ pc[r] \notin {"requeue", "prepend"} => requeue[r] = <<>>
    /\ payloads[r] \subseteq Elems(updates[r])
    /\ pc[r] \in InFlight => resp[r] \in {Nil, payloads[r]}
    /\ pc[r] = "requeue" =>
         /\ resp[r] = payloads[r]
         /\ scan[r] <= Len(updates[r])
         /\ Elems(requeue[r]) =
              {updates[r][i] : i \in 1 .. scan[r]} \cap payloads[r]

\* Sequence numbers in use were given out by Append.
GivenOut(r) ==
    Elems(buffer[r]) \cup Elems(updates[r]) \cup Elems(requeue[r]) \cup acked[r]
      \subseteq 1 .. seq[r]

\* The inductive invariant behind the properties above: at every step the flush
\* goroutine can still answer for what it drained.
FlushInv ==
    /\ \A r \in Rooms : LocalsInv(r) /\ GivenOut(r)
    /\ Accounted /\ InOrder /\ NoResendOfAcked

\* Every buffered update is eventually stored, or given up on, unless the room's
\* flush loop ends with it still in the buffer; closing a room ends that loop.
EventuallySettled ==
    \A r \in Rooms :
      /\ \A s \in 1 .. MaxSeq :
           s \in Held(r) ~> (s \in stored[r] \cup lost[r] \/ pc[r] = "done")
      /\ closeCh[r] ~> pc[r] = "done"

=============================================================================
