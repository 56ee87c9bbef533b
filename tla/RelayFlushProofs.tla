-------------------------- MODULE RelayFlushProofs --------------------------
(***************************************************************************)
(* Proofs about RelayFlush, for any set of rooms, any retry limit and any  *)
(* threshold: type correctness, the safety invariants of the buffer and    *)
(* the breaker, and the refinement of UpdateLedger.                        *)
(***************************************************************************)
EXTENDS RelayFlush, TLAPS

(* Every variable keeps its type through every step of the flush path.     *)
THEOREM TypeCorrect == Spec => []TypeOK
<1>1. Init => TypeOK
  BY ConfigAssumption DEF Init, TypeOK, Nil, Locations, Breaker
<1>2. TypeOK /\ [Next]_vars => TypeOK'
  <2> SUFFICES ASSUME TypeOK, [Next]_vars PROVE TypeOK'
    BY Zenon
  <2> USE ConfigAssumption DEF TypeOK, bufferVars, roomVars, flushVars,
          breakerVars, providerVars
  <2>1. CASE Health
    BY <2>1 DEF Health, HealthFailed, HealthOk, HealthReadState, HealthConfirm,
                RecordFailure, RecordSuccess, Breaker
  <2>2. ASSUME NEW r \in Rooms, ReceiveUpdate(r) PROVE TypeOK'
    <3>1. flushCh' \in [Rooms -> BOOLEAN]
      BY <2>2, Zenon DEF ReceiveUpdate, BufferAppend
    <3>2. /\ seq[r] + 1 \in Nat /\ size[r] + 1 \in Nat
          /\ Append(buffer[r], seq[r] + 1) \in Seq(Nat)
      OBVIOUS
    <3>3. /\ seq' \in [Rooms -> Nat] /\ size' \in [Rooms -> Nat]
          /\ buffer' \in [Rooms -> Seq(Nat)]
      BY <2>2, <3>2, Zenon DEF ReceiveUpdate, BufferAppend
    <3> QED BY <2>2, <3>1, <3>3, Zenon DEF ReceiveUpdate, BufferAppend
  <2>3. ASSUME NEW r \in Rooms, Close(r) PROVE TypeOK'
    BY <2>3, Zenon DEF Close
  <2>4. ASSUME NEW r \in Rooms, FlushStep(r) PROVE TypeOK'
    <3>1. CASE OnTicker(r) \/ OnFlushCh(r) \/ OnCloseCh(r)
      <4>1. PICK isFinal \in BOOLEAN : StartFlush(r, isFinal)
        BY <3>1, Zenon DEF OnTicker, OnFlushCh, OnCloseCh
      <4>2. flushCh' \in [Rooms -> BOOLEAN]
        BY <3>1, Zenon DEF OnTicker, OnFlushCh, OnCloseCh
      <4>3. (IF buffer[r] = <<>> THEN LoopTo(isFinal) ELSE "lock") \in Locations
        BY Zenon DEF LoopTo, Locations
      <4>4. pc' \in [Rooms -> Locations] /\ final' \in [Rooms -> BOOLEAN]
        BY <4>1, <4>3, Zenon DEF StartFlush
      <4> QED BY <4>1, <4>2, <4>4 DEF StartFlush
    <3>2. CASE LockMissed(r)
      <4>1. requeue' \in [Rooms -> Seq(Nat)]
        BY <3>2 DEF LockMissed
      <4> QED BY <3>2, <4>1 DEF LockMissed, Locations
    <3>3. CASE Drain(r)
      BY <3>3 DEF Drain, BufferDrain, Locations
    <3>4. CASE BreakerRefused(r)
      BY <3>4 DEF BreakerRefused, Locations
    <3>5. CASE BeginStore(r)
      BY <3>5 DEF BeginStore, Locations, Elems, Nil
    <3>6. CASE Store(r)
      <4>1. CASE StoreOk(r)
        BY <4>1, Zenon DEF StoreOk, Locations
      <4>2. ASSUME NEW failed \in SUBSET payloads[r], StorePartial(r, failed)
            PROVE  TypeOK'
        BY <4>2, Zenon DEF StorePartial, AfterAttempt, Locations
      <4>3. ASSUME NEW landed \in SUBSET payloads[r], StoreError(r, landed)
            PROVE  TypeOK'
        <5>1. /\ failureCount' \in Nat /\ breakerState' \in Breaker
          BY <4>3 DEF StoreError, RecordFailure, Breaker
        <5>2. AfterAttempt(r) \in Locations /\ Nil \in SUBSET Nat
          BY DEF AfterAttempt, Locations, Nil
        <5> QED BY <4>3, <5>1, <5>2, Zenon DEF StoreError
      <4> QED BY <3>6, <4>1, <4>2, <4>3, Zenon DEF Store
    <3>7. CASE Retry(r)
      BY <3>7 DEF Retry, Locations
    <3>13. CASE BackoffCancelled(r)
      BY <3>13, Zenon DEF BackoffCancelled, Locations
    <3>8. CASE GiveUp(r)
      <4>1. /\ updates' \in [Rooms -> Seq(Nat)]
            /\ requeue' \in [Rooms -> Seq(Nat)]
        BY <3>8 DEF GiveUp
      <4> QED BY <3>8, <4>1 DEF GiveUp, RecordSuccess, Locations, Breaker
    <3>14. CASE Succeed(r)
      BY <3>14 DEF Succeed, RecordSuccess, Locations, Breaker
    <3>9. CASE BeginRequeue(r)
      <4>1. requeue' \in [Rooms -> Seq(Nat)] /\ scan' \in [Rooms -> Nat]
        BY <3>9 DEF BeginRequeue
      <4>2. pc' \in [Rooms -> Locations]
        BY <3>9, Zenon DEF BeginRequeue, Locations
      <4> QED BY <3>9, <4>1, <4>2 DEF BeginRequeue
    <3>10. CASE RequeueFailed(r)
      <4> DEFINE u == updates[r][scan[r] + 1]
      <4>1. u \in Nat
        BY <3>10 DEF RequeueFailed
      <4>2. (IF u \in resp[r] THEN Append(requeue[r], u) ELSE requeue[r]) \in Seq(Nat)
        BY <4>1
      <4>3. requeue' \in [Rooms -> Seq(Nat)] /\ scan' \in [Rooms -> Nat]
        BY <3>10, <4>2 DEF RequeueFailed
      <4> QED BY <3>10, <4>3, Zenon DEF RequeueFailed
    <3>11. CASE EndRequeue(r)
      BY <3>11 DEF EndRequeue, Locations
    <3>12. CASE Prepend(r)
      <4>1. LoopTo(final[r]) \in Locations
        BY Zenon DEF LoopTo, Locations
      <4>2. /\ requeue[r] \o buffer[r] \in Seq(Nat)
            /\ size[r] + Len(requeue[r]) \in Nat
        OBVIOUS
      <4>3. buffer' \in [Rooms -> Seq(Nat)] /\ size' \in [Rooms -> Nat]
        BY <3>12, <4>2, Zenon DEF Prepend, BufferPrepend
      <4>4. requeue' \in [Rooms -> Seq(Nat)] /\ pc' \in [Rooms -> Locations]
        BY <3>12, <4>1 DEF Prepend, BufferPrepend
      <4> QED BY <3>12, <4>3, <4>4 DEF Prepend, BufferPrepend
    <3> QED BY <2>4, <3>1, <3>2, <3>3, <3>4, <3>5, <3>6, <3>7, <3>8, <3>9,
               <3>10, <3>11, <3>12, <3>13, <3>14, Zenon DEF FlushStep
  <2>5. CASE UNCHANGED vars
    BY <2>5, Zenon DEF vars
  <2> QED BY <2>1, <2>2, <2>3, <2>4, <2>5, Zenon DEF Next
<1> QED BY <1>1, <1>2, PTL DEF Spec

-----------------------------------------------------------------------------
(* Sequences of sequence numbers.                                          *)

(* An empty sequence has no elements.                                      *)
LEMMA ElemsEmpty == Elems(<<>>) = {}
  BY DEF Elems

(* What buffer.Append adds.                                                *)
LEMMA ElemsAppend ==
  ASSUME NEW s \in Seq(Nat), NEW x \in Nat
  PROVE  Elems(Append(s, x)) = Elems(s) \cup {x}
<1>1. /\ DOMAIN Append(s, x) = 1 .. Len(s) + 1
      /\ \A i \in 1 .. Len(s) : Append(s, x)[i] = s[i]
      /\ Append(s, x)[Len(s) + 1] = x
      /\ DOMAIN s = 1 .. Len(s)
      /\ Len(s) \in Nat
  OBVIOUS
<1>2. ASSUME NEW y \in Elems(Append(s, x)) PROVE y \in Elems(s) \cup {x}
  <2>1. PICK i \in 1 .. Len(s) + 1 : y = Append(s, x)[i]
    BY <1>1, <1>2, Zenon DEF Elems
  <2>2. i \in 1 .. Len(s) \/ i = Len(s) + 1
    BY <1>1
  <2> QED BY <1>1, <2>1, <2>2 DEF Elems
<1>3. ASSUME NEW y \in Elems(s) PROVE y \in Elems(Append(s, x))
  <2>1. PICK i \in 1 .. Len(s) : y = s[i]
    BY <1>1, <1>3, Zenon DEF Elems
  <2>2. i \in 1 .. Len(s) + 1
    BY <1>1
  <2> QED BY <1>1, <2>1, <2>2 DEF Elems
<1>4. x \in Elems(Append(s, x))
  BY <1>1 DEF Elems
<1> QED BY <1>2, <1>3, <1>4

(* What buffer.Prepend leaves in the buffer.                               *)
LEMMA ElemsConcat ==
  ASSUME NEW s \in Seq(Nat), NEW t \in Seq(Nat)
  PROVE  Elems(s \o t) = Elems(s) \cup Elems(t)
<1>1. /\ DOMAIN (s \o t) = 1 .. Len(s) + Len(t)
      /\ \A i \in 1 .. Len(s) : (s \o t)[i] = s[i]
      /\ \A i \in 1 .. Len(t) : (s \o t)[Len(s) + i] = t[i]
      /\ DOMAIN s = 1 .. Len(s) /\ DOMAIN t = 1 .. Len(t)
      /\ Len(s) \in Nat /\ Len(t) \in Nat
  OBVIOUS
<1>2. ASSUME NEW y \in Elems(s \o t) PROVE y \in Elems(s) \cup Elems(t)
  <2>1. PICK i \in 1 .. Len(s) + Len(t) : y = (s \o t)[i]
    BY <1>1, <1>2, Zenon DEF Elems
  <2>2. CASE i \in 1 .. Len(s)
    BY <1>1, <2>1, <2>2, Zenon DEF Elems
  <2>3. CASE i \notin 1 .. Len(s)
    <3>1. i - Len(s) \in 1 .. Len(t) /\ i = Len(s) + (i - Len(s))
      BY <1>1, <2>3
    <3>2. y = t[i - Len(s)]
      BY <1>1, <2>1, <3>1, Zenon
    <3> QED BY <1>1, <3>1, <3>2 DEF Elems
  <2> QED BY <2>2, <2>3
<1>3. ASSUME NEW y \in Elems(s) PROVE y \in Elems(s \o t)
  <2>1. PICK i \in 1 .. Len(s) : y = s[i]
    BY <1>1, <1>3, Zenon DEF Elems
  <2>2. i \in 1 .. Len(s) + Len(t)
    BY <1>1
  <2> QED BY <1>1, <2>1, <2>2 DEF Elems
<1>4. ASSUME NEW y \in Elems(t) PROVE y \in Elems(s \o t)
  <2>1. PICK i \in 1 .. Len(t) : y = t[i]
    BY <1>1, <1>4, Zenon DEF Elems
  <2>2. Len(s) + i \in 1 .. Len(s) + Len(t)
    BY <1>1
  <2> QED BY <1>1, <2>1, <2>2, Zenon DEF Elems
<1> QED BY <1>2, <1>3, <1>4

(* Appending a number above all others keeps a sequence sorted.            *)
LEMMA IncreasingAppend ==
  ASSUME NEW s \in Seq(Nat), NEW x \in Nat, Increasing(s),
         \A y \in Elems(s) : y < x
  PROVE  Increasing(Append(s, x))
  BY DEF Increasing, Elems

(* Putting smaller numbers in front keeps a sequence sorted.               *)
LEMMA IncreasingConcat ==
  ASSUME NEW s \in Seq(Nat), NEW t \in Seq(Nat), Increasing(s), Increasing(t),
         Below(s, t)
  PROVE  Increasing(s \o t)
  BY DEF Increasing, Below

(* The length of a concatenation.                                          *)
LEMMA LenConcat ==
  ASSUME NEW s \in Seq(Nat), NEW t \in Seq(Nat)
  PROVE  Len(s \o t) = Len(t) + Len(s)
  OBVIOUS

(* The domain of a sequence.                                               *)
LEMMA SeqDomain ==
  ASSUME NEW s \in Seq(Nat)
  PROVE  DOMAIN s = 1 .. Len(s)
  OBVIOUS

(* The numbers up to n + 1.                                                *)
LEMMA RangeSucc ==
  ASSUME NEW n \in Nat
  PROVE  1 .. (n + 1) = 1 .. n \cup {n + 1} /\ n + 1 \notin 1 .. n
  OBVIOUS

(* Below, in terms of elements.                                            *)
LEMMA BelowElems ==
  ASSUME NEW s \in Seq(Nat), NEW t \in Seq(Nat)
  PROVE  Below(s, t) <=> \A x \in Elems(s), y \in Elems(t) : x < y
  BY Zenon DEF Below, Elems

-----------------------------------------------------------------------------
(* The inductive invariant, room by room.                                  *)

RoomInv(r) ==
    /\ LocalsInv(r)
    /\ GivenOut(r)
    /\ 1 .. seq[r] \subseteq Held(r) \cup stored[r] \cup lost[r]
    /\ Increasing(buffer[r]) /\ Increasing(updates[r]) /\ Increasing(requeue[r])
    /\ Below(updates[r], buffer[r]) /\ Below(requeue[r], buffer[r])
    /\ Held(r) \cap acked[r] = {}

(* FlushInv says RoomInv of every room.                                    *)
LEMMA FlushInvRooms == FlushInv <=> \A r \in Rooms : RoomInv(r)
  BY Zenon DEF FlushInv, RoomInv, Accounted, InOrder, NoResendOfAcked

\* A step that does not concern room q leaves all that RoomInv(q) mentions.
Frame(q) ==
    /\ buffer'[q] = buffer[q] /\ seq'[q] = seq[q] /\ pc'[q] = pc[q]
    /\ updates'[q] = updates[q] /\ payloads'[q] = payloads[q]
    /\ resp'[q] = resp[q] /\ scan'[q] = scan[q] /\ requeue'[q] = requeue[q]
    /\ stored'[q] = stored[q] /\ acked'[q] = acked[q] /\ lost'[q] = lost[q]

(* Such a step preserves RoomInv(q).                                       *)
LEMMA FrameInv ==
  ASSUME NEW q \in Rooms, RoomInv(q), Frame(q)
  PROVE  RoomInv(q)'
  BY DEF RoomInv, Frame, LocalsInv, GivenOut, Held

(* A step of room r is no concern of the other rooms.                      *)
LEMMA OtherRooms ==
  ASSUME TypeOK, NEW r \in Rooms, NEW q \in Rooms, q # r,
         ReceiveUpdate(r) \/ Close(r) \/ FlushStep(r)
  PROVE  Frame(q)
<1> USE DEF TypeOK, Frame, bufferVars, roomVars, flushVars, providerVars
<1>1. CASE ReceiveUpdate(r) BY <1>1 DEF ReceiveUpdate, BufferAppend
<1>2. CASE Close(r) BY <1>2 DEF Close
<1>3. CASE OnTicker(r) BY <1>3 DEF OnTicker, StartFlush
<1>4. CASE OnFlushCh(r) BY <1>4 DEF OnFlushCh, StartFlush
<1>5. CASE OnCloseCh(r) BY <1>5 DEF OnCloseCh, StartFlush
<1>6. CASE LockMissed(r) BY <1>6 DEF LockMissed
<1>7. CASE Drain(r) BY <1>7 DEF Drain, BufferDrain
<1>8. CASE BreakerRefused(r) BY <1>8 DEF BreakerRefused
<1>9. CASE BeginStore(r) BY <1>9 DEF BeginStore
<1>10. CASE StoreOk(r) BY <1>10 DEF StoreOk
<1>11. ASSUME NEW failed \in SUBSET payloads[r], StorePartial(r, failed)
       PROVE  Frame(q)
  BY <1>11, Zenon DEF StorePartial
<1>12. ASSUME NEW landed \in SUBSET payloads[r], StoreError(r, landed)
       PROVE  Frame(q)
  BY <1>12, Zenon DEF StoreError
<1>13. CASE Retry(r) BY <1>13 DEF Retry
<1>14. CASE BackoffCancelled(r) BY <1>14 DEF BackoffCancelled
<1>15. CASE GiveUp(r) BY <1>15 DEF GiveUp
<1>16. CASE Succeed(r) BY <1>16 DEF Succeed
<1>17. CASE BeginRequeue(r) BY <1>17 DEF BeginRequeue
<1>18. CASE RequeueFailed(r) BY <1>18 DEF RequeueFailed
<1>19. CASE EndRequeue(r) BY <1>19 DEF EndRequeue
<1>20. CASE Prepend(r) BY <1>20 DEF Prepend, BufferPrepend
<1> QED BY <1>1, <1>2, <1>3, <1>4, <1>5, <1>6, <1>7, <1>8, <1>9, <1>10, <1>11,
           <1>12, <1>13, <1>14, <1>15, <1>16, <1>17, <1>18, <1>19, <1>20, Zenon
        DEF FlushStep, Store

(* Receiving an update: a fresh number at the end of the buffer.           *)
LEMMA ReceiveInv ==
  ASSUME TypeOK, NEW r \in Rooms, RoomInv(r), ReceiveUpdate(r)
  PROVE  RoomInv(r)' /\ Held(r)' = Held(r) \cup {seq[r] + 1}
<1> DEFINE n == seq[r] + 1
<1>1. /\ seq'[r] = n /\ buffer'[r] = Append(buffer[r], n)
      /\ UNCHANGED <<pc, updates, payloads, resp, scan, requeue, stored, acked, lost>>
  BY Zenon DEF ReceiveUpdate, BufferAppend, TypeOK, flushVars, providerVars
<1>2. /\ n \in Nat /\ buffer[r] \in Seq(Nat) /\ buffer'[r] \in Seq(Nat)
      /\ updates[r] \in Seq(Nat) /\ requeue[r] \in Seq(Nat) /\ seq[r] \in Nat
  BY <1>1 DEF TypeOK
<1> HIDE DEF n
<1>3. Elems(buffer'[r]) = Elems(buffer[r]) \cup {n}
  BY <1>1, <1>2, ElemsAppend, Zenon
<1>4. 1 .. seq'[r] = 1 .. seq[r] \cup {n} /\ n \notin 1 .. seq[r]
      /\ \A x \in 1 .. seq[r] : x < n
  BY <1>1, <1>2 DEF n
<1>5. LocalsInv(r)'
  BY <1>1, Zenon DEF RoomInv, LocalsInv
<1>6. GivenOut(r)'
  BY <1>1, <1>3, <1>4, Zenon DEF RoomInv, GivenOut
<1>7. Held(r)' = Held(r) \cup {n}
  BY <1>1, <1>3, Zenon DEF Held
<1>8. (1 .. seq[r] \subseteq Held(r) \cup stored[r] \cup lost[r])'
  BY <1>1, <1>4, <1>7, Zenon DEF RoomInv
<1>9. Increasing(buffer'[r])
  BY <1>1, <1>2, <1>4, IncreasingAppend DEF RoomInv, GivenOut
<1>10. Below(updates[r], buffer'[r]) /\ Below(requeue[r], buffer'[r])
  BY <1>2, <1>3, <1>4, BelowElems DEF RoomInv, GivenOut
<1>11. (Held(r) \cap acked[r] = {})'
  BY <1>1, <1>4, <1>7, Zenon DEF RoomInv, GivenOut
<1> QED BY <1>1, <1>5, <1>6, <1>7, <1>8, <1>9, <1>10, <1>11 DEF RoomInv, n

(* Serving a branch of the select touches no update.                       *)
LEMMA StartFlushInv ==
  ASSUME TypeOK, NEW r \in Rooms, NEW isFinal \in BOOLEAN, RoomInv(r),
         StartFlush(r, isFinal)
  PROVE  RoomInv(r)' /\ Held(r)' = Held(r)
<1>1. /\ pc[r] = "select" /\ pc'[r] \in {"select", "lock", "done"}
      /\ UNCHANGED <<buffer, seq, updates, payloads, resp, scan, requeue,
                     stored, acked, lost>>
  BY Zenon DEF StartFlush, TypeOK, LoopTo, bufferVars, providerVars
<1>2. Held(r)' = Held(r)
  BY <1>1, Zenon DEF Held
<1>3. LocalsInv(r)' /\ GivenOut(r)'
  BY <1>1, Zenon DEF RoomInv, LocalsInv, GivenOut, InFlight
<1> QED BY <1>1, <1>2, <1>3 DEF RoomInv

(* Missing the lock touches no update.                                     *)
LEMMA LockMissedInv ==
  ASSUME TypeOK, NEW r \in Rooms, RoomInv(r), LockMissed(r)
  PROVE  RoomInv(r)' /\ Held(r)' = Held(r)
<1>1. /\ pc[r] = "lock" /\ pc'[r] = "prepend" /\ requeue'[r] = <<>>
      /\ UNCHANGED <<buffer, seq, updates, payloads, resp, scan,
                     stored, acked, lost>>
  BY Zenon DEF LockMissed, TypeOK, bufferVars, providerVars
<1>2. requeue[r] = <<>>
  BY <1>1, Zenon DEF RoomInv, LocalsInv
<1>3. Held(r)' = Held(r)
  BY <1>1, <1>2, Zenon DEF Held
<1>4. LocalsInv(r)' /\ GivenOut(r)'
  BY <1>1, <1>2, Zenon DEF RoomInv, LocalsInv, GivenOut, InFlight
<1> QED BY <1>1, <1>2, <1>3, <1>4 DEF RoomInv

(* Drain moves the whole buffer into the flush's hands.                    *)
LEMMA DrainInv ==
  ASSUME TypeOK, NEW r \in Rooms, RoomInv(r), Drain(r)
  PROVE  RoomInv(r)' /\ Held(r)' = Held(r)
<1>1. /\ pc[r] = "lock" /\ pc'[r] = "allow"
      /\ updates'[r] = buffer[r] /\ buffer'[r] = <<>>
      /\ UNCHANGED <<seq, payloads, resp, scan, requeue, stored, acked, lost>>
  BY Zenon DEF Drain, BufferDrain, TypeOK, providerVars
<1>2. payloads[r] = {} /\ requeue[r] = <<>>
  BY <1>1, Zenon DEF RoomInv, LocalsInv, InFlight
<1>3. Held(r)' = Held(r)
  BY <1>1, <1>2, ElemsEmpty, Zenon DEF Held
<1>4. LocalsInv(r)' /\ GivenOut(r)'
  BY <1>1, <1>2, ElemsEmpty, Zenon DEF RoomInv, LocalsInv, GivenOut, InFlight
<1>5. Increasing(<<>>) /\ \A s : Below(s, <<>>)
  BY DEF Increasing, Below
<1> QED BY <1>1, <1>2, <1>3, <1>4, <1>5 DEF RoomInv

(* An open breaker sends everything drained on its way back.               *)
LEMMA BreakerRefusedInv ==
  ASSUME TypeOK, NEW r \in Rooms, RoomInv(r), BreakerRefused(r)
  PROVE  RoomInv(r)' /\ Held(r)' = Held(r)
<1>1. /\ pc[r] = "allow" /\ pc'[r] = "prepend"
      /\ requeue'[r] = updates[r] /\ updates'[r] = <<>>
      /\ UNCHANGED <<buffer, seq, payloads, resp, scan, stored, acked, lost>>
  BY Zenon DEF BreakerRefused, TypeOK, bufferVars, providerVars
<1>2. payloads[r] = {} /\ requeue[r] = <<>>
  BY <1>1, Zenon DEF RoomInv, LocalsInv, InFlight
<1>3. Held(r)' = Held(r)
  BY <1>1, <1>2, ElemsEmpty, Zenon DEF Held
<1>4. LocalsInv(r)' /\ GivenOut(r)'
  BY <1>1, <1>2, ElemsEmpty, Zenon DEF RoomInv, LocalsInv, GivenOut, InFlight
<1>5. Increasing(<<>>) /\ \A s : Below(<<>>, s)
  BY DEF Increasing, Below
<1> QED BY <1>1, <1>2, <1>3, <1>4, <1>5 DEF RoomInv

(* Entering storeWithRetry: everything drained is to be sent.              *)
LEMMA BeginStoreInv ==
  ASSUME TypeOK, NEW r \in Rooms, RoomInv(r), BeginStore(r)
  PROVE  RoomInv(r)' /\ Held(r)' = Held(r)
<1>1. /\ pc[r] = "allow" /\ pc'[r] \in {"store", "result"}
      /\ payloads'[r] = Elems(updates[r]) /\ resp'[r] = Nil
      /\ UNCHANGED <<buffer, seq, updates, scan, requeue, stored, acked, lost>>
  BY Zenon DEF BeginStore, TypeOK, bufferVars, providerVars
<1>2. payloads[r] = {} /\ requeue[r] = <<>>
  BY <1>1, Zenon DEF RoomInv, LocalsInv, InFlight
<1>3. Held(r)' = Held(r)
  BY <1>1, <1>2, Zenon DEF Held
<1>4. LocalsInv(r)' /\ GivenOut(r)'
  BY <1>1, <1>2, Zenon DEF RoomInv, LocalsInv, GivenOut, InFlight
<1> QED BY <1>1, <1>3, <1>4 DEF RoomInv

(* What the buffer holds and what a flush is sending are different updates.*)
LEMMA InFlightApart ==
  ASSUME TypeOK, NEW r \in Rooms, RoomInv(r)
  PROVE  payloads[r] \cap Elems(buffer[r]) = {}
<1>1. /\ updates[r] \in Seq(Nat) /\ buffer[r] \in Seq(Nat) /\ seq[r] \in Nat
      /\ payloads[r] \subseteq Elems(updates[r])
      /\ Below(updates[r], buffer[r])
  BY Zenon DEF TypeOK, RoomInv, LocalsInv
<1>2. \A x \in Elems(updates[r]), y \in Elems(buffer[r]) : x < y
  BY <1>1, BelowElems, Zenon
<1>3. Elems(buffer[r]) \subseteq Nat
  BY <1>1 DEF Elems
<1> QED BY <1>1, <1>2, <1>3

(* The provider acknowledges all of it or the part that did not fail.      *)
LEMMA AcknowledgeInv ==
  ASSUME TypeOK, NEW r \in Rooms, RoomInv(r), NEW failed \in SUBSET payloads[r],
         pc[r] = "store", pc'[r] \in {"backoff", "result"},
         payloads'[r] = failed, resp'[r] = failed,
         stored'[r] = stored[r] \cup (payloads[r] \ failed),
         acked'[r] = acked[r] \cup (payloads[r] \ failed),
         UNCHANGED <<buffer, seq, updates, scan, requeue, lost>>
  PROVE  /\ RoomInv(r)'
         /\ Held(r)' = Held(r) \ (payloads[r] \ failed)
<1>1. requeue[r] = <<>> /\ payloads[r] \subseteq Elems(updates[r])
  BY Zenon DEF RoomInv, LocalsInv
<1>2. Held(r) = Elems(buffer[r]) \cup payloads[r]
  BY <1>1, ElemsEmpty, Zenon DEF Held
<1>3. Held(r)' = Elems(buffer[r]) \cup failed
  BY <1>1, ElemsEmpty, Zenon DEF Held
<1>4. Held(r)' = Held(r) \ (payloads[r] \ failed)
  BY <1>2, <1>3, InFlightApart, Zenon
<1>5. LocalsInv(r)'
  BY <1>1, Zenon DEF RoomInv, LocalsInv, InFlight
<1>6. GivenOut(r)'
  BY <1>1, Zenon DEF RoomInv, GivenOut
<1>7. (1 .. seq[r] \subseteq Held(r) \cup stored[r] \cup lost[r])'
  BY <1>4, Zenon DEF RoomInv
<1>8. (Held(r) \cap acked[r] = {})'
  BY <1>4, Zenon DEF RoomInv
<1> QED BY <1>4, <1>5, <1>6, <1>7, <1>8 DEF RoomInv

(* A full success.                                                         *)
LEMMA StoreOkInv ==
  ASSUME TypeOK, NEW r \in Rooms, RoomInv(r), StoreOk(r)
  PROVE  RoomInv(r)' /\ Held(r)' = Held(r) \ payloads[r]
<1>1. /\ pc[r] = "store" /\ pc'[r] = "result"
      /\ payloads'[r] = {} /\ resp'[r] = {}
      /\ stored'[r] = stored[r] \cup payloads[r]
      /\ acked'[r] = acked[r] \cup payloads[r]
      /\ UNCHANGED <<buffer, seq, updates, scan, requeue, lost>>
  BY Zenon DEF StoreOk, TypeOK, bufferVars
<1>2. payloads[r] \ {} = payloads[r] /\ {} \in SUBSET payloads[r]
  BY Zenon
<1> QED BY <1>1, <1>2, AcknowledgeInv, Zenon

(* A partial failure.                                                      *)
LEMMA StorePartialInv ==
  ASSUME TypeOK, NEW r \in Rooms, RoomInv(r), NEW failed \in SUBSET payloads[r],
         StorePartial(r, failed)
  PROVE  RoomInv(r)' /\ Held(r)' = Held(r) \ (payloads[r] \ failed)
<1>1. /\ pc[r] = "store" /\ pc'[r] \in {"backoff", "result"}
      /\ payloads'[r] = failed /\ resp'[r] = failed
      /\ stored'[r] = stored[r] \cup (payloads[r] \ failed)
      /\ acked'[r] = acked[r] \cup (payloads[r] \ failed)
      /\ UNCHANGED <<buffer, seq, updates, scan, requeue, lost>>
  BY Zenon DEF StorePartial, TypeOK, AfterAttempt, bufferVars
<1> QED BY <1>1, AcknowledgeInv

(* An error: the provider may hold more, the relay lets go of nothing.     *)
LEMMA StoreErrorInv ==
  ASSUME TypeOK, NEW r \in Rooms, RoomInv(r), NEW landed \in SUBSET payloads[r],
         StoreError(r, landed)
  PROVE  RoomInv(r)' /\ Held(r)' = Held(r)
<1>1. /\ pc[r] = "store" /\ pc'[r] \in {"backoff", "result"}
      /\ resp'[r] = Nil /\ stored'[r] = stored[r] \cup landed
      /\ UNCHANGED <<buffer, seq, updates, payloads, scan, requeue, acked, lost>>
  BY Zenon DEF StoreError, TypeOK, AfterAttempt, bufferVars
<1>2. Held(r)' = Held(r)
  BY <1>1, Zenon DEF Held
<1>3. LocalsInv(r)' /\ GivenOut(r)'
  BY <1>1, Zenon DEF RoomInv, LocalsInv, GivenOut, InFlight
<1> QED BY <1>1, <1>2, <1>3 DEF RoomInv

(* Waiting, or not, between attempts touches no update.                    *)
LEMMA BackoffInv ==
  ASSUME TypeOK, NEW r \in Rooms, RoomInv(r), Retry(r) \/ BackoffCancelled(r)
  PROVE  RoomInv(r)' /\ Held(r)' = Held(r)
<1>1. /\ pc[r] = "backoff" /\ pc'[r] \in {"store", "result"}
      /\ UNCHANGED <<buffer, seq, updates, payloads, resp, scan, requeue,
                     stored, acked, lost>>
  BY Zenon DEF Retry, BackoffCancelled, TypeOK, bufferVars, providerVars
<1>2. Held(r)' = Held(r)
  BY <1>1, Zenon DEF Held
<1>3. LocalsInv(r)' /\ GivenOut(r)'
  BY <1>1, Zenon DEF RoomInv, LocalsInv, GivenOut, InFlight
<1> QED BY <1>1, <1>2, <1>3 DEF RoomInv

(* Giving up lets go of exactly what was to be sent.                       *)
LEMMA GiveUpInv ==
  ASSUME TypeOK, NEW r \in Rooms, RoomInv(r), GiveUp(r)
  PROVE  RoomInv(r)' /\ Held(r)' = Held(r) \ payloads[r]
<1>1. /\ pc[r] = "result" /\ pc'[r] = "prepend"
      /\ updates'[r] = <<>> /\ payloads'[r] = {} /\ requeue'[r] = <<>>
      /\ lost'[r] = lost[r] \cup payloads[r]
      /\ UNCHANGED <<buffer, seq, resp, scan, stored, acked>>
  BY Zenon DEF GiveUp, TypeOK, bufferVars, providerVars
<1>2. requeue[r] = <<>>
  BY <1>1, Zenon DEF RoomInv, LocalsInv
<1>3. /\ Held(r) = Elems(buffer[r]) \cup payloads[r]
      /\ Held(r)' = Elems(buffer[r])
  BY <1>1, <1>2, ElemsEmpty, Zenon DEF Held
<1>4. Held(r)' = Held(r) \ payloads[r]
  BY <1>3, InFlightApart, Zenon
<1>5. LocalsInv(r)' /\ GivenOut(r)'
  BY <1>1, <1>2, ElemsEmpty, Zenon DEF RoomInv, LocalsInv, GivenOut, InFlight
<1>6. (1 .. seq[r] \subseteq Held(r) \cup stored[r] \cup lost[r])'
  BY <1>1, <1>4, Zenon DEF RoomInv
<1>7. Increasing(<<>>) /\ \A s : Below(<<>>, s)
  BY DEF Increasing, Below
<1> QED BY <1>1, <1>4, <1>5, <1>6, <1>7 DEF RoomInv

(* After a full success there is nothing left to answer for.               *)
LEMMA SucceedInv ==
  ASSUME TypeOK, NEW r \in Rooms, RoomInv(r), Succeed(r)
  PROVE  RoomInv(r)' /\ Held(r)' = Held(r)
<1>1. /\ pc[r] = "result" /\ pc'[r] = "prepend" /\ resp[r] = {}
      /\ updates'[r] = <<>> /\ requeue'[r] = <<>>
      /\ UNCHANGED <<buffer, seq, payloads, resp, scan, stored, acked, lost>>
  BY Zenon DEF Succeed, TypeOK, bufferVars, providerVars
<1>2. requeue[r] = <<>> /\ resp[r] \in {Nil, payloads[r]}
  BY <1>1, Zenon DEF RoomInv, LocalsInv, InFlight
<1>3. payloads[r] = {}
  BY <1>1, <1>2, Zenon DEF Nil
<1>4. Held(r)' = Held(r)
  BY <1>1, <1>2, Zenon DEF Held
<1>5. LocalsInv(r)' /\ GivenOut(r)'
  BY <1>1, <1>2, <1>3, ElemsEmpty DEF RoomInv, LocalsInv, GivenOut, InFlight
<1>6. Increasing(<<>>) /\ \A s : Below(<<>>, s)
  BY DEF Increasing, Below
<1> QED BY <1>1, <1>4, <1>5, <1>6 DEF RoomInv

(* Entering the re-queueing loop.                                          *)
LEMMA BeginRequeueInv ==
  ASSUME TypeOK, NEW r \in Rooms, RoomInv(r), BeginRequeue(r)
  PROVE  RoomInv(r)' /\ Held(r)' = Held(r)
<1>1. /\ pc[r] = "result" /\ pc'[r] = "requeue" /\ resp[r] # Nil
      /\ scan'[r] = 0 /\ requeue'[r] = <<>>
      /\ UNCHANGED <<buffer, seq, updates, payloads, resp, stored, acked, lost>>
  BY Zenon DEF BeginRequeue, TypeOK, bufferVars, providerVars
<1>2. requeue[r] = <<>> /\ resp[r] = payloads[r]
  BY <1>1, Zenon DEF RoomInv, LocalsInv, InFlight
<1>3. Held(r)' = Held(r)
  BY <1>1, <1>2, Zenon DEF Held
<1>4. /\ 0 <= Len(updates[r])
      /\ {updates[r][i] : i \in 1 .. 0} \cap payloads[r] = {}
  BY DEF TypeOK
<1>5. LocalsInv(r)' /\ GivenOut(r)'
  BY <1>1, <1>2, <1>4, ElemsEmpty, Zenon DEF RoomInv, LocalsInv, GivenOut, InFlight
<1> QED BY <1>1, <1>2, <1>3, <1>5 DEF RoomInv

(* One turn of the loop: the next update is collected if it failed.  The   *)
(* numbers collected stay sorted because those of updates are.             *)
LEMMA RequeueFailedInv ==
  ASSUME TypeOK, NEW r \in Rooms, RoomInv(r), RequeueFailed(r)
  PROVE  RoomInv(r)' /\ Held(r)' = Held(r)
<1> DEFINE k == scan[r] + 1
           u == updates[r][k]
<1>1. /\ pc[r] = "requeue" /\ pc'[r] = "requeue"
      /\ scan[r] < Len(updates[r]) /\ scan'[r] = k
      /\ requeue'[r] = IF u \in resp[r] THEN Append(requeue[r], u) ELSE requeue[r]
      /\ UNCHANGED <<buffer, seq, updates, payloads, resp, stored, acked, lost>>
  BY Zenon DEF RequeueFailed, TypeOK, bufferVars, providerVars
<1>2. /\ updates[r] \in Seq(Nat) /\ requeue[r] \in Seq(Nat)
      /\ buffer[r] \in Seq(Nat) /\ scan[r] \in Nat
      /\ k \in 1 .. Len(updates[r]) /\ u \in Nat /\ k <= Len(updates[r])
  BY <1>1 DEF TypeOK
<1>3. /\ resp[r] = payloads[r]
      /\ Elems(requeue[r]) =
           {updates[r][i] : i \in 1 .. scan[r]} \cap payloads[r]
      /\ payloads[r] \subseteq Elems(updates[r])
  BY <1>1, Zenon DEF RoomInv, LocalsInv
<1>4. Elems(requeue'[r]) = Elems(requeue[r]) \cup ({u} \cap payloads[r])
  <2>1. CASE u \in resp[r]
    <3>1. requeue'[r] = Append(requeue[r], u) /\ {u} \cap payloads[r] = {u}
      BY <1>1, <1>3, <2>1, Zenon
    <3> HIDE DEF u
    <3> QED BY <1>2, <3>1, ElemsAppend
  <2>2. CASE u \notin resp[r]
    BY <1>1, <1>3, <2>2, Zenon
  <2> QED BY <2>1, <2>2
<1>5. {updates[r][i] : i \in 1 .. k} = {updates[r][i] : i \in 1 .. scan[r]} \cup {u}
  <2>1. 1 .. k = 1 .. scan[r] \cup {k}
    BY <1>2
  <2> QED BY <2>1
<1>6. Elems(requeue'[r]) = {updates[r][i] : i \in 1 .. k} \cap payloads[r]
  BY <1>3, <1>4, <1>5, Zenon
<1>7. u \in Elems(updates[r])
  BY <1>2 DEF Elems
<1>8. Increasing(requeue'[r])
  <2>1. \A i \in 1 .. scan[r] : updates[r][i] < u
    <3>1. Increasing(updates[r])
      BY Zenon DEF RoomInv
    <3>2. ASSUME NEW i \in 1 .. scan[r]
          PROVE  i \in DOMAIN updates[r] /\ k \in DOMAIN updates[r] /\ i < k
      BY <1>2
    <3> HIDE DEF k
    <3> QED BY <3>1, <3>2 DEF Increasing
  <2>2. \A y \in Elems(requeue[r]) : y < u
    BY <1>3, <2>1, Zenon
  <2>3. CASE u \in resp[r]
    <3>1. Increasing(requeue[r]) /\ requeue'[r] = Append(requeue[r], u)
      BY <1>1, <2>3, Zenon DEF RoomInv
    <3> HIDE DEF u
    <3> QED BY <1>2, <2>2, <3>1, IncreasingAppend, Zenon
  <2>4. CASE u \notin resp[r]
    BY <1>1, <2>4, Zenon DEF RoomInv
  <2> QED BY <2>3, <2>4
<1>9. requeue'[r] \in Seq(Nat)
  BY <1>1, <1>2
<1>10. Below(requeue'[r], buffer[r])
  <2>1. /\ \A x \in Elems(updates[r]), y \in Elems(buffer[r]) : x < y
        /\ \A x \in Elems(requeue[r]), y \in Elems(buffer[r]) : x < y
    BY <1>2, BelowElems, Zenon DEF RoomInv
  <2>2. \A x \in Elems(requeue'[r]), y \in Elems(buffer[r]) : x < y
    BY <1>4, <1>7, <2>1, Zenon
  <2> QED BY <1>2, <1>9, <2>2, BelowElems
<1> HIDE DEF u, k
<1>11. Held(r)' = Held(r)
  BY <1>1, <1>4, Zenon DEF Held
<1>12. LocalsInv(r)'
  BY <1>1, <1>2, <1>3, <1>6, Zenon DEF RoomInv, LocalsInv, InFlight
<1>13. GivenOut(r)'
  BY <1>1, <1>4, <1>7, Zenon DEF RoomInv, GivenOut
<1> QED BY <1>1, <1>8, <1>10, <1>11, <1>12, <1>13, Zenon DEF RoomInv

(* Leaving the loop: it collected exactly what was still unacknowledged.   *)
LEMMA EndRequeueInv ==
  ASSUME TypeOK, NEW r \in Rooms, RoomInv(r), EndRequeue(r)
  PROVE  RoomInv(r)' /\ Held(r)' = Held(r)
<1>1. /\ pc[r] = "requeue" /\ pc'[r] = "prepend" /\ scan[r] = Len(updates[r])
      /\ updates'[r] = <<>> /\ payloads'[r] = {}
      /\ UNCHANGED <<buffer, seq, resp, scan, requeue, stored, acked, lost>>
  BY Zenon DEF EndRequeue, TypeOK, bufferVars, providerVars
<1>2. Elems(updates[r]) = {updates[r][i] : i \in 1 .. scan[r]}
  <2>1. updates[r] \in Seq(Nat)
    BY Zenon DEF TypeOK
  <2>2. DOMAIN updates[r] = 1 .. scan[r]
    BY <1>1, <2>1, SeqDomain, Zenon
  <2> QED BY <2>2, Zenon DEF Elems
<1>3. Elems(requeue[r]) = payloads[r]
  BY <1>1, <1>2, Zenon DEF RoomInv, LocalsInv
<1>4. Held(r)' = Held(r)
  BY <1>1, <1>3, Zenon DEF Held
<1>5. LocalsInv(r)' /\ GivenOut(r)'
  BY <1>1, ElemsEmpty, Zenon DEF RoomInv, LocalsInv, GivenOut, InFlight
<1>6. Increasing(<<>>) /\ \A s : Below(<<>>, s)
  BY DEF Increasing, Below
<1> QED BY <1>1, <1>4, <1>5, <1>6 DEF RoomInv

(* Prepend puts it back in front.                                          *)
LEMMA PrependInv ==
  ASSUME TypeOK, NEW r \in Rooms, RoomInv(r), Prepend(r)
  PROVE  RoomInv(r)' /\ Held(r)' = Held(r)
<1>1. /\ pc[r] = "prepend" /\ pc'[r] \in {"done", "select"}
      /\ buffer'[r] = requeue[r] \o buffer[r] /\ requeue'[r] = <<>>
      /\ UNCHANGED <<seq, updates, payloads, resp, scan, stored, acked, lost>>
  BY Zenon DEF Prepend, BufferPrepend, TypeOK, LoopTo, providerVars
<1>2. updates[r] = <<>> /\ payloads[r] = {}
  BY <1>1, Zenon DEF RoomInv, LocalsInv, InFlight
<1>3. Elems(buffer'[r]) = Elems(requeue[r]) \cup Elems(buffer[r])
  BY <1>1, ElemsConcat, Zenon DEF TypeOK
<1>4. Held(r)' = Held(r)
  BY <1>1, <1>2, <1>3, ElemsEmpty, Zenon DEF Held
<1>5. LocalsInv(r)' /\ GivenOut(r)'
  BY <1>1, <1>2, <1>3, ElemsEmpty, Zenon DEF RoomInv, LocalsInv, GivenOut, InFlight
<1>6. Increasing(buffer'[r])
  <2>1. requeue[r] \in Seq(Nat) /\ buffer[r] \in Seq(Nat)
    BY Zenon DEF TypeOK
  <2>2. /\ Increasing(requeue[r]) /\ Increasing(buffer[r])
        /\ Below(requeue[r], buffer[r])
    BY Zenon DEF RoomInv
  <2>3. Increasing(requeue[r] \o buffer[r])
    BY <2>1, <2>2, IncreasingConcat, Zenon
  <2> QED BY <1>1, <2>3, Zenon
<1>7. Increasing(<<>>) /\ \A s : Below(<<>>, s)
  BY DEF Increasing, Below
<1> QED BY <1>1, <1>2, <1>4, <1>5, <1>6, <1>7 DEF RoomInv

-----------------------------------------------------------------------------
(* The theorems.                                                           *)

(* The three ways into a flush differ only in what they do to flushCh.     *)
LEMMA SelectBranches ==
  ASSUME NEW r \in Rooms, OnTicker(r) \/ OnFlushCh(r) \/ OnCloseCh(r)
  PROVE  \E isFinal \in BOOLEAN : StartFlush(r, isFinal)
  BY Zenon DEF OnTicker, OnFlushCh, OnCloseCh

(* Every step of a room preserves its part of the invariant.               *)
LEMMA RoomStepInv ==
  ASSUME TypeOK, NEW r \in Rooms, RoomInv(r),
         ReceiveUpdate(r) \/ Close(r) \/ FlushStep(r)
  PROVE  RoomInv(r)'
<1>1. CASE ReceiveUpdate(r)
  BY <1>1, ReceiveInv, Zenon
<1>2. CASE Close(r)
  <2>1. Frame(r)
    BY <1>2, Zenon DEF Close, Frame, bufferVars, flushVars, providerVars
  <2> QED BY <2>1, FrameInv
<1>3. CASE OnTicker(r) \/ OnFlushCh(r) \/ OnCloseCh(r)
  BY <1>3, SelectBranches, StartFlushInv, Zenon
<1>4. CASE Store(r)
  BY <1>4, StoreOkInv, StorePartialInv, StoreErrorInv, Zenon DEF Store
<1>5. CASE RequeueFailed(r)
  BY <1>5, RequeueFailedInv, Zenon
<1>6. CASE Drain(r) BY <1>6, DrainInv
<1>7. CASE BeginStore(r) BY <1>7, BeginStoreInv
<1> QED BY <1>1, <1>2, <1>3, <1>4, <1>5, <1>6, <1>7, LockMissedInv,
           BreakerRefusedInv, BackoffInv, GiveUpInv, SucceedInv,
           BeginRequeueInv, EndRequeueInv, PrependInv DEF FlushStep

(* The health checker concerns no room.                                    *)
LEMMA HealthFrame ==
  ASSUME NEW q \in Rooms, Health \/ UNCHANGED vars
  PROVE  Frame(q)
  BY Zenon DEF Health, HealthFailed, HealthOk, HealthReadState, HealthConfirm, Frame,
         vars, bufferVars, roomVars, flushVars, providerVars

(* The inductive invariant holds in every reachable state.                 *)
THEOREM FlushInvCorrect == Spec => []FlushInv
<1>1. Init => FlushInv
  <2> SUFFICES ASSUME Init, NEW r \in Rooms PROVE RoomInv(r)
    BY FlushInvRooms, Zenon
  <2>1. /\ buffer[r] = <<>> /\ updates[r] = <<>> /\ requeue[r] = <<>>
        /\ payloads[r] = {} /\ acked[r] = {} /\ seq[r] = 0 /\ pc[r] = "select"
    BY Zenon DEF Init
  <2>2. LocalsInv(r) /\ GivenOut(r)
    BY <2>1, ElemsEmpty, Zenon DEF LocalsInv, GivenOut, InFlight
  <2>3. Increasing(<<>>) /\ Below(<<>>, <<>>) /\ 1 .. 0 = {}
    BY DEF Increasing, Below
  <2> QED BY <2>1, <2>2, <2>3 DEF RoomInv
<1>2. TypeOK /\ FlushInv /\ [Next]_vars => FlushInv'
  <2> SUFFICES ASSUME TypeOK, FlushInv, [Next]_vars PROVE FlushInv'
    BY Zenon
  <2>1. ASSUME NEW q \in Rooms PROVE RoomInv(q)'
    <3>1. RoomInv(q)
      BY <2>1, FlushInvRooms, Zenon
    <3>2. CASE Health \/ UNCHANGED vars
      BY <2>1, <3>1, <3>2, HealthFrame, FrameInv, Zenon
    <3>3. ASSUME NEW r \in Rooms, ReceiveUpdate(r) \/ Close(r) \/ FlushStep(r)
          PROVE  RoomInv(q)'
      <4>1. CASE q = r
        BY <3>1, <3>3, <4>1, RoomStepInv, Zenon
      <4>2. CASE q # r
        BY <2>1, <3>1, <3>3, <4>2, OtherRooms, FrameInv, Zenon
      <4> QED BY <4>1, <4>2
    <3> QED BY <3>2, <3>3 DEF Next
  <2> QED BY <2>1 DEF FlushInv, RoomInv, Accounted, InOrder, NoResendOfAcked
<1> QED BY <1>1, <1>2, TypeCorrect, PTL DEF Spec

(* No update disappears inside the flush path (Drain, retries, re-queueing *)
(* and Prepend): it is held, in the provider, or given up on.              *)
THEOREM AccountedCorrect == Spec => []Accounted
<1>1. FlushInv => Accounted
  BY Zenon DEF FlushInv
<1> QED BY <1>1, FlushInvCorrect, PTL

(* Prepend restores the order of arrival, whatever arrived meanwhile.      *)
THEOREM InOrderCorrect == Spec => []InOrder
<1>1. FlushInv => InOrder
  BY Zenon DEF FlushInv
<1> QED BY <1>1, FlushInvCorrect, PTL

(* What the provider acknowledged is neither retried nor re-queued         *)
(* (storeWithRetry keeps the failed subset only).                          *)
THEOREM NoResendCorrect == Spec => []NoResendOfAcked
<1>1. FlushInv => NoResendOfAcked
  BY Zenon DEF FlushInv
<1> QED BY <1>1, FlushInvCorrect, PTL

(* The byte count follows the buffer.                                      *)
THEOREM SizeCorrect == Spec => []SizeMatches
<1>1. Init => SizeMatches
  <2> SUFFICES ASSUME Init, NEW r \in Rooms PROVE size[r] = Len(buffer[r])
    BY Zenon DEF SizeMatches
  <2>1. size[r] = 0 /\ buffer[r] = <<>>
    BY Zenon DEF Init
  <2> QED BY <2>1
<1>2. TypeOK /\ SizeMatches /\ [Next]_vars => SizeMatches'
  <2> SUFFICES ASSUME TypeOK, SizeMatches, [Next]_vars, NEW q \in Rooms
               PROVE  size'[q] = Len(buffer'[q])
    BY Zenon DEF SizeMatches
  <2> USE DEF TypeOK, SizeMatches, bufferVars
  <2>1. CASE buffer' = buffer /\ size' = size
    BY <2>1, Zenon
  <2>2. ASSUME NEW r \in Rooms, ReceiveUpdate(r) PROVE size'[q] = Len(buffer'[q])
    BY <2>2 DEF ReceiveUpdate, BufferAppend
  <2>3. ASSUME NEW r \in Rooms, Drain(r) PROVE size'[q] = Len(buffer'[q])
    <3>1. Len(<<>>) = 0
      BY Zenon
    <3>2. CASE q = r
      BY <2>3, <3>1, <3>2, Zenon DEF Drain, BufferDrain
    <3>3. CASE q # r
      BY <2>3, <3>3, Zenon DEF Drain, BufferDrain
    <3> QED BY <3>2, <3>3
  <2>4. ASSUME NEW r \in Rooms, Prepend(r) PROVE size'[q] = Len(buffer'[q])
    <3>1. CASE q = r
      <4>1. /\ requeue[r] \in Seq(Nat) /\ buffer[r] \in Seq(Nat)
            /\ size[r] = Len(buffer[r])
        BY Zenon
      <4>2. /\ buffer'[q] = requeue[r] \o buffer[r]
            /\ size'[q] = size[r] + Len(requeue[r])
        BY <2>4, <3>1, Zenon DEF Prepend, BufferPrepend
      <4>3. Len(requeue[r] \o buffer[r]) = size[r] + Len(requeue[r])
        BY <4>1, LenConcat, Zenon
      <4> QED BY <4>2, <4>3, Zenon
    <3>2. CASE q # r
      BY <2>4, <3>2, Zenon DEF Prepend, BufferPrepend
    <3> QED BY <3>1, <3>2
  <2>5. CASE Health \/ UNCHANGED vars
    BY <2>1, <2>5, Zenon DEF Health, HealthFailed, HealthOk, HealthReadState,
                      HealthConfirm, vars
  <2>6. ASSUME NEW r \in Rooms, Close(r) \/ FlushStep(r), ~Drain(r), ~Prepend(r)
        PROVE  buffer' = buffer /\ size' = size
    BY <2>6, Zenon DEF Close, FlushStep, OnTicker, OnFlushCh, OnCloseCh, StartFlush,
                LockMissed, BreakerRefused, BeginStore, Store, StoreOk,
                StorePartial, StoreError, Retry, BackoffCancelled, GiveUp,
                Succeed, BeginRequeue, RequeueFailed, EndRequeue
  <2> QED BY <2>1, <2>2, <2>3, <2>4, <2>5, <2>6 DEF Next
<1> QED BY <1>1, <1>2, TypeCorrect, PTL DEF Spec

(* The breaker's state and its failure count agree.                        *)
THEOREM BreakerCorrect == Spec => []BreakerCoherent
<1>1. Init => BreakerCoherent
  BY ConfigAssumption DEF Init, BreakerCoherent
<1>2. TypeOK /\ BreakerCoherent /\ [Next]_vars => BreakerCoherent'
  <2> SUFFICES ASSUME TypeOK, BreakerCoherent, [Next]_vars PROVE BreakerCoherent'
    BY Zenon
  <2> USE ConfigAssumption DEF BreakerCoherent
  <2>1. CASE UNCHANGED breakerVars
    BY <2>1, Zenon DEF breakerVars
  <2>2. CASE RecordSuccess
    BY <2>2 DEF RecordSuccess
  <2>3. CASE RecordFailure
    BY <2>3 DEF RecordFailure, TypeOK
  <2>4. CASE HealthOk
    BY <2>4, Zenon DEF HealthOk
  <2>5. RecordSuccess \/ RecordFailure \/ HealthOk \/ UNCHANGED breakerVars
    BY Zenon DEF Next, Health, HealthFailed, HealthReadState, HealthConfirm, vars,
           ReceiveUpdate, Close, FlushStep, OnTicker, OnFlushCh, OnCloseCh,
           StartFlush, LockMissed, Drain, BreakerRefused, BeginStore, Store,
           StoreOk, StorePartial, StoreError, Retry, BackoffCancelled, GiveUp,
           Succeed, BeginRequeue, RequeueFailed, EndRequeue, Prepend
  <2> QED BY <2>1, <2>2, <2>3, <2>4, <2>5
<1> QED BY <1>1, <1>2, TypeCorrect, PTL DEF Spec

(* A step of a room, seen through the refinement mapping.                  *)
LEMMA LedgerRoomStep ==
  ASSUME TypeOK, NEW r \in Rooms, RoomInv(r),
         ReceiveUpdate(r) \/ Close(r) \/ FlushStep(r),
         \A q \in Rooms : q # r => Held(q)' = Held(q) /\ seq'[q] = seq[q]
  PROVE  Ledger!Next \/ UNCHANGED Ledger!vars
<1> DEFINE received == [q \in Rooms |-> 1 .. seq[q]]
           held == [q \in Rooms |-> Held(q)]
           Same == /\ seq' = seq /\ Held(r)' = Held(r)
                   /\ UNCHANGED <<stored, acked, lost>>
<1>1. ASSUME Same PROVE UNCHANGED Ledger!vars
  <2>1. received' = received /\ held' = held
    BY <1>1, Zenon
  <2> QED BY <1>1, <2>1 DEF Ledger!vars
<1>2. ASSUME NEW S \in SUBSET payloads[r], seq' = seq, Held(r)' = Held(r) \ S
      PROVE  /\ S \in SUBSET held[r]
             /\ received' = received /\ held' = [held EXCEPT ![r] = @ \ S]
  BY <1>2, Zenon DEF Held
<1>3. CASE ReceiveUpdate(r)
  <2>1. /\ seq'[r] = seq[r] + 1 /\ seq[r] \in Nat /\ seq[r] < MaxSeq
        /\ UNCHANGED <<stored, acked, lost>> /\ MaxSeq \in Nat
    BY <1>3, ConfigAssumption, Zenon DEF ReceiveUpdate, BufferAppend, TypeOK, providerVars
  <2>2. PICK u \in 1 .. MaxSeq : u = seq[r] + 1
    BY <2>1
  <2>3. Held(r)' = Held(r) \cup {u}
    BY <1>3, <2>2, ReceiveInv, Zenon
  <2>4. 1 .. seq'[r] = 1 .. seq[r] \cup {u} /\ u \notin 1 .. seq[r]
    BY <2>1, <2>2, RangeSucc, Zenon
  <2>5. /\ received' = [received EXCEPT ![r] = @ \cup {u}]
        /\ held' = [held EXCEPT ![r] = @ \cup {u}]
        /\ u \notin received[r]
    BY <2>3, <2>4, Zenon
  <2>6. Ledger!Receive(r, u)
    BY <2>1, <2>5, Zenon DEF Ledger!Receive
  <2> QED BY <2>6 DEF Ledger!Next
<1>4. CASE Close(r)
  <2>1. Same
    BY <1>4, Zenon DEF Close, bufferVars, flushVars, providerVars, Held
  <2> QED BY <1>1, <2>1
<1>5. CASE StoreOk(r)
  <2>1. /\ seq' = seq /\ lost' = lost /\ payloads[r] \in SUBSET payloads[r]
        /\ stored' = [stored EXCEPT ![r] = @ \cup payloads[r]]
        /\ acked' = [acked EXCEPT ![r] = @ \cup payloads[r]]
    BY <1>5, Zenon DEF StoreOk, bufferVars
  <2>2. Held(r)' = Held(r) \ payloads[r]
    BY <1>5, StoreOkInv, Zenon
  <2>3. Ledger!Acknowledge(r, payloads[r])
    BY <1>2, <2>1, <2>2, Zenon DEF Ledger!Acknowledge
  <2> QED BY <1>2, <2>1, <2>2, <2>3, Zenon DEF Ledger!Next
<1>6. ASSUME NEW failed \in SUBSET payloads[r], StorePartial(r, failed)
      PROVE  Ledger!Next
  <2> DEFINE S == payloads[r] \ failed
  <2>1. /\ seq' = seq /\ lost' = lost /\ S \in SUBSET payloads[r]
        /\ stored' = [stored EXCEPT ![r] = @ \cup S]
        /\ acked' = [acked EXCEPT ![r] = @ \cup S]
    BY <1>6, Zenon DEF StorePartial, bufferVars
  <2>2. Held(r)' = Held(r) \ S
    BY <1>6, StorePartialInv, Zenon
  <2> HIDE DEF S
  <2>3. Ledger!Acknowledge(r, S)
    BY <1>2, <2>1, <2>2, Zenon DEF Ledger!Acknowledge
  <2> QED BY <1>2, <2>1, <2>2, <2>3, Zenon DEF Ledger!Next
<1>7. ASSUME NEW landed \in SUBSET payloads[r], StoreError(r, landed)
      PROVE  Ledger!Next
  <2>1. /\ seq' = seq /\ lost' = lost /\ acked' = acked
        /\ stored' = [stored EXCEPT ![r] = @ \cup landed]
    BY <1>7, Zenon DEF StoreError, bufferVars
  <2>2. Held(r)' = Held(r) /\ landed \in SUBSET Held(r)
    BY <1>7, StoreErrorInv, Zenon DEF Held
  <2>3. received' = received /\ held' = held /\ landed \in SUBSET held[r]
    BY <2>1, <2>2, Zenon
  <2>4. Ledger!Land(r, landed)
    BY <2>1, <2>3, Zenon DEF Ledger!Land
  <2> QED BY <2>3, <2>4, Zenon DEF Ledger!Next
<1>8. CASE GiveUp(r)
  <2>1. /\ seq' = seq /\ stored' = stored /\ acked' = acked
        /\ lost' = [lost EXCEPT ![r] = @ \cup payloads[r]]
        /\ payloads[r] \in SUBSET payloads[r]
    BY <1>8, Zenon DEF GiveUp, bufferVars, providerVars
  <2>2. Held(r)' = Held(r) \ payloads[r]
    BY <1>8, GiveUpInv, Zenon
  <2>3. Ledger!GiveUp(r, payloads[r])
    BY <1>2, <2>1, <2>2, Zenon DEF Ledger!GiveUp
  <2> QED BY <1>2, <2>1, <2>2, <2>3, Zenon DEF Ledger!Next
<1>9. ASSUME FlushStep(r), ~Store(r), ~GiveUp(r) PROVE Same
  <2>1. UNCHANGED <<seq, stored, acked, lost>>
    BY <1>9, Zenon DEF FlushStep, OnTicker, OnFlushCh, OnCloseCh, StartFlush, LockMissed,
                Drain, BufferDrain, BufferPrepend, BreakerRefused, BeginStore, Retry, BackoffCancelled,
                Succeed, BeginRequeue, RequeueFailed, EndRequeue, Prepend,
                bufferVars, providerVars
  <2>2. Held(r)' = Held(r)
    <3>1. CASE OnTicker(r) \/ OnFlushCh(r) \/ OnCloseCh(r)
      BY <3>1, SelectBranches, StartFlushInv, Zenon
    <3>2. CASE Drain(r) BY <3>2, DrainInv
    <3>3. CASE BeginStore(r) BY <3>3, BeginStoreInv
    <3>4. CASE RequeueFailed(r) BY <3>4, RequeueFailedInv
    <3> QED BY <1>9, <3>1, <3>2, <3>3, <3>4, LockMissedInv, BreakerRefusedInv,
               BackoffInv, SucceedInv, BeginRequeueInv, EndRequeueInv,
               PrependInv, Zenon DEF FlushStep
  <2> QED BY <2>1, <2>2
<1> HIDE DEF Same
<1> QED BY <1>1, <1>3, <1>4, <1>5, <1>6, <1>7, <1>8, <1>9 DEF Store

(* The relay's flush path implements UpdateLedger.                         *)
THEOREM LedgerRefined == Spec => ImplementsLedger
<1>1. Init => Ledger!Init
  <2> SUFFICES ASSUME Init PROVE Ledger!Init
    BY Zenon
  <2>1. ASSUME NEW r \in Rooms PROVE Held(r) = {} /\ 1 .. seq[r] = {}
    BY ElemsEmpty DEF Init, Held
  <2> QED BY <2>1 DEF Init, Ledger!Init
<1>2. TypeOK /\ FlushInv /\ [Next]_vars => [Ledger!Next]_(Ledger!vars)
  <2> SUFFICES ASSUME TypeOK, FlushInv, [Next]_vars
               PROVE  Ledger!Next \/ UNCHANGED Ledger!vars
    BY Zenon
  <2>1. CASE Health \/ UNCHANGED vars
    <3>1. UNCHANGED <<buffer, seq, pc, updates, payloads, requeue, stored, acked, lost>>
      BY <2>1, Zenon DEF Health, HealthFailed, HealthOk, HealthReadState, HealthConfirm,
                  vars, bufferVars, roomVars, flushVars, providerVars
    <3> QED BY <3>1 DEF Ledger!vars, Held
  <2>2. ASSUME NEW r \in Rooms, ReceiveUpdate(r) \/ Close(r) \/ FlushStep(r)
        PROVE  Ledger!Next \/ UNCHANGED Ledger!vars
    <3>1. RoomInv(r)
      BY FlushInvRooms, Zenon
    <3>2. ASSUME NEW q \in Rooms, q # r
          PROVE  Held(q)' = Held(q) /\ seq'[q] = seq[q]
      <4>1. Frame(q)
        BY <2>2, <3>2, OtherRooms, Zenon
      <4> QED BY <4>1 DEF Frame, Held
    <3> QED BY <2>2, <3>1, <3>2, LedgerRoomStep
  <2> QED BY <2>1, <2>2 DEF Next
<1> QED BY <1>1, <1>2, TypeCorrect, FlushInvCorrect, PTL DEF Spec, ImplementsLedger, Ledger!Spec
=============================================================================
