--------------------------- MODULE RoomStateProofs ---------------------------
(***************************************************************************)
(* Proofs about RoomState, for any sets of pods and updates and any bounds.*)
(***************************************************************************)
EXTENDS RoomState, TLAPS, SequenceTheorems

-----------------------------------------------------------------------------
(* Type correctness.                                                       *)

\* Every action of a pod keeps the types.
LEMMA BootTyped ==
    ASSUME TypeOK, NEW p \in Pods, BootStep(p)
    PROVE  TypeOK'
<1> USE DEF TypeOK, Booting, Up
<1>1. CASE Boot(p)
  BY <1>1, Zenon DEF Boot, redisVars, msgVars, localVars
<1>2. CASE ReadSnapshot(p)
  BY <1>2, Zenon DEF ReadSnapshot, redisVars, msgVars
<1>3. ASSUME NEW ok \in BOOLEAN, ReadSnapOffset(p, ok)
      PROVE  TypeOK'
  BY <1>3, Zenon DEF ReadSnapOffset, Replayed, redisVars, msgVars
<1>4. CASE ReadCounter(p)
  <2>1. tail' \in [Pods -> [counter : Nat, length : Nat]]
    BY <1>4, Zenon DEF ReadCounter
  <2> QED BY <1>4, <2>1 DEF ReadCounter, redisVars, msgVars
<1>5. CASE ReadLength(p)
  <2>1. Len(log) \in Nat
    BY LenProperties, Zenon
  <2>2. tail' \in [Pods -> [counter : Nat, length : Nat]]
    BY <1>5, <2>1, Zenon DEF ReadLength
  <2> QED BY <1>5, <2>2 DEF ReadLength, redisVars, msgVars
<1>6. ASSUME NEW ok \in BOOLEAN, ReadRange(p, ok)
      PROVE  TypeOK'
  <2>1. LogTail(p) \subseteq Updates
    BY DEF LogTail
  <2>2. doc' \in [Pods -> SUBSET Updates]
    BY <1>6, <2>1, Zenon DEF ReadRange
  <2> QED BY <1>6, <2>2, Zenon DEF ReadRange, Replayed, redisVars, msgVars, localVars
<1>7. ASSUME NEW loaded \in BOOLEAN, BootReadFails(p, loaded)
      PROVE  TypeOK'
  BY <1>7, Zenon DEF BootReadFails, redisVars, msgVars, localVars
<1>8. CASE Subscribe(p)
  BY <1>8, Zenon DEF Subscribe, redisVars, msgVars, localVars
<1> QED BY <1>1, <1>2, <1>3, <1>4, <1>5, <1>6, <1>7, <1>8, Zenon DEF BootStep

\* Every step of a frame keeps the types.
LEMMA FrameTyped ==
    ASSUME TypeOK, NEW p \in Pods, FrameStep(p)
    PROVE  TypeOK'
<1> PICK u \in Updates :
        \/ \E ok \in BOOLEAN : ClientUpdate(p, u, ok) \/ BrokerUpdate(p, u, ok)
        \/ \E fromClient \in BOOLEAN : Enqueue(p, u, fromClient)
        \/ \E to \in SUBSET Pods : Publish(p, u, to)
        \/ AppendUpdate(p, u) \/ AppendFails(p, u)
  BY Zenon DEF FrameStep
<1> USE DEF TypeOK
<1>1. ASSUME NEW ok \in BOOLEAN, ClientUpdate(p, u, ok)
      PROVE  TypeOK'
  <2>1. <<u, TRUE>> \in Updates \X BOOLEAN
    BY Zenon
  <2>2. handling' \in [Pods -> SUBSET (Updates \X BOOLEAN)]
    BY <1>1, <2>1, Zenon DEF ClientUpdate, Apply
  <2>3. doc' \in [Pods -> SUBSET Updates]
    BY <1>1, Zenon DEF ClientUpdate, Apply
  <2> QED BY <1>1, <2>2, <2>3, Zenon DEF ClientUpdate, Apply, redisVars, msgVars, localVars
<1>2. ASSUME NEW ok \in BOOLEAN, BrokerUpdate(p, u, ok)
      PROVE  TypeOK'
  <2>1. <<u, FALSE>> \in Updates \X BOOLEAN
    BY Zenon
  <2>2. handling' \in [Pods -> SUBSET (Updates \X BOOLEAN)]
    BY <1>2, <2>1, Zenon DEF BrokerUpdate, Apply
  <2>3. doc' \in [Pods -> SUBSET Updates]
    BY <1>2, Zenon DEF BrokerUpdate, Apply
  <2> QED BY <1>2, <2>2, <2>3, Zenon DEF BrokerUpdate, Apply, redisVars, localVars
<1>3. ASSUME NEW fromClient \in BOOLEAN, Enqueue(p, u, fromClient)
      PROVE  TypeOK'
  BY <1>3 DEF Enqueue, redisVars, localVars
<1>4. ASSUME NEW to \in SUBSET Pods, Publish(p, u, to)
      PROVE  TypeOK'
  BY <1>4, Zenon DEF Publish, redisVars, localVars
<1>5. CASE AppendUpdate(p, u)
  <2>1. log' \in Seq(Updates)
    BY <1>5, AppendProperties, Zenon DEF AppendUpdate
  <2> QED BY <1>5, <2>1 DEF AppendUpdate, Disturb, localVars
<1>6. CASE AppendFails(p, u)
  BY <1>6, Zenon DEF AppendFails, redisVars, localVars
<1> QED BY <1>1, <1>2, <1>3, <1>4, <1>5, <1>6, Zenon

\* Every step of a flush keeps the types.
LEMMA FlushTyped ==
    ASSUME TypeOK, NEW p \in Pods, FlushStep(p)
    PROVE  TypeOK'
<1> USE DEF TypeOK, Up
<1>1. CASE FlushWon(p)
  BY <1>1, Zenon DEF FlushWon, Acquire, redisVars, msgVars, localVars
<1>2. CASE FlushMissed(p)
  BY <1>2, Zenon DEF FlushMissed, redisVars, msgVars, localVars
<1>3. ASSUME NEW landed \in BOOLEAN, NEW back \in BOOLEAN, NEW released \in BOOLEAN,
             FlushDone(p, landed, back, released)
      PROVE  TypeOK'
  BY <1>3, Zenon DEF FlushDone, redisVars, msgVars, localVars
<1>4. CASE EncodeState(p)
  BY <1>4, Zenon DEF EncodeState, redisVars, msgVars
<1>5. CASE CaptureOffset(p)
  BY <1>5, Zenon DEF CaptureOffset, redisVars, msgVars
<1>6. CASE WriteSnapshot(p)
  <2>1. log' \in Seq(Updates)
    BY <1>6 DEF WriteSnapshot
  <2> QED BY <1>6, <2>1 DEF WriteSnapshot, Disturb, msgVars, localVars
<1>7. CASE SnapshotFails(p)
  BY <1>7, Zenon DEF SnapshotFails, redisVars, msgVars, localVars
<1> QED BY <1>1, <1>2, <1>3, <1>4, <1>5, <1>6, <1>7, Zenon DEF FlushStep

\* A crash and the lock's expiry keep the types.
LEMMA OtherTyped ==
    ASSUME TypeOK, LockExpires \/ \E p \in Pods : Crash(p)
    PROVE  TypeOK'
<1> USE DEF TypeOK
<1>1. CASE LockExpires
  BY <1>1, Zenon DEF LockExpires, redisVars, msgVars, localVars
<1>2. ASSUME NEW p \in Pods, Crash(p)
      PROVE  TypeOK'
  <2>1. tail' \in [Pods -> [counter : Nat, length : Nat]]
    BY <1>2, Zenon DEF Crash
  <2>2. /\ stale' \in [Pods -> BOOLEAN]
        /\ quiet' \in [Pods -> BOOLEAN]
    BY <1>2, Zenon DEF Crash
  <2>3. /\ handling' \in [Pods -> SUBSET (Updates \X BOOLEAN)]
        /\ phase' \in [Pods -> {"down"} \cup Booting \cup Up]
    BY <1>2, Zenon DEF Crash
  <2>4. /\ doc' \in [Pods -> SUBSET Updates]
        /\ buf' \in [Pods -> SUBSET Updates]
        /\ drained' \in [Pods -> SUBSET Updates]
        /\ state' \in [Pods -> SUBSET Updates]
    BY <1>2, Zenon DEF Crash
  <2>5. /\ pending' \in [Pods -> SUBSET Updates]
        /\ outbox' \in [Pods -> SUBSET Updates]
        /\ inbox' \in [Pods -> SUBSET Updates]
    BY <1>2, Zenon DEF Crash
  <2>6. offset' \in [Pods -> Nat] /\ crashes' \in Nat
    <3>1. offset' = [offset EXCEPT ![p] = 0] /\ crashes' = crashes + 1
      BY <1>2, Zenon DEF Crash
    <3> QED BY <3>1
  <2>7. UNCHANGED <<redisVars, lock, stored, sent>>
    BY <1>2, Zenon DEF Crash
  <2> QED BY <2>1, <2>2, <2>3, <2>4, <2>5, <2>6, <2>7, Zenon DEF redisVars
<1> QED BY <1>1, <1>2, Zenon

\* The initial state is well typed.
LEMMA InitTyped == Init => TypeOK
<1> SUFFICES ASSUME Init PROVE TypeOK
  BY Zenon
<1> USE DEF Init, NoSnapshot
<1>1. log \in Seq(Updates) /\ snapshot \in [exists : BOOLEAN, doc : SUBSET Updates]
  OBVIOUS
<1>2. /\ tail \in [Pods -> [counter : Nat, length : Nat]]
      /\ phase \in [Pods -> {"down"} \cup Booting \cup Up]
  BY Zenon
<1>3. /\ stale \in [Pods -> BOOLEAN] /\ quiet \in [Pods -> BOOLEAN]
      /\ handling \in [Pods -> SUBSET (Updates \X BOOLEAN)]
  BY Zenon
<1>4. /\ doc \in [Pods -> SUBSET Updates] /\ buf \in [Pods -> SUBSET Updates]
      /\ drained \in [Pods -> SUBSET Updates] /\ pending \in [Pods -> SUBSET Updates]
      /\ outbox \in [Pods -> SUBSET Updates] /\ inbox \in [Pods -> SUBSET Updates]
      /\ state \in [Pods -> SUBSET Updates]
  BY Zenon
<1>5. /\ counter \in Nat /\ snapOff \in Nat /\ crashes \in Nat /\ offset \in [Pods -> Nat]
      /\ lock \in Pods \cup {NoPod} /\ stored \in SUBSET Updates /\ sent \in SUBSET Updates
  BY Zenon
<1> HIDE DEF Init, NoSnapshot
<1> QED BY <1>1, <1>2, <1>3, <1>4, <1>5 DEF TypeOK

\* Every reachable state of the room's durable state has its types.
THEOREM TypeCorrect == Spec => []TypeOK
<1>1. Init => TypeOK
  BY InitTyped, Zenon
<1>2. TypeOK /\ [Next]_vars => TypeOK'
  <2> SUFFICES ASSUME TypeOK, [Next]_vars
               PROVE  TypeOK'
    BY Zenon
  <2>1. CASE UNCHANGED vars
    BY <2>1, Zenon DEF TypeOK, vars, redisVars, msgVars, localVars
  <2>2. CASE Next
    BY <2>2, BootTyped, FrameTyped, FlushTyped, OtherTyped, Zenon DEF Next
  <2> QED BY <2>1, <2>2
<1> QED BY <1>1, <1>2, PTL DEF Spec

-----------------------------------------------------------------------------
(* A step of one pod, or the lock's expiry: the cases of the proofs below. *)

PodStep(p) == BootStep(p) \/ FrameStep(p) \/ FlushStep(p) \/ Crash(p)

\* Every step of a pod keeps the counter ahead of the log and of the offsets.
LEMMA WindowStep ==
    ASSUME TypeOK, WindowInv, NEW p \in Pods, PodStep(p)
    PROVE  WindowInv'
<1> DEFINE Goal == WindowInv'
<1> USE DEF TypeOK, WindowInv, LogWindow
<1>1. CASE Boot(p)
  BY <1>1, Zenon DEF Boot, redisVars, msgVars, localVars
<1>2. CASE ReadSnapshot(p)
  BY <1>2, Zenon DEF ReadSnapshot, redisVars, msgVars, localVars
<1>3. ASSUME NEW ok \in BOOLEAN,
             ReadSnapOffset(p, ok)
      PROVE  Goal
  BY <1>3 DEF ReadSnapOffset, Replayed, redisVars, msgVars, localVars
<1>4. CASE ReadCounter(p)
  BY <1>4, Zenon DEF ReadCounter, redisVars, msgVars, localVars
<1>5. CASE ReadLength(p)
  BY <1>5, Zenon DEF ReadLength, redisVars, msgVars, localVars
<1>6. ASSUME NEW ok \in BOOLEAN,
             ReadRange(p, ok)
      PROVE  Goal
  BY <1>6, Zenon DEF ReadRange, Replayed, redisVars, msgVars, localVars
<1>7. ASSUME NEW loaded \in BOOLEAN,
             BootReadFails(p, loaded)
      PROVE  Goal
  BY <1>7, Zenon DEF BootReadFails, redisVars, msgVars, localVars
<1>8. CASE Subscribe(p)
  BY <1>8, Zenon DEF Subscribe, redisVars, msgVars, localVars
<1>9. ASSUME NEW u \in Updates, NEW ok \in BOOLEAN,
             ClientUpdate(p, u, ok)
      PROVE  Goal
  BY <1>9, Zenon DEF ClientUpdate, Apply, redisVars, msgVars, localVars
<1>10. ASSUME NEW u \in Updates, NEW ok \in BOOLEAN,
             BrokerUpdate(p, u, ok)
      PROVE  Goal
  BY <1>10, Zenon DEF BrokerUpdate, Apply, redisVars, msgVars, localVars
<1>11. ASSUME NEW u \in Updates, NEW fromClient \in BOOLEAN,
             Enqueue(p, u, fromClient)
      PROVE  Goal
  BY <1>11, Zenon DEF Enqueue, redisVars, msgVars, localVars
<1>12. ASSUME NEW u \in Updates, NEW to \in SUBSET Pods,
             Publish(p, u, to)
      PROVE  Goal
  BY <1>12, Zenon DEF Publish, redisVars, msgVars, localVars
<1>13. ASSUME NEW u \in Updates,
             AppendUpdate(p, u)
      PROVE  Goal
  <2>1. Len(log') = Len(log) + 1 /\ Len(log) \in Nat
    BY <1>13 DEF AppendUpdate
  <2> QED BY <1>13, <2>1 DEF AppendUpdate, localVars
<1>14. ASSUME NEW u \in Updates,
             AppendFails(p, u)
      PROVE  Goal
  BY <1>14, Zenon DEF AppendFails, redisVars, msgVars, localVars
<1>15. CASE FlushWon(p)
  BY <1>15, NoPodAssumption, Zenon DEF FlushWon, Acquire, redisVars, msgVars, localVars
<1>16. CASE FlushMissed(p)
  BY <1>16, Zenon DEF FlushMissed, redisVars, msgVars, localVars
<1>17. ASSUME NEW landed \in BOOLEAN, NEW back \in BOOLEAN, NEW released \in BOOLEAN,
             FlushDone(p, landed, back, released)
      PROVE  Goal
  BY <1>17, Zenon DEF FlushDone, redisVars, msgVars, localVars
<1>18. CASE EncodeState(p)
  BY <1>18, Zenon DEF EncodeState, redisVars, msgVars, localVars
<1>19. CASE CaptureOffset(p)
  BY <1>19 DEF CaptureOffset, redisVars, msgVars, localVars
<1>20. CASE WriteSnapshot(p)
  <2>1. Len(log') = 0
    BY <1>20, Zenon DEF WriteSnapshot
  <2> QED BY <1>20, <2>1 DEF WriteSnapshot, localVars
<1>21. CASE SnapshotFails(p)
  BY <1>21, Zenon DEF SnapshotFails, redisVars, msgVars, localVars
<1>22. CASE Crash(p)
  BY <1>22 DEF Crash, redisVars, msgVars, localVars
<1> QED
  BY <1>1, <1>2, <1>3, <1>4, <1>5, <1>6, <1>7, <1>8, <1>9, <1>10, <1>11, <1>12,
     <1>13, <1>14, <1>15, <1>16, <1>17, <1>18, <1>19, <1>20, <1>21, <1>22, Zenon
     DEF PodStep, BootStep, FrameStep, FlushStep

\* Every step of a pod keeps the flushing pod the lock's owner.
LEMMA LockStep ==
    ASSUME TypeOK, LockInv, NEW p \in Pods, PodStep(p)
    PROVE  LockInv'
<1> DEFINE Goal == LockInv'
<1> USE DEF TypeOK, LockInv
<1>1. CASE Boot(p)
  BY <1>1, Zenon DEF Boot, redisVars, msgVars, localVars
<1>2. CASE ReadSnapshot(p)
  BY <1>2, Zenon DEF ReadSnapshot, redisVars, msgVars, localVars
<1>3. ASSUME NEW ok \in BOOLEAN,
             ReadSnapOffset(p, ok)
      PROVE  Goal
  BY <1>3, Zenon DEF ReadSnapOffset, Replayed, redisVars, msgVars, localVars
<1>4. CASE ReadCounter(p)
  BY <1>4, Zenon DEF ReadCounter, redisVars, msgVars, localVars
<1>5. CASE ReadLength(p)
  BY <1>5, Zenon DEF ReadLength, redisVars, msgVars, localVars
<1>6. ASSUME NEW ok \in BOOLEAN,
             ReadRange(p, ok)
      PROVE  Goal
  BY <1>6, Zenon DEF ReadRange, Replayed, redisVars, msgVars, localVars
<1>7. ASSUME NEW loaded \in BOOLEAN,
             BootReadFails(p, loaded)
      PROVE  Goal
  BY <1>7, Zenon DEF BootReadFails, redisVars, msgVars, localVars
<1>8. CASE Subscribe(p)
  BY <1>8, Zenon DEF Subscribe, redisVars, msgVars, localVars
<1>9. ASSUME NEW u \in Updates, NEW ok \in BOOLEAN,
             ClientUpdate(p, u, ok)
      PROVE  Goal
  BY <1>9, Zenon DEF ClientUpdate, Apply, redisVars, msgVars, localVars
<1>10. ASSUME NEW u \in Updates, NEW ok \in BOOLEAN,
             BrokerUpdate(p, u, ok)
      PROVE  Goal
  BY <1>10, Zenon DEF BrokerUpdate, Apply, redisVars, msgVars, localVars
<1>11. ASSUME NEW u \in Updates, NEW fromClient \in BOOLEAN,
             Enqueue(p, u, fromClient)
      PROVE  Goal
  BY <1>11, Zenon DEF Enqueue, redisVars, msgVars, localVars
<1>12. ASSUME NEW u \in Updates, NEW to \in SUBSET Pods,
             Publish(p, u, to)
      PROVE  Goal
  BY <1>12, Zenon DEF Publish, redisVars, msgVars, localVars
<1>13. ASSUME NEW u \in Updates,
             AppendUpdate(p, u)
      PROVE  Goal
  BY <1>13, Zenon DEF AppendUpdate, Disturb, redisVars, msgVars, localVars
<1>14. ASSUME NEW u \in Updates,
             AppendFails(p, u)
      PROVE  Goal
  BY <1>14, Zenon DEF AppendFails, redisVars, msgVars, localVars
<1>15. CASE FlushWon(p)
  BY <1>15, NoPodAssumption, Zenon DEF FlushWon, Acquire, redisVars, msgVars, localVars
<1>16. CASE FlushMissed(p)
  BY <1>16, Zenon DEF FlushMissed, redisVars, msgVars, localVars
<1>17. ASSUME NEW landed \in BOOLEAN, NEW back \in BOOLEAN, NEW released \in BOOLEAN,
             FlushDone(p, landed, back, released)
      PROVE  Goal
  BY <1>17, Zenon DEF FlushDone, redisVars, msgVars, localVars
<1>18. CASE EncodeState(p)
  BY <1>18, Zenon DEF EncodeState, redisVars, msgVars, localVars
<1>19. CASE CaptureOffset(p)
  BY <1>19, Zenon DEF CaptureOffset, redisVars, msgVars, localVars
<1>20. CASE WriteSnapshot(p)
  BY <1>20, Zenon DEF WriteSnapshot, Disturb, redisVars, msgVars, localVars
<1>21. CASE SnapshotFails(p)
  BY <1>21, Zenon DEF SnapshotFails, redisVars, msgVars, localVars
<1>22. CASE Crash(p)
  BY <1>22, Zenon DEF Crash, redisVars, msgVars, localVars
<1> QED
  BY <1>1, <1>2, <1>3, <1>4, <1>5, <1>6, <1>7, <1>8, <1>9, <1>10, <1>11, <1>12,
     <1>13, <1>14, <1>15, <1>16, <1>17, <1>18, <1>19, <1>20, <1>21, <1>22, Zenon
     DEF PodStep, BootStep, FrameStep, FlushStep

\* Every step of a pod keeps what an undisturbed pod has read.
LEMMA BootInvStep ==
    ASSUME TypeOK, WindowInv, BootInv, NEW p \in Pods, PodStep(p)
    PROVE  BootInv'
<1> DEFINE Goal == BootInv'
<1> USE DEF TypeOK, BootInv, Booting, Up
<1>1. CASE Boot(p)
  BY <1>1, Zenon DEF Boot, redisVars, msgVars, localVars
<1>2. CASE ReadSnapshot(p)
  BY <1>2, Zenon DEF ReadSnapshot, redisVars, msgVars, localVars
<1>3. ASSUME NEW ok \in BOOLEAN,
             ReadSnapOffset(p, ok)
      PROVE  Goal
  BY <1>3, Zenon DEF ReadSnapOffset, Replayed, redisVars, msgVars, localVars
<1>4. CASE ReadCounter(p)
  <2>1. counter <= offset[p] /\ offset[p] = snapOff => Elems(log) = {}
    <3>1. counter <= snapOff => Len(log) = 0
      BY LenProperties DEF WindowInv, LogWindow
    <3>2. Len(log) = 0 => DOMAIN log = {}
      BY LenProperties
    <3> QED BY <3>1, <3>2 DEF Elems
  <2>2. tail'[p].counter = counter
    BY <1>4, Zenon DEF ReadCounter
  <2>3. \A q \in Pods \ {p} : tail'[q] = tail[q] /\ phase'[q] = phase[q]
    BY <1>4, Zenon DEF ReadCounter
  <2>4. phase'[p] = IF counter <= offset[p] THEN "subscribe" ELSE "length"
    BY <1>4, Zenon DEF ReadCounter
  <2>5. phase[p] = "counter" /\ UNCHANGED <<log, counter, snapshot, snapOff, doc, state, offset, quiet>>
    BY <1>4, Zenon DEF ReadCounter, redisVars
  <2>6. Elems(log)' = Elems(log)
    BY <2>5 DEF Elems
  <2>7. ASSUME NEW q \in Pods, quiet'[q]
        PROVE  /\ phase'[q] = "offset" => state'[q] = snapshot'.doc
               /\ phase'[q] \in {"counter", "length", "range"}
                    => snapshot'.doc \subseteq doc'[q] /\ offset'[q] = snapOff'
               /\ phase'[q] \in {"length", "range"} => tail'[q].counter = counter'
               /\ phase'[q] = "range" => tail'[q].length = Len(log')
               /\ phase'[q] = "subscribe" /\ snapshot'.exists
                    => snapshot'.doc \cup Elems(log)' \subseteq doc'[q]
    <3>1. CASE q = p
      BY <2>1, <2>2, <2>4, <2>5, <2>6, <2>7, <3>1, Zenon
    <3>2. CASE q # p
      BY <2>3, <2>5, <2>6, <2>7, <3>2, Zenon
    <3> QED BY <3>1, <3>2
  <2> QED BY <2>7
<1>5. CASE ReadLength(p)
  BY <1>5 DEF ReadLength, redisVars, msgVars, localVars
<1>6. ASSUME NEW ok \in BOOLEAN,
             ReadRange(p, ok)
      PROVE  Goal
  <2>1. ASSUME quiet[p]
        PROVE  Elems(log) \subseteq LogTail(p)
    <3>1. offset[p] + Len(log) <= tail[p].counter /\ tail[p].length = Len(log)
      BY <1>6, <2>1, Zenon DEF ReadRange, WindowInv, LogWindow
    <3>2. RelativeStart(p) = 0
      <4>1. Len(log) \in Nat /\ tail[p].counter \in Nat /\ offset[p] \in Nat
        BY LenProperties, Zenon
      <4> QED BY <3>1, <4>1 DEF RelativeStart
    <3>3. \A j \in DOMAIN log : j > 0
      BY LenProperties
    <3> QED BY <3>2, <3>3 DEF Elems, LogTail
  <2>2. quiet'[p] => quiet[p] /\ doc'[p] = doc[p] \cup LogTail(p)
    BY <1>6, Zenon DEF ReadRange, Replayed
  <2>3. quiet'[p] => snapshot.doc \subseteq doc[p]
    BY <1>6, <2>2, Zenon DEF ReadRange
  <2>4. phase'[p] = "subscribe" /\ UNCHANGED <<log, counter, snapshot, snapOff, state, offset, tail>>
    BY <1>6, Zenon DEF ReadRange, redisVars, localVars
  <2>5. \A q \in Pods \ {p} : doc'[q] = doc[q] /\ phase'[q] = phase[q] /\ quiet'[q] = quiet[q]
    BY <1>6, Zenon DEF ReadRange, Replayed
  <2>6. Elems(log)' = Elems(log)
    BY <2>4 DEF Elems
  <2> QED BY <2>1, <2>2, <2>3, <2>4, <2>5, <2>6, Zenon
<1>7. ASSUME NEW loaded \in BOOLEAN,
             BootReadFails(p, loaded)
      PROVE  Goal
  BY <1>7 DEF BootReadFails, redisVars, msgVars, localVars
<1>8. CASE Subscribe(p)
  BY <1>8, Zenon DEF Subscribe, redisVars, msgVars, localVars
<1>9. ASSUME NEW u \in Updates, NEW ok \in BOOLEAN,
             ClientUpdate(p, u, ok)
      PROVE  Goal
  BY <1>9 DEF ClientUpdate, Apply, redisVars, msgVars, localVars
<1>10. ASSUME NEW u \in Updates, NEW ok \in BOOLEAN,
             BrokerUpdate(p, u, ok)
      PROVE  Goal
  BY <1>10 DEF BrokerUpdate, Apply, redisVars, msgVars, localVars
<1>11. ASSUME NEW u \in Updates, NEW fromClient \in BOOLEAN,
             Enqueue(p, u, fromClient)
      PROVE  Goal
  BY <1>11, Zenon DEF Enqueue, redisVars, msgVars, localVars
<1>12. ASSUME NEW u \in Updates, NEW to \in SUBSET Pods,
             Publish(p, u, to)
      PROVE  Goal
  BY <1>12, Zenon DEF Publish, redisVars, msgVars, localVars
<1>13. ASSUME NEW u \in Updates,
             AppendUpdate(p, u)
      PROVE  Goal
  BY <1>13, Zenon DEF AppendUpdate, Disturb, redisVars, msgVars, localVars
<1>14. ASSUME NEW u \in Updates,
             AppendFails(p, u)
      PROVE  Goal
  BY <1>14, Zenon DEF AppendFails, redisVars, msgVars, localVars
<1>15. CASE FlushWon(p)
  BY <1>15, Zenon DEF FlushWon, Acquire, redisVars, msgVars, localVars
<1>16. CASE FlushMissed(p)
  BY <1>16, Zenon DEF FlushMissed, redisVars, msgVars, localVars
<1>17. ASSUME NEW landed \in BOOLEAN, NEW back \in BOOLEAN, NEW released \in BOOLEAN,
             FlushDone(p, landed, back, released)
      PROVE  Goal
  BY <1>17, Zenon DEF FlushDone, redisVars, msgVars, localVars
<1>18. CASE EncodeState(p)
  BY <1>18, Zenon DEF EncodeState, redisVars, msgVars, localVars
<1>19. CASE CaptureOffset(p)
  BY <1>19, Zenon DEF CaptureOffset, redisVars, msgVars, localVars
<1>20. CASE WriteSnapshot(p)
  BY <1>20, Zenon DEF WriteSnapshot, Disturb, redisVars, msgVars, localVars
<1>21. CASE SnapshotFails(p)
  BY <1>21, Zenon DEF SnapshotFails, redisVars, msgVars, localVars
<1>22. CASE Crash(p)
  BY <1>22 DEF Crash, redisVars, msgVars, localVars
<1> HIDE DEF TypeOK, BootInv, Booting, Up
<1> QED
  BY <1>1, <1>2, <1>3, <1>4, <1>5, <1>6, <1>7, <1>8, <1>9, <1>10, <1>11, <1>12,
     <1>13, <1>14, <1>15, <1>16, <1>17, <1>18, <1>19, <1>20, <1>21, <1>22, Zenon
     DEF PodStep, BootStep, FrameStep, FlushStep

\* What adding a frame does to the updates of a set of frames.
LEMMA FirstOfUnion ==
    ASSUME NEW S, NEW u, NEW b
    PROVE  {h[1] : h \in S \cup {<<u, b>>}} = {h[1] : h \in S} \cup {u}
<1>1. <<u, b>>[1] = u
  BY Zenon
<1> QED BY <1>1, Zenon

\* With one pod, every step keeps its document covered.
LEMMA CoverStep ==
    ASSUME TypeOK, \A q, r \in Pods : q = r, CoverInv, NEW p \in Pods, PodStep(p)
    PROVE  CoverInv'
<1> DEFINE Goal == CoverInv'
<1> USE DEF TypeOK, CoverInv, Fresh, Handled, Booting, Up
<1>1. CASE Boot(p)
  BY <1>1, Zenon DEF Boot, redisVars, msgVars, localVars
<1>2. CASE ReadSnapshot(p)
  BY <1>2 DEF ReadSnapshot, redisVars, msgVars, localVars
<1>3. ASSUME NEW ok \in BOOLEAN,
             ReadSnapOffset(p, ok)
      PROVE  Goal
  BY <1>3 DEF ReadSnapOffset, Replayed, redisVars, msgVars, localVars
<1>4. CASE ReadCounter(p)
  BY <1>4 DEF ReadCounter, redisVars, msgVars, localVars
<1>5. CASE ReadLength(p)
  BY <1>5 DEF ReadLength, redisVars, msgVars, localVars
<1>6. ASSUME NEW ok \in BOOLEAN,
             ReadRange(p, ok)
      PROVE  Goal
  <2>1. LogTail(p) \subseteq Elems(log)
    BY DEF LogTail, Elems
  <2>2. doc'[p] \subseteq doc[p] \cup LogTail(p) /\ phase'[p] = "subscribe" /\ phase[p] = "range"
    BY <1>6, Zenon DEF ReadRange
  <2>3. UNCHANGED <<buf, handling, state, snapshot, log>>
    BY <1>6, Zenon DEF ReadRange, redisVars, localVars
  <2>4. Fresh(p)' = Fresh(p) /\ Elems(log)' = Elems(log)
    BY <2>3 DEF Elems
  <2> HIDE DEF Fresh, Handled
  <2> QED BY <2>1, <2>2, <2>3, <2>4
<1>7. ASSUME NEW loaded \in BOOLEAN,
             BootReadFails(p, loaded)
      PROVE  Goal
  BY <1>7 DEF BootReadFails, redisVars, msgVars, localVars
<1>8. CASE Subscribe(p)
  BY <1>8 DEF Subscribe, redisVars, msgVars, localVars
<1>9. ASSUME NEW u \in Updates, NEW ok \in BOOLEAN,
             ClientUpdate(p, u, ok)
      PROVE  Goal
  <2>1. Handled(p)' = Handled(p) \cup {u}
    <3>1. handling'[p] = handling[p] \cup {<<u, TRUE>>}
      BY <1>9, Zenon DEF ClientUpdate, Apply
    <3>2. {h[1] : h \in handling[p] \cup {<<u, TRUE>>}} = {h[1] : h \in handling[p]} \cup {u}
      BY FirstOfUnion, Zenon
    <3> QED BY <3>1, <3>2, Zenon DEF Handled
  <2>2. doc'[p] \subseteq doc[p] \cup {u} /\ buf' = buf
    BY <1>9, Zenon DEF ClientUpdate, Apply
  <2>3. Fresh(p)' = Fresh(p) \cup {u}
    BY <2>1, <2>2, Zenon DEF Fresh
  <2>4. UNCHANGED <<phase, state, snapshot, log, stale>>
    BY <1>9, Zenon DEF ClientUpdate, redisVars, localVars
  <2>5. Elems(log)' = Elems(log)
    BY <2>4 DEF Elems
  <2> HIDE DEF Fresh, Handled
  <2> QED BY <2>2, <2>3, <2>4, <2>5
<1>10. ASSUME NEW u \in Updates, NEW ok \in BOOLEAN,
             BrokerUpdate(p, u, ok)
      PROVE  Goal
  <2>1. Handled(p)' = Handled(p) \cup {u}
    <3>1. handling'[p] = handling[p] \cup {<<u, FALSE>>}
      BY <1>10, Zenon DEF BrokerUpdate, Apply
    <3>2. {h[1] : h \in handling[p] \cup {<<u, FALSE>>}} = {h[1] : h \in handling[p]} \cup {u}
      BY FirstOfUnion, Zenon
    <3> QED BY <3>1, <3>2, Zenon DEF Handled
  <2>2. doc'[p] \subseteq doc[p] \cup {u} /\ buf' = buf
    BY <1>10, Zenon DEF BrokerUpdate, Apply
  <2>3. Fresh(p)' = Fresh(p) \cup {u}
    BY <2>1, <2>2, Zenon DEF Fresh
  <2>4. UNCHANGED <<phase, state, snapshot, log, stale>>
    BY <1>10, Zenon DEF BrokerUpdate, redisVars, localVars
  <2>5. Elems(log)' = Elems(log)
    BY <2>4 DEF Elems
  <2> HIDE DEF Fresh, Handled
  <2> QED BY <2>2, <2>3, <2>4, <2>5
<1>11. ASSUME NEW u \in Updates, NEW fromClient \in BOOLEAN,
             Enqueue(p, u, fromClient)
      PROVE  Goal
  BY <1>11 DEF Enqueue, redisVars, msgVars, localVars
<1>12. ASSUME NEW u \in Updates, NEW to \in SUBSET Pods,
             Publish(p, u, to)
      PROVE  Goal
  BY <1>12, Zenon DEF Publish, redisVars, msgVars, localVars
<1>13. ASSUME NEW u \in Updates,
             AppendUpdate(p, u)
      PROVE  Goal
  <2>1. Elems(log) \subseteq Elems(log)'
    <3>1. log' = Append(log, u) /\ Len(log) \in Nat
      BY <1>13, LenProperties, Zenon DEF AppendUpdate
    <3>2. DOMAIN log = 1..Len(log) /\ DOMAIN log' = 1..(Len(log) + 1)
      BY <3>1, LenProperties, AppendProperties
    <3>3. \A i \in 1..Len(log) : log'[i] = log[i] /\ i \in 1..(Len(log) + 1)
      BY <3>1, AppendProperties
    <3> QED BY <3>2, <3>3 DEF Elems
  <2>2. UNCHANGED <<phase, doc, buf, handling, state, snapshot, stale>>
    BY <1>13, Zenon DEF AppendUpdate, localVars
  <2>3. Fresh(p)' = Fresh(p)
    BY <2>2, Zenon
  <2> HIDE DEF Fresh, Handled
  <2> QED BY <2>1, <2>2, <2>3
<1>14. ASSUME NEW u \in Updates,
             AppendFails(p, u)
      PROVE  Goal
  BY <1>14, Zenon DEF AppendFails, redisVars, msgVars, localVars
<1>15. CASE FlushWon(p)
  BY <1>15 DEF FlushWon, Acquire, redisVars, msgVars, localVars
<1>16. CASE FlushMissed(p)
  BY <1>16 DEF FlushMissed, redisVars, msgVars, localVars
<1>17. ASSUME NEW landed \in BOOLEAN, NEW back \in BOOLEAN, NEW released \in BOOLEAN,
             FlushDone(p, landed, back, released)
      PROVE  Goal
  BY <1>17 DEF FlushDone, redisVars, msgVars, localVars
<1>18. CASE EncodeState(p)
  BY <1>18 DEF EncodeState, redisVars, msgVars, localVars
<1>19. CASE CaptureOffset(p)
  BY <1>19, Zenon DEF CaptureOffset, redisVars, msgVars, localVars
<1>20. CASE WriteSnapshot(p)
  BY <1>20, Zenon DEF WriteSnapshot, Disturb, redisVars, msgVars, localVars
<1>21. CASE SnapshotFails(p)
  BY <1>21 DEF SnapshotFails, redisVars, msgVars, localVars
<1>22. CASE Crash(p)
  BY <1>22, Zenon DEF Crash, redisVars, msgVars, localVars
<1> HIDE DEF TypeOK, CoverInv, Fresh, Handled, Booting, Up
<1> QED
  BY <1>1, <1>2, <1>3, <1>4, <1>5, <1>6, <1>7, <1>8, <1>9, <1>10, <1>11, <1>12,
     <1>13, <1>14, <1>15, <1>16, <1>17, <1>18, <1>19, <1>20, <1>21, <1>22, Zenon
     DEF PodStep, BootStep, FrameStep, FlushStep

\* With one pod, every step keeps the snapshot in the document.
LEMMA GrowStep ==
    ASSUME TypeOK, \A q, r \in Pods : q = r, GrowInv, NEW p \in Pods, PodStep(p)
    PROVE  GrowInv'
<1> DEFINE Goal == GrowInv'
<1> USE DEF TypeOK, GrowInv, Booting, Up
<1>1. CASE Boot(p)
  BY <1>1, Zenon DEF Boot, redisVars, msgVars, localVars
<1>2. CASE ReadSnapshot(p)
  BY <1>2, Zenon DEF ReadSnapshot, redisVars, msgVars, localVars
<1>3. ASSUME NEW ok \in BOOLEAN,
             ReadSnapOffset(p, ok)
      PROVE  Goal
  BY <1>3, Zenon DEF ReadSnapOffset, Replayed, redisVars, msgVars, localVars
<1>4. CASE ReadCounter(p)
  BY <1>4, Zenon DEF ReadCounter, redisVars, msgVars, localVars
<1>5. CASE ReadLength(p)
  BY <1>5, Zenon DEF ReadLength, redisVars, msgVars, localVars
<1>6. ASSUME NEW ok \in BOOLEAN,
             ReadRange(p, ok)
      PROVE  Goal
  BY <1>6 DEF ReadRange, Replayed, redisVars, msgVars, localVars
<1>7. ASSUME NEW loaded \in BOOLEAN,
             BootReadFails(p, loaded)
      PROVE  Goal
  BY <1>7 DEF BootReadFails, redisVars, msgVars, localVars
<1>8. CASE Subscribe(p)
  BY <1>8, Zenon DEF Subscribe, redisVars, msgVars, localVars
<1>9. ASSUME NEW u \in Updates, NEW ok \in BOOLEAN,
             ClientUpdate(p, u, ok)
      PROVE  Goal
  BY <1>9, Zenon DEF ClientUpdate, Apply, redisVars, msgVars, localVars
<1>10. ASSUME NEW u \in Updates, NEW ok \in BOOLEAN,
             BrokerUpdate(p, u, ok)
      PROVE  Goal
  BY <1>10 DEF BrokerUpdate, Apply, redisVars, msgVars, localVars
<1>11. ASSUME NEW u \in Updates, NEW fromClient \in BOOLEAN,
             Enqueue(p, u, fromClient)
      PROVE  Goal
  BY <1>11, Zenon DEF Enqueue, redisVars, msgVars, localVars
<1>12. ASSUME NEW u \in Updates, NEW to \in SUBSET Pods,
             Publish(p, u, to)
      PROVE  Goal
  BY <1>12, Zenon DEF Publish, redisVars, msgVars, localVars
<1>13. ASSUME NEW u \in Updates,
             AppendUpdate(p, u)
      PROVE  Goal
  BY <1>13, Zenon DEF AppendUpdate, Disturb, redisVars, msgVars, localVars
<1>14. ASSUME NEW u \in Updates,
             AppendFails(p, u)
      PROVE  Goal
  BY <1>14, Zenon DEF AppendFails, redisVars, msgVars, localVars
<1>15. CASE FlushWon(p)
  BY <1>15 DEF FlushWon, Acquire, redisVars, msgVars, localVars
<1>16. CASE FlushMissed(p)
  BY <1>16 DEF FlushMissed, redisVars, msgVars, localVars
<1>17. ASSUME NEW landed \in BOOLEAN, NEW back \in BOOLEAN, NEW released \in BOOLEAN,
             FlushDone(p, landed, back, released)
      PROVE  Goal
  BY <1>17, Zenon DEF FlushDone, redisVars, msgVars, localVars
<1>18. CASE EncodeState(p)
  BY <1>18, Zenon DEF EncodeState, redisVars, msgVars, localVars
<1>19. CASE CaptureOffset(p)
  BY <1>19, Zenon DEF CaptureOffset, redisVars, msgVars, localVars
<1>20. CASE WriteSnapshot(p)
  BY <1>20, Zenon DEF WriteSnapshot, Disturb, redisVars, msgVars, localVars
<1>21. CASE SnapshotFails(p)
  BY <1>21, Zenon DEF SnapshotFails, redisVars, msgVars, localVars
<1>22. CASE Crash(p)
  BY <1>22 DEF Crash, redisVars, msgVars, localVars
<1> HIDE DEF TypeOK, GrowInv, Booting, Up
<1> QED
  BY <1>1, <1>2, <1>3, <1>4, <1>5, <1>6, <1>7, <1>8, <1>9, <1>10, <1>11, <1>12,
     <1>13, <1>14, <1>15, <1>16, <1>17, <1>18, <1>19, <1>20, <1>21, <1>22, Zenon
     DEF PodStep, BootStep, FrameStep, FlushStep

-----------------------------------------------------------------------------
(* The theorems.                                                           *)

\* The invariants that need neither one pod nor the absence of failures.
SharedInv == TypeOK /\ WindowInv /\ LockInv /\ BootInv

\* They hold in every reachable state.
LEMMA SharedInvCorrect == Spec => []SharedInv
<1>1. Init => SharedInv
  <2> SUFFICES ASSUME Init PROVE SharedInv
    BY Zenon
  <2>1. TypeOK
    BY InitTyped, Zenon
  <2>2. /\ log = <<>> /\ counter = 0 /\ snapOff = 0
        /\ \A p \in Pods : phase[p] = "down" /\ offset[p] = 0
    BY Zenon DEF Init
  <2>3. WindowInv
    <3>1. Len(<<>>) = 0
      BY Zenon
    <3> QED BY <2>2, <3>1 DEF WindowInv, LogWindow
  <2>4. LockInv /\ BootInv
    BY <2>2, Zenon DEF LockInv, BootInv
  <2> QED BY <2>1, <2>3, <2>4 DEF SharedInv
<1>2. SharedInv /\ [Next]_vars => SharedInv'
  <2> SUFFICES ASSUME SharedInv, [Next]_vars
               PROVE  SharedInv'
    BY Zenon
  <2>1. TypeOK /\ WindowInv /\ LockInv /\ BootInv
    BY Zenon DEF SharedInv
  <2>2. CASE UNCHANGED vars
    <3>1. TypeOK'
      BY <2>1, <2>2, Zenon DEF TypeOK, vars, redisVars, msgVars, localVars
    <3>2. UNCHANGED <<log, counter, snapshot, snapOff, lock, phase, doc, state, offset,
                      tail, quiet>>
      BY <2>2, Zenon DEF vars, redisVars, localVars
    <3>3. WindowInv' /\ LockInv'
      BY <2>1, <3>2, Zenon DEF WindowInv, LogWindow, LockInv
    <3>4. BootInv'
      BY <2>1, <3>2 DEF BootInv, Elems
    <3> QED BY <3>1, <3>3, <3>4 DEF SharedInv
  <2>3. CASE LockExpires
    <3>1. TypeOK'
      BY <2>1, <2>3, OtherTyped, Zenon
    <3>2. LockInv'
      BY <2>1, <2>3, Zenon DEF LockExpires, LockInv
    <3>3. WindowInv' /\ BootInv'
      <4>1. UNCHANGED <<log, counter, snapshot, snapOff, phase, doc, state, offset,
                        tail, quiet>>
        BY <2>3, Zenon DEF LockExpires, redisVars, localVars
      <4>2. WindowInv'
        BY <2>1, <4>1, Zenon DEF WindowInv, LogWindow
      <4>3. BootInv'
        BY <2>1, <4>1 DEF BootInv, Elems
      <4> QED BY <4>2, <4>3
    <3> QED BY <3>1, <3>2, <3>3 DEF SharedInv
  <2>4. ASSUME NEW p \in Pods, PodStep(p)
        PROVE  SharedInv'
    <3>1. TypeOK'
      BY <2>1, <2>4, BootTyped, FrameTyped, FlushTyped, OtherTyped, Zenon DEF PodStep
    <3> QED BY <2>1, <2>4, <3>1, WindowStep, LockStep, BootInvStep DEF SharedInv
  <2> QED BY <2>2, <2>3, <2>4 DEF Next, PodStep
<1> QED BY <1>1, <1>2, PTL DEF Spec

\* The entries of the log are among those appended after the snapshot's offset.
THEOREM LogWindowCorrect == Spec => []LogWindow
<1>1. SharedInv => LogWindow
  BY Zenon DEF SharedInv, WindowInv
<1> QED BY <1>1, SharedInvCorrect, PTL

\* No two pods flush the document at once.
THEOREM FlushExclusiveCorrect == Spec => []FlushExclusive
<1>1. SharedInv => FlushExclusive
  BY Zenon DEF SharedInv, LockInv, FlushExclusive
<1> QED BY <1>1, SharedInvCorrect, PTL

\* An undisturbed start from a snapshot misses nothing of Redis.
THEOREM QuietBootCorrect == Spec => []QuietBootComplete
<1>1. SharedInv => QuietBootComplete
  BY Zenon DEF SharedInv, BootInv, QuietBootComplete
<1> QED BY <1>1, SharedInvCorrect, PTL

\* With one pod, and any failures and crashes, nothing of the document is
\* forgotten between two flushes.
THEOREM NotForgottenCorrect ==
    ASSUME \A q, r \in Pods : q = r
    PROVE  Spec => []NotForgotten
<1>1. Init => CoverInv
  BY Zenon DEF Init, CoverInv, Fresh, Handled
<1>2. TypeOK /\ CoverInv /\ [Next]_vars => CoverInv'
  <2> SUFFICES ASSUME TypeOK, CoverInv, [Next]_vars
               PROVE  CoverInv'
    BY Zenon
  <2>0. UNCHANGED <<phase, doc, buf, handling, state, snapshot, log, stale>> => CoverInv'
    <3> SUFFICES ASSUME UNCHANGED <<phase, doc, buf, handling, state, snapshot, log, stale>>
                 PROVE  CoverInv'
      BY Zenon
    <3>1. Elems(log)' = Elems(log) /\ \A p \in Pods : Fresh(p)' = Fresh(p)
      BY Zenon DEF Elems, Fresh, Handled
    <3> QED BY <3>1 DEF CoverInv
  <2>1. CASE UNCHANGED vars
    BY <2>0, <2>1, Zenon DEF vars, redisVars, localVars
  <2>2. CASE LockExpires
    BY <2>0, <2>2, Zenon DEF LockExpires, redisVars, localVars
  <2>3. ASSUME NEW p \in Pods, PodStep(p)
        PROVE  CoverInv'
    BY <2>3, CoverStep, Zenon
  <2> QED BY <2>1, <2>2, <2>3 DEF Next, PodStep
<1>3. CoverInv => NotForgotten
  BY Zenon DEF CoverInv, NotForgotten, Fresh
<1> QED BY <1>1, <1>2, <1>3, TypeCorrect, PTL DEF Spec

\* With one pod, no snapshot loses what an earlier one had unless a read or write
\* of the snapshot failed, however often the pod crashes.
THEOREM SnapshotGrowsCorrect ==
    ASSUME \A q, r \in Pods : q = r
    PROVE  Spec => SnapshotGrows
<1>1. Init => GrowInv
  BY DEF Init, GrowInv, NoSnapshot, Up
<1>2. TypeOK /\ GrowInv /\ [Next]_vars => GrowInv'
  <2> SUFFICES ASSUME TypeOK, GrowInv, [Next]_vars
               PROVE  GrowInv'
    BY Zenon
  <2>1. CASE UNCHANGED vars
    BY <2>1, Zenon DEF GrowInv, vars, redisVars, localVars
  <2>2. CASE LockExpires
    BY <2>2, Zenon DEF LockExpires, GrowInv, redisVars, localVars
  <2>3. ASSUME NEW p \in Pods, PodStep(p)
        PROVE  GrowInv'
    BY <2>3, GrowStep, Zenon
  <2> QED BY <2>1, <2>2, <2>3 DEF Next, PodStep
<1>3. GrowInv /\ [Next]_vars
        => [\A p \in Pods : WriteSnapshot(p) /\ ~stale[p]
               => snapshot.doc \subseteq snapshot'.doc]_snapshot
  BY DEF GrowInv, WriteSnapshot
<1> QED BY <1>1, <1>2, <1>3, TypeCorrect, PTL DEF Spec, SnapshotGrows

=============================================================================
