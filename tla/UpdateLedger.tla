---------------------------- MODULE UpdateLedger ----------------------------
(***************************************************************************)
(* What the persistence path of a room promises, with no buffer, goroutine *)
(* or retry in sight: an update that was received is held until it is      *)
(* acknowledged by the provider or given up on, and is never taken up      *)
(* again.  RelayFlush implements this specification.                       *)
(***************************************************************************)

CONSTANTS Rooms, Updates

VARIABLES
    received,       \* updates that entered the room
    held,           \* updates the relay answers for
    stored,         \* updates in the provider
    acked,          \* updates the provider said it stored
    lost            \* updates given up on

vars == <<received, held, stored, acked, lost>>

Init ==
    /\ received = [r \in Rooms |-> {}]
    /\ held = [r \in Rooms |-> {}]
    /\ stored = [r \in Rooms |-> {}]
    /\ acked = [r \in Rooms |-> {}]
    /\ lost = [r \in Rooms |-> {}]

Receive(r, u) ==
    /\ u \notin received[r]
    /\ received' = [received EXCEPT ![r] = @ \cup {u}]
    /\ held' = [held EXCEPT ![r] = @ \cup {u}]
    /\ UNCHANGED <<stored, acked, lost>>

\* The provider stores some of what it was sent and says nothing.
Land(r, S) ==
    /\ S \subseteq held[r]
    /\ stored' = [stored EXCEPT ![r] = @ \cup S]
    /\ UNCHANGED <<received, held, acked, lost>>

\* The provider stores some of what it was sent and says so.
Acknowledge(r, S) ==
    /\ S \subseteq held[r]
    /\ stored' = [stored EXCEPT ![r] = @ \cup S]
    /\ acked' = [acked EXCEPT ![r] = @ \cup S]
    /\ held' = [held EXCEPT ![r] = @ \ S]
    /\ UNCHANGED <<received, lost>>

GiveUp(r, S) ==
    /\ S \subseteq held[r]
    /\ lost' = [lost EXCEPT ![r] = @ \cup S]
    /\ held' = [held EXCEPT ![r] = @ \ S]
    /\ UNCHANGED <<received, stored, acked>>

Next ==
    \E r \in Rooms :
      \/ \E u \in Updates : Receive(r, u)
      \/ \E S \in SUBSET held[r] : Land(r, S) \/ Acknowledge(r, S) \/ GiveUp(r, S)

Spec == Init /\ [][Next]_vars
=============================================================================
