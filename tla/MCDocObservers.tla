---- MODULE MCDocObservers ----
(* Instance of DocObservers for TLC: one user on two clients. *)
EXTENDS DocObservers

SmallUserOf == [c \in Clients |-> "ann"]
====
