---- MODULE Arrays ----
(***************************************************************************)
(* The operations on arrays that the other modules use, under the names    *)
(* they have in the library module SequencesExt.  That one is not extended *)
(* because it puts Bags, and with it all theorems on sequences and finite  *)
(* sets, among the hypotheses of every proof obligation.                   *)
(***************************************************************************)
EXTENDS Integers, Sequences

\* The elements of s.
ToSet(s) == {s[i] : i \in DOMAIN s}

Contains(s, e) == \E i \in 1 .. Len(s) : s[i] = e

Last(s) == s[Len(s)]

InsertAt(s, i, e) == SubSeq(s, 1, i - 1) \o <<e>> \o SubSeq(s, i, Len(s))

RemoveAt(s, i) == SubSeq(s, 1, i - 1) \o SubSeq(s, i + 1, Len(s))

\* s without the first e in it.
RemoveFirst(s, e) ==
    LET First(i) == s[i] = e /\ \A j \in 1 .. i - 1 : s[j] # e
    IN  IF Contains(s, e) THEN RemoveAt(s, CHOOSE i \in 1 .. Len(s) : First(i)) ELSE s

\* reduce: op applied to the elements from left to right.
FoldLeft(op(_, _), base, s) ==
    LET fold[i \in 0 .. Len(s)] == IF i = 0 THEN base ELSE op(fold[i - 1], s[i])
    IN  fold[Len(s)]

\* flat: the sequences of ss one after the other.
FlattenSeq(ss) == FoldLeft(LAMBDA s, t : s \o t, <<>>, ss)

====
