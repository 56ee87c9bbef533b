---------------------------- MODULE SurfaceProofs ----------------------------
(***************************************************************************)
(* Theorems about what the user sees of a document.  The two-surface       *)
(* editor, for any blocks and texts of any length: applyStringDiff         *)
(* computes the text it is given, and the surfaces and the user's typing   *)
(* stay with the shared text through every order of edits, write-backs,    *)
(* switches, rebinds and unmounts.  The renderers, for any texts, edits    *)
(* and themes: the preview and the diagrams on display are those of the    *)
(* present text, in whatever order the renders come back.                  *)
(***************************************************************************)
EXTENDS EditorBinding, Rendering, WellFoundedInduction, SequenceTheorems, TLAPS

----
(***************************************************************************)
(* The string diff.                                                        *)
(***************************************************************************)

\* A set of natural numbers has a least element.
LEMMA LeastElement ==
    ASSUME NEW D \in SUBSET Nat, D # {}
    PROVE  \E n \in D : \A k \in D : n <= k
<1> DEFINE R == OpToRel(<, Nat)
<1>1. \A k, n \in Nat : k < n => <<k, n>> \in R
  BY Zenon DEF OpToRel
<1>2. IsWellFoundedOn(R, Nat)
  BY NatLessThanWellFounded, Zenon
<1> HIDE DEF R
<1>3. PICK n \in D : \A k \in D : ~(<<k, n>> \in R)
  BY <1>2, WFMin, Zenon
<1>4. ASSUME NEW k \in D PROVE n <= k
  <2>1. k \in Nat /\ n \in Nat /\ ~(<<k, n>> \in R)
    BY <1>3, Zenon
  <2>2. ~(k < n)
    BY <1>1, <2>1, Zenon
  <2> QED
    BY <2>1, <2>2
<1> QED
  BY <1>4, Zenon

LEMMA MinOfTwo == \A m, n \in Nat : Min({m, n}) = IF m <= n THEN m ELSE n
<1> SUFFICES ASSUME NEW m \in Nat, NEW n \in Nat PROVE Min({m, n}) = IF m <= n THEN m ELSE n
  BY Zenon
<1> DEFINE k == IF m <= n THEN m ELSE n
<1>1. k \in {m, n} /\ \A y \in {m, n} : k =< y
  OBVIOUS
<1>2. \A x \in {m, n} : (\A y \in {m, n} : x =< y) => x = k
  OBVIOUS
<1> QED
  BY <1>1, <1>2, Zenon DEF Min

\* The loop that looks for the first difference finds it or the end.
LEMMA PrefixFacts ==
    ASSUME NEW S, NEW old \in Seq(S), NEW new \in Seq(S)
    PROVE  /\ PrefixLen(old, new) \in 0 .. Min({Len(old), Len(new)})
           /\ \A i \in 1 .. PrefixLen(old, new) : old[i] = new[i]
<1> DEFINE m == Min({Len(old), Len(new)})
           P(n) == /\ \A i \in 1 .. n : old[i] = new[i]
                   /\ n = m \/ old[n + 1] # new[n + 1]
           D == {n \in 0 .. m : n = m \/ old[n + 1] # new[n + 1]}
<1>1. m \in Nat
  BY MinOfTwo
<1> HIDE DEF m
<1>2. D \in SUBSET Nat /\ D # {}
  <2>1. m \in D
    BY <1>1
  <2> QED
    BY <2>1
<1>3. PICK n \in D : \A k \in D : n <= k
  BY <1>2, LeastElement, Zenon
<1>4. \A i \in 1 .. n : old[i] = new[i]
  <2> SUFFICES ASSUME NEW i \in 1 .. n PROVE old[i] = new[i]
    BY Zenon
  <2>1. n \in 0 .. m
    BY <1>3, Zenon
  <2>2. i - 1 \in 0 .. m /\ ~(n <= i - 1) /\ (i - 1) + 1 = i
    BY <1>1, <2>1
  <2>3. i - 1 \notin D
    <3> HIDE DEF D
    <3> QED
      BY <1>3, <2>2, Zenon
  <2> QED
    BY <2>2, <2>3, Zenon
<1>5. \E k \in 0 .. m : P(k)
  BY <1>3, <1>4, Zenon
<1>6. PrefixLen(old, new) = CHOOSE k \in 0 .. m : P(k)
  BY Zenon DEF PrefixLen, m
<1> QED
  BY <1>5, <1>6, Zenon DEF m

\* The loop from the end stops before the common prefix.
LEMMA SuffixFacts ==
    ASSUME NEW S, NEW old \in Seq(S), NEW new \in Seq(S),
           NEW prefix \in 0 .. Min({Len(old), Len(new)})
    PROVE  /\ SuffixLen(old, new, prefix) \in 0 .. Min({Len(old), Len(new)}) - prefix
           /\ \A i \in 0 .. SuffixLen(old, new, prefix) - 1 : old[Len(old) - i] = new[Len(new) - i]
<1> DEFINE m == Min({Len(old), Len(new)}) - prefix
           P(n) == /\ \A i \in 0 .. n - 1 : old[Len(old) - i] = new[Len(new) - i]
                   /\ n = m \/ old[Len(old) - n] # new[Len(new) - n]
           D == {n \in 0 .. m : n = m \/ old[Len(old) - n] # new[Len(new) - n]}
<1>1. m \in Nat
  BY MinOfTwo
<1> HIDE DEF m
<1>2. D \in SUBSET Nat /\ D # {}
  <2>1. m \in D
    BY <1>1
  <2> QED
    BY <2>1
<1>3. PICK n \in D : \A k \in D : n <= k
  BY <1>2, LeastElement, Zenon
<1>4. \A i \in 0 .. n - 1 : old[Len(old) - i] = new[Len(new) - i]
  <2> SUFFICES ASSUME NEW i \in 0 .. n - 1 PROVE old[Len(old) - i] = new[Len(new) - i]
    BY Zenon
  <2>1. n \in 0 .. m
    BY <1>3, Zenon
  <2>2. i \in 0 .. m /\ ~(n <= i)
    BY <1>1, <2>1
  <2>3. i \notin D
    <3> HIDE DEF D
    <3> QED
      BY <1>3, <2>2, Zenon
  <2> QED
    BY <2>2, <2>3, Zenon
<1>5. \E k \in 0 .. m : P(k)
  BY <1>3, <1>4, Zenon
<1>6. SuffixLen(old, new, prefix) = CHOOSE k \in 0 .. m : P(k)
  BY Zenon DEF SuffixLen, m
<1> QED
  BY <1>5, <1>6, Zenon DEF m

\* applyStringDiff turns every text into every other: keeping the common ends
\* and replacing the middle loses and doubles nothing, overlapping repetitions
\* included.
THEOREM ApplyStringDiffCorrect ==
    ASSUME NEW S, NEW old \in Seq(S), NEW new \in Seq(S)
    PROVE  ApplyStringDiff(old, new) = new
<1> DEFINE prefix == PrefixLen(old, new)
           suffix == SuffixLen(old, new, prefix)
           a == SubSeq(old, 1, prefix)
           b == SubSeq(new, prefix + 1, Len(new) - suffix)
           c == SubSeq(old, Len(old) - suffix + 1, Len(old))
<1>1. /\ prefix \in 0 .. Min({Len(old), Len(new)})
      /\ \A i \in 1 .. prefix : old[i] = new[i]
  BY PrefixFacts, Zenon
<1>2. /\ suffix \in 0 .. Min({Len(old), Len(new)}) - prefix
      /\ \A i \in 0 .. suffix - 1 : old[Len(old) - i] = new[Len(new) - i]
  BY <1>1, SuffixFacts
<1>3. ApplyStringDiff(old, new) = a \o b \o c
  BY Zenon DEF ApplyStringDiff
<1> HIDE DEF prefix, suffix
<1>4. /\ Len(old) \in Nat /\ Len(new) \in Nat /\ prefix \in Nat /\ suffix \in Nat
      /\ prefix + suffix <= Len(old) /\ prefix + suffix <= Len(new)
  <2> DEFINE m == Min({Len(old), Len(new)})
  <2>1. Len(old) \in Nat /\ Len(new) \in Nat
    OBVIOUS
  <2>2. m \in Nat /\ m <= Len(old) /\ m <= Len(new)
    BY <2>1, MinOfTwo
  <2>3. prefix \in 0 .. m /\ suffix \in 0 .. m - prefix
    BY <1>1, <1>2, Zenon
  <2> HIDE DEF m
  <2> QED
    BY <2>1, <2>2, <2>3
<1>5. /\ a \in Seq(S) /\ Len(a) = prefix
      /\ \A i \in 1 .. prefix : a[i] = old[i]
  BY <1>4
<1>6. /\ b \in Seq(S) /\ Len(b) = Len(new) - suffix - prefix
      /\ \A i \in 1 .. Len(new) - suffix - prefix : b[i] = new[i + prefix]
  BY <1>4, SMTT(30)
<1>7. /\ c \in Seq(S) /\ Len(c) = suffix
      /\ \A i \in 1 .. suffix : c[i] = old[Len(old) - suffix + i]
  BY <1>4
<1> HIDE DEF a, b, c
<1> DEFINE ab == a \o b
           abc == ab \o c
<1>8. /\ ab \in Seq(S) /\ Len(ab) = Len(new) - suffix
      /\ \A i \in 1 .. Len(new) - suffix : ab[i] = IF i <= prefix THEN a[i] ELSE b[i - prefix]
  BY <1>4, <1>5, <1>6
<1> HIDE DEF ab
<1>9. /\ abc \in Seq(S) /\ Len(abc) = Len(new)
      /\ \A i \in 1 .. Len(new) :
            abc[i] = IF i <= Len(new) - suffix THEN ab[i] ELSE c[i - (Len(new) - suffix)]
  <2>1. /\ ab \in Seq(S) /\ Len(ab) = Len(new) - suffix
        /\ c \in Seq(S) /\ Len(c) = suffix
    BY <1>7, <1>8, Zenon
  <2>2. /\ abc \in Seq(S) /\ Len(abc) = Len(ab) + Len(c)
        /\ \A i \in 1 .. Len(ab) + Len(c) :
              abc[i] = IF i <= Len(ab) THEN ab[i] ELSE c[i - Len(ab)]
    BY <2>1, ConcatProperties, Zenon
  <2> HIDE DEF abc
  <2>3. Len(ab) + Len(c) = Len(new)
    BY <1>4, <2>1
  <2> QED
    BY <2>1, <2>2, <2>3, Zenon
<1> HIDE DEF abc
<1>10. ASSUME NEW i \in 1 .. Len(new) PROVE abc[i] = new[i]
  <2>1. CASE i <= prefix
    <3>1. abc[i] = a[i] /\ i \in 1 .. prefix
      BY <1>4, <1>8, <1>9, <2>1
    <3> QED
      BY <1>1, <1>5, <3>1, Zenon
  <2>2. CASE prefix < i /\ i <= Len(new) - suffix
    <3>1. abc[i] = b[i - prefix] /\ i - prefix \in 1 .. Len(new) - suffix - prefix
      BY <1>4, <1>8, <1>9, <2>2
    <3>2. b[i - prefix] = new[(i - prefix) + prefix]
      BY <1>6, <3>1, Zenon
    <3> QED
      BY <1>4, <3>1, <3>2
  <2>3. CASE Len(new) - suffix < i
    <3> DEFINE j == Len(new) - i
    <3>1. abc[i] = c[i - (Len(new) - suffix)] /\ i - (Len(new) - suffix) \in 1 .. suffix
      BY <1>4, <1>9, <2>3
    <3>2. abc[i] = old[Len(old) - suffix + (i - (Len(new) - suffix))]
      BY <1>7, <3>1, Zenon
    <3>3. /\ Len(old) - suffix + (i - (Len(new) - suffix)) = Len(old) - j
          /\ j \in 0 .. suffix - 1 /\ Len(new) - j = i
      BY <1>4, <2>3
    <3>4. old[Len(old) - j] = new[Len(new) - j]
      BY <1>2, <3>3, Zenon
    <3> QED
      BY <3>2, <3>3, <3>4, Zenon
  <2> QED
    BY <1>4, <2>1, <2>2, <2>3
<1>11. abc = new
  BY <1>9, <1>10
<1> QED
  BY <1>3, <1>11, Zenon DEF abc, ab

----
(***************************************************************************)
(* Blocks of a text.                                                       *)
(***************************************************************************)

LEMMA ConcatBlocks ==
    ASSUME NEW S, NEW s \in Seq(S), NEW t \in Seq(S)
    PROVE  s \o t \in Seq(S) /\ ToSet(s \o t) = ToSet(s) \cup ToSet(t)
<1>1. ToSet(s) = Range(s) /\ ToSet(t) = Range(t) /\ ToSet(s \o t) = Range(s \o t)
  BY Zenon DEF ToSet, Range
<1> QED
  BY <1>1, ConcatProperties, RangeConcatenation

\* A text cut before and after its i-th block.
LEMMA CutBlocks ==
    ASSUME NEW S, NEW s \in Seq(S), NEW i \in 1 .. Len(s) + 1, NEW j \in {i, i + 1}, j <= Len(s) + 1
    PROVE  LET a == SubSeq(s, 1, i - 1)
               b == SubSeq(s, j, Len(s))
           IN  /\ a \in Seq(S) /\ b \in Seq(S)
               /\ ToSet(a) \cup ToSet(b) \subseteq ToSet(s)
               /\ ToSet(s) \subseteq ToSet(a) \cup ToSet(b) \cup {s[k] : k \in i .. j - 1}
<1> DEFINE a == SubSeq(s, 1, i - 1)
           b == SubSeq(s, j, Len(s))
<1>1. /\ a \in Seq(S) /\ Len(a) = i - 1
      /\ \A k \in 1 .. i - 1 : a[k] = s[k]
  OBVIOUS
<1>2. /\ b \in Seq(S) /\ Len(b) = Len(s) - j + 1
      /\ \A k \in 1 .. Len(s) - j + 1 : b[k] = s[k + (j - 1)]
  OBVIOUS
<1> HIDE DEF a, b
<1>3. ASSUME NEW e \in ToSet(a) PROVE e \in ToSet(s)
  <2>1. PICK k \in 1 .. i - 1 : a[k] = e
    BY <1>1 DEF ToSet
  <2>2. k \in DOMAIN s /\ s[k] = e
    BY <1>1, <2>1
  <2> QED
    BY <2>2, Zenon DEF ToSet
<1>4. ASSUME NEW e \in ToSet(b) PROVE e \in ToSet(s)
  <2>1. PICK k \in 1 .. Len(s) - j + 1 : b[k] = e
    BY <1>2 DEF ToSet
  <2>2. k + (j - 1) \in DOMAIN s /\ s[k + (j - 1)] = e
    BY <1>2, <2>1
  <2> QED
    BY <2>2, Zenon DEF ToSet
<1>5. ASSUME NEW e \in ToSet(s)
      PROVE  e \in ToSet(a) \cup ToSet(b) \cup {s[k] : k \in i .. j - 1}
  <2>1. PICK k \in 1 .. Len(s) : s[k] = e
    BY DEF ToSet
  <2>2. CASE k < i
    <3>1. k \in DOMAIN a /\ a[k] = e
      BY <1>1, <2>1, <2>2
    <3> QED
      BY <3>1, Zenon DEF ToSet
  <2>3. CASE k \in i .. j - 1
    BY <2>1, <2>3, Zenon
  <2>4. CASE k >= j
    <3>1. Len(s) \in Nat /\ j \in Int /\ k \in Int /\ j <= k /\ k <= Len(s)
      BY <2>4
    <3>2. k - (j - 1) \in 1 .. Len(s) - j + 1 /\ (k - (j - 1)) + (j - 1) = k
      BY <3>1
    <3>3. b[k - (j - 1)] = e
      BY <1>2, <2>1, <3>2, Zenon
    <3>4. k - (j - 1) \in DOMAIN b
      BY <1>2, <3>2
    <3> QED
      BY <3>3, <3>4, Zenon DEF ToSet
  <2> QED
    BY <2>1, <2>2, <2>3, <2>4
<1> QED
  BY <1>1, <1>2, <1>3, <1>4, <1>5, Zenon DEF a, b

LEMMA InsertBlocks ==
    ASSUME NEW S, NEW s \in Seq(S), NEW i \in 1 .. Len(s) + 1, NEW e \in S
    PROVE  InsertAt(s, i, e) \in Seq(S) /\ ToSet(InsertAt(s, i, e)) = ToSet(s) \cup {e}
<1> DEFINE a == SubSeq(s, 1, i - 1)
           b == SubSeq(s, i, Len(s))
<1>1. /\ a \in Seq(S) /\ b \in Seq(S)
      /\ ToSet(a) \cup ToSet(b) \subseteq ToSet(s)
      /\ ToSet(s) \subseteq ToSet(a) \cup ToSet(b) \cup {s[k] : k \in i .. i - 1}
  BY CutBlocks, SMTT(30)
<1>2. {s[k] : k \in i .. i - 1} = {}
  OBVIOUS
<1> DEFINE c == <<e>>
           d == a \o c
<1>3. c \in Seq(S) /\ ToSet(c) = {e}
  <2>1. c \in Seq(S) /\ DOMAIN c = {1} /\ c[1] = e
    OBVIOUS
  <2> QED
    BY <2>1, Zenon DEF ToSet
<1> HIDE DEF a, b, c
<1>4. d \in Seq(S) /\ ToSet(d) = ToSet(a) \cup {e}
  BY <1>1, <1>3, ConcatBlocks
<1> HIDE DEF d
<1>5. d \o b \in Seq(S) /\ ToSet(d \o b) = ToSet(d) \cup ToSet(b)
  BY <1>1, <1>4, ConcatBlocks
<1>6. InsertAt(s, i, e) = d \o b
  BY Zenon DEF InsertAt, a, b, c, d
<1> QED
  BY <1>1, <1>2, <1>4, <1>5, <1>6, Zenon

LEMMA RemoveBlocks ==
    ASSUME NEW S, NEW s \in Seq(S), NEW i \in 1 .. Len(s)
    PROVE  /\ RemoveAt(s, i) \in Seq(S)
           /\ ToSet(RemoveAt(s, i)) \subseteq ToSet(s)
           /\ ToSet(s) \subseteq ToSet(RemoveAt(s, i)) \cup {s[i]}
<1> DEFINE a == SubSeq(s, 1, i - 1)
           b == SubSeq(s, i + 1, Len(s))
<1>1. /\ a \in Seq(S) /\ b \in Seq(S)
      /\ ToSet(a) \cup ToSet(b) \subseteq ToSet(s)
      /\ ToSet(s) \subseteq ToSet(a) \cup ToSet(b) \cup {s[k] : k \in i .. (i + 1) - 1}
  BY CutBlocks
<1>2. {s[k] : k \in i .. (i + 1) - 1} = {s[i]}
  OBVIOUS
<1> HIDE DEF a, b
<1>3. a \o b \in Seq(S) /\ ToSet(a \o b) = ToSet(a) \cup ToSet(b)
  BY <1>1, ConcatBlocks
<1>4. RemoveAt(s, i) = a \o b
  BY Zenon DEF RemoveAt, a, b
<1> QED
  BY <1>1, <1>2, <1>3, <1>4, Zenon

\* Another block in the place of one.
LEMMA ReplaceBlocks ==
    ASSUME NEW S, NEW s \in Seq(S), NEW i \in 1 .. Len(s), NEW e \in S
    PROVE  /\ [s EXCEPT ![i] = e] \in Seq(S)
           /\ ToSet(s) \ {s[i]} \subseteq ToSet([s EXCEPT ![i] = e])
           /\ e \in ToSet([s EXCEPT ![i] = e])
<1> DEFINE t == [s EXCEPT ![i] = e]
<1>1. t \in Seq(S) /\ DOMAIN t = DOMAIN s /\ t[i] = e /\ \A k \in DOMAIN s : k # i => t[k] = s[k]
  OBVIOUS
<1> HIDE DEF t
<1>2. e \in ToSet(t)
  BY <1>1 DEF ToSet
<1>3. ToSet(s) \ {s[i]} \subseteq ToSet(t)
  BY <1>1, Zenon DEF ToSet
<1> QED
  BY <1>1, <1>2, <1>3, Zenon DEF t

Blocks == [name : Names, raw : BOOLEAN]

\* Parsing what Tiptap serialized gives back its document.
LEMMA NamesFacts ==
    /\ \A text \in Seq(Blocks) : NamesOf(text) \in Seq(Names)
    /\ \A t \in Seq(Names) : Serialized(t) \in Seq(Blocks) /\ NamesOf(Serialized(t)) = t
    /\ ToSet(NamesOf(<<>>)) = {}
<1>1. ASSUME NEW text \in Seq(Blocks) PROVE NamesOf(text) \in Seq(Names)
  <2>1. \A i \in 1 .. Len(text) : text[i].name \in Names
    <3>1. \A i \in 1 .. Len(text) : text[i] \in Blocks
      OBVIOUS
    <3>2. \A b \in Blocks : b.name \in Names
      BY Zenon DEF Blocks
    <3> QED
      BY <3>1, <3>2, Zenon
  <2>2. Len(text) \in Nat /\ DOMAIN text = 1 .. Len(text)
    OBVIOUS
  <2>3. NamesOf(text) \in [1 .. Len(text) -> Names]
    BY <2>1, <2>2, Zenon DEF NamesOf
  <2> QED
    BY <2>2, <2>3, SeqDef, Zenon
<1>2. ASSUME NEW t \in Seq(Names)
      PROVE  Serialized(t) \in Seq(Blocks) /\ NamesOf(Serialized(t)) = t
  <2>1. \A i \in 1 .. Len(t) : Block(t[i], FALSE) \in Blocks /\ Block(t[i], FALSE).name = t[i]
    BY DEF Blocks, Block
  <2>2. Len(t) \in Nat /\ DOMAIN t = 1 .. Len(t)
    OBVIOUS
  <2>3. Serialized(t) = [i \in 1 .. Len(t) |-> Block(t[i], FALSE)]
    BY <2>2, Zenon DEF Serialized
  <2>4. Serialized(t) \in [1 .. Len(t) -> Blocks]
    BY <2>1, <2>3, Zenon
  <2>5. Serialized(t) \in Seq(Blocks)
    BY <2>2, <2>4, SeqDef, Zenon
  <2>6. \A i \in 1 .. Len(t) : Serialized(t)[i].name = t[i]
    BY <2>1, <2>3, Zenon
  <2>7. NamesOf(Serialized(t)) = [i \in 1 .. Len(t) |-> t[i]]
    BY <2>4, <2>6, Zenon DEF NamesOf
  <2>8. t = [i \in 1 .. Len(t) |-> t[i]]
    BY <2>2
  <2> QED
    BY <2>5, <2>7, <2>8, Zenon
<1>3. ToSet(NamesOf(<<>>)) = {}
  BY DEF ToSet, NamesOf
<1> QED
  BY <1>1, <1>2, <1>3, Zenon

----
(***************************************************************************)
(* The invariant.                                                          *)
(***************************************************************************)

Shapes ==
    /\ ytext \in Seq(Blocks)
    /\ tiptap \in Seq(Names)
    /\ mode \in {"wysiwyg", "source"}

\* The visible WYSIWYG editor has the user's blocks that the shared text has, so
\* that writing it back takes none of them away.
ShownKept ==
    mounted /\ mode = "wysiwyg"
        => typed \cap ToSet(NamesOf(ytext)) \subseteq ToSet(tiptap) \cup lost

BindingInv == Shapes /\ NoEcho /\ SurfacesAgree /\ TypingKept /\ ShownKept

LEMMA BindingInit == Init => BindingInv
<1> SUFFICES ASSUME Init PROVE BindingInv
  BY Zenon
<1>1. ytext \in Seq(Blocks)
  <2>1. CASE ytext = <<>>
    BY <2>1
  <2>2. ASSUME NEW n \in Theirs \cup {Diagram}, NEW raw \in BOOLEAN, ytext = <<Block(n, raw)>>
        PROVE  ytext \in Seq(Blocks)
    <3>1. Block(n, raw) \in Blocks
      BY Zenon DEF Block, Blocks, Names
    <3> QED
      BY <2>2, <3>1
  <2> QED
    BY <2>1, <2>2 DEF Init
<1>2. Shapes
  BY <1>1, NamesFacts DEF Init, Shapes
<1>3. NoEcho /\ SurfacesAgree
  BY Zenon DEF Init, NoEcho, SurfacesAgree
<1>4. TypingKept /\ ShownKept
  BY Zenon DEF Init, TypingKept, ShownKept
<1> QED
  BY <1>2, <1>3, <1>4, Zenon DEF BindingInv

\* Y.Text has changed or is shown again, and is applied to Tiptap.
LEMMA Applied ==
    ASSUME BindingInv, NEW text \in Seq(Blocks), mounted, mounted' = mounted,
           ytext' = text, codemirror' = text, typed' = StillTyped(text),
           ApplyYTextToEditor(text),
           mode' \in {"wysiwyg", "source"}, mode' = "wysiwyg" \/ text # <<>>
    PROVE  BindingInv'
<1> USE DEF BindingInv
<1>1. CASE text = <<>>
  <2>1. UNCHANGED <<tiptap, syncTimer, edited, lost, skipped>> /\ mode' = "wysiwyg"
    BY <1>1, Zenon DEF ApplyYTextToEditor
  <2>2. Shapes' /\ NoEcho'
    BY <2>1, Zenon DEF Shapes, NoEcho
  <2>3. SurfacesAgree'
    BY <1>1, Zenon DEF SurfacesAgree
  <2>4. ToSet(NamesOf(ytext'))  = {}
    BY <1>1, NamesFacts, Zenon
  <2>5. TypingKept'
    BY <2>1, <2>4, Zenon DEF TypingKept, StillTyped
  <2>6. ShownKept'
    BY <2>4, Zenon DEF ShownKept
  <2> QED
    BY <2>2, <2>3, <2>5, <2>6, Zenon
<1>2. CASE text # <<>>
  <2>1. tiptap' = NamesOf(text) /\ syncTimer' = FALSE /\ lost' = lost \cup Unwritten(text)
    BY <1>2, Zenon DEF ApplyYTextToEditor
  <2>2. Shapes'
    BY <2>1, NamesFacts, Zenon DEF Shapes
  <2>3. NoEcho' /\ SurfacesAgree'
    BY <2>1, Zenon DEF NoEcho, SurfacesAgree
  <2>4. TypingKept'
    BY <2>1, Zenon DEF TypingKept, StillTyped, Unwritten
  <2>5. ShownKept'
    BY <2>1, Zenon DEF ShownKept
  <2> QED
    BY <2>2, <2>3, <2>4, <2>5, Zenon
<1> QED
  BY <1>1, <1>2, Zenon

\* Y.Text has changed under an observer that may be paused.
LEMMA TextChanged ==
    ASSUME BindingInv, NEW text \in Seq(Blocks), mounted, UNCHANGED <<mounted, mode>>,
           ytext' = text, codemirror' = text, typed' = StillTyped(text), Observed(text)
    PROVE  BindingInv'
<1>1. CASE mode = "source"
  <2>1. UNCHANGED <<tiptap, syncTimer, edited, lost, skipped>>
    BY <1>1, Zenon DEF Observed
  <2>2. ~syncTimer
    BY <1>1, Zenon DEF BindingInv, NoEcho
  <2>3. Shapes' /\ NoEcho' /\ SurfacesAgree' /\ ShownKept'
    BY <1>1, <2>1, <2>2, Zenon DEF BindingInv, Shapes, NoEcho, SurfacesAgree, ShownKept
  <2>4. TypingKept'
    BY <2>1, Zenon DEF BindingInv, TypingKept, StillTyped
  <2> QED
    BY <2>3, <2>4, Zenon DEF BindingInv
<1>2. CASE mode # "source"
  <2>1. ApplyYTextToEditor(text) /\ mode' = "wysiwyg"
    BY <1>2, Zenon DEF Observed, BindingInv, Shapes
  <2> QED
    BY <2>1, Applied, Zenon
<1> QED
  BY <1>1, <1>2, Zenon

----
(***************************************************************************)
(* The steps.                                                              *)
(***************************************************************************)

\* A text another user's edit makes, and one of the user's own source edits.
LEMMA EditedTexts ==
    ASSUME Shapes
    PROVE  /\ Inserted(ytext) \cup Removed(ytext) \subseteq Seq(Blocks)
           /\ \A n \in Mine : Append(ytext, Block(n, TRUE)) \in Seq(Blocks)
<1>1. \A n \in Names, raw \in BOOLEAN : Block(n, raw) \in Blocks
  BY Zenon DEF Block, Blocks
<1>2. ASSUME NEW text \in Inserted(ytext) PROVE text \in Seq(Blocks)
  <2>1. PICK i \in 1 .. Len(ytext) + 1, n \in Theirs, raw \in BOOLEAN :
            text = InsertAt(ytext, i, Block(n, raw))
    BY DEF Inserted
  <2> QED
    BY <1>1, <2>1, InsertBlocks, Zenon DEF Shapes, Names
<1>3. ASSUME NEW text \in Removed(ytext) PROVE text \in Seq(Blocks)
  <2>1. PICK i \in 1 .. Len(ytext) : text = RemoveAt(ytext, i)
    BY Zenon DEF Removed
  <2> QED
    BY <2>1, RemoveBlocks, Zenon DEF Shapes
<1>4. ASSUME NEW n \in Mine PROVE Append(ytext, Block(n, TRUE)) \in Seq(Blocks)
  <2>1. Block(n, TRUE) \in Blocks
    BY <1>1, Zenon DEF Names
  <2>2. ytext \in Seq(Blocks)
    BY Zenon DEF Shapes
  <2> QED
    BY <2>1, <2>2, AppendProperties, Zenon
<1> QED
  BY <1>2, <1>3, <1>4, Zenon

\* A text that did not change has lost no typed block.
LEMMA StillTypedFacts ==
    /\ StillTyped(ytext) = typed
    /\ ytext = <<>> => \A text : StillTyped(text) = typed
BY NamesFacts, Zenon DEF StillTyped

\* The user's edits of Tiptap.
LEMMA WysiwygEditStep ==
    ASSUME BindingInv, WysiwygEdit
    PROVE  BindingInv'
<1>1. /\ mounted /\ mode = "wysiwyg" /\ UNCHANGED <<mounted, mode, ytext, codemirror, skipped>>
      /\ tiptap \in Seq(Names)
  BY Zenon DEF WysiwygEdit, BindingInv, Shapes
<1>2. ASSUME NEW n \in Mine \ ToSet(tiptap), NEW i \in 1 .. Len(tiptap) + 1,
             EditorUpdated(InsertAt(tiptap, i, n)), typed' = typed \cup {n}, lost' = lost \ {n}
      PROVE  BindingInv'
  <2>1. syncTimer' = TRUE /\ edited' = TRUE /\ tiptap' = InsertAt(tiptap, i, n)
    BY <1>1, <1>2, Zenon DEF EditorUpdated
  <2>2. n \in Names
    BY Zenon DEF Names
  <2>3. tiptap' \in Seq(Names) /\ ToSet(tiptap') = ToSet(tiptap) \cup {n}
    BY <1>1, <2>1, <2>2, InsertBlocks
  <2>4. Shapes' /\ NoEcho' /\ SurfacesAgree'
    BY <1>1, <2>1, <2>3, Zenon DEF BindingInv, Shapes, NoEcho, SurfacesAgree
  <2>5. TypingKept' /\ ShownKept'
    BY <1>1, <1>2, <2>1, <2>3, Zenon DEF BindingInv, TypingKept, ShownKept
  <2> QED
    BY <2>4, <2>5, Zenon DEF BindingInv
<1>3. ASSUME NEW i \in 1 .. Len(tiptap),
             EditorUpdated(RemoveAt(tiptap, i)), typed' = typed \ {tiptap[i]}, lost' = lost
      PROVE  BindingInv'
  <2>1. syncTimer' = TRUE /\ edited' = TRUE /\ tiptap' = RemoveAt(tiptap, i)
    BY <1>1, <1>3, Zenon DEF EditorUpdated
  <2>2. tiptap' \in Seq(Names) /\ ToSet(tiptap) \subseteq ToSet(tiptap') \cup {tiptap[i]}
    BY <1>1, <2>1, RemoveBlocks, Zenon
  <2>3. Shapes' /\ NoEcho' /\ SurfacesAgree'
    BY <1>1, <2>1, <2>2, Zenon DEF BindingInv, Shapes, NoEcho, SurfacesAgree
  <2>4. TypingKept' /\ ShownKept'
    BY <1>1, <1>3, <2>1, <2>2, Zenon DEF BindingInv, TypingKept, ShownKept
  <2> QED
    BY <2>3, <2>4, Zenon DEF BindingInv
<1> QED
  BY <1>2, <1>3, Zenon DEF WysiwygEdit

\* The write-back.
LEMMA WriteBackStep ==
    ASSUME BindingInv, WriteBack
    PROVE  BindingInv'
<1> DEFINE echo == Serialized(tiptap) # ytext /\ tiptap = lastApplied
<1>1. /\ mounted /\ syncTimer /\ mode = "wysiwyg" /\ syncTimer' = FALSE
      /\ UNCHANGED <<mounted, mode, tiptap, edited, typed>> /\ codemirror' = ytext'
      /\ tiptap \in Seq(Names) /\ ytext \in Seq(Blocks)
  BY Zenon DEF WriteBack, YCollab, BindingInv, NoEcho, Shapes
<1>2. CASE echo
  <2>1. ytext' = ytext /\ skipped' = TRUE /\ lost' = lost \cup Unwritten(ytext)
    BY <1>2, Zenon DEF WriteBack
  <2>2. Shapes' /\ NoEcho' /\ SurfacesAgree'
    BY <1>1, <2>1, Zenon DEF BindingInv, Shapes, NoEcho, SurfacesAgree
  <2>3. TypingKept' /\ ShownKept'
    BY <1>1, <2>1, Zenon DEF BindingInv, TypingKept, ShownKept, Unwritten
  <2> QED
    BY <2>2, <2>3, Zenon DEF BindingInv
<1>3. CASE ~echo
  <2>1. ytext' = ApplyStringDiff(ytext, Serialized(tiptap)) /\ lost' = lost \ ToSet(tiptap)
    BY <1>3, Zenon DEF WriteBack
  <2>2. ytext' = Serialized(tiptap)
    BY <1>1, <2>1, NamesFacts, ApplyStringDiffCorrect, Zenon
  <2>3. ytext' \in Seq(Blocks) /\ NamesOf(ytext') = tiptap
    BY <1>1, <2>2, NamesFacts, Zenon
  <2>4. Shapes' /\ NoEcho' /\ SurfacesAgree'
    BY <1>1, <2>3, Zenon DEF BindingInv, Shapes, NoEcho, SurfacesAgree
  <2>5. TypingKept' /\ ShownKept'
    BY <1>1, <2>1, <2>3, Zenon DEF BindingInv, TypingKept, ShownKept
  <2> QED
    BY <2>4, <2>5, Zenon DEF BindingInv
<1> QED
  BY <1>2, <1>3, Zenon

\* Save of the diagram dialog.
LEMMA MermaidSaveStep ==
    ASSUME BindingInv, MermaidSave
    PROVE  BindingInv'
<1>1. /\ mounted /\ editRange \in 1 .. Len(tiptap)
      /\ tiptap' = [tiptap EXCEPT ![editRange] = Saved]
      /\ syncTimer' = (mode = "wysiwyg") /\ edited' = TRUE
      /\ typed' = typed \cup {Saved}
      /\ lost' = ((lost \cup ({tiptap[editRange]} \cap typed)) \ {Saved})
                    \cup (IF mode = "source" THEN {Saved} ELSE {})
      /\ UNCHANGED <<mounted, mode, ytext, codemirror, skipped>>
      /\ tiptap \in Seq(Names)
  BY Zenon DEF MermaidSave, EditorUpdated, BindingInv, Shapes
<1>2. Saved \in Names
  BY Zenon DEF Names
<1>3. /\ tiptap' \in Seq(Names) /\ Saved \in ToSet(tiptap')
      /\ ToSet(tiptap) \ {tiptap[editRange]} \subseteq ToSet(tiptap')
  BY <1>1, <1>2, ReplaceBlocks, Zenon
<1>4. Shapes' /\ NoEcho' /\ SurfacesAgree'
  BY <1>1, <1>3, Zenon DEF BindingInv, Shapes, NoEcho, SurfacesAgree
<1>5. CASE mode = "wysiwyg"
  <2>1. TypingKept' /\ ShownKept'
    BY <1>1, <1>3, <1>5, Zenon DEF BindingInv, TypingKept, ShownKept
  <2> QED
    BY <1>4, <2>1, Zenon DEF BindingInv
<1>6. CASE mode = "source"
  <2>1. ~syncTimer /\ Saved \in lost' /\ lost \subseteq lost'
    BY <1>1, <1>6, Zenon DEF BindingInv, NoEcho
  <2>2. TypingKept' /\ ShownKept'
    BY <1>1, <1>6, <2>1, Zenon DEF BindingInv, TypingKept, ShownKept
  <2> QED
    BY <1>4, <2>2, Zenon DEF BindingInv
<1> QED
  BY <1>5, <1>6, Zenon DEF BindingInv, Shapes

\* The editor document is replaced under the binding.
LEMMA RebindStep ==
    ASSUME BindingInv, NEW text \in Seq(Blocks), RebindSharedText(text)
    PROVE  BindingInv'
<1>1. /\ mounted /\ UNCHANGED <<mounted, mode>> /\ mode \in {"wysiwyg", "source"}
      /\ ytext' = text /\ codemirror' = text /\ typed' = StillTyped(text)
      /\ tiptap \in Seq(Names)
  BY Zenon DEF RebindSharedText, RebindSource, BindingInv, Shapes
<1>2. CASE Serialized(tiptap) # text /\ text # <<>>
  <2>1. ApplyYTextToEditor(text)
    BY <1>2, Zenon DEF RebindSharedText
  <2> QED
    BY <1>1, <1>2, <2>1, Applied, Zenon
<1>3. CASE ~(Serialized(tiptap) # text /\ text # <<>>)
  <2>1. syncTimer' = FALSE /\ lost' = lost \cup Unwritten(text) /\ UNCHANGED <<tiptap, edited, skipped>>
    BY <1>3, Zenon DEF RebindSharedText
  <2>2. text = <<>> \/ NamesOf(text) = tiptap
    BY <1>1, <1>3, NamesFacts, Zenon
  <2>3. Shapes' /\ NoEcho' /\ SurfacesAgree'
    BY <1>1, <2>1, <2>2, Zenon DEF BindingInv, Shapes, NoEcho, SurfacesAgree
  <2>4. TypingKept'
    BY <1>1, <2>1, Zenon DEF BindingInv, TypingKept, StillTyped, Unwritten
  <2>5. ShownKept'
    BY <1>1, <2>1, <2>2, NamesFacts, Zenon DEF ShownKept
  <2> QED
    BY <2>3, <2>4, <2>5, Zenon DEF BindingInv
<1> QED
  BY <1>2, <1>3, Zenon

\* A step that leaves texts, surfaces and typing alone.
LEMMA BindingFrame ==
    ASSUME BindingInv,
           UNCHANGED <<mounted, mode, ytext, codemirror, tiptap, syncTimer, edited, typed, lost, skipped>>
    PROVE  BindingInv'
<1>1. Shapes' /\ NoEcho' /\ SurfacesAgree'
  BY Zenon DEF BindingInv, Shapes, NoEcho, SurfacesAgree
<1>2. TypingKept' /\ ShownKept'
  BY Zenon DEF BindingInv, TypingKept, ShownKept
<1> QED
  BY <1>1, <1>2, Zenon DEF BindingInv

LEMMA BindingStep ==
    ASSUME BindingInv, [Next]_vars
    PROVE  BindingInv'
<1>1. CASE PeerEdit
  <2>1. PICK text \in Inserted(ytext) \cup Removed(ytext) :
            /\ ytext' = text /\ typed' = StillTyped(text) /\ YCollab(text) /\ Observed(text)
    BY <1>1, Zenon DEF PeerEdit
  <2>2. text \in Seq(Blocks) /\ mounted /\ UNCHANGED <<mounted, mode>>
    BY <1>1, EditedTexts, Zenon DEF PeerEdit, BindingInv
  <2> QED
    BY <2>1, <2>2, TextChanged, Zenon DEF YCollab
<1>2. CASE SourceEdit
  <2>1. PICK text \in Removed(ytext)
                        \cup {Append(ytext, Block(n, TRUE)) : n \in Mine \ ToSet(NamesOf(ytext))} :
            /\ ytext' = text /\ typed' = StillTyped(text) /\ YCollab(text) /\ Observed(text)
    BY <1>2, Zenon DEF SourceEdit
  <2>2. text \in Seq(Blocks)
    BY <2>1, EditedTexts, Zenon DEF BindingInv
  <2>3. mounted /\ UNCHANGED <<mounted, mode>>
    BY <1>2, Zenon DEF SourceEdit
  <2> QED
    BY <2>1, <2>2, <2>3, TextChanged, Zenon DEF YCollab
<1>3. CASE WysiwygEdit
  BY <1>3, WysiwygEditStep, Zenon
<1>4. CASE WriteBack
  BY <1>4, WriteBackStep, Zenon
<1>5. CASE ToSource
  <2>1. /\ mounted /\ mode' = "source" /\ syncTimer' = FALSE /\ lost' = lost \cup Unwritten(ytext)
        /\ UNCHANGED <<mounted, ytext, codemirror, tiptap, edited, typed, skipped>>
    BY <1>5, Zenon DEF ToSource
  <2>2. Shapes' /\ NoEcho' /\ SurfacesAgree' /\ ShownKept'
    BY <2>1, Zenon DEF BindingInv, Shapes, NoEcho, SurfacesAgree, ShownKept
  <2>3. TypingKept'
    BY <2>1, Zenon DEF BindingInv, TypingKept, Unwritten
  <2> QED
    BY <2>2, <2>3, Zenon DEF BindingInv
<1>6. CASE ToWysiwyg
  <2>1. /\ mounted /\ mode' = "wysiwyg" /\ ApplyYTextToEditor(ytext)
        /\ UNCHANGED <<mounted, ytext, codemirror, typed>>
        /\ ytext \in Seq(Blocks) /\ codemirror = ytext
    BY <1>6, Zenon DEF ToWysiwyg, BindingInv, Shapes, SurfacesAgree
  <2> QED
    BY <2>1, StillTypedFacts, Applied, Zenon
<1>7. ASSUME NEW n \in Theirs, RebindSharedText(<<Block(n, FALSE)>>)
      PROVE  BindingInv'
  <2> DEFINE b == Block(n, FALSE)
  <2>1. b \in Blocks
    BY Zenon DEF Block, Blocks, Names
  <2> HIDE DEF b
  <2>2. <<b>> \in Seq(Blocks)
    BY <2>1
  <2>3. RebindSharedText(<<b>>)
    BY <1>7, Zenon DEF b
  <2> QED
    BY <2>2, <2>3, RebindStep, Zenon
<1>8. CASE RebindSharedText(<<>>)
  <2>1. <<>> \in Seq(Blocks)
    OBVIOUS
  <2> QED
    BY <1>8, <2>1, RebindStep, Zenon
<1>9. ASSUME NEW n \in Theirs, NEW raw \in BOOLEAN, SetContent(<<Block(n, raw)>>)
      PROVE  BindingInv'
  <2> DEFINE text == <<Block(n, raw)>>
  <2>1. Block(n, raw) \in Blocks
    BY Zenon DEF Block, Blocks, Names
  <2>2. text \in Seq(Blocks)
    BY <2>1
  <2> HIDE DEF text
  <2>3. SetContent(text)
    BY <1>9, Zenon DEF text
  <2>4. /\ mounted /\ ytext = <<>> /\ UNCHANGED <<mounted, mode, typed>>
        /\ ytext' = text /\ codemirror' = text /\ Observed(text)
    BY <2>3, Zenon DEF SetContent, YCollab
  <2> QED
    BY <2>2, <2>4, StillTypedFacts, TextChanged, Zenon
<1>10. CASE SetReadonly
  BY <1>10, BindingFrame, Zenon DEF SetReadonly
<1>11. ASSUME NEW i \in 1 .. MaxBlocks, MermaidEditRequest(i)
       PROVE  BindingInv'
  BY <1>11, BindingFrame, Zenon DEF MermaidEditRequest
<1>12. CASE MermaidSave
  BY <1>12, MermaidSaveStep, Zenon
<1>13. CASE MermaidCancel
  BY <1>13, BindingFrame, Zenon DEF MermaidCancel
<1>14. CASE Unmount
  <2>1. /\ mounted' = FALSE /\ syncTimer' = FALSE /\ lost' = lost \cup Unwritten(ytext)
        /\ UNCHANGED <<mode, ytext, codemirror, tiptap, edited, typed, skipped>>
    BY <1>14, Zenon DEF Unmount
  <2>2. Shapes' /\ NoEcho' /\ SurfacesAgree' /\ ShownKept'
    BY <2>1, Zenon DEF BindingInv, Shapes, NoEcho, SurfacesAgree, ShownKept
  <2>3. TypingKept'
    BY <2>1, Zenon DEF BindingInv, TypingKept, Unwritten
  <2> QED
    BY <2>2, <2>3, Zenon DEF BindingInv
<1>15. CASE UNCHANGED vars
  BY <1>15, BindingFrame, Zenon DEF vars
<1> QED
  BY <1>1, <1>2, <1>3, <1>4, <1>5, <1>6, <1>7, <1>8, <1>9, <1>10, <1>11, <1>12, <1>13, <1>14, <1>15, Zenon
     DEF Next

\* Nothing TextBinding puts into Tiptap itself arms a write-back, and no hidden
\* or unmounted Tiptap ever writes (the update handler, setPaused, destroy).
THEOREM NoEchoCorrect == Spec => []NoEcho
<1>1. BindingInv => NoEcho
  BY Zenon DEF BindingInv
<1> QED
  BY BindingInit, BindingStep, <1>1, PTL DEF Spec

\* The two surfaces show the shared text, for texts of any length
\* (_applyYTextToEditor, _applyEditorToYText, applyStringDiff, yCollab).
THEOREM SurfacesAgreeCorrect == Spec => []SurfacesAgree
<1>1. BindingInv => SurfacesAgree
  BY Zenon DEF BindingInv
<1> QED
  BY BindingInit, BindingStep, <1>1, PTL DEF Spec

\* What the user types in the WYSIWYG editor goes missing through the named
\* cancellations only, for any number of blocks.
THEOREM TypingKeptCorrect == Spec => []TypingKept
<1>1. BindingInv => TypingKept
  BY Zenon DEF BindingInv
<1> QED
  BY BindingInit, BindingStep, <1>1, PTL DEF Spec

----
(***************************************************************************)
(* What normalizes raw source.                                             *)
(***************************************************************************)

\* ytext' has no block that ytext lacks, but for the ones with a new name.
NothingNormalized ==
    \A e \in ToSet(ytext') : e \in ToSet(ytext) \/ e.name \notin ToSet(NamesOf(ytext))

LEMMA NormalizedStep ==
    ASSUME BindingInv, Next
    PROVE  NothingNormalized \/ (syncTimer /\ edited) \/ rebound'
<1>1. \A n, raw : Block(n, raw).name = n
  BY Zenon DEF Block
<1>2. \A n \in Names, raw \in BOOLEAN : Block(n, raw) \in Blocks
  BY Zenon DEF Block, Blocks
<1>3. ASSUME NEW i \in 1 .. Len(ytext), ytext' = RemoveAt(ytext, i)
      PROVE  NothingNormalized
  BY <1>3, RemoveBlocks, Zenon DEF BindingInv, Shapes, NothingNormalized
<1>4. CASE PeerEdit
  <2>1. ytext' \in Inserted(ytext) \cup Removed(ytext)
    BY <1>4, Zenon DEF PeerEdit
  <2>2. CASE ytext' \in Removed(ytext)
    BY <1>3, <2>2, Zenon DEF Removed
  <2>3. CASE ytext' \in Inserted(ytext)
    <3>1. PICK i \in 1 .. Len(ytext) + 1, n \in Theirs \ ToSet(NamesOf(ytext)), raw \in BOOLEAN :
              ytext' = InsertAt(ytext, i, Block(n, raw))
      BY <2>3 DEF Inserted
    <3>2. Block(n, raw) \in Blocks
      BY <1>2, Zenon DEF Names
    <3>3. ToSet(ytext') = ToSet(ytext) \cup {Block(n, raw)}
      BY <3>1, <3>2, InsertBlocks DEF BindingInv, Shapes
    <3> QED
      BY <1>1, <3>1, <3>3, Zenon DEF NothingNormalized
  <2> QED
    BY <2>1, <2>2, <2>3, Zenon
<1>5. CASE SourceEdit
  <2>1. \/ ytext' \in Removed(ytext)
        \/ \E n \in Mine \ ToSet(NamesOf(ytext)) : ytext' = Append(ytext, Block(n, TRUE))
    BY <1>5, Zenon DEF SourceEdit
  <2>2. CASE ytext' \in Removed(ytext)
    BY <1>3, <2>2, Zenon DEF Removed
  <2>3. ASSUME NEW n \in Mine \ ToSet(NamesOf(ytext)), ytext' = Append(ytext, Block(n, TRUE))
        PROVE  NothingNormalized
    <3> DEFINE b == Block(n, TRUE)
    <3>1. b \in Blocks /\ b.name = n
      BY <1>1, <1>2, Zenon DEF Names
    <3> HIDE DEF b
    <3>2. ytext \in Seq(Blocks) /\ ytext' = Append(ytext, b)
      BY <2>3, Zenon DEF BindingInv, Shapes, b
    <3>3. ToSet(ytext') \subseteq ToSet(ytext) \cup {b}
      BY <3>1, <3>2, AppendProperties DEF ToSet
    <3> QED
      BY <2>3, <3>1, <3>3, Zenon DEF NothingNormalized
  <2> QED
    BY <2>1, <2>2, <2>3, Zenon
<1>6. CASE WriteBack
  BY <1>6, Zenon DEF WriteBack, BindingInv, NoEcho
<1>7. ASSUME NEW text, RebindSharedText(text) PROVE rebound'
  BY <1>7, Zenon DEF RebindSharedText
<1>8. ASSUME NEW text, SetContent(text) PROVE NothingNormalized
  <2>1. ytext = <<>>
    BY <1>8, Zenon DEF SetContent
  <2> QED
    BY <2>1, NamesFacts, Zenon DEF NothingNormalized
<1>9. ASSUME ytext' = ytext PROVE NothingNormalized
  BY <1>9, Zenon DEF NothingNormalized
<1>10. CASE WysiwygEdit \/ ToSource \/ ToWysiwyg \/ SetReadonly
  BY <1>9, <1>10, Zenon DEF WysiwygEdit, ToSource, ToWysiwyg, SetReadonly
<1>11. CASE MermaidSave \/ MermaidCancel \/ Unmount \/ \E i \in 1 .. MaxBlocks : MermaidEditRequest(i)
  BY <1>9, <1>11, Zenon DEF MermaidSave, MermaidCancel, Unmount, MermaidEditRequest
<1> QED
  BY <1>4, <1>5, <1>6, <1>7, <1>8, <1>10, <1>11, Zenon DEF Next

\* Raw source is rewritten by write-backs of a genuine edit only, for texts of
\* any length (_applyEditorToYText).
THEOREM NormalizedCorrect == Spec => NormalizedByWriteBack
<1> DEFINE Normalizing ==
        \A i \in DOMAIN ytext :
          /\ ytext[i].raw
          /\ \E j \in DOMAIN ytext' : ytext'[j] = Block(ytext[i].name, FALSE)
          /\ ~ \E j \in DOMAIN ytext : ytext[j] = Block(ytext[i].name, FALSE)
          => (syncTimer /\ edited) \/ rebound'
<1>1. BindingInv /\ [Next]_vars => [Normalizing]_vars
  <2> SUFFICES ASSUME BindingInv, Next, NEW i \in DOMAIN ytext,
                      \E j \in DOMAIN ytext' : ytext'[j] = Block(ytext[i].name, FALSE),
                      ~ \E j \in DOMAIN ytext : ytext[j] = Block(ytext[i].name, FALSE)
               PROVE  (syncTimer /\ edited) \/ rebound'
    BY Zenon
  <2> DEFINE b == Block(ytext[i].name, FALSE)
  <2>1. b \in ToSet(ytext') /\ b \notin ToSet(ytext)
    BY Zenon DEF ToSet
  <2>2. b.name = ytext[i].name
    BY Zenon DEF Block
  <2>3. ytext[i].name \in ToSet(NamesOf(ytext))
    BY Zenon DEF ToSet, NamesOf
  <2> HIDE DEF b
  <2>4. ~NothingNormalized
    BY <2>1, <2>2, <2>3, Zenon DEF NothingNormalized
  <2> QED
    BY <2>4, NormalizedStep, Zenon
<1> QED
  BY BindingInit, BindingStep, <1>1, PTL DEF Spec, NormalizedByWriteBack

----
(***************************************************************************)
(* The renderers.                                                          *)
(***************************************************************************)

\* A binding that is not mounted shows no mode and has no iframe.
PreviewInv ==
    /\ PreviewFresh
    /\ ModesAgree
    /\ ~previewMounted => active = None /\ iframe = "none"

LEMMA PreviewFrame ==
    ASSUME PreviewInv, UNCHANGED preview
    PROVE  PreviewInv'
<1>1. UNCHANGED <<content, previewMounted, active, elementMode, iframe, posted>>
  BY Zenon DEF preview
<1> QED
  BY <1>1, Zenon DEF PreviewInv, PreviewFresh, ModesAgree

LEMMA PreviewStep ==
    ASSUME PreviewInv, [RenderingNext]_renderingVars
    PROVE  PreviewInv'
<1>1. CASE Mount
  <2>1. UNCHANGED <<content, posted>> /\ ~previewMounted /\ previewMounted'
    BY <1>1, Zenon DEF Mount
  <2>2. CASE elementMode = "preview"
    BY <1>1, <2>1, <2>2, Zenon DEF Mount, PreviewInv, PreviewFresh, ModesAgree
  <2>3. CASE elementMode # "preview"
    BY <1>1, <2>1, <2>3, Zenon DEF Mount, Show, PreviewInv, PreviewFresh, ModesAgree
  <2> QED
    BY <2>2, <2>3, Zenon
<1>2. ASSUME NEW m \in {"source", "preview"}, SwitchMode(m) PROVE PreviewInv'
  <2>1. UNCHANGED <<content, previewMounted>> /\ previewMounted
    BY <1>2, Zenon DEF SwitchMode
  <2>2. CASE m = active /\ elementMode' = m /\ UNCHANGED <<active, iframe, posted>>
    BY <2>1, <2>2, Zenon DEF PreviewInv, PreviewFresh, ModesAgree
  <2>3. CASE m = "source" /\ Show(m)
    BY <2>1, <2>3, Zenon DEF Show, PreviewInv, PreviewFresh, ModesAgree
  <2>4. CASE iframe' = "loading" /\ UNCHANGED <<active, elementMode>>
    BY <2>1, <2>4, Zenon DEF PreviewInv, PreviewFresh, ModesAgree
  <2>5. CASE Render(content) /\ Show(m) /\ UNCHANGED iframe
    BY <2>1, <2>5, Zenon DEF Render, Show, PreviewInv, PreviewFresh, ModesAgree
  <2> QED
    BY <1>2, <2>2, <2>3, <2>4, <2>5, Zenon DEF SwitchMode
<1>3. CASE PreviewReady
  <2>1. UNCHANGED <<content, previewMounted>> /\ active' = "preview" /\ elementMode' = "preview"
    BY <1>3, Zenon DEF PreviewReady, Show
  <2>2. content # "" => posted' = content
    BY <1>3, Zenon DEF PreviewReady
  <2>3. previewMounted
    BY <1>3, Zenon DEF PreviewReady, PreviewInv
  <2> QED
    BY <2>1, <2>2, <2>3, Zenon DEF PreviewInv, PreviewFresh, ModesAgree
<1>4. ASSUME NEW c \in Codes, ContentUpdate(c) PROVE PreviewInv'
  <2>1. UNCHANGED <<previewMounted, active, elementMode, iframe>> /\ content' = c
    BY <1>4, Zenon DEF ContentUpdate
  <2>2. active = "preview" /\ iframe = "ready" => posted' = c
    BY <1>4, Zenon DEF ContentUpdate, Render
  <2> QED
    BY <2>1, <2>2, Zenon DEF PreviewInv, PreviewFresh, ModesAgree
<1>5. CASE UnmountPreview
  BY <1>5, RenderingAssumption, Zenon DEF UnmountPreview, PreviewInv, PreviewFresh, ModesAgree
<1>6. CASE UNCHANGED preview
  BY <1>6, PreviewFrame, Zenon
<1>7. RenderingNext =>
        \/ Mount \/ PreviewReady \/ UnmountPreview \/ UNCHANGED preview
        \/ \E m \in {"source", "preview"} : SwitchMode(m)
        \/ \E c \in Codes : ContentUpdate(c)
  BY Zenon DEF RenderingNext, SetMermaidTheme, EditNode, OpenDialog, OnInput, Cancel, Save, Progress,
         LoadMermaid, RunTimer, Deliver
<1>8. UNCHANGED renderingVars => UNCHANGED preview
  BY Zenon DEF renderingVars
<1> QED
  BY <1>1, <1>2, <1>3, <1>4, <1>5, <1>6, <1>7, <1>8, Zenon

\* The preview on display is that of the present text, however switches, edits
\* and the loading of the iframe interleave (PreviewSourceBinding).
THEOREM PreviewFreshCorrect == RenderingSpec => []PreviewFresh
<1>1. RenderingInit => PreviewInv
  BY Zenon DEF RenderingInit, PreviewInv, PreviewFresh, ModesAgree
<1>2. PreviewInv /\ [RenderingNext]_renderingVars => PreviewInv'
  BY PreviewStep, Zenon
<1>3. PreviewInv => PreviewFresh
  BY Zenon DEF PreviewInv
<1> QED
  BY <1>1, <1>2, <1>3, PTL DEF RenderingSpec

\* The toolbar's mode is the mode the binding shows, also for switches made while
\* another one awaits the iframe (switchMode of the element and of the binding).
THEOREM ModesAgreeCorrect == RenderingSpec => []ModesAgree
<1>1. RenderingInit => PreviewInv
  BY Zenon DEF RenderingInit, PreviewInv, PreviewFresh, ModesAgree
<1>2. PreviewInv /\ [RenderingNext]_renderingVars => PreviewInv'
  BY PreviewStep, Zenon
<1>3. PreviewInv => ModesAgree
  BY Zenon DEF PreviewInv
<1> QED
  BY <1>1, <1>2, <1>3, PTL DEF RenderingSpec

----
\* The renders that are under way, and what they deliver.
Flights == [seq : Nat, code : Codes, gen : Nat \cup {None}]
Drawings == [code : Codes, ok : BOOLEAN, gen : Nat \cup {None}]

DiagramTypes ==
    /\ source \in [Views -> Codes] /\ timer \in [Views -> BOOLEAN] /\ seq \in [Views -> Nat]
    /\ flights \in [Views -> SUBSET Flights] /\ drawn \in [Views -> Drawings \cup {None}]
    /\ rendered \in [code : Codes, gen : Nat]
    /\ lib \in {"none", "loading", "ready", "failed"} /\ gen \in Nat /\ open \in BOOLEAN

\* The latest render of a view is for its present source unless the debounce is
\* going to start another, or has been delivered and is on display.
Latest(v) ==
    /\ \A f \in flights[v] : f.seq <= seq[v]
    /\ ~timer[v] => \A f \in flights[v] : f.seq = seq[v] => f.code = source[v]
    /\ seq[v] > 0 /\ AtRest(v) => drawn[v] # None /\ drawn[v].code = source[v]

\* A drawing was made after the runtime was there, or had failed to come; only
\* the error of an empty source needs no runtime.
Outcome(v) ==
    drawn[v] # None =>
        /\ drawn[v].code = "" \/ lib \in {"ready", "failed"}
        /\ drawn[v].ok <=> lib = "ready" /\ drawn[v].code \in Valid

\* lastRenderedSource is the node's source unless the debounce runs; a dialog
\* that is not open has nothing under way.
ViewsInv ==
    /\ ~timer["node"] => rendered.code = source["node"]
    /\ ~open => seq["dialog"] = 0 /\ ~timer["dialog"] /\ flights["dialog"] = {}
    /\ seq["node"] > 0

DiagramInv == DiagramTypes /\ ViewsInv /\ \A v \in Views : Latest(v) /\ Outcome(v)

\* The node's latest render, once the runtime is there, has the theme that counts
\* as rendered, if that is still the theme.
ThemeInv ==
    /\ rendered.gen <= gen
    /\ lib = "ready" /\ rendered.gen = gen =>
         \A f \in flights["node"] : f.seq = seq["node"] => f.gen = gen
    /\ AtRest("node") /\ rendered.gen = gen /\ drawn["node"].ok => drawn["node"].gen = gen

RendersInv == DiagramInv /\ ThemeInv

LEMMA LoadedFacts ==
    ASSUME NEW f \in Flights, NEW g \in Nat
    PROVE  /\ [f EXCEPT !.gen = g] \in Flights /\ [f EXCEPT !.gen = g].gen = g
           /\ [f EXCEPT !.gen = g].seq = f.seq /\ [f EXCEPT !.gen = g].code = f.code
BY Zenon DEF Flights

LEMMA RenderFacts ==
    ASSUME NEW f \in Flights
    PROVE  /\ RenderMermaid(f) \in Drawings /\ RenderMermaid(f) # None
           /\ RenderMermaid(f).code = f.code /\ RenderMermaid(f).gen = f.gen
           /\ RenderMermaid(f).ok <=> lib = "ready" /\ f.code \in Valid
<1>1. RenderMermaid(f) \in Drawings
  BY Zenon DEF RenderMermaid, Drawings, Flights
<1>2. RenderMermaid(f) # None
  BY <1>1, RenderingAssumption, Zenon DEF Drawings
<1> QED
  BY <1>1, <1>2, Zenon DEF RenderMermaid

\* A new render is the view's latest, is for the code it was started with, and
\* has the present theme if the runtime is there.
LEMMA RunFacts ==
    ASSUME DiagramTypes, NEW v \in Views, NEW code \in Codes, Run(v, code)
    PROVE  /\ seq' \in [Views -> Nat] /\ flights' \in [Views -> SUBSET Flights]
           /\ lib' \in {"none", "loading", "ready", "failed"}
           /\ \A w \in Views \ {v} : seq'[w] = seq[w] /\ flights'[w] = flights[w]
           /\ seq'[v] = seq[v] + 1
           /\ \E f \in Flights : /\ flights'[v] = flights[v] \cup {f}
                                 /\ f.seq = seq[v] + 1 /\ f.code = code
                                 /\ lib = "ready" => f.gen = gen
           /\ lib' \in {"ready", "failed"} <=> lib \in {"ready", "failed"}
           /\ lib' = "ready" <=> lib = "ready"
<1> DEFINE f == [seq |-> seq[v] + 1, code |-> code, gen |-> IF lib = "ready" THEN gen ELSE None]
<1>1. f \in Flights /\ f.seq = seq[v] + 1 /\ f.code = code /\ (lib = "ready" => f.gen = gen)
  BY DEF DiagramTypes, Flights
<1>2. flights' = [flights EXCEPT ![v] = @ \cup {f}] /\ seq' = [seq EXCEPT ![v] = @ + 1]
  BY Zenon DEF Run
<1> HIDE DEF f
<1>3. /\ seq' \in [Views -> Nat] /\ flights' \in [Views -> SUBSET Flights]
      /\ \A w \in Views \ {v} : seq'[w] = seq[w] /\ flights'[w] = flights[w]
      /\ seq'[v] = seq[v] + 1 /\ flights'[v] = flights[v] \cup {f}
  BY <1>1, <1>2 DEF DiagramTypes
<1>4. /\ lib' \in {"none", "loading", "ready", "failed"}
      /\ lib' \in {"ready", "failed"} <=> lib \in {"ready", "failed"}
      /\ lib' = "ready" <=> lib = "ready"
  BY Zenon DEF Run, DiagramTypes
<1> QED
  BY <1>1, <1>3, <1>4, Zenon

\* A view whose render was just started is not at rest.
LEMMA RunLatest ==
    ASSUME DiagramTypes, NEW v \in Views, NEW code \in Codes, Run(v, code), Latest(v),
           source'[v] = code
    PROVE  Latest(v)' /\ ~AtRest(v)'
<1> DEFINE Starts(f) == /\ flights'[v] = flights[v] \cup {f}
                        /\ f.seq = seq[v] + 1 /\ f.code = code
                        /\ lib = "ready" => f.gen = gen
<1>0. \E f \in Flights : Starts(f)
  BY RunFacts, Zenon
<1>1. PICK f \in Flights : /\ flights'[v] = flights[v] \cup {f}
                           /\ f.seq = seq[v] + 1 /\ f.code = code
  BY <1>0, Zenon
<1>2. seq'[v] = seq[v] + 1 /\ seq[v] \in Nat
  BY RunFacts, SMTT(30) DEF DiagramTypes
<1>3. \A g \in flights[v] : g.seq \in Nat /\ g.seq <= seq[v]
  BY SMTT(30) DEF DiagramTypes, Latest, Flights
<1>4. ~AtRest(v)'
  BY <1>1, <1>2, Zenon DEF AtRest
<1>5. \A g \in flights'[v] : g.seq <= seq'[v] /\ (g.seq = seq'[v] => g.code = source'[v])
  BY <1>1, <1>2, <1>3
<1> QED
  BY <1>4, <1>5, Zenon DEF Latest

\* A view none of whose variables changes.
LEMMA LatestFrame ==
    ASSUME NEW v \in Views, Latest(v), seq'[v] = seq[v], flights'[v] = flights[v],
           drawn'[v] = drawn[v], source'[v] = source[v], timer'[v] = timer[v]
    PROVE  Latest(v)' /\ (AtRest(v)' <=> AtRest(v))
BY Zenon DEF Latest, AtRest

LEMMA OutcomeFrame ==
    ASSUME NEW v \in Views, Outcome(v), drawn'[v] = drawn[v],
           lib' \in {"ready", "failed"} <=> lib \in {"ready", "failed"}, lib' = "ready" <=> lib = "ready"
    PROVE  Outcome(v)'
BY Zenon DEF Outcome

LEMMA RendersFrame ==
    ASSUME RendersInv, UNCHANGED diagram
    PROVE  RendersInv'
<1>1. UNCHANGED <<open, source, timer, seq, flights, drawn, rendered, lib, gen>>
  BY Zenon DEF diagram
<1>2. DiagramTypes' /\ ViewsInv' /\ ThemeInv'
  BY <1>1, Zenon DEF RendersInv, DiagramInv, DiagramTypes, ViewsInv, ThemeInv, AtRest
<1>3. ASSUME NEW v \in Views PROVE Latest(v)' /\ Outcome(v)'
  BY <1>1, Zenon DEF RendersInv, DiagramInv, Latest, Outcome, AtRest
<1> QED
  BY <1>2, <1>3, Zenon DEF RendersInv, DiagramInv

LEMMA LoadStep ==
    ASSUME RendersInv, NEW ok \in BOOLEAN, LoadMermaid(ok)
    PROVE  RendersInv'
<1>1. /\ DiagramTypes /\ ViewsInv /\ ThemeInv
      /\ \A v \in Views : Latest(v) /\ Outcome(v)
  BY Zenon DEF RendersInv, DiagramInv
<1>2. /\ lib = "loading" /\ lib' \in {"ready", "failed"}
      /\ UNCHANGED <<open, source, timer, seq, drawn, rendered, gen>>
  BY SMTT(30) DEF LoadMermaid
<1>3. ASSUME NEW v \in Views
      PROVE  /\ \A f \in flights'[v] : /\ f \in Flights /\ f.gen = gen
                                       /\ \E g \in flights[v] : g.seq = f.seq /\ g.code = f.code
             /\ \A g \in flights[v] : \E f \in flights'[v] : g.seq = f.seq
             /\ flights[v] = {} => flights'[v] = {}
  <2> DEFINE Loaded(f) == [f EXCEPT !.gen = gen]
  <2>1. flights'[v] = {Loaded(f) : f \in flights[v]}
    BY <1>3, Zenon DEF LoadMermaid
  <2>2. \A f \in flights[v] : f \in Flights /\ gen \in Nat
    BY <1>1, <1>3, Zenon DEF DiagramTypes
  <2>3. \A f \in flights[v] : /\ Loaded(f) \in Flights /\ Loaded(f).gen = gen
                              /\ Loaded(f).seq = f.seq /\ Loaded(f).code = f.code
    BY <2>2, LoadedFacts, Zenon
  <2> HIDE DEF Loaded
  <2> QED
    BY <2>1, <2>3, Zenon
<1>4. DiagramTypes'
  <2>1. flights' \in [Views -> SUBSET Flights]
    BY <1>3, Zenon DEF LoadMermaid
  <2> QED
    BY <1>1, <1>2, <2>1, Zenon DEF DiagramTypes
<1>5. ViewsInv'
  BY <1>1, <1>2, <1>3, Zenon DEF ViewsInv, Views
<1>6. ASSUME NEW v \in Views PROVE AtRest(v)' <=> AtRest(v)
  BY <1>2, <1>3, <1>6 DEF AtRest
<1>7. ASSUME NEW v \in Views PROVE Latest(v)' /\ Outcome(v)'
  <2>1. Latest(v)'
    BY <1>1, <1>2, <1>3, <1>6, <1>7 DEF Latest
  <2>2. Outcome(v)'
    BY <1>1, <1>2, <1>7, RenderingAssumption, Zenon DEF Outcome
  <2> QED
    BY <2>1, <2>2, SMTT(30)
<1>8. ThemeInv'
  BY <1>1, <1>2, <1>3, <1>6, Zenon DEF ThemeInv, Views
<1> QED
  BY <1>4, <1>5, <1>7, <1>8, Zenon DEF RendersInv, DiagramInv

LEMMA ThemeStep ==
    ASSUME RendersInv, SetMermaidTheme
    PROVE  RendersInv'
<1>1. /\ UNCHANGED <<open, source, timer, seq, flights, drawn, rendered, lib>>
      /\ gen' = gen + 1
  BY Zenon DEF SetMermaidTheme
<1>2. DiagramTypes' /\ ViewsInv'
  BY <1>1 DEF RendersInv, DiagramInv, DiagramTypes, ViewsInv
<1>3. \A v \in Views : Latest(v)' /\ Outcome(v)'
  BY <1>1, Zenon DEF RendersInv, DiagramInv, Latest, Outcome, AtRest
<1>4. ThemeInv'
  BY <1>1 DEF RendersInv, DiagramInv, DiagramTypes, ThemeInv
<1> QED
  BY <1>2, <1>3, <1>4, Zenon DEF RendersInv, DiagramInv

LEMMA DeliverStep ==
    ASSUME RendersInv, NEW v \in Views, NEW f \in flights[v], Deliver(v, f)
    PROVE  RendersInv'
<1>1. /\ DiagramTypes /\ ViewsInv /\ ThemeInv /\ f \in Flights
      /\ \A w \in Views : Latest(w) /\ Outcome(w)
  BY Zenon DEF RendersInv, DiagramInv, DiagramTypes
<1>2. /\ f.code = "" \/ lib \in {"ready", "failed"}
      /\ flights' = [flights EXCEPT ![v] = @ \ {f}]
      /\ drawn' = IF f.seq = seq[v] THEN [drawn EXCEPT ![v] = RenderMermaid(f)] ELSE drawn
      /\ UNCHANGED <<open, source, timer, seq, rendered, lib, gen>>
  BY Zenon DEF Deliver
<1>3. /\ flights' \in [Views -> SUBSET Flights] /\ flights'[v] = flights[v] \ {f}
      /\ \A w \in Views \ {v} : flights'[w] = flights[w]
  BY <1>1, <1>2, Zenon DEF DiagramTypes
<1>4. /\ drawn' \in [Views -> Drawings \cup {None}]
      /\ drawn'[v] = IF f.seq = seq[v] THEN RenderMermaid(f) ELSE drawn[v]
      /\ \A w \in Views \ {v} : drawn'[w] = drawn[w]
  BY <1>1, <1>2, RenderFacts, Zenon DEF DiagramTypes
<1>5. DiagramTypes' /\ ViewsInv'
  <2>1. DiagramTypes'
    BY <1>1, <1>2, <1>3, <1>4, Zenon DEF DiagramTypes
  <2>2. ViewsInv'
    BY <1>1, <1>2, <1>3, Zenon DEF ViewsInv, Views
  <2> QED
    BY <2>1, <2>2, Zenon
<1>6. f.seq # seq[v] => (AtRest(v)' <=> AtRest(v))
  BY <1>2, <1>3, Zenon DEF AtRest
<1>7. Latest(v)'
  <2>1. CASE f.seq = seq[v]
    BY <1>1, <1>2, <1>3, <1>4, <2>1, RenderFacts, Zenon DEF Latest, AtRest
  <2>2. CASE f.seq # seq[v]
    BY <1>1, <1>2, <1>3, <1>4, <1>6, <2>2, Zenon DEF Latest
  <2> QED
    BY <2>1, <2>2, Zenon
<1>8. Outcome(v)'
  BY <1>1, <1>2, <1>4, RenderFacts, Zenon DEF Outcome
<1>9. ASSUME NEW w \in Views \ {v} PROVE Latest(w)' /\ Outcome(w)' /\ (AtRest(w)' <=> AtRest(w))
  BY <1>1, <1>2, <1>3, <1>4, <1>9, LatestFrame, OutcomeFrame, Zenon
<1>10. ThemeInv'
  <2>1. CASE v = "node" /\ f.seq = seq[v]
    <3>1. /\ drawn'["node"].ok <=> lib = "ready" /\ f.code \in Valid
          /\ drawn'["node"].gen = f.gen
      BY <1>1, <1>4, <2>1, RenderFacts
    <3>2. lib = "ready" /\ rendered.gen = gen => f.gen = gen
      BY <1>1, <2>1, Zenon DEF ThemeInv
    <3>3. \A g \in flights'["node"] : g \in flights["node"]
      BY <1>3, <2>1, Zenon
    <3>4. UNCHANGED <<seq, rendered, lib, gen>>
      BY <1>2, Zenon
    <3>5. lib' = "ready" /\ rendered'.gen = gen' =>
            \A g \in flights'["node"] : g.seq = seq'["node"] => g.gen = gen'
      BY <1>1, <3>3, <3>4, Zenon DEF ThemeInv
    <3> QED
      BY <1>1, <3>1, <3>2, <3>4, <3>5, Zenon DEF ThemeInv
  <2>2. CASE v = "node" /\ f.seq # seq[v]
    BY <1>1, <1>2, <1>3, <1>4, <1>6, <2>2, Zenon DEF ThemeInv
  <2>3. CASE v # "node"
    BY <1>1, <1>2, <1>3, <1>4, <1>9, <2>3, Zenon DEF ThemeInv, Views
  <2> QED
    BY <2>1, <2>2, <2>3, Zenon
<1> QED
  BY <1>5, <1>7, <1>8, <1>9, <1>10, Zenon DEF RendersInv, DiagramInv

LEMMA EditNodeStep ==
    ASSUME RendersInv, NEW c \in Codes, EditNode(c)
    PROVE  RendersInv'
<1>1. /\ DiagramTypes /\ ViewsInv /\ ThemeInv
      /\ \A v \in Views : Latest(v) /\ Outcome(v)
  BY Zenon DEF RendersInv, DiagramInv
<1>2. /\ source' = [source EXCEPT !["node"] = c]
      /\ timer' = [timer EXCEPT !["node"] = Scheduled(c)]
      /\ UNCHANGED <<open, seq, flights, drawn, rendered, lib, gen>>
  BY Zenon DEF EditNode
<1>3. Scheduled(c) \in BOOLEAN /\ (~Scheduled(c) => ~timer["node"] /\ rendered.code = c)
  BY <1>1, Zenon DEF Scheduled, DiagramTypes
<1>4. /\ source' \in [Views -> Codes] /\ timer' \in [Views -> BOOLEAN]
      /\ source'["node"] = c /\ timer'["node"] = Scheduled(c)
      /\ source'["dialog"] = source["dialog"] /\ timer'["dialog"] = timer["dialog"]
  BY <1>1, <1>2, <1>3, SMTT(30) DEF DiagramTypes, Views
<1>5. ~timer'["node"] => ~timer["node"] /\ source'["node"] = source["node"] /\ rendered.code = c
  BY <1>1, <1>3, <1>4, Zenon DEF ViewsInv
<1>6. DiagramTypes'
  BY <1>1, <1>2, <1>4, Zenon DEF DiagramTypes
<1>7. ViewsInv'
  BY <1>1, <1>2, <1>4, <1>5, SMTT(30) DEF ViewsInv
<1>8. AtRest("node")' => AtRest("node")
  BY <1>2, <1>5, Zenon DEF AtRest
<1>9. ASSUME NEW v \in Views PROVE Latest(v)'
  <2>1. CASE v = "node"
    BY <1>1, <1>2, <1>5, <1>8, <2>1, Zenon DEF Latest, AtRest
  <2>2. CASE v = "dialog"
    BY <1>1, <1>2, <1>4, <2>2, LatestFrame, Zenon
  <2> QED
    BY <1>9, <2>1, <2>2, SMTT(30) DEF Views
<1>10. \A v \in Views : Outcome(v)'
  BY <1>1, <1>2, OutcomeFrame, SMTT(30)
<1>11. ThemeInv'
  BY <1>1, <1>2, <1>8, Zenon DEF ThemeInv
<1> QED
  BY <1>6, <1>7, <1>9, <1>10, <1>11, Zenon DEF RendersInv, DiagramInv

LEMMA RunTimerStep ==
    ASSUME RendersInv, NEW v \in Views, RunTimer(v)
    PROVE  RendersInv'
<1>1. /\ DiagramTypes /\ ViewsInv /\ ThemeInv /\ source[v] \in Codes
      /\ \A w \in Views : Latest(w) /\ Outcome(w)
  BY Zenon DEF RendersInv, DiagramInv, DiagramTypes
<1>2. /\ timer[v] /\ timer' = [timer EXCEPT ![v] = FALSE] /\ Run(v, source[v])
      /\ rendered' = IF v = "node" THEN [code |-> source[v], gen |-> gen] ELSE rendered
      /\ UNCHANGED <<open, source, drawn, gen>>
  BY Zenon DEF RunTimer
<1>3. /\ timer' \in [Views -> BOOLEAN] /\ ~timer'[v]
      /\ \A w \in Views \ {v} : timer'[w] = timer[w]
  BY <1>1, <1>2, Zenon DEF DiagramTypes
<1>4. /\ rendered' \in [code : Codes, gen : Nat]
      /\ v = "node" => rendered'.code = source["node"] /\ rendered'.gen = gen
      /\ v # "node" => rendered' = rendered
  BY <1>1, <1>2, SMTT(30) DEF DiagramTypes
<1>5. DiagramTypes'
  BY <1>1, <1>2, <1>3, <1>4, RunFacts, SMTT(30) DEF DiagramTypes
<1>6. /\ \A w \in Views \ {v} : seq'[w] = seq[w] /\ flights'[w] = flights[w]
      /\ seq'[v] = seq[v] + 1 /\ seq[v] \in Nat
  BY <1>1, <1>2, RunFacts, Zenon DEF DiagramTypes
<1>7. v = "dialog" => open
  BY <1>1, <1>2, Zenon DEF ViewsInv
<1>8. ViewsInv'
  <2>1. CASE v = "node"
    <3>1. "dialog" \in Views \ {v}
      BY <2>1, Zenon DEF Views
    <3>2. /\ seq'["dialog"] = seq["dialog"] /\ flights'["dialog"] = flights["dialog"]
          /\ timer'["dialog"] = timer["dialog"]
      BY <1>3, <1>6, <3>1, Zenon
    <3>3. rendered'.code = source'["node"]
      BY <1>2, <1>4, <2>1, Zenon
    <3>4. seq'["node"] > 0
      BY <1>6, <2>1
    <3>5. UNCHANGED open
      BY <1>2, Zenon
    <3> QED
      BY <1>1, <3>2, <3>3, <3>4, <3>5, Zenon DEF ViewsInv
  <2>2. CASE v = "dialog"
    <3>1. "node" \in Views \ {v}
      BY <2>2, Zenon DEF Views
    <3>2. seq'["node"] = seq["node"] /\ timer'["node"] = timer["node"]
      BY <1>3, <1>6, <3>1, Zenon
    <3>3. rendered' = rendered /\ open' /\ UNCHANGED source
      BY <1>2, <1>4, <1>7, <2>2, Zenon
    <3> QED
      BY <1>1, <3>2, <3>3, Zenon DEF ViewsInv
  <2> QED
    BY <2>1, <2>2, Zenon DEF Views
<1>9. Latest(v)' /\ ~AtRest(v)'
  BY <1>1, <1>2, RunLatest, Zenon
<1>10. ASSUME NEW w \in Views \ {v} PROVE Latest(w)' /\ (AtRest(w)' <=> AtRest(w))
  BY <1>1, <1>2, <1>3, <1>6, <1>10, LatestFrame, Zenon
<1>11. /\ lib' \in {"ready", "failed"} <=> lib \in {"ready", "failed"}
       /\ lib' = "ready" <=> lib = "ready"
  BY <1>1, <1>2, RunFacts, Zenon
<1>12. \A w \in Views : Outcome(w)'
  BY <1>1, <1>2, <1>11, OutcomeFrame, Zenon
<1>13. ThemeInv'
  <2>1. CASE v = "node"
    <3>1. PICK f \in Flights : /\ flights'[v] = flights[v] \cup {f}
                               /\ f.seq = seq[v] + 1 /\ (lib = "ready" => f.gen = gen)
      BY <1>1, <1>2, RunFacts, Zenon
    <3>2. \A g \in flights[v] : g.seq \in Nat /\ g.seq <= seq[v]
      BY <1>1, SMTT(30) DEF DiagramTypes, Latest, Flights
    <3>3. lib' = "ready" => \A g \in flights'[v] : g.seq = seq'[v] => g.gen = gen'
      BY <1>2, <1>6, <1>11, <3>1, <3>2
    <3>4. rendered'.gen <= gen'
      BY <1>1, <1>2, <1>4, <2>1, SMTT(30) DEF DiagramTypes
    <3> QED
      BY <1>9, <2>1, <3>3, <3>4, SMTT(30) DEF ThemeInv
  <2>2. CASE v # "node"
    <3>1. "node" \in Views \ {v}
      BY <2>2, SMTT(30) DEF Views
    <3>2. (AtRest("node")' <=> AtRest("node")) /\ UNCHANGED <<rendered, drawn, gen>>
      BY <1>2, <1>4, <1>10, <2>2, <3>1, Zenon
    <3>3. seq'["node"] = seq["node"] /\ flights'["node"] = flights["node"]
      BY <1>6, <3>1, Zenon
    <3> QED
      BY <1>1, <1>11, <3>2, <3>3, Zenon DEF ThemeInv
  <2> QED
    BY <2>1, <2>2, SMTT(30)
<1> QED
  BY <1>5, <1>8, <1>9, <1>10, <1>12, <1>13, Zenon DEF RendersInv, DiagramInv

\* What the dialog does leaves the theme of the node's renders alone.
LEMMA ThemeFrame ==
    ASSUME ThemeInv, UNCHANGED <<rendered, gen>>, AtRest("node")' => AtRest("node"),
           seq'["node"] = seq["node"], flights'["node"] = flights["node"],
           drawn'["node"] = drawn["node"], lib' = "ready" <=> lib = "ready"
    PROVE  ThemeInv'
BY Zenon DEF ThemeInv

LEMMA OpenDialogStep ==
    ASSUME RendersInv, OpenDialog
    PROVE  RendersInv'
<1>1. /\ DiagramTypes /\ ViewsInv /\ ThemeInv /\ source["node"] \in Codes
      /\ \A v \in Views : Latest(v) /\ Outcome(v)
  BY Zenon DEF RendersInv, DiagramInv, DiagramTypes, Views
<1>2. /\ open' = TRUE /\ source' = [source EXCEPT !["dialog"] = source["node"]]
      /\ Run("dialog", source["node"])
      /\ UNCHANGED <<timer, drawn, rendered, gen>>
  BY Zenon DEF OpenDialog
<1>3. /\ source' \in [Views -> Codes]
      /\ source'["node"] = source["node"] /\ source'["dialog"] = source["node"]
  BY <1>1, <1>2, Zenon DEF DiagramTypes, Views
<1>4. /\ seq' \in [Views -> Nat] /\ flights' \in [Views -> SUBSET Flights]
      /\ lib' \in {"none", "loading", "ready", "failed"}
      /\ seq'["node"] = seq["node"] /\ flights'["node"] = flights["node"]
      /\ lib' \in {"ready", "failed"} <=> lib \in {"ready", "failed"}
      /\ lib' = "ready" <=> lib = "ready"
  BY <1>1, <1>2, RunFacts, Zenon DEF Views
<1>5. DiagramTypes'
  BY <1>1, <1>2, <1>3, <1>4, SMTT(30) DEF DiagramTypes
<1>6. ViewsInv'
  BY <1>1, <1>2, <1>3, <1>4, Zenon DEF ViewsInv
<1>7. Latest("node")' /\ (AtRest("node")' <=> AtRest("node"))
  BY <1>1, <1>2, <1>3, <1>4, LatestFrame, Zenon DEF Views
<1>8. Latest("dialog")'
  BY <1>1, <1>2, <1>3, RunLatest, Zenon DEF Views
<1>9. \A v \in Views : Outcome(v)'
  BY <1>1, <1>2, <1>4, OutcomeFrame, Zenon
<1>10. ThemeInv'
  BY <1>1, <1>2, <1>4, <1>7, ThemeFrame, Zenon
<1> QED
  BY <1>5, <1>6, <1>7, <1>8, <1>9, <1>10, Zenon DEF RendersInv, DiagramInv, Views

LEMMA OnInputStep ==
    ASSUME RendersInv, NEW c \in Codes, OnInput(c)
    PROVE  RendersInv'
<1>1. /\ DiagramTypes /\ ViewsInv /\ ThemeInv
      /\ \A v \in Views : Latest(v) /\ Outcome(v)
  BY Zenon DEF RendersInv, DiagramInv
<1>2. /\ open /\ source' = [source EXCEPT !["dialog"] = c]
      /\ timer' = [timer EXCEPT !["dialog"] = TRUE]
      /\ UNCHANGED <<open, seq, flights, drawn, rendered, lib, gen>>
  BY Zenon DEF OnInput
<1>3. /\ source' \in [Views -> Codes] /\ timer' \in [Views -> BOOLEAN]
      /\ source'["node"] = source["node"] /\ timer'["node"] = timer["node"] /\ timer'["dialog"]
  BY <1>1, <1>2, Zenon DEF DiagramTypes, Views
<1>4. DiagramTypes'
  BY <1>1, <1>2, <1>3, Zenon DEF DiagramTypes
<1>5. ViewsInv'
  BY <1>1, <1>2, <1>3, Zenon DEF ViewsInv
<1>6. Latest("node")' /\ (AtRest("node")' <=> AtRest("node"))
  BY <1>1, <1>2, <1>3, LatestFrame, Zenon DEF Views
<1>7. Latest("dialog")'
  BY <1>1, <1>2, <1>3, Zenon DEF Latest, AtRest, Views
<1>8. \A v \in Views : Outcome(v)'
  BY <1>1, <1>2, OutcomeFrame, Zenon
<1>9. ThemeInv'
  BY <1>1, <1>2, <1>6, ThemeFrame, Zenon
<1> QED
  BY <1>4, <1>5, <1>6, <1>7, <1>8, <1>9, Zenon DEF RendersInv, DiagramInv, Views

\* The dialog goes: with what it had under way, and without an effect on the node's.
LEMMA CloseFacts ==
    ASSUME DiagramTypes, CloseDialog
    PROVE  /\ open' = FALSE
           /\ seq' \in [Views -> Nat] /\ flights' \in [Views -> SUBSET Flights]
           /\ drawn' \in [Views -> Drawings \cup {None}]
           /\ seq'["dialog"] = 0 /\ flights'["dialog"] = {} /\ drawn'["dialog"] = None
           /\ seq'["node"] = seq["node"] /\ flights'["node"] = flights["node"]
           /\ drawn'["node"] = drawn["node"]
<1>1. seq' \in [Views -> Nat] /\ seq'["dialog"] = 0 /\ seq'["node"] = seq["node"]
  BY Zenon DEF CloseDialog, DiagramTypes, Views
<1>2. /\ flights' \in [Views -> SUBSET Flights]
      /\ flights'["dialog"] = {} /\ flights'["node"] = flights["node"]
  BY Zenon DEF CloseDialog, DiagramTypes, Views
<1>3. /\ drawn' \in [Views -> Drawings \cup {None}]
      /\ drawn'["dialog"] = None /\ drawn'["node"] = drawn["node"]
  BY Zenon DEF CloseDialog, DiagramTypes, Views
<1> QED
  BY <1>1, <1>2, <1>3, Zenon DEF CloseDialog

LEMMA ClosedView ==
    ASSUME seq'["dialog"] = 0, flights'["dialog"] = {}, drawn'["dialog"] = None
    PROVE  Latest("dialog")' /\ Outcome("dialog")'
<1>1. Outcome("dialog")'
  BY Zenon DEF Outcome
<1>2. ~(seq'["dialog"] > 0)
  OBVIOUS
<1>3. Latest("dialog")'
  BY <1>2, Zenon DEF Latest
<1> QED
  BY <1>1, <1>3, Zenon

LEMMA CancelStep ==
    ASSUME RendersInv, Cancel
    PROVE  RendersInv'
<1>1. /\ DiagramTypes /\ ViewsInv /\ ThemeInv
      /\ \A v \in Views : Latest(v) /\ Outcome(v)
  BY Zenon DEF RendersInv, DiagramInv
<1>2. /\ CloseDialog /\ timer' = [timer EXCEPT !["dialog"] = FALSE]
      /\ UNCHANGED <<source, rendered, lib, gen>>
  BY Zenon DEF Cancel
<1>3. timer' \in [Views -> BOOLEAN] /\ timer'["node"] = timer["node"] /\ ~timer'["dialog"]
  BY <1>1, <1>2, Zenon DEF DiagramTypes, Views
<1>4. DiagramTypes'
  BY <1>1, <1>2, <1>3, CloseFacts, Zenon DEF DiagramTypes
<1>5. ViewsInv'
  BY <1>1, <1>2, <1>3, CloseFacts, Zenon DEF ViewsInv
<1>6. Latest("node")' /\ (AtRest("node")' <=> AtRest("node")) /\ Outcome("node")'
  BY <1>1, <1>2, <1>3, CloseFacts, LatestFrame, OutcomeFrame, SMTT(30) DEF Views
<1>7. Latest("dialog")' /\ Outcome("dialog")'
  BY <1>1, <1>2, CloseFacts, ClosedView, Zenon
<1>8. ThemeInv'
  BY <1>1, <1>2, <1>6, CloseFacts, ThemeFrame, Zenon
<1> QED
  BY <1>4, <1>5, <1>6, <1>7, <1>8, Zenon DEF RendersInv, DiagramInv, Views

LEMMA SaveStep ==
    ASSUME RendersInv, Save
    PROVE  RendersInv'
<1> DEFINE c == source["dialog"]
<1>1. /\ DiagramTypes /\ ViewsInv /\ ThemeInv
      /\ \A v \in Views : Latest(v) /\ Outcome(v)
  BY Zenon DEF RendersInv, DiagramInv
<1>2. /\ CloseDialog /\ source' = [source EXCEPT !["node"] = c]
      /\ timer' = [v \in Views |-> v = "node" /\ Scheduled(c)]
      /\ UNCHANGED <<rendered, lib, gen>>
  BY Zenon DEF Save
<1>3. Scheduled(c) \in BOOLEAN /\ (~Scheduled(c) => ~timer["node"] /\ rendered.code = c)
  BY <1>1, Zenon DEF Scheduled, DiagramTypes
<1>4. /\ timer' \in [Views -> BOOLEAN]
      /\ timer'["node"] = Scheduled(c) /\ ~timer'["dialog"]
  BY <1>2, <1>3, Zenon DEF Views
<1>5. source' \in [Views -> Codes] /\ source'["node"] = c
  BY <1>1, <1>2, SMTT(30) DEF DiagramTypes, Views
<1>6. ~timer'["node"] => ~timer["node"] /\ source'["node"] = source["node"] /\ rendered.code = c
  BY <1>1, <1>3, <1>4, <1>5, Zenon DEF ViewsInv
<1>7. DiagramTypes'
  BY <1>1, <1>2, <1>4, <1>5, CloseFacts, Zenon DEF DiagramTypes
<1>8. ViewsInv'
  BY <1>1, <1>2, <1>4, <1>5, <1>6, CloseFacts, Zenon DEF ViewsInv
<1>9. AtRest("node")' => AtRest("node")
  BY <1>1, <1>2, <1>6, CloseFacts, Zenon DEF AtRest
<1>10. Latest("node")'
  BY <1>1, <1>2, <1>6, <1>9, CloseFacts, Zenon DEF Latest, AtRest, Views
<1>11. Outcome("node")'
  BY <1>1, <1>2, CloseFacts, OutcomeFrame, Zenon DEF Views
<1>12. Latest("dialog")' /\ Outcome("dialog")'
  BY <1>1, <1>2, CloseFacts, ClosedView, Zenon
<1>13. ThemeInv'
  BY <1>1, <1>2, <1>9, CloseFacts, ThemeFrame, Zenon
<1> QED
  BY <1>7, <1>8, <1>10, <1>11, <1>12, <1>13, Zenon DEF RendersInv, DiagramInv, Views

LEMMA RendersInitially == RenderingInit => RendersInv
<1> SUFFICES ASSUME RenderingInit PROVE RendersInv
  BY Zenon
<1> DEFINE f == [seq |-> 1, code |-> content, gen |-> None]
<1>1. /\ content \in Codes /\ gen = 0 /\ open = FALSE
      /\ source = [v \in Views |-> content] /\ timer = [v \in Views |-> FALSE]
      /\ seq = [v \in Views |-> IF v = "node" THEN 1 ELSE 0]
      /\ flights = [v \in Views |-> IF v = "node" THEN {f} ELSE {}]
      /\ drawn = [v \in Views |-> None] /\ rendered = [code |-> content, gen |-> 0]
      /\ lib \in {"none", "loading"}
  BY Zenon DEF RenderingInit
<1>2. f \in Flights /\ f.seq = 1 /\ f.code = content
  BY <1>1, Zenon DEF Flights
<1> HIDE DEF f
<1>3. DiagramTypes
  BY <1>1, <1>2, Zenon DEF DiagramTypes
<1>4. ViewsInv
  BY <1>1 DEF ViewsInv, Views
<1>5. ASSUME NEW v \in Views PROVE Latest(v) /\ Outcome(v)
  BY <1>1, <1>2, <1>5 DEF Latest, Outcome, AtRest
<1>6. ThemeInv
  <2>1. ~AtRest("node") /\ rendered.gen = 0
    BY <1>1, <1>2, Zenon DEF AtRest, Views
  <2> QED
    BY <1>1, <2>1 DEF ThemeInv
<1> QED
  BY <1>3, <1>4, <1>5, <1>6, Zenon DEF RendersInv, DiagramInv

LEMMA RendersStep == RendersInv /\ [RenderingNext]_renderingVars => RendersInv'
<1> SUFFICES ASSUME RendersInv, [RenderingNext]_renderingVars PROVE RendersInv'
  BY Zenon
<1>1. RenderingNext =>
        \/ UNCHANGED diagram
        \/ SetMermaidTheme \/ OpenDialog \/ Cancel \/ Save
        \/ \E c \in Codes : EditNode(c) \/ OnInput(c)
        \/ \E ok \in BOOLEAN : LoadMermaid(ok)
        \/ \E v \in Views : RunTimer(v) \/ \E f \in flights[v] : Deliver(v, f)
  BY Zenon DEF RenderingNext, Progress, Mount, SwitchMode, PreviewReady, ContentUpdate, UnmountPreview
<1>2. UNCHANGED renderingVars => UNCHANGED diagram
  BY Zenon DEF renderingVars
<1> QED
  BY <1>1, <1>2, RendersFrame, LoadStep, ThemeStep, DeliverStep, EditNodeStep, RunTimerStep,
     OpenDialogStep, OnInputStep, CancelStep, SaveStep, Zenon

\* A diagram with nothing under way shows its present source or the error of it,
\* in whatever order debounces, renders and the import of the runtime end
\* (scheduleRender of the node view, _scheduleRender of the dialog).
THEOREM DiagramFreshCorrect == RenderingSpec => []DiagramFresh
<1>1. RendersInv => DiagramFresh
  BY Zenon DEF RendersInv, DiagramInv, DiagramFresh, Latest, Outcome
<1> QED
  BY <1>1, RendersInitially, RendersStep, PTL DEF RenderingSpec

\* A diagram with nothing under way whose theme counts as rendered was drawn under
\* it (lastRenderedThemeGen against setMermaidTheme).
THEOREM ThemeFreshCorrect == RenderingSpec => []ThemeFresh
<1>1. RendersInv => ThemeFresh
  BY Zenon DEF RendersInv, ThemeInv, ThemeFresh
<1> QED
  BY <1>1, RendersInitially, RendersStep, PTL DEF RenderingSpec

\* Every render of a view was called for by an edit or by the opening of the
\* dialog, and so is every one a debounce or a save can still start.
One(b) == IF b THEN 1 ELSE 0
RunsCounted ==
    /\ edits \in 0 .. MaxEdits /\ gen <= MaxThemes
    /\ seq["node"] + One(timer["node"]) + One(open) <= edits + 1
    /\ seq["dialog"] + One(timer["dialog"]) <= edits

PreviewTypes ==
    /\ content \in Codes /\ elementMode \in {"source", "preview"}
    /\ active \in {None, "source", "preview"} /\ iframe \in {"none", "loading", "ready"}
    /\ waiter \in {None, "mount", "switch"} /\ (iframe = "loading" <=> waiter # None)

LEMMA BoundsTyped == MaxEdits \in Nat /\ MaxThemes \in Nat
BY RenderingAssumption, Zenon

LEMMA CountStep ==
    ASSUME RendersInv, RunsCounted, [RenderingNext]_renderingVars
    PROVE  RunsCounted'
<1>1. /\ DiagramTypes /\ ViewsInv /\ edits \in Nat /\ MaxEdits \in Nat /\ MaxThemes \in Nat
      /\ \A v \in Views : seq[v] \in Nat /\ timer[v] \in BOOLEAN /\ source[v] \in Codes
      /\ open \in BOOLEAN /\ gen \in Nat
  <2>1. DiagramTypes /\ ViewsInv
    BY Zenon DEF RendersInv, DiagramInv
  <2>2. edits \in Nat /\ MaxEdits \in Nat /\ MaxThemes \in Nat
    BY BoundsTyped DEF RunsCounted
  <2>3. /\ \A v \in Views : seq[v] \in Nat /\ timer[v] \in BOOLEAN /\ source[v] \in Codes
        /\ open \in BOOLEAN /\ gen \in Nat
    BY <2>1, Zenon DEF DiagramTypes
  <2> QED
    BY <2>1, <2>2, <2>3, Zenon
<1>2. CASE UNCHANGED <<open, timer, seq, gen>> /\ edits' \in {edits, edits + 1} /\ edits' <= MaxEdits
  BY <1>1, <1>2 DEF RunsCounted, One, Views
<1>3. CASE SetMermaidTheme
  BY <1>1, <1>3 DEF SetMermaidTheme, RunsCounted
<1>4. ASSUME NEW c \in Codes, EditNode(c) PROVE RunsCounted'
  <2>1. UNCHANGED <<open, seq, gen>> /\ edits' = edits + 1 /\ edits < MaxEdits
    BY <1>4, Zenon DEF EditNode
  <2>2. timer'["dialog"] = timer["dialog"]
    BY <1>1, <1>4, Zenon DEF EditNode, DiagramTypes, Views
  <2> QED
    BY <1>1, <2>1, <2>2 DEF RunsCounted, One, Views
<1>5. ASSUME NEW v \in Views, RunTimer(v) PROVE RunsCounted'
  <2>1. UNCHANGED <<open, edits, gen>> /\ timer[v] /\ Run(v, source[v])
    BY <1>5, Zenon DEF RunTimer
  <2>2. ~timer'[v] /\ \A w \in Views \ {v} : timer'[w] = timer[w]
    BY <1>1, <1>5, SMTT(30) DEF RunTimer, DiagramTypes
  <2>3. seq'[v] = seq[v] + 1 /\ \A w \in Views \ {v} : seq'[w] = seq[w]
    BY <1>1, <2>1, RunFacts, Zenon
  <2> QED
    BY <1>1, <2>1, <2>2, <2>3 DEF RunsCounted, One, Views
<1>6. CASE OpenDialog
  <2>1. /\ UNCHANGED <<timer, gen>> /\ edits' = edits + 1 /\ edits < MaxEdits
        /\ ~open /\ open' /\ Run("dialog", source["node"])
    BY <1>6, Zenon DEF OpenDialog
  <2>2. seq'["dialog"] = seq["dialog"] + 1 /\ seq'["node"] = seq["node"]
    BY <1>1, <2>1, RunFacts, Zenon DEF Views
  <2> QED
    BY <1>1, <2>1, <2>2, SMTT(30) DEF RunsCounted, One, Views, ViewsInv
<1>7. ASSUME NEW c \in Codes, OnInput(c) PROVE RunsCounted'
  <2>1. UNCHANGED <<open, seq, gen>> /\ edits' = edits + 1 /\ edits < MaxEdits
    BY <1>7, Zenon DEF OnInput
  <2>2. timer'["node"] = timer["node"] /\ timer'["dialog"]
    BY <1>1, <1>7, Zenon DEF OnInput, DiagramTypes, Views
  <2>3. ~timer["dialog"] \/ timer["dialog"]
    BY Zenon
  <2> QED
    BY <1>1, <2>1, <2>2, <2>3 DEF RunsCounted, One, Views
<1>8. CASE Cancel \/ Save
  <2>1. /\ UNCHANGED <<edits, gen>> /\ open /\ ~open' /\ seq'["dialog"] = 0 /\ seq'["node"] = seq["node"]
    BY <1>1, <1>8, CloseFacts, Zenon DEF Cancel, Save
  <2>2. ~timer'["dialog"] /\ (timer'["node"] = timer["node"] \/ Save)
    BY <1>1, <1>8, Zenon DEF Cancel, Save, DiagramTypes, Views
  <2> QED
    BY <1>1, <2>1, <2>2 DEF RunsCounted, One, Views
<1>9. ASSUME UNCHANGED diagram, edits' \in {edits, edits + 1}, edits' <= MaxEdits
      PROVE  RunsCounted'
  BY <1>2, <1>9, Zenon DEF diagram
<1>10. edits \in Nat /\ MaxEdits \in Nat /\ edits <= MaxEdits
  BY BoundsTyped DEF RunsCounted
<1>11. CASE (Mount \/ PreviewReady \/ UnmountPreview) \/ \E m \in {"source", "preview"} : SwitchMode(m)
  <2>1. UNCHANGED <<edits, diagram>>
    BY <1>11, Zenon DEF Mount, PreviewReady, UnmountPreview, SwitchMode
  <2> QED
    BY <1>9, <1>10, <2>1, Zenon
<1>12. ASSUME NEW c \in Codes, ContentUpdate(c) PROVE RunsCounted'
  <2>1. UNCHANGED diagram /\ edits' = edits + 1 /\ edits < MaxEdits
    BY <1>12, Zenon DEF ContentUpdate
  <2> QED
    BY <1>9, <1>10, <2>1
<1>13. CASE (\E ok \in BOOLEAN : LoadMermaid(ok)) \/ \E v \in Views : \E f \in flights[v] : Deliver(v, f)
  <2>1. UNCHANGED <<edits, open, timer, seq, gen>>
    BY <1>13, Zenon DEF LoadMermaid, Deliver
  <2> QED
    BY <1>2, <1>10, <2>1, Zenon
<1>14. CASE UNCHANGED renderingVars
  <2>1. UNCHANGED <<edits, diagram>>
    BY <1>14, Zenon DEF renderingVars
  <2> QED
    BY <1>9, <1>10, <2>1, Zenon
<1> QED
  BY <1>3, <1>4, <1>5, <1>6, <1>7, <1>8, <1>11, <1>12, <1>13, <1>14, Zenon DEF RenderingNext, Progress

LEMMA PreviewTypesStep ==
    ASSUME PreviewTypes, PreviewInv, [RenderingNext]_renderingVars
    PROVE  PreviewTypes'
<1>1. CASE UNCHANGED preview
  BY <1>1, Zenon DEF PreviewTypes, preview
<1>2. CASE Mount
  BY <1>2, RenderingAssumption, Zenon DEF Mount, Show, PreviewTypes
<1>3. ASSUME NEW m \in {"source", "preview"}, SwitchMode(m) PROVE PreviewTypes'
  BY <1>3, RenderingAssumption, Zenon DEF SwitchMode, Show, PreviewTypes
<1>4. CASE PreviewReady
  BY <1>4, Zenon DEF PreviewReady, Show, PreviewTypes
<1>5. ASSUME NEW c \in Codes, ContentUpdate(c) PROVE PreviewTypes'
  BY <1>5, Zenon DEF ContentUpdate, PreviewTypes
<1>6. CASE UnmountPreview
  BY <1>6, Zenon DEF UnmountPreview, PreviewTypes
<1>7. RenderingNext =>
        \/ Mount \/ PreviewReady \/ UnmountPreview \/ UNCHANGED preview
        \/ \E m \in {"source", "preview"} : SwitchMode(m)
        \/ \E c \in Codes : ContentUpdate(c)
  BY Zenon DEF RenderingNext, SetMermaidTheme, EditNode, OpenDialog, OnInput, Cancel, Save, Progress,
         LoadMermaid, RunTimer, Deliver
<1>8. UNCHANGED renderingVars => UNCHANGED preview
  BY Zenon DEF renderingVars
<1> QED
  BY <1>1, <1>2, <1>3, <1>4, <1>5, <1>6, <1>7, <1>8, Zenon

\* The renderers' variables keep their types, and the number of renders is bounded
\* by the edits: an edit or an opened dialog never starts more than one (the
\* debounce of scheduleRender and _scheduleRender).
THEOREM RenderingTypeCorrect == RenderingSpec => []RenderingTypeOK
<1> DEFINE I == RendersInv /\ RunsCounted /\ PreviewInv /\ PreviewTypes
<1>1. RenderingInit => I
  <2> SUFFICES ASSUME RenderingInit PROVE I
    BY Zenon
  <2>1. RunsCounted
    <3>1. /\ edits = 0 /\ gen = 0 /\ open = FALSE /\ seq["node"] = 1 /\ seq["dialog"] = 0
          /\ timer["node"] = FALSE /\ timer["dialog"] = FALSE
      BY Zenon DEF RenderingInit, Views
    <3> QED
      BY <3>1, BoundsTyped DEF RunsCounted, One
  <2>2. PreviewInv
    BY Zenon DEF RenderingInit, PreviewInv, PreviewFresh, ModesAgree
  <2>3. PreviewTypes
    BY Zenon DEF RenderingInit, PreviewTypes
  <2> QED
    BY <2>1, <2>2, <2>3, RendersInitially, Zenon
<1>2. I /\ [RenderingNext]_renderingVars => I'
  BY RendersStep, CountStep, PreviewStep, PreviewTypesStep, Zenon
<1>3. I => RenderingTypeOK
  <2> SUFFICES ASSUME I PROVE RenderingTypeOK
    BY Zenon
  <2>1. DiagramTypes /\ RunsCounted /\ PreviewTypes
    BY Zenon DEF RendersInv, DiagramInv
  <2>2. /\ seq["node"] \in 0 .. MaxEdits + 2 /\ seq["dialog"] \in 0 .. MaxEdits + 2
        /\ gen \in 0 .. MaxThemes
    <3>1. seq["node"] \in Nat /\ seq["dialog"] \in Nat /\ gen \in Nat
      BY <2>1, Zenon DEF DiagramTypes, Views
    <3>2. One(timer["node"]) \in 0 .. 1 /\ One(open) \in 0 .. 1 /\ One(timer["dialog"]) \in 0 .. 1
      BY DEF One
    <3> QED
      BY <2>1, <3>1, <3>2, BoundsTyped DEF RunsCounted
  <2>3. \A v \in Views : source[v] \in Codes /\ timer[v] \in BOOLEAN /\ seq[v] \in 0 .. MaxEdits + 2
    BY <2>1, <2>2, Zenon DEF DiagramTypes, Views
  <2> QED
    BY <2>1, <2>2, <2>3, Zenon DEF DiagramTypes, RunsCounted, PreviewTypes, RenderingTypeOK
<1> HIDE DEF I
<1> QED
  BY <1>1, <1>2, <1>3, PTL DEF RenderingSpec

=============================================================================
