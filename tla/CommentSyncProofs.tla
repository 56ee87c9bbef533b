---- MODULE CommentSyncProofs ----
(***************************************************************************)
(* Proofs about CommentSync, for any number of threads, replies and        *)
(* overlapping calls of _persist.                                          *)
(***************************************************************************)
EXTENDS CommentSync, FiniteSetTheorems, TLAPS

----
(***************************************************************************)
(* Sequences used as JavaScript sets, and sets put in order.               *)
(***************************************************************************)

\* A sequence of length 0 is the empty one.
LEMMA EmptyFacts ==
    ASSUME NEW S
    PROVE  \A s \in Seq(S) : Len(s) = 0 <=> s = <<>>
  OBVIOUS

\* Drop takes the one occurrence of e out of s and keeps the rest.
LEMMA DropFacts ==
    ASSUME NEW S, NEW s \in Seq(S), NEW e, IsInjective(s)
    PROVE  LET r == Drop(s, e)
           IN  /\ r \in Seq(S)
               /\ IsInjective(r)
               /\ \A x : Contains(r, x) <=> Contains(s, x) /\ x # e
<1>1. CASE \E j \in 1 .. Len(s) : s[j] = e
  <2> DEFINE j == CHOOSE i \in 1 .. Len(s) : s[i] = e
             a == SubSeq(s, 1, j - 1)
             b == SubSeq(s, j + 1, Len(s))
             r == a \o b
  <2>1. j \in 1 .. Len(s) /\ s[j] = e
    BY <1>1, Zenon
  <2>4. Drop(s, e) = r
    BY <1>1, Zenon DEF Drop, Contains
  <2> HIDE DEF j
  <2>5. /\ a \in Seq(S) /\ Len(a) = j - 1
        /\ \A i \in 1 .. j - 1 : a[i] = s[i]
    BY <2>1
  <2>6. /\ b \in Seq(S) /\ Len(b) = Len(s) - j
        /\ \A i \in 1 .. Len(s) - j : b[i] = s[i + j]
    BY <2>1
  <2>0. r = a \o b
    BY Zenon
  <2> HIDE DEF a, b, r
  <2>7. r \in Seq(S) /\ Len(r) = Len(s) - 1
    BY <2>0, <2>1, <2>5, <2>6
  <2>8. ASSUME NEW i \in 1 .. Len(r) PROVE r[i] = IF i < j THEN s[i] ELSE s[i + 1]
    <3>1. CASE i < j
      <4>1. r[i] = a[i] /\ i \in 1 .. j - 1
        BY <2>0, <2>1, <2>5, <2>6, <2>7, <3>1
      <4> QED
        BY <2>5, <3>1, <4>1, Zenon
    <3>2. CASE ~(i < j)
      <4>1. r[i] = b[i - (j - 1)] /\ i - (j - 1) \in 1 .. Len(s) - j
        BY <2>0, <2>1, <2>5, <2>6, <2>7, <3>2
      <4>2. b[i - (j - 1)] = s[(i - (j - 1)) + j]
        BY <2>6, <4>1, Zenon
      <4>3. (i - (j - 1)) + j = i + 1
        BY <2>1, <2>7
      <4> QED
        BY <3>2, <4>1, <4>2, <4>3, Zenon
    <3> QED
      BY <3>1, <3>2, Zenon
  <2>9. \A x, y \in 1 .. Len(s) : s[x] = s[y] => x = y
    BY DEF IsInjective
  <2>10. IsInjective(r)
    <3>1. SUFFICES ASSUME NEW k \in 1 .. Len(r), NEW l \in 1 .. Len(r), r[k] = r[l] PROVE k = l
      BY <2>7 DEF IsInjective
    <3> QED
      BY <2>1, <2>7, <2>8, <2>9, <3>1
  <2>11. ASSUME NEW x, Contains(r, x) PROVE Contains(s, x) /\ x # e
    <3>1. PICK i \in 1 .. Len(r) : r[i] = x
      BY <2>11, Zenon DEF Contains
    <3> QED
      BY <2>1, <2>7, <2>8, <2>9, <3>1 DEF Contains
  <2>12. ASSUME NEW x, Contains(s, x), x # e PROVE Contains(r, x)
    <3>1. PICK k \in 1 .. Len(s) : s[k] = x
      BY <2>12, Zenon DEF Contains
    <3>2. CASE k < j
      <4>1. k \in 1 .. Len(r) /\ r[k] = s[k]
        BY <2>1, <2>7, <2>8, <3>2
      <4> QED
        BY <3>1, <4>1, Zenon DEF Contains
    <3>3. CASE k > j
      <4>1. k - 1 \in 1 .. Len(r) /\ r[k - 1] = s[k]
        BY <2>1, <2>7, <2>8, <3>3
      <4> QED
        BY <3>1, <4>1, Zenon DEF Contains
    <3> QED
      BY <2>1, <2>12, <3>1, <3>2, <3>3
  <2> QED
    BY <2>4, <2>7, <2>10, <2>11, <2>12, Zenon
<1>2. CASE ~\E j \in 1 .. Len(s) : s[j] = e
  BY <1>2, Zenon DEF Drop, Contains
<1> QED
  BY <1>1, <1>2, Zenon

\* Append puts e at the end of s.
LEMMA AppendFacts ==
    ASSUME NEW S, NEW s \in Seq(S), NEW e \in S
    PROVE  /\ Append(s, e) \in Seq(S) /\ Append(s, e) # <<>>
           /\ \A x : Contains(Append(s, e), x) <=> Contains(s, x) \/ x = e
           /\ IsInjective(s) /\ ~Contains(s, e) => IsInjective(Append(s, e))
<1> DEFINE r == Append(s, e)
<1>1. /\ r \in Seq(S) /\ Len(r) = Len(s) + 1 /\ r[Len(s) + 1] = e
      /\ \A i \in 1 .. Len(s) : r[i] = s[i]
  OBVIOUS
<1>2. r # <<>>
  BY <1>1
<1> HIDE DEF r
<1>3. \A x : Contains(r, x) <=> Contains(s, x) \/ x = e
  BY <1>1 DEF Contains
<1>4. ASSUME IsInjective(s), ~Contains(s, e) PROVE IsInjective(r)
  <2>1. SUFFICES ASSUME NEW k \in 1 .. Len(r), NEW l \in 1 .. Len(r), r[k] = r[l] PROVE k = l
    BY <1>1 DEF IsInjective
  <2>2. /\ \A x, y \in 1 .. Len(s) : s[x] = s[y] => x = y
        /\ \A x \in 1 .. Len(s) : s[x] # e
    BY <1>4 DEF IsInjective, Contains
  <2> QED
    BY <1>1, <2>1, <2>2
<1> QED
  BY <1>1, <1>2, <1>3, <1>4, Zenon DEF r

\* Set.add keeps what is there and is idempotent.
LEMMA AddFacts ==
    ASSUME NEW q \in Seq(Keys), IsInjective(q), NEW k \in Keys
    PROVE  /\ Add(q, k) \in Seq(Keys) /\ IsInjective(Add(q, k)) /\ Add(q, k) # <<>>
           /\ \A x : Contains(Add(q, k), x) <=> Contains(q, x) \/ x = k
<1>1. CASE Contains(q, k)
  BY <1>1 DEF Add, Contains
<1>2. CASE ~Contains(q, k)
  BY <1>2, AppendFacts, Zenon DEF Add
<1> QED
  BY <1>1, <1>2, Zenon

\* Head and Tail split a queue.
LEMMA SplitFacts ==
    ASSUME NEW S, NEW s \in Seq(S), s # <<>>
    PROVE  /\ Head(s) \in S /\ Tail(s) \in Seq(S)
           /\ Len(Tail(s)) = Len(s) - 1
           /\ \A i \in 1 .. Len(s) - 1 : Tail(s)[i] = s[i + 1]
           /\ Head(s) = s[1]
           /\ Len(s) > 1 <=> Tail(s) # <<>>
           /\ \A x : Contains(s, x) <=> x = Head(s) \/ Contains(Tail(s), x)
           /\ IsInjective(s) => IsInjective(Tail(s)) /\ ~Contains(Tail(s), Head(s))
<1>1. /\ Head(s) \in S /\ Tail(s) \in Seq(S) /\ Head(s) = s[1]
      /\ Len(Tail(s)) = Len(s) - 1 /\ Len(s) >= 1
      /\ \A i \in 1 .. Len(s) - 1 : Tail(s)[i] = s[i + 1]
  OBVIOUS
<1>2. ASSUME NEW x, Contains(s, x), x # Head(s) PROVE Contains(Tail(s), x)
  <2>1. PICK i \in 1 .. Len(s) : s[i] = x
    BY <1>2, Zenon DEF Contains
  <2>2. i - 1 \in 1 .. Len(Tail(s)) /\ Tail(s)[i - 1] = x
    BY <1>1, <1>2, <2>1
  <2> QED
    BY <2>2, Zenon DEF Contains
<1>3. ASSUME NEW x, Contains(Tail(s), x) PROVE Contains(s, x)
  <2>1. PICK i \in 1 .. Len(Tail(s)) : Tail(s)[i] = x
    BY <1>3, Zenon DEF Contains
  <2>2. i + 1 \in 1 .. Len(s) /\ s[i + 1] = x
    BY <1>1, <2>1
  <2> QED
    BY <2>2, Zenon DEF Contains
<1>4. Contains(s, Head(s))
  BY <1>1 DEF Contains
<1>5. Len(s) > 1 <=> Tail(s) # <<>>
  <2>1. Len(Tail(s)) = 0 <=> Tail(s) = <<>>
    BY <1>1, EmptyFacts, Zenon
  <2> QED
    BY <1>1, <2>1
<1>6. ASSUME IsInjective(s) PROVE IsInjective(Tail(s)) /\ ~Contains(Tail(s), Head(s))
  <2>1. \A x, y \in 1 .. Len(s) : s[x] = s[y] => x = y
    BY <1>6 DEF IsInjective
  <2>2. ~Contains(Tail(s), Head(s))
    BY <1>1, <2>1 DEF Contains
  <2>3. SUFFICES ASSUME NEW k \in 1 .. Len(s) - 1, NEW l \in 1 .. Len(s) - 1,
                        Tail(s)[k] = Tail(s)[l]
                 PROVE  k = l
    BY <1>1, <2>2 DEF IsInjective
  <2> QED
    BY <1>1, <2>1, <2>3
<1> QED
  BY <1>1, <1>2, <1>3, <1>4, <1>5, <1>6, Zenon

\* The empty queue and a queue of one.
LEMMA SmallFacts ==
    /\ \A x : ~Contains(<<>>, x)
    /\ IsInjective(<<>>)
    /\ \A S : <<>> \in Seq(S)
    /\ \A S : \A e \in S :
          /\ <<e>> \in Seq(S) /\ <<e>> # <<>> /\ IsInjective(<<e>>)
          /\ Head(<<e>>) = e /\ Tail(<<e>>) = <<>>
          /\ \A x : Contains(<<e>>, x) <=> x = e
<1>1. \A x : ~Contains(<<>>, x)
  BY DEF Contains
<1>2. IsInjective(<<>>)
  BY DEF IsInjective
<1>3. ASSUME NEW S, NEW e \in S
      PROVE  /\ <<e>> \in Seq(S) /\ <<e>> # <<>> /\ IsInjective(<<e>>)
             /\ Head(<<e>>) = e /\ Tail(<<e>>) = <<>>
             /\ \A x : Contains(<<e>>, x) <=> x = e
  <2> DEFINE q == <<e>>
  <2>1. q \in Seq(S) /\ Len(q) = 1 /\ q[1] = e /\ Tail(q) = <<>> /\ Head(q) = e
    OBVIOUS
  <2>2. q # <<>>
    BY Zenon
  <2> HIDE DEF q
  <2>3. IsInjective(q)
    BY <2>1 DEF IsInjective
  <2>4. \A x : Contains(q, x) <=> x = e
    BY <2>1 DEF Contains
  <2> QED
    BY <2>1, <2>2, <2>3, <2>4, Zenon DEF q
<1>4. \A S : <<>> \in Seq(S)
  OBVIOUS
<1> QED
  BY <1>1, <1>2, <1>3, <1>4, Zenon

\* One queue after another.
LEMMA ConcatFacts ==
    ASSUME NEW S, NEW a \in Seq(S), NEW b \in Seq(S)
    PROVE  /\ a \o b \in Seq(S)
           /\ \A x : Contains(a \o b, x) <=> Contains(a, x) \/ Contains(b, x)
           /\ IsInjective(a) /\ IsInjective(b) /\ (\A x : ~(Contains(a, x) /\ Contains(b, x)))
                 => IsInjective(a \o b)
<1> DEFINE r == a \o b
<1>0. r = a \o b
  BY Zenon
<1> HIDE DEF r
<1>1. /\ r \in Seq(S) /\ Len(r) = Len(a) + Len(b)
      /\ \A i \in 1 .. Len(a) : r[i] = a[i]
      /\ \A i \in Len(a) + 1 .. Len(a) + Len(b) : r[i] = b[i - Len(a)]
  BY <1>0
<1>2. ASSUME NEW x, Contains(r, x) PROVE Contains(a, x) \/ Contains(b, x)
  <2>1. PICK i \in 1 .. Len(r) : r[i] = x
    BY <1>2, Zenon DEF Contains
  <2>2. CASE i <= Len(a)
    BY <1>1, <2>1, <2>2 DEF Contains
  <2>3. CASE i > Len(a)
    <3>1. i - Len(a) \in 1 .. Len(b) /\ b[i - Len(a)] = x
      BY <1>1, <2>1, <2>3
    <3> QED
      BY <3>1, Zenon DEF Contains
  <2> QED
    BY <1>1, <2>1, <2>2, <2>3
<1>3. ASSUME NEW x, Contains(a, x) PROVE Contains(r, x)
  BY <1>1, <1>3 DEF Contains
<1>4. ASSUME NEW x, Contains(b, x) PROVE Contains(r, x)
  <2>1. PICK i \in 1 .. Len(b) : b[i] = x
    BY <1>4, Zenon DEF Contains
  <2>2. /\ i + Len(a) \in 1 .. Len(r) /\ i + Len(a) \in Len(a) + 1 .. Len(a) + Len(b)
        /\ (i + Len(a)) - Len(a) = i
    BY <1>1, <2>1
  <2>3. r[i + Len(a)] = x
    BY <1>1, <2>1, <2>2, Zenon
  <2> QED
    BY <2>2, <2>3, Zenon DEF Contains
<1>5. ASSUME IsInjective(a), IsInjective(b), \A x : ~(Contains(a, x) /\ Contains(b, x))
      PROVE  IsInjective(r)
  <2>1. /\ \A x, y \in 1 .. Len(a) : a[x] = a[y] => x = y
        /\ \A x, y \in 1 .. Len(b) : b[x] = b[y] => x = y
        /\ \A x \in 1 .. Len(a), y \in 1 .. Len(b) : a[x] # b[y]
    BY <1>5 DEF IsInjective, Contains
  <2>2. SUFFICES ASSUME NEW k \in 1 .. Len(r), NEW l \in 1 .. Len(r), r[k] = r[l] PROVE k = l
    BY <1>1 DEF IsInjective
  <2>3. CASE k <= Len(a) /\ l <= Len(a)
    BY <1>1, <2>1, <2>2, <2>3
  <2>4. CASE k > Len(a) /\ l > Len(a)
    <3>1. /\ k - Len(a) \in 1 .. Len(b) /\ r[k] = b[k - Len(a)]
          /\ l - Len(a) \in 1 .. Len(b) /\ r[l] = b[l - Len(a)]
      BY <1>1, <2>4
    <3>2. k - Len(a) = l - Len(a)
      BY <2>1, <2>2, <3>1, Zenon
    <3> QED
      BY <1>1, <3>2
  <2>5. CASE k <= Len(a) /\ l > Len(a)
    <3>1. l - Len(a) \in 1 .. Len(b) /\ r[l] = b[l - Len(a)] /\ r[k] = a[k] /\ k \in 1 .. Len(a)
      BY <1>1, <2>5
    <3> QED
      BY <2>1, <2>2, <3>1, Zenon
  <2>6. CASE k > Len(a) /\ l <= Len(a)
    <3>1. k - Len(a) \in 1 .. Len(b) /\ r[k] = b[k - Len(a)] /\ r[l] = a[l] /\ l \in 1 .. Len(a)
      BY <1>1, <2>6
    <3> QED
      BY <2>1, <2>2, <3>1, Zenon
  <2> QED
    <3>1. k \in Nat /\ l \in Nat /\ Len(a) \in Nat
      BY <1>1
    <3> QED
      BY <2>3, <2>4, <2>5, <2>6, <3>1
<1> QED
  BY <1>0, <1>1, <1>2, <1>3, <1>4, <1>5, Zenon

\* Listing lists a finite set, each element once.
LEMMA ListingFacts ==
    ASSUME NEW S, IsFiniteSet(S)
    PROVE  LET q == Listing(S)
           IN  /\ q \in Seq(S) /\ IsInjective(q)
               /\ \A x : Contains(q, x) <=> x \in S
<1> DEFINE n == Cardinality(S)
           q == Listing(S)
<1>1. n \in Nat /\ \E f \in [1 .. n -> S] : IsInjective(f)
  BY FS_CardinalityType, Zenon DEF ExistsBijection, Bijection, Injection
<1>2. q \in [1 .. n -> S] /\ IsInjective(q)
  BY <1>1, Zenon DEF Listing
<1>3. q \in Seq(S) /\ Len(q) = n
  BY <1>1, <1>2
<1>4. q \in Injection(1 .. n, S)
  BY <1>2, Zenon DEF Injection
<1>5. IsFiniteSet(1 .. n) /\ Cardinality(1 .. n) = n
  BY <1>1, FS_Interval
<1>6. q \in Surjection(1 .. n, S)
  BY <1>4, <1>5, FS_Injection, Zenon
<1> HIDE DEF q
<1>7. \A x : Contains(q, x) <=> x \in S
  BY <1>2, <1>3, <1>6, Zenon DEF Contains, Surjection
<1> QED
  BY <1>2, <1>3, <1>7, Zenon DEF q

----
(***************************************************************************)
(* The inductive invariant.                                                *)
(***************************************************************************)

CreateRequest == Request("create", None)
DeleteRequest == Request("delete", None)

\* The shape of a call of _persist: a key and its requests exist exactly while a
\* request is out; a create or a deletion is the only request of its key.
CallShape(d) ==
    /\ d.at \in {"idle", "running"} =>
          /\ d.key = None /\ d.snapshot = None /\ d.plan = <<>>
          /\ d.conflict = FALSE /\ d.overtaken = FALSE
    /\ d.at = "idle" => d.keys = <<>> /\ d.failed = <<>>
    /\ d.at \in {"sent", "answered"} =>
          /\ d.key \in Keys /\ d.plan # <<>> /\ IsInjective(d.plan)
          /\ d.key.deletes => d.plan = <<DeleteRequest>>
          /\ ~d.key.deletes =>
                /\ d.snapshot \in StoredThread
                /\ \/ d.plan = <<CreateRequest>>
                   \/ \A x : Contains(d.plan, x) =>
                        \/ x.kind = "reply" /\ x.reply \in d.snapshot.replies
                        \/ x.kind = "status"
                        \/ x.kind = "decision" /\ Decided(d.snapshot)
          /\ d.conflict => d.at = "answered" /\ d.plan = <<CreateRequest>>

Shapes ==
    /\ \A i \in Drains : CallShape(drain[i])
    /\ poll.at = "fetched" => poll.thread \in Threads /\ poll.wire \in StoredThread

Typed == TypeOK /\ Shapes

Active(i, t) == drain[i].at \in {"sent", "answered"} /\ drain[i].key = Update(t)

----
(***************************************************************************)
(* Types of the operators.                                                 *)
(***************************************************************************)

\* Keys name the threads.
LEMMA KeyFacts ==
    /\ \A t \in Threads : Update(t) \in Keys /\ Deletion(t) \in Keys
    /\ \A k \in Keys : k.thread \in Threads /\ (~k.deletes => k = Update(k.thread))
    /\ \A t, u : Update(t) = Update(u) => t = u
    /\ \A t, u : Update(t) # Deletion(u)
    /\ \A t : Update(t).thread = t
  BY DEF Update, Deletion, Keys

\* The items of a stored thread.
LEMMA ItemFacts ==
    ASSUME NEW s \in StoredThread
    PROVE  /\ Items(s) \subseteq Contents
           /\ {<<"mark", m>> : m \in s.marks} \subseteq Contents
           /\ \A x : x \in Items(s) <=>
                \/ \E r \in s.replies \ s.gone : x = <<"reply", r>>
                \/ x = <<"status", s.status>>
                \/ s.decision \in Verdicts /\ x = <<"decision", s.decision>>
                \/ \E m \in s.marks : x = <<"mark", m>>
<1>1. /\ s.status \in {"open", "resolved"} /\ s.replies \subseteq Replies
      /\ s.marks \subseteq Marks
  BY Zenon DEF StoredThread
<1>2. \A x : x \in Items(s) <=>
                \/ \E r \in s.replies \ s.gone : x = <<"reply", r>>
                \/ x = <<"status", s.status>>
                \/ s.decision \in Verdicts /\ x = <<"decision", s.decision>>
                \/ \E m \in s.marks : x = <<"mark", m>>
  BY Zenon DEF Items
<1>3. ASSUME NEW x \in Items(s) PROVE x \in Contents
  BY <1>1, <1>2 DEF Contents
<1>4. {<<"mark", m>> : m \in s.marks} \subseteq Contents
  BY <1>1 DEF Contents
<1> QED
  BY <1>2, <1>3, <1>4, Zenon

\* What a request makes of a thread is a thread, or none.
LEMMA HandledFacts ==
    ASSUME NEW request \in Requests, NEW stored \in StoredThread \cup {None},
           NEW current \in StoredThread \cup {None}, Handles(request, current),
           request.kind # "delete" => stored \in StoredThread,
           request.kind = "reply" => request.reply \in Replies
    PROVE  /\ Handled(request, stored, current) \in StoredThread \cup {None}
           /\ request.kind # "delete" => Handled(request, stored, current) \in StoredThread
<1>1. CASE request.kind = "create"
  BY <1>1, Zenon DEF Handled, Created, StoredThread
<1>2. CASE request.kind = "delete"
  BY <1>2, Zenon DEF Handled
<1>3. CASE request.kind = "reply"
  <2>1. request.reply \in Replies /\ current \in StoredThread
    BY <1>3, Zenon DEF Handles
  <2> QED
    BY <1>3, <2>1, Zenon DEF Handled, StoredThread
<1>4. CASE request.kind = "status"
  BY <1>4, Zenon DEF Handled, Handles, StoredThread
<1>5. CASE request.kind = "decision"
  BY <1>5, Zenon DEF Handled, Handles, StoredThread
<1> QED
  BY <1>1, <1>2, <1>3, <1>4, <1>5, Zenon DEF Requests

\* Deltas asks for what stored has and prev has not, each request once.
LEMMA DeltasFacts ==
    ASSUME NEW prev \in StoredThread, NEW stored \in StoredThread
    PROVE  LET q == Deltas(prev, stored)
           IN  /\ q \in Seq(Requests) /\ IsInjective(q)
               /\ \A x : Contains(q, x) <=>
                    \/ \E r \in (stored.replies \ stored.gone) \ prev.replies : x = Request("reply", r)
                    \/ x = Request("status", None) /\ prev.status # stored.status
                    \/ /\ x = Request("decision", None)
                       /\ Decided(stored) /\ prev.decision # stored.decision
<1> DEFINE R == (stored.replies \ stored.gone) \ prev.replies
           U == {Request("reply", r) : r \in R}
           a == Listing(U)
           b == IF prev.status = stored.status THEN <<>> ELSE <<Request("status", None)>>
           c == IF Decided(stored) /\ prev.decision # stored.decision
                THEN <<Request("decision", None)>> ELSE <<>>
           f == [r \in R |-> Request("reply", r)]
<1>1. R \subseteq Replies
  BY Zenon DEF StoredThread
<1>2. IsFiniteSet(R)
  BY <1>1, InputsAssumption, FS_Subset, Zenon
<1>3. f \in Surjection(R, U)
  BY Zenon DEF Surjection
<1>4. IsFiniteSet(U)
  BY <1>2, <1>3, FS_Surjection
<1>5. U \subseteq Requests
  BY <1>1 DEF Request, Requests
<1>6. /\ a \in Seq(U) /\ IsInjective(a)
      /\ \A x : Contains(a, x) <=> x \in U
  BY <1>4, ListingFacts, Zenon
<1>7. a \in Seq(Requests)
  BY <1>5, <1>6
<1>8. Request("status", None) \in Requests /\ Request("decision", None) \in Requests
  BY Zenon DEF Request, Requests
<1>9. /\ b \in Seq(Requests) /\ IsInjective(b)
      /\ \A x : Contains(b, x) <=> x = Request("status", None) /\ prev.status # stored.status
  BY <1>8, SmallFacts, Zenon
<1>10. /\ c \in Seq(Requests) /\ IsInjective(c)
       /\ \A x : Contains(c, x) <=> /\ x = Request("decision", None)
                                    /\ Decided(stored) /\ prev.decision # stored.decision
  BY <1>8, SmallFacts, Zenon
<1>11. Deltas(prev, stored) = (a \o b) \o c
  BY Zenon DEF Deltas
<1>12. \A x : x \in U <=> \E r \in R : x = Request("reply", r)
  BY Zenon
<1>13. \A x \in U : x # Request("status", None) /\ x # Request("decision", None)
  BY DEF Request
<1>14. Request("status", None) # Request("decision", None)
  BY Zenon DEF Request
<1> HIDE DEF U, a, b, c, f
<1>15. /\ a \o b \in Seq(Requests) /\ IsInjective(a \o b)
       /\ \A x : Contains(a \o b, x) <=> Contains(a, x) \/ Contains(b, x)
  BY <1>6, <1>7, <1>9, <1>13, ConcatFacts
<1>16. /\ (a \o b) \o c \in Seq(Requests) /\ IsInjective((a \o b) \o c)
       /\ \A x : Contains((a \o b) \o c, x) <=> Contains(a, x) \/ Contains(b, x) \/ Contains(c, x)
  BY <1>6, <1>9, <1>10, <1>13, <1>14, <1>15, ConcatFacts, ZenonT(60)
<1> QED
  BY <1>6, <1>9, <1>10, <1>11, <1>12, <1>16, Zenon

----
(***************************************************************************)
(* What the steps of _persist do to the calls, field by field.             *)
(***************************************************************************)

CallIs(e, at, keys, key, snapshot, plan, conflict, slow, failed) ==
    /\ e.at = at /\ e.keys = keys /\ e.key = key /\ e.snapshot = snapshot /\ e.plan = plan
    /\ e.conflict = conflict /\ e.overtaken = slow /\ e.failed = failed

\* e is d, but perhaps for having been overtaken.
SameCall(e, d) ==
    CallIs(e, d.at, d.keys, d.key, d.snapshot, d.plan, d.conflict, e.overtaken, d.failed)

Others(i) == \A j \in Drains : j # i => drain'[j] = drain[j]

LEMMA CallFacts ==
    /\ \A d \in Calls :
          /\ d.at \in {"idle", "running", "sent", "answered"} /\ d.keys \in Seq(Keys)
          /\ d.key \in Keys \cup {None} /\ d.snapshot \in StoredThread \cup {None}
          /\ d.plan \in Seq(Requests) /\ d.conflict \in BOOLEAN /\ d.overtaken \in BOOLEAN
          /\ d.failed \in Seq(Keys)
    /\ Idle \in Calls
    /\ CallIs(Idle, "idle", <<>>, None, None, <<>>, FALSE, FALSE, <<>>)
<1>1. <<>> \in Seq(Keys) /\ <<>> \in Seq(Requests)
  OBVIOUS
<1> QED
  BY <1>1, Zenon DEF Calls, Idle, CallIs

LEMMA OnwardFacts ==
    ASSUME NEW d \in Calls
    PROVE  /\ Onward(d) \in Calls
           /\ CallIs(Onward(d), "running", d.keys, None, None, <<>>, FALSE, FALSE, d.failed)
<1>1. <<>> \in Seq(Requests)
  OBVIOUS
<1> QED
  BY <1>1, Zenon DEF Calls, Onward, CallIs

LEMMA OvertakeFacts ==
    ASSUME NEW drains \in [Drains -> Calls], NEW t
    PROVE  LET o == Overtake(drains, t)
           IN  /\ o \in [Drains -> Calls]
               /\ \A j \in Drains :
                    /\ SameCall(o[j], drains[j])
                    /\ drains[j].overtaken => o[j].overtaken
                    /\ drains[j].key # None /\ drains[j].key.thread = t => o[j].overtaken
                    /\ drains[j].key = None => o[j] = drains[j]
<1>1. \A d \in Calls : /\ [d EXCEPT !.overtaken = TRUE] \in Calls
                       /\ SameCall([d EXCEPT !.overtaken = TRUE], d)
                       /\ [d EXCEPT !.overtaken = TRUE].overtaken
                       /\ SameCall(d, d)
  BY Zenon DEF Calls, SameCall, CallIs
<1> QED
  BY <1>1, Zenon DEF Overtake

LEMMA FireFacts ==
    ASSUME Typed, NEW i \in Drains, Fire(i)
    PROVE  /\ drain' \in [Drains -> Calls] /\ Others(i)
           /\ drain[i].at = "idle" /\ drain[i].keys = <<>>
           /\ IF dirty = <<>> THEN drain'[i] = Idle
              ELSE CallIs(drain'[i], "running", dirty, None, None, <<>>, FALSE, FALSE, <<>>)
<1> DEFINE d == [Idle EXCEPT !.at = "running", !.keys = dirty]
<1>1. dirty \in Seq(Keys) /\ drain \in [Drains -> Calls]
  BY Zenon DEF Typed, TypeOK
<1>2. d \in Calls /\ CallIs(d, "running", dirty, None, None, <<>>, FALSE, FALSE, <<>>)
  BY <1>1, CallFacts, Zenon DEF Calls, CallIs, Idle
<1>3. drain[i] = Idle
  BY Zenon DEF Fire
<1>4. drain' = [drain EXCEPT ![i] = IF dirty = <<>> THEN Idle ELSE d]
  BY Zenon DEF Fire
<1> HIDE DEF d
<1> QED
  BY <1>1, <1>2, <1>3, <1>4, CallFacts, Zenon DEF Others, CallIs

LEMMA NextKeyFacts ==
    ASSUME Typed, NEW i \in Drains, NextKey(i)
    PROVE  LET k == Head(drain[i].keys)
           IN  /\ drain' \in [Drains -> Calls] /\ Others(i)
               /\ drain[i].at = "running" /\ drain[i].keys # <<>> /\ k \in Keys
               /\ ~Skips(k) /\ Plan(k) # <<>>
               /\ CallIs(drain'[i], "sent", Tail(drain[i].keys), k, ymap[k.thread], Plan(k),
                         FALSE, FALSE, drain[i].failed)
<1> DEFINE k == Head(drain[i].keys)
           q == Tail(drain[i].keys)
           s == ymap[k.thread]
           p == Plan(k)
           d == drain[i]
           e == [d EXCEPT !.at = "sent", !.keys = q, !.key = k, !.snapshot = s, !.plan = p]
<1>1. /\ d \in Calls /\ d.at = "running" /\ d.keys # <<>> /\ d.keys \in Seq(Keys)
      /\ d.conflict = FALSE /\ d.overtaken = FALSE
      /\ drain \in [Drains -> Calls]
  BY CallFacts, Zenon DEF Typed, TypeOK, Shapes, CallShape, NextKey
<1>2. k \in Keys /\ q \in Seq(Keys)
  BY <1>1, SplitFacts, Zenon
<1>3. s \in StoredThread \cup {None}
  BY <1>2, KeyFacts, Zenon DEF Typed, TypeOK
<1>4. ~Skips(k) /\ p # <<>>
  BY Zenon DEF NextKey
<1>5. p \in Seq(Requests)
  <2>1. /\ DeleteRequest \in Requests /\ CreateRequest \in Requests
    BY Zenon DEF DeleteRequest, CreateRequest, Request, Requests
  <2>2. CASE k.deletes
    BY <2>1, <2>2, SmallFacts, Zenon DEF Plan, DeleteRequest
  <2>3. CASE ~k.deletes /\ lastPersisted[k.thread] = None
    BY <2>1, <2>3, SmallFacts, Zenon DEF Plan, CreateRequest
  <2>4. CASE ~k.deletes /\ lastPersisted[k.thread] # None
    <3>1. lastPersisted[k.thread] \in StoredThread /\ s \in StoredThread
      BY <1>2, <1>3, <1>4, <2>4, KeyFacts, Zenon DEF Typed, TypeOK, Skips
    <3>2. p = Deltas(lastPersisted[k.thread], s)
      BY <2>4, Zenon DEF Plan
    <3> QED
      BY <3>1, <3>2, DeltasFacts, SMTT(30)
  <2> QED
    BY <2>2, <2>3, <2>4, Zenon
<1>6. drain' = [drain EXCEPT ![i] = e]
  BY Zenon DEF NextKey
<1> HIDE DEF k, q, s, p, d
<1>7. /\ e \in Calls
      /\ CallIs(e, "sent", q, k, s, p, FALSE, FALSE, d.failed)
  BY <1>1, <1>2, <1>3, <1>5, Zenon DEF Calls, CallIs
<1> HIDE DEF e
<1>8. drain' \in [Drains -> Calls] /\ Others(i) /\ drain'[i] = e
  BY <1>1, <1>6, <1>7, Zenon DEF Others
<1> QED
  BY <1>1, <1>2, <1>4, <1>7, <1>8, Zenon DEF k, q, s, p, d

\* A key that is done.
LEMMA RecordedFacts ==
    ASSUME Typed, NEW i \in Drains, NEW d \in Calls, Recorded(i, d)
    PROVE  /\ drain' \in [Drains -> Calls]
           /\ CallIs(drain'[i], "running", d.keys, None, None, <<>>, FALSE, FALSE, d.failed)
           /\ \A j \in Drains : j # i =>
                /\ SameCall(drain'[j], drain[j])
                /\ drain[j].overtaken => drain'[j].overtaken
                /\ drain[j].key # None /\ drain[j].key.thread = d.key.thread => drain'[j].overtaken
                /\ drain[j].key = None => drain'[j] = drain[j]
<1>1. drain \in [Drains -> Calls]
  BY Zenon DEF Typed, TypeOK
<1> DEFINE o == Overtake(drain, d.key.thread)
           e == Onward(d)
<1>2. drain' = [o EXCEPT ![i] = e]
  BY Zenon DEF Recorded
<1>3. e \in Calls /\ CallIs(e, "running", d.keys, None, None, <<>>, FALSE, FALSE, d.failed)
  BY OnwardFacts, Zenon
<1>4. /\ o \in [Drains -> Calls]
      /\ \A j \in Drains :
            /\ SameCall(o[j], drain[j])
            /\ drain[j].overtaken => o[j].overtaken
            /\ drain[j].key # None /\ drain[j].key.thread = d.key.thread => o[j].overtaken
            /\ drain[j].key = None => o[j] = drain[j]
  BY <1>1, OvertakeFacts, Zenon
<1> HIDE DEF o, e
<1>5. drain' \in [Drains -> Calls] /\ drain'[i] = e /\ \A j \in Drains : j # i => drain'[j] = o[j]
  BY <1>2, <1>3, <1>4, Zenon
<1> QED
  BY <1>3, <1>4, <1>5, Zenon

\* A key that needs no request: nothing to do for it, or nothing to ask for.
LEMMA SkipKeyFacts ==
    ASSUME Typed, NEW i \in Drains, SkipKey(i)
    PROVE  LET k == Head(drain[i].keys)
           IN  /\ drain' \in [Drains -> Calls]
               /\ drain[i].at = "running" /\ drain[i].keys # <<>> /\ k \in Keys /\ ~k.deletes
               /\ CallIs(drain'[i], "running", Tail(drain[i].keys), None, None, <<>>,
                         FALSE, FALSE, drain[i].failed)
               /\ \A j \in Drains : j # i =>
                    /\ SameCall(drain'[j], drain[j])
                    /\ drain[j].overtaken => drain'[j].overtaken
                    /\ drain[j].key # None /\ drain[j].key.thread = k.thread => drain'[j].overtaken
                    /\ drain[j].key = None => drain'[j] = drain[j]
               /\ retryCount' = [retryCount EXCEPT ![k] = 0]
               /\ \/ /\ ymap[k.thread] \in {None, lastPersisted[k.thread]}
                     /\ UNCHANGED <<lastPersisted, uncarried, gaveUp, overtaken>>
                  \/ /\ ymap[k.thread] \in StoredThread /\ lastPersisted[k.thread] \in StoredThread
                     /\ Deltas(lastPersisted[k.thread], ymap[k.thread]) = <<>>
                     /\ lastPersisted' = [lastPersisted EXCEPT ![k.thread] = ymap[k.thread]]
                     /\ uncarried' = [uncarried EXCEPT ![k.thread] =
                                        @ \cup {<<"mark", m>> : m \in ymap[k.thread].marks}]
                     /\ gaveUp' = gaveUp \ {k.thread}
                     /\ overtaken' = overtaken \ {k.thread}
<1> DEFINE k == Head(drain[i].keys)
           q == Tail(drain[i].keys)
           s == ymap[k.thread]
           d == [drain[i] EXCEPT !.keys = q, !.key = k, !.snapshot = s]
<1>1. /\ drain[i] \in Calls /\ drain[i].at = "running" /\ drain[i].keys # <<>>
      /\ drain[i].keys \in Seq(Keys)
      /\ drain[i].conflict = FALSE /\ drain[i].overtaken = FALSE /\ drain[i].plan = <<>>
      /\ drain \in [Drains -> Calls]
  BY CallFacts, Zenon DEF Typed, TypeOK, Shapes, CallShape, SkipKey
<1>2. k \in Keys /\ q \in Seq(Keys) /\ k.thread \in Threads
  BY <1>1, SplitFacts, KeyFacts, Zenon
<1>3. /\ s \in StoredThread \cup {None}
      /\ lastPersisted[k.thread] \in StoredThread \cup {None}
  BY <1>2, SMTT(30) DEF Typed, TypeOK
<1>4. \/ /\ Skips(k)
         /\ retryCount' = [retryCount EXCEPT ![k] = 0]
         /\ drain' = [Overtake(drain, k.thread) EXCEPT ![i] = Onward(d)]
         /\ UNCHANGED <<lastPersisted, uncarried, gaveUp, overtaken>>
      \/ /\ ~Skips(k) /\ Plan(k) = <<>>
         /\ Recorded(i, d)
  BY Zenon DEF SkipKey
<1> HIDE DEF k, q, s
<1>5. /\ d \in Calls /\ d.keys = q /\ d.key = k /\ d.snapshot = s /\ d.failed = drain[i].failed
      /\ d.plan = <<>> /\ d.conflict = FALSE /\ d.overtaken = FALSE
  BY <1>1, <1>2, <1>3, Zenon DEF Calls
<1> HIDE DEF d
<1>6. CASE Skips(k) /\ drain' = [Overtake(drain, k.thread) EXCEPT ![i] = Onward(d)]
             /\ retryCount' = [retryCount EXCEPT ![k] = 0]
             /\ UNCHANGED <<lastPersisted, uncarried, gaveUp, overtaken>>
  <2> DEFINE o == Overtake(drain, k.thread)
             e == Onward(d)
  <2>1. e \in Calls /\ CallIs(e, "running", q, None, None, <<>>, FALSE, FALSE, drain[i].failed)
    BY <1>5, OnwardFacts, Zenon
  <2>2. /\ o \in [Drains -> Calls]
        /\ \A j \in Drains :
              /\ SameCall(o[j], drain[j])
              /\ drain[j].overtaken => o[j].overtaken
              /\ drain[j].key # None /\ drain[j].key.thread = k.thread => o[j].overtaken
              /\ drain[j].key = None => o[j] = drain[j]
    BY <1>1, OvertakeFacts, Zenon
  <2>3. drain' = [o EXCEPT ![i] = e]
    BY <1>6, Zenon
  <2> HIDE DEF o, e
  <2>4. drain' \in [Drains -> Calls] /\ drain'[i] = e
        /\ \A j \in Drains : j # i => drain'[j] = o[j]
    BY <2>1, <2>2, <2>3, Zenon
  <2>5. ~k.deletes /\ ymap[k.thread] \in {None, lastPersisted[k.thread]}
    BY <1>6, Zenon DEF Skips
  <2> QED
    BY <1>1, <1>2, <1>6, <2>1, <2>2, <2>4, <2>5, Zenon DEF k, q
<1>7. CASE ~Skips(k) /\ Plan(k) = <<>> /\ Recorded(i, d)
  <2>1. /\ drain' \in [Drains -> Calls]
        /\ CallIs(drain'[i], "running", q, None, None, <<>>, FALSE, FALSE, drain[i].failed)
        /\ \A j \in Drains : j # i =>
                /\ SameCall(drain'[j], drain[j])
                /\ drain[j].overtaken => drain'[j].overtaken
                /\ drain[j].key # None /\ drain[j].key.thread = k.thread => drain'[j].overtaken
                /\ drain[j].key = None => drain'[j] = drain[j]
    BY <1>5, <1>7, RecordedFacts, Zenon
  <2>2. ~k.deletes /\ lastPersisted[k.thread] # None
    BY <1>7, Zenon DEF Plan
  <2>3. s \in StoredThread /\ lastPersisted[k.thread] \in StoredThread
    BY <1>3, <1>7, <2>2, Zenon DEF Skips, s
  <2>4. Deltas(lastPersisted[k.thread], ymap[k.thread]) = <<>>
    BY <1>7, <2>2, SMTT(30) DEF Plan
  <2>5. /\ retryCount' = [retryCount EXCEPT ![k] = 0]
        /\ lastPersisted' = [lastPersisted EXCEPT ![k.thread] = s]
        /\ gaveUp' = IF ymap[k.thread] = s THEN gaveUp \ {k.thread} ELSE gaveUp
        /\ overtaken' = overtaken \ {k.thread}
        /\ uncarried' = [uncarried EXCEPT ![k.thread] = @ \cup Uncarried(d)]
    BY <1>5, <1>7, <2>2, Zenon DEF Recorded
  <2>6. Uncarried(d) = {<<"mark", m>> : m \in s.marks}
    BY <1>5, SMTT(30) DEF Uncarried
  <2> QED
    BY <1>1, <1>2, <2>1, <2>2, <2>3, <2>4, <2>5, <2>6, Zenon DEF k, q, s
<1> QED
  BY <1>4, <1>6, <1>7, Zenon

LEMMA DeliverFacts ==
    ASSUME Typed, NEW i \in Drains, Deliver(i)
    PROVE  LET d == drain[i]
               t == d.key.thread
               x == Head(d.plan)
           IN  /\ drain' \in [Drains -> Calls] /\ Others(i)
               /\ d.at = "sent" /\ d.key \in Keys /\ x \in Requests /\ t \in Threads
               /\ Contains(d.plan, x)
               /\ Handles(x, server[t])
               /\ Serve(t, Handled(x, d.snapshot, server[t]))
               /\ twice' = twice \cup Repeats(x, t)
               /\ CallIs(drain'[i], "answered", d.keys, d.key, d.snapshot, d.plan,
                         x.kind = "create" /\ server[t] # None, d.overtaken, d.failed)
<1> DEFINE d == drain[i]
           t == d.key.thread
           x == Head(d.plan)
           c == x.kind = "create" /\ server[t] # None
           e == [d EXCEPT !.at = "answered", !.conflict = c]
<1>1. /\ d \in Calls /\ d.at = "sent" /\ d.key \in Keys /\ d.plan # <<>> /\ d.plan \in Seq(Requests)
      /\ drain \in [Drains -> Calls]
  BY CallFacts, Zenon DEF Typed, TypeOK, Shapes, CallShape, Deliver
<1>2. x \in Requests /\ t \in Threads /\ Contains(d.plan, x)
  BY <1>1, SplitFacts, KeyFacts, Zenon
<1>3. /\ Handles(x, server[t])
      /\ Serve(t, Handled(x, d.snapshot, server[t]))
      /\ twice' = twice \cup Repeats(x, t)
      /\ drain' = [drain EXCEPT ![i].at = "answered", ![i].conflict = c]
  BY Zenon DEF Deliver
<1>4. drain' = [drain EXCEPT ![i] = e]
  BY <1>1, <1>3, Zenon DEF Calls
<1>5. c \in BOOLEAN
  BY Zenon
<1> HIDE DEF c, d
<1>6. e \in Calls
      /\ CallIs(e, "answered", d.keys, d.key, d.snapshot, d.plan, c, d.overtaken, d.failed)
  BY <1>1, <1>5, Zenon DEF Calls, CallIs
<1> HIDE DEF e
<1>7. drain' \in [Drains -> Calls] /\ Others(i) /\ drain'[i] = e
  BY <1>1, <1>4, <1>6, Zenon DEF Others
<1> QED
  BY <1>1, <1>2, <1>3, <1>6, <1>7, Zenon DEF c, d

\* The response of a request that is not the last of its key.
LEMMA RespondMoreFacts ==
    ASSUME Typed, NEW i \in Drains, Respond(i), Len(drain[i].plan) > 1
    PROVE  LET d == drain[i]
           IN  /\ drain' \in [Drains -> Calls] /\ Others(i)
               /\ d.at = "answered" /\ d.key \in Keys /\ Tail(d.plan) # <<>>
               /\ CallIs(drain'[i], "sent", d.keys, d.key, d.snapshot, Tail(d.plan),
                         d.conflict, d.overtaken, d.failed)
               /\ UNCHANGED <<lastPersisted, retryCount, uncarried, gaveUp, overtaken>>
<1> DEFINE d == drain[i]
           q == Tail(d.plan)
           e == [d EXCEPT !.at = "sent", !.plan = q]
<1>1. /\ d \in Calls /\ d.at = "answered" /\ d.key \in Keys /\ d.plan # <<>>
      /\ d.plan \in Seq(Requests) /\ drain \in [Drains -> Calls]
  BY CallFacts, Zenon DEF Typed, TypeOK, Shapes, CallShape, Respond
<1>2. q \in Seq(Requests) /\ q # <<>>
  BY <1>1, SplitFacts, Zenon
<1>3. /\ drain' = [drain EXCEPT ![i].at = "sent", ![i].plan = Tail(@)]
      /\ UNCHANGED <<lastPersisted, retryCount, uncarried, gaveUp, overtaken>>
  BY Zenon DEF Respond
<1>4. drain' = [drain EXCEPT ![i] = e]
  BY <1>1, <1>3, Zenon DEF Calls
<1> HIDE DEF q, d
<1>5. e \in Calls
      /\ CallIs(e, "sent", d.keys, d.key, d.snapshot, q, d.conflict, d.overtaken, d.failed)
  BY <1>1, <1>2, Zenon DEF Calls, CallIs
<1> HIDE DEF e
<1>6. drain' \in [Drains -> Calls] /\ Others(i) /\ drain'[i] = e
  BY <1>1, <1>4, <1>5, Zenon DEF Others
<1> QED
  BY <1>1, <1>2, <1>3, <1>5, <1>6, Zenon DEF d, q

\* The response of the last one.
LEMMA RespondLastFacts ==
    ASSUME Typed, NEW i \in Drains, Respond(i), ~(Len(drain[i].plan) > 1)
    PROVE  LET d == drain[i]
               t == d.key.thread
           IN  /\ drain' \in [Drains -> Calls]
               /\ d.at = "answered" /\ d.key \in Keys /\ t \in Threads
               /\ \A x : ~Contains(Tail(d.plan), x)
               /\ CallIs(drain'[i], "running", d.keys, None, None, <<>>, FALSE, FALSE, d.failed)
               /\ \A j \in Drains : j # i =>
                    /\ SameCall(drain'[j], drain[j])
                    /\ drain[j].overtaken => drain'[j].overtaken
                    /\ drain[j].key # None /\ drain[j].key.thread = t => drain'[j].overtaken
                    /\ drain[j].key = None => drain'[j] = drain[j]
               /\ retryCount' = [retryCount EXCEPT ![d.key] = 0]
               /\ lastPersisted' = [lastPersisted EXCEPT ![t] =
                                      IF d.key.deletes THEN None ELSE d.snapshot]
               /\ gaveUp' = IF ymap[t] = d.snapshot THEN gaveUp \ {t} ELSE gaveUp
               /\ d.key.deletes =>
                    /\ overtaken' = IF ymap[t] = None THEN overtaken ELSE overtaken \cup {t}
                    /\ UNCHANGED uncarried
               /\ ~d.key.deletes =>
                    /\ overtaken' = IF d.overtaken THEN overtaken \cup {t} ELSE overtaken \ {t}
                    /\ uncarried' = [uncarried EXCEPT ![t] = @ \cup Uncarried(d)]
<1>1. /\ drain[i] \in Calls /\ drain[i].at = "answered" /\ drain[i].key \in Keys
      /\ drain[i].plan # <<>> /\ drain[i].plan \in Seq(Requests)
  BY CallFacts, Zenon DEF Typed, TypeOK, Shapes, CallShape, Respond
<1>2. drain[i].key.thread \in Threads
  BY <1>1, KeyFacts, Zenon
<1>3. Tail(drain[i].plan) = <<>>
  BY <1>1, SplitFacts, Zenon
<1>4. \A x : ~Contains(Tail(drain[i].plan), x)
  BY <1>3, SmallFacts, Zenon
<1>5. Recorded(i, drain[i])
  BY Zenon DEF Respond
<1>6. /\ drain' \in [Drains -> Calls]
      /\ CallIs(drain'[i], "running", drain[i].keys, None, None, <<>>, FALSE, FALSE,
                drain[i].failed)
      /\ \A j \in Drains : j # i =>
           /\ SameCall(drain'[j], drain[j])
           /\ drain[j].overtaken => drain'[j].overtaken
           /\ drain[j].key # None /\ drain[j].key.thread = drain[i].key.thread
                => drain'[j].overtaken
           /\ drain[j].key = None => drain'[j] = drain[j]
  BY <1>1, <1>5, RecordedFacts, Zenon
<1> QED
  BY <1>1, <1>2, <1>4, <1>5, <1>6, Zenon DEF Recorded

LEMMA FailFacts ==
    ASSUME Typed, NEW i \in Drains, Fail(i)
    PROVE  LET d == drain[i]
               t == d.key.thread
           IN  /\ drain' \in [Drains -> Calls] /\ Others(i)
               /\ d.at \in {"sent", "answered"} /\ d.key \in Keys /\ t \in Threads
               /\ retryCount' \in [Keys -> 0 .. MaxPersistRetries - 1]
               /\ \E q \in {d.failed, Append(d.failed, d.key)} :
                    /\ CallIs(drain'[i], "running", d.keys, None, None, <<>>, FALSE, FALSE, q)
                    /\ q = Append(d.failed, d.key) \/ t \in gaveUp'
               /\ gaveUp \subseteq gaveUp' /\ gaveUp' \subseteq gaveUp \cup {t}
               /\ disturbed' = disturbed \cup {t}
<1> DEFINE d == drain[i]
           t == d.key.thread
           attempts == retryCount[d.key] + 1
           gives == attempts >= MaxPersistRetries
           q == IF gives THEN d.failed ELSE Append(d.failed, d.key)
           o == Onward(d)
           e == [o EXCEPT !.failed = q]
<1>1. /\ d \in Calls /\ d.at \in {"sent", "answered"} /\ d.key \in Keys
      /\ d.failed \in Seq(Keys) /\ drain \in [Drains -> Calls]
  BY CallFacts, Zenon DEF Typed, TypeOK, Shapes, CallShape, Fail
<1>2. t \in Threads
  BY <1>1, KeyFacts, Zenon
<1>3. q \in Seq(Keys)
  BY <1>1, AppendFacts
<1>4. /\ o \in Calls
      /\ CallIs(o, "running", d.keys, None, None, <<>>, FALSE, FALSE, d.failed)
  BY <1>1, OnwardFacts, Zenon
<1>5. /\ retryCount' = [retryCount EXCEPT ![d.key] = IF gives THEN 0 ELSE attempts]
      /\ drain' = [drain EXCEPT ![i] =
                     [o EXCEPT !.failed = IF gives THEN @ ELSE Append(@, d.key)]]
      /\ gaveUp' = IF gives THEN gaveUp \cup {t} ELSE gaveUp
      /\ disturbed' = disturbed \cup {t}
  BY Zenon DEF Fail
<1>6. retryCount' \in [Keys -> 0 .. MaxPersistRetries - 1]
  <2>1. retryCount \in [Keys -> 0 .. MaxPersistRetries - 1]
    BY Zenon DEF Typed, TypeOK
  <2>2. (IF gives THEN 0 ELSE attempts) \in 0 .. MaxPersistRetries - 1
    BY <1>1, <2>1, RetriesAssumption
  <2> HIDE DEF attempts, gives
  <2> QED
    BY <1>1, <1>5, <2>1, <2>2, Zenon
<1> HIDE DEF attempts, gives, o
<1>7. drain' = [drain EXCEPT ![i] = e]
  BY <1>4, <1>5, Zenon DEF CallIs
<1>8. q = Append(d.failed, d.key) \/ t \in gaveUp'
  BY <1>5, Zenon
<1>9. q \in {d.failed, Append(d.failed, d.key)}
  BY Zenon
<1> HIDE DEF q, d
<1>10. e \in Calls /\ CallIs(e, "running", d.keys, None, None, <<>>, FALSE, FALSE, q)
  BY <1>3, <1>4, Zenon DEF Calls, CallIs
<1> HIDE DEF e
<1>11. drain' \in [Drains -> Calls] /\ Others(i) /\ drain'[i] = e
  BY <1>1, <1>7, <1>10, Zenon DEF Others
<1>12. gaveUp \subseteq gaveUp' /\ gaveUp' \subseteq gaveUp \cup {t}
  BY <1>5, Zenon
<1> QED
  BY <1>1, <1>2, <1>5, <1>6, <1>8, <1>9, <1>10, <1>11, <1>12, Zenon DEF d

LEMMA RequeueFacts ==
    ASSUME Typed, NEW i \in Drains, Requeue(i)
    PROVE  LET d == drain[i]
           IN  /\ drain' \in [Drains -> Calls] /\ Others(i)
               /\ d.at = "running" /\ d.keys = <<>> /\ d.failed # <<>> /\ Head(d.failed) \in Keys
               /\ dirty' = Add(dirty, Head(d.failed)) /\ timer' = TRUE
               /\ CallIs(drain'[i], "running", <<>>, None, None, <<>>, FALSE, FALSE, Tail(d.failed))
<1> DEFINE d == drain[i]
           q == Tail(d.failed)
           e == [d EXCEPT !.failed = q]
<1>1. /\ d \in Calls /\ d.at = "running" /\ d.keys = <<>> /\ d.failed # <<>>
      /\ d.failed \in Seq(Keys) /\ drain \in [Drains -> Calls]
      /\ CallIs(d, "running", <<>>, None, None, <<>>, FALSE, FALSE, d.failed)
  BY CallFacts, Zenon DEF Typed, TypeOK, Shapes, CallShape, Requeue, CallIs
<1>2. q \in Seq(Keys) /\ Head(d.failed) \in Keys
  BY <1>1, SplitFacts, Zenon
<1>3. /\ drain' = [drain EXCEPT ![i].failed = Tail(@)]
      /\ dirty' = Add(dirty, Head(d.failed)) /\ timer' = TRUE
  BY Zenon DEF Requeue
<1>4. drain' = [drain EXCEPT ![i] = e]
  BY <1>1, <1>3, Zenon DEF Calls
<1> HIDE DEF q, d
<1>5. e \in Calls /\ CallIs(e, "running", <<>>, None, None, <<>>, FALSE, FALSE, q)
  BY <1>1, <1>2, Zenon DEF Calls, CallIs
<1> HIDE DEF e
<1>6. drain' \in [Drains -> Calls] /\ Others(i) /\ drain'[i] = e
  BY <1>1, <1>4, <1>5, Zenon DEF Others
<1> QED
  BY <1>1, <1>2, <1>3, <1>5, <1>6, Zenon DEF d, q

LEMMA EndDrainFacts ==
    ASSUME Typed, NEW i \in Drains, EndDrain(i)
    PROVE  /\ drain' \in [Drains -> Calls] /\ Others(i)
           /\ drain[i].at = "running" /\ drain[i].keys = <<>> /\ drain[i].failed = <<>>
           /\ drain[i].key = None
           /\ drain'[i] = Idle
<1>1. drain \in [Drains -> Calls] /\ drain[i].at = "running" /\ drain[i].key = None
  BY Zenon DEF Typed, TypeOK, Shapes, CallShape, EndDrain
<1> QED
  BY <1>1, CallFacts, SMTT(30) DEF EndDrain, Others

LEMMA PollApplyFacts ==
    ASSUME Typed, PollApply
    PROVE  LET t == poll.thread
           IN  /\ t \in Threads /\ poll.wire \in StoredThread
               /\ ymap'[t] \in StoredThread /\ ymap' \in [Threads -> StoredThread \cup {None}]
               /\ \A u \in Threads : u # t => ymap'[u] = ymap[u]
               /\ lastPersisted' = [lastPersisted EXCEPT ![t] = poll.wire]
               /\ ymap'[t].replies = poll.wire.replies /\ ymap'[t].gone = poll.wire.gone
               /\ \/ ymap'[t] = poll.wire /\ dirty' = Drop(dirty, Update(t)) /\ timer' = timer
                  \/ dirty' = Append(Drop(dirty, Update(t)), Update(t)) /\ timer' = TRUE
               /\ ymap[t] # None /\ Decided(ymap[t]) => Decided(ymap'[t])
               /\ drain' \in [Drains -> Calls]
               /\ \A j \in Drains :
                    /\ SameCall(drain'[j], drain[j])
                    /\ drain[j].overtaken => drain'[j].overtaken
                    /\ drain[j].key # None /\ drain[j].key.thread = t => drain'[j].overtaken
                    /\ drain[j].key = None => drain'[j] = drain[j]
<1> DEFINE t == poll.thread
           w == poll.wire
           keeps == KeepsDecision(ymap[t], w)
           v == IF keeps THEN [w EXCEPT !.decision = ymap[t].decision] ELSE w
<1>1. t \in Threads /\ w \in StoredThread
  BY Zenon DEF Typed, Shapes, PollApply
<1>2. ymap \in [Threads -> StoredThread \cup {None}] /\ drain \in [Drains -> Calls] /\ timer \in BOOLEAN
  BY Zenon DEF Typed, TypeOK
<1>3. /\ ymap' = [ymap EXCEPT ![t] = v]
      /\ lastPersisted' = [lastPersisted EXCEPT ![t] = w]
      /\ dirty' = IF keeps THEN Append(Drop(dirty, Update(t)), Update(t)) ELSE Drop(dirty, Update(t))
      /\ timer' = (timer \/ keeps)
      /\ drain' = Overtake(drain, t)
  BY Zenon DEF PollApply
<1>4. /\ drain' \in [Drains -> Calls]
      /\ \A j \in Drains :
           /\ SameCall(drain'[j], drain[j])
           /\ drain[j].overtaken => drain'[j].overtaken
           /\ drain[j].key # None /\ drain[j].key.thread = t => drain'[j].overtaken
           /\ drain[j].key = None => drain'[j] = drain[j]
  BY <1>2, <1>3, OvertakeFacts
<1>5. CASE keeps
  <2>1. ymap[t] \in StoredThread /\ Decided(ymap[t])
    BY <1>1, <1>2, <1>5, Zenon DEF KeepsDecision
  <2>2. v \in StoredThread /\ v.replies = w.replies /\ v.gone = w.gone /\ v.decision = ymap[t].decision
    BY <1>1, <1>5, <2>1, SMTT(30) DEF StoredThread
  <2> HIDE DEF v
  <2> QED
    BY <1>1, <1>2, <1>3, <1>4, <1>5, <2>1, <2>2, Zenon DEF Decided
<1>6. CASE ~keeps
  <2>1. v = w
    BY <1>6, Zenon
  <2>2. ymap[t] # None /\ Decided(ymap[t]) => Decided(w)
    BY <1>1, <1>6, Zenon DEF KeepsDecision, Decided, StoredThread
  <2>3. timer' = timer
    BY <1>2, <1>3, <1>6, SMTT(30)
  <2> HIDE DEF v, keeps
  <2> QED
    BY <1>1, <1>2, <1>3, <1>4, <1>6, <2>1, <2>2, <2>3, Zenon
<1> QED
  BY <1>5, <1>6, Zenon

----
(***************************************************************************)
(* Type correctness.                                                       *)
(***************************************************************************)

\* The variables that the engine's calls do not share with the rest.
CallTypes ==
    /\ drain \in [Drains -> Calls]
    /\ \A i \in Drains : CallShape(drain[i])

PollTypes ==
    /\ poll \in [at : {"start", "idle", "listed", "fetched"}, loads : BOOLEAN, todo : SUBSET Threads,
                  thread : Threads \cup {None}, wire : StoredThread \cup {None}]
    /\ poll.at = "fetched" => poll.thread \in Threads /\ poll.wire \in StoredThread

DocTypes ==
    /\ ymap \in [Threads -> StoredThread \cup {None}]
    /\ changes \in 0 .. MaxChanges /\ made \subseteq Replies

QueueTypes ==
    /\ dirty \in Seq(Keys) /\ IsInjective(dirty)
    /\ retryCount \in [Keys -> 0 .. MaxPersistRetries - 1]
    /\ timer \in BOOLEAN /\ alive \in BOOLEAN

RecordTypes ==
    /\ lastPersisted \in [Threads -> StoredThread \cup {None}]
    /\ uncarried \in [Threads -> SUBSET Contents]

ServerTypes ==
    /\ server \in [Threads -> StoredThread \cup {None}]
    /\ changed \in [Threads -> {"no", "updated", "deleted"}]
    /\ held \in [Threads -> SUBSET Contents]

HistoryTypes ==
    /\ gaveUp \subseteq Threads /\ overtaken \subseteq Threads
    /\ disturbed \subseteq Threads /\ twice \subseteq Threads

LEMMA TypedSplit ==
    /\ Typed <=> /\ CallTypes /\ PollTypes /\ DocTypes /\ QueueTypes /\ RecordTypes
                 /\ ServerTypes /\ HistoryTypes
    /\ Typed' <=> /\ CallTypes' /\ PollTypes' /\ DocTypes' /\ QueueTypes' /\ RecordTypes'
                  /\ ServerTypes' /\ HistoryTypes'
  BY Zenon DEF Typed, TypeOK, Shapes, CallTypes, PollTypes, DocTypes, QueueTypes, RecordTypes,
         ServerTypes, HistoryTypes

\* Each part holds after a step that leaves its variables alone.
LEMMA TypedFrame ==
    /\ CallTypes /\ UNCHANGED drain => CallTypes'
    /\ PollTypes /\ UNCHANGED poll => PollTypes'
    /\ DocTypes /\ UNCHANGED <<ymap, changes, made>> => DocTypes'
    /\ QueueTypes /\ UNCHANGED <<dirty, retryCount, timer, alive>> => QueueTypes'
    /\ RecordTypes /\ UNCHANGED <<lastPersisted, uncarried>> => RecordTypes'
    /\ ServerTypes /\ UNCHANGED <<server, changed, held>> => ServerTypes'
    /\ HistoryTypes /\ UNCHANGED <<gaveUp, overtaken, disturbed, twice>> => HistoryTypes'
  BY Zenon DEF CallTypes, PollTypes, DocTypes, QueueTypes, RecordTypes, ServerTypes, HistoryTypes

LEMMA TypedInit ==
    ASSUME Init
    PROVE  Typed
<1>1. CallTypes
  BY CallFacts, SMTT(30) DEF Init, CallTypes, CallShape, CallIs
<1>2. PollTypes
  BY Zenon DEF Init, PollTypes, PollAt
<1>3. DocTypes
  BY InputsAssumption DEF Init, DocTypes
<1>4. QueueTypes
  <2>1. dirty \in Seq(Keys) /\ IsInjective(dirty)
    BY SmallFacts, Zenon DEF Init
  <2>2. 0 \in 0 .. MaxPersistRetries - 1
    BY RetriesAssumption
  <2> QED
    BY <2>1, <2>2, Zenon DEF Init, QueueTypes
<1>5. RecordTypes
  BY Zenon DEF Init, RecordTypes
<1>6. ServerTypes
  <2>1. server \in [Threads -> StoredThread \cup {None}]
    BY InputsAssumption DEF Init, StoredThread
  <2>2. ASSUME NEW t \in Threads PROVE (IF server[t] = None THEN {} ELSE Items(server[t])) \subseteq Contents
    BY <2>1, ItemFacts, Zenon
  <2> QED
    BY <2>1, <2>2, Zenon DEF Init, ServerTypes
<1>7. HistoryTypes
  BY Zenon DEF Init, HistoryTypes
<1> QED
  BY <1>1, <1>2, <1>3, <1>4, <1>5, <1>6, <1>7, TypedSplit, SMTT(30)

\* A change of the map that the observer sees.
LEMMA TypedChange ==
    ASSUME Typed, NEW t \in Threads, NEW next \in StoredThread \cup {None},
           ymap' = [ymap EXCEPT ![t] = next], Changing, Observed(t), made' \subseteq Replies,
           UNCHANGED <<lastPersisted, retryCount, drain, poll, alive, remote, uncarried,
                       overtaken, disturbed>>
    PROVE  Typed'
<1>1. QueueTypes'
  BY TypedSplit, AddFacts, KeyFacts, Zenon DEF QueueTypes, Observed
<1>2. DocTypes'
  BY TypedSplit, InputsAssumption DEF DocTypes, Changing
<1>3. HistoryTypes'
  BY TypedSplit, Zenon DEF HistoryTypes, Observed, remote
<1> QED
  BY <1>1, <1>2, <1>3, TypedSplit, TypedFrame, SMTT(30) DEF remote

\* The server's copy of a thread changes.
LEMMA ServedTypes ==
    ASSUME Typed, NEW t \in Threads, NEW now \in StoredThread \cup {None}, Serve(t, now)
    PROVE  ServerTypes'
<1>1. now # None => Items(now) \subseteq Contents
  BY ItemFacts, Zenon
<1> QED
  BY <1>1, TypedSplit, Zenon DEF ServerTypes, Serve

\* The queues after a step that does not touch them, or empties them.
LEMMA TypedUserStep ==
    ASSUME Typed,
           \/ \E t \in Threads, d \in Kinds : CreateThread(t, d)
           \/ \E t \in Threads, r \in Replies : AddReply(t, r)
           \/ \E t \in Threads, s \in {"open", "resolved"} : SetStatus(t, s)
           \/ \E t \in Threads, m \in Marks : AddMark(t, m)
           \/ \E t \in Threads : RemoveReaction(t)
           \/ \E t \in Threads, r \in Replies : DeleteComment(t, r)
           \/ \E t \in Threads, d \in Verdicts : DecideSuggestion(t, d)
           \/ \E t \in Threads : PeerDeletes(t)
    PROVE  Typed'
<1>1. ymap \in [Threads -> StoredThread \cup {None}] /\ made \subseteq Replies
  BY Zenon DEF Typed, TypeOK
<1>2. ASSUME NEW t \in Threads, NEW next \in StoredThread, MutateThread(t, next),
             made' \subseteq Replies
      PROVE  Typed'
  BY <1>2, TypedChange, Zenon DEF MutateThread
<1>3. ASSUME NEW t \in Threads, NEW d \in Kinds, CreateThread(t, d) PROVE Typed'
  <2>1. [status |-> "open", decision |-> d, replies |-> {}, gone |-> {}, marks |-> {}] \in StoredThread
    BY InputsAssumption, Zenon DEF StoredThread
  <2> QED
    BY <1>1, <1>3, <2>1, TypedChange, Zenon DEF CreateThread
<1>4. ASSUME NEW t \in Threads, NEW r \in Replies, AddReply(t, r) PROVE Typed'
  <2>1. [ymap[t] EXCEPT !.replies = @ \cup {r}] \in StoredThread
    BY <1>1, <1>4, Zenon DEF AddReply, StoredThread
  <2> QED
    BY <1>1, <1>2, <1>4, <2>1, Zenon DEF AddReply
<1>5. ASSUME NEW t \in Threads, NEW s \in {"open", "resolved"}, SetStatus(t, s) PROVE Typed'
  <2>1. [ymap[t] EXCEPT !.status = s] \in StoredThread
    BY <1>1, <1>5, Zenon DEF SetStatus, StoredThread
  <2> QED
    BY <1>1, <1>2, <1>5, <2>1, Zenon DEF SetStatus
<1>6. ASSUME NEW t \in Threads, NEW m \in Marks, AddMark(t, m) PROVE Typed'
  <2>1. [ymap[t] EXCEPT !.marks = @ \cup {m}] \in StoredThread
    BY <1>1, <1>6, Zenon DEF AddMark, StoredThread
  <2> QED
    BY <1>1, <1>2, <1>6, <2>1, Zenon DEF AddMark
<1>7. ASSUME NEW t \in Threads, RemoveReaction(t) PROVE Typed'
  <2>1. [ymap[t] EXCEPT !.marks = @ \ {"reaction"}] \in StoredThread
    BY <1>1, <1>7, Zenon DEF RemoveReaction, StoredThread
  <2> QED
    BY <1>1, <1>2, <1>7, <2>1, Zenon DEF RemoveReaction
<1>8. ASSUME NEW t \in Threads, NEW r \in Replies, DeleteComment(t, r) PROVE Typed'
  <2>1. [ymap[t] EXCEPT !.gone = @ \cup {r}] \in StoredThread
    BY <1>1, <1>8, Zenon DEF DeleteComment, StoredThread
  <2> QED
    BY <1>1, <1>2, <1>8, <2>1, Zenon DEF DeleteComment
<1>9. ASSUME NEW t \in Threads, NEW d \in Verdicts, DecideSuggestion(t, d) PROVE Typed'
  <2>1. [ymap[t] EXCEPT !.decision = d, !.status = "resolved"] \in StoredThread
    BY <1>1, <1>9, Zenon DEF DecideSuggestion, StoredThread
  <2> QED
    BY <1>1, <1>2, <1>9, <2>1, Zenon DEF DecideSuggestion
<1>10. ASSUME NEW t \in Threads, PeerDeletes(t) PROVE Typed'
  BY <1>1, <1>10, TypedChange, Zenon DEF PeerDeletes
<1> QED
  BY <1>3, <1>4, <1>5, <1>6, <1>7, <1>8, <1>9, <1>10, Zenon

LEMMA TypedServerStep ==
    ASSUME Typed,
           \/ \E t \in Threads : DeleteThread(t)
           \/ \E t \in Threads : PeerPersists(t)
           \/ \E t \in Threads : External(t)
    PROVE  Typed'
<1>1. /\ ymap \in [Threads -> StoredThread \cup {None}] /\ made \subseteq Replies
      /\ server \in [Threads -> StoredThread \cup {None}]
  BY SMTT(30) DEF Typed, TypeOK
<1>2. ASSUME NEW t \in Threads, DeleteThread(t) PROVE Typed'
  <2>1. /\ Add(dirty, Update(t)) \in Seq(Keys) /\ IsInjective(Add(dirty, Update(t)))
    BY TypedSplit, AddFacts, KeyFacts, Zenon DEF QueueTypes
  <2>2. QueueTypes'
    BY <1>2, <2>1, TypedSplit, AddFacts, KeyFacts, Zenon DEF QueueTypes, DeleteThread
  <2>3. DocTypes'
    BY <1>2, TypedSplit, InputsAssumption, SMTT(30) DEF DocTypes, DeleteThread, Changing
  <2> QED
    BY <1>2, <2>2, <2>3, TypedSplit, TypedFrame, Zenon DEF DeleteThread, remote, history
<1>3. ASSUME NEW t \in Threads, PeerPersists(t) PROVE Typed'
  <2>1. PICK request \in {Request("create", None), Request("status", None)}
                        \cup {Request("reply", r) : r \in ymap[t].replies \ ymap[t].gone} :
            /\ Handles(request, server[t])
            /\ Serve(t, Handled(request, ymap[t], server[t]))
    BY <1>3, SMTT(30) DEF PeerPersists
  <2>2. ymap[t] \in StoredThread
    BY <1>1, <1>3, Zenon DEF PeerPersists
  <2>3. request \in Requests /\ request.kind # "delete" /\ (request.kind = "reply" => request.reply \in Replies)
    <3>1. CASE request \in {Request("create", None), Request("status", None)}
      BY <3>1 DEF Request, Requests
    <3>2. CASE request \in {Request("reply", r) : r \in ymap[t].replies \ ymap[t].gone}
      <4>1. PICK r \in ymap[t].replies : request = Request("reply", r)
        BY <3>2, Zenon
      <4>2. r \in Replies
        BY <2>2, Zenon DEF StoredThread
      <4> QED
        BY <4>1, <4>2, Zenon DEF Request, Requests
    <3> QED
      BY <2>1, <3>1, <3>2, Zenon
  <2>4. Handled(request, ymap[t], server[t]) \in StoredThread \cup {None}
    BY <1>1, <2>1, <2>2, <2>3, HandledFacts, Zenon
  <2>5. ServerTypes'
    BY <2>1, <2>4, ServedTypes, Zenon
  <2>6. DocTypes' /\ HistoryTypes'
    BY <1>3, TypedSplit, InputsAssumption, SMTT(30) DEF DocTypes, HistoryTypes, PeerPersists
  <2> QED
    BY <1>3, <2>5, <2>6, TypedSplit, TypedFrame, Zenon DEF PeerPersists, engine
<1>4. ASSUME NEW t \in Threads, External(t) PROVE Typed'
  <2>1. \A r \in Outside : [server[t] EXCEPT !.replies = @ \cup {r}] \in StoredThread
    BY <1>1, <1>4, InputsAssumption DEF External, StoredThread
  <2>2. ServerTypes'
    BY <1>4, <2>1, ServedTypes, Zenon DEF External
  <2>3. DocTypes' /\ HistoryTypes'
    BY <1>4, TypedSplit, InputsAssumption, SMTT(30) DEF DocTypes, HistoryTypes, External, history
  <2> QED
    BY <1>4, <2>2, <2>3, TypedSplit, TypedFrame, Zenon DEF External, engine, history
<1> QED
  BY <1>2, <1>3, <1>4, Zenon

\* Overtaking a call keeps its shape.
LEMMA ShapeKept ==
    ASSUME NEW e, NEW d, SameCall(e, d), d.key = None => e = d, CallShape(d)
    PROVE  CallShape(e)
  BY Zenon DEF SameCall, CallIs, CallShape

LEMMA RunningShape ==
    ASSUME NEW e, NEW keys, NEW failed,
           CallIs(e, "running", keys, None, None, <<>>, FALSE, FALSE, failed)
    PROVE  CallShape(e)
  BY SMTT(30) DEF CallIs, CallShape

\* The plan of a key that is not skipped has the shape of its kind.
LEMMA PlanFacts ==
    ASSUME Typed, NEW k \in Keys, ~Skips(k)
    PROVE  /\ Plan(k) \in Seq(Requests) /\ IsInjective(Plan(k))
           /\ k.deletes => Plan(k) = <<DeleteRequest>>
           /\ ~k.deletes => ymap[k.thread] \in StoredThread
           /\ ~k.deletes /\ lastPersisted[k.thread] = None => Plan(k) = <<CreateRequest>>
           /\ ~k.deletes /\ lastPersisted[k.thread] # None =>
                /\ lastPersisted[k.thread] \in StoredThread
                /\ Plan(k) = Deltas(lastPersisted[k.thread], ymap[k.thread])
<1>1. k.thread \in Threads
  BY KeyFacts, Zenon
<1>2. DeleteRequest \in Requests /\ CreateRequest \in Requests
  BY SMTT(30) DEF DeleteRequest, CreateRequest, Request, Requests
<1>3. CASE k.deletes
  <2>1. Plan(k) = <<DeleteRequest>>
    BY <1>3, SMTT(30) DEF Plan, DeleteRequest
  <2> QED
    BY <1>2, <1>3, <2>1, SmallFacts
<1>4. CASE ~k.deletes
  <2>1. /\ ymap[k.thread] \in StoredThread
        /\ lastPersisted[k.thread] \in StoredThread \cup {None}
    BY <1>1, <1>4, SMTT(30) DEF Typed, TypeOK, Skips
  <2>2. CASE lastPersisted[k.thread] = None
    <3>1. Plan(k) = <<CreateRequest>>
      BY <1>4, <2>2, SMTT(30) DEF Plan, CreateRequest
    <3> QED
      BY <1>2, <1>4, <2>1, <2>2, <3>1, SmallFacts
  <2>3. CASE lastPersisted[k.thread] # None
    <3>1. Plan(k) = Deltas(lastPersisted[k.thread], ymap[k.thread])
      BY <1>4, <2>3, Zenon DEF Plan
    <3> QED
      BY <1>4, <2>1, <2>3, <3>1, DeltasFacts, SMTT(30)
  <2> QED
    BY <2>2, <2>3, SMTT(30)
<1> QED
  BY <1>3, <1>4, Zenon

LEMMA NextKeyShape ==
    ASSUME Typed, NEW i \in Drains, NextKey(i)
    PROVE  CallShape(drain'[i])
<1> DEFINE k == Head(drain[i].keys)
           e == drain'[i]
<1>1. /\ k \in Keys /\ ~Skips(k) /\ Plan(k) # <<>>
      /\ CallIs(e, "sent", Tail(drain[i].keys), k, ymap[k.thread], Plan(k), FALSE, FALSE,
                drain[i].failed)
  BY NextKeyFacts, Zenon
<1> HIDE DEF k, e
<1>2. /\ IsInjective(Plan(k))
      /\ k.deletes => Plan(k) = <<DeleteRequest>>
      /\ ~k.deletes => ymap[k.thread] \in StoredThread
      /\ ~k.deletes /\ lastPersisted[k.thread] = None => Plan(k) = <<CreateRequest>>
  BY <1>1, PlanFacts, Zenon
<1>3. ASSUME ~k.deletes, lastPersisted[k.thread] # None, NEW x, Contains(Plan(k), x)
      PROVE  \/ x.kind = "reply" /\ x.reply \in ymap[k.thread].replies
             \/ x.kind = "status"
             \/ x.kind = "decision" /\ Decided(ymap[k.thread])
  <2>1. /\ lastPersisted[k.thread] \in StoredThread /\ ymap[k.thread] \in StoredThread
        /\ Plan(k) = Deltas(lastPersisted[k.thread], ymap[k.thread])
    BY <1>1, <1>3, PlanFacts, SMTT(30)
  <2>2. \/ \E r \in ymap[k.thread].replies : x = Request("reply", r)
        \/ x = Request("status", None)
        \/ x = Request("decision", None) /\ Decided(ymap[k.thread])
    BY <1>3, <2>1, DeltasFacts
  <2> QED
    BY <2>2, SMTT(30) DEF Request
<1>4. /\ e.at = "sent" /\ e.key = k /\ e.snapshot = ymap[k.thread] /\ e.plan = Plan(k)
      /\ e.conflict = FALSE
  BY <1>1, Zenon DEF CallIs
<1>5. CallShape(e)
  BY <1>1, <1>2, <1>3, <1>4, Zenon DEF CallShape
<1> QED
  BY <1>5, Zenon DEF e

LEMMA DeliverShape ==
    ASSUME Typed, NEW i \in Drains, Deliver(i)
    PROVE  /\ CallShape(drain'[i])
           /\ LET x == Head(drain[i].plan)
              IN  /\ x.kind = "create" => drain[i].plan = <<CreateRequest>>
                  /\ x.kind = "delete" <=> drain[i].key.deletes
                  /\ x.kind = "reply" => x.reply \in drain[i].snapshot.replies
                  /\ x.kind # "delete" => drain[i].snapshot \in StoredThread
                  /\ x.kind = "decision" => Decided(drain[i].snapshot)
<1> DEFINE d == drain[i]
           e == drain'[i]
           x == Head(d.plan)
           c == x.kind = "create" /\ server[d.key.thread] # None
<1>1. /\ d.at = "sent" /\ Contains(d.plan, x)
      /\ CallIs(e, "answered", d.keys, d.key, d.snapshot, d.plan, c, d.overtaken, d.failed)
  BY DeliverFacts, Zenon
<1>2. CallShape(d)
  BY Zenon DEF Typed, Shapes
<1>3. /\ CreateRequest \in Requests /\ CreateRequest.kind = "create"
      /\ DeleteRequest \in Requests /\ DeleteRequest.kind = "delete"
  BY Zenon DEF CreateRequest, DeleteRequest, Request, Requests
<1>9. /\ \A y : Contains(<<CreateRequest>>, y) => y = CreateRequest
      /\ \A y : Contains(<<DeleteRequest>>, y) => y = DeleteRequest
  BY <1>3, SmallFacts, Zenon
<1> HIDE DEF d, e, c, x
<1>10. /\ d.key.deletes => d.plan = <<DeleteRequest>>
       /\ ~d.key.deletes =>
            /\ d.snapshot \in StoredThread
            /\ \/ d.plan = <<CreateRequest>>
               \/ \A y : Contains(d.plan, y) =>
                    \/ y.kind = "reply" /\ y.reply \in d.snapshot.replies
                    \/ y.kind = "status"
                    \/ y.kind = "decision" /\ Decided(d.snapshot)
  BY <1>1, <1>2, SMTT(30) DEF CallShape
<1>4. d.key.deletes => x = DeleteRequest
  BY <1>1, <1>9, <1>10, Zenon
<1>5. ~d.key.deletes =>
         /\ d.snapshot \in StoredThread
         /\ \/ x = CreateRequest /\ d.plan = <<CreateRequest>>
            \/ x.kind = "reply" /\ x.reply \in d.snapshot.replies
            \/ x.kind = "status"
            \/ x.kind = "decision" /\ Decided(d.snapshot)
  BY <1>1, <1>9, <1>10, Zenon
<1>6. /\ x.kind = "create" => d.plan = <<CreateRequest>>
      /\ x.kind = "delete" <=> d.key.deletes
      /\ x.kind = "reply" => x.reply \in d.snapshot.replies
      /\ x.kind # "delete" => d.snapshot \in StoredThread
      /\ x.kind = "decision" => Decided(d.snapshot)
  BY <1>3, <1>4, <1>5, Zenon
<1>7. c => d.plan = <<CreateRequest>>
  BY <1>6, SMTT(30) DEF c
<1>8. CallShape(e)
  BY <1>1, <1>2, <1>7, Zenon DEF CallShape, CallIs
<1> QED
  BY <1>6, <1>8, Zenon DEF d, e, x

LEMMA RespondMoreShape ==
    ASSUME Typed, NEW i \in Drains, Respond(i), Len(drain[i].plan) > 1
    PROVE  /\ CallShape(drain'[i])
           /\ drain[i].plan # <<CreateRequest>> /\ drain[i].conflict = FALSE
           /\ ~drain[i].key.deletes
<1> DEFINE d == drain[i]
           e == drain'[i]
           q == Tail(d.plan)
<1>1. /\ d.at = "answered" /\ q # <<>>
      /\ CallIs(e, "sent", d.keys, d.key, d.snapshot, q, d.conflict, d.overtaken, d.failed)
  BY RespondMoreFacts, SMTT(30)
<1>2. CallShape(d) /\ d.plan \in Seq(Requests) /\ d.conflict \in BOOLEAN
  BY CallFacts, Zenon DEF Typed, Shapes, TypeOK
<1>3. CreateRequest \in Requests /\ DeleteRequest \in Requests
  BY Zenon DEF CreateRequest, DeleteRequest, Request, Requests
<1> HIDE DEF d, e
<1>4. d.plan # <<CreateRequest>> /\ d.plan # <<DeleteRequest>>
  BY <1>1, <1>3, SmallFacts, Zenon
<1>5. d.plan # <<>>
  BY <1>1, <1>2, Zenon DEF CallShape
<1>6. IsInjective(d.plan)
  BY <1>1, <1>2, Zenon DEF CallShape
<1>7. /\ \A x : Contains(q, x) => Contains(d.plan, x)
      /\ IsInjective(q)
  BY <1>2, <1>5, <1>6, SplitFacts, SMTT(30)
<1> HIDE DEF q
<1>8. d.conflict = FALSE /\ ~d.key.deletes
  BY <1>1, <1>2, <1>4, SMTT(30) DEF CallShape
<1>9. CallShape(e)
  BY <1>1, <1>2, <1>4, <1>7, <1>8, Zenon DEF CallShape, CallIs
<1> QED
  BY <1>4, <1>8, <1>9, SMTT(30) DEF d, e

LEMMA TypedPersistStep ==
    ASSUME Typed, NEW i \in Drains,
           Fire(i) \/ NextKey(i) \/ SkipKey(i) \/ Deliver(i) \/ Respond(i) \/ Fail(i)
             \/ Requeue(i) \/ EndDrain(i)
    PROVE  Typed'
<1>1. /\ drain \in [Drains -> Calls] /\ \A j \in Drains : CallShape(drain[j])
      /\ ymap \in [Threads -> StoredThread \cup {None}]
      /\ lastPersisted \in [Threads -> StoredThread \cup {None}]
      /\ server \in [Threads -> StoredThread \cup {None}]
      /\ uncarried \in [Threads -> SUBSET Contents]
      /\ retryCount \in [Keys -> 0 .. MaxPersistRetries - 1] /\ 0 \in 0 .. MaxPersistRetries - 1
      /\ dirty \in Seq(Keys) /\ IsInjective(dirty)
  BY RetriesAssumption DEF Typed, TypeOK, Shapes
<1>2. ASSUME drain' \in [Drains -> Calls], Others(i), CallShape(drain'[i]) PROVE CallTypes'
  BY <1>1, <1>2, Zenon DEF CallTypes, Others
<1>3. CallShape(Idle)
  <2>1. CallIs(Idle, "idle", <<>>, None, None, <<>>, FALSE, FALSE, <<>>)
    BY CallFacts, Zenon
  <2>2. /\ Idle.at = "idle" /\ Idle.keys = <<>> /\ Idle.key = None /\ Idle.snapshot = None
        /\ Idle.plan = <<>> /\ Idle.conflict = FALSE /\ Idle.overtaken = FALSE
        /\ Idle.failed = <<>>
    BY <2>1, Zenon DEF CallIs
  <2>3. Idle.at \notin {"sent", "answered"}
    BY <2>2, Zenon
  <2> QED
    BY <2>2, <2>3, Zenon DEF CallShape
<1>4. CASE Fire(i)
  <2>1. CallTypes'
    <3>1. CallShape(drain'[i])
      BY <1>3, <1>4, FireFacts, RunningShape, Zenon
    <3> QED
      BY <1>2, <1>4, <3>1, FireFacts, Zenon
  <2>2. QueueTypes'
    BY <1>4, TypedSplit, SmallFacts, Zenon DEF QueueTypes, Fire
  <2>3. {key.thread : key \in Range(dirty)} \subseteq Threads
    BY <1>1, KeyFacts DEF Range
  <2>4. HistoryTypes'
    BY <1>4, <2>3, TypedSplit, Zenon DEF HistoryTypes, Fire, remote
  <2> QED
    BY <1>4, <2>1, <2>2, <2>4, TypedSplit, TypedFrame, Zenon DEF Fire, remote
<1>5. CASE NextKey(i)
  <2>1. CallTypes'
    BY <1>2, <1>5, NextKeyFacts, NextKeyShape, Zenon
  <2> QED
    BY <1>5, <2>1, TypedSplit, TypedFrame, Zenon DEF NextKey, remote, history
<1>6. CASE SkipKey(i)
  <2> DEFINE k == Head(drain[i].keys)
  <2>1. /\ drain' \in [Drains -> Calls] /\ k \in Keys /\ k.thread \in Threads
        /\ CallShape(drain'[i])
        /\ \A j \in Drains : j # i =>
              SameCall(drain'[j], drain[j]) /\ (drain[j].key = None => drain'[j] = drain[j])
    BY <1>6, SkipKeyFacts, RunningShape, KeyFacts, Zenon
  <2>2. CallTypes'
    BY <1>1, <2>1, ShapeKept, Zenon DEF CallTypes
  <2>3. QueueTypes'
    <3>1. retryCount' = [retryCount EXCEPT ![k] = 0]
      BY <1>6, SkipKeyFacts, Zenon
    <3> QED
      BY <1>1, <1>6, <2>1, <3>1, TypedSplit, Zenon DEF QueueTypes, SkipKey
  <2>4. RecordTypes' /\ HistoryTypes'
    <3>1. CASE UNCHANGED <<lastPersisted, uncarried, gaveUp, overtaken>>
      BY <1>6, <3>1, TypedSplit, Zenon DEF RecordTypes, HistoryTypes, SkipKey, remote
    <3>2. CASE /\ ymap[k.thread] \in StoredThread
               /\ lastPersisted' = [lastPersisted EXCEPT ![k.thread] = ymap[k.thread]]
               /\ uncarried' = [uncarried EXCEPT ![k.thread] =
                                  @ \cup {<<"mark", m>> : m \in ymap[k.thread].marks}]
               /\ gaveUp' = gaveUp \ {k.thread} /\ overtaken' = overtaken \ {k.thread}
      <4>1. {<<"mark", m>> : m \in ymap[k.thread].marks} \subseteq Contents
        BY <3>2, ItemFacts, Zenon
      <4>2. RecordTypes'
        BY <1>1, <2>1, <3>2, <4>1, Zenon DEF RecordTypes
      <4>3. HistoryTypes'
        BY <1>6, <3>2, TypedSplit, Zenon DEF HistoryTypes, SkipKey, remote
      <4> QED
        BY <4>2, <4>3, Zenon
    <3> QED
      BY <1>6, <3>1, <3>2, SkipKeyFacts, Zenon
  <2> QED
    BY <1>6, <2>2, <2>3, <2>4, TypedSplit, TypedFrame, Zenon DEF SkipKey, remote
<1>7. CASE Deliver(i)
  <2> DEFINE d == drain[i]
             t == d.key.thread
             x == Head(d.plan)
             now == Handled(x, d.snapshot, server[t])
  <2>1. CallTypes'
    BY <1>2, <1>7, DeliverFacts, DeliverShape, Zenon
  <2>2. /\ x \in Requests /\ t \in Threads /\ Handles(x, server[t]) /\ Serve(t, now)
        /\ twice' = twice \cup Repeats(x, t) /\ d \in Calls
        /\ x.kind # "delete" => d.snapshot \in StoredThread
        /\ x.kind = "reply" => x.reply \in d.snapshot.replies
    BY <1>1, <1>7, DeliverFacts, DeliverShape, Zenon
  <2>3. /\ d.snapshot \in StoredThread \cup {None}
        /\ x.kind = "reply" => x.reply \in Replies
    BY <2>2, CallFacts, Zenon DEF StoredThread
  <2>4. ServerTypes'
    BY <1>1, <2>2, <2>3, HandledFacts, ServedTypes, Zenon
  <2>5. HistoryTypes'
    BY <1>7, <2>2, TypedSplit, Zenon DEF HistoryTypes, Repeats, Deliver, history
  <2> QED
    BY <1>7, <2>1, <2>4, <2>5, TypedSplit, TypedFrame, Zenon DEF Deliver, history
<1>8. CASE Respond(i) /\ Len(drain[i].plan) > 1
  <2>1. CallTypes'
    BY <1>2, <1>8, RespondMoreFacts, RespondMoreShape, Zenon
  <2>2. UNCHANGED <<lastPersisted, retryCount, uncarried, gaveUp, overtaken>>
    BY <1>8, RespondMoreFacts, Zenon
  <2> QED
    BY <1>8, <2>1, <2>2, TypedSplit, TypedFrame, Zenon DEF Respond, remote
<1>9. CASE Respond(i) /\ ~(Len(drain[i].plan) > 1)
  <2> DEFINE d == drain[i]
             t == d.key.thread
  <2>1. /\ drain' \in [Drains -> Calls] /\ d.key \in Keys /\ t \in Threads
        /\ d.at = "answered" /\ d \in Calls
        /\ CallShape(drain'[i])
        /\ \A j \in Drains : j # i =>
              SameCall(drain'[j], drain[j]) /\ (drain[j].key = None => drain'[j] = drain[j])
    <3>1. CallShape(drain'[i])
      BY <1>9, RespondLastFacts, RunningShape, Zenon
    <3>2. /\ drain' \in [Drains -> Calls] /\ d.key \in Keys /\ t \in Threads /\ d.at = "answered"
      BY <1>9, RespondLastFacts, Zenon
    <3>3. ASSUME NEW j \in Drains, j # i
          PROVE  SameCall(drain'[j], drain[j]) /\ (drain[j].key = None => drain'[j] = drain[j])
      <4> HIDE DEF d, t
      <4> QED
        BY <1>9, <3>3, RespondLastFacts, ZenonT(60)
    <3> QED
      BY <1>1, <3>1, <3>2, <3>3, Zenon
  <2>2. CallTypes'
    BY <1>1, <2>1, ShapeKept, Zenon DEF CallTypes
  <2>3. QueueTypes'
    <3>1. retryCount' = [retryCount EXCEPT ![d.key] = 0]
      BY <1>9, RespondLastFacts, Zenon
    <3> QED
      BY <1>1, <1>9, <2>1, <3>1, TypedSplit, Zenon DEF QueueTypes, Respond
  <2>4. ~d.key.deletes => d.snapshot \in StoredThread
    BY <1>1, <2>1, Zenon DEF CallShape
  <2>5. RecordTypes'
    <3>1. ~d.key.deletes => Uncarried(d) \subseteq Contents
      <4>1. SUFFICES ASSUME ~d.key.deletes PROVE Uncarried(d) \subseteq Contents
        BY Zenon
      <4>2. Items(d.snapshot) \subseteq Contents
        BY <2>4, <4>1, ItemFacts, SMTT(30)
      <4>3. {<<"mark", m>> : m \in d.snapshot.marks} \subseteq Contents
        BY <2>4, <4>1, ItemFacts, Zenon
      <4> QED
        BY <4>2, <4>3, Zenon DEF Uncarried
    <3>2. lastPersisted' = [lastPersisted EXCEPT ![t] = IF d.key.deletes THEN None ELSE d.snapshot]
      BY <1>9, RespondLastFacts, Zenon
    <3>3. uncarried' = uncarried \/ (~d.key.deletes /\ uncarried' = [uncarried EXCEPT ![t] = @ \cup Uncarried(d)])
      BY <1>9, RespondLastFacts, Zenon
    <3> HIDE DEF d
    <3>4. uncarried' \in [Threads -> SUBSET Contents]
      BY <1>1, <2>1, <3>1, <3>3, SMTT(30)
    <3>5. lastPersisted' \in [Threads -> StoredThread \cup {None}]
      BY <1>1, <2>1, <2>4, <3>2, Zenon
    <3> QED
      BY <3>4, <3>5, Zenon DEF RecordTypes
  <2>6. HistoryTypes'
    <3>1. gaveUp' \subseteq gaveUp
      <4>1. gaveUp' = IF ymap[t] = d.snapshot THEN gaveUp \ {t} ELSE gaveUp
        BY <1>9, RespondLastFacts, Zenon
      <4> QED
        BY <4>1, Zenon
    <3>2. overtaken' \subseteq overtaken \cup {t}
      <4>1. overtaken' \in {overtaken, overtaken \cup {t}, overtaken \ {t}}
        BY <1>9, RespondLastFacts, Zenon
      <4> QED
        BY <4>1, Zenon
    <3> QED
      BY <1>9, <2>1, <3>1, <3>2, TypedSplit, SMTT(30) DEF HistoryTypes, Respond, remote
  <2> QED
    BY <1>9, <2>2, <2>3, <2>5, <2>6, TypedSplit, TypedFrame, SMTT(30) DEF Respond, remote
<1>10. CASE Fail(i)
  <2>1. CallTypes'
    <3>1. CallShape(drain'[i])
      BY <1>10, FailFacts, RunningShape, Zenon
    <3> QED
      BY <1>2, <1>10, <3>1, FailFacts, Zenon
  <2>2. QueueTypes'
    BY <1>10, FailFacts, TypedSplit, Zenon DEF QueueTypes, Fail
  <2>3. HistoryTypes'
    BY <1>10, FailFacts, TypedSplit, Zenon DEF HistoryTypes, Fail, remote
  <2> QED
    BY <1>10, <2>1, <2>2, <2>3, TypedSplit, TypedFrame, Zenon DEF Fail, remote
<1>11. CASE Requeue(i)
  <2>1. CallTypes'
    <3>1. CallShape(drain'[i])
      BY <1>11, RequeueFacts, RunningShape, Zenon
    <3> QED
      BY <1>2, <1>11, <3>1, RequeueFacts, Zenon
  <2>2. QueueTypes'
    BY <1>1, <1>11, RequeueFacts, AddFacts, TypedSplit, ZenonT(60) DEF QueueTypes, Requeue
  <2> QED
    BY <1>11, <2>1, <2>2, TypedSplit, TypedFrame, Zenon DEF Requeue, remote, history
<1>12. CASE EndDrain(i)
  <2>1. CallTypes'
    BY <1>2, <1>3, <1>12, EndDrainFacts, Zenon
  <2> QED
    BY <1>12, <2>1, TypedSplit, TypedFrame, Zenon DEF EndDrain, remote, history
<1> QED
  BY <1>4, <1>5, <1>6, <1>7, <1>8, <1>9, <1>10, <1>11, <1>12, Zenon

LEMMA TypedPollStep ==
    ASSUME Typed,
           LoadList \/ PollList \/ (\E t \in Threads : PollDeleted(t))
             \/ (\E t \in Threads : PollFetch(t)) \/ (\E t \in Threads : PollSkip(t))
             \/ PollApply \/ Destroy
    PROVE  Typed'
<1>1. ASSUME NEW loads \in BOOLEAN, NEW todo \in SUBSET Threads, poll' = Polling(loads, todo)
      PROVE  PollTypes'
  BY <1>1, Zenon DEF PollTypes, Polling, NoPoll, PollAt
<1>2. /\ poll.loads \in BOOLEAN /\ poll.todo \in SUBSET Threads
      /\ server \in [Threads -> StoredThread \cup {None}]
      /\ dirty \in Seq(Keys) /\ IsInjective(dirty) /\ timer \in BOOLEAN
      /\ drain \in [Drains -> Calls] /\ \A j \in Drains : CallShape(drain[j])
      /\ lastPersisted \in [Threads -> StoredThread \cup {None}]
  BY SMTT(30) DEF Typed, TypeOK, Shapes
<1>3. CASE LoadList
  <2>1. PollTypes'
    BY <1>1, <1>3, Zenon DEF LoadList
  <2>2. ServerTypes'
    BY <1>3, TypedSplit, SMTT(30) DEF LoadList, ServerTypes
  <2> QED
    BY <1>3, <2>1, <2>2, TypedSplit, TypedFrame, Zenon DEF LoadList, engine, history
<1>4. CASE PollList
  <2>1. PollTypes'
    BY <1>1, <1>4, Zenon DEF PollList
  <2>2. ServerTypes'
    BY <1>4, TypedSplit, Zenon DEF PollList, ServerTypes
  <2> QED
    BY <1>4, <2>1, <2>2, TypedSplit, TypedFrame, Zenon DEF PollList, engine, history
<1>5. ASSUME NEW t \in Threads, PollDeleted(t) PROVE Typed'
  <2>1. PollTypes'
    BY <1>1, <1>2, <1>5, ZenonT(60) DEF PollDeleted
  <2>2. DocTypes'
    BY <1>5, TypedSplit, Zenon DEF PollDeleted, DocTypes
  <2> QED
    BY <1>5, <2>1, <2>2, TypedSplit, TypedFrame, Zenon DEF PollDeleted, engine, remote, history
<1>6. ASSUME NEW t \in Threads, PollFetch(t) PROVE Typed'
  <2>1. PollTypes'
    BY <1>2, <1>6, TypedSplit, Zenon DEF PollFetch, PollTypes
  <2> QED
    BY <1>6, <2>1, TypedSplit, TypedFrame, Zenon DEF PollFetch, engine, remote, history
<1>7. ASSUME NEW t \in Threads, PollSkip(t) PROVE Typed'
  <2>1. PollTypes'
    BY <1>1, <1>2, <1>7, ZenonT(60) DEF PollSkip
  <2> QED
    BY <1>7, <2>1, TypedSplit, TypedFrame, Zenon DEF PollSkip, engine, remote, history
<1>8. CASE PollApply
  <2> DEFINE t == poll.thread
  <2>1. /\ t \in Threads /\ poll.wire \in StoredThread
        /\ ymap' \in [Threads -> StoredThread \cup {None}]
        /\ lastPersisted' = [lastPersisted EXCEPT ![t] = poll.wire]
        /\ \/ dirty' = Drop(dirty, Update(t)) /\ timer' = timer
           \/ dirty' = Append(Drop(dirty, Update(t)), Update(t)) /\ timer' = TRUE
        /\ drain' \in [Drains -> Calls]
        /\ \A j \in Drains :
              SameCall(drain'[j], drain[j]) /\ (drain[j].key = None => drain'[j] = drain[j])
    BY <1>8, PollApplyFacts, Zenon
  <2>2. CallTypes'
    BY <1>2, <2>1, ShapeKept, Zenon DEF CallTypes
  <2>3. PollTypes'
    BY <1>1, <1>2, <1>8, SMTT(30) DEF PollApply
  <2>4. DocTypes'
    BY <1>8, <2>1, TypedSplit, Zenon DEF PollApply, DocTypes
  <2>5. QueueTypes'
    <3> DEFINE q == Drop(dirty, Update(t))
    <3>1. q \in Seq(Keys) /\ IsInjective(q) /\ ~Contains(q, Update(t))
      BY <1>2, DropFacts, SMTT(30)
    <3>2. Update(t) \in Keys
      BY <2>1, KeyFacts, Zenon
    <3> HIDE DEF q
    <3>3. Append(q, Update(t)) \in Seq(Keys) /\ IsInjective(Append(q, Update(t)))
      BY <3>1, <3>2, AppendFacts, Zenon
    <3>4. dirty' \in Seq(Keys) /\ IsInjective(dirty') /\ timer' \in BOOLEAN
      BY <1>2, <2>1, <3>1, <3>3, Zenon DEF q
    <3> QED
      BY <1>8, <3>4, TypedSplit, SMTT(30) DEF PollApply, QueueTypes
  <2>6. RecordTypes'
    BY <1>2, <1>8, <2>1, TypedSplit, SMTT(30) DEF PollApply, RecordTypes
  <2>7. HistoryTypes'
    BY <1>8, <2>1, TypedSplit, SMTT(30) DEF PollApply, HistoryTypes, remote
  <2> QED
    BY <1>8, <2>2, <2>3, <2>4, <2>5, <2>6, <2>7, TypedSplit, TypedFrame, Zenon DEF PollApply, remote
<1>9. CASE Destroy
  <2>1. PollTypes'
    BY <1>9, Zenon DEF Destroy, PollTypes, NoPoll, PollAt
  <2>2. QueueTypes'
    <3>1. 0 \in 0 .. MaxPersistRetries - 1
      BY RetriesAssumption
    <3>2. <<>> \in Seq(Keys) /\ IsInjective(<<>>)
      BY SmallFacts, Zenon
    <3> QED
      BY <1>9, <3>1, <3>2, Zenon DEF Destroy, QueueTypes
  <2>3. RecordTypes'
    BY <1>9, TypedSplit, Zenon DEF Destroy, RecordTypes, history
  <2> QED
    BY <1>9, <2>1, <2>2, <2>3, TypedSplit, TypedFrame, Zenon DEF Destroy, remote, history
<1> QED
  BY <1>3, <1>4, <1>5, <1>6, <1>7, <1>8, <1>9, SMTT(30)

LEMMA TypedStep ==
    ASSUME Typed, [Next]_vars
    PROVE  Typed'
<1>1. CASE UNCHANGED vars
  BY <1>1, TypedSplit, TypedFrame, SMTT(30) DEF vars
<1>2. CASE Next
  BY <1>2, TypedUserStep, TypedServerStep, TypedPersistStep, TypedPollStep, Zenon DEF Next
<1> QED
  BY <1>1, <1>2, SMTT(30)

----
(***************************************************************************)
(* No change is dropped silently.                                          *)
(***************************************************************************)

\* Call d will still read thread u, or is sending it as s.
InCall(d, u, s) ==
    \/ Contains(d.keys, Update(u)) \/ Contains(d.failed, Update(u))
    \/ d.key = Update(u) /\ d.snapshot = s

Safe(u) == ymap[u] = None \/ Pending(u) \/ u \in gaveUp

\* PendingOrRecorded needs to know what becomes of a snapshot that is being sent:
\* when its thread changed since, the change waits elsewhere, or the call was
\* overtaken.
NoneLost ==
    alive => \A u \in Threads :
        /\ ymap[u] = lastPersisted[u] \/ Safe(u) \/ u \in overtaken
        /\ \A i \in Drains : Active(i, u) => drain[i].overtaken \/ Safe(u)

LEMMA PendingFacts ==
    /\ Typed => \A u : Pending(u) <=>
           Contains(dirty, Update(u)) \/ \E j \in Drains : InCall(drain[j], u, ymap[u])
    /\ Typed' => \A u : Pending(u)' <=>
           Contains(dirty', Update(u)) \/ \E j \in Drains : InCall(drain'[j], u, ymap'[u])
<1>1. \A d \in Calls : \A x :
         Contains(d.keys \o d.failed, x) <=> Contains(d.keys, x) \/ Contains(d.failed, x)
  BY CallFacts, ConcatFacts, Zenon
<1>2. ASSUME Typed, NEW u
      PROVE  Pending(u) <=>
               Contains(dirty, Update(u)) \/ \E j \in Drains : InCall(drain[j], u, ymap[u])
  <2>1. \A j \in Drains : drain[j] \in Calls
    BY <1>2, Zenon DEF Typed, TypeOK
  <2> QED
    BY <1>1, <2>1, Zenon DEF Pending, InCall
<1>3. ASSUME Typed', NEW u
      PROVE  Pending(u)' <=>
               Contains(dirty', Update(u)) \/ \E j \in Drains : InCall(drain'[j], u, ymap'[u])
  <2>1. \A j \in Drains : drain'[j] \in Calls
    BY <1>3, SMTT(30) DEF Typed, TypeOK
  <2> QED
    BY <1>1, <2>1, Zenon DEF Pending, InCall
<1> QED
  BY <1>2, <1>3, Zenon

LEMMA InCallKept ==
    ASSUME NEW e, NEW d, SameCall(e, d), NEW u, NEW s, InCall(d, u, s)
    PROVE  InCall(e, u, s)
  BY Zenon DEF InCall, SameCall, CallIs

\* A step that leaves the calls and the records alone.
LEMMA QuietKept ==
    ASSUME Typed, Typed', NoneLost, UNCHANGED <<lastPersisted, drain, overtaken>>, alive' => alive,
           NEW T \in SUBSET Threads,
           \A u \in T : ymap'[u] = None \/ Contains(dirty', Update(u)),
           \A u \in Threads \ T :
              /\ ymap'[u] = ymap[u] /\ (u \in gaveUp => u \in gaveUp')
              /\ Contains(dirty, Update(u)) => Contains(dirty', Update(u))
    PROVE  NoneLost'
<1>1. ASSUME NEW u \in Threads \ T, Safe(u) PROVE Safe(u)'
  BY <1>1, PendingFacts, Zenon DEF Safe
<1>2. ASSUME NEW u \in T PROVE Safe(u)'
  BY <1>2, PendingFacts, Zenon DEF Safe
<1>3. \A u \in Threads, i \in Drains : Active(i, u)' <=> Active(i, u)
  BY SMTT(30) DEF Active
<1> QED
  BY <1>1, <1>2, <1>3, Zenon DEF NoneLost

LEMMA LostUserStep ==
    ASSUME Typed, Typed', NoneLost, NEW t \in Threads, NEW next,
           ymap' = [ymap EXCEPT ![t] = next],
           \A u \in Threads : Contains(dirty, Update(u)) => Contains(dirty', Update(u)),
           next = None \/ Contains(dirty', Update(t)),
           gaveUp \ {t} \subseteq gaveUp',
           UNCHANGED <<lastPersisted, drain, overtaken, alive>>
    PROVE  NoneLost'
<1>1. ymap \in [Threads -> StoredThread \cup {None}]
  BY Zenon DEF Typed, TypeOK
<1>2. ymap'[t] = next /\ \A u \in Threads \ {t} : ymap'[u] = ymap[u]
  BY <1>1, Zenon
<1> DEFINE T == {t}
<1>3. /\ T \in SUBSET Threads
      /\ \A u \in T : ymap'[u] = None \/ Contains(dirty', Update(u))
      /\ \A u \in Threads \ T :
            /\ ymap'[u] = ymap[u] /\ (u \in gaveUp => u \in gaveUp')
            /\ Contains(dirty, Update(u)) => Contains(dirty', Update(u))
  BY <1>2, Zenon
<1> HIDE DEF T
<1> QED
  BY <1>3, QuietKept, SMTT(30)

\* What waits still waits after a step of a call.
LEMMA PendingKept ==
    ASSUME Typed, Typed', NEW i \in Drains, NEW u \in Threads, Pending(u),
           UNCHANGED ymap,
           \A j \in Drains : j # i => SameCall(drain'[j], drain[j]),
           Contains(dirty, Update(u)) => Contains(dirty', Update(u)) \/ InCall(drain'[i], u, ymap[u]),
           InCall(drain[i], u, ymap[u]) =>
              Contains(dirty', Update(u)) \/ InCall(drain'[i], u, ymap[u])
    PROVE  Pending(u)'
  BY PendingFacts, InCallKept, Zenon

LEMMA LostPersistStep ==
    ASSUME Typed, Typed', NoneLost, NEW i \in Drains,
           Fire(i) \/ NextKey(i) \/ SkipKey(i) \/ Deliver(i) \/ Respond(i) \/ Fail(i)
             \/ Requeue(i) \/ EndDrain(i)
    PROVE  NoneLost'
<1>1. /\ drain \in [Drains -> Calls] /\ \A j \in Drains : CallShape(drain[j])
      /\ dirty \in Seq(Keys) /\ IsInjective(dirty) /\ lastPersisted \in [Threads -> StoredThread \cup {None}]
      /\ gaveUp \subseteq Threads /\ overtaken \subseteq Threads
  BY SMTT(30) DEF Typed, TypeOK, Shapes
<1>2. SUFFICES ASSUME alive, alive', NEW u \in Threads
               PROVE  /\ ymap'[u] = lastPersisted'[u] \/ Safe(u)' \/ u \in overtaken'
                      /\ \A j \in Drains : Active(j, u)' => drain'[j].overtaken \/ Safe(u)'
  <2>1. UNCHANGED alive
    BY Zenon DEF Fire, NextKey, SkipKey, Deliver, Respond, Fail, Requeue, EndDrain
  <2> QED
    BY <2>1, Zenon DEF NoneLost
<1>3. /\ ymap[u] = lastPersisted[u] \/ Safe(u) \/ u \in overtaken
      /\ \A j \in Drains : Active(j, u) => drain[j].overtaken \/ Safe(u)
  BY <1>2, Zenon DEF NoneLost
<1>4. UNCHANGED ymap
  BY Zenon DEF Fire, NextKey, SkipKey, Deliver, Respond, Fail, Requeue, EndDrain
<1>5. Update(u) \in Keys
  BY KeyFacts, Zenon
\* A step after which u is as safe as before, and that records nothing.
<1>6. ASSUME Pending(u) => Pending(u)' \/ u \in gaveUp', gaveUp \subseteq gaveUp', Others(i),
             drain'[i].at \in {"sent", "answered"} /\ drain'[i].key = Update(u) =>
                 \/ Pending(u)'
                 \/ Active(i, u) /\ drain'[i].overtaken = drain[i].overtaken,
             UNCHANGED <<lastPersisted, overtaken>>
      PROVE  /\ ymap'[u] = lastPersisted'[u] \/ Safe(u)' \/ u \in overtaken'
             /\ \A j \in Drains : Active(j, u)' => drain'[j].overtaken \/ Safe(u)'
  <2>1. Safe(u) => Safe(u)'
    BY <1>4, <1>6, Zenon DEF Safe
  <2>2. ymap'[u] = lastPersisted'[u] \/ Safe(u)' \/ u \in overtaken'
    BY <1>3, <1>4, <1>6, <2>1, Zenon
  <2>3. ASSUME NEW j \in Drains, Active(j, u)' PROVE drain'[j].overtaken \/ Safe(u)'
    <3>1. CASE j = i
      BY <1>3, <1>6, <2>1, <2>3, <3>1, Zenon DEF Active, Safe
    <3>2. CASE j # i
      BY <1>3, <1>6, <2>1, <2>3, <3>2, Zenon DEF Active, Others
    <3> QED
      BY <3>1, <3>2, Zenon
  <2> QED
    BY <2>2, <2>3, Zenon
<1>7. Others(i) => \A j \in Drains : j # i => SameCall(drain'[j], drain[j])
  BY Zenon DEF Others, SameCall, CallIs
<1>8. CASE Fire(i)
  <2>1. /\ Others(i) /\ drain'[i].at \in {"idle", "running"}
        /\ Contains(dirty, Update(u)) => InCall(drain'[i], u, ymap[u])
        /\ ~InCall(drain[i], u, ymap[u])
    <3>1. ~InCall(drain[i], u, ymap[u])
      <4>1. drain[i] = Idle
        BY <1>8, Zenon DEF Fire
      <4>2. Idle.keys = <<>> /\ Idle.failed = <<>> /\ Idle.key # Update(u)
        BY <1>5, CallFacts, NoneAssumption, Zenon DEF CallIs
      <4>3. ~Contains(<<>>, Update(u))
        BY SmallFacts, Zenon
      <4> QED
        BY <4>1, <4>2, <4>3, Zenon DEF InCall
    <3>2. CASE dirty = <<>>
      <4>1. Others(i) /\ drain'[i].at = "idle"
        BY <1>1, <1>8, <3>2, FireFacts, CallFacts, Zenon DEF CallIs
      <4> QED
        BY <3>1, <3>2, <4>1, SmallFacts, Zenon
    <3>3. CASE dirty # <<>>
      <4>1. Others(i) /\ drain'[i].at = "running" /\ drain'[i].keys = dirty
        BY <1>1, <1>8, <3>3, FireFacts, Zenon DEF CallIs
      <4> QED
        BY <3>1, <4>1, Zenon DEF InCall
    <3> QED
      BY <3>2, <3>3, Zenon
  <2>2. Pending(u) => Pending(u)'
    BY <1>4, <1>7, <2>1, PendingKept, Zenon
  <2> QED
    BY <1>6, <1>8, <2>1, <2>2, Zenon DEF Fire
<1>9. CASE NextKey(i)
  <2> DEFINE k == Head(drain[i].keys)
  <2>1. /\ Others(i) /\ k \in Keys /\ drain[i].keys # <<>> /\ drain[i].keys \in Seq(Keys)
        /\ drain'[i].keys = Tail(drain[i].keys) /\ drain'[i].key = k
        /\ drain'[i].snapshot = ymap[k.thread] /\ drain'[i].failed = drain[i].failed
        /\ drain[i].key = None
    BY <1>1, <1>9, NextKeyFacts, CallFacts, Zenon DEF CallIs, CallShape
  <2>2. \A x : Contains(drain[i].keys, x) => x = k \/ Contains(Tail(drain[i].keys), x)
    BY <2>1, SplitFacts, Zenon
  <2>3. k = Update(u) => InCall(drain'[i], u, ymap[u])
    BY <2>1, KeyFacts, Zenon DEF InCall
  <2>4. InCall(drain[i], u, ymap[u]) => InCall(drain'[i], u, ymap[u])
    BY <1>5, <2>1, <2>2, <2>3, NoneAssumption, Zenon DEF InCall
  <2>5. Pending(u) => Pending(u)'
    BY <1>4, <1>7, <1>9, <2>1, <2>4, PendingKept, Zenon DEF NextKey
  <2>6. k = Update(u) => Pending(u)'
    BY <1>4, <2>3, PendingFacts, Zenon
  <2> QED
    BY <1>6, <1>9, <2>1, <2>5, <2>6, Zenon DEF NextKey, history
<1>10. CASE SkipKey(i)
  <2> DEFINE k == Head(drain[i].keys)
  <2>1. /\ k \in Keys /\ ~k.deletes /\ drain[i].keys # <<>> /\ drain[i].keys \in Seq(Keys)
        /\ drain'[i].keys = Tail(drain[i].keys) /\ drain'[i].key = None
        /\ drain'[i].at = "running" /\ drain'[i].failed = drain[i].failed
        /\ drain[i].key = None
    BY <1>1, <1>10, SkipKeyFacts, CallFacts, Zenon DEF CallIs, CallShape
  <2>2. \A j \in Drains : j # i =>
            /\ SameCall(drain'[j], drain[j]) /\ (drain[j].overtaken => drain'[j].overtaken)
            /\ drain[j].key # None /\ drain[j].key.thread = k.thread => drain'[j].overtaken
    BY <1>10, SkipKeyFacts, Zenon
  <2>3. \A x : Contains(drain[i].keys, x) => x = k \/ Contains(Tail(drain[i].keys), x)
    BY <2>1, SplitFacts, Zenon
  <2>4. \/ ymap[k.thread] \in {None, lastPersisted[k.thread]}
           /\ UNCHANGED <<lastPersisted, gaveUp, overtaken>>
        \/ /\ lastPersisted' = [lastPersisted EXCEPT ![k.thread] = ymap[k.thread]]
           /\ gaveUp' = gaveUp \ {k.thread} /\ overtaken' = overtaken \ {k.thread}
    BY <1>10, SkipKeyFacts, Zenon
  <2> HIDE DEF k
  <2>5. CASE k.thread = u
    <3>1. ymap'[u] \in {None, lastPersisted'[u]}
      BY <1>1, <1>4, <2>4, <2>5, Zenon
    <3>2. ASSUME NEW j \in Drains, Active(j, u)' PROVE drain'[j].overtaken
      <4>1. j # i /\ drain[j].key = Update(u)
        BY <2>1, <2>2, <3>2, Zenon DEF Active, SameCall, CallIs
      <4>2. Update(u) # None /\ Update(u).thread = u
        BY <1>5, KeyFacts, NoneAssumption, Zenon
      <4> QED
        BY <2>2, <2>5, <4>1, <4>2, Zenon
    <3> QED
      BY <3>1, <3>2, Zenon DEF Safe
  <2>6. CASE k.thread # u
    <3>1. k # Update(u)
      BY <2>6, KeyFacts, Zenon
    <3>2. InCall(drain[i], u, ymap[u]) => InCall(drain'[i], u, ymap[u])
      BY <1>5, <2>1, <2>3, <3>1, NoneAssumption, Zenon DEF InCall
    <3>3. Pending(u) => Pending(u)'
      BY <1>4, <1>10, <2>2, <3>2, PendingKept, Zenon DEF SkipKey
    <3>4. lastPersisted'[u] = lastPersisted[u] /\ (u \in gaveUp => u \in gaveUp')
          /\ (u \in overtaken => u \in overtaken')
      BY <1>1, <2>4, <2>6, Zenon
    <3>5. Safe(u) => Safe(u)'
      BY <1>4, <3>3, <3>4, Zenon DEF Safe
    <3>6. ASSUME NEW j \in Drains, Active(j, u)' PROVE drain'[j].overtaken \/ Safe(u)'
      <4>1. j # i /\ Active(j, u)
        BY <2>1, <2>2, <3>6, Zenon DEF Active, SameCall, CallIs
      <4> QED
        BY <1>3, <2>2, <3>5, <4>1, Zenon
    <3> QED
      BY <1>3, <1>4, <3>4, <3>5, <3>6, Zenon
  <2> QED
    BY <2>5, <2>6, Zenon
<1>11. CASE Deliver(i)
  <2>1. /\ Others(i) /\ drain'[i].overtaken = drain[i].overtaken /\ drain[i].at = "sent"
        /\ drain'[i].key = drain[i].key
    BY <1>11, DeliverFacts, Zenon DEF CallIs
  <2>2. InCall(drain[i], u, ymap[u]) => InCall(drain'[i], u, ymap[u])
    BY <1>11, DeliverFacts, Zenon DEF CallIs, InCall
  <2>3. Pending(u) => Pending(u)'
    BY <1>4, <1>7, <1>11, <2>1, <2>2, PendingKept, Zenon DEF Deliver
  <2>4. drain'[i].key = Update(u) => Active(i, u)
    BY <2>1, Zenon DEF Active
  <2> QED
    BY <1>6, <1>11, <2>1, <2>3, <2>4, Zenon DEF Deliver, history
<1>12. CASE Respond(i) /\ Len(drain[i].plan) > 1
  <2>1. /\ Others(i) /\ drain'[i].overtaken = drain[i].overtaken /\ drain[i].at = "answered"
        /\ drain'[i].key = drain[i].key
        /\ UNCHANGED <<lastPersisted, gaveUp, overtaken>>
    BY <1>12, RespondMoreFacts, Zenon DEF CallIs
  <2>2. InCall(drain[i], u, ymap[u]) => InCall(drain'[i], u, ymap[u])
    BY <1>12, RespondMoreFacts, Zenon DEF CallIs, InCall
  <2>3. Pending(u) => Pending(u)'
    BY <1>4, <1>7, <1>12, <2>1, <2>2, PendingKept, Zenon DEF Respond
  <2>4. drain'[i].key = Update(u) => Active(i, u)
    BY <2>1, Zenon DEF Active
  <2> QED
    BY <1>6, <2>1, <2>3, <2>4, Zenon
<1>13. CASE Respond(i) /\ ~(Len(drain[i].plan) > 1)
  <2> DEFINE d == drain[i]
             t == d.key.thread
  <2>1. /\ d.at = "answered" /\ d.key \in Keys /\ t \in Threads
        /\ drain'[i].keys = d.keys /\ drain'[i].failed = d.failed
        /\ drain'[i].at = "running"
    BY <1>13, RespondLastFacts, Zenon DEF CallIs
  <2>2. \A j \in Drains : j # i =>
            /\ SameCall(drain'[j], drain[j]) /\ (drain[j].overtaken => drain'[j].overtaken)
            /\ drain[j].key # None /\ drain[j].key.thread = t => drain'[j].overtaken
    BY <1>13, RespondLastFacts, Zenon
  <2>3. /\ lastPersisted' = [lastPersisted EXCEPT ![t] = IF d.key.deletes THEN None ELSE d.snapshot]
        /\ gaveUp' = IF ymap[t] = d.snapshot THEN gaveUp \ {t} ELSE gaveUp
        /\ d.key.deletes => overtaken' = IF ymap[t] = None THEN overtaken ELSE overtaken \cup {t}
        /\ ~d.key.deletes => overtaken' = IF d.overtaken THEN overtaken \cup {t} ELSE overtaken \ {t}
    BY <1>13, RespondLastFacts, Zenon
  <2>4. UNCHANGED dirty
    BY <1>13, SMTT(30) DEF Respond
  <2> HIDE DEF d
  <2>5. ASSUME NEW j \in Drains, Active(j, u)', t = u PROVE drain'[j].overtaken
    <3>1. j # i /\ drain[j].key = Update(u)
      BY <2>1, <2>2, <2>5, Zenon DEF Active, SameCall, CallIs
    <3> QED
      BY <1>5, <2>2, <2>5, <3>1, KeyFacts, NoneAssumption, Zenon
  <2>6. ASSUME d.key # Update(u) \/ d.snapshot # ymap[u], Pending(u) PROVE Pending(u)'
    <3>1. InCall(d, u, ymap[u]) => InCall(drain'[i], u, ymap[u])
      BY <2>1, <2>6, Zenon DEF InCall
    <3> QED
      BY <1>4, <2>2, <2>4, <2>6, <3>1, PendingKept, Zenon DEF d
  <2>7. CASE t = u /\ d.key.deletes
    <3>1. ymap[u] = None \/ u \in overtaken'
      BY <2>3, <2>7, Zenon
    <3> QED
      BY <1>4, <2>5, <2>7, <3>1, Zenon DEF Safe
  <2>8. CASE t = u /\ ~d.key.deletes
    <3>1. d.key = Update(u) /\ Active(i, u) /\ lastPersisted'[u] = d.snapshot
      BY <1>1, <2>1, <2>3, <2>8, KeyFacts, Zenon DEF Active, d
    <3>2. CASE ymap[u] = d.snapshot
      BY <1>4, <2>5, <2>8, <3>1, <3>2, Zenon
    <3>3. CASE ymap[u] # d.snapshot
      <4>1. d.overtaken \/ Safe(u)
        BY <1>3, <3>1, Zenon DEF d
      <4>2. d.overtaken => u \in overtaken'
        BY <2>3, <2>8, SMTT(30)
      <4>3. gaveUp' = gaveUp
        BY <2>3, <2>8, <3>3, SMTT(30)
      <4>4. Safe(u) => Safe(u)'
        BY <1>4, <2>6, <3>3, <4>3, Zenon DEF Safe
      <4> QED
        BY <2>5, <2>8, <4>1, <4>2, <4>4, Zenon
    <3> QED
      BY <3>2, <3>3, Zenon
  <2>9. CASE t # u
    <3>1. d.key # Update(u)
      BY <2>9, KeyFacts, Zenon
    <3>2. /\ lastPersisted'[u] = lastPersisted[u] /\ (u \in gaveUp => u \in gaveUp')
          /\ u \in overtaken => u \in overtaken'
      BY <1>1, <2>1, <2>3, <2>9, Zenon
    <3>3. Safe(u) => Safe(u)'
      BY <1>4, <2>6, <3>1, <3>2, Zenon DEF Safe
    <3>4. ASSUME NEW j \in Drains, Active(j, u)' PROVE drain'[j].overtaken \/ Safe(u)'
      <4>1. j # i /\ Active(j, u)
        BY <2>1, <2>2, <3>4, Zenon DEF Active, SameCall, CallIs
      <4> QED
        BY <1>3, <2>2, <3>3, <4>1, Zenon
    <3> QED
      BY <1>3, <1>4, <3>2, <3>3, <3>4, Zenon
  <2> QED
    BY <2>7, <2>8, <2>9, Zenon
<1>14. CASE Fail(i)
  <2> DEFINE d == drain[i]
  <2>1. PICK q \in {d.failed, Append(d.failed, d.key)} :
            /\ CallIs(drain'[i], "running", d.keys, None, None, <<>>, FALSE, FALSE, q)
            /\ q = Append(d.failed, d.key) \/ d.key.thread \in gaveUp'
    BY <1>14, FailFacts, Zenon
  <2>2. Others(i) /\ gaveUp \subseteq gaveUp' /\ d.key \in Keys /\ d.failed \in Seq(Keys)
    BY <1>1, <1>14, FailFacts, CallFacts, Zenon
  <2>3. /\ \A x : Contains(d.failed, x) => Contains(q, x)
        /\ q = Append(d.failed, d.key) => Contains(q, d.key)
    <3>1. CASE q = Append(d.failed, d.key)
      <4>1. \A x : Contains(Append(d.failed, d.key), x) <=> Contains(d.failed, x) \/ x = d.key
        BY <2>2, AppendFacts
      <4> QED
        BY <3>1, <4>1, Zenon
    <3>2. CASE q # Append(d.failed, d.key)
      BY <2>1, <3>2, Zenon
    <3> QED
      BY <3>1, <3>2, Zenon
  <2>4. InCall(d, u, ymap[u]) => InCall(drain'[i], u, ymap[u]) \/ u \in gaveUp'
    <3>1. drain'[i].keys = d.keys /\ drain'[i].failed = q
      BY <2>1, Zenon DEF CallIs
    <3>2. CASE d.key = Update(u)
      <4>1. d.key.thread = u
        BY <3>2, KeyFacts, Zenon
      <4>2. CASE q = Append(d.failed, d.key)
        BY <2>3, <3>1, <3>2, <4>2, Zenon DEF InCall
      <4> QED
        BY <2>1, <4>1, <4>2, Zenon
    <3>3. CASE d.key # Update(u)
      BY <2>3, <3>1, <3>3, Zenon DEF InCall
    <3> QED
      BY <3>2, <3>3, Zenon
  <2>5. Pending(u) => Pending(u)' \/ u \in gaveUp'
    BY <1>4, <1>7, <1>14, <2>2, <2>4, PendingKept, Zenon DEF Fail
  <2>6. drain'[i].at = "running"
    BY <2>1, Zenon DEF CallIs
  <2> QED
    BY <1>6, <1>14, <2>2, <2>5, <2>6, Zenon DEF Fail
<1>15. CASE Requeue(i)
  <2> DEFINE d == drain[i]
  <2>1. /\ Others(i) /\ d.failed # <<>> /\ Head(d.failed) \in Keys /\ d.keys = <<>>
        /\ dirty' = Add(dirty, Head(d.failed)) /\ d.failed \in Seq(Keys) /\ d.key = None
        /\ drain'[i].failed = Tail(d.failed) /\ drain'[i].at = "running" /\ drain'[i].keys = <<>>
    BY <1>1, <1>15, RequeueFacts, CallFacts, Zenon DEF CallIs, CallShape
  <2>2. \A x : Contains(dirty', x) <=> Contains(dirty, x) \/ x = Head(d.failed)
    BY <1>1, <2>1, AddFacts, Zenon
  <2>3. \A x : Contains(d.failed, x) <=> x = Head(d.failed) \/ Contains(Tail(d.failed), x)
    BY <2>1, SplitFacts, Zenon
  <2>4. InCall(d, u, ymap[u]) => Contains(dirty', Update(u)) \/ InCall(drain'[i], u, ymap[u])
    BY <1>5, <2>1, <2>2, <2>3, NoneAssumption, Zenon DEF InCall
  <2>5. Pending(u) => Pending(u)'
    BY <1>4, <1>7, <2>1, <2>2, <2>4, PendingKept, Zenon
  <2>6. UNCHANGED <<lastPersisted, gaveUp, overtaken>>
    BY <1>15, Zenon DEF Requeue, history
  <2> QED
    BY <1>6, <2>1, <2>5, <2>6, Zenon
<1>16. CASE EndDrain(i)
  <2>1. Others(i) /\ drain'[i].at = "idle" /\ ~InCall(drain[i], u, ymap[u])
    <3>1. \A x : ~Contains(<<>>, x)
      BY SmallFacts, Zenon
    <3>2. Idle.at = "idle"
      BY CallFacts, Zenon DEF CallIs
    <3>3. Update(u) # None
      BY <1>5, NoneAssumption, Zenon
    <3> QED
      BY <1>1, <1>16, <3>1, <3>2, <3>3, EndDrainFacts, Zenon DEF InCall
  <2>2. Pending(u) => Pending(u)'
    BY <1>4, <1>7, <1>16, <2>1, PendingKept, Zenon DEF EndDrain
  <2> QED
    BY <1>6, <1>16, <2>1, <2>2, Zenon DEF EndDrain, history
<1> QED
  BY <1>8, <1>9, <1>10, <1>11, <1>12, <1>13, <1>14, <1>15, <1>16, Zenon

\* A change of the map is queued.
LEMMA LostChangeStep ==
    ASSUME Typed, Typed', NoneLost, NEW t \in Threads,
           \/ \E next : MutateThread(t, next)
           \/ \E d \in Kinds : CreateThread(t, d)
           \/ DeleteThread(t) \/ PeerDeletes(t)
    PROVE  NoneLost'
<1>1. dirty \in Seq(Keys) /\ IsInjective(dirty) /\ Update(t) \in Keys /\ Deletion(t) \in Keys
  BY KeyFacts, Zenon DEF Typed, TypeOK
<1>2. /\ Add(dirty, Update(t)) \in Seq(Keys) /\ IsInjective(Add(dirty, Update(t)))
      /\ \A x : Contains(Add(dirty, Update(t)), x) <=> Contains(dirty, x) \/ x = Update(t)
  BY <1>1, AddFacts, Zenon
<1>3. UNCHANGED <<lastPersisted, drain, overtaken, alive>> /\ gaveUp \ {t} \subseteq gaveUp'
  BY Zenon DEF MutateThread, CreateThread, DeleteThread, PeerDeletes, Observed, history
<1>4. \E next : ymap' = [ymap EXCEPT ![t] = next]
  BY Zenon DEF MutateThread, CreateThread, DeleteThread, PeerDeletes
<1>5. CASE ~DeleteThread(t)
  <2>1. dirty' = Add(dirty, Update(t))
    BY <1>5, Zenon DEF MutateThread, CreateThread, PeerDeletes, Observed
  <2> QED
    BY <1>2, <1>3, <1>4, <2>1, LostUserStep, Zenon
<1>6. CASE DeleteThread(t)
  <2>1. dirty' = Add(Add(dirty, Update(t)), Deletion(t))
    BY <1>6, Zenon DEF DeleteThread
  <2>2. \A x : Contains(dirty', x) <=> Contains(Add(dirty, Update(t)), x) \/ x = Deletion(t)
    BY <1>1, <1>2, <2>1, AddFacts, Zenon
  <2> QED
    BY <1>2, <1>3, <1>4, <2>2, LostUserStep, Zenon
<1> QED
  BY <1>5, <1>6, Zenon

\* The copy of the server that a poll brings is recorded with it, and a decision
\* kept from the map is queued.
LEMMA LostPollApply ==
    ASSUME Typed, Typed', NoneLost, PollApply
    PROVE  NoneLost'
<1>t. PICK t \in Threads : t = poll.thread
  BY PollApplyFacts, Zenon
<1>1. /\ \A u \in Threads : u # t => ymap'[u] = ymap[u]
      /\ \A u \in Threads : u # t => lastPersisted'[u] = lastPersisted[u]
      /\ lastPersisted'[t] = poll.wire
  BY <1>t, PollApplyFacts, Zenon DEF Typed, TypeOK
<1>2. \/ ymap'[t] = poll.wire /\ dirty' = Drop(dirty, Update(t))
      \/ dirty' = Append(Drop(dirty, Update(t)), Update(t))
  BY <1>t, PollApplyFacts, Zenon
<1>3. \A j \in Drains :
         /\ SameCall(drain'[j], drain[j]) /\ (drain[j].overtaken => drain'[j].overtaken)
         /\ drain[j].key # None /\ drain[j].key.thread = t => drain'[j].overtaken
  BY <1>t, PollApplyFacts, Zenon
<1>4. alive /\ gaveUp' = gaveUp \ {t} /\ overtaken' = overtaken \ {t}
  BY <1>t, Zenon DEF PollApply
<1>5. /\ Drop(dirty, Update(t)) \in Seq(Keys)
      /\ \A x : Contains(Drop(dirty, Update(t)), x) <=> Contains(dirty, x) /\ x # Update(t)
  BY DropFacts, Zenon DEF Typed, TypeOK
<1>0. \A x : Contains(Append(Drop(dirty, Update(t)), Update(t)), x)
                <=> Contains(Drop(dirty, Update(t)), x) \/ x = Update(t)
  BY <1>1, <1>5, AppendFacts, KeyFacts, Zenon
<1>6. \A x : x # Update(t) /\ Contains(dirty, x) => Contains(dirty', x)
  BY <1>0, <1>2, <1>5, Zenon
<1>7. \A u, j : Active(j, u)' /\ j \in Drains => Active(j, u)
  BY <1>3, Zenon DEF Active, SameCall, CallIs
<1>8. ASSUME NEW u \in Threads, u # t, Safe(u) PROVE Safe(u)'
  <2>1. Update(u) # Update(t)
    BY <1>8, KeyFacts, Zenon
  <2>2. Pending(u) => Pending(u)'
    BY <1>1, <1>3, <1>6, <1>8, <2>1, PendingFacts, InCallKept, Zenon
  <2> QED
    BY <1>1, <1>4, <1>8, <2>2, Zenon DEF Safe
<1>9. ymap'[t] = lastPersisted'[t] \/ Safe(t)'
  <2>1. CASE dirty' = Append(Drop(dirty, Update(t)), Update(t))
    <3>1. Contains(dirty', Update(t))
      BY <1>0, <2>1, Zenon
    <3> QED
      BY <3>1, PendingFacts, Zenon DEF Safe
  <2> QED
    BY <1>1, <1>2, <2>1, Zenon
<1>10. ASSUME NEW u \in Threads, NEW j \in Drains, Active(j, u)'
       PROVE  drain'[j].overtaken \/ Safe(u)'
  <2>1. CASE u = t
    <3>1. drain[j].key # None /\ drain[j].key.thread = t
      <4>1. Active(j, u)
        BY <1>7, <1>10, Zenon
      <4>2. Update(t) # None /\ Update(t).thread = t
        BY KeyFacts, NoneAssumption, Zenon
      <4> QED
        BY <2>1, <4>1, <4>2, Zenon DEF Active
    <3> QED
      BY <1>3, <1>10, <3>1, Zenon
  <2>2. CASE u # t
    BY <1>3, <1>4, <1>7, <1>8, <1>10, <2>2, Zenon DEF NoneLost
  <2> QED
    BY <2>1, <2>2, Zenon
<1>11. ASSUME NEW u \in Threads
       PROVE  ymap'[u] = lastPersisted'[u] \/ Safe(u)' \/ u \in overtaken'
  <2>1. CASE u # t
    <3>1. ymap[u] = lastPersisted[u] \/ Safe(u) \/ u \in overtaken
      BY <1>4, Zenon DEF NoneLost
    <3> QED
      BY <1>1, <1>4, <1>8, <2>1, <3>1, Zenon
  <2>2. CASE u = t
    BY <1>9, <2>2, Zenon
  <2> QED
    BY <2>1, <2>2, Zenon
<1> QED
  BY <1>10, <1>11, Zenon DEF NoneLost

LEMMA LostStep ==
    ASSUME Typed, Typed', NoneLost, [Next]_vars
    PROVE  NoneLost'
<1> DEFINE Still == UNCHANGED <<ymap, lastPersisted, dirty, drain, alive, gaveUp, overtaken>>
<1>1. ASSUME Still PROVE NoneLost'
  <2> DEFINE T == {}
  <2>1. T \in SUBSET Threads /\ \A u \in T : FALSE
    BY Zenon
  <2> HIDE DEF T
  <2> QED
    BY <1>1, <2>1, QuietKept, Zenon
<1>2. ASSUME NEW t \in Threads, PollDeleted(t) PROVE NoneLost'
  BY <1>2, LostUserStep, Zenon DEF PollDeleted, engine, history
<1>3. CASE Destroy
  BY <1>3, Zenon DEF Destroy, NoneLost
<1>4. CASE UNCHANGED vars
  BY <1>1, <1>4, Zenon DEF vars, engine, history
<1>5. CASE \E t \in Threads : PeerPersists(t) \/ External(t) \/ PollFetch(t) \/ PollSkip(t)
  BY <1>1, <1>5, Zenon DEF PeerPersists, External, PollFetch, PollSkip, engine, history
<1>6. CASE LoadList \/ PollList
  BY <1>1, <1>6, Zenon DEF LoadList, PollList, engine, history
<1>7. ASSUME NEW t \in Threads, NEW r, AddReply(t, r) \/ SetStatus(t, r) \/ AddMark(t, r)
                \/ DeleteComment(t, r) \/ DecideSuggestion(t, r) \/ RemoveReaction(t)
      PROVE  NoneLost'
  BY <1>7, LostChangeStep, Zenon
     DEF AddReply, SetStatus, AddMark, DeleteComment, DecideSuggestion, RemoveReaction
<1>8. CASE \E t \in Threads : DeleteThread(t) \/ PeerDeletes(t) \/ \E d \in Kinds : CreateThread(t, d)
  BY <1>8, LostChangeStep, Zenon
<1>9. CASE \E i \in Drains : Fire(i) \/ NextKey(i) \/ SkipKey(i) \/ Deliver(i) \/ Respond(i)
               \/ Fail(i) \/ Requeue(i) \/ EndDrain(i)
  BY <1>9, LostPersistStep, Zenon
<1>10. CASE PollApply
  BY <1>10, LostPollApply, Zenon
<1> QED
  BY <1>2, <1>3, <1>4, <1>5, <1>6, <1>7, <1>8, <1>9, <1>10, Zenon DEF Next

----
(***************************************************************************)
(* The theorems.                                                           *)
(***************************************************************************)

\* Every reachable state has the types and the shapes of calls that the steps of
\* _persist rely on.
THEOREM TypesHold == Spec => []Typed
<1>1. Init => Typed
  BY TypedInit, Zenon
<1>2. Typed /\ [Next]_vars => Typed'
  BY TypedStep, Zenon
<1> QED
  BY <1>1, <1>2, PTL DEF Spec

\* The variables of the engine, its calls and the server keep their types.
THEOREM TypeCorrect == Spec => []TypeOK
<1>1. Typed => TypeOK
  BY Zenon DEF Typed
<1> QED
  BY <1>1, TypesHold, PTL

\* No key waits in the dirty set without a timer that will drain it
\* (_schedulePersist, the end of _persist, _insertThreadFromWire).
THEOREM DirtyScheduled == Spec => []DirtyIsScheduled
<1>1. Init => DirtyIsScheduled
  BY Zenon DEF Init, DirtyIsScheduled
<1>2. ASSUME Typed, DirtyIsScheduled, [Next]_vars PROVE DirtyIsScheduled'
  <2>1. CASE UNCHANGED <<dirty, timer>>
    BY <1>2, <2>1, Zenon DEF DirtyIsScheduled
  <2>2. CASE timer' = TRUE
    BY <2>2, Zenon DEF DirtyIsScheduled
  <2>3. CASE dirty' = <<>>
    BY <2>3, Zenon DEF DirtyIsScheduled
  <2>4. CASE PollApply
    <3>1. dirty = <<>> => Drop(dirty, Update(poll.thread)) = <<>>
      <4>1. ~Contains(<<>>, Update(poll.thread))
        BY SmallFacts, Zenon
      <4> QED
        BY <4>1, Zenon DEF Drop
    <3>2. timer' = TRUE \/ (dirty' = Drop(dirty, Update(poll.thread)) /\ timer' = timer)
      BY <1>2, <2>4, PollApplyFacts, Zenon
    <3>3. timer \in BOOLEAN
      BY <1>2, Zenon DEF Typed, TypeOK
    <3> QED
      BY <1>2, <3>1, <3>2, <3>3, Zenon DEF DirtyIsScheduled
  <2>5. ASSUME NEW t \in Threads, NEW x,
               \/ AddReply(t, x) \/ SetStatus(t, x) \/ AddMark(t, x) \/ DeleteComment(t, x)
               \/ DecideSuggestion(t, x) \/ RemoveReaction(t) \/ CreateThread(t, x)
               \/ DeleteThread(t) \/ PeerDeletes(t)
        PROVE  timer' = TRUE
    BY <2>5, Zenon DEF AddReply, SetStatus, AddMark, DeleteComment, DecideSuggestion, RemoveReaction,
                CreateThread, DeleteThread, PeerDeletes, MutateThread, Observed
  <2>6. ASSUME NEW t \in Threads,
               PeerPersists(t) \/ External(t) \/ PollDeleted(t) \/ PollFetch(t) \/ PollSkip(t)
        PROVE  UNCHANGED <<dirty, timer>>
    BY <2>6, Zenon DEF PeerPersists, External, PollDeleted, PollFetch, PollSkip, engine
  <2>7. LoadList \/ PollList => UNCHANGED <<dirty, timer>>
    BY Zenon DEF LoadList, PollList, engine
  <2>8. ASSUME NEW i \in Drains,
               NextKey(i) \/ SkipKey(i) \/ Deliver(i) \/ Respond(i) \/ Fail(i) \/ EndDrain(i)
        PROVE  UNCHANGED <<dirty, timer>>
    BY <2>8, Zenon DEF NextKey, SkipKey, Deliver, Respond, Fail, EndDrain
  <2>9. ASSUME NEW i \in Drains, Fire(i) \/ Requeue(i) PROVE dirty' = <<>> \/ timer' = TRUE
    BY <2>9, Zenon DEF Fire, Requeue
  <2>10. Destroy => dirty' = <<>>
    BY Zenon DEF Destroy
  <2>11. UNCHANGED vars => UNCHANGED <<dirty, timer>>
    BY Zenon DEF vars
  <2> QED
    BY <1>2, <2>1, <2>2, <2>3, <2>4, <2>5, <2>6, <2>7, <2>8, <2>9, <2>10, <2>11, Zenon DEF Next
<1> QED
  BY <1>1, <1>2, TypesHold, PTL DEF Spec

\* No change of a thread is dropped silently, however many calls of _persist,
\* polls and failures overlap: it waits to be sent, or it was recorded, or its
\* retries ran out, or a slower call wrote an old record over a newer one.
THEOREM ChangesPendingOrRecorded == Spec => []PendingOrRecorded
<1>1. Init => NoneLost
  <2>1. Idle.at = "idle"
    BY CallFacts, Zenon DEF CallIs
  <2>2. Init => \A i \in Drains : drain[i].at = "idle"
    BY <2>1, ZenonT(60) DEF Init
  <2>3. Init => \A u \in Threads : ymap[u] = lastPersisted[u]
    BY Zenon DEF Init
  <2> QED
    BY <2>2, <2>3, Zenon DEF NoneLost, Active
<1>2. Typed /\ Typed' /\ NoneLost /\ [Next]_vars => NoneLost'
  BY LostStep, Zenon
<1>3. NoneLost => PendingOrRecorded
  BY Zenon DEF NoneLost, Safe, PendingOrRecorded
<1> QED
  BY <1>1, <1>2, <1>3, TypesHold, PTL DEF Spec

\* A decision in the map is never replaced by an undecided copy: no user action
\* undecides, and the poll keeps it (_insertThreadFromWire).
THEOREM DecisionsKept == Spec => DecisionKept
<1> DEFINE Kept == \A t \in Threads :
              ymap[t] # None /\ Decided(ymap[t]) /\ ymap'[t] # None => Decided(ymap'[t])
<1>1. ASSUME Typed, [Next]_vars PROVE [Kept]_vars
  <2>1. CASE UNCHANGED ymap
    BY <2>1, Zenon
  <2>2. ymap \in [Threads -> StoredThread \cup {None}]
    BY <1>1, Zenon DEF Typed, TypeOK
  <2>3. ASSUME NEW t \in Threads, NEW v, ymap' = [ymap EXCEPT ![t] = v],
               ymap[t] # None /\ Decided(ymap[t]) /\ v # None => Decided(v)
        PROVE  Kept
    BY <2>2, <2>3, Zenon
  <2> HIDE DEF Kept
  <2>4. ASSUME NEW t \in Threads, NEW v, MutateThread(t, v), Decided(ymap[t]) => Decided(v) PROVE Kept
    BY <2>3, <2>4, Zenon DEF MutateThread
  <2>5. ASSUME NEW t \in Threads, NEW x,
               \/ AddReply(t, x) \/ SetStatus(t, x) \/ AddMark(t, x) \/ DeleteComment(t, x)
               \/ RemoveReaction(t)
        PROVE  Kept
    <3>1. ymap[t] \in StoredThread
      BY <2>2, <2>5, Zenon DEF AddReply, SetStatus, AddMark, DeleteComment, RemoveReaction
    <3>2. PICK v : MutateThread(t, v) /\ v.decision = ymap[t].decision
      <4>1. \A v : /\ [ymap[t] EXCEPT !.replies = v].decision = ymap[t].decision
                   /\ [ymap[t] EXCEPT !.status = v].decision = ymap[t].decision
                   /\ [ymap[t] EXCEPT !.marks = v].decision = ymap[t].decision
                   /\ [ymap[t] EXCEPT !.gone = v].decision = ymap[t].decision
        BY <3>1, Zenon DEF StoredThread
      <4> QED
        BY <2>5, <4>1, Zenon DEF AddReply, SetStatus, AddMark, DeleteComment, RemoveReaction
    <3> QED
      BY <2>4, <3>2, Zenon DEF Decided
  <2>6. ASSUME NEW t \in Threads, NEW x \in Verdicts, DecideSuggestion(t, x) PROVE Kept
    <3>1. ymap[t] \in StoredThread
      BY <2>2, <2>6, Zenon DEF DecideSuggestion
    <3>2. [ymap[t] EXCEPT !.decision = x, !.status = "resolved"].decision = x
      BY <3>1, Zenon DEF StoredThread
    <3> QED
      BY <2>4, <2>6, <3>2, Zenon DEF Decided, DecideSuggestion
  <2>7. ASSUME NEW t \in Threads, NEW d \in Kinds, CreateThread(t, d) PROVE Kept
    BY <2>3, <2>7, Zenon DEF CreateThread
  <2>8. ASSUME NEW t \in Threads, DeleteThread(t) \/ PeerDeletes(t) \/ PollDeleted(t) PROVE Kept
    BY <2>3, <2>8, Zenon DEF DeleteThread, PeerDeletes, PollDeleted
  <2>9. CASE PollApply
    BY <1>1, <2>9, PollApplyFacts, Zenon DEF Kept
  <2>10. ASSUME NEW t \in Threads, PeerPersists(t) \/ External(t) \/ PollFetch(t) \/ PollSkip(t)
         PROVE  UNCHANGED ymap
    BY <2>10, Zenon DEF PeerPersists, External, PollFetch, PollSkip
  <2>11. LoadList \/ PollList \/ Destroy \/ UNCHANGED vars => UNCHANGED ymap
    BY Zenon DEF LoadList, PollList, Destroy, vars
  <2>12. ASSUME NEW i \in Drains, Fire(i) \/ NextKey(i) \/ SkipKey(i) \/ Deliver(i) \/ Respond(i)
                    \/ Fail(i) \/ Requeue(i) \/ EndDrain(i)
         PROVE  UNCHANGED ymap
    BY <2>12, Zenon DEF Fire, NextKey, SkipKey, Deliver, Respond, Fail, Requeue, EndDrain
  <2> QED
    BY <1>1, <2>1, <2>5, <2>6, <2>7, <2>8, <2>9, <2>10, <2>11, <2>12, Zenon DEF Next
<1> QED
  BY <1>1, TypesHold, PTL DEF Spec, DecisionKept

====
