-------------------------- MODULE ProviderSdkProofs --------------------------
(***************************************************************************)
(* Theorems about the provider SDK, for any documents, any size of the     *)
(* cache and any number of updates.                                        *)
(***************************************************************************)
EXTENDS ProviderSdk, TLAPS

----------------------------------------------------------------------------
(* The cache.                                                              *)

\* Taking a key out of the recency list takes out that key only.
LEMMA RemoveFirstFacts ==
    ASSUME NEW S, NEW s \in Seq(S), NEW e, IsInjective(s)
    PROVE  LET r == RemoveFirst(s, e)
           IN  /\ r \in Seq(S)
               /\ IsInjective(r)
               /\ \A i \in DOMAIN r : r[i] # e /\ \E j \in DOMAIN s : r[i] = s[j]
               /\ \A j \in DOMAIN s : s[j] # e => \E i \in DOMAIN r : r[i] = s[j]
               /\ IF \E j \in DOMAIN s : s[j] = e THEN Len(r) = Len(s) - 1 ELSE r = s
<1>1. CASE \E j \in 1 .. Len(s) : s[j] = e
  <2> DEFINE p == CHOOSE i \in 1 .. Len(s) : s[i] = e /\ \A k \in 1 .. i - 1 : s[k] # e
             r == RemoveAt(s, p)
  <2>1. PICK j \in 1 .. Len(s) : s[j] = e
    BY <1>1, Zenon
  <2>2. \A i \in 1 .. Len(s) : s[i] = e => i = j
    BY <2>1 DEF IsInjective
  <2>3. p = j
    <3>1. s[j] = e /\ \A k \in 1 .. j - 1 : s[k] # e
      BY <2>1, <2>2
    <3> QED
      BY <2>2, <3>1, Zenon
  <2>4. RemoveFirst(s, e) = r
    BY <1>1, Zenon DEF RemoveFirst, Contains
  <2> HIDE DEF p
  <2>5. /\ r \in Seq(S)
        /\ Len(r) = Len(s) - 1
        /\ \A i \in 1 .. Len(r) : r[i] = IF i < j THEN s[i] ELSE s[i + 1]
    <3> DEFINE a == SubSeq(s, 1, j - 1)
               b == SubSeq(s, j + 1, Len(s))
    <3>1. /\ a \in Seq(S) /\ Len(a) = j - 1
          /\ \A i \in 1 .. j - 1 : a[i] = s[i]
      BY <2>1
    <3>2. /\ b \in Seq(S) /\ Len(b) = Len(s) - j
          /\ \A i \in 1 .. Len(s) - j : b[i] = s[i + j]
      BY <2>1
    <3>3. r = a \o b
      BY <2>3, Zenon DEF RemoveAt
    <3> HIDE DEF a, b, r
    <3>4. r \in Seq(S) /\ Len(r) = Len(s) - 1
      BY <2>1, <3>1, <3>2, <3>3
    <3>5. ASSUME NEW i \in 1 .. Len(r), i < j PROVE r[i] = s[i]
      <4>1. r[i] = a[i] /\ i \in 1 .. j - 1
        BY <2>1, <3>1, <3>2, <3>3, <3>4, <3>5
      <4> QED
        BY <3>1, <4>1, Zenon
    <3>6. ASSUME NEW i \in 1 .. Len(r), ~(i < j) PROVE r[i] = s[i + 1]
      <4>1. r[i] = b[i - (j - 1)] /\ i - (j - 1) \in 1 .. Len(s) - j
        BY <2>1, <3>1, <3>2, <3>3, <3>4, <3>6
      <4>2. b[i - (j - 1)] = s[(i - (j - 1)) + j]
        BY <3>2, <4>1, Zenon
      <4>3. (i - (j - 1)) + j = i + 1
        BY <2>1, <3>4
      <4> QED
        BY <4>1, <4>2, <4>3, Zenon
    <3> QED
      BY <3>4, <3>5, <3>6, Zenon
  <2> HIDE DEF r
  <2>6. IsInjective(r)
    <3>1. SUFFICES ASSUME NEW k \in 1 .. Len(r), NEW l \in 1 .. Len(r), r[k] = r[l] PROVE k = l
      BY <2>5 DEF IsInjective
    <3>2. \A x, y \in 1 .. Len(s) : s[x] = s[y] => x = y
      BY DEF IsInjective
    <3> DEFINE at(m) == IF m < j THEN m ELSE m + 1
    <3>3. Len(r) \in Nat /\ Len(r) = Len(s) - 1 /\ Len(s) \in Nat /\ j \in Nat
      BY <2>1, <2>5
    <3>4. r[k] = s[at(k)] /\ r[l] = s[at(l)]
      BY <2>5, Zenon
    <3>5. at(k) \in 1 .. Len(s) /\ at(l) \in 1 .. Len(s)
      BY <3>3
    <3>6. at(k) = at(l)
      BY <3>1, <3>2, <3>4, <3>5, Zenon
    <3> QED
      BY <3>3, <3>6
  <2>7. \A i \in DOMAIN r : r[i] # e /\ \E k \in DOMAIN s : r[i] = s[k]
    BY <2>1, <2>5 DEF IsInjective
  <2>8. ASSUME NEW k \in DOMAIN s, s[k] # e
        PROVE  \E i \in DOMAIN r : r[i] = s[k]
    <3>1. CASE k < j
      BY <2>1, <2>5, <3>1
    <3>2. CASE k > j
      <4>1. k - 1 \in DOMAIN r /\ r[k - 1] = s[k]
        BY <2>1, <2>5, <3>2
      <4> QED
        BY <4>1, Zenon
    <3> QED
      BY <2>1, <2>8, <3>1, <3>2
  <2>9. \E k \in DOMAIN s : s[k] = e
    BY <2>1
  <2> QED
    BY <2>4, <2>5, <2>6, <2>7, <2>8, <2>9, Zenon
<1>2. CASE ~\E j \in 1 .. Len(s) : s[j] = e
  <2>1. RemoveFirst(s, e) = s
    BY <1>2, Zenon DEF RemoveFirst, Contains
  <2> QED
    BY <1>2, <2>1
<1> QED
  BY <1>1, <1>2, Zenon

\* The recency list: keys of documents, as many as fit, none twice.
CacheInv == lru \in Seq(Docs) /\ CacheBounded

\* Using a key keeps it in the list, with the others.
LEMMA TouchedFacts ==
    ASSUME NEW d \in Docs, CacheInv, Cached(d) \/ Len(lru) < CacheSize
    PROVE  LET t == Touched(d)
           IN  /\ t \in Seq(Docs) /\ Len(t) <= CacheSize /\ IsInjective(t)
               /\ Range(t) = Range(lru) \cup {d}
<1> DEFINE r == RemoveFirst(lru, d)
           t == Append(r, d)
<1>1. /\ r \in Seq(Docs)
      /\ IsInjective(r)
      /\ \A i \in DOMAIN r : r[i] # d /\ \E j \in DOMAIN lru : r[i] = lru[j]
      /\ \A j \in DOMAIN lru : lru[j] # d => \E i \in DOMAIN r : r[i] = lru[j]
      /\ IF \E j \in DOMAIN lru : lru[j] = d THEN Len(r) = Len(lru) - 1 ELSE r = lru
  BY RemoveFirstFacts DEF CacheInv, CacheBounded
<1> HIDE DEF r
<1>2. /\ t \in Seq(Docs) /\ Len(t) = Len(r) + 1
      /\ \A i \in 1 .. Len(r) : t[i] = r[i]
      /\ t[Len(r) + 1] = d
  BY <1>1
<1>3. Len(t) <= CacheSize
  <2>1. CASE \E j \in DOMAIN lru : lru[j] = d
    BY <1>1, <1>2, <2>1, SdkAssumption DEF CacheInv, CacheBounded
  <2>2. CASE ~\E j \in DOMAIN lru : lru[j] = d
    BY <1>1, <1>2, <2>2, SdkAssumption DEF CacheInv, Cached, Range
  <2> QED
    BY <2>1, <2>2, Zenon
<1> HIDE DEF t
<1>4. IsInjective(t)
  BY <1>1, <1>2 DEF IsInjective
<1>5. ASSUME NEW e \in Range(t) PROVE e \in Range(lru) \cup {d}
  <2>1. PICK i \in 1 .. Len(t) : t[i] = e
    BY <1>2 DEF Range
  <2>2. CASE i = Len(r) + 1
    BY <1>2, <2>1, <2>2, Zenon
  <2>3. CASE i # Len(r) + 1
    <3>1. Len(r) \in Nat /\ DOMAIN r = 1 .. Len(r)
      BY <1>1
    <3>2. i \in DOMAIN r /\ r[i] = e
      BY <1>2, <2>1, <2>3, <3>1
    <3> QED
      BY <1>1, <3>2, Zenon DEF Range
  <2> QED
    BY <2>2, <2>3, Zenon
<1>7. d \in Range(t)
  <2>1. Len(r) + 1 \in DOMAIN t
    BY <1>1, <1>2
  <2> QED
    BY <1>2, <2>1, Zenon DEF Range
<1>6. ASSUME NEW e \in Range(lru) PROVE e \in Range(t)
  <2>1. PICK j \in DOMAIN lru : lru[j] = e
    BY Zenon DEF Range
  <2>2. CASE e = d
    BY <1>7, <2>2, Zenon
  <2>3. CASE e # d
    <3>1. PICK i \in 1 .. Len(r) : r[i] = e
      BY <1>1, <2>1, <2>3
    <3>2. i \in DOMAIN t /\ t[i] = e
      BY <1>1, <1>2, <3>1
    <3> QED
      BY <3>2, Zenon DEF Range
  <2> QED
    BY <2>2, <2>3, Zenon
<1>8. Touched(d) = t
  BY Zenon DEF Touched, t, r
<1> QED
  BY <1>2, <1>3, <1>4, <1>5, <1>6, <1>7, <1>8, Zenon

\* DocCache.set: the key is cached, and no other key comes in.
LEMMA CacheSetFacts ==
    ASSUME NEW d \in Docs, NEW value, CacheInv, CacheSet(d, value)
    PROVE  /\ CacheInv'
           /\ d \in Range(lru')
           /\ Range(lru') \subseteq Range(lru) \cup {d}
<1>1. CASE Cached(d) \/ Len(lru) < CacheSize
  <2>1. lru' = Touched(d)
    BY <1>1, Zenon DEF CacheSet
  <2> QED
    BY <1>1, <2>1, TouchedFacts, Zenon DEF CacheInv, CacheBounded
<1>2. CASE ~(Cached(d) \/ Len(lru) < CacheSize)
  <2>1. lru' = Append(Tail(lru), d)
    BY <1>2, Zenon DEF CacheSet
  <2>2. lru \in Seq(Docs) /\ Len(lru) = CacheSize /\ lru # <<>>
    BY <1>2, SdkAssumption DEF CacheInv, CacheBounded
  <2>3. /\ lru' \in Seq(Docs) /\ Len(lru') = Len(lru)
        /\ \A i \in 1 .. Len(lru) - 1 : lru'[i] = lru[i + 1]
        /\ lru'[Len(lru)] = d
    BY <2>1, <2>2
  <2>4. \A i \in DOMAIN lru : lru[i] # d
    BY <1>2, Zenon DEF Cached, Range
  <2>5. IsInjective(lru')
    <3>1. SUFFICES ASSUME NEW k \in 1 .. Len(lru), NEW l \in 1 .. Len(lru), lru'[k] = lru'[l]
                   PROVE  k = l
      BY <2>3 DEF IsInjective
    <3>2. \A x, y \in 1 .. Len(lru) : lru[x] = lru[y] => x = y
      BY <2>2 DEF CacheInv, CacheBounded, IsInjective
    <3>3. \A x \in 1 .. Len(lru) : lru[x] # d
      BY <2>2, <2>4
    <3> QED
      BY <2>2, <2>3, <3>1, <3>2, <3>3
  <2>6. ASSUME NEW e \in Range(lru') PROVE e \in Range(lru) \cup {d}
    <3>1. PICK i \in 1 .. Len(lru) : lru'[i] = e
      BY <2>3 DEF Range
    <3>2. CASE i = Len(lru)
      BY <2>3, <3>1, <3>2, Zenon
    <3>3. CASE i # Len(lru)
      <4>1. i + 1 \in DOMAIN lru /\ lru[i + 1] = e
        BY <2>2, <2>3, <3>1, <3>3
      <4> QED
        BY <4>1, Zenon DEF Range
    <3> QED
      BY <3>2, <3>3, Zenon
  <2>7. d \in Range(lru')
    <3>1. Len(lru) \in DOMAIN lru'
      BY <2>2, <2>3, SdkAssumption
    <3> QED
      BY <2>3, <3>1, Zenon DEF Range
  <2> QED
    BY <2>2, <2>3, <2>5, <2>6, <2>7, SdkAssumption, Zenon DEF CacheInv, CacheBounded
<1> QED
  BY <1>1, <1>2, Zenon

----------------------------------------------------------------------------
(* Types.                                                                  *)

Text == [Updates -> 0 .. 2]
Document == [text : Text, known : SUBSET Updates]
Job == [step : {"read", "create", "raw", "write", "reply"}, k : Updates, text : Text]

\* The types of the variables; a request in flight stores the update after the
\* last one acknowledged.
Shapes ==
    /\ content \in [Docs -> Text]
    /\ raw \in [Docs -> SUBSET Updates]
    /\ doc \in [Docs -> Document]
    /\ load \in [Docs -> Text \cup {None}]
    /\ job \in [Docs -> Job \cup {None}]
    /\ acked \in [Docs -> 0 .. MaxUpdates]
    /\ cold \in [Docs -> BOOLEAN]
    /\ bound \in Bounds
    /\ \A d \in Docs : job[d] # None => job[d].k = acked[d] + 1

\* A character is counted up to two.
LEMMA MinFacts == \A n \in 0 .. 2 : Min({n + 1, 2}) = IF n < 2 THEN n + 1 ELSE 2
<1> SUFFICES ASSUME NEW n \in 0 .. 2 PROVE Min({n + 1, 2}) = IF n < 2 THEN n + 1 ELSE 2
  BY Zenon
<1> DEFINE m == IF n < 2 THEN n + 1 ELSE 2
<1>1. m \in {n + 1, 2} /\ \A y \in {n + 1, 2} : m =< y
  OBVIOUS
<1>2. \A x \in {n + 1, 2} : (\A y \in {n + 1, 2} : x =< y) => x = m
  OBVIOUS
<1> QED
  BY <1>1, <1>2, Zenon DEF Min

LEMMA NoTextType == NoText \in Text /\ CreateDocWithContent(NoText) \in Document
BY DEF NoText, Text, CreateDocWithContent, Document

LEMMA ApplyUpdateType ==
    ASSUME NEW base \in Document, NEW k \in Updates
    PROVE  ApplyUpdate(base, k) \in Document
<1>1. base.text \in Text /\ base.known \subseteq Updates
  BY Zenon DEF Document
<1>2. Min({base.text[k] + 1, 2}) \in 0 .. 2
  BY <1>1, MinFacts DEF Text
<1>3. [base.text EXCEPT ![k] = Min({@ + 1, 2})] \in Text
  BY <1>1, <1>2, Zenon DEF Text
<1>4. base.known \cup {k} \in SUBSET Updates
  BY <1>1, Zenon
<1> QED
  BY <1>3, <1>4, Zenon DEF ApplyUpdate, Document

\* What a call of DocCache.set leaves in the cache.
LEMMA CacheSetTypes ==
    ASSUME NEW d \in Docs, NEW value \in Document, Shapes, CacheSet(d, value)
    PROVE  doc' \in [Docs -> Document] /\ cold' \in [Docs -> BOOLEAN]
<1>1. doc' \in [Docs -> Document]
  BY NoTextType, Zenon DEF CacheSet, Shapes
<1>2. cold' \in [Docs -> BOOLEAN]
  BY Zenon DEF CacheSet, Shapes
<1> QED
  BY <1>1, <1>2, Zenon

LEMMA ResolveTypes ==
    ASSUME NEW d \in Docs, NEW base \in Document, NEW k \in Updates, k = acked[d] + 1,
           Shapes, Resolve(d, base, k)
    PROVE  /\ doc' \in [Docs -> Document] /\ cold' \in [Docs -> BOOLEAN]
           /\ job' \in [Docs -> Job \cup {None}]
           /\ \A e \in Docs : job'[e] # None => job'[e].k = acked[e] + 1
<1> DEFINE applied == ApplyUpdate(base, k)
           entry == [step |-> "raw", k |-> k, text |-> applied.text]
<1>1. applied \in Document
  BY ApplyUpdateType, Zenon
<1>2. CacheSet(d, applied) /\ job' = [job EXCEPT ![d] = entry]
  BY Zenon DEF Resolve
<1> HIDE DEF applied
<1>3. entry \in Job
  BY <1>1, Zenon DEF Document, Job
<1>4. job' \in [Docs -> Job \cup {None}]
  BY <1>2, <1>3, Zenon DEF Shapes
<1>5. \A e \in Docs : job'[e] # None => job'[e].k = acked[e] + 1
  BY <1>2, Zenon DEF Shapes
<1> QED
  BY <1>1, <1>2, <1>4, <1>5, CacheSetTypes, Zenon

LEMMA ShapesInit == Init => Shapes /\ CacheInv
<1> SUFFICES ASSUME Init PROVE Shapes /\ CacheInv
  BY Zenon
<1>1. Shapes
  BY NoTextType, SdkAssumption DEF Init, Shapes
<1>2. CacheInv
  BY SdkAssumption DEF Init, CacheInv, CacheBounded, IsInjective
<1> QED
  BY <1>1, <1>2, Zenon

\* A step of one request in flight that touches neither cache nor storage.
LEMMA JobTypes ==
    ASSUME NEW d \in Docs, Shapes, NEW entry \in Job \cup {None},
           job' = [job EXCEPT ![d] = entry], acked' = acked,
           entry # None => entry.k = acked[d] + 1
    PROVE  /\ job' \in [Docs -> Job \cup {None}]
           /\ \A e \in Docs : job'[e] # None => job'[e].k = acked'[e] + 1
BY Zenon DEF Shapes

LEMMA ShapesStep ==
    ASSUME Shapes, CacheInv, [Next]_vars
    PROVE  Shapes' /\ CacheInv'
<1>1. ASSUME NEW d \in Docs, LoadRead(d)
      PROVE  Shapes' /\ CacheInv'
  <2>1. load' \in [Docs -> Text \cup {None}]
    BY <1>1, Zenon DEF LoadRead, Shapes
  <2> QED
    BY <1>1, <2>1, Zenon DEF LoadRead, Shapes, CacheInv, CacheBounded
<1>2. ASSUME NEW d \in Docs, LoadSeed(d)
      PROVE  Shapes' /\ CacheInv'
  <2>1. load' \in [Docs -> Text \cup {None}] /\ UNCHANGED <<content, raw, job, acked, bound>>
    BY <1>2, Zenon DEF LoadSeed, Shapes
  <2>2. CASE Cached(d)
    <3>1. lru' = Touched(d) /\ UNCHANGED <<doc, cold>>
      BY <1>2, <2>2, Zenon DEF LoadSeed
    <3>2. CacheInv'
      BY <2>2, <3>1, TouchedFacts, Zenon DEF CacheInv, CacheBounded
    <3> QED
      BY <2>1, <3>1, <3>2, Zenon DEF Shapes
  <2>3. CASE ~Cached(d)
    <3>1. load[d] \in Text
      BY <1>2, Zenon DEF LoadSeed, Shapes
    <3>2. CreateDocWithContent(load[d]) \in Document
      BY <3>1, Zenon DEF CreateDocWithContent, Document
    <3>3. CacheSet(d, CreateDocWithContent(load[d]))
      BY <1>2, <2>3, Zenon DEF LoadSeed
    <3>4. doc' \in [Docs -> Document] /\ cold' \in [Docs -> BOOLEAN]
      BY <3>2, <3>3, CacheSetTypes, Zenon
    <3>5. CacheInv'
      BY <3>3, CacheSetFacts, Zenon
    <3> QED
      BY <2>1, <3>4, <3>5, Zenon DEF Shapes
  <2> QED
    BY <2>2, <2>3, Zenon
<1>3. ASSUME NEW d \in Docs, StoreStart(d)
      PROVE  Shapes' /\ CacheInv'
  <2>1. UNCHANGED <<content, raw, load, acked, bound>>
    BY <1>3, Zenon DEF StoreStart
  <2>2. acked[d] + 1 \in Updates
    BY <1>3, SdkAssumption DEF StoreStart, Shapes, Bounds, Updates
  <2>3. CASE Cached(d)
    <3>1. Resolve(d, doc[d], acked[d] + 1) /\ doc[d] \in Document
      BY <1>3, <2>3, Zenon DEF StoreStart, Shapes
    <3>2. CacheInv'
      BY <3>1, CacheSetFacts, Zenon DEF Resolve
    <3>3. /\ doc' \in [Docs -> Document] /\ cold' \in [Docs -> BOOLEAN]
          /\ job' \in [Docs -> Job \cup {None}]
          /\ \A e \in Docs : job'[e] # None => job'[e].k = acked[e] + 1
      BY <2>2, <3>1, ResolveTypes, Zenon
    <3> QED
      BY <2>1, <3>2, <3>3, Zenon DEF Shapes
  <2>4. CASE ~Cached(d)
    <3> DEFINE entry == [step |-> "read", k |-> acked[d] + 1, text |-> NoText]
    <3>1. job' = [job EXCEPT ![d] = entry] /\ UNCHANGED <<lru, doc, cold>>
      BY <1>3, <2>4, Zenon DEF StoreStart
    <3>2. entry \in Job
      BY <2>2, NoTextType, Zenon DEF Job
    <3>3. /\ job' \in [Docs -> Job \cup {None}]
          /\ \A e \in Docs : job'[e] # None => job'[e].k = acked'[e] + 1
      BY <2>1, <3>1, <3>2, JobTypes, Zenon
    <3> QED
      BY <2>1, <3>1, <3>3, Zenon DEF Shapes, CacheInv, CacheBounded
  <2> QED
    BY <2>3, <2>4, Zenon
<1>4. ASSUME NEW d \in Docs, StoreRead(d)
      PROVE  Shapes' /\ CacheInv'
  <2>1. UNCHANGED <<content, raw, lru, doc, load, acked, cold, bound>>
    BY <1>4, Zenon DEF StoreRead
  <2>2. job[d] \in Job /\ content[d] \in Text /\ job[d].k = acked[d] + 1
    BY <1>4, Zenon DEF StoreRead, Shapes
  <2> DEFINE entry == [job[d] EXCEPT !.step = "create", !.text = content[d]]
  <2>3. job' = [job EXCEPT ![d] = entry]
    BY <1>4, <2>2, Zenon DEF StoreRead, Shapes, Job
  <2>4. entry \in Job /\ entry.k = acked[d] + 1
    BY <2>2, Zenon DEF Job
  <2>5. /\ job' \in [Docs -> Job \cup {None}]
        /\ \A e \in Docs : job'[e] # None => job'[e].k = acked'[e] + 1
    BY <2>1, <2>3, <2>4, JobTypes, Zenon
  <2> QED
    BY <2>1, <2>5, Zenon DEF Shapes, CacheInv, CacheBounded
<1>5. ASSUME NEW d \in Docs, StoreCreate(d)
      PROVE  Shapes' /\ CacheInv'
  <2>1. UNCHANGED <<content, raw, load, acked, bound>>
    BY <1>5, Zenon DEF StoreCreate
  <2>2. job[d].k \in Updates /\ job[d].k = acked[d] + 1 /\ job[d].text \in Text
    BY <1>5, Zenon DEF StoreCreate, Shapes, Job
  <2>3. Resolve(d, CreateDocWithContent(job[d].text), job[d].k)
    BY <1>5, Zenon DEF StoreCreate
  <2>4. CreateDocWithContent(job[d].text) \in Document
    BY <2>2, Zenon DEF CreateDocWithContent, Document
  <2>5. CacheInv'
    BY <2>3, CacheSetFacts, Zenon DEF Resolve
  <2>6. /\ doc' \in [Docs -> Document] /\ cold' \in [Docs -> BOOLEAN]
        /\ job' \in [Docs -> Job \cup {None}]
        /\ \A e \in Docs : job'[e] # None => job'[e].k = acked[e] + 1
    BY <2>2, <2>3, <2>4, ResolveTypes, Zenon
  <2> QED
    BY <2>1, <2>5, <2>6, Zenon DEF Shapes
<1>6. ASSUME NEW d \in Docs, StoreRawUpdates(d)
      PROVE  Shapes' /\ CacheInv'
  <2>1. UNCHANGED <<content, lru, doc, load, acked, cold, bound>>
    BY <1>6, Zenon DEF StoreRawUpdates
  <2>2. job[d] \in Job /\ job[d].k = acked[d] + 1
    BY <1>6, Zenon DEF StoreRawUpdates, Shapes
  <2> DEFINE entry == [job[d] EXCEPT !.step = "write"]
  <2>3. job' = [job EXCEPT ![d] = entry]
    BY <1>6, <2>2, Zenon DEF StoreRawUpdates, Shapes, Job
  <2>4. entry \in Job /\ entry.k = acked[d] + 1
    BY <2>2, Zenon DEF Job
  <2>5. /\ job' \in [Docs -> Job \cup {None}]
        /\ \A e \in Docs : job'[e] # None => job'[e].k = acked'[e] + 1
    BY <2>1, <2>3, <2>4, JobTypes, Zenon
  <2>6. raw' \in [Docs -> SUBSET Updates]
    BY <1>6, <2>2, Zenon DEF StoreRawUpdates, Shapes, Job
  <2> QED
    BY <2>1, <2>5, <2>6, Zenon DEF Shapes, CacheInv, CacheBounded
<1>7. ASSUME NEW d \in Docs, WriteContent(d)
      PROVE  Shapes' /\ CacheInv'
  <2>1. UNCHANGED <<raw, lru, doc, load, acked, cold, bound>>
    BY <1>7, Zenon DEF WriteContent
  <2>2. job[d] \in Job /\ job[d].k = acked[d] + 1
    BY <1>7, Zenon DEF WriteContent, Shapes
  <2> DEFINE entry == [job[d] EXCEPT !.step = "reply"]
  <2>3. job' = [job EXCEPT ![d] = entry]
    BY <1>7, <2>2, Zenon DEF WriteContent, Shapes, Job
  <2>4. entry \in Job /\ entry.k = acked[d] + 1
    BY <2>2, Zenon DEF Job
  <2>5. /\ job' \in [Docs -> Job \cup {None}]
        /\ \A e \in Docs : job'[e] # None => job'[e].k = acked'[e] + 1
    BY <2>1, <2>3, <2>4, JobTypes, Zenon
  <2>6. content' \in [Docs -> Text]
    BY <1>7, <2>2, Zenon DEF WriteContent, Shapes, Job
  <2> QED
    BY <2>1, <2>5, <2>6, Zenon DEF Shapes, CacheInv, CacheBounded
<1>8. ASSUME NEW d \in Docs, StoreReply(d)
      PROVE  Shapes' /\ CacheInv'
  <2>1. UNCHANGED <<content, raw, lru, doc, load, cold, bound>>
    BY <1>8, Zenon DEF StoreReply
  <2>2. job[d].k \in 0 .. MaxUpdates
    BY <1>8 DEF StoreReply, Shapes, Job, Updates
  <2>3. acked' \in [Docs -> 0 .. MaxUpdates] /\ job' \in [Docs -> Job \cup {None}]
    BY <1>8, <2>2, Zenon DEF StoreReply, Shapes
  <2>4. \A e \in Docs : job'[e] # None => job'[e].k = acked'[e] + 1
    BY <1>8, Zenon DEF StoreReply, Shapes
  <2> QED
    BY <2>1, <2>3, <2>4, Zenon DEF Shapes, CacheInv, CacheBounded
<1>9. ASSUME NEW d \in Docs, StoreFails(d)
      PROVE  Shapes' /\ CacheInv'
  <2>1. UNCHANGED <<content, raw, lru, doc, load, acked, cold, bound>>
    BY <1>9, Zenon DEF StoreFails
  <2>2. /\ job' \in [Docs -> Job \cup {None}]
        /\ \A e \in Docs : job'[e] # None => job'[e].k = acked'[e] + 1
    BY <1>9, <2>1, JobTypes, Zenon DEF StoreFails
  <2> QED
    BY <2>1, <2>2, Zenon DEF Shapes, CacheInv, CacheBounded
<1>10. CASE ClearCache
  <2>1. UNCHANGED <<content, raw, load, job, acked, bound>> /\ lru' = <<>>
    BY <1>10, Zenon DEF ClearCache
  <2>2. doc' \in [Docs -> Document]
    BY <1>10, NoTextType, Zenon DEF ClearCache
  <2>3. cold' \in [Docs -> BOOLEAN]
    BY <1>10, Zenon DEF ClearCache
  <2>4. CacheInv'
    BY <2>1, SdkAssumption DEF CacheInv, CacheBounded, IsInjective
  <2> QED
    BY <2>1, <2>2, <2>3, <2>4, Zenon DEF Shapes
<1>11. ASSUME NEW t \in Texts, CreateVersion(t)
       PROVE  Shapes' /\ CacheInv'
  BY <1>11, Zenon DEF CreateVersion, Shapes, CacheInv, CacheBounded
<1>12. CASE UNCHANGED vars
  BY <1>12, Zenon DEF vars, Shapes, CacheInv, CacheBounded
<1> QED
  BY <1>1, <1>2, <1>3, <1>4, <1>5, <1>6, <1>7, <1>8, <1>9, <1>10, <1>11, <1>12, Zenon DEF Next

\* Types, whatever loads, stores and failures interleave (ProviderProcessor).
THEOREM TypeCorrect == Spec => []TypeOK
<1>1. Shapes /\ CacheInv => TypeOK
  BY DEF Shapes, CacheInv, TypeOK, Text, Document, Job, Range
<1> QED
  BY ShapesInit, ShapesStep, <1>1, PTL DEF Spec

\* The cache keeps to its size and holds no document twice, for every size and
\* any documents (DocCache.set).
THEOREM CacheBoundedCorrect == Spec => []CacheBounded
<1>1. CacheInv => CacheBounded
  BY Zenon DEF CacheInv
<1> QED
  BY ShapesInit, ShapesStep, <1>1, PTL DEF Spec

----------------------------------------------------------------------------
(* The journal.                                                            *)

\* The journal holds what was acknowledged, and the update of a request that
\* got past it.
JournalInv ==
    \A d \in Docs :
        /\ 1 .. acked[d] \subseteq raw[d]
        /\ job[d] # None /\ job[d].step \in {"write", "reply"} => acked[d] + 1 \in raw[d]

\* A step that brings no request past the journal.
LEMMA JournalFrame ==
    ASSUME JournalInv, UNCHANGED <<raw, acked>>,
           \A e \in Docs : \/ job'[e] \in {job[e], None}
                           \/ job'[e].step \notin {"write", "reply"}
    PROVE  JournalInv'
BY Zenon DEF JournalInv

LEMMA JournalStep ==
    ASSUME Shapes, JournalInv, [Next]_vars
    PROVE  JournalInv'
<1>1. ASSUME NEW d \in Docs, LoadRead(d) PROVE JournalInv'
  BY <1>1, JournalFrame, Zenon DEF LoadRead
<1>2. ASSUME NEW d \in Docs, LoadSeed(d) PROVE JournalInv'
  BY <1>2, JournalFrame, Zenon DEF LoadSeed
<1>3. ASSUME NEW d \in Docs, StoreStart(d) PROVE JournalInv'
  <2>1. \A e \in Docs : job'[e] = job[e] \/ job'[e].step \in {"raw", "read"}
    BY <1>3 DEF StoreStart, Resolve, Shapes
  <2> QED
    BY <1>3, <2>1, JournalFrame, Zenon DEF StoreStart
<1>4. ASSUME NEW d \in Docs, StoreRead(d) PROVE JournalInv'
  <2>1. \A e \in Docs : job'[e] = job[e] \/ job'[e].step = "create"
    BY <1>4, Zenon DEF StoreRead, Shapes, Job
  <2> QED
    BY <1>4, <2>1, JournalFrame, Zenon DEF StoreRead
<1>5. ASSUME NEW d \in Docs, StoreCreate(d) PROVE JournalInv'
  <2>1. \A e \in Docs : job'[e] = job[e] \/ job'[e].step = "raw"
    BY <1>5, Zenon DEF StoreCreate, Resolve, Shapes
  <2> QED
    BY <1>5, <2>1, JournalFrame, Zenon DEF StoreCreate
<1>6. ASSUME NEW d \in Docs, StoreRawUpdates(d) PROVE JournalInv'
  <2>1. job[d].k = acked[d] + 1 /\ acked' = acked
    BY <1>6, Zenon DEF StoreRawUpdates, Shapes
  <2>2. raw' = [raw EXCEPT ![d] = @ \cup {acked[d] + 1}]
    BY <1>6, <2>1, Zenon DEF StoreRawUpdates
  <2>3. \A e \in Docs : raw[e] \subseteq raw'[e]
    BY <2>2, Zenon DEF Shapes
  <2>4. acked[d] + 1 \in raw'[d]
    BY <2>2, Zenon DEF Shapes
  <2>5. \A e \in Docs : e # d => job'[e] = job[e]
    BY <1>6, Zenon DEF StoreRawUpdates, Shapes
  <2> QED
    BY <2>1, <2>3, <2>4, <2>5, Zenon DEF JournalInv
<1>7. ASSUME NEW d \in Docs, WriteContent(d) PROVE JournalInv'
  <2>1. /\ UNCHANGED <<raw, acked>>
        /\ job[d] # None /\ job[d].step = "write"
        /\ \A e \in Docs : e # d => job'[e] = job[e]
    BY <1>7, Zenon DEF WriteContent, Shapes
  <2> QED
    BY <2>1, Zenon DEF JournalInv
<1>8. ASSUME NEW d \in Docs, StoreReply(d) PROVE JournalInv'
  <2>1. /\ raw' = raw
        /\ job[d] # None /\ job[d].step = "reply"
        /\ acked[d] \in Nat /\ acked'[d] = acked[d] + 1
        /\ job'[d] = None
        /\ \A e \in Docs : e # d => job'[e] = job[e] /\ acked'[e] = acked[e]
    BY <1>8 DEF StoreReply, Shapes
  <2>2. 1 .. acked'[d] \subseteq raw[d]
    BY <2>1 DEF JournalInv
  <2> QED
    BY <2>1, <2>2, Zenon DEF JournalInv
<1>9. ASSUME NEW d \in Docs, StoreFails(d) PROVE JournalInv'
  <2>1. \A e \in Docs : job'[e] \in {job[e], None}
    BY <1>9, Zenon DEF StoreFails, Shapes
  <2> QED
    BY <1>9, <2>1, JournalFrame, Zenon DEF StoreFails
<1>10. CASE ClearCache
  BY <1>10, JournalFrame, Zenon DEF ClearCache
<1>11. ASSUME NEW t \in Texts, CreateVersion(t) PROVE JournalInv'
  BY <1>11, JournalFrame, Zenon DEF CreateVersion
<1>12. CASE UNCHANGED vars
  BY <1>12, JournalFrame, Zenon DEF vars
<1> QED
  BY <1>1, <1>2, <1>3, <1>4, <1>5, <1>6, <1>7, <1>8, <1>9, <1>10, <1>11, <1>12, Zenon DEF Next

\* Every acknowledged update is in the journal of raw updates, for any number
\* of updates, whatever is evicted and however often a store fails
\* (processStore).
THEOREM AckedJournalledCorrect == Spec => []AckedJournalled
<1>1. Init => JournalInv
  BY DEF Init, JournalInv
<1>2. JournalInv => AckedJournalled
  BY Zenon DEF JournalInv, AckedJournalled
<1> QED
  BY ShapesInit, ShapesStep, JournalStep, <1>1, <1>2, PTL DEF Spec

----------------------------------------------------------------------------
(* The text of a document that stays cached.                               *)

\* The text that holds the first m updates, each once.
Upto(m) == [k \in Updates |-> IF k <= m THEN 1 ELSE 0]

\* The Y.Doc of d holds the first m updates and knows it.
Holding(d, m) == doc[d].text = Upto(m) /\ doc[d].known = 1 .. m

\* While d is not cold, its text and its Y.Doc are at the acknowledged update
\* or one further, a request past its Y.Doc has that one in it, and what was
\* read before d came into the cache was read from an empty document.
Hot(d) ==
    /\ \E m \in {acked[d], acked[d] + 1} : content[d] = Upto(m)
    /\ Cached(d) => \E m \in {acked[d], acked[d] + 1} : Holding(d, m)
    /\ ~Cached(d) => /\ acked[d] = 0
                     /\ content[d] = Upto(0)
                     /\ load[d] \in {None, Upto(0)}
    /\ job[d] # None =>
         /\ job[d].step \in {"read", "create"} => acked[d] = 0 /\ content[d] = Upto(0)
         /\ job[d].step = "create" => job[d].text = Upto(0)
         /\ job[d].step \in {"raw", "write", "reply"} => Cached(d) /\ Holding(d, acked[d] + 1)
         /\ job[d].step \in {"raw", "write"} => job[d].text = Upto(acked[d] + 1)
         /\ job[d].step = "reply" => content[d] = Upto(acked[d] + 1)

HotInv == \A d \in Docs : ~cold[d] => Hot(d)

LEMMA UptoFacts == NoText = Upto(0)
BY DEF NoText, Upto, Updates

\* Applying the next update, for the first time or again.
LEMMA ApplyNext ==
    ASSUME NEW a \in Nat, a + 1 \in Updates, NEW m \in {a, a + 1}, NEW base,
           base.text = Upto(m), base.known = 1 .. m
    PROVE  /\ ApplyUpdate(base, a + 1).text = Upto(a + 1)
           /\ ApplyUpdate(base, a + 1).known = 1 .. a + 1
<1>1. CASE m = a + 1
  <2>1. a + 1 \in base.known
    BY <1>1
  <2>2. ApplyUpdate(base, a + 1) = base
    BY <2>1, Zenon DEF ApplyUpdate
  <2> QED
    BY <1>1, <2>2, Zenon
<1>2. CASE m = a
  <2> DEFINE next == [base.text EXCEPT ![a + 1] = Min({@ + 1, 2})]
  <2>1. a + 1 \notin base.known /\ (a + 1 = 1 \/ (a + 1) - 1 \in base.known)
    BY <1>2
  <2>2. ApplyUpdate(base, a + 1) = [text |-> next, known |-> base.known \cup {a + 1}]
    BY <2>1, Zenon DEF ApplyUpdate
  <2>3. base.text[a + 1] = 0
    BY <1>2 DEF Upto
  <2>4. Min({base.text[a + 1] + 1, 2}) = 1
    BY <2>3, MinFacts
  <2>5. next = [base.text EXCEPT ![a + 1] = 1]
    BY <2>4, Zenon
  <2>6. [Upto(a) EXCEPT ![a + 1] = 1] = Upto(a + 1)
    <3>1. [Upto(a) EXCEPT ![a + 1] = 1]
              = [k \in Updates |-> IF k = a + 1 THEN 1 ELSE IF k <= a THEN 1 ELSE 0]
      BY Zenon DEF Upto
    <3>2. \A k \in Updates : (IF k = a + 1 THEN 1 ELSE IF k <= a THEN 1 ELSE 0)
                                 = (IF k <= a + 1 THEN 1 ELSE 0)
      BY DEF Updates
    <3> QED
      BY <3>1, <3>2, Zenon DEF Upto
  <2>7. next = Upto(a + 1)
    BY <1>2, <2>5, <2>6, Zenon
  <2>8. base.known \cup {a + 1} = 1 .. a + 1
    BY <1>2
  <2> HIDE DEF next
  <2>9. ApplyUpdate(base, a + 1) = [text |-> Upto(a + 1), known |-> 1 .. a + 1]
    BY <2>2, <2>7, <2>8, Zenon
  <2> QED
    BY <2>9
<1> QED
  BY <1>1, <1>2, Zenon

\* A document whose storage and requests a step leaves alone, and whose place
\* in the cache it keeps or takes away.
LEMMA HotFrame ==
    ASSUME NEW e \in Docs, ~cold[e] => Hot(e),
           content'[e] = content[e], load'[e] = load[e], job'[e] = job[e], acked'[e] = acked[e],
           ~cold'[e] => /\ ~cold[e]
                        /\ Cached(e)' <=> Cached(e)
                        /\ Cached(e) => doc'[e] = doc[e]
    PROVE  ~cold'[e] => Hot(e)'
<1> SUFFICES ASSUME ~cold'[e] PROVE Hot(e)'
  BY Zenon
<1>1. Hot(e) /\ (Cached(e)' <=> Cached(e)) /\ (Cached(e) => doc'[e] = doc[e])
  BY Zenon
<1> QED
  BY <1>1, Zenon DEF Hot, Holding

\* DocCache.set: what it does to the others, and to the document itself.
LEMMA CacheSetOthers ==
    ASSUME NEW d \in Docs, NEW value, NEW e \in Docs, e # d, Shapes, CacheInv, CacheSet(d, value),
           ~cold'[e]
    PROVE  ~cold[e] /\ (Cached(e)' <=> Cached(e)) /\ (Cached(e) => doc'[e] = doc[e])
<1>1. Range(lru') \subseteq Range(lru) \cup {d}
  BY CacheSetFacts, Zenon
<1>2. cold'[e] = (cold[e] \/ (Cached(e) /\ e \notin Range(lru')))
  BY Zenon DEF CacheSet
<1>3. ~cold[e] /\ (Cached(e) => e \in Range(lru'))
  BY <1>2, Zenon
<1>4. Cached(e)' <=> Cached(e)
  BY <1>1, <1>3, Zenon DEF Cached
<1>5. Cached(e) => doc'[e] = doc[e]
  BY <1>3, Zenon DEF CacheSet
<1> QED
  BY <1>3, <1>4, <1>5, Zenon

LEMMA CacheSetOwn ==
    ASSUME NEW d \in Docs, NEW value, Shapes, CacheInv, CacheSet(d, value)
    PROVE  Cached(d)' /\ doc'[d] = value /\ (~cold'[d] => ~cold[d])
<1>1. d \in Range(lru')
  BY CacheSetFacts, Zenon
<1>2. cold'[d] = (cold[d] \/ (Cached(d) /\ d \notin Range(lru')))
  BY Zenon DEF CacheSet
<1> QED
  BY <1>1, <1>2, Zenon DEF CacheSet, Cached

\* A request whose Y.Doc holds what was acknowledged, or one more, leaves it
\* with the next update.
LEMMA ResolveHot ==
    ASSUME NEW d \in Docs, Shapes, CacheInv, HotInv, NEW base, NEW m \in {acked[d], acked[d] + 1},
           base.text = Upto(m), base.known = 1 .. m, acked[d] + 1 \in Updates,
           Resolve(d, base, acked[d] + 1), UNCHANGED <<content, load, acked>>
    PROVE  ~cold'[d] => Hot(d)'
<1> DEFINE applied == ApplyUpdate(base, acked[d] + 1)
           entry == [step |-> "raw", k |-> acked[d] + 1, text |-> applied.text]
<1>1. CacheSet(d, applied) /\ job' = [job EXCEPT ![d] = entry]
  BY Zenon DEF Resolve
<1>2. acked[d] \in Nat
  BY SMTT(30) DEF Shapes
<1>3. applied.text = Upto(acked[d] + 1) /\ applied.known = 1 .. acked[d] + 1
  BY <1>2, ApplyNext
<1> HIDE DEF applied
<1>4. Cached(d)' /\ doc'[d] = applied /\ (~cold'[d] => ~cold[d])
  BY <1>1, CacheSetOwn, Zenon
<1>5. job'[d] = entry
  BY <1>1, Zenon DEF Shapes
<1>6. ~cold[d] => \E n \in {acked[d], acked[d] + 1} : content[d] = Upto(n)
  BY Zenon DEF HotInv, Hot
<1>7. Holding(d, acked[d] + 1)'
  BY <1>3, <1>4, Zenon DEF Holding
<1> QED
  BY <1>3, <1>4, <1>5, <1>6, <1>7 DEF Hot

LEMMA HotStep ==
    ASSUME Shapes, CacheInv, HotInv, [Next]_vars
    PROVE  HotInv'
<1>1. ASSUME NEW d \in Docs, LoadRead(d)
      PROVE  HotInv'
  <2>1. /\ UNCHANGED <<content, lru, doc, job, acked, cold>>
        /\ load' = [load EXCEPT ![d] = content[d]]
    BY <1>1, Zenon DEF LoadRead
  <2>2. ASSUME NEW e \in Docs, e # d PROVE ~cold'[e] => Hot(e)'
    BY <2>1, <2>2, HotFrame, SMTT(30) DEF HotInv, Cached, Shapes
  <2>3. ASSUME ~cold'[d] PROVE Hot(d)'
    <3>1. Hot(d) /\ load'[d] = content[d] /\ (Cached(d)' <=> Cached(d))
      BY <2>1, <2>3, Zenon DEF HotInv, Shapes, Cached
    <3> QED
      BY <2>1, <3>1, Zenon DEF Hot, Holding
  <2> QED
    BY <2>2, <2>3, Zenon DEF HotInv
<1>2. ASSUME NEW d \in Docs, LoadSeed(d)
      PROVE  HotInv'
  <2>1. /\ UNCHANGED <<content, job, acked>>
        /\ load[d] # None /\ load' = [load EXCEPT ![d] = None]
    BY <1>2, Zenon DEF LoadSeed
  <2>2. \A e \in Docs : e # d => load'[e] = load[e]
    BY <2>1, Zenon DEF Shapes
  <2>3. load'[d] = None
    BY <2>1, Zenon DEF Shapes
  <2>4. CASE Cached(d)
    <3>1. lru' = Touched(d) /\ UNCHANGED <<doc, cold>>
      BY <1>2, <2>4, Zenon DEF LoadSeed
    <3>2. Range(lru') = Range(lru) \cup {d}
      BY <2>4, <3>1, TouchedFacts, Zenon
    <3>3. \A e \in Docs : Cached(e)' <=> Cached(e)
      BY <2>4, <3>2, Zenon DEF Cached
    <3>4. ASSUME NEW e \in Docs, e # d PROVE ~cold'[e] => Hot(e)'
      BY <2>1, <2>2, <3>1, <3>3, <3>4, HotFrame, Zenon DEF HotInv
    <3>5. ASSUME ~cold'[d] PROVE Hot(d)'
      <4>1. Hot(d)
        BY <3>1, <3>5, Zenon DEF HotInv
      <4> QED
        BY <2>1, <2>3, <3>1, <3>3, <4>1, Zenon DEF Hot, Holding
    <3> QED
      BY <3>4, <3>5, Zenon DEF HotInv
  <2>5. CASE ~Cached(d)
    <3> DEFINE value == CreateDocWithContent(load[d])
    <3>1. CacheSet(d, value)
      BY <1>2, <2>5, Zenon DEF LoadSeed
    <3>2. ASSUME NEW e \in Docs, e # d PROVE ~cold'[e] => Hot(e)'
      <4>1. ~cold'[e] => ~cold[e] /\ (Cached(e)' <=> Cached(e)) /\ (Cached(e) => doc'[e] = doc[e])
        BY <3>1, <3>2, CacheSetOthers, SMTT(30)
      <4> QED
        BY <2>1, <2>2, <3>2, <4>1, HotFrame, Zenon DEF HotInv
    <3>3. ASSUME ~cold'[d] PROVE Hot(d)'
      <4>1. Cached(d)' /\ doc'[d] = value /\ ~cold[d]
        BY <3>1, <3>3, CacheSetOwn, Zenon
      <4>2. Hot(d)
        BY <4>1, Zenon DEF HotInv
      <4>3. acked[d] = 0 /\ content[d] = Upto(0) /\ load[d] = Upto(0)
        BY <2>1, <2>5, <4>2, Zenon DEF Hot
      <4>4. job[d] # None => job[d].step \in {"read", "create"}
        BY <2>5, <4>2, Zenon DEF Hot, Shapes, Job
      <4>5. doc'[d].text = Upto(0) /\ doc'[d].known = {}
        BY <4>1, <4>3 DEF CreateDocWithContent
      <4>6. Holding(d, 0)'
        BY <4>5 DEF Holding
      <4> QED
        BY <2>1, <2>3, <4>1, <4>2, <4>3, <4>4, <4>6, Zenon DEF Hot
    <3> QED
      BY <3>2, <3>3, Zenon DEF HotInv
  <2> QED
    BY <2>4, <2>5, Zenon
<1>3. ASSUME NEW d \in Docs, StoreStart(d)
      PROVE  HotInv'
  <2>1. UNCHANGED <<content, load, acked>>
    BY <1>3, Zenon DEF StoreStart
  <2>2. acked[d] + 1 \in Updates
    BY <1>3, SdkAssumption DEF StoreStart, Shapes, Bounds, Updates
  <2>3. \A e \in Docs : e # d => job'[e] = job[e]
    BY <1>3, SMTT(30) DEF StoreStart, Resolve, Shapes
  <2>4. CASE Cached(d)
    <3>1. Resolve(d, doc[d], acked[d] + 1)
      BY <1>3, <2>4, Zenon DEF StoreStart
    <3>2. CacheSet(d, ApplyUpdate(doc[d], acked[d] + 1))
      BY <3>1, Zenon DEF Resolve
    <3>3. ASSUME NEW e \in Docs, e # d PROVE ~cold'[e] => Hot(e)'
      <4>1. ~cold'[e] => ~cold[e] /\ (Cached(e)' <=> Cached(e)) /\ (Cached(e) => doc'[e] = doc[e])
        BY <3>2, <3>3, CacheSetOthers, Zenon
      <4> QED
        BY <2>1, <2>3, <3>3, <4>1, HotFrame, Zenon DEF HotInv
    <3>4. ASSUME ~cold'[d] PROVE Hot(d)'
      <4>1. Hot(d)
        BY <3>2, <3>4, CacheSetOwn, Zenon DEF HotInv
      <4>2. PICK m \in {acked[d], acked[d] + 1} : Holding(d, m)
        BY <2>4, <4>1, Zenon DEF Hot
      <4> QED
        BY <2>1, <2>2, <3>1, <3>4, <4>2, ResolveHot, Zenon DEF Holding
    <3> QED
      BY <3>3, <3>4, Zenon DEF HotInv
  <2>5. CASE ~Cached(d)
    <3>1. /\ job'[d] = [step |-> "read", k |-> acked[d] + 1, text |-> NoText]
          /\ UNCHANGED <<lru, doc, cold>>
      BY <1>3, <2>5, Zenon DEF StoreStart, Shapes
    <3>2. ASSUME NEW e \in Docs, e # d PROVE ~cold'[e] => Hot(e)'
      BY <2>1, <2>3, <3>1, <3>2, HotFrame, Zenon DEF HotInv, Cached
    <3>3. ASSUME ~cold'[d] PROVE Hot(d)'
      <4>1. Hot(d) /\ (Cached(d)' <=> Cached(d))
        BY <3>1, <3>3, Zenon DEF HotInv, Cached
      <4> QED
        BY <2>1, <2>5, <3>1, <4>1 DEF Hot, Holding
    <3> QED
      BY <3>2, <3>3, Zenon DEF HotInv
  <2> QED
    BY <2>4, <2>5, Zenon
<1>4. ASSUME NEW d \in Docs, StoreRead(d)
      PROVE  HotInv'
  <2>1. /\ UNCHANGED <<content, lru, doc, load, acked, cold>>
        /\ \A e \in Docs : e # d => job'[e] = job[e]
    BY <1>4, Zenon DEF StoreRead, Shapes
  <2>2. ASSUME NEW e \in Docs, e # d PROVE ~cold'[e] => Hot(e)'
    BY <2>1, <2>2, HotFrame, Zenon DEF HotInv, Cached, Shapes
  <2>3. /\ job[d] # None /\ job[d].step = "read"
        /\ job'[d].step = "create" /\ job'[d].text = content[d]
    BY <1>4, Zenon DEF StoreRead, Shapes, Job
  <2>4. ASSUME ~cold'[d] PROVE Hot(d)'
    <3>1. Hot(d) /\ (Cached(d)' <=> Cached(d))
      BY <2>1, <2>4, Zenon DEF HotInv, Cached
    <3> QED
      BY <2>1, <2>3, <3>1, Zenon DEF Hot, Holding
  <2> QED
    BY <2>2, <2>4, Zenon DEF HotInv
<1>5. ASSUME NEW d \in Docs, StoreCreate(d)
      PROVE  HotInv'
  <2> DEFINE base == CreateDocWithContent(job[d].text)
  <2>1. UNCHANGED <<content, load, acked>>
    BY <1>5, Zenon DEF StoreCreate
  <2>2. /\ job[d] # None /\ job[d].step = "create"
        /\ job[d].k = acked[d] + 1 /\ acked[d] + 1 \in Updates
    BY <1>5, Zenon DEF StoreCreate, Shapes, Job
  <2>3. Resolve(d, base, acked[d] + 1)
    BY <1>5, <2>2, Zenon DEF StoreCreate
  <2>4. CacheSet(d, ApplyUpdate(base, acked[d] + 1))
    BY <2>3, Zenon DEF Resolve
  <2>5. \A e \in Docs : e # d => job'[e] = job[e]
    BY <2>3, Zenon DEF Resolve, Shapes
  <2>6. ASSUME NEW e \in Docs, e # d PROVE ~cold'[e] => Hot(e)'
    <3>1. ~cold'[e] => ~cold[e] /\ (Cached(e)' <=> Cached(e)) /\ (Cached(e) => doc'[e] = doc[e])
      BY <2>4, <2>6, CacheSetOthers, Zenon
    <3> QED
      BY <2>1, <2>5, <2>6, <3>1, HotFrame, Zenon DEF HotInv
  <2>7. ASSUME ~cold'[d] PROVE Hot(d)'
    <3>1. Hot(d)
      BY <2>4, <2>7, CacheSetOwn, Zenon DEF HotInv
    <3>2. acked[d] = 0 /\ job[d].text = Upto(0)
      BY <2>2, <3>1, Zenon DEF Hot
    <3>3. base.text = Upto(0) /\ base.known = {}
      BY <3>2, Zenon DEF CreateDocWithContent
    <3> HIDE DEF base
    <3>4. base.text = Upto(acked[d]) /\ base.known = 1 .. acked[d]
      BY <3>2, <3>3
    <3> QED
      BY <2>1, <2>2, <2>3, <2>7, <3>4, ResolveHot, Zenon
  <2> QED
    BY <2>6, <2>7, Zenon DEF HotInv
<1>6. ASSUME NEW d \in Docs, StoreRawUpdates(d)
      PROVE  HotInv'
  <2>1. /\ UNCHANGED <<content, lru, doc, load, acked, cold>>
        /\ \A e \in Docs : e # d => job'[e] = job[e]
    BY <1>6, Zenon DEF StoreRawUpdates, Shapes
  <2>2. ASSUME NEW e \in Docs, e # d PROVE ~cold'[e] => Hot(e)'
    BY <2>1, <2>2, HotFrame, Zenon DEF HotInv, Cached
  <2>3. /\ job[d] # None /\ job[d].step = "raw"
        /\ job'[d].step = "write" /\ job'[d].text = job[d].text
    BY <1>6, Zenon DEF StoreRawUpdates, Shapes, Job
  <2>4. ASSUME ~cold'[d] PROVE Hot(d)'
    <3>1. Hot(d) /\ (Cached(d)' <=> Cached(d))
      BY <2>1, <2>4, Zenon DEF HotInv, Cached
    <3> QED
      BY <2>1, <2>3, <3>1, Zenon DEF Hot, Holding
  <2> QED
    BY <2>2, <2>4, Zenon DEF HotInv
<1>7. ASSUME NEW d \in Docs, WriteContent(d)
      PROVE  HotInv'
  <2>1. /\ UNCHANGED <<lru, doc, load, acked, cold>>
        /\ \A e \in Docs : e # d => job'[e] = job[e] /\ content'[e] = content[e]
    BY <1>7, Zenon DEF WriteContent, Shapes
  <2>2. ASSUME NEW e \in Docs, e # d PROVE ~cold'[e] => Hot(e)'
    BY <2>1, <2>2, HotFrame, Zenon DEF HotInv, Cached
  <2>3. /\ job[d] # None /\ job[d].step = "write"
        /\ job'[d].step = "reply" /\ content'[d] = job[d].text
    BY <1>7, Zenon DEF WriteContent, Shapes, Job
  <2>4. ASSUME ~cold'[d] PROVE Hot(d)'
    <3>1. Hot(d) /\ (Cached(d)' <=> Cached(d))
      BY <2>1, <2>4, Zenon DEF HotInv, Cached
    <3> QED
      BY <2>1, <2>3, <3>1, Zenon DEF Hot, Holding
  <2> QED
    BY <2>2, <2>4, Zenon DEF HotInv
<1>8. ASSUME NEW d \in Docs, StoreReply(d)
      PROVE  HotInv'
  <2>1. /\ UNCHANGED <<content, lru, doc, load, cold>>
        /\ \A e \in Docs : e # d => job'[e] = job[e] /\ acked'[e] = acked[e]
    BY <1>8, Zenon DEF StoreReply, Shapes
  <2>2. ASSUME NEW e \in Docs, e # d PROVE ~cold'[e] => Hot(e)'
    BY <2>1, <2>2, HotFrame, Zenon DEF HotInv, Cached
  <2>3. /\ job[d] # None /\ job[d].step = "reply" /\ acked[d] \in Nat
        /\ job'[d] = None /\ acked'[d] = acked[d] + 1
    BY <1>8, SMTT(30) DEF StoreReply, Shapes, Job
  <2>4. ASSUME ~cold'[d] PROVE Hot(d)'
    <3>1. Hot(d) /\ (Cached(d)' <=> Cached(d))
      BY <2>1, <2>4, Zenon DEF HotInv, Cached
    <3> QED
      BY <2>1, <2>3, <3>1 DEF Hot, Holding
  <2> QED
    BY <2>2, <2>4, Zenon DEF HotInv
<1>9. ASSUME NEW d \in Docs, StoreFails(d)
      PROVE  HotInv'
  <2>1. /\ UNCHANGED <<content, lru, doc, load, acked, cold>>
        /\ \A e \in Docs : e # d => job'[e] = job[e]
    BY <1>9, Zenon DEF StoreFails, Shapes
  <2>2. ASSUME NEW e \in Docs, e # d PROVE ~cold'[e] => Hot(e)'
    BY <2>1, <2>2, HotFrame, Zenon DEF HotInv, Cached
  <2>3. job'[d] = None
    BY <1>9, SMTT(30) DEF StoreFails, Shapes, Job
  <2>4. ASSUME ~cold'[d] PROVE Hot(d)'
    <3>1. Hot(d) /\ (Cached(d)' <=> Cached(d))
      BY <2>1, <2>4, Zenon DEF HotInv, Cached
    <3> QED
      BY <2>1, <2>3, <3>1, Zenon DEF Hot, Holding
  <2> QED
    BY <2>2, <2>4, Zenon DEF HotInv
<1>10. CASE ClearCache
  <2>1. UNCHANGED <<content, load, job, acked>> /\ lru' = <<>>
    BY <1>10, Zenon DEF ClearCache
  <2>2. ASSUME NEW e \in Docs PROVE ~cold'[e] => Hot(e)'
    <3>1. cold'[e] = (cold[e] \/ Cached(e))
      BY <1>10, Zenon DEF ClearCache
    <3>2. ~Cached(e)'
      BY <2>1 DEF Cached, Range
    <3>3. ~cold'[e] => ~cold[e] /\ ~Cached(e)
      BY <3>1, Zenon
    <3> QED
      BY <2>1, <3>2, <3>3, HotFrame, Zenon DEF HotInv
  <2> QED
    BY <2>2, Zenon DEF HotInv
<1>11. ASSUME NEW t \in Texts, CreateVersion(t)
       PROVE  HotInv'
  BY <1>11, HotFrame, Zenon DEF CreateVersion, HotInv, Cached
<1>12. CASE UNCHANGED vars
  BY <1>12, HotFrame, Zenon DEF vars, HotInv, Cached
<1> QED
  BY <1>1, <1>2, <1>3, <1>4, <1>5, <1>6, <1>7, <1>8, <1>9, <1>10, <1>11, <1>12, Zenon DEF Next

\* The stored text of a document that stays cached holds every acknowledged
\* update and none twice, for any documents, any size of the cache and any
\* number of updates (processLoad, processStore).
THEOREM HotContentCorrect == Spec => []HotContent
<1>1. Init => HotInv
  <2> SUFFICES ASSUME Init, NEW d \in Docs PROVE Hot(d)
    BY Zenon DEF HotInv
  <2>1. acked[d] = 0 /\ content[d] = Upto(0) /\ load[d] = None /\ job[d] = None /\ ~Cached(d)
    BY UptoFacts DEF Init, Cached, Range
  <2> QED
    BY <2>1, Zenon DEF Hot
<1>2. Shapes /\ HotInv => HotContent
  <2> SUFFICES ASSUME Shapes, HotInv, NEW d \in Docs, ~cold[d]
               PROVE  /\ \A k \in 1 .. acked[d] : content[d][k] = 1
                      /\ \A k \in Updates : content[d][k] <= 1
    BY Zenon DEF HotContent
  <2>1. PICK m \in {acked[d], acked[d] + 1} : content[d] = Upto(m)
    BY Zenon DEF HotInv, Hot
  <2>2. acked[d] \in 0 .. MaxUpdates
    BY Zenon DEF Shapes
  <2> QED
    BY <2>1, <2>2, SdkAssumption DEF Upto, Updates
<1> QED
  BY ShapesInit, ShapesStep, HotStep, <1>1, <1>2, PTL DEF Spec

=============================================================================
