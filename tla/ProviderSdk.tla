----------------------------- MODULE ProviderSdk -----------------------------
(***************************************************************************)
(* The TypeScript provider SDK (packages/provider-sdk-ts/src): the         *)
(* processor that turns the relay's load and store requests into calls of  *)
(* an implementor's storage, the cache of Y.Docs it resolves the text      *)
(* with, and the blame it computes from a document's versions.             *)
(*                                                                         *)
(* The relay stores the updates of a document one request at a time and    *)
(* repeats a request until it is acknowledged (RelayFlush).  Update k was  *)
(* made on top of update k - 1, so a Y.Doc that lacks k - 1 keeps k        *)
(* pending and its text does not show it.  A Y.Doc created from text holds *)
(* the characters but none of the updates they came from.  Documents start *)
(* out empty.                                                              *)
(***************************************************************************)
EXTENDS Naturals, FiniteSetsExt, Arrays

CONSTANTS Docs,          \* document ids
          CacheSize,     \* cacheSize
          MaxUpdates,    \* updates of a document
          Texts,         \* the texts versions are made of: sequences of lines
          LineLength,    \* the length of a line
          MaxVersions,
          None

\* A cache holds at least one document; a text has at least one line.
ASSUME SdkAssumption ==
    /\ CacheSize \in Nat \ {0} /\ MaxUpdates \in Nat /\ MaxVersions \in Nat
    /\ \A t \in Texts : Len(t) > 0 /\ \A i \in DOMAIN t : t[i] \in DOMAIN LineLength

VARIABLES content,   \* the implementor's text: how often it holds each update
          raw,       \* the implementor's journal of raw updates
          lru,       \* the keys of the cache, least recently used first
          doc,       \* the Y.Doc cached for a document: [text, known]
          load,      \* what a load request in flight has read
          job,       \* the store request in flight: [step, k, text]
          acked,     \* the updates the relay has had acknowledged
          cold,      \* the document's Y.Doc has been evicted or lost
          versions,  \* the versions of one document: [creator, lines]
          bound      \* how many updates and versions are stored

vars == <<content, raw, lru, doc, load, job, acked, cold, versions, bound>>

\* Updates and versions share no state: each is bounded by itself, with the
\* other's bound at zero.
Bounds == {[updates |-> MaxUpdates, versions |-> 0], [updates |-> 0, versions |-> MaxVersions]}

Updates == 1 .. MaxUpdates
NoText == [k \in Updates |-> 0]

----------------------------------------------------------------------------
(* The engine and its cache.                                               *)

\* createDocWithContent
CreateDocWithContent(text) == [text |-> text, known |-> {}]

\* Y.applyUpdate: a known update changes nothing, one whose predecessor is
\* missing stays pending.
ApplyUpdate(d, k) ==
    IF k \in d.known \/ ~(k = 1 \/ k - 1 \in d.known) THEN d
    ELSE [text |-> [d.text EXCEPT ![k] = Min({@ + 1, 2})], known |-> d.known \cup {k}]

Cached(d) == d \in Range(lru)

\* The key moves to the most recently used end.
Touched(d) == Append(RemoveFirst(lru, d), d)

\* DocCache.set: a new key in a full cache evicts the least recently used one.
CacheSet(d, value) ==
    /\ lru' = IF Cached(d) \/ Len(lru) < CacheSize THEN Touched(d) ELSE Append(Tail(lru), d)
    /\ doc' = [e \in Docs |-> IF e = d THEN value
                              ELSE IF e \in Range(lru') THEN doc[e] ELSE CreateDocWithContent(NoText)]
    /\ cold' = [e \in Docs |-> cold[e] \/ (Cached(e) /\ e \notin Range(lru'))]

----------------------------------------------------------------------------
Init ==
    /\ content = [d \in Docs |-> NoText]
    /\ raw = [d \in Docs |-> {}]
    /\ lru = <<>>
    /\ doc = [d \in Docs |-> CreateDocWithContent(NoText)]
    /\ load = [d \in Docs |-> None]
    /\ job = [d \in Docs |-> None]
    /\ acked = [d \in Docs |-> 0]
    /\ cold = [d \in Docs |-> FALSE]
    /\ versions = <<>>
    /\ bound \in Bounds

\* POST /documents/load: the storage is read ...
LoadRead(d) ==
    /\ load[d] = None
    /\ load' = [load EXCEPT ![d] = content[d]]
    /\ UNCHANGED <<content, raw, lru, doc, job, acked, cold, versions, bound>>

\* A mutant of LoadSeed.
LoadSeedAlways(d) ==
    /\ load[d] # None
    /\ CacheSet(d, CreateDocWithContent(load[d]))
    /\ load' = [load EXCEPT ![d] = None]
    /\ UNCHANGED <<content, raw, job, acked, versions, bound>>

\* ... and the text seeds the cache unless it holds the document by now.
LoadSeed(d) ==
    /\ load[d] # None
    /\ IF Cached(d) THEN lru' = Touched(d) /\ UNCHANGED <<doc, cold>>
       ELSE CacheSet(d, CreateDocWithContent(load[d]))
    /\ load' = [load EXCEPT ![d] = None]
    /\ UNCHANGED <<content, raw, job, acked, versions, bound>>

\* The rest of processStore once it has the Y.Doc, up to its next await.
Resolve(d, base, k) ==
    LET applied == ApplyUpdate(base, k)
    IN  /\ CacheSet(d, applied)
        /\ job' = [job EXCEPT ![d] = [step |-> "raw", k |-> k, text |-> applied.text]]

\* POST /documents/updates with the next update.
StoreStart(d) ==
    /\ job[d] = None /\ acked[d] < bound.updates
    /\ IF Cached(d) THEN Resolve(d, doc[d], acked[d] + 1)
       ELSE /\ job' = [job EXCEPT ![d] = [step |-> "read", k |-> acked[d] + 1, text |-> NoText]]
            /\ UNCHANGED <<lru, doc, cold>>
    /\ UNCHANGED <<content, raw, load, acked, versions, bound>>

\* The storage is read for a document that is not cached.
StoreRead(d) ==
    /\ job[d] # None /\ job[d].step = "read"
    /\ job' = [job EXCEPT ![d].step = "create", ![d].text = content[d]]
    /\ UNCHANGED <<content, raw, lru, doc, load, acked, cold, versions, bound>>

StoreCreate(d) ==
    /\ job[d] # None /\ job[d].step = "create"
    /\ Resolve(d, CreateDocWithContent(job[d].text), job[d].k)
    /\ UNCHANGED <<content, raw, load, acked, versions, bound>>

StoreRawUpdates(d) ==
    /\ job[d] # None /\ job[d].step = "raw"
    /\ raw' = [raw EXCEPT ![d] = @ \cup {job[d].k}]
    /\ job' = [job EXCEPT ![d].step = "write"]
    /\ UNCHANGED <<content, lru, doc, load, acked, cold, versions, bound>>

WriteContent(d) ==
    /\ job[d] # None /\ job[d].step = "write"
    /\ content' = [content EXCEPT ![d] = job[d].text]
    /\ job' = [job EXCEPT ![d].step = "reply"]
    /\ UNCHANGED <<raw, lru, doc, load, acked, cold, versions, bound>>

StoreReply(d) ==
    /\ job[d] # None /\ job[d].step = "reply"
    /\ acked' = [acked EXCEPT ![d] = job[d].k]
    /\ job' = [job EXCEPT ![d] = None]
    /\ UNCHANGED <<content, raw, lru, doc, load, cold, versions, bound>>

\* A call of the implementor throws and the answer is 500, or the answer is
\* lost: the relay will send the update again.
StoreFails(d) ==
    /\ job[d] # None
    /\ job' = [job EXCEPT ![d] = None]
    /\ UNCHANGED <<content, raw, lru, doc, load, acked, cold, versions, bound>>

\* clearCache(), as at a shutdown.
ClearCache ==
    /\ lru # <<>>
    /\ lru' = <<>>
    /\ doc' = [d \in Docs |-> CreateDocWithContent(NoText)]
    /\ cold' = [d \in Docs |-> cold[d] \/ Cached(d)]
    /\ UNCHANGED <<content, raw, load, job, acked, versions, bound>>

\* POST /documents/versions; every version has a time stamp of its own.
CreateVersion(t) ==
    /\ Len(versions) < bound.versions
    /\ versions' = Append(versions, [creator |-> Len(versions) + 1, lines |-> t])
    /\ UNCHANGED <<content, raw, lru, doc, load, job, acked, cold, bound>>

Next ==
    \/ \E d \in Docs : LoadRead(d)
    \/ \E d \in Docs : LoadSeed(d)
    \/ \E d \in Docs : StoreStart(d)
    \/ \E d \in Docs : StoreRead(d)
    \/ \E d \in Docs : StoreCreate(d)
    \/ \E d \in Docs : StoreRawUpdates(d)
    \/ \E d \in Docs : WriteContent(d)
    \/ \E d \in Docs : StoreReply(d)
    \/ \E d \in Docs : StoreFails(d)
    \/ ClearCache
    \/ \E t \in Texts : CreateVersion(t)

Spec == Init /\ [][Next]_vars

----------------------------------------------------------------------------
(* Blame from the versions (blame.ts).                                     *)

\* The table of computeLCS.
LCSTable(a, b) ==
    LET dp[i \in 0 .. Len(a), j \in 0 .. Len(b)] ==
            IF i = 0 \/ j = 0 THEN 0
            ELSE IF a[i] = b[j] THEN dp[i - 1, j - 1] + 1
            ELSE Max({dp[i - 1, j], dp[i, j - 1]})
    IN  dp

\* A mutant of ComputeLCS.
ComputeLCSOneWay(a, b) ==
    LET back[i \in 0 .. Len(a), j \in 0 .. Len(b)] ==
            IF i = 0 \/ j = 0 THEN {}
            ELSE IF a[i] = b[j] THEN back[i - 1, j - 1] \cup {<<i, j>>}
            ELSE back[i - 1, j]
    IN  back[Len(a), Len(b)]

\* The pairs computeLCS finds going back through the table.
ComputeLCS(a, b) ==
    LET dp == LCSTable(a, b)
        back[i \in 0 .. Len(a), j \in 0 .. Len(b)] ==
            IF i = 0 \/ j = 0 THEN {}
            ELSE IF a[i] = b[j] THEN back[i - 1, j - 1] \cup {<<i, j>>}
            ELSE IF dp[i - 1, j] >= dp[i, j - 1] THEN back[i - 1, j]
            ELSE back[i, j - 1]
    IN  back[Len(a), Len(b)]

\* Matched lines keep their author, the others are the creator's.
ApplyDiffAttribution(old, new, authors, creator) ==
    LET lcs == ComputeLCS(old, new)
    IN  [n \in DOMAIN new |->
            IF \E p \in lcs : p[2] = n
            THEN authors[(CHOOSE p \in lcs : p[2] = n)[1]]
            ELSE creator]

\* The authors of the lines of version n.
LineAuthors(n) ==
    LET authors[i \in 1 .. n] ==
            IF i = 1 THEN [l \in DOMAIN versions[1].lines |-> versions[1].creator]
            ELSE ApplyDiffAttribution(versions[i - 1].lines, versions[i].lines,
                                      authors[i - 1], versions[i].creator)
    IN  authors[n]

\* Every line but the last carries its line feed.
LineLen(lines, i) == LineLength[lines[i]] + IF i < Len(lines) THEN 1 ELSE 0

\* linesToSegments: runs of lines by one author, as ranges of characters.
LinesToSegments(lines, authors) ==
    LET segs[n \in 0 .. Len(lines)] ==
            IF n = 0 THEN [list |-> <<>>, offset |-> 0]
            ELSE LET was == segs[n - 1]
                     end == was.offset + LineLen(lines, n)
                     list == was.list
                 IN  IF LineLen(lines, n) = 0 THEN was
                     ELSE IF list # <<>> /\ Last(list).user = authors[n] /\ Last(list).end = was.offset
                     THEN [list |-> [list EXCEPT ![Len(list)].end = end], offset |-> end]
                     ELSE [list |-> Append(list, [start |-> was.offset, end |-> end,
                                                  user |-> authors[n]]),
                           offset |-> end]
    IN  segs[Len(lines)].list

\* GET /documents/versions/detail for version n.
Blame(n) == LinesToSegments(versions[n].lines, LineAuthors(n))

----------------------------------------------------------------------------
(* Properties.                                                             *)

TypeOK ==
    /\ \A d \in Docs : /\ content[d] \in [Updates -> 0 .. 2]
                       /\ raw[d] \subseteq Updates
                       /\ doc[d].known \subseteq Updates
                       /\ acked[d] \in 0 .. MaxUpdates
                       /\ job[d] # None => job[d].step \in {"read", "create", "raw", "write", "reply"}
    /\ Range(lru) \subseteq Docs

\* The cache never holds more documents than its size, nor one twice, whichever
\* loads and stores interleave (DocCache.set).
CacheBounded == Len(lru) <= CacheSize /\ IsInjective(lru)

\* As long as a document stays cached, its stored text holds every acknowledged
\* update, and none twice: loads in flight, failed stores and repeated stores
\* included (processLoad, processStore).
HotContent ==
    \A d \in Docs : ~cold[d] =>
        /\ \A k \in 1 .. acked[d] : content[d][k] = 1
        /\ \A k \in Updates : content[d][k] <= 1

\* The journal of raw updates holds every acknowledged update, also of the
\* documents whose Y.Doc was evicted (processStore stores it before it answers).
AckedJournalled == \A d \in Docs : 1 .. acked[d] \subseteq raw[d]

\* The ways to match equal lines of two texts in order.
Matchings(a, b) ==
    {m \in SUBSET ((DOMAIN a) \X (DOMAIN b)) :
        /\ \A p \in m : a[p[1]] = b[p[2]]
        /\ \A p, q \in m : p[1] < q[1] <=> p[2] < q[2]}

\* A line is attributed to a version that has it and has been in every version
\* since, and as few lines as possible are attributed to the newest version
\* (computeBlameFromVersions).
BlameSound ==
    \A n \in DOMAIN versions :
        LET lines == versions[n].lines
            authors == LineAuthors(n)
        IN  /\ \A i \in DOMAIN lines : \A v \in authors[i] .. n :
                  lines[i] \in Range(versions[v].lines)
            /\ n > 1 =>
                 Cardinality({i \in DOMAIN lines : authors[i] # n})
                     = Max({Cardinality(m) : m \in Matchings(versions[n - 1].lines, lines)})

\* The segments follow each other from the first character to the last, every
\* character in one of them, and two in a row have different authors
\* (linesToSegments).
BlameCovers ==
    \A n \in DOMAIN versions :
        LET lines == versions[n].lines
            segs == Blame(n)
            total == FoldFunction(+, 0, [i \in DOMAIN lines |-> LineLen(lines, i)])
        IN  /\ total = IF segs = <<>> THEN 0 ELSE Last(segs).end
            /\ \A i \in DOMAIN segs :
                  /\ segs[i].start = IF i = 1 THEN 0 ELSE segs[i - 1].end
                  /\ segs[i].start < segs[i].end
                  /\ i > 1 => segs[i].user # segs[i - 1].user

\* The blame of a version is right, and covers its text: what the panel of a
\* version's authors is drawn from (computeBlameFromVersions, linesToSegments).
VersionBlameCorrect == BlameSound /\ BlameCovers

=============================================================================
