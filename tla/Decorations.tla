----------------------------- MODULE Decorations -----------------------------
(***************************************************************************)
(* Comment highlights and blame colours in the WYSIWYG editor.  Threads and*)
(* blame segments are ranges of the shared text, which is source; the      *)
(* ProseMirror document holds what that source renders to.  The position   *)
(* map of collab/pm-position-map.ts takes one to the other by looking the  *)
(* text nodes up in the source; comment-tiptap-plugin.ts and               *)
(* blame-tiptap-plugin.ts draw what it finds, and readSelectionRange of    *)
(* multi-editor.ts inverts it for a new comment.                           *)
(*                                                                         *)
(* A typed character reaches the document at once and the shared text only *)
(* when the debounced write-back runs, so the two may differ by an edit.   *)
(* Offsets count from 1 and ranges are half open: [start, end).            *)
(***************************************************************************)
EXTENDS Integers, FiniteSetsExt, Arrays, TLC

CONSTANTS Sources,    \* the shared texts to start from
          Letters,    \* the characters typed
          Clients,    \* the Yjs clients that type; Me is this editor's
          Me,
          UserOf,     \* the user of every client
          MaxTyping,  \* edits of the text
          Absent      \* no range, no thread

ASSUME DecorationsAssumption ==
    /\ Me \in Clients /\ UserOf \in [Clients -> STRING] /\ MaxTyping \in Nat
    /\ \A s \in Sources : s \in Seq([ch : STRING, client : Clients])

VARIABLES ytext,   \* the shared text: characters and who typed them
          doc,     \* the editor's document
          stored,  \* the open thread's anchor, as createAnchor took it
          live,    \* where its relative positions are by now (resolveAnchor)
          marks,   \* what the comment plugin draws for it: [from, to]
          typing   \* edits so far

decoVars == <<ytext, doc, stored, live, marks, typing>>

----------------------------------------------------------------------------
(* The content handler: a Markdown of italics, escapes and paragraphs.     *)

\* Offsets in their order.
Ordered(S) ==
    [k \in 1 .. Cardinality(S) |-> CHOOSE i \in S : Cardinality({j \in S : j < i}) = k - 1]

Chars(s) == [i \in DOMAIN s |-> s[i].ch]

\* The document of a source: the offsets it shows and where, which are italic,
\* and the text nodes.  Stars pair up in order, each pair around some text of one
\* paragraph; neighbours of one paragraph with the same marks are one node.
Document(s) ==
    LET Escaped(i) == s[i].ch = "*" /\ i > 1 /\ s[i - 1].ch = "\\"
        breaks == {i \in DOMAIN s : s[i].ch = "\n"}
        stars == {i \in DOMAIN s : s[i].ch = "*" /\ ~Escaped(i)}
        block == [i \in DOMAIN s |-> Cardinality({b \in breaks : b < i})]
        pairs == {p \in stars \X stars :
                    /\ p[1] + 1 < p[2] /\ block[p[1]] = block[p[2]]
                    /\ ~\E k \in stars : p[1] < k /\ k < p[2]
                    /\ Cardinality({k \in stars : k < p[1] /\ block[k] = block[p[1]]}) % 2 = 0}
        syntax == breaks \cup UNION {{p[1], p[2]} : p \in pairs}
                         \cup {i \in DOMAIN s : i < Len(s) /\ s[i].ch = "\\" /\ Escaped(i + 1)}
        visible == DOMAIN s \ syntax
        pos == [i \in visible |-> 1 + Cardinality({j \in visible : j < i}) + 2 * block[i]]
        italic == {i \in visible : \E p \in pairs : p[1] < i /\ i < p[2]}
        Joined(i, j) == block[i] = block[j] /\ (i \in italic <=> j \in italic)
        starts == {i \in visible : ~\E j \in visible :
                     j < i /\ Joined(j, i) /\ \A k \in visible : ~(j < k /\ k < i)}
        NodeAt(i) == {j \in visible : j >= i /\ \A k \in starts : k <= i \/ j < k}
        first == Ordered(starts)
        Node(offs, i) == [pos |-> pos[i], italic |-> i \in italic, offs |-> offs,
                          text |-> [k \in DOMAIN offs |-> s[offs[k]].ch]]
    IN [source |-> s, chars |-> Chars(s), pos |-> pos, pairs |-> pairs,
        size |-> Cardinality(visible) + 2 * (1 + Cardinality(breaks)),
        nodes |-> [n \in DOMAIN first |-> Node(Ordered(NodeAt(first[n])), first[n])]]

----------------------------------------------------------------------------
(* pm-position-map.ts                                                      *)

\* The shared text has t at offset i.
OccursAt(y, t, i) ==
    i + Len(t) - 1 <= Len(y) /\ \A k \in DOMAIN t : y[i + k - 1].ch = t[k]

\* From the shared text's offsets to positions, for the characters the document
\* shows.  A node that is not found is skipped, and the cursor stays.
BuildPositionMap(d, y) ==
    LET nodes == d.nodes
        walk[n \in 0 .. Len(nodes)] ==
            IF n = 0 THEN [cursor |-> 1, map |-> << >>]
            ELSE LET prev == walk[n - 1]
                     found == {i \in DOMAIN y : i >= prev.cursor /\ OccursAt(y, nodes[n].text, i)}
                     idx == Min(found)
                 IN IF found = {} THEN prev
                    ELSE [cursor |-> idx + Len(nodes[n].text),
                          map |-> [i \in idx .. idx + Len(nodes[n].text) - 1
                                     |-> nodes[n].pos + (i - idx)] @@ prev.map]
    IN walk[Len(nodes)].map

\* The start snaps forward and the end backward onto mapped offsets.
SnapRange(start, end, map) ==
    LET keys == {k \in DOMAIN map : start <= k /\ k < end}
    IN IF keys = {} THEN Absent
       ELSE [from |-> map[Min(keys)], to |-> map[Max(keys)] + 1]

\* The anchor of a selection; positions grow with the offsets.
PmRangeToYText(map, from, to) ==
    LET keys == {k \in DOMAIN map : from <= map[k] /\ map[k] < to}
    IN IF keys = {} THEN Absent ELSE [start |-> Min(keys), end |-> Max(keys) + 1]

CollectClientsInRange(y, start, end) == {y[i].client : i \in start .. end - 1}

\* A mutant of FindFormattingOverrides.
FindFormattingOverridesOpening(d, y) ==
    LET map == BuildPositionMap(d, y)
        At(node) == {k \in DOMAIN map : map[k] = node.pos}
        marked == {node \in Range(d.nodes) : node.italic /\ At(node) # {}}
        Candidate(node) ==
            LET start == Min(At(node))
                end == start + Len(node.text)
                wrapped == start > 1 /\ end <= Len(y) /\ y[start - 1].ch = "*" /\ y[end].ch = "*"
            IN [range |-> SnapRange(start, end, map),
                delim |-> IF wrapped THEN {y[start - 1].client} ELSE {},
                text |-> CollectClientsInRange(y, start, end)]
        Pure(o) ==
            /\ Cardinality(o.delim) = 1 /\ Cardinality(o.text) = 1 /\ o.range # Absent
            /\ \A c \in o.delim, t \in o.text : UserOf[c] # UserOf[t]
    IN {[range |-> o.range, user |-> UserOf[CHOOSE c \in o.delim : TRUE]] :
          o \in {c \in {Candidate(node) : node \in marked} : Pure(c)}}

\* A mark that one user put around another's text: the delimiters on both sides
\* of the node have one client, the text one client, of different users.
FindFormattingOverrides(d, y) ==
    LET map == BuildPositionMap(d, y)
        At(node) == {k \in DOMAIN map : map[k] = node.pos}
        marked == {node \in Range(d.nodes) : node.italic /\ At(node) # {}}
        Candidate(node) ==
            LET start == Min(At(node))
                end == start + Len(node.text)
                wrapped == start > 1 /\ end <= Len(y) /\ y[start - 1].ch = "*" /\ y[end].ch = "*"
            IN [range |-> SnapRange(start, end, map),
                delim |-> IF wrapped THEN {y[start - 1].client, y[end].client} ELSE {},
                text |-> CollectClientsInRange(y, start, end)]
        Pure(o) ==
            /\ Cardinality(o.delim) = 1 /\ Cardinality(o.text) = 1 /\ o.range # Absent
            /\ \A c \in o.delim, t \in o.text : UserOf[c] # UserOf[t]
    IN {[range |-> o.range, user |-> UserOf[CHOOSE c \in o.delim : TRUE]] :
          o \in {c \in {Candidate(node) : node \in marked} : Pure(c)}}

----------------------------------------------------------------------------
(* What the plugins draw.                                                  *)

\* The caret of an insertion: on its offset, or counted on from the mapped
\* offset before it, but inside the document.
SnapSinglePosition(offset, map, size) ==
    LET before == {k \in DOMAIN map : k < offset}
        guess == map[Max(before)] + (offset - Max(before))
    IN IF DOMAIN map = {} THEN Absent
       ELSE IF offset \in DOMAIN map THEN map[offset]
       ELSE IF before = {} THEN map[Min(DOMAIN map)]
       ELSE IF guess <= size THEN guess ELSE size

\* buildDecorations of the comment plugin.
BuildDecorations(d, y, a) ==
    LET map == BuildPositionMap(d, y)
        caret == SnapSinglePosition(a.start, map, d.size)
    IN IF a = Absent THEN Absent
       ELSE IF a.start < a.end THEN SnapRange(a.start, a.end, map)
       ELSE IF caret = Absent THEN Absent ELSE [from |-> caret, to |-> caret]

\* buildDecorations of comment-cm-extension.ts: the source editor highlights the
\* characters of the anchor that the text has.
SourceDecorations(y, a) ==
    IF a = Absent THEN {} ELSE {i \in a.start .. a.end - 1 : i <= Len(y)}

\* BlameEngine's segments: the stretches of one user.
Segments(y) ==
    {g \in [start : DOMAIN y, end : 2 .. Len(y) + 1, user : Range(UserOf)] :
        /\ g.start < g.end
        /\ \A i \in g.start .. g.end - 1 : UserOf[y[i].client] = g.user
        /\ g.start = 1 \/ UserOf[y[g.start - 1].client] # g.user
        /\ g.end > Len(y) \/ UserOf[y[g.end].client] # g.user}

\* createDecorations of the blame plugin: the user whose colour a position has.
\* Overrides are laid over the segments.
CreateDecorations(d, y) ==
    LET map == BuildPositionMap(d, y)
        base == {[range |-> SnapRange(g.start, g.end, map), user |-> g.user] : g \in Segments(y)}
        Covers(b, p) == b.range # Absent /\ b.range.from <= p /\ p < b.range.to
        over == FindFormattingOverrides(d, y)
    IN [p \in Range(d.pos) |->
          LET top == {b \in over : Covers(b, p)}
          IN {b.user : b \in IF top # {} THEN top ELSE {b \in base : Covers(b, p)}}]

\* updateBlame.
PushBlame == CreateDecorations(doc, ytext)

----------------------------------------------------------------------------
(* Edits.                                                                  *)

DecoInit ==
    /\ ytext \in Sources /\ doc = Document(ytext)
    /\ stored = Absent /\ live = Absent /\ marks = Absent
    /\ typing = 0

Typed(s, i, ch, c) == InsertAt(s, i, [ch |-> ch, client |-> c])

\* A relative position is before the character it was taken at.
Inserted(a, i) ==
    IF a = Absent THEN Absent
    ELSE [start |-> a.start + (IF i <= a.start THEN 1 ELSE 0), end |-> a.end + (IF i <= a.end THEN 1 ELSE 0)]
Removed(a, i) ==
    IF a = Absent THEN Absent
    ELSE [start |-> a.start - (IF i < a.start THEN 1 ELSE 0), end |-> a.end - (IF i < a.end THEN 1 ELSE 0)]

\* A thread is handed out with the anchor it was created with.
ToWireThread == stored

\* updateComments: the plugin draws the threads on the document and the shared
\* text of now.
PushCommentState == marks' = BuildDecorations(doc', ytext', ToWireThread)

\* The shared text changes: the comment coordinator pushes the threads, then the
\* editor takes the content over, which draws them again.  A character that was
\* typed and not written back is lost.
RemoteChange(y, l) ==
    /\ typing < MaxTyping
    /\ typing' = typing + 1
    /\ ytext' = y /\ doc' = Document(y) /\ live' = l
    /\ PushCommentState
    /\ UNCHANGED stored

RemoteInsert(i, ch, c) == c # Me /\ RemoteChange(Typed(ytext, i, ch, c), Inserted(live, i))
RemoteDelete(i) == RemoteChange(RemoveAt(ytext, i), Removed(live, i))

\* A keystroke in the WYSIWYG editor: the plugin draws its threads again, on the
\* new document and the shared text of before.
LocalChange(s) ==
    /\ typing < MaxTyping
    /\ typing' = typing + 1
    /\ doc' = Document(s)
    /\ marks' = BuildDecorations(doc', ytext, ToWireThread)
    /\ UNCHANGED <<ytext, stored, live>>

LocalInsert(i, ch) == LocalChange(Typed(doc.source, i, ch, Me))
LocalDelete(i) == LocalChange(RemoveAt(doc.source, i))

\* The toolbar makes a stretch italic.
LocalFormat(i, j) == i < j /\ LocalChange(Typed(Typed(doc.source, j, "*", Me), i, "*", Me))

\* What applyStringDiff keeps: the longest common prefix, then the longest common
\* suffix of the rest.
PrefixLen(old, new) ==
    Max({n \in 0 .. Len(old) : n <= Len(new) /\ \A k \in 1 .. n : old[k].ch = new[k].ch})
SuffixLen(old, new) ==
    LET p == PrefixLen(old, new)
    IN Max({n \in 0 .. Len(old) - p :
              /\ n <= Len(new) - p
              /\ \A k \in 0 .. n - 1 : old[Len(old) - k].ch = new[Len(new) - k].ch})

\* What is between them is deleted and written anew, by this client.
ApplyStringDiff(old, new) ==
    LET p == PrefixLen(old, new)
        q == SuffixLen(old, new)
    IN SubSeq(old, 1, p)
       \o [k \in 1 .. Len(new) - q - p |-> [ch |-> new[p + k].ch, client |-> Me]]
       \o SubSeq(old, Len(old) - q + 1, Len(old))

\* Relative positions on deleted characters stay before what replaces them.
Replaced(a, old, new) ==
    LET p == PrefixLen(old, new)
        q == SuffixLen(old, new)
        Moved(n) == IF n <= p THEN n
                    ELSE IF n <= Len(old) - q THEN p + 1
                    ELSE n + Len(new) - Len(old)
    IN IF a = Absent THEN Absent ELSE [start |-> Moved(a.start), end |-> Moved(a.end)]

\* A mutant of WriteBack.
WriteBackUnpushed ==
    /\ doc.source # ytext
    /\ ytext' = ApplyStringDiff(ytext, doc.source)
    /\ doc' = Document(ytext')
    /\ live' = Replaced(live, ytext, doc.source)
    /\ UNCHANGED <<stored, typing, marks>>

\* The debounced write-back; the coordinator pushes the threads.
WriteBack ==
    /\ doc.source # ytext
    /\ ytext' = ApplyStringDiff(ytext, doc.source)
    /\ doc' = Document(ytext')
    /\ live' = Replaced(live, ytext, doc.source)
    /\ PushCommentState
    /\ UNCHANGED <<stored, typing>>

----------------------------------------------------------------------------
(* Threads.                                                                *)

\* The characters of the selection [from, to) of the document.
Selected(d, from, to) == {i \in DOMAIN d.pos : from <= d.pos[i] /\ d.pos[i] < to}

\* The range of a new comment: through the position map, or else the first place
\* where the shared text reads like the selection (of one paragraph: a selection
\* that spans several reads unlike any source).
ReadSelectionRange(d, y, from, to) ==
    LET range == PmRangeToYText(BuildPositionMap(d, y), from, to)
        offs == Ordered(Selected(d, from, to))
        text == [k \in DOMAIN offs |-> d.chars[offs[k]]]
        found == {i \in DOMAIN y : OccursAt(y, text, i)}
    IN IF range # Absent THEN range
       ELSE IF text = << >> \/ found = {} \/ d.pos[Max(Range(offs))] # d.pos[Min(Range(offs))] + Len(text) - 1
       THEN Absent
       ELSE [start |-> Min(found), end |-> Min(found) + Len(text)]

OpenThread(a) ==
    /\ stored = Absent /\ a # Absent
    /\ stored' = a /\ live' = a
    /\ marks' = BuildDecorations(doc, ytext, a)
    /\ UNCHANGED <<ytext, doc, typing>>

Comment(from, to) == from < to /\ OpenThread(ReadSelectionRange(doc, ytext, from, to))

\* A suggestion that only inserts has an anchor without width.
SuggestInsertion(i) == OpenThread([start |-> i, end |-> i])

\* A resolved thread is drawn no more.
ResolveThread ==
    /\ stored # Absent
    /\ stored' = Absent /\ live' = Absent /\ marks' = Absent
    /\ UNCHANGED <<ytext, doc, typing>>

DecoNext ==
    \/ \E i \in 1 .. Len(ytext) + 1, ch \in Letters, c \in Clients : RemoteInsert(i, ch, c)
    \/ \E i \in DOMAIN ytext : RemoteDelete(i)
    \/ \E i \in 1 .. Len(doc.source) + 1, ch \in Letters : LocalInsert(i, ch)
    \/ \E i \in DOMAIN doc.source : LocalDelete(i)
    \/ \E i, j \in 1 .. Len(doc.source) + 1 : LocalFormat(i, j)
    \/ WriteBack
    \/ \E from, to \in 1 .. doc.size : Comment(from, to)
    \/ \E i \in 1 .. Len(ytext) + 1 : SuggestInsertion(i)
    \/ ResolveThread

DecoSpec == DecoInit /\ [][DecoNext]_decoVars

----------------------------------------------------------------------------
(* Properties.                                                             *)

\* The characters of a range that the document shows, and those a mark covers.
Shown(d, a) == {i \in DOMAIN d.pos : a.start <= i /\ i < a.end}
Covered(d, m) == IF m = Absent THEN {} ELSE Selected(d, m.from, m.to)

\* The documents the position map is made for: every text node is a stretch of
\* the source, and nothing that is syntax reads like text.
Literal ==
    LET visible == DOMAIN doc.pos
    IN /\ \A n \in DOMAIN doc.nodes : \A k \in DOMAIN doc.nodes[n].offs :
            doc.nodes[n].offs[k] = doc.nodes[n].offs[1] + k - 1
       /\ {doc.chars[i] : i \in visible} \cap {doc.chars[i] : i \in DOMAIN doc.chars \ visible} = {}

\* The editor shows the shared text, and that is such a document.
InStep == doc.source = ytext /\ Literal

\* Whatever is typed ahead of the write-back and however the source is
\* normalised, the map takes a character to one that reads the same, and keeps
\* their order (buildPositionMap).
MapReads ==
    LET map == BuildPositionMap(doc, ytext)
    IN /\ \A y \in DOMAIN map : y \in DOMAIN ytext /\ \E i \in DOMAIN doc.pos :
            doc.pos[i] = map[y] /\ doc.chars[i] = ytext[y].ch
       /\ \A y, z \in DOMAIN map : y < z => map[y] < map[z]

\* A selection that becomes a comment is highlighted as it was selected: the
\* anchor that readSelectionRange takes and the highlight of that anchor are
\* inverse (pmRangeToYText, snapRange).
SelectionRoundTrip ==
    LET map == BuildPositionMap(doc, ytext)
    IN InStep =>
        \A from \in 1 .. doc.size : \A to \in from + 1 .. doc.size :
            LET a == PmRangeToYText(map, from, to)
                sel == Selected(doc, from, to)
            IN IF a = Absent THEN sel = {}
               ELSE Shown(doc, a) = sel /\ Covered(doc, SnapRange(a.start, a.end, map)) = sel

\* A highlight lies in the document on display, also while the shared text lags
\* behind it; there is none without an open thread (buildDecorations).
HighlightInDocument ==
    /\ stored = Absent => marks = Absent
    /\ marks # Absent => 1 <= marks.from /\ marks.from <= marks.to /\ marks.to <= doc.size

\* After any edits, by whomever, the WYSIWYG editor highlights the characters the
\* source editor highlights (the two plugins' buildDecorations).
SurfacesAgree ==
    InStep /\ stored # Absent /\ stored.start < stored.end =>
        Covered(doc, marks) = DOMAIN doc.pos \cap SourceDecorations(ytext, stored)

\* Highlights are right: the map reads like the text, a selection survives the
\* way to the shared text and back, no highlight leaves the document, and the two
\* editors highlight the same characters.
HighlightsRight == MapReads /\ SelectionRoundTrip /\ HighlightInDocument /\ SurfacesAgree

\* Every character has the colour of who typed it, or of who made it italic when
\* one user put both delimiters around another's text (createDecorations,
\* findFormattingOverrides).
BlameCredits ==
    LET User(i) == UserOf[ytext[i].client]
        Around(i) ==
            {p \in doc.pairs :
                /\ p[1] < i /\ i < p[2]
                /\ ytext[p[1]].client = ytext[p[2]].client
                /\ \A j \in p[1] + 1 .. p[2] - 1 : ytext[j].client = ytext[i].client
                /\ User(p[1]) # User(i)}
        drawn == PushBlame
    IN InStep =>
        \A i \in DOMAIN doc.pos :
            drawn[doc.pos[i]] = IF Around(i) = {} THEN {User(i)} ELSE {User(p[1]) : p \in Around(i)}

=============================================================================
