---- MODULE Versions ----
(***************************************************************************)
(* Version history beside a live document: VersionCoordinator and          *)
(* VersionManager (frontend/src/collab/version-coordinator.ts,             *)
(* version-manager.ts), the line diff (diff-engine.ts) and the panel       *)
(* (toolbar/version-panel.ts).                                             *)
(*                                                                         *)
(* Every call to the server is a request that is answered or fails later.  *)
(* Nothing is checked again when the answer is applied, so answers meet    *)
(* whatever panel, view and document they find.  A text is a sequence of   *)
(* lines; a version is named by its document and its place in the history. *)
(***************************************************************************)
EXTENDS Integers, FiniteSetsExt, Arrays

CONSTANTS
    Texts,        \* the contents users type
    Histories,    \* the stored versions of the documents the editor is attached
                  \* to, in turn (their number is a bound)
    MaxVersions,  \* versions of a document (bound)
    MaxRequests,  \* requests the user's clicks send (bound)
    Null          \* no version, no diff

ASSUME BoundsAssumption == MaxVersions \in Nat /\ MaxRequests \in Nat
ASSUME NullAssumption == Null \notin [doc : Nat, id : Nat]
ASSUME HistoriesAssumption ==
    /\ Histories \in Seq(Seq(Seq(STRING))) /\ Histories # <<>>
    /\ \A d \in DOMAIN Histories : Len(Histories[d]) <= MaxVersions
ASSUME TextsAssumption == Texts \subseteq Seq(STRING) /\ <<>> \in Texts

VARIABLES
    store,      \* the server: the contents of each document's versions
    doc,        \* the attached document
    attached,   \* between attach and detach
    live,       \* its text
    readonly,   \* the host's readonly: now, as attach captured it, changed since
    locked,     \* the binding is read-only
    versions,   \* _versions, as a set
    selected,   \* _selectedVersion
    viewing,    \* _viewingVersion
    panelOpen,  \* _panelOpen
    diffResult, \* _diffResult, with the pair it was computed for
    panel,      \* the panel's _diffFrom, _diffTo and _view
    pending,    \* unanswered requests
    sent        \* requests the user's clicks have sent (for the bound)

versionsVars == <<store, doc, attached, live, readonly, locked, versions, selected, viewing, panelOpen,
          diffResult, panel, pending, sent>>

viewVars == <<selected, viewing, locked>>

Version(d, i) == [doc |-> d, id |-> i]
History(d) == {Version(d, i) : i \in DOMAIN store[d]}
Content(v) == store[v.doc][v.id]

\* op: what is awaited; vs: the versions asked for; text: the content to store.
Request(op, vs, text) == [op |-> op, doc |-> doc, vs |-> vs, text |-> text]

HostReadonly(r) == [now |-> r, attach |-> r, changed |-> FALSE]

VersionsInit ==
    /\ store = Histories
    /\ doc = 1
    /\ attached = TRUE
    /\ live \in Texts
    /\ readonly = HostReadonly(FALSE)
    /\ locked = FALSE
    /\ versions = {}
    /\ selected = Null
    /\ viewing = FALSE
    /\ panelOpen = FALSE
    /\ diffResult = Null
    /\ panel = [from |-> Null, to |-> Null, view |-> "list"]
    /\ pending = {Request("list", <<>>, <<>>)}
    /\ sent = 0

----
(***************************************************************************)
(* The line diff.                                                          *)
(***************************************************************************)

\* computeLCS's table: dp[i][j] for the first i lines of a and j of b.
LCSTable(a, b) ==
    LET dp[i \in 0 .. Len(a), j \in 0 .. Len(b)] ==
            IF i = 0 \/ j = 0 THEN 0
            ELSE IF a[i] = b[j] THEN dp[i - 1, j - 1] + 1
            ELSE Max({dp[i - 1, j], dp[i, j - 1]})
    IN  dp

\* Mutant: the walk follows the smaller neighbour.
ComputeLCSSmaller(a, b) ==
    LET dp == LCSTable(a, b)
        walk[i \in 0 .. Len(a), j \in 0 .. Len(b)] ==
            IF i = 0 \/ j = 0 THEN <<>>
            ELSE IF a[i] = b[j] THEN Append(walk[i - 1, j - 1], <<i, j>>)
            ELSE IF dp[i - 1, j] < dp[i, j - 1] THEN walk[i - 1, j]
            ELSE walk[i, j - 1]
    IN  walk[Len(a), Len(b)]

\* Its walk back through the table: the matched pairs, first to last.
ComputeLCS(a, b) ==
    LET dp == LCSTable(a, b)
        walk[i \in 0 .. Len(a), j \in 0 .. Len(b)] ==
            IF i = 0 \/ j = 0 THEN <<>>
            ELSE IF a[i] = b[j] THEN Append(walk[i - 1, j - 1], <<i, j>>)
            ELSE IF dp[i - 1, j] >= dp[i, j - 1] THEN walk[i - 1, j]
            ELSE walk[i, j - 1]
    IN  walk[Len(a), Len(b)]

DiffLine(type, line) == [type |-> type, line |-> line]
Lines(type, text, from, to) == [k \in 1 .. to - from + 1 |-> DiffLine(type, text[from + k - 1])]

\* computeLineDiff: before each match, and at the end, first what was removed,
\* then what was added.
ComputeLineDiff(a, b) ==
    LET lcs == ComputeLCS(a, b) \o <<<<Len(a) + 1, Len(b) + 1>>>>
        start(k) == IF k = 1 THEN <<1, 1>> ELSE <<lcs[k - 1][1] + 1, lcs[k - 1][2] + 1>>
        match(k) == IF k = Len(lcs) THEN <<>> ELSE <<DiffLine("unchanged", a[lcs[k][1]])>>
        part(k) == Lines("removed", a, start(k)[1], lcs[k][1] - 1)
                      \o Lines("added", b, start(k)[2], lcs[k][2] - 1)
                      \o match(k)
    IN  FlattenSeq([k \in 1 .. Len(lcs) |-> part(k)])

----
(***************************************************************************)
(* Requests and answers.                                                   *)
(***************************************************************************)

Sends(r) ==
    /\ sent < MaxRequests
    /\ r \notin pending
    /\ pending' = pending \cup {r}
    /\ sent' = sent + 1

\* A request fails, or a version is not found: the continuation returns.
Fails(r) ==
    /\ r \in pending /\ r.op # "reverted"
    /\ pending' = pending \ {r}
    /\ UNCHANGED <<store, doc, attached, live, readonly, viewVars, versions, panelOpen, diffResult,
                   panel, sent>>

\* The relay's version-created message, for a version its flush made.
VersionCreated ==
    /\ attached /\ Len(store[doc]) < MaxVersions
    /\ store' = [store EXCEPT ![doc] = Append(@, live)]
    /\ versions' = versions \cup {Version(doc, Len(store[doc]) + 1)}
    /\ UNCHANGED <<doc, attached, live, readonly, viewVars, panelOpen, diffResult, panel, pending, sent>>

\* The answer to a list request, the initial one of attach, of an opened panel or
\* of revert: the history as the server had it at some point since, or nothing
\* when the server refuses.
Listed(r, n) ==
    /\ r \in pending /\ r.op = "list"
    /\ n \in {0} \cup (Len(Histories[r.doc]) .. Len(store[r.doc]))
    /\ pending' = pending \ {r}
    /\ versions' = {Version(r.doc, i) : i \in 1 .. n}
    /\ UNCHANGED <<store, doc, attached, live, readonly, viewVars, panelOpen, diffResult, panel, sent>>

\* The server stores a version.
StoreVersion(r) ==
    /\ Len(store[r.doc]) < MaxVersions
    /\ store' = [store EXCEPT ![r.doc] = Append(@, r.text)]

\* The answer to save.
Saved(r) ==
    /\ r \in pending /\ r.op = "save"
    /\ StoreVersion(r)
    /\ pending' = pending \ {r}
    /\ versions' = versions \cup {Version(r.doc, Len(store[r.doc]) + 1)}
    /\ UNCHANGED <<doc, attached, live, readonly, viewVars, panelOpen, diffResult, panel, sent>>

\* The answer to revert's second request, stored or not: the list is read again,
\* from the document attached by now.
RevertSaved(r) ==
    /\ r \in pending /\ r.op = "reverted"
    /\ StoreVersion(r) \/ UNCHANGED store
    /\ pending' = (pending \ {r}) \cup (IF attached THEN {Request("list", <<>>, <<>>)} ELSE {})
    /\ UNCHANGED <<doc, attached, live, readonly, viewVars, versions, panelOpen, diffResult, panel,
                   sent>>

\* A version asked for is found by its own document's server only.
Found(r, v) == v.doc = r.doc

----
(***************************************************************************)
(* The document.                                                           *)
(***************************************************************************)

Edit(text) ==
    /\ attached /\ text # live
    /\ live' = text
    /\ UNCHANGED <<store, doc, attached, readonly, viewVars, versions, panelOpen, diffResult, panel,
                   pending, sent>>

\* The host changes its readonly property (once, a bound).
SetReadonly ==
    /\ attached
    /\ ~readonly.changed
    /\ readonly' = [readonly EXCEPT !.now = ~@, !.changed = TRUE]
    /\ locked' = ~readonly.now
    /\ UNCHANGED <<store, doc, attached, live, selected, viewing, versions, panelOpen, diffResult,
                   panel, pending, sent>>

----
(***************************************************************************)
(* The version panel.                                                      *)
(***************************************************************************)

ListShown == attached /\ panelOpen /\ (panel.view = "list" \/ diffResult = Null)

\* What a click on a version makes of the pair to compare.
Picked(v) ==
    CASE panel.from = Null -> [panel EXCEPT !.from = v]
      [] panel.from = v -> [panel EXCEPT !.from = panel.to, !.to = Null]
      [] panel.to = v -> [panel EXCEPT !.to = Null]
      [] OTHER -> [panel EXCEPT !.to = v]

SelectVersion(v) ==
    /\ ListShown /\ v \in versions
    /\ panel' = Picked(v)
    /\ Sends(Request("select", <<v>>, <<>>))
    /\ UNCHANGED <<store, doc, attached, live, readonly, viewVars, versions, panelOpen, diffResult>>

\* The View and Revert buttons, shown for a single selection.
ViewOrRevert(op) ==
    /\ ListShown /\ selected # Null /\ panel.to = Null /\ panel.from # Null
    /\ Sends(Request(op, <<panel.from>>, <<>>))
    /\ UNCHANGED <<store, doc, attached, live, readonly, viewVars, versions, panelOpen, diffResult,
                   panel>>

Compare ==
    /\ ListShown /\ panel.from # Null /\ panel.to # Null
    /\ panel' = [panel EXCEPT !.view = "diff"]
    /\ Sends(Request("diff", <<panel.from, panel.to>>, <<>>))
    /\ UNCHANGED <<store, doc, attached, live, readonly, viewVars, versions, panelOpen, diffResult>>

ClearSelection ==
    /\ ListShown /\ (panel.from # Null \/ selected # Null)
    /\ panel' = [from |-> Null, to |-> Null, view |-> "list"]
    /\ diffResult' = Null
    /\ UNCHANGED <<store, doc, attached, live, readonly, viewVars, versions, panelOpen, pending, sent>>

BackToList ==
    /\ attached /\ panelOpen /\ ~ListShown
    /\ panel' = [panel EXCEPT !.view = "list"]
    /\ UNCHANGED <<store, doc, attached, live, readonly, viewVars, versions, panelOpen, diffResult, pending, sent>>

Save ==
    /\ attached
    /\ Sends(Request("save", <<>>, live))
    /\ UNCHANGED <<store, doc, attached, live, readonly, viewVars, versions, panelOpen, diffResult,
                   panel>>

----
(***************************************************************************)
(* The version view.                                                       *)
(***************************************************************************)

\* Mutant: leaving the view always unlocks.
ExitUnlocks ==
    IF viewing
    THEN /\ viewing' = FALSE
         /\ selected' = Null
         /\ locked' = FALSE
    ELSE UNCHANGED viewVars

ExitVersionView ==
    IF viewing
    THEN /\ viewing' = FALSE
         /\ selected' = Null
         /\ locked' = readonly.attach
    ELSE UNCHANGED viewVars

OpenPanel ==
    /\ attached /\ ~panelOpen
    /\ panelOpen' = TRUE
    /\ pending' = pending \cup {Request("list", <<>>, <<>>)}
    /\ UNCHANGED <<store, doc, attached, live, readonly, viewVars, versions, diffResult, panel, sent>>

\* closePanel, or togglePanel on an open panel.
ClosePanel ==
    /\ attached /\ panelOpen
    /\ panelOpen' = FALSE
    /\ ExitVersionView
    /\ UNCHANGED <<store, doc, attached, live, readonly, versions, diffResult, panel, pending, sent>>

Selected(r) ==
    /\ r \in pending /\ r.op = "select" /\ Found(r, r.vs[1])
    /\ pending' = pending \ {r}
    /\ selected' = r.vs[1]
    /\ UNCHANGED <<store, doc, attached, live, readonly, viewing, locked, versions, panelOpen,
                   diffResult, panel, sent>>

\* The binding's setContent: a shared text that has content keeps it.
SetContent(text) == IF live = <<>> THEN text ELSE live

\* The answer to view; the version's blame is in Decorations.
Viewed(r) ==
    /\ r \in pending /\ r.op = "view" /\ Found(r, r.vs[1]) /\ attached
    /\ selected' = r.vs[1]
    /\ viewing' = TRUE
    /\ locked' = TRUE
    /\ live' = SetContent(Content(r.vs[1]))
    /\ pending' = pending \ {r}
    /\ UNCHANGED <<store, doc, attached, readonly, versions, panelOpen, diffResult, panel, sent>>

\* The answer to revert's first request: the document, whichever is attached,
\* gets the version's content, and a new version is made of it.
RevertToVersion(r) ==
    /\ r \in pending /\ r.op = "revert" /\ Found(r, r.vs[1]) /\ attached
    /\ ExitVersionView
    /\ LET text == Content(r.vs[1]) IN
       /\ live' = text
       /\ pending' = (pending \ {r}) \cup {Request("reverted", <<>>, text)}
    /\ UNCHANGED <<store, doc, attached, readonly, versions, panelOpen, diffResult, panel, sent>>

\* diff awaits the two versions one after the other.
DiffFirst(r) ==
    /\ r \in pending /\ r.op = "diff" /\ Found(r, r.vs[1]) /\ attached
    /\ pending' = (pending \ {r}) \cup {Request("diff2", r.vs, <<>>)}
    /\ UNCHANGED <<store, doc, attached, live, readonly, viewVars, versions, panelOpen, diffResult,
                   panel, sent>>

DiffSecond(r) ==
    /\ r \in pending /\ r.op = "diff2" /\ Found(r, r.vs[2]) /\ attached
    /\ pending' = pending \ {r}
    /\ diffResult' = [of |-> r.vs, lines |-> ComputeLineDiff(Content(r.vs[1]), Content(r.vs[2]))]
    /\ UNCHANGED <<store, doc, attached, live, readonly, viewVars, versions, panelOpen, panel, sent>>

----
(***************************************************************************)
(* Attaching and detaching.                                                *)
(***************************************************************************)

\* Both coordinators detach; requests stay on their way.
Detach ==
    /\ attached
    /\ attached' = FALSE
    /\ locked' = IF viewing THEN readonly.attach ELSE locked
    /\ viewing' = FALSE
    /\ versions' = {}
    /\ selected' = Null
    /\ diffResult' = Null
    /\ panelOpen' = FALSE
    /\ live' = <<>>
    /\ UNCHANGED <<store, doc, readonly, panel, pending, sent>>

\* They attach to the next document the host configures.
Attach(text) ==
    /\ ~attached /\ doc < Len(Histories)
    /\ attached' = TRUE
    /\ doc' = doc + 1
    /\ live' = text
    /\ readonly' = HostReadonly(readonly.now)
    /\ locked' = readonly.now
    /\ versions' = {} /\ selected' = Null /\ diffResult' = Null
    /\ pending' = pending \cup {[Request("list", <<>>, <<>>) EXCEPT !.doc = doc + 1]}
    /\ UNCHANGED <<store, viewing, panelOpen, panel, sent>>

Answer(r) ==
    \/ \E n \in 0 .. MaxVersions : Listed(r, n)
    \/ Saved(r) \/ RevertSaved(r) \/ Fails(r) \/ Selected(r) \/ Viewed(r) \/ RevertToVersion(r)
    \/ DiffFirst(r) \/ DiffSecond(r)

VersionsNext ==
    \/ \E r \in pending : Answer(r)
    \/ \E text \in Texts : Edit(text)
    \/ \E v \in versions : SelectVersion(v)
    \/ \E op \in {"view", "revert"} : ViewOrRevert(op)
    \/ \E text \in Texts : Attach(text)
    \/ VersionCreated \/ SetReadonly
    \/ Compare \/ ClearSelection \/ BackToList \/ Save
    \/ OpenPanel \/ ClosePanel
    \/ Detach

VersionsSpec == VersionsInit /\ [][VersionsNext]_versionsVars

----
(***************************************************************************)
(* Properties.                                                             *)
(***************************************************************************)

Contents == Texts \cup UNION {ToSet(Histories[d]) : d \in DOMAIN Histories}
AllVersions == [doc : DOMAIN Histories, id : 1 .. MaxVersions]
Ops == {"list", "save", "select", "view", "revert", "reverted", "diff", "diff2"}

\* Types of the variables.
VersionsTypeOK ==
    /\ \A d \in DOMAIN Histories : Len(store[d]) <= MaxVersions /\ ToSet(store[d]) \subseteq Contents
    /\ doc \in DOMAIN Histories /\ attached \in BOOLEAN /\ live \in Contents
    /\ readonly \in [now : BOOLEAN, attach : BOOLEAN, changed : BOOLEAN] /\ locked \in BOOLEAN
    /\ versions \subseteq AllVersions /\ selected \in AllVersions \cup {Null}
    /\ viewing \in BOOLEAN /\ panelOpen \in BOOLEAN
    /\ diffResult = Null \/ \A v \in ToSet(diffResult.of) : v \in AllVersions
    /\ {panel.from, panel.to} \subseteq AllVersions \cup {Null} /\ panel.view \in {"list", "diff"}
    /\ sent \in 0 .. MaxRequests
    /\ \A q \in pending : q.op \in Ops /\ q.text \in Contents /\ q.doc \in DOMAIN Histories

\* The editor is read-only exactly while a version is viewed or its host holds it
\* read-only, in whatever order views, exits, reverts and late answers come.  A
\* host that changes readonly after attach is outside of it: the exit restores
\* what attach captured.
LockMatches == attached /\ ~readonly.changed => locked = (viewing \/ readonly.now)

\* The two texts a diff relates, read back from its lines.
SideOf(lines, type) ==
    LET kept == SelectSeq(lines, LAMBDA l : l.type \in {"unchanged", type})
    IN  [k \in DOMAIN kept |-> kept[k].line]

\* The size of a largest common subsequence, by its definition.
Common(a, b) ==
    Max({Cardinality(P) : P \in {Q \in SUBSET ((DOMAIN a) \X (DOMAIN b)) :
            /\ \A x \in Q : a[x[1]] = b[x[2]]
            /\ \A x, y \in Q : x # y => (x[1] < y[1] /\ x[2] < y[2]) \/ (x[1] > y[1] /\ x[2] > y[2])}})

\* A computed diff is one of the versions it was asked for: its removed and
\* unchanged lines are the old text, its added and unchanged lines the new one,
\* and no diff keeps more lines.
DiffCorrect ==
    diffResult # Null =>
        LET a == Content(diffResult.of[1])
            b == Content(diffResult.of[2])
        IN  /\ SideOf(diffResult.lines, "removed") = a
            /\ SideOf(diffResult.lines, "added") = b
            /\ Cardinality({k \in DOMAIN diffResult.lines : diffResult.lines[k].type = "unchanged"})
                 = Common(a, b)

\* Whatever the panel lists, selects or compares, and whatever a request asks
\* for, is stored in the history of its document, although lists, answers and
\* documents change independently (VersionManager, VersionPanel).
OnlyStored ==
    LET asked == UNION {ToSet(q.vs) : q \in pending}
        compared == IF diffResult = Null THEN {} ELSE ToSet(diffResult.of)
        named == versions \cup asked \cup compared \cup {selected, panel.from, panel.to}
    IN  \A v \in named \ {Null} : v.doc \in DOMAIN store /\ v.id \in DOMAIN store[v.doc]

\* The panel compares two different versions: whatever is clicked, a second
\* version is never chosen without a first, nor twice the same.
TwoToCompare == panel.to # Null => panel.from \notin {Null, panel.to}

\* Viewing is read-only: entering a version view leaves a document that has
\* content as it is, whatever answers arrive.
ViewKeepsDocument ==
    [][viewing' /\ selected' # selected /\ live # <<>> => live' = live]_versionsVars

====
