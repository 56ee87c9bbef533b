---- MODULE DocObservers ----
(***************************************************************************)
(* What hangs on the update events of the editor's document: live blame    *)
(* (frontend/src/collab/blame-coordinator.ts, blame-engine.ts) and the     *)
(* automatic snapshots of VersionManager (version-manager.ts), attached and*)
(* detached together (multi-editor.ts).  Version blame shares live blame's *)
(* decorations.                                                            *)
(*                                                                         *)
(* The document is its list of items, each with its author and tombstone   *)
(* mark.  When leaving Suggest Mode replaces the editor document, the      *)
(* observers stay with the document they were attached to.                 *)
(***************************************************************************)
EXTENDS Integers, Arrays

CONSTANTS
    Clients,    \* authors of items
    UserOf,     \* the user name each client announces through awareness
    Threshold,  \* autoSnapshotUpdates
    MaxItems,   \* items of a document (bound)
    MaxEdits    \* updates of a document (bound)

ASSUME ObserversAssumption == Threshold \in Nat \ {0} /\ MaxItems \in Nat /\ MaxEdits \in Nat

VARIABLES
    observing,  \* the coordinators are attached
    items,     \* the items of the document they are attached to
    replaced,  \* the user no longer sees that document
    present,   \* the clients in awareness
    edits,     \* updates of that document so far
    blaming,    \* blame toggle
    timer,     \* the 300 ms update of live blame is due
    blamingVersion,   \* a version is viewed
    decorated,     \* decorations: what they are, their segments and the names used
    log,       \* entries of the live blame log in localStorage
    updates,   \* _updateCount
    inFlight,  \* _snapshotInFlight
    captured,  \* history: updates in the last snapshot sent
    missed     \* history: a snapshot failed, or was due while one was in flight

observersVars == <<observing, items, replaced, present, edits, blaming, timer, blamingVersion, decorated, log, updates,
          inFlight, captured, missed>>

blameVars == <<blaming, timer, blamingVersion, decorated, log>>
snapshotVars == <<updates, inFlight, captured, missed>>

----
(***************************************************************************)
(* Segments of the live document.                                          *)
(***************************************************************************)

\* clientToUser.get(client), or user-<client>.
Name(c, names) == IF c \in names THEN UserOf[c] ELSE c

\* Mutant: tombstones count as text.
ExtractBlameDeleted(list, names) ==
    FoldLeft(LAMBDA segs, item :
                 LET name == Name(item.client, names)
                     offset == IF segs = <<>> THEN 0 ELSE Last(segs).end
                 IN  IF segs # <<>> /\ Last(segs).name = name
                     THEN [segs EXCEPT ![Len(segs)].end = @ + 1]
                     ELSE Append(segs, [start |-> offset, end |-> offset + 1, name |-> name]),
             <<>>, list)

\* _extractBlameFromText: one pass over the items, extending the last segment
\* while the name stays the same.
ExtractBlame(list, names) ==
    FoldLeft(LAMBDA segs, item :
                 IF item.deleted THEN segs
                 ELSE LET name == Name(item.client, names)
                          offset == IF segs = <<>> THEN 0 ELSE Last(segs).end
                      IN  IF segs # <<>> /\ Last(segs).name = name
                          THEN [segs EXCEPT ![Len(segs)].end = @ + 1]
                          ELSE Append(segs, [start |-> offset, end |-> offset + 1, name |-> name]),
             <<>>, list)

Decoration(kind, names) ==
    [kind |-> kind, names |-> names,
     segments |-> IF kind = "live" THEN ExtractBlame(items, names) ELSE <<>>]
NoDecoration == Decoration("off", {})

ObserversInit ==
    /\ observing = TRUE
    /\ items = <<>>
    /\ replaced = FALSE
    /\ present = Clients
    /\ edits = 0
    /\ blaming = FALSE /\ timer = FALSE /\ blamingVersion = FALSE
    /\ decorated = NoDecoration
    /\ log = 0
    /\ updates = 0 /\ inFlight = FALSE /\ captured = 0 /\ missed = FALSE

----
(***************************************************************************)
(* Updates.                                                                *)
(***************************************************************************)

\* The log entry of an update; a full storage drops the older half, then this
\* entry too.
Logged(n) == {n + 1, (n + 1) - (n + 1) \div 2, n}

\* _autoSnapshot returns at once while a snapshot is in flight.
AutoSnapshot(rev) ==
    IF inFlight
    THEN missed' = TRUE /\ UNCHANGED <<inFlight, captured>>
    ELSE inFlight' = TRUE /\ captured' = rev /\ UNCHANGED missed

\* The three update observers.
Observed ==
    /\ timer' = blaming
    /\ IF blaming THEN log' \in Logged(log) ELSE UNCHANGED log
    /\ IF updates + 1 < Threshold
       THEN updates' = updates + 1 /\ UNCHANGED <<inFlight, captured, missed>>
       ELSE updates' = 0 /\ AutoSnapshot(edits + 1)

\* A user inserts or deletes.
EditDocument ==
    /\ observing /\ ~replaced /\ edits < MaxEdits
    /\ \/ \E c \in Clients, i \in 1 .. Len(items) + 1 :
             Len(items) < MaxItems /\ items' = InsertAt(items, i, [client |-> c, deleted |-> FALSE])
       \/ \E i \in DOMAIN items : ~items[i].deleted /\ items' = [items EXCEPT ![i].deleted = TRUE]
    /\ edits' = edits + 1
    /\ Observed
    /\ UNCHANGED <<observing, replaced, present, blaming, blamingVersion, decorated>>

\* A user comes or goes; nothing observes awareness for blame.
AwarenessChange(c) ==
    /\ observing
    /\ present' = IF c \in present THEN present \ {c} ELSE present \cup {c}
    /\ UNCHANGED <<observing, items, replaced, edits, blameVars, snapshotVars>>

\* Suggest Mode's exit replaces the editor document; no observer is moved.
EditorDocReset ==
    /\ observing /\ ~replaced
    /\ replaced' = TRUE
    /\ UNCHANGED <<observing, items, present, edits, blameVars, snapshotVars>>

----
(***************************************************************************)
(* Snapshots.                                                              *)
(***************************************************************************)

\* Mutant: the count survives a timed snapshot.
MinuteTimerKeepsCount ==
    /\ observing /\ updates > 0
    /\ AutoSnapshot(edits)
    /\ UNCHANGED <<observing, items, replaced, present, edits, blameVars, updates>>

MinuteTimer ==
    /\ observing /\ updates > 0
    /\ updates' = 0
    /\ AutoSnapshot(edits)
    /\ UNCHANGED <<observing, items, replaced, present, edits, blameVars>>

\* The snapshot is stored, or fails; either way it is over.
SnapshotDone ==
    /\ inFlight
    /\ inFlight' = FALSE
    /\ missed' \in {missed, TRUE}
    /\ UNCHANGED <<observing, items, replaced, present, edits, blameVars, updates, captured>>

----
(***************************************************************************)
(* Decorations.                                                            *)
(***************************************************************************)

\* updateBlame is ignored while blame is not enabled on the editors.
UpdateBlame == IF decorated.kind = "off" THEN decorated ELSE Decoration("live", present)

ToggleOn ==
    /\ observing /\ ~blaming
    /\ blaming' = TRUE
    /\ decorated' = Decoration("live", present)
    /\ UNCHANGED <<observing, items, replaced, present, edits, timer, blamingVersion, log, snapshotVars>>

StopBlame ==
    /\ timer' = FALSE
    /\ log' = 0
    /\ decorated' = NoDecoration

ToggleOff ==
    /\ observing /\ blaming
    /\ blaming' = FALSE
    /\ StopBlame
    /\ UNCHANGED <<observing, items, replaced, present, edits, blamingVersion, snapshotVars>>

\* The debounce timer fires.
BlameUpdate ==
    /\ timer
    /\ timer' = FALSE
    /\ decorated' = UpdateBlame
    /\ UNCHANGED <<observing, items, replaced, present, edits, blaming, blamingVersion, log, snapshotVars>>

\* The new surface is decorated at once.
ModeSwitch ==
    /\ observing /\ blaming
    /\ decorated' = UpdateBlame
    /\ UNCHANGED <<observing, items, replaced, present, edits, blaming, timer, blamingVersion, log,
                   snapshotVars>>

\* A version is viewed; its blame is drawn if it has any.
ViewVersion ==
    /\ observing
    /\ blamingVersion' = TRUE
    /\ decorated' \in {decorated, Decoration("version", {})}
    /\ UNCHANGED <<observing, items, replaced, present, edits, blaming, timer, log, snapshotVars>>

\* Leaving the view takes all decorations off.
ExitVersionBlame ==
    /\ observing /\ blamingVersion
    /\ blamingVersion' = FALSE
    /\ decorated' = NoDecoration
    /\ UNCHANGED <<observing, items, replaced, present, edits, blaming, timer, log, snapshotVars>>

----
(***************************************************************************)
(* Attaching and detaching.                                                *)
(***************************************************************************)

\* Both coordinators; a snapshot in flight finds its manager destroyed.
DetachObservers ==
    /\ observing
    /\ observing' = FALSE
    /\ blaming' = FALSE
    /\ blamingVersion' = FALSE
    /\ StopBlame
    /\ UNCHANGED <<items, replaced, present, edits, snapshotVars>>

\* To another document, with a manager of its own.
AttachObservers ==
    /\ ~observing
    /\ observing' = TRUE
    /\ items' = <<>> /\ edits' = 0 /\ replaced' = FALSE
    /\ updates' = 0 /\ inFlight' = FALSE /\ captured' = 0 /\ missed' = FALSE
    /\ UNCHANGED <<present, blameVars>>

ObserversNext ==
    \/ EditDocument
    \/ \E c \in Clients : AwarenessChange(c)
    \/ EditorDocReset
    \/ MinuteTimer \/ SnapshotDone
    \/ ToggleOn \/ ToggleOff \/ BlameUpdate \/ ModeSwitch
    \/ ViewVersion \/ ExitVersionBlame
    \/ DetachObservers \/ AttachObservers

ObserversSpec == ObserversInit /\ [][ObserversNext]_observersVars

----
(***************************************************************************)
(* Properties.                                                             *)
(***************************************************************************)

\* Types of the variables.
ObserversTypeOK ==
    /\ observing \in BOOLEAN /\ replaced \in BOOLEAN
    /\ Len(items) <= MaxItems /\ \A i \in DOMAIN items : items[i].client \in Clients
    /\ present \subseteq Clients
    /\ edits \in 0 .. MaxEdits /\ captured \in 0 .. MaxEdits /\ log \in 0 .. MaxEdits
    /\ blaming \in BOOLEAN /\ timer \in BOOLEAN /\ blamingVersion \in BOOLEAN
    /\ decorated.kind \in {"off", "live", "version"} /\ decorated.names \subseteq Clients
    /\ updates \in 0 .. Threshold - 1
    /\ inFlight \in BOOLEAN /\ missed \in BOOLEAN

\* The authors of the visible characters, by definition.
Authors(names) ==
    LET visible == SelectSeq(items, LAMBDA item : ~item.deleted)
    IN  [i \in DOMAIN visible |-> Name(visible[i].client, names)]

\* Blame is exact: the segments tile the visible text from its start, each
\* character lies in a segment with its author's name, and no two neighbours
\* could be one, whichever users are present and share a name.
BlameExact ==
    LET segs == ExtractBlame(items, present)
        authors == Authors(present)
    IN  /\ Len(authors) = IF segs = <<>> THEN 0 ELSE Last(segs).end
        /\ \A k \in DOMAIN segs :
              /\ segs[k].start = (IF k = 1 THEN 0 ELSE segs[k - 1].end)
              /\ \A i \in segs[k].start + 1 .. segs[k].end : authors[i] = segs[k].name
              /\ k > 1 => segs[k].name # segs[k - 1].name

\* Live blame drawn with no update due is that of the document as it is, under
\* the names of its last computation.
BlameFresh ==
    decorated.kind = "live" /\ ~timer => decorated.segments = ExtractBlame(items, decorated.names)

\* Decorations match what switched them on: live blame is drawn only while the
\* toggle is on, a version's only while one is viewed; the log and the timer
\* belong to live blame and go with it, through any order of views and toggles.
BlameMatches ==
    /\ decorated.kind = "live" => blaming /\ observing
    /\ decorated.kind = "version" => blamingVersion
    /\ timer \/ log > 0 => blaming

\* No update is forgotten: each is in a snapshot that was sent or counts towards
\* the next, unless a snapshot failed or fell due while one was in flight.
SnapshotDue == missed \/ edits - captured = updates

====
