---------------------------- MODULE SuggestFlow ----------------------------
(***************************************************************************)
(* One browser tab of the editor: the syncDoc/editorDoc pair and the gate  *)
(* between them (doc-replicator.ts, collab-provider.ts), Suggest Mode      *)
(* (suggest-engine.ts), the feature-mode mutex, the active comment thread  *)
(* and the in-place preview of a pending suggestion (multi-editor.ts,      *)
(* comment-coordinator.ts).                                                *)
(*                                                                         *)
(* A text is the set of pieces visible in it.  The editor document is one  *)
(* Yjs client: an insertion that the closed gate drops leaves a hole in    *)
(* that client's clock, and syncDoc keeps every later insertion of the     *)
(* same client as a pending struct that never becomes text ("gap").  A     *)
(* deletion carries no clock and crosses an open gate in any case.         *)
(* JavaScript runs one handler at a time, so a handler is one action.      *)
(***************************************************************************)
EXTENDS FiniteSets

CONSTANTS Base,        \* pieces of the document when the tab is ready
          Local,       \* pieces the user of this tab may type
          Peer,        \* pieces the other users may type
          Threads,     \* comment thread ids
          NoThread     \* "no thread": null in the code

ASSUME SuggestConstants ==
    /\ NoThread \notin Threads
    /\ Base \cap Local = {} /\ Base \cap Peer = {} /\ Local \cap Peer = {}

VARIABLES
    sync,        \* text of syncDoc, the document peers see
    editor,      \* text of editorDoc, the document on the screen
    gate,        \* replicator.outboundOpen
    gap,         \* editorDoc holds an insertion that syncDoc never got
    stray,       \* editorDoc holds an edit that the closed gate dropped
    typed,       \* pieces typed so far (an insertion happens once)
    drafted,     \* pieces this user typed while the gate was closed
    released,    \* pieces of this user in accepted suggestions
    mode,        \* _activeFeatureMode
    enabled,     \* SuggestEngine._enabled
    baseline,    \* SuggestEngine._textAtEnable
    pending,     \* _suggestPendingCount > 0
    noteOpen,    \* _suggestNoteModalOpen
    thread,      \* the threads of the shared Y.Map("comments")
    active,      \* _activeCommentThread's id
    preview,     \* _previewingThreadId; decorations are muted while it is set
    locked,      \* the binding is readonly
    readonly,    \* the host's readonly property
    listOpen,    \* which list panel is open: "none", "comments", "suggestions"
    draft        \* _draftAnchor is set

docs == <<sync, editor, gate, gap, stray>>
hist == <<typed, drafted, released>>
engine == <<enabled, baseline, pending, noteOpen>>
panel == <<active, listOpen, draft>>
lock == <<locked, readonly>>
ui == <<mode, thread, panel, preview, lock>>
vars == <<docs, hist, mode, engine, thread, panel, preview,
          locked, readonly>>

Pieces == Base \cup Local \cup Peer
Modes == {"none", "blame", "suggest", "comments"}

\* A thread: a plain comment or a suggestion that replaces "before" by "after".
\* "rel" tells whether the thread still carries its relative positions.  An id is
\* never used again, so a deleted thread is not an absent one.
Thread(state, before, after, rel) ==
    [state |-> state, open |-> TRUE, rel |-> rel, before |-> before, after |-> after]
Absent == Thread("absent", {}, {}, FALSE)
Deleted == Thread("deleted", {}, {}, FALSE)
Comment == Thread("comment", {}, {}, TRUE)
ThreadRecords ==
    [state : {"absent", "deleted", "comment", "pending", "decided"},
     open : BOOLEAN, rel : BOOLEAN, before : SUBSET Pieces, after : SUBSET Pieces]
Exists(t) == thread[t].state \notin {"absent", "deleted"}

TypeOK ==
    /\ sync \in SUBSET Pieces /\ editor \in SUBSET Pieces
    /\ gate \in BOOLEAN /\ gap \in BOOLEAN /\ stray \in BOOLEAN
    /\ typed \in SUBSET (Local \cup Peer) /\ drafted \in SUBSET Local
    /\ released \in SUBSET Local
    /\ mode \in Modes
    /\ enabled \in BOOLEAN /\ baseline \in SUBSET Pieces
    /\ pending \in BOOLEAN /\ noteOpen \in BOOLEAN
    /\ thread \in [Threads -> ThreadRecords]
    /\ active \in Threads \cup {NoThread}
    /\ preview \in Threads \cup {NoThread}
    /\ locked \in BOOLEAN /\ readonly \in BOOLEAN
    /\ listOpen \in {"none", "comments", "suggestions"}
    /\ draft \in BOOLEAN

\* The tab after _performInit: both documents equal, every feature off.
Init ==
    /\ sync = Base /\ editor = Base /\ gate = TRUE /\ gap = FALSE /\ stray = FALSE
    /\ typed = {} /\ drafted = {} /\ released = {}
    /\ mode = "none"
    /\ enabled = FALSE /\ baseline = {} /\ pending = FALSE /\ noteOpen = FALSE
    /\ thread = [t \in Threads |-> Absent]
    /\ active = NoThread /\ preview = NoThread
    /\ readonly \in BOOLEAN /\ locked = readonly
    /\ listOpen = "none" /\ draft = FALSE

---------------------------------------------------------------------------
(* The parts of the state a handler rewrites together.                     *)

\* resetEditorDoc: a fresh editor document and replicator, seeded from syncDoc.
Docs == [text |-> editor, gate |-> gate, gap |-> gap, stray |-> stray]
ResetDocs == [text |-> sync, gate |-> TRUE, gap |-> FALSE, stray |-> FALSE]
GatedReset == [ResetDocs EXCEPT !.gate = FALSE]
SetDocs(d) == editor' = d.text /\ gate' = d.gate /\ gap' = d.gap /\ stray' = d.stray

HasPending == enabled /\ editor # baseline

\* resolveAnchor finds a position unless the thread lost its relative
\* positions and the quoted text is gone from syncText.
Resolved(t) ==
    \/ thread[t].rel
    \/ thread[t].before = {}
    \/ thread[t].before \subseteq sync

\* tryApplyTextSuggestion on a text.
Applied(text, t) ==
    IF Resolved(t) THEN (text \ thread[t].before) \cup thread[t].after ELSE text

\* _activateFeatureMode("comments") discards a Suggest Mode draft.
DocsAfterClaim == IF mode = "suggest" THEN ResetDocs ELSE Docs

EngineOff == enabled' = FALSE /\ baseline' = {} /\ pending' = FALSE /\ UNCHANGED noteOpen
EngineOn(text) == enabled' = TRUE /\ baseline' = text
EngineAfterClaim == IF mode = "suggest" THEN EngineOff ELSE UNCHANGED engine

PreviewOver == preview' = NoThread /\ locked' = readonly

\* The content-change callback recomputes the pending count, unless a preview is
\* on the screen.
Recount(text) ==
    pending' = IF preview = NoThread /\ enabled THEN text # baseline ELSE pending

---------------------------------------------------------------------------
(* Edits.                                                                  *)

\* Mutant: the replicator forwards every editor update, gate or no gate.
TypeUngated(p) ==
    /\ ~ locked /\ ~ noteOpen
    /\ p \in Local \ typed
    /\ typed' = typed \cup {p}
    /\ editor' = editor \cup {p}
    /\ sync' = sync \cup {p}
    /\ drafted' = IF gate THEN drafted ELSE drafted \cup {p}
    /\ Recount(editor')
    /\ UNCHANGED <<gate, gap, stray, released, enabled, baseline, noteOpen, ui>>

\* The user types a piece.  Through an open gate it reaches syncDoc, where it is
\* text only if the client's clock has no hole; a closed gate drops it.
Type(p) ==
    /\ ~ locked /\ ~ noteOpen
    /\ p \in Local \ typed
    /\ typed' = typed \cup {p}
    /\ editor' = editor \cup {p}
    /\ sync' = IF gate /\ ~ gap THEN sync \cup {p} ELSE sync
    /\ gap' = (gap \/ ~ gate) /\ stray' = (stray \/ ~ gate)
    /\ drafted' = IF gate THEN drafted ELSE drafted \cup {p}
    /\ Recount(editor')
    /\ UNCHANGED <<gate, released, enabled, baseline, noteOpen, ui>>

\* The user deletes (or undoes) a piece that is on the screen.
Erase(p) ==
    /\ ~ locked /\ ~ noteOpen
    /\ p \in editor
    /\ editor' = editor \ {p}
    /\ sync' = IF gate THEN sync \ {p} ELSE sync
    /\ stray' = (stray \/ ~ gate)
    /\ Recount(editor')
    /\ UNCHANGED <<gate, gap, hist, enabled, baseline, noteOpen, ui>>

\* Mutant: the inbound listener of a replaced replicator is gone, so the peer's
\* edit stays on syncDoc.
PeerInsertNotMirrored(p) ==
    /\ p \in Peer \ typed
    /\ typed' = typed \cup {p}
    /\ sync' = sync \cup {p}
    /\ UNCHANGED <<editor, pending, gate, gap, stray, drafted, released, enabled,
                   baseline, noteOpen, ui>>

\* An edit of another user arrives on syncDoc and is mirrored to the editor.
PeerInsert(p) ==
    /\ p \in Peer \ typed
    /\ typed' = typed \cup {p}
    /\ sync' = sync \cup {p}
    /\ editor' = editor \cup {p}
    /\ Recount(editor')
    /\ UNCHANGED <<gate, gap, stray, drafted, released, enabled, baseline, noteOpen, ui>>

PeerErase(p) ==
    /\ p \in sync
    /\ sync' = sync \ {p}
    /\ editor' = editor \ {p}
    /\ Recount(editor')
    /\ UNCHANGED <<gate, gap, stray, hist, enabled, baseline, noteOpen, ui>>

---------------------------------------------------------------------------
(* Suggest Mode.                                                           *)

\* _handleSuggestToggle(true).  The toolbar offers it outside blame and comments
\* mode only, so _activateFeatureMode has nothing to tear down.
SuggestOn ==
    /\ mode = "none" /\ ~ noteOpen
    /\ mode' = "suggest"
    /\ EngineOn(editor)
    /\ gate' = FALSE
    /\ UNCHANGED <<sync, editor, gap, stray, hist, pending, noteOpen, thread, panel,
                   preview, lock>>

\* buildSuggestion: the difference between the text on the screen and the one at
\* enable, whoever made it.
Payload == [before |-> baseline \ editor, after |-> editor \ baseline]

\* commitSuggestion wraps the payload into a new thread on syncDoc.
SuggestionThread(payload) == Thread("pending", payload.before, payload.after, TRUE)

\* _commitPendingSuggestion.
CommitTo(t) ==
    /\ thread[t] = Absent
    /\ thread' = [thread EXCEPT ![t] = SuggestionThread(Payload)]

\* Mutant: leaving Suggest Mode reopens the gate without the reset.
SuggestOffPendingNoReset ==
    /\ mode = "suggest" /\ ~ noteOpen
    /\ HasPending
    /\ UNCHANGED thread \/ \E t \in Threads : CommitTo(t)
    /\ SetDocs([Docs EXCEPT !.gate = TRUE])
    /\ EngineOff
    /\ mode' = "none"
    /\ UNCHANGED <<sync, hist, panel, preview, lock>>

\* _handleSuggestToggle(false) with a pending draft: submit it or discard it, as
\* the user answers; both reset the editor document.
SuggestOffPending ==
    /\ mode = "suggest" /\ ~ noteOpen
    /\ HasPending
    /\ UNCHANGED thread \/ \E t \in Threads : CommitTo(t)
    /\ SetDocs(ResetDocs)
    /\ EngineOff
    /\ mode' = "none"
    /\ UNCHANGED <<sync, hist, panel, preview, lock>>

\* _handleSuggestToggle(false) with the text as it was at enable: disable()
\* reopens the gate on the same editor document.
SuggestOffClean ==
    /\ mode = "suggest" /\ ~ noteOpen
    /\ ~ HasPending
    /\ gate' = TRUE
    /\ EngineOff
    /\ mode' = "none"
    /\ UNCHANGED <<sync, editor, gap, stray, hist, thread, panel, preview, lock>>

\* _handleSuggestSubmit: the Submit button opens the note dialog.
SuggestSubmit ==
    /\ mode = "suggest" /\ pending /\ ~ noteOpen
    /\ HasPending
    /\ noteOpen' = TRUE
    /\ UNCHANGED <<docs, hist, enabled, baseline, pending, ui>>

\* _handleSuggestNoteConfirm: commit if something is still pending, then enable
\* again from the reset text.  enable() does nothing while still enabled.
NoteConfirm ==
    /\ noteOpen
    /\ noteOpen' = FALSE
    /\ IF HasPending
       THEN /\ \E t \in Threads : CommitTo(t)
            /\ SetDocs(GatedReset)
            /\ EngineOn(sync) /\ pending' = FALSE
       ELSE UNCHANGED <<editor, gate, gap, stray, enabled, baseline, pending, thread>>
    /\ UNCHANGED <<sync, hist, mode, panel, preview, lock>>

NoteCancel ==
    /\ noteOpen
    /\ noteOpen' = FALSE
    /\ UNCHANGED <<docs, hist, enabled, baseline, pending, ui>>

\* Mutant: Discard does not enable the engine again.
SuggestDiscardStaysOff ==
    /\ mode = "suggest" /\ ~ noteOpen
    /\ SetDocs(ResetDocs)
    /\ EngineOff
    /\ UNCHANGED <<sync, hist, ui>>

\* _handleSuggestDiscard: reset and enable again from the reset text.
SuggestDiscard ==
    /\ mode = "suggest" /\ ~ noteOpen
    /\ SetDocs(GatedReset)
    /\ EngineOn(sync) /\ pending' = FALSE
    /\ UNCHANGED <<sync, hist, noteOpen, ui>>

---------------------------------------------------------------------------
(* Blame, the active thread, the list panels, the preview.                 *)

\* _handleBlameToggle: the button is disabled in suggest and comments mode.
BlameToggle ==
    /\ mode \in {"none", "blame"} /\ ~ noteOpen
    /\ mode' = IF mode = "blame" THEN "none" ELSE "blame"
    /\ UNCHANGED <<docs, hist, engine, thread, panel, preview, lock>>

\* _maybeExitCommentsMode.
ExitComments(a, l) == IF mode = "comments" /\ a = NoThread /\ l = "none" THEN "none" ELSE mode

\* _setActiveCommentThread(thread): claim comments mode, end the preview of
\* another thread, then preview this one if its suggestion is pending and its
\* anchor resolves: close the gate, apply the suggestion to the editor document
\* alone, make the binding readonly.
OpenThread(t, list) ==
    LET other == preview \notin {NoThread, t}
        d == IF other THEN ResetDocs ELSE DocsAfterClaim
        show == thread[t].state = "pending" /\ preview # t /\ Resolved(t)
        gapped == d.gap \/ thread[t].after \ d.text # {}
    IN  /\ mode' = "comments" /\ active' = t /\ listOpen' = list
        /\ EngineAfterClaim
        /\ IF show
           THEN /\ SetDocs([text |-> Applied(d.text, t), gate |-> FALSE,
                            gap |-> gapped, stray |-> TRUE])
                /\ preview' = t /\ locked' = TRUE
           ELSE /\ SetDocs(d)
                /\ IF other THEN PreviewOver ELSE UNCHANGED <<preview, locked>>

\* _setActiveCommentThread(null): end the preview, leave comments mode when the
\* list panels are closed too.  (The preview's own re-entry into Suggest Mode
\* needs both at once, which the toolbar does not allow.)
CloseThread ==
    /\ active' = NoThread
    /\ mode' = ExitComments(NoThread, listOpen)
    /\ IF preview # NoThread
       THEN SetDocs(ResetDocs) /\ PreviewOver
       ELSE UNCHANGED <<editor, gate, gap, stray, preview, locked>>
    /\ UNCHANGED <<engine, listOpen>>

\* A click on an anchor in the text.
ThreadActivated(t) ==
    /\ ~ noteOpen
    /\ Exists(t)
    /\ OpenThread(t, listOpen)
    /\ UNCHANGED <<sync, hist, thread, draft, readonly>>

\* A click on an entry of the open list panel, which closes the panel: the
\* resolved threads, or the pending suggestions.
ListEntryActivated(t) ==
    /\ listOpen # "none" /\ ~ noteOpen
    /\ Exists(t)
    /\ IF listOpen = "comments" THEN ~ thread[t].open
                                ELSE thread[t].open /\ thread[t].state = "pending"
    /\ OpenThread(t, "none")
    /\ UNCHANGED <<sync, hist, thread, draft, readonly>>

PanelClose ==
    /\ active # NoThread /\ ~ noteOpen
    /\ CloseThread
    /\ UNCHANGED <<sync, hist, thread, draft, readonly>>

\* _handleCommentsListToggle / _handleSuggestionsListToggle: opening claims
\* comments mode and closes the other list.
ListOpen(l) ==
    /\ listOpen # l /\ ~ noteOpen
    /\ mode' = "comments" /\ listOpen' = l
    /\ SetDocs(DocsAfterClaim)
    /\ EngineAfterClaim
    /\ UNCHANGED <<sync, hist, thread, active, draft, preview, lock>>

ListClose ==
    /\ listOpen # "none" /\ ~ noteOpen
    /\ listOpen' = "none"
    /\ mode' = ExitComments(active, "none")
    /\ UNCHANGED <<docs, hist, engine, thread, active, draft, preview, lock>>

\* _handleCommentAdd: a draft comment takes the place of the active thread.
CommentAdd ==
    /\ mode \notin {"blame", "suggest"} /\ ~ noteOpen
    /\ draft' = TRUE
    /\ CloseThread
    /\ UNCHANGED <<sync, hist, thread, readonly>>

\* _handleCommentDraftSubmit creates the thread and opens it; the panel shows the
\* draft only while no thread is active.
DraftSubmit(t) ==
    /\ draft /\ active = NoThread /\ ~ noteOpen
    /\ thread[t] = Absent
    /\ thread' = [thread EXCEPT ![t] = Comment]
    /\ draft' = FALSE
    /\ OpenThread(t, listOpen)
    /\ UNCHANGED <<sync, hist, readonly>>

DraftCancel ==
    /\ draft /\ active = NoThread /\ ~ noteOpen
    /\ draft' = FALSE
    /\ UNCHANGED <<docs, hist, mode, engine, thread, active, listOpen, preview, lock>>

\* decideSuggestion (accepted, rejected or not_applicable) also resolves the
\* thread; nothing reads the proposed change of a decided suggestion.
Decided(t) == [thread EXCEPT ![t] = [Thread("decided", {}, {}, TRUE) EXCEPT !.open = FALSE]]

\* _handleCommentSuggestionAccept: close the thread (the preview ends), apply the
\* suggestion to syncText, mark it accepted whether or not its anchor resolved.
\* syncDoc's own client writes the text, so it reaches the editor document from
\* the sync side.
SuggestionAccept ==
    /\ active # NoThread /\ ~ noteOpen
    /\ thread[active].state = "pending"
    /\ LET d == IF preview # NoThread THEN ResetDocs ELSE Docs
       IN  SetDocs([d EXCEPT !.text = Applied(d.text, active)])
    /\ sync' = Applied(sync, active)
    /\ released' = released \cup (thread[active].after \cap Local)
    /\ thread' = Decided(active)
    /\ active' = NoThread
    /\ mode' = ExitComments(NoThread, listOpen)
    /\ IF preview # NoThread THEN PreviewOver ELSE UNCHANGED <<preview, locked>>
    /\ UNCHANGED <<typed, drafted, engine, listOpen, draft, readonly>>

\* _handleCommentSuggestionReject, and Dismiss for an orphaned suggestion.
SuggestionDecline ==
    /\ active # NoThread /\ ~ noteOpen
    /\ thread[active].state = "pending"
    /\ thread' = Decided(active)
    /\ CloseThread
    /\ UNCHANGED <<sync, hist, draft, readonly>>

\* _handleCommentThreadResolve closes the panel; Reopen leaves it.
ThreadResolve ==
    /\ active # NoThread /\ ~ noteOpen
    /\ thread[active].open
    /\ thread' = [thread EXCEPT ![active].open = FALSE]
    /\ CloseThread
    /\ UNCHANGED <<sync, hist, draft, readonly>>

ThreadReopen ==
    /\ active # NoThread /\ ~ noteOpen
    /\ ~ thread[active].open
    /\ thread' = [thread EXCEPT ![active].open = TRUE]
    /\ UNCHANGED <<docs, hist, mode, engine, panel, preview, lock>>

\* The onThreadsChange callback: the active thread, unless it is gone.
Refreshed(gone) == IF active = gone THEN NoThread ELSE active

\* A thread leaves the comments map, by this user's delete button or by a peer.
\* The callback runs inside the deletion and clears _activeCommentThread, so
\* _handleCommentThreadDelete finds no active thread left to close.
ThreadDeleted(t) ==
    /\ Exists(t)
    /\ thread' = [thread EXCEPT ![t] = Deleted]
    /\ active' = Refreshed(t)
    /\ UNCHANGED <<docs, hist, mode, engine, listOpen, draft, preview, lock>>

\* A peer's suggestion arrives, to replace at most one piece by one of theirs.
PeerSuggestion(t) ==
    /\ thread[t] = Absent
    /\ \E p \in Peer \ typed, b \in {{}} \cup {{x} : x \in sync}, rel \in BOOLEAN :
          /\ thread' = [thread EXCEPT ![t] = Thread("pending", b, {p}, rel)]
          /\ typed' = typed \cup {p}
    /\ UNCHANGED <<docs, drafted, released, mode, engine, panel, preview, lock>>

\* A peer accepts or declines a pending suggestion; accepting applies it to the
\* shared text.
PeerAccepts(t) ==
    /\ thread[t].state = "pending"
    /\ thread' = Decided(t)
    /\ sync' = Applied(sync, t) /\ editor' = Applied(editor, t)
    /\ released' = released \cup (thread[t].after \cap Local)
    /\ Recount(editor')
    /\ UNCHANGED <<gate, gap, stray, typed, drafted, mode, enabled, baseline, noteOpen,
                   panel, preview, lock>>

PeerDeclines(t) ==
    /\ thread[t].state = "pending"
    /\ thread' = Decided(t)
    /\ UNCHANGED <<docs, hist, mode, engine, panel, preview, lock>>

\* The host flips the readonly property: updated() passes it to the binding.
HostReadonly ==
    /\ readonly' = ~ readonly
    /\ locked' = ~ readonly
    /\ UNCHANGED <<docs, hist, mode, engine, thread, panel, preview>>

Next ==
    \/ \E p \in Local : Type(p)
    \/ \E p \in Pieces : Erase(p)
    \/ \E p \in Peer : PeerInsert(p)
    \/ \E p \in Pieces : PeerErase(p)
    \/ SuggestOn \/ SuggestOffPending \/ SuggestOffClean
    \/ SuggestSubmit \/ NoteConfirm \/ NoteCancel \/ SuggestDiscard
    \/ BlameToggle
    \/ \E t \in Threads : ThreadActivated(t)
    \/ \E t \in Threads : ListEntryActivated(t)
    \/ PanelClose
    \/ \E l \in {"comments", "suggestions"} : ListOpen(l)
    \/ ListClose
    \/ CommentAdd \/ DraftCancel
    \/ \E t \in Threads : DraftSubmit(t)
    \/ SuggestionAccept
    \/ SuggestionDecline
    \/ ThreadResolve \/ ThreadReopen
    \/ \E t \in Threads : ThreadDeleted(t)
    \/ \E t \in Threads : PeerSuggestion(t)
    \/ \E t \in Threads : PeerAccepts(t)
    \/ \E t \in Threads : PeerDeclines(t)
    \/ HostReadonly

Spec == Init /\ [][Next]_vars

---------------------------------------------------------------------------
(* Properties.                                                             *)

\* Nothing the user typed behind the closed gate (a Suggest Mode draft, or a key
\* stroke during a preview) is ever in the text peers see, unless a suggestion
\* holding it was accepted: not while drafting, and not later through any exit
\* from the mode, any preview or any other thread.
NoDraftLeak == sync \cap drafted \subseteq released

\* Suggest Mode, its engine and its gate agree: the engine is enabled exactly in
\* suggest mode, and then the gate is closed; nothing but Suggest Mode or a
\* preview keeps it closed.
GateOwned ==
    /\ enabled <=> mode = "suggest"
    /\ enabled => ~ gate
    /\ ~ gate => enabled \/ preview # NoThread

\* While the thread under preview is the active one, the gate is closed and
\* comments mode owns the editor.
PreviewGated ==
    preview # NoThread /\ active = preview => ~ gate /\ mode = "comments"

\* Apart from the edits the closed gate dropped since the last reset, the screen
\* shows the shared text.
ScreenIsShared == ~ stray => editor = sync

\* The gate reopens on a document equal to the shared one: submit, discard and
\* the end of a preview all reset first.  The one exit that does not is leaving
\* Suggest Mode with the text as it was at enable.
ReopenedInStep == [][~ gate /\ gate' => editor' = sync' \/ SuggestOffClean]_vars

============================================================================
