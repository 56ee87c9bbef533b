---- MODULE EditorBinding ----
(***************************************************************************)
(* The two-surface editor of a Markdown or HTML document: a WYSIWYG editor *)
(* (Tiptap) and a source editor (CodeMirror) over one Y.Text               *)
(* (frontend/src/bindings/dual-mode-binding.ts, collab/text-binding.ts,    *)
(* bindings/_source-editor.ts, bindings/_wysiwyg-editor.ts).               *)
(*                                                                         *)
(* CodeMirror follows Y.Text key by key.  Tiptap holds a parsed document:  *)
(* TextBinding re-parses Y.Text into it after every change of another, and *)
(* writes its serialization back 100 ms after the user's last edit.  A text*)
(* is a sequence of blocks; a block typed in the source editor is raw until*)
(* Tiptap has serialized it, which normalizes every block.                 *)
(*                                                                         *)
(* The microtask that re-parses runs before any other event, so a change of*)
(* Y.Text and its application to Tiptap are one step.                      *)
(***************************************************************************)
EXTENDS Integers, FiniteSetsExt, Arrays

CONSTANTS
    Mine,       \* names of the blocks this user writes
    Theirs,     \* names of the blocks others write
    Diagram,    \* name of a Mermaid block
    Saved,      \* name of a Mermaid block as the dialog saves it
    MaxBlocks   \* blocks in a text (bound)

VARIABLES
    mounted,      \* the binding is mounted
    mode,         \* the active surface; TextBinding is paused in "source"
    readonly,     \* setReadonly
    ytext,        \* the shared Y.Text
    codemirror,   \* the source editor's document
    tiptap,       \* the names of the blocks in Tiptap's document
    lastApplied,  \* _lastAppliedFromYText
    syncTimer,    \* the write-back timer is armed
    rebound,      \* the bound Y.Text is no longer the collaboration context's
    editRange,    \* _mermaidEditRange: the position of the block, 0 for none
    edited,       \* history: the user has edited Tiptap since it was last set
    typed,        \* history: blocks typed in Tiptap and erased by nobody since
    lost,         \* history: of these, the ones a cancelled or skipped write-back
                  \* or a misplaced diagram took
    skipped       \* history: the last write-back was skipped as an echo

vars == <<mounted, mode, readonly, ytext, codemirror, tiptap, lastApplied, syncTimer,
          rebound, editRange, edited, typed, lost, skipped>>

Names == Mine \cup Theirs \cup {Diagram, Saved}

Block(name, raw) == [name |-> name, raw |-> raw]
NamesOf(text) == [i \in DOMAIN text |-> text[i].name]

\* What Tiptap serializes: no block is raw.
Serialized(names) == [i \in DOMAIN names |-> Block(names[i], FALSE)]

Init ==
    /\ mounted = TRUE
    /\ mode \in {"wysiwyg", "source"}
    /\ readonly = FALSE
    /\ ytext \in {<<>>} \cup {<<Block(n, raw)>> : n \in Theirs \cup {Diagram}, raw \in BOOLEAN}
    /\ codemirror = ytext
    /\ tiptap = NamesOf(ytext)
    /\ lastApplied = NamesOf(ytext)
    /\ syncTimer = FALSE
    /\ rebound = FALSE
    /\ editRange = 0
    /\ edited = FALSE
    /\ typed = {}
    /\ lost = {}
    /\ skipped = FALSE

----
(***************************************************************************)
(* Y.Text to Tiptap.                                                       *)
(***************************************************************************)

\* Blocks of the user that Tiptap has and text has not, when a timer is cleared.
Unwritten(text) == IF syncTimer THEN (ToSet(tiptap) \cap typed) \ ToSet(NamesOf(text)) ELSE {}

\* _applyYTextToEditor: an empty text leaves Tiptap as it is; any other cancels
\* the write-back and replaces Tiptap's document.
ApplyYTextToEditor(text) ==
    IF text = <<>>
    THEN UNCHANGED <<tiptap, lastApplied, syncTimer, edited, lost, skipped>>
    ELSE /\ tiptap' = NamesOf(text)
         /\ lastApplied' = NamesOf(text)
         /\ syncTimer' = FALSE
         /\ edited' = FALSE
         /\ lost' = lost \cup Unwritten(text)
         /\ skipped' = FALSE

\* The observer: TextBinding's own writes are not for it, nor any while paused.
Observed(text) ==
    IF mode = "source"
    THEN UNCHANGED <<tiptap, lastApplied, syncTimer, edited, lost, skipped>>
    ELSE ApplyYTextToEditor(text)

\* yCollab: the source editor, shown or not, follows every change of Y.Text.
YCollab(text) == codemirror' = text

\* A block is inserted into or removed from a text.
Inserted(text) ==
    {InsertAt(text, i, Block(n, raw)) :
        i \in 1 .. Len(text) + 1, n \in Theirs \ ToSet(NamesOf(text)), raw \in BOOLEAN}
Removed(text) == {RemoveAt(text, i) : i \in 1 .. Len(text)}

\* The typed blocks a change of Y.Text to text leaves: it erases the others.
StillTyped(text) == typed \ (ToSet(NamesOf(ytext)) \ ToSet(NamesOf(text)))

\* Another user's edit arrives.
PeerEdit ==
    /\ mounted
    /\ \E text \in Inserted(ytext) \cup Removed(ytext) :
          /\ Len(text) <= MaxBlocks
          /\ ytext' = text
          /\ typed' = StillTyped(text)
          /\ YCollab(text)
          /\ Observed(text)
    /\ UNCHANGED <<mounted, mode, readonly, rebound, editRange>>

\* The user edits the source: yCollab writes to Y.Text at once.
SourceEdit ==
    /\ mounted /\ mode = "source" /\ ~readonly
    /\ \E text \in Removed(ytext)
                     \cup {Append(ytext, Block(n, TRUE)) : n \in Mine \ ToSet(NamesOf(ytext))} :
          /\ Len(text) <= MaxBlocks
          /\ ytext' = text
          /\ typed' = StillTyped(text)
          /\ YCollab(text)
          /\ Observed(text)
    /\ UNCHANGED <<mounted, mode, readonly, rebound, editRange>>

----
(***************************************************************************)
(* Tiptap to Y.Text.                                                       *)
(***************************************************************************)

\* The update handler of a transaction that changes Tiptap's document: it arms
\* the write-back, unless paused.
EditorUpdated(names) ==
    /\ tiptap' = names
    /\ syncTimer' = (mode = "wysiwyg")
    /\ edited' = TRUE

\* The user types a block or erases one.
WysiwygEdit ==
    /\ mounted /\ mode = "wysiwyg" /\ ~readonly
    /\ \/ \E n \in Mine \ ToSet(tiptap), i \in 1 .. Len(tiptap) + 1 :
             /\ Len(tiptap) < MaxBlocks
             /\ EditorUpdated(InsertAt(tiptap, i, n))
             /\ typed' = typed \cup {n}
             /\ lost' = lost \ {n}
       \/ \E i \in 1 .. Len(tiptap) :
             /\ EditorUpdated(RemoveAt(tiptap, i))
             /\ typed' = typed \ {tiptap[i]}
             /\ UNCHANGED lost
    /\ UNCHANGED <<mounted, mode, readonly, ytext, codemirror, lastApplied, rebound, editRange, skipped>>

\* The lengths of the longest common prefix and, of what is left, suffix.
PrefixLen(old, new) ==
    CHOOSE n \in 0 .. Min({Len(old), Len(new)}) :
        /\ \A i \in 1 .. n : old[i] = new[i]
        /\ n = Min({Len(old), Len(new)}) \/ old[n + 1] # new[n + 1]

\* Mutant: the suffix may overlap the prefix.
SuffixLenOverlaps(old, new, prefix) ==
    CHOOSE n \in 0 .. Min({Len(old), Len(new)}) :
        /\ \A i \in 0 .. n - 1 : old[Len(old) - i] = new[Len(new) - i]
        /\ n = Min({Len(old), Len(new)}) \/ old[Len(old) - n] # new[Len(new) - n]

SuffixLen(old, new, prefix) ==
    CHOOSE n \in 0 .. Min({Len(old), Len(new)}) - prefix :
        /\ \A i \in 0 .. n - 1 : old[Len(old) - i] = new[Len(new) - i]
        /\ n = Min({Len(old), Len(new)}) - prefix \/ old[Len(old) - n] # new[Len(new) - n]

\* Mutant: the inserted text ends one too early.
ApplyStringDiffShort(old, new) ==
    LET prefix == PrefixLen(old, new)
        suffix == SuffixLen(old, new, prefix)
    IN  SubSeq(old, 1, prefix)
            \o SubSeq(new, prefix + 1, Len(new) - suffix - 1)
            \o SubSeq(old, Len(old) - suffix + 1, Len(old))

\* Y.Text after applyStringDiff: the middle is replaced, the ends are kept.
ApplyStringDiff(old, new) ==
    LET prefix == PrefixLen(old, new)
        suffix == SuffixLen(old, new, prefix)
    IN  SubSeq(old, 1, prefix)
            \o SubSeq(new, prefix + 1, Len(new) - suffix)
            \o SubSeq(old, Len(old) - suffix + 1, Len(old))

\* The timer fires: _applyEditorToYText.
WriteBack ==
    /\ mounted /\ syncTimer
    /\ syncTimer' = FALSE
    /\ LET echo == Serialized(tiptap) # ytext /\ tiptap = lastApplied IN
       /\ ytext' = IF echo THEN ytext ELSE ApplyStringDiff(ytext, Serialized(tiptap))
       /\ YCollab(ytext')
       /\ skipped' = echo
       /\ lost' = IF echo THEN lost \cup Unwritten(ytext) ELSE lost \ ToSet(tiptap)
    /\ UNCHANGED <<mounted, mode, readonly, tiptap, lastApplied, rebound, editRange, edited, typed>>

----
(***************************************************************************)
(* The host's calls.                                                       *)
(***************************************************************************)

\* Mutant: pausing leaves the write-back armed.
ToSourceArmed ==
    /\ mounted /\ mode = "wysiwyg"
    /\ mode' = "source"
    /\ UNCHANGED <<mounted, readonly, ytext, codemirror, tiptap, lastApplied, syncTimer, rebound,
                   editRange, edited, typed, lost, skipped>>

\* switchMode to the source editor: setPaused(true) cancels the write-back.
ToSource ==
    /\ mounted /\ mode = "wysiwyg"
    /\ mode' = "source"
    /\ syncTimer' = FALSE
    /\ lost' = lost \cup Unwritten(ytext)
    /\ UNCHANGED <<mounted, readonly, ytext, codemirror, tiptap, lastApplied, rebound, editRange, edited, typed,
                   skipped>>

\* switchMode to the WYSIWYG editor: setPaused(false) re-parses Y.Text.
ToWysiwyg ==
    /\ mounted /\ mode = "source"
    /\ mode' = "wysiwyg"
    /\ ApplyYTextToEditor(ytext)
    /\ UNCHANGED <<mounted, readonly, ytext, codemirror, rebound, editRange, typed>>

\* The source editor's part of a rebind: detached, its document is replaced.
RebindSource(text) == codemirror' = text

\* rebindSharedText, when the editor document is replaced: retargetYText cancels
\* the write-back and re-parses only if Tiptap differs from the new text.
RebindSharedText(text) ==
    /\ mounted
    /\ ytext' = text
    /\ RebindSource(text)
    /\ IF Serialized(tiptap) # text /\ text # <<>>
       THEN ApplyYTextToEditor(text)
       ELSE /\ syncTimer' = FALSE
            /\ lost' = lost \cup Unwritten(text)
            /\ UNCHANGED <<tiptap, lastApplied, edited, skipped>>
    /\ typed' = StillTyped(text)
    /\ rebound' = TRUE
    /\ UNCHANGED <<mounted, mode, readonly, editRange>>

\* setContent: setCollabContent writes only into an empty text, and into the
\* text of the collaboration context, which a rebind leaves behind.
SetContent(text) ==
    /\ mounted /\ ~rebound /\ ytext = <<>>
    /\ ytext' = text
    /\ YCollab(text)
    /\ Observed(text)
    /\ UNCHANGED <<mounted, mode, readonly, rebound, editRange, typed>>

SetReadonly ==
    /\ mounted
    /\ readonly' = ~readonly
    /\ UNCHANGED <<mounted, mode, ytext, codemirror, tiptap, lastApplied, syncTimer, rebound, editRange,
                   edited, typed, lost, skipped>>

\* The edit button of a diagram: the dialog opens on the block's position.
MermaidEditRequest(i) ==
    /\ mounted /\ mode = "wysiwyg" /\ ~readonly
    /\ i \in 1 .. Len(tiptap) /\ tiptap[i] \in {Diagram, Saved}
    /\ editRange' = i
    /\ UNCHANGED <<mounted, mode, readonly, ytext, codemirror, tiptap, lastApplied, syncTimer, rebound,
                   edited, typed, lost, skipped>>

\* Save replaces what is at that position now, in a hidden Tiptap too; a position
\* past the end throws.
MermaidSave ==
    /\ mounted /\ editRange \in 1 .. Len(tiptap)
    /\ EditorUpdated([tiptap EXCEPT ![editRange] = Saved])
    /\ typed' = typed \cup {Saved}
    /\ lost' = ((lost \cup ({tiptap[editRange]} \cap typed)) \ {Saved})
                 \cup (IF mode = "source" THEN {Saved} ELSE {})
    /\ editRange' = 0
    /\ UNCHANGED <<mounted, mode, readonly, ytext, codemirror, lastApplied, rebound, skipped>>

MermaidCancel ==
    /\ mounted /\ editRange # 0
    /\ editRange' = 0
    /\ UNCHANGED <<mounted, mode, readonly, ytext, codemirror, tiptap, lastApplied, syncTimer, rebound,
                   edited, typed, lost, skipped>>

\* unmount destroys TextBinding, and its timer with it.
Unmount ==
    /\ mounted
    /\ mounted' = FALSE
    /\ syncTimer' = FALSE
    /\ editRange' = 0
    /\ lost' = lost \cup Unwritten(ytext)
    /\ UNCHANGED <<mode, readonly, ytext, codemirror, tiptap, lastApplied, rebound, edited, typed, skipped>>

Next ==
    \/ PeerEdit
    \/ SourceEdit
    \/ WysiwygEdit
    \/ WriteBack
    \/ ToSource
    \/ ToWysiwyg
    \/ \E n \in Theirs : RebindSharedText(<<Block(n, FALSE)>>)
    \/ RebindSharedText(<<>>)
    \/ \E n \in Theirs, raw \in BOOLEAN : SetContent(<<Block(n, raw)>>)
    \/ SetReadonly
    \/ \E i \in 1 .. MaxBlocks : MermaidEditRequest(i)
    \/ MermaidSave
    \/ MermaidCancel
    \/ Unmount

Spec == Init /\ [][Next]_vars

----
(***************************************************************************)
(* Properties.                                                             *)
(***************************************************************************)

Texts == UNION {[1 .. n -> [name : Names, raw : BOOLEAN]] : n \in 0 .. MaxBlocks}
NameSeqs == UNION {[1 .. n -> Names] : n \in 0 .. MaxBlocks}

\* Types of the variables.
TypeOK ==
    /\ mounted \in BOOLEAN /\ readonly \in BOOLEAN /\ mode \in {"wysiwyg", "source"}
    /\ ytext \in Texts /\ codemirror \in Texts
    /\ tiptap \in NameSeqs /\ lastApplied \in NameSeqs
    /\ syncTimer \in BOOLEAN /\ rebound \in BOOLEAN
    /\ editRange \in 0 .. MaxBlocks
    /\ edited \in BOOLEAN /\ skipped \in BOOLEAN
    /\ typed \subseteq Names /\ lost \subseteq Names

\* No echo: what TextBinding itself puts into Tiptap never arms a write-back, so
\* source text is normalized only after a genuine edit, and never by a Tiptap
\* that is hidden behind the source editor.
NoEcho == syncTimer => edited /\ mode = "wysiwyg" /\ mounted

\* The two surfaces agree: the source editor shows the shared text, and with no
\* write-back due so does the visible WYSIWYG editor, but for a text emptied by
\* others, which _applyYTextToEditor ignores, and for an edit skipped as an echo.
SurfacesAgree ==
    mounted => /\ codemirror = ytext
               /\ mode = "wysiwyg" /\ ~syncTimer /\ ytext # <<>> /\ ~skipped
                    => tiptap = NamesOf(ytext)

\* What the user types in the WYSIWYG editor reaches the shared text or is still
\* to be written; what goes missing goes through one of the cancellations
\* (a change of another, a switch, a rebind, an unmount), a misplaced diagram or
\* a write-back skipped as an echo.
TypingKept ==
    typed \subseteq ToSet(NamesOf(ytext)) \cup (IF syncTimer THEN ToSet(tiptap) ELSE {}) \cup lost

\* Raw source is rewritten by write-backs only: no other step normalizes a block.
NormalizedByWriteBack ==
    [][\A i \in DOMAIN ytext :
          /\ ytext[i].raw
          /\ \E j \in DOMAIN ytext' : ytext'[j] = Block(ytext[i].name, FALSE)
          /\ ~ \E j \in DOMAIN ytext : ytext[j] = Block(ytext[i].name, FALSE)
          => (syncTimer /\ edited) \/ rebound']_vars

====
