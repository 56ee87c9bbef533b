------------------------- MODULE SuggestFlowProofs -------------------------
(***************************************************************************)
(* The gate between the two documents of a tab, proved for any pieces,     *)
(* threads and users.                                                      *)
(***************************************************************************)
EXTENDS SuggestFlow, TLAPS

(* Where the pieces of this user can be: in a text or in a suggestion only *)
(* after they were typed.                                                  *)
DraftInv ==
    /\ drafted \subseteq typed
    /\ (sync \cup editor) \cap Local \subseteq typed
    /\ \A t \in Threads : thread[t].after \cap Local \subseteq typed
    /\ NoDraftLeak

(* Which mode, panel and preview go together.                              *)
ModeInv ==
    /\ GateOwned
    /\ active # NoThread => mode = "comments"
    /\ preview # NoThread => active = preview \/ thread[preview] = Deleted
    /\ PreviewGated

(* A hole in the clock comes from a dropped edit.                          *)
ScreenInv == ScreenIsShared /\ (gap => stray)

(***************************************************************************)
(* Types.                                                                  *)
(***************************************************************************)

(* The records of threads a handler writes are thread records.             *)
LEMMA ThreadType ==
  ASSUME NEW s \in {"absent", "deleted", "comment", "pending", "decided"},
         NEW b \in SUBSET Pieces, NEW a \in SUBSET Pieces, NEW rel \in BOOLEAN
  PROVE  Thread(s, b, a, rel) \in ThreadRecords
  BY Zenon DEF Thread, ThreadRecords

LEMMA FixedThreads ==
  Absent \in ThreadRecords /\ Deleted \in ThreadRecords /\ Comment \in ThreadRecords
  BY Zenon DEF Thread, ThreadRecords, Absent, Deleted, Comment

(* What accepting or previewing a suggestion makes of a text is a text.    *)
LEMMA AppliedType ==
  ASSUME TypeOK, NEW t \in Threads, NEW text \in SUBSET Pieces
  PROVE  Applied(text, t) \in SUBSET Pieces
<1>1. thread[t] \in ThreadRecords
  BY Zenon DEF TypeOK
<1>2. thread[t].after \in SUBSET Pieces
  BY <1>1, Zenon DEF ThreadRecords
<1> QED BY <1>2 DEF Applied

LEMMA DecidedType ==
  ASSUME TypeOK, NEW t \in Threads
  PROVE  Decided(t) \in [Threads -> ThreadRecords]
<1>1. [Thread("decided", {}, {}, TRUE) EXCEPT !.open = FALSE] \in ThreadRecords
  BY Zenon DEF Thread, ThreadRecords
<1> QED BY <1>1 DEF Decided, TypeOK

(* The documents after a handler replaced them.                            *)
DocsOK == editor' \in SUBSET Pieces /\ gate' \in BOOLEAN /\ gap' \in BOOLEAN /\ stray' \in BOOLEAN

LEMMA OpenThreadType ==
  ASSUME TypeOK, NEW t \in Threads, NEW list \in {"none", "comments", "suggestions"},
         OpenThread(t, list)
  PROVE  /\ DocsOK
         /\ mode' \in Modes /\ active' \in Threads /\ listOpen' = list
         /\ enabled' \in BOOLEAN /\ baseline' \in SUBSET Pieces
         /\ pending' \in BOOLEAN /\ noteOpen' \in BOOLEAN
         /\ preview' \in Threads \cup {NoThread} /\ locked' \in BOOLEAN
<1> DEFINE other == preview \notin {NoThread, t}
           d == IF other THEN ResetDocs ELSE DocsAfterClaim
           show == thread[t].state = "pending" /\ preview # t /\ Resolved(t)
<1>1. /\ d.text \in SUBSET Pieces /\ d.gate \in BOOLEAN /\ d.gap \in BOOLEAN
      /\ d.stray \in BOOLEAN
  BY Zenon DEF TypeOK, ResetDocs, DocsAfterClaim, Docs
<1>2. Applied(d.text, t) \in SUBSET Pieces
  BY <1>1, AppliedType, Zenon
<1>3. DocsOK /\ preview' \in Threads \cup {NoThread} /\ locked' \in BOOLEAN
  <2>1. CASE show
    BY <1>1, <1>2, <2>1, Zenon DEF OpenThread, SetDocs, DocsOK
  <2>2. CASE ~ show
    <3>1. SetDocs(d) /\ (IF other THEN PreviewOver ELSE UNCHANGED <<preview, locked>>)
      BY <2>2, Zenon DEF OpenThread
    <3> QED BY <1>1, <3>1 DEF SetDocs, DocsOK, PreviewOver, TypeOK
  <2> QED BY <2>1, <2>2
<1>4. /\ enabled' \in BOOLEAN /\ baseline' \in SUBSET Pieces
      /\ pending' \in BOOLEAN /\ noteOpen' \in BOOLEAN
  BY Zenon DEF OpenThread, EngineAfterClaim, EngineOff, engine, TypeOK
<1> QED BY <1>3, <1>4 DEF OpenThread, Modes

LEMMA CloseThreadType ==
  ASSUME TypeOK, CloseThread
  PROVE  /\ DocsOK
         /\ mode' \in Modes /\ active' = NoThread
         /\ listOpen' = listOpen /\ UNCHANGED engine
         /\ preview' \in Threads \cup {NoThread} /\ locked' \in BOOLEAN
<1>1. DocsOK /\ preview' \in Threads \cup {NoThread} /\ locked' \in BOOLEAN
  BY Zenon DEF CloseThread, SetDocs, ResetDocs, DocsOK, PreviewOver, TypeOK
<1>2. mode' \in Modes
  BY Zenon DEF CloseThread, ExitComments, TypeOK, Modes
<1> QED BY <1>1, <1>2 DEF CloseThread

(* The pending count after a content change.                               *)
LEMMA RecountType ==
  ASSUME TypeOK, NEW text, Recount(text)
  PROVE  pending' \in BOOLEAN
<1>1. CASE preview = NoThread /\ enabled
  <2>1. pending' = (text # baseline)
    BY <1>1, Zenon DEF Recount
  <2> QED BY <2>1
<1>2. CASE ~ (preview = NoThread /\ enabled)
  <2>1. pending' = pending
    BY <1>2, Zenon DEF Recount
  <2> QED BY <2>1 DEF TypeOK
<1> QED BY <1>1, <1>2

(* Every variable of the tab keeps its type.                               *)
LEMMA TypeStep ==
  ASSUME TypeOK, [Next]_vars
  PROVE  TypeOK'
<1> USE DEF docs, hist, engine, panel, lock, ui, Pieces
<1>1. CASE UNCHANGED vars
  BY <1>1 DEF TypeOK, vars
<1>2. ASSUME NEW p \in Local, Type(p) PROVE TypeOK'
  <2>1. pending' \in BOOLEAN
    BY <1>2, RecountType, Zenon DEF Type
  <2> QED BY <1>2, <2>1 DEF TypeOK, Type
<1>3. ASSUME NEW p \in Pieces, Erase(p) PROVE TypeOK'
  <2>1. pending' \in BOOLEAN
    BY <1>3, RecountType, Zenon DEF Erase
  <2> QED BY <1>3, <2>1 DEF TypeOK, Erase
<1>4. ASSUME NEW p \in Peer, PeerInsert(p) PROVE TypeOK'
  <2>1. pending' \in BOOLEAN
    BY <1>4, RecountType, Zenon DEF PeerInsert
  <2> QED BY <1>4, <2>1 DEF TypeOK, PeerInsert
<1>5. ASSUME NEW p \in Pieces, PeerErase(p) PROVE TypeOK'
  <2>1. pending' \in BOOLEAN
    BY <1>5, RecountType, Zenon DEF PeerErase
  <2> QED BY <1>5, <2>1 DEF TypeOK, PeerErase
<1>6. CASE SuggestOn
  BY <1>6, Zenon DEF TypeOK, SuggestOn, EngineOn, Modes
<1>7. ASSUME NEW t \in Threads, CommitTo(t)
      PROVE  thread' \in [Threads -> ThreadRecords]
  <2>1. baseline \ editor \in SUBSET Pieces /\ editor \ baseline \in SUBSET Pieces
    BY Zenon DEF TypeOK
  <2>2. SuggestionThread(Payload) \in ThreadRecords
    BY <2>1, ThreadType, Zenon DEF SuggestionThread, Payload
  <2> QED BY <1>7, <2>2 DEF CommitTo, TypeOK
<1>8. CASE SuggestOffPending
  <2>1. thread' \in [Threads -> ThreadRecords]
    BY <1>7, <1>8, Zenon DEF SuggestOffPending, TypeOK
  <2> QED BY <1>8, <2>1, Zenon DEF TypeOK, SuggestOffPending, SetDocs, ResetDocs, EngineOff, Modes
<1>9. CASE SuggestOffClean
  BY <1>9, Zenon DEF TypeOK, SuggestOffClean, EngineOff, Modes
<1>10. CASE SuggestSubmit
  BY <1>10 DEF TypeOK, SuggestSubmit
<1>11. CASE NoteConfirm
  <2>1. thread' \in [Threads -> ThreadRecords]
    BY <1>7, <1>11, Zenon DEF NoteConfirm, TypeOK
  <2>2. DocsOK /\ enabled' \in BOOLEAN /\ baseline' \in SUBSET Pieces /\ pending' \in BOOLEAN
    <3>1. CASE HasPending
      BY <1>11, <3>1, Zenon DEF TypeOK, DocsOK, NoteConfirm, SetDocs, GatedReset, ResetDocs, EngineOn
    <3>2. CASE ~ HasPending
      BY <1>11, <3>2, Zenon DEF TypeOK, DocsOK, NoteConfirm
    <3> QED BY <3>1, <3>2
  <2> QED BY <1>11, <2>1, <2>2, Zenon DEF TypeOK, DocsOK, NoteConfirm
<1>12. CASE NoteCancel
  <2>1. noteOpen' \in BOOLEAN
    BY <1>12, Zenon DEF NoteCancel
  <2>2. UNCHANGED <<docs, hist, enabled, baseline, pending, ui>>
    BY <1>12, Zenon DEF NoteCancel
  <2> QED BY <2>1, <2>2 DEF TypeOK
<1>13. CASE SuggestDiscard
  BY <1>13, Zenon DEF TypeOK, SuggestDiscard, SetDocs, GatedReset, ResetDocs, EngineOn
<1>14. CASE BlameToggle
  BY <1>14 DEF TypeOK, BlameToggle, Modes
<1>15. ASSUME NEW t \in Threads, ThreadActivated(t) PROVE TypeOK'
  <2>1. listOpen \in {"none", "comments", "suggestions"} /\ OpenThread(t, listOpen)
    BY <1>15, Zenon DEF ThreadActivated, TypeOK
  <2> QED BY <1>15, <2>1, OpenThreadType DEF TypeOK, DocsOK, ThreadActivated
<1>16. ASSUME NEW t \in Threads, ListEntryActivated(t) PROVE TypeOK'
  BY <1>16, OpenThreadType, Zenon DEF TypeOK, DocsOK, ListEntryActivated
<1>17. CASE PanelClose
  BY <1>17, CloseThreadType, Zenon DEF TypeOK, DocsOK, PanelClose
<1>18. ASSUME NEW l \in {"comments", "suggestions"}, ListOpen(l) PROVE TypeOK'
  <2>1. DocsOK /\ enabled' \in BOOLEAN /\ baseline' \in SUBSET Pieces
        /\ pending' \in BOOLEAN /\ noteOpen' \in BOOLEAN
    BY <1>18, Zenon DEF TypeOK, DocsOK, ListOpen, SetDocs, DocsAfterClaim, Docs, ResetDocs,
                 EngineAfterClaim, EngineOff
  <2> QED BY <1>18, <2>1 DEF TypeOK, DocsOK, ListOpen, Modes
<1>19. CASE ListClose
  BY <1>19, Zenon DEF TypeOK, ListClose, ExitComments, Modes
<1>20. CASE CommentAdd
  BY <1>20, CloseThreadType, Zenon DEF TypeOK, DocsOK, CommentAdd
<1>21. CASE DraftCancel
  BY <1>21, Zenon DEF TypeOK, DraftCancel
<1>22. ASSUME NEW t \in Threads, DraftSubmit(t) PROVE TypeOK'
  <2>1. listOpen \in {"none", "comments", "suggestions"} /\ OpenThread(t, listOpen)
    BY <1>22, Zenon DEF DraftSubmit, TypeOK
  <2>2. thread' \in [Threads -> ThreadRecords]
    BY <1>22, FixedThreads, Zenon DEF DraftSubmit, TypeOK
  <2> QED BY <1>22, <2>1, <2>2, OpenThreadType, Zenon DEF TypeOK, DocsOK, DraftSubmit
<1>23. CASE SuggestionAccept
  <2>1. active \in Threads
    BY <1>23, Zenon DEF TypeOK, SuggestionAccept
  <2>2. sync' \in SUBSET Pieces /\ DocsOK
    BY <1>23, <2>1, AppliedType, Zenon DEF SuggestionAccept, SetDocs, Docs, ResetDocs, DocsOK, TypeOK
  <2>3. thread' \in [Threads -> ThreadRecords]
    BY <1>23, <2>1, DecidedType, Zenon DEF SuggestionAccept
  <2>4. preview' \in Threads \cup {NoThread} /\ locked' \in BOOLEAN /\ mode' \in Modes
    BY <1>23, Zenon DEF SuggestionAccept, PreviewOver, ExitComments, Modes, TypeOK
  <2> QED BY <1>23, <2>2, <2>3, <2>4 DEF SuggestionAccept, TypeOK, DocsOK
<1>24. CASE SuggestionDecline
  <2>1. thread' \in [Threads -> ThreadRecords]
    BY <1>24, DecidedType, Zenon DEF SuggestionDecline, TypeOK
  <2> QED BY <1>24, <2>1, CloseThreadType DEF TypeOK, DocsOK, SuggestionDecline
<1>25. ASSUME NEW b \in BOOLEAN
       PROVE  [thread EXCEPT ![active].open = b] \in [Threads -> ThreadRecords]
  <2>1. thread \in [Threads -> ThreadRecords]
    BY Zenon DEF TypeOK
  <2>2. \A x \in ThreadRecords : [x EXCEPT !.open = b] \in ThreadRecords
    BY Zenon DEF ThreadRecords
  <2> QED BY <2>1, <2>2, Zenon
<1>26. CASE ThreadResolve
  <2>1. thread' \in [Threads -> ThreadRecords]
    BY <1>25, <1>26, Zenon DEF ThreadResolve
  <2> QED BY <1>26, <2>1, CloseThreadType DEF TypeOK, DocsOK, ThreadResolve
<1>27. CASE ThreadReopen
  <2>1. thread' \in [Threads -> ThreadRecords]
    BY <1>25, <1>27, Zenon DEF ThreadReopen
  <2> QED BY <1>27, <2>1 DEF TypeOK, ThreadReopen
<1>28. ASSUME NEW t \in Threads, ThreadDeleted(t) PROVE TypeOK'
  BY <1>28, FixedThreads DEF TypeOK, ThreadDeleted, Refreshed
<1>29. ASSUME NEW t \in Threads, PeerSuggestion(t) PROVE TypeOK'
  <2>1. PICK p \in Peer \ typed, b \in {{}} \cup {{x} : x \in sync}, rel \in BOOLEAN :
          /\ thread' = [thread EXCEPT ![t] = Thread("pending", b, {p}, rel)]
          /\ typed' = typed \cup {p}
    BY <1>29, Zenon DEF PeerSuggestion
  <2>2. b \in SUBSET Pieces /\ {p} \in SUBSET Pieces
    BY DEF TypeOK
  <2>3. Thread("pending", b, {p}, rel) \in ThreadRecords
    BY <2>2, ThreadType, Zenon
  <2>4. thread' \in [Threads -> ThreadRecords]
    BY <2>1, <2>3, Zenon DEF TypeOK
  <2> QED BY <1>29, <2>1, <2>4 DEF TypeOK, PeerSuggestion
<1>30. ASSUME NEW t \in Threads, PeerAccepts(t) PROVE TypeOK'
  <2>1. sync' \in SUBSET Pieces /\ editor' \in SUBSET Pieces
    BY <1>30, AppliedType, Zenon DEF PeerAccepts, TypeOK
  <2>2. thread' \in [Threads -> ThreadRecords]
    BY <1>30, DecidedType, Zenon DEF PeerAccepts
  <2>3. pending' \in BOOLEAN
    BY <1>30, RecountType, Zenon DEF PeerAccepts
  <2> QED BY <1>30, <2>1, <2>2, <2>3 DEF PeerAccepts, TypeOK
<1>31. ASSUME NEW t \in Threads, PeerDeclines(t) PROVE TypeOK'
  BY <1>31, DecidedType DEF PeerDeclines, TypeOK
<1>32. CASE HostReadonly
  BY <1>32 DEF HostReadonly, TypeOK
<1> QED BY <1>1, <1>2, <1>3, <1>4, <1>5, <1>6, <1>8, <1>9, <1>10, <1>11, <1>12, <1>13,
           <1>14, <1>15, <1>16, <1>17, <1>18, <1>19, <1>20, <1>21, <1>22, <1>23, <1>24,
           <1>26, <1>27, <1>28, <1>29, <1>30, <1>31, <1>32 DEF Next

(* The types of every reachable state of the tab.                          *)
THEOREM TypeCorrect == Spec => []TypeOK
<1>1. Init => TypeOK
  BY FixedThreads, Zenon DEF Init, TypeOK, Pieces, Modes
<1> QED BY <1>1, TypeStep, PTL DEF Spec

(***************************************************************************)
(* The invariants.                                                         *)
(***************************************************************************)

(* A suggestion that is applied brings along the pieces of its "after".    *)
LEMMA AppliedPieces ==
  ASSUME NEW t \in Threads, NEW text
  PROVE  Applied(text, t) \subseteq text \cup thread[t].after
  BY Zenon DEF Applied

(* Opening a thread puts its own suggestion on the screen, or the shared   *)
(* text, or leaves the screen.                                             *)
LEMMA OpenThreadText ==
  ASSUME NEW t \in Threads, NEW list, OpenThread(t, list)
  PROVE  editor' \subseteq sync \cup editor \cup thread[t].after
<1> DEFINE other == preview \notin {NoThread, t}
           d == IF other THEN ResetDocs ELSE DocsAfterClaim
           show == thread[t].state = "pending" /\ preview # t /\ Resolved(t)
<1>1. d.text = sync \/ d.text = editor
  BY Zenon DEF ResetDocs, DocsAfterClaim, Docs
<1>2. CASE show
  <2>1. editor' = Applied(d.text, t)
    BY <1>2, Zenon DEF OpenThread, SetDocs
  <2> QED BY <1>1, <2>1, AppliedPieces
<1>3. CASE ~ show
  <2>1. editor' = d.text
    BY <1>3, Zenon DEF OpenThread, SetDocs
  <2> QED BY <1>1, <2>1
<1> QED BY <1>2, <1>3

LEMMA CloseThreadText ==
  ASSUME CloseThread
  PROVE  editor' \subseteq sync \cup editor
  BY Zenon DEF CloseThread, SetDocs, ResetDocs

(* What a suggestion proposes when it is decided, opened or closed.        *)
LEMMA DecidedAfter ==
  ASSUME TypeOK, NEW t \in Threads, thread' = Decided(t)
  PROVE  \A u \in Threads : thread'[u].after \subseteq thread[u].after
  BY Zenon DEF Decided, Thread, TypeOK

LEMMA OpenAfter ==
  ASSUME TypeOK, NEW t \in Threads, NEW b, thread' = [thread EXCEPT ![t].open = b]
  PROVE  \A u \in Threads : thread'[u].after = thread[u].after
  BY Zenon DEF TypeOK, ThreadRecords

LEMMA CommitAfter ==
  ASSUME TypeOK, NEW t \in Threads, CommitTo(t)
  PROVE  \A u \in Threads : thread'[u].after \subseteq thread[u].after \cup editor
  BY Zenon DEF TypeOK, CommitTo, SuggestionThread, Payload, Thread

(* DraftInv is kept by a handler that types nothing and releases what it   *)
(* adds to the shared text.                                                *)
LEMMA DraftFrame ==
  ASSUME TypeOK, DraftInv, typed \subseteq typed', drafted' = drafted,
         released \subseteq released',
         sync' \cap drafted \subseteq sync \cup released',
         (sync' \cup editor') \cap Local \subseteq typed',
         \A t \in Threads : thread'[t].after \cap Local \subseteq typed'
  PROVE  DraftInv'
  BY Zenon DEF DraftInv, NoDraftLeak

(* One step per handler; most type nothing and leave the shared text.      *)
LEMMA DraftStep ==
  ASSUME TypeOK, DraftInv, [Next]_vars
  PROVE  DraftInv'
<1> USE DEF docs, hist, engine, panel, lock, ui
<1>1. CASE UNCHANGED vars
  BY <1>1, Zenon DEF vars, DraftInv, NoDraftLeak
<1>2. ASSUME NEW p \in Local, Type(p) PROVE DraftInv'
  <2>1. p \notin sync /\ p \notin drafted /\ p \in Local
    BY <1>2, Zenon DEF DraftInv, Type
  <2>2. /\ typed' = typed \cup {p} /\ editor' = editor \cup {p}
        /\ released' = released /\ thread' = thread
    BY <1>2, Zenon DEF Type
  <2>3. \/ sync' = sync \cup {p} /\ drafted' = drafted
        \/ sync' = sync /\ drafted' \in {drafted, drafted \cup {p}}
    BY <1>2, Zenon DEF Type
  <2> QED BY <2>1, <2>2, <2>3 DEF DraftInv, NoDraftLeak
<1>3. ASSUME NEW p \in Pieces, Erase(p) PROVE DraftInv'
  BY <1>3, DraftFrame, Zenon DEF DraftInv, Erase
<1>4. ASSUME NEW p \in Peer, PeerInsert(p) PROVE DraftInv'
  <2>1. p \notin Local /\ drafted \subseteq Local
    BY SuggestConstants, Zenon DEF TypeOK
  <2> QED BY <1>4, <2>1 DEF DraftInv, NoDraftLeak, PeerInsert
<1>5. ASSUME NEW p \in Pieces, PeerErase(p) PROVE DraftInv'
  BY <1>5, DraftFrame, Zenon DEF DraftInv, PeerErase
<1>6. CASE SuggestOn
  BY <1>6, DraftFrame, Zenon DEF DraftInv, SuggestOn
<1>7. CASE SuggestOffPending
  <2>1. \A u \in Threads : thread'[u].after \subseteq thread[u].after \cup editor
    BY <1>7, CommitAfter, Zenon DEF SuggestOffPending
  <2>2. editor' = sync
    BY <1>7, Zenon DEF SuggestOffPending, SetDocs, ResetDocs
  <2> QED BY <1>7, <2>1, <2>2, DraftFrame DEF DraftInv, SuggestOffPending
<1>8. CASE SuggestOffClean
  BY <1>8, DraftFrame, Zenon DEF DraftInv, SuggestOffClean
<1>9. CASE SuggestSubmit
  BY <1>9, DraftFrame, Zenon DEF DraftInv, SuggestSubmit
<1>10. CASE NoteConfirm
  <2>1. \A u \in Threads : thread'[u].after \subseteq thread[u].after \cup editor
    BY <1>10, CommitAfter, Zenon DEF NoteConfirm
  <2>2. editor' \in {sync, editor}
    BY <1>10, Zenon DEF NoteConfirm, SetDocs, GatedReset, ResetDocs
  <2> QED BY <1>10, <2>1, <2>2, DraftFrame DEF DraftInv, NoteConfirm
<1>11. CASE NoteCancel
  BY <1>11, DraftFrame, Zenon DEF DraftInv, NoteCancel
<1>12. CASE SuggestDiscard
  BY <1>12, DraftFrame, Zenon DEF DraftInv, SuggestDiscard, SetDocs, GatedReset,
      ResetDocs
<1>13. CASE BlameToggle
  BY <1>13, DraftFrame, Zenon DEF DraftInv, BlameToggle
<1>14. ASSUME NEW t \in Threads, ThreadActivated(t) PROVE DraftInv'
  <2>1. editor' \subseteq sync \cup editor \cup thread[t].after
    BY <1>14, OpenThreadText, Zenon DEF ThreadActivated
  <2> QED BY <1>14, <2>1, DraftFrame DEF DraftInv, ThreadActivated
<1>15. ASSUME NEW t \in Threads, ListEntryActivated(t) PROVE DraftInv'
  <2>1. editor' \subseteq sync \cup editor \cup thread[t].after
    BY <1>15, OpenThreadText, Zenon DEF ListEntryActivated
  <2> QED BY <1>15, <2>1, DraftFrame DEF DraftInv, ListEntryActivated
<1>16. CASE PanelClose
  BY <1>16, CloseThreadText, DraftFrame, Zenon DEF DraftInv, PanelClose
<1>17. ASSUME NEW l \in {"comments", "suggestions"}, ListOpen(l) PROVE DraftInv'
  <2>1. editor' \subseteq sync \cup editor
    BY <1>17, Zenon DEF ListOpen, SetDocs, DocsAfterClaim, Docs, ResetDocs
  <2> QED BY <1>17, <2>1, DraftFrame DEF DraftInv, ListOpen
<1>18. CASE ListClose
  BY <1>18, DraftFrame, Zenon DEF DraftInv, ListClose
<1>19. CASE CommentAdd
  BY <1>19, CloseThreadText, DraftFrame, Zenon DEF DraftInv, CommentAdd
<1>20. CASE DraftCancel
  BY <1>20, DraftFrame, Zenon DEF DraftInv, DraftCancel
<1>21. ASSUME NEW t \in Threads, DraftSubmit(t) PROVE DraftInv'
  <2>1. editor' \subseteq sync \cup editor \cup thread[t].after
    BY <1>21, OpenThreadText, Zenon DEF DraftSubmit
  <2>2. \A u \in Threads : thread'[u].after \subseteq thread[u].after
    BY <1>21, Zenon DEF DraftSubmit, Comment, Thread, TypeOK
  <2> QED BY <1>21, <2>1, <2>2, DraftFrame DEF DraftInv, DraftSubmit
<1>22. CASE SuggestionAccept
  <2>1. active \in Threads
    BY <1>22, Zenon DEF TypeOK, SuggestionAccept
  <2>2. sync' \subseteq sync \cup thread[active].after
    BY <1>22, <2>1, AppliedPieces, Zenon DEF SuggestionAccept
  <2>3. editor' \subseteq sync \cup editor \cup thread[active].after
    BY <1>22, <2>1, AppliedPieces, Zenon DEF SuggestionAccept, SetDocs, Docs, ResetDocs
  <2>4. \A u \in Threads : thread'[u].after \subseteq thread[u].after
    BY <1>22, <2>1, DecidedAfter, Zenon DEF SuggestionAccept
  <2>5. /\ typed' = typed /\ drafted' = drafted /\ drafted \subseteq Local
        /\ released' = released \cup (thread[active].after \cap Local)
    BY <1>22, Zenon DEF SuggestionAccept, TypeOK
  <2> QED BY <2>1, <2>2, <2>3, <2>4, <2>5, DraftFrame DEF DraftInv
<1>23. CASE SuggestionDecline
  <2>1. \A u \in Threads : thread'[u].after \subseteq thread[u].after
    BY <1>23, DecidedAfter, Zenon DEF SuggestionDecline, TypeOK
  <2> QED BY <1>23, <2>1, CloseThreadText, DraftFrame DEF DraftInv, SuggestionDecline
<1>24. CASE ThreadResolve
  <2>1. \A u \in Threads : thread'[u].after = thread[u].after
    BY <1>24, OpenAfter, Zenon DEF ThreadResolve, TypeOK
  <2> QED BY <1>24, <2>1, CloseThreadText, DraftFrame DEF DraftInv, ThreadResolve
<1>25. CASE ThreadReopen
  <2>1. \A u \in Threads : thread'[u].after = thread[u].after
    BY <1>25, OpenAfter, Zenon DEF ThreadReopen, TypeOK
  <2> QED BY <1>25, <2>1, DraftFrame DEF DraftInv, ThreadReopen
<1>26. ASSUME NEW t \in Threads, ThreadDeleted(t) PROVE DraftInv'
  <2>1. \A u \in Threads : thread'[u].after \subseteq thread[u].after
    BY <1>26, Zenon DEF ThreadDeleted, Deleted, Thread, TypeOK
  <2> QED BY <1>26, <2>1, DraftFrame DEF DraftInv, ThreadDeleted
<1>27. ASSUME NEW t \in Threads, PeerSuggestion(t) PROVE DraftInv'
  <2>1. PICK p \in Peer \ typed, b \in {{}} \cup {{x} : x \in sync}, rel \in BOOLEAN :
          /\ thread' = [thread EXCEPT ![t] = Thread("pending", b, {p}, rel)]
          /\ typed' = typed \cup {p}
    BY <1>27, Zenon DEF PeerSuggestion
  <2>2. p \notin Local
    BY SuggestConstants, Zenon
  <2>3. \A u \in Threads : thread'[u].after \subseteq thread[u].after \cup {p}
    BY <2>1, Zenon DEF Thread, TypeOK
  <2> QED BY <1>27, <2>1, <2>2, <2>3, DraftFrame, Zenon DEF DraftInv, PeerSuggestion
<1>28. ASSUME NEW t \in Threads, PeerAccepts(t) PROVE DraftInv'
  <2>1. sync' \subseteq sync \cup thread[t].after
    BY <1>28, AppliedPieces, Zenon DEF PeerAccepts
  <2>2. editor' \subseteq editor \cup thread[t].after
    BY <1>28, AppliedPieces, Zenon DEF PeerAccepts
  <2>3. \A u \in Threads : thread'[u].after \subseteq thread[u].after
    BY <1>28, DecidedAfter, Zenon DEF PeerAccepts
  <2>4. /\ typed' = typed /\ drafted' = drafted /\ drafted \subseteq Local
        /\ released' = released \cup (thread[t].after \cap Local)
    BY <1>28, Zenon DEF PeerAccepts, TypeOK
  <2> QED BY <2>1, <2>2, <2>3, <2>4, DraftFrame DEF DraftInv
<1>29. ASSUME NEW t \in Threads, PeerDeclines(t) PROVE DraftInv'
  <2>1. \A u \in Threads : thread'[u].after \subseteq thread[u].after
    BY <1>29, DecidedAfter, Zenon DEF PeerDeclines
  <2> QED BY <1>29, <2>1, DraftFrame DEF DraftInv, PeerDeclines
<1>30. CASE HostReadonly
  BY <1>30, DraftFrame, Zenon DEF DraftInv, HostReadonly
<1> QED BY <1>1, <1>2, <1>3, <1>4, <1>5, <1>6, <1>7, <1>8, <1>9, <1>10, <1>11,
           <1>12, <1>13, <1>14, <1>15, <1>16, <1>17, <1>18, <1>19, <1>20,
           <1>21, <1>22, <1>23, <1>24, <1>25, <1>26, <1>27, <1>28, <1>29,
           <1>30 DEF Next

(* ModeInv is kept by a handler that leaves modes, gate and panels alone.  *)
LEMMA ModeFrame ==
  ASSUME TypeOK, ModeInv, UNCHANGED <<gate, enabled, mode, preview, active>>,
         \A t \in Threads : t # active /\ thread[t] = Deleted => thread'[t] = Deleted
  PROVE  ModeInv'
  BY Zenon DEF ModeInv, GateOwned, PreviewGated, TypeOK

(* Ids are not used again: what is deleted was neither absent nor pending. *)
LEMMA DeletedIsFinal ==
  ASSUME NEW t \in Threads, thread[t] = Deleted
  PROVE  thread[t] # Absent /\ thread[t].state # "pending" /\ ~ Exists(t)
  BY DEF Deleted, Absent, Thread, Exists

LEMMA StaysDeleted ==
  ASSUME TypeOK, NEW t \in Threads, NEW x, thread' = [thread EXCEPT ![t] = x],
         thread[t] = Absent \/ thread[t].state = "pending"
  PROVE  \A u \in Threads : thread[u] = Deleted => thread'[u] = Deleted
  BY DeletedIsFinal, Zenon DEF TypeOK

(* _setActiveCommentThread(thread).                                        *)
LEMMA OpenThreadMode ==
  ASSUME TypeOK, ModeInv, NEW t \in Threads, NEW list, OpenThread(t, list),
         thread[t] # Deleted
  PROVE  ModeInv'
<1> DEFINE other == preview \notin {NoThread, t}
           d == IF other THEN ResetDocs ELSE DocsAfterClaim
           show == thread[t].state = "pending" /\ preview # t /\ Resolved(t)
<1>1. mode' = "comments" /\ active' = t /\ t # NoThread
  BY SuggestConstants, Zenon DEF OpenThread
<1>2. enabled' = FALSE
  <2>1. CASE mode = "suggest"
    BY <2>1, Zenon DEF OpenThread, EngineAfterClaim, EngineOff
  <2>2. CASE mode # "suggest"
    BY <2>2, Zenon DEF OpenThread, EngineAfterClaim, engine, ModeInv, GateOwned, TypeOK
  <2> QED BY <2>1, <2>2, Zenon
<1>3. CASE show
  <2>1. gate' = FALSE /\ preview' = t
    BY <1>3, Zenon DEF OpenThread, SetDocs
  <2> QED BY <1>1, <1>2, <2>1 DEF ModeInv, GateOwned, PreviewGated
<1>4. CASE ~ show /\ other
  <2>1. gate' = TRUE /\ preview' = NoThread
    BY <1>4, Zenon DEF OpenThread, SetDocs, ResetDocs, PreviewOver
  <2> QED BY <1>1, <1>2, <2>1 DEF ModeInv, GateOwned, PreviewGated
<1>5. CASE ~ show /\ ~ other
  <2>1. preview' = preview /\ gate' = DocsAfterClaim.gate
    BY <1>5, Zenon DEF OpenThread, SetDocs
  <2>2. CASE preview = NoThread
    <3>1. gate' = TRUE
      BY <2>1, <2>2, Zenon DEF DocsAfterClaim, ResetDocs, Docs, ModeInv, GateOwned, TypeOK
    <3> QED BY <1>1, <1>2, <2>1, <2>2, <3>1 DEF ModeInv, GateOwned, PreviewGated
  <2>3. CASE preview = t
    <3>1. active = t
      BY <1>1, <2>3, Zenon DEF ModeInv
    <3>2. gate = FALSE /\ mode = "comments"
      BY <1>1, <2>3, <3>1, Zenon DEF ModeInv, PreviewGated, TypeOK
    <3>3. gate' = FALSE
      BY <2>1, <3>2, Zenon DEF DocsAfterClaim, Docs
    <3> QED BY <1>1, <1>2, <2>1, <2>3, <3>3 DEF ModeInv, GateOwned, PreviewGated
  <2> QED BY <1>5, <2>2, <2>3
<1> QED BY <1>3, <1>4, <1>5

(* _setActiveCommentThread(null), outside Suggest Mode.                    *)
LEMMA CloseThreadMode ==
  ASSUME TypeOK, ModeInv, mode # "suggest", CloseThread
  PROVE  ModeInv'
<1>1. enabled = FALSE /\ enabled' = enabled
  BY Zenon DEF CloseThread, engine, ModeInv, GateOwned, TypeOK
<1>2. mode' # "suggest" /\ active' = NoThread
  BY Zenon DEF CloseThread, ExitComments
<1>3. gate' = TRUE /\ preview' = NoThread
  BY <1>1, Zenon DEF CloseThread, SetDocs, ResetDocs, PreviewOver, ModeInv, GateOwned, TypeOK
<1> QED BY <1>1, <1>2, <1>3 DEF ModeInv, GateOwned, PreviewGated

(* Which handler may claim or leave a mode, close or open the gate.        *)
LEMMA ModeStep ==
  ASSUME TypeOK, ModeInv, [Next]_vars
  PROVE  ModeInv'
<1> USE DEF docs, hist, engine, panel, lock, ui
<1>1. CASE UNCHANGED vars
  BY <1>1, ModeFrame, Zenon DEF vars
<1>2. ASSUME NEW p \in Local, Type(p) PROVE ModeInv'
  BY <1>2, ModeFrame, Zenon DEF Type
<1>3. ASSUME NEW p \in Pieces, Erase(p) PROVE ModeInv'
  BY <1>3, ModeFrame, Zenon DEF Erase
<1>4. ASSUME NEW p \in Peer, PeerInsert(p) PROVE ModeInv'
  BY <1>4, ModeFrame, Zenon DEF PeerInsert
<1>5. ASSUME NEW p \in Pieces, PeerErase(p) PROVE ModeInv'
  BY <1>5, ModeFrame, Zenon DEF PeerErase
<1>6. CASE SuggestOn
  <2>1. active = NoThread
    BY <1>6, Zenon DEF SuggestOn, ModeInv
  <2>2. /\ mode' = "suggest" /\ enabled' = TRUE /\ gate' = FALSE
        /\ UNCHANGED <<thread, preview, active>>
    BY <1>6, Zenon DEF SuggestOn, EngineOn
  <2> QED BY <2>1, <2>2 DEF ModeInv, GateOwned, PreviewGated
<1>7. CASE SuggestOffPending
  <2>1. active = NoThread
    BY <1>7, Zenon DEF SuggestOffPending, ModeInv
  <2>2. /\ mode' = "none" /\ enabled' = FALSE /\ gate' = TRUE
        /\ UNCHANGED <<preview, active>>
    BY <1>7, Zenon DEF SuggestOffPending, EngineOff, SetDocs, ResetDocs
  <2>3. \A u \in Threads : thread[u] = Deleted => thread'[u] = Deleted
    BY <1>7, StaysDeleted, Zenon DEF SuggestOffPending, CommitTo
  <2> QED BY <2>1, <2>2, <2>3 DEF ModeInv, GateOwned, PreviewGated, TypeOK
<1>8. CASE SuggestOffClean
  <2>1. active = NoThread
    BY <1>8, Zenon DEF SuggestOffClean, ModeInv
  <2>2. /\ mode' = "none" /\ enabled' = FALSE /\ gate' = TRUE
        /\ UNCHANGED <<thread, preview, active>>
    BY <1>8, Zenon DEF SuggestOffClean, EngineOff
  <2> QED BY <2>1, <2>2 DEF ModeInv, GateOwned, PreviewGated
<1>9. CASE SuggestSubmit
  BY <1>9, ModeFrame, Zenon DEF SuggestSubmit
<1>10. CASE NoteConfirm
  <2>1. CASE HasPending
    <3>1. mode = "suggest" /\ active = NoThread
      BY <2>1, Zenon DEF HasPending, ModeInv, GateOwned
    <3>2. /\ mode' = mode /\ enabled' = TRUE /\ gate' = FALSE
          /\ UNCHANGED <<preview, active>>
      BY <1>10, <2>1, Zenon DEF NoteConfirm, EngineOn, SetDocs, GatedReset, ResetDocs
    <3>3. \A u \in Threads : thread[u] = Deleted => thread'[u] = Deleted
      BY <1>10, <2>1, StaysDeleted, Zenon DEF NoteConfirm, CommitTo
    <3> QED BY <3>1, <3>2, <3>3 DEF ModeInv, GateOwned, PreviewGated, TypeOK
  <2>2. CASE ~ HasPending
    BY <1>10, <2>2, ModeFrame, Zenon DEF NoteConfirm
  <2> QED BY <2>1, <2>2
<1>11. CASE NoteCancel
  BY <1>11, ModeFrame, Zenon DEF NoteCancel
<1>12. CASE SuggestDiscard
  <2>1. active = NoThread
    BY <1>12, Zenon DEF SuggestDiscard, ModeInv
  <2>2. /\ mode' = "suggest" /\ enabled' = TRUE /\ gate' = FALSE
        /\ UNCHANGED <<thread, preview, active>>
    BY <1>12, Zenon DEF SuggestDiscard, EngineOn, SetDocs, GatedReset, ResetDocs
  <2> QED BY <2>1, <2>2 DEF ModeInv, GateOwned, PreviewGated
<1>13. CASE BlameToggle
  <2>1. active = NoThread /\ mode # "suggest" /\ mode' # "suggest"
    BY <1>13, Zenon DEF BlameToggle, ModeInv
  <2>2. UNCHANGED <<gate, enabled, thread, preview, active>>
    BY <1>13, Zenon DEF BlameToggle
  <2> QED BY <2>1, <2>2 DEF ModeInv, GateOwned, PreviewGated
<1>14. ASSUME NEW t \in Threads, ThreadActivated(t) PROVE ModeInv'
  <2>1. thread[t] # Deleted
    BY <1>14, DeletedIsFinal, Zenon DEF ThreadActivated
  <2> QED BY <1>14, <2>1, OpenThreadMode DEF ThreadActivated
<1>15. ASSUME NEW t \in Threads, ListEntryActivated(t) PROVE ModeInv'
  <2>1. thread[t] # Deleted
    BY <1>15, DeletedIsFinal, Zenon DEF ListEntryActivated
  <2> QED BY <1>15, <2>1, OpenThreadMode DEF ListEntryActivated
<1>16. CASE PanelClose
  <2>1. mode # "suggest" /\ CloseThread
    BY <1>16, Zenon DEF PanelClose, ModeInv
  <2> QED BY <2>1, CloseThreadMode
<1>17. ASSUME NEW l \in {"comments", "suggestions"}, ListOpen(l) PROVE ModeInv'
  <2>1. mode' = "comments" /\ UNCHANGED <<thread, active, preview>>
    BY <1>17, Zenon DEF ListOpen
  <2>2. CASE mode = "suggest"
    <3>1. active = NoThread
      BY <2>2, Zenon DEF ModeInv
    <3>2. gate' = TRUE /\ enabled' = FALSE
      BY <1>17, <2>2, Zenon DEF ListOpen, SetDocs, DocsAfterClaim, ResetDocs, EngineAfterClaim, EngineOff
    <3> QED BY <2>1, <3>1, <3>2 DEF ModeInv, GateOwned, PreviewGated
  <2>3. CASE mode # "suggest"
    <3>1. gate' = gate /\ enabled' = enabled
      BY <1>17, <2>3, Zenon DEF ListOpen, SetDocs, DocsAfterClaim, Docs, EngineAfterClaim
    <3> QED BY <2>1, <2>3, <3>1 DEF ModeInv, GateOwned, PreviewGated
  <2> QED BY <2>2, <2>3
<1>18. CASE ListClose
  <2>1. UNCHANGED <<gate, enabled, thread, preview, active>>
    BY <1>18, Zenon DEF ListClose
  <2>2. \/ mode' = mode
        \/ mode = "comments" /\ mode' = "none" /\ active = NoThread
    BY <1>18, Zenon DEF ListClose, ExitComments
  <2> QED BY <2>1, <2>2 DEF ModeInv, GateOwned, PreviewGated
<1>19. CASE CommentAdd
  <2>1. mode # "suggest" /\ CloseThread
    BY <1>19, Zenon DEF CommentAdd, ModeInv
  <2> QED BY <2>1, CloseThreadMode
<1>20. CASE DraftCancel
  BY <1>20, ModeFrame, Zenon DEF DraftCancel
<1>21. ASSUME NEW t \in Threads, DraftSubmit(t) PROVE ModeInv'
  <2>1. thread[t] # Deleted
    BY <1>21, DeletedIsFinal, Zenon DEF DraftSubmit
  <2> QED BY <1>21, <2>1, OpenThreadMode DEF DraftSubmit
<1>22. CASE SuggestionAccept
  <2>1. mode = "comments" /\ enabled = FALSE
    BY <1>22, Zenon DEF SuggestionAccept, ModeInv, GateOwned, TypeOK
  <2>2. mode' # "suggest" /\ active' = NoThread /\ enabled' = enabled
    BY <1>22, <2>1, Zenon DEF SuggestionAccept, ExitComments
  <2>3. gate' = TRUE /\ preview' = NoThread
    <3>1. CASE preview # NoThread
      BY <1>22, <3>1, Zenon DEF SuggestionAccept, SetDocs, ResetDocs, PreviewOver
    <3>2. CASE preview = NoThread
      <4>1. gate' = gate /\ preview' = preview
        BY <1>22, <3>2, Zenon DEF SuggestionAccept, SetDocs, Docs
      <4> QED BY <2>1, <3>2, <4>1 DEF ModeInv, GateOwned, TypeOK
    <3> QED BY <3>1, <3>2, Zenon
  <2> QED BY <2>1, <2>2, <2>3 DEF ModeInv, GateOwned, PreviewGated
<1>23. CASE SuggestionDecline
  <2>1. mode # "suggest" /\ CloseThread
    BY <1>23, Zenon DEF SuggestionDecline, ModeInv
  <2> QED BY <2>1, CloseThreadMode
<1>24. CASE ThreadResolve
  <2>1. mode # "suggest" /\ CloseThread
    BY <1>24, Zenon DEF ThreadResolve, ModeInv
  <2> QED BY <2>1, CloseThreadMode
<1>25. CASE ThreadReopen
  <2>1. \A u \in Threads : u # active => thread'[u] = thread[u]
    BY <1>25, Zenon DEF ThreadReopen, TypeOK
  <2> QED BY <1>25, <2>1, ModeFrame DEF ThreadReopen
<1>26. ASSUME NEW t \in Threads, ThreadDeleted(t) PROVE ModeInv'
  <2>1. /\ thread'[t] = Deleted
        /\ \A u \in Threads : u # t => thread'[u] = thread[u]
    BY <1>26, Zenon DEF ThreadDeleted, TypeOK
  <2>2. UNCHANGED <<gate, enabled, mode, preview>> /\ active' = IF active = t THEN NoThread ELSE active
    BY <1>26, Zenon DEF ThreadDeleted, Refreshed
  <2> QED BY <2>1, <2>2 DEF ModeInv, GateOwned, PreviewGated, TypeOK
<1>27. ASSUME NEW t \in Threads, PeerSuggestion(t) PROVE ModeInv'
  <2>1. \A u \in Threads : thread[u] = Deleted => thread'[u] = Deleted
    BY <1>27, StaysDeleted, Zenon DEF PeerSuggestion
  <2> QED BY <1>27, <2>1, ModeFrame DEF PeerSuggestion
<1>28. ASSUME NEW t \in Threads, PeerAccepts(t) PROVE ModeInv'
  <2>1. \A u \in Threads : thread[u] = Deleted => thread'[u] = Deleted
    BY <1>28, StaysDeleted, Zenon DEF PeerAccepts, Decided
  <2> QED BY <1>28, <2>1, ModeFrame DEF PeerAccepts
<1>29. ASSUME NEW t \in Threads, PeerDeclines(t) PROVE ModeInv'
  <2>1. \A u \in Threads : thread[u] = Deleted => thread'[u] = Deleted
    BY <1>29, StaysDeleted, Zenon DEF PeerDeclines, Decided
  <2> QED BY <1>29, <2>1, ModeFrame DEF PeerDeclines
<1>30. CASE HostReadonly
  BY <1>30, ModeFrame, Zenon DEF HostReadonly
<1> QED BY <1>1, <1>2, <1>3, <1>4, <1>5, <1>6, <1>7, <1>8, <1>9, <1>10, <1>11,
           <1>12, <1>13, <1>14, <1>15, <1>16, <1>17, <1>18, <1>19, <1>20,
           <1>21, <1>22, <1>23, <1>24, <1>25, <1>26, <1>27, <1>28, <1>29,
           <1>30 DEF Next

(* A preview marks the screen as its own; every other way through these two*)
(* keeps the documents or resets them.                                     *)
LEMMA OpenThreadScreen ==
  ASSUME TypeOK, ScreenInv, NEW t \in Threads, NEW list, OpenThread(t, list),
         sync' = sync
  PROVE  /\ ScreenInv'
         /\ ~ gate /\ gate' => editor' = sync'
<1> DEFINE other == preview \notin {NoThread, t}
           d == IF other THEN ResetDocs ELSE DocsAfterClaim
           show == thread[t].state = "pending" /\ preview # t /\ Resolved(t)
<1>1. CASE show
  <2>1. stray' = TRUE /\ gate' = FALSE
    BY <1>1, Zenon DEF OpenThread, SetDocs
  <2> QED BY <2>1 DEF ScreenInv, ScreenIsShared
<1>2. CASE ~ show
  <2>1. SetDocs(d)
    BY <1>2, Zenon DEF OpenThread
  <2>2. d = ResetDocs \/ d = Docs
    BY Zenon DEF DocsAfterClaim
  <2> QED BY <2>1, <2>2 DEF SetDocs, ResetDocs, Docs, ScreenInv, ScreenIsShared, TypeOK
<1> QED BY <1>1, <1>2

LEMMA CloseThreadScreen ==
  ASSUME TypeOK, ScreenInv, CloseThread, sync' = sync
  PROVE  /\ ScreenInv'
         /\ ~ gate /\ gate' => editor' = sync'
<1>1. \/ SetDocs(ResetDocs)
      \/ UNCHANGED <<editor, gate, gap, stray>>
  BY Zenon DEF CloseThread
<1>2. CASE SetDocs(ResetDocs)
  <2>1. editor' = sync /\ gap' = FALSE
    BY <1>2, Zenon DEF SetDocs, ResetDocs
  <2> QED BY <2>1 DEF ScreenInv, ScreenIsShared
<1>3. CASE UNCHANGED <<editor, gate, gap, stray>>
  BY <1>3, Zenon DEF ScreenInv, ScreenIsShared
<1> QED BY <1>1, <1>2, <1>3

(* What ReopenedInStep asks of a step.                                     *)
Reopens == ~ gate /\ gate' => editor' = sync' \/ SuggestOffClean

(* A handler that leaves the screen apart from the shared text drops edits *)
(* of its own, and only SuggestOffClean reopens the gate over them.        *)
LEMMA ScreenStep ==
  ASSUME TypeOK, ScreenInv, [Next]_vars
  PROVE  ScreenInv' /\ Reopens
<1> USE DEF docs, hist, engine, panel, lock, ui
<1>1. CASE UNCHANGED vars
  BY <1>1, Zenon DEF vars, Reopens, ScreenInv, ScreenIsShared
<1>2. ASSUME NEW p \in Local, Type(p) PROVE ScreenInv' /\ Reopens
  <2>1. gate' = gate /\ editor' = editor \cup {p}
    BY <1>2, Zenon DEF Type
  <2>2. CASE gate /\ ~ gap
    <3>1. sync' = sync \cup {p} /\ gap' = gap /\ stray' = stray
      BY <1>2, <2>2, Zenon DEF Type, TypeOK
    <3> QED BY <2>1, <3>1 DEF Reopens, ScreenInv, ScreenIsShared
  <2>3. CASE ~ (gate /\ ~ gap)
    <3>1. stray' = TRUE
      BY <1>2, <2>3, Zenon DEF Type, ScreenInv, TypeOK
    <3> QED BY <2>1, <3>1 DEF Reopens, ScreenInv, ScreenIsShared
  <2> QED BY <2>2, <2>3
<1>3. ASSUME NEW p \in Pieces, Erase(p) PROVE ScreenInv' /\ Reopens
  <2>1. gate' = gate /\ editor' = editor \ {p} /\ gap' = gap
    BY <1>3, Zenon DEF Erase
  <2>2. CASE gate
    <3>1. sync' = sync \ {p} /\ stray' = stray
      BY <1>3, <2>2, Zenon DEF Erase, TypeOK
    <3> QED BY <2>1, <3>1 DEF Reopens, ScreenInv, ScreenIsShared
  <2>3. CASE ~ gate
    <3>1. stray' = TRUE
      BY <1>3, <2>3, Zenon DEF Erase, TypeOK
    <3> QED BY <2>1, <3>1 DEF Reopens, ScreenInv, ScreenIsShared
  <2> QED BY <2>2, <2>3
<1>4. ASSUME NEW p \in Peer, PeerInsert(p) PROVE ScreenInv' /\ Reopens
  <2>1. UNCHANGED <<gate, gap, stray>> /\ (editor = sync => editor' = sync')
    BY <1>4, Zenon DEF PeerInsert
  <2> QED BY <2>1 DEF Reopens, ScreenInv, ScreenIsShared
<1>5. ASSUME NEW p \in Pieces, PeerErase(p) PROVE ScreenInv' /\ Reopens
  <2>1. UNCHANGED <<gate, gap, stray>> /\ (editor = sync => editor' = sync')
    BY <1>5, Zenon DEF PeerErase
  <2> QED BY <2>1 DEF Reopens, ScreenInv, ScreenIsShared
<1>6. CASE SuggestOn
  <2>1. UNCHANGED <<sync, editor, gap, stray>> /\ gate' = FALSE
    BY <1>6, Zenon DEF SuggestOn
  <2> QED BY <2>1 DEF Reopens, ScreenInv, ScreenIsShared
<1>7. CASE SuggestOffPending
  <2>1. editor' = sync /\ gap' = FALSE /\ sync' = sync
    BY <1>7, Zenon DEF SuggestOffPending, SetDocs, ResetDocs
  <2> QED BY <2>1 DEF Reopens, ScreenInv, ScreenIsShared
<1>8. CASE SuggestOffClean
  <2>1. UNCHANGED <<sync, editor, gap, stray>>
    BY <1>8, Zenon DEF SuggestOffClean
  <2> QED BY <1>8, <2>1 DEF Reopens, ScreenInv, ScreenIsShared
<1>9. CASE SuggestSubmit
  <2>1. UNCHANGED docs
    BY <1>9, Zenon DEF SuggestSubmit
  <2> QED BY <2>1 DEF Reopens, ScreenInv, ScreenIsShared
<1>10. CASE NoteConfirm
  <2>1. \/ editor' = sync /\ gap' = FALSE /\ sync' = sync
        \/ UNCHANGED docs
    BY <1>10, Zenon DEF NoteConfirm, SetDocs, GatedReset, ResetDocs
  <2> QED BY <2>1 DEF Reopens, ScreenInv, ScreenIsShared
<1>11. CASE NoteCancel
  <2>1. UNCHANGED docs
    BY <1>11, Zenon DEF NoteCancel
  <2> QED BY <2>1 DEF Reopens, ScreenInv, ScreenIsShared
<1>12. CASE SuggestDiscard
  <2>1. editor' = sync /\ gap' = FALSE /\ sync' = sync
    BY <1>12, Zenon DEF SuggestDiscard, SetDocs, GatedReset, ResetDocs
  <2> QED BY <2>1 DEF Reopens, ScreenInv, ScreenIsShared
<1>13. CASE BlameToggle
  <2>1. UNCHANGED docs
    BY <1>13, Zenon DEF BlameToggle
  <2> QED BY <2>1 DEF Reopens, ScreenInv, ScreenIsShared
<1>14. ASSUME NEW t \in Threads, ThreadActivated(t) PROVE ScreenInv' /\ Reopens
  BY <1>14, OpenThreadScreen, Zenon DEF ThreadActivated, Reopens
<1>15. ASSUME NEW t \in Threads, ListEntryActivated(t) PROVE ScreenInv' /\ Reopens
  BY <1>15, OpenThreadScreen, Zenon DEF ListEntryActivated, Reopens
<1>16. CASE PanelClose
  BY <1>16, CloseThreadScreen, Zenon DEF PanelClose, Reopens
<1>17. ASSUME NEW l \in {"comments", "suggestions"}, ListOpen(l) PROVE ScreenInv' /\ Reopens
  <2>1. sync' = sync /\ SetDocs(DocsAfterClaim)
    BY <1>17, Zenon DEF ListOpen
  <2>2. \/ editor' = sync /\ gap' = FALSE
        \/ UNCHANGED <<editor, gate, gap, stray>>
    BY <2>1, Zenon DEF SetDocs, DocsAfterClaim, ResetDocs, Docs
  <2> QED BY <2>1, <2>2 DEF Reopens, ScreenInv, ScreenIsShared
<1>18. CASE ListClose
  <2>1. UNCHANGED docs
    BY <1>18, Zenon DEF ListClose
  <2> QED BY <2>1 DEF Reopens, ScreenInv, ScreenIsShared
<1>19. CASE CommentAdd
  BY <1>19, CloseThreadScreen, Zenon DEF CommentAdd, Reopens
<1>20. CASE DraftCancel
  <2>1. UNCHANGED docs
    BY <1>20, Zenon DEF DraftCancel
  <2> QED BY <2>1 DEF Reopens, ScreenInv, ScreenIsShared
<1>21. ASSUME NEW t \in Threads, DraftSubmit(t) PROVE ScreenInv' /\ Reopens
  BY <1>21, OpenThreadScreen, Zenon DEF DraftSubmit, Reopens
<1>22. CASE SuggestionAccept
  <2>1. sync' = Applied(sync, active)
    BY <1>22, Zenon DEF SuggestionAccept
  <2>2. CASE preview # NoThread
    <3>1. editor' = Applied(sync, active) /\ gap' = FALSE
      BY <1>22, <2>2, Zenon DEF SuggestionAccept, SetDocs, ResetDocs
    <3> QED BY <2>1, <3>1 DEF Reopens, ScreenInv, ScreenIsShared
  <2>3. CASE preview = NoThread
    <3>1. editor' = Applied(editor, active) /\ UNCHANGED <<gate, gap, stray>>
      BY <1>22, <2>3, Zenon DEF SuggestionAccept, SetDocs, Docs
    <3> QED BY <2>1, <3>1 DEF Reopens, ScreenInv, ScreenIsShared
  <2> QED BY <2>2, <2>3
<1>23. CASE SuggestionDecline
  BY <1>23, CloseThreadScreen, Zenon DEF SuggestionDecline, Reopens
<1>24. CASE ThreadResolve
  BY <1>24, CloseThreadScreen, Zenon DEF ThreadResolve, Reopens
<1>25. CASE ThreadReopen
  <2>1. UNCHANGED docs
    BY <1>25, Zenon DEF ThreadReopen
  <2> QED BY <2>1 DEF Reopens, ScreenInv, ScreenIsShared
<1>26. ASSUME NEW t \in Threads, ThreadDeleted(t) PROVE ScreenInv' /\ Reopens
  <2>1. UNCHANGED docs
    BY <1>26, Zenon DEF ThreadDeleted
  <2> QED BY <2>1 DEF Reopens, ScreenInv, ScreenIsShared
<1>27. ASSUME NEW t \in Threads, PeerSuggestion(t) PROVE ScreenInv' /\ Reopens
  <2>1. UNCHANGED docs
    BY <1>27, Zenon DEF PeerSuggestion
  <2> QED BY <2>1 DEF Reopens, ScreenInv, ScreenIsShared
<1>28. ASSUME NEW t \in Threads, PeerAccepts(t) PROVE ScreenInv' /\ Reopens
  <2>1. UNCHANGED <<gate, gap, stray>> /\ (editor = sync => editor' = sync')
    BY <1>28, Zenon DEF PeerAccepts
  <2> QED BY <2>1 DEF Reopens, ScreenInv, ScreenIsShared
<1>29. ASSUME NEW t \in Threads, PeerDeclines(t) PROVE ScreenInv' /\ Reopens
  <2>1. UNCHANGED docs
    BY <1>29, Zenon DEF PeerDeclines
  <2> QED BY <2>1 DEF Reopens, ScreenInv, ScreenIsShared
<1>30. CASE HostReadonly
  <2>1. UNCHANGED docs
    BY <1>30, Zenon DEF HostReadonly
  <2> QED BY <2>1 DEF Reopens, ScreenInv, ScreenIsShared
<1> QED BY <1>1, <1>2, <1>3, <1>4, <1>5, <1>6, <1>7, <1>8, <1>9, <1>10, <1>11,
           <1>12, <1>13, <1>14, <1>15, <1>16, <1>17, <1>18, <1>19, <1>20,
           <1>21, <1>22, <1>23, <1>24, <1>25, <1>26, <1>27, <1>28, <1>29,
           <1>30 DEF Next

(***************************************************************************)
(* The theorems.                                                           *)
(***************************************************************************)

(* What was typed behind the closed gate never becomes visible to peers    *)
(* except through an accepted suggestion, whatever modes, previews, exits  *)
(* and remote edits come in between (DocReplicator, SuggestEngine).        *)
THEOREM NoDraftLeakCorrect == Spec => []NoDraftLeak
<1>1. Init => DraftInv
  BY SuggestConstants DEF Init, DraftInv, NoDraftLeak, Absent, Thread
<1>2. DraftInv => NoDraftLeak
  BY Zenon DEF DraftInv
<1> QED BY <1>1, <1>2, DraftStep, TypeCorrect, PTL DEF Spec

(* Mode, engine and gate agree, and only Suggest Mode or a preview keeps   *)
(* the gate closed (_activateFeatureMode, SuggestEngine.enable/disable).   *)
THEOREM GateOwnedCorrect == Spec => []GateOwned
<1>1. Init => ModeInv
  BY Zenon DEF Init, ModeInv, GateOwned, PreviewGated
<1>2. ModeInv => GateOwned
  BY Zenon DEF ModeInv
<1> QED BY <1>1, <1>2, ModeStep, TypeCorrect, PTL DEF Spec

(* A preview of the active thread runs with the gate closed, in comments   *)
(* mode (_setActiveCommentThread).                                         *)
THEOREM PreviewGatedCorrect == Spec => []PreviewGated
<1>1. Init => ModeInv
  BY Zenon DEF Init, ModeInv, GateOwned, PreviewGated
<1>2. ModeInv => PreviewGated
  BY Zenon DEF ModeInv
<1> QED BY <1>1, <1>2, ModeStep, TypeCorrect, PTL DEF Spec

(* Without a dropped edit the screen shows the shared text (resetEditorDoc *)
(* and the replicator's two observers).                                    *)
THEOREM ScreenIsSharedCorrect == Spec => []ScreenIsShared
<1>1. Init => ScreenInv
  BY Zenon DEF Init, ScreenInv, ScreenIsShared
<1>2. ScreenInv => ScreenIsShared
  BY Zenon DEF ScreenInv
<1> QED BY <1>1, <1>2, ScreenStep, TypeCorrect, PTL DEF Spec

(* Every way to reopen the gate but one resets the editor document first.  *)
THEOREM ReopenedInStepCorrect == Spec => ReopenedInStep
<1>1. Init => ScreenInv
  BY Zenon DEF Init, ScreenInv, ScreenIsShared
<1>2. TypeOK /\ ScreenInv /\ [Next]_vars => ScreenInv'
  BY ScreenStep, Zenon
<1>3. TypeOK /\ ScreenInv /\ [Next]_vars
        => [~ gate /\ gate' => editor' = sync' \/ SuggestOffClean]_vars
  BY ScreenStep, Zenon DEF Reopens
<1> QED BY <1>1, <1>2, <1>3, TypeCorrect, PTL DEF Spec, ReopenedInStep

=============================================================================
