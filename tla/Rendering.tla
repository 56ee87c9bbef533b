------------------------------ MODULE Rendering ------------------------------
(***************************************************************************)
(* The two asynchronous renderers of the editor.  A JSX or TSX document has*)
(* a preview in an iframe (bindings/preview-source-binding.ts and          *)
(* _preview-renderer.ts), which a mode switch creates and awaits while     *)
(* edits and further switches go on.  A markdown document has Mermaid      *)
(* diagrams (collab/mermaid-codeblock-extension.ts, mermaid-renderer.ts)   *)
(* and the dialog that edits one (toolbar/mermaid-edit-dialog.ts): both    *)
(* draw what a debounced, sequence-numbered render delivers.               *)
(*                                                                         *)
(* The registry gives a document one binding, so kind is chosen once: a    *)
(* preview, text with diagrams, or text that has neither (its decorations  *)
(* are in Decorations).  Texts and diagram sources are model values; "" is *)
(* the empty one.                                                          *)
(***************************************************************************)
EXTENDS Naturals, FiniteSets

CONSTANTS Codes,      \* texts and diagram sources, "" among them
          Valid,      \* the sources Mermaid can parse
          MaxEdits,   \* edits of the text, the diagram or the dialog
          MaxThemes,  \* changes of the theme
          None

\* The empty source is an error to renderMermaid.
ASSUME RenderingAssumption ==
    /\ "" \in Codes /\ Valid \subseteq Codes \ {""}
    /\ MaxEdits \in Nat /\ MaxThemes \in Nat
    /\ None \notin {"source", "preview", "mount", "switch"}
    /\ None \notin [code : Codes, ok : BOOLEAN, gen : Nat \cup {None}]

VARIABLES kind, edits,
          \* The preview.
          content,        \* the source editor's text
          previewMounted, \* the binding exists: mount() has been called
          active,         \* _activeMode; the container of that mode is shown
          elementMode,    \* the element's mode
          iframe,         \* none, loading or ready
          pending,        \* _pendingCode
          posted,         \* what the iframe was told to render last
          waiter,         \* who awaits whenReady(): the mount or a switch
          \* The diagrams, of the node view and of the dialog.
          open,           \* the dialog is open
          source,         \* the node's text and the dialog's draft
          timer,          \* the debounce runs
          seq,            \* renderSeq and _previewSeq
          flights,        \* renders that have not been delivered: [seq, code, gen]
          drawn,          \* the delivery on display: [code, ok, gen]
          rendered,       \* lastRenderedSource and lastRenderedThemeGen
          lib,            \* the mermaid runtime: none, loading, ready or failed
          gen             \* _themeGeneration

preview == <<content, previewMounted, active, elementMode, iframe, pending, posted, waiter>>
diagram == <<open, source, timer, seq, flights, drawn, rendered, lib, gen>>
renderingVars == <<kind, edits, preview, diagram>>

Views == {"node", "dialog"}

RenderingInit ==
    /\ kind \in {"preview", "diagram", "text"}
    /\ edits = 0
    /\ content \in Codes
    /\ previewMounted = FALSE /\ active = None /\ elementMode \in {"source", "preview"}
    /\ kind # "preview" => elementMode = "source"
    /\ kind = "text" => content = ""
    /\ iframe = "none" /\ pending = None /\ posted = None /\ waiter = None
    /\ open = FALSE
    /\ source = [v \in Views |-> content]
    /\ timer = [v \in Views |-> FALSE]
    /\ seq = [v \in Views |-> IF v = "node" THEN 1 ELSE 0]
    /\ flights = [v \in Views |-> IF v = "node" THEN {[seq |-> 1, code |-> content, gen |-> None]} ELSE {}]
    /\ drawn = [v \in Views |-> None]
    /\ rendered = [code |-> content, gen |-> 0]
    /\ lib = IF content = "" THEN "none" ELSE "loading"
    /\ gen = 0

----------------------------------------------------------------------------
(* The preview.                                                            *)

\* PreviewRendererInstance.render
Render(code) ==
    IF iframe = "ready" THEN posted' = code /\ UNCHANGED pending
    ELSE pending' = code /\ UNCHANGED posted

Show(m) == active' = m /\ elementMode' = m

\* mount(): in preview mode it creates the renderer and awaits it.
Mount ==
    /\ kind = "preview" /\ ~previewMounted
    /\ previewMounted' = TRUE
    /\ IF elementMode = "preview"
       THEN iframe' = "loading" /\ waiter' = "mount" /\ UNCHANGED <<active, elementMode>>
       ELSE Show("source") /\ UNCHANGED <<iframe, waiter>>
    /\ UNCHANGED <<kind, edits, content, pending, posted, diagram>>

\* The binding's switchMode inside the element's.
SwitchMode(m) ==
    /\ kind = "preview" /\ previewMounted /\ m # elementMode
    /\ \/ /\ m = active
          /\ elementMode' = m
          /\ UNCHANGED <<active, iframe, pending, posted, waiter>>
       \/ /\ m # active /\ m = "source"
          /\ Show(m)
          /\ UNCHANGED <<iframe, pending, posted, waiter>>
       \/ /\ m # active /\ m = "preview" /\ iframe = "none"
          /\ iframe' = "loading" /\ waiter' = "switch"
          /\ UNCHANGED <<active, elementMode, pending, posted>>
       \/ /\ m # active /\ m = "preview" /\ iframe # "none"
          /\ Render(content)
          /\ Show(m)
          /\ UNCHANGED <<iframe, waiter>>
    /\ UNCHANGED <<kind, edits, content, previewMounted, diagram>>

\* The iframe reports preview-ready: code that waits is posted, then the call
\* that awaited it goes on.  A mount renders the text unless it is empty.
PreviewReady ==
    /\ kind = "preview" /\ iframe = "loading"
    /\ iframe' = "ready"
    /\ posted' = IF waiter = "switch" \/ content # "" THEN content
                 ELSE IF pending \in {None, ""} THEN posted ELSE pending
    /\ pending' = None
    /\ waiter' = None
    /\ Show("preview")
    /\ UNCHANGED <<kind, edits, content, previewMounted, diagram>>

\* A mutant of ContentUpdate.
ContentUpdateUnrendered(c) ==
    /\ kind = "preview" /\ c # content /\ edits < MaxEdits
    /\ edits' = edits + 1
    /\ content' = c
    /\ UNCHANGED <<kind, previewMounted, active, elementMode, iframe, pending, posted, waiter, diagram>>

\* The source editor's text changes: typing, a remote change, a rebind.
ContentUpdate(c) ==
    /\ kind = "preview" /\ c # content /\ edits < MaxEdits
    /\ edits' = edits + 1
    /\ content' = c
    /\ IF active = "preview" /\ iframe # "none" THEN Render(c) ELSE UNCHANGED <<pending, posted>>
    /\ UNCHANGED <<kind, previewMounted, active, elementMode, iframe, waiter, diagram>>

\* unmount(): the listener goes, so nothing that awaits the iframe goes on.
UnmountPreview ==
    /\ kind = "preview" /\ previewMounted
    /\ previewMounted' = FALSE /\ active' = None
    /\ iframe' = "none" /\ pending' = None /\ posted' = None /\ waiter' = None
    /\ UNCHANGED <<kind, edits, content, elementMode, diagram>>

----------------------------------------------------------------------------
(* The diagrams.                                                           *)

\* run(): a new render supersedes the ones before.  The first one loads the
\* runtime; a source that is empty never gets there.
Run(v, code) ==
    /\ seq' = [seq EXCEPT ![v] = @ + 1]
    /\ flights' = [flights EXCEPT ![v] = @ \cup {[seq |-> seq[v] + 1, code |-> code,
                                                 gen |-> IF lib = "ready" THEN gen ELSE None]}]
    /\ lib' = IF lib = "none" /\ code # "" THEN "loading" ELSE lib

\* The import of mermaid ends; renders that waited for it start.  The failed
\* promise stays in _modulePromise.
LoadMermaid(ok) ==
    /\ kind = "diagram" /\ lib = "loading"
    /\ lib' = IF ok THEN "ready" ELSE "failed"
    /\ flights' = [v \in Views |-> {[f EXCEPT !.gen = gen] : f \in flights[v]}]
    /\ UNCHANGED <<kind, edits, preview, open, source, timer, seq, drawn, rendered, gen>>

SetMermaidTheme ==
    /\ kind = "diagram" /\ gen < MaxThemes
    /\ gen' = gen + 1
    /\ UNCHANGED <<kind, edits, preview, open, source, timer, seq, flights, drawn, rendered, lib>>

RenderMermaid(f) == [code |-> f.code, ok |-> lib = "ready" /\ f.code \in Valid, gen |-> f.gen]

\* A mutant of Deliver.
DeliverSuperseded(v, f) ==
    /\ kind = "diagram" /\ f \in flights[v]
    /\ f.code = "" \/ lib \in {"ready", "failed"}
    /\ flights' = [flights EXCEPT ![v] = @ \ {f}]
    /\ drawn' = [drawn EXCEPT ![v] = RenderMermaid(f)]
    /\ UNCHANGED <<kind, edits, preview, open, source, timer, seq, rendered, lib, gen>>

\* A mutant of Deliver.
DeliverLoaded(v, f) ==
    /\ kind = "diagram" /\ f \in flights[v]
    /\ f.code = "" \/ lib = "ready"
    /\ flights' = [flights EXCEPT ![v] = @ \ {f}]
    /\ drawn' = IF f.seq = seq[v] THEN [drawn EXCEPT ![v] = RenderMermaid(f)] ELSE drawn
    /\ UNCHANGED <<kind, edits, preview, open, source, timer, seq, rendered, lib, gen>>

\* A render is delivered, in any order; a superseded one is dropped.
Deliver(v, f) ==
    /\ kind = "diagram" /\ f \in flights[v]
    /\ f.code = "" \/ lib \in {"ready", "failed"}
    /\ flights' = [flights EXCEPT ![v] = @ \ {f}]
    /\ drawn' = IF f.seq = seq[v] THEN [drawn EXCEPT ![v] = RenderMermaid(f)] ELSE drawn
    /\ UNCHANGED <<kind, edits, preview, open, source, timer, seq, rendered, lib, gen>>

\* The node view's update(): an edit by whoever changes the block.
Scheduled(c) == timer["node"] \/ c # rendered.code \/ gen # rendered.gen

EditNode(c) ==
    /\ kind = "diagram" /\ edits < MaxEdits /\ c # source["node"]
    /\ edits' = edits + 1
    /\ source' = [source EXCEPT !["node"] = c]
    /\ timer' = [timer EXCEPT !["node"] = Scheduled(c)]
    /\ UNCHANGED <<kind, preview, open, seq, flights, drawn, rendered, lib, gen>>

\* The debounce fires: both views render what is their text by now.
RunTimer(v) ==
    /\ kind = "diagram" /\ timer[v]
    /\ timer' = [timer EXCEPT ![v] = FALSE]
    /\ Run(v, source[v])
    /\ rendered' = IF v = "node" THEN [code |-> source[v], gen |-> gen] ELSE rendered
    /\ UNCHANGED <<kind, edits, preview, open, source, drawn, gen>>

\* The dialog opens on the node's text and renders at once.
OpenDialog ==
    /\ kind = "diagram" /\ ~open /\ edits < MaxEdits
    /\ edits' = edits + 1
    /\ open' = TRUE
    /\ source' = [source EXCEPT !["dialog"] = source["node"]]
    /\ Run("dialog", source["node"])
    /\ UNCHANGED <<kind, preview, timer, drawn, rendered, gen>>

OnInput(c) ==
    /\ kind = "diagram" /\ open /\ c # source["dialog"] /\ edits < MaxEdits
    /\ edits' = edits + 1
    /\ source' = [source EXCEPT !["dialog"] = c]
    /\ timer' = [timer EXCEPT !["dialog"] = TRUE]
    /\ UNCHANGED <<kind, preview, open, seq, flights, drawn, rendered, lib, gen>>

\* The dialog leaves the page with its timer; a new one starts over.
CloseDialog ==
    /\ open' = FALSE
    /\ seq' = [seq EXCEPT !["dialog"] = 0]
    /\ flights' = [flights EXCEPT !["dialog"] = {}]
    /\ drawn' = [drawn EXCEPT !["dialog"] = None]

Cancel ==
    /\ kind = "diagram" /\ open
    /\ CloseDialog
    /\ timer' = [timer EXCEPT !["dialog"] = FALSE]
    /\ UNCHANGED <<kind, edits, preview, source, rendered, lib, gen>>

\* mermaid-save: the draft becomes the node's text.
Save ==
    /\ kind = "diagram" /\ open
    /\ CloseDialog
    /\ source' = [source EXCEPT !["node"] = source["dialog"]]
    /\ timer' = [v \in Views |-> v = "node" /\ Scheduled(source["dialog"])]
    /\ UNCHANGED <<kind, edits, preview, rendered, lib, gen>>

Progress ==
    \/ \E ok \in BOOLEAN : LoadMermaid(ok)
    \/ \E v \in Views : RunTimer(v)
    \/ \E v \in Views : \E f \in flights[v] : Deliver(v, f)

RenderingNext ==
    \/ Mount
    \/ \E m \in {"source", "preview"} : SwitchMode(m)
    \/ PreviewReady
    \/ \E c \in Codes : ContentUpdate(c)
    \/ UnmountPreview
    \/ SetMermaidTheme
    \/ \E c \in Codes : EditNode(c)
    \/ OpenDialog
    \/ \E c \in Codes : OnInput(c)
    \/ Cancel
    \/ Save
    \/ Progress

\* Timers fire, the import ends and renders are delivered.
RenderingSpec == RenderingInit /\ [][RenderingNext]_renderingVars /\ WF_renderingVars(Progress)

----------------------------------------------------------------------------
(* Properties.                                                             *)

RenderingTypeOK ==
    /\ edits \in 0 .. MaxEdits /\ content \in Codes
    /\ active \in {None, "source", "preview"} /\ elementMode \in {"source", "preview"}
    /\ iframe \in {"none", "loading", "ready"} /\ waiter \in {None, "mount", "switch"}
    /\ iframe = "loading" <=> waiter # None
    /\ \A v \in Views : source[v] \in Codes /\ timer[v] \in BOOLEAN
                        /\ seq[v] \in 0 .. MaxEdits + 2
    /\ lib \in {"none", "loading", "ready", "failed"} /\ gen \in 0 .. MaxThemes

\* The preview on display is the preview of the present text, through edits and
\* further switches while the iframe loads (PreviewSourceBinding).  A text that
\* became empty is left out: mount() does not render it.
PreviewFresh ==
    active = "preview" /\ iframe = "ready" /\ content # "" => posted = content

\* The mode the element reports, and the toolbar shows, is the mode the binding
\* shows (switchMode of the element and of the binding).
ModesAgree == active # None => elementMode = active

\* Nothing is under way in a view: no debounce, and no render that would still
\* be drawn.
AtRest(v) == ~timer[v] /\ \A f \in flights[v] : f.seq # seq[v]

\* A diagram at rest shows its present source, or the error of that source, in
\* whatever order the renders came back (scheduleRender, _scheduleRender).
DiagramFresh ==
    \A v \in Views : kind = "diagram" /\ seq[v] > 0 /\ AtRest(v) =>
        /\ drawn[v] # None /\ drawn[v].code = source[v]
        /\ drawn[v].ok <=> lib = "ready" /\ source[v] \in Valid

\* A diagram at rest that counts as rendered under the present theme was drawn
\* under it, also when the theme changed while the runtime was loading
\* (lastRenderedThemeGen against setMermaidTheme).
ThemeFresh ==
    kind = "diagram" /\ AtRest("node") /\ rendered.gen = gen /\ drawn["node"].ok
        => drawn["node"].gen = gen

\* Every edit is drawn in the end: the diagrams keep coming to rest.
DiagramsSettle == kind = "diagram" => \A v \in Views : []<>AtRest(v)

=============================================================================
