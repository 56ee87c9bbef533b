------------------------------ MODULE EditorInit ------------------------------
(***************************************************************************)
(* How the <multi-editor> element (frontend/src/multi-editor.ts) opens a   *)
(* document: every change of the configuration requests an initialisation, *)
(* the requests run one after the other along _initChain, and each one     *)
(* tears the previous session down, connects a CollaborationProvider,      *)
(* mounts a binding, waits for the first sync and attaches the             *)
(* coordinators.  It gives up in between when the configuration has moved  *)
(* on.  The provider's connection (collab-provider.ts), its Socket.io      *)
(* transport (socketio-provider.ts) and the removal of the element from    *)
(* the page run concurrently with it.                                      *)
(*                                                                         *)
(* A configuration stands for the pair of Lit properties collaboration and *)
(* mimeType; its room is None when there is no collaboration.  The text of *)
(* the document is left out (SuggestFlow and EditorBinding model it).      *)
(***************************************************************************)
EXTENDS Naturals

CONSTANTS Configs,      \* [room, mime, transport], the configurations the host sets
          Peers,        \* the other users whose awareness may be received
          MaxChanges,   \* how often the host changes the configuration
          None

Rooms == {c.room : c \in Configs} \cup {None}
Mimes == {c.mime : c \in Configs}
Modes == {"wysiwyg", "source", "preview"}

\* A CollaborationProvider with its transport, and an editor binding.
Providers ==
    [room : Rooms \ {None}, transport : {"websocket", "socketio"}, alive : BOOLEAN,
     status : {"connecting", "connected", "disconnected"}, answered : BOOLEAN,
     synced : BOOLEAN]
Bindings == [mime : Mimes, room : Rooms, mode : Modes, alive : BOOLEAN]

\* The configurations are records, and None is nothing else.
ASSUME InitAssumption ==
    /\ \A c \in Configs : /\ DOMAIN c = {"room", "mime", "transport"}
                          /\ c.transport \in {"websocket", "socketio"}
    /\ MaxChanges \in Nat
    /\ None \notin Configs \cup Providers \cup Bindings

VARIABLES props,    \* the configuration the host has set last
          changes,  \* how often it did
          last,     \* _lastCollabConfig and _lastMimeType
          chain,    \* initialisations requested and not finished
          pc,       \* what the running initialisation awaits
          prov,     \* _collabProvider with its transport
          binding,  \* _binding
          mode,     \* the mode property
          coordinators, \* the room of the blame and version coordinators
          engine,   \* the room of the comment engine and its coordinator
          polling,  \* the comment engine polls
          threads,  \* the revision of its thread list
          active,   \* the coordinator has an active thread
          muted,    \* its decorations are muted, during a suggestion preview
          drawn,    \* the comment decorations of the binding's surfaces
          intact,   \* the element has not been removed since the last teardown
          wired,    \* _awarenessHandler listens to the provider's awareness
          seen,     \* the peers in that awareness
          shown     \* _collaborators

host == <<props, changes>>
session == <<coordinators, engine, polling>>
comments == <<threads, active, muted, drawn>>
presence == <<wired, seen, shown>>
vars == <<props, changes, last, chain, pc, prov, binding, mode, coordinators, engine,
          polling, threads, active, muted, drawn, intact, wired, seen, shown>>

\* The modes of the bindings the registry creates for a MIME type.
Registry ==
    [mime \in {"text/markdown", "text/jsx", "text/plain"} |->
        CASE mime = "text/markdown" -> <<"wysiwyg", "source">>
          [] mime = "text/jsx" -> <<"preview", "source">>
          [] mime = "text/plain" -> <<"source">>]

Registered(mime) == mime \in DOMAIN Registry

ModesOf(mime) == IF Registered(mime) THEN Registry[mime] ELSE <<"source">>

Supported(mime) == {ModesOf(mime)[i] : i \in DOMAIN ModesOf(mime)}

\* The mode a document opens in: the current one if its binding has it.
OpeningMode(mime) == IF mode \in Supported(mime) THEN mode ELSE ModesOf(mime)[1]

----------------------------------------------------------------------------
(* The provider and its transport.                                         *)

NewProvider(c) ==
    [room |-> c.room, transport |-> c.transport, alive |-> TRUE,
     status |-> "connecting", answered |-> FALSE, synced |-> FALSE]

\* The transport's connect handler announces the connection and sends sync
\* step 1; its disconnect handler takes everything back.
Connected(p) == [p EXCEPT !.status = "connected"]

Disconnected(p) ==
    [p EXCEPT !.status = "disconnected", !.answered = FALSE, !.synced = FALSE]

\* Promise continuations run before the next event: nothing else happens
\* between the end of an initialisation and the start of the one queued.
Awaiting == pc = "idle" => chain = 0

\* destroy(): the transport goes, and with it the peers' awareness.
Destroyed(p) ==
    IF p = None THEN None
    ELSE [Disconnected(p) EXCEPT !.alive = FALSE]

TransportUp ==
    /\ Awaiting /\ prov # None /\ prov.alive /\ prov.status # "connected"
    /\ prov' = Connected(prov)
    /\ UNCHANGED <<host, last, chain, pc, binding, mode, session, comments, intact, presence>>

\* The connection is lost or refused; the remote awareness states are removed.
TransportDown ==
    /\ Awaiting /\ prov # None /\ prov.alive /\ prov.status # "disconnected"
    /\ prov' = Disconnected(prov)
    /\ seen' = {}
    /\ shown' = IF wired THEN {} ELSE shown
    /\ UNCHANGED <<host, last, chain, pc, binding, mode, session, comments, intact, wired>>

\* The sync sub-types of y-protocols.
SyncType == [step1 |-> 0, step2 |-> 1, update |-> 2]

\* Whether a frame marks the provider synced: y-websocket does at step 2,
\* the Socket.io provider compares the sub-type with 2.
MarksSynced(m) ==
    IF prov.transport = "socketio" THEN SyncType[m] = 2 ELSE m = "step2"

Receive(m) ==
    /\ Awaiting /\ prov # None /\ prov.alive /\ prov.status = "connected"
    /\ prov' = [prov EXCEPT !.answered = @ \/ m = "step2",
                            !.synced = @ \/ MarksSynced(m)]
    /\ UNCHANGED <<host, last, chain, pc, binding, mode, session, comments, intact, presence>>

\* An awareness frame changes the set of peers present.
ReceiveAwareness(s) ==
    /\ Awaiting /\ prov # None /\ prov.alive /\ prov.status = "connected"
    /\ seen' = s
    /\ shown' = IF wired THEN s ELSE shown
    /\ UNCHANGED <<host, last, chain, pc, prov, binding, mode, session, comments, intact, wired>>

----------------------------------------------------------------------------
(* The host.                                                               *)

Init ==
    /\ props \in Configs
    /\ changes = 0
    /\ last = None
    /\ chain = 2        \* firstUpdated and updated both request one
    /\ pc = "idle"
    /\ prov = None /\ binding = None /\ mode = "source"
    /\ coordinators = None /\ engine = None /\ polling = FALSE
    /\ threads = 0 /\ active = FALSE /\ muted = FALSE /\ drawn = None
    /\ intact = TRUE
    /\ wired = FALSE /\ seen = {} /\ shown = {}

\* A mutant of RequestInit.
RequestInitWhenIdle(c) == chain' = IF c # last /\ pc = "idle" THEN chain + 1 ELSE chain

\* configure(), or an assignment to the properties: updated() requests an
\* initialisation when the new pair is not the one initialised last.
RequestInit(c) == chain' = IF c # last THEN chain + 1 ELSE chain

Configure(c) ==
    /\ Awaiting /\ c # props /\ changes < MaxChanges
    /\ props' = c
    /\ changes' = changes + 1
    /\ RequestInit(c)
    /\ UNCHANGED <<last, pc, prov, binding, mode, session, comments, intact, presence>>

----------------------------------------------------------------------------
(* The comment coordinator (comment-coordinator.ts).                       *)

\* What _pushDecorations hands to every surface of the binding.
Decorations(ts, act, mute) ==
    IF mute THEN [threads |-> None, active |-> FALSE] ELSE [threads |-> ts, active |-> act]

\* The coordinator pushes only while it is attached.
Pushed(ts, act, mute) == IF engine = None THEN drawn ELSE Decorations(ts, act, mute)

\* The thread list, or the text under the anchors, has changed.
ThreadsChange ==
    /\ Awaiting /\ engine # None
    /\ threads' = 1 - threads
    /\ drawn' = Pushed(threads', active, muted)
    /\ UNCHANGED <<host, last, chain, pc, prov, binding, mode, session, active, muted, intact,
                   presence>>

SetActiveThread(a) ==
    /\ Awaiting /\ engine # None /\ a # active
    /\ active' = a
    /\ drawn' = Pushed(threads, a, muted)
    /\ UNCHANGED <<host, last, chain, pc, prov, binding, mode, session, threads, muted, intact,
                   presence>>

SetDecorationsMuted(m) ==
    /\ Awaiting /\ engine # None /\ m # muted
    /\ muted' = m
    /\ drawn' = Pushed(threads, active, m)
    /\ UNCHANGED <<host, last, chain, pc, prov, binding, mode, session, threads, active, intact,
                   presence>>

\* The mode switch enables the decorations of the new surface and pushes.
SwitchMode(m) ==
    /\ Awaiting /\ binding # None /\ binding.alive
    /\ m \in Supported(binding.mime) /\ m # mode
    /\ mode' = m
    /\ drawn' = Pushed(threads, active, muted)
    /\ UNCHANGED <<host, last, chain, pc, prov, binding, session, threads, active, muted, intact,
                   presence>>

\* A mutant of DetachComments.
DetachCommentsPolls ==
    /\ engine' = None /\ UNCHANGED polling
    /\ drawn' = None /\ active' = FALSE

\* detach() disables the decorations and forgets the active thread.
DetachComments ==
    /\ engine' = None /\ polling' = FALSE
    /\ drawn' = None /\ active' = FALSE


\* The element leaves the page: everything it holds is destroyed, nothing is
\* set to null, and an initialisation that is under way goes on.
DisconnectedCallback ==
    /\ Awaiting /\ intact
    /\ intact' = FALSE
    /\ wired' = FALSE
    /\ seen' = {}
    /\ coordinators' = None
    /\ DetachComments
    /\ binding' = IF binding = None THEN None ELSE [binding EXCEPT !.alive = FALSE]
    /\ prov' = Destroyed(prov)
    /\ UNCHANGED <<host, last, chain, pc, mode, threads, muted, shown>>

----------------------------------------------------------------------------
(* The initialisation, one action per await.                               *)

FinishInit == pc' = "idle" /\ chain' = chain - 1

Stale == props # last

\* _mountBinding up to its await.  create() throws for a type nobody
\* registered: the initialisation ends there.
MountBinding(p) ==
    /\ mode' = OpeningMode(props.mime)
    /\ IF Registered(props.mime)
       THEN /\ binding' = [mime |-> props.mime, room |-> IF p = None THEN None ELSE p.room,
                           mode |-> OpeningMode(props.mime), alive |-> TRUE]
            /\ pc' = "mounting" /\ UNCHANGED chain
       ELSE binding' = None /\ FinishInit

\* The configuration is the one already initialised, or being initialised.
SkipInit ==
    /\ pc = "idle" /\ chain > 0 /\ props = last
    /\ chain' = chain - 1
    /\ UNCHANGED <<host, last, pc, prov, binding, mode, session, comments, intact, presence>>

\* Destroying a connected provider empties its awareness, and the handler
\* still listening to it empties the list of collaborators.
TearDown ==
    /\ last' = props
    /\ coordinators' = None
    /\ DetachComments
    /\ threads' = 0
    /\ muted' = FALSE        \* _endSuggestionPreview
    /\ intact' = TRUE
    /\ wired' = FALSE
    /\ seen' = {}
    /\ shown' = IF wired THEN {} ELSE shown

StartInit ==
    /\ pc = "idle" /\ chain > 0 /\ props # last
    /\ TearDown
    /\ IF props.room # None
       THEN /\ prov' = NewProvider(props)
            /\ binding' = None
            /\ pc' = "connecting"
            /\ UNCHANGED <<chain, mode>>
       ELSE prov' = None /\ MountBinding(None)
    /\ UNCHANGED host

\* _wireAwareness, with its initial read.
WireAwareness ==
    /\ wired' = prov.alive
    /\ shown' = seen

AfterConnect ==
    /\ WireAwareness
    /\ IF Stale THEN FinishInit /\ UNCHANGED <<binding, mode>> ELSE MountBinding(prov)
    /\ UNCHANGED <<host, last, prov, session, comments, intact, seen>>

ConnectResolves ==
    /\ pc = "connecting" /\ prov.status = "connected"
    /\ AfterConnect

\* A mutant of ConnectRejects.
ConnectRejectsDestroyed ==
    /\ pc = "connecting" /\ ~prov.alive
    /\ AfterConnect

\* Ten seconds without a connection, or the provider is destroyed; the
\* rejection is swallowed.
ConnectRejects ==
    /\ pc = "connecting" /\ prov.status # "connected"
    /\ AfterConnect

\* The surfaces of a binding destroyed while it mounts never become ready.
MountDone ==
    /\ pc = "mounting" /\ binding.alive
    /\ mode' = binding.mode
    /\ pc' = IF prov = None THEN "synced" ELSE "reconnecting"
    /\ UNCHANGED <<host, last, chain, prov, binding, session, comments, intact, presence>>

\* whenSynced first awaits the connection, again for ten seconds at most.
WhenConnected ==
    /\ pc = "reconnecting"
    /\ pc' = IF prov.status = "connected" /\ ~prov.synced THEN "syncing" ELSE "synced"
    /\ UNCHANGED <<host, last, chain, prov, binding, mode, session, comments, intact, presence>>

\* The synced event, or its five-second timer.
WhenSynced ==
    /\ pc = "syncing"
    /\ pc' = "synced"
    /\ UNCHANGED <<host, last, chain, prov, binding, mode, session, comments, intact, presence>>

\* Attach the blame and version coordinators, then ask for capabilities.
AttachCoordinators ==
    /\ pc = "synced"
    /\ IF Stale \/ prov = None
       THEN FinishInit /\ UNCHANGED coordinators
       ELSE coordinators' = prov.room /\ pc' = "capabilities" /\ UNCHANGED chain
    /\ UNCHANGED <<host, last, prov, binding, mode, engine, polling, comments, intact, presence>>

\* GET /api/capabilities; a failure or a refusal leaves comments off.
RelayCapabilities(ok) ==
    /\ pc = "capabilities"
    /\ IF ok THEN pc' = "comments" /\ UNCHANGED chain ELSE FinishInit
    /\ UNCHANGED <<host, last, prov, binding, mode, session, comments, intact, presence>>

\* The provider's own capabilities; with them the engine is attached.
CommentCapabilities(ok) ==
    /\ pc = "comments"
    /\ IF ok
       THEN /\ engine' = prov.room
            /\ drawn' = Decorations(threads, active, muted)
            /\ pc' = "threads" /\ UNCHANGED chain
       ELSE FinishInit /\ UNCHANGED <<engine, drawn>>
    /\ UNCHANGED <<host, last, prov, binding, mode, coordinators, polling, threads, active, muted, intact,
                   presence>>

\* The threads are loaded, or loading them failed: polling starts.
ThreadsLoaded ==
    /\ pc = "threads"
    /\ polling' = TRUE
    /\ FinishInit
    /\ UNCHANGED <<host, last, prov, binding, mode, coordinators, engine, comments, intact, presence>>

InitStep ==
    \/ SkipInit \/ StartInit \/ ConnectResolves \/ ConnectRejects
    \/ MountDone \/ WhenConnected \/ WhenSynced
    \/ AttachCoordinators
    \/ \E ok \in BOOLEAN : RelayCapabilities(ok)
    \/ \E ok \in BOOLEAN : CommentCapabilities(ok)
    \/ ThreadsLoaded

Next ==
    \/ InitStep
    \/ \E c \in Configs : Configure(c)
    \/ \E m \in Modes : SwitchMode(m)
    \/ ThreadsChange
    \/ \E a \in BOOLEAN : SetActiveThread(a)
    \/ \E m \in BOOLEAN : SetDecorationsMuted(m)
    \/ DisconnectedCallback
    \/ TransportUp
    \/ TransportDown
    \/ \E m \in DOMAIN SyncType : Receive(m)
    \/ \E s \in SUBSET Peers : ReceiveAwareness(s)

\* Timers, promise continuations and answers to requests always come.
Spec == Init /\ [][Next]_vars /\ WF_vars(InitStep)

----------------------------------------------------------------------------
(* Properties.                                                             *)

TypeOK ==
    /\ props \in Configs /\ last \in Configs \cup {None}
    /\ changes \in 0 .. MaxChanges
    /\ chain \in 0 .. MaxChanges + 2
    /\ pc \in {"idle", "connecting", "mounting", "reconnecting", "syncing", "synced",
               "capabilities", "comments", "threads"}
    /\ pc # "idle" => chain > 0
    /\ prov \in Providers \cup {None} /\ binding \in Bindings \cup {None}
    /\ mode \in Modes
    /\ {coordinators, engine} \subseteq Rooms
    /\ polling \in BOOLEAN /\ intact \in BOOLEAN /\ wired \in BOOLEAN
    /\ threads \in {0, 1} /\ active \in BOOLEAN /\ muted \in BOOLEAN
    /\ shown \subseteq Peers /\ seen \subseteq Peers

\* The editor shows configuration c: the right binding on the right document in
\* a mode the binding has, with the coordinators on the same room.
Serves(c) ==
    /\ binding # None /\ binding.alive
    /\ binding.mime = c.mime /\ binding.room = c.room
    /\ mode \in Supported(c.mime)
    /\ IF c.room = None THEN prov = None
       ELSE prov # None /\ prov.alive /\ prov.room = c.room /\ coordinators = c.room

\* When the chain of initialisations has drained, the editor serves what the
\* host configured last, however the changes fell between the awaits, unless
\* the element was removed or nobody registered the type.  This is what a
\* caller of configure() waits for (multi-editor.ts, _performInit).
Settled ==
    pc = "idle" /\ chain = 0 /\ intact /\ Registered(props.mime) => Serves(props)

\* While the element stays on the page, nothing of the session belongs to
\* another document than the provider's: the binding, the blame and version
\* coordinators, the comment engine.  Without collaboration there are none.
OneDocument ==
    intact =>
      /\ coordinators # None \/ engine # None \/ polling => prov # None
      /\ prov # None =>
           /\ {coordinators, engine} \subseteq {prov.room, None}
           /\ binding # None => binding.room = prov.room
      /\ polling => engine # None

\* The list of collaborators is the awareness of the present connection, also
\* after lost connections and changes of document (_wireAwareness).
CollaboratorsFresh ==
    /\ wired => shown = seen /\ prov # None /\ prov.alive
    /\ wired /\ prov.status # "connected" => shown = {}

\* The surfaces show the engine's present threads and active thread, nothing
\* while a suggestion is previewed, and nothing of a detached engine, through
\* changes of mode and of document (CommentCoordinator._pushDecorations).
DecorationsFresh ==
    drawn = IF engine = None THEN None ELSE Decorations(threads, active, muted)

\* Every initialisation comes to an end, with a relay that never answers too:
\* the chain drains, unless the element is removed under it.
Initializes == []<>(chain = 0 \/ ~intact)

=============================================================================
