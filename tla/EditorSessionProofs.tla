------------------------- MODULE EditorSessionProofs -------------------------
(***************************************************************************)
(* Theorems about the life of one editor, for any configurations, peers,   *)
(* clients and documents: its initialisations (EditorInit) and the         *)
(* observers of its document (DocObservers).                               *)
(***************************************************************************)
EXTENDS EditorInit, DocObservers, TLAPS

(* The chain holds one initialisation per change at most, and the two of   *)
(* the first update.                                                       *)
ChainInv == chain <= changes + 2

(* The screen and the connection are configuration c's; while the element  *)
(* is on the page, they are alive.                                         *)
Ready(c) ==
    /\ binding # None /\ binding.mime = c.mime /\ binding.room = c.room
    /\ binding.mode \in Supported(c.mime) /\ mode \in Supported(c.mime)
    /\ intact => binding.alive
    /\ c.room = None => prov = None
    /\ c.room # None => prov # None /\ prov.room = c.room /\ (intact => prov.alive)

Mounted == {"mounting", "reconnecting", "syncing", "synced", "capabilities",
            "comments", "threads"}

(* What the running initialisation has built by the time it awaits, always *)
(* for the configuration it started with.                                  *)
StageInv ==
    /\ pc # "idle" => last # None
    /\ pc = "connecting" =>
         /\ prov # None /\ last.room # None /\ prov.room = last.room
         /\ intact => prov.alive
         /\ binding = None
    /\ pc \in Mounted => Ready(last)
    /\ pc \in {"reconnecting", "syncing", "capabilities", "comments", "threads"} => prov # None
    /\ pc \in {"capabilities", "comments", "threads"} /\ intact => coordinators = prov.room
    /\ pc = "threads" /\ intact => engine = prov.room

(* An initialisation that ended and is not out of date has left its whole  *)
(* session; one that is out of date has another queued behind it.          *)
QueueInv ==
    /\ Stale => chain > (IF pc = "idle" THEN 0 ELSE 1)
    /\ pc = "idle" /\ ~ Stale /\ Registered(last.mime) =>
         Ready(last) /\ (intact /\ last.room # None => coordinators = last.room)

(* The awareness of a connection that is not up is empty.                  *)
PresenceInv ==
    /\ CollaboratorsFresh
    /\ (IF prov = None THEN TRUE ELSE prov.status # "connected") => seen = {}

SessionInv == StageInv /\ QueueInv /\ OneDocument

(***************************************************************************)
(* Types.                                                                  *)
(***************************************************************************)

(* A binding opens in a mode it has.                                       *)
LEMMA OpeningModeSupported ==
  ASSUME mode \in Modes, NEW mime
  PROVE  OpeningMode(mime) \in Supported(mime) /\ OpeningMode(mime) \in Modes
<1>1. 1 \in DOMAIN ModesOf(mime) /\ ModesOf(mime)[1] \in Modes
  <2>1. CASE ~ Registered(mime)
    BY <2>1 DEF ModesOf, Modes
  <2>2. CASE Registered(mime)
    <3>1. ModesOf(mime) = Registry[mime]
      BY <2>2, Zenon DEF ModesOf
    <3>2. mime \in {"text/markdown", "text/jsx", "text/plain"}
      BY <2>2, Zenon DEF Registered, Registry
    <3>3. CASE mime = "text/markdown"
      BY <3>1, <3>3 DEF Registry, Modes
    <3>4. CASE mime = "text/jsx"
      BY <3>1, <3>4 DEF Registry, Modes
    <3>5. CASE mime = "text/plain"
      BY <3>1, <3>5 DEF Registry, Modes
    <3> QED BY <3>2, <3>3, <3>4, <3>5
  <2> QED BY <2>1, <2>2
<1>2. ModesOf(mime)[1] \in Supported(mime)
  BY <1>1, Zenon DEF Supported
<1> QED BY <1>1, <1>2 DEF OpeningMode

(* What the handlers make of a provider is a provider.                     *)
LEMMA ProviderTypes ==
  /\ \A c \in Configs : c.room # None => NewProvider(c) \in Providers
  /\ \A p \in Providers :
       /\ Connected(p) \in Providers /\ Disconnected(p) \in Providers
       /\ Destroyed(p) \in Providers
  /\ None \notin Providers /\ None \notin Bindings /\ None \notin Configs
<1>1. None \notin Providers /\ None \notin Bindings /\ None \notin Configs
  BY InitAssumption, Zenon
<1>2. ASSUME NEW c \in Configs, c.room # None PROVE NewProvider(c) \in Providers
  <2>1. c.room \in Rooms \ {None} /\ c.transport \in {"websocket", "socketio"}
    BY <1>2, InitAssumption, Zenon DEF Rooms
  <2> QED BY <2>1 DEF NewProvider, Providers
<1>3. ASSUME NEW p \in Providers
      PROVE  Connected(p) \in Providers /\ Disconnected(p) \in Providers
  BY Zenon DEF Providers, Connected, Disconnected
<1>4. ASSUME NEW p \in Providers PROVE Destroyed(p) \in Providers
  <2>1. Disconnected(p) \in Providers /\ p # None
    BY <1>1, <1>3, Zenon
  <2> QED BY <2>1, Zenon DEF Destroyed, Providers
<1> QED BY <1>1, <1>2, <1>3, <1>4

(* The types, with the bound on the chain.                                 *)
Typed == TypeOK /\ ChainInv

LEMMA MountType ==
  ASSUME Typed, NEW p \in Providers \cup {None}, MountBinding(p), pc # "idle" \/ chain > 0
  PROVE  /\ binding' \in Bindings \cup {None} /\ mode' \in Modes
         /\ pc' \in {"idle", "mounting"} /\ (pc' # "idle" => chain' = chain)
         /\ chain' \in {chain, chain - 1} /\ chain > 0 /\ chain' \in Nat
<1>1. chain > 0 /\ chain \in Nat /\ props \in Configs
  BY InitAssumption DEF Typed, TypeOK
<1>2. mode' \in Modes /\ mode' = OpeningMode(props.mime)
  BY OpeningModeSupported, Zenon DEF MountBinding, Typed, TypeOK
<1>3. CASE Registered(props.mime)
  <2>1. binding' = [mime |-> props.mime, room |-> IF p = None THEN None ELSE p.room,
                    mode |-> OpeningMode(props.mime), alive |-> TRUE]
    BY <1>3, Zenon DEF MountBinding
  <2>2. props.mime \in Mimes /\ (IF p = None THEN None ELSE p.room) \in Rooms
    BY <1>1, Zenon DEF Mimes, Rooms, Providers
  <2>3. binding' \in Bindings
    BY <1>2, <2>1, <2>2, Zenon DEF Bindings
  <2>4. pc' = "mounting" /\ chain' = chain
    BY <1>3, Zenon DEF MountBinding
  <2> QED BY <1>1, <1>2, <2>3, <2>4
<1>4. CASE ~ Registered(props.mime)
  BY <1>1, <1>2, <1>4 DEF MountBinding, FinishInit
<1> QED BY <1>3, <1>4

LEMMA AfterConnectType ==
  ASSUME Typed, StageInv, pc = "connecting", AfterConnect
  PROVE  Typed'
<1> USE DEF host, session, comments, presence
<1>1. prov \in Providers /\ chain > 0
  BY Zenon DEF StageInv, Typed, TypeOK, ChainInv
<1>2. /\ UNCHANGED <<host, last, prov, session, comments, intact, seen>>
      /\ shown' = seen /\ wired' \in BOOLEAN
  BY <1>1, Zenon DEF AfterConnect, WireAwareness, Providers
<1>3. /\ binding' \in Bindings \cup {None} /\ mode' \in Modes
      /\ pc' \in {"idle", "mounting"} /\ (pc' # "idle" => chain' = chain)
      /\ chain' \in {chain, chain - 1}
  <2>1. CASE Stale
    BY <2>1, Zenon DEF AfterConnect, FinishInit, Typed, TypeOK, ChainInv
  <2>2. CASE ~ Stale
    <3>1. MountBinding(prov)
      BY <2>2, Zenon DEF AfterConnect
    <3> QED BY <1>1, <3>1, MountType
  <2> QED BY <2>1, <2>2
<1>4. chain' \in 0 .. MaxChanges + 2 /\ chain' <= changes + 2 /\ (pc' # "idle" => chain' > 0)
  BY <1>1, <1>3, InitAssumption DEF Typed, TypeOK, ChainInv
<1> QED BY <1>2, <1>3, <1>4 DEF Typed, TypeOK, ChainInv

(* Every step keeps the types.                                             *)
LEMMA TypeStep ==
  ASSUME Typed, StageInv, [Next]_vars
  PROVE  Typed'
<1> USE DEF host, session, comments, presence
<1>1. CASE UNCHANGED vars
  BY <1>1 DEF vars, Typed, TypeOK, ChainInv
<1>2. CASE SkipInit
  BY <1>2, InitAssumption DEF SkipInit, Typed, TypeOK, ChainInv
<1>3. CASE StartInit
  <2>1. /\ last' = props /\ coordinators' = None /\ engine' = None /\ polling' = FALSE
        /\ active' = FALSE /\ threads' = 0 /\ muted' = FALSE /\ intact' = TRUE
        /\ wired' = FALSE /\ seen' = {} /\ shown' \in SUBSET Peers
        /\ UNCHANGED <<props, changes>>
    BY <1>3, Zenon DEF StartInit, TearDown, DetachComments, Typed, TypeOK, ChainInv
  <2>2. /\ prov' \in Providers \cup {None} /\ binding' \in Bindings \cup {None}
        /\ mode' \in Modes /\ pc' \in {"idle", "mounting", "connecting"}
        /\ chain' \in {chain, chain - 1} /\ chain > 0 /\ (pc' # "idle" => chain' = chain)
    <3>1. CASE props.room # None
      BY <1>3, <3>1, ProviderTypes, Zenon DEF StartInit, Typed, TypeOK, ChainInv
    <3>2. CASE props.room = None
      <4>1. MountBinding(None) /\ prov' = None /\ chain > 0
        BY <1>3, <3>2, Zenon DEF StartInit
      <4> QED BY <4>1, MountType
    <3> QED BY <3>1, <3>2
  <2>3. chain' \in 0 .. MaxChanges + 2 /\ chain' <= changes + 2 /\ (pc' # "idle" => chain' > 0)
    BY <2>2, InitAssumption DEF Typed, TypeOK, ChainInv
  <2> QED BY <2>1, <2>2, <2>3, Zenon DEF Typed, TypeOK, ChainInv, Rooms
<1>4. CASE ConnectResolves
  <2>1. AfterConnect /\ pc = "connecting"
    BY <1>4, Zenon DEF ConnectResolves
  <2> QED BY <2>1, AfterConnectType
<1>5. CASE ConnectRejects
  <2>1. AfterConnect /\ pc = "connecting"
    BY <1>5, Zenon DEF ConnectRejects
  <2> QED BY <2>1, AfterConnectType
<1>6. CASE MountDone
  <2>1. binding \in Bindings
    BY <1>6, Zenon DEF MountDone, StageInv, Mounted, Ready, Typed, TypeOK, ChainInv
  <2> QED BY <1>6, <2>1 DEF MountDone, Bindings, Typed, TypeOK, ChainInv
<1>7. CASE WhenConnected
  BY <1>7, Zenon DEF WhenConnected, Typed, TypeOK, ChainInv
<1>8. CASE WhenSynced
  BY <1>8, Zenon DEF WhenSynced, Typed, TypeOK, ChainInv
<1>9. CASE AttachCoordinators
  <2>1. coordinators' \in Rooms
    BY <1>9, Zenon DEF AttachCoordinators, Providers, Typed, TypeOK, ChainInv
  <2> QED BY <1>9, <2>1, InitAssumption DEF AttachCoordinators, FinishInit, Typed, TypeOK, ChainInv
<1>10. ASSUME NEW ok \in BOOLEAN, RelayCapabilities(ok) PROVE Typed'
  BY <1>10, InitAssumption DEF RelayCapabilities, FinishInit, Typed, TypeOK, ChainInv
<1>11. ASSUME NEW ok \in BOOLEAN, CommentCapabilities(ok) PROVE Typed'
  <2>1. engine' \in Rooms
    <3>1. prov \in Providers
      BY <1>11, Zenon DEF CommentCapabilities, StageInv, Typed, TypeOK, ChainInv
    <3> QED BY <1>11, <3>1 DEF CommentCapabilities, Providers, Typed, TypeOK, ChainInv
  <2> QED BY <1>11, <2>1, InitAssumption DEF CommentCapabilities, FinishInit, Typed, TypeOK, ChainInv
<1>12. CASE ThreadsLoaded
  BY <1>12, InitAssumption DEF ThreadsLoaded, FinishInit, Typed, TypeOK, ChainInv
<1>13. ASSUME NEW c \in Configs, Configure(c) PROVE Typed'
  BY <1>13, InitAssumption DEF Configure, RequestInit, Typed, TypeOK, ChainInv
<1>14. ASSUME NEW m \in Modes, SwitchMode(m) PROVE Typed'
  BY <1>14 DEF SwitchMode, Typed, TypeOK, ChainInv
<1>15. CASE ThreadsChange
  BY <1>15 DEF ThreadsChange, Typed, TypeOK, ChainInv
<1>16. ASSUME NEW a \in BOOLEAN, SetActiveThread(a) PROVE Typed'
  BY <1>16 DEF SetActiveThread, Typed, TypeOK, ChainInv
<1>17. ASSUME NEW m \in BOOLEAN, SetDecorationsMuted(m) PROVE Typed'
  BY <1>17 DEF SetDecorationsMuted, Typed, TypeOK, ChainInv
<1>18. CASE DisconnectedCallback
  <2>1. prov' \in Providers \cup {None}
    BY <1>18, ProviderTypes, Zenon DEF DisconnectedCallback, Destroyed, Typed, TypeOK, ChainInv
  <2>2. binding' \in Bindings \cup {None}
    BY <1>18, Zenon DEF DisconnectedCallback, Bindings, Typed, TypeOK, ChainInv
  <2> QED BY <1>18, <2>1, <2>2, Zenon DEF DisconnectedCallback, DetachComments, Rooms, Typed, TypeOK, ChainInv
<1>19. CASE TransportUp
  <2>1. prov' \in Providers
    BY <1>19, ProviderTypes, Zenon DEF TransportUp, Typed, TypeOK, ChainInv
  <2> QED BY <1>19, <2>1 DEF TransportUp, Typed, TypeOK, ChainInv
<1>20. CASE TransportDown
  <2>1. prov' \in Providers
    BY <1>20, ProviderTypes, Zenon DEF TransportDown, Typed, TypeOK, ChainInv
  <2> QED BY <1>20, <2>1 DEF TransportDown, Typed, TypeOK, ChainInv
<1>21. ASSUME NEW m \in DOMAIN SyncType, Receive(m) PROVE Typed'
  <2>1. prov \in Providers
    BY <1>21, Zenon DEF Receive, Typed, TypeOK, ChainInv
  <2>2. prov' \in Providers
    BY <1>21, <2>1, Zenon DEF Receive, Providers
  <2> QED BY <1>21, <2>2 DEF Receive, Typed, TypeOK, ChainInv
<1>22. ASSUME NEW s \in SUBSET Peers, ReceiveAwareness(s) PROVE Typed'
  BY <1>22 DEF ReceiveAwareness, Typed, TypeOK, ChainInv
<1> QED BY <1>1, <1>2, <1>3, <1>4, <1>5, <1>6, <1>7, <1>8, <1>9, <1>10, <1>11,
           <1>12, <1>13, <1>14, <1>15, <1>16, <1>17, <1>18, <1>19, <1>20,
           <1>21, <1>22 DEF Next, InitStep

(***************************************************************************)
(* The session.                                                            *)
(***************************************************************************)

(* A step that keeps the room and the life of the provider and touches     *)
(* nothing else of the session.                                            *)
LEMMA SessionFrame ==
  ASSUME Typed, SessionInv,
         UNCHANGED <<props, last, chain, pc, binding, mode, coordinators, engine, polling, intact>>,
         \/ prov' = prov
         \/ prov # None /\ prov' # None /\ prov'.room = prov.room /\ prov'.alive = prov.alive
  PROVE  SessionInv'
<1>1. (prov # None <=> prov' # None) /\ (prov # None => prov'.room = prov.room /\ prov'.alive = prov.alive)
  BY Zenon
<1>2. \A c : Ready(c) => Ready(c)'
  BY <1>1, Zenon DEF Ready
<1>3. StageInv'
  BY <1>1, <1>2, Zenon DEF SessionInv, StageInv
<1>4. QueueInv'
  BY <1>2, Zenon DEF SessionInv, QueueInv, Stale
<1>5. OneDocument'
  BY <1>1, Zenon DEF SessionInv, OneDocument
<1> QED BY <1>3, <1>4, <1>5 DEF SessionInv

(* The mounted binding is that of the configuration the initialisation     *)
(* started with, which is still the host's.                                *)
LEMMA MountReady ==
  ASSUME Typed, NEW p \in Providers \cup {None}, MountBinding(p), Registered(props.mime),
         prov' = p, intact' => p = None \/ p.alive,
         IF p = None THEN props.room = None ELSE props.room # None /\ p.room = props.room
  PROVE  pc' = "mounting" /\ chain' = chain
         /\ binding' # None /\ binding'.room = props.room
         /\ (\A c : c = props => Ready(c)')
<1>1. binding' = [mime |-> props.mime, room |-> IF p = None THEN None ELSE p.room,
                  mode |-> OpeningMode(props.mime), alive |-> TRUE]
      /\ mode' = OpeningMode(props.mime) /\ pc' = "mounting" /\ chain' = chain
  BY Zenon DEF MountBinding
<1>2. OpeningMode(props.mime) \in Supported(props.mime) /\ OpeningMode(props.mime) \in Modes
  BY OpeningModeSupported, Zenon DEF Typed, TypeOK
<1>3. props.mime \in Mimes /\ (IF p = None THEN None ELSE p.room) \in Rooms
  BY Zenon DEF Mimes, Rooms, Providers, Typed, TypeOK
<1>4. binding' \in Bindings /\ binding' # None
  <2>1. binding' \in Bindings
    BY <1>1, <1>2, <1>3, SMTT(30) DEF Bindings
  <2> QED BY <2>1, ProviderTypes
<1>5. binding'.mime = props.mime /\ binding'.room = props.room /\ binding'.alive
      /\ binding'.mode = OpeningMode(props.mime)
  BY <1>1, Zenon
<1> QED BY <1>1, <1>2, <1>4, <1>5, SMTT(30) DEF Ready

(* The initialisation goes on after the wait for the connection.           *)
LEMMA AfterConnectSession ==
  ASSUME Typed, SessionInv, pc = "connecting", AfterConnect
  PROVE  SessionInv'
<1> USE DEF host, session, comments
<1>1. /\ prov \in Providers /\ prov # None /\ last # None /\ last.room # None
      /\ prov.room = last.room /\ (intact => prov.alive) /\ binding = None
      /\ chain > 0 /\ chain \in Nat
  BY InitAssumption DEF SessionInv, StageInv, Typed, TypeOK
<1>2. UNCHANGED <<props, last, prov, coordinators, engine, polling, intact>>
  BY Zenon DEF AfterConnect
<1>3. CASE Stale
  <2>1. pc' = "idle" /\ chain' = chain - 1 /\ binding' = binding /\ chain > 1
    BY <1>3, Zenon DEF AfterConnect, FinishInit, SessionInv, QueueInv
  <2>2. StageInv'
    BY <1>1, <1>2, <1>3, <2>1, Zenon DEF SessionInv, StageInv, Ready, Stale, Mounted
  <2>3. QueueInv'
    BY <1>1, <1>2, <1>3, <2>1 DEF SessionInv, StageInv, QueueInv, Ready, Stale, Mounted
  <2>4. OneDocument'
    BY <1>1, <1>2, <1>3, <2>1, Zenon DEF SessionInv, StageInv, OneDocument, Ready, Stale, Mounted
  <2> QED BY <2>2, <2>3, <2>4 DEF SessionInv
<1>4. CASE ~ Stale /\ Registered(props.mime)
  <2>1. MountBinding(prov) /\ props = last
    BY <1>4, Zenon DEF AfterConnect, Stale
  <2>2. /\ pc' = "mounting" /\ chain' = chain /\ Ready(last)'
        /\ binding' # None /\ binding'.room = prov.room
    BY <1>1, <1>2, <1>4, <2>1, MountReady, Zenon
  <2>3. StageInv'
    BY <1>1, <1>2, <2>1, <2>2, Zenon DEF SessionInv, StageInv, Stale, Mounted
  <2>4. QueueInv'
    BY <1>1, <1>2, <2>1, <2>2, Zenon DEF SessionInv, StageInv, QueueInv, Stale, Mounted
  <2>5. OneDocument'
    BY <1>1, <1>2, <2>1, <2>2, SMTT(30) DEF SessionInv, StageInv, OneDocument, Stale, Mounted
  <2> QED BY <2>3, <2>4, <2>5 DEF SessionInv
<1>5. CASE ~ Stale /\ ~ Registered(props.mime)
  <2>1. binding' = None /\ pc' = "idle" /\ chain' = chain - 1 /\ props = last
    BY <1>5, Zenon DEF AfterConnect, MountBinding, FinishInit, Stale
  <2>2. StageInv'
    BY <1>1, <1>2, <1>5, <2>1, Zenon DEF SessionInv, StageInv, Ready, Stale, Mounted
  <2>3. QueueInv'
    BY <1>1, <1>2, <1>5, <2>1, SMTT(30) DEF SessionInv, StageInv, QueueInv, Ready, Stale, Mounted
  <2>4. OneDocument'
    BY <1>1, <1>2, <1>5, <2>1, Zenon DEF SessionInv, StageInv, OneDocument, Ready, Stale, Mounted
  <2> QED BY <2>2, <2>3, <2>4 DEF SessionInv
<1> QED BY <1>3, <1>4, <1>5

(* One step per event and per await of the initialisation.                 *)
LEMMA SessionStep ==
  ASSUME Typed, SessionInv, [Next]_vars
  PROVE  SessionInv'
<1> USE DEF host, session, comments, presence
<1>1. CASE UNCHANGED vars
  BY <1>1, SessionFrame, Zenon DEF vars
<1>2. CASE SkipInit
  <2>1. /\ UNCHANGED <<props, last, pc, prov, binding, mode, coordinators, engine, polling, intact>>
        /\ pc = "idle" /\ ~ Stale
    BY <1>2, Zenon DEF SkipInit, Stale
  <2>2. \A c : Ready(c) => Ready(c)'
    BY <2>1, Zenon DEF Ready
  <2>3. StageInv'
    BY <2>1, <2>2, Zenon DEF SessionInv, StageInv, Stale, Mounted
  <2>4. QueueInv'
    BY <2>1, <2>2, Zenon DEF SessionInv, StageInv, QueueInv, Stale, Mounted
  <2>5. OneDocument'
    BY <2>1, <2>2, Zenon DEF SessionInv, StageInv, OneDocument, Stale, Mounted
  <2> QED BY <2>3, <2>4, <2>5 DEF SessionInv
<1>3. CASE StartInit
  <2>1. /\ last' = props /\ props' = props /\ coordinators' = None /\ engine' = None
        /\ polling' = FALSE /\ intact' = TRUE /\ props # None
    BY <1>3, ProviderTypes, Zenon DEF StartInit, TearDown, DetachComments, Typed, TypeOK
  <2>2. CASE props.room # None
    <3>1. prov' = NewProvider(props) /\ binding' = None /\ pc' = "connecting"
      BY <1>3, <2>2, Zenon DEF StartInit
    <3>2. prov' # None /\ prov'.room = props.room /\ prov'.alive
      BY <2>2, <3>1, ProviderTypes, Zenon DEF NewProvider, Typed, TypeOK
    <3> QED BY <2>1, <2>2, <3>1, <3>2
          DEF SessionInv, StageInv, QueueInv, OneDocument, Stale, Mounted
  <2>3. CASE props.room = None /\ Registered(props.mime)
    <3>1. MountBinding(None) /\ prov' = None
      BY <1>3, <2>3, Zenon DEF StartInit
    <3>2. pc' = "mounting" /\ Ready(last)'
      BY <2>1, <2>3, <3>1, MountReady, Zenon
    <3> QED BY <2>1, <3>1, <3>2
          DEF SessionInv, StageInv, QueueInv, OneDocument, Stale, Mounted
  <2>4. CASE props.room = None /\ ~ Registered(props.mime)
    <3>1. prov' = None /\ binding' = None /\ pc' = "idle"
      BY <1>3, <2>4, Zenon DEF StartInit, MountBinding, FinishInit
    <3> QED BY <2>1, <2>4, <3>1
          DEF SessionInv, StageInv, QueueInv, OneDocument, Stale, Mounted
  <2> QED BY <2>2, <2>3, <2>4
<1>4. CASE ConnectResolves
  BY <1>4, AfterConnectSession, Zenon DEF ConnectResolves
<1>5. CASE ConnectRejects
  BY <1>5, AfterConnectSession, Zenon DEF ConnectRejects
<1>6. CASE MountDone
  <2>1. /\ UNCHANGED <<props, last, chain, prov, binding, coordinators, engine, polling, intact>>
        /\ pc = "mounting" /\ pc' = (IF prov = None THEN "synced" ELSE "reconnecting")
        /\ mode' = binding.mode
    BY <1>6, Zenon DEF MountDone
  <2>2. Ready(last)'
    BY <2>1, Zenon DEF SessionInv, StageInv, Ready, Mounted
  <2>3. StageInv'
    BY <2>1, <2>2, Zenon DEF SessionInv, StageInv, Stale, Mounted
  <2>4. QueueInv'
    BY <2>1, <2>2, Zenon DEF SessionInv, StageInv, QueueInv, Stale, Mounted
  <2>5. OneDocument'
    BY <2>1, <2>2, Zenon DEF SessionInv, StageInv, OneDocument, Stale, Mounted
  <2> QED BY <2>3, <2>4, <2>5 DEF SessionInv
<1>7. CASE WhenConnected
  <2>1. /\ UNCHANGED <<props, last, chain, prov, binding, mode, coordinators, engine, polling, intact>>
        /\ pc = "reconnecting" /\ pc' \in {"syncing", "synced"}
    BY <1>7, Zenon DEF WhenConnected
  <2>2. Ready(last)'
    BY <2>1, SMTT(30) DEF SessionInv, StageInv, Ready, Mounted
  <2>3. StageInv'
    BY <2>1, <2>2, SMTT(30) DEF SessionInv, StageInv, Stale, Mounted
  <2>4. QueueInv'
    BY <2>1, <2>2, Zenon DEF SessionInv, StageInv, QueueInv, Stale, Mounted
  <2>5. OneDocument'
    BY <2>1, <2>2, Zenon DEF SessionInv, StageInv, OneDocument, Stale, Mounted
  <2> QED BY <2>3, <2>4, <2>5 DEF SessionInv
<1>8. CASE WhenSynced
  <2>1. /\ UNCHANGED <<props, last, chain, prov, binding, mode, coordinators, engine, polling, intact>>
        /\ pc = "syncing" /\ pc' \in {"syncing", "synced"}
    BY <1>8, Zenon DEF WhenSynced
  <2>2. Ready(last)'
    BY <2>1, SMTT(30) DEF SessionInv, StageInv, Ready, Mounted
  <2>3. StageInv'
    BY <2>1, <2>2, SMTT(30) DEF SessionInv, StageInv, Stale, Mounted
  <2>4. QueueInv'
    BY <2>1, <2>2, Zenon DEF SessionInv, StageInv, QueueInv, Stale, Mounted
  <2>5. OneDocument'
    BY <2>1, <2>2, Zenon DEF SessionInv, StageInv, OneDocument, Stale, Mounted
  <2> QED BY <2>3, <2>4, <2>5 DEF SessionInv
<1>9. CASE AttachCoordinators
  <2>1. /\ UNCHANGED <<props, last, prov, binding, mode, engine, polling, intact>>
        /\ pc = "synced" /\ chain \in Nat
    BY <1>9, InitAssumption DEF AttachCoordinators, Typed, TypeOK
  <2>2. Ready(last) /\ Ready(last)'
    BY <2>1, Zenon DEF SessionInv, StageInv, Ready, Mounted
  <2>3. CASE Stale \/ prov = None
    <3>1. pc' = "idle" /\ chain' = chain - 1 /\ coordinators' = coordinators
      BY <1>9, <2>3, Zenon DEF AttachCoordinators, FinishInit
    <3>2. ~ Stale => last.room = None
      BY <2>2, <2>3, Zenon DEF Ready
    <3>3. StageInv'
      BY <2>1, <2>2, <3>1, <3>2, Zenon DEF SessionInv, StageInv, Stale, Mounted
    <3>4. QueueInv'
      BY <2>1, <2>2, <3>1, <3>2 DEF SessionInv, StageInv, QueueInv, Stale, Mounted
    <3>5. OneDocument'
      BY <2>1, <2>2, <3>1, <3>2, Zenon DEF SessionInv, StageInv, OneDocument, Stale, Mounted
    <3> QED BY <3>3, <3>4, <3>5 DEF SessionInv
  <2>4. CASE ~ (Stale \/ prov = None)
    <3>1. pc' = "capabilities" /\ chain' = chain /\ coordinators' = prov.room /\ prov # None
      BY <1>9, <2>4, Zenon DEF AttachCoordinators
    <3>2. StageInv'
      BY <2>1, <2>2, <3>1, Zenon DEF SessionInv, StageInv, Stale, Mounted
    <3>3. QueueInv'
      BY <2>1, <2>2, <3>1, Zenon DEF SessionInv, StageInv, QueueInv, Stale, Mounted
    <3>4. OneDocument'
      BY <2>1, <2>2, <3>1, Zenon DEF SessionInv, StageInv, OneDocument, Stale, Mounted
    <3> QED BY <3>2, <3>3, <3>4 DEF SessionInv
  <2> QED BY <2>3, <2>4
<1>10. ASSUME NEW ok \in BOOLEAN, RelayCapabilities(ok) PROVE SessionInv'
  <2>1. /\ UNCHANGED <<props, last, prov, binding, mode, coordinators, engine, polling, intact>>
        /\ pc = "capabilities" /\ chain \in Nat
        /\ \/ pc' = "comments" /\ chain' = chain
           \/ pc' = "idle" /\ chain' = chain - 1
    BY <1>10, InitAssumption DEF RelayCapabilities, FinishInit, Typed, TypeOK
  <2>2. Ready(last) /\ Ready(last)'
    BY <2>1, SMTT(30) DEF SessionInv, StageInv, Ready, Mounted
  <2>3. last.room # None => prov.room = last.room
    BY <2>2, Zenon DEF Ready
  <2>4. StageInv'
    BY <2>1, <2>2, <2>3, SMTT(30) DEF SessionInv, StageInv, Mounted
  <2>5. QueueInv'
    BY <2>1, <2>2, <2>3, SMTT(30) DEF SessionInv, StageInv, QueueInv, Stale, Mounted
  <2>6. OneDocument'
    BY <2>1, <2>2, <2>3, Zenon DEF SessionInv, OneDocument
  <2> QED BY <2>4, <2>5, <2>6 DEF SessionInv
<1>11. ASSUME NEW ok \in BOOLEAN, CommentCapabilities(ok) PROVE SessionInv'
  <2>1. /\ UNCHANGED <<props, last, prov, binding, mode, coordinators, polling, intact>>
        /\ pc = "comments" /\ chain \in Nat
        /\ \/ pc' = "threads" /\ chain' = chain /\ engine' = prov.room
           \/ pc' = "idle" /\ chain' = chain - 1 /\ engine' = engine
    BY <1>11, InitAssumption DEF CommentCapabilities, FinishInit, Typed, TypeOK
  <2>2. Ready(last) /\ Ready(last)' /\ prov # None
    BY <2>1, Zenon DEF SessionInv, StageInv, Ready, Mounted
  <2>3. prov.room = last.room /\ prov.room # None
    BY <2>2, Zenon DEF Ready, Providers, Typed, TypeOK
  <2>4. StageInv'
    BY <2>1, <2>2, <2>3, SMTT(30) DEF SessionInv, StageInv, Mounted
  <2>5. QueueInv'
    BY <2>1, <2>2, <2>3 DEF SessionInv, StageInv, QueueInv, Stale, Mounted
  <2>6. OneDocument'
    BY <2>1, <2>2, <2>3, Zenon DEF SessionInv, OneDocument
  <2> QED BY <2>4, <2>5, <2>6 DEF SessionInv
<1>12. CASE ThreadsLoaded
  <2>1. /\ UNCHANGED <<props, last, prov, binding, mode, coordinators, engine, intact>>
        /\ pc = "threads" /\ chain \in Nat
        /\ pc' = "idle" /\ chain' = chain - 1
    BY <1>12, InitAssumption, SMTT(30) DEF ThreadsLoaded, FinishInit, Typed, TypeOK
  <2>2. Ready(last) /\ Ready(last)' /\ prov # None
    BY <2>1, SMTT(30) DEF SessionInv, StageInv, Ready, Mounted
  <2>3. prov.room = last.room /\ prov.room # None
    BY <2>2, SMTT(30) DEF Ready, Providers, Typed, TypeOK
  <2>4. StageInv'
    BY <2>1, <2>2, <2>3, SMTT(30) DEF SessionInv, StageInv, Mounted
  <2>5. QueueInv'
    BY <2>1, <2>2, <2>3, SMTT(30) DEF SessionInv, StageInv, QueueInv, Stale, Mounted
  <2>6. OneDocument'
    BY <2>1, <2>2, <2>3, Zenon DEF SessionInv, StageInv, OneDocument
  <2> QED BY <2>4, <2>5, <2>6 DEF SessionInv
<1>13. ASSUME NEW c \in Configs, Configure(c) PROVE SessionInv'
  <2>1. /\ UNCHANGED <<last, pc, prov, binding, mode, coordinators, engine, polling, intact>>
        /\ props' = c /\ chain' = (IF c # last THEN chain + 1 ELSE chain)
        /\ c # props /\ (pc = "idle" => chain = 0)
    BY <1>13, Zenon DEF Configure, RequestInit, Awaiting
  <2>2. chain \in Nat /\ (pc # "idle" => chain > 0)
    BY InitAssumption, SMTT(30) DEF Typed, TypeOK
  <2>3. \A x : Ready(x) => Ready(x)'
    BY <2>1, Zenon DEF Ready
  <2>4. pc = "idle" => ~ Stale
    BY <2>1, SMTT(30) DEF SessionInv, QueueInv
  <2>5. StageInv'
    BY <2>1, <2>2, <2>3, <2>4, Zenon DEF SessionInv, StageInv, Stale, Mounted
  <2>6. QueueInv'
    BY <2>1, <2>2, <2>3, <2>4, SMTT(30) DEF SessionInv, StageInv, QueueInv, Stale, Mounted
  <2>7. OneDocument'
    BY <2>1, <2>2, <2>3, <2>4, Zenon DEF SessionInv, StageInv, OneDocument, Stale, Mounted
  <2> QED BY <2>5, <2>6, <2>7 DEF SessionInv
<1>14. ASSUME NEW m \in Modes, SwitchMode(m) PROVE SessionInv'
  <2>1. /\ UNCHANGED <<props, last, chain, pc, prov, binding, coordinators, engine, polling, intact>>
        /\ mode' = m /\ m \in Supported(binding.mime)
    BY <1>14, Zenon DEF SwitchMode
  <2>2. \A x : Ready(x) => Ready(x)'
    BY <2>1, SMTT(30) DEF Ready
  <2>3. StageInv'
    BY <2>1, <2>2, SMTT(30) DEF SessionInv, StageInv, Stale, Mounted
  <2>4. QueueInv'
    BY <2>1, <2>2, SMTT(30) DEF SessionInv, StageInv, QueueInv, Stale, Mounted
  <2>5. OneDocument'
    BY <2>1, <2>2, Zenon DEF SessionInv, StageInv, OneDocument, Stale, Mounted
  <2> QED BY <2>3, <2>4, <2>5 DEF SessionInv
<1>15. CASE ThreadsChange
  BY <1>15, SessionFrame, Zenon DEF ThreadsChange
<1>16. ASSUME NEW a \in BOOLEAN, SetActiveThread(a) PROVE SessionInv'
  BY <1>16, SessionFrame, Zenon DEF SetActiveThread
<1>17. ASSUME NEW m \in BOOLEAN, SetDecorationsMuted(m) PROVE SessionInv'
  BY <1>17, SessionFrame, Zenon DEF SetDecorationsMuted
<1>18. CASE DisconnectedCallback
  <2>1. /\ UNCHANGED <<props, last, chain, pc, mode>>
        /\ intact' = FALSE
        /\ binding' = (IF binding = None THEN None ELSE [binding EXCEPT !.alive = FALSE])
        /\ prov' = Destroyed(prov)
    BY <1>18, Zenon DEF DisconnectedCallback
  <2>2. /\ prov' = None <=> prov = None
        /\ prov # None => prov'.room = prov.room
    <3>1. CASE prov = None
      BY <2>1, <3>1, Zenon DEF Destroyed
    <3>2. CASE prov # None
      <4>1. prov \in Providers /\ prov' \in Providers
        BY <2>1, <3>2, ProviderTypes, Zenon DEF Typed, TypeOK
      <4>2. prov'.room = prov.room
        BY <2>1, <3>2, <4>1, Zenon DEF Destroyed, Disconnected, Providers
      <4> QED BY <3>2, <4>1, <4>2, ProviderTypes
    <3> QED BY <3>1, <3>2
  <2>3. /\ binding' = None <=> binding = None
        /\ binding # None => /\ binding'.mime = binding.mime /\ binding'.room = binding.room
                             /\ binding'.mode = binding.mode
    <3>1. CASE binding = None
      BY <2>1, <3>1, Zenon
    <3>2. CASE binding # None
      <4>1. binding \in Bindings
        BY <3>2, Zenon DEF Typed, TypeOK
      <4>2. binding' \in Bindings /\ binding'.mime = binding.mime
            /\ binding'.room = binding.room /\ binding'.mode = binding.mode
        BY <2>1, <3>2, <4>1, Zenon DEF Bindings
      <4> QED BY <3>2, <4>2, ProviderTypes
    <3> QED BY <3>1, <3>2
  <2>4. \A x : Ready(x) => Ready(x)'
    BY <2>1, <2>2, <2>3, Zenon DEF Ready
  <2>5. StageInv'
    BY <2>1, <2>2, <2>3, <2>4, Zenon DEF SessionInv, StageInv, Stale, Mounted
  <2>6. QueueInv'
    BY <2>1, <2>2, <2>3, <2>4, Zenon DEF SessionInv, StageInv, QueueInv, Stale, Mounted
  <2>7. OneDocument'
    BY <2>1, <2>2, <2>3, <2>4, Zenon DEF SessionInv, StageInv, OneDocument, Stale, Mounted
  <2> QED BY <2>5, <2>6, <2>7 DEF SessionInv
<1>19. CASE TransportUp
  <2>1. prov \in Providers /\ prov # None
    BY <1>19, Zenon DEF TransportUp, Typed, TypeOK
  <2>2. prov'.room = prov.room /\ prov'.alive = prov.alive
    BY <1>19, <2>1, Zenon DEF TransportUp, Connected, Providers
  <2>3. prov' # None
    BY <1>19, <2>1, ProviderTypes, Zenon DEF TransportUp
  <2> QED BY <1>19, <2>1, <2>2, <2>3, SessionFrame DEF TransportUp
<1>20. CASE TransportDown
  <2>1. prov \in Providers /\ prov # None
    BY <1>20, Zenon DEF TransportDown, Typed, TypeOK
  <2>2. prov'.room = prov.room /\ prov'.alive = prov.alive
    BY <1>20, <2>1, Zenon DEF TransportDown, Disconnected, Providers
  <2>3. prov' # None
    BY <1>20, <2>1, ProviderTypes, Zenon DEF TransportDown
  <2> QED BY <1>20, <2>1, <2>2, <2>3, SessionFrame DEF TransportDown
<1>21. ASSUME NEW m \in DOMAIN SyncType, Receive(m) PROVE SessionInv'
  <2>1. prov \in Providers /\ prov # None
    BY <1>21, Zenon DEF Receive, Typed, TypeOK
  <2>2. prov' \in Providers /\ prov'.room = prov.room /\ prov'.alive = prov.alive
    BY <1>21, <2>1, Zenon DEF Receive, Providers
  <2> QED BY <1>21, <2>1, <2>2, ProviderTypes, SessionFrame, Zenon DEF Receive
<1>22. ASSUME NEW s \in SUBSET Peers, ReceiveAwareness(s) PROVE SessionInv'
  BY <1>22, SessionFrame, Zenon DEF ReceiveAwareness
<1> QED BY <1>1, <1>2, <1>3, <1>4, <1>5, <1>6, <1>7, <1>8, <1>9, <1>10, <1>11,
           <1>12, <1>13, <1>14, <1>15, <1>16, <1>17, <1>18, <1>19, <1>20,
           <1>21, <1>22 DEF Next, InitStep

(***************************************************************************)
(* Presence and decorations.                                               *)
(***************************************************************************)

LEMMA AfterConnectPresence ==
  ASSUME Typed, StageInv, PresenceInv, pc = "connecting", AfterConnect
  PROVE  PresenceInv'
<1>1. prov # None
  BY Zenon DEF StageInv
<1>2. prov' = prov /\ seen' = seen /\ wired' = prov.alive /\ shown' = seen
  BY Zenon DEF AfterConnect, WireAwareness
<1>3. prov.status # "connected" => seen = {}
  BY <1>1, Zenon DEF PresenceInv
<1>4. prov.alive \in BOOLEAN
  BY <1>1, Zenon DEF Providers, Typed, TypeOK
<1> QED BY <1>1, <1>2, <1>3, <1>4 DEF PresenceInv, CollaboratorsFresh

(* The list of collaborators follows the awareness.                        *)
LEMMA PresenceStep ==
  ASSUME Typed, StageInv, PresenceInv, [Next]_vars
  PROVE  PresenceInv'
<1> USE DEF host, session, comments, presence
<1>1. CASE UNCHANGED vars
  BY <1>1, Zenon DEF vars, PresenceInv, CollaboratorsFresh
<1>2. CASE SkipInit
  <2>1. UNCHANGED <<prov, wired, seen, shown>>
    BY <1>2, Zenon DEF SkipInit
  <2> QED BY <2>1 DEF PresenceInv, CollaboratorsFresh
<1>3. CASE StartInit
  <2>1. wired' = FALSE /\ seen' = {}
    BY <1>3, Zenon DEF StartInit, TearDown
  <2> QED BY <2>1 DEF PresenceInv, CollaboratorsFresh
<1>4. CASE ConnectResolves
  BY <1>4, AfterConnectPresence, Zenon DEF ConnectResolves
<1>5. CASE ConnectRejects
  BY <1>5, AfterConnectPresence, Zenon DEF ConnectRejects
<1>6. CASE MountDone
  <2>1. UNCHANGED <<prov, wired, seen, shown>>
    BY <1>6, Zenon DEF MountDone
  <2> QED BY <2>1 DEF PresenceInv, CollaboratorsFresh
<1>7. CASE WhenConnected
  <2>1. UNCHANGED <<prov, wired, seen, shown>>
    BY <1>7, Zenon DEF WhenConnected
  <2> QED BY <2>1 DEF PresenceInv, CollaboratorsFresh
<1>8. CASE WhenSynced
  <2>1. UNCHANGED <<prov, wired, seen, shown>>
    BY <1>8, Zenon DEF WhenSynced
  <2> QED BY <2>1 DEF PresenceInv, CollaboratorsFresh
<1>9. CASE AttachCoordinators
  <2>1. UNCHANGED <<prov, wired, seen, shown>>
    BY <1>9, Zenon DEF AttachCoordinators
  <2> QED BY <2>1 DEF PresenceInv, CollaboratorsFresh
<1>10. ASSUME NEW ok \in BOOLEAN, RelayCapabilities(ok) PROVE PresenceInv'
  <2>1. UNCHANGED <<prov, wired, seen, shown>>
    BY <1>10, Zenon DEF RelayCapabilities
  <2> QED BY <2>1 DEF PresenceInv, CollaboratorsFresh
<1>11. ASSUME NEW ok \in BOOLEAN, CommentCapabilities(ok) PROVE PresenceInv'
  <2>1. UNCHANGED <<prov, wired, seen, shown>>
    BY <1>11, Zenon DEF CommentCapabilities
  <2> QED BY <2>1 DEF PresenceInv, CollaboratorsFresh
<1>12. CASE ThreadsLoaded
  <2>1. UNCHANGED <<prov, wired, seen, shown>>
    BY <1>12, Zenon DEF ThreadsLoaded
  <2> QED BY <2>1 DEF PresenceInv, CollaboratorsFresh
<1>13. ASSUME NEW c \in Configs, Configure(c) PROVE PresenceInv'
  <2>1. UNCHANGED <<prov, wired, seen, shown>>
    BY <1>13, Zenon DEF Configure
  <2> QED BY <2>1 DEF PresenceInv, CollaboratorsFresh
<1>14. ASSUME NEW m \in Modes, SwitchMode(m) PROVE PresenceInv'
  <2>1. UNCHANGED <<prov, wired, seen, shown>>
    BY <1>14, Zenon DEF SwitchMode
  <2> QED BY <2>1 DEF PresenceInv, CollaboratorsFresh
<1>15. CASE ThreadsChange
  <2>1. UNCHANGED <<prov, wired, seen, shown>>
    BY <1>15, Zenon DEF ThreadsChange
  <2> QED BY <2>1 DEF PresenceInv, CollaboratorsFresh
<1>16. ASSUME NEW a \in BOOLEAN, SetActiveThread(a) PROVE PresenceInv'
  <2>1. UNCHANGED <<prov, wired, seen, shown>>
    BY <1>16, Zenon DEF SetActiveThread
  <2> QED BY <2>1 DEF PresenceInv, CollaboratorsFresh
<1>17. ASSUME NEW m \in BOOLEAN, SetDecorationsMuted(m) PROVE PresenceInv'
  <2>1. UNCHANGED <<prov, wired, seen, shown>>
    BY <1>17, Zenon DEF SetDecorationsMuted
  <2> QED BY <2>1 DEF PresenceInv, CollaboratorsFresh
<1>18. CASE DisconnectedCallback
  <2>1. wired' = FALSE /\ seen' = {}
    BY <1>18, Zenon DEF DisconnectedCallback
  <2> QED BY <2>1 DEF PresenceInv, CollaboratorsFresh
<1>19. CASE TransportUp
  <2>1. prov \in Providers /\ prov # None /\ UNCHANGED <<wired, seen, shown>>
    BY <1>19, Zenon DEF TransportUp, Typed, TypeOK
  <2>2. prov'.alive = prov.alive /\ prov'.status = "connected"
    BY <1>19, <2>1, Zenon DEF TransportUp, Connected, Providers
  <2>3. prov' # None
    BY <1>19, <2>1, ProviderTypes, Zenon DEF TransportUp
  <2> QED BY <2>1, <2>2, <2>3 DEF PresenceInv, CollaboratorsFresh
<1>20. CASE TransportDown
  <2>1. prov \in Providers /\ prov # None /\ wired' = wired
        /\ seen' = {} /\ shown' = (IF wired THEN {} ELSE shown)
    BY <1>20, Zenon DEF TransportDown, Typed, TypeOK
  <2>2. prov'.alive = prov.alive
    BY <1>20, <2>1, Zenon DEF TransportDown, Disconnected, Providers
  <2>3. prov' # None
    BY <1>20, <2>1, ProviderTypes, Zenon DEF TransportDown
  <2> QED BY <2>1, <2>2, <2>3 DEF PresenceInv, CollaboratorsFresh
<1>21. ASSUME NEW m \in DOMAIN SyncType, Receive(m) PROVE PresenceInv'
  <2>1. prov \in Providers /\ prov # None /\ UNCHANGED <<wired, seen, shown>>
        /\ prov.status = "connected"
    BY <1>21, Zenon DEF Receive, Typed, TypeOK
  <2>2. prov' \in Providers /\ prov'.alive = prov.alive /\ prov'.status = "connected"
    BY <1>21, <2>1, Zenon DEF Receive, Providers
  <2>3. prov' # None
    BY <2>2, ProviderTypes, Zenon
  <2> QED BY <2>1, <2>2, <2>3 DEF PresenceInv, CollaboratorsFresh
<1>22. ASSUME NEW s \in SUBSET Peers, ReceiveAwareness(s) PROVE PresenceInv'
  <2>1. /\ prov # None /\ prov.status = "connected" /\ UNCHANGED <<prov, wired>>
        /\ seen' = s /\ shown' = (IF wired THEN s ELSE shown)
    BY <1>22, Zenon DEF ReceiveAwareness
  <2> QED BY <2>1 DEF PresenceInv, CollaboratorsFresh
<1> QED BY <1>1, <1>2, <1>3, <1>4, <1>5, <1>6, <1>7, <1>8, <1>9, <1>10, <1>11,
           <1>12, <1>13, <1>14, <1>15, <1>16, <1>17, <1>18, <1>19, <1>20,
           <1>21, <1>22 DEF Next, InitStep

(* The surfaces follow the coordinator.                                    *)
LEMMA DecorationsStep ==
  ASSUME Typed, StageInv, DecorationsFresh, [Next]_vars
  PROVE  DecorationsFresh'
<1> USE DEF host, session, comments, presence
<1>1. CASE UNCHANGED vars
  BY <1>1, Zenon DEF vars, DecorationsFresh
<1>2. CASE SkipInit
  BY <1>2, Zenon DEF SkipInit, DecorationsFresh
<1>3. CASE StartInit
  BY <1>3, Zenon DEF StartInit, TearDown, DetachComments, DecorationsFresh
<1>4. CASE ConnectResolves
  BY <1>4, Zenon DEF ConnectResolves, AfterConnect, DecorationsFresh
<1>5. CASE ConnectRejects
  BY <1>5, Zenon DEF ConnectRejects, AfterConnect, DecorationsFresh
<1>6. CASE MountDone
  BY <1>6, Zenon DEF MountDone, DecorationsFresh
<1>7. CASE WhenConnected
  BY <1>7, Zenon DEF WhenConnected, DecorationsFresh
<1>8. CASE WhenSynced
  BY <1>8, Zenon DEF WhenSynced, DecorationsFresh
<1>9. CASE AttachCoordinators
  BY <1>9, Zenon DEF AttachCoordinators, DecorationsFresh
<1>10. ASSUME NEW ok \in BOOLEAN, RelayCapabilities(ok) PROVE DecorationsFresh'
  BY <1>10, Zenon DEF RelayCapabilities, DecorationsFresh
<1>11. ASSUME NEW ok \in BOOLEAN, CommentCapabilities(ok) PROVE DecorationsFresh'
  <2>1. prov \in Providers
    BY <1>11, Zenon DEF CommentCapabilities, StageInv, Typed, TypeOK
  <2>2. prov.room # None
    BY <2>1, Zenon DEF Providers
  <2> QED BY <1>11, <2>2, SMTT(30) DEF CommentCapabilities, DecorationsFresh
<1>12. CASE ThreadsLoaded
  BY <1>12, Zenon DEF ThreadsLoaded, DecorationsFresh
<1>13. ASSUME NEW c \in Configs, Configure(c) PROVE DecorationsFresh'
  BY <1>13, Zenon DEF Configure, DecorationsFresh
<1>14. ASSUME NEW m \in Modes, SwitchMode(m) PROVE DecorationsFresh'
  BY <1>14, Zenon DEF SwitchMode, Pushed, DecorationsFresh
<1>15. CASE ThreadsChange
  BY <1>15, Zenon DEF ThreadsChange, Pushed, DecorationsFresh
<1>16. ASSUME NEW a \in BOOLEAN, SetActiveThread(a) PROVE DecorationsFresh'
  BY <1>16, Zenon DEF SetActiveThread, Pushed, DecorationsFresh
<1>17. ASSUME NEW m \in BOOLEAN, SetDecorationsMuted(m) PROVE DecorationsFresh'
  BY <1>17, Zenon DEF SetDecorationsMuted, Pushed, DecorationsFresh
<1>18. CASE DisconnectedCallback
  BY <1>18, Zenon DEF DisconnectedCallback, DetachComments, DecorationsFresh
<1>19. CASE TransportUp
  BY <1>19, Zenon DEF TransportUp, DecorationsFresh
<1>20. CASE TransportDown
  BY <1>20, Zenon DEF TransportDown, DecorationsFresh
<1>21. ASSUME NEW m \in DOMAIN SyncType, Receive(m) PROVE DecorationsFresh'
  BY <1>21, Zenon DEF Receive, DecorationsFresh
<1>22. ASSUME NEW s \in SUBSET Peers, ReceiveAwareness(s) PROVE DecorationsFresh'
  BY <1>22, Zenon DEF ReceiveAwareness, DecorationsFresh
<1> QED BY <1>1, <1>2, <1>3, <1>4, <1>5, <1>6, <1>7, <1>8, <1>9, <1>10, <1>11,
           <1>12, <1>13, <1>14, <1>15, <1>16, <1>17, <1>18, <1>19, <1>20,
           <1>21, <1>22 DEF Next, InitStep

(***************************************************************************)
(* The theorems.                                                           *)
(***************************************************************************)

(* Types and session form one inductive invariant: what the provider and   *)
(* the binding are at an await depends on the stage the initialisation has *)
(* reached.                                                                *)
THEOREM SessionCorrect == Spec => [](Typed /\ SessionInv)
<1>1. Init => Typed /\ SessionInv
  <2> SUFFICES ASSUME Init PROVE Typed /\ SessionInv
    BY Zenon
  <2>1. Typed
    <3>1. /\ changes \in 0 .. MaxChanges /\ chain \in 0 .. MaxChanges + 2
          /\ chain <= changes + 2
      BY InitAssumption DEF Init
    <3>2. /\ polling \in BOOLEAN /\ intact \in BOOLEAN /\ wired \in BOOLEAN
          /\ active \in BOOLEAN /\ muted \in BOOLEAN
      BY Zenon DEF Init
    <3> QED BY <3>1, <3>2 DEF Init, Typed, TypeOK, ChainInv, Rooms, Modes
  <2>2. props # None
    BY ProviderTypes, Zenon DEF Init
  <2> QED BY <2>1, <2>2
        DEF Init, SessionInv, StageInv, QueueInv, OneDocument, Stale, Mounted
<1>2. Typed /\ SessionInv /\ [Next]_vars => (Typed /\ SessionInv)'
  BY TypeStep, SessionStep, Zenon DEF SessionInv
<1> QED BY <1>1, <1>2, PTL DEF Spec

(* Every variable keeps its type, and the chain of initialisations is      *)
(* bounded by the changes of the configuration.                            *)
THEOREM TypeCorrect == Spec => []TypeOK
<1>1. Typed /\ SessionInv => TypeOK
  BY Zenon DEF Typed
<1> QED BY <1>1, SessionCorrect, PTL

(* When the chain has drained, the editor serves the configuration the host*)
(* set last (_requestInit, _performInit).                                  *)
THEOREM SettledCorrect == Spec => []Settled
<1>1. Typed /\ SessionInv => Settled
  <2> SUFFICES ASSUME Typed, SessionInv, pc = "idle", chain = 0, intact,
                      Registered(props.mime)
               PROVE  Serves(props)
    BY Zenon DEF Settled
  <2>1. props = last
    BY DEF SessionInv, QueueInv, Stale
  <2>2. Ready(props) /\ (props.room # None => coordinators = props.room)
    BY <2>1, Zenon DEF SessionInv, QueueInv, Stale
  <2> QED BY <2>2 DEF Ready, Serves
<1> QED BY <1>1, SessionCorrect, PTL

(* Nothing of the session belongs to another document (_performInit's      *)
(* teardown and the checks after its awaits).                              *)
THEOREM OneDocumentCorrect == Spec => []OneDocument
<1>1. Typed /\ SessionInv => OneDocument
  BY Zenon DEF SessionInv
<1> QED BY <1>1, SessionCorrect, PTL

(* The list of collaborators is the awareness of the present connection    *)
(* (_wireAwareness).                                                       *)
THEOREM CollaboratorsCorrect == Spec => []CollaboratorsFresh
<1>1. Init => PresenceInv
  BY Zenon DEF Init, PresenceInv, CollaboratorsFresh
<1>2. Typed /\ SessionInv /\ PresenceInv /\ [Next]_vars => PresenceInv'
  BY PresenceStep, Zenon DEF SessionInv
<1>3. PresenceInv => CollaboratorsFresh
  BY Zenon DEF PresenceInv
<1> QED BY <1>1, <1>2, <1>3, SessionCorrect, PTL DEF Spec

(* The surfaces show the engine's present threads                          *)
(* (CommentCoordinator._pushDecorations).                                  *)
THEOREM DecorationsCorrect == Spec => []DecorationsFresh
<1>1. Init => DecorationsFresh
  BY Zenon DEF Init, DecorationsFresh
<1>2. Typed /\ SessionInv /\ DecorationsFresh /\ [Next]_vars => DecorationsFresh'
  BY DecorationsStep, Zenon DEF SessionInv
<1> QED BY <1>1, <1>2, SessionCorrect, PTL DEF Spec

----
\* A switched-on toggle belongs to an attached coordinator.
Toggled == blaming \in BOOLEAN /\ observing \in BOOLEAN /\ (blaming => observing)

\* The numbers SnapshotDue compares.
Counted == edits \in Int /\ captured \in Int /\ updates \in Int

\* Live blame is fresh only because it is never drawn without its toggle: an
\* update that meets no toggle starts no timer.
BlameInv == Toggled /\ BlameMatches /\ BlameFresh

SnapshotInv == Counted /\ SnapshotDue

----
(***************************************************************************)
(* Blame.                                                                  *)
(***************************************************************************)

\* What Decoration draws.
LEMMA DecorationFacts ==
    /\ NoDecoration.kind = "off"
    /\ \A names : LET d == Decoration("live", names)
                  IN  d.kind = "live" /\ d.names = names
                        /\ d.segments = ExtractBlame(items, names)
    /\ \A names : Decoration("version", names).kind = "version"
BY Zenon DEF NoDecoration, Decoration

\* updateBlame draws the document as it is, or nothing where nothing was drawn.
LEMMA UpdateBlameFacts ==
    \/ UpdateBlame.kind = "off"
    \/ /\ UpdateBlame.kind = "live"
       /\ UpdateBlame.segments = ExtractBlame(items, UpdateBlame.names)
BY DecorationFacts, Zenon DEF UpdateBlame

LEMMA BlameInit == ObserversInit => BlameInv
<1> SUFFICES ASSUME ObserversInit PROVE BlameInv
  BY Zenon
<1>1. Toggled /\ ~timer /\ log = 0
  BY Zenon DEF ObserversInit, Toggled
<1>2. decorated.kind = "off"
  BY DecorationFacts, Zenon DEF ObserversInit
<1>3. ~(log > 0)
  BY <1>1
<1> QED
  BY <1>1, <1>2, <1>3, Zenon DEF BlameInv, BlameMatches, BlameFresh

\* A step that leaves blame and the document alone.
LEMMA BlameFrame ==
    ASSUME BlameInv, UNCHANGED <<observing, items, blameVars>>
    PROVE  BlameInv'
BY Zenon DEF BlameInv, Toggled, BlameMatches, BlameFresh, blameVars

\* A step that takes the decorations off, with the toggle or without it.
LEMMA BlameOff ==
    ASSUME BlameInv, decorated' = NoDecoration, Toggled', timer' \/ log' > 0 => blaming'
    PROVE  BlameInv'
<1>1. NoDecoration.kind = "off"
  BY DecorationFacts, Zenon
<1>2. decorated'.kind = "off"
  BY <1>1, Zenon
<1>3. BlameMatches' /\ BlameFresh'
  BY <1>2, Zenon DEF BlameMatches, BlameFresh
<1> QED
  BY <1>3, Zenon DEF BlameInv

\* A step that draws the document as it is.
LEMMA BlameRedrawn ==
    ASSUME BlameInv, blaming', observing' = observing, observing, items' = items,
           blamingVersion' = blamingVersion,
           blaming' \in BOOLEAN,
           \/ decorated'.kind = "off"
           \/ decorated'.kind = "live" /\ decorated'.segments = ExtractBlame(items, decorated'.names)
    PROVE  BlameInv'
<1>1. Toggled'
  BY Zenon DEF BlameInv, Toggled
<1>2. BlameMatches'
  BY Zenon DEF BlameMatches
<1>3. BlameFresh'
  BY Zenon DEF BlameFresh
<1> QED
  BY <1>1, <1>2, <1>3, Zenon DEF BlameInv

LEMMA BlameStep ==
    ASSUME BlameInv, [ObserversNext]_observersVars
    PROVE  BlameInv'
<1>1. CASE EditDocument
  <2>1. /\ UNCHANGED <<observing, blaming, blamingVersion, decorated>>
        /\ timer' = blaming
        /\ IF blaming THEN log' \in Logged(log) ELSE log' = log
    BY <1>1, Zenon DEF EditDocument, Observed
  <2>2. Toggled' /\ BlameMatches'
    BY <2>1, Zenon DEF BlameInv, Toggled, BlameMatches
  <2>3. BlameFresh'
    BY <2>1, <2>2, Zenon DEF BlameInv, Toggled, BlameMatches, BlameFresh
  <2> QED
    BY <2>2, <2>3, Zenon DEF BlameInv
<1>2. ASSUME NEW c \in Clients, AwarenessChange(c)
      PROVE  BlameInv'
  BY <1>2, BlameFrame, Zenon DEF AwarenessChange
<1>3. CASE EditorDocReset
  BY <1>3, BlameFrame, Zenon DEF EditorDocReset
<1>4. CASE MinuteTimer
  BY <1>4, BlameFrame, Zenon DEF MinuteTimer
<1>5. CASE SnapshotDone
  BY <1>5, BlameFrame, Zenon DEF SnapshotDone
<1>6. CASE ToggleOn
  <2>1. decorated' = Decoration("live", present)
    BY <1>6, Zenon DEF ToggleOn
  <2>2. decorated'.kind = "live" /\ decorated'.segments = ExtractBlame(items, decorated'.names)
    BY <2>1, DecorationFacts, Zenon
  <2> QED
    BY <1>6, <2>2, BlameRedrawn, Zenon DEF ToggleOn
<1>7. CASE ToggleOff
  <2>1. Toggled' /\ ~timer' /\ log' = 0
    BY <1>7, Zenon DEF ToggleOff, StopBlame, BlameInv, Toggled
  <2>2. ~(log' > 0)
    BY <2>1
  <2> QED
    BY <1>7, <2>1, <2>2, BlameOff, Zenon DEF ToggleOff, StopBlame
<1>8. CASE BlameUpdate
  <2>1. /\ blaming /\ observing /\ UNCHANGED <<blaming, observing, items, blamingVersion>>
        /\ decorated' = UpdateBlame
    BY <1>8, Zenon DEF BlameUpdate, BlameInv, BlameMatches, Toggled
  <2>2. \/ decorated'.kind = "off"
        \/ decorated'.kind = "live" /\ decorated'.segments = ExtractBlame(items, decorated'.names)
    BY <2>1, UpdateBlameFacts, Zenon
  <2> QED
    BY <2>1, <2>2, BlameRedrawn, Zenon DEF BlameInv, Toggled
<1>9. CASE ModeSwitch
  <2>1. /\ blaming /\ observing /\ UNCHANGED <<blaming, observing, items, blamingVersion>>
        /\ decorated' = UpdateBlame
    BY <1>9, Zenon DEF ModeSwitch
  <2>2. \/ decorated'.kind = "off"
        \/ decorated'.kind = "live" /\ decorated'.segments = ExtractBlame(items, decorated'.names)
    BY <2>1, UpdateBlameFacts, Zenon
  <2> QED
    BY <2>1, <2>2, BlameRedrawn, Zenon DEF BlameInv, Toggled
<1>10. CASE ViewVersion
  <2>1. /\ blamingVersion' = TRUE
        /\ decorated' = decorated \/ decorated' = Decoration("version", {})
        /\ UNCHANGED <<observing, items, blaming, timer, log>>
    BY <1>10, Zenon DEF ViewVersion
  <2>2. decorated' = decorated \/ decorated'.kind = "version"
    BY <2>1, DecorationFacts, Zenon
  <2> QED
    BY <2>1, <2>2, Zenon DEF BlameInv, Toggled, BlameMatches, BlameFresh
<1>11. CASE ExitVersionBlame
  <2>1. Toggled' /\ (timer' \/ log' > 0 => blaming')
    BY <1>11, Zenon DEF ExitVersionBlame, BlameInv, Toggled, BlameMatches
  <2> QED
    BY <1>11, <2>1, BlameOff, Zenon DEF ExitVersionBlame
<1>12. CASE DetachObservers
  <2>1. Toggled' /\ ~timer' /\ log' = 0
    BY <1>12, Zenon DEF DetachObservers, StopBlame, Toggled
  <2>2. ~(log' > 0)
    BY <2>1
  <2> QED
    BY <1>12, <2>1, <2>2, BlameOff, Zenon DEF DetachObservers, StopBlame
<1>13. CASE AttachObservers
  <2>1. ~observing /\ observing' = TRUE /\ UNCHANGED <<blaming, timer, blamingVersion, decorated, log>>
    BY <1>13, Zenon DEF AttachObservers, blameVars
  <2>2. decorated.kind # "live"
    BY <2>1, Zenon DEF BlameInv, BlameMatches
  <2> QED
    BY <2>1, <2>2, Zenon DEF BlameInv, Toggled, BlameMatches, BlameFresh
<1>14. CASE UNCHANGED observersVars
  BY <1>14, BlameFrame, Zenon DEF observersVars, blameVars
<1> QED
  BY <1>1, <1>2, <1>3, <1>4, <1>5, <1>6, <1>7, <1>8, <1>9, <1>10, <1>11, <1>12, <1>13, <1>14, Zenon
     DEF ObserversNext

\* Decorations match what switched them on, through any order of views,
\* toggles, updates and documents (toggle, viewVersion, exitVersionView,
\* attach and detach of the coordinators).
THEOREM BlameMatchesCorrect == ObserversSpec => []BlameMatches
<1>1. BlameInv => BlameMatches
  BY Zenon DEF BlameInv
<1> QED
  BY BlameInit, BlameStep, <1>1, PTL DEF ObserversSpec

\* Live blame with no update due is that of the document it is drawn on, for a
\* document of any length (the debounced observer of LiveBlameManager).
THEOREM BlameFreshCorrect == ObserversSpec => []BlameFresh
<1>1. BlameInv => BlameFresh
  BY Zenon DEF BlameInv
<1> QED
  BY BlameInit, BlameStep, <1>1, PTL DEF ObserversSpec

----
(***************************************************************************)
(* Snapshots.                                                              *)
(***************************************************************************)

LEMMA SnapshotInit == ObserversInit => SnapshotInv
BY DEF ObserversInit, SnapshotInv, Counted, SnapshotDue

\* A snapshot sent or skipped leaves nothing to count.
LEMMA AutoSnapshotFacts ==
    ASSUME NEW rev \in Int, AutoSnapshot(rev), Counted
    PROVE  captured' \in Int /\ (missed' \/ captured' = rev)
<1>1. CASE inFlight
  BY <1>1, Zenon DEF AutoSnapshot, Counted
<1>2. CASE ~inFlight
  BY <1>2, Zenon DEF AutoSnapshot, Counted
<1> QED
  BY <1>1, <1>2, Zenon

LEMMA SnapshotFrame ==
    ASSUME SnapshotInv, UNCHANGED <<edits, snapshotVars>>
    PROVE  SnapshotInv'
BY Zenon DEF SnapshotInv, Counted, SnapshotDue, snapshotVars

LEMMA SnapshotStep ==
    ASSUME SnapshotInv, [ObserversNext]_observersVars
    PROVE  SnapshotInv'
<1> USE ObserversAssumption DEF SnapshotInv
<1>1. CASE EditDocument
  <2>1. edits' = edits + 1
    BY <1>1, Zenon DEF EditDocument
  <2>2. CASE updates + 1 < Threshold
    <3>1. updates' = updates + 1 /\ captured' = captured /\ missed' = missed
      BY <1>1, <2>2, Zenon DEF EditDocument, Observed
    <3> QED
      BY <2>1, <3>1 DEF Counted, SnapshotDue
  <2>3. CASE ~(updates + 1 < Threshold)
    <3>1. updates' = 0 /\ AutoSnapshot(edits + 1)
      BY <1>1, <2>3, Zenon DEF EditDocument, Observed
    <3>2. captured' \in Int /\ (missed' \/ captured' = edits + 1)
      BY <3>1, AutoSnapshotFacts DEF Counted
    <3>3. Counted' /\ edits' - (edits + 1) = updates'
      BY <2>1, <3>1, <3>2 DEF Counted
    <3> QED
      BY <3>2, <3>3, Zenon DEF SnapshotDue
  <2> QED
    BY <2>2, <2>3, Zenon
<1>2. ASSUME NEW c \in Clients, AwarenessChange(c)
      PROVE  SnapshotInv'
  BY <1>2, SnapshotFrame, Zenon DEF AwarenessChange
<1>3. CASE EditorDocReset
  BY <1>3, SnapshotFrame, Zenon DEF EditorDocReset
<1>4. CASE MinuteTimer
  <2>1. updates' = 0 /\ edits' = edits /\ AutoSnapshot(edits)
    BY <1>4, Zenon DEF MinuteTimer
  <2>2. captured' \in Int /\ (missed' \/ captured' = edits)
    BY <2>1, AutoSnapshotFacts, Zenon DEF Counted
  <2>3. Counted' /\ edits' - edits = updates'
    BY <2>1, <2>2 DEF Counted
  <2> QED
    BY <2>2, <2>3, Zenon DEF SnapshotDue
<1>5. CASE SnapshotDone
  <2>1. UNCHANGED <<edits, updates, captured>> /\ (missed' = missed \/ missed')
    BY <1>5, Zenon DEF SnapshotDone
  <2> QED
    BY <2>1, Zenon DEF Counted, SnapshotDue
<1>6. CASE ToggleOn
  BY <1>6, SnapshotFrame, Zenon DEF ToggleOn
<1>7. CASE ToggleOff
  BY <1>7, SnapshotFrame, Zenon DEF ToggleOff
<1>8. CASE BlameUpdate
  BY <1>8, SnapshotFrame, Zenon DEF BlameUpdate
<1>9. CASE ModeSwitch
  BY <1>9, SnapshotFrame, Zenon DEF ModeSwitch
<1>10. CASE ViewVersion
  BY <1>10, SnapshotFrame, Zenon DEF ViewVersion
<1>11. CASE ExitVersionBlame
  BY <1>11, SnapshotFrame, Zenon DEF ExitVersionBlame
<1>12. CASE DetachObservers
  BY <1>12, SnapshotFrame, Zenon DEF DetachObservers
<1>13. CASE AttachObservers
  BY <1>13 DEF AttachObservers, Counted, SnapshotDue
<1>14. CASE UNCHANGED observersVars
  BY <1>14, SnapshotFrame, Zenon DEF observersVars, snapshotVars
<1> QED
  BY <1>1, <1>2, <1>3, <1>4, <1>5, <1>6, <1>7, <1>8, <1>9, <1>10, <1>11, <1>12, <1>13, <1>14, Zenon
     DEF ObserversNext

\* No update is forgotten by the automatic snapshots unless one failed or fell
\* due while another was in flight, for any threshold and any number of
\* updates (VersionManager's observer, minute timer and _autoSnapshot).
THEOREM SnapshotDueCorrect == ObserversSpec => []SnapshotDue
<1>1. SnapshotInv => SnapshotDue
  BY Zenon DEF SnapshotInv
<1> QED
  BY SnapshotInit, SnapshotStep, <1>1, PTL DEF ObserversSpec

=============================================================================
