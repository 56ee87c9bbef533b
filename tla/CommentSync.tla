---- MODULE CommentSync ----
(***************************************************************************)
(* How one tab keeps its comment threads and the comments server in step   *)
(* (frontend/src/collab/comment-engine.ts).                                *)
(*                                                                         *)
(* Threads live in the Y.Map "comments" of the shared document.  Every     *)
(* change of the map that does not come from the server marks its thread   *)
(* dirty and restarts a debounce timer; when it fires, _persist drains the *)
(* dirty keys and sends, key after key, the requests that bring the server *)
(* up to the thread as it is then.  Nothing keeps two drains apart.  Polls *)
(* overwrite threads of the map with the server's copy.                    *)
(*                                                                         *)
(* The engine runs on one JavaScript thread: a drain gives way to other    *)
(* events only while it waits for a response.                              *)
(***************************************************************************)
EXTENDS Integers, FiniteSets, Functions, Arrays

CONSTANTS
    Threads,            \* ids of threads
    Replies,            \* ids of the comments after a thread's first
    Outside,            \* those made outside the editor
    Kinds,              \* decisions of a new thread: "none" of a plain comment,
                        \* "pending" of a suggestion
    Verdicts,           \* what a suggestion may be decided to
    Marks,              \* "edit" of a first comment, "reaction"
    MaxDrains,          \* the calls of _persist that may overlap (bound)
    MaxPersistRetries,  \* MAX_PERSIST_RETRIES, 5 in the code
    MaxChanges,         \* changes made by users and by others (bound)
    None

Drains == 1 .. MaxDrains

ASSUME RetriesAssumption == MaxPersistRetries \in Nat \ {0}
ASSUME InputsAssumption ==
    /\ Outside \subseteq Replies
    /\ Kinds \subseteq {"none", "pending"}
    /\ Verdicts \subseteq {"accepted", "rejected", "not_applicable"}
    /\ Marks \subseteq {"edit", "reaction"}
    /\ IsFiniteSet(Replies)
    /\ MaxChanges \in Nat

VARIABLES
    ymap,           \* ymap[t]: the stored thread, or None
    lastPersisted,  \* lastPersisted[t]: the thread as recorded last, or None
    dirty,          \* _dirty, a JavaScript Set: in order of insertion
    retryCount,     \* _retryCount, per key
    timer,          \* the debounce timer is armed
    drain,          \* the running calls of _persist
    poll,           \* the running poll, or the initial load
    alive,          \* destroy() has not been called
    server,         \* server[t]: the thread on the server, or None
    changed,        \* what the server would answer to a poll
    changes,        \* changes made so far
    made,           \* replies made so far: makeId() returns fresh ids
    held,           \* history: what the server has held of each thread
    uncarried,      \* history: what was recorded though its request left it out
    gaveUp,         \* history: threads whose last change ran out of retries
    overtaken,      \* history: threads whose record a slower drain replaced
    disturbed,      \* history: threads that others also sent, that met two
                    \* drains or a drain and a poll, or with a failed request
    twice           \* history: threads the server appended a reply to twice

vars == <<ymap, lastPersisted, dirty, retryCount, timer, drain, poll, alive,
          server, changed, changes, made, held, uncarried, gaveUp, overtaken,
          disturbed, twice>>

engine == <<dirty, retryCount, timer, drain>>
remote == <<server, changed, held, twice>>
history == <<uncarried, gaveUp, overtaken, disturbed>>

\* A stored thread.  decision is "none" for a plain comment; gone are replies
\* with deleted_at; marks are an edited first comment and a reaction.
StoredThread ==
    [status : {"open", "resolved"},
     decision : {"none", "pending"} \cup Verdicts,
     replies : SUBSET Replies, gone : SUBSET Replies,
     marks : SUBSET Marks]

Decided(stored) == stored.decision \in Verdicts

\* What a reader of a thread would miss if it were lost.
Items(stored) ==
    {<<"reply", r>> : r \in stored.replies \ stored.gone}
        \cup {<<"status", stored.status>>}
        \cup {<<"decision", d>> : d \in {stored.decision} \cap Verdicts}
        \cup {<<"mark", m>> : m \in stored.marks}

\* The two kinds of dirty key: a thread id, and "__deleted__:" before one.
Update(t) == [deletes |-> FALSE, thread |-> t]
Deletion(t) == [deletes |-> TRUE, thread |-> t]
Keys == [deletes : BOOLEAN, thread : Threads]

ASSUME NoneAssumption == None \notin Threads \cup Keys \cup StoredThread

\* Set.has, Set.add and Set.delete: a key is in the set at most once.
Add(queue, key) == IF Contains(queue, key) THEN queue ELSE Append(queue, key)
Drop(queue, key) ==
    IF ~Contains(queue, key) THEN queue
    ELSE LET p == CHOOSE i \in 1 .. Len(queue) : queue[i] = key
         IN  SubSeq(queue, 1, p - 1) \o SubSeq(queue, p + 1, Len(queue))

\* The members of a finite set one after the other, in some order.
Listing(S) == CHOOSE f \in [1 .. Cardinality(S) -> S] : IsInjective(f)

\* A request is a kind and, for a reply, its id.
Request(kind, reply) == [kind |-> kind, reply |-> reply]
Requests == [kind : {"create", "reply", "status", "decision", "delete"},
             reply : Replies \cup {None}]

Idle == [at |-> "idle", keys |-> <<>>, key |-> None, snapshot |-> None,
         plan |-> <<>>, conflict |-> FALSE, overtaken |-> FALSE, failed |-> <<>>]

\* No drain holds the thread of execution: any other event may run.
Yielded == \A i \in Drains : drain[i].at # "running"

Quiet == dirty = <<>> /\ ~timer /\ \A i \in Drains : drain[i].at = "idle"

\* A poll, or the load that precedes polling: the threads it has still to fetch
\* and the one it has fetched.
PollAt(at, loads, todo) ==
    [at |-> at, loads |-> loads, todo |-> todo, thread |-> None, wire |-> None]
NoPoll == PollAt("idle", FALSE, {})
Polling(loads, todo) == IF todo = {} THEN NoPoll ELSE PollAt("listed", loads, todo)

Init ==
    /\ ymap = [t \in Threads |-> None]
    /\ lastPersisted = [t \in Threads |-> None]
    /\ dirty = <<>>
    /\ retryCount = [k \in Keys |-> 0]
    /\ timer = FALSE
    /\ drain = [i \in Drains |-> Idle]
    /\ poll = PollAt("start", TRUE, {})
    /\ alive = TRUE
    /\ server \in [Threads -> {None} \cup
                    {[status |-> "open", decision |-> d, replies |-> {},
                      gone |-> {}, marks |-> {}] : d \in Kinds}]
    /\ changed = [t \in Threads |-> "no"]
    /\ changes = 0
    /\ made = {}
    /\ held = [t \in Threads |-> IF server[t] = None THEN {} ELSE Items(server[t])]
    /\ uncarried = [t \in Threads |-> {}]
    /\ gaveUp = {}
    /\ overtaken = {}
    /\ disturbed = {}
    /\ twice = {}

----
(***************************************************************************)
(* Changes of the map by this user or, through the shared document, by     *)
(* another: observeDeep marks the key and restarts the timer for both.     *)
(***************************************************************************)

Changing ==
    /\ alive /\ Yielded
    /\ changes < MaxChanges
    /\ changes' = changes + 1

\* observeDeep, for a transaction whose origin is not POLL_ORIGIN.
Observed(t) ==
    /\ dirty' = Add(dirty, Update(t))
    /\ timer' = TRUE
    /\ gaveUp' = gaveUp \ {t}

\* _mutateThread: a missing thread and an unchanged one are left alone.
MutateThread(t, next) ==
    /\ Changing
    /\ ymap[t] # None /\ next # ymap[t]
    /\ ymap' = [ymap EXCEPT ![t] = next]
    /\ Observed(t)
    /\ UNCHANGED <<lastPersisted, retryCount, drain, poll, alive, remote,
                   uncarried, overtaken, disturbed>>

\* createThread and commitSuggestion.  Ids are fresh: the server has none such.
CreateThread(t, decision) ==
    /\ Changing
    /\ ymap[t] = None /\ lastPersisted[t] = None /\ server[t] = None
    /\ held[t] = {}
    /\ ymap' = [ymap EXCEPT ![t] =
                  [status |-> "open", decision |-> decision, replies |-> {},
                   gone |-> {}, marks |-> {}]]
    /\ Observed(t)
    /\ UNCHANGED <<made, lastPersisted, retryCount, drain, poll, alive, remote,
                   uncarried, overtaken, disturbed>>

\* addReply
AddReply(t, r) ==
    /\ ymap[t] # None
    /\ r \notin made \cup Outside
    /\ MutateThread(t, [ymap[t] EXCEPT !.replies = @ \cup {r}])
    /\ made' = made \cup {r}

\* resolveThread, reopenThread
SetStatus(t, status) ==
    /\ ymap[t] # None
    /\ MutateThread(t, [ymap[t] EXCEPT !.status = status])
    /\ UNCHANGED made

\* editComment of the first comment, addReaction: ask the capabilities first.
AddMark(t, mark) ==
    /\ ymap[t] # None
    /\ MutateThread(t, [ymap[t] EXCEPT !.marks = @ \cup {mark}])
    /\ UNCHANGED made

\* removeReaction
RemoveReaction(t) ==
    /\ ymap[t] # None
    /\ MutateThread(t, [ymap[t] EXCEPT !.marks = @ \ {"reaction"}])
    /\ UNCHANGED made

\* deleteComment leaves a tombstone.
DeleteComment(t, r) ==
    /\ ymap[t] # None /\ r \in ymap[t].replies
    /\ MutateThread(t, [ymap[t] EXCEPT !.gone = @ \cup {r}])
    /\ UNCHANGED made

\* decideSuggestion, from the buttons of a pending suggestion.
DecideSuggestion(t, decision) ==
    /\ ymap[t] # None /\ ymap[t].decision = "pending"
    /\ MutateThread(t, [ymap[t] EXCEPT !.decision = decision, !.status = "resolved"])
    /\ UNCHANGED made

\* deleteThread: the observer marks the thread, then the deletion is queued.
DeleteThread(t) ==
    /\ Changing
    /\ ymap[t] # None
    /\ ymap' = [ymap EXCEPT ![t] = None]
    /\ dirty' = Add(Add(dirty, Update(t)), Deletion(t))
    /\ timer' = TRUE
    /\ UNCHANGED <<made, lastPersisted, retryCount, drain, poll, alive, remote, history>>

\* Another tab deletes the thread from the shared map and from the server.
PeerDeletes(t) ==
    /\ Changing
    /\ ymap[t] # None
    /\ ymap' = [ymap EXCEPT ![t] = None]
    /\ Observed(t)
    /\ UNCHANGED <<made, lastPersisted, retryCount, drain, poll, alive, remote,
                   uncarried, overtaken, disturbed>>

----
(***************************************************************************)
(* The server.                                                             *)
(***************************************************************************)

\* createCommentThread stores the first comment and the suggestion.
Created(stored) ==
    [status |-> "open", decision |-> stored.decision, replies |-> {},
     gone |-> {}, marks |-> stored.marks \cap {"edit"}]

\* The thread t of the server becomes now, and a poll will report it.
Serve(t, now) ==
    /\ server' = [server EXCEPT ![t] = now]
    /\ changed' = [changed EXCEPT ![t] = IF now = None THEN "deleted" ELSE "updated"]
    /\ held' = [held EXCEPT ![t] = IF now = None THEN @ ELSE @ \cup Items(now)]

\* The handlers of the comments routes: what a request makes of a thread.
Handled(request, stored, current) ==
    CASE request.kind = "create"   -> IF current = None THEN Created(stored) ELSE current
      [] request.kind = "delete"   -> None
      [] request.kind = "reply"    -> [current EXCEPT !.replies = @ \cup {request.reply}]
      [] request.kind = "status"   -> [current EXCEPT !.status = stored.status]
      [] request.kind = "decision" -> [current EXCEPT !.decision = stored.decision,
                                                      !.status = "resolved"]

\* A reply, a status or a decision for a thread the server does not have is an
\* error; a create for one it has is a conflict.
Handles(request, current) == request.kind \in {"create", "delete"} \/ current # None

\* A POST of a reply the server has appends it again.
Repeats(request, t) ==
    IF request.kind = "reply" /\ request.reply \in server[t].replies THEN {t} ELSE {}

\* Another tab sends what it sees in the map.
PeerPersists(t) ==
    /\ alive /\ Yielded
    /\ changes < MaxChanges
    /\ ymap[t] # None
    /\ \E request \in {Request("create", None), Request("status", None)}
                        \cup {Request("reply", r) : r \in ymap[t].replies \ ymap[t].gone} :
          /\ Handles(request, server[t])
          /\ Handled(request, ymap[t], server[t]) # server[t]
          /\ Serve(t, Handled(request, ymap[t], server[t]))
    /\ disturbed' = disturbed \cup {t}
    /\ changes' = changes + 1
    /\ UNCHANGED <<made, ymap, lastPersisted, engine, poll, alive, uncarried, gaveUp, overtaken,
                   twice>>

\* A reply or a deletion that comes from outside the editor.
External(t) ==
    /\ alive /\ Yielded
    /\ changes < MaxChanges
    /\ server[t] # None
    /\ \/ Serve(t, None)
       \/ \E r \in Outside :
             Serve(t, [server[t] EXCEPT !.replies = @ \cup {r}])
    /\ changes' = changes + 1
    /\ UNCHANGED <<made, ymap, lastPersisted, engine, poll, alive, history, twice>>

----
(***************************************************************************)
(* _persist.                                                               *)
(***************************************************************************)

\* The threads some drain has still to deal with.
InDrains == {key.thread : key \in UNION {Range(drain[i].keys) \cup ({drain[i].key} \ {None})
                                            : i \in Drains}}

\* The timer fires: the dirty keys are copied and cleared.
Fire(i) ==
    /\ timer /\ Yielded
    /\ drain[i] = Idle /\ \A j \in 1 .. i - 1 : drain[j] # Idle
    /\ timer' = FALSE
    /\ dirty' = <<>>
    /\ drain' = [drain EXCEPT ![i] =
                   IF dirty = <<>> THEN Idle
                   ELSE [Idle EXCEPT !.at = "running", !.keys = dirty]]
    /\ disturbed' = disturbed \cup (InDrains \cap {key.thread : key \in Range(dirty)})
    /\ UNCHANGED <<ymap, lastPersisted, retryCount, poll, alive, remote, changes, made,
                   uncarried, gaveUp, overtaken>>

\* Mutant of Deltas: decisions have no request of their own.
DeltasWithoutDecision(prev, stored) ==
    Listing({Request("reply", r) : r \in (stored.replies \ stored.gone) \ prev.replies})
        \o (IF prev.status = stored.status THEN <<>> ELSE <<Request("status", None)>>)

\* Mutant of Deltas: every reply is sent with every change.
DeltasAllReplies(prev, stored) ==
    Listing({Request("reply", r) : r \in stored.replies \ stored.gone})
        \o (IF prev.status = stored.status THEN <<>> ELSE <<Request("status", None)>>)
        \o (IF Decided(stored) /\ prev.decision # stored.decision
            THEN <<Request("decision", None)>> ELSE <<>>)

\* The requests that take the server from prev to stored.
Deltas(prev, stored) ==
    LET unsent == {Request("reply", r) : r \in (stored.replies \ stored.gone) \ prev.replies}
    IN  Listing(unsent)
            \o (IF prev.status = stored.status THEN <<>> ELSE <<Request("status", None)>>)
            \o (IF Decided(stored) /\ prev.decision # stored.decision
                THEN <<Request("decision", None)>> ELSE <<>>)

Plan(key) ==
    LET t == key.thread IN
    IF key.deletes THEN <<Request("delete", None)>>
    ELSE IF lastPersisted[t] = None THEN <<Request("create", None)>>
    ELSE Deltas(lastPersisted[t], ymap[t])

\* Nothing to do for a thread that is gone, or is as it was recorded.
Skips(key) == ~key.deletes /\ ymap[key.thread] \in {None, lastPersisted[key.thread]}

\* Thread t is dealt with: the drains that wait with an older snapshot of t will
\* write their record over it.
Overtake(drains, t) ==
    [i \in Drains |-> IF drains[i].key # None /\ drains[i].key.thread = t
                      THEN [drains[i] EXCEPT !.overtaken = TRUE] ELSE drains[i]]

\* The drain goes on with its next key.
Onward(d) == [d EXCEPT !.at = "running", !.key = None, !.snapshot = None, !.plan = <<>>,
                       !.conflict = FALSE, !.overtaken = FALSE]

\* The next key is read, and its first request is sent.
NextKey(i) ==
    /\ drain[i].at = "running" /\ drain[i].keys # <<>>
    /\ ~Skips(Head(drain[i].keys)) /\ Plan(Head(drain[i].keys)) # <<>>
    /\ LET d == drain[i]
           key == Head(d.keys)
       IN  drain' = [drain EXCEPT ![i] =
                       [d EXCEPT !.at = "sent", !.keys = Tail(d.keys), !.key = key,
                                 !.snapshot = ymap[key.thread], !.plan = Plan(key)]]
    /\ UNCHANGED <<ymap, lastPersisted, dirty, retryCount, timer, poll, alive, remote,
                   changes, made, history>>

\* What a create, a conflict or the other requests leave out of a snapshot.
Uncarried(d) ==
    CASE d.conflict -> Items(d.snapshot)
      [] ~d.conflict /\ d.plan # <<>> /\ Head(d.plan).kind = "create"
            -> Items(d.snapshot) \ Items(Created(d.snapshot))
      [] OTHER -> {<<"mark", m>> : m \in d.snapshot.marks}

\* The key is done: the snapshot becomes the record.
Recorded(i, d) ==
    LET t == d.key.thread IN
    /\ retryCount' = [retryCount EXCEPT ![d.key] = 0]
    /\ lastPersisted' = [lastPersisted EXCEPT ![t] = IF d.key.deletes THEN None ELSE d.snapshot]
    /\ drain' = [Overtake(drain, t) EXCEPT ![i] = Onward(d)]
    /\ gaveUp' = IF ymap[t] = d.snapshot THEN gaveUp \ {t} ELSE gaveUp
    /\ IF d.key.deletes
       THEN /\ overtaken' = IF ymap[t] = None THEN overtaken ELSE overtaken \cup {t}
            /\ UNCHANGED uncarried
       ELSE /\ overtaken' = IF d.overtaken THEN overtaken \cup {t} ELSE overtaken \ {t}
            /\ uncarried' = [uncarried EXCEPT ![t] = @ \cup Uncarried(d)]

\* A key that needs no request.
SkipKey(i) ==
    /\ drain[i].at = "running" /\ drain[i].keys # <<>>
    /\ LET key == Head(drain[i].keys)
           d == [drain[i] EXCEPT !.keys = Tail(drain[i].keys), !.key = key,
                                 !.snapshot = ymap[key.thread]]
       IN  \/ /\ Skips(key)
              /\ retryCount' = [retryCount EXCEPT ![key] = 0]
              /\ drain' = [Overtake(drain, key.thread) EXCEPT ![i] = Onward(d)]
              /\ UNCHANGED <<lastPersisted, uncarried, gaveUp, overtaken>>
           \/ /\ ~Skips(key) /\ Plan(key) = <<>>
              /\ Recorded(i, d)
    /\ UNCHANGED <<ymap, dirty, timer, poll, alive, remote, changes, made, disturbed>>

\* The request reaches the server.
Deliver(i) ==
    /\ Yielded
    /\ drain[i].at = "sent"
    /\ LET d == drain[i]
           t == d.key.thread
           request == Head(d.plan)
       IN  /\ Handles(request, server[t])
           /\ Serve(t, Handled(request, d.snapshot, server[t]))
           /\ twice' = twice \cup Repeats(request, t)
           /\ drain' = [drain EXCEPT ![i].at = "answered",
                           ![i].conflict = request.kind = "create" /\ server[t] # None]
    /\ UNCHANGED <<ymap, lastPersisted, dirty, retryCount, timer, poll, alive, changes, made, history>>

\* The response arrives: the next request, or the next key.
Respond(i) ==
    /\ Yielded
    /\ drain[i].at = "answered"
    /\ IF Len(drain[i].plan) > 1
       THEN /\ drain' = [drain EXCEPT ![i].at = "sent", ![i].plan = Tail(@)]
            /\ UNCHANGED <<lastPersisted, retryCount, uncarried, gaveUp, overtaken>>
       ELSE Recorded(i, drain[i])
    /\ UNCHANGED <<ymap, dirty, timer, poll, alive, remote, changes, made, disturbed>>

\* Mutant of Fail: the failed key is not kept for a later drain.
FailForgets(i) ==
    /\ Yielded
    /\ drain[i].at \in {"sent", "answered"}
    /\ LET d == drain[i] IN
       /\ retryCount' = [retryCount EXCEPT ![d.key] = 0]
       /\ drain' = [drain EXCEPT ![i] = Onward(d)]
       /\ disturbed' = disturbed \cup {d.key.thread}
    /\ UNCHANGED <<ymap, lastPersisted, dirty, timer, poll, alive, remote, changes, made,
                   uncarried, gaveUp, overtaken>>

\* Mutant of Fail: retries are not counted.
FailForever(i) ==
    /\ Yielded
    /\ drain[i].at \in {"sent", "answered"}
    /\ LET d == drain[i] IN
       /\ UNCHANGED retryCount
       /\ drain' = [drain EXCEPT ![i] = [Onward(d) EXCEPT !.failed = Append(@, d.key)]]
       /\ disturbed' = disturbed \cup {d.key.thread}
    /\ UNCHANGED <<ymap, lastPersisted, dirty, timer, poll, alive, remote, changes, made,
                   uncarried, gaveUp, overtaken>>

\* The request or its response is lost, or the server refuses: the key is
\* retried by a later drain, MaxPersistRetries times in all.
Fail(i) ==
    /\ Yielded
    /\ drain[i].at \in {"sent", "answered"}
    /\ LET d == drain[i]
           attempts == retryCount[d.key] + 1
           gives == attempts >= MaxPersistRetries
       IN  /\ retryCount' = [retryCount EXCEPT ![d.key] = IF gives THEN 0 ELSE attempts]
           /\ drain' = [drain EXCEPT ![i] =
                           [Onward(d) EXCEPT !.failed = IF gives THEN @ ELSE Append(@, d.key)]]
           /\ gaveUp' = IF gives THEN gaveUp \cup {d.key.thread} ELSE gaveUp
           /\ disturbed' = disturbed \cup {d.key.thread}
    /\ UNCHANGED <<ymap, lastPersisted, dirty, timer, poll, alive, remote, changes, made,
                   uncarried, overtaken>>

\* The end of _persist: the failed keys are dirty again, one after the other and
\* with nothing in between, and the timer is armed for them.
Requeue(i) ==
    /\ drain[i].at = "running" /\ drain[i].keys = <<>> /\ drain[i].failed # <<>>
    /\ dirty' = Add(dirty, Head(drain[i].failed))
    /\ timer' = TRUE
    /\ drain' = [drain EXCEPT ![i].failed = Tail(@)]
    /\ UNCHANGED <<ymap, lastPersisted, retryCount, poll, alive, remote, changes, made, history>>

EndDrain(i) ==
    /\ drain[i].at = "running" /\ drain[i].keys = <<>> /\ drain[i].failed = <<>>
    /\ drain' = [drain EXCEPT ![i] = Idle]
    /\ UNCHANGED <<ymap, lastPersisted, dirty, retryCount, timer, poll, alive, remote, changes,
                   made, history>>

----
(***************************************************************************)
(* loadFromSPI and pollOnce.                                               *)
(***************************************************************************)

\* The list of threads is read, before any poll.
LoadList ==
    /\ alive /\ Yielded
    /\ poll.at = "start"
    /\ poll' = Polling(TRUE, {t \in Threads : server[t] # None})
    /\ changed' = [t \in Threads |-> "no"]
    /\ UNCHANGED <<ymap, lastPersisted, engine, alive, server, changes, made, held, twice, history>>

\* The changes since the last poll are read.
PollList ==
    /\ alive /\ Yielded
    /\ poll = NoPoll
    /\ \E t \in Threads : changed[t] # "no"
    /\ poll' = Polling(FALSE, {t \in Threads : changed[t] # "no"})
    /\ changed' = [t \in Threads |-> "no"]
    /\ UNCHANGED <<ymap, lastPersisted, engine, alive, server, changes, made, held, twice, history>>

\* _reconcileChange of a thread the server has dropped: the map follows, and
\* POLL_ORIGIN keeps the observer from marking it.
PollDeleted(t) ==
    /\ alive /\ Yielded
    /\ poll.at = "listed" /\ t \in poll.todo /\ ~poll.loads
    /\ server[t] = None
    /\ ymap' = [ymap EXCEPT ![t] = None]
    /\ poll' = Polling(FALSE, poll.todo \ {t})
    /\ UNCHANGED <<lastPersisted, engine, alive, remote, changes, made, history>>

\* The thread is read in full; a load leaves alone what the map already has.
PollFetch(t) ==
    /\ alive /\ Yielded
    /\ poll.at = "listed" /\ t \in poll.todo
    /\ server[t] # None
    /\ poll.loads => ymap[t] = None
    /\ poll' = [poll EXCEPT !.at = "fetched", !.todo = @ \ {t},
                            !.thread = t, !.wire = server[t]]
    /\ UNCHANGED <<ymap, lastPersisted, engine, alive, remote, changes, made, history>>

\* The thread is not read: it is in the map, it is gone, or the request fails.
\* The time of the last poll has moved past its change.
PollSkip(t) ==
    /\ alive /\ Yielded
    /\ poll.at = "listed" /\ t \in poll.todo
    /\ poll' = Polling(poll.loads, poll.todo \ {t})
    /\ UNCHANGED <<ymap, lastPersisted, engine, alive, remote, changes, made, history>>

\* Mutant of KeepsDecision: the server's copy always wins.
KeepsNothing(local, wire) == FALSE

\* A decision made here that the server has not heard of is kept.
KeepsDecision(local, wire) ==
    local # None /\ Decided(local) /\ wire.decision \in {"none", "pending"}

\* _insertThreadFromWire: the server's copy replaces the map's, except for such
\* a decision, and is recorded as persisted; the thread is dirty only for the
\* decision's sake.
PollApply ==
    /\ alive /\ Yielded
    /\ poll.at = "fetched"
    /\ LET t == poll.thread
           keeps == KeepsDecision(ymap[t], poll.wire)
       IN  /\ ymap' = [ymap EXCEPT ![t] =
                         IF keeps THEN [poll.wire EXCEPT !.decision = ymap[t].decision]
                         ELSE poll.wire]
           /\ lastPersisted' = [lastPersisted EXCEPT ![t] = poll.wire]
           /\ dirty' = IF keeps THEN Append(Drop(dirty, Update(t)), Update(t))
                       ELSE Drop(dirty, Update(t))
           /\ timer' = (timer \/ keeps)
           /\ drain' = Overtake(drain, t)
           /\ overtaken' = overtaken \ {t}
           /\ gaveUp' = gaveUp \ {t}
           /\ disturbed' = disturbed \cup ({t} \cap InDrains)
    /\ poll' = Polling(poll.loads, poll.todo)
    /\ UNCHANGED <<retryCount, alive, remote, changes, made, uncarried>>

\* destroy() forgets what is queued; a drain in flight goes on.  So does a poll,
\* but it changes a document nobody sees any more: its state is left out.
Destroy ==
    /\ alive /\ Yielded
    /\ alive' = FALSE
    /\ timer' = FALSE
    /\ dirty' = <<>>
    /\ lastPersisted' = [t \in Threads |-> None]
    /\ retryCount' = [k \in Keys |-> 0]
    /\ poll' = NoPoll
    /\ UNCHANGED <<ymap, drain, remote, changes, made, history>>

----
Next ==
    \/ \E t \in Threads, d \in Kinds : CreateThread(t, d)
    \/ \E t \in Threads, r \in Replies : AddReply(t, r)
    \/ \E t \in Threads, s \in {"open", "resolved"} : SetStatus(t, s)
    \/ \E t \in Threads, m \in Marks : AddMark(t, m)
    \/ \E t \in Threads : RemoveReaction(t)
    \/ \E t \in Threads, r \in Replies : DeleteComment(t, r)
    \/ \E t \in Threads, d \in Verdicts : DecideSuggestion(t, d)
    \/ \E t \in Threads : DeleteThread(t)
    \/ \E t \in Threads : PeerDeletes(t)
    \/ \E t \in Threads : PeerPersists(t)
    \/ \E t \in Threads : External(t)
    \/ \E i \in Drains : Fire(i)
    \/ \E i \in Drains : NextKey(i)
    \/ \E i \in Drains : SkipKey(i)
    \/ \E i \in Drains : Deliver(i)
    \/ \E i \in Drains : Respond(i)
    \/ \E i \in Drains : Fail(i)
    \/ \E i \in Drains : Requeue(i)
    \/ \E i \in Drains : EndDrain(i)
    \/ LoadList
    \/ PollList
    \/ \E t \in Threads : PollDeleted(t)
    \/ \E t \in Threads : PollFetch(t)
    \/ \E t \in Threads : PollSkip(t)
    \/ PollApply
    \/ Destroy

\* While the timer is armed or a request is out, one of them comes to its end:
\* timers fire, requests are answered or fail.  Polls need not happen.
Fairness ==
    WF_vars(\E i \in Drains : Fire(i) \/ NextKey(i) \/ SkipKey(i) \/ Requeue(i) \/ EndDrain(i)
                                \/ Deliver(i) \/ Respond(i) \/ Fail(i))

Spec == Init /\ [][Next]_vars /\ Fairness

----
(***************************************************************************)
(* Properties.                                                             *)
(***************************************************************************)

Contents ==
    {"reply", "status", "decision", "mark"} \X
        (Replies \cup {"open", "resolved"} \cup Verdicts \cup Marks)

\* A call of _persist: the keys it has still to read, the key it deals with and
\* the thread as it was read, the requests not yet answered, the failed keys.
Calls ==
    [at : {"idle", "running", "sent", "answered"}, keys : Seq(Keys), key : Keys \cup {None},
     snapshot : StoredThread \cup {None}, plan : Seq(Requests), conflict : BOOLEAN,
     overtaken : BOOLEAN, failed : Seq(Keys)]

TypeOK ==
    /\ ymap \in [Threads -> StoredThread \cup {None}]
    /\ lastPersisted \in [Threads -> StoredThread \cup {None}]
    /\ dirty \in Seq(Keys) /\ IsInjective(dirty)
    /\ retryCount \in [Keys -> 0 .. MaxPersistRetries - 1]
    /\ timer \in BOOLEAN /\ alive \in BOOLEAN
    /\ drain \in [Drains -> Calls]
    /\ poll \in [at : {"start", "idle", "listed", "fetched"}, loads : BOOLEAN, todo : SUBSET Threads,
                  thread : Threads \cup {None}, wire : StoredThread \cup {None}]
    /\ server \in [Threads -> StoredThread \cup {None}]
    /\ changed \in [Threads -> {"no", "updated", "deleted"}]
    /\ changes \in 0 .. MaxChanges /\ made \subseteq Replies
    /\ held \in [Threads -> SUBSET Contents] /\ uncarried \in [Threads -> SUBSET Contents]
    /\ gaveUp \subseteq Threads /\ overtaken \subseteq Threads
    /\ disturbed \subseteq Threads /\ twice \subseteq Threads

\* A dirty key always has a timer that will drain it: no change waits for the
\* next one to be sent (_schedulePersist in every path that marks a key).
DirtyIsScheduled == dirty # <<>> => timer

\* The keys whose change a drain will still read, or send as it is now.
Pending(t) ==
    \/ Contains(dirty, Update(t))
    \/ \E i \in Drains : \/ Contains(drain[i].keys \o drain[i].failed, Update(t))
                         \/ drain[i].key = Update(t) /\ drain[i].snapshot = ymap[t]

\* No change is dropped silently: a thread that differs from its record is on its
\* way to the server, unless its retries ran out or a slower drain wrote an old
\* record over a newer one (_persist, _insertThreadFromWire).
PendingOrRecorded ==
    alive => \A t \in Threads :
        ymap[t] \in {None, lastPersisted[t]} \/ Pending(t) \/ t \in gaveUp \cup overtaken

\* What the engine has recorded as persisted the server has held, except for
\* what the requests do not carry: replies, status and reactions of a thread at
\* its create, all of it at a conflict, edits and reactions ever after (_persist).
RecordedIsHeld ==
    \A t \in Threads :
        lastPersisted[t] # None => Items(lastPersisted[t]) \subseteq held[t] \cup uncarried[t]

\* A reply is appended to the server's thread once, unless another tab sent it
\* too, a request failed or a second drain or a poll met the first (_persist; AddReply appends).
ReplyStoredOnce == twice \subseteq disturbed

\* The decision on a suggestion, once in the map, is never taken back to pending
\* by the server's older copy (the poll-race guard of _insertThreadFromWire).
DecisionKept ==
    [][\A t \in Threads :
          ymap[t] # None /\ Decided(ymap[t]) /\ ymap'[t] # None => Decided(ymap'[t])]_vars

\* However often the server fails, the engine stops retrying once the changes
\* stop (the cap of _retryCount).
RetriesEnd == <>[]Quiet

====
