---------------------------- MODULE OfflineSync ----------------------------
(***************************************************************************)
(* Client mode: VegaSyncClient sends every call to a server and, when the  *)
(* network fails, writes it to a directory of pending operations, which    *)
(* SyncManager.syncPending replays when a client process starts            *)
(* (src/sync/client.ts, manager.ts, queue.ts, src/db/crdt.ts).             *)
(*                                                                         *)
(* The processes of a machine share the pending directory and the cache    *)
(* database.  What runs between two requests is synchronous; a request and *)
(* what follows it up to the next one is a step.  A process has one call   *)
(* under way at a time; what it queues and what it puts into the cache for *)
(* it are one step, not two commits.                                       *)
(*                                                                         *)
(* Data.  A content is its length.  A row of the cache that the client     *)
(* made up offline is named by the operation it stands for: its uuid is    *)
(* none of the server's.  session_end and compact go the way of an update  *)
(* and are left out, as are fields other than the content.                 *)
(***************************************************************************)
EXTENDS Naturals, FiniteSets, Sequences

CONSTANTS Procs,           \* client processes of the machine
          Ids,             \* row ids of the server
          Contents,
          ConflictWindow,  \* CONFLICT_WINDOW_MS
          MaxOps,          \* bound: calls made
          MaxTime,         \* bound: the clock
          None,            \* no row
          Gone             \* a deleted row of the server

ASSUME SyncAssumption ==
    /\ Contents \subseteq Nat \ {0} /\ Contents # {}
    /\ ConflictWindow \in Nat
    /\ MaxOps \in Nat /\ MaxTime \in Nat
    /\ None # Gone

Row == [content: Contents, updated: 0..MaxTime]
Calls == 1..MaxOps
Kinds == {"store", "update", "delete"}

\* at is the timestamp of a queued operation.
Op == [call: Calls, kind: Kinds, target: Ids \cup Calls \cup {None}, content: Contents,
       at: 0..MaxTime]

VARIABLES server,       \* the server's rows
          cache,        \* the cache's copies of them
          provisional,  \* the offline stores that have a row in the cache
          queue,        \* the operations in the pending directory
          calls,        \* the calls made, up to MaxOps
          pc, current, todo, rows,  \* of each process
          clock,
          queued,       \* history: the operations that were ever enqueued
          executed,     \* history: how often the server ran each, 2 for more
          disturbed     \* history: those run by a call or replay that failed

store   == <<server, cache, provisional, queue>>
local   == <<pc, current, todo, rows>>
history == <<queued, executed, disturbed>>
vars    == <<store, calls, local, clock, history>>

noRows == [id \in Ids |-> None]
listed == [id \in Ids |-> IF server[id] = Gone THEN None ELSE server[id]]

----------------------------------------------------------------------------
(* The server, as the client's requests show it. *)

accepts(op) ==
    op.kind = "store" \/ op.target \in {id \in Ids : listed[id] # None}

\* A store makes a row or is merged into one.
serverRuns(op) ==
    IF op.kind = "delete" THEN server' = [server EXCEPT ![op.target] = Gone]
    ELSE \E id \in Ids :
        /\ IF op.kind = "store" THEN server[id] # Gone ELSE id = op.target
        /\ server' = [server EXCEPT ![id] = [content |-> op.content, updated |-> clock]]

runs(op) ==
    /\ accepts(op)
    /\ serverRuns(op)
    /\ executed' = [executed EXCEPT ![op.call] = IF @ = 0 THEN 1 ELSE 2]

RemoteWrite == \E id \in Ids, content \in Contents :
    /\ server[id] # Gone
    /\ server' = [server EXCEPT ![id] = [content |-> content, updated |-> clock]]
    /\ UNCHANGED <<cache, provisional, queue, calls, local, clock, history>>

RemoteDelete == \E id \in Ids :
    /\ listed[id] # None
    /\ server' = [server EXCEPT ![id] = Gone]
    /\ UNCHANGED <<cache, provisional, queue, calls, local, clock, history>>

----------------------------------------------------------------------------
(* The client's calls. *)

goto(p, place) == pc' = [pc EXCEPT ![p] = place]
return(p) == goto(p, "ready") /\ current' = [current EXCEPT ![p] = None]

\* store, update and delete, with an id the caller has seen.
Call(p) == \E kind \in Kinds, target \in Ids \cup provisional \cup {None}, content \in Contents :
    /\ pc[p] = "ready"
    /\ calls < MaxOps
    /\ calls' = calls + 1
    /\ IF kind = "store" THEN target = None
       ELSE target # None /\ (target \in Ids => cache[target] # None)
    /\ current' = [current EXCEPT ![p] =
            [call |-> calls + 1, kind |-> kind, target |-> target, content |-> content, at |-> 0]]
    /\ goto(p, "request")
    /\ UNCHANGED <<store, todo, rows, clock, history>>

\* A network error: the operation is written to the pending directory, and an
\* offline store to the cache as well.
enqueue(p) ==
    LET op == current[p] IN
    /\ queue' = queue \cup {[op EXCEPT !.at = clock]}
    /\ queued' = queued \cup {op.call}
    /\ provisional' = IF op.kind = "store" THEN provisional \cup {op.call} ELSE provisional
    /\ current' = [current EXCEPT ![p] = None]
    /\ goto(p, "ready")

RequestAnswered(p) ==
    LET op == current[p] IN
    /\ pc[p] = "request"
    /\ runs(op)
    /\ IF op.kind = "delete"
       THEN /\ cache' = [cache EXCEPT ![op.target] = None]
            /\ return(p)
       ELSE /\ UNCHANGED <<cache, current>>
            /\ goto(p, "refresh")
    /\ UNCHANGED <<provisional, calls, queue, todo, rows, clock, queued, disturbed>>

\* The connection breaks before or after the server has run the operation.
RequestFails(p) ==
    /\ pc[p] = "request"
    /\ \/ runs(current[p]) /\ disturbed' = disturbed \cup {current[p].call}
       \/ UNCHANGED <<server, executed, disturbed>>
    /\ enqueue(p)
    /\ UNCHANGED <<cache, calls, todo, rows, clock>>

\* The server refuses, or the request times out, whether the server has run it
\* or not: AbortSignal.timeout rejects with a TimeoutError, which isNetworkError
\* does not know, so the caller gets the error and nothing is queued.
RequestThrows(p) ==
    /\ pc[p] = "request"
    /\ runs(current[p]) \/ UNCHANGED <<server, executed>>
    /\ return(p)
    /\ UNCHANGED <<cache, provisional, calls, queue, todo, rows, clock, queued, disturbed>>

\* upsertCache.
upserted(ids) ==
    [id \in Ids |-> IF id \in ids /\ listed[id] # None THEN listed[id] ELSE cache[id]]

\* refreshLocalCache after a store or an update that the server has run.
RefreshAnswered(p) ==
    /\ pc[p] = "refresh"
    /\ cache' = upserted(Ids)
    /\ return(p)
    /\ UNCHANGED <<server, provisional, queue, calls, todo, rows, clock, history>>

\* A network error of the refresh is handled as one of the call.
RefreshFails(p) ==
    /\ pc[p] = "refresh"
    /\ enqueue(p)
    /\ disturbed' = disturbed \cup {current[p].call}
    /\ UNCHANGED <<server, cache, calls, todo, rows, clock, executed>>

RefreshThrows(p) ==
    /\ pc[p] = "refresh"
    /\ return(p)
    /\ UNCHANGED <<store, calls, todo, rows, clock, history>>

\* list and sessionStart put what they are answered into the cache.
Read(p) == \E ids \in SUBSET Ids :
    /\ pc[p] = "ready"
    /\ cache' = upserted(ids)
    /\ UNCHANGED <<server, provisional, queue, calls, local, clock, history>>

----------------------------------------------------------------------------
(* CRDTMerger.mergeMemories, for a row that both sides have. *)

\* Mutant: the contents of concurrent updates are joined.
mergeConcurrentMemory_Concat(mine, remote) ==
    [content |-> mine.content + remote.content, updated |-> remote.updated]

mergeConcurrentMemory(mine, remote) ==
    LET latest == IF remote.updated >= mine.updated THEN remote ELSE mine IN
    [content |-> IF remote.content > mine.content THEN remote.content
                 ELSE IF mine.content > remote.content THEN mine.content
                 ELSE latest.content,
     updated |-> latest.updated]

mergeMemories(mine, remote) ==
    IF mine # remote /\ mine.updated <= remote.updated + ConflictWindow
                     /\ remote.updated <= mine.updated + ConflictWindow
    THEN mergeConcurrentMemory(mine, remote)
    ELSE IF remote.updated > mine.updated THEN remote ELSE mine

\* The rows that syncPending sends back to the server.
toPush(mine) ==
    [id \in Ids |->
        IF mine[id] # None /\ listed[id] # None /\ mergeMemories(mine[id], listed[id]) # listed[id]
        THEN mergeMemories(mine[id], listed[id]) ELSE None]

----------------------------------------------------------------------------
(* SyncManager.syncPending, which a process runs before it serves calls. *)

\* The health requests: an unreachable server or an invalid key ends the sync.
SyncStart(p) ==
    /\ pc[p] = "start"
    /\ \/ goto(p, "ready") /\ UNCHANGED todo
       \/ goto(p, "replay") /\ todo' = [todo EXCEPT ![p] = queue]
    /\ UNCHANGED <<store, calls, current, rows, clock, history>>

\* Mutant: the files are replayed in the order the directory lists them.
isNext_Unsorted(p, op) == op \in todo[p]

\* dequeue sorts by timestamp and then by the random name of the file.
isNext(p, op) ==
    op \in todo[p] /\ \A other \in todo[p] : op.at <= other.at

\* Mutant: the files stay until the whole sync is done.
ReplayAnswered_KeepFile(p, op) ==
    /\ pc[p] = "replay"
    /\ isNext(p, op)
    /\ runs(op)
    /\ todo' = [todo EXCEPT ![p] = @ \ {op}]
    /\ UNCHANGED <<cache, provisional, queue, calls, pc, current, rows, clock, queued, disturbed>>

ReplayAnswered(p, op) ==
    /\ pc[p] = "replay"
    /\ isNext(p, op)
    /\ runs(op)
    /\ queue' = queue \ {op}
    /\ todo' = [todo EXCEPT ![p] = @ \ {op}]
    /\ UNCHANGED <<cache, provisional, calls, pc, current, rows, clock, queued, disturbed>>

\* Mutant: an operation that fails is skipped.
ReplayFails_Skip(p, op) ==
    /\ pc[p] = "replay"
    /\ isNext(p, op)
    /\ todo' = [todo EXCEPT ![p] = @ \ {op}]
    /\ UNCHANGED <<store, calls, pc, current, rows, clock, history>>

\* Mutant: a sync that ends early refreshes the cache as well.
ReplayFails_Refreshed(p, op) ==
    /\ pc[p] = "replay"
    /\ isNext(p, op)
    /\ cache' = listed
    /\ provisional' = {}
    /\ todo' = [todo EXCEPT ![p] = {}]
    /\ goto(p, "ready")
    /\ UNCHANGED <<server, queue, calls, current, rows, clock, history>>

\* Any error ends the sync; the server may have run the operation all the same.
ReplayFails(p, op) ==
    /\ pc[p] = "replay"
    /\ isNext(p, op)
    /\ \/ runs(op) /\ disturbed' = disturbed \cup {op.call}
       \/ UNCHANGED <<server, executed, disturbed>>
    /\ todo' = [todo EXCEPT ![p] = {}]
    /\ goto(p, "ready")
    /\ UNCHANGED <<cache, provisional, queue, calls, current, rows, clock, queued>>

\* The cache is read before the server's rows are requested.
ReplayDone(p) ==
    /\ pc[p] = "replay"
    /\ todo[p] = {}
    /\ rows' = [rows EXCEPT ![p] = cache]
    /\ goto(p, "fetch")
    /\ UNCHANGED <<store, calls, current, todo, clock, history>>

Fetch(p) ==
    /\ pc[p] = "fetch"
    /\ rows' = [rows EXCEPT ![p] = toPush(@)]
    /\ goto(p, "push")
    /\ UNCHANGED <<store, calls, current, todo, clock, history>>

\* The push is an update of the row as it is by now.
Push(p) == \E id \in Ids :
    /\ pc[p] = "push"
    /\ rows[p][id] # None
    /\ listed[id] # None
    /\ server' = [server EXCEPT ![id] = [content |-> rows[p][id].content, updated |-> clock]]
    /\ \/ rows' = [rows EXCEPT ![p][id] = None] /\ UNCHANGED pc
       \/ goto(p, "ready") /\ rows' = [rows EXCEPT ![p] = noRows]
    /\ UNCHANGED <<cache, provisional, queue, calls, current, todo, clock, history>>

\* refreshCache and queue.clear(), after a second list of the server's rows.
RefreshCache(p) ==
    /\ pc[p] = "push"
    /\ rows[p] = noRows
    /\ cache' = listed
    /\ provisional' = {}
    /\ queue' = {}
    /\ goto(p, "ready")
    /\ UNCHANGED <<server, calls, current, todo, rows, clock, history>>

\* A list or a push fails, the push of a deleted row for one.
SyncFails(p) ==
    /\ pc[p] \in {"fetch", "push"}
    /\ goto(p, "ready")
    /\ rows' = [rows EXCEPT ![p] = noRows]
    /\ UNCHANGED <<store, calls, current, todo, clock, history>>

\* The process ends at any point and is started again.  One that ends after a
\* replay and before the file is removed has had a replay that failed.
Restart(p) ==
    /\ pc' = [pc EXCEPT ![p] = "start"]
    /\ current' = [current EXCEPT ![p] = None]
    /\ todo' = [todo EXCEPT ![p] = {}]
    /\ rows' = [rows EXCEPT ![p] = noRows]
    /\ UNCHANGED <<store, calls, clock, history>>

Tick ==
    /\ clock < MaxTime
    /\ clock' = clock + 1
    /\ UNCHANGED <<store, calls, local, history>>

Init ==
    /\ server = noRows /\ cache = noRows /\ provisional = {}
    /\ queue = {} /\ calls = 0
    /\ pc = [p \in Procs |-> "start"]
    /\ current = [p \in Procs |-> None]
    /\ todo = [p \in Procs |-> {}]
    /\ rows = [p \in Procs |-> noRows]
    /\ clock = 0
    /\ queued = {} /\ disturbed = {}
    /\ executed = [c \in Calls |-> 0]

Next ==
    \/ \E p \in Procs :
        \/ Call(p) \/ RequestAnswered(p) \/ RequestFails(p) \/ RequestThrows(p)
        \/ RefreshAnswered(p) \/ RefreshFails(p) \/ RefreshThrows(p) \/ Read(p)
        \/ SyncStart(p)
        \/ \E op \in todo[p] : ReplayAnswered(p, op) \/ ReplayFails(p, op)
        \/ ReplayDone(p) \/ Fetch(p) \/ Push(p) \/ RefreshCache(p) \/ SyncFails(p)
        \/ Restart(p)
    \/ RemoteWrite \/ RemoteDelete \/ Tick

Spec == Init /\ [][Next]_vars

----------------------------------------------------------------------------
(* Properties. *)

TypeOK ==
    /\ server \in [Ids -> Row \cup {None, Gone}]
    /\ cache \in [Ids -> Row \cup {None}]
    /\ queue \subseteq Op
    /\ provisional \cup queued \cup disturbed \subseteq Calls
    /\ calls \in 0..MaxOps
    /\ pc \in [Procs -> {"start", "ready", "request", "refresh", "replay", "fetch", "push"}]
    /\ current \in [Procs -> Op \cup {None}]
    /\ todo \in [Procs -> SUBSET Op]
    /\ rows \in [Procs -> [Ids -> Row \cup {None}]]
    /\ clock \in 0..MaxTime
    /\ executed \in [Calls -> 0..2]

\* An operation whose caller was told it is queued stays in the pending
\* directory until the server has run it, through failed syncs and restarts.
QueuedReachServer ==
    \A c \in queued : executed[c] > 0 \/ c \in {op.call : op \in queue}

\* A memory stored offline can be read from the cache as long as its operation
\* is pending.
OfflineStoreReadable == \A op \in queue : op.kind = "store" => op.call \in provisional

\* The server runs a queued operation twice only after a call, a refresh or a
\* replay of it has failed.
NoNeedlessReplay == \A c \in Calls : executed[c] = 2 => c \in disturbed

\* A replay never overtakes an operation that was queued at an earlier time and
\* that the server has not run.
ReplayInOrder ==
    [][\A op, other \in queue :
        /\ executed'[op.call] # executed[op.call]
        /\ other.at < op.at
        => executed[other.call] > 0]_vars

waitsFor(c, places) == \E p \in Procs : pc[p] \in places /\ current[p].call = c

placeOf(c) ==
    IF c \in {op.call : op \in queue} THEN "queued"
    ELSE IF waitsFor(c, {"request"}) THEN "asked"
    ELSE IF waitsFor(c, {"refresh"}) THEN "answered"
    ELSE IF c <= calls THEN "over" ELSE "new"

Delivered(c) == INSTANCE Delivery WITH
    place <- placeOf(c), promised <- c \in queued, ran <- executed[c],
    failed <- c \in disturbed

\* To each call, requests, refreshes, syncs of the whole directory, restarts and
\* clearing the directory at the end of a sync look like the steps of its own
\* delivery: it is queued once at most, and what is queued leaves the directory
\* in the step in which it is run and no other.
CallsAreDelivered == [][\A c \in Calls : [Delivered(c)!Next]_(Delivered(c)!vars)]_vars
=============================================================================
