------------------------- MODULE OfflineSyncProofs -------------------------
(***************************************************************************)
(* The offline client keeps its promises for any rows, contents and number *)
(* of calls, as long as one process of the machine uses the pending        *)
(* directory: the run of two processes shows that it does not with two.    *)
(* Then every call implements Delivery.                                    *)
(***************************************************************************)
EXTENDS OfflineSync, TLAPS

OneProcess == \A p, q \in Procs : p = q

\* What the process is doing with the pending directory.  An operation that is
\* being requested has not run and is not queued; a replay has before it what the
\* directory holds; and after the replay the directory is empty.
Doing(p) ==
    /\ pc[p] \in {"request", "refresh"} =>
         /\ current[p] \in Op /\ current[p].call <= calls
         /\ \A op \in queue : op.call # current[p].call
    /\ pc[p] = "request" => executed[current[p].call] = 0
    /\ pc[p] = "replay" => todo[p] = queue
    /\ pc[p] # "replay" => todo[p] = {}
    /\ pc[p] \in {"fetch", "push"} => queue = {}

\* A call is queued once, and a queued one has run only in an attempt that failed.
Pending ==
    /\ \A op \in queue :
         op.call <= calls /\ (executed[op.call] # 0 => op.call \in disturbed)
    /\ \A op, other \in queue : op.call = other.call => op = other
    /\ \A c \in Calls : c > calls => executed[c] = 0

SyncInv ==
    /\ TypeOK
    /\ \A p \in Procs : Doing(p)
    /\ Pending
    /\ QueuedReachServer /\ OfflineStoreReadable /\ NoNeedlessReplay

Rows == [Ids -> Row \cup {None}]

----------------------------------------------------------------------------
(* Types of the helpers. *)

\* What the server lists is typed, and a listed row is one it has.
LEMMA ListedType ==
    ASSUME TypeOK
    PROVE  /\ listed \in Rows /\ noRows \in Rows
           /\ \A id \in Ids : listed[id] # None => server[id] \in Row /\ listed[id] = server[id]
BY SyncAssumption DEF TypeOK, listed, noRows, Rows

\* A request that the server runs leaves its rows typed, and is counted.
LEMMA RunsType ==
    ASSUME TypeOK, NEW op \in Op, runs(op)
    PROVE  /\ server' \in [Ids -> Row \cup {None, Gone}]
           /\ executed' \in [Calls -> 0..2]
           /\ executed[op.call] = 0 => executed'[op.call] = 1
           /\ executed'[op.call] # 0
           /\ \A c \in Calls \ {op.call} : executed'[c] = executed[c]
<1>1. op.call \in Calls /\ op.content \in Contents /\ clock \in 0..MaxTime
      /\ server \in [Ids -> Row \cup {None, Gone}] /\ executed \in [Calls -> 0..2]
  BY DEF TypeOK, Op
<1>2. server' \in [Ids -> Row \cup {None, Gone}]
  <2>1. [content |-> op.content, updated |-> clock] \in Row
    BY <1>1 DEF Row
  <2> QED
    BY <1>1, <2>1 DEF runs, serverRuns
<1>3. executed' = [executed EXCEPT ![op.call] = IF executed[op.call] = 0 THEN 1 ELSE 2]
  BY DEF runs
<1> QED
  BY <1>1, <1>2, <1>3

\* Merging two rows yields a row, and so does what is pushed.
LEMMA PushType ==
    ASSUME TypeOK, NEW mine \in Rows
    PROVE  toPush(mine) \in Rows
<1>1. ASSUME NEW a \in Row, NEW b \in Row PROVE mergeMemories(a, b) \in Row
  <2>1. mergeConcurrentMemory(a, b) \in Row
    BY DEF mergeConcurrentMemory, Row
  <2> QED
    BY <2>1 DEF mergeMemories
<1>2. \A id \in Ids : mine[id] # None /\ listed[id] # None => mergeMemories(mine[id], listed[id]) \in Row
  BY <1>1, ListedType DEF Rows
<1> QED
  BY <1>2 DEF toPush, Rows

\* Refreshing the cache keeps it typed.
LEMMA CacheType ==
    ASSUME TypeOK, NEW ids
    PROVE  upserted(ids) \in Rows
BY ListedType DEF upserted, Rows, TypeOK

\* Queueing the operation of a failed call keeps the invariant's parts.
LEMMA Enqueued ==
    ASSUME SyncInv, OneProcess, NEW p \in Procs, pc[p] \in {"request", "refresh"},
           enqueue(p), current[p].call \in disturbed' \/ executed'[current[p].call] = 0,
           executed' \in [Calls -> 0..2], server' \in [Ids -> Row \cup {None, Gone}],
           \A c \in Calls \ {current[p].call} : executed'[c] = executed[c],
           disturbed \subseteq disturbed', disturbed' \subseteq disturbed \cup {current[p].call},
           UNCHANGED <<cache, calls, todo, rows, clock>>
    PROVE  SyncInv'
<1> DEFINE op == current[p]
           new == [op EXCEPT !.at = clock]
<1>1. /\ TypeOK /\ op \in Op /\ op.call \in Calls /\ op.call <= calls
      /\ \A other \in queue : other.call # op.call
      /\ todo[p] = {} /\ \A q \in Procs : q = p
  BY DEF SyncInv, Doing, OneProcess, Op
<1>2. new \in Op /\ new.call = op.call /\ new.kind = op.kind
  BY <1>1 DEF Op, TypeOK
<1> HIDE DEF new
<1>3. /\ queue' = queue \cup {new} /\ queued' = queued \cup {op.call}
      /\ provisional' = IF op.kind = "store" THEN provisional \cup {op.call} ELSE provisional
      /\ current' = [current EXCEPT ![p] = None] /\ pc' = [pc EXCEPT ![p] = "ready"]
  BY DEF enqueue, goto, new
<1> HIDE DEF op
<1>4. TypeOK'
  BY <1>1, <1>2, <1>3 DEF TypeOK, op
<1>5. \A q \in Procs : Doing(q)'
  BY <1>1, <1>3 DEF Doing, TypeOK
<1>6. Pending'
  <2>0. calls' = calls /\ calls \in Nat /\ \A c \in Calls : c \in Nat
    BY SyncAssumption DEF TypeOK, SyncInv, Calls
  <2>1. \A other \in queue : other.call \in Calls /\ executed'[other.call] = executed[other.call]
    BY <1>1 DEF SyncInv, TypeOK, Op, op
  <2>2. \A other \in queue' : other.call <= calls'
          /\ (executed'[other.call] # 0 => other.call \in disturbed')
    BY <1>1, <1>2, <1>3, <2>0, <2>1 DEF SyncInv, Pending, op
  <2>3. \A first, second \in queue' : first.call = second.call => first = second
    BY <1>1, <1>2, <1>3 DEF SyncInv, Pending
  <2>4. \A c \in Calls : c > calls' => executed'[c] = 0
    <3> SUFFICES ASSUME NEW c \in Calls, c > calls PROVE executed'[c] = 0
      BY <2>0
    <3>1. c # op.call
      BY <1>1, <2>0
    <3> QED
      BY <3>1 DEF SyncInv, Pending, op
  <2> QED
    BY <2>2, <2>3, <2>4 DEF Pending
<1>7. QueuedReachServer'
  BY <1>1, <1>2, <1>3 DEF SyncInv, QueuedReachServer, TypeOK, op
<1>8. OfflineStoreReadable'
  BY <1>2, <1>3 DEF SyncInv, OfflineStoreReadable
<1>9. NoNeedlessReplay'
  BY <1>1 DEF SyncInv, NoNeedlessReplay, op
<1> QED
  BY <1>4, <1>5, <1>6, <1>7, <1>8, <1>9 DEF SyncInv

----------------------------------------------------------------------------
(* The steps. *)

\* A step that runs nothing and queues nothing keeps the invariant, if it keeps
\* the types and what each process is doing.
LEMMA Quiet ==
    ASSUME SyncInv, TypeOK', \A p \in Procs : Doing(p)', calls <= calls',
           UNCHANGED <<queue, executed, disturbed, queued>>,
           provisional \subseteq provisional' \/ queue = {}
    PROVE  SyncInv'
<1>1. \A op \in queue : op.call \in Calls
  BY DEF SyncInv, TypeOK, Op
<1>2. Pending'
  <2>1. calls \in Nat /\ calls' \in Nat /\ Calls \subseteq Nat
    BY SyncAssumption DEF SyncInv, TypeOK, Calls
  <2>2. ASSUME NEW op \in queue PROVE op.call <= calls'
    <3>1. op.call <= calls /\ op.call \in Nat
      BY <1>1, <2>1 DEF SyncInv, Pending
    <3> QED
      BY <2>1, <3>1
  <2>3. \A c \in Calls : c > calls' => executed'[c] = 0
    BY <2>1 DEF SyncInv, Pending
  <2> QED
    BY <2>2, <2>3 DEF SyncInv, Pending
<1>3. QueuedReachServer' /\ OfflineStoreReadable' /\ NoNeedlessReplay'
  BY DEF SyncInv, QueuedReachServer, OfflineStoreReadable, NoNeedlessReplay
<1> QED
  BY <1>2, <1>3 DEF SyncInv

\* So does one that lets the server run an operation which has not run before, or
\* only in an attempt that failed, and which leaves the queue or is marked.
LEMMA Ran ==
    ASSUME SyncInv, TypeOK', \A p \in Procs : Doing(p)',
           NEW op \in Op, runs(op), op.call <= calls,
           executed[op.call] # 0 => op.call \in disturbed,
           \A other \in queue' : other.call = op.call => op.call \in disturbed',
           queue' \subseteq queue, \A other \in queue \ queue' : other.call = op.call,
           disturbed \subseteq disturbed',
           UNCHANGED <<queued, provisional, calls>>
    PROVE  SyncInv'
<1>1. /\ executed' \in [Calls -> 0..2] /\ executed'[op.call] # 0
      /\ executed[op.call] = 0 => executed'[op.call] = 1
      /\ \A c \in Calls \ {op.call} : executed'[c] = executed[c]
  BY RunsType DEF SyncInv
<1>2. /\ calls \in Nat /\ Calls \subseteq Nat /\ op.call \in Calls
      /\ \A other \in queue : other.call \in Calls
      /\ executed \in [Calls -> 0..2] /\ queued \subseteq Calls
  BY SyncAssumption DEF SyncInv, TypeOK, Calls, Op
<1>3. Pending'
  <2>1. \A other \in queue' : other.call <= calls'
          /\ (executed'[other.call] # 0 => other.call \in disturbed')
    <3> SUFFICES ASSUME NEW other \in queue'
                 PROVE  /\ other.call <= calls
                        /\ executed'[other.call] # 0 => other.call \in disturbed'
      OBVIOUS
    <3>1. CASE other.call = op.call
      BY <3>1
    <3>2. CASE other.call # op.call
      BY <1>1, <1>2, <3>2 DEF SyncInv, Pending
    <3> QED
      BY <3>1, <3>2
  <2>2. \A c \in Calls : c > calls' => executed'[c] = 0
    BY <1>1, <1>2 DEF SyncInv, Pending
  <2>3. \A first, second \in queue' : first.call = second.call => first = second
    BY DEF SyncInv, Pending
  <2> QED
    BY <2>1, <2>2, <2>3 DEF Pending
<1>4. QueuedReachServer'
  <2> SUFFICES ASSUME NEW c \in queued
               PROVE  executed'[c] > 0 \/ c \in {other.call : other \in queue'}
    BY DEF QueuedReachServer
  <2>0. executed'[c] \in 0..2 /\ executed[c] \in 0..2
    BY <1>1, <1>2
  <2>1. CASE c = op.call
    BY <1>1, <2>0, <2>1
  <2>2. CASE c # op.call /\ executed[c] > 0
    BY <1>1, <1>2, <2>0, <2>2
  <2>3. CASE c # op.call /\ c \in {other.call : other \in queue}
    BY <2>3
  <2> QED
    BY <2>1, <2>2, <2>3 DEF SyncInv, QueuedReachServer
<1>5. OfflineStoreReadable'
  BY DEF SyncInv, OfflineStoreReadable
<1>6. NoNeedlessReplay'
  BY <1>1, <1>2 DEF SyncInv, NoNeedlessReplay
<1> QED
  BY <1>3, <1>4, <1>5, <1>6 DEF SyncInv

\* A new call has a number that no queued one has.
LEMMA CallStep ==
    ASSUME SyncInv, OneProcess, NEW p \in Procs, Call(p)
    PROVE  SyncInv'
<1>1. PICK kind \in Kinds, target \in Ids \cup provisional \cup {None}, content \in Contents :
        /\ pc[p] = "ready" /\ calls < MaxOps /\ calls' = calls + 1
        /\ current' = [current EXCEPT ![p] = [call |-> calls + 1, kind |-> kind,
                           target |-> target, content |-> content, at |-> 0]]
        /\ pc' = [pc EXCEPT ![p] = "request"]
        /\ UNCHANGED <<store, todo, rows, clock, history>>
  BY DEF Call, goto
<1> DEFINE op == [call |-> calls + 1, kind |-> kind, target |-> target,
                  content |-> content, at |-> 0]
<1>2. TypeOK /\ Pending /\ Doing(p) /\ \A q \in Procs : q = p
  BY DEF SyncInv, OneProcess
<1>3. op \in Op /\ op.call = calls + 1 /\ calls + 1 \in 0..MaxOps /\ calls + 1 \in Calls
      /\ calls \in Nat
  BY <1>1, <1>2, SyncAssumption DEF TypeOK, Op, Calls
<1>4. current' = [current EXCEPT ![p] = op]
  BY <1>1
<1> HIDE DEF op
<1>5. TypeOK'
  BY <1>1, <1>2, <1>3, <1>4 DEF TypeOK, store, history
<1>6. executed[op.call] = 0 /\ \A other \in queue : other.call # op.call
  <2>1. \A other \in queue : other.call <= calls /\ other.call \in Nat
    BY <1>2, SyncAssumption DEF Pending, TypeOK, Op, Calls
  <2> QED
    BY <1>2, <1>3, <2>1 DEF Pending
<1>7. \A q \in Procs : Doing(q)'
  BY <1>1, <1>2, <1>3, <1>4, <1>6 DEF Doing, TypeOK, store, history
<1> QED
  BY <1>1, <1>3, <1>5, <1>7, Quiet DEF store, history

\* A request is run, and answered or not; its operation is not queued.
LEMMA RequestStep ==
    ASSUME SyncInv, OneProcess, NEW p \in Procs,
           RequestAnswered(p) \/ RequestThrows(p)
    PROVE  SyncInv'
<1> DEFINE op == current[p]
<1>1. /\ TypeOK /\ pc[p] = "request" /\ op \in Op /\ op.call <= calls /\ executed[op.call] = 0
      /\ \A other \in queue : other.call # op.call
      /\ todo[p] = {} /\ \A q \in Procs : q = p
  BY DEF SyncInv, OneProcess, Doing, RequestAnswered, RequestThrows
<1>2. /\ runs(op) \/ UNCHANGED <<server, executed>>
      /\ cache' \in Rows
      /\ \/ pc' = [pc EXCEPT ![p] = "ready"] /\ current' = [current EXCEPT ![p] = None]
         \/ pc' = [pc EXCEPT ![p] = "refresh"] /\ current' = current
      /\ UNCHANGED <<provisional, calls, queue, todo, rows, clock, queued, disturbed>>
  BY <1>1 DEF RequestAnswered, RequestThrows, return, goto, Rows, TypeOK
<1> HIDE DEF op
<1>3. server' \in [Ids -> Row \cup {None, Gone}] /\ executed' \in [Calls -> 0..2]
  BY <1>1, <1>2, RunsType DEF TypeOK
<1>4. TypeOK'
  BY <1>1, <1>2, <1>3 DEF TypeOK, Rows
<1>5. \A q \in Procs : Doing(q)'
  BY <1>1, <1>2 DEF Doing, TypeOK, op
<1>6. CASE runs(op)
  BY <1>1, <1>2, <1>4, <1>5, <1>6, Ran
<1>7. CASE UNCHANGED <<server, executed>>
  <2>1. calls \in Nat
    BY <1>1, SyncAssumption DEF TypeOK
  <2> QED
    BY <1>2, <1>4, <1>5, <1>7, <2>1, Quiet
<1> QED
  BY <1>2, <1>6, <1>7

\* A call that fails on the network is queued, with the mark if it may have run.
LEMMA FailStep ==
    ASSUME SyncInv, OneProcess, NEW p \in Procs, RequestFails(p) \/ RefreshFails(p)
    PROVE  SyncInv'
<1> DEFINE op == current[p]
<1>1. /\ TypeOK /\ pc[p] \in {"request", "refresh"} /\ op \in Op
      /\ pc[p] = "request" => executed[op.call] = 0
  BY DEF SyncInv, Doing, RequestFails, RefreshFails
<1>2. CASE RequestFails(p)
  <2>1. CASE runs(op) /\ disturbed' = disturbed \cup {op.call}
    BY <1>1, <1>2, <2>1, RunsType, Enqueued DEF RequestFails
  <2>2. CASE UNCHANGED <<server, executed, disturbed>>
    BY <1>1, <1>2, <2>2, Enqueued DEF RequestFails, TypeOK
  <2> QED
    BY <1>2, <2>1, <2>2 DEF RequestFails
<1>3. CASE RefreshFails(p)
  BY <1>1, <1>3, Enqueued DEF RefreshFails, TypeOK
<1> QED
  BY <1>2, <1>3

\* A replay runs what the directory holds; the file goes when it is answered.
LEMMA ReplayStep ==
    ASSUME SyncInv, OneProcess, NEW p \in Procs, NEW op \in todo[p],
           ReplayAnswered(p, op) \/ ReplayFails(p, op)
    PROVE  SyncInv'
<1>1. /\ TypeOK /\ Pending /\ pc[p] = "replay" /\ todo[p] = queue /\ op \in queue /\ op \in Op
      /\ \A q \in Procs : q = p
  BY DEF SyncInv, OneProcess, Doing, ReplayAnswered, ReplayFails, TypeOK
<1>2. /\ op.call <= calls
      /\ executed[op.call] # 0 => op.call \in disturbed
      /\ \A other \in queue : other.call = op.call => other = op
      /\ op.call \in Calls
  BY <1>1 DEF Pending, Op
<1>3. CASE ReplayAnswered(p, op)
  <2>1. /\ runs(op) /\ queue' = queue \ {op} /\ todo' = [todo EXCEPT ![p] = @ \ {op}]
        /\ UNCHANGED <<cache, provisional, calls, pc, current, rows, clock, queued, disturbed>>
    BY <1>3 DEF ReplayAnswered
  <2>2. TypeOK'
    BY <1>1, <2>1, RunsType DEF TypeOK
  <2>3. \A q \in Procs : Doing(q)'
    BY <1>1, <2>1 DEF Doing, TypeOK
  <2> QED
    BY <1>1, <1>2, <2>1, <2>2, <2>3, Ran
<1>4. CASE ReplayFails(p, op)
  <2>1. /\ \/ runs(op) /\ disturbed' = disturbed \cup {op.call}
           \/ UNCHANGED <<server, executed, disturbed>>
        /\ todo' = [todo EXCEPT ![p] = {}] /\ pc' = [pc EXCEPT ![p] = "ready"]
        /\ UNCHANGED <<cache, provisional, queue, calls, current, rows, clock, queued>>
    BY <1>4 DEF ReplayFails, goto
  <2>2. server' \in [Ids -> Row \cup {None, Gone}] /\ executed' \in [Calls -> 0..2]
    BY <1>1, <2>1, RunsType DEF TypeOK
  <2>3. TypeOK'
    BY <1>1, <1>2, <2>1, <2>2 DEF TypeOK
  <2>4. \A q \in Procs : Doing(q)'
    BY <1>1, <2>1 DEF Doing, TypeOK
  <2>5. CASE runs(op) /\ disturbed' = disturbed \cup {op.call}
    BY <1>1, <1>2, <2>1, <2>3, <2>4, <2>5, Ran
  <2>6. CASE UNCHANGED <<server, executed, disturbed>>
    <3>1. calls \in Nat
      BY <1>1, SyncAssumption DEF TypeOK
    <3> QED
      BY <2>1, <2>3, <2>4, <2>6, <3>1, Quiet
  <2> QED
    BY <2>1, <2>5, <2>6
<1> QED
  BY <1>3, <1>4

\* The other steps of the sync: once the replay is done the directory is empty,
\* so clearing it loses nothing.
LEMMA SyncStep ==
    ASSUME SyncInv, OneProcess, NEW p \in Procs,
           \/ SyncStart(p) \/ ReplayDone(p) \/ Fetch(p) \/ Push(p) \/ RefreshCache(p)
           \/ SyncFails(p)
    PROVE  SyncInv'
<1>1. /\ TypeOK /\ Doing(p) /\ calls \in Nat
      /\ \A q \in Procs : q = p
  BY SyncAssumption DEF SyncInv, OneProcess, TypeOK
<1>2. SyncStart(p) => TypeOK' /\ Doing(p)'
  BY <1>1 DEF SyncStart, goto, TypeOK, Doing, store, history
<1>3. ReplayDone(p) => TypeOK' /\ Doing(p)'
  BY <1>1 DEF ReplayDone, goto, TypeOK, Doing, store, history
<1>4. Fetch(p) => TypeOK' /\ Doing(p)'
  <2> SUFFICES ASSUME Fetch(p) PROVE TypeOK' /\ Doing(p)'
    OBVIOUS
  <2>1. toPush(rows[p]) \in Rows
    BY <1>1, PushType DEF TypeOK, Rows
  <2> QED
    BY <1>1, <2>1 DEF Fetch, goto, TypeOK, Doing, store, history, Rows
<1>5. Push(p) => TypeOK' /\ Doing(p)'
  <2> SUFFICES ASSUME NEW id \in Ids, pc[p] = "push", rows[p][id] # None,
                      server' = [server EXCEPT ![id] =
                                   [content |-> rows[p][id].content, updated |-> clock]],
                      \/ rows' = [rows EXCEPT ![p][id] = None] /\ UNCHANGED pc
                      \/ pc' = [pc EXCEPT ![p] = "ready"] /\ rows' = [rows EXCEPT ![p] = noRows],
                      UNCHANGED <<cache, provisional, queue, calls, current, todo, clock, history>>
               PROVE  TypeOK' /\ Doing(p)'
    BY DEF Push, goto
  <2>1. [content |-> rows[p][id].content, updated |-> clock] \in Row
    BY <1>1 DEF TypeOK, Row
  <2>2. rows' \in [Procs -> Rows]
    BY <1>1, ListedType DEF TypeOK, Rows
  <2> QED
    BY <1>1, <2>1, <2>2 DEF TypeOK, Doing, history, Rows
<1>6. RefreshCache(p) => TypeOK' /\ Doing(p)' /\ queue = {}
  BY <1>1, ListedType DEF RefreshCache, goto, TypeOK, Doing, history, Rows
<1>7. SyncFails(p) => TypeOK' /\ Doing(p)'
  BY <1>1, ListedType DEF SyncFails, goto, TypeOK, Doing, store, history, Rows
<1>8. UNCHANGED <<queue, executed, disturbed, queued, calls>>
      /\ (provisional' = provisional \/ queue = {})
  BY <1>6 DEF SyncStart, ReplayDone, Fetch, Push, RefreshCache, SyncFails, store, history
<1>9. TypeOK' /\ \A q \in Procs : Doing(q)'
  BY <1>1, <1>2, <1>3, <1>4, <1>5, <1>6, <1>7
<1> QED
  BY <1>1, <1>8, <1>9, Quiet

\* Reading, restarting, the clock and the other clients of the server queue nothing.
LEMMA OtherStep ==
    ASSUME SyncInv, OneProcess,
           \/ \E p \in Procs : \/ RefreshAnswered(p) \/ RefreshThrows(p) \/ Read(p)
                               \/ Restart(p)
           \/ RemoteWrite \/ RemoteDelete \/ Tick \/ UNCHANGED vars
    PROVE  SyncInv'
<1>1. /\ TypeOK /\ calls \in Nat /\ noRows \in Rows
      /\ \A p, q \in Procs : q = p
      /\ \A p \in Procs : Doing(p)
  BY SyncAssumption, ListedType DEF SyncInv, OneProcess, TypeOK
<1>2. /\ UNCHANGED <<provisional, queue, calls, history>>
      /\ clock' \in {clock, clock + 1} /\ clock' <= MaxTime
  BY <1>1, SyncAssumption DEF RefreshAnswered, RefreshThrows, Read, Restart, RemoteWrite,
     RemoteDelete, Tick, vars, store, TypeOK
<1>3. cache' \in Rows
  BY <1>1, CacheType DEF RefreshAnswered, RefreshThrows, Read, Restart, RemoteWrite,
     RemoteDelete, Tick, vars, store, TypeOK, Rows
<1>4. server' \in [Ids -> Row \cup {None, Gone}]
  <2>1. CASE RemoteWrite
    <3>1. \A content \in Contents : [content |-> content, updated |-> clock] \in Row
      BY <1>1 DEF TypeOK, Row
    <3> QED
      BY <1>1, <2>1, <3>1 DEF RemoteWrite, TypeOK
  <2>2. CASE RemoteDelete
    BY <1>1, <2>2 DEF RemoteDelete, TypeOK
  <2>3. CASE UNCHANGED server
    BY <1>1, <2>3 DEF TypeOK
  <2> QED
    BY <2>1, <2>2, <2>3 DEF RefreshAnswered, RefreshThrows, Read, Restart, Tick, vars, store
<1>5. \/ UNCHANGED local
      \/ \E p \in Procs : /\ pc' \in {[pc EXCEPT ![p] = "ready"], [pc EXCEPT ![p] = "start"]}
                          /\ current' = [current EXCEPT ![p] = None]
                          /\ \/ UNCHANGED <<todo, rows>> /\ pc[p] = "refresh"
                             \/ /\ todo' = [todo EXCEPT ![p] = {}]
                                /\ rows' = [rows EXCEPT ![p] = noRows]
  BY DEF RefreshAnswered, RefreshThrows, Read, Restart, RemoteWrite, RemoteDelete, Tick,
     vars, return, goto, local
<1>6. TypeOK'
  <2>1. clock' \in 0..MaxTime
    BY <1>1, <1>2, SyncAssumption DEF TypeOK
  <2>2. /\ pc' \in [Procs -> {"start", "ready", "request", "refresh", "replay", "fetch", "push"}]
        /\ current' \in [Procs -> Op \cup {None}]
        /\ todo' \in [Procs -> SUBSET Op]
        /\ rows' \in [Procs -> Rows]
    BY <1>1, <1>5 DEF TypeOK, local, Rows
  <2> QED
    BY <1>1, <1>2, <1>3, <1>4, <2>1, <2>2 DEF TypeOK, history, Rows
<1>7. \A q \in Procs : Doing(q)'
  BY <1>1, <1>2, <1>5 DEF Doing, TypeOK, history, local
<1> QED
  BY <1>1, <1>2, <1>6, <1>7, Quiet DEF history

----------------------------------------------------------------------------
(* The results. *)

\* Every step of one process, and of the world around it, keeps the invariant.
LEMMA NextSyncInv == OneProcess /\ SyncInv /\ [Next]_vars => SyncInv'
<1> SUFFICES ASSUME OneProcess, SyncInv, [Next]_vars PROVE SyncInv'
  OBVIOUS
<1>1. ASSUME NEW p \in Procs, Call(p) PROVE SyncInv'
  BY <1>1, CallStep
<1>2. ASSUME NEW p \in Procs, RequestAnswered(p) \/ RequestThrows(p) PROVE SyncInv'
  BY <1>2, RequestStep
<1>3. ASSUME NEW p \in Procs, RequestFails(p) \/ RefreshFails(p) PROVE SyncInv'
  BY <1>3, FailStep
<1>4. ASSUME NEW p \in Procs, NEW op \in todo[p], ReplayAnswered(p, op) \/ ReplayFails(p, op)
      PROVE  SyncInv'
  BY <1>4, ReplayStep
<1>5. ASSUME NEW p \in Procs,
             \/ SyncStart(p) \/ ReplayDone(p) \/ Fetch(p) \/ Push(p) \/ RefreshCache(p)
             \/ SyncFails(p)
      PROVE  SyncInv'
  BY <1>5, SyncStep
<1>6. CASE \/ \E p \in Procs : \/ RefreshAnswered(p) \/ RefreshThrows(p) \/ Read(p)
                               \/ Restart(p)
           \/ RemoteWrite \/ RemoteDelete \/ Tick \/ UNCHANGED vars
  BY <1>6, OtherStep
<1> QED
  BY <1>1, <1>2, <1>3, <1>4, <1>5, <1>6 DEF Next

\* The invariant holds in every reachable state.
LEMMA SyncInvAlways == OneProcess /\ Spec => []SyncInv
<1>1. Init => SyncInv
  <2> SUFFICES ASSUME Init PROVE SyncInv
    OBVIOUS
  <2>1. TypeOK
    BY SyncAssumption DEF Init, TypeOK, noRows
  <2> QED
    BY <2>1 DEF Init, SyncInv, Doing, Pending, QueuedReachServer, OfflineStoreReadable,
       NoNeedlessReplay
<1>2. OneProcess => []OneProcess
  <2>1. OneProcess => OneProcess'
    BY DEF OneProcess
  <2> QED
    BY <2>1, PTL
<1> QED
  BY <1>1, <1>2, NextSyncInv, PTL DEF Spec

\* Every reachable state has its declared types: merged and pushed rows are rows
\* (CRDTMerger.mergeMemories).
THEOREM SyncTyped == OneProcess /\ Spec => []TypeOK
<1>1. SyncInv => TypeOK
  BY DEF SyncInv
<1> QED
  BY <1>1, SyncInvAlways, PTL

\* What a caller was told is queued stays in the pending directory until the
\* server has run it (PendingQueue, SyncManager.syncPending).
THEOREM QueuedAreKept == OneProcess /\ Spec => []QueuedReachServer
<1>1. SyncInv => QueuedReachServer
  BY DEF SyncInv
<1> QED
  BY <1>1, SyncInvAlways, PTL

\* An offline store can be read from the cache while it is pending
\* (VegaSyncClient.createCachedMemory, SyncManager.refreshCache).
THEOREM OfflineStoresReadable == OneProcess /\ Spec => []OfflineStoreReadable
<1>1. SyncInv => OfflineStoreReadable
  BY DEF SyncInv
<1> QED
  BY <1>1, SyncInvAlways, PTL

\* The server runs an operation twice only after an attempt that failed
\* (SyncManager.syncPending removes the file of each operation it has replayed).
THEOREM ReplayedOnce == OneProcess /\ Spec => []NoNeedlessReplay
<1>1. SyncInv => NoNeedlessReplay
  BY DEF SyncInv
<1> QED
  BY <1>1, SyncInvAlways, PTL

\* A step that runs a queued operation is a replay of it, in its turn.
LEMMA TurnStep ==
    ASSUME OneProcess, SyncInv, [Next]_vars, NEW op \in queue, NEW other \in queue,
           executed'[op.call] # executed[op.call], other.at < op.at
    PROVE  FALSE
<1>1. TypeOK /\ Pending /\ \A p \in Procs : Doing(p)
  BY DEF SyncInv
<1>2. op \in Op /\ other \in Op /\ op.call \in Calls /\ op.at \in Nat /\ other.at \in Nat
  BY <1>1, SyncAssumption DEF TypeOK, Op
<1>3. ASSUME NEW p \in Procs, RequestAnswered(p) \/ RequestThrows(p) \/ RequestFails(p)
      PROVE  executed'[op.call] = executed[op.call]
  <2>1. /\ current[p] \in Op /\ op.call # current[p].call
        /\ runs(current[p]) \/ executed' = executed
    BY <1>1, <1>3 DEF Doing, RequestAnswered, RequestThrows, RequestFails
  <2> QED
    BY <1>1, <1>2, <2>1, RunsType
<1>4. ASSUME NEW p \in Procs, NEW next \in todo[p], ReplayAnswered(p, next) \/ ReplayFails(p, next)
      PROVE  executed'[op.call] = executed[op.call]
  <2>1. /\ todo[p] = queue /\ next \in Op /\ \A q \in queue : next.at <= q.at
        /\ runs(next) \/ executed' = executed
    BY <1>1, <1>4 DEF Doing, ReplayAnswered, ReplayFails, isNext, TypeOK
  <2>2. next # op
    BY <1>2, <2>1
  <2>3. next.call # op.call
    BY <1>1, <2>1, <2>2 DEF Pending
  <2> QED
    BY <1>1, <1>2, <2>1, <2>3, RunsType
<1>5. CASE UNCHANGED executed
  BY <1>5
<1> QED
  BY <1>3, <1>4, <1>5 DEF Next, vars, history, Call, RefreshAnswered, RefreshFails,
     RefreshThrows, Read, SyncStart, ReplayDone, Fetch, Push, RefreshCache, SyncFails,
     Restart, RemoteWrite, RemoteDelete, Tick

\* A replay never overtakes an operation that was queued before
\* (PendingQueue.dequeue, SyncManager.syncPending).
THEOREM ReplaysInOrder == OneProcess /\ Spec => ReplayInOrder
<1>1. OneProcess /\ SyncInv /\ [Next]_vars =>
        [\A op, other \in queue :
            /\ executed'[op.call] # executed[op.call]
            /\ other.at < op.at
            => executed[other.call] > 0]_vars
  BY TurnStep
<1>2. OneProcess => []OneProcess
  <2>1. OneProcess => OneProcess'
    BY DEF OneProcess
  <2> QED
    BY <2>1, PTL
<1> QED
  BY <1>1, <1>2, SyncInvAlways, PTL DEF Spec, ReplayInOrder

----------------------------------------------------------------------------
(* To each call the client is one delivery. *)

\* Where a call is, when there is one process.
LEMMA PlaceOf ==
    ASSUME OneProcess, NEW p \in Procs, NEW c
    PROVE  /\ placeOf(c) =
                IF c \in {op.call : op \in queue} THEN "queued"
                ELSE IF pc[p] = "request" /\ current[p].call = c THEN "asked"
                ELSE IF pc[p] = "refresh" /\ current[p].call = c THEN "answered"
                ELSE IF c <= calls THEN "over" ELSE "new"
           /\ placeOf(c)' =
                IF c \in {op.call : op \in queue'} THEN "queued"
                ELSE IF pc'[p] = "request" /\ current'[p].call = c THEN "asked"
                ELSE IF pc'[p] = "refresh" /\ current'[p].call = c THEN "answered"
                ELSE IF c <= calls' THEN "over" ELSE "new"
<1>1. \A q \in Procs : q = p
  BY DEF OneProcess
<1> QED
  BY <1>1 DEF placeOf, waitsFor

\* A call that a step does not touch stays where it is.
LEMMA PlaceStays ==
    ASSUME UNCHANGED <<queue, calls, pc, current>>, NEW c
    PROVE  placeOf(c)' = placeOf(c)
BY DEF placeOf, waitsFor

\* A new call has not been anywhere.
LEMMA CallDelivers ==
    ASSUME SyncInv, OneProcess, NEW p \in Procs, Call(p), NEW c \in Calls
    PROVE  [Delivered(c)!Next]_(Delivered(c)!vars)
<1>1. /\ pc[p] = "ready" /\ calls' = calls + 1 /\ pc' = [pc EXCEPT ![p] = "request"]
      /\ \E op : op.call = calls + 1 /\ current' = [current EXCEPT ![p] = op]
      /\ UNCHANGED <<queue, queued, executed, disturbed>>
  BY DEF Call, goto, store, history
<1>2. /\ TypeOK /\ Pending /\ calls \in Nat /\ c \in Nat
      /\ \A op \in queue : op.call <= calls /\ op.call \in Nat
  BY SyncAssumption DEF SyncInv, TypeOK, Pending, Op, Calls
<1>3. c = calls + 1 => placeOf(c) = "new" /\ placeOf(c)' = "asked"
  BY <1>1, <1>2, PlaceOf DEF TypeOK
<1>4. c # calls + 1 => placeOf(c)' = placeOf(c)
  BY <1>1, <1>2, PlaceOf DEF TypeOK
<1> QED
  BY <1>1, <1>3, <1>4 DEF Delivered!Next, Delivered!Ask, Delivered!vars

\* What a request comes to.
LEMMA RequestDelivers ==
    ASSUME SyncInv, OneProcess, NEW p \in Procs, NEW c \in Calls,
           \/ RequestAnswered(p) \/ RequestThrows(p)
           \/ RefreshAnswered(p) \/ RefreshThrows(p)
    PROVE  [Delivered(c)!Next]_(Delivered(c)!vars)
<1> DEFINE op == current[p]
<1>1. /\ TypeOK /\ pc[p] \in {"request", "refresh"} /\ op \in Op
      /\ op.call <= calls /\ \A other \in queue : other.call # op.call
  BY DEF SyncInv, Doing, RequestAnswered, RequestThrows, RefreshAnswered, RefreshThrows
<1>2. UNCHANGED <<queue, calls, queued, disturbed>>
  BY DEF RequestAnswered, RequestThrows, RefreshAnswered, RefreshThrows, store, history
<1>3. /\ \/ pc' = [pc EXCEPT ![p] = "ready"]
         \/ RequestAnswered(p) /\ pc' = [pc EXCEPT ![p] = "refresh"] /\ current' = current
      /\ \/ pc[p] = "request" /\ runs(op)
         \/ UNCHANGED executed /\ ~RequestAnswered(p)
      /\ RequestAnswered(p) => pc[p] = "request"
  BY <1>1 DEF RequestAnswered, RequestThrows, RefreshAnswered, RefreshThrows, return, goto,
     history
<1>4. pc \in [Procs -> {"start", "ready", "request", "refresh", "replay", "fetch", "push"}]
  BY <1>1 DEF TypeOK
<1> HIDE DEF op
<1>5. CASE c # op.call
  <2>1. placeOf(c)' = placeOf(c)
    BY <1>2, <1>3, <1>4, <1>5, PlaceOf DEF op
  <2>2. executed'[c] = executed[c]
    BY <1>1, <1>3, <1>5, RunsType
  <2> QED
    BY <1>2, <2>1, <2>2 DEF Delivered!vars
<1>6. CASE c = op.call
  <2>1. placeOf(c) = IF pc[p] = "request" THEN "asked" ELSE "answered"
    BY <1>1, <1>6, PlaceOf DEF op
  <2>2. \/ placeOf(c)' = "over"
        \/ RequestAnswered(p) /\ placeOf(c)' = "answered"
    BY <1>1, <1>2, <1>3, <1>4, <1>6, PlaceOf DEF op
  <2>3. runs(op) => executed'[c] = IF executed[c] = 0 THEN 1 ELSE 2
    BY <1>1, <1>6 DEF runs, TypeOK
  <2>4. CASE RequestAnswered(p)
    BY <1>2, <1>3, <2>1, <2>2, <2>3, <2>4
       DEF Delivered!Next, Delivered!Answer, Delivered!runs
  <2>5. CASE ~RequestAnswered(p)
    BY <1>2, <1>3, <2>1, <2>2, <2>3, <2>5
       DEF Delivered!Next, Delivered!GiveUp, Delivered!runs
  <2> QED
    BY <2>4, <2>5
<1> QED
  BY <1>5, <1>6

\* A call that fails on the network is queued, as one that failed if it may have run.
LEMMA FailDelivers ==
    ASSUME SyncInv, OneProcess, NEW p \in Procs, NEW c \in Calls,
           RequestFails(p) \/ RefreshFails(p)
    PROVE  [Delivered(c)!Next]_(Delivered(c)!vars)
<1> DEFINE op == current[p]
<1>1. /\ TypeOK /\ pc[p] \in {"request", "refresh"} /\ op \in Op
      /\ \A other \in queue : other.call # op.call
  BY DEF SyncInv, Doing, RequestFails, RefreshFails
<1>2. /\ \E new \in Op : new.call = op.call /\ queue' = queue \cup {new}
      /\ queued' = queued \cup {op.call} /\ pc' = [pc EXCEPT ![p] = "ready"]
      /\ calls' = calls
  <2>1. [op EXCEPT !.at = clock] \in Op /\ [op EXCEPT !.at = clock].call = op.call
    BY <1>1 DEF TypeOK, Op
  <2> QED
    BY <2>1 DEF RequestFails, RefreshFails, enqueue, goto
<1>3. \/ pc[p] = "request" /\ runs(op) /\ disturbed' = disturbed \cup {op.call}
      \/ pc[p] = "request" /\ UNCHANGED <<executed, disturbed>>
      \/ pc[p] = "refresh" /\ UNCHANGED executed /\ disturbed' = disturbed \cup {op.call}
  BY DEF RequestFails, RefreshFails
<1>4. pc \in [Procs -> {"start", "ready", "request", "refresh", "replay", "fetch", "push"}]
  BY <1>1 DEF TypeOK
<1> HIDE DEF op
<1>5. CASE c # op.call
  <2>1. placeOf(c)' = placeOf(c)
    BY <1>2, <1>4, <1>5, PlaceOf DEF op
  <2>2. executed'[c] = executed[c]
    BY <1>1, <1>3, <1>5, RunsType
  <2>3. (c \in queued' <=> c \in queued) /\ (c \in disturbed' <=> c \in disturbed)
    BY <1>2, <1>3, <1>5
  <2> QED
    BY <2>1, <2>2, <2>3 DEF Delivered!vars
<1>6. CASE c = op.call
  <2>1. placeOf(c) = IF pc[p] = "request" THEN "asked" ELSE "answered"
    BY <1>1, <1>6, PlaceOf DEF op
  <2>2. placeOf(c)' = "queued" /\ c \in queued'
    BY <1>2, <1>6, PlaceOf
  <2>3. runs(op) => executed'[c] = IF executed[c] = 0 THEN 1 ELSE 2
    BY <1>1, <1>6 DEF runs, TypeOK
  <2> QED
    BY <1>3, <1>6, <2>1, <2>2, <2>3 DEF Delivered!Next, Delivered!Queue, Delivered!runs
<1> QED
  BY <1>5, <1>6

\* A replay takes its call out of the directory when it is answered.
LEMMA ReplayDelivers ==
    ASSUME SyncInv, OneProcess, NEW p \in Procs, NEW op \in todo[p], NEW c \in Calls,
           ReplayAnswered(p, op) \/ ReplayFails(p, op)
    PROVE  [Delivered(c)!Next]_(Delivered(c)!vars)
<1>1. /\ TypeOK /\ pc[p] = "replay" /\ op \in queue /\ op \in Op
      /\ op.call <= calls
      /\ \A other \in queue : other.call = op.call => other = op
  BY DEF SyncInv, Doing, Pending, TypeOK, ReplayAnswered, ReplayFails
<1>2. /\ UNCHANGED <<calls, queued>>
      /\ pc'[p] \in {"replay", "ready"}
      /\ \/ runs(op) /\ queue' = queue \ {op} /\ UNCHANGED disturbed
         \/ runs(op) /\ queue' = queue /\ disturbed' = disturbed \cup {op.call}
         \/ UNCHANGED <<executed, queue, disturbed>>
  BY <1>1 DEF ReplayAnswered, ReplayFails, goto, TypeOK
<1>3. CASE c # op.call
  <2>1. placeOf(c)' = placeOf(c)
    BY <1>1, <1>2, <1>3, PlaceOf
  <2>2. executed'[c] = executed[c]
    BY <1>1, <1>2, <1>3, RunsType
  <2>3. (c \in queued' <=> c \in queued) /\ (c \in disturbed' <=> c \in disturbed)
    BY <1>2, <1>3
  <2> QED
    BY <2>1, <2>2, <2>3 DEF Delivered!vars
<1>4. CASE c = op.call
  <2>1. placeOf(c) = "queued"
    BY <1>1, <1>4, PlaceOf
  <2>2. runs(op) => executed'[c] = IF executed[c] = 0 THEN 1 ELSE 2
    BY <1>1, <1>4 DEF runs, TypeOK
  <2>3. CASE runs(op) /\ queue' = queue \ {op} /\ UNCHANGED disturbed
    <3>1. placeOf(c)' = "over"
      BY <1>1, <1>2, <1>4, <2>3, PlaceOf
    <3> QED
      BY <1>2, <2>1, <2>2, <2>3, <3>1 DEF Delivered!Next, Delivered!Deliver, Delivered!runs
  <2>4. CASE runs(op) /\ queue' = queue /\ disturbed' = disturbed \cup {op.call}
    <3>1. placeOf(c)' = "queued"
      BY <1>1, <1>4, <2>4, PlaceOf
    <3> QED
      BY <1>2, <1>4, <2>1, <2>2, <2>4, <3>1
         DEF Delivered!Next, Delivered!AttemptFails, Delivered!runs
  <2>5. CASE UNCHANGED <<executed, queue, disturbed>>
    <3>1. placeOf(c)' = "queued"
      BY <1>1, <1>4, <2>5, PlaceOf
    <3> QED
      BY <1>2, <2>1, <2>5, <3>1 DEF Delivered!vars
  <2> QED
    BY <1>2, <2>3, <2>4, <2>5
<1> QED
  BY <1>3, <1>4

\* The other steps of a sync leave every call where it is; the directory that is
\* cleared is empty.
LEMMA SyncDelivers ==
    ASSUME SyncInv, OneProcess, NEW p \in Procs, NEW c \in Calls,
           \/ SyncStart(p) \/ ReplayDone(p) \/ Fetch(p) \/ Push(p) \/ RefreshCache(p)
           \/ SyncFails(p) \/ Read(p)
    PROVE  [Delivered(c)!Next]_(Delivered(c)!vars)
<1>1. TypeOK /\ Doing(p)
  BY DEF SyncInv
<1>2. /\ UNCHANGED <<queue, calls, current, executed, queued, disturbed>>
      /\ pc[p] \notin {"request", "refresh"} /\ pc'[p] \notin {"request", "refresh"}
  BY <1>1 DEF SyncStart, ReplayDone, Fetch, Push, RefreshCache, SyncFails, Read, goto,
     store, local, history, Doing, TypeOK
<1>3. placeOf(c)' = placeOf(c)
  BY <1>2, PlaceOf
<1> QED
  BY <1>2, <1>3 DEF Delivered!vars

\* A process that ends gives up what it was asking for.
LEMMA RestartDelivers ==
    ASSUME SyncInv, OneProcess, NEW p \in Procs, NEW c \in Calls, Restart(p)
    PROVE  [Delivered(c)!Next]_(Delivered(c)!vars)
<1>1. TypeOK /\ Doing(p)
  BY DEF SyncInv
<1>2. UNCHANGED <<queue, calls, executed, queued, disturbed>> /\ pc'[p] = "start"
  BY <1>1 DEF Restart, store, history, TypeOK
<1>3. \/ placeOf(c)' = placeOf(c)
      \/ placeOf(c) \in {"asked", "answered"} /\ placeOf(c)' = "over"
  BY <1>1, <1>2, PlaceOf DEF Doing
<1> QED
  BY <1>2, <1>3 DEF Delivered!vars, Delivered!Next, Delivered!GiveUp

\* Every step is one of the call's own delivery, or leaves it alone.
LEMMA StepDelivers ==
    ASSUME SyncInv, OneProcess, [Next]_vars, NEW c \in Calls
    PROVE  [Delivered(c)!Next]_(Delivered(c)!vars)
<1>1. ASSUME RemoteWrite \/ RemoteDelete \/ Tick \/ UNCHANGED vars
      PROVE  [Delivered(c)!Next]_(Delivered(c)!vars)
  <2>1. UNCHANGED <<queue, calls, pc, current, executed, queued, disturbed>>
    BY <1>1 DEF RemoteWrite, RemoteDelete, Tick, vars, store, local, history
  <2> QED
    BY <2>1, PlaceStays DEF Delivered!vars
<1> QED
  BY <1>1, CallDelivers, RequestDelivers, FailDelivers, ReplayDelivers, SyncDelivers,
     RestartDelivers DEF Next

\* To each call the steps of requests, syncs and restarts are those of its own
\* delivery (VegaSyncClient, PendingQueue, SyncManager.syncPending).
THEOREM DeliveriesFollowed == OneProcess /\ Spec => CallsAreDelivered
<1> DEFINE Follow == \A c \in Calls : [Delivered(c)!Next]_(Delivered(c)!vars)
<1>1. OneProcess /\ SyncInv /\ [Next]_vars => [Follow]_vars
  BY StepDelivers
<1>2. OneProcess => []OneProcess
  <2>1. OneProcess => OneProcess'
    BY DEF OneProcess
  <2> QED
    BY <2>1, PTL
<1> HIDE DEF Follow
<1>3. OneProcess /\ Spec => [][Follow]_vars
  BY <1>1, <1>2, SyncInvAlways, PTL DEF Spec
<1> QED
  BY <1>3 DEF Follow, CallsAreDelivered

\* The whole life of each call is one of Delivery.
THEOREM DeliveryRefined ==
    ASSUME NEW c \in Calls PROVE OneProcess /\ Spec => Delivered(c)!Spec
<1>1. Init => Delivered(c)!Init
  BY SyncAssumption DEF Init, Calls, placeOf, waitsFor, Delivered!Init
<1>2. OneProcess /\ SyncInv /\ [Next]_vars => [Delivered(c)!Next]_(Delivered(c)!vars)
  BY StepDelivers
<1>3. OneProcess => []OneProcess
  <2>1. OneProcess => OneProcess'
    BY DEF OneProcess
  <2> QED
    BY <2>1, PTL
<1> QED
  BY <1>1, <1>2, <1>3, SyncInvAlways, PTL DEF Spec, Delivered!Spec

\* No call runs twice that was never queued, nor without an attempt that failed,
\* and what is promised is queued or has run.
THEOREM DeliverySound ==
    ASSUME NEW c \in Calls PROVE OneProcess /\ Spec => []Delivered(c)!Sound
<1>1. Delivered(c)!Init => Delivered(c)!Sound
  BY DEF Delivered!Init, Delivered!Sound, Delivered!PromiseKept, Delivered!NoNeedlessRun
<1>2. Delivered(c)!Sound /\ [Delivered(c)!Next]_(Delivered(c)!vars) => Delivered(c)!Sound'
  BY DEF Delivered!Sound, Delivered!PromiseKept, Delivered!NoNeedlessRun, Delivered!vars,
     Delivered!Next, Delivered!Ask, Delivered!Answer, Delivered!GiveUp, Delivered!Queue,
     Delivered!Deliver, Delivered!AttemptFails, Delivered!runs
<1> QED
  BY <1>1, <1>2, DeliveryRefined, PTL DEF Delivered!Spec
=============================================================================
