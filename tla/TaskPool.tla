------------------------------- MODULE TaskPool -------------------------------
(***************************************************************************)
(* SyncTimedbThreadPool: terminate cannot stop a running thread, so it shuts *)
(* the sockets of the PostgreSQL backends of the tasks that are running and  *)
(* has their later connection attempts refused.                              *)
(*                                                                           *)
(* A task opens and closes its connection while it runs, outside the lock;   *)
(* the registration, the connect guard and terminate run under               *)
(* _ABANDONED_LOCK.  Sockets are file descriptors, which the kernel gives    *)
(* out again to whatever thread opens the next one.                          *)
(***************************************************************************)
EXTENDS Naturals, FiniteSets

CONSTANTS
  Threads,      \* threads of the pool
  Others,       \* threads of the process that belong to no terminated pool
  NoThread

ASSUME TaskPoolAssumption ==
  /\ IsFiniteSet(Threads) /\ IsFiniteSet(Others)
  /\ Threads \cap Others = {} /\ NoThread \notin Threads \cup Others

\* As many descriptors as connections can be open at once; 0 is no descriptor.
Fds == 1 .. Cardinality(Threads \cup Others)

VARIABLES
  pc,           \* of each thread of the pool
  conn,         \* the descriptor of each thread's connection, 0 if none
  owner,        \* the thread that has a descriptor open, or NoThread
  shut,         \* the descriptors whose socket has been shut down
  registered,   \* _task_connections
  abandoned,    \* _ABANDONED_THREAD_IDENTS
  terminated,   \* _terminated
  closing,      \* _executor.shutdown has been called
  term,         \* the thread in terminate: idle, locked or done
  todo,         \* tasks whose sockets terminate has still to shut
  fd            \* what raw.fileno() returned, 0 before

tasks == <<registered, abandoned>>
sockets == <<conn, owner, shut>>
terminator == <<terminated, term, todo, fd>>
vars == <<pc, sockets, tasks, closing, terminator>>

Locked == term = "locked"
Goto(t, to) == pc' = [pc EXCEPT ![t] = to]

Init ==
  /\ pc = [t \in Threads |-> "idle"]
  /\ conn = [t \in Threads \cup Others |-> 0]
  /\ owner = [f \in Fds |-> NoThread] /\ shut = {}
  /\ registered = {} /\ abandoned = {}
  /\ terminated = FALSE /\ closing = FALSE
  /\ term = "idle" /\ todo = {} /\ fd = 0

\* The kernel gives out a free descriptor (the lowest; here any), on a fresh socket.
OpenSocket(t) ==
  \E f \in Fds :
    /\ conn[t] = 0 /\ owner[f] = NoThread
    /\ conn' = [conn EXCEPT ![t] = f]
    /\ owner' = [owner EXCEPT ![f] = t]
    /\ shut' = shut \ {f}

CloseSocket(t) ==
  /\ conn' = [conn EXCEPT ![t] = 0]
  /\ owner' = [f \in Fds |-> IF owner[f] = t THEN NoThread ELSE owner[f]]
  /\ shut' = {f \in shut : owner[f] # t}

-----------------------------------------------------------------------------
(* A task, _run_task.                                                        *)

\* A work item that was taken off the executor's queue before the shutdown runs.
Start(t) ==
  /\ pc[t] = "idle" /\ ~closing
  /\ Goto(t, "started")
  /\ UNCHANGED <<sockets, tasks, closing, terminator>>

\* Mutant of Register: a task that starts after terminate is not abandoned.
RegisterNotAbandoned(t) ==
  /\ pc[t] = "started" /\ ~Locked
  /\ registered' = registered \cup {t}
  /\ Goto(t, "closed")
  /\ UNCHANGED <<abandoned, sockets, closing, terminator>>

Register(t) ==
  /\ pc[t] = "started" /\ ~Locked
  /\ registered' = registered \cup {t}
  /\ abandoned' = IF terminated THEN abandoned \cup {t} ELSE abandoned
  /\ Goto(t, "closed")
  /\ UNCHANGED <<sockets, closing, terminator>>

\* The task connects: wrapper.connection is set before connection_created is sent.
Connect(t) ==
  /\ pc[t] = "closed"
  /\ OpenSocket(t)
  /\ Goto(t, "opened")
  /\ UNCHANGED <<tasks, closing, terminator>>

\* _refuse_abandoned_thread_connect: an abandoned thread's connection is closed
\* and OperationalError raised; the task may try again.
Guard(t) ==
  /\ pc[t] = "opened" /\ ~Locked
  /\ IF t \in abandoned THEN CloseSocket(t) /\ Goto(t, "closed")
     ELSE UNCHANGED sockets /\ Goto(t, "connected")
  /\ UNCHANGED <<tasks, closing, terminator>>

\* The task closes its own connection while it is still registered, at the end of
\* _sync_worker_db_task or after an error.
Disconnect(t) ==
  /\ pc[t] = "connected"
  /\ CloseSocket(t)
  /\ Goto(t, "closed")
  /\ UNCHANGED <<tasks, closing, terminator>>

\* Mutant of Unregister: the thread stays in the set of abandoned threads.
UnregisterKeepsIdent(t) ==
  /\ pc[t] \in {"closed", "connected"} /\ ~Locked
  /\ registered' = registered \ {t}
  /\ Goto(t, "leaving")
  /\ UNCHANGED <<abandoned, sockets, closing, terminator>>

\* The finally clause: first unregister, then close what is still open.
Unregister(t) ==
  /\ pc[t] \in {"closed", "connected"} /\ ~Locked
  /\ registered' = registered \ {t}
  /\ abandoned' = abandoned \ {t}
  /\ Goto(t, "leaving")
  /\ UNCHANGED <<sockets, closing, terminator>>

Leave(t) ==
  /\ pc[t] = "leaving"
  /\ CloseSocket(t)
  /\ Goto(t, "idle")
  /\ UNCHANGED <<tasks, closing, terminator>>

\* Any other thread of the process connects and disconnects as it likes.
OtherConnect(o) ==
  /\ OpenSocket(o)
  /\ UNCHANGED <<pc, tasks, closing, terminator>>

OtherDisconnect(o) ==
  /\ conn[o] # 0
  /\ CloseSocket(o)
  /\ UNCHANGED <<pc, tasks, closing, terminator>>

-----------------------------------------------------------------------------
(* terminate.                                                                *)

ShutExecutor ==
  /\ ~closing
  /\ closing' = TRUE
  /\ UNCHANGED <<pc, sockets, tasks, terminator>>

\* The lock is taken; every registered task is abandoned.
TerminateLocks ==
  /\ closing /\ term = "idle"
  /\ term' = "locked" /\ terminated' = TRUE
  /\ abandoned' = abandoned \cup registered
  /\ todo' = registered
  /\ UNCHANGED <<pc, sockets, registered, closing, fd>>

\* _shutdown_backend_socket reads the descriptor of a connection ...
ReadFd(t) ==
  /\ Locked /\ fd = 0 /\ t \in todo
  /\ fd' = conn[t]
  /\ todo' = todo \ {t}
  /\ UNCHANGED <<pc, sockets, tasks, closing, terminated, term>>

\* ... and then shuts whatever socket is behind it; a closed one is skipped.
ShutFd ==
  /\ fd # 0
  /\ shut' = IF owner[fd] = NoThread THEN shut ELSE shut \cup {fd}
  /\ fd' = 0
  /\ UNCHANGED <<pc, conn, owner, tasks, closing, terminated, term, todo>>

TerminateUnlocks ==
  /\ Locked /\ todo = {} /\ fd = 0
  /\ term' = "done"
  /\ UNCHANGED <<pc, sockets, tasks, closing, terminated, todo, fd>>

-----------------------------------------------------------------------------
Next ==
  \/ \E t \in Threads :
       \/ Start(t) \/ Register(t) \/ Connect(t) \/ Guard(t) \/ Disconnect(t)
       \/ Unregister(t) \/ Leave(t) \/ ReadFd(t)
  \/ \E o \in Others : OtherConnect(o) \/ OtherDisconnect(o)
  \/ ShutExecutor \/ TerminateLocks \/ ShutFd \/ TerminateUnlocks

Spec == Init /\ [][Next]_vars

-----------------------------------------------------------------------------
(* Properties. *)

\* Every variable stays within the values the code can give it: a connection's
\* descriptor is open and its thread's own, only open sockets are shut, and an
\* abandoned thread runs a task, so that no identifier stays behind to refuse a
\* thread the kernel gives it to later.
TypeOK ==
  /\ pc \in [Threads -> {"idle", "started", "closed", "opened", "connected", "leaving"}]
  /\ conn \in [Threads \cup Others -> 0 .. Cardinality(Threads \cup Others)]
  /\ owner \in [Fds -> Threads \cup Others \cup {NoThread}]
  /\ shut \subseteq Fds
  /\ registered \subseteq Threads /\ abandoned \subseteq registered
  /\ terminated \in BOOLEAN /\ closing \in BOOLEAN
  /\ term \in {"idle", "locked", "done"}
  /\ \A t \in DOMAIN conn : conn[t] # 0 => owner[conn[t]] = t
  /\ \A f \in shut : owner[f] # NoThread
  /\ todo \subseteq Threads /\ fd \in 0 .. Cardinality(Threads \cup Others)

\* Once terminate has returned, no task of the pool works on a live backend:
\* one that was connected has its socket shut, one that connects is refused,
\* also if it was started or was connecting while terminate ran.
NoLiveBackend ==
  term = "done" =>
    \A t \in Threads : pc[t] = "connected" => conn[t] \in shut


=============================================================================
