--------------------------- MODULE TaskPoolProofs ---------------------------
(***************************************************************************)
(* For any number of pool threads and of other threads: once terminate has  *)
(* returned, no task of the pool is left with a live backend.               *)
(***************************************************************************)
EXTENDS TaskPool, FiniteSetTheorems, TLAPS

All == Threads \cup Others

\* The part of the types the proof needs, with two bonds: an open connection's
\* descriptor is its thread's own, and a thread that is neither idle nor on its
\* way in or out is registered.
Sockets ==
  /\ pc \in [Threads -> {"idle", "started", "closed", "opened", "connected", "leaving"}]
  /\ conn \in [All -> {0} \cup Fds] /\ owner \in [Fds -> All \cup {NoThread}]
  /\ \A t \in All : conn[t] # 0 => owner[conn[t]] = t
  /\ \A t \in Threads : pc[t] \in {"opened", "connected"} => conn[t] # 0

Tasks ==
  /\ registered \subseteq Threads
  /\ \A t \in Threads : pc[t] \in {"closed", "opened", "connected"} => t \in registered
  /\ terminated = (term # "idle") /\ term \in {"idle", "locked", "done"}
  /\ terminated => registered \subseteq abandoned

\* A connected task of a pool under termination has its socket shut, or terminate
\* has it still to do: it is on the list, or its descriptor has just been read.
Doomed ==
  term # "idle" => \A t \in Threads : pc[t] = "connected" =>
    conn[t] \in shut \/ (term = "locked" /\ (t \in todo \/ conn[t] = fd))

Inductive == Sockets /\ Tasks /\ Doomed

-----------------------------------------------------------------------------
\* The descriptors are positive numbers, so that none of them is 0.
LEMMA FdFacts == 0 \notin Fds
BY DEF Fds

\* A socket is opened on a descriptor no connection has.
LEMMA OpenFacts ==
  ASSUME Sockets, NEW t \in All, OpenSocket(t)
  PROVE  /\ conn' \in [All -> {0} \cup Fds] /\ owner' \in [Fds -> All \cup {NoThread}]
         /\ \A u \in All : conn'[u] # 0 => owner'[conn'[u]] = u
         /\ conn'[t] # 0
         /\ \A u \in All : u # t => conn'[u] = conn[u]
         /\ \A u \in All : conn[u] \in shut /\ conn[u] # 0 => conn[u] \in shut'
<1>1. PICK f \in Fds : /\ conn[t] = 0 /\ owner[f] = NoThread
                       /\ conn' = [conn EXCEPT ![t] = f]
                       /\ owner' = [owner EXCEPT ![f] = t]
                       /\ shut' = shut \ {f}
  BY Zenon DEF OpenSocket
<1>2. \A u \in All : conn[u] # f
  BY <1>1, FdFacts, TaskPoolAssumption DEF Sockets, All
<1> QED BY <1>1, <1>2, FdFacts DEF Sockets

\* A thread closes its own socket only.
LEMMA CloseFacts ==
  ASSUME Sockets, NEW t \in All, CloseSocket(t)
  PROVE  /\ conn' \in [All -> {0} \cup Fds] /\ owner' \in [Fds -> All \cup {NoThread}]
         /\ \A u \in All : conn'[u] # 0 => owner'[conn'[u]] = u
         /\ \A u \in All : u # t => conn'[u] = conn[u]
         /\ \A u \in All : u # t /\ conn[u] # 0 /\ conn[u] \in shut => conn[u] \in shut'
BY DEF CloseSocket, Sockets

\* The steps of a pool thread.
LEMMA ThreadSteps ==
  ASSUME Inductive, NEW t \in Threads,
         \/ Start(t) \/ Register(t) \/ Connect(t) \/ Guard(t) \/ Disconnect(t)
         \/ Unregister(t) \/ Leave(t)
  PROVE  Inductive'
<1> USE DEF sockets, tasks, terminator, Goto, Inductive
<1>0. t \in All
  BY DEF All
<1>1. CASE Start(t)
  BY <1>1 DEF Start, Sockets, Tasks, Doomed
<1>2. CASE Register(t)
  BY <1>2 DEF Register, Sockets, Tasks, Doomed
<1>3. CASE Connect(t)
  <2>1. Sockets'
    BY <1>0, <1>3, OpenFacts DEF Connect, Sockets, All
  <2>2. Tasks'
    BY <1>3 DEF Connect, Tasks, Sockets
  <2>3. Doomed'
    BY <1>0, <1>3, OpenFacts DEF Connect, Doomed, Sockets, All
  <2> QED BY <2>1, <2>2, <2>3
<1>4. CASE Guard(t) /\ t \in abandoned
  <2>1. CloseSocket(t) /\ pc' = [pc EXCEPT ![t] = "closed"]
    BY <1>4 DEF Guard
  <2>2. Sockets'
    BY <1>0, <2>1, CloseFacts DEF Sockets, All
  <2>3. Tasks'
    BY <1>4 DEF Guard, Tasks, Sockets
  <2>4. Doomed'
    BY <1>0, <1>4, <2>1, CloseFacts DEF Guard, Doomed, Sockets, All
  <2> QED BY <2>2, <2>3, <2>4
<1>5. CASE Guard(t) /\ t \notin abandoned
  BY <1>5, Zenon DEF Guard, Sockets, Tasks, Doomed
<1>6. CASE Disconnect(t)
  <2>1. CloseSocket(t) /\ pc' = [pc EXCEPT ![t] = "closed"]
    BY <1>6 DEF Disconnect
  <2>2. Sockets'
    BY <1>0, <2>1, CloseFacts DEF Sockets, All
  <2>3. Tasks'
    BY <1>6 DEF Disconnect, Tasks, Sockets
  <2>4. Doomed'
    BY <1>0, <1>6, <2>1, CloseFacts DEF Disconnect, Doomed, Sockets, All
  <2> QED BY <2>2, <2>3, <2>4
<1>7. CASE Unregister(t)
  BY <1>7 DEF Unregister, Sockets, Tasks, Doomed
<1>8. CASE Leave(t)
  <2>1. CloseSocket(t) /\ pc' = [pc EXCEPT ![t] = "idle"]
    BY <1>8 DEF Leave
  <2>2. Sockets'
    BY <1>0, <2>1, CloseFacts DEF Sockets, All
  <2>3. Tasks'
    BY <1>8 DEF Leave, Tasks, Sockets
  <2>4. Doomed'
    BY <1>0, <1>8, <2>1, CloseFacts DEF Leave, Doomed, Sockets, All
  <2> QED BY <2>2, <2>3, <2>4
<1> QED BY <1>1, <1>2, <1>3, <1>4, <1>5, <1>6, <1>7, <1>8

\* The steps of the other threads of the process.
LEMMA OtherSteps ==
  ASSUME Inductive, NEW o \in Others, OtherConnect(o) \/ OtherDisconnect(o)
  PROVE  Inductive'
<1> USE DEF sockets, tasks, terminator, Inductive
<1>0. o \in All /\ o \notin Threads
  BY TaskPoolAssumption DEF All
<1>1. CASE OtherConnect(o)
  <2>1. OpenSocket(o)
    BY <1>1 DEF OtherConnect
  <2> QED BY <1>0, <1>1, <2>1, OpenFacts DEF OtherConnect, Sockets, Tasks, Doomed, All
<1>2. CASE OtherDisconnect(o)
  <2>1. CloseSocket(o)
    BY <1>2 DEF OtherDisconnect
  <2> QED BY <1>0, <1>2, <2>1, CloseFacts DEF OtherDisconnect, Sockets, Tasks, Doomed, All
<1> QED BY <1>1, <1>2

\* The steps of the thread in terminate.
LEMMA TerminateSteps ==
  ASSUME Inductive,
         \/ ShutExecutor \/ TerminateLocks \/ ShutFd \/ TerminateUnlocks
         \/ \E t \in Threads : ReadFd(t)
  PROVE  Inductive'
<1> USE DEF sockets, tasks, terminator, Inductive
<1>1. CASE ShutExecutor
  BY <1>1 DEF ShutExecutor, Sockets, Tasks, Doomed
<1>2. CASE TerminateLocks
  BY <1>2, Zenon DEF TerminateLocks, Sockets, Tasks, Doomed
<1>3. CASE ShutFd
  <2>1. Sockets' /\ Tasks'
    BY <1>3 DEF ShutFd, Sockets, Tasks
  <2>2. \A t \in Threads : conn[t] # 0 /\ conn[t] = fd => conn[t] \in shut'
    BY <1>3, TaskPoolAssumption DEF ShutFd, Sockets, All
  <2>3. Doomed'
    BY <1>3, <2>2 DEF ShutFd, Sockets, Doomed
  <2> QED BY <2>1, <2>3
<1>4. CASE TerminateUnlocks
  BY <1>4 DEF TerminateUnlocks, Locked, Sockets, Tasks, Doomed
<1>5. ASSUME NEW t \in Threads, ReadFd(t) PROVE Inductive'
  BY <1>5 DEF ReadFd, Locked, Sockets, Tasks, Doomed
<1> QED BY <1>1, <1>2, <1>3, <1>4, <1>5

\* Once terminate has returned, no task of the pool works on a live backend.
THEOREM TerminateIsFinal == Spec => []NoLiveBackend
<1>1. Init => Inductive
  BY TaskPoolAssumption, Zenon DEF Init, Inductive, Sockets, Tasks, Doomed, All
<1>2. Inductive /\ [Next]_vars => Inductive'
  <2>1. Inductive /\ UNCHANGED vars => Inductive'
    BY DEF Inductive, Sockets, Tasks, Doomed, vars, sockets, tasks, terminator
  <2> QED BY <2>1, ThreadSteps, OtherSteps, TerminateSteps DEF Next
<1>3. Inductive => NoLiveBackend
  BY DEF Inductive, Doomed, NoLiveBackend
<1> QED BY <1>1, <1>2, <1>3, PTL DEF Spec

-----------------------------------------------------------------------------
(* Types, with the ties between sockets, threads and abandoned identifiers. *)

\* The descriptors and 0 are an interval.
LEMMA FdRange == 0 .. Cardinality(Threads \cup Others) = {0} \cup Fds
<1>1. Cardinality(Threads \cup Others) \in Nat
  BY FS_Union, FS_CardinalityType, TaskPoolAssumption, Zenon
<1> QED BY <1>1 DEF Fds

\* TypeOK is inductive on its own; its part about sockets:
SocketsOK ==
  /\ conn \in [All -> {0} \cup Fds]
  /\ owner \in [Fds -> All \cup {NoThread}]
  /\ shut \subseteq Fds
  /\ \A t \in All : conn[t] # 0 => owner[conn[t]] = t
  /\ \A f \in shut : owner[f] # NoThread

\* Opening and closing a socket, and shutting one, keep the sockets in order.
LEMMA SocketSteps ==
  ASSUME SocketsOK, NEW t \in All, OpenSocket(t) \/ CloseSocket(t)
  PROVE  SocketsOK'
<1>1. CASE OpenSocket(t)
  <2>1. PICK f \in Fds : /\ conn[t] = 0 /\ owner[f] = NoThread
                         /\ conn' = [conn EXCEPT ![t] = f]
                         /\ owner' = [owner EXCEPT ![f] = t]
                         /\ shut' = shut \ {f}
    BY <1>1, Zenon DEF OpenSocket
  <2>2. \A u \in All : conn[u] # f
    BY <2>1, FdFacts, TaskPoolAssumption DEF SocketsOK, All
  <2> QED BY <2>1, <2>2, FdFacts DEF SocketsOK
<1>2. CASE CloseSocket(t)
  BY <1>2 DEF CloseSocket, SocketsOK
<1> QED BY <1>1, <1>2

\* Every variable keeps its type, a connection's descriptor is its thread's own,
\* only open sockets are shut, and only threads that run a task are abandoned.
THEOREM TypeCorrect == Spec => []TypeOK
<1> DEFINE TasksOK ==
             /\ pc \in [Threads -> {"idle", "started", "closed", "opened", "connected", "leaving"}]
             /\ registered \subseteq Threads /\ abandoned \subseteq registered
             /\ terminated \in BOOLEAN /\ closing \in BOOLEAN
             /\ term \in {"idle", "locked", "done"}
             /\ todo \subseteq Threads /\ fd \in {0} \cup Fds
<1>1. TypeOK <=> SocketsOK /\ TasksOK
  <2>1. conn \in [All -> {0} \cup Fds] => DOMAIN conn = All
    OBVIOUS
  <2> QED BY <2>1, FdRange, Zenon DEF TypeOK, SocketsOK, All
<1>2. Init => SocketsOK /\ TasksOK
  BY Zenon DEF Init, SocketsOK, All
<1>3. SocketsOK /\ TasksOK /\ [Next]_vars => SocketsOK' /\ TasksOK'
  <2> SUFFICES ASSUME SocketsOK, TasksOK, [Next]_vars PROVE SocketsOK' /\ TasksOK'
    OBVIOUS
  <2> USE DEF sockets, tasks, terminator, Goto
  <2>1. ASSUME NEW t \in Threads,
               \/ Start(t) \/ Register(t) \/ Connect(t) \/ Guard(t) \/ Disconnect(t)
               \/ Unregister(t) \/ Leave(t)
        PROVE  SocketsOK' /\ TasksOK'
    <3>1. UNCHANGED sockets \/ OpenSocket(t) \/ CloseSocket(t)
      BY <2>1 DEF Start, Register, Connect, Guard, Disconnect, Unregister, Leave
    <3>2. SocketsOK'
      BY <3>1, SocketSteps DEF SocketsOK, All
    <3>3. TasksOK'
      BY <2>1 DEF Start, Register, Connect, Guard, Disconnect, Unregister, Leave
    <3> QED BY <3>2, <3>3
  <2>2. ASSUME NEW t \in Threads, ReadFd(t) PROVE SocketsOK' /\ TasksOK'
    BY <2>2 DEF ReadFd, SocketsOK, All
  <2>3. ASSUME NEW o \in Others, OtherConnect(o) \/ OtherDisconnect(o)
        PROVE  SocketsOK' /\ TasksOK'
    BY <2>3, SocketSteps DEF OtherConnect, OtherDisconnect, All
  <2>4. CASE ShutFd
    BY <2>4 DEF ShutFd, SocketsOK
  <2>5. CASE ShutExecutor \/ TerminateLocks \/ TerminateUnlocks
    BY <2>5, Zenon DEF ShutExecutor, TerminateLocks, TerminateUnlocks, SocketsOK
  <2>6. CASE UNCHANGED vars
    BY <2>6 DEF vars, SocketsOK
  <2> QED BY <2>1, <2>2, <2>3, <2>4, <2>5, <2>6 DEF Next
<1>4. SocketsOK /\ TasksOK => TypeOK
  BY <1>1
<1> QED BY <1>2, <1>3, <1>4, PTL DEF Spec
=============================================================================
