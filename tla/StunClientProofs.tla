--------------------------- MODULE StunClientProofs ---------------------------
(***************************************************************************)
(* The safety properties of StunClient for any number of runs, any set of  *)
(* ephemeral ports and any number of lost and duplicated datagrams.        *)
(***************************************************************************)
EXTENDS StunClient, FiniteSetTheorems, TLAPS

-----------------------------------------------------------------------------
(* The inductive invariant.                                                 *)

Flying == {"name", "swap", "replace", "recv", "take"}
Steps == Flying \cup {"open", "second", "send", "next", "close", "clear"}

\* The sockets: every open one has a port of its own.
Sockets ==
  /\ Open \subseteq Socket /\ IsFiniteSet(Open)
  /\ \A s \in Open : socks[s] \in 1 .. MaxPort
  /\ \A r, s \in Open : socks[r] = socks[s] => r = s

\* Each thread, whatever the others do: new_udp_fd is set from the second test's
\* socket until it replaces udp_fd.
Locals ==
  /\ pc \in [Threads -> Steps \cup {"idle", "done", "exited"}]
  /\ test \in [Threads -> 0 .. 3] /\ local_port \in [Threads -> -1 .. MaxPort]
  /\ \A t \in Threads : Running(t) => test[t] # 0
  /\ newfd \in [Threads -> Socket \cup {Closed}] /\ rfd \in [Threads -> Socket \cup {Closed}]
  /\ \A t \in Threads : newfd[t] # Closed =>
       newfd[t] = <<t, 2>> /\ test[t] = 2 /\ pc[t] \in {"send", "name", "swap", "replace"}
  /\ \A t \in Threads : pc[t] \in {"swap", "replace"} => newfd[t] # Closed

Shared ==
  /\ udp_fd \in Socket \cup {Closed} /\ real_local_addr \in 0 .. MaxPort
  /\ noise \in Nat /\ lost \in Nat /\ sendFailed \in Nat
  /\ overlap \in BOOLEAN /\ wrapped \in BOOLEAN
  /\ Quiet /\ Alive => udp_fd = Closed

\* Runs that have not overlapped come one after the other.
Single == ~overlap => \A t, u \in Threads : Running(t) /\ Running(u) => t = u

\* What udp_fd and new_udp_fd are in the one run there is.
Owns(t) ==
  /\ pc[t] = "open" /\ test[t] = 1 => udp_fd = Closed
  /\ pc[t] = "open" /\ test[t] # 1 => udp_fd \in Open
  /\ pc[t] \in {"second", "send", "name", "swap", "recv", "take", "next", "close"} => udp_fd \in Open
  /\ pc[t] \in {"replace", "clear"} => udp_fd \notin Open
  /\ test[t] = 1 /\ pc[t] \in Steps \ {"open"} => udp_fd = <<t, 1>>
  /\ test[t] = 2 /\ pc[t] \in {"open", "second", "send", "name", "swap", "replace"} => udp_fd = <<t, 1>>
  /\ newfd[t] # Closed => newfd[t] \in Open
  /\ pc[t] = "send" => (test[t] = 2 <=> newfd[t] # Closed)
  /\ pc[t] = "send" /\ test[t] = 2 => wrapped \/ socks[newfd[t]] = response_port(t)
  /\ pc[t] = "take" => rfd[t] = udp_fd

\* The descriptors nobody holds any more.
Leaked == Open \ ({udp_fd} \cup {newfd[t] : t \in Threads})

\* The address the request of the current test was sent from.
Source(t) == IF pc[t] = "name" THEN socks[udp_fd] ELSE real_local_addr

\* Without duplicates there is one datagram at a time, and only during a test.
Flow(t) ==
  /\ pc[t] \notin Flying => requests = {} /\ inbox = {}
  /\ requests = {} \/ inbox = {}
  /\ \A a, b \in requests : a = b
  /\ \A a, b \in inbox : a = b
  /\ pc[t] \in Flying => \A m \in requests \cup inbox : m.from = Source(t)

\* The socket a test's answer comes to.
Awaited(t) == IF newfd[t] = Closed THEN udp_fd ELSE newfd[t]

Ahead(t) ==
  \/ \E d \in inbox : d.sock = Awaited(t)
  \/ \E r \in requests : r.to = socks[Awaited(t)]

Matched == \A p \in pairs : p.mapped = p.local
Silent == requests = {} /\ inbox = {}

\* A run that no other overlaps, and the time between runs.
Alone(t) ==
  /\ Owns(t)
  /\ noise = 0 => Flow(t)
  /\ lost = 0 /\ ~wrapped /\ pc[t] \in Flying => Ahead(t)

Sequential ==
  ~overlap =>
    /\ Cardinality(Leaked) <= sendFailed
    /\ noise = 0 => Matched
    /\ \A t \in Threads : Running(t) => Alone(t)
    /\ noise = 0 /\ (\A t \in Threads : ~Running(t)) => Silent

IInv == Sockets /\ Locals /\ Shared /\ Single /\ Sequential

-----------------------------------------------------------------------------
(* Sockets.                                                                 *)

\* Port numbers.
LEMMA PortNumbers == MaxPort \in Nat /\ MaxPort > 0
BY DEF MaxPort

\* The names of sockets.
LEMMA SocketNames ==
  /\ Closed \notin Socket
  /\ \A t \in Threads : /\ <<t, 1>> \in Socket /\ <<t, 2>> \in Socket /\ <<t, 1>> # <<t, 2>>
                        /\ <<t, 1>> # Closed /\ <<t, 2>> # Closed
BY DEF Socket, Closed

\* A socket that is bound to a free port.
LEMMA Opens ==
  ASSUME Sockets, NEW s \in Socket, NEW p \in 1 .. MaxPort, p \notin Ports, With(s, p)
  PROVE  /\ Sockets' /\ Open' = Open \cup {s} /\ s \in Open' /\ socks'[s] = p
         /\ \A x \in Open : x # s => socks'[x] = socks[x]
<1>1. Open' = Open \cup {s} /\ socks'[s] = p /\ \A x \in Open : x # s => socks'[x] = socks[x]
  BY Zenon DEF With, Open
<1>2. \A x \in Open : socks[x] # p
  BY Zenon DEF Ports
<1>3. IsFiniteSet(Open')
  BY <1>1, FS_AddElement, Zenon DEF Sockets
<1> QED
  BY <1>1, <1>2, <1>3 DEF Sockets

\* closesocket.
LEMMA Closes ==
  ASSUME Sockets, NEW s, Close(s)
  PROVE  /\ Sockets' /\ Open' = Open \ {s} /\ inbox' = {d \in inbox : d.sock # s}
         /\ \A x \in Open : x # s => socks'[x] = socks[x]
<1>1. Open' = Open \ {s} /\ inbox' = {d \in inbox : d.sock # s}
      /\ \A x \in Open : x # s => socks'[x] = socks[x]
  BY Zenon DEF Close, Open
<1>2. IsFiniteSet(Open')
  BY <1>1, FS_RemoveElement, Zenon DEF Sockets
<1> QED
  BY <1>1, <1>2, Zenon DEF Sockets

\* Steps that open and close nothing.
LEMMA SocketsFrame ==
  ASSUME Sockets, socks' = socks
  PROVE  Sockets' /\ Open' = Open
BY Zenon DEF Sockets, Open

\* Fewer leaks than before, or one more.
LEMMA FewerLeaks ==
  ASSUME Sockets, sendFailed \in Nat, Cardinality(Leaked) <= sendFailed
  PROVE  /\ Leaked' \subseteq Leaked => Cardinality(Leaked') <= sendFailed
         /\ \A x : Leaked' \subseteq Leaked \cup {x} => Cardinality(Leaked') <= sendFailed + 1
<1>1. IsFiniteSet(Leaked)
  <2>1. Leaked \in SUBSET Open
    BY Zenon DEF Leaked
  <2> QED
    BY <2>1, FS_Subset, Zenon DEF Sockets
<1>2. Cardinality(Leaked) \in Nat
  BY <1>1, FS_CardinalityType, Zenon
<1>3. ASSUME Leaked' \subseteq Leaked PROVE Cardinality(Leaked') <= sendFailed
  <2> DEFINE L == Leaked'
  <2>1. L \in SUBSET Leaked
    BY <1>3, Zenon
  <2> HIDE DEF L
  <2>2. IsFiniteSet(L) /\ Cardinality(L) <= Cardinality(Leaked)
    BY <1>1, <2>1, FS_Subset, Zenon
  <2>3. Cardinality(L) \in Nat
    BY <2>2, FS_CardinalityType, Zenon
  <2> QED
    BY <1>2, <2>2, <2>3 DEF L
<1>4. ASSUME NEW x, Leaked' \subseteq Leaked \cup {x} PROVE Cardinality(Leaked') <= sendFailed + 1
  <2> DEFINE L == Leaked'
             M == Leaked \cup {x}
  <2>1. IsFiniteSet(M) /\ (Cardinality(M) = Cardinality(Leaked) \/ Cardinality(M) = Cardinality(Leaked) + 1)
    BY <1>1, FS_AddElement, Zenon
  <2>2. L \in SUBSET M
    BY <1>4, Zenon
  <2> HIDE DEF L, M
  <2>3. IsFiniteSet(L) /\ Cardinality(L) <= Cardinality(M)
    BY <2>1, <2>2, FS_Subset, Zenon
  <2>4. Cardinality(L) \in Nat
    BY <2>3, FS_CardinalityType, Zenon
  <2> QED
    BY <1>2, <2>1, <2>3, <2>4 DEF L
<1> QED
  BY <1>3, <1>4, Zenon

\* A port is a 16-bit number.
LEMMA PortRange ==
  ASSUME Locals, NEW t \in Threads
  PROVE  response_port(t) \in 0 .. MaxPort
<1>1. local_port[t] \in Int
  BY PortNumbers DEF Locals
<1> QED
  BY <1>1, PortNumbers DEF response_port

-----------------------------------------------------------------------------
(* A step of a run.                                                         *)

\* Where the threads are after it, and that runs still come one by one.
LEMMA Moves ==
  ASSUME IInv, NEW t \in Threads, Running(t), NEW l \in Steps \cup {"done", "exited"},
         Goto(t, l), overlap' = overlap
  PROVE  /\ pc' \in [Threads -> Steps \cup {"idle", "done", "exited"}] /\ pc'[t] = l
         /\ \A u \in Threads : u # t => pc'[u] = pc[u]
         /\ Single' /\ ((Quiet /\ Alive)' => l = "done")
<1>1. pc' \in [Threads -> Steps \cup {"idle", "done", "exited"}] /\ pc'[t] = l
      /\ \A u \in Threads : u # t => pc'[u] = pc[u]
  BY Zenon DEF IInv, Locals, Goto
<1>2. Single'
  BY <1>1, Zenon DEF IInv, Single, Running
<1>3. (Quiet /\ Alive)' => l = "done"
  BY <1>1, Zenon DEF Quiet, Alive, Running, Steps, Flying
<1> QED
  BY <1>1, <1>2, <1>3, Zenon

\* The types of what most steps leave alone.
LEMMA LocalTypes ==
  ASSUME IInv
  PROVE  /\ test \in [Threads -> 0 .. 3] /\ local_port \in [Threads -> -1 .. MaxPort]
         /\ newfd \in [Threads -> Socket \cup {Closed}] /\ rfd \in [Threads -> Socket \cup {Closed}]
         /\ udp_fd \in Socket \cup {Closed} /\ real_local_addr \in 0 .. MaxPort
         /\ sendFailed \in Nat /\ sendFailed + 1 \in Nat /\ wrapped \in BOOLEAN
BY DEF IInv, Locals, Shared

\* What the thread's own variables have to be for Locals.
LEMMA LocalsStep ==
  ASSUME IInv, NEW t \in Threads, NEW l,
         pc' \in [Threads -> Steps \cup {"idle", "done", "exited"}], pc'[t] = l,
         \A u \in Threads : u # t => pc'[u] = pc[u],
         test' \in [Threads -> 0 .. 3], test'[t] # 0,
         \A u \in Threads : u # t => test'[u] = test[u],
         newfd' \in [Threads -> Socket \cup {Closed}],
         \A u \in Threads : u # t => newfd'[u] = newfd[u],
         newfd'[t] # Closed =>
           newfd'[t] = <<t, 2>> /\ test'[t] = 2 /\ l \in {"send", "name", "swap", "replace"},
         l \in {"swap", "replace"} => newfd'[t] # Closed,
         local_port' \in [Threads -> -1 .. MaxPort], rfd' \in [Threads -> Socket \cup {Closed}]
  PROVE  Locals'
<1>1. \A u \in Threads : Running(u)' => test'[u] # 0
  BY DEF IInv, Locals, Running
<1>2. \A u \in Threads : newfd'[u] # Closed =>
        newfd'[u] = <<u, 2>> /\ test'[u] = 2 /\ pc'[u] \in {"send", "name", "swap", "replace"}
  BY Zenon DEF IInv, Locals
<1>3. \A u \in Threads : pc'[u] \in {"swap", "replace"} => newfd'[u] # Closed
  BY Zenon DEF IInv, Locals
<1> QED
  BY <1>1, <1>2, <1>3, Zenon DEF Locals

\* In a run of its own only the thread that moves has anything to keep.
LEMMA SequentialStep ==
  ASSUME IInv, NEW t \in Threads, Running(t), NEW l \in Steps \cup {"done", "exited"},
         pc'[t] = l, \A u \in Threads : u # t => pc'[u] = pc[u], overlap' = overlap,
         ~overlap => Cardinality(Leaked') <= sendFailed' /\ (noise' = 0 => Matched'),
         ~overlap /\ l \in Steps => Alone(t)',
         ~overlap /\ noise' = 0 /\ l \notin Steps => Silent'
  PROVE  Sequential'
<1> SUFFICES ASSUME ~overlap PROVE Sequential'
  BY Zenon DEF Sequential
<1>1. \A u \in Threads : Running(u)' => u = t /\ l \in Steps
  BY Zenon DEF IInv, Single, Running
<1>2. (\A u \in Threads : ~Running(u)') => l \notin Steps
  BY Zenon DEF Running, Steps, Flying
<1> QED
  BY <1>1, <1>2, Zenon DEF Sequential

\* The run under way, when it is the only one.
LEMMA Current ==
  ASSUME IInv, NEW t \in Threads, Running(t), ~overlap
  PROVE  Alone(t) /\ Cardinality(Leaked) <= sendFailed /\ (noise = 0 => Matched)
BY Zenon DEF IInv, Sequential

\* The shared variables after a step.
LEMMA SharedStep ==
  ASSUME IInv, NEW l, (Quiet /\ Alive)' => l = "done", l = "done" => udp_fd' = Closed,
         udp_fd' \in Socket \cup {Closed}, real_local_addr' \in 0 .. MaxPort,
         UNCHANGED <<noise, lost, overlap>>, sendFailed' \in Nat, wrapped' \in BOOLEAN
  PROVE  Shared'
BY Zenon DEF IInv, Shared

\* A step that moves the thread on and leaves every descriptor as it was.
LEMMA MovesOnly ==
  ASSUME IInv, NEW t \in Threads, Running(t), NEW l \in Steps, Goto(t, l),
         newfd[t] # Closed => l \in {"send", "name", "swap", "replace"},
         l \in {"swap", "replace"} => newfd[t] # Closed,
         UNCHANGED <<test, newfd, udp_fd, socks, lost, noise, sendFailed, wrapped, overlap>>,
         local_port' \in [Threads -> -1 .. MaxPort], rfd' \in [Threads -> Socket \cup {Closed}],
         real_local_addr' \in 0 .. MaxPort
  PROVE  /\ pc'[t] = l /\ \A u \in Threads : u # t => pc'[u] = pc[u]
         /\ Sockets' /\ Locals' /\ Shared' /\ Single'
         /\ Open' = Open /\ Leaked' = Leaked
<1>1. /\ pc' \in [Threads -> Steps \cup {"idle", "done", "exited"}] /\ pc'[t] = l
      /\ \A u \in Threads : u # t => pc'[u] = pc[u]
      /\ Single' /\ ((Quiet /\ Alive)' => l = "done")
  BY Moves, Zenon
<1>2. l # "done"
  BY Zenon DEF Steps, Flying
<1>3. test[t] # 0
  BY Zenon DEF IInv, Locals
<1>4. Locals'
  BY <1>1, <1>3, LocalsStep, Zenon DEF IInv, Locals
<1>5. Sockets' /\ Open' = Open
  BY SocketsFrame, Zenon DEF IInv
<1>6. Shared'
  BY <1>1, <1>2, SharedStep, Zenon DEF IInv, Shared
<1>7. Leaked' = Leaked
  BY <1>5, Zenon DEF Leaked
<1> QED
  BY <1>1, <1>4, <1>5, <1>6, <1>7, Zenon

-----------------------------------------------------------------------------
(* run_stun, to the sendto.                                                 *)

\* A run begins.
LEMMA BeginKeeps ==
  ASSUME IInv, NEW t \in Threads, Begin(t)
  PROVE  IInv'
<1>1. /\ pc[t] = "idle" /\ Alive /\ real_local_addr' = 0 /\ test' = [test EXCEPT ![t] = 1]
      /\ overlap' = (overlap \/ \E u \in Threads \ {t} : Running(u)) /\ Goto(t, "open")
      /\ UNCHANGED <<local_port, newfd, rfd, udp_fd, socks, requests, answers, inbox, pairs,
                     lost, noise, sendFailed, wrapped>>
  BY Zenon DEF Begin, At, network
<1>2. /\ pc' \in [Threads -> Steps \cup {"idle", "done", "exited"}] /\ pc'[t] = "open"
      /\ \A u \in Threads : u # t => pc'[u] = pc[u]
  BY <1>1, Zenon DEF IInv, Locals, Goto, Steps
<1>3. test' \in [Threads -> 0 .. 3] /\ test'[t] = 1 /\ \A u \in Threads : u # t => test'[u] = test[u]
  BY <1>1 DEF IInv, Locals
<1>4. newfd[t] = Closed
  BY <1>1, Zenon DEF IInv, Locals
<1>5. Locals'
  BY <1>1, <1>2, <1>3, <1>4, LocalsStep, LocalTypes
<1>6. Sockets' /\ Open' = Open
  BY <1>1, SocketsFrame, Zenon DEF IInv
<1>7. Running(t)'
  BY <1>2, Zenon DEF Running
<1>8. Shared'
  BY <1>1, <1>7, PortNumbers DEF IInv, Shared, Quiet
<1>9. ~overlap' => ~overlap /\ \A u \in Threads : ~Running(u) /\ (Running(u)' => u = t)
  BY <1>1, <1>2, Zenon DEF Running, IInv, Shared
<1>10. Single'
  BY <1>9, Zenon DEF Single
<1>11. ASSUME ~overlap' PROVE udp_fd = Closed
  BY <1>1, <1>9, <1>11, Zenon DEF IInv, Shared, Quiet
<1>12. ASSUME ~overlap' PROVE Alone(t)'
  <2>1. Owns(t)'
    BY <1>1, <1>2, <1>3, <1>4, <1>11, <1>12 DEF Owns
  <2>2. noise' = 0 => Flow(t)'
    BY <1>1, <1>2, <1>9, <1>12, Zenon DEF IInv, Sequential, Silent, Flow, Flying
  <2> QED
    BY <1>2, <2>1, <2>2, Zenon DEF Alone, Flying
<1>13. Sequential'
  <2>1. Leaked' = Leaked /\ Matched' = Matched
    BY <1>1, <1>6, Zenon DEF Leaked, Matched
  <2> QED
    BY <1>1, <1>7, <1>9, <1>12, <2>1, Zenon DEF IInv, Sequential
<1> QED
  BY <1>5, <1>6, <1>8, <1>10, <1>13, Zenon DEF IInv

\* socket, bind, or the end of the process.
LEMMA OpenSocketKeeps ==
  ASSUME IInv, NEW t \in Threads, OpenSocket(t)
  PROVE  IInv'
<1> DEFINE s == <<t, 1>>
<1>1. /\ pc[t] = "open" /\ udp_fd = Closed
      /\ UNCHANGED <<test, local_port, newfd, rfd, real_local_addr, requests, answers, inbox, pairs,
                     lost, noise, sendFailed, wrapped, overlap>>
  BY Zenon DEF OpenSocket, At, network, counts
<1>2. Running(t) /\ newfd[t] = Closed /\ test[t] # 0 /\ s \in Socket
  BY <1>1, SocketNames, Zenon DEF Running, IInv, Locals
<1>3. ~overlap => Alone(t) /\ Cardinality(Leaked) <= sendFailed /\ (noise = 0 => Matched)
  BY <1>2, Current, Zenon
<1>4. ~overlap /\ noise = 0 => requests = {} /\ inbox = {}
  BY <1>1, <1>3, Zenon DEF Alone, Flow, Flying
<1>5. CASE Goto(t, "exited") /\ UNCHANGED <<udp_fd, socks>>
  <2> DEFINE l == "exited"
  <2>1. /\ pc' \in [Threads -> Steps \cup {"idle", "done", "exited"}] /\ pc'[t] = l
        /\ \A u \in Threads : u # t => pc'[u] = pc[u]
        /\ Single' /\ ((Quiet /\ Alive)' => l = "done")
    BY <1>1, <1>2, <1>5, Moves, Zenon
  <2>2. Locals'
    BY <1>1, <1>2, <2>1, LocalsStep, LocalTypes, Zenon
  <2>3. Sockets' /\ Open' = Open
    BY <1>5, SocketsFrame, Zenon DEF IInv
  <2>4. Shared'
    BY <1>1, <1>5, <2>1, SharedStep, LocalTypes, Zenon
  <2>5. Leaked' = Leaked /\ Matched' = Matched /\ Silent' = Silent
    BY <1>1, <1>5, <2>3, Zenon DEF Leaked, Matched, Silent
  <2>6. l \notin Steps
    BY Zenon DEF Steps, Flying
  <2>7. Sequential'
    BY <1>1, <1>2, <1>3, <1>4, <2>1, <2>5, <2>6, SequentialStep, Zenon DEF Silent
  <2> QED
    BY <2>1, <2>2, <2>3, <2>4, <2>7, Zenon DEF IInv
<1>6. ASSUME NEW p \in 1 .. MaxPort, p \notin Ports, With(s, p), udp_fd' = s, Goto(t, "second")
      PROVE  IInv'
  <2> DEFINE l == "second"
  <2>0. l \in Steps /\ l \notin Flying
    BY Zenon DEF Steps, Flying
  <2>1. /\ pc' \in [Threads -> Steps \cup {"idle", "done", "exited"}] /\ pc'[t] = l
        /\ \A u \in Threads : u # t => pc'[u] = pc[u]
        /\ Single' /\ ((Quiet /\ Alive)' => l = "done")
    BY <1>1, <1>2, <1>6, <2>0, Moves, Zenon
  <2>2. Locals'
    BY <1>1, <1>2, <2>1, LocalsStep, LocalTypes, Zenon
  <2>3. Sockets' /\ Open' = Open \cup {s} /\ s \in Open'
    BY <1>2, <1>6, Opens, Zenon DEF IInv
  <2>4. Shared'
    BY <1>1, <1>2, <1>6, <2>1, SharedStep, LocalTypes, Zenon
  <2>5. Leaked' \subseteq Leaked /\ Matched' = Matched
    <3>1. Closed \notin Open
      BY SocketNames, Zenon DEF IInv, Sockets
    <3>2. udp_fd = Closed /\ udp_fd' = s /\ newfd' = newfd /\ pairs' = pairs
      BY <1>1, <1>6, Zenon
    <3> QED
      BY <2>3, <3>1, <3>2, Zenon DEF Leaked, Matched
  <2>6. ~overlap => Cardinality(Leaked') <= sendFailed
    BY <1>3, <2>5, FewerLeaks, Zenon DEF IInv, Shared
  <2>7. ASSUME ~overlap PROVE Alone(t)'
    <3>1. test[t] = 1
      BY <1>1, <1>3, <2>7, SocketNames, Zenon DEF Alone, Owns, IInv, Sockets
    <3>2. Owns(t)'
      BY <1>1, <1>2, <1>6, <2>1, <2>3, <3>1, Zenon DEF Owns
    <3>3. noise' = 0 => Flow(t)'
      BY <1>1, <1>4, <2>0, <2>1, <2>7, Zenon DEF Flow
    <3> QED
      BY <2>0, <2>1, <3>2, <3>3, Zenon DEF Alone
  <2>8. Sequential'
    BY <1>1, <1>2, <1>3, <2>0, <2>1, <2>5, <2>6, <2>7, SequentialStep, Zenon
  <2> QED
    BY <2>1, <2>2, <2>3, <2>4, <2>8, Zenon DEF IInv
<1>7. \A p \in Ephemeral \ Ports : p \in 1 .. MaxPort /\ p \notin Ports
  BY StunAssumption, Zenon
<1>8. real_local_addr # 0 => real_local_addr \in 1 .. MaxPort
  BY PortNumbers DEF IInv, Shared
<1> QED
  BY <1>5, <1>6, <1>7, <1>8, Zenon DEF OpenSocket

\* The socket of the test before.
LEMMA UseSocketKeeps ==
  ASSUME IInv, NEW t \in Threads, UseSocket(t)
  PROVE  IInv'
<1> DEFINE l == "second"
<1>1. /\ pc[t] = "open" /\ udp_fd # Closed /\ Goto(t, l)
      /\ UNCHANGED <<test, local_port, newfd, rfd, udp_fd, real_local_addr, socks, requests, inbox,
                     pairs, lost, noise, sendFailed, wrapped, overlap>>
  BY Zenon DEF UseSocket, At, network, counts
<1>2. Running(t) /\ newfd[t] = Closed /\ l \in Steps /\ l \notin Flying
  BY <1>1, Zenon DEF Running, IInv, Locals, Steps, Flying
<1>3. /\ pc'[t] = l /\ \A u \in Threads : u # t => pc'[u] = pc[u]
      /\ Sockets' /\ Locals' /\ Shared' /\ Single' /\ Open' = Open /\ Leaked' = Leaked
  BY <1>1, <1>2, MovesOnly, LocalTypes, Zenon
<1>4. ~overlap => Alone(t) /\ Cardinality(Leaked) <= sendFailed /\ (noise = 0 => Matched)
  BY <1>2, Current, Zenon
<1>5. ASSUME ~overlap PROVE Alone(t)'
  <2>1. Owns(t)'
    BY <1>1, <1>2, <1>3, <1>4, <1>5, Zenon DEF Alone, Owns
  <2>2. noise' = 0 => Flow(t)'
    BY <1>1, <1>2, <1>3, <1>4, <1>5, Zenon DEF Alone, Flow, Flying
  <2> QED
    BY <1>2, <1>3, <2>1, <2>2, Zenon DEF Alone
<1>6. Matched' = Matched
  BY <1>1, Zenon DEF Matched
<1>7. Sequential'
  BY <1>1, <1>2, <1>3, <1>4, <1>5, <1>6, SequentialStep, Zenon
<1> QED
  BY <1>3, <1>7, Zenon DEF IInv

\* The first and the third test have no second socket.
LEMMA NoSecondKeeps ==
  ASSUME IInv, NEW t \in Threads, NoSecond(t)
  PROVE  IInv'
<1> DEFINE l == "send"
<1>1. /\ pc[t] = "second" /\ test[t] # 2 /\ Goto(t, l)
      /\ UNCHANGED <<test, local_port, newfd, rfd, udp_fd, real_local_addr, socks, requests, inbox,
                     pairs, lost, noise, sendFailed, wrapped, overlap>>
  BY Zenon DEF NoSecond, At, network, counts
<1>2. Running(t) /\ newfd[t] = Closed /\ l \in Steps /\ l \notin Flying
  BY <1>1, Zenon DEF Running, IInv, Locals, Steps, Flying
<1>3. /\ pc'[t] = l /\ \A u \in Threads : u # t => pc'[u] = pc[u]
      /\ Sockets' /\ Locals' /\ Shared' /\ Single' /\ Open' = Open /\ Leaked' = Leaked
  BY <1>1, <1>2, MovesOnly, LocalTypes, Zenon
<1>4. ~overlap => Alone(t) /\ Cardinality(Leaked) <= sendFailed /\ (noise = 0 => Matched)
  BY <1>2, Current, Zenon
<1>5. ASSUME ~overlap PROVE Alone(t)'
  <2>0. pc[t] \in Steps \ {"open"}
    BY <1>1, Zenon DEF Steps
  <2>1. Owns(t)'
    BY <1>1, <1>2, <1>3, <1>4, <1>5, <2>0, Zenon DEF Alone, Owns
  <2>2. noise' = 0 => Flow(t)'
    BY <1>1, <1>2, <1>3, <1>4, <1>5, Zenon DEF Alone, Flow, Flying
  <2> QED
    BY <1>2, <1>3, <2>1, <2>2, Zenon DEF Alone
<1>6. Matched' = Matched
  BY <1>1, Zenon DEF Matched
<1>7. Sequential'
  BY <1>1, <1>2, <1>3, <1>4, <1>5, <1>6, SequentialStep, Zenon
<1> QED
  BY <1>3, <1>7, Zenon DEF IInv

\* The second test's socket, or the end of the process.
LEMMA OpenSecondKeeps ==
  ASSUME IInv, NEW t \in Threads, OpenSecond(t)
  PROVE  IInv'
<1> DEFINE s == <<t, 2>>
           r == response_port(t)
<1>1. /\ pc[t] = "second" /\ test[t] = 2 /\ real_local_addr' = r /\ wrapped' = (wrapped \/ r = 0)
      /\ UNCHANGED <<test, local_port, rfd, udp_fd, requests, inbox, pairs,
                     lost, noise, sendFailed, overlap>>
  BY Zenon DEF OpenSecond, At, network
<1>2. Running(t) /\ newfd[t] = Closed /\ s \in Socket /\ s # Closed /\ <<t, 1>> # s /\ r \in 0 .. MaxPort
  BY <1>1, SocketNames, PortRange, Zenon DEF Running, IInv, Locals
<1>3. ~overlap => Alone(t) /\ Cardinality(Leaked) <= sendFailed /\ (noise = 0 => Matched)
  BY <1>2, Current, Zenon
<1>4. ~overlap /\ noise = 0 => requests = {} /\ inbox = {}
  BY <1>1, <1>3, Zenon DEF Alone, Flow, Flying
<1>5. wrapped' \in BOOLEAN
  BY <1>1, Zenon
<1> HIDE DEF r
<1>6. CASE Goto(t, "exited") /\ UNCHANGED <<newfd, socks>>
  <2> DEFINE l == "exited"
  <2>1. /\ pc' \in [Threads -> Steps \cup {"idle", "done", "exited"}] /\ pc'[t] = l
        /\ \A u \in Threads : u # t => pc'[u] = pc[u]
        /\ Single' /\ ((Quiet /\ Alive)' => l = "done")
    BY <1>1, <1>2, <1>6, Moves, Zenon
  <2>2. Locals'
    BY <1>1, <1>2, <1>6, <2>1, LocalsStep, LocalTypes
  <2>3. Sockets' /\ Open' = Open
    BY <1>6, SocketsFrame, Zenon DEF IInv
  <2>4. Shared'
    BY <1>1, <1>2, <1>5, <1>6, <2>1, SharedStep, LocalTypes, Zenon
  <2>5. Leaked' = Leaked /\ Matched' = Matched /\ Silent' = Silent
    BY <1>1, <1>6, <2>3, Zenon DEF Leaked, Matched, Silent
  <2>6. l \notin Steps
    BY Zenon DEF Steps, Flying
  <2>7. Sequential'
    BY <1>1, <1>2, <1>3, <1>4, <2>1, <2>5, <2>6, SequentialStep, Zenon DEF Silent
  <2> QED
    BY <2>1, <2>2, <2>3, <2>4, <2>7, Zenon DEF IInv
<1>7. ASSUME NEW p \in 1 .. MaxPort, p \notin Ports, r # 0 => p = r, With(s, p),
             newfd' = [newfd EXCEPT ![t] = s], Goto(t, "send")
      PROVE  IInv'
  <2> DEFINE l == "send"
  <2>0. l \in Steps /\ l \notin Flying
    BY Zenon DEF Steps, Flying
  <2>1. /\ pc' \in [Threads -> Steps \cup {"idle", "done", "exited"}] /\ pc'[t] = l
        /\ \A u \in Threads : u # t => pc'[u] = pc[u]
        /\ Single' /\ ((Quiet /\ Alive)' => l = "done")
    BY <1>1, <1>2, <1>7, <2>0, Moves, Zenon
  <2>2. newfd' \in [Threads -> Socket \cup {Closed}] /\ newfd'[t] = s
        /\ \A u \in Threads : u # t => newfd'[u] = newfd[u]
    BY <1>2, <1>7, Zenon DEF IInv, Locals
  <2>3. Locals'
    BY <1>1, <1>2, <2>1, <2>2, LocalsStep, LocalTypes
  <2>4. Sockets' /\ Open' = Open \cup {s} /\ s \in Open' /\ socks'[s] = p
    BY <1>2, <1>7, Opens, Zenon DEF IInv
  <2>5. Shared'
    BY <1>1, <1>2, <1>5, <2>1, SharedStep, LocalTypes, Zenon
  <2>6. Matched' = Matched
    BY <1>1, Zenon DEF Matched
  <2>7. Leaked' \subseteq Leaked
    <3>1. {newfd[u] : u \in Threads} \subseteq {newfd'[u] : u \in Threads} \cup {Closed}
      BY <1>2, <2>2
    <3>2. {s} \subseteq {newfd'[u] : u \in Threads}
      BY <2>2, Zenon
    <3>3. Closed \notin Open
      BY SocketNames, Zenon DEF IInv, Sockets
    <3> QED
      BY <1>1, <2>4, <3>1, <3>2, <3>3, Zenon DEF Leaked
  <2>8. ~overlap => Cardinality(Leaked') <= sendFailed
    BY <1>3, <2>7, FewerLeaks, Zenon DEF IInv, Shared
  <2>9. ASSUME ~overlap PROVE Alone(t)'
    <3>1. udp_fd = <<t, 1>> /\ udp_fd \in Open
      BY <1>1, <1>3, <2>9, Zenon DEF Alone, Owns
    <3>2. wrapped' \/ socks'[newfd'[t]] = response_port(t)'
      BY <1>1, <1>7, <2>2, <2>4, Zenon DEF r, response_port
    <3>3. Owns(t)'
      BY <1>1, <1>2, <2>1, <2>2, <2>4, <3>1, <3>2, Zenon DEF Owns
    <3>4. noise' = 0 => Flow(t)'
      BY <1>1, <1>4, <2>0, <2>1, <2>9, Zenon DEF Flow
    <3> QED
      BY <2>0, <2>1, <3>3, <3>4, Zenon DEF Alone
  <2>10. Sequential'
    BY <1>1, <1>2, <1>3, <2>0, <2>1, <2>6, <2>8, <2>9, SequentialStep, Zenon
  <2> QED
    BY <2>1, <2>3, <2>4, <2>5, <2>10, Zenon DEF IInv
<1>8. \A p \in (IF r = 0 THEN Ephemeral ELSE {r}) \ Ports :
        p \in 1 .. MaxPort /\ p \notin Ports /\ (r # 0 => p = r)
  BY <1>2, StunAssumption
<1> QED
  BY <1>6, <1>7, <1>8, Zenon DEF OpenSecond, r

\* sendto.
LEMMA SendKeeps ==
  ASSUME IInv, NEW t \in Threads, Send(t)
  PROVE  IInv'
<1> DEFINE l == "name"
           m == [from |-> socks[udp_fd], to |-> IF test[t] = 2 THEN response_port(t) ELSE socks[udp_fd],
                 test |-> <<t, test[t]>>]
<1>1. /\ pc[t] = "send" /\ Goto(t, l) /\ requests' = requests \cup {m} /\ udp_fd \in Open
      /\ UNCHANGED <<test, local_port, newfd, rfd, udp_fd, real_local_addr, socks, inbox,
                     pairs, lost, noise, sendFailed, wrapped, overlap>>
  BY Zenon DEF Send, At, counts
<1>2. Running(t) /\ l \in Steps /\ l \in Flying
  BY <1>1, Zenon DEF Running, Steps, Flying
<1>3. m.from = socks[udp_fd] /\ m.to = IF test[t] = 2 THEN response_port(t) ELSE socks[udp_fd]
  BY Zenon
<1> HIDE DEF m
<1>4. /\ pc'[t] = l /\ \A u \in Threads : u # t => pc'[u] = pc[u]
      /\ Sockets' /\ Locals' /\ Shared' /\ Single' /\ Open' = Open /\ Leaked' = Leaked
  BY <1>1, <1>2, MovesOnly, LocalTypes, Zenon
<1>5. ~overlap => Alone(t) /\ Cardinality(Leaked) <= sendFailed /\ (noise = 0 => Matched)
  BY <1>2, Current, Zenon
<1>6. ASSUME ~overlap PROVE Alone(t)'
  <2>0. pc[t] \in Steps \ {"open"} /\ pc[t] \notin Flying
    BY <1>1, Zenon DEF Steps, Flying
  <2>1. Owns(t) /\ (noise = 0 => Flow(t))
    BY <1>5, <1>6, Zenon DEF Alone
  <2>2. Owns(t)'
    BY <1>1, <1>4, <2>0, <2>1, Zenon DEF Owns
  <2>3. noise' = 0 => Flow(t)'
    <3>1. Source(t)' = socks[udp_fd]
      BY <1>1, <1>4, Zenon DEF Source
    <3> QED
      BY <1>1, <1>2, <1>3, <1>4, <2>0, <2>1, <3>1, Zenon DEF Flow
  <2>4. ~wrapped => m.to = socks[Awaited(t)]
    BY <1>1, <1>3, <2>1, Zenon DEF Owns, Awaited
  <2>5. ~wrapped' => Ahead(t)'
    BY <1>1, <2>4, Zenon DEF Ahead, Awaited
  <2> QED
    BY <2>2, <2>3, <2>5, Zenon DEF Alone
<1>7. Matched' = Matched
  BY <1>1, Zenon DEF Matched
<1>8. Sequential'
  BY <1>1, <1>2, <1>4, <1>5, <1>6, <1>7, SequentialStep, Zenon
<1> QED
  BY <1>4, <1>8, Zenon DEF IInv

\* A failed sendto leaves the second socket to nobody.
LEMMA SendFailsKeeps ==
  ASSUME IInv, NEW t \in Threads, SendFails(t)
  PROVE  IInv'
<1> DEFINE l == "next"
<1>1. /\ pc[t] = "send" /\ Goto(t, l) /\ sendFailed' = sendFailed + 1
      /\ newfd' = [newfd EXCEPT ![t] = Closed]
      /\ UNCHANGED <<test, local_port, rfd, udp_fd, real_local_addr, socks, requests, inbox,
                     pairs, lost, noise, wrapped, overlap>>
  BY Zenon DEF SendFails, At, network
<1>2. Running(t) /\ test[t] # 0 /\ l \in Steps /\ l \notin Flying
  BY <1>1, Zenon DEF Running, IInv, Locals, Steps, Flying
<1>3. /\ pc' \in [Threads -> Steps \cup {"idle", "done", "exited"}] /\ pc'[t] = l
      /\ \A u \in Threads : u # t => pc'[u] = pc[u]
      /\ Single' /\ ((Quiet /\ Alive)' => l = "done")
  BY <1>1, <1>2, Moves, Zenon
<1>4. newfd' \in [Threads -> Socket \cup {Closed}] /\ newfd'[t] = Closed
      /\ \A u \in Threads : u # t => newfd'[u] = newfd[u]
  BY <1>1, Zenon DEF IInv, Locals
<1>5. Locals'
  BY <1>1, <1>2, <1>3, <1>4, LocalsStep, LocalTypes, Zenon
<1>6. Sockets' /\ Open' = Open
  BY <1>1, SocketsFrame, Zenon DEF IInv
<1>7. Shared'
  BY <1>1, <1>3, SharedStep, LocalTypes, Zenon
<1>8. Leaked' \subseteq Leaked \cup {newfd[t]} /\ Matched' = Matched
  BY <1>1, <1>4, <1>6, Zenon DEF Leaked, Matched
<1>9. ~overlap => Alone(t) /\ Cardinality(Leaked) <= sendFailed /\ (noise = 0 => Matched)
  BY <1>2, Current, Zenon
<1>10. ~overlap => Cardinality(Leaked') <= sendFailed'
  BY <1>1, <1>8, <1>9, FewerLeaks, Zenon DEF IInv, Shared
<1>11. ASSUME ~overlap PROVE Alone(t)'
  <2>0. pc[t] \in Steps \ {"open"}
    BY <1>1, Zenon DEF Steps
  <2>1. Owns(t)'
    BY <1>1, <1>3, <1>4, <1>6, <1>9, <1>11, <2>0, Zenon DEF Alone, Owns
  <2>2. noise' = 0 => Flow(t)'
    BY <1>1, <1>2, <1>3, <1>9, <1>11, Zenon DEF Alone, Flow, Flying
  <2> QED
    BY <1>2, <1>3, <2>1, <2>2, Zenon DEF Alone
<1>12. Sequential'
  BY <1>1, <1>2, <1>3, <1>8, <1>9, <1>10, <1>11, SequentialStep, Zenon
<1> QED
  BY <1>3, <1>5, <1>6, <1>7, <1>12, Zenon DEF IInv

-----------------------------------------------------------------------------
(* run_stun, from the sendto on.                                            *)

\* The address is that of the socket the request left from.
LEMMA ReadAddressKeeps ==
  ASSUME IInv, NEW t \in Threads, ReadAddress(t)
  PROVE  IInv'
<1> DEFINE l == IF newfd[t] = Closed THEN "recv" ELSE "swap"
<1>1. /\ pc[t] = "name" /\ Goto(t, l)
      /\ IF udp_fd \in Open
         THEN real_local_addr' = socks[udp_fd] /\ local_port' = [local_port EXCEPT ![t] = socks[udp_fd]]
         ELSE UNCHANGED <<real_local_addr, local_port>>
      /\ UNCHANGED <<test, newfd, rfd, udp_fd, socks, requests, inbox,
                     pairs, lost, noise, sendFailed, wrapped, overlap>>
  BY Zenon DEF ReadAddress, At, network, counts
<1>2. Running(t) /\ l \in Steps /\ l \in Flying /\ pc[t] \in Flying /\ l \in {"recv", "swap"}
      /\ (l = "swap" <=> newfd[t] # Closed)
  BY <1>1, Zenon DEF Running, Steps, Flying
<1> HIDE DEF l
<1>3. real_local_addr' \in 0 .. MaxPort /\ local_port' \in [Threads -> -1 .. MaxPort]
  <2>1. udp_fd \in Open => socks[udp_fd] \in 1 .. MaxPort
    BY Zenon DEF IInv, Sockets
  <2> QED
    BY <1>1, <2>1, PortNumbers, LocalTypes
<1>4. /\ pc'[t] = l /\ \A u \in Threads : u # t => pc'[u] = pc[u]
      /\ Sockets' /\ Locals' /\ Shared' /\ Single' /\ Open' = Open /\ Leaked' = Leaked
  BY <1>1, <1>2, <1>3, MovesOnly, LocalTypes, Zenon
<1>5. ~overlap => Alone(t) /\ Cardinality(Leaked) <= sendFailed /\ (noise = 0 => Matched)
  BY <1>2, Current, Zenon
<1>6. ASSUME ~overlap PROVE Alone(t)'
  <2>0. pc[t] \in Steps \ {"open"}
    BY <1>1, Zenon DEF Steps, Flying
  <2>1. Owns(t) /\ (noise = 0 => Flow(t)) /\ (lost = 0 /\ ~wrapped => Ahead(t))
    BY <1>2, <1>5, <1>6, Zenon DEF Alone
  <2>2. Owns(t)'
    BY <1>1, <1>2, <1>4, <2>0, <2>1, Zenon DEF Owns
  <2>3. noise' = 0 => Flow(t)'
    <3>1. Source(t) = socks[udp_fd] /\ Source(t)' = real_local_addr' /\ real_local_addr' = socks[udp_fd]
      BY <1>1, <1>2, <1>4, <2>1, Zenon DEF Source, Owns
    <3> QED
      BY <1>1, <1>2, <1>4, <2>1, <3>1, Zenon DEF Flow
  <2>4. Ahead(t)' <=> Ahead(t)
    BY <1>1, Zenon DEF Ahead, Awaited
  <2> QED
    BY <1>1, <2>1, <2>2, <2>3, <2>4, Zenon DEF Alone
<1>7. Matched' = Matched
  BY <1>1, Zenon DEF Matched
<1>8. Sequential'
  BY <1>1, <1>2, <1>4, <1>5, <1>6, <1>7, SequentialStep, Zenon
<1> QED
  BY <1>4, <1>8, Zenon DEF IInv

\* The old socket is closed, with what waits in it; the answer comes to the new one.
LEMMA SwapCloseKeeps ==
  ASSUME IInv, NEW t \in Threads, SwapClose(t)
  PROVE  IInv'
<1> DEFINE l == "replace"
<1>1. /\ pc[t] = "swap" /\ Goto(t, l) /\ Close(udp_fd)
      /\ UNCHANGED <<test, local_port, newfd, rfd, udp_fd, real_local_addr, requests,
                     pairs, lost, noise, sendFailed, wrapped, overlap>>
  BY Zenon DEF SwapClose, At, counts
<1>2. Running(t) /\ test[t] # 0 /\ l \in Steps /\ l \in Flying /\ pc[t] \in Flying
      /\ newfd[t] = <<t, 2>> /\ newfd[t] # Closed /\ test[t] = 2 /\ <<t, 1>> # <<t, 2>>
  BY <1>1, SocketNames, Zenon DEF Running, IInv, Locals, Steps, Flying
<1>3. /\ pc' \in [Threads -> Steps \cup {"idle", "done", "exited"}] /\ pc'[t] = l
      /\ \A u \in Threads : u # t => pc'[u] = pc[u]
      /\ Single' /\ ((Quiet /\ Alive)' => l = "done")
  BY <1>1, <1>2, Moves, Zenon
<1>4. Locals'
  BY <1>1, <1>2, <1>3, LocalsStep, LocalTypes, Zenon
<1>5. /\ Sockets' /\ Open' = Open \ {udp_fd} /\ inbox' = {d \in inbox : d.sock # udp_fd}
      /\ \A x \in Open : x # udp_fd => socks'[x] = socks[x]
  BY <1>1, Closes, Zenon DEF IInv
<1>6. Shared'
  BY <1>1, <1>3, SharedStep, LocalTypes, Zenon
<1>7. Leaked' \subseteq Leaked /\ Matched' = Matched
  BY <1>1, <1>5, Zenon DEF Leaked, Matched
<1>8. ~overlap => Alone(t) /\ Cardinality(Leaked) <= sendFailed /\ (noise = 0 => Matched)
  BY <1>2, Current, Zenon
<1>9. ~overlap => Cardinality(Leaked') <= sendFailed
  BY <1>7, <1>8, FewerLeaks, Zenon DEF IInv, Shared
<1>10. ASSUME ~overlap PROVE Alone(t)'
  <2>0. pc[t] \in Steps \ {"open"}
    BY <1>1, Zenon DEF Steps, Flying
  <2>1. Owns(t) /\ (noise = 0 => Flow(t)) /\ (lost = 0 /\ ~wrapped => Ahead(t))
    BY <1>2, <1>8, <1>10, Zenon DEF Alone
  <2>2. newfd[t] \in Open /\ udp_fd = <<t, 1>>
    BY <1>1, <1>2, <2>1, Zenon DEF Owns
  <2>3. newfd[t] # udp_fd
    BY <1>2, <2>2, Zenon
  <2>4. Owns(t)'
    BY <1>1, <1>2, <1>3, <1>5, <2>0, <2>1, <2>2, <2>3, Zenon DEF Owns
  <2>5. noise' = 0 => Flow(t)'
    <3>1. Source(t) = real_local_addr /\ Source(t)' = real_local_addr
      BY <1>1, <1>3, Zenon DEF Source
    <3> QED
      BY <1>1, <1>2, <1>3, <1>5, <2>1, <3>1, Zenon DEF Flow
  <2>6. Ahead(t) => Ahead(t)'
    <3>1. Awaited(t) = newfd[t] /\ Awaited(t)' = newfd[t]
      BY <1>1, <1>2, Zenon DEF Awaited
    <3> QED
      BY <1>1, <1>5, <2>2, <2>3, <3>1, Zenon DEF Ahead
  <2> QED
    BY <1>1, <2>1, <2>4, <2>5, <2>6, Zenon DEF Alone
<1>11. Sequential'
  BY <1>1, <1>2, <1>3, <1>7, <1>8, <1>9, <1>10, SequentialStep, Zenon
<1> QED
  BY <1>3, <1>4, <1>5, <1>6, <1>11, Zenon DEF IInv

\* The new socket takes over.
LEMMA SwapSetKeeps ==
  ASSUME IInv, NEW t \in Threads, SwapSet(t)
  PROVE  IInv'
<1> DEFINE l == "recv"
<1>1. /\ pc[t] = "replace" /\ Goto(t, l) /\ udp_fd' = newfd[t] /\ newfd' = [newfd EXCEPT ![t] = Closed]
      /\ UNCHANGED <<test, local_port, rfd, real_local_addr, socks, requests, inbox,
                     pairs, lost, noise, sendFailed, wrapped, overlap>>
  BY Zenon DEF SwapSet, At, network, counts
<1>2. Running(t) /\ test[t] = 2 /\ l \in Steps /\ l \in Flying /\ pc[t] \in Flying
      /\ newfd[t] # Closed /\ newfd[t] \in Socket
  BY <1>1, Zenon DEF Running, IInv, Locals, Steps, Flying
<1>3. /\ pc' \in [Threads -> Steps \cup {"idle", "done", "exited"}] /\ pc'[t] = l
      /\ \A u \in Threads : u # t => pc'[u] = pc[u]
      /\ Single' /\ ((Quiet /\ Alive)' => l = "done")
  BY <1>1, <1>2, Moves, Zenon
<1>4. newfd' \in [Threads -> Socket \cup {Closed}] /\ newfd'[t] = Closed
      /\ \A u \in Threads : u # t => newfd'[u] = newfd[u]
  BY <1>1, Zenon DEF IInv, Locals
<1>5. Locals'
  <2>1. test' = test /\ local_port' = local_port /\ rfd' = rfd /\ test[t] # 0
    BY <1>1, <1>2
  <2>2. /\ test' \in [Threads -> 0 .. 3] /\ test'[t] # 0
        /\ \A u \in Threads : u # t => test'[u] = test[u]
        /\ local_port' \in [Threads -> -1 .. MaxPort] /\ rfd' \in [Threads -> Socket \cup {Closed}]
    BY <2>1, LocalTypes, Zenon
  <2>3. l \notin {"swap", "replace"}
    BY Zenon
  <2> HIDE DEF l
  <2> QED
    BY <1>3, <1>4, <2>2, <2>3, LocalsStep, Zenon
<1>6. Sockets' /\ Open' = Open
  BY <1>1, SocketsFrame, Zenon DEF IInv
<1>7. Shared'
  BY <1>1, <1>2, <1>3, SharedStep, LocalTypes, Zenon
<1>8. ~overlap => Alone(t) /\ Cardinality(Leaked) <= sendFailed /\ (noise = 0 => Matched)
  BY <1>2, Current, Zenon
<1>9. Matched' = Matched
  BY <1>1, Zenon DEF Matched
<1>10. ASSUME ~overlap PROVE Alone(t)' /\ Cardinality(Leaked') <= sendFailed
  <2>1. Owns(t) /\ (noise = 0 => Flow(t)) /\ (lost = 0 /\ ~wrapped => Ahead(t))
    BY <1>2, <1>8, <1>10, Zenon DEF Alone
  <2>2. newfd[t] \in Open /\ udp_fd \notin Open
    BY <1>1, <1>2, <2>1, Zenon DEF Owns
  <2>3. Leaked' \subseteq Leaked
    <3>1. {newfd[u] : u \in Threads} \subseteq {newfd'[u] : u \in Threads} \cup {udp_fd'}
      BY <1>1, <1>4, Zenon
    <3> QED
      BY <1>6, <2>2, <3>1, Zenon DEF Leaked
  <2>4. Owns(t)'
    <3>1. test'[t] = 2 /\ udp_fd' \in Open' /\ newfd'[t] = Closed /\ pc'[t] = l
      BY <1>1, <1>2, <1>3, <1>4, <1>6, <2>2, Zenon
    <3>2. pc'[t] = "recv"
      BY <3>1, Zenon
    <3> HIDE DEF l
    <3> QED
      BY <3>1, <3>2 DEF Owns
  <2>5. noise' = 0 => Flow(t)'
    <3>1. Source(t) = real_local_addr /\ Source(t)' = real_local_addr
      BY <1>1, <1>3, Zenon DEF Source
    <3> QED
      BY <1>1, <1>2, <1>3, <2>1, <3>1, Zenon DEF Flow
  <2>6. Ahead(t) => Ahead(t)'
    <3>1. Awaited(t) = newfd[t] /\ Awaited(t)' = newfd[t]
      BY <1>1, <1>2, <1>4, Zenon DEF Awaited
    <3> QED
      BY <1>1, <3>1, Zenon DEF Ahead
  <2>7. Cardinality(Leaked') <= sendFailed
    BY <1>8, <1>10, <2>3, FewerLeaks, Zenon DEF IInv, Shared
  <2> QED
    BY <1>1, <2>1, <2>4, <2>5, <2>6, <2>7, Zenon DEF Alone
<1>11. Sequential'
  BY <1>1, <1>2, <1>3, <1>8, <1>9, <1>10, SequentialStep, Zenon
<1> QED
  BY <1>3, <1>5, <1>6, <1>7, <1>11, Zenon DEF IInv

\* recv is called on udp_fd as it is now.
LEMMA RecvStartKeeps ==
  ASSUME IInv, NEW t \in Threads, RecvStart(t)
  PROVE  IInv'
<1> DEFINE l == "take"
<1>1. /\ pc[t] = "recv" /\ Goto(t, l) /\ rfd' = [rfd EXCEPT ![t] = udp_fd]
      /\ UNCHANGED <<test, local_port, newfd, udp_fd, real_local_addr, socks, requests, inbox,
                     pairs, lost, noise, sendFailed, wrapped, overlap>>
  BY Zenon DEF RecvStart, At, network, counts
<1>2. Running(t) /\ newfd[t] = Closed /\ l \in Steps /\ l \in Flying /\ pc[t] \in Flying
  BY <1>1, Zenon DEF Running, IInv, Locals, Steps, Flying
<1>3. rfd' \in [Threads -> Socket \cup {Closed}] /\ rfd'[t] = udp_fd
  BY <1>1, Zenon DEF IInv, Locals, Shared
<1>4. /\ pc'[t] = l /\ \A u \in Threads : u # t => pc'[u] = pc[u]
      /\ Sockets' /\ Locals' /\ Shared' /\ Single' /\ Open' = Open /\ Leaked' = Leaked
  BY <1>1, <1>2, <1>3, MovesOnly, LocalTypes, Zenon
<1>5. ~overlap => Alone(t) /\ Cardinality(Leaked) <= sendFailed /\ (noise = 0 => Matched)
  BY <1>2, Current, Zenon
<1>6. ASSUME ~overlap PROVE Alone(t)'
  <2>0. pc[t] \in Steps \ {"open"}
    BY <1>1, Zenon DEF Steps, Flying
  <2>1. Owns(t) /\ (noise = 0 => Flow(t)) /\ (lost = 0 /\ ~wrapped => Ahead(t))
    BY <1>2, <1>5, <1>6, Zenon DEF Alone
  <2>2. Owns(t)'
    BY <1>1, <1>2, <1>3, <1>4, <2>0, <2>1, Zenon DEF Owns
  <2>3. noise' = 0 => Flow(t)'
    <3>1. Source(t) = real_local_addr /\ Source(t)' = real_local_addr
      BY <1>1, <1>4, Zenon DEF Source
    <3> QED
      BY <1>1, <1>2, <1>4, <2>1, <3>1, Zenon DEF Flow
  <2>4. Ahead(t)' <=> Ahead(t)
    BY <1>1, Zenon DEF Ahead, Awaited
  <2> QED
    BY <1>1, <2>1, <2>2, <2>3, <2>4, Zenon DEF Alone
<1>7. Matched' = Matched
  BY <1>1, Zenon DEF Matched
<1>8. Sequential'
  BY <1>1, <1>2, <1>4, <1>5, <1>6, <1>7, SequentialStep, Zenon
<1> QED
  BY <1>4, <1>8, Zenon DEF IInv

\* recv returns a datagram, reported or not, or fails.
LEMMA TakeKeeps ==
  ASSUME IInv, NEW t \in Threads, Take(t) \/ TakeUnusable(t) \/ TakeFails(t)
  PROVE  IInv'
<1> DEFINE l == "next"
<1>1. /\ pc[t] = "take" /\ Goto(t, l)
      /\ UNCHANGED <<test, local_port, newfd, rfd, udp_fd, real_local_addr, socks, requests,
                     lost, noise, sendFailed, wrapped, overlap>>
      /\ \/ rfd[t] \notin Open /\ inbox' = inbox /\ pairs' = pairs
         \/ \E d \in inbox : inbox' = inbox \ {d} /\ (pairs' = pairs \/ pairs' = pairs \cup {Reported(d)})
  BY Zenon DEF Take, TakeUnusable, TakeFails, At, network, counts
<1>2. Running(t) /\ newfd[t] = Closed /\ l \in Steps /\ l \notin Flying /\ pc[t] \in Flying
  BY <1>1, Zenon DEF Running, IInv, Locals, Steps, Flying
<1>3. /\ pc'[t] = l /\ \A u \in Threads : u # t => pc'[u] = pc[u]
      /\ Sockets' /\ Locals' /\ Shared' /\ Single' /\ Open' = Open /\ Leaked' = Leaked
  BY <1>1, <1>2, MovesOnly, LocalTypes, Zenon
<1>4. ~overlap => Alone(t) /\ Cardinality(Leaked) <= sendFailed /\ (noise = 0 => Matched)
  BY <1>2, Current, Zenon
<1>5. ASSUME ~overlap PROVE Alone(t)' /\ (noise' = 0 => Matched')
  <2>0. pc[t] \in Steps \ {"open"}
    BY <1>1, Zenon DEF Steps, Flying
  <2>1. Owns(t) /\ (noise = 0 => Flow(t) /\ Matched)
    BY <1>2, <1>4, <1>5, Zenon DEF Alone
  <2>2. rfd[t] \in Open
    BY <1>1, <2>1, Zenon DEF Owns
  <2>3. PICK d \in inbox : inbox' = inbox \ {d} /\ (pairs' = pairs \/ pairs' = pairs \cup {Reported(d)})
    BY <1>1, <2>2, Zenon
  <2>4. Owns(t)'
    BY <1>1, <1>2, <1>3, <2>0, <2>1, Zenon DEF Owns
  <2>5. noise = 0 => requests = {} /\ inbox' = {}
    BY <2>1, <2>3, Zenon DEF Flow
  <2>6. noise' = 0 => Flow(t)'
    BY <1>1, <1>2, <1>3, <2>5, Zenon DEF Flow
  <2>7. noise = 0 => Reported(d).mapped = Reported(d).local
    BY <1>1, <1>2, <2>1, <2>3, Zenon DEF Flow, Source, Reported
  <2>8. noise' = 0 => Matched'
    BY <1>1, <2>1, <2>3, <2>7, Zenon DEF Matched
  <2> QED
    BY <1>2, <1>3, <2>4, <2>6, <2>8, Zenon DEF Alone
<1>6. Sequential'
  BY <1>1, <1>2, <1>3, <1>4, <1>5, SequentialStep, Zenon
<1> QED
  BY <1>3, <1>6, Zenon DEF IInv

\* The next test, or the end of the run.
LEMMA NextTestKeeps ==
  ASSUME IInv, NEW t \in Threads, NextTest(t)
  PROVE  IInv'
<1> DEFINE more == test[t] = 2 \/ (test[t] = 1 /\ rfc5780[t])
           l == IF more THEN "open" ELSE "close"
<1>1. /\ pc[t] = "next" /\ Goto(t, l) /\ test' = IF more THEN [test EXCEPT ![t] = @ + 1] ELSE test
      /\ UNCHANGED <<local_port, newfd, rfd, udp_fd, real_local_addr, socks, requests, inbox,
                     pairs, lost, noise, sendFailed, wrapped, overlap>>
  <2>1. CASE more
    BY <2>1, Zenon DEF NextTest, At, network, counts
  <2>2. CASE ~more
    BY <2>2, Zenon DEF NextTest, At, network, counts
  <2> QED
    BY <2>1, <2>2, Zenon
<1>2. test \in [Threads -> 0 .. 3] /\ (more => test[t] \in {1, 2})
  BY Zenon DEF IInv, Locals
<1>3. Running(t) /\ newfd[t] = Closed /\ test[t] \in 1 .. 3 /\ pc[t] \in Steps \ {"open"} /\ pc[t] \notin Flying
  <2>1. pc[t] = "next"
    BY <1>1, Zenon
  <2>2. Running(t) /\ pc[t] \in Steps \ {"open"} /\ pc[t] \notin Flying
    BY <2>1, Zenon DEF Running, Steps, Flying
  <2>3. newfd[t] = Closed
    BY <2>1, Zenon DEF IInv, Locals
  <2>4. test[t] # 0
    BY <2>2, Zenon DEF IInv, Locals
  <2> QED
    BY <1>2, <2>2, <2>3, <2>4
<1>4. l \in Steps /\ l \notin Flying /\ l \in {"open", "close"} /\ (l = "open" <=> more)
  BY Zenon DEF Steps, Flying
<1> HIDE DEF more, l
<1>5. /\ test' \in [Threads -> 0 .. 3] /\ test'[t] # 0
      /\ \A u \in Threads : u # t => test'[u] = test[u]
      /\ l = "open" => test[t] \in {1, 2} /\ test'[t] = test[t] + 1
      /\ l = "close" => test'[t] = test[t]
  <2>1. test \in [Threads -> 0 .. 3] /\ test[t] # 0 /\ (l = "close" => ~more) /\ (l = "open" => more)
    BY <1>2, <1>3, <1>4
  <2>2. CASE more
    <3>1. test' = [test EXCEPT ![t] = test[t] + 1] /\ test[t] \in {1, 2}
      BY <1>1, <1>2, <2>2, Zenon
    <3> QED
      BY <2>1, <2>2, <3>1
  <2>3. CASE ~more
    <3>1. test' = test
      BY <1>1, <2>3, Zenon
    <3> QED
      BY <2>1, <2>3, <3>1, Zenon
  <2> QED
    BY <2>2, <2>3, Zenon
<1>6. /\ pc' \in [Threads -> Steps \cup {"idle", "done", "exited"}] /\ pc'[t] = l
      /\ \A u \in Threads : u # t => pc'[u] = pc[u]
      /\ Single' /\ ((Quiet /\ Alive)' => l = "done")
  BY <1>1, <1>3, <1>4, Moves, Zenon
<1>7. Locals'
  BY <1>1, <1>3, <1>4, <1>5, <1>6, LocalsStep, LocalTypes, Zenon
<1>8. Sockets' /\ Open' = Open
  BY <1>1, SocketsFrame, Zenon DEF IInv
<1>9. Shared'
  BY <1>1, <1>4, <1>6, SharedStep, LocalTypes, Zenon
<1>10. Leaked' = Leaked /\ Matched' = Matched
  BY <1>1, <1>8, Zenon DEF Leaked, Matched
<1>11. ~overlap => Alone(t) /\ Cardinality(Leaked) <= sendFailed /\ (noise = 0 => Matched)
  BY <1>3, Current, Zenon
<1>12. ASSUME ~overlap PROVE Alone(t)'
  <2>1. Owns(t) /\ (noise = 0 => Flow(t))
    BY <1>11, <1>12, Zenon DEF Alone
  <2>2. udp_fd \in Open /\ (test[t] = 1 => udp_fd = <<t, 1>>)
    BY <1>1, <1>3, <2>1, Zenon DEF Owns
  <2>3. Owns(t)'
    <3>0. UNCHANGED <<udp_fd, newfd>> /\ newfd[t] = Closed /\ pc'[t] = l /\ Open' = Open
      BY <1>1, <1>3, <1>6, <1>8, Zenon
    <3>1. CASE l = "open"
      <4>1. test'[t] # 1 /\ (test'[t] = 2 => udp_fd = <<t, 1>>)
        BY <1>5, <2>2, <3>1
      <4> QED
        BY <2>2, <3>0, <3>1, <4>1, Zenon DEF Owns
    <3>2. CASE l = "close"
      <4>1. test'[t] = 1 => udp_fd = <<t, 1>>
        BY <1>5, <2>2, <3>2, Zenon
      <4> QED
        BY <2>2, <3>0, <3>2, <4>1, Zenon DEF Owns
    <3> QED
      BY <1>4, <3>1, <3>2, Zenon
  <2>4. noise' = 0 => Flow(t)'
    BY <1>1, <1>3, <1>4, <1>6, <2>1, Zenon DEF Flow
  <2> QED
    BY <1>4, <1>6, <2>3, <2>4, Zenon DEF Alone
<1>13. Sequential'
  BY <1>1, <1>3, <1>4, <1>6, <1>10, <1>11, <1>12, SequentialStep, Zenon
<1> QED
  BY <1>6, <1>7, <1>8, <1>9, <1>13, Zenon DEF IInv

\* closesocket at the end of the run.
LEMMA CloseSocketKeeps ==
  ASSUME IInv, NEW t \in Threads, CloseSocket(t)
  PROVE  IInv'
<1> DEFINE l == "clear"
<1>1. /\ pc[t] = "close" /\ Goto(t, l) /\ Close(udp_fd)
      /\ UNCHANGED <<test, local_port, newfd, rfd, udp_fd, real_local_addr, requests,
                     pairs, lost, noise, sendFailed, wrapped, overlap>>
  BY Zenon DEF CloseSocket, At, counts
<1>2. Running(t) /\ test[t] # 0 /\ newfd[t] = Closed /\ l \in Steps /\ l \notin Flying
  BY <1>1, Zenon DEF Running, IInv, Locals, Steps, Flying
<1>3. /\ pc' \in [Threads -> Steps \cup {"idle", "done", "exited"}] /\ pc'[t] = l
      /\ \A u \in Threads : u # t => pc'[u] = pc[u]
      /\ Single' /\ ((Quiet /\ Alive)' => l = "done")
  BY <1>1, <1>2, Moves, Zenon
<1>4. Locals'
  BY <1>1, <1>2, <1>3, LocalsStep, LocalTypes, Zenon
<1>5. Sockets' /\ Open' = Open \ {udp_fd} /\ inbox' = {d \in inbox : d.sock # udp_fd}
  BY <1>1, Closes, Zenon DEF IInv
<1>6. Shared'
  BY <1>1, <1>3, SharedStep, LocalTypes, Zenon
<1>7. Leaked' \subseteq Leaked /\ Matched' = Matched
  BY <1>1, <1>5, Zenon DEF Leaked, Matched
<1>8. ~overlap => Alone(t) /\ Cardinality(Leaked) <= sendFailed /\ (noise = 0 => Matched)
  BY <1>2, Current, Zenon
<1>9. ~overlap => Cardinality(Leaked') <= sendFailed
  BY <1>7, <1>8, FewerLeaks, Zenon DEF IInv, Shared
<1>10. ASSUME ~overlap PROVE Alone(t)'
  <2>0. pc[t] \in Steps \ {"open"} /\ pc[t] \notin Flying
    BY <1>1, Zenon DEF Steps, Flying
  <2>1. Owns(t) /\ (noise = 0 => Flow(t))
    BY <1>8, <1>10, Zenon DEF Alone
  <2>2. Owns(t)'
    BY <1>1, <1>2, <1>3, <1>5, <2>0, <2>1, Zenon DEF Owns
  <2>3. noise' = 0 => Flow(t)'
    BY <1>1, <1>2, <1>3, <1>5, <2>0, <2>1, Zenon DEF Flow
  <2> QED
    BY <1>2, <1>3, <2>2, <2>3, Zenon DEF Alone
<1>11. Sequential'
  BY <1>1, <1>2, <1>3, <1>7, <1>8, <1>9, <1>10, SequentialStep, Zenon
<1> QED
  BY <1>3, <1>4, <1>5, <1>6, <1>11, Zenon DEF IInv

\* udp_fd = -1: the run is over.
LEMMA ClearSocketKeeps ==
  ASSUME IInv, NEW t \in Threads, ClearSocket(t)
  PROVE  IInv'
<1> DEFINE l == "done"
<1>1. /\ pc[t] = "clear" /\ Goto(t, l) /\ udp_fd' = Closed
      /\ UNCHANGED <<test, local_port, newfd, rfd, real_local_addr, socks, requests, inbox,
                     pairs, lost, noise, sendFailed, wrapped, overlap>>
  BY Zenon DEF ClearSocket, At, network, counts
<1>2. Running(t) /\ test[t] # 0 /\ newfd[t] = Closed /\ l \notin Steps /\ pc[t] \notin Flying
  BY <1>1, Zenon DEF Running, IInv, Locals, Steps, Flying
<1>3. /\ pc' \in [Threads -> Steps \cup {"idle", "done", "exited"}] /\ pc'[t] = l
      /\ \A u \in Threads : u # t => pc'[u] = pc[u] /\ Single'
  BY <1>1, <1>2, Moves, Zenon
<1>4. Locals'
  BY <1>1, <1>2, <1>3, LocalsStep, LocalTypes, Zenon
<1>5. Sockets' /\ Open' = Open /\ Single'
  BY <1>1, <1>2, SocketsFrame, Moves, Zenon DEF IInv
<1>6. Shared'
  BY <1>1, <1>2, SharedStep, LocalTypes, Zenon
<1>7. ~overlap => Alone(t) /\ Cardinality(Leaked) <= sendFailed /\ (noise = 0 => Matched)
  BY <1>2, Current, Zenon
<1>8. Matched' = Matched
  BY <1>1, Zenon DEF Matched
<1>9. ASSUME ~overlap PROVE Cardinality(Leaked') <= sendFailed /\ (noise' = 0 => Silent')
  <2>1. udp_fd \notin Open
    BY <1>1, <1>7, <1>9, Zenon DEF Alone, Owns
  <2>2. Leaked' \subseteq Leaked
    BY <1>1, <1>5, <2>1, Zenon DEF Leaked
  <2>3. noise = 0 => requests = {} /\ inbox = {}
    BY <1>2, <1>7, <1>9, Zenon DEF Alone, Flow
  <2>4. Cardinality(Leaked') <= sendFailed
    BY <1>7, <1>9, <2>2, FewerLeaks, Zenon DEF IInv, Shared
  <2> QED
    BY <1>1, <2>3, <2>4, Zenon DEF Silent
<1>10. Sequential'
  BY <1>1, <1>2, <1>3, <1>7, <1>8, <1>9, SequentialStep, Zenon
<1> QED
  BY <1>4, <1>5, <1>6, <1>10, Zenon DEF IInv

-----------------------------------------------------------------------------
(* The network.                                                             *)

\* What every step of the network leaves alone.
LEMMA NetworkFrame ==
  ASSUME IInv, UNCHANGED <<thread, udp_fd, real_local_addr, socks, pairs, sendFailed, wrapped, overlap>>,
         noise' \in Nat, lost' \in Nat
  PROVE  /\ Sockets' /\ Locals' /\ Shared' /\ Single' /\ Leaked' = Leaked /\ Matched' = Matched
         /\ \A t \in Threads : Running(t)' = Running(t) /\ (Owns(t) => Owns(t)')
                               /\ Source(t)' = Source(t) /\ Awaited(t)' = Awaited(t)
<1> USE DEF thread
<1>1. Sockets' /\ Open' = Open
  BY SocketsFrame, Zenon DEF IInv
<1>2. Locals'
  BY Zenon DEF IInv, Locals, Running
<1>3. Shared'
  BY Zenon DEF IInv, Shared, Quiet, Alive, Running
<1>4. Single'
  BY Zenon DEF IInv, Single, Running
<1>5. Leaked' = Leaked /\ Matched' = Matched
  BY <1>1, Zenon DEF Leaked, Matched
<1>6. ASSUME NEW t \in Threads
      PROVE  Running(t)' = Running(t) /\ (Owns(t) => Owns(t)')
             /\ Source(t)' = Source(t) /\ Awaited(t)' = Awaited(t)
  BY <1>1, Zenon DEF Running, Owns, Source, Awaited, response_port
<1> QED
  BY <1>1, <1>2, <1>3, <1>4, <1>5, <1>6, Zenon

\* The answer reaches the socket bound to the port it is sent to.
LEMMA RespondKeeps ==
  ASSUME IInv, Respond
  PROVE  IInv'
<1>1. PICK m \in requests : requests' = requests \ {m} /\ Deliver(m)
  BY Zenon DEF Respond
<1>2. UNCHANGED <<thread, udp_fd, real_local_addr, socks, pairs, noise, lost, sendFailed, wrapped, overlap>>
  BY Zenon DEF Respond
<1>3. /\ Sockets' /\ Locals' /\ Shared' /\ Single' /\ Leaked' = Leaked /\ Matched' = Matched
      /\ \A t \in Threads : Running(t)' = Running(t) /\ (Owns(t) => Owns(t)')
                            /\ Source(t)' = Source(t) /\ Awaited(t)' = Awaited(t)
  BY <1>2, NetworkFrame, Zenon DEF IInv, Shared
<1>4. pc' = pc
  BY <1>2, Zenon DEF thread
<1>5. /\ \A d \in inbox' \ inbox : d.from = m.from
      /\ \A d, e \in inbox' \ inbox : d = e
      /\ \A s \in Open : socks[s] = m.to => \E d \in inbox' : d.sock = s
      /\ inbox \subseteq inbox'
  <2> DEFINE datagram(s) == [sock |-> s, from |-> m.from, copy |-> noise', test |-> m.test]
             D == {datagram(s) : s \in {x \in Open : socks[x] = m.to}}
  <2>1. inbox' = inbox \cup D
    BY <1>1, Zenon DEF Deliver
  <2>2. ASSUME NEW d \in D PROVE d.from = m.from
    <3>1. PICK s : d = datagram(s)
      BY Zenon
    <3> QED
      BY <3>1, Zenon
  <2>3. \A r, s \in {x \in Open : socks[x] = m.to} : r = s
    BY Zenon DEF IInv, Sockets
  <2>4. \A d, e \in D : d = e
    BY <2>3, Zenon
  <2>5. ASSUME NEW s \in Open, socks[s] = m.to PROVE \E d \in D : d.sock = s
    <3>1. datagram(s).sock = s
      BY Zenon
    <3>2. datagram(s) \in D
      BY <2>5, Zenon
    <3> QED
      BY <3>1, <3>2, Zenon
  <2> HIDE DEF D
  <2> QED
    BY <2>1, <2>2, <2>4, <2>5, Zenon
<1>6. ASSUME ~overlap, NEW t \in Threads, Running(t) PROVE Alone(t)'
  <2>1. Alone(t)
    BY <1>6, Current, Zenon
  <2>2. Owns(t) /\ Owns(t)'
    BY <1>3, <2>1, Zenon DEF Alone
  <2>3. noise' = 0 => Flow(t)'
    <3>1. SUFFICES ASSUME noise = 0 PROVE Flow(t)'
      BY <1>2, Zenon
    <3>2. Flow(t)
      BY <2>1, <3>1, Zenon DEF Alone
    <3>3. inbox = {} /\ requests' = {} /\ pc[t] \in Flying /\ m.from = Source(t)
      BY <1>1, <3>2, Zenon DEF Flow
    <3> QED
      BY <1>3, <1>4, <1>5, <3>3, Zenon DEF Flow
  <2>4. ASSUME lost' = 0, ~wrapped', pc'[t] \in Flying PROVE Ahead(t)'
    <3>1. Ahead(t)
      BY <1>2, <1>4, <2>1, <2>4, Zenon DEF Alone
    <3>2. Awaited(t) \in Open
      BY <1>4, <2>2, <2>4, Zenon DEF Awaited, Owns, Flying, IInv, Locals
    <3>3. CASE \E d \in inbox : d.sock = Awaited(t)
      BY <1>3, <1>5, <3>3, Zenon DEF Ahead
    <3>4. ASSUME NEW r \in requests, r.to = socks[Awaited(t)] PROVE Ahead(t)'
      <4>1. CASE r = m
        BY <1>3, <1>5, <3>2, <3>4, <4>1, Zenon DEF Ahead
      <4>2. CASE r # m
        BY <1>1, <1>2, <1>3, <3>4, <4>2, Zenon DEF Ahead
      <4> QED
        BY <4>1, <4>2, Zenon
    <3> QED
      BY <3>1, <3>3, <3>4, Zenon DEF Ahead
  <2> QED
    BY <2>2, <2>3, <2>4, Zenon DEF Alone
<1>7. ~overlap /\ noise = 0 => \E t \in Threads : Running(t)
  BY <1>1, Zenon DEF IInv, Sequential, Silent
<1>8. Sequential'
  BY <1>2, <1>3, <1>6, <1>7, Zenon DEF IInv, Sequential
<1> QED
  BY <1>3, <1>8, Zenon DEF IInv

\* A request is lost, an answer comes again, or a stranger sends something.
LEMMA FaultsKeep ==
  ASSUME IInv, Lose \/ Duplicate \/ Stray
  PROVE  IInv'
<1>1. /\ UNCHANGED <<thread, udp_fd, real_local_addr, socks, pairs, sendFailed, wrapped, overlap>>
      /\ \/ lost' = lost + 1 /\ noise' = noise /\ requests' \subseteq requests /\ inbox' = inbox
         \/ noise' = noise + 1 /\ lost' = lost /\ requests' = requests /\ inbox \subseteq inbox'
  BY Zenon DEF Lose, Duplicate, Stray, Deliver
<1>2. noise \in Nat /\ lost \in Nat /\ noise' \in Nat /\ lost' \in Nat
  BY <1>1 DEF IInv, Shared
<1>3. /\ Sockets' /\ Locals' /\ Shared' /\ Single' /\ Leaked' = Leaked /\ Matched' = Matched
      /\ \A t \in Threads : Running(t)' = Running(t) /\ (Owns(t) => Owns(t)')
                            /\ Source(t)' = Source(t) /\ Awaited(t)' = Awaited(t)
  BY <1>1, <1>2, NetworkFrame, Zenon
<1>4. pc' = pc
  BY <1>1, Zenon DEF thread
<1>5. ASSUME ~overlap, NEW t \in Threads, Running(t) PROVE Alone(t)'
  <2>1. Alone(t) /\ Owns(t)'
    BY <1>3, <1>5, Current, Zenon DEF Alone
  <2>2. noise' = 0 => Flow(t)'
    <3>1. SUFFICES ASSUME noise' = 0 PROVE Flow(t)'
      BY Zenon
    <3>2. noise = 0 /\ requests' \subseteq requests /\ inbox' = inbox
      BY <1>1, <1>2, <3>1
    <3>3. Flow(t)
      BY <2>1, <3>2, Zenon DEF Alone
    <3> QED
      BY <1>3, <1>4, <3>2, <3>3, Zenon DEF Flow
  <2>3. lost' = 0 /\ ~wrapped' /\ pc'[t] \in Flying => Ahead(t)'
    <3>1. SUFFICES ASSUME lost' = 0, ~wrapped', pc'[t] \in Flying PROVE Ahead(t)'
      BY Zenon
    <3>2. lost = 0 /\ requests' = requests /\ inbox \subseteq inbox' /\ socks' = socks
      BY <1>1, <1>2, <3>1
    <3>3. Ahead(t)
      BY <1>1, <1>4, <2>1, <3>1, <3>2, Zenon DEF Alone
    <3> QED
      BY <1>3, <3>2, <3>3, Zenon DEF Ahead
  <2> QED
    BY <2>1, <2>2, <2>3, Zenon DEF Alone
<1>6. Silent /\ noise' = 0 => Silent'
  BY <1>1, <1>2 DEF Silent
<1>7. noise' = 0 => noise = 0
  BY <1>1, <1>2
<1>8. Sequential'
  BY <1>1, <1>3, <1>5, <1>6, <1>7, Zenon DEF IInv, Sequential
<1> QED
  BY <1>3, <1>8, Zenon DEF IInv

-----------------------------------------------------------------------------
(* The theorems.                                                            *)

\* The invariant holds before the first run.
LEMMA InitIInv == Init => IInv
<1> SUFFICES ASSUME Init PROVE IInv
  BY Zenon
<1>1. Open = {}
  BY DEF Init, Open
<1>2. Sockets
  BY <1>1, FS_EmptySet, Zenon DEF Sockets
<1>3. Locals
  BY PortNumbers DEF Init, Locals, Running
<1>4. Single
  BY Zenon DEF Init, Single, Running
<1>5. Shared
  <2>1. 0 \in 0 .. MaxPort
    BY PortNumbers
  <2>2. udp_fd = Closed /\ real_local_addr = 0 /\ noise = 0 /\ lost = 0 /\ sendFailed = 0
        /\ overlap = FALSE /\ wrapped = FALSE
    BY Zenon DEF Init
  <2> QED
    BY <2>1, <2>2, Zenon DEF Shared
<1>6. Leaked = {}
  BY <1>1, Zenon DEF Leaked
<1>7. Cardinality(Leaked) = 0
  BY <1>6, FS_EmptySet, Zenon
<1>8. Sequential
  <2>1. sendFailed = 0 /\ pairs = {} /\ requests = {} /\ inbox = {}
    BY Zenon DEF Init
  <2>2. \A t \in Threads : ~Running(t)
    BY Zenon DEF Init, Running
  <2>3. Matched /\ Silent
    BY <2>1, Zenon DEF Matched, Silent
  <2>4. Cardinality(Leaked) <= sendFailed
    BY <1>7, <2>1
  <2> QED
    BY <2>2, <2>3, <2>4, Zenon DEF Sequential
<1> QED
  BY <1>2, <1>3, <1>4, <1>5, <1>8, Zenon DEF IInv

\* A step that changes nothing.
LEMMA StutterKeeps ==
  ASSUME IInv, UNCHANGED vars
  PROVE  IInv'
<1>1. UNCHANGED <<thread, udp_fd, real_local_addr, socks, pairs, requests, inbox,
                  noise, lost, sendFailed, wrapped, overlap>>
  BY Zenon DEF vars, network, counts
<1>2. /\ Sockets' /\ Locals' /\ Shared' /\ Single' /\ Leaked' = Leaked /\ Matched' = Matched
      /\ \A t \in Threads : Running(t)' = Running(t) /\ (Owns(t) => Owns(t)')
                            /\ Source(t)' = Source(t) /\ Awaited(t)' = Awaited(t)
  BY <1>1, NetworkFrame, Zenon DEF IInv, Shared
<1>3. pc' = pc
  BY <1>1, Zenon DEF thread
<1>4. ASSUME ~overlap, NEW t \in Threads, Running(t) PROVE Alone(t)'
  <2>1. Alone(t) /\ Owns(t)'
    BY <1>2, <1>4, Current, Zenon DEF Alone
  <2>2. noise = 0 => Flow(t)'
    BY <1>1, <1>2, <1>3, <2>1, Zenon DEF Alone, Flow
  <2>3. lost = 0 /\ ~wrapped /\ pc[t] \in Flying => Ahead(t)'
    BY <1>1, <1>2, <2>1, Zenon DEF Alone, Ahead
  <2> QED
    BY <1>1, <1>3, <2>1, <2>2, <2>3, Zenon DEF Alone
<1>5. Silent => Silent'
  BY <1>1, Zenon DEF Silent
<1>6. Sequential'
  BY <1>1, <1>2, <1>4, <1>5, Zenon DEF IInv, Sequential
<1> QED
  BY <1>2, <1>6, Zenon DEF IInv

\* Every step keeps the invariant.
LEMMA NextIInv == IInv /\ [Next]_vars => IInv'
<1> SUFFICES ASSUME IInv, [Next]_vars PROVE IInv'
  BY Zenon
<1>1. ASSUME NEW t \in Threads, Step(t) PROVE IInv'
  BY <1>1, OpenSocketKeeps, UseSocketKeeps, OpenSecondKeeps, NoSecondKeeps, SendKeeps,
     ReadAddressKeeps,
     SwapCloseKeeps, SwapSetKeeps, RecvStartKeeps, TakeKeeps, NextTestKeeps, CloseSocketKeeps,
     ClearSocketKeeps, Zenon DEF Step
<1> QED
  BY <1>1, BeginKeeps, SendFailsKeeps, RespondKeeps, FaultsKeep, StutterKeeps, Zenon DEF Next

\* The inductive invariant, for any number of runs.
THEOREM RunsInvariant == Spec => []IInv
BY InitIInv, NextIInv, PTL DEF Spec

\* Ports and sockets correspond one to one.
LEMMA AsManyPorts ==
  ASSUME Sockets
  PROVE  Cardinality(Ports) = Cardinality(Open)
<1> DEFINE f == [s \in Open |-> socks[s]]
           g == [p \in Ports |-> CHOOSE s \in Open : socks[s] = p]
<1>1. f \in [Open -> Ports] /\ \A r, s \in Open : f[r] = f[s] => r = s
  BY Zenon DEF Sockets, Ports
<1>2. g \in [Ports -> Open] /\ \A p, q \in Ports : g[p] = g[q] => p = q
  BY Zenon DEF Ports
<1>3. IsFiniteSet(Open)
  BY Zenon DEF Sockets
<1>4. IsFiniteSet(Ports)
  <2>1. Ports \in SUBSET (1 .. MaxPort)
    BY Zenon DEF Sockets, Ports
  <2>2. IsFiniteSet(1 .. MaxPort)
    BY PortNumbers, FS_Interval
  <2> QED
    BY <2>1, <2>2, FS_Subset, Zenon
<1> HIDE DEF f, g
<1>5. ~(Cardinality(Ports) < Cardinality(Open))
  BY <1>1, <1>3, <1>4, FS_PigeonHole
<1>6. ~(Cardinality(Open) < Cardinality(Ports))
  BY <1>2, <1>3, <1>4, FS_PigeonHole
<1>7. Cardinality(Open) \in Nat /\ Cardinality(Ports) \in Nat
  BY <1>3, <1>4, FS_CardinalityType, Zenon
<1> QED
  BY <1>5, <1>6, <1>7

\* The shape of the state; no two open sockets share a port.
THEOREM TypeCorrect == Spec => []TypeOK
<1>1. IInv => TypeOK
  BY AsManyPorts, Zenon DEF IInv, Sockets, Locals, Shared, TypeOK
<1> QED
  BY <1>1, RunsInvariant, PTL

\* Without overlap and duplicates the reflexive address reported is that of the
\* local port reported with it, over all three tests of any number of runs.
THEOREM PairsBelongTogether == Spec => []PairsMatch
<1>1. IInv => PairsMatch
  BY Zenon DEF IInv, Sequential, Matched, PairsMatch
<1> QED
  BY <1>1, RunsInvariant, PTL

\* Between runs udp_fd is closed, and only failed sends and overlapping runs
\* have left descriptors open.
THEOREM DescriptorsAccounted == Spec => []NoLeak
<1>1. IInv => NoLeak
  <2> SUFFICES ASSUME IInv, Quiet, Alive PROVE udp_fd = Closed /\ (overlap \/ Cardinality(Open) <= sendFailed)
    BY Zenon DEF NoLeak
  <2>1. udp_fd = Closed
    BY Zenon DEF IInv, Shared
  <2>2. \A t \in Threads : newfd[t] = Closed
    BY Zenon DEF IInv, Locals, Quiet, Running
  <2>3. Closed \notin Open
    BY SocketNames, Zenon DEF IInv, Sockets
  <2>4. Leaked = Open
    BY <2>1, <2>2, <2>3, Zenon DEF Leaked
  <2> QED
    BY <2>1, <2>4, Zenon DEF IInv, Sequential
<1> QED
  BY <1>1, RunsInvariant, PTL

\* A recv without a timeout has its answer coming, unless a datagram was lost,
\* the second port wrapped round or runs overlapped.
THEOREM ReceivesAnswered == Spec => []AnswerAhead
<1>1. IInv => AnswerAhead
  <2> SUFFICES ASSUME IInv, ~overlap, lost = 0, ~wrapped, NEW t \in Threads, At(t, "take")
               PROVE  \/ \E d \in inbox : d.sock = rfd[t]
                      \/ \E r \in requests : r.to = socks[rfd[t]]
    BY Zenon DEF AnswerAhead
  <2>1. pc[t] = "take" /\ Running(t) /\ pc[t] \in Flying
    BY Zenon DEF At, Running, Flying
  <2>2. Alone(t)
    BY <2>1, Current, Zenon
  <2>3. Owns(t) /\ Ahead(t)
    BY <2>1, <2>2, Zenon DEF Alone
  <2>4. newfd[t] = Closed
    BY <2>1, Zenon DEF IInv, Locals
  <2>5. rfd[t] = Awaited(t)
    BY <2>1, <2>3, <2>4, Zenon DEF Owns, Awaited
  <2> QED
    BY <2>3, <2>5, Zenon DEF Ahead
<1> QED
  BY <1>1, RunsInvariant, PTL
===============================================================================
