------------------------------ MODULE StunClient ------------------------------
(***************************************************************************)
(* run_stun and run_stunclient (cpp/stunclient/stun_manager.c): up to      *)
(* three Binding requests, the second from the old socket with its answer  *)
(* directed to a new one, the third from the new one.  There is no         *)
(* retransmission, no timeout and no comparison of transaction ids.  Every *)
(* press of the STUN button runs run_stun on a thread of its own, and the  *)
(* threads share udp_fd and real_local_addr.                               *)
(*                                                                         *)
(* Sockets are named <<thread, 1 or 2>>, so that the number of a closed    *)
(* descriptor is not reused; ports are, as soon as they are free.  The     *)
(* NAT maps a local port to a reflexive address one to one, so the port    *)
(* itself stands for that address.                                         *)
(***************************************************************************)
EXTENDS Integers, FiniteSets

CONSTANTS Threads,    \* runs of run_stun
          Ephemeral,  \* ports the kernel gives to unbound sockets
          MaxLoss,    \* bound: datagrams lost
          MaxNoise    \* bound: duplicated answers and datagrams of strangers

MaxPort == 2^16 - 1

ASSUME StunAssumption ==
  /\ Ephemeral \subseteq 1..MaxPort /\ MaxLoss \in Nat /\ MaxNoise \in Nat

VARIABLES
  pc, test,        \* where each thread is; 1, 2 or 3
  rfc5780,         \* each thread's flag
  local_port,      \* each thread's *port
  newfd,           \* each thread's new_udp_fd
  rfd,             \* the socket each thread's recv is on
  udp_fd,          \* global
  real_local_addr, \* global: its port, 0 for none
  socks,           \* open sockets: a partial function to their ports
  capable,         \* does the server send OTHER-ADDRESS?
  requests,        \* Binding requests on their way
  answers,         \* answers made, for the network to duplicate
  inbox,           \* datagrams waiting in a socket
  pairs,           \* reported (reflexive, local) pairs
  lost, noise, sendFailed, wrapped, overlap

thread == <<pc, test, rfc5780, local_port, newfd, rfd>>
network == <<requests, answers, inbox>>
counts == <<lost, noise, sendFailed, wrapped, overlap>>
vars == <<thread, udp_fd, real_local_addr, socks, capable, network, pairs, counts>>

Closed == <<"closed">>

Init ==
  /\ pc = [t \in Threads |-> "idle"] /\ test = [t \in Threads |-> 0]
  /\ rfc5780 = [t \in Threads |-> FALSE]
  /\ local_port = [t \in Threads |-> -1] /\ newfd = [t \in Threads |-> Closed]
  /\ rfd = [t \in Threads |-> Closed]
  /\ udp_fd = Closed /\ real_local_addr = 0 /\ socks = <<>>
  /\ capable \in BOOLEAN
  /\ requests = {} /\ answers = {} /\ inbox = {} /\ pairs = {}
  /\ lost = 0 /\ noise = 0 /\ sendFailed = 0 /\ wrapped = FALSE /\ overlap = FALSE

Goto(t, l) == pc' = [pc EXCEPT ![t] = l]
Open == DOMAIN socks
Ports == {socks[s] : s \in Open}
Running(t) == pc[t] \notin {"idle", "done", "exited"}
Alive == \A t \in Threads : pc[t] # "exited"
At(t, l) == Alive /\ pc[t] = l

With(s, p) == socks' = [x \in Open \cup {s} |-> IF x = s THEN p ELSE socks[x]]
\* closesocket: what waits in the socket is gone.
Close(s) ==
  /\ socks' = [x \in Open \ {s} |-> socks[x]]
  /\ inbox' = {d \in inbox : d.sock # s}

-------------------------------------------------------------------------------
(* run_stun *)

Begin(t) ==
  /\ At(t, "idle")
  /\ real_local_addr' = 0
  /\ test' = [test EXCEPT ![t] = 1]
  /\ overlap' = (overlap \/ \E u \in Threads \ {t} : Running(u))
  /\ Goto(t, "open")
  /\ UNCHANGED <<rfc5780, local_port, newfd, rfd, udp_fd, socks, capable, network, pairs,
                 lost, noise, sendFailed, wrapped>>

\* A socket unless there is one; bound if real_local_addr is set, and then to
\* a port that must be free, else err() ends the process.
OpenSocket(t) ==
  /\ At(t, "open") /\ udp_fd = Closed
  /\ LET s == <<t, 1>> IN
     \/ /\ real_local_addr = 0
        /\ \E p \in Ephemeral \ Ports : With(s, p)
        /\ udp_fd' = s /\ Goto(t, "second")
     \/ /\ real_local_addr # 0 /\ real_local_addr \notin Ports
        /\ With(s, real_local_addr)
        /\ udp_fd' = s /\ Goto(t, "second")
     \/ /\ real_local_addr # 0 /\ real_local_addr \in Ports
        /\ Goto(t, "exited")
        /\ UNCHANGED <<udp_fd, socks>>
  /\ UNCHANGED <<test, rfc5780, local_port, newfd, rfd, real_local_addr, capable, network, pairs, counts>>

UseSocket(t) ==
  /\ At(t, "open") /\ udp_fd # Closed
  /\ Goto(t, "second")
  /\ UNCHANGED <<test, rfc5780, local_port, newfd, rfd, udp_fd, real_local_addr, socks, capable,
                 network, pairs, counts>>

\* response_port = local_port + 1, as a 16-bit port number.
response_port(t) == (local_port[t] + 1) % (MaxPort + 1)

\* The second test opens a socket on response_port; 0 lets the kernel choose.
OpenSecond(t) ==
  /\ At(t, "second") /\ test[t] = 2
  /\ LET s == <<t, 2>>
         r == response_port(t)
     IN /\ real_local_addr' = r
        /\ wrapped' = (wrapped \/ r = 0)
        /\ \/ /\ \E p \in (IF r = 0 THEN Ephemeral ELSE {r}) \ Ports : With(s, p)
              /\ newfd' = [newfd EXCEPT ![t] = s] /\ Goto(t, "send")
           \/ /\ r \in Ports /\ Goto(t, "exited")
              /\ UNCHANGED <<newfd, socks>>
  /\ UNCHANGED <<test, rfc5780, local_port, rfd, udp_fd, capable, network, pairs,
                 lost, noise, sendFailed, overlap>>

NoSecond(t) ==
  /\ At(t, "second") /\ test[t] # 2
  /\ Goto(t, "send")
  /\ UNCHANGED <<test, rfc5780, local_port, newfd, rfd, udp_fd, real_local_addr, socks, capable,
                 network, pairs, counts>>

\* Mutant: the request of the second test lacks its RESPONSE-PORT.
SendPlain(t) ==
  /\ At(t, "send") /\ udp_fd \in Open
  /\ requests' = requests \cup
       {[from |-> socks[udp_fd], to |-> socks[udp_fd], test |-> <<t, test[t]>>]}
  /\ Goto(t, "name")
  /\ UNCHANGED <<test, rfc5780, local_port, newfd, rfd, udp_fd, real_local_addr, socks, capable,
                 answers, inbox, pairs, counts>>

\* One datagram, from udp_fd, to be answered to `to'.
Send(t) ==
  /\ At(t, "send") /\ udp_fd \in Open
  /\ requests' = requests \cup
       {[from |-> socks[udp_fd], to |-> IF test[t] = 2 THEN response_port(t) ELSE socks[udp_fd],
         test |-> <<t, test[t]>>]}
  /\ Goto(t, "name")
  /\ UNCHANGED <<test, rfc5780, local_port, newfd, rfd, udp_fd, real_local_addr, socks, capable,
                 answers, inbox, pairs, counts>>

\* sendto fails: run_stunclient returns before it looks after new_udp_fd.
SendFails(t) ==
  /\ At(t, "send")
  /\ sendFailed' = sendFailed + 1
  /\ newfd' = [newfd EXCEPT ![t] = Closed]
  /\ Goto(t, "next")
  /\ UNCHANGED <<test, rfc5780, local_port, rfd, udp_fd, real_local_addr, socks, capable, network, pairs,
                 lost, noise, wrapped, overlap>>

\* Mutant: the address is read from the socket that takes over.
ReadAddressOfNew(t) ==
  /\ At(t, "name")
  /\ LET s == IF newfd[t] = Closed THEN udp_fd ELSE newfd[t] IN
     IF s \in Open
     THEN real_local_addr' = socks[s] /\ local_port' = [local_port EXCEPT ![t] = socks[s]]
     ELSE UNCHANGED <<real_local_addr, local_port>>
  /\ Goto(t, IF newfd[t] = Closed THEN "recv" ELSE "swap")
  /\ UNCHANGED <<test, rfc5780, newfd, rfd, udp_fd, socks, capable, network, pairs, counts>>

\* addr_get_from_sock(udp_fd, &real_local_addr), still the old socket.
ReadAddress(t) ==
  /\ At(t, "name")
  /\ IF udp_fd \in Open
     THEN real_local_addr' = socks[udp_fd] /\ local_port' = [local_port EXCEPT ![t] = socks[udp_fd]]
     ELSE UNCHANGED <<real_local_addr, local_port>>
  /\ Goto(t, IF newfd[t] = Closed THEN "recv" ELSE "swap")
  /\ UNCHANGED <<test, rfc5780, newfd, rfd, udp_fd, socks, capable, network, pairs, counts>>

\* Mutant: the old socket is not closed.
SwapKeepsOld(t) ==
  /\ At(t, "swap")
  /\ Goto(t, "replace")
  /\ UNCHANGED <<test, rfc5780, local_port, newfd, rfd, udp_fd, real_local_addr, socks, capable,
                 network, pairs, counts>>

\* closesocket(udp_fd); udp_fd = new_udp_fd.
SwapClose(t) ==
  /\ At(t, "swap")
  /\ Close(udp_fd)
  /\ Goto(t, "replace")
  /\ UNCHANGED <<test, rfc5780, local_port, newfd, rfd, udp_fd, real_local_addr, capable,
                 requests, answers, pairs, counts>>

SwapSet(t) ==
  /\ At(t, "replace")
  /\ udp_fd' = newfd[t]
  /\ newfd' = [newfd EXCEPT ![t] = Closed]
  /\ Goto(t, "recv")
  /\ UNCHANGED <<test, rfc5780, local_port, rfd, real_local_addr, socks, capable, network, pairs, counts>>

RecvStart(t) ==
  /\ At(t, "recv")
  /\ rfd' = [rfd EXCEPT ![t] = udp_fd]
  /\ Goto(t, "take")
  /\ UNCHANGED <<test, rfc5780, local_port, newfd, udp_fd, real_local_addr, socks, capable,
                 network, pairs, counts>>

Reported(d) == [mapped |-> d.from, local |-> real_local_addr]

\* recv returns the first datagram there is; a Binding success is reported,
\* whichever request it answers.
Take(t) ==
  /\ At(t, "take")
  /\ \E d \in inbox :
       /\ d.sock = rfd[t]
       /\ inbox' = inbox \ {d}
       /\ pairs' = pairs \cup {Reported(d)}
  /\ rfc5780' = [rfc5780 EXCEPT ![t] = @ \/ capable]
  /\ Goto(t, "next")
  /\ UNCHANGED <<test, local_port, newfd, rfd, udp_fd, real_local_addr, socks, capable,
                 requests, answers, counts>>

\* An error answer, or a datagram that is no Binding answer: only logged.
TakeUnusable(t) ==
  /\ At(t, "take")
  /\ \E d \in inbox : d.sock = rfd[t] /\ inbox' = inbox \ {d}
  /\ Goto(t, "next")
  /\ UNCHANGED <<test, rfc5780, local_port, newfd, rfd, udp_fd, real_local_addr, socks, capable,
                 requests, answers, pairs, counts>>

\* recv on a descriptor that is closed, at the call or under it.
TakeFails(t) ==
  /\ At(t, "take") /\ rfd[t] \notin Open
  /\ Goto(t, "next")
  /\ UNCHANGED <<test, rfc5780, local_port, newfd, rfd, udp_fd, real_local_addr, socks, capable,
                 network, pairs, counts>>

\* Mutant: the third test is repeated as long as the server supports it.
NextTestRepeats(t) ==
  /\ At(t, "next")
  /\ IF rfc5780[t] \/ test[t] = 2
     THEN test' = [test EXCEPT ![t] = IF @ = 3 THEN 3 ELSE @ + 1] /\ Goto(t, "open")
     ELSE UNCHANGED test /\ Goto(t, "close")
  /\ UNCHANGED <<rfc5780, local_port, newfd, rfd, udp_fd, real_local_addr, socks, capable,
                 network, pairs, counts>>

\* run_stun: two more tests if the server supports them.
NextTest(t) ==
  /\ At(t, "next")
  /\ IF test[t] = 2 \/ (test[t] = 1 /\ rfc5780[t])
     THEN test' = [test EXCEPT ![t] = @ + 1] /\ Goto(t, "open")
     ELSE UNCHANGED test /\ Goto(t, "close")
  /\ UNCHANGED <<rfc5780, local_port, newfd, rfd, udp_fd, real_local_addr, socks, capable,
                 network, pairs, counts>>

CloseSocket(t) ==
  /\ At(t, "close")
  /\ Close(udp_fd)
  /\ Goto(t, "clear")
  /\ UNCHANGED <<test, rfc5780, local_port, newfd, rfd, udp_fd, real_local_addr, capable,
                 requests, answers, pairs, counts>>

ClearSocket(t) ==
  /\ At(t, "clear")
  /\ udp_fd' = Closed
  /\ Goto(t, "done")
  /\ UNCHANGED <<test, rfc5780, local_port, newfd, rfd, real_local_addr, socks, capable,
                 network, pairs, counts>>

-------------------------------------------------------------------------------
(* The network and the server, external *)

\* A datagram for port p reaches the socket bound to it, or nobody.
Deliver(a) == inbox' = inbox \cup
  {[sock |-> s, from |-> a.from, copy |-> noise', test |-> a.test] : s \in {x \in Open : socks[x] = a.to}}

Respond ==
  /\ \E m \in requests :
       /\ requests' = requests \ {m}
       /\ answers' = answers \cup {m}
       /\ UNCHANGED noise
       /\ Deliver(m)
  /\ UNCHANGED <<thread, udp_fd, real_local_addr, socks, capable, pairs,
                 lost, sendFailed, wrapped, overlap>>

Lose ==
  /\ lost < MaxLoss /\ lost' = lost + 1
  /\ \E m \in requests : requests' = requests \ {m}
  /\ UNCHANGED <<thread, udp_fd, real_local_addr, socks, capable, answers, inbox, pairs,
                 noise, sendFailed, wrapped, overlap>>

Duplicate ==
  /\ noise < MaxNoise /\ noise' = noise + 1
  /\ \E a \in answers : Deliver(a)
  /\ UNCHANGED <<thread, udp_fd, real_local_addr, socks, capable, requests, answers, pairs,
                 lost, sendFailed, wrapped, overlap>>

\* A datagram that answers nothing: recv on an unconnected socket takes it all
\* the same.  The address in it, if any, is none of the client's.
Stray ==
  /\ noise < MaxNoise /\ noise' = noise + 1
  /\ \E s \in Open :
       inbox' = inbox \cup {[sock |-> s, from |-> 0, copy |-> noise', test |-> <<>>]}
  /\ UNCHANGED <<thread, udp_fd, real_local_addr, socks, capable, requests, answers, pairs,
                 lost, sendFailed, wrapped, overlap>>

Step(t) ==
  \/ OpenSocket(t) \/ UseSocket(t) \/ OpenSecond(t) \/ NoSecond(t) \/ Send(t) \/ ReadAddress(t)
  \/ SwapClose(t) \/ SwapSet(t) \/ RecvStart(t) \/ Take(t) \/ TakeUnusable(t) \/ TakeFails(t) \/ NextTest(t)
  \/ CloseSocket(t) \/ ClearSocket(t)

Next ==
  \/ \E t \in Threads : Begin(t) \/ Step(t) \/ SendFails(t)
  \/ Respond \/ Lose \/ Duplicate \/ Stray

Spec == Init /\ [][Next]_vars

\* A thread that can go on does, and the server answers what reaches it.
FairSpec == Spec /\ (\A t \in Threads : WF_vars(Step(t))) /\ WF_vars(Respond)

-------------------------------------------------------------------------------
Socket == Threads \X {1, 2}
Quiet == \A t \in Threads : ~Running(t)

\* The shape of the state; no two open sockets share a port.
TypeOK ==
  /\ \A t \in Threads : test[t] \in 0..3 /\ newfd[t] \in Socket \cup {Closed}
  /\ udp_fd \in Socket \cup {Closed}
  /\ Open \subseteq Socket /\ real_local_addr \in 0..MaxPort
  /\ Cardinality(Ports) = Cardinality(Open)

\* A reported pair belongs together: the reflexive address is the mapping of
\* the local port reported with it, in all three tests, although the second
\* changes sockets between its request and its answer.  Only an answer that
\* the network duplicated, a stranger's datagram, or a second run on the same
\* udp_fd can mix pairs.
PairsMatch ==
  ~overlap /\ noise = 0 => \A p \in pairs : p.mapped = p.local

\* When no run is under way udp_fd is closed, so that the next run opens a
\* socket of its own, even after runs that overlapped; descriptors leak only
\* through a failed send or through overlapping runs.
NoLeak ==
  Quiet /\ Alive => udp_fd = Closed /\ (overlap \/ Cardinality(Open) <= sendFailed)

\* A receive that nothing bounds in time has an answer coming: the datagram is
\* there, or the request that will bring it to this very socket, although the
\* second test changes sockets and has the answer sent to the new one.  Only a
\* lost datagram, a second test whose port number wraps round, or another run
\* can leave run_stunclient in recv for good.
AnswerAhead ==
  ~overlap /\ lost = 0 /\ ~wrapped => \A t \in Threads :
    At(t, "take") /\ rfd[t] \in Open =>
      \/ \E d \in inbox : d.sock = rfd[t]
      \/ \E r \in requests : r.to = socks[rfd[t]]

\* A run of the tests ends, the process with it if it must, although it never
\* sends again and nothing bounds its receives: the cases AnswerAhead names are
\* the only ones in which it may not.
RunsEnd ==
  \A t \in Threads : Running(t) ~> ~Running(t) \/ ~Alive \/ lost > 0 \/ wrapped \/ overlap

===============================================================================
