----------------------------- MODULE PeerExchange -----------------------------
(***************************************************************************)
(* MainPresenter: the peer's addresses arrive over MQTT, one coroutine per *)
(* message writes them into fields without a lock, and the LAN, relay and  *)
(* reflexive modes each run a sender and a receiver job that read those    *)
(* fields.  Starting a mode cancels the jobs of all three; cancellation is *)
(* cooperative, and nobody waits for it.  The TURN and the STUN client run *)
(* in coroutines as well.  All of them share the threads of                *)
(* Dispatchers.Default; a blocked receive and a native call keep theirs.   *)
(*                                                                         *)
(* Addresses and ports are the number of the message, or of the run of the *)
(* STUN client, that brought them, 0 for null and for the port 0 the       *)
(* fields start with.  Type 0 stands for every message that is not of the *)
(* types 1 to 4.                                                           *)
(***************************************************************************)
EXTENDS Integers, FiniteSets

CONSTANTS Modes,      \* the modes whose buttons are pressed
          Types,      \* the types of message the peer sends
          MaxMsgs,    \* messages from the peer
          MaxPresses, \* presses of the buttons of the modes and the native clients
          MaxData,    \* datagrams that arrive
          Threads     \* the size of Dispatchers.Default

AllModes == {"lan", "relay", "reflexive"}

ASSUME PeerAssumption ==
  /\ Modes \subseteq AllModes /\ Types \subseteq 0..4
  /\ MaxMsgs \in Nat /\ MaxPresses \in Nat /\ MaxData \in Nat /\ Threads \in Nat

VARIABLES
  remote,     \* remoteLanAddr, remoteRelayAddr/Port, remoteReflexiveAddr/Port, remotePort
  localPort,  \* the port the STUN client reported last
  handlers,   \* the message coroutines that have not finished
  msgs,       \* messages so far
  last,       \* the last message of each type
  overlapped, \* types of which two coroutines ran at once
  job,        \* the job fields of each mode: the start that assigned them
  starts,     \* presses of the button of a mode so far
  jobs,       \* the state of every job ever launched
  native,     \* the coroutines in native code, by press
  destroyed,  \* onDestroy: "no", "asked", "done"
  sent,       \* where the last datagram was sent
  alive,      \* no exception has left a coroutine, no native code has called exit
  data        \* datagrams that have arrived

peer == <<remote, localPort, handlers, msgs, last, overlapped>>
acts == <<job, starts, jobs, native, destroyed, sent, alive, data>>
vars == <<peer, acts>>

Fields == {"lanAddr", "relayAddr", "relayPort", "reflexiveAddr", "reflexivePort", "port"}

Init ==
  /\ remote = [f \in Fields |-> 0] /\ localPort = 0
  /\ handlers = {} /\ msgs = 0 /\ last = [t \in 0..4 |-> 0] /\ overlapped = {}
  /\ job = [m \in AllModes |-> 0] /\ starts = 0
  /\ jobs = <<>> /\ native = <<>>
  /\ destroyed = "no" /\ sent = {} /\ alive = TRUE /\ data = 0

Presses == starts + Cardinality(DOMAIN native)

-------------------------------------------------------------------------------
(* Threads *)

\* A coroutine keeps its thread until it suspends (delay) or ends.
Running(j) == j.st \in {"test", "send", "blocked"}

Calling == {n \in DOMAIN native : native[n].st = "running"}

\* Dispatchers.Default has a thread for a coroutine that is to be resumed.
ThreadFree ==
  Cardinality({i \in DOMAIN jobs : Running(jobs[i])}) + Cardinality(Calling)
    + Cardinality({h \in handlers : h.half}) < Threads

-------------------------------------------------------------------------------
(* The peer's messages *)

\* msgHandler launches a coroutine for every message.
Arrive(t) ==
  /\ alive /\ msgs < MaxMsgs
  /\ msgs' = msgs + 1
  /\ last' = [last EXCEPT ![t] = msgs + 1]
  /\ handlers' = handlers \cup {[id |-> msgs + 1, type |-> t, half |-> FALSE]}
  /\ overlapped' = overlapped \cup ({t} \cap {h.type : h \in handlers})
  /\ UNCHANGED <<remote, localPort, acts>>

AddrField(t) == CASE t = 1 -> "lanAddr" [] t = 2 -> "relayAddr" [] t = 3 -> "reflexiveAddr"
PortField(t) == CASE t = 2 -> "relayPort" [] t = 3 -> "reflexivePort" [] t = 4 -> "port"

\* Mutant: type 1 goes on to a port as well.
WriteAddrGoesOn(h) ==
  /\ alive /\ h \in handlers /\ ~h.half /\ h.type \in 1..3 /\ ThreadFree
  /\ remote' = [remote EXCEPT ![AddrField(h.type)] = h.id]
  /\ handlers' = (handlers \ {h}) \cup {[h EXCEPT !.half = TRUE]}
  /\ UNCHANGED <<localPort, msgs, last, overlapped, acts>>

\* The first assignment of types 1 to 3; type 1 has no other.
WriteAddr(h) ==
  /\ alive /\ h \in handlers /\ ~h.half /\ h.type \in 1..3 /\ ThreadFree
  /\ remote' = [remote EXCEPT ![AddrField(h.type)] = h.id]
  /\ handlers' = (handlers \ {h}) \cup (IF h.type = 1 THEN {} ELSE {[h EXCEPT !.half = TRUE]})
  /\ UNCHANGED <<localPort, msgs, last, overlapped, acts>>

\* Mutant: the port is kept once it is known.
WritePortOnce(h) ==
  /\ alive /\ h \in handlers /\ (h.half \/ (h.type = 4 /\ ThreadFree))
  /\ remote' = [remote EXCEPT ![PortField(h.type)] = IF @ = 0 THEN h.id ELSE @]
  /\ handlers' = handlers \ {h}
  /\ UNCHANGED <<localPort, msgs, last, overlapped, acts>>

WritePort(h) ==
  /\ alive /\ h \in handlers /\ (h.half \/ (h.type = 4 /\ ThreadFree))
  /\ remote' = [remote EXCEPT ![PortField(h.type)] = h.id]
  /\ handlers' = handlers \ {h}
  /\ UNCHANGED <<localPort, msgs, last, overlapped, acts>>

\* A field is missing and getInt or getString throws, which nobody catches; or
\* when has no branch for the type.
HandlerRejects(h) ==
  /\ alive /\ h \in handlers /\ h.type = 0 /\ ThreadFree
  /\ handlers' = handlers \ {h}
  /\ alive' \in BOOLEAN
  /\ UNCHANGED <<remote, localPort, msgs, last, overlapped, job, starts, jobs, native, destroyed, sent, data>>

-------------------------------------------------------------------------------
(* The native clients *)

\* startUClient, startStunClient
StartCall(kind) ==
  /\ alive /\ destroyed = "no" /\ Presses < MaxPresses
  /\ LET k == Cardinality(DOMAIN native) + 1 IN
     native' = [n \in 1..k |-> IF n = k THEN [kind |-> kind, st |-> "launched"] ELSE native[n]]
  /\ UNCHANGED <<peer, job, starts, jobs, destroyed, sent, alive, data>>

CallBegins(n) ==
  /\ alive /\ n \in DOMAIN native /\ native[n].st = "launched" /\ ThreadFree
  /\ native' = [native EXCEPT ![n].st = "running"]
  /\ UNCHANGED <<peer, job, starts, jobs, destroyed, sent, alive, data>>

\* onIP with type 4, from the STUN client, as often as it runs a test.
LocalPort(n) ==
  /\ alive /\ n \in Calling /\ native[n].kind = "stun"
  /\ localPort' = n
  /\ UNCHANGED <<remote, handlers, msgs, last, overlapped, acts>>

\* Native code returns, or gives up with exit.
CallEnds(n) ==
  /\ alive /\ n \in Calling
  /\ \/ native' = [native EXCEPT ![n].st = "ended"] /\ alive' = alive
     \/ native' = native /\ alive' = FALSE
  /\ UNCHANGED <<peer, job, starts, jobs, destroyed, sent, data>>

-------------------------------------------------------------------------------
(* The buttons *)

\* Mutant: cancelAllJob leaves out one mode.
CancelTwoModes(j) == j.start \in {job["relay"], job["reflexive"]}

\* cancelAllJob cancels the jobs the fields hold.
CancelAllJob(j) == j.start \in {job[m] : m \in AllModes}

Cancelled(js) == [i \in DOMAIN js |-> IF CancelAllJob(js[i]) THEN [js[i] EXCEPT !.active = FALSE] ELSE js[i]]

NewJob(mode, kind) ==
  [start |-> starts + 1, mode |-> mode, kind |-> kind, st |-> "launched",
   active |-> TRUE, addr |-> 0, stale |-> 0]

\* startLocalUDP, startRelayUDP, startReflexiveUDP: cancel, then launch two.
StartUDP(mode) ==
  /\ alive /\ destroyed = "no" /\ Presses < MaxPresses
  /\ starts' = starts + 1
  /\ LET n == 2 * starts IN
     jobs' = [i \in 1..(n + 2) |-> IF i <= n THEN Cancelled(jobs)[i]
                                  ELSE NewJob(mode, IF i = n + 1 THEN "send" ELSE "receive")]
  /\ job' = [job EXCEPT ![mode] = starts + 1]
  /\ UNCHANGED <<peer, native, destroyed, sent, alive, data>>

\* destroy launches a coroutine that cancels.
Destroy ==
  /\ alive /\ destroyed = "no"
  /\ destroyed' = "asked"
  /\ UNCHANGED <<peer, job, starts, jobs, native, sent, alive, data>>

DestroyCancels ==
  /\ alive /\ destroyed = "asked" /\ ThreadFree
  /\ destroyed' = "done"
  /\ jobs' = Cancelled(jobs)
  /\ UNCHANGED <<peer, job, starts, native, sent, alive, data>>

-------------------------------------------------------------------------------
(* The jobs *)

At(i, kind, st) == alive /\ i \in DOMAIN jobs /\ jobs[i].kind = kind /\ jobs[i].st = st
Goto(i, st) == jobs' = [jobs EXCEPT ![i].st = st]

\* A coroutine that is cancelled before it is dispatched does not run.
NeverRuns(i) ==
  /\ alive /\ i \in DOMAIN jobs /\ jobs[i].st = "launched" /\ ~jobs[i].active /\ ThreadFree
  /\ Goto(i, "ended")
  /\ UNCHANGED <<peer, job, starts, native, destroyed, sent, alive, data>>

\* The tests before a sender opens its socket.
SenderKnows(mode) ==
  CASE mode = "lan"       -> remote["lanAddr"] # 0 /\ localPort # 0
    [] mode = "relay"     -> remote["relayAddr"] # 0 /\ remote["relayPort"] # 0
    [] mode = "reflexive" -> remote["reflexiveAddr"] # 0 /\ remote["reflexivePort"] # 0

\* What the DatagramPacket is built from.
TargetAddr(mode) == IF mode = "lan" THEN remote["lanAddr"] ELSE remote["relayAddr"]
TargetPort(mode) ==
  CASE mode = "lan" -> localPort [] mode = "relay" -> remote["port"]
    [] mode = "reflexive" -> remote["reflexivePort"]

\* Mutant: the sender waits on its thread for an address in place of returning.
SenderBeginsWaits(i) ==
  /\ At(i, "send", "launched") /\ jobs[i].active /\ ThreadFree
  /\ Goto(i, IF SenderKnows(jobs[i].mode) THEN "test" ELSE "blocked")
  /\ UNCHANGED <<peer, job, starts, native, destroyed, sent, alive, data>>

SenderBegins(i) ==
  /\ At(i, "send", "launched") /\ jobs[i].active /\ ThreadFree
  /\ Goto(i, IF SenderKnows(jobs[i].mode) THEN "test" ELSE "ended")
  /\ UNCHANGED <<peer, job, starts, native, destroyed, sent, alive, data>>

\* while (isActive), and the address for the packet
SenderTests(i) ==
  /\ At(i, "send", "test")
  /\ jobs' = [jobs EXCEPT ![i].st = IF jobs[i].active THEN "send" ELSE "ended",
                          ![i].addr = TargetAddr(jobs[i].mode)]
  /\ UNCHANGED <<peer, job, starts, native, destroyed, sent, alive, data>>

\* Mutant: no delay between two datagrams.
SendsNoDelay(i) ==
  /\ At(i, "send", "send")
  /\ sent' = {[addr |-> jobs[i].addr, port |-> TargetPort(jobs[i].mode)]}
  /\ Goto(i, "test")
  /\ UNCHANGED <<peer, job, starts, native, destroyed, alive, data>>

\* The port, and send.
Sends(i) ==
  /\ At(i, "send", "send")
  /\ sent' = {[addr |-> jobs[i].addr, port |-> TargetPort(jobs[i].mode)]}
  /\ Goto(i, "delay")
  /\ UNCHANGED <<peer, job, starts, native, destroyed, alive, data>>

\* The name does not resolve, send fails: only the reflexive sender catches,
\* elsewhere the exception ends the app.
SendThrows(i) ==
  /\ At(i, "send", "send")
  /\ alive' = (jobs[i].mode = "reflexive")
  /\ Goto(i, "delay")
  /\ UNCHANGED <<peer, job, starts, native, destroyed, sent, data>>

\* delay(1000) ends early in a job that is cancelled.
SenderDelayed(i) ==
  /\ At(i, "send", "delay") /\ ThreadFree
  /\ Goto(i, IF jobs[i].active THEN "test" ELSE "ended")
  /\ UNCHANGED <<peer, job, starts, native, destroyed, sent, alive, data>>

\* The LAN receiver listens on the remote port, the others on the local one.
\* The reflexive one binds a socket that is bound already: bind throws.
ReceiverBegins(i) ==
  /\ At(i, "receive", "launched") /\ jobs[i].active /\ ThreadFree
  /\ LET known == IF jobs[i].mode = "lan" THEN remote["port"] # 0 ELSE localPort # 0 IN
     \/ known /\ jobs[i].mode # "reflexive" /\ Goto(i, "test")
     \/ Goto(i, "ended")
  /\ UNCHANGED <<peer, job, starts, native, destroyed, sent, alive, data>>

ReceiverTests(i) ==
  /\ At(i, "receive", "test")
  /\ Goto(i, IF jobs[i].active THEN "blocked" ELSE "ended")
  /\ UNCHANGED <<peer, job, starts, native, destroyed, sent, alive, data>>

\* receive returns a datagram and shows it, in a cancelled job as well.
Receives(i) ==
  /\ At(i, "receive", "blocked") /\ data < MaxData
  /\ data' = data + 1
  /\ jobs' = [jobs EXCEPT ![i].st = "test", ![i].stale = jobs[i].stale + (IF jobs[i].active THEN 0 ELSE 1)]
  /\ UNCHANGED <<peer, job, starts, native, destroyed, sent, alive>>

-------------------------------------------------------------------------------
Runs(i) ==
  \/ NeverRuns(i) \/ SenderBegins(i) \/ SenderTests(i) \/ Sends(i) \/ SendThrows(i)
  \/ SenderDelayed(i) \/ ReceiverBegins(i) \/ ReceiverTests(i)

Handles(h) == WriteAddr(h) \/ WritePort(h) \/ HandlerRejects(h)

Next ==
  \/ \E t \in Types : Arrive(t)
  \/ \E h \in handlers : Handles(h)
  \/ \E kind \in {"turn", "stun"} : StartCall(kind)
  \/ \E n \in DOMAIN native : CallBegins(n) \/ LocalPort(n) \/ CallEnds(n)
  \/ \E m \in Modes : StartUDP(m)
  \/ Destroy \/ DestroyCancels
  \/ \E i \in DOMAIN jobs : Runs(i) \/ Receives(i)

Spec == Init /\ [][Next]_vars

\* A coroutine that has a thread goes on, unless it is in a blocking call.  The
\* dispatcher's queue is first in first out: if threads keep becoming free, it comes
\* to the coroutines of the messages and of destroy.
FairSpec ==
  /\ Spec
  /\ \A i \in 1..(2 * MaxPresses) :
       WF_vars(i \in DOMAIN jobs /\ (SenderTests(i) \/ Sends(i) \/ SendThrows(i) \/ ReceiverTests(i)))
  /\ SF_vars((\E h \in handlers : Handles(h)) \/ DestroyCancels)

-------------------------------------------------------------------------------
JobStates == {"launched", "test", "send", "delay", "blocked", "ended"}

\* The shape of the state.
TypeOK ==
  /\ remote \in [Fields -> 0..MaxMsgs] /\ localPort \in 0..MaxPresses
  /\ \A h \in handlers : h.id \in 1..msgs /\ h.type \in Types /\ (h.half => h.type \in {2, 3})
  /\ DOMAIN jobs = 1..(2 * starts)
  /\ \A i \in DOMAIN jobs : jobs[i].st \in JobStates /\ jobs[i].start = (i + 1) \div 2
  /\ DOMAIN native \subseteq 1..MaxPresses
  /\ \A n \in DOMAIN native : native[n].kind \in {"turn", "stun"} /\ native[n].st \in {"launched", "running", "ended"}
  /\ destroyed \in {"no", "asked", "done"} /\ alive \in BOOLEAN /\ data \in 0..MaxData

\* What cancelAllJob is for: a job that has not been cancelled belongs to the
\* start pressed last, and after destroy has run there is none.  A receiver sits
\* in a blocking receive when it is cancelled; it shows at most one more datagram
\* before it tests isActive.
Superseded ==
  \A i \in DOMAIN jobs :
    /\ jobs[i].active => jobs[i].start = starts /\ destroyed # "done"
    /\ jobs[i].stale <= 1

\* The fields hold the last message of a type, address and port alike, once its
\* coroutine has run, unless coroutines of that type ran side by side; then any
\* message may win, and an address may stay with another message's port.
NewestKept ==
  \A t \in (Types \cap 1..4) \ overlapped : (\A h \in handlers : h.type # t) =>
    /\ t # 4 => remote[AddrField(t)] = last[t]
    /\ t # 1 => remote[PortField(t)] = last[t]

\* "has not get remote address or remote port yet!!!": a sender sends only to an
\* address and a port it has been told.
SendsToReceived == \A to \in sent : to.addr # 0 /\ to.port # 0

\* The threads that blocking calls hold: receivers in receive, cancelled or not,
\* and native calls.
Held == Cardinality({i \in DOMAIN jobs : jobs[i].st = "blocked"}) + Cardinality(Calling)

\* Every press of a button costs at most one thread for good: with fewer presses
\* than threads, blocking calls never hold all of them.
ThreadsRemain == Presses < Threads => Held < Threads

\* As long as blocking calls do not hold every thread for ever, the messages of
\* the peer are applied and destroy cancels the jobs, unless the app has died.
HandlersFinish ==
  []<>(Held < Threads) =>
    (alive /\ (handlers # {} \/ destroyed = "asked")) ~> (~alive \/ (handlers = {} /\ destroyed # "asked"))
===============================================================================
