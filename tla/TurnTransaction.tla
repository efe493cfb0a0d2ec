---------------------------- MODULE TurnTransaction ----------------------------
(***************************************************************************)
(* One request/response exchange of the TURN client over plain UDP:        *)
(* send_buffer, then recv_buffer with its wait_fd retransmission loop      *)
(* (cpp/p2p/p2p_client.c), over a network that loses, duplicates, delays   *)
(* and reorders datagrams, and a server that answers every copy it gets.   *)
(*                                                                         *)
(* The caller makes NumTx requests one after the other on the same socket, *)
(* so the late answers of one transaction are strays of the next.  The     *)
(* 96-bit random transaction id is the number of the transaction: fresh    *)
(* ids do not collide.  Transaction id 0 stands for ids the client never   *)
(* drew.                                                                   *)
(***************************************************************************)
EXTENDS Naturals, Sequences

CONSTANTS Methods,   \* STUN methods the caller uses
          MaxCycle,  \* MAX_LISTENING_CYCLE_NUMBER
          NumTx,     \* bound: transactions the caller makes
          QueueCap,  \* bound: datagrams the socket buffer holds
          MaxLoss,   \* bound: datagrams the network loses
          MaxNoise   \* bound: duplicated and unsolicited datagrams

ASSUME TxAssumption ==
  /\ MaxCycle \in Nat \ {0}
  /\ {NumTx, QueueCap, MaxLoss, MaxNoise} \subseteq Nat
  /\ "none" \notin Methods

VARIABLES
  script,     \* the method of each request, in the order of the calls
  selectable, \* fd < FD_SETSIZE, so that wait_fd can select on it
  phase,      \* where recv_buffer is: "idle" (not called), "select", "recv"
  cur,        \* the current transaction
  cycle,      \* recv_buffer's retransmission cycle
  ret,        \* how the last recv_buffer returned
  sent,       \* copies of the current request sent so far
  strays,     \* datagrams of other transactions recv_buffer has skipped
  requests,   \* copies of requests on their way to the server
  replies,    \* answers on their way back
  rcvd,       \* the socket's receive buffer
  served,     \* transactions the server has answered
  lost, noise \* what the network has done so far

client == <<phase, cur, cycle, ret, sent, strays>>
network == <<requests, replies, rcvd, served, lost, noise>>
txVars == <<script, selectable, client, network>>

Tids == 1..NumTx
Request == [tid : Tids, copy : Nat]
Message == [tid : 0..NumTx, method : Methods \cup {"none"}, copy : Nat]

\* A datagram without payload: recv returns 0.
Empty == [tid |-> 0, method |-> "none", copy |-> 0]

\* Mutant: the transaction id is not compared, as if memcmp were dropped.
MethodOnly(m) == m.method = script[cur]

\* stun_tid_from_message and stun_get_method of a datagram against those of
\* the request (an answer carries the id and the method of its request).
Matches(m) == m.tid = cur /\ m.method = script[cur]

TxInit ==
  /\ script \in [Tids -> Methods]
  /\ selectable \in BOOLEAN
  /\ phase = "idle" /\ cur = 0 /\ cycle = 0 /\ ret = "none"
  /\ sent = 0 /\ strays = 0
  /\ requests = {} /\ replies = {} /\ rcvd = <<>> /\ served = {}
  /\ lost = 0 /\ noise = 0

-------------------------------------------------------------------------------
(* The client *)

Return(how) == phase' = "idle" /\ ret' = how

\* One more copy of the current request leaves through send_buffer.
Send(tid, n) == requests' = requests \cup {[tid |-> tid, copy |-> n]}

\* The caller builds a request with a fresh id, sends it and enters
\* recv_buffer.
Issue ==
  /\ phase = "idle" /\ cur < NumTx
  /\ cur' = cur + 1
  /\ Send(cur + 1, 1)
  /\ phase' = "select" /\ cycle' = 0 /\ sent' = 1 /\ strays' = 0
  /\ UNCHANGED <<script, selectable, ret, replies, rcvd, served, lost, noise>>

\* send_buffer fails: the caller gives up without calling recv_buffer.
IssueFails ==
  /\ phase = "idle" /\ cur < NumTx
  /\ cur' = cur + 1
  /\ ret' = "error"
  /\ UNCHANGED <<script, selectable, phase, cycle, sent, strays, network>>

\* wait_fd reports a readable socket; for a descriptor select cannot take it
\* does so without looking.
SelectReady ==
  /\ phase = "select" /\ cycle < MaxCycle
  /\ selectable => rcvd # <<>>
  /\ phase' = "recv"
  /\ UNCHANGED <<script, selectable, cur, cycle, ret, sent, strays, network>>

\* Mutant: ++cycle is missing.
TimeoutWithoutCount ==
  /\ phase = "select" /\ cycle < MaxCycle
  /\ selectable /\ rcvd = <<>>
  /\ Send(cur, sent + 1)
  /\ sent' = sent + 1
  /\ UNCHANGED <<script, selectable, phase, cur, cycle, ret, strays, replies, rcvd, served, lost, noise>>

\* Mutant: the timeout does not send the request again.
TimeoutSilent ==
  /\ phase = "select" /\ cycle < MaxCycle
  /\ selectable /\ rcvd = <<>>
  /\ sent' = sent + 1
  /\ cycle' = cycle + 1
  /\ UNCHANGED <<script, selectable, phase, cur, ret, strays, network>>

\* wait_fd times out: the request is sent again and the next wait is longer.
SelectTimeout ==
  /\ phase = "select" /\ cycle < MaxCycle
  /\ selectable /\ rcvd = <<>>
  /\ Send(cur, sent + 1)
  /\ sent' = sent + 1
  /\ cycle' = cycle + 1
  /\ UNCHANGED <<script, selectable, phase, cur, ret, strays, replies, rcvd, served, lost, noise>>

\* select fails, or the retransmission cannot be sent.
SelectError ==
  /\ phase = "select" /\ cycle < MaxCycle /\ selectable
  /\ Return("error")
  /\ UNCHANGED <<script, selectable, cur, cycle, sent, strays, network>>

\* All the cycles are used up: fall through to the recv without a timeout.
CyclesExhausted ==
  /\ phase = "select" /\ cycle = MaxCycle
  /\ phase' = "recv"
  /\ UNCHANGED <<script, selectable, cur, cycle, ret, sent, strays, network>>

\* recv takes the next datagram.  An empty one makes recv_buffer return 0, a
\* matching one is returned, any other restarts the whole wait.
Recv ==
  /\ phase = "recv" /\ rcvd # <<>>
  /\ rcvd' = Tail(rcvd)
  /\ \/ /\ Head(rcvd) = Empty
        /\ Return("error")
        /\ UNCHANGED <<cycle, strays>>
     \/ /\ Matches(Head(rcvd))
        /\ Return("reply")
        /\ UNCHANGED <<cycle, strays>>
     \/ /\ Head(rcvd) # Empty /\ ~Matches(Head(rcvd))
        /\ phase' = "select" /\ cycle' = 0 /\ strays' = strays + 1
        /\ UNCHANGED ret
  /\ UNCHANGED <<script, selectable, cur, sent, requests, replies, served, lost, noise>>

\* recv fails with an error other than EINTR and EAGAIN (a port-unreachable
\* reported on the connected socket, for instance).
RecvError ==
  /\ phase = "recv"
  /\ Return("error")
  /\ UNCHANGED <<script, selectable, cur, cycle, sent, strays, network>>

-------------------------------------------------------------------------------
(* The server and the network *)

ServerReplies ==
  /\ \E r \in requests :
       /\ requests' = requests \ {r}
       /\ replies' = replies \cup
            {[tid |-> r.tid, method |-> script[r.tid], copy |-> r.copy]}
       /\ served' = served \cup {r.tid}
  /\ UNCHANGED <<script, selectable, client, rcvd, lost, noise>>

Deliver ==
  /\ Len(rcvd) < QueueCap
  /\ \E m \in replies :
       /\ rcvd' = Append(rcvd, m)
       /\ replies' = replies \ {m}
  /\ UNCHANGED <<script, selectable, client, requests, served, lost, noise>>

\* An answer arrives and another copy of it is still under way.
DeliverDuplicate ==
  /\ Len(rcvd) < QueueCap /\ noise < MaxNoise
  /\ \E m \in replies : rcvd' = Append(rcvd, m)
  /\ noise' = noise + 1
  /\ UNCHANGED <<script, selectable, client, requests, replies, served, lost>>

\* A datagram nobody asked for: an indication, peer data, an empty one.
Unsolicited ==
  /\ Len(rcvd) < QueueCap /\ noise < MaxNoise
  /\ \E mth \in Methods \cup {"none"} :
       rcvd' = Append(rcvd, [tid |-> 0, method |-> mth, copy |-> 0])
  /\ noise' = noise + 1
  /\ UNCHANGED <<script, selectable, client, requests, replies, served, lost>>

Lose ==
  /\ lost < MaxLoss
  /\ lost' = lost + 1
  /\ \/ \E r \in requests : requests' = requests \ {r} /\ UNCHANGED replies
     \/ \E m \in replies : replies' = replies \ {m} /\ UNCHANGED requests
  /\ UNCHANGED <<script, selectable, client, rcvd, served, noise>>

-------------------------------------------------------------------------------
Client == \/ Issue \/ IssueFails
          \/ SelectReady \/ SelectTimeout \/ SelectError \/ CyclesExhausted
          \/ Recv \/ RecvError

Network == ServerReplies \/ Deliver \/ DeliverDuplicate \/ Unsolicited \/ Lose

TxNext == Client \/ Network

TxSpec == TxInit /\ [][TxNext]_txVars

(* recv_buffer never stops by itself between two system calls, a timeout   *)
(* expires, and a datagram the network does not lose arrives.              *)
TxFairness ==
  /\ WF_txVars(SelectReady \/ SelectTimeout \/ CyclesExhausted \/ Recv)
  /\ WF_txVars(ServerReplies)
  /\ WF_txVars(Deliver)

-------------------------------------------------------------------------------
(* Properties *)

TxTypeOK ==
  /\ script \in [Tids -> Methods]
  /\ selectable \in BOOLEAN
  /\ phase \in {"idle", "select", "recv"}
  /\ cur \in 0..NumTx
  /\ cycle \in 0..MaxCycle
  /\ ret \in {"none", "reply", "error"}
  /\ sent \in Nat /\ strays \in Nat
  /\ requests \subseteq Request
  /\ replies \subseteq Message
  /\ rcvd \in Seq(Message)
  /\ served \subseteq Tids
  /\ lost \in Nat /\ noise \in Nat

\* recv_buffer's `goto recv_again' restarts the seven cycles, so a request is
\* retransmitted at most MaxCycle times for every datagram skipped, plus the
\* cycles of the current wait: strays, and only strays, buy more copies.
RetransmissionBound ==
  phase # "idle" => sent <= 1 + MaxCycle * strays + cycle

\* The recv at the end of recv_buffer has no timeout of its own.  On a
\* descriptor select can watch, the client only gets to sit in it with an
\* empty receive buffer after it has sent every one of its copies.
BlocksOnlyExhausted ==
  (phase = "recv" /\ selectable /\ rcvd = <<>>) => (cycle = MaxCycle /\ sent > MaxCycle)

\* send_buffer and recv_buffer implement a remote call: a reply handed to the
\* caller is the server's answer to that call, however many late duplicates
\* of earlier transactions the socket delivers.
Abstract == INSTANCE Exchange WITH
  call <- cur, pending <- phase # "idle", answered <- served, last <- ret

ImplementsExchange == Abstract!ESpec

\* recv_buffer returns, unless it sits in the recv without a timeout: after the
\* network has lost more datagrams than there are retransmissions in a wait, or
\* on a descriptor that select cannot watch.
Returns ==
  phase # "idle" ~> \/ phase = "idle"
                 \/ /\ phase = "recv" /\ rcvd = <<>>
                    /\ lost > MaxCycle \/ ~selectable
===============================================================================
