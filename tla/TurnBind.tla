------------------------------- MODULE TurnBind -------------------------------
(***************************************************************************)
(* bind_client: bind_real with turn_channel_bind and                       *)
(* turn_create_permission (cpp/p2p/connect_manager.c), on a session whose  *)
(* allocation exists.  A request and its answer are a remote call as       *)
(* module Exchange promises it: the server may execute a request late and  *)
(* more than once, but the client only takes an answer to the request it   *)
(* is waiting on, or an error.  The server is external: it knows the       *)
(* nonce it expects, the channels it has bound and the permissions given.  *)
(***************************************************************************)
EXTENDS Naturals, FiniteSets

CONSTANTS Addresses,   \* addresses a user passes to bindClient
          Channels,    \* valid channel numbers
          NumBinds,    \* bound: calls of bind_client
          MaxRotate    \* bound: times the server changes its nonce

Any == "0.0.0.0:0"     \* peer_addr before it is set; encoded as this address
NoChannel == 0

ASSUME BindAssumption ==
  /\ NumBinds \in Nat /\ MaxRotate \in Nat
  /\ Any \notin Addresses /\ NoChannel \notin Channels

VARIABLES
  use_channel,        \* ~do_not_use_channel, fixed before the first session
  c2c, peer_addr,     \* globals
  pc,                 \* "idle", "send", "wait" or "exited"
  stage,              \* which request of bind_real is under way
  chn,                \* bind_real's chnum
  nonce,              \* clnet_info->nonce
  calls,              \* calls of bind_client so far
  asked,              \* the address of the last call, Any if it was ignored
  result,             \* how the last call ended
  requests, replies,  \* all requests sent; answers not discarded yet
  tid,                \* the transaction of the last request
  srvNonce, bound, permitted, \* the server
  reported            \* bindings that a call of bind_client completed

request == <<requests, tid>>
server == <<srvNonce, bound, permitted>>
call == <<calls, asked, stage, chn>>
bindVars == <<use_channel, c2c, peer_addr, pc, call, nonce, result, request, replies, server, reported>>

BindInit ==
  /\ use_channel \in BOOLEAN
  /\ c2c = FALSE /\ peer_addr = Any
  /\ pc = "idle" /\ stage = 0 /\ chn = NoChannel /\ nonce = 0
  /\ calls = 0 /\ asked = Any /\ result = "none"
  /\ requests = {} /\ replies = {} /\ tid = 0
  /\ srvNonce = 0 /\ bound = {} /\ permitted = {} /\ reported = {}

-------------------------------------------------------------------------------
(* The client *)

\* Another thread runs startUClient, whose set_c2c(1) nothing undoes.
SetC2c ==
  /\ ~c2c /\ c2c' = TRUE
  /\ UNCHANGED <<use_channel, peer_addr, pc, call, nonce, result, request, replies, server, reported>>

\* Mutant: the address is parsed only once, when peer_addr is still unset.
BindParsesOnce(a) ==
  /\ pc = "idle" /\ calls < NumBinds
  /\ calls' = calls + 1
  /\ peer_addr' = IF c2c \/ peer_addr # Any THEN peer_addr ELSE a
  /\ asked' = IF c2c THEN Any ELSE a
  /\ chn' = NoChannel
  /\ stage' = 1 /\ pc' = "send" /\ result' = "none"
  /\ UNCHANGED <<use_channel, c2c, nonce, request, replies, server, reported>>

\* bind_real: the address is parsed into the global peer_addr unless c2c.
Bind(a) ==
  /\ pc = "idle" /\ calls < NumBinds
  /\ calls' = calls + 1
  /\ peer_addr' = IF c2c THEN peer_addr ELSE a
  /\ asked' = IF c2c THEN Any ELSE a
  /\ chn' = NoChannel
  /\ stage' = 1 /\ pc' = "send" /\ result' = "none"
  /\ UNCHANGED <<use_channel, c2c, nonce, request, replies, server, reported>>

\* make_ioa_addr clears peer_addr before it fails to parse the address.
BindUnparsable ==
  /\ pc = "idle" /\ calls < NumBinds /\ ~c2c
  /\ calls' = calls + 1
  /\ peer_addr' = Any /\ asked' = Any
  /\ result' = "error"
  /\ UNCHANGED <<use_channel, c2c, pc, stage, chn, nonce, request, replies, server, reported>>

\* stun_set_channel_bind_request: a random channel in place of an invalid one.
ChannelFor(c) == IF c \in Channels THEN {c} ELSE Channels

Request(kind, c) ==
  [tid |-> tid + 1, call |-> calls, kind |-> kind, chn |-> c, peer |-> peer_addr, nonce |-> nonce]

\* Mutant: the channel drawn is not passed back through the pointer.
SendChannelBindByValue ==
  /\ use_channel /\ pc = "send"
  /\ \E c \in ChannelFor(chn) : requests' = requests \cup {Request("channel", c)}
  /\ tid' = tid + 1
  /\ pc' = "wait"
  /\ UNCHANGED <<use_channel, c2c, peer_addr, call, nonce, result, replies, server, reported>>

\* turn_channel_bind up to send_buffer, at every beg_bind again.
SendChannelBind ==
  /\ use_channel /\ pc = "send"
  /\ \E c \in ChannelFor(chn) :
       /\ chn' = c
       /\ requests' = requests \cup {Request("channel", c)}
  /\ tid' = tid + 1
  /\ pc' = "wait"
  /\ UNCHANGED <<use_channel, c2c, peer_addr, calls, asked, stage, nonce, result, replies, server, reported>>

\* turn_create_permission up to send_buffer, at every beg_cp again.
SendCreatePermission ==
  /\ ~use_channel /\ pc = "send"
  /\ requests' = requests \cup {Request("permission", NoChannel)}
  /\ tid' = tid + 1
  /\ pc' = "wait"
  /\ UNCHANGED <<use_channel, c2c, peer_addr, call, nonce, result, replies, server, reported>>

\* bind_real returns to its caller.
Finish(how) == pc' = "idle" /\ result' = how

\* add_integrity fails and both return; or a request cannot be sent, or recv_buffer
\* fails, and turn_channel_bind returns, turn_create_permission ends the process.
TransportFails ==
  /\ pc \in {"send", "wait"}
  /\ \/ (use_channel \/ pc = "send") /\ Finish("error")
     \/ ~use_channel /\ pc' = "exited" /\ UNCHANGED result
  /\ UNCHANGED <<use_channel, c2c, peer_addr, call, nonce, request, replies, server, reported>>

Got(kind) == {r \in replies : pc = "wait" /\ r.tid = tid /\ r.kind = kind}

\* bind_real makes the channel bind twice, the permission request once.
LastStage == stage = IF use_channel THEN 2 ELSE 1

\* Success with an integrity attribute that check_integrity can use.
Accepted ==
  /\ Got("success") # {}
  /\ IF LastStage
     THEN /\ Finish("ok")
          /\ reported' = reported \cup {<<chn, peer_addr>>}
          /\ UNCHANGED stage
     ELSE /\ stage' = stage + 1 /\ pc' = "send"
          /\ UNCHANGED <<result, reported>>
  /\ UNCHANGED <<use_channel, c2c, peer_addr, calls, asked, chn, nonce, request, replies, server>>

\* A challenge stores its nonce and goes back to beg_bind or beg_cp.
Challenged ==
  /\ \E r \in Got("challenge") : nonce' = r.nonce
  /\ pc' = "send"
  /\ UNCHANGED <<use_channel, c2c, peer_addr, call, result, request, replies, server, reported>>

\* Mutant: the error answer of the first request is taken for a success.
RejectedIgnored ==
  /\ Got("error") # {}
  /\ Finish("ok")
  /\ reported' = reported \cup {<<chn, peer_addr>>}
  /\ UNCHANGED <<use_channel, c2c, peer_addr, call, nonce, request, replies, server>>

\* Mutant: the error answer is treated like an unknown one, with its `continue'.
RejectedWaits ==
  /\ Got("error") # {}
  /\ UNCHANGED bindVars

\* An error answer; or a success without an integrity attribute that check_integrity
\* can use.
Rejected ==
  /\ Got("error") \cup Got("success") # {}
  /\ Finish("error")
  /\ UNCHANGED <<use_channel, c2c, peer_addr, call, nonce, request, replies, server, reported>>

-------------------------------------------------------------------------------
(* The server, external *)

Reply(m, kind) == replies' = replies \cup {[tid |-> m.tid, kind |-> kind, nonce |-> srvNonce]}

RotateNonce ==
  /\ srvNonce < MaxRotate
  /\ srvNonce' = srvNonce + 1
  /\ UNCHANGED <<use_channel, c2c, peer_addr, pc, call, nonce, result, request, replies, bound, permitted, reported>>

Challenge(m) ==
  /\ m.nonce # srvNonce
  /\ Reply(m, "challenge")
  /\ UNCHANGED <<use_channel, c2c, peer_addr, pc, call, nonce, result, request, server, reported>>

\* A channel stays with its peer and a peer with its channel.
Free(c, p) == \A b \in bound : b[1] = c <=> b[2] = p

\* A channel bind also installs a permission.
Execute(m) ==
  /\ m.nonce = srvNonce
  /\ m.kind = "channel" => Free(m.chn, m.peer)
  /\ bound' = IF m.kind = "channel" THEN bound \cup {<<m.chn, m.peer>>} ELSE bound
  /\ permitted' = permitted \cup {m.peer}
  /\ Reply(m, "success")
  /\ UNCHANGED <<use_channel, c2c, peer_addr, pc, call, nonce, result, request, srvNonce, reported>>

\* The server may refuse for reasons of its own (quota, forbidden peer), and
\* refuses a channel bind that conflicts with an earlier one.
Refuse(m) ==
  /\ m.nonce = srvNonce
  /\ Reply(m, "error")
  /\ UNCHANGED <<use_channel, c2c, peer_addr, pc, call, nonce, result, request, server, reported>>

ServerStep == \E m \in requests : Challenge(m) \/ Execute(m) \/ Refuse(m)

Respond == Accepted \/ Challenged \/ Rejected
Caller == SendChannelBind \/ SendCreatePermission \/ Respond

BindNext ==
  \/ SetC2c \/ (\E a \in Addresses : Bind(a)) \/ BindUnparsable
  \/ Caller \/ TransportFails
  \/ RotateNonce \/ ServerStep

BindSpec == BindInit /\ [][BindNext]_bindVars

\* The server answers the request being waited on, once.
Serve ==
  /\ \A r \in replies : r.tid # tid
  /\ \E m \in requests : m.tid = tid /\ (Challenge(m) \/ Execute(m) \/ Refuse(m))

\* The UI thread runs and the server answers.
BindFairSpec == BindSpec /\ WF_bindVars(Caller) /\ WF_bindVars(Serve)

-------------------------------------------------------------------------------
Peers == Addresses \cup {Any}
Kinds == {"channel", "permission"}

\* The shape of the state.
BindTypeOK ==
  /\ use_channel \in BOOLEAN /\ c2c \in BOOLEAN /\ peer_addr \in Peers /\ asked \in Peers
  /\ pc \in {"idle", "send", "wait", "exited"} /\ stage \in 0..2
  /\ chn \in Channels \cup {NoChannel}
  /\ nonce \in Nat /\ srvNonce \in Nat /\ calls \in Nat /\ tid \in Nat
  /\ result \in {"none", "ok", "error"}
  /\ requests \subseteq [tid : Nat, call : Nat, kind : Kinds,
                         chn : Channels \cup {NoChannel}, peer : Peers, nonce : Nat]
  /\ replies \subseteq [tid : Nat, kind : {"success", "challenge", "error"}, nonce : Nat]
  /\ bound \subseteq Channels \X Peers /\ permitted \subseteq Peers
  /\ reported \subseteq (Channels \cup {NoChannel}) \X Peers

\* All requests of one call of bind_client carry one channel number and one
\* peer, through every challenge and both channel binds; a second number would
\* make the server refuse a peer it has just bound.
OneBindingPerCall ==
  \A m, n \in requests : m.call = n.call => m.chn = n.chn /\ m.peer = n.peer

\* What bind_client reported as bound is bound at the server, with its
\* permission, and no late or repeated execution of an earlier call's requests
\* takes it away.
ReportedBound ==
  \A b \in reported : b[2] \in permitted /\ (use_channel => b \in bound)

\* A call that ends well, and whose address was not ignored because of c2c,
\* has bound that address and no other, whatever earlier calls left behind in
\* the global peer_addr.
AddressHonoured ==
  result = "ok" /\ asked # Any => <<chn, asked>> \in reported

\* A call of bind_client ends, although challenges are not counted: each one
\* needs a nonce that the server has meanwhile changed.
BindEnds == pc \in {"send", "wait"} ~> pc \in {"idle", "exited"}
===============================================================================
