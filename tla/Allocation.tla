------------------------------ MODULE Allocation ------------------------------
(***************************************************************************)
(* How a session obtains its relay address: clnet_connect, clnet_allocate  *)
(* and the two functions that call them in sequence, start_connection and  *)
(* start_c2c_connection (cpp/p2p/connect_manager.c), against a TURN server.*)
(*                                                                         *)
(* Each request is a remote call in the sense of module Exchange: it may   *)
(* be executed late, its answer may be lost, recv_buffer retransmits it,   *)
(* and only the answer to the current call is returned.  Sessions are      *)
(* started one after the other, because two statics survive a session:     *)
(* allocate_rtcp and current_reservation_token.  Plain UDP or plain TCP.   *)
(* `dos', which only the load tester sets, is 0; bps, dont_fragment and    *)
(* origin only add attributes.                                             *)
(***************************************************************************)
EXTENDS Integers

CONSTANTS MaxAttempts, \* 32, the bound of both loops of clnet_allocate
          UseTcp,      \* use_tcp
          NoRtcp,      \* no_rtcp
          Nonces,      \* nonces of the server
          NumSessions, \* bound: sessions started
          MaxFault     \* bound: datagrams lost, failing calls, odd answers

ASSUME AllocAssumption ==
  /\ MaxAttempts \in Nat \ {0}
  /\ {UseTcp, NoRtcp} \subseteq BOOLEAN
  /\ Nonces \subseteq Nat \ {0}
  /\ {NumSessions, MaxFault} \subseteq Nat

VARIABLES
  n, pc,           \* sessions started; where the code is
  next,            \* where clnet_connect was called from
  af_cycle, reopen_socket,
  fd, oldfd,       \* clnet_info->fd; a socket to close after the reconnect
  nonce,           \* clnet_info->nonce, 0 when empty
  s_mobile_id,     \* the mobility ticket, 0 when empty
  relay_addr,      \* clnet_info->relay_addr, 0 when unset
  shown,           \* the relay address last given to notify_ip
  allocate_rtcp, current_reservation_token,
  request,         \* request_message
  skip,            \* is the next answer to be overwritten unread?
  tries,           \* requests built in the current loop
  open, made,      \* open sockets; sockets created so far
  leaked,          \* sockets clnet_connect left behind
  past,            \* sockets of the sessions before, never closed
  call, wire,      \* requests made so far; copies not yet executed
  reply,           \* the answer to the current call
  alloc,           \* server: allocation of each client socket
  srvNonce, spent, \* server: current nonce; reservation tokens used up
  mobile,          \* mobility is set, and the server gives tickets
  lost, faults     \* environment: datagrams lost, other faults

session == <<n, next, fd, oldfd, nonce, s_mobile_id, relay_addr, shown>>
loop    == <<af_cycle, reopen_socket, request, skip, tries>>
statics == <<allocate_rtcp, current_reservation_token>>
kernel  == <<open, made, leaked, past>>
net     == <<call, wire, reply>>
server  == <<alloc, srvNonce, spent, mobile>>
env     == <<lost, faults>>
vars == <<pc, session, loop, statics, kernel, net, server, env>>

NoReply == [class |-> "none"]
NoRequest == [c |-> 0]

Init ==
  /\ n = 0 /\ pc = "idle" /\ next = "idle"
  /\ fd = 0 /\ oldfd = 0 /\ nonce = 0 /\ s_mobile_id = 0 /\ relay_addr = 0 /\ shown = 0
  /\ af_cycle = 0 /\ reopen_socket = FALSE
  /\ request = NoRequest /\ skip = FALSE /\ tries = 0
  /\ allocate_rtcp = FALSE /\ current_reservation_token = 0
  /\ open = {} /\ made = 0 /\ leaked = {} /\ past = {}
  /\ call = 0 /\ wire = {} /\ reply = NoReply
  /\ alloc = [s \in {} |-> 0] /\ srvNonce \in Nonces /\ spent = {}
  /\ mobile \in BOOLEAN
  /\ lost = 0 /\ faults = 0

Fault == lost + faults < MaxFault /\ faults' = faults + 1 /\ UNCHANGED lost

-------------------------------------------------------------------------------
(* clnet_connect *)

\* start_connection and start_c2c_connection: a fresh clnet_info, connect,
\* then allocate.
StartSession ==
  /\ pc \in {"idle", "ok", "failed"} /\ n < NumSessions
  /\ n' = n + 1
  /\ fd' = 0 /\ oldfd' = 0 /\ nonce' = 0 /\ s_mobile_id' = 0 /\ relay_addr' = 0
  /\ af_cycle' = 0 /\ reopen_socket' = FALSE
  /\ request' = NoRequest /\ skip' = FALSE /\ tries' = 0
  /\ pc' = "connect" /\ next' = "start"
  /\ past' = past \cup ({fd} \ {0})
  /\ UNCHANGED <<shown, statics, open, made, leaked, net, server, env>>

\* Mutant: the socket set aside is not closed.
ReleaseOldNever == open' = open \cup {made + 1}

\* The new socket is open; one that mobility set aside is closed now.
ReleaseOld == open' = (open \cup {made + 1}) \ {oldfd}

\* socket and connect succeed; the caller goes on with its next step.  Any
\* connect error but EADDRINUSE counts as success (socket_connect returns -1
\* and clnet_connect tests for > 0); the first send then fails.
Connected ==
  /\ pc = "connect"
  /\ made' = made + 1
  /\ ReleaseOld
  /\ fd' = made + 1 /\ oldfd' = 0
  /\ pc' = CASE next = "start"  -> "allocate"
             [] next = "reopen" -> "send"
             [] next = "mobile" -> "refresh"
  /\ UNCHANGED <<n, next, nonce, s_mobile_id, relay_addr, shown, loop, statics, leaked, past,
                 net, server, env>>

\* A socket is created and its descriptor forgotten.
LeakSocket ==
  /\ made' = made + 1
  /\ open' = open \cup {made + 1}
  /\ leaked' = leaked \cup {made + 1}
  /\ UNCHANGED past

\* connect fails with EADDRINUSE: back to start_socket, which creates another
\* socket and forgets this one.
AddressInUse ==
  /\ pc = "connect"
  /\ Fault
  /\ LeakSocket
  /\ UNCHANGED <<pc, session, loop, statics, net, server>>

\* socket fails, or something between socket and connect does and the socket
\* stays open: start_connection returns -1, clnet_allocate exits.
ConnectFails ==
  /\ pc = "connect"
  /\ Fault
  /\ LeakSocket \/ UNCHANGED kernel
  /\ pc' = IF next = "start" THEN "failed" ELSE "exited"
  /\ UNCHANGED <<session, loop, statics, net, server>>

-------------------------------------------------------------------------------
(* clnet_allocate: the allocate loop *)

ReplaceSocket ==
  /\ open' = open \ {fd}
  /\ fd' = 0
  /\ reopen_socket' = FALSE
  /\ pc' = "connect" /\ next' = "reopen"

\* The top of the while loop: give up after MaxAttempts iterations, and after
\* a 437 replace the socket.
AllocateLoop ==
  /\ pc = "allocate"
  /\ IF af_cycle >= MaxAttempts
     THEN /\ pc' = "exited"
          /\ UNCHANGED <<next, fd, reopen_socket, open>>
     ELSE IF reopen_socket /\ ~UseTcp
          THEN ReplaceSocket
          ELSE /\ pc' = "send"
               /\ UNCHANGED <<next, fd, reopen_socket, open>>
  /\ af_cycle' = af_cycle + 1
  /\ UNCHANGED <<n, oldfd, nonce, s_mobile_id, relay_addr, shown, request, skip,
                 tries, statics, made, leaked, past, net, server, env>>

\* The reservation token of the previous session's allocation goes into every
\* second one; 0 is what the server takes for no token.
ReservationToken ==
  IF ~NoRtcp /\ allocate_rtcp THEN current_reservation_token ELSE 0

\* EVEN-PORT with the R bit asks the server to reserve the next port.
Reserving == ~NoRtcp /\ ~allocate_rtcp

SendRequest(r) ==
  /\ call' = call + 1
  /\ request' = r
  /\ wire' = wire \cup {r}
  /\ reply' = NoReply
  /\ tries' = tries + 1

SendAllocate ==
  /\ pc = "send"
  /\ SendRequest([c |-> call + 1, kind |-> "allocate", sock |-> fd, nonce |-> nonce,
                  token |-> ReservationToken, reserve |-> Reserving, ticket |-> 0])
  /\ pc' = "await"
  /\ UNCHANGED <<session, af_cycle, reopen_socket, skip, statics, kernel, server, env>>

\* send_buffer fails and the process exits, or add_integrity does.
SendFails ==
  /\ pc = "send" \/ (pc = "refresh" /\ af_cycle <= MaxAttempts)
  /\ Fault
  /\ pc' = "exited" \/ (nonce # 0 /\ pc' = "failed")
  /\ UNCHANGED <<session, loop, statics, kernel, net, server>>

\* read_mobility_ticket keeps the ticket when the answer has none.
ReadMobilityTicket ==
  s_mobile_id' = IF reply.ticket # 0 THEN reply.ticket ELSE s_mobile_id

\* Mutant: an answer without a token leaves the old one.
StoreAllocationKeepsToken ==
  /\ shown' = reply.addr
  /\ relay_addr' = reply.addr
  /\ current_reservation_token' =
       IF reply.token # 0 THEN reply.token ELSE current_reservation_token
  /\ ReadMobilityTicket

\* Also when the answer has no token.
StoreAllocation ==
  /\ shown' = reply.addr
  /\ relay_addr' = reply.addr
  /\ current_reservation_token' = reply.token
  /\ ReadMobilityTicket

\* The allocation is made: the address is shown and stored, the token kept,
\* the roles of the next session swapped.  With a mobility ticket the socket
\* is replaced before the refresh, and the old one closed before or after.
AllocateSucceeds ==
  /\ pc = "await" /\ reply.class = "success"
  /\ reply.fits
  /\ StoreAllocation
  /\ allocate_rtcp' = ~allocate_rtcp
  /\ af_cycle' = 0 /\ tries' = 0
  /\ IF s_mobile_id' # 0
     THEN /\ \/ open' = open \ {fd} /\ oldfd' = 0
             \/ oldfd' = fd /\ UNCHANGED open
          /\ fd' = 0
          /\ pc' = "connect" /\ next' = "mobile"
     ELSE /\ pc' = "refresh"
          /\ UNCHANGED <<open, fd, oldfd, next>>
  /\ reply' = NoReply
  /\ UNCHANGED <<n, nonce, reopen_socket, request, skip, made, leaked, past, call, wire,
                 server, env>>

\* No usable relayed address of the wanted family in the answer, shown all the
\* same if it can be read, or no integrity to use (in a success or a 300):
\* clnet_allocate returns -1 and leaves the statics alone.
AllocateUnusable ==
  /\ pc = "await"
  /\ \/ /\ reply.class = "success" /\ ~reply.fits
        /\ shown' \in {shown, reply.addr}
        /\ UNCHANGED env
     \/ /\ reply.class \in {"success", "error"} /\ nonce # 0
        /\ Fault
        /\ UNCHANGED shown
  /\ pc' = "failed"
  /\ reply' = NoReply
  /\ UNCHANGED <<n, next, fd, oldfd, nonce, s_mobile_id, relay_addr, loop, statics, kernel,
                 call, wire, server>>

\* Mutant: the iterations are counted from 0 again.
AllocateChallengedResets ==
  /\ pc = "await" /\ reply.class = "challenge"
  /\ nonce' = reply.nonce
  /\ af_cycle' = 0
  /\ pc' = "allocate"
  /\ reply' = NoReply
  /\ UNCHANGED <<n, next, fd, oldfd, s_mobile_id, relay_addr, shown, reopen_socket, request,
                 skip, tries, statics, kernel, call, wire, server, env>>

\* 401 or 438: remember realm and nonce, and start again with af_cycle as it is.
AllocateChallenged ==
  /\ pc = "await" /\ reply.class = "challenge"
  /\ nonce' = reply.nonce
  /\ pc' = "allocate"
  /\ reply' = NoReply
  /\ UNCHANGED <<n, next, fd, oldfd, s_mobile_id, relay_addr, shown, loop, statics, kernel,
                 call, wire, server, env>>

\* 437: the next iteration uses another socket.
AllocateMismatch ==
  /\ pc = "await" /\ reply.class = "mismatch"
  /\ reopen_socket' = TRUE
  /\ pc' = "allocate"
  /\ reply' = NoReply
  /\ UNCHANGED <<session, af_cycle, request, skip, tries, statics, kernel, call, wire, server, env>>

\* Mutant: the error is reported and recv_buffer called again.
AllocateRejectedIgnored ==
  /\ pc = "await" /\ reply.class = "error"
  /\ reply' = NoReply
  /\ UNCHANGED <<pc, session, loop, statics, kernel, call, wire, server, env>>

\* Any other error, a redirection (300) included: nobody passes turn_addr.
AllocateRejected ==
  /\ pc = "await" /\ reply.class = "error"
  /\ current_reservation_token' = 0
  /\ pc' = "failed"
  /\ reply' = NoReply
  /\ UNCHANGED <<session, loop, allocate_rtcp, kernel, call, wire, server, env>>

\* recv_buffer returns an error or 0: the loop sends another Allocate.
AllocateRecvFails ==
  /\ pc = "await"
  /\ Fault
  /\ pc' = "allocate"
  /\ reply' = NoReply
  /\ UNCHANGED <<session, loop, statics, kernel, call, wire, server>>

-------------------------------------------------------------------------------
(* clnet_allocate: the refresh loop *)

\* beg_refresh compares before it counts, unlike the allocate loop: one
\* iteration more.
RefreshGivesUp ==
  /\ pc = "refresh" /\ af_cycle > MaxAttempts
  /\ pc' = "exited"
  /\ UNCHANGED <<session, loop, statics, kernel, net, server, env>>

SendRefresh ==
  /\ pc = "refresh" /\ af_cycle <= MaxAttempts
  /\ af_cycle' = af_cycle + 1
  /\ SendRequest([c |-> call + 1, kind |-> "refresh", sock |-> fd, nonce |-> nonce,
                  token |-> 0, reserve |-> FALSE, ticket |-> s_mobile_id])
  /\ skip' = (s_mobile_id # 0)
  /\ pc' = "awaitRefresh"
  /\ UNCHANGED <<session, reopen_socket, statics, kernel, server, env>>

\* With a ticket the request was sent twice, and a second recv_buffer
\* overwrites the first answer, whatever the first returned.
RefreshSkipsFirst ==
  /\ pc = "awaitRefresh" /\ skip
  /\ \/ reply # NoReply /\ UNCHANGED env
     \/ Fault
  /\ skip' = FALSE
  /\ reply' = NoReply
  /\ wire' = wire \cup {request}
  /\ UNCHANGED <<pc, session, af_cycle, reopen_socket, request, tries, statics, kernel,
                 call, server>>

RefreshSucceeds ==
  /\ pc = "awaitRefresh" /\ ~skip /\ reply.class = "success"
  /\ ReadMobilityTicket
  /\ pc' = "ok"
  /\ reply' = NoReply
  /\ UNCHANGED <<n, next, fd, oldfd, nonce, relay_addr, shown, loop, statics, kernel, call, wire, server, env>>

RefreshChallenged ==
  /\ pc = "awaitRefresh" /\ ~skip /\ reply.class = "challenge"
  /\ nonce' = reply.nonce
  /\ pc' = "refresh"
  /\ reply' = NoReply
  /\ UNCHANGED <<n, next, fd, oldfd, s_mobile_id, relay_addr, shown, loop, statics, kernel,
                 call, wire, server, env>>

\* Mutant: only refresh_received is set.
RefreshRejectedIgnored ==
  /\ pc = "awaitRefresh" /\ ~skip /\ reply.class \in {"mismatch", "error"}
  /\ pc' = "ok"
  /\ reply' = NoReply
  /\ UNCHANGED <<session, loop, statics, kernel, call, wire, server, env>>

RefreshRejected ==
  /\ pc = "awaitRefresh" /\ ~skip /\ reply.class \in {"mismatch", "error"}
  /\ pc' = "failed"
  /\ reply' = NoReply
  /\ UNCHANGED <<session, loop, statics, kernel, call, wire, server, env>>

RefreshRecvFails ==
  /\ pc = "awaitRefresh" /\ ~skip
  /\ Fault
  /\ pc' = "exited"
  /\ UNCHANGED <<session, loop, statics, kernel, net, server>>

-------------------------------------------------------------------------------
(* recv_buffer and the network between client and server *)

Awaiting == pc \in {"await", "awaitRefresh"}

\* While it waits on a UDP socket, recv_buffer sends the request again.
Retransmit ==
  /\ ~UseTcp /\ Awaiting /\ reply = NoReply /\ request \notin wire
  /\ wire' = wire \cup {request}
  /\ UNCHANGED <<pc, session, loop, statics, kernel, call, reply, server, env>>

\* UDP may lose a datagram.
Loss == ~UseTcp /\ lost + faults < MaxFault /\ lost' = lost + 1

\* Only the answer to the current request passes recv_buffer's test.
Answer(r, a) ==
  /\ wire' = wire \ {r}
  /\ \/ Awaiting /\ r = request /\ reply' = a /\ UNCHANGED lost
     \/ ~(Awaiting /\ r = request) /\ UNCHANGED <<reply, lost>>
     \/ Loss /\ UNCHANGED reply
  /\ UNCHANGED <<pc, session, loop, statics, kernel, call, faults>>

\* The request itself is lost.
Lose ==
  /\ Loss
  /\ \E r \in wire : wire' = wire \ {r}
  /\ UNCHANGED <<pc, session, loop, statics, kernel, call, reply, server, faults>>

-------------------------------------------------------------------------------
(* The TURN server, as the client's code expects it.  External. *)

ServerChallenges ==
  /\ \E r \in wire : /\ r.nonce # srvNonce
                     /\ Answer(r, [class |-> "challenge", nonce |-> srvNonce])
  /\ UNCHANGED server

\* The nonce expires.
ServerRotatesNonce ==
  /\ srvNonce' \in Nonces \ {srvNonce}
  /\ UNCHANGED <<pc, session, loop, statics, kernel, net, alloc, spent, mobile, env>>

Granted(r, addr, fits) ==
  [class |-> "success", addr |-> addr, fits |-> fits,
   token |-> IF r.kind = "allocate" /\ r.reserve THEN r.c ELSE 0,
   ticket |-> IF mobile THEN addr ELSE 0]

\* The socket has an allocation: a copy of the request that made it gets the
\* same answer again, any other request a 437.
ServerRepeats(r, fits) ==
  /\ r.sock \in DOMAIN alloc
  /\ Answer(r, IF alloc[r.sock] = r.c THEN Granted(r, r.c, fits) ELSE [class |-> "mismatch"])
  /\ UNCHANGED server

\* An allocation is made; a reservation token is used up.
ServerGrants(r, fits) ==
  /\ r.sock \notin DOMAIN alloc /\ r.token \notin spent
  /\ alloc' = [s \in DOMAIN alloc \cup {r.sock} |-> IF s = r.sock THEN r.c ELSE alloc[s]]
  /\ spent' = spent \cup ({r.token} \ {0})
  /\ UNCHANGED <<srvNonce, mobile>>
  /\ Answer(r, Granted(r, r.c, fits))

ServerAllocates ==
  \E r \in wire, fits \in BOOLEAN :
    /\ r.kind = "allocate" /\ r.nonce = srvNonce
    /\ ServerRepeats(r, fits) \/ ServerGrants(r, fits)

\* A Refresh renews the allocation of its socket.
ServerRenews(r) ==
  /\ r.sock \in DOMAIN alloc
  /\ UNCHANGED server
  /\ Answer(r, Granted(r, alloc[r.sock], TRUE))

\* With a ticket it moves the ticket's allocation to the socket it came from.
ServerMoves(r, s) ==
  /\ r.sock \notin DOMAIN alloc
  /\ r.ticket # 0 /\ alloc[s] = r.ticket
  /\ alloc' = [t \in (DOMAIN alloc \ {s}) \cup {r.sock} |->
                 IF t = r.sock THEN r.ticket ELSE alloc[t]]
  /\ UNCHANGED <<srvNonce, spent, mobile>>
  /\ Answer(r, Granted(r, r.ticket, TRUE))

ServerRefreshes ==
  \E r \in wire :
    /\ r.kind = "refresh" /\ r.nonce = srvNonce
    /\ ServerRenews(r) \/ \E s \in DOMAIN alloc : ServerMoves(r, s)

\* Anything else the server may refuse; a token used up it must refuse.
ServerRejects ==
  /\ \E r \in wire : Answer(r, [class |-> "error"])
  /\ UNCHANGED server

-------------------------------------------------------------------------------

Client ==
  \/ Connected \/ AllocateLoop \/ SendAllocate
  \/ AllocateSucceeds \/ AllocateChallenged \/ AllocateMismatch \/ AllocateRejected
  \/ AllocateUnusable
  \/ RefreshGivesUp \/ SendRefresh \/ RefreshSkipsFirst
  \/ RefreshSucceeds \/ RefreshChallenged \/ RefreshRejected

ClientFaults ==
  AddressInUse \/ ConnectFails \/ SendFails \/ AllocateRecvFails \/ RefreshRecvFails

Server == ServerChallenges \/ ServerAllocates \/ ServerRefreshes \/ ServerRejects

Next ==
  \/ StartSession \/ Client \/ ClientFaults
  \/ Retransmit \/ Lose
  \/ Server \/ ServerRotatesNonce

Spec == Init /\ [][Next]_vars
-------------------------------------------------------------------------------
(* Properties *)

Request ==
  [c : Nat, kind : {"allocate", "refresh"}, sock : Nat, nonce : Nat, token : Nat,
   reserve : BOOLEAN, ticket : Nat]

Reply ==
  [class : {"none", "mismatch", "error"}]
    \cup [class : {"challenge"}, nonce : Nonces]
    \cup [class : {"success"}, addr : Nat, fits : BOOLEAN, token : Nat, ticket : Nat]

ControlTypes ==
  /\ pc \in {"idle", "connect", "allocate", "send", "await", "refresh", "awaitRefresh",
             "ok", "failed", "exited"}
  /\ next \in {"idle", "start", "reopen", "mobile"}
  /\ n \in Nat /\ af_cycle \in Nat /\ tries \in Nat /\ lost \in Nat /\ faults \in Nat
  /\ made \in Nat /\ call \in Nat
  /\ nonce \in Nonces \cup {0} /\ srvNonce \in Nonces
  /\ s_mobile_id \in 0..call /\ relay_addr \in 0..call /\ shown \in 0..call
  /\ current_reservation_token \in 0..call

FlagTypes ==
  reopen_socket \in BOOLEAN /\ skip \in BOOLEAN /\ allocate_rtcp \in BOOLEAN /\ mobile \in BOOLEAN

SocketTypes ==
  /\ open \subseteq 1..made /\ leaked \subseteq open /\ past \subseteq open
  /\ fd \in open \cup {0} /\ oldfd \in open \cup {0}

MessageTypes ==
  /\ request \in Request \cup {NoRequest}
  /\ wire \subseteq Request
  /\ reply \in Reply
  /\ DOMAIN alloc \subseteq 1..made /\ alloc \in [DOMAIN alloc -> 1..call]
  /\ spent \subseteq 1..call

\* Every variable has its type; descriptors, table entries and call numbers
\* are of sockets and calls that were made.
TypeOK == ControlTypes /\ FlagTypes /\ SocketTypes /\ MessageTypes

\* clnet_allocate sends at most MaxAttempts Allocate requests and at most one
\* Refresh request more, however often the server challenges it: a challenge
\* jumps back without resetting af_cycle.
RequestBudget ==
  /\ tries <= MaxAttempts + 1
  /\ (request # NoRequest /\ request.kind = "allocate") => tries <= MaxAttempts

\* When clnet_allocate returns 0 the server holds, for the very socket the
\* session goes on with, the allocation whose relay address the session stored
\* and the application was shown, although sockets were replaced on the way
\* (437, mobility) and requests answered late or twice.
GrantedOnReturn ==
  pc = "ok" => /\ fd \in open \cap DOMAIN alloc
               /\ alloc[fd] = relay_addr
               /\ shown = relay_addr

\* Every open descriptor is the session's, an earlier session's, or one of
\* those clnet_connect forgets on EADDRINUSE and on a failure after socket():
\* replacing a socket leaks none and closes none that is in use.
DescriptorsAccounted ==
  open = leaked \cup past \cup ({fd, oldfd} \ {0})

\* After a successful session the statics agree: the next session presents a
\* reservation token exactly when there is one, and that one is not used up.
TokenReady ==
  pc = "ok" /\ ~NoRtcp =>
    /\ allocate_rtcp <=> current_reservation_token # 0
    /\ current_reservation_token \notin spent

\* If the server works on its requests, a started session ends: every loop of
\* clnet_allocate is bounded even when the server changes its nonce for ever.
SessionEnds == pc = "connect" ~> pc \in {"ok", "failed", "exited"}

\* The client runs; recv_buffer retransmits; the server takes requests.
FairSpec == Spec /\ WF_vars(Client) /\ WF_vars(Retransmit) /\ WF_vars(Server)
===============================================================================
