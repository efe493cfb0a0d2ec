--------------------------- MODULE AllocationProofs ---------------------------
(***************************************************************************)
(* Proofs about module Allocation, for every number of attempts, sessions, *)
(* losses and faults, over UDP and TCP, with and without mobility.         *)
(***************************************************************************)
EXTENDS Allocation, TLAPS

Allocating == \/ pc \in {"allocate", "send", "await"}
              \/ pc = "connect" /\ next \in {"start", "reopen"}
Moving     == pc = "connect" /\ next = "mobile"
Refreshing == pc \in {"refresh", "awaitRefresh", "ok"}

\* What is on the wire, and which request is awaited.  A ticket or token is the
\* number of an older call than the request that carries it.
WireInv ==
  /\ \A r \in wire : /\ r.c \in 1..call /\ r.sock \in 1..made
                     /\ r.ticket < r.c /\ r.token < r.c
                     /\ r.nonce \in Nonces \cup {0}
  /\ \A t \in spent : t < call
  /\ pc \in {"allocate", "send", "await", "refresh", "awaitRefresh", "ok"} => fd # 0
  /\ pc = "connect" => next # "idle"
  /\ Awaiting => /\ request \in Request
                 /\ request.c = call /\ request.sock = fd
                 /\ request.ticket < call /\ request.token < call
                 /\ request.nonce \in Nonces \cup {0}
  /\ pc = "await" => /\ request.kind = "allocate" /\ request.ticket = 0
                     /\ request.reserve = Reserving
  /\ pc = "awaitRefresh" => /\ request.kind = "refresh" /\ request.ticket = s_mobile_id
                            /\ request.token = 0

\* af_cycle counts the requests of the current loop.
BudgetInv ==
  /\ Allocating => tries <= af_cycle /\ af_cycle <= MaxAttempts
  /\ pc = "send" \/ (pc = "connect" /\ next = "reopen") => tries < af_cycle
  /\ pc = "connect" /\ next = "start" => request = NoRequest
  /\ Moving \/ Refreshing => tries <= af_cycle /\ af_cycle <= MaxAttempts + 1
  /\ Moving => tries = 0
  /\ RequestBudget

\* No descriptor that is in use is also accounted for elsewhere.
DescriptorInv ==
  /\ DescriptorsAccounted
  /\ fd \notin leaked \cup past /\ oldfd \notin leaked \cup past
  /\ oldfd # 0 => Moving \/ pc = "exited"
  /\ fd # 0 => fd # oldfd
  /\ pc = "connect" => fd = 0

\* From the answer to the Allocate on, the allocation of the session's socket
\* is the session's, and no request under way can take it elsewhere.
GrantInv ==
  /\ pc = "await" /\ reply.class = "success" =>
       /\ reply.addr = call
       /\ fd \in DOMAIN alloc /\ alloc[fd] = call
       /\ reply.ticket = IF mobile THEN call ELSE 0
  /\ Allocating => s_mobile_id = 0
  /\ Moving => /\ mobile /\ call # 0
               /\ relay_addr = call /\ shown = call /\ s_mobile_id = call
  /\ Refreshing =>
       /\ relay_addr # 0 /\ shown = relay_addr
       /\ s_mobile_id = IF mobile THEN relay_addr ELSE 0
       /\ \A r \in wire : r.ticket = relay_addr => r.sock = fd
       /\ fd \in DOMAIN alloc => alloc[fd] = relay_addr
       /\ ~mobile => fd \in DOMAIN alloc
       /\ mobile =>
            \A r \in wire : r.sock = fd => r.kind = "refresh" /\ r.ticket = relay_addr
  /\ pc = "awaitRefresh" /\ reply.class = "success" =>
       fd \in DOMAIN alloc /\ reply.ticket = s_mobile_id
  /\ pc = "ok" => fd \in DOMAIN alloc

\* A token just received is on no request and in no list of used ones.
TokenInv ==
  /\ pc = "await" /\ reply.class = "success" =>
       reply.token = IF Reserving THEN call ELSE 0
  /\ (Moving \/ Refreshing) /\ ~NoRtcp =>
       /\ allocate_rtcp <=> current_reservation_token # 0
       /\ current_reservation_token \notin spent
       /\ current_reservation_token # 0 =>
            \A r \in wire : r.token # current_reservation_token

IInv == TypeOK /\ WireInv /\ BudgetInv /\ DescriptorInv /\ GrantInv /\ TokenInv

\* The initial states satisfy the invariant.
LEMMA InitInv == Init => IInv
<1>. SUFFICES ASSUME Init PROVE IInv
  BY Zenon
<1>. USE AllocAssumption DEF Init, NoRequest, NoReply
<1>1. ControlTypes /\ SocketTypes
  BY DEF ControlTypes, SocketTypes
<1>5. FlagTypes
  BY Zenon DEF FlagTypes
<1>6. MessageTypes
  <2>1. DOMAIN alloc = {} /\ alloc \in [{} -> 1..call]
    BY Zenon
  <2>. QED
    BY <2>1, Zenon DEF MessageTypes, Reply
<1>2. WireInv /\ BudgetInv
  BY DEF WireInv, BudgetInv, RequestBudget, Awaiting, Allocating, Moving, Refreshing
<1>3. DescriptorInv
  BY Zenon DEF DescriptorInv, DescriptorsAccounted, Moving
<1>4. GrantInv /\ TokenInv
  BY Zenon DEF GrantInv, TokenInv, Allocating, Moving, Refreshing
<1>. QED
  BY <1>1, <1>2, <1>3, <1>4, <1>5, <1>6, Zenon DEF IInv, TypeOK

\* The server's answer changes nothing of the client but `reply'.
LEMMA ServerFrame ==
  ASSUME Server
  PROVE  /\ UNCHANGED <<pc, session, loop, statics, kernel, call, faults, srvNonce, mobile>>
         /\ lost' \in {lost, lost + 1}
<1>. USE DEF Answer, Loss, server
<1>1. CASE ServerChallenges
  BY <1>1, Zenon DEF ServerChallenges
<1>2. CASE ServerAllocates
  BY <1>2, Zenon DEF ServerAllocates, ServerRepeats, ServerGrants
<1>3. CASE ServerRefreshes
  BY <1>3, Zenon DEF ServerRefreshes, ServerRenews, ServerMoves
<1>4. CASE ServerRejects
  BY <1>4, Zenon DEF ServerRejects
<1>. QED
  BY <1>1, <1>2, <1>3, <1>4, Zenon DEF Server

\* An answer reaches recv_buffer only if it answers the awaited request.
LEMMA AnswerFacts ==
  ASSUME NEW r, NEW a, Answer(r, a)
  PROVE  /\ wire' = wire \ {r}
         /\ reply' = reply \/ (Awaiting /\ r = request /\ reply' = a)
         /\ UNCHANGED <<pc, session, loop, statics, kernel, call>>
  BY Zenon DEF Answer

\* Every step keeps the types of the scalar variables.
LEMMA ControlStep == IInv /\ [Next]_vars => ControlTypes'
<1>. SUFFICES ASSUME IInv, [Next]_vars PROVE ControlTypes'
  BY Zenon
<1>. USE AllocAssumption DEF IInv, vars, session, loop, statics, kernel, net, server, env, TypeOK,
   ControlTypes
<1>1. CASE StartSession
  BY <1>1 DEF StartSession
<1>2. CASE Connected
  <2>1. pc' \in {"allocate", "send", "refresh"}
    BY <1>2, Zenon DEF Connected, WireInv
  <2>2. /\ made' = made + 1
        /\ UNCHANGED <<n, next, nonce, s_mobile_id, relay_addr, shown, loop, statics, net, server,
                       env>>
    BY <1>2, Zenon DEF Connected
  <2>. QED
    BY <2>1, <2>2
<1>3. CASE AllocateLoop
  <2>1. CASE af_cycle >= MaxAttempts
    BY <1>3, <2>1 DEF AllocateLoop
  <2>2. CASE ~(af_cycle >= MaxAttempts)
    BY <1>3, <2>2 DEF AllocateLoop, ReplaceSocket
  <2>. QED
    BY <2>1, <2>2, Zenon
<1>4. CASE SendAllocate
  BY <1>4 DEF SendAllocate, SendRequest, ReservationToken, Reserving
<1>5. CASE AllocateSucceeds
  <2>1. reply.addr \in 0..call /\ reply.token \in 0..call /\ s_mobile_id' \in 0..call
    BY <1>5 DEF AllocateSucceeds, StoreAllocation, ReadMobilityTicket, GrantInv, TokenInv
  <2>. QED
    BY <1>5, <2>1, Zenon DEF AllocateSucceeds, StoreAllocation
<1>6. CASE AllocateChallenged
  <2>1. reply.nonce \in Nonces
    BY <1>6, Zenon DEF AllocateChallenged, MessageTypes, Reply
  <2>. QED
    BY <1>6, <2>1, Zenon DEF AllocateChallenged
<1>7. CASE AllocateMismatch
  BY <1>7, Zenon DEF AllocateMismatch
<1>8. CASE AllocateRejected
  BY <1>8 DEF AllocateRejected
<1>9. CASE AllocateUnusable
  <2>1. reply.class = "success" => reply.addr \in 0..call
    BY <1>9 DEF AllocateUnusable, GrantInv
  <2>. QED
    BY <1>9, <2>1 DEF AllocateUnusable, Fault
<1>10. CASE RefreshGivesUp
  BY <1>10, Zenon DEF RefreshGivesUp
<1>11. CASE SendRefresh
  BY <1>11 DEF SendRefresh, SendRequest
<1>12. CASE RefreshSkipsFirst
  BY <1>12 DEF RefreshSkipsFirst, Fault
<1>13. CASE RefreshSucceeds
  <2>1. s_mobile_id' \in 0..call
    BY <1>13, Zenon DEF RefreshSucceeds, ReadMobilityTicket, GrantInv, Refreshing
  <2>. QED
    BY <1>13, <2>1, Zenon DEF RefreshSucceeds
<1>14. CASE RefreshChallenged
  <2>1. reply.nonce \in Nonces
    BY <1>14, Zenon DEF RefreshChallenged, MessageTypes, Reply
  <2>. QED
    BY <1>14, <2>1, Zenon DEF RefreshChallenged
<1>15. CASE RefreshRejected
  BY <1>15, Zenon DEF RefreshRejected
<1>16. CASE AddressInUse
  BY <1>16 DEF AddressInUse, Fault, LeakSocket
<1>17. CASE ConnectFails
  BY <1>17 DEF ConnectFails, Fault, LeakSocket
<1>18. CASE SendFails
  BY <1>18 DEF SendFails, Fault
<1>19. CASE AllocateRecvFails
  BY <1>19 DEF AllocateRecvFails, Fault
<1>20. CASE RefreshRecvFails
  BY <1>20 DEF RefreshRecvFails, Fault
<1>21. CASE Retransmit
  BY <1>21, Zenon DEF Retransmit
<1>22. CASE Lose
  BY <1>22 DEF Lose, Loss
<1>23. CASE ServerRotatesNonce
  BY <1>23, Zenon DEF ServerRotatesNonce
<1>24. CASE Server
  BY <1>24, ServerFrame
<1>25. CASE UNCHANGED vars
  BY <1>25, Zenon
<1>. QED
  BY <1>1, <1>2, <1>3, <1>4, <1>5, <1>6, <1>7, <1>8, <1>9, <1>10, <1>11, <1>12, <1>13, <1>14,
     <1>15, <1>16, <1>17, <1>18, <1>19, <1>20, <1>21, <1>22, <1>23, <1>24, <1>25, Zenon DEF Next,
     Client, ClientFaults

\* Every step keeps the flags Boolean.
LEMMA FlagStep == IInv /\ [Next]_vars => FlagTypes'
<1>. SUFFICES ASSUME IInv, [Next]_vars PROVE FlagTypes'
  BY Zenon
<1>. USE AllocAssumption DEF IInv, vars, session, loop, statics, kernel, net, server, env, TypeOK,
   FlagTypes
<1>1. CASE StartSession
  BY <1>1, Zenon DEF StartSession
<1>2. CASE Connected
  BY <1>2, Zenon DEF Connected, ReleaseOld
<1>3. CASE AllocateLoop
  BY <1>3, Zenon DEF AllocateLoop, ReplaceSocket
<1>4. CASE SendAllocate
  BY <1>4, Zenon DEF SendAllocate, SendRequest, ReservationToken, Reserving
<1>5. CASE AllocateSucceeds
  BY <1>5, Zenon DEF AllocateSucceeds, StoreAllocation, ReadMobilityTicket, Reserving
<1>6. CASE AllocateChallenged
  BY <1>6, Zenon DEF AllocateChallenged
<1>7. CASE AllocateMismatch
  BY <1>7, Zenon DEF AllocateMismatch
<1>8. CASE AllocateRejected
  BY <1>8, Zenon DEF AllocateRejected
<1>9. CASE AllocateUnusable
  BY <1>9, Zenon DEF AllocateUnusable, Fault
<1>10. CASE RefreshGivesUp
  BY <1>10, Zenon DEF RefreshGivesUp
<1>11. CASE SendRefresh
  BY <1>11, Zenon DEF SendRefresh, SendRequest
<1>12. CASE RefreshSkipsFirst
  BY <1>12, Zenon DEF RefreshSkipsFirst, Fault
<1>13. CASE RefreshSucceeds
  BY <1>13, Zenon DEF RefreshSucceeds, ReadMobilityTicket
<1>14. CASE RefreshChallenged
  BY <1>14, Zenon DEF RefreshChallenged
<1>15. CASE RefreshRejected
  BY <1>15, Zenon DEF RefreshRejected
<1>16. CASE AddressInUse
  BY <1>16, Zenon DEF AddressInUse, Fault, LeakSocket
<1>17. CASE ConnectFails
  BY <1>17, Zenon DEF ConnectFails, Fault, LeakSocket
<1>18. CASE SendFails
  BY <1>18, Zenon DEF SendFails, Fault
<1>19. CASE AllocateRecvFails
  BY <1>19, Zenon DEF AllocateRecvFails, Fault
<1>20. CASE RefreshRecvFails
  BY <1>20, Zenon DEF RefreshRecvFails, Fault
<1>21. CASE Retransmit
  BY <1>21, Zenon DEF Retransmit
<1>22. CASE Lose
  BY <1>22, Zenon DEF Lose, Loss
<1>23. CASE ServerRotatesNonce
  BY <1>23, Zenon DEF ServerRotatesNonce
<1>24. CASE Server
  BY <1>24, ServerFrame, Zenon
<1>25. CASE UNCHANGED vars
  BY <1>25, SMTT(20)
<1>. QED
  BY <1>1, <1>2, <1>3, <1>4, <1>5, <1>6, <1>7, <1>8, <1>9, <1>10, <1>11, <1>12, <1>13, <1>14,
     <1>15, <1>16, <1>17, <1>18, <1>19, <1>20, <1>21, <1>22, <1>23, <1>24, <1>25, Zenon DEF Next,
     Client, ClientFaults

\* Every step keeps the descriptors within the sockets created.
LEMMA SocketStep == IInv /\ [Next]_vars => SocketTypes'
<1>. SUFFICES ASSUME IInv, [Next]_vars PROVE SocketTypes'
  BY Zenon
<1>. USE AllocAssumption DEF IInv, vars, session, loop, statics, kernel, net, server, env, TypeOK,
   ControlTypes, SocketTypes, DescriptorInv
<1>1. CASE StartSession
  BY <1>1, Zenon DEF StartSession
<1>2. CASE Connected
  BY <1>2 DEF Connected, ReleaseOld
<1>3. CASE AllocateLoop
  BY <1>3, Zenon DEF AllocateLoop, ReplaceSocket
<1>4. CASE SendAllocate
  BY <1>4, Zenon DEF SendAllocate, SendRequest, ReservationToken, Reserving
<1>5. CASE AllocateSucceeds
  BY <1>5, Zenon DEF AllocateSucceeds, StoreAllocation, ReadMobilityTicket, Reserving
<1>6. CASE AllocateChallenged
  BY <1>6, Zenon DEF AllocateChallenged
<1>7. CASE AllocateMismatch
  BY <1>7, Zenon DEF AllocateMismatch
<1>8. CASE AllocateRejected
  BY <1>8, Zenon DEF AllocateRejected
<1>9. CASE AllocateUnusable
  BY <1>9, Zenon DEF AllocateUnusable, Fault
<1>10. CASE RefreshGivesUp
  BY <1>10, Zenon DEF RefreshGivesUp
<1>11. CASE SendRefresh
  BY <1>11, Zenon DEF SendRefresh, SendRequest
<1>12. CASE RefreshSkipsFirst
  BY <1>12, Zenon DEF RefreshSkipsFirst, Fault
<1>13. CASE RefreshSucceeds
  BY <1>13, Zenon DEF RefreshSucceeds, ReadMobilityTicket
<1>14. CASE RefreshChallenged
  BY <1>14, Zenon DEF RefreshChallenged
<1>15. CASE RefreshRejected
  BY <1>15, Zenon DEF RefreshRejected
<1>16. CASE AddressInUse
  BY <1>16 DEF AddressInUse, Fault, LeakSocket
<1>17. CASE ConnectFails
  <2>1. CASE LeakSocket
    BY <1>17, <2>1 DEF ConnectFails, LeakSocket
  <2>2. CASE UNCHANGED kernel
    BY <1>17, <2>2, Zenon DEF ConnectFails
  <2>. QED
    BY <1>17, <2>1, <2>2, Zenon DEF ConnectFails
<1>18. CASE SendFails
  BY <1>18, Zenon DEF SendFails, Fault
<1>19. CASE AllocateRecvFails
  BY <1>19, Zenon DEF AllocateRecvFails, Fault
<1>20. CASE RefreshRecvFails
  BY <1>20, Zenon DEF RefreshRecvFails, Fault
<1>21. CASE Retransmit
  BY <1>21, Zenon DEF Retransmit
<1>22. CASE Lose
  BY <1>22, Zenon DEF Lose, Loss
<1>23. CASE ServerRotatesNonce
  BY <1>23, Zenon DEF ServerRotatesNonce
<1>24. CASE Server
  BY <1>24, ServerFrame, Zenon
<1>25. CASE UNCHANGED vars
  BY <1>25, Zenon
<1>. QED
  BY <1>1, <1>2, <1>3, <1>4, <1>5, <1>6, <1>7, <1>8, <1>9, <1>10, <1>11, <1>12, <1>13, <1>14,
     <1>15, <1>16, <1>17, <1>18, <1>19, <1>20, <1>21, <1>22, <1>23, <1>24, <1>25, Zenon DEF Next,
     Client, ClientFaults

\* Every step keeps the types of messages and of the server's tables.
LEMMA MessageStep == IInv /\ [Next]_vars => MessageTypes'
<1>. SUFFICES ASSUME IInv, [Next]_vars PROVE MessageTypes'
  BY Zenon
<1>. USE AllocAssumption DEF IInv, vars, session, loop, statics, kernel, net, server, env, TypeOK,
   ControlTypes, SocketTypes, MessageTypes, WireInv, NoRequest, NoReply, Request, Reply, Awaiting
<1>1. CASE StartSession
  BY <1>1, Zenon DEF StartSession
<1>2. CASE Connected
  BY <1>2 DEF Connected, ReleaseOld
<1>3. CASE AllocateLoop
  BY <1>3, Zenon DEF AllocateLoop, ReplaceSocket
<1>4. CASE SendAllocate
  <2>. DEFINE r == [c |-> call + 1, kind |-> "allocate", sock |-> fd, nonce |-> nonce,
                    token |-> ReservationToken, reserve |-> Reserving, ticket |-> 0]
  <2>1. r \in Request
    BY DEF ReservationToken, Reserving, FlagTypes
  <2>2. call' = call + 1 /\ request' = r /\ wire' = wire \cup {r} /\ reply' = NoReply
    BY <1>4, Zenon DEF SendAllocate, SendRequest
  <2>3. UNCHANGED <<alloc, spent, made>>
    BY <1>4, Zenon DEF SendAllocate
  <2>4. alloc' \in [DOMAIN alloc' -> 1..call'] /\ spent' \subseteq 1..call'
    BY <2>2, <2>3
  <2>. HIDE DEF r
  <2>. QED
    BY <2>1, <2>2, <2>3, <2>4, Zenon
<1>5. CASE AllocateSucceeds
  BY <1>5, Zenon DEF AllocateSucceeds, StoreAllocation, ReadMobilityTicket, Reserving
<1>6. CASE AllocateChallenged
  BY <1>6, Zenon DEF AllocateChallenged
<1>7. CASE AllocateMismatch
  BY <1>7, Zenon DEF AllocateMismatch
<1>8. CASE AllocateRejected
  BY <1>8, Zenon DEF AllocateRejected
<1>9. CASE AllocateUnusable
  BY <1>9, Zenon DEF AllocateUnusable, Fault
<1>10. CASE RefreshGivesUp
  BY <1>10, Zenon DEF RefreshGivesUp
<1>11. CASE SendRefresh
  <2>. DEFINE r == [c |-> call + 1, kind |-> "refresh", sock |-> fd, nonce |-> nonce,
                    token |-> 0, reserve |-> FALSE, ticket |-> s_mobile_id]
  <2>1. r \in Request
    OBVIOUS
  <2>2. call' = call + 1 /\ request' = r /\ wire' = wire \cup {r} /\ reply' = NoReply
    BY <1>11, Zenon DEF SendRefresh, SendRequest
  <2>3. UNCHANGED <<alloc, spent, made>>
    BY <1>11, Zenon DEF SendRefresh
  <2>4. alloc' \in [DOMAIN alloc' -> 1..call'] /\ spent' \subseteq 1..call'
    BY <2>2, <2>3
  <2>. HIDE DEF r
  <2>. QED
    BY <2>1, <2>2, <2>3, <2>4, Zenon
<1>12. CASE RefreshSkipsFirst
  BY <1>12, Zenon DEF RefreshSkipsFirst, Fault
<1>13. CASE RefreshSucceeds
  BY <1>13, Zenon DEF RefreshSucceeds, ReadMobilityTicket
<1>14. CASE RefreshChallenged
  BY <1>14, Zenon DEF RefreshChallenged
<1>15. CASE RefreshRejected
  BY <1>15, Zenon DEF RefreshRejected
<1>16. CASE AddressInUse
  BY <1>16 DEF AddressInUse, Fault, LeakSocket
<1>17. CASE ConnectFails
  BY <1>17 DEF ConnectFails, Fault, LeakSocket
<1>18. CASE SendFails
  BY <1>18, Zenon DEF SendFails, Fault
<1>19. CASE AllocateRecvFails
  BY <1>19, Zenon DEF AllocateRecvFails, Fault
<1>20. CASE RefreshRecvFails
  BY <1>20, Zenon DEF RefreshRecvFails, Fault
<1>21. CASE Retransmit
  BY <1>21, Zenon DEF Retransmit
<1>22. CASE Lose
  BY <1>22, Zenon DEF Lose, Loss
<1>23. CASE ServerChallenges
  BY <1>23 DEF ServerChallenges, Answer, Loss
<1>24. CASE ServerAllocates
  BY SMTT(30), <1>24 DEF ServerAllocates, ServerRepeats, ServerGrants, Answer, Loss, Granted
<1>25. CASE ServerRefreshes
  <2>1. PICK r \in wire :
          /\ r.kind = "refresh" /\ r.nonce = srvNonce
          /\ ServerRenews(r) \/ \E s \in DOMAIN alloc : ServerMoves(r, s)
    BY <1>25, Zenon DEF ServerRefreshes
  <2>2. CASE ServerRenews(r)
    <3>1. Answer(r, Granted(r, alloc[r.sock], TRUE)) /\ UNCHANGED server /\ r.sock \in DOMAIN alloc
      BY <2>2, Zenon DEF ServerRenews
    <3>2. Granted(r, alloc[r.sock], TRUE) \in Reply
      BY SMTT(30), <2>1, <3>1 DEF Granted
    <3>. QED
      BY ZenonT(30), <3>1, <3>2, AnswerFacts
  <2>3. ASSUME NEW s \in DOMAIN alloc, ServerMoves(r, s)
        PROVE  MessageTypes'
    <3>4. Answer(r, Granted(r, r.ticket, TRUE)) /\ UNCHANGED spent
      BY <2>3, Zenon DEF ServerMoves
    <3>1. /\ wire' = wire \ {r} /\ UNCHANGED <<call, made, request, spent>>
          /\ reply' = reply \/ reply' = Granted(r, r.ticket, TRUE)
      BY <3>4, AnswerFacts, Zenon
    <3>2. Granted(r, r.ticket, TRUE) \in Reply
      BY <2>1, Zenon DEF Granted
    <3>3. /\ DOMAIN alloc' = (DOMAIN alloc \ {s}) \cup {r.sock}
          /\ \A t \in DOMAIN alloc' : alloc'[t] \in 1..call
          /\ alloc' = [t \in DOMAIN alloc' |-> alloc'[t]]
      BY <2>1, <2>3 DEF ServerMoves
    <3>. QED
      BY ZenonT(30), <2>1, <3>1, <3>2, <3>3
  <2>. QED
    BY <2>1, <2>2, <2>3, Zenon
<1>26. CASE ServerRejects
  BY SMTT(30), <1>26 DEF ServerRejects, Answer, Loss
<1>27. CASE ServerRotatesNonce
  BY <1>27, Zenon DEF ServerRotatesNonce
<1>28. CASE UNCHANGED vars
  BY <1>28, SMTT(20)
<1>. QED
  BY <1>1, <1>2, <1>3, <1>4, <1>5, <1>6, <1>7, <1>8, <1>9, <1>10, <1>11, <1>12, <1>13, <1>14,
     <1>15, <1>16, <1>17, <1>18, <1>19, <1>20, <1>21, <1>22, <1>23, <1>24, <1>25, <1>26, <1>27,
     <1>28, Zenon DEF Next, Client, ClientFaults, Server

\* Every step keeps the facts about requests.
LEMMA WireStep == IInv /\ [Next]_vars => WireInv'
<1>. SUFFICES ASSUME IInv, [Next]_vars PROVE WireInv'
  BY Zenon
<1>. USE AllocAssumption DEF IInv, vars, session, loop, statics, kernel, net, server, env, TypeOK,
   ControlTypes, SocketTypes, MessageTypes, WireInv, DescriptorInv, GrantInv, NoRequest, NoReply,
   Awaiting, Allocating, Moving, Refreshing, Reserving
<1>1. CASE StartSession
  BY <1>1, Zenon DEF StartSession
<1>2. CASE Connected
  BY <1>2 DEF Connected, ReleaseOld
<1>3. CASE AllocateLoop
  BY <1>3, Zenon DEF AllocateLoop, ReplaceSocket
<1>4. CASE SendAllocate
  <2>. DEFINE r == [c |-> call + 1, kind |-> "allocate", sock |-> fd, nonce |-> nonce,
                    token |-> ReservationToken, reserve |-> Reserving, ticket |-> 0]
  <2>1. r \in Request
    BY DEF ReservationToken, Reserving, FlagTypes, Request
  <2>2. call' = call + 1 /\ request' = r /\ wire' = wire \cup {r} /\ reply' = NoReply
    BY <1>4, Zenon DEF SendAllocate, SendRequest
  <2>3. UNCHANGED <<made, spent, fd, next, allocate_rtcp>> /\ pc' = "await"
    BY <1>4, Zenon DEF SendAllocate
  <2>4. /\ r.c = call + 1 /\ r.sock = fd /\ r.ticket < r.c /\ r.token < r.c /\ r.kind = "allocate"
        /\ r.nonce = nonce /\ r.reserve = Reserving /\ r.ticket = 0
    BY SMTT(30) DEF ReservationToken
  <2>5. fd \in 1..made
    BY <1>4, Zenon DEF SendAllocate
  <2>. HIDE DEF r
  <2>. QED
    BY SMTT(30), <2>1, <2>2, <2>3, <2>4, <2>5
<1>5. CASE AllocateSucceeds
  BY <1>5, Zenon DEF AllocateSucceeds, StoreAllocation, ReadMobilityTicket, Reserving
<1>6. CASE AllocateChallenged
  BY <1>6, Zenon DEF AllocateChallenged
<1>7. CASE AllocateMismatch
  BY <1>7, Zenon DEF AllocateMismatch
<1>8. CASE AllocateRejected
  BY <1>8, Zenon DEF AllocateRejected
<1>9. CASE AllocateUnusable
  BY <1>9, Zenon DEF AllocateUnusable, Fault
<1>10. CASE RefreshGivesUp
  BY <1>10, Zenon DEF RefreshGivesUp
<1>11. CASE SendRefresh
  <2>. DEFINE r == [c |-> call + 1, kind |-> "refresh", sock |-> fd, nonce |-> nonce,
                    token |-> 0, reserve |-> FALSE, ticket |-> s_mobile_id]
  <2>1. r \in Request
    BY SMTT(30) DEF Request
  <2>2. call' = call + 1 /\ request' = r /\ wire' = wire \cup {r} /\ reply' = NoReply
    BY <1>11, Zenon DEF SendRefresh, SendRequest
  <2>3. UNCHANGED <<made, spent, fd, next, s_mobile_id>> /\ pc' = "awaitRefresh"
    BY <1>11, Zenon DEF SendRefresh
  <2>4. /\ r.c = call + 1 /\ r.sock = fd /\ r.ticket < r.c /\ r.token < r.c /\ r.kind = "refresh"
        /\ r.nonce = nonce /\ r.ticket = s_mobile_id /\ r.token = 0
    BY SMTT(30)
  <2>5. fd \in 1..made
    BY <1>11, Zenon DEF SendRefresh
  <2>. HIDE DEF r
  <2>. QED
    BY SMTT(30), <2>1, <2>2, <2>3, <2>4, <2>5
<1>12. CASE RefreshSkipsFirst
  BY SMTT(30), <1>12 DEF RefreshSkipsFirst, Fault
<1>13. CASE RefreshSucceeds
  BY <1>13, Zenon DEF RefreshSucceeds, ReadMobilityTicket
<1>14. CASE RefreshChallenged
  BY <1>14, Zenon DEF RefreshChallenged
<1>15. CASE RefreshRejected
  BY <1>15, Zenon DEF RefreshRejected
<1>16. CASE AddressInUse
  BY SMTT(30), <1>16 DEF AddressInUse, Fault, LeakSocket
<1>17. CASE ConnectFails
  BY SMTT(30), <1>17 DEF ConnectFails, Fault, LeakSocket
<1>18. CASE SendFails
  BY <1>18, Zenon DEF SendFails, Fault
<1>19. CASE AllocateRecvFails
  BY <1>19, Zenon DEF AllocateRecvFails, Fault
<1>20. CASE RefreshRecvFails
  BY <1>20, Zenon DEF RefreshRecvFails, Fault
<1>21. CASE Retransmit
  BY SMTT(30), <1>21 DEF Retransmit
<1>22. CASE Lose
  BY <1>22, Zenon DEF Lose, Loss
<1>23. CASE ServerChallenges
  BY SMTT(30), <1>23 DEF ServerChallenges, Answer, Loss
<1>24. CASE ServerAllocates
  <2>1. PICK r \in wire, fits \in BOOLEAN :
          /\ r.kind = "allocate" /\ r.nonce = srvNonce
          /\ ServerRepeats(r, fits) \/ ServerGrants(r, fits)
    BY <1>24, Zenon DEF ServerAllocates
  <2>2. /\ wire' \subseteq wire /\ spent' \subseteq spent \cup {r.token}
        /\ UNCHANGED <<pc, session, loop, statics, kernel, call>>
    BY <2>1, AnswerFacts DEF ServerRepeats, ServerGrants
  <2>3. r.token < call
    BY SMTT(30), <2>1 DEF Request
  <2>. QED
    BY <2>2, <2>3, Zenon
<1>25. CASE ServerRefreshes
  <2>1. PICK r \in wire :
          /\ r.kind = "refresh" /\ r.nonce = srvNonce
          /\ ServerRenews(r) \/ \E s \in DOMAIN alloc : ServerMoves(r, s)
    BY <1>25, Zenon DEF ServerRefreshes
  <2>2. /\ wire' \subseteq wire
        /\ UNCHANGED <<pc, session, loop, statics, kernel, call, spent>>
    BY <2>1, AnswerFacts DEF ServerRenews, ServerMoves
  <2>. QED
    BY <2>2, Zenon
<1>26. CASE ServerRejects
  BY SMTT(30), <1>26 DEF ServerRejects, Answer, Loss
<1>27. CASE ServerRotatesNonce
  BY <1>27, Zenon DEF ServerRotatesNonce
<1>28. CASE UNCHANGED vars
  BY <1>28, SMTT(20)
<1>. QED
  BY <1>1, <1>2, <1>3, <1>4, <1>5, <1>6, <1>7, <1>8, <1>9, <1>10, <1>11, <1>12, <1>13, <1>14,
     <1>15, <1>16, <1>17, <1>18, <1>19, <1>20, <1>21, <1>22, <1>23, <1>24, <1>25, <1>26, <1>27,
     <1>28 DEF Next, Client, ClientFaults, Server

\* Every step keeps the count of requests.
LEMMA BudgetStep == IInv /\ [Next]_vars => BudgetInv'
<1>. SUFFICES ASSUME IInv, [Next]_vars PROVE BudgetInv'
  BY Zenon
<1>. USE AllocAssumption DEF IInv, vars, session, loop, statics, kernel, net, server, env, TypeOK,
   ControlTypes, SocketTypes, MessageTypes, WireInv, BudgetInv, RequestBudget, NoRequest,
   Awaiting, Allocating, Moving, Refreshing
<1>1. CASE StartSession
  BY <1>1 DEF StartSession
<1>2. CASE Connected
  BY <1>2, Zenon DEF Connected, ReleaseOld
<1>3. CASE AllocateLoop
  BY <1>3 DEF AllocateLoop, ReplaceSocket
<1>4. CASE SendAllocate
  BY SMTT(30), <1>4 DEF SendAllocate, SendRequest, ReservationToken, Reserving
<1>5. CASE AllocateSucceeds
  BY SMTT(30), <1>5 DEF AllocateSucceeds, StoreAllocation, ReadMobilityTicket, Reserving
<1>6. CASE AllocateChallenged
  BY <1>6, Zenon DEF AllocateChallenged
<1>7. CASE AllocateMismatch
  BY <1>7, Zenon DEF AllocateMismatch
<1>8. CASE AllocateRejected
  BY <1>8, Zenon DEF AllocateRejected
<1>9. CASE AllocateUnusable
  BY <1>9, Zenon DEF AllocateUnusable, Fault
<1>10. CASE RefreshGivesUp
  BY <1>10, Zenon DEF RefreshGivesUp
<1>11. CASE SendRefresh
  BY SMTT(30), <1>11 DEF SendRefresh, SendRequest
<1>12. CASE RefreshSkipsFirst
  BY <1>12, Zenon DEF RefreshSkipsFirst, Fault
<1>13. CASE RefreshSucceeds
  BY <1>13, Zenon DEF RefreshSucceeds, ReadMobilityTicket
<1>14. CASE RefreshChallenged
  BY <1>14, Zenon DEF RefreshChallenged
<1>15. CASE RefreshRejected
  BY <1>15, Zenon DEF RefreshRejected
<1>16. CASE AddressInUse
  BY <1>16, Zenon DEF AddressInUse, Fault, LeakSocket
<1>17. CASE ConnectFails
  BY <1>17, Zenon DEF ConnectFails, Fault, LeakSocket
<1>18. CASE SendFails
  BY <1>18, Zenon DEF SendFails, Fault
<1>19. CASE AllocateRecvFails
  BY <1>19, Zenon DEF AllocateRecvFails, Fault
<1>20. CASE RefreshRecvFails
  BY <1>20, Zenon DEF RefreshRecvFails, Fault
<1>21. CASE Retransmit
  BY <1>21, Zenon DEF Retransmit
<1>22. CASE Lose
  BY <1>22, Zenon DEF Lose, Loss
<1>23. CASE ServerRotatesNonce
  BY <1>23, Zenon DEF ServerRotatesNonce
<1>24. CASE Server
  BY <1>24, ServerFrame, Zenon
<1>25. CASE UNCHANGED vars
  BY <1>25, SMTT(20)
<1>. QED
  BY <1>1, <1>2, <1>3, <1>4, <1>5, <1>6, <1>7, <1>8, <1>9, <1>10, <1>11, <1>12, <1>13, <1>14,
     <1>15, <1>16, <1>17, <1>18, <1>19, <1>20, <1>21, <1>22, <1>23, <1>24, <1>25 DEF Next, Client,
     ClientFaults

\* Every step keeps the accounts of descriptors.
LEMMA DescriptorStep == IInv /\ [Next]_vars => DescriptorInv'
<1>. SUFFICES ASSUME IInv, [Next]_vars PROVE DescriptorInv'
  BY Zenon
<1>. USE AllocAssumption DEF IInv, vars, session, loop, statics, kernel, net, server, env, TypeOK,
   ControlTypes, SocketTypes, MessageTypes, WireInv, DescriptorInv, DescriptorsAccounted, Moving
<1>1. CASE StartSession
  BY <1>1, Zenon DEF StartSession
<1>2. CASE Connected
  BY <1>2 DEF Connected, ReleaseOld
<1>3. CASE AllocateLoop
  BY <1>3 DEF AllocateLoop, ReplaceSocket
<1>4. CASE SendAllocate
  BY <1>4, Zenon DEF SendAllocate, SendRequest, ReservationToken, Reserving
<1>5. CASE AllocateSucceeds
  BY <1>5 DEF AllocateSucceeds, StoreAllocation, ReadMobilityTicket, Reserving
<1>6. CASE AllocateChallenged
  BY <1>6, Zenon DEF AllocateChallenged
<1>7. CASE AllocateMismatch
  BY <1>7, Zenon DEF AllocateMismatch
<1>8. CASE AllocateRejected
  BY <1>8, Zenon DEF AllocateRejected
<1>9. CASE AllocateUnusable
  BY <1>9, Zenon DEF AllocateUnusable, Fault
<1>10. CASE RefreshGivesUp
  BY <1>10, Zenon DEF RefreshGivesUp
<1>11. CASE SendRefresh
  BY <1>11, Zenon DEF SendRefresh, SendRequest
<1>12. CASE RefreshSkipsFirst
  BY <1>12, Zenon DEF RefreshSkipsFirst, Fault
<1>13. CASE RefreshSucceeds
  BY <1>13, Zenon DEF RefreshSucceeds, ReadMobilityTicket
<1>14. CASE RefreshChallenged
  BY <1>14, Zenon DEF RefreshChallenged
<1>15. CASE RefreshRejected
  BY <1>15, Zenon DEF RefreshRejected
<1>16. CASE AddressInUse
  BY <1>16 DEF AddressInUse, Fault, LeakSocket
<1>17. CASE ConnectFails
  BY <1>17 DEF ConnectFails, Fault, LeakSocket
<1>18. CASE SendFails
  BY <1>18, Zenon DEF SendFails, Fault
<1>19. CASE AllocateRecvFails
  BY <1>19, Zenon DEF AllocateRecvFails, Fault
<1>20. CASE RefreshRecvFails
  BY <1>20, Zenon DEF RefreshRecvFails, Fault
<1>21. CASE Retransmit
  BY <1>21, Zenon DEF Retransmit
<1>22. CASE Lose
  BY <1>22, Zenon DEF Lose, Loss
<1>23. CASE ServerRotatesNonce
  BY <1>23, Zenon DEF ServerRotatesNonce
<1>24. CASE Server
  BY <1>24, ServerFrame, Zenon
<1>25. CASE UNCHANGED vars
  BY <1>25, SMTT(20)
<1>. QED
  BY <1>1, <1>2, <1>3, <1>4, <1>5, <1>6, <1>7, <1>8, <1>9, <1>10, <1>11, <1>12, <1>13, <1>14,
     <1>15, <1>16, <1>17, <1>18, <1>19, <1>20, <1>21, <1>22, <1>23, <1>24, <1>25, Zenon DEF Next,
     Client, ClientFaults

\* Every step keeps the session's hold on its allocation.
LEMMA GrantStep == IInv /\ [Next]_vars => GrantInv'
<1>. SUFFICES ASSUME IInv, [Next]_vars PROVE GrantInv'
  BY Zenon
<1>. USE AllocAssumption DEF IInv, vars, session, loop, statics, kernel, net, server, env, TypeOK,
   ControlTypes, SocketTypes, MessageTypes, WireInv, DescriptorInv, GrantInv, NoRequest, NoReply,
   Awaiting, Allocating, Moving, Refreshing
<1>1. CASE StartSession
  BY <1>1, Zenon DEF StartSession
<1>2. CASE Connected
  <2>1. /\ fd' = made + 1 /\ fd' \notin DOMAIN alloc
        /\ \A r \in wire : r.sock # fd'
        /\ UNCHANGED <<next, s_mobile_id, relay_addr, shown, call, wire, reply, alloc, mobile>>
    BY <1>2 DEF Connected
  <2>2. CASE next = "mobile"
    <3>1. pc' = "refresh" /\ Moving
      BY <1>2, <2>2, Zenon DEF Connected
    <3>2. \A r \in wire : r.ticket # call
      OBVIOUS
    <3>. QED
      BY <2>1, <3>1, <3>2
  <2>3. CASE next # "mobile"
    <3>1. pc' \in {"allocate", "send"} /\ Allocating
      BY <1>2, <2>3, Zenon DEF Connected
    <3>. QED
      BY <2>1, <2>3, <3>1, Zenon
  <2>. QED
    BY <2>2, <2>3, Zenon
<1>3. CASE AllocateLoop
  BY <1>3, Zenon DEF AllocateLoop, ReplaceSocket
<1>4. CASE SendAllocate
  BY <1>4, Zenon DEF SendAllocate, SendRequest, ReservationToken, Reserving
<1>5. CASE AllocateSucceeds
  BY SMTT(30), <1>5 DEF AllocateSucceeds, StoreAllocation, ReadMobilityTicket, Reserving
<1>6. CASE AllocateChallenged
  BY <1>6, Zenon DEF AllocateChallenged
<1>7. CASE AllocateMismatch
  BY <1>7, Zenon DEF AllocateMismatch
<1>8. CASE AllocateRejected
  BY <1>8, Zenon DEF AllocateRejected
<1>9. CASE AllocateUnusable
  BY <1>9, Zenon DEF AllocateUnusable, Fault
<1>10. CASE RefreshGivesUp
  BY <1>10, Zenon DEF RefreshGivesUp
<1>11. CASE SendRefresh
  BY SMTT(30), <1>11 DEF SendRefresh, SendRequest
<1>12. CASE RefreshSkipsFirst
  BY <1>12, Zenon DEF RefreshSkipsFirst, Fault
<1>13. CASE RefreshSucceeds
  BY <1>13, Zenon DEF RefreshSucceeds, ReadMobilityTicket
<1>14. CASE RefreshChallenged
  BY <1>14, Zenon DEF RefreshChallenged
<1>15. CASE RefreshRejected
  BY <1>15, Zenon DEF RefreshRejected
<1>16. CASE AddressInUse
  BY <1>16, Zenon DEF AddressInUse, Fault, LeakSocket
<1>17. CASE ConnectFails
  BY <1>17, Zenon DEF ConnectFails, Fault, LeakSocket
<1>18. CASE SendFails
  BY <1>18, Zenon DEF SendFails, Fault
<1>19. CASE AllocateRecvFails
  BY <1>19, Zenon DEF AllocateRecvFails, Fault
<1>20. CASE RefreshRecvFails
  BY <1>20, Zenon DEF RefreshRecvFails, Fault
<1>21. CASE Retransmit
  BY <1>21, Zenon DEF Retransmit
<1>22. CASE Lose
  BY <1>22, Zenon DEF Lose, Loss
<1>23. CASE ServerChallenges
  BY SMTT(30), <1>23 DEF ServerChallenges, Answer, Loss
<1>24. CASE ServerAllocates
  <2>1. PICK r \in wire, fits \in BOOLEAN :
          r.kind = "allocate" /\ (ServerRepeats(r, fits) \/ ServerGrants(r, fits))
    BY <1>24, Zenon DEF ServerAllocates
  <2>2. Awaiting /\ r = request => pc = "await" /\ r.sock = fd /\ r.c = call
    BY <2>1, SMTT(20)
  <2>3. CASE ServerRepeats(r, fits)
    <3>. DEFINE a == IF alloc[r.sock] = r.c THEN Granted(r, r.c, fits) ELSE [class |-> "mismatch"]
    <3>1. r.sock \in DOMAIN alloc /\ UNCHANGED <<alloc, mobile>> /\ Answer(r, a)
      BY <2>3, Zenon DEF ServerRepeats
    <3>2. /\ wire' = wire \ {r} /\ UNCHANGED <<pc, next, fd, s_mobile_id, relay_addr, shown, call>>
          /\ reply' = reply \/ (Awaiting /\ r = request /\ reply' = a)
      BY <3>1, AnswerFacts, Zenon
    <3>3. CASE reply' = reply
      BY <3>1, <3>2, <3>3, Zenon
    <3>4. CASE Awaiting /\ r = request /\ reply' = a
      <4>1. reply'.class = "success" =>
              /\ reply'.addr = call /\ alloc[fd] = call
              /\ reply'.ticket = IF mobile THEN call ELSE 0
        BY <2>2, <3>4, SMTT(20) DEF Granted
      <4>. QED
        BY <2>2, <3>1, <3>2, <3>4, <4>1
    <3>. QED
      BY <3>2, <3>3, <3>4, Zenon
  <2>4. CASE ServerGrants(r, fits)
    <3>1. r.sock \notin DOMAIN alloc /\ UNCHANGED mobile /\ Answer(r, Granted(r, r.c, fits))
      BY <2>4, Zenon DEF ServerGrants
    <3>2. /\ wire' = wire \ {r} /\ UNCHANGED <<pc, next, fd, s_mobile_id, relay_addr, shown, call>>
          /\ reply' = reply \/ (Awaiting /\ r = request /\ reply' = Granted(r, r.c, fits))
      BY <3>1, AnswerFacts, Zenon
    <3>3. /\ DOMAIN alloc' = DOMAIN alloc \cup {r.sock} /\ alloc'[r.sock] = r.c
          /\ \A t \in DOMAIN alloc : alloc'[t] = alloc[t]
      BY SMTT(30), <2>4, <3>1 DEF ServerGrants
    <3>4. Refreshing => (fd \in DOMAIN alloc' => fd \in DOMAIN alloc /\ alloc'[fd] = alloc[fd])
      BY <2>1, <3>1, <3>3, Zenon
    <3>5. CASE reply' = reply
      BY <3>1, <3>2, <3>3, <3>4, <3>5, Zenon
    <3>6. CASE Awaiting /\ r = request /\ reply' = Granted(r, r.c, fits)
      <4>1. reply'.addr = call /\ reply'.ticket = (IF mobile THEN call ELSE 0)
        BY <2>2, <3>6, Zenon DEF Granted
      <4>. QED
        BY <2>2, <3>1, <3>2, <3>3, <3>6, <4>1, Zenon
    <3>. QED
      BY <3>2, <3>5, <3>6, Zenon
  <2>. QED
    BY <2>1, <2>3, <2>4, Zenon
<1>25. CASE ServerRefreshes
  <2>1. PICK r \in wire :
          /\ r.kind = "refresh" /\ r.nonce = srvNonce
          /\ ServerRenews(r) \/ \E s \in DOMAIN alloc : ServerMoves(r, s)
    BY <1>25, SMTT(20) DEF ServerRefreshes
  <2>2. CASE ServerRenews(r)
    <3>1. /\ wire' = wire \ {r} /\ UNCHANGED <<pc, next, fd, s_mobile_id, relay_addr, shown, call, alloc, mobile>>
          /\ r.sock \in DOMAIN alloc
          /\ reply' = reply \/ (Awaiting /\ r = request /\ reply' = Granted(r, alloc[r.sock], TRUE))
      BY <2>2, AnswerFacts, Zenon DEF ServerRenews
    <3>2. CASE reply' = reply
      BY <3>1, <3>2, Zenon
    <3>3. CASE Awaiting /\ r = request /\ reply' = Granted(r, alloc[r.sock], TRUE)
      <4>1. pc = "awaitRefresh" /\ r.sock = fd /\ reply'.ticket = s_mobile_id
        BY <2>1, <3>1, <3>3, SMTT(20) DEF Granted
      <4>. QED
        BY <3>1, <4>1, Zenon
    <3>. QED
      BY <3>1, <3>2, <3>3, Zenon
  <2>3. ASSUME NEW s \in DOMAIN alloc, ServerMoves(r, s)
        PROVE  GrantInv'
    <3>1. /\ wire' = wire \ {r} /\ UNCHANGED <<pc, next, fd, s_mobile_id, relay_addr, shown, call, mobile>>
          /\ r.sock \notin DOMAIN alloc /\ r.ticket # 0 /\ alloc[s] = r.ticket
          /\ reply' = reply \/ (Awaiting /\ r = request /\ reply' = Granted(r, r.ticket, TRUE))
      <4>1. /\ Answer(r, Granted(r, r.ticket, TRUE))
            /\ r.sock \notin DOMAIN alloc /\ r.ticket # 0 /\ alloc[s] = r.ticket
            /\ UNCHANGED mobile
        BY <2>3, Zenon DEF ServerMoves
      <4>. QED
        BY <4>1, AnswerFacts, Zenon
    <3>2. /\ DOMAIN alloc' = (DOMAIN alloc \ {s}) \cup {r.sock}
          /\ alloc'[r.sock] = r.ticket
          /\ \A t \in DOMAIN alloc \ {s} : t # r.sock => alloc'[t] = alloc[t]
      BY SMTT(30), <2>3 DEF ServerMoves
    <3>3. pc = "await" /\ reply.class = "success" => fd # s /\ fd # r.sock
      BY <2>1, <3>1
    <3>4. Refreshing /\ fd \in DOMAIN alloc => fd # s /\ fd # r.sock
      BY <2>1, <3>1, Zenon
    <3>5. Refreshing /\ fd = r.sock => r.ticket = relay_addr
      BY <2>1, <3>1, Zenon
    <3>6. Refreshing => (fd \in DOMAIN alloc' => alloc'[fd] = relay_addr)
      BY <3>2, <3>4, <3>5, Zenon
    <3>7. pc = "await" /\ reply.class = "success" => fd \in DOMAIN alloc' /\ alloc'[fd] = call
      BY <3>2, <3>3, Zenon
    <3>8. Refreshing /\ fd \in DOMAIN alloc => fd \in DOMAIN alloc'
      BY <3>2, <3>4, Zenon
    <3>9. CASE reply' = reply
      BY <3>1, <3>6, <3>7, <3>8, <3>9, Zenon
    <3>10. CASE Awaiting /\ r = request /\ reply' = Granted(r, r.ticket, TRUE)
      <4>1. pc = "awaitRefresh" /\ r.sock = fd /\ r.ticket = s_mobile_id
        BY <2>1, <3>10, Zenon
      <4>2. fd \in DOMAIN alloc' /\ reply'.ticket = s_mobile_id
        BY <3>2, <3>10, <4>1, Zenon DEF Granted
      <4>. QED
        BY <3>1, <3>6, <3>8, <4>1, <4>2, Zenon
    <3>. QED
      BY <3>1, <3>9, <3>10, Zenon
  <2>. QED
    BY <2>1, <2>2, <2>3, Zenon
<1>26. CASE ServerRejects
  BY SMTT(30), <1>26 DEF ServerRejects, Answer, Loss
<1>27. CASE ServerRotatesNonce
  BY <1>27, Zenon DEF ServerRotatesNonce
<1>28. CASE UNCHANGED vars
  BY <1>28, SMTT(20)
<1>. QED
  BY <1>1, <1>2, <1>3, <1>4, <1>5, <1>6, <1>7, <1>8, <1>9, <1>10, <1>11, <1>12, <1>13, <1>14,
     <1>15, <1>16, <1>17, <1>18, <1>19, <1>20, <1>21, <1>22, <1>23, <1>24, <1>25, <1>26, <1>27,
     <1>28 DEF Next, Client, ClientFaults, Server

\* Every step keeps the token unused.
LEMMA TokenStep == IInv /\ [Next]_vars => TokenInv'
<1>. SUFFICES ASSUME IInv, [Next]_vars PROVE TokenInv'
  BY Zenon
<1>. USE AllocAssumption DEF IInv, vars, session, loop, statics, kernel, net, server, env, TypeOK,
   ControlTypes, SocketTypes, MessageTypes, WireInv, GrantInv, TokenInv, NoRequest, NoReply,
   Awaiting, Allocating, Moving, Refreshing, Reserving
<1>1. CASE StartSession
  BY <1>1, Zenon DEF StartSession
<1>2. CASE Connected
  BY <1>2, Zenon DEF Connected, ReleaseOld
<1>3. CASE AllocateLoop
  BY <1>3, Zenon DEF AllocateLoop, ReplaceSocket
<1>4. CASE SendAllocate
  BY <1>4, Zenon DEF SendAllocate, SendRequest, ReservationToken, Reserving
<1>5. CASE AllocateSucceeds
  <2>1. /\ current_reservation_token' = IF Reserving THEN call ELSE 0
        /\ allocate_rtcp' = ~allocate_rtcp
        /\ pc' # "await"
        /\ UNCHANGED <<spent, wire>>
    BY <1>5, Zenon DEF AllocateSucceeds, StoreAllocation
  <2>2. call # 0 /\ call \notin spent /\ \A r \in wire : r.token # call
    BY SMTT(30), <1>5 DEF AllocateSucceeds
  <2>3. 0 \notin spent
    OBVIOUS
  <2>4. CASE NoRtcp
    BY <2>1, <2>4, Zenon
  <2>5. CASE ~NoRtcp /\ allocate_rtcp
    BY <2>1, <2>3, <2>5, Zenon
  <2>6. CASE ~NoRtcp /\ ~allocate_rtcp
    BY <2>1, <2>2, <2>6, Zenon
  <2>. QED
    BY <2>4, <2>5, <2>6, Zenon
<1>6. CASE AllocateChallenged
  BY <1>6, Zenon DEF AllocateChallenged
<1>7. CASE AllocateMismatch
  BY <1>7, Zenon DEF AllocateMismatch
<1>8. CASE AllocateRejected
  BY <1>8, Zenon DEF AllocateRejected
<1>9. CASE AllocateUnusable
  BY <1>9, Zenon DEF AllocateUnusable, Fault
<1>10. CASE RefreshGivesUp
  BY <1>10, Zenon DEF RefreshGivesUp
<1>11. CASE SendRefresh
  BY SMTT(30), <1>11 DEF SendRefresh, SendRequest
<1>12. CASE RefreshSkipsFirst
  <2>1. wire' = wire \cup {request} /\ request.token = 0 /\ pc = "awaitRefresh" /\ pc' = pc
    BY <1>12, Zenon DEF RefreshSkipsFirst
  <2>2. UNCHANGED <<next, statics, spent>>
    BY <1>12, Zenon DEF RefreshSkipsFirst
  <2>. QED
    BY <2>1, <2>2, Zenon
<1>13. CASE RefreshSucceeds
  BY <1>13, Zenon DEF RefreshSucceeds, ReadMobilityTicket
<1>14. CASE RefreshChallenged
  BY <1>14, Zenon DEF RefreshChallenged
<1>15. CASE RefreshRejected
  BY <1>15, Zenon DEF RefreshRejected
<1>16. CASE AddressInUse
  BY <1>16, Zenon DEF AddressInUse, Fault, LeakSocket
<1>17. CASE ConnectFails
  BY <1>17, Zenon DEF ConnectFails, Fault, LeakSocket
<1>18. CASE SendFails
  BY <1>18, Zenon DEF SendFails, Fault
<1>19. CASE AllocateRecvFails
  BY <1>19, Zenon DEF AllocateRecvFails, Fault
<1>20. CASE RefreshRecvFails
  BY <1>20, Zenon DEF RefreshRecvFails, Fault
<1>21. CASE Retransmit
  <2>1. wire' = wire \cup {request} /\ (pc = "awaitRefresh" => request.token = 0)
    BY <1>21, Zenon DEF Retransmit
  <2>2. UNCHANGED <<pc, next, reply, call, statics, spent>> /\ Awaiting
    BY <1>21, Zenon DEF Retransmit
  <2>3. CASE pc = "await"
    BY <2>2, <2>3, Zenon
  <2>4. CASE pc = "awaitRefresh"
    BY <2>1, <2>2, <2>4, Zenon
  <2>. QED
    BY <2>2, <2>3, <2>4, Zenon
<1>22. CASE Lose
  BY <1>22, Zenon DEF Lose, Loss
<1>23. CASE ServerChallenges
  BY SMTT(30), <1>23 DEF ServerChallenges, Answer, Loss
<1>24. CASE ServerAllocates
  <2>1. PICK r \in wire, fits \in BOOLEAN :
          /\ r.kind = "allocate" /\ r.nonce = srvNonce
          /\ ServerRepeats(r, fits) \/ ServerGrants(r, fits)
    BY <1>24, Zenon DEF ServerAllocates
  <2>2. /\ wire' \subseteq wire /\ spent' \subseteq spent \cup ({r.token} \ {0})
        /\ UNCHANGED <<pc, next, call, statics>>
        /\ \/ reply' = reply
           \/ Awaiting /\ r = request /\ reply' = Granted(r, r.c, fits)
           \/ Awaiting /\ r = request /\ reply' = [class |-> "mismatch"]
    BY <2>1, AnswerFacts DEF ServerRepeats, ServerGrants
  <2>3. pc = "await" /\ reply'.class = "success" => reply'.token = IF Reserving THEN call ELSE 0
    <3>1. CASE reply' = reply
      BY <2>2, <3>1, Zenon
    <3>2. CASE Awaiting /\ r = request /\ reply' = Granted(r, r.c, fits)
      BY <2>1, <3>2, Zenon DEF Granted
    <3>3. CASE reply' = [class |-> "mismatch"]
      BY <3>3, Zenon
    <3>. QED
      BY <2>2, <3>1, <3>2, <3>3, Zenon
  <2>. QED
    BY <2>1, <2>2, <2>3, Zenon
<1>25. CASE ServerRefreshes
  <2>1. PICK r \in wire :
          /\ r.kind = "refresh" /\ r.nonce = srvNonce
          /\ ServerRenews(r) \/ \E s \in DOMAIN alloc : ServerMoves(r, s)
    BY <1>25, Zenon DEF ServerRefreshes
  <2>2. /\ wire' \subseteq wire
        /\ UNCHANGED <<pc, next, call, statics, spent>>
        /\ reply' = reply \/ (Awaiting /\ r = request)
    BY <2>1, AnswerFacts DEF ServerRenews, ServerMoves
  <2>3. pc = "await" => reply' = reply
    BY <2>1, <2>2, Zenon
  <2>. QED
    BY <2>2, <2>3, Zenon
<1>26. CASE ServerRejects
  BY SMTT(30), <1>26 DEF ServerRejects, Answer, Loss
<1>27. CASE ServerRotatesNonce
  BY <1>27, Zenon DEF ServerRotatesNonce
<1>28. CASE UNCHANGED vars
  BY <1>28, Zenon
<1>. QED
  BY <1>1, <1>2, <1>3, <1>4, <1>5, <1>6, <1>7, <1>8, <1>9, <1>10, <1>11, <1>12, <1>13, <1>14,
     <1>15, <1>16, <1>17, <1>18, <1>19, <1>20, <1>21, <1>22, <1>23, <1>24, <1>25, <1>26, <1>27,
     <1>28 DEF Next, Client, ClientFaults, Server

-------------------------------------------------------------------------------

\* IInv is an inductive invariant of the specification.
THEOREM AllocInvariance == Spec => []IInv
<1>1. IInv /\ [Next]_vars => IInv'
  BY ControlStep, SocketStep, FlagStep, MessageStep, WireStep, BudgetStep, DescriptorStep,
     GrantStep, TokenStep, Zenon DEF IInv, TypeOK
<1>. QED
  BY InitInv, <1>1, PTL DEF Spec

\* Descriptors, table entries and call numbers stay within what was created.
THEOREM AllocTypeCorrect == Spec => []TypeOK
<1>1. IInv => TypeOK
  BY Zenon DEF IInv
<1>. QED
  BY AllocInvariance, <1>1, PTL

\* clnet_allocate never sends more than MaxAttempts Allocate requests, nor more
\* than MaxAttempts + 1 Refresh requests, in one call.
THEOREM BudgetCorrect == Spec => []RequestBudget
<1>1. IInv => RequestBudget
  BY Zenon DEF IInv, BudgetInv
<1>. QED
  BY AllocInvariance, <1>1, PTL

\* A session that clnet_allocate reports as allocated holds, on the socket it
\* uses, the allocation whose address it stored and showed.
THEOREM GrantCorrect == Spec => []GrantedOnReturn
<1>1. IInv => GrantedOnReturn
  BY Zenon DEF IInv, GrantInv, WireInv, GrantedOnReturn, Refreshing, TypeOK, SocketTypes
<1>. QED
  BY AllocInvariance, <1>1, PTL

\* No descriptor is leaked but the ones clnet_connect forgets.
THEOREM DescriptorsCorrect == Spec => []DescriptorsAccounted
<1>1. IInv => DescriptorsAccounted
  BY Zenon DEF IInv, DescriptorInv
<1>. QED
  BY AllocInvariance, <1>1, PTL

\* After a successful session the next one's reservation token is unused.
THEOREM TokenCorrect == Spec => []TokenReady
<1>1. IInv => TokenReady
  BY Zenon DEF IInv, TokenInv, TokenReady, Refreshing
<1>. QED
  BY AllocInvariance, <1>1, PTL
===============================================================================
