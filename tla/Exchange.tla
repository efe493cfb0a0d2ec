------------------------------- MODULE Exchange -------------------------------
(***************************************************************************)
(* What send_buffer followed by recv_buffer (p2p_client.c) promises to the *)
(* functions that call them (clnet_allocate, turn_channel_bind,            *)
(* turn_create_permission): a remote call.  Calls are numbered; at most    *)
(* one is pending; a call that returns a reply returns one the server made *)
(* for that very call, whatever the network did in between.                *)
(***************************************************************************)
EXTENDS Naturals

VARIABLES call,     \* number of calls made so far
          pending,  \* is call number `call' waiting for its reply?
          answered, \* the calls the server has executed
          last      \* how the last finished call returned

evars == <<call, pending, answered, last>>

EInit == /\ call = 0
         /\ pending = FALSE
         /\ answered = {}
         /\ last = "none"

\* The request leaves the client.
Call == /\ ~pending
        /\ call' = call + 1
        /\ pending' = TRUE
        /\ UNCHANGED <<answered, last>>

\* The request cannot be sent: the call is over before it began.
CallFails == /\ ~pending
             /\ call' = call + 1
             /\ last' = "error"
             /\ UNCHANGED <<pending, answered>>

\* The server may execute any request ever made, also long after the call
\* that made it is over.
Answer == /\ \E c \in 1..call : answered' = answered \cup {c}
          /\ UNCHANGED <<call, pending, last>>

ReturnReply == /\ pending
               /\ call \in answered
               /\ pending' = FALSE
               /\ last' = "reply"
               /\ UNCHANGED <<call, answered>>

ReturnError == /\ pending
               /\ pending' = FALSE
               /\ last' = "error"
               /\ UNCHANGED <<call, answered>>

ENext == Call \/ CallFails \/ Answer \/ ReturnReply \/ ReturnError

ESpec == EInit /\ [][ENext]_evars
===============================================================================
