------------------------------ MODULE RecvBuffer ------------------------------
(***************************************************************************)
(* recv_buffer (cpp/p2p/p2p_client.c) over the two transports it serves    *)
(* without encryption.  The flag use_tcp is set once, before the client    *)
(* starts, and chooses between the exchange over datagrams                 *)
(* (TurnTransaction) and the framing of a stream (TcpFraming).             *)
(***************************************************************************)
EXTENDS TurnTransaction, TcpFraming

VARIABLE use_tcp

recvVars == <<use_tcp, txVars, tcpVars>>

\* The state of the transport that is not used is its first one.
RecvInit ==
  /\ use_tcp \in BOOLEAN
  /\ TxInit /\ TcpInit
  /\ use_tcp => selectable /\ script = CHOOSE s \in [Tids -> Methods] : TRUE

RecvNext ==
  /\ UNCHANGED use_tcp
  /\ \/ ~use_tcp /\ TxNext /\ UNCHANGED tcpVars
     \/ use_tcp /\ TcpNext /\ UNCHANGED txVars

\* Over TCP no call is promised to return: the peer may send nothing more.
RecvSpec == RecvInit /\ [][RecvNext]_recvVars /\ TxFairness
===============================================================================
