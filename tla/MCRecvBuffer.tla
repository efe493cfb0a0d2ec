----------------------------- MODULE MCRecvBuffer -----------------------------
(* RecvBuffer for TLC: over UDP the caller allocates and refreshes, over    *)
(* TCP it takes the messages below.                                         *)
EXTENDS RecvBuffer

MCMethods == {"allocate", "refresh"}

\* Channel data that fits, with and without padding, and whose size wraps, to 0
\* by its padding and to 4; STUN messages that fit, are too long for
\* the buffer, have no whole words, and wrap to 4.
MCMessages == [kind : {"channel"}, len : {0, 3, 27, 30}]
                \cup [kind : {"stun"}, len : {0, 2, 4, 16}]
===============================================================================
