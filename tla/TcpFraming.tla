------------------------------ MODULE TcpFraming ------------------------------
(***************************************************************************)
(* How the client takes STUN messages and channel data off a plain TCP     *)
(* stream.  recv_buffer peeks at what the socket holds, asks               *)
(* stun_get_message_len_str how long the message at the front is, and      *)
(* consumes that many bytes, or none.  The network cuts the stream into    *)
(* segments as it likes.                                                   *)
(*                                                                         *)
(* A message is its kind and its header's length field, which may be any:  *)
(* the 16-bit sums of the code wrap.  The stream is the sequence of        *)
(* messages not yet wholly consumed, and how much of the first one is gone.*)
(***************************************************************************)
EXTENDS Integers, Sequences

CONSTANTS Messages,  \* [kind : {"stun", "channel"}, len : 0..(Mod - 1)]
          Peek,      \* sizeof(message->buf) - 1
          Mod,       \* 2^16, the width of the lengths
          MaxSent    \* bound: messages the peer sends

ASSUME FramingAssumption ==
  /\ Peek \in Nat \ {0} /\ Mod \in Nat \ {0} /\ MaxSent \in Nat
  /\ Messages \subseteq [kind : {"stun", "channel"}, len : 0..(Mod - 1)]

VARIABLES
  written, \* messages the peer has written
  stream,  \* those of them not wholly consumed
  unread,  \* the bytes of those, without the ones that are gone
  skew,    \* bytes taken since the stream was last on a boundary
  avail,   \* bytes in the socket
  got,     \* what recv_buffer returned: a message and a length
  tried    \* the bytes the last attempt that returned 0 saw, 0 when none did

tcpVars == <<written, stream, unread, skew, avail, got, tried>>

Padded(n) == 4 * ((n + 3) \div 4)

\* stun_init_channel_message_str with do_padding, and a STUN message.
WireSize(m) == IF m.kind = "channel" THEN 4 + Padded(m.len) ELSE 20 + m.len

AppLen(m) == IF m.kind = "channel" THEN 4 + m.len ELSE 20 + m.len

TcpInit ==
  /\ written = <<>> /\ stream = <<>> /\ unread = 0 /\ skew = 0 /\ avail = 0
  /\ got = <<>> /\ tried = 0

PeerSends ==
  /\ Len(written) < MaxSent
  /\ \E m \in Messages : /\ written' = Append(written, m) /\ stream' = Append(stream, m)
                         /\ unread' = unread + WireSize(m)
  /\ UNCHANGED <<skew, avail, got, tried>>

\* The next segment: some of what is on its way.
Segment ==
  /\ \E n \in 1..(unread - avail) : avail' = avail + n
  /\ UNCHANGED <<written, stream, unread, skew, got, tried>>

\* Mutant: the padding of channel data is left in the stream.
MessageLenUnpadded(m, blen) ==
  LET len == (m.len + 20) % Mod
      bret == (4 + m.len) % Mod
  IN  IF m.kind = "stun" /\ blen >= 20 /\ m.len % 4 = 0 /\ len <= blen THEN len
      ELSE IF m.kind = "channel" /\ blen >= 4 /\ bret <= blen THEN bret
      ELSE -1

\* Mutant: a message that fills what was peeked at is not taken yet.
MessageLenStrict(m, blen) ==
  LET len == (m.len + 20) % Mod
      bret == Padded((4 + m.len) % Mod) % Mod
  IN  IF m.kind = "stun" /\ blen >= 20 /\ m.len % 4 = 0 /\ len < blen THEN len
      ELSE IF m.kind = "channel" /\ blen >= 4 /\ bret < blen THEN bret
      ELSE -1

\* Mutant: the length field is trusted once the header is there.
MessageLenTrusting(m, blen) ==
  LET len == (m.len + 20) % Mod
      bret == Padded((4 + m.len) % Mod) % Mod
  IN  IF m.kind = "stun" /\ blen >= 20 /\ m.len % 4 = 0 THEN len
      ELSE IF m.kind = "channel" /\ blen >= 4 THEN bret
      ELSE -1

\* stun_get_message_len_str with padding, blen bytes with m at the front.  (Its
\* middle branch, an HTTP request, never matches a message of this stream.)
MessageLen(m, blen) ==
  LET len == (m.len + 20) % Mod
      bret == Padded((4 + m.len) % Mod) % Mod
  IN  IF m.kind = "stun" /\ blen >= 20 /\ m.len % 4 = 0 /\ len <= blen THEN len
      ELSE IF m.kind = "channel" /\ blen >= 4 /\ bret <= blen THEN bret
      ELSE -1

\* What recv with MSG_PEEK shows of the socket.
Peeked == IF Peek <= avail THEN Peek ELSE avail

\* The plain TCP branch of recv_buffer.  With nothing there the call blocks;
\* otherwise the front is consumed and app_msg_len returned, or 0 is, on which
\* every caller gives up.  A later caller may find the rest there.
TcpRecv ==
  /\ avail > 0 /\ skew = 0
  /\ LET mlen == MessageLen(Head(stream), Peeked)
     IN  IF mlen > 0
         THEN /\ got' = Append(got, [message |-> Head(stream), len |-> AppLen(Head(stream)) % Mod])
              /\ avail' = avail - mlen /\ unread' = unread - mlen
              /\ IF mlen = WireSize(Head(stream))
                 THEN stream' = Tail(stream) /\ skew' = 0
                 ELSE stream' = stream /\ skew' = mlen
              /\ tried' = 0
         ELSE tried' = avail /\ UNCHANGED <<got, avail, stream, unread, skew>>
  /\ UNCHANGED written

\* Off a message boundary the bytes at the front may look like anything: any
\* number of those peeked at is consumed, or none.
RecvAstray ==
  /\ avail > 0 /\ skew > 0
  /\ \E n \in 0..Peeked : avail' = avail - n /\ unread' = unread - n /\ skew' = skew + n
  /\ UNCHANGED <<written, stream, got, tried>>

Done == Len(written) = MaxSent /\ unread = 0 /\ UNCHANGED tcpVars

TcpNext == PeerSends \/ Segment \/ TcpRecv \/ RecvAstray \/ Done

TcpSpec == TcpInit /\ [][TcpNext]_tcpVars

-------------------------------------------------------------------------------
\* The shape of the state.
TcpTypeOK ==
  /\ written \in Seq(Messages) /\ stream \in Seq(Messages)
  /\ unread \in Nat /\ skew \in Nat /\ avail \in Int /\ tried \in Nat
  /\ got \in Seq([message : Messages, len : 0..(Mod - 1)])

\* Whatever the length fields say, the ones whose sum wraps included, recv_buffer
\* consumes no byte that has not arrived: the recv after the one with MSG_PEEK
\* never waits for the network.
NeverWaits == avail \in 0..unread

\* A message recv_buffer can take: it fits what is peeked at, its size does not
\* wrap, and a STUN message has whole words.
Fit(m) == WireSize(m) <= Peek /\ WireSize(m) < Mod /\ (m.kind = "stun" => m.len % 4 = 0)

AllFit == \A i \in 1..Len(written) : Fit(written[i])

\* However the stream is cut, as long as the messages fit recv_buffer stays on
\* their boundaries: what it returned and what is unread make up what was sent,
\* in order, and each was returned with the length of its header and data.
Framed ==
  AllFit =>
    /\ skew = 0
    /\ written = [i \in 1..Len(got) |-> got[i].message] \o stream
    /\ \A i \in 1..Len(got) : got[i].len = AppLen(got[i].message)

\* recv_buffer's callers give up when it returns 0.  That happens only when TCP
\* has cut the message at the front and the rest of it is still on its way.
GivesUpOnPiece ==
  AllFit /\ tried > 0 => stream # <<>> /\ tried < WireSize(Head(stream))

===============================================================================
