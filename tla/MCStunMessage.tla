---------------------------- MODULE MCStunMessage ----------------------------
(* Instances of StunMessage for TLC. *)
EXTENDS StunMessage

CONSTANT BodyWords  \* longest body of another datagram, in words

MCWords == {[type |-> "MESSAGE_INTEGRITY", len |-> 20], [type |-> "FINGERPRINT", len |-> 4]}

MCRaw == [type : {"MESSAGE_INTEGRITY", "FINGERPRINT", "ORIGIN"}, len : {0, 3, 4, 20, 65535}]

MCDatagrams ==
  UNION {{d \in [words : [1..n -> MCRaw], hlen : {0, 3, 4, 7, 8, 12, 13, 65535},
                 len : {0, 19, HeaderLen, HeaderLen + 3} \cup {HeaderLen + 4 * n}] :
            d.len <= HeaderLen + 4 * n} : n \in 0..BodyWords}

===============================================================================
