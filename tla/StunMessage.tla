----------------------------- MODULE StunMessage -----------------------------
(***************************************************************************)
(* A STUN message as ns_turn_msg.c builds and reads it: a header with a    *)
(* length field, then attributes, each a 4-byte header (type, length) and  *)
(* a value padded to a multiple of 4.  The body is a sequence of 4-byte    *)
(* words.  A reader may take any word for an attribute header, so every    *)
(* word, a value's too, has the type and the length it would be read as.   *)
(*                                                                         *)
(* One message goes through the hands of the client: a builder adds its    *)
(* attributes, add_origin and add_integrity theirs, the fingerprint is     *)
(* put at the end.  The message that is read is that one, or any datagram. *)
(* The CRC is what it was computed from, and two of them are equal when    *)
(* those inputs are; of the HMAC only the key matters, since nothing       *)
(* compares it.                                                            *)
(***************************************************************************)
EXTENDS Integers, Sequences

CONSTANTS Limit,     \* MAX_STUN_MESSAGE_SIZE
          Words,     \* what the words of a value may read as
          Lens,      \* lengths of the origin, user name, nonce and realm
          Keys,      \* the keys derived from user name, realm and password
          Datagrams  \* other messages that may arrive

Types == {"REQUESTED_TRANSPORT", "LIFETIME", "MOBILITY_TICKET", "EVEN_PORT", "RESERVATION_TOKEN",
          "REQUESTED_ADDRESS_FAMILY", "ADDITIONAL_ADDRESS_FAMILY", "CHANNEL_NUMBER",
          "XOR_PEER_ADDRESS", "ORIGIN", "USERNAME", "NONCE", "REALM", "MESSAGE_INTEGRITY",
          "FINGERPRINT"}
Word == [type : Types, len : Nat]
Null == "null"
HeaderLen == 20
ShaSize == 20

ASSUME MessageAssumption ==
  /\ Limit \in Nat /\ Limit > HeaderLen + 8 /\ Lens \subseteq Nat /\ Words \subseteq Word
  /\ Datagrams \subseteq [words : Seq(Word), hlen : Nat, len : Nat]
  /\ \A d \in Datagrams : d.len <= HeaderLen + 4 * Len(d.words)

VARIABLES
  phase,   \* what is being done to the message
  words,   \* the body
  hlen,    \* the header's length field
  len,     \* the length of the buffer
  todo,    \* attributes still to be added in this phase
  added,   \* the attributes added, each with the word it starts at
  mac,     \* the key the HMAC was computed with
  crc,     \* what the CRC was computed from
  full,    \* was there no room for the fingerprint?
  target,  \* the attribute type searched for
  cursor,  \* the word that starts the attribute in hand, 0 for NULL
  seen,    \* attributes the search came by, in the client's own message
  outcome  \* what the last check returned

body == <<words, hlen, len, added, mac, crc, full>>
reading == <<target, cursor, seen, outcome>>
vars == <<phase, body, todo, reading>>

Unknown == [of |-> "nothing"]

Init ==
  /\ phase = "idle"
  /\ words = <<>> /\ hlen = 0 /\ len = 0 /\ added = <<>>
  /\ mac = Unknown /\ crc = Unknown /\ full = FALSE
  /\ todo = <<>>
  /\ target = Null /\ cursor = 0 /\ seen = <<>> /\ outcome = Unknown

-------------------------------------------------------------------------------
(* Writing *)

Attr(t, l) == [type |-> t, len |-> l]

Optional(b, a) == IF b THEN <<a>> ELSE <<>>

\* REQUESTED-TRANSPORT, LIFETIME, then what the options ask for.
AllocateRequest(af4, af6, mobile, rt, ep) ==
  <<Attr("REQUESTED_TRANSPORT", 4), Attr("LIFETIME", 4)>>
    \o Optional(mobile, Attr("MOBILITY_TICKET", 0))
    \o Optional(ep, Attr("EVEN_PORT", 1))
    \o Optional(rt, Attr("RESERVATION_TOKEN", 8))
    \o Optional(~rt /\ af4 # af6, Attr("REQUESTED_ADDRESS_FAMILY", 4))
    \o Optional(~rt /\ af4 /\ af6, Attr("ADDITIONAL_ADDRESS_FAMILY", 4))

ChannelBindRequest(addrLen) ==
  <<Attr("CHANNEL_NUMBER", 4), Attr("XOR_PEER_ADDRESS", addrLen)>>

\* stun_init_request_str: an empty body; then the builder's attributes.
\* clnet_allocate never gives both a token and EVEN-PORT.
StartRequest ==
  /\ phase = "idle"
  /\ len' = HeaderLen
  /\ \/ todo' = <<>>                                         \* a Binding request
     \/ \E addrLen \in {8, 20} : todo' = ChannelBindRequest(addrLen)
     \/ \E af4, af6, mobile, rt, ep \in BOOLEAN :
          ~(rt /\ ep) /\ todo' = AllocateRequest(af4, af6, mobile, rt, ep)
  /\ phase' = "build"
  /\ UNCHANGED <<words, hlen, added, mac, crc, full, reading>>

Padded(n) == 4 * ((n + 3) \div 4)

CommandMessageLen == IF len < HeaderLen \/ hlen + HeaderLen > len THEN -1 ELSE hlen + HeaderLen

NewLen(alen) == Padded(CommandMessageLen + 4 + alen)

\* Mutant: a message of exactly the limit is allowed.
FitsAtLimit(alen) == NewLen(alen) <= Limit

Fits(alen) == NewLen(alen) < Limit

\* stun_attr_add_str, when there is room: the header's length and the buffer's
\* move to the end of the value; the value's words are whatever they are.
AttrAdd(a, value) ==
  /\ hlen' = NewLen(a.len) - HeaderLen
  /\ len' = NewLen(a.len)
  /\ words' = words \o <<a>> \o [i \in 1..(NewLen(a.len) - len - 4) \div 4 |-> value]
  /\ added' = Append(added, [at |-> Len(words) + 1, attr |-> a])

\* The next attribute of the builder.  An add that finds no room makes the
\* builder return, and the callers ignore that; for RESERVATION-TOKEN the
\* builder ignores it too.
BuildStep ==
  /\ phase = "build" /\ todo # <<>>
  /\ IF Fits(Head(todo).len)
     THEN (\E v \in Words : AttrAdd(Head(todo), v)) /\ todo' = Tail(todo)
     ELSE /\ todo' = IF Head(todo).type = "RESERVATION_TOKEN" THEN Tail(todo) ELSE <<>>
          /\ UNCHANGED <<words, hlen, len, added>>
  /\ UNCHANGED <<phase, mac, crc, full, reading>>

\* add_origin is about to add three ORIGINs, or none.
StartOrigin ==
  /\ phase = "build" /\ todo = <<>>
  /\ \/ todo' = <<>>
     \/ \E l \in Lens : todo' = <<Attr("ORIGIN", 23), Attr("ORIGIN", l), Attr("ORIGIN", 17)>>
  /\ phase' = "origin"
  /\ UNCHANGED <<body, reading>>

OriginStep ==
  /\ phase = "origin" /\ todo # <<>>
  /\ IF Fits(Head(todo).len)
     THEN \E v \in Words : AttrAdd(Head(todo), v)
     ELSE UNCHANGED <<words, hlen, len, added>>
  /\ todo' = Tail(todo)
  /\ UNCHANGED <<phase, mac, crc, full, reading>>

\* add_integrity: nothing without a nonce, otherwise the three credentials and
\* the HMAC.
StartIntegrity ==
  /\ phase = "origin" /\ todo = <<>>
  /\ \/ phase' = "mark" /\ todo' = <<>>
     \/ /\ phase' = "sign"
        /\ \E l \in Lens :
             todo' = <<Attr("USERNAME", l), Attr("NONCE", 16), Attr("REALM", l),
                       Attr("MESSAGE_INTEGRITY", ShaSize)>>
  /\ UNCHANGED <<body, reading>>

\* An add that finds no room makes add_integrity fail and the request is not
\* sent.
SignStep ==
  /\ phase = "sign" /\ todo # <<>>
  /\ IF Fits(Head(todo).len)
     THEN /\ \E v \in Words : AttrAdd(Head(todo), v)
          /\ todo' = Tail(todo)
          /\ IF Head(todo).type = "MESSAGE_INTEGRITY"
             THEN /\ mac' \in Keys
                  /\ phase' = "mark"
             ELSE UNCHANGED <<mac, phase>>
     ELSE phase' = "dropped" /\ UNCHANGED <<words, hlen, len, added, mac, todo>>
  /\ UNCHANGED <<crc, full, reading>>

\* Mutant: the CRC covers the length field as it was before the fingerprint.
CrcOfEarlier(ws, l) ==
  [of |-> "crc", at |-> Len(ws), covers |-> SubSeq(ws, 1, Len(ws) - 2), hlen |-> hlen]

\* The CRC in the message's last word covers all but the last two.
CrcOf(ws, l) == [of |-> "crc", at |-> Len(ws), covers |-> SubSeq(ws, 1, Len(ws) - 2), hlen |-> l]

\* stun_attr_add_fingerprint_str does not look at what its add returned: with
\* no room the CRC replaces the last word there is.
AddFingerprint ==
  /\ phase = "mark"
  /\ \E v \in Words :
       IF Fits(4)
       THEN AttrAdd(Attr("FINGERPRINT", 4), v) /\ full' = FALSE
       ELSE /\ words' = [words EXCEPT ![Len(words)] = v]
            /\ full' = TRUE
            /\ UNCHANGED <<hlen, len, added>>
  /\ crc' = CrcOf(words', hlen')
  /\ phase' = "received"
  /\ UNCHANGED <<todo, mac, reading>>

\* Some other datagram arrives.
Arrive ==
  /\ phase = "idle"
  /\ \E d \in Datagrams : words' = d.words /\ hlen' = d.hlen /\ len' = d.len
  /\ phase' = "other"
  /\ UNCHANGED <<todo, added, mac, crc, full, reading>>

-------------------------------------------------------------------------------
(* Reading *)

Readable == phase \in {"received", "other"}

\* Where word i starts, in bytes from the start of the message.
At(i) == HeaderLen + 4 * (i - 1)

\* Mutant: the value is checked without its padding.
CheckValidUnpadded(i, remaining) ==
  IF remaining >= 4 /\ words[i].len <= remaining - 4 THEN i ELSE 0

\* stun_attr_check_valid: the attribute if it fits, otherwise NULL.
CheckValid(i, remaining) ==
  IF remaining >= 4 /\ Padded(words[i].len) <= remaining - 4 THEN i ELSE 0

GetFirst ==
  IF CommandMessageLen > HeaderLen THEN CheckValid(1, CommandMessageLen - HeaderLen) ELSE 0

\* Mutant: the next attribute is looked for inside the value.
GetNextHeaderOnly(i) ==
  LET attrlen == Padded(words[i].len)
      next == i + 1
  IN  IF attrlen < CommandMessageLen - At(i) - 4
      THEN CheckValid(next, CommandMessageLen - At(next)) ELSE 0

\* Mutant: an empty attribute is not stepped over.
GetNextStays(i) ==
  LET attrlen == Padded(words[i].len)
      next == i + (IF attrlen = 0 THEN 0 ELSE 1 + attrlen \div 4)
  IN  IF attrlen < CommandMessageLen - At(i) - 4
      THEN CheckValid(next, CommandMessageLen - At(next)) ELSE 0

GetNext(i) ==
  LET attrlen == Padded(words[i].len)
      next == i + 1 + attrlen \div 4
  IN  IF attrlen < CommandMessageLen - At(i) - 4
      THEN CheckValid(next, CommandMessageLen - At(next)) ELSE 0

SeenWith(s, i) == IF i = 0 \/ phase = "other" THEN s ELSE Append(s, [at |-> i, attr |-> words[i]])

\* stun_is_command_message_str, as far as lengths go.
IsCommandMessage == len >= HeaderLen /\ hlen % 4 = 0 /\ hlen + HeaderLen = len

\* stun_attr_get_first_by_type_str.  The fingerprint is looked for only in
\* what is a command message.
Search ==
  /\ Readable /\ target = Null
  /\ \E t \in {"MESSAGE_INTEGRITY", "FINGERPRINT", "ORIGIN"} :
       (t = "FINGERPRINT" => IsCommandMessage) /\ target' = t
  /\ cursor' = GetFirst
  /\ seen' = SeenWith(<<>>, GetFirst)
  /\ outcome' = Unknown
  /\ UNCHANGED <<phase, body, todo>>

Searching == cursor # 0 /\ words[cursor].type # target

SearchStep ==
  /\ target # Null /\ Searching
  /\ cursor' = GetNext(cursor)
  /\ seen' = SeenWith(seen, GetNext(cursor))
  /\ UNCHANGED <<phase, body, todo, target, outcome>>

\* stun_check_message_integrity_by_key_str: where the attribute is and how long
\* is all that matters, because the HMAC it computes is not compared with the
\* one in the message.
CheckIntegrity ==
  /\ target = "MESSAGE_INTEGRITY" /\ ~Searching
  /\ LET found == cursor # 0
         usable == words[cursor].len = ShaSize /\ At(cursor) + 4 + ShaSize <= CommandMessageLen
     IN \E k \in Keys :
          outcome' = [of |-> "integrity", key |-> k, ret |-> IF found /\ usable THEN 1 ELSE -1]
  /\ target' = Null /\ cursor' = 0 /\ seen' = <<>>
  /\ UNCHANGED <<phase, body, todo>>

CrcMatches ==
  IF phase = "other" THEN BOOLEAN
  ELSE {crc = [of |-> "crc", at |-> cursor + 1, covers |-> SubSeq(words, 1, cursor - 1),
               hlen |-> hlen]}

\* stun_is_command_message_full_check_str.
CheckFingerprint ==
  /\ target = "FINGERPRINT" /\ ~Searching
  /\ IF cursor = 0 THEN outcome' = [of |-> "fingerprint", ret |-> "absent"]
     ELSE IF words[cursor].len # 4 THEN outcome' = [of |-> "fingerprint", ret |-> FALSE]
     ELSE \E same \in CrcMatches : outcome' = [of |-> "fingerprint", ret |-> same]
  /\ target' = Null /\ cursor' = 0 /\ seen' = <<>>
  /\ UNCHANGED <<phase, body, todo>>

\* Any other attribute: the caller has it, or NULL.
Found ==
  /\ target \notin {Null, "MESSAGE_INTEGRITY", "FINGERPRINT"} /\ ~Searching
  /\ target' = Null /\ cursor' = 0 /\ seen' = <<>>
  /\ UNCHANGED <<phase, body, todo, outcome>>

Read == Search \/ SearchStep \/ CheckIntegrity \/ CheckFingerprint \/ Found

Next ==
  \/ StartRequest \/ BuildStep \/ StartOrigin \/ OriginStep \/ StartIntegrity \/ SignStep
  \/ AddFingerprint \/ Arrive \/ Read

Spec == Init /\ [][Next]_vars

FairSpec == Spec /\ WF_vars(SearchStep)

-------------------------------------------------------------------------------
Phases == {"idle", "build", "origin", "sign", "mark", "received", "dropped", "other"}

Placed == [at : Nat, attr : Word]

\* The shape of the state: the buffer holds what its length says.
TypeOK ==
  /\ phase \in Phases
  /\ words \in Seq(Word) /\ hlen \in Nat /\ len \in Nat
  /\ todo \in Seq(Word) /\ added \in Seq(Placed)
  /\ full \in BOOLEAN
  /\ cursor \in Nat /\ seen \in Seq(Placed)
  /\ len <= HeaderLen + 4 * Len(words)

\* A message under construction is never longer than the limit, and its three
\* lengths (field, buffer, words written) agree after every add.
LengthsAgree ==
  phase \notin {"idle", "other"} =>
    hlen = 4 * Len(words) /\ len = HeaderLen + hlen /\ (hlen > 0 => len < Limit)

\* Whatever arrives, get_first and get_next hand out only attributes that lie,
\* padding included, inside the message and inside the buffer.
WalkInside ==
  cursor # 0 =>
    /\ cursor \in 1..Len(words)
    /\ At(cursor) + 4 + Padded(words[cursor].len) <= HeaderLen + hlen
    /\ HeaderLen + hlen <= len

\* Reading the client's own message, the walk comes by exactly the attributes
\* that were added, in order, whatever their values look like.
RoundTrip ==
  phase = "received" /\ ~full /\ target # Null =>
    /\ Len(seen) <= Len(added)
    /\ seen = SubSeq(added, 1, Len(seen))
    /\ cursor = 0 => seen = added

\* A message that had room for its fingerprint is accepted by the client's own
\* checks: the CRC is right although it covers the length field its own add has
\* changed, and the HMAC that was put before it is found and fits.
SealVerifies ==
  phase = "received" /\ ~full =>
    /\ outcome.of = "fingerprint" => outcome.ret = TRUE
    /\ outcome.of = "integrity" /\ mac # Unknown /\ outcome.key = mac => outcome.ret = 1

\* What the comment of stun_check_message_integrity_by_key_str says of it: 1
\* means that the integrity is correct, so that the key it was asked about is the
\* one the message was signed with.
IntegrityReported ==
  phase = "received" /\ outcome.of = "integrity" /\ mac # Unknown /\ outcome.ret = 1
    => outcome.key = mac

\* The loop of get_first_by_type ends on every message.
SearchEnds == (target # Null /\ Searching) ~> ~(target # Null /\ Searching)

===============================================================================
