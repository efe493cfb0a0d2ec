-------------------------- MODULE StunMessageProofs --------------------------
(***************************************************************************)
(* What holds of StunMessage for every limit, every set of values and      *)
(* every set of datagrams.                                                 *)
(***************************************************************************)
EXTENDS StunMessage, SequenceTheorems, TLAPS

\* The words a value of n bytes takes.
Cells(n) == (n + 3) \div 4

\* Padding rounds up to whole words.
LEMMA PaddedCells == \A n \in Nat : Cells(n) \in Nat /\ Padded(n) \in Nat /\ Padded(n) = 4 * Cells(n)
  BY DEF Padded, Cells

\* Adding to a body of whole words adds the header word and the value's words.
LEMMA AddSize ==
  \A n, a \in Nat : Padded(HeaderLen + 4 * n + 4 + a) = HeaderLen + 4 * (n + 1 + Cells(a))
  BY DEF Padded, Cells, HeaderLen

\* The three lengths agree.
Sized == hlen = 4 * Len(words) /\ len = HeaderLen + hlen

\* What stun_attr_add_str does to a body whose lengths agree.
LEMMA AddEffect ==
  ASSUME TypeOK, Sized, NEW a \in Word, NEW v \in Word, AttrAdd(a, v)
  PROVE  /\ words' \in Seq(Word)
         /\ Len(words') = Len(words) + 1 + Cells(a.len)
         /\ Cells(a.len) \in Nat
         /\ \A i \in 1..Len(words) : words'[i] = words[i]
         /\ words'[Len(words) + 1] = a
         /\ hlen' = 4 * Len(words') /\ len' = HeaderLen + hlen' /\ len' = NewLen(a.len)
         /\ hlen' \in Nat /\ len' \in Nat
         /\ added' = Append(added, [at |-> Len(words) + 1, attr |-> a])
         /\ added' \in Seq(Placed)
<1> DEFINE c == Cells(a.len)
           tail == [i \in 1..c |-> v]
<1>1. a.len \in Nat /\ c \in Nat
  BY PaddedCells, Zenon DEF Word
<1>2. words \in Seq(Word) /\ Len(words) \in Nat
  BY DEF TypeOK
<1>3. CommandMessageLen = HeaderLen + 4 * Len(words)
  BY <1>2 DEF CommandMessageLen, Sized, HeaderLen
<1>4. NewLen(a.len) = HeaderLen + 4 * (Len(words) + 1 + c)
  BY <1>1, <1>2, <1>3, AddSize, SMTT(20) DEF NewLen
<1>5. (NewLen(a.len) - len - 4) \div 4 = c
  <2>1. NewLen(a.len) - len - 4 = 4 * c
    BY <1>1, <1>2, <1>4 DEF Sized, HeaderLen
  <2>2. \A x \in Nat : (4 * x) \div 4 = x
    OBVIOUS
  <2>3. QED
    BY <2>1, <2>2, <1>1, Zenon
<1>6. words' = words \o <<a>> \o tail
  BY <1>5, Zenon DEF AttrAdd
<1>7. tail \in Seq(Word) /\ Len(tail) = c
  BY <1>1
<1>8. <<a>> \in Seq(Word) /\ Len(<<a>>) = 1 /\ <<a>>[1] = a
  OBVIOUS
<1>9. words \o <<a>> \in Seq(Word) /\ Len(words \o <<a>>) = Len(words) + 1
      /\ (\A i \in 1..Len(words) : (words \o <<a>>)[i] = words[i])
      /\ (words \o <<a>>)[Len(words) + 1] = a
  BY <1>2, <1>8, ConcatProperties
<1>10. words' \in Seq(Word) /\ Len(words') = Len(words) + 1 + c
       /\ \A i \in 1..(Len(words) + 1) : words'[i] = (words \o <<a>>)[i]
  BY <1>1, <1>2, <1>6, <1>7, <1>9, ConcatProperties
<1>11. \A i \in 1..Len(words) : words'[i] = words[i]
  BY <1>2, <1>9, <1>10
<1>12. words'[Len(words) + 1] = a
  BY <1>2, <1>9, <1>10
<1>13. hlen' = 4 * Len(words') /\ len' = HeaderLen + hlen' /\ len' = NewLen(a.len)
       /\ hlen' \in Nat /\ len' \in Nat
  <2>1. hlen' = NewLen(a.len) - HeaderLen /\ len' = NewLen(a.len)
    BY Zenon DEF AttrAdd
  <2>2. NewLen(a.len) = HeaderLen + 4 * Len(words')
    BY <1>4, <1>10, Zenon
  <2>3. Len(words') \in Nat
    BY <1>1, <1>2, <1>10
  <2>4. QED
    BY <2>1, <2>2, <2>3 DEF HeaderLen
<1>14. added' = Append(added, [at |-> Len(words) + 1, attr |-> a]) /\ added' \in Seq(Placed)
  BY <1>2 DEF AttrAdd, TypeOK, Placed
<1>15. QED
  BY <1>1, <1>10, <1>11, <1>12, <1>13, <1>14, Zenon

-------------------------------------------------------------------------------
\* What the invariants below need: nothing is written before a request is
\* started, and a search runs only on a message that is being read.
Frame ==
  /\ phase = "idle" => words = <<>> /\ hlen = 0 /\ added = <<>> /\ ~full /\ mac = Unknown
  /\ phase \notin {"received", "other"} => target = Null /\ cursor = 0 /\ seen = <<>> /\ ~full
                                             /\ outcome = Unknown
  /\ target = Null => cursor = 0 /\ seen = <<>>

\* Attributes that are neither of the two the message is sealed with.
Plain == {w \in Word : w.type \notin {"MESSAGE_INTEGRITY", "FINGERPRINT"}}

\* They are attributes.
LEMMA PlainWords == \A s \in Seq(Plain) : s \in Seq(Word)
  BY DEF Plain

\* An optional attribute is a sequence of attributes.
LEMMA OptionalSeq == ASSUME NEW b, NEW a \in Plain PROVE Optional(b, a) \in Seq(Plain)
<1>1. CASE b
  BY <1>1 DEF Optional
<1>2. CASE ~b
  BY <1>2 DEF Optional
<1>3. QED
  BY <1>1, <1>2, Zenon

\* The attributes that are about to be added.
LEMMA Requests ==
  /\ \A af4, af6, mobile, rt, ep \in BOOLEAN :
       AllocateRequest(af4, af6, mobile, rt, ep) \in Seq(Plain)
  /\ \A n \in Nat : ChannelBindRequest(n) \in Seq(Plain)
<1>1. ASSUME NEW af4 \in BOOLEAN, NEW af6 \in BOOLEAN, NEW mobile \in BOOLEAN,
             NEW rt \in BOOLEAN, NEW ep \in BOOLEAN
      PROVE  AllocateRequest(af4, af6, mobile, rt, ep) \in Seq(Plain)
  <2>1. <<Attr("REQUESTED_TRANSPORT", 4), Attr("LIFETIME", 4)>> \in Seq(Plain)
    BY DEF Attr, Plain, Word, Types
  <2>2. Optional(mobile, Attr("MOBILITY_TICKET", 0)) \in Seq(Plain)
    <3>1. Attr("MOBILITY_TICKET", 0) \in Plain
      BY Zenon DEF Attr, Plain, Word, Types
    <3>2. QED
      BY <3>1, OptionalSeq, Zenon
  <2>3. Optional(ep, Attr("EVEN_PORT", 1)) \in Seq(Plain)
    <3>1. Attr("EVEN_PORT", 1) \in Plain
      BY Zenon DEF Attr, Plain, Word, Types
    <3>2. QED
      BY <3>1, OptionalSeq, Zenon
  <2>4. Optional(rt, Attr("RESERVATION_TOKEN", 8)) \in Seq(Plain)
    <3>1. Attr("RESERVATION_TOKEN", 8) \in Plain
      BY Zenon DEF Attr, Plain, Word, Types
    <3>2. QED
      BY <3>1, OptionalSeq, Zenon
  <2>5. Optional(~rt /\ af4 # af6, Attr("REQUESTED_ADDRESS_FAMILY", 4)) \in Seq(Plain)
    <3>1. Attr("REQUESTED_ADDRESS_FAMILY", 4) \in Plain
      BY Zenon DEF Attr, Plain, Word, Types
    <3>2. QED
      BY <3>1, OptionalSeq, Zenon
  <2>6. Optional(~rt /\ af4 /\ af6, Attr("ADDITIONAL_ADDRESS_FAMILY", 4)) \in Seq(Plain)
    <3>1. Attr("ADDITIONAL_ADDRESS_FAMILY", 4) \in Plain
      BY Zenon DEF Attr, Plain, Word, Types
    <3>2. QED
      BY <3>1, OptionalSeq, Zenon
  <2>7. \A p, q \in Seq(Plain) : p \o q \in Seq(Plain)
    BY ConcatProperties, Zenon
  <2>8. QED
    BY <2>1, <2>2, <2>3, <2>4, <2>5, <2>6, <2>7, Zenon DEF AllocateRequest
<1>2. \A n \in Nat : ChannelBindRequest(n) \in Seq(Plain)
  BY DEF ChannelBindRequest, Attr, Plain, Word, Types
<1>3. QED
  BY <1>1, <1>2, Zenon

-------------------------------------------------------------------------------
(* The lengths and the walk. *)

\* A value of the model is a word.
LEMMA ValueWord == \A v \in Words : v \in Word
  BY MessageAssumption, Zenon

\* Adding the next attribute keeps the lengths in agreement and the types.
LEMMA AddStep ==
  ASSUME TypeOK, LengthsAgree, phase \notin {"idle", "other"}, NEW a \in Word, Fits(a.len),
         NEW v \in Words, AttrAdd(a, v)
  PROVE  /\ words' \in Seq(Word) /\ hlen' \in Nat /\ len' \in Nat /\ added' \in Seq(Placed)
         /\ hlen' = 4 * Len(words') /\ len' = HeaderLen + hlen' /\ len' < Limit
         /\ len' <= HeaderLen + 4 * Len(words')
<1>1. Sized
  BY Zenon DEF LengthsAgree, Sized
<1>2. v \in Word
  BY ValueWord, Zenon
<1>3. /\ words' \in Seq(Word) /\ hlen' \in Nat /\ len' \in Nat /\ added' \in Seq(Placed)
      /\ hlen' = 4 * Len(words') /\ len' = HeaderLen + hlen' /\ len' = NewLen(a.len)
  BY <1>1, <1>2, AddEffect, Zenon
<1>4. len' < Limit
  BY <1>3, Zenon DEF Fits
<1>5. len' <= HeaderLen + 4 * Len(words')
  BY <1>3 DEF HeaderLen
<1>6. QED
  BY <1>3, <1>4, <1>5, Zenon

\* No attributes at all.
LEMMA EmptyWords == <<>> \in Seq(Word) /\ <<>> \in Seq(Placed)
  OBVIOUS

\* The next attribute and the rest.
LEMMA HeadWord == ASSUME TypeOK, todo # <<>> PROVE Head(todo) \in Word /\ Tail(todo) \in Seq(Word)
  BY HeadTailProperties, Zenon DEF TypeOK

Base == TypeOK /\ LengthsAgree /\ Frame

Writing == {"build", "origin", "sign", "mark"}

\* A step that adds one attribute keeps Base.
LEMMA AddBase ==
  ASSUME Base, phase \in Writing, phase' \in Writing \cup {"received"},
         NEW a \in Word, Fits(a.len), NEW v \in Words, AttrAdd(a, v),
         todo' \in Seq(Word), full' = full, UNCHANGED reading
  PROVE  Base'
<1>1. /\ words' \in Seq(Word) /\ hlen' \in Nat /\ len' \in Nat /\ added' \in Seq(Placed)
      /\ hlen' = 4 * Len(words') /\ len' = HeaderLen + hlen' /\ len' < Limit
      /\ len' <= HeaderLen + 4 * Len(words')
  BY AddStep, Zenon DEF Base, Writing
<1>2. TypeOK'
  BY <1>1, Zenon DEF Base, TypeOK, reading, Writing, Phases
<1>3. LengthsAgree'
  BY <1>1, Zenon DEF LengthsAgree
<1>4. Frame'
  BY Zenon DEF Base, Frame, reading, Writing
<1>5. QED
  BY <1>2, <1>3, <1>4, Zenon DEF Base

\* So does one that only goes on to the next phase.
LEMMA KeepBase ==
  ASSUME Base, phase \in Writing, phase' \in Writing \cup {"dropped"},
         todo' \in Seq(Word), UNCHANGED <<words, hlen, len, added, full, reading>>
  PROVE  Base'
<1>1. TypeOK'
  BY Zenon DEF Base, TypeOK, reading, Writing, Phases
<1>2. LengthsAgree'
  BY Zenon DEF Base, LengthsAgree, Writing
<1>3. Frame'
  BY Zenon DEF Base, Frame, reading, Writing
<1>4. QED
  BY <1>1, <1>2, <1>3, Zenon DEF Base

\* Every action that builds or receives a message keeps Base.
LEMMA BuildBase ==
  ASSUME Base,
         StartRequest \/ BuildStep \/ StartOrigin \/ OriginStep \/ StartIntegrity \/ SignStep
           \/ AddFingerprint \/ Arrive
  PROVE  Base'
<1>1. CASE StartRequest
  <2>1. todo' \in Seq(Word)
    <3>1. CASE todo' = <<>>
      BY <3>1, EmptyWords, Zenon
    <3>2. CASE \E addrLen \in {8, 20} : todo' = ChannelBindRequest(addrLen)
      BY <3>2, Requests, PlainWords, Zenon
    <3>3. CASE \E af4, af6, mobile, rt, ep \in BOOLEAN :
                 todo' = AllocateRequest(af4, af6, mobile, rt, ep)
      BY <3>3, Requests, PlainWords
    <3>4. QED
      BY <1>1, <3>1, <3>2, <3>3, Zenon DEF StartRequest
  <2>2. words = <<>> /\ hlen = 0 /\ len' = 20 /\ words' = words /\ hlen' = hlen /\ Len(words) = 0
    BY <1>1, Zenon DEF StartRequest, Base, Frame, HeaderLen
  <2>3. TypeOK'
    BY <1>1, <2>1, <2>2 DEF Base, TypeOK, StartRequest, Phases, HeaderLen, reading
  <2>4. LengthsAgree'
    BY <1>1, <2>2 DEF LengthsAgree, HeaderLen
  <2>5. Frame'
    BY <1>1, Zenon DEF Base, Frame, StartRequest, reading
  <2>6. QED
    BY <2>3, <2>4, <2>5, Zenon DEF Base
<1>2. CASE BuildStep
  <2>1. Head(todo) \in Word /\ Tail(todo) \in Seq(Word) /\ phase = "build" /\ phase' = "build"
    BY <1>2, HeadWord, Zenon DEF BuildStep, Base
  <2>2. CASE Fits(Head(todo).len)
    <3>1. PICK v \in Words : AttrAdd(Head(todo), v)
      BY <1>2, <2>2, Zenon DEF BuildStep
    <3>2. QED
      BY <1>2, <2>1, <2>2, <3>1, AddBase, Zenon DEF BuildStep, Writing
  <2>3. CASE ~Fits(Head(todo).len)
    <3>1. todo' \in Seq(Word)
      BY <1>2, <2>1, <2>3, EmptyWords, Zenon DEF BuildStep
    <3>2. QED
      BY <1>2, <2>1, <2>3, <3>1, KeepBase, Zenon DEF BuildStep, Writing
  <2>4. QED
    BY <2>2, <2>3, Zenon
<1>3. CASE StartOrigin
  <2>1. ASSUME NEW l \in Nat
        PROVE  <<Attr("ORIGIN", 23), Attr("ORIGIN", l), Attr("ORIGIN", 17)>> \in Seq(Word)
    BY DEF Attr, Word, Types
  <2>2. todo' \in Seq(Word)
    BY <1>3, <2>1, EmptyWords, MessageAssumption, Zenon DEF StartOrigin
  <2>3. QED
    BY <1>3, <2>2, KeepBase, Zenon DEF StartOrigin, Writing, body
<1>4. CASE OriginStep
  <2>1. Head(todo) \in Word /\ Tail(todo) \in Seq(Word) /\ phase = "origin" /\ phase' = "origin"
    BY <1>4, HeadWord, Zenon DEF OriginStep, Base
  <2>2. CASE Fits(Head(todo).len)
    <3>1. PICK v \in Words : AttrAdd(Head(todo), v)
      BY <1>4, <2>2, Zenon DEF OriginStep
    <3>2. QED
      BY <1>4, <2>1, <2>2, <3>1, AddBase, Zenon DEF OriginStep, Writing
  <2>3. CASE ~Fits(Head(todo).len)
    BY <1>4, <2>1, <2>3, KeepBase, Zenon DEF OriginStep, Writing
  <2>4. QED
    BY <2>2, <2>3, Zenon
<1>5. CASE StartIntegrity
  <2>1. ASSUME NEW l \in Nat
        PROVE  <<Attr("USERNAME", l), Attr("NONCE", 16), Attr("REALM", l),
                 Attr("MESSAGE_INTEGRITY", ShaSize)>> \in Seq(Word)
    BY DEF Attr, Word, Types, ShaSize
  <2>2. todo' \in Seq(Word)
    BY <1>5, <2>1, EmptyWords, MessageAssumption, Zenon DEF StartIntegrity
  <2>3. QED
    BY <1>5, <2>2, KeepBase, Zenon DEF StartIntegrity, Writing, body
<1>6. CASE SignStep
  <2>1. Head(todo) \in Word /\ Tail(todo) \in Seq(Word) /\ phase = "sign"
    BY <1>6, HeadWord, Zenon DEF SignStep, Base
  <2>2. CASE Fits(Head(todo).len)
    <3>1. PICK v \in Words : AttrAdd(Head(todo), v)
      BY <1>6, <2>2, Zenon DEF SignStep
    <3>2. phase' \in {"sign", "mark"} /\ todo' = Tail(todo)
      BY <1>6, <2>1, <2>2, Zenon DEF SignStep
    <3>3. QED
      BY <1>6, <2>1, <2>2, <3>1, <3>2, AddBase, Zenon DEF SignStep, Writing
  <2>3. CASE ~Fits(Head(todo).len)
    <3>1. phase' = "dropped" /\ UNCHANGED <<words, hlen, len, added, todo>>
      BY <1>6, <2>3, Zenon DEF SignStep
    <3>2. todo' \in Seq(Word)
      BY <3>1, Zenon DEF Base, TypeOK
    <3>3. QED
      BY <1>6, <2>1, <3>1, <3>2, KeepBase, Zenon DEF SignStep, Writing
  <2>4. QED
    BY <2>2, <2>3, Zenon
<1>7. CASE AddFingerprint
  <2>1. todo' \in Seq(Word) /\ phase = "mark" /\ phase' = "received"
    BY <1>7, Zenon DEF AddFingerprint, Base, TypeOK
  <2>2. ~full
    BY <2>1, Zenon DEF Base, Frame
  <2>3. CASE Fits(4)
    <3>1. PICK v \in Words : AttrAdd(Attr("FINGERPRINT", 4), v)
      BY <1>7, <2>3, Zenon DEF AddFingerprint
    <3>2. Attr("FINGERPRINT", 4) \in Word /\ Attr("FINGERPRINT", 4).len = 4
      BY Zenon DEF Attr, Word, Types
    <3>3. full' = full
      BY <1>7, <2>2, <2>3, Zenon DEF AddFingerprint, Base, TypeOK
    <3>4. QED
      BY <1>7, <2>1, <2>3, <3>1, <3>2, <3>3, AddBase, Zenon DEF AddFingerprint, Writing
  <2>4. CASE ~Fits(4)
    <3>1. PICK v \in Words : words' = [words EXCEPT ![Len(words)] = v]
      BY <1>7, <2>4, Zenon DEF AddFingerprint
    <3>2. words' \in Seq(Word) /\ Len(words') = Len(words)
      <4>1. v \in Word /\ words \in Seq(Word)
        BY ValueWord, Zenon DEF Base, TypeOK
      <4>2. CommandMessageLen = HeaderLen + 4 * Len(words) /\ Len(words) \in Nat
        BY <2>1, <4>1 DEF Base, TypeOK, LengthsAgree, CommandMessageLen, HeaderLen
      <4>3. NewLen(4) = HeaderLen + 4 * (Len(words) + 1 + Cells(4)) /\ Cells(4) = 1
        BY <4>2, AddSize DEF NewLen, Cells
      <4>4. Len(words) \in 1..Len(words)
        BY <2>4, <4>2, <4>3, MessageAssumption DEF Fits, HeaderLen
      <4>5. QED
        BY <3>1, <4>1, <4>4, ExceptSeq
    <3>3. UNCHANGED <<hlen, len, added, reading>> /\ full' = TRUE
      BY <1>7, <2>4, Zenon DEF AddFingerprint
    <3>4. TypeOK'
      BY <2>1, <3>2, <3>3, Zenon DEF Base, TypeOK, Phases, reading
    <3>5. LengthsAgree'
      BY <2>1, <3>2, <3>3, Zenon DEF Base, LengthsAgree
    <3>6. Frame'
      BY <2>1, <3>3, Zenon DEF Base, Frame, reading
    <3>7. QED
      BY <3>4, <3>5, <3>6, Zenon DEF Base
  <2>5. QED
    BY <2>3, <2>4, Zenon
<1>8. CASE Arrive
  <2>1. PICK d \in Datagrams : words' = d.words /\ hlen' = d.hlen /\ len' = d.len
    BY <1>8, Zenon DEF Arrive
  <2>2. d \in [words : Seq(Word), hlen : Nat, len : Nat] /\ d.len <= HeaderLen + 4 * Len(d.words)
    BY MessageAssumption, Zenon
  <2>3. words' \in Seq(Word) /\ hlen' \in Nat /\ len' \in Nat
        /\ len' <= HeaderLen + 4 * Len(words')
    BY <2>1, <2>2, Zenon
  <2>4. TypeOK'
    BY <1>8, <2>3, Zenon DEF Base, TypeOK, Arrive, Phases, reading
  <2>5. LengthsAgree'
    BY <1>8, Zenon DEF Arrive, LengthsAgree
  <2>6. Frame'
    BY <1>8, Zenon DEF Base, Frame, Arrive, reading
  <2>7. QED
    BY <2>4, <2>5, <2>6, Zenon DEF Base
<1>9. QED
  BY <1>1, <1>2, <1>3, <1>4, <1>5, <1>6, <1>7, <1>8, Zenon

\* An attribute that stun_attr_check_valid returns lies in what remains.
LEMMA Valid ==
  ASSUME NEW i \in Nat, NEW remaining \in Int, CheckValid(i, remaining) # 0
  PROVE  CheckValid(i, remaining) = i /\ Padded(words[i].len) <= remaining - 4 /\ remaining >= 4
  BY Zenon DEF CheckValid

\* The lengths of a message that is read.
LEMMA MessageLen ==
  ASSUME TypeOK
  PROVE  /\ CommandMessageLen \in Int
         /\ CommandMessageLen >= 0 =>
              CommandMessageLen = HeaderLen + hlen /\ HeaderLen + hlen <= len
  BY DEF TypeOK, CommandMessageLen, HeaderLen

\* What a word reads as.
LEMMA WordAt ==
  ASSUME TypeOK, NEW i \in 1..Len(words)
  PROVE  /\ words[i] \in Word /\ words[i].len \in Nat
         /\ Padded(words[i].len) \in Nat /\ Cells(words[i].len) \in Nat
<1>1. words[i] \in Word
  BY ElementOfSeq, Zenon DEF TypeOK
<1>2. words[i].len \in Nat
  BY <1>1, Zenon DEF Word
<1>3. QED
  BY <1>1, <1>2, PaddedCells, Zenon

\* The first attribute lies inside the message.
LEMMA FirstInside ==
  ASSUME TypeOK, GetFirst # 0
  PROVE  /\ GetFirst = 1 /\ 1 <= Len(words)
         /\ At(1) + 4 + Padded(words[1].len) <= HeaderLen + hlen
         /\ HeaderLen + hlen <= len
<1>1. CommandMessageLen > HeaderLen /\ GetFirst = CheckValid(1, CommandMessageLen - HeaderLen)
  BY Zenon DEF GetFirst
<1>2. CommandMessageLen = HeaderLen + hlen /\ HeaderLen + hlen <= len /\ hlen \in Nat
  BY <1>1, MessageLen DEF HeaderLen, TypeOK
<1>3. GetFirst = 1 /\ Padded(words[1].len) <= hlen - 4 /\ hlen >= 4
  BY <1>1, <1>2, Valid DEF HeaderLen
<1>4. 1 <= Len(words)
  BY <1>2, <1>3 DEF TypeOK, HeaderLen
<1>5. 1 \in 1..Len(words)
  BY <1>4 DEF TypeOK
<1>6. Padded(words[1].len) \in Nat
  BY <1>5, WordAt, Zenon
<1>7. QED
  BY <1>2, <1>3, <1>4, <1>6 DEF At, HeaderLen

\* The next attribute lies inside the message, behind the one before it.
LEMMA NextInside ==
  ASSUME TypeOK, NEW i \in 1..Len(words), GetNext(i) # 0
  PROVE  /\ GetNext(i) = i + 1 + Cells(words[i].len) /\ GetNext(i) \in 1..Len(words)
         /\ At(GetNext(i)) + 4 + Padded(words[GetNext(i)].len) <= HeaderLen + hlen
         /\ HeaderLen + hlen <= len
<1> DEFINE c == Cells(words[i].len)
           next == i + 1 + c
<1>1. words[i].len \in Nat /\ words \in Seq(Word) /\ i \in Nat /\ hlen \in Nat /\ len \in Nat
  BY WordAt DEF TypeOK
<1>2. c \in Nat /\ Padded(words[i].len) = 4 * c /\ Padded(words[i].len) \div 4 = c
  <2>1. c \in Nat /\ Padded(words[i].len) = 4 * c
    BY <1>1, PaddedCells, Zenon
  <2>2. \A x \in Nat : (4 * x) \div 4 = x
    OBVIOUS
  <2>3. QED
    BY <2>1, <2>2, Zenon
<1>3. /\ 4 * c < CommandMessageLen - At(i) - 4
      /\ GetNext(i) = CheckValid(next, CommandMessageLen - At(next))
  BY <1>2, Zenon DEF GetNext
<1>4. CommandMessageLen = HeaderLen + hlen /\ HeaderLen + hlen <= len
  BY <1>1, <1>2, <1>3, MessageLen DEF At, HeaderLen
<1>5. next \in Nat /\ CommandMessageLen - At(next) \in Int
  <2>1. next \in Nat
    BY <1>1, <1>2
  <2> HIDE DEF next
  <2>2. At(next) \in Int
    BY <2>1 DEF At, HeaderLen
  <2>3. CommandMessageLen \in Int
    BY <1>1, <1>4 DEF HeaderLen
  <2> QED
    BY <2>1, <2>2, <2>3
<1>6. /\ GetNext(i) = next
      /\ Padded(words[next].len) <= CommandMessageLen - At(next) - 4
      /\ CommandMessageLen - At(next) >= 4
  BY <1>3, <1>5, Valid, Zenon
<1>7. next \in 1..Len(words)
  <2>1. At(next) + 4 <= HeaderLen + 4 * Len(words)
    <3>1. HeaderLen + hlen <= HeaderLen + 4 * Len(words) /\ Len(words) \in Nat
      BY <1>1, <1>4 DEF TypeOK, HeaderLen
    <3>2. At(next) \in Int
      BY <1>5 DEF At, HeaderLen
    <3>3. HeaderLen + hlen - At(next) >= 4
      BY <1>1, <1>4, <1>6, <3>2 DEF HeaderLen
    <3>4. QED
      BY <1>1, <3>1, <3>2, <3>3 DEF HeaderLen
  <2>2. 4 * next <= 4 * Len(words) /\ Len(words) \in Nat
    BY <1>1, <1>5, <2>1 DEF At, HeaderLen
  <2>3. QED
    BY <1>1, <1>2, <1>5, <2>2
<1>8. Padded(words[next].len) \in Nat
  BY <1>7, WordAt, Zenon
<1>9. At(next) + 4 + Padded(words[next].len) <= HeaderLen + hlen
  BY <1>1, <1>4, <1>5, <1>6, <1>8, SMTT(20) DEF At, HeaderLen
<1>10. QED
  BY <1>4, <1>6, <1>7, <1>9, Zenon

\* The attributes a search came by.
LEMMA SeenType ==
  ASSUME NEW s \in Seq(Placed), NEW i \in Nat, i # 0 => words[i] \in Word
  PROVE  SeenWith(s, i) \in Seq(Placed)
<1>1. CASE i = 0 \/ phase = "other"
  BY <1>1, Zenon DEF SeenWith
<1>2. CASE ~(i = 0 \/ phase = "other")
  <2>1. [at |-> i, attr |-> words[i]] \in Placed
    BY <1>2, Zenon DEF Placed
  <2>2. QED
    BY <1>2, <2>1, AppendProperties, Zenon DEF SeenWith
<1>3. QED
  BY <1>1, <1>2, Zenon

\* What a search in progress relies on.
WalkBase == Base /\ WalkInside

\* Every action that reads a message keeps it and hands out valid attributes.
LEMMA ReadBase ==
  ASSUME WalkBase, Read
  PROVE  WalkBase'
<1> USE DEF WalkBase
<1>1. CASE Search
  <2>1. GetFirst \in Nat /\ Readable /\ UNCHANGED <<phase, body, todo>>
    BY <1>1, FirstInside DEF Search, Base
  <2>2. GetFirst # 0 => words[GetFirst] \in Word
    BY FirstInside, WordAt DEF Base, TypeOK
  <2>3. SeenWith(<<>>, GetFirst) \in Seq(Placed)
    BY <2>1, <2>2, EmptyWords, SeenType, Zenon
  <2>4. TypeOK'
    BY <1>1, <2>1, <2>3, Zenon DEF Search, Base, TypeOK, body
  <2>5. LengthsAgree'
    BY <2>1, Zenon DEF Base, LengthsAgree, body
  <2>6. Frame'
    BY <1>1, <2>1, Zenon DEF Search, Base, Frame, body, Readable, Null
  <2>7. WalkInside'
    BY <1>1, <2>1, FirstInside DEF Search, Base, TypeOK, WalkInside, body, At, Padded
  <2>8. QED
    BY <2>4, <2>5, <2>6, <2>7, Zenon DEF Base
<1>2. CASE SearchStep
  <2>1. cursor \in 1..Len(words) /\ target # Null /\ UNCHANGED <<phase, body, todo, target, outcome>>
    BY <1>2, Zenon DEF SearchStep, Searching, WalkInside
  <2>2. GetNext(cursor) # 0 => GetNext(cursor) \in 1..Len(words)
    BY <2>1, NextInside, Zenon DEF Base
  <2>3. GetNext(cursor) \in Nat
    BY <2>2 DEF Base, TypeOK
  <2>4. GetNext(cursor) # 0 => words[GetNext(cursor)] \in Word
    BY <2>2, WordAt, Zenon DEF Base
  <2>5. SeenWith(seen, GetNext(cursor)) \in Seq(Placed)
    BY <2>3, <2>4, SeenType, Zenon DEF Base, TypeOK
  <2>6. TypeOK'
    BY <1>2, <2>1, <2>3, <2>5, Zenon DEF SearchStep, Base, TypeOK, body
  <2>7. LengthsAgree'
    BY <2>1, Zenon DEF Base, LengthsAgree, body
  <2>8. Frame'
    BY <1>2, <2>1, Zenon DEF SearchStep, Base, Frame, body
  <2>9. WalkInside'
    BY <1>2, <2>1, <2>2, NextInside, Zenon DEF SearchStep, Base, WalkInside, body, At, Padded
  <2>10. QED
    BY <2>6, <2>7, <2>8, <2>9, Zenon DEF Base
<1>3. CASE CheckIntegrity \/ CheckFingerprint \/ Found
  <2>1. target # Null /\ target' = Null /\ cursor' = 0 /\ seen' = <<>> /\ UNCHANGED <<phase, body, todo>>
    BY <1>3, Zenon DEF CheckIntegrity, CheckFingerprint, Found, Null
  <2>2. TypeOK'
    BY <2>1 DEF Base, TypeOK, body
  <2>3. LengthsAgree'
    BY <2>1, Zenon DEF Base, LengthsAgree, body
  <2>4. Frame'
    BY <2>1, Zenon DEF Base, Frame, body
  <2>5. WalkInside'
    BY <2>1, Zenon DEF WalkInside
  <2>6. QED
    BY <2>2, <2>3, <2>4, <2>5, Zenon DEF Base
<1>4. QED
  BY <1>1, <1>2, <1>3, Zenon DEF Read

\* The writer never has a cursor.
LEMMA WriteWalk ==
  ASSUME WalkBase,
         StartRequest \/ BuildStep \/ StartOrigin \/ OriginStep \/ StartIntegrity \/ SignStep
           \/ AddFingerprint \/ Arrive
  PROVE  WalkInside'
<1>1. cursor = 0 /\ cursor' = cursor
  BY Zenon DEF WalkBase, Base, Frame, StartRequest, BuildStep, StartOrigin, OriginStep,
     StartIntegrity,
         SignStep, AddFingerprint, Arrive, reading
<1>2. QED
  BY <1>1, Zenon DEF WalkInside

\* The initial state.
LEMMA InitBase == Init => WalkBase
<1> SUFFICES ASSUME Init PROVE WalkBase
  BY Zenon
<1> USE DEF Init
<1>1. TypeOK
  <2>1. words \in Seq(Word) /\ todo \in Seq(Word) /\ added \in Seq(Placed) /\ seen \in Seq(Placed)
    BY EmptyWords, Zenon
  <2>2. Len(words) = 0
    BY Zenon
  <2>3. phase \in Phases /\ full \in BOOLEAN
    BY Zenon DEF Phases
  <2>4. QED
    BY <2>1, <2>2, <2>3 DEF TypeOK, HeaderLen
<1>2. LengthsAgree /\ Frame /\ WalkInside
  BY Zenon DEF LengthsAgree, Frame, WalkInside
<1>3. QED
  BY <1>1, <1>2, Zenon DEF WalkBase, Base

\* WalkBase is inductive.
LEMMA StepBase == WalkBase /\ [Next]_vars => WalkBase'
<1> SUFFICES ASSUME WalkBase, [Next]_vars PROVE WalkBase'
  BY Zenon
<1>1. CASE Read
  BY <1>1, ReadBase, Zenon
<1>2. CASE StartRequest \/ BuildStep \/ StartOrigin \/ OriginStep \/ StartIntegrity \/ SignStep
             \/ AddFingerprint \/ Arrive
  BY <1>2, BuildBase, WriteWalk, Zenon DEF WalkBase
<1>3. CASE UNCHANGED vars
  BY <1>3, Zenon DEF WalkBase, Base, TypeOK, LengthsAgree, Frame, WalkInside, vars, body, reading,
     At, Padded
<1>4. QED
  BY <1>1, <1>2, <1>3, Zenon DEF Next

\* For every limit, every value and every datagram, a message under
\* construction stays below the limit with its length field, the buffer's
\* length and the words written in agreement (stun_attr_add_str), ...
THEOREM StunLengthsAgree == Spec => []LengthsAgree
<1>1. WalkBase => LengthsAgree
  BY Zenon DEF WalkBase, Base
<1>2. QED
  BY <1>1, InitBase, StepBase, PTL DEF Spec

\* ... and stun_attr_get_first_str and stun_attr_get_next_str hand out only
\* attributes that lie inside the message.
THEOREM StunWalkInside == Spec => []WalkInside
<1>1. WalkBase => WalkInside
  BY Zenon DEF WalkBase
<1>2. QED
  BY <1>1, InitBase, StepBase, PTL DEF Spec

\* The shape of the state.
THEOREM StunTypeCorrect == Spec => []TypeOK
<1>1. WalkBase => TypeOK
  BY Zenon DEF WalkBase, Base
<1>2. QED
  BY <1>1, InitBase, StepBase, PTL DEF Spec

\* Nothing changes a message while it is searched, and every step of a search
\* ends it or goes on to an attribute behind the one before, inside the buffer:
\* on any datagram the loop of stun_attr_get_first_by_type_str takes at most as
\* many steps as the buffer has words.
SearchAdvances ==
  [][target # Null /\ Searching =>
       UNCHANGED body /\ (cursor' = 0 \/ cursor' \in cursor + 1 .. Len(words))]_vars

\* What SearchEnds needs of the code, for every datagram.
THEOREM StunSearchAdvances == Spec => SearchAdvances
<1>1. ASSUME WalkBase, [Next]_vars, ~UNCHANGED vars, target # Null, Searching
      PROVE  UNCHANGED body /\ (cursor' = 0 \/ cursor' \in cursor + 1 .. Len(words))
  <2>1. TypeOK /\ cursor \in 1..Len(words)
    BY <1>1, Zenon DEF WalkBase, Base, WalkInside, Searching
  <2>2. SearchStep
    <3>1. ~(StartRequest \/ BuildStep \/ StartOrigin \/ OriginStep \/ StartIntegrity \/ SignStep
              \/ AddFingerprint \/ Arrive)
      BY <1>1, Zenon DEF WalkBase, Base, Frame, Searching, StartRequest, BuildStep, StartOrigin,
         OriginStep, StartIntegrity, SignStep, AddFingerprint, Arrive
    <3>2. ~(Search \/ CheckIntegrity \/ CheckFingerprint \/ Found)
      BY <1>1, Zenon DEF Search, CheckIntegrity, CheckFingerprint, Found
    <3>3. QED
      BY <1>1, <3>1, <3>2, Zenon DEF Next, Read
  <2>3. UNCHANGED body /\ cursor' = GetNext(cursor)
    BY <2>2, Zenon DEF SearchStep
  <2>4. ASSUME GetNext(cursor) # 0 PROVE GetNext(cursor) \in cursor + 1 .. Len(words)
    <3>1. /\ GetNext(cursor) = cursor + 1 + Cells(words[cursor].len)
          /\ GetNext(cursor) \in 1..Len(words) /\ Cells(words[cursor].len) \in Nat
      BY <2>1, <2>4, NextInside, WordAt, Zenon
    <3>2. QED
      BY <2>1, <3>1
  <2>5. QED
    BY <2>3, <2>4, Zenon
<1>2. WalkBase /\ [Next]_vars => [target # Null /\ Searching =>
         UNCHANGED body /\ (cursor' = 0 \/ cursor' \in cursor + 1 .. Len(words))]_vars
  BY <1>1, Zenon
<1>3. QED
  BY <1>2, InitBase, StepBase, PTL DEF Spec, SearchAdvances

-------------------------------------------------------------------------------
(* Reading back what was written. *)

\* Where attribute i ends: where the next one starts, or behind the last word.
EndOf(i) == IF i < Len(added) THEN added[i + 1].at ELSE Len(words) + 1

\* The attributes that were added lie one behind the other and fill the body.
Layout ==
  phase \notin {"idle", "other"} /\ ~full =>
    /\ Len(added) = 0 => Len(words) = 0
    /\ Len(added) > 0 => added[1].at = 1
    /\ \A i \in 1..Len(added) :
         /\ added[i].at \in 1..Len(words) /\ words[added[i].at] = added[i].attr
         /\ added[i].at + 1 + Cells(added[i].attr.len) = EndOf(i)

\* Adding an attribute extends the layout.
LEMMA AddLayout ==
  ASSUME Base, Layout, phase \in Writing, NEW a \in Word, Fits(a.len), NEW v \in Words, AttrAdd(a, v)
  PROVE  Layout'
<1> DEFINE n == Len(added)
           L == Len(words)
           c == Cells(a.len)
           new == [at |-> L + 1, attr |-> a]
<1>1. TypeOK /\ Sized /\ ~full /\ v \in Word
  BY ValueWord, Zenon DEF Base, LengthsAgree, Sized, Writing, Frame
<1>2. /\ words' \in Seq(Word) /\ Len(words') = L + 1 + c /\ c \in Nat
      /\ \A i \in 1..L : words'[i] = words[i]
      /\ words'[L + 1] = a
      /\ added' = Append(added, new)
  BY <1>1, AddEffect, Zenon
<1>3. added \in Seq(Placed) /\ n \in Nat /\ L \in Nat
  BY <1>1 DEF TypeOK
<1>4. new \in Placed
  BY <1>3, SMTT(20) DEF Placed
<1>5. /\ Len(added') = n + 1
      /\ \A i \in 1..n : added'[i] = added[i]
      /\ added'[n + 1] = new
  <2>1. added' = Append(added, new) /\ added \in Seq(Placed)
    BY <1>2, <1>3, Zenon
  <2>2. QED
    BY <2>1, <1>4, AppendProperties
<1>6. /\ n = 0 => L = 0
      /\ n > 0 => added[1].at = 1
      /\ \A i \in 1..n : /\ added[i].at \in 1..L /\ words[added[i].at] = added[i].attr
                       /\ added[i].at + 1 + Cells(added[i].attr.len) = EndOf(i)
  BY <1>1, Zenon DEF Layout, Writing
<1>7. added'[1].at = 1
  BY <1>3, <1>5, <1>6
<1>8. ASSUME NEW i \in 1..(n + 1)
      PROVE  /\ added'[i].at \in 1..Len(words') /\ words'[added'[i].at] = added'[i].attr
             /\ added'[i].at + 1 + Cells(added'[i].attr.len) = EndOf(i)'
  <2>1. CASE i = n + 1
    <3>1. added'[i].at = L + 1 /\ added'[i].attr = a
      BY <1>5, <2>1
    <3>2. EndOf(i)' = L + 1 + c + 1
      BY <1>2, <1>3, <1>5, <2>1 DEF EndOf
    <3>3. added'[i].at \in 1..Len(words')
      BY <1>2, <1>3, <3>1
    <3>4. words'[added'[i].at] = added'[i].attr
      BY <1>2, <3>1, Zenon
    <3>5. Cells(added'[i].attr.len) = c
      BY <3>1, Zenon
    <3>6. added'[i].at + 1 + Cells(added'[i].attr.len) = EndOf(i)'
      <4>1. c \in Nat /\ L \in Nat
        BY <1>2, <1>3, Zenon
      <4>2. L + 1 + 1 + c = L + 1 + c + 1
        BY <4>1
      <4>3. QED
        BY <3>1, <3>2, <3>5, <4>2, Zenon
    <3>7. QED
      BY <3>3, <3>4, <3>6, Zenon
  <2>2. CASE i \in 1..n
    <3>1. added'[i] = added[i] /\ added[i].at \in 1..L /\ words'[added[i].at] = words[added[i].at]
      BY <1>2, <1>5, <1>6, <2>2, Zenon
    <3>2. EndOf(i)' = IF i < n + 1 THEN added'[i + 1].at ELSE Len(words') + 1
      BY <1>5, Zenon DEF EndOf
    <3>3. EndOf(i)' = added'[i + 1].at
      BY <1>3, <2>2, <3>2
    <3>4. added'[i + 1].at = EndOf(i)
      <4>1. CASE i = n
        BY <1>3, <1>5, <4>1 DEF EndOf
      <4>2. CASE i < n
        <5>1. i + 1 \in 1..n
          BY <1>3, <2>2, <4>2
        <5>2. QED
          BY <1>5, <4>2, <5>1, Zenon DEF EndOf
      <4>3. QED
        BY <1>3, <2>2, <4>1, <4>2
    <3>5. added'[i].at \in 1..Len(words')
      BY <1>2, <1>3, <3>1, SMTT(20)
    <3>6. QED
      BY <1>6, <2>2, <3>1, <3>3, <3>4, <3>5, Zenon
  <2>3. QED
    BY <1>3, <2>1, <2>2
<1>9. Len(added') = n + 1 /\ n + 1 > 0
  BY <1>3, <1>5
<1>10. QED
  BY <1>7, <1>8, <1>9 DEF Layout

\* A search of the client's own message is at an attribute that was added, and
\* has come by the ones before it.
Trail ==
  phase = "received" /\ ~full /\ target # Null =>
    /\ Len(seen) <= Len(added)
    /\ \A i \in 1..Len(seen) : seen[i] = added[i]
    /\ cursor # 0 => Len(seen) > 0 /\ cursor = added[Len(seen)].at
    /\ cursor = 0 => Len(seen) = Len(added)
    /\ \A i \in 1..Len(seen) : i < Len(seen) \/ cursor = 0 => added[i].attr.type # target

\* What is left of a message of `size' words from word k on, as the walk
\* computes it from positions in bytes.
LEMMA RemainingBytes ==
  ASSUME NEW size \in Int, NEW k \in Int, CommandMessageLen = HeaderLen + 4 * size
  PROVE  /\ CommandMessageLen - At(k) = 4 * (size - k + 1)
         /\ CommandMessageLen - At(k) - 4 = 4 * (size - k)
  BY DEF At, HeaderLen

\* In a message laid out like that every attribute is valid where it starts.
LEMMA AddedValid ==
  ASSUME Base, Layout, phase = "received", ~full, NEW i \in 1..Len(added)
  PROVE  /\ CommandMessageLen = HeaderLen + 4 * Len(words)
         /\ CheckValid(added[i].at, CommandMessageLen - At(added[i].at)) = added[i].at
         /\ added[i].at \in 1..Len(words)
<1> DEFINE p == added[i].at
           c == Cells(words[p].len)
<1>1. TypeOK /\ hlen = 4 * Len(words) /\ len = HeaderLen + hlen /\ Len(words) \in Nat
      /\ added \in Seq(Placed) /\ Len(added) \in Nat
  BY DEF Base, LengthsAgree, TypeOK
<1>2. CommandMessageLen = HeaderLen + 4 * Len(words)
  BY <1>1 DEF CommandMessageLen, HeaderLen
<1>3. p \in 1..Len(words) /\ p + 1 + c = EndOf(i)
  BY Zenon DEF Layout
<1>4. EndOf(i) <= Len(words) + 1 /\ EndOf(i) \in Int
  <2>1. CASE i < Len(added)
    <3>1. i + 1 \in 1..Len(added)
      BY <1>1, <2>1
    <3>2. added[i + 1].at \in 1..Len(words)
      BY <3>1, Zenon DEF Layout
    <3>3. QED
      BY <1>1, <2>1, <3>2 DEF EndOf
  <2>2. CASE ~(i < Len(added))
    BY <1>1, <2>2 DEF EndOf
  <2>3. QED
    BY <2>1, <2>2, Zenon
<1>5. Padded(words[p].len) = 4 * c /\ c \in Nat
  BY <1>1, <1>3, WordAt, PaddedCells, Zenon
<1>6. CommandMessageLen - At(p) = 4 * (Len(words) - p + 1)
  <2>1. Len(words) \in Int /\ p \in Int
    BY <1>1, <1>3
  <2>2. QED
    BY <1>2, <2>1, RemainingBytes, Zenon
<1>7. c <= Len(words) - p
  BY <1>1, <1>3, <1>4, <1>5, SMTT(20)
<1>8. 4 * c <= 4 * (Len(words) - p + 1) - 4 /\ 4 * (Len(words) - p + 1) >= 4
  BY <1>1, <1>3, <1>5, <1>7, SMTT(20)
<1>9. QED
  BY <1>2, <1>3, <1>5, <1>6, <1>8, Zenon DEF CheckValid

\* get_first returns the first attribute that was added, ...
LEMMA FirstAdded ==
  ASSUME Base, Layout, phase = "received", ~full
  PROVE  GetFirst = IF Len(added) = 0 THEN 0 ELSE added[1].at
<1>1. TypeOK /\ hlen = 4 * Len(words) /\ len = HeaderLen + hlen /\ Len(words) \in Nat
      /\ added \in Seq(Placed) /\ Len(added) \in Nat
  BY DEF Base, LengthsAgree, TypeOK
<1>2. CommandMessageLen = HeaderLen + 4 * Len(words)
  BY <1>1 DEF CommandMessageLen, HeaderLen
<1>3. CASE Len(added) = 0
  <2>1. Len(words) = 0
    BY <1>3, Zenon DEF Layout
  <2>2. QED
    BY <1>2, <1>3, <2>1 DEF GetFirst, HeaderLen
<1>4. CASE Len(added) # 0
  <2>1. 1 \in 1..Len(added) /\ added[1].at = 1
    BY <1>1, <1>4 DEF Layout
  <2>2. CheckValid(1, CommandMessageLen - At(1)) = 1 /\ 1 \in 1..Len(words)
    BY <2>1, AddedValid, Zenon
  <2>3. At(1) = HeaderLen
    BY DEF At, HeaderLen
  <2>4. CommandMessageLen > HeaderLen
    BY <1>1, <1>2, <2>2 DEF HeaderLen
  <2>5. QED
    BY <1>4, <2>1, <2>2, <2>3, <2>4, Zenon DEF GetFirst
<1>5. QED
  BY <1>3, <1>4, Zenon

\* ... and get_next the one added after.
LEMMA NextAdded ==
  ASSUME Base, Layout, phase = "received", ~full, NEW i \in 1..Len(added)
  PROVE  GetNext(added[i].at) = IF i < Len(added) THEN added[i + 1].at ELSE 0
<1> DEFINE p == added[i].at
           c == Cells(words[p].len)
           q == p + 1 + c
<1>1. TypeOK /\ Len(words) \in Nat /\ Len(added) \in Nat
  BY DEF Base, TypeOK
<1>2. CommandMessageLen = HeaderLen + 4 * Len(words)
  BY AddedValid, Zenon
<1>3. p \in 1..Len(words) /\ q = EndOf(i)
  BY Zenon DEF Layout
<1>4. Padded(words[p].len) = 4 * c /\ c \in Nat /\ (4 * c) \div 4 = c
  <2>1. Padded(words[p].len) = 4 * c /\ c \in Nat
    BY <1>1, <1>3, WordAt, PaddedCells, Zenon
  <2>2. \A x \in Nat : (4 * x) \div 4 = x
    OBVIOUS
  <2>3. QED
    BY <2>1, <2>2, Zenon
<1>5. CommandMessageLen - At(p) - 4 = 4 * (Len(words) - p)
  <2>1. Len(words) \in Int /\ p \in Int
    BY <1>1, <1>3
  <2>2. QED
    BY <1>2, <2>1, RemainingBytes, Zenon
<1>6. GetNext(p) = IF 4 * c < 4 * (Len(words) - p) THEN CheckValid(q, CommandMessageLen - At(q)) ELSE 0
  BY <1>4, <1>5, SMTT(20) DEF GetNext
<1>7. CASE i < Len(added)
  <2>1. i + 1 \in 1..Len(added) /\ q = added[i + 1].at
    BY <1>1, <1>3, <1>7 DEF EndOf
  <2>2. q \in 1..Len(words) /\ CheckValid(q, CommandMessageLen - At(q)) = q
    BY <2>1, AddedValid, Zenon
  <2>3. 4 * c < 4 * (Len(words) - p)
    BY <1>1, <1>3, <1>4, <2>2
  <2>4. QED
    BY <1>6, <1>7, <2>1, <2>2, <2>3, Zenon
<1>8. CASE ~(i < Len(added))
  <2>1. q = Len(words) + 1
    BY <1>3, <1>8, Zenon DEF EndOf
  <2>2. ~(4 * c < 4 * (Len(words) - p))
    BY <1>1, <1>3, <1>4, <2>1
  <2>3. QED
    BY <1>6, <1>8, <2>2, Zenon
<1>9. QED
  BY <1>7, <1>8, Zenon

\* Every action keeps the layout.
LEMMA StepLayout ==
  ASSUME WalkBase, Layout, Next
  PROVE  Layout'
<1> USE DEF WalkBase
<1>1. CASE StartRequest
  <2>1. Len(words') = 0 /\ Len(added') = 0
    BY <1>1, Zenon DEF StartRequest, Base, Frame
  <2>2. QED
    BY <2>1 DEF Layout
<1>2. CASE BuildStep
  <2>1. Head(todo) \in Word /\ phase = "build" /\ phase' = phase /\ full' = full
    BY <1>2, HeadWord, Zenon DEF BuildStep, Base
  <2>2. CASE Fits(Head(todo).len)
    BY <1>2, <2>1, <2>2, AddLayout, Zenon DEF BuildStep, Writing
  <2>3. CASE ~Fits(Head(todo).len)
    BY <1>2, <2>1, <2>3 DEF BuildStep, Layout, EndOf
  <2>4. QED
    BY <2>2, <2>3, Zenon
<1>3. CASE StartOrigin \/ StartIntegrity
  BY <1>3, SMTT(20) DEF StartOrigin, StartIntegrity, Layout, EndOf, body
<1>4. CASE OriginStep
  <2>1. Head(todo) \in Word /\ phase = "origin" /\ phase' = phase /\ full' = full
    BY <1>4, HeadWord, Zenon DEF OriginStep, Base
  <2>2. CASE Fits(Head(todo).len)
    BY <1>4, <2>1, <2>2, AddLayout, Zenon DEF OriginStep, Writing
  <2>3. CASE ~Fits(Head(todo).len)
    BY <1>4, <2>1, <2>3 DEF OriginStep, Layout, EndOf
  <2>4. QED
    BY <2>2, <2>3, Zenon
<1>5. CASE SignStep
  <2>1. Head(todo) \in Word /\ phase = "sign" /\ full' = full
    BY <1>5, HeadWord, Zenon DEF SignStep, Base
  <2>2. CASE Fits(Head(todo).len)
    BY <1>5, <2>1, <2>2, AddLayout, Zenon DEF SignStep, Writing
  <2>3. CASE ~Fits(Head(todo).len)
    BY <1>5, <2>1, <2>3, SMTT(20) DEF SignStep, Layout, EndOf
  <2>4. QED
    BY <2>2, <2>3, Zenon
<1>6. CASE AddFingerprint
  <2>1. CASE Fits(4)
    <3>1. PICK v \in Words : AttrAdd(Attr("FINGERPRINT", 4), v)
      BY <1>6, <2>1, Zenon DEF AddFingerprint
    <3>2. Attr("FINGERPRINT", 4) \in Word /\ Attr("FINGERPRINT", 4).len = 4
      BY Zenon DEF Attr, Word, Types
    <3>3. QED
      BY <1>6, <2>1, <3>1, <3>2, AddLayout, Zenon DEF AddFingerprint, Writing
  <2>2. CASE ~Fits(4)
    BY <1>6, <2>2, Zenon DEF AddFingerprint, Layout
  <2>3. QED
    BY <2>1, <2>2, Zenon
<1>7. CASE Arrive
  BY <1>7, Zenon DEF Arrive, Layout
<1>8. CASE Read
  <2>1. UNCHANGED <<phase, words, added, full>>
    BY <1>8, Zenon DEF Read, Search, SearchStep, CheckIntegrity, CheckFingerprint, Found, body
  <2>2. QED
    BY <2>1, Zenon DEF Layout, EndOf
<1>9. QED
  BY <1>1, <1>2, <1>3, <1>4, <1>5, <1>6, <1>7, <1>8, Zenon DEF Next

\* Every action keeps the trail.
LEMMA StepTrail ==
  ASSUME WalkBase, Layout, Trail, Next
  PROVE  Trail'
<1> USE DEF WalkBase
<1>1. CASE Search
  <2>1. SUFFICES ASSUME phase = "received", ~full PROVE Trail'
    BY <1>1, Zenon DEF Search, Trail, body
  <2>2. UNCHANGED <<phase, words, added, full>> /\ cursor' = GetFirst
        /\ seen' = SeenWith(<<>>, GetFirst) /\ Len(added) \in Nat
    BY <1>1 DEF Search, body, Base, TypeOK
  <2>3. CASE Len(added) = 0
    <3>1. cursor' = 0 /\ seen' = <<>>
      BY <2>1, <2>2, <2>3, FirstAdded, Zenon DEF SeenWith
    <3>2. QED
      BY <2>2, <2>3, <3>1 DEF Trail
  <2>4. CASE Len(added) # 0
    <3>1. 1 \in 1..Len(added) /\ GetFirst = added[1].at
      BY <2>1, <2>2, <2>4, FirstAdded
    <3>2. added[1].at \in 1..Len(words) /\ words[added[1].at] = added[1].attr
      BY <2>1, <3>1, Zenon DEF Layout
    <3>3. seen' = <<[at |-> added[1].at, attr |-> added[1].attr]>> /\ cursor' # 0
      BY <2>1, <2>2, <3>1, <3>2 DEF SeenWith, Base, TypeOK
    <3>4. added[1] = [at |-> added[1].at, attr |-> added[1].attr]
      <4>1. added[1] \in Placed
        BY <3>1, ElementOfSeq, Zenon DEF Base, TypeOK
      <4>2. QED
        BY <4>1, Zenon DEF Placed
    <3>5. Len(seen') = 1 /\ seen'[1] = added[1]
      BY <3>3, <3>4, Zenon
    <3>6. added' = added /\ cursor' = added[1].at /\ cursor' # 0 /\ Len(added) >= 1
      BY <2>2, <3>1, <3>3
    <3>7. Len(seen') <= Len(added') /\ Len(seen') > 0 /\ cursor' = added'[Len(seen')].at
      BY <3>5, <3>6
    <3>8. \A i \in 1..Len(seen') : seen'[i] = added'[i] /\ ~(i < Len(seen'))
      BY <3>5, <3>6
    <3>9. QED
      BY <3>6, <3>7, <3>8, Zenon DEF Trail
  <2>5. QED
    BY <2>3, <2>4, SMTT(20)
<1>2. CASE SearchStep
  <2>1. SUFFICES ASSUME phase = "received", ~full PROVE Trail'
    BY <1>2, Zenon DEF SearchStep, Trail, body
  <2>2. UNCHANGED <<phase, words, added, full, target>> /\ cursor' = GetNext(cursor)
        /\ seen' = SeenWith(seen, GetNext(cursor)) /\ Len(added) \in Nat /\ Len(seen) \in Nat
        /\ target # Null /\ cursor # 0 /\ words[cursor].type # target
    BY <1>2 DEF SearchStep, Searching, body, Base, TypeOK
  <2>3. /\ Len(seen) <= Len(added) /\ Len(seen) > 0 /\ cursor = added[Len(seen)].at
        /\ \A i \in 1..Len(seen) : seen[i] = added[i]
        /\ \A i \in 1..Len(seen) : i < Len(seen) => added[i].attr.type # target
    BY <2>1, <2>2, Zenon DEF Trail
  <2> DEFINE n == Len(seen)
  <2>4. n \in 1..Len(added)
    BY <2>2, <2>3
  <2>5. words[cursor] = added[n].attr
    BY <2>1, <2>3, <2>4, Zenon DEF Layout
  <2>6. \A i \in 1..n : added[i].attr.type # target
    BY <2>2, <2>3, <2>5
  <2>7. CASE n < Len(added)
    <3>1. n + 1 \in 1..Len(added) /\ cursor' = added[n + 1].at
      BY <2>1, <2>2, <2>3, <2>4, <2>7, NextAdded
    <3>2. added[n + 1].at \in 1..Len(words) /\ words[added[n + 1].at] = added[n + 1].attr
      BY <2>1, <3>1, Zenon DEF Layout
    <3>3. cursor' # 0 /\ seen' = Append(seen, [at |-> added[n + 1].at, attr |-> added[n + 1].attr])
      BY <2>1, <2>2, <3>1, <3>2 DEF SeenWith, Base, TypeOK
    <3>4. added[n + 1] = [at |-> added[n + 1].at, attr |-> added[n + 1].attr] /\ added[n + 1] \in Placed
      <4>1. added[n + 1] \in Placed
        BY <3>1, ElementOfSeq, Zenon DEF Base, TypeOK
      <4>2. QED
        BY <4>1, Zenon DEF Placed
    <3>5. /\ Len(seen') = n + 1 /\ seen'[n + 1] = added[n + 1]
          /\ \A i \in 1..n : seen'[i] = seen[i]
      BY <3>3, <3>4, AppendProperties DEF Base, TypeOK
    <3>6. \A i \in 1..(n + 1) : seen'[i] = added[i]
      BY <2>2, <2>3, <3>5
    <3>7. \A i \in 1..(n + 1) : i < n + 1 => added[i].attr.type # target
      BY <2>2, <2>6
    <3>8. QED
      BY <2>2, <3>1, <3>3, <3>5, <3>6, <3>7 DEF Trail
  <2>8. CASE ~(n < Len(added))
    <3>1. cursor' = 0 /\ seen' = seen /\ n = Len(added)
      BY <2>1, <2>2, <2>3, <2>4, <2>8, NextAdded DEF SeenWith
    <3>2. QED
      BY <2>2, <2>3, <2>6, <3>1, Zenon DEF Trail
  <2>9. QED
    BY <2>7, <2>8, Zenon
<1>3. CASE CheckIntegrity \/ CheckFingerprint \/ Found
  BY <1>3, Zenon DEF CheckIntegrity, CheckFingerprint, Found, Trail, Null
<1>4. CASE ~Read
  <2>1. target' = Null
    BY <1>4, Zenon DEF Next, StartRequest, BuildStep, StartOrigin, OriginStep, StartIntegrity,
       SignStep,
                AddFingerprint, Arrive, reading, Base, Frame
  <2>2. QED
    BY <2>1, SMTT(20) DEF Trail, Null
<1>5. QED
  BY <1>1, <1>2, <1>3, <1>4, Zenon DEF Read

\* All that is known of a walk.
Tracked == WalkBase /\ Layout /\ Trail

\* It holds of the empty message, ...
LEMMA InitTracked == Init => Tracked
  BY InitBase, Zenon DEF Init, Tracked, Layout, Trail

\* ... and every step keeps it.
LEMMA StepTracked == Tracked /\ [Next]_vars => Tracked'
<1> SUFFICES ASSUME Tracked, [Next]_vars PROVE Tracked'
  BY Zenon
<1>1. CASE Next
  BY <1>1, StepBase, StepLayout, StepTrail, Zenon DEF Tracked
<1>2. CASE UNCHANGED vars
  <2>1. WalkBase'
    BY StepBase, SMTT(20) DEF Tracked
  <2>2. Layout' /\ Trail'
    BY <1>2, Zenon DEF Tracked, Layout, Trail, EndOf, vars, body, reading
  <2>3. QED
    BY <2>1, <2>2, Zenon DEF Tracked
<1>3. QED
  BY <1>1, <1>2, Zenon

\* A search that has come by the first attributes has read back what was added.
LEMMA TrackedRoundTrip == Tracked => RoundTrip
<1> SUFFICES ASSUME Tracked, phase = "received", ~full, target # Null
             PROVE  /\ Len(seen) <= Len(added)
                    /\ seen = SubSeq(added, 1, Len(seen))
                    /\ cursor = 0 => seen = added
  BY Zenon DEF RoundTrip
<1>1. /\ Len(seen) <= Len(added) /\ \A i \in 1..Len(seen) : seen[i] = added[i]
      /\ cursor = 0 => Len(seen) = Len(added)
  BY Zenon DEF Tracked, Trail
<1>2. seen \in Seq(Placed) /\ added \in Seq(Placed) /\ Len(seen) \in Nat /\ Len(added) \in Nat
  BY DEF Tracked, WalkBase, Base, TypeOK
<1> DEFINE sub == SubSeq(added, 1, Len(seen))
<1>3. sub \in Seq(Placed) /\ Len(sub) = Len(seen) /\ \A i \in 1..Len(seen) : sub[i] = added[i]
  BY <1>1, <1>2, SubSeqProperties
<1>4. seen = sub
  BY <1>1, <1>2, <1>3, SeqEqual, Zenon
<1>5. cursor = 0 => seen = added
  BY <1>1, <1>2, SeqEqual, Zenon
<1>6. QED
  BY <1>1, <1>4, <1>5, Zenon

\* For every limit and whatever the values look like, a walk over the client's
\* own message comes by exactly the attributes that stun_attr_add_str added.
THEOREM StunRoundTrip == Spec => []RoundTrip
  BY InitTracked, StepTracked, TrackedRoundTrip, PTL DEF Spec

==============================================================================
