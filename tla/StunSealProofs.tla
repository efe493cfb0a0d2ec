--------------------------- MODULE StunSealProofs ---------------------------
(***************************************************************************)
(* That the client's checks accept the fingerprint and the HMAC of a       *)
(* message built and received whole, for every limit and set of keys.      *)
(***************************************************************************)
EXTENDS StunMessageProofs

(* The HMAC and the CRC. *)

\* What add_integrity adds.
Credentials ==
  {w \in Word : w.type # "FINGERPRINT" /\ (w.type = "MESSAGE_INTEGRITY" => w.len = ShaSize)}

\* The message was not signed, or it was, once.
SignedOnce ==
  \/ mac = Unknown /\ \A i \in 1..Len(added) : added[i].attr.type # "MESSAGE_INTEGRITY"
  \/ \E j \in 1..Len(added) :
       /\ added[j].attr = Attr("MESSAGE_INTEGRITY", ShaSize)
       /\ \A i \in 1..Len(added) : added[i].attr.type = "MESSAGE_INTEGRITY" => i = j

\* The fingerprint is there once, at the end, and its CRC is right.
FingerprintLast ==
  /\ Len(added) > 0 /\ added[Len(added)].attr = Attr("FINGERPRINT", 4)
  /\ added[Len(added)].at = Len(words) - 1
  /\ \A i \in 1..Len(added) : added[i].attr.type = "FINGERPRINT" => i = Len(added)
  /\ crc = CrcOf(words, hlen)

\* What has been added so far, by phase.
Marks ==
  /\ phase \in {"build", "origin"} => todo \in Seq(Plain)
  /\ phase = "sign" => todo \in Seq(Credentials)
  /\ phase \in {"build", "origin", "sign"} =>
       /\ mac = Unknown
       /\ \A i \in 1..Len(added) : added[i].attr.type # "MESSAGE_INTEGRITY"
  /\ phase \in Writing => \A i \in 1..Len(added) : added[i].attr.type # "FINGERPRINT"
  /\ phase = "mark" => SignedOnce
  /\ phase = "received" /\ ~full => SignedOnce /\ FingerprintLast

\* Reading leaves what was built as it is.
LEMMA KeepMarks ==
  ASSUME Marks, UNCHANGED <<phase, body, todo>>
  PROVE  Marks'
<1>1. UNCHANGED <<phase, words, hlen, added, mac, crc, full, todo>>
  BY Zenon DEF body
<1>2. SignedOnce' <=> SignedOnce
  BY <1>1, Zenon DEF SignedOnce, Unknown, Attr, ShaSize
<1>3. FingerprintLast' <=> FingerprintLast
  BY <1>1, Zenon DEF FingerprintLast, CrcOf, Attr
<1>4. QED
  BY <1>1, <1>2, <1>3, Zenon DEF Marks, Writing, Unknown

\* What an add does to the list of attributes.
LEMMA AddKeeps ==
  ASSUME Base, phase \in Writing, NEW a \in Word, NEW v \in Words, AttrAdd(a, v)
  PROVE  /\ Len(added) \in Nat /\ Len(words) \in Nat /\ Len(added') = Len(added) + 1
         /\ \A i \in 1..Len(added) : added'[i] = added[i]
         /\ added'[Len(added) + 1] = [at |-> Len(words) + 1, attr |-> a]
         /\ Len(words') = Len(words) + 1 + Cells(a.len) /\ hlen' = 4 * Len(words')
<1>1. TypeOK /\ Sized /\ v \in Word
  BY ValueWord, Zenon DEF Base, LengthsAgree, Sized, Writing
<1>2. /\ words' \in Seq(Word) /\ Len(words') = Len(words) + 1 + Cells(a.len)
      /\ Cells(a.len) \in Nat
      /\ \A i \in 1..Len(words) : words'[i] = words[i]
      /\ hlen' = 4 * Len(words')
      /\ added' = Append(added, [at |-> Len(words) + 1, attr |-> a])
  BY <1>1, AddEffect, Zenon
<1>3. words \in Seq(Word) /\ added \in Seq(Placed) /\ Len(words) \in Nat /\ Len(added) \in Nat
  BY <1>1 DEF TypeOK
<1>4. [at |-> Len(words) + 1, attr |-> a] \in Placed
  BY <1>3 DEF Placed
<1>5. /\ Len(added') = Len(added) + 1
      /\ \A i \in 1..Len(added) : added'[i] = added[i]
      /\ added'[Len(added) + 1] = [at |-> Len(words) + 1, attr |-> a]
  <2>1. /\ added' = Append(added, [at |-> Len(words) + 1, attr |-> a])
        /\ added \in Seq(Placed)
    BY <1>2, <1>3, Zenon
  <2>2. QED
    BY <2>1, <1>4, AppendProperties
<1>6. QED
  BY <1>2, <1>3, <1>5, Zenon

\* An attribute that is no MESSAGE-INTEGRITY does not disturb the signature.
LEMMA AddSigned ==
  ASSUME Base, phase \in Writing, SignedOnce, NEW a \in Word,
         a.type # "MESSAGE_INTEGRITY", NEW v \in Words, AttrAdd(a, v), mac' = mac
  PROVE  SignedOnce'
<1> DEFINE n == Len(added)
<1>1. /\ n \in Nat /\ Len(added') = n + 1
      /\ \A i \in 1..n : added'[i] = added[i]
      /\ added'[n + 1].attr = a
  <2>1. /\ Len(added) \in Nat /\ Len(added') = Len(added) + 1
        /\ \A i \in 1..Len(added) : added'[i] = added[i]
        /\ added'[Len(added) + 1] = [at |-> Len(words) + 1, attr |-> a]
    BY AddKeeps, Zenon
  <2>2. QED
    BY <2>1
<1>2. ASSUME NEW i \in 1..(n + 1), added'[i].attr.type = "MESSAGE_INTEGRITY"
      PROVE  i \in 1..n /\ added[i].attr.type = "MESSAGE_INTEGRITY"
  <2>1. i # n + 1
    BY <1>1, <1>2, Zenon
  <2>2. i \in 1..n
    BY <1>1, <2>1
  <2>3. QED
    BY <1>1, <1>2, <2>2, Zenon
<1>3. CASE mac = Unknown /\ \A i \in 1..n : added[i].attr.type # "MESSAGE_INTEGRITY"
  BY <1>1, <1>2, <1>3, Zenon DEF SignedOnce, Unknown
<1>4. ASSUME NEW j \in 1..n,
             added[j].attr = Attr("MESSAGE_INTEGRITY", ShaSize),
             \A i \in 1..n : added[i].attr.type = "MESSAGE_INTEGRITY" => i = j
      PROVE  SignedOnce'
  <2>1. j \in 1..Len(added') /\ added'[j] = added[j]
    BY <1>1
  <2>2. \A i \in 1..Len(added') : added'[i].attr.type = "MESSAGE_INTEGRITY" => i = j
    BY <1>1, <1>2, <1>4, Zenon
  <2>3. added'[j].attr = Attr("MESSAGE_INTEGRITY", ShaSize)'
    BY <1>4, <2>1, Zenon DEF Attr, ShaSize
  <2>4. QED
    BY <2>1, <2>2, <2>3, Zenon DEF SignedOnce
<1>5. QED
  BY <1>3, <1>4, Zenon DEF SignedOnce

\* A type that is neither there nor added is not there afterwards.
LEMMA AddTypes ==
  ASSUME Base, phase \in Writing, NEW a \in Word, NEW v \in Words, AttrAdd(a, v),
         NEW t, a.type # t, \A i \in 1..Len(added) : added[i].attr.type # t
  PROVE  \A i \in 1..Len(added') : added'[i].attr.type # t
<1>1. /\ Len(added) \in Nat /\ Len(added') = Len(added) + 1
      /\ \A i \in 1..Len(added) : added'[i] = added[i]
      /\ added'[Len(added) + 1] = [at |-> Len(words) + 1, attr |-> a]
  BY AddKeeps, Zenon
<1>2. TAKE i \in 1..Len(added')
<1>3. CASE i = Len(added) + 1
  BY <1>1, <1>3
<1>4. CASE i # Len(added) + 1
  <2>1. i \in 1..Len(added)
    BY <1>1, <1>4
  <2>2. QED
    BY <1>1, <2>1, Zenon
<1>5. QED
  BY <1>3, <1>4, Zenon

\* Signing: the attribute just added is the one SignedOnce describes.
LEMMA SignSigned ==
  ASSUME Base, phase = "sign", \A i \in 1..Len(added) : added[i].attr.type # "MESSAGE_INTEGRITY",
         NEW a \in Word, a.type = "MESSAGE_INTEGRITY", a.len = ShaSize, NEW v \in Words,
         AttrAdd(a, v)
  PROVE  SignedOnce'
<1>1. PICK j \in Nat : j = Len(added) + 1
  BY DEF Base, TypeOK
<1>2. /\ Len(added) \in Nat /\ Len(added') = j
      /\ \A i \in 1..Len(added) : added'[i] = added[i]
      /\ added'[j] = [at |-> Len(words) + 1, attr |-> a]
  BY <1>1, AddKeeps, Zenon DEF Writing
<1>3. a = Attr("MESSAGE_INTEGRITY", ShaSize)
  BY Zenon DEF Attr, Word
<1>4. j \in 1..Len(added') /\ added'[j].attr = a
  BY <1>1, <1>2
<1>5. ASSUME NEW i \in 1..Len(added'), added'[i].attr.type = "MESSAGE_INTEGRITY"
      PROVE  i = j
  BY <1>1, <1>2, <1>5
<1>6. added'[j].attr = Attr("MESSAGE_INTEGRITY", ShaSize)'
  BY <1>3, <1>4, Zenon DEF Attr, ShaSize
<1>7. QED
  BY <1>4, <1>5, <1>6, Zenon DEF SignedOnce

\* The fingerprint just added is the one FingerprintLast describes.
LEMMA FingerprintAdded ==
  ASSUME Base, phase = "mark", \A i \in 1..Len(added) : added[i].attr.type # "FINGERPRINT",
         NEW v \in Words, AttrAdd(Attr("FINGERPRINT", 4), v), crc' = CrcOf(words', hlen')
  PROVE  FingerprintLast'
<1> DEFINE a == Attr("FINGERPRINT", 4)
<1>1. a \in Word /\ a.len = 4 /\ a.type = "FINGERPRINT"
  BY Zenon DEF Attr, Word, Types
<1>2. /\ Len(added) \in Nat /\ Len(words) \in Nat /\ Len(added') = Len(added) + 1
      /\ \A i \in 1..Len(added) : added'[i] = added[i]
      /\ added'[Len(added) + 1] = [at |-> Len(words) + 1, attr |-> a]
      /\ Len(words') = Len(words) + 1 + Cells(a.len)
  BY <1>1, AddKeeps, Zenon DEF Writing
<1>3. Cells(4) = 1
  BY DEF Cells
<1>4. added'[Len(added')].at = Len(words') - 1 /\ Len(added') > 0
  BY <1>1, <1>2, <1>3
<1>5. added'[Len(added')].attr = Attr("FINGERPRINT", 4)
  BY <1>2
<1>6. ASSUME NEW i \in 1..Len(added'), added'[i].attr.type = "FINGERPRINT"
      PROVE  i = Len(added')
  BY <1>2, <1>6
<1>7. QED
  BY <1>4, <1>5, <1>6, Zenon DEF FingerprintLast, CrcOf, Attr

\* The next attribute of a list of plain ones, or of credentials.
LEMMA HeadIn ==
  ASSUME NEW S, todo \in Seq(S), todo # <<>>
  PROVE  Head(todo) \in S /\ Tail(todo) \in Seq(S)
  BY HeadTailProperties, Zenon

\* A builder or add_origin adds a plain attribute, or finds no room for it.
LEMMA PlainMarks ==
  ASSUME Base, Marks, phase \in {"build", "origin"}, phase' = phase, todo' \in Seq(Plain), mac' = mac,
         \/ UNCHANGED <<added, words>>
         \/ \E a \in Plain, v \in Words : AttrAdd(a, v)
  PROVE  Marks'
<1>1. mac' = Unknown' /\ Unknown' = Unknown
  BY Zenon DEF Marks, Unknown
<1>2. /\ \A i \in 1..Len(added') : added'[i].attr.type # "MESSAGE_INTEGRITY"
      /\ \A i \in 1..Len(added') : added'[i].attr.type # "FINGERPRINT"
  <2>1. CASE UNCHANGED <<added, words>>
    BY <2>1, Zenon DEF Marks, Writing
  <2>2. CASE \E a \in Plain, v \in Words : AttrAdd(a, v)
    <3>1. PICK a \in Plain, v \in Words : AttrAdd(a, v)
      BY <2>2, Zenon
    <3>2. a \in Word /\ a.type # "MESSAGE_INTEGRITY" /\ a.type # "FINGERPRINT"
      BY Zenon DEF Plain
    <3>3. phase \in Writing
      BY Zenon DEF Writing
    <3>4. \A i \in 1..Len(added') : added'[i].attr.type # "MESSAGE_INTEGRITY"
      BY <3>1, <3>2, <3>3, AddTypes, Zenon DEF Marks
    <3>5. \A i \in 1..Len(added') : added'[i].attr.type # "FINGERPRINT"
      BY <3>1, <3>2, <3>3, AddTypes, Zenon DEF Marks
    <3>6. QED
      BY <3>4, <3>5, Zenon
  <2>3. QED
    BY <2>1, <2>2, Zenon
<1>3. QED
  BY <1>1, <1>2, Zenon DEF Marks

\* Every action keeps the marks.
LEMMA StepMarks ==
  ASSUME Tracked, Marks, Next
  PROVE  Marks'
<1>0. Base
  BY Zenon DEF Tracked, WalkBase
<1>1. CASE StartRequest
  <2>1. todo' \in Seq(Plain)
    <3>1. <<>> \in Seq(Plain)
      OBVIOUS
    <3>2. CASE todo' = <<>>
      BY <3>1, <3>2, Zenon
    <3>3. CASE \E addrLen \in {8, 20} : todo' = ChannelBindRequest(addrLen)
      BY <3>3, Requests, Zenon
    <3>4. CASE \E af4, af6, mobile, rt, ep \in BOOLEAN :
                 todo' = AllocateRequest(af4, af6, mobile, rt, ep)
      BY <3>4, Requests
    <3>5. QED
      BY <1>1, <3>2, <3>3, <3>4, Zenon DEF StartRequest
  <2>2. phase' = "build" /\ mac' = Unknown /\ Len(added') = 0
    BY <1>0, <1>1, Zenon DEF StartRequest, Base, Frame
  <2>3. QED
    BY <2>1, <2>2 DEF Marks, Unknown
<1>2. CASE BuildStep
  <2>1. Head(todo) \in Plain /\ Tail(todo) \in Seq(Plain)
    BY <1>2, HeadIn, Zenon DEF BuildStep, Marks
  <2>2. todo' \in Seq(Plain)
    <3>1. <<>> \in Seq(Plain)
      OBVIOUS
    <3>2. QED
      BY <1>2, <2>1, <3>1, Zenon DEF BuildStep
  <2>3. \/ UNCHANGED <<added, words>>
        \/ \E a \in Plain, v \in Words : AttrAdd(a, v)
    BY <1>2, <2>1, Zenon DEF BuildStep
  <2>4. phase \in {"build", "origin"} /\ phase' = phase /\ mac' = mac
    BY <1>2, Zenon DEF BuildStep
  <2>5. QED
    BY <1>0, <2>2, <2>3, <2>4, PlainMarks, Zenon
<1>3. CASE StartOrigin
  <2>1. todo' \in Seq(Plain)
    <3>1. <<>> \in Seq(Plain)
      OBVIOUS
    <3>2. ASSUME NEW l \in Nat
          PROVE  <<Attr("ORIGIN", 23), Attr("ORIGIN", l), Attr("ORIGIN", 17)>> \in Seq(Plain)
      BY DEF Attr, Plain, Word, Types
    <3>3. QED
      BY <1>3, <3>1, <3>2, MessageAssumption, Zenon DEF StartOrigin
  <2>2. QED
    BY <1>3, <2>1, Zenon DEF StartOrigin, Marks, body, Writing, Unknown
<1>4. CASE OriginStep
  <2>1. Head(todo) \in Plain /\ Tail(todo) \in Seq(Plain)
    BY <1>4, HeadIn, Zenon DEF OriginStep, Marks
  <2>2. \/ UNCHANGED <<added, words>>
        \/ \E a \in Plain, v \in Words : AttrAdd(a, v)
    BY <1>4, <2>1, Zenon DEF OriginStep
  <2>3. phase \in {"build", "origin"} /\ phase' = phase /\ mac' = mac /\ todo' = Tail(todo)
    BY <1>4, Zenon DEF OriginStep
  <2>4. QED
    BY <1>0, <2>1, <2>2, <2>3, PlainMarks, Zenon
<1>5. CASE StartIntegrity
  <2>1. phase = "origin" /\ UNCHANGED body /\ phase' \in {"mark", "sign"}
    BY <1>5, Zenon DEF StartIntegrity
  <2>2. phase' = "sign" => todo' \in Seq(Credentials)
    <3>1. ASSUME NEW l \in Nat
          PROVE  <<Attr("USERNAME", l), Attr("NONCE", 16), Attr("REALM", l),
                   Attr("MESSAGE_INTEGRITY", ShaSize)>> \in Seq(Credentials)
      BY DEF Attr, Credentials, Word, Types, ShaSize
    <3>2. QED
      BY <1>5, <3>1, MessageAssumption, Zenon DEF StartIntegrity
  <2>3. mac = Unknown /\ (\A i \in 1..Len(added) : added[i].attr.type # "MESSAGE_INTEGRITY")
        /\ (\A i \in 1..Len(added) : added[i].attr.type # "FINGERPRINT")
    BY <2>1, Zenon DEF Marks, Writing
  <2>4. SignedOnce'
    BY <2>1, <2>3, Zenon DEF SignedOnce, body, Unknown
  <2>5. QED
    BY <2>1, <2>2, <2>3, <2>4, Zenon DEF Marks, body, Writing, Unknown
<1>6. CASE SignStep
  <2>1. phase = "sign" /\ Head(todo) \in Credentials /\ Tail(todo) \in Seq(Credentials)
    BY <1>6, HeadIn, Zenon DEF SignStep, Marks
  <2>2. Head(todo) \in Word /\ Head(todo).type # "FINGERPRINT"
        /\ (Head(todo).type = "MESSAGE_INTEGRITY" => Head(todo).len = ShaSize)
    BY <2>1, Zenon DEF Credentials
  <2>3. mac = Unknown /\ (\A i \in 1..Len(added) : added[i].attr.type # "MESSAGE_INTEGRITY")
        /\ (\A i \in 1..Len(added) : added[i].attr.type # "FINGERPRINT") /\ phase \in Writing
    BY <2>1, Zenon DEF Marks, Writing
  <2>4. CASE ~Fits(Head(todo).len)
    <3>1. phase' = "dropped"
      BY <1>6, <2>4, Zenon DEF SignStep
    <3>2. QED
      BY <3>1, Zenon DEF Marks, Writing
  <2>5. CASE Fits(Head(todo).len)
    <3>1. PICK v \in Words : AttrAdd(Head(todo), v)
      BY <1>6, <2>5, Zenon DEF SignStep
    <3>2. \A i \in 1..Len(added') : added'[i].attr.type # "FINGERPRINT"
      BY <1>0, <2>2, <2>3, <3>1, AddTypes, Zenon
    <3>3. CASE Head(todo).type = "MESSAGE_INTEGRITY"
      <4>1. phase' = "mark"
        BY <1>6, <2>5, <3>3, Zenon DEF SignStep
      <4>2. SignedOnce'
        BY <1>0, <2>1, <2>2, <2>3, <3>1, <3>3, <4>1, SignSigned, Zenon
      <4>3. QED
        BY <3>2, <4>1, <4>2, Zenon DEF Marks, Writing
    <3>4. CASE Head(todo).type # "MESSAGE_INTEGRITY"
      <4>1. phase' = "sign" /\ mac' = mac /\ todo' = Tail(todo)
        BY <1>6, <2>1, <2>5, <3>4, Zenon DEF SignStep
      <4>2. \A i \in 1..Len(added') : added'[i].attr.type # "MESSAGE_INTEGRITY"
        BY <1>0, <2>2, <2>3, <3>1, <3>4, AddTypes, Zenon
      <4>3. QED
        BY <2>1, <2>3, <3>2, <4>1, <4>2, Zenon DEF Marks, Writing, Unknown
    <3>5. QED
      BY <3>3, <3>4, Zenon
  <2>6. QED
    BY <2>4, <2>5, Zenon
<1>7. CASE AddFingerprint
  <2>1. phase = "mark" /\ phase' = "received" /\ mac' = mac /\ crc' = CrcOf(words', hlen')
    BY <1>7, Zenon DEF AddFingerprint
  <2>2. CASE Fits(4)
    <3>1. PICK v \in Words : AttrAdd(Attr("FINGERPRINT", 4), v)
      BY <1>7, <2>2, Zenon DEF AddFingerprint
    <3>2. Attr("FINGERPRINT", 4) \in Word /\ Attr("FINGERPRINT", 4).type # "MESSAGE_INTEGRITY"
      BY Zenon DEF Attr, Word, Types
    <3>3. SignedOnce /\ phase \in Writing
          /\ (\A i \in 1..Len(added) : added[i].attr.type # "FINGERPRINT")
      BY <2>1, Zenon DEF Marks, Writing
    <3>4. SignedOnce'
      BY <1>0, <2>1, <3>1, <3>2, <3>3, AddSigned, Zenon
    <3>5. FingerprintLast'
      BY <1>0, <2>1, <3>1, <3>3, FingerprintAdded, Zenon
    <3>6. QED
      BY <2>1, <3>4, <3>5, Zenon DEF Marks, Writing
  <2>3. CASE ~Fits(4)
    <3>1. full' = TRUE
      BY <1>7, <2>3, Zenon DEF AddFingerprint
    <3>2. QED
      BY <2>1, <3>1, Zenon DEF Marks, Writing
  <2>4. QED
    BY <2>2, <2>3, Zenon
<1>8. CASE Arrive
  BY <1>8, Zenon DEF Arrive, Marks, Writing
<1>9. CASE Read
  <2>1. UNCHANGED <<phase, body, todo>>
    BY <1>9, Zenon DEF Read, Search, SearchStep, CheckIntegrity, CheckFingerprint, Found
  <2>2. QED
    BY <2>1, KeepMarks, Zenon
<1>10. QED
  BY <1>1, <1>2, <1>3, <1>4, <1>5, <1>6, <1>7, <1>8, <1>9, Zenon DEF Next

\* A search of the client's own message that is over has found the attribute
\* of the type it looked for, when there is just one.
LEMMA FoundIt ==
  ASSUME Tracked, phase = "received", ~full, target # Null, ~Searching,
         NEW j \in 1..Len(added), added[j].attr.type = target,
         \A i \in 1..Len(added) : added[i].attr.type = target => i = j
  PROVE  cursor # 0 /\ cursor = added[j].at /\ words[cursor] = added[j].attr
         /\ cursor \in 1..Len(words)
<1>1. Len(added) \in Nat /\ Len(seen) \in Nat
  BY DEF Tracked, WalkBase, Base, TypeOK
<1>2. /\ Len(seen) <= Len(added)
      /\ cursor # 0 => Len(seen) > 0 /\ cursor = added[Len(seen)].at
      /\ cursor = 0 => Len(seen) = Len(added)
      /\ \A i \in 1..Len(seen) : i < Len(seen) \/ cursor = 0 => added[i].attr.type # target
  BY Zenon DEF Tracked, Trail
<1>3. cursor # 0
  BY <1>1, <1>2, Zenon
<1>4. Len(seen) \in 1..Len(added) /\ cursor = added[Len(seen)].at
  BY <1>1, <1>2, <1>3
<1>5. words[cursor] = added[Len(seen)].attr /\ cursor \in 1..Len(words)
  BY <1>4, Zenon DEF Tracked, Layout
<1>6. added[Len(seen)].attr.type = target
  BY <1>3, <1>5, Zenon DEF Searching
<1>7. Len(seen) = j
  BY <1>4, <1>6, Zenon
<1>8. QED
  BY <1>3, <1>4, <1>5, <1>7, Zenon

\* The check of the fingerprint finds it right.
LEMMA FingerprintStep ==
  ASSUME Tracked, Marks, CheckFingerprint, phase = "received", ~full
  PROVE  outcome'.of = "fingerprint" /\ outcome'.ret = TRUE
<1> DEFINE j == Len(added)
<1>1. FingerprintLast
  BY Zenon DEF Marks
<1>2. j \in 1..Len(added) /\ added[j].attr.type = "FINGERPRINT" /\ added[j].attr.len = 4
  BY <1>1 DEF FingerprintLast, Attr, Tracked, WalkBase, Base, TypeOK
<1>3. target = "FINGERPRINT" /\ target # Null /\ ~Searching
  BY Zenon DEF CheckFingerprint, Null
<1>4. \A i \in 1..Len(added) : added[i].attr.type = target => i = j
  BY <1>1, <1>3, Zenon DEF FingerprintLast
<1>5. cursor # 0 /\ cursor = added[j].at /\ words[cursor] = added[j].attr
  BY <1>2, <1>3, <1>4, FoundIt, Zenon
<1>6. cursor = Len(words) - 1 /\ Len(words) \in Nat /\ words[cursor].len = 4
  BY <1>1, <1>2, <1>5 DEF FingerprintLast, Tracked, WalkBase, Base, TypeOK
<1>7. CrcMatches = {crc = [of |-> "crc", at |-> cursor + 1, covers |-> SubSeq(words, 1, cursor - 1),
                           hlen |-> hlen]}
  BY Zenon DEF CrcMatches
<1>8. crc = [of |-> "crc", at |-> cursor + 1, covers |-> SubSeq(words, 1, cursor - 1), hlen |-> hlen]
  <2>1. cursor + 1 = Len(words) /\ cursor - 1 = Len(words) - 2
    BY <1>6
  <2>2. QED
    BY <1>1, <2>1, Zenon DEF FingerprintLast, CrcOf
<1>9. PICK same \in CrcMatches : outcome' = [of |-> "fingerprint", ret |-> same]
  BY <1>5, <1>6, Zenon DEF CheckFingerprint
<1>10. same = TRUE
  BY <1>7, <1>8, <1>9, Zenon
<1>11. QED
  BY <1>9, <1>10, Zenon

\* The check of the integrity of a signed message returns 1.
LEMMA IntegrityStep ==
  ASSUME Tracked, Marks, CheckIntegrity, phase = "received", ~full, mac # Unknown
  PROVE  outcome'.of = "integrity" /\ outcome'.ret = 1
<1>1. PICK j \in 1..Len(added) :
        /\ added[j].attr = Attr("MESSAGE_INTEGRITY", ShaSize)
        /\ \A i \in 1..Len(added) : added[i].attr.type = "MESSAGE_INTEGRITY" => i = j
  BY Zenon DEF Marks, SignedOnce
<1>2. target = "MESSAGE_INTEGRITY" /\ target # Null /\ ~Searching
  BY Zenon DEF CheckIntegrity, Null
<1>3. added[j].attr.type = "MESSAGE_INTEGRITY" /\ added[j].attr.len = 20
  BY <1>1 DEF Attr, ShaSize
<1>4. cursor # 0 /\ cursor = added[j].at /\ words[cursor] = added[j].attr /\ cursor \in 1..Len(words)
  BY <1>1, <1>2, <1>3, FoundIt, Zenon
<1>5. words[cursor].len = ShaSize
  BY <1>3, <1>4, Zenon DEF ShaSize
<1>6. hlen \in Nat /\ len = HeaderLen + hlen /\ len \in Nat /\ Len(words) \in Nat
  BY DEF Tracked, WalkBase, Base, TypeOK, LengthsAgree
<1>7. At(cursor) + 4 + ShaSize <= CommandMessageLen
  <2>1. CommandMessageLen = HeaderLen + hlen
    BY <1>6 DEF CommandMessageLen, HeaderLen
  <2>2. Padded(20) = 20
    BY DEF Padded
  <2>3. At(cursor) + 4 + Padded(words[cursor].len) <= HeaderLen + hlen
    BY <1>4, Zenon DEF Tracked, WalkBase, WalkInside
  <2>4. QED
    BY <1>5, <2>1, <2>2, <2>3, Zenon DEF ShaSize
<1>8. PICK k \in Keys : outcome' = [of |-> "integrity", key |-> k, ret |-> 1]
  BY <1>4, <1>5, <1>7, Zenon DEF CheckIntegrity
<1>9. QED
  BY <1>8, Zenon

\* All that is known of a message and what was reported of it.
Sealed == Tracked /\ Marks /\ SealVerifies

\* It holds of the empty message, ...
LEMMA InitSealed == Init => Sealed
<1> SUFFICES ASSUME Init PROVE Sealed
  BY Zenon
<1>1. Marks
  BY Zenon DEF Init, Marks, Writing
<1>2. SealVerifies
  BY Zenon DEF Init, SealVerifies
<1>3. QED
  BY <1>1, <1>2, InitTracked, Zenon DEF Sealed

\* Every step keeps what the checks have reported true.
LEMMA StepSeal ==
  ASSUME Sealed, [Next]_vars
  PROVE  SealVerifies'
<1>1. CASE Search
  <2>1. outcome'.of = "nothing"
    BY <1>1, Zenon DEF Search, Unknown
  <2>2. QED
    BY <2>1, Zenon DEF SealVerifies
<1>2. CASE SearchStep \/ Found \/ UNCHANGED vars
  <2>1. UNCHANGED <<phase, full, mac, outcome>>
    BY <1>2, Zenon DEF SearchStep, Found, vars, body, reading
  <2>2. QED
    BY <2>1, Zenon DEF Sealed, SealVerifies, Unknown
<1>3. CASE CheckFingerprint
  <2>1. UNCHANGED <<phase, full, mac>>
    BY <1>3, Zenon DEF CheckFingerprint, body
  <2>2. CASE phase = "received" /\ ~full
    <3>1. outcome'.of = "fingerprint" /\ outcome'.ret = TRUE
      BY <1>3, <2>2, FingerprintStep, Zenon DEF Sealed
    <3>2. QED
      BY <3>1, Zenon DEF SealVerifies
  <2>3. CASE ~(phase = "received" /\ ~full)
    BY <2>1, <2>3, Zenon DEF SealVerifies
  <2>4. QED
    BY <2>2, <2>3, Zenon
<1>4. CASE CheckIntegrity
  <2>1. UNCHANGED <<phase, full, mac>>
    BY <1>4, Zenon DEF CheckIntegrity, body
  <2>2. outcome'.of = "integrity"
    BY <1>4 DEF CheckIntegrity
  <2>3. CASE phase = "received" /\ ~full /\ mac # Unknown
    <3>1. outcome'.ret = 1
      BY <1>4, <2>3, IntegrityStep, Zenon DEF Sealed
    <3>2. QED
      BY <2>1, <2>2, <3>1, Zenon DEF SealVerifies
  <2>4. CASE ~(phase = "received" /\ ~full /\ mac # Unknown)
    BY <2>1, <2>2, <2>4, Zenon DEF SealVerifies, Unknown
  <2>5. QED
    BY <2>3, <2>4, Zenon
<1>5. CASE Next /\ ~Read
  <2>1. outcome' = outcome /\ phase \notin {"received", "other"}
    BY <1>5, Zenon DEF Next, StartRequest, BuildStep, StartOrigin, OriginStep, StartIntegrity,
       SignStep, AddFingerprint, Arrive, reading
  <2>2. outcome'.of = "nothing"
    BY <2>1 DEF Sealed, Tracked, WalkBase, Base, Frame, Unknown
  <2>3. QED
    BY <2>2, Zenon DEF SealVerifies
<1>6. QED
  BY <1>1, <1>2, <1>3, <1>4, <1>5, Zenon DEF Read

\* ... and every step keeps it.
LEMMA StepSealed == Sealed /\ [Next]_vars => Sealed'
<1> SUFFICES ASSUME Sealed, [Next]_vars PROVE Sealed'
  BY Zenon
<1>1. Tracked'
  BY StepTracked, Zenon DEF Sealed
<1>2. Marks'
  <2>1. CASE Next
    BY <2>1, StepMarks, Zenon DEF Sealed
  <2>2. CASE UNCHANGED vars
    BY <2>2, KeepMarks, Zenon DEF Sealed, vars
  <2>3. QED
    BY <2>1, <2>2, Zenon
<1>3. QED
  BY <1>1, <1>2, StepSeal, Zenon DEF Sealed

\* For every limit, every set of keys and every value, the client's own message
\* passes the client's own checks when it had room for its fingerprint:
\* stun_is_command_message_full_check_str finds the CRC right, and
\* stun_check_message_integrity_by_key_str finds the HMAC and returns 1.
THEOREM StunSealVerifies == Spec => []SealVerifies
<1>1. Sealed => SealVerifies
  BY Zenon DEF Sealed
<1>2. QED
  BY <1>1, InitSealed, StepSealed, PTL DEF Spec

===============================================================================
