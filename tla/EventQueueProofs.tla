--------------------------- MODULE EventQueueProofs ---------------------------
(***************************************************************************)
(* Lemmas about the base of EventLoop and the functions of event.c on it,  *)
(* for any number of events, threads, priorities and calls.  The functions *)
(* are operators from a base to a base, so each has a lemma of its own:    *)
(* that it keeps what holds of the base between any two of them (Sound),   *)
(* touches the notification only to set it (Notified) and the flags of one *)
(* callback alone (Moves), and, called by another thread, wakes a Looper   *)
(* that sleeps or gives it no reason to wake (Calm).  EventLoopProofs goes *)
(* on from here to the actions and the theorems.                           *)
(***************************************************************************)
EXTENDS EventLoop, FiniteSetTheorems, TLAPS

-----------------------------------------------------------------------------
(* The inductive invariant.                                                 *)

\* What holds of the base between any two of the functions of the code.
Sound(b) ==
  /\ b \in event_base
  /\ Consistent(b)
  /\ \A c \in Callbacks : "later" \in b.flags[c] => c \in Deferred
  /\ \A c \in Callbacks : "finalizing" \in b.flags[c] =>
       c \in Events /\ b.flags[c] \subseteq {"finalizing", "active"}

\* The types that the lemmas need of the other variables.
LoopTypes ==
  /\ pc \in Unlocked \cup Locked /\ queue \in 0 .. NPri - 1 /\ running \in -1 .. NPri - 1
  /\ cache \in Nat \cup {None} /\ now \in Nat
  /\ polled \subseteq IO \cup {Notify} /\ ready \subseteq IO

\* is_notify_pending and the eventfd are set together and reset in two steps
\* of the Looper, which has looked at neither break nor gotterm in between.
Announced ==
  /\ base.is_notify_pending => base.eventfd \/ pc = "drain"
  /\ pc \in {"later", "epoll"} /\ break => base.eventfd

IInv == LoopTypes /\ Sound(base) /\ Announced

-----------------------------------------------------------------------------
(* Queues and counters.                                                     *)

\* Appending an element that is not there.
LEMMA AppendFacts ==
  ASSUME NEW S, NEW q \in Seq(S), Distinct(q), NEW c \in S, c \notin Listed(q)
  PROVE  /\ Append(q, c) \in Seq(S) /\ Distinct(Append(q, c))
         /\ Listed(Append(q, c)) = Listed(q) \cup {c}
<1>1. Append(q, c) \in Seq(S) /\ Len(Append(q, c)) = Len(q) + 1
  OBVIOUS
<1>2. \A j \in 1 .. Len(q) + 1 : Append(q, c)[j] = IF j = Len(q) + 1 THEN c ELSE q[j]
  OBVIOUS
<1>3. Distinct(Append(q, c))
  BY <1>1, <1>2 DEF Distinct, Listed
<1>4. Listed(Append(q, c)) = Listed(q) \cup {c}
  BY <1>1, <1>2 DEF Listed
<1> QED
  BY <1>1, <1>3, <1>4, Zenon

\* TAILQ_REMOVE takes out the element and nothing else.
LEMMA RemoveFacts ==
  ASSUME NEW S, NEW q \in Seq(S), Distinct(q), NEW c \in Listed(q)
  PROVE  /\ Remove(q, c) \in Seq(S) /\ Distinct(Remove(q, c))
         /\ Listed(Remove(q, c)) = Listed(q) \ {c}
<1> DEFINE k == CHOOSE j \in 1 .. Len(q) : q[j] = c
           n == Len(q) - 1
<1>1. k \in 1 .. Len(q) /\ q[k] = c
  BY Zenon DEF Listed
<1>2. n \in Nat /\ Len(q) = n + 1 /\ \A j \in 1 .. Len(q) : q[j] \in S
  BY <1>1
<1>3. Remove(q, c) = [i \in 1 .. n |-> IF i < k THEN q[i] ELSE q[i + 1]]
  BY Zenon DEF Remove
<1> HIDE DEF k, n
<1>4. Remove(q, c) \in [1 .. n -> S]
  BY <1>1, <1>2, <1>3
<1>5. Remove(q, c) \in Seq(S) /\ Len(Remove(q, c)) = n
  BY <1>2, <1>4
<1>6. \A i \in 1 .. n : Remove(q, c)[i] = IF i < k THEN q[i] ELSE q[i + 1]
  BY <1>3, Zenon
<1>7. Distinct(Remove(q, c))
  BY <1>1, <1>2, <1>5, <1>6 DEF Distinct
<1>8. Listed(Remove(q, c)) \subseteq Listed(q) \ {c}
  BY <1>1, <1>2, <1>5, <1>6 DEF Distinct, Listed
<1>9. ASSUME NEW x \in Listed(q) \ {c} PROVE x \in Listed(Remove(q, c))
  <2>1. PICK j \in 1 .. Len(q) : q[j] = x /\ j # k
    BY <1>1, <1>9, Zenon DEF Listed
  <2>2. CASE j < k
    BY <1>1, <1>2, <1>5, <1>6, <2>1, <2>2 DEF Listed
  <2>3. CASE j > k
    <3>1. j - 1 \in 1 .. n /\ ~(j - 1 < k) /\ (j - 1) + 1 = j
      BY <1>1, <1>2, <2>1, <2>3
    <3>2. Remove(q, c)[j - 1] = x
      BY <1>6, <2>1, <3>1, Zenon
    <3> QED
      BY <1>5, <3>1, <3>2, Zenon DEF Listed
  <2> QED
    BY <1>1, <2>1, <2>2, <2>3
<1> QED
  BY <1>5, <1>7, <1>8, <1>9, Zenon

\* Taking the head off a queue.
LEMMA TailFacts ==
  ASSUME NEW S, NEW q \in Seq(S), q # <<>>, Distinct(q)
  PROVE  /\ Head(q) \in Listed(q) /\ Tail(q) \in Seq(S) /\ Distinct(Tail(q))
         /\ Listed(Tail(q)) = Listed(q) \ {Head(q)}
<1>1. Len(q) \in Nat \ {0} /\ Head(q) = q[1] /\ Tail(q) \in Seq(S) /\ Len(Tail(q)) = Len(q) - 1
  OBVIOUS
<1>2. \A i \in 1 .. Len(q) - 1 : Tail(q)[i] = q[i + 1]
  OBVIOUS
<1>3. Distinct(Tail(q))
  BY <1>1, <1>2 DEF Distinct
<1>4. Listed(Tail(q)) \subseteq Listed(q) \ {Head(q)}
  BY <1>1, <1>2 DEF Distinct, Listed
<1>5. ASSUME NEW x \in Listed(q) \ {Head(q)} PROVE x \in Listed(Tail(q))
  <2>1. PICK j \in 1 .. Len(q) : q[j] = x /\ j # 1
    BY <1>1, <1>5, Zenon DEF Listed
  <2>2. j - 1 \in 1 .. Len(q) - 1 /\ Tail(q)[j - 1] = x
    BY <1>1, <1>2, <2>1
  <2> QED
    BY <1>1, <2>2, Zenon DEF Listed
<1>6. Head(q) \in Listed(q)
  BY <1>1 DEF Listed
<1> QED
  BY <1>1, <1>3, <1>4, <1>5, <1>6, Zenon

FlagSets == [Callbacks -> SUBSET (Kinds \cup {"finalizing"})]

\* Flags are sets of a few strings over a finite set of callbacks.
LEMMA FinitelyMany ==
  ASSUME NEW fl
  PROVE  /\ IsFiniteSet(Flagged(fl, "active") \cup Flagged(fl, "later"))
         /\ IsFiniteSet(Memberships(fl))
<1>1. IsFiniteSet(Flagged(fl, "active") \cup Flagged(fl, "later"))
  BY ConstantsAssumption, FS_Subset, Zenon DEF Flagged
<1>2. IsFiniteSet(Callbacks \ {Notify})
  BY ConstantsAssumption, FS_Subset, Zenon
<1>3. IsFiniteSet(Kinds)
  <2>1. Kinds = ((({} \cup {"inserted"}) \cup {"timeout"}) \cup {"active"}) \cup {"later"}
    BY Zenon DEF Kinds
  <2> QED
    BY <2>1, FS_EmptySet, FS_AddElement, ZenonT(30)
<1>4. IsFiniteSet((Callbacks \ {Notify}) \X Kinds)
  BY <1>2, <1>3, FS_Product, Zenon
<1>5. Memberships(fl) \subseteq (Callbacks \ {Notify}) \X Kinds
  BY Zenon DEF Memberships
<1> QED
  BY <1>1, <1>4, <1>5, FS_Subset, Zenon

\* gl is fl with one more flag.
OneMore(fl, gl, c, f) ==
  gl \in FlagSets /\ \A x \in Callbacks : gl[x] = IF x = c THEN fl[x] \cup {f} ELSE fl[x]

\* event_count counts the new flag of any callback but the internal one.
LEMMA CountGrows ==
  ASSUME NEW fl \in FlagSets, NEW c \in Callbacks, NEW f \in Kinds, f \notin fl[c],
         NEW gl, OneMore(fl, gl, c, f)
  PROVE  Cardinality(Memberships(gl)) = Cardinality(Memberships(fl)) + Weight(c)
<1> gl \in FlagSets /\ \A x \in Callbacks : gl[x] = IF x = c THEN fl[x] \cup {f} ELSE fl[x]
  BY Zenon DEF OneMore
<1>0. Cardinality(Memberships(fl)) \in Nat
  BY FinitelyMany, FS_CardinalityType, ZenonT(30)
<1>2. CASE c = Notify
  <2>1. Memberships(gl) = Memberships(fl)
    BY <1>2, ZenonT(30) DEF Memberships
  <2> QED
    BY <1>0, <1>2, <2>1 DEF Weight
<1>3. CASE c # Notify
  <2>1. Memberships(gl) = Memberships(fl) \cup {<<c, f>>}
    <3>1. \A x \in Callbacks \ {Notify}, g \in Kinds :
            g \in gl[x] <=> g \in fl[x] \/ (x = c /\ g = f)
      BY ZenonT(30)
    <3>2. \A p \in (Callbacks \ {Notify}) \X Kinds :
            p[2] \in gl[p[1]] <=> p[2] \in fl[p[1]] \/ p = <<c, f>>
      BY <3>1
    <3>3. <<c, f>> \in (Callbacks \ {Notify}) \X Kinds
      BY <1>3, Zenon
    <3> QED
      BY <3>2, <3>3, Zenon DEF Memberships
  <2>2. <<c, f>> \notin Memberships(fl)
    BY Zenon DEF Memberships
  <2> QED
    BY <1>3, <2>1, <2>2, FinitelyMany, FS_AddElement, ZenonT(30) DEF Weight
<1> QED
  BY <1>2, <1>3, Zenon

\* A flag taken from a callback takes its weight off event_count.
LEMMA CountDropped ==
  ASSUME NEW fl \in FlagSets, NEW c \in Callbacks, NEW f \in Kinds, f \in fl[c],
         NEW gl, gl = [fl EXCEPT ![c] = @ \ {f}]
  PROVE  Cardinality(Memberships(gl)) = Cardinality(Memberships(fl)) - Weight(c)
<1>1. gl \in FlagSets /\ f \notin gl[c] /\ OneMore(gl, fl, c, f)
  BY Zenon DEF FlagSets, OneMore
<1>2. Cardinality(Memberships(fl)) = Cardinality(Memberships(gl)) + Weight(c)
  BY <1>1, CountGrows, Zenon
<1>3. Cardinality(Memberships(gl)) \in Nat
  BY FinitelyMany, FS_CardinalityType, ZenonT(30)
<1> QED
  BY <1>2, <1>3 DEF Weight

\* A flag given to a callback adds its weight.
LEMMA CountAdded ==
  ASSUME NEW fl \in FlagSets, NEW c \in Callbacks, NEW f \in Kinds, f \notin fl[c],
         NEW gl, gl = [fl EXCEPT ![c] = @ \cup {f}]
  PROVE  Cardinality(Memberships(gl)) = Cardinality(Memberships(fl)) + Weight(c)
<1>1. OneMore(fl, gl, c, f)
  BY Zenon DEF FlagSets, OneMore
<1> QED
  BY <1>1, CountGrows, Zenon

\* The callbacks in the queues, which event_count_active counts.
InQueues(fl) == Flagged(fl, "active") \cup Flagged(fl, "later")

\* A callback put in a queue adds one to the callbacks in the queues.
LEMMA ActiveAdded ==
  ASSUME NEW fl \in FlagSets, NEW c \in Callbacks, NEW f \in {"active", "later"},
         "active" \notin fl[c], "later" \notin fl[c],
         NEW gl, gl = [fl EXCEPT ![c] = @ \cup {f}]
  PROVE  Cardinality(InQueues(gl)) = Cardinality(InQueues(fl)) + 1
<1>1. \A x \in Callbacks : gl[x] = IF x = c THEN fl[x] \cup {f} ELSE fl[x]
  BY Zenon DEF FlagSets
<1>2. InQueues(gl) = InQueues(fl) \cup {c} /\ c \notin InQueues(fl)
  BY <1>1 DEF Flagged, InQueues
<1>3. IsFiniteSet(InQueues(fl))
  BY FinitelyMany, Zenon DEF InQueues
<1> QED
  BY <1>2, <1>3, FS_AddElement, ZenonT(30)

\* One taken out of the queues takes one off.
LEMMA ActiveDropped ==
  ASSUME NEW fl \in FlagSets, NEW c \in Callbacks, NEW f \in {"active", "later"},
         f \in fl[c], NEW gl, gl = [fl EXCEPT ![c] = @ \ {f}],
         "active" \notin gl[c], "later" \notin gl[c]
  PROVE  Cardinality(InQueues(gl)) = Cardinality(InQueues(fl)) - 1
<1>1. \A x \in Callbacks : fl[x] = IF x = c THEN gl[x] \cup {f} ELSE gl[x]
  BY Zenon DEF FlagSets
<1>2. InQueues(fl) = InQueues(gl) \cup {c} /\ c \notin InQueues(gl)
  BY <1>1, Zenon DEF Flagged, InQueues
<1>3. IsFiniteSet(InQueues(gl)) /\ Cardinality(InQueues(gl)) \in Nat
  BY FinitelyMany, FS_CardinalityType, Zenon DEF InQueues
<1>4. Cardinality(InQueues(fl)) = Cardinality(InQueues(gl)) + 1
  BY <1>2, <1>3, FS_AddElement, ZenonT(30)
<1> QED
  BY <1>3, <1>4

-----------------------------------------------------------------------------
(* What the functions on the queues do to the fields of a base.             *)

\* The notification is left as it is.
Silent(b, r) == r.is_notify_pending = b.is_notify_pending /\ r.eventfd = b.eventfd

\* What WithFlag (INCR_EVENT_COUNT and the flag) changes, and what it leaves.
LEMMA Flags ==
  ASSUME NEW b \in event_base, NEW c \in Callbacks, NEW f \in Kinds
  PROVE  LET w == WithFlag(b, c, f)
         IN /\ w \in event_base /\ Silent(b, w)
            /\ w.flags = [b.flags EXCEPT ![c] = @ \cup {f}]
            /\ w.event_count = b.event_count + Weight(c)
            /\ w.activeq = b.activeq /\ w.laterq = b.laterq
            /\ w.event_count_active = b.event_count_active
            /\ w.n_deferreds_queued = b.n_deferreds_queued
<1> DEFINE g == [b.flags EXCEPT ![c] = @ \cup {f}]
           n == b.event_count + Weight(c)
<1>1. g \in [Callbacks -> SUBSET (Kinds \cup {"finalizing"})]
  BY Zenon DEF event_base
<1>2. n \in Int
  BY DEF event_base, Weight
<1>3. WithFlag(b, c, f) = [b EXCEPT !.flags = g, !.event_count = n]
  BY Zenon DEF WithFlag, event_base
<1> HIDE DEF g, n
<1>4. [b EXCEPT !.flags = g, !.event_count = n] \in event_base
  BY <1>1, <1>2, Zenon DEF event_base
<1> QED
  BY <1>3, <1>4, Zenon DEF event_base, Silent, g, n

\* What WithoutFlag (DECR_EVENT_COUNT and the flag) changes, and what it leaves.
LEMMA Unflags ==
  ASSUME NEW b \in event_base, NEW c \in Callbacks, NEW f \in Kinds
  PROVE  LET w == WithoutFlag(b, c, f)
         IN /\ w \in event_base /\ Silent(b, w)
            /\ w.flags = [b.flags EXCEPT ![c] = @ \ {f}]
            /\ w.event_count = b.event_count - Weight(c)
            /\ w.activeq = b.activeq /\ w.laterq = b.laterq
            /\ w.event_count_active = b.event_count_active
            /\ w.n_deferreds_queued = b.n_deferreds_queued
<1> DEFINE g == [b.flags EXCEPT ![c] = @ \ {f}]
           n == b.event_count - Weight(c)
<1>1. g \in [Callbacks -> SUBSET (Kinds \cup {"finalizing"})]
  BY Zenon DEF event_base
<1>2. n \in Int
  BY DEF event_base, Weight
<1>3. WithoutFlag(b, c, f) = [b EXCEPT !.flags = g, !.event_count = n]
  BY Zenon DEF WithoutFlag, event_base
<1> HIDE DEF g, n
<1>4. [b EXCEPT !.flags = g, !.event_count = n] \in event_base
  BY <1>1, <1>2, Zenon DEF event_base
<1> QED
  BY <1>3, <1>4, Zenon DEF event_base, Silent, g, n

\* A queue of its own priority and the counter of active callbacks change.
Requeued(w, r, c, n, q) == r = [w EXCEPT !.event_count_active = n, !.activeq[Pri[c]] = q]

\* Such a change leaves a base, and everything else in it.
LEMMA Requeues ==
  ASSUME NEW w \in event_base, NEW c \in Callbacks, NEW n \in Int, NEW q \in Seq(Callbacks),
         NEW r, Requeued(w, r, c, n, q)
  PROVE  /\ r \in event_base /\ Silent(w, r) /\ r.flags = w.flags
         /\ r.event_count = w.event_count /\ r.event_count_active = n
         /\ r.activeq = [w.activeq EXCEPT ![Pri[c]] = q] /\ r.laterq = w.laterq
<1> DEFINE a == [w.activeq EXCEPT ![Pri[c]] = q]
<1>1. a \in [0 .. NPri - 1 -> Seq(Callbacks)]
  BY ConstantsAssumption, Zenon DEF event_base
<1>2. r = [w EXCEPT !.event_count_active = n, !.activeq = a]
  BY Zenon DEF event_base, Requeued
<1> HIDE DEF a
<1>3. [w EXCEPT !.event_count_active = n, !.activeq = a] \in event_base
  BY <1>1, Zenon DEF event_base
<1> QED
  BY <1>2, <1>3, Zenon DEF event_base, Silent, a

\* The queue of the later callbacks and the same counter change.
Postponed(w, r, n, q) == r = [w EXCEPT !.event_count_active = n, !.laterq = q]

\* So does this one.
LEMMA Postpones ==
  ASSUME NEW w \in event_base, NEW n \in Int, NEW q \in Seq(Callbacks),
         NEW r, Postponed(w, r, n, q)
  PROVE  /\ r \in event_base /\ Silent(w, r) /\ r.flags = w.flags
         /\ r.event_count = w.event_count /\ r.event_count_active = n
         /\ r.activeq = w.activeq /\ r.laterq = q
BY Zenon DEF event_base, Silent, Postponed

-----------------------------------------------------------------------------
(* The functions on the queues keep the base sound.                         *)

\* Fields outside the flags, queues and counters do not matter.
LEMMA SoundFrame ==
  ASSUME NEW b, NEW r \in event_base, Sound(b), r.flags = b.flags, r.activeq = b.activeq,
         r.laterq = b.laterq, r.event_count = b.event_count,
         r.event_count_active = b.event_count_active
  PROVE  Sound(r)
BY Zenon DEF Sound, Consistent

\* event_queue_insert_inserted and event_queue_insert_timeout.
LEMMA FlagSet ==
  ASSUME NEW b, Sound(b), NEW c \in Callbacks, NEW f \in {"inserted", "timeout"},
         f \notin b.flags[c], "finalizing" \notin b.flags[c]
  PROVE  LET r == WithFlag(b, c, f)
         IN /\ Sound(r) /\ Silent(b, r) /\ r.flags[c] = b.flags[c] \cup {f}
            /\ \A x \in Callbacks \ {c} : r.flags[x] = b.flags[x]
<1> DEFINE r == WithFlag(b, c, f)
<1>0. b \in event_base /\ b.flags \in FlagSets /\ f \in Kinds
  BY Zenon DEF Sound, event_base, FlagSets, Kinds
<1>1. /\ r \in event_base /\ Silent(b, r)
      /\ r.flags = [b.flags EXCEPT ![c] = @ \cup {f}]
      /\ r.event_count = b.event_count + Weight(c)
      /\ r.activeq = b.activeq /\ r.laterq = b.laterq
      /\ r.event_count_active = b.event_count_active
  BY <1>0, Flags
<1> HIDE DEF r
<1>3. r.flags[c] = b.flags[c] \cup {f} /\ \A x \in Callbacks \ {c} : r.flags[x] = b.flags[x]
  BY <1>0, <1>1, Zenon DEF FlagSets
<1>4. r.event_count = Cardinality(Memberships(r.flags))
  <2>1. Cardinality(Memberships(r.flags)) = Cardinality(Memberships(b.flags)) + Weight(c)
    BY <1>0, <1>1, CountAdded
  <2> QED
    BY <1>1, <2>1, Zenon DEF Sound, Consistent
<1>5. \A x \in Callbacks, g \in {"active", "later"} : g \in r.flags[x] <=> g \in b.flags[x]
  BY <1>3, Zenon
<1>6. Consistent(r)
  <2>1. /\ Flagged(r.flags, "active") = Flagged(b.flags, "active")
        /\ Flagged(r.flags, "later") = Flagged(b.flags, "later")
    BY <1>5, Zenon DEF Flagged
  <2> QED
    BY <1>1, <1>4, <2>1, ZenonT(30) DEF Sound, Consistent
<1>7. \A x \in Callbacks : "later" \in r.flags[x] => x \in Deferred
  BY <1>5, Zenon DEF Sound
<1>8. ASSUME NEW x \in Callbacks, "finalizing" \in r.flags[x]
      PROVE  x \in Events /\ r.flags[x] \subseteq {"finalizing", "active"}
  BY <1>3, <1>8 DEF Sound
<1> QED
  BY <1>1, <1>3, <1>6, <1>7, <1>8, Zenon DEF Sound, r

\* event_queue_remove_inserted and event_queue_remove_timeout.
LEMMA FlagCleared ==
  ASSUME NEW b, Sound(b), NEW c \in Callbacks, NEW f \in {"inserted", "timeout"},
         f \in b.flags[c]
  PROVE  LET r == WithoutFlag(b, c, f)
         IN /\ Sound(r) /\ Silent(b, r) /\ r.flags[c] = b.flags[c] \ {f}
            /\ \A x \in Callbacks \ {c} : r.flags[x] = b.flags[x]
<1> DEFINE r == WithoutFlag(b, c, f)
<1>0. b \in event_base /\ b.flags \in FlagSets /\ f \in Kinds
  BY Zenon DEF Sound, event_base, FlagSets, Kinds
<1>1. /\ r \in event_base /\ Silent(b, r)
      /\ r.flags = [b.flags EXCEPT ![c] = @ \ {f}]
      /\ r.event_count = b.event_count - Weight(c)
      /\ r.activeq = b.activeq /\ r.laterq = b.laterq
      /\ r.event_count_active = b.event_count_active
  BY <1>0, Unflags
<1> HIDE DEF r
<1>3. r.flags[c] = b.flags[c] \ {f} /\ \A x \in Callbacks \ {c} : r.flags[x] = b.flags[x]
  BY <1>0, <1>1, Zenon DEF FlagSets
<1>4. r.event_count = Cardinality(Memberships(r.flags))
  <2>1. Cardinality(Memberships(r.flags)) = Cardinality(Memberships(b.flags)) - Weight(c)
    BY <1>0, <1>1, CountDropped
  <2> QED
    BY <1>1, <2>1, Zenon DEF Sound, Consistent
<1>5. /\ Flagged(r.flags, "active") = Flagged(b.flags, "active")
      /\ Flagged(r.flags, "later") = Flagged(b.flags, "later")
  BY <1>3, Zenon DEF Flagged
<1>6. Consistent(r)
  BY <1>1, <1>4, <1>5, ZenonT(30) DEF Sound, Consistent
<1>7. \A x \in Callbacks : r.flags[x] \subseteq b.flags[x]
  BY <1>3, Zenon
<1> QED
  BY <1>1, <1>3, <1>6, <1>7, Zenon DEF Sound, r

\* event_queue_remove_active.
LEMMA ActiveRemoved ==
  ASSUME NEW b, Sound(b), NEW c \in Callbacks, "active" \in b.flags[c]
  PROVE  LET r == RemoveActive(b, c)
         IN /\ Sound(r) /\ Silent(b, r) /\ r.flags[c] = b.flags[c] \ {"active"}
            /\ \A x \in Callbacks \ {c} : r.flags[x] = b.flags[x]
<1> DEFINE r == RemoveActive(b, c)
           w == WithoutFlag(b, c, "active")
           p == Pri[c]
           q == Remove(b.activeq[p], c)
<1>0. p \in 0 .. NPri - 1 /\ b \in event_base /\ "active" \in Kinds
  BY ConstantsAssumption, Zenon DEF Sound, Kinds
<1>2. b.flags \in FlagSets /\ b.activeq[p] \in Seq(Callbacks) /\ b.event_count_active \in Int
  BY <1>0, Zenon DEF event_base, FlagSets
<1>3. c \in Listed(b.activeq[p]) /\ Distinct(b.activeq[p])
  BY <1>0, Zenon DEF Sound, Consistent, Flagged
<1>4. q \in Seq(Callbacks) /\ Distinct(q) /\ Listed(q) = Listed(b.activeq[p]) \ {c}
  BY <1>2, <1>3, RemoveFacts, Zenon
<1>5. /\ w \in event_base /\ Silent(b, w) /\ w.flags = [b.flags EXCEPT ![c] = @ \ {"active"}]
      /\ w.event_count = b.event_count - Weight(c)
      /\ w.activeq = b.activeq /\ w.laterq = b.laterq
      /\ w.event_count_active = b.event_count_active
  BY <1>0, Unflags
<1>1. /\ r \in event_base /\ Silent(b, r) /\ r.flags = [b.flags EXCEPT ![c] = @ \ {"active"}]
      /\ r.event_count = b.event_count - Weight(c)
      /\ r.event_count_active = b.event_count_active - 1
      /\ r.activeq = [b.activeq EXCEPT ![p] = q] /\ r.laterq = b.laterq
  <2> HIDE DEF w
  <2>1. w.event_count_active - 1 \in Int /\ w.activeq[Pri[c]] = b.activeq[p]
    BY <1>2, <1>5
  <2> HIDE DEF p
  <2>2. Requeued(w, r, c, w.event_count_active - 1, q)
    BY <1>5, <2>1, Zenon DEF RemoveActive, w, event_base, Requeued
  <2> HIDE DEF q, r
  <2>3. w \in event_base /\ q \in Seq(Callbacks)
    BY <1>4, <1>5, Zenon
  <2>4. /\ r \in event_base /\ Silent(w, r) /\ r.flags = w.flags
        /\ r.event_count = w.event_count /\ r.event_count_active = w.event_count_active - 1
        /\ r.activeq = [w.activeq EXCEPT ![Pri[c]] = q] /\ r.laterq = w.laterq
    BY <2>3, <2>1, <2>2, Requeues
  <2> QED
    BY <1>5, <2>4, Zenon DEF Silent, p
<1> HIDE DEF r, p, q, w
<1>6. /\ r.flags[c] = b.flags[c] \ {"active"}
      /\ \A x \in Callbacks \ {c} : r.flags[x] = b.flags[x]
  BY <1>1, <1>2, Zenon DEF FlagSets
<1>7. "later" \notin b.flags[c]
  BY Zenon DEF Sound, Consistent, Flagged
<1>8. r.event_count = Cardinality(Memberships(r.flags))
  <2>1. Cardinality(Memberships(r.flags)) = Cardinality(Memberships(b.flags)) - Weight(c)
    BY <1>0, <1>1, <1>2, CountDropped
  <2> QED
    BY <1>1, <2>1, Zenon DEF Sound, Consistent
<1>9. r.event_count_active = Cardinality(InQueues(r.flags))
  <2>1. "active" \notin r.flags[c] /\ "later" \notin r.flags[c]
    BY <1>6, <1>7, Zenon
  <2>2. Cardinality(InQueues(r.flags)) = Cardinality(InQueues(b.flags)) - 1
    BY <1>1, <1>2, <2>1, ActiveDropped, Zenon
  <2> QED
    BY <1>1, <2>2, Zenon DEF Sound, Consistent, InQueues
<1>10. /\ Flagged(r.flags, "active") = Flagged(b.flags, "active") \ {c}
       /\ Flagged(r.flags, "later") = Flagged(b.flags, "later")
  BY <1>6, Zenon DEF Flagged
<1>11. ASSUME NEW i \in 0 .. NPri - 1
       PROVE  /\ Listed(r.activeq[i]) = {x \in Flagged(r.flags, "active") : Pri[x] = i}
              /\ Distinct(r.activeq[i])
  <2>1. /\ Listed(b.activeq[i]) = {x \in Flagged(b.flags, "active") : Pri[x] = i}
        /\ Distinct(b.activeq[i])
    BY Zenon DEF Sound, Consistent
  <2>2. r.activeq[i] = IF i = p THEN q ELSE b.activeq[i]
    BY <1>0, <1>1, ZenonT(30) DEF event_base
  <2>3. CASE i = p
    BY <1>4, <1>10, <2>1, <2>2, <2>3, Zenon
  <2>4. CASE i # p
    BY <1>10, <2>1, <2>2, <2>4, Zenon DEF p
  <2> QED
    BY <2>3, <2>4, Zenon
<1>12. Consistent(r)
  BY <1>1, <1>8, <1>9, <1>10, <1>11, ZenonT(30) DEF Sound, Consistent, InQueues
<1>13. \A x \in Callbacks : r.flags[x] \subseteq b.flags[x]
  BY <1>6, Zenon
<1> QED
  BY <1>1, <1>6, <1>12, <1>13, Zenon DEF Sound, r

\* event_queue_insert_active.
Appended(b, r, c) ==
  /\ r.activeq = [b.activeq EXCEPT ![Pri[c]] = Append(@, c)] /\ r.laterq = b.laterq
  /\ r.event_count = b.event_count + Weight(c)
  /\ r.event_count_active = b.event_count_active + 1

\* A callback in no queue can be inserted into the active one.
LEMMA ActiveInserted ==
  ASSUME NEW b, Sound(b), NEW c \in Callbacks,
         "active" \notin b.flags[c], "later" \notin b.flags[c], "finalizing" \notin b.flags[c]
  PROVE  LET r == InsertActive(b, c)
         IN /\ Sound(r) /\ Silent(b, r) /\ r.flags[c] = b.flags[c] \cup {"active"}
            /\ \A x \in Callbacks \ {c} : r.flags[x] = b.flags[x]
            /\ Appended(b, r, c)
<1> DEFINE r == InsertActive(b, c)
           w == WithFlag(b, c, "active")
           p == Pri[c]
           q == Append(b.activeq[p], c)
<1>0. p \in 0 .. NPri - 1 /\ b \in event_base /\ "active" \in Kinds
  BY ConstantsAssumption, Zenon DEF Sound, Kinds
<1>2. b.flags \in FlagSets /\ b.activeq[p] \in Seq(Callbacks) /\ b.event_count_active \in Int
  BY <1>0, Zenon DEF event_base, FlagSets
<1>3. c \notin Listed(b.activeq[p]) /\ Distinct(b.activeq[p])
  BY <1>0 DEF Sound, Consistent, Flagged
<1>4. q \in Seq(Callbacks) /\ Distinct(q) /\ Listed(q) = Listed(b.activeq[p]) \cup {c}
  BY <1>2, <1>3, AppendFacts
<1>5. /\ w \in event_base /\ Silent(b, w) /\ w.flags = [b.flags EXCEPT ![c] = @ \cup {"active"}]
      /\ w.event_count = b.event_count + Weight(c)
      /\ w.activeq = b.activeq /\ w.laterq = b.laterq
      /\ w.event_count_active = b.event_count_active
  BY <1>0, Flags
<1>1. /\ r \in event_base /\ Silent(b, r) /\ r.flags = [b.flags EXCEPT ![c] = @ \cup {"active"}]
      /\ r.event_count = b.event_count + Weight(c)
      /\ r.event_count_active = b.event_count_active + 1
      /\ r.activeq = [b.activeq EXCEPT ![p] = q] /\ r.laterq = b.laterq
  <2> HIDE DEF w
  <2>1. w.event_count_active + 1 \in Int /\ w.activeq[Pri[c]] = b.activeq[p]
    BY <1>2, <1>5
  <2> HIDE DEF p
  <2>2. Requeued(w, r, c, w.event_count_active + 1, q)
    BY <1>5, <2>1, Zenon DEF InsertActive, w, event_base, Requeued
  <2> HIDE DEF q, r
  <2>3. w \in event_base /\ q \in Seq(Callbacks)
    BY <1>4, <1>5, Zenon
  <2>4. /\ r \in event_base /\ Silent(w, r) /\ r.flags = w.flags
        /\ r.event_count = w.event_count /\ r.event_count_active = w.event_count_active + 1
        /\ r.activeq = [w.activeq EXCEPT ![Pri[c]] = q] /\ r.laterq = w.laterq
    BY <2>3, <2>1, <2>2, Requeues
  <2> QED
    BY <1>5, <2>4, Zenon DEF Silent, p
<1> HIDE DEF r, p, q, w
<1>6. /\ r.flags[c] = b.flags[c] \cup {"active"}
      /\ \A x \in Callbacks \ {c} : r.flags[x] = b.flags[x]
  BY <1>1, <1>2, Zenon DEF FlagSets
<1>8. r.event_count = Cardinality(Memberships(r.flags))
  <2>1. Cardinality(Memberships(r.flags)) = Cardinality(Memberships(b.flags)) + Weight(c)
    BY <1>0, <1>1, <1>2, CountAdded
  <2> QED
    BY <1>1, <2>1, Zenon DEF Sound, Consistent
<1>9. r.event_count_active = Cardinality(InQueues(r.flags))
  <2>1. "active" \in {"active", "later"}
    BY Zenon
  <2>2. Cardinality(InQueues(r.flags)) = Cardinality(InQueues(b.flags)) + 1
    BY <1>1, <1>2, <2>1, ActiveAdded
  <2> QED
    BY <1>1, <2>2, Zenon DEF Sound, Consistent, InQueues
<1>10. /\ Flagged(r.flags, "active") = Flagged(b.flags, "active") \cup {c}
       /\ Flagged(r.flags, "later") = Flagged(b.flags, "later") /\ c \notin Flagged(b.flags, "later")
  BY <1>6 DEF Flagged
<1>11. ASSUME NEW i \in 0 .. NPri - 1
       PROVE  /\ Listed(r.activeq[i]) = {x \in Flagged(r.flags, "active") : Pri[x] = i}
              /\ Distinct(r.activeq[i])
  <2>1. /\ Listed(b.activeq[i]) = {x \in Flagged(b.flags, "active") : Pri[x] = i}
        /\ Distinct(b.activeq[i])
    BY Zenon DEF Sound, Consistent
  <2>2. r.activeq[i] = IF i = p THEN q ELSE b.activeq[i]
    BY <1>0, <1>1, ZenonT(30) DEF event_base
  <2>3. CASE i = p
    BY <1>4, <1>10, <2>1, <2>2, <2>3, Zenon DEF p
  <2>4. CASE i # p
    BY <1>10, <2>1, <2>2, <2>4, Zenon DEF p
  <2> QED
    BY <2>3, <2>4, Zenon
<1>12. Consistent(r)
  BY <1>1, <1>8, <1>9, <1>10, <1>11, ZenonT(30) DEF Sound, Consistent, InQueues
<1>13. \A x \in Callbacks : "later" \in r.flags[x] => x \in Deferred
  BY <1>10, Zenon DEF Sound, Flagged
<1>14. ASSUME NEW x \in Callbacks, "finalizing" \in r.flags[x]
       PROVE  x \in Events /\ r.flags[x] \subseteq {"finalizing", "active"}
  BY <1>6, <1>14 DEF Sound
<1>15. Appended(b, r, c)
  BY <1>1, Zenon DEF p, q, Appended
<1> QED
  BY <1>1, <1>6, <1>12, <1>13, <1>14, <1>15, Zenon DEF Sound, r

\* event_queue_remove_active_later.
Withdrawn(b, r, c) ==
  /\ r.activeq = b.activeq /\ r.laterq = Remove(b.laterq, c)
  /\ r.event_count = b.event_count - Weight(c)
  /\ r.event_count_active = b.event_count_active - 1

\* A callback in the later queue can be taken out of it.
LEMMA LaterRemoved ==
  ASSUME NEW b, Sound(b), NEW c \in Callbacks, "later" \in b.flags[c]
  PROVE  LET r == RemoveActiveLater(b, c)
         IN /\ Sound(r) /\ Silent(b, r) /\ r.flags[c] = b.flags[c] \ {"later"}
            /\ \A x \in Callbacks \ {c} : r.flags[x] = b.flags[x]
            /\ Withdrawn(b, r, c)
<1> DEFINE r == RemoveActiveLater(b, c)
           w == WithoutFlag(b, c, "later")
           q == Remove(b.laterq, c)
<1>0. b \in event_base /\ "later" \in Kinds
  BY Zenon DEF Sound, Kinds
<1>2. b.flags \in FlagSets /\ b.laterq \in Seq(Callbacks) /\ b.event_count_active \in Int
  BY <1>0, Zenon DEF event_base, FlagSets
<1>3. c \in Listed(b.laterq) /\ Distinct(b.laterq) /\ "active" \notin b.flags[c]
  BY Zenon DEF Sound, Consistent, Flagged
<1>4. q \in Seq(Callbacks) /\ Distinct(q) /\ Listed(q) = Listed(b.laterq) \ {c}
  BY <1>2, <1>3, RemoveFacts, Zenon
<1>5. /\ w \in event_base /\ Silent(b, w) /\ w.flags = [b.flags EXCEPT ![c] = @ \ {"later"}]
      /\ w.event_count = b.event_count - Weight(c)
      /\ w.activeq = b.activeq /\ w.laterq = b.laterq
      /\ w.event_count_active = b.event_count_active
  BY <1>0, Unflags
<1>1. /\ r \in event_base /\ Silent(b, r) /\ r.flags = [b.flags EXCEPT ![c] = @ \ {"later"}]
      /\ r.event_count = b.event_count - Weight(c)
      /\ r.event_count_active = b.event_count_active - 1
      /\ r.activeq = b.activeq /\ r.laterq = q
  <2> HIDE DEF w
  <2>1. w.event_count_active - 1 \in Int
    BY <1>2, <1>5
  <2>2. Postponed(w, r, w.event_count_active - 1, q)
    BY <1>5, Zenon DEF RemoveActiveLater, w, event_base, Postponed
  <2> HIDE DEF q, r
  <2>3. w \in event_base /\ q \in Seq(Callbacks)
    BY <1>4, <1>5, Zenon
  <2>4. /\ r \in event_base /\ Silent(w, r) /\ r.flags = w.flags
        /\ r.event_count = w.event_count /\ r.event_count_active = w.event_count_active - 1
        /\ r.activeq = w.activeq /\ r.laterq = q
    BY <2>3, <2>1, <2>2, Postpones
  <2> QED
    BY <1>5, <2>4, Zenon DEF Silent
<1> HIDE DEF r, q, w
<1>6. /\ r.flags[c] = b.flags[c] \ {"later"}
      /\ \A x \in Callbacks \ {c} : r.flags[x] = b.flags[x]
  BY <1>1, <1>2, Zenon DEF FlagSets
<1>8. r.event_count = Cardinality(Memberships(r.flags))
  <2>1. Cardinality(Memberships(r.flags)) = Cardinality(Memberships(b.flags)) - Weight(c)
    BY <1>0, <1>1, <1>2, CountDropped
  <2> QED
    BY <1>1, <2>1, Zenon DEF Sound, Consistent
<1>9. r.event_count_active = Cardinality(InQueues(r.flags))
  <2>1. "active" \notin r.flags[c] /\ "later" \notin r.flags[c]
    BY <1>3, <1>6, Zenon
  <2>2. Cardinality(InQueues(r.flags)) = Cardinality(InQueues(b.flags)) - 1
    BY <1>1, <1>2, <2>1, ActiveDropped, Zenon
  <2> QED
    BY <1>1, <2>2, Zenon DEF Sound, Consistent, InQueues
<1>10. /\ Flagged(r.flags, "active") = Flagged(b.flags, "active")
       /\ Flagged(r.flags, "later") = Flagged(b.flags, "later") \ {c}
  BY <1>6, Zenon DEF Flagged
<1>12. Consistent(r)
  BY <1>1, <1>4, <1>8, <1>9, <1>10, ZenonT(30) DEF Sound, Consistent, InQueues
<1>13. \A x \in Callbacks : r.flags[x] \subseteq b.flags[x]
  BY <1>6, Zenon
<1> QED
  BY <1>1, <1>6, <1>12, <1>13, Zenon DEF Sound, Withdrawn, r, q

\* event_queue_insert_active_later, for a deferred callback.
LEMMA LaterInserted ==
  ASSUME NEW b, Sound(b), NEW c \in Deferred, b.flags[c] \cap {"active", "later"} = {}
  PROVE  LET r == InsertActiveLater(b, c)
         IN /\ Sound(r) /\ Silent(b, r) /\ r.flags[c] = b.flags[c] \cup {"later"}
            /\ \A x \in Callbacks \ {c} : r.flags[x] = b.flags[x]
<1> DEFINE r == InsertActiveLater(b, c)
           w == WithFlag(b, c, "later")
           q == Append(b.laterq, c)
<1>0. b \in event_base /\ c \in Callbacks /\ "finalizing" \notin b.flags[c] /\ "later" \in Kinds
  BY ConstantsAssumption, Zenon DEF Sound, Callbacks, Kinds
<1>2. b.flags \in FlagSets /\ b.laterq \in Seq(Callbacks) /\ b.event_count_active \in Int
  BY <1>0, Zenon DEF event_base, FlagSets
<1>3. c \notin Listed(b.laterq) /\ Distinct(b.laterq) /\ "active" \notin b.flags[c]
      /\ "later" \notin b.flags[c]
  BY Zenon DEF Sound, Consistent, Flagged
<1>4. q \in Seq(Callbacks) /\ Distinct(q) /\ Listed(q) = Listed(b.laterq) \cup {c}
  BY <1>0, <1>2, <1>3, AppendFacts
<1>5. /\ w \in event_base /\ Silent(b, w) /\ w.flags = [b.flags EXCEPT ![c] = @ \cup {"later"}]
      /\ w.event_count = b.event_count + Weight(c)
      /\ w.activeq = b.activeq /\ w.laterq = b.laterq
      /\ w.event_count_active = b.event_count_active
  BY <1>0, Flags
<1>1. /\ r \in event_base /\ Silent(b, r) /\ r.flags = [b.flags EXCEPT ![c] = @ \cup {"later"}]
      /\ r.event_count = b.event_count + Weight(c)
      /\ r.event_count_active = b.event_count_active + 1
      /\ r.activeq = b.activeq /\ r.laterq = q
  <2> HIDE DEF w
  <2>1. w.event_count_active + 1 \in Int
    BY <1>2, <1>5
  <2>2. Postponed(w, r, w.event_count_active + 1, q)
    BY <1>5, Zenon DEF InsertActiveLater, w, event_base, Postponed
  <2> HIDE DEF q, r
  <2>3. w \in event_base /\ q \in Seq(Callbacks)
    BY <1>4, <1>5, Zenon
  <2>4. /\ r \in event_base /\ Silent(w, r) /\ r.flags = w.flags
        /\ r.event_count = w.event_count /\ r.event_count_active = w.event_count_active + 1
        /\ r.activeq = w.activeq /\ r.laterq = q
    BY <2>3, <2>1, <2>2, Postpones
  <2> QED
    BY <1>5, <2>4, Zenon DEF Silent
<1> HIDE DEF r, q, w
<1>6. /\ r.flags[c] = b.flags[c] \cup {"later"}
      /\ \A x \in Callbacks \ {c} : r.flags[x] = b.flags[x]
  BY <1>0, <1>1, <1>2, Zenon DEF FlagSets
<1>8. r.event_count = Cardinality(Memberships(r.flags))
  <2>1. Cardinality(Memberships(r.flags)) = Cardinality(Memberships(b.flags)) + Weight(c)
    BY <1>0, <1>1, <1>2, <1>3, CountAdded, Zenon
  <2> QED
    BY <1>1, <2>1, Zenon DEF Sound, Consistent
<1>9. r.event_count_active = Cardinality(InQueues(r.flags))
  <2>1. "later" \in {"active", "later"}
    BY Zenon
  <2>2. Cardinality(InQueues(r.flags)) = Cardinality(InQueues(b.flags)) + 1
    BY <1>0, <1>1, <1>2, <1>3, <2>1, ActiveAdded
  <2> QED
    BY <1>1, <2>2, Zenon DEF Sound, Consistent, InQueues
<1>10. /\ Flagged(r.flags, "active") = Flagged(b.flags, "active") /\ c \notin Flagged(b.flags, "active")
       /\ Flagged(r.flags, "later") = Flagged(b.flags, "later") \cup {c}
  BY <1>0, <1>3, <1>6, Zenon DEF Flagged
<1>12. Consistent(r)
  BY <1>1, <1>4, <1>8, <1>9, <1>10, ZenonT(30) DEF Sound, Consistent, InQueues
<1>13. \A x \in Callbacks : "later" \in r.flags[x] => x \in Deferred
  BY <1>10, Zenon DEF Sound, Flagged
<1>14. ASSUME NEW x \in Callbacks, "finalizing" \in r.flags[x]
       PROVE  x \in Events /\ r.flags[x] \subseteq {"finalizing", "active"}
  BY <1>0, <1>6, <1>14 DEF Sound
<1> QED
  BY <1>1, <1>6, <1>12, <1>13, <1>14, Zenon DEF Sound, r

\* event_queue_make_later_events_active, for one callback.
MadeActive(b) ==
  LET c == Head(b.laterq)
  IN [b EXCEPT !.flags[c] = (@ \ {"later"}) \cup {"active"}, !.laterq = Tail(@),
               !.activeq[Pri[c]] = Append(@, c), !.n_deferreds_queued = @ + 1]

\* Moving the first of the later queue keeps the base sound.
LEMMA LaterMadeActive ==
  ASSUME NEW b, Sound(b), b.laterq # <<>>
  PROVE  Sound(MadeActive(b)) /\ Silent(b, MadeActive(b))
<1> DEFINE c == Head(b.laterq)
           b1 == RemoveActiveLater(b, c)
           r == InsertActive(b1, c)
           m == MadeActive(b)
           fl == [b.flags EXCEPT ![c] = (@ \ {"later"}) \cup {"active"}]
           aq == [b.activeq EXCEPT ![Pri[c]] = Append(@, c)]
           n == b.n_deferreds_queued + 1
<1>0. b \in event_base /\ b.laterq \in Seq(Callbacks) /\ Distinct(b.laterq)
      /\ b.flags \in FlagSets /\ b.event_count \in Int /\ b.event_count_active \in Int
  BY Zenon DEF Sound, Consistent, event_base, FlagSets
<1>1. /\ c \in Listed(b.laterq) /\ Tail(b.laterq) \in Seq(Callbacks)
      /\ Distinct(Tail(b.laterq)) /\ Listed(Tail(b.laterq)) = Listed(b.laterq) \ {c}
  BY <1>0, TailFacts, Zenon
<1>2. c \in Callbacks /\ "later" \in b.flags[c] /\ "active" \notin b.flags[c]
      /\ "finalizing" \notin b.flags[c]
  BY <1>1, Zenon DEF Sound, Consistent, Flagged
<1>5. Pri[c] \in 0 .. NPri - 1
  BY <1>2, ConstantsAssumption, Zenon
<1>m. m = [b EXCEPT !.flags = fl, !.laterq = Tail(b.laterq), !.activeq = aq,
                    !.n_deferreds_queued = n]
  BY <1>0, Zenon DEF MadeActive, event_base
<1> HIDE DEF c, m
<1>3. /\ Sound(b1) /\ b1.flags[c] = b.flags[c] \ {"later"}
      /\ \A x \in Callbacks \ {c} : b1.flags[x] = b.flags[x]
      /\ Withdrawn(b, b1, c)
  BY <1>2, LaterRemoved, Zenon
<1> HIDE DEF b1
<1>4. /\ Sound(r) /\ r.flags[c] = b1.flags[c] \cup {"active"}
      /\ \A x \in Callbacks \ {c} : r.flags[x] = b1.flags[x]
      /\ Appended(b1, r, c)
  <2>1. "active" \notin b1.flags[c] /\ "later" \notin b1.flags[c] /\ "finalizing" \notin b1.flags[c]
    BY <1>2, <1>3, Zenon
  <2> QED
    BY <1>2, <1>3, <2>1, ActiveInserted, Zenon
<1> HIDE DEF r
<1>6. /\ r.event_count = b.event_count /\ r.event_count_active = b.event_count_active
      /\ r.activeq = aq
  <2>1. /\ b1.event_count = b.event_count - Weight(c)
        /\ b1.event_count_active = b.event_count_active - 1 /\ b1.activeq = b.activeq
    BY <1>3, Zenon DEF Withdrawn
  <2>2. /\ r.event_count = b1.event_count + Weight(c)
        /\ r.event_count_active = b1.event_count_active + 1
        /\ r.activeq = [b1.activeq EXCEPT ![Pri[c]] = Append(@, c)]
    BY <1>4, Zenon DEF Appended
  <2> QED
    BY <1>0, <2>1, <2>2 DEF Weight
<1>7. r.flags = fl
  <2>1. r.flags \in FlagSets
    BY <1>4, Zenon DEF Sound, event_base, FlagSets
  <2>2. fl \in FlagSets /\ \A x \in Callbacks : fl[x] = r.flags[x]
    BY <1>0, <1>2, <1>3, <1>4, Zenon DEF FlagSets, Kinds
  <2> HIDE DEF fl
  <2> QED
    BY <2>1, <2>2 DEF FlagSets
<1>8. Listed(r.laterq) = Listed(Tail(b.laterq))
  <2>1. Listed(Remove(b.laterq, c)) = Listed(b.laterq) \ {c}
    BY <1>0, <1>1, RemoveFacts
  <2> QED
    BY <1>1, <1>3, <1>4, <2>1, Zenon DEF Withdrawn, Appended
<1>9. /\ m \in event_base /\ Silent(b, m) /\ m.flags = fl /\ m.activeq = aq
      /\ m.laterq = Tail(b.laterq) /\ m.event_count = b.event_count
      /\ m.event_count_active = b.event_count_active
  <2>1. fl \in [Callbacks -> SUBSET (Kinds \cup {"finalizing"})]
        /\ aq \in [0 .. NPri - 1 -> Seq(Callbacks)]
    <3>1. r \in event_base
      BY <1>4, Zenon DEF Sound
    <3> HIDE DEF fl, aq
    <3> QED
      BY <1>6, <1>7, <3>1, Zenon DEF event_base
  <2>2. n \in Nat
    BY <1>0 DEF event_base
  <2> HIDE DEF fl, aq, n
  <2> QED
    BY <1>m, <1>0, <1>1, <2>1, <2>2, Zenon DEF event_base, Silent
<1> HIDE DEF fl, aq
<1>10. Consistent(m)
  <2>1. /\ m.flags = r.flags /\ m.activeq = r.activeq /\ Listed(m.laterq) = Listed(r.laterq)
        /\ m.event_count = r.event_count /\ m.event_count_active = r.event_count_active
        /\ Distinct(m.laterq) /\ Consistent(r)
    BY <1>1, <1>4, <1>6, <1>7, <1>8, <1>9, Zenon DEF Sound
  <2> QED
    BY <2>1, ZenonT(30) DEF Consistent
<1> QED
  BY <1>4, <1>7, <1>9, <1>10, Zenon DEF Sound, m

-----------------------------------------------------------------------------
(* The functions of the API.                                                *)

\* A step leaves the notification as it is or makes one.
Notified(b, r) == Silent(b, r) \/ (r.is_notify_pending /\ r.eventfd)

\* A step changes the flags of c alone.  It makes c active only if c is no more
\* urgent than the queue that runs, or if that queue is cut short.
Confined(b, r, c) ==
  /\ \A x \in Callbacks \ {c} : r.flags[x] = b.flags[x]
  /\ b.event_continue => r.event_continue
  /\ c \in Timed /\ "active" \in r.flags[c] =>
       "active" \in b.flags[c] \/ r.event_continue \/ Pri[c] >= running

\* It also leaves c finalizing or not.
Moves(b, r, c) ==
  Confined(b, r, c) /\ ("finalizing" \in r.flags[c] <=> "finalizing" \in b.flags[c])

\* A step that changes neither flags nor event_continue.
LEMMA MovesNot ==
  ASSUME NEW b, NEW r, NEW c, r.flags = b.flags, r.event_continue = b.event_continue
  PROVE  Moves(b, r, c)
BY Zenon DEF Moves, Confined

\* Two steps in a row.
LEMMA MovesTwice ==
  ASSUME NEW b, NEW m, NEW r, NEW c, Moves(b, m, c), Moves(m, r, c)
  PROVE  Moves(b, r, c)
BY Zenon DEF Moves, Confined

\* What the functions on the queues do to one callback.
LEMMA QueueMoves ==
  ASSUME NEW b \in event_base, NEW c \in Callbacks
  PROVE  /\ \A f \in {"inserted", "timeout"} :
              Moves(b, WithFlag(b, c, f), c) /\ Moves(b, WithoutFlag(b, c, f), c)
         /\ Moves(b, RemoveActive(b, c), c) /\ Moves(b, RemoveActiveLater(b, c), c)
         /\ InsertActive(b, c).event_continue = b.event_continue
         /\ InsertActiveLater(b, c).event_continue = b.event_continue
<1>1. ASSUME NEW f
      PROVE  /\ WithFlag(b, c, f).flags = [b.flags EXCEPT ![c] = @ \cup {f}]
             /\ WithFlag(b, c, f).event_continue = b.event_continue
  BY Zenon DEF WithFlag, event_base
<1>2. ASSUME NEW f
      PROVE  /\ WithoutFlag(b, c, f).flags = [b.flags EXCEPT ![c] = @ \ {f}]
             /\ WithoutFlag(b, c, f).event_continue = b.event_continue
  BY Zenon DEF WithoutFlag, event_base
<1>3. /\ RemoveActive(b, c).flags = [b.flags EXCEPT ![c] = @ \ {"active"}]
      /\ RemoveActive(b, c).event_continue = b.event_continue
  BY Zenon DEF RemoveActive, WithoutFlag, event_base
<1>4. /\ RemoveActiveLater(b, c).flags = [b.flags EXCEPT ![c] = @ \ {"later"}]
      /\ RemoveActiveLater(b, c).event_continue = b.event_continue
  BY Zenon DEF RemoveActiveLater, WithoutFlag, event_base
<1>5. /\ InsertActive(b, c).event_continue = b.event_continue
      /\ InsertActiveLater(b, c).event_continue = b.event_continue
  BY Zenon DEF InsertActive, InsertActiveLater, WithFlag, event_base
<1>6. b.flags \in FlagSets
  BY Zenon DEF event_base, FlagSets
<1>7. ASSUME NEW r, NEW f \in Kinds, r.event_continue = b.event_continue,
             \/ r.flags = [b.flags EXCEPT ![c] = @ \ {f}]
             \/ r.flags = [b.flags EXCEPT ![c] = @ \cup {f}] /\ f # "active"
      PROVE  Moves(b, r, c)
  <2>1. /\ \A x \in Callbacks \ {c} : r.flags[x] = b.flags[x]
        /\ r.flags[c] = b.flags[c] \ {f} \/ (r.flags[c] = b.flags[c] \cup {f} /\ f # "active")
    BY <1>6, <1>7, Zenon DEF FlagSets
  <2>2. f # "finalizing"
    BY Zenon DEF Kinds
  <2> QED
    BY <1>7, <2>1, <2>2, Zenon DEF Moves, Confined
<1>8. "active" \in Kinds /\ "later" \in Kinds /\ {"inserted", "timeout"} \subseteq Kinds
  BY Zenon DEF Kinds
<1> QED
  BY <1>1, <1>2, <1>3, <1>4, <1>5, <1>7, <1>8, Zenon

\* A base without events, from its fields.
LEMMA BaseMade ==
  ASSUME NEW flags \in [Callbacks -> SUBSET (Kinds \cup {"finalizing"})],
         NEW res \in [Callbacks -> SUBSET Reasons],
         NEW deadline \in [Timed -> Nat], NEW io_timeout \in [Events -> Nat],
         NEW activeq \in [0 .. NPri - 1 -> Seq(Callbacks)], NEW laterq \in Seq(Callbacks)
  PROVE  [flags |-> flags, res |-> res, deadline |-> deadline, io_timeout |-> io_timeout,
          activeq |-> activeq, laterq |-> laterq, event_count |-> 0,
          event_count_active |-> 0, n_deferreds_queued |-> 0, event_continue |-> FALSE,
          is_notify_pending |-> FALSE, eventfd |-> FALSE] \in event_base
BY DEF event_base

\* Doing nothing leaves the notification as it is.
LEMMA NotifiedNot ==
  ASSUME NEW b
  PROVE  Notified(b, b)
BY Zenon DEF Notified, Silent

\* So do two in a row.
LEMMA NotifiedTwice ==
  ASSUME NEW b, NEW m, NEW r, Notified(b, m), Notified(m, r)
  PROVE  Notified(b, r)
BY Zenon DEF Notified, Silent

\* evthread_notify_base.
LEMMA Notifies ==
  ASSUME NEW b, Sound(b), NEW t
  PROVE  LET r == NotifyBase(b, t)
         IN /\ Sound(r) /\ Notified(b, r) /\ r.flags = b.flags
            /\ r.event_continue = b.event_continue
            /\ pc # "idle" /\ t # Looper /\ (b.is_notify_pending => b.eventfd) => r.eventfd
<1> DEFINE r == NotifyBase(b, t)
<1> b \in event_base
  BY Zenon DEF Sound
<1>1. r \in event_base /\ r.flags = b.flags /\ r.activeq = b.activeq
      /\ r.event_count = b.event_count /\ r.event_count_active = b.event_count_active
      /\ r.laterq = b.laterq /\ r.event_continue = b.event_continue
  BY ZenonT(30) DEF NotifyBase, event_base
<1>2. Notified(b, r)
      /\ (pc # "idle" /\ t # Looper /\ (b.is_notify_pending => b.eventfd) => r.eventfd)
  BY Zenon DEF NotifyBase, event_base, Notified, Silent
<1> HIDE DEF r
<1>3. Sound(r)
  BY <1>1, SoundFrame, Zenon
<1> QED
  BY <1>1, <1>2, <1>3, Zenon DEF r

\* event_del_nolock_.
LEMMA Deletes ==
  ASSUME NEW b, Sound(b), NEW t, NEW e \in Timed
  PROVE  LET r == DelNolock(b, t, e)
         IN /\ Sound(r) /\ Notified(b, r) /\ Moves(b, r, e)
            /\ "finalizing" \in b.flags[e] => r = b
            /\ "finalizing" \notin b.flags[e] => r.flags[e] = {}
<1> DEFINE r == DelNolock(b, t, e)
           b1 == IF "timeout" \in b.flags[e] THEN WithoutFlag(b, e, "timeout") ELSE b
           b2 == IF "active" \in b.flags[e] THEN RemoveActive(b1, e) ELSE b1
           b3 == IF "inserted" \in b.flags[e] THEN WithoutFlag(b2, e, "inserted") ELSE b2
<1> b \in event_base /\ e \in Callbacks /\ "later" \notin b.flags[e]
  BY ConstantsAssumption, Zenon DEF Sound, Timed, Callbacks
<1>1. CASE "finalizing" \in b.flags[e]
  BY <1>1, ZenonT(30) DEF DelNolock, Notified, Silent, Moves, Confined
<1>2. CASE "finalizing" \notin b.flags[e]
  <2>1. /\ Sound(b1) /\ Notified(b, b1) /\ b1.flags[e] = b.flags[e] \ {"timeout"}
        /\ Moves(b, b1, e)
    BY FlagCleared, NotifiedNot, QueueMoves, MovesNot DEF Notified
  <2> b1 \in event_base
    BY <2>1, Zenon DEF Sound
  <2> HIDE DEF b1
  <2>2. /\ Sound(b2) /\ Notified(b1, b2) /\ b2.flags[e] = b1.flags[e] \ {"active"}
        /\ Moves(b1, b2, e)
    BY <2>1, ActiveRemoved, NotifiedNot, QueueMoves, MovesNot DEF Notified
  <2> b2 \in event_base
    BY <2>2, Zenon DEF Sound
  <2> HIDE DEF b2
  <2>3. /\ Sound(b3) /\ Notified(b2, b3) /\ b3.flags[e] = b2.flags[e] \ {"inserted"}
        /\ Moves(b2, b3, e)
    BY <2>1, <2>2, FlagCleared, NotifiedNot, QueueMoves, MovesNot DEF Notified
  <2>4. r = b3 \/ r = NotifyBase(b3, t)
    BY <1>2, Zenon DEF DelNolock, b2, b1
  <2> HIDE DEF b3, r
  <2>5. /\ Sound(r) /\ Notified(b3, r) /\ r.flags = b3.flags
        /\ r.event_continue = b3.event_continue
    BY <2>3, <2>4, Notifies DEF Notified, Silent
  <2>6. Notified(b, r) /\ Moves(b, r, e)
    <3>1. Notified(b, r)
      BY <2>1, <2>2, <2>3, <2>5, NotifiedTwice, Zenon
    <3>2. Moves(b3, r, e)
      BY <2>5, MovesNot, Zenon
    <3> QED
      BY <2>1, <2>2, <2>3, <3>1, <3>2, MovesTwice, Zenon
  <2>7. r.flags[e] = {}
    <3>1. b.flags[e] \subseteq Kinds \cup {"finalizing"}
      BY Zenon DEF event_base
    <3>2. r.flags[e] = ((b.flags[e] \ {"timeout"}) \ {"active"}) \ {"inserted"}
      BY <2>1, <2>2, <2>3, <2>5, Zenon
    <3> QED
      BY <1>2, <3>1, <3>2, Zenon DEF Kinds
  <2> QED
    BY <1>2, <2>5, <2>6, <2>7, Zenon DEF r
<1> QED
  BY <1>1, <1>2, Zenon

\* event_add_nolock_.
LEMMA Adds ==
  ASSUME LoopTypes, NEW b, Sound(b), NEW t, NEW e \in Timed, NEW tv \in Nat \cup {None},
         NEW absolute \in BOOLEAN
  PROVE  LET r == AddNolock(b, t, e, tv, absolute)
         IN Sound(r) /\ Notified(b, r) /\ Moves(b, r, e)
<1> DEFINE r == AddNolock(b, t, e, tv, absolute)
           insert == e \in IO /\ b.flags[e] \cap {"inserted", "active", "later"} = {}
           timed == tv # None
           expired == timed /\ "active" \in b.flags[e] /\ "timeout" \in b.res[e]
           b1 == IF insert THEN WithFlag(b, e, "inserted") ELSE b
           b2 == IF timed /\ e \in Persist /\ ~absolute
                   THEN [b1 EXCEPT !.io_timeout[e] = tv] ELSE b1
           b3 == IF timed /\ "timeout" \in b.flags[e] THEN WithoutFlag(b2, e, "timeout") ELSE b2
           b4 == IF expired THEN RemoveActive(b3, e) ELSE b3
           at == IF absolute THEN tv ELSE gettime + tv
           b0 == [b4 EXCEPT !.deadline[e] = at]
           b5 == IF timed THEN WithFlag(b0, e, "timeout") ELSE b4
           Kept(x, f) == f \in x.flags[e] <=> f \in b.flags[e]
<1> b \in event_base /\ e \in Callbacks /\ "later" \notin b.flags[e]
  BY ConstantsAssumption, Zenon DEF Sound, Timed, Callbacks
<1>1. CASE "finalizing" \in b.flags[e]
  BY <1>1, ZenonT(30) DEF AddNolock, Notified, Silent, Moves, Confined
<1>2. CASE "finalizing" \notin b.flags[e]
  <2>1. /\ Sound(b1) /\ Notified(b, b1) /\ Moves(b, b1, e)
        /\ Kept(b1, "timeout") /\ Kept(b1, "active") /\ Kept(b1, "finalizing")
    BY <1>2, FlagSet, NotifiedNot, QueueMoves, MovesNot DEF Notified
  <2> b1 \in event_base
    BY <2>1, Zenon DEF Sound
  <2> HIDE DEF b1, insert
  <2>2. /\ Sound(b2) /\ Notified(b1, b2) /\ b2.flags = b1.flags
        /\ Moves(b1, b2, e)
    <3>1. timed /\ e \in Persist => [b1.io_timeout EXCEPT ![e] = tv] \in [Events -> Nat]
      BY ZenonT(30) DEF event_base
    <3>2. b2 \in event_base /\ b2.flags = b1.flags /\ b2.activeq = b1.activeq
          /\ b2.laterq = b1.laterq /\ b2.event_count = b1.event_count
          /\ b2.event_count_active = b1.event_count_active /\ Notified(b1, b2)
          /\ b2.event_continue = b1.event_continue
      BY <3>1, ZenonT(30) DEF event_base, Notified, Silent
    <3> HIDE DEF b2
    <3> QED
      BY <2>1, <3>2, SoundFrame, MovesNot, Zenon
  <2> b2 \in event_base
    BY <2>2, Zenon DEF Sound
  <2> HIDE DEF b2
  <2>3. /\ Sound(b3) /\ Notified(b2, b3) /\ Kept(b3, "active") /\ Kept(b3, "finalizing")
        /\ timed => "timeout" \notin b3.flags[e]
        /\ Moves(b2, b3, e)
    BY <2>1, <2>2, FlagCleared, NotifiedNot, QueueMoves, MovesNot DEF Notified
  <2> b3 \in event_base
    BY <2>3, Zenon DEF Sound
  <2> HIDE DEF b3
  <2>4. /\ Sound(b4) /\ Notified(b3, b4) /\ Kept(b4, "finalizing")
        /\ timed => "timeout" \notin b4.flags[e]
        /\ Moves(b3, b4, e)
    BY <2>3, ActiveRemoved, NotifiedNot, QueueMoves, MovesNot DEF Notified
  <2> b4 \in event_base
    BY <2>4, Zenon DEF Sound
  <2> HIDE DEF b4
  <2>5. Sound(b5) /\ Notified(b4, b5) /\ Moves(b4, b5, e)
    <3>1. CASE timed
      <4>1. at \in Nat
        BY <3>1 DEF LoopTypes, gettime
      <4> HIDE DEF at
      <4>2. [b4.deadline EXCEPT ![e] = at] \in [Timed -> Nat]
        BY <4>1, Zenon DEF event_base
      <4>3. b0 \in event_base /\ b0.flags = b4.flags /\ b0.activeq = b4.activeq
            /\ b0.laterq = b4.laterq /\ b0.event_count = b4.event_count
            /\ b0.event_count_active = b4.event_count_active /\ Notified(b4, b0)
            /\ b0.event_continue = b4.event_continue
        BY <4>2, ZenonT(30) DEF event_base, Notified, Silent
      <4> HIDE DEF b0
      <4>4. /\ Sound(b0) /\ "timeout" \notin b0.flags[e] /\ "finalizing" \notin b0.flags[e]
            /\ Moves(b4, b0, e)
        BY <1>2, <2>4, <3>1, <4>3, SoundFrame, MovesNot, Zenon
      <4>5. Sound(b5) /\ Notified(b0, b5) /\ Moves(b0, b5, e)
        BY <3>1, <4>3, <4>4, FlagSet, NotifiedNot, QueueMoves, Zenon DEF Notified
      <4> QED
        BY <4>3, <4>4, <4>5, NotifiedTwice, MovesTwice, Zenon
    <3>2. CASE ~timed
      BY <2>4, <3>2, MovesNot, Zenon DEF Notified, Silent
    <3> QED
      BY <3>1, <3>2, Zenon
  <2>6. r = b5 \/ r = NotifyBase(b5, t)
    BY <1>2, ZenonT(30) DEF AddNolock, b1, insert, b2, b3, b4
  <2> HIDE DEF b5, r
  <2>7. Sound(r) /\ Notified(b5, r) /\ Moves(b5, r, e)
    BY <2>5, <2>6, Notifies, MovesNot DEF Notified, Silent
  <2>8. Notified(b, r) /\ Moves(b, r, e)
    <3>1. Notified(b, r)
      BY <2>1, <2>2, <2>3, <2>4, <2>5, <2>7, NotifiedTwice, Zenon
    <3> QED
      BY <2>1, <2>2, <2>3, <2>4, <2>5, <2>7, <3>1, MovesTwice, Zenon
  <2> QED
    BY <2>7, <2>8, Zenon DEF r
<1> QED
  BY <1>1, <1>2, Zenon

\* event_callback_activate_nolock_.
LEMMA Activates ==
  ASSUME NEW b, Sound(b), NEW t, NEW c \in Callbacks
  PROVE  LET r == CallbackActivate(b, t, c)
         IN /\ Sound(r) /\ Notified(b, r)
            /\ b.flags[c] = {} => r.flags[c] = {"active"}
            /\ b.event_continue \/ c \notin Timed \/ Pri[c] >= running => Moves(b, r, c)
<1> DEFINE r == CallbackActivate(b, t, c)
           b1 == IF "later" \in b.flags[c] THEN RemoveActiveLater(b, c) ELSE b
           b2 == InsertActive(b1, c)
<1> b \in event_base
  BY Zenon DEF Sound
<1>1. CASE b.flags[c] \cap {"active", "finalizing"} # {}
  BY <1>1, Zenon DEF CallbackActivate, Notified, Silent, Moves, Confined
<1>2. CASE b.flags[c] \cap {"active", "finalizing"} = {}
  <2>1. /\ Sound(b1) /\ Notified(b, b1) /\ b1.flags[c] = b.flags[c] \ {"later"}
        /\ Moves(b, b1, c)
    BY LaterRemoved, NotifiedNot, QueueMoves, MovesNot, Zenon DEF Notified
  <2> b1 \in event_base
    BY <2>1, Zenon DEF Sound
  <2> HIDE DEF b1
  <2>2. "active" \notin b1.flags[c] /\ "later" \notin b1.flags[c] /\ "finalizing" \notin b1.flags[c]
    BY <1>2, <2>1, Zenon
  <2>3. /\ Sound(b2) /\ Notified(b1, b2) /\ b2.flags[c] = b1.flags[c] \cup {"active"}
        /\ \A x \in Callbacks \ {c} : b2.flags[x] = b1.flags[x]
        /\ b2.event_continue = b1.event_continue
    BY <2>1, <2>2, ActiveInserted, NotifiedNot, QueueMoves DEF Notified
  <2>4. r = NotifyBase(b2, t)
    BY <1>2, Zenon DEF CallbackActivate, b1
  <2> HIDE DEF b2, r
  <2>5. /\ Sound(r) /\ Notified(b2, r) /\ r.flags = b2.flags
        /\ r.event_continue = b2.event_continue
    BY <2>3, <2>4, Notifies, Zenon
  <2>6. Notified(b, r)
    BY <2>1, <2>3, <2>5, NotifiedTwice, Zenon
  <2>7. ASSUME b.event_continue \/ c \notin Timed \/ Pri[c] >= running
        PROVE  Moves(b, r, c)
    <3>1. /\ \A x \in Callbacks \ {c} : r.flags[x] = b1.flags[x]
          /\ r.flags[c] = b1.flags[c] \cup {"active"} /\ r.event_continue = b1.event_continue
      BY <2>3, <2>5, Zenon
    <3>2. Moves(b1, r, c)
      BY <2>1, <2>7, <3>1, Zenon DEF Moves, Confined
    <3> QED
      BY <2>1, <3>2, MovesTwice, Zenon
  <2> QED
    BY <2>1, <2>3, <2>5, <2>6, <2>7, Zenon DEF r
<1> QED
  BY <1>1, <1>2, Zenon

\* event_callback_activate_later_nolock_.
LEMMA ActivatesLater ==
  ASSUME NEW b, Sound(b), NEW t, NEW c \in Deferred
  PROVE  LET r == ActivateLater(b, t, c) IN Sound(r) /\ Notified(b, r) /\ Moves(b, r, c)
<1> DEFINE r == ActivateLater(b, t, c)
           b1 == InsertActiveLater(b, c)
<1> b \in event_base /\ c \in Callbacks /\ c \notin Timed
  BY ConstantsAssumption, Zenon DEF Sound, Callbacks, Timed
<1>1. CASE b.flags[c] \cap {"active", "later"} # {}
  BY <1>1, Zenon DEF ActivateLater, Notified, Silent, Moves, Confined
<1>2. CASE b.flags[c] \cap {"active", "later"} = {}
  <2>1. /\ Sound(b1) /\ Notified(b, b1) /\ b1.flags[c] = b.flags[c] \cup {"later"}
        /\ \A x \in Callbacks \ {c} : b1.flags[x] = b.flags[x]
        /\ b1.event_continue = b.event_continue
    BY <1>2, LaterInserted, NotifiedNot, QueueMoves, Zenon DEF Notified
  <2>3. r = NotifyBase(b1, t)
    BY <1>2, Zenon DEF ActivateLater
  <2> HIDE DEF b1, r
  <2>4. /\ Sound(r) /\ Notified(b1, r) /\ r.flags = b1.flags
        /\ r.event_continue = b1.event_continue
    BY <2>1, <2>3, Notifies, Zenon
  <2>5. Moves(b, r, c)
    BY <2>1, <2>4, Zenon DEF Moves, Confined
  <2> QED
    BY <2>1, <2>4, <2>5, NotifiedTwice, Zenon DEF r
<1> QED
  BY <1>1, <1>2, Zenon

\* event_active_nolock_.
LEMMA ActivesEvent ==
  ASSUME NEW b, Sound(b), NEW t, NEW e \in Timed \cup {Notify}, NEW why \in Reasons
  PROVE  LET r == ActiveNolock(b, t, e, why)
         IN /\ Sound(r) /\ Notified(b, r)
            /\ b.flags[e] = {} => r.flags[e] = {"active"}
            /\ LoopTypes => Moves(b, r, e)
<1> DEFINE r == ActiveNolock(b, t, e, why)
           b1 == [b EXCEPT !.res[e] = {why}, !.event_continue = @ \/ Pri[e] < running]
           b2 == [b EXCEPT !.res[e] = @ \cup {why}]
           Like(x) == /\ x \in event_base /\ x.flags = b.flags /\ x.activeq = b.activeq
                      /\ x.laterq = b.laterq /\ x.event_count = b.event_count
                      /\ x.event_count_active = b.event_count_active /\ Notified(b, x)
<1> b \in event_base /\ e \in Callbacks
  BY Zenon DEF Sound, Timed, Callbacks
<1>1. CASE "finalizing" \in b.flags[e]
  BY <1>1, Zenon DEF ActiveNolock, Notified, Silent, Moves, Confined
<1>2. CASE "finalizing" \notin b.flags[e] /\ "active" \in b.flags[e]
  <2>1. [b.res EXCEPT ![e] = @ \cup {why}] \in [Callbacks -> SUBSET Reasons]
    BY Zenon DEF event_base
  <2>2. Like(b2)
    BY <2>1, ZenonT(30) DEF event_base, Notified, Silent
  <2>3. r = b2
    BY <1>2, Zenon DEF ActiveNolock
  <2>5. b2.event_continue = b.event_continue
    BY Zenon DEF event_base
  <2> HIDE DEF b2, r
  <2>4. Sound(r) /\ Moves(b, r, e)
    BY <2>2, <2>3, <2>5, SoundFrame, MovesNot, Zenon
  <2> QED
    BY <1>2, <2>2, <2>3, <2>4, Zenon DEF r
<1>3. CASE "finalizing" \notin b.flags[e] /\ "active" \notin b.flags[e]
  <2>1. [b.res EXCEPT ![e] = {why}] \in [Callbacks -> SUBSET Reasons]
    BY Zenon DEF event_base
  <2>2. Like(b1)
    BY <2>1, ZenonT(30) DEF event_base, Notified, Silent
  <2>3. r = CallbackActivate(b1, t, e)
    BY <1>3, Zenon DEF ActiveNolock
  <2>7. b1.event_continue = (b.event_continue \/ Pri[e] < running)
    BY Zenon DEF event_base
  <2> HIDE DEF b1, r
  <2>4. Sound(b1)
    BY <2>2, SoundFrame, Zenon
  <2>5. /\ Sound(r) /\ Notified(b1, r)
        /\ b.flags[e] = {} => r.flags[e] = {"active"}
        /\ b1.event_continue \/ Pri[e] >= running => Moves(b1, r, e)
    BY <2>2, <2>3, <2>4, Activates
  <2>6. Notified(b, r)
    BY <2>2, <2>5, NotifiedTwice, Zenon
  <2>8. ASSUME LoopTypes PROVE Moves(b, r, e)
    <3>1. Pri[e] \in Int /\ running \in Int
      BY <2>8, ConstantsAssumption DEF LoopTypes
    <3>2. Pri[e] < running \/ Pri[e] >= running
      BY <3>1
    <3>3. Moves(b1, r, e)
      BY <2>5, <2>7, <3>2, Zenon
    <3>4. Moves(b, b1, e)
      BY <2>2, <2>7, Zenon DEF Moves, Confined
    <3> QED
      BY <3>3, <3>4, MovesTwice, Zenon
  <2> QED
    BY <2>5, <2>6, <2>8, Zenon DEF r
<1> QED
  BY <1>1, <1>2, <1>3, Zenon

\* event_callback_cancel_nolock_ of a deferred callback.
LEMMA Cancels ==
  ASSUME NEW b, Sound(b), NEW c \in Deferred
  PROVE  LET r == CancelNolock(b, c) IN Sound(r) /\ Notified(b, r) /\ Moves(b, r, c)
<1> b \in event_base /\ c \in Callbacks
  BY Zenon DEF Sound, Callbacks
<1> QED
  BY ActiveRemoved, LaterRemoved, NotifiedNot, QueueMoves, MovesNot, Zenon DEF CancelNolock,
     Notified

\* event_process_active_single_queue, before the callback.
LEMMA Dequeues ==
  ASSUME LoopTypes, NEW b, Sound(b), NEW c \in Callbacks, "active" \in b.flags[c]
  PROVE  LET r == Dequeue(b, c)
         IN /\ Sound(r) /\ Notified(b, r) /\ Moves(b, r, c)
            /\ "finalizing" \in b.flags[c] => r.flags[c] = {"finalizing"}
<1> DEFINE r == Dequeue(b, c)
           finalizing == "finalizing" \in b.flags[c]
           b1 == IF c \in Timed \ Persist /\ ~finalizing THEN DelNolock(b, Looper, c)
                 ELSE RemoveActive(b, c)
<1> b \in event_base
  BY Zenon DEF Sound
<1>1. Sound(b1) /\ Notified(b, b1) /\ Moves(b, b1, c)
  <2>1. CASE b1 = DelNolock(b, Looper, c) /\ c \in Timed
    BY <2>1, Deletes
  <2>2. CASE b1 = RemoveActive(b, c)
    BY <2>2, ActiveRemoved, NotifiedNot, QueueMoves DEF Notified
  <2> QED
    BY <2>1, <2>2, Zenon
<1> HIDE DEF b1
<1>2. CASE c \in Persist /\ ~finalizing /\ b.io_timeout[c] # 0
  <2>1. r = AddNolock(b1, Looper, c, RunAt(b, c), TRUE)
    BY <1>2, Zenon DEF Dequeue, b1
  <2>2. c \in Events /\ c \in Timed
    BY <1>2, ConstantsAssumption, Zenon DEF Timed
  <2>3. b.deadline[c] \in Nat /\ b.io_timeout[c] \in Nat /\ gettime \in Nat
    BY <2>2, Zenon DEF event_base, LoopTypes, gettime
  <2>4. RunAt(b, c) \in Nat
    BY <2>3 DEF RunAt
  <2> HIDE DEF r
  <2>5. Sound(r) /\ Notified(b1, r) /\ Moves(b1, r, c)
    BY <1>1, <2>1, <2>2, <2>4, Adds, ZenonT(30)
  <2> QED
    BY <1>1, <1>2, <2>5, NotifiedTwice, MovesTwice, Zenon DEF r
<1>3. CASE ~(c \in Persist /\ ~finalizing /\ b.io_timeout[c] # 0)
  <2>1. r = b1
    BY <1>3, Zenon DEF Dequeue, b1
  <2>2. ASSUME finalizing PROVE b1.flags[c] = {"finalizing"}
    <3>1. b1 = RemoveActive(b, c)
      BY <2>2, Zenon DEF b1
    <3>2. b1.flags[c] = b.flags[c] \ {"active"} /\ b.flags[c] \subseteq {"finalizing", "active"}
      BY <2>2, <3>1, ActiveRemoved, Zenon DEF Sound
    <3> QED
      BY <2>2, <3>2, Zenon
  <2> QED
    BY <1>1, <2>1, <2>2, Zenon
<1> QED
  BY <1>2, <1>3, Zenon

-----------------------------------------------------------------------------
(* The functions of the API, called while the Looper sleeps.                *)

\* A sleep that ends after `until' ends in time: nothing is active and no timer
\* is due before, and one without an end has something to wait for.
Calm(b, u, l) ==
  /\ b.event_count_active = 0
  /\ \A e \in Timers(b) : u # Forever /\ u <= b.deadline[e] + l
  /\ u = Forever => b.event_count > 0

\* A base whose pending notification is in the eventfd.
Heard(b) == b \in event_base /\ (b.is_notify_pending => b.eventfd)

\* A step that leaves the notification, the number of active callbacks and the
\* other timers as they are.
Beside(b, r, e) ==
  /\ r \in event_base /\ Silent(b, r)
  /\ r.event_count_active = b.event_count_active
  /\ \A x \in Timed \ {e} : r.flags[x] = b.flags[x] /\ r.deadline[x] = b.deadline[x]

\* Two such steps in a row.
LEMMA BesideTwice ==
  ASSUME NEW b, NEW m, NEW r, NEW e, Beside(b, m, e), Beside(m, r, e)
  PROVE  Beside(b, r, e)
BY Zenon DEF Beside, Silent

\* The flags and the count of an event.
LEMMA FlagBeside ==
  ASSUME NEW b \in event_base, NEW e \in Timed, NEW f \in {"inserted", "timeout"}
  PROVE  /\ Beside(b, WithFlag(b, e, f), e) /\ Beside(b, WithoutFlag(b, e, f), e)
         /\ WithFlag(b, e, f).deadline = b.deadline
         /\ WithoutFlag(b, e, f).flags[e] = b.flags[e] \ {f}
<1>1. e \in Callbacks /\ f \in Kinds /\ Timed \subseteq Callbacks /\ b.flags \in FlagSets
  BY Zenon DEF Timed, Callbacks, Kinds, event_base, FlagSets
<1>2. WithFlag(b, e, f).deadline = b.deadline /\ WithoutFlag(b, e, f).deadline = b.deadline
  BY Zenon DEF WithFlag, WithoutFlag, event_base
<1>3. ASSUME NEW r \in event_base, Silent(b, r), r.event_count_active = b.event_count_active,
             r.deadline = b.deadline,
             r.flags = [b.flags EXCEPT ![e] = @ \cup {f}] \/ r.flags = [b.flags EXCEPT ![e] = @ \ {f}]
      PROVE  Beside(b, r, e)
  BY <1>1, <1>3, Zenon DEF Beside, FlagSets
<1>4. Beside(b, WithFlag(b, e, f), e)
  BY <1>1, <1>2, <1>3, Flags
<1>5. /\ Beside(b, WithoutFlag(b, e, f), e)
      /\ WithoutFlag(b, e, f).flags = [b.flags EXCEPT ![e] = @ \ {f}]
  BY <1>1, <1>2, <1>3, Unflags
<1>6. WithoutFlag(b, e, f).flags[e] = b.flags[e] \ {f}
  BY <1>1, <1>5, Zenon DEF FlagSets
<1> QED
  BY <1>2, <1>4, <1>5, <1>6, Zenon

\* The two fields of a timer.
LEMMA TimeBeside ==
  ASSUME NEW b \in event_base, NEW e \in Timed, NEW n \in Nat
  PROVE  /\ Beside(b, [b EXCEPT !.deadline[e] = n], e)
         /\ [b EXCEPT !.deadline[e] = n].deadline[e] = n
         /\ e \in Events => /\ Beside(b, [b EXCEPT !.io_timeout[e] = n], e)
                            /\ [b EXCEPT !.io_timeout[e] = n].flags = b.flags
<1>1. /\ [b.deadline EXCEPT ![e] = n] \in [Timed -> Nat]
      /\ e \in Events => [b.io_timeout EXCEPT ![e] = n] \in [Events -> Nat]
  BY Zenon DEF event_base
<1>2. [b EXCEPT !.deadline[e] = n] \in event_base
      /\ (e \in Events => [b EXCEPT !.io_timeout[e] = n] \in event_base)
  BY <1>1, ZenonT(30) DEF event_base
<1>3. /\ Silent(b, [b EXCEPT !.deadline[e] = n])
      /\ [b EXCEPT !.deadline[e] = n].event_count_active = b.event_count_active
      /\ [b EXCEPT !.deadline[e] = n].flags = b.flags
      /\ [b EXCEPT !.deadline[e] = n].deadline = [b.deadline EXCEPT ![e] = n]
  BY Zenon DEF event_base, Silent
<1>4. /\ Silent(b, [b EXCEPT !.io_timeout[e] = n])
      /\ [b EXCEPT !.io_timeout[e] = n].event_count_active = b.event_count_active
      /\ [b EXCEPT !.io_timeout[e] = n].flags = b.flags
      /\ [b EXCEPT !.io_timeout[e] = n].deadline = b.deadline
  BY Zenon DEF event_base, Silent
<1>5. b.deadline \in [Timed -> Nat]
  BY Zenon DEF event_base
<1> QED
  BY <1>2, <1>3, <1>4, <1>5, Zenon DEF Beside

\* evthread_notify_base from another thread wakes the Looper.
LEMMA Rings ==
  ASSUME NEW b, Heard(b), NEW t, t # Looper, pc # "idle"
  PROVE  NotifyBase(b, t).eventfd
BY Zenon DEF Heard, NotifyBase, event_base

\* What is not silent rings.
LEMMA HeardAfter ==
  ASSUME NEW b, NEW r \in event_base, Heard(b), Notified(b, r)
  PROVE  Heard(r) /\ (b.eventfd => r.eventfd)
BY Zenon DEF Heard, Notified, Silent

\* A step beside a base leaves its notification heard.
LEMMA HeardBeside ==
  ASSUME NEW b, NEW r, NEW e, Heard(b), Beside(b, r, e)
  PROVE  Heard(r)
BY Zenon DEF Heard, Beside, Silent

\* When the counter of active callbacks is 0, no callback is in a queue.
LEMMA NoneActive ==
  ASSUME NEW b, Sound(b), b.event_count_active = 0
  PROVE  b.laterq = <<>> /\ \A c \in Callbacks : "active" \notin b.flags[c] /\ "later" \notin b.flags[c]
<1> DEFINE A == Flagged(b.flags, "active") \cup Flagged(b.flags, "later")
<1>1. Cardinality(A) = 0 /\ Listed(b.laterq) = Flagged(b.flags, "later") /\ b.laterq \in Seq(Callbacks)
  BY Zenon DEF Sound, Consistent, event_base
<1>2. IsFiniteSet(A)
  BY FinitelyMany, Zenon
<1>3. A = {}
  BY <1>1, <1>2, FS_EmptySet, Zenon
<1>4. \A c \in Callbacks : "active" \notin b.flags[c] /\ "later" \notin b.flags[c]
  BY <1>3, Zenon DEF Flagged
<1>5. Len(b.laterq) \in Nat /\ (Len(b.laterq) > 0 => b.laterq[1] \in Listed(b.laterq))
  BY <1>1 DEF Listed
<1>6. Listed(b.laterq) = {}
  BY <1>1, <1>3, Zenon
<1>7. b.laterq = <<>>
  BY <1>1, <1>5, <1>6
<1> QED
  BY <1>4, <1>7, Zenon

\* A timer less is no reason to wake the Looper: it sleeps until another, or
\* wakes early.
LEMMA CalmDropped ==
  ASSUME NEW b, NEW r, NEW e \in Timed, NEW u, NEW l, Calm(b, u, l), Beside(b, r, e),
         "timeout" \in b.flags[e], "timeout" \notin r.flags[e]
  PROVE  Calm(r, u, l)
BY Zenon DEF Calm, Beside, Timers

\* event_callback_activate_nolock_ and event_callback_activate_later_nolock_
\* ring unless they have nothing to do.
LEMMA ActivateRings ==
  ASSUME NEW b, Sound(b), Heard(b), NEW c \in Callbacks, NEW t, t # Looper, pc # "idle"
  PROVE  /\ LET r == CallbackActivate(b, t, c)
            IN (r = b /\ b.flags[c] \cap {"active", "finalizing"} # {}) \/ r.eventfd
         /\ c \in Deferred => LET r == ActivateLater(b, t, c)
                             IN (r = b /\ b.flags[c] \cap {"active", "later"} # {}) \/ r.eventfd
<1>1. ASSUME b.flags[c] \cap {"active", "finalizing"} = {} PROVE CallbackActivate(b, t, c).eventfd
  <2> DEFINE b1 == IF "later" \in b.flags[c] THEN RemoveActiveLater(b, c) ELSE b
             b2 == InsertActive(b1, c)
  <2>1. /\ Sound(b1) /\ Silent(b, b1)
        /\ "active" \notin b1.flags[c] /\ "later" \notin b1.flags[c] /\ "finalizing" \notin b1.flags[c]
    BY <1>1, LaterRemoved DEF Silent
  <2>2. CallbackActivate(b, t, c) = NotifyBase(b2, t)
    BY <1>1, Zenon DEF CallbackActivate
  <2> HIDE DEF b1
  <2>3. Sound(b2) /\ Silent(b1, b2)
    BY <2>1, ActiveInserted, Zenon
  <2>4. Heard(b2)
    BY <2>1, <2>3, Zenon DEF Heard, Silent, Sound
  <2> QED
    BY <2>2, <2>4, Rings, Zenon
<1>2. ASSUME c \in Deferred, b.flags[c] \cap {"active", "later"} = {} PROVE ActivateLater(b, t, c).eventfd
  <2>1. Sound(InsertActiveLater(b, c)) /\ Silent(b, InsertActiveLater(b, c))
    BY <1>2, LaterInserted, Zenon
  <2>2. Heard(InsertActiveLater(b, c))
    BY <2>1, Zenon DEF Heard, Silent, Sound
  <2>3. ActivateLater(b, t, c) = NotifyBase(InsertActiveLater(b, c), t)
    BY <1>2, Zenon DEF ActivateLater
  <2> QED
    BY <2>2, <2>3, Rings, Zenon
<1>3. b.flags[c] \cap {"active", "finalizing"} # {} => CallbackActivate(b, t, c) = b
  BY Zenon DEF CallbackActivate
<1>4. b.flags[c] \cap {"active", "later"} # {} => ActivateLater(b, t, c) = b
  BY Zenon DEF ActivateLater
<1> QED
  BY <1>1, <1>2, <1>3, <1>4, Zenon

\* So does event_active_nolock_ on an event that is not active yet.
LEMMA ActiveRings ==
  ASSUME NEW b, Sound(b), Heard(b), NEW e \in Timed, NEW why \in Reasons,
         NEW t, t # Looper, pc # "idle", "active" \notin b.flags[e]
  PROVE  LET r == ActiveNolock(b, t, e, why)
         IN (r = b /\ "finalizing" \in b.flags[e]) \/ r.eventfd
<1>1. CASE "finalizing" \in b.flags[e]
  BY <1>1, Zenon DEF ActiveNolock
<1>2. CASE "finalizing" \notin b.flags[e]
  <2> DEFINE b1 == [b EXCEPT !.res[e] = {why}, !.event_continue = @ \/ Pri[e] < running]
  <2>0. e \in Callbacks /\ b \in event_base
    BY Zenon DEF Timed, Callbacks, Sound
  <2>1. [b.res EXCEPT ![e] = {why}] \in [Callbacks -> SUBSET Reasons]
    BY <2>0, Zenon DEF event_base
  <2>2. /\ b1 \in event_base /\ b1.flags = b.flags /\ b1.activeq = b.activeq
        /\ b1.laterq = b.laterq /\ b1.event_count = b.event_count
        /\ b1.event_count_active = b.event_count_active /\ Silent(b, b1)
    BY <2>0, <2>1, ZenonT(30) DEF event_base, Silent
  <2>3. ActiveNolock(b, t, e, why) = CallbackActivate(b1, t, e)
    BY <1>2, Zenon DEF ActiveNolock
  <2> HIDE DEF b1
  <2>4. Sound(b1) /\ Heard(b1) /\ b1.flags[e] \cap {"active", "finalizing"} = {}
    BY <1>2, <2>2, SoundFrame, Zenon DEF Heard, Silent
  <2> QED
    BY <2>0, <2>3, <2>4, ActivateRings, Zenon
<1> QED
  BY <1>1, <1>2, Zenon

\* event_del_nolock_: what is taken out of epoll rings, a timer need not.
LEMMA DelCalm ==
  ASSUME NEW b, Sound(b), Heard(b), NEW e \in Timed, NEW t, t # Looper, pc # "idle",
         NEW u, NEW l, Calm(b, u, l)
  PROVE  LET r == DelNolock(b, t, e) IN r.eventfd \/ Calm(r, u, l)
<1> DEFINE r == DelNolock(b, t, e)
           b1 == IF "timeout" \in b.flags[e] THEN WithoutFlag(b, e, "timeout") ELSE b
<1>1. b \in event_base /\ e \in Callbacks /\ "active" \notin b.flags[e] /\ "later" \notin b.flags[e]
  BY NoneActive, Zenon DEF Sound, Calm, Timed, Callbacks
<1>2. CASE "finalizing" \in b.flags[e]
  BY <1>2, Zenon DEF DelNolock
<1>3. CASE "finalizing" \notin b.flags[e]
  <2>1. r = IF "inserted" \in b.flags[e] THEN NotifyBase(WithoutFlag(b1, e, "inserted"), t) ELSE b1
    BY <1>1, <1>3, Zenon DEF DelNolock
  <2>2. b1 = b \/ ("timeout" \in b.flags[e] /\ "timeout" \notin b1.flags[e] /\ Beside(b, b1, e))
    BY <1>1, FlagBeside
  <2> HIDE DEF b1
  <2>3. Heard(b1) /\ Calm(b1, u, l)
    BY <2>2, HeardBeside, CalmDropped, Zenon
  <2>4. Beside(b1, WithoutFlag(b1, e, "inserted"), e)
    BY <2>3, FlagBeside, Zenon DEF Heard
  <2>5. Heard(WithoutFlag(b1, e, "inserted"))
    BY <2>3, <2>4, HeardBeside, Zenon
  <2>6. NotifyBase(WithoutFlag(b1, e, "inserted"), t).eventfd
    BY <2>5, Rings, Zenon
  <2> QED
    BY <2>1, <2>3, <2>6, Zenon
<1> QED
  BY <1>2, <1>3, Zenon

\* event_add_nolock_: a new descriptor rings, and so does a timer that ends
\* before all others; any other timer ends after one that the sleep respects.
LEMMA AddCalm ==
  ASSUME LoopTypes, NEW b, Sound(b), Heard(b), NEW e \in Timed, NEW tv \in Nat \cup {None},
         NEW t, t # Looper, pc # "idle",
         NEW u \in Nat \cup {Forever}, NEW l \in Nat, Calm(b, u, l)
  PROVE  LET r == AddNolock(b, t, e, tv, FALSE) IN r.eventfd \/ Calm(r, u, l)
<1> DEFINE r == AddNolock(b, t, e, tv, FALSE)
           insert == e \in IO /\ b.flags[e] \cap {"inserted", "active", "later"} = {}
           timed == tv # None
           b1 == IF insert THEN WithFlag(b, e, "inserted") ELSE b
           expired == timed /\ "active" \in b.flags[e] /\ "timeout" \in b.res[e]
           b2 == IF timed /\ e \in Persist /\ ~FALSE THEN [b1 EXCEPT !.io_timeout[e] = tv] ELSE b1
           b3 == IF timed /\ "timeout" \in b.flags[e] THEN WithoutFlag(b2, e, "timeout") ELSE b2
           bx == IF expired THEN RemoveActive(b3, e) ELSE b3
           at == IF FALSE THEN tv ELSE gettime + tv
           b4 == [bx EXCEPT !.deadline[e] = at]
           b5 == IF timed THEN WithFlag(b4, e, "timeout") ELSE bx
           top == \A x \in Timers(b5) \ {e} : b5.deadline[e] < b5.deadline[x]
           overdue == \E x \in Timers(b5) : b5.deadline[x] < gettime
<1>1. b \in event_base /\ e \in Callbacks /\ "active" \notin b.flags[e] /\ Beside(b, b, e)
  BY NoneActive, Zenon DEF Sound, Calm, Timed, Callbacks, Beside, Silent
<1>2. CASE "finalizing" \in b.flags[e]
  BY <1>2, Zenon DEF AddNolock
<1>3. CASE "finalizing" \notin b.flags[e]
  <2>1. r = IF insert \/ (timed /\ (top \/ overdue)) THEN NotifyBase(b5, t) ELSE b5
    BY <1>1, <1>3, ZenonT(30) DEF AddNolock
  <2>2. ~insert /\ ~timed => b5 = b
    BY Zenon
  <2>3. bx = b3
    BY <1>1, Zenon
  <2>4. Beside(b, b1, e)
    BY <1>1, FlagBeside, Zenon
  <2> HIDE DEF b1, insert, r, top, overdue, bx
  <2>5. Beside(b, b1, e) /\ b1 \in event_base
    BY <2>4, Zenon DEF Beside
  <2>6. Beside(b1, b2, e) /\ b2 \in event_base
    <3>1. timed /\ e \in Persist => tv \in Nat /\ e \in Events
      BY ConstantsAssumption, Zenon
    <3>2. CASE timed /\ e \in Persist
      <4>1. b2 = [b1 EXCEPT !.io_timeout[e] = tv]
        BY <3>2, Zenon
      <4> HIDE DEF b2
      <4>2. Beside(b1, b2, e)
        BY <2>5, <3>1, <3>2, <4>1, TimeBeside, Zenon
      <4> QED
        BY <4>2, Zenon DEF Beside
    <3>3. CASE ~(timed /\ e \in Persist)
      BY <2>5, <3>3, Zenon DEF Beside, Silent
    <3> QED
      BY <3>2, <3>3, Zenon
  <2> HIDE DEF b2
  <2>7. Beside(b2, b3, e)
    <3>1. Beside(b2, b2, e)
      BY <2>6, Zenon DEF Beside, Silent
    <3> QED
      BY <2>6, <3>1, FlagBeside, Zenon
  <2> HIDE DEF b3
  <2>8. Beside(b2, b3, e) /\ b3 \in event_base
    BY <2>7, Zenon DEF Beside
  <2>9. Beside(b, b3, e)
    BY <2>5, <2>6, <2>8, BesideTwice, Zenon
  <2>10. Beside(b, b5, e)
    <3>1. CASE timed
      <4>1. at \in Nat
        BY <3>1 DEF LoopTypes, gettime
      <4> HIDE DEF at
      <4>2. Beside(b3, b4, e)
        BY <2>3, <2>8, <4>1, TimeBeside, Zenon
      <4> HIDE DEF b4
      <4>3. Beside(b3, b4, e) /\ b4 \in event_base
        BY <4>2, Zenon DEF Beside
      <4>4. Beside(b4, b5, e)
        BY <3>1, <4>3, FlagBeside, Zenon
      <4> QED
        BY <2>9, <4>3, <4>4, BesideTwice, Zenon
    <3>2. CASE ~timed
      BY <2>3, <2>9, <3>2, Zenon
    <3> QED
      BY <3>1, <3>2, Zenon
  <2> HIDE DEF b5, timed
  <2>11. NotifyBase(b5, t).eventfd
    BY <2>10, HeardBeside, Rings, Zenon
  <2>12. CASE insert \/ (timed /\ (top \/ overdue))
    BY <2>1, <2>11, <2>12, Zenon DEF r
  <2>13. CASE ~insert /\ ~timed
    BY <2>1, <2>2, <2>13, Zenon DEF r
  <2>14. CASE ~insert /\ timed /\ ~top /\ ~overdue
    <3>1. b5 \in event_base /\ b5.event_count_active = b.event_count_active
          /\ \A x \in Timed \ {e} : b5.flags[x] = b.flags[x] /\ b5.deadline[x] = b.deadline[x]
      BY <2>10, Zenon DEF Beside
    <3>2. PICK x \in Timers(b5) \ {e} : ~(b5.deadline[e] < b5.deadline[x])
      BY <2>14, Zenon DEF top
    <3>3. x \in Timers(b) /\ b5.deadline[x] = b.deadline[x]
      BY <3>1, <3>2, Zenon DEF Timers
    <3>4. u # Forever /\ u <= b.deadline[x] + l
      BY <3>3, Zenon DEF Calm
    <3>5. \A y \in Timed : b5.deadline[y] \in Nat
      BY <3>1, Zenon DEF event_base
    <3>6. u <= b5.deadline[e] + l
      BY <3>2, <3>3, <3>4, <3>5 DEF Timers, Forever
    <3>7. ASSUME NEW y \in Timers(b5) PROVE u <= b5.deadline[y] + l
      <4>1. CASE y = e
        BY <3>6, <4>1, Zenon
      <4>2. CASE y # e
        BY <3>1, <4>2, Zenon DEF Calm, Timers
      <4> QED
        BY <4>1, <4>2, Zenon
    <3>8. Calm(b5, u, l)
      BY <3>1, <3>4, <3>7, Zenon DEF Calm
    <3> QED
      BY <2>1, <2>14, <3>8, Zenon DEF r
  <2> QED
    BY <2>12, <2>13, <2>14, Zenon
<1> QED
  BY <1>2, <1>3, Zenon

=============================================================================
