----------------------------- MODULE ClientProofs -----------------------------
(***************************************************************************)
(* The native client for every value of the constants: starts of the p2p   *)
(* client, overlapping or not (module P2pSession), recv_buffer's           *)
(* retransmission loop with its refinement of the remote call of module    *)
(* Exchange (TurnTransaction), and its way of taking messages off a stream *)
(* (TcpFraming).  The three share no variable; each part has its own       *)
(* inductive invariant.                                                    *)
(***************************************************************************)
EXTENDS P2pSession, TurnTransaction, TcpFraming, SequenceTheorems, TLAPS

-------------------------------------------------------------------------------
(* P2pSession: for any number of starts.  Two arguments run side by side:
   while starts have not overlapped, the running one owns the globals
   (OwnInv); and whether or not they have, elems is lost only by a failing
   start (ElemsInv). *)

\* Some start has taken the failing branch of start_p2p_client.
Failed == \E t \in Starters : pc[t] \in {"forget", "failed"}

\* Without overlap at most one start is under way.
AloneInv == ~overlap => \A t, u \in Starters : Running(t) /\ Running(u) => t = u

\* Without overlap the starter under way finds its own array and base in the
\* globals, not yet freed.
OwnInv ==
  ~overlap => \A t \in Starters :
    /\ pc[t] \in {"base", "mode", "connect", "watch", "publish", "free"} => elems = t
    /\ t \in freedElems => pc[t] \in {"forget", "failed"}
    /\ pc[t] \in {"mode", "connect", "watch", "publish", "check", "exit", "got", "drop"} =>
         client_event_base = t
    /\ t \in freedBases <=> pc[t] \in {"clear", "done"}
    /\ pc[t] \in {"publish", "check", "exit", "got", "drop", "clear", "done"} => watched[t] = t

\* Until a start fails, elems is never freed, is set once a starter has passed
\* its malloc, and holds a session once the starter that made it has stored.
ElemsInv ==
  ~Failed =>
    /\ freedElems = {}
    /\ damage \cap {"store to lost elems", "free of freed elems"} = {}
    /\ elems = Null => \A t \in Starters : pc[t] \in {"idle", "elems"}
    /\ \A t \in Starters :
         elems = t => /\ pc[t] \notin {"idle", "elems"}
                      /\ pc[t] \in {"check", "exit", "got", "drop", "clear", "done"} => slot[t] # Garbage

IInv == TypeOK /\ AloneInv /\ OwnInv /\ SequentialStartsSafe /\ ElemsInv

-------------------------------------------------------------------------------
\* The initial state: no start, no array, no base.
LEMMA InitInv == Init => IInv
<1> SUFFICES ASSUME Init PROVE IInv
  BY Zenon
<1>1. TypeOK
  BY Zenon DEF Init, TypeOK, Labels, Damages, Null, Garbage
<1>2. AloneInv
  BY Zenon DEF Init, AloneInv, Running
<1>3. OwnInv
  BY Zenon DEF Init, OwnInv
<1>4. SequentialStartsSafe
  BY Zenon DEF Init, SequentialStartsSafe
<1>5. ElemsInv
  BY SessionAssumption, Zenon DEF Init, ElemsInv
<1> QED
  BY <1>1, <1>2, <1>3, <1>4, <1>5, Zenon DEF IInv

\* Every step keeps the types.
LEMMA TypeStep ==
  ASSUME TypeOK, Next PROVE TypeOK'
<1> USE SessionAssumption DEF At, Goto, heap, bases, Defined, Undefined, TypeOK, Labels, Damages
<1>1. ASSUME NEW t \in Starters, Enter(t) PROVE TypeOK'
  BY <1>1, Zenon DEF Enter
<1>2. ASSUME NEW t \in Starters, AllocElems(t) PROVE TypeOK'
  BY <1>2, Zenon DEF AllocElems
<1>3. ASSUME NEW t \in Starters, NewBase(t) PROVE TypeOK'
  BY <1>3, Zenon DEF NewBase
<1>4. ASSUME NEW t \in Starters, ReadMode(t) PROVE TypeOK'
  BY <1>4, Zenon DEF ReadMode
<1>5. ASSUME NEW t \in Starters, Connect(t) PROVE TypeOK'
  <2>1. /\ Goto(t, "watch") \/ Goto(t, "free")
        /\ alive /\ pc[t] = "connect"
        /\ UNCHANGED <<c2c, mode, elems, slot, freedElems, client_event_base, freedBases, watched,
                       damage, overlap, alive>>
    BY <1>5, ZenonT(30) DEF Connect
  <2>2. CASE Goto(t, "watch")
    BY <2>1, <2>2, Zenon
  <2>3. CASE Goto(t, "free")
    BY <2>1, <2>3, Zenon
  <2> QED
    BY <2>1, <2>2, <2>3, Zenon
<1>6. ASSUME NEW t \in Starters, Exit(t) PROVE TypeOK'
  BY <1>6, Zenon DEF Exit
<1>7. ASSUME NEW t \in Starters, Watch(t) PROVE TypeOK'
  BY <1>7, Zenon DEF Watch
<1>8. ASSUME NEW t \in Starters, Publish(t) PROVE TypeOK'
  <2>1. slot' \in [Starters -> Starters \cup {Garbage}]
    <3>1. CASE elems \in Starters \ freedElems
      <4>1. slot' = [slot EXCEPT ![elems] = t]
        BY <1>8, <3>1, Zenon DEF Publish
      <4> QED
        BY <4>1, Zenon DEF TypeOK
    <3>2. CASE elems \notin Starters \ freedElems
      BY <1>8, <3>2, Zenon DEF Publish
    <3> QED
      BY <3>1, <3>2, Zenon
  <2>2. damage' \subseteq Damages /\ alive' \in BOOLEAN /\ pc' \in [Starters -> Labels]
    BY <1>8, Zenon DEF Publish
  <2> QED
    BY <1>8, <2>1, <2>2, Zenon DEF Publish
<1>9. ASSUME NEW t \in Starters, CheckBase(t) PROVE TypeOK'
  BY <1>9, Zenon DEF CheckBase
<1>10. ASSUME NEW t \in Starters, FreeBase(t) PROVE TypeOK'
  BY <1>10, Zenon DEF FreeBase
<1>15. ASSUME NEW t \in Starters, LoopExit(t) PROVE TypeOK'
  BY <1>15, Zenon DEF LoopExit
<1>16. ASSUME NEW t \in Starters, GotExit(t) PROVE TypeOK'
  BY <1>16, Zenon DEF GotExit
<1>11. ASSUME NEW t \in Starters, ClearBase(t) PROVE TypeOK'
  BY <1>11, Zenon DEF ClearBase
<1>12. ASSUME NEW t \in Starters, FreeElems(t) PROVE TypeOK'
  BY <1>12, Zenon DEF FreeElems
<1>13. ASSUME NEW t \in Starters, ForgetElems(t) PROVE TypeOK'
  BY <1>13, Zenon DEF ForgetElems
<1>14. CASE Bind
  BY <1>14, Zenon DEF Bind
<1> QED
  BY <1>1, <1>2, <1>3, <1>4, <1>5, <1>6, <1>7, <1>8, <1>9, <1>10, <1>11, <1>12, <1>13, <1>14,
     <1>15, <1>16, Zenon DEF Next, Start

\* A start that begins beside another is recorded as an overlap.
LEMMA AloneStep ==
  ASSUME TypeOK, AloneInv, Next PROVE AloneInv'
<1> USE SessionAssumption DEF At, Goto, heap, bases, Defined, Undefined, TypeOK, AloneInv, Running
<1>1. ASSUME NEW t \in Starters, Enter(t) PROVE AloneInv'
  BY <1>1, Zenon DEF Enter
<1>2. ASSUME NEW t \in Starters, AllocElems(t) PROVE AloneInv'
  BY <1>2, Zenon DEF AllocElems
<1>3. ASSUME NEW t \in Starters, NewBase(t) PROVE AloneInv'
  BY <1>3, Zenon DEF NewBase
<1>4. ASSUME NEW t \in Starters, ReadMode(t) PROVE AloneInv'
  BY <1>4, Zenon DEF ReadMode
<1>5. ASSUME NEW t \in Starters, Connect(t) PROVE AloneInv'
  BY <1>5, Zenon DEF Connect
<1>6. ASSUME NEW t \in Starters, Exit(t) PROVE AloneInv'
  BY <1>6, Zenon DEF Exit
<1>7. ASSUME NEW t \in Starters, Watch(t) PROVE AloneInv'
  BY <1>7, Zenon DEF Watch
<1>8. ASSUME NEW t \in Starters, Publish(t) PROVE AloneInv'
  BY <1>8, Zenon DEF Publish
<1>9. ASSUME NEW t \in Starters, CheckBase(t) PROVE AloneInv'
  BY <1>9 DEF CheckBase
<1>10. ASSUME NEW t \in Starters, FreeBase(t) PROVE AloneInv'
  BY <1>10, Zenon DEF FreeBase
<1>15. ASSUME NEW t \in Starters, LoopExit(t) PROVE AloneInv'
  BY <1>15, Zenon DEF LoopExit
<1>16. ASSUME NEW t \in Starters, GotExit(t) PROVE AloneInv'
  BY <1>16, Zenon DEF GotExit
<1>11. ASSUME NEW t \in Starters, ClearBase(t) PROVE AloneInv'
  BY <1>11 DEF ClearBase
<1>12. ASSUME NEW t \in Starters, FreeElems(t) PROVE AloneInv'
  BY <1>12, Zenon DEF FreeElems
<1>13. ASSUME NEW t \in Starters, ForgetElems(t) PROVE AloneInv'
  BY <1>13 DEF ForgetElems
<1>14. CASE Bind
  BY <1>14, Zenon DEF Bind
<1> QED
  BY <1>1, <1>2, <1>3, <1>4, <1>5, <1>6, <1>7, <1>8, <1>9, <1>10, <1>11, <1>12, <1>13, <1>14,
     <1>15, <1>16, Zenon DEF Next, Start

\* Without overlap no other thread writes what the running start uses.
LEMMA OwnStep ==
  ASSUME TypeOK, AloneInv, OwnInv, Next PROVE OwnInv'
<1> USE SessionAssumption DEF At, Goto, heap, bases, Defined, Undefined, TypeOK, AloneInv, OwnInv,
   Running
<1>1. ASSUME NEW t \in Starters, Enter(t) PROVE OwnInv'
  BY <1>1 DEF Enter
<1>2. ASSUME NEW t \in Starters, AllocElems(t) PROVE OwnInv'
  BY <1>2 DEF AllocElems
<1>3. ASSUME NEW t \in Starters, NewBase(t) PROVE OwnInv'
  BY <1>3 DEF NewBase
<1>4. ASSUME NEW t \in Starters, ReadMode(t) PROVE OwnInv'
  BY <1>4 DEF ReadMode
<1>5. ASSUME NEW t \in Starters, Connect(t) PROVE OwnInv'
  BY <1>5 DEF Connect
<1>6. ASSUME NEW t \in Starters, Exit(t) PROVE OwnInv'
  BY <1>6, Zenon DEF Exit
<1>7. ASSUME NEW t \in Starters, Watch(t) PROVE OwnInv'
  <2>1. /\ pc[t] = "watch" /\ pc' = [pc EXCEPT ![t] = "publish"]
        /\ watched' = [watched EXCEPT ![t] = client_event_base]
        /\ UNCHANGED <<elems, freedElems, client_event_base, freedBases, overlap>>
    BY <1>7, Zenon DEF Watch
  <2>2. pc'[t] = "publish" /\ \A u \in Starters : u # t => pc'[u] = pc[u]
    BY <2>1
  <2>3. watched'[t] = client_event_base /\ \A u \in Starters : u # t => watched'[u] = watched[u]
    BY <2>1, Zenon
  <2> QED
    BY <2>1, <2>2, <2>3
<1>8. ASSUME NEW t \in Starters, Publish(t) PROVE OwnInv'
  BY <1>8, Zenon DEF Publish
<1>9. ASSUME NEW t \in Starters, CheckBase(t) PROVE OwnInv'
  BY <1>9 DEF CheckBase
<1>10. ASSUME NEW t \in Starters, FreeBase(t) PROVE OwnInv'
  <2> SUFFICES ASSUME ~overlap PROVE OwnInv'
    BY <1>10, Zenon DEF FreeBase
  <2>1. client_event_base = t /\ t \notin freedBases
    BY <1>10, Zenon DEF FreeBase
  <2>2. freedBases' = freedBases \cup {t} /\ pc' = [pc EXCEPT ![t] = "clear"]
    BY <1>10, <2>1, Zenon DEF FreeBase
  <2>3. UNCHANGED <<elems, freedElems, client_event_base, watched, overlap>>
    BY <1>10, Zenon DEF FreeBase
  <2> QED
    BY <1>10, <2>1, <2>2, <2>3 DEF FreeBase
<1>15. ASSUME NEW t \in Starters, LoopExit(t) PROVE OwnInv'
  BY <1>15, Zenon DEF LoopExit
<1>16. ASSUME NEW t \in Starters, GotExit(t) PROVE OwnInv'
  BY <1>16, Zenon DEF GotExit
<1>11. ASSUME NEW t \in Starters, ClearBase(t) PROVE OwnInv'
  BY <1>11 DEF ClearBase
<1>12. ASSUME NEW t \in Starters, FreeElems(t) PROVE OwnInv'
  BY <1>12, Zenon DEF FreeElems
<1>13. ASSUME NEW t \in Starters, ForgetElems(t) PROVE OwnInv'
  BY <1>13 DEF ForgetElems
<1>14. CASE Bind
  BY <1>14, Zenon DEF Bind
<1> QED
  BY <1>1, <1>2, <1>3, <1>4, <1>5, <1>6, <1>7, <1>8, <1>9, <1>10, <1>11, <1>12, <1>13, <1>14,
     <1>15, <1>16, Zenon DEF Next, Start

\* What the running start owns it uses while it is allocated.
LEMMA DamageStep ==
  ASSUME TypeOK, OwnInv, SequentialStartsSafe, Next PROVE SequentialStartsSafe'
<1> USE SessionAssumption DEF At, Goto, heap, bases, Defined, Undefined, TypeOK, OwnInv,
   SequentialStartsSafe
<1>1. ASSUME NEW t \in Starters, Enter(t) PROVE SequentialStartsSafe'
  BY <1>1, Zenon DEF Enter
<1>2. ASSUME NEW t \in Starters, AllocElems(t) PROVE SequentialStartsSafe'
  BY <1>2, Zenon DEF AllocElems
<1>3. ASSUME NEW t \in Starters, NewBase(t) PROVE SequentialStartsSafe'
  BY <1>3, Zenon DEF NewBase
<1>4. ASSUME NEW t \in Starters, ReadMode(t) PROVE SequentialStartsSafe'
  BY <1>4, Zenon DEF ReadMode
<1>5. ASSUME NEW t \in Starters, Connect(t) PROVE SequentialStartsSafe'
  BY <1>5, Zenon DEF Connect
<1>6. ASSUME NEW t \in Starters, Exit(t) PROVE SequentialStartsSafe'
  BY <1>6, Zenon DEF Exit
<1>7. ASSUME NEW t \in Starters, Watch(t) PROVE SequentialStartsSafe'
  BY <1>7, Zenon DEF Watch
<1>8. ASSUME NEW t \in Starters, Publish(t) PROVE SequentialStartsSafe'
  BY <1>8, Zenon DEF Publish
<1>9. ASSUME NEW t \in Starters, CheckBase(t) PROVE SequentialStartsSafe'
  BY <1>9, Zenon DEF CheckBase
<1>10. ASSUME NEW t \in Starters, FreeBase(t) PROVE SequentialStartsSafe'
  BY <1>10, Zenon DEF FreeBase
<1>15. ASSUME NEW t \in Starters, LoopExit(t) PROVE SequentialStartsSafe'
  BY <1>15, Zenon DEF LoopExit
<1>16. ASSUME NEW t \in Starters, GotExit(t) PROVE SequentialStartsSafe'
  BY <1>16, Zenon DEF GotExit
<1>11. ASSUME NEW t \in Starters, ClearBase(t) PROVE SequentialStartsSafe'
  BY <1>11, Zenon DEF ClearBase
<1>12. ASSUME NEW t \in Starters, FreeElems(t) PROVE SequentialStartsSafe'
  BY <1>12, Zenon DEF FreeElems
<1>13. ASSUME NEW t \in Starters, ForgetElems(t) PROVE SequentialStartsSafe'
  BY <1>13, Zenon DEF ForgetElems
<1>14. CASE Bind
  BY <1>14, Zenon DEF Bind
<1> QED
  BY <1>1, <1>2, <1>3, <1>4, <1>5, <1>6, <1>7, <1>8, <1>9, <1>10, <1>11, <1>12, <1>13, <1>14,
     <1>15, <1>16, Zenon DEF Next, Start

\* Only a failing start frees elems, and the last to replace it stores into it.
LEMMA ElemsStep ==
  ASSUME TypeOK, ElemsInv, Next PROVE ElemsInv'
<1> USE SessionAssumption DEF At, Goto, heap, bases, Defined, Undefined, TypeOK, ElemsInv, Failed
<1>1. ASSUME NEW t \in Starters, Enter(t) PROVE ElemsInv'
  BY <1>1, Zenon DEF Enter
<1>2. ASSUME NEW t \in Starters, AllocElems(t) PROVE ElemsInv'
  <2>1. pc[t] = "elems" /\ elems' = t /\ UNCHANGED <<slot, freedElems, damage>>
    BY <1>2, Zenon DEF AllocElems
  <2>2. pc'[t] = "base" /\ \A u \in Starters : u # t => pc'[u] = pc[u]
    BY <1>2, Zenon DEF AllocElems
  <2> QED
    BY <2>1, <2>2, Zenon
<1>3. ASSUME NEW t \in Starters, NewBase(t) PROVE ElemsInv'
  BY <1>3, Zenon DEF NewBase
<1>4. ASSUME NEW t \in Starters, ReadMode(t) PROVE ElemsInv'
  BY <1>4, Zenon DEF ReadMode
<1>5. ASSUME NEW t \in Starters, Connect(t) PROVE ElemsInv'
  <2>1. /\ Goto(t, "watch") \/ Goto(t, "free")
        /\ alive /\ pc[t] = "connect"
        /\ UNCHANGED <<c2c, mode, elems, slot, freedElems, client_event_base, freedBases, watched,
                       damage, overlap, alive>>
    BY <1>5, ZenonT(30) DEF Connect
  <2>2. CASE Goto(t, "watch")
    BY <2>1, <2>2, Zenon
  <2>3. CASE Goto(t, "free")
    BY <2>1, <2>3, Zenon
  <2> QED
    BY <2>1, <2>2, <2>3, Zenon
<1>6. ASSUME NEW t \in Starters, Exit(t) PROVE ElemsInv'
  BY <1>6, Zenon DEF Exit
<1>7. ASSUME NEW t \in Starters, Watch(t) PROVE ElemsInv'
  BY <1>7, Zenon DEF Watch
<1>8. ASSUME NEW t \in Starters, Publish(t) PROVE ElemsInv'
  <2>1. pc[t] = "publish" /\ UNCHANGED <<elems, freedElems>>
    BY <1>8, Zenon DEF Publish
  <2>2. pc'[t] = "check" /\ \A u \in Starters : u # t => pc'[u] = pc[u]
    BY <1>8, Zenon DEF Publish
  <2>3. SUFFICES ASSUME ~Failed PROVE ElemsInv'
    BY <2>1, <2>2, Zenon
  <2>4. elems \in Starters /\ freedElems = {}
    BY <2>1, <2>3, Zenon
  <2>5. slot' = [slot EXCEPT ![elems] = t] /\ damage' = damage
    BY <1>8, <2>4, Zenon DEF Publish
  <2>6. slot'[elems] # Garbage
    BY <2>4, <2>5, Zenon
  <2> QED
    BY <2>1, <2>2, <2>3, <2>4, <2>5, <2>6, Zenon
<1>9. ASSUME NEW t \in Starters, CheckBase(t) PROVE ElemsInv'
  BY <1>9, Zenon DEF CheckBase
<1>10. ASSUME NEW t \in Starters, FreeBase(t) PROVE ElemsInv'
  BY <1>10, Zenon DEF FreeBase
<1>15. ASSUME NEW t \in Starters, LoopExit(t) PROVE ElemsInv'
  BY <1>15, Zenon DEF LoopExit
<1>16. ASSUME NEW t \in Starters, GotExit(t) PROVE ElemsInv'
  BY <1>16, Zenon DEF GotExit
<1>11. ASSUME NEW t \in Starters, ClearBase(t) PROVE ElemsInv'
  BY <1>11, Zenon DEF ClearBase
<1>12. ASSUME NEW t \in Starters, FreeElems(t) PROVE ElemsInv'
  BY <1>12, Zenon DEF FreeElems
<1>13. ASSUME NEW t \in Starters, ForgetElems(t) PROVE ElemsInv'
  BY <1>13, Zenon DEF ForgetElems
<1>14. CASE Bind
  BY <1>14, Zenon DEF Bind
<1> QED
  BY <1>1, <1>2, <1>3, <1>4, <1>5, <1>6, <1>7, <1>8, <1>9, <1>10, <1>11, <1>12, <1>13, <1>14,
     <1>15, <1>16, Zenon DEF Next, Start

\* A step that changes nothing keeps the invariant.
LEMMA Stutter == ASSUME IInv, UNCHANGED vars PROVE IInv'
<1> USE DEF vars, heap, bases
<1>1. TypeOK'
  BY Zenon DEF IInv, TypeOK
<1>2. AloneInv'
  BY Zenon DEF IInv, AloneInv, Running
<1>3. OwnInv'
  BY Zenon DEF IInv, OwnInv
<1>4. SequentialStartsSafe'
  BY Zenon DEF IInv, SequentialStartsSafe
<1>5. ElemsInv'
  BY Zenon DEF IInv, ElemsInv, Failed
<1> QED
  BY <1>1, <1>2, <1>3, <1>4, <1>5, Zenon DEF IInv

\* The inductive invariant holds in every reachable state.
THEOREM SessionInvariance == Spec => []IInv
<1>1. IInv /\ [Next]_vars => IInv'
  <2> SUFFICES ASSUME IInv, [Next]_vars PROVE IInv'
    BY Zenon
  <2>1. CASE Next
    BY <2>1, TypeStep, AloneStep, OwnStep, DamageStep, ElemsStep, Zenon DEF IInv
  <2>2. CASE UNCHANGED vars
    BY <2>2, Stutter, Zenon
  <2> QED
    BY <2>1, <2>2, Zenon
<1> QED
  BY <1>1, InitInv, PTL DEF Spec

\* The state keeps its shape: the globals name an array, a base or nothing.
THEOREM SessionTypeCorrect == Spec => []TypeOK
<1>1. IInv => TypeOK
  BY Zenon DEF IInv
<1> QED
  BY <1>1, SessionInvariance, PTL

\* However many starts run one after the other, start_p2p_client makes no
\* undefined access.
THEOREM SequentialSafe == Spec => []SequentialStartsSafe
<1>1. IInv => SequentialStartsSafe
  BY Zenon DEF IInv
<1> QED
  BY <1>1, SessionInvariance, PTL

\* However many starts overlap, elems is misused only after a failing start.
THEOREM ElemsCorrect == Spec => []ElemsLostByFailure
<1>1. IInv => ElemsLostByFailure
  BY Zenon DEF IInv, ElemsInv, Failed, ElemsLostByFailure
<1> QED
  BY <1>1, SessionInvariance, PTL

\* However many starts overlapped, once they are over and none has failed,
\* bind_client finds a session.
THEOREM BindableCorrect == Spec => []BindableAfterStarts
<1>1. IInv => BindableAfterStarts
  BY Zenon DEF IInv, TypeOK, ElemsInv, Failed, BindableAfterStarts, Bindable
<1> QED
  BY <1>1, SessionInvariance, PTL

\* Bases made by starts that did not overlap are freed exactly once.
THEOREM BasesCorrect == Spec => []BasesAccounted
<1>1. IInv => BasesAccounted
  BY Zenon DEF IInv, OwnInv, BasesAccounted
<1> QED
  BY <1>1, SessionInvariance, PTL

\* No event of a completed start is left to read the socket a bind reads.
THEOREM SoleReaderCorrect == Spec => []SoleReader
<1>1. IInv => SoleReader
  BY Zenon DEF IInv, OwnInv, SoleReader
<1> QED
  BY <1>1, SessionInvariance, PTL

-------------------------------------------------------------------------------
(* TurnTransaction: for any number of cycles, transactions and network
   faults. *)

\* What recv_buffer knows in each of its places: a wait that has gone through
\* `cycle' timeouts has sent at least as many copies, and the receive is
\* entered with data or after the last cycle.
ClientInv ==
  /\ RetransmissionBound
  /\ BlocksOnlyExhausted
  /\ phase # "idle" => cur > 0 /\ sent > cycle

\* Every datagram that carries a transaction id of the client is the answer to
\* the request with that id.
Genuine(m) == m.tid # 0 => (m.tid \in served /\ m.method = script[m.tid])

NetworkInv ==
  /\ \A r \in requests : r.tid <= cur
  /\ \A m \in replies : Genuine(m)
  /\ \A i \in 1..Len(rcvd) : Genuine(rcvd[i])

TxIInv == TxTypeOK /\ ClientInv /\ NetworkInv

-------------------------------------------------------------------------------
\* What Append, Head and Tail do to the queue of a socket.
LEMMA QueueFacts ==
  ASSUME NEW S, NEW q \in Seq(S)
  PROVE  /\ \A e \in S : /\ Append(q, e) \in Seq(S)
                         /\ Len(Append(q, e)) = Len(q) + 1
                         /\ \A i \in 1..Len(q) : Append(q, e)[i] = q[i]
                         /\ Append(q, e)[Len(q) + 1] = e
         /\ q # <<>> => /\ Head(q) \in S
                        /\ Head(q) = q[1]
                        /\ Len(q) >= 1
                        /\ Tail(q) \in Seq(S)
                        /\ Len(Tail(q)) = Len(q) - 1
                        /\ \A i \in 1..Len(Tail(q)) : Tail(q)[i] = q[i+1]
  OBVIOUS

\* Nothing has been sent.
LEMMA TxInitInv == TxInit => TxIInv
BY TxAssumption DEF TxInit, TxIInv, TxTypeOK, ClientInv, NetworkInv, RetransmissionBound,
   BlocksOnlyExhausted, Tids, Request, Message

\* Every step keeps the shape of the state.
LEMMA TxTypeStep == TxIInv /\ [TxNext]_txVars => TxTypeOK'
<1>. SUFFICES ASSUME TxIInv, [TxNext]_txVars PROVE TxTypeOK'
  BY Zenon
<1>. USE TxAssumption DEF TxIInv, TxTypeOK, Tids
<1>1. CASE Issue
  BY <1>1 DEF Issue, Send, Request
<1>2. CASE IssueFails
  <2>1. /\ cur' = cur + 1 /\ cur < NumTx /\ ret' = "error"
        /\ UNCHANGED <<script, selectable, phase, cycle, sent, strays, requests, replies, rcvd,
                       served, lost, noise>>
    BY <1>2, Zenon DEF IssueFails, network
  <2>2. cur' \in 0..NumTx
    BY <2>1
  <2>. QED
    BY <2>1, <2>2, Zenon
<1>3. CASE SelectReady
  BY <1>3, Zenon DEF SelectReady, network
<1>4. CASE SelectTimeout
  BY <1>4 DEF SelectTimeout, Send, Request, ClientInv
<1>5. CASE SelectError
  BY <1>5, Zenon DEF SelectError, Return, network
<1>6. CASE CyclesExhausted
  BY <1>6, Zenon DEF CyclesExhausted, network
<1>7. CASE Recv
  <2>1. rcvd' \in Seq(Message)
    BY <1>7, QueueFacts, Zenon DEF Recv
  <2>2. /\ phase' \in {"idle", "select"} /\ ret' \in {ret, "error", "reply"}
        /\ cycle' \in {cycle, 0} /\ strays' \in {strays, strays + 1}
    BY <1>7, Zenon DEF Recv, Return
  <2>3. UNCHANGED <<script, selectable, cur, sent, requests, replies, served, lost, noise>>
    BY <1>7, Zenon DEF Recv
  <2>. QED
    BY <2>1, <2>2, <2>3
<1>8. CASE RecvError
  BY <1>8, Zenon DEF RecvError, Return, network
<1>9. CASE ServerReplies
  <2>1. PICK r \in requests :
          /\ requests' = requests \ {r}
          /\ replies' = replies \cup
               {[tid |-> r.tid, method |-> script[r.tid], copy |-> r.copy]}
          /\ served' = served \cup {r.tid}
    BY <1>9, Zenon DEF ServerReplies
  <2>2. r.tid \in 1..NumTx /\ r.copy \in Nat
    BY Zenon DEF Request
  <2>3. [tid |-> r.tid, method |-> script[r.tid], copy |-> r.copy] \in Message
    BY <2>2 DEF Message
  <2>. QED
    BY <1>9, <2>1, <2>2, <2>3, Zenon DEF ServerReplies, client
<1>10. CASE Deliver
  BY <1>10, QueueFacts DEF Deliver, client
<1>11. CASE DeliverDuplicate
  BY <1>11, QueueFacts DEF DeliverDuplicate, client
<1>12. CASE Unsolicited
  <2>1. \A mth \in Methods \cup {"none"} : [tid |-> 0, method |-> mth, copy |-> 0] \in Message
    BY DEF Message
  <2>. QED
    BY <1>12, <2>1, QueueFacts DEF Unsolicited, client
<1>13. CASE Lose
  BY <1>13 DEF Lose, client
<1>14. CASE UNCHANGED txVars
  BY <1>14, Zenon DEF txVars, client, network
<1>. QED
  BY <1>1, <1>2, <1>3, <1>4, <1>5, <1>6, <1>7, <1>8, <1>9, <1>10, <1>11, <1>12, <1>13, <1>14, Zenon
     DEF TxNext, Client, Network

\* The copies sent follow the cycles, and recv is entered with something to take or
\* with every cycle used.
LEMMA ClientStep == TxIInv /\ [TxNext]_txVars => ClientInv'
<1>. SUFFICES ASSUME TxIInv, [TxNext]_txVars PROVE ClientInv'
  BY Zenon
<1>. USE TxAssumption DEF TxIInv, TxTypeOK, ClientInv, RetransmissionBound, BlocksOnlyExhausted
<1>1. CASE Issue
  BY <1>1 DEF Issue
<1>2. CASE IssueFails
  BY <1>2, Zenon DEF IssueFails, network
<1>3. CASE SelectReady
  BY <1>3, Zenon DEF SelectReady, network
<1>4. CASE SelectTimeout
  BY <1>4 DEF SelectTimeout
<1>5. CASE SelectError
  BY <1>5, Zenon DEF SelectError, Return, network
<1>6. CASE CyclesExhausted
  BY <1>6, Zenon DEF CyclesExhausted, network
<1>7. CASE Recv
  <2>1. MaxCycle * (strays + 1) = MaxCycle * strays + MaxCycle
    OBVIOUS
  <2>2. UNCHANGED <<selectable, cur, sent>> /\ phase = "recv" /\ rcvd # <<>>
    BY <1>7, Zenon DEF Recv
  <2>3. CASE phase' = "idle"
    BY <2>3, Zenon
  <2>4. CASE phase' = "select" /\ cycle' = 0 /\ strays' = strays + 1
    BY <2>1, <2>2, <2>4
  <2>. QED
    BY <1>7, <2>3, <2>4, Zenon DEF Recv, Return
<1>8. CASE RecvError
  BY <1>8, Zenon DEF RecvError, Return, network
<1>9. CASE ServerReplies
  BY <1>9, Zenon DEF ServerReplies, client
<1>10. CASE Deliver
  <2>1. rcvd' # <<>>
    BY <1>10, QueueFacts DEF Deliver
  <2>. QED
    BY <1>10, <2>1, Zenon DEF Deliver, client
<1>11. CASE DeliverDuplicate
  <2>1. rcvd' # <<>>
    BY <1>11, QueueFacts DEF DeliverDuplicate
  <2>. QED
    BY <1>11, <2>1, Zenon DEF DeliverDuplicate, client
<1>12. CASE Unsolicited
  <2>1. \A mth \in Methods \cup {"none"} : [tid |-> 0, method |-> mth, copy |-> 0] \in Message
    BY DEF Message
  <2>2. rcvd' # <<>>
    BY <1>12, <2>1, QueueFacts DEF Unsolicited
  <2>. QED
    BY <1>12, <2>2, Zenon DEF Unsolicited, client
<1>13. CASE Lose
  BY <1>13, Zenon DEF Lose, client
<1>14. CASE UNCHANGED txVars
  BY <1>14, Zenon DEF txVars, client, network
<1>. QED
  BY <1>1, <1>2, <1>3, <1>4, <1>5, <1>6, <1>7, <1>8, <1>9, <1>10, <1>11, <1>12, <1>13, <1>14, Zenon
     DEF TxNext, Client, Network

\* No step but the server's makes an answer: what arrives was on its way, or
\* carries no transaction id.
LEMMA GenuineKept ==
  ASSUME NetworkInv, UNCHANGED <<script, served>>,
         \A r \in requests' : r.tid <= cur', replies' \subseteq replies,
         \A i \in 1..Len(rcvd') : \/ \E j \in 1..Len(rcvd) : rcvd'[i] = rcvd[j]
                                  \/ rcvd'[i] \in replies
                                  \/ rcvd'[i].tid = 0
  PROVE  NetworkInv'
<1>1. \A m : Genuine(m) => Genuine(m)'
  BY Zenon DEF Genuine
<1>2. \A i \in 1..Len(rcvd') : Genuine(rcvd'[i])
  BY DEF NetworkInv, Genuine
<1>. QED
  BY <1>1, <1>2, Zenon DEF NetworkInv, Genuine

\* One more datagram in the socket.
LEMMA Arrives ==
  ASSUME rcvd \in Seq(Message), NEW m \in Message, rcvd' = Append(rcvd, m),
         NEW i \in 1..Len(rcvd')
  PROVE  (\E j \in 1..Len(rcvd) : rcvd'[i] = rcvd[j]) \/ rcvd'[i] = m
<1>1. /\ Len(rcvd') = Len(rcvd) + 1 /\ rcvd'[Len(rcvd) + 1] = m /\ Len(rcvd) \in Nat
      /\ \A j \in 1..Len(rcvd) : rcvd'[j] = rcvd[j]
  BY QueueFacts
<1>2. i \in 1..Len(rcvd) \/ i = Len(rcvd) + 1
  BY <1>1
<1>. QED
  BY <1>1, <1>2, Zenon

\* Every datagram with an id of the client stays an answer to that request.
LEMMA NetworkStep == TxIInv /\ [TxNext]_txVars => NetworkInv'
<1>. SUFFICES ASSUME TxIInv, [TxNext]_txVars PROVE NetworkInv'
  BY Zenon
<1>1. /\ NetworkInv /\ rcvd \in Seq(Message) /\ replies \subseteq Message
      /\ requests \subseteq Request /\ cur \in Nat /\ sent \in Nat
  BY TxAssumption DEF TxIInv, TxTypeOK
<1>2. \A r \in requests : r.tid \in Nat /\ r.tid <= cur /\ r.tid # 0
  BY <1>1, TxAssumption DEF NetworkInv, Request, Tids
<1>3. ASSUME UNCHANGED <<script, served, rcvd>>, \A r \in requests' : r.tid <= cur',
             replies' \subseteq replies
      PROVE  NetworkInv'
  BY <1>1, <1>3, GenuineKept, Zenon
<1>4. CASE Issue \/ IssueFails \/ SelectTimeout
  <2>1. /\ UNCHANGED <<script, served, rcvd, replies>> /\ cur' \in {cur, cur + 1}
        /\ \A r \in requests' : r \in requests \/ r.tid = cur'
    BY <1>4 DEF Issue, IssueFails, SelectTimeout, Send, network
  <2>2. \A r \in requests' : r.tid <= cur'
    BY <1>1, <1>2, <2>1
  <2>. QED
    BY <1>3, <2>1, <2>2, Zenon
<1>5. CASE SelectReady \/ SelectError \/ CyclesExhausted \/ RecvError \/ UNCHANGED txVars
  <2>1. UNCHANGED <<script, served, rcvd, requests, replies, cur>>
    BY <1>5, Zenon DEF SelectReady, SelectError, CyclesExhausted, RecvError, network, client, txVars
  <2>. QED
    BY <1>2, <1>3, <2>1, Zenon
<1>6. CASE Recv
  <2>1. UNCHANGED <<script, served, requests, replies, cur>> /\ rcvd' = Tail(rcvd) /\ rcvd # <<>>
    BY <1>6, Zenon DEF Recv
  <2>2. \A i \in 1..Len(rcvd') : rcvd'[i] = rcvd[i + 1] /\ i + 1 \in 1..Len(rcvd)
    BY <1>1, <2>1, QueueFacts
  <2>. QED
    BY <1>1, <1>2, <2>1, <2>2, GenuineKept, Zenon
<1>7. CASE ServerReplies
  <2>1. PICK r \in requests :
          /\ requests' = requests \ {r} /\ served' = served \cup {r.tid}
          /\ replies' = replies \cup {[tid |-> r.tid, method |-> script[r.tid], copy |-> r.copy]}
          /\ UNCHANGED <<script, cur, rcvd>>
    BY <1>7, Zenon DEF ServerReplies, client
  <2>2. \A m : Genuine(m) => (m.tid # 0 => m.tid \in served' /\ m.method = script'[m.tid])
    BY <2>1, Zenon DEF Genuine
  <2>. QED
    BY <1>1, <1>2, <2>1, <2>2 DEF NetworkInv, Genuine
<1>8. CASE Deliver \/ DeliverDuplicate
  <2>1. PICK m \in replies :
          rcvd' = Append(rcvd, m) /\ replies' \subseteq replies
          /\ UNCHANGED <<script, served, requests, cur>>
    BY <1>8, Zenon DEF Deliver, DeliverDuplicate, client
  <2>2. m \in Message
    BY <1>1, Zenon
  <2>3. \A i \in 1..Len(rcvd') : (\E j \in 1..Len(rcvd) : rcvd'[i] = rcvd[j]) \/ rcvd'[i] = m
    BY <1>1, <2>1, <2>2, Arrives, Zenon
  <2>. QED
    BY <1>1, <1>2, <2>1, <2>3, GenuineKept, Zenon
<1>9. CASE Unsolicited
  <2>1. PICK mth \in Methods \cup {"none"} :
          rcvd' = Append(rcvd, [tid |-> 0, method |-> mth, copy |-> 0])
    BY <1>9, Zenon DEF Unsolicited
  <2>. DEFINE m == [tid |-> 0, method |-> mth, copy |-> 0]
  <2>2. m \in Message /\ m.tid = 0 /\ rcvd' = Append(rcvd, m)
    BY <2>1, TxAssumption DEF Message
  <2>. HIDE DEF m
  <2>3. \A i \in 1..Len(rcvd') : (\E j \in 1..Len(rcvd) : rcvd'[i] = rcvd[j]) \/ rcvd'[i] = m
    BY <1>1, <2>2, Arrives, Zenon
  <2>4. UNCHANGED <<script, served, requests, cur, replies>>
    BY <1>9, Zenon DEF Unsolicited, client
  <2>. QED
    BY <1>1, <1>2, <2>2, <2>3, <2>4, GenuineKept, Zenon
<1>10. CASE Lose
  <2>1. UNCHANGED <<script, served, rcvd, cur>> /\ requests' \subseteq requests /\ replies' \subseteq replies
    BY <1>10, Zenon DEF Lose, client
  <2>. QED
    BY <1>2, <1>3, <2>1, Zenon
<1>. QED
  BY <1>4, <1>5, <1>6, <1>7, <1>8, <1>9, <1>10, Zenon DEF TxNext, Client, Network

\* The inductive invariant of the transaction layer, for any number of cycles,
\* transactions and network faults.
THEOREM TxInvariance == TxSpec => []TxIInv
<1>1. TxIInv /\ [TxNext]_txVars => TxIInv'
  BY TxTypeStep, ClientStep, NetworkStep, Zenon DEF TxIInv
<1>. QED
  BY TxInitInv, <1>1, PTL DEF TxSpec

\* The state TxTypeOK describes is the only kind of state the transaction code
\* can reach.
THEOREM TxTypeCorrect == TxSpec => []TxTypeOK
<1>1. TxIInv => TxTypeOK
  BY Zenon DEF TxIInv
<1>. QED
  BY TxInvariance, <1>1, PTL

\* However many datagrams recv_buffer skips, it never sends more than MaxCycle
\* copies of a request per skipped datagram and per wait.
THEOREM RetransmissionCorrect == TxSpec => []RetransmissionBound
<1>1. TxIInv => RetransmissionBound
  BY Zenon DEF TxIInv, ClientInv
<1>. QED
  BY TxInvariance, <1>1, PTL

\* recv_buffer's recv without a timeout is entered on an empty socket only
\* when all the copies of the request have been sent.
THEOREM BlockingCorrect == TxSpec => []BlocksOnlyExhausted
<1>1. TxIInv => BlocksOnlyExhausted
  BY Zenon DEF TxIInv, ClientInv
<1>. QED
  BY TxInvariance, <1>1, PTL

-------------------------------------------------------------------------------
\* A step of recv_buffer or of the network is a step of the remote call, or none.
LEMMA StepRefines == TxIInv /\ [TxNext]_txVars => [Abstract!ENext]_(Abstract!evars)
<1>. SUFFICES ASSUME TxIInv, [TxNext]_txVars PROVE [Abstract!ENext]_(Abstract!evars)
  BY Zenon
<1>. USE TxAssumption DEF TxIInv, TxTypeOK, Abstract!ENext, Abstract!evars
<1>1. CASE Issue
  BY <1>1, Zenon DEF Issue, Abstract!Call
<1>2. CASE IssueFails
  BY <1>2, Zenon DEF IssueFails, network, Abstract!CallFails
<1>3. CASE SelectReady \/ SelectTimeout \/ CyclesExhausted
  BY <1>3, Zenon DEF SelectReady, SelectTimeout, CyclesExhausted, network
<1>4. CASE SelectError \/ RecvError
  BY <1>4, Zenon DEF SelectError, RecvError, Return, network, Abstract!ReturnError
<1>7. CASE Recv
  <2>1. CASE Return("error")
    BY <1>7, <2>1, Zenon DEF Recv, Return, Abstract!ReturnError
  <2>2. CASE Matches(Head(rcvd)) /\ Return("reply")
    <3>1. Genuine(Head(rcvd))
      BY <1>7, QueueFacts DEF Recv, NetworkInv
    <3>2. cur \in served
      BY <1>7, <2>2, <3>1 DEF Recv, Matches, Genuine, ClientInv
    <3>. QED
      BY <1>7, <2>2, <3>2, Zenon DEF Recv, Return, Abstract!ReturnReply
  <2>3. CASE phase' = "select" /\ UNCHANGED ret
    BY <1>7, <2>3, Zenon DEF Recv
  <2>. QED
    BY <1>7, <2>1, <2>2, <2>3, Zenon DEF Recv
<1>9. CASE ServerReplies
  BY <1>9 DEF ServerReplies, client, NetworkInv, Request, Tids, Abstract!Answer
<1>10. CASE Deliver \/ DeliverDuplicate \/ Unsolicited \/ Lose
  BY <1>10, Zenon DEF Deliver, DeliverDuplicate, Unsolicited, Lose, client
<1>14. CASE UNCHANGED txVars
  BY <1>14, Zenon DEF txVars, client, network
<1>. QED
  BY <1>1, <1>2, <1>3, <1>4, <1>7, <1>9, <1>10, <1>14, Zenon DEF TxNext, Client, Network

\* send_buffer and recv_buffer implement the remote call of module Exchange:
\* every reply handed to a caller is the server's answer to that very call.
THEOREM Refinement == TxSpec => ImplementsExchange
<1>1. TxInit => Abstract!EInit
  BY Zenon DEF TxInit, Abstract!EInit
<1>. QED
  BY <1>1, TxInvariance, StepRefines, PTL DEF TxSpec, ImplementsExchange, Abstract!ESpec

-------------------------------------------------------------------------------
(* TcpFraming: for any messages, widths and segments.  The sum of the sizes is
   carried along as a function from places in the stream to offsets (Ends), as
   long as the stream is on a message boundary. *)

\* Where each message of the stream s ends, and that the last end is all that is
\* unread: the sum of the sizes, as a function that goes along with the stream.
Ends(f, s, u) ==
  /\ f \in [0 .. Len(s) -> Int] /\ f[0] = 0 /\ f[Len(s)] = u
  /\ \A i \in 1 .. Len(s) : f[i] = f[i - 1] + WireSize(s[i])

Counted == \E f : Ends(f, stream, unread)

TcpInv == TcpTypeOK /\ NeverWaits /\ (skew = 0 => Counted)

TcpWhole == TcpInv /\ Framed /\ GivesUpOnPiece

\* The messages that were returned.
Returned == [i \in 1 .. Len(got) |-> got[i].message]

\* The sizes of any message; whatever it says of its length, no more is taken for
\* it than there is.
LEMMA Sizes ==
  ASSUME NEW m \in Messages
  PROVE  /\ WireSize(m) \in Nat /\ AppLen(m) % Mod \in 0 .. Mod - 1
         /\ \A n \in Nat : MessageLen(m, n) \in Int /\ MessageLen(m, n) <= n
<1>1. m.len \in Nat /\ m.kind \in {"stun", "channel"} /\ Mod \in Nat \ {0}
  BY FramingAssumption
<1>2. ASSUME NEW n \in Nat PROVE Padded(n) \in Nat
  BY DEF Padded
<1>3. ASSUME NEW n \in Nat PROVE n % Mod \in 0 .. Mod - 1
  BY <1>1
<1>4. WireSize(m) \in Nat /\ AppLen(m) \in Nat
  BY <1>1, <1>2 DEF WireSize, AppLen
<1>5. ASSUME NEW n \in Nat PROVE MessageLen(m, n) \in Int /\ MessageLen(m, n) <= n
  <2>1. (m.len + 20) % Mod \in Int
    BY <1>1, <1>3
  <2>2. Padded((4 + m.len) % Mod) % Mod \in Int
    <3>1. (4 + m.len) % Mod \in Nat
      BY <1>1, <1>3
    <3> QED
      BY <3>1, <1>1, <1>2, <1>3
  <2> QED
    BY <2>1, <2>2 DEF MessageLen
<1> QED
  BY <1>3, <1>4, <1>5, Zenon

\* The sizes of a message that fits are not changed by the arithmetic of the code,
\* and it is taken as soon as it is there.
LEMMA FitSizes ==
  ASSUME NEW m \in Messages, Fit(m)
  PROVE  /\ AppLen(m) % Mod = AppLen(m) /\ WireSize(m) > 0
         /\ \A n \in Nat : MessageLen(m, n) = IF WireSize(m) <= n THEN WireSize(m) ELSE -1
<1>1. /\ m.len \in Nat /\ m.kind \in {"stun", "channel"} /\ Mod \in Nat /\ WireSize(m) < Mod
      /\ m.kind = "stun" => m.len % 4 = 0
  BY FramingAssumption DEF Fit
<1>2. ASSUME NEW n \in Nat PROVE Padded(n) \in Nat /\ n <= Padded(n) /\ Padded(4 + n) = 4 + Padded(n)
  BY DEF Padded
<1>3. ASSUME NEW n \in Nat, n < Mod PROVE n % Mod = n
  BY <1>1, <1>3
<1>4. CASE m.kind = "stun"
  <2>1. WireSize(m) = m.len + 20 /\ AppLen(m) = m.len + 20
    BY <1>1, <1>4 DEF WireSize, AppLen
  <2>2. (m.len + 20) % Mod = m.len + 20
    BY <2>1, <1>1, <1>3
  <2> QED
    BY <2>1, <2>2, <1>1, <1>4 DEF MessageLen
<1>5. CASE m.kind = "channel"
  <2>1. WireSize(m) = 4 + Padded(m.len) /\ AppLen(m) = 4 + m.len
    BY <1>1, <1>5, Zenon DEF WireSize, AppLen
  <2>2. 4 + m.len < Mod /\ 4 + m.len \in Nat /\ WireSize(m) >= 4
    BY <2>1, <1>1, <1>2
  <2>3. (4 + m.len) % Mod = 4 + m.len
    BY <2>2, <1>3, Zenon
  <2>4. Padded(4 + m.len) = WireSize(m) /\ WireSize(m) \in Nat
    BY <2>1, <1>1, <1>2
  <2>5. Padded(4 + m.len) % Mod = WireSize(m)
    BY <2>4, <1>1, <1>3, Zenon
  <2> QED
    BY <2>1, <2>2, <2>3, <2>4, <2>5, <1>1, <1>5 DEF MessageLen
<1> QED
  BY <1>1, <1>4, <1>5, Zenon

\* Taking the first message off one sequence and putting it at the end of the
\* other leaves their concatenation as it is.
LEMMA MovesOver ==
  ASSUME NEW S, NEW a \in Seq(S), NEW s \in Seq(S), s # <<>>
  PROVE  Append(a, Head(s)) \o Tail(s) = a \o s
<1>1. /\ Head(s) \in S /\ Tail(s) \in Seq(S) /\ Len(s) \in Nat \ {0} /\ Len(Tail(s)) = Len(s) - 1
      /\ \A i \in 1 .. Len(s) - 1 : Tail(s)[i] = s[i + 1]
      /\ Head(s) = s[1]
  OBVIOUS
<1> DEFINE b == Append(a, Head(s))
<1>2. b \in Seq(S) /\ Len(b) = Len(a) + 1 /\ b[Len(a) + 1] = s[1] /\ \A i \in 1 .. Len(a) : b[i] = a[i]
  BY <1>1
<1>3. Len(b \o Tail(s)) = Len(a \o s) /\ b \o Tail(s) \in Seq(S) /\ a \o s \in Seq(S)
  BY <1>1, <1>2
<1>4. ASSUME NEW i \in 1 .. Len(a \o s) PROVE (b \o Tail(s))[i] = (a \o s)[i]
  <2>1. CASE i <= Len(a)
    BY <2>1, <1>1, <1>2
  <2>2. CASE i = Len(a) + 1
    BY <2>2, <1>1, <1>2
  <2>3. CASE i > Len(a) + 1
    BY <2>3, <1>1, <1>2
  <2> QED
    BY <2>1, <2>2, <2>3
<1> QED
  BY <1>3, <1>4, SeqEqual, Zenon

\* What is written comes after what has been returned and what is unread.
LEMMA AppendsLast ==
  ASSUME NEW S, NEW a \in Seq(S), NEW s \in Seq(S), NEW e \in S
  PROVE  a \o Append(s, e) = Append(a \o s, e)
  OBVIOUS

\* An empty stream has no ends but 0.
LEMMA TcpInitInv == TcpInit => TcpWhole
<1> SUFFICES ASSUME TcpInit PROVE TcpWhole
  BY Zenon
<1>1. TcpTypeOK /\ NeverWaits
  BY DEF TcpInit, TcpTypeOK, NeverWaits
<1>2. Framed /\ GivesUpOnPiece
  BY DEF TcpInit, Framed, GivesUpOnPiece
<1>3. Ends([i \in 0 .. 0 |-> 0], stream, unread)
  BY DEF TcpInit, Ends
<1> QED
  BY <1>1, <1>2, <1>3, Zenon DEF TcpWhole, TcpInv, Counted

\* The end of a message that is written goes to the end of the ends.
LEMMA SendsCounted ==
  ASSUME TcpInv, Counted, NEW m \in Messages, stream' = Append(stream, m),
         unread' = unread + WireSize(m)
  PROVE  Counted'
<1>3. WireSize(m) \in Nat
  BY Sizes, Zenon
<1>6. PICK f : Ends(f, stream, unread)
  BY Zenon DEF Counted
<1> DEFINE n == Len(stream)
           g == [i \in 0 .. n + 1 |-> IF i = n + 1 THEN unread + WireSize(m) ELSE f[i]]
<1>7. /\ stream \in Seq(Messages) /\ n \in Nat /\ unread \in Nat
      /\ Len(stream') = n + 1 /\ stream'[n + 1] = m
      /\ \A i \in 1 .. n : stream'[i] = stream[i]
  BY DEF TcpInv, TcpTypeOK
<1>8. /\ f \in [0 .. n -> Int] /\ f[0] = 0 /\ f[n] = unread
      /\ \A i \in 1 .. n : f[i] = f[i - 1] + WireSize(stream[i])
  BY <1>6, Zenon DEF Ends
<1>9. g \in [0 .. n + 1 -> Int] /\ g[0] = 0 /\ g[n + 1] = unread'
  BY <1>3, <1>7, <1>8
<1>10. ASSUME NEW i \in 1 .. n + 1 PROVE g[i] = g[i - 1] + WireSize(stream'[i])
  <2>1. CASE i = n + 1
    BY <2>1, <1>3, <1>7, <1>8
  <2>2. CASE i # n + 1
    <3>1. i \in 1 .. n /\ i - 1 \in 0 .. n /\ i - 1 # n + 1
      BY <2>2, <1>7
    <3>2. g[i] = f[i] /\ g[i - 1] = f[i - 1] /\ stream'[i] = stream[i]
      BY <3>1, <1>7
    <3> QED
      BY <3>1, <3>2, <1>8, Zenon
  <2> QED
    BY <2>1, <2>2, Zenon
<1> HIDE DEF g, n
<1>11. Ends(g, stream', unread')
  <2>1. 0 .. Len(stream') = 0 .. n + 1 /\ 1 .. Len(stream') = 1 .. n + 1
    BY <1>7, Zenon
  <2>2. \A i \in 1 .. Len(stream') : g[i] = g[i - 1] + WireSize(stream'[i])
    BY <2>1, <1>10, Zenon
  <2> QED
    <3>1. g[Len(stream')] = unread' /\ g \in [0 .. Len(stream') -> Int] /\ g[0] = 0
      BY <2>1, <1>7, <1>9, Zenon
    <3> QED
      BY <2>2, <3>1, Zenon DEF Ends
<1> QED
  BY <1>11, Zenon DEF Counted

\* Earlier on there were fewer messages to fit.
LEMMA FitBefore ==
  ASSUME TcpInv, [TcpNext]_tcpVars, AllFit'
  PROVE  AllFit
<1>1. CASE written' = written
  BY <1>1, Zenon DEF AllFit, Fit, WireSize, Padded
<1>2. CASE PeerSends
  <2>1. PICK m \in Messages : written' = Append(written, m)
    BY <1>2, Zenon DEF PeerSends
  <2>2. written \in Seq(Messages)
    BY Zenon DEF TcpInv, TcpTypeOK
  <2>3. \A i \in 1 .. Len(written) : i \in 1 .. Len(written') /\ written'[i] = written[i]
    BY <2>1, <2>2
  <2> QED
    BY <2>3, Zenon DEF AllFit, Fit, WireSize, Padded
<1> QED
  BY <1>1, <1>2, Zenon DEF TcpNext, Segment, TcpRecv, RecvAstray, Done, tcpVars

\* What was returned, and what is left.
LEMMA ReturnedSeq ==
  ASSUME TcpInv, AllFit, Framed
  PROVE  /\ Returned \in Seq(Messages) /\ stream \in Seq(Messages)
         /\ written = Returned \o stream
<1> DEFINE R == [message : Messages, len : 0 .. (Mod - 1)]
<1>1. got \in Seq(R) /\ stream \in Seq(Messages)
  BY Zenon DEF TcpInv, TcpTypeOK
<1>2. Len(got) \in Nat /\ \A i \in 1 .. Len(got) : got[i] \in R
  <2> HIDE DEF R
  <2> QED
    BY <1>1
<1>3. \A i \in 1 .. Len(got) : got[i].message \in Messages
  BY <1>2, Zenon
<1> HIDE DEF R
<1>4. Returned \in Seq(Messages)
  BY <1>2, <1>3 DEF Returned
<1> QED
  BY <1>1, <1>4, Zenon DEF Framed, Returned

\* A message that is written goes to the end of the stream.
LEMMA SendsInv == TcpWhole /\ PeerSends => TcpWhole'
<1> SUFFICES ASSUME TcpWhole, PeerSends PROVE TcpWhole'
  BY Zenon
<1>1. PICK m \in Messages : /\ written' = Append(written, m) /\ stream' = Append(stream, m)
                           /\ unread' = unread + WireSize(m)
  BY Zenon DEF PeerSends
<1>2. skew' = skew /\ avail' = avail /\ got' = got /\ tried' = tried
  BY Zenon DEF PeerSends
<1>3. WireSize(m) \in Nat
  BY Sizes, Zenon
<1>4. TcpTypeOK' /\ NeverWaits'
  BY <1>1, <1>2, <1>3 DEF TcpWhole, TcpInv, TcpTypeOK, NeverWaits
<1>5. AllFit' => AllFit
  BY FitBefore, Zenon DEF TcpWhole, TcpNext
<1>6. Framed'
  <2> SUFFICES ASSUME AllFit PROVE Framed'
    BY <1>5, Zenon DEF Framed
  <2>1. Returned \in Seq(Messages) /\ stream \in Seq(Messages) /\ written = Returned \o stream
    BY ReturnedSeq, Zenon DEF TcpWhole
  <2>2. Returned \o Append(stream, m) = Append(Returned \o stream, m)
    <3> HIDE DEF Returned
    <3> QED
      BY <2>1, AppendsLast
  <2>3. written' = Returned \o stream'
    BY <2>1, <2>2, <1>1, ZenonT(30)
  <2> QED
    BY <2>3, <1>2, Zenon DEF TcpWhole, Framed, Returned, AppLen
<1>7. GivesUpOnPiece'
  <2> SUFFICES ASSUME AllFit, tried > 0 PROVE GivesUpOnPiece'
    BY <1>2, <1>5, Zenon DEF GivesUpOnPiece
  <2>1. stream # <<>> /\ stream \in Seq(Messages) /\ tried < WireSize(Head(stream))
    BY Zenon DEF TcpWhole, TcpInv, TcpTypeOK, GivesUpOnPiece
  <2>2. stream' # <<>> /\ Head(stream') = Head(stream)
    BY <1>1, <2>1
  <2> QED
    BY <1>2, <2>1, <2>2, Zenon DEF GivesUpOnPiece, WireSize, Padded
<1>8. skew' = 0 => Counted'
  BY <1>1, <1>2, SendsCounted, Zenon DEF TcpWhole, TcpInv
<1> QED
  BY <1>4, <1>6, <1>7, <1>8, Zenon DEF TcpWhole, TcpInv

\* What is peeked at is there.
LEMMA PeekedThere ==
  ASSUME TcpInv, avail > 0
  PROVE  /\ Peeked \in Nat /\ Peeked <= avail /\ avail \in Nat /\ unread \in Nat /\ avail <= unread
         /\ skew = 0 => stream # <<>> /\ stream \in Seq(Messages) /\ Head(stream) \in Messages
<1>1. stream \in Seq(Messages) /\ unread \in Nat /\ avail \in 0 .. unread /\ Peek \in Nat
  BY FramingAssumption DEF TcpInv, TcpTypeOK, NeverWaits
<1>2. ASSUME skew = 0 PROVE stream # <<>>
  <2>1. PICK f : Ends(f, stream, unread)
    BY <1>2, Zenon DEF TcpInv, Counted
  <2>2. CASE stream = <<>>
    <3>1. Len(stream) = 0
      BY <2>2, Zenon
    <3>2. unread = 0
      BY <3>1, <2>1, Zenon DEF Ends
    <3> QED
      BY <3>2, <1>1
  <2> QED
    BY <2>2, Zenon
<1>3. ASSUME stream # <<>> PROVE Head(stream) \in Messages
  BY <1>1, <1>3
<1>4. Peeked \in Nat /\ Peeked <= avail
  BY <1>1 DEF Peeked
<1> QED
  BY <1>1, <1>2, <1>3, <1>4

\* Taking the first message off the stream takes its end off the ends.
LEMMA TakenCounted ==
  ASSUME TcpInv, Counted, stream # <<>>, stream' = Tail(stream),
         unread' = unread - WireSize(Head(stream))
  PROVE  Counted'
<1> DEFINE m == Head(stream)
<1>1. stream \in Seq(Messages) /\ stream # <<>> /\ unread \in Nat
  BY Zenon DEF TcpInv, TcpTypeOK
<1>2. stream' = Tail(stream) /\ unread' = unread - WireSize(m)
  OBVIOUS
<1>3. WireSize(m) \in Nat
  BY <1>1, HeadTailProperties, Sizes, Zenon
<1> HIDE DEF m
<1>4. PICK f : Ends(f, stream, unread)
  BY Zenon DEF Counted
<1> DEFINE n == Len(stream)
           g == [i \in 0 .. n - 1 |-> f[i + 1] - WireSize(m)]
<1>5. /\ n \in Nat \ {0} /\ Len(stream') = n - 1 /\ stream[1] = m
      /\ \A i \in 1 .. n - 1 : stream'[i] = stream[i + 1]
  BY <1>1, <1>2 DEF m
<1>6. /\ f \in [0 .. n -> Int] /\ f[0] = 0 /\ f[n] = unread
       /\ \A i \in 1 .. n : f[i] = f[i - 1] + WireSize(stream[i])
  BY <1>4, Zenon DEF Ends
<1>7. g \in [0 .. n - 1 -> Int] /\ g[0] = 0 /\ g[n - 1] = unread'
  <2>1. f[1] = WireSize(m)
    BY <1>3, <1>5, <1>6
  <2>2. n \in Nat /\ WireSize(m) \in Int /\ \A i \in 0 .. n - 1 : i + 1 \in 0 .. n
    BY <1>3, <1>5
  <2>3. g \in [0 .. n - 1 -> Int]
    BY <2>2, <1>6
  <2>4. g[0] = f[1] - WireSize(m) /\ g[n - 1] = f[n] - WireSize(m)
    BY <1>5
  <2> HIDE DEF g, n
  <2> QED
    BY <2>1, <2>2, <2>3, <2>4, <1>2, <1>6
<1>8. ASSUME NEW i \in 1 .. n - 1 PROVE g[i] = g[i - 1] + WireSize(stream'[i])
  <2>1. /\ i + 1 \in 1 .. n /\ i \in 0 .. n - 1 /\ i - 1 \in 0 .. n - 1
        /\ (i + 1) - 1 = i /\ (i - 1) + 1 = i
    BY <1>5
  <2>2. f[i + 1] = f[i] + WireSize(stream'[i]) /\ f[i + 1] \in Int /\ f[i] \in Int
    <3>1. stream'[i] = stream[i + 1]
      BY <1>5, Zenon
    <3>2. f[i + 1] = f[(i + 1) - 1] + WireSize(stream[i + 1])
      BY <2>1, <1>6, Zenon
    <3>3. f[i + 1] \in Int /\ f[i] \in Int
      BY <2>1, <1>5, <1>6
    <3> HIDE DEF g, n
    <3> QED
      BY <2>1, <3>1, <3>2, <3>3, Zenon
  <2>3. WireSize(stream'[i]) \in Nat
    <3>1. stream'[i] \in Messages
      <4>1. stream'[i] = stream[i + 1]
        BY <1>5, Zenon
      <4>2. stream[i + 1] \in Messages
        BY <2>1, <1>1
      <4> QED
        BY <4>1, <4>2, Zenon
    <3> QED
      BY <3>1, Sizes, Zenon
  <2>4. g[i] = f[i + 1] - WireSize(m) /\ g[i - 1] = f[i] - WireSize(m)
    BY <2>1, Zenon
  <2> HIDE DEF g
  <2> QED
    BY <2>2, <2>3, <2>4, <1>3
<1> HIDE DEF g, n
<1>9. Ends(g, stream', unread')
  <2>1. \A i \in 1 .. Len(stream') : g[i] = g[i - 1] + WireSize(stream'[i])
    BY <1>5, <1>8, Zenon
  <2> QED
    BY <2>1, <1>5, <1>7, Zenon DEF Ends
<1> QED
  BY <1>9, Zenon DEF Counted

\* A message returned whole moves from the stream to what was returned.
LEMMA TakenFramed ==
  ASSUME TcpInv, AllFit, Framed, NEW m, stream # <<>>, m = Head(stream), m \in Messages, Fit(m),
         got' = Append(got, [message |-> m, len |-> AppLen(m) % Mod]),
         stream' = Tail(stream), skew' = 0, written' = written
  PROVE  Framed'
<1>1. stream # <<>> /\ m \in Messages /\ AppLen(m) % Mod = AppLen(m)
  BY FitSizes, Zenon
<1>2. stream' = Tail(stream) /\ skew' = 0 /\ written' = written
  OBVIOUS
<1>3. /\ stream \in Seq(Messages) /\ written \in Seq(Messages)
      /\ got \in Seq([message : Messages, len : 0 .. (Mod - 1)])
  BY Zenon DEF TcpInv, TcpTypeOK
<1> DEFINE R == [message : Messages, len : 0 .. (Mod - 1)]
           e == [message |-> m, len |-> AppLen(m)]
<1>4. e \in R /\ e.message = m /\ e.len = AppLen(m) /\ got' = Append(got, e)
  BY <1>1, Sizes, Zenon
<1> HIDE DEF e
<1>5. /\ got' \in Seq(R) /\ Len(got') = Len(got) + 1 /\ Len(got) \in Nat
       /\ got'[Len(got) + 1] = e /\ \A i \in 1 .. Len(got) : got'[i] = got[i]
  <2> HIDE DEF R
  <2>1. got \in Seq(R)
    BY <1>3, Zenon DEF R
  <2> QED
    BY <1>4, <2>1
<1>6. Len(got) \in Nat /\ Len(got') = Len(got) + 1
  BY <1>5, Zenon
<1>7. Framed'
  <2>1. Returned \in Seq(Messages) /\ written = Returned \o stream
    BY ReturnedSeq, Zenon
  <2>2. Returned' = Append(Returned, m)
    <3>1. /\ Returned' \in Seq(Messages) /\ Len(Returned') = Len(got) + 1
          /\ \A i \in 1 .. Len(got) + 1 : Returned'[i] = got'[i].message
      <4>1. got' \in Seq(R) /\ Len(got') = Len(got) + 1 /\ Len(got) \in Nat
        BY <1>5, Zenon
      <4>2. ASSUME NEW i \in 1 .. Len(got) + 1 PROVE got'[i].message \in Messages
        <5>1. got'[i] \in R
          <6> HIDE DEF R
          <6> QED
            BY <4>1
        <5> QED
          BY <5>1, Zenon
      <4> HIDE DEF R
      <4>3. Returned' = [i \in 1 .. Len(got) + 1 |-> got'[i].message]
        BY <4>1, Zenon DEF Returned
      <4> QED
        BY <4>1, <4>2, <4>3
    <3>2. Len(Returned) = Len(got) /\ \A i \in 1 .. Len(got) : Returned[i] = got[i].message
      BY <1>5 DEF Returned
    <3> HIDE DEF R
    <3>3. ASSUME NEW i \in 1 .. Len(got) + 1 PROVE Returned'[i] = Append(Returned, m)[i]
      <4>1. CASE i = Len(got) + 1
        BY <4>1, <3>1, <3>2, <2>1, <1>1, <1>4, <1>5
      <4>2. CASE i \in 1 .. Len(got)
        <5>1. Append(Returned, m)[i] = Returned[i]
          <6>1. Returned \in Seq(Messages) /\ i \in 1 .. Len(Returned) /\ m \in Messages
            BY <1>1, <2>1, <3>2, <4>2, Zenon
          <6> HIDE DEF Returned
          <6> QED
            BY <6>1
        <5> QED
          BY <5>1, <4>2, <3>1, <3>2, <1>5, Zenon
      <4>3. i = Len(got) + 1 \/ i \in 1 .. Len(got)
        BY <1>6
      <4> QED
        BY <4>1, <4>2, <4>3, ZenonT(30)
    <3>4. Append(Returned, m) \in Seq(Messages) /\ Len(Append(Returned, m)) = Len(got) + 1
      BY <2>1, <3>2, <1>1
    <3> QED
      BY <3>1, <3>3, <3>4, SeqEqual, Zenon
  <2>3. Append(Returned, Head(stream)) \o Tail(stream) = Returned \o stream
    BY <1>1, <1>3, <2>1, MovesOver, Zenon
  <2>4. written' = Returned' \o stream'
    BY <1>2, <2>1, <2>2, <2>3, Zenon
  <2>5. \A i \in 1 .. Len(got') : got'[i].len = AppLen(got'[i].message)
    <3>1. \A i \in 1 .. Len(got) : got[i].len = AppLen(got[i].message)
      BY Zenon DEF Framed
    <3> HIDE DEF R
    <3>2. ASSUME NEW i \in 1 .. Len(got') PROVE got'[i].len = AppLen(got'[i].message)
      <4>1. CASE i = Len(got) + 1
        BY <4>1, <1>4, <1>5, Zenon
      <4>2. CASE i \in 1 .. Len(got)
        BY <4>2, <3>1, <1>5, Zenon
      <4>3. i = Len(got) + 1 \/ i \in 1 .. Len(got)
        BY <1>6
      <4> QED
        BY <4>1, <4>2, <4>3, ZenonT(30)
    <3> QED
      BY <3>2, Zenon
  <2> QED
    BY <1>2, <2>4, <2>5, Zenon DEF Framed, Returned
<1> QED
  BY <1>7, Zenon

\* Messages that fit and were not returned yet are what the stream is made of.
LEMMA HeadFits ==
  ASSUME TcpInv, AllFit, Framed, stream # <<>>
  PROVE  Fit(Head(stream))
<1>1. Returned \in Seq(Messages) /\ stream \in Seq(Messages) /\ written = Returned \o stream
  BY ReturnedSeq, Zenon
<1> HIDE DEF Returned
<1>2. Len(Returned) + 1 \in 1 .. Len(written) /\ written[Len(Returned) + 1] = Head(stream)
  BY <1>1
<1> QED
  BY <1>2, Zenon DEF AllFit

\* recv_buffer returns the first message, or nothing.
LEMMA RecvInv == TcpWhole /\ TcpRecv => TcpWhole'
<1> SUFFICES ASSUME TcpWhole, TcpRecv PROVE TcpWhole'
  BY Zenon
<1> DEFINE m == Head(stream)
           mlen == MessageLen(m, Peeked)
<1>1. avail > 0 /\ skew = 0 /\ written' = written /\ TcpInv /\ Counted
  BY Zenon DEF TcpRecv, TcpWhole, TcpInv
<1>2. /\ Peeked \in Nat /\ Peeked <= avail /\ avail \in Nat /\ unread \in Nat /\ avail <= unread
      /\ stream # <<>> /\ stream \in Seq(Messages) /\ m \in Messages
  BY <1>1, PeekedThere, Zenon
<1>3. /\ WireSize(m) \in Nat /\ AppLen(m) % Mod \in 0 .. Mod - 1
      /\ mlen \in Int /\ mlen <= Peeked
  BY <1>2, Sizes, Zenon
<1>4. AllFit' => AllFit
  BY <1>1, FitBefore, Zenon DEF TcpNext
<1>5. AllFit => Fit(m) /\ WireSize(m) > 0
                /\ mlen = IF WireSize(m) <= Peeked THEN WireSize(m) ELSE -1
  <2> SUFFICES ASSUME AllFit
               PROVE  Fit(m) /\ WireSize(m) > 0
                      /\ mlen = IF WireSize(m) <= Peeked THEN WireSize(m) ELSE -1
    BY Zenon
  <2>1. Fit(m)
    BY <1>1, <1>2, HeadFits, Zenon DEF TcpWhole
  <2> QED
    BY <1>2, <2>1, FitSizes, Zenon
<1> HIDE DEF m, mlen
<1>6. CASE ~(mlen > 0)
  <2>1. /\ stream' = stream /\ unread' = unread /\ skew' = skew
        /\ avail' = avail /\ got' = got /\ tried' = avail
    BY <1>6, Zenon DEF TcpRecv, m, mlen
  <2>2. TcpTypeOK' /\ NeverWaits'
    BY <1>1, <1>2, <2>1, Zenon DEF TcpInv, TcpTypeOK, NeverWaits
  <2>3. Framed'
    BY <1>1, <1>4, <2>1, Zenon DEF TcpWhole, Framed, AppLen
  <2>4. GivesUpOnPiece'
    <3> SUFFICES ASSUME AllFit PROVE GivesUpOnPiece'
      BY <1>4, Zenon DEF GivesUpOnPiece
    <3>1. ~(WireSize(m) <= Peeked) /\ WireSize(m) <= Peek
      <4>1. Fit(m) /\ WireSize(m) > 0 /\ mlen = IF WireSize(m) <= Peeked THEN WireSize(m) ELSE -1
        BY <1>5, Zenon
      <4> QED
        BY <4>1, <1>6, Zenon DEF Fit
    <3>2. avail < WireSize(m)
      BY <1>2, <1>3, <3>1, FramingAssumption DEF Peeked
    <3> QED
      BY <1>2, <2>1, <3>2, Zenon DEF GivesUpOnPiece, m, WireSize, Padded
  <2>5. Counted'
    BY <1>1, <2>1, Zenon DEF Counted, Ends, WireSize, Padded
  <2> QED
    BY <2>2, <2>3, <2>4, <2>5, Zenon DEF TcpWhole, TcpInv
<1>7. CASE mlen > 0
  <2>1. /\ got' = Append(got, [message |-> m, len |-> AppLen(m) % Mod])
        /\ avail' = avail - mlen /\ unread' = unread - mlen /\ tried' = 0
        /\ IF mlen = WireSize(m) THEN stream' = Tail(stream) /\ skew' = 0
           ELSE stream' = stream /\ skew' = mlen
    BY <1>7, Zenon DEF TcpRecv, m, mlen
  <2>2. avail' \in 0 .. unread' /\ unread' \in Nat /\ tried' \in Nat /\ mlen \in Nat \ {0}
    BY <1>2, <1>3, <1>7, <2>1
  <2>3. got' \in Seq([message : Messages, len : 0 .. (Mod - 1)])
    <3> DEFINE R == [message : Messages, len : 0 .. (Mod - 1)]
    <3>1. [message |-> m, len |-> AppLen(m) % Mod] \in R /\ got \in Seq(R)
      BY <1>1, <1>2, <1>3, Zenon DEF TcpInv, TcpTypeOK
    <3> HIDE DEF R
    <3>2. got' \in Seq(R)
      BY <2>1, <3>1, AppendProperties, Zenon
    <3> QED
      BY <3>2, Zenon DEF R
  <2>4. stream' \in Seq(Messages) /\ skew' \in Nat
    BY <1>2, <2>1, <2>2, HeadTailProperties, Zenon
  <2>5. TcpTypeOK' /\ NeverWaits'
    <3>1. avail' \in Int
      BY <2>2
    <3> QED
      BY <1>1, <2>2, <2>3, <2>4, <3>1, Zenon DEF TcpInv, TcpTypeOK, NeverWaits
  <2>6. GivesUpOnPiece'
    BY <2>1 DEF GivesUpOnPiece
  <2>7. Framed'
    <3> SUFFICES ASSUME AllFit PROVE Framed'
      BY <1>4, Zenon DEF Framed
    <3>1. Fit(m) /\ mlen = WireSize(m)
      <4>1. Fit(m) /\ mlen = IF WireSize(m) <= Peeked THEN WireSize(m) ELSE -1
        BY <1>5, Zenon
      <4> QED
        BY <4>1, <1>7
    <3> QED
      BY <1>1, <1>2, <2>1, <3>1, TakenFramed, Zenon DEF TcpWhole, m
  <2>8. skew' = 0 => Counted'
    <3> SUFFICES ASSUME skew' = 0 PROVE Counted'
      BY Zenon
    <3>1. mlen = WireSize(m)
      BY <2>1, <2>2, Zenon
    <3> QED
      BY <1>1, <1>2, <2>1, <3>1, TakenCounted, Zenon DEF m
  <2> QED
    BY <2>5, <2>6, <2>7, <2>8, Zenon DEF TcpWhole, TcpInv
<1> QED
  BY <1>6, <1>7, Zenon

\* Off a boundary, no more than what is peeked at is taken either.
LEMMA AstrayInv == TcpWhole /\ RecvAstray => TcpWhole'
<1> SUFFICES ASSUME TcpWhole, RecvAstray PROVE TcpWhole'
  BY Zenon
<1>1. PICK k \in 0 .. Peeked : avail' = avail - k /\ unread' = unread - k /\ skew' = skew + k
  BY Zenon DEF RecvAstray
<1>2. avail > 0 /\ skew > 0 /\ UNCHANGED <<written, stream, got, tried>> /\ TcpInv
  BY Zenon DEF RecvAstray, TcpWhole
<1>3. Peeked \in Nat /\ Peeked <= avail /\ avail \in Nat /\ unread \in Nat /\ avail <= unread
  BY <1>2, PeekedThere, Zenon
<1>4. skew \in Nat
  BY <1>2, Zenon DEF TcpInv, TcpTypeOK
<1>5. avail' \in 0 .. unread' /\ avail' \in Int /\ unread' \in Nat /\ skew' \in Nat /\ skew' # 0 /\ skew # 0
  BY <1>1, <1>2, <1>3, <1>4
<1>6. TcpTypeOK' /\ NeverWaits'
  BY <1>2, <1>5, Zenon DEF TcpInv, TcpTypeOK, NeverWaits
<1>7. ~AllFit
  BY <1>5, Zenon DEF TcpWhole, Framed
<1>8. ~AllFit'
  BY <1>2, <1>7, FitBefore, Zenon DEF TcpNext
<1> QED
  BY <1>5, <1>6, <1>8, Zenon DEF TcpWhole, TcpInv, Framed, GivesUpOnPiece

\* Every step keeps recv_buffer on message boundaries.
LEMMA TcpStep == TcpWhole /\ [TcpNext]_tcpVars => TcpWhole'
<1> SUFFICES ASSUME TcpWhole, [TcpNext]_tcpVars PROVE TcpWhole'
  BY Zenon
<1>1. CASE PeerSends
  BY <1>1, SendsInv, Zenon
<1>2. CASE Segment \/ UNCHANGED tcpVars
  <2>1. /\ written' = written /\ stream' = stream /\ unread' = unread /\ skew' = skew
        /\ got' = got /\ tried' = tried
    BY <1>2, Zenon DEF Segment, tcpVars
  <2>2. avail' = avail \/ \E k \in 1 .. (unread - avail) : avail' = avail + k
    BY <1>2, Zenon DEF Segment, tcpVars
  <2>3. TcpTypeOK' /\ NeverWaits'
    BY <2>1, <2>2 DEF TcpWhole, TcpInv, TcpTypeOK, NeverWaits
  <2>4. AllFit' => AllFit
    BY FitBefore, Zenon DEF TcpWhole
  <2>5. Framed' /\ GivesUpOnPiece'
    BY <2>1, <2>4, Zenon DEF TcpWhole, Framed, GivesUpOnPiece, AppLen, WireSize, Padded
  <2>6. skew' = 0 => Counted'
    BY <2>1, Zenon DEF TcpWhole, TcpInv, Counted, Ends, WireSize, Padded
  <2> QED
    BY <2>3, <2>5, <2>6, Zenon DEF TcpWhole, TcpInv
<1>3. CASE TcpRecv
  BY <1>3, RecvInv, Zenon
<1>4. CASE RecvAstray
  BY <1>4, AstrayInv, Zenon
<1> QED
  BY <1>1, <1>2, <1>3, <1>4, Zenon DEF TcpNext, Done

\* The ends of the messages go along with the stream (recv_buffer's TCP branch).
THEOREM FramingInvariant == TcpSpec => []TcpWhole
<1>1. TcpInit => TcpWhole
  BY TcpInitInv, Zenon
<1>2. TcpWhole /\ [TcpNext]_tcpVars => TcpWhole'
  BY TcpStep, Zenon
<1> QED
  BY <1>1, <1>2, PTL DEF TcpSpec

\* For any segments, as long as the messages fit the buffer and their sizes 16
\* bits: what was returned and what is unread make up what was sent, and every
\* length is that of a header and its data (recv_buffer's TCP branch with
\* stun_get_message_len_str).
THEOREM StreamFramed == TcpSpec => []Framed
<1>1. TcpWhole => Framed
  BY Zenon DEF TcpWhole
<1> QED
  BY <1>1, FramingInvariant, PTL

\* recv_buffer returns 0 for such messages only while the one at the front is
\* not wholly there (its callers give up then).
THEOREM StreamGivesUpOnPiece == TcpSpec => []GivesUpOnPiece
<1>1. TcpWhole => GivesUpOnPiece
  BY Zenon DEF TcpWhole
<1> QED
  BY <1>1, FramingInvariant, PTL

\* For every length field, the ones whose 16-bit sums wrap included, and off the
\* boundaries too, recv_buffer consumes no more than the socket holds.
THEOREM StreamNeverWaits == TcpSpec => []NeverWaits
<1>1. TcpWhole => NeverWaits
  BY Zenon DEF TcpWhole, TcpInv
<1> QED
  BY <1>1, FramingInvariant, PTL

===============================================================================
