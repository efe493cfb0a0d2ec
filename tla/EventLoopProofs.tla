--------------------------- MODULE EventLoopProofs ---------------------------
(***************************************************************************)
(* Proofs about EventLoop for any number of events, threads, priorities    *)
(* and calls, from the lemmas of EventQueueProofs about the functions of   *)
(* event.c.  Each section adds an invariant to those before it:            *)
(*                                                                         *)
(*   IInv         the flags, queues and counters of the base agree, and    *)
(*                the request to stop a loop that sleeps is in the eventfd *)
(*   RestTypes    the types of the other variables                         *)
(*   PriorityInv  while a callback runs, no more urgent event is active    *)
(*                unless the queue that runs is cut short                  *)
(*   BreakInv     a pass over the queues that goes on has seen no break    *)
(*   LifeInv      what is left of an event that is being freed             *)
(*   SleepInv     what may be left to do while the Looper sleeps           *)
(***************************************************************************)
EXTENDS EventQueueProofs, WellFoundedInduction

-----------------------------------------------------------------------------
(* The calls of the API.                                                    *)

\* A step that changes nothing of the loop but the base.
LEMMA BaseStep ==
  ASSUME IInv, Sound(base'), Notified(base, base'),
         UNCHANGED <<loopvars, break, cache, now, fdvars>>
  PROVE  IInv'
<1>1. LoopTypes'
  BY Zenon DEF IInv, LoopTypes, loopvars, fdvars
<1>2. Announced'
  BY Zenon DEF IInv, Announced, Notified, Silent, loopvars
<1> QED
  BY <1>1, <1>2, Zenon DEF IInv

\* event_remove_timer.
LEMMA RemoveTimerInv ==
  ASSUME IInv, NEW t \in Threads, NEW e \in Events, RemoveTimer(t, e)
  PROVE  Sound(base') /\ Notified(base, base') /\ Moves(base, base', e)
<1> DEFINE b1 == WithoutFlag(base, e, "timeout")
<1>1. e \in Timed /\ e \in Callbacks /\ Sound(base) /\ base \in event_base
  BY Zenon DEF Timed, Callbacks, IInv, Sound
<1>2. "timeout" \in base.flags[e] /\ base' = [b1 EXCEPT !.io_timeout[e] = 0]
  BY Zenon DEF RemoveTimer
<1>3. Sound(b1) /\ Notified(base, b1) /\ Moves(base, b1, e)
  BY <1>1, <1>2, FlagCleared, QueueMoves, Zenon DEF Notified, Silent
<1> HIDE DEF b1
<1>5. b1 \in event_base
  BY <1>3, Zenon DEF Sound
<1>6. [b1.io_timeout EXCEPT ![e] = 0] \in [Events -> Nat]
  BY <1>5, Zenon DEF event_base
<1>7. /\ base' \in event_base /\ base'.flags = b1.flags /\ base'.activeq = b1.activeq
      /\ base'.laterq = b1.laterq /\ base'.event_count = b1.event_count
      /\ base'.event_count_active = b1.event_count_active /\ Notified(b1, base')
      /\ base'.event_continue = b1.event_continue
  BY <1>2, <1>5, <1>6, ZenonT(30) DEF event_base, Notified, Silent
<1>8. Sound(base') /\ Moves(b1, base', e)
  BY <1>3, <1>7, SoundFrame, MovesNot, Zenon
<1> QED
  BY <1>3, <1>7, <1>8, NotifiedTwice, MovesTwice, Zenon

\* event_deferred_cb_schedule_.
LEMMA ScheduleInv ==
  ASSUME IInv, NEW t \in Threads, NEW d \in Deferred, Schedule(t, d)
  PROVE  Sound(base') /\ Notified(base, base') /\ Moves(base, base', d)
<1> DEFINE b1 == CallbackActivate(base, t, d)
<1>1. d \in Callbacks /\ d \notin Timed /\ Sound(base)
  BY ConstantsAssumption, Zenon DEF Callbacks, Timed, IInv
<1>2. Sound(b1) /\ Notified(base, b1) /\ Moves(base, b1, d)
  BY <1>1, Activates, Zenon
<1>3. \/ base' = ActivateLater(base, t, d)
      \/ base' = b1
      \/ base' = [b1 EXCEPT !.n_deferreds_queued = @ + 1]
  BY Zenon DEF Schedule
<1> HIDE DEF b1
<1>4. CASE base' = ActivateLater(base, t, d)
  BY <1>1, <1>4, ActivatesLater, Zenon
<1>5. CASE base' = [b1 EXCEPT !.n_deferreds_queued = @ + 1]
  <2>1. b1 \in event_base /\ b1.n_deferreds_queued + 1 \in Nat
    BY <1>2 DEF Sound, event_base
  <2>2. base' \in event_base
    BY <1>5, <2>1, ZenonT(30) DEF event_base
  <2>3. /\ base'.flags = b1.flags /\ base'.activeq = b1.activeq
        /\ base'.laterq = b1.laterq /\ base'.event_count = b1.event_count
        /\ base'.event_count_active = b1.event_count_active /\ Notified(b1, base')
        /\ base'.event_continue = b1.event_continue
    BY <1>5, <2>1, Zenon DEF event_base, Notified, Silent
  <2>4. Sound(base') /\ Moves(b1, base', d)
    BY <1>2, <2>2, <2>3, SoundFrame, MovesNot, Zenon
  <2> QED
    BY <1>2, <2>3, <2>4, NotifiedTwice, MovesTwice, Zenon
<1> QED
  BY <1>2, <1>3, <1>4, <1>5, Zenon

\* event_base_loopcontinue.
LEMMA LoopContinueInv ==
  ASSUME IInv, NEW t \in Threads, LoopContinue(t)
  PROVE  /\ Sound(base') /\ Notified(base, base')
         /\ base'.flags = base.flags /\ base'.event_continue
<1> DEFINE b1 == [base EXCEPT !.event_continue = TRUE]
<1>1. Sound(base) /\ base' = NotifyBase(b1, t)
  BY Zenon DEF LoopContinue, IInv
<1>2. /\ b1 \in event_base /\ b1.flags = base.flags /\ b1.activeq = base.activeq
      /\ b1.laterq = base.laterq /\ b1.event_count = base.event_count
      /\ b1.event_count_active = base.event_count_active /\ Notified(base, b1)
      /\ b1.event_continue
  BY <1>1, ZenonT(30) DEF Sound, event_base, Notified, Silent
<1> HIDE DEF b1
<1>3. Sound(b1)
  BY <1>1, <1>2, SoundFrame, Zenon
<1>4. /\ Sound(base') /\ Notified(b1, base') /\ base'.flags = b1.flags
      /\ base'.event_continue = b1.event_continue
  BY <1>1, <1>3, Notifies, Zenon
<1> QED
  BY <1>2, <1>4, NotifiedTwice, Zenon

\* event_free_finalize: the event stays active for its finalizer.
LEMMA FinalizeInv ==
  ASSUME IInv, NEW t \in Threads, NEW e \in Events, Finalize(t, e)
  PROVE  Sound(base') /\ Notified(base, base') /\ Confined(base, base', e)
<1> DEFINE b1 == DelNolock(base, t, e)
           b2 == ActiveNolock(b1, t, e, "finalize")
           r == [b2 EXCEPT !.flags[e] = @ \cup {"finalizing"}]
<1> e \in Timed /\ e \in Callbacks /\ "finalize" \in Reasons
  BY Zenon DEF Timed, Callbacks, Reasons
<1>1. base' = r /\ Sound(base) /\ LoopTypes
  BY Zenon DEF Finalize, IInv
<1>2. /\ Sound(b1) /\ Notified(base, b1) /\ Moves(base, b1, e)
      /\ b1.flags[e] = {} \/ "finalizing" \in b1.flags[e]
  BY <1>1, Deletes, Zenon
<1> HIDE DEF b1
<1>3. /\ Sound(b2) /\ Notified(b1, b2) /\ Moves(b1, b2, e)
      /\ b1.flags[e] = {} => b2.flags[e] = {"active"}
  BY <1>1, <1>2, ActivesEvent
<1>4. b2.flags[e] \in SUBSET {"active", "finalizing"}
  <2>1. CASE b1.flags[e] = {}
    BY <1>3, <2>1, Zenon
  <2>2. CASE "finalizing" \in b1.flags[e]
    BY <1>2, <2>2, Zenon DEF ActiveNolock, Sound
  <2> QED
    BY <1>2, <2>1, <2>2, Zenon
<1> b2 \in event_base
  BY <1>3, Zenon DEF Sound
<1> HIDE DEF b2
<1>5. [b2.flags EXCEPT ![e] = @ \cup {"finalizing"}]
        \in [Callbacks -> SUBSET (Kinds \cup {"finalizing"})]
  BY Zenon DEF event_base
<1>6. /\ r \in event_base /\ r.flags = [b2.flags EXCEPT ![e] = @ \cup {"finalizing"}]
      /\ r.activeq = b2.activeq /\ r.laterq = b2.laterq
      /\ r.event_count = b2.event_count /\ r.event_count_active = b2.event_count_active
      /\ Notified(b2, r) /\ r.event_continue = b2.event_continue
  BY <1>5, ZenonT(30) DEF event_base, Notified, Silent
<1> HIDE DEF r
<1>7. /\ r.flags[e] = b2.flags[e] \cup {"finalizing"}
      /\ \A x \in Callbacks \ {e} : r.flags[x] = b2.flags[x]
  BY <1>6, Zenon DEF event_base
<1>8. \A x \in Callbacks, f \in Kinds : f \in r.flags[x] <=> f \in b2.flags[x]
  BY <1>7, Zenon DEF Kinds
<1>9. Consistent(r)
  <2>1. Flagged(r.flags, "active") = Flagged(b2.flags, "active")
        /\ Flagged(r.flags, "later") = Flagged(b2.flags, "later")
    BY <1>8, Zenon DEF Flagged, Kinds
  <2>2. Memberships(r.flags) = Memberships(b2.flags)
    BY <1>8, Zenon DEF Memberships
  <2> QED
    BY <1>3, <1>6, <2>1, <2>2, ZenonT(30) DEF Sound, Consistent
<1>10. Sound(r)
  BY <1>3, <1>4, <1>6, <1>7, <1>9 DEF Sound
<1>11. Notified(base, r)
  BY <1>2, <1>3, <1>6, NotifiedTwice, Zenon
<1>12. Moves(base, b2, e)
  BY <1>2, <1>3, MovesTwice, Zenon
<1>13. Confined(base, r, e)
  BY <1>6, <1>7, <1>12, Zenon DEF Moves, Confined
<1> QED
  BY <1>1, <1>10, <1>11, <1>13, Zenon

\* event_base_loopbreak: a Looper that sleeps is woken.
LEMMA LoopBreakInv ==
  ASSUME IInv, NEW t \in Threads, LoopBreak(t)
  PROVE  IInv'
<1>1. /\ Sound(base) /\ Calls(t) /\ base' = NotifyBase(base, t)
      /\ UNCHANGED <<loopvars, timevars, fdvars>>
  BY Zenon DEF LoopBreak, IInv
<1>2. /\ Sound(base') /\ Notified(base, base')
      /\ pc # "idle" /\ t # Looper /\ (base.is_notify_pending => base.eventfd) => base'.eventfd
  BY <1>1, Notifies, Zenon
<1>3. LoopTypes'
  BY <1>1, Zenon DEF IInv, LoopTypes, loopvars, timevars, fdvars
<1>4. pc \in {"later", "epoll"} => base'.eventfd
  BY <1>1, <1>2, Zenon DEF Calls, InUserCode, Unlocked, IInv, Announced
<1>5. Announced'
  BY <1>1, <1>2, <1>4, Zenon DEF IInv, Announced, Notified, Silent, loopvars
<1> QED
  BY <1>2, <1>3, <1>5, Zenon DEF IInv

\* Every call of the API.
LEMMA CallNotifies ==
  ASSUME IInv, NEW t \in Threads, Call(t)
  PROVE  Sound(base') /\ Notified(base, base')
<1> Sound(base) /\ LoopTypes /\ Intervals \cup {None} \subseteq Nat \cup {None}
    /\ Events \subseteq Timed /\ Exits \subseteq Timed /\ FALSE \in BOOLEAN
    /\ "user" \in Reasons /\ "timeout" \in Reasons
  BY ConstantsAssumption, ZenonT(30) DEF IInv, Timed, Reasons
<1>1. ASSUME NEW e \in Timed, NEW tv \in Intervals \cup {None},
             base' = AddNolock(base, t, e, tv, FALSE)
      PROVE  Sound(base') /\ Notified(base, base')
  BY <1>1, Adds, ZenonT(30)
<1>2. ASSUME NEW e \in Timed, NEW why \in Reasons, base' = ActiveNolock(base, t, e, why)
      PROVE  Sound(base') /\ Notified(base, base')
  BY <1>2, ActivesEvent, Zenon
<1>3. ASSUME NEW e \in Timed, base' = DelNolock(base, t, e)
      PROVE  Sound(base') /\ Notified(base, base')
  BY <1>3, Deletes, Zenon
<1>4. ASSUME NEW e \in Events,
             \/ \E tv \in Intervals \cup {None} : Add(t, e, tv)
             \/ RemoveTimer(t, e) \/ Activate(t, e) \/ Del(t, e) \/ Free(t, e) \/ Finalize(t, e)
      PROVE  Sound(base') /\ Notified(base, base')
  BY <1>1, <1>2, <1>3, <1>4, RemoveTimerInv, FinalizeInv, ZenonT(30) DEF Add, Activate, Del, Free
<1>5. ASSUME NEW d \in Deferred, Schedule(t, d) \/ Cancel(t, d)
      PROVE  Sound(base') /\ Notified(base, base')
  BY <1>5, ScheduleInv, Cancels, Zenon DEF Cancel
<1>6. ASSUME NEW x \in Exits, NEW tv \in Intervals \cup {None}, LoopExit(t, x, tv)
      PROVE  Sound(base') /\ Notified(base, base')
  BY <1>1, <1>2, <1>6, ZenonT(30) DEF LoopExit
<1>7. CASE LoopBreak(t)
  BY <1>7, Notifies, Zenon DEF LoopBreak
<1> QED
  BY <1>4, <1>5, <1>6, <1>7, LoopContinueInv DEF Call

\* Those but event_base_loopbreak keep the invariant.
LEMMA CallInv ==
  ASSUME IInv, NEW t \in Threads, Call(t), ~LoopBreak(t)
  PROVE  IInv'
<1>1. UNCHANGED <<loopvars, break, cache, now, fdvars>>
  BY ZenonT(30) DEF Call, Add, RemoveTimer, Activate, Del, Free, Finalize, Schedule, Cancel,
     LoopExit,
         LoopContinue, stopvars, timevars
<1> QED
  BY <1>1, CallNotifies, BaseStep, Zenon

-----------------------------------------------------------------------------
(* The steps of the loop.                                                   *)

\* A step of the Looper that neither drains the eventfd nor goes to sleep over a break.
LEMMA LooperMoves ==
  ASSUME IInv, Sound(base'), Notified(base, base'), pc # "drain",
         pc' \in Unlocked \cup Locked, pc' \in {"later", "epoll"} => ~break \/ base.eventfd,
         queue' \in 0 .. NPri - 1, running' \in -1 .. NPri - 1, cache' \in {cache, now, None},
         now' = now, polled' \subseteq IO \cup {Notify}, ready' \subseteq ready,
         break' = break \/ break' = FALSE
  PROVE  IInv'
<1>1. LoopTypes'
  BY Zenon DEF IInv, LoopTypes
<1>2. base'.is_notify_pending => base'.eventfd \/ pc' = "drain"
  BY ZenonT(30) DEF IInv, Announced, Notified, Silent
<1>3. pc' \in {"later", "epoll"} /\ break' => base'.eventfd
  BY ZenonT(30) DEF Notified, Silent
<1> QED
  BY <1>1, <1>2, <1>3, Zenon DEF IInv, Announced

\* The beginning and the end of a turn of event_base_loop.
LEMMA TurnInv ==
  ASSUME IInv, Loop \/ Top \/ TimeoutsDone
  PROVE  IInv'
<1>1. /\ LoopTypes /\ Sound(base) /\ base \in event_base
      /\ 0 \in 0 .. NPri - 1
  BY ConstantsAssumption DEF IInv, Sound
<1>2. Sound(base') /\ Notified(base, base')
  <2>1. CASE base' = base
    BY <1>1, <2>1, Zenon DEF Notified, Silent
  <2>2. CASE base' = [base EXCEPT !.event_continue = FALSE, !.n_deferreds_queued = 0]
    <3>1. /\ base' \in event_base /\ base'.flags = base.flags /\ base'.activeq = base.activeq
          /\ base'.laterq = base.laterq /\ base'.event_count = base.event_count
          /\ base'.event_count_active = base.event_count_active /\ Notified(base, base')
      BY <1>1, <2>2, ZenonT(30) DEF event_base, Notified, Silent
    <3> QED
      BY <1>1, <3>1, SoundFrame, Zenon
  <2> QED
    BY <2>1, <2>2, Zenon DEF Loop, Top, TimeoutsDone
<1>3. /\ pc \in {"idle", "top", "timeouts"} /\ pc' \in {"idle", "top", "later", "process"}
      /\ (pc' = "later" => ~break) /\ queue' \in {0, queue} /\ running' = running
      /\ cache' \in {cache, None} /\ now' = now /\ polled' = polled /\ ready' = ready
      /\ break' = break \/ break' = FALSE
  BY Zenon DEF Loop, Top, TimeoutsDone, Leave, stopvars, fdvars
<1> QED
  BY <1>1, <1>2, <1>3, LooperMoves, ZenonT(30) DEF LoopTypes, Locked, Unlocked

\* event_queue_make_later_events_active.
LEMMA LaterInv ==
  ASSUME IInv, MakeLaterActive
  PROVE  IInv'
<1>1. /\ LoopTypes /\ Sound(base) /\ base \in event_base /\ pc = "later"
      /\ pc' \in {"later", "epoll"} /\ cache' \in {cache, None}
      /\ UNCHANGED <<queue, running, break, now, polled, ready>>
  BY Zenon DEF IInv, Sound, MakeLaterActive, stopvars, fdvars
<1>2. Sound(base') /\ Notified(base, base')
  <2>1. CASE base.laterq = <<>>
    BY <1>1, <2>1, Zenon DEF MakeLaterActive, Notified, Silent
  <2>2. CASE base.laterq # <<>>
    <3>1. base' = MadeActive(base)
      BY <2>2, Zenon DEF MakeLaterActive, MadeActive
    <3> QED
      BY <1>1, <2>2, <3>1, LaterMadeActive, Zenon DEF Notified, Silent
  <2> QED
    BY <2>1, <2>2, Zenon
<1> QED
  BY <1>1, <1>2, LooperMoves, Zenon DEF LoopTypes, Unlocked, Locked, IInv, Announced

\* epoll_dispatch.
LEMMA PollInv ==
  ASSUME IInv, PollReturns \/ PollInterrupted \/ PollFails \/ Collect
  PROVE  IInv'
<1>1. LoopTypes /\ Sound(base) /\ 0 \in 0 .. NPri - 1 /\ "read" \in Reasons
      /\ IO \cup {Notify} \subseteq Timed \cup {Notify}
  BY ConstantsAssumption DEF IInv, Timed, Reasons
<1>2. /\ pc \in {"epoll", "polled", "collect"}
      /\ pc' \in {"idle", "polled", "collect", "timeouts"} /\ queue' \in {queue, 0}
      /\ cache' \in {cache, now, None} /\ UNCHANGED <<running, break, now, ready>>
  BY Zenon DEF PollReturns, PollInterrupted, PollFails, Collect, Leave, stopvars, fdvars
<1>3. polled' \subseteq IO \cup {Notify}
  BY <1>1, Zenon DEF LoopTypes, PollReturns, PollInterrupted, PollFails, Collect, Readable, fdvars
<1>4. Sound(base') /\ Notified(base, base')
  <2>1. CASE base' = base
    BY <1>1, <2>1, Zenon DEF Notified, Silent
  <2>2. ASSUME NEW e \in polled, base' = ActiveNolock(base, Looper, e, "read")
        PROVE  Sound(base') /\ Notified(base, base')
    <3>1. e \in Timed \cup {Notify}
      BY <1>1, Zenon DEF LoopTypes
    <3> QED
      BY <1>1, <2>2, <3>1, ActivesEvent, Zenon
  <2> QED
    BY <2>1, <2>2, ZenonT(30) DEF PollReturns, PollInterrupted, PollFails, Collect
<1> QED
  BY <1>1, <1>2, <1>3, <1>4, LooperMoves, Zenon DEF LoopTypes, Unlocked, Locked

\* timeout_process.
LEMMA TimeoutInv ==
  ASSUME IInv, TimeoutProcess
  PROVE  IInv'
<1>1. PICK e \in Due : base' = ActiveNolock(DelNolock(base, Looper, e), Looper, e, "timeout")
  BY Zenon DEF TimeoutProcess
<1>2. e \in Timed /\ "timeout" \in Reasons /\ Sound(base)
  BY Zenon DEF Due, Timers, Reasons, IInv
<1> DEFINE b1 == DelNolock(base, Looper, e)
<1>3. Sound(b1) /\ Notified(base, b1)
  BY <1>2, Deletes, Zenon
<1> HIDE DEF b1
<1>4. Sound(base') /\ Notified(b1, base')
  BY <1>1, <1>2, <1>3, ActivesEvent, Zenon DEF b1
<1>5. Notified(base, base')
  BY <1>3, <1>4, NotifiedTwice, Zenon
<1> QED
  BY <1>4, <1>5, BaseStep, ZenonT(30) DEF TimeoutProcess, stopvars, timevars

\* The end of a queue: the next one, or the end of event_process_active.
LEMMA QueueEnds ==
  ASSUME LoopTypes, NextQueue(base) \/ \E n : Finish(base, n)
  PROVE  /\ pc' \in {"process", "top", "idle"} /\ running' \in -1 .. NPri - 1
         /\ queue' \in 0 .. NPri - 1 /\ cache' \in {cache, None}
<1> 0 \in 0 .. NPri - 1 /\ -1 \in -1 .. NPri - 1 /\ NPri \in Nat /\ queue \in 0 .. NPri - 1
  BY ConstantsAssumption DEF LoopTypes
<1>1. ASSUME NEW n, Finish(base, n)
      PROVE  pc' \in {"top", "idle"} /\ running' = -1 /\ queue' = 0 /\ cache' \in {cache, None}
  BY <1>1, Zenon DEF Finish, Leave
<1>2. CASE queue + 1 < NPri /\ NextQueue(base)
  <2>1. queue + 1 \in 0 .. NPri - 1
    BY <1>2
  <2> QED
    BY <1>2, <2>1, Zenon DEF NextQueue, LoopTypes
<1> QED
  BY <1>1, <1>2, Zenon DEF NextQueue

\* event_process_active between callbacks.
LEMMA QueueInv ==
  ASSUME IInv, SkipQueue \/ CallbackReturns \/ ExitCallback \/ DrainReturns
  PROVE  IInv'
<1>1. /\ LoopTypes /\ Sound(base) /\ base' = base /\ Notified(base, base')
      /\ pc \in {"process", "callback", "drained"} /\ UNCHANGED <<break, now, polled>>
      /\ ready' \subseteq ready
  BY Zenon DEF IInv, Notified, Silent, SkipQueue, CallbackReturns, ExitCallback, DrainReturns,
     stopvars, fdvars
<1>2. /\ pc' \in {"process", "top", "idle"} /\ running' \in -1 .. NPri - 1
      /\ queue' \in 0 .. NPri - 1 /\ cache' \in {cache, None}
  <2>1. CASE NextQueue(base) \/ \E n : Finish(base, n)
    BY <1>1, <2>1, QueueEnds, Zenon
  <2>2. CASE pc' = "process" /\ UNCHANGED <<queue, running, cache>>
    BY <1>1, <2>2, Zenon DEF LoopTypes
  <2>3. CASE Return
    BY <2>1, <2>2, <2>3, Zenon DEF Return
  <2> QED
    BY <2>1, <2>3, Zenon DEF SkipQueue, CallbackReturns, ExitCallback, DrainReturns
<1> QED
  BY <1>1, <1>2, LooperMoves, Zenon DEF LoopTypes, Unlocked, Locked

\* event_process_active_single_queue.
LEMMA RunInv ==
  ASSUME IInv, RunCallback
  PROVE  IInv'
<1> DEFINE c == Head(base.activeq[queue])
           q == base.activeq[queue]
<1>1. LoopTypes /\ Sound(base) /\ queue \in 0 .. NPri - 1
  BY Zenon DEF IInv, LoopTypes
<1>2. /\ pc = "process" /\ q # <<>> /\ base' = Dequeue(base, c)
      /\ running' = queue /\ pc' = "callback"
      /\ UNCHANGED <<queue, break, cache, now, polled, ready>>
  BY ZenonT(30) DEF RunCallback, stopvars, timevars, fdvars
<1>3. q \in Seq(Callbacks)
  BY <1>1, Zenon DEF Sound, event_base
<1>4. Listed(q) = {x \in Flagged(base.flags, "active") : Pri[x] = queue} /\ Distinct(q)
  BY <1>1, ZenonT(30) DEF Sound, Consistent
<1> HIDE DEF q
<1>5. Head(q) \in Listed(q)
  BY <1>2, <1>3, <1>4, TailFacts, ZenonT(30)
<1>6. c \in Callbacks /\ "active" \in base.flags[c]
  BY <1>4, <1>5, ZenonT(30) DEF Flagged, q
<1> HIDE DEF c
<1>7. Sound(Dequeue(base, c)) /\ Notified(base, Dequeue(base, c))
  BY <1>1, <1>6, Dequeues, ZenonT(30)
<1>8. Sound(base') /\ Notified(base, base')
  BY <1>2, <1>7, ZenonT(30)
<1>9. running' \in -1 .. NPri - 1
  <2>1. NPri \in Nat
    BY ConstantsAssumption, Zenon
  <2>2. running' \in 0 .. NPri - 1
    BY <1>1, <1>2, Zenon
  <2> QED
    BY <2>1, <2>2
<1> QED
  BY <1>1, <1>2, <1>8, <1>9, LooperMoves, ZenonT(30) DEF LoopTypes, Unlocked

\* evthread_notify_drain_eventfd: the flag outlives the eventfd by one step,
\* in which the Looper is awake.
LEMMA DrainInv ==
  ASSUME IInv, DrainRead \/ DrainClear
  PROVE  IInv'
<1>1. /\ LoopTypes /\ Sound(base) /\ base \in event_base /\ pc' \in {"drain", "drained"}
      /\ UNCHANGED <<queue, running, break, cache, now, polled, ready>>
  BY Zenon DEF IInv, Sound, DrainRead, DrainClear, stopvars, timevars, fdvars
<1>2. /\ base' \in event_base /\ base'.flags = base.flags /\ base'.activeq = base.activeq
      /\ base'.laterq = base.laterq /\ base'.event_count = base.event_count
      /\ base'.event_count_active = base.event_count_active
      /\ (base'.is_notify_pending => pc' = "drain")
  <2>1. CASE DrainRead
    BY <1>1, <2>1, ZenonT(30) DEF DrainRead, event_base
  <2>2. CASE DrainClear
    BY <1>1, <2>2, ZenonT(30) DEF DrainClear, event_base
  <2> QED
    BY <2>1, <2>2, Zenon
<1>3. Sound(base')
  BY <1>1, <1>2, SoundFrame, Zenon
<1>4. LoopTypes' /\ Announced'
  BY <1>1, <1>2, Zenon DEF LoopTypes, Announced, Unlocked
<1> QED
  BY <1>3, <1>4, Zenon DEF IInv

\* The threads that wait, the data and the clock.
LEMMA OutsideInv ==
  ASSUME IInv, Tick \/ (\E e \in IO : Arrive(e)) \/ (\E t \in Others : Wake(t))
  PROVE  IInv'
<1>1. /\ base' = base /\ (now' = now \/ now' = now + 1)
      /\ ready' \subseteq ready \cup IO /\ UNCHANGED <<loopvars, break, cache, polled>>
  BY Zenon DEF Tick, Arrive, Wake, timevars, fdvars, stopvars
<1>2. LoopTypes'
  BY <1>1 DEF IInv, LoopTypes, loopvars
<1> QED
  BY <1>1, <1>2, Zenon DEF IInv, Announced, loopvars

\* A base made by event_base_new.
LEMMA InitInv == Init => IInv
<1> SUFFICES ASSUME Init PROVE IInv
  BY Zenon
<1> DEFINE fl == [c \in Callbacks |-> IF c = Notify THEN {"inserted"} ELSE {}]
<1>1. /\ base.flags = fl /\ base.activeq = [p \in 0 .. NPri - 1 |-> <<>>] /\ base.laterq = <<>>
      /\ base.event_count = 0 /\ base.event_count_active = 0
      /\ base.is_notify_pending = FALSE /\ base.eventfd = FALSE
  BY Zenon DEF Init
<1>2. base \in event_base
  <2> DEFINE res == [c \in Callbacks |-> {}]
             deadline == [e \in Timed |-> 0]
             io_timeout == [e \in Events |-> 0]
             activeq == [p \in 0 .. NPri - 1 |-> <<>>]
             laterq == <<>>
  <2>1. fl \in [Callbacks -> SUBSET (Kinds \cup {"finalizing"})]
    BY Zenon DEF Kinds
  <2>2. res \in [Callbacks -> SUBSET Reasons]
    BY Zenon
  <2>3. deadline \in [Timed -> Nat] /\ io_timeout \in [Events -> Nat]
    BY Zenon
  <2>4. laterq \in Seq(Callbacks)
    OBVIOUS
  <2>5. activeq \in [0 .. NPri - 1 -> Seq(Callbacks)]
    BY <2>4, Zenon
  <2>6. base = [flags |-> fl, res |-> res, deadline |-> deadline, io_timeout |-> io_timeout,
                activeq |-> activeq, laterq |-> laterq, event_count |-> 0,
                event_count_active |-> 0, n_deferreds_queued |-> 0, event_continue |-> FALSE,
                is_notify_pending |-> FALSE, eventfd |-> FALSE]
    BY ZenonT(30) DEF Init
  <2> HIDE DEF fl, res, deadline, io_timeout, activeq, laterq
  <2>7. [flags |-> fl, res |-> res, deadline |-> deadline, io_timeout |-> io_timeout,
         activeq |-> activeq, laterq |-> laterq, event_count |-> 0,
         event_count_active |-> 0, n_deferreds_queued |-> 0, event_continue |-> FALSE,
         is_notify_pending |-> FALSE, eventfd |-> FALSE] \in event_base
    BY <2>1, <2>2, <2>3, <2>4, <2>5, BaseMade, Zenon
  <2> QED
    BY <2>6, <2>7, ZenonT(30)
<1>3. LoopTypes
  <2>1. 0 \in 0 .. NPri - 1 /\ -1 \in -1 .. NPri - 1
    BY ConstantsAssumption
  <2> QED
    BY <2>1, Zenon DEF Init, LoopTypes, Unlocked
<1>4. Consistent(base)
  <2>1. Flagged(fl, "active") = {} /\ Flagged(fl, "later") = {}
    BY Zenon DEF Flagged
  <2>2. Memberships(fl) = {}
    BY Zenon DEF Memberships
  <2>3. Listed(<<>>) = {} /\ Distinct(<<>>)
    BY DEF Listed, Distinct
  <2>4. Cardinality({}) = 0
    BY FS_EmptySet, Zenon
  <2> HIDE DEF fl
  <2>5. Flagged(base.flags, "active") \cup Flagged(base.flags, "later") = {}
    BY <1>1, <2>1, Zenon
  <2> QED
    BY <1>1, <2>1, <2>2, <2>3, <2>4, <2>5, ZenonT(30) DEF Consistent
<1>5. \A c \in Callbacks : "later" \notin base.flags[c] /\ "finalizing" \notin base.flags[c]
  BY <1>1
<1>6. Sound(base)
  BY <1>2, <1>4, <1>5, Zenon DEF Sound
<1>7. Announced
  BY <1>1, Zenon DEF Init, Announced
<1> QED
  BY <1>3, <1>6, <1>7, Zenon DEF IInv

\* Every step keeps the invariant.
LEMMA StepInv == IInv /\ [Next]_vars => IInv'
<1>1. ASSUME IInv, UNCHANGED vars PROVE IInv'
  BY <1>1, Zenon DEF vars, loopvars, stopvars, timevars, fdvars, IInv, LoopTypes, Announced
<1>2. ASSUME IInv, NEW t \in Threads, Call(t) PROVE IInv'
  BY <1>2, CallInv, LoopBreakInv, Zenon
<1> QED
  BY <1>1, <1>2, TurnInv, LaterInv, PollInv, TimeoutInv, QueueInv, RunInv, DrainInv, OutsideInv,
     Zenon
     DEF Next, LoopStep

\* The inductive invariant holds, for any events, threads and priorities.
THEOREM LoopInvariant == Spec => []IInv
BY InitInv, StepInv, PTL DEF Spec

\* The flags, the queues and the counters of the base agree
\* (event_queue_insert_ and _remove_, event_base_assert_ok_nolock_).
THEOREM IntegrityCorrect == Spec => []Integrity
<1>1. IInv => Integrity
  BY Zenon DEF IInv, Sound, Integrity
<1> QED
  BY <1>1, LoopInvariant, PTL

\* A Looper that waits in epoll_wait is woken by event_base_loopbreak, and a
\* notification that is pending is one the eventfd announces, or one the Looper
\* is about to take back while it is awake (evthread_notify_base).
THEOREM BreakAnnounced == Spec => []Announced
<1>1. IInv => Announced
  BY Zenon DEF IInv
<1> QED
  BY <1>1, LoopInvariant, PTL

-----------------------------------------------------------------------------
(* Types, and how long epoll_wait sleeps.                                   *)

\* A set of numbers that is not empty has a smallest one.
LEMMA Smallest ==
  ASSUME NEW S \in SUBSET Nat, S # {}
  PROVE  \E m \in S : \A x \in S : m <= x
<1> DEFINE R == OpToRel(<, Nat)
<1>1. \A x, y \in Nat : <<x, y>> \in R <=> x < y
  BY Zenon DEF OpToRel
<1>2. IsWellFoundedOn(R, Nat)
  BY NatLessThanWellFounded, Zenon
<1> HIDE DEF R
<1>3. PICK m \in S : \A x \in S : <<x, m>> \notin R
  BY <1>2, WFMin, Zenon
<1>4. \A x \in S : x \in Nat /\ m \in Nat /\ ~(x < m)
  BY <1>1, <1>3, Zenon
<1> QED
  BY <1>4

\* The types of the other variables, and the cached time is not in the future.
RestTypes ==
  /\ mode \in {"run", "once", "nonblock"} /\ count \in Nat
  /\ current \in Callbacks \cup {None} /\ executing \in Callbacks \cup {None}
  /\ break \in BOOLEAN /\ gotterm \in BOOLEAN
  /\ until \in Nat \cup {Forever} /\ late \in Nat
  /\ waiting \in [Others -> Events \cup {None}] /\ woken \subseteq Others
  /\ life \in [Events -> {"live", "freeing", "freed_inside", "finalizing", "freed"}]
  /\ calls \in Nat
  /\ cache # None => cache <= now

\* timeout_next: what it computes is a time, and one that is early enough.
LEMMA WaitTime ==
  ASSUME LoopTypes, base \in event_base, cache # None => cache <= now
  PROVE  /\ now - gettime \in Nat /\ Wait \in Nat \cup {Forever}
         /\ Wait = Forever \/ now < Wait =>
              /\ base.event_count_active = 0
              /\ \A e \in Timers(base) : Wait # Forever /\ Wait <= base.deadline[e] + (now - gettime)
<1> DEFINE due == {base.deadline[e] : e \in Timers(base)}
           first == CHOOSE d \in due : \A x \in due : d <= x
           w == Wait
<1>1. now \in Nat /\ gettime \in Nat /\ gettime <= now /\ now - gettime \in Nat
  BY ConstantsAssumption DEF LoopTypes, gettime
<1>2. due \in SUBSET Nat /\ \A e \in Timers(base) : base.deadline[e] \in Nat /\ base.deadline[e] \in due
  BY DEF event_base, Timers
<1>3. w = IF base.event_count_active # 0 \/ mode = "nonblock" THEN now
          ELSE IF due = {} THEN Forever
          ELSE IF first <= gettime THEN now
          ELSE now + first - gettime
  BY Zenon DEF Wait
<1>4. CASE due = {}
  <2>1. Timers(base) = {}
    BY <1>2, <1>4, Zenon
  <2>2. w = now \/ (w = Forever /\ base.event_count_active = 0)
    BY <1>3, <1>4, Zenon
  <2> HIDE DEF w, due, first
  <2> QED
    BY <1>1, <2>1, <2>2 DEF w, Forever
<1>5. CASE due # {}
  <2>1. first \in due /\ \A x \in due : first <= x
    <3>1. \E d \in due : \A x \in due : d <= x
      BY <1>2, <1>5, Smallest, Zenon
    <3> HIDE DEF due
    <3> QED
      BY <3>1, Zenon
  <2>2. w = now \/ (w = now + first - gettime /\ ~(first <= gettime) /\ base.event_count_active = 0)
    BY <1>3, <1>5, Zenon
  <2>3. first \in Nat /\ \A e \in Timers(base) : base.deadline[e] \in Nat /\ first <= base.deadline[e]
    BY <1>2, <2>1, Zenon
  <2> HIDE DEF w, due, first
  <2>4. w \in Nat /\ w # Forever
    BY <1>1, <2>2, <2>3 DEF Forever
  <2>5. ASSUME now < w, NEW e \in Timers(base) PROVE w <= base.deadline[e] + (now - gettime)
    BY <1>1, <2>2, <2>3, <2>5
  <2> QED
    BY <1>1, <2>2, <2>4, <2>5 DEF w
<1> QED
  BY <1>4, <1>5, Zenon

\* event_process_active_single_queue takes an active callback of the queue.
LEMMA Taken ==
  ASSUME IInv, RunCallback
  PROVE  /\ executing' \in Callbacks /\ "active" \in base.flags[executing']
         /\ Pri[executing'] = queue
         /\ base' = Dequeue(base, executing')
         /\ count' = count + Weight(executing')
         /\ current' = IF "finalizing" \in base.flags[executing'] THEN None ELSE executing'
<1> DEFINE q == base.activeq[queue]
<1>1. LoopTypes /\ Sound(base) /\ queue \in 0 .. NPri - 1
  BY Zenon DEF IInv, LoopTypes
<1>2. q # <<>> /\ executing' = Head(q)
  BY Zenon DEF RunCallback
<1>3. q \in Seq(Callbacks)
  BY <1>1, Zenon DEF Sound, event_base
<1>4. Listed(q) = {x \in Flagged(base.flags, "active") : Pri[x] = queue} /\ Distinct(q)
  BY <1>1, ZenonT(30) DEF Sound, Consistent
<1>5. /\ base' = Dequeue(base, executing') /\ count' = count + Weight(executing')
      /\ current' = IF "finalizing" \in base.flags[executing'] THEN None ELSE executing'
  BY ZenonT(30) DEF RunCallback
<1> HIDE DEF q
<1>6. executing' \in Listed(q)
  BY <1>2, <1>3, <1>4, TailFacts, ZenonT(30)
<1>7. executing' \in Callbacks /\ "active" \in base.flags[executing'] /\ Pri[executing'] = queue
  BY <1>4, <1>6, ZenonT(30) DEF Flagged
<1> QED
  BY <1>5, <1>7, Zenon

\* Every step of the Looper keeps the types.
LEMMA LooperTypes ==
  ASSUME IInv, RestTypes, LoopStep \/ Loop \/ PollInterrupted \/ PollFails
  PROVE  RestTypes'
<1> USE DEF RestTypes
<1>0. LoopTypes /\ base \in event_base /\ now \in Nat
  BY Zenon DEF IInv, Sound, LoopTypes
<1>1. CASE Loop
  BY <1>1, Zenon DEF Loop, fdvars, uservars
<1>2. CASE Top
  <2>1. until' \in Nat \cup {Forever} /\ late' \in Nat /\ (cache' = cache \/ cache' = None)
        /\ mode' \in {"run", "once", "nonblock"} /\ count' \in Nat
    BY <1>0, <1>2, WaitTime DEF Top, Leave
  <2> QED
    BY <1>2, <2>1, Zenon DEF Top, stopvars, uservars
<1>3. CASE MakeLaterActive
  <2>1. cache' = cache \/ cache' = None
    BY <1>3, Zenon DEF MakeLaterActive
  <2> QED
    BY <1>3, <2>1, Zenon DEF MakeLaterActive, stopvars, uservars
<1>4. CASE PollReturns \/ PollInterrupted \/ PollFails
  BY <1>4 DEF PollReturns, PollInterrupted, PollFails, Leave, stopvars, uservars
<1>5. CASE Collect
  <2>1. cache' = cache \/ cache' = now
    BY <1>5, Zenon DEF Collect
  <2> QED
    BY <1>0, <1>5, <2>1 DEF Collect, stopvars, uservars
<1>6. CASE TimeoutProcess \/ TimeoutsDone
  BY <1>6 DEF TimeoutProcess, TimeoutsDone, Leave, loopvars, stopvars, timevars, uservars
<1>7. ASSUME NEW b, NEW n, Finish(b, n) \/ NextQueue(b)
      PROVE  /\ mode' \in {"run", "once", "nonblock"} /\ count' \in Nat
             /\ until' \in Nat \cup {Forever} /\ late' \in Nat
             /\ cache' = cache \/ cache' = None
  BY <1>7 DEF Finish, NextQueue, Leave
<1>8. CASE SkipQueue
  BY <1>7, <1>8, Zenon DEF SkipQueue, stopvars, uservars
<1>9. CASE RunCallback
  <2>1. executing' \in Callbacks /\ current' \in Callbacks \cup {None} /\ count' = count + Weight(executing')
    BY <1>9, Taken, Zenon
  <2>2. count' \in Nat
    BY <2>1 DEF Weight
  <2> QED
    BY <1>9, <2>1, <2>2, Zenon DEF RunCallback, stopvars, timevars, uservars
<1>10. ASSUME Return
       PROVE  /\ mode' \in {"run", "once", "nonblock"} /\ count' \in Nat
              /\ until' \in Nat \cup {Forever} /\ late' \in Nat
              /\ cache' = cache \/ cache' = None
              /\ current' = None /\ executing' = None /\ woken' \subseteq Others
  BY <1>7, <1>10, Zenon DEF Return
<1>11. CASE CallbackReturns
  BY <1>10, <1>11, Zenon DEF CallbackReturns, stopvars
<1>12. CASE ExitCallback \/ DrainReturns
  BY <1>10, <1>12, Zenon DEF ExitCallback, DrainReturns, stopvars
<1>13. CASE DrainRead \/ DrainClear
  BY <1>13, Zenon DEF DrainRead, DrainClear, stopvars, timevars, uservars
<1> QED
  BY <1>1, <1>2, <1>3, <1>4, <1>5, <1>6, <1>8, <1>9, <1>11, <1>12, <1>13 DEF LoopStep

\* So do the calls, the threads that wait, the data and the clock.
LEMMA OutsideTypes ==
  ASSUME IInv, RestTypes,
         \/ \E t \in Threads : Call(t)
         \/ (\E t \in Others : Wake(t)) \/ (\E e \in IO : Arrive(e)) \/ Tick
  PROVE  RestTypes'
<1> USE DEF RestTypes
<1>0. now \in Nat /\ cache \in Nat \cup {None}
  BY Zenon DEF IInv, LoopTypes
<1>1. CASE Tick
  BY <1>0, <1>1, ConstantsAssumption DEF Tick, loopvars, stopvars, uservars
<1>2. CASE \E e \in IO : Arrive(e)
  BY <1>2 DEF Arrive, loopvars, stopvars, timevars, uservars
<1>3. CASE \E t \in Others : Wake(t)
  BY <1>3, Zenon DEF Wake, loopvars, stopvars, timevars
<1>4. ASSUME NEW t \in Threads, Call(t) PROVE RestTypes'
  <2>1. ASSUME UNCHANGED <<loopvars, timevars, gotterm>>, break' \in BOOLEAN, calls' = calls + 1,
               waiting' \in [Others -> Events \cup {None}], woken' = woken,
               life' \in [Events -> {"live", "freeing", "freed_inside", "finalizing", "freed"}]
        PROVE  RestTypes'
    BY <2>1 DEF loopvars, timevars
  <2>2. ASSUME UNCHANGED <<loopvars, timevars, gotterm, uservars>>, break' \in BOOLEAN, Calls(t)
        PROVE  RestTypes'
    BY <2>1, <2>2, Zenon DEF uservars, Calls
  <2>3. ASSUME NEW e \in Events, \/ \E tv \in Intervals \cup {None} : Add(t, e, tv)
                                 \/ RemoveTimer(t, e) \/ Activate(t, e)
        PROVE  RestTypes'
    BY <2>2, <2>3, Zenon DEF Add, RemoveTimer, Activate, CallsOn, stopvars
  <2>4. ASSUME NEW e \in Events, Del(t, e) \/ Free(t, e) PROVE RestTypes'
    <3>1. t # Looper => t \in Others
      BY Zenon DEF Threads
    <3> QED
      BY <2>1, <2>4, <3>1, Zenon DEF Del, Free, Waits, CallsOn, Calls, stopvars
  <2>5. ASSUME NEW e \in Events, Finalize(t, e) PROVE RestTypes'
    BY <2>1, <2>5, Zenon DEF Finalize, CallsOn, Calls, stopvars
  <2>6. ASSUME NEW d \in Deferred, Schedule(t, d) \/ Cancel(t, d) PROVE RestTypes'
    BY <2>2, <2>6, Zenon DEF Schedule, Cancel, stopvars
  <2>7. ASSUME NEW x \in Exits, NEW tv \in Intervals \cup {None}, LoopExit(t, x, tv)
        PROVE  RestTypes'
    BY <2>2, <2>7, Zenon DEF LoopExit, stopvars
  <2>8. CASE LoopBreak(t) \/ LoopContinue(t)
    BY <2>2, <2>8, Zenon DEF LoopBreak, LoopContinue, stopvars
  <2> QED
    BY <1>4, <2>3, <2>4, <2>5, <2>6, <2>7, <2>8 DEF Call
<1> QED
  BY <1>1, <1>2, <1>3, <1>4, Zenon

\* A base made by event_base_new, before any call.
LEMMA InitTypes == Init => RestTypes
<1> SUFFICES ASSUME Init PROVE RestTypes
  BY Zenon
<1>1. /\ mode = "run" /\ count = 0 /\ current = None /\ executing = None
      /\ break = FALSE /\ gotterm = FALSE /\ cache = None /\ until = Forever /\ late = 0
      /\ waiting = [t \in Others |-> None] /\ woken = {}
      /\ life = [e \in Events |-> "live"] /\ calls = 0
  BY Zenon DEF Init
<1> QED
  BY <1>1, Zenon DEF RestTypes

\* Every step keeps the types.
LEMMA StepTypes == IInv /\ RestTypes /\ [Next]_vars => RestTypes'
<1>1. ASSUME RestTypes, UNCHANGED vars PROVE RestTypes'
  BY <1>1, Zenon DEF vars, loopvars, stopvars, timevars, uservars, RestTypes
<1> QED
  BY <1>1, LooperTypes, OutsideTypes, Zenon DEF Next

\* The types hold.
LEMMA RestInvariant == Spec => []RestTypes
BY InitTypes, StepTypes, LoopInvariant, PTL DEF Spec

\* Every variable of the loop keeps its type, whatever is called and when.
THEOREM LoopTypeCorrect == Spec => []TypeOK
<1>1. IInv /\ RestTypes => TypeOK
  BY Zenon DEF IInv, Sound, LoopTypes, RestTypes, TypeOK
<1> QED
  BY <1>1, RestInvariant, LoopInvariant, PTL

-----------------------------------------------------------------------------
(* Urgent callbacks first.                                                  *)

\* Where the Looper runs a callback.
InCallback == {"callback", "drain", "drained"}

\* No event that is more urgent than queue q is active, or q is being cut short.
Ordered(b, q) == b.event_continue \/ \A e \in Timed : "active" \in b.flags[e] => Pri[e] >= q

PriorityInv ==
  /\ pc \in InCallback => running = queue
  /\ pc \in InCallback \cup {"process"} => Ordered(base, queue)

\* Every call of the API changes the flags of one callback at most, and makes an
\* urgent event active only if it cuts the queue that runs short.
LEMMA CallConfined ==
  ASSUME IInv, NEW t \in Threads, Call(t)
  PROVE  \E c \in Callbacks : Confined(base, base', c)
<1>1. Sound(base) /\ LoopTypes /\ Intervals \cup {None} \subseteq Nat \cup {None}
    /\ Events \subseteq Timed /\ Exits \subseteq Timed /\ Timed \subseteq Callbacks
    /\ Deferred \subseteq Callbacks /\ Notify \in Callbacks /\ FALSE \in BOOLEAN
    /\ "user" \in Reasons /\ "timeout" \in Reasons
  BY ConstantsAssumption, ZenonT(30) DEF IInv, Timed, Reasons, Callbacks
<1>2. ASSUME NEW e \in Timed, NEW tv \in Intervals \cup {None},
             base' = AddNolock(base, t, e, tv, FALSE)
      PROVE  \E c \in Callbacks : Confined(base, base', c)
  BY <1>1, <1>2, Adds, ZenonT(30) DEF Moves
<1>3. ASSUME NEW e \in Timed, NEW why \in Reasons, base' = ActiveNolock(base, t, e, why)
      PROVE  \E c \in Callbacks : Confined(base, base', c)
  BY <1>1, <1>3, ActivesEvent, Zenon DEF Moves
<1>4. ASSUME NEW e \in Timed, base' = DelNolock(base, t, e)
      PROVE  \E c \in Callbacks : Confined(base, base', c)
  BY <1>1, <1>4, Deletes, Zenon DEF Moves
<1>5. ASSUME NEW e \in Events,
             \/ \E tv \in Intervals \cup {None} : Add(t, e, tv)
             \/ RemoveTimer(t, e) \/ Activate(t, e) \/ Del(t, e) \/ Free(t, e) \/ Finalize(t, e)
      PROVE  \E c \in Callbacks : Confined(base, base', c)
  <2>1. e \in Timed /\ e \in Callbacks
    BY <1>1, Zenon
  <2>2. CASE RemoveTimer(t, e) \/ Finalize(t, e)
    BY <2>1, <2>2, RemoveTimerInv, FinalizeInv, Zenon DEF Moves
  <2> QED
    BY <1>1, <1>2, <1>3, <1>4, <1>5, <2>1, <2>2, ZenonT(30) DEF Add, Activate, Del, Free
<1>6. ASSUME NEW d \in Deferred, Schedule(t, d) \/ Cancel(t, d)
      PROVE  \E c \in Callbacks : Confined(base, base', c)
  <2>1. d \in Callbacks /\ Moves(base, base', d)
    BY <1>1, <1>6, ScheduleInv, Cancels, Zenon DEF Cancel
  <2> QED
    BY <2>1, Zenon DEF Moves
<1>7. ASSUME NEW x \in Exits, NEW tv \in Intervals \cup {None}, LoopExit(t, x, tv)
      PROVE  \E c \in Callbacks : Confined(base, base', c)
  BY <1>1, <1>2, <1>3, <1>7, ZenonT(30) DEF LoopExit
<1>8. CASE LoopBreak(t) \/ LoopContinue(t)
  <2>1. base'.flags = base.flags /\ (base'.event_continue = base.event_continue \/ base'.event_continue)
    BY <1>1, <1>8, Notifies, LoopContinueInv DEF LoopBreak
  <2> QED
    BY <1>1, <2>1, Zenon DEF Confined
<1> QED
  BY <1>5, <1>6, <1>7, <1>8, Zenon DEF Call

\* Such a change of the base keeps the order.
LEMMA OrderKept ==
  ASSUME NEW b, NEW r, NEW c \in Callbacks, NEW q, Confined(b, r, c), Ordered(b, q),
         c \in Timed => running = q \/ Pri[c] >= q
  PROVE  Ordered(r, q)
<1> Timed \subseteq Callbacks
  BY Zenon DEF Timed, Callbacks
<1>1. CASE b.event_continue
  BY <1>1, Zenon DEF Confined, Ordered
<1>2. CASE ~b.event_continue /\ ~r.event_continue
  <2> SUFFICES ASSUME NEW e \in Timed, "active" \in r.flags[e] PROVE Pri[e] >= q
    BY <1>2, Zenon DEF Ordered
  <2>1. CASE e = c
    BY <1>2, <2>1, Zenon DEF Confined, Ordered
  <2>2. CASE e # c
    BY <1>2, <2>2, Zenon DEF Confined, Ordered
  <2> QED
    BY <2>1, <2>2, Zenon
<1> QED
  BY <1>1, <1>2, Zenon DEF Ordered

\* The next queue is entered when the one before it is empty.
LEMMA QueueLeft ==
  ASSUME IInv, Ordered(base, queue), base' = base,
         NextQueue(base), base.event_continue \/ base.activeq[queue] = <<>>
  PROVE  pc' \in InCallback \cup {"process"} => pc' = "process" /\ Ordered(base', queue')
<1>1. LoopTypes /\ Sound(base) /\ queue \in 0 .. NPri - 1 /\ NPri \in Nat
  BY ConstantsAssumption, Zenon DEF IInv, LoopTypes
<1>2. pc' \in {"top", "idle"} \/ (pc' = "process" /\ queue' = queue + 1)
  BY Zenon DEF NextQueue, Finish, Leave
<1>3. CASE base.event_continue
  BY <1>2, <1>3, Zenon DEF Ordered, InCallback
<1>4. CASE ~base.event_continue
  <2>1. Listed(base.activeq[queue]) = {c \in Flagged(base.flags, "active") : Pri[c] = queue}
    BY <1>1, Zenon DEF Sound, Consistent
  <2>2. Listed(base.activeq[queue]) = {}
    BY <1>4 DEF Listed
  <2>3. ASSUME NEW e \in Timed, "active" \in base.flags[e] PROVE Pri[e] >= queue + 1
    <3>1. e \in Callbacks /\ Pri[e] \in Nat
      BY ConstantsAssumption DEF Timed, Callbacks
    <3>2. Pri[e] # queue
      BY <2>1, <2>2, <2>3, <3>1, Zenon DEF Flagged
    <3>3. Pri[e] >= queue
      BY <1>4, <2>3, Zenon DEF Ordered
    <3> QED
      BY <1>1, <3>1, <3>2, <3>3
  <2> QED
    BY <1>2, <2>3, Zenon DEF Ordered, InCallback
<1> QED
  BY <1>3, <1>4, Zenon

\* Every step keeps the order.
LEMMA PriorityStep ==
  ASSUME IInv, PriorityInv, [Next]_vars
  PROVE  PriorityInv'
<1>0. Sound(base) /\ base \in event_base /\ LoopTypes /\ queue \in 0 .. NPri - 1
  BY Zenon DEF IInv, Sound, LoopTypes
<1>1. ASSUME UNCHANGED <<base, loopvars>> PROVE PriorityInv'
  BY <1>1, Zenon DEF PriorityInv, loopvars, Ordered
<1>2. ASSUME NEW t \in Threads, Call(t) PROVE PriorityInv'
  <2>1. UNCHANGED loopvars /\ Calls(t)
    BY <1>2, ZenonT(30) DEF Call, Add, RemoveTimer, Activate, Del, Free, Finalize, Schedule,
           Cancel, LoopExit, LoopBreak, LoopContinue, CallsOn
  <2>2. pc # "process"
    BY <2>1, Zenon DEF Calls, InUserCode, Unlocked
  <2>3. PICK c \in Callbacks : Confined(base, base', c)
    BY <1>2, CallConfined, Zenon
  <2>4. pc \in InCallback => Ordered(base', queue)
    BY <2>3, OrderKept, Zenon DEF PriorityInv
  <2> QED
    BY <2>1, <2>2, <2>4, Zenon DEF PriorityInv, loopvars
<1>3. ASSUME pc' \notin InCallback \cup {"process"} PROVE PriorityInv'
  BY <1>3, Zenon DEF PriorityInv
<1>4. CASE TimeoutsDone
  <2>1. pc' \in {"process", "idle", "top"} /\ (pc' = "process" => queue' = 0)
    BY <1>4, Zenon DEF TimeoutsDone, Leave
  <2>2. \A e \in Timed : Pri[e] \in Nat
    BY ConstantsAssumption DEF Timed, Callbacks
  <2> QED
    BY <2>1, <2>2 DEF PriorityInv, Ordered, InCallback
<1>5. CASE SkipQueue
  BY <1>3, <1>5, QueueLeft, Zenon DEF SkipQueue, PriorityInv, InCallback
<1>6. CASE RunCallback
  <2>1. /\ executing' \in Callbacks /\ "active" \in base.flags[executing']
        /\ Pri[executing'] = queue /\ base' = Dequeue(base, executing')
    BY <1>6, Taken, Zenon
  <2>2. Confined(base, base', executing')
    BY <1>0, <2>1, Dequeues, Zenon DEF Moves
  <2>3. pc = "process" /\ pc' = "callback" /\ running' = queue /\ queue' = queue
    BY <1>6, Zenon DEF RunCallback
  <2>4. Ordered(base', queue)
    BY <1>0, <2>1, <2>2, <2>3, OrderKept DEF PriorityInv
  <2> QED
    BY <2>3, <2>4, Zenon DEF PriorityInv
<1>7. CASE CallbackReturns \/ ExitCallback \/ DrainReturns
  <2>1. pc \in InCallback /\ base' = base /\ Return
    BY <1>7, Zenon DEF CallbackReturns, ExitCallback, DrainReturns, InCallback
  <2>2. Ordered(base, queue)
    BY <2>1, Zenon DEF PriorityInv
  <2>3. CASE \E n : Finish(base, n)
    BY <1>3, <2>3, Zenon DEF Finish, Leave, InCallback
  <2>4. CASE NextQueue(base) /\ (base.event_continue \/ base.activeq[queue] = <<>>)
    BY <2>1, <2>2, <2>4, QueueLeft, Zenon DEF PriorityInv, InCallback
  <2>5. CASE pc' = "process" /\ UNCHANGED queue
    BY <2>1, <2>2, <2>5, Zenon DEF PriorityInv, InCallback
  <2> QED
    BY <2>1, <2>3, <2>4, <2>5, Zenon DEF Return
<1>8. CASE DrainRead \/ DrainClear
  <2>1. base'.flags = base.flags /\ base'.event_continue = base.event_continue
    BY <1>0, <1>8, Zenon DEF DrainRead, DrainClear, event_base
  <2>2. pc \in InCallback /\ pc' \in InCallback /\ UNCHANGED <<queue, running>>
    BY <1>8, Zenon DEF DrainRead, DrainClear, InCallback
  <2> QED
    BY <2>1, <2>2, Zenon DEF PriorityInv, Ordered
<1>9. CASE \/ Top \/ MakeLaterActive \/ PollReturns \/ Collect \/ TimeoutProcess
           \/ Loop \/ PollInterrupted \/ PollFails
  BY <1>3, <1>9 DEF Top, MakeLaterActive, PollReturns, Collect, TimeoutProcess, Loop,
     PollInterrupted, PollFails, Leave, InCallback, loopvars
<1>10. CASE (\E t \in Others : Wake(t)) \/ (\E e \in IO : Arrive(e)) \/ Tick \/ UNCHANGED vars
  BY <1>1, <1>10, Zenon DEF Wake, Arrive, Tick, vars
<1> QED
  BY <1>2, <1>4, <1>5, <1>6, <1>7, <1>8, <1>9, <1>10, Zenon DEF Next, LoopStep

\* When a callback starts, no event of a more urgent priority is active, unless
\* the queue of that priority was cut short (event_process_active and the test
\* on event_running_priority in event_active_nolock_).
THEOREM PriorityCorrect == Spec => PriorityRespected
<1>1. Init => PriorityInv
  BY Zenon DEF Init, PriorityInv, InCallback
<1>2. IInv /\ PriorityInv /\ [Next]_vars => PriorityInv'
  BY PriorityStep, Zenon
<1>3. PriorityInv =>
        [pc = "process" /\ pc' = "callback" /\ ~base.event_continue =>
           \A e \in Timed : "active" \in base.flags[e] => Pri[e] >= queue]_vars
  BY Zenon DEF PriorityInv, Ordered
<1> QED
  BY <1>1, <1>2, <1>3, LoopInvariant, PTL DEF Spec, PriorityRespected

-----------------------------------------------------------------------------
(* The break.                                                               *)

\* event_running_priority is set while a pass over the queues has run a
\* callback, and a pass that goes on after a callback has seen no break.
BreakInv ==
  /\ pc \notin InCallback \cup {"process"} => running = -1
  /\ pc = "process" /\ break => running = -1

\* What event_base_loopbreak documents, "event_base_loop() will abort the loop
\* after the next event is completed": the request is not lost while the loop
\* runs, and a callback that still starts is the first of its pass over the
\* queues, so that none starts after a callback at whose end the break was set.
\* (event_base_loop, event_process_active_single_queue, event_process_active.)
BreakObeyed ==
  [][pc # "idle" /\ break =>
       /\ break'
       /\ pc' = "callback" /\ pc # "callback" => running = -1 /\ running' # -1]_vars

\* Every step keeps the invariant.
LEMMA BreakStep ==
  ASSUME BreakInv, [Next]_vars
  PROVE  BreakInv'
<1>1. ASSUME UNCHANGED <<loopvars, stopvars>> PROVE BreakInv'
  BY <1>1, Zenon DEF BreakInv, loopvars, stopvars
<1>2. ASSUME NEW t \in Threads, Call(t) PROVE BreakInv'
  <2>1. UNCHANGED loopvars /\ Calls(t)
    BY <1>2, ZenonT(30) DEF Call, Add, RemoveTimer, Activate, Del, Free, Finalize, Schedule,
           Cancel, LoopExit, LoopBreak, LoopContinue, CallsOn
  <2>2. pc # "process"
    BY <2>1, Zenon DEF Calls, InUserCode, Unlocked
  <2> QED
    BY <2>1, <2>2, Zenon DEF BreakInv, loopvars
<1>3. ASSUME running' = -1 PROVE BreakInv'
  BY <1>3, Zenon DEF BreakInv
<1>4. CASE \/ Top \/ MakeLaterActive \/ PollReturns \/ Collect \/ TimeoutProcess \/ TimeoutsDone
           \/ Loop \/ PollInterrupted \/ PollFails
  <2>1. pc \notin InCallback \cup {"process"}
    BY <1>4, Zenon DEF Top, MakeLaterActive, PollReturns, Collect, TimeoutProcess, TimeoutsDone,
       Loop, PollInterrupted, PollFails, InCallback
  <2>2. running' = running
    BY <1>4, Zenon DEF Top, MakeLaterActive, PollReturns, Collect, TimeoutProcess, TimeoutsDone,
       Loop, PollInterrupted, PollFails, loopvars
  <2> QED
    BY <1>3, <2>1, <2>2, Zenon DEF BreakInv
<1>5. ASSUME NextQueue(base), UNCHANGED break, break => running = -1 PROVE BreakInv'
  <2>1. CASE running' = -1
    BY <1>3, <2>1, Zenon
  <2>2. CASE pc' = "process" /\ UNCHANGED running
    BY <1>5, <2>2, Zenon DEF BreakInv
  <2> QED
    BY <1>5, <2>1, <2>2, Zenon DEF NextQueue, Finish
<1>6. CASE SkipQueue
  BY <1>5, <1>6, Zenon DEF SkipQueue, BreakInv, stopvars
<1>7. CASE RunCallback \/ DrainRead \/ DrainClear
  <2>1. pc' \in InCallback /\ pc' # "process"
    BY <1>7, Zenon DEF RunCallback, DrainRead, DrainClear, InCallback
  <2> QED
    BY <2>1, Zenon DEF BreakInv
<1>8. CASE CallbackReturns \/ ExitCallback \/ DrainReturns
  <2>1. Return /\ UNCHANGED break
    BY <1>8, Zenon DEF CallbackReturns, ExitCallback, DrainReturns, stopvars
  <2>2. CASE \E n : Finish(base, n)
    BY <1>3, <2>2, Zenon DEF Finish
  <2>3. CASE ~break /\ NextQueue(base)
    BY <1>5, <2>1, <2>3, Zenon
  <2>4. CASE ~break /\ pc' = "process"
    BY <2>1, <2>4, Zenon DEF BreakInv
  <2> QED
    BY <2>1, <2>2, <2>3, <2>4, Zenon DEF Return
<1>9. CASE (\E t \in Others : Wake(t)) \/ (\E e \in IO : Arrive(e)) \/ Tick \/ UNCHANGED vars
  BY <1>1, <1>9, Zenon DEF Wake, Arrive, Tick, vars
<1> QED
  BY <1>2, <1>4, <1>6, <1>7, <1>8, <1>9, Zenon DEF Next, LoopStep

\* After event_base_loopbreak at most the next callback runs: only the entry of
\* event_base_loop clears event_break, and event_process_active_single_queue
\* tests it after every callback.
THEOREM BreakCorrect == Spec => BreakObeyed
<1>1. Init => BreakInv
  BY Zenon DEF Init, BreakInv
<1>2. BreakInv /\ [Next]_vars => BreakInv'
  BY BreakStep, Zenon
<1>3. ASSUME IInv, BreakInv, Next, pc # "idle", break
      PROVE  break' /\ (pc' = "callback" /\ pc # "callback" => running = -1 /\ running' # -1)
  <2>1. break'
    <3>1. CASE LoopStep \/ PollInterrupted \/ PollFails \/ Loop
      BY <1>3, <3>1, ZenonT(30) DEF LoopStep, Top, MakeLaterActive, PollReturns, Collect,
         TimeoutProcess, TimeoutsDone, SkipQueue, RunCallback, CallbackReturns, ExitCallback,
         DrainRead, DrainClear, DrainReturns, PollInterrupted, PollFails, Loop, stopvars
    <3>2. CASE \E t \in Threads : Call(t)
      BY <1>3, <3>2, ZenonT(30) DEF Call, Add, RemoveTimer, Activate, Del, Free, Finalize,
         Schedule, Cancel, LoopExit, LoopBreak, LoopContinue, stopvars
    <3>3. CASE (\E t \in Others : Wake(t)) \/ (\E e \in IO : Arrive(e)) \/ Tick
      BY <1>3, <3>3, Zenon DEF Wake, Arrive, Tick, stopvars
    <3> QED
      BY <1>3, <3>1, <3>2, <3>3, Zenon DEF Next
  <2>2. ASSUME pc' = "callback", pc # "callback" PROVE RunCallback
    <3>1. CASE LoopStep
      BY <2>2, <3>1 DEF LoopStep, Top, MakeLaterActive, PollReturns, Collect, TimeoutProcess,
         TimeoutsDone, SkipQueue, CallbackReturns, ExitCallback, DrainRead, DrainClear,
         DrainReturns, Return, NextQueue, Finish, Leave, loopvars
    <3>2. CASE PollInterrupted \/ PollFails \/ Loop
      BY <2>2, <3>2 DEF PollInterrupted, PollFails, Loop, Leave
    <3>3. CASE \E t \in Threads : Call(t)
      BY <2>2, <3>3, ZenonT(30) DEF Call, Add, RemoveTimer, Activate, Del, Free, Finalize,
         Schedule, Cancel, LoopExit, LoopBreak, LoopContinue, loopvars
    <3>4. CASE (\E t \in Others : Wake(t)) \/ (\E e \in IO : Arrive(e)) \/ Tick
      BY <2>2, <3>4, Zenon DEF Wake, Arrive, Tick, loopvars
    <3> QED
      BY <1>3, <3>1, <3>2, <3>3, <3>4, Zenon DEF Next
  <2>3. ASSUME RunCallback PROVE running = -1 /\ running' # -1
    <3>1. pc = "process" /\ running' = queue /\ queue \in 0 .. NPri - 1 /\ NPri \in Nat
      BY <1>3, <2>3, ConstantsAssumption, Zenon DEF RunCallback, IInv, LoopTypes
    <3>2. running = -1
      BY <1>3, <3>1, Zenon DEF BreakInv
    <3> QED
      BY <3>1, <3>2
  <2> QED
    BY <2>1, <2>2, <2>3, Zenon
<1>4. IInv /\ BreakInv /\ [Next]_vars =>
        [pc # "idle" /\ break =>
           /\ break'
           /\ pc' = "callback" /\ pc # "callback" => running = -1 /\ running' # -1]_vars
  BY <1>3, Zenon
<1> QED
  BY <1>1, <1>2, <1>4, LoopInvariant, PTL DEF Spec, BreakObeyed

-----------------------------------------------------------------------------
(* The life of an event.                                                    *)

\* No queue, heap or map of the base has event e.
Gone(b, e) == b.flags[e] \cap Kinds = {}

\* What is left of an event at each stage of its life.  Only a finalizer runs
\* without being current_event.
LifeOf(e) ==
  /\ "finalizing" \in base.flags[e] => life[e] \in {"finalizing", "freed"}
  /\ life[e] \in {"freeing", "freed_inside", "freed"} => Gone(base, e)
  /\ executing = e /\ current = None => life[e] = "finalizing" /\ Gone(base, e)
  /\ life[e] = "freed" => executing # e

\* A thread that was woken and that frees an event will find its callback ended.
LifeInv ==
  /\ pc \notin InCallback => executing = None
  /\ current \in {None, executing}
  /\ \A e \in Events : LifeOf(e)
  /\ \A u \in woken : waiting[u] # None /\ (life[waiting[u]] = "freeing" => executing # waiting[u])

\* A step that moves, if any, a callback that is no event, or a live event, or
\* one that is in the base.
LEMMA LifeFrame ==
  ASSUME LifeInv, UNCHANGED <<executing, current, uservars>>,
         executing = None \/ pc' \in InCallback,
         NEW c, Moves(base, base', c), c \in Events => life[c] = "live" \/ ~Gone(base, c)
  PROVE  LifeInv'
<1>1. ASSUME NEW e \in Events PROVE LifeOf(e)'
  <2>0. LifeOf(e) /\ UNCHANGED <<life, executing, current>> /\ e \in Callbacks
    BY Zenon DEF LifeInv, uservars, Callbacks
  <2>1. CASE e = c
    BY <2>0, <2>1, Zenon DEF LifeOf, Moves
  <2>2. CASE e # c
    <3>1. base'.flags[e] = base.flags[e]
      BY <2>0, <2>2, Zenon DEF Moves, Confined
    <3> QED
      BY <2>0, <3>1, Zenon DEF LifeOf, Gone
  <2> QED
    BY <2>1, <2>2, Zenon
<1> QED
  BY <1>1, Zenon DEF LifeInv, uservars

\* A step that leaves the flags as they are.
LEMMA LifeSame ==
  ASSUME LifeInv, UNCHANGED <<executing, current, uservars>>, base'.flags = base.flags,
         executing = None \/ pc' \in InCallback
  PROVE  LifeInv'
<1>1. ASSUME NEW e \in Events PROVE LifeOf(e)'
  BY Zenon DEF LifeInv, LifeOf, Gone, uservars
<1> QED
  BY <1>1, Zenon DEF LifeInv, uservars

\* The Looper outside callbacks.
LEMMA LifeLoop ==
  ASSUME IInv, LifeInv,
         \/ Loop \/ Top \/ MakeLaterActive \/ PollReturns \/ PollInterrupted \/ PollFails
         \/ Collect \/ TimeoutProcess \/ TimeoutsDone \/ SkipQueue
  PROVE  LifeInv'
<1>1. /\ UNCHANGED <<executing, current, uservars>> /\ pc \notin InCallback
      /\ Sound(base) /\ base \in event_base /\ LoopTypes
  BY Zenon DEF IInv, Sound, Loop, Top, MakeLaterActive, PollReturns, PollInterrupted, PollFails,
     Collect, TimeoutProcess, TimeoutsDone, SkipQueue, InCallback, loopvars
<1>2. executing = None
  BY <1>1, Zenon DEF LifeInv
<1>3. CASE base'.flags = base.flags
  BY <1>1, <1>2, <1>3, LifeSame, Zenon
<1>4. CASE Top
  BY <1>1, <1>3, <1>4, Zenon DEF Top, event_base
<1>5. ASSUME MakeLaterActive, base.laterq # <<>> PROVE LifeInv'
  <2> DEFINE c == Head(base.laterq)
  <2>1. base.laterq \in Seq(Callbacks) /\ Distinct(base.laterq)
        /\ Listed(base.laterq) = Flagged(base.flags, "later")
    BY <1>1, Zenon DEF Sound, Consistent, event_base
  <2>2. c \in Listed(base.laterq)
    BY <1>5, <2>1, TailFacts, Zenon
  <2>3. c \in Deferred /\ c \in Callbacks /\ c \notin Events /\ c \notin Timed
    BY <1>1, <2>1, <2>2, ConstantsAssumption, Zenon DEF Sound, Flagged, Timed
  <2>4. base' = [base EXCEPT !.flags[c] = (@ \ {"later"}) \cup {"active"}, !.laterq = Tail(@),
                             !.activeq[Pri[c]] = Append(@, c), !.n_deferreds_queued = @ + 1]
    BY <1>5, Zenon DEF MakeLaterActive
  <2> HIDE DEF c
  <2>5. /\ base'.flags = [base.flags EXCEPT ![c] = (@ \ {"later"}) \cup {"active"}]
        /\ base'.event_continue = base.event_continue
    BY <1>1, <2>4, Zenon DEF event_base
  <2>6. base.flags \in FlagSets
    BY <1>1, Zenon DEF event_base, FlagSets
  <2>7. Moves(base, base', c)
    BY <2>3, <2>5, <2>6 DEF Moves, Confined, FlagSets
  <2> QED
    BY <1>1, <1>2, <2>3, <2>7, LifeFrame, Zenon
<1>6. ASSUME NEW e \in polled, "inserted" \in base.flags[e],
             base' = ActiveNolock(base, Looper, e, "read")
      PROVE  LifeInv'
  <2>1. e \in Timed \cup {Notify} /\ "read" \in Reasons /\ ~Gone(base, e)
    BY <1>1, <1>6, ConstantsAssumption, Zenon DEF LoopTypes, Timed, Reasons, Gone, Kinds
  <2>2. Moves(base, base', e)
    BY <1>1, <1>6, <2>1, ActivesEvent, Zenon
  <2> QED
    BY <1>1, <1>2, <2>1, <2>2, LifeFrame, Zenon
<1>7. ASSUME NEW e \in Due, base' = ActiveNolock(DelNolock(base, Looper, e), Looper, e, "timeout")
      PROVE  LifeInv'
  <2> DEFINE b1 == DelNolock(base, Looper, e)
  <2>1. e \in Timed /\ "timeout" \in Reasons /\ ~Gone(base, e)
    BY Zenon DEF Due, Timers, Reasons, Gone, Kinds
  <2>2. Sound(b1) /\ Moves(base, b1, e)
    BY <1>1, <2>1, Deletes, Zenon
  <2> HIDE DEF b1
  <2>3. Moves(b1, base', e)
    BY <1>1, <1>7, <2>1, <2>2, ActivesEvent DEF b1
  <2>4. Moves(base, base', e)
    BY <2>2, <2>3, MovesTwice, Zenon
  <2> QED
    BY <1>1, <1>2, <2>1, <2>4, LifeFrame, Zenon
<1>8. CASE MakeLaterActive
  BY <1>3, <1>5, <1>8, Zenon DEF MakeLaterActive
<1>9. CASE Collect
  BY <1>3, <1>6, <1>9, Zenon DEF Collect
<1>10. CASE TimeoutProcess
  BY <1>7, <1>10, Zenon DEF TimeoutProcess
<1> QED
  BY <1>3, <1>4, <1>8, <1>9, <1>10 DEF Loop, PollReturns, PollInterrupted, PollFails,
     TimeoutsDone, SkipQueue

\* A callback starts: it is active, so its event is neither freed nor being
\* freed, and if it is finalizing, the base lets go of it.
LEMMA LifeRun ==
  ASSUME IInv, RestTypes, LifeInv, RunCallback
  PROVE  LifeInv'
<1> DEFINE c == executing'
<1>1. /\ c \in Callbacks /\ "active" \in base.flags[c] /\ base' = Dequeue(base, c)
      /\ current' = IF "finalizing" \in base.flags[c] THEN None ELSE c
      /\ Sound(base) /\ LoopTypes /\ None \notin Callbacks
  BY Taken, ConstantsAssumption, Zenon DEF IInv
<1>2. pc' = "callback" /\ UNCHANGED uservars
  BY Zenon DEF RunCallback
<1> HIDE DEF c
<1>3. Moves(base, base', c) /\ ("finalizing" \in base.flags[c] => base'.flags[c] = {"finalizing"})
  BY <1>1, Dequeues, Zenon
<1>4. ~Gone(base, c)
  BY <1>1, Zenon DEF Gone, Kinds
<1>5. ASSUME NEW e \in Events PROVE LifeOf(e)'
  <2>0. LifeOf(e) /\ life' = life /\ e \in Callbacks /\ e # None
    BY <1>1, <1>2, Zenon DEF LifeInv, uservars, Callbacks
  <2>1. CASE e = c
    <3>1. life[e] \notin {"freeing", "freed_inside", "freed"}
      BY <1>4, <2>0, <2>1 DEF LifeOf
    <3>2. CASE "finalizing" \in base.flags[e]
      <4>1. life[e] = "finalizing" /\ Gone(base', e)
        BY <1>3, <2>0, <2>1, <3>1, <3>2 DEF LifeOf, Gone, Kinds
      <4> QED
        BY <2>0, <4>1, Zenon DEF LifeOf
    <3>3. CASE "finalizing" \notin base.flags[e]
      <4>1. current' = e /\ "finalizing" \notin base'.flags[e]
        BY <1>1, <1>3, <2>1, <3>3 DEF Moves
      <4> QED
        BY <2>0, <3>1, <4>1, Zenon DEF LifeOf
    <3> QED
      BY <3>2, <3>3, Zenon
  <2>2. CASE e # c
    <3>1. base'.flags[e] = base.flags[e]
      BY <1>3, <2>0, <2>2, Zenon DEF Moves, Confined
    <3> QED
      BY <2>0, <2>2, <3>1, Zenon DEF LifeOf, Gone, c
  <2> QED
    BY <2>1, <2>2, Zenon
<1>6. ASSUME NEW u \in woken PROVE waiting[u] # None /\ (life[waiting[u]] = "freeing" => c # waiting[u])
  <2>1. waiting[u] # None /\ waiting[u] \in Events
    BY Zenon DEF LifeInv, RestTypes
  <2>2. LifeOf(waiting[u])
    BY <2>1, Zenon DEF LifeInv
  <2> QED
    BY <1>4, <2>1, <2>2, Zenon DEF LifeOf
<1>7. current' \in {None, c} /\ pc' \in InCallback
  BY <1>1, <1>2, Zenon DEF InCallback
<1> QED
  BY <1>2, <1>5, <1>6, <1>7, Zenon DEF LifeInv, uservars, c

\* A callback ends: if it was a finalizer, or freed its event, the event is gone.
LEMMA LifeReturn ==
  ASSUME IInv, RestTypes, LifeInv, CallbackReturns \/ ExitCallback \/ DrainReturns
  PROVE  LifeInv'
<1>1. /\ base' = base /\ waiting' = waiting /\ current' = None /\ executing' = None
      /\ woken' = {t \in Others : waiting[t] # None}
  BY Zenon DEF CallbackReturns, ExitCallback, DrainReturns, Return
<1>2. None \notin Events /\ waiting \in [Others -> Events \cup {None}]
  BY ConstantsAssumption, Zenon DEF RestTypes, Callbacks
<1>3. ASSUME NEW e \in Events PROVE LifeOf(e)'
  <2>1. LifeOf(e) /\ e # None
    BY <1>2, Zenon DEF LifeInv
  <2>2. \/ life'[e] = life[e]
        \/ life'[e] = "freed" /\ e = executing /\ (current = None \/ life[e] = "freed_inside")
    BY Zenon DEF CallbackReturns, ExitCallback, DrainReturns
  <2>3. CASE life'[e] = life[e]
    BY <1>1, <2>1, <2>3, Zenon DEF LifeOf, Gone
  <2>4. CASE life'[e] = "freed" /\ e = executing /\ (current = None \/ life[e] = "freed_inside")
    BY <1>1, <2>1, <2>4, Zenon DEF LifeOf, Gone
  <2> QED
    BY <2>2, <2>3, <2>4, Zenon
<1>4. \A u \in woken' : waiting'[u] # None /\ executing' # waiting'[u]
  BY <1>1, <1>2, Zenon
<1> QED
  BY <1>1, <1>3, <1>4, Zenon DEF LifeInv

\* The calls that leave the life of an event as it is.
LEMMA LifeCall ==
  ASSUME IInv, LifeInv, NEW t \in Threads, Call(t), UNCHANGED uservars,
         \A e \in Events : ~Finalize(t, e)
  PROVE  LifeInv'
<1>1. Sound(base) /\ LoopTypes /\ Intervals \cup {None} \subseteq Nat \cup {None}
    /\ Events \subseteq Timed /\ Exits \subseteq Timed /\ Exits \cap Events = {}
    /\ Deferred \cap Events = {} /\ FALSE \in BOOLEAN
    /\ "user" \in Reasons /\ "timeout" \in Reasons
  BY ConstantsAssumption, ZenonT(30) DEF IInv, Timed, Reasons
<1>2. UNCHANGED loopvars
  BY ZenonT(30) DEF Call, Add, RemoveTimer, Activate, Del, Free, Finalize, Schedule,
         Cancel, LoopExit, LoopBreak, LoopContinue
<1>3. UNCHANGED <<executing, current, uservars>> /\ (executing = None \/ pc' \in InCallback)
  BY <1>2, Zenon DEF loopvars, LifeInv
<1>4. ASSUME NEW c, Moves(base, base', c), c \in Events => life[c] = "live" PROVE LifeInv'
  BY <1>3, <1>4, LifeFrame, Zenon
<1>5. ASSUME NEW e \in Events,
             \/ \E tv \in Intervals \cup {None} : Add(t, e, tv)
             \/ RemoveTimer(t, e) \/ Activate(t, e) \/ Del(t, e) \/ Free(t, e)
      PROVE  LifeInv'
  <2>1. life[e] = "live" /\ e \in Timed
    BY <1>1, <1>5, Zenon DEF Add, RemoveTimer, Activate, Del, Free, CallsOn
  <2>2. Moves(base, base', e)
    <3>1. ASSUME NEW tv \in Intervals \cup {None}, Add(t, e, tv) PROVE Moves(base, base', e)
      BY <1>1, <2>1, <3>1, Adds, ZenonT(30) DEF Add
    <3>2. CASE Activate(t, e)
      BY <1>1, <2>1, <3>2, ActivesEvent, Zenon DEF Activate
    <3>3. CASE Del(t, e) \/ Free(t, e)
      BY <1>1, <2>1, <3>3, Deletes DEF Del, Free
    <3> QED
      BY <1>5, <3>1, <3>2, <3>3, RemoveTimerInv
  <2> QED
    BY <1>4, <2>1, <2>2, Zenon
<1>6. ASSUME NEW d \in Deferred, Schedule(t, d) \/ Cancel(t, d) PROVE LifeInv'
  <2>1. Moves(base, base', d) /\ d \notin Events
    BY <1>1, <1>6, ScheduleInv, Cancels, Zenon DEF Cancel
  <2> QED
    BY <1>4, <2>1, Zenon
<1>7. ASSUME NEW x \in Exits, NEW tv \in Intervals \cup {None}, LoopExit(t, x, tv) PROVE LifeInv'
  <2>1. x \in Timed /\ x \notin Events
    BY <1>1, Zenon
  <2>2. CASE base' = ActiveNolock(base, t, x, "timeout")
    BY <1>1, <1>4, <2>1, <2>2, ActivesEvent
  <2>3. CASE base' = AddNolock(base, t, x, tv, FALSE)
    <3>1. Moves(base, base', x)
      BY <1>1, <2>1, <2>3, Adds, ZenonT(30)
    <3> QED
      BY <1>4, <2>1, <3>1, Zenon
  <2> QED
    BY <1>7, <2>2, <2>3, Zenon DEF LoopExit
<1>8. CASE LoopBreak(t) \/ LoopContinue(t)
  <2>1. base'.flags = base.flags
    BY <1>1, <1>8, Notifies, LoopContinueInv DEF LoopBreak
  <2> QED
    BY <1>3, <2>1, LifeSame, Zenon
<1> QED
  BY <1>5, <1>6, <1>7, <1>8 DEF Call

\* event_del by a thread that waits, event_free and event_free_finalize.
LEMMA LifeEnds ==
  ASSUME IInv, RestTypes, LifeInv, NEW t \in Threads, NEW e \in Events,
         Del(t, e) \/ Free(t, e) \/ Finalize(t, e)
  PROVE  LifeInv'
<1>1. /\ Sound(base) /\ e \in Timed /\ e \in Callbacks /\ None \notin Events
      /\ life \in [Events -> {"live", "freeing", "freed_inside", "finalizing", "freed"}]
      /\ waiting \in [Others -> Events \cup {None}] /\ woken \subseteq Others
      /\ LifeOf(e) /\ \A x \in Events \ {e} : LifeOf(x)
  BY ConstantsAssumption, Zenon DEF IInv, RestTypes, LifeInv, Timed, Callbacks
<1>2. /\ life[e] = "live" /\ UNCHANGED <<pc, executing, current, woken>>
      /\ t # Looper => waiting[t] = None
  BY Zenon DEF Del, Free, Finalize, CallsOn, Calls, loopvars
<1>3. Confined(base, base', e)
  BY <1>1, Deletes, FinalizeInv DEF Del, Free, Moves
<1>4. "finalizing" \notin base.flags[e] /\ ~(executing = e /\ current = None)
  BY <1>1, <1>2, Zenon DEF LifeOf
<1>5. Del(t, e) \/ Free(t, e) => base'.flags[e] = {}
  BY <1>1, <1>4, Deletes, Zenon DEF Del, Free
<1>6. ASSUME NEW x \in Events \ {e} PROVE life'[x] = life[x]
  BY <1>1, <1>6, Zenon DEF Del, Free, Finalize
<1>7. ASSUME NEW x \in Events \ {e} PROVE LifeOf(x)'
  <2>1. LifeOf(x) /\ base'.flags[x] = base.flags[x]
    BY <1>1, <1>3, Zenon DEF Confined, Callbacks
  <2> QED
    BY <1>2, <1>6, <2>1, Zenon DEF LifeOf, Gone
<1>8. LifeOf(e)'
  <2>1. CASE Del(t, e)
    BY <1>1, <1>2, <1>4, <1>5, <2>1 DEF LifeOf, Gone, Del
  <2>2. CASE Free(t, e)
    <3>1. Gone(base', e) /\ "finalizing" \notin base'.flags[e]
      BY <1>5, <2>2, Zenon DEF Gone
    <3>2. life'[e] = "freed" => executing # e
      <4>1. life'[e] = "freed" => ~Waits(t, e) /\ ~(t = Looper /\ executing = e)
        BY <1>1, <2>2, Zenon DEF Free
      <4>2. current \in {None, executing}
        BY Zenon DEF LifeInv
      <4> QED
        BY <1>4, <4>1, <4>2, Zenon DEF Waits
    <3> QED
      BY <1>2, <1>4, <3>1, <3>2, Zenon DEF LifeOf
  <2>3. CASE Finalize(t, e)
    <3>1. life'[e] = "finalizing"
      BY <1>1, <2>3, Zenon DEF Finalize
    <3> QED
      BY <1>2, <1>4, <3>1, Zenon DEF LifeOf
  <2> QED
    BY <2>1, <2>2, <2>3, Zenon
<1>9. ASSUME NEW u \in woken
      PROVE  waiting'[u] # None /\ (life'[waiting'[u]] = "freeing" => executing # waiting'[u])
  <2>1. waiting[u] # None /\ (life[waiting[u]] = "freeing" => executing # waiting[u]) /\ waiting[u] \in Events
    BY <1>1, Zenon DEF LifeInv
  <2>2. waiting'[u] = waiting[u]
    <3>1. u # t \/ t = Looper
      BY <1>2, <2>1, Zenon
    <3> QED
      BY <1>1, <3>1, Zenon DEF Del, Free, Finalize, Waits
  <2>3. CASE waiting[u] # e
    BY <1>6, <2>1, <2>2, <2>3, Zenon
  <2>4. CASE waiting[u] = e
    <3>1. ~Free(t, e)
      BY <1>1, <2>4, Zenon DEF Free
    <3>2. life'[e] \in {"live", "finalizing"}
      BY <1>1, <1>2, <3>1, Zenon DEF Del, Finalize
    <3> QED
      BY <2>1, <2>2, <2>4, <3>2, Zenon
  <2> QED
    BY <2>3, <2>4, Zenon
<1> QED
  BY <1>2, <1>7, <1>8, <1>9, Zenon DEF LifeInv

\* A waiting thread goes on: the callback it waited for has ended.
LEMMA LifeWake ==
  ASSUME RestTypes, LifeInv, NEW t \in Others, Wake(t)
  PROVE  LifeInv'
<1>1. /\ UNCHANGED <<base, pc, executing, current>> /\ t \in woken /\ woken' = woken \ {t}
      /\ waiting' = [waiting EXCEPT ![t] = None]
  BY Zenon DEF Wake, loopvars
<1>2. /\ waiting \in [Others -> Events \cup {None}] /\ woken \subseteq Others
      /\ waiting[t] # None /\ (life[waiting[t]] = "freeing" => executing # waiting[t])
  BY <1>1, Zenon DEF RestTypes, LifeInv
<1>3. \A e \in Events : \/ life'[e] = life[e]
                        \/ life'[e] = "freed" /\ e = waiting[t] /\ life[e] = "freeing"
  BY Zenon DEF Wake
<1>4. ASSUME NEW e \in Events PROVE LifeOf(e)'
  <2>1. LifeOf(e)
    BY Zenon DEF LifeInv
  <2> QED
    BY <1>1, <1>2, <1>3, <2>1, Zenon DEF LifeOf, Gone
<1>5. ASSUME NEW u \in woken'
      PROVE  waiting'[u] # None /\ (life'[waiting'[u]] = "freeing" => executing # waiting'[u])
  <2>1. waiting'[u] = waiting[u] /\ waiting[u] # None /\ waiting[u] \in Events
        /\ (life[waiting[u]] = "freeing" => executing # waiting[u])
    BY <1>1, <1>2, Zenon DEF LifeInv
  <2> QED
    BY <1>3, <2>1, Zenon
<1> QED
  BY <1>1, <1>4, <1>5, Zenon DEF LifeInv

\* Every step keeps it.
LEMMA LifeStep == IInv /\ RestTypes /\ LifeInv /\ [Next]_vars => LifeInv'
<1> SUFFICES ASSUME IInv, RestTypes, LifeInv, [Next]_vars PROVE LifeInv'
  BY Zenon
<1>1. CASE UNCHANGED vars \/ Tick \/ \E e \in IO : Arrive(e)
  BY <1>1, LifeSame, Zenon DEF vars, loopvars, uservars, Tick, Arrive, LifeInv
<1>2. CASE DrainRead \/ DrainClear
  <2>1. base \in event_base
    BY Zenon DEF IInv, Sound
  <2>2. base'.flags = base.flags /\ pc' \in InCallback /\ UNCHANGED <<executing, current, uservars>>
    BY <1>2, <2>1, Zenon DEF DrainRead, DrainClear, InCallback, event_base
  <2> QED
    BY <2>2, LifeSame, Zenon
<1>3. ASSUME NEW t \in Threads, Call(t) PROVE LifeInv'
  <2>1. \/ \E e \in Events : Del(t, e) \/ Free(t, e) \/ Finalize(t, e)
        \/ UNCHANGED uservars /\ \A e \in Events : ~Finalize(t, e)
    BY <1>3, ZenonT(30) DEF Call, Add, RemoveTimer, Activate, Schedule, Cancel, LoopExit,
       LoopBreak, LoopContinue
  <2> QED
    BY <1>3, <2>1, LifeEnds, LifeCall, Zenon
<1> QED
  BY <1>1, <1>2, <1>3, LifeLoop, LifeRun, LifeReturn, LifeWake DEF Next, LoopStep

\* It holds from the start on.
LEMMA LifeInvariant == Spec => []LifeInv
<1>1. Init => LifeInv
  <2> SUFFICES ASSUME Init PROVE LifeInv
    BY Zenon
  <2>1. /\ executing = None /\ current = None /\ woken = {} /\ life = [e \in Events |-> "live"]
        /\ base.flags = [c \in Callbacks |-> IF c = Notify THEN {"inserted"} ELSE {}]
    BY Zenon DEF Init
  <2>2. \A e \in Events : e \in Callbacks /\ e # Notify /\ e # None
    BY ConstantsAssumption, Zenon DEF Callbacks
  <2> QED
    BY <2>1, <2>2, Zenon DEF LifeInv, LifeOf
<1> QED
  BY <1>1, LifeStep, LoopInvariant, RestInvariant, PTL DEF Spec

\* An event whose event_free or event_free_finalize is over is in no queue, heap
\* or map of the base, and its callback does not run: however the calls of the
\* other threads, the callbacks and the waits for them interleave.
\* (event_del_nolock_, event_finalize_nolock_, event_process_active_single_queue.)
THEOREM FreedCorrect == Spec => []FreedUnreferenced
<1>1. LifeInv => FreedUnreferenced
  <2> SUFFICES ASSUME LifeInv, NEW e \in Events, life[e] = "freed"
               PROVE  base.flags[e] \cap Kinds = {} /\ current # e /\ executing # e
    BY Zenon DEF FreedUnreferenced
  <2>1. LifeOf(e) /\ current \in {None, executing} /\ e # None
    BY ConstantsAssumption, Zenon DEF LifeInv, Callbacks
  <2> QED
    BY <2>1, Zenon DEF LifeOf, Gone
<1> QED
  BY <1>1, LifeInvariant, PTL

-----------------------------------------------------------------------------
(* The sleep of the Looper.                                                 *)

\* The Looper sleeps, or is about to, and the eventfd ends the sleep, or nothing
\* needs it to end sooner.
SleepInv ==
  pc \in {"later", "epoll"} =>
    /\ ~gotterm
    /\ until = Forever \/ now < until => base.eventfd \/ Calm(base, until, late)

\* A call of another thread while the Looper sleeps.
LEMMA SleepCall ==
  ASSUME IInv, RestTypes, LifeInv, SleepInv, NEW t \in Threads, Call(t)
  PROVE  SleepInv'
<1> SUFFICES ASSUME pc' \in {"later", "epoll"} PROVE SleepInv'
  BY Zenon DEF SleepInv
<1>1. Calls(t) /\ UNCHANGED <<loopvars, gotterm, timevars>>
  BY ZenonT(30) DEF Call, Add, RemoveTimer, Activate, Del, Free, Finalize, Schedule,
         Cancel, LoopExit, LoopBreak, LoopContinue, CallsOn, stopvars
<1>2. pc = "epoll" /\ t # Looper /\ UNCHANGED <<pc, gotterm, until, late, now>>
  BY <1>1, Zenon DEF Calls, InUserCode, Unlocked, loopvars, timevars
<1>3. /\ Sound(base) /\ Heard(base) /\ LoopTypes /\ pc # "idle"
      /\ until \in Nat \cup {Forever} /\ late \in Nat
  BY <1>2, Zenon DEF IInv, Announced, Sound, Heard, RestTypes
<1>4. Intervals \cup {None} \subseteq Nat \cup {None} /\ Events \subseteq Timed /\ Exits \subseteq Timed
      /\ "user" \in Reasons /\ "timeout" \in Reasons /\ "finalize" \in Reasons
  BY ConstantsAssumption, ZenonT(30) DEF Timed, Reasons
<1> SUFFICES ASSUME until = Forever \/ now < until
             PROVE  base'.eventfd \/ Calm(base', until, late)
  BY <1>2, Zenon DEF SleepInv
<1>5. base.eventfd \/ Calm(base, until, late)
  BY <1>2, Zenon DEF SleepInv
<1>6. CASE base.eventfd
  <2>1. Sound(base') /\ Notified(base, base')
    BY CallNotifies, Zenon
  <2> QED
    BY <1>3, <1>6, <2>1, HeardAfter DEF Sound
<1>7. CASE Calm(base, until, late)
  <2>0. \A c \in Callbacks : "active" \notin base.flags[c] /\ "later" \notin base.flags[c]
    BY <1>3, <1>7, NoneActive, Zenon DEF Calm
  <2>1. ASSUME NEW e \in Timed, NEW tv \in Intervals \cup {None},
               base' = AddNolock(base, t, e, tv, FALSE)
        PROVE  base'.eventfd \/ Calm(base', until, late)
    <3>1. tv \in Nat \cup {None}
      BY <1>4, Zenon
    <3> QED
      BY <1>2, <1>3, <1>7, <2>1, <3>1, AddCalm, ZenonT(30)
  <2>2. ASSUME NEW e \in Timed, NEW why \in Reasons, base' = ActiveNolock(base, t, e, why)
        PROVE  base'.eventfd \/ Calm(base', until, late)
    <3>1. "active" \notin base.flags[e]
      BY <2>0, Zenon DEF Timed, Callbacks
    <3> QED
      BY <1>2, <1>3, <1>7, <2>2, <3>1, ActiveRings, ZenonT(30)
  <2>3. ASSUME NEW e \in Events, Del(t, e) \/ Free(t, e)
        PROVE  base'.eventfd \/ Calm(base', until, late)
    <3>1. e \in Timed /\ base' = DelNolock(base, t, e)
      BY <1>4, <2>3, Zenon DEF Del, Free
    <3> QED
      BY <1>2, <1>3, <1>7, <3>1, DelCalm, ZenonT(30)
  <2>4. ASSUME NEW e \in Events, RemoveTimer(t, e)
        PROVE  Calm(base', until, late)
    <3> DEFINE b1 == WithoutFlag(base, e, "timeout")
    <3>1. e \in Timed /\ base \in event_base /\ "timeout" \in base.flags[e]
          /\ base' = [b1 EXCEPT !.io_timeout[e] = 0]
      BY <1>3, <1>4, <2>4, Zenon DEF RemoveTimer, Sound
    <3>2. Beside(base, b1, e) /\ "timeout" \notin b1.flags[e]
      BY <3>1, FlagBeside, Zenon
    <3> HIDE DEF b1
    <3>3. b1 \in event_base
      BY <3>2, Zenon DEF Beside
    <3>4. Beside(b1, base', e) /\ base'.flags = b1.flags
      <4>1. 0 \in Nat
        BY Zenon
      <4> QED
        BY <3>1, <3>3, <4>1, TimeBeside, ZenonT(30)
    <3>5. Beside(base, base', e)
      BY <3>2, <3>4, BesideTwice, Zenon
    <3> QED
      BY <1>7, <3>1, <3>2, <3>4, <3>5, CalmDropped
  <2>5. ASSUME NEW e \in Events, Finalize(t, e) PROVE base'.eventfd
    <3> DEFINE b1 == DelNolock(base, t, e)
               b2 == ActiveNolock(b1, t, e, "finalize")
    <3>1. e \in Timed /\ base' = [b2 EXCEPT !.flags[e] = @ \cup {"finalizing"}]
          /\ "finalizing" \notin base.flags[e]
      BY <1>4, <2>5, Zenon DEF Finalize, CallsOn, LifeInv, LifeOf
    <3>2. Sound(b1) /\ Notified(base, b1) /\ b1.flags[e] = {}
      BY <1>3, <3>1, Deletes, Zenon
    <3> HIDE DEF b1
    <3>3. Heard(b1)
      BY <1>3, <3>2, HeardAfter, Zenon DEF Sound
    <3>4. Sound(b2) /\ b2.eventfd
      BY <1>2, <1>3, <1>4, <3>1, <3>2, <3>3, ActivesEvent, ActiveRings
    <3> HIDE DEF b2
    <3> QED
      BY <3>1, <3>4, Zenon DEF Sound, event_base
  <2>6. ASSUME NEW d \in Deferred, Schedule(t, d) PROVE base'.eventfd
    <3> DEFINE b1 == CallbackActivate(base, t, d)
    <3>1. d \in Callbacks /\ base.flags[d] \cap {"active", "finalizing"} = {}
      BY <1>3, <2>0, ConstantsAssumption DEF Callbacks, Sound
    <3>2. b1.eventfd /\ Sound(b1)
      BY <1>2, <1>3, <3>1, ActivateRings, Activates, Zenon
    <3>3. base.flags[d] \cap {"active", "later"} = {}
      BY <2>0, <3>1, Zenon
    <3>4. ActivateLater(base, t, d).eventfd
      BY <1>2, <1>3, <3>1, <3>3, ActivateRings, Zenon
    <3>5. \/ base' = ActivateLater(base, t, d)
          \/ base' = b1
          \/ base' = [b1 EXCEPT !.n_deferreds_queued = @ + 1]
      BY <2>6, Zenon DEF Schedule
    <3> HIDE DEF b1
    <3> QED
      BY <3>2, <3>4, <3>5, Zenon DEF Sound, event_base
  <2>7. ASSUME NEW d \in Deferred, Cancel(t, d) PROVE Calm(base', until, late)
    <3>1. base' = base
      BY <2>0, <2>7, Zenon DEF Cancel, CancelNolock, Callbacks
    <3> QED
      BY <1>7, <3>1, Zenon
  <2>8. ASSUME NEW x \in Exits, NEW tv \in Intervals \cup {None}, LoopExit(t, x, tv)
        PROVE  base'.eventfd \/ Calm(base', until, late)
    BY <1>4, <2>1, <2>2, <2>8, Zenon DEF LoopExit
  <2>9. CASE LoopBreak(t) \/ LoopContinue(t)
    <3> DEFINE b1 == [base EXCEPT !.event_continue = TRUE]
    <3>1. base' = NotifyBase(base, t) \/ base' = NotifyBase(b1, t)
      BY <2>9, Zenon DEF LoopBreak, LoopContinue
    <3>2. Heard(b1)
      BY <1>3, ZenonT(30) DEF Heard, event_base
    <3> QED
      BY <1>2, <1>3, <3>1, <3>2, Rings, Zenon
  <2>10. ASSUME NEW e \in Events, Activate(t, e) \/ \E tv \in Intervals \cup {None} : Add(t, e, tv)
         PROVE  base'.eventfd \/ Calm(base', until, late)
    BY <1>4, <2>1, <2>2, <2>10, Zenon DEF Activate, Add
  <2> QED
    BY <2>3, <2>4, <2>5, <2>6, <2>7, <2>8, <2>9, <2>10, ZenonT(30) DEF Call
<1> QED
  BY <1>5, <1>6, <1>7, Zenon

\* The Looper goes to sleep: event_base_loop has looked at the stop flags, the
\* counters and the timers, and holds the lock until epoll_wait.
LEMMA SleepTop ==
  ASSUME IInv, RestTypes, Top
  PROVE  SleepInv'
<1>1. LoopTypes /\ base \in event_base /\ (cache # None => cache <= now)
  BY Zenon DEF IInv, Sound, RestTypes
<1>2. CASE pc' = "later"
  <2>1. /\ until' = Wait /\ late' = now - gettime /\ gotterm' = gotterm /\ now' = now
        /\ base' = [base EXCEPT !.event_continue = FALSE, !.n_deferreds_queued = 0]
    BY <1>2, Zenon DEF Top, Leave, stopvars
  <2>2. /\ base'.flags = base.flags /\ base'.deadline = base.deadline
        /\ base'.event_count = base.event_count
        /\ base'.event_count_active = base.event_count_active
    BY <1>1, <2>1, Zenon DEF event_base
  <2>3. ~gotterm
    BY <1>2, Zenon DEF Top, Leave
  <2>4. ASSUME until' = Forever \/ now < until' PROVE Calm(base', until', late')
    <3>1. /\ base.event_count_active = 0
          /\ \A e \in Timers(base) : Wait # Forever /\ Wait <= base.deadline[e] + (now - gettime)
      BY <1>1, <2>1, <2>4, WaitTime, Zenon
    <3>2. base.event_count > 0
      BY <1>2, <3>1, Zenon DEF Top, Leave
    <3>3. Timers(base') = Timers(base)
      BY <2>2, Zenon DEF Timers
    <3> HIDE DEF Wait, gettime
    <3> QED
      BY <2>1, <2>2, <3>1, <3>2, <3>3, Zenon DEF Calm
  <2> QED
    BY <2>1, <2>3, <2>4, Zenon DEF SleepInv
<1>3. CASE pc' # "later"
  BY <1>3, Zenon DEF Top, Leave, SleepInv
<1> QED
  BY <1>2, <1>3, Zenon

\* Every step keeps it.
LEMMA SleepStep == IInv /\ RestTypes /\ LifeInv /\ SleepInv /\ [Next]_vars => SleepInv'
<1> SUFFICES ASSUME IInv, RestTypes, LifeInv, SleepInv, [Next]_vars PROVE SleepInv'
  BY Zenon
<1>1. ASSUME UNCHANGED <<base, pc, gotterm, until, late>>, now' = now \/ now' = now + 1
      PROVE  SleepInv'
  <2>1. now \in Nat /\ until \in Nat \cup {Forever}
    BY Zenon DEF IInv, LoopTypes, RestTypes
  <2>2. until' = Forever \/ now' < until' => until = Forever \/ now < until
    BY <1>1, <2>1 DEF Forever
  <2> QED
    BY <1>1, <2>2, Zenon DEF SleepInv
<1>2. CASE UNCHANGED vars \/ Tick \/ (\E e \in IO : Arrive(e)) \/ (\E t \in Others : Wake(t))
  BY <1>1, <1>2, Zenon DEF vars, loopvars, stopvars, timevars, Tick, Arrive, Wake
<1>3. CASE MakeLaterActive
  <2>1. UNCHANGED <<gotterm, until, late, now>> /\ pc = "later"
    BY <1>3, Zenon DEF MakeLaterActive, stopvars
  <2>2. CASE base.laterq = <<>>
    BY <1>3, <2>1, <2>2, Zenon DEF MakeLaterActive, SleepInv
  <2>3. CASE base.laterq # <<>>
    <3>1. base'.eventfd = base.eventfd
      BY <1>3, <2>3, ZenonT(30) DEF MakeLaterActive, IInv, Sound, event_base
    <3>2. ~Calm(base, until, late)
      BY <2>3, NoneActive, Zenon DEF IInv, Calm
    <3> QED
      BY <2>1, <3>1, <3>2, Zenon DEF SleepInv
  <2> QED
    BY <2>2, <2>3, Zenon
<1>4. ASSUME pc' \notin {"later", "epoll"} PROVE SleepInv'
  BY <1>4, Zenon DEF SleepInv
<1>5. CASE \/ Loop \/ PollReturns \/ PollInterrupted \/ PollFails \/ Collect \/ TimeoutsDone
           \/ RunCallback \/ DrainRead \/ DrainClear \/ TimeoutProcess
  BY <1>4, <1>5, Zenon DEF Loop, PollReturns, PollInterrupted, PollFails, Leave, Collect,
     TimeoutsDone,
     RunCallback, DrainRead, DrainClear, TimeoutProcess, loopvars
<1>6. CASE SkipQueue \/ CallbackReturns \/ ExitCallback \/ DrainReturns
  BY <1>4, <1>6, Zenon DEF SkipQueue, CallbackReturns, ExitCallback, DrainReturns, Return, Finish,
     NextQueue, Leave
<1> QED
  BY <1>2, <1>3, <1>5, <1>6, SleepTop, SleepCall, Zenon DEF Next, LoopStep

\* The Looper never sleeps over something it should do: whatever the other
\* threads add, delete, activate, finalize, free, schedule or stop, either the
\* eventfd ends the sleep, or nothing is active, no stop is asked for, no timer
\* is due before the sleep ends, and a sleep without end waits for some event.
\* (evthread_notify_base, event_add_nolock_, event_del_nolock_, timeout_next.)
THEOREM WakeupCorrect == Spec => []NoLostWakeup
<1>1. Init => SleepInv
  BY Zenon DEF Init, SleepInv
<1>2. IInv /\ SleepInv => NoLostWakeup
  BY Zenon DEF IInv, Announced, SleepInv, Calm, NoLostWakeup
<1> QED
  BY <1>1, <1>2, SleepStep, LoopInvariant, RestInvariant, LifeInvariant, PTL DEF Spec

=============================================================================
