------------------------------ MODULE EventLoop ------------------------------
(***************************************************************************)
(* libevent's event_base (event/event.c) with its epoll backend: one       *)
(* thread, Looper, runs event_base_loop; the callbacks it runs and the     *)
(* threads in Others add, delete, activate, finalize and free events,      *)
(* schedule deferred callbacks and stop the loop.                          *)
(*                                                                         *)
(* th_base_lock: the loop holds it except at the program points of         *)
(* Unlocked, and every call made from another thread is one critical       *)
(* section, hence one action.  `base' holds the fields of struct           *)
(* event_base and struct event that several functions change in turn       *)
(* inside one critical section; those functions are operators from a base  *)
(* to a base, with the names of the code.                                  *)
(*                                                                         *)
(* Left out: signals, common timeouts, watchers, edge triggering, the      *)
(* dispatch limits of event_config and more than one event per descriptor. *)
(* The time heap is the set of the events with the flag "timeout".         *)
(***************************************************************************)
EXTENDS Integers, Sequences, FiniteSets

CONSTANTS
  Events,        \* the events made with event_new
  IO,            \* those with a descriptor (EV_READ); the others are timers
  Persist,       \* those with EV_PERSIST
  Deferred,      \* the callbacks of event_deferred_cb_init_
  Exits,         \* the event_once structures of event_base_loopexit
  Notify,        \* base->th_notify, the internal event of the eventfd
  Looper,        \* the thread that calls event_base_loop
  Others,        \* the other threads that use the base
  None,          \* NULL
  NPri,          \* nactivequeues
  Pri,           \* evcb_pri of every callback
  Intervals,     \* the relative timeouts given to event_add
  MaxDeferreds,  \* MAX_DEFERREDS_QUEUED
  MaxTime,       \* bound: the clock stops here
  MaxCalls       \* bound: calls of the API and arrivals of data

Callbacks == Events \cup Deferred \cup Exits \cup {Notify}
Timed == Events \cup Exits
Threads == Others \cup {Looper}
Forever == -1

ASSUME ConstantsAssumption ==
  /\ IO \subseteq Events /\ Persist \subseteq Events
  /\ Events \cap Deferred = {} /\ Events \cap Exits = {} /\ Deferred \cap Exits = {}
  /\ Notify \notin Events \cup Deferred \cup Exits
  /\ None \notin Callbacks /\ None \notin Nat /\ Looper \notin Others
  /\ IsFiniteSet(Callbacks)
  /\ NPri \in Nat \ {0} /\ Pri \in [Callbacks -> 0 .. NPri - 1] /\ Pri[Notify] = 0
  /\ Intervals \subseteq Nat /\ MaxDeferreds \in Nat /\ MaxTime \in Nat /\ MaxCalls \in Nat

VARIABLES
  base,       \* the shared fields, see TypeOK
  pc,         \* where the Looper is in event_base_loop
  mode,       \* the flags of event_base_loop: "run", "once" or "nonblock"
  queue,      \* i of event_process_active
  count,      \* count of event_process_active_single_queue
  running,    \* event_running_priority
  current,    \* current_event
  executing,  \* the callback whose code runs
  break,      \* event_break
  gotterm,    \* event_gotterm
  cache,      \* tv_cache, None when cleared
  until,      \* when epoll_wait times out, or Forever
  late,       \* history: how old the cached time behind `until' was
  polled,     \* the descriptors epoll_wait returned, not yet looked at
  ready,      \* the descriptors with data
  now,        \* the monotonic clock
  waiting,    \* for each other thread: the event whose callback it waits for
  woken,      \* the threads the broadcast has woken
  life,       \* what its users have done to an event
  calls       \* calls made so far

loopvars == <<pc, mode, queue, count, running, current, executing>>
stopvars == <<break, gotterm>>
timevars == <<cache, until, late, now>>
fdvars == <<polled, ready>>
uservars == <<waiting, woken, life>>
vars == <<base, loopvars, stopvars, timevars, fdvars, uservars, calls>>

Kinds == {"inserted", "timeout", "active", "later"}
Reasons == {"read", "timeout", "user", "finalize"}
Unlocked == {"idle", "epoll", "polled", "callback", "drain", "drained"}
Locked == {"top", "later", "collect", "timeouts", "process"}

event_base ==
  [flags : [Callbacks -> SUBSET (Kinds \cup {"finalizing"})],
   res : [Callbacks -> SUBSET Reasons],
   deadline : [Timed -> Nat], io_timeout : [Events -> Nat],
   activeq : [0 .. NPri - 1 -> Seq(Callbacks)], laterq : Seq(Callbacks),
   event_count : Int, event_count_active : Int,
   n_deferreds_queued : Nat, event_continue : BOOLEAN,
   is_notify_pending : BOOLEAN, eventfd : BOOLEAN]

TypeOK ==
  /\ base \in event_base
  /\ pc \in Unlocked \cup Locked /\ mode \in {"run", "once", "nonblock"}
  /\ queue \in 0 .. NPri - 1 /\ count \in Nat /\ running \in -1 .. NPri - 1
  /\ current \in Callbacks \cup {None} /\ executing \in Callbacks \cup {None}
  /\ break \in BOOLEAN /\ gotterm \in BOOLEAN
  /\ cache \in Nat \cup {None} /\ until \in Nat \cup {Forever} /\ late \in Nat
  /\ now \in Nat
  /\ polled \subseteq IO \cup {Notify} /\ ready \subseteq IO
  /\ waiting \in [Others -> Events \cup {None}] /\ woken \subseteq Others
  /\ life \in [Events -> {"live", "freeing", "freed_inside", "finalizing", "freed"}]
  /\ calls \in Nat

Init ==
  /\ base = [flags |-> [c \in Callbacks |-> IF c = Notify THEN {"inserted"} ELSE {}],
             res |-> [c \in Callbacks |-> {}],
             deadline |-> [e \in Timed |-> 0], io_timeout |-> [e \in Events |-> 0],
             activeq |-> [p \in 0 .. NPri - 1 |-> <<>>], laterq |-> <<>>,
             event_count |-> 0, event_count_active |-> 0,
             n_deferreds_queued |-> 0, event_continue |-> FALSE,
             is_notify_pending |-> FALSE, eventfd |-> FALSE]
  /\ pc = "idle" /\ mode = "run" /\ queue = 0 /\ count = 0 /\ running = -1
  /\ current = None /\ executing = None
  /\ break = FALSE /\ gotterm = FALSE
  /\ cache = None /\ until = Forever /\ late = 0 /\ now = 0
  /\ polled = {} /\ ready = {}
  /\ waiting = [t \in Others |-> None] /\ woken = {}
  /\ life = [e \in Events |-> "live"]
  /\ calls = 0


-----------------------------------------------------------------------------
(* The queues.  event_count counts the flags of Kinds of all callbacks but *)
(* the internal one, event_count_active the flags "active" and "later".    *)

Weight(c) == IF c = Notify THEN 0 ELSE 1

WithFlag(b, c, f) ==
  [b EXCEPT !.flags[c] = @ \cup {f}, !.event_count = @ + Weight(c)]

WithoutFlag(b, c, f) ==
  [b EXCEPT !.flags[c] = @ \ {f}, !.event_count = @ - Weight(c)]

\* TAILQ_REMOVE.
Remove(q, c) ==
  LET k == CHOOSE j \in 1 .. Len(q) : q[j] = c
  IN [i \in 1 .. Len(q) - 1 |-> IF i < k THEN q[i] ELSE q[i + 1]]

\* Mutant: the counter of active callbacks is left as it is.
RemoveActiveUncounted(b, c) ==
  [WithoutFlag(b, c, "active") EXCEPT !.activeq[Pri[c]] = Remove(@, c)]

RemoveActive(b, c) ==
  [WithoutFlag(b, c, "active") EXCEPT
     !.event_count_active = @ - 1, !.activeq[Pri[c]] = Remove(@, c)]

RemoveActiveLater(b, c) ==
  [WithoutFlag(b, c, "later") EXCEPT
     !.event_count_active = @ - 1, !.laterq = Remove(@, c)]

InsertActive(b, c) ==
  [WithFlag(b, c, "active") EXCEPT
     !.event_count_active = @ + 1, !.activeq[Pri[c]] = Append(@, c)]

InsertActiveLater(b, c) ==
  [WithFlag(b, c, "later") EXCEPT
     !.event_count_active = @ + 1, !.laterq = Append(@, c)]

Timers(b) == {e \in Timed : "timeout" \in b.flags[e]}

gettime == IF cache = None THEN now ELSE cache

\* evthread_notify_base behind EVBASE_NEED_NOTIFY: only for a running loop,
\* from another thread, and not when a notification is pending.
NotifyBase(b, t) ==
  IF pc # "idle" /\ t # Looper /\ ~b.is_notify_pending
    THEN [b EXCEPT !.is_notify_pending = TRUE, !.eventfd = TRUE]
    ELSE b

-----------------------------------------------------------------------------
(* The functions that need the lock, called by thread t.                   *)

\* tv is None, an interval, or with `absolute' a time.
AddNolock(b, t, e, tv, absolute) ==
  LET insert == e \in IO /\ b.flags[e] \cap {"inserted", "active", "later"} = {}
      timed == tv # None
      expired == timed /\ "active" \in b.flags[e] /\ "timeout" \in b.res[e]
      b1 == IF insert THEN WithFlag(b, e, "inserted") ELSE b
      b2 == IF timed /\ e \in Persist /\ ~absolute
              THEN [b1 EXCEPT !.io_timeout[e] = tv] ELSE b1
      b3 == IF timed /\ "timeout" \in b.flags[e] THEN WithoutFlag(b2, e, "timeout") ELSE b2
      b4 == IF expired THEN RemoveActive(b3, e) ELSE b3
      b5 == IF timed
              THEN WithFlag([b4 EXCEPT !.deadline[e] = IF absolute THEN tv ELSE gettime + tv],
                            e, "timeout")
              ELSE b4
      top == \A x \in Timers(b5) \ {e} : b5.deadline[e] < b5.deadline[x]
      overdue == \E x \in Timers(b5) : b5.deadline[x] < gettime
  IN IF "finalizing" \in b.flags[e] THEN b
     ELSE IF insert \/ (timed /\ (top \/ overdue)) THEN NotifyBase(b5, t)
     ELSE b5

DelNolock(b, t, e) ==
  LET b1 == IF "timeout" \in b.flags[e] THEN WithoutFlag(b, e, "timeout") ELSE b
      b2 == IF "active" \in b.flags[e] THEN RemoveActive(b1, e)
            ELSE IF "later" \in b.flags[e] THEN RemoveActiveLater(b1, e) ELSE b1
      b3 == IF "inserted" \in b.flags[e]
              THEN NotifyBase(WithoutFlag(b2, e, "inserted"), t) ELSE b2
  IN IF "finalizing" \in b.flags[e] THEN b ELSE b3

CallbackActivate(b, t, c) ==
  LET b1 == IF "later" \in b.flags[c] THEN RemoveActiveLater(b, c) ELSE b
  IN IF b.flags[c] \cap {"active", "finalizing"} # {} THEN b
     ELSE NotifyBase(InsertActive(b1, c), t)

ActivateLater(b, t, c) ==
  IF b.flags[c] \cap {"active", "later"} # {} THEN b
  ELSE NotifyBase(InsertActiveLater(b, c), t)

\* Mutant: an urgent event does not cut short the queue that runs.
ActiveNolockNoContinue(b, t, e, r) ==
  IF "finalizing" \in b.flags[e] THEN b
  ELSE IF "active" \in b.flags[e] THEN [b EXCEPT !.res[e] = @ \cup {r}]
  ELSE CallbackActivate([b EXCEPT !.res[e] = {r}], t, e)

ActiveNolock(b, t, e, r) ==
  IF "finalizing" \in b.flags[e] THEN b
  ELSE IF "active" \in b.flags[e] THEN [b EXCEPT !.res[e] = @ \cup {r}]
  ELSE CallbackActivate([b EXCEPT !.res[e] = {r},
                                  !.event_continue = @ \/ Pri[e] < running], t, e)

CancelNolock(b, c) ==
  IF "active" \in b.flags[c] THEN RemoveActive(b, c)
  ELSE IF "later" \in b.flags[c] THEN RemoveActiveLater(b, c)
  ELSE b

\* event_persist_closure: the time of the next run of a persistent event.
RunAt(b, e) ==
  LET at == (IF "timeout" \in b.res[e] THEN b.deadline[e] ELSE gettime) + b.io_timeout[e]
  IN IF at < gettime THEN gettime + b.io_timeout[e] ELSE at

\* What event_process_active_single_queue does before it runs callback c.
Dequeue(b, c) ==
  LET finalizing == "finalizing" \in b.flags[c]
      b1 == IF c \in Timed \ Persist /\ ~finalizing THEN DelNolock(b, Looper, c)
            ELSE RemoveActive(b, c)
  IN IF c \in Persist /\ ~finalizing /\ b.io_timeout[c] # 0
       THEN AddNolock(b1, Looper, c, RunAt(b, c), TRUE) ELSE b1

-----------------------------------------------------------------------------
(* event_base_loop, with epoll_dispatch and timeout_process.               *)

\* The end of event_base_loop; its local variables are gone.
Leave ==
  /\ pc' = "idle" /\ cache' = None
  /\ mode' = "run" /\ queue' = 0 /\ count' = 0 /\ until' = Forever /\ late' = 0

Loop ==
  /\ pc = "idle"
  /\ mode' \in {"run", "once", "nonblock"}
  /\ pc' = "top" /\ cache' = None
  /\ gotterm' = FALSE /\ break' = FALSE
  /\ UNCHANGED <<base, queue, count, running, current, executing, until, late, now,
                 fdvars, uservars, calls>>

\* timeout_next.
Wait ==
  LET due == {base.deadline[e] : e \in Timers(base)}
      first == CHOOSE d \in due : \A x \in due : d <= x
  IN IF base.event_count_active # 0 \/ mode = "nonblock" THEN now
     ELSE IF due = {} THEN Forever
     ELSE IF first <= gettime THEN now
     ELSE now + first - gettime

Top ==
  /\ pc = "top"
  /\ base' = [base EXCEPT !.event_continue = FALSE, !.n_deferreds_queued = 0]
  /\ \/ /\ gotterm \/ break \/ (base.event_count <= 0 /\ base.event_count_active = 0)
        /\ Leave
     \/ /\ ~gotterm /\ ~break
        /\ base.event_count > 0 \/ base.event_count_active # 0
        /\ until' = Wait /\ late' = now - gettime
        /\ pc' = "later"
        /\ UNCHANGED <<cache, mode, queue, count>>
  /\ UNCHANGED <<running, current, executing, stopvars, now,
                 fdvars, uservars, calls>>

\* event_queue_make_later_events_active, one callback at a time.
MakeLaterActive ==
  /\ pc = "later"
  /\ IF base.laterq = <<>>
       THEN pc' = "epoll" /\ cache' = None /\ UNCHANGED base
       ELSE LET c == Head(base.laterq)
            IN /\ base' = [base EXCEPT !.flags[c] = (@ \ {"later"}) \cup {"active"},
                                       !.laterq = Tail(@),
                                       !.activeq[Pri[c]] = Append(@, c),
                                       !.n_deferreds_queued = @ + 1]
               /\ UNCHANGED <<pc, cache>>
  /\ UNCHANGED <<mode, queue, count, running, current, executing, stopvars, until, late,
                 now, fdvars, uservars, calls>>

Readable ==
  {e \in ready : "inserted" \in base.flags[e]} \cup {c \in {Notify} : base.eventfd}

\* epoll_wait returns: the descriptors that have data, or nothing after the
\* timeout; nothing also after a signal (EINTR), and otherwise an error.
PollReturns ==
  /\ pc = "epoll"
  /\ \/ Readable # {}
     \/ until # Forever /\ until <= now
  /\ polled' = Readable
  /\ pc' = "polled" /\ until' = Forever /\ late' = 0
  /\ UNCHANGED <<base, mode, queue, count, running, current, executing, stopvars, cache,
                 now, ready, uservars, calls>>

PollInterrupted ==
  /\ pc = "epoll" /\ Readable = {}
  /\ polled' = {}
  /\ pc' = "polled" /\ until' = Forever /\ late' = 0
  /\ UNCHANGED <<base, mode, queue, count, running, current, executing, stopvars, cache,
                 now, ready, uservars, calls>>

PollFails ==
  /\ pc = "epoll"
  /\ Leave
  /\ UNCHANGED <<base, running, current, executing, stopvars, now, fdvars, uservars, calls>>

\* evmap_io_active_ for each descriptor; an event deleted since is skipped.
Collect ==
  /\ pc \in {"polled", "collect"}
  /\ \/ \E e \in polled :
          /\ base' = IF "inserted" \in base.flags[e]
                       THEN ActiveNolock(base, Looper, e, "read") ELSE base
          /\ polled' = polled \ {e}
          /\ pc' = "collect"
          /\ UNCHANGED cache
     \/ /\ polled = {}
        /\ pc' = "timeouts" /\ cache' = now
        /\ UNCHANGED <<base, polled>>
  /\ UNCHANGED <<mode, queue, count, running, current, executing, stopvars, until, late,
                 now, ready, uservars, calls>>

Due == {e \in Timers(base) : base.deadline[e] <= gettime}

TimeoutProcess ==
  /\ pc = "timeouts"
  /\ \E e \in Due :
       /\ \A x \in Due : base.deadline[e] <= base.deadline[x]
       /\ base' = ActiveNolock(DelNolock(base, Looper, e), Looper, e, "timeout")
  /\ UNCHANGED <<loopvars, stopvars, timevars, fdvars, uservars, calls>>

TimeoutsDone ==
  /\ pc = "timeouts" /\ Due = {}
  /\ \/ /\ base.event_count_active # 0
        /\ pc' = "process" /\ queue' = 0 /\ count' = 0
        /\ UNCHANGED <<cache, mode, until, late>>
     \/ /\ base.event_count_active = 0 /\ mode = "nonblock"
        /\ Leave
     \/ /\ base.event_count_active = 0 /\ mode # "nonblock"
        /\ pc' = "top"
        /\ UNCHANGED <<cache, mode, queue, count, until, late>>
  /\ UNCHANGED <<base, running, current, executing, stopvars, now, fdvars, uservars, calls>>

-----------------------------------------------------------------------------
(* event_process_active and event_process_active_single_queue.             *)

\* The end of event_process_active with result n.
Finish(b, n) ==
  /\ running' = -1
  /\ IF mode = "once" /\ b.event_count_active = 0 /\ n # 0
       THEN Leave
       ELSE /\ pc' = "top" /\ queue' = 0 /\ count' = 0
            /\ UNCHANGED <<cache, mode, until, late>>

NextQueue(b) ==
  IF queue + 1 < NPri
    THEN /\ pc' = "process" /\ queue' = queue + 1
         /\ UNCHANGED <<count, running, cache, mode, until, late>>
    ELSE Finish(b, 0)

SkipQueue ==
  /\ pc = "process" /\ base.activeq[queue] = <<>>
  /\ NextQueue(base)
  /\ UNCHANGED <<base, current, executing, stopvars, now, fdvars, uservars, calls>>

RunCallback ==
  /\ pc = "process" /\ base.activeq[queue] # <<>>
  /\ LET c == Head(base.activeq[queue])
     IN /\ base' = Dequeue(base, c)
        /\ running' = queue
        /\ count' = count + Weight(c)
        /\ executing' = c
        /\ current' = IF "finalizing" \in base.flags[c] THEN None ELSE c
  /\ pc' = "callback"
  /\ UNCHANGED <<mode, queue, stopvars, timevars, fdvars, uservars, calls>>

\* After a callback: the broadcast to the threads that wait for it, and the
\* decision how to go on.
Return ==
  /\ current' = None /\ executing' = None
  /\ woken' = {t \in Others : waiting[t] # None}
  /\ IF break THEN Finish(base, -1)
     ELSE IF base.event_continue \/ base.activeq[queue] = <<>>
       THEN IF count > 0 THEN Finish(base, count) ELSE NextQueue(base)
     ELSE pc' = "process" /\ UNCHANGED <<queue, count, running, cache, mode, until, late>>

\* A callback of the user ends; one on a descriptor has read what was there.
\* The finalizer of an event ends by freeing it (event_free_finalize).
CallbackReturns ==
  /\ pc = "callback" /\ executing \in Events \cup Deferred
  /\ Return
  /\ ready' = ready \ {executing}
  /\ life' = [e \in Events |->
                IF e = executing /\ (current = None \/ life[e] = "freed_inside")
                  THEN "freed" ELSE life[e]]
  /\ UNCHANGED <<base, stopvars, now, polled, waiting, calls>>

\* event_loopexit_cb, called by event_once_cb.
ExitCallback ==
  /\ pc = "callback" /\ executing \in Exits
  /\ Return
  /\ gotterm' = TRUE
  /\ UNCHANGED <<base, break, now, fdvars, waiting, life, calls>>

\* evthread_notify_drain_eventfd: the read, and then, with the lock, the flag.
DrainRead ==
  /\ pc = "callback" /\ executing = Notify
  /\ base' = [base EXCEPT !.eventfd = FALSE]
  /\ pc' = "drain"
  /\ UNCHANGED <<mode, queue, count, running, current, executing, stopvars, timevars,
                 fdvars, uservars, calls>>

\* Mutant: the flag stays set.
DrainKeepsPending ==
  /\ pc = "drain"
  /\ pc' = "drained"
  /\ UNCHANGED <<base, mode, queue, count, running, current, executing, stopvars, timevars,
                 fdvars, uservars, calls>>

DrainClear ==
  /\ pc = "drain"
  /\ base' = [base EXCEPT !.is_notify_pending = FALSE]
  /\ pc' = "drained"
  /\ UNCHANGED <<mode, queue, count, running, current, executing, stopvars, timevars,
                 fdvars, uservars, calls>>

DrainReturns ==
  /\ pc = "drained"
  /\ Return
  /\ UNCHANGED <<base, stopvars, now, fdvars, waiting, life, calls>>

-----------------------------------------------------------------------------
(* The calls of the API: by the Looper inside a callback of the user or    *)
(* between two runs of the loop, by another thread when the lock is free.  *)

InUserCode == pc = "idle" \/ (pc = "callback" /\ executing \in Events \cup Deferred)

Calls(t) ==
  /\ calls < MaxCalls
  /\ calls' = calls + 1
  /\ IF t = Looper THEN InUserCode ELSE pc \in Unlocked /\ waiting[t] = None

\* Assumed of the users of an event: they call nothing on it once one of them has
\* called event_free, and its own callback does not add it again while that call
\* waits for it, since event_del_nolock_ does not look again after its one wait.
CallsOn(t, e) == Calls(t) /\ life[e] = "live"

Add(t, e, tv) ==
  /\ CallsOn(t, e)
  /\ base' = AddNolock(base, t, e, tv, FALSE)
  /\ UNCHANGED <<loopvars, stopvars, timevars, fdvars, uservars>>

RemoveTimer(t, e) ==
  /\ CallsOn(t, e)
  /\ "timeout" \in base.flags[e]
  /\ base' = [WithoutFlag(base, e, "timeout") EXCEPT !.io_timeout[e] = 0]
  /\ UNCHANGED <<loopvars, stopvars, timevars, fdvars, uservars>>

Activate(t, e) ==
  /\ CallsOn(t, e)
  /\ base' = ActiveNolock(base, t, e, "user")
  /\ UNCHANGED <<loopvars, stopvars, timevars, fdvars, uservars>>

\* Mutant: event_del returns while the callback runs.
WaitsNever(t, e) == FALSE

\* event_del waits for a callback that runs in another thread.
Waits(t, e) == t # Looper /\ current = e

Del(t, e) ==
  /\ CallsOn(t, e)
  /\ base' = DelNolock(base, t, e)
  /\ IF Waits(t, e) THEN waiting' = [waiting EXCEPT ![t] = e] ELSE UNCHANGED waiting
  /\ UNCHANGED <<loopvars, stopvars, timevars, fdvars, woken, life>>

\* event_free: event_del, then free; allowed inside the callback of the event.
Free(t, e) ==
  /\ CallsOn(t, e)
  /\ \A u \in Others : waiting[u] # e
  /\ base' = DelNolock(base, t, e)
  /\ IF Waits(t, e)
       THEN /\ waiting' = [waiting EXCEPT ![t] = e]
            /\ life' = [life EXCEPT ![e] = "freeing"]
       ELSE /\ life' = [life EXCEPT ![e] =
                          IF t = Looper /\ executing = e THEN "freed_inside" ELSE "freed"]
            /\ UNCHANGED waiting
  /\ UNCHANGED <<loopvars, stopvars, timevars, fdvars, woken>>

\* EVTHREAD_COND_WAIT returns, with the lock, and event_del with it.
Wake(t) ==
  /\ t \in woken /\ pc \in Unlocked
  /\ woken' = woken \ {t}
  /\ waiting' = [waiting EXCEPT ![t] = None]
  /\ life' = [e \in Events |-> IF e = waiting[t] /\ life[e] = "freeing" THEN "freed" ELSE life[e]]
  /\ UNCHANGED <<base, loopvars, stopvars, timevars, fdvars, calls>>

\* event_free_finalize.
Finalize(t, e) ==
  /\ CallsOn(t, e)
  /\ base' = [ActiveNolock(DelNolock(base, t, e), t, e, "finalize") EXCEPT
                !.flags[e] = @ \cup {"finalizing"}]
  /\ life' = [life EXCEPT ![e] = "finalizing"]
  /\ UNCHANGED <<loopvars, stopvars, timevars, fdvars, waiting, woken>>

\* event_deferred_cb_schedule_.
Schedule(t, d) ==
  /\ Calls(t)
  /\ base' = IF base.n_deferreds_queued > MaxDeferreds THEN ActivateLater(base, t, d)
             ELSE IF base.flags[d] # {} THEN CallbackActivate(base, t, d)
             ELSE [CallbackActivate(base, t, d) EXCEPT !.n_deferreds_queued = @ + 1]
  /\ UNCHANGED <<loopvars, stopvars, timevars, fdvars, uservars>>

Cancel(t, d) ==
  /\ Calls(t)
  /\ base' = CancelNolock(base, d)
  /\ UNCHANGED <<loopvars, stopvars, timevars, fdvars, uservars>>

\* event_base_loopexit, through event_base_once.
LoopExit(t, x, tv) ==
  /\ Calls(t)
  /\ base.flags[x] = {} /\ executing # x
  /\ base' = IF tv \in {None, 0} THEN ActiveNolock(base, t, x, "timeout")
             ELSE AddNolock(base, t, x, tv, FALSE)
  /\ UNCHANGED <<loopvars, stopvars, timevars, fdvars, uservars>>

\* Mutant: the loop is not woken.
LoopBreakSilent(t) ==
  /\ Calls(t)
  /\ break' = TRUE
  /\ UNCHANGED <<base, loopvars, gotterm, timevars, fdvars, uservars>>

LoopBreak(t) ==
  /\ Calls(t)
  /\ break' = TRUE
  /\ base' = NotifyBase(base, t)
  /\ UNCHANGED <<loopvars, gotterm, timevars, fdvars, uservars>>

LoopContinue(t) ==
  /\ Calls(t)
  /\ base' = NotifyBase([base EXCEPT !.event_continue = TRUE], t)
  /\ UNCHANGED <<loopvars, stopvars, timevars, fdvars, uservars>>

Call(t) ==
  \/ \E e \in Events :
       \/ \E tv \in Intervals \cup {None} : Add(t, e, tv)
       \/ RemoveTimer(t, e) \/ Activate(t, e) \/ Del(t, e) \/ Free(t, e) \/ Finalize(t, e)
  \/ \E d \in Deferred : Schedule(t, d) \/ Cancel(t, d)
  \/ \E x \in Exits, tv \in Intervals \cup {None} : LoopExit(t, x, tv)
  \/ LoopBreak(t) \/ LoopContinue(t)

\* Data arrives at the descriptor of e.
Arrive(e) ==
  /\ calls < MaxCalls /\ calls' = calls + 1
  /\ e \notin ready /\ ready' = ready \cup {e}
  /\ UNCHANGED <<base, loopvars, stopvars, timevars, polled, uservars>>

\* Time passes while the Looper waits or is in a callback.
Tick ==
  /\ pc \in Unlocked /\ now < MaxTime
  /\ now' = now + 1
  /\ UNCHANGED <<base, loopvars, stopvars, cache, until, late, fdvars, uservars, calls>>

LoopStep ==
  \/ Top \/ MakeLaterActive \/ PollReturns \/ Collect \/ TimeoutProcess \/ TimeoutsDone
  \/ SkipQueue \/ RunCallback \/ CallbackReturns \/ ExitCallback
  \/ DrainRead \/ DrainClear \/ DrainReturns

Next ==
  \/ LoopStep
  \/ Loop \/ PollInterrupted \/ PollFails
  \/ \E t \in Threads : Call(t)
  \/ \E t \in Others : Wake(t)
  \/ \E e \in IO : Arrive(e)
  \/ Tick

Spec == Init /\ [][Next]_vars

\* The Looper goes on, callbacks return, epoll_wait returns what it found, and
\* a thread that was woken gets the lock.
FairSpec == Spec /\ WF_vars(LoopStep) /\ WF_vars(Tick) /\ \A t \in Others : WF_vars(Wake(t))

-----------------------------------------------------------------------------
Listed(q) == {q[j] : j \in 1 .. Len(q)}

Distinct(q) == \A i, j \in 1 .. Len(q) : q[i] = q[j] => i = j

Flagged(fl, f) == {c \in Callbacks : f \in fl[c]}

Memberships(fl) == {p \in (Callbacks \ {Notify}) \X Kinds : p[2] \in fl[p[1]]}

\* The flags, the queues and the counters agree: a callback is in at most one
\* queue, once, the one its flags and its priority say, and event_count and
\* event_count_active count what they should, so that the tests by which the
\* loop decides whether to wait, to run callbacks and to exit are right.
\* (event_base_assert_ok_nolock_, event_queue_insert_ and _remove_.)
Consistent(b) ==
  /\ \A p \in 0 .. NPri - 1 :
       /\ Listed(b.activeq[p]) = {c \in Flagged(b.flags, "active") : Pri[c] = p}
       /\ Distinct(b.activeq[p])
  /\ Listed(b.laterq) = Flagged(b.flags, "later") /\ Distinct(b.laterq)
  /\ Flagged(b.flags, "active") \cap Flagged(b.flags, "later") = {}
  /\ b.event_count_active =
       Cardinality(Flagged(b.flags, "active") \cup Flagged(b.flags, "later"))
  /\ b.event_count = Cardinality(Memberships(b.flags))

Integrity == Consistent(base)

\* The Looper does not sleep in epoll_wait over something it should do: unless
\* the eventfd wakes it, no callback is active, no break is asked for, no timer
\* ends before the wait does (but for the age of the cached time the wait was
\* computed from), and a wait without end has some event to wait for.
\* (evthread_notify_base, event_add_nolock_, event_del_nolock_, timeout_next.)
NoLostWakeup ==
  pc = "epoll" /\ (until = Forever \/ now < until) /\ ~base.eventfd =>
    /\ base.event_count_active = 0 /\ ~break /\ ~gotterm
    /\ \A e \in Timers(base) : until # Forever /\ until <= base.deadline[e] + late
    /\ until = Forever => base.event_count > 0

\* Once event_free has returned, or the finalizer of event_free_finalize has
\* run, the base has no reference to the event and does not run its callback.
\* (event_del_nolock_, event_finalize_nolock_, event_process_active_single_queue.)
FreedUnreferenced ==
  \A e \in Events : life[e] = "freed" =>
    /\ base.flags[e] \cap Kinds = {}
    /\ current # e /\ executing # e

\* A callback starts only when no event of a more urgent priority is active,
\* unless event_base_loopcontinue has cut the more urgent queue short.
\* (event_process_active, event_active_nolock_.)
PriorityRespected ==
  [][pc = "process" /\ pc' = "callback" /\ ~base.event_continue =>
       \A e \in Timed : "active" \in base.flags[e] => Pri[e] >= queue]_vars

\* A loop that is asked to stop stops: after event_base_loopbreak, and once the
\* event of event_base_loopexit is active.
Stops ==
  (pc # "idle" /\ (break \/ \E x \in Exits : "active" \in base.flags[x])) ~> pc = "idle"

\* What event_add documents: an event added with a timeout runs "when the
\* condition specified by event_assign() or event_new() occurs, or when the time
\* specified in timeout has elapsed", so one whose timeout is still ahead, and
\* that has a descriptor, is watched by epoll (or about to run).  For an event
\* that has timed out and is about to run, event_add_nolock_ looks at different
\* flags when it leaves it out of epoll and when it takes it off the active queue.
PendingWatched ==
  \A e \in IO : "timeout" \in base.flags[e] /\ base.deadline[e] > now =>
    base.flags[e] \cap {"inserted", "active"} # {}

=============================================================================
