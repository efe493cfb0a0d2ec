------------------------------ MODULE P2pSession ------------------------------
(***************************************************************************)
(* The life of a session in the native library: every press of "start"     *)
(* runs start_uclient -> start_p2p_client on a thread of its own, the UI   *)
(* thread runs bind_client, and all of them share, without a lock, the     *)
(* globals `elems' (a malloc'ed array whose slot 0 holds the session) and  *)
(* `client_event_base'.                                                    *)
(*                                                                         *)
(* What clnet_connect and clnet_allocate do is module Allocation; here     *)
(* they are one step with an outcome.  What a bind does with the session   *)
(* it found is module TurnBind.  `damage' collects the accesses whose      *)
(* behaviour C leaves undefined; the step that makes one either ends the   *)
(* process or goes on.                                                     *)
(***************************************************************************)
EXTENDS Integers, FiniteSets

CONSTANTS Starters,   \* threads that run start_p2p_client, once each
          PeerStarters \* those started by startPeerClient

Null == "null"
Garbage == "garbage"

ASSUME SessionAssumption ==
  PeerStarters \subseteq Starters /\ Null \notin Starters /\ Garbage \notin Starters

VARIABLES
  pc,                \* where each starter is
  c2c,               \* the global c2c
  mode,              \* what each starter read it to be: "c2c" or "client"
  elems,             \* the global array: the starter that made it, or Null
  slot,              \* elems[0] of each array: a session or Garbage
  freedElems,        \* arrays that were freed
  client_event_base, \* the global base: the starter that made it, or Null
  freedBases,        \* bases that were freed
  watched,           \* the base each starter's session was added to
  damage,            \* the undefined accesses made so far
  overlap,           \* were two starts ever under way at once?
  alive              \* has the process neither crashed nor exited?

heap == <<elems, slot, freedElems>>
bases == <<client_event_base, freedBases, watched>>
vars == <<pc, c2c, mode, heap, bases, damage, overlap, alive>>

\* An array, a base and a session carry the name of the starter that made them.
Init ==
  /\ pc = [t \in Starters |-> "idle"]
  /\ c2c = FALSE
  /\ mode = [t \in Starters |-> Null]
  /\ elems = Null
  /\ slot = [t \in Starters |-> Garbage]
  /\ freedElems = {}
  /\ client_event_base = Null
  /\ freedBases = {}
  /\ watched = [t \in Starters |-> Null]
  /\ damage = {} /\ overlap = FALSE /\ alive = TRUE

Running(t) == pc[t] \notin {"idle", "done", "failed"}

At(t, l) == alive /\ pc[t] = l
Goto(t, l) == pc' = [pc EXCEPT ![t] = l]

\* An undefined access: the process dies, or carries on.
Undefined(kind) == damage' = damage \cup {kind} /\ alive' \in BOOLEAN
Defined == UNCHANGED <<damage, alive>>

\* native-lib's startuclient sets c2c to 1 and nothing sets it back;
\* startPeerClient only stores the peer.
Enter(t) ==
  /\ At(t, "idle")
  /\ c2c' = (c2c \/ t \notin PeerStarters)
  /\ overlap' = (overlap \/ \E u \in Starters \ {t} : Running(u))
  /\ Goto(t, "elems")
  /\ UNCHANGED <<mode, heap, bases, damage, alive>>

\* elems = malloc(...): slot 0 holds whatever the memory held.
AllocElems(t) ==
  /\ At(t, "elems")
  /\ elems' = t
  /\ Goto(t, "base")
  /\ UNCHANGED <<c2c, mode, slot, freedElems, bases, damage, overlap, alive>>

NewBase(t) ==
  /\ At(t, "base")
  /\ client_event_base' = t
  /\ Goto(t, "mode")
  /\ UNCHANGED <<c2c, mode, heap, freedBases, watched, damage, overlap, alive>>

ReadMode(t) ==
  /\ At(t, "mode")
  /\ mode' = [mode EXCEPT ![t] = IF c2c THEN "c2c" ELSE "client"]
  /\ Goto(t, "connect")
  /\ UNCHANGED <<c2c, heap, bases, damage, overlap, alive>>

\* start_connection or start_c2c_connection.  start_c2c goes on whatever the
\* result; start_client returns when it is negative.
Connect(t) ==
  /\ At(t, "connect")
  /\ \/ Goto(t, "watch")
     \/ mode[t] = "client" /\ Goto(t, "free")
  /\ UNCHANGED <<c2c, mode, heap, bases, damage, overlap, alive>>

\* clnet_allocate calls exit.
Exit(t) ==
  /\ At(t, "connect")
  /\ alive' = FALSE
  /\ UNCHANGED <<pc, c2c, mode, heap, bases, damage, overlap>>

\* event_new and event_add on the base the global names now; without a base
\* event_add only fails.
Watch(t) ==
  /\ At(t, "watch")
  /\ watched' = [watched EXCEPT ![t] = client_event_base]
  /\ IF client_event_base \in freedBases THEN Undefined("add to freed base") ELSE Defined
  /\ Goto(t, "publish")
  /\ UNCHANGED <<c2c, mode, heap, client_event_base, freedBases, overlap>>

\* elems[0] = ss in the array the global names now.  start_client then sends
\* a Refresh (and, when it has a peer, more) whose answer nobody awaits.
Publish(t) ==
  /\ At(t, "publish")
  /\ IF elems \in Starters \ freedElems
     THEN slot' = [slot EXCEPT ![elems] = t] /\ Defined
     ELSE Undefined("store to lost elems") /\ UNCHANGED slot
  /\ Goto(t, "check")
  /\ UNCHANGED <<c2c, mode, elems, freedElems, bases, overlap>>

\* start_p2p_client's last lines: if there is a base, ...
CheckBase(t) ==
  /\ At(t, "check")
  /\ Goto(t, IF client_event_base = Null THEN "done" ELSE "exit")
  /\ UNCHANGED <<c2c, mode, heap, bases, damage, overlap, alive>>

\* ... event_base_loopexit, which returns at once for NULL,
LoopExit(t) ==
  /\ At(t, "exit")
  /\ IF client_event_base \in freedBases THEN Undefined("use of lost base") ELSE Defined
  /\ Goto(t, "got")
  /\ UNCHANGED <<c2c, mode, heap, bases, overlap>>

\* ... event_base_got_exit, which does not,
GotExit(t) ==
  /\ At(t, "got")
  /\ IF client_event_base \in Starters \ freedBases THEN Defined ELSE Undefined("use of lost base")
  /\ Goto(t, "drop")
  /\ UNCHANGED <<c2c, mode, heap, bases, overlap>>

\* ... event_base_free, which warns when there is nothing to free,
FreeBase(t) ==
  /\ At(t, "drop")
  /\ IF client_event_base \in freedBases THEN Undefined("free of lost base") ELSE Defined
  /\ freedBases' = freedBases \cup ({client_event_base} \ {Null})
  /\ Goto(t, "clear")
  /\ UNCHANGED <<c2c, mode, heap, client_event_base, watched, overlap>>

\* Mutant: with the two commented-out lines that free elems as well.
ClearBaseFreesElems(t) ==
  /\ At(t, "clear")
  /\ client_event_base' = Null
  /\ elems' = Null /\ freedElems' = freedElems \cup ({elems} \ {Null})
  /\ Goto(t, "done")
  /\ UNCHANGED <<c2c, mode, slot, freedBases, watched, damage, overlap, alive>>

\* ... and clear the global.
ClearBase(t) ==
  /\ At(t, "clear")
  /\ client_event_base' = Null
  /\ Goto(t, "done")
  /\ UNCHANGED <<c2c, mode, heap, freedBases, watched, damage, overlap, alive>>

\* Mutant: the failing branch frees and tries again in place of returning.
FreeElemsRetries(t) ==
  /\ At(t, "free")
  /\ freedElems' = freedElems \cup ({elems} \ {Null})
  /\ IF elems \in freedElems THEN Undefined("free of freed elems") ELSE Defined
  /\ Goto(t, "connect")
  /\ UNCHANGED <<c2c, mode, elems, slot, bases, overlap>>

\* The failing branch: free(elems), which does nothing for NULL; elems = NULL.
\* The base stays.
FreeElems(t) ==
  /\ At(t, "free")
  /\ freedElems' = freedElems \cup ({elems} \ {Null})
  /\ IF elems \in freedElems THEN Undefined("free of freed elems") ELSE Defined
  /\ Goto(t, "forget")
  /\ UNCHANGED <<c2c, mode, elems, slot, bases, overlap>>

ForgetElems(t) ==
  /\ At(t, "forget")
  /\ elems' = Null
  /\ Goto(t, "failed")
  /\ UNCHANGED <<c2c, mode, slot, freedElems, bases, damage, overlap, alive>>

\* elems[0] is a session.
Bindable == elems \in Starters \ freedElems /\ slot[elems] # Garbage

\* bind_client dereferences elems[0] without looking at elems.
Bind ==
  /\ alive
  /\ IF Bindable THEN Defined ELSE Undefined("bind without session")
  /\ UNCHANGED <<pc, c2c, mode, heap, bases, overlap>>

Start(t) ==
  \/ Enter(t) \/ AllocElems(t) \/ NewBase(t) \/ ReadMode(t) \/ Connect(t) \/ Exit(t)
  \/ Watch(t) \/ Publish(t) \/ CheckBase(t) \/ LoopExit(t) \/ GotExit(t)
  \/ FreeBase(t) \/ ClearBase(t) \/ FreeElems(t) \/ ForgetElems(t)

Next == (\E t \in Starters : Start(t)) \/ Bind

Spec == Init /\ [][Next]_vars

-------------------------------------------------------------------------------
Labels == {"idle", "elems", "base", "mode", "connect", "watch", "publish", "check", "exit",
           "got", "drop", "clear", "free", "forget", "done", "failed"}
Damages == {"add to freed base", "store to lost elems", "use of lost base",
            "free of lost base", "free of freed elems", "bind without session"}

\* The shape of the state.
TypeOK ==
  /\ pc \in [Starters -> Labels]
  /\ c2c \in BOOLEAN /\ overlap \in BOOLEAN /\ alive \in BOOLEAN
  /\ mode \in [Starters -> {Null, "c2c", "client"}]
  /\ elems \in Starters \cup {Null}
  /\ slot \in [Starters -> Starters \cup {Garbage}]
  /\ freedElems \subseteq Starters
  /\ client_event_base \in Starters \cup {Null}
  /\ freedBases \subseteq Starters
  /\ watched \in [Starters -> Starters \cup {Null}]
  /\ damage \subseteq Damages

\* As long as no two starts overlap, start_p2p_client makes no undefined
\* access, whatever starts fail and whenever the user binds; the only one left
\* is bind_client's own read of elems[0].
SequentialStartsSafe == ~overlap => damage \subseteq {"bind without session"}

\* The memory of elems is misused only after some start has failed: the
\* failing branch is the one place that frees it.
ElemsLostByFailure ==
  damage \cap {"store to lost elems", "free of freed elems"} # {} =>
    \E t \in Starters : pc[t] \in {"forget", "failed"}

\* When no start is under way, none has failed and one has completed, elems[0]
\* is a session and bind_client is defined, even if starts overlapped: the
\* last starter to replace elems also stores into it afterwards.
BindableAfterStarts ==
  (\A t \in Starters : pc[t] \in {"idle", "done"}) /\ (\E t \in Starters : pc[t] = "done")
    => Bindable

\* Without overlap every base is freed by the start that made it, except the
\* one a failing start_client leaves behind.
BasesAccounted ==
  ~overlap => \A t \in Starters : /\ pc[t] = "done" => t \in freedBases
                                  /\ t \in freedBases => pc[t] \in {"clear", "done"}

\* Without overlap, a session whose start has returned has lost its read event
\* with the base, so client_input_handler never reads the socket that
\* bind_client's turn_channel_bind reads synchronously.
SoleReader ==
  ~overlap => \A t \in Starters : pc[t] = "done" => watched[t] \in freedBases

===============================================================================
