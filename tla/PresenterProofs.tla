---------------------------- MODULE PresenterProofs ---------------------------
(***************************************************************************)
(* What MainPresenter and the pieces it drives keep, for every value of    *)
(* the constants: the MQTT connection (module MqttSession), the fields,    *)
(* sockets and coroutines of an exchange with a peer (PeerExchange), and   *)
(* the binding requests of the TURN client it calls (TurnBind).  The three *)
(* share no variable; each part has its own inductive invariant.           *)
(***************************************************************************)
EXTENDS MqttSession, PeerExchange, TurnBind, FiniteSetTheorems, TLAPS

-------------------------------------------------------------------------------
(* MqttSession: for any number of drops, failures and outages. *)

\* Before initMqtt has connected nothing is under way, and an attempt of our
\* own is an attempt.
Sane ==
  /\ main \in {"new", "crashed"} => Chains = 0 /\ client = "down" /\ ~auto
  /\ mine => client = "connecting"

Flags ==
  /\ handlerSet \in BOOLEAN /\ mine \in BOOLEAN /\ auto \in BOOLEAN
  /\ subscribed \in BOOLEAN /\ missed \in BOOLEAN /\ network \in BOOLEAN

MqttInv == MqttTypeOK /\ Sane /\ NeverStranded /\ ChainsBounded /\ SubscribedOrMissed

\* Every action keeps the shape of the state.
LEMMA MqttTypeStep == MqttTypeOK /\ [MqttNext]_mqttVars => MqttTypeOK'
<1> SUFFICES ASSUME MqttTypeOK, [MqttNext]_mqttVars PROVE MqttTypeOK'
  BY Zenon
<1> USE DEF MqttTypeOK, CallbackKinds, wrapper, paho, env, Return, Callback, Pending
<1>1. CASE InitMqtt BY <1>1 DEF InitMqtt
<1>2. CASE InitThrows BY <1>2 DEF InitThrows
<1>3. CASE Due BY <1>3 DEF Due
<1>4. CASE Check BY <1>4 DEF Check
<1>5. CASE Connect
  <2>1. Flags' BY <1>5, Zenon DEF Connect, Flags
  <2>2. main' \in {"new", "check", "connect", "handlers", "idle", "crashed"} /\ client' \in {"down", "connecting", "up"}
    BY <1>5, Zenon DEF Connect
  <2>3. posted' \in Nat /\ callbacks' \in [CallbackKinds -> Nat] /\ drops' \in Nat /\ fails' \in Nat /\ outages' \in Nat
    BY <1>5 DEF Connect
  <2>. QED BY <2>1, <2>2, <2>3 DEF Flags
<1>6. CASE SetHandlers BY <1>6 DEF SetHandlers
<1>7. CASE ConnectComplete
  <2>1. Flags' BY <1>7, Zenon DEF ConnectComplete, Flags
  <2>2. main' \in {"new", "check", "connect", "handlers", "idle", "crashed"} /\ client' \in {"down", "connecting", "up"}
    BY <1>7, Zenon DEF ConnectComplete
  <2>3. posted' \in Nat /\ callbacks' \in [CallbackKinds -> Nat] /\ drops' \in Nat /\ fails' \in Nat /\ outages' \in Nat
    BY <1>7 DEF ConnectComplete
  <2>. QED BY <2>1, <2>2, <2>3 DEF Flags
<1>8. CASE Disconnected BY <1>8 DEF Disconnected
<1>9. CASE OnFailure BY <1>9 DEF OnFailure
<1>10. CASE AttemptSucceeds
  <2>1. Flags' BY <1>10, Zenon DEF AttemptSucceeds, Flags
  <2>2. main' \in {"new", "check", "connect", "handlers", "idle", "crashed"} /\ client' \in {"down", "connecting", "up"}
    BY <1>10, Zenon DEF AttemptSucceeds
  <2>3. posted' \in Nat /\ callbacks' \in [CallbackKinds -> Nat] /\ drops' \in Nat /\ fails' \in Nat /\ outages' \in Nat
    BY <1>10 DEF AttemptSucceeds
  <2>. QED BY <2>1, <2>2, <2>3 DEF Flags
<1>11. CASE AttemptFails
  <2>1. Flags' BY <1>11, Zenon DEF AttemptFails, Flags
  <2>2. main' \in {"new", "check", "connect", "handlers", "idle", "crashed"} /\ client' \in {"down", "connecting", "up"}
    BY <1>11, Zenon DEF AttemptFails
  <2>3. posted' \in Nat /\ callbacks' \in [CallbackKinds -> Nat] /\ drops' \in Nat /\ fails' \in Nat /\ outages' \in Nat
    BY <1>11 DEF AttemptFails
  <2>. QED BY <2>1, <2>2, <2>3 DEF Flags
<1>12. CASE Drop
  <2>1. Flags' BY <1>12, Zenon DEF Drop, Flags
  <2>2. main' \in {"new", "check", "connect", "handlers", "idle", "crashed"} /\ client' \in {"down", "connecting", "up"}
    BY <1>12, Zenon DEF Drop
  <2>3. posted' \in Nat /\ callbacks' \in [CallbackKinds -> Nat] /\ drops' \in Nat /\ fails' \in Nat /\ outages' \in Nat
    BY <1>12 DEF Drop
  <2>. QED BY <2>1, <2>2, <2>3 DEF Flags
<1>13. CASE AutoAttempt BY <1>13 DEF AutoAttempt
<1>14. CASE NetworkUp BY <1>14 DEF NetworkUp
<1>15. CASE NetworkDown
  <2>1. Flags' BY <1>15, Zenon DEF NetworkDown, Flags
  <2>2. main' \in {"new", "check", "connect", "handlers", "idle", "crashed"} /\ client' \in {"down", "connecting", "up"}
    BY <1>15, Zenon DEF NetworkDown
  <2>3. posted' \in Nat /\ callbacks' \in [CallbackKinds -> Nat] /\ drops' \in Nat /\ fails' \in Nat /\ outages' \in Nat
    BY <1>15 DEF NetworkDown
  <2>. QED BY <2>1, <2>2, <2>3 DEF Flags
<1>16. CASE UNCHANGED mqttVars BY <1>16 DEF mqttVars
<1>. QED
  BY <1>1, <1>2, <1>3, <1>4, <1>5, <1>6, <1>7, <1>8, <1>9, <1>10, <1>11, <1>12, <1>13, <1>14, Zenon,
     <1>15, <1>16 DEF MqttNext, MainThread, Callbacks, Attempt

\* What each action does to the reconnects under way: they are handed on, one
\* ends only with the client up, and only a drop or the first start adds one.
LEMMA ChainStep ==
  MqttInv /\ [MqttNext]_mqttVars => Sane' /\ NeverStranded' /\ ChainsBounded'
<1> SUFFICES ASSUME MqttInv, [MqttNext]_mqttVars PROVE Sane' /\ NeverStranded' /\ ChainsBounded'
  BY Zenon
<1>c. callbacks \in [CallbackKinds -> Nat]
  BY Zenon DEF MqttInv, MqttTypeOK
<1>0. /\ callbacks["disconnected"] \in Nat /\ callbacks["failure"] \in Nat
      /\ posted \in Nat /\ drops \in Nat /\ handlerSet \in BOOLEAN /\ mine \in BOOLEAN
      /\ main \in {"new", "check", "connect", "handlers", "idle", "crashed"}
      /\ client \in {"down", "connecting", "up"}
      /\ Sane /\ NeverStranded /\ ChainsBounded
  BY Zenon DEF MqttInv, MqttTypeOK, CallbackKinds
<1> USE DEF Sane, NeverStranded, ChainsBounded, Chains, wrapper, paho, env, Return
<1>1. CASE InitMqtt BY <1>0, <1>1 DEF InitMqtt
<1>2. CASE InitThrows BY <1>0, <1>2 DEF InitThrows
<1>3. CASE Due BY <1>0, <1>3 DEF Due
<1>4. CASE Check BY <1>0, <1>4 DEF Check
<1>5. CASE Connect BY <1>0, <1>5 DEF Connect
<1>6. CASE SetHandlers BY <1>0, <1>6 DEF SetHandlers
<1>7. CASE ConnectComplete
  <2>1. callbacks'["disconnected"] = callbacks["disconnected"] /\ callbacks'["failure"] = callbacks["failure"]
    BY <1>c, <1>7, Zenon DEF ConnectComplete, CallbackKinds, Callback
  <2>. QED BY <1>0, <1>7, <2>1 DEF ConnectComplete
<1>8. CASE Disconnected
  <2>1. callbacks'["disconnected"] = callbacks["disconnected"] - 1 /\ callbacks'["failure"] = callbacks["failure"]
        /\ callbacks["disconnected"] > 0
    BY <1>c, <1>8, Zenon DEF Disconnected, CallbackKinds, Callback
  <2>. QED BY <1>0, <1>8, <2>1 DEF Disconnected
<1>9. CASE OnFailure
  <2>1. callbacks'["disconnected"] = callbacks["disconnected"] /\ callbacks'["failure"] = callbacks["failure"] - 1
        /\ callbacks["failure"] > 0
    BY <1>c, <1>9, Zenon DEF OnFailure, CallbackKinds, Callback
  <2>. QED BY <1>0, <1>9, <2>1 DEF OnFailure
<1>10. CASE AttemptSucceeds
  <2>1. callbacks'["disconnected"] = callbacks["disconnected"] /\ callbacks'["failure"] = callbacks["failure"]
    BY <1>c, <1>10, Zenon DEF AttemptSucceeds, CallbackKinds, Pending
  <2>. QED BY <1>0, <1>10, <2>1 DEF AttemptSucceeds
<1>11. CASE AttemptFails
  <2>1. callbacks'["disconnected"] = callbacks["disconnected"]
        /\ callbacks'["failure"] = callbacks["failure"] + (IF mine THEN 1 ELSE 0)
    BY <1>c, <1>11 DEF AttemptFails, CallbackKinds, Pending
  <2>. QED BY <1>0, <1>11, <2>1 DEF AttemptFails
<1>12. CASE Drop
  <2>1. callbacks'["disconnected"] = callbacks["disconnected"] + 1 /\ callbacks'["failure"] = callbacks["failure"]
    BY <1>c, <1>12, Zenon DEF Drop, CallbackKinds, Pending
  <2>. QED BY <1>0, <1>12, <2>1 DEF Drop
<1>13. CASE AutoAttempt BY <1>0, <1>13 DEF AutoAttempt
<1>14. CASE NetworkUp BY <1>0, <1>14 DEF NetworkUp
<1>15. CASE NetworkDown BY <1>0, <1>15 DEF NetworkDown
<1>16. CASE UNCHANGED mqttVars BY <1>0, <1>16 DEF mqttVars
<1>. QED
  BY <1>1, <1>2, <1>3, <1>4, <1>5, <1>6, <1>7, <1>8, <1>9, <1>10, <1>11, <1>12, <1>13, <1>14, Zenon,
     <1>15, <1>16 DEF MqttNext, MainThread, Callbacks, Attempt

\* A connection without a pending connectComplete has had one.
LEMMA SubscribeStep == MqttInv /\ [MqttNext]_mqttVars => SubscribedOrMissed'
<1> SUFFICES ASSUME MqttInv, [MqttNext]_mqttVars PROVE SubscribedOrMissed'
  BY Zenon
<1> USE DEF MqttInv, MqttTypeOK, SubscribedOrMissed, CallbackKinds, wrapper, paho, env, Callback,
   Pending
<1>1. CASE ConnectComplete BY <1>1, Zenon DEF ConnectComplete
<1>2. CASE Disconnected BY <1>2 DEF Disconnected
<1>3. CASE OnFailure BY <1>3 DEF OnFailure
<1>4. CASE AttemptSucceeds BY <1>4 DEF AttemptSucceeds
<1>5. CASE AttemptFails BY <1>5 DEF AttemptFails
<1>6. CASE Drop BY <1>6 DEF Drop
<1>7. CASE InitMqtt \/ InitThrows \/ Due \/ Check \/ SetHandlers \/ NetworkUp \/ NetworkDown
  BY <1>7, Zenon DEF InitMqtt, InitThrows, Due, Check, SetHandlers, NetworkUp, NetworkDown
<1>8. CASE Connect BY <1>8 DEF Connect
<1>9. CASE AutoAttempt BY <1>9 DEF AutoAttempt
<1>10. CASE UNCHANGED mqttVars BY <1>10 DEF mqttVars
<1>. QED
  BY <1>1, <1>2, <1>3, <1>4, <1>5, <1>6, <1>7, <1>8, <1>9, <1>10, Zenon
     DEF MqttNext, MainThread, Callbacks, Attempt

\* The state after creating the presenter.
LEMMA MqttInitInv == MqttInit => MqttInv
<1> SUFFICES ASSUME MqttInit PROVE MqttInv
  BY Zenon
<1>1. Flags BY Zenon DEF MqttInit, Flags
<1>2. MqttTypeOK BY <1>1 DEF MqttInit, MqttTypeOK, Flags, CallbackKinds
<1>3. Sane /\ NeverStranded /\ ChainsBounded /\ SubscribedOrMissed
  BY DEF MqttInit, Sane, NeverStranded, ChainsBounded, SubscribedOrMissed, Chains, CallbackKinds
<1>. QED BY <1>2, <1>3 DEF MqttInv

\* The inductive invariant, for any number of drops, failures and outages.
LEMMA MqttInvariance == MqttSpec => []MqttInv
<1>1. MqttInv /\ [MqttNext]_mqttVars => MqttInv'
  BY MqttTypeStep, ChainStep, SubscribeStep, Zenon DEF MqttInv
<1>. QED BY <1>1, MqttInitInv, PTL DEF MqttSpec

\* The shape of the state.
THEOREM MqttTypeCorrect == MqttSpec => []MqttTypeOK
  BY MqttInvariance, PTL DEF MqttInv

\* Whenever the client is not connected after init(), doClientConnection is
\* posted, running, or about to be posted by a callback: the wrapper cannot
\* end up disconnected with nobody trying.
THEOREM MqttNeverStranded == MqttSpec => []NeverStranded
  BY MqttInvariance, PTL DEF MqttInv

\* The reconnect chains never outnumber the lost connections plus one, so
\* reconnect() and Paho's own cycle together do not multiply attempts.
THEOREM MqttChainsBounded == MqttSpec => []ChainsBounded
  BY MqttInvariance, PTL DEF MqttInv

\* Every connection whose connectComplete has run is subscribed unless that
\* callback came before initMqtt set the handler.
THEOREM MqttSubscribedOrMissed == MqttSpec => []SubscribedOrMissed
  BY MqttInvariance, PTL DEF MqttInv

-------------------------------------------------------------------------------
(* PeerExchange: for any number of messages, presses, datagrams and threads. *)

-----------------------------------------------------------------------------
(* The inductive invariant, in three parts that share no variable but       *)
(* remote and localPort, which the jobs only read.                          *)

\* The coroutines of one type, while no two of them have run at once: there is
\* at most one, it has the last message, and once its address is written only
\* its port is missing; when there is none the fields hold the last message.
Alone(t) ==
  /\ \A h \in handlers : h.type = t =>
       h.id = last[t] /\ (h.half => remote[AddrField(t)] = last[t])
  /\ \A g, h \in handlers : g.type = t /\ h.type = t => g = h
  /\ (\A h \in handlers : h.type # t) =>
       /\ t # 4 => remote[AddrField(t)] = last[t]
       /\ t # 1 => remote[PortField(t)] = last[t]

Handler == [id : Nat, type : Types, half : BOOLEAN]

Messages ==
  /\ msgs \in 0 .. MaxMsgs /\ remote \in [Fields -> 0 .. MaxMsgs] /\ localPort \in 0 .. MaxPresses
  /\ last \in [0 .. 4 -> 0 .. MaxMsgs] /\ handlers \subseteq Handler
  /\ \A h \in handlers : h.id \in 1 .. msgs /\ (h.half => h.type \in {2, 3})
  /\ \A t \in (Types \cap 1 .. 4) \ overlapped : Alone(t)

Job ==
  [start : Nat, mode : AllModes, kind : {"send", "receive"}, st : JobStates,
   active : BOOLEAN, addr : Nat, stale : Nat]

\* The jobs of a start are its sender and, after it, its receiver.
Placed(i, start, kind) ==
  start = (i + 1) \div 2 /\ kind = IF i % 2 = 1 THEN "send" ELSE "receive"

\* Job i of n starts, where onDestroy has come to d: a job that is not cancelled
\* is of the last start; a cancelled receiver that has shown a datagram goes on
\* to its test of isActive; senders do not block.
GoodJob(i, j, n, d) ==
  /\ j \in Job /\ Placed(i, j.start, j.kind)
  /\ j.active => j.start = n /\ d # "done"
  /\ j.stale # 0 => j.stale = 1 /\ ~j.active /\ j.kind = "receive" /\ j.st \in {"test", "ended"}
  /\ j.kind = "send" => j.st # "blocked"

\* The jobs of the last start can be found through the fields.
Jobs ==
  /\ starts \in Nat /\ job \in [AllModes -> 0 .. starts]
  /\ starts > 0 => \E m \in AllModes : job[m] = starts
  /\ DOMAIN jobs = 1 .. 2 * starts
  /\ \A i \in 1 .. 2 * starts : GoodJob(i, jobs[i], starts, destroyed)
  /\ destroyed \in {"no", "asked", "done"}

\* The native calls, numbered by press.
Call == [kind : {"turn", "stun"}, st : {"launched", "running", "ended"}]

Calls ==
  /\ Cardinality(DOMAIN native) \in 0 .. MaxPresses
  /\ DOMAIN native = 1 .. Cardinality(DOMAIN native)
  /\ \A n \in DOMAIN native : native[n] \in Call

IInv == Messages /\ Jobs /\ Calls /\ alive \in BOOLEAN /\ data \in 0 .. MaxData

-----------------------------------------------------------------------------
(* The messages.                                                            *)

\* Every type has fields of its own.
LEMMA FieldsApart ==
  /\ \A t \in {1, 2, 3} : AddrField(t) \in Fields
  /\ \A t \in {2, 3, 4} : PortField(t) \in Fields
  /\ \A t, u \in {1, 2, 3} : t # u => AddrField(t) # AddrField(u)
  /\ \A t, u \in {2, 3, 4} : t # u => PortField(t) # PortField(u)
  /\ \A t \in {1, 2, 3}, u \in {2, 3, 4} : AddrField(t) # PortField(u)
<1>1. AddrField(1) = "lanAddr" /\ AddrField(2) = "relayAddr" /\ AddrField(3) = "reflexiveAddr"
  BY DEF AddrField
<1>2. PortField(2) = "relayPort" /\ PortField(3) = "reflexivePort" /\ PortField(4) = "port"
  BY DEF PortField
<1> QED
  BY <1>1, <1>2, Zenon DEF Fields

\* msgHandler.
LEMMA ArriveMessages ==
  ASSUME Messages, NEW t \in Types, Arrive(t)
  PROVE  Messages'
<1> DEFINE new == [id |-> msgs + 1, type |-> t, half |-> FALSE]
<1>0. msgs \in 0 .. MaxMsgs /\ msgs < MaxMsgs /\ msgs' = msgs + 1 /\ MaxMsgs \in Nat
  BY PeerAssumption, Zenon DEF Arrive, Messages
<1>1. /\ msgs \in 0 .. MaxMsgs /\ msgs < MaxMsgs /\ msgs' = msgs + 1 /\ MaxMsgs \in Nat
      /\ last' = [last EXCEPT ![t] = msgs + 1] /\ handlers' = handlers \cup {new}
      /\ overlapped' = overlapped \cup ({t} \cap {h.type : h \in handlers})
      /\ remote' = remote /\ localPort' = localPort
  BY PeerAssumption, Zenon DEF Arrive, Messages
<1>2. msgs' \in 0 .. MaxMsgs /\ msgs + 1 \in 0 .. MaxMsgs /\ t \in 0 .. 4
  BY <1>0, PeerAssumption
<1>3. new \in Handler /\ new.id = msgs + 1 /\ new.type = t /\ new.half = FALSE
  BY <1>2 DEF Handler
<1> HIDE DEF new
<1>4. last' \in [0 .. 4 -> 0 .. MaxMsgs] /\ last'[t] = msgs + 1
      /\ \A u \in 0 .. 4 : u # t => last'[u] = last[u]
  BY <1>1, <1>2, Zenon DEF Messages
<1>5. handlers' \subseteq Handler
      /\ \A h \in handlers' : h.id \in 1 .. msgs' /\ (h.half => h.type \in {2, 3})
  BY <1>1, <1>3 DEF Messages
<1>6. ASSUME NEW u \in (Types \cap 1 .. 4) \ overlapped'
      PROVE  Alone(u)'
  <2>1. u \in (Types \cap 1 .. 4) \ overlapped
    BY <1>1, <1>6, Zenon
  <2>5. u \in 0 .. 4
    BY <2>1
  <2>2. Alone(u)
    BY <2>1, Zenon DEF Messages
  <2>3. CASE u = t
    <3>1. \A h \in handlers : h.type # t
      BY <1>1, <1>6, <2>3, Zenon
    <3> QED
      BY <1>1, <1>3, <1>4, <2>3, <3>1, Zenon DEF Alone
  <2>4. CASE u # t
    BY <1>1, <1>3, <1>4, <2>2, <2>4, <2>5, Zenon DEF Alone
  <2> QED
    BY <2>3, <2>4, Zenon
<1> QED
  BY <1>1, <1>2, <1>4, <1>5, <1>6, Zenon DEF Messages

\* A coroutine writes the address, and is done or has the port to write.
LEMMA WriteAddrMessages ==
  ASSUME Messages, NEW h \in handlers, WriteAddr(h)
  PROVE  Messages'
<1> DEFINE half == [h EXCEPT !.half = TRUE]
           f == AddrField(h.type)
<1>1. /\ h \in Handler /\ h.half = FALSE /\ h.type \in 1 .. 3 /\ remote' = [remote EXCEPT ![f] = h.id]
      /\ handlers' = (handlers \ {h}) \cup (IF h.type = 1 THEN {} ELSE {half})
      /\ UNCHANGED <<localPort, msgs, last, overlapped>>
  BY Zenon DEF WriteAddr, Messages, Handler
<1>2. h.type \in {1, 2, 3} /\ h.type \in Types /\ h.id \in 1 .. msgs /\ msgs \in 0 .. MaxMsgs
  BY <1>1, PeerAssumption DEF Messages, Handler
<1>3. half \in Handler /\ half.id = h.id /\ half.type = h.type /\ half.half = TRUE
  BY <1>1, Zenon DEF Handler
<1>4. f \in Fields
  BY <1>2, FieldsApart, Zenon
<1> HIDE DEF half, f
<1>5. remote' \in [Fields -> 0 .. MaxMsgs] /\ remote'[f] = h.id
      /\ \A g \in Fields : g # f => remote'[g] = remote[g]
  BY <1>1, <1>2, <1>4, PeerAssumption DEF Messages
<1>6. handlers' \subseteq Handler
      /\ \A g \in handlers' : g.id \in 1 .. msgs' /\ (g.half => g.type \in {2, 3})
  BY <1>1, <1>2, <1>3, Zenon DEF Messages
<1>7. ASSUME NEW u \in (Types \cap 1 .. 4) \ overlapped'
      PROVE  Alone(u)'
  <2>1. u \in (Types \cap 1 .. 4) \ overlapped
    BY <1>1, <1>7, Zenon
  <2>2. Alone(u)
    BY <2>1, Zenon DEF Messages
  <2>3. CASE u = h.type
    <3>1. \A g \in handlers' : g.type = u => g = half /\ u # 1
      BY <1>1, <2>2, <2>3, Zenon DEF Alone
    <3>2. h.id = last[u] /\ last' = last
      BY <1>1, <2>2, <2>3, Zenon DEF Alone
    <3>3. (\A g \in handlers' : g.type # u) => u = 1
      BY <1>1, <1>2, <1>3, <2>3, Zenon
    <3> QED
      BY <1>3, <1>5, <2>3, <3>1, <3>2, <3>3, Zenon DEF Alone, f
  <2>4. CASE u # h.type
    <3>1. \A g \in handlers' : g.type = u => g \in handlers
      BY <1>1, <1>3, <2>4, Zenon
    <3>2. \A g \in handlers : g.type = u => g \in handlers'
      BY <1>1, <2>4, Zenon
    <3>3. u # 4 => remote'[AddrField(u)] = remote[AddrField(u)]
      <4>1. SUFFICES ASSUME u # 4 PROVE remote'[AddrField(u)] = remote[AddrField(u)]
        BY Zenon
      <4>2. u \in {1, 2, 3}
        BY <2>1, <4>1
      <4> QED
        BY <1>2, <1>5, <2>4, <4>2, FieldsApart, Zenon DEF f
    <3>4. u # 1 => remote'[PortField(u)] = remote[PortField(u)]
      <4>1. SUFFICES ASSUME u # 1 PROVE remote'[PortField(u)] = remote[PortField(u)]
        BY Zenon
      <4>2. u \in {2, 3, 4}
        BY <2>1, <4>1
      <4> QED
        BY <1>2, <1>5, <4>2, FieldsApart, Zenon DEF f
    <3>5. \A g \in handlers : g.type = u /\ g.half => u # 4
      BY DEF Messages
    <3> QED
      BY <1>1, <2>2, <3>1, <3>2, <3>3, <3>4, <3>5, Zenon DEF Alone
  <2> QED
    BY <2>3, <2>4, Zenon
<1> QED
  BY <1>1, <1>2, <1>5, <1>6, <1>7, Zenon DEF Messages

\* A coroutine writes the port and is done.
LEMMA WritePortMessages ==
  ASSUME Messages, NEW h \in handlers, WritePort(h)
  PROVE  Messages'
<1> DEFINE f == PortField(h.type)
<1>1. /\ h \in Handler /\ (h.half \/ h.type = 4) /\ remote' = [remote EXCEPT ![f] = h.id]
      /\ handlers' = handlers \ {h} /\ UNCHANGED <<localPort, msgs, last, overlapped>>
  BY Zenon DEF WritePort, Messages
<1>2. h.type \in {2, 3, 4} /\ h.type \in Types /\ h.id \in 1 .. msgs /\ msgs \in 0 .. MaxMsgs
  BY <1>1, Zenon DEF Messages, Handler
<1>4. f \in Fields
  BY <1>2, FieldsApart, Zenon
<1> HIDE DEF f
<1>5. remote' \in [Fields -> 0 .. MaxMsgs] /\ remote'[f] = h.id
      /\ \A g \in Fields : g # f => remote'[g] = remote[g]
  BY <1>1, <1>2, <1>4, PeerAssumption DEF Messages
<1>6. handlers' \subseteq Handler
      /\ \A g \in handlers' : g.id \in 1 .. msgs' /\ (g.half => g.type \in {2, 3})
  BY <1>1, Zenon DEF Messages
<1>7. ASSUME NEW u \in (Types \cap 1 .. 4) \ overlapped'
      PROVE  Alone(u)'
  <2>1. u \in (Types \cap 1 .. 4) \ overlapped
    BY <1>1, <1>7, Zenon
  <2>2. Alone(u)
    BY <2>1, Zenon DEF Messages
  <2>3. u # 4 => remote'[AddrField(u)] = remote[AddrField(u)]
    <3>1. SUFFICES ASSUME u # 4 PROVE remote'[AddrField(u)] = remote[AddrField(u)]
      BY Zenon
    <3>2. u \in {1, 2, 3}
      BY <2>1, <3>1
    <3> QED
      BY <1>2, <1>5, <3>2, FieldsApart, Zenon DEF f
  <2>4. CASE u = h.type
    <3>1. \A g \in handlers' : g.type # u
      BY <1>1, <2>2, <2>4, Zenon DEF Alone
    <3>2. h.id = last[u] /\ last' = last /\ (u # 4 => remote[AddrField(u)] = last[u])
      BY <1>1, <2>2, <2>4, Zenon DEF Alone
    <3> QED
      BY <1>5, <2>3, <2>4, <3>1, <3>2, Zenon DEF Alone, f
  <2>5. CASE u # h.type
    <3>1. \A g \in handlers' : g.type = u => g \in handlers
      BY <1>1, Zenon
    <3>2. \A g \in handlers : g.type = u => g \in handlers'
      BY <1>1, <2>5, Zenon
    <3>3. u # 1 => remote'[PortField(u)] = remote[PortField(u)]
      <4>1. SUFFICES ASSUME u # 1 PROVE remote'[PortField(u)] = remote[PortField(u)]
        BY Zenon
      <4>2. u \in {2, 3, 4}
        BY <2>1, <4>1
      <4> QED
        BY <1>2, <1>5, <2>5, <4>2, FieldsApart, Zenon DEF f
    <3>4. \A g \in handlers : g.type = u /\ g.half => u # 4
      BY DEF Messages
    <3> QED
      BY <1>1, <2>2, <2>3, <3>1, <3>2, <3>3, <3>4, Zenon DEF Alone
  <2> QED
    BY <2>4, <2>5, Zenon
<1> QED
  BY <1>1, <1>2, <1>5, <1>6, <1>7, Zenon DEF Messages

\* A coroutine whose message is of no known type is done; it has no field.
LEMMA RejectMessages ==
  ASSUME Messages, NEW h \in handlers, HandlerRejects(h)
  PROVE  Messages'
<1>1. h.type = 0 /\ handlers' = handlers \ {h} /\ UNCHANGED <<remote, localPort, msgs, last, overlapped>>
  BY Zenon DEF HandlerRejects
<1>2. ASSUME NEW u \in (Types \cap 1 .. 4) \ overlapped
      PROVE  Alone(u)'
  <2>1. u # h.type
    BY <1>1
  <2>2. \A g \in handlers : g.type = u => g \in handlers'
    BY <1>1, <2>1, Zenon
  <2>3. Alone(u)
    BY Zenon DEF Messages
  <2> QED
    BY <1>1, <2>2, <2>3, Zenon DEF Alone
<1> QED
  BY <1>1, <1>2, Zenon DEF Messages

\* Nothing else touches the handlers or the fields they write.
LEMMA MessagesFrame ==
  ASSUME Messages, localPort' \in 0 .. MaxPresses, UNCHANGED <<remote, handlers, msgs, last, overlapped>>
  PROVE  Messages'
BY Zenon DEF Messages, Alone

\* The same, for a step that changes nothing about the peer.
LEMMA PeerFrame ==
  ASSUME Messages, UNCHANGED peer
  PROVE  Messages'
BY Zenon DEF peer, Messages, Alone

-----------------------------------------------------------------------------
(* The jobs.                                                                *)

\* A step that leaves the jobs and the fields alone.
LEMMA JobsFrame ==
  ASSUME Jobs, UNCHANGED <<job, starts, jobs, destroyed>>
  PROVE  Jobs'
BY Zenon DEF Jobs

\* A step of one job, if it leaves a job that may be in its place.
LEMMA JobMove ==
  ASSUME Jobs, NEW i \in DOMAIN jobs, NEW r, GoodJob(i, r, starts, destroyed),
         jobs' = [jobs EXCEPT ![i] = r], UNCHANGED <<job, starts, destroyed>>
  PROVE  Jobs'
<1>1. DOMAIN jobs' = 1 .. 2 * starts /\ jobs'[i] = r
      /\ \A k \in 1 .. 2 * starts : k # i => jobs'[k] = jobs[k]
  BY Zenon DEF Jobs
<1>2. ASSUME NEW k \in 1 .. 2 * starts
      PROVE  GoodJob(k, jobs'[k], starts, destroyed)
  BY <1>1, Zenon DEF Jobs
<1> QED
  BY <1>1, <1>2, Zenon DEF Jobs

\* What Jobs says of one job.
LEMMA JobFacts ==
  ASSUME Jobs, NEW i \in DOMAIN jobs
  PROVE  /\ GoodJob(i, jobs[i], starts, destroyed) /\ jobs[i] \in Job
         /\ jobs[i].stale # 0 => jobs[i].stale = 1 /\ jobs[i].active = FALSE
                                 /\ jobs[i].kind = "receive" /\ jobs[i].st \in {"test", "ended"}
<1>1. GoodJob(i, jobs[i], starts, destroyed)
  BY Zenon DEF Jobs
<1> QED
  BY <1>1 DEF GoodJob

\* A job goes to another of its states.
LEMMA JobGoes ==
  ASSUME Jobs, NEW i \in DOMAIN jobs, NEW st \in JobStates, Goto(i, st),
         jobs[i].stale # 0 => st \in {"test", "ended"},
         jobs[i].kind = "send" => st # "blocked", UNCHANGED <<job, starts, destroyed>>
  PROVE  Jobs'
<1> DEFINE r == [jobs[i] EXCEPT !.st = st]
<1>1. jobs' = [jobs EXCEPT ![i] = r]
  BY Zenon DEF Goto
<1>2. GoodJob(i, jobs[i], starts, destroyed) /\ jobs[i] \in Job
  BY JobFacts, Zenon
<1>3. r \in Job /\ r.start = jobs[i].start /\ r.kind = jobs[i].kind /\ r.active = jobs[i].active
      /\ r.stale = jobs[i].stale /\ r.st = st
  BY <1>2, Zenon DEF Job
<1> HIDE DEF r
<1>4. GoodJob(i, r, starts, destroyed)
  BY <1>2, <1>3, Zenon DEF GoodJob
<1> QED
  BY <1>1, <1>4, JobMove, Zenon

\* The steps of a job that only move it on.
LEMMA RunsJobs ==
  ASSUME Jobs, Messages, NEW i \in DOMAIN jobs, Runs(i)
  PROVE  Jobs'
<1>1. /\ jobs[i].stale # 0 => jobs[i].active = FALSE /\ jobs[i].kind = "receive"
                             /\ jobs[i].st \in {"test", "ended"}
      /\ GoodJob(i, jobs[i], starts, destroyed) /\ jobs[i] \in Job
  BY JobFacts, Zenon
<1>2. UNCHANGED <<job, starts, destroyed>>
  BY Zenon DEF Runs, NeverRuns, SenderBegins, SenderTests, Sends, SendThrows, SenderDelayed,
         ReceiverBegins, ReceiverTests
<1>3. {"test", "ended", "send", "delay", "blocked"} \subseteq JobStates
  BY Zenon DEF JobStates
<1>4. CASE NeverRuns(i)
  BY <1>2, <1>3, <1>4, JobGoes, Zenon DEF NeverRuns
<1>5. CASE SenderBegins(i)
  <2>1. Goto(i, "test") \/ Goto(i, "ended")
    BY <1>5, Zenon DEF SenderBegins
  <2> QED
    BY <1>2, <1>3, <2>1, JobGoes, Zenon
<1>6. CASE SenderTests(i)
  <2> DEFINE r == [jobs[i] EXCEPT !.st = IF jobs[i].active THEN "send" ELSE "ended",
                                  !.addr = TargetAddr(jobs[i].mode)]
  <2>1. jobs' = [jobs EXCEPT ![i] = r]
    BY <1>6, Zenon DEF SenderTests
  <2>2. TargetAddr(jobs[i].mode) \in Nat
    BY PeerAssumption DEF TargetAddr, Messages, Fields
  <2>3. r \in Job /\ r.start = jobs[i].start /\ r.kind = jobs[i].kind /\ r.active = jobs[i].active
        /\ r.stale = jobs[i].stale /\ r.st \in {"send", "ended"}
    BY <1>1, <1>3, <2>2, Zenon DEF Job
  <2>4. jobs[i].kind = "send"
    BY <1>6, Zenon DEF SenderTests, At
  <2> HIDE DEF r
  <2>5. GoodJob(i, r, starts, destroyed)
    BY <1>1, <2>3, <2>4, Zenon DEF GoodJob
  <2> QED
    BY <1>2, <2>1, <2>5, JobMove, Zenon
<1>7. CASE Sends(i) \/ SendThrows(i)
  <2>1. Goto(i, "delay") /\ jobs[i].kind = "send"
    BY <1>7, Zenon DEF Sends, SendThrows, At
  <2> QED
    BY <1>1, <1>2, <1>3, <2>1, JobGoes, Zenon
<1>8. CASE SenderDelayed(i)
  <2>1. Goto(i, "test") \/ Goto(i, "ended")
    BY <1>8, Zenon DEF SenderDelayed
  <2> QED
    BY <1>2, <1>3, <2>1, JobGoes, Zenon
<1>9. CASE ReceiverBegins(i)
  <2>1. Goto(i, "test") \/ Goto(i, "ended")
    BY <1>9, Zenon DEF ReceiverBegins
  <2> QED
    BY <1>2, <1>3, <2>1, JobGoes, Zenon
<1>10. CASE ReceiverTests(i)
  <2>1. jobs[i].kind = "receive" /\ Goto(i, IF jobs[i].active THEN "blocked" ELSE "ended")
    BY <1>10, Zenon DEF ReceiverTests, At
  <2>2. CASE jobs[i].active
    <3>1. Goto(i, "blocked") /\ jobs[i].stale = 0
      BY <1>1, <2>1, <2>2, Zenon
    <3> QED
      BY <1>2, <1>3, <2>1, <3>1, JobGoes, Zenon
  <2>3. CASE ~jobs[i].active
    <3>1. Goto(i, "ended")
      BY <2>1, <2>3, Zenon
    <3> QED
      BY <1>2, <1>3, <3>1, JobGoes, Zenon
  <2> QED
    BY <2>2, <2>3, Zenon
<1> QED
  BY <1>4, <1>5, <1>6, <1>7, <1>8, <1>9, <1>10, Zenon DEF Runs

\* receive returns: a cancelled receiver has shown nothing yet, and goes to its
\* test of isActive.
LEMMA ReceivesJobs ==
  ASSUME Jobs, NEW i \in DOMAIN jobs, Receives(i)
  PROVE  Jobs'
<1> DEFINE n == IF jobs[i].active THEN 0 ELSE 1
           r == [jobs[i] EXCEPT !.st = "test", !.stale = n]
<1>1. /\ jobs[i].stale # 0 => jobs[i].st \in {"test", "ended"}
      /\ GoodJob(i, jobs[i], starts, destroyed) /\ jobs[i] \in Job
  BY JobFacts, Zenon
<1>2. jobs[i].kind = "receive" /\ jobs[i].st = "blocked" /\ UNCHANGED <<job, starts, destroyed>>
  BY Zenon DEF Receives, At
<1>3. jobs[i].stale = 0 /\ jobs[i].active \in BOOLEAN
  BY <1>1, <1>2, Zenon DEF Job
<1>4. n \in Nat /\ (n # 0 => n = 1 /\ ~jobs[i].active)
  BY Zenon
<1>5. jobs' = [jobs EXCEPT ![i].st = "test", ![i].stale = jobs[i].stale + n]
  BY Zenon DEF Receives
<1> HIDE DEF n
<1>6. jobs[i].stale + n = n
  BY <1>3, <1>4
<1>7. jobs' = [jobs EXCEPT ![i] = r]
  BY <1>5, <1>6, Zenon
<1>8. r \in Job /\ r.start = jobs[i].start /\ r.kind = jobs[i].kind /\ r.active = jobs[i].active
      /\ r.stale = n /\ r.st = "test"
  BY <1>1, <1>4, Zenon DEF Job, JobStates
<1> HIDE DEF r
<1>9. GoodJob(i, r, starts, destroyed)
  BY <1>1, <1>2, <1>4, <1>8, Zenon DEF GoodJob
<1> QED
  BY <1>2, <1>7, <1>9, JobMove, Zenon

\* cancelAllJob reaches every job that has not been cancelled: it is of the last
\* start, and some field holds that start.
LEMMA CancelsAll ==
  ASSUME Jobs, NEW i \in 1 .. 2 * starts
  PROVE  /\ DOMAIN Cancelled(jobs) = 1 .. 2 * starts
         /\ \A n \in Nat, d \in {"no", "asked", "done"} : GoodJob(i, Cancelled(jobs)[i], n, d)
<1> DEFINE r == Cancelled(jobs)[i]
<1>1. DOMAIN jobs = 1 .. 2 * starts /\ starts \in Nat /\ starts > 0
      /\ GoodJob(i, jobs[i], starts, destroyed)
  BY DEF Jobs
<1>2. jobs[i] \in Job /\ (jobs[i].active => jobs[i].start = starts)
  BY <1>1, Zenon DEF GoodJob
<1>3. jobs[i].active => CancelAllJob(jobs[i])
  BY <1>1, <1>2, Zenon DEF CancelAllJob, Jobs
<1>4. DOMAIN Cancelled(jobs) = 1 .. 2 * starts
      /\ r = IF CancelAllJob(jobs[i]) THEN [jobs[i] EXCEPT !.active = FALSE] ELSE jobs[i]
  BY <1>1, Zenon DEF Cancelled
<1> HIDE DEF r
<1>5. r \in Job /\ r.start = jobs[i].start /\ r.kind = jobs[i].kind /\ r.active = FALSE
      /\ r.stale = jobs[i].stale /\ r.st = jobs[i].st
  <2>1. CASE CancelAllJob(jobs[i])
    BY <1>2, <1>4, <2>1, Zenon DEF Job
  <2>2. CASE ~CancelAllJob(jobs[i])
    BY <1>2, <1>3, <1>4, <2>2, Zenon DEF Job
  <2> QED
    BY <2>1, <2>2, Zenon
<1>6. ASSUME NEW n \in Nat, NEW d \in {"no", "asked", "done"}
      PROVE  GoodJob(i, r, n, d)
  BY <1>1, <1>5, Zenon DEF GoodJob
<1> QED
  BY <1>4, <1>6, Zenon DEF r

\* A button cancels every job and launches two.
LEMMA StartJobs ==
  ASSUME Jobs, NEW m \in Modes, StartUDP(m)
  PROVE  Jobs'
<1> DEFINE n == 2 * starts
           new(i) == NewJob(m, IF i = n + 1 THEN "send" ELSE "receive")
<1>1. /\ starts \in Nat /\ starts' = starts + 1 /\ starts' \in Nat /\ n \in Nat /\ m \in AllModes
      /\ destroyed = "no" /\ destroyed' = destroyed /\ job' = [job EXCEPT ![m] = starts + 1]
      /\ jobs' = [i \in 1 .. n + 2 |-> IF i <= n THEN Cancelled(jobs)[i] ELSE new(i)]
  BY PeerAssumption DEF Jobs, StartUDP
<1>2. job' \in [AllModes -> 0 .. starts'] /\ job'[m] = starts'
  BY <1>1 DEF Jobs
<1>3. 1 .. 2 * starts' = 1 .. n + 2
  BY <1>1
<1>4. ASSUME NEW i \in 1 .. n + 2
      PROVE  GoodJob(i, jobs'[i], starts', destroyed')
  <2>1. CASE i <= n
    <3>1. i \in 1 .. 2 * starts /\ jobs'[i] = Cancelled(jobs)[i]
      BY <1>1, <2>1
    <3> QED
      BY <1>1, <3>1, CancelsAll, Zenon
  <2>2. CASE ~(i <= n)
    <3>1. jobs'[i] = new(i) /\ i \in {n + 1, n + 2}
      BY <1>1, <2>2
    <3>2. (i + 1) \div 2 = starts + 1 /\ (i % 2 = 1 <=> i = n + 1)
      BY <1>1, <3>1
    <3>3. new(i) \in Job /\ new(i).start = starts + 1 /\ new(i).active = TRUE /\ new(i).stale = 0
          /\ new(i).st = "launched" /\ new(i).kind = IF i = n + 1 THEN "send" ELSE "receive"
      BY <1>1, Zenon DEF NewJob, Job, JobStates
    <3> HIDE DEF new, n
    <3> QED
      BY <1>1, <3>1, <3>2, <3>3, Zenon DEF GoodJob, Placed
  <2> QED
    BY <2>1, <2>2, Zenon
<1> QED
  BY <1>1, <1>2, <1>3, <1>4, Zenon DEF Jobs

\* destroy, and the coroutine it launches.
LEMMA DestroyJobs ==
  ASSUME Jobs, Destroy \/ DestroyCancels
  PROVE  Jobs'
<1>1. CASE Destroy
  BY <1>1, Zenon DEF Destroy, Jobs, GoodJob
<1>2. CASE DestroyCancels
  <2>1. jobs' = Cancelled(jobs) /\ destroyed' = "done" /\ UNCHANGED <<job, starts>> /\ starts \in Nat
    BY <1>2, Zenon DEF DestroyCancels, Jobs
  <2>2. DOMAIN jobs' = 1 .. 2 * starts
    BY <2>1, Zenon DEF Cancelled, Jobs
  <2>3. \A i \in 1 .. 2 * starts : GoodJob(i, jobs'[i], starts, destroyed')
    BY <2>1, CancelsAll, Zenon
  <2> QED
    BY <2>1, <2>2, <2>3, Zenon DEF Jobs
<1> QED
  BY <1>1, <1>2, Zenon

\* At most one job of every start is in receive.
LEMMA BlockedBound ==
  ASSUME Jobs
  PROVE  LET B == {i \in DOMAIN jobs : jobs[i].st = "blocked"} IN
         Cardinality(B) \in Nat /\ Cardinality(B) <= starts
<1> DEFINE B == {i \in DOMAIN jobs : jobs[i].st = "blocked"}
           f == [i \in B |-> i \div 2]
<1>1. starts \in Nat /\ DOMAIN jobs = 1 .. 2 * starts
  BY Zenon DEF Jobs
<1>2. IsFiniteSet(1 .. 2 * starts)
  BY <1>1, FS_Interval
<1>3. IsFiniteSet(1 .. starts) /\ Cardinality(1 .. starts) = starts
  BY <1>1, FS_Interval
<1>4. B \in SUBSET (1 .. 2 * starts)
  BY <1>1, Zenon
<1>5. IsFiniteSet(B)
  BY <1>2, <1>4, FS_Subset, Zenon
<1>6. Cardinality(B) \in Nat
  BY <1>5, FS_CardinalityType, Zenon
<1>7. \A i \in B : i \in Int /\ i % 2 = 0 /\ 1 <= i /\ i <= 2 * starts
  <2> SUFFICES ASSUME NEW i \in B PROVE i \in Int /\ i % 2 = 0 /\ 1 <= i /\ i <= 2 * starts
    BY Zenon
  <2>1. i \in 1 .. 2 * starts /\ jobs[i].st = "blocked"
    BY <1>1, Zenon
  <2>2. GoodJob(i, jobs[i], starts, destroyed)
    BY <2>1, Zenon DEF Jobs
  <2>3. i % 2 # 1
    BY <2>1, <2>2, Zenon DEF GoodJob, Placed
  <2> QED
    BY <1>1, <2>1, <2>3
<1>8. f \in [B -> 1 .. starts]
  BY <1>1, <1>7
<1>9. \A i, k \in B : f[i] = f[k] => i = k
  BY <1>7
<1> HIDE DEF B, f
<1>10. ASSUME starts < Cardinality(B) PROVE FALSE
  <2> DEFINE T == 1 .. starts
  <2>1. IsFiniteSet(T) /\ Cardinality(T) < Cardinality(B) /\ f \in [B -> T]
    BY <1>3, <1>8, <1>10, Zenon
  <2> HIDE DEF T
  <2>2. \E i, k \in B : i # k /\ f[i] = f[k]
    BY <1>5, <2>1, FS_PigeonHole, Zenon
  <2> QED
    BY <1>9, <2>2, Zenon
<1> QED
  BY <1>1, <1>6, <1>10 DEF B

-----------------------------------------------------------------------------
(* The native calls.                                                        *)

\* A press launches one more call.
LEMMA StartCalls ==
  ASSUME Calls, starts \in Nat, NEW kind \in {"turn", "stun"}, StartCall(kind)
  PROVE  Calls'
<1> DEFINE k == Cardinality(DOMAIN native)
           new == [kind |-> kind, st |-> "launched"]
<1>1. k \in 0 .. MaxPresses /\ starts + k < MaxPresses
      /\ native' = [n \in 1 .. (k + 1) |-> IF n = k + 1 THEN new ELSE native[n]]
  BY Zenon DEF Calls, StartCall, Presses
<1>2. k + 1 \in Nat /\ k + 1 \in 0 .. MaxPresses
  BY <1>1, PeerAssumption
<1>3. new \in Call
  BY Zenon DEF Call
<1>4. DOMAIN native' = 1 .. (k + 1)
  BY <1>1, Zenon
<1>5. Cardinality(1 .. (k + 1)) = k + 1
  BY <1>2, FS_Interval
<1>6. ASSUME NEW n \in 1 .. (k + 1)
      PROVE  native'[n] \in Call
  <2>1. CASE n = k + 1
    BY <1>1, <1>3, <2>1, Zenon
  <2>2. CASE n # k + 1
    <3>1. n \in 1 .. k /\ native'[n] = native[n]
      BY <1>1, <2>2
    <3> QED
      BY <3>1, Zenon DEF Calls
  <2> QED
    BY <2>1, <2>2, Zenon
<1> HIDE DEF k, new
<1> QED
  BY <1>2, <1>4, <1>5, <1>6, Zenon DEF Calls

\* A call begins or ends.
LEMMA MoveCalls ==
  ASSUME Calls, NEW n \in DOMAIN native, NEW st \in {"launched", "running", "ended"},
         native' = [native EXCEPT ![n].st = st]
  PROVE  Calls'
<1> DEFINE r == [native[n] EXCEPT !.st = st]
<1>1. r \in Call
  BY Zenon DEF Calls, Call
<1>2. native' = [native EXCEPT ![n] = r]
  BY Zenon
<1> HIDE DEF r
<1> QED
  BY <1>1, <1>2, Zenon DEF Calls

\* A step that makes no call.
LEMMA CallsFrame ==
  ASSUME Calls, UNCHANGED native
  PROVE  Calls'
BY Zenon DEF Calls

\* No more calls run than were made.
LEMMA CallingBound ==
  ASSUME Calls
  PROVE  Cardinality(Calling) \in Nat /\ Cardinality(Calling) <= Cardinality(DOMAIN native)
<1>1. Cardinality(DOMAIN native) \in Nat /\ DOMAIN native = 1 .. Cardinality(DOMAIN native)
  BY PeerAssumption DEF Calls
<1>2. IsFiniteSet(1 .. Cardinality(DOMAIN native))
  BY <1>1, FS_Interval
<1>3. IsFiniteSet(DOMAIN native) /\ Calling \in SUBSET (DOMAIN native)
  BY <1>1, <1>2, Zenon DEF Calling
<1>4. IsFiniteSet(Calling) /\ Cardinality(Calling) <= Cardinality(DOMAIN native)
  BY <1>3, FS_Subset, Zenon
<1> QED
  BY <1>4, FS_CardinalityType, Zenon

-----------------------------------------------------------------------------
(* The theorems.                                                            *)

\* The invariant holds of the first state: no message, no job.
LEMMA InitIInv == Init => IInv
<1> SUFFICES ASSUME Init PROVE IInv
  BY Zenon
<1>1. Messages
  <2>1. \A t \in Types \cap 1 .. 4 : t \in 1 .. 4
    BY Zenon
  <2>2. \A t \in Types \cap 1 .. 4 : (t # 4 => AddrField(t) \in Fields) /\ (t # 1 => PortField(t) \in Fields)
    BY <2>1, FieldsApart
  <2> QED
    BY <2>1, <2>2, PeerAssumption DEF Init, Messages, Alone
<1>2. Jobs
  BY DEF Init, Jobs
<1>3. Calls
  <2>1. DOMAIN native = {} /\ 1 .. 0 = {}
    BY DEF Init
  <2>2. Cardinality(DOMAIN native) = 0
    BY <2>1, FS_EmptySet, Zenon
  <2> QED
    BY <2>1, <2>2, PeerAssumption DEF Calls
<1> QED
  BY <1>1, <1>2, <1>3, PeerAssumption DEF Init, IInv

\* Every step keeps the invariant.
LEMMA NextIInv == IInv /\ [Next]_vars => IInv'
<1> SUFFICES ASSUME IInv, [Next]_vars PROVE IInv'
  BY Zenon
<1> USE DEF IInv
<1>1. ASSUME NEW t \in Types, Arrive(t) PROVE IInv'
  <2>1. Messages'
    BY <1>1, ArriveMessages, Zenon
  <2> QED
    BY <1>1, <2>1, JobsFrame, CallsFrame, Zenon DEF Arrive, acts
<1>2. ASSUME NEW h \in handlers, Handles(h) PROVE IInv'
  <2>1. Messages'
    BY <1>2, WriteAddrMessages, WritePortMessages, RejectMessages, Zenon DEF Handles
  <2>2. UNCHANGED <<job, starts, jobs, destroyed>> /\ native' = native /\ data' = data
        /\ (alive' = alive \/ alive' \in BOOLEAN)
    BY <1>2, Zenon DEF Handles, WriteAddr, WritePort, HandlerRejects, acts
  <2> QED
    BY <2>1, <2>2, JobsFrame, CallsFrame, Zenon
<1>3. ASSUME NEW n \in DOMAIN native, LocalPort(n) PROVE IInv'
  <2>1. n \in 0 .. MaxPresses
    BY PeerAssumption DEF Calls
  <2>2. Messages'
    BY <1>3, <2>1, MessagesFrame, Zenon DEF LocalPort
  <2> QED
    BY <1>3, <2>2, JobsFrame, CallsFrame, Zenon DEF LocalPort, acts
<1>9. ASSUME NEW kind \in {"turn", "stun"}, StartCall(kind) PROVE IInv'
  <2>1. Messages' /\ Jobs'
    BY <1>9, PeerFrame, JobsFrame, Zenon DEF StartCall
  <2>2. Calls'
    BY <1>9, StartCalls, Zenon DEF Jobs
  <2> QED
    BY <1>9, <2>1, <2>2, Zenon DEF StartCall
<1>10. ASSUME NEW n \in DOMAIN native, CallBegins(n) \/ CallEnds(n) PROVE IInv'
  <2>1. Messages' /\ Jobs'
    BY <1>10, PeerFrame, JobsFrame, Zenon DEF CallBegins, CallEnds
  <2>2. Calls'
    BY <1>10, MoveCalls, CallsFrame, Zenon DEF CallBegins, CallEnds
  <2>3. data' = data /\ (alive' = alive \/ alive' = FALSE)
    BY <1>10, Zenon DEF CallBegins, CallEnds
  <2> QED
    BY <2>1, <2>2, <2>3, Zenon
<1>4. ASSUME NEW m \in Modes, StartUDP(m) PROVE IInv'
  <2>1. Messages'
    BY <1>4, PeerFrame, Zenon DEF StartUDP
  <2> QED
    BY <1>4, <2>1, StartJobs, CallsFrame, Zenon DEF StartUDP
<1>5. CASE Destroy \/ DestroyCancels
  <2>1. Messages'
    BY <1>5, PeerFrame, Zenon DEF Destroy, DestroyCancels
  <2> QED
    BY <1>5, <2>1, DestroyJobs, CallsFrame, Zenon DEF Destroy, DestroyCancels
<1>6. ASSUME NEW i \in DOMAIN jobs, Runs(i) PROVE IInv'
  <2>1. peer' = peer /\ native' = native /\ data' = data /\ (alive' = alive \/ alive' = (jobs[i].mode = "reflexive"))
    BY <1>6, Zenon DEF Runs, NeverRuns, SenderBegins, SenderTests, Sends, SendThrows, SenderDelayed,
                ReceiverBegins, ReceiverTests
  <2>2. Messages'
    BY <2>1, PeerFrame, Zenon
  <2>3. Jobs'
    BY <1>6, RunsJobs, Zenon
  <2> QED
    BY <2>1, <2>2, <2>3, CallsFrame, Zenon
<1>7. ASSUME NEW i \in DOMAIN jobs, Receives(i) PROVE IInv'
  <2>1. Messages'
    BY <1>7, PeerFrame, Zenon DEF Receives
  <2>2. data' \in 0 .. MaxData /\ alive' = alive /\ native' = native
    BY <1>7, PeerAssumption DEF Receives
  <2> QED
    BY <1>7, <2>1, <2>2, ReceivesJobs, CallsFrame, Zenon
<1>8. CASE UNCHANGED vars
  <2>1. Messages'
    BY <1>8, PeerFrame, Zenon DEF vars
  <2> QED
    BY <1>8, <2>1, JobsFrame, CallsFrame, Zenon DEF vars, acts
<1> QED
  BY <1>1, <1>2, <1>3, <1>4, <1>5, <1>6, <1>7, <1>8, <1>9, <1>10, Zenon DEF Next

\* The inductive invariant, for any number of messages, presses and datagrams.
THEOREM ExchangeInvariant == Spec => []IInv
BY InitIInv, NextIInv, PTL DEF Spec

\* The shape of the state: the jobs of a press are its sender and its receiver,
\* and a coroutine between two assignments is one of a type that has two.
THEOREM PeerTypeCorrect == Spec => []TypeOK
<1>1. IInv => TypeOK
  <2> SUFFICES ASSUME IInv PROVE TypeOK
    BY Zenon
  <2>1. \A i \in DOMAIN jobs : jobs[i].st \in JobStates /\ jobs[i].start = (i + 1) \div 2
    BY Zenon DEF IInv, Jobs, GoodJob, Placed, Job
  <2>2. DOMAIN jobs = 1 .. (2 * starts) /\ destroyed \in {"no", "asked", "done"}
    BY Zenon DEF IInv, Jobs
  <2>3. DOMAIN native \subseteq 1 .. MaxPresses
    BY PeerAssumption DEF IInv, Calls
  <2>4. \A n \in DOMAIN native : native[n].kind \in {"turn", "stun"}
                              /\ native[n].st \in {"launched", "running", "ended"}
    BY Zenon DEF IInv, Calls, Call
  <2> QED
    BY <2>1, <2>2, <2>3, <2>4, Zenon DEF IInv, TypeOK, Messages, Handler
<1> QED
  BY <1>1, ExchangeInvariant, PTL

\* The fields keep the newest message of every type whose coroutines have not
\* run side by side, however messages of different types interleave.
THEOREM NewestMessageKept == Spec => []NewestKept
<1>1. IInv => NewestKept
  BY Zenon DEF IInv, NewestKept, Messages, Alone
<1> QED
  BY <1>1, ExchangeInvariant, PTL

\* cancelAllJob leaves only the jobs of the last press, none after destroy, and a
\* cancelled receiver shows at most one more datagram.
THEOREM StartsSupersede == Spec => []Superseded
<1>1. IInv => Superseded
  <2> SUFFICES ASSUME IInv, NEW i \in DOMAIN jobs
               PROVE  (jobs[i].active => jobs[i].start = starts /\ destroyed # "done")
                      /\ jobs[i].stale <= 1
    BY Zenon DEF Superseded
  <2>1. GoodJob(i, jobs[i], starts, destroyed)
    BY Zenon DEF IInv, Jobs
  <2> QED
    BY <2>1 DEF GoodJob, Job
<1> QED
  BY <1>1, ExchangeInvariant, PTL

\* Fewer presses than threads: blocking calls never hold every thread.
THEOREM PressesLeaveThreads == Spec => []ThreadsRemain
<1>1. IInv => ThreadsRemain
  <2> DEFINE B == Cardinality({i \in DOMAIN jobs : jobs[i].st = "blocked"})
             c == Cardinality(Calling)
             k == Cardinality(DOMAIN native)
  <2> SUFFICES ASSUME IInv, starts + k < Threads
               PROVE  B + c < Threads
    BY Zenon DEF ThreadsRemain, Presses, Held
  <2>1. B \in Nat /\ B <= starts
    BY BlockedBound, Zenon DEF IInv
  <2>2. c \in Nat /\ c <= k
    BY CallingBound, Zenon DEF IInv
  <2>3. starts \in Nat /\ k \in Nat
    BY PeerAssumption DEF IInv, Jobs, Calls
  <2> HIDE DEF B, c, k
  <2> QED
    BY <2>1, <2>2, <2>3, PeerAssumption
<1> QED
  BY <1>1, ExchangeInvariant, PTL

-------------------------------------------------------------------------------
(* TurnBind: for any number of calls, addresses, channels and nonces.  The
   requests of the current call agree with the client's own variables
   (RequestInv), and a success reply is evidence of a binding at the server
   that nothing removes (ReplyInv). *)

Busy == pc \in {"send", "wait"}

\* Requests belong to calls and transactions made so far; while a call runs,
\* those of that call carry its peer and the channel it has settled on.
RequestInv ==
  \A m \in requests :
    /\ m.call <= calls /\ m.tid <= tid
    /\ m.kind = IF use_channel THEN "channel" ELSE "permission"
    /\ m.chn \in IF use_channel THEN Channels ELSE {NoChannel}
    /\ Busy /\ m.call = calls => m.peer = peer_addr /\ m.chn = chn
    /\ pc = "wait" /\ m.tid = tid => m.call = calls

\* A success reply was made for a request that the server has executed.
ReplyInv ==
  \A r \in replies : r.kind = "success" =>
    \E m \in requests : /\ m.tid = r.tid /\ m.peer \in permitted
                        /\ use_channel => <<m.chn, m.peer>> \in bound

\* While a call runs, its result is open and the address it was given, if it
\* was read at all, is in the global peer_addr.
CallInv ==
  Busy => /\ result = "none"
          /\ asked # Any => peer_addr = asked
          /\ ~use_channel => chn = NoChannel
          /\ stage \in IF use_channel THEN {1, 2} ELSE {1}

BindIInv == BindTypeOK /\ RequestInv /\ ReplyInv /\ CallInv /\ OneBindingPerCall /\ ReportedBound /\ AddressHonoured

-------------------------------------------------------------------------------
\* Before the first call nothing has been sent.
LEMMA BindInitInv == BindInit => BindIInv
<1> SUFFICES ASSUME BindInit PROVE BindIInv
  BY Zenon
<1>1. BindTypeOK
  <2>1. use_channel \in BOOLEAN /\ c2c \in BOOLEAN
    BY Zenon DEF BindInit
  <2> QED
    BY <2>1 DEF BindInit, BindTypeOK, Peers
<1>2. RequestInv /\ ReplyInv /\ OneBindingPerCall /\ ReportedBound
  BY Zenon DEF BindInit, RequestInv, ReplyInv, OneBindingPerCall, ReportedBound
<1>3. CallInv /\ AddressHonoured
  BY Zenon DEF BindInit, CallInv, Busy, AddressHonoured
<1> QED
  BY <1>1, <1>2, <1>3, Zenon DEF BindIInv

\* The steps of the server and of other threads, and those of bind_client.
BindElsewhere == SetC2c \/ RotateNonce \/ ServerStep
BindCalls == (\E a \in Addresses : Bind(a)) \/ BindUnparsable
BindSends == SendChannelBind \/ SendCreatePermission
BindReturns == Respond \/ TransportFails

bindClient ==
  <<use_channel, peer_addr, pc, calls, asked, stage, chn, nonce, result, requests, tid, reported>>

\* Every step is one of these.
LEMMA BindSteps == BindNext => BindElsewhere \/ BindCalls \/ BindSends \/ BindReturns
BY Zenon DEF BindNext, Caller, BindElsewhere, BindCalls, BindSends, BindReturns

\* The others leave the client alone; only the server answers.
LEMMA ElsewhereSteps ==
  ASSUME BindElsewhere
  PROVE  /\ UNCHANGED bindClient
         /\ \/ UNCHANGED <<replies, bound, permitted>>
            \/ \E m \in requests : Challenge(m) \/ Execute(m) \/ Refuse(m)
<1> USE DEF bindClient, call, request, server
<1>1. CASE SetC2c
  BY <1>1, Zenon DEF SetC2c
<1>2. CASE RotateNonce
  BY <1>2, Zenon DEF RotateNonce
<1>3. CASE ServerStep
  <2>1. PICK m \in requests : Challenge(m) \/ Execute(m) \/ Refuse(m)
    BY <1>3, Zenon DEF ServerStep
  <2>2. UNCHANGED bindClient
    BY <2>1, Zenon DEF Challenge, Execute, Refuse
  <2> HIDE DEF bindClient
  <2> QED
    BY <2>1, <2>2, Zenon
<1> QED
  BY <1>1, <1>2, <1>3, Zenon DEF BindElsewhere

\* The client leaves the server alone.
LEMMA ClientSteps ==
  ASSUME BindCalls \/ BindSends \/ BindReturns
  PROVE  UNCHANGED <<use_channel, c2c, replies, srvNonce, bound, permitted>>
<1> USE DEF call, request, server
<1>1. CASE BindCalls
  BY <1>1, Zenon DEF BindCalls, Bind, BindUnparsable
<1>2. CASE BindSends
  BY <1>2, Zenon DEF BindSends, SendChannelBind, SendCreatePermission
<1>3. CASE BindReturns
  BY <1>3, Zenon DEF BindReturns, Respond, Accepted, Challenged, Rejected, TransportFails
<1> QED
  BY <1>1, <1>2, <1>3, Zenon

\* A call begins with its address, or ends at once.
LEMMA CallSteps ==
  ASSUME BindCalls
  PROVE  /\ UNCHANGED <<use_channel, nonce, requests, tid, reported>>
         /\ pc = "idle" /\ calls' = calls + 1
         /\ \/ /\ pc' = "send" /\ result' = "none" /\ stage' = 1 /\ chn' = NoChannel
               /\ \/ peer_addr' = peer_addr /\ asked' = Any
                  \/ asked' \in Addresses /\ peer_addr' = asked'
            \/ /\ pc' = "idle" /\ result' = "error" /\ UNCHANGED <<stage, chn>>
               /\ peer_addr' = Any /\ asked' = Any
<1> USE DEF call, request, server
<1>1. ASSUME NEW a \in Addresses, Bind(a)
      PROVE  /\ UNCHANGED <<use_channel, nonce, requests, tid, reported>>
             /\ pc = "idle" /\ calls' = calls + 1
             /\ pc' = "send" /\ result' = "none" /\ stage' = 1 /\ chn' = NoChannel
             /\ \/ peer_addr' = peer_addr /\ asked' = Any
                \/ asked' \in Addresses /\ peer_addr' = asked'
  BY <1>1, Zenon DEF Bind
<1>2. ASSUME BindUnparsable
      PROVE  /\ UNCHANGED <<use_channel, nonce, requests, tid, reported>>
             /\ pc = "idle" /\ calls' = calls + 1
             /\ pc' = "idle" /\ result' = "error" /\ UNCHANGED <<stage, chn>>
             /\ peer_addr' = Any /\ asked' = Any
  BY <1>2, Zenon DEF BindUnparsable
<1> QED
  BY <1>1, <1>2, Zenon DEF BindCalls

\* What a request says: q is the one for channel c.
Says(q, c) ==
  /\ q = [tid |-> tid + 1, call |-> calls, kind |-> q.kind, chn |-> c, peer |-> peer_addr, nonce |-> nonce]
  /\ q.kind = (IF use_channel THEN "channel" ELSE "permission") /\ q.tid = tid + 1
  /\ q.call = calls /\ q.chn = c /\ q.peer = peer_addr /\ q.nonce = nonce

\* One is sent, with the channel of the call or, while there is none, with any.
LEMMA SendSteps ==
  ASSUME BindSends
  PROVE  /\ UNCHANGED <<use_channel, peer_addr, calls, asked, stage, nonce, result, reported>>
         /\ pc = "send" /\ pc' = "wait" /\ tid' = tid + 1
         /\ \E q, c : /\ Says(q, c) /\ requests' = requests \cup {q}
                      /\ use_channel => chn' = c /\ c \in ChannelFor(chn)
                      /\ ~use_channel => c = NoChannel /\ chn' = chn
<1>1. CASE SendChannelBind
  <2>1. /\ UNCHANGED <<use_channel, peer_addr, calls, asked, stage, nonce, result, reported>>
        /\ pc = "send" /\ pc' = "wait" /\ tid' = tid + 1 /\ use_channel
    BY <1>1, Zenon DEF SendChannelBind, server
  <2>2. PICK c \in ChannelFor(chn) : chn' = c /\ requests' = requests \cup {Request("channel", c)}
    BY <1>1, Zenon DEF SendChannelBind
  <2>3. Says(Request("channel", c), c)
    BY <2>1, Zenon DEF Says, Request
  <2> QED
    BY <2>1, <2>2, <2>3, Zenon
<1>2. CASE SendCreatePermission
  <2>1. /\ UNCHANGED <<use_channel, peer_addr, calls, asked, stage, nonce, result, reported, chn>>
        /\ pc = "send" /\ pc' = "wait" /\ tid' = tid + 1 /\ ~use_channel
        /\ requests' = requests \cup {Request("permission", NoChannel)}
    BY <1>2, Zenon DEF SendCreatePermission, server, call
  <2>2. Says(Request("permission", NoChannel), NoChannel)
    BY <2>1, Zenon DEF Says, Request
  <2> QED
    BY <2>1, <2>2, Zenon
<1> QED
  BY <1>1, <1>2, Zenon DEF BindSends

\* An answer, or a failure: the call goes on to its next request, or ends.
LEMMA ReturnSteps ==
  ASSUME BindReturns
  PROVE  /\ UNCHANGED <<use_channel, peer_addr, calls, asked, chn, requests, tid>>
         /\ Busy /\ pc' \in {"send", "idle", "exited"}
         /\ nonce' = nonce \/ \E r \in replies : nonce' = r.nonce
         /\ \/ /\ Accepted /\ LastStage /\ Finish("ok")
               /\ reported' = reported \cup {<<chn, peer_addr>>} /\ UNCHANGED stage
            \/ /\ ~LastStage /\ stage' = stage + 1 /\ pc' = "send" /\ UNCHANGED <<result, reported>>
            \/ pc' \in {"send", "exited"} /\ UNCHANGED <<stage, result, reported>>
            \/ Finish("error") /\ UNCHANGED <<stage, reported>>
<1> USE DEF call, request, server, Busy
<1>1. CASE Accepted
  <2>1. /\ UNCHANGED <<use_channel, peer_addr, calls, asked, chn, requests, tid, nonce>>
        /\ Got("success") # {}
    BY <1>1, Zenon DEF Accepted
  <2>2. pc = "wait"
    BY <2>1, Zenon DEF Got
  <2>3. \/ /\ LastStage /\ Finish("ok")
           /\ reported' = reported \cup {<<chn, peer_addr>>} /\ UNCHANGED stage
        \/ ~LastStage /\ stage' = stage + 1 /\ pc' = "send" /\ UNCHANGED <<result, reported>>
    BY <1>1, Zenon DEF Accepted
  <2>4. pc' \in {"send", "idle", "exited"}
    BY <2>3, Zenon DEF Finish
  <2> QED
    BY <1>1, <2>1, <2>2, <2>3, <2>4, Zenon
<1>2. CASE Challenged
  <2>1. /\ UNCHANGED <<use_channel, peer_addr, calls, asked, chn, requests, tid, stage, result, reported>>
        /\ pc' = "send" /\ \E r \in Got("challenge") : nonce' = r.nonce
    BY <1>2, Zenon DEF Challenged
  <2>2. pc = "wait" /\ \E r \in replies : nonce' = r.nonce
    BY <2>1, Zenon DEF Got
  <2> QED
    BY <2>1, <2>2, Zenon
<1>3. CASE Rejected
  <2>1. /\ UNCHANGED <<use_channel, peer_addr, calls, asked, chn, requests, tid, stage, nonce, reported>>
        /\ Finish("error") /\ Got("error") \cup Got("success") # {}
    BY <1>3, Zenon DEF Rejected
  <2>2. pc = "wait" /\ pc' = "idle"
    BY <2>1, Zenon DEF Got, Finish
  <2> QED
    BY <2>1, <2>2, Zenon
<1>4. CASE TransportFails
  <2>1. /\ UNCHANGED <<use_channel, peer_addr, calls, asked, chn, requests, tid, stage, nonce, reported>>
        /\ Busy /\ (Finish("error") \/ (pc' = "exited" /\ UNCHANGED result))
    BY <1>4, Zenon DEF TransportFails
  <2>2. pc' \in {"send", "idle", "exited"}
    BY <2>1, Zenon DEF Finish
  <2> QED
    BY <2>1, <2>2, Zenon
<1> QED
  BY <1>1, <1>2, <1>3, <1>4, Zenon DEF BindReturns, Respond

\* The server adds an answer, and only after executing a request a success;
\* what it has bound and permitted stays.
LEMMA ServerSteps ==
  ASSUME NEW m \in requests, Challenge(m) \/ Execute(m) \/ Refuse(m)
  PROVE  /\ \E k \in {"success", "challenge", "error"} :
              /\ replies' = replies \cup {[tid |-> m.tid, kind |-> k, nonce |-> srvNonce]}
              /\ k = "success" => /\ m.peer \in permitted'
                                  /\ m.kind = "channel" => <<m.chn, m.peer>> \in bound'
         /\ bound \subseteq bound' /\ permitted \subseteq permitted'
         /\ \A b \in bound' : b \in bound \/ (m.kind = "channel" /\ b = <<m.chn, m.peer>>)
         /\ \A p \in permitted' : p \in permitted \/ p = m.peer
         /\ UNCHANGED <<c2c, srvNonce>>
<1>1. CASE Challenge(m)
  BY <1>1, Zenon DEF Challenge, Reply, server
<1>2. CASE Execute(m)
  BY <1>2, Zenon DEF Execute, Reply
<1>3. CASE Refuse(m)
  BY <1>3, Zenon DEF Refuse, Reply, server
<1> QED
  BY <1>1, <1>2, <1>3, Zenon

-------------------------------------------------------------------------------
\* A new request carries the peer and the channel of its call.
LEMMA RequestStep ==
  ASSUME BindTypeOK, RequestInv, CallInv, BindNext PROVE RequestInv'
<1>0. calls \in Nat /\ tid \in Nat
  BY Zenon DEF BindTypeOK
<1>t. \A m \in requests : m.call \in Nat /\ m.tid \in Nat
  BY Zenon DEF BindTypeOK
<1>1. CASE BindElsewhere
  <2>1. UNCHANGED <<requests, calls, tid, use_channel, pc, peer_addr, chn>>
    BY <1>1, ElsewhereSteps, Zenon DEF bindClient
  <2> QED
    BY <2>1, Zenon DEF RequestInv, Busy
<1>2. CASE BindCalls
  <2>1. UNCHANGED <<requests, tid, use_channel>> /\ calls' = calls + 1 /\ pc' # "wait"
    BY <1>2, CallSteps, Zenon
  <2> QED
    BY <1>0, <1>t, <2>1 DEF RequestInv
<1>3. CASE BindSends
  <2>1. UNCHANGED <<use_channel, peer_addr, calls>> /\ pc = "send" /\ tid' = tid + 1
    BY <1>3, SendSteps, Zenon
  <2>2. PICK q, c : /\ Says(q, c) /\ requests' = requests \cup {q}
                    /\ use_channel => chn' = c /\ c \in ChannelFor(chn)
                    /\ ~use_channel => c = NoChannel /\ chn' = chn
    BY <1>3, SendSteps, Zenon
  <2>3. /\ q.tid = tid' /\ q.call = calls /\ q.peer = peer_addr /\ q.chn = c
        /\ q.kind = (IF use_channel THEN "channel" ELSE "permission")
    BY <2>1, <2>2, Zenon DEF Says
  <2>4. chn' = c /\ c \in IF use_channel THEN Channels ELSE {NoChannel}
    BY <2>1, <2>2, Zenon DEF ChannelFor, CallInv, Busy
  <2>5. \A m \in requests : m.call = calls => m.chn = c
    BY <2>1, <2>2, BindAssumption, Zenon DEF RequestInv, CallInv, Busy, ChannelFor
  <2> QED
    BY <1>0, <1>t, <2>1, <2>2, <2>3, <2>4, <2>5 DEF RequestInv, Busy
<1>4. CASE BindReturns
  <2>1. UNCHANGED <<requests, calls, tid, use_channel, peer_addr, chn>> /\ Busy /\ pc' # "wait"
    BY <1>4, ReturnSteps, Zenon
  <2> QED
    BY <2>1, Zenon DEF RequestInv
<1> QED
  BY <1>1, <1>2, <1>3, <1>4, BindSteps, Zenon

\* A request joins those of its call with the same channel and peer.
LEMMA OneStep ==
  ASSUME BindTypeOK, RequestInv, CallInv, OneBindingPerCall, BindNext PROVE OneBindingPerCall'
<1>1. CASE UNCHANGED requests
  BY <1>1, Zenon DEF OneBindingPerCall
<1>2. CASE BindSends
  <2>1. PICK q, c : Says(q, c) /\ requests' = requests \cup {q}
    BY <1>2, SendSteps, Zenon
  <2>2. q.call = calls /\ q.peer = peer_addr
    BY <2>1, Zenon DEF Says
  <2>3. pc' = "wait" /\ UNCHANGED <<calls, peer_addr>>
    BY <1>2, SendSteps, Zenon
  <2>4. RequestInv'
    BY RequestStep, Zenon
  <2>5. \A m \in requests' : m.call = calls => m.peer = peer_addr /\ m.chn = chn'
    BY <2>3, <2>4, Zenon DEF RequestInv, Busy
  <2> QED
    BY <2>1, <2>2, <2>5 DEF OneBindingPerCall
<1>3. BindElsewhere \/ BindCalls \/ BindReturns => UNCHANGED requests
  BY ElsewhereSteps, CallSteps, ReturnSteps, Zenon DEF bindClient
<1> QED
  BY <1>1, <1>2, <1>3, BindSteps, Zenon

\* The server executes before it reports a success, and never unbinds.
LEMMA ReplyStep ==
  ASSUME RequestInv, ReplyInv, BindNext
  PROVE  ReplyInv' /\ bound \subseteq bound' /\ permitted \subseteq permitted' /\ use_channel' = use_channel
<1>1. CASE BindElsewhere
  <2>1. UNCHANGED <<requests, use_channel>>
    BY <1>1, ElsewhereSteps, Zenon DEF bindClient
  <2>2. CASE UNCHANGED <<replies, bound, permitted>>
    BY <2>1, <2>2, Zenon DEF ReplyInv
  <2>3. ASSUME NEW m \in requests, Challenge(m) \/ Execute(m) \/ Refuse(m)
        PROVE  ReplyInv' /\ bound \subseteq bound' /\ permitted \subseteq permitted'
    <3>1. PICK k : /\ replies' = replies \cup {[tid |-> m.tid, kind |-> k, nonce |-> srvNonce]}
                   /\ k = "success" => /\ m.peer \in permitted'
                                       /\ m.kind = "channel" => <<m.chn, m.peer>> \in bound'
      BY <2>3, ServerSteps, Zenon
    <3>2. bound \subseteq bound' /\ permitted \subseteq permitted'
      BY <2>3, ServerSteps, Zenon
    <3>3. use_channel => m.kind = "channel"
      BY Zenon DEF RequestInv
    <3> QED
      BY <2>1, <3>1, <3>2, <3>3 DEF ReplyInv
  <2> QED
    BY <1>1, <2>1, <2>2, <2>3, ElsewhereSteps, Zenon
<1>2. CASE BindCalls \/ BindSends \/ BindReturns
  <2>1. UNCHANGED <<use_channel, replies, bound, permitted>>
    BY <1>2, ClientSteps, Zenon
  <2>2. requests \subseteq requests'
    BY <1>2, CallSteps, SendSteps, ReturnSteps, Zenon
  <2> QED
    BY <2>1, <2>2, Zenon DEF ReplyInv
<1> QED
  BY <1>1, <1>2, BindSteps, Zenon

\* A call keeps its address to the end.
LEMMA CallStep ==
  ASSUME CallInv, BindNext PROVE CallInv'
<1>1. CASE BindElsewhere
  <2>1. UNCHANGED <<pc, result, asked, peer_addr, use_channel, chn, stage>>
    BY <1>1, ElsewhereSteps, Zenon DEF bindClient
  <2> QED
    BY <2>1, Zenon DEF CallInv, Busy
<1>2. CASE BindCalls
  BY <1>2, CallSteps, Zenon DEF CallInv, Busy
<1>3. CASE BindSends
  <2>1. /\ UNCHANGED <<use_channel, peer_addr, asked, stage, result>> /\ pc = "send"
        /\ ~use_channel => chn' = chn
    BY <1>3, SendSteps, Zenon
  <2> QED
    BY <2>1, Zenon DEF CallInv, Busy
<1>4. CASE BindReturns
  <2>1. UNCHANGED <<use_channel, peer_addr, asked, chn>> /\ Busy
    BY <1>4, ReturnSteps, Zenon
  <2>2. \/ ~Busy'
        \/ UNCHANGED <<stage, result>>
        \/ ~LastStage /\ stage' = stage + 1 /\ result' = result
    BY <1>4, ReturnSteps, Zenon DEF Finish, Busy
  <2> QED
    BY <2>1, <2>2 DEF CallInv, LastStage
<1> QED
  BY <1>1, <1>2, <1>3, <1>4, BindSteps, Zenon

\* A call reports what a success reply to its own request proves.
LEMMA ReportedStep ==
  ASSUME RequestInv, ReplyInv, ReportedBound, BindNext PROVE ReportedBound'
<1>0. bound \subseteq bound' /\ permitted \subseteq permitted' /\ use_channel' = use_channel
  BY ReplyStep, Zenon
<1>1. CASE UNCHANGED reported
  BY <1>0, <1>1, Zenon DEF ReportedBound
<1>2. CASE Accepted /\ reported' = reported \cup {<<chn, peer_addr>>}
  <2>1. PICK r \in replies : pc = "wait" /\ r.tid = tid /\ r.kind = "success"
    BY <1>2, Zenon DEF Accepted, Got
  <2>2. PICK m \in requests : /\ m.tid = tid /\ m.peer \in permitted
                              /\ use_channel => <<m.chn, m.peer>> \in bound
    BY <2>1, Zenon DEF ReplyInv
  <2>3. m.peer = peer_addr /\ m.chn = chn
    BY <2>1, <2>2, Zenon DEF RequestInv, Busy
  <2> QED
    BY <1>0, <1>2, <2>2, <2>3 DEF ReportedBound
<1>3. BindElsewhere \/ BindCalls \/ BindSends => UNCHANGED reported
  BY ElsewhereSteps, CallSteps, SendSteps, Zenon DEF bindClient
<1>4. BindReturns => UNCHANGED reported \/ (Accepted /\ reported' = reported \cup {<<chn, peer_addr>>})
  BY ReturnSteps, Zenon
<1> QED
  BY <1>1, <1>2, <1>3, <1>4, BindSteps, Zenon

\* The binding reported is that of the address given.
LEMMA HonouredStep ==
  ASSUME CallInv, AddressHonoured, BindNext PROVE AddressHonoured'
<1>1. CASE BindElsewhere
  <2>1. UNCHANGED <<result, asked, chn, reported>>
    BY <1>1, ElsewhereSteps, Zenon DEF bindClient
  <2> QED
    BY <2>1, Zenon DEF AddressHonoured
<1>2. CASE BindCalls
  BY <1>2, CallSteps, Zenon DEF AddressHonoured
<1>3. CASE BindSends
  BY <1>3, SendSteps, Zenon DEF AddressHonoured, CallInv, Busy
<1>4. CASE BindReturns
  <2>1. UNCHANGED <<asked, chn, peer_addr>> /\ Busy
    BY <1>4, ReturnSteps, Zenon
  <2>2. \/ reported' = reported \cup {<<chn, peer_addr>>}
        \/ result' = result
        \/ result' = "error"
    BY <1>4, ReturnSteps, Zenon DEF Finish
  <2> QED
    BY <2>1, <2>2, Zenon DEF AddressHonoured, CallInv
<1> QED
  BY <1>1, <1>2, <1>3, <1>4, BindSteps, Zenon

\* Every step keeps the types.
LEMMA BindTypeStep ==
  ASSUME BindTypeOK, RequestInv, CallInv, BindNext PROVE BindTypeOK'
<1> DEFINE Requests == [tid : Nat, call : Nat, kind : Kinds,
                        chn : Channels \cup {NoChannel}, peer : Peers, nonce : Nat]
           Replies == [tid : Nat, kind : {"success", "challenge", "error"}, nonce : Nat]
           Callers == /\ peer_addr \in Peers /\ asked \in Peers
                      /\ pc \in {"idle", "send", "wait", "exited"} /\ stage \in 0..2
                      /\ chn \in Channels \cup {NoChannel}
                      /\ nonce \in Nat /\ calls \in Nat /\ tid \in Nat
                      /\ result \in {"none", "ok", "error"}
                      /\ requests \subseteq Requests
                      /\ reported \subseteq (Channels \cup {NoChannel}) \X Peers
           Servers == /\ srvNonce \in Nat /\ replies \subseteq Replies
                      /\ bound \subseteq Channels \X Peers /\ permitted \subseteq Peers
<1>1. Callers /\ Servers /\ use_channel \in BOOLEAN /\ c2c \in BOOLEAN
  BY Zenon DEF BindTypeOK
<1>2. Any \in Peers /\ Addresses \subseteq Peers
  BY Zenon DEF Peers
<1>3. Callers'
  <2>1. CASE BindElsewhere
    BY <1>1, <2>1, ElsewhereSteps, Zenon DEF bindClient
  <2>2. CASE BindCalls
    BY <1>1, <1>2, <2>2, CallSteps
  <2>3. CASE BindSends
    <3>1. /\ UNCHANGED <<peer_addr, calls, asked, stage, nonce, result, reported>>
          /\ pc' = "wait" /\ tid' = tid + 1
      BY <2>3, SendSteps, Zenon
    <3>2. PICK q, c : /\ Says(q, c) /\ requests' = requests \cup {q}
                      /\ use_channel => chn' = c /\ c \in ChannelFor(chn)
                      /\ ~use_channel => c = NoChannel /\ chn' = chn
      BY <2>3, SendSteps, Zenon
    <3>3. c \in Channels \cup {NoChannel} /\ chn' \in Channels \cup {NoChannel}
      BY <1>1, <3>2, Zenon DEF ChannelFor
    <3>4. q \in Requests
      BY <1>1, <3>2, <3>3 DEF Says, Kinds
    <3> HIDE DEF Requests
    <3> QED
      BY <1>1, <3>1, <3>2, <3>3, <3>4
  <2>4. CASE BindReturns
    <3>1. /\ UNCHANGED <<peer_addr, calls, asked, chn, requests, tid>>
          /\ Busy /\ pc' \in {"send", "idle", "exited"}
          /\ nonce' = nonce \/ \E r \in replies : nonce' = r.nonce
      BY <2>4, ReturnSteps, Zenon
    <3>2. nonce' \in Nat
      BY <1>1, <3>1, Zenon
    <3>3. result' \in {result, "ok", "error"}
      BY <2>4, ReturnSteps, Zenon DEF Finish
    <3>4. reported' \subseteq reported \cup {<<chn, peer_addr>>}
      BY <2>4, ReturnSteps, Zenon
    <3>5. stage' = stage \/ (~LastStage /\ stage' = stage + 1)
      BY <2>4, ReturnSteps, Zenon
    <3>6. stage' \in 0..2
      BY <1>1, <3>1, <3>5 DEF CallInv, LastStage
    <3> HIDE DEF Requests
    <3> QED
      BY <1>1, <3>1, <3>2, <3>3, <3>4, <3>6
  <2> QED
    BY <2>1, <2>2, <2>3, <2>4, BindSteps, Zenon
<1>4. Servers' /\ use_channel' \in BOOLEAN /\ c2c' \in BOOLEAN
  <2>1. CASE SetC2c
    BY <1>1, <2>1, Zenon DEF SetC2c, server
  <2>2. CASE RotateNonce
    <3>1. srvNonce' = srvNonce + 1 /\ UNCHANGED <<use_channel, c2c, replies, bound, permitted>>
      BY <2>2, Zenon DEF RotateNonce
    <3> QED
      BY <1>1, <3>1
  <2>3. CASE ServerStep
    <3>1. PICK m \in requests : Challenge(m) \/ Execute(m) \/ Refuse(m)
      BY <2>3, Zenon DEF ServerStep
    <3>2. m.tid \in Nat /\ m.peer \in Peers
      BY <1>1, Zenon
    <3>3. m.kind = "channel" => m.chn \in Channels
      BY Zenon DEF RequestInv
    <3>4. PICK k \in {"success", "challenge", "error"} :
            replies' = replies \cup {[tid |-> m.tid, kind |-> k, nonce |-> srvNonce]}
      BY <3>1, ServerSteps, Zenon
    <3>5. replies' \subseteq Replies
      BY <1>1, <3>2, <3>4
    <3>6. /\ \A b \in bound' : b \in bound \/ (m.kind = "channel" /\ b = <<m.chn, m.peer>>)
          /\ \A p \in permitted' : p \in permitted \/ p = m.peer
          /\ UNCHANGED <<c2c, srvNonce>>
      BY <3>1, ServerSteps, Zenon
    <3>7. UNCHANGED use_channel
      BY <2>3, ElsewhereSteps, Zenon DEF BindElsewhere, bindClient
    <3> QED
      BY <1>1, <3>2, <3>3, <3>5, <3>6, <3>7
  <2>4. CASE BindCalls \/ BindSends \/ BindReturns
    BY <1>1, <2>4, ClientSteps, Zenon
  <2> QED
    BY <2>1, <2>2, <2>3, <2>4, BindSteps, Zenon DEF BindElsewhere
<1> QED
  BY <1>3, <1>4, Zenon DEF BindTypeOK

\* A step that changes nothing keeps the invariant.
LEMMA BindStutter == ASSUME BindIInv, UNCHANGED bindVars PROVE BindIInv'
<1> USE DEF bindVars, call, request, server
<1>1. BindTypeOK'
  BY Zenon DEF BindIInv, BindTypeOK
<1>2. RequestInv' /\ ReplyInv'
  BY Zenon DEF BindIInv, RequestInv, ReplyInv, Busy
<1>3. CallInv' /\ AddressHonoured'
  BY Zenon DEF BindIInv, CallInv, Busy, AddressHonoured
<1>4. OneBindingPerCall' /\ ReportedBound'
  BY Zenon DEF BindIInv, OneBindingPerCall, ReportedBound
<1> QED
  BY <1>1, <1>2, <1>3, <1>4, Zenon DEF BindIInv

\* The inductive invariant holds in every reachable state.
THEOREM BindInvariance == BindSpec => []BindIInv
<1>1. BindIInv /\ [BindNext]_bindVars => BindIInv'
  <2> SUFFICES ASSUME BindIInv, [BindNext]_bindVars PROVE BindIInv'
    BY Zenon
  <2>1. CASE BindNext
    BY <2>1, BindTypeStep, RequestStep, ReplyStep, CallStep, OneStep, ReportedStep, HonouredStep,
       Zenon DEF BindIInv
  <2>2. CASE UNCHANGED bindVars
    BY <2>2, BindStutter, Zenon
  <2> QED
    BY <2>1, <2>2, Zenon
<1> QED
  BY <1>1, BindInitInv, PTL DEF BindSpec

\* The state keeps its shape; bind_real never makes a third channel bind.
THEOREM BindTypeCorrect == BindSpec => []BindTypeOK
<1>1. BindIInv => BindTypeOK
  BY Zenon DEF BindIInv
<1> QED
  BY <1>1, BindInvariance, PTL

\* Through any number of challenges and both channel binds, a call of
\* bind_client asks for one channel and one peer.
THEOREM OneBindingCorrect == BindSpec => []OneBindingPerCall
<1>1. BindIInv => OneBindingPerCall
  BY Zenon DEF BindIInv
<1> QED
  BY <1>1, BindInvariance, PTL

\* What bind_client reports is bound at the server and stays so, whatever is
\* executed late or twice.
THEOREM ReportedCorrect == BindSpec => []ReportedBound
<1>1. BindIInv => ReportedBound
  BY Zenon DEF BindIInv
<1> QED
  BY <1>1, BindInvariance, PTL

\* Unless c2c made bind_real ignore it, the address given is the one bound.
THEOREM HonouredCorrect == BindSpec => []AddressHonoured
<1>1. BindIInv => AddressHonoured
  BY Zenon DEF BindIInv
<1> QED
  BY <1>1, BindInvariance, PTL

===============================================================================
