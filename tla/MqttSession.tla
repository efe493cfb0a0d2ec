----------------------------- MODULE MqttSession -----------------------------
(***************************************************************************)
(* How the app keeps its MQTT connection: MqttWrapper and                  *)
(* CoturnMqttWrapper over the Paho client.                                 *)
(*                                                                         *)
(* The main thread runs initMqtt, and doClientConnection whenever a        *)
(* message that reconnect() posted to its Handler comes due.  Paho's       *)
(* threads run the callbacks, in any order and at any time, and Paho has a *)
(* reconnect cycle of its own (isAutomaticReconnect), so two mechanisms    *)
(* bring back one connection.                                              *)
(***************************************************************************)
EXTENDS Integers

CONSTANTS MaxDrops,   \* connections the broker or the network ends
          MaxFails,   \* attempts that fail although there is a network
          MaxOutages  \* times the network goes away

VARIABLES
  main,       \* "new", "check", "connect", "handlers" (initMqtt), "idle", "crashed"
  handlerSet, \* initMqtt has assigned connectCompleteHandler
  posted,     \* doClientConnection calls waiting in the Handler
  client,     \* Paho's state: "down", "connecting", "up"
  mine,       \* the attempt under way was made by connect() and has its listener
  auto,       \* Paho's reconnect cycle is on
  callbacks,  \* how many of each callback are still to run
  subscribed, \* the connection has a subscription
  missed,     \* its connectComplete found no handler
  network,    \* the network is available
  drops, fails, outages

wrapper == <<main, handlerSet, posted>>
paho == <<client, mine, auto>>
env == <<network, drops, fails, outages>>
mqttVars == <<wrapper, paho, callbacks, subscribed, missed, env>>

CallbackKinds == {"complete", "disconnected", "failure"}

MqttInit ==
  /\ main = "new" /\ handlerSet = FALSE /\ posted = 0
  /\ client = "down" /\ mine = FALSE /\ auto = FALSE
  /\ callbacks = [k \in CallbackKinds |-> 0]
  /\ subscribed = FALSE /\ missed = FALSE
  /\ network \in BOOLEAN /\ drops = 0 /\ fails = 0 /\ outages = 0

-------------------------------------------------------------------------------
(* The main thread *)

\* CoturnMqttWrapper.init creates the client, then calls doClientConnection.
InitMqtt ==
  /\ main = "new"
  /\ main' = "check"
  /\ UNCHANGED <<handlerSet, posted, paho, callbacks, subscribed, missed, env>>

\* A certificate cannot be read: the exception leaves onCreate.
InitThrows ==
  /\ main = "new"
  /\ main' = "crashed"
  /\ UNCHANGED <<handlerSet, posted, paho, callbacks, subscribed, missed, env>>

\* Where doClientConnection returns to: initMqtt, or the main loop.
Return == main' = IF handlerSet THEN "idle" ELSE "handlers"

\* A posted doClientConnection comes due.
Due ==
  /\ main = "idle" /\ posted > 0
  /\ posted' = posted - 1
  /\ main' = "check"
  /\ UNCHANGED <<handlerSet, paho, callbacks, subscribed, missed, env>>

\* Mutant: no return after the reconnect.
CheckFallsThrough ==
  /\ main = "check"
  /\ \/ client = "up" /\ Return /\ UNCHANGED posted
     \/ client # "up" /\ ~network /\ main' = "connect" /\ posted' = posted + 1
     \/ client # "up" /\ network /\ main' = "connect" /\ UNCHANGED posted
  /\ UNCHANGED <<handlerSet, paho, callbacks, subscribed, missed, env>>

\* Mutant: without a network it gives up.
CheckGivesUp ==
  /\ main = "check"
  /\ \/ (client = "up" \/ ~network) /\ Return /\ UNCHANGED posted
     \/ client # "up" /\ network /\ main' = "connect" /\ UNCHANGED posted
  /\ UNCHANGED <<handlerSet, paho, callbacks, subscribed, missed, env>>

\* doClientConnection's tests: nothing to do when connected, try again later
\* without a network, else connect.
Check ==
  /\ main = "check"
  /\ \/ client = "up" /\ Return /\ UNCHANGED posted
     \/ client # "up" /\ ~network /\ Return /\ posted' = posted + 1
     \/ client # "up" /\ network /\ main' = "connect" /\ UNCHANGED posted
  /\ UNCHANGED <<handlerSet, paho, callbacks, subscribed, missed, env>>

\* connect() starts an attempt; Paho throws when another one is under way or
\* has succeeded since the test, and the catch clause tries again later.
Connect ==
  /\ main = "connect"
  /\ Return
  /\ IF client = "down"
     THEN client' = "connecting" /\ mine' = TRUE /\ UNCHANGED posted
     ELSE posted' = posted + 1 /\ UNCHANGED <<client, mine>>
  /\ UNCHANGED <<handlerSet, auto, callbacks, subscribed, missed, env>>

\* initMqtt assigns the handlers after init() has begun to connect.
SetHandlers ==
  /\ main = "handlers"
  /\ handlerSet' = TRUE
  /\ main' = "idle"
  /\ UNCHANGED <<posted, paho, callbacks, subscribed, missed, env>>

-------------------------------------------------------------------------------
(* The callbacks, on Paho's threads *)

Callback(k) ==
  /\ callbacks[k] > 0
  /\ callbacks' = [callbacks EXCEPT ![k] = @ - 1]

\* Mutant: only the first connection is subscribed.
ConnectCompleteOnce ==
  /\ Callback("complete")
  /\ IF ~handlerSet
     THEN missed' = (missed \/ client = "up") /\ UNCHANGED subscribed
     ELSE subscribed' = (subscribed \/ (client = "up" /\ drops = 0)) /\ UNCHANGED missed
  /\ UNCHANGED <<wrapper, paho, env>>

\* connectComplete calls the handler, if initMqtt has set it, which
\* subscribes; on a connection that is gone again, subscribe throws.
ConnectComplete ==
  /\ Callback("complete")
  /\ IF ~handlerSet
     THEN missed' = (missed \/ client = "up") /\ UNCHANGED subscribed
     ELSE subscribed' = (subscribed \/ client = "up") /\ UNCHANGED missed
  /\ UNCHANGED <<wrapper, paho, env>>

\* disconnected posts a reconnect.
Disconnected ==
  /\ Callback("disconnected")
  /\ posted' = posted + 1
  /\ UNCHANGED <<main, handlerSet, paho, subscribed, missed, env>>

\* Mutant: a failed attempt is only logged.
OnFailureLogs ==
  /\ Callback("failure")
  /\ UNCHANGED <<wrapper, paho, subscribed, missed, env>>

\* onFailure of the listener that connect() passes posts a reconnect.
OnFailure ==
  /\ Callback("failure")
  /\ posted' = posted + 1
  /\ UNCHANGED <<main, handlerSet, paho, subscribed, missed, env>>

-------------------------------------------------------------------------------
(* Paho and the network.  External. *)

Pending(k) == callbacks' = [callbacks EXCEPT ![k] = @ + 1]

\* isCleanStart: a new connection has no subscription.
AttemptSucceeds ==
  /\ client = "connecting" /\ network
  /\ client' = "up" /\ mine' = FALSE /\ auto' = FALSE
  /\ Pending("complete")
  /\ subscribed' = FALSE /\ missed' = FALSE
  /\ UNCHANGED <<wrapper, env>>

AttemptFails ==
  /\ client = "connecting"
  /\ IF network THEN fails < MaxFails /\ fails' = fails + 1 ELSE UNCHANGED fails
  /\ client' = "down" /\ mine' = FALSE
  /\ IF mine THEN Pending("failure") ELSE UNCHANGED callbacks
  /\ UNCHANGED <<wrapper, auto, subscribed, missed, network, drops, outages>>

\* A connection that was up is lost, and the reconnect cycle starts.
Drop ==
  /\ client = "up" /\ drops < MaxDrops
  /\ drops' = drops + 1
  /\ client' = "down" /\ auto' = TRUE
  /\ Pending("disconnected")
  /\ subscribed' = FALSE
  /\ UNCHANGED <<wrapper, mine, missed, network, fails, outages>>

AutoAttempt ==
  /\ auto /\ client = "down"
  /\ client' = "connecting"
  /\ UNCHANGED <<wrapper, mine, auto, callbacks, subscribed, missed, env>>

NetworkUp ==
  /\ ~network /\ network' = TRUE
  /\ UNCHANGED <<wrapper, paho, callbacks, subscribed, missed, drops, fails, outages>>

NetworkDown ==
  /\ network /\ outages < MaxOutages
  /\ network' = FALSE /\ outages' = outages + 1
  /\ UNCHANGED <<wrapper, paho, callbacks, subscribed, missed, drops, fails>>

-------------------------------------------------------------------------------
MainThread == InitMqtt \/ Due \/ Check \/ Connect \/ SetHandlers
Callbacks == ConnectComplete \/ Disconnected \/ OnFailure
Attempt == AttemptSucceeds \/ AttemptFails

MqttNext == MainThread \/ InitThrows \/ Callbacks \/ Attempt
          \/ Drop \/ AutoAttempt \/ NetworkUp \/ NetworkDown

MqttSpec == MqttInit /\ [][MqttNext]_mqttVars

\* The main loop runs what is due, Paho runs its callbacks and ends every
\* attempt (connectionTimeout), and the network comes back.  Nothing is asked
\* of Paho's own reconnect cycle.
MqttFairSpec ==
  /\ MqttSpec
  /\ WF_mqttVars(MainThread) /\ WF_mqttVars(Attempt) /\ WF_mqttVars(NetworkUp)
  /\ WF_mqttVars(ConnectComplete) /\ WF_mqttVars(Disconnected) /\ WF_mqttVars(OnFailure)

-------------------------------------------------------------------------------
\* The shape of the state; a posted reconnect is never taken twice.
MqttTypeOK ==
  /\ main \in {"new", "check", "connect", "handlers", "idle", "crashed"}
  /\ client \in {"down", "connecting", "up"}
  /\ handlerSet \in BOOLEAN /\ mine \in BOOLEAN /\ auto \in BOOLEAN
  /\ subscribed \in BOOLEAN /\ missed \in BOOLEAN /\ network \in BOOLEAN
  /\ posted \in Nat /\ callbacks \in [CallbackKinds -> Nat]
  /\ drops \in Nat /\ fails \in Nat /\ outages \in Nat

\* The reconnects under way: posted, running, as an attempt of our own, or as
\* a callback that will post one.
Chains ==
  posted + callbacks["disconnected"] + callbacks["failure"]
    + (IF mine THEN 1 ELSE 0) + (IF main \in {"check", "connect"} THEN 1 ELSE 0)

\* While there is no connection the wrapper itself has a reconnect under way,
\* whatever attempt of Paho's own succeeds or fails in between.
NeverStranded ==
  main \notin {"new", "crashed"} /\ client # "up" => Chains > 0

\* doClientConnection hands its one reconnect on and never doubles it: each
\* lost connection adds at most one to the first.
ChainsBounded == Chains <= 1 + drops

\* Once the connectComplete callbacks have run, a connection is subscribed,
\* unless it was made before initMqtt had set the handler.
SubscribedOrMissed ==
  client = "up" /\ callbacks["complete"] = 0 => subscribed \/ missed

\* The connection comes back, by the wrapper's reconnects alone.
ComesUp == (main \notin {"new", "crashed"} /\ client # "up") ~> client = "up"
===============================================================================
