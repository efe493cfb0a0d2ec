# TLA+ verification of the opensslDemo P2P client

The repository is an Android application that finds a path between two phones
with STUN and TURN. A native library (`app/src/main/cpp`), derived from the
test clients of the coturn project, talks to the STUN/TURN server. A Kotlin
layer (`app/src/main/java`) starts it, publishes the addresses it finds over
MQTT, receives the other phone's, and sends datagrams to it. Nothing is
persisted: the hard parts are threads that share globals without locks, a
network that loses, repeats and delays datagrams, a server that challenges any
request, and callbacks that arrive at inconvenient moments.

In this file `cpp/` stands for `app/src/main/cpp/`, and Kotlin files are named
without their directory.

## The parts and how they interact

| part | source | state | operations | what makes it hard | module |
|---|---|---|---|---|---|
| UDP transaction | `cpp/p2p/p2p_client.c`: `send_buffer`, `recv_buffer`, `wait_fd` | retransmission cycle, socket buffer | send, wait, retransmit, receive, skip what does not match | late and repeated answers; a final `recv` without a timeout | `TurnTransaction`, abstract `Exchange` |
| TCP framing | `recv_buffer`'s TCP branch, `stun_get_message_len_str` | bytes in the socket | peek, measure, consume | the stream is cut anywhere, lengths are not trusted | `TcpFraming`; `RecvBuffer` has both transports |
| allocation | `cpp/p2p/connect_manager.c`: `clnet_connect`, `clnet_allocate` | socket, attempts, nonce, relay address, reservation token, mobility ticket | connect, allocate, answer a challenge, reopen, refresh | sockets replaced half-way, statics that outlive a session | `Allocation` |
| session | `p2p_client.c`, `uclient_manager.c`, `native-lib.cpp` | `elems`, `client_event_base`, `c2c` | start, publish the session, free, bind | every start is a thread, no locks | `P2pSession` |
| bind | `bind_real`, `turn_channel_bind`, `turn_create_permission` | channel number, peer, nonce | bind twice, answer challenges | late executions at the server, uncounted challenges, the `c2c` switch | `TurnBind` |
| NAT tests | `cpp/stunclient/stun_manager.c` | `udp_fd`, `real_local_addr` | three tests, one of them changing sockets | overlapping runs, no timeouts, no check of who answers what | `StunClient` |
| message codec | `cpp/client/ns_turn_msg.c`, `add_origin`, `add_integrity` | the buffer, its length, the length field | add, sign, mark, walk, check | lengths of a datagram are not trusted; the seal is computed over a changing header | `StunMessage` |
| MQTT session | `MqttWrapper.kt`, `CoturnMqttWrapper.kt` | connection, posted reconnects, handlers | connect, reconnect, callbacks | two reconnect mechanisms for one connection | `MqttSession` |
| presenter | `MainPresenter.kt` | remote and local address fields, six jobs | handle a message, start a mode, cancel | a coroutine per message, cooperative cancellation, blocked threads | `PeerExchange` |
| event loop | `cpp/event/event.c`, `epoll.c`, `evmap.c` (libevent) | flags, queues and counters of the base, timers, the eventfd | loop, add, delete, free, activate, defer, stop | calls from callbacks and from other threads while the loop runs, sleeps or is about to | `EventLoop` |

The modules lean on each other the way the code does. `TurnTransaction` is shown
to implement `Exchange`, a remote call; `Allocation` and `TurnBind` assume of a
request exactly what `Exchange` promises (the server may execute it late or
twice, only the answer to the current call is returned). `P2pSession` treats
connecting and allocating as one step with the outcomes `Allocation` has, and
leaves what a bind does with the session to `TurnBind`. `StunMessage` describes
the bytes of the requests the other modules treat as records, and `TcpFraming`
how they come off a stream. `EventLoop` is the library under `client_event_base`;
`P2pSession` uses of it only that a base is made and freed, since the app never
dispatches one.

## The modules and the code

The modules TLC starts from have an `MC` module with the values it uses, and there is one
`.cfg` per run.
Proofs are in `Proofs` modules that extend the modules they are about, sometimes
several that share no variable; for that reason `Init`, `Next`, `Spec`, `TypeOK`
and `vars` have a prefix in `TurnTransaction` (`Tx`), `TurnBind` (`Bind`),
`MqttSession` (`Mqtt`) and `TcpFraming` (`Tcp`). Actions carry the name of the function, or of the branch
of it, that they model; the comment above an action says which. `PROJECT.json`
maps every definition to its lines.

**Exchange / TurnTransaction.** `Issue` is `send_buffer` with a fresh
transaction id; `SelectReady`, `SelectTimeout` and `SelectError` are the results
of `wait_fd`; `CyclesExhausted` leaves the loop for the `recv` of line 161;
`Recv` returns a matching answer or takes `goto recv_again`, which starts the
cycles again. `selectable = FALSE` is a descriptor beyond `FD_SETSIZE`. The
96-bit id is the number of the transaction: fresh ids do not collide. Network
and server are separate actions.

**RecvBuffer** is `recv_buffer` with its choice of transport: the flag `use_tcp`,
set before a client starts, selects `TurnTransaction` or `TcpFraming`.

**Allocation.** One session after the other, since `allocate_rtcp` and
`current_reservation_token` survive a session. Every exit of `clnet_connect` and
of the two loops of `clnet_allocate` is an action. A server that rotates its
nonce, allocates, refreshes, moves an allocation (mobility) and rejects is the
environment. `dos`, which only the load tester sets, is 0.

**P2pSession.** Starters interleave at every read and write of a global. An
array, a base and a session carry the name of the starter that made them.
The end of `start_p2p_client` reads `client_event_base` three times (lines 802 to
804), each a step of its own: `LoopExit`, `GotExit` and `FreeBase`. `damage`
collects accesses that C leaves undefined; such a step either ends the process or
goes on.

**TurnBind.** `bind_real` with the two channel binds (or one permission) and
their `goto beg_bind` / `goto beg_cp`; the server executes requests late and
more than once. A request that cannot be signed or sent fails the call, an answer
to a permission that cannot be received ends the process (`TransportFails`).
`SetC2c` is `startuclient`'s assignment, at any time.

**StunClient.** One action per system call on the shared `udp_fd`. Ports are
reused as soon as they are free. The NAT maps ports one to one, so a port stands
for its mapping. `recvfrom` takes datagrams of anyone: `Stray` puts one that is no
answer into an open socket.

**StunMessage.** The body is a sequence of 4-byte words, and every word, a
value's too, has the type and length it would be read as. A request is built,
given origins and credentials, and marked with a fingerprint; an add that does
not fit fails as it does in the code, where most callers ignore it. The message
read is that one or any datagram. The CRC is what it was computed from. Of the HMAC the model has the key
it was computed with; the check asks about any key and, like the code, compares
nothing. Long-term credentials with SHA-1, the app's setting.

**TcpFraming.** The stream is a sequence of messages, the bytes of them that have
not been read (`unread`) and how many of those are in the socket. A length field
may be any number, and sums have the code's width (`Mod`) and wrap. A size that
wraps makes `recv_buffer` take less than the message; from then on it is off the
message boundaries (`skew`), and what it takes there is arbitrary (`RecvAstray`).

**MqttSession.** The main thread, the callbacks, and Paho's own cycle; a posted
`doClientConnection` is one of `posted`.

**PeerExchange.** A coroutine per message that writes one field at a time; jobs
that re-read the fields before every datagram; a limited number of dispatcher
threads, one of which a blocked `receive` keeps, and so does each call of
`startUClient` or `startStunClient` until it returns or ends the process
(`StartCall`, `CallBegins`, `LocalPort`, `CallEnds`). A message whose fields are
missing throws in its coroutine, where nothing catches it, and may end the app;
one of a type without a branch is ignored (`HandlerRejects`). A field written by one thread
is visible to the others at once, which the JVM does not promise for plain
fields; a stale read would only be one more value that the field once had.

**EventLoop.** One thread runs `event_base_loop`; its callbacks and the threads
in `Others` call the API. The functions of `event.c` that change a base under
its lock are operators from a base to a base with the names of the code
(`AddNolock`, `DelNolock`, `ActiveNolock`, `InsertActive`, ...); a call from
another thread is one critical section, hence one action, and `event_del` from
another thread waits for a running callback in two (`Del`, `Wake`). The loop is
cut where it gives up the lock: `Loop`, `Top` and `MakeLaterActive` up to
`epoll_wait`, `PollReturns`, `Collect`, `TimeoutProcess`, then `NextQueue`,
`RunCallback`, `CallbackReturns` for the queues, and `DrainRead`, `DrainClear`
for the eventfd. The app uses its base from one thread and installs no lock
callbacks, which is `Others = {}`; other values are the library's use with
locks. Assumed: condition variables do not wake by themselves (`event_del`
waits once), a callback on a descriptor reads all there is, and the callback of an
event does not add it again while `event_free` of another thread waits for that
callback: the code does not look again after the wait (`event.c:2929` to `2935`).

## Runs

| run | question | bounds |
|---|---|---|
| `recv_buffer` | UDP: is a reply that is returned the answer to this call (`ImplementsExchange`)? Are copies bounded by the strays skipped (`RetransmissionBound`)? Is the `recv` without a timeout the only place to get stuck (`Returns`)? TCP: does it take only what has arrived, whatever the length fields (`NeverWaits`)? For messages that fit, are boundaries kept (`Framed`), and does a caller give up only on a piece (`GivesUpOnPiece`)? | 2 transactions, so that one's late answers meet the other; 1 cycle; 2 losses, as many as there are copies; 1 duplicate or stray. 2 messages of 8 kinds: padded or not, too long for the peek buffer, without whole words, wrapping to 0 and to a small size; lengths modulo 32 |
| `alloc` | Requests within the loop bounds; success means the server holds that allocation for that socket; every descriptor accounted for, also across the socket swap of mobility; the token statics agree; every session ends | 2 sessions (the token passes from one to the next), 4 attempts (a challenge, a mismatch, its challenge, a success), 1 loss, `EADDRINUSE` or fault |
| `session` | What overlapping starts and early binds can and cannot damage | 3 starters, one of them a peer start: enough for two to overlap and a third to follow |
| `bind` | One channel per call; what is reported is bound; the address asked for is the one bound; a call ends | 2 calls, 1 nonce change, channels or permissions |
| `stun_client` | Reported pairs belong together (`PairsMatch`); `udp_fd` is closed between runs; descriptors leak only by failed sends (`NoLeak`); a receive has its answer ahead of it (`AnswerAhead`) and every run ends (`RunsEnd`) unless a datagram is lost, the port wraps or runs overlap | 2 runs; 1 loss and 1 duplicate or stray datagram, which are not combined with overlapping runs (`FaultsAlone`; the properties except overlap or do not depend on faults); runs begin in a fixed order (`InOrder`, the threads are interchangeable); the ports include 65535 |
| `stun_message` | Every request the client builds: lengths agree, the walk finds exactly what was added, the fingerprint and the HMAC pass the client's own checks (`SealVerifies`). The walk over arbitrary datagrams stays inside and ends | limit 128, so that adds fail at every stage; values that read as attributes; 2 keys; other datagrams of up to 3 words, length fields that lie, are odd or 65535 |
| `stun_integrity` | violated, see Findings | the builders of `stun_message`, 2 keys |
| `mqtt` | A disconnected wrapper always has a reconnect under way; chains do not multiply; connections are subscribed; the connection comes back | 3 drops, 2 failures, 2 outages |
| `peer` | The fields hold the newest message of a type unless two overlapped (`NewestKept`); only the last start's jobs are active and a cancelled receiver shows one more datagram at most (`Superseded`); how many presses it takes to use up the threads (`ThreadsRemain`); messages are handled and `destroy` goes through as long as a thread keeps coming free (`HandlersFinish`) | 2 messages of any types, one that is none of the four included; 2 presses of any mode or native client on 2 threads, so that all of them can be held |
| `peer_relay` | violated, see Findings | |
| `event_loop` | Flags, queues and counters agree (`Integrity`); the loop does not sleep over work it should do (`NoLostWakeup`); a freed event is gone from the base; urgent queues first; a loop asked to stop stops | a descriptor event, a timer, a deferred callback and a loop exit on 2 priorities; a second thread; 3 calls, enough for one to come between two others; a limit of 0 deferred callbacks, so that the later queue is used |
| `event_readd` | violated, see Findings | one persistent descriptor event, a second thread, 3 calls, timeouts of 1 |

Deadlock is not checked where the system may really stop: a client blocked in a
`recv`, a process that called `exit`, a request that was dropped, a user who
presses no more buttons.

### Fairness

Liveness is checked under weak fairness of the program's own steps and of the
server answering a request it has received. Losses, faults, duplicates and
nonce changes are bounded by constants and have no fairness. `TurnTransaction`
adds weak fairness of delivery, with a bounded number of losses; over TCP nothing
is fair, since the peer may send nothing more and callers give up on a 0. `SelectError`,
`RecvError` and `IssueFails` have none. In
`MqttSession` Paho's own reconnect has no fairness: `ComesUp` holds by the
wrapper's chain alone, given that the network returns. In `StunClient` each run's
steps and the server are fair. In `PeerExchange` a coroutine that has a thread goes
on, a blocking call need not return, and the coroutines of messages and of
`destroy`, which wait for a thread, have strong fairness: the dispatcher takes
them in the order they came, so one that waits while threads keep coming free gets
one.
In `EventLoop` the loop's own steps, the clock and a woken thread are fair; that
a loop asked to exit comes to its end also relies on the bounded number of calls,
since callbacks that keep an urgent queue busy may keep a less urgent exit
waiting.

## Proofs

TLAPS checks these for every value of the constants, under the `ASSUME` of each
module: `TxAssumption`, `AllocAssumption`, `SessionAssumption`,
`BindAssumption`, `StunAssumption`, `MessageAssumption`, `PeerAssumption`,
`FramingAssumption` and `ConstantsAssumption`; `MqttSession` needs none. They say
what the constants are, and nothing of what a peer, a server or a user does. TLC
evaluates them in the runs.

`ClientProofs`, the native client:

- `TurnTransaction`: types, `RetransmissionBound`, `BlocksOnlyExhausted`
  (the `recv` without a timeout starts with nothing to receive only when all
  copies are used), and the refinement of `Exchange`. The properties are not
  inductive: that a matching answer is the server's needs `NetworkInv`, that
  every datagram with one of the client's ids, wherever it is, comes from a
  request the server executed; `ClientInv` ties copies sent to the cycle.
- `P2pSession`: types, the safety properties of `session`, that a finished start
  has freed its base (`BasesAccounted`), and that with it the read event on the
  socket that `bind_client` reads is gone (`SoleReader`). Two arguments: as
  long as starts have not overlapped, the running one owns the globals
  (`AloneInv`, `OwnInv`); whether or not they have, `elems` is lost only by a
  failing start (`ElemsInv`).
- `TcpFraming`: `NeverWaits` for every length field, and `Framed` and
  `GivesUpOnPiece` for streams of messages that fit. On a message boundary the
  number of unread bytes is the sum of the sizes of the messages in the stream, and what follows the first message must
  be the same sum over the rest. `Ends` says so without recursion: some function
  gives every place in the stream its offset, each larger than the one before by
  a message's size, and ends at `unread`. A message appended extends the
  function; a message taken drops its first value and shifts the rest.

`PresenterProofs`, what `MainPresenter` keeps and drives:

- `PeerExchange`: types, `NewestKept`, `Superseded`, `ThreadsRemain`. The
  invariant has three parts. `Messages`: while no two coroutines of a type have
  run side by side, the one under way has the newest message and, half-way, has
  written its address (`Alone`). `Jobs`: each place of a job in its code says
  whether it may still be uncancelled and how many datagrams it can have shown
  since (`GoodJob`), and each start makes at most one receiver, so the blocked
  ones are no more than the starts (a pigeonhole argument, `BlockedBound`). A
  third part, `Calls`, bounds the native calls under way by the presses that made
  them (`CallingBound`).
- `TurnBind`: types, `OneBindingPerCall`, `ReportedBound`, `AddressHonoured`.
  Requests of the current call agree with the client's variables
  (`RequestInv`), and a success is evidence of a binding nothing removes
  (`ReplyInv`).
- `MqttSession`: types, `NeverStranded`, `ChainsBounded`, `SubscribedOrMissed`,
  by one invariant that counts the reconnects under way.

`AllocationProofs`: types, `RequestBudget`, `GrantedOnReturn`,
`DescriptorsAccounted`, `TokenReady`. `WireInv` relates what is in flight to the
calls made, `GrantInv` carries the server's allocation from its answer to the
return through the socket swaps, `DescriptorInv` says which of the two
descriptors is whose at each point, `TokenInv` follows the statics from a session
to the next.

`StunClientProofs`: `PairsMatch`, `NoLeak`, `AnswerAhead`. Some of the
invariant holds whatever runs do to each other: open sockets have different
ports (`Sockets`), what a thread's locals can be (`Locals`), `udp_fd` closed when
all is quiet (`Shared`). The rest holds of the one run there is while runs have
not overlapped (`Single`, `Sequential`): which socket `udp_fd` and `new_udp_fd`
are at each system call (`Owns`), that nothing but failed sends lets go of a
descriptor (`Leaked`), that without duplicates and strays there is one datagram at
a time and it comes from the address that will be reported with it (`Flow`), and that
without losses it is on its way to the socket the run reads (`Ahead`).

`StunMessageProofs` and `StunSealProofs`: types, `LengthsAgree`, `WalkInside`,
`RoundTrip`, and `SealVerifies`. `Layout` says that the attributes added tile the
body, so `get_next` goes from each to the following one whatever the values hold
(`Trail`); `Marks` that the HMAC and the fingerprint were added once and where,
so the search finds them, the CRC check recomputes what was covered and the
HMAC has the place and the length the integrity check asks for.
`StunSearchAdvances` is the part of `SearchEnds` that needs no fairness: each
step of a search over any datagram ends it or moves the cursor on, inside the
buffer.

`EventQueueProofs` and `EventLoopProofs`, the event loop. Every function from a
base to a base has its lemmas in `EventQueueProofs`: those on the queues keep the
base `Sound` (consistent, and a finalizing event in no queue but the active one);
those of the API do too, leave the notification alone or make one (`Notified`),
change the flags of one callback at most (`Confined`), and ring the eventfd for
whatever a sleeping loop has to know (`Rings`, `HeardAfter`). In
`EventLoopProofs` the actions follow from them, by one invariant on top of the
other:

- `IInv`: `Integrity`, and `Announced`, that a loop asked to break between its
  test and the end of its sleep has the eventfd set.
- `RestTypes`: types. That the wait of `timeout_next` is a number needs a least
  deadline in a heap of any size, which is the well-foundedness of `<` used
  through `WFMin`.
- `PriorityInv`: `PriorityRespected`. Queue `i` is entered only when those before
  it are empty, and while it runs an urgent event becomes active only together
  with `event_continue`, because `event_running_priority` is the queue that runs
  for as long as a callback can call the API.
- `BreakInv`: `BreakObeyed`, what `event.h` says of `event_base_loopbreak`: the
  loop ends "after the next event is completed". `event_process_active` does not
  test `event_break` before its first callback, so a break that arrives during
  the sleep lets one callback run; the invariant says that a pass that goes on
  after a callback has seen no break.
- `LifeInv`: `FreedUnreferenced`. For each stage of an event's life it says what
  the base still has of it: an event whose `event_free` waits for its callback,
  or was called inside it, is in no queue already; only a finalizer runs without
  being `current_event`, and its event is in no queue; a thread that was woken
  from its wait for an event that is being freed finds the callback ended.
- `SleepInv`: `NoLostWakeup`. From `timeout_next` to the end of `epoll_wait`,
  over every step of `event_queue_make_later_events_active` and every call
  another thread makes during the sleep, either the eventfd is set or the base
  is `Calm`: nothing active, and no deadline before the end of the wait but for
  the age of the cached time. `event_add` rings only for a new earliest timer,
  or when one is overdue; that this is enough is the lemma `AddCalm`.

Only model-checked is liveness: `Returns`, `SessionEnds`, `BindEnds`, `RunsEnd`,
`ComesUp`, `HandlersFinish`, `SearchEnds` and `Stops`. They need fairness and `ENABLED`. Every
invariant and action property of a passing run has a theorem.

## Findings

- `peer_relay`: `startRelayUDP` tests `remoteRelayPort` and sends to
  `remotePort` (`MainPresenter.kt:210`); it may send to port 0, though its guard
  says it returns when it "has not get remote relay address or remote port yet".
  `startReflexiveUDP` has the like at `:268`, where it tests
  `remoteReflexiveAddr` and sends to `remoteRelayAddr`, possibly still null.
- `event_readd`: an event on a descriptor times out, `timeout_process` deletes it
  and makes it active, and while another callback runs another thread calls
  `event_add` on it with a timeout greater than zero. The event is active, so it is
  not put into epoll (`event.c:2689`); it is active by a timeout, so it is taken
  off the active queue (`:2733` to `:2745`); `event_add` returns 0. It is pending
  on its timer alone, although `event.h:1228` says the event runs when its
  condition occurs or its time has elapsed.
- `stun_integrity`: `stun_check_message_integrity_by_key_str` computes the HMAC,
  but the comparison that would return 0 is commented out (`ns_turn_msg.c:1972`),
  so it answers 1 for any key where the comment above it (`:1907`) has "0 if the
  integrity is not correct, 1 if OK". `SealVerifies` therefore says of the
  integrity check only that it answers 1 for the key a message was signed with,
  and `TurnBind` and `Allocation` accept every answer that carries an integrity
  attribute of the right size.

What the passing runs show under a condition is worth knowing too: starts that
overlap can free each other's globals (`SequentialStartsSafe` needs
`~overlap`), and `bind_client` without a session reads what is not there; one lost
datagram blocks the NAT tests for good (`AnswerAhead`, `RunsEnd`); a duplicate or a
stray datagram is reported as an address (`PairsMatch`); a TCP message whose size
wraps takes `recv_buffer` off the message boundaries, and one longer than its
buffer, or without whole words, makes it answer 0 from then on (`Framed`,
`GivesUpOnPiece`); as many presses as there are threads can stop the handling of
messages (`ThreadsRemain`); losing
every copy blocks a TURN transaction (`Returns`); a connection made
before `initMqtt` sets its handler is not subscribed (`SubscribedOrMissed`).

## Not modelled, and why

- TLS and DTLS: `use_secure` is 0 and the app has no way to set it; what matters
  there is OpenSSL's behaviour.
- `client_input_handler`, `client_read`, `client_write`: `start_p2p_client`
  frees the event base before any loop would run them.
- The copies of realm and nonce, with the lengths the server gives, into the
  session's buffers in `stun_is_challenge_response_str` (`ns_turn_msg.c:555`,
  `:579`): a challenge is one step in `Allocation` and `TurnBind`.
- The last will of the MQTT session: `initMqtt` sets `fetchWillingHandler` only
  after `init()` has asked for it (`MainPresenter.kt:46` to `52`), so none is ever
  set.
- The arithmetic of CRC and HMAC, SASLprep, OAuth tokens, the response builders
  a client does not use.
- `uclient/` and `natdiscovery/`: not compiled.
- The rest of libevent: signals, common timeouts, watchers, edge triggering, the
  dispatch limits, several events on one descriptor, failures of `epoll_ctl`,
  `event_base_free`, `event_priority_set`, `event_callback_finalize_many_`;
  bufferevents, evbuffers, HTTP, DNS and RPC, which nothing in the app calls.
- hiredis and OpenSSL: third-party code, and the Redis adapter is called from
  nowhere. Together with libevent they are most of the source lines, which is
  why the map covers a small share of them.
- Logging, socket options, JNI conversions, the activity.

## Plan

The order was: the transaction and its abstraction; allocation; the session and
the bind; the NAT tests; the Kotlin side; the codec and framing; the event loop;
the proofs. What is left:

1. the pure functions of the codec as operators checked against a reference:
   method and class bits of the message type, XOR addresses, address ranges
   (`ns_turn_ioaddr.c`), error responses;
2. a composition of `PeerExchange` with the native callbacks that fill its
   local fields and publish them over `MqttSession`;
3. the TCP data connection branch of `recv_buffer`;
4. the data path of `p2p_client.c`, as the code has it although nothing runs it.
