# SpaceSec Shield: verification project

TLA+ models of the command link of SpaceSec Shield, TLC configurations that
check them on small instances, and TLAPS proofs of what the link promises for
every instance. The sources are under `src/`; every definition of the models
that stands for code is listed with its lines in `PROJECT.json`.

## 1. The system

SpaceSec Shield sends commands from a Ground Station to a Satellite Node over
UDP port 9000 and shows the satellite's decisions on a web dashboard.

| Component | Source | State it keeps | Operations |
|---|---|---|---|
| Packet format | `phase3_security_layer/packet.*` | none | `build_aad`, `serialize_packet`, `deserialize_packet` |
| AEAD crypto | `crypto.*` | none | encrypt, decrypt; each may fail |
| Handshake crypto | `handshake.*` | none | key pair, raw public key, shared secret, HKDF; each may fail |
| Replay guard | `anti_replay.*` | the nonces seen, the window | `is_fresh`, `is_duplicate`, `mark_seen` |
| Ground Station | `secure_ground_station.cpp` | key pair, session key, the packet it resends | one handshake, a script of four packets |
| Satellite Node, phase 5 | `phase5_dashboard/secure_satellite_node.cpp` | key pair, session key, replay guard, last sender | first handshake; loop: packet, re-handshake, empty datagram; report; ACK |
| Satellite Node, phase 3 | `phase3_security_layer/secure_satellite_node.cpp` | the same | one handshake, four datagrams, exit |
| Phase 2 pair | `phase2_communication/*` | a socket | plaintext command and ACK, 2 s receive timeout |
| Dashboard client | `dashboard_client.*` | host and port | one blocking HTTP POST per decision |
| Dashboard server | `dashboard.py` | event deque, counters | ingest, state, reset, a thread per request |
| Dashboard page | `templates/index.html` | chart, last critical event | poll every second, reset |

How they interact. The Ground Station sends a 32-byte public key and waits; the
satellite answers with its own, and both derive the session key. Then the
Ground Station sends four packets (valid, the same again, tampered, expired)
without reading any answer. The satellite decides on each datagram by its size
first (0: ignore, 32: handshake, otherwise: packet), then by format, timestamp,
nonce and tag; it marks the nonce and executes; then it reports to the dashboard
in a blocking call, and only then sends the ACK. The browser polls the dashboard.

What is hard. Each program of the link is one thread, so there the difficulty is
in the network and in the order of things; in the dashboard it is in threads,
timers and answers that overlap:

- UDP loses, duplicates, reorders and delays; public keys, too, and the
  handshake has no retry, no timeout and no freshness of its own;
- the phase 5 node re-handshakes in the middle of its loop, whoever asks, and
  then replaces its session key and its replay guard, but not its key pair;
- nonces start again at 0x20 in every session, so that the replay guard of one
  session is useless in the next and the key alone keeps old packets out;
- everything is in memory: a restart forgets key pair, key and guard, while
  datagrams of the old session are still on their way;
- OpenSSL calls fail, and only some of the callers look;
- execution, report and ACK are three steps, and the process may die between;
- the report blocks the satellite's only thread while packets grow old;
- the dashboard's request threads share counters that they load and store;
- the page starts a poll every second whether or not the last one returned, and
  its reset button does not wait for the polls under way;
- phase 2's sender takes any datagram that reaches its port for its answer.

What makes each component correct. *Receiver and guard*: verify before execute;
a nonce is used up by execution and by nothing else. *Satellite*: guard and
session key belong together; an ACK answers an execution, at its address.
*Link*: what is executed was sealed by a ground station, at most once; expired
and altered commands never are; a valid command that arrives is. *Ground
Station*: a handshake ends. *Phase 3 demonstration*: each of the four packets
meets the check it was made for. *Phase 2 pair*: a sender ends, gives up no
answer that came in time, and prints one that was earned. *Packet format*: what
is written is read back, and no byte is ignored. *Dashboard client*: a POST
ends and holds the loop for a bounded time. *Dashboard server*: counters and feed
change together, an answer shows no event it does not count, and a reset leaves
nothing behind; while nothing is locked, that is as far as requests do not overlap,
and what overlapping ones may never do is invent an event or lose one from the feed.
*Dashboard page*: it flashes once for each critical event, and in the end it shows
what the server holds.

The hazards, each at its line and with the properties that cover it, are in
`PROJECT.json`.

## 2. The modules

```
Crypto <- SecurePacket --+
          AntiReplay   --+- SecureReceiver <- UdpLink <-+- GroundStation <- GroundLink <- GroundLinkProofs
                                                        +- SatelliteNode
                                                        +- Phase3Satellite

GroundLink + SatelliteNode   <- SecureLink <- SecureLinkProofs     (+ GroundLinkProofs)
GroundLink + Phase3Satellite <- Phase3Link <- Phase3LinkProofs     (+ GroundLinkProofs)
SecureLink, Phase3Link -- CommandDelivery (abstract)

CommandChannel  <- CommandChannelProofs       PacketCodec <- PacketCodecProofs
DashboardClient <- DashboardClientProofs
DashboardServer <- DashboardPage <- Dashboard <- DashboardProofs
Dashboard -- EventLog (abstract)

MCSecureLink, MCPhase3Link, MCDashboard: what TLC needs besides.
```

| Module | Models | State and actions |
|---|---|---|
| `Crypto` | `crypto.cpp`, `handshake.cpp` | No state. Keys, ciphertexts and tags are terms: equal exactly when the bytes are. ChaCha20 is a stream cipher (a flipped byte stays in place), the tag covers header and ciphertext. `SessionKey` is load, derive and HKDF in a row, empty if any of them fails. |
| `SecurePacket` | `packet.*` | No state. A datagram's bytes are its fields in wire order; its size is the number of bytes. |
| `AntiReplay` | `anti_replay.*` | A guard is a set of (session id, nonce). The text of the key determines the pair, so the pair stands for it. |
| `SecureReceiver` | `process_secure_packet` up to its decision | `Reason`: the checks in their order, with the reasons reported to the dashboard. |
| `UdpLink` | the network and the clock (external) | `uplink`, `downlink`: sets of datagrams in flight; `now`. `Receive` is `recvfrom`, which may leave a duplicate behind; `LoseUp`, `LoseDown`, `Damage`, `Tick`. |
| `GroundStation` | `secure_ground_station.cpp` | One program counter, key and resent packet per run; one action per statement that sends or receives. `sealed` is a history of what was encrypted. |
| `GroundLink` | what ground runs and network keep, whichever satellite listens | No state of its own: types, and the invariant that every tag on the link was made by a ground run. |
| `SatelliteNode` | phase 5 node | `spc`, `session_key`, `seen_nonces`, `ground_addr` are the program's variables; `boot` names its key pair; `epoch` and `executed` are histories. `FirstHandshake`, `FailFirst`, `Rehandshake`, `ReceiveEmpty`, `ProcessPacket`, `ReportDone`, `SendAck`, and `Restart`. |
| `SecureLink` | ground runs, UDP and the phase 5 node | the specification, its properties and its inductive invariant |
| `Phase3Satellite`, `Phase3Link` | the demonstration of phase 3 | `Handshake`, `FailFirst`, `TakeEmpty`, `TakePacket`; `handled` records what became of each of the four datagrams, `executed` the packets executed; its properties and invariants |
| `CommandDelivery` | the abstract specification | packets are sealed; sealed packets are executed, each at most once |
| `PacketCodec` | `packet.cpp`, byte by byte | No state. Shifts and masks are division and remainder, with the values of `uint32_t` and `uint64_t` as ranges. It is what allows `SecurePacket` to stand for bytes by fields. |
| `CommandChannel` | `ground_sender.cpp`, `sat_receiver.cpp` | `sender`, `port`, `timer` per run of the sender; `sat` is the receiver's buffer; `queue` is each socket's receive queue. `SendCommand`, `SendFails`, `Wait`, `PrintResponse`, `PrintNoResponse`; `ReceiveCommand`, `Acknowledge`; `Arrive`, `Tick`. `answer`, `awaited`, `processed`, `duplicates` are histories. |
| `DashboardClient` | `dashboard_client.cpp` | `pc` is the system call the client is in, `timer` what is left of its timeout, `conn`, `ready`, `owed` the connection. One action per return of a call; `Dashboard` is the other end, which may do anything. `held` and the ages in `backlog` are what the caller pays. |
| `DashboardServer` | `dashboard.py` | `events`, `counter` are the globals; each request has a thread whose program counter names its next access to them: `Load`, `Store`, `AppendEvent`; `PollStep`; `ClearEvents`, `ZeroCounter`; `RestartServer`. `since`, `disturbed`, `apart`, `exact` are histories: which requests have overlapped. |
| `DashboardPage` | `templates/index.html` | `shown`, `lastCriticalSeen`. A handler is cut at its awaits: `Tick`, `ShowAnswer`, `SkipTick`; `PressReset`, `ShowReset`. |
| `Dashboard` | server and page together | the specification, its properties and the mapping to `EventLog` |
| `EventLog` | the abstract specification of the server | while it is `exact` an event is counted and kept at once; requests that overlap may `Spoil` it, and then it may show anything; `Clear` makes it exact again |
| `SecureLinkProofs`, `Phase3LinkProofs`, `CommandChannelProofs`, `DashboardClientProofs`, `DashboardProofs`, `PacketCodecProofs` | | the theorems |
| `GroundLinkProofs` | | the lemmas both link proofs rest on |

Choices worth knowing:

- A receive and the computation that follows it are one action where nothing
  else can see the difference: the process is one thread, and what it computes
  from its own variables commutes with the network. Two sends, or a send and
  something that outlives the process, are never in one action, with one
  exception: in the first handshake the reply is sent, and then a failing
  derivation ends the program. Nothing is executed in between.
- `Restart` may happen at any point, so a run of the satellite may end between
  execution, report and ACK. A ground run that takes no more steps stands for
  one that was killed; another member of `Ground` stands for starting it again.
- `seq` in a datagram tells equal bytes sent twice apart, which in a set they
  would not be. No program reads it.
- `CryptoMayFail` makes every OpenSSL call a choice between its results. A
  failed key generation ends in the use of a null pointer, modelled as the end
  of the process.
- `Damage` changes a header to any of `DamagedHeaders`, or flips the first byte
  of the ciphertext. Public keys are not damaged: the code could not notice,
  and the session simply would not work.
- The ground station takes the first datagram that reaches it for the public
  key and reads no other, so duplicates on the downlink would make no difference
  and are not modelled.
- Commands and names are members of small sets; what is printed is left out.
- In `CommandChannel` a lost datagram is one that is never delivered: nothing
  makes the network deliver, so loss needs no action. Port and socket are what
  identifies a sender; the field `run` of a datagram is a history, since all
  commands are the same text.
- In `DashboardClient` the satellite is prompt: time passes only while a call
  waits for the dashboard. The bounds are about waiting, not computing.
- In `DashboardServer` one access to a dict entry and one call of a deque are
  atomic, which CPython's lock guarantees, and a statement with two of them is
  not. `list(events)` is one access. Some CPython versions never switch threads
  between the load and the store of `+=`; the language does not promise that, and
  the model does not rely on it.
- The satellite posts one event after the other, but gives up on the answer
  while the server's thread goes on. `Overlap` says whether the server may be that
  slow: without it, two events do not overlap. It restricts nothing else. The
  browser is another client, so a reset or a poll may begin at any moment of an
  event, and an event at any moment of a reset, in every run and every proof.
- What overlapped is recorded, not forbidden. `apart` says that no event has overlapped
  the clearing of a reset, `exact` that no event has overlapped another one either,
  both since everything was last cleared: a reset that finds no event under way when
  it clears the deque makes them true again, and so does a restart. Two
  resets may overlap. The properties of the server say what holds while each of
  them is true, and what holds whatever they are.
- The bodies posted to the dashboard are what the satellite's client posts, or leave
  fields out: a `type` is `ACCEPTED` or `REJECTED`, a latency is a number.

## 3. The runs

The configurations of the link switch `CHECK_DEADLOCK` off because the programs
really stop: the satellite waits in `recvfrom` when no datagram is left, the
phase 3 node exits. The others check for deadlock.

| Run | Instance | Properties | What it shows |
|---|---|---|---|
| `link_failures` | two ground runs, failing OpenSSL, a restart | `OnlySealedExecuted`, `AtMostOncePerGuard`, `AtMostOnce`, `PromiseKept`, `GuardFollowsSession` | whatever fails, only sealed packets run, each once, also across sessions and processes: the link implements `CommandDelivery`; a guard lives as long as its key |
| `link_faults` | one ground run, a plaintext sender, loss, damage, a slow satellite clock, a restart | `TypeOK`, `ExpiredNeverExecuted`, `GuardRemembersExecuted`, `AckFollowsExecution` | no expired command runs; a damaged copy does not use up a nonce; no ACK without an execution at that address, wherever the process dies |
| `link_live` | two ground runs, faultless, packets as old as the window | `HandshakeEnds`, `ValidCommandExecuted` | both get their answer even if the hellos cross; the valid command is executed unless the other run has taken the session |
| `phase3_script` | one ground run, reordered and late | `ScriptVerdicts`, `DemonstrationEnds` | one verdict of each kind, for the right packets; both programs exit |
| `phase3_faults` | one ground run, a plaintext sender, loss, damage, duplicated keys, failing OpenSSL | `TypeOK`, `PromiseKept` | the phase 3 node implements `CommandDelivery`, duplicated keys included |
| `channel` | three runs, two ports, a duplicate | `TypeOK`, `GivesUpOnlyWhenLate`, `ResponseIsEarned`, `SenderEnds` | a sender ends and never gives up early; the answer it prints may be that of an earlier run on its port, and is no one else's |
| `dash_post` | two pieces of response, two packets waiting | `TypeOK`, `HoldBounded`, `DeadDashboardIsCheap`, `BacklogBounded`, `PostReturns` | a POST ends whatever the dashboard does, and what it costs |
| `dashboard` | two events, a poll, a reset or a restart, all overlapping as they like; the feed holds one event | `TypeOK`, `AnswersCoherent`, `ResetStartsFromZero`, `NothingInvented`, `LogKept` | the server implements `EventLog`; answers are coherent and averages exist; what a reset earns; overlapping requests invent nothing |
| `dash_page` | two forged packets one after the other, two overlapping polls, a reset or a restart at any moment | `FlashesOnNew`, `NeverFlashesAgain`, `PageCatchesUp` | the page flashes once for each critical event and catches up |

Three runs end in a violation; each is a disagreement between the code and what
its documentation or a comment says.

- `link_dup_key` (`AtMostOnce`). README.md:126, "Replayed packets are rejected."
  Deliver the public key of a run twice, the second copy after its valid packet.
  The phase 5 node keeps its key pair, so it derives the same session key; it
  replaces the guard, because "the new session's nonce (starting again at 0x20)
  would be flagged as a duplicate" (lines 216-219), and executes the script's
  replayed packet.
- `dash_alert` (`FlashesOnNew`). index.html:179, "Flash the status banner on a NEW
  critical event". The server stamps an event when its request begins and
  appends it at the end; of two that overlap the older stamp may be appended
  last, after a poll, and the page, which compares stamps, never flashes for it.
- `dash_reset` (`DemoStartsFromZero`). dashboard.py:100, "Clear all state so each
  live demo starts from zero." `reset` takes no lock. In the shortest trace the thread of
  an event has counted it, the reset clears deque and counters, and the thread
  appends: nothing was posted since, and the feed is not empty. In the other a thread stores
  after the reset a count it loaded before.

What overlap costs, and what survives it. Two loads before two stores lose a count:
`AnswersCounted`, the half of `AnswersCoherent` about counts, holds only while `exact`,
and `LogKept` has the log spoilt until the next reset that no event overlaps. A
reset over an event leaves what `dash_reset` shows; `ResetStartsFromZero` and
`NothingInvented` hold only while `apart`, but then even if events overlap each
other, so a reset that finds no event under way does start from zero
whatever was lost or brought back before. `FlashesOnNew` fails if two events overlap
(`dash_alert`), and so does the half of `PageCatchesUp` about flashes, since the
event the page has missed stays in the feed; the half about counters does not
depend on it. Without any condition hold: averages exist unless a reset comes
between the test and the division (then the request fails, and the page skips it), and the
banner does not flash without a new event (`NeverFlashesAgain`; the theorem
`FlashesOnce` has no hypothesis). The other half of `FlashesOnNew`, no new event
without a flash, needs besides stamps that differ, and that no event leaves the
answers (the last 30) between two polls: with `RecentMax = 1` two critical events
between two polls make TLC find an event the page never flashes for.

Two more statements of the source that the models contradict, without a run of
their own:

- A re-handshake whose derivation fails (phase 5 node, lines 213-214: no result is
  looked at, unlike at 164-170) leaves the node in its loop with an empty session
  key, while line 221 logs "New session key established." No packet of a ground run
  authenticates under it; but a key that depends on nothing secret can also be guessed.
  In the models it is `NoKey`, under which nobody seals, so nothing is executed in
  such a session; a sender with a guessed key is outside them.
- dashboard_client.cpp:19-20, "Hard cap on how long a single POST may take".
  The timeout starts again with every recv: a dashboard that sends one piece just
  before each timeout holds the loop for `Longest = Timeout * (MaxChunks + 2)`, the
  bound of `HoldBounded`. One that is dead from the start costs one timeout
  (`DeadDashboardIsCheap`), as the comment's second half says.

README.md:291, "Lost replies do not freeze the sender", is true of phase 2's
sender (`SenderEnds`). The secure Ground Station sets no receive timeout: if the
reply with the public key is lost it waits for ever. `HandshakeEnds` is checked,
and holds, on a network that loses nothing.

### Bounds, and why they are enough

- `Ground`: one or two runs. A session is between the satellite and one run;
  two are needed for one session to displace another, and a third adds a
  displacement of the same kind. In `link_failures` two are symmetric and
  symmetry is used; `PromiseKept` and `GuardFollowsSession` mention no run by name
  and are no liveness properties.
- `MaxEpochs = 3`: first guard and two more, so that a guard can be left and,
  with duplicated keys, its key come back. `MaxBoots` is 1 or 2: one restart.
  Both bound actions by a guard.
- `Window = 1` or `2`, `StartTime = 2 * Window`, `MaxNow` up to `StartTime +
  Window`: in the runs about time a packet may be younger than, exactly as old
  as, and with the clock behind, as the expired one, older than the window. In
  the others the clock stands still, and the expired packet is stale from the
  start; age only ever leads to a rejection, so these runs see every packet
  accepted that could be.
- The datagrams of the link are those of the script. `link_failures` and
  `link_faults` do not duplicate them on the way: the script sends its valid
  packet twice, which is the duplicate a guard must notice, and `phase3_faults` and
  `link_dup_key` duplicate keys. The proofs about the link cover
  duplicates of every datagram.
- `channel`: three runs on two ports, so that two are open at once and one uses
  a port again; `Timeout = 1`, since a run that waits has either time left or none;
  one duplicate (`MaxDup`), after which an answer may be in two places. The proofs
  have no bound on any of them.
- `dash_post`: `Timeout = 3`, so that a piece may come early, late or not at all;
  `MaxChunks = 2`, so that recv returns data, more data, and the end; `MaxBacklog =
  2`, so that a packet waits behind another. `MaxChunks` is a real limit of the
  result: a dashboard that sends for ever in small pieces holds the loop for as
  long as it likes. Flask's answer of some 200 bytes comes in one or two
  pieces, which makes 1.2 s at most. With a few reports like this in front of it
  (`BacklogBounded`) a packet is still far from the window of 30 s.
- `dashboard`: two events of either kind, so that counts are lost and events overtake each
  other; `FeedMax = RecentMax = 1`, so that the deque overflows. One poll and one
  reset or restart (`MaxClears`) come at every moment of them; a second reset adds another order of
  the same stores. The proofs have no bound on any of these.
- `dash_page`: two polls that overlap each other, one reset or restart. Both
  events are forged packets, the ones that flash, and both fit into feed and answer
  (`FeedMax = RecentMax = 2`). The clock moves with every event, as it does between two
  decisions of the satellite; two events of the same millisecond would have one stamp and
  flash once.
- `dash_reset`: one event and one reset are enough.

### Fairness

In the link, `LiveSpec` assumes weak fairness of each ground run and of the
satellite: single threads that run whenever they are not blocked in `recvfrom`,
and calls that return. Nothing is assumed of the network or the clock: a datagram
in flight can be received, since what is sent is either delivered or lost, and
loss is switched off where liveness is the subject. `Restart` is never fair.

In `CommandChannel` the senders run and time passes; the satellite and the
network may do nothing for ever. In `DashboardClient` the satellite runs and
time passes; the dashboard may do nothing for ever. In `Dashboard` the threads of
the server run, the timer of the page fires and its handlers run, all weakly
fair; `ShowAnswer` is strongly fair, because an answer may be lost any number of
times but not every time. Nobody need post an event or press the button.

## 4. The proofs

### The secure link

`SecureLinkProofs` proves, for every set of ground runs, every window and clock,
any number of restarts and any mix of loss, duplication and damage:

| Theorem | States | Assumes |
|---|---|---|
| `TypeCorrect` | `Spec => []TypeOK` | |
| `Invariance` | `Spec => []IInv` | |
| `OnlySealed` | `Spec => []OnlySealedExecuted` | |
| `OncePerGuard` | `Spec => []AtMostOncePerGuard` | |
| `GuardExact` | `Spec => []GuardRemembersExecuted` | |
| `AckSound` | `Spec => []AckFollowsExecution` | |
| `GuardAndSession` | `Spec => GuardFollowsSession` | |
| `ExpiredRejected` | `Spec => []ExpiredNeverExecuted` | `SatSkew > -Window` |
| `Once` | `Spec => []AtMostOnce` | `~DupKeys` |
| `Delivery` | `Spec => PromiseKept` | `~DupKeys` |

The assumptions on constants are the `ASSUME`s of the modules: types of the
switches, a start of the clock at least a minute past zero, and that the empty
key differs from every derived one. `SatSkew > -Window` is needed: a satellite
whose clock is a whole window behind takes the expired packet for fresh.
`~DupKeys` is needed: `link_dup_key` is the counterexample without it.

The argument. None of the properties is inductive alone. That only sealed
packets are executed rests on tags: `TagsSealed` says that every tag on the
link, on a damaged packet too, was made for a sealed packet, `SealedGenuine`
that a sealed packet is what its tag says and was made with the key of a ground
run. A packet that passes authentication has the tag of its own bytes, so it is
that sealed packet. That a guard lets nothing through twice rests on
`GuardRemembersExecuted` and on `ExecutedGenuine` (the history says what was in
the packet). `AckDue` carries an execution over the report to its ACK. `IInv`
is their conjunction with `TypeOK`, whose hard part is that the sizes keep public
keys, packets and plaintext apart.

`Once` needs a second layer: as long as public keys are not duplicated, a key
on its way has not been used (`KeysFresh`), so a handshake gives a session key
under which nothing was executed, so no session key outlives its guard
(`OneGuardPerKey`). A packet executed twice would bear one tag, hence one key,
hence be executed under one guard, which `AtMostOncePerGuard` excludes.
`Delivery` is then the refinement: a step that executes appends a sealed packet
that is not in the history, every other step seals or stutters.

The types and tags of ground runs and network do not depend on the satellite.
They are in `GroundLink`, with one lemma per step of a ground run or of the
network in `GroundLinkProofs`, and both links use them.

### Phase 3

`Phase3LinkProofs` proves, for any number of ground runs, every clock, and any
loss, duplication, damage and failure, `TypeCorrect`, `Invariance` and
`Delivery` (`PromiseKept`). The phase 3 node takes one public key in its life, so
it never has a second guard and `~DupKeys` is not needed: `IInv` is the type
invariant, the tags (`SealInv`) and `GuardRemembersExecuted`.

`VerdictsHold` proves `ScriptVerdicts` under `FaultlessRun`: at most one ground run
and no plaintext sender, no failing OpenSSL call, no duplicate and no damage,
`Window > 0` and `MaxNow <= StartTime + Window`. Each of them is needed, and TLC finds a
counterexample for each when it is dropped: a second
sender, a duplicate, an empty or a damaged packet takes one of the four
iterations; a packet older than the window is stale and the expired one is fresh
when the window is nothing. Loss is allowed, since a node that has handled four
datagrams has then had all of them. The invariant `ScriptInv` has four parts:
both ends have the same key (`KeysAgree`); each packet is what the script made of
it (`FollowsScript`); each is on its way, taken or not yet sent (`EachOnce`); and
the guard knows the first nonce exactly if a packet was executed
(`VerdictsSoFar`), which makes the first of the two copies the command and the
second the duplicate. At the end four different datagrams are the whole script.

### Phase 2

`CommandChannelProofs` proves, for any number of runs, ports and duplicates and
every timeout, `TypeCorrect`, `NoEarlyEnd` (`GivesUpOnlyWhenLate`) and `Earned`
(`ResponseIsEarned`). The assumptions: a positive timeout, and that `Nobody` is
neither run nor port. `GivesUpOnlyWhenLate` needs `Waited`: what a waiting run has
left of its timeout and what it has waited make up the timeout, because while it
waits with an empty socket both move together. `ResponseIsEarned` needs to know
where an answer can come from: open sockets have different ports (`Ports`), a
datagram bears the port of the run that sent it (`Origin`), so an answer in a
socket is its owner's or that of a run which had the port and has closed it. That
no answer is printed twice needs `Once`: without duplicates, the command or
answer of a run is in one place, on its way up, in the satellite's hand, on its
way down, in a socket, or printed.

### Dashboard client

`DashboardClientProofs` proves, for every timeout, number of pieces and length of
the backlog, `TypeCorrect`, `Bounded` (`HoldBounded`), `DeadIsCheap`
(`DeadDashboardIsCheap`) and `Waiting` (`BacklogBounded`), all from `Accounted`, the
inductive invariant. `HeldSoFar` says at each call where the time has gone:
nothing before the connect, one timeout for it, and one for each recv, of which
there is one for each piece read so far. `Waited` gives a packet one POST
for each place in front of it that has become free.

### Dashboard server and page

`DashboardProofs` proves, for every number of events, polls, resets and
restarts and every size of the feed:

| Theorem | States | Assumes |
|---|---|---|
| `TypeCorrect` | `Spec => []TypeOK` | |
| `CoherentInvariance` | `Spec => []Coherent` | |
| `FlashesOnce` | `Spec => NeverFlashesAgain` | |
| `AveragesInvariance` | `Spec => []AveragesCoherent` | |
| `SeparateInvariance` | `Spec => []SeparateWhileApart` | |
| `NothingInventedHolds` | `Spec => []NothingInvented` | |
| `ResetHolds` | `Spec => []ResetStartsFromZero` | |
| `SerialInvariance` | `Spec => []SerialWhileExact` | |
| `AnswersHold` | `Spec => []AnswersCoherent` | |
| `LogHolds` | `Spec => LogKept` | |
| `FlashesHold` | `Spec => FlashesOnNew` | `~Overlap`, `0 \notin StampSteps`, `Roomy` |

The inductive invariant has five parts, each of which rests on those before it.

`Coherent` holds whatever overlaps: a thread works on the event it has stamped, what
is in the feed and in the answers is complete, and the page has flashed for nothing
newer than `lastCriticalSeen`; so an event that makes it flash is new.
`AveragesCoherent`: only a reset lets `n` fall to zero, and it marks every poll.

`SeparateWhileApart`, for events that overlap each other but not the clearing of a
reset: a thread has loaded no more than the events since have stored (`LoadsEarned`),
so that a store, which may lose counts of others, still leaves the total at no more
than the events stored (`EventsEarned`); the feed holds the complete ones; and a
reset clears the entries from the front with no thread at work (`ResetsClear`). A
reset that finds no event under way establishes all this anew, from any state.

`SerialWhileExact`, for events that overlap nothing that writes: the register of an
update is the counter's value (`LoadsCurrent`), what is in the feed or about to be
appended is counted (`EventsCounted`), and a poll no reset disturbs has read
events before the counts of them (`ReadsCounted`). `LogHolds` maps the event that
is counted but not yet appended into the feed, and shows for each step that it
is one step of `EventLog` or none.

`InOrder` adds what the page needs to compare stamps: the feed and the stamps are in
the order of the events (`StampsOrdered`, `FeedOrdered`), an answer holds the feed up
to its last event (`AnswersComplete`), and everything critical up to
`lastCriticalSeen` has been noticed (`AllNoticed`).

The hypotheses of `FlashesHold`. `~Overlap` is needed (`dash_alert`); resets may overlap
everything. `0 \notin StampSteps` says that two events are not stamped in one
millisecond. `Roomy` says that no event leaves the feed or an answer: the events are
numbered from 1 and fit into both. The other theorems hold for feeds that overflow.
`FlashesOnNew` and the parts that count need a greatest stamp and cardinalities:
a set of naturals has a least member because `<` is well-founded, which the
library states as a theorem on relations, and tallies change by
one event at a time, so no induction over data is needed.

### Packet format

`PacketCodecProofs` proves, without assumptions and for every packet and every
byte string, `RoundTrip` (what is written passes the size check and is read back as
it was) and `NothingIgnored` (what passes the size check is a packet, and writing it
gives the same bytes). So equal packets are equal fields, and a byte changed
anywhere is a field changed, which is what `SecurePacket` assumes. The argument:
dividing by 256 and multiplying again, byte by byte, and the positions of the
pieces of a concatenation.

### Only model-checked

The liveness properties: `ValidCommandExecuted`, `HandshakeEnds`,
`DemonstrationEnds`, `SenderEnds`, `PostReturns`, `PageCatchesUp`. They rest on
fairness, hence on `ENABLED`, which is out of the prover's reach. Every invariant
and every action property of a passing run is proved; the properties of the three runs
that end in a violation are false in general.

## 5. Not modelled

- OpenSSL's algorithms, secrecy of the plaintext: terms stand for keys,
  ciphertexts and tags. That no ciphertext can be read without its key is not a
  question this project asks.
- Sockets of the nodes that cannot be created or bound: the program ends at once.
- SIGPIPE in the dashboard client. If the dashboard closes the connection and then
  resets it before `send` (dashboard_client.cpp:115), the signal would end the
  satellite: the call does not set `MSG_NOSIGNAL` and nothing handles the signal. In
  `DashboardClient` that `send` fails, its result is ignored, and recv is called; so
  `PostReturns` and `HoldBounded` say nothing of a satellite that ends there.
- The text of the HTTP request and of the JSON in it, Flask's parsing of them;
  the average latency, the link status, the chart and the list of alerts, which
  are shown and read by no code; the `GET /` handler.
- The composition of the satellite with the dashboard in one state space. Node,
  client and server meet in one call that returns (`PostReturns`) and in one event
  per POST; a product of the three would add no interaction to these.
- Tests, reports, packet capture and lab commands: no state of their own.

## 6. What is left

1. `FlashesOnNew` for a feed that overflows: what is true then is that the page
   flashes for every critical event that an answer still holds.
2. The safety half of liveness: that `PageCatchesUp`'s state, once reached, can only be
   left by a step of the reset button or the server.
3. Larger instances of `dash_page`: a third event, so that one leaves the feed
   before the page has seen it.
