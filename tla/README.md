# A TLA+ model of esphome-lorabridge

esphome-lorabridge is an ESPHome component for ESP32 boards. It sends sensor
values over LoRaWAN (RadioLib) and, optionally, hands a copy of every uplink to
the network server over UDP, as a *virtual gateway*. This directory holds TLA+
modules that model it, configurations that check them with TLC, and proofs that
TLAPS checks. Paths such as `lorabridge.cpp` are relative to
`src/components/lorabridge/`.

## The system

### Parts and what they do

| Part | Source | State | Operations |
|---|---|---|---|
| Virtual gateway forwarder | `virtual_gateway_forwarder.{h,cpp}` | socket, pending copy and its timer, PULL_ACK clock, DNS and keepalive clocks, counter | `loop`, `drain_rx_`, `check_retransmit_`, `resolve_and_connect_`, `close_socket_`, `on_uplink_captured`, `is_connected` |
| LoRaWAN node | `lorabridge.{h,cpp}` | RadioLib's node (DevNonce, session), `joined_`, nonces in flash | `setup`, join loop, `save_nonces_`, uplink loop |
| TX tee | `capture_radio.h` | `tee_enabled_`, the sink, the channel noted for the copies | `transmit`, `setFrequency`, `setDataRate`, `set_tee_enabled` |
| Diagnostics | `lorabridge.cpp:335` | last published values | `loop` |
| Payload encoder | `lorabridge.cpp:38`, `:268` | the configured items | sensor encoding, `pack_binary_sensors`, `pack_text_sensors` |
| Payload decoder | `src/decoder/decode.js` | none | `decodeUplink`, `tryParse`, `readInt`, `readText` |
| SPI HAL | `esphome_spi_hal.h` | device handle, `bus_acquired_` | `init`, `term`, `digitalWrite`, `spiTransfer` |
| Configuration | `__init__.py`, `sensor.py`, `binary_sensor.py` | none at run time | schema, generated setters |
| Release workflow | `src/.github/workflows/release.yml` | tags and releases | bump, tag, release |

### How they interact

Two tasks run. The ESPHome **main task** calls `LoRaBridge::loop()` over and
over: it tells the forwarder whether the network is up, calls the forwarder's
`loop()` (name resolution, draining the socket, the retransmit check, PULL_DATA)
and publishes what has changed. The **LoRaWAN task**, created by `setup()`, joins
over the air, saves the nonces after every attempt, enables the tee, and then
transmits an uplink per interval. Every frame goes through the tee; once it is
enabled, `CaptureRadio::transmit()` calls the forwarder's
`on_uplink_captured()` *in the LoRaWAN task*. The forwarder's mutex is therefore
taken by both tasks, and its regions interleave. The radio is on the same SPI bus
as a display: RadioLib reaches it through `ESPHomeSPIHal`, in `setup()` from the
main task and later from the LoRaWAN task, while the main task draws. What lies
outside: the network, which comes and goes; UDP, which loses, repeats, delays and
reorders; `millis()`, which wraps after 49.7 days; the network server; and
reboots, which the nonces in flash must survive.

### What is hard, and what makes each part right

* *Forwarder.* An uplink can replace the pending copy while an acknowledgement
  is in hand but not yet matched; an answer may come twice or be meant for an
  earlier copy; the network may be lost between any two steps; `now` is stale
  after name resolution. Right means: each uplink is counted at most once and
  only if its own acknowledgement came; a copy is sent at most twice, never early;
  nothing survives the socket it belongs to; no copy waits for ever; the
  indicator tells the age of the last PULL_ACK.
* *Node.* A reboot can come between a join request and the save after it.
  Right means: DevNonces go up across reboots; uplinks go out under the session
  the server has; no join request is ever copied; whatever goes wrong, the node
  gets in at last.
* *Payload and decoder.* Clamping at the edges of a field, the reserved pattern,
  fields read without the sign they were sent with, texts read twice while the main
  task writes, a layout that must be guessed from the bytes. Right means: every
  entity shows what the task read or keeps what it had, and a payload is decoded
  in the layout it was built for.
* *TX tee.* The frequency and the data rate are noted by the setters and read by
  `transmit()`; the same setters serve receive windows, and any call may fail. Right
  means: a copy names the channel its own frame went out on.
* *Diagnostics.* What is published is compared with what was published last, and
  the first time with nothing. Right means: between two turns the entities show
  what the forwarder says, or what it said when the turn ended.
* *SPI HAL.* The bus is taken and returned around chip select by a flag that lives
  beside the driver's own lock, and a transfer may end half way. Right means: while
  the radio is selected nobody else uses the bus, and it is always given back.

## The modules

| Module | Contents |
|---|---|
| `UplinkCopies` | abstract specification: what becomes of the copies of the uplinks |
| `VirtualGatewayForwarder` | the forwarder, both tasks, the clock, UDP and the network |
| `ForwarderProofs` | its invariants, proved |
| `CopiesProofs` | the forwarder implements `UplinkCopies`, and one uplink is one datagram, proved |
| `Diagnostics` | `LoRaBridge::loop()`: the forwarder's turn and the publication after it (extends `VirtualGatewayForwarder`) |
| `MCDiagnostics` | the forwarder's turns for TLC, and the assumptions on the bounds; three configurations |
| `DiagnosticsProofs` | what the connection indicator says of time; turns are the forwarder's, and what is shown is true, proved |
| `LoRaBridge` | setup, join loop, nonces in flash, tee, uplink loop, reboots, the server |
| `MCBridge` | the same for TLC; two configurations |
| `LoRaBridgeProofs` | its invariants, proved |
| `CaptureRadio` | the radio under the node: channel, receive windows, failing calls (extends `LoRaBridge`) |
| `MCRadio` | the same for TLC |
| `CaptureRadioProofs` | the node on its radio is the node, and copies name their channel, proved |
| `SharedBus` | abstract specification: devices that take turns on a bus |
| `SPIHal` | the HAL, the driver's bus, RadioLib's transactions, a display |
| `MCSPIHal` | the same for TLC |
| `SPIHalProofs` | its invariants, and that it implements `SharedBus`, proved |
| `PayloadEncoder` | the bytes of a sensor, of the binary sensors, of a text |
| `PayloadDecoder` | `decode.js`: the layouts, the field readers, the choice of the layout |
| `UplinkPayload` | an uplink from the sensors to the entities: the uplink loop, the main task that assigns the states, the decoder |
| `MCPayload` | the same for TLC; five configurations |
| `PayloadProofs` | encoder and decoder agree, byte by byte, in every layout, proved |
| `UplinkProofs` | every reading, state and text of an uplink arrives, proved |

### VirtualGatewayForwarder

`pc` says where the main task is; the labels are the points of `loop()` at
which the other task, the clock and the network can get in between.

| `pc` | Next actions | Code |
|---|---|---|
| `idle` | `SetActive` | `LoRaBridge::loop`, `lorabridge.cpp:335-340` |
| `loop` | `LoopNetworkLost`, `LoopResolve`, `LoopReady`, `LoopReturn` | `loop`, 112-129 |
| `resolve` | `ResolveFails`, `ResolveSucceeds` | `resolve_and_connect_` |
| `drain` | `DrainRecv`, `DrainEmpty` | `drain_rx_`, first locked region |
| `handle` | `HandlePushAckMatch`, `HandlePushAckOther`, `HandlePullAck`, `HandleOther` | `drain_rx_`, the switch |
| `retransmit` | `RetransmitNotDue`, `Retransmit`, `GiveUp` | `check_retransmit_`, one locked region |
| `keepalive` | `SendPullData`, `KeepaliveNotDue` | end of `loop`, `send_pull_data_` |

The LoRaWAN task's `CaptureDropped`, `CaptureTooLarge` and `CaptureInjected` are
the three ways through `on_uplink_captured()`, one locked region. `NetChange` and
`Tick` are the surroundings. The variables carry the names of the members they
stand for. A PUSH_DATA is a token and the number of the uplink inside it
(`Datagram`); `sent` holds those that left on the open socket, and `Arrivals`
lets `recv()` return an answer to any of them, any number of times, in any order,
or never. `rx` is the datagram received but not handled. `attempts`, `acked`,
`counted`, `age`, `silence`, `captured`, `reused` and `pending_uplink` are history:
no action of the code reads them.

When the oversize return is taken, `pending_buf` changes and nothing else does:
the model keeps that. `FramesFit` proves that no frame this node transmits
reaches it.

A capture draws any token (`t \in Tokens`): the code takes 16 random bits and
checks nothing. `reused` records whether a token has been drawn that was still in use
(`InUse`: the pending copy's, or one that left on the open socket). From then on an old
answer can be taken for the new copy's, and two properties say nothing more:
`CountedWereAcked` has the premise `~reused`, and `CopiesSpec` speaks of the
steps before it. Of `SentDatagramsAgree` only the second half has the premise:
an uplink has one datagram, always; that no other uplink has the same token holds
until then.

### Diagnostics

A turn is `Loop` until the forwarder's `loop()` has returned (`pc` is `idle` again,
wherever it returned), then `Publish`. The other task, the clock and the network go
on at any point (`Meanwhile`). Both list the forwarder's actions one by one, so that
TLC reports of each how often it was taken. `Publish` is one step: what it reads
besides the clock is written by the main task only, and the clock is read once.
`Unknown` is an entity that was never published. `TurnSpec` extends the forwarder's
specification, whose properties are checked in whole turns.

### LoRaBridge

`task` follows `setup()` and then the LoRaWAN task.

| `task` | Next actions | Code |
|---|---|---|
| `setup` | `SetupFails`, `SetupRestored`, `SetupRejected`, `SetupFresh` | `setup`, 143-235 |
| `join` | `RequestLost`, `RequestRefused`, `RequestAccepted` | the call of `activateOTAA`, 243 |
| `answer` | `JoinAccepted`, `JoinAcceptLost`, `JoinTimesOut` | its return |
| `save` | `SaveNonces`, `SaveFails` | `save_nonces_` |
| `saved` | `JoinSucceeded`, `JoinFailed` | 247-259 |
| `uplink` | `UplinkSent`, `UplinkSkipped` | uplink loop, 268-326 |
| `retry`, `first`, `wait` | `Delay` | the three `vTaskDelay` |

`Reboot` may come anywhere and resets everything but the flash and the server.
`Transmit` is `CaptureRadio::transmit()`. RadioLib, the preferences and the
network server are not in the repository; they are modelled from the use the code
makes of them (the comments at `lorabridge.cpp:211` and `:244`): a join request
carries the next DevNonce, every request advances it, and the server accepts one
that is higher than any it has accepted. `Faults` says which of three things may
go wrong: a reboot during an attempt, stored nonces being rejected, a save that
does not reach the flash.

### CaptureRadio

`setting` is how far LoRaWANNode is with the channel: `SetFrequency`, then
`SetDataRate`, each of which takes its note before the chip is asked and may fail;
then `Send` (a frame, with its copy if the tee is on), `CloseWindow` (a receive
window) or `SendFails`. Windows may be opened, any number of them and on any
channel, whenever the node waits for an answer or for its next uplink. All other
steps of the node are `LoRaBridge`'s and wait until the radio is done; a reboot
(`Restart`) makes a new radio. `tx` and `copied` are history: the channel the last
frame went out on, and the one its copy names.

### SPIHal

`radio` follows one transaction of RadioLib through the HAL.

| `radio` | Next actions | Code |
|---|---|---|
| `idle` | `InitDevice`, `Term`, `SetupEnds` (in `setup()`), `Start` | `init`, `term`, `LoRaBridge::setup` |
| `select` | `Acquire`, `SkipAcquire` | `digitalWrite(cs, LOW)` before the pin |
| `lower` | `Lower` | the pin |
| `transfer` | `Transmit`, `TransmitFails`, `TransferEnds` | `spiTransfer` |
| `raise` | `Raise` | the pin, HIGH |
| `release` | `Release`, `SkipRelease` | `digitalWrite(cs, HIGH)` after the pin |

`holder` and `registered` are the driver's: who has the bus, and how many devices
were added for the radio. The driver gives the bus to anybody who asks for a single
byte unless another device has acquired it (`Byte`), which is why the HAL acquires
it. The display is modelled as the driver's other user; it draws from the main task,
therefore not before `setup()` is over. `BusUse` maps all this to `SharedBus`: the
radio uses the bus from chip select low to high. Taken as given of what is outside:
RadioLib selects and deselects in pairs, from one task at a time; a chip that was
never on the bus is not found, so that `setup()` goes on only with a device; and
`setup()` deselects the radio before anything else (`lorabridge.cpp:149`). The code
ignores the result of `spi_device_acquire_bus()`; without a time limit and with a
device that was added the driver waits rather than refuse, so that `Acquire` waits and
then has the bus.

### PayloadEncoder, PayloadDecoder, UplinkPayload

The first two are pure: operators over sequences of bytes, each with the name of
the function it stands for where there is one. `LAYOUTS` is the table of
`decode.js`, without the divisors. `UplinkPayload` has the state. The firmware is
configured for one of the layouts (`device`); the LoRaWAN task goes through the
uplink loop, and the main task may assign a state before each of its steps
(`SensorReports`, `BinariesReport`, `TextReports`).

| `task` | Next actions | Code |
|---|---|---|
| `measure` | `MeasureText` for each text, then `SkipOversized` or `StartFilling` | `lorabridge.cpp:269-288` |
| `sensors` | `ReadSensor` for each sensor, then `ReadBinary` for each bit | 289-317 |
| `texts` | `ReadText` for each text, then `UplinkArrives`, `UplinkLost` or `Overrun` | 318-328, `decodeUplink` |

`read` holds what the task has read; `Written` is what it writes of it and
`Payload` what is sent: `total_size` bytes, 0 where nothing was written. Where
`Written` is longer than the payload, the code writes behind the end of a vector.
What follows is undefined: the model either goes on with the bytes that fit, or
boots again (`Overrun`). `entities` are the values Home Assistant shows; a field
the decoder omits leaves its entity alone, as the comments at `lorabridge.cpp:290`
and `decode.js:255` say.

A reading is the state of a sensor after `llround(state * multiplier + offset)`,
or `NoReading`. Each sensor, each bit and each text is read in a step of its own, with
the main task in between; a text in one step, so that a string torn in the middle of
its assignment is not in the model. A character is a byte; the first letter of a
label stands for the others.

## What is checked

| Run | Configuration | Shows |
|---|---|---|
| copies | `MCDiagnostics_copies.cfg` | type invariant, `PendingHasSocket`, `CountedWereAcked`, `SentDatagramsAgree`, `SentAtMostTwice`, `RetransmitOnTime`, and that the forwarder implements `UplinkCopies` (`CopiesSpec`) |
| copies_live | `MCDiagnostics_copies_live.cfg` | no copy waits for ever (`CopiesResolved`); the socket follows the network (`SocketFollowsNetwork`); the counter shown is the forwarder's (`ForwardedIsShown`) |
| connection | `MCDiagnostics_connection.cfg` | `ConnectedOnThisSocket`, `ConnectedUnlessWrapped`, and the entity that shows it (`ConnectedIsShown`); PULL_DATA never stops (`KeepsAlive`); a silent server shows (`SilenceShows`), and so does a network that is gone (`NetworkLossShows`) |
| bus | `MCSPIHal_bus.cfg` | type invariant, `RegisteredOnce`, `BusReturned`, that the HAL implements `SharedBus` (`BusSpec`), and that nobody waits for ever (`BusServed`) |
| join | `MCRadio_join.cfg` | type invariant, `SessionsAgree`, `CopiesAreUplinks`, `CopiesNameChannel`, `DevNoncesAdvance` |
| join_faults | `MCBridge_faults.cfg` | with every fault, uplinks flow at last (`UplinksFlow`) |
| nonce_reuse | `MCBridge_reuse.cfg` | **violated**: `DevNoncesIncrease`, see below |
| payload_fields | `MCPayload_fields.cfg` | type invariant, `ReadingsArrive`, `StatesArrive`: what is decoded is what the task read, whatever changes meanwhile |
| payload_layouts | `MCPayload_layouts.cfg` | `DetectedUnlessShadowed`: exactly which payloads are taken for another layout; `TextsArrive` |
| payload_shadow | `MCPayload_shadow.cfg` | **violated**: `LayoutDetected`, see below |
| payload_infinite | `MCPayload_infinite.cfg` | **violated**: `InfiniteOmitted`, see below |
| payload_race | `MCPayload_race.cfg` | **violated**: `TextsWhole`, see below |

### Where the code and its comments part

* `virtual_gateway_forwarder.h:41` says of `is_connected()` "PULL_ACK seen within
  3 keepalive intervals". The code subtracts readings of `millis()`; after a
  silence of 2^32 ms on an open socket the difference is small again and the
  indicator is true for three more intervals. `ConnectedUnlessWrapped` is what
  does hold, and its premise `silence < MILLIS_MOD` is this divergence: without it
  TLC finds the silence that wraps. No run of its own is kept for it. The product
  `3 * keepalive_ms_` of the same comparison has 32 bits too: for a keepalive of
  2^32/3 ms (16.6 days) or more it wraps, in the model as in the code, and the
  interval is not three times the keepalive. The runs are below that, and the
  theorems have it as a hypothesis.
* `virtual_gateway_forwarder.h:43-45` says of the counter "Uplink copies confirmed by
  the server via PUSH_ACK (exactly once per uplink". The token of a copy is 16 random bits (`virtual_gateway_forwarder.cpp:276`),
  and nothing keeps it from being that of an earlier copy whose answer is still to come
  (one chance in 65536 for each earlier copy): the earlier answer then matches the new
  copy, is counted for it and ends its retransmission. The premise `~reused` of
  `CountedWereAcked` is this divergence: without it TLC finds an uplink that is counted
  and was not acknowledged, after eight states. No run of its own is kept for it.
* `lorabridge.h:116` says DevNonces must increase across reboots. The nonces are
  saved when `activateOTAA()` returns, some seconds after the request left; a
  reboot in between repeats the DevNonce. `DevNoncesAdvance` is what does hold: it is
  only the last DevNonce, only after such a reboot, and by `UplinksFlow` it costs
  an attempt and no more.
* `decode.js:5` says the decoder detects the layout. It tries boat-v4 first, and
  a payload of boat-v3, boat-v2 or boat parses as boat-v4 whenever its first two
  texts have 7, 8 or 14 characters together: the other three texts then lie where
  boat-v4 has its own. No alarm reason and the state "Storage" are enough for a
  boat-v3. `DetectedUnlessShadowed` shows that this is the only confusion there is
  among payloads that were filled as they were measured.
* `decode.js:31` says that an infinite time (0xFFFF) is omitted. The firmware
  clamps 65535 to 32767 (`lorabridge.cpp:310`), which the decoder takes for a time.
* `README.md:140` says a text is its length and its characters. The texts are read
  once to measure the payload and again to fill it; one that the main task changes in
  between is cut off, written behind the end of the vector, or followed by zeros.
  Most such payloads the decoder refuses, but not all: a payload of the home layout with
  the texts "a", "" and one of three characters that is emptied after it was measured
  is sent with 28 bytes, and parses as a boat with five texts of length zero.
  `ReadingsArrive` and `StatesArrive` show that numbers and states are right even then,
  if the payload is decoded in its own layout.

### Bounds

* *Two uplinks and two tokens* in `copies`: a second uplink is what it takes for
  one to replace another, and for an old answer to meet a new copy; it may draw the
  first one's token or the other. One uplink
  for the liveness of copies: once the last uplink was captured, an older copy is
  over or replaced.
* *`MILLIS_MOD` 3 or 4, timeouts 1 and 2.* The clock wraps many times in a run, so
  every comparison is met on both sides of the wrap. `BoundsAssumption` of
  `MCDiagnostics` says what the numbers must keep to; without it a timeout could be
  jumped over, which the real 49.7 days do not allow.
* *`MaxStall` 1*: a tick may come between any two steps, but a turn of the
  main task does not last longer than that. With the timeouts of 1 and 2 it is as
  long as a timeout, so an expiry during a turn is covered.
* *Keepalive 3 with a clock modulo 3* in the runs about copies: PULL_DATA is
  never sent there, which keeps what `connection` checks out of the state space.
* *No uplinks in `connection`*: the pending copy and the connection share nothing
  but the socket, and `copies` has both tasks on it. A keepalive of 1 and a clock
  modulo 4 there leave room to see three intervals missed.
* *Transfers of up to 6 bytes* in `bus`, each of which may fail: none, one and
  several are among them, and a longer one goes through the same states. A driver
  that takes two devices for the radio, so that a second registration would succeed.
* *Two frequencies and two data rates* in `join`: it takes two to name the wrong
  one. A frame whose channel cannot be set counts as a wasted attempt.
* *Payload lengths 14 and 79*: the shortest and the longest frame the node sends;
  255, in `copies_live`, is too large for the datagram.
* *Three wasted attempts, three reboots* in the runs on the node: enough for a
  reboot in the middle of an attempt, another one in the middle of the next, and a
  refused request after both.
* *Readings* beyond either end of a field of two bytes, at both ends and inside;
  beyond the end of the field of one byte; a position, a position 0/0, and half of
  one. All widths and all readings are in the theorem. `payload_fields` takes two
  assignments and two rounds, so that an entity can keep a value from the first,
  for the longest layout (boat-v4) and the shortest (home).
* *Texts of 0, 3, 7 and 8 characters* in `payload_layouts`, in every order and for every
  layout: their sums are 7, 8 and 14, which confuse three layouts with boat-v4, as
  well as lengths next to these, the word the decoder rewrites, and payloads beyond 51 bytes.
  The texts there change between uplinks only; `payload_fields` has the
  changes in between. Five assignments give each of five texts a value of its own.
* `MaxRounds` ends the behaviours of `UplinkPayload`, whence `CHECK_DEADLOCK FALSE`
  in its configurations; the loop itself goes on.
* `uplinks` and `copies` are counted up to `MaxUplinks`; the loop itself goes on.

### Fairness

`VirtualGatewayForwarder!Fairness`: the main task is scheduled (weak fairness of
`MainTask`; ESPHome calls `loop()` for ever and nothing in it blocks for good:
`getaddrinfo()` times out, the socket is non-blocking). `Tick` is strongly fair,
because `MaxStall` disables it during a turn. `DrainEmpty` is strongly fair: the
server does not keep the receive queue filled for ever; without this
`drain_rx_()` need not return. `ResolveSucceeds` is strongly fair: a name that is
looked up again and again is resolved some time, which is needed only for what is
claimed of a network that stays up. The LoRaWAN task and the network have no
fairness: nobody promises uplinks or a network.

`LoRaBridge!FairSpec`: the task runs and its calls return. That the air and the
power are good at last is in the bounds on `wasted` and `reboots`; that
`setup()` succeeds is the first disjunct of `UplinksFlow`.

`Diagnostics!FairTurnSpec`: as the forwarder's, and `Publish` comes when it is its
turn (weak fairness): it is straight code after a call that returns.

`SPIHal!FairSpec`: the two tasks are scheduled and the driver's calls return (weak
fairness of `Transaction` and `DisplayEnd`: the display draws a frame and is done).
`Acquire` and `DisplayAcquire` are strongly fair: the driver's lock hands a bus that
is given back to a device that waits for it, again and again if need be, and both
wait with no time limit. Nothing is fair in `Start`, `DisplayStart` and `setup()`:
nobody promises that anyone uses the bus.

### Mutants

Operators called `...Variant` stand next to the definition they alter: the code
with a guard dropped, a reset forgotten, a stale time used. They show that each
property can fail: with the variant in the place of the definition TLC finds the
property violated in its own run.

## What is proved

The theorems hold for every number of uplinks, every set of tokens, every
timeout and every modulus of the clock; of payloads, for every reading, every set of
texts and all five layouts. What is assumed of the constants is their types; a
theorem that needs more has it as a hypothesis, which is named below.

**ForwarderProofs.** The invariants the runs check are not inductive, so `Inv` strengthens
them by four parts, proved one action at a time:

* `SocketInv` adds that a received PULL_ACK which is not handled yet came in on the open
  socket (only the top of `loop()` closes it), and that nothing is in hand
  outside `handle`. It gives `PendingHasSocket` and `ConnectedOnThisSocket`.
* `AttemptsInv` ties the number of `send()` calls for the pending copy to
  `pending_retransmitted`, and says that uplinks not captured yet have none. It gives
  `SentAtMostTwice`.
* `AgeInv` says that while a copy is pending, `Elapsed(millis, pending_sent_ms)`
  never exceeds the time that has really passed, unless that is a full timeout
  already. The lemma behind it, `ElapsedTick`, is about one tick of a clock that wraps. It
  gives `RetransmitOnTime`.
* `CountInv`, until a token in use is drawn again, says that only datagrams of the
  pending copy carry its token and that an acknowledgement in hand is for a datagram
  on the wire. `reused` is never taken back (`ReusedStays`). It gives
  `CountedWereAcked`.

**CopiesProofs.** With `SentInv` (answers are only to uplinks that were transmitted)
each action maps to a step of `UplinkCopies` or a stutter under `CopyStatus`:
`DrainRecv` to `Acknowledge`, the matching acknowledgement to `Confirm`, network
loss and `GiveUp` to `Abandon`, captures to `Inject` or `Refuse`. Hence
`CopiesCorrect`: every step that ends before a token in use was drawn again is one of
`UplinkCopies` or a stutter, and a behaviour in which that never happens satisfies
all of it (`CopiesImplemented`). What `UplinkCopies` promises of its own steps
holds of the forwarder until then: one copy waits at a time, only what was
acknowledged is confirmed and the counter is the number of confirmed copies
(`PromiseKept`), and a copy confirmed or given up is never taken up again
(`OverStaysOver`).

**LoRaBridgeProofs.** `SessionInv` (a session is only taken from the accept to
the node's last request, and no request follows it) gives `SessionsAgree`;
`TeeInv` (the tee is on exactly after the join) gives `CopiesAreUplinks`; both
with every fault. `NonceInv` (outside an attempt the flash holds exactly the next
DevNonce; it never lags by more than one) gives `DevNoncesAdvance` when saving and
restoring do not fail, and `DevNoncesIncrease` when besides no reboot interrupts
an attempt.

**PayloadProofs.** The encoder and the decoder as operators, without the steps of a
specification.

* *One number.* `NumbersArrive`: a field filled by `Encoded` and `BigEndian` is read by
  `readInt` as the pattern of `isInvalidSentinel` if and only if there was no reading,
  and otherwise as the reading, clamped. The clamped value lies in the range of the width
  and is never its lowest pattern (`ClampedInRange`); a value in range is its bytes put
  together, the first with its sign (`BytesFromTheEnd`, `FirstByte`, `ReadIntOf`,
  `RoundTrip`). A field that the decoder reads without a sign is in the theorem for
  readings that are not negative; `RoundTrip` says by how much others are read too high,
  and with it that the lowest pattern is recognised there too.
* *The bits.* `BitsRoundTrip`: bit b of the mask that `PackedBits` writes is what
  `BitAt` reads, for any number of states.
* *The layouts.* Each layout's sensors and bits are the first ones of a boat-v4
  (`LayoutSensors`, `LayoutBits`); no number has the name of a bit or of a text. So one
  table, `Offset`, tells where a sensor stands in all of them.
* *What is written.* `WrittenBytes`: numbers, bits and texts stand one behind the other,
  at `Offset`, behind the last number, and where `Starts` says.
* *What is read.* `NumberFields`, `StateFields` and `TextFields`: what the entity of a
  sensor, a bit or a text is shown, for any bytes.
* *Which layout.* `DetectedLayout`: in a payload whose texts start where `Starts` says
  and have no control characters, no other layout before the own one parses, except
  boat-v4, and that exactly when the third of five texts starts where the texts of a
  boat-v4 do. The argument is one about lengths: a byte of a text is at least 32, so that
  read as a length it runs past a payload of 51 bytes or leaves no room for the texts
  that must follow (`NoOtherText`).

The sequences are of any length, so that this needs induction: over the
numbers, sensors, texts and parts that are written. The library's induction theorems
take an operator and cannot be used; `SetInduction` says the same of a set, and follows
from the fact that the order of the naturals is well-founded, which can. `FlattenSeq` and
the decoder's loops are recursive functions, and are replaced by their equations
(`FlattenIs`, `TextStartIs`, `SensorBytesIs`).

**UplinkProofs.** The specification `UplinkPayload`: the task that measures, then
reads and fills, while the main task changes the states, and the decoder at the other
end. `PayloadTypeOK` is not inductive. `Inv` adds:

* `ReadOK`: what has been read is a list of readings, a list of bits and a
  list of texts, complete when the task has gone on to the next kind. Without it nothing
  is known of the bytes that are sent.
* `SizeOK`: `total_size` has room for the numbers and the bits, and once the task fills
  the payload it is at most `MaxPayload`. The texts may have grown since they were
  measured; numbers and bits are in front of them, and so are whole whatever happens.
* every field has an entity.

`Invariant` proves it, one action at a time, and `TypeCorrect` follows: no entity shows a
number that its field cannot carry, even when the payload has bytes of two texts or was
taken for another layout. `ReadingsArriveCorrect` and `StatesArriveCorrect` follow from it
with `FilledPayload`: numbers and bits stand where the decoder looks for them. They have
no hypothesis: texts may change between the two passes, and may contain anything.
`DetectedCorrect` and `TextsArriveCorrect` assume `Printable`: no byte of a text is below
that of a space. The entities are words that a person reads, whose UTF-8 has no other
bytes; without it the properties are false, since a control character can be the length
of a text in another layout. The texts of `MCPayload` satisfy it.

**DiagnosticsProofs.** `SilenceInv`: until a silence has lasted `MILLIS_MOD` ticks,
`Elapsed(millis, last_pull_ack_ms)` is exactly its length. `ConnectedUnlessWrapped`
alone is not inductive, since it speaks of a comparison and a tick changes the
number. The lemma behind it is `ElapsedTickExact`, about one tick that does not
wrap. `IndicatorCorrect` holds for every clock and for every interval that fits it
three times, so that the product does not wrap.
`TurnsAreForwarders`: a behaviour of `TurnSpec` is one of the
forwarder's `Spec`, so that everything above holds in whole turns. `ShownInv` adds
that what is shown is what was published last; with `SilenceInv` it gives
`CounterShown` and, for the same intervals, `ConnectionShown`.

**CopiesProofs**, second part. `AgreeInv` ties the datagrams on the wire to the
copy still pending: those of the same uplink have the same token, and until a token in
use is drawn again those of the same token are of the same uplink.
`DatagramsCorrect` needs that no frame is too large (`FramesFitHere`, which
`FramesFit` shows of the frames this node sends): the early return of
`on_uplink_captured()` overwrites the buffer of a copy that is still pending.

**CaptureRadioProofs.** `RadioIsNode` carries the node's theorems over. `NotedInv`:
when a frame can be sent, what was noted is what the chip is set to, whatever
failed before, because a failed call ends the attempt. It gives `ChannelCorrect`.

**SPIHalProofs.** `TransactionInv` says, from where RadioLib is, what chip select is
and that the flag is set exactly when there is a device; `HolderInv` that flag and
driver agree, and that the display is not drawn in `setup()`, where the radio may be
spoken to without a device. They give `BusReturned`, and with them each step maps
to one of `SharedBus` or to none (`BusCorrect`): `Lower` to `Begin`, `Raise` to `End`.
`BusExclusive` states what that is for: radio and display are never both in the
middle of a transaction.

**Only model-checked:** the liveness properties (`CopiesResolved`,
`SocketFollowsNetwork`, `KeepsAlive`, `SilenceShows`, `NetworkLossShows`, `UplinksFlow`,
`BusServed`): liveness under fairness is out of the prover's reach. Every other property
of a passing run is a theorem.

## What is not modelled

* The bytes of the packets, the gateway's EUI, and the metadata of the rxpk: no
  property depends on them.
* The configuration schema and code generation: they run at build time and have no
  state; what they guarantee is used as bounds.
* The release workflow: a job on a service, no part of the device's program. Its
  steps run in order; two pushes in quick succession may compute the same version,
  and git refuses the second tag.
* RadioLib, the ESPHome preferences, lwIP, FreeRTOS: not in the repository.
* The divisors and the metadata of the decoder's fields; the rounding of floats, and
  `llround` beyond 64 bits.
* The functions of the HAL that pass a pin, a time or an interrupt on to Arduino, and
  the level of chip select before `setup()` has set it.
* Time in seconds: the product of the uplink interval and the tick rate, which can
  overflow in 32 bits, is a matter of FreeRTOS's macro.

## Plan

Done: 1. the forwarder, its abstract specification, its proofs and the
refinement; 2. the node with its nonces and the tee, with proofs; 3. the encoder
and the decoder, an uplink from end to end, and the theorem about its numbers;
4. `Diagnostics`: `LoRaBridge::loop()` composed with the forwarder; 5. `SPIHal` and
`SharedBus`; 6. `CaptureRadio`: the radio under the node; 7. proofs about 4 to 6, and
`ConnectedUnlessWrapped` and `SentDatagramsAgree` as theorems.

8. `UplinkProofs`: the properties of an uplink as theorems, with the layouts, the
positions and the texts proved in `PayloadProofs`.

Left: what `Phase 2` of `capture_radio.h:33` announces, once it is written: downlinks
injected into a receive window.
