# diyps3controller: specification and proofs

The repository makes other devices look like a PlayStation 3 controller. Its
programs with behaviour of their own are

* the **game pad firmware** (`ps-2/`): a PS/2 keyboard and a PS/2 mouse become one
  USB game pad. On an AVR without an operating system, one main loop, two clock
  interrupts (one for each PS/2 port), a millisecond timer and two USB
  interrupts share some hundred bytes of memory;
* the **pairing emulator** (`tools/sixpair-emu/`): a second firmware, on the LUFA
  library, that poses as a controller at the console's USB port until the console
  has told it its Bluetooth address, and two programs for the PC that talk to it;
* the **L2CAP proxy** (`tools/l2cap_proxy/`): a process that sits between a console and
  a controller and relays their Bluetooth packets.

These modules model the three, the devices, hosts and peers at their ports as far
as the code relies on them, and what their users may expect.

`X:n` is line n of file X; `MouseDriver.c`, `KeyboardDriver.c`, `usb_joystick.c` and
`PS3Controller.c` are in `ps-2/`, `sixaxis_pair_emu.c` and the library in
`tools/sixpair-emu/`.

## 1. The system

| part | state | operations | talks to |
| --- | --- | --- | --- |
| ring buffer (`RingBuffer.c`) | storage, `in`, `out`, `elements` | initialise, add, get, test | filled by a clock interrupt, emptied by the main loop |
| PS/2 receiver (clock interrupts in `MouseDriver.c`, `KeyboardDriver.c`) | `bit_n`, `buffer`, `error` | one bit for each clock edge; `SendByte` and `KB_Send` take the clock line away from the device | device; ring buffer |
| mouse driver (`MouseDriver.c`) | `ms_filter`, `ms_packet`, `ms_config`, `ms_dispatch`, `ms_trigger` | `EventFilter`, `MS_MouseReset`, the setters, `EventDispatcher`, `MS_EventTask`, timer | mouse; report |
| keyboard driver (`KeyboardDriver.c`) | prefixes, last byte, retries, LEDs, heartbeat | `KB_GetScancode`, `KB_KeyboardEventFilter`, `KB_EventTask` | keyboard; report; mouse driver (key M) |
| USB joystick (`usb_joystick.c`) | the report, `usb_configuration`, registers | `usb_joystick_send`, USB_GEN, USB_COM | host |
| main loop (`PS3Controller.c`) | | initialisation, wait for the host, reset of the mouse, then keyboard task and mouse task in turn | all of the above |
| pairing emulator: control requests (`sixaxis_pair_emu.c`, LUFA `DevChapter9.c`, `Endpoint.c`, `Template_Endpoint_Control_W.c`) | identity in EEPROM and RAM, `VolatileMasterBdaddr`, `reply`, `last_set_data`, configuration, address, endpoint 0 | `USB_USBTask`: GET and SET_REPORT, SET_ADDRESS, SET_CONFIGURATION, the stream functions and the waits for the status stage | console; `sixpair.c`; `sixp-emu-cust.py`; interrupt |
| pairing emulator: reports (`HID_Task`, `SendNextReport`) | `IdleCount`, `IdleMSRemaining`, `PrevSixaxisReportData`, `SendReport`, endpoint 1 | one press of the PS button; the idle period | host; interrupt |
| LUFA bus interrupt (`USBInterrupt.c`) | `USB_DeviceState`, enabled interrupts | reset, suspend, wake-up, start of frame | both halves of the emulator |
| L2CAP proxy (`l2cap_proxy.c`, `l2cap_con.c`) | four sockets, `read_set`, one buffer, `done` | listen, accept, connect, the loop over `select`, signal, closing | console; controller |

What is hard about it:

* Interrupts run between any two instructions of a main loop, and the loop
  depends on what it read before: the ring's test and get, the trigger's test
  and clearing, the endpoint selector `UENUM`, which every USB interrupt moves, the
  two bytes of `IdleMSRemaining`, the configuration number that `USB_DeviceState` is
  computed from.
* The conversation with a PS/2 device is a protocol. Its answers come through the
  same ring as key codes and movements, and can be old, lost or repeated.
* `usb_joystick_send` may hold the main loop for 50 ms, in which the rings (two
  and eight bytes) overflow and timers run out.
* A USB host may give a control transfer up at any point and begin another, reset
  the bus, or lose power. Endpoint 0 and the one request header are shared by all
  transfers, and several waits, in both firmwares, look for one event only.
* The identity is written to EEPROM in three blocks after the host was told of
  success.
* The proxy has one buffer for four directions, answers of `select` that may be
  stale when they are used, and peers that hang up whenever they like.
* Arithmetic on bytes: scaling of movements, indices, frame numbers modulo 256.

What makes each part correct:

* ring buffer: bytes come out once, in order, and are lost only when it is full;
* receiver: in step with the device, and nothing queued that was not sent;
* mouse driver: streams only from a mouse it has configured, never sends an
  argument as a command, puts packets together from one packet, comes to the end of
  its handshake, and brings a deflected stick back when the mouse stops; its curve
  is monotone and symmetric;
* keyboard driver: the report follows the keys, the LEDs agree, the heartbeat goes on;
* USB joystick: a report goes to its endpoint, interrupts are left as found, the
  call returns unless the host leaves an interrupt handler waiting, and a host that
  polls knows the state of the controls;
* pairing emulator: a completed transfer means what it says, the identity is never a
  mixture as long as the power stays on while it is written, a host that is not in a
  hurry is always served, and the console ends up with its own address stored; the one
  press of the button is seen, and the idle period is kept;
* proxy: packets go to the other side of the same channel, in order, never twice;
  every one is handled; all four links end together.

## 2. The modules

```
LossyFifo  <-- implemented by --  RingBuffer
PS2Receiver            the wire: bits, frames, resend requests, commands
MouseDriver            bytes: reset handshake, configuration, packets; the mouse
KeyboardDriver         bytes: prefixes, LED dialogue, keys; the keyboard, its user
VectorScaling          arithmetic of one axis
  `-- MouseReport      packets to report, idle trigger and timer
UsbJoystick            usb_joystick_send, USB interrupts, host

SixaxisPairEmu         control requests, identity, bus events; the hosts
SixaxisReports         reports, idle period, start of frame; a host that polls

L2capProxy             the process, its sockets and their peers
```

The modules of the game pad are layers. `PS2Receiver` justifies that the modules above
it see bytes that arrive once, in order and undamaged, and that a byte sent to a device
cuts off what it was saying; `RingBuffer` justifies that they use a queue that drops
what finds it full. The two modules of the emulator share the bus events,
SET_CONFIGURATION and one wait: `SixaxisPairEmu` looks at endpoint 0, `SixaxisReports`
at endpoint 1, and a bus reset in the middle of a report makes its bytes go to endpoint
0, which both model (`blind` in the one, `Hung` in the other). `MC*.tla` give TLC its
constants, `*_proofs.tla` hold the theorems.

Operators whose definition is followed by `\* mutant` are not part of a model.
They are wrong versions of the operator after them (an off-by-one, a dropped
guard, a missing reset) and show which property notices.

**RingBuffer.** One variable for each field. `RING_AddElement` and
`RING_GetElement` are `ATOMIC_BLOCK`s, so each is one step; `RING_HasElement` is
outside, so the consumer is two steps. `accepted`, `delivered` and `lost` are
history variables. `Contents` reads the storage from `out` on and is the
refinement mapping to `LossyFifo`.

**PS2Receiver.** `ClockInterrupt` is the handler, one falling edge a step, by the
value of `bit_n`. A byte is the set of its bits. `bit_is_set` returns the masked
port, so it depends on `DataMask`: 1 for the mouse (bit 0), 2 for the keyboard
(bit 1). `MaskClock` and `TransmitCommand` are the two halves of `SendByte`:
between them the interrupt is off and the device still owns the clock, so an
edge may go by (`UnseenEdge`). One bit of a frame may be flipped, except the start
bit: the interrupt ignores an edge with a high start bit, stays one bit behind the
device, and has no timeout that would bring it back (MouseDriver.c:839). The model
leaves that out.

**MouseDriver.** `state` is the index into `ms_state_table`, whose rows are
pairs here. `EventFilter` is `Advance` (the expected byte came), `Retry`, `GiveUp`,
and in the streaming state `Skip` and `Gather`. A reset (`MS_MouseReset`, also by
the key M, and the three setters) leaves the ring, the packet gathered so far and
the retry counter, as the code does. `env` holds what does not change: whether
the mouse has a wheel, whether the main loop handles a byte before the next one
comes, and how often the mouse moves and the main loop asks for something. The mouse
is external: it knows the commands the driver uses.

**KeyboardDriver.** `KB_EventTask` takes at most one byte. `TakePrefix` and
`TakeCode` are `KB_GetScancode`; `Dialogue` is the first part of
`KB_KeyboardEventFilter` (LEDs, retries), `KeyPress` and `KeyRelease` its switch.
`SendAgain` keeps the two increments of `kb_retry` of lines 191 and 195, and its
wrap-around. `Beat` is the heartbeat (lines 113-117): `kb_led_delay` is counted
down by polls that find no code and started again by the heartbeat alone, so it may
fire at any of them, also between the prefixes of a code and in the middle of a
lock key's dialogue, when an FA or FE is still on its way. The keyboard has two
things to say, `answers` to the last command and then `codes` of its keys. A command
makes it drop the former; the latter it repeats afterwards or forgets, and
`disturbed` remembers that a code may have been cut.

**MouseReport.** Begins where `MouseDriver` reaches its streaming state. `Poll`,
`Check`, `Clear`, `Recentre` are the steps of `MS_EventTask`: the timer interrupt
is off at `Clear`, the clock interrupt is not. `MS_ClockInterrupt` delivers one
byte and reloads timer and trigger. The bytes of a packet are numbers, so a byte
that is taken for a header has the meaning it would have. `said` is the packet
the mouse sent last. The timer does not tick between lines 184 and 190, which
take microseconds. The code under `FARCRY2` is not compiled by the Makefile.

**UsbJoystick.** `usb_joystick_send` is one step for each access to shared state.
USB_GEN is two: the hardware may raise a flag between its reading UDINT and its
clearing it. USB_COM reads and clears the SETUP (`ReadSetup`) and then does what the
request asks (`Serve`), reduced to what that is to `UENUM`, to the configuration and
to the endpoint; the requests that are answered (`Answered`) wait for the host first,
with interrupts off and without a limit (usb_joystick.c:400, 476-479, 492, 514, 521,
556, 562). The hardware and the host go on meanwhile: frames pass, the bus may be
reset, the next SETUP may come. A host that is not `patient` need never take the
answer. The endpoint has two banks. `patient` hosts read the endpoint in every frame,
finish their control transfers and never unconfigure; all others do what they like.

**SixaxisPairEmu.** `USB_USBTask` reads and recognises a request and clears its
SETUP in one step (`Dispatch`); from there every iteration of a wait loop is a step,
and the host or the bus interrupt may come in between. `in` and `out` are the two
loops of the stream function: the first is left for a new SETUP, the second, like
the wait for the data of SET_REPORT and the one in SET_ADDRESS, is not. `Finish`
is the end of `USB_Device_ProcessControlRequest`: a SETUP that is there is stalled,
but after SET_CONFIGURATION, whose event selects endpoint 2, it is not seen, stays,
and is handled in the next round, with the acknowledgement of the transfer that was
given up still in the IN bank. `HID_Task` is the time a report takes: a bus reset in
it leaves endpoint 0 selected, and `Endpoint_WaitUntilReady` then waits for an OUT
packet there (`blind`). `TimesOut` is that wait's time-out: it counts frame flags
that the interrupt of the frame clears (USBInterrupt.c:158), so it sees one only by
coincidence. It may happen and is not fair. `stray` is the history of the two
packets that are in the IN bank on nobody's behalf: that acknowledgement, and what
`Endpoint_ClearIN` sends after the time-out.
Hosts follow a script: the order of requests in `sixpair.c`, in `sixp-emu-cust.py`,
and for the console the order the comments of the handlers describe (enumeration,
the device's address, the dummy address, setting the master, reading it back); the
fourth asks for anything in `Whims`. Each may give transfers up, reset, suspend or
pull the plug, `MaxFaults` times in all. Reports with a fixed content take the way
of `GetDevice`, settings that are only stored and read back are one kind. A missing
address in EEPROM is not replaced by a default, a missing vendor or product is, as
in the code.

Assumed of the hardware: a SETUP is always taken, empties the IN bank and ends a
STALL; whether the OUT bank survives it is left open; IN and OUT are refused
while a SETUP is pending; a bus reset clears endpoint 0 and the address; the board
is bus powered, so the exits on the state Unattached are left out (without VBUS it
is off).

**SixaxisReports.** `main()` with its two loops of 2000 and 1000 iterations and the
last, endless one; `HID_Task` in the steps `Compare`, `ReadFirst`, `ReadSecond`,
`WriteFirst`, `WriteSecond`, `Select`, `Test`, `WaitUntilReady`, `Write`;
SET_CONFIGURATION, to 0 too, in the order of DevChapter9.c: the number and the status
stage, the number read again, the state (line 202), the event that sets up the
endpoints and the interrupt of a frame (line 204). The idle counter has two bytes
and the compiler may access them in either order, so the interrupt of a frame
(`Millisecond`) finds one half read or written; `torn` remembers that it did. A
reset empties the bank and selects endpoint 0. A main loop that was about to write
its report then waits for an OUT packet that never comes (`Hung`); it leaves the wait
by the time-out (`TimesOut`, not fair), and the report is lost, or stays in it.

**L2capProxy.** Start-up, one step for each call that may fail or wait; the
loop, one step for each `select`, `recv` and `send`; the closing. A packet is the
socket it came in on and its number there. A signal makes `select` return with
`read_set` as it was handed in, so that every socket is taken for readable; `recv`
then finds nothing and sets `done`. What the kernel does (room, hang-up) is
external.

## 3. The runs

| run | question | answer |
| --- | --- | --- |
| `ring` | is the shared ring a lossy FIFO, and is everything in it delivered? | yes |
| `ps2_mouse` | do interrupt and mouse stay in step, is only queued what was sent, with one damaged bit and one command at any moment? | yes |
| `ps2_keyboard` | the same bit flip at the keyboard | **no**, see 3.1 |
| `mouse` | may stale or lost bytes lead the filter past a command the mouse did not get? Does the handshake end, also with resets and new settings in between? Are packets put together from one packet? | no; yes, if the main loop keeps up: a wheel mouse then streams, and is not given up for up to three resets (see 3.1); yes, unless a reset comes in between |
| `mouse_reset_mid_packet` | are packets put together from one packet? | **no**, see 3.1 |
| `usb_send` | right endpoint, interrupt flag restored, does the call return, is a host that polls up to date? | yes, as long as frames keep coming and no host leaves USB_COM waiting for ever |
| `usb_reset_lost` | does every bus reset unconfigure the device? | **no**, see 3.1 |
| `keyboard` | does the report follow the keys, do driver and keyboard agree on the LEDs, does the heartbeat go on? | the report: yes, as long as no code is cut; the rest: yes, also while heartbeats and lock keys overlap |
| `mouse_report` | does the stick always come back to its centre, and is the report otherwise what the mouse last said? | yes |
| `sixpair` | does a completed transfer mean what it says, is the identity whole, does the console get its address stored? | yes, but for power lost in the middle of the three blocks and two stray packets; a host that gives a transfer up, or resets the bus, at the wrong moment may hang the device |
| `six_reports` | is the idle period kept, the press seen, the host up to date in the end? | yes, but for torn accesses to the counter; a reset in the middle of a report may hang the device |
| `l2cap_proxy` | does every packet reach the right peer in order, is every one handled, do the links end together? | yes; packets for a full socket are dropped |

### 3.1 Disagreements

* **Parity of the keyboard** (`ps2_keyboard`, KeyboardDriver.c:549). The keyboard's
  data line is bit 1 of its port, so `bit_is_set` returns 0 or 2 and is compared
  with a parity of 0 or 1. A parity bit received as 1 is never found wrong: a
  damaged byte is queued. The mouse is on bit 0 and has no such problem.
* **A reset in the middle of a packet** (`mouse_reset_mid_packet`,
  MouseDriver.c:576). `packet.size` survives `ResetState`, so the next packet
  completes the old one and all that follow are put together from two, until a
  byte with bit 3 clear comes where one begins.
* **Lost bus reset** (`usb_reset_lost`, usb_joystick.c:384). `UDINT = 0` clears all
  flags, also one that was raised after the read, by a handler that was started
  for a start of frame. The device goes on as if it were configured.

Without a run that expects a violation. No property takes the side of the code
against a comment: what is disputed is left open, or kept apart, by the property named.

* **Standard mouse** (MouseDriver.c:258). Lines 56-58 say that a mouse without a
  wheel is used as a standard mouse. The filter accepts id 3 only; it resets the
  mouse until its retries are used up and never has it report. `HandshakeEnds` says
  what a wheel mouse ends up with; of a standard one it says only that the handshake
  ends.
* **Scaling** (MouseDriver.c:251). Line 653 says scale 1 is 2:1; line 251 sends the
  command for 1:1. `StreamingMeansConfigured` compares resolution, rate, wheel mode
  and reporting, and leaves the scaling out.
* **A handled request is stalled** (DevChapter9.c:118). Events.h:205-206 says that
  requests are stalled if they are not handled; a SETUP that arrives while the
  previous request is being handled is stalled too. `NoHarmIfPatient` shows that it
  takes a host that does not let the main loop come round.
* **Blind waits** (Template_Endpoint_Control_W.c:38, sixaxis_pair_emu.c:374,
  DevChapter9.c:133, Endpoint.c:100-134). A host that gives a transfer up in one of
  the first three and begins another, or resets the bus between line 513 and line 525
  of sixaxis_pair_emu.c, leaves the main loop in the wait for ever: `Stuck`, the one
  exception in `PairsUnlessStuck`, and `Hung`, the one in `HostUpToDate` of
  `six_reports`.
* **Stray packets** (sixaxis_pair_emu.c:214, 525). The acknowledgement of a
  SET_CONFIGURATION that was given up is handed to the next request, since the test of
  DevChapter9.c:118 looks at endpoint 2; after a reset in a report whose wait does
  time out, the report is finalized in endpoint 0. `CompletedMeansServed` leaves out
  these two packets (`stray`) and no other.
* **USB_COM waits with interrupts off** (usb_joystick.c:400, 476-479). A host that
  begins a control transfer and leaves it stops the main loop, the rings and the
  timers: `LeftWaiting`, the one exception in `SendReturns`.
* **Wrong state after a reset** (DevChapter9.c:202). A reset between reading the
  configuration number and writing the state leaves the device `Configured` with
  no configuration; `ConfiguredAgrees` excludes exactly that window.

Seen while modelling, in no property:

* The retry counter survives a reset; only a movement packet clears it. A byte on the
  way when a reset is asked for is mistaken for an answer to it and costs a retry, and
  so do two bytes at power-up. Four resets in a row right after power-up may thus use up
  all five and a wheel mouse is given up (MouseDriver.c:258); `NoFalseAlarm` says that
  up to three do not.
* Two damaged frames in a row: the second is not asked for again, `bit_n` and
  `buffer` stay as they are, and a byte made of two frames may be queued
  (MouseDriver.c:854). `ps2_mouse` therefore has one damaged bit.
* The comment at MouseDriver.c:178 says that the analog controls are reset when the
  mouse stops; the code also releases the direction and R2 and L2, which the
  keyboard may be holding. A and D drive one axis: releasing one while the other
  is held centres it.
* A wheel step of -128 is taken for +128 (MouseDriver.c:403). A movement of -256
  without the overflow bit would have the absolute value 0; no mouse reports it.
* `last_set_data` has 64 bytes, and the copy into it is as long as the request says
  (sixaxis_pair_emu.c:380-383). The hosts of the model stay within the 64.
* While the bus is suspended, `usb_joystick_send` waits until the host resumes.
* GET_REPORT reads the report from an interrupt while the main loop changes its
  bytes one after the other (usb_joystick.c:557).
* The heartbeat may cut a release in two: the code after F0 is then the keyboard's
  acknowledgement, and the key's own byte is taken for a press.
* At rest the vertical axis is 128 after the trigger and 127 after a packet
  without movement (MouseDriver.c:368).
* sixaxis_pair_emu.c:57 says that the address of the master is read from EEPROM at
  startup; it is never read from there nor written to it.
* sixaxis_pair_emu.c:149 has the button pressed for half a second; the loop takes
  1000 iterations of at least a millisecond.
* `last_set_data` is one buffer for all reports that are set, so report 0xEF may
  echo another report's data (sixaxis_pair_emu.c:309).
* The proxy listens on the data channel only when the control channel has been
  accepted, so a controller that is quick is refused; a signal during `accept` takes
  effect only when a controller has connected.

### 3.2 Bounds

* `ring`: two slots as in the mouse driver, six bytes of two kinds: both indices
  go round three times, the ring is full and empty in between.
* `ps2_mouse`, `ps2_keyboard`: two bytes, of even and odd weight, one damaged bit
  anywhere; for the mouse one command at any edge: what a resend request does to
  the byte before and the byte after.
* `mouse`: the ring has its real size, 2. Movement bytes are 0 (also the id of the
  mouse, bit 3 clear) and 250 (also the acknowledgement, bit 3 set), so that stale
  movement bytes can be mistaken for answers and the other way round. Five cases: a
  main loop that keeps up, with three packets and two requests at any time (the key
  M, or a new setting that differs from the default); the same with three requests and a
  mouse at rest, which uses up all five retries; one that stalls anywhere, with one
  packet and one request; both with a mouse without a wheel, too. `mouse_reset_mid_packet`
  needs the first case only, with one request.
* `keyboard`: a key with and without E0 of the same code, a direction, a lock key, and
  heartbeats, without a bound, at any poll that finds no code;
  three presses or releases; a ring of two bytes instead of eight; one repetition
  and a second limit of three instead of 4 and 8; three damaged commands, so that
  both limits are reached.
* `mouse_report`: three packets out of a move with the left button, a fast one whose
  position would wrap a byte if it were not cut off, a turn of the wheel; the timer
  counts two milliseconds instead of 15, less than the bytes of a packet, so that it
  trips inside one too.
* `usb_*`: frame numbers modulo 3 and a wait of 2 instead of 256 and 50: a wait
  wraps, and may be skipped when one interrupt lasts longer than a frame; three
  updates fill both banks; two resets or requests, so that one can come while USB_COM
  still waits with the one before.
* `sixpair`: two faults, so that a transfer that was given up can be followed by a
  reset, or a reset by another in the window it opened; every host; the host that
  asks for anything has one request for each way through the firmware.
* `six_reports`: a byte has four values, so that a counter of two bytes borrows; the
  first idle period is 5, more than a byte holds; two iterations before the press
  and three during it. The press must be longer than the host's interval plus one
  frame for the report before it: in the code 1000 ms against at most 255.
  Durations of 0 (no repetition) and 1; one fault.
* `l2cap_proxy`: one packet for each socket that is not fetched and two packets in
  all: enough for a full socket, for two in one pass, for one still waiting when
  its peer hangs up.

`CHECK_DEADLOCK FALSE` where the system ends because of a bound or by itself:
`ring` when all bytes were offered and taken, the receiver when its script has been
sent, `sixpair` when the scripts and faults are used up, `l2cap_proxy` when the
proxy has exited.

### 3.3 Fairness

* A main loop is weakly fair everywhere: it is an infinite loop on a processor
  that no one stops. A ring's producer is not fair.
* A PS/2 device that began to send goes on (`WF` of `Deliver` and of the clock
  interrupt): it clocks out what it has.
* The heartbeat's delay runs down: it is decremented by each poll that finds
  no code. That it fires when a prefix was taken is possible, not fair.
* The millisecond timer is strongly fair, since it is off for moments again and
  again (`MouseReport`). USB interrupts of `UsbJoystick` are strongly fair, since the
  sender turns interrupts off and on in its wait (`SF` of USB_GEN and of `ReadSetup`);
  a handler that does not wait for the host ends (`WF` of `Serve`). The wait of USB_COM
  ends only for a `patient` host (`WF` of `patient /\ Answered`).
* Frames follow each other every millisecond: the bus is not suspended. A host
  polls only if it is `patient`; nothing is assumed of any other.
* `SixaxisPairEmu`: a host goes on with a transfer, resets a device that is new or
  does not answer where it expects it, and ends a suspension. What counts as a fault
  is never fair. A SETUP gets its turn between the reports (`SF` of `Dispatch`: main()
  calls `HID_Task` and `USB_USBTask` in turn, the model leaves their order open).
  `TimesOut` is not fair. `PairsUnlessStuck` also assumes the console is the host in
  the end.
* `SixaxisReports`: time passes, the host reads within its interval and wakes a bus
  it suspended; it configures an unconfigured device, with strong fairness, because
  the main loop handles its request in one of many rounds only. Nothing makes the wait
  on endpoint 0 time out.
* `L2capProxy`: the process gets the processor, nothing else. Peers need not connect,
  send or fetch, so a proxy that waits in `accept` for ever is no violation.

## 4. What is proved

The proofs hold for every value of the constants that satisfies the named
assumptions, so for rings of eight bytes, 256 frames, waits of 50, bytes of 256
values, and any number of bytes, packets, commands and faults.

* **RingBuffer_proofs.** `AlwaysWellFormed`, `TestThenGetIsSafe`,
  `RingImplementsFifo`, `RingConserves`. The inductive invariant is type
  correctness with the agreement of the indices and `YesIsStable`: `in` alone says
  nothing about where the next byte goes in the queue. The refinement is shown step
  by step: adding is `Append` to `Contents`, getting is its `Tail`.
* **PS2Receiver_proofs.** `TypeCorrect` for any bounds and port bit; `KeepsStep`
  (`Aligned`) and `DeliversFaithfully` (`Faithful`) for a clean line with any port
  bit, and for one damaged bit with the mouse's. The strengthening says what the
  buffer holds: the data bits the device has sent so far, or, once one was damaged,
  all but that one, with the parity bit still to come and no error pending. The
  lemma that a flipped bit changes the parity does the rest.
* **MouseDriver_proofs.** `TypeCorrect`, `AlwaysUnderstood` (`NeverConfused`),
  `StreamsOnlyWhenConfigured`, for a main loop that stalls anywhere, every ring and
  every content of it. The strengthening `Told` pairs the state of the filter with
  what the mouse has been told: whatever a stale byte is taken for, each step on
  sends the next command, and a byte that was lost only keeps the filter where it is.
  `StopsAtId` is needed for a mouse without a wheel, whose id would have to be 3 for
  the filter to go on: no answer of such a mouse is a 3, so it is never told to report,
  and no packet can bring a 3 either.
* **MouseDriver_proofs**, second half, for a main loop that keeps up:
  `NeverAFalseAlarm` (`NoFalseAlarm`) and `PacketsStayWhole`
  (`PacketsIntactUnlessReset`). Neither is inductive, for both depend on which bytes
  are on the way. The strengthening `Timely` says it: at most one byte is in hand, in
  the ring or at `EventFilter`, and the filter is *in step* (what is in hand or comes
  next is `First` of its row, and the mouse has the `Rest` to say), or *late* by one
  byte that came before the last reset, or, when the driver starts, *very late* by
  two, or done with the table. A row that answers puts in `out` exactly what the next
  row waits for (`AnswerRow`), one that does not leaves it (`SilentRow`). Each late
  byte costs one retry and each request makes one byte late (`Accounted`), so five
  retries are enough for the two at the start and three requests. For the packets
  `Framed` puts the bytes gathered, in hand and still to be sent in one line:
  it begins where a packet begins, each byte is the one after its neighbour, and its
  length is a multiple of four. Deliveries and polls move the places in this line and
  not its bytes; the mouse adds four at its end; `Gather` takes four off its front.
* **MouseReport_proofs.** `PositionIsByte`, `AlwaysLeavesDeadZone`,
  `CurveIsMonotone`, `CurveIsSymmetric` are about the arithmetic of `VectorScaling`, for
  every movement a mouse can report: `Val` is the function `Curve` of the signed
  distance, and its pieces are compared. `TypeCorrect`, `TriggerAfterSilence`,
  `NoTripGoesAstray`: `DeflectionHasDeadline` is not inductive, since a packet may
  deflect the stick long after its bytes came. `BytesAreTimed` adds that as long as a
  byte waits in the ring the trigger is due, and that a byte that came between the
  test and the clearing of the trigger has reloaded the timer. `AlwaysFollows`
  (`ReportFollowsMouse`) has one hypothesis, `WellBehaved`: a header has bit 3 set and
  the two movements are ones a mouse reports. It is an assumption about the mouse, not
  about the driver, and TLC evaluates it for the packets of its run. The argument is
  again a line: as long as no byte was lost, `packet`, `ring` and `out` in a row are
  one sequence that is cut at every fourth byte, its last four bytes are `said`, and
  when the line is empty the report shows `said`, unless the trigger has tripped.
* **KeyboardDriver_proofs.** `TypeCorrect`, `AlwaysFollows` (`ReportFollowsKeys`),
  `AlwaysAwaited` (`LedStateIsAwaited`) and `AlwaysAgree` (`LedsAgree`), for every set
  of keys, with and without E0, and any number of events, faults and heartbeats. What
  is under way is one line again (`Line`): the prefixes seen, the ring, the answers and
  the codes of the keyboard. A delivery and a prefix taken leave it as it is; a code
  taken cuts it off at the front; the user adds a code at the end; a command replaces
  the answers there. As long as no code was cut, the line is `Whole` (each prefix is
  followed by what it announces), and so nothing is read differently where two parts of
  it meet (`Parted`). `Traced` says that it tells the story of each key: after a code
  that makes it the key is down or a break follows, and the other way round. `Told`
  ties the report to it: what is shown is down or will be broken, what is down is shown
  or will be made. For the LEDs, `Awaited` says that without a fault the keyboard asks
  for nothing again, so nothing but FA follows a request; `Agreed` says that a request
  the driver has sent is still to be answered, that the state sent last is lit or will be
  asked for again, and that it is never given up silently. The last part is why
  `Resends + 1 < Resets` is assumed (4 and 8 in the code): the two tests of lines 191
  and 195 share `kb_retry`, and with limits next to each other the driver would fall
  silent with the LEDs in disagreement and no reset sent.
* **KeyboardDriver_proofs**, at the end, on the call the report goes out by:
  `SenderWellFormed` (`UsbJoystick`'s `WellFormed`) and `ReportsGoRight`
  (`RightEndpoint`). The module extends `UsbJoystick` too, whose specification is
  therefore called `UsbSpec`; the two components have no variable in common. The
  strengthening ties the sender's place to the flag and to `UENUM`: from `select` to
  the write the flag is off, so no interrupt comes in between, and the saved flag is on
  wherever it will be restored.
* **SixaxisPairEmu_proofs.** All five safety properties of its run, for every set of
  identities and of requests of the wild host and any number of faults:
  `AlwaysWellFormed`, `IdentityAlwaysKept`, `PatientIsServed` (`NoHarmIfPatient`),
  `ConsoleIsPaired` (`PairedMeansMaster`) and the action property
  `CompletedAlwaysServed` (`CompletedMeansServed`). One inductive invariant carries
  them. Its parts say which request is in hand at each place of the main loop and what
  each place has done for it; what the two banks of endpoint 0 may hold (`Banks`); that
  firmware and host are in step whenever the host may take something out of the IN bank
  (`InStep`: a transfer given up before left nothing there, because the next SETUP
  emptied the bank and the bank stays empty until the old request is acknowledged),
  unless the packet there is a stray one; where the device may be addressed
  (`Addressed`); that state and configuration agree but for the window of
  DevChapter9.c:202 (`Agreed`); how far the three blocks in EEPROM are (`Whole`); where
  a host that never hurried finds the main loop (`Patient`); what a console at each step
  of its dialogue has been told (`Pairing`); and that a stray packet is empty, takes a
  host that hurries, and reaches a console at the start of its dialogue only or where
  its SETUP will be refused (`Strayed`). Each is needed by another: a console that has
  read its own address back did so in a transfer in step, for which the banks must be
  known, which in turn depends on the place of the main loop.
* **SixaxisReports_proofs.** `TypeCorrect`, `PeriodAlwaysKept`. The invariant
  `Accounted`: what is left of the counter and the frames that have passed make up
  the period, unless an access was torn; and while the main loop is between its two
  accesses and no frame came, the half in its hand is that of the counter. A counter
  of two bytes is its halves for every number of values of a byte (`Halves`,
  `Joined`).
* **L2capProxy_proofs.** `RelaysInOrder`: the packet in the one buffer is newer than
  any packet of its direction that was passed on, so appending it keeps the order,
  and the test of the room keeps the bound.

Only model-checked: every liveness property (the prover handles neither fairness nor
`ENABLED`). Every invariant and every other action property of a passing run has its
theorem. Nothing in these modules is
recursive.

How the prover reads two things, for whoever extends the proofs. Its translation for
the SMT solver takes an equality of two `CASE` expressions that differ only in a later
arm for true, so the proofs of `SixaxisPairEmu` unfold the operators written with
`CASE` only in a few lemmas that compare them with something else (`StageFacts`,
`ContinuationFacts`, `AnswerIs`, `AnswerIsNext`); they also hold with `IF` in place of
`CASE`. And an equation `Len(s) = 4` is turned into one between
domains, which the solver seldom undoes: lengths are compared with `<=` and `>=`.

## 5. Not modelled

* **LUFA beyond the emulator's path.** Some 26000 of the repository's 32000 lines of C
  are a copy of this library. The emulator runs its device mode: the control requests,
  one stream template, the device task and the bus interrupt, all of which are in
  `SixaxisPairEmu` and `SixaxisReports`. Host mode, pipes, class drivers, board
  drivers and the report and configuration parsers are never called by any program
  here. They have no behaviour in this system; modelling them would say nothing of it.
* **Two receivers on one processor.** A byte sent from the clock interrupt of the
  mouse keeps interrupts off while the keyboard goes on clocking: the two receivers are
  checked one at a time. `SendByte`'s waits for clock edges have no timeout; a device
  that vanishes there holds the main loop, and no property could say otherwise.
* **Keyboard and mouse over one report**: which of the two may release what the other
  holds is stated nowhere. Each driver is checked with the report to itself.
* **The sixaxis proxy** (`sixproxy.c`) forwards packets and removes a dead zone; it
  keeps no state between packets and the loop is that of the L2CAP proxy with two
  sockets.
* **Serial bench, emulation tests, `simple.c`, `sixaddr`, `sixdump`, `sixmod`**: they
  send fixed reports, or read or write one report, print and exit.
* **Configurations**: data files of another program.
* Within modelled parts: LEDs of the boards, delays, the contents of descriptors and
  fixed reports, the optional game-specific code the Makefile does not compile, and
  the window and the device list of the customizer.
