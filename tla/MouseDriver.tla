----------------------------- MODULE MouseDriver -----------------------------
(***************************************************************************)
(* ps-2/MouseDriver.c above the wire: the event filter that resets the      *)
(* mouse, brings it into wheel mode, configures and enables it, and then    *)
(* gathers four-byte movement packets; the ring between the interrupt and   *)
(* the main loop; the main loop; and the mouse at the other end.           *)
(*                                                                         *)
(* The line is clean here and a transfer is one step: PS2Receiver shows     *)
(* that bytes then arrive once and in order, and that a byte sent to the    *)
(* mouse cuts off what the mouse was saying.  The ring is the bounded lossy *)
(* queue that RingBuffer implements.                                       *)
(***************************************************************************)
EXTENDS Integers, Sequences

CONSTANTS Cases,         \* the surroundings to look at
          RingSize,      \* MS_BUFSIZE
          Moves,         \* values of the movement bytes of a packet
          Requests       \* what the main loop may ask for, as the comments of the setters allow

Rates == {10, 20, 40, 60, 80, 100, 200}
Resolutions == 0..3

ASSUME ConstantsAssumption ==
    /\ Cases \subseteq [wheel : BOOLEAN, prompt : BOOLEAN, moves : Nat, requests : Nat]
    /\ RingSize \in 1..255 /\ Moves \subseteq 0..255
    /\ Requests \subseteq [setting : {"res"}, value : Resolutions]
          \cup [setting : {"rate"}, value : Rates] \cup [setting : {"scale"}, value : {0, 1}]

(* The surroundings do not change.  wheel: an IntelliMouse, not a standard   *)
(* PS/2 mouse; prompt: the main loop handles a byte before the next comes;  *)
(* moves, requests: bounds on the packets of the mouse and on how often the *)
(* main loop asks for something.                                           *)
VARIABLES env,
          pc,          \* main: "boot", "kb" (KB_EventTask), "ms" (MS_EventTask), "filter"
          scancode,    \* main: the byte taken from the ring, an argument of EventFilter
          state,       \* ms_filter.state
          retry,       \* ms_filter.retry
          packet,      \* ms_packet: the bytes gathered so far
          config,      \* ms_config
          ring,        \* ms_driver.ringbuffer
          mouse,       \* the mouse: settings and what it is waiting for
          out,         \* the mouse: bytes it wants to send
          requests,    \* how many requests were made
          lost,        \* history: a byte found the ring full
          torn,        \* history: a dispatched packet was not one the mouse sent
          confused     \* history: the mouse got a byte it could not understand

main == <<pc, scancode>>
filter == <<state, retry, packet>>
device == <<mouse, out, confused>>
vars == <<env, pc, scancode, state, retry, packet, config, ring, mouse, out,
          requests, lost, torn, confused>>

-----------------------------------------------------------------------------
(* Bytes on the wire.  The filter sees the value; which part of which      *)
(* packet a byte is (part 0: not of a packet) only the properties see.     *)
Raw(v) == [val |-> v, part |-> 0, of |-> 0]
NoByte == Raw(-1)

ACK == 250
BAT == 170
MOUSE_ID == 0
WHEEL_ID == 3
RESET == 255
SET_RATE == 243
GET_ID == 242
SET_RES == 232
ENABLE == 244
SCALE11 == 230
SCALE21 == 231

(* Entries of the table that stand for a value of ms_config. *)
RES_VALUE == 209
SCALE_VALUE == 210
RATE_VALUE == 211

(* ms_state_table: what is expected in states 0, 2, 4 ..., and the answer. *)
ms_state_table ==
    << <<ACK, 0>>, <<BAT, 0>>, <<MOUSE_ID, RESET>>,
       <<ACK, 0>>, <<BAT, 0>>, <<MOUSE_ID, RESET>>,
       <<ACK, 0>>, <<BAT, 0>>, <<MOUSE_ID, RESET>>,
       <<ACK, 0>>, <<BAT, 0>>, <<MOUSE_ID, SET_RATE>>,
       <<ACK, 200>>, <<ACK, SET_RATE>>, <<ACK, 100>>, <<ACK, SET_RATE>>, <<ACK, 80>>,
       <<ACK, GET_ID>>, <<ACK, 0>>, <<WHEEL_ID, SET_RES>>,
       <<ACK, RES_VALUE>>, <<ACK, SCALE_VALUE>>, <<ACK, SET_RATE>>, <<ACK, RATE_VALUE>>,
       <<ACK, ENABLE>>, <<ACK, 0>> >>

Size == 2 * Len(ms_state_table)         \* ms_filter.size
Target(s) == ms_state_table[s \div 2 + 1][1]
Reply(s) == ms_state_table[s \div 2 + 1][2]

Streaming == Size                       \* the state after the last row
Error == 255                            \* ms_filter.state = 0xFF

SetMouseDefault == [res |-> 3, rate |-> 100, scale |-> 1]

-----------------------------------------------------------------------------
(* The mouse, as the comments of the driver describe it. *)

PoweredUp == [id |-> MOUSE_ID, reporting |-> FALSE, awaits |-> "command", knock |-> 0,
              res |-> 2, rate |-> 100, scale |-> 1, serial |-> 0]

(* How much of the knock 200, 100, 80 a new sample rate completes. *)
Knock(rate) ==
    IF rate = 200 THEN 1
    ELSE IF rate = 100 /\ mouse.knock = 1 THEN 2
    ELSE IF rate = 80 /\ mouse.knock = 2 THEN 3
    ELSE 0

Commands == {SET_RATE, GET_ID, SET_RES, ENABLE, SCALE11, SCALE21}

Understands(c) ==
    \/ c = RESET
    \/ mouse.awaits = "command" /\ c \in Commands
    \/ mouse.awaits = "rate" /\ c \in Rates
    \/ mouse.awaits = "res" /\ c \in Resolutions

After(c) ==
    IF c = RESET THEN [PoweredUp EXCEPT !.serial = mouse.serial]
    ELSE IF mouse.awaits = "rate"
    THEN [mouse EXCEPT !.awaits = "command", !.rate = c, !.knock = Knock(c),
                       !.id = IF env.wheel /\ Knock(c) = 3 THEN WHEEL_ID ELSE @]
    ELSE IF mouse.awaits = "res" THEN [mouse EXCEPT !.awaits = "command", !.res = c]
    ELSE IF c = SET_RATE THEN [mouse EXCEPT !.awaits = "rate"]
    ELSE IF c = SET_RES THEN [mouse EXCEPT !.awaits = "res"]
    ELSE IF c = ENABLE THEN [mouse EXCEPT !.reporting = TRUE]
    ELSE IF c = SCALE11 THEN [mouse EXCEPT !.scale = 1]
    ELSE IF c = SCALE21 THEN [mouse EXCEPT !.scale = 2]
    ELSE mouse

Answer(c) ==
    IF c = RESET THEN <<Raw(ACK), Raw(BAT), Raw(MOUSE_ID)>>
    ELSE IF c = GET_ID /\ mouse.awaits = "command" THEN <<Raw(ACK), Raw(mouse.id)>>
    ELSE <<Raw(ACK)>>

(* A command interrupts the mouse: whatever it still had to say is gone. *)
SendByte(c) ==
    /\ mouse' = After(c)
    /\ out' = Answer(c)
    /\ confused' = (confused \/ ~Understands(c))

(* One more byte reaches the interrupt and RING_AddElement. *)
Deliver ==
    /\ out # <<>>
    /\ env.prompt => pc = "boot" \/ (pc # "filter" /\ ring = <<>>)
    /\ out' = Tail(out)
    /\ IF Len(ring) < RingSize
       THEN ring' = Append(ring, Head(out)) /\ UNCHANGED lost
       ELSE lost' = TRUE /\ UNCHANGED ring
    /\ UNCHANGED <<main, filter, config, mouse, requests, torn, confused>>

(* The mouse moves: a packet of four bytes in wheel mode, of three otherwise. *)
Movement(v) ==
    LET n == IF mouse.id = WHEEL_ID THEN 4 ELSE 3 IN
    [i \in 1..n |-> [val |-> IF i = 1 THEN 8 ELSE v, part |-> i, of |-> mouse.serial]]

Move ==
    /\ mouse.reporting /\ out = <<>> /\ mouse.serial < env.moves
    /\ \E v \in Moves : out' = Movement(v)
    /\ mouse' = [mouse EXCEPT !.serial = @ + 1]
    /\ UNCHANGED <<main, filter, config, ring, requests, lost, torn, confused>>

-----------------------------------------------------------------------------
(* The driver. *)

Init ==
    /\ env \in Cases
    /\ pc = "boot" /\ scancode = NoByte
    /\ state = 2 /\ retry = 0 /\ packet = <<>>
    /\ config = SetMouseDefault
    /\ ring = <<>>
    /\ mouse = PoweredUp /\ out = <<Raw(BAT), Raw(MOUSE_ID)>>
    /\ requests = 0 /\ lost = FALSE /\ torn = FALSE /\ confused = FALSE

ResetSilently == UNCHANGED device /\ state' = 0           \* mutant
ResetKeepsState == SendByte(RESET) /\ UNCHANGED state     \* mutant

(* The ring, packet.size and retry survive a reset. *)
ResetState == SendByte(RESET) /\ state' = 0

MS_MouseReset ==
    /\ config' = SetMouseDefault
    /\ ResetState
    /\ UNCHANGED <<retry, packet, ring, lost, torn>>

(* MS_SetResolution, MS_SetFrequency, MS_SetScaling. *)
MS_Set(setting, value) ==
    /\ config' = [config EXCEPT ![setting] = value]
    /\ ResetState
    /\ UNCHANGED <<retry, packet, ring, lost, torn>>

(* main() after USB is configured and a second has passed. *)
Boot ==
    /\ pc = "boot" /\ pc' = "kb"
    /\ MS_MouseReset
    /\ UNCHANGED <<scancode, requests>>

(* KB_EventTask: nothing for the mouse, or the M key of                     *)
(* KB_KeyboardEventFilter, or a new setting.                               *)
KbTask ==
    /\ pc = "kb" /\ pc' = "ms"
    /\ \/ UNCHANGED <<filter, device, config, ring, requests, lost, torn>>
       \/ /\ requests < env.requests /\ requests' = requests + 1
          /\ \/ MS_MouseReset
             \/ \E r \in Requests : MS_Set(r.setting, r.value)
    /\ UNCHANGED scancode

(* MS_EventTask: while there is a byte, filter it. *)
Poll ==
    /\ pc = "ms"
    /\ IF ring = <<>>
       THEN pc' = "kb" /\ UNCHANGED <<scancode, ring>>
       ELSE pc' = "filter" /\ scancode' = Head(ring) /\ ring' = Tail(ring)
    /\ UNCHANGED <<filter, device, config, requests, lost, torn>>

-----------------------------------------------------------------------------
(* EventFilter. *)

Accepts(byte) ==
    \/ byte = Target(state)
    \/ Target(state) = ACK /\ byte = 244

ToSendDefaultRate ==                                      \* mutant
    IF Reply(state) = RES_VALUE THEN config.res
    ELSE IF Reply(state) = SCALE_VALUE THEN IF config.scale = 1 THEN SCALE11 ELSE SCALE21
    ELSE IF Reply(state) = RATE_VALUE THEN 100
    ELSE Reply(state)

ToSend ==
    IF Reply(state) = RES_VALUE THEN config.res
    ELSE IF Reply(state) = SCALE_VALUE THEN IF config.scale = 1 THEN SCALE11 ELSE SCALE21
    ELSE IF Reply(state) = RATE_VALUE THEN config.rate
    ELSE Reply(state)

Advance ==
    /\ state < Size /\ Accepts(scancode.val)
    /\ IF Reply(state) > 0 THEN SendByte(ToSend) ELSE UNCHANGED device
    /\ state' = state + 2
    /\ UNCHANGED <<retry, packet, torn>>

RetriesFour == retry < 4                                  \* mutant
RetriesLeft == retry < 5

Retry ==
    /\ state < Size /\ ~Accepts(scancode.val)
    /\ RetriesLeft
    /\ retry' = retry + 1
    /\ ResetState
    /\ UNCHANGED <<packet, torn>>

(* Error LED on the keyboard, and no further attempt. *)
GiveUp ==
    /\ state < Size /\ ~Accepts(scancode.val)
    /\ ~RetriesLeft
    /\ state' = Error /\ retry' = 0
    /\ UNCHANGED <<packet, torn, device>>

(* scancode & 0x08 *)
Bit3(byte) == (byte \div 8) % 2 = 1

(* A packet cannot start with this byte: hope to get in step. *)
Skip ==
    /\ state >= Size /\ packet = <<>> /\ ~Bit3(scancode.val)
    /\ UNCHANGED <<filter, torn, device>>

(* The four bytes are those of one packet of the mouse, in order. *)
Whole(p) == \A i \in 1..4 : p[i].part = i /\ p[i].of = p[1].of

PacketOfFive(p) == Len(p) = 5                             \* mutant
PacketFull(p) == Len(p) = 4

Gather ==
    LET gathered == Append(packet, scancode) IN
    /\ state >= Size /\ (packet # <<>> \/ Bit3(scancode.val))
    /\ retry' = 0
    /\ IF PacketFull(gathered)
       THEN packet' = <<>> /\ torn' = (torn \/ ~Whole(gathered))
       ELSE packet' = gathered /\ UNCHANGED torn
    /\ UNCHANGED <<state, device>>

EventFilter ==
    /\ pc = "filter" /\ pc' = "ms" /\ scancode' = NoByte
    /\ Advance \/ Retry \/ GiveUp \/ Skip \/ Gather
    /\ UNCHANGED <<config, ring, requests, lost>>

-----------------------------------------------------------------------------
MainLoop == Boot \/ KbTask \/ Poll \/ EventFilter

Next == (MainLoop \/ Deliver \/ Move) /\ UNCHANGED env

Spec == Init /\ [][Next]_vars

(* The main loop runs for ever; a mouse with something to say says it. *)
FairSpec == Spec /\ WF_vars(MainLoop /\ UNCHANGED env) /\ WF_vars(Deliver /\ UNCHANGED env)

-----------------------------------------------------------------------------
Element == [val : -1..255, part : 0..4, of : 0..env.moves]

TypeOK ==
    /\ env \in Cases /\ pc \in {"boot", "kb", "ms", "filter"}
    /\ scancode \in Element
    /\ state \in {s \in 0..Size : s % 2 = 0} \cup {Error}
    /\ retry \in 0..5
    /\ packet \in Seq(Element) /\ Len(packet) < 4
    /\ ring \in Seq(Element) /\ Len(ring) <= RingSize
    /\ out \in Seq(Element) /\ Len(out) <= 4
    /\ lost \in BOOLEAN /\ torn \in BOOLEAN /\ confused \in BOOLEAN

(* The driver is streaming exactly when it has reason to: the mouse is in   *)
(* wheel mode, reporting, and has the resolution and the rate of ms_config. *)
(* Stale bytes in the ring never walk the filter past a command the mouse   *)
(* did not get.  (Of the scaling the property says nothing: the comment of  *)
(* MS_SetScaling and the code take its values the other way round.)        *)
StreamingMeansConfigured ==
    state = Streaming =>
        /\ mouse.id = WHEEL_ID /\ mouse.reporting
        /\ mouse.res = config.res /\ mouse.rate = config.rate

(* The argument of a two-byte command is never taken for a command.         *)
NeverConfused == ~confused

(* A wheel mouse on a clean line is never given up, though bytes from       *)
(* before a reset cost retries: two at most when the driver starts, one for *)
(* a request.  A main loop that stalls may lose it, and so may a user who   *)
(* asks for a fourth reset before the third let a packet through.           *)
NoFalseAlarm == env.wheel /\ env.prompt /\ requests <= 3 => state # Error

(* "Gather a four byte mouse vector": what is dispatched as one packet was  *)
(* sent as one packet.                                                     *)
PacketsIntact == ~torn

(* The same for a main loop that keeps up and asks for no reset.            *)
PacketsIntactUnlessReset == env.prompt /\ torn => requests > 0

(* After the last reset the handshake ends, and a mouse with a wheel then   *)
(* streams to the driver.  (What is to become of a standard mouse is left   *)
(* open: the comment of the table and the code differ.)                    *)
HandshakeEnds ==
    env.prompt ~> [](state >= Size /\ (env.wheel => state = Streaming /\ mouse.reporting))
=============================================================================
