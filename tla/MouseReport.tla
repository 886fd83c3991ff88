----------------------------- MODULE MouseReport -----------------------------
(***************************************************************************)
(* ps-2/MouseDriver.c once the mouse streams: bytes come in through the     *)
(* clock interrupt, MS_EventTask gathers them into packets and dispatches   *)
(* these to the joystick, and a timer that every clock edge reloads trips a *)
(* trigger, on which MS_EventTask puts the right stick back to its centre.  *)
(*                                                                         *)
(* The main loop may be held up between any two steps, as usb_joystick_send *)
(* does; only the test of the trigger and its clearing follow each other at *)
(* once.                                                                   *)
(***************************************************************************)
EXTENDS VectorScaling, Sequences

CONSTANTS Packets,      \* what the mouse may report: [header, x, y, z]
          RingSize,     \* MS_BUFSIZE
          Timeout,      \* ms_trigger.timeout (15)
          MaxPackets    \* bound: how many packets the mouse sends

Byte == 0..255

ASSUME ConstantsAssumption ==
    /\ Packets \subseteq [1..4 -> Byte]
    /\ RingSize \in 1..255 /\ Timeout \in 1..255 /\ MaxPackets \in Nat

VARIABLES pc,           \* main: "poll", "check", "clear", "recentre"
          ring,         \* ms_driver.ringbuffer
          packet,       \* ms_packet
          timer, action,        \* ms_trigger
          pressed,      \* ms_dispatch: the buttons of the mouse that are down
          z, rz,        \* joystick_axis_z, joystick_axis_rz
          buttons,      \* joystick_buttons that the mouse drives
          dir,          \* the direction in joystick_buttons
          out,          \* mouse: the rest of the packet it is sending
          said,         \* mouse: the last packet it began
          packets,
          lost          \* history: a byte found the ring full

trigger == <<timer, action>>
report == <<z, rz, buttons, dir>>
mouse == <<out, said, packets>>
vars == <<pc, ring, packet, timer, action, pressed, z, rz, buttons, dir, out, said,
          packets, lost>>

(* No button is down and nothing moves. *)
Silent == [i \in 1..4 |-> IF i = 1 THEN 8 ELSE 0]

Init ==
    /\ pc = "poll" /\ ring = <<>> /\ packet = <<>>
    /\ timer = 0 /\ action = 0 /\ pressed = {}
    /\ z = ACTION_VW_IDLE /\ rz = ACTION_VW_IDLE /\ buttons = {} /\ dir = "NO_BUTTON"
    /\ out = <<>> /\ said = Silent /\ packets = 0 /\ lost = FALSE

-----------------------------------------------------------------------------
(* EventDispatcher *)

Bit(header, mask) == (header \div mask) % 2 = 1

Down(header) == {b \in {"R1", "L1", "RIGHT_HAT"} :
                    \/ b = "R1" /\ Bit(header, 1)
                    \/ b = "L1" /\ Bit(header, 2)
                    \/ b = "RIGHT_HAT" /\ Bit(header, 4)}

NeverReleased(header) == buttons \cup (Down(header) \ pressed)     \* mutant

(* Only a button whose state changed is pressed or released. *)
Clicked(header) == (buttons \ (pressed \ Down(header))) \cup (Down(header) \ pressed)

(* zsign = packet->z > 128: -128 counts as 128. *)
Wheel(zmove) == IF zmove = 0 THEN {} ELSE IF zmove > 128 THEN {"L2"} ELSE {"R2"}

(* ms_packet.x and ms_packet.y with their flags in the header. *)
MoveX(p) == [sign |-> Bit(p[1], 16), overflow |-> Bit(p[1], 64), data |-> p[2]]
MoveY(p) == [sign |-> Bit(p[1], 32), overflow |-> Bit(p[1], 128), data |-> p[3]]

Dispatch(p) ==
    /\ z' = Val(MoveX(p)) /\ rz' = Flipped(Val(MoveY(p)))
    /\ pressed' = Down(p[1])
    /\ buttons' = IF p[4] = 0 THEN Clicked(p[1]) \ {"R2", "L2"}
                              ELSE Clicked(p[1]) \cup Wheel(p[4])
    /\ UNCHANGED dir

-----------------------------------------------------------------------------
(* MS_EventTask *)

FullAtFive(p) == Len(p) = 5                               \* mutant
Full(p) == Len(p) = 4

(* scancode & 0x08, where a packet may start. *)
InStep(byte) == packet # <<>> \/ Bit(byte, 8)

EventFilter(byte) ==
    LET gathered == Append(packet, byte) IN
    \/ ~InStep(byte) /\ UNCHANGED <<packet, pressed, report>>
    \/ /\ InStep(byte) /\ ~Full(gathered)
       /\ packet' = gathered /\ UNCHANGED <<pressed, report>>
    \/ /\ InStep(byte) /\ Full(gathered)
       /\ packet' = <<>> /\ Dispatch(gathered)

Poll ==
    /\ pc = "poll"
    /\ \/ /\ ring # <<>> /\ ring' = Tail(ring)
          /\ EventFilter(Head(ring)) /\ UNCHANGED pc
       \/ ring = <<>> /\ pc' = "check" /\ UNCHANGED <<ring, packet, pressed, report>>
    /\ UNCHANGED <<trigger, mouse, lost>>

Check ==
    /\ pc = "check"
    /\ pc' = IF action = 1 THEN "clear" ELSE "poll"
    /\ UNCHANGED <<ring, packet, trigger, pressed, report, mouse, lost>>

(* The timer interrupt is off meanwhile, the clock interrupt is not. *)
Clear ==
    /\ pc = "clear" /\ pc' = "recentre"
    /\ action' = 0
    /\ UNCHANGED <<ring, packet, timer, pressed, report, mouse, lost>>

ClearOnceMore == action' = 0 /\ UNCHANGED timer           \* mutant
LeaveTrigger == UNCHANGED trigger

(* Ends with usb_joystick_send. *)
Recentre ==
    /\ pc = "recentre" /\ pc' = "poll"
    /\ z' = ACTION_VW_IDLE /\ rz' = ACTION_VW_IDLE
    /\ dir' = "NO_BUTTON" /\ buttons' = buttons \ {"R2", "L2"}
    /\ LeaveTrigger
    /\ UNCHANGED <<ring, packet, pressed, mouse, lost>>

MS_EventTask == Poll \/ Check \/ Clear \/ Recentre

-----------------------------------------------------------------------------
(* The interrupts. *)

ReloadOnly == timer' = Timeout /\ UNCHANGED action        \* mutant
Reload == timer' = Timeout /\ action' = 0

(* The clock edges of one byte. *)
MS_ClockInterrupt ==
    /\ out # <<>> /\ out' = Tail(out)
    /\ Reload
    /\ IF Len(ring) < RingSize THEN ring' = Append(ring, Head(out)) /\ UNCHANGED lost
                               ELSE lost' = TRUE /\ UNCHANGED ring
    /\ UNCHANGED <<pc, packet, pressed, report, said, packets>>

TestedBeforeDecrement == timer = 0                        \* mutant
Trips == timer = 1

(* A millisecond is long compared with lines 184 to 190. *)
MS_TimerInterrupt ==
    /\ pc \notin {"check", "clear"}
    /\ timer > 0 /\ timer' = timer - 1
    /\ action' = IF Trips THEN 1 ELSE action
    /\ UNCHANGED <<pc, ring, packet, pressed, report, mouse, lost>>

(* The mouse has something to report. *)
Report ==
    /\ out = <<>> /\ packets < MaxPackets /\ packets' = packets + 1
    /\ \E p \in Packets : out' = <<p[1], p[2], p[3], p[4]>> /\ said' = p
    /\ UNCHANGED <<pc, ring, packet, trigger, pressed, report, lost>>

-----------------------------------------------------------------------------
Next == MS_EventTask \/ MS_ClockInterrupt \/ MS_TimerInterrupt \/ Report

Spec == Init /\ [][Next]_vars

(* The main loop goes on, a byte begun is sent, and the timer ticks however  *)
(* often the main loop is at lines 184 to 190.                             *)
FairSpec ==
    Spec /\ WF_vars(MS_EventTask) /\ WF_vars(MS_ClockInterrupt) /\ SF_vars(MS_TimerInterrupt)

-----------------------------------------------------------------------------
TypeOK ==
    /\ pc \in {"poll", "check", "clear", "recentre"}
    /\ ring \in Seq(Byte) /\ Len(ring) <= RingSize
    /\ packet \in Seq(Byte) /\ Len(packet) <= 3
    /\ timer \in 0..Timeout /\ action \in {0, 1}
    /\ z \in Byte /\ rz \in Byte
    /\ pressed \subseteq {"R1", "L1", "RIGHT_HAT"}
    /\ buttons \subseteq {"R1", "L1", "RIGHT_HAT", "R2", "L2"}
    /\ out \in Seq(Byte) /\ packets \in 0..MaxPackets
    /\ said \in [1..4 -> Byte] /\ lost \in BOOLEAN

AtRest == z = ACTION_VW_IDLE /\ rz = ACTION_VW_IDLE /\ buttons \cap {"R2", "L2"} = {}

Due == timer > 0 \/ action = 1

(* "The trigger is set when the user stops moving the mouse": a tripped     *)
(* trigger means that no clock edge came for the whole timeout.             *)
TriggerMeansSilence == action = 1 => timer = 0

(* A stick that is off its centre is on its way back: the timer runs, the   *)
(* trigger has tripped, or the main loop is about to recentre it; whatever  *)
(* hold-ups and losses there were, no trip of the trigger goes astray.      *)
DeflectionHasDeadline == ~AtRest => Due \/ pc \in {"clear", "recentre"}

(* Every header has the bit by which EventFilter knows it, and a counter     *)
(* beyond its range sets its overflow bit.                                  *)
WellBehaved ==
    \A p \in Packets : Bit(p[1], 8) /\ MoveX(p) \in Reported /\ MoveY(p) \in Reported

(* When all the mouse said has arrived and been read, the left button is     *)
(* what its last packet says and, until the trigger trips, the right stick  *)
(* is out of the game's dead zone on the side of the movement (up is a low   *)
(* value), whatever arrived while the main loop tested or recentred.       *)
ReportFollowsMouse ==
    out = <<>> /\ ring = <<>> /\ ~lost =>
        /\ "R1" \in buttons <=> Bit(said[1], 1)
        /\ timer > 0 => /\ LeavesDeadZone(MoveX(said), z)
                        /\ LeavesDeadZone(MoveY(said), Flipped(rz))

(* "If the trigger has been tripped then the mouse hasn't sent an update":  *)
(* when the mouse stops, the stick comes to rest and the wheel buttons are  *)
(* let go.                                                                 *)
ComesToRest == <>[]AtRest
=============================================================================
