---------------------------- MODULE VectorScaling ----------------------------
(***************************************************************************)
(* ps-2/MouseDriver.c: from a movement of the mouse to the position of the  *)
(* right stick.  A movement comes as eight bits of a two's complement       *)
(* number with its sign and an overflow bit in the header of the packet;    *)
(* the position is a byte with its centre at 128.                          *)
(***************************************************************************)
EXTENDS Integers

ACTION_VW_IDLE == 128
ACTION_VW_DEAD_ZONE == 25
ACTION_VW_MAXVECTOR == 126

Movement == [sign : BOOLEAN, overflow : BOOLEAN, data : 0..255]

(* vector->data = ~vector->data + 1, on eight bits. *)
AbsoluteValue(m) == IF m.overflow THEN ACTION_VW_MAXVECTOR
                    ELSE IF m.sign THEN (256 - m.data) % 256
                    ELSE m.data

(* val = mul*vector->data; if(val) val += ACTION_VW_DEAD_ZONE; *)
Scaled(data) == IF data = 0 THEN 0 ELSE 3 * data + ACTION_VW_DEAD_ZONE

NoRail(m) == LET val == Scaled(AbsoluteValue(m)) IN       \* mutant
    (IF m.sign THEN ACTION_VW_IDLE - val ELSE ACTION_VW_IDLE + val) % 256

Val(m) == LET val == Scaled(AbsoluteValue(m)) IN
    IF val <= ACTION_VW_MAXVECTOR
    THEN IF m.sign THEN ACTION_VW_IDLE - val ELSE ACTION_VW_IDLE + val
    ELSE IF m.sign THEN 0 ELSE 255

(* mrz.pos = 0xFF - mrz.pos *)
Flipped(pos) == 255 - pos

-----------------------------------------------------------------------------
(* What a player may expect of the curve. *)

(* The counters of a mouse stop at -255 and 255 and set the overflow bit. *)
Reported == {m \in Movement : m.sign /\ m.data = 0 => m.overflow}

Beyond == 256
Distance(m) == IF m.overflow THEN IF m.sign THEN -Beyond ELSE Beyond
               ELSE IF m.sign THEN m.data - 256
               ELSE m.data

(* The game ignores a stick within its dead zone: a movement gets out of it *)
(* and on the side of the movement.                                        *)
LeavesDeadZone(m, pos) ==
    /\ Distance(m) > 0 => pos > ACTION_VW_IDLE + ACTION_VW_DEAD_ZONE
    /\ Distance(m) < 0 => pos < ACTION_VW_IDLE - ACTION_VW_DEAD_ZONE
    /\ Distance(m) = 0 => pos = ACTION_VW_IDLE
=============================================================================
