----------------------------- MODULE PS2Receiver -----------------------------
(***************************************************************************)
(* The receiving half of a PS/2 port: the clock interrupt of MouseDriver.c *)
(* (KeyboardDriver.c has the same handler on another data pin), and the    *)
(* effect of sending a byte to the device while it is talking.             *)
(*                                                                         *)
(* A byte is the set of its bits that are 1.  The device sends the bytes   *)
(* of a script as frames of 11 bits, one falling clock edge each; the      *)
(* interrupt samples one bit per edge.  A bit may be disturbed on its way. *)
(* The main loop may send a command at any moment; it masks the interrupt, *)
(* and only some instructions later takes the clock line from the device.  *)
(***************************************************************************)
EXTENDS Integers, Sequences, FiniteSets

CONSTANTS Scripts,     \* the byte sequences a device may want to send
          DataMask,    \* value of bit_is_set(PIN, BIT) when high: 1 for MS_DATA_BIT, 2 for KB_DATA_BIT
          MaxFaults,   \* bound: disturbed bits, at most one in each frame
          MaxSends     \* bound: commands the main loop sends

Byte == SUBSET (0..7)

ASSUME ScriptsAssumption == Scripts \subseteq Seq(Byte)
ASSUME MaskAssumption == DataMask \in {1, 2, 4, 8, 16, 32, 64, 128}
ASSUME BoundsAssumption == MaxFaults \in Nat /\ MaxSends \in Nat

VARIABLES bit_n,      \* the bit the next edge brings, 1..11
          buffer,     \* the data bits received so far
          error,      \* 1 after a resend request, until a byte is queued
          masked,     \* clock interrupt disabled by SendByte, clock not yet held
          received,   \* history: bytes given to RING_AddElement
          out,        \* device: bytes still to send, the first one in progress
          pos,        \* device: the bit of the frame it sends next
          sent,       \* history: bytes whose last bit fell while the host listened
          disturbed,  \* a bit of the frame in progress was disturbed
          faults,     \* how many bits were disturbed
          sends       \* how many commands were sent

host == <<bit_n, buffer, error>>
device == <<out, pos, sent>>
vars == <<bit_n, buffer, error, masked, received, out, pos, sent,
          disturbed, faults, sends>>

Init ==
    /\ bit_n = 1 /\ buffer = {} /\ error = 0 /\ masked = FALSE
    /\ received = <<>>
    /\ out \in Scripts /\ pos = 1 /\ sent = <<>>
    /\ disturbed = FALSE /\ faults = 0 /\ sends = 0

-----------------------------------------------------------------------------
(* The wire. *)

(* avr-libc: 1 for an odd number of ones. *)
parity_even_bit(b) == Cardinality(b) % 2

(* The level of bit p of the frame of b: start low, least significant bit  *)
(* first, odd parity, stop high.                                           *)
Level(b, p) ==
    \/ p \in 2..9 /\ p - 2 \in b
    \/ p = 10 /\ parity_even_bit(b) = 0
    \/ p = 11

(* bit_is_set masks the port: it returns 0 or the bit's weight, not 0 or 1. *)
bit_is_set(high) == IF high THEN DataMask ELSE 0

-----------------------------------------------------------------------------
(* The clock interrupt, by the value of bit_n.                             *)

(* A start bit must be low, otherwise the edge is ignored. *)
StartBit(high) ==
    /\ bit_n = 1
    /\ bit_n' = IF high THEN 1 ELSE 2
    /\ UNCHANGED <<buffer, error, received>>

DataBit(high) ==
    /\ bit_n \in 2..9
    /\ buffer' = IF high THEN buffer \cup {bit_n - 2} ELSE buffer
    /\ bit_n' = bit_n + 1
    /\ UNCHANGED <<error, received>>

ParityUnchecked(high) == FALSE                          \* mutant

ParityWrong(high) == bit_is_set(high) = parity_even_bit(buffer)
StopWrong(high) == ~high

ParityBit(high) ==
    /\ bit_n = 10
    /\ ~ParityWrong(high)
    /\ bit_n' = 11
    /\ UNCHANGED <<buffer, error, received>>

StopBitNoReset(high) ==                                 \* mutant
    /\ bit_n = 11 /\ high
    /\ received' = Append(received, buffer)
    /\ buffer' = {} /\ bit_n' = bit_n + 1 /\ error' = 0

StopBit(high) ==
    /\ bit_n = 11
    /\ ~StopWrong(high)
    /\ received' = Append(received, buffer)
    /\ buffer' = {} /\ bit_n' = 1 /\ error' = 0

Corrupt(high) ==
    \/ bit_n = 10 /\ ParityWrong(high)
    \/ bit_n = 11 /\ StopWrong(high)

ForgetBitNumber == buffer' = {} /\ error' = 1 /\ UNCHANGED bit_n    \* mutant

(* SendByte(0xFE) restarts the receiver, then error = 1. *)
RequestResend == buffer' = {} /\ bit_n' = 1 /\ error' = 1

(* The second error in a row: no request, and bit_n and buffer stay. *)
GiveUp == UNCHANGED host

-----------------------------------------------------------------------------
(* The device, as the transfer code relies on it. *)

(* The frame goes on; after its stop bit the next byte is up. *)
NextBit ==
    IF pos = 11 THEN /\ pos' = 1 /\ out' = Tail(out)
                     /\ sent' = IF masked THEN sent ELSE Append(sent, Head(out))
                ELSE /\ pos' = pos + 1 /\ UNCHANGED <<out, sent>>

(* 0xFE: the byte just sent, or cut off, is sent again from its start bit. *)
Restart == pos' = 1 /\ UNCHANGED <<out, sent>>

Ack == {1, 3, 4, 5, 6, 7}       \* 0xFA

-----------------------------------------------------------------------------
(* One falling edge seen by the interrupt, bit flipped or not. *)
ClockInterrupt(flip) ==
    LET level == Level(Head(out), pos)
        high == IF flip THEN ~level ELSE level IN
    /\ out # <<>> /\ ~masked
    /\ flip => pos # 1 /\ ~disturbed /\ faults < MaxFaults
    /\ \/ (StartBit(high) \/ DataBit(high) \/ ParityBit(high) \/ StopBit(high)) /\ NextBit
       \/ Corrupt(high) /\ error = 0 /\ RequestResend /\ Restart /\ UNCHANGED received
       \/ Corrupt(high) /\ error = 1 /\ GiveUp /\ NextBit /\ UNCHANGED received
    /\ disturbed' = (pos' # 1 /\ (disturbed \/ flip))
    /\ faults' = IF flip THEN faults + 1 ELSE faults
    /\ UNCHANGED <<masked, sends>>

(* An edge that falls between disabling the interrupt and holding the clock. *)
UnseenEdge ==
    /\ out # <<>> /\ masked
    /\ NextBit
    /\ disturbed' = (pos' # 1 /\ disturbed)
    /\ UNCHANGED <<host, masked, received, faults, sends>>

(* SendByte, first half: interrupt disabled, ISR state variables cleared. *)
ClearState == bit_n' = 1 /\ buffer' = {} /\ error' = 0

MaskClock ==
    /\ ~masked /\ sends < MaxSends
    /\ masked' = TRUE /\ sends' = sends + 1
    /\ ClearState
    /\ UNCHANGED <<device, received, disturbed, faults>>

(* SendByte, second half: the clock is held low (the device drops what it  *)
(* was sending), the command is clocked out and acknowledged, the flag of  *)
(* any edge missed meanwhile is cleared, the interrupt enabled.            *)
TransmitCommand ==
    /\ masked
    /\ masked' = FALSE
    /\ out' = <<Ack>> /\ pos' = 1 /\ disturbed' = FALSE
    /\ UNCHANGED <<host, received, sent, faults, sends>>

Next == \/ \E flip \in BOOLEAN : ClockInterrupt(flip)
        \/ UnseenEdge \/ MaskClock \/ TransmitCommand

Spec == Init /\ [][Next]_vars

-----------------------------------------------------------------------------
TypeOK ==
    /\ bit_n \in 1..11 /\ buffer \in Byte /\ error \in {0, 1} /\ masked \in BOOLEAN
    /\ received \in Seq(Byte)
    /\ out \in Seq(Byte) /\ pos \in 1..11 /\ sent \in Seq(Byte)
    /\ disturbed \in BOOLEAN /\ faults \in 0..MaxFaults /\ sends \in 0..MaxSends

(* The interrupt counts the same bits as the device: no interleaving of    *)
(* frames, resend requests and commands makes the two lose step.  There is *)
(* no timeout in the handler that would ever bring them back together.     *)
Aligned == ~masked => bit_n = pos

(* Every byte the device finished was queued once, in order, uncorrupted   *)
(* ("Check parity. Ask for re-send if this byte is corrupt.").             *)
Faithful == received = sent

(* Nothing else is queued: received is sent, some bytes perhaps left out   *)
(* ("Check for stop bit high.  If ok then queue byte.").                   *)
OnlySentBytesQueued ==
    \E at \in [DOMAIN received -> DOMAIN sent] :
        \A i, j \in DOMAIN received :
            received[i] = sent[at[i]] /\ (i < j => at[i] < at[j])
=============================================================================
