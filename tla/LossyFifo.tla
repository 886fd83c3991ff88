------------------------------ MODULE LossyFifo ------------------------------
(***************************************************************************)
(* What RingBuffer.c promises to the PS/2 drivers: a first-in first-out    *)
(* buffer of at most Size bytes that never blocks its producer.  A byte    *)
(* offered while the buffer is full is lost, and only then.                *)
(***************************************************************************)
EXTENDS Naturals, Sequences

CONSTANTS Byte,     \* the values a byte can take
          Size      \* how many bytes the buffer holds

VARIABLES fifo,       \* the bytes in the buffer, oldest first
          accepted,   \* every byte that entered the buffer, in order
          delivered,  \* every byte the consumer took out, in order
          lost        \* how many bytes found the buffer full

vars == <<fifo, accepted, delivered, lost>>

Init ==
    /\ fifo = <<>>
    /\ accepted = <<>>
    /\ delivered = <<>>
    /\ lost = 0

Accept(b) ==
    /\ Len(fifo) < Size
    /\ fifo' = Append(fifo, b)
    /\ accepted' = Append(accepted, b)
    /\ UNCHANGED <<delivered, lost>>

Lose ==
    /\ Len(fifo) = Size
    /\ lost' = lost + 1
    /\ UNCHANGED <<fifo, accepted, delivered>>

Take ==
    /\ fifo # <<>>
    /\ delivered' = Append(delivered, Head(fifo))
    /\ fifo' = Tail(fifo)
    /\ UNCHANGED <<accepted, lost>>

Next == (\E b \in Byte : Accept(b)) \/ Lose \/ Take

Spec == Init /\ [][Next]_vars

-----------------------------------------------------------------------------
(* Nothing is invented, duplicated or reordered: what entered the buffer is *)
(* what left it followed by what it still holds.                           *)
Conservation == accepted = delivered \o fifo
=============================================================================
