----------------------------- MODULE RingBuffer -----------------------------
(***************************************************************************)
(* ps-2/RingBuffer.c as the PS/2 drivers use it.                           *)
(*                                                                         *)
(* The producer is a clock interrupt handler (RING_AddElement).  The       *)
(* consumer is the main loop, which first asks RING_HasElement and only    *)
(* then calls RING_GetElement, with the interrupt free to run between the  *)
(* two.  RING_AddElement and RING_GetElement are ATOMIC_BLOCKs (interrupts *)
(* off), RING_HasElement reads one byte: each is one step.                 *)
(***************************************************************************)
EXTENDS Naturals, Sequences

CONSTANTS Byte,       \* the values a byte can take
          Zero,       \* the byte 0: an unused slot, and the result of an empty get
          Size,       \* ringbuff_t.size: KB_BUFSIZE is 8, MS_BUFSIZE is 2
          MaxAdds     \* bound: how many bytes the interrupt offers

ASSUME SizeAssumption == Size \in 1..255      \* a non-zero uint8_t
ASSUME ZeroAssumption == Zero \in Byte
ASSUME BoundAssumption == MaxAdds \in Nat

VARIABLES data,       \* the storage, an array of size bytes
          in,         \* index into the buffer
          out,        \* index from the buffer
          elements,   \* number of bytes currently in the buffer
          pc,         \* the consumer: "has" before RING_HasElement, "get" after it said yes
          accepted,   \* history: bytes stored, in order
          delivered,  \* history: bytes RING_GetElement returned, in order
          lost        \* history: bytes dropped

ring == <<data, in, out, elements>>
vars == <<data, in, out, elements, pc, accepted, delivered, lost>>

Slot == 0..Size - 1

(* RING_Initialize *)
Init ==
    /\ data = [s \in Slot |-> Zero]
    /\ in = 0
    /\ out = 0
    /\ elements = 0
    /\ pc = "has"
    /\ accepted = <<>>
    /\ delivered = <<>>
    /\ lost = 0

WrapLate(i) == IF i + 1 > Size THEN 0 ELSE i + 1        \* mutant

(* i++; if (i == size) i = 0; *)
Wrap(i) == IF i + 1 = Size THEN 0 ELSE i + 1

RoomForOneMore == elements <= Size                      \* mutant
RoomBarOne == elements + 1 < Size                       \* mutant

HasRoom == elements < Size

(* RING_AddElement with room: store and count. *)
Store(b) ==
    /\ HasRoom
    /\ data' = [data EXCEPT ![in] = b]
    /\ in' = Wrap(in)
    /\ elements' = elements + 1
    /\ accepted' = Append(accepted, b)
    /\ UNCHANGED <<out, lost>>

(* RING_AddElement without room: the byte is silently dropped. *)
Drop ==
    /\ ~HasRoom
    /\ lost' = lost + 1
    /\ UNCHANGED <<ring, accepted>>

AddElement(b) ==
    /\ Len(accepted) + lost < MaxAdds
    /\ Store(b) \/ Drop
    /\ UNCHANGED <<pc, delivered>>

(* mutants: no test; a test that leaves the last byte behind *)
HasElementBlind ==
    pc = "has" /\ pc' = "get" /\ UNCHANGED <<ring, accepted, delivered, lost>>
HasElementBarOne == elements > 1 /\ HasElementBlind

(* The loop condition of MS_EventTask, the test in KB_GetScancode. *)
HasElement ==
    /\ pc = "has"
    /\ elements > 0
    /\ pc' = "get"
    /\ UNCHANGED <<ring, accepted, delivered, lost>>

(* The value RING_GetElement returns: 0 when the buffer is empty. *)
Returned == IF elements > 0 THEN data[out] ELSE Zero

GetElement ==
    /\ pc = "get"
    /\ IF elements > 0
       THEN /\ out' = Wrap(out)
            /\ elements' = elements - 1
       ELSE UNCHANGED <<out, elements>>
    /\ delivered' = Append(delivered, Returned)
    /\ pc' = "has"
    /\ UNCHANGED <<data, in, accepted, lost>>

Consume == HasElement \/ GetElement

Next == (\E b \in Byte : AddElement(b)) \/ Consume

(* The main loop polls for ever; interrupts owe nobody anything. *)
Spec == Init /\ [][Next]_vars
FairSpec == Spec /\ WF_vars(Consume)

-----------------------------------------------------------------------------
(* Every variable has its type.  The code relies on in, out and elements   *)
(* staying within the storage: there is no other bounds check.             *)
TypeOK ==
    /\ data \in [Slot -> Byte]
    /\ in \in Slot
    /\ out \in Slot
    /\ elements \in 0..Size
    /\ pc \in {"has", "get"}
    /\ accepted \in Seq(Byte)
    /\ delivered \in Seq(Byte)
    /\ lost \in Nat

(* The i-th oldest element sits at SlotOf(i). *)
SlotOf(i) == IF out + i - 1 < Size THEN out + i - 1 ELSE out + i - 1 - Size

(* in, out and elements are three counters of two facts: they agree. *)
IndicesAgree == in = IF out + elements < Size THEN out + elements
                                              ELSE out + elements - Size

(* The storage and its three counters are sound after every step of either  *)
(* side, also when a byte was dropped.                                     *)
WellFormed == TypeOK /\ IndicesAgree

(* A yes of RING_HasElement is still true when RING_GetElement acts on it,  *)
(* whatever the interrupt did in between: the consumer never takes the 0   *)
(* of an empty buffer for a scancode.                                      *)
YesIsStable == pc = "get" => elements > 0

-----------------------------------------------------------------------------
(* The bytes in the buffer, oldest first. *)
Contents == [i \in 1..elements |-> data[SlotOf(i)]]

Fifo == INSTANCE LossyFifo WITH fifo <- Contents

(* RingBuffer.c implements the bounded lossy queue: every step of the      *)
(* interrupt or of the main loop is a step of the queue, so bytes come out *)
(* once, in order, and are lost only when the buffer is really full.       *)
ImplementsFifo == Fifo!Spec

(* What entered is what left followed by what is still in the storage.     *)
Conservation == Fifo!Conservation

(* A stored byte does not stay behind: the main loop gets everything the   *)
(* interrupt stored.                                                       *)
EverythingDelivered ==
    \A n \in 1..MaxAdds : (Len(accepted) >= n) ~> (Len(delivered) >= n)
=============================================================================
