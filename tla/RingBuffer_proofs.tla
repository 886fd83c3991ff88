-------------------------- MODULE RingBuffer_proofs --------------------------
(* Proofs about RingBuffer, for every size and every byte alphabet.        *)
EXTENDS RingBuffer, SequenceTheorems, TLAPS

-----------------------------------------------------------------------------
(* The inductive invariant: the types, the agreement of the two indices    *)
(* with the count, and the stability of the consumer's test.               *)
IInv == TypeOK /\ IndicesAgree /\ YesIsStable

(* The one modulo computation of the code stays within the storage.        *)
LEMMA WrapInRange ==
    ASSUME NEW i \in Slot
    PROVE  Wrap(i) \in Slot
  BY SizeAssumption DEF Slot, Wrap

LEMMA InitIInv == Init => IInv
  BY SizeAssumption, ZeroAssumption DEF Init, IInv, TypeOK, IndicesAgree, YesIsStable, Slot

LEMMA StoreIInv ==
    ASSUME IInv, NEW b \in Byte, Store(b), UNCHANGED <<pc, delivered>>
    PROVE  IInv'
  <1>1. TypeOK'
    BY SizeAssumption, WrapInRange DEF IInv, TypeOK, Store, HasRoom, Slot
  <1>2. IndicesAgree'
    BY SizeAssumption DEF IInv, TypeOK, IndicesAgree, Store, HasRoom, Wrap, Slot
  <1>3. YesIsStable'
    BY DEF IInv, TypeOK, YesIsStable, Store
  <1> QED  BY <1>1, <1>2, <1>3 DEF IInv

LEMMA GetIInv == IInv /\ GetElement => IInv'
  <1> SUFFICES ASSUME IInv, GetElement PROVE IInv'
    OBVIOUS
  <1>1. elements > 0
    BY DEF IInv, YesIsStable, GetElement
  <1>2. TypeOK'
    BY <1>1, SizeAssumption, WrapInRange DEF IInv, TypeOK, GetElement, Returned, Slot
  <1>3. IndicesAgree'
    BY <1>1, SizeAssumption DEF IInv, TypeOK, IndicesAgree, GetElement, Wrap, Slot
  <1>4. YesIsStable'
    BY DEF GetElement, YesIsStable
  <1> QED  BY <1>2, <1>3, <1>4 DEF IInv

LEMMA NextIInv == IInv /\ [Next]_vars => IInv'
  <1> SUFFICES ASSUME IInv, [Next]_vars PROVE IInv'
    OBVIOUS
  <1>1. ASSUME NEW b \in Byte, AddElement(b) PROVE IInv'
    <2>1. CASE Store(b)
      BY <1>1, <2>1, StoreIInv DEF AddElement
    <2>2. CASE Drop
      BY <1>1, <2>2
      DEF AddElement, Drop, ring, IInv, TypeOK, IndicesAgree, YesIsStable
    <2> QED  BY <1>1, <2>1, <2>2 DEF AddElement
  <1>2. CASE HasElement
    BY <1>2 DEF HasElement, ring, IInv, TypeOK, IndicesAgree, YesIsStable
  <1>3. CASE GetElement
    BY <1>3, GetIInv
  <1>4. CASE UNCHANGED vars
    BY <1>4 DEF vars, IInv, TypeOK, IndicesAgree, YesIsStable
  <1> QED  BY <1>1, <1>2, <1>3, <1>4 DEF Next, Consume

(* in and out never leave the storage, elements never exceeds its size, and *)
(* the three agree after any interleaving of interrupt and loop.            *)
THEOREM AlwaysWellFormed == Spec => []WellFormed
  <1>1. IInv => WellFormed
    BY DEF IInv, WellFormed
  <1> QED  BY InitIInv, NextIInv, <1>1, PTL DEF Spec

(* The consumer never reads an empty buffer, so 0 is never a made-up byte.  *)
THEOREM TestThenGetIsSafe == Spec => []YesIsStable
  <1>1. IInv => YesIsStable
    BY DEF IInv
  <1> QED  BY InitIInv, NextIInv, <1>1, PTL DEF Spec

-----------------------------------------------------------------------------
(* The refinement.  Contents is a sequence of elements bytes; storing at   *)
(* in appends to it and reading at out takes its head.                     *)

LEMMA SlotOfInRange ==
    ASSUME IInv, NEW i \in 1..elements
    PROVE  SlotOf(i) \in Slot
  BY SizeAssumption DEF IInv, TypeOK, SlotOf, Slot

LEMMA ContentsIsSeq ==
    ASSUME IInv
    PROVE  /\ Contents \in Seq(Byte)
           /\ Len(Contents) = elements
           /\ \A i \in 1..elements : Contents[i] = data[SlotOf(i)]
  <1>1. \A i \in 1..elements : data[SlotOf(i)] \in Byte
    BY SlotOfInRange DEF IInv, TypeOK
  <1>2. elements \in Nat
    BY SizeAssumption DEF IInv, TypeOK
  <1> QED  BY <1>1, <1>2 DEF Contents

LEMMA StoreAppends ==
    ASSUME IInv, NEW b \in Byte, Store(b), UNCHANGED <<pc, delivered>>
    PROVE  Contents' = Append(Contents, b)
  <1>1. IInv'
    BY StoreIInv
  <1>2. elements \in Nat /\ elements' = elements + 1
    BY DEF Store, IInv, TypeOK
  <1>3. /\ Contents' \in Seq(Byte)
        /\ Len(Contents') = elements'
        /\ \A i \in 1..elements' : Contents'[i] = data'[SlotOf(i)']
    BY <1>1, SizeAssumption, SlotOfInRange, ContentsIsSeq
    DEF IInv, TypeOK, Store, Contents, SlotOf, Slot, HasRoom
  <1>4. ASSUME NEW i \in 1..elements PROVE Contents'[i] = Contents[i]
    <2>1. SlotOf(i)' = SlotOf(i)
      BY DEF Store, SlotOf
    <2>2. SlotOf(i) # in
      BY SizeAssumption DEF Store, HasRoom, SlotOf, IInv, TypeOK, IndicesAgree, Slot
    <2>3. data'[SlotOf(i)] = data[SlotOf(i)]
      BY <2>2, SlotOfInRange DEF Store, IInv, TypeOK
    <2>4. i \in 1..elements'
      BY <1>2
    <2> QED  BY <1>3, <2>1, <2>3, <2>4, ContentsIsSeq
  <1>5. Contents'[elements'] = b
    <2>1. SlotOf(elements)' = in
      BY SizeAssumption DEF Store, HasRoom, SlotOf, IInv, TypeOK, IndicesAgree, Slot
    <2>2. elements' \in 1..elements'
      BY <1>2
    <2> QED  BY <1>3, <2>1, <2>2 DEF Store, IInv, TypeOK
  <1>6. /\ Contents \in Seq(Byte)
        /\ Len(Contents) = elements
    BY ContentsIsSeq
  <1> QED  BY <1>2, <1>3, <1>4, <1>5, <1>6

LEMMA GetTakesHead ==
    ASSUME IInv, GetElement
    PROVE  /\ Contents # <<>>
           /\ Returned = Head(Contents)
           /\ Contents' = Tail(Contents)
  <1>1. elements > 0 /\ elements \in Nat /\ elements' = elements - 1
    BY DEF IInv, YesIsStable, GetElement, TypeOK
  <1>2. IInv'
    BY GetIInv
  <1>3. Returned = Contents[1]
    BY <1>1, ContentsIsSeq, SizeAssumption DEF Returned, SlotOf, IInv, TypeOK, Slot
  <1>4. ASSUME NEW i \in 1..elements - 1
        PROVE  data'[SlotOf(i)'] = data[SlotOf(i + 1)]
    BY <1>1, <1>4, SizeAssumption DEF GetElement, SlotOf, Wrap, IInv, TypeOK, Slot
  <1>5. /\ Contents \in Seq(Byte)
        /\ Len(Contents) = elements
    BY ContentsIsSeq
  <1>6. /\ Tail(Contents) \in Seq(Byte)
        /\ Len(Tail(Contents)) = elements - 1
        /\ \A i \in 1..elements - 1 : Tail(Contents)[i] = Contents[i + 1]
    BY <1>1, <1>5, HeadTailProperties
  <1>7. /\ Contents' \in Seq(Byte)
        /\ Len(Contents') = elements - 1
        /\ \A i \in 1..elements - 1 : Contents'[i] = data'[SlotOf(i)']
    BY <1>1, <1>4, SlotOfInRange DEF Contents, IInv, TypeOK
  <1>8. \A i \in 1..elements - 1 : Contents'[i] = Tail(Contents)[i]
    <2> TAKE i \in 1..elements - 1
    <2>1. Contents[i + 1] = data[SlotOf(i + 1)]
      BY <1>1, ContentsIsSeq
    <2> QED  BY <2>1, <1>4, <1>6, <1>7
  <1>9. Contents' = Tail(Contents)
    BY <1>6, <1>7, <1>8, SeqEqual
  <1> QED  BY <1>1, <1>3, <1>5, <1>9

LEMMA InitRefines == Init => Fifo!Init
  BY DEF Init, Fifo!Init, Contents

LEMMA NextRefines == IInv /\ [Next]_vars => [Fifo!Next]_(Fifo!vars)
  <1> SUFFICES ASSUME IInv, [Next]_vars PROVE [Fifo!Next]_(Fifo!vars)
    OBVIOUS
  <1>1. ASSUME NEW b \in Byte, AddElement(b) PROVE Fifo!Next
    <2>1. CASE Store(b)
      <3>1. Fifo!Accept(b)
        BY <1>1, <2>1, StoreAppends, ContentsIsSeq DEF AddElement, Store, HasRoom, Fifo!Accept
      <3> QED  BY <3>1 DEF Fifo!Next
    <2>2. CASE Drop
      <3>1. Contents' = Contents
        BY <2>2 DEF Drop, ring, Contents, SlotOf
      <3>2. elements = Size
        BY <2>2, SizeAssumption DEF Drop, HasRoom, IInv, TypeOK
      <3>3. Fifo!Lose
        BY <1>1, <2>2, <3>1, <3>2, ContentsIsSeq DEF Drop, AddElement, Fifo!Lose
      <3> QED  BY <3>3 DEF Fifo!Next
    <2> QED  BY <1>1, <2>1, <2>2 DEF AddElement
  <1>2. CASE HasElement
    <2>1. Contents' = Contents
      BY <1>2 DEF HasElement, ring, Contents, SlotOf
    <2> QED  BY <1>2, <2>1 DEF HasElement, Fifo!vars
  <1>3. CASE GetElement
    <2>1. Fifo!Take
      BY <1>3, GetTakesHead DEF GetElement, Fifo!Take
    <2> QED  BY <2>1 DEF Fifo!Next
  <1>4. CASE UNCHANGED vars
    <2>1. Contents' = Contents
      BY <1>4 DEF vars, Contents, SlotOf
    <2> QED  BY <1>4, <2>1 DEF vars, Fifo!vars
  <1> QED  BY <1>1, <1>2, <1>3, <1>4 DEF Next, Consume

(* RingBuffer.c, shared by an interrupt and a polling loop, is a bounded    *)
(* lossy queue for every size and alphabet.                                *)
THEOREM RingImplementsFifo == Spec => ImplementsFifo
  <1>1. Init /\ [][Next]_vars => []IInv
    BY InitIInv, NextIInv, PTL
  <1>2. IInv /\ [Next]_vars => [Fifo!Next]_(Fifo!vars)
    BY NextRefines
  <1> QED  BY <1>1, <1>2, InitRefines, PTL DEF Spec, ImplementsFifo, Fifo!Spec

LEMMA ConservationStep ==
    ASSUME IInv, Conservation, [Next]_vars
    PROVE  Conservation'
  <1>1. /\ Contents \in Seq(Byte)
        /\ delivered \in Seq(Byte)
    BY ContentsIsSeq DEF IInv, TypeOK
  <1>2. ASSUME NEW b \in Byte, Fifo!Accept(b) PROVE Conservation'
    <2>1. /\ Append(accepted, b) = accepted \o <<b>>
          /\ Append(Contents, b) = Contents \o <<b>>
      BY <1>1, AppendIsConcat DEF IInv, TypeOK
    <2>2. delivered \o (Contents \o <<b>>) = (delivered \o Contents) \o <<b>>
      BY <1>1, ConcatAssociative
    <2> QED  BY <1>2, <2>1, <2>2 DEF Fifo!Accept, Conservation, Fifo!Conservation
  <1>3. CASE Fifo!Lose
    BY <1>3 DEF Fifo!Lose, Conservation, Fifo!Conservation
  <1>4. CASE Fifo!Take
    <2>1. Contents = <<Head(Contents)>> \o Tail(Contents)
      BY <1>1, <1>4 DEF Fifo!Take
    <2>2. /\ Head(Contents) \in Byte
          /\ Tail(Contents) \in Seq(Byte)
      BY <1>1, <1>4, HeadTailProperties DEF Fifo!Take
    <2>3. delivered \o (<<Head(Contents)>> \o Tail(Contents))
             = (delivered \o <<Head(Contents)>>) \o Tail(Contents)
      BY <1>1, <2>2, ConcatAssociative
    <2>4. Append(delivered, Head(Contents)) = delivered \o <<Head(Contents)>>
      BY <1>1, <2>2, AppendIsConcat
    <2> QED  BY <1>4, <2>1, <2>3, <2>4 DEF Fifo!Take, Conservation, Fifo!Conservation
  <1>5. CASE UNCHANGED Fifo!vars
    BY <1>5 DEF Fifo!vars, Conservation, Fifo!Conservation
  <1> QED  BY <1>2, <1>3, <1>4, <1>5, NextRefines DEF Fifo!Next

(* The bytes that left and the bytes still stored are the bytes that        *)
(* entered, in order.                                                      *)
THEOREM RingConserves == Spec => []Conservation
  <1>1. Init => Conservation
    BY InitRefines DEF Fifo!Init, Conservation, Fifo!Conservation
  <1>2. IInv /\ Conservation /\ [Next]_vars => Conservation'
    BY ConservationStep
  <1> QED  BY InitIInv, NextIInv, <1>1, <1>2, PTL DEF Spec
=============================================================================
