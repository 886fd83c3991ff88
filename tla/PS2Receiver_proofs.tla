------------------------- MODULE PS2Receiver_proofs -------------------------
(* Proofs about PS2Receiver: for every script and any number of commands,   *)
(* on a clean line with any data pin, and with one disturbed bit on a pin   *)
(* of weight 1, the receiver keeps step with the device and queues exactly  *)
(* what it sends.                                                          *)
EXTENDS PS2Receiver, FiniteSetTheorems, TLAPS

Tolerable == MaxFaults = 0 \/ (MaxFaults = 1 /\ DataMask = 1)

-----------------------------------------------------------------------------
(* Parity. *)

Flip(b, i) == IF i \in b THEN b \ {i} ELSE b \cup {i}

LEMMA ByteCardinality ==
    ASSUME NEW b \in Byte
    PROVE  IsFiniteSet(b) /\ Cardinality(b) \in Nat
  <1>1. IsFiniteSet(0..7)
    <2>1. 0 \in Int /\ 7 \in Int
      OBVIOUS
    <2> QED  BY <2>1, FS_Interval, Zenon
  <1>2. IsFiniteSet(b)
    BY <1>1, FS_Subset DEF Byte
  <1> QED  BY <1>2, FS_CardinalityType

LEMMA ParityIsBit ==
    ASSUME NEW b \in Byte
    PROVE  parity_even_bit(b) \in {0, 1}
  BY ByteCardinality DEF parity_even_bit

(* One flipped bit changes the parity: the code's check can see it. *)
LEMMA FlipChangesParity ==
    ASSUME NEW b \in Byte, NEW i \in 0..7
    PROVE  /\ Flip(b, i) \in Byte
           /\ parity_even_bit(Flip(b, i)) = 1 - parity_even_bit(b)
  <1>1. IsFiniteSet(b) /\ Cardinality(b) \in Nat
    BY ByteCardinality
  <1>2. Flip(b, i) \in Byte
    BY DEF Flip, Byte
  <1>3. Cardinality(Flip(b, i)) \in Nat
    BY <1>2, ByteCardinality
  <1>4. CASE i \in b
    <2>1. Cardinality(Flip(b, i)) = Cardinality(b) - 1
      BY <1>1, <1>4, FS_RemoveElement DEF Flip
    <2> QED  BY <1>1, <1>2, <1>3, <2>1 DEF parity_even_bit
  <1>5. CASE i \notin b
    <2>1. Cardinality(Flip(b, i)) = Cardinality(b) + 1
      BY <1>1, <1>5, FS_AddElement DEF Flip
    <2> QED  BY <1>1, <1>2, <1>3, <2>1 DEF parity_even_bit
  <1> QED  BY <1>4, <1>5

-----------------------------------------------------------------------------
(* Type correctness. *)

LEMMA SomeBytes == {} \in Byte /\ Ack \in Byte
  BY DEF Byte, Ack

LEMMA InitType == Init => TypeOK
  <1> SUFFICES ASSUME Init PROVE TypeOK
    OBVIOUS
  <1>1. out \in Seq(Byte)
    BY ScriptsAssumption DEF Init
  <1>2. masked \in BOOLEAN /\ disturbed \in BOOLEAN
    BY Zenon DEF Init
  <1>3. <<>> \in Seq(Byte)
    OBVIOUS
  <1> QED  BY <1>1, <1>2, <1>3, SomeBytes, BoundsAssumption DEF Init, TypeOK

LEMMA NextBitType ==
    ASSUME TypeOK, out # <<>>, NextBit
    PROVE  out' \in Seq(Byte) /\ pos' \in 1..11 /\ sent' \in Seq(Byte)
  <1>1. Head(out) \in Byte /\ Tail(out) \in Seq(Byte)
    BY DEF TypeOK
  <1>2. Append(sent, Head(out)) \in Seq(Byte)
    BY <1>1 DEF TypeOK
  <1>3. CASE pos = 11
    <2>1. sent' = sent \/ sent' = Append(sent, Head(out))
      BY <1>3, Zenon DEF NextBit
    <2>2. pos' = 1 /\ out' = Tail(out)
      BY <1>3, Zenon DEF NextBit
    <2>3. sent \in Seq(Byte)
      BY DEF TypeOK
    <2>4. sent' \in Seq(Byte)
      BY <1>2, <2>1, <2>3
    <2>5. out' \in Seq(Byte) /\ pos' \in 1..11
      BY <1>1, <2>2
    <2> QED  BY <2>4, <2>5
  <1>4. CASE pos # 11
    BY <1>4 DEF TypeOK, NextBit
  <1> QED  BY <1>3, <1>4

LEMMA ClockType ==
    ASSUME TypeOK, NEW flip \in BOOLEAN, ClockInterrupt(flip)
    PROVE  TypeOK'
  <1> DEFINE level == Level(Head(out), pos)
  <1> DEFINE high == IF flip THEN ~level ELSE level
  <1>1. out # <<>> /\ faults' \in 0..MaxFaults /\ disturbed' \in BOOLEAN
    BY BoundsAssumption DEF TypeOK, ClockInterrupt
  <1>2. masked' = masked /\ sends' = sends
    BY DEF ClockInterrupt
  <1>3. out' \in Seq(Byte) /\ pos' \in 1..11 /\ sent' \in Seq(Byte)
    BY <1>1, NextBitType DEF ClockInterrupt, Restart, TypeOK
  <1>4. bit_n' \in 1..11 /\ buffer' \in Byte /\ error' \in {0, 1} /\ received' \in Seq(Byte)
    <2> HIDE DEF high, level
    <2>1. CASE StartBit(high)
      BY <2>1 DEF StartBit, TypeOK
    <2>2. CASE DataBit(high)
      <3>1. buffer' \in Byte
        BY <2>2 DEF DataBit, TypeOK, Byte
      <3> QED  BY <2>2, <3>1 DEF DataBit, TypeOK
    <2>3. CASE ParityBit(high)
      BY <2>3 DEF ParityBit, TypeOK
    <2>4. CASE StopBit(high)
      BY <2>4, SomeBytes DEF StopBit, TypeOK
    <2>5. CASE RequestResend /\ UNCHANGED received
      BY <2>5, SomeBytes DEF RequestResend, TypeOK
    <2>6. CASE GiveUp /\ UNCHANGED received
      BY <2>6 DEF GiveUp, host, TypeOK
    <2> QED  BY <2>1, <2>2, <2>3, <2>4, <2>5, <2>6 DEF ClockInterrupt, high, level
  <1> QED  BY <1>1, <1>2, <1>3, <1>4 DEF TypeOK

LEMMA NextType == TypeOK /\ [Next]_vars => TypeOK'
  <1> SUFFICES ASSUME TypeOK, [Next]_vars PROVE TypeOK'
    OBVIOUS
  <1>1. ASSUME NEW flip \in BOOLEAN, ClockInterrupt(flip) PROVE TypeOK'
    BY <1>1, ClockType
  <1>2. CASE UnseenEdge
    BY <1>2, NextBitType DEF UnseenEdge, host, TypeOK
  <1>3. CASE MaskClock
    BY <1>3, BoundsAssumption DEF MaskClock, ClearState, device, TypeOK, Byte
  <1>4. CASE TransmitCommand
    <2>1. masked' \in BOOLEAN /\ disturbed' \in BOOLEAN
      BY <1>4, Zenon DEF TransmitCommand
    <2>2. out' \in Seq(Byte)
      BY <1>4, SomeBytes DEF TransmitCommand
    <2> QED  BY <1>4, <2>1, <2>2 DEF TransmitCommand, host, TypeOK
  <1>5. CASE UNCHANGED vars
    BY <1>5 DEF vars, TypeOK
  <1> QED  BY <1>1, <1>2, <1>3, <1>4, <1>5 DEF Next

(* bit_n stays in 1..11, so the shift 1 << (bit_n - 2) stays in the byte. *)
THEOREM TypeCorrect == Spec => []TypeOK
  BY InitType, NextType, PTL DEF Spec

-----------------------------------------------------------------------------
(* The inductive invariant.  While the host listens its buffer holds the    *)
(* data bits the device has sent so far; if one was disturbed on the way,   *)
(* all but that one, and the parity bit is still to come.                   *)

SentSoFar == {i \in Head(out) : i + 2 < pos}

HostInStep ==
    /\ bit_n = pos
    /\ out = <<>> => buffer = {}
    /\ out # <<>> /\ ~disturbed => buffer = SentSoFar
    /\ disturbed => /\ error = 0
                    /\ pos <= 10
                    /\ \E i \in 0..7 : i + 2 < pos /\ buffer = Flip(SentSoFar, i)

IInv ==
    /\ TypeOK
    /\ Faithful
    /\ out = <<>> => pos = 1
    /\ disturbed => pos # 1 /\ faults > 0
    /\ error = 1 => faults > 0
    /\ IF masked THEN bit_n = 1 /\ buffer = {} ELSE HostInStep

LEMMA InitIInv == Init => IInv
  <1> SUFFICES ASSUME Init PROVE IInv
    OBVIOUS
  <1>1. ASSUME out # <<>> PROVE SentSoFar = {}
    <2>1. Head(out) \in Byte
      BY <1>1, InitType DEF TypeOK
    <2> QED  BY <2>1 DEF Init, SentSoFar, Byte
  <1> QED  BY <1>1, InitType DEF Init, IInv, HostInStep, Faithful

(* A clean parity bit is never taken for a wrong one, whatever the pin. *)
LEMMA CleanParityPasses ==
    ASSUME NEW b \in Byte
    PROVE  bit_is_set(Level(b, 10)) # parity_even_bit(b)
  <1>1. parity_even_bit(b) \in {0, 1}
    BY ParityIsBit
  <1> QED  BY <1>1, MaskAssumption DEF bit_is_set, Level

(* An undisturbed bit leaves the levels the check expects: parity passes    *)
(* when the buffer is the byte sent.                                       *)
LEMMA SentSoFarIsByte ==
    ASSUME TypeOK, out # <<>>
    PROVE  /\ Head(out) \in Byte
           /\ SentSoFar \in Byte
           /\ pos >= 10 => SentSoFar = Head(out)
           /\ pos = 1 => SentSoFar = {}
  <1>1. Head(out) \in Byte /\ pos \in Int
    BY DEF TypeOK
  <1>2. \A i \in Head(out) : i \in 0..7
    BY <1>1 DEF Byte
  <1>3. SentSoFar = {i \in Head(out) : i + 2 < pos}
    BY DEF SentSoFar
  <1>4. SentSoFar \in Byte
    BY <1>2, <1>3 DEF Byte
  <1>5. ASSUME pos >= 10 PROVE SentSoFar = Head(out)
    <2>1. \A i \in Head(out) : i + 2 < pos
      BY <1>1, <1>2, <1>5
    <2> QED  BY <1>3, <2>1
  <1>6. ASSUME pos = 1 PROVE SentSoFar = {}
    <2>1. \A i \in Head(out) : ~(i + 2 < pos)
      BY <1>2, <1>6
    <2> QED  BY <1>3, <2>1
  <1> QED  BY <1>1, <1>4, <1>5, <1>6

(* The next data bit joins what was sent so far. *)
LEMMA NextDataBit ==
    ASSUME TypeOK, out # <<>>, pos \in 2..9, out' = out, pos' = pos + 1
    PROVE  SentSoFar' = IF Level(Head(out), pos) THEN SentSoFar \cup {pos - 2}
                                                 ELSE SentSoFar
  <1>1. Level(Head(out), pos) <=> (pos - 2 \in Head(out))
    BY DEF Level
  <1>2. Head(out) \in Byte /\ pos \in Int
    BY DEF TypeOK
  <1>3. SentSoFar' = {i \in Head(out) : i + 2 < pos + 1}
    BY DEF SentSoFar
  <1> QED  BY <1>1, <1>2, <1>3 DEF SentSoFar, Byte

(* While the host listens in step with the device, an edge that does not    *)
(* disturb anything new, in a frame nothing disturbed, is never an error.   *)
LEMMA CleanIsNotCorrupt ==
    ASSUME IInv, ~masked, out # <<>>, ~disturbed
    PROVE  ~Corrupt(Level(Head(out), pos))
  <1>1. bit_n = pos /\ buffer = SentSoFar
    BY DEF IInv, HostInStep
  <1>2. CASE pos = 10
    BY <1>1, <1>2, SentSoFarIsByte, CleanParityPasses DEF IInv, Corrupt, ParityWrong
  <1>3. CASE pos = 11
    BY <1>1, <1>3 DEF Corrupt, StopWrong, Level
  <1> QED  BY <1>1, <1>2, <1>3 DEF Corrupt

(* On a pin of weight 1 a disturbed frame reaches its parity bit and fails  *)
(* the check there.                                                        *)
LEMMA DisturbedIsCaught ==
    ASSUME IInv, DataMask = 1, ~masked, out # <<>>, disturbed, pos = 10
    PROVE  ParityWrong(Level(Head(out), 10))
  <1> DEFINE b == Head(out)
  <1>1. PICK i \in 0..7 : buffer = Flip(b, i)
    BY SentSoFarIsByte DEF IInv, HostInStep
  <1>2. parity_even_bit(buffer) = 1 - parity_even_bit(b)
    BY <1>1, SentSoFarIsByte, FlipChangesParity DEF IInv
  <1>3. parity_even_bit(b) \in {0, 1}
    BY SentSoFarIsByte, ParityIsBit DEF IInv
  <1> QED  BY <1>2, <1>3 DEF ParityWrong, bit_is_set, Level

(* A disturbed parity bit fails the check at once. *)
LEMMA FlippedParityIsCaught ==
    ASSUME IInv, DataMask = 1, ~masked, out # <<>>, ~disturbed, pos = 10
    PROVE  ParityWrong(~Level(Head(out), 10))
  <1> DEFINE b == Head(out)
  <1>1. buffer = b /\ b \in Byte
    BY SentSoFarIsByte DEF IInv, HostInStep
  <1>2. parity_even_bit(b) \in {0, 1}
    BY <1>1, ParityIsBit
  <1> QED  BY <1>1, <1>2 DEF ParityWrong, bit_is_set, Level

-----------------------------------------------------------------------------
(* The clock interrupt preserves the invariant: one lemma for each way the  *)
(* handler can go.                                                         *)

Bit(flip) == IF flip THEN ~Level(Head(out), pos) ELSE Level(Head(out), pos)

(* What the guards and the bookkeeping of an edge say, whatever the branch. *)
EdgeFacts(flip) ==
    /\ IInv /\ out # <<>> /\ ~masked /\ ~masked'
    /\ flip => pos # 1 /\ ~disturbed /\ faults = 0 /\ DataMask = 1
    /\ disturbed => DataMask = 1
    /\ disturbed' <=> (pos' # 1 /\ (disturbed \/ flip))
    /\ faults' = IF flip THEN faults + 1 ELSE faults
    /\ TypeOK'

LEMMA StartStep ==
    ASSUME NEW flip \in BOOLEAN, EdgeFacts(flip), StartBit(Bit(flip)), NextBit
    PROVE  IInv'
  <1>1. bit_n = 1 /\ pos = 1 /\ ~flip /\ ~disturbed /\ buffer = {}
    BY SentSoFarIsByte DEF EdgeFacts, IInv, HostInStep, StartBit
  <1>2. bit_n' = 2 /\ pos' = 2 /\ UNCHANGED <<buffer, error, received, out, sent>>
    BY <1>1 DEF StartBit, NextBit, Bit, Level
  <1>3. ~disturbed' /\ faults' = faults
    BY <1>1 DEF EdgeFacts
  <1>4. SentSoFar' = {}
    <2>1. Head(out) \in Byte
      BY SentSoFarIsByte DEF EdgeFacts, IInv
    <2> QED  BY <1>2, <2>1 DEF SentSoFar, Byte
  <1>5. HostInStep'
    BY <1>1, <1>2, <1>3, <1>4 DEF HostInStep, EdgeFacts
  <1> QED  BY <1>2, <1>3, <1>5 DEF EdgeFacts, IInv, Faithful

LEMMA DataStep ==
    ASSUME NEW flip \in BOOLEAN, EdgeFacts(flip), DataBit(Bit(flip)), NextBit
    PROVE  IInv'
  <1>1. bit_n = pos /\ pos \in 2..9
    BY DEF EdgeFacts, IInv, HostInStep, DataBit
  <1>2. bit_n' = pos' /\ pos' = pos + 1 /\ UNCHANGED <<error, received, out, sent>>
    BY <1>1 DEF DataBit, NextBit
  <1>3. SentSoFar' = IF Level(Head(out), pos) THEN SentSoFar \cup {pos - 2} ELSE SentSoFar
    BY <1>1, <1>2, NextDataBit DEF EdgeFacts, IInv
  <1>4. SentSoFar \in Byte /\ pos - 2 \in 0..7 /\ pos - 2 \notin SentSoFar
    <2>1. SentSoFar \in Byte
      BY SentSoFarIsByte DEF EdgeFacts, IInv
    <2>2. pos - 2 \notin SentSoFar
      BY <1>1 DEF SentSoFar
    <2> QED  BY <1>1, <2>1, <2>2
  <1>5. buffer' = IF Bit(flip) THEN buffer \cup {pos - 2} ELSE buffer
    BY <1>1 DEF DataBit
  <1>6. CASE ~disturbed /\ ~flip
    <2>1. buffer = SentSoFar
      BY <1>6 DEF EdgeFacts, IInv, HostInStep
    <2>2. buffer' = SentSoFar' /\ ~disturbed' /\ faults' = faults
      BY <1>3, <1>5, <1>6, <2>1 DEF Bit, EdgeFacts
    <2>3. HostInStep'
      BY <1>2, <2>2 DEF HostInStep, EdgeFacts
    <2> QED  BY <1>2, <2>2, <2>3 DEF EdgeFacts, IInv, Faithful
  <1>7. CASE ~disturbed /\ flip
    <2>1. buffer = SentSoFar /\ error = 0
      BY <1>7 DEF EdgeFacts, IInv, HostInStep, TypeOK
    <2>2. buffer' = Flip(SentSoFar', pos - 2)
      <3>1. CASE Level(Head(out), pos)
        BY <1>3, <1>4, <1>5, <1>7, <2>1, <3>1 DEF Bit, Flip
      <3>2. CASE ~Level(Head(out), pos)
        BY <1>3, <1>4, <1>5, <1>7, <2>1, <3>2 DEF Bit, Flip
      <3> QED  BY <3>1, <3>2
    <2>3. faults' = 1 /\ pos' # 1 /\ pos' <= 10
      BY <1>1, <1>2, <1>7 DEF EdgeFacts
    <2>4. \E i \in 0..7 : i + 2 < pos' /\ buffer' = Flip(SentSoFar', i)
      <3>1. pos - 2 + 2 < pos'
        BY <1>1, <1>2
      <3> QED  BY <1>4, <2>2, <3>1
    <2>5. HostInStep'
      BY <1>2, <1>7, <2>1, <2>3, <2>4 DEF HostInStep, EdgeFacts
    <2> QED  BY <1>2, <2>1, <2>3, <2>5 DEF EdgeFacts, IInv, Faithful
  <1>8. CASE disturbed /\ ~flip
    <2>1. error = 0 /\ faults > 0
      BY <1>8 DEF EdgeFacts, IInv, HostInStep
    <2>2. PICK i \in 0..7 : i + 2 < pos /\ buffer = Flip(SentSoFar, i)
      BY <1>8 DEF EdgeFacts, IInv, HostInStep
    <2>3. i # pos - 2
      BY <1>1, <2>2
    <2>4. buffer' = Flip(SentSoFar', i)
      <3>1. CASE Level(Head(out), pos)
        BY <1>3, <1>4, <1>5, <1>8, <2>2, <2>3, <3>1 DEF Bit, Flip
      <3>2. CASE ~Level(Head(out), pos)
        BY <1>3, <1>4, <1>5, <1>8, <2>2, <2>3, <3>2 DEF Bit, Flip
      <3> QED  BY <3>1, <3>2
    <2>5. i + 2 < pos' /\ pos' # 1 /\ pos' <= 10 /\ faults' = faults
      BY <1>1, <1>2, <1>8, <2>2 DEF EdgeFacts
    <2>6. HostInStep'
      BY <1>2, <2>1, <2>4, <2>5, <1>8 DEF HostInStep, EdgeFacts
    <2> QED  BY <1>2, <2>1, <2>5, <2>6 DEF EdgeFacts, IInv, Faithful
  <1>9. disturbed => ~flip
    BY DEF EdgeFacts
  <1> QED  BY <1>6, <1>7, <1>8, <1>9

LEMMA ParityStep ==
    ASSUME NEW flip \in BOOLEAN, EdgeFacts(flip), ParityBit(Bit(flip)), NextBit
    PROVE  IInv'
  <1>1. bit_n = 10 /\ pos = 10
    BY DEF EdgeFacts, IInv, HostInStep, ParityBit
  <1>2. ~flip
    BY <1>1, FlippedParityIsCaught DEF EdgeFacts, ParityBit, Bit
  <1>3. ~disturbed
    BY <1>1, <1>2, DisturbedIsCaught DEF EdgeFacts, ParityBit, Bit
  <1>4. bit_n' = 11 /\ pos' = 11 /\ UNCHANGED <<buffer, error, received, out, sent>>
    BY <1>1 DEF ParityBit, NextBit
  <1>5. ~disturbed' /\ faults' = faults
    BY <1>2, <1>3 DEF EdgeFacts
  <1>6. buffer = Head(out) /\ SentSoFar' = Head(out)
    <2>1. Head(out) \in Byte /\ SentSoFar = Head(out)
      BY <1>1, SentSoFarIsByte DEF EdgeFacts, IInv
    <2>2. SentSoFar' = Head(out)
      BY <1>4, <2>1 DEF SentSoFar, Byte
    <2> QED  BY <1>3, <2>1, <2>2 DEF EdgeFacts, IInv, HostInStep
  <1>7. HostInStep'
    BY <1>4, <1>5, <1>6 DEF HostInStep, EdgeFacts
  <1> QED  BY <1>4, <1>5, <1>7 DEF EdgeFacts, IInv, Faithful

LEMMA StopStep ==
    ASSUME NEW flip \in BOOLEAN, EdgeFacts(flip), StopBit(Bit(flip)), NextBit
    PROVE  IInv'
  <1>1. bit_n = 11 /\ pos = 11 /\ ~disturbed
    BY DEF EdgeFacts, IInv, HostInStep, StopBit
  <1>2. ~flip
    BY <1>1 DEF EdgeFacts, StopBit, StopWrong, Bit, Level
  <1>3. buffer = Head(out)
    BY <1>1, SentSoFarIsByte DEF EdgeFacts, IInv, HostInStep
  <1>4. /\ received' = Append(received, buffer) /\ buffer' = {} /\ bit_n' = 1 /\ error' = 0
        /\ pos' = 1
    BY <1>1 DEF StopBit, NextBit
  <1>5. sent' = Append(sent, Head(out))
    BY <1>1 DEF NextBit, EdgeFacts
  <1>6. ~disturbed'
    BY <1>4 DEF EdgeFacts
  <1>7. out' # <<>> => SentSoFar' = {}
    <2> SUFFICES ASSUME out' # <<>> PROVE SentSoFar' = {}
      OBVIOUS
    <2>1. (Head(out))' \in Byte
      BY DEF EdgeFacts, TypeOK
    <2> QED  BY <1>4, <2>1 DEF SentSoFar, Byte
  <1>8. HostInStep'
    BY <1>4, <1>6, <1>7 DEF HostInStep
  <1>9. Faithful'
    BY <1>3, <1>4, <1>5 DEF EdgeFacts, IInv, Faithful
  <1> QED  BY <1>4, <1>6, <1>8, <1>9 DEF EdgeFacts, IInv

LEMMA CorruptMeansFault ==
    ASSUME NEW flip \in BOOLEAN, EdgeFacts(flip), Corrupt(Bit(flip))
    PROVE  faults' > 0 /\ error = 0
  <1>1. flip \/ disturbed
    BY CleanIsNotCorrupt DEF EdgeFacts, Bit
  <1>2. CASE flip
    BY <1>2 DEF EdgeFacts, IInv, TypeOK
  <1>3. CASE disturbed
    BY <1>3 DEF EdgeFacts, IInv, HostInStep
  <1> QED  BY <1>1, <1>2, <1>3

LEMMA ResendStep ==
    ASSUME NEW flip \in BOOLEAN, EdgeFacts(flip), Corrupt(Bit(flip)),
           RequestResend, Restart, UNCHANGED received
    PROVE  IInv'
  <1>1. faults' > 0
    BY CorruptMeansFault
  <1>2. /\ buffer' = {} /\ bit_n' = 1 /\ pos' = 1
        /\ UNCHANGED <<out, sent, received>>
    BY DEF RequestResend, Restart
  <1>3. ~disturbed'
    BY <1>2 DEF EdgeFacts
  <1>4. SentSoFar' = {}
    <2>1. Head(out) \in Byte
      BY SentSoFarIsByte DEF EdgeFacts, IInv
    <2> QED  BY <1>2, <2>1 DEF SentSoFar, Byte
  <1>5. HostInStep'
    BY <1>2, <1>3, <1>4 DEF HostInStep
  <1> QED  BY <1>1, <1>2, <1>3, <1>5 DEF EdgeFacts, IInv, Faithful

LEMMA ClockIInv ==
    ASSUME Tolerable, IInv, NEW flip \in BOOLEAN, ClockInterrupt(flip)
    PROVE  IInv'
  <1>1. EdgeFacts(flip)
    <2>1. flip => faults = 0 /\ DataMask = 1
      BY BoundsAssumption DEF ClockInterrupt, Tolerable, IInv, TypeOK
    <2>2. disturbed => DataMask = 1
      BY BoundsAssumption DEF Tolerable, IInv, TypeOK
    <2>3. TypeOK'
      BY ClockType DEF IInv
    <2>4. ~masked /\ ~masked'
      BY Zenon DEF ClockInterrupt
    <2>5. disturbed' <=> (pos' # 1 /\ (disturbed \/ flip))
      BY Zenon DEF ClockInterrupt
    <2>6. flip => pos # 1 /\ ~disturbed
      BY Zenon DEF ClockInterrupt
    <2> QED  BY <2>1, <2>2, <2>3, <2>4, <2>5, <2>6 DEF ClockInterrupt, EdgeFacts
  <1>2. \/ StartBit(Bit(flip)) /\ NextBit
        \/ DataBit(Bit(flip)) /\ NextBit
        \/ ParityBit(Bit(flip)) /\ NextBit
        \/ StopBit(Bit(flip)) /\ NextBit
        \/ Corrupt(Bit(flip)) /\ RequestResend /\ Restart /\ UNCHANGED received
        \/ Corrupt(Bit(flip)) /\ error = 1
    BY Zenon DEF ClockInterrupt, Bit
  <1>3. ~(Corrupt(Bit(flip)) /\ error = 1)
    BY <1>1, CorruptMeansFault
  <1> QED  BY <1>1, <1>2, <1>3, StartStep, DataStep, ParityStep, StopStep, ResendStep

LEMMA NextIInv == Tolerable /\ IInv /\ [Next]_vars => IInv'
  <1> SUFFICES ASSUME Tolerable, IInv, [Next]_vars PROVE IInv'
    OBVIOUS
  <1>1. TypeOK'
    BY NextType DEF IInv
  <1>2. ASSUME NEW flip \in BOOLEAN, ClockInterrupt(flip) PROVE IInv'
    BY <1>2, ClockIInv
  <1>3. CASE UnseenEdge
    <2>1. masked /\ masked' /\ (disturbed' <=> pos' # 1 /\ disturbed)
      BY <1>3, Zenon DEF UnseenEdge
    <2>2. UNCHANGED <<bit_n, buffer, error, received, faults>>
      BY <1>3 DEF UnseenEdge, host
    <2>3. sent' = sent
      BY <1>3, <2>1 DEF UnseenEdge, NextBit
    <2>4. out' = <<>> => pos' = 1
      BY <1>3 DEF UnseenEdge, NextBit
    <2> QED  BY <1>1, <2>1, <2>2, <2>3, <2>4 DEF IInv, Faithful
  <1>4. CASE MaskClock
    <2>1. masked' /\ disturbed' = disturbed
      BY <1>4, Zenon DEF MaskClock
    <2>2. /\ UNCHANGED <<out, pos, sent, received, faults>>
          /\ bit_n' = 1 /\ buffer' = {} /\ error' = 0
      BY <1>4 DEF MaskClock, device, ClearState
    <2> QED  BY <1>1, <2>1, <2>2 DEF IInv, Faithful
  <1>5. CASE TransmitCommand
    <2>1. masked /\ ~masked' /\ ~disturbed'
      BY <1>5, Zenon DEF TransmitCommand
    <2>2. /\ UNCHANGED <<bit_n, buffer, error, received, sent, faults>>
          /\ out' = <<Ack>> /\ pos' = 1
      BY <1>5 DEF TransmitCommand, host
    <2>3. bit_n = 1 /\ buffer = {}
      BY <2>1 DEF IInv
    <2>4. SentSoFar' = {}
      BY <2>2 DEF SentSoFar, Ack
    <2>5. HostInStep'
      BY <2>1, <2>2, <2>3, <2>4 DEF HostInStep
    <2> QED  BY <1>1, <2>1, <2>2, <2>5 DEF IInv, Faithful
  <1>6. CASE UNCHANGED vars
    <2>1. masked' = masked /\ disturbed' = disturbed
      BY <1>6, Zenon DEF vars
    <2> QED  BY <1>6, <2>1 DEF vars, IInv, TypeOK, Faithful, HostInStep, SentSoFar
  <1> QED  BY <1>2, <1>3, <1>4, <1>5, <1>6 DEF Next

(* The interrupt handler and the device count the same bits, for every      *)
(* script and every interleaving of frames, commands and one resend.       *)
THEOREM KeepsStep ==
    ASSUME Tolerable
    PROVE  Spec => []Aligned
  <1>1. IInv => Aligned
    BY DEF IInv, HostInStep, Aligned
  <1>2. IInv /\ [Next]_vars => IInv'
    BY NextIInv
  <1> QED  BY InitIInv, <1>1, <1>2, PTL DEF Spec

(* On a line that disturbs at most one bit, and on a pin of weight 1, or on *)
(* a clean line and any pin, every byte is queued once, in order and intact.*)
THEOREM DeliversFaithfully ==
    ASSUME Tolerable
    PROVE  Spec => []Faithful
  <1>1. IInv => Faithful
    BY DEF IInv
  <1>2. IInv /\ [Next]_vars => IInv'
    BY NextIInv
  <1> QED  BY InitIInv, <1>1, <1>2, PTL DEF Spec
=============================================================================
