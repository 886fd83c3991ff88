-------------------------- MODULE MouseReport_proofs --------------------------
(* Theorems about MouseReport for every set of packets, size of the ring,   *)
(* timeout and number of packets.                                          *)
EXTENDS MouseReport, TLAPS

(* What AbsoluteValue returns, by the three cases of a movement.            *)
LEMMA Magnitude ==
    ASSUME NEW m \in Reported
    PROVE  /\ m.overflow => AbsoluteValue(m) = 126
           /\ ~m.overflow /\ m.sign => AbsoluteValue(m) = 256 - m.data /\ m.data \in 1..255
           /\ ~m.overflow /\ ~m.sign => AbsoluteValue(m) = m.data
           /\ m.data \in 0..255 /\ m.sign \in BOOLEAN /\ m.overflow \in BOOLEAN
<1>1. m.data \in 0..255 /\ m.sign \in BOOLEAN /\ m.overflow \in BOOLEAN
  BY DEF Reported, Movement
<1>2. CASE m.overflow
  BY <1>1, <1>2 DEF AbsoluteValue, ACTION_VW_MAXVECTOR
<1>3. CASE ~m.overflow /\ m.sign
  <2>1. m.data \in 1..255
    BY <1>1, <1>3 DEF Reported
  <2>2. (256 - m.data) % 256 = 256 - m.data
    BY <2>1
  <2> QED
    BY <1>3, <1>1, <2>1, <2>2 DEF AbsoluteValue
<1>4. CASE ~m.overflow /\ ~m.sign
  BY <1>1, <1>4 DEF AbsoluteValue
<1> QED
  BY <1>1, <1>2, <1>3, <1>4

(* The curve as a function of the signed distance: in the middle it is a    *)
(* line with a step at 0, and from 34 on it is at the end of its range.     *)
Curve(d) == IF d = 0 THEN 128
            ELSE IF d > 33 THEN 255
            ELSE IF d < -33 THEN 0
            ELSE IF d > 0 THEN 153 + 3 * d ELSE 103 + 3 * d

(* The curve by its pieces, without the sets of its definition.             *)
LEMMA CurvePieces ==
    ASSUME NEW d \in -256..256
    PROVE  \/ d = 0 /\ Curve(d) = 128
           \/ 0 < d /\ d <= 33 /\ Curve(d) = 153 + 3 * d
           \/ -33 <= d /\ d < 0 /\ Curve(d) = 103 + 3 * d
           \/ 33 < d /\ Curve(d) = 255
           \/ d < -33 /\ Curve(d) = 0
<1>1. CASE d = 0
  BY <1>1 DEF Curve
<1>2. CASE 0 < d /\ d <= 33
  BY <1>2 DEF Curve
<1>3. CASE -33 <= d /\ d < 0
  BY <1>3 DEF Curve
<1>4. CASE 33 < d
  BY <1>4 DEF Curve
<1>5. CASE d < -33
  BY <1>5 DEF Curve
<1> QED
  BY <1>1, <1>2, <1>3, <1>4, <1>5

LEMMA ValIsCurve ==
    ASSUME NEW m \in Reported
    PROVE  Val(m) = Curve(Distance(m)) /\ Distance(m) \in -256..256
<1> DEFINE a == AbsoluteValue(m)
<1>1. /\ m.overflow => a = 126
      /\ ~m.overflow /\ m.sign => a = 256 - m.data /\ m.data \in 1..255
      /\ ~m.overflow /\ ~m.sign => a = m.data
      /\ m.data \in 0..255 /\ m.sign \in BOOLEAN /\ m.overflow \in BOOLEAN
  BY Magnitude
<1>2. Val(m) = IF a = 0 THEN (IF m.sign THEN 128 - 0 ELSE 128 + 0)
               ELSE IF 3 * a + 25 <= 126
                    THEN IF m.sign THEN 128 - (3 * a + 25) ELSE 128 + (3 * a + 25)
                    ELSE IF m.sign THEN 0 ELSE 255
  BY <1>1 DEF Val, Scaled, ACTION_VW_IDLE, ACTION_VW_DEAD_ZONE, ACTION_VW_MAXVECTOR
<1> HIDE DEF a
<1>3. CASE m.overflow
  <2>1. CASE m.sign
    <3>1. Val(m) = 0 /\ Distance(m) = -256
      BY <1>1, <1>2, <1>3, <2>1 DEF Distance, Beyond
    <3> QED
      BY <3>1 DEF Curve
  <2>2. CASE ~m.sign
    <3>1. Val(m) = 255 /\ Distance(m) = 256
      BY <1>1, <1>2, <1>3, <2>2 DEF Distance, Beyond
    <3> QED
      BY <3>1 DEF Curve
  <2> QED
    BY <2>1, <2>2
<1>4. CASE ~m.overflow /\ m.sign
  <2>1. Distance(m) = m.data - 256 /\ a = 256 - m.data /\ m.data \in 1..255
    BY <1>1, <1>4 DEF Distance
  <2>2. Distance(m) = -a /\ a \in 1..255
    BY <2>1
  <2>3. CASE a <= 33
    <3>1. Val(m) = 128 - (3 * a + 25)
      BY <1>2, <1>4, <2>2, <2>3
    <3> QED
      BY <3>1, <2>2, <2>3 DEF Curve
  <2>4. CASE a > 33
    <3>1. Val(m) = 0
      BY <1>2, <1>4, <2>2, <2>4
    <3> QED
      BY <3>1, <2>2, <2>4 DEF Curve
  <2> QED
    BY <2>2, <2>3, <2>4
<1>5. CASE ~m.overflow /\ ~m.sign
  BY <1>1, <1>2, <1>5 DEF Curve, Distance, Beyond
<1> QED
  BY <1>1, <1>3, <1>4, <1>5

-----------------------------------------------------------------------------
(* Val never wraps (val, pos and the dead zone are unsigned bytes): the      *)
(* position is a byte.                                                     *)
THEOREM PositionIsByte == \A m \in Reported : Val(m) \in 0..255
<1> SUFFICES ASSUME NEW m \in Reported PROVE Val(m) \in 0..255
  OBVIOUS
<1> DEFINE d == Distance(m)
<1>1. Val(m) = Curve(d) /\ d \in -256..256
  BY ValIsCurve
<1> HIDE DEF d
<1> QED
  BY <1>1 DEF Curve

(* Any movement gets the stick out of the game's dead zone, to its side     *)
(* (Val adds the dead zone to all but 0).                                   *)
THEOREM AlwaysLeavesDeadZone == \A m \in Reported : LeavesDeadZone(m, Val(m))
<1> SUFFICES ASSUME NEW m \in Reported PROVE LeavesDeadZone(m, Val(m))
  OBVIOUS
<1>1. Val(m) = Curve(Distance(m)) /\ Distance(m) \in -256..256
  BY ValIsCurve
<1> QED
  BY <1>1 DEF Curve, LeavesDeadZone, ACTION_VW_IDLE, ACTION_VW_DEAD_ZONE

(* A movement further to one side never puts the stick less to that side,   *)
(* also where Val cuts it off at the end of the range.                      *)
THEOREM CurveIsMonotone ==
    \A m, n \in Reported : Distance(n) >= Distance(m) => Val(n) >= Val(m)
<1> SUFFICES ASSUME NEW m \in Reported, NEW n \in Reported, Distance(n) >= Distance(m)
             PROVE  Val(n) >= Val(m)
  OBVIOUS
<1> DEFINE d == Distance(m)
           e == Distance(n)
<1>1. d \in -256..256 /\ e \in -256..256 /\ e >= d /\ Val(m) = Curve(d) /\ Val(n) = Curve(e)
  BY ValIsCurve
<1> HIDE DEF d, e
<1>2. \/ d = 0 /\ Curve(d) = 128
      \/ 0 < d /\ d <= 33 /\ Curve(d) = 153 + 3 * d
      \/ -33 <= d /\ d < 0 /\ Curve(d) = 103 + 3 * d
      \/ 33 < d /\ Curve(d) = 255
      \/ d < -33 /\ Curve(d) = 0
  BY <1>1, CurvePieces
<1>3. \/ e = 0 /\ Curve(e) = 128
      \/ 0 < e /\ e <= 33 /\ Curve(e) = 153 + 3 * e
      \/ -33 <= e /\ e < 0 /\ Curve(e) = 103 + 3 * e
      \/ 33 < e /\ Curve(e) = 255
      \/ e < -33 /\ Curve(e) = 0
  BY <1>1, CurvePieces
<1> QED
  BY <1>1, <1>2, <1>3

(* Left and right are alike: both positions are as far from the centre, or  *)
(* both are at the end of their range (AbsoluteValue, Val).                 *)
THEOREM CurveIsSymmetric ==
    \A m, n \in Reported :
        Distance(n) = -Distance(m) =>
            \/ Val(n) - ACTION_VW_IDLE = ACTION_VW_IDLE - Val(m)
            \/ {Val(m), Val(n)} = {0, 255}
<1> SUFFICES ASSUME NEW m \in Reported, NEW n \in Reported, Distance(n) = -Distance(m)
             PROVE  \/ Val(n) - ACTION_VW_IDLE = ACTION_VW_IDLE - Val(m)
                    \/ {Val(m), Val(n)} = {0, 255}
  OBVIOUS
<1>1. Val(m) = Curve(Distance(m)) /\ Distance(m) \in -256..256
  BY ValIsCurve
<1>2. Val(n) = Curve(Distance(n)) /\ Distance(n) \in -256..256
  BY ValIsCurve
<1>3. \/ Val(n) - 128 = 128 - Val(m)
      \/ Val(m) = 0 /\ Val(n) = 255
      \/ Val(m) = 255 /\ Val(n) = 0
  BY <1>1, <1>2 DEF Curve
<1> QED
  BY <1>3 DEF ACTION_VW_IDLE

-----------------------------------------------------------------------------
(* The position of an axis is a byte, whatever the mouse moved.             *)
LEMMA ValByte ==
    ASSUME NEW m \in Movement
    PROVE  Val(m) \in Byte /\ Flipped(Val(m)) \in Byte
<1>1. m.data \in 0..255 /\ m.sign \in BOOLEAN /\ m.overflow \in BOOLEAN
  BY DEF Movement
<1>2. (256 - m.data) % 256 \in 0..255
  BY <1>1
<1>3. AbsoluteValue(m) \in 0..255
  BY <1>1, <1>2 DEF AbsoluteValue, ACTION_VW_MAXVECTOR
<1> DEFINE val == Scaled(AbsoluteValue(m))
<1>4. val \in Nat
  BY <1>3 DEF Scaled, ACTION_VW_DEAD_ZONE
<1> HIDE DEF val
<1>5. Val(m) = IF val <= 126 THEN IF m.sign THEN 128 - val ELSE 128 + val
               ELSE IF m.sign THEN 0 ELSE 255
  BY DEF Val, val, ACTION_VW_IDLE, ACTION_VW_MAXVECTOR
<1>6. Val(m) \in 0..255
  BY <1>4, <1>5
<1> QED
  BY <1>6 DEF Byte, Flipped

LEMMA BitIsBoolean == \A header, n : Bit(header, n) \in BOOLEAN
  BY DEF Bit

-----------------------------------------------------------------------------
(* TriggerMeansSilence needs the ring: the trigger may have tripped long    *)
(* before the bytes that wait there deflect the stick, so as long as a byte *)
(* waits the trigger is due, and between its test and its clearing it was   *)
(* the byte's own clock edges that reloaded the timer.                     *)
BytesAreTimed ==
    /\ ring # <<>> => Due
    /\ pc \in {"check", "clear"} /\ ring # <<>> => timer > 0

IInv == TypeOK /\ TriggerMeansSilence /\ DeflectionHasDeadline /\ BytesAreTimed

LEMMA InitIInv == Init => IInv
<1> SUFFICES ASSUME Init PROVE IInv
  OBVIOUS
<1>1. TypeOK
  <2>1. z \in Byte /\ rz \in Byte /\ 0 \in 0..Timeout /\ 0 \in 0..MaxPackets
    BY ConstantsAssumption DEF Init, ACTION_VW_IDLE, Byte
  <2>2. <<>> \in Seq(Byte) /\ Len(<<>>) <= RingSize /\ Len(<<>>) <= 3
    BY ConstantsAssumption
  <2>3. Silent \in [1..4 -> Byte]
    BY DEF Silent, Byte
  <2> QED
    BY <2>1, <2>2, <2>3 DEF Init, TypeOK
<1>2. AtRest /\ ring = <<>> /\ action = 0
  BY DEF Init, AtRest
<1> QED
  BY <1>1, <1>2 DEF IInv, TriggerMeansSilence, DeflectionHasDeadline, BytesAreTimed

-----------------------------------------------------------------------------
(* A packet that is dispatched leaves the report well typed.                *)
LEMMA DispatchType ==
    ASSUME TypeOK, NEW p \in Seq(Byte), Len(p) = 4, Dispatch(p)
    PROVE  /\ z' \in Byte /\ rz' \in Byte
           /\ pressed' \subseteq {"R1", "L1", "RIGHT_HAT"}
           /\ buttons' \subseteq {"R1", "L1", "RIGHT_HAT", "R2", "L2"}
<1> DEFINE x == MoveX(p)
           y == MoveY(p)
<1>1. p[2] \in Byte /\ p[3] \in Byte
  OBVIOUS
<1>2. x \in Movement /\ y \in Movement
  BY <1>1, BitIsBoolean DEF Movement, Byte, MoveX, MoveY
<1>3. z' = Val(x) /\ rz' = Flipped(Val(y))
  BY DEF Dispatch
<1> HIDE DEF x, y
<1>4. z' \in Byte /\ rz' \in Byte
  BY <1>2, <1>3, ValByte
<1>5. pressed' \subseteq {"R1", "L1", "RIGHT_HAT"}
  BY DEF Dispatch, Down
<1>6. Clicked(p[1]) \subseteq {"R1", "L1", "RIGHT_HAT", "R2", "L2"}
  BY DEF Clicked, Down, TypeOK
<1>7. Wheel(p[4]) \subseteq {"R2", "L2"}
  BY DEF Wheel
<1>8. \/ buttons' = Clicked(p[1]) \ {"R2", "L2"}
      \/ buttons' = Clicked(p[1]) \cup Wheel(p[4])
  BY DEF Dispatch
<1>9. buttons' \subseteq {"R1", "L1", "RIGHT_HAT", "R2", "L2"}
  BY <1>6, <1>7, <1>8
<1> QED
  BY <1>4, <1>5, <1>9

LEMMA FilterType ==
    ASSUME TypeOK, NEW byte \in Byte, EventFilter(byte)
    PROVE  /\ packet' \in Seq(Byte) /\ Len(packet') <= 3
           /\ z' \in Byte /\ rz' \in Byte
           /\ pressed' \subseteq {"R1", "L1", "RIGHT_HAT"}
           /\ buttons' \subseteq {"R1", "L1", "RIGHT_HAT", "R2", "L2"}
<1> DEFINE gathered == Append(packet, byte)
<1>1. gathered \in Seq(Byte) /\ Len(gathered) = Len(packet) + 1 /\ Len(gathered) <= 4
  BY DEF TypeOK
<1>2. CASE ~InStep(byte) /\ UNCHANGED <<packet, pressed, report>>
  BY <1>2 DEF TypeOK, report
<1>3. CASE ~Full(gathered) /\ packet' = gathered /\ UNCHANGED <<pressed, report>>
  BY <1>1, <1>3 DEF TypeOK, report, Full
<1>4. CASE Full(gathered) /\ packet' = <<>> /\ Dispatch(gathered)
  <2>1. /\ z' \in Byte /\ rz' \in Byte
        /\ pressed' \subseteq {"R1", "L1", "RIGHT_HAT"}
        /\ buttons' \subseteq {"R1", "L1", "RIGHT_HAT", "R2", "L2"}
    BY <1>1, <1>4, DispatchType DEF Full
  <2> QED
    BY <1>4, <2>1
<1> QED
  BY <1>2, <1>3, <1>4 DEF EventFilter

-----------------------------------------------------------------------------
LEMMA PollStep == IInv /\ Poll => IInv'
<1> SUFFICES ASSUME IInv, Poll PROVE IInv'
  OBVIOUS
<1> USE DEF IInv
<1>1. pc = "poll" /\ UNCHANGED <<timer, action, out, said, packets, lost>>
  BY DEF Poll, trigger, mouse
<1>2. CASE ring # <<>> /\ ring' = Tail(ring) /\ EventFilter(Head(ring)) /\ UNCHANGED pc
  <2>1. Head(ring) \in Byte /\ ring' \in Seq(Byte) /\ Len(ring') <= RingSize
    BY <1>2, ConstantsAssumption DEF TypeOK
  <2>2. TypeOK'
    BY <1>1, <1>2, <2>1, FilterType DEF TypeOK
  <2>3. Due /\ Due'
    BY <1>1, <1>2 DEF BytesAreTimed, Due
  <2> QED
    BY <1>1, <1>2, <2>2, <2>3 DEF TriggerMeansSilence, DeflectionHasDeadline, BytesAreTimed
<1>3. CASE /\ ring = <<>> /\ pc' = "check"
           /\ UNCHANGED <<ring, packet, pressed, report>>
  <2>1. TypeOK'
    BY <1>1, <1>3 DEF TypeOK, report
  <2>2. (~AtRest => Due) /\ (AtRest' <=> AtRest) /\ (Due' <=> Due)
    BY <1>1, <1>3 DEF DeflectionHasDeadline, AtRest, Due, report
  <2> QED
    BY <1>1, <1>3, <2>1, <2>2
    DEF TriggerMeansSilence, DeflectionHasDeadline, BytesAreTimed
<1> QED
  BY <1>2, <1>3 DEF Poll

LEMMA CheckStep == IInv /\ Check => IInv'
<1> SUFFICES ASSUME IInv, Check PROVE IInv'
  OBVIOUS
<1>1. TypeOK'
  BY DEF IInv, Check, TypeOK, trigger, report, mouse
<1>2. /\ pc = "check" /\ (pc' = "clear" \/ (pc' = "poll" /\ action # 1))
      /\ UNCHANGED <<ring, timer, action>> /\ UNCHANGED <<z, rz, buttons>>
  BY DEF Check, trigger, report
<1>3. (AtRest' <=> AtRest) /\ (Due' <=> Due)
  BY <1>2 DEF AtRest, Due
<1> QED
  BY <1>1, <1>2, <1>3 DEF IInv, TriggerMeansSilence, DeflectionHasDeadline, BytesAreTimed

LEMMA ClearStep == IInv /\ Clear => IInv'
<1> SUFFICES ASSUME IInv, Clear PROVE IInv'
  OBVIOUS
<1>1. TypeOK'
  BY DEF IInv, Clear, TypeOK, report, mouse
<1>2. pc = "clear" /\ pc' = "recentre" /\ action' = 0 /\ UNCHANGED <<ring, timer>>
  BY DEF Clear
<1> QED
  BY <1>1, <1>2
  DEF IInv, TriggerMeansSilence, DeflectionHasDeadline, BytesAreTimed, Due

LEMMA RecentreStep == IInv /\ Recentre => IInv'
<1> SUFFICES ASSUME IInv, Recentre PROVE IInv'
  OBVIOUS
<1>1. /\ pc' = "poll" /\ z' = 128 /\ rz' = 128 /\ buttons' = buttons \ {"R2", "L2"}
      /\ UNCHANGED <<ring, packet, pressed, timer, action, out, said, packets, lost>>
  BY DEF Recentre, LeaveTrigger, trigger, mouse, ACTION_VW_IDLE
<1>2. TypeOK'
  BY <1>1 DEF IInv, TypeOK, Byte
<1>3. AtRest'
  BY <1>1 DEF AtRest, ACTION_VW_IDLE
<1> QED
  BY <1>1, <1>2, <1>3
  DEF IInv, TriggerMeansSilence, DeflectionHasDeadline, BytesAreTimed, Due

(* Each clock edge puts the deadline at its farthest.                       *)
LEMMA ClockStep == IInv /\ MS_ClockInterrupt => IInv'
<1> SUFFICES ASSUME IInv, MS_ClockInterrupt PROVE IInv'
  OBVIOUS
<1>1. timer' = Timeout /\ action' = 0 /\ Timeout > 0
  BY ConstantsAssumption DEF MS_ClockInterrupt, Reload
<1>2. Head(out) \in Byte /\ out' \in Seq(Byte)
  BY DEF MS_ClockInterrupt, IInv, TypeOK
<1>3. /\ ring' \in Seq(Byte) /\ Len(ring') <= RingSize
      /\ lost' \in BOOLEAN
  <2>1. ring \in Seq(Byte) /\ Len(ring) <= RingSize /\ RingSize \in Nat /\ lost \in BOOLEAN
    BY ConstantsAssumption DEF IInv, TypeOK
  <2>2. CASE Len(ring) < RingSize /\ ring' = Append(ring, Head(out)) /\ UNCHANGED lost
    BY <1>2, <2>1, <2>2
  <2>3. CASE lost' = TRUE /\ UNCHANGED ring
    BY <2>1, <2>3
  <2> QED
    BY <2>2, <2>3 DEF MS_ClockInterrupt
<1>4. TypeOK'
  <2>1. timer' \in 0..Timeout
    BY <1>1, ConstantsAssumption
  <2>2. UNCHANGED <<pc, packet, pressed, z, rz, buttons, said, packets>>
    BY DEF MS_ClockInterrupt, report
  <2> QED
    BY <1>1, <1>2, <1>3, <2>1, <2>2 DEF IInv, TypeOK
<1> QED
  BY <1>1, <1>4 DEF IInv, TriggerMeansSilence, DeflectionHasDeadline, BytesAreTimed, Due

LEMMA TimerStep == IInv /\ MS_TimerInterrupt => IInv'
<1> SUFFICES ASSUME IInv, MS_TimerInterrupt PROVE IInv'
  OBVIOUS
<1>1. /\ timer > 0 /\ timer' = timer - 1 /\ timer \in Nat
      /\ timer' = 0 => action' = 1
      /\ action' = 1 => action = 1 \/ timer' = 0
      /\ pc \notin {"check", "clear"} /\ UNCHANGED <<pc, ring, z, rz, buttons>>
  BY ConstantsAssumption DEF MS_TimerInterrupt, Trips, IInv, TypeOK, report
<1>2. TypeOK'
  BY ConstantsAssumption DEF MS_TimerInterrupt, Trips, IInv, TypeOK, report, mouse
<1>3. Due' /\ action # 1
  BY <1>1 DEF Due, IInv, TriggerMeansSilence
<1> QED
  BY <1>1, <1>2, <1>3 DEF IInv, TriggerMeansSilence, DeflectionHasDeadline, BytesAreTimed

LEMMA ReportStep == IInv /\ Report => IInv'
<1> SUFFICES ASSUME IInv, Report PROVE IInv'
  OBVIOUS
<1>1. PICK p \in Packets : out' = <<p[1], p[2], p[3], p[4]>> /\ said' = p
  BY DEF Report
<1>2. p \in [1..4 -> Byte]
  BY ConstantsAssumption
<1>3. out' \in Seq(Byte) /\ said' \in [1..4 -> Byte]
  BY <1>1, <1>2
<1>4. /\ UNCHANGED <<pc, ring, packet, timer, action, pressed, z, rz, buttons, lost>>
      /\ packets' \in 0..MaxPackets
  BY ConstantsAssumption DEF Report, trigger, report, IInv, TypeOK
<1>5. TypeOK'
  BY <1>3, <1>4 DEF IInv, TypeOK
<1>6. (AtRest' <=> AtRest) /\ (Due' <=> Due)
  BY <1>4 DEF AtRest, Due
<1> QED
  BY <1>4, <1>5, <1>6 DEF IInv, TriggerMeansSilence, DeflectionHasDeadline, BytesAreTimed

-----------------------------------------------------------------------------
THEOREM Invariance == Spec => []IInv
<1>1. IInv /\ [Next]_vars => IInv'
  <2> SUFFICES ASSUME IInv, [Next]_vars PROVE IInv'
    OBVIOUS
  <2>1. CASE MS_EventTask
    BY <2>1, PollStep, CheckStep, ClearStep, RecentreStep DEF MS_EventTask
  <2>2. CASE MS_ClockInterrupt
    BY <2>2, ClockStep
  <2>3. CASE MS_TimerInterrupt
    BY <2>3, TimerStep
  <2>4. CASE Report
    BY <2>4, ReportStep
  <2>5. CASE UNCHANGED vars
    BY <2>5 DEF vars, IInv, TypeOK, TriggerMeansSilence, DeflectionHasDeadline,
       BytesAreTimed, AtRest, Due
  <2> QED
    BY <2>1, <2>2, <2>3, <2>4, <2>5 DEF Next
<1> QED
  BY InitIInv, <1>1, PTL DEF Spec

(* The ring, the packet and the report stay within their types: no byte is  *)
(* gathered beyond a packet and no position wraps.                         *)
THEOREM TypeCorrect == Spec => []TypeOK
<1>1. IInv => TypeOK
  BY DEF IInv
<1> QED
  BY <1>1, Invariance, PTL

(* The trigger trips only after a whole timeout without a clock edge.       *)
THEOREM TriggerAfterSilence == Spec => []TriggerMeansSilence
<1>1. IInv => TriggerMeansSilence
  BY DEF IInv
<1> QED
  BY <1>1, Invariance, PTL

(* However late the main loop reads the ring, a stick off its centre has a  *)
(* deadline.                                                               *)
THEOREM NoTripGoesAstray == Spec => []DeflectionHasDeadline
<1>1. IInv => DeflectionHasDeadline
  BY DEF IInv
<1> QED
  BY <1>1, Invariance, PTL
-----------------------------------------------------------------------------
(* ReportFollowsMouse rests on how the packets stand in line: the bytes that *)
(* are gathered, those that wait in the ring and those still to be sent are  *)
(* one sequence, which is cut at every fourth byte, never starts a packet    *)
(* with a byte that EventFilter would drop, and ends with what the mouse     *)
(* said last.  Only a byte that finds the ring full breaks it.               *)
Coming == Len(packet) + Len(ring) + Len(out)

At(i) == IF i <= Len(packet) THEN packet[i]
         ELSE IF i <= Len(packet) + Len(ring) THEN ring[i - Len(packet)]
         ELSE out[i - Len(packet) - Len(ring)]

Framed ==
    /\ Coming % 4 = 0
    /\ \A i \in 1..Coming : i % 4 = 1 => Bit(At(i), 8)
    /\ Coming > 0 => \A j \in 1..4 : At(Coming - 4 + j) = said[j]

(* The last packet once it has been dispatched; the recentring that is       *)
(* under way was due before any byte came.                                  *)
Shown ==
    /\ Coming = 0 => ("R1" \in pressed <=> Bit(said[1], 1))
    /\ Coming = 0 /\ timer > 0 => z = Val(MoveX(said)) /\ rz = Flipped(Val(MoveY(said)))
    /\ pc \in {"clear", "recentre"} /\ ring = <<>> => timer = 0

LeftButton == "R1" \in buttons <=> "R1" \in pressed
SaidReported == MoveX(said) \in Reported /\ MoveY(said) \in Reported

FollowInv == LeftButton /\ SaidReported /\ (~lost => Framed /\ Shown)

(* A movement and a button are read off four bytes, whatever holds them.     *)
LEMMA MovesAgree ==
    ASSUME NEW p, NEW q, \A j \in 1..4 : p[j] = q[j]
    PROVE  MoveX(p) = MoveX(q) /\ MoveY(p) = MoveY(q) /\ Bit(p[1], 1) = Bit(q[1], 1)
<1>1. p[1] = q[1] /\ p[2] = q[2] /\ p[3] = q[3]
  OBVIOUS
<1> QED
  BY <1>1 DEF MoveX, MoveY

-----------------------------------------------------------------------------
(* What the steps do to the line.                                           *)

(* A byte passes from the ring to the packet.                               *)
LEMMA GatherKeepsLine ==
    ASSUME TypeOK, ring # <<>>, ring' = Tail(ring), packet' = Append(packet, Head(ring)),
           out' = out
    PROVE  Coming' = Coming /\ \A i \in 1..Coming : At(i)' = At(i)
<1>1. /\ packet \in Seq(Byte) /\ ring \in Seq(Byte) /\ out \in Seq(Byte)
      /\ Len(ring) > 0
  BY DEF TypeOK
<1>2. /\ Len(packet') = Len(packet) + 1 /\ Len(ring') = Len(ring) - 1
      /\ \A i \in 1..Len(packet) : packet'[i] = packet[i]
      /\ packet'[Len(packet) + 1] = ring[1]
      /\ \A i \in 1..Len(ring') : ring'[i] = ring[i + 1]
  BY <1>1
<1>3. Coming' = Coming
  BY <1>1, <1>2 DEF Coming
<1>4. ASSUME NEW i \in 1..Coming PROVE At(i)' = At(i)
  BY <1>1, <1>2 DEF At, Coming
<1> QED
  BY <1>3, <1>4

(* A byte passes from the mouse to the ring.                                *)
LEMMA ArrivalKeepsLine ==
    ASSUME TypeOK, out # <<>>, out' = Tail(out), ring' = Append(ring, Head(out)),
           packet' = packet
    PROVE  Coming' = Coming /\ \A i \in 1..Coming : At(i)' = At(i)
<1>1. /\ packet \in Seq(Byte) /\ ring \in Seq(Byte) /\ out \in Seq(Byte)
      /\ Len(out) > 0
  BY DEF TypeOK
<1>2. /\ Len(ring') = Len(ring) + 1 /\ Len(out') = Len(out) - 1
      /\ \A i \in 1..Len(ring) : ring'[i] = ring[i]
      /\ ring'[Len(ring) + 1] = out[1]
      /\ \A i \in 1..Len(out') : out'[i] = out[i + 1]
  BY <1>1
<1>3. Coming' = Coming
  BY <1>1, <1>2 DEF Coming
<1>4. ASSUME NEW i \in 1..Coming PROVE At(i)' = At(i)
  BY <1>1, <1>2 DEF At, Coming
<1> QED
  BY <1>3, <1>4

LEMMA Gathered ==
    ASSUME TypeOK, ring # <<>>, NEW j \in 1..Len(packet) + 1
    PROVE  Append(packet, Head(ring))[j] = IF j <= Len(packet) THEN packet[j] ELSE ring[1]
<1>1. packet \in Seq(Byte) /\ ring \in Seq(Byte) /\ ring[1] \in Byte /\ Head(ring) = ring[1]
  BY DEF TypeOK
<1> QED
  BY <1>1

(* The dispatched packet is the head of the line, which moves up by four.    *)
LEMMA DispatchTakesFour ==
    ASSUME TypeOK, ring # <<>>, ring' = Tail(ring), packet' = <<>>, out' = out,
           Len(packet) >= 3
    PROVE  /\ Coming \in Nat /\ Coming >= 4 /\ Coming' = Coming - 4
           /\ \A i \in 1..Coming' : At(i)' = At(i + 4)
           /\ \A j \in 1..4 : Append(packet, Head(ring))[j] = At(j)
<1>1. /\ packet \in Seq(Byte) /\ ring \in Seq(Byte) /\ out \in Seq(Byte)
      /\ Len(ring) > 0
  BY DEF TypeOK
<1>2. /\ Len(packet') <= 0 /\ Len(packet') \in Nat /\ Len(ring') = Len(ring) - 1
      /\ \A i \in 1..Len(ring') : ring'[i] = ring[i + 1]
  BY <1>1
<1>3. Coming \in Nat /\ Coming >= 4 /\ Coming' = Coming - 4
  <2>1. Coming \in Nat /\ Coming >= 4
    BY <1>1 DEF Coming
  <2>2. Coming' = Len(ring') + Len(out)
    BY <1>1, <1>2 DEF Coming
  <2>3. Coming = Len(packet) + Len(ring) + Len(out) /\ Len(packet) <= 3
    BY DEF Coming, TypeOK
  <2> QED
    BY <1>1, <1>2, <2>1, <2>2, <2>3
<1>4. ASSUME NEW i \in 1..Coming' PROVE At(i)' = At(i + 4)
  BY <1>1, <1>2, <1>3 DEF At, Coming
<1> DEFINE gathered == Append(packet, Head(ring))
<1>5. ASSUME NEW j \in 1..4 PROVE gathered[j] = At(j)
  <2>1. gathered[j] = IF j <= Len(packet) THEN packet[j] ELSE ring[1]
    <3>1. j \in 1..Len(packet) + 1
      BY <1>1
    <3> QED
      BY <3>1, Gathered
  <2> HIDE DEF gathered
  <2> QED
    BY <1>1, <2>1 DEF At
<1> QED
  BY <1>3, <1>4, <1>5 DEF gathered

(* A packet the mouse begins stands at the end of the line.                 *)
LEMMA ReportJoinsLine ==
    ASSUME TypeOK, out = <<>>, NEW p \in [1..4 -> Byte], out' = <<p[1], p[2], p[3], p[4]>>,
           ring' = ring, packet' = packet
    PROVE  /\ Coming \in Nat /\ Coming' = Coming + 4
           /\ \A i \in 1..Coming : At(i)' = At(i)
           /\ \A j \in 1..4 : At(Coming - 4 + j)' = p[j]
<1>1. /\ packet \in Seq(Byte) /\ ring \in Seq(Byte) /\ Len(out) = 0
      /\ Len(out') = 4 /\ \A j \in 1..4 : out'[j] = p[j]
  BY DEF TypeOK
<1>2. Coming \in Nat /\ Coming' = Coming + 4
  BY <1>1 DEF Coming
<1>3. ASSUME NEW i \in 1..Coming PROVE At(i)' = At(i)
  BY <1>1 DEF At, Coming
<1>4. ASSUME NEW j \in 1..4 PROVE At(Coming - 4 + j)' = p[j]
  <2>1. At(Coming - 4 + j)' = out'[j]
    <3>1. /\ Len(packet) \in Nat /\ Len(ring) \in Nat
          /\ (Coming - 4 + j)' = Len(packet') + Len(ring') + j
      BY <1>1 DEF Coming
    <3> QED
      BY <1>1, <3>1 DEF At
  <2> QED
    BY <1>1, <2>1
<1> QED
  BY <1>2, <1>3, <1>4

LEMMA LineIsFinite == TypeOK => Coming \in Nat
  BY DEF TypeOK, Coming

-----------------------------------------------------------------------------
(* EventFilter drops no byte of a line that is cut where it should be.       *)
LEMMA HeadInStep ==
    ASSUME TypeOK, Framed, ring # <<>>
    PROVE  InStep(Head(ring))
<1>1. CASE packet = <<>>
  <2>1. Len(packet) = 0 /\ Len(ring) \in Nat /\ Len(ring) > 0 /\ Len(out) \in Nat
    BY <1>1 DEF TypeOK
  <2>2. At(1) = Head(ring) /\ 1 \in 1..Coming
    BY <2>1 DEF At, Coming
  <2> QED
    BY <2>2 DEF Framed, InStep
<1> QED
  BY <1>1 DEF InStep

(* A line that keeps its bytes stays framed.                                *)
LEMMA LineStaysFramed ==
    ASSUME TypeOK, Framed, Coming' = Coming, \A i \in 1..Coming : At(i)' = At(i),
           said' = said
    PROVE  Framed'
<1>1. Coming \in Nat /\ Coming % 4 = 0
  BY LineIsFinite DEF Framed
<1>2. ASSUME NEW i \in 1..Coming', i % 4 = 1 PROVE Bit(At(i)', 8)
  BY <1>2 DEF Framed
<1>3. ASSUME Coming' > 0, NEW j \in 1..4 PROVE At(Coming - 4 + j)' = said'[j]
  <2>1. Coming - 4 + j \in 1..Coming
    BY <1>1, <1>3
  <2>2. At(Coming - 4 + j)' = At(Coming - 4 + j)
    BY <2>1
  <2> QED
    BY <1>3, <2>2 DEF Framed
<1> QED
  BY <1>1, <1>2, <1>3 DEF Framed

-----------------------------------------------------------------------------
(* The actions: IInv says that a tripped trigger means silence, and that     *)
(* bytes in the ring are timed.                                             *)

LEMMA FullIsFour ==
    ASSUME NEW s \in Seq(Byte), Full(s)
    PROVE  Len(s) > 3
<1>1. \A n \in Nat : n = 4 => n > 3
  OBVIOUS
<1>2. Len(s) \in Nat
  OBVIOUS
<1> QED
  BY <1>1, <1>2, Zenon DEF Full

LEMMA FilterPassesLine ==
    ASSUME TypeOK, Framed, ring # <<>>, ring' = Tail(ring), EventFilter(Head(ring)),
           UNCHANGED out
    PROVE  \/ /\ packet' = Append(packet, Head(ring))
              /\ UNCHANGED <<pressed, z, rz, buttons>>
           \/ /\ Len(packet) >= 3 /\ packet' = <<>>
              /\ Dispatch(Append(packet, Head(ring)))
<1>1. InStep(Head(ring))
  BY HeadInStep
<1> DEFINE gathered == Append(packet, Head(ring))
<1>2. packet \in Seq(Byte) /\ gathered \in Seq(Byte) /\ Len(gathered) = Len(packet) + 1
  BY DEF TypeOK
<1>3. CASE ~Full(gathered)
  BY <1>1, <1>3 DEF EventFilter, report
<1>4. CASE Full(gathered)
  <2>1. packet' = <<>> /\ Dispatch(gathered)
    BY <1>1, <1>4, Zenon DEF EventFilter
  <2> HIDE DEF gathered
  <2>2. Len(packet) >= 3
    <3>1. Len(gathered) > 3
      BY <1>2, <1>4, FullIsFour
    <3> QED
      BY <1>2, <3>1
  <2> QED
    BY <2>1, <2>2 DEF gathered
<1> QED
  BY <1>3, <1>4

(* A byte that waits is never the last word on a recentring: nothing is      *)
(* shown before the line is empty.                                          *)
LEMMA GatherFollows ==
    ASSUME IInv, Framed, Shown, pc = "poll", UNCHANGED <<pc, out, said, timer>>,
           ring # <<>>, ring' = Tail(ring), packet' = Append(packet, Head(ring))
    PROVE  Framed' /\ Shown'
<1>1. Coming' = Coming /\ \A i \in 1..Coming : At(i)' = At(i)
  BY GatherKeepsLine DEF IInv
<1>2. Framed'
  BY <1>1, LineStaysFramed DEF IInv
<1>3. Coming' # 0
  BY <1>1 DEF Coming, IInv, TypeOK
<1> QED
  BY <1>2, <1>3 DEF Shown

LEMMA DispatchFollows ==
    ASSUME IInv, Framed, pc = "poll", UNCHANGED <<pc, out, said, timer>>,
           ring # <<>>, ring' = Tail(ring), Len(packet) >= 3, packet' = <<>>,
           Dispatch(Append(packet, Head(ring)))
    PROVE  Framed' /\ Shown'
<1> DEFINE gathered == Append(packet, Head(ring))
<1>1. /\ Coming \in Nat /\ Coming >= 4 /\ Coming' = Coming - 4
      /\ \A i \in 1..Coming' : At(i)' = At(i + 4)
      /\ \A j \in 1..4 : gathered[j] = At(j)
  BY DispatchTakesFour DEF IInv
<1>2. /\ z' = Val(MoveX(gathered)) /\ rz' = Flipped(Val(MoveY(gathered)))
      /\ "R1" \in pressed' <=> Bit(gathered[1], 1)
  BY DEF Dispatch, Down
<1> HIDE DEF gathered
<1>3. /\ Coming % 4 = 0
      /\ \A i \in 1..Coming : i % 4 = 1 => Bit(At(i), 8)
      /\ \A j \in 1..4 : At(Coming - 4 + j) = said[j]
  BY <1>1 DEF Framed
<1>4. Framed'
  <2>1. Coming' % 4 = 0
    BY <1>1, <1>3
  <2>2. ASSUME NEW i \in 1..Coming', i % 4 = 1 PROVE Bit(At(i)', 8)
    <3>1. i + 4 \in 1..Coming /\ (i + 4) % 4 = 1
      BY <1>1, <2>2
    <3> QED
      BY <1>1, <1>3, <3>1
  <2>3. ASSUME Coming' > 0, NEW j \in 1..4 PROVE At(Coming - 4 + j)' = said'[j]
    <3>1. Coming' - 4 + j \in 1..Coming' /\ (Coming' - 4 + j) + 4 = Coming - 4 + j
      BY <1>1, <1>3, <2>1, <2>3
    <3>2. At(Coming - 4 + j)' = At(Coming - 4 + j)
      BY <1>1, <3>1
    <3> QED
      BY <1>3, <3>2
  <2> QED
    BY <2>1, <2>2, <2>3 DEF Framed
<1>5. Shown'
  <2>1. CASE Coming' = 0
    <3>1. \A j \in 1..4 : gathered[j] = said[j]
      BY <1>1, <1>3, <2>1
    <3>2. /\ MoveX(gathered) = MoveX(said) /\ MoveY(gathered) = MoveY(said)
          /\ Bit(gathered[1], 1) = Bit(said[1], 1)
      BY <3>1, MovesAgree
    <3> QED
      BY <1>2, <3>2 DEF Shown
  <2>2. CASE Coming' # 0
    BY <2>2 DEF Shown
  <2> QED
    BY <2>1, <2>2
<1> QED
  BY <1>4, <1>5

LEMMA ButtonFollows ==
    ASSUME LeftButton, NEW p, Dispatch(p)
    PROVE  LeftButton'
<1>1. "R1" \in Clicked(p[1]) <=> "R1" \in Down(p[1])
  BY DEF LeftButton, Clicked
<1>2. "R1" \in buttons' <=> "R1" \in Clicked(p[1])
  BY DEF Dispatch, Wheel
<1> QED
  BY <1>1, <1>2 DEF Dispatch, LeftButton

LEMMA PollFollows == IInv /\ FollowInv /\ Poll => FollowInv'
<1> SUFFICES ASSUME IInv, FollowInv, Poll PROVE FollowInv'
  OBVIOUS
<1>1. pc = "poll" /\ UNCHANGED <<timer, out, said, lost>>
  BY DEF Poll, trigger, mouse
<1>2. SaidReported'
  BY <1>1 DEF FollowInv, SaidReported
<1>3. CASE ring # <<>> /\ ring' = Tail(ring) /\ EventFilter(Head(ring)) /\ UNCHANGED pc
  <2>1. LeftButton'
    <3>1. CASE UNCHANGED <<pressed, report>>
      BY <3>1 DEF FollowInv, LeftButton, report
    <3>2. CASE Dispatch(Append(packet, Head(ring)))
      BY <3>2, ButtonFollows DEF FollowInv
    <3> QED
      BY <1>3, <3>1, <3>2 DEF EventFilter
  <2>2. ASSUME ~lost PROVE Framed' /\ Shown'
    <3>1. Framed /\ Shown
      BY <2>2 DEF FollowInv
    <3>2. CASE packet' = Append(packet, Head(ring))
      BY <1>1, <1>3, <3>1, <3>2, GatherFollows
    <3>3. CASE /\ Len(packet) >= 3 /\ packet' = <<>>
               /\ Dispatch(Append(packet, Head(ring)))
      BY <1>1, <1>3, <3>1, <3>3, DispatchFollows
    <3> QED
      BY <1>1, <1>3, <3>1, <3>2, <3>3, FilterPassesLine DEF IInv
  <2> QED
    BY <1>1, <1>2, <2>1, <2>2 DEF FollowInv
<1>4. CASE ring = <<>> /\ pc' = "check" /\ UNCHANGED <<ring, packet, pressed, report>>
  <2>1. UNCHANGED <<ring, packet, pressed, z, rz, buttons, timer, out, said, lost>>
    BY <1>1, <1>4 DEF report
  <2>2. LeftButton' /\ (Framed => Framed') /\ (Shown => Shown')
    BY <1>4, <2>1 DEF FollowInv, LeftButton, Framed, Shown, Coming, At
  <2> QED
    BY <1>2, <2>1, <2>2 DEF FollowInv
<1> QED
  BY <1>3, <1>4 DEF Poll

LEMMA TriggerFollows == IInv /\ FollowInv /\ (Check \/ Clear) => FollowInv'
<1> SUFFICES ASSUME IInv, FollowInv, Check \/ Clear PROVE FollowInv'
  OBVIOUS
<1>1. /\ UNCHANGED <<ring, packet, pressed, z, rz, buttons, timer, out, said, lost>>
      /\ pc' \in {"clear", "recentre"} => action = 1 \/ pc = "clear"
  BY DEF Check, Clear, trigger, report, mouse
<1>2. action = 1 => timer = 0
  BY DEF IInv, TriggerMeansSilence
<1>3. LeftButton' /\ SaidReported' /\ (Framed => Framed')
  BY <1>1 DEF FollowInv, LeftButton, SaidReported, Framed, Coming, At
<1>4. Shown => Shown'
  BY <1>1, <1>2 DEF Shown, Coming
<1> QED
  BY <1>1, <1>3, <1>4 DEF FollowInv

(* The stick that is put back to its centre was shown before the timeout.    *)
LEMMA RecentreFollows == IInv /\ FollowInv /\ Recentre => FollowInv'
<1> SUFFICES ASSUME IInv, FollowInv, Recentre PROVE FollowInv'
  OBVIOUS
<1>1. /\ pc = "recentre" /\ pc' = "poll" /\ buttons' = buttons \ {"R2", "L2"}
      /\ UNCHANGED <<ring, packet, pressed, timer, out, said, lost>>
  BY DEF Recentre, LeaveTrigger, trigger, mouse
<1>2. LeftButton' /\ SaidReported' /\ (Framed => Framed')
  BY <1>1 DEF FollowInv, LeftButton, SaidReported, Framed, Coming, At
<1>3. Coming = 0 => ring = <<>>
  BY DEF IInv, TypeOK, Coming
<1>4. Coming' = Coming
  BY <1>1 DEF Coming
<1>5. Shown => Shown'
  BY <1>1, <1>3, <1>4 DEF Shown
<1> QED
  BY <1>1, <1>2, <1>5 DEF FollowInv

LEMMA ClockFollows == IInv /\ FollowInv /\ MS_ClockInterrupt => FollowInv'
<1> SUFFICES ASSUME IInv, FollowInv, MS_ClockInterrupt PROVE FollowInv'
  OBVIOUS
<1>1. /\ out # <<>> /\ out' = Tail(out)
      /\ UNCHANGED <<pc, packet, pressed, z, rz, buttons, said>>
      /\ \/ ring' = Append(ring, Head(out)) /\ lost' = lost
         \/ lost' = TRUE
  BY DEF MS_ClockInterrupt, report
<1>2. LeftButton' /\ SaidReported'
  BY <1>1 DEF FollowInv, LeftButton, SaidReported
<1>3. ASSUME ~lost' PROVE Framed' /\ Shown'
  <2>1. Framed /\ Shown /\ ring' = Append(ring, Head(out))
    BY <1>1, <1>3 DEF FollowInv
  <2>2. Coming' = Coming /\ \A i \in 1..Coming : At(i)' = At(i)
    BY <1>1, <2>1, ArrivalKeepsLine DEF IInv
  <2>3. Framed'
    BY <1>1, <2>1, <2>2, LineStaysFramed DEF IInv
  <2>4. Coming # 0
    BY <1>1 DEF IInv, TypeOK, Coming
  <2>5. ring' # <<>>
    <3>1. ring \in Seq(Byte) /\ Head(out) \in Byte
      BY <1>1 DEF IInv, TypeOK
    <3> QED
      BY <2>1, <3>1
  <2> QED
    BY <2>2, <2>3, <2>4, <2>5 DEF Shown
<1> QED
  BY <1>2, <1>3 DEF FollowInv

LEMMA TimerFollows == IInv /\ FollowInv /\ MS_TimerInterrupt => FollowInv'
<1> SUFFICES ASSUME IInv, FollowInv, MS_TimerInterrupt PROVE FollowInv'
  OBVIOUS
<1>1. /\ timer > 0 /\ timer' = timer - 1 /\ timer \in Nat
      /\ UNCHANGED <<pc, ring, packet, pressed, z, rz, buttons, out, said, lost>>
  BY ConstantsAssumption DEF MS_TimerInterrupt, report, mouse, IInv, TypeOK
<1>2. LeftButton' /\ SaidReported' /\ (Framed => Framed')
  BY <1>1 DEF FollowInv, LeftButton, SaidReported, Framed, Coming, At
<1>3. Shown => Shown'
  BY <1>1 DEF Shown, Coming
<1> QED
  BY <1>1, <1>2, <1>3 DEF FollowInv

LEMMA ReportFollows == ASSUME WellBehaved PROVE IInv /\ FollowInv /\ Report => FollowInv'
<1> SUFFICES ASSUME IInv, FollowInv, Report PROVE FollowInv'
  OBVIOUS
<1>1. PICK p \in Packets : out' = <<p[1], p[2], p[3], p[4]>> /\ said' = p
  BY DEF Report
<1>2. p \in [1..4 -> Byte]
  BY ConstantsAssumption
<1>3. /\ out = <<>>
      /\ UNCHANGED <<pc, ring, packet, timer, pressed, z, rz, buttons, lost>>
  BY DEF Report, trigger, report
<1>4. /\ Coming \in Nat /\ Coming' = Coming + 4
      /\ \A i \in 1..Coming : At(i)' = At(i)
      /\ \A j \in 1..4 : At(Coming - 4 + j)' = p[j]
  BY <1>1, <1>2, <1>3, ReportJoinsLine DEF IInv
<1>5. LeftButton' /\ SaidReported'
  BY <1>1, <1>3 DEF FollowInv, LeftButton, SaidReported, WellBehaved
<1>6. ASSUME Framed PROVE Framed'
  <2>1. ASSUME NEW i \in 1..Coming', i % 4 = 1 PROVE Bit(At(i)', 8)
    <3>1. CASE i \in 1..Coming
      BY <1>4, <1>6, <2>1, <3>1 DEF Framed
    <3>2. CASE i \notin 1..Coming
      <4>1. i = Coming + 1
        BY <1>4, <1>6, <2>1, <3>2 DEF Framed
      <4>2. At(i)' = p[1]
        BY <1>4, <4>1
      <4> QED
        BY <4>2 DEF WellBehaved
    <3> QED
      BY <3>1, <3>2
  <2>2. Coming' % 4 = 0
    BY <1>4, <1>6 DEF Framed
  <2> QED
    BY <1>1, <1>4, <2>1, <2>2 DEF Framed
<1>7. Shown => Shown'
  BY <1>3, <1>4 DEF Shown
<1> QED
  BY <1>3, <1>5, <1>6, <1>7 DEF FollowInv

LEMMA InitFollows == Init => FollowInv
<1> SUFFICES ASSUME Init PROVE FollowInv
  OBVIOUS
<1>1. /\ said[1] = 8 /\ said[2] = 0 /\ said[3] = 0
      /\ ~Bit(8, 1) /\ ~Bit(8, 16) /\ ~Bit(8, 32)
  BY DEF Init, Silent, Bit
<1>2. SaidReported
  <2>1. MoveX(said).sign = FALSE /\ MoveY(said).sign = FALSE
    BY <1>1 DEF MoveX, MoveY
  <2>2. MoveX(said) \in Movement /\ MoveY(said) \in Movement
    BY <1>1, BitIsBoolean DEF MoveX, MoveY, Movement
  <2> QED
    BY <2>1, <2>2 DEF SaidReported, Reported
<1>3. LeftButton /\ Coming = 0
  BY DEF Init, LeftButton, Coming
<1>4. Framed
  BY <1>3 DEF Framed
<1>5. Shown
  BY <1>1 DEF Init, Shown
<1> QED
  BY <1>2, <1>3, <1>4, <1>5 DEF FollowInv

(* What follows from the invariant once all has arrived and been read.      *)
LEMMA FollowedReport == IInv /\ FollowInv => ReportFollowsMouse
<1> SUFFICES ASSUME IInv, FollowInv, out = <<>>, ring = <<>>, ~lost
             PROVE  /\ "R1" \in buttons <=> Bit(said[1], 1)
                    /\ timer > 0 => /\ LeavesDeadZone(MoveX(said), z)
                                    /\ LeavesDeadZone(MoveY(said), Flipped(rz))
  BY DEF ReportFollowsMouse
<1>1. Framed /\ Shown
  BY DEF FollowInv
<1>2. Coming = Len(packet) /\ Len(packet) \in Nat /\ Len(packet) < 4 /\ Coming % 4 = 0
  BY <1>1 DEF Coming, IInv, TypeOK, Framed
<1>3. Coming = 0
  BY <1>2
<1>4. "R1" \in buttons <=> Bit(said[1], 1)
  BY <1>1, <1>3 DEF Shown, FollowInv, LeftButton
<1>5. ASSUME timer > 0
      PROVE  /\ LeavesDeadZone(MoveX(said), z)
             /\ LeavesDeadZone(MoveY(said), Flipped(rz))
  <2>1. z = Val(MoveX(said)) /\ rz = Flipped(Val(MoveY(said)))
    BY <1>1, <1>3, <1>5 DEF Shown
  <2>2. MoveX(said) \in Reported /\ MoveY(said) \in Reported
    BY DEF FollowInv, SaidReported
  <2>3. Flipped(rz) = Val(MoveY(said))
    <3> DEFINE v == Val(MoveY(said))
    <3>1. v \in 0..255 /\ rz = Flipped(v)
      BY <2>1, <2>2, PositionIsByte
    <3> HIDE DEF v
    <3>2. Flipped(rz) = v
      BY <3>1 DEF Flipped
    <3> QED
      BY <3>2 DEF v
  <2> QED
    BY <2>1, <2>2, <2>3, AlwaysLeavesDeadZone
<1> QED
  BY <1>4, <1>5

(* However the bytes come in while the main loop tests the trigger or puts   *)
(* the stick back, the report follows the mouse as long as no byte is lost. *)
THEOREM AlwaysFollows == ASSUME WellBehaved PROVE Spec => []ReportFollowsMouse
<1>1. IInv /\ FollowInv /\ [Next]_vars => FollowInv'
  <2> SUFFICES ASSUME IInv, FollowInv, [Next]_vars PROVE FollowInv'
    OBVIOUS
  <2>1. CASE UNCHANGED vars
    BY <2>1 DEF vars, FollowInv, LeftButton, SaidReported, Framed, Shown, Coming, At
  <2> QED
    BY <2>1, PollFollows, TriggerFollows, RecentreFollows, ClockFollows, TimerFollows,
       ReportFollows DEF Next, MS_EventTask
<1> QED
  BY <1>1, InitFollows, FollowedReport, Invariance, PTL DEF Spec
=============================================================================
