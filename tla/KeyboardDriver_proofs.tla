------------------------ MODULE KeyboardDriver_proofs ------------------------
(* Theorems about KeyboardDriver for every set of keys, every size of the   *)
(* ring, every number of retries, events and faults; and, at the end, about *)
(* usb_joystick_send (UsbJoystick), which the report goes out by, for every  *)
(* set of reports, every modulus of the frame number, every wait and host.  *)
EXTENDS KeyboardDriver, UsbJoystick, SequenceTheorems, TLAPS

-----------------------------------------------------------------------------
(* What the tables of the filter hold.                                     *)
LEMMA Tables ==
    /\ \A k \in DOMAIN LockKeys : LockKeys[k] \in Leds
    /\ \A k \in DOMAIN AxisOf : AxisOf[k] \in {"x", "y"} /\ DeflectionOf[k] \in {0, 255}
    /\ \A k \in DOMAIN ButtonOf :
           ButtonOf[k] \in {ButtonOf[l] : l \in DOMAIN ButtonOf}
    /\ \A k \in DOMAIN DirectionOf :
           DirectionOf[k] \in {DirectionOf[l] : l \in DOMAIN DirectionOf}
BY DEF LockKeys, Leds, AxisOf, DeflectionOf

(* The codes of a key are bytes a keyboard sends.                          *)
KeyBytes == {k.byte : k \in Keys}
CodeBytes == {"E0", "F0"} \cup KeyBytes

LEMMA KeyBytesAreCodes ==
    /\ \A k \in Keys : k.ext \in BOOLEAN /\ k.byte \in KeyBytes
    /\ KeyBytes \cap ({"E0", "F0"} \cup Answers) = {}
    /\ CodeBytes \cap Answers = {}
    /\ Bytes = CodeBytes \cup Answers
<1>1. \A k \in Keys : k \in [ext : BOOLEAN, byte : STRING \ {"E0", "F0", "FA", "FE", "AA"}]
  BY ConstantsAssumption
<1>2. \A k \in Keys : k.ext \in BOOLEAN /\ k.byte \in STRING \ {"E0", "F0", "FA", "FE", "AA"}
  BY <1>1
<1>3. \A b \in KeyBytes : b \notin {"E0", "F0", "FA", "FE", "AA"}
  BY <1>2 DEF KeyBytes
<1>4. \A k \in Keys : k.byte \in KeyBytes
  BY DEF KeyBytes
<1>5. Bytes = CodeBytes \cup Answers
  BY DEF Bytes, CodeBytes, KeyBytes
<1> QED
  BY <1>2, <1>3, <1>4, <1>5 DEF CodeBytes, Answers

LEMMA CodesOfKeys ==
    ASSUME NEW k \in Keys
    PROVE  /\ MakeCode(k) \in Seq(CodeBytes)
           /\ BreakCode(k) \in Seq(CodeBytes)
<1>1. k.byte \in CodeBytes /\ "E0" \in CodeBytes /\ "F0" \in CodeBytes
  BY KeyBytesAreCodes DEF CodeBytes
<1> QED
  BY <1>1 DEF MakeCode, BreakCode

LEMMA AnswersOfKeyboard ==
    ASSUME NEW b
    PROVE  Answer(b) \in Seq(Answers)
<1>1. "FA" \in Answers /\ "FE" \in Answers /\ "AA" \in Answers
  BY DEF Answers
<1>2. <<"FA">> \in Seq(Answers) /\ <<"FE">> \in Seq(Answers) /\ <<"FA", "AA">> \in Seq(Answers)
  BY <1>1
<1> QED
  BY <1>2 DEF Answer

-----------------------------------------------------------------------------
(* Types. *)
Messages == {SET_LEDS, RESET} \cup {LedState(s) : s \in SUBSET Leds}

TalkOK ==
    /\ lastbyte \in Messages
    /\ retry \in 0..255 /\ leds \subseteq Leds /\ cmd \subseteq Leds
    /\ answers \in Seq(Answers) /\ codes \in Seq(CodeBytes)
    /\ kbd \in [leds : SUBSET Leds, awaits : BOOLEAN]

ReportOK ==
    /\ buttons \subseteq {ButtonOf[k] : k \in DOMAIN ButtonOf}
    /\ dir \in {"NO_BUTTON"} \cup {DirectionOf[k] : k \in DOMAIN DirectionOf}
    /\ axes \in [{"x", "y"} -> {0, 128, 255}]

RingOK ==
    /\ ring \in Seq(Bytes) /\ Len(ring) <= RingSize
    /\ e0_f0 \subseteq {"E0", "F0"}
    /\ held \subseteq Keys

LEMMA TypeFromParts == TalkOK /\ ReportOK /\ RingOK => TypeOK
<1>1. CodeBytes \subseteq Bytes
  BY KeyBytesAreCodes
<1>2. codes \in Seq(CodeBytes) => codes \in Seq(Bytes)
  BY <1>1, SeqMonotonic
<1> QED
  BY <1>2 DEF TalkOK, ReportOK, RingOK, TypeOK, Messages

LEMMA SendKeepsTypes ==
    ASSUME TalkOK, NEW b \in Messages, KB_Send(b)
    PROVE  /\ answers' \in Seq(Answers) /\ codes' \in Seq(CodeBytes)
           /\ kbd' \in [leds : SUBSET Leds, awaits : BOOLEAN]
<1>1. codes' \in Seq(CodeBytes)
  BY EmptySeq DEF KB_Send, TalkOK
<1>2. Answer(b) \in Seq(Answers)
  BY AnswersOfKeyboard
<1>3. <<"FE">> \in Seq(Answers)
  <2>1. "FE" \in Answers
    BY DEF Answers
  <2> QED
    BY <2>1
<1>4. answers' \in Seq(Answers)
  BY <1>2, <1>3 DEF KB_Send
<1>5. After(b) \in [leds : SUBSET Leds, awaits : BOOLEAN]
  <2>1. kbd \in [leds : SUBSET Leds, awaits : BOOLEAN]
    BY DEF TalkOK
  <2>2. b = RESET \/ b = SET_LEDS \/ b.leds \in SUBSET Leds
    BY DEF Messages, LedState
  <2> QED
    BY <2>1, <2>2 DEF After
<1>6. kbd' \in [leds : SUBSET Leds, awaits : BOOLEAN]
  BY <1>5 DEF KB_Send, TalkOK
<1> QED
  BY <1>1, <1>4, <1>6

LEMMA ToggleKeepsLeds ==
    ASSUME TalkOK
    PROVE  Toggle(leds) \subseteq Leds /\ LedState(Toggle(leds)) \in Messages
<1>1. Toggle(leds) \subseteq Leds
  BY DEF TalkOK, Toggle
<1> QED
  BY <1>1 DEF Messages

LEMMA DialogueKeepsTypes ==
    ASSUME TalkOK, NEW b, Dialogue(b)
    PROVE  TalkOK'
<1>1. CASE b \in DOMAIN LockKeys /\ AskForLeds(b)
  <2>1. SET_LEDS \in Messages /\ KB_Send(SET_LEDS) /\ LockKeys[b] \in Leds
    BY <1>1, Tables DEF Messages, AskForLeds
  <2> QED
    BY <1>1, <2>1, SendKeepsTypes DEF AskForLeds, TalkOK
<1>2. CASE SendLeds
  <2>1. leds' = Toggle(leds) /\ lastbyte' = LedState(leds') /\ KB_Send(LedState(leds'))
    BY <1>2 DEF SendLeds
  <2>2. leds' \subseteq Leds /\ LedState(leds') \in Messages
    BY <2>1, ToggleKeepsLeds
  <2> QED
    BY <1>2, <2>1, <2>2, SendKeepsTypes DEF SendLeds, TalkOK
<1>3. CASE SendAgain
  <2>1. CASE /\ retry < Resends /\ retry' = retry + 1
             /\ KB_Send(lastbyte) /\ UNCHANGED lastbyte
    <3>1. lastbyte \in Messages
      BY DEF TalkOK
    <3>2. retry' \in 0..255
      BY <2>1, ConstantsAssumption DEF TalkOK
    <3> QED
      BY <1>3, <2>1, <3>1, <3>2, SendKeepsTypes DEF SendAgain, TalkOK
  <2>2. CASE retry' = (retry + 2) % 256 /\ KB_Send(RESET) /\ lastbyte' = RESET
    <3>1. RESET \in Messages
      BY DEF Messages
    <3>2. retry' \in 0..255
      BY <2>2 DEF TalkOK
    <3> QED
      BY <1>3, <2>2, <3>1, <3>2, SendKeepsTypes DEF SendAgain, TalkOK
  <2>3. CASE retry' = (retry + 2) % 256 /\ UNCHANGED <<wire, lastbyte>>
    <3>1. retry' \in 0..255
      BY <2>3 DEF TalkOK
    <3> QED
      BY <1>3, <2>3, <3>1 DEF SendAgain, TalkOK, wire
  <2> QED
    BY <1>3, <2>1, <2>2, <2>3 DEF SendAgain
<1>4. CASE UNCHANGED <<led, wire>>
  BY <1>4 DEF led, wire, TalkOK
<1> QED
  BY <1>1, <1>2, <1>3, <1>4 DEF Dialogue

LEMMA KeysKeepReport ==
    ASSUME ReportOK, NEW b, KeyPress(b) \/ KeyRelease(b)
    PROVE  ReportOK'
<1>1. buttons' \subseteq {ButtonOf[k] : k \in DOMAIN ButtonOf}
  BY DEF ReportOK, KeyPress, KeyRelease
<1>2. dir' \in {"NO_BUTTON"} \cup {DirectionOf[k] : k \in DOMAIN DirectionOf}
  BY DEF ReportOK, KeyPress, KeyRelease
<1>3. axes' \in [{"x", "y"} -> {0, 128, 255}]
  <2>1. b \in DOMAIN AxisOf => AxisOf[b] \in {"x", "y"} /\ DeflectionOf[b] \in {0, 255}
    BY Tables
  <2>2. axes \in [{"x", "y"} -> {0, 128, 255}]
    BY DEF ReportOK
  <2> QED
    BY <2>1, <2>2 DEF KeyPress, KeyRelease
<1> QED
  BY <1>1, <1>2, <1>3 DEF ReportOK

LEMMA FilterKeepsTypes ==
    ASSUME TalkOK, ReportOK, NEW p, NEW b, EventFilter(p, b)
    PROVE  TalkOK' /\ ReportOK'
<1>1. CASE Dialogue(b) /\ KeyPress(b)
  BY <1>1, DialogueKeepsTypes, KeysKeepReport
<1>2. CASE KeyRelease(b) /\ UNCHANGED <<led, wire>>
  <2>1. TalkOK'
    BY <1>2 DEF led, wire, TalkOK
  <2> QED
    BY <1>2, <2>1, KeysKeepReport
<1>3. CASE UNCHANGED <<led, wire, report>>
  BY <1>3 DEF led, wire, report, TalkOK, ReportOK
<1> QED
  BY <1>1, <1>2, <1>3 DEF EventFilter

-----------------------------------------------------------------------------
Shape == TalkOK /\ ReportOK /\ RingOK

(* What a byte delivered does to the ring.                                 *)
LEMMA AddedOrLost ==
    ASSUME RingOK, NEW b \in Bytes, RING_AddElement(b)
    PROVE  /\ ring' \in Seq(Bytes) /\ Len(ring') <= RingSize
           /\ ~disturbed' => ~disturbed /\ ring' = Append(ring, b)
           /\ disturbed => disturbed'
           /\ ring' \in {ring, Append(ring, b)}
<1>1. CASE HasRoom
  <2>1. ring' = Append(ring, b) /\ disturbed' = disturbed
    BY <1>1 DEF RING_AddElement
  <2>2. ring \in Seq(Bytes) /\ Len(ring) < RingSize
    BY <1>1 DEF RingOK, HasRoom
  <2>3. Append(ring, b) \in Seq(Bytes) /\ Len(Append(ring, b)) = Len(ring) + 1
    BY <2>2, AppendProperties
  <2>4. Len(ring) \in Nat /\ RingSize \in Nat
    BY <2>2, LenProperties, ConstantsAssumption
  <2> QED
    BY <2>1, <2>2, <2>3, <2>4
<1>2. CASE ~HasRoom
  BY <1>2 DEF RING_AddElement, RingOK
<1> QED
  BY <1>1, <1>2

(* The two ways in which Deliver goes on.                                  *)
LEMMA Delivered ==
    ASSUME Shape, Deliver
    PROVE  /\ RING_AddElement(IF answers # <<>> THEN Head(answers) ELSE Head(codes))
           /\ answers # <<>> => answers' = Tail(answers) /\ codes' = codes
                                /\ Head(answers) \in Answers
           /\ answers = <<>> => /\ answers' = answers
                                /\ codes # <<>> /\ codes' = Tail(codes)
                                /\ Head(codes) \in CodeBytes
           /\ answers' \in Seq(Answers) /\ codes' \in Seq(CodeBytes)
<1>1. answers \in Seq(Answers) /\ codes \in Seq(CodeBytes)
  BY DEF Shape, TalkOK
<1>2. CASE answers # <<>>
  <2>1. answers' = Tail(answers) /\ codes' = codes /\ RING_AddElement(Head(answers))
    BY <1>2 DEF Deliver
  <2>2. Head(answers) \in Answers /\ Tail(answers) \in Seq(Answers)
    BY <1>1, <1>2, HeadTailProperties
  <2> QED
    BY <1>1, <1>2, <2>1, <2>2
<1>3. CASE answers = <<>>
  <2>1. answers' = answers /\ codes # <<>> /\ codes' = Tail(codes) /\ RING_AddElement(Head(codes))
    BY <1>3 DEF Deliver
  <2>2. Head(codes) \in CodeBytes /\ Tail(codes) \in Seq(CodeBytes)
    BY <1>1, <2>1, HeadTailProperties
  <2> QED
    BY <1>1, <1>3, <2>1, <2>2
<1> QED
  BY <1>2, <1>3

LEMMA DeliverKeepsShape ==
    ASSUME Shape, Deliver
    PROVE  Shape'
<1>1. Bytes = CodeBytes \cup Answers
  BY KeyBytesAreCodes
<1> DEFINE b == IF answers # <<>> THEN Head(answers) ELSE Head(codes)
<1>2. RING_AddElement(b) /\ b \in Bytes
  BY <1>1, Delivered
<1> HIDE DEF b
<1>3. ring' \in Seq(Bytes) /\ Len(ring') <= RingSize
  BY <1>2, AddedOrLost DEF Shape
<1>4. answers' \in Seq(Answers) /\ codes' \in Seq(CodeBytes)
  BY Delivered
<1> QED
  BY <1>3, <1>4 DEF Shape, Deliver, led, report, TalkOK, ReportOK, RingOK

LEMMA UserKeepsShape ==
    ASSUME Shape, NEW k \in Keys, User(k)
    PROVE  Shape'
<1>1. codes \in Seq(CodeBytes) /\ MakeCode(k) \in Seq(CodeBytes) /\ BreakCode(k) \in Seq(CodeBytes)
  BY CodesOfKeys DEF Shape, TalkOK
<1>2. codes \o MakeCode(k) \in Seq(CodeBytes) /\ codes \o BreakCode(k) \in Seq(CodeBytes)
  BY <1>1, ConcatProperties
<1>3. codes' \in Seq(CodeBytes) /\ held' \subseteq Keys
  BY <1>2 DEF User, Shape, RingOK
<1> QED
  BY <1>3 DEF User, Shape, led, report, TalkOK, ReportOK, RingOK

(* What one byte less in the ring means.                                   *)
LEMMA Shorter ==
    ASSUME RingOK, ring # <<>>
    PROVE  /\ Head(ring) \in Bytes /\ Tail(ring) \in Seq(Bytes) /\ Len(Tail(ring)) <= RingSize
<1>1. ring \in Seq(Bytes) /\ Len(ring) <= RingSize
  BY DEF RingOK
<1>2. Head(ring) \in Bytes /\ Tail(ring) \in Seq(Bytes) /\ Len(Tail(ring)) = Len(ring) - 1
  BY <1>1, HeadTailProperties
<1>3. Len(ring) \in Nat /\ RingSize \in Nat
  BY <1>1, LenProperties, ConstantsAssumption
<1> QED
  BY <1>1, <1>2, <1>3

LEMMA TaskKeepsShape ==
    ASSUME Shape, KB_EventTask
    PROVE  Shape'
<1> USE DEF Shape
<1>1. CASE TakePrefix /\ UNCHANGED <<led, wire, report>> /\ UNCHANGED held
  <2>1. ring' = Tail(ring) /\ ring # <<>> /\ e0_f0' \subseteq {"E0", "F0"}
    BY <1>1 DEF TakePrefix, BreakPrefix, RingOK
  <2>2. RingOK'
    BY <1>1, <2>1, Shorter DEF RingOK
  <2> QED
    BY <1>1, <2>2 DEF led, wire, report, TalkOK, ReportOK
<1>2. CASE TakePrefix /\ Beat /\ UNCHANGED held
  <2>1. ring' = Tail(ring) /\ ring # <<>> /\ e0_f0' \subseteq {"E0", "F0"}
    BY <1>2 DEF TakePrefix, BreakPrefix, RingOK
  <2>2. RingOK'
    BY <1>2, <2>1, Shorter DEF RingOK
  <2> QED
    BY <1>2, <2>2, FilterKeepsTypes DEF Beat
<1>3. CASE TakeCode /\ UNCHANGED held
  <2>1. ring' = Tail(ring) /\ ring # <<>> /\ e0_f0' = {} /\ EventFilter(e0_f0, Head(ring))
    BY <1>3 DEF TakeCode
  <2>2. RingOK'
    BY <1>3, <2>1, Shorter DEF RingOK
  <2> QED
    BY <2>1, <2>2, FilterKeepsTypes
<1>4. CASE Heartbeat
  <2>1. RingOK'
    BY <1>4 DEF Heartbeat, RingOK
  <2> QED
    BY <1>4, <2>1, FilterKeepsTypes DEF Heartbeat, Beat
<1> QED
  BY <1>1, <1>2, <1>3, <1>4 DEF KB_EventTask, Poll

LEMMA ShapeKept ==
    ASSUME Shape, [Next]_vars
    PROVE  Shape'
<1>1. CASE Next
  BY <1>1, DeliverKeepsShape, UserKeepsShape, TaskKeepsShape DEF Next
<1>2. CASE UNCHANGED vars
  BY <1>2 DEF vars, Shape, TalkOK, ReportOK, RingOK
<1> QED
  BY <1>1, <1>2

LEMMA ShapeAtFirst == Init => Shape
<1> SUFFICES ASSUME Init PROVE Shape
  OBVIOUS
<1>1. <<>> \in Seq(Bytes) /\ Len(<<>>) = 0 /\ <<>> \in Seq(CodeBytes) /\ 0 <= RingSize
  BY EmptySeq, ConstantsAssumption
<1>2. <<"AA">> \in Seq(Answers)
  BY DEF Answers
<1>3. LedState({}) \in Messages
  BY DEF Messages
<1>4. Centre \in [{"x", "y"} -> {0, 128, 255}]
  BY DEF Centre
<1>5. TalkOK
  BY <1>1, <1>2, <1>3 DEF Init, TalkOK
<1>6. RingOK
  BY <1>1 DEF Init, RingOK
<1>7. ReportOK
  BY <1>4 DEF Init, ReportOK
<1> QED
  BY <1>5, <1>6, <1>7 DEF Shape

(* The variables stay in their types. *)
THEOREM TypeCorrect == Spec => []TypeOK
<1>1. Spec => []Shape
  BY ShapeAtFirst, ShapeKept, PTL DEF Spec
<1>2. Shape => TypeOK
  BY TypeFromParts DEF Shape
<1> QED
  BY <1>1, <1>2, PTL

-----------------------------------------------------------------------------
(* Whether a byte is in a sequence, and how that changes.                  *)
Says(s, b) == \E i \in 1..Len(s) : s[i] = b

LEMMA SaysShorter ==
    ASSUME NEW T, NEW s \in Seq(T), s # <<>>, NEW b
    PROVE  Says(s, b) <=> Head(s) = b \/ Says(Tail(s), b)
<1>1. /\ Len(s) \in Nat /\ Len(s) >= 1
      /\ Len(Tail(s)) = Len(s) - 1
      /\ \A i \in 1..Len(Tail(s)) : Tail(s)[i] = s[i + 1]
  BY EmptySeq, HeadTailProperties, LenProperties
<1>2. Head(s) = s[1]
  OBVIOUS
<1>3. ASSUME Says(s, b), Head(s) # b PROVE Says(Tail(s), b)
  <2>1. PICK i \in 1..Len(s) : s[i] = b
    BY <1>3 DEF Says
  <2>2. i # 1
    BY <1>2, <1>3, <2>1
  <2>3. i - 1 \in 1..Len(Tail(s)) /\ (i - 1) + 1 = i
    BY <1>1, <2>2
  <2>4. Tail(s)[i - 1] = b
    BY <1>1, <2>1, <2>3
  <2> QED
    BY <2>3, <2>4 DEF Says
<1>4. ASSUME Says(Tail(s), b) PROVE Says(s, b)
  <2>1. PICK i \in 1..Len(Tail(s)) : Tail(s)[i] = b
    BY <1>4 DEF Says
  <2>2. i + 1 \in 1..Len(s) /\ s[i + 1] = b
    BY <1>1, <2>1
  <2> QED
    BY <2>2 DEF Says
<1>5. Head(s) = b => Says(s, b)
  <2>1. 1 \in 1..Len(s)
    BY <1>1
  <2> QED
    BY <1>2, <2>1 DEF Says
<1> QED
  BY <1>3, <1>4, <1>5

LEMMA SaysLonger ==
    ASSUME NEW T, NEW s \in Seq(T), NEW e \in T, NEW b
    PROVE  Says(Append(s, e), b) <=> Says(s, b) \/ e = b
<1>1. /\ Len(s) \in Nat
      /\ Len(Append(s, e)) = Len(s) + 1
      /\ \A i \in 1..Len(s) : Append(s, e)[i] = s[i]
      /\ Append(s, e)[Len(s) + 1] = e
  BY AppendProperties, LenProperties
<1>2. Says(s, b) => Says(Append(s, e), b)
  <2>1. \A i \in 1..Len(s) : i \in 1..Len(Append(s, e))
    BY <1>1
  <2> QED
    BY <1>1, <2>1 DEF Says
<1>3. e = b => Says(Append(s, e), b)
  <2>1. Len(s) + 1 \in 1..Len(Append(s, e))
    BY <1>1
  <2> QED
    BY <1>1, <2>1 DEF Says
<1>4. ASSUME NEW i \in 1..Len(Append(s, e)), Append(s, e)[i] = b
      PROVE  Says(s, b) \/ e = b
  <2>1. i \in 1..Len(s) \/ i = Len(s) + 1
    BY <1>1
  <2> QED
    BY <1>1, <1>4, <2>1 DEF Says
<1> QED
  BY <1>2, <1>3, <1>4 DEF Says

LEMMA SaysNothing == \A b : ~Says(<<>>, b)
BY EmptySeq DEF Says

LEMMA SaysAnswer ==
    /\ \A b : Says(<<"FE">>, b) <=> b = "FE"
    /\ \A b : Says(<<"FA">>, b) <=> b = "FA"
    /\ \A b : Says(<<"FA", "AA">>, b) <=> b \in {"FA", "AA"}
<1>1. ASSUME NEW a, NEW b PROVE Says(<<a>>, b) <=> a = b
  <2>1. <<a>> \in Seq({a}) /\ <<a>> # <<>> /\ Head(<<a>>) = a /\ Tail(<<a>>) = <<>>
    OBVIOUS
  <2> QED
    BY <2>1, SaysShorter, SaysNothing
<1>2. ASSUME NEW b PROVE Says(<<"FA", "AA">>, b) <=> b \in {"FA", "AA"}
  <2>1. /\ <<"FA", "AA">> \in Seq({"FA", "AA"}) /\ <<"FA", "AA">> # <<>>
        /\ Head(<<"FA", "AA">>) = "FA" /\ Tail(<<"FA", "AA">>) = <<"AA">>
    OBVIOUS
  <2>2. Says(<<"FA", "AA">>, b) <=> Head(<<"FA", "AA">>) = b \/ Says(Tail(<<"FA", "AA">>), b)
    BY <2>1, SaysShorter
  <2>3. Says(<<"AA">>, b) <=> b = "AA"
    BY <1>1
  <2> QED
    BY <2>1, <2>2, <2>3
<1> QED
  BY <1>1, <1>2

(* A byte that neither the ring nor the keyboard holds is in neither of    *)
(* them after a delivery.                                                  *)
Coming(b) == Says(ring, b) \/ Says(answers, b)

LEMMA DeliverKeepsComing ==
    ASSUME Shape, Deliver, NEW b \in Answers
    PROVE  /\ Coming(b)' => Coming(b)
           /\ Coming(b) /\ ~disturbed' => Coming(b)'
<1> DEFINE c == IF answers # <<>> THEN Head(answers) ELSE Head(codes)
<1>1. RING_AddElement(c) /\ c \in Bytes /\ CodeBytes \cap Answers = {}
  BY Delivered, KeyBytesAreCodes
<1> HIDE DEF c
<1>2. /\ ring' \in {ring, Append(ring, c)}
      /\ ~disturbed' => ring' = Append(ring, c)
  BY <1>1, AddedOrLost DEF Shape
<1>3. Says(Append(ring, c), b) <=> Says(ring, b) \/ c = b
  BY <1>1, SaysLonger DEF Shape, RingOK
<1>4. CASE answers # <<>>
  <2>1. c = Head(answers) /\ answers' = Tail(answers)
    BY <1>4, Delivered DEF c
  <2>2. Says(answers, b) <=> c = b \/ Says(answers', b)
    BY <1>4, <2>1, SaysShorter DEF Shape, TalkOK
  <2> QED
    BY <1>2, <1>3, <2>2 DEF Coming
<1>5. CASE answers = <<>>
  <2>1. c # b /\ answers' = answers
    BY <1>1, <1>5, Delivered DEF c
  <2> QED
    BY <1>2, <1>3, <2>1 DEF Coming
<1> QED
  BY <1>4, <1>5

-----------------------------------------------------------------------------
(* The messages of the driver are told apart by their first field.         *)
LEMMA MessagesDiffer ==
    /\ SET_LEDS # RESET
    /\ \A s : LedState(s) # SET_LEDS /\ LedState(s) # RESET /\ LedState(s).leds = s
BY DEF SET_LEDS, RESET, LedState

(* While nothing was damaged on the line the keyboard asks for nothing      *)
(* again, so nothing is repeated, the keyboard is never reset, and between  *)
(* the request and the LED state it waits for it.                           *)
Awaited ==
    /\ faults \in Nat
    /\ faults = 0 => /\ ~confused /\ ~Coming("FE") /\ lastbyte # RESET
                     /\ lastbyte = SET_LEDS => kbd.awaits

LEMMA SendCounts ==
    ASSUME faults \in Nat, NEW b, KB_Send(b)
    PROVE  /\ faults' \in Nat
           /\ faults' = 0 => /\ faults = 0
                             /\ kbd' = After(b) /\ answers' = Answer(b)
                             /\ confused' = (confused \/ ~Understands(b))
BY DEF KB_Send

LEMMA DialogueAwaited ==
    ASSUME Shape, Awaited, NEW b, Dialogue(b), faults = 0 => b # "FE"
    PROVE  /\ faults' \in Nat
           /\ faults' = 0 => /\ faults = 0 /\ ~confused' /\ lastbyte' # RESET
                             /\ Says(answers', "FE") => Says(answers, "FE")
                             /\ lastbyte' = SET_LEDS => kbd'.awaits
<1>0. faults \in Nat
  BY DEF Awaited
<1>1. CASE AskForLeds(b)
  <2>1. KB_Send(SET_LEDS) /\ lastbyte' = SET_LEDS
    BY <1>1 DEF AskForLeds
  <2>2. faults' \in Nat
    BY <1>0, <2>1, SendCounts
  <2>3. ASSUME faults' = 0
        PROVE  faults = 0 /\ ~confused' /\ answers' = <<"FA">> /\ kbd'.awaits
    <3>1. /\ faults = 0 /\ kbd' = After(SET_LEDS) /\ answers' = Answer(SET_LEDS)
          /\ confused' = (confused \/ ~Understands(SET_LEDS))
      BY <1>0, <2>1, <2>3, SendCounts
    <3>2. Understands(SET_LEDS) /\ ~confused
      BY <3>1 DEF Understands, Awaited
    <3>3. answers' = <<"FA">>
      BY <3>1, <3>2, MessagesDiffer DEF Answer
    <3>4. kbd' = [kbd EXCEPT !.awaits = TRUE]
      BY <3>1, MessagesDiffer DEF After
    <3>5. kbd'.awaits
      BY <3>4 DEF Shape, TalkOK
    <3> QED
      BY <3>1, <3>2, <3>3, <3>5
  <2> QED
    BY <2>1, <2>2, <2>3, SaysAnswer, MessagesDiffer
<1>2. CASE AcknowledgesRequest(b) /\ SendLeds
  <2>1. /\ lastbyte = SET_LEDS /\ KB_Send(LedState(leds')) /\ lastbyte' = LedState(leds')
    BY <1>2 DEF AcknowledgesRequest, SendLeds
  <2>2. faults' \in Nat
    BY <1>0, <2>1, SendCounts
  <2>3. ASSUME faults' = 0
        PROVE  faults = 0 /\ ~confused' /\ answers' = <<"FA">>
    <3>1. /\ faults = 0 /\ answers' = Answer(LedState(leds'))
          /\ confused' = (confused \/ ~Understands(LedState(leds')))
      BY <1>0, <2>1, <2>3, SendCounts
    <3>2. Understands(LedState(leds')) /\ ~confused
      BY <2>1, <3>1 DEF Understands, Awaited
    <3> QED
      BY <3>1, <3>2, MessagesDiffer DEF Answer
  <2> QED
    BY <2>1, <2>2, <2>3, SaysAnswer, MessagesDiffer
<1>3. CASE b = "FE" /\ SendAgain
  <2>1. faults' \in Nat /\ (faults' = 0 => faults = 0)
    <3>1. (\E m : KB_Send(m)) \/ UNCHANGED wire
      BY <1>3 DEF SendAgain
    <3> QED
      BY <1>0, <3>1, SendCounts DEF wire
  <2> QED
    BY <1>3, <2>1
<1>4. CASE UNCHANGED <<led, wire>>
  BY <1>4 DEF led, wire, Awaited, Coming
<1> QED
  BY <1>1, <1>2, <1>3, <1>4 DEF Dialogue

LEMMA FilterAwaited ==
    ASSUME Shape, Awaited, NEW p, NEW b, EventFilter(p, b), faults = 0 => b # "FE",
           \A c : Says(ring', c) => Says(ring, c)
    PROVE  Awaited'
<1>1. CASE Dialogue(b)
  BY <1>1, DialogueAwaited DEF Awaited, Coming
<1>2. CASE UNCHANGED <<led, wire>>
  BY <1>2 DEF led, wire, Awaited, Coming
<1> QED
  BY <1>1, <1>2 DEF EventFilter

LEMMA AwaitedKept ==
    ASSUME Shape, Awaited, [Next]_vars
    PROVE  Awaited'
<1>1. CASE Deliver
  <2>1. Coming("FE")' => Coming("FE")
    BY <1>1, DeliverKeepsComing DEF Answers
  <2> QED
    BY <1>1, <2>1 DEF Deliver, led, Awaited
<1>2. ASSUME NEW k \in Keys, User(k) PROVE Awaited'
  BY <1>2 DEF User, led, Awaited, Coming
<1>3. ASSUME ring # <<>>, ring' = Tail(ring)
      PROVE  /\ \A c : Says(ring', c) => Says(ring, c)
             /\ Says(ring, Head(ring))
  BY <1>3, SaysShorter DEF Shape, RingOK
<1>4. CASE TakePrefix /\ UNCHANGED <<led, wire, report>>
  BY <1>3, <1>4 DEF TakePrefix, led, wire, Awaited, Coming
<1>5. CASE TakePrefix /\ Beat
  <2>1. EventFilter({}, "ScrollLock") /\ "ScrollLock" # "FE"
    BY <1>5 DEF Beat
  <2> QED
    BY <1>3, <1>5, <2>1, FilterAwaited DEF TakePrefix
<1>6. CASE TakeCode
  <2>1. faults = 0 => Head(ring) # "FE"
    BY <1>3, <1>6 DEF TakeCode, Awaited, Coming
  <2> QED
    BY <1>3, <1>6, <2>1, FilterAwaited DEF TakeCode
<1>7. CASE Heartbeat
  <2>1. EventFilter({}, "ScrollLock") /\ "ScrollLock" # "FE" /\ ring' = ring
    BY <1>7 DEF Heartbeat, Beat
  <2> QED
    BY <2>1, FilterAwaited
<1>8. CASE UNCHANGED vars
  BY <1>8 DEF vars, Awaited, Coming
<1> QED
  BY <1>1, <1>2, <1>4, <1>5, <1>6, <1>7, <1>8 DEF Next, KB_EventTask, Poll

LEMMA AwaitedAtFirst == Init => Awaited
<1>1. ~Says(<<"AA">>, "FE")
  BY DEF Says
<1> QED
  BY <1>1, SaysNothing, MessagesDiffer DEF Init, Awaited, Coming

(* The LED state is sent only to a keyboard that waits for it, unless the   *)
(* line damaged a command.                                                  *)
THEOREM AlwaysAwaited == Spec => []LedStateIsAwaited
<1>1. Spec => [](Shape /\ Awaited)
  BY ShapeAtFirst, ShapeKept, AwaitedAtFirst, AwaitedKept, PTL DEF Spec
<1>2. Awaited => LedStateIsAwaited
  BY DEF Awaited, LedStateIsAwaited
<1> QED
  BY <1>1, <1>2, PTL

(* Bytes in a row.  A code of a key is made of its prefixes and a byte that *)
(* is none.                                                                *)
Prefixes == {"E0", "F0"}

(* A byte that makes, or breaks, the key c that has no E0.                  *)
MakeAt(s, c, i) == s[i] = c /\ (i > 1 => s[i - 1] \notin Prefixes)
BreakAt(s, c, i) == s[i] = c /\ i > 1 /\ s[i - 1] = "F0" /\ (i > 2 => s[i - 2] # "E0")

Makes(s, c) == \E i \in 1..Len(s) : MakeAt(s, c, i)
Breaks(s, c) == \E i \in 1..Len(s) : BreakAt(s, c, i)

(* Each prefix is followed by what it announces; s does not end in one.     *)
Whole(s) == \A i \in 1..Len(s) :
    s[i] \in Prefixes =>
        i < Len(s) /\ (s[i + 1] \in KeyBytes \/ (s[i] = "E0" /\ s[i + 1] = "F0"))

LEMMA Joined ==
    ASSUME NEW u \in Seq(Bytes), NEW v \in Seq(Bytes)
    PROVE  /\ u \o v \in Seq(Bytes)
           /\ Len(u) \in Nat /\ Len(v) \in Nat /\ Len(u \o v) = Len(u) + Len(v)
           /\ \A i \in 1..Len(u) : (u \o v)[i] = u[i]
           /\ \A i \in 1..Len(v) : (u \o v)[Len(u) + i] = v[i]
<1>1. /\ u \o v \in Seq(Bytes)
      /\ Len(u \o v) = Len(u) + Len(v)
      /\ \A i \in 1..Len(u) + Len(v) :
             (u \o v)[i] = IF i <= Len(u) THEN u[i] ELSE v[i - Len(u)]
  BY ConcatProperties
<1>2. Len(u) \in Nat /\ Len(v) \in Nat
  BY LenProperties
<1>3. ASSUME NEW i \in 1..Len(u) PROVE (u \o v)[i] = u[i]
  BY <1>1, <1>2
<1>4. ASSUME NEW i \in 1..Len(v) PROVE (u \o v)[Len(u) + i] = v[i]
  <2>1. Len(u) + i \in 1..Len(u) + Len(v) /\ ~(Len(u) + i <= Len(u)) /\ (Len(u) + i) - Len(u) = i
    BY <1>2
  <2> QED
    BY <1>1, <2>1
<1> QED
  BY <1>1, <1>2, <1>3, <1>4

(* Where two rows meet nothing is read differently, if the first is whole.  *)
LEMMA Parted ==
    ASSUME NEW u \in Seq(Bytes), NEW v \in Seq(Bytes), Whole(u), NEW c
    PROVE  /\ \A i \in 1..Len(u) : MakeAt(u \o v, c, i) <=> MakeAt(u, c, i)
           /\ \A i \in 1..Len(u) : BreakAt(u \o v, c, i) <=> BreakAt(u, c, i)
           /\ \A i \in 1..Len(v) : MakeAt(u \o v, c, Len(u) + i) <=> MakeAt(v, c, i)
           /\ \A i \in 1..Len(v) : BreakAt(u \o v, c, Len(u) + i) <=> BreakAt(v, c, i)
<1> DEFINE s == u \o v
<1>1. /\ Len(u) \in Nat /\ Len(v) \in Nat /\ Len(s) = Len(u) + Len(v)
      /\ \A i \in 1..Len(u) : s[i] = u[i]
      /\ \A i \in 1..Len(v) : s[Len(u) + i] = v[i]
  BY Joined
<1> HIDE DEF s
<1>2. ASSUME NEW i \in 1..Len(u)
      PROVE  (MakeAt(s, c, i) <=> MakeAt(u, c, i)) /\ (BreakAt(s, c, i) <=> BreakAt(u, c, i))
  <2>1. s[i] = u[i]
    BY <1>1
  <2>2. i > 1 => s[i - 1] = u[i - 1]
    <3>1. i > 1 => i - 1 \in 1..Len(u)
      BY <1>1
    <3> QED
      BY <1>1, <3>1
  <2>3. i > 2 => s[i - 2] = u[i - 2]
    <3>1. i > 2 => i - 2 \in 1..Len(u)
      BY <1>1
    <3> QED
      BY <1>1, <3>1
  <2> QED
    BY <2>1, <2>2, <2>3 DEF MakeAt, BreakAt
<1>3. ASSUME NEW i \in 1..Len(v)
      PROVE  (MakeAt(s, c, Len(u) + i) <=> MakeAt(v, c, i))
             /\ (BreakAt(s, c, Len(u) + i) <=> BreakAt(v, c, i))
  <2> DEFINE j == Len(u) + i
  <2>1. s[j] = v[i] /\ j \in Nat
    BY <1>1
  <2>2. ASSUME i = 1, j > 1 PROVE s[j - 1] \notin Prefixes
    <3>1. j - 1 = Len(u) /\ Len(u) \in 1..Len(u)
      BY <1>1, <2>2
    <3>2. s[Len(u)] = u[Len(u)]
      BY <1>1, <3>1
    <3>3. u[Len(u)] \notin Prefixes
      BY <1>1, <3>1 DEF Whole
    <3> QED
      BY <3>1, <3>2, <3>3
  <2>3. ASSUME i = 2, j > 2 PROVE s[j - 2] \notin Prefixes
    <3>1. j - 2 = Len(u) /\ Len(u) \in 1..Len(u)
      BY <1>1, <2>3
    <3>2. s[Len(u)] = u[Len(u)]
      BY <1>1, <3>1
    <3>3. u[Len(u)] \notin Prefixes
      BY <1>1, <3>1 DEF Whole
    <3> QED
      BY <3>1, <3>2, <3>3
  <2>4. i > 1 => j > 1 /\ s[j - 1] = v[i - 1]
    <3>1. i > 1 => i - 1 \in 1..Len(v) /\ Len(u) + (i - 1) = j - 1 /\ j > 1
      BY <1>1
    <3> QED
      BY <1>1, <3>1
  <2>5. i > 2 => j > 2 /\ s[j - 2] = v[i - 2]
    <3>1. i > 2 => i - 2 \in 1..Len(v) /\ Len(u) + (i - 2) = j - 2 /\ j > 2
      BY <1>1
    <3> QED
      BY <1>1, <3>1
  <2>6. i = 1 \/ i = 2 \/ i > 2
    OBVIOUS
  <2>7. "F0" \in Prefixes /\ "E0" \in Prefixes
    BY DEF Prefixes
  <2> HIDE DEF j
  <2>8. MakeAt(s, c, j) <=> MakeAt(v, c, i)
    <3>1. CASE i = 1
      BY <2>1, <2>2, <3>1 DEF MakeAt
    <3>2. CASE i > 1
      BY <2>1, <2>4, <3>2 DEF MakeAt
    <3> QED
      BY <2>6, <3>1, <3>2
  <2>9. BreakAt(s, c, j) <=> BreakAt(v, c, i)
    <3>1. CASE i = 1
      BY <2>1, <2>2, <2>7, <3>1 DEF BreakAt
    <3>2. CASE i = 2
      BY <2>1, <2>3, <2>4, <2>7, <3>2 DEF BreakAt
    <3>3. CASE i > 2
      BY <2>1, <2>4, <2>5, <3>3 DEF BreakAt
    <3> QED
      BY <2>6, <3>1, <3>2, <3>3
  <2> QED
    BY <2>8, <2>9 DEF j
<1> QED
  BY <1>2, <1>3 DEF s

(* A row is whole when both its parts are.                                  *)
LEMMA WholeFromParts ==
    ASSUME NEW u \in Seq(Bytes), NEW v \in Seq(Bytes), Whole(u), Whole(v)
    PROVE  Whole(u \o v)
<1> DEFINE s == u \o v
<1>1. /\ Len(u) \in Nat /\ Len(v) \in Nat /\ Len(s) = Len(u) + Len(v)
      /\ \A i \in 1..Len(u) : s[i] = u[i]
      /\ \A i \in 1..Len(v) : s[Len(u) + i] = v[i]
  BY Joined
<1> HIDE DEF s
<1>2. ASSUME NEW i \in 1..Len(s), s[i] \in Prefixes
      PROVE  i < Len(s) /\ (s[i + 1] \in KeyBytes \/ (s[i] = "E0" /\ s[i + 1] = "F0"))
  <2>1. CASE i \in 1..Len(u)
    <3>1. i < Len(u) /\ (u[i + 1] \in KeyBytes \/ (u[i] = "E0" /\ u[i + 1] = "F0"))
      BY <1>1, <1>2, <2>1 DEF Whole
    <3>2. i + 1 \in 1..Len(u) /\ i < Len(s)
      BY <1>1, <2>1, <3>1
    <3> QED
      BY <1>1, <2>1, <3>1, <3>2
  <2>2. CASE i \notin 1..Len(u)
    <3>1. PICK j \in 1..Len(v) : i = Len(u) + j
      <4>1. i - Len(u) \in 1..Len(v) /\ i = Len(u) + (i - Len(u))
        BY <1>1, <2>2
      <4> QED
        BY <4>1
    <3>2. s[i] = v[j]
      BY <1>1, <3>1
    <3>3. j < Len(v) /\ (v[j + 1] \in KeyBytes \/ (v[j] = "E0" /\ v[j + 1] = "F0"))
      BY <1>2, <3>2 DEF Whole
    <3>4. j + 1 \in 1..Len(v) /\ i + 1 = Len(u) + (j + 1) /\ i < Len(s)
      BY <1>1, <3>1, <3>3
    <3>5. s[i + 1] = v[j + 1]
      BY <1>1, <3>4
    <3> QED
      BY <3>2, <3>3, <3>4, <3>5
  <2> QED
    BY <2>1, <2>2
<1> QED
  BY <1>2 DEF Whole, s

(* The end of a whole row is whole.                                         *)
LEMMA WholeEnd ==
    ASSUME NEW u \in Seq(Bytes), NEW v \in Seq(Bytes), Whole(u \o v)
    PROVE  Whole(v)
<1> DEFINE s == u \o v
<1>1. /\ Len(u) \in Nat /\ Len(v) \in Nat /\ Len(s) = Len(u) + Len(v)
      /\ \A i \in 1..Len(v) : s[Len(u) + i] = v[i]
  BY Joined
<1> HIDE DEF s
<1>2. Whole(s)
  BY DEF s
<1>3. ASSUME NEW i \in 1..Len(v), v[i] \in Prefixes
      PROVE  i < Len(v) /\ (v[i + 1] \in KeyBytes \/ (v[i] = "E0" /\ v[i + 1] = "F0"))
  <2> DEFINE j == Len(u) + i
  <2>1. j \in 1..Len(s) /\ s[j] = v[i]
    BY <1>1
  <2>2. j < Len(s) /\ (s[j + 1] \in KeyBytes \/ (s[j] = "E0" /\ s[j + 1] = "F0"))
    BY <1>2, <1>3, <2>1 DEF Whole
  <2>3. i < Len(v) /\ i + 1 \in 1..Len(v) /\ j + 1 = Len(u) + (i + 1)
    BY <1>1, <2>2
  <2>4. s[j + 1] = v[i + 1]
    BY <1>1, <2>3
  <2> QED
    BY <2>1, <2>2, <2>3, <2>4
<1> QED
  BY <1>3 DEF Whole

(* No code reaches into an answer, so what is before an answer is whole.    *)
LEMMA WholeBegin ==
    ASSUME NEW u \in Seq(Bytes), NEW v \in Seq(Answers), Whole(u \o v)
    PROVE  Whole(u)
<1> DEFINE s == u \o v
<1>0. Answers \subseteq Bytes /\ KeyBytes \cap Answers = {} /\ "F0" \notin Answers
  BY KeyBytesAreCodes DEF Answers
<1>1. /\ Len(u) \in Nat /\ Len(v) \in Nat /\ Len(s) = Len(u) + Len(v)
      /\ \A i \in 1..Len(u) : s[i] = u[i]
      /\ \A i \in 1..Len(v) : s[Len(u) + i] = v[i]
  BY <1>0, SeqMonotonic, Joined
<1> HIDE DEF s
<1>2. Whole(s)
  BY DEF s
<1>3. ASSUME NEW i \in 1..Len(u), u[i] \in Prefixes
      PROVE  i < Len(u) /\ (u[i + 1] \in KeyBytes \/ (u[i] = "E0" /\ u[i + 1] = "F0"))
  <2>1. i \in 1..Len(s) /\ s[i] = u[i]
    BY <1>1
  <2>2. i < Len(s) /\ (s[i + 1] \in KeyBytes \/ (s[i] = "E0" /\ s[i + 1] = "F0"))
    BY <1>2, <1>3, <2>1 DEF Whole
  <2>3. ASSUME i = Len(u) PROVE FALSE
    <3>1. 1 \in 1..Len(v) /\ i + 1 = Len(u) + 1
      BY <1>1, <2>2, <2>3
    <3>2. s[i + 1] = v[1]
      BY <1>1, <3>1
    <3>3. v[1] \in Answers
      BY <3>1, ElementOfSeq
    <3> QED
      BY <1>0, <2>2, <3>2, <3>3
  <2>4. i < Len(u) /\ i + 1 \in 1..Len(u)
    BY <1>1, <2>3
  <2> QED
    BY <1>1, <2>1, <2>2, <2>4
<1> QED
  BY <1>3 DEF Whole

(* What is before a byte that is no prefix is whole.                        *)
LEMMA WholeUntil ==
    ASSUME NEW u \in Seq(Bytes), NEW v \in Seq(Bytes), Whole(u \o v),
           \A i \in 1..Len(u) : i = Len(u) => u[i] \notin Prefixes
    PROVE  Whole(u)
<1> DEFINE s == u \o v
<1>1. /\ Len(u) \in Nat /\ Len(v) \in Nat /\ Len(s) = Len(u) + Len(v)
      /\ \A i \in 1..Len(u) : s[i] = u[i]
  BY Joined
<1> HIDE DEF s
<1>2. Whole(s)
  BY DEF s
<1>3. ASSUME NEW i \in 1..Len(u), u[i] \in Prefixes
      PROVE  i < Len(u) /\ (u[i + 1] \in KeyBytes \/ (u[i] = "E0" /\ u[i + 1] = "F0"))
  <2>1. i \in 1..Len(s) /\ s[i] = u[i]
    BY <1>1
  <2>2. s[i + 1] \in KeyBytes \/ (s[i] = "E0" /\ s[i + 1] = "F0")
    BY <1>2, <1>3, <2>1 DEF Whole
  <2>3. i < Len(u) /\ i + 1 \in 1..Len(u)
    BY <1>1, <1>3
  <2> QED
    BY <1>1, <2>1, <2>2, <2>3
<1> QED
  BY <1>3 DEF Whole

(* Answers are whole and no codes of keys.                                  *)
LEMMA AnswersAreWhole ==
    ASSUME NEW v \in Seq(Answers)
    PROVE  v \in Seq(Bytes) /\ Whole(v)
<1>1. Answers \subseteq Bytes /\ Prefixes \cap Answers = {}
  BY KeyBytesAreCodes DEF Answers, Prefixes
<1>2. v \in Seq(Bytes)
  BY <1>1, SeqMonotonic
<1>3. \A i \in 1..Len(v) : v[i] \in Answers
  BY ElementOfSeq
<1> QED
  BY <1>1, <1>2, <1>3 DEF Whole

LEMMA AnswersAreNoCodes ==
    ASSUME NEW v \in Seq(Answers), NEW c, c \notin Answers
    PROVE  ~Makes(v, c) /\ ~Breaks(v, c)
<1>1. \A i \in 1..Len(v) : v[i] \in Answers
  BY ElementOfSeq
<1> QED
  BY <1>1 DEF Makes, Breaks, MakeAt, BreakAt

-----------------------------------------------------------------------------
(* The codes on the line tell the story of each key c: it is down when the  *)
(* last one makes it and up when the last one breaks it.                    *)
Plain(c) == [ext |-> FALSE, byte |-> c]

Traced(s, h, c) ==
    /\ \A i \in 1..Len(s) : MakeAt(s, c, i) =>
           Plain(c) \in h \/ \E j \in 1..Len(s) : j > i /\ BreakAt(s, c, j)
    /\ \A i \in 1..Len(s) : BreakAt(s, c, i) =>
           Plain(c) \notin h \/ \E j \in 1..Len(s) : j > i /\ MakeAt(s, c, j)

(* A place in a joined row is a place in one of its parts.                  *)
LEMMA Places ==
    ASSUME NEW u \in Seq(Bytes), NEW v \in Seq(Bytes)
    PROVE  /\ \A i \in 1..Len(u) : i \in 1..Len(u \o v)
           /\ \A i \in 1..Len(v) : Len(u) + i \in 1..Len(u \o v)
           /\ \A i \in 1..Len(u \o v) :
                  i \in 1..Len(u) \/ \E j \in 1..Len(v) : i = Len(u) + j
           /\ \A i \in 1..Len(u) : \A j \in 1..Len(v) : Len(u) + j > i
           /\ \A i, j \in 1..Len(v) : j > i <=> Len(u) + j > Len(u) + i
<1>1. Len(u) \in Nat /\ Len(v) \in Nat /\ Len(u \o v) = Len(u) + Len(v)
  BY Joined
<1>2. ASSUME NEW i \in 1..Len(u \o v), i \notin 1..Len(u)
      PROVE  \E j \in 1..Len(v) : i = Len(u) + j
  <2>1. i - Len(u) \in 1..Len(v) /\ i = Len(u) + (i - Len(u))
    BY <1>1, <1>2
  <2> QED
    BY <2>1
<1>3. \A i \in 1..Len(u) : i \in 1..Len(u \o v)
  BY <1>1
<1>4. \A i \in 1..Len(v) : Len(u) + i \in 1..Len(u \o v)
  BY <1>1
<1>5. \A i \in 1..Len(u) : \A j \in 1..Len(v) : Len(u) + j > i
  BY <1>1
<1>6. \A i, j \in 1..Len(v) : j > i <=> Len(u) + j > Len(u) + i
  BY <1>1
<1> QED
  BY <1>2, <1>3, <1>4, <1>5, <1>6

LEMMA CodesOfParts ==
    ASSUME NEW u \in Seq(Bytes), NEW v \in Seq(Bytes), Whole(u), NEW c
    PROVE  /\ Makes(u \o v, c) <=> Makes(u, c) \/ Makes(v, c)
           /\ Breaks(u \o v, c) <=> Breaks(u, c) \/ Breaks(v, c)
<1>1. /\ \A i \in 1..Len(u) : MakeAt(u \o v, c, i) <=> MakeAt(u, c, i)
      /\ \A i \in 1..Len(u) : BreakAt(u \o v, c, i) <=> BreakAt(u, c, i)
      /\ \A i \in 1..Len(v) : MakeAt(u \o v, c, Len(u) + i) <=> MakeAt(v, c, i)
      /\ \A i \in 1..Len(v) : BreakAt(u \o v, c, Len(u) + i) <=> BreakAt(v, c, i)
  BY Parted
<1>2. /\ \A i \in 1..Len(u) : i \in 1..Len(u \o v)
      /\ \A i \in 1..Len(v) : Len(u) + i \in 1..Len(u \o v)
      /\ \A i \in 1..Len(u \o v) :
             i \in 1..Len(u) \/ \E j \in 1..Len(v) : i = Len(u) + j
  BY Places
<1>3. Makes(u \o v, c) <=> Makes(u, c) \/ Makes(v, c)
  BY <1>1, <1>2, Zenon DEF Makes
<1>4. Breaks(u \o v, c) <=> Breaks(u, c) \/ Breaks(v, c)
  BY <1>1, <1>2, Zenon DEF Breaks
<1> QED
  BY <1>3, <1>4

(* Handling what comes first leaves the story of the rest.                  *)
LEMMA TracedEnd ==
    ASSUME NEW u \in Seq(Bytes), NEW v \in Seq(Bytes), Whole(u), NEW c, NEW h,
           Traced(u \o v, h, c)
    PROVE  /\ Traced(v, h, c)
           /\ Makes(u, c) => Plain(c) \in h \/ Breaks(u, c) \/ Breaks(v, c)
           /\ Breaks(u, c) => Plain(c) \notin h \/ Makes(u, c) \/ Makes(v, c)
<1>1. /\ \A i \in 1..Len(u) : MakeAt(u \o v, c, i) <=> MakeAt(u, c, i)
      /\ \A i \in 1..Len(u) : BreakAt(u \o v, c, i) <=> BreakAt(u, c, i)
      /\ \A i \in 1..Len(v) : MakeAt(u \o v, c, Len(u) + i) <=> MakeAt(v, c, i)
      /\ \A i \in 1..Len(v) : BreakAt(u \o v, c, Len(u) + i) <=> BreakAt(v, c, i)
  BY Parted
<1>2. /\ \A i \in 1..Len(u) : i \in 1..Len(u \o v)
      /\ \A i \in 1..Len(v) : Len(u) + i \in 1..Len(u \o v)
      /\ \A i \in 1..Len(u \o v) :
             i \in 1..Len(u) \/ \E j \in 1..Len(v) : i = Len(u) + j
      /\ \A i, j \in 1..Len(v) : j > i <=> Len(u) + j > Len(u) + i
  BY Places
<1>a. \A i \in 1..Len(u) : \A j \in 1..Len(v) : ~(i > Len(u) + j)
  BY Joined
<1>3. ASSUME NEW i \in 1..Len(v), MakeAt(v, c, i), Plain(c) \notin h
      PROVE  \E j \in 1..Len(v) : j > i /\ BreakAt(v, c, j)
  <2>1. MakeAt(u \o v, c, Len(u) + i) /\ Len(u) + i \in 1..Len(u \o v)
    BY <1>1, <1>2, <1>3
  <2>2. PICK j \in 1..Len(u \o v) : j > Len(u) + i /\ BreakAt(u \o v, c, j)
    BY <1>3, <2>1 DEF Traced
  <2>3. PICK k \in 1..Len(v) : j = Len(u) + k
    BY <1>2, <1>a, <2>2
  <2> QED
    BY <1>1, <1>2, <2>2, <2>3
<1>4. ASSUME NEW i \in 1..Len(v), BreakAt(v, c, i), Plain(c) \in h
      PROVE  \E j \in 1..Len(v) : j > i /\ MakeAt(v, c, j)
  <2>1. BreakAt(u \o v, c, Len(u) + i) /\ Len(u) + i \in 1..Len(u \o v)
    BY <1>1, <1>2, <1>4
  <2>2. PICK j \in 1..Len(u \o v) : j > Len(u) + i /\ MakeAt(u \o v, c, j)
    BY <1>4, <2>1 DEF Traced
  <2>3. PICK k \in 1..Len(v) : j = Len(u) + k
    BY <1>2, <1>a, <2>2
  <2> QED
    BY <1>1, <1>2, <2>2, <2>3
<1>5. Makes(u, c) => Plain(c) \in h \/ Breaks(u, c) \/ Breaks(v, c)
  <2>1. Makes(u, c) => Makes(u \o v, c)
    BY CodesOfParts
  <2>2. Makes(u \o v, c) => Plain(c) \in h \/ Breaks(u \o v, c)
    BY Zenon DEF Traced, Makes, Breaks
  <2> QED
    BY <2>1, <2>2, CodesOfParts
<1>6. Breaks(u, c) => Plain(c) \notin h \/ Makes(u, c) \/ Makes(v, c)
  <2>1. Breaks(u, c) => Breaks(u \o v, c)
    BY CodesOfParts
  <2>2. Breaks(u \o v, c) => Plain(c) \notin h \/ Makes(u \o v, c)
    BY Zenon DEF Traced, Makes, Breaks
  <2> QED
    BY <2>1, <2>2, CodesOfParts
<1>7. Traced(v, h, c)
  BY <1>3, <1>4, Zenon DEF Traced
<1> QED
  BY <1>5, <1>6, <1>7

(* What tells nothing of c may be put at the end or taken from it.          *)
LEMMA TracedMore ==
    ASSUME NEW u \in Seq(Bytes), NEW v \in Seq(Bytes), Whole(u), NEW c, NEW h, NEW g,
           ~Makes(v, c), ~Breaks(v, c), Plain(c) \in g <=> Plain(c) \in h
    PROVE  Traced(u, h, c) <=> Traced(u \o v, g, c)
<1>1. /\ \A i \in 1..Len(u) : MakeAt(u \o v, c, i) <=> MakeAt(u, c, i)
      /\ \A i \in 1..Len(u) : BreakAt(u \o v, c, i) <=> BreakAt(u, c, i)
      /\ \A i \in 1..Len(v) : ~MakeAt(u \o v, c, Len(u) + i)
      /\ \A i \in 1..Len(v) : ~BreakAt(u \o v, c, Len(u) + i)
  BY Parted DEF Makes, Breaks
<1>2. /\ \A i \in 1..Len(u) : i \in 1..Len(u \o v)
      /\ \A i \in 1..Len(u \o v) :
             i \in 1..Len(u) \/ \E j \in 1..Len(v) : i = Len(u) + j
  BY Places
<1>3. \A i \in 1..Len(u \o v) :
          /\ MakeAt(u \o v, c, i) <=> i \in 1..Len(u) /\ MakeAt(u, c, i)
          /\ BreakAt(u \o v, c, i) <=> i \in 1..Len(u) /\ BreakAt(u, c, i)
  BY <1>1, <1>2, Zenon
<1>4. Traced(u, h, c) => Traced(u \o v, g, c)
  BY <1>2, <1>3, Zenon DEF Traced
<1>5. Traced(u \o v, g, c) => Traced(u, h, c)
  BY <1>2, <1>3, Zenon DEF Traced
<1> QED
  BY <1>4, <1>5

(* The user presses c, or releases it.                                      *)
LEMMA TracedPress ==
    ASSUME NEW u \in Seq(Bytes), NEW v \in Seq(Bytes), Whole(u), NEW c, NEW g,
           Makes(v, c), ~Breaks(v, c), Plain(c) \in g
    PROVE  Traced(u \o v, g, c)
<1>1. /\ \A i \in 1..Len(v) : MakeAt(u \o v, c, Len(u) + i) <=> MakeAt(v, c, i)
      /\ \A i \in 1..Len(v) : ~BreakAt(u \o v, c, Len(u) + i)
  BY Parted DEF Breaks
<1>2. /\ \A i \in 1..Len(v) : Len(u) + i \in 1..Len(u \o v)
      /\ \A i \in 1..Len(u \o v) :
             i \in 1..Len(u) \/ \E j \in 1..Len(v) : i = Len(u) + j
      /\ \A i \in 1..Len(u) : \A j \in 1..Len(v) : Len(u) + j > i
  BY Places
<1>3. PICK j \in 1..Len(v) : MakeAt(v, c, j)
  BY DEF Makes
<1>4. ASSUME NEW i \in 1..Len(u \o v), BreakAt(u \o v, c, i)
      PROVE  \E k \in 1..Len(u \o v) : k > i /\ MakeAt(u \o v, c, k)
  <2>1. i \in 1..Len(u)
    BY <1>1, <1>2, <1>4
  <2>2. Len(u) + j > i /\ Len(u) + j \in 1..Len(u \o v) /\ MakeAt(u \o v, c, Len(u) + j)
    BY <1>1, <1>2, <1>3, <2>1
  <2> QED
    BY <2>2
<1> QED
  BY <1>4 DEF Traced

LEMMA TracedRelease ==
    ASSUME NEW u \in Seq(Bytes), NEW v \in Seq(Bytes), Whole(u), NEW c, NEW g,
           Breaks(v, c), ~Makes(v, c), Plain(c) \notin g
    PROVE  Traced(u \o v, g, c)
<1>1. /\ \A i \in 1..Len(v) : BreakAt(u \o v, c, Len(u) + i) <=> BreakAt(v, c, i)
      /\ \A i \in 1..Len(v) : ~MakeAt(u \o v, c, Len(u) + i)
  BY Parted DEF Makes
<1>2. /\ \A i \in 1..Len(v) : Len(u) + i \in 1..Len(u \o v)
      /\ \A i \in 1..Len(u \o v) :
             i \in 1..Len(u) \/ \E j \in 1..Len(v) : i = Len(u) + j
      /\ \A i \in 1..Len(u) : \A j \in 1..Len(v) : Len(u) + j > i
  BY Places
<1>3. PICK j \in 1..Len(v) : BreakAt(v, c, j)
  BY DEF Breaks
<1>4. ASSUME NEW i \in 1..Len(u \o v), MakeAt(u \o v, c, i)
      PROVE  \E k \in 1..Len(u \o v) : k > i /\ BreakAt(u \o v, c, k)
  <2>1. i \in 1..Len(u)
    BY <1>1, <1>2, <1>4
  <2>2. Len(u) + j > i /\ Len(u) + j \in 1..Len(u \o v) /\ BreakAt(u \o v, c, Len(u) + j)
    BY <1>1, <1>2, <1>3, <2>1
  <2> QED
    BY <2>2
<1> QED
  BY <1>4 DEF Traced

-----------------------------------------------------------------------------
(* The rows of one to three bytes that a code can be.                       *)
LEMMA Rows ==
    ASSUME NEW b \in Bytes, b \notin Prefixes, NEW c, c \notin Prefixes
    PROVE  /\ Makes(<<b>>, c) <=> b = c
           /\ ~Makes(<<"E0", b>>, c) /\ ~Makes(<<"F0", b>>, c) /\ ~Makes(<<"E0", "F0", b>>, c)
           /\ Breaks(<<"F0", b>>, c) <=> b = c
           /\ ~Breaks(<<b>>, c) /\ ~Breaks(<<"E0", b>>, c) /\ ~Breaks(<<"E0", "F0", b>>, c)
<1> USE DEF Makes, Breaks, MakeAt, BreakAt, Prefixes
<1>1. (Makes(<<b>>, c) <=> b = c) /\ ~Breaks(<<b>>, c)
  OBVIOUS
<1>2. ~Makes(<<"E0", b>>, c) /\ ~Breaks(<<"E0", b>>, c)
  OBVIOUS
<1>3. ~Makes(<<"F0", b>>, c) /\ (Breaks(<<"F0", b>>, c) <=> b = c)
  OBVIOUS
<1>4. ~Makes(<<"E0", "F0", b>>, c) /\ ~Breaks(<<"E0", "F0", b>>, c)
  OBVIOUS
<1> QED
  BY <1>1, <1>2, <1>3, <1>4

LEMMA RowsAreWhole ==
    ASSUME NEW b \in KeyBytes
    PROVE  Whole(<<b>>) /\ Whole(<<"E0", b>>) /\ Whole(<<"F0", b>>) /\ Whole(<<"E0", "F0", b>>)
<1>0. b \notin Prefixes
  BY KeyBytesAreCodes DEF Prefixes
<1> USE <1>0 DEF Whole, Prefixes
<1>1. Whole(<<b>>)
  OBVIOUS
<1>2. Whole(<<"E0", b>>)
  OBVIOUS
<1>3. Whole(<<"F0", b>>)
  OBVIOUS
<1>4. Whole(<<"E0", "F0", b>>)
  OBVIOUS
<1> QED
  BY <1>1, <1>2, <1>3, <1>4

(* What the codes of a key k tell of c.                                     *)
LEMMA CodesTell ==
    ASSUME NEW k \in Keys, NEW c, c \notin Prefixes
    PROVE  /\ Whole(MakeCode(k)) /\ Whole(BreakCode(k))
           /\ Makes(MakeCode(k), c) <=> k = Plain(c)
           /\ Breaks(BreakCode(k), c) <=> k = Plain(c)
           /\ ~Breaks(MakeCode(k), c) /\ ~Makes(BreakCode(k), c)
<1>1. k \in [ext : BOOLEAN, byte : STRING \ {"E0", "F0", "FA", "FE", "AA"}]
  BY ConstantsAssumption
<1>2. k.byte \in KeyBytes /\ k.byte \in Bytes /\ k.byte \notin Prefixes
  BY KeyBytesAreCodes DEF Prefixes, CodeBytes
<1>3. k = Plain(c) <=> ~k.ext /\ k.byte = c
  BY <1>1 DEF Plain
<1>4. CASE k.ext
  BY <1>2, <1>3, <1>4, Rows, RowsAreWhole DEF MakeCode, BreakCode
<1>5. CASE ~k.ext
  BY <1>2, <1>3, <1>5, Rows, RowsAreWhole DEF MakeCode, BreakCode
<1> QED
  BY <1>4, <1>5

-----------------------------------------------------------------------------
(* The report shows what the tables say of the key c.                       *)
TableKeys == DOMAIN ButtonOf \cup DOMAIN DirectionOf \cup DOMAIN AxisOf

Pressed(c) == c \in DOMAIN ButtonOf /\ ButtonOf[c] \in buttons

Shows(c) ==
    \/ Pressed(c)
    \/ c \in DOMAIN DirectionOf /\ dir = DirectionOf[c]
    \/ c \in DOMAIN AxisOf /\ axes[AxisOf[c]] = DeflectionOf[c]

LEMMA TableKeysApart ==
    /\ \A c \in TableKeys : c \notin Prefixes /\ c \notin Answers /\ c # "ScrollLock"
    /\ \A k, l \in DOMAIN ButtonOf : ButtonOf[k] = ButtonOf[l] => k = l
    /\ \A k, l \in DOMAIN DirectionOf : DirectionOf[k] = DirectionOf[l] => k = l
    /\ \A k \in DOMAIN DirectionOf : DirectionOf[k] # "NO_BUTTON"
    /\ \A k, l \in DOMAIN AxisOf :
           AxisOf[k] = AxisOf[l] /\ DeflectionOf[k] = DeflectionOf[l] => k = l
<1>1. \A c \in TableKeys : c \notin Prefixes /\ c \notin Answers /\ c # "ScrollLock"
  BY DEF TableKeys, Prefixes, Answers, ButtonOf, DirectionOf, AxisOf
<1>2. \A k, l \in DOMAIN ButtonOf : ButtonOf[k] = ButtonOf[l] => k = l
  BY DEF ButtonOf
<1>3. /\ \A k, l \in DOMAIN DirectionOf : DirectionOf[k] = DirectionOf[l] => k = l
      /\ \A k \in DOMAIN DirectionOf : DirectionOf[k] # "NO_BUTTON"
  BY DEF DirectionOf
<1>4. \A k, l \in DOMAIN AxisOf :
          AxisOf[k] = AxisOf[l] /\ DeflectionOf[k] = DeflectionOf[l] => k = l
  BY DEF AxisOf, DeflectionOf
<1> QED
  BY <1>1, <1>2, <1>3, <1>4

LEMMA PressShows ==
    ASSUME ReportOK, NEW b, KeyPress(b), NEW c
    PROVE  /\ Shows(c)' => Shows(c) \/ c = b
           /\ Pressed(c) => Pressed(c)'
           /\ b = c /\ c \in DOMAIN ButtonOf => Pressed(c)'
<1>1. Pressed(c)' => Pressed(c) \/ c = b
  BY TableKeysApart DEF KeyPress, Pressed
<1>2. c \in DOMAIN DirectionOf /\ dir' = DirectionOf[c] => dir = DirectionOf[c] \/ c = b
  BY TableKeysApart DEF KeyPress
<1>3. ASSUME c \in DOMAIN AxisOf, axes'[AxisOf[c]] = DeflectionOf[c]
      PROVE  axes[AxisOf[c]] = DeflectionOf[c] \/ c = b
  <2>1. axes \in [{"x", "y"} -> {0, 128, 255}] /\ AxisOf[c] \in {"x", "y"}
    BY <1>3, Tables DEF ReportOK
  <2>2. CASE b \in DOMAIN AxisOf
    <3>1. axes' = [axes EXCEPT ![AxisOf[b]] = DeflectionOf[b]]
      BY <2>2 DEF KeyPress
    <3>2. AxisOf[b] = AxisOf[c] => axes'[AxisOf[c]] = DeflectionOf[b]
      BY <2>1, <3>1
    <3>3. AxisOf[b] # AxisOf[c] => axes'[AxisOf[c]] = axes[AxisOf[c]]
      BY <2>1, <3>1
    <3> QED
      BY <1>3, <2>2, <3>2, <3>3, TableKeysApart
  <2>3. CASE b \notin DOMAIN AxisOf
    BY <1>3, <2>3 DEF KeyPress
  <2> QED
    BY <2>2, <2>3
<1>4. Shows(c)' => Shows(c) \/ c = b
  BY <1>1, <1>2, <1>3 DEF Shows
<1>5. Pressed(c) => Pressed(c)'
  BY DEF KeyPress, Pressed
<1>6. b = c /\ c \in DOMAIN ButtonOf => Pressed(c)'
  BY DEF KeyPress, Pressed
<1> QED
  BY <1>4, <1>5, <1>6

LEMMA ReleaseShows ==
    ASSUME ReportOK, NEW b, KeyRelease(b), NEW c
    PROVE  /\ Shows(c)' => Shows(c) /\ c # b
           /\ Pressed(c) /\ c # b => Pressed(c)'
<1>1. Pressed(c)' => Pressed(c) /\ c # b
  BY TableKeysApart DEF KeyRelease, Pressed
<1>2. c \in DOMAIN DirectionOf /\ dir' = DirectionOf[c] => dir = DirectionOf[c] /\ c # b
  BY TableKeysApart DEF KeyRelease
<1>3. ASSUME c \in DOMAIN AxisOf, axes'[AxisOf[c]] = DeflectionOf[c]
      PROVE  axes[AxisOf[c]] = DeflectionOf[c] /\ c # b
  <2>1. /\ axes \in [{"x", "y"} -> {0, 128, 255}] /\ AxisOf[c] \in {"x", "y"}
        /\ DeflectionOf[c] # 128
    BY <1>3, Tables DEF ReportOK
  <2>2. CASE b \in DOMAIN AxisOf
    <3>1. axes' = [axes EXCEPT ![AxisOf[b]] = 128]
      BY <2>2 DEF KeyRelease
    <3>2. AxisOf[b] = AxisOf[c] => axes'[AxisOf[c]] = 128
      BY <2>1, <3>1
    <3>3. AxisOf[b] # AxisOf[c] => axes'[AxisOf[c]] = axes[AxisOf[c]]
      BY <2>1, <3>1
    <3> QED
      BY <1>3, <2>1, <3>2, <3>3
  <2>3. CASE b \notin DOMAIN AxisOf
    BY <1>3, <2>3 DEF KeyRelease
  <2> QED
    BY <2>2, <2>3
<1>4. Shows(c)' => Shows(c) /\ c # b
  BY <1>1, <1>2, <1>3 DEF Shows
<1>5. Pressed(c) /\ c # b => Pressed(c)'
  BY TableKeysApart DEF KeyRelease, Pressed
<1> QED
  BY <1>4, <1>5

(* A report that shows nothing is neutral.                                  *)
LEMMA NothingShown ==
    ASSUME ReportOK, \A c \in TableKeys : ~Shows(c)
    PROVE  buttons = {} /\ dir = "NO_BUTTON" /\ axes = Centre
<1>1. buttons = {}
  BY DEF ReportOK, TableKeys, Shows, Pressed
<1>2. dir = "NO_BUTTON"
  BY DEF ReportOK, TableKeys, Shows
<1>3. axes["x"] = 128 /\ axes["y"] = 128
  <2>1. \A c \in DOMAIN AxisOf : axes[AxisOf[c]] # DeflectionOf[c]
    BY DEF TableKeys, Shows
  <2>2. /\ "A" \in DOMAIN AxisOf /\ AxisOf["A"] = "x" /\ DeflectionOf["A"] = 0
        /\ "D" \in DOMAIN AxisOf /\ AxisOf["D"] = "x" /\ DeflectionOf["D"] = 255
        /\ "W" \in DOMAIN AxisOf /\ AxisOf["W"] = "y" /\ DeflectionOf["W"] = 0
        /\ "S" \in DOMAIN AxisOf /\ AxisOf["S"] = "y" /\ DeflectionOf["S"] = 255
    BY DEF AxisOf, DeflectionOf
  <2>3. axes["x"] \in {0, 128, 255} /\ axes["y"] \in {0, 128, 255}
    BY DEF ReportOK
  <2>4. axes["x"] # 0 /\ axes["x"] # 255 /\ axes["y"] # 0 /\ axes["y"] # 255
    BY <2>1, <2>2
  <2> QED
    BY <2>3, <2>4
<1>4. axes = Centre
  BY <1>3 DEF ReportOK, Centre
<1> QED
  BY <1>1, <1>2, <1>4

-----------------------------------------------------------------------------
(* What is under way: the prefixes seen, the ring, and what the keyboard    *)
(* has to say.                                                             *)
Seen ==
    IF e0_f0 = {} THEN <<>>
    ELSE IF e0_f0 = {"E0"} THEN <<"E0">>
    ELSE IF e0_f0 = {"F0"} THEN <<"F0">>
    ELSE <<"E0", "F0">>

Front == Seen \o ring
Rear == answers \o codes
Line == Front \o Rear

LEMMA Regrouped ==
    \A s, t, u \in Seq(Bytes) : (s \o t) \o u = s \o (t \o u)
BY ConcatAssociative

LEMMA HeadFirst ==
    ASSUME NEW s \in Seq(Bytes), s # <<>>
    PROVE  s = <<Head(s)>> \o Tail(s)
<1>1. /\ Head(s) \in Bytes /\ Tail(s) \in Seq(Bytes) /\ Len(Tail(s)) = Len(s) - 1
      /\ \A i \in 1..Len(Tail(s)) : Tail(s)[i] = s[i + 1]
      /\ Len(s) \in Nat /\ Head(s) = s[1]
  BY HeadTailProperties, LenProperties
<1> DEFINE h == <<Head(s)>>
           t == h \o Tail(s)
<1>2. h \in Seq(Bytes) /\ Len(h) = 1 /\ h[1] = Head(s)
  BY <1>1
<1> HIDE DEF h
<1>3. /\ t \in Seq(Bytes) /\ Len(t) = Len(h) + Len(Tail(s))
      /\ \A i \in 1..Len(h) : t[i] = h[i]
      /\ \A i \in 1..Len(Tail(s)) : t[Len(h) + i] = Tail(s)[i]
  BY <1>1, <1>2, Joined
<1> HIDE DEF t
<1>4. ASSUME NEW i \in 1..Len(s) PROVE t[i] = s[i]
  <2>1. CASE i = 1
    BY <1>1, <1>2, <1>3, <2>1
  <2>2. CASE i > 1
    <3>1. i - 1 \in 1..Len(Tail(s)) /\ (i - 1) + 1 = i /\ Len(h) + (i - 1) = i
      BY <1>1, <1>2, <2>2
    <3> QED
      BY <1>1, <1>3, <3>1
  <2> QED
    BY <2>1, <2>2
<1>5. Len(t) = Len(s)
  BY <1>1, <1>2, <1>3
<1>6. s = t
  BY <1>3, <1>4, <1>5, SeqEqual
<1> QED
  BY <1>6 DEF h, t

(* A byte after the prefixes seen.                                          *)
LEMMA PrefixThen ==
    ASSUME NEW b \in Bytes
    PROVE  /\ <<"E0">> \o <<b>> = <<"E0", b>>
           /\ <<"F0">> \o <<b>> = <<"F0", b>>
           /\ <<"E0", "F0">> \o <<b>> = <<"E0", "F0", b>>
<1>0. "E0" \in Bytes /\ "F0" \in Bytes
  BY DEF Bytes
<1>1. ASSUME NEW a \in Bytes, NEW c \in Bytes PROVE <<a>> \o <<c>> = <<a, c>>
  <2>1. /\ <<a, c>> \in Seq(Bytes) /\ <<a, c>> # <<>>
        /\ Head(<<a, c>>) = a /\ Tail(<<a, c>>) = <<c>>
    OBVIOUS
  <2> QED
    BY <2>1, HeadFirst
<1>2. <<"E0", "F0", b>> = <<"E0">> \o <<"F0", b>>
  <2>1. /\ <<"E0", "F0", b>> \in Seq(Bytes) /\ <<"E0", "F0", b>> # <<>>
        /\ Head(<<"E0", "F0", b>>) = "E0" /\ Tail(<<"E0", "F0", b>>) = <<"F0", b>>
    BY <1>0
  <2> QED
    BY <2>1, HeadFirst
<1>3. (<<"E0">> \o <<"F0">>) \o <<b>> = <<"E0">> \o (<<"F0">> \o <<b>>)
  <2>1. <<"E0">> \in Seq(Bytes) /\ <<"F0">> \in Seq(Bytes) /\ <<b>> \in Seq(Bytes)
    BY <1>0
  <2> QED
    BY <2>1, Regrouped, Zenon
<1>4. <<"E0">> \o <<b>> = <<"E0", b>> /\ <<"F0">> \o <<b>> = <<"F0", b>>
      /\ <<"E0">> \o <<"F0">> = <<"E0", "F0">>
  BY <1>0, <1>1
<1> QED
  BY <1>2, <1>3, <1>4, Zenon

LEMMA LineTypes ==
    ASSUME Shape
    PROVE  /\ Seen \in Seq(Bytes) /\ ring \in Seq(Bytes) /\ Front \in Seq(Bytes)
           /\ answers \in Seq(Bytes) /\ codes \in Seq(Bytes) /\ Rear \in Seq(Bytes)
           /\ Line \in Seq(Bytes)
<1>1. Answers \subseteq Bytes /\ CodeBytes \subseteq Bytes /\ "E0" \in Bytes /\ "F0" \in Bytes
  BY KeyBytesAreCodes DEF CodeBytes
<1>2. answers \in Seq(Bytes) /\ codes \in Seq(Bytes) /\ ring \in Seq(Bytes)
  BY <1>1, SeqMonotonic DEF Shape, TalkOK, RingOK
<1>3. Seen \in Seq(Bytes)
  BY <1>1 DEF Seen
<1>4. Front \in Seq(Bytes) /\ Rear \in Seq(Bytes)
  BY <1>2, <1>3, ConcatProperties DEF Front, Rear
<1> QED
  BY <1>2, <1>3, <1>4, ConcatProperties DEF Line

(* A byte that reaches the ring moves within the line.                      *)
LEMMA DeliverKeepsLine ==
    ASSUME Shape, Deliver, ~disturbed'
    PROVE  Line' = Line /\ ~disturbed
<1> DEFINE b == IF answers # <<>> THEN Head(answers) ELSE Head(codes)
<1>1. RING_AddElement(b) /\ b \in Bytes
  BY Delivered, KeyBytesAreCodes
<1>2. ring' = Append(ring, b) /\ ~disturbed
  BY <1>1, AddedOrLost DEF Shape
<1>3. Seen' = Seen
  BY DEF Deliver, Seen
<1>4. Shape'
  BY DeliverKeepsShape
<1>5. /\ Seen \in Seq(Bytes) /\ ring \in Seq(Bytes) /\ Front \in Seq(Bytes)
      /\ answers \in Seq(Bytes) /\ codes \in Seq(Bytes) /\ Rear \in Seq(Bytes)
  BY LineTypes
<1>6. answers' \in Seq(Bytes) /\ codes' \in Seq(Bytes) /\ Rear' \in Seq(Bytes)
  <2>1. Shape => answers \in Seq(Bytes) /\ codes \in Seq(Bytes) /\ Rear \in Seq(Bytes)
    BY LineTypes
  <2>2. (Shape => answers \in Seq(Bytes) /\ codes \in Seq(Bytes) /\ Rear \in Seq(Bytes))'
    BY LineTypes, PTL
  <2> QED
    BY <1>4, <2>2
<1>7. <<b>> \in Seq(Bytes)
  BY <1>1
<1> DEFINE one == <<b>>
<1>8. Rear = <<b>> \o Rear'
  <2>1. CASE answers # <<>>
    <3>1. b = Head(answers) /\ answers' = Tail(answers) /\ codes' = codes
      BY <2>1, Delivered
    <3> HIDE DEF b
    <3>2. answers = <<b>> \o answers'
      BY <1>5, <2>1, <3>1, HeadFirst
    <3>3. (<<b>> \o answers') \o codes = <<b>> \o (answers' \o codes)
      <4>1. answers' \in Seq(Bytes) /\ codes \in Seq(Bytes)
        BY <1>5, <1>6
      <4> QED
        BY <1>7, <4>1, Regrouped, Zenon
    <3> QED
      BY <3>1, <3>2, <3>3 DEF Rear
  <2>2. CASE answers = <<>>
    <3>1. b = Head(codes) /\ answers' = <<>> /\ codes # <<>> /\ codes' = Tail(codes)
      BY <2>2, Delivered
    <3> HIDE DEF b
    <3>2. codes = <<b>> \o codes'
      BY <1>5, <3>1, HeadFirst
    <3>3. Rear = codes /\ Rear' = codes'
      BY <1>5, <1>6, <2>2, <3>1, ConcatEmptySeq DEF Rear
    <3> QED
      BY <3>2, <3>3
  <2> QED
    BY <2>1, <2>2
<1> HIDE DEF b, one
<1>9. Rear = one \o Rear'
  BY <1>8 DEF one
<1>10. one \in Seq(Bytes)
  BY <1>7 DEF one
<1>11. Front' = Front \o one
  <2>1. ring' = ring \o one
    BY <1>1, <1>2, <1>5, AppendIsConcat DEF one
  <2>2. (Seen \o ring) \o one = Seen \o (ring \o one)
    <3>1. Seen \in Seq(Bytes) /\ ring \in Seq(Bytes)
      BY <1>5
    <3> QED
      BY <1>10, <3>1, Regrouped, Zenon
  <2> QED
    BY <1>3, <2>1, <2>2 DEF Front
<1>12. (Front \o one) \o Rear' = Front \o (one \o Rear')
  <2>1. Front \in Seq(Bytes) /\ Rear' \in Seq(Bytes)
    BY <1>5, <1>6
  <2> QED
    BY <1>10, <2>1, Regrouped, Zenon
<1> QED
  BY <1>2, <1>11, <1>12, <1>9 DEF Line

LEMMA UserAddsToLine ==
    ASSUME Shape, NEW k \in Keys, User(k), NEW v \in Seq(CodeBytes), codes' = codes \o v
    PROVE  Line' = Line \o v /\ v \in Seq(Bytes)
<1>1. CodeBytes \subseteq Bytes
  BY KeyBytesAreCodes
<1>2. v \in Seq(Bytes)
  BY <1>1, SeqMonotonic
<1>3. /\ Front \in Seq(Bytes) /\ answers \in Seq(Bytes) /\ codes \in Seq(Bytes)
      /\ Rear \in Seq(Bytes)
  BY LineTypes
<1>4. Front' = Front /\ answers' = answers
  BY DEF User, Front, Seen
<1>5. Rear' = Rear \o v
  BY <1>2, <1>3, <1>4, Regrouped DEF Rear
<1> QED
  BY <1>2, <1>3, <1>4, <1>5, Regrouped DEF Line

(* The first byte of the ring completes what was seen.                      *)
LEMMA LineParts ==
    ASSUME Shape, ring # <<>>
    PROVE  /\ Head(ring) \in Bytes /\ Tail(ring) \in Seq(Bytes)
           /\ Seen \o <<Head(ring)>> \in Seq(Bytes)
           /\ Tail(ring) \o Rear \in Seq(Bytes)
           /\ Line = (Seen \o <<Head(ring)>>) \o (Tail(ring) \o Rear)
           /\ Front = (Seen \o <<Head(ring)>>) \o Tail(ring)
<1>1. Seen \in Seq(Bytes) /\ ring \in Seq(Bytes) /\ Rear \in Seq(Bytes)
  BY LineTypes
<1>2. Head(ring) \in Bytes /\ Tail(ring) \in Seq(Bytes) /\ ring = <<Head(ring)>> \o Tail(ring)
  BY <1>1, HeadTailProperties, HeadFirst
<1>3. <<Head(ring)>> \in Seq(Bytes)
  BY <1>2
<1>4. Seen \o <<Head(ring)>> \in Seq(Bytes) /\ Tail(ring) \o Rear \in Seq(Bytes)
  BY <1>1, <1>2, <1>3, ConcatProperties
<1>5. Front = (Seen \o <<Head(ring)>>) \o Tail(ring)
  BY <1>1, <1>2, <1>3, Regrouped DEF Front
<1>6. Line = (Seen \o <<Head(ring)>>) \o (Tail(ring) \o Rear)
  BY <1>1, <1>2, <1>4, <1>5, Regrouped DEF Line
<1> QED
  BY <1>2, <1>4, <1>5, <1>6

(* What was seen tells what comes next.                                     *)
LEMMA Announced ==
    ASSUME Shape, ring # <<>>, Whole(Line)
    PROVE  /\ Head(ring) = "E0" => e0_f0 = {}
           /\ Head(ring) = "F0" => e0_f0 \in {{}, {"E0"}}
           /\ Head(ring) \notin Prefixes => e0_f0 = {} \/ Head(ring) \in KeyBytes
<1> DEFINE b == Head(ring)
           u == Seen \o <<b>>
           v == Tail(ring) \o Rear
<1>1. u \in Seq(Bytes) /\ v \in Seq(Bytes) /\ Line = u \o v
  BY LineParts
<1>b. b \in Bytes
  BY LineParts
<1>0. e0_f0 \in {{}, {"E0"}, {"F0"}, {"E0", "F0"}}
  BY DEF Shape, RingOK
<1> HIDE DEF v, b
<1>2. e0_f0 = {"E0"} => u = <<"E0", b>>
  BY <1>b, PrefixThen DEF Seen
<1>3. e0_f0 = {"F0"} => u = <<"F0", b>>
  BY <1>b, PrefixThen DEF Seen
<1>4. e0_f0 = {"E0", "F0"} => u = <<"E0", "F0", b>>
  BY <1>b, PrefixThen DEF Seen
<1> HIDE DEF u
<1>5. Len(u) \in Nat /\ Len(v) \in Nat /\ Len(Line) = Len(u) + Len(v)
      /\ \A i \in 1..Len(u) : Line[i] = u[i]
  BY <1>1, Joined
<1>6. ASSUME NEW i \in 1..Len(u), i + 1 \in 1..Len(u), u[i] \in Prefixes
      PROVE  u[i + 1] \in KeyBytes \/ (u[i] = "E0" /\ u[i + 1] = "F0")
  BY <1>5, <1>6 DEF Whole
<1>7. e0_f0 = {"E0"} => b \in KeyBytes \/ b = "F0"
  <2> SUFFICES ASSUME e0_f0 = {"E0"} PROVE b \in KeyBytes \/ b = "F0"
    OBVIOUS
  <2>1. Len(u) = 2 /\ u[1] = "E0" /\ u[2] = b
    BY <1>2
  <2>2. 1 \in 1..Len(u) /\ 1 + 1 \in 1..Len(u) /\ 1 + 1 = 2
    BY <2>1
  <2> QED
    BY <1>6, <2>1, <2>2 DEF Prefixes
<1>8. e0_f0 = {"F0"} => b \in KeyBytes
  <2> SUFFICES ASSUME e0_f0 = {"F0"} PROVE b \in KeyBytes
    OBVIOUS
  <2>1. Len(u) = 2 /\ u[1] = "F0" /\ u[2] = b
    BY <1>3
  <2>2. 1 \in 1..Len(u) /\ 1 + 1 \in 1..Len(u) /\ 1 + 1 = 2
    BY <2>1
  <2> QED
    BY <1>6, <2>1, <2>2 DEF Prefixes
<1>9. e0_f0 = {"E0", "F0"} => b \in KeyBytes
  <2> SUFFICES ASSUME e0_f0 = {"E0", "F0"} PROVE b \in KeyBytes
    OBVIOUS
  <2>1. Len(u) = 3 /\ u[2] = "F0" /\ u[3] = b
    BY <1>4
  <2>2. 2 \in 1..Len(u) /\ 2 + 1 \in 1..Len(u) /\ 2 + 1 = 3
    BY <2>1
  <2> QED
    BY <1>6, <2>1, <2>2 DEF Prefixes
<1>10. "E0" \notin KeyBytes /\ "F0" \notin KeyBytes
  BY KeyBytesAreCodes
<1> QED
  BY <1>0, <1>7, <1>8, <1>9, <1>10 DEF b, Prefixes

LEMMA PrefixKeepsFront ==
    ASSUME Shape, Whole(Line), TakePrefix
    PROVE  Front' = Front
<1>1. ring # <<>> /\ ring' = Tail(ring) /\ Head(ring) \in {"E0", "F0"}
  BY DEF TakePrefix
<1>2. Seen' = Seen \o <<Head(ring)>>
  <2>1. CASE Head(ring) = "E0"
    <3>1. e0_f0 = {} /\ e0_f0' = {"E0"}
      BY <1>1, <2>1, Announced DEF TakePrefix
    <3>2. Seen = <<>> /\ Seen' = <<"E0">>
      BY <3>1 DEF Seen
    <3> QED
      BY <2>1, <3>2
  <2>2. CASE Head(ring) = "F0"
    <3>1. e0_f0 \in {{}, {"E0"}} /\ e0_f0' = e0_f0 \cup {"F0"}
      BY <1>1, <2>2, Announced DEF TakePrefix, BreakPrefix
    <3>2. CASE e0_f0 = {}
      <4>1. e0_f0' = {"F0"}
        BY <3>1, <3>2
      <4>2. Seen = <<>> /\ Seen' = <<"F0">>
        BY <3>2, <4>1 DEF Seen
      <4> QED
        BY <2>2, <4>2
    <3>3. CASE e0_f0 = {"E0"}
      <4>0. "F0" \in Bytes
        BY DEF Bytes
      <4>1. e0_f0' = {"E0", "F0"}
        BY <3>1, <3>3
      <4>2. Seen = <<"E0">> /\ Seen' = <<"E0", "F0">>
        BY <3>3, <4>1 DEF Seen
      <4> QED
        BY <2>2, <4>0, <4>2, PrefixThen
    <3> QED
      BY <3>1, <3>2, <3>3
  <2> QED
    BY <1>1, <2>1, <2>2
<1> QED
  BY <1>1, <1>2, LineParts DEF Front

(* The filter changes the rear of the line only by sending a command while  *)
(* no key code is under way.                                               *)
LEMMA FilterAtRear ==
    ASSUME Shape, NEW p, NEW b, EventFilter(p, b), ~disturbed'
    PROVE  /\ ~disturbed
           /\ Rear' = Rear \/ (Rear \in Seq(Answers) /\ Rear' \in Seq(Answers))
<1>1. TalkOK /\ TalkOK'
  BY FilterKeepsTypes DEF Shape
<1>2. (\E m : KB_Send(m)) \/ UNCHANGED wire
  BY DEF EventFilter, Dialogue, AskForLeds, SendLeds, SendAgain
<1>3. CASE \E m : KB_Send(m)
  <2>1. ~disturbed /\ codes = <<>> /\ codes' = <<>>
    BY <1>3 DEF KB_Send
  <2>2. answers \in Seq(Answers) /\ answers' \in Seq(Answers)
    BY <1>1 DEF TalkOK
  <2>3. Rear = answers /\ Rear' = answers'
    BY <2>1, <2>2, ConcatEmptySeq DEF Rear
  <2> QED
    BY <2>1, <2>2, <2>3
<1>4. CASE UNCHANGED wire
  BY <1>4 DEF wire, Rear
<1> QED
  BY <1>2, <1>3, <1>4

-----------------------------------------------------------------------------
(* The report and the keys that are down, given the bytes s under way: each *)
(* key the report shows is down or will be broken, and each key that is     *)
(* down and has a button is shown or will be made.                         *)
Told(s, h) ==
    /\ Whole(s)
    /\ \A c \in TableKeys :
           /\ Traced(s, h, c)
           /\ Shows(c) => Plain(c) \in h \/ Breaks(s, c)
           /\ c \in DOMAIN ButtonOf /\ Plain(c) \in h => Pressed(c) \/ Makes(s, c)

Followed == ~disturbed => Told(Line, held)

(* Other answers at the end change nothing.                                 *)
LEMMA OtherAnswers ==
    ASSUME NEW u \in Seq(Bytes), NEW v \in Seq(Answers), NEW w \in Seq(Answers), Whole(u \o v)
    PROVE  /\ Whole(u \o w)
           /\ \A c, h : c \notin Answers =>
                  /\ Makes(u \o w, c) <=> Makes(u \o v, c)
                  /\ Breaks(u \o w, c) <=> Breaks(u \o v, c)
                  /\ Traced(u \o v, h, c) => Traced(u \o w, h, c)
<1>1. Whole(u)
  BY WholeBegin
<1>2. v \in Seq(Bytes) /\ Whole(v) /\ w \in Seq(Bytes) /\ Whole(w)
  BY AnswersAreWhole
<1>3. Whole(u \o w)
  BY <1>1, <1>2, WholeFromParts
<1>4. ASSUME NEW c, NEW h, c \notin Answers
      PROVE  /\ Makes(u \o w, c) <=> Makes(u \o v, c)
             /\ Breaks(u \o w, c) <=> Breaks(u \o v, c)
             /\ Traced(u \o v, h, c) => Traced(u \o w, h, c)
  <2>1. ~Makes(v, c) /\ ~Breaks(v, c) /\ ~Makes(w, c) /\ ~Breaks(w, c)
    BY <1>4, AnswersAreNoCodes
  <2>2. /\ Makes(u \o w, c) <=> Makes(u \o v, c)
        /\ Breaks(u \o w, c) <=> Breaks(u \o v, c)
    BY <1>1, <1>2, <2>1, CodesOfParts
  <2>3. Traced(u \o v, h, c) => Traced(u, h, c)
    BY <1>1, <1>2, <2>1, TracedMore
  <2>4. Traced(u, h, c) => Traced(u \o w, h, c)
    BY <1>1, <1>2, <2>1, TracedMore
  <2> QED
    BY <2>2, <2>3, <2>4
<1> QED
  BY <1>3, <1>4

LEMMA ToldAnswers ==
    ASSUME NEW u \in Seq(Bytes), NEW v \in Seq(Answers), NEW w \in Seq(Answers), NEW h
    PROVE  Told(u \o v, h)' => Told(u \o w, h)'
BY OtherAnswers, TableKeysApart DEF Told

LEMMA ToldUnchanged ==
    ASSUME NEW s, NEW h, Told(s, h), UNCHANGED report
    PROVE  Told(s, h)'
<1>1. \A c : (Shows(c)' <=> Shows(c)) /\ (Pressed(c)' <=> Pressed(c))
  BY DEF report, Shows, Pressed
<1> QED
  BY <1>1 DEF Told

(* The user adds a code.                                                    *)
LEMMA UserFollowed ==
    ASSUME Shape, Followed, NEW k \in Keys, User(k)
    PROVE  Followed'
<1> SUFFICES ASSUME ~disturbed PROVE Told(Line, held)'
  BY DEF User, Followed
<1>1. Whole(Line) /\ Line \in Seq(Bytes)
  BY LineTypes DEF Followed, Told
<1>2. MakeCode(k) \in Seq(CodeBytes) /\ BreakCode(k) \in Seq(CodeBytes)
  BY CodesOfKeys
<1>3. \A c : (Shows(c)' <=> Shows(c)) /\ (Pressed(c)' <=> Pressed(c))
  BY DEF User, report, Shows, Pressed
<1>4. CASE held' = held \cup {k} /\ codes' = codes \o MakeCode(k)
  <2>1. Line' = Line \o MakeCode(k) /\ MakeCode(k) \in Seq(Bytes)
    BY <1>2, <1>4, UserAddsToLine
  <2>2. Whole(MakeCode(k))
    <3>1. "none" \notin Prefixes
      BY DEF Prefixes
    <3> QED
      BY <3>1, CodesTell
  <2>3. Whole(Line \o MakeCode(k))
    BY <1>1, <2>1, <2>2, WholeFromParts
  <2>4. ASSUME NEW c \in TableKeys
        PROVE  /\ Traced(Line', held', c)
               /\ Shows(c)' => Plain(c) \in held' \/ Breaks(Line', c)
               /\ c \in DOMAIN ButtonOf /\ Plain(c) \in held' => Pressed(c)' \/ Makes(Line', c)
    <3>1. c \notin Prefixes
      BY TableKeysApart
    <3>2. (Makes(MakeCode(k), c) <=> k = Plain(c)) /\ ~Breaks(MakeCode(k), c)
      BY <3>1, CodesTell
    <3>3. /\ Makes(Line', c) <=> Makes(Line, c) \/ k = Plain(c)
          /\ Breaks(Line', c) <=> Breaks(Line, c)
      BY <1>1, <2>1, <3>2, CodesOfParts
    <3>4. /\ Traced(Line, held, c)
          /\ Shows(c) => Plain(c) \in held \/ Breaks(Line, c)
          /\ c \in DOMAIN ButtonOf /\ Plain(c) \in held => Pressed(c) \/ Makes(Line, c)
      BY DEF Followed, Told
    <3>5. Traced(Line', held', c)
      <4>1. CASE k = Plain(c)
        BY <1>1, <1>4, <2>1, <3>2, <4>1, TracedPress
      <4>2. CASE k # Plain(c)
        <5>1. Plain(c) \in held' <=> Plain(c) \in held
          BY <1>4, <4>2
        <5> QED
          BY <1>1, <2>1, <3>2, <3>4, <4>2, <5>1, TracedMore
      <4> QED
        BY <4>1, <4>2
    <3>6. Plain(c) \in held' <=> Plain(c) \in held \/ k = Plain(c)
      BY <1>4
    <3> QED
      BY <1>3, <3>3, <3>4, <3>5, <3>6
  <2> QED
    BY <2>1, <2>3, <2>4 DEF Told
<1>5. CASE k \in held /\ held' = held \ {k} /\ codes' = codes \o BreakCode(k)
  <2>1. Line' = Line \o BreakCode(k) /\ BreakCode(k) \in Seq(Bytes)
    BY <1>2, <1>5, UserAddsToLine
  <2>2. Whole(BreakCode(k))
    <3>1. "none" \notin Prefixes
      BY DEF Prefixes
    <3> QED
      BY <3>1, CodesTell
  <2>3. Whole(Line \o BreakCode(k))
    BY <1>1, <2>1, <2>2, WholeFromParts
  <2>4. ASSUME NEW c \in TableKeys
        PROVE  /\ Traced(Line', held', c)
               /\ Shows(c)' => Plain(c) \in held' \/ Breaks(Line', c)
               /\ c \in DOMAIN ButtonOf /\ Plain(c) \in held' => Pressed(c)' \/ Makes(Line', c)
    <3>1. c \notin Prefixes
      BY TableKeysApart
    <3>2. (Breaks(BreakCode(k), c) <=> k = Plain(c)) /\ ~Makes(BreakCode(k), c)
      BY <3>1, CodesTell
    <3>3. /\ Makes(Line', c) <=> Makes(Line, c)
          /\ Breaks(Line', c) <=> Breaks(Line, c) \/ k = Plain(c)
      BY <1>1, <2>1, <3>2, CodesOfParts
    <3>4. /\ Traced(Line, held, c)
          /\ Shows(c) => Plain(c) \in held \/ Breaks(Line, c)
          /\ c \in DOMAIN ButtonOf /\ Plain(c) \in held => Pressed(c) \/ Makes(Line, c)
      BY DEF Followed, Told
    <3>5. Traced(Line', held', c)
      <4>1. CASE k = Plain(c)
        BY <1>1, <1>5, <2>1, <3>2, <4>1, TracedRelease
      <4>2. CASE k # Plain(c)
        <5>1. Plain(c) \in held' <=> Plain(c) \in held
          BY <1>5, <4>2
        <5> QED
          BY <1>1, <2>1, <3>2, <3>4, <4>2, <5>1, TracedMore
      <4> QED
        BY <4>1, <4>2
    <3>6. Plain(c) \in held' <=> Plain(c) \in held /\ k # Plain(c)
      BY <1>5
    <3> QED
      BY <1>3, <3>3, <3>4, <3>5, <3>6
  <2> QED
    BY <2>1, <2>3, <2>4 DEF Told
<1> QED
  BY <1>4, <1>5 DEF User

(* A code is handled: what is left of the line tells the rest.              *)
LEMMA CodeTold ==
    ASSUME Shape, ring # <<>>, Head(ring) \notin Prefixes, Told(Line, held),
           \/ e0_f0 = {} /\ KeyPress(Head(ring))
           \/ e0_f0 = {"F0"} /\ KeyRelease(Head(ring))
           \/ "E0" \in e0_f0 /\ UNCHANGED report,
           NEW v, v = Tail(ring) \o Rear, NEW h, h = held
    PROVE  Told(v, h)'
<1> DEFINE b == Head(ring)
           u == Seen \o <<b>>
<1>1. u \in Seq(Bytes) /\ v \in Seq(Bytes) /\ Line = u \o v /\ b \in Bytes
  BY LineParts
<1>2. Whole(Line)
  BY DEF Told
<1>e. e0_f0 \in {{}, {"E0"}, {"F0"}, {"E0", "F0"}}
  BY DEF Shape, RingOK
<1>r. ReportOK
  BY DEF Shape
<1> HIDE DEF b
<1>3. \/ e0_f0 = {} /\ u = <<b>> /\ KeyPress(b)
      \/ e0_f0 = {"F0"} /\ u = <<"F0", b>> /\ KeyRelease(b)
      \/ e0_f0 = {"E0"} /\ u = <<"E0", b>> /\ UNCHANGED report
      \/ e0_f0 = {"E0", "F0"} /\ u = <<"E0", "F0", b>> /\ UNCHANGED report
  <2>1. e0_f0 = {} => u = <<b>>
    <3>1. <<b>> \in Seq(Bytes)
      BY <1>1
    <3> QED
      BY <3>1, ConcatEmptySeq DEF Seen
  <2>2. e0_f0 = {"F0"} => u = <<"F0", b>>
    BY <1>1, PrefixThen DEF Seen
  <2>3. e0_f0 = {"E0"} => u = <<"E0", b>>
    BY <1>1, PrefixThen DEF Seen
  <2>4. e0_f0 = {"E0", "F0"} => u = <<"E0", "F0", b>>
    BY <1>1, PrefixThen DEF Seen
  <2>5. \/ e0_f0 = {} /\ KeyPress(b)
        \/ e0_f0 = {"F0"} /\ KeyRelease(b)
        \/ "E0" \in e0_f0 /\ UNCHANGED report
    BY DEF b
  <2> QED
    BY <1>e, <2>1, <2>2, <2>3, <2>4, <2>5
<1>4. b \notin Prefixes
  BY DEF b
<1>5. Whole(u)
  <2>1. e0_f0 = {} \/ b \in KeyBytes
    BY <1>2, <1>4, Announced DEF b
  <2>2. Whole(<<b>>)
    BY <1>4 DEF Whole
  <2> HIDE DEF u
  <2> QED
    BY <1>3, <2>1, <2>2, RowsAreWhole
<1> HIDE DEF u
<1>6. Whole(v)
  BY <1>1, <1>2, WholeEnd
<1>7. ASSUME NEW c \in TableKeys
      PROVE  /\ Traced(v, h, c)
             /\ Shows(c)' => Plain(c) \in h \/ Breaks(v, c)
             /\ c \in DOMAIN ButtonOf /\ Plain(c) \in h => Pressed(c)' \/ Makes(v, c)
  <2>1. c \notin Prefixes
    BY TableKeysApart
  <2>2. /\ Traced(Line, h, c)
        /\ Shows(c) => Plain(c) \in h \/ Breaks(Line, c)
        /\ c \in DOMAIN ButtonOf /\ Plain(c) \in h => Pressed(c) \/ Makes(Line, c)
    BY DEF Told
  <2>3. /\ Traced(v, h, c)
        /\ Makes(u, c) => Plain(c) \in h \/ Breaks(u, c) \/ Breaks(v, c)
        /\ Breaks(u, c) => Plain(c) \notin h \/ Makes(u, c) \/ Makes(v, c)
    BY <1>1, <1>5, <2>2, TracedEnd
  <2>4. /\ Makes(Line, c) <=> Makes(u, c) \/ Makes(v, c)
        /\ Breaks(Line, c) <=> Breaks(u, c) \/ Breaks(v, c)
    BY <1>1, <1>5, CodesOfParts
  <2>5. CASE u = <<b>> /\ KeyPress(b)
    <3>1. (Makes(u, c) <=> b = c) /\ ~Breaks(u, c)
      BY <1>1, <1>4, <2>1, <2>5, Rows
    <3>2. /\ Shows(c)' => Shows(c) \/ c = b
          /\ Pressed(c) => Pressed(c)'
          /\ b = c /\ c \in DOMAIN ButtonOf => Pressed(c)'
      BY <1>r, <2>5, PressShows
    <3> QED
      BY <2>2, <2>3, <2>4, <3>1, <3>2
  <2>6. CASE u = <<"F0", b>> /\ KeyRelease(b)
    <3>1. ~Makes(u, c) /\ (Breaks(u, c) <=> b = c)
      BY <1>1, <1>4, <2>1, <2>6, Rows
    <3>2. /\ Shows(c)' => Shows(c) /\ c # b
          /\ Pressed(c) /\ c # b => Pressed(c)'
      BY <1>r, <2>6, ReleaseShows
    <3> QED
      BY <2>2, <2>3, <2>4, <3>1, <3>2
  <2>7. CASE (u = <<"E0", b>> \/ u = <<"E0", "F0", b>>) /\ UNCHANGED report
    <3>1. ~Makes(u, c) /\ ~Breaks(u, c)
      <4>1. /\ ~Makes(<<"E0", b>>, c) /\ ~Makes(<<"E0", "F0", b>>, c)
            /\ ~Breaks(<<"E0", b>>, c) /\ ~Breaks(<<"E0", "F0", b>>, c)
        BY <1>1, <1>4, <2>1, Rows
      <4> QED
        BY <2>7, <4>1
    <3>2. (Shows(c)' <=> Shows(c)) /\ (Pressed(c)' <=> Pressed(c))
      BY <2>7 DEF report, Shows, Pressed
    <3> QED
      BY <2>2, <2>3, <2>4, <3>1, <3>2
  <2> QED
    BY <1>3, <2>5, <2>6, <2>7
<1> QED
  BY <1>6, <1>7 DEF Told

(* The heartbeat changes the report in nothing.                             *)
LEMMA BeatKeepsReport ==
    ASSUME Beat
    PROVE  UNCHANGED report
<1>1. EventFilter({}, "ScrollLock")
  BY DEF Beat
<1>2. "ScrollLock" \notin TableKeys
  BY TableKeysApart
<1>3. KeyPress("ScrollLock")
  BY <1>1 DEF EventFilter
<1> QED
  BY <1>2, <1>3 DEF KeyPress, TableKeys, report

(* The front of the line as it is, the rear as the filter leaves it.        *)
LEMMA RearFollows ==
    ASSUME Shape, Shape', NEW p, NEW b, EventFilter(p, b), ~disturbed',
           NEW v, v = Front' \o Rear, NEW h, h = held', Told(v, h)'
    PROVE  Told(Line, held)'
<1>1. Rear' = Rear \/ (Rear \in Seq(Answers) /\ Rear' \in Seq(Answers))
  BY FilterAtRear
<1>2. PICK w : w = Line'
  OBVIOUS
<1>3. CASE Rear' = Rear
  <2>1. Line' = v
    BY <1>3 DEF Line
  <2> QED
    BY <2>1 DEF Told
<1>4. CASE Rear \in Seq(Answers) /\ Rear' \in Seq(Answers)
  <2>1. Front' \in Seq(Bytes)
    <3>1. (Shape => Front \in Seq(Bytes))'
      BY LineTypes, PTL
    <3> QED
      BY <3>1
  <2>2. PICK f : f = Front'
    OBVIOUS
  <2>3. PICK r : r = Rear
    OBVIOUS
  <2>4. PICK q : q = Rear'
    OBVIOUS
  <2>5. v = f \o r /\ w = f \o q
    BY <1>2, <2>2, <2>3, <2>4 DEF Line
  <2>6. f \in Seq(Bytes) /\ r \in Seq(Answers) /\ q \in Seq(Answers)
    BY <1>4, <2>1, <2>2, <2>3, <2>4
  <2>7. Told(f \o r, h)'
    BY <2>5 DEF Told
  <2>8. Told(f \o q, h)'
    BY <2>6, <2>7, ToldAnswers
  <2> QED
    BY <1>2, <2>5, <2>8 DEF Told
<1> QED
  BY <1>1, <1>3, <1>4

LEMMA TaskFollowed ==
    ASSUME Shape, Followed, KB_EventTask
    PROVE  Followed'
<1> SUFFICES ASSUME ~disturbed' PROVE Told(Line, held)'
  BY DEF Followed
<1>1. Shape' /\ held' = held
  BY TaskKeepsShape DEF KB_EventTask, Poll, Heartbeat
<1>2. PICK h : h = held
  OBVIOUS
<1>3. CASE TakePrefix /\ UNCHANGED <<led, wire, report>>
  <2>1. ~disturbed /\ Rear' = Rear /\ UNCHANGED report
    BY <1>3 DEF wire, Rear
  <2>2. Told(Line, held) /\ Whole(Line)
    BY <2>1 DEF Followed, Told
  <2>3. Line' = Line
    BY <1>3, <2>1, <2>2, PrefixKeepsFront DEF Line
  <2>4. PICK s : s = Line
    OBVIOUS
  <2>5. Told(s, h)
    BY <1>2, <2>2, <2>4
  <2>6. Told(s, h)'
    BY <2>1, <2>5, ToldUnchanged
  <2> QED
    BY <1>1, <1>2, <2>3, <2>4, <2>6 DEF Told
<1>4. CASE TakePrefix /\ Beat
  <2>1. EventFilter({}, "ScrollLock") /\ UNCHANGED report
    BY <1>4, BeatKeepsReport DEF Beat
  <2>2. Told(Line, held) /\ Whole(Line)
    BY <2>1, FilterAtRear DEF Followed, Told
  <2>3. Front' \o Rear = Line
    BY <1>4, <2>2, PrefixKeepsFront DEF Line
  <2>4. PICK v : v = Line
    OBVIOUS
  <2>5. Told(v, h)
    BY <1>2, <2>2, <2>4
  <2>6. Told(v, h)'
    BY <2>1, <2>5, ToldUnchanged
  <2> QED
    BY <1>1, <1>2, <2>1, <2>3, <2>4, <2>6, RearFollows
<1>5. CASE TakeCode
  <2>1. /\ ring # <<>> /\ ring' = Tail(ring) /\ e0_f0' = {} /\ Head(ring) \notin Prefixes
        /\ EventFilter(e0_f0, Head(ring))
    BY <1>5 DEF TakeCode, Prefixes
  <2>2. Told(Line, held)
    BY <2>1, FilterAtRear DEF Followed
  <2>3. PICK v : v = Tail(ring) \o Rear
    OBVIOUS
  <2>4. \/ e0_f0 = {} /\ KeyPress(Head(ring))
        \/ e0_f0 = {"F0"} /\ KeyRelease(Head(ring))
        \/ "E0" \in e0_f0 /\ UNCHANGED report
    BY <2>1 DEF EventFilter
  <2>5. Told(v, h)'
    BY <1>2, <2>1, <2>2, <2>3, <2>4, CodeTold
  <2>6. Front' = Tail(ring)
    <3>1. Tail(ring) \in Seq(Bytes)
      BY <2>1, LineParts
    <3> QED
      BY <2>1, <3>1, ConcatEmptySeq DEF Front, Seen
  <2> QED
    BY <1>1, <1>2, <2>1, <2>3, <2>5, <2>6, RearFollows
<1>6. CASE Heartbeat
  <2>1. EventFilter({}, "ScrollLock") /\ UNCHANGED report
    BY <1>6, BeatKeepsReport DEF Heartbeat, Beat
  <2>2. Told(Line, held)
    BY <2>1, FilterAtRear DEF Followed
  <2>3. Front' \o Rear = Line
    BY <1>6 DEF Heartbeat, Line, Front, Seen
  <2>4. PICK v : v = Line
    OBVIOUS
  <2>5. Told(v, h)
    BY <1>2, <2>2, <2>4
  <2>6. Told(v, h)'
    BY <2>1, <2>5, ToldUnchanged
  <2> QED
    BY <1>1, <1>2, <2>1, <2>3, <2>4, <2>6, RearFollows
<1> QED
  BY <1>3, <1>4, <1>5, <1>6 DEF KB_EventTask, Poll

LEMMA FollowedKept ==
    ASSUME Shape, Followed, [Next]_vars
    PROVE  Followed'
<1>1. CASE Deliver
  <2> SUFFICES ASSUME ~disturbed' PROVE Told(Line, held)'
    BY DEF Followed
  <2>1. Line' = Line /\ ~disturbed
    BY <1>1, DeliverKeepsLine
  <2>2. UNCHANGED report /\ held' = held
    BY <1>1 DEF Deliver
  <2>3. PICK s : s = Line
    OBVIOUS
  <2>4. PICK h : h = held
    OBVIOUS
  <2>5. Told(s, h)
    BY <2>1, <2>3, <2>4 DEF Followed
  <2>6. Told(s, h)'
    BY <2>2, <2>5, ToldUnchanged
  <2> QED
    BY <2>1, <2>2, <2>3, <2>4, <2>6 DEF Told
<1>2. ASSUME NEW k \in Keys, User(k) PROVE Followed'
  BY <1>2, UserFollowed
<1>3. CASE KB_EventTask
  BY <1>3, TaskFollowed
<1>4. CASE UNCHANGED vars
  BY <1>4 DEF vars, Followed, Told, Shows, Pressed, Line, Front, Rear, Seen
<1> QED
  BY <1>1, <1>2, <1>3, <1>4 DEF Next

LEMMA FollowedAtFirst == Init => Followed
<1> SUFFICES ASSUME Init PROVE Told(Line, held)
  BY DEF Followed
<1>1. Line \in Seq(Answers)
  <2>1. <<"AA">> \in Seq(Answers) /\ <<>> \in Seq(Answers)
    BY DEF Answers
  <2>2. Front = <<>> /\ Rear = <<"AA">>
    BY <2>1, ConcatEmptySeq DEF Init, Front, Rear, Seen
  <2> QED
    BY <2>1, <2>2, ConcatEmptySeq DEF Line
<1>2. Line \in Seq(Bytes) /\ Whole(Line)
  BY <1>1, AnswersAreWhole
<1>3. ASSUME NEW c \in TableKeys
      PROVE  Traced(Line, held, c) /\ ~Shows(c) /\ Plain(c) \notin held
  <2>1. ~Makes(Line, c) /\ ~Breaks(Line, c)
    BY <1>1, AnswersAreNoCodes, TableKeysApart
  <2>2. Traced(Line, held, c)
    BY <2>1 DEF Traced, Makes, Breaks
  <2>3. c \in DOMAIN AxisOf => axes[AxisOf[c]] # DeflectionOf[c]
    <3>1. c \in DOMAIN AxisOf => AxisOf[c] \in {"x", "y"} /\ DeflectionOf[c] # 128
      BY Tables
    <3>2. axes["x"] = 128 /\ axes["y"] = 128
      BY DEF Init, Centre
    <3> QED
      BY <3>1, <3>2
  <2>4. ~Shows(c)
    BY <2>3, TableKeysApart DEF Init, Shows, Pressed
  <2> QED
    BY <2>2, <2>4 DEF Init
<1> QED
  BY <1>2, <1>3 DEF Told

(* When nothing is under way the line is empty.                             *)
LEMMA QuietLine ==
    ASSUME Shape, Quiet, Whole(Line)
    PROVE  \A c : ~Makes(Line, c) /\ ~Breaks(Line, c)
<1>1. Line = Seen
  <2>1. Seen \in Seq(Bytes) /\ <<>> \in Seq(Bytes)
    BY LineTypes, EmptySeq
  <2> QED
    BY <2>1, ConcatEmptySeq DEF Quiet, Line, Front, Rear
<1>2. e0_f0 \in {{}, {"E0"}, {"F0"}, {"E0", "F0"}}
  BY DEF Shape, RingOK
<1>3. \A i \in 1..Len(Seen) : Seen[i] \in Prefixes
  BY <1>2 DEF Seen, Prefixes
<1>4. \A i \in 1..Len(Seen) : i < Len(Seen)
  BY <1>1, <1>3 DEF Whole
<1>5. ~(Len(Seen) \in 1..Len(Seen)) /\ Len(Seen) \in Nat
  BY <1>4, LineTypes, LenProperties
<1>6. Len(Line) = 0
  BY <1>1, <1>5
<1> QED
  BY <1>6 DEF Makes, Breaks

(* As long as no key code was cut in two: when every code has been handled, *)
(* a button is pressed exactly when its key is down, and when all keys are  *)
(* up the report is neutral.                                               *)
THEOREM AlwaysFollows == Spec => []ReportFollowsKeys
<1>1. Spec => [](Shape /\ Followed)
  BY ShapeAtFirst, ShapeKept, FollowedAtFirst, FollowedKept, PTL DEF Spec
<1>2. Shape /\ Followed => ReportFollowsKeys
  <2> SUFFICES ASSUME Shape, Followed, Quiet, ~disturbed
               PROVE  /\ \A k \in Keys : ~k.ext /\ k.byte \in DOMAIN ButtonOf =>
                             (ButtonOf[k.byte] \in buttons <=> k \in held)
                      /\ held = {} => buttons = {} /\ dir = "NO_BUTTON" /\ axes = Centre
    BY DEF ReportFollowsKeys
  <2>1. /\ \A c : ~Makes(Line, c) /\ ~Breaks(Line, c)
        /\ Told(Line, held)
    BY QuietLine DEF Followed, Told
  <2>2. \A c \in TableKeys :
            /\ Shows(c) => Plain(c) \in held
            /\ c \in DOMAIN ButtonOf /\ Plain(c) \in held => Pressed(c)
    BY <2>1 DEF Told
  <2>3. ASSUME NEW k \in Keys, ~k.ext, k.byte \in DOMAIN ButtonOf
        PROVE  ButtonOf[k.byte] \in buttons <=> k \in held
    <3>1. k = Plain(k.byte)
      <4>1. k \in [ext : BOOLEAN, byte : STRING \ {"E0", "F0", "FA", "FE", "AA"}]
        BY ConstantsAssumption
      <4> QED
        BY <2>3, <4>1 DEF Plain
    <3>2. k.byte \in TableKeys
      BY <2>3 DEF TableKeys
    <3>3. ButtonOf[k.byte] \in buttons <=> Pressed(k.byte)
      BY <2>3 DEF Pressed
    <3>4. Pressed(k.byte) => Shows(k.byte)
      BY DEF Shows
    <3> QED
      BY <2>2, <2>3, <3>1, <3>2, <3>3, <3>4
  <2>4. held = {} => buttons = {} /\ dir = "NO_BUTTON" /\ axes = Centre
    BY <2>2, NothingShown DEF Shape
  <2> QED
    BY <2>3, <2>4
<1> QED
  BY <1>1, <1>2, PTL

-----------------------------------------------------------------------------
(* The LEDs.  A request the driver has sent is still to be answered; and    *)
(* the LED state it sent last is lit, or the keyboard will ask for it again. *)
(* Only a reset ends the resends, so that none is given up silently.        *)
Agreed ==
    /\ lastbyte # RESET => retry <= Resends
    /\ ~disturbed =>
           /\ lastbyte = SET_LEDS => Coming("FA") \/ Coming("FE")
           /\ lastbyte \notin {SET_LEDS, RESET} =>
                  lastbyte = LedState(leds) /\ (kbd.leds = leds \/ Coming("FE"))

LEMMA RequestAnswered ==
    ASSUME KB_Send(SET_LEDS)
    PROVE  Says(answers', "FA") \/ Says(answers', "FE")
<1>1. Answer(SET_LEDS) = <<"FA">>
  BY MessagesDiffer DEF Answer, Understands
<1>2. answers' = <<"FA">> \/ answers' = <<"FE">>
  BY <1>1 DEF KB_Send
<1> QED
  BY <1>2, SaysAnswer

LEMMA StateAnswered ==
    ASSUME Shape, NEW s, KB_Send(LedState(s))
    PROVE  kbd'.leds = s \/ Says(answers', "FE")
<1>1. CASE answers' = <<"FE">>
  BY <1>1, SaysAnswer
<1>2. CASE kbd' = After(LedState(s)) /\ answers' = Answer(LedState(s))
  <2>1. CASE kbd.awaits
    <3>1. kbd' = [leds |-> s, awaits |-> FALSE]
      BY <1>2, <2>1, MessagesDiffer DEF After
    <3> QED
      BY <3>1
  <2>2. CASE ~kbd.awaits
    <3>1. answers' = <<"FE">>
      BY <1>2, <2>2, MessagesDiffer DEF Answer, Understands
    <3> QED
      BY <3>1, SaysAnswer
  <2> QED
    BY <2>1, <2>2
<1> QED
  BY <1>1, <1>2 DEF KB_Send

LEMMA DialogueAgrees ==
    ASSUME Shape, Agreed, NEW b, Dialogue(b),
           \A c \in Answers : Says(ring, c) => Says(ring', c) \/ b = c
    PROVE  Agreed'
<1>0. /\ 0 <= Resends /\ Resends \in Nat /\ Resets \in Nat /\ Resends + 1 < Resets /\ retry \in Nat
      /\ Resets <= 255
  BY ConstantsAssumption DEF Shape, TalkOK
<1>a. "FA" \in Answers /\ "FE" \in Answers
  BY DEF Answers
<1>1. CASE AskForLeds(b)
  <2>1. KB_Send(SET_LEDS) /\ lastbyte' = SET_LEDS /\ retry' = 0
    BY <1>1 DEF AskForLeds
  <2>2. Coming("FA")' \/ Coming("FE")'
    BY <2>1, RequestAnswered DEF Coming
  <2> QED
    BY <1>0, <2>1, <2>2, MessagesDiffer DEF Agreed
<1>2. CASE SendLeds
  <2>1. KB_Send(LedState(leds')) /\ lastbyte' = LedState(leds') /\ retry' = 0
    BY <1>2 DEF SendLeds
  <2>2. kbd'.leds = leds' \/ Coming("FE")'
    BY <2>1, StateAnswered DEF Coming
  <2> QED
    BY <1>0, <2>1, <2>2, MessagesDiffer DEF Agreed
<1>3. CASE SendAgain
  <2>1. CASE /\ retry < Resends /\ retry' = retry + 1
             /\ KB_Send(lastbyte) /\ UNCHANGED lastbyte
    <3>1. retry' <= Resends /\ leds' = leds /\ lastbyte' = lastbyte
      BY <1>0, <1>3, <2>1 DEF SendAgain
    <3>2. ~disturbed' => ~disturbed
      BY <2>1 DEF KB_Send
    <3>3. lastbyte = SET_LEDS => Coming("FA")' \/ Coming("FE")'
      BY <2>1, RequestAnswered DEF Coming
    <3>4. lastbyte = LedState(leds) => kbd'.leds = leds \/ Coming("FE")'
      BY <2>1, StateAnswered DEF Coming
    <3> QED
      BY <3>1, <3>2, <3>3, <3>4 DEF Agreed
  <2>2. CASE KB_Send(RESET) /\ lastbyte' = RESET
    BY <2>2, MessagesDiffer DEF Agreed
  <2>3. CASE /\ retry >= Resends /\ (retry + 1) % 256 >= Resets
             /\ UNCHANGED <<wire, lastbyte>>
    <3>1. lastbyte = RESET
      <4>1. SUFFICES ASSUME lastbyte # RESET PROVE FALSE
        OBVIOUS
      <4>2. retry = Resends /\ (Resends + 1) % 256 = Resends + 1
        BY <1>0, <2>3, <4>1 DEF Agreed
      <4> QED
        BY <1>0, <2>3, <4>2
    <3> QED
      BY <2>3, <3>1, MessagesDiffer DEF Agreed
  <2> QED
    BY <1>3, <2>1, <2>2, <2>3 DEF SendAgain
<1>4. CASE ~AcknowledgesRequest(b) /\ b # "FE" /\ UNCHANGED <<led, wire>>
  <2>1. Coming("FE") => Coming("FE")'
    BY <1>4, <1>a DEF Coming, wire
  <2>2. lastbyte = SET_LEDS /\ Coming("FA") => Coming("FA")'
    BY <1>4, <1>a DEF Coming, wire, AcknowledgesRequest
  <2> QED
    BY <1>4, <2>1, <2>2 DEF Agreed, led, wire
<1> QED
  BY <1>1, <1>2, <1>3, <1>4 DEF Dialogue

LEMMA IdleAgrees ==
    ASSUME Agreed, UNCHANGED <<led, wire>>,
           ~disturbed => \A c \in Answers : Says(ring, c) => Says(ring', c)
    PROVE  Agreed'
<1>1. "FA" \in Answers /\ "FE" \in Answers
  BY DEF Answers
<1>2. /\ disturbed' = disturbed /\ lastbyte' = lastbyte /\ retry' = retry /\ leds' = leds
      /\ kbd' = kbd /\ answers' = answers
  BY DEF led, wire
<1>3. ~disturbed => (Coming("FA") => Coming("FA")') /\ (Coming("FE") => Coming("FE")')
  BY <1>1, <1>2 DEF Coming
<1> QED
  BY <1>2, <1>3 DEF Agreed

LEMMA AgreedKept ==
    ASSUME Shape, Followed, Agreed, [Next]_vars
    PROVE  Agreed'
<1>0. "FA" \in Answers /\ "FE" \in Answers /\ "ScrollLock" \notin Answers
      /\ Prefixes \cap Answers = {}
  BY DEF Answers, Prefixes
<1>1. CASE Deliver
  <2>1. ~disturbed' => /\ ~disturbed
                       /\ Coming("FA") => Coming("FA")'
                       /\ Coming("FE") => Coming("FE")'
    BY <1>0, <1>1, DeliverKeepsComing, DeliverKeepsLine
  <2>2. UNCHANGED <<lastbyte, retry, leds, kbd>>
    BY <1>1 DEF Deliver, led
  <2> QED
    BY <2>1, <2>2 DEF Agreed
<1>2. ASSUME NEW k \in Keys, User(k) PROVE Agreed'
  BY <1>2 DEF User, led, Agreed, Coming
<1>3. ASSUME ring # <<>>, ring' = Tail(ring), NEW c, Says(ring, c)
      PROVE  Says(ring', c) \/ Head(ring) = c
  BY <1>3, SaysShorter DEF Shape, RingOK
<1>4. CASE TakePrefix /\ UNCHANGED <<led, wire, report>>
  <2>1. \A c \in Answers : Says(ring, c) => Says(ring', c)
    BY <1>0, <1>3, <1>4 DEF TakePrefix, Prefixes
  <2> QED
    BY <1>4, <2>1, IdleAgrees
<1>5. CASE TakePrefix /\ Beat
  <2>1. \A c \in Answers : Says(ring, c) => Says(ring', c)
    BY <1>0, <1>3, <1>5 DEF TakePrefix, Prefixes
  <2>2. Dialogue("ScrollLock")
    BY <1>5 DEF Beat, EventFilter
  <2> QED
    BY <2>1, <2>2, DialogueAgrees
<1>6. CASE TakeCode
  <2>1. /\ ring # <<>> /\ ring' = Tail(ring) /\ EventFilter(e0_f0, Head(ring))
        /\ Head(ring) \notin Prefixes
    BY <1>6 DEF TakeCode, Prefixes
  <2>2. CASE Dialogue(Head(ring))
    BY <1>3, <2>1, <2>2, DialogueAgrees
  <2>3. CASE e0_f0 # {} /\ UNCHANGED <<led, wire>>
    <3>1. ~disturbed => Head(ring) \notin Answers
      <4>1. ~disturbed => Head(ring) \in KeyBytes
        BY <2>1, <2>3, Announced DEF Followed, Told
      <4> QED
        BY <4>1, KeyBytesAreCodes
    <3>2. ~disturbed => \A c \in Answers : Says(ring, c) => Says(ring', c)
      BY <1>3, <2>1, <3>1
    <3> QED
      BY <2>3, <3>2, IdleAgrees
  <2> QED
    BY <2>1, <2>2, <2>3 DEF EventFilter
<1>7. CASE Heartbeat
  <2>1. Dialogue("ScrollLock") /\ ring' = ring
    BY <1>7 DEF Heartbeat, Beat, EventFilter
  <2> QED
    BY <2>1, DialogueAgrees
<1>8. CASE UNCHANGED vars
  BY <1>8 DEF vars, Agreed, Coming
<1> QED
  BY <1>1, <1>2, <1>4, <1>5, <1>6, <1>7, <1>8 DEF Next, KB_EventTask, Poll

LEMMA AgreedAtFirst == Init => Agreed
<1> SUFFICES ASSUME Init PROVE Agreed
  OBVIOUS
<1>1. lastbyte = LedState(leds) /\ kbd.leds = leds /\ retry <= Resends
  BY ConstantsAssumption DEF Init
<1> QED
  BY <1>1, MessagesDiffer DEF Agreed

(* Driver and keyboard agree on the LEDs when the dialogue is over.         *)
THEOREM AlwaysAgree == Spec => []LedsAgree
<1>1. Spec => [](Shape /\ Followed /\ Agreed)
  BY ShapeAtFirst, ShapeKept, FollowedAtFirst, FollowedKept, AgreedAtFirst, AgreedKept,
     PTL DEF Spec
<1>2. Shape /\ Agreed => LedsAgree
  <2> SUFFICES ASSUME Agreed, Quiet, ~disturbed, lastbyte # RESET PROVE kbd.leds = leds
    BY DEF LedsAgree
  <2>1. ~Coming("FA") /\ ~Coming("FE")
    BY SaysNothing DEF Quiet, Coming
  <2> QED
    BY <2>1 DEF Agreed
<1> QED
  BY <1>1, <1>2, PTL

-----------------------------------------------------------------------------
(* From here on, UsbJoystick.                                              *)
(*                                                                         *)
(* The inductive invariant: interrupts are off exactly between cli() and    *)
(* the next restoring of SREG; what will be restored is "on"; the endpoint  *)
(* selected before RWAL is tested stays selected until the report is        *)
(* written, because no interrupt can run; and the room found stays.         *)
Masked == {"select", "test", "write"}

Discipline ==
    /\ ~iflag <=> pc \in Masked
    /\ pc \notin {"idle", "entry", "save"} => intr_state
    /\ intbits # "none" \/ serving # "none" => iflag

Selected == pc \in {"test", "write"} => UENUM = JOYSTICK_ENDPOINT

RoomStays == pc = "write" /\ endpoint = "on" => Len(banks) < Banks

SenderInv == UsbTypeOK /\ Discipline /\ Selected /\ RoomStays /\ RightEndpoint

-----------------------------------------------------------------------------
(* A frame number counted on stays a frame number.                         *)
LEMMA FrameWraps ==
    ASSUME NEW i \in Nat
    PROVE  i % Frames \in 0..Frames - 1
BY UsbConstantsAssumption, SMT

(* Filling a bank keeps a sequence of reports.                              *)
LEMMA FillBank ==
    ASSUME NEW b \in Seq(Report), NEW r \in Report
    PROVE  Append(b, r) \in Seq(Report) /\ Len(Append(b, r)) = Len(b) + 1
BY SMT

(* Emptying one keeps it too, and makes it shorter.                         *)
LEMMA DrainBank ==
    ASSUME NEW b \in Seq(Report), b # <<>>
    PROVE  Head(b) \in Report /\ Tail(b) \in Seq(Report) /\ Len(Tail(b)) < Len(b)
BY SMT

(* No bank, no reports.                                                     *)
LEMMA NoBank == <<>> \in Seq(Report) /\ Len(<<>>) = 0
BY SMT

LEMMA SenderAtFirst == UsbInit => SenderInv
<1> SUFFICES ASSUME UsbInit PROVE SenderInv
  OBVIOUS
<1>1. UsbTypeOK
  <2>1. 0 \in 0..Frames - 1
    BY UsbConstantsAssumption
  <2>2. banks \in Seq(Report) /\ Len(banks) <= Banks
    BY NoBank DEF UsbInit, Banks
  <2> QED
    BY <2>1, <2>2, UsbConstantsAssumption DEF UsbInit, UsbTypeOK
<1>2. Discipline /\ Selected /\ RoomStays /\ RightEndpoint
  BY DEF UsbInit, Discipline, Masked, Selected, RoomStays, RightEndpoint
<1> QED
  BY <1>1, <1>2 DEF SenderInv

-----------------------------------------------------------------------------
(* The sender, one step at a time. *)
LEMMA SendKeepsInv ==
    ASSUME SenderInv, usb_joystick_send
    PROVE  SenderInv'
<1> USE DEF SenderInv, UsbTypeOK, Discipline, Masked, Selected, RoomStays,
            RightEndpoint, usb, counters, Return
<1>0. /\ intbits = "none" /\ serving = "none"
      /\ UNCHANGED <<joystick, usb_configuration, updates, requests>>
  BY DEF usb_joystick_send, Undisturbed
<1>1. CASE Entry /\ UNCHANGED misrouted
  BY <1>0, <1>1 DEF Entry
<1>2. CASE Save /\ UNCHANGED misrouted
  BY <1>0, <1>2 DEF Save
<1>3. CASE Cli /\ UNCHANGED misrouted
  BY <1>0, <1>3 DEF Cli
<1>4. CASE Select /\ UNCHANGED misrouted
  <2>1. frame + Wait \in Nat
    BY UsbConstantsAssumption
  <2>2. Deadline \in 0..Frames - 1
    BY <2>1, FrameWraps DEF Deadline
  <2> QED
    BY <1>0, <1>4, <2>2 DEF Select, JOYSTICK_ENDPOINT
<1>5. CASE Test /\ UNCHANGED misrouted
  <2>1. PICK rwal \in BOOLEAN :
           /\ Ready(rwal)
           /\ IF rwal THEN pc' = "write" /\ UNCHANGED iflag
                      ELSE pc' = "offline" /\ RestoreFlag
    BY <1>5 DEF Test
  <2>2. CASE rwal
    <3>1. endpoint = "on" /\ Len(banks) < Banks
      BY <1>5, <2>1, <2>2 DEF Test, Ready
    <3> QED
      BY <1>0, <1>5, <2>1, <2>2, <3>1 DEF Test
  <2>3. CASE ~rwal
    BY <1>0, <1>5, <2>1, <2>3 DEF Test, RestoreFlag
  <2> QED
    BY <2>2, <2>3
<1>6. CASE Offline /\ UNCHANGED misrouted
  BY <1>0, <1>6 DEF Offline
<1>7. CASE Late /\ UNCHANGED misrouted
  BY <1>0, <1>7 DEF Late
<1>8. CASE Again /\ UNCHANGED misrouted
  BY <1>0, <1>8 DEF Again, JOYSTICK_ENDPOINT
<1>9. CASE Write
  <2>1. banks' \in Seq(Report) /\ Len(banks') <= Banks
    <3>1. CASE endpoint = "on"
      <4>1. banks' = Append(banks, joystick)
        BY <1>9, <3>1 DEF Write
      <4>2. Len(banks) < Banks
        BY <1>9, <3>1 DEF Write
      <4> QED
        BY <4>1, <4>2, FillBank DEF Banks
    <3>2. CASE endpoint # "on"
      BY <1>9, <3>2 DEF Write
    <3> QED
      BY <3>1, <3>2
  <2>2. pc' = "idle" /\ iflag'
    BY <1>9 DEF Write, RestoreFlag
  <2>3. ~misrouted'
    BY <1>9 DEF Write
  <2>4. UsbTypeOK'
    BY <1>0, <1>9, <2>1, <2>2, <2>3 DEF Write
  <2>5. Discipline'
    BY <2>2
  <2>6. Selected' /\ RoomStays'
    BY <2>2
  <2>7. RightEndpoint'
    BY <2>3
  <2> QED
    BY <2>4, <2>5, <2>6, <2>7
<1> QED
  BY <1>1, <1>2, <1>3, <1>4, <1>5, <1>6, <1>7, <1>8, <1>9 DEF usb_joystick_send

(* An interrupt runs only where UENUM does not matter.                      *)
LEMMA InterruptKeepsInv ==
    ASSUME SenderInv, Interrupts
    PROVE  SenderInv'
<1> USE DEF SenderInv, UsbTypeOK, Discipline, Masked, Selected, RoomStays,
            RightEndpoint, sender, counters
<1>1. CASE ReadUDINT
  BY <1>1 DEF ReadUDINT, Undisturbed
<1>2. CASE ClearUDINT
  <2>1. iflag /\ pc \notin Masked
    BY <1>2 DEF ClearUDINT
  <2>2. /\ UNCHANGED <<pc, timeout, intr_state, joystick, iflag, endpoint,
                       banks, frame, ticked, serving, setup, patient, seen, misrouted>>
        /\ intbits' = "none" /\ reset' = FALSE /\ sof' = FALSE
    BY <1>2 DEF ClearUDINT
  <2>3. UENUM' \in {0, 3, 4} /\ usb_configuration' \in {0, 1}
    BY <1>2 DEF ClearUDINT
  <2>4. UsbTypeOK'
    BY <2>2, <2>3
  <2>5. Discipline' /\ Selected' /\ RoomStays' /\ RightEndpoint'
    BY <2>1, <2>2
  <2> QED
    BY <2>4, <2>5
<1>3. CASE ReadSetup
  BY <1>3 DEF ReadSetup, Undisturbed
<1>4. CASE Serve
  <2>1. /\ banks' \in Seq(Report) /\ Len(banks') <= Banks
        /\ endpoint' \in {"off", "on", "halted"}
        /\ UENUM' \in {0, 3, 4} /\ usb_configuration' \in {0, 1}
    BY <1>4, NoBank DEF Serve, JOYSTICK_ENDPOINT, Banks
  <2>2. iflag /\ pc \notin Masked
    BY <1>4 DEF Serve
  <2> QED
    BY <1>4, <2>1, <2>2 DEF Serve
<1>5. CASE Answered
  BY <1>5 DEF Answered
<1> QED
  BY <1>1, <1>2, <1>3, <1>4, <1>5 DEF Interrupts, USB_GEN, USB_COM

(* The host takes reports away and switches the endpoint off, no more.      *)
LEMMA HostKeepsInv ==
    ASSUME SenderInv, Host
    PROVE  SenderInv'
<1> USE DEF SenderInv, UsbTypeOK, Discipline, Masked, Selected, RoomStays,
            RightEndpoint, sender, counters
<1>1. CASE Request
  BY <1>1 DEF Request, Requests
<1>2. CASE BusReset
  BY <1>2, NoBank DEF BusReset, Banks
<1>3. CASE HostReads
  BY <1>3, DrainBank DEF HostReads, Banks
<1>4. CASE Frame
  <2>1. frame' \in 0..Frames - 1
    BY <1>4, FrameWraps, UsbConstantsAssumption DEF Frame
  <2> QED
    BY <1>4, <2>1 DEF Frame
<1> QED
  BY <1>1, <1>2, <1>3, <1>4 DEF Host

LEMMA SenderKept == SenderInv /\ [UsbNext]_usb_vars => SenderInv'
<1> SUFFICES ASSUME SenderInv, [UsbNext]_usb_vars PROVE SenderInv'
  OBVIOUS
<1>1. ASSUME NEW r \in Report, Update(r) PROVE SenderInv'
  BY <1>1 DEF SenderInv, UsbTypeOK, Discipline, Masked, Selected, RoomStays,
              RightEndpoint, Update, Undisturbed
<1>2. CASE UNCHANGED usb_vars
  BY <1>2 DEF SenderInv, UsbTypeOK, Discipline, Masked, Selected, RoomStays,
              RightEndpoint, usb_vars, Requests
<1> QED
  BY <1>1, <1>2, SendKeepsInv, InterruptKeepsInv, HostKeepsInv DEF UsbNext

(* Whatever the interrupts and the host do, the sender's bookkeeping holds. *)
THEOREM SenderAlways == UsbSpec => []SenderInv
<1>1. UsbInit => SenderInv
  BY SenderAtFirst
<1>2. SenderInv /\ [UsbNext]_usb_vars => SenderInv'
  BY SenderKept
<1> QED
  BY <1>1, <1>2, PTL DEF UsbSpec

(* Lines 347 and 360: re-selecting the endpoint after every window with     *)
(* interrupts on is enough for no byte of a report to go astray.            *)
THEOREM ReportsGoRight == UsbSpec => []RightEndpoint
<1>1. SenderInv => RightEndpoint
  BY DEF SenderInv
<1>2. UsbSpec => []SenderInv
  BY SenderAlways
<1> QED
  BY <1>1, <1>2, PTL

(* Lines 345 to 364: the sender never fills more banks than the endpoint    *)
(* has, and on every way out of usb_joystick_send the interrupt flag is     *)
(* what it was on the way in.                                              *)
THEOREM SenderWellFormed == UsbSpec => []WellFormed
<1>1. SenderInv => WellFormed
  BY DEF SenderInv, UsbTypeOK, Discipline, Masked, InterruptsRestored, WellFormed
<1>2. UsbSpec => []SenderInv
  BY SenderAlways
<1> QED
  BY <1>1, <1>2, PTL
=============================================================================
