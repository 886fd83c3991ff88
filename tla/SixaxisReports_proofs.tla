------------------------ MODULE SixaxisReports_proofs ------------------------
(* Theorems about SixaxisReports for every width of a byte, idle period,    *)
(* number of iterations, interval of the host and number of faults.        *)
EXTENDS SixaxisReports, TLAPS

LEMMA BaseAssumption == Base \in Nat /\ Base > 1
  BY ConstantsAssumption

LEMMA DivMod ==
    ASSUME NEW n \in Nat, NEW b \in Nat, b > 1, NEW q \in Int, q = n \div b,
           NEW r \in Int, r = n % b
    PROVE  n = b * q + r /\ r \in 0..b - 1
  OBVIOUS

(* A counter is its two bytes. *)
LEMMA Halves ==
    ASSUME NEW n \in Values
    PROVE  /\ Low(n) \in 0..Base - 1 /\ High(n) \in 0..Base - 1
           /\ n = High(n) * Base + Low(n)
<1>1. n \in Nat /\ n < Base * Base
  BY BaseAssumption DEF Values
<1>2. n % Base \in Int /\ n \div Base \in Int
  BY <1>1, BaseAssumption
<1> DEFINE h == n \div Base
           l == n % Base
<1>3. h \in Int /\ l \in 0..Base - 1 /\ n = Base * h + l
  BY <1>1, <1>2, BaseAssumption, DivMod
<1> HIDE DEF h, l
<1>4. h >= 0
  <2> SUFFICES ASSUME h <= -1 PROVE FALSE
    BY <1>3
  <2>1. Base * h <= -Base
    BY <1>3, BaseAssumption
  <2> QED
    BY <1>1, <1>3, <2>1, BaseAssumption
<1>5. h <= Base - 1
  <2> SUFFICES ASSUME h >= Base PROVE FALSE
    BY <1>3, BaseAssumption
  <2>1. Base * h >= Base * Base
    BY <1>3, BaseAssumption
  <2> QED
    BY <1>1, <1>3, <2>1, BaseAssumption
<1> QED
  BY <1>3, <1>4, <1>5, BaseAssumption DEF Low, High, h, l

LEMMA Joined ==
    ASSUME NEW h \in 0..Base - 1, NEW l \in 0..Base - 1
    PROVE  /\ h * Base + l \in Values
           /\ Low(h * Base + l) = l /\ High(h * Base + l) = h
<1>1. h * Base \in Nat /\ h * Base <= (Base - 1) * Base
  BY BaseAssumption
<1>2. (Base - 1) * Base = Base * Base - Base
  BY BaseAssumption
<1>3. h * Base + l \in Values
  BY <1>1, <1>2, BaseAssumption DEF Values
<1> DEFINE n == h * Base + l
<1>4. /\ n = High(n) * Base + Low(n) /\ Low(n) \in 0..Base - 1 /\ High(n) \in 0..Base - 1
  BY <1>3, Halves
<1> DEFINE g == High(n)
           m == Low(n)
<1>5. g \in Int /\ m \in 0..Base - 1 /\ h * Base + l = g * Base + m
  BY <1>4
<1> HIDE DEF g, m, n
<1>6. h = g
  <2>1. ASSUME h <= g - 1 PROVE FALSE
    <3>1. h * Base <= (g - 1) * Base /\ (g - 1) * Base = g * Base - Base
      BY <1>5, <2>1, BaseAssumption
    <3> QED
      BY <1>1, <1>5, <3>1, BaseAssumption
  <2>2. ASSUME g <= h - 1 PROVE FALSE
    <3>1. g * Base <= (h - 1) * Base /\ (h - 1) * Base = h * Base - Base
      BY <1>5, <2>2, BaseAssumption
    <3> QED
      BY <1>1, <1>5, <3>1, BaseAssumption
  <2> QED
    BY <1>5, <2>1, <2>2, BaseAssumption
<1>7. l = m
  BY <1>1, <1>5, <1>6, BaseAssumption
<1> QED
  BY <1>3, <1>6, <1>7 DEF g, m, n

-----------------------------------------------------------------------------
(* What is left of the period and what has passed of it add up, as long as  *)
(* no access was torn; the halves in hand are those of the counter.         *)
Accounted ==
    ~torn =>
        /\ pc # "rearm on" => IdleMSRemaining + since >= period
        /\ pc = "read on" => half \in {<<"low", Low(IdleMSRemaining)>>,
                                       <<"high", High(IdleMSRemaining)>>}
        /\ pc = "rearm" => IdleMSRemaining = 0
        /\ pc = "rearm on" => \/ half[1] = "low" /\ Low(IdleMSRemaining) = Low(IdleCount)
                              \/ half[1] = "high" /\ High(IdleMSRemaining) = High(IdleCount)

(* TypeOK in three parts. *)
MainOK ==
    /\ pc \in {"delay", "state", "compare", "read", "read on", "rearm", "rearm on", "select",
               "test", "wait", "write", "receive", "task", "status", "configured",
               "unconfigured", "event"}
    /\ phase \in {"before", "pressed", "released"}
    /\ i \in 1..(IF phase = "before" THEN Settle ELSE IF phase = "pressed" THEN Hold ELSE 1)
    /\ sendReport \in BOOLEAN /\ prev \in {"none", "up", "down"}

CounterOK ==
    /\ IdleCount \in Values /\ IdleMSRemaining \in Values
    /\ half \in {"none", "low", "high"} \X (0..Base - 1)
    /\ since \in Values /\ period \in Values /\ torn \in BOOLEAN

UsbOK ==
    /\ device \in {"Powered", "Default", "Addressed", "Configured", "Suspended"}
    /\ configuration \in {0, 1} /\ wake \in BOOLEAN
    /\ sofs \in BOOLEAN /\ enabled \in BOOLEAN
    /\ bank \in {"none", "up", "down"} /\ selected \in 0..2
    /\ waited \in 0..Interval /\ got \in {"none", "up", "down"}
    /\ ticked \in BOOLEAN /\ faults \in 0..MaxFaults
    /\ chance \in BOOLEAN /\ pressSeen \in BOOLEAN

LEMMA Parts == TypeOK <=> MainOK /\ CounterOK /\ UsbOK
  BY DEF TypeOK, MainOK, CounterOK, UsbOK

IInv == MainOK /\ CounterOK /\ UsbOK /\ Accounted

LEMMA InitIInv == Init => IInv
<1> SUFFICES ASSUME Init PROVE IInv
  OBVIOUS
<1>1. 0 \in Values /\ FirstIdle \in Values /\ 0 \in 0..Base - 1
  <2>1. Base * Base \in Nat /\ Base * Base > 0
    BY BaseAssumption
  <2> QED
    BY <2>1, BaseAssumption, ConstantsAssumption DEF Values
<1>2. MainOK
  BY ConstantsAssumption DEF Init, MainOK
<1>3. CounterOK
  BY <1>1 DEF Init, NoHalf, CounterOK
<1>4. UsbOK
  <2>1. 0 \in 0..Interval /\ 0 \in 0..MaxFaults
    BY ConstantsAssumption
  <2>2. /\ wake \in BOOLEAN /\ sofs \in BOOLEAN /\ enabled \in BOOLEAN /\ ticked \in BOOLEAN
        /\ chance \in BOOLEAN /\ pressSeen \in BOOLEAN
    BY DEF Init
  <2>3. /\ device = "Powered" /\ configuration = 0 /\ bank = "none" /\ selected = 0 /\ waited = 0 /\ got = "none"
        /\ faults = 0
    BY DEF Init
  <2> QED
    BY <2>1, <2>2, <2>3 DEF UsbOK
<1>5. Accounted
  BY <1>1 DEF Init, Accounted, Values
<1> QED
  BY <1>2, <1>3, <1>4, <1>5 DEF IInv

(* The steps of HID_Task that leave the counter and its history alone.      *)
Plain ==
    \/ Delay \/ HID_Task \/ Compare \/ Select \/ Test \/ WaitUntilReady \/ TimesOut \/ Write
    \/ ReceiveNextReport

LEMMA PlainSteps ==
    ASSUME IInv, Plain
    PROVE  IInv'
<1> USE DEF Plain
<1>1. UNCHANGED <<IdleCount, IdleMSRemaining, half, torn, since, period>>
  BY DEF Delay, HID_Task, Compare, Select, Test, WaitUntilReady, TimesOut, Write,
         ReceiveNextReport, counter, history
<1>2. pc' \in {"state", "compare", "task", "read", "select", "test", "wait", "write", "receive"}
  BY DEF Delay, HID_Task, Compare, Select, Test, WaitUntilReady, TimesOut, Write,
         ReceiveNextReport
<1>3. pc \notin {"read on", "rearm", "rearm on"}
  BY DEF Delay, HID_Task, Compare, Select, Test, WaitUntilReady, TimesOut, Write,
         ReceiveNextReport
<1>4. CounterOK' /\ Accounted'
  BY <1>1, <1>2, <1>3 DEF IInv, CounterOK, Accounted
<1>5. MainOK'
  <2>1. sendReport' \in BOOLEAN
    <3>1. CASE Compare
      BY <3>1, Zenon DEF Compare
    <3>2. CASE ~Compare
      BY <3>2 DEF IInv, MainOK, Delay, HID_Task, Select, Test, WaitUntilReady, TimesOut, Write,
                  ReceiveNextReport
    <3> QED
      BY <3>1, <3>2
  <2>2. UNCHANGED <<phase, i>>
    BY DEF Delay, HID_Task, Compare, Select, Test, WaitUntilReady, TimesOut, Write,
           ReceiveNextReport
  <2>3. prev' \in {prev, Ref}
    BY DEF Delay, HID_Task, Compare, Select, Test, WaitUntilReady, TimesOut, Write,
           ReceiveNextReport, NotSaved
  <2> QED
    BY <1>2, <2>1, <2>2, <2>3 DEF IInv, MainOK, Ref
<1>6. UsbOK'
  <2>1. UNCHANGED <<device, configuration, wake, sofs, enabled, waited, got, faults, chance,
                    pressSeen>>
    BY DEF Delay, HID_Task, Compare, Select, Test, WaitUntilReady, TimesOut, Write,
           ReceiveNextReport, usb, host, history
  <2>2. ticked' \in {ticked, FALSE} /\ bank' \in {bank, Ref} /\ selected' \in {selected, 1, 2}
    BY DEF Delay, HID_Task, Compare, Select, Test, WaitUntilReady, TimesOut, Write,
           ReceiveNextReport, usb, host
  <2>3. ticked' \in BOOLEAN
    BY <2>2 DEF IInv, UsbOK
  <2>4. bank' \in {"none", "up", "down"} /\ selected' \in 0..2
    BY <2>2 DEF IInv, UsbOK, Ref
  <2> QED
    BY <2>1, <2>3, <2>4 DEF IInv, UsbOK
<1> QED
  BY <1>4, <1>5, <1>6 DEF IInv

(* The four accesses to the bytes of the counter.                           *)
LEMMA CounterSteps ==
    ASSUME IInv, ReadFirst \/ ReadSecond \/ WriteFirst \/ WriteSecond
    PROVE  IInv'
<1>1. UsbOK'
  BY DEF IInv, UsbOK, ReadFirst, ReadSecond, WriteFirst, WriteSecond, usb, host, history
<1>2. MainOK'
  <2>1. sendReport' \in {sendReport, TRUE} /\ UNCHANGED <<phase, i, prev>>
    BY DEF ReadFirst, ReadSecond, WriteFirst, WriteSecond, MustSend
  <2>2. pc' \in {"read on", "rearm", "select", "rearm on"}
    BY DEF ReadFirst, ReadSecond, WriteFirst, WriteSecond
  <2> QED
    BY <2>1, <2>2 DEF IInv, MainOK
<1> DEFINE n == IdleMSRemaining
           c == IdleCount
<1>3. /\ n \in Values /\ c \in Values /\ 0 \in 0..Base - 1 /\ 0 \in Values
      /\ torn \in BOOLEAN /\ since \in Values /\ period \in Values
  <2>1. Base * Base \in Nat /\ Base * Base > 0
    BY BaseAssumption
  <2> QED
    BY <2>1, BaseAssumption DEF IInv, CounterOK, Values
<1>4. /\ Low(n) \in 0..Base - 1 /\ High(n) \in 0..Base - 1 /\ n = High(n) * Base + Low(n)
      /\ Low(c) \in 0..Base - 1 /\ High(c) \in 0..Base - 1 /\ c = High(c) * Base + Low(c)
  BY <1>3, Halves
<1>5. CASE ReadFirst
  <2>1. half' \in {<<"low", Low(n)>>, <<"high", High(n)>>} /\ pc = "read" /\ pc' = "read on"
        /\ UNCHANGED <<IdleCount, IdleMSRemaining, torn, since, period>>
    BY <1>5 DEF ReadFirst, history
  <2>2. CounterOK'
    <3>1. half' \in {"none", "low", "high"} \X (0..Base - 1)
      <4>1. CASE half' = <<"low", Low(n)>>
        BY <1>4, <4>1
      <4>2. CASE half' = <<"high", High(n)>>
        BY <1>4, <4>2
      <4> QED
        BY <2>1, <4>1, <4>2
    <3> QED
      BY <1>3, <2>1, <3>1 DEF CounterOK
  <2>3. Accounted'
    BY <2>1 DEF IInv, Accounted
  <2> QED
    BY <1>1, <1>2, <2>2, <2>3 DEF IInv
<1>6. CASE ReadSecond
  <2>1. pc = "read on" /\ pc' \in {"rearm", "select"} /\ half' = <<"none", 0>>
        /\ UNCHANGED <<IdleCount, IdleMSRemaining, torn, since, period>>
    BY <1>6 DEF ReadSecond, NoHalf, history
  <2>2. CounterOK'
    BY <1>3, <2>1 DEF CounterOK
  <2>3. ASSUME ~torn, pc' = "rearm" PROVE n = 0
    <3>1. half \in {<<"low", Low(n)>>, <<"high", High(n)>>}
      BY <2>1, <2>3 DEF IInv, Accounted
    <3>2. half[2] = 0 /\ 0 = IF half[1] = "low" THEN High(n) ELSE Low(n)
      BY <1>6, <2>3 DEF ReadSecond
    <3>3. CASE half = <<"low", Low(n)>>
      BY <1>4, <3>2, <3>3, BaseAssumption
    <3>4. CASE half = <<"high", High(n)>>
      BY <1>4, <3>2, <3>4, BaseAssumption
    <3> QED
      BY <3>1, <3>3, <3>4
  <2>4. Accounted'
    BY <2>1, <2>3 DEF IInv, Accounted
  <2> QED
    BY <1>1, <1>2, <2>2, <2>4 DEF IInv
<1>7. CASE WriteFirst
  <2>1. /\ pc = "rearm" /\ pc' = "rearm on" /\ torn' = FALSE
        /\ UNCHANGED <<IdleCount, since, period>>
        /\ \/ half' = <<"low", Low(c)>> /\ IdleMSRemaining' = High(n) * Base + Low(c)
           \/ half' = <<"high", High(c)>> /\ IdleMSRemaining' = High(c) * Base + Low(n)
    BY <1>7 DEF WriteFirst, Rearmed
  <2>2. /\ High(n) * Base + Low(c) \in Values /\ Low(High(n) * Base + Low(c)) = Low(c)
        /\ High(c) * Base + Low(n) \in Values /\ High(High(c) * Base + Low(n)) = High(c)
    BY <1>4, Joined
  <2>3. CounterOK'
    <3>1. half' \in {"none", "low", "high"} \X (0..Base - 1)
      <4>1. CASE half' = <<"low", Low(c)>>
        BY <1>4, <4>1
      <4>2. CASE half' = <<"high", High(c)>>
        BY <1>4, <4>2
      <4> QED
        BY <2>1, <4>1, <4>2
    <3>2. IdleMSRemaining' \in Values
      BY <2>1, <2>2
    <3> QED
      BY <1>3, <2>1, <3>1, <3>2 DEF CounterOK
  <2>4. \/ half'[1] = "low" /\ Low(IdleMSRemaining') = Low(c)
        \/ half'[1] = "high" /\ High(IdleMSRemaining') = High(c)
    <3>1. CASE half' = <<"low", Low(c)>> /\ IdleMSRemaining' = High(n) * Base + Low(c)
      BY <2>2, <3>1
    <3>2. CASE half' = <<"high", High(c)>> /\ IdleMSRemaining' = High(c) * Base + Low(n)
      BY <2>2, <3>2
    <3> QED
      BY <2>1, <3>1, <3>2
  <2>5. Accounted'
    BY <2>1, <2>4 DEF Accounted
  <2> QED
    BY <1>1, <1>2, <2>3, <2>5 DEF IInv
<1>8. CASE WriteSecond
  <2>1. /\ pc = "rearm on" /\ pc' = "select" /\ half' = <<"none", 0>>
        /\ since' = 0 /\ period' = IdleCount /\ UNCHANGED <<IdleCount, torn>>
        /\ IdleMSRemaining' = IF half[1] = "low" THEN High(c) * Base + Low(n)
                                                 ELSE High(n) * Base + Low(c)
    BY <1>8 DEF WriteSecond, Rearmed, NoHalf
  <2>2. High(n) * Base + Low(c) \in Values /\ High(c) * Base + Low(n) \in Values
    BY <1>4, Joined
  <2>3. CounterOK'
    BY <1>3, <2>1, <2>2 DEF CounterOK
  <2>4. ~torn => IdleMSRemaining' = IdleCount
    BY <1>4, <2>1 DEF IInv, Accounted
  <2>5. Accounted'
    <3>1. c + 0 >= c
      BY <1>4, BaseAssumption
    <3> QED
      BY <2>1, <2>4, <3>1 DEF Accounted
  <2> QED
    BY <1>1, <1>2, <2>3, <2>5 DEF IInv
<1> QED
  BY <1>5, <1>6, <1>7, <1>8

(* SET_CONFIGURATION up to its event.                                       *)
Configuring == (\E n \in {0, 1} : SetConfiguration(n)) \/ ReadConfiguration \/ SetState

LEMMA ConfiguringSteps ==
    ASSUME IInv, Configuring
    PROVE  IInv'
<1> USE DEF Configuring
<1>1. UNCHANGED <<IdleCount, IdleMSRemaining, half, torn, since, period, phase, i, sendReport,
                  prev>>
  BY DEF SetConfiguration, ReadConfiguration, SetState, counter, history
<1>2. /\ pc \notin {"read on", "rearm", "rearm on"}
      /\ pc' \in {"status", "configured", "unconfigured", "event"}
  BY DEF SetConfiguration, ReadConfiguration, SetState
<1>3. CounterOK' /\ Accounted' /\ MainOK'
  BY <1>1, <1>2 DEF IInv, CounterOK, Accounted, MainOK
<1>4. UsbOK'
  <2>1. CASE \E n \in {0, 1} : SetConfiguration(n)
    <3>1. faults' \in 0..MaxFaults /\ 0 \in 0..Interval
      BY <2>1, ConstantsAssumption DEF IInv, UsbOK, SetConfiguration, Fault
    <3>2. chance' \in {chance, FALSE} /\ configuration' \in {0, 1} /\ got' = "none"
          /\ waited' = 0
      BY <2>1 DEF SetConfiguration
    <3>3. chance' \in BOOLEAN
      BY <3>2 DEF IInv, UsbOK
    <3>4. UNCHANGED <<device, wake, sofs, enabled, bank, selected, ticked, pressSeen>>
      BY <2>1 DEF SetConfiguration
    <3> QED
      BY <3>1, <3>2, <3>3, <3>4 DEF IInv, UsbOK
  <2>2. CASE ReadConfiguration \/ SetState
    <3>1. device' \in {device, "Configured", "Addressed"}
      BY <2>2 DEF ReadConfiguration, SetState, usb
    <3>2. UNCHANGED <<configuration, wake, sofs, enabled, bank, selected, waited, got, ticked,
                      faults, chance, pressSeen>>
      BY <2>2 DEF ReadConfiguration, SetState, usb, host, history
    <3> QED
      BY <3>1, <3>2 DEF IInv, UsbOK
  <2> QED
    BY <2>1, <2>2
<1> QED
  BY <1>3, <1>4 DEF IInv

(* The end of an iteration.                                                 *)
LEMMA TaskSteps ==
    ASSUME IInv, ConfigurationChanged \/ SetIdle \/ OtherRequest
    PROVE  IInv'
<1>1. UNCHANGED <<IdleMSRemaining, half, torn, since, period>>
  BY DEF ConfigurationChanged, SetIdle, OtherRequest, counter
<1>2. IdleCount' \in Values
  <2>1. CASE SetIdle
    BY <2>1, ConstantsAssumption DEF SetIdle, Values
  <2>2. CASE ~SetIdle
    BY <2>2 DEF IInv, CounterOK, ConfigurationChanged, OtherRequest, counter
  <2> QED
    BY <2>1, <2>2
<1>3. NextIteration /\ pc' = "delay" /\ pc \in {"task", "event"}
  BY DEF ConfigurationChanged, SetIdle, OtherRequest, NextIteration
<1>4. CounterOK' /\ Accounted'
  BY <1>1, <1>2, <1>3 DEF IInv, CounterOK, Accounted
<1>5. chance' \in BOOLEAN
  <2>1. CASE chance' = (device = "Configured" /\ configuration # 0 /\ enabled)
    BY <2>1, Zenon
  <2>2. CASE chance' = chance
    BY <2>2 DEF IInv, UsbOK
  <2> QED
    BY <1>3, <2>1, <2>2 DEF NextIteration
<1>6. /\ phase' \in {"before", "pressed", "released"}
      /\ i' \in 1..(IF phase' = "before" THEN Settle ELSE IF phase' = "pressed" THEN Hold ELSE 1)
  <2>1. CASE More
    <3>1. i' = i - 1 /\ phase' = phase
      BY <1>3, <2>1 DEF NextIteration
    <3> DEFINE bound == IF phase = "before" THEN Settle ELSE IF phase = "pressed" THEN Hold ELSE 1
    <3>2. bound \in Nat
      BY ConstantsAssumption
    <3>3. i \in 1..bound /\ i > 1 /\ phase \in {"before", "pressed", "released"}
      BY <2>1 DEF IInv, MainOK, More
    <3> HIDE DEF bound
    <3>4. i - 1 \in 1..bound
      BY <3>2, <3>3
    <3> QED
      BY <3>1, <3>3, <3>4 DEF bound
  <2>2. CASE ~More
    <3>1. \/ phase' = "pressed" /\ i' = Hold
          \/ phase' = "released" /\ i' = 1
          \/ phase = "released" /\ phase' = phase /\ i' = i
      BY <1>3, <2>2 DEF NextIteration
    <3>2. CASE phase' = "pressed" /\ i' = Hold
      BY <3>2, ConstantsAssumption
    <3>3. CASE phase' = "released" /\ i' = 1
      BY <3>3
    <3>4. CASE phase = "released" /\ phase' = phase /\ i' = i
      BY <3>4 DEF IInv, MainOK
    <3> QED
      BY <3>1, <3>2, <3>3, <3>4
  <2> QED
    BY <2>1, <2>2
<1>7. MainOK'
  BY <1>3, <1>6 DEF IInv, MainOK, ConfigurationChanged, SetIdle, OtherRequest
<1>8. UsbOK'
  <2>1. CASE ConfigurationChanged
    <3>1. sofs' = TRUE /\ enabled' = TRUE /\ bank' \in {bank, "none"} /\ selected' = 2
      BY <2>1 DEF ConfigurationChanged
    <3>2. UNCHANGED <<device, configuration, wake, waited, got, ticked, faults, pressSeen>>
      BY <2>1 DEF ConfigurationChanged, host
    <3> QED
      BY <1>5, <3>1, <3>2 DEF IInv, UsbOK
  <2>2. CASE SetIdle \/ OtherRequest
    BY <1>5, <2>2 DEF IInv, UsbOK, SetIdle, OtherRequest, usb, host
  <2> QED
    BY <2>1, <2>2
<1> QED
  BY <1>4, <1>7, <1>8 DEF IInv

(* A millisecond takes from the rest what it adds to the time passed.       *)
LEMMA MillisecondKeeps ==
    ASSUME IInv, Millisecond
    PROVE  IInv'
<1>1. UNCHANGED <<pc, phase, i, sendReport, prev, IdleCount, half, device, configuration, wake,
                  sofs, enabled, bank, selected, got, faults, period, chance, pressSeen>> /\ ticked' = TRUE
  BY DEF Millisecond, usb
<1>2. /\ IdleMSRemaining \in Nat /\ since \in Nat /\ period \in Nat
      /\ IdleMSRemaining \in Values /\ since \in Values /\ period \in Values
      /\ torn \in BOOLEAN
  <2>1. Base * Base \in Nat
    BY BaseAssumption
  <2> QED
    BY <2>1 DEF IInv, CounterOK, Values
<1>3. MainOK'
  BY <1>1 DEF IInv, MainOK
<1>4. UsbOK'
  <2>1. waited' \in 0..Interval
    BY ConstantsAssumption DEF IInv, UsbOK, Millisecond
  <2> QED
    BY <1>1, <2>1 DEF IInv, UsbOK
<1>5. CASE device = "Suspended" \/ ~sofs
  <2>1. UNCHANGED <<IdleMSRemaining, since, torn>>
    BY <1>5 DEF Millisecond
  <2> QED
    BY <1>1, <1>3, <1>4, <2>1 DEF IInv, CounterOK, Accounted
<1>6. CASE ~(device = "Suspended" \/ ~sofs)
  <2>1. /\ IdleMSRemaining' = Decremented
        /\ torn' = (torn \/ Accessing)
        /\ since' = IF since < period THEN since + 1 ELSE since
    BY <1>6 DEF Millisecond
  <2>2. IdleMSRemaining' \in Values /\ since' \in Values
    <3>1. Base * Base \in Nat
      BY BaseAssumption
    <3> QED
      BY <1>2, <2>1, <3>1 DEF Decremented, Values
  <2>3. torn' \in BOOLEAN /\ (~torn' => ~torn /\ ~Accessing)
    BY <2>1, Zenon
  <2>4. CounterOK'
    BY <1>1, <2>2, <2>3 DEF IInv, CounterOK
  <2>5. ASSUME ~torn' PROVE Accounted'
    <3>1. ~torn /\ pc \notin {"read on", "rearm on"}
      BY <2>3, <2>5 DEF Accessing
    <3>2. IdleMSRemaining + since >= period /\ (pc = "rearm" => IdleMSRemaining = 0)
      BY <3>1 DEF IInv, Accounted
    <3>3. IdleMSRemaining' + since' >= period /\ (pc = "rearm" => IdleMSRemaining' = 0)
      BY <1>2, <2>1, <3>2 DEF Decremented
    <3> QED
      BY <1>1, <3>1, <3>3 DEF Accounted
  <2>6. Accounted'
    BY <2>5 DEF Accounted
  <2> QED
    BY <1>3, <1>4, <2>4, <2>6 DEF IInv
<1> QED
  BY <1>5, <1>6

(* The host and the bus do not look at the counter.                         *)
LEMMA BusSteps ==
    ASSUME IInv, Poll \/ BusReset \/ Suspend \/ WakeUp
    PROVE  IInv'
<1>1. UNCHANGED <<pc, phase, i, sendReport, prev, IdleCount, IdleMSRemaining, half, since,
                  period, torn>>
  BY DEF Poll, BusReset, Suspend, WakeUp, counter, history
<1>2. MainOK' /\ CounterOK' /\ Accounted'
  BY <1>1 DEF IInv, MainOK, CounterOK, Accounted
<1>3. UsbOK'
  <2>1. CASE Poll
    <3>1. pressSeen' \in BOOLEAN
      BY <2>1, Zenon DEF Poll
    <3> QED
      BY <2>1, <3>1, ConstantsAssumption DEF IInv, UsbOK, Poll
  <2>2. CASE BusReset
    <3>1. faults' \in 0..MaxFaults /\ 0 \in 0..Interval
      BY <2>2, ConstantsAssumption DEF IInv, UsbOK, BusReset, Fault
    <3>2. enabled' \in BOOLEAN /\ chance' \in BOOLEAN
      BY <2>2, Zenon DEF BusReset
    <3>3. UNCHANGED <<sofs, ticked, pressSeen>>
      BY <2>2 DEF BusReset
    <3>4. waited' = 0 /\ device' = "Default" /\ configuration' = 0 /\ wake' = TRUE
          /\ bank' = "none" /\ selected' = 0 /\ got' = "none"
      BY <2>2 DEF BusReset
    <3> QED
      BY <3>1, <3>2, <3>3, <3>4 DEF IInv, UsbOK
  <2>3. CASE Suspend
    <3>1. faults' \in 0..MaxFaults
      BY <2>3, ConstantsAssumption DEF IInv, UsbOK, Suspend, Fault
    <3> QED
      BY <2>3, <3>1 DEF IInv, UsbOK, Suspend, host
  <2>4. CASE WakeUp
    BY <2>4 DEF IInv, UsbOK, WakeUp, host, history
  <2> QED
    BY <2>1, <2>2, <2>3, <2>4
<1> QED
  BY <1>2, <1>3 DEF IInv

LEMMA NextIInv == IInv /\ [Next]_vars => IInv'
<1> SUFFICES ASSUME IInv, [Next]_vars PROVE IInv'
  OBVIOUS
<1>1. CASE Next
  BY <1>1, PlainSteps, CounterSteps, ConfiguringSteps, TaskSteps, MillisecondKeeps, BusSteps
     DEF Next, MainLoop, Plain, Configuring
<1>2. CASE UNCHANGED vars
  <2>1. MainOK' /\ CounterOK'
    BY <1>2 DEF IInv, MainOK, CounterOK, vars, counter, history
  <2>2. UsbOK'
    BY <1>2 DEF IInv, UsbOK, vars, usb, host, history
  <2>3. Accounted'
    BY <1>2 DEF IInv, Accounted, vars, counter, history
  <2> QED
    BY <2>1, <2>2, <2>3 DEF IInv
<1> QED
  BY <1>1, <1>2

LEMMA Invariance == Spec => []IInv
<1> QED
  BY InitIInv, NextIInv, PTL DEF Spec

-----------------------------------------------------------------------------
(* Every variable stays in range, the two bytes of the counter also when    *)
(* the interrupt of a frame falls between the accesses to them.             *)
THEOREM TypeCorrect == Spec => []TypeOK
<1>1. IInv => TypeOK
  BY Parts DEF IInv
<1> QED
  BY <1>1, Invariance, PTL

(* The idle period of 500 ms, or what SetIdle asked for, is not taken for   *)
(* over before as many frames have passed, unless an access was torn.       *)
THEOREM PeriodAlwaysKept == Spec => []PeriodKept
<1>1. IInv => PeriodKept
  <2> SUFFICES ASSUME IInv, pc = "rearm", ~torn PROVE since >= period
    BY DEF PeriodKept
  <2>1. since \in Int /\ period \in Int
    BY DEF IInv, CounterOK, Values
  <2> QED
    BY <2>1 DEF IInv, Accounted
<1> QED
  BY <1>1, Invariance, PTL
=============================================================================
