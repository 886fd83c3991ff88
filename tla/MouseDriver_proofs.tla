-------------------------- MODULE MouseDriver_proofs --------------------------
(* Theorems about MouseDriver for every ring, set of movement bytes, number *)
(* of packets and requests, for a main loop that stalls anywhere, with and  *)
(* without a wheel.                                                        *)
EXTENDS MouseDriver, TLAPS

(* The table, an entry at a time. *)
LEMMA TableSize == Size = 52 /\ Streaming = 52 /\ Error = 255
  BY DEF Size, Streaming, Error, ms_state_table

States == {s \in 0..52 : s % 2 = 0} \cup {255}

(* Rows that answer with nothing, and with a reset. *)
Silent == {0, 2, 6, 8, 12, 14, 18, 20, 36, 50}
Again == {4, 10, 16}

LEMMA Replies ==
    /\ \A s \in Silent : Reply(s) = 0
    /\ \A s \in Again : Reply(s) = RESET
    /\ \A s \in {22, 26, 30, 44} : Reply(s) = SET_RATE
    /\ Reply(24) = 200 /\ Reply(28) = 100 /\ Reply(32) = 80
    /\ Reply(34) = GET_ID /\ Reply(38) = SET_RES
    /\ Reply(40) = RES_VALUE /\ Reply(42) = SCALE_VALUE /\ Reply(46) = RATE_VALUE
    /\ Reply(48) = ENABLE
    /\ Target(38) = WHEEL_ID
<1>1. \A s \in Silent : Reply(s) = 0
  BY DEF Silent, Reply, ms_state_table
<1>2. \A s \in Again : Reply(s) = RESET
  BY DEF Again, Reply, ms_state_table
<1>3. \A s \in {22, 26, 30, 44} : Reply(s) = SET_RATE
  BY DEF Reply, ms_state_table
<1>4. Reply(24) = 200 /\ Reply(28) = 100 /\ Reply(32) = 80
  BY DEF Reply, ms_state_table
<1>5. Reply(34) = GET_ID /\ Reply(38) = SET_RES
  BY DEF Reply, ms_state_table
<1>6. Reply(40) = RES_VALUE /\ Reply(42) = SCALE_VALUE /\ Reply(46) = RATE_VALUE
  BY DEF Reply, ms_state_table
<1>7. Reply(48) = ENABLE /\ Target(38) = WHEEL_ID
  BY DEF Reply, Target, ms_state_table
<1> QED
  BY <1>1, <1>2, <1>3, <1>4, <1>5, <1>6, <1>7

-----------------------------------------------------------------------------
(* What the driver has told the mouse so far follows from the state of the  *)
(* filter alone: that is the strengthening.  Stale bytes may move the       *)
(* filter on, but every step on sends the next command; a byte dropped or   *)
(* never read only keeps it from moving.                                   *)

Configs == [res : Resolutions, rate : Rates, scale : {0, 1}]

MouseStates ==
    [id : {MOUSE_ID, WHEEL_ID}, reporting : BOOLEAN, awaits : {"command", "rate", "res"},
     knock : 0..3, res : Resolutions, rate : Rates, scale : {1, 2}, serial : Nat]

Told ==
    /\ state # Error => mouse.awaits = IF state \in {24, 28, 32, 46} THEN "rate"
                                       ELSE IF state = 40 THEN "res" ELSE "command"
    /\ state \in {26, 28} => mouse.knock = 1
    /\ state \in {30, 32} => mouse.knock = 2
    /\ env.wheel /\ state \in 34..52 => mouse.id = WHEEL_ID
    /\ state \in 42..52 => mouse.res = config.res
    /\ state \in 44..52 => mouse.scale = IF config.scale = 1 THEN 1 ELSE 2
    /\ state \in 48..52 => mouse.rate = config.rate
    /\ state \in 50..52 => mouse.reporting

(* A mouse without a wheel never says 3, as an id or in a packet, so the    *)
(* filter never gets beyond the row that expects it.                       *)
NoWheelIn(bytes) == \A i \in 1..Len(bytes) : bytes[i].val # WHEEL_ID

StopsAtId ==
    ~env.wheel => /\ state \notin 40..52
                  /\ mouse.id = MOUSE_ID /\ ~mouse.reporting
                  /\ scancode.val # WHEEL_ID /\ NoWheelIn(ring) /\ NoWheelIn(out)

Typed == TypeOK /\ config \in Configs /\ mouse \in MouseStates /\ mouse.serial <= env.moves

IInv == Typed /\ Told /\ StopsAtId /\ NeverConfused

LEMMA StatesOfFilter == state \in {s \in 0..Size : s % 2 = 0} \cup {Error} <=> state \in States
  BY TableSize DEF States

LEMMA BytesAreElements ==
    ASSUME env.moves \in Nat
    PROVE  /\ \A v \in {ACK, BAT, MOUSE_ID, WHEEL_ID, -1} : Raw(v) \in Element
           /\ NoByte \in Element
  BY DEF Raw, NoByte, Element, ACK, BAT, MOUSE_ID, WHEEL_ID

LEMMA EnvOfCases == env \in Cases => env.moves \in Nat /\ env.wheel \in BOOLEAN
  BY ConstantsAssumption

LEMMA InitIInv == Init => IInv
<1> SUFFICES ASSUME Init PROVE IInv
  OBVIOUS
<1> env.moves \in Nat /\ env.wheel \in BOOLEAN
  BY EnvOfCases DEF Init
<1>1. /\ config \in Configs /\ mouse \in MouseStates /\ mouse.serial <= env.moves
  BY DEF Init, SetMouseDefault, Configs, PoweredUp, MouseStates, MOUSE_ID, WHEEL_ID, Rates,
         Resolutions
<1>2. out \in Seq(Element) /\ Len(out) <= 4
  BY BytesAreElements DEF Init
<1>3. TypeOK
  <2>1. <<>> \in Seq(Element) /\ Len(<<>>) = 0
    OBVIOUS
  <2>2. scancode \in Element
    BY BytesAreElements DEF Init
  <2>3. state \in {s \in 0..Size : s % 2 = 0} \cup {Error}
    BY StatesOfFilter DEF Init, States
  <2>4. ring \in Seq(Element) /\ Len(ring) <= RingSize /\ packet \in Seq(Element) /\ Len(packet) < 4
    BY <2>1, ConstantsAssumption DEF Init
  <2>5. env \in Cases /\ pc \in {"boot", "kb", "ms", "filter"} /\ retry \in 0..5
    BY DEF Init
  <2>6. lost \in BOOLEAN /\ torn \in BOOLEAN /\ confused \in BOOLEAN
    BY DEF Init
  <2> QED
    BY <1>2, <2>2, <2>3, <2>4, <2>5, <2>6 DEF TypeOK
<1>4. Told
  BY TableSize DEF Init, Told, PoweredUp
<1>5. StopsAtId
  BY DEF Init, StopsAtId, NoWheelIn, PoweredUp, Raw, NoByte, BAT, MOUSE_ID, WHEEL_ID
<1> QED
  BY <1>1, <1>3, <1>4, <1>5 DEF Init, IInv, Typed, NeverConfused

-----------------------------------------------------------------------------
(* What a byte does to a mouse that awaits it, field by field. *)

TakesRate(c) ==
    /\ Understands(c) /\ mouse' \in MouseStates
    /\ mouse'.awaits = "command" /\ mouse'.rate = c /\ mouse'.knock = Knock(c)
    /\ mouse'.id = IF env.wheel /\ Knock(c) = 3 THEN WHEEL_ID ELSE mouse.id
    /\ mouse'.serial = mouse.serial /\ mouse'.reporting = mouse.reporting
    /\ mouse'.res = mouse.res /\ mouse'.scale = mouse.scale

TakesRes(c) ==
    /\ Understands(c) /\ mouse' \in MouseStates
    /\ mouse'.awaits = "command" /\ mouse'.res = c
    /\ mouse'.id = mouse.id /\ mouse'.reporting = mouse.reporting
    /\ mouse'.knock = mouse.knock /\ mouse'.rate = mouse.rate
    /\ mouse'.scale = mouse.scale /\ mouse'.serial = mouse.serial

TakesCommand(c) ==
    /\ Understands(c) /\ mouse' \in MouseStates
    /\ mouse'.awaits = IF c = SET_RATE THEN "rate" ELSE IF c = SET_RES THEN "res" ELSE "command"
    /\ mouse'.reporting = (mouse.reporting \/ c = ENABLE)
    /\ mouse'.scale = IF c = SCALE11 THEN 1 ELSE IF c = SCALE21 THEN 2 ELSE mouse.scale
    /\ mouse'.id = mouse.id /\ mouse'.knock = mouse.knock
    /\ mouse'.res = mouse.res /\ mouse'.rate = mouse.rate
    /\ mouse'.serial = mouse.serial

LEMMA AfterReset ==
    ASSUME mouse \in MouseStates, mouse' = After(RESET)
    PROVE  /\ mouse' \in MouseStates /\ mouse'.serial = mouse.serial
           /\ mouse'.id = MOUSE_ID /\ ~mouse'.reporting /\ mouse'.awaits = "command"
<1>1. mouse' = [id |-> 0, reporting |-> FALSE, awaits |-> "command", knock |-> 0,
                res |-> 2, rate |-> 100, scale |-> 1, serial |-> mouse.serial]
  BY DEF After, PoweredUp, MOUSE_ID
<1>2. mouse.serial \in Nat
  BY DEF MouseStates
<1> QED
  BY <1>1, <1>2 DEF MouseStates, MOUSE_ID, WHEEL_ID, Rates, Resolutions

LEMMA AfterRate ==
    ASSUME mouse \in MouseStates, mouse.awaits = "rate", NEW c \in Rates, mouse' = After(c)
    PROVE  TakesRate(c)
<1>1. c # RESET
  BY DEF RESET, Rates
<1>2. mouse' = [mouse EXCEPT !.awaits = "command", !.rate = c, !.knock = Knock(c),
                             !.id = IF env.wheel /\ Knock(c) = 3 THEN WHEEL_ID ELSE @]
  BY <1>1 DEF After
<1>3. Knock(c) \in 0..3
  BY DEF Knock
<1>4. mouse' \in MouseStates
  BY <1>2, <1>3 DEF MouseStates
<1> QED
  BY <1>2, <1>4 DEF TakesRate, MouseStates, Understands

LEMMA AfterRes ==
    ASSUME mouse \in MouseStates, mouse.awaits = "res", NEW c \in Resolutions, mouse' = After(c)
    PROVE  TakesRes(c)
<1>1. c # RESET
  BY DEF RESET, Resolutions
<1>2. mouse' = [mouse EXCEPT !.awaits = "command", !.res = c]
  BY <1>1 DEF After
<1> QED
  BY <1>2 DEF TakesRes, MouseStates, Understands

LEMMA AfterCommand ==
    ASSUME mouse \in MouseStates, mouse.awaits = "command", NEW c \in Commands,
           mouse' = After(c)
    PROVE  TakesCommand(c)
<1>1. c \in {243, 242, 232, 244, 230, 231}
  BY DEF Commands, SET_RATE, GET_ID, SET_RES, ENABLE, SCALE11, SCALE21
<1>2. mouse' = IF c = 243 THEN [mouse EXCEPT !.awaits = "rate"]
               ELSE IF c = 232 THEN [mouse EXCEPT !.awaits = "res"]
               ELSE IF c = 244 THEN [mouse EXCEPT !.reporting = TRUE]
               ELSE IF c = 230 THEN [mouse EXCEPT !.scale = 1]
               ELSE IF c = 231 THEN [mouse EXCEPT !.scale = 2]
               ELSE mouse
  BY <1>1 DEF After, RESET, SET_RATE, GET_ID, SET_RES, ENABLE, SCALE11, SCALE21
<1>3. Understands(c)
  BY DEF Understands
<1>4. mouse' \in MouseStates
  <2>1. CASE c = 243 \/ c = 232
    BY <1>2, <2>1 DEF MouseStates
  <2>2. CASE c = 244
    <3>1. mouse' = [mouse EXCEPT !.reporting = TRUE]
      BY <1>2, <2>2
    <3> QED
      BY <3>1 DEF MouseStates
  <2>3. CASE c = 230 \/ c = 231
    BY <1>2, <2>3 DEF MouseStates
  <2>4. CASE c = 242
    BY <1>2, <2>4
  <2> QED
    BY <1>1, <2>1, <2>2, <2>3, <2>4
<1>5. /\ mouse'.awaits = IF c = 243 THEN "rate" ELSE IF c = 232 THEN "res" ELSE "command"
      /\ mouse'.scale = IF c = 230 THEN 1 ELSE IF c = 231 THEN 2 ELSE mouse.scale
      /\ mouse'.id = mouse.id /\ mouse'.knock = mouse.knock
      /\ mouse'.res = mouse.res /\ mouse'.rate = mouse.rate
      /\ mouse'.serial = mouse.serial
  BY <1>1, <1>2 DEF MouseStates
<1>6. mouse'.reporting = (mouse.reporting \/ c = 244)
  <2>1. mouse.reporting \in BOOLEAN
    BY DEF MouseStates
  <2>2. CASE c = 244
    <3>1. mouse' = [mouse EXCEPT !.reporting = TRUE] /\ "reporting" \in DOMAIN mouse
      BY <1>2, <2>2 DEF MouseStates
    <3>2. mouse'.reporting = TRUE
      BY <3>1, Zenon
    <3> QED
      BY <2>1, <2>2, <3>2
  <2>3. CASE c # 244
    <3>1. mouse'.reporting = mouse.reporting
      BY <1>2, <2>3 DEF MouseStates
    <3> QED
      BY <2>1, <2>3, <3>1
  <2> QED
    BY <2>2, <2>3
<1> QED
  BY <1>3, <1>4, <1>5, <1>6 DEF TakesCommand, SET_RATE, SET_RES, ENABLE, SCALE11, SCALE21

(* An answer is made of acknowledgements and what the mouse knows of itself. *)
LEMMA AnswersTyped ==
    ASSUME Typed, NEW c, out' = Answer(c)
    PROVE  /\ out' \in Seq(Element) /\ Len(out') <= 4
           /\ mouse.id = MOUSE_ID => NoWheelIn(out')
<1>1. env.moves \in Nat /\ mouse.id \in {MOUSE_ID, WHEEL_ID}
  BY EnvOfCases DEF Typed, TypeOK, MouseStates
<1>2. \A v \in {ACK, BAT, MOUSE_ID, WHEEL_ID} : Raw(v) \in Element
  BY <1>1, BytesAreElements
<1>3. \/ out' = <<Raw(ACK), Raw(BAT), Raw(MOUSE_ID)>>
      \/ out' = <<Raw(ACK), Raw(mouse.id)>>
      \/ out' = <<Raw(ACK)>>
  BY DEF Answer
<1>4. CASE out' = <<Raw(ACK), Raw(BAT), Raw(MOUSE_ID)>>
  BY <1>2, <1>4 DEF NoWheelIn, Raw, ACK, BAT, MOUSE_ID, WHEEL_ID
<1>5. CASE out' = <<Raw(ACK), Raw(mouse.id)>>
  <2>1. Raw(ACK) \in Element /\ Raw(mouse.id) \in Element
    BY <1>1, <1>2
  <2> QED
    BY <1>5, <2>1 DEF NoWheelIn, Raw, ACK, MOUSE_ID, WHEEL_ID
<1>6. CASE out' = <<Raw(ACK)>>
  BY <1>2, <1>6 DEF NoWheelIn, Raw, ACK, WHEEL_ID
<1> QED
  BY <1>3, <1>4, <1>5, <1>6

-----------------------------------------------------------------------------
(* Whatever was going on, a reset starts again with a mouse that awaits a   *)
(* command.                                                                *)
LEMMA ResetKeeps ==
    ASSUME IInv, SendByte(RESET), state' = 0, UNCHANGED env
    PROVE  /\ mouse' \in MouseStates /\ mouse'.serial <= env'.moves
           /\ out' \in Seq(Element) /\ Len(out') <= 4
           /\ Told' /\ NeverConfused'
           /\ ~env.wheel => mouse'.id = MOUSE_ID /\ ~mouse'.reporting /\ NoWheelIn(out')
<1> env.moves \in Nat /\ env.wheel \in BOOLEAN
  BY EnvOfCases DEF IInv, Typed, TypeOK
<1>1. mouse' = After(RESET) /\ out' = Answer(RESET)
  BY DEF SendByte
<1>2. out' \in Seq(Element) /\ Len(out') <= 4
  BY <1>1, AnswersTyped DEF IInv
<1>3. /\ mouse' \in MouseStates /\ mouse'.serial = mouse.serial
      /\ mouse'.id = MOUSE_ID /\ ~mouse'.reporting /\ mouse'.awaits = "command"
  BY <1>1, AfterReset DEF IInv, Typed
<1>4. mouse'.serial <= env'.moves
  BY <1>3 DEF IInv, Typed
<1>5. Told'
  BY <1>3, TableSize DEF Told
<1>6. NeverConfused'
  BY DEF IInv, NeverConfused, SendByte, Understands
<1>7. NoWheelIn(out')
  BY <1>1 DEF Answer, NoWheelIn, Raw, ACK, BAT, MOUSE_ID, WHEEL_ID
<1> QED
  BY <1>2, <1>3, <1>4, <1>5, <1>6, <1>7

(* What a row sends is what the mouse awaits, and afterwards the mouse has  *)
(* been told what the next state says.                                     *)
LEMMA RowTells ==
    ASSUME mouse \in MouseStates, config \in Configs, Told, env.wheel \in BOOLEAN,
           state \in Again \cup {22, 24, 26, 28, 30, 32, 34, 38, 40, 42, 44, 46, 48},
           state' = state + 2, UNCHANGED <<env, config>>,
           mouse' = After(ToSend),
           ~env.wheel => mouse.id = MOUSE_ID /\ ~mouse.reporting /\ state # 48
    PROVE  /\ Understands(ToSend) /\ Told'
           /\ mouse' \in MouseStates /\ mouse'.serial = mouse.serial
           /\ ~env.wheel => mouse'.id = MOUSE_ID /\ ~mouse'.reporting
<1> USE TableSize
<1>1. CASE state \in Again
  <2>1. ToSend = RESET
    BY <1>1, Replies DEF ToSend, RESET, RES_VALUE, SCALE_VALUE, RATE_VALUE
  <2>2. /\ mouse' \in MouseStates /\ mouse'.serial = mouse.serial
        /\ mouse'.id = MOUSE_ID /\ ~mouse'.reporting /\ mouse'.awaits = "command"
    BY <2>1, AfterReset
  <2>3. Told'
    BY <1>1, <2>2 DEF Told, Again
  <2> QED
    BY <2>1, <2>2, <2>3 DEF Understands
<1>2. CASE state \in {22, 26, 30, 44}
  <2>1. ToSend = SET_RATE
    BY <1>2, Replies DEF ToSend, SET_RATE, RES_VALUE, SCALE_VALUE, RATE_VALUE
  <2>2. mouse.awaits = "command" /\ SET_RATE \in Commands
    BY <1>2 DEF Told, Commands
  <2>3. TakesCommand(SET_RATE)
    BY <2>1, <2>2, AfterCommand
  <2>4. Told'
    BY <1>2, <2>2, <2>3 DEF TakesCommand, Told, SET_RATE, GET_ID, SET_RES, ENABLE, SCALE11, SCALE21
  <2> QED
    BY <1>2, <2>1, <2>3, <2>4 DEF TakesCommand, SET_RATE, GET_ID, SET_RES, ENABLE, SCALE11, SCALE21
<1>3. CASE state = 24
  <2>1. ToSend = 200
    BY <1>3, Replies DEF ToSend, RES_VALUE, SCALE_VALUE, RATE_VALUE
  <2>2. mouse.awaits = "rate" /\ 200 \in Rates
    BY <1>3 DEF Told, Rates, Configs
  <2>3. TakesRate(200)
    BY <2>1, <2>2, AfterRate
  <2>4. Told'
    BY <1>3, <2>2, <2>3 DEF TakesRate, Told, Knock
  <2> QED
    BY <1>3, <2>1, <2>3, <2>4 DEF TakesRate, MouseStates, Knock
<1>4. CASE state = 28
  <2>1. ToSend = 100
    BY <1>4, Replies DEF ToSend, RES_VALUE, SCALE_VALUE, RATE_VALUE
  <2>2. mouse.awaits = "rate" /\ 100 \in Rates
    BY <1>4 DEF Told, Rates, Configs
  <2>3. TakesRate(100)
    BY <2>1, <2>2, AfterRate
  <2>4. Told'
    BY <1>4, <2>2, <2>3 DEF TakesRate, Told, Knock
  <2> QED
    BY <1>4, <2>1, <2>3, <2>4 DEF TakesRate, MouseStates, Knock
<1>5. CASE state = 32
  <2>1. ToSend = 80
    BY <1>5, Replies DEF ToSend, RES_VALUE, SCALE_VALUE, RATE_VALUE
  <2>2. mouse.awaits = "rate" /\ 80 \in Rates
    BY <1>5 DEF Told, Rates, Configs
  <2>3. TakesRate(80)
    BY <2>1, <2>2, AfterRate
  <2>4. Told'
    BY <1>5, <2>2, <2>3 DEF TakesRate, Told, Knock
  <2> QED
    BY <1>5, <2>1, <2>3, <2>4 DEF TakesRate, MouseStates, Knock
<1>6. CASE state = 34
  <2>1. ToSend = GET_ID
    BY <1>6, Replies DEF ToSend, GET_ID, RES_VALUE, SCALE_VALUE, RATE_VALUE
  <2>2. mouse.awaits = "command" /\ GET_ID \in Commands
    BY <1>6 DEF Told, Commands
  <2>3. TakesCommand(GET_ID)
    BY <2>1, <2>2, AfterCommand
  <2>4. Told'
    BY <1>6, <2>2, <2>3 DEF TakesCommand, Told, SET_RATE, GET_ID, SET_RES, ENABLE, SCALE11, SCALE21
  <2> QED
    BY <1>6, <2>1, <2>3, <2>4 DEF TakesCommand, SET_RATE, GET_ID, SET_RES, ENABLE, SCALE11, SCALE21
<1>7. CASE state = 38
  <2>1. ToSend = SET_RES
    BY <1>7, Replies DEF ToSend, SET_RES, RES_VALUE, SCALE_VALUE, RATE_VALUE
  <2>2. mouse.awaits = "command" /\ SET_RES \in Commands
    BY <1>7 DEF Told, Commands
  <2>3. TakesCommand(SET_RES)
    BY <2>1, <2>2, AfterCommand
  <2>4. Told'
    BY <1>7, <2>2, <2>3 DEF TakesCommand, Told, SET_RATE, GET_ID, SET_RES, ENABLE, SCALE11, SCALE21
  <2> QED
    BY <1>7, <2>1, <2>3, <2>4 DEF TakesCommand, SET_RATE, GET_ID, SET_RES, ENABLE, SCALE11, SCALE21
<1>8. CASE state = 40
  <2>1. ToSend = config.res
    BY <1>8, Replies DEF ToSend, RES_VALUE, SCALE_VALUE, RATE_VALUE
  <2>2. mouse.awaits = "res" /\ config.res \in Resolutions
    BY <1>8 DEF Told, Resolutions, Configs
  <2>3. TakesRes(config.res)
    BY <2>1, <2>2, AfterRes
  <2>4. Told'
    BY <1>8, <2>2, <2>3 DEF TakesRes, Told
  <2> QED
    BY <1>8, <2>1, <2>3, <2>4 DEF TakesRes, MouseStates, Knock
<1>9. CASE state = 42 /\ config.scale = 1
  <2>1. ToSend = SCALE11
    BY <1>9, Replies DEF ToSend, SCALE11, RES_VALUE, SCALE_VALUE, RATE_VALUE
  <2>2. mouse.awaits = "command" /\ SCALE11 \in Commands
    BY <1>9 DEF Told, Commands
  <2>3. TakesCommand(SCALE11)
    BY <2>1, <2>2, AfterCommand
  <2>4. Told'
    BY <1>9, <2>2, <2>3 DEF TakesCommand, Told, SET_RATE, GET_ID, SET_RES, ENABLE, SCALE11, SCALE21
  <2> QED
    BY <1>9, <2>1, <2>3, <2>4 DEF TakesCommand, SET_RATE, GET_ID, SET_RES, ENABLE, SCALE11, SCALE21
<1>10. CASE state = 42 /\ config.scale # 1
  <2>1. ToSend = SCALE21
    BY <1>10, Replies DEF ToSend, SCALE21, RES_VALUE, SCALE_VALUE, RATE_VALUE
  <2>2. mouse.awaits = "command" /\ SCALE21 \in Commands
    BY <1>10 DEF Told, Commands
  <2>3. TakesCommand(SCALE21)
    BY <2>1, <2>2, AfterCommand
  <2>4. Told'
    BY <1>10, <2>2, <2>3 DEF TakesCommand, Told, SET_RATE, GET_ID, SET_RES, ENABLE, SCALE11, SCALE21
  <2> QED
    BY <1>10, <2>1, <2>3, <2>4 DEF TakesCommand, SET_RATE, GET_ID, SET_RES, ENABLE, SCALE11, SCALE21
<1>11. CASE state = 46
  <2>1. ToSend = config.rate
    BY <1>11, Replies DEF ToSend, RES_VALUE, SCALE_VALUE, RATE_VALUE
  <2>2. mouse.awaits = "rate" /\ config.rate \in Rates
    BY <1>11 DEF Told, Rates, Configs
  <2>3. TakesRate(config.rate)
    BY <2>1, <2>2, AfterRate
  <2>4. Told'
    BY <1>11, <2>2, <2>3 DEF TakesRate, Told, Knock
  <2> QED
    BY <1>11, <2>1, <2>3, <2>4 DEF TakesRate, MouseStates, Knock
<1>12. CASE state = 48
  <2>1. ToSend = ENABLE
    BY <1>12, Replies DEF ToSend, ENABLE, RES_VALUE, SCALE_VALUE, RATE_VALUE
  <2>2. mouse.awaits = "command" /\ ENABLE \in Commands
    BY <1>12 DEF Told, Commands
  <2>3. TakesCommand(ENABLE)
    BY <2>1, <2>2, AfterCommand
  <2>4. Told'
    BY <1>12, <2>2, <2>3 DEF TakesCommand, Told, SET_RATE, GET_ID, SET_RES, ENABLE, SCALE11, SCALE21
  <2> QED
    BY <1>12, <2>1, <2>3, <2>4 DEF TakesCommand, SET_RATE, GET_ID, SET_RES, ENABLE, SCALE11, SCALE21
<1> QED
  BY <1>1, <1>2, <1>3, <1>4, <1>5, <1>6, <1>7, <1>8, <1>9, <1>10, <1>11, <1>12

(* A row of the table that answers: what is sent is what the mouse awaits,  *)
(* and it is told what the next state says it was told.                     *)
LEMMA AdvanceKeeps ==
    ASSUME IInv, Advance, UNCHANGED <<env, config>>
    PROVE  /\ mouse' \in MouseStates /\ mouse'.serial <= env'.moves
           /\ out' \in Seq(Element) /\ Len(out') <= 4
           /\ state' \in States /\ Told' /\ NeverConfused'
           /\ ~env.wheel => /\ state' \notin 40..52 /\ mouse'.id = MOUSE_ID
                            /\ ~mouse'.reporting /\ NoWheelIn(out')
<1> env.moves \in Nat /\ env.wheel \in BOOLEAN
  BY EnvOfCases DEF IInv, Typed, TypeOK
<1>1. state \in {s \in 0..50 : s % 2 = 0} /\ state' = state + 2
  <2>1. state \in States
    BY StatesOfFilter DEF IInv, Typed, TypeOK
  <2>2. state < 52 /\ state' = state + 2
    BY TableSize DEF Advance
  <2> QED
    BY <2>1, <2>2 DEF States
<1>2. /\ mouse \in MouseStates /\ mouse.serial <= env.moves /\ config \in Configs
      /\ out \in Seq(Element) /\ Len(out) <= 4
  BY DEF IInv, Typed, TypeOK
<1>3. Told /\ ~confused /\ StopsAtId
  BY DEF IInv, NeverConfused
<1>4. ~env.wheel => state # 38
  <2>1. ~env.wheel => scancode.val # WHEEL_ID
    BY <1>3 DEF StopsAtId
  <2>2. state = 38 => scancode.val = WHEEL_ID
    BY Replies DEF Advance, Accepts, WHEEL_ID, ACK
  <2> QED
    BY <2>1, <2>2
<1>5. ~env.wheel => state' \notin 40..52
  BY <1>1, <1>3, <1>4 DEF StopsAtId
<1>6. state' \in States
  BY <1>1 DEF States
<1>7. CASE state \in Silent
  <2>1. UNCHANGED device
    BY <1>7, Replies DEF Advance
  <2>2. Told'
    BY <1>1, <1>3, <1>7, <2>1, TableSize DEF Told, Silent, device
  <2> QED
    BY <1>2, <1>3, <1>5, <1>6, <2>1, <2>2 DEF device, StopsAtId, NeverConfused, NoWheelIn
<1>8. CASE state \notin Silent
  <2>1. Reply(state) > 0 /\ SendByte(ToSend)
    BY <1>1, <1>8, Replies DEF Advance, Silent, Again, RESET, SET_RATE, GET_ID, SET_RES, RES_VALUE,
       SCALE_VALUE, RATE_VALUE, ENABLE
  <2>2. /\ mouse' = After(ToSend) /\ out' = Answer(ToSend)
        /\ confused' = (confused \/ ~Understands(ToSend))
    BY <2>1 DEF SendByte
  <2>3. state \in Again \cup {22, 24, 26, 28, 30, 32, 34, 38, 40, 42, 44, 46, 48}
    BY <1>1, <1>8 DEF Silent, Again
  <2>4. /\ Understands(ToSend) /\ Told'
        /\ mouse' \in MouseStates /\ mouse'.serial = mouse.serial
        /\ ~env.wheel => mouse'.id = MOUSE_ID /\ ~mouse'.reporting
    <3>1. ~env.wheel => mouse.id = MOUSE_ID /\ ~mouse.reporting /\ state # 48
      BY <1>3 DEF StopsAtId
    <3> QED
      BY <1>1, <1>2, <1>3, <2>2, <2>3, <3>1, RowTells
  <2>5. /\ out' \in Seq(Element) /\ Len(out') <= 4
        /\ ~env.wheel => NoWheelIn(out')
    BY <1>3, <2>2, AnswersTyped DEF IInv, StopsAtId
  <2> QED
    BY <1>2, <1>3, <1>5, <1>6, <2>2, <2>4, <2>5 DEF NeverConfused
<1> QED
  BY <1>7, <1>8

-----------------------------------------------------------------------------
(* Bytes that come, and bytes that go. *)

LEMMA AppendedTyped ==
    ASSUME NEW seq \in Seq(Element), NEW b \in Element
    PROVE  /\ Append(seq, b) \in Seq(Element) /\ Len(Append(seq, b)) = Len(seq) + 1
           /\ NoWheelIn(seq) /\ b.val # WHEEL_ID => NoWheelIn(Append(seq, b))
<1>1. Append(seq, b) \in Seq(Element) /\ Len(Append(seq, b)) = Len(seq) + 1
  OBVIOUS
<1>2. \A i \in 1..Len(seq) + 1 :
         Append(seq, b)[i] = IF i = Len(seq) + 1 THEN b ELSE seq[i]
  OBVIOUS
<1> QED
  BY <1>1, <1>2 DEF NoWheelIn

LEMMA FirstTyped ==
    ASSUME NEW seq \in Seq(Element), seq # <<>>
    PROVE  /\ Head(seq) \in Element /\ Tail(seq) \in Seq(Element)
           /\ Len(Tail(seq)) = Len(seq) - 1
           /\ NoWheelIn(seq) => Head(seq).val # WHEEL_ID /\ NoWheelIn(Tail(seq))
<1>1. Len(seq) \in Nat /\ Len(seq) > 0
  OBVIOUS
<1>2. Head(seq) = seq[1] /\ \A i \in 1..Len(seq) - 1 : Tail(seq)[i] = seq[i + 1]
  BY <1>1
<1>3. Head(seq) \in Element /\ Tail(seq) \in Seq(Element) /\ Len(Tail(seq)) = Len(seq) - 1
  BY <1>1, <1>2
<1> QED
  BY <1>1, <1>2, <1>3 DEF NoWheelIn

LEMMA DeliverKeeps ==
    ASSUME IInv, Deliver, UNCHANGED env
    PROVE  IInv'
<1>1. out \in Seq(Element) /\ out # <<>> /\ Len(out) <= 4 /\ ring \in Seq(Element)
      /\ Len(ring) <= RingSize /\ RingSize \in Nat
  BY ConstantsAssumption DEF IInv, Typed, TypeOK, Deliver
<1>2. /\ Head(out) \in Element /\ out' \in Seq(Element) /\ Len(out') <= 4
      /\ NoWheelIn(out) => Head(out).val # WHEEL_ID /\ NoWheelIn(out')
  BY <1>1, FirstTyped DEF Deliver
<1>3. /\ ring' \in Seq(Element) /\ Len(ring') <= RingSize /\ lost' \in BOOLEAN
      /\ NoWheelIn(ring) /\ Head(out).val # WHEEL_ID => NoWheelIn(ring')
  <2>1. CASE Len(ring) < RingSize
    <3>1. ring' = Append(ring, Head(out)) /\ lost' = lost
      BY <2>1 DEF Deliver
    <3>2. lost \in BOOLEAN
      BY DEF IInv, Typed, TypeOK
    <3>3. /\ ring' \in Seq(Element) /\ Len(ring') = Len(ring) + 1
          /\ NoWheelIn(ring) /\ Head(out).val # WHEEL_ID => NoWheelIn(ring')
      BY <1>1, <1>2, <3>1, AppendedTyped
    <3> QED
      BY <1>1, <2>1, <3>1, <3>2, <3>3
  <2>2. CASE ~(Len(ring) < RingSize)
    BY <1>1, <2>2 DEF Deliver
  <2> QED
    BY <2>1, <2>2
<1>4. UNCHANGED <<env, main, filter, config, mouse, torn, confused>>
  BY DEF Deliver
<1>5. Element' = Element
  BY DEF Element
<1>6. TypeOK'
  BY <1>2, <1>3, <1>4, <1>5 DEF IInv, Typed, TypeOK, main, filter
<1>7. Told' /\ NeverConfused'
  BY <1>4 DEF IInv, Told, NeverConfused, filter
<1>8. StopsAtId'
  BY <1>2, <1>3, <1>4 DEF IInv, StopsAtId, NoWheelIn, filter, main
<1> QED
  BY <1>4, <1>6, <1>7, <1>8 DEF IInv, Typed

LEMMA MoveKeeps ==
    ASSUME IInv, Move, UNCHANGED env
    PROVE  IInv'
<1>1. PICK v \in Moves : out' = Movement(v)
  BY DEF Move
<1>2. /\ mouse \in MouseStates /\ mouse.serial < env.moves /\ mouse.reporting
      /\ env.moves \in Nat /\ mouse' = [mouse EXCEPT !.serial = @ + 1]
  BY EnvOfCases DEF Move, IInv, Typed, TypeOK
<1>3. /\ mouse' \in MouseStates /\ mouse'.serial <= env.moves
      /\ mouse'.id = mouse.id /\ mouse'.reporting = mouse.reporting
      /\ mouse'.awaits = mouse.awaits /\ mouse'.knock = mouse.knock
      /\ mouse'.res = mouse.res /\ mouse'.rate = mouse.rate /\ mouse'.scale = mouse.scale
  <2>1. mouse.serial \in Nat /\ mouse.serial + 1 \in Nat
    BY <1>2 DEF MouseStates
  <2>2. mouse' = [mouse EXCEPT !.serial = mouse.serial + 1]
    BY <1>2
  <2>3. mouse' \in MouseStates
    BY <1>2, <2>1, <2>2 DEF MouseStates
  <2>4. /\ mouse'.serial = mouse.serial + 1
        /\ mouse'.id = mouse.id /\ mouse'.reporting = mouse.reporting
        /\ mouse'.awaits = mouse.awaits /\ mouse'.knock = mouse.knock
        /\ mouse'.res = mouse.res /\ mouse'.rate = mouse.rate /\ mouse'.scale = mouse.scale
    BY <1>2, <2>2 DEF MouseStates
  <2>5. mouse'.serial <= env.moves
    BY <1>2, <2>1, <2>4
  <2> QED
    BY <2>3, <2>4, <2>5
<1>4. env.wheel
  BY <1>2 DEF IInv, StopsAtId, Typed, TypeOK
<1>5. out' \in Seq(Element) /\ Len(out') <= 4
  <2>1. v \in 0..255
    BY <1>1, ConstantsAssumption
  <2>2. \A i \in 1..4 :
           [val |-> IF i = 1 THEN 8 ELSE v, part |-> i, of |-> mouse.serial] \in Element
    BY <1>2, <2>1 DEF Element, MouseStates
  <2> DEFINE n == IF mouse.id = WHEEL_ID THEN 4 ELSE 3
             P == [i \in 1..n |->
                      [val |-> IF i = 1 THEN 8 ELSE v, part |-> i, of |-> mouse.serial]]
  <2>3. n \in {3, 4} /\ P = out'
    BY <1>1 DEF Movement
  <2>4. P \in [1..n -> Element]
    BY <2>2, <2>3
  <2>5. P \in Seq(Element) /\ Len(P) = n
    BY <2>3, <2>4
  <2> QED
    BY <2>3, <2>5
<1>6. UNCHANGED <<env, main, filter, config, ring, lost, torn, confused>>
  BY DEF Move
<1>7. Element' = Element
  BY DEF Element
<1>8. TypeOK'
  BY <1>5, <1>6, <1>7 DEF IInv, Typed, TypeOK, main, filter
<1>9. Told' /\ NeverConfused' /\ StopsAtId'
  BY <1>3, <1>4, <1>6 DEF IInv, Told, NeverConfused, StopsAtId, filter
<1> QED
  BY <1>3, <1>6, <1>8, <1>9 DEF IInv, Typed

(* A reset with the settings of the driver, default or new.                 *)
LEMMA RestartKeeps ==
    ASSUME IInv, ResetState, config' \in Configs, UNCHANGED <<env, packet, ring>>,
           scancode' \in {scancode, NoByte},
           pc' \in {"boot", "kb", "ms", "filter"}, retry' \in 0..5, lost' \in BOOLEAN,
           torn' \in BOOLEAN
    PROVE  IInv'
<1>1. SendByte(RESET) /\ state' = 0
  BY DEF ResetState
<1>2. /\ mouse' \in MouseStates /\ mouse'.serial <= env'.moves
      /\ out' \in Seq(Element) /\ Len(out') <= 4
      /\ Told' /\ NeverConfused'
      /\ ~env.wheel => mouse'.id = MOUSE_ID /\ ~mouse'.reporting /\ NoWheelIn(out')
  BY <1>1, ResetKeeps
<1>3. Element' = Element
  BY DEF Element
<1>4. state' \in {s \in 0..Size : s % 2 = 0} \cup {Error}
  BY <1>1, TableSize
<1>5. confused' \in BOOLEAN
  BY <1>1, Zenon DEF SendByte
<1>6. scancode' \in Element /\ (scancode'.val = WHEEL_ID => scancode.val = WHEEL_ID)
  BY EnvOfCases, BytesAreElements DEF IInv, Typed, TypeOK, NoByte, Raw, WHEEL_ID
<1>7. TypeOK'
  BY <1>2, <1>3, <1>4, <1>5, <1>6 DEF IInv, Typed, TypeOK
<1>8. StopsAtId'
  BY <1>1, <1>2, <1>6 DEF IInv, StopsAtId, NoWheelIn
<1> QED
  BY <1>2, <1>7, <1>8 DEF IInv, Typed

(* The main loop between two bytes. *)
LEMMA LoopKeeps ==
    ASSUME IInv, Boot \/ KbTask \/ Poll, UNCHANGED env
    PROVE  IInv'
<1>1. SetMouseDefault \in Configs
  BY DEF SetMouseDefault, Configs, Resolutions, Rates
<1>2. /\ config \in Configs /\ retry \in 0..5 /\ lost \in BOOLEAN /\ torn \in BOOLEAN
  BY DEF IInv, Typed, TypeOK
<1>3. Element' = Element
  BY DEF Element
<1>4. CASE Boot
  BY <1>1, <1>2, <1>4, RestartKeeps DEF Boot, MS_MouseReset
<1>5. CASE KbTask
  <2>1. CASE MS_MouseReset
    BY <1>1, <1>2, <1>5, <2>1, RestartKeeps DEF KbTask, MS_MouseReset
  <2>2. ASSUME NEW r \in Requests, MS_Set(r.setting, r.value) PROVE IInv'
    <3>1. config' = [config EXCEPT ![r.setting] = r.value]
      BY <2>2 DEF MS_Set
    <3>2. config' \in Configs
      BY <1>2, <3>1, ConstantsAssumption DEF Configs
    <3> QED
      BY <1>2, <1>5, <2>2, <3>2, RestartKeeps DEF KbTask, MS_Set
  <2>3. CASE UNCHANGED <<filter, device, config, ring, requests, lost, torn>>
    <3>1. pc' \in {"boot", "kb", "ms", "filter"} /\ UNCHANGED <<env, scancode>>
      BY <1>5 DEF KbTask
    <3>2. TypeOK'
      BY <1>3, <2>3, <3>1 DEF IInv, Typed, TypeOK, filter, device
    <3>3. Told' /\ StopsAtId' /\ NeverConfused'
      BY <2>3, <3>1 DEF IInv, Told, StopsAtId, NoWheelIn, NeverConfused, filter, device
    <3> QED
      BY <2>3, <3>1, <3>2, <3>3 DEF IInv, Typed, device
  <2> QED
    BY <1>5, <2>1, <2>2, <2>3 DEF KbTask
<1>6. CASE Poll
  <2>1. UNCHANGED <<env, filter, device, config, requests, lost, torn>>
    BY <1>6 DEF Poll
  <2>2. ring \in Seq(Element) /\ Len(ring) <= RingSize /\ scancode \in Element /\ RingSize \in Nat
    BY ConstantsAssumption DEF IInv, Typed, TypeOK
  <2>3. /\ ring' \in Seq(Element) /\ Len(ring') <= RingSize /\ scancode' \in Element
        /\ pc' \in {"boot", "kb", "ms", "filter"}
        /\ NoWheelIn(ring) /\ scancode.val # WHEEL_ID =>
               NoWheelIn(ring') /\ scancode'.val # WHEEL_ID
    <3>1. CASE ring = <<>>
      BY <1>6, <2>2, <3>1 DEF Poll
    <3>2. CASE ring # <<>>
      <4>1. pc' = "filter" /\ scancode' = Head(ring) /\ ring' = Tail(ring)
        BY <1>6, <3>2 DEF Poll
      <4>2. /\ Head(ring) \in Element /\ Tail(ring) \in Seq(Element)
            /\ Len(Tail(ring)) = Len(ring) - 1 /\ Len(ring) \in Nat
            /\ NoWheelIn(ring) => Head(ring).val # WHEEL_ID /\ NoWheelIn(Tail(ring))
        BY <2>2, <3>2, FirstTyped
      <4> QED
        BY <2>2, <4>1, <4>2
    <3> QED
      BY <3>1, <3>2
  <2>4. TypeOK'
    BY <1>3, <2>1, <2>3 DEF IInv, Typed, TypeOK, filter, device
  <2>5. Told' /\ NeverConfused'
    BY <2>1 DEF IInv, Told, NeverConfused, filter, device
  <2>6. StopsAtId'
    BY <2>1, <2>3 DEF IInv, StopsAtId, NoWheelIn, filter, device
  <2> QED
    BY <2>1, <2>4, <2>5, <2>6 DEF IInv, Typed, device
<1> QED
  BY <1>4, <1>5, <1>6

(* EventFilter, an outcome at a time. *)
LEMMA FilterKeeps ==
    ASSUME IInv, EventFilter, UNCHANGED env
    PROVE  IInv'
<1>1. /\ pc' = "ms" /\ scancode' = NoByte /\ UNCHANGED <<config, ring, requests, lost>>
  BY DEF EventFilter
<1>2. /\ config \in Configs /\ retry \in 0..5 /\ lost \in BOOLEAN /\ torn \in BOOLEAN
      /\ env.moves \in Nat /\ scancode \in Element /\ confused \in BOOLEAN
      /\ packet \in Seq(Element) /\ Len(packet) < 4
  BY EnvOfCases DEF IInv, Typed, TypeOK
<1>3. NoByte \in Element /\ NoByte.val # WHEEL_ID
  BY <1>2, BytesAreElements DEF NoByte, Raw, WHEEL_ID
<1>4. Element' = Element
  BY DEF Element
<1>5. CASE Advance
  <2>1. UNCHANGED <<env, config, retry, packet, torn>>
    BY <1>1, <1>5 DEF Advance
  <2>2. /\ mouse' \in MouseStates /\ mouse'.serial <= env'.moves
        /\ out' \in Seq(Element) /\ Len(out') <= 4
        /\ state' \in States /\ Told' /\ NeverConfused'
        /\ ~env.wheel => /\ state' \notin 40..52 /\ mouse'.id = MOUSE_ID
                         /\ ~mouse'.reporting /\ NoWheelIn(out')
    BY <1>5, <2>1, AdvanceKeeps
  <2>3. confused' \in BOOLEAN
    <3>1. CASE UNCHANGED device
      BY <1>2, <3>1 DEF device
    <3>2. CASE SendByte(ToSend)
      BY <3>2, Zenon DEF SendByte
    <3> QED
      BY <1>5, <3>1, <3>2 DEF Advance
  <2>4. TypeOK'
    <3>1. state' \in {s \in 0..Size : s % 2 = 0} \cup {Error}
      BY <2>2, TableSize DEF States
    <3> QED
      BY <1>1, <1>3, <1>4, <2>1, <2>2, <2>3, <3>1 DEF IInv, Typed, TypeOK
  <2>5. StopsAtId'
    BY <1>1, <1>3, <2>1, <2>2 DEF IInv, StopsAtId, NoWheelIn
  <2> QED
    BY <1>1, <1>2, <2>2, <2>4, <2>5 DEF IInv, Typed
<1>6. CASE Retry
  <2>1. retry' \in 0..5
    BY <1>2, <1>6 DEF Retry, RetriesLeft
  <2> QED
    BY <1>1, <1>2, <1>6, <2>1, RestartKeeps DEF Retry
<1>7. CASE GiveUp
  <2>1. UNCHANGED <<packet, torn, mouse, out, confused>> /\ state' = Error /\ retry' = 0
    BY <1>7 DEF GiveUp, device
  <2>2. TypeOK'
    BY <1>1, <1>3, <1>4, <2>1 DEF IInv, Typed, TypeOK
  <2>3. Told' /\ NeverConfused'
    BY <1>1, <2>1, TableSize DEF IInv, Told, NeverConfused
  <2>4. StopsAtId'
    BY <1>1, <1>3, <2>1, TableSize DEF IInv, StopsAtId, NoWheelIn
  <2> QED
    BY <1>1, <1>2, <2>1, <2>2, <2>3, <2>4 DEF IInv, Typed
<1>8. CASE Skip \/ Gather
  <2>1. UNCHANGED <<env, state, mouse, out, confused>>
    BY <1>8 DEF Skip, Gather, device, filter
  <2>2. /\ packet' \in Seq(Element) /\ Len(packet') < 4
        /\ torn' \in BOOLEAN /\ retry' \in 0..5
    <3>1. CASE Skip
      BY <1>2, <3>1 DEF Skip, filter
    <3>2. CASE Gather
      <4>1. CASE PacketFull(Append(packet, scancode))
        <5>1. torn' = (torn \/ ~Whole(Append(packet, scancode))) /\ packet' = <<>>
          BY <3>2, <4>1 DEF Gather
        <5>2. torn' \in BOOLEAN
          BY <5>1, Zenon
        <5> QED
          BY <3>2, <5>1, <5>2 DEF Gather
      <4>2. CASE ~PacketFull(Append(packet, scancode))
        <5>1. packet' = Append(packet, scancode) /\ torn' = torn /\ retry' = 0
          BY <3>2, <4>2 DEF Gather
        <5>2. /\ Append(packet, scancode) \in Seq(Element)
              /\ Len(Append(packet, scancode)) = Len(packet) + 1
          BY <1>2, AppendedTyped
        <5> QED
          BY <1>2, <4>2, <5>1, <5>2 DEF PacketFull
      <4> QED
        BY <4>1, <4>2
    <3> QED
      BY <1>8, <3>1, <3>2
  <2>3. TypeOK'
    BY <1>1, <1>3, <1>4, <2>1, <2>2 DEF IInv, Typed, TypeOK
  <2>4. Told' /\ NeverConfused' /\ StopsAtId'
    BY <1>1, <1>3, <2>1 DEF IInv, Told, NeverConfused, StopsAtId, NoWheelIn
  <2> QED
    BY <1>1, <1>2, <2>1, <2>3, <2>4 DEF IInv, Typed
<1> QED
  BY <1>5, <1>6, <1>7, <1>8 DEF EventFilter

LEMMA NextIInv == IInv /\ [Next]_vars => IInv'
<1> SUFFICES ASSUME IInv, [Next]_vars PROVE IInv'
  OBVIOUS
<1>1. CASE Next
  <2>1. UNCHANGED env
    BY <1>1 DEF Next
  <2>2. CASE Boot \/ KbTask \/ Poll
    BY <2>1, <2>2, LoopKeeps
  <2>3. CASE EventFilter
    BY <2>1, <2>3, FilterKeeps
  <2>4. CASE Deliver
    BY <2>1, <2>4, DeliverKeeps
  <2>5. CASE Move
    BY <2>1, <2>5, MoveKeeps
  <2> QED
    BY <1>1, <2>2, <2>3, <2>4, <2>5 DEF Next, MainLoop
<1>2. CASE UNCHANGED vars
  <2>1. Element' = Element
    BY <1>2 DEF Element, vars
  <2>2. TypeOK'
    BY <1>2, <2>1 DEF IInv, Typed, TypeOK, vars
  <2> QED
    BY <1>2, <2>2 DEF IInv, Typed, Told, StopsAtId, NoWheelIn, NeverConfused, vars
<1> QED
  BY <1>1, <1>2

LEMMA Invariance == Spec => []IInv
<1> QED
  BY InitIInv, NextIInv, PTL DEF Spec

-----------------------------------------------------------------------------
(* The ring, the packet gathered so far, the state of the filter and its    *)
(* retries stay in range, for every ring and whatever the bytes are.        *)
THEOREM TypeCorrect == Spec => []TypeOK
<1>1. IInv => TypeOK
  BY DEF IInv, Typed
<1> QED
  BY <1>1, Invariance, PTL

(* The state table never sends the mouse a command where it awaits an       *)
(* argument or the other way round, whatever stale, lost or mistaken bytes  *)
(* moved the filter on, and wherever it was reset.                         *)
THEOREM AlwaysUnderstood == Spec => []NeverConfused
<1>1. IInv => NeverConfused
  BY DEF IInv
<1> QED
  BY <1>1, Invariance, PTL

(* In the streaming state the mouse is a wheel mouse, was told to report,   *)
(* and has the settings of ms_config: stale bytes cannot walk the filter    *)
(* there without the commands.                                             *)
THEOREM StreamsOnlyWhenConfigured == Spec => []StreamingMeansConfigured
<1>1. IInv => StreamingMeansConfigured
  <2> SUFFICES ASSUME IInv, state = Streaming PROVE StreamingMeansConfigured
    BY DEF StreamingMeansConfigured
  <2>1. state = 52 /\ env.wheel \in BOOLEAN
    BY TableSize, EnvOfCases DEF IInv, Typed, TypeOK
  <2>2. env.wheel
    BY <2>1 DEF IInv, StopsAtId
  <2> QED
    BY <2>1, <2>2 DEF IInv, Told, StreamingMeansConfigured
<1> QED
  BY <1>1, Invariance, PTL

-----------------------------------------------------------------------------
(* A main loop that keeps up.  Then at most one byte is in hand, in the      *)
(* ring or at EventFilter, and the filter waits for what the mouse says: it  *)
(* is in step, or late by a byte that came before the last reset, or by two  *)
(* that came before the first.                                              *)

Banner == <<Raw(ACK), Raw(BAT), Raw(MOUSE_ID)>>

(* What the mouse has to say to a filter in state s: the first byte, and the *)
(* rest.                                                                    *)
First(s) == Raw(IF s = 38 THEN mouse.id ELSE Target(s))

Rest(s) == IF s \in {0, 6, 12, 18} THEN <<Raw(BAT), Raw(MOUSE_ID)>>
           ELSE IF s \in {2, 8, 14, 20} THEN <<Raw(MOUSE_ID)>>
           ELSE IF s = 36 THEN <<Raw(mouse.id)>>
           ELSE <<>>

Say(s) == IF s \in {0, 6, 12, 18} THEN Banner
          ELSE IF s \in {2, 8, 14, 20} THEN <<Raw(BAT), Raw(MOUSE_ID)>>
          ELSE IF s = 36 THEN <<Raw(ACK), Raw(mouse.id)>>
          ELSE <<First(s)>>

OneAtATime == IF pc = "filter" THEN ring = <<>> ELSE Len(ring) <= 1
Holding == pc = "filter" \/ ring # <<>>
Hand == IF pc = "filter" THEN scancode ELSE ring[1]

NoAnswer(byte) == byte.val \notin {ACK, 244}

Booting ==
    /\ pc = "boot" /\ state = 2 /\ retry = 0 /\ requests = 0
    /\ \/ ring = <<>> /\ out = <<Raw(BAT), Raw(MOUSE_ID)>>
       \/ ring # <<>> /\ NoAnswer(ring[1]) /\ Len(ring) <= 1 /\ out = <<Raw(MOUSE_ID)>>
       \/ ring # <<>> /\ NoAnswer(ring[1]) /\ Len(ring) <= 2 /\ out = <<>>

InStep ==
    /\ state \in 0..50 /\ OneAtATime
    /\ IF Holding THEN Hand = First(state) /\ (state # 50 => out = Rest(state))
                  ELSE out = Say(state)

Late ==
    /\ OneAtATime
    /\ \/ state = 0 /\ Holding /\ out = Banner
       \/ state = 2 /\ ~Holding /\ out = Banner
       \/ state = 2 /\ Holding /\ Hand = Raw(ACK) /\ out = Say(2)

VeryLate ==
    /\ state = 0 /\ out = Banner /\ retry = 0
    /\ \/ pc = "filter" /\ NoAnswer(scancode) /\ Len(ring) <= 1
       \/ pc # "filter" /\ ring # <<>> /\ NoAnswer(ring[1]) /\ Len(ring) <= 2

Done == state \in {52, 255} /\ OneAtATime

Timely == env.prompt => Booting \/ (pc # "boot" /\ (InStep \/ Late \/ VeryLate \/ Done))

(* The mouse reports only when it has been told to.                         *)
Unreported == state \in 0..48 => ~mouse.reporting

(* Each late byte costs one retry, and each request makes one byte late.     *)
Accounted ==
    /\ requests \in Nat
    /\ env.prompt => /\ env.wheel => /\ retry <= 2 + requests
                                     /\ Late => retry <= 1 + requests
                                     /\ requests <= 3 => state # 255
                     /\ requests = 0 /\ Late => retry <= 1

(* The bytes of the packets stand in line: gathered, in hand, to be sent.    *)
Held == IF state = 52 /\ Holding THEN 1 ELSE 0
Line == Len(packet) + Held + Len(out)
At(i) == IF i <= Len(packet) THEN packet[i]
         ELSE IF i <= Len(packet) + Held THEN Hand
         ELSE out[i - Len(packet) - Held]

Framed ==
    /\ Line % 4 = 0
    /\ \A i \in 1..Line : IF i % 4 = 1 THEN At(i).part = 1 /\ At(i).val = 8
                          ELSE At(i).part = At(i - 1).part + 1 /\ At(i).of = At(i - 1).of

(* As long as nothing was asked for, the line is cut where packets end.      *)
Uncut ==
    env.prompt /\ requests = 0 =>
        /\ ~torn
        /\ state # 52 => packet = <<>>
        /\ state = 255 => ~env.wheel /\ ~Holding /\ out = <<>>
        /\ state = 52 \/ (state = 50 /\ Holding) => Framed

PInv == Timely /\ Unreported /\ Accounted /\ Uncut

-----------------------------------------------------------------------------
(* Short sequences.                                                         *)
LEMMA Firsts ==
    ASSUME NEW S, NEW a \in S, NEW b \in S, NEW c \in S
    PROVE  /\ Head(<<a>>) = a /\ Tail(<<a>>) = <<>>
           /\ Head(<<a, b>>) = a /\ Tail(<<a, b>>) = <<b>>
           /\ Head(<<a, b, c>>) = a /\ Tail(<<a, b, c>>) = <<b, c>>
           /\ <<a>> # <<>> /\ <<a, b>> # <<>> /\ <<a, b, c>> # <<>>
  OBVIOUS

LEMMA OneOnly ==
    ASSUME NEW S, NEW seq \in Seq(S), seq # <<>>
    PROVE  /\ Head(seq) = seq[1] /\ seq[1] \in S /\ Tail(seq) \in Seq(S)
           /\ Len(seq) <= 1 => Tail(seq) = <<>>
           /\ Len(Tail(seq)) = Len(seq) - 1 /\ Len(seq) > 0 /\ Len(seq) \in Nat
<1>1. Len(seq) \in Nat /\ Len(seq) > 0
  OBVIOUS
<1>2. Head(seq) = seq[1] /\ seq[1] \in S /\ Tail(seq) \in Seq(S) /\ Len(Tail(seq)) = Len(seq) - 1
  BY <1>1
<1>3. ASSUME Len(seq) <= 1 PROVE Tail(seq) = <<>>
  BY <1>1, <1>2, <1>3
<1> QED
  BY <1>1, <1>2, <1>3

LEMMA BytesDiffer ==
    /\ Raw(ACK).val = 250 /\ Raw(BAT).val = 170 /\ Raw(MOUSE_ID).val = 0
    /\ NoAnswer(Raw(BAT)) /\ ~NoAnswer(Raw(ACK))
  BY DEF Raw, ACK, BAT, MOUSE_ID, NoAnswer

-----------------------------------------------------------------------------
(* The table once more: what a row expects is what the mouse says first, and *)
(* a row that answers nothing leaves the mouse with the rest to say.         *)
Even == {s \in 0..50 : s % 2 = 0}

LEMMA Targets ==
    /\ \A s \in {2, 8, 14, 20} : Target(s) = BAT
    /\ \A s \in {4, 10, 16, 22} : Target(s) = MOUSE_ID
    /\ Target(38) = WHEEL_ID
    /\ \A s \in Even \ {2, 4, 8, 10, 14, 16, 20, 22, 38} : Target(s) = ACK
<1>1. \A s \in {2, 8, 14, 20} : Target(s) = BAT
  BY DEF Target, ms_state_table
<1>2. \A s \in {4, 10, 16, 22} : Target(s) = MOUSE_ID
  BY DEF Target, ms_state_table
<1>3. Target(38) = WHEEL_ID
  BY DEF Target, ms_state_table
<1>4. \A s \in {0, 6, 12, 18, 24, 26, 28, 30} : Target(s) = ACK
  BY DEF Target, ms_state_table
<1>5. \A s \in {32, 34, 36, 40, 42, 44, 46, 48, 50} : Target(s) = ACK
  BY DEF Target, ms_state_table
<1>6. Even \ {2, 4, 8, 10, 14, 16, 20, 22, 38}
        = {0, 6, 12, 18, 24, 26, 28, 30} \cup {32, 34, 36, 40, 42, 44, 46, 48, 50}
  BY DEF Even
<1> QED
  BY <1>1, <1>2, <1>3, <1>4, <1>5, <1>6

LEMMA SaysFirst ==
    ASSUME NEW s \in Even, mouse.id \in {MOUSE_ID, WHEEL_ID}
    PROVE  Say(s) # <<>> /\ Head(Say(s)) = First(s) /\ Tail(Say(s)) = Rest(s)
<1>1. CASE s \in {0, 6, 12, 18}
  <2>1. First(s) = Raw(ACK) /\ Say(s) = Banner /\ Rest(s) = <<Raw(BAT), Raw(MOUSE_ID)>>
    BY <1>1, Targets DEF First, Say, Rest, Even
  <2> QED
    BY <2>1, Firsts DEF Banner
<1>2. CASE s \in {2, 8, 14, 20}
  <2>1. /\ First(s) = Raw(BAT) /\ Say(s) = <<Raw(BAT), Raw(MOUSE_ID)>>
        /\ Rest(s) = <<Raw(MOUSE_ID)>>
    BY <1>2, Targets DEF First, Say, Rest
  <2> QED
    BY <2>1, Firsts
<1>3. CASE s = 36
  <2>1. First(s) = Raw(ACK)
    BY <1>3, Targets DEF First, Even
  <2>2. Say(s) = <<Raw(ACK), Raw(mouse.id)>> /\ Rest(s) = <<Raw(mouse.id)>>
    BY <1>3 DEF Say, Rest
  <2> QED
    BY <2>1, <2>2, Firsts
<1>4. CASE s \notin {0, 6, 12, 18} \cup {2, 8, 14, 20} \cup {36}
  <2>1. Say(s) = <<First(s)>> /\ Rest(s) = <<>>
    BY <1>4 DEF Say, Rest
  <2> QED
    BY <2>1, Firsts
<1> QED
  BY <1>1, <1>2, <1>3, <1>4

(* EventFilter accepts what it waits for, but for the id of a mouse without  *)
(* a wheel.                                                                 *)
LEMMA AcceptsFirst ==
    ASSUME state \in Even, scancode = First(state)
    PROVE  Accepts(scancode.val) <=> (state = 38 => mouse.id = WHEEL_ID)
<1>1. CASE state = 38
  BY <1>1, Targets DEF Accepts, First, Raw, ACK, WHEEL_ID
<1>2. CASE state # 38
  BY <1>2 DEF Accepts, First, Raw
<1> QED
  BY <1>1, <1>2

(* After a row has been worked off the mouse has to say what the next row    *)
(* waits for.                                                               *)
LEMMA SilentRow ==
    ASSUME state \in Silent \ {50}
    PROVE  Rest(state) = Say(state + 2)
<1>1. CASE state \in {0, 6, 12, 18}
  BY <1>1 DEF Rest, Say
<1>2. CASE state \in {2, 8, 14, 20}
  BY <1>2, Targets DEF Rest, Say, First
<1>3. CASE state = 36
  BY <1>3 DEF Rest, Say, First
<1> QED
  BY <1>1, <1>2, <1>3 DEF Silent

LEMMA AnswerRow ==
    ASSUME IInv, state \in Even, state \notin Silent, UNCHANGED <<env, config>>,
           ~env.wheel => state # 38, state' = state + 2,
           mouse' = After(ToSend), out' = Answer(ToSend)
    PROVE  out' = Say(state)'
<1>1. /\ mouse \in MouseStates /\ config \in Configs /\ Told /\ env.wheel \in BOOLEAN
      /\ ~env.wheel => mouse.id = MOUSE_ID /\ ~mouse.reporting /\ state \notin 40..52
  BY EnvOfCases DEF IInv, Typed, TypeOK, StopsAtId
<1>2. state \in Again \cup {22, 24, 26, 28, 30, 32, 34, 38, 40, 42, 44, 46, 48}
  BY DEF Even, Silent, Again
<1>3. CASE state \in Again
  <2>1. ToSend = RESET
    BY <1>3, Replies DEF ToSend, RESET, RES_VALUE, SCALE_VALUE, RATE_VALUE
  <2>2. out' = Banner
    BY <2>1 DEF Answer, Banner
  <2>3. state' \in {6, 12, 18}
    BY <1>3 DEF Again
  <2> QED
    BY <2>2, <2>3 DEF Say
<1>4. CASE state = 34
  <2>1. ToSend = GET_ID /\ mouse.awaits = "command" /\ GET_ID # RESET
    BY <1>1, <1>4, Replies, TableSize
    DEF ToSend, GET_ID, RESET, RES_VALUE, SCALE_VALUE, RATE_VALUE, Told
  <2>2. out' = <<Raw(ACK), Raw(mouse.id)>>
    BY <2>1 DEF Answer
  <2>3. mouse'.id = mouse.id
    BY <1>1, <2>1, AfterCommand DEF TakesCommand, Commands
  <2> QED
    BY <1>4, <2>2, <2>3 DEF Say
<1>5. CASE state \notin Again \cup {34}
  <2>1. ToSend # RESET /\ ~(ToSend = GET_ID /\ mouse.awaits = "command")
    <3>1. CASE state \in {22, 26, 30, 44}
      BY <3>1, Replies
      DEF ToSend, SET_RATE, GET_ID, RESET, RES_VALUE, SCALE_VALUE, RATE_VALUE
    <3>2. CASE state \in {24, 28, 32}
      BY <3>2, Replies DEF ToSend, GET_ID, RESET, RES_VALUE, SCALE_VALUE, RATE_VALUE
    <3>3. CASE state \in {38, 48}
      BY <3>3, Replies
      DEF ToSend, SET_RES, ENABLE, GET_ID, RESET, RES_VALUE, SCALE_VALUE, RATE_VALUE
    <3>4. CASE state = 40
      BY <1>1, <3>4, Replies
      DEF ToSend, Configs, Resolutions, GET_ID, RESET, RES_VALUE, SCALE_VALUE, RATE_VALUE
    <3>5. CASE state = 42
      BY <3>5, Replies
      DEF ToSend, SCALE11, SCALE21, GET_ID, RESET, RES_VALUE, SCALE_VALUE, RATE_VALUE
    <3>6. CASE state = 46
      BY <1>1, <3>6, Replies
      DEF ToSend, Configs, Rates, GET_ID, RESET, RES_VALUE, SCALE_VALUE, RATE_VALUE
    <3> QED
      BY <1>2, <1>5, <3>1, <3>2, <3>3, <3>4, <3>5, <3>6
  <2>2. out' = <<Raw(ACK)>>
    BY <2>1, Zenon DEF Answer
  <2>3. state' \in {24, 26, 28, 30, 32, 34, 40, 42, 44, 46, 48, 50}
    BY <1>2, <1>5
  <2>4. First(state)' = Raw(ACK)
    BY <2>3, Targets DEF First, Even
  <2>5. Say(state)' = <<First(state)>>'
    BY <2>3 DEF Say
  <2> QED
    BY <2>2, <2>4, <2>5
<1> QED
  BY <1>2, <1>3, <1>4, <1>5

(* Only the command of row 48 has the mouse report.                         *)
LEMMA EnablesLate ==
    ASSUME config \in Configs, mouse \in MouseStates, state \in Even, state \notin Silent,
           state # 48, mouse' = After(ToSend), ~mouse.reporting
    PROVE  ~mouse'.reporting
<1>1. ToSend # ENABLE
  <2>1. state \in Again \cup {22, 24, 26, 28, 30, 32, 34, 38, 40, 42, 44, 46}
    BY DEF Even, Silent, Again
  <2>2. CASE state \in Again \cup {22, 26, 30, 44} \cup {24, 28, 32, 34, 38}
    BY <2>2, Replies
    DEF ToSend, SET_RATE, RESET, SET_RES, GET_ID, ENABLE, RES_VALUE, SCALE_VALUE, RATE_VALUE
  <2>3. CASE state = 40
    BY <2>3, Replies
    DEF ToSend, Configs, Resolutions, ENABLE, RES_VALUE, SCALE_VALUE, RATE_VALUE
  <2>4. CASE state = 42
    BY <2>4, Replies
    DEF ToSend, SCALE11, SCALE21, ENABLE, RES_VALUE, SCALE_VALUE, RATE_VALUE
  <2>5. CASE state = 46
    BY <2>5, Replies DEF ToSend, Configs, Rates, ENABLE, RES_VALUE, SCALE_VALUE, RATE_VALUE
  <2> QED
    BY <2>1, <2>2, <2>3, <2>4, <2>5
<1> DEFINE c == ToSend
<1> HIDE DEF c
<1>2. c # ENABLE /\ mouse' = After(c)
  BY <1>1 DEF c
<1>3. CASE c = RESET
  BY <1>2, <1>3, AfterReset
<1>4. CASE c # RESET
  BY <1>2, <1>4 DEF After, MouseStates
<1> QED
  BY <1>3, <1>4

-----------------------------------------------------------------------------
(* What the steps below need of the types.                                  *)
LEMMA Places ==
    ASSUME IInv
    PROVE  /\ ring \in Seq(Element) /\ out \in Seq(Element) /\ packet \in Seq(Element)
           /\ Len(ring) \in Nat /\ Len(out) \in Nat /\ Len(packet) \in Nat /\ Len(packet) <= 3
           /\ RingSize >= 1 /\ RingSize \in Nat
           /\ scancode \in Element /\ mouse.id \in {MOUSE_ID, WHEEL_ID} /\ retry \in 0..5
           /\ mouse.reporting \in BOOLEAN /\ mouse.serial \in Nat /\ env.wheel \in BOOLEAN
           /\ state \in 0..51 => state \in Even
           /\ state < Size => state \in Even
           /\ state >= Size => state \in {52, 255}
           /\ state \in 0..52 \cup {255}
<1>1. /\ ring \in Seq(Element) /\ out \in Seq(Element) /\ packet \in Seq(Element)
      /\ Len(packet) < 4 /\ retry \in 0..5 /\ scancode \in Element
  BY DEF IInv, Typed, TypeOK
<1>2. Len(ring) \in Nat /\ Len(out) \in Nat /\ Len(packet) \in Nat /\ Len(packet) <= 3
  BY <1>1
<1>3. RingSize >= 1 /\ RingSize \in Nat
  BY ConstantsAssumption
<1>4. /\ mouse.id \in {MOUSE_ID, WHEEL_ID} /\ mouse.reporting \in BOOLEAN
      /\ mouse.serial \in Nat
  BY DEF IInv, Typed, MouseStates
<1>5. env.wheel \in BOOLEAN
  BY EnvOfCases DEF IInv, Typed, TypeOK
<1>6. state \in States
  BY StatesOfFilter DEF IInv, Typed, TypeOK
<1>7. /\ state \in 0..51 => state \in Even
      /\ state < Size => state \in Even
      /\ state >= Size => state \in {52, 255}
      /\ state \in 0..52 \cup {255}
  BY <1>6, TableSize DEF States, Even
<1> QED
  BY <1>1, <1>2, <1>3, <1>4, <1>5, <1>7

(* A filter in step is not late.                                            *)
LEMMA Apart == ~(InStep /\ Late)
<1> SUFFICES ASSUME InStep, Late PROVE FALSE
  OBVIOUS
<1>1. Raw(ACK) # Raw(BAT)
  BY BytesDiffer
<1>2. Head(Banner) = Raw(ACK) /\ Head(<<Raw(BAT), Raw(MOUSE_ID)>>) = Raw(BAT)
  BY Firsts DEF Banner
<1>3. First(2) = Raw(BAT)
  BY Targets DEF First
<1>4. CASE state = 0
  <2>1. out = Banner /\ out = Rest(0)
    BY <1>4 DEF InStep, Late
  <2>2. Rest(0) = <<Raw(BAT), Raw(MOUSE_ID)>>
    BY DEF Rest
  <2> QED
    BY <1>1, <1>2, <2>1, <2>2
<1>5. CASE state = 2 /\ ~Holding
  <2>1. out = Banner /\ out = Say(2)
    BY <1>5 DEF InStep, Late
  <2>2. Say(2) = <<Raw(BAT), Raw(MOUSE_ID)>>
    BY DEF Say
  <2> QED
    BY <1>1, <1>2, <2>1, <2>2
<1>6. CASE state = 2 /\ Holding
  BY <1>1, <1>3, <1>6 DEF InStep, Late
<1> QED
  BY <1>4, <1>5, <1>6 DEF Late

LEMMA SoonApart == ~(InStep' /\ Late')
<1> QED
  BY Apart, PTL

-----------------------------------------------------------------------------
(* The line of the bytes of packets.                                        *)
LEMMA LineKept ==
    ASSUME Framed, Line \in Nat, Line' = Line, \A i \in 1..Line : At(i)' = At(i)
    PROVE  Framed'
<1>1. Line' % 4 = 0
  BY DEF Framed
<1>2. ASSUME NEW i \in 1..Line
      PROVE  IF i % 4 = 1 THEN At(i)'.part = 1 /\ At(i)'.val = 8
             ELSE At(i)'.part = At(i - 1)'.part + 1 /\ At(i)'.of = At(i - 1)'.of
  <2>1. CASE i % 4 = 1
    BY <1>2, <2>1 DEF Framed
  <2>2. CASE i % 4 # 1
    <3>1. i # 1 /\ i - 1 \in 1..Line
      BY <2>2
    <3>2. At(i)' = At(i) /\ At(i - 1)' = At(i - 1)
      BY <3>1
    <3> QED
      BY <2>2, <3>2 DEF Framed
  <2> QED
    BY <2>1, <2>2
<1> QED
  BY <1>1, <1>2 DEF Framed

-----------------------------------------------------------------------------
(* A byte arrives: the filter that was waiting has it in hand.              *)
LEMMA Arrives ==
    ASSUME IInv, Deliver
    PROVE  /\ out # <<>> /\ out' = Tail(out) /\ Head(out) = out[1]
           /\ Len(out') = Len(out) - 1 /\ Len(out) > 0
           /\ \A i \in 1..Len(out) - 1 : out'[i] = out[i + 1]
           /\ ring = <<>> => ring' # <<>> /\ Len(ring') <= 1 /\ ring'[1] = Head(out)
           /\ ring # <<>> => ring' # <<>> /\ Len(ring') <= Len(ring) + 1 /\ ring'[1] = ring[1]
           /\ UNCHANGED <<main, filter, config, mouse, requests, torn, confused>>
<1>1. /\ ring \in Seq(Element) /\ out \in Seq(Element) /\ RingSize >= 1 /\ RingSize \in Nat
      /\ out # <<>> /\ out' = Tail(out)
      /\ UNCHANGED <<main, filter, config, mouse, requests, torn, confused>>
  BY Places DEF Deliver
<1>2. /\ Head(out) \in Element /\ Head(out) = out[1] /\ Len(out) \in Nat /\ Len(out) > 0
      /\ Len(out') = Len(out) - 1 /\ \A i \in 1..Len(out) - 1 : out'[i] = out[i + 1]
  BY <1>1
<1>3. CASE ring = <<>>
  <2>1. ring' = Append(ring, Head(out))
    BY <1>1, <1>3 DEF Deliver
  <2>2. Len(ring') = Len(ring) + 1 /\ ring'[Len(ring) + 1] = Head(out)
    BY <1>1, <1>2, <2>1
  <2>3. Len(ring) = 0
    BY <1>3
  <2>4. Len(ring') = 1 /\ ring'[1] = Head(out)
    BY <2>2, <2>3
  <2>5. Len(ring') <= 1 /\ ring' # <<>>
    BY <2>4
  <2> QED
    BY <1>1, <1>2, <1>3, <2>4, <2>5, Zenon
<1>4. CASE ring # <<>>
  <2>1. Len(ring) \in Nat /\ Len(ring) >= 1
    BY <1>1, <1>4
  <2>2. ring' = Append(ring, Head(out)) \/ ring' = ring
    BY DEF Deliver
  <2>3. CASE ring' = Append(ring, Head(out))
    <3>1. Len(ring') = Len(ring) + 1 /\ \A i \in 1..Len(ring) : ring'[i] = ring[i]
      BY <1>1, <1>2, <2>3
    <3>2. ring' # <<>>
      BY <2>1, <3>1
    <3> QED
      BY <1>1, <1>2, <1>4, <2>1, <3>1, <3>2
  <2> QED
    BY <1>1, <1>2, <1>4, <2>1, <2>2, <2>3
<1> QED
  BY <1>3, <1>4

LEMMA DeliverTimely ==
    ASSUME IInv, Timely, Deliver, UNCHANGED env, env.prompt
    PROVE  Timely' /\ (Late' => Late \/ Booting)
<1>1. /\ out # <<>> /\ out' = Tail(out)
      /\ ring = <<>> => ring' # <<>> /\ Len(ring') <= 1 /\ ring'[1] = Head(out)
      /\ ring # <<>> => ring' # <<>> /\ Len(ring') <= Len(ring) + 1 /\ ring'[1] = ring[1]
      /\ pc' = pc /\ state' = state /\ retry' = retry /\ requests' = requests
      /\ mouse' = mouse
  BY Arrives DEF main, filter
<1>2. \/ Booting
      \/ pc # "boot" /\ pc # "filter" /\ ring = <<>>
            /\ (InStep \/ Late \/ VeryLate \/ Done)
  BY DEF Timely, Booting, Deliver
<1>3. CASE Booting
  <2>1. Booting'
    <3>1. /\ pc' = "boot" /\ state' = 2 /\ retry' = 0 /\ requests' = 0 /\ ring' # <<>>
      BY <1>1, <1>3 DEF Booting
    <3>2. CASE ring = <<>> /\ out = <<Raw(BAT), Raw(MOUSE_ID)>>
      <4>1. Head(out) = Raw(BAT) /\ Tail(out) = <<Raw(MOUSE_ID)>>
        BY <3>2, Firsts
      <4>2. NoAnswer(ring[1])' /\ Len(ring') <= 1 /\ out' = <<Raw(MOUSE_ID)>>
        BY <1>1, <3>2, <4>1, BytesDiffer DEF NoAnswer
      <4> QED
        BY <3>1, <4>2 DEF Booting
    <3>3. CASE ring # <<>> /\ NoAnswer(ring[1]) /\ Len(ring) <= 1 /\ out = <<Raw(MOUSE_ID)>>
      <4>1. Tail(out) = <<>>
        BY <3>3, Firsts
      <4>2. NoAnswer(ring[1])' /\ Len(ring') <= 2 /\ out' = <<>>
        <5>1. Len(ring') <= Len(ring) + 1 /\ Len(ring) \in Nat /\ Len(ring) <= 1
          BY <1>1, <3>3, Places
        <5>2. ring' \in Seq(Element)' /\ Len(ring') \in Nat
          BY DeliverKeeps DEF IInv, Typed, TypeOK
        <5>3. Len(ring') <= 2
          BY <5>1, <5>2
        <5> QED
          BY <1>1, <3>3, <4>1, <5>3 DEF NoAnswer
      <4> QED
        BY <3>1, <4>2 DEF Booting
    <3> QED
      BY <1>1, <1>3, <3>2, <3>3 DEF Booting
  <2> QED
    BY <1>3, <2>1 DEF Timely
<1>4. CASE pc # "boot" /\ pc # "filter" /\ ring = <<>>
  <2>1. /\ ~Holding /\ OneAtATime' /\ Holding' /\ Hand' = Head(out) /\ pc' # "boot"
        /\ pc' # "filter"
    BY <1>1, <1>4 DEF Holding, OneAtATime, Hand
  <2>2. First(state)' = First(state) /\ Rest(state)' = Rest(state)
    BY <1>1 DEF First, Rest
  <2>3. CASE InStep
    <3>1. out = Say(state) /\ state \in Even
      BY <2>1, <2>3, Places DEF InStep
    <3>2. Head(out) = First(state) /\ out' = Rest(state)
      BY <1>1, <3>1, SaysFirst, Places
    <3>3. InStep'
      BY <1>1, <2>1, <2>2, <2>3, <3>2 DEF InStep
    <3> QED
      BY <2>1, <3>3, SoonApart DEF Timely
  <2>4. CASE Late
    <3>1. state = 2 /\ out = Banner
      BY <2>1, <2>4 DEF Late
    <3>2. Head(out) = Raw(ACK) /\ out' = <<Raw(BAT), Raw(MOUSE_ID)>>
      BY <1>1, <3>1, Firsts DEF Banner
    <3>3. Say(state)' = <<Raw(BAT), Raw(MOUSE_ID)>>
      BY <1>1, <3>1 DEF Say
    <3>4. Late'
      BY <1>1, <2>1, <3>1, <3>2, <3>3 DEF Late
    <3> QED
      BY <2>1, <2>4, <3>4 DEF Timely
  <2>5. ~VeryLate
    BY <1>4 DEF VeryLate
  <2>6. CASE Done
    <3>1. Done' /\ ~Late'
      BY <1>1, <2>1, <2>6 DEF Done, Late
    <3> QED
      BY <2>1, <3>1 DEF Timely
  <2> QED
    BY <1>2, <1>4, <2>3, <2>4, <2>5, <2>6 DEF Booting
<1> QED
  BY <1>2, <1>3, <1>4

LEMMA DeliverUncut ==
    ASSUME IInv, Timely, Uncut, Deliver, UNCHANGED env
    PROVE  Uncut'
<1> SUFFICES ASSUME env.prompt, requests = 0
             PROVE  Uncut'
  BY DEF Uncut, Deliver
<1>1. /\ out # <<>> /\ out' = Tail(out) /\ Len(out') = Len(out) - 1 /\ Len(out) > 0
      /\ Head(out) = out[1] /\ \A i \in 1..Len(out) - 1 : out'[i] = out[i + 1]
      /\ ring = <<>> => ring' # <<>> /\ ring'[1] = Head(out)
      /\ pc' = pc /\ state' = state /\ packet' = packet /\ torn' = torn
      /\ requests' = requests /\ mouse' = mouse
  BY Arrives DEF main, filter
<1>2. /\ ~torn /\ (state # 52 => packet = <<>>) /\ state # 255
      /\ state = 52 \/ (state = 50 /\ Holding) => Framed
  BY <1>1 DEF Uncut
<1>3. /\ Len(out) \in Nat /\ Len(packet) \in Nat
  BY Places
<1>4. ASSUME state \in {50, 52} PROVE Framed'
  <2>1. pc # "boot" /\ pc # "filter" /\ ring = <<>> /\ (InStep \/ Done)
    BY <1>4 DEF Timely, Booting, Deliver, Late, VeryLate
  <2>2. ~Holding /\ Holding' /\ Hand' = out[1]
    BY <1>1, <2>1 DEF Holding, Hand
  <2>3. CASE state = 50
    <3>1. out = Say(50)
      BY <2>1, <2>2, <2>3 DEF InStep, Done
    <3>2. out' = <<>>
      <4>1. 50 \in Even /\ Rest(50) = <<>>
        BY DEF Even, Rest
      <4>2. Tail(Say(50)) = Rest(50)
        BY <4>1, SaysFirst, Places, Zenon
      <4> QED
        BY <1>1, <3>1, <4>1, <4>2
    <3>3. packet' = <<>> /\ Held' = 0
      BY <1>1, <1>2, <2>3 DEF Held
    <3>4. Line' = 0
      BY <3>2, <3>3 DEF Line
    <3> QED
      BY <3>4 DEF Framed
  <2>4. CASE state = 52
    <3>1. Held = 0 /\ Held' = 1
      BY <1>1, <2>2, <2>4 DEF Held
    <3>2. Line = Len(packet) + Len(out) /\ Line' = Line /\ Line \in Nat
      BY <1>1, <1>3, <3>1 DEF Line
    <3>3. ASSUME NEW i \in 1..Line PROVE At(i)' = At(i)
      <4>1. CASE i <= Len(packet)
        BY <1>1, <4>1 DEF At
      <4>2. CASE i > Len(packet)
        <5>1. At(i) = out[i - Len(packet)]
          BY <1>3, <3>1, <3>2, <4>2 DEF At
        <5>2. CASE i = Len(packet) + 1
          <6>1. At(i)' = Hand'
            BY <1>1, <1>3, <3>1, <5>2 DEF At
          <6> QED
            BY <1>3, <2>2, <5>1, <5>2, <6>1
        <5>3. CASE i > Len(packet) + 1
          <6>1. ~(i <= Len(packet')) /\ ~(i <= Len(packet') + Held')
            BY <1>1, <1>3, <3>1, <5>3
          <6>2. At(i)' = out'[i - Len(packet) - 1]
            BY <1>1, <3>1, <6>1 DEF At
          <6>3. i - Len(packet) - 1 \in 1..Len(out) - 1
            BY <1>3, <3>2, <5>3
          <6>4. out'[i - Len(packet) - 1] = out[i - Len(packet) - 1 + 1]
            BY <1>1, <6>3
          <6>5. i - Len(packet) - 1 + 1 = i - Len(packet)
            BY <1>3, <3>2
          <6> QED
            BY <5>1, <6>2, <6>4, <6>5
        <5> QED
          BY <1>3, <3>2, <4>2, <5>2, <5>3
      <4> QED
        BY <1>3, <3>2, <4>1, <4>2
    <3> QED
      BY <1>2, <2>4, <3>2, <3>3, LineKept
  <2> QED
    BY <1>4, <2>3, <2>4
<1> QED
  BY <1>1, <1>2, <1>4 DEF Uncut

LEMMA DeliverOnTime ==
    ASSUME IInv, PInv, Deliver, UNCHANGED env
    PROVE  PInv'
<1>1. /\ state' = state /\ retry' = retry /\ requests' = requests /\ mouse' = mouse
      /\ env' = env
  BY DEF Deliver, filter
<1>2. Unreported'
  BY <1>1 DEF PInv, Unreported
<1>3. Uncut'
  BY DeliverUncut DEF PInv
<1>4. Timely' /\ Accounted'
  <2>1. CASE ~env.prompt
    BY <1>1, <2>1 DEF PInv, Timely, Accounted
  <2>2. CASE env.prompt
    <3>1. Timely' /\ (Late' => Late \/ Booting)
      BY <2>2, DeliverTimely DEF PInv
    <3>2. Late' => Late \/ (retry = 0 /\ requests \in Nat)
      BY <3>1 DEF Booting, PInv, Accounted
    <3> QED
      BY <1>1, <3>1, <3>2 DEF PInv, Accounted
  <2> QED
    BY <2>1, <2>2
<1> QED
  BY <1>2, <1>3, <1>4 DEF PInv

-----------------------------------------------------------------------------
(* The mouse moves only when nothing waits to be said, and its packet joins *)
(* the end of the line.                                                     *)
LEMMA Moved ==
    ASSUME IInv, Move, mouse.id = WHEEL_ID
    PROVE  /\ Len(out') = 4 /\ Len(out) = 0
           /\ \A i \in 1..4 : out'[i].part = i /\ out'[i].of = mouse.serial
           /\ out'[1].val = 8
<1>1. PICK v \in Moves : out' = Movement(v)
  BY DEF Move
<1>2. out' = [i \in 1..4 |->
                 [val |-> IF i = 1 THEN 8 ELSE v, part |-> i, of |-> mouse.serial]]
  BY <1>1 DEF Movement
<1>3. Len(out') = 4
  BY <1>2
<1>4. \A i \in 1..4 : out'[i] = [val |-> IF i = 1 THEN 8 ELSE v, part |-> i, of |-> mouse.serial]
  BY <1>2
<1>5. Len(out) = 0
  BY DEF Move
<1> QED
  BY <1>3, <1>4, <1>5

LEMMA MoveOnTime ==
    ASSUME IInv, PInv, Move, UNCHANGED env
    PROVE  PInv'
<1>1. /\ mouse.reporting /\ out = <<>> /\ mouse' = [mouse EXCEPT !.serial = @ + 1]
      /\ pc' = pc /\ scancode' = scancode /\ state' = state /\ retry' = retry
      /\ packet' = packet /\ ring' = ring /\ requests' = requests /\ torn' = torn
  BY DEF Move, main, filter
<1>2. state \notin 0..48
  BY <1>1 DEF PInv, Unreported
<1>3. Holding' = Holding /\ Hand' = Hand /\ OneAtATime' = OneAtATime /\ mouse'.id = mouse.id
  <2>1. mouse'.id = mouse.id
    BY <1>1 DEF IInv, Typed, MouseStates
  <2> QED
    BY <1>1, <2>1 DEF Holding, Hand, OneAtATime
<1>4. ASSUME env.prompt PROVE Timely' /\ ~Late' /\ pc # "boot" /\ (InStep \/ Done)
  <2>1. ~Late' /\ ~Booting /\ ~Late /\ ~VeryLate
    BY <1>1, <1>2 DEF Late, Booting, VeryLate
  <2>2. pc # "boot" /\ (InStep \/ Done)
    BY <1>4, <2>1 DEF PInv, Timely
  <2>3. CASE InStep
    <3>1. state = 50
      BY <1>2, <2>3, Places DEF InStep, Even
    <3>2. Holding
      <4> SUFFICES ASSUME ~Holding PROVE FALSE
        OBVIOUS
      <4>1. out = Say(50) /\ 50 \in Even
        BY <2>3, <3>1 DEF InStep, Even
      <4> QED
        BY <1>1, <4>1, SaysFirst, Places
    <3>3. First(state)' = First(state)
      BY <1>1, <1>3 DEF First
    <3>4. InStep'
      BY <1>1, <1>3, <2>3, <3>1, <3>2, <3>3 DEF InStep
    <3> QED
      BY <1>1, <2>1, <2>2, <3>4 DEF Timely
  <2>4. CASE Done
    BY <1>1, <1>3, <2>1, <2>2, <2>4 DEF Timely, Done
  <2> QED
    BY <2>1, <2>2, <2>3, <2>4
<1>5. Timely'
  BY <1>4 DEF Timely
<1>6. Unreported'
  BY <1>1, <1>2 DEF Unreported
<1>7. Accounted'
  BY <1>1, <1>4 DEF PInv, Accounted
<1>8. ASSUME env.prompt, requests = 0
      PROVE  state # 255 /\ (state = 52 \/ (state = 50 /\ Holding) => Framed')
  <2>1. env.wheel
    BY <1>1, Places DEF IInv, StopsAtId
  <2>2. state # 255 /\ (state = 52 \/ (state = 50 /\ Holding) => Framed)
    BY <1>8, <2>1 DEF PInv, Uncut
  <2>3. ASSUME state = 52 \/ (state = 50 /\ Holding) PROVE Framed'
    <3>1. mouse.id = WHEEL_ID
      BY <2>1, <2>3 DEF IInv, Told
    <3>2. /\ Len(out') = 4 /\ Len(out) = 0
          /\ \A i \in 1..4 : out'[i].part = i /\ out'[i].of = mouse.serial
          /\ out'[1].val = 8
      BY <3>1, Moved
    <3>3. Held' = Held /\ Held \in {0, 1} /\ Len(packet) \in Nat
      BY <1>1, <1>3, Places DEF Held
    <3>4. Line = Len(packet) + Held /\ Line' = Line + 4 /\ Line \in Nat /\ Line % 4 = 0
      <4>1. Line % 4 = 0
        BY <2>2, <2>3 DEF Framed
      <4>2. Line = Len(packet) + Held /\ Line' = Len(packet) + Held + 4
        BY <1>1, <3>2, <3>3 DEF Line
      <4> QED
        BY <3>3, <4>1, <4>2
    <3>5. ASSUME NEW i \in 1..Line PROVE At(i)' = At(i)
      BY <1>1, <1>3, <3>3, <3>4 DEF At
    <3>6. ASSUME NEW i \in Line + 1..Line + 4 PROVE At(i)' = out'[i - Line]
      <4>1. ~(i <= Len(packet')) /\ ~(i <= Len(packet') + Held')
        BY <1>1, <3>3, <3>4
      <4>2. At(i)' = out'[i - Len(packet') - Held']
        BY <4>1 DEF At
      <4>3. i - Len(packet') - Held' = i - Line
        BY <1>1, <3>3, <3>4
      <4> QED
        BY <4>2, <4>3
    <3>7. ASSUME NEW i \in 1..Line + 4
          PROVE  IF i % 4 = 1 THEN At(i)'.part = 1 /\ At(i)'.val = 8
                 ELSE At(i)'.part = At(i - 1)'.part + 1 /\ At(i)'.of = At(i - 1)'.of
      <4>1. CASE i \in 1..Line
        <5>1. CASE i % 4 = 1
          BY <2>2, <2>3, <3>5, <4>1, <5>1 DEF Framed
        <5>2. CASE i % 4 # 1
          <6>1. i - 1 \in 1..Line
            BY <3>4, <4>1, <5>2
          <6>2. At(i)' = At(i) /\ At(i - 1)' = At(i - 1)
            BY <3>5, <4>1, <6>1
          <6> QED
            BY <2>2, <2>3, <4>1, <5>2, <6>2 DEF Framed
        <5> QED
          BY <5>1, <5>2
      <4>2. CASE i \notin 1..Line
        <5> DEFINE k == i - Line
        <5>1. k \in 1..4 /\ i \in Line + 1..Line + 4 /\ i = Line + k
          BY <3>4, <3>7, <4>2
        <5>2. At(i)' = out'[k]
          BY <3>6, <5>1
        <5>3. CASE k = 1
          <6>1. i = Line + 1
            BY <5>1, <5>3
          <6>2. i % 4 = 1
            BY <3>4, <6>1
          <6> QED
            BY <3>2, <5>2, <5>3, <6>2
        <5>4. CASE k \in 2..4
          <6>1. i % 4 # 1
            BY <3>4, <5>1, <5>4
          <6>2. k - 1 \in 1..4 /\ i - 1 \in Line + 1..Line + 4 /\ (i - 1) - Line = k - 1
            BY <3>4, <5>1, <5>4
          <6>3. At(i - 1)' = out'[k - 1]
            BY <3>6, <6>2
          <6>4. out'[k].part = k /\ out'[k - 1].part = k - 1 /\ out'[k].of = out'[k - 1].of
            BY <3>2, <5>1, <6>2
          <6> QED
            BY <5>1, <5>2, <6>1, <6>3, <6>4
        <5> QED
          BY <5>1, <5>3, <5>4
      <4> QED
        BY <4>1, <4>2
    <3> QED
      BY <3>4, <3>7 DEF Framed
  <2> QED
    BY <2>2, <2>3
<1>9. Uncut'
  BY <1>1, <1>3, <1>8 DEF PInv, Uncut
<1> QED
  BY <1>5, <1>6, <1>7, <1>9 DEF PInv

-----------------------------------------------------------------------------
(* A reset leaves at most the byte in hand, and two before the first one.   *)
LEMMA ResetSays ==
    ASSUME IInv, ResetState
    PROVE  state' = 0 /\ out' = Banner /\ ~mouse'.reporting /\ Say(state)' = Banner
<1>1. state' = 0 /\ mouse' = After(RESET) /\ out' = Answer(RESET)
  BY DEF ResetState, SendByte
<1>2. ~mouse'.reporting
  BY <1>1, AfterReset DEF IInv, Typed
<1>3. out' = Banner
  BY <1>1 DEF Answer, Banner
<1>4. Say(state)' = Banner
  BY <1>1 DEF Say, Banner
<1> QED
  BY <1>1, <1>2, <1>3, <1>4

LEMMA BootOnTime ==
    ASSUME IInv, PInv, Boot, UNCHANGED env
    PROVE  PInv'
<1>1. /\ pc = "boot" /\ pc' = "kb" /\ ResetState
      /\ UNCHANGED <<requests, retry, packet, ring, torn, env>>
  BY DEF Boot, MS_MouseReset
<1>2. state' = 0 /\ out' = Banner /\ ~mouse'.reporting /\ Say(state)' = Banner
  BY <1>1, ResetSays
<1>3. Unreported'
  BY <1>2 DEF Unreported
<1>4. ASSUME env.prompt PROVE Timely' /\ retry = 0
  <2>1. Booting
    BY <1>1, <1>4 DEF PInv, Timely
  <2>2. CASE ring = <<>>
    <3>1. ~Holding' /\ OneAtATime'
      BY <1>1, <2>2, Places DEF Holding, OneAtATime
    <3>2. InStep'
      BY <1>2, <3>1 DEF InStep
    <3> QED
      BY <1>1, <2>1, <3>2 DEF Timely, Booting
  <2>3. CASE ring # <<>>
    <3>1. NoAnswer(ring[1]) /\ Len(ring) <= 2 /\ retry = 0
      BY <2>1, <2>3, Places DEF Booting
    <3>2. NoAnswer(ring[1])' /\ Len(ring') <= 2 /\ ring' # <<>> /\ retry' = 0
      BY <1>1, <2>3, <3>1 DEF NoAnswer
    <3>3. VeryLate'
      BY <1>1, <1>2, <3>2 DEF VeryLate
    <3> QED
      BY <1>1, <3>1, <3>3 DEF Timely
  <2> QED
    BY <2>2, <2>3
<1>5. Timely'
  BY <1>1, <1>4 DEF Timely
<1>6. Accounted'
  <2>1. requests' = requests /\ requests \in Nat /\ retry' = retry /\ state' # 255
    BY <1>1, <1>2 DEF PInv, Accounted
  <2> QED
    BY <1>1, <1>4, <2>1 DEF Accounted
<1>7. Uncut'
  <2> SUFFICES ASSUME env.prompt, requests = 0 PROVE Uncut'
    BY <1>1 DEF Uncut
  <2>1. ~torn /\ packet = <<>>
    BY <1>1 DEF PInv, Timely, Booting, Uncut
  <2> QED
    BY <1>1, <1>2, <2>1 DEF Uncut
<1> QED
  BY <1>3, <1>5, <1>6, <1>7 DEF PInv

LEMMA RequestOnTime ==
    ASSUME IInv, PInv, ResetState, UNCHANGED <<env, retry, packet, ring, torn>>,
           pc = "kb", pc' = "ms", requests' = requests + 1
    PROVE  PInv'
<1>1. state' = 0 /\ out' = Banner /\ ~mouse'.reporting /\ Say(state)' = Banner
  BY ResetSays
<1>2. requests \in Nat
  BY DEF PInv, Accounted
<1>3. Unreported'
  BY <1>1 DEF Unreported
<1>4. Uncut'
  BY <1>2 DEF Uncut
<1>5. ASSUME env.prompt, InStep \/ Late \/ Done PROVE InStep' \/ Late'
  <2>1. OneAtATime' /\ (ring = <<>> => ~Holding') /\ (ring # <<>> => Holding')
    BY <1>5 DEF InStep, Late, Done, OneAtATime, Holding
  <2>2. CASE ring = <<>>
    BY <1>1, <2>1, <2>2 DEF InStep
  <2>3. CASE ring # <<>>
    BY <1>1, <2>1, <2>3 DEF Late
  <2> QED
    BY <2>2, <2>3
<1>6. ASSUME env.prompt, VeryLate PROVE VeryLate' /\ retry = 0
  <2>1. ring # <<>> /\ NoAnswer(ring[1]) /\ Len(ring) <= 2 /\ retry = 0
    BY <1>6 DEF VeryLate
  <2>2. NoAnswer(ring[1])'
    BY <2>1 DEF NoAnswer
  <2> QED
    BY <1>1, <2>1, <2>2 DEF VeryLate
<1>7. env.prompt => InStep \/ Late \/ Done \/ VeryLate
  BY DEF PInv, Timely, Booting
<1>8. Timely'
  BY <1>5, <1>6, <1>7 DEF Timely
<1>9. Accounted'
  <2>1. requests' \in Nat /\ requests' # 0 /\ state' # 255
    BY <1>1, <1>2
  <2>2. env.prompt /\ env.wheel => retry <= 2 + requests
    BY DEF PInv, Accounted
  <2>3. env.prompt /\ env.wheel => retry' <= 1 + requests'
    BY <1>2, <2>2, Places
  <2>4. env.prompt /\ env.wheel => retry' <= 2 + requests'
    BY <1>2, <2>2, Places
  <2> QED
    BY <2>1, <2>3, <2>4 DEF Accounted
<1> QED
  BY <1>3, <1>4, <1>8, <1>9 DEF PInv

(* Taking the byte from the ring, or having nothing to do, changes nothing  *)
(* of the filter and of the mouse.                                          *)
LEMMA SameHand ==
    ASSUME IInv, PInv, UNCHANGED <<env, filter, device, requests, torn>>,
           pc # "boot", pc' # "boot", Holding' = Holding, Holding => Hand' = Hand,
           OneAtATime => OneAtATime', env.prompt /\ VeryLate => VeryLate'
    PROVE  PInv'
<1>1. /\ state' = state /\ retry' = retry /\ packet' = packet /\ mouse' = mouse /\ out' = out
      /\ env' = env /\ requests' = requests /\ torn' = torn
  BY DEF filter, device
<1>2. First(state)' = First(state) /\ Rest(state)' = Rest(state) /\ Say(state)' = Say(state)
  BY <1>1 DEF First, Rest, Say
<1>3. Say(2)' = Say(2)
  BY <1>1 DEF Say
<1>4. InStep => InStep'
  BY <1>1, <1>2 DEF InStep
<1>5. Late => Late'
  BY <1>1, <1>3 DEF Late
<1>6. Done => Done'
  BY <1>1 DEF Done
<1>7. Late' => state \in {0, 2}
  BY <1>1 DEF Late
<1>8. env.prompt => InStep \/ Late \/ Done \/ VeryLate
  BY DEF PInv, Timely, Booting
<1>9. Timely'
  BY <1>4, <1>5, <1>6, <1>8 DEF Timely
<1>10. Unreported'
  BY <1>1 DEF PInv, Unreported
<1>11. env.prompt /\ Late' => Late \/ retry = 0
  <2>1. ~(InStep /\ Late')
    BY <1>4, SoonApart
  <2>2. ~(Done /\ Late')
    BY <1>7 DEF Done
  <2>3. VeryLate => retry = 0
    BY DEF VeryLate
  <2> QED
    BY <1>8, <2>1, <2>2, <2>3
<1>12. Accounted'
  <2>1. requests \in Nat
    BY DEF PInv, Accounted
  <2> QED
    BY <1>1, <1>11, <2>1 DEF PInv, Accounted
<1>13. Framed /\ (state = 52 \/ (state = 50 /\ Holding)) => Framed'
  <2> SUFFICES ASSUME Framed PROVE Framed'
    OBVIOUS
  <2>1. Held' = Held /\ Held \in {0, 1} /\ Len(packet) \in Nat /\ Len(out) \in Nat
    BY <1>1, Places DEF Held
  <2>2. Line' = Line /\ Line \in Nat
    BY <1>1, <2>1 DEF Line
  <2>3. Held = 1 => Hand' = Hand
    BY DEF Held
  <2>4. \A i \in 1..Line : At(i)' = At(i)
    BY <1>1, <2>1, <2>2, <2>3 DEF At
  <2> QED
    BY <2>2, <2>4, LineKept
<1>14. Uncut'
  BY <1>1, <1>13 DEF PInv, Uncut
<1> QED
  BY <1>9, <1>10, <1>12, <1>14 DEF PInv

LEMMA LoopOnTime ==
    ASSUME IInv, PInv, Boot \/ KbTask \/ Poll, UNCHANGED env
    PROVE  PInv'
<1>1. CASE Boot
  BY <1>1, BootOnTime
<1>2. CASE KbTask
  <2>1. pc = "kb" /\ pc' = "ms" /\ scancode' = scancode
    BY <1>2 DEF KbTask
  <2>2. CASE UNCHANGED <<filter, device, config, ring, requests, lost, torn>>
    <3>1. UNCHANGED <<env, filter, device, requests, torn, ring>>
      BY <2>2
    <3>2. /\ Holding' = Holding /\ Hand' = Hand /\ (OneAtATime => OneAtATime')
          /\ (VeryLate => VeryLate')
      BY <2>1, <3>1 DEF Holding, Hand, OneAtATime, VeryLate, NoAnswer, filter, device
    <3> QED
      BY <2>1, <3>1, <3>2, SameHand
  <2>3. CASE requests' = requests + 1 /\ MS_MouseReset
    BY <2>1, <2>3, RequestOnTime DEF MS_MouseReset
  <2>4. CASE requests' = requests + 1 /\ \E r \in Requests : MS_Set(r.setting, r.value)
    BY <2>1, <2>4, RequestOnTime DEF MS_Set
  <2> QED
    BY <1>2, <2>2, <2>3, <2>4 DEF KbTask
<1>3. CASE Poll
  <2>1. pc = "ms" /\ UNCHANGED <<env, filter, device, requests, torn>>
    BY <1>3 DEF Poll
  <2>2. CASE ring = <<>>
    <3>1. pc' = "kb" /\ UNCHANGED <<scancode, ring>>
      BY <1>3, <2>2 DEF Poll
    <3>2. /\ Holding' = Holding /\ Hand' = Hand /\ (OneAtATime => OneAtATime') /\ ~VeryLate
      BY <2>1, <2>2, <3>1 DEF Holding, Hand, OneAtATime, VeryLate
    <3> QED
      BY <2>1, <3>1, <3>2, SameHand
  <2>3. CASE ring # <<>>
    <3>1. pc' = "filter" /\ scancode' = Head(ring) /\ ring' = Tail(ring)
      BY <1>3, <2>3 DEF Poll
    <3>2. /\ Head(ring) = ring[1] /\ (Len(ring) <= 1 => Tail(ring) = <<>>)
          /\ Len(Tail(ring)) = Len(ring) - 1 /\ Len(ring) \in Nat
      BY <2>3, Places, OneOnly
    <3>3. Holding' /\ Holding /\ Hand' = Hand /\ (OneAtATime => OneAtATime')
      BY <2>1, <2>3, <3>1, <3>2 DEF Holding, Hand, OneAtATime
    <3>4. ASSUME VeryLate PROVE VeryLate'
      <4>1. /\ state = 0 /\ out = Banner /\ retry = 0
            /\ NoAnswer(ring[1]) /\ Len(ring) <= 2
        BY <2>1, <3>4 DEF VeryLate
      <4>2. NoAnswer(scancode)' /\ Len(ring') <= 1
        BY <3>1, <3>2, <4>1 DEF NoAnswer
      <4>3. state' = 0 /\ out' = Banner /\ retry' = 0
        BY <2>1, <4>1 DEF filter, device, Banner
      <4> QED
        BY <3>1, <4>2, <4>3 DEF VeryLate
    <3> QED
      BY <2>1, <3>1, <3>3, <3>4, SameHand
  <2> QED
    BY <2>2, <2>3
<1> QED
  BY <1>1, <1>2, <1>3

-----------------------------------------------------------------------------
(* EventFilter: whatever was in hand is used up.                            *)
LEMMA Emptied ==
    ASSUME EventFilter
    PROVE  /\ Holding /\ Hand = scancode /\ pc # "boot" /\ pc' = "ms"
           /\ UNCHANGED <<config, ring, requests>>
           /\ OneAtATime => ring = <<>> /\ ~Holding' /\ OneAtATime'
<1>1. pc = "filter" /\ pc' = "ms" /\ ring' = ring /\ UNCHANGED <<config, ring, requests>>
  BY DEF EventFilter
<1>2. Holding /\ Hand = scancode
  BY <1>1 DEF Holding, Hand
<1>3. ASSUME OneAtATime PROVE ring = <<>> /\ ~Holding' /\ OneAtATime'
  BY <1>1, <1>3 DEF OneAtATime, Holding
<1> QED
  BY <1>1, <1>2, <1>3

(* The byte the filter waits for moves it on, and the mouse says what the    *)
(* next row waits for; a late byte moves it on too, but only in row 0.       *)
LEMMA AdvanceTimely ==
    ASSUME IInv, Timely, EventFilter, Advance, UNCHANGED env, env.prompt
    PROVE  Timely' /\ (Late' => Late) /\ ~Holding' /\ OneAtATime /\ ring = <<>>
           /\ (state = 50 => UNCHANGED out)
<1>1. /\ Holding /\ Hand = scancode /\ pc # "boot" /\ pc' = "ms" /\ UNCHANGED config
      /\ OneAtATime => ring = <<>> /\ ~Holding' /\ OneAtATime'
      /\ state \in Even /\ state < 52 /\ Accepts(scancode.val) /\ state' = state + 2
  BY Emptied, Places, TableSize DEF Advance
<1>2. \A s \in Silent : Reply(s) = 0
  BY Replies
<1>3. state \in Silent => mouse' = mouse /\ out' = out
  BY <1>2 DEF Advance, device
<1>4. InStep \/ Late
  <2>1. ~Booting /\ ~Done
    BY <1>1 DEF Booting, Done
  <2>2. ~VeryLate
    <3> SUFFICES ASSUME VeryLate PROVE FALSE
      OBVIOUS
    <3>1. state = 0 /\ NoAnswer(scancode)
      BY DEF VeryLate, EventFilter
    <3>2. Target(0) = ACK
      BY Targets DEF Even
    <3> QED
      BY <1>1, <3>1, <3>2 DEF Accepts, NoAnswer
  <2> QED
    BY <2>1, <2>2 DEF Timely
<1>5. OneAtATime
  BY <1>4 DEF InStep, Late
<1>6. CASE InStep
  <2>1. scancode = First(state) /\ (state # 50 => out = Rest(state))
    BY <1>1, <1>6 DEF InStep
  <2>2. state = 38 => mouse.id = WHEEL_ID
    BY <1>1, <2>1, AcceptsFirst
  <2>3. CASE state = 50
    <3>1. state \in Silent /\ state' = 52
      BY <1>1, <2>3 DEF Silent
    <3>2. Done' /\ ~Late'
      BY <1>1, <1>5, <3>1 DEF Done, Late
    <3> QED
      BY <1>1, <1>3, <1>5, <3>1, <3>2 DEF Timely
  <2>4. CASE state # 50
    <3>1. state' \in 0..50
      BY <1>1, <2>4 DEF Even
    <3>2. out' = Say(state)'
      <4>1. CASE state \in Silent
        <5>1. out' = Say(state + 2)
          BY <1>3, <2>1, <2>4, <4>1, SilentRow
        <5>2. Say(state)' = Say(state + 2)
          BY <1>1, <1>3, <4>1 DEF Say, First
        <5> QED
          BY <5>1, <5>2
      <4>2. CASE state \notin Silent
        <5>1. Reply(state) > 0
          <6>1. state \in Again \cup {22, 24, 26, 28, 30, 32, 34, 38, 40, 42, 44, 46, 48}
            BY <1>1, <4>2 DEF Even, Silent, Again
          <6> QED
            BY <6>1, Replies DEF RESET, SET_RATE, GET_ID, SET_RES, RES_VALUE, SCALE_VALUE,
                                 RATE_VALUE, ENABLE
        <5>2. mouse' = After(ToSend) /\ out' = Answer(ToSend)
          BY <5>1 DEF Advance, SendByte
        <5>3. ~env.wheel => state # 38
          BY <2>2 DEF IInv, StopsAtId, MOUSE_ID, WHEEL_ID
        <5> QED
          BY <1>1, <4>2, <5>2, <5>3, AnswerRow
      <4> QED
        BY <4>1, <4>2
    <3>3. InStep'
      BY <1>1, <1>5, <3>1, <3>2 DEF InStep
    <3> QED
      BY <1>1, <1>5, <2>4, <3>3, SoonApart DEF Timely
  <2> QED
    BY <2>3, <2>4
<1>7. CASE Late
  <2>1. state = 0
    <3> SUFFICES ASSUME state = 2 PROVE FALSE
      BY <1>7 DEF Late
    <3>1. scancode.val = 250
      BY <1>1, <1>7, BytesDiffer DEF Late
    <3>2. Target(2) = 170
      BY Targets DEF BAT
    <3> QED
      BY <1>1, <3>1, <3>2 DEF Accepts, ACK
  <2>2. out = Banner /\ state' = 2 /\ out' = out
    BY <1>1, <1>3, <1>7, <2>1 DEF Late, Silent
  <2>3. Banner' = Banner
    BY DEF Banner
  <2>4. Late'
    BY <1>1, <1>5, <2>2, <2>3 DEF Late
  <2> QED
    BY <1>1, <1>5, <1>7, <2>1, <2>4 DEF Timely
<1> QED
  BY <1>4, <1>6, <1>7

LEMMA AdvanceOnTime ==
    ASSUME IInv, PInv, EventFilter, Advance, UNCHANGED env
    PROVE  PInv'
<1>1. /\ state \in Even /\ state < 52 /\ state' = state + 2 /\ retry' = retry
      /\ packet' = packet /\ torn' = torn /\ requests' = requests /\ env' = env
  BY Emptied, Places, TableSize DEF Advance
<1>2. env.prompt => /\ Timely' /\ (Late' => Late) /\ ~Holding' /\ Holding
                    /\ (state = 50 => out' = out)
  BY AdvanceTimely, Emptied DEF PInv
<1>3. Timely'
  BY <1>2 DEF Timely
<1>4. Unreported'
  <2> SUFFICES ASSUME state' \in 0..48 PROVE ~mouse'.reporting
    BY DEF Unreported
  <2>1. state \in 0..46 /\ state # 48 /\ ~mouse.reporting
    BY <1>1 DEF PInv, Unreported, Even
  <2>2. CASE UNCHANGED device
    BY <2>1, <2>2 DEF device
  <2>3. CASE ~UNCHANGED device
    <3>1. Reply(state) > 0 /\ mouse' = After(ToSend)
      BY <2>3 DEF Advance, SendByte
    <3>2. state \notin Silent
      BY <3>1, Replies
    <3>3. config \in Configs /\ mouse \in MouseStates
      BY DEF IInv, Typed
    <3> QED
      BY <1>1, <2>1, <3>1, <3>2, <3>3, EnablesLate
  <2> QED
    BY <2>2, <2>3
<1>5. Accounted'
  <2>1. requests' \in Nat /\ state' # 255
    BY <1>1 DEF PInv, Accounted, Even
  <2> QED
    BY <1>1, <1>2, <2>1 DEF PInv, Accounted
<1>6. Uncut'
  <2> SUFFICES ASSUME env.prompt, requests = 0 PROVE Uncut'
    BY <1>1 DEF Uncut
  <2>1. /\ ~torn /\ packet = <<>> /\ ~Holding' /\ Holding
        /\ state = 50 => Framed
    BY <1>1, <1>2 DEF PInv, Uncut
  <2>2. ASSUME state = 50 PROVE Framed'
    <3>1. Held = 0 /\ Held' = 0 /\ out' = out
      BY <1>2, <2>1, <2>2 DEF Held
    <3>2. Line = Len(out) /\ Line' = Line /\ Line \in Nat
      BY <1>1, <2>1, <3>1, Places DEF Line
    <3>3. \A i \in 1..Line : At(i)' = At(i)
      BY <1>1, <2>1, <3>1, <3>2 DEF At
    <3> QED
      BY <2>1, <2>2, <3>2, <3>3, LineKept
  <2>3. state' = 52 => state = 50
    BY <1>1 DEF Even
  <2>4. state' # 255
    BY <1>1 DEF Even
  <2> QED
    BY <1>1, <2>1, <2>2, <2>3, <2>4 DEF Uncut
<1> QED
  BY <1>3, <1>4, <1>5, <1>6 DEF PInv

(* A byte the filter does not accept: the id of a mouse without a wheel, or *)
(* one that came before the last reset, and each of these costs a retry.    *)
LEMMA Refused ==
    ASSUME IInv, Timely, EventFilter, state < Size, ~Accepts(scancode.val), env.prompt
    PROVE  \/ InStep /\ ~env.wheel /\ out = <<>>
           \/ Late
           \/ VeryLate
<1>1. Holding /\ Hand = scancode /\ pc # "boot" /\ state \in Even /\ state < 52
  BY Emptied, Places, TableSize
<1>2. ASSUME InStep PROVE ~env.wheel /\ out = <<>>
  <2>1. scancode = First(state) /\ (state # 50 => out = Rest(state))
    BY <1>1, <1>2 DEF InStep
  <2>2. state = 38 /\ mouse.id # WHEEL_ID
    BY <1>1, <2>1, AcceptsFirst
  <2>3. ~env.wheel
    BY <2>2, Places DEF IInv, Told
  <2> QED
    BY <2>1, <2>2, <2>3 DEF Rest
<1>3. ~Done
  BY <1>1 DEF Done
<1> QED
  BY <1>1, <1>2, <1>3 DEF Timely, Booting

LEMMA RetryOnTime ==
    ASSUME IInv, PInv, EventFilter, Retry, UNCHANGED env
    PROVE  PInv'
<1>1. /\ ResetState /\ retry' = retry + 1 /\ packet' = packet /\ torn' = torn
      /\ requests' = requests /\ env' = env /\ pc' = "ms" /\ ring' = ring
      /\ state < Size /\ ~Accepts(scancode.val) /\ pc = "filter"
      /\ OneAtATime => ring = <<>> /\ ~Holding' /\ OneAtATime'
  BY Emptied DEF Retry, EventFilter
<1>2. state' = 0 /\ out' = Banner /\ ~mouse'.reporting /\ Say(state)' = Banner
  BY <1>1, ResetSays
<1>3. requests \in Nat /\ retry \in Nat
  <2>1. requests \in Nat
    BY DEF PInv, Accounted
  <2>2. retry \in Nat
    BY Places
  <2> QED
    BY <2>1, <2>2
<1>4. Unreported'
  BY <1>2 DEF Unreported
<1>5. Uncut'
  <2>1. state # 52
    BY <1>1, TableSize
  <2> QED
    BY <1>1, <1>2, <2>1 DEF PInv, Uncut
<1>6. env.prompt => \/ InStep /\ ~env.wheel
                    \/ Late
                    \/ VeryLate
  BY <1>1, Refused DEF PInv
<1>7. ASSUME env.prompt, InStep \/ Late PROVE InStep'
  <2>1. ~Holding' /\ OneAtATime'
    BY <1>1, <1>7 DEF InStep, Late
  <2> QED
    BY <1>2, <2>1 DEF InStep
<1>8. ASSUME env.prompt, VeryLate PROVE retry' = 1 /\ (InStep' \/ Late')
  <2>1. retry = 0 /\ Len(ring) <= 1
    BY <1>1, <1>8 DEF VeryLate
  <2>2. OneAtATime'
    BY <1>1, <2>1 DEF OneAtATime
  <2>3. CASE ring = <<>>
    <3>1. ~Holding'
      BY <1>1, <2>3 DEF Holding
    <3> QED
      BY <1>1, <1>2, <2>1, <2>2, <3>1 DEF InStep
  <2>4. CASE ring # <<>>
    <3>1. Holding'
      BY <1>1, <2>4 DEF Holding
    <3> QED
      BY <1>1, <1>2, <2>1, <2>2, <3>1 DEF Late
  <2> QED
    BY <2>3, <2>4
<1>9. Timely'
  BY <1>1, <1>6, <1>7, <1>8 DEF Timely
<1>10. env.prompt /\ env.wheel => retry' <= 2 + requests'
  <2>1. env.prompt /\ env.wheel /\ Late => retry <= 1 + requests
    BY DEF PInv, Accounted
  <2>2. env.prompt /\ env.wheel /\ Late => retry' <= 2 + requests'
    BY <1>1, <1>3, <2>1
  <2>3. env.prompt /\ VeryLate => retry' <= 2 + requests'
    BY <1>1, <1>3, <1>8
  <2> QED
    BY <1>6, <2>2, <2>3
<1>11. env.prompt /\ Late' => retry' = 1
  BY <1>6, <1>7, <1>8, SoonApart
<1>12. Accounted'
  <2>1. retry' = 1 => retry' <= 1 + requests' /\ retry' <= 1
    BY <1>1, <1>3
  <2>2. requests' \in Nat /\ state' # 255
    BY <1>1, <1>2, <1>3
  <2> QED
    BY <1>1, <1>10, <1>11, <2>1, <2>2 DEF Accounted
<1> QED
  BY <1>4, <1>5, <1>9, <1>12 DEF PInv

LEMMA GiveUpOnTime ==
    ASSUME IInv, PInv, EventFilter, GiveUp, UNCHANGED env
    PROVE  PInv'
<1>1. /\ state' = 255 /\ retry' = 0 /\ packet' = packet /\ torn' = torn /\ out' = out
      /\ requests' = requests /\ env' = env /\ pc' = "ms" /\ retry >= 5
      /\ state < Size /\ ~Accepts(scancode.val)
      /\ OneAtATime => ring = <<>> /\ ~Holding' /\ OneAtATime'
  BY Emptied, Places, TableSize DEF GiveUp, RetriesLeft, device
<1>2. requests \in Nat /\ retry \in Nat /\ state # 52
  BY <1>1, Places, TableSize DEF PInv, Accounted
<1>3. Unreported'
  BY <1>1 DEF Unreported
<1>4. env.prompt => \/ InStep /\ ~env.wheel /\ out = <<>>
                    \/ Late
  <2>1. ~VeryLate
    BY <1>1 DEF VeryLate
  <2> QED
    BY <1>1, <2>1, Refused DEF PInv
<1>5. env.prompt => OneAtATime
  BY <1>4 DEF InStep, Late
<1>6. Timely'
  BY <1>1, <1>5 DEF Timely, Done
<1>7. env.prompt /\ env.wheel => requests > 3
  <2>1. env.prompt /\ env.wheel => Late /\ retry <= 1 + requests
    BY <1>4 DEF PInv, Accounted
  <2> QED
    BY <1>1, <1>2, <2>1
<1>8. Accounted'
  <2>1. ~Late' /\ requests' \in Nat /\ retry' <= 2 + requests'
    BY <1>1, <1>2 DEF Late
  <2>2. env.prompt /\ env.wheel => ~(requests' <= 3)
    BY <1>1, <1>2, <1>7
  <2> QED
    BY <1>1, <2>1, <2>2 DEF Accounted
<1>9. Uncut'
  <2> SUFFICES ASSUME env.prompt, requests = 0 PROVE Uncut'
    BY <1>1 DEF Uncut
  <2>1. ~Late
    <3>1. Late => retry <= 1
      BY DEF PInv, Accounted
    <3> QED
      BY <1>1, <1>2, <3>1
  <2>2. ~env.wheel /\ out = <<>> /\ ~Holding'
    BY <1>1, <1>4, <1>5, <2>1
  <2>3. ~torn /\ packet = <<>>
    BY <1>2 DEF PInv, Uncut
  <2> QED
    BY <1>1, <2>2, <2>3 DEF Uncut
<1> QED
  BY <1>3, <1>6, <1>8, <1>9 DEF PInv

-----------------------------------------------------------------------------
(* Streaming: the first of the line joins the bytes gathered.               *)
LEMMA SkipOnTime ==
    ASSUME IInv, PInv, EventFilter, Skip, UNCHANGED env
    PROVE  PInv'
<1>1. /\ state \in {52, 255} /\ state' = state /\ retry' = retry /\ packet' = packet
      /\ torn' = torn /\ requests' = requests /\ env' = env /\ mouse' = mouse
      /\ pc # "boot" /\ pc' = "ms" /\ packet = <<>> /\ ~Bit3(scancode.val)
      /\ Holding /\ Hand = scancode
      /\ OneAtATime => ring = <<>> /\ ~Holding' /\ OneAtATime'
  BY Emptied, Places DEF Skip, filter, device
<1>2. Timely'
  <2>1. env.prompt => Done
    BY <1>1 DEF PInv, Timely, Booting, InStep, Late, VeryLate
  <2> QED
    BY <1>1, <2>1 DEF Timely, Done
<1>3. Unreported'
  BY <1>1 DEF Unreported
<1>4. Accounted'
  <2>1. ~Late'
    BY <1>1 DEF Late
  <2> QED
    BY <1>1, <2>1 DEF PInv, Accounted
<1>5. ~(env.prompt /\ requests = 0)
  <2> SUFFICES ASSUME env.prompt, requests = 0 PROVE FALSE
    OBVIOUS
  <2>1. state = 52 /\ Framed
    BY <1>1 DEF PInv, Uncut
  <2>2. Held = 1 /\ Len(packet) = 0 /\ Len(out) \in Nat
    BY <1>1, <2>1, Places DEF Held
  <2>3. Line = 1 + Len(out) /\ 1 \in 1..Line
    BY <2>2 DEF Line
  <2>4. At(1).val = 8
    BY <2>1, <2>3 DEF Framed
  <2>5. At(1) = scancode
    BY <1>1, <2>2 DEF At
  <2> QED
    BY <1>1, <2>4, <2>5 DEF Bit3
<1>6. Uncut'
  BY <1>1, <1>5 DEF Uncut
<1> QED
  BY <1>2, <1>3, <1>4, <1>6 DEF PInv

LEMMA GatherInLine ==
    ASSUME IInv, PInv, EventFilter, Gather, UNCHANGED env, env.prompt, requests = 0,
           state = 52, ~Holding'
    PROVE  Framed' /\ ~torn'
<1>1. /\ packet \in Seq(Element) /\ scancode \in Element /\ Len(packet) \in Nat
      /\ Len(packet) <= 3 /\ Len(out) \in Nat /\ ~torn /\ Framed /\ state' = 52 /\ out' = out
      /\ Holding /\ Hand = scancode
  BY Places, Emptied DEF PInv, Uncut, Gather, device
<1>2. Held = 1 /\ Held' = 0
  BY <1>1 DEF Held
<1>3. Line = Len(packet) + 1 + Len(out) /\ Line \in Nat /\ Line % 4 = 0
  BY <1>1, <1>2 DEF Line, Framed
<1> DEFINE gathered == Append(packet, scancode)
<1>4. /\ Len(gathered) = Len(packet) + 1
      /\ \A i \in 1..Len(packet) + 1 :
            gathered[i] = IF i <= Len(packet) THEN packet[i] ELSE scancode
  BY <1>1
<1>5. \A i \in 1..Len(packet) + 1 : gathered[i] = At(i)
  BY <1>1, <1>2, <1>4 DEF At
<1>6. /\ PacketFull(gathered) => packet' = <<>> /\ torn' = (torn \/ ~Whole(gathered))
      /\ ~PacketFull(gathered) => packet' = gathered /\ torn' = torn
  BY DEF Gather
<1> HIDE DEF gathered
<1>7. CASE ~PacketFull(gathered)
  <2>1. packet' = gathered /\ Len(packet') = Len(packet) + 1 /\ torn' = torn
    BY <1>4, <1>6, <1>7
  <2>2. Line' = Line
    BY <1>1, <1>2, <1>3, <2>1 DEF Line
  <2>3. ASSUME NEW i \in 1..Line PROVE At(i)' = At(i)
    <3>1. CASE i <= Len(packet) + 1
      <4>1. At(i)' = packet'[i]
        BY <2>1, <3>1 DEF At
      <4> QED
        BY <1>1, <1>3, <1>5, <2>1, <3>1, <4>1
    <3>2. CASE i > Len(packet) + 1
      <4>1. At(i)' = out[i - (Len(packet) + 1) - 0]
        BY <1>1, <1>2, <1>3, <2>1, <3>2 DEF At
      <4>2. At(i) = out[i - Len(packet) - 1]
        BY <1>1, <1>2, <1>3, <3>2 DEF At
      <4>3. i - (Len(packet) + 1) - 0 = i - Len(packet) - 1
        BY <1>1, <1>3
      <4> QED
        BY <4>1, <4>2, <4>3
    <3> QED
      BY <1>1, <1>3, <3>1, <3>2
  <2> QED
    BY <1>1, <1>3, <2>1, <2>2, <2>3, LineKept
<1>8. CASE PacketFull(gathered)
  <2>1. Len(packet) >= 3
    <3>1. \A n \in Nat : n = 4 => n > 3
      OBVIOUS
    <3>2. Len(gathered) \in Nat
      BY <1>1, <1>4
    <3>3. Len(gathered) > 3
      BY <1>8, <3>1, <3>2, Zenon DEF PacketFull
    <3> QED
      BY <1>1, <1>4, <3>3
  <2>2. /\ packet' = <<>> /\ torn' = (torn \/ ~Whole(gathered))
        /\ Line = Len(out) + 4 /\ \A i \in 1..4 : gathered[i] = At(i)
    <3>1. packet' = <<>> /\ torn' = (torn \/ ~Whole(gathered))
      BY <1>6, <1>8
    <3>2. Line = Len(out) + 4
      BY <1>1, <1>3, <2>1
    <3>3. \A i \in 1..4 : gathered[i] = At(i)
      BY <1>1, <1>5, <2>1
    <3> QED
      BY <3>1, <3>2, <3>3
  <2>3. Whole(gathered)
    <3>1. 1 \in 1..Line /\ 2 \in 1..Line /\ 3 \in 1..Line /\ 4 \in 1..Line
      BY <1>1, <2>2
    <3>2. At(1).part = 1
      BY <1>1, <3>1 DEF Framed
    <3>3. At(2).part = At(1).part + 1 /\ At(2).of = At(1).of
      BY <1>1, <3>1 DEF Framed
    <3>4. At(3).part = At(2).part + 1 /\ At(3).of = At(2).of
      BY <1>1, <3>1 DEF Framed
    <3>5. At(4).part = At(3).part + 1 /\ At(4).of = At(3).of
      BY <1>1, <3>1 DEF Framed
    <3>6. \A i \in 1..4 : At(i).part = i /\ At(i).of = At(1).of
      BY <3>2, <3>3, <3>4, <3>5
    <3> QED
      BY <2>2, <3>6 DEF Whole
  <2>4. ~torn'
    BY <1>1, <2>2, <2>3
  <2>5. Line' = Len(out) /\ Line' = Line - 4
    BY <1>1, <1>2, <2>2 DEF Line
  <2>6. ASSUME NEW i \in 1..Len(out)
        PROVE  i \in Nat /\ At(i)' = At(i + 4) /\ (i - 1 \in 1..Len(out) => At(i - 1)' = At(i + 3))
    <3>1. ASSUME NEW j \in 1..Len(out) PROVE At(j)' = At(j + 4)
      <4>1. Len(packet') = 0
        BY <2>2
      <4>2. ~(j <= Len(packet')) /\ ~(j <= Len(packet') + Held')
        BY <1>2, <4>1
      <4>3. At(j)' = out[j - 0 - 0]
        BY <1>1, <1>2, <4>1, <4>2 DEF At
      <4>4. At(j + 4) = out[j + 4 - 3 - 1]
        BY <1>1, <1>2, <2>1 DEF At
      <4>5. j - 0 - 0 = j + 4 - 3 - 1
        OBVIOUS
      <4> QED
        BY <4>3, <4>4, <4>5
    <3>2. i - 1 \in 1..Len(out) => At(i - 1)' = At(i - 1 + 4)
      BY <3>1
    <3>3. i - 1 + 4 = i + 3
      OBVIOUS
    <3> QED
      BY <3>1, <3>2, <3>3
  <2>7. ASSUME NEW i \in 1..Len(out)
        PROVE  IF i % 4 = 1 THEN At(i)'.part = 1 /\ At(i)'.val = 8
               ELSE At(i)'.part = At(i - 1)'.part + 1 /\ At(i)'.of = At(i - 1)'.of
    <3>1. i + 4 \in 1..Line /\ (i + 4) % 4 = i % 4 /\ i + 4 - 1 = i + 3
      BY <1>1, <2>2
    <3>2. CASE i % 4 = 1
      BY <1>1, <2>6, <3>1, <3>2 DEF Framed
    <3>3. CASE i % 4 # 1
      <4>1. i - 1 \in 1..Len(out)
        BY <1>1, <3>3
      <4>2. At(i)' = At(i + 4) /\ At(i - 1)' = At(i + 3)
        BY <2>6, <4>1
      <4>3. At(i + 4).part = At(i + 4 - 1).part + 1 /\ At(i + 4).of = At(i + 4 - 1).of
        BY <1>1, <3>1, <3>3 DEF Framed
      <4> QED
        BY <3>1, <3>3, <4>2, <4>3
    <3> QED
      BY <3>2, <3>3
  <2>8. Line' % 4 = 0
    BY <1>1, <1>3, <2>2, <2>5
  <2> QED
    BY <2>4, <2>5, <2>7, <2>8 DEF Framed
<1> QED
  BY <1>7, <1>8

LEMMA GatherOnTime ==
    ASSUME IInv, PInv, EventFilter, Gather, UNCHANGED env
    PROVE  PInv'
<1>1. /\ state \in {52, 255} /\ state' = state /\ retry' = 0
      /\ requests' = requests /\ env' = env
      /\ pc # "boot" /\ pc' = "ms" /\ Holding
      /\ OneAtATime => ring = <<>> /\ ~Holding' /\ OneAtATime'
  BY Emptied, Places DEF Gather
<1>2. Timely' /\ (env.prompt => ~Holding')
  <2>1. env.prompt => Done
    BY <1>1 DEF PInv, Timely, Booting, InStep, Late, VeryLate
  <2> QED
    BY <1>1, <2>1 DEF Timely, Done
<1>3. Unreported'
  BY <1>1 DEF Unreported
<1>4. Accounted'
  <2>1. ~Late'
    BY <1>1 DEF Late
  <2>2. requests' \in Nat
    BY <1>1 DEF PInv, Accounted
  <2>3. retry' <= 2 + requests'
    BY <1>1, <2>2
  <2> QED
    BY <1>1, <2>1, <2>2, <2>3 DEF PInv, Accounted
<1>5. Uncut'
  <2> SUFFICES ASSUME env.prompt, requests = 0 PROVE Uncut'
    BY <1>1 DEF Uncut
  <2>1. state = 52
    BY <1>1 DEF PInv, Uncut
  <2>2. Framed' /\ ~torn'
    BY <1>2, <2>1, GatherInLine
  <2> QED
    BY <1>1, <2>1, <2>2 DEF Uncut
<1> QED
  BY <1>2, <1>3, <1>4, <1>5 DEF PInv

-----------------------------------------------------------------------------
LEMMA InitPInv == Init => PInv
<1> SUFFICES ASSUME Init PROVE PInv
  OBVIOUS
<1>1. Timely
  BY DEF Init, Timely, Booting
<1>2. Unreported
  BY DEF Init, Unreported, PoweredUp
<1>3. Accounted
  BY DEF Init, Accounted
<1>4. Uncut
  BY DEF Init, Uncut
<1> QED
  BY <1>1, <1>2, <1>3, <1>4 DEF PInv

LEMMA NextPInv == IInv /\ PInv /\ [Next]_vars => PInv'
<1> SUFFICES ASSUME IInv, PInv, [Next]_vars PROVE PInv'
  OBVIOUS
<1>1. CASE Next
  <2>1. UNCHANGED env
    BY <1>1 DEF Next
  <2>2. CASE Boot \/ KbTask \/ Poll
    BY <2>1, <2>2, LoopOnTime
  <2>3. CASE EventFilter
    <3>1. Advance \/ Retry \/ GiveUp \/ Skip \/ Gather
      BY <2>3 DEF EventFilter
    <3> QED
      BY <2>1, <2>3, <3>1, AdvanceOnTime, RetryOnTime, GiveUpOnTime, SkipOnTime, GatherOnTime
  <2>4. CASE Deliver
    BY <2>1, <2>4, DeliverOnTime
  <2>5. CASE Move
    BY <2>1, <2>5, MoveOnTime
  <2> QED
    BY <1>1, <2>2, <2>3, <2>4, <2>5 DEF Next, MainLoop
<1>2. CASE UNCHANGED vars
  <2>1. UNCHANGED <<env, pc, scancode, state, retry, packet, ring, mouse, out, requests, torn>>
    BY <1>2 DEF vars
  <2>2. Timely' = Timely
    BY <2>1 DEF Timely, Booting, InStep, Late, VeryLate, Done, OneAtATime, Holding, Hand, First,
                Rest, Say, NoAnswer
  <2>3. Unreported' = Unreported
    BY <2>1 DEF Unreported
  <2>4. Accounted' = Accounted
    BY <2>1 DEF Accounted, Late, OneAtATime, Holding, Hand, Say, First
  <2>5. Uncut' = Uncut
    BY <2>1 DEF Uncut, Framed, Line, Held, At, Holding, Hand
  <2> QED
    BY <2>2, <2>3, <2>4, <2>5 DEF PInv
<1> QED
  BY <1>1, <1>2

LEMMA Punctual == Spec => [](IInv /\ PInv)
<1>1. Init => IInv /\ PInv
  BY InitIInv, InitPInv
<1>2. IInv /\ PInv /\ [Next]_vars => (IInv /\ PInv)'
  BY NextIInv, NextPInv
<1> QED
  BY <1>1, <1>2, PTL DEF Spec

(* A main loop that keeps up and asks for at most three resets never gives   *)
(* up a wheel mouse: the byte in hand at each of them is mistaken for an     *)
(* answer, and so are the two that come before the first reset, but that     *)
(* costs no more than the five retries.                                     *)
THEOREM NeverAFalseAlarm == Spec => []NoFalseAlarm
<1>1. IInv /\ PInv => NoFalseAlarm
  BY TableSize DEF PInv, Accounted, NoFalseAlarm
<1> QED
  BY <1>1, Punctual, PTL

(* A main loop that keeps up and asks for no reset dispatches the packets of *)
(* the mouse and nothing else: the bytes gathered, in hand and still to be   *)
(* sent stand in line, and the line is cut where the packets end.           *)
THEOREM PacketsStayWhole == Spec => []PacketsIntactUnlessReset
<1>1. IInv /\ PInv => PacketsIntactUnlessReset
  BY DEF PInv, Accounted, Uncut, PacketsIntactUnlessReset
<1> QED
  BY <1>1, Punctual, PTL
=============================================================================
