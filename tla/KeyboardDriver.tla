---------------------------- MODULE KeyboardDriver ----------------------------
(***************************************************************************)
(* ps-2/KeyboardDriver.c above the wire: the byte ring, the E0/F0 prefix    *)
(* decoder, the event filter that talks to the keyboard about its LEDs and  *)
(* turns keys into the joystick report, the LED heartbeat, and the keyboard *)
(* with its user at the other end.                                         *)
(*                                                                         *)
(* KB_EventTask handles at most one byte and is one step of the main loop;  *)
(* bytes arrive in between.  When the driver sends a command the keyboard   *)
(* answers before anything else; what it was about to say it may repeat     *)
(* afterwards or forget.                                                   *)
(***************************************************************************)
EXTENDS Naturals, Sequences

CONSTANTS Keys,         \* keys of the keyboard: [ext, byte], ext if E0 comes first
          RingSize,     \* KB_BUFSIZE
          Resends,      \* kb_retry below which a byte is sent again (4)
          Resets,       \* kb_retry below which the keyboard is reset (8)
          MaxEvents,    \* bound: how often the user presses or releases a key
          MaxFaults     \* bound: how many commands reach the keyboard damaged

ASSUME ConstantsAssumption ==
    /\ Keys \subseteq [ext : BOOLEAN, byte : STRING \ {"E0", "F0", "FA", "FE", "AA"}]
    /\ RingSize \in 1..255 /\ Resends \in 0..255 /\ Resets \in 0..255
    /\ Resends + 1 < Resets
    /\ MaxEvents \in Nat /\ MaxFaults \in Nat

VARIABLES ring,         \* kb_ringbuffer
          e0_f0,        \* kb_e0_f0: the prefixes seen
          lastbyte, retry, leds, cmd,   \* kb_lastbyte, kb_retry, kb_leds, kb_cmd
          buttons,      \* joystick_buttons without the direction
          dir,          \* the direction in joystick_buttons
          axes,         \* joystick_axis_x and joystick_axis_y
          answers,      \* keyboard: what it has to say to the last command
          codes,        \* keyboard: the key codes it has to send after that
          kbd,          \* keyboard: LEDs lit, and whether it awaits their new state
          held,         \* keyboard: keys that are down
          events, faults,
          disturbed,    \* history: a byte found the ring full, or a command was sent
                        \* while a key code was under way
          confused      \* history: the keyboard got a byte it could not understand

led == <<lastbyte, retry, leds, cmd>>
report == <<buttons, dir, axes>>
wire == <<answers, codes, kbd, faults, disturbed, confused>>
vars == <<ring, e0_f0, lastbyte, retry, leds, cmd, buttons, dir, axes, answers, codes, kbd, held,
          events, faults, disturbed, confused>>

-----------------------------------------------------------------------------
(* The switch of KB_KeyboardEventFilter: what a key does to the report. *)

ButtonOf == [Space |-> "CROSS", RightControl |-> "CIRCLE", E |-> "TRIANGLE", R |-> "SQUARE",
             LeftShift |-> "LEFT_HAT", Escape |-> "START", Tab |-> "SELECT", G |-> "R2",
             F |-> "RIGHT_HAT", T |-> "L2"]
DirectionOf == [D1 |-> "UP", D2 |-> "RIGHT", D3 |-> "LEFT", D4 |-> "DOWN"]
AxisOf == [A |-> "x", D |-> "x", W |-> "y", S |-> "y"]
DeflectionOf == [A |-> 0, D |-> 255, W |-> 0, S |-> 255]
Centre == [x |-> 128, y |-> 128]

LockKeys == [ScrollLock |-> "scroll", NumLock |-> "num", CapsLock |-> "caps"]

(* Bytes sent to the keyboard. *)
SET_LEDS == [byte |-> "ED", leds |-> {}]
RESET == [byte |-> "FF", leds |-> {}]
LedState(s) == [byte |-> "leds", leds |-> s]

Answers == {"FA", "FE", "AA"}

Init ==
    /\ ring = <<>> /\ e0_f0 = {}
    /\ lastbyte = LedState({}) /\ retry = 0 /\ leds = {} /\ cmd = {}
    /\ buttons = {} /\ dir = "NO_BUTTON" /\ axes = Centre
    /\ answers = <<"AA">> /\ codes = <<>> /\ kbd = [leds |-> {}, awaits |-> FALSE] /\ held = {}
    /\ events = 0 /\ faults = 0
    /\ disturbed = FALSE /\ confused = FALSE

-----------------------------------------------------------------------------
(* The keyboard. *)

Understands(b) == b \in {SET_LEDS, RESET} \/ kbd.awaits

After(b) ==
    IF b = RESET THEN [leds |-> {}, awaits |-> FALSE]
    ELSE IF b = SET_LEDS THEN [kbd EXCEPT !.awaits = TRUE]
    ELSE IF kbd.awaits THEN [leds |-> b.leds, awaits |-> FALSE]
    ELSE kbd

Answer(b) == IF b = RESET THEN <<"FA", "AA">>
             ELSE IF Understands(b) THEN <<"FA">> ELSE <<"FE">>

KB_Send(b) ==
    /\ codes' \in {<<>>, codes}
    /\ disturbed' = (disturbed \/ codes # <<>>)
    /\ \/ /\ kbd' = After(b) /\ answers' = Answer(b)
          /\ confused' = (confused \/ ~Understands(b))
          /\ UNCHANGED faults
       \/ /\ faults < MaxFaults /\ faults' = faults + 1
          /\ answers' = <<"FE">>
          /\ UNCHANGED <<kbd, confused>>

RoomForOneMore == Len(ring) <= RingSize                   \* mutant
HasRoom == Len(ring) < RingSize

(* A byte reaches the interrupt and RING_AddElement. *)
RING_AddElement(byte) ==
    IF HasRoom THEN ring' = Append(ring, byte) /\ UNCHANGED disturbed
               ELSE disturbed' = TRUE /\ UNCHANGED ring

Deliver ==
    /\ \/ /\ answers # <<>> /\ answers' = Tail(answers) /\ UNCHANGED codes
          /\ RING_AddElement(Head(answers))
       \/ /\ answers = <<>> /\ codes # <<>> /\ codes' = Tail(codes) /\ UNCHANGED answers
          /\ RING_AddElement(Head(codes))
    /\ UNCHANGED <<e0_f0, led, report, kbd, held, events, faults, confused>>

MakeCode(k) == IF k.ext THEN <<"E0", k.byte>> ELSE <<k.byte>>
BreakCode(k) == IF k.ext THEN <<"E0", "F0", k.byte>> ELSE <<"F0", k.byte>>

(* A key goes down or repeats, or goes up. *)
User(k) ==
    /\ events < MaxEvents /\ events' = events + 1
    /\ \/ held' = held \cup {k} /\ codes' = codes \o MakeCode(k)
       \/ k \in held /\ held' = held \ {k} /\ codes' = codes \o BreakCode(k)
    /\ UNCHANGED <<ring, e0_f0, led, report, answers, kbd, faults, disturbed, confused>>

-----------------------------------------------------------------------------
(* KB_KeyboardEventFilter, first part: LEDs and retries. *)

AskForLeds(key) ==
    /\ KB_Send(SET_LEDS) /\ lastbyte' = SET_LEDS
    /\ cmd' = {LockKeys[key]}
    /\ retry' = 0
    /\ UNCHANGED leds

SwitchOn(set) == set \cup cmd                             \* mutant
Toggle(set) == (set \ cmd) \cup (cmd \ set)

Acknowledges(byte) == byte = "FA"                         \* mutant
AcknowledgesRequest(byte) == byte = "FA" /\ lastbyte = SET_LEDS

SendLedsLate ==                                           \* mutant
    /\ leds' = Toggle(leds)
    /\ KB_Send(LedState(leds)) /\ lastbyte' = LedState(leds')
    /\ retry' = 0
    /\ UNCHANGED cmd

SendLeds ==
    /\ leds' = Toggle(leds)
    /\ KB_Send(LedState(leds')) /\ lastbyte' = LedState(leds')
    /\ retry' = 0
    /\ UNCHANGED cmd

(* kb_retry is incremented by each test that is made. *)
SendAgain ==
    /\ \/ /\ retry < Resends /\ retry' = retry + 1
          /\ KB_Send(lastbyte) /\ UNCHANGED lastbyte
       \/ /\ retry >= Resends /\ retry' = (retry + 2) % 256
          /\ \/ /\ (retry + 1) % 256 < Resets
                /\ KB_Send(RESET) /\ lastbyte' = RESET
             \/ /\ (retry + 1) % 256 >= Resets
                /\ UNCHANGED <<wire, lastbyte>>
    /\ UNCHANGED <<leds, cmd>>

(* M resets the mouse: nothing changes here. *)
Dialogue(byte) ==
    \/ byte \in DOMAIN LockKeys /\ AskForLeds(byte)
    \/ AcknowledgesRequest(byte) /\ SendLeds
    \/ byte = "FE" /\ SendAgain
    \/ /\ byte \notin DOMAIN LockKeys /\ ~AcknowledgesRequest(byte) /\ byte # "FE"
       /\ UNCHANGED <<led, wire>>

(* The second part: the report, which usb_joystick_send then sends. *)

KeyPress(key) ==
    /\ buttons' = IF key \in DOMAIN ButtonOf THEN buttons \cup {ButtonOf[key]} ELSE buttons
    /\ dir' = IF key \in DOMAIN DirectionOf THEN DirectionOf[key] ELSE dir
    /\ axes' = IF key \in DOMAIN AxisOf THEN [axes EXCEPT ![AxisOf[key]] = DeflectionOf[key]]
                                        ELSE axes

ReleaseStays(key) ==                                      \* mutant
    /\ buttons' = IF key \in DOMAIN ButtonOf THEN buttons \ {ButtonOf[key]} ELSE buttons
    /\ dir' = dir
    /\ axes' = IF key \in DOMAIN AxisOf THEN [axes EXCEPT ![AxisOf[key]] = 128] ELSE axes

KeyRelease(key) ==
    /\ buttons' = IF key \in DOMAIN ButtonOf THEN buttons \ {ButtonOf[key]} ELSE buttons
    /\ dir' = IF key \in DOMAIN DirectionOf THEN "NO_BUTTON" ELSE dir
    /\ axes' = IF key \in DOMAIN AxisOf THEN [axes EXCEPT ![AxisOf[key]] = 128] ELSE axes

(* Codes that follow E0 are none of the cases of either part. *)
EventFilter(prefixes, byte) ==
    \/ prefixes = {} /\ Dialogue(byte) /\ KeyPress(byte)
    \/ prefixes = {"F0"} /\ KeyRelease(byte) /\ UNCHANGED <<led, wire>>
    \/ "E0" \in prefixes /\ UNCHANGED <<led, wire, report>>

-----------------------------------------------------------------------------
(* KB_EventTask *)

BreakForgetsE0 == {"F0"}                                  \* mutant
BreakPrefix == e0_f0 \cup {"F0"}

(* KB_GetScancode found a prefix and returns 0. *)
TakePrefix ==
    /\ ring # <<>> /\ Head(ring) \in {"E0", "F0"}
    /\ ring' = Tail(ring)
    /\ e0_f0' = IF Head(ring) = "E0" THEN {"E0"} ELSE BreakPrefix

(* It returns a code. *)
TakeCode ==
    /\ ring # <<>> /\ Head(ring) \notin {"E0", "F0"}
    /\ ring' = Tail(ring) /\ e0_f0' = {}
    /\ EventFilter(e0_f0, Head(ring))

(* kb_led_delay has run down: a press of Scroll Lock is made up, whatever   *)
(* dialogue with the keyboard is under way.                                *)
Beat == EventFilter({}, "ScrollLock")

Poll ==
    /\ \/ TakePrefix /\ (UNCHANGED <<led, wire, report>> \/ Beat)
       \/ TakeCode
    /\ UNCHANGED <<held, events>>

(* Nothing to read: kb_led_delay decides. *)
Heartbeat ==
    /\ ring = <<>> /\ Beat
    /\ UNCHANGED <<ring, e0_f0, held, events>>

KB_EventTask == Poll \/ Heartbeat

-----------------------------------------------------------------------------
Next == KB_EventTask \/ Deliver \/ \E k \in Keys : User(k)

Spec == Init /\ [][Next]_vars

(* The main loop polls, the delay runs down, the keyboard sends.            *)
FairSpec == Spec /\ WF_vars(Poll) /\ WF_vars(Heartbeat) /\ WF_vars(Deliver)

-----------------------------------------------------------------------------
Bytes == {"E0", "F0"} \cup Answers \cup {k.byte : k \in Keys}
Leds == {"scroll", "num", "caps"}

TypeOK ==
    /\ ring \in Seq(Bytes) /\ Len(ring) <= RingSize
    /\ e0_f0 \subseteq {"E0", "F0"}
    /\ lastbyte \in {SET_LEDS, RESET} \cup {LedState(s) : s \in SUBSET Leds}
    /\ retry \in 0..255 /\ leds \subseteq Leds /\ cmd \subseteq Leds
    /\ buttons \subseteq {ButtonOf[k] : k \in DOMAIN ButtonOf}
    /\ dir \in {"NO_BUTTON"} \cup {DirectionOf[k] : k \in DOMAIN DirectionOf}
    /\ axes \in [{"x", "y"} -> {0, 128, 255}]
    /\ answers \in Seq(Answers) /\ codes \in Seq(Bytes) /\ held \subseteq Keys
    /\ kbd \in [leds : SUBSET Leds, awaits : BOOLEAN]

Quiet == ring = <<>> /\ answers = <<>> /\ codes = <<>>

(* As long as no key code was cut in two by a command or by a full ring:    *)
(* when every code has been handled, a button is pressed exactly when its   *)
(* key is down (an E0 key that shares its last byte changes nothing, and    *)
(* the LED dialogue running at the same time neither), and when all keys    *)
(* are up the report is the neutral one: buttons, direction and axes.       *)
ReportFollowsKeys ==
    Quiet /\ ~disturbed =>
        /\ \A k \in Keys : ~k.ext /\ k.byte \in DOMAIN ButtonOf =>
               (ButtonOf[k.byte] \in buttons <=> k \in held)
        /\ held = {} => buttons = {} /\ dir = "NO_BUTTON" /\ axes = Centre

(* The LED state is only sent to a keyboard that waits for it, unless the   *)
(* line damaged the request.                                               *)
LedStateIsAwaited == confused => faults > 0

(* Driver and keyboard agree on the LEDs once the dialogue is over, also    *)
(* when a part of it had to be repeated.                                   *)
LedsAgree == Quiet /\ ~disturbed /\ lastbyte # RESET => kbd.leds = leds

(* "Enable heartbeat": the Scroll Lock LED keeps going on and off.          *)
HeartbeatGoesOn ==
    []<>("scroll" \in kbd.leds) /\ []<>("scroll" \notin kbd.leds)
=============================================================================
