---------------------------- MODULE SixaxisReports ----------------------------
(***************************************************************************)
(* tools/sixpair-emu, the other half of the firmware: while SixaxisPairEmu  *)
(* answers control requests, HID_Task sends the reports in which the PS     *)
(* button is pressed once.  The host reads them from a single bank; the     *)
(* interrupt of every frame counts the idle period down, in the middle of   *)
(* the two accesses main() makes to that counter of two bytes.              *)
(*                                                                         *)
(* A report is "up" or "down", the state of the PS button; of the control   *)
(* requests only SET_CONFIGURATION and SetIdle matter.                      *)
(***************************************************************************)
EXTENDS Integers

CONSTANTS Settle,        \* iterations before the PS button is pressed (2000)
          Hold,          \* iterations before it is released (1000)
          Base,          \* values of a byte (256)
          FirstIdle,     \* IdleCount at power-up (500)
          Durations,     \* what SetIdle may carry
          Interval,      \* frames within which a host reads a configured device
          MaxFaults      \* bound: bus resets, suspensions and repeated configurations

ASSUME ConstantsAssumption ==
    /\ Settle \in Nat \ {0} /\ Hold \in Nat \ {0} /\ Interval \in Nat \ {0}
    /\ Base \in Nat \ {0, 1} /\ FirstIdle \in 0..Base * Base - 1
    /\ Durations \subseteq {d \in Nat : 4 * d < Base * Base} /\ MaxFaults \in Nat

VARIABLES pc,            \* main()
          phase, i,      \* "before", "pressed", "released"; iterations left
          sendReport,    \* SendReport
          prev,          \* PrevSixaxisReportData
          IdleCount,
          IdleMSRemaining,
          half,          \* the byte of IdleMSRemaining read first, and which
          device,        \* USB_DeviceState
          configuration, \* USB_ConfigurationNumber
          wake,          \* the wake-up interrupt is enabled, the suspend interrupt is not
          sofs,          \* whether the interrupt of a frame is enabled
          enabled, bank, \* endpoint 1
          selected,      \* UENUM
          waited,        \* frames since the host read endpoint 1
          got,           \* the last report the host read
          ticked,        \* a millisecond has passed since the last delay
          faults,        \* how many faults there were
          since, period, torn, chance, pressSeen   \* history, see the properties

counter == <<IdleCount, IdleMSRemaining, half>>
usb == <<device, configuration, wake, sofs, enabled, bank, selected>>
host == <<waited, got>>
history == <<since, period, torn, chance, pressSeen>>
vars == <<pc, phase, i, sendReport, prev, counter, usb, host, ticked, faults, history>>

(* RefReportData.buffer[4] *)
Ref == IF phase = "pressed" THEN "down" ELSE "up"

NoHalf == <<"none", 0>>
Low(n) == n % Base
High(n) == n \div Base

Init ==
    /\ pc = "delay" /\ phase = "before" /\ i = Settle
    /\ sendReport = TRUE /\ prev = "none"
    /\ IdleCount = FirstIdle /\ IdleMSRemaining = 0 /\ half = NoHalf
    /\ device = "Powered" /\ configuration = 0 /\ wake = FALSE /\ sofs = FALSE
    /\ enabled = FALSE /\ bank = "none" /\ selected = 0
    /\ waited = 0 /\ got = "none" /\ ticked = FALSE /\ faults = 0
    /\ since = 0 /\ period = 0 /\ torn = FALSE /\ chance = FALSE /\ pressSeen = FALSE

-----------------------------------------------------------------------------
(* main() and HID_Task *)

(* _delay_ms(1), but not in the last loop. *)
Delay ==
    /\ pc = "delay" /\ pc' = "state"
    /\ phase = "released" \/ ticked
    /\ ticked' = FALSE
    /\ UNCHANGED <<phase, i, sendReport, prev, counter, usb, host, faults, history>>

HID_Task ==
    /\ pc = "state"
    /\ pc' = IF device = "Configured" THEN "compare" ELSE "task"
    /\ UNCHANGED <<phase, i, sendReport, prev, counter, usb, host, ticked, faults, history>>

Compare ==
    /\ pc = "compare"
    /\ sendReport' = (prev # Ref)
    /\ pc' = IF IdleCount # 0 THEN "read" ELSE "select"
    /\ UNCHANGED <<phase, i, prev, counter, usb, host, ticked, faults, history>>

(* IdleMSRemaining is read a byte at a time, in the order of the compiler. *)
ReadFirst ==
    /\ pc = "read" /\ pc' = "read on"
    /\ half' \in {<<"low", Low(IdleMSRemaining)>>, <<"high", High(IdleMSRemaining)>>}
    /\ UNCHANGED <<phase, i, sendReport, prev, IdleCount, IdleMSRemaining, usb, host, ticked,
                   faults, history>>

ReadSecond ==
    LET second == IF half[1] = "low" THEN High(IdleMSRemaining) ELSE Low(IdleMSRemaining) IN
    /\ pc = "read on"
    /\ pc' = IF half[2] = 0 /\ second = 0 THEN "rearm" ELSE "select"
    /\ half' = NoHalf
    /\ UNCHANGED <<phase, i, sendReport, prev, IdleCount, IdleMSRemaining, usb, host, ticked,
                   faults, history>>

RearmShort == IF IdleCount > 1 THEN IdleCount - 1 ELSE IdleCount      \* mutant
Rearmed == IdleCount

(* It is written a byte at a time, too. *)
WriteFirst ==
    /\ pc = "rearm" /\ pc' = "rearm on"
    /\ \/ /\ half' = <<"low", Low(Rearmed)>>
          /\ IdleMSRemaining' = High(IdleMSRemaining) * Base + Low(Rearmed)
       \/ /\ half' = <<"high", High(Rearmed)>>
          /\ IdleMSRemaining' = High(Rearmed) * Base + Low(IdleMSRemaining)
    /\ torn' = FALSE
    /\ UNCHANGED <<phase, i, sendReport, prev, IdleCount, usb, host, ticked, faults, since,
                   period, chance, pressSeen>>

OnlyChanges == UNCHANGED sendReport                       \* mutant
MustSend == sendReport' = TRUE

WriteSecond ==
    /\ pc = "rearm on" /\ pc' = "select"
    /\ IdleMSRemaining' = IF half[1] = "low" THEN High(Rearmed) * Base + Low(IdleMSRemaining)
                                             ELSE High(IdleMSRemaining) * Base + Low(Rearmed)
    /\ half' = NoHalf /\ MustSend
    /\ since' = 0 /\ period' = IdleCount
    /\ UNCHANGED <<phase, i, prev, IdleCount, usb, host, ticked, faults, torn, chance, pressSeen>>

Select ==
    /\ pc = "select" /\ pc' = "test" /\ selected' = 1
    /\ UNCHANGED <<phase, i, sendReport, prev, counter, device, configuration, wake, sofs,
                   enabled, bank, host, ticked, faults, history>>

(* A bus reset leaves endpoint 0 selected: RWAL says nothing of that one.   *)
Endpoint_IsReadWriteAllowed ==
    IF selected = 1 THEN {enabled /\ bank = "none"} ELSE BOOLEAN

SavedAnyway == prev' = Ref                                \* mutant
NotSaved == UNCHANGED prev

Test ==
    /\ pc = "test"
    /\ \E allowed \in Endpoint_IsReadWriteAllowed :
           IF allowed /\ sendReport
           THEN pc' = "wait" /\ prev' = Ref
           ELSE pc' = "receive" /\ NotSaved
    /\ UNCHANGED <<phase, i, sendReport, counter, usb, host, ticked, faults, history>>

(* Endpoint_WaitUntilReady: the bank was free.  For endpoint 0, whose       *)
(* direction is OUT, it waits for a packet that no host sends ...          *)
WaitUntilReady ==
    /\ pc = "wait" /\ pc' = "write"
    /\ selected = 1
    /\ UNCHANGED <<phase, i, sendReport, prev, counter, usb, host, ticked, faults, history>>

(* ... until the time-out.  That counts the frames whose flag it reads      *)
(* before their interrupt does: it may come, but nothing makes it come.     *)
TimesOut ==
    /\ pc = "wait" /\ pc' = "receive"
    /\ selected = 0
    /\ UNCHANGED <<phase, i, sendReport, prev, counter, usb, host, ticked, faults, history>>

(* Into the endpoint selected now; where that of control has no room, it    *)
(* waits once more.                                                        *)
Write ==
    /\ pc = "write"
    /\ \/ selected = 1 /\ pc' = "receive" /\ bank' = Ref
       \/ selected = 0 /\ pc' \in {"wait", "receive"} /\ UNCHANGED bank
    /\ UNCHANGED <<phase, i, sendReport, prev, counter, device, configuration, wake, sofs,
                   enabled, selected, host, ticked, faults, history>>

(* What the host sends to endpoint 2 is thrown away. *)
ReceiveNextReport ==
    /\ pc = "receive" /\ pc' = "task" /\ selected' = 2
    /\ UNCHANGED <<phase, i, sendReport, prev, counter, device, configuration, wake, sofs,
                   enabled, bank, host, ticked, faults, history>>

OneTooMany == i > 0                                       \* mutant
More == i > 1

(* The end of an iteration; buffer[4] changes when a loop has run out. *)
NextIteration ==
    /\ pc' = "delay"
    /\ IF More
       THEN i' = i - 1 /\ UNCHANGED <<phase, chance>>
       ELSE \/ phase = "before" /\ phase' = "pressed" /\ i' = Hold
               /\ chance' = (device = "Configured" /\ configuration # 0 /\ enabled)
            \/ phase = "pressed" /\ phase' = "released" /\ i' = 1 /\ UNCHANGED chance
            \/ phase = "released" /\ UNCHANGED <<phase, i, chance>>

Fault == faults < MaxFaults /\ faults' = faults + 1

(* SET_CONFIGURATION: the number and the status stage, with which the       *)
(* host's driver starts anew; then what Configured depends on is read ...   *)
SetConfiguration(n) ==
    /\ pc = "task" /\ pc' = "status"
    /\ IF n = 1 /\ configuration = 0
       THEN UNCHANGED <<faults, chance>>
       ELSE Fault /\ chance' = FALSE
    /\ configuration' = n /\ waited' = 0 /\ got' = "none"
    /\ UNCHANGED <<phase, i, sendReport, prev, counter, device, wake, sofs, enabled, bank,
                   selected, ticked, since, period, torn, pressSeen>>

ReadConfiguration ==
    /\ pc = "status"
    /\ pc' = IF configuration # 0 THEN "configured" ELSE "unconfigured"
    /\ UNCHANGED <<phase, i, sendReport, prev, counter, usb, host, ticked, faults, history>>

(* ... the state is set ...                                                 *)
SetState ==
    /\ pc \in {"configured", "unconfigured"} /\ pc' = "event"
    /\ device' = IF pc = "configured" THEN "Configured" ELSE "Addressed"
    /\ UNCHANGED <<phase, i, sendReport, prev, counter, configuration, wake, sofs, enabled,
                   bank, selected, host, ticked, faults, history>>

(* ... and, whatever the number was, come the endpoints and the event of a  *)
(* frame.  Configured again, an endpoint may lose its bank.                 *)
ConfigurationChanged ==
    /\ pc = "event"
    /\ enabled' = TRUE /\ sofs' = TRUE /\ bank' \in {bank, "none"} /\ selected' = 2
    /\ NextIteration
    /\ UNCHANGED <<sendReport, prev, counter, device, configuration, wake, host, ticked,
                   faults, since, period, torn, pressSeen>>

SetIdle ==
    /\ pc = "task" /\ configuration # 0
    /\ \E d \in Durations : IdleCount' = 4 * d
    /\ NextIteration
    /\ UNCHANGED <<sendReport, prev, IdleMSRemaining, half, usb, host, ticked, faults, since,
                   period, torn, pressSeen>>

(* Any other request, or none. *)
OtherRequest ==
    /\ pc = "task"
    /\ NextIteration
    /\ UNCHANGED <<sendReport, prev, counter, usb, host, ticked, faults, since, period, torn,
                   pressSeen>>

MainLoop ==
    \/ Delay \/ HID_Task \/ Compare \/ ReadFirst \/ ReadSecond \/ WriteFirst \/ WriteSecond
    \/ Select \/ Test \/ WaitUntilReady \/ Write \/ ReceiveNextReport
    \/ ReadConfiguration \/ SetState \/ ConfigurationChanged \/ SetIdle \/ OtherRequest

-----------------------------------------------------------------------------
(* The interrupts and the host. *)

Accessing == pc \in {"read on", "rearm on"}

Decremented == IF IdleMSRemaining > 0 THEN IdleMSRemaining - 1 ELSE 0

(* The host polls endpoint 1. *)
Polled == configuration # 0 /\ enabled

(* A millisecond; on a bus that runs, also a frame. *)
Millisecond ==
    /\ ticked' = TRUE
    /\ IF device = "Suspended" \/ ~sofs
       THEN UNCHANGED <<IdleMSRemaining, waited, since, torn>>
       ELSE /\ Polled => waited < Interval
            /\ waited' = IF Polled THEN waited + 1 ELSE 0
            /\ IdleMSRemaining' = Decremented
            /\ torn' = (torn \/ Accessing)
            /\ since' = IF since < period THEN since + 1 ELSE since
    /\ UNCHANGED <<pc, phase, i, sendReport, prev, IdleCount, half, usb, got, faults, period,
                   chance, pressSeen>>

Poll ==
    /\ Polled /\ device # "Suspended"
    /\ waited' = 0 /\ bank' = "none"
    /\ got' = IF bank = "none" THEN got ELSE bank
    /\ pressSeen' = (pressSeen \/ bank = "down")
    /\ UNCHANGED <<pc, phase, i, sendReport, prev, counter, device, configuration, wake, sofs,
                   enabled, selected, ticked, faults, since, period, torn, chance>>

(* Endpoint 0 stays selected; SOFs stay enabled. *)
BusReset ==
    /\ Fault
    /\ device' = "Default" /\ configuration' = 0 /\ wake' = TRUE
    /\ enabled' = FALSE /\ bank' = "none" /\ selected' = 0
    /\ waited' = 0 /\ got' = "none" /\ chance' = FALSE
    /\ UNCHANGED <<pc, phase, i, sendReport, prev, counter, sofs, ticked, since, period, torn,
                   pressSeen>>

Suspend ==
    /\ Fault
    /\ ~wake /\ wake' = TRUE /\ device' = "Suspended" /\ chance' = FALSE
    /\ UNCHANGED <<pc, phase, i, sendReport, prev, counter, configuration, sofs, enabled, bank,
                   selected, host, ticked, since, period, torn, pressSeen>>

(* Enabled by a reset, too. *)
WakeUp ==
    /\ wake /\ wake' = FALSE
    /\ device' = IF configuration # 0 THEN "Configured" ELSE "Addressed"
    /\ UNCHANGED <<pc, phase, i, sendReport, prev, counter, configuration, sofs, enabled, bank,
                   selected, host, ticked, faults, history>>

Next ==
    \/ MainLoop \/ TimesOut \/ \E n \in {0, 1} : SetConfiguration(n)
    \/ Millisecond \/ Poll \/ BusReset \/ Suspend \/ WakeUp

Spec == Init /\ [][Next]_vars

(* Time passes, the main loop runs, and a host configures, reads and wakes  *)
(* the device; that it does so in one "task" of many is strong fairness.    *)
FairSpec ==
    /\ Spec
    /\ WF_vars(MainLoop) /\ WF_vars(Millisecond) /\ WF_vars(Poll) /\ WF_vars(WakeUp)
    /\ SF_vars(SetConfiguration(1) /\ UNCHANGED faults)

-----------------------------------------------------------------------------
Values == 0..Base * Base - 1

TypeOK ==
    /\ pc \in {"delay", "state", "compare", "read", "read on", "rearm", "rearm on", "select",
               "test", "wait", "write", "receive", "task", "status", "configured",
               "unconfigured", "event"}
    /\ phase \in {"before", "pressed", "released"}
    /\ i \in 1..(IF phase = "before" THEN Settle ELSE IF phase = "pressed" THEN Hold ELSE 1)
    /\ sendReport \in BOOLEAN /\ prev \in {"none", "up", "down"}
    /\ IdleCount \in Values /\ IdleMSRemaining \in Values
    /\ half \in {"none", "low", "high"} \X (0..Base - 1)
    /\ device \in {"Powered", "Default", "Addressed", "Configured", "Suspended"}
    /\ configuration \in {0, 1} /\ wake \in BOOLEAN
    /\ sofs \in BOOLEAN /\ enabled \in BOOLEAN
    /\ bank \in {"none", "up", "down"} /\ selected \in 0..2
    /\ waited \in 0..Interval /\ got \in {"none", "up", "down"}
    /\ ticked \in BOOLEAN /\ faults \in 0..MaxFaults
    /\ since \in Values /\ period \in Values
    /\ torn \in BOOLEAN /\ chance \in BOOLEAN /\ pressSeen \in BOOLEAN

(* "to silence the device's reports for ... the entire idle duration": once  *)
(* the counter has been set, the period is not taken for over before it is,  *)
(* unless the interrupt of a frame fell between two accesses to its bytes.   *)
PeriodKept == pc = "rearm" /\ ~torn => since >= period

(* "if so a report MUST be sent": a host that had configured the device      *)
(* before the PS button is pressed, and that neither resets, suspends nor    *)
(* configures it meanwhile, gets to see the button pressed.                  *)
PressSeen == (phase = "released" /\ chance) ~> (pressSeen \/ ~chance)

(* HID_Task waits for endpoint 0 to receive a packet.                       *)
Hung == pc = "wait" /\ selected = 0

(* In the end the host knows that the button is up, even if a report was     *)
(* marked as sent and a reset or a new configuration threw it away: the idle *)
(* period repeats it.  The one other end is that a reset fell between the    *)
(* selection of endpoint 1 and the last byte written to it, and the device   *)
(* waits for endpoint 0.                                                    *)
HostUpToDate == <>[](IdleCount # 0) => <>[](got = "up") \/ <>[]Hung
=============================================================================
