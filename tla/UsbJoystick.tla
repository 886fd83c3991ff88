----------------------------- MODULE UsbJoystick -----------------------------
(***************************************************************************)
(* ps-2/usb_joystick.c: the joystick report that the main loop builds and   *)
(* sends, against the two USB interrupts and the host.                     *)
(*                                                                         *)
(* All endpoint registers go through the one selector UENUM, which every    *)
(* interrupt moves to endpoint 0.  usb_joystick_send therefore works with   *)
(* interrupts off, and turns them on again in each round of its wait.  It   *)
(* is modelled one access to shared state at a time.  An interrupt runs with *)
(* interrupts off, but the hardware and the host go on: USB_GEN is two      *)
(* steps, as a flag may be raised between its reading UDINT and clearing it; *)
(* so is USB_COM, which for most requests waits until the host has taken    *)
(* the answer, without a limit.                                            *)
(***************************************************************************)
EXTENDS Naturals, Sequences

CONSTANTS Report,       \* contents of a report: axes and buttons
          Neutral,      \* the report of usb_joystick_raz
          Frames,       \* modulus of the frame number UDFNUML (256 in the hardware)
          Wait,         \* how many frames usb_joystick_send waits (50)
          Hosts,        \* kinds of host to consider, see patient
          MaxUpdates,   \* bound: changes of the report
          MaxRequests   \* bound: bus resets and control requests

ASSUME UsbConstantsAssumption ==
    /\ Neutral \in Report
    /\ Frames \in Nat /\ Wait \in 1..Frames - 1
    /\ Hosts \subseteq BOOLEAN /\ MaxUpdates \in Nat /\ MaxRequests \in Nat

VARIABLES pc,           \* main: where usb_joystick_send is
          joystick,     \* joystick_buttons and joystick_axis_*
          timeout,      \* usb_joystick_send: the frame that ends the wait
          intr_state,   \* usb_joystick_send: the saved interrupt flag
          iflag,        \* the interrupt flag of SREG
          UENUM,        \* the selected endpoint, 0 or JOYSTICK_ENDPOINT
          usb_configuration,
          endpoint,     \* hardware: "off", "on" or "halted"
          banks,        \* hardware: the reports in the endpoint's two banks
          frame,        \* hardware: UDFNUML
          ticked,       \* hardware: a frame began since the wait last looked
          reset,        \* hardware: EORSTI, the flag of a bus reset
          sof,          \* hardware: SOFI, the flag of a start of frame
          intbits,      \* USB_GEN: what it read, or "none" when it does not run
          serving,      \* USB_COM: the request it is busy with, or "none"
          setup,        \* the control request in endpoint 0, or "none"
          patient,      \* host: TRUE when in every frame it reads what is there and finishes
                        \* its control request, and it never resets or unconfigures
          seen,         \* host: the last report read from the endpoint
          misrouted,    \* history: report bytes went to another endpoint
          updates, requests

sender == <<pc, timeout, intr_state>>
usb == <<endpoint, banks, frame, ticked, reset, sof, intbits, serving, setup, patient,
         seen>>
counters == <<updates, requests>>
usb_vars == <<pc, joystick, timeout, intr_state, iflag, UENUM, usb_configuration,
              endpoint, banks, frame, ticked, reset, sof, intbits, serving, setup,
              patient, seen, misrouted, updates, requests>>

JOYSTICK_ENDPOINT == 3

(* EP_DOUBLE_BUFFER *)
Banks == 2

(* main() waits until the host has configured the device. *)
UsbInit ==
    /\ pc = "idle" /\ joystick = Neutral /\ timeout = 0 /\ intr_state = TRUE
    /\ iflag = TRUE /\ UENUM = 0
    /\ usb_configuration = 1
    /\ endpoint = "on" /\ banks = <<>> /\ frame \in 0..Frames - 1 /\ ticked = FALSE
    /\ reset = FALSE /\ sof = FALSE /\ intbits = "none"
    /\ serving = "none" /\ setup = "none" /\ patient \in Hosts /\ seen = Neutral
    /\ misrouted = FALSE /\ updates = 0 /\ requests = 0

-----------------------------------------------------------------------------
(* No interrupt is being served. *)
Undisturbed == intbits = "none" /\ serving = "none"

(* The main loop.  The drivers change the report, then call                *)
(* usb_joystick_send and ignore what it returns.                           *)

Update(r) ==
    /\ Undisturbed /\ pc = "idle" /\ updates < MaxUpdates
    /\ joystick' = r /\ updates' = updates + 1
    /\ pc' = "entry" /\ ticked' = FALSE
    /\ UNCHANGED <<timeout, intr_state, iflag, UENUM, usb_configuration,
                   endpoint, banks, frame, reset, sof, intbits, serving, setup,
                   patient, seen, misrouted, requests>>

Return == pc' = "idle"

(* if (!usb_configuration) return -1; *)
Entry ==
    /\ pc = "entry"
    /\ IF usb_configuration = 0 THEN Return ELSE pc' = "save"
    /\ UNCHANGED <<timeout, intr_state, iflag, UENUM, usb>>

(* intr_state = SREG; *)
Save ==
    /\ pc = "save" /\ pc' = "cli"
    /\ intr_state' = iflag
    /\ UNCHANGED <<timeout, iflag, UENUM, usb>>

(* cli(); *)
Cli ==
    /\ pc = "cli" /\ pc' = "select"
    /\ iflag' = FALSE
    /\ UNCHANGED <<timeout, intr_state, UENUM, usb>>

DeadlineUnwrapped == frame + Wait                         \* mutant
Deadline == (frame + Wait) % Frames

(* UENUM = JOYSTICK_ENDPOINT; timeout = UDFNUML + 50; *)
Select ==
    /\ pc = "select" /\ pc' = "test"
    /\ UENUM' = JOYSTICK_ENDPOINT
    /\ timeout' = Deadline
    /\ UNCHANGED <<intr_state, iflag, usb>>

(* RWAL: room in the selected endpoint; anything on the control endpoint. *)
Ready(rwal) ==
    UENUM = JOYSTICK_ENDPOINT => rwal = (endpoint = "on" /\ Len(banks) < Banks)

ForgetToRestore == UNCHANGED iflag                        \* mutant

(* SREG = intr_state; *)
RestoreFlag == iflag' = intr_state

Test ==
    /\ pc = "test"
    /\ \E rwal \in BOOLEAN :
          /\ Ready(rwal)
          /\ IF rwal THEN pc' = "write" /\ UNCHANGED iflag
                     ELSE pc' = "offline" /\ RestoreFlag
    /\ UNCHANGED <<timeout, intr_state, UENUM, usb>>

Offline ==
    /\ pc = "offline"
    /\ IF usb_configuration = 0 THEN Return ELSE pc' = "late"
    /\ UNCHANGED <<timeout, intr_state, iflag, UENUM, usb>>

NeverLate == FALSE                                        \* mutant
LateAtOnce == TRUE                                        \* mutant
WaitedTooLong == frame = timeout

Late ==
    /\ pc = "late"
    /\ IF WaitedTooLong THEN Return ELSE pc' = "again"
    /\ ticked' = FALSE
    /\ UNCHANGED <<timeout, intr_state, iflag, UENUM, endpoint, banks, frame, reset, sof, intbits,
                   serving, setup, patient, seen>>

SelectOnlyOnce ==                                         \* mutant
    /\ pc = "again" /\ pc' = "test"
    /\ intr_state' = iflag /\ iflag' = FALSE
    /\ UNCHANGED <<UENUM, timeout, usb>>

(* intr_state = SREG; cli(); UENUM = JOYSTICK_ENDPOINT; *)
Again ==
    /\ pc = "again" /\ pc' = "test"
    /\ intr_state' = iflag /\ iflag' = FALSE
    /\ UENUM' = JOYSTICK_ENDPOINT
    /\ UNCHANGED <<timeout, usb>>

(* usb_send_codes(); UEINTX = 0x3A; SREG = intr_state; return 0; *)
Write ==
    /\ pc = "write" /\ Return
    /\ banks' = IF UENUM = JOYSTICK_ENDPOINT /\ endpoint = "on" THEN Append(banks, joystick)
                                                               ELSE banks
    /\ misrouted' = (misrouted \/ UENUM # JOYSTICK_ENDPOINT)
    /\ RestoreFlag
    /\ UNCHANGED <<timeout, intr_state, UENUM, endpoint, frame, ticked, reset, sof, intbits,
                   serving, setup, patient, seen>>

usb_joystick_send ==
    /\ Undisturbed
    /\ \/ (Entry \/ Save \/ Cli \/ Select \/ Test \/ Offline \/ Late \/ Again)
          /\ UNCHANGED misrouted
       \/ Write
    /\ UNCHANGED <<joystick, usb_configuration, counters>>

-----------------------------------------------------------------------------
(* The interrupts. *)

(* intbits = UDINT; both of its interrupts are enabled. *)
ReadUDINT ==
    /\ iflag /\ Undisturbed /\ (reset \/ sof)
    /\ intbits' = IF reset THEN "reset" ELSE "sof"
    /\ UNCHANGED <<sender, joystick, iflag, UENUM, usb_configuration,
                   endpoint, banks, frame, ticked, reset, sof, serving, setup, patient, seen,
                   misrouted, counters>>

(* UDINT = 0; if (intbits & (1<<EORSTI)) ... *)
ClearUDINT ==
    /\ intbits # "none" /\ intbits' = "none"
    /\ reset' = FALSE /\ sof' = FALSE
    /\ IF intbits = "reset" THEN UENUM' = 0 /\ usb_configuration' = 0
                            ELSE UNCHANGED <<UENUM, usb_configuration>>
    /\ UNCHANGED <<sender, joystick, iflag, endpoint, banks, frame, ticked, serving, setup,
                   patient, seen, misrouted, counters>>

USB_GEN == ReadUDINT \/ ClearUDINT

(* ISR(USB_COM_vect): UENUM = 0, and the SETUP packet is read and cleared.   *)
ReadSetup ==
    /\ iflag /\ Undisturbed /\ setup # "none"
    /\ serving' = setup /\ setup' = "none" /\ UENUM' = 0
    /\ UNCHANGED <<sender, joystick, iflag, usb_configuration, endpoint, banks, frame, ticked,
                   reset, sof, intbits, patient, seen, misrouted, counters>>

(* SET_CONFIGURATION leaves the last endpoint selected, SET_FEATURE and     *)
(* CLEAR_FEATURE the halted one.  SET_PROTOCOL and the requests that are    *)
(* stalled change nothing here: joystick_protocol makes no difference to a  *)
(* report.                                                                 *)
Serve ==
    /\ serving \notin {"none", "answer"} /\ serving' = "none"
    /\ UENUM' = CASE serving \in {"configure", "unconfigure"} -> 4
                  [] serving \in {"halt", "unhalt"}           -> JOYSTICK_ENDPOINT
                  [] OTHER                                    -> UENUM
    /\ usb_configuration' = CASE serving = "configure"   -> 1
                              [] serving = "unconfigure" -> 0
                              [] OTHER                   -> usb_configuration
    /\ endpoint' = CASE serving \in {"configure", "unconfigure", "unhalt"} -> "on"
                     [] serving = "halt"                                   -> "halted"
                     [] OTHER                                              -> endpoint
    /\ banks' = IF serving \in {"configure", "unconfigure", "unhalt"} THEN <<>> ELSE banks
    /\ UNCHANGED <<sender, joystick, iflag, frame, ticked, reset, sof, intbits, setup, patient,
                   seen, misrouted, counters>>

(* GET_DESCRIPTOR, SET_ADDRESS and the other requests that are answered: the *)
(* loop on TXINI (RXOUTI) ends when the host takes what is in the bank.     *)
(* Whether it ends when the host begins something else instead, a SETUP or  *)
(* a reset, depends on where it was; that is left open.                    *)
Answered ==
    /\ serving = "answer" /\ serving' = "none"
    /\ UNCHANGED <<sender, joystick, iflag, UENUM, usb_configuration, endpoint, banks, frame,
                   ticked, reset, sof, intbits, setup, patient, seen, misrouted, counters>>

USB_COM == ReadSetup \/ Serve \/ Answered

-----------------------------------------------------------------------------
(* The host. *)

Requests == {"configure", "unconfigure", "halt", "unhalt", "answer", "other"}

Request ==
    /\ requests < MaxRequests /\ requests' = requests + 1
    /\ setup = "none" /\ ~reset /\ (patient => serving = "none")
    /\ setup' \in IF patient THEN {"answer", "other"} ELSE Requests
    /\ UNCHANGED <<sender, joystick, iflag, UENUM, usb_configuration, endpoint, banks, frame,
                   ticked, reset, sof, intbits, serving, patient, seen, misrouted, updates>>

(* A bus reset switches the endpoint off at once and raises EORSTI. *)
BusReset ==
    /\ ~patient /\ requests < MaxRequests /\ requests' = requests + 1
    /\ reset' = TRUE /\ setup' = "none"
    /\ endpoint' = "off" /\ banks' = <<>>
    /\ UNCHANGED <<sender, joystick, iflag, UENUM, usb_configuration, frame, ticked, sof,
                   intbits, serving, patient, seen, misrouted, updates>>

HostReads ==
    /\ endpoint = "on" /\ banks # <<>>
    /\ seen' = Head(banks) /\ banks' = Tail(banks)
    /\ UNCHANGED <<sender, joystick, iflag, UENUM, usb_configuration,
                   endpoint, frame, ticked, reset, sof, intbits, serving, setup, patient,
                   misrouted, counters>>

(* A frame lasts longer than USB_GEN and longer than a round of the wait,    *)
(* but not longer than the wait of USB_COM for a host that takes its time,  *)
(* or for one that has given its transfer up.                              *)
Held == serving = "answer" /\ ~patient

Frame ==
    /\ patient => banks = <<>>
    /\ \/ ~sof /\ (pc = "idle" \/ ~ticked)
       \/ Held
    /\ frame' = (frame + 1) % Frames
    /\ ticked' = (pc # "idle")
    /\ sof' = TRUE
    /\ UNCHANGED <<sender, joystick, iflag, UENUM, usb_configuration,
                   endpoint, banks, reset, intbits, serving, setup, patient, seen, misrouted,
                   counters>>

-----------------------------------------------------------------------------
Interrupts == USB_GEN \/ USB_COM
Host == Request \/ BusReset \/ HostReads \/ Frame

UsbNext == \/ \E r \in Report : Update(r)
           \/ usb_joystick_send \/ Interrupts \/ Host

UsbSpec == UsbInit /\ [][UsbNext]_usb_vars

(* The processor runs; a pending interrupt is served when SREG lets it, a   *)
(* control request even when frames keep raising the interrupt of higher    *)
(* priority; frames follow each other: the bus is not suspended; a patient  *)
(* host polls, and takes the answer to its request.                        *)
UsbFairSpec ==
    /\ UsbSpec
    /\ WF_usb_vars(usb_joystick_send) /\ SF_usb_vars(USB_GEN)
    /\ SF_usb_vars(ReadSetup) /\ WF_usb_vars(Serve)
    /\ WF_usb_vars(Frame)
    /\ WF_usb_vars(patient /\ HostReads) /\ WF_usb_vars(patient /\ Answered)

-----------------------------------------------------------------------------
UsbTypeOK ==
    /\ pc \in {"idle", "entry", "save", "cli", "select", "test", "write", "offline",
               "late", "again"}
    /\ joystick \in Report /\ seen \in Report
    /\ banks \in Seq(Report) /\ Len(banks) <= Banks
    /\ timeout \in 0..Frames - 1 /\ frame \in 0..Frames - 1
    /\ intr_state \in BOOLEAN /\ iflag \in BOOLEAN /\ ticked \in BOOLEAN
    /\ UENUM \in {0, 3, 4} /\ usb_configuration \in {0, 1}
    /\ endpoint \in {"off", "on", "halted"} /\ reset \in BOOLEAN
    /\ sof \in BOOLEAN /\ intbits \in {"none", "reset", "sof"}
    /\ serving \in Requests \cup {"none"}
    /\ setup \in Requests \cup {"none"} /\ patient \in BOOLEAN /\ misrouted \in BOOLEAN

(* A report is written to the joystick endpoint and no other, whatever the  *)
(* interrupts did to UENUM while the sender was waiting.                   *)
RightEndpoint == ~misrouted

(* The sender leaves interrupts as it found them, on every way out.         *)
InterruptsRestored == pc = "idle" => iflag

(* Both together: usb_joystick_send never counts beyond a frame number or   *)
(* fills more banks than there are, and ends with the interrupts back on.   *)
WellFormed == UsbTypeOK /\ InterruptsRestored

(* USB_COM waits for a host that has given its transfer up. *)
LeftWaiting == serving = "answer" /\ ~patient

(* The main loop gets control back: the host configures, resets, halts the  *)
(* endpoint or stops polling, and the sender still returns, unless USB_COM  *)
(* waits for ever, with the interrupts off, for a host that does not come   *)
(* for its answer.                                                         *)
SendReturns == ((pc = "entry") ~> (pc = "idle")) \/ <>[]LeftWaiting

(* "handle all device-level events": once a bus reset has switched the      *)
(* endpoint off and its flag is gone, the device knows it is unconfigured.  *)
ResetUnconfigures ==
    endpoint = "off" /\ ~reset /\ intbits = "none" => usb_configuration = 0

(* A host that polls ends up with the state of the controls, although       *)
(* nobody looks at what usb_joystick_send returns.                          *)
HostUpToDate == patient => <>[](seen = joystick)
=============================================================================
