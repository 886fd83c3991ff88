--------------------------- MODULE SixaxisPairEmu ---------------------------
(***************************************************************************)
(* tools/sixpair-emu: the firmware that poses as a controller until the     *)
(* console has stored its Bluetooth address in it.  Control requests only:  *)
(* the dispatch and the stream functions of the LUFA library, the handlers  *)
(* of sixaxis_pair_emu.c, the interrupt for bus events, the identity in     *)
(* EEPROM; and the hosts it is plugged into: the console, the two tools of  *)
(* the repository, and one that sends anything.  Of the reports of the      *)
(* other half, SixaxisReports, there is the time they take and what a bus   *)
(* reset meanwhile does to endpoint 0.                                     *)
(*                                                                         *)
(* A request is read, recognised and its SETUP cleared in one step; every   *)
(* wait loop takes one step per iteration, and the host may do anything in  *)
(* between.  The exits on DEVICE_STATE_Unattached are left out: the board   *)
(* is bus powered, so without VBUS it is off.                              *)
(***************************************************************************)
EXTENDS Naturals, Sequences

CONSTANTS Kinds,         \* the hosts it is plugged into
          Whims,         \* requests of the host that sends anything
          MaxFaults      \* bound: transfers a host gives up half-way, bus resets without
                         \* need, suspensions of the bus and unpluggings, all together

ASSUME ConstantsAssumption ==
    /\ Kinds \subseteq {"console", "customizer", "sixpair", "any"} /\ Kinds # {}
    /\ MaxFaults \in Nat

VARIABLES pc,            \* where the main loop is
          request,       \* USB_ControlRequest
          todo,          \* packets or EEPROM blocks the request still has to write
          answer,        \* buf: what is to be sent
          setup, tx, rx, \* endpoint 0: SETUP received; IN and OUT bank
          stalled,       \* endpoint 0: STALLRQ
          address,       \* UDADDR
          device,        \* USB_DeviceState
          cfg,           \* USB_ConfigurationNumber
          wake,          \* the wake-up interrupt is enabled, the suspend interrupt is not
          eeprom,        \* VendorId, ProductId and DeviceBdaddr in EEPROM
          identity,      \* their copies in RAM
          master,        \* VolatileMasterBdaddr
          reply,         \* reply
          last_set_data, \* last_set_data
          setting,       \* UsingReportProtocol, IdleCount, USB_RemoteWakeupEnabled
          host,          \* the host: kind, address, stage of its transfer, request, answer
          faults,        \* how many faults there were
          stray,         \* the packet in tx is not of the transfer of the host: history
          acked, early, cut, raced   \* history, see the properties

endpoint == <<setup, tx, rx, stalled>>
bus == <<address, device, cfg, wake>>
memory == <<identity, master, reply, last_set_data, setting>>
history == <<stray, acked, early, cut, raced>>
main == <<pc, request, todo, answer>>
vars == <<main, endpoint, bus, eeprom, memory, host, faults, history>>

-----------------------------------------------------------------------------
(* Requests, and what is sent.  Reports with a fixed content go the way of  *)
(* GetDevice and are left out; the settings that are only stored and read   *)
(* back are one kind.                                                      *)

Nothing == <<>>
ZLP == <<"">>                       \* a packet of length zero
Dummy == <<"dummy">>                \* 0xaa ...
Zero == <<"zero">>
Own == <<"address of the console">>
Custom == <<"custom", "custom", "custom">>
Factory == <<"factory", "factory", "factory">>
Erased == <<"0xFF", "0xFF", "0xFF">>
Other == <<"other">>

NoRequest == [kind |-> "none", long |-> FALSE, data |-> Nothing]
Plain(kind) == [NoRequest EXCEPT !.kind = kind]
Long(kind) == [Plain(kind) EXCEPT !.long = TRUE]
With(kind, data) == [Plain(kind) EXCEPT !.data = data]

Streamed == {"GetDescriptor", "GetIdentity", "GetMaster", "GetDevice", "GetEcho"}
Short == {"GetConfiguration", "GetSetting"}
SetReport == {"SetMaster", "SetIdentity", "SetOther"}
NoData == {"SetAddress", "SetConfiguration", "SetSetting"}

Requests ==
    {Plain(k) : k \in {"GetDescriptor", "GetIdentity", "GetMaster", "SetAddress", "Unknown"} \cup Short}
    \cup {Long(k) : k \in {"GetMaster", "GetDevice", "GetEcho"}}
    \cup {With("SetMaster", Own), With("SetIdentity", Custom), With("SetOther", Other)}
    \cup {With(k, <<v>>) : k \in {"SetConfiguration", "SetSetting"}, v \in {"0", "1"}}

ASSUME WhimsAssumption == Whims \subseteq Requests

Enumerate == <<Plain("GetDescriptor"), Plain("SetAddress"), With("SetConfiguration", <<"1">>)>>

(* sixpair.c: show_master and set_master, eight bytes each. *)
SixpairScript == Enumerate \o <<Plain("GetMaster"), With("SetMaster", Own)>>

(* sixp-emu-cust.py: usb_set, ten bytes; what is read differs from what is set. *)
CustomizerScript == Enumerate \o <<Plain("GetIdentity"), With("SetIdentity", Custom)>>

(* The console asks for whole reports. *)
ConsoleScript == Enumerate \o
    <<Long("GetDevice"), With("SetOther", Other), Long("GetEcho"),
      Long("GetMaster"), With("SetMaster", Own), Long("GetMaster")>>

Script == [console |-> ConsoleScript, sixpair |-> SixpairScript,
           customizer |-> CustomizerScript, any |-> <<>>]

-----------------------------------------------------------------------------
Fresh(kind) == [kind |-> kind, step |-> 1, address |-> "0", stage |-> "attached",
                request |-> NoRequest, got |-> Nothing]

Init ==
    /\ pc = "boot" /\ request = NoRequest /\ todo = 0 /\ answer = Nothing
    /\ setup = NoRequest /\ tx = Nothing /\ rx = Nothing /\ stalled = FALSE
    /\ address = "0" /\ device = "Unattached" /\ cfg = "0" /\ wake = FALSE
    /\ identity = Nothing /\ master = Zero /\ reply = 0 /\ last_set_data = Zero
    /\ setting = "1"
    /\ eeprom \in {Factory, Erased}
    /\ \E kind \in Kinds : host = Fresh(kind)
    /\ faults = 0
    /\ stray = FALSE /\ acked = FALSE /\ early = FALSE /\ cut = FALSE /\ raced = FALSE

ReadUnchecked(stored) == stored                           \* mutant

(* An erased vendor or product id is replaced, an erased address is not. *)
readEepromIdentifiers(stored) ==
    [i \in 1..3 |-> IF i < 3 /\ stored[i] = "0xFF" THEN "factory" ELSE stored[i]]

Boot ==
    /\ pc = "boot" /\ pc' = "main"
    /\ identity' = readEepromIdentifiers(eeprom)
    /\ device' = "Powered"
    /\ UNCHANGED <<request, todo, answer, endpoint, address, cfg, wake, eeprom, master,
                   reply, last_set_data, setting, host, faults, history>>

-----------------------------------------------------------------------------
(* Requests, from USB_Device_ProcessControlRequest to the wait for the host *)

AnswerTo(r) ==
    CASE r.kind = "GetDescriptor"    -> <<identity[1], identity[2]>>
      [] r.kind = "GetIdentity"      -> identity
      [] r.kind = "GetMaster"        -> IF reply = 0 THEN Dummy ELSE master
      [] r.kind = "GetDevice"        -> <<identity[3]>>
      [] r.kind = "GetEcho"          -> last_set_data
      [] r.kind = "GetConfiguration" -> <<cfg>>
      [] r.kind = "GetSetting"       -> <<setting>>

(* A full packet is followed by an empty one. *)
Packets(r) == IF r.long THEN 2 ELSE 1

Dispatch ==
    LET r == setup IN
    /\ pc = "main" /\ setup # NoRequest
    /\ request' = r
    /\ \/ /\ r.kind \in Streamed
          /\ setup' = NoRequest /\ answer' = AnswerTo(r) /\ todo' = Packets(r) /\ pc' = "in"
          /\ UNCHANGED <<tx, stray, cfg, setting>>
       \/ /\ r.kind \in Short
          /\ setup' = NoRequest /\ pc' = "out"
          /\ \/ tx' = AnswerTo(r) /\ stray' = FALSE
             \/ tx # Nothing /\ UNCHANGED <<tx, stray>>    \* written to a bank in use
          /\ UNCHANGED <<answer, todo, cfg, setting>>
       \/ /\ r.kind \in SetReport
          /\ setup' = NoRequest /\ pc' = "data"
          /\ UNCHANGED <<answer, todo, tx, stray, cfg, setting>>
       \/ /\ r.kind \in NoData
          /\ setup' = NoRequest /\ pc' = "ack"
          /\ cfg' = IF r.kind = "SetConfiguration" THEN r.data[1] ELSE cfg
          /\ setting' = IF r.kind = "SetSetting" THEN r.data[1] ELSE setting
          /\ UNCHANGED <<answer, todo, tx, stray>>
       \/ /\ r.kind = "Unknown"                  \* no handler clears the SETUP
          /\ pc' = "finish"
          /\ UNCHANGED <<setup, answer, todo, tx, stray, cfg, setting>>
    /\ UNCHANGED <<rx, stalled, address, device, wake, eeprom, identity, master, reply,
                   last_set_data, host, faults, acked, early, cut, raced>>

AskedCount == reply' = IF request.kind = "GetMaster" THEN reply + 1 ELSE reply   \* mutant
NeverAsked == UNCHANGED reply                                                   \* mutant

(* reply = 1 follows the stream whether or not it went through. *)
Asked == reply' = IF request.kind = "GetMaster" THEN 1 ELSE reply

NeverAborted == FALSE                                     \* mutant
Aborted == setup # NoRequest

(* Endpoint_Write_Control_Stream_LE: a new SETUP ends it ... *)
HostAborted ==
    /\ pc = "in" /\ Aborted
    /\ rx' = Nothing /\ Asked /\ pc' = "finish"
    /\ UNCHANGED <<request, todo, answer, setup, tx, stalled, bus, eeprom, identity, master,
                   last_set_data, setting, host, faults, history>>

(* ... so does the status stage, and the last packet *)
WritePackets ==
    /\ pc = "in" /\ ~Aborted
    /\ \/ /\ rx # Nothing
          /\ pc' = "out" /\ UNCHANGED <<tx, todo, answer>>
       \/ /\ rx = Nothing /\ tx = Nothing
          /\ tx' = answer /\ answer' = ZLP /\ todo' = todo - 1
          /\ pc' = IF todo = 1 THEN "out" ELSE "in"
    /\ UNCHANGED <<request, setup, rx, stalled, bus, eeprom, memory, host, faults, history>>

(* The wait for the status stage looks at nothing else. *)
AwaitOut ==
    /\ pc = "out" /\ rx # Nothing
    /\ rx' = Nothing /\ Asked /\ pc' = "finish"
    /\ UNCHANGED <<request, todo, answer, setup, tx, stalled, bus, eeprom, identity, master,
                   last_set_data, setting, host, faults, history>>

(* Set_Report: the wait for the data looks at nothing else either.  The     *)
(* copy is as long as the request says: these hosts send no more than the   *)
(* 64 bytes last_set_data has.                                             *)
AwaitData ==
    /\ pc = "data" /\ rx # Nothing
    /\ last_set_data' = rx /\ rx' = Nothing /\ pc' = "ack"
    /\ UNCHANGED <<request, todo, answer, setup, tx, stalled, bus, eeprom, identity, master,
                   reply, setting, host, faults, history>>

NotAddressed(r) ==                                        \* mutant
    CASE r.kind = "SetConfiguration" -> "configure"
      [] r.kind = "SetIdentity"      -> "eeprom"
      [] r.kind = "SetMaster"        -> "store"
      [] OTHER                       -> "finish"

Continuation(r) ==
    CASE r.kind = "SetAddress"       -> "address"
      [] r.kind = "SetConfiguration" -> "configure"
      [] r.kind = "SetIdentity"      -> "eeprom"
      [] r.kind = "SetMaster"        -> "store"
      [] OTHER                       -> "finish"

(* Endpoint_ClearStatusStage of a request without an answer; if the next    *)
(* SETUP is there, the packet will be taken for its answer.                *)
Acknowledge ==
    /\ pc = "ack" /\ tx = Nothing
    /\ tx' = ZLP /\ stray' = (setup # NoRequest) /\ todo' = 3
    /\ pc' = Continuation(request)
    /\ UNCHANGED <<request, answer, setup, rx, stalled, bus, eeprom, memory, host, faults,
                   acked, early, cut, raced>>

(* SetAddress waits until the status stage is over. *)
SetAddress ==
    /\ pc = "address" /\ tx = Nothing
    /\ device' = "Addressed" /\ address' = "1"
    /\ pc' = "finish"
    /\ UNCHANGED <<request, todo, answer, endpoint, cfg, wake, eeprom, memory, host, faults,
                   history>>

(* SetConfiguration reads the number it stored, then sets the state. *)
ReadConfiguration ==
    /\ pc = "configure"
    /\ pc' = IF cfg # "0" THEN "configured" ELSE "unconfigured"
    /\ UNCHANGED <<request, todo, answer, endpoint, bus, eeprom, memory, host, faults, history>>

(* The event that follows selects endpoint 2. *)
SetState ==
    /\ pc \in {"configured", "unconfigured"} /\ pc' = "elsewhere"
    /\ device' = IF pc = "configured" THEN "Configured" ELSE "Addressed"
    /\ UNCHANGED <<request, todo, answer, endpoint, address, cfg, wake, eeprom, memory, host,
                   faults, history>>

(* Three blocks, milliseconds each, and the host has its acknowledgement. *)
WriteEeprom ==
    LET block == 4 - todo IN
    /\ pc = "eeprom" /\ todo' = todo - 1
    /\ eeprom' = [eeprom EXCEPT ![block] = last_set_data[block]]
    /\ pc' = IF todo = 1 THEN "finish" ELSE "eeprom"
    /\ UNCHANGED <<request, answer, endpoint, bus, memory, host, faults, history>>

StoreMaster ==
    /\ pc = "store" /\ pc' = "finish"
    /\ master' = last_set_data
    /\ UNCHANGED <<request, todo, answer, endpoint, bus, eeprom, identity, reply,
                   last_set_data, setting, host, faults, history>>

ClearOnly == UNCHANGED stalled                            \* mutant
Stall == stalled' = (stalled \/ setup # NoRequest)

(* A SETUP that is there when a request has been handled is refused, but    *)
(* not if it is looked for in endpoint 2.                                  *)
Finish ==
    /\ \/ pc = "finish" /\ Stall /\ setup' = NoRequest
       \/ pc = "elsewhere" /\ UNCHANGED <<setup, stalled>>
    /\ pc' = "main"
    /\ answer' = Nothing /\ todo' = 0             \* locals of the handler
    /\ UNCHANGED <<request, tx, rx, bus, eeprom, memory, host, faults, history>>

USB_USBTask ==
    \/ Dispatch \/ HostAborted \/ WritePackets \/ AwaitOut \/ AwaitData \/ Acknowledge
    \/ SetAddress \/ ReadConfiguration \/ SetState \/ WriteEeprom \/ StoreMaster \/ Finish

(* The other half of main(): a report is sent, with endpoint 1 selected. *)
HID_Task ==
    /\ \/ pc = "main" /\ device = "Configured" /\ pc' = "report"
       \/ pc = "report" /\ pc' = "main"
    /\ UNCHANGED <<request, todo, answer, endpoint, bus, eeprom, memory, host, faults, history>>

(* After a reset it waits for an OUT packet in endpoint 0.  The time-out    *)
(* counts the frames the interrupt leaves it; then what it has written and  *)
(* finalized is in the IN bank of endpoint 0.                              *)
TimesOut ==
    /\ pc = "blind" /\ pc' = "main"
    /\ tx' = ZLP /\ stray' = TRUE
    /\ UNCHANGED <<request, todo, answer, setup, rx, stalled, bus, eeprom, memory, host, faults,
                   acked, early, cut, raced>>

-----------------------------------------------------------------------------
(* The interrupt for bus events. *)

Fault == faults < MaxFaults /\ faults' = faults + 1

(* Endpoint 0 stays selected, whatever the main loop had selected. *)
AfterReset ==
    CASE pc = "elsewhere" -> {"elsewhere", "finish"}
      [] pc = "report"    -> {"report", "blind"}
      [] OTHER            -> {pc}

(* No answer from the address the host gave *)
Unanswered ==
    /\ host.address # address
    /\ pc \in {"main", "report"} \/ (pc = "address" /\ tx # Nothing)

(* A reset: by a host that is new, that gets no answer, or that wants to. *)
BusReset ==
    /\ pc # "boot"
    /\ IF host.stage = "attached" \/ Unanswered THEN UNCHANGED faults ELSE Fault
    /\ pc' \in AfterReset
    /\ setup' = NoRequest /\ tx' = Nothing /\ rx' = Nothing /\ stalled' = FALSE
    /\ address' = "0" /\ device' = "Default" /\ cfg' = "0" /\ wake' = TRUE
    /\ host' = [Fresh(host.kind) EXCEPT !.stage = "idle"]
    /\ stray' = FALSE
    /\ early' = (early \/ pc # "main")
    /\ raced' = (raced \/ pc \in {"configured", "unconfigured"})
    /\ UNCHANGED <<request, todo, answer, eeprom, memory, acked, cut>>

Suspend ==
    /\ pc # "boot" /\ ~wake /\ host.stage \in {"attached", "idle"}
    /\ Fault
    /\ device' = "Suspended" /\ wake' = TRUE
    /\ UNCHANGED <<main, endpoint, address, cfg, eeprom, memory, host, history>>

WokenUnconfigured == "Addressed"                          \* mutant
WokenState == IF cfg # "0" THEN "Configured" ELSE "Addressed"

(* Enabled by a reset too: the first traffic ends the state Default. *)
WakeUp ==
    /\ wake /\ wake' = FALSE
    /\ device' = WokenState
    /\ UNCHANGED <<main, endpoint, address, cfg, eeprom, memory, host, faults, history>>

(* RAM after power-up; the EEPROM stays. *)
PowerUp ==
    /\ pc' = "boot" /\ request' = NoRequest /\ todo' = 0 /\ answer' = Nothing
    /\ setup' = NoRequest /\ tx' = Nothing /\ rx' = Nothing /\ stalled' = FALSE
    /\ address' = "0" /\ device' = "Unattached" /\ cfg' = "0" /\ wake' = FALSE
    /\ identity' = Nothing /\ master' = Zero /\ reply' = 0 /\ last_set_data' = Zero
    /\ setting' = "1"

(* A new identity is being stored, or will be and the host thinks it is. *)
Storing == request.kind = "SetIdentity" /\ (pc = "eeprom" \/ (acked /\ pc \in {"data", "ack"}))

(* Pulled out, and plugged into some host again. *)
Unplug ==
    /\ pc # "boot" /\ Fault
    /\ PowerUp
    /\ \E kind \in Kinds : host' = Fresh(kind)
    /\ stray' = FALSE /\ cut' = (cut \/ Storing)
    /\ UNCHANGED <<eeprom, acked, early, raced>>

-----------------------------------------------------------------------------
(* The host. *)

(* Whatever it asks, a host first gives the device an address. *)
Wants ==
    IF host.kind = "any"
    THEN {r \in Whims : IF host.address = "0" THEN r.kind \in {"GetDescriptor", "SetAddress"}
                                                ELSE r.kind # "SetAddress"}
    ELSE {Script[host.kind][i] : i \in {host.step} \cap 1..Len(Script[host.kind])}

FirstStage(r) ==
    CASE r.kind \in Streamed \cup Short -> "data in"
      [] r.kind \in SetReport           -> "data out"
      [] OTHER                          -> "status in"

Reached == host.address = address /\ device # "Suspended" /\ host.stage # "attached"

(* A SETUP packet is always taken: it empties the IN bank and ends a STALL; *)
(* whether the OUT bank survives is left open.                             *)
SendSetup ==
    /\ Reached
    /\ \E r \in Wants :
           /\ setup' = r
           /\ host' = [host EXCEPT !.stage = FirstStage(r), !.request = r]
    /\ IF host.stage = "idle" THEN UNCHANGED faults
       ELSE Fault
    /\ tx' = Nothing /\ stray' = FALSE /\ stalled' = FALSE /\ rx' \in {rx, Nothing}
    /\ early' = (early \/ pc \notin {"main", "report"})
    /\ UNCHANGED <<main, bus, eeprom, memory, acked, cut, raced>>

(* IN and OUT are refused while a SETUP has not been cleared. *)
Served == Reached /\ setup = NoRequest

Done ==
    /\ host' = [host EXCEPT !.stage = "idle", !.request = NoRequest,
                            !.step = IF host.kind = "any" THEN @ ELSE @ + 1,
                            !.address = IF host.request.kind = "SetAddress" THEN "1" ELSE @]
    /\ acked' = (acked \/ host.request.kind = "SetIdentity")

TakeIn ==
    /\ Served /\ ~stalled /\ tx # Nothing /\ tx' = Nothing /\ stray' = FALSE
    /\ \/ /\ host.stage = "data in"
          /\ host' = [host EXCEPT !.stage = "status out",
                                  !.got = IF host.kind = "console" THEN tx ELSE @]
          /\ UNCHANGED acked
       \/ host.stage = "status in" /\ Done
    /\ UNCHANGED <<main, setup, rx, stalled, bus, eeprom, memory, faults, early, cut, raced>>

SendOut ==
    /\ Served /\ ~stalled /\ rx = Nothing
    /\ \/ /\ host.stage = "data out" /\ rx' = host.request.data
          /\ host' = [host EXCEPT !.stage = "status in"]
          /\ UNCHANGED acked
       \/ host.stage = "status out" /\ rx' = ZLP /\ Done
    /\ UNCHANGED <<main, setup, tx, stalled, bus, eeprom, memory, faults, stray, early, cut,
                   raced>>

(* Told STALL, the host tries again. *)
Refused ==
    /\ Served /\ stalled /\ host.stage # "idle"
    /\ host' = [host EXCEPT !.stage = "idle", !.request = NoRequest]
    /\ UNCHANGED <<main, endpoint, bus, eeprom, memory, faults, history>>

Host == SendSetup \/ TakeIn \/ SendOut \/ Refused

Next ==
    \/ Boot \/ USB_USBTask \/ HID_Task \/ TimesOut
    \/ BusReset \/ Suspend \/ WakeUp \/ Unplug \/ Host

Spec == Init /\ [][Next]_vars

(* The main loop runs, and a SETUP gets its turn between the reports; a     *)
(* host goes on, resets a device that is new or does not answer, and ends   *)
(* a suspension.                                                           *)
FairSpec ==
    /\ Spec
    /\ WF_vars(Boot \/ USB_USBTask \/ HID_Task) /\ SF_vars(Dispatch) /\ WF_vars(WakeUp)
    /\ WF_vars(BusReset /\ UNCHANGED faults)
    /\ WF_vars(Host /\ UNCHANGED faults)

-----------------------------------------------------------------------------
Part == {"factory", "custom", "0xFF"}
Answers == {Nothing, ZLP, Dummy, Zero, Own, Custom, Other, <<"0">>, <<"1">>}
           \cup {<<i>> : i \in Part} \cup (Part \X Part) \cup (Part \X Part \X Part)

TypeOK ==
    /\ pc \in {"boot", "main", "in", "out", "data", "ack", "address", "configure",
               "configured", "unconfigured", "elsewhere", "eeprom", "store", "finish",
               "report", "blind"}
    /\ request \in Requests \cup {NoRequest} /\ setup \in Requests \cup {NoRequest}
    /\ todo \in 0..3
    /\ answer \in Answers /\ tx \in Answers
    /\ rx \in {Nothing, ZLP, Own, Custom, Other}
    /\ last_set_data \in {Zero, Own, Custom, Other} /\ master \in {Zero, Own}
    /\ identity \in Answers /\ reply \in 0..1 /\ setting \in {"0", "1"}
    /\ cfg \in {"0", "1"} /\ address \in {"0", "1"}
    /\ device \in {"Unattached", "Powered", "Default", "Addressed", "Configured", "Suspended"}
    /\ host.got \in Answers

(* What a completed transfer tells the host is so: the data it took are the *)
(* answer to the request it made, and an acknowledgement is for the request *)
(* it made, whatever transfers were given up before (the stream functions   *)
(* and the wait loops share endpoint 0 and one request header).  Only two   *)
(* packets are ever taken for what they are not (stray): the                *)
(* acknowledgement of a SET_CONFIGURATION the host gave up, and what a      *)
(* report leaves in endpoint 0 that a reset interrupted.                    *)
Takes(stage) == host.stage = stage /\ TakeIn /\ ~stray

CompletedMeansServed ==
    [][/\ Takes("data in") => request = host.request /\ tx = AnswerTo(host.request)
       /\ Takes("status in") => /\ request = host.request /\ tx = ZLP
                                /\ request.kind \in SetReport => last_set_data = request.data]_vars

(* HID_Task sends reports in the state Configured: between requests that is *)
(* the state exactly if a configuration is set, in whatever order resets,   *)
(* suspensions and SET_CONFIGURATION came; unless a reset fell between the  *)
(* two accesses of USB_Device_SetConfiguration.                             *)
ConfiguredAgrees ==
    pc = "main" /\ device \in {"Default", "Addressed", "Configured"} /\ ~raced =>
        (device = "Configured" <=> cfg # "0")

(* Every variable has its type, and device and bus agree on the state.      *)
WellFormed == TypeOK /\ ConfiguredAgrees

(* "The device bdaddr, read from eeprom at startup": the identity read at   *)
(* power-up is a whole one, and once the customizer was told of success it  *)
(* is the new one, unless the plug was pulled during the writes.            *)
IdentityKept ==
    ~cut => /\ pc # "boot" => identity \in {Factory, Custom, <<"factory", "factory", "0xFF">>}
            /\ acked /\ pc = "main" => eeprom = Custom

(* "If not handled in the user application, requests are automatically     *)
(* STALLed": those that are handled are not.                               *)
OnlyUnhandledStalled ==
    stalled /\ host.stage # "idle" => host.request.kind = "Unknown"

(* A host that never hurries (it lets the main loop come round between its  *)
(* transfers, gives none up half-way, and does not reset the device while   *)
(* it handles a request or sends a report) is never refused a request that  *)
(* is handled, never finds the device hung in one of the four waits that    *)
(* look at nothing else, and always finds it at the address it gave.        *)
Stuck ==
    /\ setup # NoRequest
    /\ pc \in {"out", "data", "blind"} \/ (pc = "address" /\ tx # Nothing)

NoHarmIfPatient ==
    ~early => /\ OnlyUnhandledStalled
              /\ ~Stuck
              /\ pc = "main" => host.address = address

(* "Next requests, tell that the bdaddr is the one of the PS3": a console   *)
(* that has come to the end of its dialogue has read its own address back,  *)
(* and that is the address stored.                                          *)
Through(kind) == host.kind = kind /\ host.step > Len(Script[kind])
PairedMeansMaster == Through("console") => host.got = Own /\ master = Own

(* A console that repeats what was refused and resets a device that does    *)
(* not answer gets to the end, unless the device hangs in a blind wait.     *)
PairsUnlessStuck ==
    <>[](host.kind = "console") => <>[]Through("console") \/ <>[]Stuck
=============================================================================
