------------------------ MODULE SixaxisPairEmu_proofs ------------------------
(* Theorems about SixaxisPairEmu for any set of hosts, whatever requests    *)
(* the host that sends anything chooses from, and any number of transfers   *)
(* given up, resets, suspensions and unpluggings.                          *)
EXTENDS SixaxisPairEmu, SequenceTheorems, TLAPS

-----------------------------------------------------------------------------
(* Requests and what they carry.                                           *)

LEMMA PlainFields == ASSUME NEW k PROVE Plain(k).kind = k /\ ~Plain(k).long
  BY DEF Plain, NoRequest

LEMMA LongFields == ASSUME NEW k PROVE Long(k).kind = k /\ Long(k).long
  BY DEF Long, Plain

LEMMA WithFields ==
    ASSUME NEW k, NEW d PROVE With(k, d).kind = k /\ ~With(k, d).long /\ With(k, d).data = d
  BY DEF With, Plain, NoRequest

LEMMA RequestForms ==
    ASSUME NEW r \in Requests
    PROVE  \/ \E k \in {"GetDescriptor", "GetIdentity", "GetMaster", "SetAddress", "Unknown",
                        "GetConfiguration", "GetSetting"} : r = Plain(k)
           \/ \E k \in {"GetMaster", "GetDevice", "GetEcho"} : r = Long(k)
           \/ r = With("SetMaster", Own)
           \/ r = With("SetIdentity", Custom)
           \/ r = With("SetOther", Other)
           \/ \E k \in {"SetConfiguration", "SetSetting"}, v \in {"0", "1"} : r = With(k, <<v>>)
  BY DEF Requests, Short

(* Every request belongs to one way through the firmware, and what is set   *)
(* is one of the few contents of a report.                                 *)
LEMMA RequestFacts ==
    ASSUME NEW r \in Requests
    PROVE  /\ r.kind \in Streamed \cup Short \cup SetReport \cup NoData \cup {"Unknown"}
           /\ r # NoRequest
           /\ Packets(r) \in 1..2
           /\ r.kind = "SetMaster" => r.data = Own
           /\ r.kind = "SetIdentity" => r.data = Custom
           /\ r.kind = "SetOther" => r.data = Other
           /\ r.kind \in {"SetConfiguration", "SetSetting"} => r.data[1] \in {"0", "1"}
<1>1. NoRequest.kind = "none"
  BY DEF NoRequest
<1>2. r.kind \in Streamed \cup Short \cup SetReport \cup NoData \cup {"Unknown"}
  BY RequestForms, PlainFields, LongFields, WithFields
     DEF Streamed, Short, SetReport, NoData
<1>3. r # NoRequest
  BY <1>1, <1>2 DEF Streamed, Short, SetReport, NoData
<1>4. /\ r.kind = "SetMaster" => r.data = Own
      /\ r.kind = "SetIdentity" => r.data = Custom
      /\ r.kind = "SetOther" => r.data = Other
  BY RequestForms, PlainFields, LongFields, WithFields
<1>5. r.kind \in {"SetConfiguration", "SetSetting"} => r.data[1] \in {"0", "1"}
  BY RequestForms, PlainFields, LongFields, WithFields
<1> QED
  BY <1>2, <1>3, <1>4, <1>5 DEF Packets

(* No request is of no kind. *)
LEMMA ReportData ==
    ASSUME NEW r \in Requests \cup {NoRequest}, r.kind \in SetReport
    PROVE  /\ r \in Requests
           /\ r.data \in {Own, Custom, Other}
           /\ r.kind = "SetMaster" => r.data = Own
           /\ r.kind = "SetIdentity" => r.data = Custom
<1>1. r # NoRequest
  BY DEF NoRequest, SetReport
<1> QED
  BY <1>1, RequestFacts DEF SetReport

LEMMA Contents ==
    /\ ZLP # Nothing /\ Own # Nothing /\ Custom # Nothing /\ Other # Nothing
    /\ Own # ZLP /\ Custom # ZLP /\ Other # ZLP /\ Dummy # ZLP
    /\ Own # Custom /\ Own # Other /\ Custom # Other
  BY DEF ZLP, Nothing, Own, Custom, Other, Dummy

LEMMA Identities ==
    /\ Part \X Part \X Part = [1..3 -> Part]
    /\ Factory \in [1..3 -> Part] /\ Erased \in [1..3 -> Part] /\ Custom \in [1..3 -> Part]
    /\ \A i \in 1..3 : Custom[i] = "custom"
  BY DEF Part, Factory, Erased, Custom

LEMMA ReadIsIdentity ==
    ASSUME NEW e \in [1..3 -> Part]
    PROVE  /\ readEepromIdentifiers(e) \in [1..3 -> Part]
           /\ e \in {Factory, Erased, Custom} =>
                  readEepromIdentifiers(e) \in
                      {Factory, Custom, <<"factory", "factory", "0xFF">>}
<1>1. readEepromIdentifiers(e) \in [1..3 -> Part]
  BY DEF readEepromIdentifiers, Part
<1>2. \A d \in {Factory, Erased, Custom} :
          readEepromIdentifiers(d) \in {Factory, Custom, <<"factory", "factory", "0xFF">>}
  BY DEF Factory, Erased, Custom, readEepromIdentifiers
<1> QED
  BY <1>1, <1>2

(* The scripts: an address is given in the second step and not before, and  *)
(* the console ends with asking, setting and asking again.                  *)
Scripted == {"console", "customizer", "sixpair"}

LEMMA EnumerateFacts ==
    /\ Enumerate \in Seq(Requests) /\ Len(Enumerate) = 3
    /\ \A i \in 1..3 : Enumerate[i] \in Requests
    /\ Enumerate[1].kind = "GetDescriptor"
    /\ Enumerate[2].kind = "SetAddress"
    /\ Enumerate[3].kind = "SetConfiguration"
<1>1. /\ Plain("GetDescriptor") \in Requests /\ Plain("SetAddress") \in Requests
      /\ With("SetConfiguration", <<"1">>) \in Requests
  BY DEF Requests
<1> QED
  BY <1>1, PlainFields, WithFields DEF Enumerate

(* A script that goes on with other requests than SetAddress. *)
LEMMA AfterEnumerate ==
    ASSUME NEW rest \in Seq(Requests),
           \A i \in 1..Len(rest) : rest[i].kind # "SetAddress"
    PROVE  /\ Len(Enumerate \o rest) \in Nat
           /\ \A i \in 1..Len(Enumerate \o rest) :
                  /\ (Enumerate \o rest)[i] \in Requests
                  /\ (Enumerate \o rest)[i].kind = "SetAddress" <=> i = 2
                  /\ i = 1 => (Enumerate \o rest)[i].kind = "GetDescriptor"
<1> DEFINE s == Enumerate \o rest
<1>1. Enumerate \in Seq(Requests) /\ Len(Enumerate) = 3 /\ Len(rest) \in Nat
  BY EnumerateFacts
<1>2. /\ Len(s) = 3 + Len(rest)
      /\ \A i \in 1..Len(s) : s[i] = IF i <= 3 THEN Enumerate[i] ELSE rest[i - 3]
  <2>1. /\ Len(s) = Len(Enumerate) + Len(rest)
        /\ \A i \in 1..Len(Enumerate) + Len(rest) :
               s[i] = IF i <= Len(Enumerate) THEN Enumerate[i] ELSE rest[i - Len(Enumerate)]
    BY <1>1, ConcatProperties, Zenon
  <2> HIDE DEF s
  <2> QED
    BY <1>1, <2>1
<1> HIDE DEF s
<1>3. ASSUME NEW i \in 1..Len(s)
      PROVE  /\ s[i] \in Requests
             /\ s[i].kind = "SetAddress" <=> i = 2
             /\ i = 1 => s[i].kind = "GetDescriptor"
  <2>1. CASE i \in 1..3
    <3>1. s[i] = Enumerate[i]
      BY <2>1, <1>2
    <3>2. Enumerate[i] \in Requests
      BY <2>1, EnumerateFacts
    <3>3. Enumerate[i].kind = "SetAddress" <=> i = 2
      BY <2>1, EnumerateFacts
    <3> QED
      BY <3>1, <3>2, <3>3, EnumerateFacts
  <2>2. CASE i > 3
    <3>1. s[i] = rest[i - 3] /\ i - 3 \in 1..Len(rest)
      BY <1>2, <2>2
    <3>2. rest[i - 3] \in Requests /\ rest[i - 3].kind # "SetAddress"
      BY <3>1
    <3> QED
      BY <3>1
  <2> QED
    BY <2>1, <2>2
<1> QED
  BY <1>3 DEF s

LEMMA ScriptFacts ==
    ASSUME NEW kind \in Scripted
    PROVE  /\ Len(Script[kind]) \in Nat
           /\ \A i \in 1..Len(Script[kind]) :
                  /\ Script[kind][i] \in Requests
                  /\ Script[kind][i].kind = "SetAddress" <=> i = 2
                  /\ i = 1 => Script[kind][i].kind = "GetDescriptor"
<1>1. CASE kind = "console"
  <2> DEFINE rest == <<Long("GetDevice"), With("SetOther", Other), Long("GetEcho"),
                       Long("GetMaster"), With("SetMaster", Own), Long("GetMaster")>>
  <2>1. \A k \in {"GetMaster", "GetDevice", "GetEcho"} : Long(k) \in Requests
    BY DEF Requests
  <2>2. With("SetOther", Other) \in Requests /\ With("SetMaster", Own) \in Requests
    BY DEF Requests
  <2>3. rest \in Seq(Requests) /\ \A i \in 1..Len(rest) : rest[i].kind # "SetAddress"
    BY <2>1, <2>2, LongFields, WithFields
  <2>4. Script[kind] = Enumerate \o rest
    BY <1>1 DEF Script, ConsoleScript
  <2> HIDE DEF rest
  <2> QED
    BY <2>3, <2>4, AfterEnumerate
<1>2. CASE kind = "customizer"
  <2> DEFINE rest == <<Plain("GetIdentity"), With("SetIdentity", Custom)>>
  <2>1. Plain("GetIdentity") \in Requests /\ With("SetIdentity", Custom) \in Requests
    BY DEF Requests
  <2>2. rest \in Seq(Requests) /\ \A i \in 1..Len(rest) : rest[i].kind # "SetAddress"
    BY <2>1, PlainFields, WithFields
  <2>3. Script[kind] = Enumerate \o rest
    BY <1>2 DEF Script, CustomizerScript
  <2> QED
    BY <2>2, <2>3, AfterEnumerate
<1>3. CASE kind = "sixpair"
  <2> DEFINE rest == <<Plain("GetMaster"), With("SetMaster", Own)>>
  <2>1. Plain("GetMaster") \in Requests /\ With("SetMaster", Own) \in Requests
    BY DEF Requests
  <2>2. rest \in Seq(Requests) /\ \A i \in 1..Len(rest) : rest[i].kind # "SetAddress"
    BY <2>1, PlainFields, WithFields
  <2>3. Script[kind] = Enumerate \o rest
    BY <1>3 DEF Script, SixpairScript
  <2> QED
    BY <2>2, <2>3, AfterEnumerate
<1> QED
  BY <1>1, <1>2, <1>3 DEF Scripted

LEMMA ConsoleFacts ==
    /\ Len(Script["console"]) = 9
    /\ Script["console"][7].kind = "GetMaster"
    /\ Script["console"][8].kind = "SetMaster"
    /\ Script["console"][9].kind = "GetMaster"
    /\ \A i \in 1..9 : Script["console"][i].kind = "SetConfiguration" => i = 3
<1>1. Script["console"] = ConsoleScript
  BY DEF Script
<1>2. /\ Len(ConsoleScript) = 9
      /\ ConsoleScript[7] = Long("GetMaster")
      /\ ConsoleScript[8] = With("SetMaster", Own)
      /\ ConsoleScript[9] = Long("GetMaster")
      /\ ConsoleScript[1] = Plain("GetDescriptor") /\ ConsoleScript[2] = Plain("SetAddress")
      /\ ConsoleScript[4] = Long("GetDevice") /\ ConsoleScript[5] = With("SetOther", Other)
      /\ ConsoleScript[6] = Long("GetEcho")
  BY DEF ConsoleScript, Enumerate
<1>3. \A i \in 1..9 : i = 3 \/ ConsoleScript[i].kind # "SetConfiguration"
  <2>1. \A i \in 1..9 : i \in {1, 2, 3, 4, 5, 6, 7, 8, 9}
    OBVIOUS
  <2> QED
    BY <1>2, <2>1, PlainFields, LongFields, WithFields
<1> QED
  BY <1>1, <1>2, <1>3, LongFields, WithFields

-----------------------------------------------------------------------------
(* The inductive invariant.                                                *)

Stages == {"attached", "idle", "data in", "data out", "status in", "status out"}
Hosts == [kind : {"console", "customizer", "sixpair", "any"}, step : Nat,
          address : {"0", "1"}, stage : Stages, request : Requests \cup {NoRequest},
          got : Answers]

Typed ==
    /\ TypeOK
    /\ host \in Hosts /\ host.kind \in Kinds
    /\ eeprom \in [1..3 -> Part]
    /\ pc # "boot" => identity \in [1..3 -> Part]
    /\ stalled \in BOOLEAN /\ wake \in BOOLEAN /\ faults \in Nat /\ stray \in BOOLEAN

(* What each place of the main loop says of the request in hand.           *)
InHand ==
    /\ pc \in {"in", "out"} => request.kind \in Streamed \cup Short
    /\ pc = "in" => todo \in 1..2
    /\ pc = "data" => request.kind \in SetReport
    /\ pc = "ack" => request.kind \in SetReport \cup NoData
    /\ pc = "address" => request.kind = "SetAddress"
    /\ pc \in {"configure", "configured", "unconfigured"} => request.kind = "SetConfiguration"
    /\ pc = "eeprom" => request.kind = "SetIdentity" /\ todo \in 1..3
    /\ pc = "store" => request.kind = "SetMaster"
    /\ pc \in {"ack", "eeprom", "store"} /\ request.kind \in SetReport =>
           last_set_data = request.data

InTransfer == host.stage \notin {"attached", "idle"}

(* Endpoint 0: a SETUP that is there belongs to the transfer of the host,   *)
(* and what has come into the IN bank it emptied is astray.                 *)
Banks ==
    /\ rx # Nothing => \/ pc \in {"in", "out"} /\ rx = ZLP
                       \/ pc = "data" /\ rx = request.data
    /\ stalled => pc \in {"main", "report"} /\ setup = NoRequest
    /\ setup # NoRequest =>
           /\ host.request = setup /\ host.stage = FirstStage(setup)
           /\ pc # "boot"
           /\ tx = Nothing \/ stray
    /\ InTransfer => host.request \in Wants
    /\ pc = "boot" => host.stage = "attached"
    /\ ~InTransfer => host.request = NoRequest /\ setup = NoRequest

(* Once the SETUP is cleared, firmware and host are at the same place of    *)
(* the same transfer.                                                      *)
DataIn ==
    /\ host.request.kind \in Streamed \cup Short /\ rx = Nothing
    /\ \/ pc = "in" /\ (tx = Nothing \/ stray) /\ answer = AnswerTo(host.request)
       \/ pc \in {"in", "out"} /\ tx = AnswerTo(host.request) /\ ~stray
       \/ pc = "out" /\ stray

DataOut ==
    /\ host.request.kind \in SetReport
    /\ pc = "data" /\ rx = Nothing /\ (tx = Nothing \/ stray)

StatusOut ==
    /\ host.request.kind \in Streamed \cup Short
    /\ pc \in {"in", "out"} /\ rx = Nothing /\ ~stray

StatusIn ==
    /\ host.request.kind \in SetReport \cup NoData
    /\ pc # "data" /\ host.request.kind \in SetReport => last_set_data = host.request.data
    /\ \/ /\ pc = "data" /\ rx = host.request.data /\ (tx = Nothing \/ stray)
          /\ host.request.kind \in SetReport
       \/ pc = "ack" /\ (tx = Nothing \/ stray)
       \/ /\ tx = ZLP /\ ~stray
          /\ \/ pc = Continuation(host.request)
             \/ /\ host.request.kind = "SetConfiguration"
                /\ pc \in {"configured", "unconfigured", "elsewhere"}
             \/ host.request.kind # "SetAddress" /\ pc \in {"finish", "main", "report"}
          /\ host.request.kind = "SetMaster" /\ pc # "store" => master = Own
          /\ ~cut /\ host.request.kind = "SetIdentity" /\ pc # "eeprom" => eeprom = Custom

InStep ==
    InTransfer /\ setup = NoRequest /\ ~stalled =>
        /\ request = host.request
        /\ host.stage = "data in" => DataIn
        /\ host.stage = "status out" => StatusOut
        /\ host.stage = "data out" => DataOut
        /\ host.stage = "status in" => StatusIn

(* A host without an address has not configured the device.                *)
Addressed ==
    /\ host.kind # "any" => /\ host.step \in 1..Len(Script[host.kind]) + 1
                            /\ host.address = (IF host.step > 2 THEN "1" ELSE "0")
    /\ host.address = "0" => cfg = "0"
    /\ pc \in {"ack", "address"} /\ request.kind = "SetAddress" => cfg = "0"

Configuring ==
    \/ pc \in {"configure", "configured", "unconfigured"}
    \/ pc = "ack" /\ request.kind = "SetConfiguration"

Agreed ==
    ~raced => /\ ~Configuring /\ device \in {"Default", "Addressed", "Configured"} =>
                     (device = "Configured" <=> cfg # "0")
              /\ pc = "configured" => cfg # "0"
              /\ pc = "unconfigured" => cfg = "0"

(* The identity is never in EEPROM by halves, except during the writes.     *)
Whole ==
    ~cut => /\ pc # "boot" => identity \in {Factory, Custom, <<"factory", "factory", "0xFF">>}
            /\ pc # "eeprom" => eeprom \in {Factory, Erased, Custom}
            /\ pc = "eeprom" => \A i \in 1..3 : i < 4 - todo => eeprom[i] = "custom"
            /\ acked => \/ eeprom = Custom \/ pc = "eeprom"
                        \/ request.kind = "SetIdentity" /\ pc \in {"data", "ack"}

Patient ==
    ~early =>
        /\ setup # NoRequest => \/ pc \in {"main", "report"}
                                \/ pc = "finish" /\ setup.kind = "Unknown"
        /\ OnlyUnhandledStalled
        /\ pc = "ack" /\ request.kind = "SetAddress" => host.stage = "status in"
        /\ pc = "address" /\ tx # Nothing => host.stage = "status in"
        /\ host.address = IF pc = "address" /\ tx = Nothing THEN "1" ELSE address

(* From the seventh to the ninth request of the console.                   *)
Pairing ==
    host.kind = "console" =>
        /\ host.step >= 8 => reply = 1 \/ (pc \in {"in", "out"} /\ request.kind = "GetMaster")
        /\ host.step >= 9 => reply = 1 /\ (master = Own \/ pc = "store")
        /\ host.step >= 9 /\ host.stage = "status out" => host.got = Own
        /\ host.step > 9 => host.got = Own /\ master = Own

(* A packet is astray only with a host that hurries; beyond the request     *)
(* after SET_CONFIGURATION the SETUP it waits for is refused.  While the    *)
(* firmware waits for endpoint 0, no transfer gets anywhere.                *)
Strayed ==
    /\ stray => tx = ZLP /\ early
    /\ pc = "blind" => early /\ (setup # NoRequest \/ ~InTransfer)
    /\ host.kind = "console" =>
           /\ pc = "blind" => host.step = 1
           /\ pc = "ack" /\ request.kind = "SetConfiguration" => host.step <= 4
           /\ stray => \/ host.step <= 4
                       \/ stalled
                       \/ setup # NoRequest /\ pc \in {"address", "eeprom", "store", "finish"}

IInv == /\ Typed /\ InHand /\ Banks /\ InStep /\ Addressed /\ Agreed /\ Whole /\ Patient
        /\ Pairing /\ Strayed

-----------------------------------------------------------------------------
(* Facts the actions keep needing.                                         *)

LEMMA StageFacts ==
    ASSUME NEW r \in Requests
    PROVE  /\ r.kind \in Streamed \cup Short <=> FirstStage(r) = "data in"
           /\ r.kind \in SetReport <=> FirstStage(r) = "data out"
           /\ r.kind \in NoData \cup {"Unknown"} <=> FirstStage(r) = "status in"
  BY RequestFacts DEF FirstStage, Streamed, Short, SetReport, NoData

LEMMA WantsFacts ==
    ASSUME Typed, Addressed, NEW r \in Wants
    PROVE  /\ r \in Requests
           /\ host.address = "0" => r.kind \in {"GetDescriptor", "SetAddress"}
           /\ host.address = "1" => r.kind # "SetAddress"
           /\ host.kind # "any" => /\ host.step \in 1..Len(Script[host.kind])
                                   /\ r = Script[host.kind][host.step]
<1>1. host.address \in {"0", "1"}
  BY DEF Typed, Hosts
<1>2. CASE host.kind = "any"
  BY <1>2, WhimsAssumption DEF Wants
<1>3. CASE host.kind # "any"
  <2>1. host.kind \in Scripted
    BY <1>3 DEF Typed, Hosts, Scripted
  <2>2. host.step \in 1..Len(Script[host.kind]) /\ r = Script[host.kind][host.step]
    BY <1>3 DEF Wants
  <2>3. /\ r \in Requests
        /\ r.kind = "SetAddress" <=> host.step = 2
        /\ host.step = 1 => r.kind = "GetDescriptor"
    BY <2>1, <2>2, ScriptFacts
  <2>4. host.address = IF host.step > 2 THEN "1" ELSE "0"
    BY <1>3 DEF Addressed
  <2>5. host.step \in Nat
    BY DEF Typed, Hosts
  <2> QED
    BY <2>2, <2>3, <2>4
<1> QED
  BY <1>2, <1>3

(* CASE is unfolded in StageFacts and in the next two lemmas only, and there *)
(* compared with what is no CASE.                                           *)
LEMMA ContinuationFacts ==
    ASSUME NEW r
    PROVE  /\ Continuation(r) \in {"address", "configure", "eeprom", "store", "finish"}
           /\ Continuation(r) = "address" <=> r.kind = "SetAddress"
           /\ Continuation(r) = "configure" <=> r.kind = "SetConfiguration"
           /\ Continuation(r) = "eeprom" <=> r.kind = "SetIdentity"
           /\ Continuation(r) = "store" <=> r.kind = "SetMaster"
  BY DEF Continuation

LEMMA AnswerIs ==
    ASSUME NEW r
    PROVE  /\ r.kind = "GetDescriptor" => AnswerTo(r) = <<identity[1], identity[2]>>
           /\ r.kind = "GetIdentity" => AnswerTo(r) = identity
           /\ r.kind = "GetMaster" /\ reply = 0 => AnswerTo(r) = Dummy
           /\ r.kind = "GetMaster" /\ reply # 0 => AnswerTo(r) = master
           /\ r.kind = "GetDevice" => AnswerTo(r) = <<identity[3]>>
           /\ r.kind = "GetEcho" => AnswerTo(r) = last_set_data
           /\ r.kind = "GetConfiguration" => AnswerTo(r) = <<cfg>>
           /\ r.kind = "GetSetting" => AnswerTo(r) = <<setting>>
  BY DEF AnswerTo

LEMMA AnswerIsNext ==
    ASSUME NEW r
    PROVE  /\ r.kind = "GetDescriptor" => AnswerTo(r)' = <<identity'[1], identity'[2]>>
           /\ r.kind = "GetIdentity" => AnswerTo(r)' = identity'
           /\ r.kind = "GetMaster" /\ reply' = 0 => AnswerTo(r)' = Dummy
           /\ r.kind = "GetMaster" /\ reply' # 0 => AnswerTo(r)' = master'
           /\ r.kind = "GetDevice" => AnswerTo(r)' = <<identity'[3]>>
           /\ r.kind = "GetEcho" => AnswerTo(r)' = last_set_data'
           /\ r.kind = "GetConfiguration" => AnswerTo(r)' = <<cfg'>>
           /\ r.kind = "GetSetting" => AnswerTo(r)' = <<setting'>>
  BY DEF AnswerTo

LEMMA SameAnswer ==
    ASSUME NEW r, r.kind \in Streamed \cup Short,
           UNCHANGED <<identity, master, reply, last_set_data, cfg, setting>>
    PROVE  AnswerTo(r)' = AnswerTo(r)
<1>1. r.kind \in {"GetDescriptor", "GetIdentity", "GetMaster", "GetDevice", "GetEcho",
                  "GetConfiguration", "GetSetting"}
  BY DEF Streamed, Short
<1> QED
  BY <1>1, AnswerIs, AnswerIsNext

LEMMA AnswersContain ==
    /\ {Nothing, ZLP, Dummy, Zero, Own, Custom, Other, <<"0">>, <<"1">>} \subseteq Answers
    /\ \A i \in Part : <<i>> \in Answers
    /\ \A i \in Part, j \in Part : <<i, j>> \in Answers
    /\ [1..3 -> Part] \subseteq Answers
  BY DEF Answers

LEMMA AnswerFacts ==
    ASSUME Typed, pc # "boot", NEW r, r.kind \in Streamed \cup Short
    PROVE  AnswerTo(r) \in Answers /\ AnswerTo(r) # Nothing
<1>1. /\ identity \in [1..3 -> Part] /\ reply \in 0..1 /\ setting \in {"0", "1"}
      /\ cfg \in {"0", "1"} /\ last_set_data \in {Zero, Own, Custom, Other}
      /\ master \in {Zero, Own}
  BY DEF Typed, TypeOK
<1>2. /\ {Nothing, ZLP, Dummy, Zero, Own, Custom, Other, <<"0">>, <<"1">>} \subseteq Answers
      /\ \A i \in Part : <<i>> \in Answers
      /\ \A i \in Part, j \in Part : <<i, j>> \in Answers
      /\ [1..3 -> Part] \subseteq Answers
  BY AnswersContain
<1>3. /\ {ZLP, Dummy, Zero, Own, Custom, Other, <<"0">>, <<"1">>} \subseteq Answers \ {Nothing}
      /\ \A i \in Part : <<i>> # Nothing
      /\ \A i \in Part, j \in Part : <<i, j>> # Nothing
      /\ \A f \in [1..3 -> Part] : f # Nothing
  <2>1. \A f \in [1..3 -> Part] : \E i, j, k : f = <<i, j, k>>
    OBVIOUS
  <2>2. \A i, j, k : <<i>> # Nothing /\ <<i, j>> # Nothing /\ <<i, j, k>> # Nothing
    BY DEF Nothing
  <2>3. {ZLP, Dummy, Zero, Own, Custom, Other, <<"0">>, <<"1">>} \subseteq Answers \ {Nothing}
    BY <1>2, <2>2 DEF ZLP, Dummy, Zero, Own, Custom, Other
  <2>4. \A f \in [1..3 -> Part] : f # Nothing
    BY <2>2
  <2> QED
    BY <2>2, <2>3
<1>4. r.kind \in {"GetDescriptor", "GetIdentity", "GetMaster", "GetDevice", "GetEcho",
                  "GetConfiguration", "GetSetting"}
  BY DEF Streamed, Short
<1> QED
  BY <1>1, <1>2, <1>3, <1>4, AnswerIs

LEMMA InitIInv == Init => IInv
<1> SUFFICES ASSUME Init PROVE IInv
  OBVIOUS
<1> PICK kind \in Kinds : host = Fresh(kind)
  BY DEF Init
<1>1. /\ host.kind = kind /\ host.step = 1 /\ host.address = "0" /\ host.stage = "attached"
      /\ host.request = NoRequest /\ host.got = Nothing /\ host \in Hosts
  BY ConstantsAssumption DEF Fresh, Hosts, Stages, Answers
<1>2. eeprom \in {Factory, Erased}
  BY DEF Init
<1>3. Typed
  <2>1. Nothing \in Answers
    BY DEF Answers
  <2>2. host \in Hosts /\ host.kind \in Kinds /\ eeprom \in [1..3 -> Part]
    BY <1>1, <1>2, Identities
  <2>3. TypeOK
    BY <1>1, <2>1 DEF Init, TypeOK
  <2> QED
    BY <2>2, <2>3 DEF Init, Typed
<1>4. InHand /\ Banks /\ InStep
  BY <1>1 DEF Init, InHand, Banks, InStep, InTransfer
<1>5. Addressed
  <2>1. kind # "any" => kind \in Scripted
    BY ConstantsAssumption DEF Scripted
  <2>2. kind # "any" => Len(Script[kind]) \in Nat
    OBVIOUS
  <2> QED
    BY <1>1 DEF Init, Addressed
<1>6. Agreed /\ Patient
  BY <1>1 DEF Init, Agreed, Patient, OnlyUnhandledStalled
<1>7. Whole
  BY DEF Init, Whole
<1>8. Pairing
  BY <1>1 DEF Pairing
<1>9. Strayed
  BY DEF Init, Strayed
<1> QED
  BY <1>3, <1>4, <1>5, <1>6, <1>7, <1>8, <1>9 DEF IInv

(* A transfer that is over. *)
LEMMA DoneFacts ==
    ASSUME Typed, Banks, Addressed, Done, InTransfer
    PROVE  /\ host' \in Hosts /\ host'.kind = host.kind /\ host'.got = host.got
           /\ host'.stage = "idle" /\ host'.request = NoRequest /\ ~InTransfer'
           /\ host'.step = IF host.kind = "any" THEN host.step ELSE host.step + 1
           /\ host'.address = IF host.request.kind = "SetAddress" THEN "1" ELSE host.address
           /\ host.kind # "any" =>
                  /\ host.step \in 1..Len(Script[host.kind])
                  /\ host.request = Script[host.kind][host.step]
                  /\ host'.step \in 1..Len(Script[host.kind]) + 1
                  /\ host'.address = IF host'.step > 2 THEN "1" ELSE "0"
<1>1. host \in Hosts /\ host.step \in Nat
  BY DEF Typed, Hosts
<1>2. /\ host'.kind = host.kind /\ host'.got = host.got
      /\ host'.stage = "idle" /\ host'.request = NoRequest
      /\ host'.step = IF host.kind = "any" THEN host.step ELSE host.step + 1
      /\ host'.address = IF host.request.kind = "SetAddress" THEN "1" ELSE host.address
      /\ host' \in Hosts
  <2>1. PICK n \in Nat, a \in {"0", "1"} :
            /\ n = IF host.kind = "any" THEN host.step ELSE host.step + 1
            /\ a = IF host.request.kind = "SetAddress" THEN "1" ELSE host.address
    BY <1>1 DEF Hosts
  <2>2. host' = [host EXCEPT !.stage = "idle", !.request = NoRequest, !.step = n, !.address = a]
    BY <2>1 DEF Done
  <2> QED
    BY <1>1, <2>1, <2>2 DEF Hosts, Stages
<1>3. ~InTransfer'
  BY <1>2 DEF InTransfer
<1>4. ASSUME host.kind # "any"
      PROVE  /\ host.step \in 1..Len(Script[host.kind])
             /\ host.request = Script[host.kind][host.step]
             /\ host'.step \in 1..Len(Script[host.kind]) + 1
             /\ host'.address = IF host'.step > 2 THEN "1" ELSE "0"
  <2>1. host.kind \in Scripted
    BY <1>1, <1>4 DEF Hosts, Scripted
  <2>2. host.request \in Wants
    BY DEF Banks
  <2>3. host.step \in 1..Len(Script[host.kind]) /\ host.request = Script[host.kind][host.step]
    BY <1>4, <2>2, WantsFacts
  <2>4. Len(Script[host.kind]) \in Nat /\ (host.request.kind = "SetAddress" <=> host.step = 2)
    BY <2>1, <2>3, ScriptFacts
  <2>5. host.address = IF host.step > 2 THEN "1" ELSE "0"
    BY <1>4 DEF Addressed
  <2> QED
    BY <1>2, <1>4, <2>3, <2>4, <2>5
<1> QED
  BY <1>2, <1>3, <1>4

(* The last requests of the console. *)
LEMMA ConsoleRequests ==
    ASSUME Typed, Banks, Addressed, InTransfer, host.kind = "console"
    PROVE  /\ host.step \in 1..9
           /\ host.step \in {7, 9} => host.request.kind = "GetMaster"
           /\ host.step = 8 => host.request.kind = "SetMaster"
           /\ host.request.kind = "SetConfiguration" => host.step = 3
<1>1. host.request \in Wants
  BY DEF Banks
<1> QED
  BY <1>1, WantsFacts, ConsoleFacts

-----------------------------------------------------------------------------
(* Every action keeps the invariant.                                       *)

USE DEF main, endpoint, bus, memory, history

(* Power-up: the identity is read from EEPROM.                              *)
LEMMA BootKeeps == ASSUME IInv, Boot PROVE IInv'
<1>1. Typed /\ InHand /\ Banks /\ InStep /\ Addressed /\ Agreed /\ Whole /\ Patient /\ Pairing
      /\ Strayed
  BY DEF IInv
<1>2. Wants' = Wants /\ InTransfer' = InTransfer
  BY DEF Boot, Wants, InTransfer
<1>3. Typed'
  <2>1. readEepromIdentifiers(eeprom) \in [1..3 -> Part]
    BY <1>1, ReadIsIdentity DEF Typed
  <2> QED
    BY <1>1, <2>1, AnswersContain DEF Boot, Typed, TypeOK
<1>4. InHand'
  BY DEF Boot, InHand
<1>5. Banks'
  BY <1>1, <1>2 DEF Boot, Banks
<1>6. InStep'
  BY <1>1, <1>2 DEF Boot, InStep, Banks
<1>7. Addressed'
  BY <1>1 DEF Boot, Addressed
<1>8. Agreed'
  BY DEF Boot, Agreed
<1>9. Whole'
  <2>1. eeprom \in [1..3 -> Part]
    BY <1>1 DEF Typed
  <2> QED
    BY <1>1, <2>1, ReadIsIdentity DEF Boot, Whole
<1>10. Patient'
  BY <1>1 DEF Boot, Patient, OnlyUnhandledStalled
<1>11. Pairing'
  BY <1>1 DEF Boot, Pairing
<1>12. Strayed'
  BY <1>1 DEF Boot, Strayed, InTransfer
<1> QED
  BY <1>3, <1>4, <1>5, <1>6, <1>7, <1>8, <1>9, <1>10, <1>11, <1>12 DEF IInv

(* A SETUP is taken up: firmware and host begin the same transfer.          *)
LEMMA DispatchKeeps == ASSUME IInv, Dispatch PROVE IInv'
<1>1. Typed /\ InHand /\ Banks /\ InStep /\ Addressed /\ Agreed /\ Whole /\ Patient /\ Pairing
      /\ Strayed
  BY DEF IInv
<1>2. Wants' = Wants /\ InTransfer' = InTransfer
  BY DEF Dispatch, Wants, InTransfer
<1>3. /\ setup \in Requests /\ host.request = setup /\ host.stage = FirstStage(setup)
      /\ tx = Nothing \/ stray
      /\ rx = Nothing /\ ~stalled /\ InTransfer /\ setup \in Wants
  <2>1. setup \in Requests
    BY <1>1 DEF Dispatch, Typed, TypeOK
  <2> QED
    BY <1>1, <2>1 DEF Dispatch, Banks
<1>4. \/ /\ setup.kind \in Streamed /\ pc' = "in" /\ setup' = NoRequest
         /\ answer' = AnswerTo(setup) /\ todo' = Packets(setup)
         /\ tx' = tx /\ stray' = stray /\ cfg' = cfg /\ setting' = setting
      \/ /\ setup.kind \in Short /\ pc' = "out" /\ setup' = NoRequest
         /\ \/ tx' = AnswerTo(setup) /\ stray' = FALSE
            \/ tx' = tx /\ stray' = stray /\ stray
         /\ cfg' = cfg /\ setting' = setting /\ answer' = answer /\ todo' = todo
      \/ /\ setup.kind \in SetReport /\ pc' = "data" /\ setup' = NoRequest
         /\ tx' = tx /\ stray' = stray /\ cfg' = cfg /\ setting' = setting /\ answer' = answer /\ todo' = todo
      \/ /\ setup.kind \in NoData /\ pc' = "ack" /\ setup' = NoRequest
         /\ tx' = tx /\ stray' = stray
         /\ cfg' = IF setup.kind = "SetConfiguration" THEN setup.data[1] ELSE cfg
         /\ setting' = IF setup.kind = "SetSetting" THEN setup.data[1] ELSE setting
         /\ answer' = answer /\ todo' = todo
      \/ /\ setup.kind = "Unknown" /\ pc' = "finish" /\ setup' = setup
         /\ tx' = tx /\ stray' = stray /\ cfg' = cfg /\ setting' = setting /\ answer' = answer /\ todo' = todo
  BY <1>3 DEF Dispatch
<1>5. /\ request' = setup /\ pc = "main" /\ setup # NoRequest
      /\ UNCHANGED <<rx, stalled, address, device, wake, eeprom, identity, master, reply,
                     last_set_data, host, faults, acked, early, cut, raced>>
  BY DEF Dispatch
<1>6. setup.kind \in Streamed \cup Short => AnswerTo(setup) \in Answers
  BY <1>1, <1>5, AnswerFacts
<1>7. Typed'
  <2>1. /\ cfg' \in {"0", "1"} /\ setting' \in {"0", "1"} /\ todo' \in 0..3
        /\ pc' \in {"in", "out", "data", "ack", "finish"}
        /\ setup' \in Requests \cup {NoRequest} /\ tx' \in Answers /\ answer' \in Answers
    BY <1>1, <1>3, <1>4, <1>6, RequestFacts DEF Typed, TypeOK
  <2>2. stray' \in BOOLEAN
    BY <1>1, <1>4 DEF Typed
  <2>3. TypeOK'
    BY <1>1, <1>5, <2>1 DEF Typed, TypeOK
  <2> QED
    BY <1>1, <1>5, <2>2, <2>3 DEF Typed
<1>8. InHand'
  BY <1>3, <1>4, <1>5, RequestFacts DEF InHand, SetReport, NoData
<1>9. Banks'
  BY <1>2, <1>3, <1>4, <1>5 DEF Banks
<1>10. InStep'
  <2>1. /\ host' = host /\ request' = setup /\ rx' = Nothing
        /\ UNCHANGED <<identity, master, reply, last_set_data>>
    BY <1>3, <1>5
  <2>2. CASE setup.kind \in Streamed \cup Short
    <3>1. cfg' = cfg /\ setting' = setting
      BY <1>4, <2>2 DEF Streamed, Short
    <3>2. \A r : r.kind \in Streamed \cup Short => AnswerTo(r)' = AnswerTo(r)
      BY <2>1, <3>1, SameAnswer
    <3>3. AnswerTo(host.request)' = AnswerTo(setup)
      BY <1>3, <2>1, <2>2, <3>2
    <3>4. host.stage = "data in"
      BY <1>3, <2>2, StageFacts
    <3>5. \/ pc' = "in" /\ (tx' = Nothing \/ stray') /\ answer' = AnswerTo(setup)
          \/ pc' = "out" /\ tx' = AnswerTo(setup) /\ ~stray'
          \/ pc' = "out" /\ stray'
      BY <1>3, <1>4, <2>2 DEF Streamed, Short, SetReport, NoData
    <3> QED
      BY <1>3, <2>1, <2>2, <3>3, <3>4, <3>5 DEF InStep, DataIn
  <2>3. CASE setup.kind \in SetReport
    <3>1. host.stage = "data out" /\ pc' = "data" /\ (tx' = Nothing \/ stray')
      BY <1>3, <1>4, <2>3, StageFacts
    <3> QED
      BY <1>3, <2>1, <2>3, <3>1 DEF InStep, DataOut
  <2>4. CASE setup.kind \in NoData
    <3>1. host.stage = "status in" /\ pc' = "ack" /\ (tx' = Nothing \/ stray')
      BY <1>3, <1>4, <2>4, StageFacts DEF NoData
    <3> QED
      BY <1>3, <2>1, <2>4, <3>1 DEF InStep, StatusIn, SetReport, NoData
  <2>5. CASE setup.kind = "Unknown"
    BY <1>4, <1>5, <2>5 DEF InStep, Streamed, Short, SetReport, NoData
  <2> QED
    BY <1>4, <2>2, <2>3, <2>4, <2>5
<1>11. Addressed'
  <2>1. host.address = "0" => setup.kind \in {"GetDescriptor", "SetAddress"}
    BY <1>1, <1>3, WantsFacts
  <2>2. cfg' # cfg => setup.kind = "SetConfiguration"
    BY <1>4
  <2>3. setup.kind = "SetAddress" => host.address = "0"
    BY <1>1, <1>3, WantsFacts DEF Typed, Hosts
  <2> QED
    BY <1>1, <1>5, <2>1, <2>2, <2>3 DEF Addressed
<1>12. Agreed'
  BY <1>1, <1>4, <1>5 DEF Agreed, Configuring
<1>13. Whole'
  BY <1>1 DEF Dispatch, Whole
<1>14. Patient'
  <2>1. setup.kind = "SetAddress" => host.stage = "status in"
    BY <1>3, StageFacts DEF NoData
  <2> QED
    BY <1>1, <1>4, <1>5, <2>1 DEF Patient, OnlyUnhandledStalled
<1>15. Pairing'
  BY <1>1 DEF Dispatch, Pairing
<1>16. Strayed'
  <2>1. stray' => stray /\ tx' = tx
    BY <1>4
  <2>2. host.kind = "console" /\ stray' => host.step <= 4
    BY <1>1, <1>3, <1>5, <2>1 DEF Strayed
  <2>3. host.kind = "console" /\ pc' = "ack" /\ setup.kind = "SetConfiguration" => host.step <= 4
    BY <1>1, <1>3, ConsoleRequests
  <2>4. pc' # "blind"
    BY <1>4
  <2> QED
    BY <1>1, <1>5, <2>1, <2>2, <2>3, <2>4 DEF Strayed
<1> QED
  BY <1>7, <1>8, <1>9, <1>10, <1>11, <1>12, <1>13, <1>14, <1>15, <1>16 DEF IInv

(* A SETUP that comes during the stream ends it.                            *)
LEMMA HostAbortedKeeps == ASSUME IInv, HostAborted PROVE IInv'
<1>1. Typed /\ InHand /\ Banks /\ InStep /\ Addressed /\ Agreed /\ Whole /\ Patient /\ Pairing
      /\ Strayed
  BY DEF IInv
<1>2. Wants' = Wants /\ InTransfer' = InTransfer
  BY DEF HostAborted, Wants, InTransfer
<1>3. Typed'
  BY <1>1 DEF HostAborted, Asked, Typed, TypeOK
<1>4. InHand'
  BY DEF HostAborted, InHand
<1>5. Banks'
  BY <1>1, <1>2 DEF HostAborted, Banks
<1>6. InStep'
  BY DEF HostAborted, Aborted, InStep
<1>7. Addressed'
  BY <1>1 DEF HostAborted, Addressed
<1>8. Agreed'
  BY <1>1 DEF HostAborted, Agreed, Configuring
<1>9. Whole'
  BY <1>1 DEF HostAborted, Whole
<1>10. Patient'
  BY <1>1 DEF HostAborted, Patient, OnlyUnhandledStalled
<1>11. Pairing'
  BY <1>1 DEF HostAborted, Asked, Pairing
<1>12. Strayed'
  BY <1>1 DEF HostAborted, Strayed, InTransfer
<1> QED
  BY <1>3, <1>4, <1>5, <1>6, <1>7, <1>8, <1>9, <1>10, <1>11, <1>12 DEF IInv

(* A packet goes into the IN bank, or the status stage ends the stream.     *)
LEMMA WritePacketsKeeps == ASSUME IInv, WritePackets PROVE IInv'
<1>1. Typed /\ InHand /\ Banks /\ InStep /\ Addressed /\ Agreed /\ Whole /\ Patient /\ Pairing
      /\ Strayed
  BY DEF IInv
<1>2. Wants' = Wants /\ InTransfer' = InTransfer
  BY DEF WritePackets, Wants, InTransfer
<1>3. \A r : r.kind \in Streamed \cup Short => AnswerTo(r)' = AnswerTo(r)
  BY SameAnswer DEF WritePackets
<1>4. Typed'
  BY <1>1, AnswersContain DEF WritePackets, Typed, TypeOK, InHand
<1>5. InHand'
  BY <1>1 DEF WritePackets, InHand
<1>6. Banks'
  BY <1>1, <1>2 DEF WritePackets, Aborted, Banks
<1>7. InStep'
  <2> SUFFICES ASSUME InTransfer, setup = NoRequest, ~stalled
               PROVE  /\ request = host.request
                      /\ host.stage = "data in" => DataIn'
                      /\ host.stage = "status out" => StatusOut'
                      /\ host.stage \notin {"data out", "status in"}
    BY <1>2 DEF WritePackets, InStep
  <2>1. /\ request = host.request
        /\ host.stage = "data in" => DataIn
        /\ host.stage = "status out" => StatusOut
        /\ host.stage \notin {"data out", "status in"}
    BY <1>1, ContinuationFacts DEF WritePackets, InStep, DataOut, StatusIn
  <2>2. ASSUME host.stage = "data in" PROVE DataIn'
    <3>1. DataIn /\ host.request.kind \in Streamed \cup Short /\ host' = host
      BY <2>1, <2>2 DEF DataIn, WritePackets
    <3>2. AnswerTo(host.request)' = AnswerTo(host.request)
      BY <1>3, <3>1 DEF WritePackets
    <3>3. stray => tx # Nothing
      BY <1>1, Contents DEF Strayed
    <3>4. /\ pc = "in" /\ rx = Nothing /\ tx = Nothing /\ tx' = answer
          /\ pc' \in {"in", "out"} /\ UNCHANGED <<stray, rx, host>>
      BY <1>1, <2>2, <3>1 DEF WritePackets, DataIn
    <3> QED
      BY <1>1, <3>1, <3>2, <3>3, <3>4, AnswerFacts DEF DataIn
  <2>3. ASSUME host.stage = "status out" PROVE StatusOut'
    BY <2>1, <2>3 DEF WritePackets, StatusOut
  <2> QED
    BY <2>1, <2>2, <2>3
<1>8. Addressed'
  BY <1>1 DEF WritePackets, Addressed
<1>9. Agreed'
  BY <1>1 DEF WritePackets, Agreed, Configuring
<1>10. Whole'
  BY <1>1 DEF WritePackets, Whole
<1>11. Patient'
  BY <1>1 DEF WritePackets, Patient, OnlyUnhandledStalled
<1>12. Pairing'
  BY <1>1 DEF WritePackets, Pairing
<1>13. Strayed'
  BY <1>1, Contents DEF WritePackets, Strayed, InTransfer
<1> QED
  BY <1>4, <1>5, <1>6, <1>7, <1>8, <1>9, <1>10, <1>11, <1>12, <1>13 DEF IInv

(* The status stage of a request that was answered.                         *)
LEMMA AwaitOutKeeps == ASSUME IInv, AwaitOut PROVE IInv'
<1>1. Typed /\ InHand /\ Banks /\ InStep /\ Addressed /\ Agreed /\ Whole /\ Patient /\ Pairing
      /\ Strayed
  BY DEF IInv
<1>2. Wants' = Wants /\ InTransfer' = InTransfer
  BY DEF AwaitOut, Wants, InTransfer
<1>3. Typed'
  BY <1>1 DEF AwaitOut, Asked, Typed, TypeOK
<1>4. InHand'
  BY DEF AwaitOut, InHand
<1>5. Banks'
  BY <1>1, <1>2 DEF AwaitOut, Banks
<1>6. InStep'
  BY <1>1, <1>2
     DEF AwaitOut, InStep, InHand, DataIn, DataOut, StatusOut, StatusIn, Streamed, Short
<1>7. Addressed'
  BY <1>1 DEF AwaitOut, Addressed
<1>8. Agreed'
  BY <1>1 DEF AwaitOut, Agreed, Configuring
<1>9. Whole'
  BY <1>1 DEF AwaitOut, Whole
<1>10. Patient'
  BY <1>1 DEF AwaitOut, Patient, OnlyUnhandledStalled
<1>11. Pairing'
  BY <1>1 DEF AwaitOut, Asked, Pairing
<1>12. Strayed'
  BY <1>1 DEF AwaitOut, Strayed, InTransfer
<1> QED
  BY <1>3, <1>4, <1>5, <1>6, <1>7, <1>8, <1>9, <1>10, <1>11, <1>12 DEF IInv

(* The data of a report that is set.                                        *)
LEMMA AwaitDataKeeps == ASSUME IInv, AwaitData PROVE IInv'
<1>1. Typed /\ InHand /\ Banks /\ InStep /\ Addressed /\ Agreed /\ Whole /\ Patient /\ Pairing
      /\ Strayed
  BY DEF IInv
<1>2. Wants' = Wants /\ InTransfer' = InTransfer
  BY DEF AwaitData, Wants, InTransfer
<1>3. Typed'
  BY <1>1, ReportData DEF AwaitData, Typed, TypeOK, InHand, Banks
<1>4. InHand'
  BY <1>1 DEF AwaitData, InHand, Banks
<1>5. Banks'
  BY <1>1, <1>2 DEF AwaitData, Banks
<1>6. InStep'
  BY <1>1, <1>2, ContinuationFacts
     DEF AwaitData, InStep, DataIn, DataOut, StatusOut, StatusIn
<1>7. Addressed'
  BY <1>1 DEF AwaitData, Addressed, InHand, SetReport
<1>8. Agreed'
  BY <1>1 DEF AwaitData, Agreed, Configuring
<1>9. Whole'
  BY <1>1 DEF AwaitData, Whole
<1>10. Patient'
  BY <1>1 DEF AwaitData, Patient, OnlyUnhandledStalled, InHand, SetReport
<1>11. Pairing'
  BY <1>1 DEF AwaitData, Pairing
<1>12. Strayed'
  BY <1>1 DEF AwaitData, Strayed, InTransfer, InHand, SetReport
<1> QED
  BY <1>3, <1>4, <1>5, <1>6, <1>7, <1>8, <1>9, <1>10, <1>11, <1>12 DEF IInv

(* The acknowledgement, and what is done after it.                          *)
LEMMA AcknowledgeKeeps == ASSUME IInv, Acknowledge PROVE IInv'
<1>1. Typed /\ InHand /\ Banks /\ InStep /\ Addressed /\ Agreed /\ Whole /\ Patient /\ Pairing
      /\ Strayed
  BY DEF IInv
<1>2. Wants' = Wants /\ InTransfer' = InTransfer
  BY DEF Acknowledge, Wants, InTransfer
<1>3. Typed'
  BY <1>1, AnswersContain, ContinuationFacts DEF Acknowledge, Typed, TypeOK
<1>4. InHand'
  BY <1>1, ContinuationFacts DEF Acknowledge, InHand
<1>5. Banks'
  BY <1>1, <1>2, ContinuationFacts DEF Acknowledge, Banks
<1>6. InStep'
  BY <1>1, <1>2, ContinuationFacts
     DEF Acknowledge, InStep, DataIn, DataOut, StatusOut, StatusIn
<1>7. Addressed'
  BY <1>1 DEF Acknowledge, Addressed
<1>8. Agreed'
  BY <1>1, ContinuationFacts DEF Acknowledge, Agreed, Configuring
<1>9. Whole'
  BY <1>1, ContinuationFacts DEF Acknowledge, Whole
<1>10. Patient'
  BY <1>1, ContinuationFacts, Contents DEF Acknowledge, Patient, OnlyUnhandledStalled
<1>11. Pairing'
  BY <1>1 DEF Acknowledge, Pairing
<1>12. Strayed'
  <2>1. setup # NoRequest => early
    BY <1>1 DEF Acknowledge, Patient
  <2>2. /\ pc = "ack" /\ pc' = Continuation(request) /\ tx' = ZLP /\ stray' = (setup # NoRequest)
        /\ UNCHANGED <<request, setup, stalled, early, host>>
    BY DEF Acknowledge
  <2>3. pc' = "configure" \/ pc' \in {"address", "eeprom", "store", "finish"}
    BY <2>2, ContinuationFacts
  <2>4. pc' = "configure" => request.kind = "SetConfiguration"
    BY <2>2, ContinuationFacts
  <2> QED
    BY <1>1, <2>1, <2>2, <2>3, <2>4 DEF Strayed
<1> QED
  BY <1>3, <1>4, <1>5, <1>6, <1>7, <1>8, <1>9, <1>10, <1>11, <1>12 DEF IInv

(* The address is taken after the status stage.                             *)
LEMMA SetAddressKeeps == ASSUME IInv, SetAddress PROVE IInv'
<1>1. Typed /\ InHand /\ Banks /\ InStep /\ Addressed /\ Agreed /\ Whole /\ Patient /\ Pairing
      /\ Strayed
  BY DEF IInv
<1>2. Wants' = Wants /\ InTransfer' = InTransfer
  BY DEF SetAddress, Wants, InTransfer
<1>3. Typed'
  BY <1>1 DEF SetAddress, Typed, TypeOK
<1>4. InHand'
  BY DEF SetAddress, InHand
<1>5. Banks'
  BY <1>1, <1>2 DEF SetAddress, Banks
<1>6. InStep'
  BY <1>1, <1>2, Contents DEF SetAddress, InStep, DataIn, DataOut, StatusOut, StatusIn
<1>7. Addressed'
  BY <1>1 DEF SetAddress, Addressed
<1>8. Agreed'
  BY <1>1 DEF SetAddress, Agreed, Addressed, InHand
<1>9. Whole'
  BY <1>1 DEF SetAddress, Whole
<1>10. Patient'
  BY <1>1 DEF SetAddress, Patient, OnlyUnhandledStalled
<1>11. Pairing'
  BY <1>1 DEF SetAddress, Pairing
<1>12. Strayed'
  BY <1>1 DEF SetAddress, Strayed, InTransfer
<1> QED
  BY <1>3, <1>4, <1>5, <1>6, <1>7, <1>8, <1>9, <1>10, <1>11, <1>12 DEF IInv

(* SET_CONFIGURATION: the number is read ...                                *)
LEMMA ReadConfigurationKeeps == ASSUME IInv, ReadConfiguration PROVE IInv'
<1>1. Typed /\ InHand /\ Banks /\ InStep /\ Addressed /\ Agreed /\ Whole /\ Patient /\ Pairing
      /\ Strayed
  BY DEF IInv
<1>2. Wants' = Wants /\ InTransfer' = InTransfer
  BY DEF ReadConfiguration, Wants, InTransfer
<1>3. Typed'
  BY <1>1 DEF ReadConfiguration, Typed, TypeOK
<1>4. InHand'
  BY <1>1 DEF ReadConfiguration, InHand
<1>5. Banks'
  BY <1>1, <1>2 DEF ReadConfiguration, Banks
<1>6. InStep'
  BY <1>1, <1>2 DEF ReadConfiguration, InStep, InHand, DataIn, DataOut, StatusOut, StatusIn
<1>7. Addressed'
  BY <1>1 DEF ReadConfiguration, Addressed
<1>8. Agreed'
  BY DEF ReadConfiguration, Agreed, Configuring
<1>9. Whole'
  BY <1>1 DEF ReadConfiguration, Whole
<1>10. Patient'
  BY <1>1 DEF ReadConfiguration, Patient, OnlyUnhandledStalled
<1>11. Pairing'
  BY <1>1 DEF ReadConfiguration, Pairing
<1>12. Strayed'
  BY <1>1 DEF ReadConfiguration, Strayed, InTransfer
<1> QED
  BY <1>3, <1>4, <1>5, <1>6, <1>7, <1>8, <1>9, <1>10, <1>11, <1>12 DEF IInv

(* ... and the state set.                                                   *)
LEMMA SetStateKeeps == ASSUME IInv, SetState PROVE IInv'
<1>1. Typed /\ InHand /\ Banks /\ InStep /\ Addressed /\ Agreed /\ Whole /\ Patient /\ Pairing
      /\ Strayed
  BY DEF IInv
<1>2. Wants' = Wants /\ InTransfer' = InTransfer
  BY DEF SetState, Wants, InTransfer
<1>3. Typed'
  BY <1>1 DEF SetState, Typed, TypeOK
<1>4. InHand'
  BY DEF SetState, InHand
<1>5. Banks'
  BY <1>1, <1>2 DEF SetState, Banks
<1>6. InStep'
  BY <1>1, <1>2 DEF SetState, InStep, InHand, DataIn, DataOut, StatusOut, StatusIn
<1>7. Addressed'
  BY <1>1 DEF SetState, Addressed
<1>8. Agreed'
  BY <1>1 DEF SetState, Agreed
<1>9. Whole'
  BY <1>1 DEF SetState, Whole
<1>10. Patient'
  BY <1>1 DEF SetState, Patient, OnlyUnhandledStalled
<1>11. Pairing'
  BY <1>1 DEF SetState, Pairing
<1>12. Strayed'
  BY <1>1 DEF SetState, Strayed, InTransfer
<1> QED
  BY <1>3, <1>4, <1>5, <1>6, <1>7, <1>8, <1>9, <1>10, <1>11, <1>12 DEF IInv

(* A block of the identity is written; the last one makes it the new one.   *)
LEMMA WriteEepromKeeps == ASSUME IInv, WriteEeprom PROVE IInv'
<1>1. Typed /\ InHand /\ Banks /\ InStep /\ Addressed /\ Agreed /\ Whole /\ Patient /\ Pairing
      /\ Strayed
  BY DEF IInv
<1>2. Wants' = Wants /\ InTransfer' = InTransfer
  BY DEF WriteEeprom, Wants, InTransfer
<1>3. /\ last_set_data = Custom /\ request.kind = "SetIdentity" /\ todo \in 1..3
      /\ eeprom \in [1..3 -> Part]
  BY <1>1, ReportData DEF WriteEeprom, InHand, Typed, TypeOK, SetReport
<1>4. /\ eeprom' = [eeprom EXCEPT ![4 - todo] = "custom"]
      /\ eeprom' \in [1..3 -> Part]
  <2>1. 4 - todo \in 1..3 /\ last_set_data[4 - todo] = "custom"
    BY <1>3, Identities
  <2>2. eeprom' = [eeprom EXCEPT ![4 - todo] = "custom"]
    BY <2>1 DEF WriteEeprom
  <2>3. "custom" \in Part
    BY DEF Part
  <2> QED
    BY <1>3, <2>2, <2>3
<1>5. ~cut /\ todo = 1 => eeprom' = Custom
  BY <1>1, <1>4, Identities DEF WriteEeprom, Whole
<1>6. Typed'
  BY <1>1, <1>4 DEF WriteEeprom, Typed, TypeOK
<1>7. InHand'
  BY <1>1 DEF WriteEeprom, InHand
<1>8. Banks'
  BY <1>1, <1>2 DEF WriteEeprom, Banks
<1>9. InStep'
  <2>1. /\ eeprom' = Custom \/ cut \/ pc' = "eeprom"
        /\ pc' \in {"eeprom", "finish"}
    BY <1>5 DEF WriteEeprom
  <2>2. SUFFICES ASSUME InTransfer, setup = NoRequest, ~stalled
                 PROVE  /\ request = host.request
                        /\ host.stage = "status in" => StatusIn'
                        /\ host.stage \notin {"data in", "data out", "status out"}
    BY <1>2 DEF WriteEeprom, InStep
  <2>3. /\ request = host.request
        /\ host.stage = "status in" => StatusIn
        /\ host.stage \notin {"data in", "data out", "status out"}
    BY <1>1, <2>2 DEF InStep, DataIn, DataOut, StatusOut, WriteEeprom
  <2> QED
    BY <2>1, <2>3, ContinuationFacts DEF WriteEeprom, StatusIn
<1>10. Addressed'
  BY <1>1 DEF WriteEeprom, Addressed
<1>11. Agreed'
  BY <1>1 DEF WriteEeprom, Agreed, Configuring
<1>12. Whole'
  BY <1>1, <1>3, Identities DEF WriteEeprom, Whole
<1>13. Patient'
  BY <1>1 DEF WriteEeprom, Patient, OnlyUnhandledStalled
<1>14. Pairing'
  BY <1>1 DEF WriteEeprom, Pairing
<1>15. Strayed'
  BY <1>1 DEF WriteEeprom, Strayed, InTransfer
<1> QED
  BY <1>6, <1>7, <1>8, <1>9, <1>10, <1>11, <1>12, <1>13, <1>14, <1>15 DEF IInv

(* The address of the console is stored.                                    *)
LEMMA StoreMasterKeeps == ASSUME IInv, StoreMaster PROVE IInv'
<1>1. Typed /\ InHand /\ Banks /\ InStep /\ Addressed /\ Agreed /\ Whole /\ Patient /\ Pairing
      /\ Strayed
  BY DEF IInv
<1>2. Wants' = Wants /\ InTransfer' = InTransfer
  BY DEF StoreMaster, Wants, InTransfer
<1>3. last_set_data = Own /\ request.kind = "SetMaster"
  BY <1>1, ReportData DEF StoreMaster, InHand, Typed, TypeOK, SetReport
<1>4. Typed'
  BY <1>1, <1>3 DEF StoreMaster, Typed, TypeOK
<1>5. InHand'
  BY DEF StoreMaster, InHand
<1>6. Banks'
  BY <1>1, <1>2 DEF StoreMaster, Banks
<1>7. InStep'
  BY <1>1, <1>2, <1>3 DEF StoreMaster, InStep, DataIn, DataOut, StatusOut, StatusIn
<1>8. Addressed'
  BY <1>1 DEF StoreMaster, Addressed
<1>9. Agreed'
  BY <1>1 DEF StoreMaster, Agreed, Configuring
<1>10. Whole'
  BY <1>1 DEF StoreMaster, Whole
<1>11. Patient'
  BY <1>1 DEF StoreMaster, Patient, OnlyUnhandledStalled
<1>12. Pairing'
  BY <1>1, <1>3 DEF StoreMaster, Pairing
<1>13. Strayed'
  BY <1>1 DEF StoreMaster, Strayed, InTransfer
<1> QED
  BY <1>4, <1>5, <1>6, <1>7, <1>8, <1>9, <1>10, <1>11, <1>12, <1>13 DEF IInv

(* The end of a request: a SETUP that is there is refused.                  *)
LEMMA FinishKeeps == ASSUME IInv, Finish PROVE IInv'
<1>1. Typed /\ InHand /\ Banks /\ InStep /\ Addressed /\ Agreed /\ Whole /\ Patient /\ Pairing
      /\ Strayed
  BY DEF IInv
<1>2. Wants' = Wants /\ InTransfer' = InTransfer
  BY DEF Finish, Wants, InTransfer
<1>3. Typed'
  <2>1. TypeOK'
    BY <1>1, AnswersContain DEF Finish, Typed, TypeOK
  <2>2. stalled' \in BOOLEAN
    BY <1>1 DEF Finish, Stall, Typed
  <2> QED
    BY <1>1, <2>1, <2>2 DEF Finish, Typed
<1>4. InHand'
  BY DEF Finish, InHand
<1>5. Banks'
  BY <1>1, <1>2 DEF Finish, Banks
<1>6. InStep'
  <2>1. ~stalled /\ (setup # NoRequest => stalled' \/ setup' # NoRequest)
    BY <1>1 DEF Finish, Stall, Banks
  <2>2. CASE setup # NoRequest
    BY <2>1, <2>2 DEF InStep
  <2>3. CASE setup = NoRequest
    BY <1>1, <1>2, <2>1, ContinuationFacts
       DEF Finish, InStep, DataIn, DataOut, StatusOut, StatusIn
  <2> QED
    BY <2>2, <2>3
<1>7. Addressed'
  BY <1>1 DEF Finish, Addressed
<1>8. Agreed'
  BY <1>1 DEF Finish, Agreed, Configuring
<1>9. Whole'
  BY <1>1 DEF Finish, Whole
<1>10. Patient'
  BY <1>1 DEF Finish, Stall, Patient, Banks, OnlyUnhandledStalled
<1>11. Pairing'
  BY <1>1 DEF Finish, Pairing
<1>12. Strayed'
  BY <1>1 DEF Finish, Stall, Strayed, InTransfer, Banks
<1> QED
  BY <1>3, <1>4, <1>5, <1>6, <1>7, <1>8, <1>9, <1>10, <1>11, <1>12 DEF IInv

(* Between the requests reports are sent.                                   *)
LEMMA HIDTaskKeeps == ASSUME IInv, HID_Task PROVE IInv'
<1>1. Typed /\ InHand /\ Banks /\ InStep /\ Addressed /\ Agreed /\ Whole /\ Patient /\ Pairing
      /\ Strayed
  BY DEF IInv
<1>2. Wants' = Wants /\ InTransfer' = InTransfer
  BY DEF HID_Task, Wants, InTransfer
<1>3. Typed'
  BY <1>1 DEF HID_Task, Typed, TypeOK
<1>4. InHand'
  BY DEF HID_Task, InHand
<1>5. Banks'
  BY <1>1, <1>2 DEF HID_Task, Banks
<1>6. InStep'
  BY <1>1, <1>2, ContinuationFacts
     DEF HID_Task, InStep, DataIn, DataOut, StatusOut, StatusIn
<1>7. Addressed'
  BY <1>1 DEF HID_Task, Addressed
<1>8. Agreed'
  BY <1>1 DEF HID_Task, Agreed, Configuring
<1>9. Whole'
  BY <1>1 DEF HID_Task, Whole
<1>10. Patient'
  BY <1>1 DEF HID_Task, Patient, OnlyUnhandledStalled
<1>11. Pairing'
  BY <1>1 DEF HID_Task, Pairing
<1>12. Strayed'
  BY <1>1 DEF HID_Task, Strayed, InTransfer
<1> QED
  BY <1>3, <1>4, <1>5, <1>6, <1>7, <1>8, <1>9, <1>10, <1>11, <1>12 DEF IInv

(* A report that a reset interrupted is left in endpoint 0.                 *)
LEMMA TimesOutKeeps == ASSUME IInv, TimesOut PROVE IInv'
<1>1. Typed /\ InHand /\ Banks /\ InStep /\ Addressed /\ Agreed /\ Whole /\ Patient /\ Pairing
      /\ Strayed
  BY DEF IInv
<1>2. Wants' = Wants /\ InTransfer' = InTransfer
  BY DEF TimesOut, Wants, InTransfer
<1>3. Typed'
  BY <1>1, AnswersContain DEF TimesOut, Typed, TypeOK
<1>4. InHand'
  BY DEF TimesOut, InHand
<1>5. Banks'
  BY <1>1, <1>2 DEF TimesOut, Banks
<1>6. InStep'
  BY <1>1, <1>2 DEF TimesOut, InStep, Strayed
<1>7. Addressed'
  BY <1>1 DEF TimesOut, Addressed
<1>8. Agreed'
  BY <1>1 DEF TimesOut, Agreed, Configuring
<1>9. Whole'
  BY <1>1 DEF TimesOut, Whole
<1>10. Patient'
  BY <1>1 DEF TimesOut, Patient, OnlyUnhandledStalled
<1>11. Pairing'
  BY <1>1 DEF TimesOut, Pairing
<1>12. Strayed'
  BY <1>1 DEF TimesOut, Strayed, InTransfer
<1> QED
  BY <1>3, <1>4, <1>5, <1>6, <1>7, <1>8, <1>9, <1>10, <1>11, <1>12 DEF IInv

LEMMA AfterResetFacts ==
    ASSUME NEW p \in AfterReset
    PROVE  \/ p = pc \/ (pc = "elsewhere" /\ p = "finish") \/ (pc = "report" /\ p = "blind")
  BY DEF AfterReset

(* The interrupt for bus events.                                            *)
LEMMA BusResetKeeps == ASSUME IInv, BusReset PROVE IInv'
<1>1. Typed /\ InHand /\ Banks /\ InStep /\ Addressed /\ Agreed /\ Whole /\ Patient /\ Pairing
      /\ Strayed
  BY DEF IInv
<1>2. /\ host'.kind = host.kind /\ host'.step = 1 /\ host'.address = "0" /\ host'.stage = "idle"
      /\ host'.request = NoRequest /\ host'.got = Nothing /\ host' \in Hosts
  BY <1>1, AnswersContain DEF BusReset, Fresh, Typed, Hosts, Stages
<1>3. /\ setup' = NoRequest /\ tx' = Nothing /\ rx' = Nothing /\ stalled' = FALSE
      /\ address' = "0" /\ device' = "Default" /\ cfg' = "0" /\ wake' = TRUE
      /\ UNCHANGED <<request, todo, answer, eeprom, memory, acked, cut>> /\ pc # "boot"
      /\ stray' = FALSE /\ (pc # "main" => early')
      /\ \/ pc' = pc \/ (pc = "elsewhere" /\ pc' = "finish") \/ (pc = "report" /\ pc' = "blind")
  BY AfterResetFacts DEF BusReset
<1>4. ~early' => ~early /\ pc = "main"
  BY DEF BusReset
<1>5. ~raced' => ~raced /\ pc \notin {"configured", "unconfigured"}
  BY DEF BusReset
<1>6. ~InTransfer'
  BY <1>2 DEF InTransfer
<1>7. host.kind # "any" => Len(Script[host.kind]) \in Nat
  OBVIOUS
<1>8. Typed'
  <2>1. TypeOK'
    BY <1>1, <1>2, <1>3, AnswersContain DEF Typed, TypeOK
  <2>2. faults' = faults \/ faults' = faults + 1
    BY DEF BusReset, Fault
  <2>3. faults \in Nat
    BY <1>1 DEF Typed
  <2>4. faults' \in Nat
    BY <2>2, <2>3
  <2>5. stalled' \in BOOLEAN /\ wake' \in BOOLEAN
    BY <1>3
  <2> QED
    BY <1>1, <1>2, <1>3, <2>1, <2>4 DEF Typed
<1>9. InHand'
  BY <1>1, <1>3 DEF InHand
<1>10. Banks'
  BY <1>2, <1>3, <1>6 DEF Banks
<1>11. InStep'
  BY <1>6 DEF InStep
<1>12. Addressed'
  BY <1>2, <1>3 DEF Addressed
<1>13. Agreed'
  BY <1>3, <1>5 DEF Agreed
<1>14. Whole'
  BY <1>1, <1>3 DEF Whole
<1>15. Patient'
  <2>1. ~early' => pc' = "main"
    BY <1>3, <1>4
  <2> QED
    BY <1>2, <1>3, <2>1 DEF Patient, OnlyUnhandledStalled
<1>16. Pairing'
  BY <1>2 DEF Pairing
<1>17. Strayed'
  BY <1>1, <1>2, <1>3, <1>6 DEF Strayed
<1> QED
  BY <1>8, <1>9, <1>10, <1>11, <1>12, <1>13, <1>14, <1>15, <1>16, <1>17 DEF IInv

LEMMA SuspendKeeps == ASSUME IInv, Suspend PROVE IInv'
<1>1. Typed /\ InHand /\ Banks /\ InStep /\ Addressed /\ Agreed /\ Whole /\ Patient /\ Pairing
      /\ Strayed
  BY DEF IInv
<1>2. Wants' = Wants /\ InTransfer' = InTransfer
  BY DEF Suspend, Wants, InTransfer
<1>3. Typed'
  BY <1>1 DEF Suspend, Fault, Typed, TypeOK
<1>4. InHand'
  BY <1>1 DEF Suspend, InHand
<1>5. Banks'
  BY <1>1, <1>2 DEF Suspend, Banks
<1>6. InStep'
  BY <1>1, <1>2 DEF Suspend, InStep
<1>7. Addressed'
  BY <1>1 DEF Suspend, Addressed
<1>8. Agreed'
  BY <1>1 DEF Suspend, Agreed
<1>9. Whole'
  BY <1>1 DEF Suspend, Whole
<1>10. Patient'
  BY <1>1 DEF Suspend, Patient, OnlyUnhandledStalled
<1>11. Pairing'
  BY <1>1 DEF Suspend, Pairing
<1>12. Strayed'
  BY <1>1 DEF Suspend, Strayed, InTransfer
<1> QED
  BY <1>3, <1>4, <1>5, <1>6, <1>7, <1>8, <1>9, <1>10, <1>11, <1>12 DEF IInv

LEMMA WakeUpKeeps == ASSUME IInv, WakeUp PROVE IInv'
<1>1. Typed /\ InHand /\ Banks /\ InStep /\ Addressed /\ Agreed /\ Whole /\ Patient /\ Pairing
      /\ Strayed
  BY DEF IInv
<1>2. Wants' = Wants /\ InTransfer' = InTransfer
  BY DEF WakeUp, Wants, InTransfer
<1>3. \A r : r.kind \in Streamed \cup Short => AnswerTo(r)' = AnswerTo(r)
  BY SameAnswer DEF WakeUp
<1>4. Typed'
  <2>1. TypeOK'
    BY <1>1 DEF WakeUp, WokenState, Typed, TypeOK
  <2> QED
    BY <1>1, <2>1 DEF WakeUp, Typed
<1>5. InHand'
  BY <1>1 DEF WakeUp, InHand
<1>6. Banks'
  BY <1>1, <1>2 DEF WakeUp, Banks
<1>7. InStep'
  BY <1>1, <1>2, <1>3 DEF WakeUp, InStep, DataIn, DataOut, StatusOut, StatusIn
<1>8. Addressed'
  BY <1>1 DEF WakeUp, Addressed
<1>9. Agreed'
  BY <1>1 DEF WakeUp, WokenState, Agreed
<1>10. Whole'
  BY <1>1 DEF WakeUp, Whole
<1>11. Patient'
  BY <1>1 DEF WakeUp, Patient, OnlyUnhandledStalled
<1>12. Pairing'
  BY <1>1 DEF WakeUp, Pairing
<1>13. Strayed'
  BY <1>1 DEF WakeUp, Strayed, InTransfer
<1> QED
  BY <1>4, <1>5, <1>6, <1>7, <1>8, <1>9, <1>10, <1>11, <1>12, <1>13 DEF IInv

(* Pulled out and plugged into any host.                                    *)
LEMMA UnplugKeeps == ASSUME IInv, Unplug PROVE IInv'
<1>1. Typed /\ InHand /\ Banks /\ InStep /\ Addressed /\ Agreed /\ Whole /\ Patient /\ Pairing
      /\ Strayed
  BY DEF IInv
<1>2. /\ host'.kind \in Kinds /\ host'.step = 1 /\ host'.address = "0"
      /\ host'.stage = "attached" /\ host'.request = NoRequest /\ host'.got = Nothing
      /\ host' \in Hosts
  <2>1. PICK kind \in Kinds : host' = Fresh(kind)
    BY DEF Unplug
  <2>2. kind \in {"console", "customizer", "sixpair", "any"}
    BY ConstantsAssumption
  <2> QED
    BY <2>1, <2>2, AnswersContain DEF Fresh, Hosts, Stages
<1>3. PowerUp /\ stray' = FALSE /\ UNCHANGED <<eeprom, acked, early, raced>>
  BY DEF Unplug
<1>4. ~cut' => ~cut /\ ~Storing
  BY DEF Unplug
<1>5. ~InTransfer'
  BY <1>2 DEF InTransfer
<1>6. host'.kind # "any" => Len(Script[host'.kind]) \in Nat
  OBVIOUS
<1>7. Typed'
  <2>1. TypeOK'
    BY <1>2, <1>3, AnswersContain DEF PowerUp, TypeOK
  <2>2. faults' = faults \/ faults' = faults + 1
    BY DEF Unplug, Fault
  <2>3. faults \in Nat
    BY <1>1 DEF Typed
  <2>4. faults' \in Nat
    BY <2>2, <2>3
  <2>5. stalled' \in BOOLEAN /\ wake' \in BOOLEAN
    BY <1>3 DEF PowerUp
  <2> QED
    BY <1>1, <1>2, <1>3, <2>1, <2>4 DEF PowerUp, Typed
<1>8. InHand'
  BY <1>3 DEF PowerUp, InHand
<1>9. Banks'
  BY <1>2, <1>3, <1>5 DEF PowerUp, Banks
<1>10. InStep'
  BY <1>5 DEF InStep
<1>11. Addressed'
  BY <1>2, <1>3 DEF PowerUp, Addressed
<1>12. Agreed'
  BY <1>3 DEF PowerUp, Agreed
<1>13. Whole'
  BY <1>1, <1>3, <1>4 DEF PowerUp, Whole, InHand, Storing
<1>14. Patient'
  BY <1>2, <1>3 DEF PowerUp, Patient, OnlyUnhandledStalled
<1>15. Pairing'
  BY <1>2 DEF Pairing
<1>16. Strayed'
  BY <1>2, <1>3 DEF PowerUp, Strayed
<1> QED
  BY <1>7, <1>8, <1>9, <1>10, <1>11, <1>12, <1>13, <1>14, <1>15, <1>16 DEF IInv

(* The host begins a transfer, whatever it was doing.                       *)
LEMMA SendSetupKeeps == ASSUME IInv, SendSetup PROVE IInv'
<1>1. Typed /\ InHand /\ Banks /\ InStep /\ Addressed /\ Agreed /\ Whole /\ Patient /\ Pairing
      /\ Strayed
  BY DEF IInv
<1>2. PICK r \in Wants : /\ setup' = r
                       /\ host' = [host EXCEPT !.stage = FirstStage(r), !.request = r]
  BY DEF SendSetup
<1>3. /\ tx' = Nothing /\ stray' = FALSE /\ stalled' = FALSE /\ rx' \in {rx, Nothing} /\ Reached
      /\ UNCHANGED <<main, bus, eeprom, memory, acked, cut, raced>>
  BY DEF SendSetup
<1>4. ~early' => ~early /\ pc \in {"main", "report"}
  BY DEF SendSetup
<1>5. r \in Requests /\ r # NoRequest /\ FirstStage(r) \in {"data in", "data out", "status in"}
  BY <1>1, WantsFacts, RequestFacts, StageFacts
<1>6. /\ host'.kind = host.kind /\ host'.step = host.step /\ host'.address = host.address
      /\ host'.got = host.got /\ host'.stage = FirstStage(r) /\ host'.request = r
      /\ host' \in Hosts
  BY <1>1, <1>2, <1>5 DEF Typed, Hosts, Stages
<1>7. Wants' = Wants
  BY <1>6 DEF Wants
<1>8. pc # "boot"
  BY <1>1, <1>3 DEF Reached, Banks
<1>9. Typed'
  <2>1. TypeOK'
    <3>1. /\ setup' \in Requests /\ tx' \in Answers
          /\ rx' \in {Nothing, ZLP, Own, Custom, Other} /\ host'.got \in Answers
      BY <1>1, <1>2, <1>3, <1>5, <1>6, AnswersContain DEF Typed, TypeOK
    <3> QED
      BY <1>1, <1>3, <3>1 DEF Typed, TypeOK
  <2>2. faults' = faults \/ faults' = faults + 1
    BY DEF SendSetup, Fault
  <2>3. faults \in Nat
    BY <1>1 DEF Typed
  <2>4. faults' \in Nat
    BY <2>2, <2>3
  <2>5. stalled' \in BOOLEAN /\ wake' \in BOOLEAN
    BY <1>1, <1>3 DEF Typed
  <2> QED
    BY <1>1, <1>3, <1>6, <2>1, <2>4 DEF Typed
<1>10. InHand'
  BY <1>1, <1>3 DEF InHand
<1>11. Banks'
  <2>1. InTransfer' /\ host'.request \in Wants'
    <3>1. InTransfer'
      BY <1>5, <1>6 DEF InTransfer
    <3>2. host'.request \in Wants'
      BY <1>6, <1>7, Zenon
    <3> QED
      BY <3>1, <3>2
  <2>2. setup' # NoRequest /\ host'.request = setup' /\ host'.stage = FirstStage(setup')
    BY <1>2, <1>5, <1>6
  <2>3. rx' # Nothing => rx' = rx
    BY <1>3
  <2> QED
    BY <1>1, <1>3, <1>8, <2>1, <2>2 DEF Banks
<1>12. InStep'
  BY <1>2, <1>5 DEF InStep
<1>13. Addressed'
  BY <1>1, <1>3, <1>6 DEF Addressed
<1>14. Agreed'
  BY <1>1, <1>3 DEF Agreed, Configuring
<1>15. Whole'
  BY <1>1, <1>3 DEF Whole
<1>16. Patient'
  BY <1>1, <1>3, <1>4, <1>6 DEF Patient, OnlyUnhandledStalled
<1>17. Pairing'
  BY <1>1, <1>3, <1>5, <1>6 DEF Pairing
<1>18. Strayed'
  <2>1. early => early'
    BY DEF SendSetup
  <2>2. InTransfer' /\ setup' # NoRequest
    BY <1>2, <1>5, <1>6 DEF InTransfer
  <2> QED
    BY <1>1, <1>3, <1>6, <2>1, <2>2 DEF Strayed
<1> QED
  BY <1>9, <1>10, <1>11, <1>12, <1>13, <1>14, <1>15, <1>16, <1>17, <1>18 DEF IInv

(* The host takes a packet: data, or the acknowledgement of the device.     *)
LEMMA TakeInKeeps == ASSUME IInv, TakeIn PROVE IInv'
<1>1. Typed /\ InHand /\ Banks /\ InStep /\ Addressed /\ Agreed /\ Whole /\ Patient /\ Pairing
      /\ Strayed
  BY DEF IInv
<1>2. /\ setup = NoRequest /\ ~stalled /\ tx # Nothing /\ tx' = Nothing /\ stray' = FALSE
      /\ UNCHANGED <<main, setup, rx, stalled, bus, eeprom, memory, faults, early, cut, raced>>
  BY DEF TakeIn, Served
<1>3. InTransfer /\ request = host.request /\ host.request \in Wants
  BY <1>1, <1>2 DEF TakeIn, InTransfer, InStep, Banks
<1>4. \/ /\ host.stage = "data in" /\ acked' = acked
         /\ host' = [host EXCEPT !.stage = "status out",
                                 !.got = IF host.kind = "console" THEN tx ELSE @]
      \/ host.stage = "status in" /\ Done
  BY DEF TakeIn
<1>5. ASSUME host.stage = "data in"
      PROVE  /\ host'.kind = host.kind /\ host'.step = host.step
             /\ host'.address = host.address /\ host'.request = host.request
             /\ host'.stage = "status out" /\ acked' = acked /\ host' \in Hosts
             /\ host.kind = "console" /\ ~stray => host'.got = AnswerTo(host.request)
             /\ host.request.kind \in Streamed \cup Short /\ rx = Nothing /\ pc \in {"in", "out"}
             /\ Wants' = Wants
  <2>1. DataIn
    BY <1>1, <1>2, <1>3, <1>5 DEF InStep
  <2>2. /\ host.request.kind \in Streamed \cup Short /\ rx = Nothing /\ pc \in {"in", "out"}
        /\ ~stray => tx = AnswerTo(host.request)
    BY <1>2, <2>1 DEF DataIn
  <2>3. /\ acked' = acked
        /\ host' = [host EXCEPT !.stage = "status out",
                                !.got = IF host.kind = "console" THEN tx ELSE @]
    BY <1>4, <1>5
  <2>4. /\ host'.kind = host.kind /\ host'.step = host.step
        /\ host'.address = host.address /\ host'.request = host.request
        /\ host'.stage = "status out" /\ host' \in Hosts
        /\ host.kind = "console" => host'.got = tx
    BY <1>1, <2>3 DEF Typed, TypeOK, Hosts, Stages
  <2>5. Wants' = Wants
    BY <2>4 DEF Wants
  <2> QED
    BY <2>2, <2>3, <2>4, <2>5
<1>6. ASSUME host.stage = "status in"
      PROVE  /\ Done /\ StatusIn /\ pc \notin {"in", "out"}
             /\ ~stray => tx = ZLP /\ pc \notin {"data", "ack"}
             /\ host.request.kind \in SetReport \cup NoData
  <2>1. Done
    BY <1>4, <1>6
  <2>2. StatusIn
    BY <1>1, <1>2, <1>3, <1>6 DEF InStep
  <2> QED
    BY <1>2, <2>1, <2>2, ContinuationFacts DEF StatusIn
<1>7. host.stage \in {"data in", "status in"}
  BY <1>4
<1>8. /\ stray => early
      /\ host.kind = "console" /\ stray => host.step <= 4
  BY <1>1, <1>2 DEF Strayed
<1>9. Typed'
  <2>1. host' \in Hosts /\ host'.kind = host.kind
    BY <1>1, <1>3, <1>5, <1>6, <1>7, DoneFacts
  <2>2. host'.got \in Answers
    BY <2>1 DEF Hosts
  <2>3. TypeOK'
    BY <1>1, <1>2, <2>2, AnswersContain DEF Typed, TypeOK
  <2> QED
    BY <1>1, <1>2, <2>1, <2>3 DEF Typed
<1>10. InHand'
  BY <1>1, <1>2 DEF InHand
<1>11. Banks'
  <2>1. CASE host.stage = "data in"
    BY <1>2, <1>3, <1>5, <2>1 DEF Banks, InTransfer
  <2>2. CASE host.stage = "status in"
    BY <1>1, <1>2, <1>3, <1>6, DoneFacts, <2>2 DEF Banks
  <2> QED
    BY <1>7, <2>1, <2>2
<1>12. InStep'
  <2>1. CASE host.stage = "data in"
    BY <1>2, <1>3, <1>5, <2>1 DEF InStep, StatusOut
  <2>2. CASE host.stage = "status in"
    BY <1>1, <1>3, <1>6, DoneFacts, <2>2 DEF InStep
  <2> QED
    BY <1>7, <2>1, <2>2
<1>13. Addressed'
  <2>1. CASE host.stage = "data in"
    BY <1>1, <1>2, <1>5, <2>1 DEF Addressed
  <2>2. CASE host.stage = "status in"
    BY <1>1, <1>2, <1>3, <1>6, DoneFacts, <2>2 DEF Addressed
  <2> QED
    BY <1>7, <2>1, <2>2
<1>14. Agreed'
  BY <1>1, <1>2 DEF Agreed, Configuring
<1>15. Whole'
  <2>1. CASE host.stage = "data in"
    BY <1>1, <1>2, <1>5, <2>1 DEF Whole
  <2>2. CASE host.stage = "status in"
    <3>1. acked' = (acked \/ request.kind = "SetIdentity")
      BY <1>3, <1>6, <2>2 DEF Done
    <3>2. ~cut /\ request.kind = "SetIdentity" =>
              eeprom = Custom \/ pc \in {"eeprom", "data", "ack"}
      BY <1>2, <1>3, <1>6, <2>2 DEF StatusIn
    <3> QED
      BY <1>1, <1>2, <3>1, <3>2 DEF Whole
  <2> QED
    BY <1>7, <2>1, <2>2
<1>16. Patient'
  <2>1. CASE host.stage = "data in"
    BY <1>1, <1>2, <1>5, <2>1 DEF Patient, OnlyUnhandledStalled
  <2>2. CASE host.stage = "status in"
    BY <1>1, <1>2, <1>3, <1>6, <1>8, DoneFacts, ContinuationFacts, <2>2
       DEF Patient, OnlyUnhandledStalled, StatusIn
  <2> QED
    BY <1>7, <2>1, <2>2
<1>17. Pairing'
  <2> SUFFICES ASSUME host.kind = "console" PROVE Pairing'
    BY <1>5, <1>6, <1>7, DoneFacts, <1>1, <1>3 DEF Pairing
  <2>1. host.step >= 8 => reply = 1 \/ (pc \in {"in", "out"} /\ request.kind = "GetMaster")
    BY <1>1, Zenon DEF Pairing
  <2>2. host.step >= 9 => reply = 1 /\ (master = Own \/ pc = "store")
    BY <1>1, Zenon DEF Pairing
  <2>3. pc' = pc /\ request' = request /\ reply' = reply /\ master' = master
    BY <1>2
  <2>4. CASE host.stage = "data in"
    <3>1. host.step \in 1..9
      BY <1>1, <1>3, ConsoleRequests
    <3>2. ASSUME host.step = 9 PROVE host'.got = Own
      <4>1. host.request.kind = "GetMaster"
        BY <1>1, <1>3, <3>2, ConsoleRequests
      <4>2. ~stray
        BY <1>8, <3>2
      <4>3. pc \in {"in", "out"} /\ host'.got = AnswerTo(host.request)
        BY <1>5, <2>4, <4>2
      <4>4. reply = 1 /\ master = Own
        BY <2>2, <3>2, <4>3
      <4> QED
        BY <4>1, <4>3, <4>4, AnswerIs
    <3>3. host'.step = host.step
      BY <1>5, <2>4
    <3>4. host'.step >= 8 => reply' = 1 \/ (pc' \in {"in", "out"} /\ request'.kind = "GetMaster")
      BY <2>1, <2>3, <3>3
    <3>5. host'.step >= 9 => reply' = 1 /\ (master' = Own \/ pc' = "store")
      BY <2>2, <2>3, <3>3
    <3>6. host'.step >= 9 => host'.got = Own
      BY <3>1, <3>2, <3>3
    <3>7. ~(host'.step > 9)
      BY <3>1, <3>3
    <3> QED
      BY <3>4, <3>5, <3>6, <3>7, Zenon DEF Pairing
  <2>5. CASE host.stage = "status in"
    <3>1. host.step \in 1..9 /\ host.step # 7 /\ host.step # 9
      BY <1>1, <1>3, <1>6, <2>5, ConsoleRequests DEF SetReport, NoData
    <3>2. host'.step = host.step + 1
      BY <1>1, <1>3, <1>6, <2>5, DoneFacts
    <3>3. host'.stage # "status out"
      BY <1>1, <1>3, <1>6, <2>5, DoneFacts
    <3>4. host.step = 8 => master = Own \/ pc = "store"
      <4>1. host.step = 8 => host.request.kind = "SetMaster"
        BY <1>1, <1>3, ConsoleRequests
      <4>2. host.step = 8 => ~stray
        BY <1>8
      <4> QED
        BY <1>6, <2>5, <4>1, <4>2 DEF StatusIn
    <3>5. pc \notin {"in", "out"}
      BY <1>6, <2>5
    <3>6. host'.step >= 8 => reply' = 1 /\ (master' = Own \/ pc' = "store")
      BY <2>1, <2>3, <3>1, <3>2, <3>4, <3>5
    <3>7. host'.step >= 9 => host'.step >= 8
      BY <3>1, <3>2
    <3>8. ~(host'.step > 9)
      BY <3>1, <3>2
    <3> QED
      BY <3>3, <3>6, <3>7, <3>8, Zenon DEF Pairing
  <2> QED
    BY <1>7, <2>4, <2>5
<1>18. Strayed'
  <2>1. CASE host.stage = "data in"
    BY <1>1, <1>2, <1>5, <2>1 DEF Strayed
  <2>2. CASE host.stage = "status in"
    <3>1. host.kind = "console" => host'.step = host.step + 1 /\ host.step \in 1..9
      BY <1>1, <1>3, <1>6, <2>2, DoneFacts, ConsoleRequests
    <3>2. pc = "ack" /\ request.kind = "SetConfiguration" /\ host.kind = "console" => host.step = 3
      BY <1>1, <1>3, ConsoleRequests
    <3>3. pc # "blind"
      BY <1>1, <1>2, <1>3 DEF Strayed
    <3>4. host'.kind = host.kind
      BY <1>1, <1>3, <1>6, <2>2, DoneFacts
    <3> QED
      BY <1>1, <1>2, <3>1, <3>2, <3>3, <3>4 DEF Strayed
  <2> QED
    BY <1>7, <2>1, <2>2
<1> QED
  BY <1>9, <1>10, <1>11, <1>12, <1>13, <1>14, <1>15, <1>16, <1>17, <1>18 DEF IInv

(* The host sends its data, or acknowledges what it took.                   *)
LEMMA SendOutKeeps == ASSUME IInv, SendOut PROVE IInv'
<1>1. Typed /\ InHand /\ Banks /\ InStep /\ Addressed /\ Agreed /\ Whole /\ Patient /\ Pairing
      /\ Strayed
  BY DEF IInv
<1>2. /\ setup = NoRequest /\ ~stalled /\ rx = Nothing
      /\ UNCHANGED <<main, setup, tx, stalled, bus, eeprom, memory, faults, stray, early, cut,
                     raced>>
  BY DEF SendOut, Served
<1>3. InTransfer /\ request = host.request /\ host.request \in Wants
  BY <1>1, <1>2 DEF SendOut, InTransfer, InStep, Banks
<1>4. \/ /\ host.stage = "data out" /\ rx' = host.request.data /\ acked' = acked
         /\ host' = [host EXCEPT !.stage = "status in"]
      \/ host.stage = "status out" /\ rx' = ZLP /\ Done
  BY DEF SendOut
<1>5. ASSUME host.stage = "data out"
      PROVE  /\ host'.kind = host.kind /\ host'.step = host.step
             /\ host'.address = host.address /\ host'.request = host.request
             /\ host'.stage = "status in" /\ host'.got = host.got /\ host' \in Hosts
             /\ host.request.kind \in SetReport /\ pc = "data" /\ (tx = Nothing \/ stray)
             /\ rx' = host.request.data /\ rx' \in {Own, Custom, Other} /\ acked' = acked
             /\ Wants' = Wants
  <2>1. DataOut
    BY <1>1, <1>2, <1>3, <1>5 DEF InStep
  <2>2. rx' = host.request.data /\ acked' = acked /\ host' = [host EXCEPT !.stage = "status in"]
    BY <1>4, <1>5
  <2>3. /\ host'.kind = host.kind /\ host'.step = host.step
        /\ host'.address = host.address /\ host'.request = host.request
        /\ host'.stage = "status in" /\ host'.got = host.got /\ host' \in Hosts
    BY <1>1, <2>2 DEF Typed, Hosts, Stages
  <2>4. Wants' = Wants
    BY <2>3 DEF Wants
  <2>5. host.request.data \in {Own, Custom, Other}
    BY <1>1, <2>1, ReportData DEF Typed, Hosts, DataOut
  <2> QED
    BY <2>1, <2>2, <2>3, <2>4, <2>5 DEF DataOut
<1>6. ASSUME host.stage = "status out"
      PROVE  /\ Done /\ rx' = ZLP /\ (acked' => acked)
             /\ host.request.kind \in Streamed \cup Short /\ pc \in {"in", "out"}
  <2>1. Done /\ rx' = ZLP
    BY <1>4, <1>6
  <2>2. host.request.kind \in Streamed \cup Short /\ pc \in {"in", "out"}
    BY <1>1, <1>2, <1>3, <1>6 DEF InStep, StatusOut
  <2>3. host.request.kind # "SetIdentity"
    BY <2>2 DEF Streamed, Short
  <2>4. acked' => acked
    BY <2>1, <2>3 DEF Done
  <2> QED
    BY <2>1, <2>2, <2>4
<1>7. host.stage \in {"data out", "status out"}
  BY <1>4
<1>8. Typed'
  <2>1. host' \in Hosts /\ host'.kind = host.kind
    BY <1>1, <1>3, <1>5, <1>6, <1>7, DoneFacts
  <2>2. host'.got \in Answers /\ rx' \in {Nothing, ZLP, Own, Custom, Other}
    BY <1>5, <1>6, <1>7, <2>1 DEF Hosts
  <2> QED
    BY <1>1, <1>2, <2>1, <2>2 DEF Typed, TypeOK
<1>9. InHand'
  BY <1>1, <1>2 DEF InHand
<1>10. Banks'
  <2>1. CASE host.stage = "data out"
    BY <1>2, <1>3, <1>5, <2>1 DEF Banks, InTransfer
  <2>2. CASE host.stage = "status out"
    BY <1>1, <1>2, <1>3, <1>6, DoneFacts, <2>2 DEF Banks
  <2> QED
    BY <1>7, <2>1, <2>2
<1>11. InStep'
  <2>1. CASE host.stage = "data out"
    BY <1>2, <1>3, <1>5, <2>1 DEF InStep, StatusIn
  <2>2. CASE host.stage = "status out"
    BY <1>1, <1>3, <1>6, DoneFacts, <2>2 DEF InStep
  <2> QED
    BY <1>7, <2>1, <2>2
<1>12. Addressed'
  <2>1. CASE host.stage = "data out"
    BY <1>1, <1>2, <1>5, <2>1 DEF Addressed
  <2>2. CASE host.stage = "status out"
    BY <1>1, <1>2, <1>3, <1>6, DoneFacts, <2>2 DEF Addressed
  <2> QED
    BY <1>7, <2>1, <2>2
<1>13. Agreed'
  BY <1>1, <1>2 DEF Agreed, Configuring
<1>14. Whole'
  <2>1. CASE host.stage = "data out"
    BY <1>1, <1>2, <1>5, <2>1 DEF Whole
  <2>2. CASE host.stage = "status out"
    BY <1>1, <1>2, <1>6, <2>2 DEF Whole
  <2> QED
    BY <1>7, <2>1, <2>2
<1>15. Patient'
  <2>1. CASE host.stage = "data out"
    BY <1>1, <1>2, <1>5, <2>1 DEF Patient, OnlyUnhandledStalled
  <2>2. CASE host.stage = "status out"
    BY <1>1, <1>2, <1>3, <1>6, DoneFacts, <2>2
       DEF Patient, OnlyUnhandledStalled, Streamed, Short
  <2> QED
    BY <1>7, <2>1, <2>2
<1>16. Pairing'
  <2> SUFFICES ASSUME host.kind = "console" PROVE Pairing'
    BY <1>1, <1>3, <1>5, <1>6, <1>7, DoneFacts DEF Pairing
  <2>1. host.step >= 8 => reply = 1 \/ (pc \in {"in", "out"} /\ request.kind = "GetMaster")
    BY <1>1, Zenon DEF Pairing
  <2>2. host.step >= 9 => reply = 1 /\ (master = Own \/ pc = "store")
    BY <1>1, Zenon DEF Pairing
  <2>3. host.step >= 9 /\ host.stage = "status out" => host.got = Own
    BY <1>1, Zenon DEF Pairing
  <2>4. pc' = pc /\ request' = request /\ reply' = reply /\ master' = master
    BY <1>2
  <2>5. CASE host.stage = "data out"
    <3>1. host'.step = host.step /\ host'.stage # "status out"
      BY <1>5, <2>5
    <3>2. host'.step \in 1..9
      <4>1. host.step \in 1..9
        BY <1>1, <1>3, ConsoleRequests
      <4> QED
        BY <3>1, <4>1
    <3>3. ~(host'.step > 9)
      BY <3>2
    <3> QED
      BY <2>1, <2>2, <2>4, <3>1, <3>3, Zenon DEF Pairing
  <2>6. CASE host.stage = "status out"
    <3>1. /\ host.step \in 1..9 /\ host.step # 8
          /\ host.step = 7 => host.request.kind = "GetMaster"
      BY <1>1, <1>3, <1>6, <2>6, ConsoleRequests DEF Streamed, Short
    <3>2. host'.step = host.step + 1
      BY <1>1, <1>3, <1>6, <2>6, DoneFacts
    <3>3. host'.stage # "status out" /\ host'.got = host.got
      BY <1>1, <1>3, <1>6, <2>6, DoneFacts
    <3>4. pc \in {"in", "out"} /\ request = host.request
      BY <1>3, <1>6, <2>6
    <3>5. host'.step >= 8 => reply' = 1 \/ (pc' \in {"in", "out"} /\ request'.kind = "GetMaster")
      BY <2>1, <2>4, <3>1, <3>2, <3>4
    <3>6. host'.step >= 9 => reply' = 1 /\ (master' = Own \/ pc' = "store")
      BY <2>2, <2>4, <3>1, <3>2
    <3>7. host'.step > 9 => host.step >= 9 /\ master' = Own
      BY <2>2, <2>4, <3>1, <3>2, <3>4
    <3>8. host'.step > 9 => host'.got = Own
      BY <2>3, <2>6, <3>3, <3>7, Zenon
    <3> QED
      BY <3>3, <3>5, <3>6, <3>7, <3>8, Zenon DEF Pairing
  <2> QED
    BY <1>7, <2>5, <2>6
<1>17. Strayed'
  <2>1. CASE host.stage = "data out"
    BY <1>1, <1>2, <1>5, <2>1 DEF Strayed
  <2>2. CASE host.stage = "status out"
    <3>1. ~stray /\ pc \in {"in", "out"}
      BY <1>1, <1>2, <1>3, <2>2 DEF InStep, StatusOut
    <3> QED
      BY <1>2, <3>1 DEF Strayed
  <2> QED
    BY <1>7, <2>1, <2>2
<1> QED
  BY <1>8, <1>9, <1>10, <1>11, <1>12, <1>13, <1>14, <1>15, <1>16, <1>17 DEF IInv

(* The host is told STALL.                                                  *)
LEMMA RefusedKeeps == ASSUME IInv, Refused PROVE IInv'
<1>1. Typed /\ InHand /\ Banks /\ InStep /\ Addressed /\ Agreed /\ Whole /\ Patient /\ Pairing
      /\ Strayed
  BY DEF IInv
<1>2. /\ host'.kind = host.kind /\ host'.step = host.step /\ host'.address = host.address
      /\ host'.got = host.got /\ host'.stage = "idle" /\ host'.request = NoRequest
      /\ host' \in Hosts
  BY <1>1 DEF Refused, Typed, Hosts, Stages
<1>3. /\ UNCHANGED <<main, endpoint, bus, eeprom, memory, faults, history>>
      /\ pc \in {"main", "report"} /\ setup = NoRequest
  BY <1>1 DEF Refused, Banks
<1>4. ~InTransfer'
  BY <1>2 DEF InTransfer
<1>5. Typed'
  BY <1>1, <1>2, <1>3 DEF Typed, TypeOK
<1>6. InHand'
  BY <1>3 DEF InHand
<1>7. Banks'
  BY <1>1, <1>2, <1>3, <1>4 DEF Banks
<1>8. InStep'
  BY <1>4 DEF InStep
<1>9. Addressed'
  BY <1>1, <1>2, <1>3 DEF Addressed
<1>10. Agreed'
  BY <1>1, <1>3 DEF Agreed, Configuring
<1>11. Whole'
  BY <1>1, <1>3 DEF Whole
<1>12. Patient'
  BY <1>1, <1>2, <1>3 DEF Patient, OnlyUnhandledStalled
<1>13. Pairing'
  BY <1>1, <1>2, <1>3 DEF Pairing
<1>14. Strayed'
  BY <1>1 DEF Refused, Strayed, InTransfer
<1> QED
  BY <1>5, <1>6, <1>7, <1>8, <1>9, <1>10, <1>11, <1>12, <1>13, <1>14 DEF IInv

LEMMA NextIInv == IInv /\ [Next]_vars => IInv'
<1> SUFFICES ASSUME IInv, [Next]_vars PROVE IInv'
  OBVIOUS
<1>1. CASE UNCHANGED vars
  <2>1. /\ UNCHANGED <<pc, request, todo, answer>> /\ UNCHANGED <<setup, tx, rx, stalled>>
        /\ UNCHANGED <<address, device, cfg, wake>>
        /\ UNCHANGED <<identity, master, reply, last_set_data, setting>>
        /\ UNCHANGED <<eeprom, host, faults>> /\ UNCHANGED <<stray, acked, early, cut, raced>>
    BY <1>1 DEF vars
  <2>2. Wants' = Wants /\ InTransfer' = InTransfer
    BY <2>1 DEF Wants, InTransfer
  <2>3. \A r : r.kind \in Streamed \cup Short => AnswerTo(r)' = AnswerTo(r)
    BY <2>1, SameAnswer
  <2>4. Typed' /\ InHand' /\ Banks'
    BY <2>1, <2>2 DEF IInv, Typed, TypeOK, InHand, Banks
  <2>5. InStep'
    BY <2>1, <2>2, <2>3 DEF IInv, InStep, DataIn, DataOut, StatusOut, StatusIn
  <2>6. Addressed' /\ Agreed' /\ Whole'
    BY <2>1 DEF IInv, Addressed, Agreed, Configuring, Whole
  <2>7. Patient' /\ Pairing'
    BY <2>1 DEF IInv, Patient, OnlyUnhandledStalled, Pairing
  <2>8. Strayed'
    BY <2>1, <2>2 DEF IInv, Strayed
  <2> QED
    BY <2>4, <2>5, <2>6, <2>7, <2>8 DEF IInv
<1>2. CASE Boot \/ USB_USBTask \/ HID_Task \/ TimesOut
  BY <1>2, BootKeeps, HIDTaskKeeps, TimesOutKeeps, DispatchKeeps, HostAbortedKeeps, WritePacketsKeeps, AwaitOutKeeps,
     AwaitDataKeeps, AcknowledgeKeeps, SetAddressKeeps, ReadConfigurationKeeps,
     SetStateKeeps, WriteEepromKeeps, StoreMasterKeeps, FinishKeeps DEF USB_USBTask
<1>3. CASE BusReset \/ Suspend \/ WakeUp \/ Unplug
  BY <1>3, BusResetKeeps, SuspendKeeps, WakeUpKeeps, UnplugKeeps
<1>4. CASE Host
  BY <1>4, SendSetupKeeps, TakeInKeeps, SendOutKeeps, RefusedKeeps DEF Host
<1> QED
  BY <1>1, <1>2, <1>3, <1>4 DEF Next

LEMMA Invariance == Spec => []IInv
  BY InitIInv, NextIInv, PTL DEF Spec

-----------------------------------------------------------------------------
(* Every variable keeps its type, and between requests USB_DeviceState is   *)
(* DEVICE_STATE_Configured exactly if a configuration is set, whatever the  *)
(* order of resets, suspensions and SET_CONFIGURATION (Device.h, the bus    *)
(* interrupt), unless a reset fell between the two accesses of              *)
(* USB_Device_SetConfiguration.                                            *)
THEOREM AlwaysWellFormed == Spec => []WellFormed
<1>1. IInv => WellFormed
  BY DEF IInv, Typed, WellFormed, ConfiguredAgrees, Agreed, Configuring
<1> QED
  BY <1>1, Invariance, PTL

(* The identity read from EEPROM at power-up is a whole one, and once the   *)
(* customizer was told of success the new one is stored, unless the plug    *)
(* was pulled during the writes (write_eeprom_identifiers).                *)
THEOREM IdentityAlwaysKept == Spec => []IdentityKept
<1>1. IInv => IdentityKept
  BY DEF IInv, IdentityKept, Whole
<1> QED
  BY <1>1, Invariance, PTL

(* A host that lets the main loop come round between its transfers, and     *)
(* does not reset the device while a request is handled or a report sent,   *)
(* is never refused a request that is handled, never has a SETUP pending    *)
(* while the main loop is in one of the four waits that look at nothing     *)
(* else (the stream functions, Set_Report, SetAddress, and                  *)
(* Endpoint_WaitUntilReady of a report), and finds the device at its        *)
(* address.                                                                *)
THEOREM PatientIsServed == Spec => []NoHarmIfPatient
<1>1. ASSUME IInv, ~early PROVE OnlyUnhandledStalled
  BY <1>1, Zenon DEF IInv, Patient
<1>2. ASSUME IInv, ~early PROVE ~Stuck
  <2>1. setup # NoRequest => pc \in {"main", "report", "finish"}
    BY <1>2 DEF IInv, Patient
  <2> QED
    BY <2>1 DEF Stuck
<1>3. ASSUME IInv, ~early, pc = "main" PROVE host.address = address
  BY <1>3 DEF IInv, Patient
<1>4. IInv => NoHarmIfPatient
  BY <1>1, <1>2, <1>3 DEF NoHarmIfPatient
<1> QED
  BY <1>4, Invariance, PTL

(* A console at the end of its dialogue has read back its own address, and  *)
(* the firmware has stored it (VolatileMasterBdaddr).                      *)
THEOREM ConsoleIsPaired == Spec => []PairedMeansMaster
<1>1. ASSUME IInv, Through("console") PROVE host.got = Own /\ master = Own
  <2>1. host.kind = "console" /\ host.step > 9
    BY <1>1, ConsoleFacts DEF Through
  <2> QED
    BY <1>1, <2>1 DEF IInv, Pairing
<1>2. IInv => PairedMeansMaster
  BY <1>1 DEF PairedMeansMaster
<1> QED
  BY <1>2, Invariance, PTL

(* What a completed transfer tells the host is so: the data are the answer  *)
(* to its request, the acknowledgement is for its request, and the report   *)
(* it acknowledges has been received (Endpoint_Write_Control_Stream_LE,     *)
(* Endpoint_ClearStatusStage and the waits share endpoint 0); but for the   *)
(* two packets that are astray.                                            *)
THEOREM CompletedAlwaysServed == Spec => CompletedMeansServed
<1> DEFINE Served1 == Takes("data in") => request = host.request /\ tx = AnswerTo(host.request)
           Served2 == Takes("status in") =>
                          /\ request = host.request /\ tx = ZLP
                          /\ request.kind \in SetReport => last_set_data = request.data
<1>1. ASSUME IInv, TakeIn
      PROVE  InTransfer /\ setup = NoRequest /\ ~stalled /\ InStep /\ tx # Nothing
  BY <1>1 DEF IInv, TakeIn, Served, InTransfer
<1>2. IInv => Served1
  <2> SUFFICES ASSUME IInv, Takes("data in")
               PROVE  request = host.request /\ tx = AnswerTo(host.request)
    OBVIOUS
  <2> QED
    BY <1>1 DEF Takes, InStep, DataIn
<1>3. IInv => Served2
  <2> SUFFICES ASSUME IInv, Takes("status in")
               PROVE  /\ request = host.request /\ tx = ZLP
                      /\ request.kind \in SetReport => last_set_data = request.data
    OBVIOUS
  <2>1. request = host.request /\ StatusIn /\ tx # Nothing
    BY <1>1 DEF Takes, InStep
  <2>2. ~stray
    BY DEF Takes
  <2> QED
    BY <2>1, <2>2, ContinuationFacts DEF StatusIn
<1>4. IInv /\ [Next]_vars => [Served1 /\ Served2]_vars
  BY <1>2, <1>3
<1> QED
  BY <1>4, Invariance, PTL DEF Spec, CompletedMeansServed
=============================================================================
