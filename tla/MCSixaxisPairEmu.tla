------------------------- MODULE MCSixaxisPairEmu -------------------------
(* Every host; the one that sends anything leaves out the requests whose    *)
(* way through the firmware another request of its, or of a script, takes.  *)
EXTENDS SixaxisPairEmu

AllKinds == {"any", "console", "customizer", "sixpair"}
Console == {"console"}
OneOfEach ==
    {Plain("SetAddress"), Plain("Unknown"), Plain("GetSetting"), With("SetSetting", <<"0">>),
     Long("GetMaster"),
     With("SetConfiguration", <<"0">>), With("SetConfiguration", <<"1">>)}
=============================================================================
