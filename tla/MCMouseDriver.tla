--------------------------- MODULE MCMouseDriver ---------------------------
(* Movement bytes with bit 3 clear (0, also the mouse's id) and set (250,   *)
(* also the acknowledgement): stale movement bytes can then be mistaken     *)
(* for answers, and answers for the start of a packet.                     *)
EXTENDS MouseDriver

KeepsUp == [wheel |-> TRUE, prompt |-> TRUE, moves |-> 3, requests |-> 2]
Impatient == [wheel |-> TRUE, prompt |-> TRUE, moves |-> 0, requests |-> 3]
Stalls == [wheel |-> TRUE, prompt |-> FALSE, moves |-> 1, requests |-> 1]
Standard == [wheel |-> FALSE, prompt |-> TRUE, moves |-> 1, requests |-> 1]
StandardStalls == [wheel |-> FALSE, prompt |-> FALSE, moves |-> 1, requests |-> 1]

AllCases == {KeepsUp, Impatient, Stalls, Standard, StandardStalls}
OnlyKeepsUp == {[KeepsUp EXCEPT !.requests = 1]}

NoRequests == {}
NewSettings == {[setting |-> "res", value |-> 2], [setting |-> "rate", value |-> 40],
                [setting |-> "scale", value |-> 0]}
=============================================================================
