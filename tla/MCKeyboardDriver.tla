-------------------------- MODULE MCKeyboardDriver --------------------------
(* Two keys differ by E0 only; one key moves the direction; one starts the  *)
(* LED dialogue, as the heartbeat does.  Fewer retries than 4 and 8.        *)
EXTENDS KeyboardDriver

Plain(b) == [ext |-> FALSE, byte |-> b]
Extended(b) == [ext |-> TRUE, byte |-> b]

SomeKeys == {Plain("RightControl"), Extended("RightControl"), Plain("D1"), Plain("NumLock")}
=============================================================================
