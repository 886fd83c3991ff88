--------------------------- MODULE MCPS2Receiver ---------------------------
(* Two-byte scripts over bytes of even and odd weight. *)
EXTENDS PS2Receiver

X00 == {}
X08 == {3}
XAA == {1, 3, 5, 7}
XE0 == {5, 6, 7}

TwoBytes == {<<a, b>> : a, b \in {X00, X08, XAA, XE0}}
=============================================================================
