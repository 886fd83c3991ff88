---------------------------- MODULE MCRingBuffer ----------------------------
(* The mouse driver's ring (MS_BUFSIZE is 2) for TLC: enough bytes for both *)
(* indices to go round three times and for the buffer to overflow.         *)
EXTENDS RingBuffer
=============================================================================
