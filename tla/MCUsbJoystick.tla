--------------------------- MODULE MCUsbJoystick ---------------------------
(* Frame numbers modulo 3 and a wait of 2 frames instead of 256 and 50.     *)
EXTENDS UsbJoystick

AllHosts == BOOLEAN
HostileHost == {FALSE}
=============================================================================
