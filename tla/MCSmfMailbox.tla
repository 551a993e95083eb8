---------------------------- MODULE MCSmfMailbox ----------------------------
(***************************************************************************)
(* Readings for TLC: FAN_TRAY_4_SPEED, whose second byte is in the next    *)
(* page (0x00FF, 0x0100), and a byte of the page of the I/O modules'       *)
(* voltages (0x0311, IO_MODULE_PRESENCE).  A register holds 0 or 1.        *)
(***************************************************************************)
EXTENDS SmfMailbox

MCRegisters == {255, 256, 785}
MCReadings  == {[reg |-> 255, size |-> 2], [reg |-> 785, size |-> 1]}
=============================================================================
