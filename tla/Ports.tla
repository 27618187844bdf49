-------------------------------- MODULE Ports --------------------------------
(***************************************************************************)
(* The 8-bit port objects of src/src/hardwarecommunication/port.c.  Their  *)
(* Read and Write execute one instruction, of which a device module says   *)
(* what it does.                                                           *)
(***************************************************************************)
EXTENDS Integers

Byte == 0 .. 255

\* init_port8bit; the number is a uint16_t.
Port8Bit(portnumber) == [portnumber |-> portnumber % 65536]

\* Mutant: the bit added instead of set.
SetBit7Added(v) == v + 128

\* The operators | 0x80 and & ~0x80 on a byte.
SetBit7(v)   == IF v < 128 THEN v + 128 ELSE v

ClearBit7(v) == v % 128
=============================================================================
