------------------------------- MODULE VGACard -------------------------------
(***************************************************************************)
(* The VGA adapter as far as TeeOS programs it: register files behind      *)
(* pairs of an index and a data port.  The attribute controller has one    *)
(* port for both, which takes an index and a value in turn; a read of the  *)
(* status port makes the next write an index.  Bit 7 of register 0x11 of   *)
(* the CRT controller locks its registers 0 to 7.  The adapter is          *)
(* hardware: it is modelled from the way src/src/drivers/vga.c and         *)
(* src/src/kernel.c use it.                                                *)
(***************************************************************************)
EXTENDS Ports

Card == [
  misc       : Byte,
  seqIndex   : Byte,  seq  : [0 .. 4 -> Byte],
  crtcIndex  : Byte,  crtc : [0 .. 24 -> Byte],
  gcIndex    : Byte,  gc   : [0 .. 8 -> Byte],
  acIndex    : Byte,  ac   : [0 .. 20 -> Byte],
  acValue    : BOOLEAN,      \* the next write to 0x3C0 is a value
  video      : BOOLEAN ]     \* the palette address source bit

Locked(card) == card.crtc[17] >= 128

WriteCRTCData(card, v) ==
  IF Locked(card) /\ card.crtcIndex < 8 THEN card
  ELSE [card EXCEPT !.crtc[card.crtcIndex] = v]

\* A write to 0x3C0: index and value in turn.
WriteAttributePort(card, v) ==
  IF card.acValue
  THEN [card EXCEPT !.ac[card.acIndex] = v, !.acValue = FALSE]
  ELSE [card EXCEPT !.acIndex = v % 32, !.video = (v \div 32) % 2 = 1, !.acValue = TRUE]

\* What a write to one of the adapter's ports does.
Write(card, port, v) ==
  CASE port.portnumber = 962 -> [card EXCEPT !.misc = v]                    \* 0x3C2
    [] port.portnumber = 964 -> [card EXCEPT !.seqIndex = v]                \* 0x3C4
    [] port.portnumber = 965 -> [card EXCEPT !.seq[card.seqIndex] = v]      \* 0x3C5
    [] port.portnumber = 980 -> [card EXCEPT !.crtcIndex = v]               \* 0x3D4
    [] port.portnumber = 981 -> WriteCRTCData(card, v)                      \* 0x3D5
    [] port.portnumber = 974 -> [card EXCEPT !.gcIndex = v]                 \* 0x3CE
    [] port.portnumber = 975 -> [card EXCEPT !.gc[card.gcIndex] = v]        \* 0x3CF
    [] port.portnumber = 960 -> WriteAttributePort(card, v)                 \* 0x3C0
    [] OTHER -> card

\* The values read from the two data ports that the code reads.
Read(card, port) ==
  CASE port.portnumber = 981 -> card.crtc[card.crtcIndex]
    [] port.portnumber = 975 -> card.gc[card.gcIndex]

\* A read of the status port 0x3DA.
ReadStatus(card, port) ==
  IF port.portnumber = 986 THEN [card EXCEPT !.acValue = FALSE] ELSE card
=============================================================================
