-------------------------------- MODULE I8042 --------------------------------
(***************************************************************************)
(* The 8042 keyboard controller with its two devices, as far as TeeOS      *)
(* programs it.                                                            *)
(*                                                                         *)
(* The chip is hardware, not part of the repository: it is modelled from   *)
(* the commands and data that init_keyboard_driver and init_mouse_driver   *)
(* write (src/src/drivers/keyboard.c:13-44, mouse.c:64-132) and from the   *)
(* status bits the drivers test.  It has one output buffer for both        *)
(* devices and for its own answers; a byte stays there until port 0x60 is  *)
(* read, whoever reads it.                                                 *)
(***************************************************************************)
EXTENDS MousePackets, Sequences

\* A byte, where it comes from and what it is.
Bytes == [val : Byte, src : {"kbd", "aux", "ctl"},
          what : {"scan", "report", "ack", "config"}]

\* full: status bit 0; out: the byte at port 0x60; ccb: the configuration byte;
\* expect: what the next byte written to port 0x60 is; kbd, aux, ctl: bytes
\* waiting for the output buffer; streaming: the mouse reports.
Controller == [full : BOOLEAN, out : Bytes, ccb : Byte,
               expect : {"none", "ccb", "aux"},
               kbd : Seq(Bytes), aux : Seq(Bytes), ctl : Seq(Bytes),
               streaming : BOOLEAN]

\* Bits of the configuration byte.
IRQ1Enable == 1
IRQ12Enable == 2
KeyboardOff == 16
MouseOff == 32
Translation == 64

With(byte, mask) == IF Bit(byte, mask) THEN byte ELSE byte + mask

Without(byte, mask) == IF Bit(byte, mask) THEN byte - mask ELSE byte

\* Status bits 0 and 5.
HasData(c) == c.full

\* Mutant: bit 5 is not looked at.
FromMouseAny(c) == c.full

FromMouse(c) == c.full /\ c.out.src = "aux"

\* A byte written to the command port 0x64.
Command(c, d) ==
  CASE d = 174 -> [c EXCEPT !.expect = "none", !.ccb = Without(@, KeyboardOff)]  \* 0xAE
    [] d = 168 -> [c EXCEPT !.expect = "none", !.ccb = Without(@, MouseOff)]     \* 0xA8
    [] d = 32  -> [c EXCEPT !.expect = "none",                                   \* 0x20
                     !.ctl = Append(@, [val |-> c.ccb, src |-> "ctl", what |-> "config"])]
    [] d = 96  -> [c EXCEPT !.expect = "ccb"]                                    \* 0x60
    [] d = 212 -> [c EXCEPT !.expect = "aux"]                                    \* 0xD4

\* A byte written to the data port 0x60: the new configuration, or a command or
\* parameter for a device, which acknowledges it.  0xF4 starts the mouse's
\* reports and 0xF6 stops them.
Data(c, d) ==
  CASE c.expect = "ccb"  -> [c EXCEPT !.expect = "none", !.ccb = d]
    [] c.expect = "aux"  ->
         [c EXCEPT !.expect = "none",
            !.aux = Append(@, [val |-> 250, src |-> "aux", what |-> "ack"]),
            !.streaming = IF d = 244 THEN TRUE ELSE IF d = 246 THEN FALSE ELSE @]
    [] c.expect = "none" ->
         [c EXCEPT !.kbd = Append(@, [val |-> 250, src |-> "kbd", what |-> "ack"])]

\* Port 0x60 read; with an empty buffer it gives the last byte again.
Read(c) == [c EXCEPT !.full = FALSE]

\* The queues the next byte can come from, and its move to the output buffer.
Ready(c) ==
  IF c.full THEN {}
  ELSE IF c.ctl # <<>> THEN {"ctl"}
  ELSE {q \in {"kbd", "aux"} :
          /\ c[q] # <<>>
          /\ ~Bit(c.ccb, IF q = "kbd" THEN KeyboardOff ELSE MouseOff)}

Load(c, q) == [c EXCEPT !.full = TRUE, !.out = Head(c[q]), ![q] = Tail(@)]

\* The interrupt lines the controller holds up.
Wires(c) ==
  {l \in {1, 12} :
     /\ c.full
     /\ l = IF c.out.src = "aux" THEN 12 ELSE 1
     /\ Bit(c.ccb, IF l = 1 THEN IRQ1Enable ELSE IRQ12Enable)}
=============================================================================
