----------------------------- MODULE TextConsole -----------------------------
(***************************************************************************)
(* The text console of src/src/kernel.c: the position kprintf writes at,   *)
(* and the cursor registers of the CRT controller.  Characters are         *)
(* counted, not modelled: every string of the code is some characters,     *)
(* with a newline at its end or none.                                      *)
(***************************************************************************)
EXTENDS VGACard

Columns == 80

TextMemory    == 753664     \* 0xB8000
TextMemoryEnd == 786432     \* 0xC0000, where the adapter's memory ends

\* cursor_X and cursor_Y
Home == [x |-> 0, y |-> 0]

Location(con) == con.y * Columns + con.x

\* The loop of kprintf over n printable characters.
Characters(con, n) ==
  LET end == Location(con) + n IN [x |-> end % Columns, y |-> end \div Columns]

Newline(con) == [x |-> 0, y |-> con.y + 1]

\* Mutant: a newline forgets the carriage return.
LineNoReturn(con, n) == [Characters(con, n) EXCEPT !.y = @ + 1]

\* One or more calls of kprintf that print n characters and a newline.
Line(con, n) == Newline(Characters(con, n))

\* move_cursor: pos is a uint16_t.
move_cursor(card, con) ==
  LET pos == Location(con) % 65536
      c1  == Write(Write(card, Port8Bit(980), 15), Port8Bit(981), pos % 256)
  IN Write(Write(c1, Port8Bit(980), 14), Port8Bit(981), (pos \div 256) % 256)

\* Where the adapter shows its cursor.
HardwareCursor(card) == card.crtc[14] * 256 + card.crtc[15]
=============================================================================
