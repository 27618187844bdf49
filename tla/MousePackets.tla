---------------------------- MODULE MousePackets ----------------------------
(***************************************************************************)
(* How handle_mouse_interrupt reads the three bytes of a packet            *)
(* (src/src/drivers/mouse.c:166-201), apart from any state.                *)
(***************************************************************************)
EXTENDS Integers

Byte == 0 .. 255

Buttons == {1, 2, 3}

\* The functions of a struct MouseEventHandler that a packet can lead to.
Slots == {"OnMouseDown", "OnMouseUp", "OnMouseMove"}

\* A null handler pointer; any other handler is the set of its slots not null.
NoHandler == {"null"}

\* Mutant: the cast to uint8_t.
Uint8(v) == v % 256

\* Conversion to int8_t.
Int8(v) == IF v % 256 >= 128 THEN (v % 256) - 256 ELSE v % 256

\* The masks of the button loop.
Mask == <<1, 2, 4>>

Bit(byte, mask) == (byte \div mask) % 2 = 1

Down(byte) == {b \in Buttons : Bit(byte, Mask[b])}

\* Bit 3, set in a packet's first byte.
FirstByte(byte) == Bit(byte, 8)

NoMove == <<>>

NoEvent == [move |-> NoMove, down |-> {}, up |-> {}]

Events == [move : {NoMove} \union ((-128 .. 127) \X (-128 .. 127)),
           down : SUBSET Buttons,
           up   : SUBSET Buttons]

\* Mutant: presses and releases of whatever the packet shows, changed or not.
PacketEventNoEdges(slots, old, b) ==
  [move |-> IF (b[2] # 0 \/ b[3] # 0) /\ "OnMouseMove" \in slots
            THEN <<Int8(b[2]), Int8(-Int8(b[3]))>> ELSE NoMove,
   down |-> IF "OnMouseDown" \in slots THEN Down(b[1]) ELSE {},
   up   |-> IF "OnMouseUp" \in slots THEN Buttons \ Down(b[1]) ELSE {}]

\* Mutant: the mouse's y passed on as it is.
PacketEventYUp(slots, old, b) ==
  [move |-> IF (b[2] # 0 \/ b[3] # 0) /\ "OnMouseMove" \in slots
            THEN <<Int8(b[2]), Int8(b[3])>> ELSE NoMove,
   down |-> IF "OnMouseDown" \in slots THEN Down(b[1]) \ Down(old) ELSE {},
   up   |-> IF "OnMouseUp" \in slots THEN Down(old) \ Down(b[1]) ELSE {}]

\* The calls made for packet b of a handler with these slots, when the driver
\* holds the buttons of byte "old" to be down.  The loop's order from button 1
\* to 3 is left out.
PacketEvent(slots, old, b) ==
  [move |-> IF (b[2] # 0 \/ b[3] # 0) /\ "OnMouseMove" \in slots
            THEN <<Int8(b[2]), Int8(-Int8(b[3]))>> ELSE NoMove,
   down |-> IF "OnMouseDown" \in slots THEN Down(b[1]) \ Down(old) ELSE {},
   up   |-> IF "OnMouseUp" \in slots THEN Down(old) \ Down(b[1]) ELSE {}]
=============================================================================
