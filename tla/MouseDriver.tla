----------------------------- MODULE MouseDriver -----------------------------
(***************************************************************************)
(* The PS/2 mouse driver: init_mouse_driver and the interrupt handler that *)
(* assembles three-byte packets and turns them into calls of the handler's *)
(* functions (src/src/drivers/mouse.c).                                    *)
(*                                                                         *)
(* The bytes on their way from the mouse to the driver are one queue: what *)
(* the mouse has to send and the controller's output buffer.  How the      *)
(* controller shares that buffer with the keyboard, and which interrupt    *)
(* reads it, is the subject of module InputPath; here a byte is either     *)
(* read by handle_mouse_interrupt or lost on the way.                      *)
(***************************************************************************)
EXTENDS MousePackets, Sequences

CONSTANTS
  Handlers,        \* the MouseEventHandlers init_mouse_driver is called with
  Deltas,          \* movements the mouse may report, per axis
  ButtonStates,    \* sets of buttons it may report as down
  AckCounts,       \* how many of its six acknowledgements stay in the queue
  MaxPackets,      \* bound: packets the mouse sends
  MaxLoss,         \* bound: bytes lost or left over
  MaxInits         \* bound: calls of init_mouse_driver

ASSUME MouseAssumption ==
  /\ Handlers \subseteq (SUBSET Slots) \union {NoHandler}
  /\ Deltas \subseteq -256 .. 255
  /\ ButtonStates \subseteq SUBSET Buttons
  /\ AckCounts \subseteq 0 .. 6
  /\ MaxPackets \in Nat /\ MaxLoss \in Nat /\ MaxInits \in Nat

VARIABLES
  queue,           \* bytes the driver has not read yet
  handler, offset, buffer, buttons,   \* the fields of struct MouseDriver
  told,            \* history: the buttons each handler has been told are down
  stuck,           \* history: those of them the last init_mouse_driver forgot
  event,           \* the calls made for the last packet
  sent, lost, inits                   \* counters for the bounds

calls == <<told, stuck, event>>
counters == <<sent, lost, inits>>
vars == <<queue, handler, offset, buffer, buttons, calls, counters>>

-----------------------------------------------------------------------------
(* The mouse: a report is three bytes, the flags with the ninth bits of    *)
(* the two movements, then their low eight bits.                           *)

Flags(r) ==
  8 + (IF 1 \in r.buttons THEN 1 ELSE 0)
    + (IF 2 \in r.buttons THEN 2 ELSE 0)
    + (IF 3 \in r.buttons THEN 4 ELSE 0)
    + (IF r.dx < 0 THEN 16 ELSE 0)
    + (IF r.dy < 0 THEN 32 ELSE 0)

Encoded(r) == <<Flags(r), r.dx % 256, r.dy % 256>>

\* What three bytes mean to the protocol.
Meaning(b) ==
  [dx      |-> IF Bit(b[1], 16) THEN b[2] - 256 ELSE b[2],
   dy      |-> IF Bit(b[1], 32) THEN b[3] - 256 ELSE b[3],
   buttons |-> Down(b[1])]

Acknowledge == 250     \* 0xFA, the answer to each of the six commands

SendPacket ==
  /\ inits > 0
  /\ sent < MaxPackets
  /\ \E r \in [dx : Deltas, dy : Deltas, buttons : ButtonStates] :
       queue' = queue \o Encoded(r)
  /\ sent' = sent + 1
  /\ UNCHANGED <<handler, offset, buffer, buttons, calls, lost, inits>>

\* A byte never reaches handle_mouse_interrupt: read by the keyboard's handler,
\* or overrun.
LoseByte ==
  /\ lost < MaxLoss
  /\ \E i \in 1 .. Len(queue) :
       queue' = SubSeq(queue, 1, i - 1) \o SubSeq(queue, i + 1, Len(queue))
  /\ lost' = lost + 1
  /\ UNCHANGED <<handler, offset, buffer, buttons, calls, sent, inits>>

-----------------------------------------------------------------------------
(* The driver                                                              *)

\* A static struct MouseDriver, before the first init_mouse_driver.
Init ==
  /\ queue = <<>>
  /\ handler = NoHandler
  /\ offset = 0
  /\ buffer = <<0, 0, 0>>
  /\ buttons = 0
  /\ told = [h \in Handlers |-> {}]
  /\ stuck = {}
  /\ event = NoEvent
  /\ sent = 0
  /\ lost = 0
  /\ inits = 0

\* init_mouse_driver(h): reset the packet assembly, drain the controller, and
\* send six commands, whose acknowledgements nothing reads.  A command makes the
\* mouse drop what it still had to send; a byte in the output buffer that came
\* after the drain loop stays, and the others of its packet are lost.  Nobody
\* tells the handler of the buttons set back: one that was given before still
\* takes them for down.
InitDriver(h) ==
  /\ inits < MaxInits
  /\ handler' = h
  /\ offset' = 0
  /\ buttons' = 0
  /\ \E left \in {<<>>} \union {<<queue[i]>> : i \in 1 .. Len(queue)}, a \in AckCounts :
       /\ queue' = left \o [k \in 1 .. a |-> Acknowledge]
       /\ IF left = <<>> THEN UNCHANGED lost ELSE lost < MaxLoss /\ lost' = lost + 1
  /\ stuck' = told[h]
  /\ event' = NoEvent
  /\ inits' = inits + 1
  /\ UNCHANGED <<buffer, told, sent>>

\* The calls for a packet, and what the handler knows from them.
CallHandler(e) ==
  /\ event' = e
  /\ told' = [told EXCEPT ![handler] = (@ \union e.down) \ e.up]
  /\ stuck' = stuck \ (e.down \union e.up)

\* Mutant: the buttons of the packet are not kept.
PacketForgetsButtons(b) ==
  IF FirstByte(b[1])
  THEN CallHandler(PacketEvent(handler, buttons, b)) /\ UNCHANGED buttons
  ELSE UNCHANGED <<calls, buttons>>

\* The end of a packet: discarded if its first byte cannot be one.
Packet(b) ==
  IF FirstByte(b[1])
  THEN CallHandler(PacketEvent(handler, buttons, b)) /\ buttons' = b[1]
  ELSE UNCHANGED <<calls, buttons>>

\* Mutant: the offset is compared before it is counted on.
HandleMouseInterruptEarly ==
  /\ inits > 0
  /\ queue # <<>>
  /\ queue' = Tail(queue)
  /\ buffer' = [buffer EXCEPT ![offset + 1] = Head(queue)]
  /\ IF handler = NoHandler
     THEN UNCHANGED <<offset, buttons, calls>>
     ELSE /\ offset' = (offset + 1) % 3
          /\ IF offset = 0
             THEN Packet(buffer')
             ELSE UNCHANGED <<buttons, calls>>
  /\ UNCHANGED <<handler, sent, lost, inits>>

\* handle_mouse_interrupt with a byte of the mouse in the output buffer.
HandleMouseInterrupt ==
  /\ inits > 0
  /\ queue # <<>>
  /\ queue' = Tail(queue)
  /\ buffer' = [buffer EXCEPT ![offset + 1] = Head(queue)]
  /\ IF handler = NoHandler
     THEN UNCHANGED <<offset, buttons, calls>>
     ELSE /\ offset' = (offset + 1) % 3
          /\ IF offset' = 0
             THEN Packet(buffer')
             ELSE UNCHANGED <<buttons, calls>>
  /\ UNCHANGED <<handler, sent, lost, inits>>

Next ==
  \/ SendPacket
  \/ LoseByte
  \/ \E h \in Handlers : InitDriver(h)
  \/ HandleMouseInterrupt

SafeSpec == Init /\ [][Next]_vars

\* A byte in the output buffer keeps its interrupt request up, so the handler
\* runs; module Interrupts shows that a request is served.
Spec == SafeSpec /\ WF_vars(HandleMouseInterrupt)

-----------------------------------------------------------------------------
(* Properties                                                              *)

\* Every variable has its type.
TypeOK ==
  /\ queue \in Seq(Byte)
  /\ handler \in Handlers \union {NoHandler}
  /\ offset \in 0 .. 2
  /\ buffer \in Byte \X Byte \X Byte
  /\ buttons \in Byte
  /\ told \in [Handlers -> SUBSET Buttons]
  /\ stuck \in SUBSET Buttons
  /\ event \in Events
  /\ sent \in 0 .. MaxPackets
  /\ lost \in 0 .. MaxLoss
  /\ inits \in 0 .. MaxInits

\* What a handler with both button functions takes for down is what the driver
\* holds to be down, across lost bytes, packets out of step and discarded ones;
\* only an init_mouse_driver can part them, by the buttons it forgets without a
\* word to a handler it is given again.  For each of these that handler gets no
\* release before it has been told a second time that the button is down.
ToldMatchesButtons ==
  {"OnMouseDown", "OnMouseUp"} \subseteq handler =>
    /\ told[handler] = Down(buttons) \union stuck
    /\ Down(buttons) \intersect stuck = {}

\* Such a handler gets a press only of a button it takes for up, or of one that was
\* forgotten; a release only of one it takes for down and that was not forgotten;
\* and never both for one button in one packet.
PressReleaseAlternate ==
  [][/\ offset = 2 /\ offset' = 0 /\ inits' = inits /\ FirstByte(buffer'[1])
     /\ {"OnMouseDown", "OnMouseUp"} \subseteq handler
     => /\ event'.down \intersect told[handler] \subseteq stuck
        /\ event'.up \subseteq told[handler] \ stuck
        /\ event'.down \intersect event'.up = {}]_vars

\* What the bytes not yet made into an event mean, as reports.
Reports(s) == [k \in 1 .. Len(s) \div 3 |-> Meaning(SubSeq(s, 3 * k - 2, 3 * k))]

Ahead == SubSeq(buffer, 1, offset) \o queue

InFlight == Reports(Ahead)

\* The driver puts its packets together where a multiple of three bytes begins,
\* and discards none of them.
Aligned ==
  /\ handler # NoHandler
  /\ Len(Ahead) % 3 = 0
  /\ \A k \in 1 .. Len(Ahead) \div 3 : FirstByte(Ahead[3 * k - 2])

\* ... and the packets stand for movements that fit eight bits.  After a loss
\* they may be made of the bytes of two.
InStep == Aligned /\ \A k \in DOMAIN InFlight : {InFlight[k].dx, InFlight[k].dy} \subseteq -127 .. 127

Abstract == INSTANCE MouseReports
              WITH inFlight <- InFlight, inStep <- InStep, slots <- handler,
                   held <- Down(buttons), event <- event, lost <- lost

\* The driver implements MouseReports: while the bytes are in step, each report
\* arrives exactly once, in order, with the movement and the button changes it
\* stands for; only a lost byte or a new init_mouse_driver gets them out of step;
\* and out of step, presses and releases still follow one state of the buttons.
DeliversReports == Abstract!Spec

\* A movement keeps its direction on both axes, unless bytes were lost.
MovementKeepsSign ==
  [][Aligned /\ lost = 0 /\ offset' = 0 /\ offset = 2 /\ inits' = inits /\ event'.move # NoMove
     /\ InFlight # <<>> =>
       LET m == Head(InFlight) IN
       /\ m.dx > 0 <=> event'.move[1] > 0
       /\ m.dx < 0 <=> event'.move[1] < 0
       /\ m.dy > 0 <=> event'.move[2] < 0
       /\ m.dy < 0 <=> event'.move[2] > 0]_vars

\* The handler is called for reports of the mouse only: none, before the first.
NoEventBeforeReport == sent = 0 => event = NoEvent
=============================================================================
