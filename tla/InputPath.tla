------------------------------ MODULE InputPath ------------------------------
(***************************************************************************)
(* From a key or the mouse to the event handlers: the 8042 controller,     *)
(* the two PS/2 drivers with their initialisation and their interrupt      *)
(* handlers, the delivery of interrupts, and the order in which kernelMain *)
(* puts them together (src/src/kernel.c:140-185).                          *)
(*                                                                         *)
(* The processor is one program counter.  Devices act between any two of   *)
(* its steps.  The processor takes and ends interrupts with the actions of *)
(* module InterruptDelivery, which module Interrupts implements.           *)
(* kernelMain initialises both drivers twice, first for text mode and then *)
(* for the desktop.                                                        *)
(***************************************************************************)
EXTENDS I8042

CONSTANTS
  Firmware,        \* configuration bytes the firmware may leave
  ScanCodes,       \* bytes the keyboard sends for keys
  Reports,         \* three-byte packets the mouse sends
  Hurry,           \* labels at which the processor may outrun the controller
  QuietBoots,      \* whether the boot is undisturbed, may be disturbed, or either
  DrainTimeout,    \* drain_timeout, 100000 in the code, for a boot quiet or not
  MaxScans,        \* bound: bytes from the keyboard
  MaxReports,      \* bound: packets from the mouse
  MaxStalls        \* bound: waits for the controller that time out

ASSUME InputAssumption ==
  /\ Firmware \subseteq Byte /\ ScanCodes \subseteq Byte
  /\ Reports \subseteq Byte \X Byte \X Byte
  /\ QuietBoots \subseteq BOOLEAN
  /\ DrainTimeout \in [BOOLEAN -> Nat]
  /\ {MaxScans, MaxReports, MaxStalls} \subseteq Nat

VARIABLES
  quiet,                     \* nothing disturbs the boot
  pc, mode,                  \* where kernelMain is, and for which mode
  ctl,                       \* the controller
  drain,                     \* drain_timeout
  status,                    \* the local of the two init functions
  cmd,                       \* next entry of DeviceCommands
  kb, ms,                    \* the drivers: handler slots as addresses, packet
  live, pending, serving,    \* interrupt delivery
  took,                      \* the last byte an interrupt handler read
  jumped,                    \* addresses called that hold no code of the kernel
  scans, reports, stalls     \* counters for the bounds

boot == <<mode, drain, status, cmd>>
irq == <<live, pending, serving>>
counters == <<scans, reports, stalls>>
vars == <<quiet, pc, boot, ctl, kb, ms, irq, took, jumped, counters>>

Delivery == INSTANCE InterruptDelivery WITH Lines <- {1, 12}

-----------------------------------------------------------------------------
(* Handlers are tables of addresses.  kernelMain passes the text mode's     *)
(* tables first, then the desktop object itself, cast to a table: its       *)
(* leading words are the parent, x, y and w of struct widget.               *)

KernelBase == 1048576      \* code starts at 1 MiB

my_keydown_handler == KernelBase
my_mousemove_handler == KernelBase + 1

desktop == [parent |-> 0, x |-> 0, y |-> 0, w |-> 320]

KeyboardEvenHandler(m) ==
  IF m = "text" THEN [OnKeyDown |-> my_keydown_handler, OnKeyUp |-> 0]
  ELSE [OnKeyDown |-> desktop.parent, OnKeyUp |-> desktop.x]

\* Mutant: the table has one more field in front, so its last lies over the height.
MouseEventHandlerLonger(m) ==
  IF m = "text"
  THEN [OnMouseDown |-> 0, OnMouseUp |-> 0, OnMouseMove |-> my_mousemove_handler]
  ELSE [OnMouseDown |-> desktop.y, OnMouseUp |-> desktop.w, OnMouseMove |-> 200]

MouseEventHandler(m) ==
  IF m = "text"
  THEN [OnMouseDown |-> 0, OnMouseUp |-> 0, OnMouseMove |-> my_mousemove_handler]
  ELSE [OnMouseDown |-> desktop.x, OnMouseUp |-> desktop.y, OnMouseMove |-> desktop.w]

\* Calls through the non-null addresses among "addresses", then on to "next".
\* What executes at an address outside the kernel may return or may not.
Call(addresses, next) ==
  LET astray == {a \in addresses : a # 0 /\ a < KernelBase} IN
  /\ jumped' = jumped \union astray
  /\ pc' \in {next} \union (IF astray = {} THEN {} ELSE {"wild"})

-----------------------------------------------------------------------------
(* Steps of the processor, and edges on the interrupt lines.  A quiet boot  *)
(* sees no input, no time-out, and no controller slower than the delays.    *)

At(label) == pc = label /\ ((label \in Hurry /\ ~quiet) \/ Ready(ctl) = {})

\* The controllers latch the rising edges.
Latch == /\ pending' = pending \union (Wires(ctl') \ Wires(ctl))
         /\ UNCHANGED <<live, serving>>

Init ==
  /\ quiet \in QuietBoots
  /\ pc = "kb_start"
  /\ mode = "text"
  /\ \E c \in Firmware, pressed \in ScanCodes, f \in BOOLEAN :
       /\ ~(f /\ quiet)
       /\ ctl = [full |-> f, out |-> [val |-> pressed, src |-> "kbd", what |-> "scan"],
                 ccb |-> c, expect |-> "none", kbd |-> <<>>, aux |-> <<>>, ctl |-> <<>>,
                 streaming |-> FALSE]
  /\ drain = DrainTimeout[quiet]
  /\ status = 0
  /\ cmd = 1
  /\ kb = [OnKeyDown |-> 0, OnKeyUp |-> 0]
  /\ ms = [handler |-> [s \in Slots |-> 0], offset |-> 0, buffer |-> <<0, 0, 0>>, buttons |-> 0]
  /\ Delivery!Init
  /\ took = <<>>
  /\ jumped = {}
  /\ scans = 0 /\ reports = 0 /\ stalls = 0

-----------------------------------------------------------------------------
(* The devices                                                              *)

KeyPress ==
  /\ (live \/ ~quiet) /\ scans < MaxScans
  /\ \E k \in ScanCodes :
       ctl' = [ctl EXCEPT !.kbd = Append(@, [val |-> k, src |-> "kbd", what |-> "scan"])]
  /\ scans' = scans + 1
  /\ UNCHANGED <<quiet, pc, boot, kb, ms, irq, took, jumped, reports, stalls>>

MouseReport ==
  /\ (live \/ ~quiet) /\ ctl.streaming /\ reports < MaxReports
  /\ \E r \in Reports :
       ctl' = [ctl EXCEPT !.aux = @ \o
                 [i \in 1 .. 3 |-> [val |-> r[i], src |-> "aux", what |-> "report"]]]
  /\ reports' = reports + 1
  /\ UNCHANGED <<quiet, pc, boot, kb, ms, irq, took, jumped, scans, stalls>>

\* The controller moves a byte to its output buffer.
LoadByte ==
  /\ \E q \in Ready(ctl) : ctl' = Load(ctl, q)
  /\ Latch
  /\ UNCHANGED <<quiet, pc, boot, kb, ms, took, jumped, counters>>

-----------------------------------------------------------------------------
(* init_keyboard_driver                                                     *)

KeyboardStart ==
  /\ At("kb_start")
  /\ kb' = KeyboardEvenHandler(mode)
  /\ drain' = DrainTimeout[quiet]
  /\ pc' = "kb_drain"
  /\ UNCHANGED <<quiet, mode, status, cmd, ctl, ms, irq, took, jumped, counters>>

\* Mutant: the loop waits for the buffer to empty by itself.
KeyboardDrainWaits ==
  /\ At("kb_drain")
  /\ IF HasData(ctl) /\ drain > 0 THEN drain' = drain - 1 /\ pc' = pc
                                  ELSE drain' = drain /\ pc' = "kb_enable"
  /\ ctl' = ctl
  /\ Latch
  /\ UNCHANGED <<quiet, mode, status, cmd, kb, ms, took, jumped, counters>>

KeyboardDrain ==
  /\ At("kb_drain")
  /\ IF HasData(ctl)
     THEN /\ drain' = drain - 1
          /\ IF drain > 0 THEN ctl' = Read(ctl) /\ pc' = pc
                          ELSE ctl' = ctl /\ pc' = "kb_enable"
     ELSE drain' = drain /\ ctl' = ctl /\ pc' = "kb_enable"
  /\ Latch
  /\ UNCHANGED <<quiet, mode, status, cmd, kb, ms, took, jumped, counters>>

\* Enable the keyboard interface, request the configuration byte, announce a
\* new one.
KeyboardCommands ==
  {[at |-> "kb_enable", byte |-> 174, next |-> "kb_request"],
   [at |-> "kb_request", byte |-> 32, next |-> "kb_read"],
   [at |-> "kb_set", byte |-> 96, next |-> "kb_write"]}

KeyboardCommand ==
  /\ \E c \in KeyboardCommands :
       At(c.at) /\ ctl' = Command(ctl, c.byte) /\ pc' = c.next
  /\ UNCHANGED <<quiet, boot, kb, ms, irq, took, jumped, counters>>

\* Mutant: the configuration written afresh.
WithKeyboardAfresh(config) == IRQ1Enable

WithKeyboard(config) == Without(With(config, IRQ1Enable), KeyboardOff)

\* Port 0x60 is read after a delay, whatever the status says.
KeyboardRead ==
  /\ At("kb_read")
  /\ status' = WithKeyboard(ctl.out.val)
  /\ ctl' = Read(ctl)
  /\ Latch
  /\ pc' = "kb_set"
  /\ UNCHANGED <<quiet, mode, drain, cmd, kb, ms, took, jumped, counters>>

KeyboardWrite ==
  /\ At("kb_write")
  /\ ctl' = Data(ctl, status)
  /\ Latch
  /\ pc' = "kb_scan"
  /\ UNCHANGED <<quiet, boot, kb, ms, took, jumped, counters>>

KeyboardScan ==
  /\ At("kb_scan")
  /\ ctl' = Data(ctl, 244)
  /\ pc' = "ms_start"
  /\ UNCHANGED <<quiet, boot, kb, ms, irq, took, jumped, counters>>

-----------------------------------------------------------------------------
(* init_mouse_driver                                                        *)

MouseStart ==
  /\ At("ms_start")
  /\ ms' = [ms EXCEPT !.handler = MouseEventHandler(mode), !.offset = 0, !.buttons = 0]
  /\ pc' = "ms_drain"
  /\ UNCHANGED <<quiet, boot, ctl, kb, irq, took, jumped, counters>>

\* Mutant: the drain loop polls and never reads.
MouseDrainPollsOnly ==
  /\ At("ms_drain")
  /\ ctl' = ctl
  /\ pc' = IF HasData(ctl) THEN pc ELSE "ms_enable"
  /\ Latch
  /\ UNCHANGED <<quiet, boot, kb, ms, took, jumped, counters>>

MouseDrain ==
  /\ At("ms_drain")
  /\ IF HasData(ctl) THEN ctl' = Read(ctl) /\ pc' = pc
                     ELSE ctl' = ctl /\ pc' = "ms_enable"
  /\ Latch
  /\ UNCHANGED <<quiet, boot, kb, ms, took, jumped, counters>>

MouseCommands ==
  {[at |-> "ms_enable", byte |-> 168, next |-> "ms_request"],
   [at |-> "ms_request", byte |-> 32, next |-> "ms_read"],
   [at |-> "ms_set", byte |-> 96, next |-> "ms_write"]}

\* mouse_wait_write and mouse_wait_read give up after a million polls.
Stall == ~quiet /\ stalls < MaxStalls /\ stalls' = stalls + 1

NoStall == stalls' = stalls

MouseCommand ==
  /\ \E c \in MouseCommands :
       /\ At(c.at)
       /\ \/ NoStall /\ ctl' = Command(ctl, c.byte)
          \/ Stall /\ ctl' = ctl
       /\ pc' = c.next
  /\ UNCHANGED <<quiet, boot, kb, ms, irq, took, jumped, scans, reports>>

WithMouse(config) == Without(With(config, IRQ12Enable), MouseOff)

\* mouse_wait_read runs out: too early, or because nothing is coming.
ReadTimesOut == ~HasData(ctl) /\ (Stall \/ (NoStall /\ Ready(ctl) = {}))

\* mouse_read_data gives 0 when it gave up.
MouseRead ==
  /\ At("ms_read")
  /\ \/ NoStall /\ HasData(ctl) /\ ctl' = Read(ctl) /\ status' = WithMouse(ctl.out.val)
     \/ ReadTimesOut /\ ctl' = ctl /\ status' = WithMouse(0)
  /\ Latch
  /\ pc' = "ms_set"
  /\ UNCHANGED <<quiet, mode, drain, cmd, kb, ms, took, jumped, scans, reports>>

MouseWrite ==
  /\ At("ms_write")
  /\ \/ NoStall /\ ctl' = Data(ctl, status)
     \/ Stall /\ ctl' = ctl
  /\ Latch
  /\ pc' = "ms_cmd"
  /\ UNCHANGED <<quiet, boot, kb, ms, took, jumped, scans, reports>>

\* Set defaults, sample rate 100, resolution 0, enable data reporting.
DeviceCommands == <<246, 243, 100, 232, 0, 244>>

\* mouse_write_device, and the null OnActivate after the last command.
MouseDeviceCommand ==
  /\ At("ms_cmd")
  /\ \/ NoStall /\ ctl' = Data(Command(ctl, 212), DeviceCommands[cmd])
     \/ Stall /\ ctl' \in {ctl, Command(ctl, 212)}
  /\ IF cmd < Len(DeviceCommands)
     THEN cmd' = cmd + 1 /\ pc' = pc
     ELSE cmd' = 1 /\ pc' = IF mode = "text" THEN "activate" ELSE "sti"
  /\ UNCHANGED <<quiet, mode, drain, status, kb, ms, irq, took, jumped, scans, reports>>

-----------------------------------------------------------------------------
(* The interrupt handlers of the drivers                                    *)

\* Make codes my_keydown_handler gets a character for.
Printable == (2 .. 11) \union (16 .. 25) \union (30 .. 38) \union (44 .. 50) \union {28, 57}

\* Mutant: without a key handler the driver returns before it reads.
HandleKeyboardEarlyOut(next) ==
  LET key == ctl.out.val IN
  /\ IF kb.OnKeyDown = 0 /\ kb.OnKeyUp = 0
     THEN pc' = next /\ UNCHANGED <<ctl, took, jumped>>
     ELSE /\ ctl' = Read(ctl)
          /\ took' = <<"keyboard", ctl.out, HasData(ctl)>>
          /\ Call(IF key \in Printable THEN {kb.OnKeyDown}
                  ELSE IF key >= 128 THEN {kb.OnKeyUp} ELSE {}, next)
  /\ UNCHANGED ms

\* handle_keyboard_interrupt reads port 0x60 without looking at the status.
HandleKeyboard(next) ==
  LET key == ctl.out.val IN
  /\ ctl' = Read(ctl)
  /\ took' = <<"keyboard", ctl.out, HasData(ctl)>>
  /\ Call(IF key \in Printable THEN {kb.OnKeyDown}
          ELSE IF key >= 128 THEN {kb.OnKeyUp} ELSE {}, next)
  /\ UNCHANGED ms

\* The addresses a mouse event makes the driver call.
Called(e) ==
  {ms.handler[s] : s \in {t \in Slots :
     \/ t = "OnMouseMove" /\ e.move # NoMove
     \/ t = "OnMouseDown" /\ e.down # {}
     \/ t = "OnMouseUp" /\ e.up # {}}}

\* Mutant: the offset is not wrapped.
HandleMouseNoWrap(next) ==
  IF ~FromMouse(ctl)
  THEN pc' = next /\ UNCHANGED <<ctl, ms, took, jumped>>
  ELSE LET b == [ms.buffer EXCEPT ![ms.offset + 1] = ctl.out.val]
       IN /\ ctl' = Read(ctl)
          /\ took' = <<"mouse", ctl.out, TRUE>>
          /\ ms' = [ms EXCEPT !.buffer = b, !.offset = @ + 1]
          /\ Call({}, next)

\* handle_mouse_interrupt.
HandleMouse(next) ==
  IF ~FromMouse(ctl)
  THEN pc' = next /\ UNCHANGED <<ctl, ms, took, jumped>>
  ELSE LET b == [ms.buffer EXCEPT ![ms.offset + 1] = ctl.out.val]
           whole == ms.offset = 2 /\ FirstByte(b[1])
           slots == {s \in Slots : ms.handler[s] # 0}
       IN /\ ctl' = Read(ctl)
          /\ took' = <<"mouse", ctl.out, TRUE>>
          /\ ms' = [ms EXCEPT !.buffer = b, !.offset = (@ + 1) % 3,
                              !.buttons = IF whole THEN b[1] ELSE @]
          /\ Call(IF whole THEN Called(PacketEvent(slots, ms.buttons, b)) ELSE {}, next)

-----------------------------------------------------------------------------
(* The rest of kernelMain                                                   *)

\* driver_manager_activate_all: the two drivers were added as struct Driver,
\* whose first field is Activate; theirs is base.Handle, null in the keyboard's
\* and handle_mouse_interrupt in the mouse's.
ActivateAll ==
  /\ At("activate")
  /\ HandleMouse("kb_start")
  /\ Latch
  /\ mode' = "desktop"
  /\ UNCHANGED <<quiet, drain, status, cmd, kb, counters>>

ActivateInterrupts ==
  /\ At("sti")
  /\ Delivery!Start
  /\ pc' = "draw"
  /\ UNCHANGED <<quiet, boot, ctl, kb, ms, took, jumped, counters>>

\* An interrupt leaves the drawing loop.  A request whose line has dropped since
\* may still come through, or turn into a spurious interrupt, which
\* HandleInterrupt prints and ends.
Accept ==
  /\ pc = "draw"
  /\ \E l \in {1, 12} :
       \/ Delivery!Begin(l) /\ pc' = IF l = 1 THEN "kb_isr" ELSE "ms_isr"
       \/ Delivery!Withdraw(l) /\ l \notin Wires(ctl) /\ pc' = pc
  /\ UNCHANGED <<quiet, boot, ctl, kb, ms, took, jumped, counters>>

KeyboardISR ==
  /\ pc = "kb_isr"
  /\ HandleKeyboard("eoi")
  /\ Latch
  /\ UNCHANGED <<quiet, boot, kb, counters>>

MouseISR ==
  /\ pc = "ms_isr"
  /\ HandleMouse("eoi")
  /\ Latch
  /\ UNCHANGED <<quiet, boot, kb, counters>>

\* Mutant: no end of interrupt.
EndOfInterruptMissing ==
  /\ pc = "eoi"
  /\ pc' = "draw"
  /\ UNCHANGED <<quiet, boot, ctl, kb, ms, irq, took, jumped, counters>>

EndOfInterrupt ==
  /\ pc = "eoi"
  /\ Delivery!Finish
  /\ pc' = "draw"
  /\ UNCHANGED <<quiet, boot, ctl, kb, ms, took, jumped, counters>>

-----------------------------------------------------------------------------
Boot ==
  \/ KeyboardStart \/ KeyboardDrain \/ KeyboardCommand \/ KeyboardRead
  \/ KeyboardWrite \/ KeyboardScan
  \/ MouseStart \/ MouseDrain \/ MouseCommand \/ MouseRead \/ MouseWrite
  \/ MouseDeviceCommand
  \/ ActivateAll \/ ActivateInterrupts

Handle == KeyboardISR \/ MouseISR \/ EndOfInterrupt

Next == KeyPress \/ MouseReport \/ LoadByte \/ Boot \/ Accept \/ Handle

SafeSpec == Init /\ [][Next]_vars

(***************************************************************************)
(* The processor executes, and the controller passes on what it holds.     *)
(* Nothing is assumed of the keyboard or the mouse.                        *)
(***************************************************************************)
Spec == SafeSpec /\ WF_vars(Boot) /\ WF_vars(Accept) /\ WF_vars(Handle) /\ WF_vars(LoadByte)

-----------------------------------------------------------------------------
(* Properties                                                              *)

Running == {"draw", "kb_isr", "ms_isr", "eoi"}

Labels == {"kb_start", "kb_drain", "kb_enable", "kb_request", "kb_read", "kb_set",
           "kb_write", "kb_scan", "ms_start", "ms_drain", "ms_enable", "ms_request",
           "ms_read", "ms_set", "ms_write", "ms_cmd", "activate", "sti", "wild"}
          \union Running

\* Every variable has its type.
TypeOK ==
  /\ quiet \in BOOLEAN
  /\ pc \in Labels
  /\ mode \in {"text", "desktop"}
  /\ ctl \in Controller
  /\ drain \in -1 .. DrainTimeout[quiet]
  /\ status \in Byte
  /\ cmd \in 1 .. Len(DeviceCommands)
  /\ kb \in [OnKeyDown : Nat, OnKeyUp : Nat]
  /\ ms \in [handler : [Slots -> Nat], offset : 0 .. 2,
             buffer : Byte \X Byte \X Byte, buttons : Byte]
  /\ live \in BOOLEAN
  /\ pending \subseteq {1, 12}
  /\ serving \subseteq {1, 12}
  /\ took \in {<<>>} \union ({"keyboard", "mouse"} \X Bytes \X BOOLEAN)
  /\ jumped \subseteq Nat
  /\ scans \in 0 .. MaxScans
  /\ reports \in 0 .. MaxReports
  /\ stalls \in 0 .. MaxStalls

\* No lost wake-up.  The controllers latch edges, so a byte that keeps a line up
\* while its request is neither latched nor being served would stop all input
\* for good.  Whatever the boot sequence read, masked or left behind, and
\* whichever handler emptied the buffer, that does not happen.  In the drawing
\* loop nothing is being served, so there the request is latched.
NoLostWakeup == pc \in Running => Wires(ctl) \subseteq pending \union serving

\* Once kernelMain is done, the controller's configuration lets both devices
\* through with their interrupts, and still translates scan codes.
InputEnabled ==
  pc \in Running =>
    /\ Bit(ctl.ccb, IRQ1Enable) /\ Bit(ctl.ccb, IRQ12Enable)
    /\ ~Bit(ctl.ccb, KeyboardOff) /\ ~Bit(ctl.ccb, MouseOff)
    /\ Bit(ctl.ccb, Translation)

\* It always does when nothing disturbed the boot.
InputEnabledQuietly == quiet => InputEnabled

\* kernelMain gets to its drawing loop, however often the devices interfere.
BootCompletes == <>(pc = "draw")

\* How far kernelMain is: the labels of the two functions in their order, first for
\* text mode and then for the desktop.
Place ==
  [kb_start |-> 0, kb_drain |-> 1, kb_enable |-> 2, kb_request |-> 3, kb_read |-> 4,
   kb_set |-> 5, kb_write |-> 6, kb_scan |-> 7, ms_start |-> 8, ms_drain |-> 9,
   ms_enable |-> 10, ms_request |-> 11, ms_read |-> 12, ms_set |-> 13, ms_write |-> 14,
   ms_cmd |-> 15, activate |-> 22, sti |-> 22, draw |-> 23, kb_isr |-> 23, ms_isr |-> 23,
   eoi |-> 23, wild |-> 23]

Stage == Place[pc] + cmd + IF mode = "text" THEN 0 ELSE 24

\* What the devices have still to get rid of: a byte in a queue goes to the output
\* buffer first.
Waiting == 2 * (Len(ctl.kbd) + Len(ctl.aux) + Len(ctl.ctl)) + IF HasData(ctl) THEN 1 ELSE 0

\* Neither of the boot's loops turns for nothing: each step gets kernelMain further or
\* takes a byte off the devices' hands, as does the controller, so that only a device
\* that keeps sending can hold the boot up.
BootAdvances ==
  [][Boot \/ LoadByte => Stage' > Stage \/ (Stage' = Stage /\ Waiting' < Waiting)]_vars

\* After such a boot, whatever reaches the output buffer is read, unless a call
\* went astray.
BytesAreRead == quiet /\ HasData(ctl) ~> (~HasData(ctl) \/ pc = "wild")

\* A request of the keyboard's line, latched or being answered, has the byte it was
\* made for in the buffer, and there is one of them.
Balanced ==
  /\ 1 \in pending \/ pc = "kb_isr" => 1 \in Wires(ctl)
  /\ ~(1 \in pending /\ pc = "kb_isr")

\* The bytes of the mouse that nothing has read yet, the output buffer's first.
Ahead == (IF ctl.full /\ ctl.out.src = "aux" THEN <<ctl.out>> ELSE <<>>) \o ctl.aux

Lengthened == Len(Ahead') >= Len(Ahead) /\ SubSeq(Ahead', 1, Len(Ahead)) = Ahead

\* The first of them goes into the packet in assembly.
Assembled ==
  /\ Ahead # <<>> /\ Ahead' = Tail(Ahead)
  /\ ms'.buffer[ms.offset + 1] = Head(Ahead).val /\ ms'.offset = (ms.offset + 1) % 3

\* The keyboard's handler, which reads port 0x60 whatever is in it, takes a byte of
\* the mouse or an old byte only because of requests left over from the boot: once
\* interrupts are on and each request has its byte, that stays so, though both
\* devices share the buffer, requests are latched while others are served and the
\* mouse's handler may be called for a byte that is gone.  From then on no byte of
\* the mouse is lost, overtaken or taken twice, nor one of the keyboard's taken for
\* one: they stay in their order until the mouse's handler puts the first of them
\* into the packet, which is what module MouseDriver takes for granted.
BytesReachTheirDriver ==
  [][live /\ Balanced =>
       /\ Balanced'
       /\ \/ Lengthened /\ ms' = ms
          \/ pc = "ms_isr" /\ Assembled]_vars

\* Of all that the drivers are given as handlers, only the width of the desktop is ever
\* called outside the kernel, and nothing is before interrupts are on, though a
\* driver is "activated" by its interrupt handler and the tables are exchanged while
\* the mouse is sending.
OnlyWidthCalled == jumped \subseteq IF live THEN {desktop.w} ELSE {}

\* The handlers that the drivers call are code of the kernel.
CallsStayInKernel == jumped = {}

\* The keyboard's handler runs for keys.
KeyboardHandlesKeys ==
  took # <<>> /\ took[1] = "keyboard" => took[3] /\ took[2].what = "scan"

\* Activating the drivers is not an interrupt: nothing is read from the devices.
ActivationReadsNothing == ~live => took = <<>>
=============================================================================
