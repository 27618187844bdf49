------------------------------- MODULE Kernel -------------------------------
(***************************************************************************)
(* kernelMain (src/src/kernel.c) from its first line to its drawing loop:  *)
(* segment descriptors, text console, PCI scan, the switch to mode 13h,    *)
(* and the drawing of the desktop, with exceptions and interrupts between  *)
(* the steps of each pixel.  The two input drivers are the subject of      *)
(* module InputPath, the interrupt controllers that of module Interrupts;  *)
(* here interrupts are those HandleInterrupt has no driver for.            *)
(*                                                                         *)
(* Interrupts are off until sti, so an action is a loop iteration before   *)
(* sti; after it, an access to the adapter or a store.                     *)
(***************************************************************************)
EXTENDS VGA, TextConsole, PCI, SegmentDescriptors, InterruptFrame, FiniteSets

CONSTANTS
  Configs,         \* configuration spaces: FunctionId -> ConfigSpace, in part
  Buses, Devices,  \* 8 and 32 in the code
  FirmwareCards,   \* states the firmware may leave the adapter in
  SampleWindows,   \* x, y, w, h, rgb of the windows, in the order they are added
  Vectors,         \* of exceptions, and of interrupts without a driver
  MaxInterrupts,   \* bound: interrupts taken
  MaxNesting       \* bound: interrupts in progress

Rectangle == [x : Int, y : Int, w : Nat, h : Nat, rgb : Byte \X Byte \X Byte]

ASSUME KernelAssumption ==
  /\ \A c \in Configs : DOMAIN c \subseteq FunctionId /\ c \in [DOMAIN c -> ConfigSpace]
  /\ Buses \in 1 .. 256 /\ Devices \in 1 .. 32
  /\ FirmwareCards \subseteq Card
  /\ SampleWindows \in Seq(Rectangle)
  /\ Vectors \subseteq (0 .. 19) \union ((32 .. 47) \ {33, 44})
  /\ MaxInterrupts \in Nat /\ MaxNesting \in Nat

VARIABLES
  cpu,             \* the processor and its stack
  gdt,             \* the descriptor table of the last lgdt
  con,             \* cursor_X, cursor_Y
  card,            \* the VGA adapter
  config,          \* what is on the PCI buses
  scan,            \* loop variables of pci_select_drivers
  found,           \* the functions it has logged
  drivers,         \* drvManger.drivers, as far as numDrivers
  reg,             \* loop variable of vga_write_registers
  fill,            \* widget being drawn, curr_x and curr_y
  screen,          \* graphics memory
  drawn,           \* has a frame been completed?
  interrupted,     \* history: the machines interrupted, and why; the last first
  interrupts       \* counter for the bound

pci == <<config, scan, found, drivers>>
drawing == <<fill, screen, drawn>>
history == <<interrupted, interrupts>>
vars == <<cpu, gdt, con, card, pci, reg, drawing, history>>

\* What desktop_init and the loop of composite_widget_draw make visible, in order;
\* windows lie on the desktop, which lies at the origin.
Desktop == [x |-> 0, y |-> 0, w |-> Width, h |-> Height, rgb |-> <<0, 0, 168>>]

Scene == <<Desktop>> \o SampleWindows

Offsets == 0 .. Width * Height - 1

-----------------------------------------------------------------------------
(* GRUB enters with interrupts off and with its own selectors.             *)

Init ==
  /\ cpu = [eip |-> "start", cs |-> 16, iflag |-> 0,
            seg |-> [s \in SegmentRegisters |-> 24],
            gpr |-> [r \in GeneralRegisters |-> r], stack |-> <<>>]
  /\ gdt = <<>>
  /\ con = Home
  /\ card \in FirmwareCards
  /\ config \in Configs
  /\ scan = [bus |-> 0, device |-> 0, function |-> 0, functions |-> 0]
  /\ found = {}
  /\ drivers = <<>>
  /\ reg = 0
  /\ fill = [widget |-> 1, x |-> 0, y |-> 0]
  /\ screen = [o \in Offsets |-> 170]
  /\ drawn = FALSE
  /\ interrupted = <<>>
  /\ interrupts = 0

At(label) == cpu.eip = label

Goto(label) == cpu' = [cpu EXCEPT !.eip = label]

kprintf(lines) ==
  /\ con' = lines
  /\ card' = move_cursor(card, lines)

-----------------------------------------------------------------------------
(* Set-up                                                                  *)

\* init_gdt; lgdt reloads no segment register.
Start ==
  /\ At("start")
  /\ gdt' = GlobalDescriptorTable
  /\ kprintf(Line(Line(con, 26), 28))
  /\ Goto("drivers")
  /\ UNCHANGED <<pci, reg, drawing, history>>

\* driver_manager_add_driver; MAX_DRIVERS is 256.
AddDriver(table, driver) == IF Len(table) < 256 THEN Append(table, driver) ELSE table

\* init_driver_manager, vga_init, both input drivers, pci_init.
InitDrivers ==
  /\ At("drivers")
  /\ drivers' = AddDriver(AddDriver(<<>>, "keyboard"), "mouse")
  /\ kprintf(Line(Line(Line(con, 31), 28), 30))
  /\ Goto("device")
  /\ UNCHANGED <<gdt, config, scan, found, reg, drawing, history>>

-----------------------------------------------------------------------------
(* pci_select_drivers                                                      *)

\* A device of the two outer loops.
BeginDevice ==
  /\ At("device") /\ scan.bus < Buses
  /\ scan' = [scan EXCEPT !.function = 0, !.functions =
                IF pci_device_has_function(config, scan.bus, scan.device) THEN 8 ELSE 1]
  /\ Goto("function")
  /\ UNCHANGED <<gdt, con, card, config, found, drivers, reg, drawing, history>>

\* Is nothing there, by the vendor?
Absent(b, d, f) == Descriptor(config, b, d, f).vendor_id \in {0, MaxUint16}

NextDevice ==
  /\ scan' = IF scan.device + 1 < Devices THEN [scan EXCEPT !.device = @ + 1]
             ELSE [scan EXCEPT !.bus = @ + 1, !.device = 0]
  /\ Goto("device")
  /\ UNCHANGED <<gdt, con, card, config, found, drivers, reg, drawing, history>>

\* The loop over the functions ends, or is left at the first missing one.
EndDevice ==
  /\ At("function")
  /\ scan.function = scan.functions \/ Absent(scan.bus, scan.device, scan.function)
  /\ NextDevice

\* The body of the loop for a function that is there; pci_get_driver has no driver.
ScanFunction ==
  /\ At("function") /\ scan.function < scan.functions
  /\ ~Absent(scan.bus, scan.device, scan.function)
  /\ found' = found \union
       {[id |-> Id(scan.bus, scan.device, scan.function),
         portBase |-> PortBase(config, scan.bus, scan.device, scan.function)]}
  /\ kprintf(Line(con, LogLength(Descriptor(config, scan.bus, scan.device, scan.function))))
  /\ scan' = [scan EXCEPT !.function = @ + 1]
  /\ UNCHANGED <<cpu, gdt, config, drivers, reg, drawing, history>>

\* The end of the scan, driver_manager_activate_all (module InputPath says what the
\* Activate of the two drivers does), and the test in vga_set_mode.
Activate ==
  /\ At("device") /\ scan.bus = Buses
  /\ SupportsMode(Width, Height, 8)
  /\ kprintf(Line(con, 33))
  /\ Goto("misc")
  /\ UNCHANGED <<gdt, pci, reg, drawing, history>>

-----------------------------------------------------------------------------
(* vga_write_registers                                                     *)

SetMode(from, new, to) ==
  /\ At(from)
  /\ card' = new
  /\ Goto(to)
  /\ UNCHANGED <<gdt, con, pci, drawing, history>>

SetMisc == SetMode("misc", WriteMisc(card), "seq") /\ reg' = 0

\* A loop over the registers 0 .. last of a group.
Loop(from, new, last, to) ==
  /\ SetMode(from, new, IF reg < last THEN from ELSE to)
  /\ reg' = IF reg < last THEN reg + 1 ELSE 0

SetSequencer == Loop("seq", WriteSequencer(card, reg), 4, "unlock")

UnlockCRTC == SetMode("unlock", Unlock(card), "crtc") /\ reg' = 0

SetCRTC == Loop("crtc", WriteCRTC(card, reg), 24, "gc")

SetGraphicsController == Loop("gc", WriteGraphicsController(card, reg), 8, "ac")

SetAttributeController == Loop("ac", WriteAttributeController(card, reg), 20, "video")

SetVideo == SetMode("video", EnableVideo(card), "windows") /\ reg' = 0

\* Desktop, windows, and sti.
EnterDesktop ==
  /\ At("windows")
  /\ cpu' = [cpu EXCEPT !.eip = "fill", !.iflag = 1]
  /\ UNCHANGED <<gdt, con, card, pci, reg, drawing, history>>

-----------------------------------------------------------------------------
(* The drawing loop: composite_widget_draw fills the desktop, then each    *)
(* window, with the two loops of vga_fill_rectangle.                       *)

Drawn == Scene[fill.widget]

Moving(new) == fill' = new /\ UNCHANGED <<gdt, con, pci, reg, history>>

\* widget_default_draw; w and h are cast to int32_t, so x + w may be negative.
StartFill ==
  /\ At("fill")
  /\ Moving([fill EXCEPT !.x = Drawn.x, !.y = Drawn.y])
  /\ Goto("pixel")
  /\ UNCHANGED <<card, screen, drawn>>

\* Mutant: rows that start left of the screen are not drawn, as they were if w
\* stayed unsigned.
InRowUnsigned == fill.y < Drawn.y + Drawn.h /\ fill.x >= 0 /\ fill.x < Drawn.x + Drawn.w

\* Mutant: the last column is one too far.
InRowInclusive == fill.y < Drawn.y + Drawn.h /\ fill.x <= Drawn.x + Drawn.w

InRow == fill.y < Drawn.y + Drawn.h /\ fill.x < Drawn.x + Drawn.w

SkipPixel ==
  /\ At("pixel") /\ InRow /\ Clipped(fill.x, fill.y)
  /\ Moving([fill EXCEPT !.x = @ + 1])
  /\ UNCHANGED <<cpu, card, screen, drawn>>

\* vga_put_pixel_index, up to the write of the index register.
PutPixel ==
  /\ At("pixel") /\ InRow /\ ~Clipped(fill.x, fill.y)
  /\ card' = SelectMemoryMap(card)
  /\ Goto("segment")
  /\ UNCHANGED <<gdt, con, pci, reg, drawing, history>>

\* The read of the data register; the segment is returned in eax.
ReadSegment ==
  /\ At("segment")
  /\ cpu' = [cpu EXCEPT !.eip = "store", !.gpr["eax"] = FrameBufferSegment(card)]
  /\ UNCHANGED <<gdt, con, card, pci, reg, drawing, history>>

PixelAddress == cpu.gpr["eax"] + PixelOffset(fill.x, fill.y)

Store ==
  /\ At("store")
  /\ screen' = [o \in Offsets |-> IF GraphicsMemory + o = PixelAddress
                                  THEN ColorIndex(Drawn.rgb) ELSE screen[o]]
  /\ Moving([fill EXCEPT !.x = @ + 1])
  /\ Goto("pixel")
  /\ UNCHANGED <<card, drawn>>

\* Mutant: curr_x is not set back, so only the first row is drawn.
NextRowOnly ==
  /\ At("pixel") /\ ~InRow /\ fill.y < Drawn.y + Drawn.h
  /\ Moving([fill EXCEPT !.y = @ + 1])
  /\ UNCHANGED <<cpu, card, screen, drawn>>

NextRow ==
  /\ At("pixel") /\ ~InRow /\ fill.y < Drawn.y + Drawn.h
  /\ Moving([fill EXCEPT !.x = Drawn.x, !.y = @ + 1])
  /\ UNCHANGED <<cpu, card, screen, drawn>>

\* Mutant: the children are never reached.
NextWidgetFirst ==
  /\ At("pixel") /\ fill.y >= Drawn.y + Drawn.h
  /\ Moving([fill EXCEPT !.widget = 1])
  /\ drawn' = TRUE
  /\ Goto("fill")
  /\ UNCHANGED <<card, screen>>

\* The next child, or the next frame.
NextWidget ==
  /\ At("pixel") /\ fill.y >= Drawn.y + Drawn.h
  /\ Moving([fill EXCEPT !.widget = IF @ < Len(Scene) THEN @ + 1 ELSE 1])
  /\ drawn' = (drawn \/ fill.widget = Len(Scene))
  /\ Goto("fill")
  /\ UNCHANGED <<card, screen>>

-----------------------------------------------------------------------------
(* Interrupts                                                              *)

Drawing  == {"fill", "pixel", "segment", "store"}
Handling == {"HandleInterrupt", "int_bottom"}

\* An exception or the non-maskable interrupt, or, with IF on, a line.
Interrupt(v) ==
  /\ cpu.eip \in Drawing \union Handling
  /\ v >= 32 => cpu.iflag = 1
  /\ interrupts < MaxInterrupts /\ Len(interrupted) < MaxNesting
  /\ cpu' = Enter(cpu, v)
  /\ interrupted' = <<[machine |-> cpu, vector |-> v]>> \o interrupted
  /\ interrupts' = interrupts + 1
  /\ UNCHANGED <<gdt, con, card, pci, reg, drawing>>

HexDigits(n) == IF n < 16 THEN 1 ELSE 2

\* The branches of HandleInterrupt for the timer and for what has no driver.
HandleInterrupt ==
  /\ At("HandleInterrupt")
  /\ IF ArgInterrupt(cpu) = 32 THEN UNCHANGED <<con, card>>
     ELSE kprintf(Line(con, 23 + HexDigits(ArgInterrupt(cpu))))
  /\ cpu' = ReturnEsp(cpu)
  /\ UNCHANGED <<gdt, pci, reg, drawing, history>>

Return ==
  /\ At("int_bottom")
  /\ cpu' = Leave(cpu)
  /\ interrupted' = Tail(interrupted)
  /\ UNCHANGED <<gdt, con, card, pci, reg, drawing, interrupts>>

-----------------------------------------------------------------------------

SetUp ==
  \/ Start \/ InitDrivers \/ BeginDevice \/ EndDevice \/ ScanFunction \/ Activate
  \/ SetMisc \/ SetSequencer \/ UnlockCRTC \/ SetCRTC \/ SetGraphicsController
  \/ SetAttributeController \/ SetVideo \/ EnterDesktop

Draw ==
  StartFill \/ SkipPixel \/ PutPixel \/ ReadSegment \/ Store \/ NextRow \/ NextWidget

Execute == SetUp \/ Draw \/ HandleInterrupt \/ Return

Next == Execute \/ \E v \in Vectors : Interrupt(v)

\* The processor executes; nothing is assumed of interrupts.
Spec == Init /\ [][Next]_vars /\ WF_vars(Execute)

-----------------------------------------------------------------------------
(* Properties                                                              *)

Labels == {"start", "drivers", "device", "function", "misc", "seq", "unlock", "crtc",
           "gc", "ac", "video", "windows"} \union Drawing \union Handling

\* Every variable has its type; the registers, which hold whatever was left in them,
\* have none.
TypeOK ==
  /\ cpu.eip \in Labels /\ cpu.cs \in {16} /\ cpu.iflag \in {0, 1}
  /\ DOMAIN cpu.gpr = GeneralRegisters /\ DOMAIN cpu.seg = SegmentRegisters
  /\ gdt \in Seq(SegmentDescriptor)
  /\ con \in [x : 0 .. Columns - 1, y : Nat]
  /\ card \in Card
  /\ config \in Configs
  /\ scan \in [bus : 0 .. Buses, device : 0 .. Devices - 1, function : 0 .. 8, functions : 0 .. 8]
  /\ \A f \in found : f.id \in FunctionId
  /\ drivers \in Seq({"keyboard", "mouse"})
  /\ reg \in 0 .. 24
  /\ fill \in [widget : 1 .. Len(Scene), x : Int, y : Int]
  /\ screen \in [Offsets -> Byte]
  /\ drawn \in BOOLEAN
  /\ Len(interrupted) <= MaxNesting /\ interrupts \in 0 .. MaxInterrupts

\* Does a function answer, by the vendor?
Answers(c, id) == id \in DOMAIN c /\ c[id].vendor \notin {0, MaxUint16}

There(b, d, f) == Answers(config, Id(b, d, f))

\* The hardware there is: a device has a function 0, and has others only if that
\* one says so.
Installed ==
  {id \in DOMAIN config :
     /\ id.bus < Buses /\ id.device < Devices
     /\ There(id.bus, id.device, id.function)
     /\ id.function > 0 =>
          There(id.bus, id.device, 0) /\ config[Id(id.bus, id.device, 0)].multi}

\* When the scan ends, it has found every function of every device on the buses it
\* scans and no others: not on a device that is absent, which reads as
\* multi-function, and none of a device with one function that answers at eight.
\* A device whose functions are numbered with a gap shows where this ends.
ScanFindsAll ==
  cpu.eip \notin {"start", "drivers", "device", "function"}
    => {f.id : f \in found} = Installed

\* The I/O base noted for a function is one of its base addresses, and one with the
\* bit of I/O set, although the scan asks for six and a bridge has other things
\* behind its two, and types above have none.
PortsAreBaseAddresses ==
  \A f \in found : f.portBase # Uninitialised =>
    LET c == config[f.id] IN
    \E b \in 1 .. (IF c.type = 0 THEN 6 ELSE IF c.type = 1 THEN 2 ELSE 0) :
      /\ c.bars[b][1] % 2 = 1
      /\ f.portBase = [c.bars[b] EXCEPT ![1] = 4 * (@ \div 4)]

\* During the scan every function logged has taken exactly one line, whatever its
\* names, and the cursor blinks at the start of the next.
OneLineEach ==
  cpu.eip \in {"device", "function"} =>
    /\ con = [x |-> 0, y |-> 5 + Cardinality(found)]
    /\ HardwareCursor(card) = Location(con) % 65536

\* From the end of vga_set_mode on, every register of the adapter has the value of
\* the table, however the firmware left the lock, the attribute port and the
\* registers, and whatever handlers print; only the two of the cursor change.
ModeSet ==
  cpu.eip \in {"windows"} \union Drawing \union Handling =>
    /\ card.misc = MISC /\ card.seq = SEQ /\ card.gc = GC /\ card.ac = AC
    /\ \A r \in 0 .. 24 : r \in {14, 15} \/ card.crtc[r] = CRTC[r]
    /\ card.video /\ card.acValue

\* Every store of the drawing loop goes to the pixel meant, although an interrupt
\* can come between the index write, the data read and the store.
StoresOnScreen ==
  At("store") => /\ PixelAddress - GraphicsMemory \in Offsets
                 /\ PixelAddress = GraphicsMemory + Width * fill.y + fill.x

\* The colour of the widget drawn last of those that cover a point.
SceneAt(x, y) ==
  LET covering == {k \in 1 .. Len(Scene) :
                     /\ Scene[k].x <= x /\ x < Scene[k].x + Scene[k].w
                     /\ Scene[k].y <= y /\ y < Scene[k].y + Scene[k].h}
  IN ColorIndex(Scene[CHOOSE k \in covering : \A j \in covering : j <= k].rgb)

\* Whenever a frame is complete, the screen shows the scene, windows cut at its
\* edges, interrupts notwithstanding.
FrameShowsScene ==
  drawn /\ At("fill") /\ fill.widget = 1
    => screen = [o \in Offsets |-> SceneAt(o % Width, o \div Width)]

\* An interrupt that returns leaves the machine as it was, at every depth, with an
\* error code or without.
InterruptsTransparent ==
  [][Len(interrupted') < Len(interrupted)
       => cpu' = interrupted[1].machine /\ interrupted' = Tail(interrupted)]_vars

\* HandleInterrupt is called with the vector that was raised.
VectorReachesHandler ==
  At("HandleInterrupt") => ArgInterrupt(cpu) = interrupted[1].vector

\* Where int_bottom and iret reload them, the selectors GRUB left and the one in the
\* gates name flat segments of the kernel's own table, which was loaded without
\* reloading them.
SelectorsValid ==
  cpu.eip # "start" =>
    /\ cpu.cs = get_code_segment
    /\ Selects(gdt, cpu.cs) /\ IsCode(Selected(gdt, cpu.cs)) /\ Flat(Selected(gdt, cpu.cs))
    /\ \A s \in SegmentRegisters :
         /\ cpu.seg[s] = get_data_segment /\ Selects(gdt, cpu.seg[s])
         /\ IsData(Selected(gdt, cpu.seg[s])) /\ Flat(Selected(gdt, cpu.seg[s]))

-----------------------------------------------------------------------------
(* The drawing loop implements module Painting.  What the kernel itself is *)
(* doing is told by the machine below all interrupts.                      *)

Depth == Len(interrupted)

\* The machine in progress (0) and those it has interrupted.
M(k) == IF k = 0 THEN cpu ELSE interrupted[k].machine

Base == M(Depth)

Widgets == 1 .. Len(Scene)

Covers(k, o) ==
  /\ Scene[k].x <= o % Width /\ o % Width < Scene[k].x + Scene[k].w
  /\ Scene[k].y <= o \div Width /\ o \div Width < Scene[k].y + Scene[k].h

Area(k) == {o \in Offsets : Covers(k, o)}

Color(k) == ColorIndex(Scene[k].rgb)

Filling == {"pixel", "segment", "store"}

\* In the order of the loops, point o comes before (x, y).
Passed(o, x, y) == o \div Width < y \/ (o \div Width = y /\ o % Width < x)

PassedOf(k, x, y) == {o \in Area(k) : Passed(o, x, y)}

Done == IF Base.eip \in Filling THEN PassedOf(fill.widget, fill.x, fill.y) ELSE {}

Frame == INSTANCE Painting WITH
  Points <- Offsets,
  Count  <- Len(Scene),
  Areas  <- [k \in Widgets |-> Area(k)],
  Colors <- [k \in Widgets |-> Color(k)],
  canvas <- screen, shape <- fill.widget, painted <- Done

\* Every store paints a point of the widget in hand that has not been painted yet, in
\* its colour; a point outside the widget is never touched, and the next widget is
\* begun only when every point of this one that is on the screen has been painted;
\* whatever handlers run between the accesses of a pixel.
PaintsFrames == Frame!Spec

\* What is left of the widget in hand: its start, rows, pixels of the row, accesses of
\* the pixel, and handlers to return from.
StartLeft    == IF Base.eip = "fill" THEN 1 ELSE 0
RowsLeft     == Drawn.y + Drawn.h - fill.y
PixelsLeft   == Drawn.x + Drawn.w - fill.x
AccessesLeft == IF Base.eip = "pixel" THEN 2 ELSE IF Base.eip = "segment" THEN 1 ELSE 0
HandlersLeft == 2 * Depth - IF At("int_bottom") THEN 1 ELSE 0

Left == <<StartLeft, RowsLeft, PixelsLeft, AccessesLeft, HandlersLeft>>

\* One of them has gone down, not below zero, and those before it are as they were.
Less(new, old) ==
  \E i \in DOMAIN new : /\ 0 <= new[i] /\ new[i] < old[i]
                        /\ \A j \in DOMAIN new : j < i => new[j] = old[j]

\* No turn of the drawing loops is for nothing: each step of them and of a handler
\* leaves less to do or ends the widget, so a frame ends unless interrupts never
\* pause; however a widget lies, on the screen, across its edges or off it.
FramesAdvance ==
  [][Draw \/ HandleInterrupt \/ Return => NextWidget \/ Less(Left', Left)]_vars

\* Every widget is drawn again and again, once interrupts pause.
DrawsForever == \A k \in 1 .. Len(Scene) : []<>(At("fill") /\ fill.widget = k)

\* The console's text stays in the adapter's memory (the comment at kernel.c:45).
TextInVideoMemory == TextMemory + 2 * Location(con) <= TextMemoryEnd
=============================================================================
