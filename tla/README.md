# A verification project for TeeOS

TeeOS is a small 32-bit x86 kernel in C: a GRUB loader enters `kernelMain`,
which sets up segments and interrupts, two PS/2 drivers, scans PCI, switches the
VGA to mode 13h and then draws a desktop with two windows for ever.  Everything
that happens after that happens in interrupt handlers.

This directory holds TLA+ modules translated from that code, TLC configurations
that check them on small instances, and proofs that TLAPS checks for all values
of their constants.  `PROJECT.json` lists, for each definition, the lines of the
code it stands for.

## 1. Inventory

| component | code | state | operations | modelled in |
|---|---|---|---|---|
| interrupt manager | `hardwarecommunication/interrupts.c` | `interruptDescriptorTable`, `activeInterruptManager` (handler table, PIC ports) | `init_interrupt_manager`, `activate_interrupts`, `HandleInterrupt` | `Interrupts`; what it prints and returns in `Kernel` |
| stubs | `interruptstubs.s` | the frame on the stack | 20 exception stubs, 16 IRQ stubs, `int_bottom`, `InterruptIgnore` | `InterruptFrame` (word by word), `Interrupts` (numbers and return) |
| keyboard driver | `drivers/keyboard.c` | handler pointer, ports | `init_keyboard_driver`, `handle_keyboard_interrupt`, `keyboard_activate` (unused) | `InputPath` |
| mouse driver | `drivers/mouse.c` | handler pointer, `buffer`, `offset`, `buttons` | `init_mouse_driver`, `handle_mouse_interrupt` | `MousePackets`, `MouseDriver`, `InputPath` |
| driver manager | `drivers/driver.c` | table of at most 256 drivers | add, activate all | `Kernel` (table), `InputPath` (activation of the two drivers) |
| kernel entry | `kernel.c` | globals of all the above | `kernelMain` | `Kernel`; its input side, with devices, in `InputPath` |
| text console | `kernel.c` | `cursor_X`, `cursor_Y`, text mouse position | `kprintf`, `move_cursor`, text-mode handlers | `TextConsole` (positions) |
| VGA | `drivers/vga.c` | the adapter's registers, frame buffer | mode set, put pixel, fill | `VGA`, over the adapter `VGACard`; its loops in `Kernel` |
| GUI | `gui/*.c` | widget tree, focus, drag flags, mouse position | init, add child, mouse and key events, draw | `Windows`; drawing, pixel by pixel, in `Kernel`; object layout in `InputPath` |
| PCI | `hardwarecommunication/pci.c` | configuration space (device side) | scan, base address registers, log | `PCI`; its loops in `Kernel` |
| segment descriptors | `gdt.c` | descriptor table | encode, decode, `init_gdt` | `SegmentDescriptors`; `Kernel` |
| ports | `hardwarecommunication/port.c` | none | one `in`/`out` each | `Ports`; an access is what the device's module says |
| loader | `loader.s`, `linker.ld` | stack, load address | jump to `kernelMain` | load address only |

How they interact:

* *Shared state.*  There is one processor and no lock.  `kernelMain` and the
  interrupt handlers share the driver structures, the controllers, the adapter's
  registers and the screen.  Interrupts are off (IF = 0) from the loader to
  `activate_interrupts`, and again in every handler, because all gates are
  interrupt gates; exceptions and the non-maskable interrupt come all the same.
* *Calls.*  `HandleInterrupt` looks into `handlers[]` (nothing in the repository
  ever registers there), then calls the keyboard's or the mouse's handler by
  number, and prints a line for what has no driver.  The drivers call the event
  handler they were given at initialisation through a table of function pointers.
* *The stack.*  An interrupted machine is on the stack: three or four words of the
  processor, one or two of the stub, twelve of `int_bottom`, two arguments.
* *Devices.*  Both PS/2 devices share one 8042 controller with a single output
  buffer.  It raises line 1 or 12 of a cascaded pair of 8259A chips, which latch
  edges.  The VGA has register files behind pairs of an index and a data port, a
  lock on some of them, and one port that takes index and value in turn.

What is hard:

* *Interleaving.*  Devices act between any two instructions: during the polled
  initialisation, during a handler, between a request and its acknowledge cycle.
  A handler prints, and so writes to the adapter, between the index write, the
  data read and the store of one pixel.
* *Staleness.*  A latched request outlives the byte that caused it.  The byte
  read as "the configuration" may be something else.  What the firmware left in
  the adapter decides whether a write takes effect.
* *Ordering and loss.*  The mouse's packets have no framing but one bit; a byte
  taken by the keyboard's handler puts the assembly out of step for good.
* *Time-outs.*  The mouse driver's waits give up silently and skip one byte of a
  command sequence.
* *Agreement of constants.*  The vector of a line is written down in four
  places, the shape of the frame in three, selectors in the loader of another
  program and in two files of this one.  Objects are cast to structs with another
  layout.
* *Arithmetic.*  Signed coordinates plus unsigned sizes; bit fields of
  descriptors; base addresses that are none; lines that never scroll.
* *Liveness.*  An edge that is latched nowhere, or an end-of-interrupt that goes
  to the wrong chip, stops all input, silently, some time later.

What makes each component correct:

* interrupt manager: every line reaches its own driver; each interrupt is
  retired at exactly the chips that hold it; nothing is delivered before the
  tables are ready; what is requested is served, the most urgent first.
* stubs: the handler gets the vector that was raised, and what was interrupted
  goes on as if nothing had happened, at every depth.
* mouse driver: each report is delivered once, in order, with its meaning;
  presses and releases alternate even if bytes get lost, and an initialisation
  parts handler and driver by no more than the buttons it sets back.
* keyboard driver: its handler takes the bytes of keys and no others.
* kernel entry: both devices end up enabled with their interrupts; the boot
  ends; handlers that are called are code.
* VGA: after the mode set every register has its value, whatever was there;
  a pixel goes where it belongs or nowhere; a complete frame shows the scene.
* GUI: the widget that is visible gets the click, a drag follows the pointer and
  ends with its release.
* PCI: every function of a device is found once, one line each (which the scan
  misses where a device leaves a gap in their numbers); what is taken for a port
  address is one.  Descriptors: the processor reads what was
  meant, and the selectors in use stay valid.

## 2. Modules

```
PIC8259 ----------> Interrupts ----implements----> InterruptDelivery
                        |                                |
                 InterruptsProofs                        | (INSTANCE)
                                                         v
MousePackets ------> I8042 ---------------------->  InputPath
     |                                                   |
     |                                            InputPathProofs
     +-------------> MouseDriver ----implements--> MouseReports
                        |
                 MouseDriverProofs

Windows ------> WindowsProofs

Ports -+-> VGACard -+-> VGA ----------+
       |            +-> TextConsole --+
       +-> PCI -----------------------+---> Kernel ---+----implements----> Painting
           SegmentDescriptors --------+               |
           InterruptFrame ------------+               v
                 |                                KernelProofs -> ScanProofs
                 +---- HardwareProofs ----------------^               |
                                                                DrawingProofs
```

**PIC8259**, **I8042** and **VGACard** are the three chips, as far as TeeOS
programs them: records, and operators for what a port write or a line does to
them.  They are hardware, so they are modelled from the bytes the code writes and
the bits it tests, and marked external in the map.

**Interrupts** follows the processor: `pc` walks through
`init_interrupt_manager` (one step for the tables, one per byte written to the
chips, one for `lidt`), `activate_interrupts`, and then the path of an interrupt,
`Accept` (acknowledge cycle and gate) - `Dispatch` (the branch of
`HandleInterrupt`) - `SlaveEOI` - `MasterEOI` - `Iret`.  `Raise` is a device,
`AcceptSpurious` a line dropped before the acknowledge cycle, `Fault` an
exception of kernel code.  What a driver does inside its call is one step here.

**InterruptDelivery** is what the drivers may rely on, an abstract specification
with no code of its own: a set of pending lines, at most one being served, the
most urgent first.  `Interrupts` implements it with
`pending` the two request registers, `serving` the two in-service registers
without the cascade, and `live` true from `sti` on (also inside handlers, hence
`IFlag \/ savedIF`).

**MousePackets** holds the pure part of `handle_mouse_interrupt`.
**MouseDriver** is the driver over a queue of bytes: `InitDriver` is
`init_mouse_driver` (with however many of its six acknowledgements are still
to be read, and before them perhaps a byte that came after the drain loop, which
counts as a loss since the rest of its packet is gone), `HandleMouseInterrupt` is
one interrupt, `SendPacket` and `LoseByte` are the environment.  `told` and
`stuck` are history variables: the buttons each event handler has been told are
down, for good, since no initialisation tells it anything; and those of them that
the last initialisation has set back in the driver.

**MouseReports** is the promise of a mouse driver: reports in flight, delivered
one by one, and what is left of the promise once a byte is lost.  `MouseDriver`
implements it for movements from -127 to 127; the refinement mapping reads the
bytes in assembly and in the queue as reports.

**InputPath** puts the input side together: `kernelMain` as a program counter
through both initialisations of both drivers, `driver_manager_activate_all` in
between, then the drawing loop with its interrupts.  Requests, priority and
service are written with the actions of `InterruptDelivery`, in place of the
chips, the gates and the stubs, which `Interrupts` shows to implement it.  Event
handler tables are tables of *addresses*, since
the code casts the desktop to such a table; `Call` notes the addresses below the
kernel, and lets execution continue or not (`pc = "wild"`).  At the labels in
`Hurry` the processor does not wait until the controller has moved a waiting byte
to its output buffer; elsewhere the code's delay loops are taken to be long
enough.  `Stall` is a wait of the mouse driver that times out.

**Windows** is the GUI.  `Parent` and `Place` are the arguments of the
initialisers, `Draggable` the windows whose owner has put the handlers of
`window.c` in their table of function pointers (`window_init` does not, and
`kernelMain` does so for neither of its windows).  The actions are
`composite_widget_add_child` and the desktop's three mouse events, each with the
whole dispatch down the tree: `Under` is the loop over the children with its
break, `Focus` the calls of `get_focus` up to the root.  A press passes the
point on made relative to each composite (`Minus`); drawing adds the positions
up (`OnScreen`), and `Shown` is what the order of drawing leaves visible.
`clicked` is a history variable.  A widget's null pointers are events that
nobody gets: key and release handlers of plain widgets, and everything but the
composite's dispatch in a window that is not in `Draggable`.  What makes the
handlers of the desktop run - a cast in `kernelMain` that does not - is the
subject of `InputPath`.

**Kernel** is `kernelMain` from its first line to its drawing loop, with
interrupts from there on.  Its variable `cpu` is a machine as in
**InterruptFrame**: where it executes, code segment, interrupt flag, the general
and segment registers and the stack, word by word.  `Enter` is gate, stub and the
first half of `int_bottom`; `ReturnEsp` is what `HandleInterrupt` returns, with
`eax`, `ecx` and `edx` overwritten as a C function may; `Leave` is the second
half of `int_bottom`.  Each of these is one step, and exceptions (as the
non-maskable interrupt) can come before any step of the drawing loop and of
another interrupt, so frames nest.  `interrupted` is a history variable: the
machines that were interrupted, and by which vector.

The scan of the PCI buses is three actions, one per way through the body of its
loops (`BeginDevice`, `ScanFunction`, `EndDevice`); **PCI** has `pci_read` with its
masks and shifts, the conversions on assignment, base addresses and the length of
what is logged.  The mode set is one step per register; **VGA** has the tables of
`vga_set_mode` and what a write of each loop does to a `VGACard`.  Drawing a
pixel is three steps, at each of which an interrupt may come: `PutPixel` writes
the index register, `ReadSegment` reads the data register and returns the segment
in `eax`, `Store` uses it.  `SkipPixel` is the clipping test of
`vga_put_pixel_index`, which also stops what lies off the screen of a window.
**TextConsole** counts characters: `kprintf` is the position of the cursor and
the cursor registers of the adapter, which handlers change after the mode set as
before.  **SegmentDescriptors** encodes and decodes descriptors as the code does,
and says what the processor makes of one.

**Painting** is what a drawing loop over solid shapes promises: the shapes one
after the other, each painted at points of its own not painted before, in its
colour, and left only when all of them are.  It knows no rows, columns, accesses,
clipping or interrupts.  `Kernel` implements it (`PaintsFrames`) with `screen` as
the canvas, the points of a widget that are on the screen as its shape, and as
`painted` those that its two loops have passed (`Done`).  Where the loops are is
asked of `Base`, the machine below all interrupts.

The MC modules give the constants their values.  Operators whose comment begins
with "Mutant" are plausible slips in the definition below them: each property of
a passing run fails when the definition is replaced by its mutant.

## 3. Runs

Passing runs:

| run | question | bounds |
|---|---|---|
| `interrupts` | safety, refinement and liveness of the interrupt system | lines 1, 7, 12, 15; unbounded in time: every state is finite as it is |
| `mouse` | do presses and releases stay paired under loss, discarded packets, leftover acknowledgements and a second initialisation, with the same handler or another, and is each report delivered, once, in order, as meant, while nothing is lost? | 2 packets, 1 lost byte, 2 initialisations, handlers with and without each function, movements -127 and 0 |
| `input` | does the boot end, is no wake-up lost under any input during it, does an undisturbed boot leave both devices enabled and every byte read, and which wild calls are made? | 3 firmware configurations, 1 key, 1 packet, 1 time-out, drain limit reached or not |
| `windows` | do clicks, focus and dragging agree with what is drawn, wherever windows were dragged, and does a drag end? | desktop 5 x 3, 2 windows, 3 widgets, table of 2, movements -5, 0, 12 |
| `kernel` | from the first line of `kernelMain` to a drawn screen: scan, mode set, pixels, interrupts; does the drawing loop implement `Painting`, and each of its steps get it further? | screen 4 x 3, 2 windows over its edges, 5 PCI configurations on 2 buses of 2 devices, 4 states of the adapter, vectors 2, 13, 32 and 46, 3 interrupts, 2 deep |

Why the bounds are enough.  The lines are the keyboard's and the mouse's, and
the two that share a vector with spurious interrupts, so master and slave each
have a driver's line and an ambiguous one; the theorems cover all other sets.
Two packets and one lost byte reach every offset with every packet before it, and
put the assembly out of step with a discarded packet; two initialisations are
what `kernelMain` does.  One key and one packet (three bytes) besides the
fourteen acknowledgements of the boot put bytes of both devices in the
controller together at every step.  `DrainTimeout` is 100000 in the code: 8 is
never reached (as 100000 would not be), 1 is, so both exits of the loop are taken.

In `windows`, the windows overlap at first and can be
dragged apart, under and beyond each other and half off the screen; one button
sticks out of its window; the desktop's table holds two of its three widgets, so
one is always refused; a movement is a step, or a jump the edge cuts short, and
truncation by 4 matters for -5.

In `kernel`, one window begins left of the screen and one ends right of it and
below it, they overlap, and the desktop lies under both.  The PCI configurations
are: nothing; three functions in a row; a single-function device that
answers twice; a bridge, and on the second bus a device with the longest log line;
a function without its first.  None has a gap in the functions of a device:
what happens there is said below.  The adapter's registers are locked or not, and its
attribute port waits for an index or a value.  Vector 13 has an error code, 2
none, 32 is the timer (handled without a word), 46 a line without a driver: all
four branches that need no driver.  Two deep is a handler interrupted by an
exception; three interrupts make a second one after a nested pair.  The theorems
cover every depth, screen, scene and configuration.

Fairness.  `Interrupts`: the processor executes boot code, handlers and the
acknowledge cycle; nothing is assumed of devices or faults.  `Fault` is possible
only when no request can be taken, as the processor looks for requests between
instructions, so faults cannot starve interrupts.  `MouseDriver`: a byte in the
buffer is eventually handled, which is what `Interrupts` and `InputPath` show.
`InputPath`: the processor executes and the controller passes on the bytes it
holds; the keyboard and the mouse may stop at any time.  `Kernel`: the processor
executes, and nothing is assumed of interrupts - but they are bounded, so
`DrawsForever` says what happens when they pause.

Deadlock is checked in `interrupts`, `windows` and `kernel`.  It is not in the others:
there the environment is bounded, the drawing loop has no state, and a wild jump
ends the behaviour.

Properties worth reading first: `NothingLeftInService` (a forgotten in-service
bit silences lower lines), `VectorNamesLine` and `DriverMatchesLine` (the four
places that fix a line's vector), `DeliversInterrupts`, `ToldMatchesButtons`,
`DeliversReports`, and `NoLostWakeup` - a byte in the output buffer whose edge
was already consumed would end all input; it does not happen, although the boot
reads the buffer behind the controllers' back, because every handler either
empties the buffer or leaves it to a request that is latched.

In `InputPath`: `BytesReachTheirDriver` says when the keyboard's handler, which
never looks whose byte it reads, is right all the same: once each of its
requests has the byte it was made for, no key, movement or late byte can make it
wrong again - what `input_steal` finds is made by the boot. It is also what
module `MouseDriver` takes for granted of the path: from then on no byte of the
mouse is lost, overtaken or taken twice between the two queues, the one buffer
and the handler that asks the status for bit 5, and each goes to its place in
the packet. `OnlyWidthCalled` bounds what `input_stray` finds: of all the words
that are called as code, one is none, and not before `sti`. `BootAdvances` says
what the boot's loops wait for: each of their turns takes a byte off the
devices' hands.

In `MouseDriver`: `ToldMatchesButtons` compares what a handler was told, over its
whole life, with what the driver holds.  Lost bytes, packets out of step and
discarded ones never part the two.  A second `init_mouse_driver` does: it sets the
buttons to 0 and calls nothing of the handler.  If the same handler is given
again while a button is down, and the button is released before the next packet,
no release follows; if it is still down, a second press comes first.  The property
says that this is all: the difference is `stuck`, exactly the buttons set back,
and it never grows after the initialisation.  `PressReleaseAlternate` says the
same of the calls.  `kernelMain` gives another table the second time, and no
comment promises a release, so this is no finding.

In `Windows`: `ClickGoesToShown` relates two computations of a widget's place,
one top down in the dispatch and one bottom up in the drawing, after any history
of dragging; `DraggedFollowsPointer` says a window never loses its grip although
it is told only of movements that begin or end inside it; `ReleaseEndsDrag` when
it lets go: at the release, unless another child of the desktop takes that;
`KeysFollowClicks` that the focus pointers, one per composite, always make a path
to the widget clicked last.  `ClickGoesToShown` leaves out the points where
siblings overlap: there the first child gets the click and the last one is seen.

In `Kernel`: `FrameShowsScene` compares the screen after a complete frame with
the scene, through clipping, signed coordinates, the order of drawing and every
interrupt on the way; `StoresOnScreen` is about the pixel being drawn when a
handler comes between the index write, the data read and the store.  That works
because `kprintf` uses the CRT controller and not the graphics controller, and
because of `InterruptsTransparent`: an interrupt that returns leaves registers,
flag, selectors and stack as they were, at every depth, with an error code or
without.  `ModeSet` holds from any state of the adapter; `SelectorsValid` holds
only since GRUB's selectors happen to name the right entries of a table that is
loaded without reloading them.  `PaintsFrames` says of every store what
`FrameShowsScene` says of complete frames only: no point is painted twice in a
frame, none outside its widget at any time, none left out.  `FramesAdvance` gives
the measure by which a frame ends - rows, pixels of the row, accesses of the
pixel, handlers to return from, in that order - also for widgets that lie off the
screen or have no pixels.  `ScanFindsAll` compares what the scan has found with
the functions there are.

Runs that end in a counterexample, each against a line of the repository:

| run | what the code does |
|---|---|
| `mouse_far` | a movement of 200 counts arrives as -56: the ninth bit is dropped by the cast of `mouse.c:177` |
| `mouse_acks` | the acknowledgements (0xFA, bit 3 set) of the six commands are never read and become a movement and a press |
| `input_stray` | the desktop is cast to a table of mouse handlers, so a movement calls address 320, its width; as keyboard table it has two null words, so keys are dropped |
| `input_steal` | a request of the keyboard left over from the boot makes its handler, which looks at no status, take a byte that is not a key |
| `input_activate` | activating the drivers calls the mouse's interrupt handler, because the first word of the struct is not `Activate` |
| `input_config` | a mouse report that arrives during the initialisation is taken for the configuration byte and written back |
| `kernel_text` | `kprintf` never scrolls: two hundred lines, one for each interrupt without a driver, take it past the adapter's memory |

One more disagreement has a configuration, `MCKernelGap.cfg`, that is not among the
runs.  The comment at `pci.c:162` says of a function that is not there "Skip if
no device is present", and the one at `pci.c:148` "Scans all buses, devices, and
functiions"; but `pci.c:164` is a `break`, so the functions behind a gap in the
numbers of a device are never looked at.  `ScanFindsAll` fails on a device of
functions 0 and 2 (`tlc -config MCKernelGap.cfg MCKernel`), in thirteen states.
In `kernel` it is checked without gaps, and proved under the premise that there
are none (`Gapless`).

Two divergences have no run, since no behaviour depends on them: the comment at
`interruptstubs.s:94` lists the saved general registers in another order than
`pusha` pushes them, and `get_segment_base` gives sixteen bits of a base that has
thirty-two (`DescriptorEncodes` states what it gives).

## 4. Proofs

| module | proves |
|---|---|
| `InterruptsProofs` | the interrupt system, and that it implements `InterruptDelivery` |
| `MouseDriverProofs` | the mouse driver, and that it implements `MouseReports` |
| `InputPathProofs` | the input path, from the firmware to the drawing loop |
| `WindowsProofs` | focus, clicks and dragging |
| `HardwareProofs` | lemmas about frames, descriptors and the adapter |
| `KernelProofs` | mode, pixels, interrupts and selectors |
| `ScanProofs` | the PCI scan |
| `DrawingProofs` | the drawn screen, that the drawing loop implements `Painting` and gets on, and the types of `Kernel` |

`InterruptsProofs` proves, for every set of lines: `TypeOK`,
`NothingLeftInService`, `VectorNamesLine`, `DriverMatchesLine`,
`ReadyBeforeEnabled` and the safety part of the refinement, `DeliversSafely`.
The only assumption is `LinesAssumption`: line 2 has no device of its own.

The invariants are not inductive: that nothing is in service outside a handler
follows from which end-of-interrupt comes next, and that from the number pushed,
the gate and the chips' base vectors.  `IInv` adds these:

* `BootInv`: how far the initialisation has come, in the tables and, byte by
  byte, in the two chips;
* `FlagInv`: IF is on in the main loop only, and saved as on only in a handler
  that came from there;
* `DispatchInv`: the branch taken agrees with the number and the label;
* `LineInv`: what is in service at each chip for each kind of number.

It was first checked with TLC.  The proof then has one lemma for the initial
state, one per action, and small lemmas for the chip operators (the highest of
one input in service is that input; the mask byte 0 masks nothing).  The
refinement maps `BuildTables` and the masks to stutters, ICW1 to `Reset`,
`ActivateInterrupts` to `Start`, `Accept` to `Begin`, `AcceptSpurious` to
`Withdraw` (a line of the slave keeps its rank through the cascade), the last
end-of-interrupt that empties the registers to `Finish`.

`MouseDriverProofs` proves `TypeOK`, `ToldMatchesButtons` and
`PressReleaseAlternate` for every set of handlers, movements and bounds, from
`MouseAssumption` alone (the invariant to add to `TypeOK` is `ToldMatchesButtons`
itself: `Down(old)` and `Down(new)` decide both the calls and what is told, and a
button that an initialisation has put into `stuck` leaves it with its next call,
which can only be a press), and
`ExactMovement`: the low eight bits determine a movement and its negation exactly
when it is from -127 to 127, which is why `mouse` stays within those bounds and
`mouse_far` fails beyond them.

For such movements (`DeltasFit`) it proves `Refinement`, the safety part of
`DeliversReports`.  The proof is about sequences: three bytes put behind a
sequence, or taken from its front, change `Reports` by one report at that end
(`ReportsMore`, `ReportsTail`), and `PacketEvent` does with three bytes what
`Meaning` says of them (`EventMeans`).  `SendPacket` is then `Report`, a byte in
the middle of a packet a stutter (it moves from `queue` to `buffer`, which
`Ahead` does not see), the third byte `Deliver` or, out of step, `Drift`;
`LoseByte` is `Lose` and `InitDriver` is `Restart`.  `DirectionKept` adds the
invariant `CleanInv`: without a loss, whole packets ahead are either
acknowledgements or reports, never parts of two, so `MovementKeepsSign` follows
from `Deliver`.

`InputPathProofs` proves `TypeOK` and `NoLostWakeup` for every firmware, every
input at any time, every time-out and every set of labels at which the processor
outruns the controller.  `WakeInv` says when the lines are watched: from the
keyboard driver's first read of port 0x60 on, since before that the firmware's
byte may hold a line up whose edge nobody has seen.  From there each step latches
its edges, or changes no line: a command does not touch the two enable bits, and a
byte to the data port is never taken for a configuration except where that is
latched (`kb_scan` comes after `kb_write`, and 0xD4 comes before each command of
the mouse).  While line 1 or 12 is served, its handler reads, or the byte is not
the mouse's and its request is latched.

It also proves `InputEnabledQuietly`, assuming `QuietAssumption`: the firmware
has scan codes translated, and the drain loop makes at least six turns (the code's
makes 100000).  `QuietInv` is what such a boot has reached at each label.
`QueueInv` counts what waits in the controller: nothing when a configuration is
requested, only the answer when port 0x60 is read, and at most `cmd - 1`
acknowledgements while the mouse is programmed.  Of those the second
initialisation finds up to six, which the drain loop reads before it runs out;
without that the keyboard driver would take an acknowledgement (0xFA) for the
configuration.  `ConfigInv` follows the configuration byte through the four
read-modify-writes, each of which keeps the bits of the others.

Three more results rest on the same `IInv`:

* `BytesReachTheirDriver`, first (`BalanceStep`) that balance lasts: a byte is
  loaded only into an empty buffer, and then no request of the keyboard is left;
  its own handler reads the byte its request was made for; the mouse's handler
  asks the status whose byte it is, and leaves the keyboard's alone; after `sti`
  nothing else reads (`RunningNotBoot`). Then (`ArriveStep`) that the mouse's
  bytes arrive: the keyboard's handler finds no byte of the mouse, and the
  mouse's takes no other. What a queue holds comes from its own sender
  (`Sorted`, an invariant of its own), so a byte that moves to the buffer from
  the mouse's queue stays first of the mouse's bytes and one from another queue
  is not among them (`MouseBytesSteps`).
* `OnlyWidthCalled`: `TableInv` says what the drivers' tables hold before and
  after `sti`.  In text mode every word of them is null or in the kernel, for the
  desktop all but one are (`TableCalls`, `MouseCalls`); `KernelAbove` compares the
  desktop's width with the load address.
* `BootAdvances`: `Places` and `Further` number the labels, `WaitingFalls` weighs
  the bytes in the controller.  A loop that turns has read one.

`WindowsProofs` proves `TypeOK`, `KeysFollowClicks`, `DraggedFollowsPointer`,
`ReleaseEndsDrag` and `ClickGoesToShown` for every tree of the three levels, every
placement and every set of movements, from `WindowsAssumption`: parents are composites, windows lie on the desktop, the
desktop starts at the origin and is not empty.  `ChildrenInv` (children hang
under the parent they were initialised with) makes the path of `Focus` the path
of the dispatch.  `GripInv` (a window being dragged is on the desktop and under
the pointer) is what dragging needs: such a window is told of the next movement,
by which it and the pointer move alike, and so the pointer is inside it again.
For `ClickGoesToShown`, `CoveringChild` and `CoveringInner` show that the hit test
made step by step and the place on the screen agree; where the pointer is over at
most one child of each composite (`DistinctInv`: none is twice in its list), the
dispatch goes down the very path whose end was drawn last.

The proofs about `Kernel` rest on facts about its parts in `HardwareProofs`:
`FrameRoundTrip` (what gate, stub and `int_bottom` push, `int_bottom` and `iret`
take down to the very machine that was interrupted, for every vector and every
content of the registers, although `HandleInterrupt` has changed `eax`, `ecx` and
`edx`), `DescriptorEncodes` (base, type and limit survive the encoding, for every
base and limit) and one lemma for each write of `vga_write_registers` to an
adapter in any state.

`KernelProofs` cannot say what the kernel has reached of `cpu`, which may be in a
handler at any depth.  It says it of `Base`, the machine below all interrupts.
`FrameInv` makes that possible: each machine in a handler is what `Enter`, and
perhaps `ReturnEsp`, made of the one below it, and only the base is elsewhere.  An
interrupt and its return therefore leave `Base` alone.  To it `IInv` adds
`CardInv` (which registers have their values, register by register in the loops;
the CRT controller stays unlocked while it is written), `PixelInv` (the index
selected, the segment in `eax`) and `DataInv` (console, rectangle, descriptor
table).  From this follow `ModeSet`, `StoresOnScreen`, `VectorReachesHandler`,
`InterruptsTransparent` and `SelectorsValid`: for every screen, scene, content of
the PCI buses, state of the adapter, and any number of interrupts at any depth.

`ScanProofs` adds `ScanInv`: what has been found are the functions before the
loops' position, in lexicographic order, out of those the `break` leaves to be
found (`Visible`).  The step that needs an argument is the end of a device: behind
the first missing function none of these is left, and behind the only one of a
single-function device neither.  Where no device has a gap (`Gapless`), `Visible`
is all there is (`VisibleIsInstalled`), hence `FindsAll`.  `PortInv` (a port noted
is `PortBase` of its function) gives `PortsAreBaseAddresses`, from `max_bars` for
each type of header; `LineInv` gives `OneLineEach`, since a function is found once
and `LogLength` fits a line.

`DrawingProofs` adds `PaintInv`: at each point, the screen shows the topmost of
the widgets painted there so far, where the widget being drawn counts as far as
its loops have come.  A complete frame has painted everything, hence
`FrameShowsScene`; that a topmost widget exists is the well-foundedness of the
numbers (the desktop covers every point).  It also proves `TypeOK` of `Kernel`.

That `Kernel` implements `Painting` (`DrawingImplementsPainting`) follows step by
step.  The start of a widget has passed none of its points (`NothingPassed`); a
pixel that is clipped is no point of the screen (`ClippedNowhere`), and the end of
a row passes none (`RowPassed`), so these are stutters, as are the two accesses,
interrupts and handlers, which leave `Base` alone.  A store is `Paint` of the
point the loops have come to, which `PaintInv` knows to be in the widget and
`StorePixel` to be the one whose address is in the registers; it passes that
point and no other (`PixelPassed`).  At the end of a widget all its points have
been passed (`AllPassed`), so that is `NextShape`.  For `FramesAdvance` each
action lowers one component of `Left` and keeps those before it: the row or the
pixel by the loops' conditions (at a store, `PaintInv` has kept the condition
under which the pixel was begun), the handlers because each returns once.

Assumptions on constants are in the modules that declare them, and TLC evaluates
them on every run: `ScreenAssumption` (a screen is not empty), `KernelAssumption`
(configuration spaces, windows and vectors are such), `InputAssumption`,
`MouseAssumption`, `LinesAssumption`, `WindowsAssumption`.

Model-checked only: everything under fairness (`DeliversInterrupts`,
`ServedUnlessOutranked`, the liveness part of `DeliversReports`, `BytesAreRead`,
`BootCompletes`, `DrawsForever`), since TLAPS cannot reason about ENABLED here.

## 5. Left out, and why

* The text itself, characters of keys, and the text-mode event handlers of
  `kernel.c`: no property depends on characters, and after `sti` the desktop has
  taken those handlers' place.  `kprintf` is one step, also in a handler: it is
  interrupted only by an exception that prints in its turn, and the cursor
  registers it then leaves wrong are of a text mode that is gone.  Likewise what
  handlers print during `driver_manager_activate_all` is not added to the position
  of the console in `Kernel`, which no property there depends on.
* Exceptions and non-maskable interrupts before the drawing loop.
* The input-buffer bit of the 8042's status, except as a time-out of the mouse
  driver's waits: the controller takes a written byte in one step.
* Bytes the keyboard sends as answers count as bytes of the keyboard; resend
  requests and device errors do not occur in the code and are not modelled.
* An absent controller (port 0x64 reads 0xFF): the mouse driver's drain loop
  then plainly never ends.
* `keyboard_activate`, `mouse_activate`, `deactivate_interrupts`, `init_driver`,
  `pci_write`, `set_descriptor`, 16-bit ports: nothing calls them.  The slow ports
  and the 32-bit ports are part of the steps of `Interrupts` and of `pci_read`.
* 64-bit base addresses: their upper half is read as an address of its own, but
  nothing uses what the scan notes.
* Windows in windows, and a widget added twice or to a composite other than the
  one it was initialised with, which `composite_widget_add_child` does not refuse
  (`kernelMain` does none of these), and the cursor `desktop_draw` adds
  (the main loop does not call it).
* What executes after a jump to an address outside the kernel.

## 6. Plan

What is left is one part, to be proved about as well as checked, so again
without RECURSIVE operators:

1. **Console**: the text-mode handlers, for a kernel without the desktop.
