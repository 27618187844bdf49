------------------------------ MODULE MCKernel ------------------------------
(***************************************************************************)
(* Kernel on a screen of 4 by 3 with a window that hangs over its left     *)
(* edge and one over its lower right corner, and a few PCI configurations. *)
(***************************************************************************)
EXTENDS Kernel

Window(x, y, w, h, rgb) == [x |-> x, y |-> y, w |-> w, h |-> h, rgb |-> rgb]

MCWindows == << Window(-1, 0, 3, 2, <<168, 0, 0>>), Window(1, 1, 4, 3, <<0, 168, 0>>) >>

\* Base addresses: none; memory; I/O; and a bridge's bus numbers, which look like I/O.
None   == <<0, 0, 0, 0>>
Memory == <<8, 0, 0, 224>>
IOBase == <<129, 192, 0, 0>>
Buses2 == <<1, 2, 3, 0>>

Function(vendor, device, class, multi, type, bars) ==
  [vendor |-> vendor, device |-> device, class |-> class, subclass |-> 0,
   multi |-> multi, type |-> type, bars |-> bars]

Bridge == Function(32902, 4663, 6, FALSE, 1, <<None, None, Buses2, None, None, None>>)
Chip   == Function(32902, 28672, 6, TRUE, 0, <<None, None, None, None, IOBase, None>>)
Single == Function(4660, 4369, 3, FALSE, 0, <<Memory, IOBase, None, None, None, None>>)
\* Both names of pci_get_driver at once make the longest line.
Named  == Function(4130, 8192, 3, FALSE, 0, <<IOBase, Memory, None, None, None, None>>)

At3(b, d, f) == [bus |-> b, device |-> d, function |-> f]

\* Nothing at all; a device of three functions; one that answers for a function it
\* does not have; a bridge and a device on the second bus; a function without its
\* first.
MCConfigs == {
  [id \in {} |-> Chip],
  [id \in {At3(0, 0, 0), At3(0, 0, 1), At3(0, 0, 2)} |-> Chip],
  [id \in {At3(0, 1, 0), At3(0, 1, 1)} |-> Single],
  [id \in {At3(0, 0, 0), At3(1, 1, 0)} |-> IF id.bus = 0 THEN Bridge ELSE Named],
  [id \in {At3(1, 0, 1)} |-> Chip] }

\* A device of two functions that are not numbered one after the other.
MCGapConfigs == {[id \in {At3(0, 1, 0), At3(0, 1, 2)} |-> Chip]}

\* Text mode 3, with the registers locked or not, and the attribute port waiting for
\* an index or a value.
Mode3 == <<95, 79, 80, 130, 85, 129, 191, 31, 0, 79, 13, 14, 0, 0, 0, 80,
           156, 14, 143, 40, 31, 150, 185, 163, 255>>

MCFirmwareCards ==
  { [misc |-> 103, seqIndex |-> 0, seq |-> [i \in 0 .. 4 |-> i],
     crtcIndex |-> 0, crtc |-> [i \in 0 .. 24 |-> IF i = 17 THEN lock ELSE Mode3[i + 1]],
     gcIndex |-> 0, gc |-> [i \in 0 .. 8 |-> IF i = 6 THEN 14 ELSE 0],
     acIndex |-> 0, ac |-> [i \in 0 .. 20 |-> 0], acValue |-> value, video |-> TRUE] :
    lock \in {14, 142}, value \in BOOLEAN }

\* One of each, for many interrupts.
MCOneConfig == {[id \in {} |-> Chip]}
MCOneCard == {CHOOSE c \in MCFirmwareCards : TRUE}

\* Non-maskable interrupt, protection fault (with an error code), timer, a disk.
MCVectors == {2, 13, 32, 46}

\* Line 7, where the controller reports requests that went away.
MCSpurious == {39}
=============================================================================
