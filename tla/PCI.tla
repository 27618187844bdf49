--------------------------------- MODULE PCI ---------------------------------
(***************************************************************************)
(* The PCI scan, src/src/hardwarecommunication/pci.c: reads of the         *)
(* configuration space and what is made of them.  A double word is its     *)
(* four bytes, the low one first, since TLC's integers have 32 bits.       *)
(***************************************************************************)
EXTENDS Ports, Sequences

MaxUint16 == 65535

\* What answers at a bus, device and function: the fields pci.c reads, with the
\* header type's bit 7 apart from the type, and the double words from 0x10 on,
\* which are base addresses only as far as the type says.
ConfigSpace == [
  vendor : 0 .. MaxUint16, device : 0 .. MaxUint16, class : Byte, subclass : Byte,
  multi : BOOLEAN, type : 0 .. 127, bars : [1 .. 6 -> [1 .. 4 -> Byte]] ]

FunctionId == [bus : Byte, device : 0 .. 31, function : 0 .. 7]

Id(bus, device, function) == [bus |-> bus, device |-> device, function |-> function]

\* The double word at a register.
ConfigDword(c, register) ==
  CASE register = 0  -> <<c.vendor % 256, c.vendor \div 256, c.device % 256, c.device \div 256>>
    [] register = 8  -> <<0, 0, c.subclass, c.class>>
    [] register = 12 -> <<0, 0, (IF c.multi THEN 128 ELSE 0) + c.type, 0>>
    [] register \in 16 .. 36 -> c.bars[(register - 16) \div 4 + 1]

AllOnes == <<255, 255, 255, 255>>

-----------------------------------------------------------------------------

\* pci_read: the address has room for 8, 5 and 3 bits, registers are aligned,
\* and the result is shifted down to the byte asked for.
pci_read(config, bus, device, function, offset) ==
  LET id    == Id(bus % 256, device % 32, function % 8)
      dword == IF id \in DOMAIN config THEN ConfigDword(config[id], offset - (offset % 4))
               ELSE AllOnes
  IN [i \in 1 .. 4 - (offset % 4) |-> dword[i + (offset % 4)]]

\* The conversions on assignment.
Uint8(s)  == s[1]
Uint16(s) == s[1] + 256 * s[2]

\* Mutant: the bit is sought one byte too early, in the latency timer.
pci_device_has_function_before(config, bus, device) ==
  Uint8(pci_read(config, bus, device, 0, 13)) >= 128

pci_device_has_function(config, bus, device) ==
  Uint8(pci_read(config, bus, device, 0, 14)) >= 128

\* Mutant: a bridge has as many base addresses as any device.
max_bars_any(headertype) == 6

\* Negative for the types above 1.
max_bars(headertype) == 6 - 4 * headertype

NoAddress == <<0, 0, 0, 0>>

\* pci_get_base_address_register.  A result without address has no type yet; the
\* caller asks for the address first.
BaseAddressRegister(config, bus, device, function, bar) ==
  LET headertype == Uint8(pci_read(config, bus, device, function, 14)) % 128
      value      == pci_read(config, bus, device, function, 16 + 4 * bar)
      io         == value[1] % 2 = 1
  IN IF bar >= max_bars(headertype) THEN [address |-> NoAddress, io |-> FALSE]
     ELSE [address |-> [value EXCEPT ![1] = @ - (@ % (IF io THEN 4 ELSE 16))], io |-> io]

\* pci_get_device_descriptor, the fields that are used.
Descriptor(config, bus, device, function) == [
  vendor_id   |-> Uint16(pci_read(config, bus, device, function, 0)),
  device_id   |-> Uint16(pci_read(config, bus, device, function, 2)),
  class_id    |-> Uint8(pci_read(config, bus, device, function, 11)),
  subclass_id |-> Uint8(pci_read(config, bus, device, function, 10)) ]

Uninitialised == <<>>

\* The loop over the base addresses: the last I/O address is kept.
PortBase(config, bus, device, function) ==
  LET bar(i) == BaseAddressRegister(config, bus, device, function, i)
      ports  == {i \in 0 .. 5 : bar(i).address # NoAddress /\ bar(i).io}
  IN IF ports = {} THEN Uninitialised
     ELSE bar(CHOOSE i \in ports : \A j \in ports : j <= i).address

\* pci_get_driver prints a name for two kinds of device and returns no driver.
NameLength(dev) ==
  (IF dev.vendor_id = 4130 /\ dev.device_id = 8192 THEN 12 ELSE 0)   \* 0x1022, 0x2000
  + (IF dev.class_id = 3 /\ dev.subclass_id = 0 THEN 3 ELSE 0)

\* The characters pci_select_drivers prints for a function.
LogLength(dev) == NameLength(dev) + (7 + 2) + (9 + 2) + (11 + 2) + (10 + 4) + (9 + 4)
=============================================================================
