----------------------------- MODULE ScanProofs -----------------------------
(***************************************************************************)
(* Proofs about the PCI scan in module Kernel: for every content of the    *)
(* configuration spaces and any number of buses and devices, it takes base  *)
(* addresses for base addresses and one line for each function, and it     *)
(* finds all there is when no device leaves a gap in its functions.        *)
(***************************************************************************)
EXTENDS KernelProofs, FiniteSetTheorems

LEMMA Uint16Bounds == MaxUint16 \in Nat /\ MaxUint16 <= 65535 /\ MaxUint16 >= 65535
  BY DEF MaxUint16

-----------------------------------------------------------------------------
(* Reads of the configuration space                                        *)

\* pci_read masks nothing away from a function that exists.
LEMMA ReadsThrough ==
  ASSUME NEW b \in 0 .. 255, NEW d \in 0 .. 31, NEW f \in 0 .. 7
  PROVE  Id(b % 256, d % 32, f % 8) = Id(b, d, f)
<1>1. b % 256 = b /\ d % 32 = d /\ f % 8 = f
  OBVIOUS
<1>2. QED
  BY <1>1

\* The vendor and the header type of a function that is there.
LEMMA FunctionRead ==
  ASSUME NEW b \in 0 .. 255, NEW d \in 0 .. 31, NEW f \in 0 .. 7, NEW c \in ConfigSpace,
         Id(b, d, f) \in DOMAIN config, config[Id(b, d, f)] = c
  PROVE  /\ Uint16(pci_read(config, b, d, f, 0)) = c.vendor
         /\ Uint8(pci_read(config, b, d, f, 14)) = (IF c.multi THEN 128 ELSE 0) + c.type
<1>1. 0 % 4 = 0 /\ 14 % 4 = 2
  OBVIOUS
<1>2. pci_read(config, b, d, f, 0) = [i \in 1 .. 4 |-> ConfigDword(c, 0)[i]]
  BY <1>1, ReadsThrough DEF pci_read
<1>3. pci_read(config, b, d, f, 14) = [i \in 1 .. 2 |-> ConfigDword(c, 12)[i + 2]]
  BY <1>1, ReadsThrough DEF pci_read
<1>4. c.vendor \in 0 .. MaxUint16
  BY DEF ConfigSpace
<1>5. Uint16(pci_read(config, b, d, f, 0)) = (c.vendor % 256) + 256 * (c.vendor \div 256)
  BY <1>2 DEF ConfigDword, Uint16
<1>6. Uint8(pci_read(config, b, d, f, 14)) = (IF c.multi THEN 128 ELSE 0) + c.type
  BY <1>3 DEF ConfigDword, Uint8
<1>7. QED
  BY <1>4, <1>5, <1>6, Uint16Bounds

\* What is read where nothing is.
LEMMA NothingRead ==
  ASSUME NEW b \in 0 .. 255, NEW d \in 0 .. 31, NEW f \in 0 .. 7, Id(b, d, f) \notin DOMAIN config
  PROVE  Uint16(pci_read(config, b, d, f, 0)) = MaxUint16
<1>1. 0 % 4 = 0
  OBVIOUS
<1>2. pci_read(config, b, d, f, 0) = [i \in 1 .. 4 |-> AllOnes[i]]
  BY <1>1, ReadsThrough DEF pci_read
<1>3. QED
  BY <1>2, SMT DEF AllOnes, Uint16, MaxUint16

LEMMA ConfigType ==
  ASSUME config \in Configs
  PROVE  DOMAIN config \subseteq FunctionId /\ \A id \in DOMAIN config : config[id] \in ConfigSpace
  BY KernelAssumption

LEMMA LoopBounds ==
  /\ Buses \in Nat /\ Devices \in Nat /\ Buses >= 1 /\ Devices >= 1
  /\ \A b \in 0 .. Buses - 1 : b \in 0 .. 255
  /\ \A d \in 0 .. Devices - 1 : d \in 0 .. 31
<1>1. Buses \in 1 .. 256 /\ Devices \in 1 .. 32
  BY KernelAssumption, Zenon
<1>2. QED
  BY <1>1

\* The test of the scan, and the bit for more functions.
LEMMA Reads ==
  ASSUME config \in Configs, NEW b \in 0 .. Buses - 1, NEW d \in 0 .. Devices - 1, NEW f \in 0 .. 7
  PROVE  /\ Absent(b, d, f) <=> ~There(b, d, f)
         /\ Id(b, d, 0) \in DOMAIN config =>
              (pci_device_has_function(config, b, d) <=> config[Id(b, d, 0)].multi)
<1>1. b \in 0 .. 255 /\ d \in 0 .. 31 /\ 0 \in 0 .. 7
  BY LoopBounds
<1> DEFINE v == Uint16(pci_read(config, b, d, f, 0))
<1>2. Absent(b, d, f) <=> v \in {0, MaxUint16}
  BY DEF Absent, Descriptor
<1>3. ASSUME Id(b, d, f) \notin DOMAIN config
      PROVE  Absent(b, d, f) <=> ~There(b, d, f)
  <2>1. v = MaxUint16
    BY <1>1, <1>3, NothingRead
  <2> HIDE DEF v
  <2>2. Absent(b, d, f)
    BY <1>2, <2>1
  <2>3. ~There(b, d, f)
    BY <1>3 DEF There, Answers
  <2>4. QED
    BY <2>2, <2>3
<1>4. ASSUME Id(b, d, f) \in DOMAIN config
      PROVE  Absent(b, d, f) <=> ~There(b, d, f)
  <2> DEFINE u == config[Id(b, d, f)].vendor
  <2>1. config[Id(b, d, f)] \in ConfigSpace
    BY <1>4, ConfigType
  <2>2. v = u
    BY <1>1, <1>4, <2>1, FunctionRead
  <2>3. There(b, d, f) <=> u \notin {0, MaxUint16}
    BY <1>4 DEF There, Answers
  <2> HIDE DEF u, v
  <2>4. QED
    BY <1>2, <2>2, <2>3
<1>5. ASSUME Id(b, d, 0) \in DOMAIN config
      PROVE  pci_device_has_function(config, b, d) <=> config[Id(b, d, 0)].multi
  <2> DEFINE c == config[Id(b, d, 0)]
             h == Uint8(pci_read(config, b, d, 0, 14))
  <2>1. c \in ConfigSpace
    BY <1>5, ConfigType
  <2>2. h = (IF c.multi THEN 128 ELSE 0) + c.type
    BY <1>1, <1>5, <2>1, FunctionRead
  <2>3. c.type \in 0 .. 127
    BY <2>1 DEF ConfigSpace
  <2>4. pci_device_has_function(config, b, d) <=> h >= 128
    BY DEF pci_device_has_function
  <2> HIDE DEF h, c
  <2>5. QED
    BY <2>2, <2>3, <2>4 DEF c
<1>6. QED
  BY <1>3, <1>4, <1>5

-----------------------------------------------------------------------------
(* The loop invariant                                                      *)

Ids == {f.id : f \in found}

\* What leaving the loop at the first function that is absent lets it find.
Visible ==
  {id \in DOMAIN config :
     /\ id.bus < Buses /\ id.device < Devices
     /\ \A g \in 0 .. id.function : There(id.bus, id.device, g)
     /\ id.function > 0 => config[Id(id.bus, id.device, 0)].multi}

\* The functions of every device are numbered one after the other.
Gapless ==
  \A c \in Configs : \A id \in DOMAIN c : \A g \in 1 .. id.function :
    Answers(c, id) => Answers(c, Id(id.bus, id.device, g))

\* The functions to be found before one, in the order of the loops.
Scanned(visible, b, d, f) ==
  {id \in visible : \/ id.bus < b
                    \/ id.bus = b /\ id.device < d
                    \/ id.bus = b /\ id.device = d /\ id.function < f}

InFunctions ==
  /\ scan.bus \in 0 .. Buses - 1
  /\ scan.functions = IF pci_device_has_function(config, scan.bus, scan.device) THEN 8 ELSE 1
  /\ scan.function \in 0 .. scan.functions
  /\ \A g \in 0 .. 7 : g < scan.function => There(scan.bus, scan.device, g)

ScanType == [bus : Nat, device : Nat, function : Nat, functions : Nat]

Scanning == {"start", "drivers", "device", "function"}

ScanInv ==
  /\ config \in Configs
  /\ scan \in ScanType
  /\ cpu.eip \in {"start", "drivers"} =>
       found = {} /\ scan = [bus |-> 0, device |-> 0, function |-> 0, functions |-> 0]
  /\ cpu.eip \in {"device", "function"} =>
       /\ scan.bus \in 0 .. Buses /\ scan.device \in 0 .. Devices - 1
       /\ scan.bus = Buses => scan.device = 0
  /\ cpu.eip = "device" => Ids = Scanned(Visible, scan.bus, scan.device, 0)
  /\ cpu.eip = "function" => InFunctions /\ Ids = Scanned(Visible, scan.bus, scan.device, scan.function)
  /\ cpu.eip \notin Scanning => Ids = Visible

LEMMA VisibleType ==
  ASSUME config \in Configs, NEW id \in Visible
  PROVE  /\ id \in FunctionId /\ id \in DOMAIN config
         /\ id.bus \in 0 .. Buses - 1 /\ id.device \in 0 .. Devices - 1 /\ id.function \in 0 .. 7
         /\ id = Id(id.bus, id.device, id.function)
         /\ \A g \in 0 .. 7 : g <= id.function => There(id.bus, id.device, g)
         /\ id.function > 0 => config[Id(id.bus, id.device, 0)].multi
<1>1. id \in DOMAIN config /\ id.bus < Buses /\ id.device < Devices
      /\ (\A g \in 0 .. id.function : There(id.bus, id.device, g))
      /\ (id.function > 0 => config[Id(id.bus, id.device, 0)].multi)
  BY DEF Visible
<1>2. id \in FunctionId
  BY <1>1, ConfigType
<1>3. id.bus \in 0 .. 255 /\ id.device \in 0 .. 31 /\ id.function \in 0 .. 7
      /\ id = Id(id.bus, id.device, id.function)
  BY <1>2 DEF FunctionId, Byte, Id
<1>4. \A g \in 0 .. 7 : g <= id.function => g \in 0 .. id.function
  BY <1>3
<1>5. id.bus \in 0 .. Buses - 1 /\ id.device \in 0 .. Devices - 1
  BY <1>1, <1>3, LoopBounds
<1>6. QED
  BY <1>1, <1>2, <1>3, <1>4, <1>5

\* Where the loop over the functions stops, nothing of the device is left.
LEMMA DeviceDone ==
  ASSUME config \in Configs, InFunctions, scan.device \in 0 .. Devices - 1,
         \/ scan.function = scan.functions
         \/ Absent(scan.bus, scan.device, scan.function)
  PROVE  \A id \in Visible :
           id.bus = scan.bus /\ id.device = scan.device => id.function < scan.function
<1> SUFFICES ASSUME NEW id \in Visible, id.bus = scan.bus, id.device = scan.device,
                    ~(id.function < scan.function)
             PROVE  FALSE
  OBVIOUS
<1> DEFINE b == scan.bus
           d == scan.device
           f == scan.function
           n == scan.functions
<1>1. b \in 0 .. Buses - 1 /\ d \in 0 .. Devices - 1
  BY DEF InFunctions
<1>2. n = (IF pci_device_has_function(config, b, d) THEN 8 ELSE 1) /\ f \in 0 .. n
  BY DEF InFunctions
<1>3. /\ id.function \in 0 .. 7 /\ There(b, d, id.function)
      /\ \A g \in 0 .. 7 : g <= id.function => There(b, d, g)
      /\ id.function > 0 => config[Id(b, d, 0)].multi
  BY VisibleType
<1>4. f = n \/ Absent(b, d, f)
  OBVIOUS
<1>5. ~(id.function < f)
  OBVIOUS
<1> HIDE DEF b, d, f, n
<1>6. f \in 0 .. 7 /\ f <= id.function
  BY <1>2, <1>3, <1>5
<1>7. There(b, d, f) /\ There(b, d, 0)
  BY <1>3, <1>6
<1>8. f = n
  BY <1>1, <1>4, <1>6, <1>7, Reads
<1>9. n = 1 /\ f = 1 /\ id.function > 0
  BY <1>2, <1>3, <1>5, <1>6, <1>8
<1>10. Id(b, d, 0) \in DOMAIN config
  BY <1>7 DEF There, Answers
<1>11. pci_device_has_function(config, b, d) <=> config[Id(b, d, 0)].multi
  <2>1. 0 \in 0 .. 7
    OBVIOUS
  <2>2. QED
    BY <1>1, <1>10, <2>1, Reads
<1>12. QED
  BY <1>2, <1>3, <1>9, <1>11

-----------------------------------------------------------------------------
(* Preservation                                                            *)

LEMMA ScanInit == Init => ScanInv
<1> SUFFICES ASSUME Init PROVE ScanInv
  OBVIOUS
<1>1. /\ cpu.eip = "start" /\ config \in Configs /\ found = {}
      /\ scan = [bus |-> 0, device |-> 0, function |-> 0, functions |-> 0]
  BY DEF Init
<1>2. scan \in ScanType
  BY <1>1 DEF ScanType
<1>3. QED
  BY <1>1, <1>2 DEF ScanInv, Scanning

LEMMA ConfigKept ==
  ASSUME config' = config
  PROVE  Visible' = Visible /\ \A b, d, f : There(b, d, f)' <=> There(b, d, f)
  BY DEF Visible, There, Answers

\* The steps that leave the scan alone.
LEMMA ScanKept ==
  ASSUME ScanInv, pci' = pci,
         \/ cpu.eip = "start" /\ cpu'.eip = "drivers"
         \/ cpu'.eip = cpu.eip
         \/ cpu.eip \notin Scanning /\ cpu'.eip \notin Scanning
  PROVE  ScanInv'
<1>1. config' = config /\ scan' = scan /\ found' = found
  BY DEF pci
<1>2. /\ Ids' = Ids /\ Visible' = Visible /\ (InFunctions' <=> InFunctions)
  BY <1>1, ConfigKept DEF Ids, InFunctions
<1>3. QED
  BY <1>1, <1>2 DEF ScanInv, Scanning

LEMMA Went ==
  ASSUME IInv, NEW l \in Labels, Goto(l)
  PROVE  cpu'.eip = l
  BY GotoMachine DEF IInv, FrameInv, Goto

LEMMA ScanStart == IInv /\ ScanInv /\ Start => ScanInv'
<1> SUFFICES ASSUME IInv, ScanInv, Start PROVE ScanInv'
  OBVIOUS
<1>1. pci' = pci /\ cpu.eip = "start" /\ Goto("drivers")
  BY DEF Start, At
<1>2. cpu'.eip = "drivers"
  BY <1>1, Went DEF Labels
<1>3. QED
  BY <1>1, <1>2, ScanKept

\* Nothing is to be found before the first device.
LEMMA ScanInitDrivers == IInv /\ ScanInv /\ InitDrivers => ScanInv'
<1> SUFFICES ASSUME IInv, ScanInv, InitDrivers PROVE ScanInv'
  OBVIOUS
<1>1. cpu.eip = "drivers" /\ config' = config /\ scan' = scan /\ found' = found
  BY DEF InitDrivers, At
<1>2. cpu'.eip = "device"
  BY Went DEF InitDrivers, Labels
<1>3. /\ config \in Configs /\ scan \in ScanType /\ found = {}
      /\ scan.bus = 0 /\ scan.device = 0
  BY <1>1 DEF ScanInv
<1>4. Scanned(Visible, 0, 0, 0) = {}
  BY <1>3, VisibleType DEF Scanned
<1>5. Ids' = {} /\ Visible' = Visible
  BY <1>1, <1>3, ConfigKept DEF Ids
<1>6. scan'.bus \in 0 .. Buses /\ scan'.device \in 0 .. Devices - 1 /\ scan'.bus # Buses
  BY <1>1, <1>3, LoopBounds
<1>7. QED
  BY <1>1, <1>2, <1>3, <1>4, <1>5, <1>6 DEF ScanInv, Scanning

LEMMA ScanBeginDevice == IInv /\ ScanInv /\ BeginDevice => ScanInv'
<1> SUFFICES ASSUME IInv, ScanInv, BeginDevice PROVE ScanInv'
  OBVIOUS
<1> DEFINE n == IF pci_device_has_function(config, scan.bus, scan.device) THEN 8 ELSE 1
<1>1. /\ cpu.eip = "device" /\ scan.bus < Buses /\ config' = config /\ found' = found
      /\ scan' = [scan EXCEPT !.function = 0, !.functions = n]
  BY DEF BeginDevice, At
<1>2. cpu'.eip = "function"
  BY Went DEF BeginDevice, Labels
<1>3. /\ config \in Configs /\ scan \in ScanType
      /\ scan.bus \in 0 .. Buses /\ scan.device \in 0 .. Devices - 1
      /\ Ids = Scanned(Visible, scan.bus, scan.device, 0)
  BY <1>1 DEF ScanInv
<1>4. n \in Nat /\ 0 \in 0 .. n
  OBVIOUS
<1>5. n = IF pci_device_has_function(config, scan.bus, scan.device) THEN 8 ELSE 1
  OBVIOUS
<1> HIDE DEF n
<1>6. /\ scan' \in ScanType /\ scan'.bus = scan.bus /\ scan'.device = scan.device
      /\ scan'.function = 0 /\ scan'.functions = n
  BY <1>1, <1>3, <1>4 DEF ScanType
<1>7. scan.bus \in 0 .. Buses - 1 /\ scan.bus # Buses
  BY <1>1, <1>3, LoopBounds
<1>8. InFunctions'
  BY <1>1, <1>4, <1>5, <1>6, <1>7 DEF InFunctions
<1>9. Ids' = Scanned(Visible', scan'.bus, scan'.device, scan'.function)
  BY <1>1, <1>3, <1>6, ConfigKept DEF Ids
<1>10. QED
  BY <1>1, <1>2, <1>3, <1>6, <1>7, <1>8, <1>9 DEF ScanInv, Scanning

LEMMA ScanEndDevice == IInv /\ ScanInv /\ EndDevice => ScanInv'
<1> SUFFICES ASSUME IInv, ScanInv, EndDevice PROVE ScanInv'
  OBVIOUS
<1> DEFINE b == scan.bus
           d == scan.device
           f == scan.function
           last == ~(d + 1 < Devices)
           next == IF last THEN b + 1 ELSE b
           to == IF last THEN 0 ELSE d + 1
<1>1. /\ cpu.eip = "function" /\ config' = config /\ found' = found
      /\ scan' = IF last THEN [scan EXCEPT !.bus = b + 1, !.device = 0]
                 ELSE [scan EXCEPT !.device = d + 1]
      /\ f = scan.functions \/ Absent(b, d, f)
  BY DEF EndDevice, NextDevice, At
<1>2. cpu'.eip = "device"
  BY Went DEF EndDevice, NextDevice, Labels
<1>3. /\ config \in Configs /\ scan \in ScanType /\ InFunctions
      /\ b \in 0 .. Buses - 1 /\ d \in 0 .. Devices - 1
      /\ Ids = Scanned(Visible, b, d, f)
  BY <1>1 DEF ScanInv, InFunctions
<1>4. \A id \in Visible : id.bus = b /\ id.device = d => id.function < f
  BY <1>1, <1>3, DeviceDone
<1>5. scan' \in ScanType /\ scan'.bus = next /\ scan'.device = to
  <2>1. b \in Nat /\ d \in Nat
    BY <1>3 DEF ScanType
  <2>2. b + 1 \in Nat /\ d + 1 \in Nat /\ 0 \in Nat
    BY <2>1
  <2>3. CASE last
    <3>1. scan' = [scan EXCEPT !.bus = b + 1, !.device = 0]
      BY <1>1, <2>3
    <3> HIDE DEF b, d, last
    <3>2. QED
      BY <1>3, <2>2, <2>3, <3>1 DEF ScanType
  <2>4. CASE ~last
    <3>1. scan' = [scan EXCEPT !.device = d + 1] /\ scan.bus = b
      BY <1>1, <2>4
    <3> HIDE DEF b, d, last
    <3>2. QED
      BY <1>3, <2>2, <2>4, <3>1 DEF ScanType
  <2>5. QED
    BY <2>3, <2>4
<1>6. last <=> d + 1 = Devices
  BY <1>3, LoopBounds
<1> DEFINE Order(id) == id.bus < b \/ (id.bus = b /\ id.device < d)
                        \/ (id.bus = b /\ id.device = d /\ id.function < f)
<1>7. \A id \in Visible : Order(id) <=>
         id.bus < next \/ (id.bus = next /\ id.device < to)
         \/ (id.bus = next /\ id.device = to /\ id.function < 0)
  <2> SUFFICES ASSUME NEW id \in Visible
               PROVE  Order(id) <=>
                        id.bus < next \/ (id.bus = next /\ id.device < to)
                        \/ (id.bus = next /\ id.device = to /\ id.function < 0)
    OBVIOUS
  <2> DEFINE i == id.bus
             j == id.device
             k == id.function
  <2>1. i \in Nat /\ j \in 0 .. Devices - 1 /\ k \in Nat
    BY <1>3, VisibleType, LoopBounds
  <2>2. i = b /\ j = d => k < f
    BY <1>4
  <2> HIDE DEF i, j, k, b, d, f
  <2>3. CASE last
    BY <1>3, <1>6, <2>1, <2>2, <2>3, LoopBounds DEF i, j, k
  <2>4. CASE ~last
    BY <1>3, <1>6, <2>1, <2>2, <2>4, LoopBounds DEF i, j, k
  <2>5. QED
    BY <2>3, <2>4
<1>8. Scanned(Visible, b, d, f) = Scanned(Visible, next, to, 0)
  BY <1>7 DEF Scanned
<1> HIDE DEF next, to, b, d, f
<1>9. Ids' = Scanned(Visible', next, to, 0)
  BY <1>1, <1>3, <1>8, ConfigKept DEF Ids
<1>10. next \in 0 .. Buses /\ to \in 0 .. Devices - 1 /\ (next = Buses => to = 0)
  BY <1>3, <1>6, LoopBounds DEF next, to
<1>11. QED
  BY <1>1, <1>2, <1>3, <1>5, <1>9, <1>10 DEF ScanInv, Scanning

LEMMA ScanScanFunction == IInv /\ ScanInv /\ ScanFunction => ScanInv'
<1> SUFFICES ASSUME IInv, ScanInv, ScanFunction PROVE ScanInv'
  OBVIOUS
<1> DEFINE b == scan.bus
           d == scan.device
           f == scan.function
           n == scan.functions
<1>1. /\ cpu.eip = "function" /\ cpu' = cpu /\ config' = config
      /\ f < n /\ ~Absent(b, d, f)
      /\ scan' = [scan EXCEPT !.function = f + 1]
      /\ Ids' = Ids \union {Id(b, d, f)}
  <2> DEFINE x == Id(b, d, f)
             r == [id |-> x, portBase |-> PortBase(config, b, d, f)]
  <2>1. found' = found \union {r} /\ r.id = x
    BY DEF ScanFunction
  <2> HIDE DEF x, r
  <2>2. Ids' = Ids \union {x}
    BY <2>1 DEF Ids
  <2>3. QED
    BY <2>2 DEF ScanFunction, At, x
<1>2. /\ config \in Configs /\ scan \in ScanType /\ InFunctions
      /\ scan.bus \in 0 .. Buses /\ (scan.bus = Buses => scan.device = 0)
      /\ b \in 0 .. Buses - 1 /\ d \in 0 .. Devices - 1
      /\ Ids = Scanned(Visible, b, d, f)
      /\ n = (IF pci_device_has_function(config, b, d) THEN 8 ELSE 1) /\ f \in 0 .. n
      /\ \A g \in 0 .. 7 : g < f => There(b, d, g)
  BY <1>1 DEF ScanInv, InFunctions
<1>3. f \in 0 .. 7
  BY <1>1, <1>2
<1>4. There(b, d, f)
  BY <1>1, <1>2, <1>3, Reads
<1>5. \A g \in 0 .. 7 : g <= f => There(b, d, g)
  BY <1>2, <1>3, <1>4
<1>6. f > 0 => config[Id(b, d, 0)].multi
  <2> SUFFICES ASSUME f > 0 PROVE config[Id(b, d, 0)].multi
    OBVIOUS
  <2>1. 0 \in 0 .. 7
    OBVIOUS
  <2>2. Id(b, d, 0) \in DOMAIN config
    BY <1>3, <1>5, <2>1 DEF There, Answers
  <2>3. pci_device_has_function(config, b, d)
    BY <1>1, <1>2
  <2>4. QED
    BY <1>2, <2>1, <2>2, <2>3, Reads
<1>7. Id(b, d, f).bus = b /\ Id(b, d, f).device = d /\ Id(b, d, f).function = f
  BY DEF Id
<1>8. Id(b, d, f) \in Visible
  <2>1. \A g \in 0 .. f : There(b, d, g)
    BY <1>3, <1>5
  <2>2. Id(b, d, f) \in DOMAIN config
    BY <1>4 DEF There, Answers
  <2>3. b < Buses /\ d < Devices
    BY <1>2, LoopBounds
  <2> HIDE DEF b, d, f
  <2>4. QED
    BY <1>6, <1>7, <2>1, <2>2, <2>3 DEF Visible
<1>9. Scanned(Visible, b, d, f + 1) = Scanned(Visible, b, d, f) \union {Id(b, d, f)}
  <2> HIDE DEF b, d, f
  <2>1. ASSUME NEW id \in Visible
        PROVE  id.bus = b /\ id.device = d /\ id.function < f + 1
                 <=> \/ id.bus = b /\ id.device = d /\ id.function < f
                     \/ id = Id(b, d, f)
    <3>1. id.function \in 0 .. 7 /\ id = Id(id.bus, id.device, id.function)
      BY <1>2, VisibleType
    <3>2. id.function < f + 1 <=> id.function < f \/ id.function = f
      BY <1>3, <3>1
    <3>3. QED
      BY <1>7, <3>1, <3>2
  <2>2. QED
    BY <1>8, <2>1 DEF Scanned
<1>10. /\ scan' \in ScanType /\ scan'.bus = b /\ scan'.device = d /\ scan'.functions = n
       /\ scan'.function = f + 1
  BY <1>1, <1>2, <1>3 DEF ScanType
<1> HIDE DEF b, d, f, n
<1>11. Ids' = Scanned(Visible', b, d, f + 1)
  BY <1>1, <1>2, <1>9, ConfigKept
<1>12. InFunctions'
  <2>1. f + 1 \in 0 .. n
    BY <1>1, <1>2, <1>3
  <2>2. \A g \in 0 .. 7 : g < f + 1 => g <= f
    BY <1>3
  <2>3. \A g \in 0 .. 7 : g < scan'.function => There(scan.bus, scan.device, g)'
    BY <1>1, <1>5, <1>10, <2>2, ConfigKept
  <2>4. QED
    BY <1>1, <1>2, <1>10, <2>1, <2>3 DEF InFunctions
<1>13. QED
  BY <1>1, <1>2, <1>10, <1>11, <1>12 DEF ScanInv, Scanning, b, d

LEMMA ScanActivate == IInv /\ ScanInv /\ Activate => ScanInv'
<1> SUFFICES ASSUME IInv, ScanInv, Activate PROVE ScanInv'
  OBVIOUS
<1>1. cpu.eip = "device" /\ scan.bus = Buses /\ pci' = pci
  BY DEF Activate, At
<1>2. cpu'.eip = "misc"
  BY Went DEF Activate, Labels
<1>3. config \in Configs /\ scan \in ScanType /\ scan.device = 0 /\ Ids = Scanned(Visible, Buses, 0, 0)
  BY <1>1 DEF ScanInv
<1>4. Scanned(Visible, Buses, 0, 0) = Visible
  <2>1. \A id \in Visible : id.bus < Buses
    BY DEF Visible
  <2>2. QED
    BY <2>1 DEF Scanned
<1>5. config' = config /\ scan' = scan /\ found' = found
  BY <1>1 DEF pci
<1>6. Ids' = Visible'
  BY <1>3, <1>4, <1>5, ConfigKept DEF Ids
<1>7. QED
  BY <1>2, <1>3, <1>5, <1>6 DEF ScanInv, Scanning

\* What comes after the scan does not go back to it.
LEMMA SettingOrDrawing ==
  ASSUME IInv,
         \/ SetMisc \/ SetSequencer \/ UnlockCRTC \/ SetCRTC \/ SetGraphicsController
         \/ SetAttributeController \/ SetVideo \/ EnterDesktop \/ Draw
  PROVE  pci' = pci /\ cpu.eip \notin Scanning /\ cpu'.eip \notin Scanning
<1> DEFINE Rest == ModeLabels \union Drawing
<1>1. \A l \in Rest : l \in Labels /\ l \notin Scanning
  BY DEF ModeLabels, Drawing, Labels, Scanning
<1>2. pci' = pci
  BY DEF SetMisc, SetSequencer, UnlockCRTC, SetCRTC, SetGraphicsController, SetAttributeController,
         SetVideo, Loop, SetMode, EnterDesktop, Draw, StartFill, SkipPixel, PutPixel, ReadSegment,
         Store, NextRow, NextWidget, Moving
<1>3. cpu.eip \in Rest /\ cpu'.eip \in Rest
  <2>1. ASSUME NEW from \in ModeLabels, NEW new, NEW to \in ModeLabels, SetMode(from, new, to)
        PROVE  cpu.eip \in Rest /\ cpu'.eip \in Rest
    BY <1>1, <2>1, Went DEF SetMode, At
  <2>2. CASE SetMisc \/ UnlockCRTC \/ SetVideo
    BY <2>1, <2>2 DEF SetMisc, UnlockCRTC, SetVideo, ModeLabels
  <2>3. CASE SetSequencer \/ SetCRTC \/ SetGraphicsController \/ SetAttributeController
    BY <2>1, <2>3
       DEF SetSequencer, SetCRTC, SetGraphicsController, SetAttributeController, Loop, ModeLabels
  <2>4. cpu \in Machine
    BY DEF IInv, FrameInv
  <2>5. CASE EnterDesktop
    BY <2>4, <2>5 DEF EnterDesktop, At, Machine, MachineOf, ModeLabels, Drawing
  <2>6. CASE ReadSegment
    BY <2>4, <2>6 DEF ReadSegment, At, Machine, MachineOf, Drawing
  <2>7. CASE SkipPixel \/ NextRow
    BY <2>7 DEF SkipPixel, NextRow, At, Drawing
  <2>8. CASE StartFill \/ PutPixel \/ Store \/ NextWidget
    BY <1>1, <2>8, Went DEF StartFill, PutPixel, Store, NextWidget, At, Drawing
  <2>9. QED
    BY <2>2, <2>3, <2>5, <2>6, <2>7, <2>8 DEF Draw
<1>4. QED
  BY <1>1, <1>2, <1>3

\* Nor does a handler: it was called while the kernel was drawing.
LEMMA Aside ==
  ASSUME IInv, IInv', HandleInterrupt \/ Return \/ \E v \in Vectors : Interrupt(v)
  PROVE  pci' = pci /\ cpu.eip \notin Scanning /\ cpu'.eip \notin Scanning
<1>1. pci' = pci
  BY DEF HandleInterrupt, Return, Interrupt
<1>2. Base' = Base
  BY HandleInterruptFrameInv, ReturnFrameInv, InterruptFrameInv DEF IInv
<1>3. cpu.eip \in Drawing \union Handling
  BY DEF HandleInterrupt, Return, Interrupt, At, Handling
<1>4. Base.eip \in Drawing
  <2>1. CASE cpu.eip \in Handling
    BY <2>1, AtHandler DEF IInv, FrameInv
  <2>2. CASE cpu.eip \in Drawing
    BY <2>2, BaseIsCpu DEF Drawing, Handling, IInv
  <2>3. QED
    BY <1>3, <2>1, <2>2
<1>5. cpu'.eip \in Drawing \union Handling
  <2>1. (cpu.eip \notin Handling => Base = cpu)'
    BY BaseIsCpu, PTL DEF IInv
  <2>2. QED
    BY <1>2, <1>4, <2>1
<1>6. QED
  BY <1>1, <1>3, <1>5 DEF Scanning, Handling, Drawing

LEMMA ScanNext == IInv /\ IInv' /\ ScanInv /\ [Next]_vars => ScanInv'
<1> SUFFICES ASSUME IInv, IInv', ScanInv, [Next]_vars PROVE ScanInv'
  OBVIOUS
<1>1. CASE Start \/ InitDrivers \/ BeginDevice \/ EndDevice \/ ScanFunction \/ Activate
  BY <1>1, ScanStart, ScanInitDrivers, ScanBeginDevice, ScanEndDevice, ScanScanFunction,
     ScanActivate
<1>2. CASE SetUp \/ Draw
  BY <1>1, <1>2, SettingOrDrawing, ScanKept DEF SetUp
<1>3. CASE HandleInterrupt \/ Return \/ \E v \in Vectors : Interrupt(v)
  BY <1>3, Aside, ScanKept
<1>4. CASE UNCHANGED vars
  BY <1>4, ScanKept DEF vars
<1>5. QED
  BY <1>2, <1>3, <1>4 DEF Next, Execute

-----------------------------------------------------------------------------
(* Base addresses                                                          *)

\* A double word of the configuration space of a function that exists.
LEMMA BarRead ==
  ASSUME NEW b \in 0 .. 255, NEW d \in 0 .. 31, NEW f \in 0 .. 7, NEW c \in ConfigSpace,
         NEW i \in 0 .. 5, Id(b, d, f) \in DOMAIN config, config[Id(b, d, f)] = c
  PROVE  pci_read(config, b, d, f, 16 + 4 * i) = c.bars[i + 1]
<1> DEFINE o == 16 + 4 * i
<1>1. o % 4 = 0 /\ o \in 16 .. 36 /\ (o - 16) \div 4 + 1 = i + 1
  OBVIOUS
<1>2. o # 0 /\ o # 8 /\ o # 12 /\ o - 0 = o
  OBVIOUS
<1> HIDE DEF o
<1>3. ConfigDword(c, o) = c.bars[i + 1]
  BY <1>1, <1>2 DEF ConfigDword
<1>4. pci_read(config, b, d, f, o) = [k \in 1 .. 4 |-> ConfigDword(c, o)[k]]
  BY <1>1, <1>2, ReadsThrough DEF pci_read
<1>5. c.bars[i + 1] \in [1 .. 4 -> Byte]
  BY DEF ConfigSpace
<1>6. QED
  BY <1>3, <1>4, <1>5 DEF o

LEMMA LastPort ==
  ASSUME NEW S \in SUBSET (0 .. 5), S # {}
  PROVE  \E i \in S : \A j \in S : j <= i
<1>1. CASE 5 \in S
  BY <1>1
<1>2. CASE 5 \notin S /\ 4 \in S
  BY <1>2
<1>3. CASE 5 \notin S /\ 4 \notin S /\ 3 \in S
  BY <1>3
<1>4. CASE 5 \notin S /\ 4 \notin S /\ 3 \notin S /\ 2 \in S
  BY <1>4
<1>5. CASE 5 \notin S /\ 4 \notin S /\ 3 \notin S /\ 2 \notin S /\ 1 \in S
  BY <1>5
<1>6. CASE 5 \notin S /\ 4 \notin S /\ 3 \notin S /\ 2 \notin S /\ 1 \notin S
  <2>1. \A j \in S : j \in 0 .. 5
    OBVIOUS
  <2>2. \A j \in S : j = 0
    BY <1>6, <2>1
  <2>3. PICK i \in S : TRUE
    OBVIOUS
  <2>4. \A j \in S : j <= i
    BY <2>2, <2>3
  <2>5. QED
    BY <2>3, <2>4
<1>7. QED
  BY <1>1, <1>2, <1>3, <1>4, <1>5, <1>6

BarsOf(c) == IF c.type = 0 THEN 6 ELSE IF c.type = 1 THEN 2 ELSE 0

\* A base address as the driver is to have it: one of the device's, of the I/O
\* kind, without its two low bits.
IsPortBase(c, p) ==
  \E b \in 1 .. BarsOf(c) : /\ c.bars[b][1] % 2 = 1
                            /\ p = [c.bars[b] EXCEPT ![1] = 4 * (@ \div 4)]

LEMMA PortBaseRight ==
  ASSUME NEW b \in 0 .. 255, NEW d \in 0 .. 31, NEW f \in 0 .. 7, NEW c \in ConfigSpace,
         Id(b, d, f) \in DOMAIN config, config[Id(b, d, f)] = c
  PROVE  PortBase(config, b, d, f) # Uninitialised => IsPortBase(c, PortBase(config, b, d, f))
<1> DEFINE bar(i) == BaseAddressRegister(config, b, d, f, i)
           ports == {i \in 0 .. 5 : bar(i).address # NoAddress /\ bar(i).io}
           last == CHOOSE i \in ports : \A j \in ports : j <= i
           h == Uint8(pci_read(config, b, d, f, 14)) % 128
<1>1. PortBase(config, b, d, f) = IF ports = {} THEN Uninitialised ELSE bar(last).address
  BY DEF PortBase
<1>2. SUFFICES ASSUME ports # {} PROVE IsPortBase(c, bar(last).address)
  BY <1>1
<1>3. last \in ports
  <2>1. ports \in SUBSET (0 .. 5)
    OBVIOUS
  <2> HIDE DEF ports
  <2>2. \E i \in ports : \A j \in ports : j <= i
    BY <1>2, <2>1, LastPort
  <2>3. QED
    BY <2>2
<1>4. h = c.type
  <2> DEFINE t == c.type
             m == IF c.multi THEN 128 ELSE 0
  <2>1. Uint8(pci_read(config, b, d, f, 14)) = m + t
    BY FunctionRead
  <2>2. t \in 0 .. 127 /\ m \in {0, 128}
    BY DEF ConfigSpace
  <2> HIDE DEF t, m
  <2>3. (m + t) % 128 = t
    BY <2>2
  <2>4. QED
    BY <2>1, <2>3 DEF t
<1> DEFINE i == last
           v == pci_read(config, b, d, f, 16 + 4 * i)
           io == v[1] % 2 = 1
           value == [v EXCEPT ![1] = @ - (@ % (IF io THEN 4 ELSE 16))]
<1>5. i \in 0 .. 5 /\ bar(i).address # NoAddress /\ bar(i).io
  BY <1>3
<1>6. v = c.bars[i + 1]
  BY <1>5, BarRead
<1>7. bar(i) = IF i >= max_bars(h) THEN [address |-> NoAddress, io |-> FALSE]
               ELSE [address |-> value, io |-> io]
  BY DEF BaseAddressRegister
<1> HIDE DEF bar, h, v, last, value
<1>8. i < max_bars(h) /\ bar(i).address = value /\ io
  <2>1. max_bars(h) \in Int
    BY <1>4 DEF max_bars, ConfigSpace
  <2>2. ~(i >= max_bars(h))
    BY <1>5, <1>7
  <2>3. bar(i).address = value /\ bar(i).io = io
    BY <1>7, <2>2
  <2> HIDE DEF i, io
  <2>4. io
    BY <1>5, <2>3, Zenon
  <2>5. i < max_bars(h)
    BY <1>5, <2>1, <2>2
  <2>6. QED
    BY <2>3, <2>4, <2>5, Zenon
<1>9. i + 1 \in 1 .. BarsOf(c)
  <2>1. c.type \in 0 .. 127
    BY DEF ConfigSpace
  <2>2. i < 6 - 4 * c.type
    BY <1>4, <1>8 DEF max_bars
  <2>3. QED
    BY <1>5, <2>1, <2>2 DEF BarsOf
<1>10. c.bars[i + 1] \in [1 .. 4 -> Byte]
  BY <1>5 DEF ConfigSpace
<1>11. value = [v EXCEPT ![1] = 4 * (@ \div 4)]
  <2> DEFINE a == v[1]
  <2>1. a \in Byte
    BY <1>6, <1>10
  <2>2. value = [v EXCEPT ![1] = a - (a % 4)]
    BY <1>8 DEF value
  <2> HIDE DEF a
  <2>3. a - (a % 4) = 4 * (a \div 4)
    BY <2>1 DEF Byte
  <2>4. QED
    BY <2>2, <2>3 DEF a
<1>12. QED
  BY <1>6, <1>8, <1>9, <1>11 DEF IsPortBase

\* Only ScanFunction adds to what has been found.
LEMMA FoundStep ==
  ASSUME [Next]_vars
  PROVE  config' = config /\ (ScanFunction \/ found' = found)
  BY DEF Next, Execute, SetUp, Draw, vars, pci, HandleInterrupt, Return, Interrupt, Start,
         InitDrivers, BeginDevice, EndDevice, NextDevice, ScanFunction, Activate, SetMisc,
         SetSequencer, UnlockCRTC, SetCRTC, SetGraphicsController, SetAttributeController, SetVideo,
         Loop, SetMode, EnterDesktop, StartFill, SkipPixel, PutPixel, ReadSegment, Store, NextRow,
         NextWidget, Moving

PortInv ==
  \A f \in found : f.portBase = PortBase(config, f.id.bus, f.id.device, f.id.function)

LEMMA PortNext == PortInv /\ [Next]_vars => PortInv'
<1> SUFFICES ASSUME PortInv, [Next]_vars PROVE PortInv'
  OBVIOUS
<1>1. CASE found' = found
  BY <1>1, FoundStep DEF PortInv
<1>2. CASE ScanFunction
  <2> DEFINE b == scan.bus
             d == scan.device
             f == scan.function
             r == [id |-> Id(b, d, f), portBase |-> PortBase(config, b, d, f)]
  <2>1. found' = found \union {r}
    BY <1>2 DEF ScanFunction
  <2>2. r.id.bus = b /\ r.id.device = d /\ r.id.function = f /\ r.portBase = PortBase(config, b, d, f)
    BY DEF Id
  <2> HIDE DEF b, d, f, r
  <2>3. QED
    BY <2>1, <2>2, FoundStep DEF PortInv
<1>3. QED
  BY <1>1, <1>2, FoundStep

LEMMA FoundIsVisible ==
  ASSUME ScanInv, cpu.eip \in Labels
  PROVE  \A f \in found : f.id \in Visible
<1>1. CASE cpu.eip \in {"start", "drivers"}
  BY <1>1 DEF ScanInv
<1>2. CASE cpu.eip \notin {"start", "drivers"}
  <2>1. Ids \subseteq Visible
    BY <1>2 DEF ScanInv, Scanned, Scanning
  <2>2. QED
    BY <2>1 DEF Ids
<1>3. QED
  BY <1>1, <1>2

-----------------------------------------------------------------------------
(* Lines                                                                   *)

\* A line that fits the screen is one line.
LEMMA OneLine ==
  ASSUME NEW y \in Nat, NEW n \in 0 .. 79
  PROVE  Line([x |-> 0, y |-> y], n) = [x |-> 0, y |-> y + 1]
<1>1. (y * 80 + 0 + n) \div 80 = y
  OBVIOUS
<1>2. QED
  BY <1>1 DEF Line, Newline, Characters, Location, Columns

LEMMA LogFits ==
  ASSUME NEW v
  PROVE  LogLength(v) \in 0 .. 79
<1>1. NameLength(v) \in {0, 12, 3, 15}
  BY DEF NameLength
<1>2. QED
  BY <1>1 DEF LogLength

LineInv ==
  /\ cpu.eip = "start" => con = Home
  /\ cpu.eip = "drivers" => con = [x |-> 0, y |-> 2]
  /\ cpu.eip \in {"device", "function"} => IsFiniteSet(found)
  /\ OneLineEach

LEMMA LineInit == Init => LineInv
  BY DEF Init, LineInv, OneLineEach

LEMMA LineNext == IInv /\ IInv' /\ ScanInv /\ ScanInv' /\ LineInv /\ [Next]_vars => LineInv'
<1> SUFFICES ASSUME IInv, IInv', ScanInv, ScanInv', LineInv, [Next]_vars PROVE LineInv'
  OBVIOUS
<1>1. card \in Card
  BY DEF IInv, CardInv
<1>2. CASE Start
  <2>1. cpu'.eip = "drivers"
    BY <1>2, Went DEF Start, Labels
  <2>2. con = [x |-> 0, y |-> 0]
    BY <1>2 DEF Start, At, LineInv, Home
  <2>3. con' = Line(Line(con, 26), 28)
    BY <1>2 DEF Start, kprintf
  <2>4. con' = [x |-> 0, y |-> 2]
    <3>1. Line(con, 26) = [x |-> 0, y |-> 1]
      BY <2>2, OneLine
    <3>2. Line([x |-> 0, y |-> 1], 28) = [x |-> 0, y |-> 2]
      BY OneLine
    <3>3. QED
      BY <2>3, <3>1, <3>2
  <2>5. QED
    BY <2>1, <2>4 DEF LineInv, OneLineEach
<1>3. CASE InitDrivers
  <2>1. cpu'.eip = "device"
    BY <1>3, Went DEF InitDrivers, Labels
  <2>2. con = [x |-> 0, y |-> 2] /\ found = {} /\ found' = found
    BY <1>3 DEF InitDrivers, At, LineInv, ScanInv
  <2>3. kprintf(Line(Line(Line(con, 31), 28), 30))
    BY <1>3 DEF InitDrivers
  <2>4. Line(Line(Line(con, 31), 28), 30) = [x |-> 0, y |-> 5]
    <3>1. Line(con, 31) = [x |-> 0, y |-> 3]
      BY <2>2, OneLine
    <3>2. Line([x |-> 0, y |-> 3], 28) = [x |-> 0, y |-> 4]
      BY OneLine
    <3>3. Line([x |-> 0, y |-> 4], 30) = [x |-> 0, y |-> 5]
      BY OneLine
    <3>4. QED
      BY <3>1, <3>2, <3>3
  <2>5. con' = [x |-> 0, y |-> 5] /\ HardwareCursor(card') = Location([x |-> 0, y |-> 5]) % 65536
    <3>1. [x |-> 0, y |-> 5] \in ConsoleType
      BY DEF ConsoleType, Columns
    <3>2. QED
      BY <1>1, <2>3, <2>4, <3>1, Printed
  <2>6. IsFiniteSet(found') /\ Cardinality(found') = 0
    BY <2>2, FS_EmptySet
  <2>7. 5 + Cardinality(found') = 5
    BY <2>6
  <2>8. QED
    BY <2>1, <2>5, <2>6, <2>7 DEF LineInv, OneLineEach
<1>4. CASE ScanFunction
  <2> DEFINE b == scan.bus
             d == scan.device
             f == scan.function
             r == [id |-> Id(b, d, f), portBase |-> PortBase(config, b, d, f)]
             n == LogLength(Descriptor(config, b, d, f))
             k == Cardinality(found)
  <2>1. /\ cpu.eip = "function" /\ cpu' = cpu
        /\ found' = found \union {r} /\ kprintf(Line(con, n))
    BY <1>4 DEF ScanFunction, At
  <2>2. /\ IsFiniteSet(found) /\ con = [x |-> 0, y |-> 5 + k]
        /\ scan \in ScanType /\ Ids = Scanned(Visible, b, d, f)
    BY <2>1 DEF LineInv, OneLineEach, ScanInv
  <2>3. r \notin found
    <3>1. SUFFICES ASSUME r.id \in Scanned(Visible, b, d, f) PROVE FALSE
      BY <2>2 DEF Ids
    <3>2. r.id.bus = b /\ r.id.device = d /\ r.id.function = f
      BY DEF Id
    <3>3. b \in Nat /\ d \in Nat /\ f \in Nat
      BY <2>2 DEF ScanType
    <3> HIDE DEF r, b, d, f
    <3>4. QED
      BY <3>1, <3>2, <3>3 DEF Scanned
  <2>4. n \in 0 .. 79
    BY LogFits
  <2> HIDE DEF r, n
  <2>5. k \in Nat /\ Cardinality(found') = k + 1 /\ IsFiniteSet(found')
    BY <2>1, <2>2, <2>3, FS_AddElement, FS_CardinalityType
  <2> HIDE DEF k
  <2>6. Line(con, n) = [x |-> 0, y |-> 5 + (k + 1)]
    <3>1. 5 + k \in Nat /\ 5 + k + 1 = 5 + (k + 1)
      BY <2>5
    <3>2. QED
      BY <2>2, <2>4, <3>1, OneLine
  <2>7. Line(con, n) \in ConsoleType
    BY <2>5, <2>6 DEF ConsoleType, Columns
  <2>8. con' = [x |-> 0, y |-> 5 + Cardinality(found')]
        /\ HardwareCursor(card') = Location(con') % 65536
    BY <1>1, <2>1, <2>5, <2>6, <2>7, Printed
  <2>9. cpu'.eip = "function"
    BY <2>1
  <2>10. OneLineEach'
    BY <2>8 DEF OneLineEach
  <2>11. QED
    BY <2>5, <2>9, <2>10 DEF LineInv
<1>5. CASE BeginDevice \/ EndDevice
  <2>1. /\ con' = con /\ card' = card /\ found' = found
        /\ cpu.eip \in {"device", "function"} /\ (Goto("function") \/ Goto("device"))
    BY <1>5 DEF BeginDevice, EndDevice, NextDevice, At
  <2>2. cpu'.eip \in {"device", "function"}
    BY <2>1, Went DEF Labels
  <2>3. QED
    BY <2>1, <2>2 DEF LineInv, OneLineEach
<1>6. ASSUME cpu'.eip \notin Scanning PROVE LineInv'
  BY <1>6 DEF LineInv, OneLineEach, Scanning
<1>7. CASE UNCHANGED vars
  BY <1>7 DEF LineInv, OneLineEach, vars, pci
<1>8. CASE Activate
  BY <1>6, <1>8, Went DEF Activate, Labels, Scanning
<1>9. QED
  BY <1>2, <1>3, <1>4, <1>5, <1>6, <1>7, <1>8, SettingOrDrawing, Aside DEF Next, Execute, SetUp

-----------------------------------------------------------------------------
(* Theorems                                                                *)

LEMMA ScanInvariance == Spec => []ScanInv
<1>1. Spec => [](IInv /\ ScanInv)
  BY InitIInv, NextIInv, ScanInit, ScanNext, PTL DEF Spec
<1>2. QED
  BY <1>1, PTL

\* Without a gap, what the loop is left with is what there is.
LEMMA VisibleIsInstalled ==
  ASSUME Gapless, config \in Configs
  PROVE  Visible = Installed
<1>1. \A id \in DOMAIN config : id.function \in 0 .. 7 /\ id = Id(id.bus, id.device, id.function)
  BY ConfigType DEF FunctionId, Id
<1>2. ASSUME NEW id \in Visible
      PROVE  id \in Installed
  <2>1. 0 \in 0 .. id.function /\ id.function \in 0 .. id.function
    BY <1>1, <1>2 DEF Visible
  <2>2. QED
    BY <1>2, <2>1 DEF Visible, Installed
<1>3. ASSUME NEW id \in Installed
      PROVE  id \in Visible
  <2>1. id \in DOMAIN config /\ There(id.bus, id.device, id.function)
        /\ (id.function > 0 => There(id.bus, id.device, 0))
    BY <1>3 DEF Installed
  <2>2. Answers(config, id)
    BY <1>1, <2>1 DEF There
  <2>3. ASSUME NEW g \in 0 .. id.function
        PROVE  There(id.bus, id.device, g)
    <3>1. CASE g = 0
      BY <1>1, <2>1, <3>1
    <3>2. CASE g \in 1 .. id.function
      BY <2>1, <2>2, <3>2 DEF Gapless, There
    <3>3. QED
      BY <1>1, <2>1, <3>1, <3>2
  <2>4. QED
    BY <1>3, <2>3 DEF Visible, Installed
<1>4. QED
  BY <1>2, <1>3

\* Whatever answers on the buses, and for any number of them, the scan ends with all
\* that is there and nothing else, if no device numbers its functions with a gap.
THEOREM FindsAll == Gapless /\ Spec => []ScanFindsAll
<1> DEFINE J == Gapless
<1>1. J => []J
  <2>1. J => J'
    BY DEF J, Gapless, Answers, Id
  <2>2. QED
    BY <2>1, PTL
<1>2. J /\ ScanInv => ScanFindsAll
  BY VisibleIsInstalled DEF ScanInv, ScanFindsAll, Scanning, Ids
<1> HIDE DEF J
<1>3. J /\ Spec => []ScanFindsAll
  BY <1>1, <1>2, ScanInvariance, PTL
<1>4. QED
  BY <1>3 DEF J

\* For every content of the configuration spaces, the I/O base noted for a function
\* is a base address it has, and an I/O one.
THEOREM PortsAreRight == Spec => []PortsAreBaseAddresses
<1>1. Init => PortInv
  BY DEF Init, PortInv
<1>2. Spec => []PortInv
  BY <1>1, PortNext, PTL DEF Spec
<1>3. IInv /\ ScanInv /\ PortInv => PortsAreBaseAddresses
  <2> SUFFICES ASSUME IInv, ScanInv, PortInv, NEW f \in found, f.portBase # Uninitialised
               PROVE  IsPortBase(config[f.id], f.portBase)
    BY DEF PortsAreBaseAddresses, IsPortBase, BarsOf
  <2>1. cpu.eip \in Labels /\ config \in Configs
    BY DEF IInv, FrameInv, Machine, ScanInv
  <2> DEFINE id == f.id
  <2>2. id \in Visible
    BY <2>1, FoundIsVisible
  <2>3. /\ id.bus \in 0 .. 255 /\ id.device \in 0 .. 31 /\ id.function \in 0 .. 7
        /\ id \in DOMAIN config /\ id = Id(id.bus, id.device, id.function)
    BY <2>1, <2>2, VisibleType, LoopBounds
  <2>4. config[id] \in ConfigSpace
    BY <2>1, <2>3, ConfigType
  <2>5. f.portBase = PortBase(config, id.bus, id.device, id.function)
    BY DEF PortInv
  <2>6. QED
    BY <2>3, <2>4, <2>5, PortBaseRight
<1>4. QED
  BY <1>2, <1>3, Invariance, ScanInvariance, PTL

\* However many functions are logged, each takes one line.
THEOREM OneLinePerFunction == Spec => []OneLineEach
<1>1. Spec => []LineInv
  BY InitIInv, NextIInv, ScanInit, ScanNext, LineInit, LineNext, PTL DEF Spec
<1>2. LineInv => OneLineEach
  BY DEF LineInv
<1>3. QED
  BY <1>1, <1>2, PTL
=============================================================================
