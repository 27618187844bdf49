--------------------------- MODULE InputPathProofs ---------------------------
(***************************************************************************)
(* Proofs about module InputPath: for every firmware, every input at any   *)
(* time, every wait that times out and every controller slower than the    *)
(* delays, variables keep their types and no wake-up is lost; and after an *)
(* undisturbed boot both devices are enabled, from every firmware that has *)
(* scan codes translated.  Once each request of the keyboard has its byte, *)
(* that stays so, and the bytes of the mouse arrive in order.              *)
(***************************************************************************)
EXTENDS InputPath, SequenceTheorems, TLAPS

-----------------------------------------------------------------------------
(* The controller                                                          *)

\* Setting and clearing a bit of the configuration byte; the two clear bits that
\* enable no interrupt.
LEMMA Masks ==
  ASSUME NEW b \in Byte
  PROVE  /\ With(b, IRQ1Enable) \in Byte /\ With(b, IRQ12Enable) \in Byte
         /\ Without(b, KeyboardOff) \in Byte /\ Without(b, MouseOff) \in Byte
  BY DEF With, Without, Bit, Byte, IRQ1Enable, IRQ12Enable, KeyboardOff, MouseOff

LEMMA EnablesKept ==
  ASSUME NEW b \in Byte, NEW m \in {KeyboardOff, MouseOff}, NEW e \in {IRQ1Enable, IRQ12Enable}
  PROVE  Bit(Without(b, m), e) <=> Bit(b, e)
  BY DEF Without, Bit, Byte, IRQ1Enable, IRQ12Enable, KeyboardOff, MouseOff

Commands == {174, 168, 32, 96, 212}

LEMMA CommandSteps ==
  ASSUME NEW c \in Controller, NEW d \in Commands
  PROVE  /\ Command(c, d) \in Controller
         /\ Wires(Command(c, d)) = Wires(c)
         /\ d = 212 => Command(c, d).expect = "aux"
<1>1. c.ccb \in Byte /\ c.ctl \in Seq(Bytes)
  BY DEF Controller
<1>2. ASSUME NEW m \in {KeyboardOff, MouseOff}
      PROVE  LET n == [c EXCEPT !.expect = "none", !.ccb = Without(@, m)]
             IN  n \in Controller /\ Wires(n) = Wires(c)
  <2> DEFINE b == Without(c.ccb, m)
             n == [c EXCEPT !.expect = "none", !.ccb = b]
  <2>1. b \in Byte /\ (Bit(b, IRQ1Enable) <=> Bit(c.ccb, IRQ1Enable))
        /\ (Bit(b, IRQ12Enable) <=> Bit(c.ccb, IRQ12Enable))
    BY <1>1, Masks, EnablesKept
  <2> HIDE DEF b
  <2>2. n \in Controller /\ n.full = c.full /\ n.out = c.out /\ n.ccb = b
    BY <2>1 DEF Controller
  <2> HIDE DEF n
  <2>3. Wires(n) = Wires(c)
    BY <2>1, <2>2 DEF Wires
  <2>4. QED
    BY <2>2, <2>3 DEF n, b
<1>3. CASE d = 174
  BY <1>2, <1>3 DEF Command
<1>4. CASE d = 168
  BY <1>2, <1>4 DEF Command
<1>5. CASE d = 32
  <2> DEFINE a == [val |-> c.ccb, src |-> "ctl", what |-> "config"]
             s == Append(c.ctl, a)
             n == [c EXCEPT !.expect = "none", !.ctl = s]
  <2>1. a \in Bytes
    BY <1>1 DEF Bytes
  <2> HIDE DEF a
  <2>2. s \in Seq(Bytes)
    BY <1>1, <2>1
  <2> HIDE DEF s
  <2>3. n \in Controller /\ n.full = c.full /\ n.out = c.out /\ n.ccb = c.ccb
    BY <2>2 DEF Controller
  <2>4. Command(c, d) = n
    BY <1>5 DEF Command, s, a
  <2> HIDE DEF n
  <2>5. QED
    BY <1>5, <2>3, <2>4 DEF Wires
<1>6. CASE d \in {96, 212}
  <2> DEFINE e == IF d = 96 THEN "ccb" ELSE "aux"
             n == [c EXCEPT !.expect = e]
  <2>1. n \in Controller /\ n.full = c.full /\ n.out = c.out /\ n.ccb = c.ccb /\ n.expect = e
    BY DEF Controller
  <2>2. Command(c, d) = n
    BY <1>6 DEF Command
  <2> HIDE DEF n
  <2>3. QED
    BY <1>6, <2>1, <2>2 DEF Wires
<1>7. QED
  BY <1>3, <1>4, <1>5, <1>6 DEF Commands

\* A byte to the data port changes the lines only as a configuration.
LEMMA DataSteps ==
  ASSUME NEW c \in Controller, NEW d \in Byte
  PROVE  /\ Data(c, d) \in Controller
         /\ Data(c, d).expect # "ccb"
         /\ c.expect # "ccb" => Wires(Data(c, d)) = Wires(c)
<1>1. c.expect \in {"none", "ccb", "aux"} /\ c.kbd \in Seq(Bytes) /\ c.aux \in Seq(Bytes)
  BY DEF Controller
<1>2. CASE c.expect = "ccb"
  <2>1. Data(c, d) = [c EXCEPT !.expect = "none", !.ccb = d]
    BY <1>2 DEF Data
  <2>2. QED
    BY <1>2, <2>1 DEF Controller
<1>3. CASE c.expect = "aux"
  <2> DEFINE a == [val |-> 250, src |-> "aux", what |-> "ack"]
             s == Append(c.aux, a)
             t == IF d = 244 THEN TRUE ELSE IF d = 246 THEN FALSE ELSE c.streaming
             n == [c EXCEPT !.expect = "none", !.aux = s, !.streaming = t]
  <2>1. a \in Bytes
    BY DEF Bytes, Byte
  <2> HIDE DEF a
  <2>2. s \in Seq(Bytes) /\ t \in BOOLEAN
    <3>1. c.streaming \in BOOLEAN
      BY DEF Controller
    <3>2. s \in Seq(Bytes)
      BY <1>1, <2>1
    <3>3. t \in BOOLEAN
      BY <3>1, Zenon
    <3>4. QED
      BY <3>2, <3>3
  <2>3. Data(c, d) = n
    BY <1>3 DEF Data, a
  <2> HIDE DEF s, t
  <2>4. n \in Controller /\ n.full = c.full /\ n.out = c.out /\ n.ccb = c.ccb /\ n.expect = "none"
    BY <2>2 DEF Controller
  <2> HIDE DEF n
  <2>5. QED
    BY <1>3, <2>3, <2>4 DEF Wires
<1>4. CASE c.expect = "none"
  <2> DEFINE a == [val |-> 250, src |-> "kbd", what |-> "ack"]
             s == Append(c.kbd, a)
             n == [c EXCEPT !.kbd = s]
  <2>1. a \in Bytes
    BY DEF Bytes, Byte
  <2> HIDE DEF a
  <2>2. s \in Seq(Bytes)
    BY <1>1, <2>1
  <2>3. Data(c, d) = n
    BY <1>4 DEF Data, a
  <2> HIDE DEF s
  <2>4. n \in Controller /\ n.full = c.full /\ n.out = c.out /\ n.ccb = c.ccb /\ n.expect = c.expect
    BY <2>2 DEF Controller
  <2> HIDE DEF n
  <2>5. QED
    BY <1>4, <2>3, <2>4 DEF Wires
<1>5. QED
  BY <1>1, <1>2, <1>3, <1>4

\* Nothing holds a line up behind a read.
LEMMA ReadSteps ==
  ASSUME NEW c \in Controller
  PROVE  /\ Read(c) \in Controller /\ Wires(Read(c)) = {}
         /\ c.out \in Bytes /\ c.out.val \in Byte /\ Read(c).expect = c.expect
<1>1. Read(c) = [c EXCEPT !.full = FALSE]
  BY DEF Read
<1>2. Read(c) \in Controller /\ ~Read(c).full /\ Read(c).expect = c.expect
  BY <1>1 DEF Controller
<1>3. c.out \in Bytes /\ c.out.val \in Byte
  BY DEF Controller, Bytes
<1>4. QED
  BY <1>2, <1>3 DEF Wires

LEMMA LoadSteps ==
  ASSUME NEW c \in Controller, NEW q \in Ready(c)
  PROVE  Load(c, q) \in Controller /\ Load(c, q).expect = c.expect
<1>1. q \in {"kbd", "aux", "ctl"} /\ c[q] # <<>>
  BY DEF Ready
<1>2. c[q] \in Seq(Bytes)
  BY <1>1 DEF Controller
<1> DEFINE h == Head(c[q])
           t == Tail(c[q])
<1>3. h \in Bytes /\ t \in Seq(Bytes)
  BY <1>1, <1>2
<1>4. Load(c, q) = [c EXCEPT !.full = TRUE, !.out = h, ![q] = t]
  BY DEF Load
<1> HIDE DEF h, t
<1>5. QED
  BY <1>1, <1>3, <1>4 DEF Controller

-----------------------------------------------------------------------------
(* The inductive invariant                                                 *)

\* Until the keyboard driver has read port 0x60 for the first time, the firmware's
\* byte may hold a line up whose edge nobody has seen.
Unread == {"kb_start", "kb_drain", "kb_enable", "kb_request", "kb_read"}

Watched(m, p) == m = "desktop" \/ p \notin Unread

InHandler == {"kb_isr", "ms_isr", "eoi"}

WakeInv ==
  /\ Watched(mode, pc) => Wires(ctl) \subseteq pending \union serving
  /\ pc \notin InHandler \union {"wild"} => serving = {}
  /\ pc = "kb_isr" => serving = {1}
  /\ pc = "ms_isr" => serving = {12}
  /\ pc = "eoi" => serving # {} /\ Wires(ctl) \subseteq pending
  /\ pc = "kb_scan" => ctl.expect # "ccb"
  /\ pc \in {"sti"} \union Running => mode = "desktop"

DrainInv == pc = "kb_drain" => drain >= 0

IInv == TypeOK /\ WakeInv /\ DrainInv

LEMMA WireLines == \A c : Wires(c) \subseteq {1, 12}
  BY DEF Wires

LEMMA Latched ==
  ASSUME Latch, pending \subseteq {1, 12}
  PROVE  /\ pending' \subseteq {1, 12} /\ pending \subseteq pending'
         /\ \A S : Wires(ctl) \subseteq pending \union S => Wires(ctl') \subseteq pending' \union S
  BY WireLines DEF Latch

LEMMA Timeouts == \A q \in BOOLEAN : DrainTimeout[q] \in Nat
<1>1. DrainTimeout \in [BOOLEAN -> Nat]
  BY InputAssumption
<1>2. QED
  BY <1>1

LEMMA Handlers ==
  ASSUME NEW m \in {"text", "desktop"}
  PROVE  /\ KeyboardEvenHandler(m) \in [OnKeyDown : Nat, OnKeyUp : Nat]
         /\ MouseEventHandler(m) \in [Slots -> Nat]
<1>1. KeyboardEvenHandler(m) \in [OnKeyDown : Nat, OnKeyUp : Nat]
  BY DEF KeyboardEvenHandler, my_keydown_handler, KernelBase, desktop
<1>2. MouseEventHandler(m) \in [OnMouseDown : Nat, OnMouseUp : Nat, OnMouseMove : Nat]
  BY DEF MouseEventHandler, my_mousemove_handler, KernelBase, desktop
<1>3. QED
  BY <1>1, <1>2 DEF Slots

LEMMA Called0 ==
  ASSUME NEW addresses \in SUBSET Nat, NEW next, Call(addresses, next), jumped \subseteq Nat
  PROVE  jumped' \subseteq Nat /\ pc' \in {next, "wild"}
  BY DEF Call

-----------------------------------------------------------------------------
(* Preservation: the devices                                               *)

LEMMA InitIInv == Init => IInv
<1> SUFFICES ASSUME Init PROVE IInv
  OBVIOUS
<1>1. ctl \in Controller
  <2>1. PICK c \in Firmware, pressed \in ScanCodes, f \in BOOLEAN :
          ctl = [full |-> f, out |-> [val |-> pressed, src |-> "kbd", what |-> "scan"],
                 ccb |-> c, expect |-> "none", kbd |-> <<>>, aux |-> <<>>, ctl |-> <<>>,
                 streaming |-> FALSE]
    BY DEF Init
  <2> DEFINE o == [val |-> pressed, src |-> "kbd", what |-> "scan"]
  <2>2. c \in Byte /\ o \in Bytes
    BY InputAssumption DEF Bytes
  <2>3. <<>> \in Seq(Bytes)
    OBVIOUS
  <2> HIDE DEF o
  <2>4. QED
    BY <2>1, <2>2, <2>3 DEF Controller, o
<1>2. quiet \in BOOLEAN /\ DrainTimeout[quiet] \in Nat /\ drain = DrainTimeout[quiet]
  BY Timeouts, InputAssumption DEF Init
<1>3. kb \in [OnKeyDown : Nat, OnKeyUp : Nat]
  BY DEF Init
<1>4. ms \in [handler : [Slots -> Nat], offset : 0 .. 2,
               buffer : Byte \X Byte \X Byte, buttons : Byte]
  BY DEF Init, Byte
<1>5. live = FALSE /\ pending = {} /\ serving = {} /\ took = <<>> /\ jumped = {}
      /\ pc = "kb_start" /\ mode = "text" /\ status = 0 /\ cmd = 1
      /\ scans = 0 /\ reports = 0 /\ stalls = 0
  BY DEF Init, Delivery!Init
<1>6. TypeOK
  <2>1. 0 \in Byte /\ 1 \in 1 .. Len(DeviceCommands)
    BY DEF Byte, DeviceCommands
  <2>2. drain \in -1 .. DrainTimeout[quiet]
    BY <1>2
  <2>3. MaxScans \in Nat /\ MaxReports \in Nat /\ MaxStalls \in Nat
    BY InputAssumption
  <2>4. pc \in Labels /\ live \in BOOLEAN
    BY <1>5 DEF Labels
  <2>5. QED
    BY <1>1, <1>2, <1>3, <1>4, <1>5, <2>1, <2>2, <2>3, <2>4 DEF TypeOK
<1>7. WakeInv
  BY <1>5 DEF WakeInv, Watched, Unread, InHandler, Running
<1>8. QED
  BY <1>2, <1>5, <1>6, <1>7 DEF IInv, DrainInv

LEMMA KeyPressIInv == IInv /\ KeyPress => IInv'
<1> SUFFICES ASSUME IInv, KeyPress PROVE IInv'
  OBVIOUS
<1>1. PICK k \in ScanCodes :
        ctl' = [ctl EXCEPT !.kbd = Append(@, [val |-> k, src |-> "kbd", what |-> "scan"])]
  BY DEF KeyPress
<1> DEFINE a == [val |-> k, src |-> "kbd", what |-> "scan"]
           q == Append(ctl.kbd, a)
<1>2. a \in Bytes
  BY InputAssumption DEF Bytes
<1> HIDE DEF a
<1>3. q \in Seq(Bytes)
  BY <1>2 DEF IInv, TypeOK, Controller
<1>4. ctl' = [ctl EXCEPT !.kbd = q]
  BY <1>1 DEF q, a
<1> HIDE DEF q
<1>5. ctl' \in Controller /\ ctl'.expect = ctl.expect /\ Wires(ctl') = Wires(ctl)
  BY <1>3, <1>4 DEF IInv, TypeOK, Controller, Wires
<1>6. scans' \in 0 .. MaxScans
  BY InputAssumption DEF KeyPress, IInv, TypeOK
<1>7. /\ UNCHANGED <<quiet, pc, mode, drain, status, cmd, kb, ms, live, pending, serving>>
      /\ UNCHANGED <<took, jumped, reports, stalls>>
  BY DEF KeyPress, boot, irq
<1>8. TypeOK'
  BY <1>5, <1>6, <1>7 DEF IInv, TypeOK
<1>9. WakeInv' /\ DrainInv'
  <2>1. Watched(mode, pc)' <=> Watched(mode, pc)
    BY <1>7
  <2>2. QED
    BY <1>5, <1>7, <2>1 DEF IInv, WakeInv, DrainInv
<1>10. QED
  BY <1>8, <1>9 DEF IInv

LEMMA MouseReportIInv == IInv /\ MouseReport => IInv'
<1> SUFFICES ASSUME IInv, MouseReport PROVE IInv'
  OBVIOUS
<1>1. PICK r \in Reports :
        ctl' = [ctl EXCEPT !.aux = @ \o
                  [i \in 1 .. 3 |-> [val |-> r[i], src |-> "aux", what |-> "report"]]]
  BY DEF MouseReport
<1> DEFINE p == [i \in 1 .. 3 |-> [val |-> r[i], src |-> "aux", what |-> "report"]]
           q == ctl.aux \o p
<1>2. p \in Seq(Bytes)
  <2>1. r[1] \in Byte /\ r[2] \in Byte /\ r[3] \in Byte
    BY InputAssumption
  <2>2. \A i \in 1 .. 3 : [val |-> r[i], src |-> "aux", what |-> "report"] \in Bytes
    BY <2>1 DEF Bytes
  <2>3. QED
    BY <2>2
<1> HIDE DEF p
<1>3. q \in Seq(Bytes)
  BY <1>2 DEF IInv, TypeOK, Controller
<1>4. ctl' = [ctl EXCEPT !.aux = q]
  BY <1>1 DEF q, p
<1> HIDE DEF q
<1>5. ctl' \in Controller /\ ctl'.expect = ctl.expect /\ Wires(ctl') = Wires(ctl)
  BY <1>3, <1>4 DEF IInv, TypeOK, Controller, Wires
<1>6. reports' \in 0 .. MaxReports
  BY InputAssumption DEF MouseReport, IInv, TypeOK
<1>7. /\ UNCHANGED <<quiet, pc, mode, drain, status, cmd, kb, ms, live, pending, serving>>
      /\ UNCHANGED <<took, jumped, scans, stalls>>
  BY DEF MouseReport, boot, irq
<1>8. TypeOK'
  BY <1>5, <1>6, <1>7 DEF IInv, TypeOK
<1>9. WakeInv' /\ DrainInv'
  <2>1. Watched(mode, pc)' <=> Watched(mode, pc)
    BY <1>7
  <2>2. QED
    BY <1>5, <1>7, <2>1 DEF IInv, WakeInv, DrainInv
<1>10. QED
  BY <1>8, <1>9 DEF IInv

LEMMA LoadByteIInv == IInv /\ LoadByte => IInv'
<1> SUFFICES ASSUME IInv, LoadByte PROVE IInv'
  OBVIOUS
<1>1. ctl' \in Controller /\ ctl'.expect = ctl.expect
  BY LoadSteps DEF LoadByte, IInv, TypeOK
<1>2. Latch /\ pending \subseteq {1, 12} /\ serving' = serving /\ live' = live
  BY DEF LoadByte, Latch, IInv, TypeOK
<1>3. UNCHANGED <<quiet, pc, boot, kb, ms, took, jumped, counters>>
  BY DEF LoadByte
<1>4. TypeOK'
  BY <1>1, <1>2, <1>3, Latched DEF IInv, TypeOK, boot, counters
<1>5. WakeInv'
  <2>1. Wires(ctl) \subseteq pending => Wires(ctl') \subseteq pending'
    <3>1. Wires(ctl) \subseteq pending \union {} => Wires(ctl') \subseteq pending' \union {}
      BY <1>2, Latched
    <3>2. QED
      BY <3>1
  <2>2. Wires(ctl) \subseteq pending \union serving => Wires(ctl') \subseteq pending' \union serving
    BY <1>2, Latched
  <2>3. QED
    BY <1>1, <1>2, <1>3, <2>1, <2>2 DEF IInv, WakeInv, boot
<1>6. QED
  BY <1>3, <1>4, <1>5 DEF IInv, DrainInv, boot

-----------------------------------------------------------------------------
(* Preservation: the boot                                                  *)

BootLabels == Labels \ (Running \union {"wild"})

\* A step from one label of the boot to another.
LEMMA BootStep ==
  ASSUME IInv, pc \in BootLabels, pc' \in BootLabels, serving' = serving, mode' = mode,
         Watched(mode, pc') => Wires(ctl') \subseteq pending' \union serving,
         pc' = "kb_scan" => ctl'.expect # "ccb",
         pc' = "sti" => mode = "desktop"
  PROVE  WakeInv'
  BY DEF IInv, WakeInv, BootLabels, Running, InHandler

\* A step whose edges the controllers latch.
LEMMA LatchedStep ==
  ASSUME IInv, Latch, Watched(mode, pc)
  PROVE  /\ pending' \subseteq {1, 12} /\ serving' = serving /\ live' = live
         /\ Wires(ctl') \subseteq pending' \union serving
<1>1. pending \subseteq {1, 12} /\ Wires(ctl) \subseteq pending \union serving
  BY DEF IInv, TypeOK, WakeInv
<1>2. QED
  BY <1>1, Latched DEF Latch

\* A step that leaves the lines as they are.
LEMMA SilentStep ==
  ASSUME IInv, Wires(ctl') = Wires(ctl), UNCHANGED irq, Watched(mode, pc)
  PROVE  Wires(ctl') \subseteq pending' \union serving
  BY DEF IInv, WakeInv, irq

LEMMA KeyboardStartIInv == IInv /\ KeyboardStart => IInv'
<1> SUFFICES ASSUME IInv, KeyboardStart PROVE IInv'
  OBVIOUS
<1>1. /\ pc = "kb_start" /\ pc' = "kb_drain" /\ kb' = KeyboardEvenHandler(mode)
      /\ drain' = DrainTimeout[quiet]
      /\ UNCHANGED <<quiet, mode, status, cmd, ctl, ms, irq, took, jumped, counters>>
  BY DEF KeyboardStart, At
<1>2. mode \in {"text", "desktop"} /\ quiet \in BOOLEAN
  BY DEF IInv, TypeOK
<1>3. kb' \in [OnKeyDown : Nat, OnKeyUp : Nat] /\ drain' \in 0 .. DrainTimeout[quiet]
  BY <1>1, <1>2, Handlers, Timeouts
<1>4. TypeOK'
  <2>1. drain' \in -1 .. DrainTimeout[quiet]
    BY <1>2, <1>3, Timeouts
  <2>2. QED
    BY <1>1, <1>3, <2>1 DEF IInv, TypeOK, irq, counters, Labels
<1>5. WakeInv'
  BY <1>1, <1>2, BootStep, SilentStep DEF BootLabels, Labels, Running, irq, Watched, Unread
<1>6. DrainInv'
  BY <1>2, <1>3, Timeouts DEF DrainInv
<1>7. QED
  BY <1>4, <1>5, <1>6 DEF IInv

LEMMA KeyboardDrainIInv == IInv /\ KeyboardDrain => IInv'
<1> SUFFICES ASSUME IInv, KeyboardDrain PROVE IInv'
  OBVIOUS
<1>1. /\ pc = "kb_drain" /\ Latch
      /\ UNCHANGED <<quiet, mode, status, cmd, kb, ms, took, jumped, counters>>
      /\ ctl' = ctl \/ ctl' = Read(ctl)
      /\ pc' = "kb_enable" \/ (drain > 0 /\ pc' = pc)
      /\ drain' = drain \/ drain' = drain - 1
  BY DEF KeyboardDrain, At
<1>2. ctl' \in Controller
  BY <1>1, ReadSteps DEF IInv, TypeOK
<1>3. quiet \in BOOLEAN /\ drain \in 0 .. DrainTimeout[quiet] /\ DrainTimeout[quiet] \in Nat
  BY <1>1, Timeouts DEF IInv, TypeOK, DrainInv
<1>4. drain' \in -1 .. DrainTimeout[quiet] /\ DrainInv'
  BY <1>1, <1>3 DEF DrainInv
<1>5. pending \subseteq {1, 12} /\ serving' = serving /\ live' = live
  BY <1>1 DEF Latch, IInv, TypeOK
<1>6. TypeOK'
  BY <1>1, <1>2, <1>4, <1>5, Latched DEF IInv, TypeOK, counters, Labels
<1>7. WakeInv'
  <2>1. Watched(mode, pc') => Watched(mode, pc)
    BY <1>1 DEF Watched, Unread
  <2>2. pc \in BootLabels /\ pc' \in BootLabels
    BY <1>1 DEF BootLabels, Labels, Running
  <2>3. QED
    BY <1>1, <1>5, <2>1, <2>2, BootStep, LatchedStep
<1>8. QED
  BY <1>4, <1>6, <1>7 DEF IInv

LEMMA KeyboardCommandIInv == IInv /\ KeyboardCommand => IInv'
<1> SUFFICES ASSUME IInv, KeyboardCommand PROVE IInv'
  OBVIOUS
<1>1. PICK c \in KeyboardCommands : At(c.at) /\ ctl' = Command(ctl, c.byte) /\ pc' = c.next
  BY DEF KeyboardCommand
<1>2. UNCHANGED <<quiet, boot, kb, ms, irq, took, jumped, counters>>
  BY DEF KeyboardCommand
<1>3. /\ c.byte \in Commands /\ pc \in BootLabels /\ pc' \in BootLabels
      /\ pc' \in {"kb_request", "kb_read", "kb_write"}
      /\ Watched(mode, pc') => Watched(mode, pc)
  BY <1>1 DEF KeyboardCommands, At, Commands, BootLabels, Labels, Running, Watched, Unread
<1>4. ctl' \in Controller /\ Wires(ctl') = Wires(ctl)
  BY <1>1, <1>3, CommandSteps DEF IInv, TypeOK
<1>5. TypeOK'
  BY <1>2, <1>3, <1>4 DEF IInv, TypeOK, boot, irq, counters, BootLabels
<1>6. WakeInv'
  BY <1>2, <1>3, <1>4, BootStep, SilentStep DEF boot, irq
<1>7. QED
  BY <1>3, <1>5, <1>6 DEF IInv, DrainInv

LEMMA KeyboardReadIInv == IInv /\ KeyboardRead => IInv'
<1> SUFFICES ASSUME IInv, KeyboardRead PROVE IInv'
  OBVIOUS
<1>1. /\ pc = "kb_read" /\ pc' = "kb_set" /\ ctl' = Read(ctl) /\ Latch
      /\ status' = WithKeyboard(ctl.out.val)
      /\ UNCHANGED <<quiet, mode, drain, cmd, kb, ms, took, jumped, counters>>
  BY DEF KeyboardRead, At
<1>2. ctl' \in Controller /\ Wires(ctl') = {} /\ ctl.out.val \in Byte
  BY <1>1, ReadSteps DEF IInv, TypeOK
<1>3. status' \in Byte
  BY <1>1, <1>2, Masks DEF WithKeyboard
<1>4. pending \subseteq {1, 12} /\ serving' = serving /\ live' = live
  BY <1>1 DEF Latch, IInv, TypeOK
<1>5. TypeOK'
  BY <1>1, <1>2, <1>3, <1>4, Latched DEF IInv, TypeOK, counters, Labels
<1>6. WakeInv'
  BY <1>1, <1>2, <1>4, BootStep DEF BootLabels, Labels, Running
<1>7. QED
  BY <1>1, <1>5, <1>6 DEF IInv, DrainInv

LEMMA KeyboardWriteIInv == IInv /\ KeyboardWrite => IInv'
<1> SUFFICES ASSUME IInv, KeyboardWrite PROVE IInv'
  OBVIOUS
<1>1. /\ pc = "kb_write" /\ pc' = "kb_scan" /\ ctl' = Data(ctl, status) /\ Latch
      /\ UNCHANGED <<quiet, boot, kb, ms, took, jumped, counters>>
  BY DEF KeyboardWrite, At
<1>2. ctl' \in Controller /\ ctl'.expect # "ccb"
  BY <1>1, DataSteps DEF IInv, TypeOK
<1>3. Watched(mode, pc)
  BY <1>1 DEF Watched, Unread
<1>4. TypeOK'
  BY <1>1, <1>2, <1>3, LatchedStep DEF IInv, TypeOK, boot, counters, Labels
<1>5. WakeInv'
  <2>1. Wires(ctl') \subseteq pending' \union serving /\ serving' = serving
    BY <1>1, <1>3, LatchedStep
  <2>2. pc \in BootLabels /\ pc' \in BootLabels /\ pc' # "sti" /\ mode' = mode
    BY <1>1 DEF boot, BootLabels, Labels, Running
  <2>3. QED
    BY <1>2, <2>1, <2>2, BootStep
<1>6. QED
  BY <1>1, <1>4, <1>5 DEF IInv, DrainInv

LEMMA KeyboardScanIInv == IInv /\ KeyboardScan => IInv'
<1> SUFFICES ASSUME IInv, KeyboardScan PROVE IInv'
  OBVIOUS
<1> DEFINE scan == 244
<1>1. /\ pc = "kb_scan" /\ pc' = "ms_start" /\ ctl' = Data(ctl, scan)
      /\ UNCHANGED <<quiet, boot, kb, ms, irq, took, jumped, counters>>
  BY DEF KeyboardScan, At
<1>2. ctl.expect # "ccb" /\ scan \in Byte
  <2>1. ctl.expect # "ccb"
    BY <1>1 DEF IInv, WakeInv
  <2>2. scan \in Byte
    BY DEF Byte
  <2>3. QED
    BY <2>1, <2>2
<1> HIDE DEF scan
<1>3. ctl' \in Controller /\ Wires(ctl') = Wires(ctl)
  BY <1>1, <1>2, DataSteps DEF IInv, TypeOK
<1>4. TypeOK'
  BY <1>1, <1>3 DEF IInv, TypeOK, boot, irq, counters, Labels
<1>5. WakeInv'
  BY <1>1, <1>3, SilentStep, BootStep
     DEF boot, irq, BootLabels, Labels, Running, Watched, Unread
<1>6. QED
  BY <1>1, <1>4, <1>5 DEF IInv, DrainInv

LEMMA MouseStartIInv == IInv /\ MouseStart => IInv'
<1> SUFFICES ASSUME IInv, MouseStart PROVE IInv'
  OBVIOUS
<1>1. /\ pc = "ms_start" /\ pc' = "ms_drain"
      /\ ms' = [ms EXCEPT !.handler = MouseEventHandler(mode), !.offset = 0, !.buttons = 0]
      /\ UNCHANGED <<quiet, boot, ctl, kb, irq, took, jumped, counters>>
  BY DEF MouseStart, At
<1>2. ms' \in [handler : [Slots -> Nat], offset : 0 .. 2,
                buffer : Byte \X Byte \X Byte, buttons : Byte]
  <2> DEFINE h == MouseEventHandler(mode)
  <2>1. h \in [Slots -> Nat] /\ 0 \in Byte /\ 0 \in 0 .. 2
    BY Handlers DEF IInv, TypeOK, Byte
  <2>2. ms' = [ms EXCEPT !.handler = h, !.offset = 0, !.buttons = 0]
    BY <1>1
  <2> HIDE DEF h
  <2>3. ms' = [handler |-> h, offset |-> 0, buffer |-> ms.buffer, buttons |-> 0]
    BY <2>2 DEF IInv, TypeOK
  <2>4. ms.buffer \in Byte \X Byte \X Byte
    BY DEF IInv, TypeOK
  <2>5. QED
    BY <2>1, <2>3, <2>4
<1>3. TypeOK'
  BY <1>1, <1>2 DEF IInv, TypeOK, boot, irq, counters, Labels
<1>4. WakeInv'
  BY <1>1, SilentStep, BootStep DEF boot, irq, BootLabels, Labels, Running, Watched, Unread
<1>5. QED
  BY <1>1, <1>3, <1>4 DEF IInv, DrainInv

LEMMA MouseDrainIInv == IInv /\ MouseDrain => IInv'
<1> SUFFICES ASSUME IInv, MouseDrain PROVE IInv'
  OBVIOUS
<1>1. /\ pc = "ms_drain" /\ Latch /\ (ctl' = Read(ctl) \/ ctl' = ctl)
      /\ pc' \in {"ms_drain", "ms_enable"}
      /\ UNCHANGED <<quiet, boot, kb, ms, took, jumped, counters>>
  BY DEF MouseDrain, At
<1>2. ctl' \in Controller
  BY <1>1, ReadSteps DEF IInv, TypeOK
<1>3. Watched(mode, pc)
  BY <1>1 DEF Watched, Unread
<1>4. TypeOK'
  BY <1>1, <1>2, <1>3, LatchedStep DEF IInv, TypeOK, boot, counters, Labels
<1>5. WakeInv'
  <2>1. Wires(ctl') \subseteq pending' \union serving /\ serving' = serving
    BY <1>1, <1>3, LatchedStep
  <2>2. pc \in BootLabels /\ pc' \in BootLabels /\ pc' \notin {"sti", "kb_scan"} /\ mode' = mode
    BY <1>1 DEF boot, BootLabels, Labels, Running
  <2>3. QED
    BY <2>1, <2>2, BootStep
<1>6. QED
  BY <1>1, <1>4, <1>5 DEF IInv, DrainInv

LEMMA Stalled ==
  ASSUME IInv, Stall \/ NoStall
  PROVE  stalls' \in 0 .. MaxStalls
  BY InputAssumption DEF Stall, NoStall, IInv, TypeOK

LEMMA MouseCommandIInv == IInv /\ MouseCommand => IInv'
<1> SUFFICES ASSUME IInv, MouseCommand PROVE IInv'
  OBVIOUS
<1>1. PICK c \in MouseCommands :
        /\ At(c.at) /\ pc' = c.next
        /\ \/ NoStall /\ ctl' = Command(ctl, c.byte)
           \/ Stall /\ ctl' = ctl
  BY DEF MouseCommand
<1>2. UNCHANGED <<quiet, boot, kb, ms, irq, took, jumped, scans, reports>>
  BY DEF MouseCommand
<1>3. /\ c.byte \in Commands /\ pc \in BootLabels /\ pc' \in BootLabels
      /\ pc' \notin {"sti", "kb_scan", "kb_drain"}
      /\ Watched(mode, pc)
  BY <1>1 DEF MouseCommands, At, Commands, BootLabels, Labels, Running, Watched, Unread
<1>4. ctl' \in Controller /\ Wires(ctl') = Wires(ctl)
  BY <1>1, <1>3, CommandSteps DEF IInv, TypeOK
<1>5. TypeOK'
  BY <1>1, <1>2, <1>3, <1>4, Stalled DEF IInv, TypeOK, boot, irq, BootLabels
<1>6. WakeInv'
  BY <1>2, <1>3, <1>4, BootStep, SilentStep DEF boot, irq
<1>7. QED
  BY <1>3, <1>5, <1>6 DEF IInv, DrainInv

LEMMA MouseReadIInv == IInv /\ MouseRead => IInv'
<1> SUFFICES ASSUME IInv, MouseRead PROVE IInv'
  OBVIOUS
<1>1. /\ pc = "ms_read" /\ pc' = "ms_set" /\ Latch
      /\ UNCHANGED <<quiet, mode, drain, cmd, kb, ms, took, jumped, scans, reports>>
      /\ Stall \/ NoStall
      /\ \/ ctl' = Read(ctl) /\ status' = WithMouse(ctl.out.val)
         \/ ctl' = ctl /\ status' = WithMouse(0)
  BY DEF MouseRead, At, ReadTimesOut
<1>2. ctl' \in Controller /\ ctl.out.val \in Byte
  BY <1>1, ReadSteps DEF IInv, TypeOK
<1>3. status' \in Byte
  <2>1. \A b \in Byte : WithMouse(b) \in Byte
    BY Masks DEF WithMouse
  <2>2. 0 \in Byte
    BY DEF Byte
  <2>3. QED
    BY <1>1, <1>2, <2>1, <2>2
<1>4. Watched(mode, pc)
  BY <1>1 DEF Watched, Unread
<1>5. TypeOK'
  BY <1>1, <1>2, <1>3, <1>4, LatchedStep, Stalled DEF IInv, TypeOK, Labels
<1>6. WakeInv'
  <2>1. Wires(ctl') \subseteq pending' \union serving /\ serving' = serving
    BY <1>1, <1>4, LatchedStep
  <2>2. pc \in BootLabels /\ pc' \in BootLabels /\ pc' \notin {"sti", "kb_scan"} /\ mode' = mode
    BY <1>1 DEF BootLabels, Labels, Running
  <2>3. QED
    BY <2>1, <2>2, BootStep
<1>7. QED
  BY <1>1, <1>5, <1>6 DEF IInv, DrainInv

LEMMA MouseWriteIInv == IInv /\ MouseWrite => IInv'
<1> SUFFICES ASSUME IInv, MouseWrite PROVE IInv'
  OBVIOUS
<1>1. /\ pc = "ms_write" /\ pc' = "ms_cmd" /\ Latch
      /\ UNCHANGED <<quiet, boot, kb, ms, took, jumped, scans, reports>>
      /\ Stall \/ NoStall
      /\ ctl' = Data(ctl, status) \/ ctl' = ctl
  BY DEF MouseWrite, At
<1>2. ctl' \in Controller
  <2>1. ctl \in Controller /\ status \in Byte
    BY DEF IInv, TypeOK
  <2>2. Data(ctl, status) \in Controller
    BY <2>1, DataSteps
  <2>3. QED
    BY <1>1, <2>1, <2>2
<1>3. Watched(mode, pc)
  BY <1>1 DEF Watched, Unread
<1>4. TypeOK'
  BY <1>1, <1>2, <1>3, LatchedStep, Stalled DEF IInv, TypeOK, boot, Labels
<1>5. WakeInv'
  <2>1. Wires(ctl') \subseteq pending' \union serving /\ serving' = serving
    BY <1>1, <1>3, LatchedStep
  <2>2. pc \in BootLabels /\ pc' \in BootLabels /\ pc' \notin {"sti", "kb_scan"} /\ mode' = mode
    BY <1>1 DEF boot, BootLabels, Labels, Running
  <2>3. QED
    BY <2>1, <2>2, BootStep
<1>6. QED
  BY <1>1, <1>4, <1>5 DEF IInv, DrainInv

\* The parameter of 0xD4 goes to the mouse and changes no line.
LEMMA MouseDeviceCommandIInv == IInv /\ MouseDeviceCommand => IInv'
<1> SUFFICES ASSUME IInv, MouseDeviceCommand PROVE IInv'
  OBVIOUS
<1> DEFINE prefixed == Command(ctl, 212)
           d == DeviceCommands[cmd]
<1>1. /\ pc = "ms_cmd"
      /\ UNCHANGED <<quiet, mode, drain, status, kb, ms, irq, took, jumped, scans, reports>>
      /\ Stall \/ NoStall
      /\ ctl' \in {ctl, prefixed, Data(prefixed, d)}
      /\ \/ cmd < Len(DeviceCommands) /\ cmd' = cmd + 1 /\ pc' = pc
         \/ cmd' = 1 /\ pc' = IF mode = "text" THEN "activate" ELSE "sti"
  BY DEF MouseDeviceCommand, At
<1>2. /\ ctl \in Controller /\ cmd \in 1 .. Len(DeviceCommands) /\ mode \in {"text", "desktop"}
  BY DEF IInv, TypeOK
<1>3. Len(DeviceCommands) = 6 /\ d \in Byte
  <2>1. Len(DeviceCommands) = 6
    BY DEF DeviceCommands
  <2>2. cmd \in 1 .. 6
    BY <1>2, <2>1
  <2>3. QED
    BY <2>1, <2>2 DEF DeviceCommands, Byte
<1>4. prefixed \in Controller /\ Wires(prefixed) = Wires(ctl) /\ prefixed.expect = "aux"
  BY <1>2, CommandSteps DEF Commands
<1> HIDE DEF prefixed, d
<1>5. Data(prefixed, d) \in Controller /\ Wires(Data(prefixed, d)) = Wires(prefixed)
  BY <1>3, <1>4, DataSteps
<1>6. ctl' \in Controller /\ Wires(ctl') = Wires(ctl)
  BY <1>1, <1>2, <1>4, <1>5
<1>7. cmd' \in 1 .. Len(DeviceCommands) /\ pc' \in {"ms_cmd", "activate", "sti"}
      /\ (pc' = "sti" => mode = "desktop")
  BY <1>1, <1>2, <1>3
<1>8. TypeOK'
  <2>1. pc' \in Labels
    BY <1>7 DEF Labels
  <2>2. stalls' \in 0 .. MaxStalls
    BY <1>1, Stalled
  <2>3. QED
    BY <1>1, <1>6, <1>7, <2>1, <2>2 DEF IInv, TypeOK, irq
<1>9. WakeInv'
  <2>1. Watched(mode, pc)
    BY <1>1 DEF Watched, Unread
  <2>2. pc \in BootLabels /\ pc' \in BootLabels /\ pc' # "kb_scan"
    BY <1>1, <1>7 DEF BootLabels, Labels, Running
  <2>3. QED
    BY <1>1, <1>6, <1>7, <2>1, <2>2, SilentStep, BootStep DEF irq
<1>10. QED
  BY <1>7, <1>8, <1>9 DEF IInv, DrainInv

-----------------------------------------------------------------------------
(* Preservation: the interrupt handlers                                    *)

TookType == {<<>>} \union ({"keyboard", "mouse"} \X Bytes \X BOOLEAN)

LEMMA TookSteps ==
  ASSUME NEW c \in Controller, NEW who \in {"keyboard", "mouse"}
  PROVE  <<who, c.out, HasData(c)>> \in TookType /\ <<who, c.out, TRUE>> \in TookType
<1>1. c.out \in Bytes /\ c.full \in BOOLEAN
  BY DEF Controller
<1>2. HasData(c) \in BOOLEAN
  BY <1>1 DEF HasData
<1>3. QED
  BY <1>1, <1>2 DEF TookType

\* The keyboard's handler reads whatever is there, so nothing holds a line up.
LEMMA KeyboardHandled ==
  ASSUME IInv, NEW next, HandleKeyboard(next)
  PROVE  /\ ctl' \in Controller /\ Wires(ctl') = {}
         /\ took' \in TookType /\ jumped' \subseteq Nat /\ pc' \in {next, "wild"} /\ ms' = ms
<1>1. ctl \in Controller /\ kb \in [OnKeyDown : Nat, OnKeyUp : Nat] /\ jumped \subseteq Nat
  BY DEF IInv, TypeOK
<1>2. ctl' = Read(ctl) /\ took' = <<"keyboard", ctl.out, HasData(ctl)>> /\ ms' = ms
  BY DEF HandleKeyboard
<1> DEFINE key == ctl.out.val
           addresses == IF key \in Printable THEN {kb.OnKeyDown}
                        ELSE IF key >= 128 THEN {kb.OnKeyUp} ELSE {}
<1>3. addresses \in SUBSET Nat /\ Call(addresses, next)
  BY <1>1 DEF HandleKeyboard
<1> HIDE DEF addresses
<1>4. jumped' \subseteq Nat /\ pc' \in {next, "wild"}
  BY <1>1, <1>3, Called0
<1>5. ctl' \in Controller /\ Wires(ctl') = {}
  BY <1>1, <1>2, ReadSteps
<1>6. took' \in TookType
  BY <1>1, <1>2, TookSteps
<1>7. QED
  BY <1>2, <1>4, <1>5, <1>6

MouseType == [handler : [Slots -> Nat], offset : 0 .. 2,
              buffer : Byte \X Byte \X Byte, buttons : Byte]

\* The mouse's handler reads the mouse's bytes and no others, so what holds a line
\* up when it returns is a byte of the keyboard or of the controller.
LEMMA MouseHandled ==
  ASSUME IInv, NEW next, HandleMouse(next)
  PROVE  /\ ctl' \in Controller /\ (Wires(ctl') = {} \/ (ctl' = ctl /\ 12 \notin Wires(ctl)))
         /\ ms' \in MouseType /\ took' \in TookType /\ jumped' \subseteq Nat
         /\ pc' \in {next, "wild"}
<1>1. /\ ctl \in Controller /\ ms \in MouseType /\ took \in TookType /\ jumped \subseteq Nat
  BY DEF IInv, TypeOK, MouseType, TookType
<1>2. CASE ~FromMouse(ctl)
  <2>1. pc' = next /\ UNCHANGED <<ctl, ms, took, jumped>>
    BY <1>2 DEF HandleMouse
  <2>2. 12 \notin Wires(ctl)
    BY <1>2 DEF Wires, FromMouse
  <2>3. QED
    BY <1>1, <2>1, <2>2
<1>3. CASE FromMouse(ctl)
  <2> DEFINE v == ctl.out.val
             b == [ms.buffer EXCEPT ![ms.offset + 1] = v]
             whole == ms.offset = 2 /\ FirstByte(b[1])
             slots == {s \in Slots : ms.handler[s] # 0}
             addresses == IF whole THEN Called(PacketEvent(slots, ms.buttons, b)) ELSE {}
             o == (ms.offset + 1) % 3
             n == IF whole THEN b[1] ELSE ms.buttons
  <2>1. /\ ctl' = Read(ctl) /\ took' = <<"mouse", ctl.out, TRUE>>
        /\ ms' = [ms EXCEPT !.buffer = b, !.offset = o, !.buttons = n]
        /\ Call(addresses, next)
    BY <1>3, Zenon DEF HandleMouse
  <2>2. ctl' \in Controller /\ Wires(ctl') = {} /\ took' \in TookType
    BY <1>1, <2>1, ReadSteps, TookSteps
  <2>3. b \in Byte \X Byte \X Byte
    <3>1. v \in Byte
      BY <1>1, ReadSteps
    <3>2. ms.buffer \in Byte \X Byte \X Byte /\ ms.offset \in {0, 1, 2}
      BY <1>1 DEF MouseType
    <3> HIDE DEF v
    <3>3. QED
      BY <3>1, <3>2
  <2>4. addresses \in SUBSET Nat
    <3>1. ms.handler \in [Slots -> Nat]
      BY <1>1 DEF MouseType
    <3>2. \A e : Called(e) \in SUBSET Nat
      BY <3>1 DEF Called
    <3> HIDE DEF whole, slots
    <3>3. QED
      BY <3>2
  <2>5. o \in 0 .. 2
    BY <1>1 DEF MouseType
  <2>6. n \in Byte
    <3>1. b[1] \in Byte
      <4> HIDE DEF b
      <4>1. QED
        BY <2>3
    <3>2. ms.buttons \in Byte
      BY <1>1 DEF MouseType
    <3> HIDE DEF b, whole
    <3>3. QED
      BY <3>1, <3>2
  <2> HIDE DEF b, whole, slots, addresses, o, n
  <2>7. ms' \in MouseType
    BY <1>1, <2>1, <2>3, <2>5, <2>6 DEF MouseType
  <2>8. jumped' \subseteq Nat /\ pc' \in {next, "wild"}
    BY <1>1, <2>1, <2>4, Called0
  <2>9. QED
    BY <2>2, <2>7, <2>8
<1>4. QED
  BY <1>2, <1>3

LEMMA ActivateAllIInv == IInv /\ ActivateAll => IInv'
<1> SUFFICES ASSUME IInv, ActivateAll PROVE IInv'
  OBVIOUS
<1>1. /\ pc = "activate" /\ HandleMouse("kb_start") /\ Latch /\ mode' = "desktop"
      /\ UNCHANGED <<quiet, drain, status, cmd, kb, counters>>
  BY DEF ActivateAll, At
<1>2. /\ ctl' \in Controller /\ ms' \in MouseType /\ took' \in TookType /\ jumped' \subseteq Nat
      /\ pc' \in {"kb_start", "wild"}
  BY <1>1, MouseHandled
<1>3. Watched(mode, pc)
  BY <1>1 DEF Watched, Unread
<1>4. /\ pending' \subseteq {1, 12} /\ serving' = serving /\ live' = live
      /\ Wires(ctl') \subseteq pending' \union serving
  BY <1>1, <1>3, LatchedStep
<1>5. TypeOK'
  BY <1>1, <1>2, <1>4 DEF IInv, TypeOK, counters, Labels, MouseType, TookType
<1>6. WakeInv'
  BY <1>1, <1>2, <1>4 DEF IInv, WakeInv, InHandler, Running
<1>7. QED
  BY <1>2, <1>5, <1>6 DEF IInv, DrainInv

LEMMA ActivateInterruptsIInv == IInv /\ ActivateInterrupts => IInv'
<1> SUFFICES ASSUME IInv, ActivateInterrupts PROVE IInv'
  OBVIOUS
<1>1. /\ pc = "sti" /\ pc' = "draw" /\ live' = TRUE /\ UNCHANGED <<pending, serving>>
      /\ UNCHANGED <<quiet, boot, ctl, kb, ms, took, jumped, counters>>
  BY DEF ActivateInterrupts, At, Delivery!Start
<1>2. TypeOK'
  BY <1>1 DEF IInv, TypeOK, boot, counters, Labels, Running
<1>3. WakeInv'
  BY <1>1 DEF IInv, WakeInv, boot, InHandler, Running, Watched
<1>4. QED
  BY <1>1, <1>2, <1>3 DEF IInv, DrainInv

LEMMA AcceptIInv == IInv /\ Accept => IInv'
<1> SUFFICES ASSUME IInv, Accept PROVE IInv'
  OBVIOUS
<1>1. pc = "draw" /\ UNCHANGED <<quiet, boot, ctl, kb, ms, took, jumped, counters>>
  BY DEF Accept
<1>2. /\ pending \subseteq {1, 12} /\ mode = "desktop" /\ serving = {}
      /\ Wires(ctl) \subseteq pending
  BY <1>1 DEF IInv, TypeOK, WakeInv, Watched, Unread, InHandler, Running
<1>3. PICK l \in {1, 12} :
        \/ Delivery!Begin(l) /\ pc' = IF l = 1 THEN "kb_isr" ELSE "ms_isr"
        \/ Delivery!Withdraw(l) /\ l \notin Wires(ctl) /\ pc' = pc
  BY DEF Accept
<1>4. /\ pending' = pending \ {l} /\ live' = live
      /\ \/ serving' = {l} /\ pc' = IF l = 1 THEN "kb_isr" ELSE "ms_isr"
         \/ serving' = {} /\ pc' = "draw" /\ l \notin Wires(ctl)
  BY <1>1, <1>2, <1>3 DEF Delivery!Begin, Delivery!Withdraw
<1>5. TypeOK'
  BY <1>1, <1>2, <1>4 DEF IInv, TypeOK, boot, counters, Labels, Running
<1>6. WakeInv'
  <2>1. Wires(ctl') \subseteq pending' \union serving'
    BY <1>1, <1>2, <1>4
  <2>2. mode' = "desktop"
    BY <1>1, <1>2 DEF boot
  <2>3. \/ pc' = "kb_isr" /\ serving' = {1}
        \/ pc' = "ms_isr" /\ serving' = {12}
        \/ pc' = "draw" /\ serving' = {}
    BY <1>4
  <2>4. QED
    BY <2>1, <2>2, <2>3 DEF WakeInv, InHandler
<1>7. QED
  BY <1>4, <1>5, <1>6 DEF IInv, DrainInv

\* A handler that returns leaves no line up whose request is not latched.
LEMMA HandlerStep ==
  ASSUME IInv, Latch, pc \in {"kb_isr", "ms_isr"}, pc' \in {"eoi", "wild"}, mode' = mode,
         Wires(ctl') = {} \/ (ctl' = ctl /\ Wires(ctl) \subseteq pending)
  PROVE  WakeInv' /\ pending' \subseteq {1, 12} /\ live' = live /\ serving' = serving
<1>1. /\ mode = "desktop" /\ serving # {} /\ pending \subseteq {1, 12}
  BY DEF IInv, TypeOK, WakeInv, Running
<1>2. pending' \subseteq {1, 12} /\ pending \subseteq pending' /\ live' = live /\ serving' = serving
  BY <1>1, Latched DEF Latch
<1>3. Wires(ctl') \subseteq pending'
  BY <1>2
<1>4. QED
  BY <1>1, <1>2, <1>3 DEF WakeInv, InHandler

LEMMA ISRIInv == IInv /\ (KeyboardISR \/ MouseISR) => IInv'
<1> SUFFICES ASSUME IInv, KeyboardISR \/ MouseISR PROVE IInv'
  OBVIOUS
<1>1. /\ Latch /\ UNCHANGED <<quiet, boot, kb, counters>>
      /\ \/ pc = "kb_isr" /\ HandleKeyboard("eoi")
         \/ pc = "ms_isr" /\ HandleMouse("eoi")
  BY DEF KeyboardISR, MouseISR
<1>2. /\ ctl' \in Controller /\ ms' \in MouseType /\ took' \in TookType /\ jumped' \subseteq Nat
      /\ pc' \in {"eoi", "wild"}
      /\ Wires(ctl') = {} \/ (ctl' = ctl /\ Wires(ctl) \subseteq pending)
  <2>1. CASE pc = "kb_isr" /\ HandleKeyboard("eoi")
    <3>1. ms \in MouseType
      BY DEF IInv, TypeOK, MouseType
    <3>2. QED
      BY <2>1, <3>1, KeyboardHandled
  <2>2. CASE pc = "ms_isr" /\ HandleMouse("eoi")
    <3>1. mode = "desktop" /\ serving = {12}
      BY <2>2 DEF IInv, WakeInv, Running
    <3>2. Wires(ctl) \subseteq pending \union {12}
      BY <3>1 DEF IInv, WakeInv, Watched
    <3>3. QED
      BY <2>2, <3>2, MouseHandled
  <2>3. QED
    BY <1>1, <2>1, <2>2
<1>3. WakeInv' /\ pending' \subseteq {1, 12} /\ live' = live /\ serving' = serving
  BY <1>1, <1>2, HandlerStep DEF boot
<1>4. TypeOK'
  BY <1>1, <1>2, <1>3 DEF IInv, TypeOK, boot, counters, Labels, Running, MouseType, TookType
<1>5. QED
  BY <1>2, <1>3, <1>4 DEF IInv, DrainInv

LEMMA EndOfInterruptIInv == IInv /\ EndOfInterrupt => IInv'
<1> SUFFICES ASSUME IInv, EndOfInterrupt PROVE IInv'
  OBVIOUS
<1>1. /\ pc = "eoi" /\ pc' = "draw" /\ serving' = {} /\ UNCHANGED <<live, pending>>
      /\ UNCHANGED <<quiet, boot, ctl, kb, ms, took, jumped, counters>>
  BY DEF EndOfInterrupt, Delivery!Finish
<1>2. TypeOK'
  BY <1>1 DEF IInv, TypeOK, boot, counters, Labels, Running
<1>3. WakeInv'
  BY <1>1 DEF IInv, WakeInv, boot, InHandler, Running
<1>4. QED
  BY <1>1, <1>2, <1>3 DEF IInv, DrainInv

LEMMA StutterIInv == IInv /\ UNCHANGED vars => IInv'
  BY DEF IInv, TypeOK, WakeInv, DrainInv, vars, boot, irq, counters

LEMMA NextIInv == IInv /\ [Next]_vars => IInv'
<1> SUFFICES ASSUME IInv, [Next]_vars PROVE IInv'
  OBVIOUS
<1>1. CASE KeyPress \/ MouseReport \/ LoadByte
  BY <1>1, KeyPressIInv, MouseReportIInv, LoadByteIInv
<1>2. CASE Boot
  BY <1>2, KeyboardStartIInv, KeyboardDrainIInv, KeyboardCommandIInv, KeyboardReadIInv,
     KeyboardWriteIInv, KeyboardScanIInv, MouseStartIInv, MouseDrainIInv, MouseCommandIInv,
     MouseReadIInv, MouseWriteIInv, MouseDeviceCommandIInv, ActivateAllIInv,
     ActivateInterruptsIInv DEF Boot
<1>3. CASE Accept \/ Handle
  BY <1>3, AcceptIInv, ISRIInv, EndOfInterruptIInv DEF Handle
<1>4. CASE UNCHANGED vars
  BY <1>4, StutterIInv
<1>5. QED
  BY <1>1, <1>2, <1>3, <1>4 DEF Next

-----------------------------------------------------------------------------
(* The boot and what is after it                                           *)

LiveInv == pc \notin Running \union {"wild"} => ~live

\* No step of the boot is taken in the drawing loop or in a handler.
LEMMA RunningNotBoot == Boot => pc \notin Running \union {"wild"}
  BY DEF Boot, KeyboardStart, KeyboardDrain, KeyboardCommand, KeyboardCommands, KeyboardRead,
         KeyboardWrite, KeyboardScan, MouseStart, MouseDrain, MouseCommand, MouseCommands,
         MouseRead, MouseWrite, MouseDeviceCommand, ActivateAll, ActivateInterrupts, At, Running

LEMMA LiveNext == IInv /\ LiveInv /\ [Next]_vars => LiveInv'
<1> SUFFICES ASSUME IInv, LiveInv, [Next]_vars PROVE LiveInv'
  OBVIOUS
<1>1. CASE Boot /\ ~ActivateInterrupts
  <2>1. live' = live
    BY <1>1 DEF Boot, Latch, irq, KeyboardStart, KeyboardDrain, KeyboardCommand, KeyboardRead,
         KeyboardWrite, KeyboardScan, MouseStart, MouseDrain, MouseCommand,
         MouseRead, MouseWrite, MouseDeviceCommand, ActivateAll
  <2>2. QED
    BY <1>1, <2>1, RunningNotBoot DEF LiveInv
<1>2. CASE ActivateInterrupts
  BY <1>2 DEF ActivateInterrupts, LiveInv, Running
<1>3. CASE KeyPress \/ MouseReport \/ LoadByte \/ UNCHANGED vars
  BY <1>3 DEF KeyPress, MouseReport, LoadByte, Latch, irq, vars, LiveInv
<1>4. CASE Accept \/ Handle
  <2>1. pc' \in Running \union {"wild"}
    <3>1. CASE Accept
      BY <3>1 DEF Accept, Running
    <3>2. CASE EndOfInterrupt
      BY <3>2 DEF EndOfInterrupt, Running
    <3>3. CASE KeyboardISR
      BY <3>3, KeyboardHandled DEF KeyboardISR, Running
    <3>4. CASE MouseISR
      BY <3>4, MouseHandled DEF MouseISR, Running
    <3>5. QED
      BY <1>4, <3>1, <3>2, <3>3, <3>4 DEF Handle
  <2>2. QED
    BY <2>1 DEF LiveInv
<1>5. QED
  BY <1>1, <1>2, <1>3, <1>4 DEF Next

-----------------------------------------------------------------------------
(* Requests and their bytes                                                *)

\* A step of the devices or of an interrupt leaves the keyboard's requests balanced.
LEMMA BalanceStep == IInv /\ LiveInv /\ live /\ Balanced /\ [Next]_vars => Balanced'
<1> SUFFICES ASSUME IInv, LiveInv, live, Balanced, [Next]_vars PROVE Balanced'
  OBVIOUS
<1>1. pc \in Running \union {"wild"} /\ ctl \in Controller
  BY DEF LiveInv, IInv, TypeOK
<1>2. ASSUME Latch PROVE \A l : l \in pending' <=> l \in pending \/ l \in Wires(ctl') \ Wires(ctl)
  BY <1>2 DEF Latch
<1>3. CASE KeyPress \/ MouseReport
  <2>1. Wires(ctl') = Wires(ctl)
    <3>1. CASE KeyPress
      <4>1. PICK k \in ScanCodes :
              ctl' = [ctl EXCEPT !.kbd = Append(@, [val |-> k, src |-> "kbd", what |-> "scan"])]
        BY <3>1 DEF KeyPress
      <4>2. ctl'.full = ctl.full /\ ctl'.out = ctl.out /\ ctl'.ccb = ctl.ccb
        BY <1>1, <4>1 DEF Controller
      <4>3. QED
        BY <4>2 DEF Wires
    <3>2. CASE MouseReport
      <4>1. PICK r \in Reports :
              ctl' = [ctl EXCEPT !.aux = @ \o
                        [i \in 1 .. 3 |-> [val |-> r[i], src |-> "aux", what |-> "report"]]]
        BY <3>2 DEF MouseReport
      <4>2. ctl'.full = ctl.full /\ ctl'.out = ctl.out /\ ctl'.ccb = ctl.ccb
        BY <1>1, <4>1 DEF Controller
      <4>3. QED
        BY <4>2 DEF Wires
    <3>3. QED
      BY <1>3, <3>1, <3>2
  <2>2. pc' = pc /\ pending' = pending
    BY <1>3 DEF KeyPress, MouseReport, irq
  <2>3. QED
    BY <2>1, <2>2 DEF Balanced
<1>4. CASE LoadByte
  <2>1. ~ctl.full /\ Latch /\ pc' = pc
    BY <1>4 DEF LoadByte, Ready
  <2>2. Wires(ctl) = {}
    BY <2>1 DEF Wires
  <2>3. QED
    BY <1>2, <2>1, <2>2 DEF Balanced
<1>5. CASE Boot
  BY <1>1, <1>5, RunningNotBoot
<1>6. CASE Accept
  <2>1. pc = "draw" /\ ctl' = ctl
    BY <1>6 DEF Accept
  <2>2. PICK l \in {1, 12} :
          /\ pending' = pending \ {l}
          /\ \/ l \in pending /\ pc' = IF l = 1 THEN "kb_isr" ELSE "ms_isr"
             \/ pc' = "draw"
    BY <1>6, <2>1 DEF Accept, Delivery!Begin, Delivery!Withdraw, Delivery!MostUrgent
  <2>3. QED
    BY <2>1, <2>2 DEF Balanced
<1>7. CASE KeyboardISR
  <2>1. pc = "kb_isr" /\ HandleKeyboard("eoi") /\ Latch
    BY <1>7 DEF KeyboardISR
  <2>2. Wires(ctl') = {} /\ pc' # "kb_isr"
    BY <2>1, KeyboardHandled
  <2>3. 1 \notin pending
    BY <2>1 DEF Balanced
  <2>4. QED
    BY <1>2, <2>1, <2>2, <2>3 DEF Balanced
<1>8. CASE MouseISR
  <2>1. pc = "ms_isr" /\ HandleMouse("eoi") /\ Latch
    BY <1>8 DEF MouseISR
  <2>2. pc' # "kb_isr"
    BY <2>1, MouseHandled
  <2>3. CASE FromMouse(ctl)
    <3>1. 1 \notin Wires(ctl)
      BY <2>3 DEF FromMouse, Wires
    <3>2. Wires(ctl') = {}
      <4>1. ctl' = Read(ctl)
        BY <2>1, <2>3 DEF HandleMouse
      <4>2. QED
        BY <1>1, <4>1, ReadSteps
    <3>3. QED
      BY <1>2, <2>1, <2>2, <3>1, <3>2 DEF Balanced
  <2>4. CASE ~FromMouse(ctl)
    <3>1. ctl' = ctl
      BY <2>1, <2>4 DEF HandleMouse
    <3>2. QED
      BY <1>2, <2>1, <2>2, <3>1 DEF Balanced
  <2>5. QED
    BY <2>3, <2>4
<1>9. CASE EndOfInterrupt
  BY <1>9 DEF EndOfInterrupt, Delivery!Finish, Balanced
<1>10. CASE UNCHANGED vars
  BY <1>10 DEF vars, irq, Balanced
<1>11. QED
  BY <1>3, <1>4, <1>5, <1>6, <1>7, <1>8, <1>9, <1>10 DEF Next, Handle

-----------------------------------------------------------------------------
(* Handlers                                                                *)

InitKeyboard == {"kb_start", "kb_drain", "kb_enable", "kb_request", "kb_read", "kb_set",
                 "kb_write", "kb_scan"}

InitMouse == {"ms_drain", "ms_enable", "ms_request", "ms_read", "ms_set", "ms_write", "ms_cmd"}

Set == {"sti", "wild"} \union Running

\* Where the tables of the present mode have been passed on.
TableInv ==
  /\ pc # "kb_start" => kb = KeyboardEvenHandler(mode)
  /\ pc \notin InitKeyboard \union {"ms_start"} => ms.handler = MouseEventHandler(mode)
  /\ pc = "activate" => mode = "text"
  /\ pc \in Set => mode = "desktop"
  /\ pc \in Running \union {"wild"} => live
  /\ LiveInv
  /\ OnlyWidthCalled

\* After sti the tables are the desktop's.
Stays(p) ==
  p \notin InitKeyboard \union {"ms_start"} /\ p # "kb_start" /\ p # "activate" /\ p \in Set

LEMMA RunningStays == \A p \in Running \union {"wild"} : Stays(p)
  BY DEF Stays, InitKeyboard, Set, Running

LEMMA KernelAbove == KernelBase \in Nat /\ KernelBase > 0
  BY SMT DEF KernelBase

\* What is called of the text mode's tables is code of the kernel, and the desktop's
\* words are null but for its width.
LEMMA TableCalls ==
  ASSUME NEW m \in {"text", "desktop"}
  PROVE  /\ ms.handler = MouseEventHandler(m) =>
              \A e : \A a \in Called(e) : a = 0 \/ a >= KernelBase \/ (m = "desktop" /\ a = desktop.w)
         /\ kb = KeyboardEvenHandler("desktop") => kb.OnKeyDown = 0 /\ kb.OnKeyUp = 0
<1>1. ASSUME ms.handler = MouseEventHandler(m), NEW e, NEW a \in Called(e)
      PROVE  a = 0 \/ a >= KernelBase \/ (m = "desktop" /\ a = desktop.w)
  <2>1. PICK s \in Slots : a = MouseEventHandler(m)[s]
    BY <1>1 DEF Called
  <2>2. s \in {"OnMouseDown", "OnMouseUp", "OnMouseMove"}
    BY DEF Slots
  <2>3. CASE m = "text"
    <3>1. a = 0 \/ a = KernelBase + 1
      BY <2>1, <2>2, <2>3 DEF MouseEventHandler, my_mousemove_handler
    <3>2. QED
      BY <3>1, KernelAbove
  <2>4. CASE m = "desktop"
    BY <2>1, <2>2, <2>4 DEF MouseEventHandler, desktop
  <2>5. QED
    BY <2>3, <2>4
<1>2. kb = KeyboardEvenHandler("desktop") => kb.OnKeyDown = 0 /\ kb.OnKeyUp = 0
  BY DEF KeyboardEvenHandler, desktop
<1>3. QED
  BY <1>1, <1>2

\* The calls of the mouse's handler.
LEMMA MouseCalls ==
  ASSUME IInv, NEW next, HandleMouse(next), ms.handler = MouseEventHandler(mode)
  PROVE  /\ ms'.handler = ms.handler
         /\ mode = "text" => jumped' = jumped /\ pc' = next
         /\ mode = "desktop" => jumped' \subseteq jumped \union {desktop.w}
<1>1. mode \in {"text", "desktop"} /\ ms \in MouseType
  BY DEF IInv, TypeOK, MouseType
<1>2. CASE ~FromMouse(ctl)
  BY <1>2 DEF HandleMouse
<1>3. CASE FromMouse(ctl)
  <2> DEFINE v == ctl.out.val
             b == [ms.buffer EXCEPT ![ms.offset + 1] = v]
             whole == ms.offset = 2 /\ FirstByte(b[1])
             slots == {s \in Slots : ms.handler[s] # 0}
             e == PacketEvent(slots, ms.buttons, b)
             addresses == IF whole THEN Called(e) ELSE {}
             o == (ms.offset + 1) % 3
             n == IF whole THEN b[1] ELSE ms.buttons
  <2>1. /\ ms' = [ms EXCEPT !.buffer = b, !.offset = o, !.buttons = n]
        /\ Call(addresses, next)
    BY <1>3, Zenon DEF HandleMouse
  <2> HIDE DEF b, whole, slots, e, o, n
  <2>2. ms'.handler = ms.handler
    BY <1>1, <2>1 DEF MouseType
  <2>3. \A a \in addresses : a = 0 \/ a >= KernelBase \/ (mode = "desktop" /\ a = desktop.w)
    BY <1>1, TableCalls
  <2> HIDE DEF addresses
  <2> DEFINE astray == {a \in addresses : a # 0 /\ a < KernelBase}
  <2>4. jumped' = jumped \union astray /\ pc' \in {next} \union (IF astray = {} THEN {} ELSE {"wild"})
    BY <2>1 DEF Call
  <2>5. addresses \subseteq Nat
    <3>1. \A f : Called(f) \in SUBSET Nat
      BY <1>1 DEF MouseType, Called
    <3>2. QED
      BY <3>1 DEF addresses
  <2>6. \A a \in addresses : a # 0 /\ a < KernelBase => mode = "desktop" /\ a = desktop.w
    BY <2>3, <2>5, KernelAbove
  <2>7. (mode = "text" => astray = {}) /\ astray \subseteq {desktop.w}
    BY <2>6
  <2> HIDE DEF astray
  <2>8. QED
    BY <2>2, <2>4, <2>7
<1>4. QED
  BY <1>2, <1>3

LEMMA TableNext == IInv /\ TableInv /\ [Next]_vars => TableInv'
<1> SUFFICES ASSUME IInv, TableInv, [Next]_vars PROVE TableInv'
  OBVIOUS
<1>1. LiveInv' /\ LiveInv /\ mode \in {"text", "desktop"}
  BY LiveNext DEF TableInv, IInv, TypeOK
<1>2. ASSUME jumped' = jumped, live' = live \/ live' = TRUE PROVE OnlyWidthCalled'
  BY <1>2 DEF TableInv, OnlyWidthCalled
<1>3. CASE KeyboardStart
  BY <1>1, <1>2, <1>3 DEF KeyboardStart, At, TableInv, InitKeyboard, Set, Running, irq
<1>4. CASE KeyboardDrain \/ KeyboardCommand \/ KeyboardRead \/ KeyboardWrite \/ KeyboardScan
  <2>1. /\ UNCHANGED <<mode, kb, ms, jumped, live>>
        /\ pc \in InitKeyboard /\ pc # "kb_start"
        /\ pc' \in InitKeyboard \union {"ms_start"} /\ pc' # "kb_start"
    <3>1. CASE KeyboardDrain
      BY <3>1 DEF KeyboardDrain, At, InitKeyboard, Latch
    <3>2. CASE KeyboardCommand
      BY <3>2 DEF KeyboardCommand, KeyboardCommands, At, InitKeyboard, irq, boot
    <3>3. CASE KeyboardRead \/ KeyboardWrite \/ KeyboardScan
      BY <3>3 DEF KeyboardRead, KeyboardWrite, KeyboardScan, At, InitKeyboard, irq, boot, Latch
    <3>4. QED
      BY <1>4, <3>1, <3>2, <3>3
  <2>2. pc' \notin Set /\ pc' # "activate" /\ pc' \notin Running \union {"wild"}
    BY <2>1 DEF InitKeyboard, Set, Running
  <2>3. QED
    BY <1>1, <1>2, <2>1, <2>2 DEF TableInv
<1>5. CASE MouseStart
  <2>1. /\ ms' = [ms EXCEPT !.handler = MouseEventHandler(mode), !.offset = 0, !.buttons = 0]
        /\ UNCHANGED <<mode, kb, jumped, live>> /\ pc = "ms_start" /\ pc' = "ms_drain"
    BY <1>5 DEF MouseStart, At, boot, irq
  <2>2. ms'.handler = MouseEventHandler(mode)
    BY <2>1 DEF IInv, TypeOK
  <2>3. QED
    BY <1>1, <1>2, <2>1, <2>2 DEF TableInv, Set, Running
<1>6. CASE MouseDrain \/ MouseCommand \/ MouseRead \/ MouseWrite \/ MouseDeviceCommand
  <2>1. /\ UNCHANGED <<mode, kb, ms, jumped, live>>
        /\ pc \in InitMouse
        /\ pc' \in InitMouse \union {IF mode = "text" THEN "activate" ELSE "sti"}
    <3>1. CASE MouseDrain
      BY <3>1 DEF MouseDrain, At, InitMouse, Latch, boot
    <3>2. CASE MouseCommand
      BY <3>2 DEF MouseCommand, MouseCommands, At, InitMouse, irq, boot
    <3>3. CASE MouseRead \/ MouseWrite
      BY <3>3 DEF MouseRead, MouseWrite, At, InitMouse, boot, Latch
    <3>4. CASE MouseDeviceCommand
      BY <3>4 DEF MouseDeviceCommand, At, InitMouse, irq
    <3>5. QED
      BY <1>6, <3>1, <3>2, <3>3, <3>4
  <2>2. /\ pc \notin InitKeyboard \union {"ms_start"} /\ pc # "kb_start" /\ pc' # "kb_start"
        /\ pc' = "activate" => mode = "text"
        /\ pc' \in Set => mode = "desktop"
        /\ pc' \notin Running \union {"wild"}
    BY <1>1, <2>1 DEF InitKeyboard, InitMouse, Set, Running
  <2>3. QED
    BY <1>1, <1>2, <2>1, <2>2 DEF TableInv
<1>7. CASE ActivateAll
  <2>1. /\ pc = "activate" /\ HandleMouse("kb_start") /\ mode = "text" /\ mode' = "desktop"
        /\ live' = live
    BY <1>7 DEF ActivateAll, At, TableInv, Latch
  <2>2. ms.handler = MouseEventHandler(mode)
    BY <2>1 DEF TableInv, InitKeyboard
  <2>3. jumped' = jumped /\ pc' = "kb_start"
    BY <2>1, <2>2, MouseCalls
  <2>4. QED
    BY <1>1, <1>2, <2>1, <2>3 DEF TableInv, InitKeyboard, Set, Running
<1>8. CASE ActivateInterrupts
  BY <1>1, <1>2, <1>8 DEF ActivateInterrupts, Delivery!Start, At, TableInv, InitKeyboard, Set,
                          Running, boot
<1>9. CASE KeyPress \/ MouseReport \/ LoadByte \/ UNCHANGED vars
  <2>1. UNCHANGED <<pc, mode, kb, ms, jumped, live>>
    BY <1>9 DEF KeyPress, MouseReport, LoadByte, Latch, irq, boot, vars
  <2>2. QED
    BY <1>1, <1>2, <2>1 DEF TableInv
<1>10. CASE Accept \/ EndOfInterrupt
  <2>1. /\ UNCHANGED <<mode, kb, ms, jumped, live>>
        /\ pc \in Running /\ pc' \in Running
    BY <1>10 DEF Accept, EndOfInterrupt, Delivery!Begin, Delivery!Withdraw, Delivery!Finish, boot,
                 Running
  <2>2. Stays(pc) /\ Stays(pc')
    BY <2>1, RunningStays
  <2>3. QED
    BY <1>1, <1>2, <2>1, <2>2 DEF TableInv, Stays
<1>11. CASE KeyboardISR \/ MouseISR
  <2>1. /\ pc \in {"kb_isr", "ms_isr"} /\ UNCHANGED <<mode, kb, live>>
        /\ \/ pc = "kb_isr" /\ HandleKeyboard("eoi")
           \/ pc = "ms_isr" /\ HandleMouse("eoi")
    BY <1>11 DEF KeyboardISR, MouseISR, Latch, boot
  <2>2. Stays(pc) /\ pc \in Running /\ Stays("eoi") /\ Stays("wild")
    BY <2>1, RunningStays DEF Running
  <2>3. mode = "desktop" /\ kb = KeyboardEvenHandler(mode) /\ ms.handler = MouseEventHandler(mode)
    BY <2>2 DEF TableInv, Stays
  <2>4. /\ ms'.handler = ms.handler /\ jumped' \subseteq jumped \union {desktop.w}
        /\ pc' \in {"eoi", "wild"}
    <3>1. CASE HandleMouse("eoi")
      BY <2>3, <3>1, MouseCalls, MouseHandled
    <3>2. CASE HandleKeyboard("eoi")
      <4>1. kb.OnKeyDown = 0 /\ kb.OnKeyUp = 0
        BY <2>3, TableCalls
      <4>2. jumped' = jumped
        BY <3>2, <4>1 DEF HandleKeyboard, Call
      <4>3. QED
        BY <3>2, <4>2, KeyboardHandled
    <3>3. QED
      BY <2>1, <3>1, <3>2
  <2>5. live
    BY <2>2 DEF TableInv
  <2>6. OnlyWidthCalled'
    BY <2>1, <2>4, <2>5 DEF TableInv, OnlyWidthCalled
  <2>7. QED
    BY <1>1, <2>1, <2>2, <2>3, <2>4, <2>6 DEF TableInv, Stays
<1>12. QED
  BY <1>3, <1>4, <1>5, <1>6, <1>7, <1>8, <1>9, <1>10, <1>11 DEF Next, Boot, Handle

-----------------------------------------------------------------------------
(* Theorems                                                                *)

LEMMA Invariance == SafeSpec => []IInv
  BY InitIInv, NextIInv, PTL DEF SafeSpec

\* Every reachable state of the input path has its type: a packet never overruns its
\* buffer, and the drivers' tables and the controller's queues stay well formed.
THEOREM TypeCorrect == SafeSpec => []TypeOK
<1>1. IInv => TypeOK
  BY DEF IInv
<1>2. QED
  BY <1>1, Invariance, PTL

\* No byte waits behind a line whose request is neither latched nor being served,
\* whatever the firmware left, whatever is pressed or moved during the boot, however
\* many waits time out and wherever the processor outruns the controller.
THEOREM WakeupsKept == SafeSpec => []NoLostWakeup
<1>1. IInv => NoLostWakeup
  BY DEF IInv, WakeInv, NoLostWakeup, Watched
<1>2. QED
  BY <1>1, Invariance, PTL

LEMMA LiveInvariance == SafeSpec => []LiveInv
<1>1. Init => LiveInv
  BY DEF Init, Delivery!Init, LiveInv
<1>2. QED
  BY <1>1, LiveNext, Invariance, PTL DEF SafeSpec

LEMMA TableInvariance == SafeSpec => []TableInv
<1>1. Init => TableInv
  <2>1. Init => live = FALSE /\ jumped = {} /\ pc = "kb_start" /\ mode = "text"
    BY DEF Init, Delivery!Init
  <2>2. QED
    BY <2>1 DEF TableInv, InitKeyboard, Set, Running, LiveInv, OnlyWidthCalled
<1>2. QED
  BY <1>1, TableNext, Invariance, PTL DEF SafeSpec

\* Nothing but the width of the desktop is ever called outside the kernel, and that only
\* once interrupts are on: neither the exchange of the tables nor the activation of
\* the drivers by their interrupt handlers calls astray, for every input.
THEOREM OnlyWidth == SafeSpec => []OnlyWidthCalled
<1>1. TableInv => OnlyWidthCalled
  BY DEF TableInv
<1>2. QED
  BY <1>1, TableInvariance, PTL

-----------------------------------------------------------------------------
(* The configuration byte                                                  *)

\* Setting and clearing one of these bits leaves the others.
Flags == {IRQ1Enable, IRQ12Enable, KeyboardOff, MouseOff, Translation}

LEMMA FlagSteps ==
  ASSUME NEW b \in Byte, NEW m \in Flags, NEW n \in Flags
  PROVE  /\ Bit(With(b, m), n) <=> (n = m \/ Bit(b, n))
         /\ Bit(Without(b, m), n) <=> (n # m /\ Bit(b, n))
<1> USE DEF With, Without, Bit, Byte, IRQ1Enable, IRQ12Enable, KeyboardOff, MouseOff, Translation
<1>1. CASE m = 1
  BY <1>1 DEF Flags
<1>2. CASE m = 2
  BY <1>2 DEF Flags
<1>3. CASE m = 16
  BY <1>3 DEF Flags
<1>4. CASE m = 32
  BY <1>4 DEF Flags
<1>5. CASE m = 64
  BY <1>5 DEF Flags
<1>6. QED
  BY <1>1, <1>2, <1>3, <1>4, <1>5 DEF Flags

\* The configuration lets both devices through with their interrupts.
Good(b) ==
  /\ Bit(b, IRQ1Enable) /\ Bit(b, IRQ12Enable)
  /\ ~Bit(b, KeyboardOff) /\ ~Bit(b, MouseOff)

\* What the two drivers write back.
LEMMA ConfigBits ==
  ASSUME NEW b \in Byte
  PROVE  /\ WithKeyboard(b) \in Byte /\ WithMouse(b) \in Byte
         /\ Bit(WithKeyboard(b), IRQ1Enable) /\ ~Bit(WithKeyboard(b), KeyboardOff)
         /\ Bit(b, Translation)
              => Bit(WithKeyboard(b), Translation) /\ Bit(WithMouse(b), Translation)
         /\ Good(b) => Good(WithKeyboard(b))
         /\ Bit(b, IRQ1Enable) /\ ~Bit(b, KeyboardOff) => Good(WithMouse(b))
<1> DEFINE k == With(b, IRQ1Enable)
           m == With(b, IRQ12Enable)
<1>1. k \in Byte /\ m \in Byte
  BY Masks
<1>2. IRQ1Enable \in Flags /\ IRQ12Enable \in Flags /\ KeyboardOff \in Flags
      /\ MouseOff \in Flags /\ Translation \in Flags
  BY DEF Flags
<1>3. \A x, y \in {IRQ1Enable, IRQ12Enable, KeyboardOff, MouseOff, Translation} :
        /\ Bit(With(b, x), y) <=> (y = x \/ Bit(b, y))
        /\ Bit(Without(k, x), y) <=> (y # x /\ Bit(k, y))
        /\ Bit(Without(m, x), y) <=> (y # x /\ Bit(m, y))
  BY <1>1, FlagSteps DEF Flags
<1>4. WithKeyboard(b) = Without(k, KeyboardOff) /\ WithMouse(b) = Without(m, MouseOff)
  BY DEF WithKeyboard, WithMouse
<1>5. /\ IRQ1Enable # KeyboardOff /\ IRQ1Enable # MouseOff /\ IRQ12Enable # MouseOff
      /\ IRQ12Enable # KeyboardOff /\ KeyboardOff # MouseOff /\ Translation # KeyboardOff
      /\ Translation # MouseOff /\ IRQ1Enable # IRQ12Enable
  BY DEF IRQ1Enable, IRQ12Enable, KeyboardOff, MouseOff, Translation
<1>6. WithKeyboard(b) \in Byte /\ WithMouse(b) \in Byte
  BY <1>1, <1>4, Masks
<1> HIDE DEF k, m
<1>7. QED
  BY <1>3, <1>4, <1>5, <1>6 DEF Good, k, m


\* Commands and data that a boot writes, field by field.
LEMMA CommandFields ==
  ASSUME NEW c \in Controller, NEW d \in Commands
  PROVE  LET n == Command(c, d) IN
         /\ n.full = c.full /\ n.out = c.out /\ n.kbd = c.kbd /\ n.aux = c.aux
         /\ d # 32 => n.ctl = c.ctl
         /\ d = 32 => n.ctl = Append(c.ctl, [val |-> c.ccb, src |-> "ctl", what |-> "config"])
         /\ d = 174 => n.ccb = Without(c.ccb, KeyboardOff)
         /\ d = 168 => n.ccb = Without(c.ccb, MouseOff)
         /\ d \in {32, 96} => n.ccb = c.ccb
         /\ d = 96 => n.expect = "ccb"
<1>1. CASE d = 174
  <2> DEFINE n == [c EXCEPT !.expect = "none", !.ccb = Without(@, KeyboardOff)]
  <2>1. /\ n.full = c.full /\ n.out = c.out /\ n.kbd = c.kbd /\ n.aux = c.aux
        /\ n.ctl = c.ctl /\ n.ccb = Without(c.ccb, KeyboardOff)
    BY DEF Controller
  <2>2. Command(c, d) = n
    BY <1>1 DEF Command
  <2> HIDE DEF n
  <2>3. QED
    BY <1>1, <2>1, <2>2
<1>2. CASE d = 168
  <2> DEFINE n == [c EXCEPT !.expect = "none", !.ccb = Without(@, MouseOff)]
  <2>1. /\ n.full = c.full /\ n.out = c.out /\ n.kbd = c.kbd /\ n.aux = c.aux
        /\ n.ctl = c.ctl /\ n.ccb = Without(c.ccb, MouseOff)
    BY DEF Controller
  <2>2. Command(c, d) = n
    BY <1>2 DEF Command
  <2> HIDE DEF n
  <2>3. QED
    BY <1>2, <2>1, <2>2
<1>3. CASE d = 32
  <2> DEFINE n == [c EXCEPT !.expect = "none",
                       !.ctl = Append(@, [val |-> c.ccb, src |-> "ctl", what |-> "config"])]
  <2>1. /\ n.full = c.full /\ n.out = c.out /\ n.kbd = c.kbd /\ n.aux = c.aux
        /\ n.ccb = c.ccb
        /\ n.ctl = Append(c.ctl, [val |-> c.ccb, src |-> "ctl", what |-> "config"])
    BY DEF Controller
  <2>2. Command(c, d) = n
    BY <1>3 DEF Command
  <2> HIDE DEF n
  <2>3. QED
    BY <1>3, <2>1, <2>2
<1>4. CASE d = 96
  <2> DEFINE n == [c EXCEPT !.expect = "ccb"]
  <2>1. /\ n.full = c.full /\ n.out = c.out /\ n.kbd = c.kbd /\ n.aux = c.aux
        /\ n.ctl = c.ctl /\ n.ccb = c.ccb /\ n.expect = "ccb"
    BY DEF Controller
  <2>2. Command(c, d) = n
    BY <1>4 DEF Command
  <2> HIDE DEF n
  <2>3. QED
    BY <1>4, <2>1, <2>2
<1>5. CASE d = 212
  <2> DEFINE n == [c EXCEPT !.expect = "aux"]
  <2>1. /\ n.full = c.full /\ n.out = c.out /\ n.kbd = c.kbd /\ n.aux = c.aux
        /\ n.ctl = c.ctl
    BY DEF Controller
  <2>2. Command(c, d) = n
    BY <1>5 DEF Command
  <2> HIDE DEF n
  <2>3. QED
    BY <1>5, <2>1, <2>2
<1>6. QED
  BY <1>1, <1>2, <1>3, <1>4, <1>5 DEF Commands

LEMMA PrefixFields ==
  ASSUME NEW c \in Controller
  PROVE  LET n == Command(c, 212) IN
         /\ n.full = c.full /\ n.kbd = c.kbd /\ n.aux = c.aux /\ n.ctl = c.ctl
         /\ n.ccb = c.ccb /\ n.expect = "aux" /\ n \in Controller
<1> DEFINE n == [c EXCEPT !.expect = "aux"]
<1>1. /\ n.full = c.full /\ n.kbd = c.kbd /\ n.aux = c.aux /\ n.ctl = c.ctl
      /\ n.ccb = c.ccb /\ n.expect = "aux" /\ n \in Controller
  BY DEF Controller
<1>2. Command(c, 212) = n
  BY DEF Command
<1> HIDE DEF n
<1>3. QED
  BY <1>1, <1>2

LEMMA DataFields ==
  ASSUME NEW c \in Controller, NEW d \in Byte
  PROVE  LET n == Data(c, d) IN
         /\ n.full = c.full /\ n.out = c.out /\ n.ctl = c.ctl
         /\ c.expect = "ccb" =>
              n.ccb = d /\ n.expect = "none" /\ n.kbd = c.kbd /\ n.aux = c.aux
         /\ c.expect = "aux" =>
              /\ n.ccb = c.ccb /\ n.kbd = c.kbd
              /\ n.aux = Append(c.aux, [val |-> 250, src |-> "aux", what |-> "ack"])
         /\ c.expect = "none" =>
              /\ n.ccb = c.ccb /\ n.aux = c.aux
              /\ n.kbd = Append(c.kbd, [val |-> 250, src |-> "kbd", what |-> "ack"])
<1>1. c.expect \in {"none", "ccb", "aux"}
  BY DEF Controller
<1>2. CASE c.expect = "ccb"
  BY <1>2 DEF Data, Controller
<1>3. CASE c.expect = "aux"
  BY <1>3 DEF Data, Controller
<1>4. CASE c.expect = "none"
  BY <1>4 DEF Data, Controller
<1>5. QED
  BY <1>1, <1>2, <1>3, <1>4

LEMMA ReadFields ==
  ASSUME NEW c \in Controller
  PROVE  LET n == Read(c) IN
         /\ n.full = FALSE /\ n.out = c.out /\ n.ccb = c.ccb /\ n.expect = c.expect
         /\ n.kbd = c.kbd /\ n.aux = c.aux /\ n.ctl = c.ctl
BY DEF Read, Controller

LEMMA LoadFields ==
  ASSUME NEW c \in Controller, NEW q \in Ready(c)
  PROVE  LET n == Load(c, q) IN
         /\ ~c.full /\ n.full /\ n.ccb = c.ccb /\ n.expect = c.expect
         /\ q \in {"kbd", "aux", "ctl"} /\ c[q] # <<>>
         /\ n.out = Head(c[q]) /\ n[q] = Tail(c[q])
         /\ q # "kbd" => n.kbd = c.kbd
         /\ q # "aux" => n.aux = c.aux
         /\ q # "ctl" => n.ctl = c.ctl
<1>1. ~c.full /\ q \in {"kbd", "aux", "ctl"} /\ c[q] # <<>>
  BY DEF Ready
<1>2. CASE q = "kbd"
  BY <1>1, <1>2 DEF Load, Controller
<1>3. CASE q = "aux"
  BY <1>1, <1>3 DEF Load, Controller
<1>4. CASE q = "ctl"
  BY <1>1, <1>4 DEF Load, Controller
<1>5. QED
  BY <1>1, <1>2, <1>3, <1>4

\* A controller that passes nothing on holds something, or nothing that it may.
LEMMA Settled ==
  ASSUME NEW c \in Controller, Ready(c) = {}
  PROVE  \/ c.full
         \/ /\ c.ctl = <<>>
            /\ ~Bit(c.ccb, KeyboardOff) => c.kbd = <<>>
            /\ ~Bit(c.ccb, MouseOff) => c.aux = <<>>
<1> SUFFICES ASSUME ~c.full
             PROVE  /\ c.ctl = <<>>
                    /\ ~Bit(c.ccb, KeyboardOff) => c.kbd = <<>>
                    /\ ~Bit(c.ccb, MouseOff) => c.aux = <<>>
  BY DEF Controller
<1>1. c.ctl = <<>>
  BY DEF Ready
<1>2. ASSUME ~Bit(c.ccb, KeyboardOff), c.kbd # <<>> PROVE FALSE
  <2>1. "kbd" \in Ready(c)
    BY <1>1, <1>2 DEF Ready
  <2>2. QED
    BY <2>1
<1>3. ASSUME ~Bit(c.ccb, MouseOff), c.aux # <<>> PROVE FALSE
  <2>1. "aux" \in Ready(c)
    BY <1>1, <1>3 DEF Ready
  <2>2. QED
    BY <2>1
<1>4. QED
  BY <1>1, <1>2, <1>3

-----------------------------------------------------------------------------
(* An undisturbed boot                                                     *)

NothingWaits == ~ctl.full /\ ctl.kbd = <<>> /\ ctl.aux = <<>> /\ ctl.ctl = <<>>

\* The controller's answer to 0x20 is all that waits.
Config == [val |-> ctl.ccb, src |-> "ctl", what |-> "config"]

ConfigWaits ==
  /\ ctl.kbd = <<>> /\ ctl.aux = <<>>
  /\ \/ ctl.full /\ ctl.ctl = <<>> /\ ctl.out = Config
     \/ ~ctl.full /\ ctl.ctl = <<Config>>

Holds == Len(ctl.aux) + (IF ctl.full THEN 1 ELSE 0)

\* At most n of the mouse's acknowledgements wait, and nothing else.
AcksWait(n) == ctl.kbd = <<>> /\ ctl.ctl = <<>> /\ Holds <= n

EmptyAt == {"kb_enable", "kb_request", "kb_set", "kb_write", "kb_scan",
            "ms_enable", "ms_request", "ms_set", "ms_write"}

\* The keyboard driver has written its configuration, the mouse driver not yet.
HalfWay == {"kb_scan", "ms_start", "ms_drain", "ms_enable", "ms_request",
            "ms_read", "ms_set", "ms_write"}

\* What waits in the controller: the acknowledgements of the first initialisation
\* are fewer than the drain loop of the second reads.
QueueInv ==
  /\ pc = "kb_start" => AcksWait(6)
  /\ pc = "kb_drain" => AcksWait(drain)
  /\ pc \in {"kb_start", "kb_drain"} /\ mode = "text" => ctl.aux = <<>>
  /\ pc \in EmptyAt => NothingWaits
  /\ pc \in {"kb_read", "ms_read"} => ConfigWaits
  /\ pc \in {"ms_start", "ms_drain"} => ctl.aux = <<>> /\ ctl.ctl = <<>>
  /\ pc = "ms_cmd" => AcksWait(cmd - 1)
  /\ pc = "activate" => AcksWait(6)

\* What the configuration has become, and what the next byte is taken for.
ConfigInv ==
  /\ pc \in {"kb_write", "ms_write"} => ctl.expect = "ccb"
  /\ pc = "kb_scan" => ctl.expect = "none"
  /\ pc \in {"kb_set", "kb_write"} => status = WithKeyboard(ctl.ccb)
  /\ pc \in {"ms_set", "ms_write"} => status = WithMouse(ctl.ccb)
  /\ Bit(ctl.ccb, Translation)
  /\ pc \in HalfWay => Bit(ctl.ccb, IRQ1Enable) /\ ~Bit(ctl.ccb, KeyboardOff)
  /\ mode = "desktop" \/ pc \in {"ms_cmd", "activate", "sti"} \union Running
       => Good(ctl.ccb)

QuietInv == QueueInv /\ ConfigInv /\ LiveInv

\* The firmware has scan codes translated, and the drain loop outlasts what six
\* commands of an initialisation leave behind.
QuietAssumption ==
  /\ \A c \in Firmware : Bit(c, Translation)
  /\ DrainTimeout[TRUE] >= 6

\* Without a disturbance the processor waits for the controller.
LEMMA QuietAt ==
  ASSUME quiet, NEW label, At(label)
  PROVE  pc = label /\ Ready(ctl) = {}
BY DEF At

LEMMA QuietInit == Init /\ QuietAssumption /\ quiet => QuietInv
<1> SUFFICES ASSUME Init, QuietAssumption, quiet PROVE QuietInv
  OBVIOUS
<1>1. PICK c \in Firmware, pressed \in ScanCodes, f \in BOOLEAN :
        /\ ~(f /\ quiet)
        /\ ctl = [full |-> f, out |-> [val |-> pressed, src |-> "kbd", what |-> "scan"],
                  ccb |-> c, expect |-> "none", kbd |-> <<>>, aux |-> <<>>, ctl |-> <<>>,
                  streaming |-> FALSE]
  BY DEF Init
<1>2. ~ctl.full /\ ctl.kbd = <<>> /\ ctl.aux = <<>> /\ ctl.ctl = <<>> /\ ctl.ccb = c
  BY <1>1
<1>3. Holds = 0
  BY <1>2 DEF Holds
<1>4. pc = "kb_start" /\ mode = "text" /\ ~live
  BY DEF Init, Delivery!Init
<1>5. QueueInv
  BY <1>2, <1>3, <1>4 DEF QueueInv, AcksWait, EmptyAt
<1>6. ConfigInv
  BY <1>2, <1>4 DEF ConfigInv, QuietAssumption, HalfWay, Running
<1>7. QED
  BY <1>4, <1>5, <1>6 DEF QuietInv, LiveInv

\* Before the interrupts are on, nobody types or moves the mouse; afterwards only
\* the configuration matters, which input does not change.
LEMMA QuietInput ==
  ASSUME IInv, quiet, QuietInv, KeyPress \/ MouseReport
  PROVE  QuietInv'
<1>1. /\ live /\ ctl'.ccb = ctl.ccb /\ UNCHANGED <<pc, mode, live>>
  <2>1. ctl \in Controller
    BY DEF IInv, TypeOK
  <2>2. CASE KeyPress
    BY <2>1, <2>2 DEF KeyPress, Controller, irq, boot
  <2>3. CASE MouseReport
    BY <2>1, <2>3 DEF MouseReport, Controller, irq, boot
  <2>4. QED
    BY <2>2, <2>3
<1>2. pc \in Running \union {"wild"}
  BY <1>1 DEF QuietInv, LiveInv
<1>3. QueueInv'
  BY <1>1, <1>2 DEF QueueInv, Running, EmptyAt
<1>4. ConfigInv'
  BY <1>1, <1>2 DEF QuietInv, ConfigInv, Running, HalfWay
<1>5. QED
  BY <1>1, <1>2, <1>3, <1>4 DEF QuietInv, LiveInv

\* A byte on its way to the output buffer stays what it is.
LEMMA QuietLoad ==
  ASSUME IInv, quiet, QuietInv, LoadByte
  PROVE  QuietInv'
<1>1. PICK q \in Ready(ctl) : ctl' = Load(ctl, q)
  BY DEF LoadByte
<1>2. ctl \in Controller /\ ctl.aux \in Seq(Bytes) /\ ctl.ctl \in Seq(Bytes)
  BY DEF IInv, TypeOK, Controller
<1>3. /\ UNCHANGED <<quiet, pc, mode, drain, status, cmd, live>>
      /\ ctl'.ccb = ctl.ccb /\ ctl'.expect = ctl.expect /\ ctl'.full /\ ~ctl.full
  BY <1>1, <1>2, LoadFields DEF LoadByte, boot, Latch
<1>4. /\ q \in {"kbd", "aux", "ctl"} /\ ctl[q] # <<>>
      /\ ctl'.out = Head(ctl[q]) /\ ctl'[q] = Tail(ctl[q])
      /\ q # "kbd" => ctl'.kbd = ctl.kbd
      /\ q # "aux" => ctl'.aux = ctl.aux
      /\ q # "ctl" => ctl'.ctl = ctl.ctl
  BY <1>1, <1>2, LoadFields
<1>5. ConfigInv' /\ LiveInv'
  BY <1>3 DEF QuietInv, ConfigInv, LiveInv
<1>6. ASSUME NEW n \in Int, AcksWait(n) PROVE ctl'.kbd = <<>> /\ ctl'.ctl = <<>> /\ Holds' <= n
  <2>1. q = "aux"
    BY <1>4, <1>6 DEF AcksWait
  <2>2. ctl.aux # <<>> /\ ctl'.aux = Tail(ctl.aux)
    BY <1>4, <2>1
  <2>3. Len(ctl'.aux) = Len(ctl.aux) - 1 /\ Len(ctl.aux) \in Nat
    BY <1>2, <2>2
  <2>4. Holds' = Holds
    BY <1>3, <2>3 DEF Holds
  <2>5. QED
    BY <1>4, <1>6, <2>1, <2>4 DEF AcksWait
<1>7. pc \notin EmptyAt
  BY <1>4 DEF QuietInv, QueueInv, NothingWaits
<1>8. ConfigWaits => ConfigWaits'
  <2>1. SUFFICES ASSUME ConfigWaits PROVE ConfigWaits'
    OBVIOUS
  <2>2. ctl.kbd = <<>> /\ ctl.aux = <<>> /\ ctl.ctl = <<Config>>
    BY <1>3, <2>1 DEF ConfigWaits
  <2>3. q = "ctl"
    BY <1>4, <2>2
  <2>4. ctl'.out = Config /\ ctl'.ctl = <<>>
    <3>1. ctl'.out = Head(ctl.ctl) /\ ctl'.ctl = Tail(ctl.ctl)
      BY <1>4, <2>3
    <3> HIDE DEF Config
    <3>2. Head(<<Config>>) = Config /\ Tail(<<Config>>) = <<>>
      OBVIOUS
    <3>3. QED
      BY <2>2, <3>1, <3>2
  <2>5. QED
    BY <1>3, <1>4, <2>2, <2>3, <2>4 DEF ConfigWaits, Config
<1>9. pc \in {"ms_start", "ms_drain"} => ctl'.aux = <<>> /\ ctl'.ctl = <<>>
  BY <1>4 DEF QuietInv, QueueInv
<1>10. drain \in Int /\ cmd - 1 \in Int
  <2>1. DrainTimeout[quiet] \in Nat /\ Len(DeviceCommands) = 6
    BY Timeouts DEF IInv, TypeOK, DeviceCommands
  <2>2. QED
    BY <2>1 DEF IInv, TypeOK
<1>11. pc \in {"kb_start", "kb_drain"} /\ mode = "text" => ctl'.aux = <<>>
  <2>1. pc \in {"kb_start", "kb_drain"} => ctl.kbd = <<>> /\ ctl.ctl = <<>>
    BY DEF QuietInv, QueueInv, AcksWait
  <2>2. QED
    BY <1>4, <2>1 DEF QuietInv, QueueInv
<1>12. QueueInv'
  BY <1>3, <1>6, <1>7, <1>8, <1>9, <1>10, <1>11 DEF QuietInv, QueueInv, AcksWait
<1>13. QED
  BY <1>5, <1>12 DEF QuietInv

\* From the end of the boot on, only the configuration matters.
LEMMA QuietEnd ==
  ASSUME QuietInv, pc' \in Running \union {"wild"}, ctl'.ccb = ctl.ccb, Good(ctl.ccb)
  PROVE  QuietInv'
<1>1. QueueInv'
  BY DEF QueueInv, Running, EmptyAt
<1>2. ConfigInv'
  BY DEF QuietInv, ConfigInv, Running, HalfWay
<1>3. LiveInv'
  BY DEF LiveInv
<1>4. QED
  BY <1>1, <1>2, <1>3 DEF QuietInv

\* An unchanged configuration stays what it is, in the same mode.
LEMMA QuietConfig ==
  ASSUME QuietInv, ctl'.ccb = ctl.ccb, mode' = mode, pc' \in Labels,
         pc' \in HalfWay => pc \in HalfWay,
         pc' \in {"ms_cmd", "activate", "sti"} \union Running
           => pc \in {"ms_cmd", "activate", "sti"} \union Running
  PROVE  /\ Bit(ctl'.ccb, Translation)
         /\ pc' \in HalfWay => Bit(ctl'.ccb, IRQ1Enable) /\ ~Bit(ctl'.ccb, KeyboardOff)
         /\ mode' = "desktop" \/ pc' \in {"ms_cmd", "activate", "sti"} \union Running
              => Good(ctl'.ccb)
BY DEF QuietInv, ConfigInv

LEMMA QuietKeyboardStart ==
  ASSUME IInv, QuietAssumption, quiet, QuietInv, KeyboardStart PROVE QuietInv'
<1>1. /\ pc = "kb_start" /\ pc' = "kb_drain" /\ drain' = DrainTimeout[TRUE]
      /\ UNCHANGED <<mode, ctl, live>>
  BY DEF KeyboardStart, At, irq
<1>2. AcksWait(6) /\ (mode = "text" => ctl.aux = <<>>) /\ ~live
  BY <1>1 DEF QuietInv, QueueInv, LiveInv, Running
<1>3. ctl'.kbd = <<>> /\ ctl'.ctl = <<>> /\ Holds' <= drain'
  <2>1. Holds \in Nat
    BY DEF IInv, TypeOK, Controller, Holds
  <2>2. DrainTimeout[TRUE] \in Nat /\ DrainTimeout[TRUE] >= 6
    BY Timeouts DEF QuietAssumption
  <2>3. Holds' = Holds /\ Holds <= 6
    BY <1>1, <1>2 DEF Holds, AcksWait
  <2> DEFINE D == DrainTimeout[TRUE]
  <2> HIDE DEF D
  <2>4. D >= 6 /\ D \in Nat /\ drain' = D
    BY <1>1, <2>2 DEF D
  <2>5. Holds' <= drain'
    BY <2>1, <2>3, <2>4
  <2>6. QED
    BY <1>1, <1>2, <2>5 DEF AcksWait
<1>4. QueueInv'
  BY <1>1, <1>2, <1>3 DEF QueueInv, AcksWait, EmptyAt
<1>5. ConfigInv'
  BY <1>1, QuietConfig DEF ConfigInv, HalfWay, Running, Labels
<1>6. QED
  BY <1>1, <1>2, <1>4, <1>5 DEF QuietInv, LiveInv

\* The loop reads one byte in each turn, and there are fewer than turns.
LEMMA QuietKeyboardDrain ==
  ASSUME IInv, quiet, QuietInv, KeyboardDrain PROVE QuietInv'
<1>1. /\ pc = "kb_drain" /\ Ready(ctl) = {} /\ UNCHANGED <<mode, live>>
  BY DEF KeyboardDrain, At, Latch
<1>2. /\ AcksWait(drain) /\ (mode = "text" => ctl.aux = <<>>) /\ ~live
      /\ (mode = "desktop" => Good(ctl.ccb))
  BY <1>1 DEF QuietInv, QueueInv, ConfigInv, LiveInv, Running
<1>3. ctl \in Controller /\ Len(ctl.aux) \in Nat /\ drain \in Int /\ mode \in {"text", "desktop"}
  <2>1. DrainTimeout[quiet] \in Nat
    BY Timeouts DEF IInv, TypeOK
  <2>2. QED
    BY <2>1 DEF IInv, TypeOK, Controller
<1>4. CASE ctl.full
  <2>1. Holds = Len(ctl.aux) + 1 /\ Holds <= drain
    BY <1>2, <1>4 DEF Holds, AcksWait
  <2>2. drain > 0
    BY <1>3, <2>1
  <2>3. ctl' = Read(ctl) /\ pc' = pc /\ drain' = drain - 1
    BY <1>4, <2>2 DEF KeyboardDrain, HasData
  <2>4. /\ ~ctl'.full /\ ctl'.ccb = ctl.ccb
        /\ ctl'.kbd = ctl.kbd /\ ctl'.aux = ctl.aux /\ ctl'.ctl = ctl.ctl
    BY <1>3, <2>3, ReadFields
  <2>5. Holds' <= drain'
    <3>1. Holds' = Len(ctl.aux)
      BY <1>3, <2>4 DEF Holds
    <3>2. QED
      BY <1>3, <2>1, <2>3, <3>1
  <2>6. QueueInv'
    BY <1>1, <1>2, <2>3, <2>4, <2>5 DEF QueueInv, AcksWait, EmptyAt
  <2>7. ConfigInv'
    BY <1>1, <2>3, <2>4, QuietConfig DEF ConfigInv, HalfWay, Running, Labels
  <2>8. QED
    BY <1>1, <1>2, <2>6, <2>7 DEF QuietInv, LiveInv
<1>5. CASE ~ctl.full
  <2>1. ctl' = ctl /\ pc' = "kb_enable"
    BY <1>5 DEF KeyboardDrain, HasData
  <2>2. ctl.aux = <<>>
    BY <1>1, <1>2, <1>3, <1>5, Settled DEF Good
  <2>3. NothingWaits'
    BY <1>2, <1>5, <2>1, <2>2 DEF NothingWaits, AcksWait
  <2>4. QueueInv'
    BY <2>1, <2>3 DEF QueueInv, EmptyAt
  <2>5. ConfigInv'
    BY <1>1, <2>1, QuietConfig DEF ConfigInv, HalfWay, Running, Labels
  <2>6. QED
    BY <1>1, <1>2, <2>4, <2>5 DEF QuietInv, LiveInv
<1>6. QED
  BY <1>4, <1>5

\* Enabling a port, a request for the configuration, and the announcement of a new
\* one, by either driver.
LEMMA QuietCommand ==
  ASSUME IInv, quiet, QuietInv, NEW l \in KeyboardCommands \union MouseCommands,
         pc = l.at, ctl' = Command(ctl, l.byte), pc' = l.next,
         UNCHANGED <<mode, status, live>>
  PROVE  QuietInv'
<1> USE DEF KeyboardCommands, MouseCommands
<1>1. NothingWaits /\ ~live
  BY DEF QuietInv, QueueInv, LiveInv, EmptyAt, Running
<1>2. ctl \in Controller /\ l.byte \in Commands /\ ctl.ccb \in Byte
  BY DEF IInv, TypeOK, Controller, Commands
<1>3. /\ ctl'.full = ctl.full /\ ctl'.out = ctl.out /\ ctl'.kbd = ctl.kbd /\ ctl'.aux = ctl.aux
      /\ l.byte # 32 => ctl'.ctl = ctl.ctl
      /\ l.byte = 32 => ctl'.ctl = Append(ctl.ctl, Config)
      /\ l.byte = 174 => ctl'.ccb = Without(ctl.ccb, KeyboardOff)
      /\ l.byte = 168 => ctl'.ccb = Without(ctl.ccb, MouseOff)
      /\ l.byte \in {32, 96} => ctl'.ccb = ctl.ccb
      /\ l.byte = 96 => ctl'.expect = "ccb"
  BY <1>2, CommandFields DEF Config
<1>4. LiveInv'
  BY <1>1 DEF LiveInv
<1>5. CASE l.byte = 32
  <2>1. pc \in {"kb_request", "ms_request"} /\ pc' \in {"kb_read", "ms_read"}
        /\ (pc' = "ms_read" => pc = "ms_request")
    BY <1>5
  <2>2. ctl'.ctl = <<Config>>
    <3> HIDE DEF Config
    <3>1. QED
      BY <1>1, <1>3, <1>5 DEF NothingWaits
  <2>3. ConfigWaits'
    BY <1>1, <1>3, <1>5, <2>2 DEF ConfigWaits, Config, NothingWaits
  <2>4. QueueInv'
    BY <2>1, <2>3 DEF QueueInv, EmptyAt
  <2>5. ConfigInv'
    BY <1>3, <1>5, <2>1, QuietConfig DEF ConfigInv, HalfWay, Running, Labels
  <2>6. QED
    BY <1>4, <2>4, <2>5 DEF QuietInv
<1>6. CASE l.byte # 32
  <2>1. NothingWaits'
    BY <1>1, <1>3, <1>6 DEF NothingWaits
  <2>2. QueueInv'
    BY <1>6, <2>1 DEF QueueInv, EmptyAt
  <2>3. CASE l.byte = 96
    <3>1. pc \in {"kb_set", "ms_set"} /\ pc' = IF pc = "kb_set" THEN "kb_write" ELSE "ms_write"
      BY <2>3
    <3>2. ctl'.ccb = ctl.ccb /\ ctl'.expect = "ccb" /\ status' = status /\ mode' = mode
      BY <1>3, <2>3
    <3>3. status = IF pc = "kb_set" THEN WithKeyboard(ctl.ccb) ELSE WithMouse(ctl.ccb)
      BY <3>1 DEF QuietInv, ConfigInv
    <3>4. ConfigInv'
      BY <3>1, <3>2, <3>3, QuietConfig DEF ConfigInv, HalfWay, Running, Labels
    <3>5. QED
      BY <1>4, <2>2, <3>4 DEF QuietInv
  <2>4. CASE l.byte \in {174, 168}
    <3> DEFINE m == IF l.byte = 174 THEN KeyboardOff ELSE MouseOff
    <3>1. /\ pc \in {"kb_enable", "ms_enable"}
          /\ pc' = IF pc = "kb_enable" THEN "kb_request" ELSE "ms_request"
      BY <2>4
    <3>2. ctl'.ccb = Without(ctl.ccb, m) /\ mode' = mode
      BY <1>3, <2>4
    <3>3. \A n \in Flags : Bit(ctl'.ccb, n) <=> (n # m /\ Bit(ctl.ccb, n))
      BY <1>2, <3>2, FlagSteps DEF Flags
    <3>4. /\ IRQ1Enable # m /\ IRQ12Enable # m /\ Translation # m
          /\ {IRQ1Enable, IRQ12Enable, KeyboardOff, MouseOff, Translation} \subseteq Flags
      BY DEF Flags, IRQ1Enable, IRQ12Enable, KeyboardOff, MouseOff, Translation
    <3>5. ConfigInv'
      BY <3>1, <3>2, <3>3, <3>4 DEF QuietInv, ConfigInv, HalfWay, Running, Good
    <3>6. QED
      BY <1>4, <2>2, <3>5 DEF QuietInv
  <2>5. QED
    BY <1>6, <2>3, <2>4
<1>7. QED
  BY <1>5, <1>6

LEMMA QuietKeyboardCommand ==
  ASSUME IInv, quiet, QuietInv, KeyboardCommand PROVE QuietInv'
<1>1. PICK l \in KeyboardCommands : At(l.at) /\ ctl' = Command(ctl, l.byte) /\ pc' = l.next
  BY DEF KeyboardCommand
<1>2. pc = l.at /\ UNCHANGED <<mode, status, live>>
  BY <1>1, QuietAt DEF KeyboardCommand, boot, irq
<1>3. QED
  BY <1>1, <1>2, QuietCommand

LEMMA QuietMouseCommand ==
  ASSUME IInv, quiet, QuietInv, MouseCommand PROVE QuietInv'
<1>1. PICK l \in MouseCommands : At(l.at) /\ ctl' = Command(ctl, l.byte) /\ pc' = l.next
  BY DEF MouseCommand, Stall
<1>2. pc = l.at /\ UNCHANGED <<mode, status, live>>
  BY <1>1, QuietAt DEF MouseCommand, boot, irq
<1>3. QED
  BY <1>1, <1>2, QuietCommand

\* The answer has arrived when the processor reads port 0x60.
LEMMA ConfigArrived ==
  ASSUME ctl \in Controller, ConfigWaits, Ready(ctl) = {}
  PROVE  ctl.full /\ ctl.ctl = <<>> /\ ctl.out.val = ctl.ccb
<1>1. ASSUME ~ctl.full PROVE FALSE
  <2>1. ctl.ctl = <<Config>> /\ ctl.ctl = <<>>
    BY <1>1, Settled DEF ConfigWaits
  <2> HIDE DEF Config
  <2>2. <<Config>> # <<>>
    OBVIOUS
  <2>3. QED
    BY <2>1, <2>2
<1>2. QED
  BY <1>1 DEF ConfigWaits, Config

LEMMA QuietRead ==
  ASSUME IInv, quiet, QuietInv, KeyboardRead \/ MouseRead PROVE QuietInv'
<1>1. /\ pc \in {"kb_read", "ms_read"} /\ Ready(ctl) = {} /\ UNCHANGED <<mode, live>>
  BY DEF KeyboardRead, MouseRead, At, Latch
<1>2. ctl \in Controller /\ ConfigWaits /\ ~live
  BY <1>1 DEF IInv, TypeOK, QuietInv, QueueInv, LiveInv, Running
<1>3. ctl.full /\ ctl.ctl = <<>> /\ ctl.out.val = ctl.ccb /\ ctl.kbd = <<>> /\ ctl.aux = <<>>
  BY <1>1, <1>2, ConfigArrived DEF ConfigWaits
<1>4. /\ ctl' = Read(ctl)
      /\ \/ pc = "kb_read" /\ pc' = "kb_set" /\ status' = WithKeyboard(ctl.ccb)
         \/ pc = "ms_read" /\ pc' = "ms_set" /\ status' = WithMouse(ctl.ccb)
  <2>1. CASE KeyboardRead
    BY <1>3, <2>1 DEF KeyboardRead, At
  <2>2. CASE MouseRead
    <3>1. ~ReadTimesOut
      BY <1>3 DEF ReadTimesOut, HasData
    <3>2. QED
      BY <1>3, <2>2, <3>1 DEF MouseRead, At
  <2>3. QED
    BY <2>1, <2>2
<1>5. /\ ~ctl'.full /\ ctl'.ccb = ctl.ccb
      /\ ctl'.kbd = ctl.kbd /\ ctl'.aux = ctl.aux /\ ctl'.ctl = ctl.ctl
  BY <1>2, <1>4, ReadFields
<1>6. NothingWaits'
  BY <1>3, <1>5 DEF NothingWaits
<1>7. QueueInv'
  BY <1>4, <1>6 DEF QueueInv, EmptyAt
<1>8. ConfigInv'
  BY <1>1, <1>4, <1>5, QuietConfig DEF ConfigInv, HalfWay, Running, Labels
<1>9. QED
  BY <1>1, <1>2, <1>4, <1>7, <1>8 DEF QuietInv, LiveInv

\* The new configuration is the old one with the driver's own bits.
LEMMA QuietWrite ==
  ASSUME IInv, quiet, QuietInv, KeyboardWrite \/ MouseWrite PROVE QuietInv'
<1>1. /\ ctl' = Data(ctl, status) /\ UNCHANGED <<mode, live, cmd>>
      /\ \/ pc = "kb_write" /\ pc' = "kb_scan"
         \/ pc = "ms_write" /\ pc' = "ms_cmd"
  BY DEF KeyboardWrite, MouseWrite, At, Latch, boot, Stall
<1>2. /\ ctl \in Controller /\ status \in Byte /\ ctl.ccb \in Byte
      /\ cmd \in 1 .. Len(DeviceCommands) /\ Len(DeviceCommands) = 6
  BY DEF IInv, TypeOK, Controller, DeviceCommands
<1>3. /\ NothingWaits /\ ~live /\ ctl.expect = "ccb" /\ Bit(ctl.ccb, Translation)
      /\ mode = "desktop" => Good(ctl.ccb)
      /\ pc = "kb_write" => status = WithKeyboard(ctl.ccb)
      /\ pc = "ms_write" => /\ status = WithMouse(ctl.ccb)
                            /\ Bit(ctl.ccb, IRQ1Enable) /\ ~Bit(ctl.ccb, KeyboardOff)
  BY <1>1 DEF QuietInv, QueueInv, ConfigInv, LiveInv, EmptyAt, Running, HalfWay
<1>4. /\ ctl'.full = ctl.full /\ ctl'.ctl = ctl.ctl /\ ctl'.ccb = status
      /\ ctl'.expect = "none" /\ ctl'.kbd = ctl.kbd /\ ctl'.aux = ctl.aux
  BY <1>1, <1>2, <1>3, DataFields
<1>5. NothingWaits'
  BY <1>3, <1>4 DEF NothingWaits
<1>6. ctl'.kbd = <<>> /\ ctl'.ctl = <<>> /\ Holds' <= cmd' - 1
  <2>1. ctl'.kbd = <<>> /\ ctl'.ctl = <<>> /\ Holds' = 0
    <3>1. Len(<<>>) = 0
      OBVIOUS
    <3>2. QED
      BY <1>5, <3>1 DEF NothingWaits, Holds
  <2>2. QED
    BY <1>1, <1>2, <2>1
<1>7. QueueInv'
  BY <1>1, <1>5, <1>6 DEF QueueInv, EmptyAt, AcksWait
<1>8. /\ Bit(ctl'.ccb, Translation)
      /\ pc = "kb_write" => Bit(ctl'.ccb, IRQ1Enable) /\ ~Bit(ctl'.ccb, KeyboardOff)
      /\ pc = "ms_write" \/ mode = "desktop" => Good(ctl'.ccb)
  BY <1>1, <1>2, <1>3, <1>4, ConfigBits
<1>9. ConfigInv'
  BY <1>1, <1>4, <1>8 DEF ConfigInv, HalfWay, Running
<1>10. QED
  BY <1>1, <1>3, <1>7, <1>9 DEF QuietInv, LiveInv

LEMMA QuietKeyboardScan ==
  ASSUME IInv, quiet, QuietInv, KeyboardScan PROVE QuietInv'
<1>1. pc = "kb_scan" /\ ctl' = Data(ctl, 244) /\ pc' = "ms_start" /\ UNCHANGED <<mode, live>>
  BY DEF KeyboardScan, At, boot, irq
<1>2. ctl \in Controller /\ NothingWaits /\ ~live /\ ctl.expect = "none"
  BY <1>1 DEF IInv, TypeOK, QuietInv, QueueInv, ConfigInv, LiveInv, EmptyAt, Running
<1>3. ctl'.ctl = ctl.ctl /\ ctl'.aux = ctl.aux /\ ctl'.ccb = ctl.ccb
  <2> DEFINE d == 244
  <2>1. d \in Byte /\ ctl' = Data(ctl, d)
    BY <1>1 DEF Byte
  <2> HIDE DEF d
  <2>2. QED
    BY <1>2, <2>1, DataFields
<1>4. QueueInv'
  BY <1>1, <1>2, <1>3 DEF QueueInv, EmptyAt, NothingWaits
<1>5. ConfigInv'
  BY <1>1, <1>3, QuietConfig DEF ConfigInv, HalfWay, Running, Labels
<1>6. QED
  BY <1>1, <1>2, <1>4, <1>5 DEF QuietInv, LiveInv

LEMMA QuietMouseStart ==
  ASSUME IInv, quiet, QuietInv, MouseStart PROVE QuietInv'
<1>1. pc = "ms_start" /\ pc' = "ms_drain" /\ UNCHANGED <<mode, live, ctl>>
  BY DEF MouseStart, At, boot, irq
<1>2. QueueInv'
  BY <1>1 DEF QuietInv, QueueInv, EmptyAt
<1>3. ConfigInv'
  BY <1>1, QuietConfig DEF ConfigInv, HalfWay, Running, Labels
<1>4. QED
  BY <1>1, <1>2, <1>3 DEF QuietInv, LiveInv, Running

\* What the keyboard still had to say has come when the loop ends.
LEMMA QuietMouseDrain ==
  ASSUME IInv, quiet, QuietInv, MouseDrain PROVE QuietInv'
<1>1. pc = "ms_drain" /\ Ready(ctl) = {} /\ UNCHANGED <<mode, live>>
  BY DEF MouseDrain, At, Latch, boot
<1>2. /\ ctl \in Controller /\ ctl.aux = <<>> /\ ctl.ctl = <<>> /\ ~live
      /\ ~Bit(ctl.ccb, KeyboardOff)
  BY <1>1 DEF IInv, TypeOK, QuietInv, QueueInv, ConfigInv, LiveInv, HalfWay, Running
<1>3. CASE ctl.full
  <2>1. ctl' = Read(ctl) /\ pc' = pc
    BY <1>3 DEF MouseDrain, HasData
  <2>2. ctl'.aux = ctl.aux /\ ctl'.ctl = ctl.ctl /\ ctl'.ccb = ctl.ccb
    BY <1>2, <2>1, ReadFields
  <2>3. QueueInv'
    BY <1>1, <1>2, <2>1, <2>2 DEF QueueInv, EmptyAt
  <2>4. ConfigInv'
    BY <1>1, <2>1, <2>2, QuietConfig DEF ConfigInv, HalfWay, Running, Labels
  <2>5. QED
    BY <1>1, <1>2, <2>1, <2>3, <2>4 DEF QuietInv, LiveInv
<1>4. CASE ~ctl.full
  <2>1. ctl' = ctl /\ pc' = "ms_enable"
    BY <1>4 DEF MouseDrain, HasData
  <2>2. ctl.kbd = <<>>
    BY <1>1, <1>2, <1>4, Settled
  <2>3. NothingWaits'
    BY <1>2, <1>4, <2>1, <2>2 DEF NothingWaits
  <2>4. QueueInv'
    BY <2>1, <2>3 DEF QueueInv, EmptyAt
  <2>5. ConfigInv'
    BY <1>1, <2>1, QuietConfig DEF ConfigInv, HalfWay, Running, Labels
  <2>6. QED
    BY <1>1, <1>2, <2>4, <2>5 DEF QuietInv, LiveInv
<1>5. QED
  BY <1>3, <1>4

\* Each command is acknowledged once.
LEMMA QuietDeviceCommand ==
  ASSUME IInv, quiet, QuietInv, MouseDeviceCommand PROVE QuietInv'
<1> DEFINE prefixed == Command(ctl, 212)
           d == DeviceCommands[cmd]
<1>1. /\ pc = "ms_cmd" /\ ctl' = Data(prefixed, d) /\ UNCHANGED <<mode, live>>
      /\ \/ cmd < Len(DeviceCommands) /\ cmd' = cmd + 1 /\ pc' = pc
         \/ cmd >= Len(DeviceCommands) /\ pc' = IF mode = "text" THEN "activate" ELSE "sti"
  <2>1. cmd \in Int /\ Len(DeviceCommands) = 6
    BY DEF IInv, TypeOK, DeviceCommands
  <2>2. QED
    BY <2>1 DEF MouseDeviceCommand, At, Stall, irq
<1>2. /\ ctl \in Controller /\ ctl.aux \in Seq(Bytes) /\ cmd \in 1 .. 6
      /\ Len(DeviceCommands) = 6 /\ mode \in {"text", "desktop"}
  BY DEF IInv, TypeOK, Controller, DeviceCommands
<1>3. AcksWait(cmd - 1) /\ ~live /\ Good(ctl.ccb)
  BY <1>1 DEF QuietInv, QueueInv, ConfigInv, LiveInv, Running
<1>4. /\ prefixed.full = ctl.full /\ prefixed.kbd = ctl.kbd /\ prefixed.aux = ctl.aux
      /\ prefixed.ctl = ctl.ctl /\ prefixed.ccb = ctl.ccb /\ prefixed.expect = "aux"
      /\ prefixed \in Controller
  BY <1>2, PrefixFields
<1>5. d \in Byte
  <2>1. cmd \in 1 .. 6
    BY <1>2
  <2>2. QED
    BY <2>1 DEF DeviceCommands, Byte
<1> HIDE DEF prefixed, d
<1>6. /\ ctl'.full = ctl.full /\ ctl'.kbd = ctl.kbd /\ ctl'.ctl = ctl.ctl /\ ctl'.ccb = ctl.ccb
      /\ ctl'.aux = Append(ctl.aux, [val |-> 250, src |-> "aux", what |-> "ack"])
  BY <1>1, <1>4, <1>5, DataFields
<1>7. Holds' = Holds + 1 /\ Holds \in Nat /\ Holds <= cmd - 1
  <2> DEFINE a == [val |-> 250, src |-> "aux", what |-> "ack"]
  <2>1. a \in Bytes /\ ctl'.aux = Append(ctl.aux, a)
    BY <1>6 DEF Bytes, Byte
  <2> HIDE DEF a
  <2>2. Len(ctl'.aux) = Len(ctl.aux) + 1 /\ Len(ctl.aux) \in Nat
    BY <1>2, <2>1
  <2>3. ctl.full \in BOOLEAN
    BY <1>2 DEF Controller
  <2>4. Holds' = Holds + 1 /\ Holds \in Nat
    <3>1. CASE ctl.full
      <4>1. Holds = Len(ctl.aux) + 1 /\ Holds' = Len(ctl'.aux) + 1
        BY <1>6, <3>1 DEF Holds
      <4>2. QED
        BY <2>2, <4>1
    <3>2. CASE ~ctl.full
      <4>1. Holds = Len(ctl.aux) + 0 /\ Holds' = Len(ctl'.aux) + 0
        BY <1>6, <3>2 DEF Holds
      <4>2. QED
        BY <2>2, <4>1
    <3>3. QED
      BY <3>1, <3>2
  <2>5. QED
    BY <1>3, <2>4 DEF AcksWait
<1>8. QueueInv'
  <2>1. ctl'.kbd = <<>> /\ ctl'.ctl = <<>>
    BY <1>3, <1>6 DEF AcksWait
  <2>2. pc' = "ms_cmd" => Holds' <= cmd' - 1
    BY <1>1, <1>2, <1>7
  <2>3. Holds' <= 6
    BY <1>2, <1>7
  <2>4. pc' \in {"ms_cmd", "activate", "sti"}
    BY <1>1
  <2>5. QED
    BY <2>1, <2>2, <2>3, <2>4 DEF QueueInv, AcksWait, EmptyAt
<1>9. ConfigInv'
  <2>1. pc' \in {"ms_cmd", "activate", "sti"}
    BY <1>1
  <2>2. QED
    BY <1>1, <1>6, <2>1, QuietConfig DEF ConfigInv, HalfWay, Running, Labels
<1>10. pc' \notin Running \union {"wild"} /\ ~live'
  BY <1>1, <1>3 DEF Running
<1>11. QED
  BY <1>8, <1>9, <1>10 DEF QuietInv, LiveInv

\* An interrupt handler takes a byte from the output buffer or leaves it there.
LEMMA HandlerReads ==
  ASSUME ctl \in Controller, NEW next, HandleKeyboard(next) \/ HandleMouse(next)
  PROVE  ctl' \in {ctl, Read(ctl)} /\ pc' \in {next, "wild"}
<1> DEFINE Leads == pc' = next \/ \E addresses : Call(addresses, next)
<1>1. CASE HandleKeyboard(next)
  <2>1. ctl' = Read(ctl) /\ Leads
    BY <1>1, Zenon DEF HandleKeyboard
  <2>2. QED
    BY <2>1 DEF Call
<1>2. CASE HandleMouse(next)
  <2>1. ctl' \in {ctl, Read(ctl)} /\ Leads
    <3>1. CASE FromMouse(ctl)
      BY <1>2, <3>1, Zenon DEF HandleMouse
    <3>2. CASE ~FromMouse(ctl)
      BY <1>2, <3>2, Zenon DEF HandleMouse
    <3>3. QED
      BY <3>1, <3>2
  <2>2. QED
    BY <2>1 DEF Call
<1>3. QED
  BY <1>1, <1>2

LEMMA QuietActivateAll ==
  ASSUME IInv, quiet, QuietInv, ActivateAll PROVE QuietInv'
<1>1. pc = "activate" /\ HandleMouse("kb_start") /\ live' = live /\ mode' = "desktop"
  BY DEF ActivateAll, At, Latch
<1>2. ctl \in Controller /\ Len(ctl.aux) \in Nat /\ ctl.full \in BOOLEAN
  BY DEF IInv, TypeOK, Controller
<1>3. AcksWait(6) /\ ~live /\ Good(ctl.ccb) /\ Bit(ctl.ccb, Translation)
  BY <1>1 DEF QuietInv, QueueInv, ConfigInv, LiveInv, Running
<1>4. ctl' \in {ctl, Read(ctl)} /\ pc' \in {"kb_start", "wild"}
  BY <1>1, <1>2, HandlerReads
<1>5. /\ ctl'.ccb = ctl.ccb /\ ctl'.kbd = ctl.kbd /\ ctl'.aux = ctl.aux /\ ctl'.ctl = ctl.ctl
      /\ ctl'.full \in {ctl.full, FALSE}
  BY <1>2, <1>4, ReadFields
<1>6. Holds' <= 6 /\ ctl'.kbd = <<>> /\ ctl'.ctl = <<>>
  <2>1. Holds <= 6 /\ ctl.kbd = <<>> /\ ctl.ctl = <<>>
    BY <1>3 DEF AcksWait
  <2>2. CASE ctl'.full
    <3>1. ctl.full
      BY <1>5, <2>2
    <3>2. Holds' = Holds
      BY <1>5, <2>2, <3>1 DEF Holds
    <3>3. QED
      BY <1>5, <2>1, <3>2
  <2>3. CASE ~ctl'.full
    <3>1. Holds' = Len(ctl.aux) + 0
      BY <1>5, <2>3 DEF Holds
    <3>2. Holds \in {Len(ctl.aux) + 1, Len(ctl.aux) + 0}
      BY DEF Holds
    <3>3. QED
      BY <1>2, <1>5, <2>1, <3>1, <3>2
  <2>4. QED
    BY <2>2, <2>3
<1>7. QueueInv'
  BY <1>1, <1>4, <1>6 DEF QueueInv, AcksWait, EmptyAt
<1>8. ConfigInv'
  BY <1>1, <1>3, <1>4, <1>5 DEF ConfigInv, HalfWay, Running
<1>9. QED
  BY <1>1, <1>3, <1>7, <1>8 DEF QuietInv, LiveInv

\* From sti on the configuration is not written.
LEMMA QuietRunning ==
  ASSUME IInv, quiet, QuietInv,
         ActivateInterrupts \/ Accept \/ KeyboardISR \/ MouseISR \/ EndOfInterrupt
  PROVE  QuietInv'
<1>1. ctl \in Controller
  BY DEF IInv, TypeOK
<1>2. /\ pc \in {"sti"} \union Running /\ pc' \in Running \union {"wild"}
      /\ ctl' \in {ctl, Read(ctl)}
  <2>1. CASE ActivateInterrupts
    BY <2>1 DEF ActivateInterrupts, At, Running
  <2>2. CASE Accept
    BY <2>2 DEF Accept, Running
  <2>3. CASE KeyboardISR
    BY <1>1, <2>3, HandlerReads DEF KeyboardISR, Running
  <2>4. CASE MouseISR
    BY <1>1, <2>4, HandlerReads DEF MouseISR, Running
  <2>5. CASE EndOfInterrupt
    BY <2>5 DEF EndOfInterrupt, Running
  <2>6. QED
    BY <2>1, <2>2, <2>3, <2>4, <2>5
<1>3. ctl'.ccb = ctl.ccb
  BY <1>1, <1>2, ReadFields
<1>4. Good(ctl.ccb)
  BY <1>2 DEF QuietInv, ConfigInv
<1>5. QED
  BY <1>2, <1>3, <1>4, QuietEnd

LEMMA QuietStutter == QuietInv /\ UNCHANGED vars => QuietInv'
<1> SUFFICES ASSUME QuietInv, UNCHANGED vars PROVE QuietInv'
  OBVIOUS
<1>1. UNCHANGED <<pc, mode, drain, status, cmd, ctl, live>>
  BY DEF vars, boot, irq
<1>2. /\ NothingWaits' <=> NothingWaits
      /\ ConfigWaits' <=> ConfigWaits
      /\ Holds' = Holds
  BY <1>1 DEF NothingWaits, ConfigWaits, Config, Holds
<1>3. QueueInv'
  BY <1>1, <1>2 DEF QuietInv, QueueInv, AcksWait
<1>4. ConfigInv' /\ LiveInv'
  BY <1>1 DEF QuietInv, ConfigInv, LiveInv
<1>5. QED
  BY <1>3, <1>4 DEF QuietInv

LEMMA QuietNext ==
  ASSUME IInv, QuietAssumption, quiet, QuietInv, [Next]_vars PROVE QuietInv'
<1>1. CASE KeyPress \/ MouseReport \/ LoadByte
  BY <1>1, QuietInput, QuietLoad
<1>2. CASE Boot
  BY <1>2, QuietKeyboardStart, QuietKeyboardDrain, QuietKeyboardCommand, QuietRead, QuietWrite,
     QuietKeyboardScan, QuietMouseStart, QuietMouseDrain, QuietMouseCommand,
     QuietDeviceCommand, QuietActivateAll, QuietRunning DEF Boot
<1>3. CASE Accept \/ Handle
  BY <1>3, QuietRunning DEF Handle
<1>4. CASE UNCHANGED vars
  BY <1>4, QuietStutter
<1>5. QED
  BY <1>1, <1>2, <1>3, <1>4 DEF Next

\* After a boot that nothing disturbed, the configuration that two initialisations
\* of two drivers have made of the firmware's lets both devices through, with
\* their interrupts, and still translates: no answer was taken for another.
THEOREM QuietBootEnables == QuietAssumption /\ SafeSpec => []InputEnabledQuietly
<1> DEFINE J == QuietAssumption /\ (quiet => QuietInv)
<1>1. Init /\ QuietAssumption => J
  BY QuietInit
<1>2. IInv /\ J /\ [Next]_vars => J'
  <2> SUFFICES ASSUME IInv, J, [Next]_vars PROVE J'
    OBVIOUS
  <2>1. QuietAssumption'
    BY DEF QuietAssumption
  <2>2. quiet' = quiet
    BY DEF Next, Boot, Handle, vars, KeyPress, MouseReport, LoadByte, KeyboardStart,
       KeyboardDrain, KeyboardCommand, KeyboardRead, KeyboardWrite, KeyboardScan, MouseStart,
       MouseDrain, MouseCommand, MouseRead, MouseWrite, MouseDeviceCommand, ActivateAll,
       ActivateInterrupts, Accept, KeyboardISR, MouseISR, EndOfInterrupt
  <2>3. QED
    BY <2>1, <2>2, QuietNext
<1>3. J => InputEnabledQuietly
  BY DEF QuietInv, ConfigInv, InputEnabledQuietly, InputEnabled, Good
<1>4. QED
  BY <1>1, <1>2, <1>3, Invariance, PTL DEF SafeSpec

-----------------------------------------------------------------------------
(* The boot advances                                                       *)

LEMMA Places ==
  /\ Place["kb_start"] = 0 /\ Place["kb_drain"] = 1 /\ Place["kb_enable"] = 2
  /\ Place["kb_request"] = 3 /\ Place["kb_read"] = 4 /\ Place["kb_set"] = 5
  /\ Place["kb_write"] = 6 /\ Place["kb_scan"] = 7 /\ Place["ms_start"] = 8
  /\ Place["ms_drain"] = 9 /\ Place["ms_enable"] = 10 /\ Place["ms_request"] = 11
  /\ Place["ms_read"] = 12 /\ Place["ms_set"] = 13 /\ Place["ms_write"] = 14
  /\ Place["ms_cmd"] = 15 /\ Place["activate"] = 22 /\ Place["sti"] = 22
  /\ Place["draw"] = 23
  BY DEF Place

\* A step from one place to a later one.
LEMMA Further ==
  ASSUME UNCHANGED <<cmd, mode>>, cmd \in Int, Place[pc] \in Int, Place[pc'] \in Int,
         Place[pc'] > Place[pc]
  PROVE  Stage' > Stage
<1> DEFINE a == Place[pc]
           b == Place[pc']
           m == IF mode = "text" THEN 0 ELSE 24
<1>1. Stage = a + cmd + m /\ Stage' = b + cmd + m
  BY DEF Stage, Place
<1>2. m \in Int
  OBVIOUS
<1> HIDE DEF a, b, m
<1>3. a \in Int /\ b \in Int /\ b > a
  BY DEF a, b
<1>4. QED
  BY <1>1, <1>2, <1>3

\* A byte read, and a byte moved to the buffer.
LEMMA WaitingFalls ==
  ASSUME ctl \in Controller,
         \/ HasData(ctl) /\ ctl' = Read(ctl)
         \/ \E q \in Ready(ctl) : ctl' = Load(ctl, q)
  PROVE  Waiting' < Waiting
<1> DEFINE k == Len(ctl.kbd)
           a == Len(ctl.aux)
           t == Len(ctl.ctl)
           i == Len(ctl'.kbd)
           j == Len(ctl'.aux)
           l == Len(ctl'.ctl)
<1>1. ctl.kbd \in Seq(Bytes) /\ ctl.aux \in Seq(Bytes) /\ ctl.ctl \in Seq(Bytes)
  BY DEF Controller
<1>2. k \in Nat /\ a \in Nat /\ t \in Nat
  BY <1>1
<1>3. /\ Waiting = 2 * (k + a + t) + (IF ctl.full THEN 1 ELSE 0)
      /\ Waiting' = 2 * (i + j + l) + (IF ctl'.full THEN 1 ELSE 0)
  BY DEF Waiting, HasData
<1>4. CASE HasData(ctl) /\ ctl' = Read(ctl)
  <2>1. ctl.full /\ ~ctl'.full /\ i = k /\ j = a /\ l = t
    BY <1>4, ReadFields DEF HasData
  <2> HIDE DEF k, a, t, i, j, l
  <2>2. QED
    BY <1>2, <1>3, <2>1
<1>5. CASE \E q \in Ready(ctl) : ctl' = Load(ctl, q)
  <2>1. PICK q \in Ready(ctl) : ctl' = Load(ctl, q)
    BY <1>5
  <2>2. /\ ~ctl.full /\ ctl'.full /\ q \in {"kbd", "aux", "ctl"} /\ ctl[q] # <<>>
        /\ ctl'[q] = Tail(ctl[q])
        /\ q # "kbd" => ctl'.kbd = ctl.kbd
        /\ q # "aux" => ctl'.aux = ctl.aux
        /\ q # "ctl" => ctl'.ctl = ctl.ctl
    BY <2>1, LoadFields
  <2>3. \A s \in Seq(Bytes) : s # <<>> => Len(Tail(s)) = Len(s) - 1
    OBVIOUS
  <2>4. i + j + l = k + a + t - 1
    <3>1. CASE q = "kbd"
      <4>1. i = k - 1 /\ j = a /\ l = t
        BY <1>1, <2>2, <2>3, <3>1
      <4> HIDE DEF k, a, t, i, j, l
      <4>2. QED
        BY <1>2, <4>1
    <3>2. CASE q = "aux"
      <4>1. i = k /\ j = a - 1 /\ l = t
        BY <1>1, <2>2, <2>3, <3>2
      <4> HIDE DEF k, a, t, i, j, l
      <4>2. QED
        BY <1>2, <4>1
    <3>3. CASE q = "ctl"
      <4>1. i = k /\ j = a /\ l = t - 1
        BY <1>1, <2>2, <2>3, <3>3
      <4> HIDE DEF k, a, t, i, j, l
      <4>2. QED
        BY <1>2, <4>1
    <3>4. QED
      BY <2>2, <3>1, <3>2, <3>3
  <2>5. i + j + l \in Int
    <3> HIDE DEF k, a, t, i, j, l
    <3>1. QED
      BY <1>2, <2>4
  <2> DEFINE m == i + j + l
             n == k + a + t
  <2>6. n \in Nat /\ m = n - 1 /\ Waiting = 2 * n /\ Waiting' = 2 * m + 1
    <3>1. n \in Nat /\ m = n - 1
      <4> HIDE DEF k, a, t, i, j, l
      <4>1. QED
        BY <1>2, <2>4
    <3>2. Waiting = 2 * n + 0 /\ Waiting' = 2 * m + 1
      BY <1>3, <2>2
    <3> HIDE DEF m, n
    <3>3. QED
      BY <3>1, <3>2
  <2> HIDE DEF m, n
  <2>7. QED
    BY <2>6
<1>6. QED
  BY <1>4, <1>5

\* Each step of the boot goes to a later place, or reads a byte where it is.
LEMMA BootGoesOn ==
  ASSUME IInv, TableInv, Boot
  PROVE  Stage' > Stage \/ (Stage' = Stage /\ HasData(ctl) /\ ctl' = Read(ctl))
<1>1. cmd \in Int /\ cmd \in 1 .. 6 /\ mode \in {"text", "desktop"}
  BY DEF IInv, TypeOK, DeviceCommands
<1>2. ASSUME UNCHANGED <<pc, cmd, mode>> PROVE Stage' = Stage
  BY <1>2 DEF Stage
<1>3. CASE KeyboardStart \/ KeyboardRead \/ KeyboardWrite \/ KeyboardScan \/ MouseStart
           \/ MouseRead \/ MouseWrite \/ ActivateInterrupts
  <2>1. UNCHANGED <<cmd, mode>>
    BY <1>3 DEF KeyboardStart, KeyboardRead, KeyboardWrite, KeyboardScan, MouseStart, MouseRead,
                MouseWrite, ActivateInterrupts, boot
  <2>2. \/ pc = "kb_start" /\ pc' = "kb_drain"
        \/ pc = "kb_read" /\ pc' = "kb_set"
        \/ pc = "kb_write" /\ pc' = "kb_scan"
        \/ pc = "kb_scan" /\ pc' = "ms_start"
        \/ pc = "ms_start" /\ pc' = "ms_drain"
        \/ pc = "ms_read" /\ pc' = "ms_set"
        \/ pc = "ms_write" /\ pc' = "ms_cmd"
        \/ pc = "sti" /\ pc' = "draw"
    BY <1>3 DEF KeyboardStart, KeyboardRead, KeyboardWrite, KeyboardScan, MouseStart, MouseRead,
                MouseWrite, ActivateInterrupts, At
  <2>3. Place[pc] \in Int /\ Place[pc'] \in Int /\ Place[pc'] > Place[pc]
    BY <2>2, Places
  <2>4. QED
    BY <1>1, <2>1, <2>3, Further
<1>4. CASE KeyboardCommand \/ MouseCommand
  <2>1. UNCHANGED <<cmd, mode>>
    BY <1>4 DEF KeyboardCommand, MouseCommand, boot
  <2>2. \/ pc = "kb_enable" /\ pc' = "kb_request"
        \/ pc = "kb_request" /\ pc' = "kb_read"
        \/ pc = "kb_set" /\ pc' = "kb_write"
        \/ pc = "ms_enable" /\ pc' = "ms_request"
        \/ pc = "ms_request" /\ pc' = "ms_read"
        \/ pc = "ms_set" /\ pc' = "ms_write"
    <3>1. CASE KeyboardCommand
      BY <3>1 DEF KeyboardCommand, KeyboardCommands, At
    <3>2. CASE MouseCommand
      BY <3>2 DEF MouseCommand, MouseCommands, At
    <3>3. QED
      BY <1>4, <3>1, <3>2
  <2>3. Place[pc] \in Int /\ Place[pc'] \in Int /\ Place[pc'] > Place[pc]
    BY <2>2, Places
  <2>4. QED
    BY <1>1, <2>1, <2>3, Further
<1>5. CASE KeyboardDrain \/ MouseDrain
  <2>1. UNCHANGED <<cmd, mode>>
    BY <1>5 DEF KeyboardDrain, MouseDrain, boot
  <2>2. \/ pc' = pc /\ HasData(ctl) /\ ctl' = Read(ctl)
        \/ pc = "kb_drain" /\ pc' = "kb_enable"
        \/ pc = "ms_drain" /\ pc' = "ms_enable"
    BY <1>5 DEF KeyboardDrain, MouseDrain, At
  <2>3. CASE pc' # pc
    <3>1. Place[pc] \in Int /\ Place[pc'] \in Int /\ Place[pc'] > Place[pc]
      BY <2>2, <2>3, Places
    <3>2. QED
      BY <1>1, <2>1, <3>1, Further
  <2>4. CASE pc' = pc
    <3>1. pc # "kb_enable" /\ pc # "ms_enable"
      BY <1>5 DEF KeyboardDrain, MouseDrain, At
    <3>2. HasData(ctl) /\ ctl' = Read(ctl)
      BY <2>2, <2>4, <3>1
    <3>3. QED
      BY <1>2, <2>1, <2>4, <3>2
  <2>5. QED
    BY <2>3, <2>4
<1> DEFINE m == IF mode = "text" THEN 0 ELSE 24
<1>6. CASE MouseDeviceCommand
  <2>1. /\ pc = "ms_cmd" /\ mode' = mode
        /\ \/ cmd' = cmd + 1 /\ pc' = pc
           \/ cmd' = 1 /\ pc' \in {"activate", "sti"}
    BY <1>6 DEF MouseDeviceCommand, At
  <2>2. /\ Stage = 15 + cmd + m
        /\ Stage' = 15 + (cmd + 1) + m \/ Stage' = 22 + 1 + m
    <3>1. Stage = Place[pc] + cmd + m /\ Stage' = Place[pc'] + cmd' + m
      BY <2>1 DEF Stage, Place
    <3> HIDE DEF m
    <3>2. QED
      BY <2>1, <3>1, Places
  <2>3. m \in Int
    OBVIOUS
  <2> HIDE DEF m
  <2>4. QED
    BY <1>1, <2>2, <2>3
<1>7. CASE ActivateAll
  <2>1. pc = "activate" /\ mode = "text" /\ mode' = "desktop" /\ cmd' = cmd
    BY <1>7 DEF ActivateAll, At, TableInv
  <2>2. pc' = "kb_start"
    <3>1. HandleMouse("kb_start") /\ ms.handler = MouseEventHandler(mode)
      BY <1>7, <2>1 DEF ActivateAll, TableInv, InitKeyboard
    <3>2. QED
      BY <2>1, <3>1, MouseCalls
  <2>3. Stage = Place["activate"] + cmd + 0 /\ Stage' = Place["kb_start"] + cmd + 24
    BY <2>1, <2>2 DEF Stage, Place
  <2>4. QED
    BY <1>1, <2>3, Places
<1>8. QED
  BY <1>3, <1>4, <1>5, <1>6, <1>7 DEF Boot

\* Each step of the boot gets kernelMain further or takes a byte off the devices' hands,
\* and so does the controller, whatever the devices send meanwhile and whichever waits
\* time out: only a device that keeps sending can keep the boot from its end.
THEOREM BootGetsOn == SafeSpec => BootAdvances
<1> DEFINE A == Boot \/ LoadByte => Stage' > Stage \/ (Stage' = Stage /\ Waiting' < Waiting)
<1>1. IInv /\ TableInv => [A]_vars
  <2> SUFFICES ASSUME IInv, TableInv PROVE A
    OBVIOUS
  <2>1. ctl \in Controller
    BY DEF IInv, TypeOK
  <2>2. CASE Boot
    <3>1. Stage' > Stage \/ (Stage' = Stage /\ HasData(ctl) /\ ctl' = Read(ctl))
      BY <2>2, BootGoesOn
    <3>2. QED
      BY <2>1, <3>1, WaitingFalls
  <2>3. CASE LoadByte
    <3>1. UNCHANGED <<pc, cmd, mode>>
      BY <2>3 DEF LoadByte, boot
    <3>2. Stage' = Stage
      BY <3>1 DEF Stage
    <3>3. Waiting' < Waiting
      BY <2>1, <2>3, WaitingFalls DEF LoadByte
    <3>4. QED
      BY <3>2, <3>3
  <2>4. QED
    BY <2>2, <2>3
<1> HIDE DEF A
<1>2. SafeSpec => [][A]_vars
  BY <1>1, Invariance, TableInvariance, PTL DEF SafeSpec
<1>3. QED
  BY <1>2 DEF A, BootAdvances

-----------------------------------------------------------------------------
(* The bytes of the mouse                                                  *)

Sent(q) == {b \in Bytes : b.src = q}

\* Each queue holds the bytes of its own sender.
Sorted(c) ==
  c.kbd \in Seq(Sent("kbd")) /\ c.aux \in Seq(Sent("aux")) /\ c.ctl \in Seq(Sent("ctl"))

LEMMA SortedSteps ==
  ASSUME NEW c \in Controller, Sorted(c)
  PROVE  /\ \A d \in Commands : Sorted(Command(c, d))
         /\ \A d \in Byte : Sorted(Data(c, d))
         /\ Sorted(Read(c))
         /\ \A q \in Ready(c) : Sorted(Load(c, q))
<1>1. ASSUME NEW d \in Commands PROVE Sorted(Command(c, d))
  <2> DEFINE a == [val |-> c.ccb, src |-> "ctl", what |-> "config"]
             n == Command(c, d)
  <2>1. n.kbd = c.kbd /\ n.aux = c.aux /\ (n.ctl = c.ctl \/ n.ctl = Append(c.ctl, a))
    BY CommandFields
  <2>2. a \in Sent("ctl")
    BY DEF Controller, Bytes, Sent
  <2> HIDE DEF a, n
  <2>3. Append(c.ctl, a) \in Seq(Sent("ctl"))
    BY <2>2 DEF Sorted
  <2>4. Sorted(n)
    BY <2>1, <2>3 DEF Sorted
  <2>5. QED
    BY <2>4 DEF n
<1>2. ASSUME NEW d \in Byte PROVE Sorted(Data(c, d))
  <2> DEFINE a(q) == [val |-> 250, src |-> q, what |-> "ack"]
             n == Data(c, d)
  <2>1. c.expect \in {"none", "ccb", "aux"}
    BY DEF Controller
  <2>2. /\ n.ctl = c.ctl
        /\ n.kbd = c.kbd \/ n.kbd = Append(c.kbd, a("kbd"))
        /\ n.aux = c.aux \/ n.aux = Append(c.aux, a("aux"))
    BY <2>1, DataFields
  <2>3. a("kbd") \in Sent("kbd") /\ a("aux") \in Sent("aux")
    BY DEF Bytes, Byte, Sent
  <2> HIDE DEF a, n
  <2>4. Append(c.kbd, a("kbd")) \in Seq(Sent("kbd")) /\ Append(c.aux, a("aux")) \in Seq(Sent("aux"))
    BY <2>3 DEF Sorted
  <2>5. Sorted(n)
    BY <2>2, <2>4 DEF Sorted
  <2>6. QED
    BY <2>5 DEF n
<1>3. Sorted(Read(c))
  BY ReadFields DEF Sorted
<1>4. ASSUME NEW q \in Ready(c) PROVE Sorted(Load(c, q))
  <2> DEFINE n == Load(c, q)
  <2>1. /\ q \in {"kbd", "aux", "ctl"} /\ c[q] # <<>> /\ n[q] = Tail(c[q])
        /\ q # "kbd" => n.kbd = c.kbd
        /\ q # "aux" => n.aux = c.aux
        /\ q # "ctl" => n.ctl = c.ctl
    BY LoadFields
  <2>2. c[q] \in Seq(Sent(q))
    BY <2>1 DEF Sorted
  <2>3. Tail(c[q]) \in Seq(Sent(q))
    BY <2>1, <2>2, HeadTailProperties
  <2> HIDE DEF n
  <2>4. Sorted(n)
    BY <2>1, <2>3 DEF Sorted
  <2>5. QED
    BY <2>4 DEF n
<1>5. QED
  BY <1>1, <1>2, <1>3, <1>4

\* All that the boot does to the controller.
LEMMA BootWrites ==
  ASSUME IInv, Boot
  PROVE  \/ ctl' = ctl \/ ctl' = Read(ctl)
         \/ \E d \in Commands : ctl' = Command(ctl, d)
         \/ \E d \in Byte : ctl' = Data(ctl, d) \/ ctl' = Data(Command(ctl, 212), d)
<1>1. status \in Byte /\ cmd \in 1 .. Len(DeviceCommands)
  BY DEF IInv, TypeOK
<1>2. DeviceCommands[cmd] \in Byte
  <2>1. Len(DeviceCommands) = 6
    BY DEF DeviceCommands
  <2>2. cmd \in 1 .. 6
    BY <1>1, <2>1
  <2>3. QED
    BY <2>2 DEF DeviceCommands, Byte
<1>3. CASE KeyboardStart \/ MouseStart \/ ActivateInterrupts
  BY <1>3 DEF KeyboardStart, MouseStart, ActivateInterrupts
<1>4. CASE KeyboardDrain \/ KeyboardRead \/ MouseDrain \/ MouseRead
  BY <1>4 DEF KeyboardDrain, KeyboardRead, MouseDrain, MouseRead
<1>5. CASE KeyboardCommand
  BY <1>5 DEF KeyboardCommand, KeyboardCommands, Commands
<1>6. CASE MouseCommand
  BY <1>6 DEF MouseCommand, MouseCommands, Commands
<1>7. CASE KeyboardWrite \/ MouseWrite
  BY <1>1, <1>7 DEF KeyboardWrite, MouseWrite
<1>8. CASE KeyboardScan
  BY <1>8 DEF KeyboardScan, Byte
<1>9. CASE MouseDeviceCommand
  <2>1. 212 \in Commands
    BY DEF Commands
  <2>2. \/ ctl' = Data(Command(ctl, 212), DeviceCommands[cmd])
        \/ ctl' \in {ctl, Command(ctl, 212)}
    BY <1>9 DEF MouseDeviceCommand
  <2>3. QED
    BY <1>2, <2>1, <2>2
<1>10. CASE ActivateAll
  BY <1>10 DEF ActivateAll, HandleMouse
<1>11. QED
  BY <1>3, <1>4, <1>5, <1>6, <1>7, <1>8, <1>9, <1>10 DEF Boot

\* What the devices send goes to the queue of its sender.
LEMMA DeviceSends ==
  ASSUME IInv, KeyPress \/ MouseReport
  PROVE  /\ ctl'.full = ctl.full /\ ctl'.out = ctl.out /\ ctl'.ctl = ctl.ctl
         /\ \/ /\ \E b \in Sent("kbd") : ctl'.kbd = Append(ctl.kbd, b)
               /\ ctl'.aux = ctl.aux
            \/ /\ ctl'.kbd = ctl.kbd
               /\ \E s \in Seq(Sent("aux")) : ctl'.aux = ctl.aux \o s
<1>1. ctl \in Controller
  BY DEF IInv, TypeOK
<1>2. CASE KeyPress
  <2>1. PICK k \in ScanCodes :
          ctl' = [ctl EXCEPT !.kbd = Append(@, [val |-> k, src |-> "kbd", what |-> "scan"])]
    BY <1>2 DEF KeyPress
  <2> DEFINE b == [val |-> k, src |-> "kbd", what |-> "scan"]
  <2>2. b \in Sent("kbd")
    BY InputAssumption DEF Sent, Bytes
  <2> HIDE DEF b
  <2>3. ctl' = [ctl EXCEPT !.kbd = Append(@, b)]
    BY <2>1 DEF b
  <2>4. QED
    BY <1>1, <2>2, <2>3 DEF Controller
<1>3. CASE MouseReport
  <2>1. PICK r \in Reports :
          ctl' = [ctl EXCEPT !.aux = @ \o
                    [i \in 1 .. 3 |-> [val |-> r[i], src |-> "aux", what |-> "report"]]]
    BY <1>3 DEF MouseReport
  <2> DEFINE s == [i \in 1 .. 3 |-> [val |-> r[i], src |-> "aux", what |-> "report"]]
  <2>2. s \in Seq(Sent("aux"))
    <3>1. r \in Byte \X Byte \X Byte
      BY InputAssumption
    <3>2. \A i \in 1 .. 3 : [val |-> r[i], src |-> "aux", what |-> "report"] \in Sent("aux")
      BY <3>1 DEF Sent, Bytes
    <3>3. s \in [1 .. 3 -> Sent("aux")]
      BY <3>2
    <3> HIDE DEF s
    <3>4. QED
      BY <3>3, SeqDef
  <2> HIDE DEF s
  <2>3. ctl' = [ctl EXCEPT !.aux = @ \o s]
    BY <2>1 DEF s
  <2>4. QED
    BY <1>1, <2>2, <2>3 DEF Controller
<1>4. QED
  BY <1>2, <1>3

LEMMA SortedNext == IInv /\ Sorted(ctl) /\ [Next]_vars => Sorted(ctl')
<1> SUFFICES ASSUME IInv, Sorted(ctl), [Next]_vars PROVE Sorted(ctl')
  OBVIOUS
<1>1. ctl \in Controller
  BY DEF IInv, TypeOK
<1>2. CASE ctl' = ctl \/ ctl' = Read(ctl)
  BY <1>1, <1>2, SortedSteps
<1>3. CASE KeyPress \/ MouseReport
  <2>1. ctl.kbd \in Seq(Sent("kbd")) /\ ctl.aux \in Seq(Sent("aux")) /\ ctl.ctl \in Seq(Sent("ctl"))
    BY DEF Sorted
  <2>2. \A b \in Sent("kbd") : Append(ctl.kbd, b) \in Seq(Sent("kbd"))
    BY <2>1
  <2>3. \A s \in Seq(Sent("aux")) : ctl.aux \o s \in Seq(Sent("aux"))
    BY <2>1, ConcatProperties
  <2>4. QED
    BY <1>3, <2>1, <2>2, <2>3, DeviceSends DEF Sorted
<1>4. CASE LoadByte
  BY <1>1, <1>4, SortedSteps DEF LoadByte
<1>5. CASE Boot
  <2>1. 212 \in Commands
    BY DEF Commands
  <2>2. Command(ctl, 212) \in Controller /\ Sorted(Command(ctl, 212))
    BY <1>1, <2>1, CommandSteps, SortedSteps
  <2>3. \A d \in Byte : Sorted(Data(Command(ctl, 212), d))
    BY <2>2, SortedSteps
  <2>4. (\A d \in Commands : Sorted(Command(ctl, d))) /\ \A d \in Byte : Sorted(Data(ctl, d))
    BY <1>1, SortedSteps
  <2>5. QED
    BY <1>2, <1>5, <2>3, <2>4, BootWrites
<1>6. CASE Accept \/ EndOfInterrupt \/ UNCHANGED vars
  BY <1>6 DEF Accept, EndOfInterrupt, vars
<1>7. CASE KeyboardISR \/ MouseISR
  <2>1. ctl' = ctl \/ ctl' = Read(ctl)
    BY <1>7 DEF KeyboardISR, MouseISR, HandleKeyboard, HandleMouse
  <2>2. QED
    BY <1>2, <2>1
<1>8. QED
  BY <1>3, <1>4, <1>5, <1>6, <1>7 DEF Next, Handle

\* The bytes of the mouse that a controller still holds.
MouseBytes(c) == (IF c.full /\ c.out.src = "aux" THEN <<c.out>> ELSE <<>>) \o c.aux

LEMMA Longer ==
  ASSUME NEW S, NEW s \in Seq(S), NEW t \in Seq(S)
  PROVE  Len(s \o t) >= Len(s) /\ SubSeq(s \o t, 1, Len(s)) = s
<1>1. Len(s) \in Nat /\ Len(t) \in Nat /\ Len(s \o t) = Len(s) + Len(t)
  BY LenProperties, ConcatProperties
<1>2. CASE s = <<>>
  <2>1. Len(s) = 0
    BY <1>2
  <2>2. SubSeq(s \o t, 1, 0) = <<>>
    BY SubSeqEmpty
  <2>3. QED
    BY <1>1, <1>2, <2>1, <2>2
<1>3. CASE s # <<>>
  <2>1. Len(s) \in 1 .. Len(s)
    BY <1>1, <1>3, EmptySeq
  <2>2. 1 \in 1 .. Len(s)
    BY <1>1, <2>1
  <2>3. SubSeq(s \o t, 1, Len(s)) = SubSeq(s, 1, Len(s))
    BY <2>1, <2>2, SubSeqOfConcat1
  <2>4. SubSeq(s, 1, Len(s)) = s
    BY SubSeqFull
  <2>5. QED
    BY <1>1, <2>3, <2>4
<1>4. QED
  BY <1>2, <1>3

\* What the controller is sent, passes on, or is read of a byte of another sender,
\* leaves the mouse's bytes in their order.
LEMMA MouseBytesSteps ==
  ASSUME NEW c \in Controller, Sorted(c)
  PROVE  /\ MouseBytes(c) \in Seq(Bytes)
         /\ \A n : \A s \in Seq(Bytes) :
              n.full = c.full /\ n.out = c.out /\ n.aux = c.aux \o s =>
                MouseBytes(n) = MouseBytes(c) \o s
         /\ \A q \in Ready(c) : MouseBytes(Load(c, q)) = MouseBytes(c)
         /\ ~FromMouse(c) => MouseBytes(Read(c)) = MouseBytes(c)
         /\ FromMouse(c) =>
              /\ MouseBytes(c) # <<>> /\ Head(MouseBytes(c)) = c.out
              /\ MouseBytes(Read(c)) = Tail(MouseBytes(c))
<1> DEFINE first(n) == IF n.full /\ n.out.src = "aux" THEN <<n.out>> ELSE <<>>
<1>1. c.out \in Bytes /\ c.aux \in Seq(Bytes) /\ c.full \in BOOLEAN
  BY DEF Controller
<1>2. first(c) \in Seq(Bytes)
  BY <1>1
<1>3. \A n : MouseBytes(n) = first(n) \o n.aux
  BY DEF MouseBytes
<1>4. MouseBytes(c) \in Seq(Bytes)
  <2> HIDE DEF first
  <2>1. QED
    BY <1>1, <1>2, <1>3, ConcatProperties
<1>5. ASSUME NEW n, NEW s \in Seq(Bytes), n.full = c.full, n.out = c.out, n.aux = c.aux \o s
      PROVE  MouseBytes(n) = MouseBytes(c) \o s
  <2>1. first(n) = first(c)
    BY <1>5
  <2>2. MouseBytes(n) = first(c) \o (c.aux \o s) /\ MouseBytes(c) = first(c) \o c.aux
    BY <1>3, <1>5, <2>1 DEF MouseBytes
  <2>3. \A f, g \in Seq(Bytes) : (f \o g) \o s = f \o (g \o s)
    BY ConcatAssociative
  <2>4. (first(c) \o c.aux) \o s = first(c) \o (c.aux \o s)
    BY <1>1, <1>2, <2>3
  <2>5. QED
    BY <2>2, <2>4
<1>6. ASSUME NEW q \in Ready(c) PROVE MouseBytes(Load(c, q)) = MouseBytes(c)
  <2> DEFINE n == Load(c, q)
  <2>1. /\ ~c.full /\ n.full /\ q \in {"kbd", "aux", "ctl"} /\ c[q] # <<>>
        /\ n.out = Head(c[q]) /\ n[q] = Tail(c[q])
        /\ q # "aux" => n.aux = c.aux
    BY LoadFields
  <2>2. c[q] \in Seq(Sent(q))
    BY <2>1 DEF Sorted
  <2>3. Head(c[q]) \in Sent(q)
    BY <2>1, <2>2, HeadTailProperties
  <2>4. n.out.src = q
    BY <2>1, <2>3 DEF Sent
  <2>5. MouseBytes(c) = c.aux
    <3>1. first(c) = <<>>
      BY <2>1
    <3> HIDE DEF first
    <3>2. QED
      BY <1>1, <1>3, <3>1, ConcatEmptySeq
  <2>6. CASE q = "aux"
    <3>1. <<Head(c.aux)>> \o Tail(c.aux) = c.aux
      BY <1>1, <2>1, <2>6
    <3>2. first(n) = <<Head(c.aux)>> /\ n.aux = Tail(c.aux)
      BY <2>1, <2>4, <2>6
    <3> HIDE DEF first, n
    <3>3. MouseBytes(n) = MouseBytes(c)
      BY <1>3, <2>5, <3>1, <3>2
    <3>4. QED
      BY <3>3 DEF n
  <2>7. CASE q # "aux"
    <3>1. first(n) = <<>> /\ n.aux = c.aux
      BY <2>1, <2>4, <2>7
    <3> HIDE DEF first, n
    <3>2. MouseBytes(n) = MouseBytes(c)
      BY <1>1, <1>3, <2>5, <3>1, ConcatEmptySeq
    <3>3. QED
      BY <3>2 DEF n
  <2>8. QED
    BY <2>6, <2>7
<1>7. MouseBytes(Read(c)) = c.aux
  <2>1. ~Read(c).full /\ Read(c).aux = c.aux
    BY ReadFields
  <2>2. first(Read(c)) = <<>>
    BY <2>1
  <2> HIDE DEF first
  <2>3. QED
    BY <1>1, <1>3, <2>1, <2>2, ConcatEmptySeq
<1>8. ~FromMouse(c) => MouseBytes(Read(c)) = MouseBytes(c)
  <2>1. ~FromMouse(c) => first(c) = <<>>
    BY DEF FromMouse
  <2> HIDE DEF first
  <2>2. QED
    BY <1>1, <1>3, <1>7, <2>1, ConcatEmptySeq
<1>9. ASSUME FromMouse(c)
      PROVE  /\ MouseBytes(c) # <<>> /\ Head(MouseBytes(c)) = c.out
             /\ MouseBytes(Read(c)) = Tail(MouseBytes(c))
  <2>1. first(c) = <<c.out>>
    BY <1>9 DEF FromMouse
  <2>2. MouseBytes(c) = <<c.out>> \o c.aux
    <3> HIDE DEF first
    <3>1. QED
      BY <1>3, <2>1
  <2> DEFINE m == <<c.out>> \o c.aux
  <2>3. m # <<>> /\ Head(m) = c.out /\ Tail(m) = c.aux
    BY <1>1
  <2>4. QED
    BY <1>7, <2>2, <2>3
<1>10. QED
  BY <1>4, <1>5, <1>6, <1>8, <1>9

\* Where the mouse's handler puts a byte of the mouse.
LEMMA Stored ==
  ASSUME IInv, NEW next, HandleMouse(next), FromMouse(ctl)
  PROVE  /\ ctl' = Read(ctl)
         /\ ms'.buffer[ms.offset + 1] = ctl.out.val /\ ms'.offset = (ms.offset + 1) % 3
<1>1. ms \in MouseType
  BY DEF IInv, TypeOK, MouseType
<1> DEFINE v == ctl.out.val
           b == [ms.buffer EXCEPT ![ms.offset + 1] = v]
           o == (ms.offset + 1) % 3
           n == IF ms.offset = 2 /\ FirstByte(b[1]) THEN b[1] ELSE ms.buttons
<1>2. ctl' = Read(ctl) /\ ms' = [ms EXCEPT !.buffer = b, !.offset = o, !.buttons = n]
  BY Zenon DEF HandleMouse
<1>3. b[ms.offset + 1] = v
  <2>1. ms.buffer \in Byte \X Byte \X Byte /\ ms.offset \in {0, 1, 2}
    BY <1>1 DEF MouseType
  <2> HIDE DEF v
  <2>2. QED
    BY <2>1
<1> HIDE DEF b, n, o
<1>4. ms'.buffer = b /\ ms'.offset = o
  BY <1>1, <1>2 DEF MouseType
<1>5. QED
  BY <1>2, <1>3, <1>4 DEF o

LEMMA ArriveStep ==
  ASSUME IInv, Sorted(ctl), LiveInv, live, Balanced, [Next]_vars
  PROVE  \/ Lengthened /\ ms' = ms
         \/ pc = "ms_isr" /\ Assembled
<1>1. pc \in Running \union {"wild"} /\ ctl \in Controller
  BY DEF LiveInv, IInv, TypeOK
<1>2. Ahead = MouseBytes(ctl) /\ Ahead' = MouseBytes(ctl')
  BY DEF Ahead, MouseBytes
<1>3. Ahead \in Seq(Bytes)
  BY <1>1, <1>2, MouseBytesSteps
<1>4. ASSUME NEW s \in Seq(Bytes), Ahead' = Ahead \o s PROVE Lengthened
  BY <1>3, <1>4, Longer DEF Lengthened
<1>5. Ahead' = Ahead => Lengthened
  BY <1>3, SubSeqFull, LenProperties DEF Lengthened
<1>6. ctl' = ctl => Lengthened
  BY <1>2, <1>5
<1>7. CASE KeyPress \/ MouseReport
  <2>1. ms' = ms
    BY <1>7 DEF KeyPress, MouseReport
  <2>2. PICK s \in Seq(Bytes) : ctl'.aux = ctl.aux \o s
    <3>1. Sent("aux") \subseteq Bytes
      BY DEF Sent
    <3>2. \A s \in Seq(Sent("aux")) : s \in Seq(Bytes)
      BY <3>1, SeqMonotonic
    <3>3. ctl.aux = ctl.aux \o <<>> /\ <<>> \in Seq(Bytes)
      BY <1>1, ConcatEmptySeq DEF Controller
    <3>4. QED
      BY <1>7, <3>2, <3>3, DeviceSends
  <2>3. ctl'.full = ctl.full /\ ctl'.out = ctl.out
    BY <1>7, DeviceSends
  <2>4. Ahead' = Ahead \o s
    BY <1>1, <1>2, <2>2, <2>3, MouseBytesSteps
  <2>5. QED
    BY <1>4, <2>1, <2>4
<1>8. CASE LoadByte
  <2>1. ms' = ms /\ \E q \in Ready(ctl) : ctl' = Load(ctl, q)
    BY <1>8 DEF LoadByte
  <2>2. Ahead' = Ahead
    BY <1>1, <1>2, <2>1, MouseBytesSteps
  <2>3. QED
    BY <1>5, <2>1, <2>2
<1>9. CASE Boot
  BY <1>1, <1>9, RunningNotBoot
<1>10. CASE Accept \/ EndOfInterrupt \/ UNCHANGED vars
  BY <1>6, <1>10 DEF Accept, EndOfInterrupt, vars
<1>11. CASE KeyboardISR
  <2>1. pc = "kb_isr" /\ ctl' = Read(ctl) /\ ms' = ms
    BY <1>11 DEF KeyboardISR, HandleKeyboard
  <2>2. ~FromMouse(ctl)
    BY <2>1 DEF Balanced, Wires, FromMouse
  <2>3. Ahead' = Ahead
    BY <1>1, <1>2, <2>1, <2>2, MouseBytesSteps
  <2>4. QED
    BY <1>5, <2>1, <2>3
<1>12. CASE MouseISR
  <2>1. pc = "ms_isr" /\ HandleMouse("eoi")
    BY <1>12 DEF MouseISR
  <2>2. CASE FromMouse(ctl)
    <3>1. /\ ctl' = Read(ctl)
          /\ ms'.buffer[ms.offset + 1] = ctl.out.val /\ ms'.offset = (ms.offset + 1) % 3
      BY <2>1, <2>2, Stored
    <3>2. Ahead # <<>> /\ Head(Ahead) = ctl.out /\ Ahead' = Tail(Ahead)
      BY <1>1, <1>2, <2>2, <3>1, MouseBytesSteps
    <3>3. QED
      BY <2>1, <3>1, <3>2 DEF Assembled
  <2>3. CASE ~FromMouse(ctl)
    <3>1. ctl' = ctl /\ ms' = ms
      BY <2>1, <2>3 DEF HandleMouse
    <3>2. QED
      BY <1>6, <3>1
  <2>4. QED
    BY <2>2, <2>3
<1>13. QED
  BY <1>7, <1>8, <1>9, <1>10, <1>11, <1>12 DEF Next, Handle

\* For every firmware, every input and every disturbance of the boot: once interrupts
\* are on and each request of the keyboard has its byte, that stays so, so that its
\* handler never takes a byte of the mouse or an old one, and every byte of the mouse
\* gets into the packet, in its order and once.
THEOREM BytesArrive == SafeSpec => BytesReachTheirDriver
<1> DEFINE A == live /\ Balanced => /\ Balanced'
                                    /\ \/ Lengthened /\ ms' = ms
                                       \/ pc = "ms_isr" /\ Assembled
           Q == Sorted(ctl)
<1>1. SafeSpec => []Q
  <2>1. Init => Q
    BY DEF Init, Sorted
  <2>2. IInv /\ Q /\ [Next]_vars => Q'
    BY SortedNext
  <2> HIDE DEF Q
  <2>3. QED
    BY <2>1, <2>2, Invariance, PTL DEF SafeSpec
<1>2. IInv /\ LiveInv /\ Q /\ [Next]_vars => [A]_vars
  BY ArriveStep, BalanceStep
<1> HIDE DEF A, Q
<1>3. SafeSpec => [][A]_vars
  BY <1>1, <1>2, Invariance, LiveInvariance, PTL DEF SafeSpec
<1>4. QED
  BY <1>3 DEF A, BytesReachTheirDriver
=============================================================================
