---------------------------- MODULE KernelProofs ----------------------------
(***************************************************************************)
(* Proofs about module Kernel: for every screen, every content of the PCI  *)
(* buses, every state the firmware may leave the adapter in, and any       *)
(* number of interrupts at any depth.                                      *)
(*                                                                         *)
(* What the kernel has reached is told by the machine below all            *)
(* interrupts, Base, and not by the processor, which may be in a handler:  *)
(* the invariants about the adapter and the pixel are stated of it.  That  *)
(* the base comes back unharmed follows from FrameInv, by which every      *)
(* machine in a handler is what the stub made of the one below it.         *)
(***************************************************************************)
EXTENDS Kernel, HardwareProofs

Words == Int \union Labels \union GeneralRegisters \union {"esp", "any"}

Selectors(m) == m.cs = 16 /\ m.seg = [s \in SegmentRegisters |-> 24]

Machine ==
  {m \in MachineOf(Words) : m.eip \in Labels /\ m.iflag \in {0, 1} /\ Selectors(m)}

InHandler(m, below, v) ==
  m = Enter(below, v) \/ m = ReturnEsp(Enter(below, v))

FrameInv ==
  /\ interrupted \in Seq([machine : Machine, vector : Vectors])
  /\ cpu \in Machine
  /\ \A k \in 1 .. Depth : InHandler(M(k - 1), M(k), interrupted[k].vector)
  /\ Base.eip \notin Handling
  /\ Depth > 0 => Base.eip \in Drawing

-----------------------------------------------------------------------------
(* The labels from each group of registers on                              *)

AfterVideo  == {"windows"} \union Drawing
AfterAC     == {"video"} \union AfterVideo
AfterGC     == {"ac"} \union AfterAC
AfterCRTC   == {"gc"} \union AfterGC
AfterUnlock == {"crtc"} \union AfterCRTC
AfterSeq    == {"unlock"} \union AfterUnlock
AfterMisc   == {"seq"} \union AfterSeq

\* The registers of the table that have been written.
CardInv ==
  /\ card \in Card
  /\ Base.eip \in AfterMisc => card.misc = MISC
  /\ Base.eip = "seq" => reg \in 0 .. 4 /\ \A i \in 0 .. 4 : i < reg => card.seq[i] = SEQ[i]
  /\ Base.eip \in AfterSeq => card.seq = SEQ
  /\ Base.eip = "crtc" =>
       reg \in 0 .. 24 /\ ~Locked(card) /\ \A i \in 0 .. 24 : i < reg => card.crtc[i] = CRTC[i]
  /\ Base.eip \in AfterCRTC => \A i \in 0 .. 24 : i \in {14, 15} \/ card.crtc[i] = CRTC[i]
  /\ Base.eip = "gc" => reg \in 0 .. 8 /\ \A i \in 0 .. 8 : i < reg => card.gc[i] = GC[i]
  /\ Base.eip \in AfterGC => card.gc = GC
  /\ Base.eip = "ac" => reg \in 0 .. 20 /\ \A i \in 0 .. 20 : i < reg => card.ac[i] = AC[i]
  /\ Base.eip \in AfterAC => card.ac = AC
  /\ Base.eip \in AfterVideo => card.video /\ card.acValue

\* What has been fetched for the pixel being drawn.
PixelInv ==
  /\ Base.eip \in {"segment", "store"} => ~Clipped(fill.x, fill.y)
  /\ Base.eip = "segment" => card.gcIndex = 6
  /\ Base.eip = "store" => Base.gpr["eax"] = GraphicsMemory

ConsoleType == [x : 0 .. Columns - 1, y : Nat]

FillType == [widget : 1 .. Len(Scene), x : Int, y : Int]

TableInv == Base.eip # "start" => gdt = GlobalDescriptorTable

DataInv ==
  /\ con \in ConsoleType
  /\ fill \in FillType
  /\ TableInv

IInv == FrameInv /\ CardInv /\ PixelInv /\ DataInv

-----------------------------------------------------------------------------
(* Facts about the constants.                                              *)

LEMMA LabelSets ==
  /\ Handling = {"HandleInterrupt", "int_bottom"}
  /\ Drawing = {"fill", "pixel", "segment", "store"}
  /\ Labels = {"start", "drivers", "device", "function", "misc", "seq", "unlock", "crtc",
               "gc", "ac", "video", "windows"} \union Drawing \union Handling
  BY DEF Handling, Drawing, Labels

LEMMA NumberWords == Int \subseteq Words /\ Nat \subseteq Words
<1>1. Int \subseteq Words
  BY DEF Words
<1>2. QED
  BY <1>1

LEMMA LabelWords ==
  /\ \A l \in Labels : l \in Words
  /\ "HandleInterrupt" \in Words /\ "int_bottom" \in Words
<1>1. \A l \in Labels : l \in Words
  BY DEF Words
<1>2. "HandleInterrupt" \in Labels /\ "int_bottom" \in Labels
  BY DEF Labels, Handling
<1>3. QED
  BY <1>1, <1>2

LEMMA NameWords == "esp" \in Words /\ "any" \in Words
  BY DEF Words

LEMMA VectorType == \A v \in Vectors : v \in Nat /\ v \in Words
<1>1. \A v \in Vectors : v \in Nat
  <2>1. Vectors \subseteq (0 .. 19) \union ((32 .. 47) \ {33, 44})
    BY KernelAssumption, Zenon
  <2>2. QED
    BY <2>1
<1>2. \A v \in Nat : v \in Words
  BY NumberWords
<1>3. QED
  BY <1>1, <1>2

LEMMA SceneType ==
  /\ Scene \in Seq(Rectangle) /\ Len(Scene) \in Nat /\ Len(Scene) >= 1
  /\ \A k \in 1 .. Len(Scene) : Scene[k] \in Rectangle
<1>1. Desktop \in Rectangle
  BY ScreenAssumption DEF Desktop, Rectangle, Byte
<1>2. SampleWindows \in Seq(Rectangle)
  BY KernelAssumption
<1>3. <<Desktop>> \in Seq(Rectangle)
  BY <1>1
<1> DEFINE one == <<Desktop>>
<1>4. Len(one) = 1
  OBVIOUS
<1> HIDE DEF one
<1>5. one \in Seq(Rectangle)
  BY <1>3 DEF one
<1>6. Scene = one \o SampleWindows
  BY DEF Scene, one
<1>7. Scene \in Seq(Rectangle) /\ Len(Scene) = Len(one) + Len(SampleWindows)
  BY <1>2, <1>5, <1>6, ConcatAt
<1>8. QED
  BY <1>2, <1>4, <1>7

-----------------------------------------------------------------------------
(* The machine: one lemma for a step of the kernel itself, one for each    *)
(* step of an interrupt.                                                   *)

LEMMA Entered ==
  ASSUME NEW m \in Machine, NEW v \in Vectors
  PROVE  /\ Enter(m, v) \in Machine /\ Enter(m, v).eip = "HandleInterrupt"
         /\ ReturnEsp(Enter(m, v)) \in Machine /\ ReturnEsp(Enter(m, v)).eip = "int_bottom"
         /\ Leave(ReturnEsp(Enter(m, v))) = m
         /\ ArgInterrupt(Enter(m, v)) = v
<1>1. m \in MachineOf(Words) /\ Selectors(m)
  BY DEF Machine
<1>2. v \in Words
  BY VectorType
<1>3. 0 \in Words /\ 16 \in Words
  BY NumberWords
<1>4. "HandleInterrupt" \in Labels /\ "int_bottom" \in Labels
  BY DEF Labels, Handling
<1> DEFINE e == Enter(m, v)
           r == ReturnEsp(e)
<1>5. e \in MachineOf(Words) /\ e.eip = "HandleInterrupt" /\ e.cs = 16 /\ e.iflag = 0
      /\ e.seg = m.seg
  BY <1>1, <1>2, <1>3, NumberWords, LabelWords, NameWords, EnterType
<1>6. r \in MachineOf(Words) /\ r.eip = "int_bottom" /\ r.cs = 16 /\ r.iflag = 0
      /\ r.seg = m.seg
  BY <1>1, <1>2, <1>3, NumberWords, LabelWords, NameWords, ReturnType
<1>7. Leave(r) = m
  BY <1>1, <1>2, <1>3, NameWords, FrameRoundTrip
<1>8. ArgInterrupt(e) = v
  BY <1>1, <1>2, <1>3, NameWords, OnCall
<1> HIDE DEF e, r
<1>9. e \in Machine /\ r \in Machine
  BY <1>1, <1>4, <1>5, <1>6 DEF Machine, Selectors
<1>10. QED
  BY <1>5, <1>6, <1>7, <1>8, <1>9 DEF e, r

\* Every machine that was interrupted is a machine; those in a handler say so.
LEMMA AllMachines ==
  ASSUME FrameInv
  PROVE  /\ Depth \in Nat
         /\ \A k \in 0 .. Depth : M(k) \in Machine
         /\ \A k \in 1 .. Depth : interrupted[k].vector \in Vectors
         /\ \A k \in 1 .. Depth : M(k - 1).eip \in Handling
<1> DEFINE T == [machine : Machine, vector : Vectors]
<1>1. interrupted \in Seq(T)
  BY DEF FrameInv
<1> HIDE DEF T
<1>2. Depth \in Nat /\ \A k \in 1 .. Depth : interrupted[k] \in T
  BY <1>1 DEF Depth
<1> USE DEF T
<1>3. \A k \in 1 .. Depth : interrupted[k].vector \in Vectors
  BY <1>2
<1>4. \A k \in 1 .. Depth : M(k) \in Machine
  BY <1>2 DEF M
<1>5. M(0) \in Machine
  BY DEF M, FrameInv
<1>6. \A k \in 0 .. Depth : M(k) \in Machine
  BY <1>2, <1>4, <1>5
<1>7. ASSUME NEW k \in 1 .. Depth PROVE M(k - 1).eip \in Handling
  <2>1. InHandler(M(k - 1), M(k), interrupted[k].vector)
    BY DEF FrameInv
  <2>2. QED
    BY <1>3, <1>4, <2>1, Entered DEF InHandler, Handling
<1>8. QED
  BY <1>2, <1>3, <1>6, <1>7

LEMMA BaseIsCpu ==
  ASSUME FrameInv, cpu.eip \notin Handling
  PROVE  Depth = 0 /\ interrupted = <<>> /\ Base = cpu
<1>1. M(0) = cpu
  BY DEF M
<1>2. ~(Depth > 0)
  BY <1>1, AllMachines
<1>3. Depth = 0
  BY <1>2, AllMachines
<1>4. interrupted = <<>>
  BY <1>3 DEF FrameInv, Depth
<1>5. QED
  BY <1>1, <1>3, <1>4 DEF Base

\* A step of the kernel itself.
LEMMA KernelStep ==
  ASSUME FrameInv, cpu.eip \notin Handling,
         cpu' \in Machine, cpu'.eip \notin Handling, interrupted' = interrupted
  PROVE  FrameInv' /\ Base = cpu /\ Base' = cpu'
<1>1. interrupted = <<>> /\ Base = cpu
  BY BaseIsCpu
<1>2. interrupted' = <<>> /\ Depth' = 0
  BY <1>1 DEF Depth
<1>3. Base' = cpu'
  BY <1>2 DEF Base, M
<1>4. interrupted' \in Seq([machine : Machine, vector : Vectors])
  BY DEF FrameInv
<1>5. QED
  BY <1>1, <1>2, <1>3, <1>4 DEF FrameInv

\* An interrupt.
LEMMA InterruptFrameInv ==
  ASSUME FrameInv, NEW v \in Vectors, Interrupt(v)
  PROVE  FrameInv' /\ Base' = Base
<1> DEFINE top == [machine |-> cpu, vector |-> v]
           T == [machine : Machine, vector : Vectors]
<1>1. cpu \in Machine /\ top \in T /\ interrupted \in Seq(T)
  BY DEF FrameInv
<1>2. interrupted' = <<top>> \o interrupted /\ cpu' = Enter(cpu, v)
  BY DEF Interrupt
<1>3. cpu' \in Machine
  BY <1>1, <1>2, Entered
<1> HIDE DEF top, T
<1>4. interrupted' \in Seq(T) /\ Depth' = Depth + 1
  BY <1>1, <1>2 DEF Depth
<1>5. interrupted'[1] = top
  BY <1>1, <1>2
<1>6. \A k \in 1 .. Depth : interrupted'[k + 1] = interrupted[k]
  BY <1>1, <1>2 DEF Depth
<1>7. Depth \in Nat /\ M(0) = cpu
  BY AllMachines DEF M
<1>8. M(0)' = Enter(cpu, v) /\ M(1)' = cpu /\ interrupted'[1].vector = v
  BY <1>2, <1>5 DEF M, top
<1>9. \A k \in 1 .. Depth : M(k + 1)' = M(k)
  BY <1>6, <1>7 DEF M
<1>10. \A k \in 0 .. Depth : M(k + 1)' = M(k)
  BY <1>7, <1>8, <1>9
<1>11. Base' = Base
  BY <1>4, <1>7, <1>10 DEF Base
<1>12. ASSUME NEW k \in 1 .. Depth + 1
       PROVE  InHandler(M(k - 1)', M(k)', interrupted'[k].vector)
  <2>1. CASE k = 1
    BY <1>8, <2>1 DEF InHandler
  <2>2. CASE k > 1
    <3> DEFINE j == k - 1
    <3>1. j \in 1 .. Depth /\ k = j + 1 /\ j - 1 \in 0 .. Depth /\ k - 1 = (j - 1) + 1
      BY <1>7, <2>2
    <3>2. InHandler(M(j - 1), M(j), interrupted[j].vector)
      BY <3>1 DEF FrameInv
    <3>3. M(j - 1) = M(k - 1)' /\ M(j) = M(k)'
      BY <1>10, <3>1
    <3>4. interrupted[j].vector = interrupted'[k].vector
      BY <1>6, <3>1
    <3>5. QED
      BY <3>2, <3>3, <3>4
  <2>3. QED
    BY <1>7, <2>1, <2>2
<1>13. Base.eip \notin Handling /\ Base.eip \in Drawing
  <2>1. CASE Depth > 0
    BY <2>1 DEF FrameInv
  <2>2. CASE Depth = 0
    <3>1. Base = cpu
      BY <1>7, <2>2 DEF Base
    <3>2. cpu.eip \in Drawing \union Handling /\ Base.eip \notin Handling
      BY DEF Interrupt, FrameInv
    <3>3. QED
      BY <3>1, <3>2
  <2>3. QED
    BY <1>7, <2>1, <2>2
<1>14. QED
  BY <1>3, <1>4, <1>11, <1>12, <1>13 DEF FrameInv, T

\* In a handler, the processor is what the stub made of the machine below.
LEMMA AtHandler ==
  ASSUME FrameInv, cpu.eip \in Handling
  PROVE  /\ Depth > 0 /\ Depth \in Nat
         /\ interrupted[1].machine \in Machine /\ interrupted[1].vector \in Vectors
         /\ At("HandleInterrupt") => cpu = Enter(interrupted[1].machine, interrupted[1].vector)
         /\ At("int_bottom") =>
              cpu = ReturnEsp(Enter(interrupted[1].machine, interrupted[1].vector))
<1>1. Depth \in Nat /\ M(0) = cpu /\ M(1) = interrupted[1].machine
  BY AllMachines DEF M
<1>2. Depth > 0
  <2>1. Depth = 0 => Base = cpu
    BY <1>1 DEF Base
  <2>2. QED
    BY <1>1, <2>1 DEF FrameInv
<1>3. InHandler(cpu, interrupted[1].machine, interrupted[1].vector)
  BY <1>1, <1>2 DEF FrameInv
<1>4. interrupted[1].machine \in Machine /\ interrupted[1].vector \in Vectors
  BY <1>1, <1>2, AllMachines
<1>5. QED
  BY <1>1, <1>2, <1>3, <1>4, Entered DEF InHandler, At

\* The return of HandleInterrupt.
LEMMA HandleInterruptFrameInv ==
  ASSUME FrameInv, HandleInterrupt
  PROVE  FrameInv' /\ Base' = Base
<1> DEFINE m == interrupted[1].machine
           v == interrupted[1].vector
<1>1. Depth > 0 /\ Depth \in Nat /\ m \in Machine /\ v \in Vectors /\ cpu = Enter(m, v)
  BY AtHandler DEF HandleInterrupt, At, Handling
<1>2. cpu' = ReturnEsp(Enter(m, v)) /\ interrupted' = interrupted
  BY <1>1 DEF HandleInterrupt, history
<1>3. cpu' \in Machine
  BY <1>1, <1>2, Entered
<1>4. Depth' = Depth /\ \A k \in 1 .. Depth : M(k)' = M(k)
  BY <1>1, <1>2 DEF Depth, M
<1>5. Base' = Base
  BY <1>1, <1>4 DEF Base
<1>6. InHandler(M(0)', M(1)', interrupted'[1].vector)
  BY <1>2 DEF InHandler, M
<1>7. ASSUME NEW k \in 1 .. Depth
      PROVE  InHandler(M(k - 1)', M(k)', interrupted'[k].vector)
  <2>1. CASE k = 1
    BY <1>6, <2>1
  <2>2. CASE k > 1
    <3>1. k - 1 \in 1 .. Depth
      BY <1>1, <2>2
    <3>2. M(k - 1)' = M(k - 1) /\ M(k)' = M(k)
      BY <1>4, <3>1
    <3>3. InHandler(M(k - 1), M(k), interrupted[k].vector)
      BY DEF FrameInv
    <3>4. QED
      BY <1>2, <3>2, <3>3
  <2>3. QED
    BY <1>1, <2>1, <2>2
<1>8. interrupted' \in Seq([machine : Machine, vector : Vectors])
  BY <1>2 DEF FrameInv
<1>9. Base.eip \notin Handling /\ Base.eip \in Drawing
  BY <1>1 DEF FrameInv
<1>10. QED
  BY <1>3, <1>4, <1>5, <1>7, <1>8, <1>9 DEF FrameInv

\* int_bottom and iret: the machine interrupted is back.
LEMMA ReturnFrameInv ==
  ASSUME FrameInv, Return
  PROVE  /\ FrameInv' /\ Base' = Base
         /\ cpu' = interrupted[1].machine /\ interrupted' = Tail(interrupted)
<1> DEFINE m == interrupted[1].machine
           v == interrupted[1].vector
           T == [machine : Machine, vector : Vectors]
<1>1. Depth > 0 /\ Depth \in Nat /\ m \in Machine /\ v \in Vectors
      /\ cpu = ReturnEsp(Enter(m, v))
  BY AtHandler DEF Return, At, Handling
<1>2. cpu' = m /\ interrupted' = Tail(interrupted)
  BY <1>1, Entered DEF Return
<1>3. interrupted \in Seq(T)
  BY DEF FrameInv
<1> HIDE DEF T
<1>4. interrupted' \in Seq(T) /\ Depth' = Depth - 1
  BY <1>1, <1>2, <1>3 DEF Depth
<1>5. \A k \in 1 .. Depth - 1 : interrupted'[k] = interrupted[k + 1]
  BY <1>1, <1>2, <1>3 DEF Depth
<1>6. M(0)' = M(1)
  BY <1>2 DEF M
<1>7. \A k \in 0 .. Depth - 1 : M(k)' = M(k + 1)
  BY <1>1, <1>5, <1>6 DEF M
<1>8. Base' = Base
  BY <1>1, <1>4, <1>7 DEF Base
<1>9. ASSUME NEW k \in 1 .. Depth - 1
      PROVE  InHandler(M(k - 1)', M(k)', interrupted'[k].vector)
  <2> DEFINE j == k + 1
  <2>1. j \in 1 .. Depth /\ j - 1 = (k - 1) + 1 /\ k - 1 \in 0 .. Depth - 1
    BY <1>1
  <2>2. InHandler(M(j - 1), M(j), interrupted[j].vector)
    BY <2>1 DEF FrameInv
  <2>3. M(k - 1)' = M(j - 1) /\ M(k)' = M(j) /\ interrupted'[k].vector = interrupted[j].vector
    BY <1>1, <1>5, <1>7, <2>1
  <2>4. QED
    BY <2>2, <2>3
<1>10. Base.eip \notin Handling /\ Base.eip \in Drawing
  BY <1>1 DEF FrameInv
<1>11. cpu' \in Machine
  BY <1>1, <1>2
<1>12. QED
  BY <1>2, <1>4, <1>8, <1>9, <1>10, <1>11 DEF FrameInv, T

\* Steps that only go to another label, or stay.
LEMMA GotoMachine ==
  ASSUME NEW m \in Machine, NEW l \in Labels
  PROVE  [m EXCEPT !.eip = l] \in Machine /\ [m EXCEPT !.eip = l].eip = l
         /\ [m EXCEPT !.eip = l].gpr = m.gpr
<1>1. l \in Words
  BY LabelWords
<1>2. QED
  BY <1>1 DEF Machine, MachineOf, Selectors

LEMMA GotoStep ==
  ASSUME FrameInv, NEW l \in Labels \ Handling, cpu.eip \notin Handling,
         Goto(l), interrupted' = interrupted
  PROVE  FrameInv' /\ Base = cpu /\ Base' = cpu' /\ cpu'.eip = l /\ cpu'.gpr = cpu.gpr
<1>1. cpu \in Machine
  BY DEF FrameInv
<1>2. cpu' \in Machine /\ cpu'.eip = l /\ cpu'.gpr = cpu.gpr
  BY <1>1, GotoMachine DEF Goto
<1>3. QED
  BY <1>2, KernelStep

LEMMA StayStep ==
  ASSUME FrameInv, cpu.eip \notin Handling, cpu' = cpu, interrupted' = interrupted
  PROVE  FrameInv' /\ Base = cpu /\ Base' = cpu'
<1>1. cpu' \in Machine
  BY DEF FrameInv
<1>2. QED
  BY <1>1, KernelStep

-----------------------------------------------------------------------------
(* The adapter                                                             *)

\* Only the cursor is different.
SameMode(c, d) ==
  /\ d \in Card
  /\ d.misc = c.misc /\ d.seq = c.seq /\ d.gc = c.gc /\ d.gcIndex = c.gcIndex /\ d.ac = c.ac
  /\ d.video = c.video /\ d.acValue = c.acValue
  /\ \A i \in 0 .. 24 : i \in {14, 15} \/ d.crtc[i] = c.crtc[i]

LEMMA WithCRTCMode ==
  ASSUME NEW c \in Card, NEW i \in {14, 15}, NEW v \in Byte
  PROVE  SameMode(c, WithCRTC(c, i, v))
<1> DEFINE d == WithCRTC(c, i, v)
<1>1. i \in Byte
  BY SmallBytes
<1>2. d = [c EXCEPT !.crtcIndex = i, !.crtc[i] = v]
  BY DEF WithCRTC
<1> HIDE DEF d
<1>3. d \in Card
  BY <1>1, <1>2 DEF Card
<1>4. \A j \in 0 .. 24 : j \in {14, 15} \/ d.crtc[j] = c.crtc[j]
  BY <1>2 DEF Card
<1>5. QED
  BY <1>2, <1>3, <1>4 DEF SameMode, Card, d

LEMMA LineType ==
  ASSUME NEW c \in ConsoleType, NEW n \in Nat
  PROVE  Line(c, n) \in ConsoleType
<1>1. (c.y * Columns + c.x + n) \div Columns \in Nat
  BY DEF ConsoleType, Columns
<1>2. QED
  BY <1>1 DEF Line, Newline, Characters, Location, ConsoleType, Columns

LEMMA Printed ==
  ASSUME card \in Card, NEW lines \in ConsoleType, kprintf(lines)
  PROVE  /\ con' = lines /\ con' \in ConsoleType /\ SameMode(card, card')
         /\ HardwareCursor(card') = Location(lines) % 65536
<1>1. PICK hi \in Byte, lo \in Byte :
        /\ move_cursor(card, lines) = WithCRTC(WithCRTC(card, 15, lo), 14, hi)
        /\ hi * 256 + lo = Location(lines) % 65536
  BY CursorMoved DEF ConsoleType
<1> DEFINE d == WithCRTC(card, 15, lo)
<1>2. SameMode(card, d)
  BY WithCRTCMode
<1> HIDE DEF d
<1>3. SameMode(d, WithCRTC(d, 14, hi))
  BY <1>2, WithCRTCMode DEF SameMode
<1>4. card' = WithCRTC(d, 14, hi) /\ con' = lines
  BY <1>1 DEF kprintf, d
<1>5. HardwareCursor(card') = hi * 256 + lo
  <2>1. card.crtc \in [0 .. 24 -> Byte]
    BY DEF Card
  <2>2. WithCRTC(d, 14, hi).crtc = [d.crtc EXCEPT ![14] = hi]
        /\ d.crtc = [card.crtc EXCEPT ![15] = lo]
    BY DEF WithCRTC, Card, d
  <2>3. card'.crtc[14] = hi /\ card'.crtc[15] = lo
    BY <1>4, <2>1, <2>2
  <2>4. QED
    BY <2>3 DEF HardwareCursor
<1>6. QED
  BY <1>1, <1>2, <1>3, <1>4, <1>5 DEF SameMode

\* A handler, which may move the cursor, leaves the registers of the mode alone.
LEMMA CardKept ==
  ASSUME CardInv, Base.eip \in Drawing, Base' = Base, card' = card \/ SameMode(card, card')
  PROVE  CardInv'
<1>1. SameMode(card, card')
  BY DEF SameMode, CardInv
<1>2. QED
  BY <1>1 DEF CardInv, SameMode, Drawing

\* Before the mode is set, nothing is claimed.
LEMMA CardUnset ==
  ASSUME card' \in Card, Base'.eip \in {"start", "drivers", "device", "function", "misc"}
  PROVE  CardInv'
  BY DEF CardInv, AfterMisc, AfterSeq, AfterUnlock, AfterCRTC, AfterGC, AfterAC, AfterVideo, Drawing

-----------------------------------------------------------------------------
(* Preservation: before the mode is set                                    *)

LEMMA InitIInv == Init => IInv
<1> SUFFICES ASSUME Init PROVE IInv
  OBVIOUS
<1>1. interrupted = <<>> /\ Depth = 0 /\ Base = cpu
  BY DEF Init, Depth, Base, M
<1>2. cpu.eip = "start"
  BY DEF Init
<1>3. cpu \in Machine
  <2>1. "start" \in Labels /\ "start" \in Words
    BY LabelWords DEF Labels
  <2>2. \A r \in GeneralRegisters : r \in Words
    BY DEF Words
  <2>3. 16 \in Words /\ 24 \in Words /\ 0 \in Words
    BY NumberWords
  <2>4. [r \in GeneralRegisters |-> r] \in [GeneralRegisters -> Words]
    BY <2>2
  <2>5. [s \in SegmentRegisters |-> 24] \in [SegmentRegisters -> Words]
    BY <2>3
  <2>6. <<>> \in Seq(Words)
    OBVIOUS
  <2>7. cpu \in MachineOf(Words)
    BY <2>1, <2>3, <2>4, <2>5, <2>6 DEF Init, MachineOf
  <2>8. cpu.eip \in Labels /\ cpu.iflag \in {0, 1} /\ Selectors(cpu)
    BY <2>1 DEF Init, Selectors
  <2>9. QED
    BY <2>7, <2>8 DEF Machine
<1>4. FrameInv
  BY <1>1, <1>2, <1>3 DEF FrameInv, Handling
<1>5. card \in Card
  BY KernelAssumption DEF Init
<1>6. CardInv
  BY <1>1, <1>2, <1>5
     DEF CardInv, AfterMisc, AfterSeq, AfterUnlock, AfterCRTC, AfterGC, AfterAC, AfterVideo, Drawing
<1>7. PixelInv
  BY <1>1, <1>2 DEF PixelInv
<1>8. con \in ConsoleType
  BY DEF Init, Home, ConsoleType, Columns
<1>9. fill \in FillType
  BY SceneType DEF Init, FillType
<1>10. QED
  BY <1>1, <1>2, <1>4, <1>6, <1>7, <1>8, <1>9 DEF IInv, DataInv, TableInv

Early == {"drivers", "device", "function", "misc"}

LEMMA EarlyLabels ==
  /\ Early \subseteq Labels \ Handling
  /\ \A l \in Early : l \in {"start", "drivers", "device", "function", "misc"}
                        /\ l \notin {"segment", "store"} /\ l # "start"
  BY DEF Early, Labels, Handling

\* What the steps before the mode is set have in common.
LEMMA EarlyStep ==
  ASSUME IInv, cpu.eip \notin Handling, interrupted' = interrupted, fill' = fill,
         Base = cpu, FrameInv', Base' = cpu', cpu'.eip \in Early,
         con' \in ConsoleType, card' \in Card, gdt' = GlobalDescriptorTable
  PROVE  IInv'
<1>1. Base'.eip \in Early
  OBVIOUS
<1>2. CardInv'
  BY <1>1, EarlyLabels, CardUnset
<1>3. PixelInv'
  BY <1>1, EarlyLabels DEF PixelInv
<1>4. fill' \in FillType
  BY DEF IInv, DataInv
<1>5. FillType' = FillType /\ ConsoleType' = ConsoleType
  BY DEF FillType, ConsoleType
<1>6. QED
  BY <1>2, <1>3, <1>4 DEF IInv, DataInv, TableInv

LEMMA StartIInv == IInv /\ Start => IInv'
<1> SUFFICES ASSUME IInv, Start PROVE IInv'
  OBVIOUS
<1>1. cpu.eip \notin Handling /\ "drivers" \in Early
  BY DEF Start, At, Handling, Early
<1>2. FrameInv' /\ Base = cpu /\ Base' = cpu' /\ cpu'.eip = "drivers"
  BY <1>1, GotoStep, EarlyLabels DEF Start, IInv, history
<1>3. con' \in ConsoleType /\ card' \in Card
  <2>1. Line(Line(con, 26), 28) \in ConsoleType
    BY LineType DEF IInv, DataInv
  <2>2. QED
    BY <2>1, Printed DEF Start, IInv, CardInv, SameMode
<1>4. interrupted' = interrupted /\ fill' = fill /\ gdt' = GlobalDescriptorTable
  BY DEF Start, history, drawing
<1>5. QED
  BY <1>1, <1>2, <1>3, <1>4, EarlyStep

LEMMA InitDriversIInv == IInv /\ InitDrivers => IInv'
<1> SUFFICES ASSUME IInv, InitDrivers PROVE IInv'
  OBVIOUS
<1>1. cpu.eip \notin Handling /\ "device" \in Early /\ cpu.eip # "start"
  BY DEF InitDrivers, At, Handling, Early
<1>2. FrameInv' /\ Base = cpu /\ Base' = cpu' /\ cpu'.eip = "device"
  BY <1>1, GotoStep, EarlyLabels DEF InitDrivers, IInv, history
<1>3. con' \in ConsoleType /\ card' \in Card
  <2>1. Line(Line(Line(con, 31), 28), 30) \in ConsoleType
    BY LineType DEF IInv, DataInv
  <2>2. QED
    BY <2>1, Printed DEF InitDrivers, IInv, CardInv, SameMode
<1>4. interrupted' = interrupted /\ fill' = fill /\ gdt' = GlobalDescriptorTable
  BY <1>1, <1>2 DEF InitDrivers, history, drawing, IInv, DataInv, TableInv
<1>5. QED
  BY <1>1, <1>2, <1>3, <1>4, EarlyStep

LEMMA DeviceIInv == IInv /\ (BeginDevice \/ EndDevice) => IInv'
<1> SUFFICES ASSUME IInv, BeginDevice \/ EndDevice PROVE IInv'
  OBVIOUS
<1>1. cpu.eip \notin Handling /\ cpu.eip # "start" /\ "function" \in Early /\ "device" \in Early
  BY DEF BeginDevice, EndDevice, At, Handling, Early
<1>2. Goto("function") \/ Goto("device")
  BY DEF BeginDevice, EndDevice, NextDevice
<1>3. /\ interrupted' = interrupted /\ fill' = fill
      /\ gdt' = gdt /\ con' = con /\ card' = card
  BY DEF BeginDevice, EndDevice, NextDevice, history, drawing
<1>4. FrameInv' /\ Base = cpu /\ Base' = cpu' /\ cpu'.eip \in Early
  BY <1>1, <1>2, <1>3, GotoStep, EarlyLabels DEF IInv
<1>5. gdt' = GlobalDescriptorTable /\ con' \in ConsoleType /\ card' \in Card
  BY <1>1, <1>3, <1>4 DEF IInv, DataInv, TableInv, CardInv
<1>6. QED
  BY <1>1, <1>3, <1>4, <1>5, EarlyStep

LEMMA ScanFunctionIInv == IInv /\ ScanFunction => IInv'
<1> SUFFICES ASSUME IInv, ScanFunction PROVE IInv'
  OBVIOUS
<1>1. cpu.eip \notin Handling /\ cpu.eip # "start" /\ cpu.eip \in Early
  BY DEF ScanFunction, At, Handling, Early
<1>2. /\ interrupted' = interrupted /\ fill' = fill /\ gdt' = gdt /\ cpu' = cpu
  BY DEF ScanFunction, history, drawing
<1>3. FrameInv' /\ Base = cpu /\ Base' = cpu' /\ cpu'.eip \in Early
  BY <1>1, <1>2, StayStep DEF IInv
<1>4. con' \in ConsoleType /\ card' \in Card
  <2> DEFINE n == LogLength(Descriptor(config, scan.bus, scan.device, scan.function))
  <2>1. n \in Nat
    BY DEF LogLength, NameLength
  <2>2. kprintf(Line(con, n))
    BY DEF ScanFunction
  <2> HIDE DEF n
  <2>3. Line(con, n) \in ConsoleType
    BY <2>1, LineType DEF IInv, DataInv
  <2>4. QED
    BY <2>2, <2>3, Printed DEF IInv, CardInv, SameMode
<1>5. gdt' = GlobalDescriptorTable
  BY <1>1, <1>2, <1>3 DEF IInv, DataInv, TableInv
<1>6. QED
  BY <1>1, <1>2, <1>3, <1>4, <1>5, EarlyStep

LEMMA ActivateIInv == IInv /\ Activate => IInv'
<1> SUFFICES ASSUME IInv, Activate PROVE IInv'
  OBVIOUS
<1>1. cpu.eip \notin Handling /\ cpu.eip # "start" /\ "misc" \in Early
  BY DEF Activate, At, Handling, Early
<1>2. FrameInv' /\ Base = cpu /\ Base' = cpu' /\ cpu'.eip = "misc"
  BY <1>1, GotoStep, EarlyLabels DEF Activate, IInv, history
<1>3. con' \in ConsoleType /\ card' \in Card
  <2>1. Line(con, 33) \in ConsoleType
    BY LineType DEF IInv, DataInv
  <2>2. QED
    BY <2>1, Printed DEF Activate, IInv, CardInv, SameMode
<1>4. interrupted' = interrupted /\ fill' = fill /\ gdt' = GlobalDescriptorTable
  BY <1>1, <1>2 DEF Activate, history, drawing, IInv, DataInv, TableInv
<1>5. QED
  BY <1>1, <1>2, <1>3, <1>4, EarlyStep

-----------------------------------------------------------------------------
(* Preservation: vga_write_registers                                       *)

ModeLabels == {"misc", "seq", "unlock", "crtc", "gc", "ac", "video", "windows"}

LEMMA SetModeStep ==
  ASSUME IInv, NEW from \in ModeLabels, NEW to \in ModeLabels, NEW new, SetMode(from, new, to)
  PROVE  /\ FrameInv' /\ PixelInv' /\ DataInv'
         /\ card \in Card /\ card' = new
         /\ Base = cpu /\ Base.eip = from /\ Base'.eip = to
<1>1. cpu.eip = from /\ from \notin Handling /\ from # "start"
  BY DEF SetMode, At, ModeLabels, Handling
<1>2. to \in Labels \ Handling /\ to \notin {"segment", "store"}
  BY DEF ModeLabels, Labels, Handling
<1>3. Goto(to) /\ interrupted' = interrupted /\ card' = new
      /\ gdt' = gdt /\ con' = con /\ fill' = fill
  BY DEF SetMode, history, drawing
<1>4. FrameInv' /\ Base = cpu /\ Base' = cpu' /\ cpu'.eip = to
  BY <1>1, <1>2, <1>3, GotoStep DEF IInv
<1>5. PixelInv'
  BY <1>2, <1>4 DEF PixelInv
<1>6. DataInv'
  <2>1. FillType' = FillType /\ ConsoleType' = ConsoleType
    BY DEF FillType, ConsoleType
  <2>2. QED
    BY <1>1, <1>3, <1>4, <2>1 DEF IInv, DataInv, TableInv
<1>7. card \in Card
  BY DEF IInv, CardInv
<1>8. QED
  BY <1>1, <1>3, <1>4, <1>5, <1>6, <1>7

LEMMA SetMiscIInv == IInv /\ SetMisc => IInv'
<1> SUFFICES ASSUME IInv, SetMisc PROVE IInv'
  OBVIOUS
<1>1. SetMode("misc", WriteMisc(card), "seq") /\ reg' = 0
  BY DEF SetMisc
<1>2. FrameInv' /\ PixelInv' /\ DataInv' /\ card \in Card /\ card' = WriteMisc(card)
      /\ Base.eip = "misc" /\ Base'.eip = "seq"
  BY <1>1, SetModeStep DEF ModeLabels
<1>3. card' = [card EXCEPT !.misc = MISC]
  BY <1>2, MiscWritten
<1>4. card' \in Card /\ card'.misc = MISC
  BY <1>2, <1>3, TableTypes DEF Card
<1>5. CardInv'
  BY <1>1, <1>2, <1>4
     DEF CardInv, AfterMisc, AfterSeq, AfterUnlock, AfterCRTC, AfterGC, AfterAC, AfterVideo, Drawing
<1>6. QED
  BY <1>2, <1>5 DEF IInv

LEMMA SetSequencerIInv == IInv /\ SetSequencer => IInv'
<1> SUFFICES ASSUME IInv, SetSequencer PROVE IInv'
  OBVIOUS
<1> DEFINE to == IF reg < 4 THEN "seq" ELSE "unlock"
<1>1. SetMode("seq", WriteSequencer(card, reg), to) /\ reg' = IF reg < 4 THEN reg + 1 ELSE 0
  BY DEF SetSequencer, Loop
<1>2. FrameInv' /\ PixelInv' /\ DataInv' /\ card \in Card /\ card' = WriteSequencer(card, reg)
      /\ Base.eip = "seq" /\ Base'.eip = to
  BY <1>1, SetModeStep DEF ModeLabels
<1>3. reg \in 0 .. 4 /\ (\A i \in 0 .. 4 : i < reg => card.seq[i] = SEQ[i]) /\ card.misc = MISC
  BY <1>2 DEF IInv, CardInv, AfterMisc
<1>4. card' = [card EXCEPT !.seqIndex = reg, !.seq[reg] = SEQ[reg]]
  BY <1>2, <1>3, SequencerWritten
<1>5. reg \in Byte /\ SEQ[reg] \in Byte
  BY <1>3, SmallBytes, TableTypes
<1>6. card' \in Card /\ card'.misc = MISC
  <2> DEFINE t == [card.seq EXCEPT ![reg] = SEQ[reg]]
  <2>1. t \in [0 .. 4 -> Byte]
    BY <1>2, <1>3, <1>5 DEF Card
  <2>2. card' = [card EXCEPT !.seqIndex = reg, !.seq = t]
    BY <1>4
  <2> HIDE DEF t
  <2>3. QED
    BY <1>2, <1>3, <1>5, <2>1, <2>2 DEF Card
<1>7. card'.seq = [card.seq EXCEPT ![reg] = SEQ[reg]] /\ card.seq \in [0 .. 4 -> Byte]
  BY <1>2, <1>4 DEF Card
<1>8. \A i \in 0 .. 4 : i <= reg => card'.seq[i] = SEQ[i]
  BY <1>3, <1>7
<1>9. CASE reg < 4
  <2>1. reg' \in 0 .. 4 /\ \A i \in 0 .. 4 : i < reg' => card'.seq[i] = SEQ[i]
    <3>1. reg' = reg + 1
      BY <1>1, <1>9
    <3>2. reg' \in 0 .. 4
      BY <1>3, <1>9, <3>1
    <3>3. \A i \in 0 .. 4 : i < reg + 1 => i <= reg
      BY <1>3
    <3>4. QED
      BY <1>8, <3>1, <3>2, <3>3
  <2>2. Base'.eip = "seq"
    BY <1>2, <1>9
  <2>3. CardInv'
    BY <1>6, <2>1, <2>2
       DEF CardInv, AfterMisc, AfterSeq, AfterUnlock, AfterCRTC, AfterGC, AfterAC, AfterVideo,
           Drawing
  <2>4. QED
    BY <1>2, <2>3 DEF IInv
<1>10. CASE reg = 4
  <2>1. card'.seq = SEQ
    BY <1>5, <1>7, <1>8, <1>10, TableTypes
  <2>2. QED
    BY <1>1, <1>2, <1>6, <1>10, <2>1
       DEF IInv, CardInv, AfterMisc, AfterSeq, AfterUnlock, AfterCRTC, AfterGC, AfterAC,
           AfterVideo, Drawing
<1>11. QED
  BY <1>3, <1>9, <1>10

LEMMA UnlockCRTCIInv == IInv /\ UnlockCRTC => IInv'
<1> SUFFICES ASSUME IInv, UnlockCRTC PROVE IInv'
  OBVIOUS
<1>1. SetMode("unlock", Unlock(card), "crtc") /\ reg' = 0
  BY DEF UnlockCRTC
<1>2. FrameInv' /\ PixelInv' /\ DataInv' /\ card \in Card /\ card' = Unlock(card)
      /\ Base.eip = "unlock" /\ Base'.eip = "crtc"
  BY <1>1, SetModeStep DEF ModeLabels
<1>3. card.misc = MISC /\ card.seq = SEQ
  BY <1>2 DEF IInv, CardInv, AfterMisc, AfterSeq
<1>4. ~Locked(card') /\ \E r \in [0 .. 24 -> Byte] : card' = [card EXCEPT !.crtcIndex = 17, !.crtc = r]
  BY <1>2, CRTCUnlocked
<1>5. 17 \in Byte
  BY SmallBytes
<1>6. card' \in Card /\ card'.misc = MISC /\ card'.seq = SEQ
  BY <1>2, <1>3, <1>4, <1>5 DEF Card
<1>7. CardInv'
  BY <1>1, <1>2, <1>4, <1>6
     DEF CardInv, AfterMisc, AfterSeq, AfterUnlock, AfterCRTC, AfterGC, AfterAC, AfterVideo, Drawing
<1>8. QED
  BY <1>2, <1>7 DEF IInv

LEMMA SetCRTCIInv == IInv /\ SetCRTC => IInv'
<1> SUFFICES ASSUME IInv, SetCRTC PROVE IInv'
  OBVIOUS
<1> DEFINE to == IF reg < 24 THEN "crtc" ELSE "gc"
<1>1. SetMode("crtc", WriteCRTC(card, reg), to) /\ reg' = IF reg < 24 THEN reg + 1 ELSE 0
  BY DEF SetCRTC, Loop
<1>2. FrameInv' /\ PixelInv' /\ DataInv' /\ card \in Card /\ card' = WriteCRTC(card, reg)
      /\ Base.eip = "crtc" /\ Base'.eip = to
  BY <1>1, SetModeStep DEF ModeLabels
<1>3. /\ reg \in 0 .. 24 /\ ~Locked(card)
      /\ \A i \in 0 .. 24 : i < reg => card.crtc[i] = CRTC[i]
      /\ card.misc = MISC /\ card.seq = SEQ
  BY <1>2 DEF IInv, CardInv, AfterMisc, AfterSeq, AfterUnlock
<1>4. card' = [card EXCEPT !.crtcIndex = reg, !.crtc[reg] = CRTC[reg]]
  BY <1>2, <1>3, CRTCWritten DEF WithCRTC
<1>5. reg \in Byte /\ CRTC[reg] \in Byte
  BY <1>3, SmallBytes, TableTypes
<1>6. card' \in Card /\ card'.misc = MISC /\ card'.seq = SEQ
  <2> DEFINE t == [card.crtc EXCEPT ![reg] = CRTC[reg]]
  <2>1. t \in [0 .. 24 -> Byte]
    BY <1>2, <1>3, <1>5 DEF Card
  <2>2. card' = [card EXCEPT !.crtcIndex = reg, !.crtc = t]
    BY <1>4
  <2> HIDE DEF t
  <2>3. QED
    BY <1>2, <1>3, <1>5, <2>1, <2>2 DEF Card
<1>7. card'.crtc = [card.crtc EXCEPT ![reg] = CRTC[reg]] /\ card.crtc \in [0 .. 24 -> Byte]
  BY <1>2, <1>4 DEF Card
<1>8. \A i \in 0 .. 24 : i <= reg => card'.crtc[i] = CRTC[i]
  BY <1>3, <1>7
<1>9. ~Locked(card')
  <2>1. CRTC[17] = 14
    BY DEF CRTC
  <2>2. card'.crtc[17] = 14 \/ card'.crtc[17] = card.crtc[17]
    BY <1>3, <1>7, <2>1
  <2>3. QED
    BY <1>3, <2>2 DEF Locked
<1>10. CASE reg < 24
  <2>1. reg' \in 0 .. 24 /\ \A i \in 0 .. 24 : i < reg' => card'.crtc[i] = CRTC[i]
    <3>1. reg' = reg + 1
      BY <1>1, <1>10
    <3>2. reg' \in 0 .. 24
      BY <1>3, <1>10, <3>1
    <3>3. \A i \in 0 .. 24 : i < reg + 1 => i <= reg
      BY <1>3
    <3>4. QED
      BY <1>8, <3>1, <3>2, <3>3
  <2>2. Base'.eip = "crtc"
    BY <1>2, <1>10
  <2>3. CardInv'
    BY <1>6, <1>9, <2>1, <2>2
       DEF CardInv, AfterMisc, AfterSeq, AfterUnlock, AfterCRTC, AfterGC, AfterAC, AfterVideo,
           Drawing
  <2>4. QED
    BY <1>2, <2>3 DEF IInv
<1>11. CASE reg = 24
  BY <1>1, <1>2, <1>6, <1>8, <1>11
     DEF IInv, CardInv, AfterMisc, AfterSeq, AfterUnlock, AfterCRTC, AfterGC, AfterAC,
         AfterVideo, Drawing
<1>12. QED
  BY <1>3, <1>10, <1>11

LEMMA SetGraphicsControllerIInv == IInv /\ SetGraphicsController => IInv'
<1> SUFFICES ASSUME IInv, SetGraphicsController PROVE IInv'
  OBVIOUS
<1> DEFINE to == IF reg < 8 THEN "gc" ELSE "ac"
           CRTCSet(c) == \A i \in 0 .. 24 : i \in {14, 15} \/ c.crtc[i] = CRTC[i]
<1>1. SetMode("gc", WriteGraphicsController(card, reg), to)
      /\ reg' = IF reg < 8 THEN reg + 1 ELSE 0
  BY DEF SetGraphicsController, Loop
<1>2. FrameInv' /\ PixelInv' /\ DataInv' /\ card \in Card
      /\ card' = WriteGraphicsController(card, reg) /\ Base.eip = "gc" /\ Base'.eip = to
  BY <1>1, SetModeStep DEF ModeLabels
<1>3. /\ reg \in 0 .. 8 /\ \A i \in 0 .. 8 : i < reg => card.gc[i] = GC[i]
      /\ card.misc = MISC /\ card.seq = SEQ /\ CRTCSet(card)
  BY <1>2 DEF IInv, CardInv, AfterMisc, AfterSeq, AfterUnlock, AfterCRTC
<1>4. card' = [card EXCEPT !.gcIndex = reg, !.gc[reg] = GC[reg]]
  BY <1>2, <1>3, GraphicsControllerWritten
<1>5. reg \in Byte /\ GC[reg] \in Byte
  BY <1>3, SmallBytes, TableTypes
<1>6. card' \in Card /\ card'.misc = MISC /\ card'.seq = SEQ /\ card'.crtc = card.crtc
  <2> DEFINE t == [card.gc EXCEPT ![reg] = GC[reg]]
  <2>1. t \in [0 .. 8 -> Byte]
    BY <1>2, <1>3, <1>5 DEF Card
  <2>2. card' = [card EXCEPT !.gcIndex = reg, !.gc = t]
    BY <1>4
  <2> HIDE DEF t
  <2>3. QED
    BY <1>2, <1>3, <1>5, <2>1, <2>2 DEF Card
<1>7. card'.gc = [card.gc EXCEPT ![reg] = GC[reg]] /\ card.gc \in [0 .. 8 -> Byte]
  BY <1>2, <1>4 DEF Card
<1>8. \A i \in 0 .. 8 : i <= reg => card'.gc[i] = GC[i]
  BY <1>3, <1>7
<1>9. CRTCSet(card')
  BY <1>3, <1>6
<1>10. CASE reg < 8
  <2>1. reg' \in 0 .. 8 /\ \A i \in 0 .. 8 : i < reg' => card'.gc[i] = GC[i]
    <3>1. reg' = reg + 1
      BY <1>1, <1>10
    <3>2. reg' \in 0 .. 8
      BY <1>3, <1>10, <3>1
    <3>3. \A i \in 0 .. 8 : i < reg + 1 => i <= reg
      BY <1>3
    <3>4. QED
      BY <1>8, <3>1, <3>2, <3>3
  <2>2. Base'.eip = "gc"
    BY <1>2, <1>10
  <2>3. CardInv'
    BY <1>6, <1>9, <2>1, <2>2
       DEF CardInv, AfterMisc, AfterSeq, AfterUnlock, AfterCRTC, AfterGC, AfterAC, AfterVideo,
           Drawing
  <2>4. QED
    BY <1>2, <2>3 DEF IInv
<1>11. CASE reg = 8
  <2>1. card'.gc = GC
    BY <1>5, <1>7, <1>8, <1>11, TableTypes
  <2>2. reg' = 0 /\ Base'.eip = "ac"
    BY <1>1, <1>2, <1>11
  <2>3. CardInv'
    BY <1>6, <1>9, <2>1, <2>2
       DEF CardInv, AfterMisc, AfterSeq, AfterUnlock, AfterCRTC, AfterGC, AfterAC, AfterVideo,
           Drawing
  <2>4. QED
    BY <1>2, <2>3 DEF IInv
<1>12. QED
  BY <1>3, <1>10, <1>11

LEMMA SetAttributeControllerIInv == IInv /\ SetAttributeController => IInv'
<1> SUFFICES ASSUME IInv, SetAttributeController PROVE IInv'
  OBVIOUS
<1> DEFINE to == IF reg < 20 THEN "ac" ELSE "video"
           CRTCSet(c) == \A i \in 0 .. 24 : i \in {14, 15} \/ c.crtc[i] = CRTC[i]
<1>1. SetMode("ac", WriteAttributeController(card, reg), to)
      /\ reg' = IF reg < 20 THEN reg + 1 ELSE 0
  BY DEF SetAttributeController, Loop
<1>2. FrameInv' /\ PixelInv' /\ DataInv' /\ card \in Card
      /\ card' = WriteAttributeController(card, reg) /\ Base.eip = "ac" /\ Base'.eip = to
  BY <1>1, SetModeStep DEF ModeLabels
<1>3. /\ reg \in 0 .. 20 /\ \A i \in 0 .. 20 : i < reg => card.ac[i] = AC[i]
      /\ card.misc = MISC /\ card.seq = SEQ /\ CRTCSet(card) /\ card.gc = GC
  BY <1>2 DEF IInv, CardInv, AfterMisc, AfterSeq, AfterUnlock, AfterCRTC, AfterGC
<1>4. card' = [card EXCEPT !.acIndex = reg, !.ac[reg] = AC[reg], !.acValue = FALSE, !.video = FALSE]
  BY <1>2, <1>3, AttributeControllerWritten
<1>5. reg \in Byte /\ AC[reg] \in Byte
  BY <1>3, SmallBytes, TableTypes
<1>6. /\ card' \in Card /\ card'.misc = MISC /\ card'.seq = SEQ
      /\ card'.crtc = card.crtc /\ card'.gc = GC
  <2> DEFINE t == [card.ac EXCEPT ![reg] = AC[reg]]
  <2>1. t \in [0 .. 20 -> Byte]
    BY <1>2, <1>3, <1>5 DEF Card
  <2>2. card' = [card EXCEPT !.acIndex = reg, !.ac = t, !.acValue = FALSE, !.video = FALSE]
    BY <1>4
  <2> DEFINE e == [card EXCEPT !.acIndex = reg, !.ac = t]
  <2> HIDE DEF t
  <2>3. e \in Card /\ e.misc = card.misc /\ e.seq = card.seq /\ e.crtc = card.crtc
        /\ e.gc = card.gc
    BY <1>2, <1>5, <2>1 DEF Card
  <2>4. card' = [e EXCEPT !.acValue = FALSE, !.video = FALSE]
    BY <2>2
  <2> HIDE DEF e
  <2>5. card' \in Card
    BY <2>3, <2>4 DEF Card
  <2>6. /\ card'.misc = e.misc /\ card'.seq = e.seq /\ card'.crtc = e.crtc
        /\ card'.gc = e.gc
    BY <2>3, <2>4 DEF Card
  <2>7. QED
    BY <1>3, <2>3, <2>5, <2>6
<1>7. card'.ac = [card.ac EXCEPT ![reg] = AC[reg]] /\ card.ac \in [0 .. 20 -> Byte]
  BY <1>2, <1>4 DEF Card
<1>8. \A i \in 0 .. 20 : i <= reg => card'.ac[i] = AC[i]
  BY <1>3, <1>7
<1>9. CRTCSet(card')
  BY <1>3, <1>6
<1>10. CASE reg < 20
  <2>1. reg' \in 0 .. 20 /\ \A i \in 0 .. 20 : i < reg' => card'.ac[i] = AC[i]
    <3>1. reg' = reg + 1
      BY <1>1, <1>10
    <3>2. reg' \in 0 .. 20
      BY <1>3, <1>10, <3>1
    <3>3. \A i \in 0 .. 20 : i < reg + 1 => i <= reg
      BY <1>3
    <3>4. QED
      BY <1>8, <3>1, <3>2, <3>3
  <2>2. Base'.eip = "ac"
    BY <1>2, <1>10
  <2>3. CardInv'
    BY <1>6, <1>9, <2>1, <2>2
       DEF CardInv, AfterMisc, AfterSeq, AfterUnlock, AfterCRTC, AfterGC, AfterAC, AfterVideo,
           Drawing
  <2>4. QED
    BY <1>2, <2>3 DEF IInv
<1>11. CASE reg = 20
  <2>1. card'.ac = AC
    BY <1>5, <1>7, <1>8, <1>11, TableTypes
  <2>2. reg' = 0 /\ Base'.eip = "video"
    BY <1>1, <1>2, <1>11
  <2>3. CardInv'
    BY <1>6, <1>9, <2>1, <2>2
       DEF CardInv, AfterMisc, AfterSeq, AfterUnlock, AfterCRTC, AfterGC, AfterAC, AfterVideo,
           Drawing
  <2>4. QED
    BY <1>2, <2>3 DEF IInv
<1>12. QED
  BY <1>3, <1>10, <1>11

\* With every register set.
Programmed(c) ==
  /\ c \in Card /\ c.misc = MISC /\ c.seq = SEQ /\ c.gc = GC /\ c.ac = AC
  /\ \A i \in 0 .. 24 : i \in {14, 15} \/ c.crtc[i] = CRTC[i]
  /\ c.video /\ c.acValue

LEMMA CardInvProgrammed ==
  /\ CardInv /\ Base.eip \in AfterVideo => Programmed(card)
  /\ Programmed(card') /\ Base'.eip \in AfterVideo => CardInv'
<1>1. ASSUME CardInv, Base.eip \in AfterVideo PROVE Programmed(card)
  BY <1>1 DEF CardInv, Programmed, AfterMisc, AfterSeq, AfterUnlock, AfterCRTC, AfterGC, AfterAC
<1>2. ASSUME Programmed(card'), Base'.eip \in AfterVideo PROVE CardInv'
  BY <1>2 DEF CardInv, Programmed, AfterVideo, Drawing
<1>3. QED
  BY <1>1, <1>2

LEMMA SetVideoIInv == IInv /\ SetVideo => IInv'
<1> SUFFICES ASSUME IInv, SetVideo PROVE IInv'
  OBVIOUS
<1>1. SetMode("video", EnableVideo(card), "windows")
  BY DEF SetVideo
<1>2. FrameInv' /\ PixelInv' /\ DataInv' /\ card \in Card /\ card' = EnableVideo(card)
      /\ Base.eip = "video" /\ Base'.eip = "windows"
  BY <1>1, SetModeStep DEF ModeLabels
<1>3. /\ card.misc = MISC /\ card.seq = SEQ /\ card.gc = GC /\ card.ac = AC
      /\ \A i \in 0 .. 24 : i \in {14, 15} \/ card.crtc[i] = CRTC[i]
  BY <1>2 DEF IInv, CardInv, AfterMisc, AfterSeq, AfterUnlock, AfterCRTC, AfterGC, AfterAC
<1>4. card' = [card EXCEPT !.acIndex = 0, !.acValue = TRUE, !.video = TRUE]
  BY <1>2, VideoEnabled
<1>5. 0 \in Byte
  BY SmallBytes
<1>6. Programmed(card')
  BY <1>2, <1>3, <1>4, <1>5 DEF Programmed, Card
<1>7. CardInv'
  BY <1>2, <1>6, CardInvProgrammed DEF AfterVideo
<1>8. QED
  BY <1>2, <1>7 DEF IInv

LEMMA EnterDesktopIInv == IInv /\ EnterDesktop => IInv'
<1> SUFFICES ASSUME IInv, EnterDesktop PROVE IInv'
  OBVIOUS
<1>1. cpu.eip = "windows" /\ cpu.eip \notin Handling /\ cpu \in Machine
      /\ "fill" \in Labels \ Handling
  BY DEF EnterDesktop, At, Handling, Labels, Drawing, IInv, FrameInv
<1>2. cpu' = [cpu EXCEPT !.eip = "fill", !.iflag = 1]
  BY DEF EnterDesktop
<1>3. cpu' \in Machine /\ cpu'.eip = "fill"
  <2>1. "fill" \in Words /\ 1 \in Words
    BY <1>1, LabelWords, NumberWords
  <2>2. QED
    BY <1>1, <1>2, <2>1 DEF Machine, MachineOf, Selectors
<1>4. /\ interrupted' = interrupted /\ gdt' = gdt /\ con' = con /\ card' = card
      /\ fill' = fill
  BY DEF EnterDesktop, history, drawing
<1>5. FrameInv' /\ Base = cpu /\ Base' = cpu'
  BY <1>1, <1>3, <1>4, KernelStep DEF IInv
<1>6. CardInv'
  <2>1. Programmed(card)
    BY <1>1, <1>5, CardInvProgrammed DEF AfterVideo, IInv
  <2>2. QED
    BY <1>3, <1>4, <1>5, <2>1, CardInvProgrammed DEF AfterVideo, Drawing
<1>7. PixelInv'
  BY <1>3, <1>5 DEF PixelInv
<1>8. DataInv'
  <2>1. FillType' = FillType /\ ConsoleType' = ConsoleType
    BY DEF FillType, ConsoleType
  <2>2. QED
    BY <1>1, <1>4, <1>5, <2>1 DEF IInv, DataInv, TableInv
<1>9. QED
  BY <1>5, <1>6, <1>7, <1>8 DEF IInv

-----------------------------------------------------------------------------
(* Preservation: the drawing loop                                          *)

\* What the steps of the drawing loop have in common.
LEMMA DrawStep ==
  ASSUME IInv, cpu.eip \in Drawing, interrupted' = interrupted,
         FrameInv', Base = cpu, Base' = cpu', cpu'.eip \in Drawing,
         Programmed(card) => Programmed(card'),
         con' = con, gdt' = gdt, fill' \in FillType, PixelInv'
  PROVE  IInv'
<1>1. Base.eip \in AfterVideo /\ Base'.eip \in AfterVideo
  BY DEF AfterVideo
<1>2. CardInv'
  BY <1>1, CardInvProgrammed DEF IInv
<1>3. FillType' = FillType /\ ConsoleType' = ConsoleType
  BY DEF FillType, ConsoleType
<1>4. Base.eip # "start" /\ Base'.eip # "start"
  BY DEF Drawing
<1>5. DataInv'
  BY <1>3, <1>4 DEF IInv, DataInv, TableInv
<1>6. QED
  BY <1>2, <1>5 DEF IInv

LEMMA DrawingLabels == Drawing \subseteq Labels \ Handling
  BY DEF Drawing, Labels, Handling

LEMMA DrawnType ==
  ASSUME fill \in FillType
  PROVE  Drawn.x \in Int /\ Drawn.y \in Int /\ fill.x \in Int /\ fill.y \in Int
         /\ fill.widget \in 1 .. Len(Scene)
<1>1. fill.widget \in 1 .. Len(Scene) /\ fill.x \in Int /\ fill.y \in Int
  BY DEF FillType
<1>2. Drawn \in Rectangle
  BY <1>1, SceneType DEF Drawn
<1>3. QED
  BY <1>1, <1>2 DEF Rectangle

LEMMA MovesIInv ==
  ASSUME IInv, StartFill \/ SkipPixel \/ NextRow \/ NextWidget
  PROVE  IInv'
<1>1. cpu.eip \in {"fill", "pixel"} /\ cpu.eip \notin Handling /\ cpu.eip \in Drawing
  BY DEF StartFill, SkipPixel, NextRow, NextWidget, At, Handling, Drawing
<1>2. /\ interrupted' = interrupted /\ gdt' = gdt /\ con' = con /\ card' = card
  BY DEF StartFill, SkipPixel, NextRow, NextWidget, Moving, history
<1>3. Goto("pixel") \/ Goto("fill") \/ cpu' = cpu
  BY DEF StartFill, SkipPixel, NextRow, NextWidget
<1>4. "pixel" \in Labels \ Handling /\ "fill" \in Labels \ Handling
  BY DEF Labels, Drawing, Handling
<1>5. FrameInv' /\ Base = cpu /\ Base' = cpu' /\ cpu'.eip \in {"fill", "pixel"}
  BY <1>1, <1>2, <1>3, <1>4, GotoStep, StayStep DEF IInv
<1>6. PixelInv'
  BY <1>5 DEF PixelInv
<1>7. fill' \in FillType
  <2>1. /\ fill \in FillType /\ Drawn.x \in Int /\ Drawn.y \in Int /\ fill.x \in Int
        /\ fill.y \in Int /\ fill.widget \in 1 .. Len(Scene)
    BY DrawnType DEF IInv, DataInv
  <2>2. Len(Scene) \in Nat /\ Len(Scene) >= 1
    BY SceneType
  <2>3. CASE StartFill
    BY <2>1, <2>3 DEF StartFill, Moving, FillType
  <2>4. CASE SkipPixel
    BY <2>1, <2>4 DEF SkipPixel, Moving, FillType
  <2>5. CASE NextRow
    <3> DEFINE x == Drawn.x
               y == fill.y + 1
    <3>1. fill' = [fill EXCEPT !.x = x, !.y = y]
      BY <2>5 DEF NextRow, Moving
    <3>2. x \in Int /\ y \in Int
      BY <2>1
    <3> HIDE DEF x, y
    <3>3. QED
      BY <2>1, <3>1, <3>2 DEF FillType
  <2>6. CASE NextWidget
    <3> DEFINE w == IF fill.widget < Len(Scene) THEN fill.widget + 1 ELSE 1
    <3>1. w \in 1 .. Len(Scene)
      BY <2>1, <2>2
    <3>2. fill' = [fill EXCEPT !.widget = w]
      BY <2>6 DEF NextWidget, Moving
    <3> HIDE DEF w
    <3>3. QED
      BY <2>1, <3>1, <3>2 DEF FillType
  <2>7. QED
    BY <2>3, <2>4, <2>5, <2>6
<1>8. QED
  BY <1>1, <1>2, <1>5, <1>6, <1>7, DrawStep DEF Drawing

LEMMA PutPixelIInv == IInv /\ PutPixel => IInv'
<1> SUFFICES ASSUME IInv, PutPixel PROVE IInv'
  OBVIOUS
<1>1. cpu.eip \notin Handling /\ cpu.eip \in Drawing /\ "segment" \in Labels \ Handling
  BY DEF PutPixel, At, Handling, Drawing, Labels
<1>2. interrupted' = interrupted /\ gdt' = gdt /\ con' = con /\ fill' = fill
  BY DEF PutPixel, history, drawing
<1>3. FrameInv' /\ Base = cpu /\ Base' = cpu' /\ cpu'.eip = "segment"
  BY <1>1, <1>2, GotoStep DEF IInv, PutPixel
<1>4. card' = [card EXCEPT !.gcIndex = 6]
  BY PortNumbers, PortWritten DEF PutPixel, SelectMemoryMap
<1>5. card \in Card /\ 6 \in Byte
  BY SmallBytes DEF IInv, CardInv
<1>6. card' \in Card /\ card'.gcIndex = 6
  BY <1>4, <1>5 DEF Card
<1>7. Programmed(card) => Programmed(card')
  BY <1>4, <1>5, <1>6 DEF Programmed, Card
<1>8. PixelInv'
  BY <1>2, <1>3, <1>6 DEF PutPixel, PixelInv
<1>9. fill' \in FillType
  BY <1>2 DEF IInv, DataInv
<1>10. QED
  BY <1>1, <1>2, <1>3, <1>7, <1>8, <1>9, DrawStep DEF Drawing

\* Register 6 of mode 13h puts the frame buffer at 0xA0000.
LEMMA SegmentIsGraphics ==
  ASSUME Programmed(card), card.gcIndex = 6
  PROVE  FrameBufferSegment(card) = GraphicsMemory
<1>1. GC[6] = 5
  BY DEF GC
<1>2. Read(card, vga.graphicsControllerDataPort) = 5
  BY <1>1, PortNumbers DEF Read, Programmed
<1>3. QED
  BY <1>2 DEF FrameBufferSegment

LEMMA ReadSegmentIInv == IInv /\ ReadSegment => IInv'
<1> SUFFICES ASSUME IInv, ReadSegment PROVE IInv'
  OBVIOUS
<1>1. cpu.eip = "segment" /\ cpu.eip \notin Handling /\ cpu.eip \in Drawing
  BY DEF ReadSegment, At, Handling, Drawing
<1>2. interrupted' = interrupted /\ gdt' = gdt /\ con' = con /\ fill' = fill /\ card' = card
  BY DEF ReadSegment, history, drawing
<1>3. Base = cpu
  BY <1>1, BaseIsCpu DEF IInv
<1>4. card.gcIndex = 6 /\ ~Clipped(fill.x, fill.y)
  BY <1>1, <1>3 DEF IInv, PixelInv
<1>5. Programmed(card)
  BY <1>1, <1>3, CardInvProgrammed DEF IInv, AfterVideo
<1>6. cpu' = [cpu EXCEPT !.eip = "store", !.gpr["eax"] = GraphicsMemory]
  BY <1>4, <1>5, SegmentIsGraphics DEF ReadSegment
<1>7. cpu' \in Machine /\ cpu'.eip = "store" /\ cpu'.gpr["eax"] = GraphicsMemory
  <2>1. cpu \in Machine
    BY DEF IInv, FrameInv
  <2>2. "store" \in Labels /\ "store" \in Words
    BY LabelWords DEF Labels, Drawing
  <2>3. GraphicsMemory \in Words
    BY NumberWords DEF GraphicsMemory
  <2>4. QED
    BY <1>6, <2>1, <2>2, <2>3 DEF Machine, MachineOf, Selectors, GeneralRegisters
<1>8. cpu'.eip \notin Handling /\ cpu'.eip \in Drawing
  BY <1>7 DEF Handling, Drawing
<1>9. FrameInv' /\ Base' = cpu'
  BY <1>1, <1>2, <1>7, <1>8, KernelStep DEF IInv
<1>10. PixelInv'
  BY <1>2, <1>4, <1>7, <1>9 DEF PixelInv
<1>11. fill' \in FillType
  BY <1>2 DEF IInv, DataInv
<1>12. QED
  BY <1>1, <1>2, <1>3, <1>8, <1>9, <1>10, <1>11, DrawStep

LEMMA StoreIInv == IInv /\ Store => IInv'
<1> SUFFICES ASSUME IInv, Store PROVE IInv'
  OBVIOUS
<1>1. cpu.eip \notin Handling /\ cpu.eip \in Drawing /\ "pixel" \in Labels \ Handling
  BY DEF Store, At, Handling, Drawing, Labels
<1>2. interrupted' = interrupted /\ gdt' = gdt /\ con' = con /\ card' = card
  BY DEF Store, Moving, history
<1>3. FrameInv' /\ Base = cpu /\ Base' = cpu' /\ cpu'.eip = "pixel"
  BY <1>1, <1>2, GotoStep DEF IInv, Store
<1>4. PixelInv'
  BY <1>3 DEF PixelInv
<1>5. fill' \in FillType
  BY DrawnType DEF IInv, DataInv, Store, Moving, FillType
<1>6. QED
  BY <1>1, <1>2, <1>3, <1>4, <1>5, DrawStep DEF Drawing

-----------------------------------------------------------------------------
(* Preservation: interrupts                                                *)

\* What the steps of an interrupt have in common.
LEMMA AsideStep ==
  ASSUME IInv, FrameInv', Base' = Base, Base.eip \in Drawing,
         card' = card \/ SameMode(card, card'), con' \in ConsoleType,
         fill' = fill, gdt' = gdt
  PROVE  IInv'
<1>1. CardInv'
  BY CardKept DEF IInv
<1>2. card'.gcIndex = card.gcIndex
  BY DEF SameMode
<1>3. PixelInv'
  BY <1>2 DEF IInv, PixelInv
<1>4. FillType' = FillType /\ ConsoleType' = ConsoleType
  BY DEF FillType, ConsoleType
<1>5. DataInv'
  BY <1>4 DEF IInv, DataInv, TableInv
<1>6. QED
  BY <1>1, <1>3, <1>5 DEF IInv

LEMMA InterruptIInv ==
  ASSUME IInv, NEW v \in Vectors, Interrupt(v)
  PROVE  IInv'
<1>1. FrameInv' /\ Base' = Base
  BY InterruptFrameInv DEF IInv
<1>2. Base.eip \in Drawing
  <2>1. CASE cpu.eip \in Drawing
    BY <2>1, BaseIsCpu DEF Drawing, Handling, IInv
  <2>2. CASE cpu.eip \in Handling
    BY <2>2, AtHandler DEF IInv, FrameInv
  <2>3. QED
    BY <2>1, <2>2 DEF Interrupt
<1>3. card' = card /\ con' = con /\ fill' = fill /\ gdt' = gdt
  BY DEF Interrupt, drawing
<1>4. QED
  BY <1>1, <1>2, <1>3, AsideStep DEF IInv, DataInv

LEMMA HandleInterruptIInv == IInv /\ HandleInterrupt => IInv'
<1> SUFFICES ASSUME IInv, HandleInterrupt PROVE IInv'
  OBVIOUS
<1>1. FrameInv' /\ Base' = Base
  BY HandleInterruptFrameInv DEF IInv
<1>2. cpu.eip \in Handling
  BY DEF HandleInterrupt, At, Handling
<1>3. Base.eip \in Drawing
  BY <1>2, AtHandler DEF IInv, FrameInv
<1>4. fill' = fill /\ gdt' = gdt
  BY DEF HandleInterrupt, drawing
<1>5. con' \in ConsoleType /\ (card' = card \/ SameMode(card, card'))
  <2> DEFINE n == HexDigits(ArgInterrupt(cpu))
  <2>1. n \in Nat
    BY DEF HexDigits
  <2>2. (con' = con /\ card' = card) \/ kprintf(Line(con, 23 + n))
    BY DEF HandleInterrupt
  <2> HIDE DEF n
  <2>3. con \in ConsoleType /\ card \in Card
    BY DEF IInv, DataInv, CardInv
  <2>4. Line(con, 23 + n) \in ConsoleType
    BY <2>1, <2>3, LineType
  <2>5. QED
    BY <2>2, <2>3, <2>4, Printed
<1>6. QED
  BY <1>1, <1>3, <1>4, <1>5, AsideStep

LEMMA ReturnIInv == IInv /\ Return => IInv'
<1> SUFFICES ASSUME IInv, Return PROVE IInv'
  OBVIOUS
<1>1. FrameInv' /\ Base' = Base
  BY ReturnFrameInv DEF IInv
<1>2. cpu.eip \in Handling
  BY DEF Return, At, Handling
<1>3. Base.eip \in Drawing
  BY <1>2, AtHandler DEF IInv, FrameInv
<1>4. card' = card /\ con' = con /\ fill' = fill /\ gdt' = gdt
  BY DEF Return, drawing
<1>5. QED
  BY <1>1, <1>3, <1>4, AsideStep DEF IInv, DataInv

LEMMA StutterIInv == IInv /\ UNCHANGED vars => IInv'
  BY DEF IInv, FrameInv, CardInv, PixelInv, DataInv, TableInv, vars, history, drawing, Base, M,
         Depth, FillType, ConsoleType, PixelAddress

LEMMA NextIInv == IInv /\ [Next]_vars => IInv'
<1> SUFFICES ASSUME IInv, [Next]_vars PROVE IInv'
  OBVIOUS
<1>1. CASE SetUp
  BY <1>1, StartIInv, InitDriversIInv, DeviceIInv, ScanFunctionIInv, ActivateIInv, SetMiscIInv,
     SetSequencerIInv, UnlockCRTCIInv, SetCRTCIInv, SetGraphicsControllerIInv,
     SetAttributeControllerIInv, SetVideoIInv, EnterDesktopIInv DEF SetUp
<1>2. CASE Draw
  BY <1>2, MovesIInv, PutPixelIInv, ReadSegmentIInv, StoreIInv DEF Draw
<1>3. CASE HandleInterrupt \/ Return
  BY <1>3, HandleInterruptIInv, ReturnIInv
<1>4. ASSUME NEW v \in Vectors, Interrupt(v) PROVE IInv'
  BY <1>4, InterruptIInv
<1>5. CASE UNCHANGED vars
  BY <1>5, StutterIInv
<1>6. QED
  BY <1>1, <1>2, <1>3, <1>4, <1>5 DEF Next, Execute

-----------------------------------------------------------------------------
(* Theorems                                                                *)

LEMMA Invariance == Spec => []IInv
  BY InitIInv, NextIInv, PTL DEF Spec

\* However the firmware left the adapter and whatever handlers print, every register
\* has its value of mode 13h from the end of vga_set_mode on.
THEOREM ModeIsSet == Spec => []ModeSet
<1>1. IInv => ModeSet
  <2> SUFFICES ASSUME IInv, cpu.eip \in {"windows"} \union Drawing \union Handling
               PROVE  Programmed(card)
    BY DEF ModeSet, Programmed
  <2>1. Base.eip \in AfterVideo
    <3>1. CASE cpu.eip \in Handling
      BY <3>1, AtHandler DEF IInv, FrameInv, AfterVideo
    <3>2. CASE cpu.eip \notin Handling
      BY <3>2, BaseIsCpu DEF IInv, AfterVideo
    <3>3. QED
      BY <3>1, <3>2
  <2>2. QED
    BY <2>1, CardInvProgrammed DEF IInv
<1>2. QED
  BY <1>1, Invariance, PTL

LEMMA OffsetInRange ==
  ASSUME NEW x \in Int, NEW y \in Int, ~Clipped(x, y)
  PROVE  PixelOffset(x, y) \in Offsets
<1>1. /\ x >= 0 /\ x <= Width - 1 /\ y >= 0 /\ y <= Height - 1
      /\ Width \in Nat /\ Height \in Nat
  BY ScreenAssumption DEF Clipped
<1>2. Width * y \in Nat /\ Width * Height \in Nat
  BY <1>1
<1>3. Width * y <= Width * (Height - 1)
  BY <1>1
<1>4. Width * (Height - 1) = Width * Height - Width
  BY <1>1
<1>5. QED
  BY <1>1, <1>2, <1>3, <1>4 DEF PixelOffset, Offsets

\* Every pixel is stored where it belongs, for every screen and scene, and at
\* whatever point interrupts come between the index write, the read and the store.
THEOREM PixelsHit == Spec => []StoresOnScreen
<1>1. IInv => StoresOnScreen
  <2> SUFFICES ASSUME IInv, At("store") PROVE StoresOnScreen
    BY DEF StoresOnScreen
  <2>1. cpu.eip = "store" /\ cpu.eip \notin Handling
    BY DEF At, Handling
  <2>2. Base = cpu
    BY <2>1, BaseIsCpu DEF IInv
  <2>3. cpu.gpr["eax"] = GraphicsMemory /\ ~Clipped(fill.x, fill.y)
    BY <2>1, <2>2 DEF IInv, PixelInv
  <2>4. fill.x \in Int /\ fill.y \in Int
    BY DrawnType DEF IInv, DataInv
  <2>5. PixelOffset(fill.x, fill.y) \in Offsets
    BY <2>3, <2>4, OffsetInRange
  <2>6. PixelAddress = GraphicsMemory + PixelOffset(fill.x, fill.y)
    BY <2>3 DEF PixelAddress
  <2>7. Width * fill.y \in Int
    BY <2>4, ScreenAssumption
  <2>8. QED
    BY <2>4, <2>5, <2>6, <2>7 DEF StoresOnScreen, GraphicsMemory, Offsets, PixelOffset
<1>2. QED
  BY <1>1, Invariance, PTL

\* HandleInterrupt is called with the number of the interrupt that is on top.
THEOREM NumberReachesHandler == Spec => []VectorReachesHandler
<1>1. IInv => VectorReachesHandler
  <2> SUFFICES ASSUME IInv, At("HandleInterrupt")
               PROVE  ArgInterrupt(cpu) = interrupted[1].vector
    BY DEF VectorReachesHandler
  <2>1. cpu.eip \in Handling
    BY DEF At, Handling
  <2>2. /\ interrupted[1].machine \in Machine /\ interrupted[1].vector \in Vectors
        /\ cpu = Enter(interrupted[1].machine, interrupted[1].vector)
    BY <2>1, AtHandler DEF IInv
  <2>3. QED
    BY <2>2, Entered
<1>2. QED
  BY <1>1, Invariance, PTL

\* An interrupt that returns leaves the machine below as it was, at every depth.
THEOREM MachineRestored == Spec => InterruptsTransparent
<1> DEFINE Step == Len(interrupted') < Len(interrupted)
                     => cpu' = interrupted[1].machine /\ interrupted' = Tail(interrupted)
<1>1. IInv /\ [Next]_vars => [Step]_vars
  <2> SUFFICES ASSUME IInv, [Next]_vars, ~UNCHANGED vars PROVE Step
    OBVIOUS
  <2>1. interrupted \in Seq([machine : Machine, vector : Vectors]) /\ Depth \in Nat
    BY AllMachines DEF IInv, FrameInv
  <2>2. CASE Return
    BY <2>2, ReturnFrameInv DEF IInv
  <2>3. CASE interrupted' = interrupted
    BY <2>1, <2>3 DEF Depth
  <2>4. ASSUME NEW v \in Vectors, Interrupt(v) PROVE Step
    <3> DEFINE T == [machine : Machine, vector : Vectors]
               top == [machine |-> cpu, vector |-> v]
    <3>1. interrupted' = <<top>> \o interrupted /\ top \in T /\ interrupted \in Seq(T)
      BY <2>1, <2>4 DEF Interrupt, IInv, FrameInv
    <3> HIDE DEF T, top
    <3>2. Len(interrupted') = Len(interrupted) + 1 /\ Len(interrupted) \in Nat
      BY <3>1
    <3>3. QED
      BY <3>2
  <2>5. QED
    BY <2>2, <2>3, <2>4
       DEF Next, Execute, SetUp, Draw, HandleInterrupt, Start, InitDrivers, BeginDevice, EndDevice,
           NextDevice, ScanFunction, Activate, SetMisc, SetSequencer, UnlockCRTC, SetCRTC,
           SetGraphicsController, SetAttributeController, SetVideo, Loop, SetMode, EnterDesktop,
           StartFill, SkipPixel, PutPixel, ReadSegment, Store, NextRow, NextWidget, Moving, history
<1>2. QED
  BY <1>1, Invariance, PTL DEF Spec, InterruptsTransparent

\* Whatever interrupts come, the selectors that int_bottom and iret reload are of
\* flat segments in the kernel's own table.
THEOREM SelectorsStayValid == Spec => []SelectorsValid
<1>1. IInv => SelectorsValid
  <2> SUFFICES ASSUME IInv, cpu.eip # "start"
               PROVE  SelectorsValid
    BY DEF SelectorsValid
  <2>1. cpu \in Machine
    BY DEF IInv, FrameInv
  <2>2. cpu.cs = 16 /\ \A s \in SegmentRegisters : cpu.seg[s] = 24
    BY <2>1 DEF Machine, Selectors
  <2>3. gdt = GlobalDescriptorTable
    <3>1. CASE cpu.eip \in Handling
      BY <3>1, AtHandler DEF IInv, FrameInv, DataInv, TableInv, Drawing
    <3>2. CASE cpu.eip \notin Handling
      BY <3>2, BaseIsCpu DEF IInv, DataInv, TableInv
    <3>3. QED
      BY <3>1, <3>2
  <2>4. /\ Selects(gdt, 16) /\ IsCode(Selected(gdt, 16)) /\ Flat(Selected(gdt, 16))
        /\ Selects(gdt, 24) /\ IsData(Selected(gdt, 24)) /\ Flat(Selected(gdt, 24))
    BY <2>3, KernelSegments
  <2>5. get_code_segment = 16 /\ get_data_segment = 24
    BY DEF get_code_segment, get_data_segment
  <2>6. QED
    BY <2>2, <2>4, <2>5, Zenon DEF SelectorsValid
<1>2. QED
  BY <1>1, Invariance, PTL
=============================================================================
