----------------------------- MODULE Interrupts -----------------------------
(***************************************************************************)
(* The interrupt system of TeeOS: the descriptor table and the pair of     *)
(* interrupt controllers that init_interrupt_manager sets up, the stubs of *)
(* interruptstubs.s, the dispatcher HandleInterrupt with its end-of-       *)
(* interrupt commands, and the CPU's interrupt flag.                       *)
(*                                                                         *)
(* One processor runs everything, so "pc" is its program counter: the boot *)
(* labels follow kernelMain, the others the path of one interrupt from the *)
(* gate to iret.  Devices raise their lines between any two steps.  What a *)
(* driver does inside its handler is the subject of module InputPath; here *)
(* the call is one step that records which driver ran.                     *)
(***************************************************************************)
EXTENDS PIC8259, Sequences

CONSTANT Lines     \* the IRQ lines that have a device on them

\* Line 2 is the wire between the two controllers and has no device.
ASSUME LinesAssumption == Lines \subseteq (0 .. 15) \ {2}

VARIABLES
  pc,          \* where the processor is
  step,        \* next entry of InitWrites
  idt,         \* interruptDescriptorTable: vector -> stub
  idtr,        \* has lidt been executed?
  handlers,    \* vectors with a non-null activeInterruptManager->handlers entry
  master,      \* the controller at ports 0x20/0x21
  slave,       \* the controller at ports 0xA0/0xA1
  IFlag,       \* EFLAGS.IF
  savedIF,     \* EFLAGS.IF in the frame iret pops
  interrupt,   \* the number the stub pushed, HandleInterrupt's argument
  ran          \* which branch HandleInterrupt took last

vars == <<pc, step, idt, idtr, handlers, master, slave,
          IFlag, savedIF, interrupt, ran>>

-----------------------------------------------------------------------------
(* Constants of the code.                                                  *)

hardwareInterruptOffset == 32      \* the 0x20 kernelMain passes
IRQ_BASE == 32                     \* .set IRQ_BASE, 0x20 in the stubs

Vectors == Byte
Exceptions == 0 .. 19              \* HandleException0x00 .. 0x13

\* Stubs a gate can point to; "absent" is a gate never written.
Stub == [kind : {"exception", "irq", "ignore", "absent"}, num : 0 .. 31]

InterruptIgnore == [kind |-> "ignore", num |-> 0]

\* The three groups of SetInterruptDescriptorTableEntry calls.
Gate(v) ==
  IF v \in Exceptions THEN [kind |-> "exception", num |-> v]
  ELSE IF v \in hardwareInterruptOffset .. hardwareInterruptOffset + 15
       THEN [kind |-> "irq", num |-> v - hardwareInterruptOffset]
       ELSE InterruptIgnore

\* Mutant: the IRQ stubs push their line, IRQ_BASE forgotten.
PushedNumberNoBase(stub) == stub.num

\* The interrupt number the stub pushes before it jumps to int_bottom.
PushedNumber(stub) ==
  IF stub.kind = "irq" THEN stub.num + IRQ_BASE ELSE stub.num

\* The port writes of init_interrupt_manager, in order: ICW1 to ICW4, then OCW1.
InitWrites == <<
  [to |-> "masterCommand", byte |-> ICW1],
  [to |-> "slaveCommand",  byte |-> ICW1],
  [to |-> "masterData",    byte |-> hardwareInterruptOffset],
  [to |-> "slaveData",     byte |-> hardwareInterruptOffset + 8],
  [to |-> "masterData",    byte |-> 4],
  [to |-> "slaveData",     byte |-> 2],
  [to |-> "masterData",    byte |-> 1],
  [to |-> "slaveData",     byte |-> 1],
  [to |-> "masterData",    byte |-> 0],
  [to |-> "slaveData",     byte |-> 0] >>

\* Mutant: the mouse looked for at the slave's fourth line.
BranchMouseOff(n) ==
  CASE n \in handlers -> "registered"
    [] n \notin handlers /\ n = 33 -> "keyboard"
    [] n \notin handlers /\ n = 43 -> "mouse"
    [] n \notin handlers /\ n = 32 -> "timer"
    [] OTHER -> "unhandled"

\* The branch HandleInterrupt takes.
Branch(n) ==
  CASE n \in handlers -> "registered"
    [] n \notin handlers /\ n = 33 -> "keyboard"     \* 0x21
    [] n \notin handlers /\ n = 44 -> "mouse"        \* 0x2C
    [] n \notin handlers /\ n = 32 -> "timer"        \* 0x20
    [] OTHER -> "unhandled"

FromPIC(n)   == n \in 32 .. 47
FromSlave(n) == n \in 40 .. 47

-----------------------------------------------------------------------------
(* The wiring: the slave's INT output is the master's input 2, the         *)
(* master's INT output is the processor's.                                 *)

SlaveINT == Offered(slave, {}) # {}

MasterOffers == Offered(master, IF SlaveINT THEN {2} ELSE {})

INTR == MasterOffers # {}

-----------------------------------------------------------------------------
(* Firmware leaves the controllers at their BIOS vectors, with some inputs *)
(* masked; the boot loader enters the kernel with interrupts disabled.     *)

Firmware(b) == [icw : {"ready"}, base : {b}, cascade : {0},
                imr : {{}, Inputs}, irr : {{}}, isr : {{}}]

Init ==
  /\ pc = "init"
  /\ step = 1
  /\ idt = [v \in Vectors |-> [kind |-> "absent", num |-> 0]]
  /\ idtr = FALSE
  /\ handlers = {}
  /\ master \in Firmware(8)
  /\ slave \in Firmware(112)
  /\ IFlag = FALSE
  /\ savedIF = FALSE
  /\ interrupt = 0
  /\ ran = "none"

-----------------------------------------------------------------------------
(* init_interrupt_manager                                                  *)

\* Mutant: no default gates above the hardware interrupts.
BuildTablesPartly ==
  /\ pc = "init"
  /\ idt' = [v \in Vectors |-> IF v < 48 THEN Gate(v) ELSE idt[v]]
  /\ handlers' = {}
  /\ pc' = "pic"
  /\ UNCHANGED <<step, idtr, master, slave, IFlag, savedIF, interrupt, ran>>

\* Clear the handler table and write all 256 gates.
BuildTables ==
  /\ pc = "init"
  /\ idt' = [v \in Vectors |-> Gate(v)]
  /\ handlers' = {}
  /\ pc' = "pic"
  /\ UNCHANGED <<step, idtr, master, slave, IFlag, savedIF, interrupt, ran>>

\* Mutant: one write too many is prepared before the test for the last.
WritePICPastEnd ==
  /\ pc = "pic"
  /\ LET w == InitWrites[step] IN
     /\ master' = CASE w.to = "masterCommand" -> Command(master, w.byte)
                    [] w.to = "masterData"    -> Data(master, w.byte)
                    [] OTHER                  -> master
     /\ slave'  = CASE w.to = "slaveCommand"  -> Command(slave, w.byte)
                    [] w.to = "slaveData"     -> Data(slave, w.byte)
                    [] OTHER                  -> slave
  /\ step' = step + 1
  /\ pc' = IF step < Len(InitWrites) THEN pc ELSE "lidt"
  /\ UNCHANGED <<idt, idtr, handlers, IFlag, savedIF, interrupt, ran>>

\* One byte of the controllers' initialisation.
WritePIC ==
  /\ pc = "pic"
  /\ LET w == InitWrites[step] IN
     /\ master' = CASE w.to = "masterCommand" -> Command(master, w.byte)
                    [] w.to = "masterData"    -> Data(master, w.byte)
                    [] OTHER                  -> master
     /\ slave'  = CASE w.to = "slaveCommand"  -> Command(slave, w.byte)
                    [] w.to = "slaveData"     -> Data(slave, w.byte)
                    [] OTHER                  -> slave
  /\ IF step < Len(InitWrites)
     THEN step' = step + 1 /\ pc' = pc
     ELSE step' = step /\ pc' = "lidt"
  /\ UNCHANGED <<idt, idtr, handlers, IFlag, savedIF, interrupt, ran>>

LoadIDT ==
  /\ pc = "lidt"
  /\ idtr' = TRUE
  /\ pc' = "boot"
  /\ UNCHANGED <<step, idt, handlers, master, slave, IFlag, savedIF,
                 interrupt, ran>>

\* activate_interrupts (sti), which kernelMain calls after everything else.
ActivateInterrupts ==
  /\ pc = "boot"
  /\ IFlag' = TRUE
  /\ pc' = "main"
  /\ UNCHANGED <<step, idt, idtr, handlers, master, slave, savedIF,
                 interrupt, ran>>

-----------------------------------------------------------------------------
(* Devices and the processor's interrupt entry                             *)

\* The device on line l raises it.
Raise(l) ==
  /\ IF l < 8
     THEN master' = Request(master, l) /\ slave' = slave
     ELSE slave' = Request(slave, l - 8) /\ master' = master
  /\ UNCHANGED <<pc, step, idt, idtr, handlers, IFlag, savedIF,
                 interrupt, ran>>

\* Through the gate of vector v.  An interrupt gate clears IF; the stub pushes
\* its number and jumps to int_bottom.  InterruptIgnore returns at once.
Enter(v) ==
  IF idt[v].kind = "ignore"
  THEN UNCHANGED <<pc, IFlag, savedIF, interrupt>>
  ELSE /\ pc' = "dispatch"
       /\ savedIF' = IFlag
       /\ IFlag' = FALSE
       /\ interrupt' = PushedNumber(idt[v])

\* The processor acknowledges the most urgent request; the controller that owns
\* it supplies the vector.
Accept ==
  /\ pc = "main"
  /\ IFlag
  /\ \E i \in Highest(MasterOffers) :
       /\ master' = Acknowledge(master, i)
       /\ IF i = 2
          THEN \E s \in Highest(Offered(slave, {})) :
                 /\ slave' = Acknowledge(slave, s)
                 /\ Enter(slave.base + s)
          ELSE /\ slave' = slave
               /\ Enter(master.base + i)
  /\ UNCHANGED <<step, idt, idtr, handlers, ran>>

\* The same, but the line was dropped just before the acknowledge cycle (a
\* polled read emptied the device, for one): a spurious interrupt.
AcceptSpurious ==
  /\ pc = "main"
  /\ IFlag
  /\ \E i \in Highest(MasterOffers) :
       IF i = 2
       THEN \E s \in Highest(Offered(slave, {})) :
              /\ master' = Acknowledge(master, 2)
              /\ slave' = Lose(slave, s)
              /\ Enter(slave.base + 7)
       ELSE /\ master' = Lose(master, i)
            /\ slave' = slave
            /\ Enter(master.base + 7)
  /\ UNCHANGED <<step, idt, idtr, handlers, ran>>

\* The instruction stream of the kernel faults.  A request that is already
\* there is taken first: the processor looks for one between instructions.
Fault(v) ==
  /\ pc \in {"boot", "main"}
  /\ ~(IFlag /\ INTR)
  /\ Enter(v)
  /\ UNCHANGED <<step, idt, idtr, handlers, master, slave, ran>>

-----------------------------------------------------------------------------
(* HandleInterrupt and the return path                                     *)

\* Mutant: the end of interrupt for the slave's lines goes to the master alone.
DispatchMasterOnly ==
  /\ pc = "dispatch"
  /\ ran' = Branch(interrupt)
  /\ pc' = IF FromPIC(interrupt) THEN "masterEOI" ELSE "iret"
  /\ UNCHANGED <<step, idt, idtr, handlers, master, slave, IFlag, savedIF,
                 interrupt>>

Dispatch ==
  /\ pc = "dispatch"
  /\ ran' = Branch(interrupt)
  /\ pc' = IF FromSlave(interrupt) THEN "slaveEOI"
           ELSE IF FromPIC(interrupt) THEN "masterEOI" ELSE "iret"
  /\ UNCHANGED <<step, idt, idtr, handlers, master, slave, IFlag, savedIF,
                 interrupt>>

\* Mutant: the master's end of interrupt as the alternative to the slave's.
SlaveEOIAlone ==
  /\ pc = "slaveEOI"
  /\ slave' = Command(slave, EOI)
  /\ pc' = "iret"
  /\ UNCHANGED <<step, idt, idtr, handlers, master, IFlag, savedIF,
                 interrupt, ran>>

SlaveEOI ==
  /\ pc = "slaveEOI"
  /\ slave' = Command(slave, EOI)
  /\ pc' = "masterEOI"
  /\ UNCHANGED <<step, idt, idtr, handlers, master, IFlag, savedIF,
                 interrupt, ran>>

\* Mutant: the second end of interrupt repeats the slave's port.
MasterEOIToSlave ==
  /\ pc = "masterEOI"
  /\ slave' = Command(slave, EOI)
  /\ pc' = "iret"
  /\ UNCHANGED <<step, idt, idtr, handlers, master, IFlag, savedIF,
                 interrupt, ran>>

MasterEOI ==
  /\ pc = "masterEOI"
  /\ master' = Command(master, EOI)
  /\ pc' = "iret"
  /\ UNCHANGED <<step, idt, idtr, handlers, slave, IFlag, savedIF,
                 interrupt, ran>>

\* Mutant: a plain return, which leaves the flag as the gate set it.
IretKeepsFlag ==
  /\ pc = "iret"
  /\ pc' = IF savedIF THEN "main" ELSE "boot"
  /\ UNCHANGED <<step, idt, idtr, handlers, master, slave, IFlag, savedIF,
                 interrupt, ran>>

\* int_bottom's second half: restore the registers and return.
Iret ==
  /\ pc = "iret"
  /\ IFlag' = savedIF
  /\ pc' = IF savedIF THEN "main" ELSE "boot"
  /\ UNCHANGED <<step, idt, idtr, handlers, master, slave, savedIF,
                 interrupt, ran>>

-----------------------------------------------------------------------------
Boot == BuildTables \/ WritePIC \/ LoadIDT \/ ActivateInterrupts

Return == Dispatch \/ SlaveEOI \/ MasterEOI \/ Iret

Next ==
  \/ BuildTables
  \/ WritePIC
  \/ LoadIDT
  \/ ActivateInterrupts
  \/ \E l \in Lines : Raise(l)
  \/ Accept
  \/ AcceptSpurious
  \/ \E v \in Exceptions : Fault(v)
  \/ Dispatch
  \/ SlaveEOI
  \/ MasterEOI
  \/ Iret

(***************************************************************************)
(* The processor keeps executing: boot code, handlers and acknowledge      *)
(* cycles are not postponed forever.  Nothing is assumed of devices or     *)
(* faults.                                                                 *)
(***************************************************************************)
Fairness ==
  /\ WF_vars(Boot)
  /\ WF_vars(Accept \/ AcceptSpurious)
  /\ WF_vars(Return)

SafeSpec == Init /\ [][Next]_vars

Spec == SafeSpec /\ Fairness

-----------------------------------------------------------------------------
(* Properties                                                              *)

Handling == {"dispatch", "slaveEOI", "masterEOI"}

Labels == {"init", "pic", "lidt", "boot", "main", "iret"} \union Handling

\* Every variable has its type.
TypeOK ==
  /\ pc \in Labels
  /\ step \in 1 .. Len(InitWrites)
  /\ idt \in [Vectors -> Stub]
  /\ idtr \in BOOLEAN
  /\ handlers \in SUBSET Vectors
  /\ master \in Chip
  /\ slave \in Chip
  /\ IFlag \in BOOLEAN
  /\ savedIF \in BOOLEAN
  /\ interrupt \in Byte
  /\ ran \in {"none", "registered", "keyboard", "mouse", "timer", "unhandled"}

\* When HandleInterrupt has sent its end-of-interrupt commands, neither
\* controller has anything left in service, whatever was requested, withdrawn
\* or faulted meanwhile.  A bit left behind (a slave interrupt answered at only
\* one chip, a command to the wrong one) would silence every line of lower
\* priority for good.
NothingLeftInService ==
  pc \notin Handling => master.isr = {} /\ slave.isr = {}

\* The number HandleInterrupt gets from the stub is that of the line in service:
\* the remapping bytes of ICW2, the gates written for the IRQs and the IRQ_BASE
\* the stubs add agree.  Only a spurious interrupt (input 7 of a chip) has
\* nothing in service, and an exception never has.
VectorNamesLine ==
  pc \in Handling =>
    /\ ~FromPIC(interrupt) => master.isr = {} /\ slave.isr = {}
    /\ FromPIC(interrupt) /\ ~FromSlave(interrupt) =>
         /\ slave.isr = {}
         /\ master.isr = {interrupt - 32} \/ (master.isr = {} /\ interrupt = 39)
    /\ FromSlave(interrupt) =>
         /\ master.isr = {2}
         /\ pc = "masterEOI" => slave.isr = {}
         /\ pc # "masterEOI" =>
              slave.isr = {interrupt - 40} \/ (slave.isr = {} /\ interrupt = 47)

\* The keyboard handler runs exactly for line 1 and the mouse handler exactly
\* for line 12, as seen in the controllers while the handler's interrupt is
\* being retired: HandleInterrupt's literals 0x21 and 0x2C agree with the
\* remapping.
DriverMatchesLine ==
  /\ pc = "masterEOI" => (ran = "keyboard" <=> 1 \in master.isr)
  /\ pc = "slaveEOI"  => (ran = "mouse" <=> 4 \in slave.isr)

\* Interrupts are enabled, or will be by an iret, only when the table is loaded
\* with a gate for every vector and both controllers are initialised at their
\* own vectors with nothing masked.
ReadyBeforeEnabled ==
  IFlag \/ savedIF =>
    /\ idtr
    /\ \A v \in Vectors : idt[v].kind # "absent"
    /\ master.icw = "ready" /\ master.base = 32 /\ master.imr = {}
    /\ slave.icw = "ready" /\ slave.base = 40 /\ slave.imr = {}

-----------------------------------------------------------------------------
(* The interrupt system implements InterruptDelivery.                      *)

PendingLines == master.irr \union {s + 8 : s \in slave.irr}

ServedLines == (master.isr \ {2}) \union {s + 8 : s \in slave.isr}

Delivery == INSTANCE InterruptDelivery
              WITH live    <- IFlag \/ savedIF,
                   pending <- PendingLines,
                   serving <- ServedLines

\* Requests are served one at a time, the most urgent first, and none is dropped
\* unless its device withdrew it: what HandleInterrupt, the stubs and the
\* controllers add up to.
DeliversSafely == Delivery!SafeSpec

\* The same with the promise that what waits is eventually served, and what is
\* being served is eventually finished.
DeliversInterrupts == Delivery!Spec

\* A line is not starved by anything but more urgent lines: if from some point
\* on none of those is waiting, each request on it that is there once interrupts
\* are enabled is taken.
ServedUnlessOutranked ==
  \A l \in Lines :
    <>[](\A k \in PendingLines : Delivery!Rank(k) >= Delivery!Rank(l))
      => (l \in PendingLines /\ (IFlag \/ savedIF)) ~> l \notin PendingLines
=============================================================================
