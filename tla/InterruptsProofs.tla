-------------------------- MODULE InterruptsProofs --------------------------
(***************************************************************************)
(* Proofs about module Interrupts, for any set of lines.                   *)
(*                                                                         *)
(* The invariants are not inductive by themselves: what is in service      *)
(* depends on the number in flight, that number on the gates and the       *)
(* vectors of the controllers, and these on how far init_interrupt_manager *)
(* has come.  IInv carries all of it.                                      *)
(***************************************************************************)
EXTENDS Interrupts, TLAPS

\* How far the initialisation of the two controllers has come before write
\* number "step".
MasterInit(s) ==
  /\ s = 2 => master.icw = "ICW2"
  /\ s = 3 => master.icw = "ICW2"
  /\ s \in {4, 5} => master.icw = "ICW3"
  /\ s \in {6, 7} => master.icw = "ICW4"
  /\ s \in 8 .. 10 => master.icw = "ready"
  /\ s >= 4 => master.base = 32
  /\ s >= 2 => master.imr = {}

SlaveInit(s) ==
  /\ s \in {3, 4} => slave.icw = "ICW2"
  /\ s \in {5, 6} => slave.icw = "ICW3"
  /\ s \in {7, 8} => slave.icw = "ICW4"
  /\ s \in {9, 10} => slave.icw = "ready"
  /\ s >= 5 => slave.base = 40
  /\ s >= 3 => slave.imr = {}

\* Both controllers remapped and unmasked.
Programmed ==
  /\ master.icw = "ready" /\ master.base = 32 /\ master.imr = {}
  /\ slave.icw = "ready" /\ slave.base = 40 /\ slave.imr = {}

\* How far init_interrupt_manager has come, by program counter.
BootInv ==
  /\ handlers = {}
  /\ pc = "init" => step = 1
  /\ pc # "init" => idt = [v \in Vectors |-> Gate(v)]
  /\ pc = "pic" => MasterInit(step) /\ SlaveInit(step)
  /\ pc \notin {"init", "pic"} => Programmed
  /\ pc \notin {"init", "pic", "lidt"} => idtr

\* The interrupt flag, by program counter.
FlagInv ==
  /\ IFlag <=> pc = "main"
  /\ pc \in {"init", "pic", "lidt", "boot"} => ~savedIF

\* What Dispatch has decided.
DispatchInv ==
  /\ pc \in {"slaveEOI", "masterEOI"} => ran = Branch(interrupt)
  /\ pc = "slaveEOI" => FromSlave(interrupt)
  /\ pc = "masterEOI" => FromPIC(interrupt)

\* Requests come from devices only.
LineInv == PendingLines \subseteq Lines

IInv ==
  /\ TypeOK
  /\ BootInv
  /\ FlagInv
  /\ DispatchInv
  /\ LineInv
  /\ NothingLeftInService
  /\ VectorNamesLine

-----------------------------------------------------------------------------
(* The chip operators.                                                     *)

\* A zero OCW1 masks nothing.
LEMMA BitsOfZero == BitsOf(0) = {}
<1>1. \A b \in Inputs : (0 \div Weight[b]) % 2 = 0
  BY DEF Weight, Inputs
<1>2. QED
  BY <1>1 DEF BitsOf

\* A controller written to stays a controller.
LEMMA WriteType ==
  ASSUME NEW c \in Chip, NEW d \in Byte
  PROVE  Command(c, d) \in Chip /\ Data(c, d) \in Chip
<1>1. BitsOf(d) \in SUBSET Inputs
  BY DEF BitsOf
<1>2. c.isr \ Highest(c.isr) \in SUBSET Inputs
  BY DEF Chip
<1>3. Command(c, d) \in Chip
  BY <1>2 DEF Command, Chip, ICW1, EOI, Byte
<1>4. Data(c, d) \in Chip
  BY <1>1 DEF Data, Chip
<1>5. QED
  BY <1>3, <1>4

\* So does one that is raised, acknowledged or let down.
LEMMA LineType ==
  ASSUME NEW c \in Chip, NEW i \in Inputs
  PROVE  Request(c, i) \in Chip /\ Acknowledge(c, i) \in Chip /\ Lose(c, i) \in Chip
  BY DEF Request, Acknowledge, Lose, Chip

\* The non-specific EOI retires the only input in service.
LEMMA EOIRetires ==
  ASSUME NEW c \in Chip, NEW i \in Inputs, c.isr = {i} \/ c.isr = {}
  PROVE  Command(c, EOI) = [c EXCEPT !.isr = {}]
<1>1. c.isr \ Highest(c.isr) = {}
  BY DEF Highest, Inputs
<1>2. QED
  BY <1>1 DEF Command, EOI, ICW1, Chip

\* Every gate holds a stub that exists.
LEMMA GateType == \A v \in Vectors : Gate(v) \in Stub
  BY DEF Gate, Stub, Vectors, Byte, Exceptions, hardwareInterruptOffset, InterruptIgnore

\* The stub of a hardware vector pushes the vector's own number ...
LEMMA IrqNumber ==
  ASSUME NEW v \in 32 .. 47
  PROVE  Gate(v).kind # "ignore" /\ PushedNumber(Gate(v)) = v
  BY DEF Gate, Exceptions, hardwareInterruptOffset, PushedNumber, IRQ_BASE

\* ... and so does that of an exception.
LEMMA ExceptionNumber ==
  ASSUME NEW v \in Exceptions
  PROVE  Gate(v).kind # "ignore" /\ PushedNumber(Gate(v)) = v
  BY DEF Gate, Exceptions, PushedNumber

-----------------------------------------------------------------------------
(* The inductive invariant                                                 *)

\* init_interrupt_manager writes ten bytes.
LEMMA TenWrites == Len(InitWrites) = 10
  BY DEF InitWrites

LEMMA InitIInv == Init => IInv
<1> SUFFICES ASSUME Init PROVE IInv
  OBVIOUS
<1>1. master \in Firmware(8) /\ slave \in Firmware(112)
  BY DEF Init
<1>2. master \in Chip /\ slave \in Chip /\ master.isr = {} /\ slave.isr = {}
      /\ master.irr = {} /\ slave.irr = {}
  BY <1>1 DEF Firmware, Chip, Byte, Inputs
<1>3. idt \in [Vectors -> Stub]
  BY DEF Init, Stub
<1>4. TypeOK
  <2>1. step \in 1 .. Len(InitWrites) /\ interrupt \in Byte
    BY TenWrites DEF Init, Byte
  <2>2. pc \in Labels /\ handlers \in SUBSET Vectors
    BY DEF Init, Labels
  <2>3. QED
    BY <1>2, <1>3, <2>1, <2>2 DEF Init, TypeOK
<1>5. BootInv /\ FlagInv /\ DispatchInv
  BY DEF Init, BootInv, FlagInv, DispatchInv
<1>6. LineInv /\ NothingLeftInService /\ VectorNamesLine
  BY <1>2 DEF Init, LineInv, PendingLines, NothingLeftInService, VectorNamesLine, Handling
<1>7. QED
  BY <1>4, <1>5, <1>6 DEF IInv

LEMMA BuildTablesIInv == IInv /\ BuildTables => IInv'
<1> SUFFICES ASSUME IInv, BuildTables PROVE IInv'
  OBVIOUS
<1>1. idt' \in [Vectors -> Stub]
  BY GateType DEF BuildTables
<1>2. TypeOK'
  BY <1>1 DEF IInv, TypeOK, BuildTables, Labels
<1>3. BootInv'
  BY DEF IInv, BootInv, BuildTables, MasterInit, SlaveInit
<1>4. QED
  BY <1>2, <1>3 DEF IInv, FlagInv, DispatchInv, LineInv, PendingLines,
     NothingLeftInService, VectorNamesLine, Handling, BuildTables

LEMMA WritePICIInv == IInv /\ WritePIC => IInv'
<1> SUFFICES ASSUME IInv, WritePIC PROVE IInv'
  OBVIOUS
<1> DEFINE w == InitWrites[step]
<1>1. /\ step \in 1 .. 10 /\ Len(InitWrites) = 10
      /\ w.byte \in Byte
      /\ master \in Chip /\ slave \in Chip
      /\ master.isr = {} /\ slave.isr = {}
      /\ MasterInit(step) /\ SlaveInit(step)
  BY DEF IInv, TypeOK, BootInv, NothingLeftInService, Handling, WritePIC,
     InitWrites, Byte, ICW1, hardwareInterruptOffset
<1>2. master' \in Chip /\ slave' \in Chip
  BY <1>1, WriteType DEF WritePIC
<1>3. TypeOK'
  BY <1>1, <1>2 DEF IInv, TypeOK, WritePIC, Labels
<1>4. /\ master'.isr = {} /\ slave'.isr = {}
      /\ master'.irr \subseteq master.irr /\ slave'.irr \subseteq slave.irr
      /\ step = 10 => master'.icw = "ready" /\ master'.base = 32 /\ master'.imr = {}
      /\ step = 10 => slave'.icw = "ready" /\ slave'.base = 40 /\ slave'.imr = {}
      /\ step < 10 => MasterInit(step)' /\ SlaveInit(step)'
  <2>1. CASE step = 1
    BY <1>1, <2>1, BitsOfZero DEF WritePIC, InitWrites, Command, Data, Chip, ICW1, EOI,
       hardwareInterruptOffset, MasterInit, SlaveInit
  <2>2. CASE step = 2
    BY <1>1, <2>2, BitsOfZero DEF WritePIC, InitWrites, Command, Data, Chip, ICW1, EOI,
       hardwareInterruptOffset, MasterInit, SlaveInit
  <2>3. CASE step = 3
    BY <1>1, <2>3, BitsOfZero DEF WritePIC, InitWrites, Command, Data, Chip, ICW1, EOI,
       hardwareInterruptOffset, MasterInit, SlaveInit
  <2>4. CASE step = 4
    BY <1>1, <2>4, BitsOfZero DEF WritePIC, InitWrites, Command, Data, Chip, ICW1, EOI,
       hardwareInterruptOffset, MasterInit, SlaveInit
  <2>5. CASE step = 5
    BY <1>1, <2>5, BitsOfZero DEF WritePIC, InitWrites, Command, Data, Chip, ICW1, EOI,
       hardwareInterruptOffset, MasterInit, SlaveInit
  <2>6. CASE step = 6
    BY <1>1, <2>6, BitsOfZero DEF WritePIC, InitWrites, Command, Data, Chip, ICW1, EOI,
       hardwareInterruptOffset, MasterInit, SlaveInit
  <2>7. CASE step = 7
    BY <1>1, <2>7, BitsOfZero DEF WritePIC, InitWrites, Command, Data, Chip, ICW1, EOI,
       hardwareInterruptOffset, MasterInit, SlaveInit
  <2>8. CASE step = 8
    BY <1>1, <2>8, BitsOfZero DEF WritePIC, InitWrites, Command, Data, Chip, ICW1, EOI,
       hardwareInterruptOffset, MasterInit, SlaveInit
  <2>9. CASE step = 9
    BY <1>1, <2>9, BitsOfZero DEF WritePIC, InitWrites, Command, Data, Chip, ICW1, EOI,
       hardwareInterruptOffset, MasterInit, SlaveInit
  <2>10. CASE step = 10
    BY <1>1, <2>10, BitsOfZero DEF WritePIC, InitWrites, Command, Data, Chip, ICW1, EOI,
       hardwareInterruptOffset, MasterInit, SlaveInit
  <2>11. QED
    BY <1>1, <2>1, <2>2, <2>3, <2>4, <2>5, <2>6, <2>7, <2>8, <2>9, <2>10
<1>5. BootInv'
  BY <1>1, <1>4 DEF IInv, BootInv, WritePIC, Programmed
<1>6. FlagInv' /\ DispatchInv' /\ NothingLeftInService' /\ VectorNamesLine'
  BY <1>4 DEF IInv, FlagInv, DispatchInv, NothingLeftInService, VectorNamesLine,
     Handling, WritePIC
<1>7. LineInv'
  BY <1>4 DEF IInv, LineInv, PendingLines
<1>8. QED
  BY <1>3, <1>5, <1>6, <1>7 DEF IInv

LEMMA LoadIDTIInv == IInv /\ LoadIDT => IInv'
  BY DEF IInv, TypeOK, Labels, BootInv, Programmed, FlagInv, DispatchInv, LineInv, PendingLines,
     NothingLeftInService, VectorNamesLine, Handling, LoadIDT

LEMMA ActivateIInv == IInv /\ ActivateInterrupts => IInv'
  BY DEF IInv, TypeOK, Labels, BootInv, Programmed, FlagInv, DispatchInv, LineInv, PendingLines,
     NothingLeftInService, VectorNamesLine, Handling, ActivateInterrupts

LEMMA RaiseIInv ==
  ASSUME NEW l \in Lines, IInv, Raise(l)
  PROVE  IInv'
<1>1. master \in Chip /\ slave \in Chip
  BY DEF IInv, TypeOK
<1>2. l \in 0 .. 15 /\ l # 2
  BY LinesAssumption
<1>3. CASE l < 8
  <2>1. l \in Inputs
    BY <1>2, <1>3 DEF Inputs
  <2>2. /\ master' = [master EXCEPT !.irr = @ \union {l}]
        /\ slave' = slave
        /\ UNCHANGED <<pc, step, idt, idtr, handlers, IFlag, savedIF, interrupt, ran>>
    BY <1>3 DEF Raise, Request
  <2>3. /\ master'.irr = master.irr \union {l}
        /\ master'.isr = master.isr /\ master'.imr = master.imr
        /\ master'.icw = master.icw /\ master'.base = master.base
    BY <1>1, <2>2 DEF Chip
  <2>4. TypeOK'
    BY <1>1, <2>1, <2>2, LineType DEF IInv, TypeOK, Request
  <2>5. QED
    BY <2>2, <2>3, <2>4 DEF IInv, BootInv, MasterInit, SlaveInit, Programmed,
       FlagInv, DispatchInv, Branch, LineInv, PendingLines, NothingLeftInService, VectorNamesLine
<1>4. CASE ~(l < 8)
  <2>1. l - 8 \in Inputs
    BY <1>2, <1>4 DEF Inputs
  <2>2. /\ slave' = [slave EXCEPT !.irr = @ \union {l - 8}]
        /\ master' = master
        /\ UNCHANGED <<pc, step, idt, idtr, handlers, IFlag, savedIF, interrupt, ran>>
    BY <1>4 DEF Raise, Request
  <2>3. /\ slave'.irr = slave.irr \union {l - 8}
        /\ slave'.isr = slave.isr /\ slave'.imr = slave.imr
        /\ slave'.icw = slave.icw /\ slave'.base = slave.base
    BY <1>1, <2>2 DEF Chip
  <2>4. TypeOK'
    BY <1>1, <2>1, <2>2, LineType DEF IInv, TypeOK, Request
  <2>5. LineInv'
    BY <1>2, <2>2, <2>3 DEF IInv, LineInv, PendingLines
  <2>6. QED
    BY <2>2, <2>3, <2>4, <2>5 DEF IInv, BootInv, MasterInit, SlaveInit, Programmed,
       FlagInv, DispatchInv, Branch, NothingLeftInService, VectorNamesLine
<1>5. QED
  BY <1>3, <1>4

\* The main loop runs with everything set up, nothing masked and nothing in
\* service.
LEMMA MainLoop ==
  ASSUME IInv, pc = "main"
  PROVE  /\ Programmed /\ IFlag /\ idt = [v \in Vectors |-> Gate(v)]
         /\ master \in Chip /\ slave \in Chip
         /\ master.isr = {} /\ slave.isr = {}
  BY DEF IInv, TypeOK, BootInv, FlagInv, NothingLeftInService, Handling

\* Entering a hardware vector's gate from there.
LEMMA EnterIrq ==
  ASSUME IInv, pc = "main", NEW v \in 32 .. 47, Enter(v)
  PROVE  pc' = "dispatch" /\ savedIF' = TRUE /\ IFlag' = FALSE /\ interrupt' = v
<1>1. v \in Vectors
  BY DEF Vectors, Byte
<1>2. idt[v] = Gate(v) /\ IFlag
  BY <1>1, MainLoop
<1>3. idt[v].kind # "ignore" /\ PushedNumber(idt[v]) = v
  BY <1>2, IrqNumber
<1>4. IFlag \in BOOLEAN
  BY DEF IInv, TypeOK
<1>5. QED
  BY <1>2, <1>3, <1>4 DEF Enter

\* What an accepted request, genuine or spurious, does to the invariant: only
\* the requested and in-service inputs of the controllers change.
LEMMA AcceptedIInv ==
  ASSUME IInv, pc = "main",
         NEW v \in 32 .. 47, Enter(v),
         UNCHANGED <<step, idt, idtr, handlers, ran>>,
         master' \in Chip, slave' \in Chip,
         master'.icw = master.icw, master'.base = master.base, master'.imr = master.imr,
         slave'.icw = slave.icw, slave'.base = slave.base, slave'.imr = slave.imr,
         master'.irr \subseteq master.irr, slave'.irr \subseteq slave.irr,
         v < 40 => slave'.isr = {} /\ (master'.isr = {v - 32} \/ (master'.isr = {} /\ v = 39)),
         v >= 40 => master'.isr = {2} /\ (slave'.isr = {v - 40} \/ (slave'.isr = {} /\ v = 47))
  PROVE  IInv'
<1>1. pc' = "dispatch" /\ savedIF' = TRUE /\ IFlag' = FALSE /\ interrupt' = v
  BY EnterIrq
<1>2. TypeOK'
  <2>1. pc' \in Labels /\ interrupt' \in Byte
    BY <1>1 DEF Labels, Handling, Byte
  <2>2. IFlag' \in BOOLEAN /\ savedIF' \in BOOLEAN
    BY <1>1
  <2>3. QED
    BY <2>1, <2>2 DEF IInv, TypeOK
<1>3. BootInv'
  BY <1>1 DEF IInv, BootInv, Programmed
<1>4. FlagInv' /\ DispatchInv' /\ NothingLeftInService'
  BY <1>1 DEF FlagInv, DispatchInv, NothingLeftInService, Handling
<1>5. LineInv'
  BY DEF IInv, LineInv, PendingLines
<1>6. VectorNamesLine'
  BY <1>1 DEF VectorNamesLine, FromPIC, FromSlave
<1>7. QED
  BY <1>2, <1>3, <1>4, <1>5, <1>6 DEF IInv

LEMMA AcceptIInv == IInv /\ Accept => IInv'
<1> SUFFICES ASSUME IInv, Accept PROVE IInv'
  OBVIOUS
<1>1. pc = "main"
  BY DEF Accept
<1>2. PICK i \in Highest(MasterOffers) :
        /\ master' = Acknowledge(master, i)
        /\ IF i = 2
           THEN \E s \in Highest(Offered(slave, {})) :
                  /\ slave' = Acknowledge(slave, s)
                  /\ Enter(slave.base + s)
           ELSE /\ slave' = slave
                /\ Enter(master.base + i)
  BY DEF Accept
<1>3. UNCHANGED <<step, idt, idtr, handlers, ran>>
  BY DEF Accept
<1>4. i \in Inputs
  BY <1>1, <1>2, MainLoop DEF Highest, MasterOffers, Offered, Chip, Inputs
<1>5. /\ master'.icw = master.icw /\ master'.base = master.base /\ master'.imr = master.imr
      /\ master'.irr = master.irr \ {i} /\ master'.isr = {i} /\ master' \in Chip
  BY <1>1, <1>2, <1>4, MainLoop, LineType DEF Acknowledge, Chip
<1>6. CASE i = 2
  <2>1. PICK s \in Highest(Offered(slave, {})) :
          slave' = Acknowledge(slave, s) /\ Enter(slave.base + s)
    BY <1>2, <1>6
  <2>2. s \in Inputs
    BY <1>1, <2>1, MainLoop DEF Highest, Offered, Chip, Inputs
  <2>3. /\ slave'.icw = slave.icw /\ slave'.base = slave.base /\ slave'.imr = slave.imr
        /\ slave'.irr = slave.irr \ {s} /\ slave'.isr = {s} /\ slave' \in Chip
    BY <1>1, <2>1, <2>2, MainLoop, LineType DEF Acknowledge, Chip
  <2>4. Enter(40 + s) /\ 40 + s \in 32 .. 47
    BY <1>1, <2>1, <2>2, MainLoop DEF Programmed, Inputs
  <2>5. QED
    BY <1>1, <1>3, <1>5, <1>6, <2>2, <2>3, <2>4, AcceptedIInv DEF Inputs
<1>7. CASE i # 2
  <2>1. slave' = slave /\ Enter(32 + i) /\ 32 + i \in 32 .. 47
    BY <1>1, <1>2, <1>4, <1>7, MainLoop DEF Programmed, Inputs
  <2>2. QED
    BY <1>1, <1>3, <1>4, <1>5, <2>1, MainLoop, AcceptedIInv DEF Inputs
<1>8. QED
  BY <1>6, <1>7

LEMMA AcceptSpuriousIInv == IInv /\ AcceptSpurious => IInv'
<1> SUFFICES ASSUME IInv, AcceptSpurious PROVE IInv'
  OBVIOUS
<1>1. pc = "main"
  BY DEF AcceptSpurious
<1>2. PICK i \in Highest(MasterOffers) :
        IF i = 2
        THEN \E s \in Highest(Offered(slave, {})) :
               /\ master' = Acknowledge(master, 2)
               /\ slave' = Lose(slave, s)
               /\ Enter(slave.base + 7)
        ELSE /\ master' = Lose(master, i)
             /\ slave' = slave
             /\ Enter(master.base + 7)
  BY DEF AcceptSpurious
<1>3. UNCHANGED <<step, idt, idtr, handlers, ran>>
  BY DEF AcceptSpurious
<1>4. i \in Inputs
  BY <1>1, <1>2, MainLoop DEF Highest, MasterOffers, Offered, Chip, Inputs
<1>5. CASE i = 2
  <2>1. PICK s \in Highest(Offered(slave, {})) :
          /\ master' = Acknowledge(master, 2)
          /\ slave' = Lose(slave, s)
          /\ Enter(slave.base + 7)
    BY <1>2, <1>5
  <2>2. s \in Inputs /\ 2 \in Inputs
    BY <1>1, <2>1, MainLoop DEF Highest, Offered, Chip, Inputs
  <2>3. /\ slave'.icw = slave.icw /\ slave'.base = slave.base /\ slave'.imr = slave.imr
        /\ slave'.irr = slave.irr \ {s} /\ slave'.isr = {} /\ slave' \in Chip
    BY <1>1, <2>1, <2>2, MainLoop, LineType DEF Lose, Chip
  <2>4. /\ master'.icw = master.icw /\ master'.base = master.base /\ master'.imr = master.imr
        /\ master'.irr = master.irr \ {2} /\ master'.isr = {2} /\ master' \in Chip
    BY <1>1, <2>1, <2>2, MainLoop, LineType DEF Acknowledge, Chip
  <2>5. Enter(47)
    BY <1>1, <2>1, MainLoop DEF Programmed
  <2>6. QED
    BY <1>1, <1>3, <2>3, <2>4, <2>5, AcceptedIInv
<1>6. CASE i # 2
  <2>1. master' = Lose(master, i) /\ slave' = slave /\ Enter(39)
    BY <1>1, <1>2, <1>6, MainLoop DEF Programmed
  <2>2. /\ master'.icw = master.icw /\ master'.base = master.base /\ master'.imr = master.imr
        /\ master'.irr = master.irr \ {i} /\ master'.isr = {} /\ master' \in Chip
    BY <1>1, <1>4, <2>1, MainLoop, LineType DEF Lose, Chip
  <2>3. QED
    BY <1>1, <1>3, <2>1, <2>2, MainLoop, AcceptedIInv
<1>7. QED
  BY <1>5, <1>6

LEMMA FaultIInv ==
  ASSUME NEW v \in Exceptions, IInv, Fault(v)
  PROVE  IInv'
<1>1. /\ pc \in {"boot", "main"}
      /\ Enter(v)
      /\ UNCHANGED <<step, idt, idtr, handlers, master, slave, ran>>
  BY DEF Fault
<1>2. idt[v] = Gate(v) /\ Programmed /\ master.isr = {} /\ slave.isr = {}
  BY <1>1 DEF IInv, BootInv, NothingLeftInService, Handling, Vectors, Byte, Exceptions
<1>3. pc' = "dispatch" /\ savedIF' = IFlag /\ IFlag' = FALSE /\ interrupt' = v
  BY <1>1, <1>2, ExceptionNumber DEF Enter
<1>4. TypeOK'
  <2>1. pc' \in Labels /\ interrupt' \in Byte
    BY <1>3 DEF Labels, Handling, Byte, Exceptions
  <2>2. IFlag' \in BOOLEAN /\ savedIF' \in BOOLEAN
    BY <1>3 DEF IInv, TypeOK
  <2>3. QED
    BY <1>1, <2>1, <2>2 DEF IInv, TypeOK
<1>5. BootInv'
  BY <1>1, <1>3 DEF IInv, BootInv, Programmed
<1>6. FlagInv' /\ DispatchInv' /\ NothingLeftInService'
  BY <1>3 DEF FlagInv, DispatchInv, NothingLeftInService, Handling
<1>7. LineInv'
  BY <1>1 DEF IInv, LineInv, PendingLines
<1>8. VectorNamesLine'
  BY <1>1, <1>2, <1>3 DEF VectorNamesLine, FromPIC, FromSlave, Exceptions
<1>9. QED
  BY <1>4, <1>5, <1>6, <1>7, <1>8 DEF IInv

LEMMA DispatchIInv == IInv /\ Dispatch => IInv'
<1> SUFFICES ASSUME IInv, Dispatch PROVE IInv'
  OBVIOUS
<1>1. ran' = Branch(interrupt) /\ pc = "dispatch"
  BY DEF Dispatch
<1>2. TypeOK'
  <2>1. ran' \in {"none", "registered", "keyboard", "mouse", "timer", "unhandled"}
    BY <1>1 DEF Branch
  <2>2. pc' \in Labels
    BY DEF Dispatch, Labels, Handling
  <2>3. QED
    BY <2>1, <2>2 DEF IInv, TypeOK, Dispatch
<1>3. BootInv' /\ FlagInv'
  BY <1>1 DEF IInv, BootInv, FlagInv, Programmed, Dispatch
<1>4. DispatchInv'
  BY DEF Dispatch, DispatchInv, Branch, FromPIC, FromSlave
<1>5. LineInv'
  BY DEF IInv, LineInv, PendingLines, Dispatch
<1>6. NothingLeftInService' /\ VectorNamesLine'
  BY <1>1 DEF IInv, NothingLeftInService, VectorNamesLine, Handling, FromPIC, FromSlave, Dispatch
<1>7. QED
  BY <1>2, <1>3, <1>4, <1>5, <1>6 DEF IInv

LEMMA SlaveEOIIInv == IInv /\ SlaveEOI => IInv'
<1> SUFFICES ASSUME IInv, SlaveEOI PROVE IInv'
  OBVIOUS
<1>1. /\ pc = "slaveEOI" /\ FromSlave(interrupt)
      /\ master \in Chip /\ slave \in Chip
      /\ slave.isr = {interrupt - 40} \/ slave.isr = {}
      /\ master.isr = {2}
      /\ ran = Branch(interrupt)
  BY DEF IInv, TypeOK, DispatchInv, VectorNamesLine, SlaveEOI, Handling
<1>2. slave' = [slave EXCEPT !.isr = {}]
  BY <1>1, EOIRetires DEF SlaveEOI, FromSlave, Inputs
<1>3. /\ slave' \in Chip /\ slave'.isr = {} /\ slave'.irr = slave.irr
      /\ slave'.icw = slave.icw /\ slave'.base = slave.base /\ slave'.imr = slave.imr
  BY <1>1, <1>2 DEF Chip
<1>4. /\ pc' = "masterEOI"
      /\ UNCHANGED <<step, idt, idtr, handlers, master, IFlag, savedIF, interrupt, ran>>
  BY DEF SlaveEOI
<1>5. TypeOK'
  BY <1>3, <1>4 DEF IInv, TypeOK, Labels, Handling
<1>6. BootInv' /\ FlagInv' /\ LineInv' /\ NothingLeftInService'
  BY <1>1, <1>3, <1>4 DEF IInv, BootInv, FlagInv, Programmed, LineInv, PendingLines,
     NothingLeftInService, Handling
<1>7. DispatchInv' /\ VectorNamesLine'
  BY <1>1, <1>3, <1>4 DEF DispatchInv, Branch, VectorNamesLine, FromPIC, FromSlave
<1>8. QED
  BY <1>5, <1>6, <1>7 DEF IInv

LEMMA MasterEOIIInv == IInv /\ MasterEOI => IInv'
<1> SUFFICES ASSUME IInv, MasterEOI PROVE IInv'
  OBVIOUS
<1>1. /\ pc = "masterEOI" /\ FromPIC(interrupt)
      /\ master \in Chip /\ slave.isr = {}
      /\ FromSlave(interrupt) => master.isr = {2}
      /\ ~FromSlave(interrupt) => master.isr = {interrupt - 32} \/ master.isr = {}
  BY DEF IInv, TypeOK, DispatchInv, VectorNamesLine, MasterEOI, Handling
<1>2. master' = [master EXCEPT !.isr = {}]
  <2>1. CASE FromSlave(interrupt)
    BY <1>1, <2>1, EOIRetires DEF MasterEOI, Inputs
  <2>2. CASE ~FromSlave(interrupt)
    <3>1. interrupt - 32 \in Inputs
      BY <1>1, <2>2 DEF FromPIC, FromSlave, Inputs
    <3>2. QED
      BY <1>1, <2>2, <3>1, EOIRetires DEF MasterEOI
  <2>3. QED
    BY <2>1, <2>2
<1>3. /\ master' \in Chip /\ master'.isr = {} /\ master'.irr = master.irr
      /\ master'.icw = master.icw /\ master'.base = master.base /\ master'.imr = master.imr
  BY <1>1, <1>2 DEF Chip
<1>4. /\ pc' = "iret"
      /\ UNCHANGED <<step, idt, idtr, handlers, slave, IFlag, savedIF, interrupt, ran>>
  BY DEF MasterEOI
<1>5. TypeOK'
  BY <1>3, <1>4 DEF IInv, TypeOK, Labels
<1>6. BootInv' /\ FlagInv' /\ LineInv' /\ NothingLeftInService'
  BY <1>1, <1>3, <1>4 DEF IInv, BootInv, FlagInv, Programmed, LineInv, PendingLines,
     NothingLeftInService, Handling
<1>7. DispatchInv' /\ VectorNamesLine'
  BY <1>1, <1>3, <1>4 DEF DispatchInv, VectorNamesLine, Handling
<1>8. QED
  BY <1>5, <1>6, <1>7 DEF IInv

LEMMA IretIInv == IInv /\ Iret => IInv'
<1> SUFFICES ASSUME IInv, Iret PROVE IInv'
  OBVIOUS
<1>1. /\ pc = "iret" /\ IFlag' = savedIF /\ pc' = IF savedIF THEN "main" ELSE "boot"
      /\ UNCHANGED <<step, idt, idtr, handlers, master, slave, savedIF, interrupt, ran>>
  BY DEF Iret
<1>2. savedIF \in BOOLEAN
  BY DEF IInv, TypeOK
<1>3. pc' \in {"main", "boot"} /\ (IFlag' <=> pc' = "main") /\ (pc' = "boot" => ~savedIF')
  BY <1>1, <1>2
<1>4. QED
  BY <1>1, <1>3 DEF IInv, TypeOK, Labels, BootInv, FlagInv, Programmed, DispatchInv, LineInv,
     PendingLines, NothingLeftInService, VectorNamesLine, Handling

LEMMA NextIInv == IInv /\ [Next]_vars => IInv'
<1> SUFFICES ASSUME IInv, [Next]_vars PROVE IInv'
  OBVIOUS
<1>1. CASE UNCHANGED vars
  BY <1>1 DEF vars, IInv, TypeOK, BootInv, MasterInit, SlaveInit, Programmed, FlagInv,
     DispatchInv, Branch, LineInv, PendingLines, NothingLeftInService, VectorNamesLine
<1>2. QED
  BY <1>1, BuildTablesIInv, WritePICIInv, LoadIDTIInv, ActivateIInv, RaiseIInv, AcceptIInv,
     AcceptSpuriousIInv, FaultIInv, DispatchIInv, SlaveEOIIInv, MasterEOIIInv, IretIInv DEF Next

\* IInv is an invariant of every behaviour of the interrupt system.
THEOREM Invariance == SafeSpec => []IInv
<1>1. QED
  BY InitIInv, NextIInv, PTL DEF SafeSpec

-----------------------------------------------------------------------------
(* The invariants the runs check                                           *)

\* Type correctness of the whole interrupt system.
THEOREM TypeCorrect == SafeSpec => []TypeOK
<1>1. IInv => TypeOK
  BY DEF IInv
<1>2. QED
  BY <1>1, Invariance, PTL

\* HandleInterrupt's end-of-interrupt commands leave nothing in service.
THEOREM EOIsMatch == SafeSpec => []NothingLeftInService
<1>1. IInv => NothingLeftInService
  BY DEF IInv
<1>2. QED
  BY <1>1, Invariance, PTL

\* The stubs' numbers, the gates and the remapping bytes agree.
THEOREM NumbersAgree == SafeSpec => []VectorNamesLine
<1>1. IInv => VectorNamesLine
  BY DEF IInv
<1>2. QED
  BY <1>1, Invariance, PTL

\* HandleInterrupt's literals pick the driver of the line in service.
THEOREM DriversMatch == SafeSpec => []DriverMatchesLine
<1>1. IInv => DriverMatchesLine
  <2> SUFFICES ASSUME IInv PROVE DriverMatchesLine
    OBVIOUS
  <2>1. /\ handlers = {}
        /\ VectorNamesLine
        /\ pc \in {"slaveEOI", "masterEOI"} => ran = Branch(interrupt)
        /\ pc = "slaveEOI" => FromSlave(interrupt)
        /\ pc = "masterEOI" => FromPIC(interrupt)
    BY DEF IInv, BootInv, DispatchInv
  <2>2. ASSUME pc = "masterEOI" PROVE ran = "keyboard" <=> 1 \in master.isr
    <3>1. ran = "keyboard" <=> interrupt = 33
      BY <2>1, <2>2 DEF Branch
    <3>2. 1 \in master.isr <=> interrupt = 33
      BY <2>1, <2>2 DEF VectorNamesLine, Handling, FromPIC, FromSlave
    <3>3. QED
      BY <3>1, <3>2
  <2>3. ASSUME pc = "slaveEOI" PROVE ran = "mouse" <=> 4 \in slave.isr
    <3>1. ran = "mouse" <=> interrupt = 44
      BY <2>1, <2>3 DEF Branch
    <3>2. 4 \in slave.isr <=> interrupt = 44
      BY <2>1, <2>3 DEF VectorNamesLine, Handling, FromPIC, FromSlave
    <3>3. QED
      BY <3>1, <3>2
  <2>4. QED
    BY <2>2, <2>3 DEF DriverMatchesLine
<1>2. QED
  BY <1>1, Invariance, PTL

\* sti and every iret that sets the flag come after a complete set-up.
THEOREM SetUpFirst == SafeSpec => []ReadyBeforeEnabled
<1>1. IInv => ReadyBeforeEnabled
  <2> SUFFICES ASSUME IInv, IFlag \/ savedIF PROVE ReadyBeforeEnabled
    BY DEF ReadyBeforeEnabled
  <2>1. pc \notin {"init", "pic", "lidt"}
    BY DEF IInv, FlagInv
  <2>2. Programmed /\ idtr /\ idt = [v \in Vectors |-> Gate(v)]
    BY <2>1 DEF IInv, BootInv
  <2>3. \A v \in Vectors : Gate(v).kind # "absent"
    BY DEF Gate, InterruptIgnore
  <2>4. QED
    BY <2>2, <2>3 DEF ReadyBeforeEnabled, Programmed
<1>2. QED
  BY <1>1, Invariance, PTL

-----------------------------------------------------------------------------
(* The interrupt system implements InterruptDelivery.                      *)

Live == IFlag \/ savedIF

\* The mapped variables, in primed form, of a step that leaves the controllers
\* and the flags alone.
LEMMA MappedUnchanged ==
  ASSUME master' = master, slave' = slave, (Live)' = Live
  PROVE  UNCHANGED Delivery!dvars
  BY DEF Delivery!dvars, PendingLines, ServedLines, Live

\* In the main loop the requests the controllers offer are all that is pending,
\* and the most urgent of them is the most urgent pending line.
LEMMA OfferedAreMostUrgent ==
  ASSUME IInv, pc = "main", NEW i \in Highest(MasterOffers)
  PROVE  /\ i \in Inputs
         /\ i # 2 => i \in Lines /\ i \in master.irr /\ Delivery!MostUrgent(i)
         /\ i = 2 => \A s \in Highest(Offered(slave, {})) :
                       /\ s \in Inputs
                       /\ s + 8 \in Lines
                       /\ s \in slave.irr
                       /\ Delivery!MostUrgent(s + 8)
<1>1. /\ master \in Chip /\ slave \in Chip
      /\ master.imr = {} /\ slave.imr = {} /\ master.isr = {} /\ slave.isr = {}
  BY MainLoop DEF Programmed
<1>2. Offered(slave, {}) = slave.irr
  BY <1>1 DEF Offered, Chip
<1>3. SlaveINT <=> slave.irr # {}
  BY <1>2 DEF SlaveINT
<1>4. MasterOffers = master.irr \union (IF SlaveINT THEN {2} ELSE {})
  BY <1>1 DEF MasterOffers, Offered, Chip
<1>5. PendingLines \subseteq Lines /\ Lines \subseteq (0 .. 15) \ {2}
  BY LinesAssumption DEF IInv, LineInv
<1>6. i \in Inputs /\ \A j \in MasterOffers : i <= j
  BY <1>1, <1>4 DEF Highest, Chip, Inputs
<1>7. master.irr \subseteq Inputs \ {2} /\ slave.irr \subseteq Inputs
  BY <1>1, <1>5 DEF Chip, PendingLines
<1>8. ASSUME i # 2
      PROVE  i \in Lines /\ i \in master.irr /\ Delivery!MostUrgent(i)
  <2>1. i \in master.irr /\ i \in PendingLines
    BY <1>4, <1>8 DEF Highest, PendingLines
  <2>2. ASSUME NEW k \in PendingLines PROVE Delivery!Rank(i) <= Delivery!Rank(k)
    <3>1. CASE k \in master.irr
      <4>1. i <= k /\ k \in Inputs \ {2}
        BY <1>4, <1>6, <1>7, <3>1
      <4>2. QED
        BY <1>6, <4>1 DEF Delivery!Rank, Inputs
    <3>2. CASE k \in {s + 8 : s \in slave.irr}
      <4>1. i <= 2 /\ k \in 8 .. 15
        BY <1>3, <1>4, <1>6, <1>7, <3>2 DEF Inputs
      <4>2. QED
        BY <1>6, <4>1 DEF Delivery!Rank, Inputs
    <3>3. QED
      BY <3>1, <3>2 DEF PendingLines
  <2>3. QED
    BY <1>5, <2>1, <2>2 DEF Delivery!MostUrgent
<1>9. ASSUME i = 2, NEW s \in Highest(Offered(slave, {}))
      PROVE  /\ s \in Inputs
             /\ s + 8 \in Lines
             /\ s \in slave.irr
             /\ Delivery!MostUrgent(s + 8)
  <2>1. s \in slave.irr /\ \A t \in slave.irr : s <= t
    BY <1>2 DEF Highest
  <2>2. s \in Inputs /\ s + 8 \in PendingLines
    BY <1>7, <2>1 DEF PendingLines
  <2>3. ASSUME NEW k \in PendingLines PROVE Delivery!Rank(s + 8) <= Delivery!Rank(k)
    <3>1. CASE k \in master.irr
      <4>1. k \in 3 .. 7
        BY <1>4, <1>6, <1>7, <1>9, <3>1 DEF Inputs
      <4>2. QED
        BY <2>2, <4>1 DEF Delivery!Rank, Inputs
    <3>2. CASE k \in {t + 8 : t \in slave.irr}
      <4>1. PICK t \in slave.irr : k = t + 8
        BY <3>2
      <4>2. t \in Inputs /\ s <= t
        BY <1>7, <2>1, <4>1
      <4>3. QED
        BY <2>2, <4>1, <4>2 DEF Delivery!Rank, Inputs
    <3>3. QED
      BY <3>1, <3>2 DEF PendingLines
  <2>4. QED
    BY <1>5, <2>1, <2>2, <2>3 DEF Delivery!MostUrgent
<1>10. QED
  BY <1>6, <1>8, <1>9

LEMMA InitRefines == Init => Delivery!Init
<1> SUFFICES ASSUME Init PROVE Delivery!Init
  OBVIOUS
<1>1. /\ master.irr = {} /\ master.isr = {} /\ slave.irr = {} /\ slave.isr = {}
  BY DEF Init, Firmware
<1>2. QED
  BY <1>1 DEF Init, Delivery!Init, PendingLines, ServedLines

LEMMA WritePICRefines == IInv /\ WritePIC => [Delivery!Next]_(Delivery!dvars)
<1> SUFFICES ASSUME IInv, WritePIC PROVE Delivery!Reset
  BY DEF Delivery!Next
<1>1. /\ ~IFlag /\ ~savedIF /\ UNCHANGED <<IFlag, savedIF>>
      /\ master \in Chip /\ slave \in Chip /\ master.isr = {} /\ slave.isr = {}
  BY DEF IInv, TypeOK, FlagInv, NothingLeftInService, Handling, WritePIC
<1>2. /\ master'.irr \subseteq master.irr /\ slave'.irr \subseteq slave.irr
      /\ master'.isr = {} /\ slave'.isr = {}
  BY <1>1 DEF WritePIC, Command, Data, Chip, EOI, ICW1
<1>3. PendingLines' \subseteq PendingLines /\ ServedLines' = ServedLines
  BY <1>1, <1>2 DEF PendingLines, ServedLines
<1>4. QED
  BY <1>1, <1>3 DEF Delivery!Reset

LEMMA RaiseRefines ==
  ASSUME NEW l \in Lines, IInv, Raise(l)
  PROVE  Delivery!Request(l)
<1>1. /\ master \in Chip /\ slave \in Chip /\ l \in 0 .. 15
      /\ UNCHANGED <<IFlag, savedIF>>
  BY LinesAssumption DEF IInv, TypeOK, Raise
<1>2. ServedLines' = ServedLines
  BY <1>1 DEF Raise, Request, ServedLines, Chip
<1>3. PendingLines' = PendingLines \union {l}
  <2>1. CASE l < 8
    <3>1. master'.irr = master.irr \union {l} /\ slave'.irr = slave.irr
      BY <1>1, <2>1 DEF Raise, Request, Chip
    <3>2. QED
      BY <3>1 DEF PendingLines
  <2>2. CASE ~(l < 8)
    <3>1. slave'.irr = slave.irr \union {l - 8} /\ master'.irr = master.irr
      BY <1>1, <2>2 DEF Raise, Request, Chip
    <3>2. (l - 8) + 8 = l
      BY <1>1
    <3>3. QED
      BY <3>1, <3>2 DEF PendingLines
  <2>3. QED
    BY <2>1, <2>2
<1>4. QED
  BY <1>1, <1>2, <1>3 DEF Delivery!Request

LEMMA AcceptRefines == IInv /\ Accept => [Delivery!Next]_(Delivery!dvars)
<1> SUFFICES ASSUME IInv, Accept PROVE \E l \in Lines : Delivery!Begin(l)
  BY DEF Delivery!Next, Delivery!Serve
<1>1. pc = "main"
  BY DEF Accept
<1>2. PICK i \in Highest(MasterOffers) :
        /\ master' = Acknowledge(master, i)
        /\ IF i = 2
           THEN \E s \in Highest(Offered(slave, {})) :
                  /\ slave' = Acknowledge(slave, s)
                  /\ Enter(slave.base + s)
           ELSE /\ slave' = slave
                /\ Enter(master.base + i)
  BY DEF Accept
<1>3. i \in Inputs
  BY <1>1, <1>2, OfferedAreMostUrgent
<1>4. /\ master.isr = {} /\ slave.isr = {} /\ master \in Chip /\ slave \in Chip
      /\ IFlag
  BY <1>1, MainLoop
<1>5. ServedLines = {} /\ Live
  BY <1>4 DEF ServedLines, Live
<1>6. master'.isr = {i} /\ master'.irr = master.irr \ {i}
  BY <1>2, <1>4 DEF Acknowledge, Chip
<1>7. CASE i = 2
  <2>1. PICK s \in Highest(Offered(slave, {})) :
          slave' = Acknowledge(slave, s) /\ Enter(slave.base + s)
    BY <1>2, <1>7
  <2>2. s \in Inputs /\ s + 8 \in Lines /\ s \in slave.irr /\ Delivery!MostUrgent(s + 8)
    BY <1>1, <1>2, <1>7, <2>1, OfferedAreMostUrgent
  <2>3. slave'.isr = {s} /\ slave'.irr = slave.irr \ {s}
    BY <1>4, <2>1 DEF Acknowledge, Chip
  <2>4. 2 \notin master.irr
    BY LinesAssumption DEF IInv, LineInv, PendingLines
  <2>5. /\ PendingLines \subseteq 0 .. 15
        /\ slave.irr \subseteq Inputs /\ master.irr \subseteq Inputs
    BY <1>4, LinesAssumption DEF IInv, LineInv, Chip
  <2>6. PendingLines' = PendingLines \ {s + 8}
    BY <1>6, <1>7, <2>2, <2>3, <2>4, <2>5 DEF PendingLines, Inputs
  <2>7. ServedLines' = {s + 8}
    BY <1>6, <1>7, <2>3 DEF ServedLines
  <2>8. Enter(40 + s) /\ 40 + s \in 32 .. 47
    BY <1>1, <2>1, <2>2, MainLoop DEF Programmed, Inputs
  <2>9. (Live)' = Live
    BY <1>1, <1>5, <2>8, EnterIrq DEF Live
  <2>10. QED
    BY <1>5, <2>2, <2>6, <2>7, <2>9 DEF Delivery!Begin, Live
<1>8. CASE i # 2
  <2>1. slave' = slave /\ Enter(32 + i) /\ 32 + i \in 32 .. 47
    BY <1>1, <1>2, <1>3, <1>8, MainLoop DEF Programmed, Inputs
  <2>2. i \in Lines /\ Delivery!MostUrgent(i)
    BY <1>1, <1>2, <1>8, OfferedAreMostUrgent
  <2>3. slave.irr \subseteq Inputs
    BY <1>4 DEF Chip
  <2>4. PendingLines' = PendingLines \ {i} /\ ServedLines' = {i}
    BY <1>3, <1>4, <1>6, <1>8, <2>1, <2>3 DEF PendingLines, ServedLines, Inputs
  <2>5. (Live)' = Live
    BY <1>1, <1>5, <2>1, EnterIrq DEF Live
  <2>6. QED
    BY <1>5, <2>2, <2>4, <2>5 DEF Delivery!Begin, Live
<1>9. QED
  BY <1>7, <1>8

LEMMA AcceptSpuriousRefines == IInv /\ AcceptSpurious => [Delivery!Next]_(Delivery!dvars)
<1> SUFFICES ASSUME IInv, AcceptSpurious PROVE \E l \in Lines : Delivery!Withdraw(l)
  BY DEF Delivery!Next, Delivery!Serve
<1>1. pc = "main"
  BY DEF AcceptSpurious
<1>2. PICK i \in Highest(MasterOffers) :
        IF i = 2
        THEN \E s \in Highest(Offered(slave, {})) :
               /\ master' = Acknowledge(master, 2)
               /\ slave' = Lose(slave, s)
               /\ Enter(slave.base + 7)
        ELSE /\ master' = Lose(master, i)
             /\ slave' = slave
             /\ Enter(master.base + 7)
  BY DEF AcceptSpurious
<1>3. /\ master.isr = {} /\ slave.isr = {} /\ master \in Chip /\ slave \in Chip
      /\ IFlag
  BY <1>1, MainLoop
<1>4. /\ ServedLines = {} /\ Live
      /\ slave.irr \subseteq Inputs /\ master.irr \subseteq Inputs
  BY <1>3 DEF ServedLines, Live, Chip
<1>5. CASE i = 2
  <2>1. PICK s \in Highest(Offered(slave, {})) :
          /\ master' = Acknowledge(master, 2)
          /\ slave' = Lose(slave, s)
          /\ Enter(slave.base + 7)
    BY <1>2, <1>5
  <2>2. s \in Inputs /\ s + 8 \in Lines /\ s \in slave.irr
    BY <1>1, <1>2, <1>5, <2>1, OfferedAreMostUrgent
  <2>3. /\ slave'.isr = {} /\ slave'.irr = slave.irr \ {s}
        /\ master'.isr = {2} /\ master'.irr = master.irr \ {2}
    BY <1>3, <2>1 DEF Acknowledge, Lose, Chip
  <2>4. 2 \notin master.irr
    BY LinesAssumption DEF IInv, LineInv, PendingLines
  <2>5. PendingLines' = PendingLines \ {s + 8} /\ s + 8 \in PendingLines
    BY <1>4, <2>2, <2>3, <2>4 DEF PendingLines, Inputs
  <2>6. ServedLines' = ServedLines
    BY <1>4, <2>3 DEF ServedLines
  <2>7. Enter(47)
    BY <1>1, <2>1, MainLoop DEF Programmed
  <2>8. (Live)' = Live
    BY <1>1, <1>4, <2>7, EnterIrq DEF Live
  <2>9. QED
    BY <1>4, <2>2, <2>5, <2>6, <2>8 DEF Delivery!Withdraw, Live
<1>6. CASE i # 2
  <2>1. master' = Lose(master, i) /\ slave' = slave /\ Enter(39)
    BY <1>1, <1>2, <1>6, MainLoop DEF Programmed
  <2>2. i \in Lines /\ i \in Inputs /\ i \in master.irr
    BY <1>1, <1>2, <1>6, OfferedAreMostUrgent
  <2>3. master'.isr = {} /\ master'.irr = master.irr \ {i}
    BY <1>3, <2>1 DEF Lose, Chip
  <2>4. PendingLines' = PendingLines \ {i} /\ i \in PendingLines
    BY <1>4, <2>1, <2>2, <2>3 DEF PendingLines, Inputs
  <2>5. ServedLines' = ServedLines
    BY <1>3, <2>1, <2>3 DEF ServedLines
  <2>6. (Live)' = Live
    BY <1>1, <1>4, <2>1, EnterIrq DEF Live
  <2>7. QED
    BY <1>4, <2>2, <2>4, <2>5, <2>6 DEF Delivery!Withdraw, Live
<1>7. QED
  BY <1>5, <1>6

LEMMA FaultRefines ==
  ASSUME NEW v \in Exceptions, IInv, Fault(v)
  PROVE  UNCHANGED Delivery!dvars
<1>1. pc \in {"boot", "main"} /\ Enter(v) /\ UNCHANGED <<master, slave>>
  BY DEF Fault
<1>2. idt[v] = Gate(v)
  BY <1>1 DEF IInv, BootInv, Vectors, Byte, Exceptions
<1>3. savedIF' = IFlag /\ IFlag' = FALSE
  BY <1>1, <1>2, ExceptionNumber DEF Enter
<1>4. IFlag \in BOOLEAN /\ savedIF \in BOOLEAN /\ (savedIF => IFlag)
  BY <1>1 DEF IInv, TypeOK, FlagInv
<1>5. (Live)' = Live
  BY <1>3, <1>4 DEF Live
<1>6. QED
  BY <1>1, <1>5, MappedUnchanged

LEMMA SlaveEOIRefines == IInv /\ SlaveEOI => [Delivery!Next]_(Delivery!dvars)
<1> SUFFICES ASSUME IInv, SlaveEOI
             PROVE  Delivery!Finish \/ UNCHANGED Delivery!dvars
  BY DEF Delivery!Next
<1>1. /\ FromSlave(interrupt)
      /\ slave \in Chip
      /\ slave.isr = {interrupt - 40} \/ slave.isr = {}
      /\ master.isr = {2}
      /\ UNCHANGED <<master, IFlag, savedIF>>
  BY DEF IInv, TypeOK, DispatchInv, VectorNamesLine, SlaveEOI, Handling
<1>2. slave' = [slave EXCEPT !.isr = {}]
  BY <1>1, EOIRetires DEF SlaveEOI, FromSlave, Inputs
<1>3. slave'.isr = {} /\ slave'.irr = slave.irr
  BY <1>1, <1>2 DEF Chip
<1>4. PendingLines' = PendingLines /\ ServedLines' = {}
  BY <1>1, <1>3 DEF PendingLines, ServedLines
<1>5. QED
  BY <1>1, <1>4 DEF Delivery!Finish, Delivery!dvars

LEMMA MasterEOIRefines == IInv /\ MasterEOI => [Delivery!Next]_(Delivery!dvars)
<1> SUFFICES ASSUME IInv, MasterEOI
             PROVE  Delivery!Finish \/ UNCHANGED Delivery!dvars
  BY DEF Delivery!Next
<1>1. /\ pc = "masterEOI" /\ FromPIC(interrupt)
      /\ master \in Chip /\ slave.isr = {}
      /\ master.isr = {} \/ \E i \in Inputs : master.isr = {i}
      /\ UNCHANGED <<slave, IFlag, savedIF>>
  <2>1. /\ pc = "masterEOI" /\ FromPIC(interrupt)
        /\ master \in Chip /\ slave.isr = {}
        /\ FromSlave(interrupt) => master.isr = {2}
        /\ ~FromSlave(interrupt) => master.isr = {interrupt - 32} \/ master.isr = {}
        /\ UNCHANGED <<slave, IFlag, savedIF>>
    BY DEF IInv, TypeOK, DispatchInv, VectorNamesLine, MasterEOI, Handling
  <2>2. 2 \in Inputs
    BY DEF Inputs
  <2>3. ~FromSlave(interrupt) => interrupt - 32 \in Inputs
    BY <2>1 DEF FromPIC, FromSlave, Inputs
  <2>4. QED
    BY <2>1, <2>2, <2>3
<1>2. master' = [master EXCEPT !.isr = {}]
  BY <1>1, EOIRetires DEF MasterEOI, Inputs
<1>3. master'.isr = {} /\ master'.irr = master.irr
  BY <1>1, <1>2 DEF Chip
<1>4. PendingLines' = PendingLines /\ ServedLines' = {}
  BY <1>1, <1>3 DEF PendingLines, ServedLines
<1>5. QED
  BY <1>1, <1>4 DEF Delivery!Finish, Delivery!dvars

LEMMA IretRefines == IInv /\ Iret => UNCHANGED Delivery!dvars
<1> SUFFICES ASSUME IInv, Iret PROVE UNCHANGED Delivery!dvars
  OBVIOUS
<1>1. /\ pc = "iret" /\ IFlag' = savedIF
      /\ UNCHANGED <<master, slave, savedIF>>
  BY DEF Iret
<1>2. ~IFlag /\ savedIF \in BOOLEAN
  BY <1>1 DEF IInv, TypeOK, FlagInv
<1>3. (Live)' = Live
  BY <1>1, <1>2 DEF Live
<1>4. QED
  BY <1>1, <1>3, MappedUnchanged

LEMMA NextRefines == IInv /\ [Next]_vars => [Delivery!Next]_(Delivery!dvars)
<1> SUFFICES ASSUME IInv, [Next]_vars
             PROVE  [Delivery!Next]_(Delivery!dvars)
  OBVIOUS
<1>1. CASE BuildTables \/ LoadIDT \/ Dispatch \/ UNCHANGED vars
  <2>1. UNCHANGED <<master, slave, IFlag, savedIF>>
    BY <1>1 DEF BuildTables, LoadIDT, Dispatch, vars
  <2>2. (Live)' = Live
    BY <2>1 DEF Live
  <2>3. QED
    BY <2>1, <2>2, MappedUnchanged
<1>2. CASE ActivateInterrupts
  <2>1. (Live)' = TRUE /\ UNCHANGED <<master, slave>>
    BY <1>2 DEF ActivateInterrupts, Live
  <2>2. Delivery!Start
    BY <2>1 DEF Delivery!Start, Live, PendingLines, ServedLines
  <2>3. QED
    BY <2>2 DEF Delivery!Next
<1>3. CASE \E l \in Lines : Raise(l)
  BY <1>3, RaiseRefines DEF Delivery!Next
<1>4. CASE \E v \in Exceptions : Fault(v)
  BY <1>4, FaultRefines
<1>5. QED
  BY <1>1, <1>2, <1>3, <1>4, WritePICRefines, AcceptRefines, AcceptSpuriousRefines,
     SlaveEOIRefines, MasterEOIRefines, IretRefines DEF Next

\* The descriptor table, the stubs, HandleInterrupt and the two controllers
\* together implement the abstract delivery of requests.
THEOREM Refinement == SafeSpec => DeliversSafely
<1>1. Init => Delivery!Init
  BY InitRefines
<1>2. IInv /\ [Next]_vars => [Delivery!Next]_(Delivery!dvars)
  BY NextRefines
<1>3. QED
  BY <1>1, <1>2, Invariance, PTL DEF SafeSpec, DeliversSafely, Delivery!SafeSpec
=============================================================================
