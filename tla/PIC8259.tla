------------------------------- MODULE PIC8259 -------------------------------
(***************************************************************************)
(* One 8259A interrupt controller, as far as TeeOS programs it.            *)
(*                                                                         *)
(* The chip is hardware, not part of the repository: it is modelled from   *)
(* the bytes init_interrupt_manager and HandleInterrupt write to it        *)
(* (src/src/hardwarecommunication/interrupts.c:111-129 and :193-198).  A   *)
(* chip is one record, so the module that owns the two chips keeps them in *)
(* two variables and updates them with the operators below.                *)
(***************************************************************************)
EXTENDS Integers

Inputs == 0 .. 7

Byte == 0 .. 255

\* icw: the byte the chip expects on its data port; "ready" means OCW1 (mask).
\* base, cascade: the bytes of ICW2 and ICW3.  imr/irr/isr: masked, requested
\* and in-service inputs.
Chip == [icw     : {"ready", "ICW2", "ICW3", "ICW4"},
         base    : Byte,
         cascade : Byte,
         imr     : SUBSET Inputs,
         irr     : SUBSET Inputs,
         isr     : SUBSET Inputs]

ICW1 == 17     \* 0x11: initialise, cascaded, ICW4 follows
EOI  == 32     \* 0x20: non-specific end of interrupt

Weight == [b \in Inputs |->
             CASE b = 0 -> 1  [] b = 1 -> 2  [] b = 2 -> 4  [] b = 3 -> 8
               [] b = 4 -> 16 [] b = 5 -> 32 [] b = 6 -> 64 [] b = 7 -> 128]

BitsOf(d) == {b \in Inputs : (d \div Weight[b]) % 2 = 1}

\* The highest-priority member of a set of inputs, as a set of at most one.
Highest(S) == {i \in S : \A j \in S : i <= j}

\* A byte written to the command port.  ICW1 also resets the edge detectors;
\* a non-specific EOI retires the highest-priority input in service, if any.
Command(c, d) ==
  CASE d = ICW1 -> [c EXCEPT !.icw = "ICW2", !.imr = {}, !.irr = {}, !.isr = {}]
    [] d = EOI  -> [c EXCEPT !.isr = @ \ Highest(@)]
    [] OTHER    -> c

\* A byte written to the data port.
Data(c, d) ==
  CASE c.icw = "ICW2"  -> [c EXCEPT !.icw = "ICW3", !.base = d]
    [] c.icw = "ICW3"  -> [c EXCEPT !.icw = "ICW4", !.cascade = d]
    [] c.icw = "ICW4"  -> [c EXCEPT !.icw = "ready"]
    [] c.icw = "ready" -> [c EXCEPT !.imr = BitsOf(d)]

\* A rising edge on input i.
Request(c, i) == [c EXCEPT !.irr = @ \union {i}]

\* The inputs the chip may put through: requested, unmasked, and of higher
\* priority than everything in service.  "wired" are inputs driven from outside
\* (the slave's INT output on the master's input 2).
Offered(c, wired) ==
  {i \in (c.irr \union wired) \ c.imr : \A j \in c.isr : i < j}

\* The interrupt-acknowledge cycle for input i.
Acknowledge(c, i) == [c EXCEPT !.irr = @ \ {i}, !.isr = @ \union {i}]

\* The request on input i was gone when the acknowledge cycle came: the chip
\* answers with input 7 and puts nothing in service.
Lose(c, i) == [c EXCEPT !.irr = @ \ {i}]
=============================================================================
