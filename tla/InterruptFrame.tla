--------------------------- MODULE InterruptFrame ---------------------------
(***************************************************************************)
(* The stack of an interrupt: what the processor pushes, what the stubs    *)
(* and int_bottom of src/src/interruptstubs.s push on top, and how         *)
(* int_bottom takes it all down again.                                     *)
(*                                                                         *)
(* A machine is a record: where it executes (eip), code segment, interrupt *)
(* flag, general and data segment registers, and the stack, its top first. *)
(* A position in the stack, as esp, is the number of words below it.       *)
(***************************************************************************)
EXTENDS Integers, Sequences

GeneralRegisters == {"eax", "ecx", "edx", "ebx", "ebp", "esi", "edi"}
SegmentRegisters == {"ds", "es", "fs", "gs"}

\* Vectors for which the processor pushes an error code.
ErrorCodes == {8, 10, 11, 12, 13, 14, 17}

\* The stubs made with HandleExceptionWithErrorCode.
WithErrorCode == {8, 10, 11, 12, 13, 14, 17}

\* A gate of init_interrupt_manager: its code segment, 0x10.
CodeSegment == 16

\* What the processor pushes on the way through the gate.
Interrupted(m, v) ==
  (IF v \in ErrorCodes THEN <<0>> ELSE <<>>) \o <<m.eip, m.cs, m.iflag>>

\* What the stub of a vector pushes: the number, and a 0 in place of an error code.
Stub(v) == IF v \in WithErrorCode THEN <<v>> ELSE <<v, 0>>

\* pusha and the four segment registers.
SavedRegisters(m) ==
  << m.seg["gs"], m.seg["fs"], m.seg["es"], m.seg["ds"],
     m.gpr["edi"], m.gpr["esi"], m.gpr["ebp"], "esp",
     m.gpr["ebx"], m.gpr["edx"], m.gpr["ecx"], m.gpr["eax"] >>

Pushed(m, v) == Stub(v) \o Interrupted(m, v)

StackOnEntry(m, v) == SavedRegisters(m) \o Pushed(m, v) \o m.stack

\* Mutant: the number looked for one word too far up.
EnterOffByOne(m, v) ==
  LET saved  == StackOnEntry(m, v)
      number == saved[14]
  IN [m EXCEPT !.eip = "HandleInterrupt", !.cs = CodeSegment, !.iflag = 0,
               !.gpr["eax"] = number,
               !.stack = <<"int_bottom", number, Len(saved)>> \o saved]

\* Gate, stub and the first half of int_bottom: the number is read at 48(%esp),
\* the two arguments are pushed and HandleInterrupt is called.
Enter(m, v) ==
  LET saved  == StackOnEntry(m, v)
      number == saved[13]
  IN [m EXCEPT !.eip = "HandleInterrupt", !.cs = CodeSegment, !.iflag = 0,
               !.gpr["eax"] = number,
               !.stack = <<"int_bottom", number, Len(saved)>> \o saved]

\* The arguments of HandleInterrupt.
ArgInterrupt(m) == m.stack[2]
ArgEsp(m)       == m.stack[3]

\* HandleInterrupt returns its second argument.  A C function leaves the registers
\* that its caller has to save in any state.
ReturnEsp(m) ==
  [m EXCEPT !.eip = "int_bottom", !.stack = Tail(m.stack),
            !.gpr["eax"] = ArgEsp(m), !.gpr["ecx"] = "any", !.gpr["edx"] = "any"]

\* Mutant: the general registers in the order of the comment in int_bottom.
LeaveCommentOrder(m) ==
  LET n == Len(m.stack) - m.gpr["eax"]
      s == SubSeq(m.stack, n + 1, Len(m.stack))
  IN [eip |-> s[15], cs |-> s[16], iflag |-> s[17],
      seg |-> [ds |-> s[4], es |-> s[3], fs |-> s[2], gs |-> s[1]],
      gpr |-> [eax |-> s[5], ecx |-> s[6], edx |-> s[7], ebx |-> s[8],
               ebp |-> s[10], esi |-> s[11], edi |-> s[12]],
      stack |-> SubSeq(s, 18, Len(s))]

\* The second half of int_bottom: esp from eax, four pops, popa, eight bytes
\* dropped, iret.
Leave(m) ==
  LET n == Len(m.stack) - m.gpr["eax"]
      s == SubSeq(m.stack, n + 1, Len(m.stack))
  IN [eip |-> s[15], cs |-> s[16], iflag |-> s[17],
      seg |-> [ds |-> s[4], es |-> s[3], fs |-> s[2], gs |-> s[1]],
      gpr |-> [edi |-> s[5], esi |-> s[6], ebp |-> s[7], ebx |-> s[9],
               edx |-> s[10], ecx |-> s[11], eax |-> s[12]],
      stack |-> SubSeq(s, 18, Len(s))]
=============================================================================
