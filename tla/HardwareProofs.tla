---------------------------- MODULE HardwareProofs ---------------------------
(***************************************************************************)
(* Proofs about what the kernel does to the processor and to the adapter:  *)
(* the frame an interrupt leaves on the stack, for any machine and vector, *)
(* what the processor makes of a descriptor, for every argument, and what  *)
(* each step of vga_write_registers does to an adapter in any state.       *)
(***************************************************************************)
EXTENDS VGA, TextConsole, SegmentDescriptors, InterruptFrame,
        SequenceTheorems, TLAPS

-----------------------------------------------------------------------------
(* Interrupt frames                                                        *)

\* A processor between two instructions, its registers and stack holding words.
MachineOf(Words) == [
  eip : Words, cs : Words, iflag : Words,
  seg : [SegmentRegisters -> Words], gpr : [GeneralRegisters -> Words],
  stack : Seq(Words) ]

LEMMA ConcatAt ==
  ASSUME NEW S, NEW a \in Seq(S), NEW b \in Seq(S)
  PROVE  /\ a \o b \in Seq(S)
         /\ Len(a \o b) = Len(a) + Len(b)
         /\ \A i \in 1 .. Len(a) : (a \o b)[i] = a[i]
         /\ \A i \in Len(a) + 1 .. Len(a) + Len(b) : (a \o b)[i] = b[i - Len(a)]
  OBVIOUS

LEMMA TailOfConcat ==
  ASSUME NEW S, NEW a \in Seq(S), NEW b \in Seq(S)
  PROVE  SubSeq(a \o b, Len(a) + 1, Len(a \o b)) = b
<1> DEFINE t == SubSeq(a \o b, Len(a) + 1, Len(a \o b))
<1>1. t \in Seq(S) /\ Len(t) = Len(b)
  BY ConcatAt
<1>2. \A i \in 1 .. Len(b) : t[i] = b[i]
  BY ConcatAt
<1> HIDE DEF t
<1>3. QED
  BY <1>1, <1>2, SeqEqual DEF t

LEMMA ThreeParts ==
  ASSUME NEW S, NEW a \in Seq(S), NEW b \in Seq(S), NEW c \in Seq(S)
  PROVE  /\ a \o b \o c \in Seq(S)
         /\ Len(a \o b \o c) = Len(a) + Len(b) + Len(c)
         /\ \A i \in 1 .. Len(a) : (a \o b \o c)[i] = a[i]
         /\ \A i \in Len(a) + 1 .. Len(a) + Len(b) : (a \o b \o c)[i] = b[i - Len(a)]
         /\ SubSeq(a \o b \o c, Len(a) + Len(b) + 1, Len(a \o b \o c)) = c
<1> DEFINE f == a \o b
<1>1. f \in Seq(S) /\ Len(f) = Len(a) + Len(b)
  BY ConcatAt
<1>2. \A i \in 1 .. Len(a) : f[i] = a[i]
  BY ConcatAt
<1>3. \A i \in Len(a) + 1 .. Len(a) + Len(b) : f[i] = b[i - Len(a)]
  BY ConcatAt
<1> HIDE DEF f
<1>4. f \o c \in Seq(S) /\ Len(f \o c) = Len(f) + Len(c)
  BY <1>1, ConcatAt
<1>5. \A i \in 1 .. Len(f) : (f \o c)[i] = f[i]
  BY <1>1, ConcatAt
<1>6. SubSeq(f \o c, Len(f) + 1, Len(f \o c)) = c
  BY <1>1, TailOfConcat
<1>7. \A i \in 1 .. Len(a) : (f \o c)[i] = a[i]
  BY <1>1, <1>2, <1>5
<1>8. \A i \in Len(a) + 1 .. Len(a) + Len(b) : (f \o c)[i] = b[i - Len(a)]
  BY <1>1, <1>3, <1>5
<1>9. QED
  BY <1>1, <1>4, <1>6, <1>7, <1>8 DEF f

LEMMA SavedType ==
  ASSUME NEW Words, 0 \in Words, "esp" \in Words, NEW m \in MachineOf(Words)
  PROVE  SavedRegisters(m) \in Seq(Words) /\ 12 = Len(SavedRegisters(m))
  BY DEF SavedRegisters, MachineOf, SegmentRegisters, GeneralRegisters

LEMMA PushedByStub ==
  ASSUME NEW Words, 0 \in Words, "esp" \in Words, NEW m \in MachineOf(Words), NEW v \in Words
  PROVE  /\ Pushed(m, v) \in Seq(Words) /\ 5 = Len(Pushed(m, v))
         /\ Pushed(m, v)[1] = v /\ Pushed(m, v)[3] = m.eip
         /\ Pushed(m, v)[4] = m.cs /\ Pushed(m, v)[5] = m.iflag
<1> DEFINE i == <<m.eip, m.cs, m.iflag>>
<1>1. i \in Seq(Words) /\ 3 = Len(i)
  BY DEF MachineOf
<1>2. CASE v \in ErrorCodes
  <2>1. Stub(v) = <<v>>
    BY <1>2 DEF Stub, ErrorCodes, WithErrorCode
  <2>2. Interrupted(m, v) = <<0>> \o i
    BY <1>2 DEF Interrupted
  <2>3. QED
    BY <1>1, <2>1, <2>2 DEF Pushed
<1>3. CASE v \notin ErrorCodes
  <2>1. Stub(v) = <<v, 0>>
    BY <1>3 DEF Stub, ErrorCodes, WithErrorCode
  <2>2. Interrupted(m, v) = i
    BY <1>3, <1>1 DEF Interrupted
  <2>3. QED
    BY <1>1, <2>1, <2>2 DEF Pushed
<1>4. QED
  BY <1>2, <1>3

LEMMA OnEntry ==
  ASSUME NEW Words, 0 \in Words, "esp" \in Words, NEW m \in MachineOf(Words), NEW v \in Words
  PROVE  LET s == StackOnEntry(m, v) IN
         /\ s \in Seq(Words) /\ 17 + Len(m.stack) = Len(s)
         /\ \A i \in 1 .. 12 : s[i] = SavedRegisters(m)[i]
         /\ s[13] = v /\ s[15] = m.eip /\ s[16] = m.cs /\ s[17] = m.iflag
         /\ SubSeq(s, 18, Len(s)) = m.stack
<1> DEFINE r == SavedRegisters(m)
           p == Pushed(m, v)
           s == StackOnEntry(m, v)
           k == Len(r)
           l == Len(p)
           n == Len(s)
<1>1. r \in Seq(Words) /\ p \in Seq(Words) /\ m.stack \in Seq(Words)
  BY SavedType, PushedByStub DEF MachineOf
<1>2. k = 12 /\ l = 5
  BY SavedType, PushedByStub
<1>3. p[1] = v /\ p[3] = m.eip /\ p[4] = m.cs /\ p[5] = m.iflag
  BY PushedByStub
<1>4. s = r \o p \o m.stack
  BY DEF StackOnEntry
<1> HIDE DEF r, p, s
<1>5. /\ s \in Seq(Words)
      /\ n = k + l + Len(m.stack)
      /\ \A i \in 1 .. k : s[i] = r[i]
      /\ \A i \in k + 1 .. k + l : s[i] = p[i - k]
      /\ SubSeq(s, k + l + 1, n) = m.stack
  <2> DEFINE c == m.stack
  <2>1. c \in Seq(Words) /\ s = r \o p \o c
    BY <1>1, <1>4
  <2> HIDE DEF c
  <2>2. s \in Seq(Words) /\ n = k + l + Len(c)
    BY <1>1, <2>1, ThreeParts
  <2>3. \A i \in 1 .. k : s[i] = r[i]
    BY <1>1, <2>1, ThreeParts
  <2>4. \A i \in k + 1 .. k + l : s[i] = p[i - k]
    BY <1>1, <2>1, ThreeParts
  <2>5. SubSeq(s, k + l + 1, n) = c
    BY <1>1, <2>1, ThreeParts
  <2>6. QED
    BY <2>2, <2>3, <2>4, <2>5 DEF c
<1> HIDE DEF k, l, n
<1>6. \A i \in 13 .. 17 : s[i] = p[i - 12]
  <2>1. \A i \in k + 1 .. k + l : s[i] = p[i - k]
    BY <1>5
  <2>2. k + 1 = 13 /\ k + l = 17
    BY <1>2
  <2>3. \A i \in 13 .. 17 : s[i] = p[i - k]
    BY <2>1, <2>2, Zenon
  <2>4. QED
    BY <1>2, <2>3, Zenon
<1>7. s[13] = v /\ s[15] = m.eip /\ s[16] = m.cs /\ s[17] = m.iflag
  BY <1>3, <1>6
<1>8. \A i \in 1 .. 12 : s[i] = r[i]
  BY <1>2, <1>5
<1>9. 17 + Len(m.stack) = n
  BY <1>2, <1>5
<1>10. SubSeq(s, 18, n) = m.stack
  BY <1>2, <1>5
<1>11. QED
  BY <1>5, <1>7, <1>8, <1>9, <1>10 DEF r, s, n

\* The stack while HandleInterrupt runs, and when it has returned.
LEMMA OnCall ==
  ASSUME NEW Words, 0 \in Words, "esp" \in Words, NEW m \in MachineOf(Words), NEW v \in Words
  PROVE  /\ ArgInterrupt(Enter(m, v)) = v
         /\ ArgEsp(Enter(m, v)) = Len(StackOnEntry(m, v))
         /\ Tail(Enter(m, v).stack) = <<v, Len(StackOnEntry(m, v))>> \o StackOnEntry(m, v)
<1> DEFINE s == StackOnEntry(m, v)
<1>1. s \in Seq(Words) /\ s[13] = v /\ Len(s) \in Nat
  BY OnEntry
<1>2. Enter(m, v).stack = <<"int_bottom", v, Len(s)>> \o s
  BY <1>1 DEF Enter, MachineOf
<1> HIDE DEF s
<1> DEFINE W == Words \union {"int_bottom", v, Len(s)}
           h == <<"int_bottom", v, Len(s)>>
<1>3. s \in Seq(W) /\ h \in Seq(W) /\ 3 = Len(h)
  BY <1>1
<1>4. /\ Enter(m, v).stack[2] = v /\ Enter(m, v).stack[3] = Len(s)
  BY <1>2, <1>3
<1>5. Tail(Enter(m, v).stack) = <<v, Len(s)>> \o s
  BY <1>2, <1>3
<1>6. QED
  BY <1>4, <1>5 DEF ArgInterrupt, ArgEsp, s

\* int_bottom undoes, for every vector, what gate, stub and its own first half did to
\* the machine: each register has its value again, and the stack its height.
THEOREM FrameRoundTrip ==
  ASSUME NEW Words, 0 \in Words, "esp" \in Words, NEW m \in MachineOf(Words), NEW v \in Words
  PROVE  Leave(ReturnEsp(Enter(m, v))) = m
<1> DEFINE s == StackOnEntry(m, v)
           e == ReturnEsp(Enter(m, v))
           n == Len(e.stack) - e.gpr["eax"]
<1>1. s \in Seq(Words) /\ Len(s) \in Nat
  BY OnEntry
<1>2. e.stack = <<v, Len(s)>> \o s /\ e.gpr["eax"] = Len(s)
  <2> DEFINE c == Enter(m, v)
  <2>1. Tail(c.stack) = <<v, Len(s)>> \o s /\ ArgEsp(c) = Len(s)
    BY OnCall
  <2>2. "eax" \in DOMAIN c.gpr
    BY DEF Enter, MachineOf, GeneralRegisters
  <2>3. "stack" \in DOMAIN c /\ "gpr" \in DOMAIN c
    BY DEF Enter, MachineOf
  <2> HIDE DEF c, s
  <2>4. ReturnEsp(c).stack = Tail(c.stack) /\ ReturnEsp(c).gpr["eax"] = ArgEsp(c)
    BY <2>2, <2>3 DEF ReturnEsp
  <2>5. QED
    BY <2>1, <2>4 DEF c
<1>3. n = 2 /\ SubSeq(e.stack, n + 1, Len(e.stack)) = s
  <2> DEFINE W == Words \union {v, Len(s)}
  <2> HIDE DEF s, e
  <2>1. s \in Seq(W) /\ <<v, Len(s)>> \in Seq(W)
    BY <1>1
  <2>2. Len(s) + 2 = Len(e.stack) /\ n = 2
    BY <1>1, <1>2, <2>1
  <2>3. SubSeq(e.stack, 3, Len(e.stack)) = s
    BY <1>2, <2>1, <2>2
  <2>4. QED
    BY <2>2, <2>3
<1>4. Leave(e) =
        [eip |-> m.eip, cs |-> m.cs, iflag |-> m.iflag,
         seg |-> [ds |-> s[4], es |-> s[3], fs |-> s[2], gs |-> s[1]],
         gpr |-> [edi |-> s[5], esi |-> s[6], ebp |-> s[7], ebx |-> s[9],
                  edx |-> s[10], ecx |-> s[11], eax |-> s[12]],
         stack |-> m.stack]
  <2>1. s[15] = m.eip /\ s[16] = m.cs /\ s[17] = m.iflag /\ SubSeq(s, 18, Len(s)) = m.stack
    BY OnEntry
  <2> HIDE DEF s, e, n
  <2>2. QED
    BY <1>3, <2>1 DEF Leave, n
<1>5. [ds |-> s[4], es |-> s[3], fs |-> s[2], gs |-> s[1]] = m.seg
  <2>1. s[1] = m.seg["gs"] /\ s[2] = m.seg["fs"] /\ s[3] = m.seg["es"] /\ s[4] = m.seg["ds"]
    BY OnEntry DEF SavedRegisters
  <2>2. m.seg \in [SegmentRegisters -> Words]
    BY DEF MachineOf
  <2> HIDE DEF s
  <2>3. QED
    BY <2>1, <2>2 DEF SegmentRegisters
<1>6. [edi |-> s[5], esi |-> s[6], ebp |-> s[7], ebx |-> s[9],
       edx |-> s[10], ecx |-> s[11], eax |-> s[12]] = m.gpr
  <2>1. /\ s[5] = m.gpr["edi"] /\ s[6] = m.gpr["esi"] /\ s[7] = m.gpr["ebp"]
        /\ s[9] = m.gpr["ebx"] /\ s[10] = m.gpr["edx"]
        /\ s[11] = m.gpr["ecx"] /\ s[12] = m.gpr["eax"]
    BY OnEntry DEF SavedRegisters
  <2>2. m.gpr \in [GeneralRegisters -> Words]
    BY DEF MachineOf
  <2> HIDE DEF s
  <2>3. QED
    BY <2>1, <2>2 DEF GeneralRegisters
<1>7. m = [eip |-> m.eip, cs |-> m.cs, iflag |-> m.iflag, seg |-> m.seg,
           gpr |-> m.gpr, stack |-> m.stack]
  BY DEF MachineOf
<1>8. QED
  BY <1>4, <1>5, <1>6, <1>7

\* A machine that was interrupted is a machine, and so is one whose handler returned.
LEMMA EnterType ==
  ASSUME NEW Words, NEW m \in MachineOf(Words), NEW v \in Words,
         Nat \subseteq Words, 0 \in Words, 16 \in Words, "esp" \in Words,
         "HandleInterrupt" \in Words, "int_bottom" \in Words
  PROVE  /\ Enter(m, v) \in MachineOf(Words)
         /\ Enter(m, v).eip = "HandleInterrupt" /\ Enter(m, v).cs = 16
         /\ Enter(m, v).iflag = 0 /\ Enter(m, v).seg = m.seg
<1> DEFINE s == StackOnEntry(m, v)
           h == <<"int_bottom", v, Len(s)>>
<1>1. s \in Seq(Words) /\ s[13] = v /\ Len(s) \in Words
  <2>1. s \in Seq(Words) /\ s[13] = v
    BY OnEntry
  <2> HIDE DEF s
  <2>2. Len(s) \in Nat
    BY <2>1
  <2>3. QED
    BY <2>1, <2>2
<1>2. h \in Seq(Words)
  BY <1>1
<1>3. h \o s \in Seq(Words)
  BY <1>1, <1>2, ConcatAt
<1>4. Enter(m, v) = [m EXCEPT !.eip = "HandleInterrupt", !.cs = 16, !.iflag = 0,
                              !.gpr["eax"] = v, !.stack = h \o s]
  BY <1>1 DEF Enter, CodeSegment
<1> DEFINE t == h \o s
           e == Enter(m, v)
<1>5. t \in Seq(Words) /\ 0 \in Words /\ 16 \in Words /\ "HandleInterrupt" \in Words
  BY <1>3
<1>6. e = [m EXCEPT !.eip = "HandleInterrupt", !.cs = 16, !.iflag = 0,
                    !.gpr["eax"] = v, !.stack = t]
  BY <1>4
<1> HIDE DEF s, h, t, e
<1>7. e \in MachineOf(Words)
  BY <1>5, <1>6 DEF MachineOf
<1>8. e.eip = "HandleInterrupt" /\ e.cs = 16 /\ e.iflag = 0 /\ e.seg = m.seg
  BY <1>5, <1>6 DEF MachineOf
<1>9. QED
  BY <1>7, <1>8 DEF e

LEMMA ReturnType ==
  ASSUME NEW Words, NEW m \in MachineOf(Words), NEW v \in Words,
         Nat \subseteq Words, 0 \in Words, 16 \in Words, "esp" \in Words, "any" \in Words,
         "HandleInterrupt" \in Words, "int_bottom" \in Words
  PROVE  /\ ReturnEsp(Enter(m, v)) \in MachineOf(Words)
         /\ ReturnEsp(Enter(m, v)).eip = "int_bottom" /\ ReturnEsp(Enter(m, v)).cs = 16
         /\ ReturnEsp(Enter(m, v)).iflag = 0 /\ ReturnEsp(Enter(m, v)).seg = m.seg
<1> DEFINE e == Enter(m, v)
           s == StackOnEntry(m, v)
           h == <<v, Len(s)>>
<1>1. /\ e \in MachineOf(Words) /\ e.cs = 16 /\ e.iflag = 0 /\ e.seg = m.seg
  BY EnterType
<1>2. s \in Seq(Words) /\ Len(s) \in Words
  <2>1. s \in Seq(Words)
    BY OnEntry
  <2> HIDE DEF s
  <2>2. Len(s) \in Nat
    BY <2>1
  <2>3. QED
    BY <2>1, <2>2
<1>3. ArgEsp(e) = Len(s) /\ Tail(e.stack) = h \o s
  BY OnCall
<1>4. h \in Seq(Words)
  BY <1>2
<1>5. h \o s \in Seq(Words)
  BY <1>2, <1>4, ConcatAt
<1> DEFINE t == h \o s
           n == Len(s)
           r == ReturnEsp(e)
<1>6. t \in Seq(Words) /\ n \in Words /\ "any" \in Words /\ "int_bottom" \in Words
  BY <1>2, <1>5
<1>7. r = [e EXCEPT !.eip = "int_bottom", !.stack = t,
                    !.gpr["eax"] = n, !.gpr["ecx"] = "any", !.gpr["edx"] = "any"]
  BY <1>3 DEF ReturnEsp
<1> HIDE DEF e, s, h, t, n, r
<1>8. r \in MachineOf(Words)
  BY <1>1, <1>6, <1>7 DEF MachineOf
<1>9. r.eip = "int_bottom" /\ r.cs = 16 /\ r.iflag = 0 /\ r.seg = m.seg
  BY <1>1, <1>6, <1>7 DEF MachineOf
<1>10. QED
  BY <1>8, <1>9 DEF e, r

-----------------------------------------------------------------------------
(* Segment descriptors                                                     *)

\* The limit a descriptor can express: exact below 64 KiB and for whole pages,
\* the whole pages below it otherwise.
Expressed(limit) ==
  IF limit.pages < 16 \/ limit.rest = 4095 THEN limit
  ELSE [pages |-> limit.pages - 1, rest |-> 4095]

LEMMA LastPageBounds == LastPage \in Nat /\ LastPage <= 1048575 /\ LastPage >= 1048575
  BY DEF LastPage

\* Twenty bits, taken apart and put together.
LEMMA TwentyBits ==
  ASSUME NEW n \in 0 .. LastPage
  PROVE  /\ n % 256 \in Byte /\ (n \div 256) % 256 \in Byte
         /\ (n \div 65536) % 16 = n \div 65536 /\ n \div 65536 \in 0 .. 15
         /\ 65536 * (n \div 65536) + 256 * ((n \div 256) % 256) + (n % 256) = n
<1> DEFINE q == n \div 256
<1>1. n = 256 * q + (n % 256) /\ n % 256 \in 0 .. 255 /\ q \in 0 .. 4095
  BY LastPageBounds
<1>2. q = 256 * (q \div 256) + (q % 256) /\ q % 256 \in 0 .. 255 /\ q \div 256 \in 0 .. 15
  BY <1>1
<1>3. n \div 65536 = q \div 256
  BY <1>1, <1>2
<1>4. QED
  BY <1>1, <1>2, <1>3 DEF Byte

\* The field of the limit, and its unit.
LEMMA LimitField ==
  ASSUME NEW base, NEW limit \in SegmentLimit, NEW type,
         NEW field \in 0 .. LastPage, NEW unit \in {64, 192},
         field = IF limit.pages < 16 THEN 4096 * limit.pages + limit.rest ELSE PagesField(limit),
         unit = IF limit.pages < 16 THEN 64 ELSE 192
  PROVE  LET d == set_segment_descriptor(base, limit, type) IN
         /\ d[0] \in Byte /\ d[1] \in Byte /\ d[6] \in Byte
         /\ d[6] >= 128 <=> unit = 192
         /\ get_segment_limit(d) = field
<1> DEFINE d == set_segment_descriptor(base, limit, type)
<1>1. d[0] = field % 256 /\ d[1] = (field \div 256) % 256
      /\ d[6] = unit + ((field \div 65536) % 16)
  BY DEF set_segment_descriptor
<1> HIDE DEF d
<1>2. /\ d[0] \in Byte /\ d[1] \in Byte /\ field \div 65536 \in 0 .. 15
      /\ d[6] = unit + field \div 65536
      /\ 65536 * (field \div 65536) + 256 * d[1] + d[0] = field
  BY <1>1, TwentyBits
<1>3. d[6] \in Byte /\ d[6] % 16 = field \div 65536 /\ (d[6] >= 128 <=> unit = 192)
  <2>1. ASSUME NEW q \in 0 .. 15 PROVE (64 + q) % 16 = q /\ (192 + q) % 16 = q
    OBVIOUS
  <2>2. \A q \in 0 .. 15 : /\ (unit + q) % 16 = q /\ unit + q \in Byte
                           /\ (unit + q >= 128 <=> unit = 192)
    BY <2>1 DEF Byte
  <2>3. QED
    BY <1>2, <2>2
<1>4. get_segment_limit(d) = field
  BY <1>2, <1>3 DEF get_segment_limit
<1>5. QED
  BY <1>2, <1>3, <1>4 DEF d

\* Whatever the base and the limit, the processor reads the base back from a
\* descriptor, its type, and the limit, as far as one can be expressed; but
\* get_segment_base gives only the two low bytes of the base.
THEOREM DescriptorEncodes ==
  ASSUME NEW base \in SegmentBase, NEW limit \in SegmentLimit, NEW type \in Byte
  PROVE  LET d == set_segment_descriptor(base, limit, type) IN
         /\ d \in SegmentDescriptor
         /\ EffectiveBase(d) = base /\ d[5] = type
         /\ EffectiveLimit(d) = Expressed(limit)
         /\ get_segment_base(d) = 256 * base[1] + base[0]
<1> DEFINE d == set_segment_descriptor(base, limit, type)
           small == limit.pages < 16
           field == IF small THEN 4096 * limit.pages + limit.rest ELSE PagesField(limit)
           unit == IF small THEN 64 ELSE 192
<1>1. limit = [pages |-> limit.pages, rest |-> limit.rest]
  BY DEF SegmentLimit
<1>2. limit.pages \in 0 .. LastPage /\ limit.rest \in 0 .. 4095
  BY DEF SegmentLimit
<1>3. /\ small => field = 4096 * limit.pages + limit.rest /\ unit = 64
      /\ ~small => field = PagesField(limit) /\ unit = 192
  OBVIOUS
<1> HIDE DEF field, unit
<1>4. LastPage \in Nat /\ LastPage >= 100000
  BY LastPageBounds, SMT
<1>5. field \in 0 .. LastPage
  <2>1. CASE small
    <3> DEFINE p == limit.pages
               r == limit.rest
    <3>1. p \in 0 .. 15 /\ r \in 0 .. 4095 /\ field = 4096 * p + r
      BY <1>2, <1>3, <1>4, <2>1
    <3> HIDE DEF p, r
    <3>2. QED
      BY <1>4, <3>1
  <2>2. CASE ~small
    BY <1>2, <1>3, <1>4, <2>2 DEF PagesField
  <2>3. QED
    BY <2>1, <2>2
<1>6. /\ d[0] \in Byte /\ d[1] \in Byte /\ d[6] \in Byte
      /\ d[6] >= 128 <=> ~small
      /\ get_segment_limit(d) = field
  BY <1>3, <1>5, LimitField DEF field, unit
<1>7. /\ d[2] = base[0] /\ d[3] = base[1] /\ d[4] = base[2] /\ d[7] = base[3] /\ d[5] = type
      /\ DOMAIN d = 0 .. 7 /\ d = [b \in 0 .. 7 |-> d[b]]
  BY DEF set_segment_descriptor
<1>8. base = [i \in 0 .. 3 |-> base[i]] /\ \A i \in 0 .. 3 : base[i] \in Byte
  BY DEF SegmentBase
<1> HIDE DEF d
<1>9. d \in SegmentDescriptor
  <2>1. \A b \in 0 .. 7 : b \in {0, 1, 2, 3, 4, 5, 6, 7}
    OBVIOUS
  <2>2. \A b \in 0 .. 7 : d[b] \in Byte
    BY <1>6, <1>7, <1>8, <2>1
  <2>3. QED
    BY <1>7, <2>2 DEF SegmentDescriptor
<1>10. EffectiveBase(d) = base
  <2>1. \A i \in 0 .. 3 : (IF i = 3 THEN d[7] ELSE d[i + 2]) = base[i]
    BY <1>7
  <2>2. QED
    BY <1>8, <2>1 DEF EffectiveBase
<1>11. EffectiveLimit(d) = Expressed(limit)
  <2>1. CASE small
    <3>1. field = 4096 * limit.pages + limit.rest /\ ~(d[6] >= 128)
      BY <1>3, <1>6, <2>1
    <3>2. field \div 4096 = limit.pages /\ field % 4096 = limit.rest
      <4> DEFINE p == limit.pages
                 r == limit.rest
      <4>1. p \in 0 .. 15 /\ r \in 0 .. 4095 /\ field = 4096 * p + r
        BY <1>2, <1>4, <2>1, <3>1
      <4> HIDE DEF p, r
      <4>2. field \div 4096 = p /\ field % 4096 = r
        BY <4>1
      <4>3. QED
        BY <4>2 DEF p, r
    <3>3. QED
      BY <1>1, <1>6, <2>1, <3>1, <3>2 DEF EffectiveLimit, Expressed
  <2>2. CASE ~small
    <3>1. field = PagesField(limit) /\ d[6] >= 128
      BY <1>3, <1>6, <2>2
    <3>2. QED
      BY <1>1, <1>2, <1>6, <2>2, <3>1 DEF EffectiveLimit, Expressed, PagesField
  <2>3. QED
    BY <2>1, <2>2
<1>12. get_segment_base(d) = 256 * base[1] + base[0]
  BY <1>7 DEF get_segment_base
<1>13. QED
  BY <1>7, <1>9, <1>10, <1>11, <1>12 DEF d

\* The two selectors name flat segments, one of code and one of data.
LEMMA KernelSegments ==
  ASSUME NEW table, table = GlobalDescriptorTable
  PROVE  /\ table \in Seq(SegmentDescriptor)
         /\ Selects(table, 16) /\ IsCode(Selected(table, 16)) /\ Flat(Selected(table, 16))
         /\ Selects(table, 24) /\ IsData(Selected(table, 24)) /\ Flat(Selected(table, 24))
<1> DEFINE null == set_segment_descriptor(ZeroBase, ZeroLimit, 0)
           code == set_segment_descriptor(ZeroBase, MaxLimit, 154)
           data == set_segment_descriptor(ZeroBase, MaxLimit, 146)
<1>1. ZeroBase \in SegmentBase /\ ZeroLimit \in SegmentLimit /\ MaxLimit \in SegmentLimit
      /\ 0 \in Byte /\ 154 \in Byte /\ 146 \in Byte
  BY LastPageBounds DEF ZeroBase, SegmentBase, ZeroLimit, MaxLimit, SegmentLimit, Byte
<1>2. Expressed(MaxLimit) = MaxLimit
  BY DEF Expressed, MaxLimit
<1>3. null \in SegmentDescriptor
  BY <1>1, DescriptorEncodes
<1>4. code \in SegmentDescriptor /\ EffectiveBase(code) = ZeroBase /\ code[5] = 154
      /\ EffectiveLimit(code) = MaxLimit
  BY <1>1, <1>2, DescriptorEncodes
<1>5. data \in SegmentDescriptor /\ EffectiveBase(data) = ZeroBase /\ data[5] = 146
      /\ EffectiveLimit(data) = MaxLimit
  BY <1>1, <1>2, DescriptorEncodes
<1>6. table = <<null, null, code, data>>
  BY DEF GlobalDescriptorTable
<1> HIDE DEF null, code, data
<1>7. table \in Seq(SegmentDescriptor) /\ Len(table) = 4 /\ table[3] = code /\ table[4] = data
  BY <1>3, <1>4, <1>5, <1>6
<1>8. 16 \div 8 + 1 = 3 /\ 24 \div 8 + 1 = 4
  OBVIOUS
<1>9. Selected(table, 16) = code /\ Selected(table, 24) = data
      /\ Selects(table, 16) /\ Selects(table, 24)
  BY <1>7, <1>8 DEF Selected, Selects
<1>10. IsCode(code) /\ Flat(code)
  <2>1. (154 \div 8) % 4 = 3 /\ 154 >= 128
    OBVIOUS
  <2>2. QED
    BY <1>4, <2>1 DEF IsCode, Flat, Present
<1>11. IsData(data) /\ Flat(data)
  <2>1. (146 \div 8) % 4 = 2 /\ (146 \div 2) % 2 = 1 /\ 146 >= 128
    OBVIOUS
  <2>2. QED
    BY <1>5, <2>1 DEF IsData, Flat, Present
<1>12. QED
  BY <1>7, <1>9, <1>10, <1>11

-----------------------------------------------------------------------------
(* The adapter                                                             *)

LEMMA PortNumbers ==
  /\ vga.miscPort.portnumber = 962
  /\ vga.crtcIndexPort.portnumber = 980 /\ vga.crtcDataPort.portnumber = 981
  /\ vga.sequencerIndexPort.portnumber = 964 /\ vga.sequencerDataPort.portnumber = 965
  /\ vga.graphicsControllerIndexPort.portnumber = 974
  /\ vga.graphicsControllerDataPort.portnumber = 975
  /\ vga.attributeControllerIndexPort.portnumber = 960
  /\ vga.attributeControllerWritePort.portnumber = 960
  /\ vga.attributeControllerResetPort.portnumber = 986
  /\ Port8Bit(980).portnumber = 980 /\ Port8Bit(981).portnumber = 981
  BY DEF vga, Port8Bit

LEMMA TableTypes ==
  /\ MISC \in Byte /\ SEQ \in [0 .. 4 -> Byte] /\ CRTC \in [0 .. 24 -> Byte]
  /\ GC \in [0 .. 8 -> Byte] /\ AC \in [0 .. 20 -> Byte]
<1>1. SEQ \in [0 .. 4 -> Byte]
  BY DEF SEQ, Byte
<1>2. GC \in [0 .. 8 -> Byte]
  BY DEF GC, Byte
<1>3. AC \in [0 .. 20 -> Byte]
  BY DEF AC, Byte
<1>4. CRTC \in [0 .. 24 -> Byte]
  BY DEF CRTC, Byte
<1>5. QED
  BY <1>1, <1>2, <1>3, <1>4 DEF MISC, Byte

\* vga_write_registers changes nothing in the array: the bits are there already.
LEMMA CRTCUnchanged == CRTCValues = CRTC
<1>1. CRTC[3] = 130 /\ CRTC[17] = 14
  BY DEF CRTC
<1>2. QED
  BY <1>1, TableTypes DEF CRTCValues, SetBit7, ClearBit7

LEMMA MiscWritten ==
  ASSUME NEW c \in Card
  PROVE  WriteMisc(c) = [c EXCEPT !.misc = MISC]
  BY PortNumbers DEF WriteMisc, Write

\* The branch of each port.
LEMMA PortWritten ==
  ASSUME NEW c, NEW p, NEW v
  PROVE  /\ p.portnumber = 964 => Write(c, p, v) = [c EXCEPT !.seqIndex = v]
         /\ p.portnumber = 965 => Write(c, p, v) = [c EXCEPT !.seq[c.seqIndex] = v]
         /\ p.portnumber = 980 => Write(c, p, v) = [c EXCEPT !.crtcIndex = v]
         /\ p.portnumber = 981 => Write(c, p, v) = WriteCRTCData(c, v)
         /\ p.portnumber = 974 => Write(c, p, v) = [c EXCEPT !.gcIndex = v]
         /\ p.portnumber = 975 => Write(c, p, v) = [c EXCEPT !.gc[c.gcIndex] = v]
         /\ p.portnumber = 960 => Write(c, p, v) = WriteAttributePort(c, v)
  BY DEF Write

LEMMA SequencerWritten ==
  ASSUME NEW c \in Card, NEW i \in 0 .. 4
  PROVE  WriteSequencer(c, i) = [c EXCEPT !.seqIndex = i, !.seq[i] = SEQ[i]]
<1> DEFINE d == Write(c, vga.sequencerIndexPort, i)
<1>1. d = [c EXCEPT !.seqIndex = i]
  BY PortNumbers, PortWritten
<1>2. WriteSequencer(c, i) = [d EXCEPT !.seq[d.seqIndex] = SEQ[i]]
  BY PortNumbers, PortWritten DEF WriteSequencer, WriteIndexed
<1> HIDE DEF d
<1>3. QED
  BY <1>1, <1>2 DEF Card

LEMMA GraphicsControllerWritten ==
  ASSUME NEW c \in Card, NEW i \in 0 .. 8
  PROVE  WriteGraphicsController(c, i) = [c EXCEPT !.gcIndex = i, !.gc[i] = GC[i]]
<1> DEFINE d == Write(c, vga.graphicsControllerIndexPort, i)
<1>1. d = [c EXCEPT !.gcIndex = i]
  BY PortNumbers, PortWritten
<1>2. WriteGraphicsController(c, i) = [d EXCEPT !.gc[d.gcIndex] = GC[i]]
  BY PortNumbers, PortWritten DEF WriteGraphicsController, WriteIndexed
<1> HIDE DEF d
<1>3. QED
  BY <1>1, <1>2 DEF Card

\* Whatever the attribute port was waiting for, the read of the status port comes first.
LEMMA AttributeControllerWritten ==
  ASSUME NEW c \in Card, NEW i \in 0 .. 20
  PROVE  WriteAttributeController(c, i) =
           [c EXCEPT !.acIndex = i, !.ac[i] = AC[i], !.acValue = FALSE, !.video = FALSE]
<1> DEFINE r == ReadStatus(c, vga.attributeControllerResetPort)
           d == Write(r, vga.attributeControllerIndexPort, i)
<1>1. r = [c EXCEPT !.acValue = FALSE]
  BY PortNumbers DEF ReadStatus
<1>2. d = WriteAttributePort(r, i)
  BY PortNumbers, PortWritten
<1>3. WriteAttributeController(c, i) = WriteAttributePort(d, AC[i])
  BY PortNumbers, PortWritten DEF WriteAttributeController, WriteIndexed
<1> HIDE DEF r, d
<1>4. ~r.acValue
  BY <1>1 DEF Card
<1>5. i % 32 = i /\ ((i \div 32) % 2 = 1) = FALSE
  OBVIOUS
<1>6. d = [r EXCEPT !.acIndex = i, !.video = FALSE, !.acValue = TRUE]
  BY <1>2, <1>4, <1>5 DEF WriteAttributePort
<1>7. d = [c EXCEPT !.acIndex = i, !.video = FALSE, !.acValue = TRUE]
  BY <1>1, <1>6 DEF Card
<1>8. d.acValue /\ d.acIndex = i
  BY <1>7 DEF Card
<1>9. WriteAttributePort(d, AC[i]) = [d EXCEPT !.ac[i] = AC[i], !.acValue = FALSE]
  BY <1>8 DEF WriteAttributePort
<1>10. QED
  BY <1>3, <1>7, <1>9 DEF Card

LEMMA VideoEnabled ==
  ASSUME NEW c \in Card
  PROVE  EnableVideo(c) = [c EXCEPT !.acIndex = 0, !.acValue = TRUE, !.video = TRUE]
<1> DEFINE r == ReadStatus(c, vga.attributeControllerResetPort)
<1>1. r = [c EXCEPT !.acValue = FALSE]
  BY PortNumbers DEF ReadStatus
<1>2. EnableVideo(c) = WriteAttributePort(r, 32)
  BY PortNumbers, PortWritten DEF EnableVideo
<1> HIDE DEF r
<1>3. ~r.acValue
  BY <1>1 DEF Card
<1>4. WriteAttributePort(r, 32) = [r EXCEPT !.acIndex = 0, !.video = TRUE, !.acValue = TRUE]
  <2>1. 32 % 32 = 0 /\ ((32 \div 32) % 2 = 1) = TRUE
    OBVIOUS
  <2>2. QED
    BY <1>3, <2>1 DEF WriteAttributePort
<1>5. QED
  BY <1>1, <1>2, <1>4 DEF Card

LEMMA SmallBytes == \A i \in 0 .. 31 : i \in Byte
  BY DEF Byte

LEMMA BitCleared == \A v \in Byte : SetBit7(v) \in Byte /\ ClearBit7(v) \in 0 .. 127
  BY DEF Byte, SetBit7, ClearBit7

\* The adapter after a register of the CRT controller has been written.
WithCRTC(c, i, v) == [c EXCEPT !.crtcIndex = i, !.crtc[i] = v]

\* An unlocked CRT controller takes every register, a locked one those from 8 on.
LEMMA CRTCDataWritten ==
  ASSUME NEW c \in Card, NEW i \in 0 .. 24, NEW v \in Byte,
         Locked(c) => i >= 8
  PROVE  Write(Write(c, Port8Bit(980), i), Port8Bit(981), v) =
           WithCRTC(c, i, v)
<1> DEFINE d == Port8Bit(981)
           w == Write(c, Port8Bit(980), i)
<1>1. w = [c EXCEPT !.crtcIndex = i]
  BY PortNumbers, PortWritten
<1>2. Write(w, d, v) = WriteCRTCData(w, v)
  BY PortNumbers, PortWritten
<1> HIDE DEF w
<1>3. w.crtcIndex = i /\ w.crtc = c.crtc
  BY <1>1 DEF Card
<1>4. ~(Locked(w) /\ w.crtcIndex < 8)
  BY <1>3 DEF Locked
<1>5. Write(w, d, v) = [w EXCEPT !.crtc[i] = v]
  BY <1>2, <1>3, <1>4 DEF WriteCRTCData
<1>6. Write(w, d, v) = WithCRTC(c, i, v)
  BY <1>1, <1>5 DEF Card, WithCRTC
<1>7. QED
  BY <1>6 DEF w

LEMMA CRTCWritten ==
  ASSUME NEW c \in Card, NEW i \in 0 .. 24, ~Locked(c)
  PROVE  WriteCRTC(c, i) = WithCRTC(c, i, CRTC[i])
<1>1. CRTC[i] \in Byte /\ CRTCValues[i] = CRTC[i]
  BY TableTypes, CRTCUnchanged
<1>2. vga.crtcIndexPort = Port8Bit(980) /\ vga.crtcDataPort = Port8Bit(981)
  BY DEF vga
<1>3. WriteCRTC(c, i) = Write(Write(c, Port8Bit(980), i), Port8Bit(981), CRTC[i])
  BY <1>1, <1>2 DEF WriteCRTC, WriteIndexed
<1>4. QED
  BY <1>1, <1>3, CRTCDataWritten

\* move_cursor changes the two registers of the cursor, locked or not, to the
\* position modulo 2^16.
LEMMA CursorMoved ==
  ASSUME NEW c \in Card, NEW con \in [x : 0 .. Columns - 1, y : Nat]
  PROVE  \E hi, lo \in Byte :
           /\ move_cursor(c, con) = WithCRTC(WithCRTC(c, 15, lo), 14, hi)
           /\ hi * 256 + lo = Location(con) % 65536
<1> DEFINE pos == Location(con) % 65536
           lo == pos % 256
           hi == (pos \div 256) % 256
           d == WithCRTC(c, 15, lo)
<1>1. Location(con) \in Nat
  BY DEF Location, Columns
<1>2. lo \in Byte /\ hi \in Byte
  BY <1>1 DEF Byte
<1>3. hi * 256 + lo = pos
  <2>1. pos \in Nat /\ pos <= 65535
    BY <1>1
  <2> HIDE DEF pos
  <2>2. QED
    BY <2>1
<1> HIDE DEF lo, hi
<1>4. Write(Write(c, Port8Bit(980), 15), Port8Bit(981), lo) = d
  BY <1>2, CRTCDataWritten
<1>5. d \in Card
  <2>1. 15 \in Byte
    BY SmallBytes
  <2>2. QED
    BY <1>2, <2>1 DEF Card, WithCRTC
<1> HIDE DEF d
<1>6. Write(Write(d, Port8Bit(980), 14), Port8Bit(981), hi) = WithCRTC(d, 14, hi)
  BY <1>2, <1>5, CRTCDataWritten
<1>7. move_cursor(c, con) = WithCRTC(d, 14, hi)
  BY <1>4, <1>6 DEF move_cursor, lo, hi
<1>8. QED
  BY <1>2, <1>7, <1>3 DEF d

\* Unlock leaves registers 0 to 7 writable, however they were locked.
LEMMA CRTCUnlocked ==
  ASSUME NEW c \in Card
  PROVE  /\ ~Locked(Unlock(c))
         /\ \E r \in [0 .. 24 -> Byte] : Unlock(c) = [c EXCEPT !.crtcIndex = 17, !.crtc = r]
<1> DEFINE At(d, i) == Write(d, vga.crtcIndexPort, i)
           c1 == At(c, 3)
           v1 == SetBit7(Read(c1, vga.crtcDataPort))
           c2 == Write(c1, vga.crtcDataPort, v1)
           c3 == At(c2, 17)
           v3 == ClearBit7(Read(c3, vga.crtcDataPort))
<1>1. \A d \in Card : Read(d, vga.crtcDataPort) = d.crtc[d.crtcIndex]
  BY PortNumbers DEF Read
<1>2. c1 = [c EXCEPT !.crtcIndex = 3] /\ c1 \in Card
  <2>1. c1 = [c EXCEPT !.crtcIndex = 3]
    BY PortNumbers, PortWritten
  <2>2. 3 \in Byte
    BY SmallBytes
  <2> HIDE DEF c1
  <2>3. QED
    BY <2>1, <2>2 DEF Card
<1>3. v1 \in Byte
  <2>1. c1.crtc[c1.crtcIndex] \in Byte
    BY <1>2 DEF Card
  <2> HIDE DEF c1
  <2>2. QED
    BY <1>1, <1>2, <2>1, BitCleared
<1>4. c2 = WriteCRTCData(c1, v1)
  BY PortNumbers, PortWritten
<1> HIDE DEF c1, v1, c2
<1>5. c2 = c1 \/ c2 = [c1 EXCEPT !.crtc[3] = v1]
  BY <1>2, <1>4 DEF WriteCRTCData, Card
<1>6. \E r \in [0 .. 24 -> Byte] : c2 = [c EXCEPT !.crtcIndex = 3, !.crtc = r]
  <2>1. CASE c2 = c1
    BY <1>2, <2>1 DEF Card
  <2>2. CASE c2 = [c1 EXCEPT !.crtc[3] = v1]
    <3>1. [c.crtc EXCEPT ![3] = v1] \in [0 .. 24 -> Byte]
      BY <1>3 DEF Card
    <3>2. c2 = [c EXCEPT !.crtcIndex = 3, !.crtc = [c.crtc EXCEPT ![3] = v1]]
      BY <1>2, <2>2 DEF Card
    <3>3. QED
      BY <3>1, <3>2
  <2>3. QED
    BY <1>5, <2>1, <2>2
<1>7. c2 \in Card
  <2>1. 3 \in Byte
    BY SmallBytes
  <2>2. QED
    BY <1>6, <2>1 DEF Card
<1>8. c3 = [c2 EXCEPT !.crtcIndex = 17] /\ c3 \in Card
  <2>1. c3 = [c2 EXCEPT !.crtcIndex = 17]
    BY PortNumbers, PortWritten
  <2>2. 17 \in Byte
    BY SmallBytes
  <2> HIDE DEF c3
  <2>3. QED
    BY <1>7, <2>1, <2>2 DEF Card
<1>9. v3 \in 0 .. 127
  <2>1. c3.crtc[c3.crtcIndex] \in Byte
    BY <1>7, <1>8 DEF Card
  <2> HIDE DEF c3
  <2>2. QED
    BY <1>1, <1>8, <2>1, BitCleared
<1>10. Unlock(c) = WriteCRTCData(c3, v3)
  BY PortNumbers, PortWritten DEF Unlock, c2, v1, c1
<1> HIDE DEF c3, v3
<1>11. Unlock(c) = [c3 EXCEPT !.crtc[17] = v3]
  BY <1>8, <1>10 DEF WriteCRTCData, Card
<1>12. Unlock(c).crtc[17] = v3
  BY <1>8, <1>11 DEF Card
<1>13. ~Locked(Unlock(c))
  BY <1>9, <1>12 DEF Locked
<1>14. PICK r \in [0 .. 24 -> Byte] : c2 = [c EXCEPT !.crtcIndex = 3, !.crtc = r]
  BY <1>6
<1>15. [r EXCEPT ![17] = v3] \in [0 .. 24 -> Byte]
  BY <1>9 DEF Byte
<1>16. Unlock(c) = [c EXCEPT !.crtcIndex = 17, !.crtc = [r EXCEPT ![17] = v3]]
  BY <1>8, <1>11, <1>14 DEF Card
<1>17. QED
  BY <1>13, <1>15, <1>16
=============================================================================
