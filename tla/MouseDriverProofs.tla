-------------------------- MODULE MouseDriverProofs --------------------------
(***************************************************************************)
(* Proofs about module MouseDriver: for any byte stream, any handlers and  *)
(* any bounds.                                                             *)
(***************************************************************************)
EXTENDS MouseDriver, SequenceTheorems, TLAPS

\* A conversion to int8_t yields one.
LEMMA Int8Type == \A v \in Int : Int8(v) \in -128 .. 127
  BY DEF Int8

\* The driver's casts keep exactly the movements of up to seven bits and a sign, the
\* vertical ones negated: beyond them a movement arrives as another one, and -128
\* keeps the sign that the vertical axis should turn.
THEOREM ExactMovement ==
  \A d \in Int : Int8(d % 256) = d /\ Int8(-Int8(d % 256)) = -d <=> d \in -127 .. 127
<1> SUFFICES ASSUME NEW d \in Int
             PROVE  Int8(d % 256) = d /\ Int8(-Int8(d % 256)) = -d <=> d \in -127 .. 127
  OBVIOUS
<1>1. Int8(d % 256) = d <=> d \in -128 .. 127
  BY DEF Int8
<1>2. d \in -128 .. 127 => (Int8(-d) = -d <=> d # -128)
  BY DEF Int8
<1>3. QED
  BY <1>1, <1>2

\* What the driver calls its handler with is well formed.
LEMMA EventType ==
  ASSUME NEW b \in Byte \X Byte \X Byte
  PROVE  PacketEvent(handler, buttons, b) \in Events
<1>1. Int8(b[2]) \in -128 .. 127 /\ Int8(-Int8(b[3])) \in -128 .. 127
  <2>1. b[2] \in Int /\ b[3] \in Int
    BY DEF Byte
  <2>2. Int8(b[2]) \in -128 .. 127 /\ Int8(b[3]) \in -128 .. 127
    BY <2>1, Int8Type
  <2>3. -Int8(b[3]) \in Int
    BY <2>2
  <2>4. QED
    BY <2>2, <2>3, Int8Type
<1>2. Down(b[1]) \in SUBSET Buttons /\ Down(buttons) \in SUBSET Buttons
  BY DEF Down
<1>3. QED
  BY <1>1, <1>2 DEF PacketEvent, Events, NoMove

\* A report takes three bytes.
LEMMA EncodedType ==
  ASSUME NEW r \in [dx : Deltas, dy : Deltas, buttons : ButtonStates]
  PROVE  Encoded(r) \in Seq(Byte)
<1>1. r.dx \in Int /\ r.dy \in Int
  <2>1. r.dx \in Deltas /\ r.dy \in Deltas
    OBVIOUS
  <2>2. Deltas \subseteq Int
    BY MouseAssumption
  <2>3. QED
    BY <2>1, <2>2
<1>2. Flags(r) \in Byte
  BY DEF Flags, Byte
<1>3. r.dx % 256 \in Byte /\ r.dy % 256 \in Byte
  BY <1>1 DEF Byte
<1>4. QED
  BY <1>2, <1>3 DEF Encoded

IInv == TypeOK /\ ToldMatchesButtons

LEMMA InitIInv == Init => IInv
<1> SUFFICES ASSUME Init PROVE IInv
  OBVIOUS
<1>1. Down(0) = {}
  BY DEF Down, Bit, Mask, Buttons
<1>2. buffer \in Byte \X Byte \X Byte /\ buttons \in Byte /\ queue \in Seq(Byte)
  BY DEF Init, Byte
<1>3. event \in Events
  BY DEF Init, NoEvent, Events
<1>4. TypeOK
  BY <1>2, <1>3, MouseAssumption DEF Init, TypeOK
<1>5. QED
  BY <1>1, <1>4 DEF Init, IInv, ToldMatchesButtons, NoHandler

LEMMA SendPacketIInv == IInv /\ SendPacket => IInv'
<1> SUFFICES ASSUME IInv, SendPacket PROVE IInv'
  OBVIOUS
<1>1. PICK r \in [dx : Deltas, dy : Deltas, buttons : ButtonStates] :
        queue' = queue \o Encoded(r)
  BY DEF SendPacket
<1>2. queue' \in Seq(Byte)
  BY <1>1, EncodedType, ConcatProperties DEF IInv, TypeOK
<1>3. sent' \in 0 .. MaxPackets
  BY MouseAssumption DEF IInv, TypeOK, SendPacket
<1>4. QED
  BY <1>2, <1>3 DEF IInv, TypeOK, ToldMatchesButtons, SendPacket, Down, calls

LEMMA LoseByteIInv == IInv /\ LoseByte => IInv'
<1> SUFFICES ASSUME IInv, LoseByte PROVE IInv'
  OBVIOUS
<1>1. PICK i \in 1 .. Len(queue) :
        queue' = SubSeq(queue, 1, i - 1) \o SubSeq(queue, i + 1, Len(queue))
  BY DEF LoseByte
<1>2. queue \in Seq(Byte) /\ i \in Nat /\ i >= 1 /\ i <= Len(queue)
  BY <1>1, LenProperties DEF IInv, TypeOK
<1>3. SubSeq(queue, 1, i - 1) \in Seq(Byte)
  BY <1>2, SubSeqProperties
<1>4. SubSeq(queue, i + 1, Len(queue)) \in Seq(Byte)
  BY <1>2, SubSeqProperties
<1>5. queue' \in Seq(Byte)
  BY <1>1, <1>3, <1>4, ConcatProperties
<1>6. lost' \in 0 .. MaxLoss
  BY MouseAssumption DEF IInv, TypeOK, LoseByte
<1>7. QED
  BY <1>5, <1>6 DEF IInv, TypeOK, ToldMatchesButtons, LoseByte, Down, calls

\* The queue init_mouse_driver leaves.
LEMMA InitDriverQueue ==
  ASSUME TypeOK, NEW h \in Handlers, InitDriver(h)
  PROVE  /\ queue' \in Seq(Byte)
         /\ lost' = lost \/ (lost' = lost + 1 /\ lost < MaxLoss)
         /\ lost' = lost =>
              \E a \in AckCounts : queue' = [k \in 1 .. a |-> Acknowledge]
<1> DEFINE acks(a) == [k \in 1 .. a |-> Acknowledge]
<1>1. PICK left \in {<<>>} \union {<<queue[i]>> : i \in 1 .. Len(queue)}, a \in AckCounts :
        /\ queue' = left \o acks(a)
        /\ IF left = <<>> THEN UNCHANGED lost ELSE lost < MaxLoss /\ lost' = lost + 1
  BY DEF InitDriver
<1>2. a \in Nat /\ acks(a) \in Seq(Byte)
  <2>1. a \in Nat
    BY MouseAssumption
  <2>2. QED
    BY <2>1 DEF Acknowledge, Byte
<1>3. left \in Seq(Byte)
  <2>1. queue \in Seq(Byte)
    BY DEF TypeOK
  <2>2. CASE left = <<>>
    BY <2>2
  <2>3. CASE \E i \in 1 .. Len(queue) : left = <<queue[i]>>
    <3>1. PICK i \in 1 .. Len(queue) : left = <<queue[i]>>
      BY <2>3
    <3>2. queue[i] \in Byte
      BY <2>1
    <3>3. QED
      BY <3>1, <3>2
  <2>4. QED
    BY <2>2, <2>3
<1> DEFINE q == acks(a)
<1>4. q \in Seq(Byte) /\ queue' = left \o q
  BY <1>1, <1>2
<1>5. left = <<>> => queue' = q
  <2> HIDE DEF q
  <2>1. <<>> \o q = q
    BY <1>4
  <2>2. QED
    BY <1>4, <2>1
<1> HIDE DEF q
<1>6. queue' \in Seq(Byte)
  BY <1>3, <1>4, ConcatProperties
<1>7. lost \in Nat
  BY MouseAssumption DEF TypeOK
<1>8. lost' = lost => left = <<>>
  BY <1>1, <1>7
<1>9. lost' = lost => \E n \in AckCounts : queue' = acks(n)
  BY <1>5, <1>8 DEF q
<1> HIDE DEF acks
<1>10. lost' = lost \/ (lost' = lost + 1 /\ lost < MaxLoss)
  BY <1>1
<1>11. QED
  BY <1>6, <1>9, <1>10 DEF acks

LEMMA InitDriverIInv ==
  ASSUME IInv, NEW h \in Handlers, InitDriver(h)
  PROVE  IInv'
<1>1. queue' \in Seq(Byte) /\ lost' \in 0 .. MaxLoss
  <2>1. lost \in 0 .. MaxLoss /\ MaxLoss \in Nat /\ TypeOK
    BY MouseAssumption DEF IInv, TypeOK
  <2>2. QED
    BY <2>1, InitDriverQueue
<1>2. handler' \in Handlers \union {NoHandler}
  BY DEF InitDriver
<1>3. event' \in Events /\ buttons' \in Byte
  BY DEF InitDriver, NoEvent, Events, Byte
<1>4. told' \in [Handlers -> SUBSET Buttons] /\ stuck' \in SUBSET Buttons
  BY DEF IInv, TypeOK, InitDriver
<1>5. inits' \in 0 .. MaxInits /\ offset' \in 0 .. 2
  BY MouseAssumption DEF IInv, TypeOK, InitDriver
<1>6. TypeOK'
  BY <1>1, <1>2, <1>3, <1>4, <1>5 DEF IInv, TypeOK, InitDriver
<1>7. (Down(buttons))' = {}
  BY DEF InitDriver, Down, Bit, Mask, Buttons
<1>8. ToldMatchesButtons'
  BY <1>7 DEF ToldMatchesButtons, InitDriver
<1>9. QED
  BY <1>6, <1>8 DEF IInv

\* One packet, for any three bytes: the event is well formed and the handler's
\* view of the buttons keeps up with the driver's.
LEMMA PacketIInv ==
  ASSUME IInv, NEW b \in Byte \X Byte \X Byte, Packet(b), handler' = handler,
         handler # NoHandler
  PROVE  /\ event' \in Events /\ told' \in [Handlers -> SUBSET Buttons]
         /\ stuck' \in SUBSET Buttons /\ buttons' \in Byte
         /\ ToldMatchesButtons'
<1> DEFINE e == PacketEvent(handler, buttons, b)
<1>1. b[1] \in Byte /\ e \in Events
  BY EventType
<1>2. e.down \in SUBSET Buttons /\ e.up \in SUBSET Buttons
  BY <1>1 DEF Events
<1>3. handler \in Handlers /\ told \in [Handlers -> SUBSET Buttons] /\ stuck \in SUBSET Buttons
  BY DEF IInv, TypeOK
<1>4. /\ event' \in Events /\ told' \in [Handlers -> SUBSET Buttons]
      /\ stuck' \in SUBSET Buttons /\ buttons' \in Byte
  <2>1. CASE FirstByte(b[1])
    <3>1. event' = e /\ buttons' = b[1] /\ stuck' = stuck \ (e.down \union e.up)
          /\ told' = [told EXCEPT ![handler] = (@ \union e.down) \ e.up]
      BY <2>1 DEF Packet, CallHandler
    <3> HIDE DEF e
    <3>2. QED
      BY <1>1, <1>2, <1>3, <3>1
  <2>2. CASE ~FirstByte(b[1])
    BY <1>3, <2>2 DEF Packet, calls, IInv, TypeOK
  <2>3. QED
    BY <2>1, <2>2
<1>5. ASSUME {"OnMouseDown", "OnMouseUp"} \subseteq handler
      PROVE  /\ told'[handler] = (Down(buttons))' \union stuck'
             /\ (Down(buttons))' \intersect stuck' = {}
  <2>1. told[handler] = Down(buttons) \union stuck /\ Down(buttons) \intersect stuck = {}
    BY <1>5 DEF IInv, ToldMatchesButtons
  <2>2. CASE FirstByte(b[1])
    <3> DEFINE now == Down(b[1])
               was == Down(buttons)
    <3>1. (Down(buttons))' = now
      BY <2>2 DEF Packet, Down
    <3>2. e.down = now \ was /\ e.up = was \ now
      BY <1>5 DEF PacketEvent
    <3>3. /\ stuck' = stuck \ (e.down \union e.up)
          /\ told' = [told EXCEPT ![handler] = (@ \union e.down) \ e.up]
      BY <2>2 DEF Packet, CallHandler
    <3> HIDE DEF e
    <3>4. told'[handler] = (told[handler] \union e.down) \ e.up
      BY <1>3, <3>3
    <3> HIDE DEF now, was
    <3>5. told[handler] = was \union stuck /\ was \intersect stuck = {}
      BY <2>1 DEF was
    <3>6. told'[handler] = now \union stuck' /\ now \intersect stuck' = {}
      BY <3>2, <3>3, <3>4, <3>5
    <3>7. QED
      BY <3>1, <3>6 DEF now
  <2>3. CASE ~FirstByte(b[1])
    BY <2>1, <2>3 DEF Packet, Down, calls
  <2>4. QED
    BY <2>2, <2>3
<1>6. QED
  BY <1>4, <1>5 DEF ToldMatchesButtons

LEMMA HandleMouseInterruptIInv == IInv /\ HandleMouseInterrupt => IInv'
<1> SUFFICES ASSUME IInv, HandleMouseInterrupt PROVE IInv'
  OBVIOUS
<1>1. queue \in Seq(Byte) /\ queue # <<>> /\ queue' = Tail(queue)
  BY DEF IInv, TypeOK, HandleMouseInterrupt
<1>2. queue' \in Seq(Byte) /\ Head(queue) \in Byte
  BY <1>1, HeadTailProperties
<1>3. buffer' \in Byte \X Byte \X Byte
  BY <1>2 DEF IInv, TypeOK, HandleMouseInterrupt
<1>4. UNCHANGED <<handler, sent, lost, inits>>
  BY DEF HandleMouseInterrupt
<1>5. CASE handler = NoHandler \/ offset' # 0
  <2>1. UNCHANGED <<buttons, told, stuck, event>> /\ offset' \in 0 .. 2
    BY <1>5 DEF IInv, TypeOK, HandleMouseInterrupt, calls
  <2>2. QED
    BY <1>2, <1>3, <1>4, <2>1 DEF IInv, TypeOK, ToldMatchesButtons, Down
<1>6. CASE handler # NoHandler /\ offset' = 0
  <2>1. Packet(buffer') /\ offset' \in 0 .. 2
    BY <1>6 DEF HandleMouseInterrupt
  <2>2. /\ event' \in Events /\ told' \in [Handlers -> SUBSET Buttons]
        /\ stuck' \in SUBSET Buttons /\ buttons' \in Byte
        /\ ToldMatchesButtons'
    BY <1>3, <1>4, <1>6, <2>1, PacketIInv
  <2>3. QED
    BY <1>2, <1>3, <1>4, <2>1, <2>2 DEF IInv, TypeOK
<1>7. QED
  BY <1>5, <1>6

LEMMA NextIInv == IInv /\ [Next]_vars => IInv'
<1> SUFFICES ASSUME IInv, [Next]_vars PROVE IInv'
  OBVIOUS
<1>1. CASE UNCHANGED vars
  BY <1>1 DEF vars, calls, counters, IInv, TypeOK, ToldMatchesButtons, Down
<1>2. QED
  BY <1>1, SendPacketIInv, LoseByteIInv, InitDriverIInv, HandleMouseInterruptIInv DEF Next

-----------------------------------------------------------------------------

LEMMA Invariance == SafeSpec => []IInv
<1>1. QED
  BY InitIInv, NextIInv, PTL DEF SafeSpec

\* Type correctness of the driver, whatever bytes it reads.
THEOREM TypeCorrect == SafeSpec => []TypeOK
<1>1. IInv => TypeOK
  BY DEF IInv
<1>2. QED
  BY <1>1, Invariance, PTL

\* The handler's view of the buttons and the driver's agree, whatever is lost, out
\* of step or discarded, except for the buttons an initialisation forgot.
THEOREM ButtonsAgree == SafeSpec => []ToldMatchesButtons
<1>1. IInv => ToldMatchesButtons
  BY DEF IInv
<1>2. QED
  BY <1>1, Invariance, PTL

\* Presses and releases alternate, button by button, except that a button forgotten
\* by an initialisation is pressed again before it is released.
THEOREM CallsAlternate == SafeSpec => PressReleaseAlternate
<1> DEFINE Whole == /\ offset = 2 /\ offset' = 0 /\ inits' = inits /\ FirstByte(buffer'[1])
                    /\ {"OnMouseDown", "OnMouseUp"} \subseteq handler
           Alternate == /\ event'.down \intersect told[handler] \subseteq stuck
                        /\ event'.up \subseteq told[handler] \ stuck
                        /\ event'.down \intersect event'.up = {}
<1>1. ASSUME IInv, [Next]_vars, Whole PROVE Alternate
  <2>1. HandleMouseInterrupt
    BY <1>1 DEF Next, vars, counters, SendPacket, LoseByte, InitDriver, IInv, TypeOK
  <2>2. handler # NoHandler
    BY <1>1 DEF NoHandler
  <2>3. event' = PacketEvent(handler, buttons, buffer')
    BY <1>1, <2>1, <2>2 DEF HandleMouseInterrupt, Packet, CallHandler
  <2>4. /\ event'.down = Down(buffer'[1]) \ Down(buttons)
        /\ event'.up = Down(buttons) \ Down(buffer'[1])
    BY <1>1, <2>3 DEF PacketEvent
  <2>5. told[handler] = Down(buttons) \union stuck /\ Down(buttons) \intersect stuck = {}
    BY <1>1 DEF IInv, ToldMatchesButtons
  <2>6. QED
    BY <2>4, <2>5
<1>2. QED
  BY <1>1, Invariance, PTL DEF SafeSpec, PressReleaseAlternate

-----------------------------------------------------------------------------
(* The driver implements MouseReports                                      *)

\* Whole reports in a sequence of bytes.
Whole(s) == Len(s) \div 3

\* Thirds of a length.
LEMMA Thirds ==
  ASSUME NEW n \in Nat
  PROVE  /\ n \div 3 \in Nat /\ (n + 3) \div 3 = n \div 3 + 1 /\ (n + 3) % 3 = n % 3
         /\ \A k \in 1 .. n \div 3 : 3 * k - 2 \in 1 .. n /\ 3 * k - 1 \in 1 .. n /\ 3 * k \in 1 .. n
OBVIOUS

\* Each report is made of three bytes.
LEMMA ReportsAt ==
  ASSUME NEW s \in Seq(Byte)
  PROVE  /\ Reports(s) \in Seq([dx : Int, dy : Int, buttons : SUBSET Buttons])
         /\ Len(Reports(s)) = Whole(s) /\ DOMAIN Reports(s) = 1 .. Whole(s)
         /\ Whole(s) \in Nat
         /\ \A k \in 1 .. Whole(s) :
              Reports(s)[k] = Meaning(<<s[3 * k - 2], s[3 * k - 1], s[3 * k]>>)
<1>1. Len(s) \in Nat /\ Whole(s) \in Nat
  BY Thirds DEF Whole
<1>2. ASSUME NEW k \in 1 .. Whole(s)
      PROVE  /\ Meaning(SubSeq(s, 3 * k - 2, 3 * k))
                  = Meaning(<<s[3 * k - 2], s[3 * k - 1], s[3 * k]>>)
             /\ Meaning(<<s[3 * k - 2], s[3 * k - 1], s[3 * k]>>)
                  \in [dx : Int, dy : Int, buttons : SUBSET Buttons]
  <2> DEFINE t == SubSeq(s, 3 * k - 2, 3 * k)
             a == s[3 * k - 2]
             b == s[3 * k - 1]
             c == s[3 * k]
  <2>1. /\ 3 * k - 2 \in 1 .. Len(s) /\ 3 * k - 1 \in 1 .. Len(s) /\ 3 * k \in 1 .. Len(s)
    BY <1>1, Thirds DEF Whole
  <2>2. a \in Byte /\ b \in Byte /\ c \in Byte
    BY <2>1
  <2>3. t[1] = a /\ t[2] = b /\ t[3] = c
    BY <2>1
  <2> HIDE DEF t, a, b, c
  <2>4. Meaning(t) = Meaning(<<a, b, c>>)
    BY <2>3 DEF Meaning
  <2>5. Meaning(<<a, b, c>>) \in [dx : Int, dy : Int, buttons : SUBSET Buttons]
    BY <2>2 DEF Meaning, Byte, Down
  <2>6. QED
    BY <2>4, <2>5 DEF t, a, b, c
<1>3. Reports(s) = [k \in 1 .. Whole(s) |-> Meaning(SubSeq(s, 3 * k - 2, 3 * k))]
  BY DEF Reports, Whole
<1> DEFINE T == [dx : Int, dy : Int, buttons : SUBSET Buttons]
<1>4. /\ Reports(s) \in [1 .. Whole(s) -> T]
      /\ \A k \in 1 .. Whole(s) :
           Reports(s)[k] = Meaning(<<s[3 * k - 2], s[3 * k - 1], s[3 * k]>>)
  BY <1>2, <1>3
<1> HIDE DEF T
<1>5. Reports(s) \in Seq(T) /\ Len(Reports(s)) = Whole(s) /\ DOMAIN Reports(s) = 1 .. Whole(s)
  BY <1>1, <1>4
<1>6. QED
  BY <1>1, <1>4, <1>5 DEF T

\* Reports behind the first one.
LEMMA ReportsTail ==
  ASSUME NEW p \in Seq(Byte), Len(p) = 3, NEW t \in Seq(Byte)
  PROVE  /\ p \o t \in Seq(Byte) /\ Len(p \o t) = Len(t) + 3
         /\ Whole(p \o t) = Whole(t) + 1
         /\ Reports(p \o t)[1] = Meaning(<<p[1], p[2], p[3]>>)
         /\ \A k \in 1 .. Whole(t) : Reports(p \o t)[k + 1] = Reports(t)[k]
         /\ \A k \in 1 .. Whole(t) : (p \o t)[3 * (k + 1) - 2] = t[3 * k - 2]
         /\ (p \o t)[1] = p[1]
         /\ Reports(p \o t) # <<>>
         /\ Head(Reports(p \o t)) = Meaning(<<p[1], p[2], p[3]>>)
         /\ Tail(Reports(p \o t)) = Reports(t)
<1> DEFINE s == p \o t
<1>1. /\ s \in Seq(Byte) /\ Len(s) = Len(t) + 3 /\ Len(t) \in Nat
      /\ \A i \in 1 .. 3 : s[i] = p[i]
      /\ \A i \in 1 .. Len(t) : s[i + 3] = t[i]
  <2>1. Len(t) \in Nat
    OBVIOUS
  <2>2. /\ s \in Seq(Byte) /\ Len(s) = 3 + Len(t)
        /\ \A i \in 1 .. 3 + Len(t) : s[i] = IF i <= 3 THEN p[i] ELSE t[i - 3]
    <3>1. /\ s \in Seq(Byte) /\ Len(s) = Len(p) + Len(t)
          /\ \A i \in 1 .. Len(p) + Len(t) : s[i] = IF i <= Len(p) THEN p[i] ELSE t[i - Len(p)]
      BY ConcatProperties, Zenon
    <3> HIDE DEF s
    <3>2. QED
      BY <3>1
  <2> HIDE DEF s
  <2>3. ASSUME NEW i \in 1 .. Len(t) PROVE s[i + 3] = t[i]
    <3>1. i + 3 \in 1 .. 3 + Len(t) /\ ~(i + 3 <= 3) /\ (i + 3) - 3 = i
      BY <2>1
    <3>2. QED
      BY <2>2, <3>1
  <2>4. QED
    BY <2>1, <2>2, <2>3
<1> HIDE DEF s
<1>2. Whole(s) = Whole(t) + 1 /\ Whole(t) \in Nat
  BY <1>1, Thirds DEF Whole
<1>3. Reports(s)[1] = Meaning(<<s[1], s[2], s[3]>>)
  <2>1. 1 \in 1 .. Whole(s)
    BY <1>2
  <2>2. Reports(s)[1] = Meaning(<<s[3 * 1 - 2], s[3 * 1 - 1], s[3 * 1]>>)
    BY <1>1, <2>1, ReportsAt
  <2>3. QED
    BY <2>2
<1>4. s[1] = p[1] /\ s[2] = p[2] /\ s[3] = p[3]
  BY <1>1
<1>5. ASSUME NEW k \in 1 .. Whole(t)
      PROVE  Reports(s)[k + 1] = Reports(t)[k] /\ s[3 * (k + 1) - 2] = t[3 * k - 2]
  <2>1. /\ 3 * k - 2 \in 1 .. Len(t) /\ 3 * k - 1 \in 1 .. Len(t) /\ 3 * k \in 1 .. Len(t)
    BY <1>1, Thirds DEF Whole
  <2>2. /\ 3 * (k + 1) - 2 = (3 * k - 2) + 3 /\ 3 * (k + 1) - 1 = (3 * k - 1) + 3
        /\ 3 * (k + 1) = 3 * k + 3 /\ k + 1 \in 1 .. Whole(s)
    BY <1>2
  <2>3. /\ s[3 * (k + 1) - 2] = t[3 * k - 2] /\ s[3 * (k + 1) - 1] = t[3 * k - 1]
        /\ s[3 * (k + 1)] = t[3 * k]
    BY <1>1, <2>1, <2>2
  <2>4. Reports(s)[k + 1]
          = Meaning(<<s[3 * (k + 1) - 2], s[3 * (k + 1) - 1], s[3 * (k + 1)]>>)
    BY <1>1, <2>2, ReportsAt
  <2>5. Reports(t)[k] = Meaning(<<t[3 * k - 2], t[3 * k - 1], t[3 * k]>>)
    BY ReportsAt
  <2>6. QED
    BY <2>3, <2>4, <2>5
<1> DEFINE T == [dx : Int, dy : Int, buttons : SUBSET Buttons]
<1>6. /\ Reports(s) \in Seq(T) /\ Len(Reports(s)) = Whole(t) + 1
      /\ Reports(t) \in Seq(T) /\ Len(Reports(t)) = Whole(t)
  BY <1>1, <1>2, ReportsAt
<1> HIDE DEF T
<1>7. Reports(s) # <<>>
  BY <1>2, <1>6
<1>8. /\ Tail(Reports(s)) \in Seq(T) /\ Head(Reports(s)) = Reports(s)[1]
      /\ Len(Tail(Reports(s))) = Whole(t)
      /\ \A k \in 1 .. Whole(t) : Tail(Reports(s))[k] = Reports(s)[k + 1]
  BY <1>2, <1>6, <1>7, HeadTailProperties
<1>9. Tail(Reports(s)) = Reports(t)
  BY <1>5, <1>6, <1>8, SeqEqual
<1>10. QED
  BY <1>1, <1>2, <1>3, <1>4, <1>5, <1>7, <1>8, <1>9 DEF s

\* Reports before what the mouse sends next.
LEMMA ReportsMore ==
  ASSUME NEW s \in Seq(Byte), Len(s) % 3 = 0, NEW q \in Seq(Byte), Len(q) = 3
  PROVE  /\ s \o q \in Seq(Byte) /\ Len(s \o q) = Len(s) + 3
         /\ Whole(s \o q) = Whole(s) + 1
         /\ \A k \in 1 .. Whole(s) :
              /\ Reports(s \o q)[k] = Reports(s)[k]
              /\ (s \o q)[3 * k - 2] = s[3 * k - 2]
         /\ Reports(s \o q)[Whole(s) + 1] = Meaning(<<q[1], q[2], q[3]>>)
         /\ (s \o q)[3 * (Whole(s) + 1) - 2] = q[1]
<1> DEFINE u == s \o q
           n == Whole(s)
<1>1. /\ u \in Seq(Byte) /\ Len(u) = Len(s) + Len(q)
      /\ \A i \in 1 .. Len(s) + Len(q) : u[i] = IF i <= Len(s) THEN s[i] ELSE q[i - Len(s)]
  BY ConcatProperties, Zenon
<1>2. Len(s) \in Nat /\ n \in Nat /\ Len(s) = 3 * n
  <2>1. Len(s) \in Nat
    OBVIOUS
  <2>2. \A m \in Nat : m % 3 = 0 => m = 3 * (m \div 3) /\ m \div 3 \in Nat
    OBVIOUS
  <2>3. QED
    BY <2>1, <2>2 DEF Whole
<1> HIDE DEF u
<1>3. /\ Len(u) = Len(s) + 3 /\ Whole(u) = n + 1
      /\ \A i \in 1 .. Len(s) : u[i] = s[i]
      /\ u[Len(s) + 1] = q[1] /\ u[Len(s) + 2] = q[2] /\ u[Len(s) + 3] = q[3]
  <2>1. Len(u) = Len(s) + 3
    BY <1>1
  <2>2. Whole(u) = n + 1
    BY <1>2, <2>1, Thirds DEF Whole
  <2>3. \A i \in 1 .. Len(s) + 3 : u[i] = IF i <= Len(s) THEN s[i] ELSE q[i - Len(s)]
    BY <1>1
  <2>4. u[Len(s) + 1] = q[1] /\ u[Len(s) + 2] = q[2] /\ u[Len(s) + 3] = q[3]
    <3>1. ASSUME NEW i \in 1 .. 3 PROVE u[Len(s) + i] = q[i]
      <4>1. \A m \in Nat : m + i \in 1 .. m + 3 /\ ~(m + i <= m) /\ (m + i) - m = i
        OBVIOUS
      <4>2. Len(s) \in Nat
        BY <1>2
      <4>3. QED
        BY <2>3, <4>1, <4>2
    <3>2. QED
      BY <3>1
  <2>5. QED
    BY <1>2, <2>1, <2>2, <2>3, <2>4
<1>4. ASSUME NEW k \in 1 .. n
      PROVE  Reports(u)[k] = Reports(s)[k] /\ u[3 * k - 2] = s[3 * k - 2]
  <2>1. /\ 3 * k - 2 \in 1 .. Len(s) /\ 3 * k - 1 \in 1 .. Len(s) /\ 3 * k \in 1 .. Len(s)
    BY <1>2
  <2>2. k \in 1 .. Whole(u)
    BY <1>2, <1>3
  <2>3. /\ Reports(u)[k] = Meaning(<<u[3 * k - 2], u[3 * k - 1], u[3 * k]>>)
        /\ Reports(s)[k] = Meaning(<<s[3 * k - 2], s[3 * k - 1], s[3 * k]>>)
    BY <1>1, <2>2, ReportsAt
  <2>4. QED
    BY <1>3, <2>1, <2>3
<1>5. Reports(u)[n + 1] = Meaning(<<q[1], q[2], q[3]>>) /\ u[3 * (n + 1) - 2] = q[1]
  <2>1. n + 1 \in 1 .. Whole(u)
    BY <1>2, <1>3
  <2>2. Reports(u)[n + 1]
          = Meaning(<<u[3 * (n + 1) - 2], u[3 * (n + 1) - 1], u[3 * (n + 1)]>>)
    BY <1>1, <2>1, ReportsAt
  <2>3. /\ 3 * (n + 1) - 2 = Len(s) + 1 /\ 3 * (n + 1) - 1 = Len(s) + 2
        /\ 3 * (n + 1) = Len(s) + 3
    BY <1>2
  <2>4. QED
    BY <1>3, <2>2, <2>3
<1>6. QED
  BY <1>1, <1>3, <1>4, <1>5 DEF u

\* What the driver does with a report that fits eight bits is what it means.
LEMMA EventMeans ==
  ASSUME NEW b1 \in Byte, NEW b2 \in Byte, NEW b3 \in Byte,
         {Meaning(<<b1, b2, b3>>).dx, Meaning(<<b1, b2, b3>>).dy} \subseteq -127 .. 127
  PROVE  LET m == Meaning(<<b1, b2, b3>>)
             e == PacketEvent(handler, buttons, <<b1, b2, b3>>)
         IN  /\ e.move = IF "OnMouseMove" \in handler
                         THEN IF m.dx = 0 /\ m.dy = 0 THEN NoMove ELSE <<m.dx, -m.dy>>
                         ELSE NoMove
             /\ e.down = IF "OnMouseDown" \in handler THEN m.buttons \ Down(buttons) ELSE {}
             /\ e.up = IF "OnMouseUp" \in handler THEN Down(buttons) \ m.buttons ELSE {}
<1> DEFINE b == <<b1, b2, b3>>
           x == IF Bit(b1, 16) THEN b2 - 256 ELSE b2
           y == IF Bit(b1, 32) THEN b3 - 256 ELSE b3
<1>1. Meaning(b).dx = x /\ Meaning(b).dy = y /\ Meaning(b).buttons = Down(b1)
  BY DEF Meaning
<1>2. x \in -127 .. 127 /\ y \in -127 .. 127
  BY <1>1
<1>3. b2 = x % 256 /\ b3 = y % 256 /\ (b2 # 0 <=> x # 0) /\ (b3 # 0 <=> y # 0)
  BY <1>2 DEF Byte
<1> DEFINE e == PacketEvent(handler, buttons, b)
<1>4. /\ e.move = IF (b2 # 0 \/ b3 # 0) /\ "OnMouseMove" \in handler
                  THEN <<Int8(b2), Int8(-Int8(b3))>> ELSE NoMove
      /\ e.down = IF "OnMouseDown" \in handler THEN Down(b1) \ Down(buttons) ELSE {}
      /\ e.up = IF "OnMouseUp" \in handler THEN Down(buttons) \ Down(b1) ELSE {}
  BY DEF PacketEvent
<1> HIDE DEF b, e, x, y
<1>5. Int8(b2) = x /\ Int8(-Int8(b3)) = -y
  <2>1. Int8(x % 256) = x /\ Int8(-Int8(y % 256)) = -y
    BY <1>2, ExactMovement
  <2>2. b2 = x % 256 /\ b3 = y % 256
    BY <1>3
  <2>3. QED
    BY <2>1, <2>2, Zenon
<1>6. QED
  BY <1>1, <1>3, <1>4, <1>5 DEF b, e

-----------------------------------------------------------------------------
(* The driver's bytes as reports                                           *)

\* A stream that Abstract calls in step, as a sequence of bytes.
Sound(s) ==
  /\ Len(s) % 3 = 0
  /\ \A k \in 1 .. Whole(s) :
       FirstByte(s[3 * k - 2]) /\ {Reports(s)[k].dx, Reports(s)[k].dy} \subseteq -127 .. 127

\* The bytes kept and the bytes queued, one behind the other.
LEMMA AheadType ==
  ASSUME TypeOK
  PROVE  /\ Ahead \in Seq(Byte) /\ Len(Ahead) = offset + Len(queue) /\ Len(queue) \in Nat
         /\ \A i \in 1 .. offset : Ahead[i] = buffer[i]
         /\ \A i \in 1 .. Len(queue) : Ahead[offset + i] = queue[i]
<1> DEFINE p == SubSeq(buffer, 1, offset)
<1>1. offset \in 0 .. 2 /\ queue \in Seq(Byte) /\ buffer \in Byte \X Byte \X Byte
  BY DEF TypeOK
<1>2. \A i \in 1 .. 3 : buffer[i] \in Byte
  BY <1>1
<1>3. \A i \in 1 .. offset : buffer[i] \in Byte
  BY <1>1, <1>2
<1>4. p \in Seq(Byte) /\ Len(p) = offset /\ \A i \in 1 .. offset : p[i] = buffer[i]
  <2>1. /\ p \in Seq(Byte)
        /\ Len(p) = IF 1 <= offset THEN offset - 1 + 1 ELSE 0
        /\ \A i \in 1 .. offset - 1 + 1 : p[i] = buffer[1 + i - 1]
    BY <1>1, <1>3, SubSeqProperties
  <2> HIDE DEF p
  <2>2. QED
    BY <1>1, <2>1
<1> HIDE DEF p
<1>5. /\ p \o queue \in Seq(Byte) /\ Len(p \o queue) = Len(p) + Len(queue)
      /\ \A i \in 1 .. Len(p) + Len(queue) :
           (p \o queue)[i] = IF i <= Len(p) THEN p[i] ELSE queue[i - Len(p)]
  BY <1>1, <1>4, ConcatProperties, Zenon
<1>6. Ahead = p \o queue /\ Len(queue) \in Nat
  BY <1>1 DEF Ahead, p
<1>7. ASSUME NEW i \in 1 .. Len(queue) PROVE Ahead[offset + i] = queue[i]
  <2>1. /\ offset + i \in 1 .. offset + Len(queue) /\ ~(offset + i <= offset)
        /\ (offset + i) - offset = i
    BY <1>1, <1>6
  <2>2. QED
    BY <1>4, <1>5, <1>6, <2>1
<1>8. \A i \in 1 .. offset : Ahead[i] = buffer[i]
  BY <1>1, <1>4, <1>5, <1>6
<1>9. QED
  BY <1>4, <1>5, <1>6, <1>7, <1>8

\* The same, in the state a step leads to.
LEMMA NextAhead ==
  TypeOK' => /\ Ahead' \in Seq(Byte) /\ Len(Ahead') = offset' + Len(queue')
             /\ \A i \in 1 .. offset' : Ahead'[i] = buffer'[i]
             /\ \A i \in 1 .. Len(queue') : Ahead'[offset' + i] = queue'[i]
<1> DEFINE Good == /\ Ahead \in Seq(Byte) /\ Len(Ahead) = offset + Len(queue)
                   /\ \A i \in 1 .. offset : Ahead[i] = buffer[i]
                   /\ \A i \in 1 .. Len(queue) : Ahead[offset + i] = queue[i]
<1>1. TypeOK => Good
  BY AheadType
<1> HIDE DEF Good
<1>2. (TypeOK => Good)'
  BY <1>1, PTL
<1>3. QED
  BY <1>2 DEF Good

\* In step is a property of these bytes.
LEMMA StepSound ==
  ASSUME TypeOK
  PROVE  InStep <=> handler # NoHandler /\ Sound(Ahead)
<1>1. DOMAIN InFlight = 1 .. Whole(Ahead)
  BY AheadType, ReportsAt DEF InFlight
<1>2. QED
  BY <1>1 DEF InStep, Aligned, Sound, InFlight, Whole

\* The same, in the state a step leads to.
LEMMA NextSound == TypeOK' => (InStep' <=> handler' # NoHandler /\ Sound(Ahead'))
<1>1. TypeOK => (InStep <=> handler # NoHandler /\ Sound(Ahead))
  BY StepSound
<1>2. (TypeOK => (InStep <=> handler # NoHandler /\ Sound(Ahead)))'
  BY <1>1, PTL
<1>3. Sound(Ahead)' <=> Sound(Ahead')
  BY DEF Sound, Whole, Reports
<1>4. QED
  BY <1>2, <1>3

-----------------------------------------------------------------------------
(* Steps of the driver as steps of MouseReports                            *)

\* Movements that fit eight bits.
DeltasFit == Deltas \subseteq -127 .. 127

\* What the mouse encodes means what it reports.
LEMMA EncodedMeans ==
  ASSUME DeltasFit, NEW r \in [dx : Deltas, dy : Deltas, buttons : ButtonStates]
  PROVE  /\ Encoded(r) \in Seq(Byte) /\ Len(Encoded(r)) = 3 /\ FirstByte(Encoded(r)[1])
         /\ Meaning(<<Encoded(r)[1], Encoded(r)[2], Encoded(r)[3]>>).dx = r.dx
         /\ Meaning(<<Encoded(r)[1], Encoded(r)[2], Encoded(r)[3]>>).dy = r.dy
         /\ r.dx \in -127 .. 127 /\ r.dy \in -127 .. 127
<1> DEFINE f == Flags(r)
           x == r.dx
           y == r.dy
<1>1. x \in -127 .. 127 /\ y \in -127 .. 127
  BY DEF DeltasFit
<1>2. Encoded(r) = <<f, x % 256, y % 256>>
  BY DEF Encoded
<1>3. FirstByte(f) /\ (Bit(f, 16) <=> x < 0) /\ (Bit(f, 32) <=> y < 0)
  <2> DEFINE b1 == IF 1 \in r.buttons THEN 1 ELSE 0
             b2 == IF 2 \in r.buttons THEN 2 ELSE 0
             b3 == IF 3 \in r.buttons THEN 4 ELSE 0
             b4 == IF r.dx < 0 THEN 16 ELSE 0
             b5 == IF r.dy < 0 THEN 32 ELSE 0
  <2>1. f = 8 + b1 + b2 + b3 + b4 + b5
    BY DEF Flags
  <2>2. b1 \in {0, 1} /\ b2 \in {0, 2} /\ b3 \in {0, 4}
    OBVIOUS
  <2>3. b4 \in {0, 16} /\ b5 \in {0, 32} /\ (b4 = 16 <=> x < 0) /\ (b5 = 32 <=> y < 0)
    OBVIOUS
  <2> HIDE DEF b1, b2, b3, b4, b5, f, x, y
  <2>4. \A c1 \in {0, 1}, c2 \in {0, 2}, c3 \in {0, 4}, c4 \in {0, 16}, c5 \in {0, 32} :
          LET g == 8 + c1 + c2 + c3 + c4 + c5
          IN  Bit(g, 8) /\ (Bit(g, 16) <=> c4 = 16) /\ (Bit(g, 32) <=> c5 = 32)
    BY DEF Bit
  <2>5. QED
    BY <2>1, <2>2, <2>3, <2>4 DEF FirstByte
<1>4. Encoded(r) \in Seq(Byte)
  BY EncodedType
<1> HIDE DEF f, x, y
<1>5. Len(<<f, x % 256, y % 256>>) = 3 /\ Encoded(r)[1] = f
      /\ Encoded(r)[2] = x % 256 /\ Encoded(r)[3] = y % 256
  BY <1>2
<1>6. /\ Meaning(<<f, x % 256, y % 256>>).dx = IF x < 0 THEN (x % 256) - 256 ELSE x % 256
      /\ Meaning(<<f, x % 256, y % 256>>).dy = IF y < 0 THEN (y % 256) - 256 ELSE y % 256
  BY <1>3 DEF Meaning
<1>7. \A d \in -127 .. 127 : (IF d < 0 THEN (d % 256) - 256 ELSE d % 256) = d
  OBVIOUS
<1>8. Meaning(<<f, x % 256, y % 256>>).dx = x /\ Meaning(<<f, x % 256, y % 256>>).dy = y
  BY <1>1, <1>6, <1>7
<1>9. QED
  BY <1>1, <1>2, <1>3, <1>4, <1>5, <1>8 DEF f, x, y

\* Bytes appended twice.
LEMMA Associative ==
  ASSUME NEW s \in Seq(Byte), NEW t \in Seq(Byte), NEW u \in Seq(Byte)
  PROVE  (s \o t) \o u = s \o (t \o u)
BY ConcatAssociative

\* The mouse's next report goes behind what is ahead.
LEMMA AheadGrows ==
  ASSUME TypeOK, SendPacket, DeltasFit
  PROVE  \E q \in Seq(Byte) :
           /\ Ahead' = Ahead \o q /\ Len(q) = 3 /\ FirstByte(q[1])
           /\ {Meaning(<<q[1], q[2], q[3]>>).dx, Meaning(<<q[1], q[2], q[3]>>).dy} \subseteq -127 .. 127
<1>1. PICK r \in [dx : Deltas, dy : Deltas, buttons : ButtonStates] :
        queue' = queue \o Encoded(r)
  BY DEF SendPacket
<1> DEFINE q == Encoded(r)
<1>2. UNCHANGED <<offset, buffer>>
  BY DEF SendPacket
<1>3. /\ q \in Seq(Byte) /\ Len(q) = 3 /\ FirstByte(q[1])
      /\ {Meaning(<<q[1], q[2], q[3]>>).dx, Meaning(<<q[1], q[2], q[3]>>).dy} \subseteq -127 .. 127
  BY EncodedMeans
<1>4. Ahead' = Ahead \o q
  <2> DEFINE p == SubSeq(buffer, 1, offset)
  <2>1. \A i \in 1 .. offset : buffer[i] \in Byte
    BY DEF TypeOK
  <2>2. p \in Seq(Byte) /\ queue \in Seq(Byte)
    BY <2>1, SubSeqProperties DEF TypeOK
  <2>3. Ahead' = p \o (queue \o q) /\ Ahead = p \o queue
    BY <1>1, <1>2 DEF Ahead
  <2> HIDE DEF p, q
  <2>4. (p \o queue) \o q = p \o (queue \o q)
    BY <1>3, <2>2, Associative
  <2>5. QED
    BY <2>3, <2>4
<1> HIDE DEF q
<1>5. QED
  BY <1>3, <1>4

\* Three sound bytes more leave the rest sound.
LEMMA SoundMore ==
  ASSUME NEW s \in Seq(Byte), Sound(s), NEW q \in Seq(Byte), Len(q) = 3, FirstByte(q[1]),
         {Meaning(<<q[1], q[2], q[3]>>).dx, Meaning(<<q[1], q[2], q[3]>>).dy} \subseteq -127 .. 127
  PROVE  Sound(s \o q)
<1> DEFINE u == s \o q
           n == Whole(s)
<1>1. Len(s) % 3 = 0 /\ n \in Nat /\ Len(s) \in Nat
  <2>1. Len(s) % 3 = 0
    BY Zenon DEF Sound
  <2>2. n \in Nat
    BY ReportsAt
  <2>3. Len(s) \in Nat
    OBVIOUS
  <2>4. QED
    BY <2>1, <2>2, <2>3
<1>2. /\ u \in Seq(Byte) /\ Len(u) = Len(s) + 3 /\ Whole(u) = n + 1
      /\ \A k \in 1 .. n : Reports(u)[k] = Reports(s)[k] /\ u[3 * k - 2] = s[3 * k - 2]
      /\ Reports(u)[n + 1] = Meaning(<<q[1], q[2], q[3]>>) /\ u[3 * (n + 1) - 2] = q[1]
  BY <1>1, ReportsMore
<1> HIDE DEF u, n
<1>3. Len(u) % 3 = 0
  BY <1>1, <1>2
<1>4. ASSUME NEW k \in 1 .. Whole(u)
      PROVE  FirstByte(u[3 * k - 2]) /\ {Reports(u)[k].dx, Reports(u)[k].dy} \subseteq -127 .. 127
  <2>1. k \in 1 .. n \/ k = n + 1
    BY <1>1, <1>2
  <2>2. CASE k \in 1 .. n
    <3>1. FirstByte(s[3 * k - 2]) /\ {Reports(s)[k].dx, Reports(s)[k].dy} \subseteq -127 .. 127
      BY <2>2, Zenon DEF Sound, n
    <3>2. Reports(u)[k] = Reports(s)[k] /\ u[3 * k - 2] = s[3 * k - 2]
      BY <1>2, <2>2
    <3>3. QED
      BY <3>1, <3>2
  <2>3. CASE k = n + 1
    <3>1. Reports(u)[k] = Meaning(<<q[1], q[2], q[3]>>) /\ u[3 * k - 2] = q[1]
      BY <1>2, <2>3
    <3>2. QED
      BY <3>1
  <2>4. QED
    BY <2>1, <2>2, <2>3
<1>5. QED
  BY <1>3, <1>4 DEF Sound, u

\* Three bytes fewer, too.
LEMMA SoundTail ==
  ASSUME NEW p \in Seq(Byte), Len(p) = 3, NEW t \in Seq(Byte), Sound(p \o t)
  PROVE  /\ FirstByte(p[1])
         /\ {Meaning(<<p[1], p[2], p[3]>>).dx, Meaning(<<p[1], p[2], p[3]>>).dy} \subseteq -127 .. 127
         /\ Sound(t)
<1> DEFINE s == p \o t
<1>1. /\ Len(s) = Len(t) + 3 /\ Whole(s) = Whole(t) + 1 /\ s[1] = p[1]
      /\ Reports(s)[1] = Meaning(<<p[1], p[2], p[3]>>)
      /\ \A k \in 1 .. Whole(t) : Reports(s)[k + 1] = Reports(t)[k]
      /\ \A k \in 1 .. Whole(t) : s[3 * (k + 1) - 2] = t[3 * k - 2]
  BY ReportsTail
<1>2. Whole(t) \in Nat /\ Len(t) \in Nat
  BY ReportsAt
<1> HIDE DEF s
<1>3. Sound(s)
  BY DEF s
<1>4. /\ FirstByte(p[1])
      /\ {Meaning(<<p[1], p[2], p[3]>>).dx, Meaning(<<p[1], p[2], p[3]>>).dy} \subseteq -127 .. 127
  <2>1. 1 \in 1 .. Whole(s)
    BY <1>1, <1>2
  <2>2. FirstByte(s[3 * 1 - 2]) /\ {Reports(s)[1].dx, Reports(s)[1].dy} \subseteq -127 .. 127
    BY <1>3, <2>1 DEF Sound
  <2>3. QED
    BY <1>1, <2>2
<1>5. Len(t) % 3 = 0
  <2>1. Len(s) % 3 = 0
    BY <1>3 DEF Sound
  <2>2. (Len(t) + 3) % 3 = Len(t) % 3
    BY <1>2, Thirds
  <2>3. QED
    BY <1>1, <2>1, <2>2
<1>6. ASSUME NEW k \in 1 .. Whole(t)
      PROVE  FirstByte(t[3 * k - 2]) /\ {Reports(t)[k].dx, Reports(t)[k].dy} \subseteq -127 .. 127
  <2> DEFINE j == k + 1
  <2>1. j \in 1 .. Whole(s)
    BY <1>1, <1>2
  <2>2. s[3 * j - 2] = t[3 * k - 2] /\ Reports(s)[j] = Reports(t)[k]
    BY <1>1
  <2> HIDE DEF j
  <2>3. FirstByte(s[3 * j - 2]) /\ {Reports(s)[j].dx, Reports(s)[j].dy} \subseteq -127 .. 127
    BY <1>3, <2>1 DEF Sound
  <2>4. QED
    BY <2>2, <2>3
<1>7. QED
  BY <1>4, <1>5, <1>6 DEF Sound

\* The mouse makes one report more.
LEMMA SendRefines ==
  ASSUME IInv, IInv', DeltasFit, SendPacket
  PROVE  Abstract!Next
<1>1. UNCHANGED <<handler, offset, buffer, buttons, event, lost>> /\ TypeOK /\ TypeOK'
  BY DEF SendPacket, IInv, calls
<1>2. Down(buttons') = Down(buttons)
  BY <1>1 DEF Down
<1>3. CASE ~InStep
  BY <1>1, <1>2, <1>3 DEF Abstract!Next, Abstract!Drift
<1>4. CASE InStep
  <2>1. handler # NoHandler /\ Sound(Ahead) /\ Ahead \in Seq(Byte)
    BY <1>1, <1>4, StepSound, AheadType
  <2>2. PICK q \in Seq(Byte) :
          /\ Ahead' = Ahead \o q /\ Len(q) = 3 /\ FirstByte(q[1])
          /\ {Meaning(<<q[1], q[2], q[3]>>).dx, Meaning(<<q[1], q[2], q[3]>>).dy} \subseteq -127 .. 127
    BY <1>1, AheadGrows
  <2> DEFINE u == Ahead \o q
             n == Whole(Ahead)
  <2>3. Len(Ahead) % 3 = 0 /\ n \in Nat
    <3>1. Len(Ahead) % 3 = 0
      BY <2>1, Zenon DEF Sound
    <3>2. n \in Nat
      BY <2>1, ReportsAt
    <3>3. QED
      BY <3>1, <3>2
  <2>4. /\ u \in Seq(Byte) /\ Whole(u) = n + 1
        /\ \A k \in 1 .. n : Reports(u)[k] = Reports(Ahead)[k]
    BY <2>1, <2>2, <2>3, ReportsMore
  <2>5. Sound(u)
    BY <2>1, <2>2, SoundMore
  <2>6. Ahead' = u
    BY <2>2
  <2> HIDE DEF u, n
  <2>7. InStep'
    BY <1>1, <2>1, <2>5, <2>6, NextSound
  <2>8. InFlight' = Reports(u) /\ InFlight = Reports(Ahead)
    BY <2>6 DEF InFlight, Reports
  <2> DEFINE T == [dx : Int, dy : Int, buttons : SUBSET Buttons]
  <2>9. /\ Reports(u) \in Seq(T) /\ Len(Reports(u)) = n + 1
        /\ Reports(Ahead) \in Seq(T) /\ Len(Reports(Ahead)) = n
    BY <2>1, <2>4, ReportsAt DEF n
  <2> HIDE DEF T
  <2>10. Abstract!IsPrefix(Reports(Ahead), Reports(u)) /\ Reports(u) # Reports(Ahead)
    <3> DEFINE a == SubSeq(Reports(Ahead), 1, n)
               b == SubSeq(Reports(u), 1, n)
    <3>1. \A i \in 1 .. n : Reports(Ahead)[i] \in T /\ Reports(u)[i] \in T
      BY <2>3, <2>9
    <3>2. /\ a \in Seq(T) /\ Len(a) = IF 1 <= n THEN n - 1 + 1 ELSE 0
          /\ \A i \in 1 .. n - 1 + 1 : a[i] = Reports(Ahead)[1 + i - 1]
      BY <2>3, <3>1, SubSeqProperties
    <3>3. /\ b \in Seq(T) /\ Len(b) = IF 1 <= n THEN n - 1 + 1 ELSE 0
          /\ \A i \in 1 .. n - 1 + 1 : b[i] = Reports(u)[1 + i - 1]
      BY <2>3, <3>1, SubSeqProperties
    <3> HIDE DEF a, b
    <3>4. Len(a) = Len(b) /\ \A i \in 1 .. Len(a) : a[i] = b[i]
      BY <2>3, <2>4, <3>2, <3>3
    <3>5. a = b
      BY <3>2, <3>3, <3>4, SeqEqual
    <3>6. n <= n + 1 /\ n # n + 1
      BY <2>3
    <3>7. QED
      BY <2>9, <3>5, <3>6 DEF Abstract!IsPrefix, a, b
  <2>11. QED
    BY <1>1, <1>2, <1>4, <2>7, <2>8, <2>10 DEF Abstract!Next, Abstract!Report
<1>5. QED
  BY <1>3, <1>4

\* A loss is seen by nobody.
LEMMA LoseRefines ==
  ASSUME LoseByte
  PROVE  Abstract!Next
<1>1. lost' = lost + 1 /\ UNCHANGED <<handler, buttons, event>>
  BY DEF LoseByte, calls
<1>2. QED
  BY <1>1 DEF Abstract!Next, Abstract!Lose, Down

\* A new handler starts with no button down.
LEMMA InitRefines ==
  ASSUME TypeOK, NEW h \in Handlers, InitDriver(h)
  PROVE  Abstract!Next
<1>1. buttons' = 0 /\ event' = NoEvent /\ lost' \in {lost, lost + 1}
  BY InitDriverQueue DEF InitDriver
<1>2. Down(0) = {}
  BY DEF Down, Bit, Mask, Buttons
<1>3. Down(buttons') = {} /\ event' = Abstract!NoEvent
  BY <1>1, <1>2 DEF NoEvent, NoMove, Abstract!NoEvent, Abstract!NoMove
<1>4. QED
  BY <1>1, <1>3 DEF Abstract!Next, Abstract!Restart, Down

\* A byte in the middle of a packet only moves from the queue to the buffer.
LEMMA AheadKept ==
  ASSUME TypeOK, TypeOK', HandleMouseInterrupt, handler # NoHandler, offset < 2
  PROVE  Ahead' = Ahead
<1>1. /\ queue \in Seq(Byte) /\ queue # <<>> /\ queue' = Tail(queue)
      /\ buffer' = [buffer EXCEPT ![offset + 1] = Head(queue)] /\ offset' = (offset + 1) % 3
  BY DEF HandleMouseInterrupt, TypeOK
<1>2. offset \in 0 .. 1 /\ offset' = offset + 1
  <2>1. offset \in 0 .. 2
    BY DEF TypeOK
  <2>2. QED
    BY <1>1, <2>1
<1>3. /\ Len(queue) \in Nat \ {0} /\ Len(queue') = Len(queue) - 1 /\ Head(queue) = queue[1]
      /\ \A i \in 1 .. Len(queue) - 1 : queue'[i] = queue[i + 1]
  BY <1>1
<1>4. (\A i \in 1 .. offset : buffer'[i] = buffer[i]) /\ buffer'[offset + 1] = queue[1]
  BY <1>1, <1>2, <1>3 DEF TypeOK
<1>5. /\ Ahead \in Seq(Byte) /\ Len(Ahead) = offset + Len(queue)
      /\ \A i \in 1 .. offset : Ahead[i] = buffer[i]
      /\ \A i \in 1 .. Len(queue) : Ahead[offset + i] = queue[i]
  BY AheadType
<1>6. /\ Ahead' \in Seq(Byte) /\ Len(Ahead') = offset' + Len(queue')
      /\ \A i \in 1 .. offset' : Ahead'[i] = buffer'[i]
      /\ \A i \in 1 .. Len(queue') : Ahead'[offset' + i] = queue'[i]
  BY NextAhead
<1>7. Len(Ahead') = Len(Ahead)
  BY <1>2, <1>3, <1>5, <1>6
<1>8. ASSUME NEW i \in 1 .. Len(Ahead) PROVE Ahead'[i] = Ahead[i]
  <2>1. i \in 1 .. offset \/ i = offset + 1 \/ i - (offset + 1) \in 1 .. Len(queue) - 1
    BY <1>2, <1>3, <1>5
  <2>2. CASE i \in 1 .. offset
    <3>1. i \in 1 .. offset'
      BY <1>2, <2>2
    <3>2. Ahead'[i] = buffer'[i] /\ Ahead[i] = buffer[i] /\ buffer'[i] = buffer[i]
      BY <1>4, <1>5, <1>6, <2>2, <3>1, Zenon
    <3>3. QED
      BY <3>2
  <2>3. CASE i = offset + 1
    <3>1. Ahead'[i] = buffer'[i]
      BY <1>2, <1>6, <2>3
    <3>2. Ahead[i] = queue[1]
      BY <1>3, <1>5, <2>3
    <3>3. QED
      BY <1>4, <2>3, <3>1, <3>2
  <2>4. CASE i - (offset + 1) \in 1 .. Len(queue) - 1
    <3> DEFINE j == i - (offset + 1)
    <3>1. /\ j \in 1 .. Len(queue') /\ j \in 1 .. Len(queue) - 1 /\ j + 1 \in 1 .. Len(queue)
          /\ i = offset' + j /\ i = offset + (j + 1)
      BY <1>2, <1>3, <2>4
    <3> HIDE DEF j
    <3>2. Ahead'[i] = queue'[j] /\ Ahead[i] = queue[j + 1]
      BY <1>5, <1>6, <3>1
    <3>3. QED
      BY <1>3, <3>1, <3>2
  <2>5. QED
    BY <2>1, <2>2, <2>3, <2>4
<1>9. QED
  BY <1>5, <1>6, <1>7, <1>8, SeqEqual

\* The third byte makes a packet of the three oldest.
LEMMA AheadTaken ==
  ASSUME TypeOK, TypeOK', HandleMouseInterrupt, handler # NoHandler, offset = 2
  PROVE  /\ \E b1, b2, b3 \in Byte :
              /\ buffer' = <<b1, b2, b3>>
              /\ Ahead = <<b1, b2, b3>> \o queue'
         /\ Ahead' = queue' /\ queue' \in Seq(Byte) /\ offset' = 0 /\ Packet(buffer')
<1>1. /\ queue \in Seq(Byte) /\ queue # <<>> /\ queue' = Tail(queue)
      /\ buffer' = [buffer EXCEPT ![3] = Head(queue)] /\ offset' = 0 /\ Packet(buffer')
  BY DEF HandleMouseInterrupt, TypeOK
<1>2. /\ Len(queue) \in Nat \ {0} /\ Len(queue') = Len(queue) - 1 /\ Head(queue) = queue[1]
      /\ \A i \in 1 .. Len(queue) - 1 : queue'[i] = queue[i + 1]
      /\ queue' \in Seq(Byte) /\ queue[1] \in Byte
  BY <1>1
<1> DEFINE p == <<buffer[1], buffer[2], queue[1]>>
<1>3. buffer' = p /\ buffer[1] \in Byte /\ buffer[2] \in Byte
  BY <1>1, <1>2 DEF TypeOK
<1>4. /\ Ahead \in Seq(Byte) /\ Len(Ahead) = 2 + Len(queue)
      /\ \A i \in 1 .. 2 : Ahead[i] = buffer[i]
      /\ \A i \in 1 .. Len(queue) : Ahead[2 + i] = queue[i]
  BY AheadType
<1>5. p \in Seq(Byte) /\ Len(p) = 3 /\ p[1] = buffer[1] /\ p[2] = buffer[2] /\ p[3] = queue[1]
  BY <1>2, <1>3
<1> HIDE DEF p
<1>6. /\ p \o queue' \in Seq(Byte) /\ Len(p \o queue') = Len(p) + Len(queue')
      /\ \A i \in 1 .. Len(p) + Len(queue') :
           (p \o queue')[i] = IF i <= Len(p) THEN p[i] ELSE queue'[i - Len(p)]
  BY <1>2, <1>5, ConcatProperties, Zenon
<1> DEFINE u == p \o queue'
<1>7. /\ u \in Seq(Byte) /\ Len(u) = 2 + Len(queue)
      /\ \A i \in 1 .. 2 + Len(queue) : u[i] = IF i <= 3 THEN p[i] ELSE queue'[i - 3]
  BY <1>2, <1>5, <1>6
<1> HIDE DEF u
<1>8. ASSUME NEW i \in 1 .. 2 + Len(queue) PROVE Ahead[i] = u[i]
  <2>1. i = 1 \/ i = 2 \/ i = 3 \/ i - 3 \in 1 .. Len(queue) - 1
    BY <1>2
  <2>2. CASE i = 1
    BY <1>4, <1>5, <1>7, <2>2
  <2>3. CASE i = 2
    BY <1>4, <1>5, <1>7, <2>3
  <2>4. CASE i = 3
    <3>1. Ahead[2 + 1] = queue[1]
      BY <1>2, <1>4
    <3>2. u[3] = p[3]
      BY <1>7, <2>4
    <3>3. QED
      BY <1>5, <2>4, <3>1, <3>2
  <2>5. CASE i - 3 \in 1 .. Len(queue) - 1
    <3> DEFINE j == i - 3
    <3>1. /\ j \in 1 .. Len(queue) - 1 /\ j + 1 \in 1 .. Len(queue) /\ i = 2 + (j + 1)
          /\ ~(i <= 3)
      BY <1>2, <2>5
    <3>2. u[i] = queue'[j]
      BY <1>7, <3>1
    <3> HIDE DEF j
    <3>3. Ahead[i] = queue[j + 1]
      BY <1>4, <3>1
    <3>4. QED
      BY <1>2, <3>1, <3>2, <3>3
  <2>6. QED
    BY <2>1, <2>2, <2>3, <2>4, <2>5
<1>9. Ahead = u
  BY <1>4, <1>7, <1>8, SeqEqual
<1>10. Ahead' = queue'
  <2>1. /\ Ahead' \in Seq(Byte) /\ Len(Ahead') = offset' + Len(queue')
        /\ \A i \in 1 .. Len(queue') : Ahead'[offset' + i] = queue'[i]
    BY NextAhead
  <2>2. Len(Ahead') = Len(queue') /\ \A i \in 1 .. Len(queue') : Ahead'[i] = queue'[i]
    BY <1>1, <1>2, <2>1
  <2>3. QED
    BY <1>2, <2>1, <2>2, SeqEqual
<1>11. QED
  BY <1>1, <1>2, <1>3, <1>9, <1>10 DEF p, u

\* The end of a packet, in step: its report is delivered.
LEMMA DeliverRefines ==
  ASSUME IInv, IInv', HandleMouseInterrupt, handler # NoHandler, offset = 2, InStep
  PROVE  Abstract!Deliver
<1>1. TypeOK /\ TypeOK'
  BY DEF IInv
<1>2. PICK b1, b2, b3 \in Byte :
        buffer' = <<b1, b2, b3>> /\ Ahead = <<b1, b2, b3>> \o queue'
  BY <1>1, AheadTaken
<1>3. /\ Ahead' = queue' /\ queue' \in Seq(Byte) /\ offset' = 0 /\ Packet(buffer')
      /\ UNCHANGED <<handler, lost>>
  BY <1>1, AheadTaken DEF HandleMouseInterrupt
<1> DEFINE p == <<b1, b2, b3>>
           t == queue'
           s == p \o t
           m == Meaning(p)
<1>4. p \in Seq(Byte) /\ Len(p) = 3 /\ p[1] = b1 /\ p[2] = b2 /\ p[3] = b3
  OBVIOUS
<1>5. Ahead = s /\ Sound(s)
  BY <1>1, <1>2, StepSound
<1> HIDE DEF p
<1>6. /\ s \in Seq(Byte) /\ Len(s) = Len(t) + 3
      /\ Whole(s) = Whole(t) + 1
      /\ Reports(s)[1] = Meaning(<<p[1], p[2], p[3]>>)
      /\ \A k \in 1 .. Whole(t) : Reports(s)[k + 1] = Reports(t)[k]
      /\ \A k \in 1 .. Whole(t) : s[3 * (k + 1) - 2] = t[3 * k - 2]
      /\ s[1] = p[1]
      /\ Reports(s) # <<>>
      /\ Head(Reports(s)) = Meaning(<<p[1], p[2], p[3]>>)
      /\ Tail(Reports(s)) = Reports(t)
  BY <1>3, <1>4, ReportsTail
<1>7. Meaning(<<p[1], p[2], p[3]>>) = m
  BY <1>4 DEF p
<1> HIDE DEF s, t, m
<1>8. FirstByte(b1) /\ {m.dx, m.dy} \subseteq -127 .. 127 /\ Sound(t)
  <2>1. t \in Seq(Byte) /\ Sound(p \o t)
    BY <1>3, <1>5 DEF s, t
  <2>2. QED
    BY <1>4, <1>7, <2>1, SoundTail
<1>9. InStep'
  BY <1>1, <1>3, <1>8, NextSound DEF t
<1>10. InFlight = Reports(s) /\ InFlight' = Reports(t)
  BY <1>3, <1>5 DEF InFlight, Reports, t
<1>11. /\ event' = PacketEvent(handler, buttons, p) /\ buttons' = b1
  <2>1. buffer' = p /\ buffer'[1] = b1
    BY <1>2, <1>4 DEF p
  <2>2. QED
    BY <1>3, <1>8, <2>1 DEF Packet, CallHandler
<1> DEFINE e == PacketEvent(handler, buttons, p)
<1>12. /\ e.move = IF "OnMouseMove" \in handler
                   THEN IF m.dx = 0 /\ m.dy = 0 THEN NoMove ELSE <<m.dx, -m.dy>>
                   ELSE NoMove
       /\ e.down = IF "OnMouseDown" \in handler THEN m.buttons \ Down(buttons) ELSE {}
       /\ e.up = IF "OnMouseUp" \in handler THEN Down(buttons) \ m.buttons ELSE {}
  BY <1>8, EventMeans DEF m, p
<1>13. e = [move |-> e.move, down |-> e.down, up |-> e.up]
  BY DEF PacketEvent
<1>14. m.buttons = Down(b1)
  BY DEF m, p, Meaning
<1> HIDE DEF e
<1>15. Abstract!Tell(IF m.dx = 0 /\ m.dy = 0 THEN Abstract!NoMove ELSE <<m.dx, -m.dy>>, m.buttons)
  <2>1. Down(buttons') = m.buttons
    BY <1>11, <1>14 DEF Down
  <2>2. event' = e /\ UNCHANGED <<handler, lost>>
    BY <1>3, <1>11 DEF e
  <2>3. QED
    BY <1>12, <1>13, <2>1, <2>2 DEF Abstract!Tell, Abstract!NoMove, NoMove
<1>16. Head(InFlight) = m /\ InFlight # <<>> /\ InFlight' = Tail(InFlight)
  BY <1>6, <1>7, <1>10
<1>17. QED
  BY <1>9, <1>15, <1>16 DEF Abstract!Deliver

\* The end of a packet, out of step.
LEMMA DriftRefines ==
  ASSUME IInv, IInv', HandleMouseInterrupt, handler # NoHandler, offset = 2, ~InStep
  PROVE  Abstract!Drift
<1>1. TypeOK /\ TypeOK'
  BY DEF IInv
<1>2. Packet(buffer') /\ UNCHANGED <<handler, lost>>
  BY <1>1, AheadTaken DEF HandleMouseInterrupt
<1> DEFINE b == buffer'
           e == PacketEvent(handler, buttons, b)
<1>3. CASE FirstByte(b[1])
  <2>1. event' = e /\ buttons' = b[1]
    BY <1>2, <1>3 DEF Packet, CallHandler
  <2>2. /\ e = [move |-> e.move, down |-> e.down, up |-> e.up]
        /\ "OnMouseMove" \notin handler => e.move = NoMove
        /\ e.down = IF "OnMouseDown" \in handler THEN Down(b[1]) \ Down(buttons) ELSE {}
        /\ e.up = IF "OnMouseUp" \in handler THEN Down(buttons) \ Down(b[1]) ELSE {}
    BY DEF PacketEvent
  <2>3. Down(b[1]) \in SUBSET {1, 2, 3} /\ Down(buttons') = Down(b[1])
    BY <2>1 DEF Down, Buttons
  <2> HIDE DEF e, b
  <2>4. Abstract!Tell(event'.move, Down(b[1]))
    BY <1>2, <2>1, <2>2, <2>3 DEF Abstract!Tell, Abstract!NoMove, NoMove
  <2>5. QED
    BY <2>3, <2>4 DEF Abstract!Drift
<1>4. CASE ~FirstByte(b[1])
  <2>1. UNCHANGED <<event, buttons>>
    BY <1>2, <1>4 DEF Packet, calls
  <2>2. Down(buttons') = Down(buttons)
    BY <2>1 DEF Down
  <2>3. QED
    BY <1>2, <2>1, <2>2 DEF Abstract!Drift
<1>5. QED
  BY <1>3, <1>4

\* Nothing the handler or the stream could show has changed.
LEMMA SameRefines ==
  ASSUME Ahead' = Ahead, UNCHANGED <<handler, buttons, event, lost>>
  PROVE  UNCHANGED <<InFlight, InStep, handler, Down(buttons), event, lost>>
<1>1. InFlight' = InFlight
  BY DEF InFlight, Reports
<1>2. InStep' = InStep
  BY <1>1 DEF InStep, Aligned
<1>3. Down(buttons') = Down(buttons)
  BY DEF Down
<1>4. QED
  BY <1>1, <1>2, <1>3

\* A byte taken is a delivery, a drift or no change.
LEMMA HandleRefines ==
  ASSUME IInv, IInv', HandleMouseInterrupt
  PROVE  Abstract!Next \/ UNCHANGED Abstract!rvars
<1>1. TypeOK /\ TypeOK'
  BY DEF IInv
<1>2. CASE handler = NoHandler
  <2>1. ~InStep
    BY <1>2 DEF InStep, Aligned
  <2>2. UNCHANGED <<handler, buttons, event, lost>>
    BY <1>2 DEF HandleMouseInterrupt, calls
  <2>3. Down(buttons') = Down(buttons)
    BY <2>2 DEF Down
  <2>4. QED
    BY <2>1, <2>2, <2>3 DEF Abstract!Next, Abstract!Drift
<1>3. CASE handler # NoHandler /\ offset < 2
  <2>1. Ahead' = Ahead
    BY <1>1, <1>3, AheadKept
  <2>2. offset' = (offset + 1) % 3 /\ offset \in 0 .. 1
    BY <1>1, <1>3 DEF HandleMouseInterrupt, TypeOK
  <2>3. offset' # 0
    BY <2>2
  <2>4. UNCHANGED <<handler, buttons, event, lost>>
    BY <1>3, <2>3 DEF HandleMouseInterrupt, calls
  <2>5. QED
    BY <2>1, <2>4, SameRefines DEF Abstract!rvars
<1>4. CASE handler # NoHandler /\ offset = 2
  BY <1>4, DeliverRefines, DriftRefines DEF Abstract!Next
<1>5. QED
  BY <1>1, <1>2, <1>3, <1>4 DEF TypeOK

\* Every step of the driver is one of MouseReports or no change.
LEMMA StepRefines ==
  ASSUME DeltasFit, IInv, IInv', [Next]_vars
  PROVE  [Abstract!Next]_Abstract!rvars
<1>1. CASE SendPacket
  BY <1>1, SendRefines
<1>2. CASE LoseByte
  BY <1>2, LoseRefines
<1>3. CASE \E h \in Handlers : InitDriver(h)
  BY <1>3, InitRefines DEF IInv
<1>4. CASE HandleMouseInterrupt
  BY <1>4, HandleRefines
<1>5. CASE UNCHANGED vars
  <2>1. Ahead' = Ahead
    BY <1>5 DEF vars, Ahead
  <2>2. QED
    BY <1>5, <2>1, SameRefines DEF vars, calls, counters, Abstract!rvars
<1>6. QED
  BY <1>1, <1>2, <1>3, <1>4, <1>5 DEF Next

\* Whatever movements of up to seven bits and a sign a mouse reports, whichever
\* bytes are lost and however often init_mouse_driver is called, the driver
\* does what MouseReports allows: in step every report is delivered once, in
\* order and as it was made, and out of step presses and releases are still
\* changes of one state of the buttons.
THEOREM Refinement == DeltasFit /\ SafeSpec => Abstract!SafeSpec
<1>1. Init => Abstract!Init
  <2>1. Down(0) = {}
    BY DEF Down, Bit, Mask, Buttons
  <2>2. QED
    BY <2>1 DEF Init, Abstract!Init, NoEvent, NoMove, Abstract!NoEvent, Abstract!NoMove
<1>2. DeltasFit /\ IInv /\ IInv' /\ [Next]_vars => [Abstract!Next]_Abstract!rvars
  BY StepRefines
<1>3. SafeSpec => []IInv
  BY Invariance
<1> DEFINE J == DeltasFit
<1>4. J /\ IInv /\ IInv' /\ [Next]_vars => [Abstract!Next]_Abstract!rvars
  BY <1>2
<1>5. J => []J
  <2>1. J => J'
    BY DEF DeltasFit
  <2>2. QED
    BY <2>1, PTL
<1> HIDE DEF J
<1>6. J /\ SafeSpec => Abstract!SafeSpec
  BY <1>1, <1>3, <1>4, <1>5, PTL DEF SafeSpec, Abstract!SafeSpec
<1>7. QED
  BY <1>6 DEF J

-----------------------------------------------------------------------------
(* Without a loss the bytes stay in step                                   *)

\* Once as many acknowledgements are ahead as make whole packets, only a loss
\* makes a packet of the bytes of two reports.
CleanInv ==
  lost = 0 /\ handler # NoHandler /\ Len(Ahead) % 3 = 0 => Sound(Ahead)

\* Acknowledgements that make whole packets are taken for a small movement.
LEMMA CleanStart ==
  ASSUME TypeOK, NEW h \in Handlers, InitDriver(h), TypeOK', lost' = 0
  PROVE  CleanInv'
<1>1. /\ Ahead' \in Seq(Byte) /\ Len(Ahead') = Len(queue')
      /\ \A i \in 1 .. Len(queue') : Ahead'[i] = queue'[i]
  <2>1. offset' = 0 /\ queue' \in Seq(Byte)
    BY DEF InitDriver, TypeOK
  <2>2. /\ Ahead' \in Seq(Byte) /\ Len(Ahead') = offset' + Len(queue')
        /\ \A i \in 1 .. Len(queue') : Ahead'[offset' + i] = queue'[i]
    BY NextAhead
  <2>3. QED
    BY <2>1, <2>2
<1>2. \A i \in 1 .. Len(queue') : queue'[i] = 250
  <2>1. PICK a \in AckCounts : queue' = [i \in 1 .. a |-> Acknowledge]
    <3>1. lost \in Nat
      BY MouseAssumption DEF TypeOK
    <3>2. lost' = lost
      BY <3>1, InitDriverQueue
    <3>3. QED
      BY <3>2, InitDriverQueue
  <2>2. a \in Nat
    BY MouseAssumption
  <2>3. Len(queue') = a
    BY <2>1, <2>2
  <2>4. QED
    BY <2>1, <2>3 DEF Acknowledge
<1>3. FirstByte(250) /\ Bit(250, 16) /\ Bit(250, 32)
  BY DEF FirstByte, Bit
<1> DEFINE s == Ahead'
<1>4. \A i \in 1 .. Len(s) : s[i] = 250
  BY <1>1, <1>2
<1>5. s \in Seq(Byte)
  BY <1>1
<1> HIDE DEF s
<1>6. ASSUME NEW k \in 1 .. Whole(s)
      PROVE  FirstByte(s[3 * k - 2]) /\ {Reports(s)[k].dx, Reports(s)[k].dy} \subseteq -127 .. 127
  <2>1. /\ 3 * k - 2 \in 1 .. Len(s) /\ 3 * k - 1 \in 1 .. Len(s) /\ 3 * k \in 1 .. Len(s)
    <3>1. Len(s) \in Nat
      BY <1>5
    <3>2. QED
      BY <3>1, Thirds DEF Whole
  <2>2. s[3 * k - 2] = 250 /\ s[3 * k - 1] = 250 /\ s[3 * k] = 250
    BY <1>4, <2>1
  <2>3. Reports(s)[k] = Meaning(<<250, 250, 250>>)
    BY <1>5, <2>2, ReportsAt
  <2>4. Meaning(<<250, 250, 250>>).dx = -6 /\ Meaning(<<250, 250, 250>>).dy = -6
    BY <1>3 DEF Meaning
  <2>5. QED
    BY <1>3, <2>2, <2>3, <2>4
<1>7. Len(s) % 3 = 0 => Sound(s)
  BY <1>6 DEF Sound
<1>8. QED
  BY <1>7 DEF CleanInv, s, Sound, Whole, Reports

\* A report more, a packet taken or a byte kept: the rest stays sound.
LEMMA CleanNext ==
  ASSUME DeltasFit, TypeOK, TypeOK', CleanInv, [Next]_vars
  PROVE  CleanInv'
<1>1. SUFFICES ASSUME lost' = 0, handler' # NoHandler, Len(Ahead') % 3 = 0,
                      ~\E h \in Handlers : InitDriver(h)
               PROVE  Sound(Ahead')
  <2>1. Sound(Ahead)' <=> Sound(Ahead')
    BY DEF Sound, Whole, Reports
  <2>2. QED
    BY <2>1, CleanStart DEF CleanInv
<1>2. Ahead \in Seq(Byte) /\ Len(Ahead) \in Nat
  BY AheadType
<1>3. CASE SendPacket
  <2>1. lost = 0 /\ handler # NoHandler
    BY <1>1, <1>3 DEF SendPacket
  <2>2. PICK q \in Seq(Byte) :
          /\ Ahead' = Ahead \o q /\ Len(q) = 3 /\ FirstByte(q[1])
          /\ {Meaning(<<q[1], q[2], q[3]>>).dx, Meaning(<<q[1], q[2], q[3]>>).dy} \subseteq -127 .. 127
    BY <1>3, AheadGrows
  <2>3. Len(Ahead') = Len(Ahead) + 3
    <3> DEFINE s == Ahead
    <3>1. s \in Seq(Byte) /\ Ahead' = s \o q
      BY <1>2, <2>2
    <3> HIDE DEF s
    <3>2. Len(s \o q) = Len(s) + Len(q)
      BY <3>1, ConcatProperties, Zenon
    <3>3. QED
      BY <2>2, <3>1, <3>2 DEF s
  <2>4. Len(Ahead) % 3 = 0
    BY <1>1, <1>2, <2>3, Thirds
  <2>5. Sound(Ahead)
    BY <2>1, <2>4 DEF CleanInv
  <2>6. QED
    BY <1>2, <2>2, <2>5, SoundMore
<1>4. CASE LoseByte
  BY <1>1, <1>4 DEF LoseByte, TypeOK
<1>5. CASE HandleMouseInterrupt
  <2>1. lost = 0 /\ handler # NoHandler /\ offset \in 0 .. 2
    BY <1>1, <1>5 DEF HandleMouseInterrupt, TypeOK
  <2>2. CASE offset < 2
    <3>1. Ahead' = Ahead
      BY <1>5, <2>1, <2>2, AheadKept
    <3>2. QED
      BY <1>1, <2>1, <3>1 DEF CleanInv
  <2>3. CASE offset = 2
    <3>1. PICK b1, b2, b3 \in Byte : Ahead = <<b1, b2, b3>> \o queue'
      BY <1>5, <2>1, <2>3, AheadTaken
    <3>2. Ahead' = queue' /\ queue' \in Seq(Byte)
      BY <1>5, <2>1, <2>3, AheadTaken
    <3> DEFINE p == <<b1, b2, b3>>
    <3>3. p \in Seq(Byte) /\ Len(p) = 3
      OBVIOUS
    <3>4. Ahead = p \o queue'
      BY <3>1
    <3> HIDE DEF p
    <3>5. Len(Ahead) = Len(queue') + 3 /\ Len(queue') \in Nat
      BY <3>2, <3>3, <3>4, ReportsTail
    <3>6. Len(Ahead) % 3 = 0
      BY <1>1, <3>2, <3>5, Thirds
    <3>7. Sound(p \o queue')
      BY <2>1, <3>4, <3>6 DEF CleanInv
    <3>8. QED
      BY <3>2, <3>3, <3>7, SoundTail
  <2>4. QED
    BY <2>1, <2>2, <2>3
<1>6. CASE UNCHANGED vars
  <2>1. Ahead' = Ahead /\ lost = 0 /\ handler # NoHandler
    BY <1>1, <1>6 DEF vars, counters, Ahead
  <2>2. QED
    BY <1>1, <2>1 DEF CleanInv
<1>7. QED
  BY <1>1, <1>3, <1>4, <1>5, <1>6 DEF Next

\* A delivered movement has the signs of the one reported.
LEMMA SignKept ==
  ASSUME IInv, IInv', CleanInv, [Next]_vars,
         Aligned, lost = 0, offset' = 0, offset = 2, inits' = inits, event'.move # NoMove
  PROVE  LET m == Head(InFlight)
         IN  /\ m.dx > 0 <=> event'.move[1] > 0
             /\ m.dx < 0 <=> event'.move[1] < 0
             /\ m.dy > 0 <=> event'.move[2] < 0
             /\ m.dy < 0 <=> event'.move[2] > 0
<1>1. HandleMouseInterrupt
  <2>1. ~SendPacket /\ ~LoseByte /\ ~UNCHANGED vars
    BY DEF SendPacket, LoseByte, vars
  <2>2. ASSUME NEW h \in Handlers, InitDriver(h) PROVE FALSE
    <3>1. inits \in Nat
      BY MouseAssumption DEF IInv, TypeOK
    <3>2. QED
      BY <2>2, <3>1 DEF InitDriver
  <2>3. QED
    BY <2>1, <2>2 DEF Next
<1>2. handler # NoHandler /\ InStep
  BY StepSound DEF CleanInv, Aligned, IInv
<1>3. Abstract!Deliver
  BY <1>1, <1>2, DeliverRefines
<1> DEFINE m == Head(InFlight)
<1>4. event'.move = IF "OnMouseMove" \in handler
                    THEN IF m.dx = 0 /\ m.dy = 0 THEN NoMove ELSE <<m.dx, -m.dy>>
                    ELSE NoMove
  BY <1>3 DEF Abstract!Deliver, Abstract!Tell, Abstract!NoMove, NoMove
<1>5. m.dx \in Int /\ m.dy \in Int
  <2> DEFINE T == [dx : Int, dy : Int, buttons : SUBSET Buttons]
  <2>1. InFlight \in Seq(T) /\ InFlight # <<>>
    BY <1>3, AheadType, ReportsAt DEF InFlight, Abstract!Deliver, IInv
  <2> HIDE DEF T
  <2>2. m \in T
    BY <2>1
  <2>3. QED
    BY <2>2 DEF T
<1> HIDE DEF m
<1>6. event'.move = <<m.dx, -m.dy>>
  BY <1>4
<1>7. QED
  BY <1>5, <1>6 DEF m

\* As long as no byte is lost, a movement of up to seven bits and a sign keeps
\* its direction on both axes, whatever acknowledgements are read as packets.
THEOREM DirectionKept == DeltasFit /\ SafeSpec => MovementKeepsSign
<1> DEFINE J == DeltasFit
<1>1. J => []J
  <2>1. J => J'
    BY DEF DeltasFit
  <2>2. QED
    BY <2>1, PTL
<1>2. Init => CleanInv
  BY DEF Init, CleanInv
<1>3. J /\ IInv /\ IInv' /\ CleanInv /\ [Next]_vars => CleanInv'
  BY CleanNext DEF IInv
<1>4. IInv /\ IInv' /\ CleanInv /\ [Next]_vars
      => [Aligned /\ lost = 0 /\ offset' = 0 /\ offset = 2 /\ inits' = inits
          /\ event'.move # NoMove /\ InFlight # <<>> =>
            LET m == Head(InFlight) IN
            /\ m.dx > 0 <=> event'.move[1] > 0
            /\ m.dx < 0 <=> event'.move[1] < 0
            /\ m.dy > 0 <=> event'.move[2] < 0
            /\ m.dy < 0 <=> event'.move[2] > 0]_vars
  BY SignKept
<1> HIDE DEF J
<1>5. J /\ SafeSpec => MovementKeepsSign
  BY <1>1, <1>2, <1>3, <1>4, Invariance, PTL DEF SafeSpec, MovementKeepsSign
<1>6. QED
  BY <1>5 DEF J
=============================================================================
