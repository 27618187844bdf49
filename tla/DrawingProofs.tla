---------------------------- MODULE DrawingProofs ----------------------------
(***************************************************************************)
(* Proofs about the drawing loop in module Kernel: for every screen and    *)
(* every scene, a complete frame shows the widget drawn last at each       *)
(* point, whatever interrupts come.                                        *)
(***************************************************************************)
EXTENDS ScanProofs, WellFoundedInduction

-----------------------------------------------------------------------------
(* Numbers                                                                 *)

LEMMA Greatest ==
  ASSUME NEW n \in Nat, NEW S \in SUBSET (1 .. n), S # {}
  PROVE  \E i \in S : \A j \in S : j <= i
<1> DEFINE R == OpToRel(<, Nat)
           T == {n - i : i \in S}
<1>1. IsWellFoundedOn(R, Nat)
  BY NatLessThanWellFounded
<1>2. \A a, b \in Nat : <<a, b>> \in R <=> a < b
  BY DEF OpToRel
<1>3. T \subseteq Nat /\ T # {}
  <2>1. \A i \in S : i \in 1 .. n /\ n - i \in Nat
    OBVIOUS
  <2>2. \A y \in T : y \in Nat
    BY <2>1
  <2>3. QED
    BY <2>2
<1> HIDE DEF R, T
<1>4. PICK x \in T : \A y \in T : ~ (<<y, x>> \in R)
  BY <1>1, <1>3, WFMin
<1>5. \A y \in T : y \in Nat /\ ~(y < x)
  BY <1>2, <1>3, <1>4
<1>6. PICK i \in S : x = n - i
  BY DEF T
<1>7. \A j \in S : j \in Nat /\ ~(n - j < n - i)
  <2>1. SUFFICES ASSUME NEW j \in S PROVE j \in Nat /\ ~(n - j < n - i)
    OBVIOUS
  <2>2. n - j \in T
    BY DEF T
  <2>3. QED
    BY <1>5, <1>6, <2>2
<1>8. i \in Nat /\ \A j \in S : j <= i
  BY <1>7
<1>9. QED
  BY <1>8

\* An offset and the point it is the offset of.
LEMMA OffsetOf ==
  ASSUME NEW x \in 0 .. Width - 1, NEW y \in Nat
  PROVE  PixelOffset(x, y) % Width = x /\ PixelOffset(x, y) \div Width = y
<1> DEFINE w == Width
<1>1. w \in Nat \ {0} /\ x \in 0 .. w - 1
  BY ScreenAssumption
<1> HIDE DEF w
<1>2. (w * y + x) % w = x
  BY <1>1
<1>3. (w * y + x) \div w = y
  BY <1>1
<1>4. QED
  BY <1>2, <1>3 DEF PixelOffset, w

LEMMA PointOf ==
  ASSUME NEW o \in Offsets
  PROVE  /\ o % Width \in 0 .. Width - 1 /\ o \div Width \in 0 .. Height - 1
         /\ o = PixelOffset(o % Width, o \div Width)
<1> DEFINE w == Width
           h == Height
           y == o \div w
           x == o % w
<1>1. w \in Nat \ {0} /\ h \in Nat \ {0} /\ o \in Nat /\ o <= w * h - 1
  <2>1. w * h \in Nat
    BY ScreenAssumption
  <2>2. QED
    BY <2>1, ScreenAssumption DEF Offsets
<1> HIDE DEF w, h
<1>2. o = w * y + x /\ x \in 0 .. w - 1 /\ y \in Nat
  BY <1>1
<1> HIDE DEF x, y
<1>3. y <= h - 1
  <2>1. SUFFICES ASSUME y >= h PROVE FALSE
    BY <1>1, <1>2
  <2>2. w * y >= w * h
    BY <1>1, <1>2, <2>1
  <2>3. w * y \in Nat /\ w * h \in Nat
    BY <1>1, <1>2
  <2>4. QED
    BY <1>1, <1>2, <2>2, <2>3
<1>4. QED
  BY <1>1, <1>2, <1>3 DEF PixelOffset, w, h, x, y

-----------------------------------------------------------------------------
(* What has been painted of the frame in progress                          *)

\* Painted, when the kernel is at a label with a widget, at point (x, y).
Painted(k, o, label, w, x, y) ==
  Covers(k, o) /\ (k < w \/ (k = w /\ label \in Filling /\ Passed(o, x, y)))

ShowsPainted(pixels, label, w, x, y) ==
  \A o \in Offsets : \A k \in Widgets :
    /\ Painted(k, o, label, w, x, y)
    /\ \A j \in Widgets : Painted(j, o, label, w, x, y) => j <= k
    => pixels[o] = Color(k)

ShowsScene(pixels) ==
  \A o \in Offsets : \A k \in Widgets :
    Covers(k, o) /\ (\A j \in Widgets : Covers(j, o) => j <= k) => pixels[o] = Color(k)

PaintInv ==
  /\ screen \in [Offsets -> Byte]
  /\ Base.eip \notin Drawing => fill.widget = 1 /\ drawn = FALSE
  /\ Base.eip \in Filling => Drawn.x <= fill.x /\ Drawn.y <= fill.y
  /\ Base.eip \in {"segment", "store"} => InRow
  /\ ShowsPainted(screen, Base.eip, fill.widget, fill.x, fill.y)
  /\ drawn /\ Base.eip = "fill" /\ fill.widget = 1 => ShowsScene(screen)

LEMMA ColorByte == \A k : Color(k) \in Byte
<1>1. 0 \in Byte /\ 1 \in Byte /\ 2 \in Byte /\ 4 \in Byte /\ 63 \in Byte
  BY DEF Byte
<1>2. QED
  BY <1>1 DEF Color, ColorIndex

LEMMA DrawnIs ==
  ASSUME fill \in FillType
  PROVE  /\ fill.widget \in Widgets /\ Drawn = Scene[fill.widget]
         /\ Drawn.x \in Int /\ Drawn.y \in Int /\ Drawn.w \in Nat /\ Drawn.h \in Nat
         /\ fill.x \in Int /\ fill.y \in Int /\ Len(Scene) \in Nat /\ Len(Scene) >= 1
<1>1. fill.widget \in Widgets /\ fill.x \in Int /\ fill.y \in Int
  BY DEF FillType, Widgets
<1>2. Drawn \in Rectangle
  BY <1>1, SceneType DEF Drawn, Widgets
<1>3. QED
  BY <1>1, <1>2, SceneType DEF Rectangle, Drawn

\* A step after which the same has been painted.
LEMMA SamePainted ==
  ASSUME NEW p, NEW l, NEW w, NEW x, NEW y, NEW m, NEW v, NEW a, NEW b,
         \A k \in Widgets : \A o \in Offsets : Painted(k, o, l, w, x, y) <=> Painted(k, o, m, v, a, b),
         ShowsPainted(p, l, w, x, y)
  PROVE  ShowsPainted(p, m, v, a, b)
<1> SUFFICES ASSUME NEW o \in Offsets, NEW k \in Widgets, Painted(k, o, m, v, a, b),
                    \A j \in Widgets : Painted(j, o, m, v, a, b) => j <= k
             PROVE  p[o] = Color(k)
  BY DEF ShowsPainted
<1>1. Painted(k, o, l, w, x, y) /\ \A j \in Widgets : Painted(j, o, l, w, x, y) => j <= k
  OBVIOUS
<1>2. QED
  BY <1>1 DEF ShowsPainted

\* The coordinates of a point of the screen, and of the widgets.
LEMMA Coordinates ==
  /\ \A o \in Offsets : o % Width \in Int /\ o \div Width \in Int
  /\ \A k \in Widgets : /\ k \in Int /\ Scene[k].x \in Int /\ Scene[k].y \in Int
                        /\ Scene[k].w \in Nat /\ Scene[k].h \in Nat
<1>1. \A o \in Offsets : o % Width \in Int /\ o \div Width \in Int
  <2>1. SUFFICES ASSUME NEW o \in Offsets PROVE o % Width \in Int /\ o \div Width \in Int
    OBVIOUS
  <2>2. o % Width \in 0 .. Width - 1 /\ o \div Width \in 0 .. Height - 1
    BY PointOf
  <2>3. QED
    BY <2>2
<1>2. QED
  BY <1>1, SceneType DEF Rectangle, Widgets

\* The start of a widget: none of its points has been passed.
LEMMA NothingPassed ==
  ASSUME NEW w \in Widgets, NEW o \in Offsets, Covers(w, o)
  PROVE  ~Passed(o, Scene[w].x, Scene[w].y)
<1> DEFINE a == o % Width
           b == o \div Width
           x == Scene[w].x
           y == Scene[w].y
<1>1. a \in Int /\ b \in Int /\ x \in Int /\ y \in Int /\ x <= a /\ y <= b
  BY Coordinates DEF Covers
<1>2. Passed(o, x, y) <=> b < y \/ (b = y /\ a < x)
  BY DEF Passed
<1> HIDE DEF a, b, x, y
<1>3. ~Passed(o, x, y)
  BY <1>1, <1>2
<1>4. QED
  BY <1>3 DEF x, y

\* The end of a widget: all of them have.
LEMMA AllPassed ==
  ASSUME NEW w \in Widgets, NEW o \in Offsets, Covers(w, o), NEW x, NEW y \in Int,
         y >= Scene[w].y + Scene[w].h
  PROVE  Passed(o, x, y)
<1> DEFINE b == o \div Width
           z == Scene[w].y
           h == Scene[w].h
<1>1. b \in Int /\ z \in Int /\ h \in Nat /\ b < z + h /\ y >= z + h
  BY Coordinates DEF Covers
<1> HIDE DEF b, z, h
<1>2. b < y
  BY <1>1
<1>3. QED
  BY <1>2 DEF Passed, b

\* The end of a row.
LEMMA RowPassed ==
  ASSUME NEW w \in Widgets, NEW o \in Offsets, Covers(w, o), NEW x \in Int, NEW y \in Int,
         x >= Scene[w].x + Scene[w].w
  PROVE  Passed(o, Scene[w].x, y + 1) <=> Passed(o, x, y)
<1> DEFINE a == o % Width
           b == o \div Width
           z == Scene[w].x
           n == Scene[w].w
<1>1. a \in Int /\ b \in Int /\ z \in Int /\ n \in Nat /\ z <= a /\ a < z + n /\ x >= z + n
  BY Coordinates DEF Covers
<1>2. /\ Passed(o, z, y + 1) <=> b < y + 1 \/ (b = y + 1 /\ a < z)
      /\ Passed(o, x, y) <=> b < y \/ (b = y /\ a < x)
  BY DEF Passed
<1> HIDE DEF a, b, z, n
<1>3. Passed(o, z, y + 1) <=> Passed(o, x, y)
  BY <1>1, <1>2
<1>4. QED
  BY <1>3 DEF z

\* One pixel further.
LEMMA PixelPassed ==
  ASSUME NEW o \in Offsets, NEW x \in Int, NEW y \in Int
  PROVE  Passed(o, x + 1, y) <=> Passed(o, x, y) \/ (o % Width = x /\ o \div Width = y)
<1> DEFINE a == o % Width
           b == o \div Width
<1>1. a \in Int /\ b \in Int
  BY Coordinates
<1>2. /\ Passed(o, x + 1, y) <=> b < y \/ (b = y /\ a < x + 1)
      /\ Passed(o, x, y) <=> b < y \/ (b = y /\ a < x)
  BY DEF Passed
<1> HIDE DEF a, b
<1>3. Passed(o, x + 1, y) <=> Passed(o, x, y) \/ (a = x /\ b = y)
  BY <1>1, <1>2
<1>4. QED
  BY <1>3 DEF a, b

\* Where no pixel is put, there is no point of the screen.
LEMMA ClippedNowhere ==
  ASSUME NEW o \in Offsets, NEW x, NEW y, Clipped(x, y)
  PROVE  ~(o % Width = x /\ o \div Width = y)
  BY PointOf, ScreenAssumption DEF Clipped

-----------------------------------------------------------------------------
(* Preservation                                                            *)

LEMMA PaintInit == Init => PaintInv
<1> SUFFICES ASSUME Init PROVE PaintInv
  OBVIOUS
<1>1. /\ Base = cpu /\ cpu.eip = "start" /\ drawn = FALSE
      /\ fill = [widget |-> 1, x |-> 0, y |-> 0] /\ screen = [o \in Offsets |-> 170]
  BY DEF Init, Depth, Base, M
<1>2. 170 \in Byte
  BY DEF Byte
<1>3. screen \in [Offsets -> Byte]
  BY <1>1, <1>2
<1>4. ShowsPainted(screen, "start", 1, 0, 0)
  BY DEF ShowsPainted, Painted, Filling, Widgets
<1>5. QED
  BY <1>1, <1>3, <1>4 DEF PaintInv, Filling

\* A step that changes neither the screen nor what is being drawn, nor where.
LEMMA PaintStill ==
  ASSUME PaintInv, Base' = Base, fill' = fill, screen' = screen, drawn' = drawn
  PROVE  PaintInv'
  BY DEF PaintInv, Drawn, InRow

\* The steps before the drawing loop, the last of which enters it.
LEMMA PaintBefore ==
  ASSUME PaintInv, fill' = fill, screen' = screen, drawn' = drawn,
         Base.eip \notin Drawing, Base'.eip \notin Drawing \/ Base'.eip = "fill"
  PROVE  PaintInv'
<1>1. Base.eip \notin Filling /\ Base'.eip \notin Filling
      /\ Base'.eip \notin {"segment", "store"} /\ drawn = FALSE /\ fill.widget = 1
  BY DEF Filling, Drawing, PaintInv
<1> DEFINE w == fill.widget
           x == fill.x
           y == fill.y
           l == Base.eip
           m == Base'.eip
<1>2. ShowsPainted(screen, l, w, x, y)
  BY DEF PaintInv
<1>3. \A k \in Widgets : \A o \in Offsets : Painted(k, o, l, w, x, y) <=> Painted(k, o, m, w, x, y)
  BY <1>1 DEF Painted
<1> HIDE DEF w, x, y, l, m
<1>4. ShowsPainted(screen, m, w, x, y)
  BY <1>2, <1>3, SamePainted
<1>5. QED
  BY <1>1, <1>4 DEF PaintInv, w, x, y, m

\* A step of the drawing loop that stores nothing and stays with its widget.
LEMMA PaintMoved ==
  ASSUME PaintInv, Base.eip \in Drawing, NEW m \in Filling, Base'.eip = m, m = "pixel" \/ InRow',
         NEW a \in Int, NEW b \in Int, fill' = [fill EXCEPT !.x = a, !.y = b], fill \in FillType,
         Drawn.x <= a, Drawn.y <= b, screen' = screen, drawn' = drawn,
         \A k \in Widgets : \A o \in Offsets :
           Painted(k, o, Base.eip, fill.widget, fill.x, fill.y)
             <=> Painted(k, o, m, fill.widget, a, b)
  PROVE  PaintInv'
<1>1. fill'.widget = fill.widget /\ fill'.x = a /\ fill'.y = b
  BY DEF FillType
<1>2. Drawn' = Drawn
  BY <1>1 DEF Drawn
<1>3. Base'.eip \in Drawing /\ Base'.eip # "fill"
  BY DEF Filling, Drawing
<1> DEFINE w == fill.widget
           x == fill.x
           y == fill.y
           l == Base.eip
<1>4. ShowsPainted(screen, l, w, x, y)
  BY DEF PaintInv
<1>5. \A k \in Widgets : \A o \in Offsets : Painted(k, o, l, w, x, y) <=> Painted(k, o, m, w, a, b)
  OBVIOUS
<1> HIDE DEF w, x, y, l
<1>6. ShowsPainted(screen, m, w, a, b)
  BY <1>4, <1>5, SamePainted
<1>7. ShowsPainted(screen', Base'.eip, fill'.widget, fill'.x, fill'.y)
  BY <1>1, <1>6 DEF w
<1>8. QED
  BY <1>1, <1>2, <1>3, <1>7 DEF PaintInv

\* Where a step of the drawing loop comes from and goes to.
LEMMA DrawsFrom ==
  ASSUME IInv, IInv', cpu.eip \in Drawing
  PROVE  /\ Base = cpu /\ fill \in FillType
         /\ \A l \in Drawing : Goto(l) => Base' = cpu' /\ Base'.eip = l
         /\ cpu' = cpu => Base' = Base
         /\ cpu'.eip \notin Handling => Base' = cpu'
<1>1. (cpu.eip \notin Handling => Base = cpu)'
  BY BaseIsCpu, PTL DEF IInv
<1>2. cpu.eip \notin Handling
  BY DEF Drawing, Handling
<1>3. Base = cpu
  BY <1>2, BaseIsCpu DEF IInv
<1>4. ASSUME NEW l \in Drawing, Goto(l) PROVE Base' = cpu' /\ Base'.eip = l
  <2>1. l \in Labels /\ l \notin Handling
    BY DrawingLabels
  <2>2. cpu'.eip = l
    BY <1>4, <2>1, Went
  <2>3. QED
    BY <1>1, <2>1, <2>2
<1>5. cpu' = cpu => Base' = Base
  BY <1>1, <1>2, <1>3
<1>6. cpu'.eip \notin Handling => Base' = cpu'
  BY <1>1
<1>7. QED
  BY <1>3, <1>4, <1>5, <1>6 DEF IInv, DataInv

LEMMA PaintStartFill == IInv /\ IInv' /\ PaintInv /\ StartFill => PaintInv'
<1> SUFFICES ASSUME IInv, IInv', PaintInv, StartFill PROVE PaintInv'
  OBVIOUS
<1>1. cpu.eip = "fill" /\ cpu.eip \in Drawing /\ "pixel" \in Drawing /\ Goto("pixel")
  BY DEF StartFill, At, Drawing
<1>2. Base.eip = "fill" /\ Base'.eip = "pixel" /\ fill \in FillType
  BY <1>1, DrawsFrom
<1> DEFINE w == fill.widget
           a == Drawn.x
           b == Drawn.y
<1>3. w \in Widgets /\ a = Scene[w].x /\ b = Scene[w].y /\ a \in Int /\ b \in Int
  BY <1>2, DrawnIs
<1>4. fill' = [fill EXCEPT !.x = a, !.y = b] /\ screen' = screen /\ drawn' = drawn
  BY DEF StartFill, Moving
<1>5. \A k \in Widgets : \A o \in Offsets :
        Painted(k, o, "fill", w, fill.x, fill.y) <=> Painted(k, o, "pixel", w, a, b)
  BY <1>3, NothingPassed DEF Painted, Filling
<1>6. a <= a /\ b <= b
  BY <1>3
<1>7. QED
  BY <1>1, <1>2, <1>3, <1>4, <1>5, <1>6, PaintMoved DEF Filling

LEMMA PaintSkipPixel == IInv /\ IInv' /\ PaintInv /\ SkipPixel => PaintInv'
<1> SUFFICES ASSUME IInv, IInv', PaintInv, SkipPixel PROVE PaintInv'
  OBVIOUS
<1>1. cpu.eip = "pixel" /\ cpu.eip \in Drawing /\ cpu' = cpu
  BY DEF SkipPixel, At, Drawing
<1>2. Base.eip = "pixel" /\ Base'.eip = "pixel" /\ fill \in FillType
  BY <1>1, DrawsFrom
<1> DEFINE w == fill.widget
           x == fill.x
           y == fill.y
<1>3. x \in Int /\ y \in Int /\ Drawn.x \in Int /\ Drawn.x <= x /\ Drawn.y <= y
  BY <1>2, DrawnIs DEF PaintInv, Filling
<1>4. fill' = [fill EXCEPT !.x = x + 1, !.y = y] /\ screen' = screen /\ drawn' = drawn
      /\ Clipped(x, y)
  BY <1>2 DEF SkipPixel, Moving, FillType
<1>5. \A k \in Widgets : \A o \in Offsets :
        Painted(k, o, "pixel", w, x, y) <=> Painted(k, o, "pixel", w, x + 1, y)
  BY <1>3, <1>4, PixelPassed, ClippedNowhere DEF Painted
<1>6. Drawn.x <= x + 1 /\ x + 1 \in Int
  BY <1>3
<1>7. \A k \in Widgets : \A o \in Offsets :
        Painted(k, o, Base.eip, w, x, y) <=> Painted(k, o, "pixel", w, x + 1, y)
  BY <1>2, <1>5
<1>8. "pixel" \in Filling /\ Base.eip \in Drawing /\ Drawn.y <= y
  BY <1>1, <1>2, <1>3 DEF Filling
<1>9. QED
  BY <1>2, <1>3, <1>4, <1>6, <1>7, <1>8, PaintMoved

LEMMA PaintNextRow == IInv /\ IInv' /\ PaintInv /\ NextRow => PaintInv'
<1> SUFFICES ASSUME IInv, IInv', PaintInv, NextRow PROVE PaintInv'
  OBVIOUS
<1>1. cpu.eip = "pixel" /\ cpu.eip \in Drawing /\ cpu' = cpu
  BY DEF NextRow, At, Drawing
<1>2. Base.eip = "pixel" /\ Base'.eip = "pixel" /\ fill \in FillType
  BY <1>1, DrawsFrom
<1> DEFINE w == fill.widget
           x == fill.x
           y == fill.y
           a == Drawn.x
<1>3. /\ w \in Widgets /\ x \in Int /\ y \in Int /\ a \in Int /\ Drawn.y \in Int
      /\ Drawn.w \in Nat /\ Drawn = Scene[w] /\ Drawn.y <= y
  BY <1>2, DrawnIs DEF PaintInv, Filling
<1>4. fill' = [fill EXCEPT !.x = a, !.y = y + 1] /\ screen' = screen /\ drawn' = drawn
      /\ x >= a + Drawn.w
  BY <1>3 DEF NextRow, Moving, InRow
<1>5. \A k \in Widgets : \A o \in Offsets :
        Painted(k, o, "pixel", w, x, y) <=> Painted(k, o, "pixel", w, a, y + 1)
  BY <1>3, <1>4, RowPassed DEF Painted
<1>6. a <= a /\ Drawn.y <= y + 1 /\ y + 1 \in Int
  BY <1>3
<1>7. \A k \in Widgets : \A o \in Offsets :
        Painted(k, o, Base.eip, w, x, y) <=> Painted(k, o, "pixel", w, a, y + 1)
  BY <1>2, <1>5
<1>8. "pixel" \in Filling /\ Base.eip \in Drawing
  BY <1>1, <1>2 DEF Filling
<1>9. QED
  BY <1>2, <1>3, <1>4, <1>6, <1>7, <1>8, PaintMoved

\* The two accesses to the adapter.
LEMMA FetchStays ==
  ASSUME IInv, IInv', PaintInv, PutPixel \/ ReadSegment
  PROVE  Base'.eip \in {"segment", "store"} /\ InRow
<1>1. cpu.eip \in Drawing /\ cpu.eip \in Filling
  BY DEF PutPixel, ReadSegment, At, Drawing, Filling
<1>2. Base = cpu /\ fill \in FillType
  BY <1>1, DrawsFrom
<1>3. Base'.eip \in {"segment", "store"} /\ InRow
  <2>1. CASE PutPixel
    <3>1. Goto("segment") /\ InRow /\ "segment" \in Drawing
      BY <2>1 DEF PutPixel, Drawing
    <3>2. QED
      BY <1>1, <3>1, DrawsFrom
  <2>2. CASE ReadSegment
    <3>1. cpu' = [cpu EXCEPT !.eip = "store", !.gpr["eax"] = FrameBufferSegment(card)]
          /\ cpu.eip = "segment"
      BY <2>2 DEF ReadSegment, At
    <3>2. cpu'.eip = "store"
      BY <3>1 DEF IInv, FrameInv, Machine, MachineOf
    <3>3. Base' = cpu'
      BY <1>1, <3>2, DrawsFrom DEF Handling
    <3>4. InRow
      BY <1>2, <3>1 DEF PaintInv
    <3>5. QED
      BY <3>2, <3>3, <3>4
  <2>3. QED
    BY <2>1, <2>2
<1>4. QED
  BY <1>3

LEMMA PaintFetch == IInv /\ IInv' /\ PaintInv /\ (PutPixel \/ ReadSegment) => PaintInv'
<1> SUFFICES ASSUME IInv, IInv', PaintInv, PutPixel \/ ReadSegment PROVE PaintInv'
  OBVIOUS
<1>1. cpu.eip \in Drawing /\ cpu.eip \in Filling
  BY DEF PutPixel, ReadSegment, At, Drawing, Filling
<1>2. Base = cpu /\ fill \in FillType
  BY <1>1, DrawsFrom
<1>3. Base'.eip \in {"segment", "store"} /\ InRow
  BY FetchStays
<1> DEFINE w == fill.widget
           x == fill.x
           y == fill.y
           m == Base'.eip
<1>4. x \in Int /\ y \in Int /\ Drawn.x <= x /\ Drawn.y <= y
  BY <1>1, <1>2, DrawnIs DEF PaintInv
<1>5. fill' = fill /\ screen' = screen /\ drawn' = drawn
  BY DEF PutPixel, ReadSegment, drawing
<1>6. fill' = [fill EXCEPT !.x = x, !.y = y]
  BY <1>2, <1>5 DEF FillType
<1>7. InRow'
  BY <1>3, <1>5 DEF InRow, Drawn
<1>8. m \in Filling /\ Base.eip \in Drawing
  BY <1>1, <1>2, <1>3 DEF Filling
<1>9. \A k \in Widgets : \A o \in Offsets :
        Painted(k, o, Base.eip, w, x, y) <=> Painted(k, o, m, w, x, y)
  BY <1>1, <1>2, <1>8 DEF Painted
<1> HIDE DEF m
<1>10. QED
  BY <1>2, <1>4, <1>5, <1>6, <1>7, <1>8, <1>9, PaintMoved DEF m

\* The pixel stored is the one the loop has come to, and nothing but what the widget
\* covers.
LEMMA StorePixel ==
  ASSUME IInv, IInv', PaintInv, Store
  PROVE  LET x == fill.x
             y == fill.y
             p == PixelOffset(x, y)
         IN /\ Base.eip = "store" /\ Base'.eip = "pixel" /\ fill \in FillType
            /\ x \in 0 .. Width - 1 /\ y \in Nat /\ p \in Offsets
            /\ p % Width = x /\ p \div Width = y /\ Covers(fill.widget, p)
            /\ screen' = [o \in Offsets |-> IF o = p THEN Color(fill.widget) ELSE screen[o]]
            /\ fill'.widget = fill.widget /\ fill'.x = x + 1 /\ fill'.y = y /\ drawn' = drawn
<1>1. cpu.eip = "store" /\ cpu.eip \in Drawing /\ "pixel" \in Drawing /\ Goto("pixel")
  BY DEF Store, At, Drawing
<1>2. Base = cpu /\ Base.eip = "store" /\ Base'.eip = "pixel" /\ fill \in FillType
  BY <1>1, DrawsFrom
<1> DEFINE w == fill.widget
           x == fill.x
           y == fill.y
           p == PixelOffset(x, y)
           c == Color(w)
<1>3. /\ w \in Widgets /\ x \in Int /\ y \in Int /\ Drawn = Scene[w] /\ Drawn.x \in Int
      /\ Drawn.x <= x /\ Drawn.y <= y
  BY <1>2, DrawnIs DEF PaintInv, Filling
<1>4. InRow /\ ~Clipped(x, y) /\ cpu.gpr["eax"] = GraphicsMemory
  BY <1>2 DEF PaintInv, IInv, PixelInv
<1>5. x \in 0 .. Width - 1 /\ y \in Nat /\ p \in Offsets
  BY <1>3, <1>4, OffsetInRange, ScreenAssumption DEF Clipped
<1>6. p % Width = x /\ p \div Width = y
  BY <1>5, OffsetOf
<1>7. screen' = [o \in Offsets |-> IF o = p THEN c ELSE screen[o]]
  <2>1. \A o \in Offsets : GraphicsMemory + o = PixelAddress <=> o = p
    <3>1. PixelAddress = GraphicsMemory + p
      BY <1>4 DEF PixelAddress
    <3>2. p \in Int /\ \A o \in Offsets : o \in Int
      BY <1>5 DEF Offsets
    <3> HIDE DEF p
    <3>3. QED
      BY <3>1, <3>2 DEF GraphicsMemory
  <2>2. screen' = [o \in Offsets |-> IF GraphicsMemory + o = PixelAddress THEN c ELSE screen[o]]
    BY <1>3 DEF Store, Color
  <2> HIDE DEF p, c
  <2>3. QED
    BY <2>1, <2>2
<1>8. fill'.widget = w /\ fill'.x = x + 1 /\ fill'.y = y /\ drawn' = drawn
  BY <1>2 DEF Store, Moving, FillType
<1>9. Covers(w, p)
  BY <1>3, <1>4, <1>6 DEF Covers, InRow
<1>10. QED
  BY <1>2, <1>5, <1>6, <1>7, <1>8, <1>9

LEMMA PaintStore == IInv /\ IInv' /\ PaintInv /\ Store => PaintInv'
<1> SUFFICES ASSUME IInv, IInv', PaintInv, Store PROVE PaintInv'
  OBVIOUS
<1> DEFINE w == fill.widget
           x == fill.x
           y == fill.y
           p == PixelOffset(x, y)
           c == Color(w)
<1>1. Base.eip = "store" /\ Base'.eip = "pixel" /\ fill \in FillType
  BY StorePixel
<1>2. /\ w \in Widgets /\ x \in Int /\ y \in Int /\ Drawn = Scene[w] /\ Drawn.x \in Int
      /\ Drawn.x <= x /\ Drawn.y <= y
  BY <1>1, DrawnIs DEF PaintInv, Filling
<1>3. x \in 0 .. Width - 1 /\ y \in Nat /\ p \in Offsets
  BY StorePixel
<1>4. p % Width = x /\ p \div Width = y /\ Covers(w, p)
  BY StorePixel
<1>5. screen' = [o \in Offsets |-> IF o = p THEN c ELSE screen[o]]
  BY StorePixel
<1>6. fill'.widget = w /\ fill'.x = x + 1 /\ fill'.y = y /\ drawn' = drawn /\ Drawn' = Drawn
  BY StorePixel DEF Drawn
<1>7. screen' \in [Offsets -> Byte]
  BY <1>5, ColorByte DEF PaintInv
<1>8. ShowsPainted(screen', "pixel", w, x + 1, y)
  <2> SUFFICES ASSUME NEW o \in Offsets, NEW k \in Widgets, Painted(k, o, "pixel", w, x + 1, y),
                      \A j \in Widgets : Painted(j, o, "pixel", w, x + 1, y) => j <= k
               PROVE  screen'[o] = Color(k)
    BY DEF ShowsPainted
  <2>1. CASE o = p
    <3>1. Covers(w, p)
      BY <1>4
    <3>2. Passed(p, x + 1, y)
      BY <1>2, <1>3, <1>4, PixelPassed
    <3>3. Painted(w, o, "pixel", w, x + 1, y)
      BY <2>1, <3>1, <3>2 DEF Painted, Filling
    <3>4. w <= k /\ k <= w
      <4>1. w <= k
        BY <1>2, <3>3
      <4>2. k < w \/ k = w
        BY DEF Painted
      <4>3. QED
        BY <1>2, <4>1, <4>2, Coordinates
    <3>5. k = w
      BY <1>2, <3>4, Coordinates
    <3>6. QED
      BY <1>3, <1>5, <2>1, <3>5
  <2>2. CASE o # p
    <3>1. \A j \in Widgets :
            Painted(j, o, "pixel", w, x + 1, y) <=> Painted(j, o, "store", w, x, y)
      <4>1. ~(o % Width = x /\ o \div Width = y)
        BY <2>2, PointOf
      <4>2. Passed(o, x + 1, y) <=> Passed(o, x, y)
        BY <1>2, <4>1, PixelPassed
      <4>3. QED
        BY <4>2 DEF Painted, Filling
    <3>2. ShowsPainted(screen, "store", w, x, y)
      BY <1>1 DEF PaintInv
    <3>3. screen[o] = Color(k)
      BY <3>1, <3>2 DEF ShowsPainted
    <3>4. QED
      BY <1>5, <2>2, <3>3
  <2>3. QED
    BY <2>1, <2>2
<1>9. Drawn.x <= x + 1
  BY <1>2
<1>10. QED
  BY <1>1, <1>2, <1>6, <1>7, <1>8, <1>9 DEF PaintInv, Drawing

\* The end of a widget, and after the last one of the frame.
LEMMA PaintNextWidget == IInv /\ IInv' /\ PaintInv /\ NextWidget => PaintInv'
<1> SUFFICES ASSUME IInv, IInv', PaintInv, NextWidget PROVE PaintInv'
  OBVIOUS
<1>1. cpu.eip = "pixel" /\ cpu.eip \in Drawing /\ "fill" \in Drawing /\ Goto("fill")
  BY DEF NextWidget, At, Drawing
<1>2. Base.eip = "pixel" /\ Base'.eip = "fill" /\ fill \in FillType
  BY <1>1, DrawsFrom
<1> DEFINE w == fill.widget
           x == fill.x
           y == fill.y
           n == Len(Scene)
           v == IF w < n THEN w + 1 ELSE 1
<1>3. /\ w \in Widgets /\ x \in Int /\ y \in Int /\ n \in Nat /\ n >= 1
      /\ y >= Scene[w].y + Scene[w].h
  <2>1. Drawn = Scene[w] /\ y >= Drawn.y + Drawn.h
    BY <1>2, DrawnIs DEF NextWidget
  <2>2. QED
    BY <1>2, <2>1, DrawnIs
<1>4. w \in 1 .. n
  BY <1>3 DEF Widgets
<1>5. fill'.widget = v /\ fill'.x = x /\ fill'.y = y
      /\ screen' = screen /\ drawn' = (drawn \/ w = n)
  BY <1>2 DEF NextWidget, Moving, FillType
<1>6. ShowsPainted(screen, "pixel", w, x, y)
  BY <1>2 DEF PaintInv
<1>7. \A k \in Widgets : \A o \in Offsets :
        Painted(k, o, "pixel", w, x, y) <=> Covers(k, o) /\ k <= w
  <2>1. SUFFICES ASSUME NEW k \in Widgets, NEW o \in Offsets, Covers(k, o)
                 PROVE  k < w \/ (k = w /\ Passed(o, x, y)) <=> k <= w
    BY DEF Painted, Filling
  <2>2. k = w => Passed(o, x, y)
    BY <1>3, <2>1, AllPassed
  <2>3. k \in Int /\ w \in Int
    BY <1>3, Coordinates
  <2> HIDE DEF w, x, y
  <2>4. QED
    BY <2>2, <2>3
<1> HIDE DEF w, x, y, n
<1>8. ShowsPainted(screen, "fill", v, x, y) /\ (v = 1 => w = n)
  <2>1. CASE w < n
    <3>1. v = w + 1
      BY <2>1
    <3>2. \A k \in Widgets : \A o \in Offsets :
            Painted(k, o, "pixel", w, x, y) <=> Painted(k, o, "fill", v, x, y)
      <4>1. SUFFICES ASSUME NEW k \in Widgets, NEW o \in Offsets
                     PROVE  Covers(k, o) /\ k <= w <=> Painted(k, o, "fill", v, x, y)
        BY <1>7
      <4>2. Painted(k, o, "fill", v, x, y) <=> Covers(k, o) /\ k < v
        BY DEF Painted, Filling
      <4>3. k \in Int /\ w \in Int
        BY <1>3, Coordinates
      <4>4. k < v <=> k <= w
        BY <3>1, <4>3
      <4>5. QED
        BY <4>2, <4>4
    <3>3. v # 1
      BY <1>4, <3>1
    <3>4. QED
      BY <1>6, <3>2, <3>3, SamePainted
  <2>2. CASE ~(w < n)
    <3>1. v = 1 /\ w = n
      BY <1>3, <1>4, <2>2
    <3>2. \A k \in Widgets : \A o \in Offsets : ~Painted(k, o, "fill", 1, x, y)
      BY SceneType DEF Painted, Filling, Widgets
    <3>3. QED
      BY <3>1, <3>2 DEF ShowsPainted
  <2>3. QED
    BY <2>1, <2>2
<1>9. w = n => ShowsScene(screen)
  <2> SUFFICES ASSUME w = n, NEW o \in Offsets, NEW k \in Widgets, Covers(k, o),
                      \A j \in Widgets : Covers(j, o) => j <= k
               PROVE  screen[o] = Color(k)
    BY DEF ShowsScene
  <2>1. \A j \in Widgets : j <= w
    BY <1>3 DEF Widgets, n
  <2>2. Painted(k, o, "pixel", w, x, y)
        /\ \A j \in Widgets : Painted(j, o, "pixel", w, x, y) => j <= k
    BY <1>7, <2>1
  <2>3. QED
    BY <1>6, <2>2 DEF ShowsPainted
<1> HIDE DEF v
<1>10. Base'.eip \in Drawing /\ Base'.eip \notin Filling /\ Base'.eip \notin {"segment", "store"}
  BY <1>2 DEF Drawing, Filling
<1>11. QED
  BY <1>2, <1>5, <1>8, <1>9, <1>10 DEF PaintInv

\* Everything before the drawing loop.
LEMMA SetUpBefore ==
  ASSUME IInv, IInv', SetUp
  PROVE  /\ fill' = fill /\ screen' = screen /\ drawn' = drawn
         /\ Base.eip \notin Drawing /\ (Base'.eip \notin Drawing \/ Base'.eip = "fill")
<1>1. fill' = fill /\ screen' = screen /\ drawn' = drawn
  BY DEF SetUp, Start, InitDrivers, BeginDevice, EndDevice, NextDevice, ScanFunction, Activate,
         SetMisc, SetSequencer, UnlockCRTC, SetCRTC, SetGraphicsController, SetAttributeController,
         SetVideo, Loop, SetMode, EnterDesktop, drawing
<1> DEFINE Before == {"start"} \union Early \union ModeLabels
<1>2. \A l \in Before : l \in Labels /\ l \notin Handling /\ l \notin Drawing
  BY DEF Early, ModeLabels, Labels, Handling, Drawing
<1>3. cpu.eip \in Before /\ (cpu'.eip \in Before \/ cpu'.eip = "fill")
  <2>1. ASSUME NEW from \in ModeLabels, NEW new, NEW to \in ModeLabels, SetMode(from, new, to)
        PROVE  cpu.eip \in Before /\ cpu'.eip \in Before
    BY <1>2, <2>1, Went DEF SetMode, At
  <2>2. CASE SetMisc \/ UnlockCRTC \/ SetVideo
    BY <2>1, <2>2 DEF SetMisc, UnlockCRTC, SetVideo, ModeLabels
  <2>3. CASE SetSequencer \/ SetCRTC \/ SetGraphicsController \/ SetAttributeController
    BY <2>1, <2>3
       DEF SetSequencer, SetCRTC, SetGraphicsController, SetAttributeController, Loop, ModeLabels
  <2>4. CASE EnterDesktop
    <3>1. cpu \in Machine
      BY DEF IInv, FrameInv
    <3>2. QED
      BY <2>4, <3>1 DEF EnterDesktop, At, Machine, MachineOf, ModeLabels
  <2>5. CASE ScanFunction
    BY <2>5 DEF ScanFunction, At, Early
  <2>6. CASE Start \/ InitDrivers \/ BeginDevice \/ EndDevice \/ Activate
    <3>1. cpu.eip \in Before
      BY <2>6 DEF Start, InitDrivers, BeginDevice, EndDevice, Activate, At, Early
    <3>2. \E l \in Before : Goto(l)
      BY <2>6 DEF Start, InitDrivers, BeginDevice, EndDevice, NextDevice, Activate, Early
    <3>3. QED
      BY <1>2, <3>1, <3>2, Went
  <2>7. QED
    BY <2>2, <2>3, <2>4, <2>5, <2>6 DEF SetUp
<1>4. Base = cpu /\ Base' = cpu'
  <2>1. (cpu.eip \notin Handling => Base = cpu)'
    BY BaseIsCpu, PTL DEF IInv
  <2>2. cpu.eip \notin Handling /\ cpu'.eip \notin Handling
    BY <1>2, <1>3 DEF Handling
  <2>3. QED
    BY <2>1, <2>2, BaseIsCpu DEF IInv
<1>5. Base.eip \notin Drawing /\ (Base'.eip \notin Drawing \/ Base'.eip = "fill")
  BY <1>2, <1>3, <1>4
<1>6. QED
  BY <1>1, <1>5

LEMMA PaintSetUp == IInv /\ IInv' /\ PaintInv /\ SetUp => PaintInv'
  BY SetUpBefore, PaintBefore

\* Interrupts.
LEMMA AsideKeeps ==
  ASSUME IInv, HandleInterrupt \/ Return \/ (\E v \in Vectors : Interrupt(v)) \/ UNCHANGED vars
  PROVE  Base' = Base /\ fill' = fill /\ screen' = screen /\ drawn' = drawn
<1>1. Base' = Base
  <2>1. CASE UNCHANGED vars
    BY <2>1 DEF vars, history, Base, M, Depth
  <2>2. QED
    BY <2>1, HandleInterruptFrameInv, ReturnFrameInv, InterruptFrameInv DEF IInv
<1>2. fill' = fill /\ screen' = screen /\ drawn' = drawn
  BY DEF HandleInterrupt, Return, Interrupt, vars, drawing
<1>3. QED
  BY <1>1, <1>2

LEMMA PaintAside ==
  ASSUME IInv, PaintInv,
         HandleInterrupt \/ Return \/ (\E v \in Vectors : Interrupt(v)) \/ UNCHANGED vars
  PROVE  PaintInv'
  BY AsideKeeps, PaintStill

LEMMA PaintNext == IInv /\ IInv' /\ PaintInv /\ [Next]_vars => PaintInv'
  BY PaintSetUp, PaintStartFill, PaintSkipPixel, PaintFetch, PaintStore, PaintNextRow,
     PaintNextWidget, PaintAside DEF Next, Execute, Draw

-----------------------------------------------------------------------------
(* The drawing loop implements Painting: a store paints a new point of the *)
(* widget, the end of a widget is the end of a shape, and every other step *)
(* changes nothing of the frame.                                           *)

\* A step that changes neither the screen nor what has been painted.
LEMMA NoPaint ==
  ASSUME screen' = screen, fill'.widget = fill.widget, Done' = Done
  PROVE  [Frame!Next]_Frame!pvars
  BY DEF Frame!pvars

\* What has been painted at a label of the loops.
LEMMA DoneAt ==
  /\ Base.eip \in Filling => Done = PassedOf(fill.widget, fill.x, fill.y)
  /\ Base.eip \notin Filling => Done = {}
  BY DEF Done

LEMMA DoneAtNext ==
  /\ Base'.eip \in Filling => Done' = PassedOf(fill'.widget, fill'.x, fill'.y)
  /\ Base'.eip \notin Filling => Done' = {}
  BY DEF Done, PassedOf, Area, Covers

LEMMA FrameStartFill ==
  ASSUME IInv, IInv', PaintInv, StartFill
  PROVE  [Frame!Next]_Frame!pvars
<1>1. cpu.eip = "fill" /\ cpu.eip \in Drawing /\ "pixel" \in Drawing /\ Goto("pixel")
  BY DEF StartFill, At, Drawing
<1>2. Base.eip = "fill" /\ Base'.eip = "pixel" /\ fill \in FillType
  BY <1>1, DrawsFrom
<1> DEFINE w == fill.widget
           a == Drawn.x
           b == Drawn.y
<1>3. w \in Widgets /\ a = Scene[w].x /\ b = Scene[w].y
  BY <1>2, DrawnIs
<1>4. fill'.widget = w /\ fill'.x = a /\ fill'.y = b /\ screen' = screen
  BY <1>2 DEF StartFill, Moving, FillType
<1>5. Done = {} /\ Done' = PassedOf(w, a, b)
  BY <1>2, <1>4, DoneAt, DoneAtNext DEF Filling
<1>6. PassedOf(w, a, b) = {}
  BY <1>3, NothingPassed DEF PassedOf, Area
<1>7. QED
  BY <1>4, <1>5, <1>6, NoPaint

LEMMA FrameSkipPixel ==
  ASSUME IInv, IInv', PaintInv, SkipPixel
  PROVE  [Frame!Next]_Frame!pvars
<1>1. cpu.eip = "pixel" /\ cpu.eip \in Drawing /\ cpu' = cpu
  BY DEF SkipPixel, At, Drawing
<1>2. Base.eip = "pixel" /\ Base'.eip = "pixel" /\ fill \in FillType
  BY <1>1, DrawsFrom
<1> DEFINE w == fill.widget
           x == fill.x
           y == fill.y
<1>3. x \in Int /\ y \in Int
  BY <1>2, DrawnIs
<1>4. fill'.widget = w /\ fill'.x = x + 1 /\ fill'.y = y /\ screen' = screen /\ Clipped(x, y)
  BY <1>2 DEF SkipPixel, Moving, FillType
<1>5. Done = PassedOf(w, x, y) /\ Done' = PassedOf(w, x + 1, y)
  BY <1>2, <1>4, DoneAt, DoneAtNext DEF Filling
<1>6. PassedOf(w, x + 1, y) = PassedOf(w, x, y)
  BY <1>3, <1>4, PixelPassed, ClippedNowhere DEF PassedOf, Area
<1>7. QED
  BY <1>4, <1>5, <1>6, NoPaint

LEMMA FrameNextRow ==
  ASSUME IInv, IInv', PaintInv, NextRow
  PROVE  [Frame!Next]_Frame!pvars
<1>1. cpu.eip = "pixel" /\ cpu.eip \in Drawing /\ cpu' = cpu
  BY DEF NextRow, At, Drawing
<1>2. Base.eip = "pixel" /\ Base'.eip = "pixel" /\ fill \in FillType
  BY <1>1, DrawsFrom
<1> DEFINE w == fill.widget
           x == fill.x
           y == fill.y
           a == Drawn.x
<1>3. w \in Widgets /\ x \in Int /\ y \in Int /\ a = Scene[w].x /\ a \in Int
      /\ Drawn.w \in Nat /\ Drawn = Scene[w]
  BY <1>2, DrawnIs
<1>4. fill'.widget = w /\ fill'.x = a /\ fill'.y = y + 1 /\ screen' = screen
      /\ x >= a + Drawn.w
  BY <1>2, <1>3 DEF NextRow, Moving, FillType, InRow
<1>5. Done = PassedOf(w, x, y) /\ Done' = PassedOf(w, a, y + 1)
  BY <1>2, <1>4, DoneAt, DoneAtNext DEF Filling
<1>6. PassedOf(w, a, y + 1) = PassedOf(w, x, y)
  BY <1>3, <1>4, RowPassed DEF PassedOf, Area
<1>7. QED
  BY <1>4, <1>5, <1>6, NoPaint

LEMMA FrameFetch ==
  ASSUME IInv, IInv', PaintInv, PutPixel \/ ReadSegment
  PROVE  [Frame!Next]_Frame!pvars
<1>1. cpu.eip \in Drawing /\ cpu.eip \in Filling
  BY DEF PutPixel, ReadSegment, At, Drawing, Filling
<1>2. Base = cpu
  BY <1>1, DrawsFrom
<1>3. Base'.eip \in Filling
  BY <1>1, FetchStays DEF Filling
<1>4. fill' = fill /\ screen' = screen
  BY DEF PutPixel, ReadSegment, drawing
<1>5. Done' = Done
  BY <1>1, <1>2, <1>3, <1>4, DoneAt, DoneAtNext
<1>6. QED
  BY <1>4, <1>5, NoPaint

\* Nothing of the widget has been painted twice: the point is painted now.
LEMMA FrameStore ==
  ASSUME IInv, IInv', PaintInv, Store
  PROVE  \E p \in Offsets : Frame!Paint(p)
<1> DEFINE w == fill.widget
           x == fill.x
           y == fill.y
           p == PixelOffset(x, y)
<1>1. /\ Base.eip = "store" /\ Base'.eip = "pixel" /\ fill \in FillType
      /\ x \in 0 .. Width - 1 /\ y \in Nat /\ p \in Offsets
      /\ p % Width = x /\ p \div Width = y /\ Covers(w, p)
      /\ screen' = [o \in Offsets |-> IF o = p THEN Color(w) ELSE screen[o]]
      /\ fill'.widget = w /\ fill'.x = x + 1 /\ fill'.y = y
  BY StorePixel
<1>2. w \in Widgets /\ x \in Int /\ y \in Int /\ screen \in [Offsets -> Byte]
  BY <1>1, DrawnIs DEF PaintInv
<1>3. Done = PassedOf(w, x, y) /\ Done' = PassedOf(w, x + 1, y)
  BY <1>1, DoneAt, DoneAtNext DEF Filling
<1>4. ~Passed(p, x, y)
  BY <1>1, <1>2 DEF Passed
<1>5. \A o \in Offsets : o % Width = x /\ o \div Width = y <=> o = p
  BY <1>1, PointOf
<1>6. \A o \in Offsets : Passed(o, x + 1, y) <=> Passed(o, x, y) \/ o = p
  BY <1>2, <1>5, PixelPassed
<1> HIDE DEF p, x, y, w
<1>7. PassedOf(w, x + 1, y) = PassedOf(w, x, y) \union {p}
  BY <1>1, <1>6 DEF PassedOf, Area
<1>8. p \in Area(w) \ PassedOf(w, x, y)
  BY <1>1, <1>4 DEF PassedOf, Area
<1>9. screen' = [screen EXCEPT ![p] = Color(w)]
  BY <1>1, <1>2
<1>10. QED
  BY <1>1, <1>2, <1>3, <1>7, <1>8, <1>9 DEF Frame!Paint, w

LEMMA FrameNextWidget ==
  ASSUME IInv, IInv', PaintInv, NextWidget
  PROVE  Frame!NextShape
<1>1. cpu.eip = "pixel" /\ cpu.eip \in Drawing /\ "fill" \in Drawing /\ Goto("fill")
  BY DEF NextWidget, At, Drawing
<1>2. Base.eip = "pixel" /\ Base'.eip = "fill" /\ fill \in FillType
  BY <1>1, DrawsFrom
<1> DEFINE w == fill.widget
           x == fill.x
           y == fill.y
<1>3. w \in Widgets /\ y \in Int /\ y >= Scene[w].y + Scene[w].h
  BY <1>2, DrawnIs DEF NextWidget
<1>4. fill'.widget = (IF w < Len(Scene) THEN w + 1 ELSE 1) /\ screen' = screen
  BY <1>2 DEF NextWidget, Moving, FillType
<1>5. Done = PassedOf(w, x, y) /\ Done' = {}
  BY <1>2, DoneAt, DoneAtNext DEF Filling
<1>6. PassedOf(w, x, y) = Area(w)
  BY <1>3, AllPassed DEF PassedOf, Area
<1>7. QED
  BY <1>3, <1>4, <1>5, <1>6 DEF Frame!NextShape

LEMMA FrameNext == IInv /\ IInv' /\ PaintInv /\ [Next]_vars => [Frame!Next]_Frame!pvars
<1> SUFFICES ASSUME IInv, IInv', PaintInv, [Next]_vars PROVE [Frame!Next]_Frame!pvars
  OBVIOUS
<1>1. CASE SetUp
  <2>1. fill' = fill /\ screen' = screen /\ Base.eip \notin Filling /\ Base'.eip \notin Filling
    BY <1>1, SetUpBefore DEF Drawing, Filling
  <2>2. QED
    BY <2>1, DoneAt, DoneAtNext, NoPaint
<1>2. CASE HandleInterrupt \/ Return \/ (\E v \in Vectors : Interrupt(v)) \/ UNCHANGED vars
  <2>1. Base' = Base /\ fill' = fill /\ screen' = screen
    BY <1>2, AsideKeeps
  <2>2. Done' = Done
    BY <2>1, DoneAt, DoneAtNext
  <2>3. QED
    BY <2>1, <2>2, NoPaint
<1>3. CASE Store
  BY <1>3, FrameStore DEF Frame!Next
<1>4. CASE NextWidget
  BY <1>4, FrameNextWidget DEF Frame!Next
<1>5. CASE StartFill \/ SkipPixel \/ NextRow \/ PutPixel \/ ReadSegment
  BY <1>5, FrameStartFill, FrameSkipPixel, FrameNextRow, FrameFetch
<1>6. QED
  BY <1>1, <1>2, <1>3, <1>4, <1>5 DEF Next, Execute, Draw

-----------------------------------------------------------------------------
(* The loops get on: what is left goes down, in the order of the tuple.    *)

LEMMA LessBy ==
  ASSUME NEW a1, NEW a2, NEW a3, NEW a4, NEW a5, NEW b1, NEW b2, NEW b3, NEW b4, NEW b5,
         \/ 0 <= b1 /\ b1 < a1
         \/ b1 = a1 /\ 0 <= b2 /\ b2 < a2
         \/ b1 = a1 /\ b2 = a2 /\ 0 <= b3 /\ b3 < a3
         \/ b1 = a1 /\ b2 = a2 /\ b3 = a3 /\ 0 <= b4 /\ b4 < a4
         \/ b1 = a1 /\ b2 = a2 /\ b3 = a3 /\ b4 = a4 /\ 0 <= b5 /\ b5 < a5
  PROVE  Less(<<b1, b2, b3, b4, b5>>, <<a1, a2, a3, a4, a5>>)
<1> DEFINE new == <<b1, b2, b3, b4, b5>>
           old == <<a1, a2, a3, a4, a5>>
<1>1. /\ new[1] = b1 /\ new[2] = b2 /\ new[3] = b3 /\ new[4] = b4 /\ new[5] = b5
      /\ old[1] = a1 /\ old[2] = a2 /\ old[3] = a3 /\ old[4] = a4 /\ old[5] = a5
      /\ DOMAIN new = 1 .. 5
  OBVIOUS
<1> HIDE DEF new, old
<1>2. \E i \in 1 .. 5 : /\ 0 <= new[i] /\ new[i] < old[i]
                        /\ \A j \in 1 .. 5 : j < i => new[j] = old[j]
  <2>1. /\ \A j \in 1 .. 5 : ~(j < 1)
        /\ \A j \in 1 .. 5 : j < 2 => j = 1
        /\ \A j \in 1 .. 5 : j < 3 => j = 1 \/ j = 2
        /\ \A j \in 1 .. 5 : j < 4 => j = 1 \/ j = 2 \/ j = 3
        /\ \A j \in 1 .. 5 : j < 5 => j = 1 \/ j = 2 \/ j = 3 \/ j = 4
        /\ 1 \in 1 .. 5 /\ 2 \in 1 .. 5 /\ 3 \in 1 .. 5 /\ 4 \in 1 .. 5 /\ 5 \in 1 .. 5
    OBVIOUS
  <2>2. CASE 0 <= b1 /\ b1 < a1
    BY <1>1, <2>1, <2>2
  <2>3. CASE b1 = a1 /\ 0 <= b2 /\ b2 < a2
    BY <1>1, <2>1, <2>3
  <2>4. CASE b1 = a1 /\ b2 = a2 /\ 0 <= b3 /\ b3 < a3
    BY <1>1, <2>1, <2>4
  <2>5. CASE b1 = a1 /\ b2 = a2 /\ b3 = a3 /\ 0 <= b4 /\ b4 < a4
    BY <1>1, <2>1, <2>5
  <2>6. CASE b1 = a1 /\ b2 = a2 /\ b3 = a3 /\ b4 = a4 /\ 0 <= b5 /\ b5 < a5
    BY <1>1, <2>1, <2>6
  <2>7. QED
    BY <2>2, <2>3, <2>4, <2>5, <2>6
<1>3. QED
  BY <1>1, <1>2 DEF Less, new, old

LEMMA LeftFalls ==
  ASSUME \/ 0 <= StartLeft' /\ StartLeft' < StartLeft
         \/ /\ StartLeft' = StartLeft
            /\ 0 <= RowsLeft' /\ RowsLeft' < RowsLeft
         \/ /\ StartLeft' = StartLeft /\ RowsLeft' = RowsLeft
            /\ 0 <= PixelsLeft' /\ PixelsLeft' < PixelsLeft
         \/ /\ StartLeft' = StartLeft /\ RowsLeft' = RowsLeft /\ PixelsLeft' = PixelsLeft
            /\ 0 <= AccessesLeft' /\ AccessesLeft' < AccessesLeft
         \/ /\ StartLeft' = StartLeft /\ RowsLeft' = RowsLeft /\ PixelsLeft' = PixelsLeft
            /\ AccessesLeft' = AccessesLeft
            /\ 0 <= HandlersLeft' /\ HandlersLeft' < HandlersLeft
  PROVE  Less(Left', Left)
<1> DEFINE a1 == StartLeft
           a2 == RowsLeft
           a3 == PixelsLeft
           a4 == AccessesLeft
           a5 == HandlersLeft
           b1 == StartLeft'
           b2 == RowsLeft'
           b3 == PixelsLeft'
           b4 == AccessesLeft'
           b5 == HandlersLeft'
<1>1. Left = <<a1, a2, a3, a4, a5>> /\ Left' = <<b1, b2, b3, b4, b5>>
  BY DEF Left
<1>2. \/ 0 <= b1 /\ b1 < a1
      \/ b1 = a1 /\ 0 <= b2 /\ b2 < a2
      \/ b1 = a1 /\ b2 = a2 /\ 0 <= b3 /\ b3 < a3
      \/ b1 = a1 /\ b2 = a2 /\ b3 = a3 /\ 0 <= b4 /\ b4 < a4
      \/ b1 = a1 /\ b2 = a2 /\ b3 = a3 /\ b4 = a4 /\ 0 <= b5 /\ b5 < a5
  OBVIOUS
<1> HIDE DEF a1, a2, a3, a4, a5, b1, b2, b3, b4, b5
<1>3. Less(<<b1, b2, b3, b4, b5>>, <<a1, a2, a3, a4, a5>>)
  BY <1>2, LessBy
<1>4. QED
  BY <1>1, <1>3

LEMMA StartFillAdvances ==
  ASSUME IInv, IInv', StartFill
  PROVE  Less(Left', Left)
<1>1. cpu.eip = "fill" /\ cpu.eip \in Drawing /\ "pixel" \in Drawing /\ Goto("pixel")
  BY DEF StartFill, At, Drawing
<1>2. Base.eip = "fill" /\ Base'.eip = "pixel"
  BY <1>1, DrawsFrom
<1>3. StartLeft = 1 /\ StartLeft' = 0
  BY <1>2 DEF StartLeft
<1>4. 0 <= StartLeft' /\ StartLeft' < StartLeft
  BY <1>3
<1>5. QED
  BY <1>4, LeftFalls

\* The end of a row.
LEMMA RowAdvances ==
  ASSUME IInv, IInv', PaintInv, NextRow
  PROVE  Less(Left', Left)
<1>1. cpu.eip = "pixel" /\ cpu.eip \in Drawing /\ cpu' = cpu
  BY DEF NextRow, At, Drawing
<1>2. Base.eip = "pixel" /\ Base'.eip = "pixel" /\ fill \in FillType
  BY <1>1, DrawsFrom
<1> DEFINE y == fill.y
           t == Drawn.y
           h == Drawn.h
<1>3. y \in Int /\ t \in Int /\ h \in Nat /\ y < t + h
  BY <1>2, DrawnIs DEF NextRow
<1>4. fill'.widget = fill.widget /\ fill'.y = y + 1
  BY <1>2 DEF NextRow, Moving, FillType
<1>5. StartLeft' = StartLeft /\ RowsLeft = t + h - y /\ RowsLeft' = t + h - (y + 1)
  BY <1>2, <1>4 DEF StartLeft, RowsLeft, Drawn
<1> HIDE DEF y, t, h
<1>6. 0 <= RowsLeft' /\ RowsLeft' < RowsLeft
  BY <1>3, <1>5
<1>7. QED
  BY <1>5, <1>6, LeftFalls

\* One pixel further, with a store or without.
LEMMA PixelAdvances ==
  ASSUME IInv, IInv', PaintInv, SkipPixel \/ Store
  PROVE  Less(Left', Left)
<1> DEFINE x == fill.x
           y == fill.y
           s == Drawn.x
           w == Drawn.w
<1>1. /\ Base.eip # "fill" /\ Base'.eip # "fill" /\ InRow /\ fill \in FillType
      /\ fill'.widget = fill.widget /\ fill'.x = x + 1 /\ fill'.y = y
  <2>1. CASE SkipPixel
    <3>1. cpu.eip = "pixel" /\ cpu.eip \in Drawing /\ cpu' = cpu /\ InRow
      BY <2>1 DEF SkipPixel, At, Drawing
    <3>2. Base.eip = "pixel" /\ Base'.eip = "pixel" /\ fill \in FillType
      BY <3>1, DrawsFrom
    <3>3. QED
      BY <2>1, <3>1, <3>2 DEF SkipPixel, Moving, FillType
  <2>2. CASE Store
    <3>1. Base.eip = "store"
      BY <2>2, StorePixel
    <3>2. InRow
      BY <3>1 DEF PaintInv
    <3>3. QED
      BY <2>2, <3>1, <3>2, StorePixel
  <2>3. QED
    BY <2>1, <2>2
<1>2. x \in Int /\ s \in Int /\ w \in Nat /\ x < s + w
  BY <1>1, DrawnIs DEF InRow
<1>3. /\ StartLeft' = StartLeft /\ RowsLeft' = RowsLeft
      /\ PixelsLeft = s + w - x /\ PixelsLeft' = s + w - (x + 1)
  BY <1>1 DEF StartLeft, RowsLeft, PixelsLeft, Drawn
<1> HIDE DEF x, y, s, w
<1>4. 0 <= PixelsLeft' /\ PixelsLeft' < PixelsLeft
  BY <1>2, <1>3
<1>5. QED
  BY <1>3, <1>4, LeftFalls

LEMMA FetchAdvances ==
  ASSUME IInv, IInv', PutPixel \/ ReadSegment
  PROVE  Less(Left', Left)
<1>1. \/ Base.eip = "pixel" /\ Base'.eip = "segment"
      \/ Base.eip = "segment" /\ Base'.eip = "store"
  <2>1. CASE PutPixel
    <3>1. cpu.eip = "pixel" /\ cpu.eip \in Drawing /\ "segment" \in Drawing /\ Goto("segment")
      BY <2>1 DEF PutPixel, At, Drawing
    <3>2. QED
      BY <3>1, DrawsFrom
  <2>2. CASE ReadSegment
    <3>1. cpu' = [cpu EXCEPT !.eip = "store", !.gpr["eax"] = FrameBufferSegment(card)]
          /\ cpu.eip = "segment" /\ cpu.eip \in Drawing
      BY <2>2 DEF ReadSegment, At, Drawing
    <3>2. cpu'.eip = "store"
      BY <3>1 DEF IInv, FrameInv, Machine, MachineOf
    <3>3. QED
      BY <3>1, <3>2, DrawsFrom DEF Handling
  <2>3. QED
    BY <2>1, <2>2
<1>2. fill' = fill
  BY DEF PutPixel, ReadSegment, drawing
<1>3. StartLeft' = StartLeft /\ RowsLeft' = RowsLeft /\ PixelsLeft' = PixelsLeft
  BY <1>1, <1>2 DEF StartLeft, RowsLeft, PixelsLeft, Drawn
<1>4. (AccessesLeft' = 1 /\ AccessesLeft = 2) \/ (AccessesLeft' = 0 /\ AccessesLeft = 1)
  BY <1>1 DEF AccessesLeft
<1>5. 0 <= AccessesLeft' /\ AccessesLeft' < AccessesLeft
  BY <1>4
<1>6. QED
  BY <1>3, <1>5, LeftFalls

\* A handler counts twice: before it returns and in int_bottom.
LEMMA HandlerAdvances ==
  ASSUME IInv, IInv', HandleInterrupt \/ Return
  PROVE  Less(Left', Left)
<1>1. Base' = Base /\ fill' = fill
  BY AsideKeeps
<1>2. /\ StartLeft' = StartLeft /\ RowsLeft' = RowsLeft /\ PixelsLeft' = PixelsLeft
      /\ AccessesLeft' = AccessesLeft
  BY <1>1 DEF StartLeft, RowsLeft, PixelsLeft, AccessesLeft, Drawn
<1>3. Depth \in Nat /\ Depth > 0
  BY AtHandler DEF HandleInterrupt, Return, At, Handling, IInv
<1>4. 0 <= HandlersLeft' /\ HandlersLeft' < HandlersLeft
  <2>1. CASE HandleInterrupt
    <3>1. cpu.eip = "HandleInterrupt" /\ cpu' = ReturnEsp(cpu) /\ interrupted' = interrupted
      BY <2>1 DEF HandleInterrupt, At, history
    <3>2. cpu'.eip = "int_bottom"
      BY <3>1 DEF ReturnEsp, IInv, FrameInv, Machine, MachineOf
    <3>3. HandlersLeft = 2 * Depth - 0 /\ HandlersLeft' = 2 * Depth - 1
      BY <3>1, <3>2 DEF HandlersLeft, At, Depth
    <3>4. QED
      BY <1>3, <3>3
  <2>2. CASE Return
    <3>1. cpu.eip = "int_bottom" /\ interrupted' = Tail(interrupted)
      BY <2>2 DEF Return, At
    <3>2. Depth' = Depth - 1
      BY <1>3, <3>1 DEF Depth, IInv, FrameInv
    <3>3. cpu'.eip = "int_bottom" => Depth' > 0
      <4>1. (cpu.eip \in Handling => Depth > 0)'
        BY AtHandler, PTL DEF IInv
      <4>2. QED
        BY <4>1 DEF Handling
    <3>4. HandlersLeft = 2 * Depth - 1
          /\ HandlersLeft' = 2 * Depth' - (IF cpu'.eip = "int_bottom" THEN 1 ELSE 0)
      BY <3>1 DEF HandlersLeft, At
    <3>5. QED
      BY <1>3, <3>2, <3>3, <3>4
  <2>3. QED
    BY <2>1, <2>2
<1>5. QED
  BY <1>2, <1>4, LeftFalls

LEMMA WidgetAdvances ==
  ASSUME IInv, IInv', PaintInv, Draw \/ HandleInterrupt \/ Return
  PROVE  NextWidget \/ Less(Left', Left)
  BY StartFillAdvances, RowAdvances, PixelAdvances, FetchAdvances, HandlerAdvances DEF Draw

-----------------------------------------------------------------------------
(* Theorems                                                                *)

LEMMA PaintInvariance == Spec => []PaintInv
<1>1. Spec => [](IInv /\ PaintInv)
  BY InitIInv, NextIInv, PaintInit, PaintNext, PTL DEF Spec
<1>2. QED
  BY <1>1, PTL

\* A complete frame shows at each point the widget drawn last of those that cover
\* it, for every screen and every list of windows, whatever interrupts come.
THEOREM ScreenShowsScene == Spec => []FrameShowsScene
<1>1. IInv /\ PaintInv => FrameShowsScene
  <2> SUFFICES ASSUME IInv, PaintInv, drawn, At("fill"), fill.widget = 1
               PROVE  screen = [o \in Offsets |-> SceneAt(o % Width, o \div Width)]
    BY DEF FrameShowsScene
  <2>1. Base.eip = "fill"
    BY BaseIsCpu DEF At, Handling, IInv
  <2>2. ShowsScene(screen) /\ screen \in [Offsets -> Byte]
    BY <2>1 DEF PaintInv
  <2>3. ASSUME NEW o \in Offsets PROVE screen[o] = SceneAt(o % Width, o \div Width)
    <3> DEFINE covering == {k \in Widgets : Covers(k, o)}
               top == CHOOSE k \in covering : \A j \in covering : j <= k
    <3>1. SceneAt(o % Width, o \div Width) = Color(top)
      BY DEF SceneAt, Covers, Color, Widgets
    <3>2. 1 \in covering
      <4>1. Scene[1] = Desktop /\ 1 \in Widgets
        BY SceneType DEF Scene, Widgets
      <4>2. o % Width \in 0 .. Width - 1 /\ o \div Width \in 0 .. Height - 1
        BY PointOf
      <4>3. Covers(1, o)
        BY <4>1, <4>2, ScreenAssumption DEF Covers, Desktop
      <4>4. QED
        BY <4>1, <4>3
    <3>3. \E k \in covering : \A j \in covering : j <= k
      <4>1. covering \in SUBSET (1 .. Len(Scene)) /\ Len(Scene) \in Nat /\ covering # {}
        BY <3>2, SceneType DEF Widgets
      <4> HIDE DEF covering
      <4>2. QED
        BY <4>1, Greatest
    <3>4. top \in covering /\ \A j \in covering : j <= top
      <4> HIDE DEF covering
      <4>1. QED
        BY <3>3
    <3> HIDE DEF top
    <3>5. QED
      BY <2>2, <3>1, <3>4 DEF ShowsScene
  <2>4. QED
    BY <2>2, <2>3
<1>2. QED
  BY <1>1, Invariance, PaintInvariance, PTL

\* The drawing loop implements Painting, for every screen, every list of windows, on
\* the screen or off it, and any interrupts: the stores are exactly the points of
\* each widget that are on the screen, each once in a frame, in its colour, and one
\* widget after the other.
THEOREM DrawingImplementsPainting == Spec => PaintsFrames
<1>1. Init => Frame!Init
  <2> SUFFICES ASSUME Init PROVE Frame!Init
    OBVIOUS
  <2>1. Base = cpu /\ cpu.eip = "start"
    BY DEF Init, Depth, Base, M
  <2>2. Done = {}
    BY <2>1, DoneAt DEF Filling
  <2>3. screen = [o \in Offsets |-> 170] /\ fill = [widget |-> 1, x |-> 0, y |-> 0]
    BY DEF Init
  <2>4. QED
    BY <2>2, <2>3 DEF Frame!Init
<1>2. QED
  BY <1>1, FrameNext, Invariance, PaintInvariance, PTL DEF Spec, PaintsFrames, Frame!Spec

\* No step of the drawing loops or of a handler is for nothing: what is left of the
\* widget in hand goes down, and not below zero, or the widget ends; for every widget,
\* also of no pixels, across the edges of the screen or off it, at any depth of
\* interrupts.
THEOREM FramesGoOn == Spec => FramesAdvance
<1> DEFINE A == Draw \/ HandleInterrupt \/ Return => NextWidget \/ Less(Left', Left)
<1>1. IInv /\ IInv' /\ PaintInv => A
  BY WidgetAdvances
<1> HIDE DEF A
<1>2. Spec => [][A]_vars
  BY <1>1, Invariance, PaintInvariance, PTL
<1>3. QED
  BY <1>2 DEF A, FramesAdvance

-----------------------------------------------------------------------------
(* Types                                                                   *)

LoopType == [bus : 0 .. Buses, device : 0 .. Devices - 1, function : 0 .. 8, functions : 0 .. 8]

Names == {"keyboard", "mouse"}

RestInv ==
  /\ scan \in LoopType
  /\ drivers \in Seq(Names)
  /\ reg \in 0 .. 24
  /\ drawn \in BOOLEAN
  /\ gdt \in Seq(SegmentDescriptor)
  /\ Depth <= MaxNesting /\ interrupts \in 0 .. MaxInterrupts

LEMMA RestInit == Init => RestInv
<1> SUFFICES ASSUME Init PROVE RestInv
  OBVIOUS
<1>1. scan \in LoopType
  BY LoopBounds DEF Init, LoopType
<1>2. drivers \in Seq(Names) /\ gdt \in Seq(SegmentDescriptor) /\ Depth = 0
  <2>1. drivers = <<>> /\ gdt = <<>> /\ interrupted = <<>>
    BY DEF Init
  <2>2. QED
    BY <2>1 DEF Depth
<1>3. reg \in 0 .. 24 /\ drawn \in BOOLEAN /\ interrupts = 0
  <2>1. reg = 0 /\ interrupts = 0
    BY DEF Init
  <2>2. drawn = FALSE
    BY DEF Init
  <2>3. drawn \in BOOLEAN
    BY <2>2
  <2>4. QED
    BY <2>1, <2>3
<1>4. QED
  BY <1>1, <1>2, <1>3, KernelAssumption DEF RestInv

\* The loop variables of the scan stay within the loops' bounds.
LEMMA ScanLoops ==
  ASSUME IInv, ScanInv, scan \in LoopType, [Next]_vars
  PROVE  scan' \in LoopType
<1>1. CASE BeginDevice
  <2> DEFINE n == IF pci_device_has_function(config, scan.bus, scan.device) THEN 8 ELSE 1
  <2>1. n \in 0 .. 8 /\ scan' = [scan EXCEPT !.function = 0, !.functions = n]
    BY <1>1 DEF BeginDevice
  <2> HIDE DEF n
  <2>2. scan' = [bus |-> scan.bus, device |-> scan.device, function |-> 0, functions |-> n]
    BY <2>1 DEF LoopType
  <2>3. 0 \in 0 .. 8
    OBVIOUS
  <2>4. QED
    BY <2>1, <2>2, <2>3 DEF LoopType
<1>2. CASE EndDevice
  <2> DEFINE b == scan.bus + 1
             d == scan.device + 1
  <2>1. scan' = IF d < Devices THEN [scan EXCEPT !.device = d]
                ELSE [scan EXCEPT !.bus = b, !.device = 0]
    BY <1>2 DEF EndDevice, NextDevice
  <2>2. scan.bus \in 0 .. Buses - 1
    BY <1>2 DEF EndDevice, At, ScanInv, InFunctions
  <2>3. b \in 0 .. Buses /\ (d < Devices => d \in 0 .. Devices - 1) /\ 0 \in 0 .. Devices - 1
    BY <2>2, LoopBounds DEF LoopType
  <2> HIDE DEF b, d
  <2>4. QED
    BY <2>1, <2>3 DEF LoopType
<1>3. CASE ScanFunction
  <2> DEFINE f == scan.function + 1
  <2>1. scan' = [scan EXCEPT !.function = f] /\ scan.function < scan.functions
    BY <1>3 DEF ScanFunction
  <2>2. f \in 0 .. 8
    BY <2>1 DEF LoopType
  <2> HIDE DEF f
  <2>3. QED
    BY <2>1, <2>2 DEF LoopType
<1>4. CASE UNCHANGED scan
  BY <1>4
<1>5. BeginDevice \/ EndDevice \/ ScanFunction \/ UNCHANGED scan
  BY DEF Next, Execute, SetUp, Draw, vars, pci, HandleInterrupt, Return, Interrupt, Start,
         InitDrivers, Activate, SetMisc, SetSequencer, UnlockCRTC, SetCRTC, SetGraphicsController,
         SetAttributeController, SetVideo, Loop, SetMode, EnterDesktop, StartFill, SkipPixel,
         PutPixel, ReadSegment, Store, NextRow, NextWidget, Moving
<1>6. QED
  BY <1>1, <1>2, <1>3, <1>4, <1>5

\* The table of drivers and the table of segments are set once, reg runs from 0 to
\* the last register of a group, and drawn once set stays set.
LEMMA RestTables ==
  ASSUME [Next]_vars
  PROVE  /\ InitDrivers \/ UNCHANGED drivers
         /\ Start \/ UNCHANGED gdt
         /\ UNCHANGED drawn \/ drawn' = TRUE \/ drawn' = (drawn \/ fill.widget = Len(Scene))
         /\ \/ UNCHANGED reg
            \/ reg' = 0
            \/ reg < 4 /\ reg' = reg + 1
            \/ reg < 24 /\ reg' = reg + 1
            \/ reg < 8 /\ reg' = reg + 1
            \/ reg < 20 /\ reg' = reg + 1
<1>1. CASE Draw \/ HandleInterrupt \/ Return \/ (\E v \in Vectors : Interrupt(v)) \/ UNCHANGED vars
  BY <1>1 DEF Draw, vars, pci, drawing, HandleInterrupt, Return, Interrupt, StartFill, SkipPixel,
              PutPixel, ReadSegment, Store, NextRow, NextWidget, Moving
<1>2. CASE SetMisc \/ SetSequencer \/ UnlockCRTC \/ SetCRTC \/ SetGraphicsController
           \/ SetAttributeController \/ SetVideo
  BY <1>2 DEF SetMisc, SetSequencer, UnlockCRTC, SetCRTC, SetGraphicsController,
              SetAttributeController, SetVideo, Loop, SetMode, pci, drawing
<1>3. CASE Start \/ InitDrivers \/ BeginDevice \/ EndDevice \/ ScanFunction \/ Activate
           \/ EnterDesktop
  BY <1>3 DEF Start, InitDrivers, BeginDevice, EndDevice, NextDevice, ScanFunction, Activate,
              EnterDesktop, pci, drawing
<1>4. QED
  BY <1>1, <1>2, <1>3 DEF Next, Execute, SetUp

\* No more interrupts, and none deeper, than the bounds allow.
LEMMA RestInterrupts ==
  ASSUME IInv, [Next]_vars, Depth <= MaxNesting, interrupts \in 0 .. MaxInterrupts
  PROVE  (Depth <= MaxNesting /\ interrupts \in 0 .. MaxInterrupts)'
<1>1. interrupted \in Seq([machine : Machine, vector : Vectors]) /\ Depth \in Nat
  BY DEF IInv, FrameInv, Depth
<1>2. ASSUME NEW v \in Vectors, Interrupt(v)
      PROVE  (Depth <= MaxNesting /\ interrupts \in 0 .. MaxInterrupts)'
  <2> DEFINE frame == [machine |-> cpu, vector |-> v]
  <2>1. /\ interrupted' = <<frame>> \o interrupted /\ frame \in [machine : Machine, vector : Vectors]
        /\ Depth < MaxNesting /\ interrupts < MaxInterrupts /\ interrupts' = interrupts + 1
    BY <1>2 DEF Interrupt, IInv, FrameInv, Depth
  <2> HIDE DEF frame
  <2>2. Len(interrupted') = Depth + 1
    BY <1>1, <2>1 DEF Depth
  <2>3. QED
    BY <1>1, <2>1, <2>2, KernelAssumption DEF Depth
<1>3. CASE Return
  <2>1. Depth > 0
    BY <1>3, AtHandler DEF Return, At, Handling, IInv, FrameInv
  <2>2. interrupted' = Tail(interrupted) /\ interrupts' = interrupts
    BY <1>3 DEF Return
  <2>3. Len(interrupted') = Depth - 1
    BY <1>1, <2>1, <2>2 DEF Depth
  <2>4. QED
    BY <1>1, <2>2, <2>3, KernelAssumption DEF Depth
<1>4. CASE UNCHANGED history
  BY <1>4 DEF history, Depth
<1>5. Return \/ (\E v \in Vectors : Interrupt(v)) \/ UNCHANGED history
  BY DEF Next, Execute, SetUp, Draw, vars, HandleInterrupt, Start, InitDrivers, BeginDevice,
         EndDevice, NextDevice, ScanFunction, Activate, SetMisc, SetSequencer, UnlockCRTC, SetCRTC,
         SetGraphicsController, SetAttributeController, SetVideo, Loop, SetMode, EnterDesktop,
         StartFill, SkipPixel, PutPixel, ReadSegment, Store, NextRow, NextWidget, Moving
<1>6. QED
  BY <1>2, <1>3, <1>4, <1>5

LEMMA RestNext == IInv /\ ScanInv /\ RestInv /\ [Next]_vars => RestInv'
<1> SUFFICES ASSUME IInv, ScanInv, RestInv, [Next]_vars PROVE RestInv'
  OBVIOUS
<1>1. scan' \in LoopType
  BY ScanLoops DEF RestInv
<1>2. drivers' \in Seq(Names)
  <2>1. CASE InitDrivers
    <3> DEFINE one == AddDriver(<<>>, "keyboard")
    <3>1. one \in Seq(Names)
      BY DEF AddDriver, Names
    <3>2. drivers' = AddDriver(one, "mouse")
      BY <2>1 DEF InitDrivers
    <3> HIDE DEF one
    <3>3. QED
      BY <3>1, <3>2 DEF AddDriver, Names
  <2>2. QED
    BY <2>1, RestTables DEF RestInv
<1>3. gdt' \in Seq(SegmentDescriptor)
  <2>1. CASE Start
    BY <2>1, KernelSegments DEF Start
  <2>2. QED
    BY <2>1, RestTables DEF RestInv
<1>4. drawn' \in BOOLEAN
  <2>1. drawn \in BOOLEAN
    BY DEF RestInv
  <2>2. drawn' = drawn \/ drawn' = TRUE \/ drawn' = (drawn \/ fill.widget = Len(Scene))
    BY RestTables
  <2>3. QED
    BY <2>1, <2>2
<1>5. reg' \in 0 .. 24
  <2>1. reg \in 0 .. 24
    BY DEF RestInv
  <2>2. reg' = reg \/ reg' = 0 \/ (reg < 24 /\ reg' = reg + 1)
    <3>1. \/ UNCHANGED reg \/ reg' = 0 \/ (reg < 4 /\ reg' = reg + 1)
          \/ (reg < 24 /\ reg' = reg + 1) \/ (reg < 8 /\ reg' = reg + 1)
          \/ (reg < 20 /\ reg' = reg + 1)
      BY RestTables, Zenon
    <3>2. QED
      BY <2>1, <3>1
  <2>3. QED
    BY <2>1, <2>2
<1>6. (Depth <= MaxNesting /\ interrupts \in 0 .. MaxInterrupts)'
  BY RestInterrupts DEF RestInv
<1>7. QED
  BY <1>1, <1>2, <1>3, <1>4, <1>5, <1>6 DEF RestInv

\* Every reachable state of the kernel has its type, for every screen, scene,
\* content of the PCI buses and state of the adapter.
THEOREM KernelTypes == Spec => []TypeOK
<1>1. IInv /\ ScanInv /\ PaintInv /\ RestInv => TypeOK
  <2> SUFFICES ASSUME IInv, ScanInv, PaintInv, RestInv PROVE TypeOK
    OBVIOUS
  <2>1. /\ cpu.eip \in Labels /\ cpu.cs \in {16} /\ cpu.iflag \in {0, 1}
        /\ DOMAIN cpu.gpr = GeneralRegisters /\ DOMAIN cpu.seg = SegmentRegisters
    BY DEF IInv, FrameInv, Machine, MachineOf, Selectors
  <2>2. con \in [x : 0 .. Columns - 1, y : Nat] /\ fill \in [widget : 1 .. Len(Scene), x : Int, y : Int]
    BY DEF IInv, DataInv, ConsoleType, FillType
  <2>3. \A f \in found : f.id \in FunctionId
    BY <2>1, FoundIsVisible, VisibleType DEF ScanInv
  <2>4. card \in Card /\ config \in Configs /\ screen \in [Offsets -> Byte]
    BY DEF IInv, CardInv, ScanInv, PaintInv
  <2>5. QED
    BY <2>1, <2>2, <2>3, <2>4 DEF TypeOK, RestInv, LoopType, Names, Depth
<1>2. Spec => []RestInv
  <2>1. Spec => [](IInv /\ ScanInv /\ RestInv)
    BY InitIInv, NextIInv, ScanInit, ScanNext, RestInit, RestNext, PTL DEF Spec
  <2>2. QED
    BY <2>1, PTL
<1>3. QED
  BY <1>1, <1>2, Invariance, ScanInvariance, PaintInvariance, PTL
=============================================================================
