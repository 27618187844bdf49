---------------------------- MODULE WindowsProofs ----------------------------
(***************************************************************************)
(* Proofs about module Windows: types, that a dragged window follows the   *)
(* pointer until a release reaches it, that keys go to the widget clicked  *)
(* last and clicks to the widget seen, for every tree of widgets, every    *)
(* placement and every set of movements.                                   *)
(***************************************************************************)
EXTENDS Windows, TLAPS

\* Children hang under the parent they were initialised with.
ChildrenInv ==
  \A c \in Composites : \A i \in 1 .. Len(children[c]) :
    Parent[children[c][i]] = c

\* A window that is dragged is on the desktop and under the pointer.
GripInv ==
  /\ at[Root] = [x |-> 0, y |-> 0]
  /\ \A w \in Windows : dragging[w] =>
       /\ w \in Draggable
       /\ \E i \in 1 .. Len(children[Root]) : children[Root][i] = w
       /\ Contains(w, mouse)

IInv == TypeOK /\ ChildrenInv /\ GripInv /\ KeysFollowClicks

-----------------------------------------------------------------------------
(* Coordinates                                                             *)

\* Clamp keeps a coordinate on the screen.
LEMMA ClampInRange ==
  ASSUME NEW v \in Int, NEW size \in Int, size > 0
  PROVE  Clamp(v, size) \in 0 .. size - 1
BY DEF Clamp

\* A quarter of a movement is an integer.
LEMMA QuarterInt ==
  ASSUME NEW d \in Int
  PROVE  Quarter(d) \in Int
BY DEF Quarter

\* The screen is where the desktop is.
LEMMA MinusOrigin ==
  ASSUME NEW p \in Point
  PROVE  Minus(p, [x |-> 0, y |-> 0]) = p
BY DEF Minus, Point

\* Sums and differences of points are points.
LEMMA PointArithmetic ==
  ASSUME NEW p \in Point, NEW q \in Point
  PROVE  Plus(p, q) \in Point /\ Minus(p, q) \in Point
BY DEF Plus, Minus, Point

\* What a hit test finds is a child that contains the point, or nothing.
LEMMA UnderIsChild ==
  ASSUME NEW c, NEW p, Under(c, p) # None
  PROVE  \E i \in 1 .. Len(children[c]) :
           /\ Under(c, p) = children[c][i]
           /\ Contains(children[c][i], Minus(p, at[c]))
<1> DEFINE q == Minus(p, at[c])
           first == {i \in 1 .. Len(children[c]) :
                       /\ Contains(children[c][i], q)
                       /\ \A j \in 1 .. i - 1 : ~Contains(children[c][j], q)}
           k == CHOOSE i \in first : TRUE
<1>1. Under(c, p) = IF first = {} THEN None ELSE children[c][k]
  BY DEF Under
<1>2. first # {}
  BY <1>1
<1>3. k \in first
  BY <1>2
<1> QED
  BY <1>1, <1>2, <1>3

\* The mouse is a point.
LEMMA MousePoint ==
  ASSUME TypeOK
  PROVE  mouse \in Point
BY WindowsAssumption DEF TypeOK, Point

\* A press reaches a plain widget or nothing.
LEMMA PressedPlain ==
  ASSUME TypeOK, ChildrenInv, NEW p
  PROVE  /\ Under(Root, p) \in Windows \union Plain \union {None}
         /\ Pressed(p) \in Plain \union {None}
         /\ Pressed(p) # None => Parent[Pressed(p)] \in Composites
<1> USE WindowsAssumption
<1>1. ASSUME NEW c \in Composites, NEW r, Under(c, r) # None
      PROVE  /\ Under(c, r) \in Windows \union Plain
             /\ Parent[Under(c, r)] = c
  <2>1. PICK i \in 1 .. Len(children[c]) : Under(c, r) = children[c][i]
    BY <1>1, UnderIsChild
  <2>2. children[c] \in Seq(Windows \union Plain)
    BY DEF TypeOK
  <2>3. children[c][i] \in Windows \union Plain
    BY <2>2, <2>1
  <2> QED
    BY <2>1, <2>3 DEF ChildrenInv
<1>2. Under(Root, p) \in Windows \union Plain \union {None}
  BY <1>1 DEF Composites
<1>3. CASE Under(Root, p) \in Windows
  <2> DEFINE w == Under(Root, p)
             r == Minus(p, at[Root])
  <2>1. Pressed(p) = Under(w, r)
    BY <1>3 DEF Pressed
  <2>2. w \in Composites
    BY <1>3 DEF Composites
  <2>3. CASE Under(w, r) = None
    BY <1>2, <2>1, <2>3
  <2>4. CASE Under(w, r) # None
    <3>1. Under(w, r) \in Windows \union Plain /\ Parent[Under(w, r)] = w
      BY <1>1, <2>2, <2>4
    <3>2. Under(w, r) \notin Windows
      BY <1>3, <3>1
    <3> QED
      BY <1>2, <2>1, <2>2, <3>1, <3>2
  <2> QED
    BY <2>3, <2>4
<1>4. CASE Under(Root, p) \notin Windows
  <2>1. Pressed(p) = Under(Root, p)
    BY <1>4 DEF Pressed
  <2> QED
    BY <1>2, <1>4, <2>1
<1> QED
  BY <1>3, <1>4

-----------------------------------------------------------------------------
(* The initial states                                                      *)

LEMMA InitOK == Init => IInv
<1> SUFFICES ASSUME Init PROVE IInv
  OBVIOUS
<1> USE WindowsAssumption DEF Init
<1>1. TypeOK
  <2>1. at \in [Widgets -> Point]
    BY DEF Point
  <2>2. children \in [Composites -> Seq(Windows \union Plain)]
    OBVIOUS
  <2>3. \A c \in Composites : Len(children[c]) <= Capacity
    OBVIOUS
  <2>4. mouse \in [x : 0 .. Place[Root].w - 1, y : 0 .. Place[Root].h - 1]
    <3>1. Root \in Widgets
      BY DEF Widgets, Composites
    <3>2. Place[Root].w \in Int /\ Place[Root].h \in Int
      BY <3>1
    <3> QED
      BY <3>2
  <2> QED
    BY <2>1, <2>2, <2>3, <2>4 DEF TypeOK
<1>2. ChildrenInv
  BY DEF ChildrenInv
<1>3. GripInv
  <2>1. Root \in Widgets
    BY DEF Widgets, Composites
  <2> QED
    BY <2>1 DEF GripInv
<1>4. KeysFollowClicks
  <2>1. Root \in Composites /\ None \notin Windows
    BY DEF Widgets, Composites
  <2> QED
    BY <2>1 DEF KeysFollowClicks, KeyTarget
<1> QED
  BY <1>1, <1>2, <1>3, <1>4 DEF IInv

-----------------------------------------------------------------------------
(* The steps                                                               *)

\* Append in terms of positions.
LEMMA AppendPositions ==
  ASSUME NEW S, NEW s \in Seq(S), NEW e \in S
  PROVE  /\ Len(Append(s, e)) = Len(s) + 1
         /\ \A i \in 1 .. Len(s) : i \in 1 .. Len(Append(s, e)) /\ Append(s, e)[i] = s[i]
         /\ \A i \in 1 .. Len(Append(s, e)) :
              Append(s, e)[i] = IF i \in 1 .. Len(s) THEN s[i] ELSE e
OBVIOUS

LEMMA AddChildOK ==
  ASSUME IInv, NEW w \in Windows \union Plain, AddChild(w)
  PROVE  IInv'
<1> USE WindowsAssumption
<1> DEFINE c == Parent[w]
<1>0. TypeOK /\ ChildrenInv /\ GripInv /\ KeysFollowClicks
  BY DEF IInv
<1>1. c \in Composites /\ children[c] \in Seq(Windows \union Plain)
  BY <1>0 DEF TypeOK
<1>2. /\ children' = [children EXCEPT ![c] = Append(children[c], w)]
      /\ Len(children[c]) < Capacity
      /\ UNCHANGED <<at, focussed, dragging, mouse, clicked>>
  BY DEF AddChild
<1>3. /\ children' \in [Composites -> Seq(Windows \union Plain)]
      /\ children'[c] = Append(children[c], w)
      /\ \A d \in Composites \ {c} : children'[d] = children[d]
  BY <1>0, <1>1, <1>2 DEF TypeOK
<1>4. TypeOK'
  <2>1. \A d \in Composites : Len(children'[d]) <= Capacity
    BY <1>0, <1>1, <1>2, <1>3 DEF TypeOK
  <2> QED
    BY <1>0, <1>2, <1>3, <2>1 DEF TypeOK
<1>5. ChildrenInv'
  <2>1. ASSUME NEW d \in Composites, NEW i \in 1 .. Len(children'[d])
        PROVE  Parent[children'[d][i]] = d
    <3>1. CASE d # c
      BY <1>0, <1>3, <2>1, <3>1 DEF ChildrenInv
    <3>2. CASE d = c
      <4>1. children'[d][i] = IF i \in 1 .. Len(children[c]) THEN children[c][i] ELSE w
        BY <1>1, <1>3, <2>1, <3>2, AppendPositions
      <4> QED
        BY <1>0, <1>1, <3>2, <4>1 DEF ChildrenInv
    <3> QED
      BY <3>1, <3>2
  <2> QED
    BY <2>1 DEF ChildrenInv
<1>6. GripInv'
  <2>1. ASSUME NEW v, NEW i \in 1 .. Len(children[Root]), children[Root][i] = v
        PROVE  i \in 1 .. Len(children'[Root]) /\ children'[Root][i] = v
    <3>1. Root \in Composites
      BY DEF Composites
    <3>2. children[Root] \in Seq(Windows \union Plain)
      BY <3>1, <1>0 DEF TypeOK
    <3>3. CASE c # Root
      BY <1>3, <2>1, <3>1, <3>3
    <3>4. CASE c = Root
      <4>1. children'[Root] = Append(children[Root], w)
        BY <1>3, <3>4
      <4>2. \A k \in 1 .. Len(children[Root]) :
              /\ k \in 1 .. Len(Append(children[Root], w))
              /\ Append(children[Root], w)[k] = children[Root][k]
        BY <3>2, AppendPositions
      <4> QED
        BY <2>1, <4>1, <4>2
    <3> QED
      BY <3>3, <3>4
  <2>2. \A v \in Windows : Contains(v, mouse) => Contains(v, mouse)'
    BY <1>2 DEF Contains
  <2> QED
    BY <1>0, <1>2, <2>1, <2>2 DEF GripInv
<1>7. KeysFollowClicks'
  BY <1>0, <1>2 DEF KeysFollowClicks, KeyTarget
<1> QED
  BY <1>4, <1>5, <1>6, <1>7 DEF IInv

LEMMA MouseDownOK ==
  ASSUME IInv, NEW b \in {1, 2, 3}, MouseDown(b)
  PROVE  IInv'
<1> USE WindowsAssumption
<1> DEFINE w == Under(Root, mouse)
           v == Pressed(mouse)
<1>0. TypeOK /\ ChildrenInv /\ GripInv /\ KeysFollowClicks
  BY DEF IInv
<1>1. /\ w \in Windows \union Plain \union {None}
      /\ v \in Plain \union {None}
      /\ v # None => Parent[v] \in Composites
  BY <1>0, PressedPlain
<1>2. /\ dragging' = IF w \in Draggable THEN [dragging EXCEPT ![w] = (b = 1)]
                     ELSE dragging
      /\ Focus(v)
      /\ clicked' = IF v = None THEN clicked ELSE v
      /\ UNCHANGED <<at, children, mouse>>
  BY DEF MouseDown
<1>3. /\ focussed' \in [Composites -> Windows \union Plain \union {None}]
      /\ \A c \in Composites : focussed'[c] =
           CASE v # None /\ c = Parent[v] -> v
             [] v # None /\ c # Parent[v] /\ c = Root -> Parent[v]
             [] OTHER -> focussed[c]
  <2>1. ASSUME NEW c \in Composites
        PROVE  (CASE v # None /\ c = Parent[v] -> v
                  [] v # None /\ c # Parent[v] /\ c = Root -> Parent[v]
                  [] OTHER -> focussed[c]) \in Windows \union Plain \union {None}
    BY <1>0, <1>1 DEF TypeOK, Composites
  <2> QED
    BY <1>2, <2>1 DEF Focus
<1>4. TypeOK'
  <2>1. dragging' \in [Windows -> BOOLEAN]
    BY <1>0, <1>2 DEF TypeOK
  <2>2. clicked' \in Plain \union {None}
    BY <1>0, <1>1, <1>2 DEF TypeOK
  <2> QED
    BY <1>0, <1>2, <1>3, <2>1, <2>2 DEF TypeOK
<1>5. ChildrenInv'
  BY <1>0, <1>2 DEF ChildrenInv
<1>6. GripInv'
  <2> SUFFICES ASSUME NEW u \in Windows, dragging'[u]
               PROVE  /\ u \in Draggable
                      /\ \E i \in 1 .. Len(children[Root]) : children[Root][i] = u
                      /\ Contains(u, mouse)
    BY <1>0, <1>2 DEF GripInv, Contains
  <2>1. CASE dragging[u]
    BY <1>0, <2>1 DEF GripInv
  <2>2. CASE ~dragging[u]
    <3>1. u = w /\ u \in Draggable
      BY <1>0, <1>2, <2>2 DEF TypeOK
    <3>2. w # None
      BY <3>1 DEF Widgets, Composites
    <3>3. PICK i \in 1 .. Len(children[Root]) :
            w = children[Root][i] /\ Contains(children[Root][i], Minus(mouse, at[Root]))
      BY <3>2, UnderIsChild
    <3>4. Minus(mouse, at[Root]) = mouse
      BY <1>0, MousePoint, MinusOrigin DEF GripInv
    <3> QED
      BY <3>1, <3>3, <3>4
  <2> QED
    BY <2>1, <2>2
<1>7. KeysFollowClicks'
  <2>1. Root \in Composites
    BY DEF Composites
  <2>2. CASE v = None
    <3>1. \A c \in Composites : focussed'[c] = focussed[c]
      BY <1>3, <2>2
    <3> QED
      BY <1>0, <1>2, <2>1, <2>2, <3>1 DEF KeysFollowClicks, KeyTarget, Composites
  <2>3. CASE v # None /\ Parent[v] = Root
    BY <1>1, <1>2, <1>3, <2>1, <2>3 DEF KeysFollowClicks, KeyTarget
  <2>4. CASE v # None /\ Parent[v] # Root
    <3>1. Parent[v] \in Windows
      BY <1>1, <2>4 DEF Composites
    <3>2. focussed'[Root] = Parent[v] /\ focussed'[Parent[v]] = v
      BY <1>1, <1>3, <2>1, <2>4
    <3> QED
      BY <1>2, <2>4, <3>1, <3>2 DEF KeysFollowClicks, KeyTarget
  <2> QED
    BY <2>2, <2>3, <2>4
<1> QED
  BY <1>4, <1>5, <1>6, <1>7 DEF IInv

LEMMA MouseUpOK ==
  ASSUME IInv, MouseUp
  PROVE  IInv'
<1>0. TypeOK /\ ChildrenInv /\ GripInv /\ KeysFollowClicks
  BY DEF IInv
<1>1. /\ dragging' = IF Under(Root, mouse) \in Draggable
                       THEN [dragging EXCEPT ![Under(Root, mouse)] = FALSE] ELSE dragging
      /\ UNCHANGED <<at, children, focussed, mouse, clicked>>
  BY DEF MouseUp
<1>2. TypeOK'
  BY <1>0, <1>1 DEF TypeOK
<1>3. ChildrenInv'
  BY <1>0, <1>1 DEF ChildrenInv
<1>4. GripInv'
  <2>1. \A u \in Windows : dragging'[u] => dragging[u]
    BY <1>0, <1>1 DEF TypeOK
  <2> QED
    BY <1>0, <1>1, <2>1 DEF GripInv, Contains
<1>5. KeysFollowClicks'
  BY <1>0, <1>1 DEF KeysFollowClicks, KeyTarget
<1> QED
  BY <1>2, <1>3, <1>4, <1>5 DEF IInv

\* A dragged window is told of every movement, since it holds the pointer.
LEMMA MovedAlike ==
  ASSUME IInv, NEW d \in [x : Moves, y : Moves], MouseMove(d)
  PROVE  /\ mouse' \in [x : 0 .. Place[Root].w - 1, y : 0 .. Place[Root].h - 1]
         /\ at' \in [Widgets -> Point]
         /\ at'[Root] = at[Root]
         /\ \A w \in Windows :
              at'[w] = IF dragging[w] THEN Plus(at[w], Minus(mouse', mouse)) ELSE at[w]
<1> USE WindowsAssumption
<1> DEFINE new == [x |-> Clamp(mouse.x + Quarter(d.x), Place[Root].w),
                   y |-> Clamp(mouse.y + Quarter(d.y), Place[Root].h)]
           Told(w) == /\ \E i \in 1 .. Len(children[Root]) : children[Root][i] = w
                      /\ Contains(w, Minus(mouse, at[Root])) \/ Contains(w, Minus(new, at[Root]))
<1>0. TypeOK /\ GripInv
  BY DEF IInv
<1>1. /\ mouse' = new
      /\ at' = [w \in Widgets |->
                  IF w \in Draggable /\ dragging[w] /\ Told(w)
                  THEN Plus(at[w], Minus(new, mouse)) ELSE at[w]]
  BY DEF MouseMove
<1>2. mouse \in Point
  BY <1>0, MousePoint
<1>3. new \in [x : 0 .. Place[Root].w - 1, y : 0 .. Place[Root].h - 1]
  <2>1. Place[Root].w \in Int /\ Place[Root].h \in Int
    BY DEF Widgets, Composites
  <2>2. mouse.x \in Int /\ mouse.y \in Int /\ d.x \in Int /\ d.y \in Int
    BY <1>0, <1>2, <2>1 DEF Point
  <2>3. mouse.x + Quarter(d.x) \in Int /\ mouse.y + Quarter(d.y) \in Int
    BY <2>2, QuarterInt
  <2>4. /\ Clamp(mouse.x + Quarter(d.x), Place[Root].w) \in 0 .. Place[Root].w - 1
        /\ Clamp(mouse.y + Quarter(d.y), Place[Root].h) \in 0 .. Place[Root].h - 1
    BY <2>1, <2>3, ClampInRange
  <2> QED
    BY <2>4
<1>4. mouse \in Point /\ new \in Point
  BY <1>0, <1>3, MousePoint DEF Point
<1>5. at' \in [Widgets -> Point]
  <2>1. Minus(new, mouse) \in Point
    BY <1>4, PointArithmetic
  <2>2. \A w \in Widgets : at[w] \in Point
    BY <1>0 DEF TypeOK
  <2>3. \A w \in Widgets : Plus(at[w], Minus(new, mouse)) \in Point
    BY <2>1, <2>2, PointArithmetic
  <2> QED
    BY <1>1, <2>2, <2>3
<1>6. at'[Root] = at[Root]
  BY <1>1 DEF Widgets, Composites
<1>7. ASSUME NEW w \in Windows
      PROVE  at'[w] = IF dragging[w] THEN Plus(at[w], Minus(new, mouse)) ELSE at[w]
  <2>1. w \in Widgets
    BY DEF Widgets, Composites
  <2>2. dragging[w] => w \in Draggable /\ Told(w)
    BY <1>0, <1>4, MinusOrigin DEF GripInv
  <2> QED
    BY <1>1, <2>1, <2>2
<1> QED
  BY <1>1, <1>3, <1>5, <1>6, <1>7

LEMMA MouseMoveOK ==
  ASSUME IInv, NEW d \in [x : Moves, y : Moves], MouseMove(d)
  PROVE  IInv'
<1> USE WindowsAssumption
<1>0. TypeOK /\ ChildrenInv /\ GripInv /\ KeysFollowClicks
  BY DEF IInv
<1>1. UNCHANGED <<children, focussed, dragging, clicked>>
  BY DEF MouseMove
<1>2. /\ mouse' \in [x : 0 .. Place[Root].w - 1, y : 0 .. Place[Root].h - 1]
      /\ at' \in [Widgets -> Point]
      /\ at'[Root] = at[Root]
      /\ \A w \in Windows :
           at'[w] = IF dragging[w] THEN Plus(at[w], Minus(mouse', mouse)) ELSE at[w]
  BY MovedAlike
<1>3. TypeOK'
  BY <1>0, <1>1, <1>2 DEF TypeOK
<1>4. ChildrenInv'
  BY <1>0, <1>1 DEF ChildrenInv
<1>5. GripInv'
  <2>1. ASSUME NEW w \in Windows, dragging[w]
        PROVE  Contains(w, mouse)'
    <3>1. Contains(w, mouse) /\ at'[w] = Plus(at[w], Minus(mouse', mouse))
      BY <1>0, <1>2, <2>1 DEF GripInv
    <3>2. w \in Widgets
      BY DEF Widgets, Composites
    <3>3. /\ at[w] \in Point /\ mouse \in Point /\ mouse' \in Point
          /\ Place[w].w \in Int /\ Place[w].h \in Int
      <4>1. mouse' \in Point
        BY <1>2 DEF Widgets, Composites, Point
      <4> QED
        BY <1>0, <3>2, <4>1, MousePoint DEF TypeOK
    <3>4. /\ at'[w].x = at[w].x + (mouse'.x - mouse.x)
          /\ at'[w].y = at[w].y + (mouse'.y - mouse.y)
      BY <3>1, <3>3 DEF Plus, Minus, Point
    <3> QED
      BY <3>1, <3>3, <3>4 DEF Contains, Point
  <2> QED
    BY <1>0, <1>1, <1>2, <2>1 DEF GripInv
<1>6. KeysFollowClicks'
  BY <1>0, <1>1 DEF KeysFollowClicks, KeyTarget
<1> QED
  BY <1>3, <1>4, <1>5, <1>6 DEF IInv

LEMMA StutterOK ==
  ASSUME IInv, UNCHANGED vars
  PROVE  IInv'
BY DEF IInv, TypeOK, ChildrenInv, GripInv, Contains, KeysFollowClicks, KeyTarget, vars

LEMMA StepOK == IInv /\ [Next]_vars => IInv'
<1> SUFFICES ASSUME IInv, [Next]_vars PROVE IInv'
  OBVIOUS
<1>1. ASSUME NEW w \in Windows \union Plain, AddChild(w) PROVE IInv'
  BY <1>1, AddChildOK
<1>2. ASSUME NEW b \in {1, 2, 3}, MouseDown(b) PROVE IInv'
  BY <1>2, MouseDownOK
<1>3. CASE MouseUp
  BY <1>3, MouseUpOK
<1>4. ASSUME NEW dx \in Moves, NEW dy \in Moves, MouseMove([x |-> dx, y |-> dy])
      PROVE IInv'
  <2>1. [x |-> dx, y |-> dy] \in [x : Moves, y : Moves]
    OBVIOUS
  <2> QED
    BY <1>4, <2>1, MouseMoveOK
<1>5. CASE UNCHANGED vars
  BY <1>5, StutterOK
<1> QED
  BY <1>1, <1>2, <1>3, <1>4, <1>5 DEF Next

\* The inductive invariant holds always.
THEOREM Invariance == Spec => []IInv
<1>1. Init => IInv
  BY InitOK
<1>2. IInv /\ [Next]_vars => IInv'
  BY StepOK
<1> QED
  BY <1>1, <1>2, PTL DEF Spec

-----------------------------------------------------------------------------
(* The theorems                                                            *)

\* The pointer stays on the screen, composites within their tables, and every
\* variable in its type, for every tree and every movement.
THEOREM TypeCorrect == Spec => []TypeOK
<1>1. IInv => TypeOK
  BY DEF IInv
<1> QED
  BY <1>1, Invariance, PTL

\* Keys go to the widget clicked last (composite_widget_get_focus up the tree,
\* composite_widget_on_key_down back down).
THEOREM FocusPath == Spec => []KeysFollowClicks
<1>1. IInv => KeysFollowClicks
  BY DEF IInv
<1> QED
  BY <1>1, Invariance, PTL

\* A dragged window moves exactly as the pointer does, and no other window moves.
THEOREM DragFollows == Spec => DraggedFollowsPointer
<1> DEFINE Follows ==
      \A w \in Windows :
        Minus(at'[w], at[w]) = IF dragging[w] THEN Minus(mouse', mouse)
                               ELSE [x |-> 0, y |-> 0]
<1>1. IInv /\ [Next]_vars => [Follows]_vars
  <2> SUFFICES ASSUME IInv, Next, NEW w \in Windows
               PROVE  Minus(at'[w], at[w]) = IF dragging[w] THEN Minus(mouse', mouse)
                                             ELSE [x |-> 0, y |-> 0]
    OBVIOUS
  <2>1. at[w] \in Point /\ mouse \in Point
    BY MousePoint DEF IInv, TypeOK, Widgets, Composites
  <2>2. Minus(at[w], at[w]) = [x |-> 0, y |-> 0] /\ Minus(mouse, mouse) = [x |-> 0, y |-> 0]
    BY <2>1 DEF Minus, Point
  <2>3. CASE at' = at /\ mouse' = mouse
    BY <2>2, <2>3
  <2>4. ASSUME NEW d \in [x : Moves, y : Moves], MouseMove(d)
        PROVE  Minus(at'[w], at[w]) = IF dragging[w] THEN Minus(mouse', mouse)
                                      ELSE [x |-> 0, y |-> 0]
    <3>1. /\ mouse' \in [x : 0 .. Place[Root].w - 1, y : 0 .. Place[Root].h - 1]
          /\ at'[w] = IF dragging[w] THEN Plus(at[w], Minus(mouse', mouse)) ELSE at[w]
      BY <2>4, MovedAlike
    <3>2. mouse' \in Point
      BY <3>1, WindowsAssumption DEF Widgets, Composites, Point
    <3>3. Minus(Plus(at[w], Minus(mouse', mouse)), at[w]) = Minus(mouse', mouse)
      BY <2>1, <3>2 DEF Minus, Plus, Point
    <3> QED
      BY <2>2, <3>1, <3>3
  <2>5. ASSUME NEW v \in Windows \union Plain, AddChild(v) PROVE at' = at /\ mouse' = mouse
    BY <2>5 DEF AddChild
  <2>6. ASSUME NEW b \in {1, 2, 3}, MouseDown(b) PROVE at' = at /\ mouse' = mouse
    BY <2>6 DEF MouseDown
  <2>7. CASE MouseUp
    BY <2>3, <2>7 DEF MouseUp
  <2>8. ASSUME NEW dx \in Moves, NEW dy \in Moves, MouseMove([x |-> dx, y |-> dy])
        PROVE  Minus(at'[w], at[w]) = IF dragging[w] THEN Minus(mouse', mouse)
                                      ELSE [x |-> 0, y |-> 0]
    <3>1. [x |-> dx, y |-> dy] \in [x : Moves, y : Moves]
      OBVIOUS
    <3> QED
      BY <2>4, <2>8, <3>1
  <2> QED
    BY <2>3, <2>5, <2>6, <2>7, <2>8 DEF Next
<1> QED
  BY <1>1, Invariance, PTL DEF Spec, DraggedFollowsPointer

\* A hit test finds the first child that contains the point.
LEMMA UnderIsFirst ==
  ASSUME NEW c, NEW p, children[c] \in Seq(Windows \union Plain),
         NEW i \in 1 .. Len(children[c]),
         Contains(children[c][i], Minus(p, at[c])),
         \A j \in 1 .. i - 1 : ~Contains(children[c][j], Minus(p, at[c]))
  PROVE  Under(c, p) = children[c][i]
<1> DEFINE q == Minus(p, at[c])
           first == {k \in 1 .. Len(children[c]) :
                       /\ Contains(children[c][k], q)
                       /\ \A j \in 1 .. k - 1 : ~Contains(children[c][j], q)}
<1>1. i \in first
  OBVIOUS
<1>2. ASSUME NEW k \in first PROVE k = i
  <2>1. k \in 1 .. Len(children[c]) /\ Len(children[c]) \in Nat
    OBVIOUS
  <2>2. ~(k \in 1 .. i - 1) /\ ~(i \in 1 .. k - 1)
    OBVIOUS
  <2> QED
    BY <2>1, <2>2
<1>3. (CHOOSE k \in first : TRUE) = i
  BY <1>1, <1>2
<1> HIDE DEF first
<1>4. Under(c, p) = IF first = {} THEN None ELSE children[c][CHOOSE k \in first : TRUE]
  BY DEF Under, first
<1> QED
  BY <1>1, <1>3, <1>4

\* A release ends every drag but one that an earlier child of the desktop hides
\* from it (window_on_mouse_up, composite_widget_on_mouse_up).
THEOREM ReleaseEnds == Spec => ReleaseEndsDrag
<1> DEFINE Ends ==
      MouseUp => \A i \in 1 .. Len(children[Root]) :
        LET w == children[Root][i] IN
        w \in Windows /\ dragging'[w] =>
          \E j \in 1 .. i - 1 : Contains(children[Root][j], mouse)
<1>1. IInv /\ [Next]_vars => [Ends]_vars
  <2> SUFFICES ASSUME IInv, MouseUp,
                      NEW i \in 1 .. Len(children[Root]),
                      children[Root][i] \in Windows, dragging'[children[Root][i]],
                      \A j \in 1 .. i - 1 : ~Contains(children[Root][j], mouse)
               PROVE  FALSE
    OBVIOUS
  <2> DEFINE w == children[Root][i]
  <2>1. TypeOK /\ GripInv
    BY DEF IInv
  <2>2. dragging' = IF Under(Root, mouse) \in Draggable
                    THEN [dragging EXCEPT ![Under(Root, mouse)] = FALSE] ELSE dragging
    BY DEF MouseUp
  <2>3. dragging[w]
    BY <2>1, <2>2 DEF TypeOK
  <2>4. w \in Draggable /\ Contains(w, mouse) /\ at[Root] = [x |-> 0, y |-> 0]
    BY <2>1, <2>3 DEF GripInv
  <2>5. Minus(mouse, at[Root]) = mouse
    BY <2>1, <2>4, MousePoint, MinusOrigin
  <2>6. children[Root] \in Seq(Windows \union Plain)
    BY <2>1 DEF TypeOK, Composites
  <2>7. Under(Root, mouse) = w
    BY <2>4, <2>5, <2>6, UnderIsFirst
  <2>8. ~dragging'[w]
    BY <2>1, <2>2, <2>4, <2>7 DEF TypeOK
  <2> QED
    BY <2>8
<1> QED
  BY <1>1, Invariance, PTL DEF Spec, ReleaseEndsDrag

-----------------------------------------------------------------------------
(* Clicks                                                                  *)

\* No widget is twice in a list of children.
DistinctInv ==
  \A c \in Composites : \A i, j \in 1 .. Len(children[c]) :
    children[c][i] = children[c][j] => i = j

\* composite_widget_add_child is called once for each widget.
LEMMA DistinctKept == Spec => []DistinctInv
<1> USE DEF DistinctInv
<1>1. Init => DistinctInv
  BY DEF Init
<1>2. IInv /\ DistinctInv /\ [Next]_vars => DistinctInv'
  <2> SUFFICES ASSUME IInv, DistinctInv, [Next]_vars, NEW c \in Composites,
                      NEW i \in 1 .. Len(children'[c]), NEW j \in 1 .. Len(children'[c]),
                      children'[c][i] = children'[c][j]
               PROVE  i = j
    OBVIOUS
  <2>1. ASSUME NEW w \in Windows \union Plain, AddChild(w) PROVE i = j
    <3> DEFINE p == Parent[w]
    <3>1. /\ children' = [children EXCEPT ![p] = Append(@, w)]
          /\ \A k \in 1 .. Len(children[p]) : children[p][k] # w
      BY <2>1 DEF AddChild
    <3>2. children \in [Composites -> Seq(Windows \union Plain)] /\ p \in Composites
      BY WindowsAssumption DEF IInv, TypeOK
    <3>3. CASE c # p
      BY <3>1, <3>2, <3>3
    <3>4. CASE c = p
      <4>1. children'[c] = Append(children[p], w)
        BY <3>1, <3>2, <3>4
      <4> HIDE DEF p
      <4>2. children[p] \in Seq(Windows \union Plain)
        BY <3>2
      <4>3. /\ i \in 1 .. Len(children[p]) + 1 /\ j \in 1 .. Len(children[p]) + 1
            /\ Len(children[p]) \in Nat
        BY <4>1, <4>2
      <4>4. \A k \in 1 .. Len(children[p]) : children'[c][k] = children[p][k]
        BY <4>1, <4>2
      <4>5. children'[c][Len(children[p]) + 1] = w
        BY <4>1, <4>2
      <4>6. CASE i \in 1 .. Len(children[p]) /\ j \in 1 .. Len(children[p])
        BY <3>2, <4>4, <4>6
      <4> QED
        BY <3>1, <4>3, <4>4, <4>5, <4>6
    <3> QED
      BY <3>3, <3>4
  <2>2. CASE children' = children
    BY <2>2
  <2>3. ASSUME NEW b \in {1, 2, 3}, MouseDown(b) PROVE children' = children
    BY <2>3 DEF MouseDown
  <2>4. ASSUME NEW dx \in Moves, NEW dy \in Moves, MouseMove([x |-> dx, y |-> dy])
        PROVE  children' = children
    BY <2>4 DEF MouseMove
  <2> QED
    BY <2>1, <2>2, <2>3, <2>4 DEF Next, MouseUp, vars
<1> QED
  BY <1>1, <1>2, Invariance, PTL DEF Spec

\* What is in a composite's table.
LEMMA ChildTyped ==
  ASSUME TypeOK, ChildrenInv, NEW c \in Composites, NEW i \in 1 .. Len(children[c])
  PROVE  /\ children[c] \in Seq(Windows \union Plain)
         /\ children[c][i] \in Windows \union Plain
         /\ Parent[children[c][i]] = c
         /\ c # Root => children[c][i] \in Plain
<1>1. children[c] \in Seq(Windows \union Plain)
  BY DEF TypeOK
<1>2. children[c][i] \in Windows \union Plain /\ Parent[children[c][i]] = c
  BY <1>1 DEF ChildrenInv
<1> QED
  BY <1>1, <1>2, WindowsAssumption

\* The desktop covers every point of the screen, the pointer's among them.
LEMMA RootCovers ==
  ASSUME IInv
  PROVE  Root \in Covering(mouse) /\ OnScreen(Root) = at[Root]
<1>1. OnScreen(Root) = at[Root] /\ at[Root].x = 0 /\ at[Root].y = 0
  BY DEF OnScreen, IInv, GripInv
<1>2. mouse \in [x : 0 .. Place[Root].w - 1, y : 0 .. Place[Root].h - 1]
  BY DEF IInv, TypeOK
<1>3. Place[Root].w \in Int /\ Place[Root].h \in Int
  BY WindowsAssumption DEF Widgets, Composites
<1>4. /\ 0 <= mouse.x /\ mouse.x < 0 + Place[Root].w
      /\ 0 <= mouse.y /\ mouse.y < 0 + Place[Root].h
  BY <1>2, <1>3
<1> QED
  BY <1>1, <1>4 DEF Covering, Attached, Widgets, Composites

\* The hit test among the desktop's children, relative to the desktop, agrees
\* with the places on the screen.
LEMMA CoveringChild ==
  ASSUME IInv, NEW i \in 1 .. Len(children[Root])
  PROVE  children[Root][i] \in Covering(mouse)
           <=> Contains(children[Root][i], Minus(mouse, at[Root]))
<1> DEFINE v == children[Root][i]
<1>1. v \in Windows \union Plain /\ Parent[v] = Root
  BY ChildTyped DEF IInv, Composites
<1>2. v # Root /\ v \in Widgets /\ Attached(v)
  BY <1>1, WindowsAssumption DEF Attached, Widgets, Composites
<1>3. at[v] \in Point /\ mouse \in Point /\ at[Root] = [x |-> 0, y |-> 0]
  BY <1>2, MousePoint DEF IInv, TypeOK, GripInv
<1> HIDE DEF v
<1>4. OnScreen(v) = at[v]
  BY <1>1, <1>2, <1>3 DEF OnScreen, Plus, Point
<1>5. Minus(mouse, at[Root]) = mouse
  BY <1>3, MinusOrigin
<1>6. v \in Covering(mouse) <=> Contains(v, Minus(mouse, at[Root]))
  BY <1>2, <1>4, <1>5 DEF Covering, Contains
<1> QED
  BY <1>6 DEF v

\* The hit test among a window's children, relative first to the desktop and then
\* to the window, agrees with the places on the screen.
LEMMA CoveringInner ==
  ASSUME IInv, NEW k \in 1 .. Len(children[Root]), children[Root][k] \in Windows,
         NEW i \in 1 .. Len(children[children[Root][k]])
  PROVE  children[children[Root][k]][i] \in Covering(mouse)
           <=> Contains(children[children[Root][k]][i],
                        Minus(Minus(mouse, at[Root]), at[children[Root][k]]))
<1> DEFINE w == children[Root][k]
           v == children[w][i]
<1>1. w \in Composites /\ w # Root /\ Parent[w] = Root
  BY WindowsAssumption DEF Composites
<1>2. v \in Plain /\ Parent[v] = w
  BY <1>1, ChildTyped DEF IInv
<1>3. v # Root /\ v \in Widgets /\ w \in Widgets /\ Attached(v)
  BY <1>1, <1>2, WindowsAssumption DEF Attached, Widgets
<1>4. /\ at[v] \in Point /\ at[w] \in Point /\ mouse \in Point
      /\ at[Root] = [x |-> 0, y |-> 0]
  BY <1>3, MousePoint DEF IInv, TypeOK, GripInv
<1>5. Place[v].w \in Int /\ Place[v].h \in Int
  BY <1>3, WindowsAssumption
<1> HIDE DEF v, w
<1>6. OnScreen(v) = Plus(at[w], at[v])
  BY <1>1, <1>2, <1>3, <1>4 DEF OnScreen, Plus, Point
<1>7. Minus(Minus(mouse, at[Root]), at[w]) = Minus(mouse, at[w])
  BY <1>4, MinusOrigin
<1>8. /\ OnScreen(v).x = at[w].x + at[v].x /\ OnScreen(v).y = at[w].y + at[v].y
      /\ Minus(mouse, at[w]).x = mouse.x - at[w].x
      /\ Minus(mouse, at[w]).y = mouse.y - at[w].y
  BY <1>6 DEF Plus, Minus
<1>9. v \in Covering(mouse) <=> Contains(v, Minus(mouse, at[w]))
  <2>1. /\ at[v].x \in Int /\ at[v].y \in Int /\ at[w].x \in Int /\ at[w].y \in Int
        /\ mouse.x \in Int /\ mouse.y \in Int
    BY <1>4 DEF Point
  <2>2. v \in Covering(mouse)
          <=> /\ OnScreen(v).x <= mouse.x /\ mouse.x < OnScreen(v).x + Place[v].w
              /\ OnScreen(v).y <= mouse.y /\ mouse.y < OnScreen(v).y + Place[v].h
    BY <1>3 DEF Covering
  <2>3. Contains(v, Minus(mouse, at[w]))
          <=> /\ at[v].x <= mouse.x - at[w].x /\ mouse.x - at[w].x < at[v].x + Place[v].w
              /\ at[v].y <= mouse.y - at[w].y /\ mouse.y - at[w].y < at[v].y + Place[v].h
    BY <1>8 DEF Contains
  <2>4. /\ OnScreen(v).x <= mouse.x <=> at[v].x <= mouse.x - at[w].x
        /\ OnScreen(v).y <= mouse.y <=> at[v].y <= mouse.y - at[w].y
    BY <1>8, <2>1
  <2>5. \A a, b, c, d \in Int : a < (b + c) + d <=> a - b < c + d
    OBVIOUS
  <2>6. mouse.x < OnScreen(v).x + Place[v].w <=> mouse.x - at[w].x < at[v].x + Place[v].w
    BY <1>5, <1>8, <2>1, <2>5
  <2>7. mouse.y < OnScreen(v).y + Place[v].h <=> mouse.y - at[w].y < at[v].y + Place[v].h
    BY <1>5, <1>8, <2>1, <2>5
  <2> QED
    BY <2>2, <2>3, <2>4, <2>6, <2>7
<1>10. v \in Covering(mouse) <=> Contains(v, Minus(Minus(mouse, at[Root]), at[w]))
  BY <1>7, <1>9
<1> QED
  BY <1>10 DEF v, w

\* If at most one child contains the point, the hit test finds it, or nothing.
LEMMA UnderOnly ==
  ASSUME TypeOK, ChildrenInv, NEW c \in Composites, NEW p,
         NEW i \in 1 .. Len(children[c]), Contains(children[c][i], Minus(p, at[c])),
         \A j \in 1 .. Len(children[c]) :
           Contains(children[c][j], Minus(p, at[c])) => j = i
  PROVE  Under(c, p) = children[c][i]
<1>1. children[c] \in Seq(Windows \union Plain)
  BY DEF TypeOK
<1>2. ASSUME NEW j \in 1 .. i - 1, Contains(children[c][j], Minus(p, at[c])) PROVE FALSE
  <2>1. Len(children[c]) \in Nat
    BY <1>1
  <2>2. j \in 1 .. Len(children[c]) /\ j # i
    BY <2>1
  <2> QED
    BY <1>2, <2>2
<1>3. \A j \in 1 .. i - 1 : ~Contains(children[c][j], Minus(p, at[c]))
  BY <1>2
<1> QED
  BY <1>1, <1>3, UnderIsFirst

\* What is drawn last at a point is what is seen there.
LEMMA ShownIsLast ==
  ASSUME NEW p, NEW w \in Covering(p),
         \A v \in Covering(p) : Later(DrawTime(w), DrawTime(v)),
         \A v \in Covering(p) \ {w} : ~Later(DrawTime(v), DrawTime(w))
  PROVE  Shown(p) = w
<1> DEFINE Last(v) == \A u \in Covering(p) : Later(DrawTime(v), DrawTime(u))
<1>1. Last(w)
  OBVIOUS
<1>2. ASSUME NEW v \in Covering(p), Last(v) PROVE v = w
  BY <1>2
<1>3. Shown(p) = CHOOSE v \in Covering(p) : Last(v)
  BY DEF Shown
<1> HIDE DEF Last
<1> QED
  BY <1>1, <1>2, <1>3

\* A widget's place in the list of its parent.
LEMMA IndexIs ==
  ASSUME DistinctInv, NEW c \in Composites, NEW i \in 1 .. Len(children[c]),
         Parent[children[c][i]] = c
  PROVE  Index(children[c][i]) = i
<1>1. Index(children[c][i]) = CHOOSE j \in 1 .. Len(children[c]) : children[c][j] = children[c][i]
  BY DEF Index
<1> QED
  BY <1>1 DEF DistinctInv

\* A press goes to the widget seen under the pointer (composite_widget_on_mouse_down
\* against composite_widget_draw), unless widgets overlap there or a widget
\* sticks out of its window.
THEOREM ClicksLand == Spec => []ClickGoesToShown
<1>1. IInv /\ DistinctInv => ClickGoesToShown
  <2> DEFINE C == Covering(mouse)
  <2> SUFFICES ASSUME IInv, DistinctInv,
                      \A v \in C \ {Root} :
                        /\ Parent[v] \in C
                        /\ \A w \in C \ {Root, v} : Parent[w] # Parent[v]
               PROVE  Reached(mouse) = Shown(mouse)
    BY DEF ClickGoesToShown
  <2> DEFINE m == Minus(mouse, at[Root])
             list == children[Root]
  <2>1. TypeOK /\ ChildrenInv
    BY DEF IInv
  <2>2. /\ Root \in C /\ Root \in Composites /\ Root \notin Windows \union Plain
        /\ None \notin Windows \union Plain
    BY RootCovers, WindowsAssumption DEF Composites, Widgets
  <2>3. DrawTime(Root) = <<0, 0>>
    BY DEF DrawTime
  <2>4. ASSUME NEW v \in C, v # Root
        PROVE  /\ v \in Windows \union Plain
               /\ \E i \in 1 .. Len(children[Parent[v]]) : children[Parent[v]][i] = v
               /\ Parent[v] # Root => Parent[v] \in Windows /\ Parent[v] \in C
    BY <2>4, WindowsAssumption DEF Covering, Attached, Widgets, Composites
  <2>5. ASSUME NEW c \in Composites, NEW i \in 1 .. Len(children[c]),
               NEW j \in 1 .. Len(children[c]),
               children[c][i] \in C, children[c][j] \in C
        PROVE  i = j
    <3>1. /\ children[c][i] \in Windows \union Plain /\ Parent[children[c][i]] = c
          /\ children[c][j] \in Windows \union Plain /\ Parent[children[c][j]] = c
      BY <2>1, ChildTyped
    <3>2. children[c][i] = children[c][j]
      BY <2>2, <2>5, <3>1
    <3> QED
      BY <3>2 DEF DistinctInv
  <2>6. CASE \A i \in 1 .. Len(list) : list[i] \notin C
    <3>1. C = {Root}
      <4>1. ASSUME NEW v \in C, v # Root PROVE FALSE
        <5>1. Parent[v] = Root
          BY <2>4, <2>6, <4>1, WindowsAssumption
        <5> QED
          BY <2>4, <2>6, <4>1, <5>1
      <4> QED
        BY <2>2, <4>1
    <3>2. Under(Root, mouse) = None
      BY <2>6, UnderIsChild, CoveringChild
    <3>3. Reached(mouse) = Root
      BY <2>2, <3>2 DEF Reached, Pressed
    <3>4. Shown(mouse) = Root
      <4>1. Later(<<0, 0>>, <<0, 0>>)
        BY DEF Later
      <4> QED
        BY <2>2, <2>3, <3>1, <4>1, ShownIsLast
    <3> QED
      BY <3>3, <3>4
  <2>7. ASSUME NEW i \in 1 .. Len(list), list[i] \in C
        PROVE  Reached(mouse) = Shown(mouse)
    <3> DEFINE w == list[i]
    <3>1. w \in Windows \union Plain /\ Parent[w] = Root /\ w # Root
      BY <2>1, <2>2, ChildTyped
    <3>2. ASSUME NEW v \in C, v # Root, Parent[v] = Root PROVE v = w
      BY <2>4, <2>5, <2>2, <2>7, <3>2
    <3>3. Under(Root, mouse) = w
      <4>1. Contains(list[i], m)
        BY <2>7, CoveringChild
      <4>2. \A j \in 1 .. Len(list) : Contains(list[j], m) => j = i
        BY <2>2, <2>5, <2>7, CoveringChild
      <4> QED
        BY <2>1, <2>2, <4>1, <4>2, UnderOnly
    <3>4. DrawTime(w) = <<i, 0>>
      <4>1. Index(w) = i
        BY <2>2, <3>1, IndexIs
      <4> QED
        BY <3>1, <4>1 DEF DrawTime
    <3>5. i \in Nat /\ i > 0
      OBVIOUS
    <3>6. ASSUME w \notin Windows \/ \A k \in 1 .. Len(children[w]) : children[w][k] \notin C
          PROVE  C = {Root, w} /\ Shown(mouse) = w
      <4>1. ASSUME NEW v \in C, v # Root PROVE v = w
        <5>1. CASE Parent[v] = Root
          BY <3>2, <4>1, <5>1
        <5>2. CASE Parent[v] # Root
          <6>1. Parent[v] = w /\ w \in Windows
            BY <2>2, <2>4, <3>2, <4>1, <5>2, WindowsAssumption
          <6> QED
            BY <2>4, <3>6, <4>1, <6>1
        <5> QED
          BY <5>1, <5>2
      <4>2. C = {Root, w}
        BY <2>2, <2>7, <4>1
      <4>3. Later(<<i, 0>>, <<0, 0>>) /\ Later(<<i, 0>>, <<i, 0>>) /\ ~Later(<<0, 0>>, <<i, 0>>)
        BY <3>5 DEF Later
      <4>4. Shown(mouse) = w
        BY <2>3, <2>7, <3>4, <4>2, <4>3, ShownIsLast
      <4> QED
        BY <4>2, <4>4
    <3>7. CASE w \notin Windows
      <4>1. Reached(mouse) = w
        BY <2>2, <3>1, <3>3, <3>7 DEF Reached, Pressed
      <4> QED
        BY <3>6, <3>7, <4>1
    <3>8. CASE w \in Windows /\ \A k \in 1 .. Len(children[w]) : children[w][k] \notin C
      <4>1. Under(w, m) = None
        BY <3>8, UnderIsChild, CoveringInner
      <4>2. Reached(mouse) = w
        BY <2>2, <3>1, <3>3, <3>8, <4>1 DEF Reached, Pressed
      <4> QED
        BY <3>6, <3>8, <4>2
    <3>9. ASSUME w \in Windows, NEW k \in 1 .. Len(children[w]), children[w][k] \in C
          PROVE  Reached(mouse) = Shown(mouse)
      <4> DEFINE x == children[w][k]
      <4>1. w \in Composites /\ w # Root
        BY <3>1, <3>9 DEF Composites
      <4>2. x \in Plain /\ Parent[x] = w
        BY <2>1, <4>1, ChildTyped
      <4>3. x # Root /\ x # None /\ x # w /\ x \notin Windows
        BY <2>2, <3>9, <4>2, WindowsAssumption
      <4>4. C = {Root, w, x}
        <5>1. ASSUME NEW v \in C, v # Root, Parent[v] # Root PROVE v = x
          <6>1. Parent[v] = w
            BY <2>2, <2>4, <3>2, <5>1, WindowsAssumption
          <6>2. PICK j \in 1 .. Len(children[w]) : children[w][j] = v
            BY <2>4, <5>1, <6>1
          <6> QED
            BY <2>5, <3>9, <4>1, <6>2
        <5> QED
          BY <2>2, <2>7, <3>2, <3>9, <5>1
      <4>5. Under(w, m) = x
        <5>1. Contains(x, Minus(m, at[w]))
          BY <3>9, CoveringInner
        <5>2. \A j \in 1 .. Len(children[w]) : Contains(children[w][j], Minus(m, at[w])) => j = k
          BY <2>5, <3>9, <4>1, CoveringInner
        <5> QED
          BY <2>1, <4>1, <5>1, <5>2, UnderOnly
      <4>6. Reached(mouse) = x
        BY <3>3, <3>9, <4>3, <4>5 DEF Reached, Pressed
      <4>7. DrawTime(x) = <<i, k>>
        <5>1. Index(x) = k /\ Index(w) = i
          BY <2>2, <3>1, <4>1, <4>2, IndexIs
        <5> QED
          BY <4>1, <4>2, <4>3, <5>1 DEF DrawTime
      <4>8. k \in Nat /\ k > 0
        OBVIOUS
      <4>9. /\ Later(<<i, k>>, <<0, 0>>) /\ Later(<<i, k>>, <<i, 0>>)
            /\ Later(<<i, k>>, <<i, k>>)
            /\ ~Later(<<0, 0>>, <<i, k>>) /\ ~Later(<<i, 0>>, <<i, k>>)
        BY <3>5, <4>8 DEF Later
      <4>10. \A v \in C : Later(DrawTime(x), DrawTime(v))
        BY <2>3, <3>4, <4>4, <4>7, <4>9
      <4>11. \A v \in C \ {x} : ~Later(DrawTime(v), DrawTime(x))
        BY <2>3, <3>4, <4>4, <4>7, <4>9
      <4>12. Shown(mouse) = x
        BY <3>9, <4>10, <4>11, ShownIsLast
      <4> QED
        BY <4>6, <4>12
    <3> QED
      BY <3>7, <3>8, <3>9
  <2> QED
    BY <2>6, <2>7
<1> QED
  BY <1>1, Invariance, DistinctKept, PTL
=============================================================================
