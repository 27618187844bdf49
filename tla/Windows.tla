------------------------------- MODULE Windows -------------------------------
(***************************************************************************)
(* The desktop with its windows and their widgets (src/src/gui): hit       *)
(* tests and dispatch of mouse events, focus, dragging, and the order of   *)
(* drawing.                                                                *)
(*                                                                         *)
(* The tree has the three levels the kernel's types are made for: the      *)
(* desktop, windows and plain widgets on it, plain widgets in a window.    *)
(* Each widget has a table of function pointers.  window_init leaves those *)
(* of a composite in it; a window whose owner then installs                *)
(* window_on_mouse_down, _up and _move is in Draggable.  kernelMain        *)
(* installs them in neither of its windows.                                *)
(***************************************************************************)
EXTENDS Integers, Sequences

CONSTANTS
  Root,            \* the desktop
  Windows, Plain,  \* objects of window_init, and of widget_init
  Parent,          \* the parent each is initialised with
  Place,           \* the x, y, w, h each is initialised with
  Draggable,       \* windows with the handlers of window.c
  Capacity,        \* entries of children, 100 in the code
  Moves            \* offsets desktop_on_mouse_move is called with, per axis

Composites == {Root} \union Windows

Widgets == Composites \union Plain

None == "none"     \* a null widget pointer

ASSUME WindowsAssumption ==
  /\ Root \notin Windows \union Plain
  /\ Windows \intersect Plain = {}
  /\ None \notin Widgets
  /\ Parent \in [Windows \union Plain -> Composites]
  /\ \A w \in Windows : Parent[w] = Root
  /\ Place \in [Widgets -> [x : Int, y : Int, w : Int, h : Int]]
  /\ Place[Root].x = 0 /\ Place[Root].y = 0
  /\ Place[Root].w > 0 /\ Place[Root].h > 0
  /\ Draggable \subseteq Windows
  /\ Capacity \in Nat
  /\ Moves \subseteq Int

VARIABLES
  at,              \* x and y of each widget, relative to its parent
  children,        \* composite -> sequence of its children
  focussed,        \* composite -> focussed_child
  dragging,        \* window -> is_dragging
  mouse,           \* mouse_x, mouse_y of the desktop
  clicked          \* the last plain widget whose on_mouse_down ran

vars == <<at, children, focussed, dragging, mouse, clicked>>

-----------------------------------------------------------------------------
(* Coordinates                                                             *)

Point == [x : Int, y : Int]

Plus(p, q) == [x |-> p.x + q.x, y |-> p.y + q.y]

Minus(p, q) == [x |-> p.x - q.x, y |-> p.y - q.y]

\* widget_contains_coordinates, p in the frame of w's parent.
Contains(w, p) ==
  /\ at[w].x <= p.x /\ p.x < at[w].x + Place[w].w
  /\ at[w].y <= p.y /\ p.y < at[w].y + Place[w].h

\* Where widget_model_to_screen puts w's upper left corner.
OnScreen(w) ==
  IF w = Root THEN at[Root]
  ELSE IF Parent[w] = Root THEN Plus(at[Root], at[w])
       ELSE Plus(Plus(at[Root], at[Parent[w]]), at[w])

\* Division by 4, towards zero.
Quarter(d) == IF d >= 0 THEN d \div 4 ELSE -((-d) \div 4)

\* Mutant: the last column and row are off the screen.
ClampOneOver(v, size) == IF v < 0 THEN 0 ELSE IF v > size THEN size ELSE v

Clamp(v, size) == IF v < 0 THEN 0 ELSE IF v >= size THEN size - 1 ELSE v

-----------------------------------------------------------------------------
(* Dispatch: the first child that contains the point.                      *)

\* Mutant: a composite tests its children with the coordinates it was given.
UnderNotRelative(c, p) ==
  LET first == {i \in 1 .. Len(children[c]) :
                  /\ Contains(children[c][i], p)
                  /\ \A j \in 1 .. i - 1 : ~Contains(children[c][j], p)}
  IN IF first = {} THEN None ELSE children[c][CHOOSE i \in first : TRUE]

\* The child of c that gets an event at p, in the frame of c's parent.
Under(c, p) ==
  LET q     == Minus(p, at[c])
      first == {i \in 1 .. Len(children[c]) :
                  /\ Contains(children[c][i], q)
                  /\ \A j \in 1 .. i - 1 : ~Contains(children[c][j], q)}
  IN IF first = {} THEN None ELSE children[c][CHOOSE i \in first : TRUE]

\* The plain widget whose on_mouse_down a press at p reaches.
Pressed(p) ==
  LET w == Under(Root, p) IN
  IF w \in Windows THEN Under(w, Minus(p, at[Root])) ELSE w

-----------------------------------------------------------------------------
(* desktop_init, composite_widget_init, window_init and widget_init        *)

Init ==
  /\ at = [w \in Widgets |-> [x |-> Place[w].x, y |-> Place[w].y]]
  /\ children = [c \in Composites |-> <<>>]
  /\ focussed = [c \in Composites |-> None]
  /\ dragging = [w \in Windows |-> FALSE]
  /\ mouse = [x |-> Place[Root].w \div 2, y |-> Place[Root].h \div 2]
  /\ clicked = None

\* composite_widget_add_child, once for each widget; a full composite refuses.
AddChild(w) ==
  LET c == Parent[w] IN
  /\ \A i \in 1 .. Len(children[c]) : children[c][i] # w
  /\ Len(children[c]) < Capacity
  /\ children' = [children EXCEPT ![c] = Append(@, w)]
  /\ UNCHANGED <<at, focussed, dragging, mouse, clicked>>

\* Mutant: get_focus stops at the widget's own parent.
FocusAtParentOnly(v) ==
  focussed' = IF v = None THEN focussed ELSE [focussed EXCEPT ![Parent[v]] = v]

\* widget_default_on_mouse_down of v: get_focus, through all its ancestors.
Focus(v) ==
  focussed' = [c \in Composites |->
    CASE v # None /\ c = Parent[v] -> v
      [] v # None /\ c # Parent[v] /\ c = Root -> Parent[v]
      [] OTHER -> focussed[c]]

\* desktop_on_mouse_down(button).
MouseDown(button) ==
  LET w == Under(Root, mouse)
      v == Pressed(mouse)
  IN /\ dragging' = IF w \in Draggable THEN [dragging EXCEPT ![w] = (button = 1)]
                    ELSE dragging
     /\ Focus(v)
     /\ clicked' = IF v = None THEN clicked ELSE v
     /\ UNCHANGED <<at, children, mouse>>

\* desktop_on_mouse_up: only the first child under the pointer hears of it.
MouseUp ==
  LET w == Under(Root, mouse) IN
  /\ dragging' = IF w \in Draggable THEN [dragging EXCEPT ![w] = FALSE] ELSE dragging
  /\ UNCHANGED <<at, children, focussed, mouse, clicked>>

\* Mutant: windows are moved by the offset, not by the pointer's movement.
MouseMoveByOffset(d) ==
  LET q   == [x |-> Quarter(d.x), y |-> Quarter(d.y)]
      new == [x |-> Clamp(mouse.x + q.x, Place[Root].w),
              y |-> Clamp(mouse.y + q.y, Place[Root].h)]
      Told(w) == /\ \E i \in 1 .. Len(children[Root]) : children[Root][i] = w
                 /\ Contains(w, Minus(mouse, at[Root])) \/ Contains(w, Minus(new, at[Root]))
  IN /\ at' = [w \in Widgets |->
                 IF w \in Draggable /\ dragging[w] /\ Told(w) THEN Plus(at[w], q)
                 ELSE at[w]]
     /\ mouse' = new
     /\ UNCHANGED <<children, focussed, dragging, clicked>>

\* desktop_on_mouse_move(d.x, d.y): a quarter of the offset, kept on the screen;
\* the children at the old or the new position are told, and of those the
\* windows being dragged move along.
MouseMove(d) ==
  LET new == [x |-> Clamp(mouse.x + Quarter(d.x), Place[Root].w),
              y |-> Clamp(mouse.y + Quarter(d.y), Place[Root].h)]
      Told(w) == /\ \E i \in 1 .. Len(children[Root]) : children[Root][i] = w
                 /\ Contains(w, Minus(mouse, at[Root])) \/ Contains(w, Minus(new, at[Root]))
  IN /\ at' = [w \in Widgets |->
                 IF w \in Draggable /\ dragging[w] /\ Told(w)
                 THEN Plus(at[w], Minus(new, mouse)) ELSE at[w]]
     /\ mouse' = new
     /\ UNCHANGED <<children, focussed, dragging, clicked>>

Next ==
  \/ \E w \in Windows \union Plain : AddChild(w)
  \/ \E b \in {1, 2, 3} : MouseDown(b)
  \/ MouseUp
  \/ \E dx, dy \in Moves : MouseMove([x |-> dx, y |-> dy])

Spec == Init /\ [][Next]_vars

-----------------------------------------------------------------------------
(* Drawing: composite_widget_draw fills its own rectangle, then draws its  *)
(* children first to last.  What is drawn later covers what was drawn      *)
(* before.                                                                 *)

Attached(w) ==
  \/ w = Root
  \/ /\ \E i \in 1 .. Len(children[Parent[w]]) : children[Parent[w]][i] = w
     /\ Parent[w] = Root \/ \E i \in 1 .. Len(children[Root]) : children[Root][i] = Parent[w]

Index(w) == CHOOSE i \in 1 .. Len(children[Parent[w]]) : children[Parent[w]][i] = w

\* When w's rectangle is filled: the position in the desktop's list, then in the
\* window's.
DrawTime(w) ==
  IF w = Root THEN <<0, 0>>
  ELSE IF Parent[w] = Root THEN <<Index(w), 0>>
       ELSE <<Index(Parent[w]), Index(w)>>

Later(s, t) == s[1] > t[1] \/ (s[1] = t[1] /\ s[2] >= t[2])

\* The widgets whose rectangle covers a point of the screen.
Covering(p) ==
  {w \in Widgets :
     /\ Attached(w)
     /\ OnScreen(w).x <= p.x /\ p.x < OnScreen(w).x + Place[w].w
     /\ OnScreen(w).y <= p.y /\ p.y < OnScreen(w).y + Place[w].h}

Shown(p) ==
  CHOOSE w \in Covering(p) : \A v \in Covering(p) : Later(DrawTime(w), DrawTime(v))

-----------------------------------------------------------------------------
(* Properties                                                              *)

\* Every variable has its type; the pointer is on the screen, and no composite
\* has more children than its table holds.
TypeOK ==
  /\ at \in [Widgets -> Point]
  /\ children \in [Composites -> Seq(Windows \union Plain)]
  /\ \A c \in Composites : Len(children[c]) <= Capacity
  /\ focussed \in [Composites -> Windows \union Plain \union {None}]
  /\ dragging \in [Windows -> BOOLEAN]
  /\ mouse \in [x : 0 .. Place[Root].w - 1, y : 0 .. Place[Root].h - 1]
  /\ clicked \in Plain \union {None}

\* The last widget a press at p reaches, a composite included.
Reached(p) ==
  LET w == Under(Root, p)
      v == Pressed(p)
  IN IF v # None THEN v ELSE IF w # None THEN w ELSE Root

\* A press goes to the widget seen under the pointer, wherever windows were
\* dragged, unless widgets overlap there or a widget sticks out of its window:
\* the hit tests, with coordinates made relative step by step, agree with the
\* drawing, with coordinates added up.
ClickGoesToShown ==
  LET C == Covering(mouse) IN
  (\A v \in C \ {Root} : Parent[v] \in C /\ \A w \in C \ {Root, v} : Parent[w] # Parent[v])
    => Reached(mouse) = Shown(mouse)

\* A window moves only while it is dragged, and then exactly as the pointer does:
\* also at the edge of the screen, and however fast, it never loses its grip.
DraggedFollowsPointer ==
  [][\A w \in Windows :
       Minus(at'[w], at[w]) = IF dragging[w] THEN Minus(mouse', mouse)
                              ELSE [x |-> 0, y |-> 0]]_vars

\* A release ends every drag, except that of a window with an earlier child of
\* the desktop over the pointer, which takes the release instead.
ReleaseEndsDrag ==
  [][MouseUp => \A i \in 1 .. Len(children[Root]) :
       LET w == children[Root][i] IN
       w \in Windows /\ dragging'[w] =>
         \E j \in 1 .. i - 1 : Contains(children[Root][j], mouse)]_vars

\* The widget composite_widget_on_key_down hands a key down to.
KeyTarget ==
  LET v == focussed[Root] IN
  IF v \in Windows THEN focussed[v] ELSE v

\* Keys go to the widget clicked last, whatever was clicked or dragged before.
KeysFollowClicks == KeyTarget = clicked
=============================================================================
