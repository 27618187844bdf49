------------------------------ MODULE MCWindows ------------------------------
(***************************************************************************)
(* Windows on a small desktop: two windows that can be dragged, one over   *)
(* the other at first, with a widget in each, one of them sticking out of  *)
(* its window, and a widget on the desktop.                                *)
(***************************************************************************)
EXTENDS Windows

MCWindows == {"win1", "win2"}

MCPlain == {"button1", "button2", "icon"}

MCParent == [w \in MCWindows \union MCPlain |->
               CASE w = "button1" -> "win1" [] w = "button2" -> "win2" [] OTHER -> "desktop"]

MCPlace == [w \in {"desktop"} \union MCWindows \union MCPlain |->
  CASE w = "desktop" -> [x |-> 0, y |-> 0, w |-> 5, h |-> 3]
    [] w = "win1"    -> [x |-> 1, y |-> 0, w |-> 2, h |-> 2]
    [] w = "win2"    -> [x |-> 2, y |-> 1, w |-> 2, h |-> 2]
    [] w = "button1" -> [x |-> 1, y |-> 1, w |-> 1, h |-> 1]
    [] w = "button2" -> [x |-> 1, y |-> 0, w |-> 2, h |-> 1]
    [] w = "icon"    -> [x |-> 4, y |-> 2, w |-> 1, h |-> 1]]

MCDraggable == MCWindows

\* A step left or up, none, and a jump to the other edge.
MCMoves == {-5, 0, 12}
=============================================================================
