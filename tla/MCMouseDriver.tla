---------------------------- MODULE MCMouseDriver ----------------------------
(***************************************************************************)
(* MouseDriver on small sets of movements and buttons, the boundaries of   *)
(* int8_t among them.                                                      *)
(***************************************************************************)
EXTENDS MouseDriver

\* kernelMain's text-mode handler, a handler with every function, and none.
MCHandlers == {{"OnMouseMove"}, Slots, NoHandler}

MCComplete == {Slots}

MCDeltas == {-127, 0}

MCExact == {-127, 0, 127}

MCFar == {-200, 1, 200}

MCButtons == {{}, {1}, {2, 3}}

MCAcks == {0, 1, 6}

MCWholeAcks == {0, 3, 6}
=============================================================================
