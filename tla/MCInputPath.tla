----------------------------- MODULE MCInputPath -----------------------------
(***************************************************************************)
(* InputPath with one key, pressed or released, and packets that only      *)
(* press a button or also move.                                            *)
(***************************************************************************)
EXTENDS InputPath

\* Translation on; the mouse's port off or on, the keyboard's interrupt off or on.
MCFirmware == {64 + 32 + 1, 64 + 3, 64 + 16}

\* The A key, down and up.
MCScanCodes == {30, 158}

MCReports == {<<9, 0, 0>>, <<8, 5, 0>>}

MCOneScanCode == {30}

MCOneReport == {<<9, 5, 0>>}

\* Never reached by a quiet boot, as 100000 is not; reached at once by another.
MCDrainTimeout == [q \in BOOLEAN |-> IF q THEN 8 ELSE 1]

MCLongDrain == [q \in BOOLEAN |-> 8]

MCNoHurry == {}

\* The steps that no delay loop separates from the one before, and the
\* keyboard driver's read, which trusts its delay.
MCHurry == {"kb_drain", "kb_enable", "kb_read", "ms_drain", "ms_enable"}
=============================================================================
