-------------------------- MODULE InterruptDelivery --------------------------
(***************************************************************************)
(* What the interrupt system promises to the drivers and the devices,      *)
(* with no controller chip, descriptor table or end-of-interrupt command   *)
(* in sight: requests wait in a set, the most urgent one is served, one at *)
(* a time, and none disappears once the system is live unless its device   *)
(* withdraws it.  Module Interrupts implements this specification; module  *)
(* InputPath is built on it.                                               *)
(***************************************************************************)
EXTENDS Integers

CONSTANT Lines     \* the IRQ lines that have a device on them

VARIABLES
  live,            \* interrupts have been enabled
  pending,         \* lines with a request not yet served
  serving          \* the line being served, as a set of at most one

dvars == <<live, pending, serving>>

(***************************************************************************)
(* The order in which a cascaded pair of controllers serves lines: 0, 1,   *)
(* then the slave's 8 .. 15 (they arrive through line 2), then 3 .. 7.     *)
(***************************************************************************)
Rank(l) == IF l <= 2 THEN l ELSE IF l >= 8 THEN l - 5 ELSE l + 8

MostUrgent(l) == l \in pending /\ \A k \in pending : Rank(l) <= Rank(k)

Init ==
  /\ live = FALSE
  /\ pending = {}
  /\ serving = {}

Request(l) ==
  /\ pending' = pending \union {l}
  /\ UNCHANGED <<live, serving>>

\* Programming the controllers may forget requests, but only before Start.
Reset ==
  /\ ~live
  /\ pending' \in SUBSET pending
  /\ UNCHANGED <<live, serving>>

Start ==
  /\ live' = TRUE
  /\ UNCHANGED <<pending, serving>>

Begin(l) ==
  /\ live
  /\ serving = {}
  /\ MostUrgent(l)
  /\ serving' = {l}
  /\ pending' = pending \ {l}
  /\ UNCHANGED live

Withdraw(l) ==
  /\ live
  /\ serving = {}
  /\ l \in pending
  /\ pending' = pending \ {l}
  /\ UNCHANGED <<live, serving>>

Finish ==
  /\ serving # {}
  /\ serving' = {}
  /\ UNCHANGED <<live, pending>>

Serve == \E l \in Lines : Begin(l) \/ Withdraw(l)

Next ==
  \/ \E l \in Lines : Request(l)
  \/ Reset
  \/ Start
  \/ Serve
  \/ Finish

SafeSpec == Init /\ [][Next]_dvars

Spec == SafeSpec /\ WF_dvars(Serve) /\ WF_dvars(Finish)
=============================================================================
