---------------------------- MODULE MouseReports ----------------------------
(***************************************************************************)
(* What a mouse driver promises to the event handler it was given, with no *)
(* bytes, packets in assembly or masks in sight.  While the stream of      *)
(* reports is in step, every report reaches the handler, in order and      *)
(* once, as at most one movement and the presses and releases that lead    *)
(* from the buttons reported before to the ones reported now.  A lost byte *)
(* may put the stream out of step; until it is in step again the handler   *)
(* may be told of reports nobody made, or of none, but presses and         *)
(* releases stay changes of one and the same state of the buttons.  Screen *)
(* coordinates grow downwards, the mouse's y upwards.                      *)
(***************************************************************************)
EXTENDS Integers, SequencesExt

VARIABLES
  inFlight,        \* reports made and not yet delivered, when in step
  inStep,          \* the stream can be told apart into reports
  slots,           \* the functions the handler offers
  held,            \* the buttons of the last report that reached the handler
  event,           \* the last event: a movement, buttons pressed and released
  lost             \* how often bytes were lost

rvars == <<inFlight, inStep, slots, held, event, lost>>

NoMove == <<>>

NoEvent == [move |-> NoMove, down |-> {}, up |-> {}]

Init ==
  /\ held = {}
  /\ event = NoEvent
  /\ lost = 0

\* The handler is told of a report with this movement and these buttons.
Tell(move, buttons) ==
  /\ event' = [move |-> IF "OnMouseMove" \in slots THEN move ELSE NoMove,
               down |-> IF "OnMouseDown" \in slots THEN buttons \ held ELSE {},
               up   |-> IF "OnMouseUp" \in slots THEN held \ buttons ELSE {}]
  /\ held' = buttons
  /\ UNCHANGED <<slots, lost>>

\* The mouse makes one report or more.
Report ==
  /\ inStep /\ inStep' = TRUE
  /\ inFlight' # inFlight
  /\ IsPrefix(inFlight, inFlight')
  /\ UNCHANGED <<slots, held, event, lost>>

\* The oldest report reaches the handler.
Deliver ==
  /\ inStep /\ inFlight # <<>>
  /\ LET r == Head(inFlight)
     IN Tell(IF r.dx = 0 /\ r.dy = 0 THEN NoMove ELSE <<r.dx, -r.dy>>, r.buttons)
  /\ inStep' = TRUE
  /\ inFlight' = Tail(inFlight)

\* A byte is lost; the handler is not told.
Lose ==
  /\ lost' = lost + 1
  /\ UNCHANGED <<slots, held, event>>

\* Out of step, the bytes may be taken for any report, and fall into step again.
Drift ==
  /\ ~inStep
  /\ \/ \E move \in {NoMove, event'.move}, buttons \in SUBSET {1, 2, 3} : Tell(move, buttons)
     \/ UNCHANGED <<slots, held, event, lost>>

\* The driver is given a handler anew: no button counts as down from then on, and
\* none that did is released.  The bytes on their way may be cut anywhere.
Restart ==
  /\ held' = {}
  /\ event' = NoEvent
  /\ lost' \in {lost, lost + 1}

Next == Report \/ Deliver \/ Lose \/ Drift \/ Restart

SafeSpec == Init /\ [][Next]_rvars

Spec == SafeSpec /\ WF_rvars(Deliver)
=============================================================================
