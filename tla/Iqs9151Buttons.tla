--------------------------- MODULE Iqs9151Buttons ---------------------------
(***************************************************************************)
(* What the touchpad promises the host about its buttons, with no word of  *)
(* fingers, timers or sessions: the three click buttons share one latch,   *)
(* so at most one of them is ever down; a press reports a button that is   *)
(* up and a release one that is down; the pinch button is independent.     *)
(* A click (press and release back to back) leaves the buttons as they     *)
(* were and is a stuttering step, allowed whenever no click button is      *)
(* down.                                                                   *)
(***************************************************************************)
CONSTANTS ClickButtons, PinchButton

VARIABLE down   \* the buttons the host believes to be down

Init == down = {}

Press(b)   == /\ down \cap ClickButtons = {}
              /\ down' = down \cup {b}

Release(b) == /\ b \in down
              /\ down' = down \ {b}

PressPinch == /\ PinchButton \notin down
              /\ down' = down \cup {PinchButton}

\* The device was reset: whatever is down is released.
ReleaseAll == /\ down # {}
              /\ down' = {}

Next == \/ \E b \in ClickButtons : Press(b)
        \/ \E b \in ClickButtons \cup {PinchButton} : Release(b)
        \/ PressPinch
        \/ ReleaseAll

Spec == Init /\ [][Next]_down

=============================================================================
