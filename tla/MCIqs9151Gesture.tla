-------------------------- MODULE MCIqs9151Gesture --------------------------
(***************************************************************************)
(* Instances of Iqs9151Gesture.  A tick is 30 ms, the finest fixed window  *)
(* of the driver (IQS9151_TAP_REENTRY_WINDOW_MS), or 60 ms where a finding *)
(* is shown; the thresholds are the defaults of drivers/input/Kconfig in   *)
(* ticks.                                                                  *)
(***************************************************************************)
EXTENDS Iqs9151Gesture

\* Every tap presses and holds its button, as in the default build.
AllHold == {[press |-> Fingers, tap |-> Fingers]}

\* And another thread turns the two-finger tap off and on.
TapTuning == {[press |-> Fingers, tap |-> Fingers], [press |-> Fingers, tap |-> {1, 3}]}

\* Another thread turns the one-finger press-and-hold off and on.
Tuning == {[press |-> {1}, tap |-> {1}], [press |-> {}, tap |-> {1}]}

\* 250, 250 and 200 ms; 160, 200 and 200 ms.
TapMax30 == <<8, 8, 6>>
Gap30    == <<5, 6, 6>>
TapMax60 == <<4, 4, 3>>
Gap60    == <<2, 3, 3>>
=============================================================================
