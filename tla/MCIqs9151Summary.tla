----------------------- MODULE MCIqs9151Summary ------------------------------
(* Instance of Iqs9151Summary, in ticks of 120 ms. *)
EXTENDS Iqs9151Summary

\* One- and three-finger taps press and hold, two-finger ones click; another
\* thread turns the taps of two and three fingers off and on.
TapTuning == [press : {{1, 3}}, tap : {{1}, Fingers}]

\* 250, 250 and 200 ms; 160, 200 and 200 ms.
TapMax120 == <<2, 2, 2>>
Gap120    == <<1, 2, 2>>
=============================================================================
