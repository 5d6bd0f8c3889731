-------------------------- MODULE MCIqs9151Motion --------------------------
(***************************************************************************)
(* Instance of Iqs9151Motion, with the arithmetic behind it.  A tick is    *)
(* one inertia interval (10 ms); the fixed point has 3 bits.  What is said *)
(* of the arithmetic is computed once, in the first state of the run.      *)
(***************************************************************************)
EXTENDS Iqs9151Motion, Iqs9151Algorithms

AtStart == Init /\ interval = [c \in Channels |-> 0]

\* The gain of any speed lies between the two configured ones, rounding neither
\* loses nor invents movement, and two fingers that move far enough scroll or
\* pinch.
MovementIsGeared == AtStart => GainBetween /\ GainConserves /\ NoDeadZone

\* The ring holds the newest movement, inertia takes the direction of the flick
\* it finds there, its fixed point loses no distance, and a late work makes up
\* for what it missed.
FlickIsFollowed ==
  AtStart => /\ RingKeepsNewest /\ SeedFollowsFlick
             /\ GlideConserves /\ LateStepCatchesUp
=============================================================================
