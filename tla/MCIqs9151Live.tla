---------------------------- MODULE MCIqs9151Live ----------------------------
(***************************************************************************)
(* Instance of Iqs9151Live, in ticks of 16 ms, with what the commands work *)
(* with.  What is said of the latter is computed once, in the first states *)
(* of the run.                                                             *)
(***************************************************************************)
EXTENDS Iqs9151Live, Iqs9151Console, TLC

\* 1000 / 30 and 1000 / 60 ms.
Periods == (30 :> 2) @@ (60 :> 1)

AtStart == Init /\ hz = 60

\* A line becomes its words, a refused command changes nothing, an accepted one
\* keeps every value in its range, and that range fits where it is used.
CommandsAreSound ==
  AtStart => /\ LineIsSplit /\ RefusedIsHarmless
             /\ RangesHold /\ TableFits

\* The statistics read at any moment agree with each other, and a packed summary
\* is unpacked unchanged.
ReportsAgree == AtStart => StatsAgree /\ SummaryTravels
=============================================================================
