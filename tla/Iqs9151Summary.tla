---------------------------- MODULE Iqs9151Summary ----------------------------
(***************************************************************************)
(* The attempt summary of drivers/input/iqs9151.c, composed with the       *)
(* gestures: from the first touch until the trackpad has not been touched  *)
(* for a while is one attempt, which is summed up and emitted from         *)
(* data->summary_work, on the same queue as the frames and the works of    *)
(* the gestures.                                                           *)
(*                                                                         *)
(* What is summed up is abstracted to the number of contacts, and to the   *)
(* buttons the host sees pressed (down): the summary notes the presses and *)
(* the releases while an attempt is active.                                *)
(***************************************************************************)
EXTENDS Iqs9151GestureContact

CONSTANTS
  IdleMin, IdleMargin, IdleMax,  \* IQS9151_SUMMARY_IDLE_{MIN,MARGIN,MAX}_MS
  ContactCap                     \* contacts are not counted beyond (UINT8_MAX)

ASSUME SummaryAssumption ==
  /\ IdleMin \in Nat /\ IdleMargin \in Nat /\ IdleMax \in Nat /\ IdleMin <= IdleMax
  /\ ContactCap \in Nat \ {0}

VARIABLE attempt   \* data->attempt and data->summary_work

summaryVars == <<contactVars, attempt>>

Attempt == [active : BOOLEAN, first : BOOLEAN, contacts : 0..ContactCap,
            idle : Off..IdleMax]

NoAttempt == [active |-> FALSE, first |-> FALSE, contacts |-> 0, idle |-> Off]

Smaller(a, b) == IF a < b THEN a ELSE b
Greater(a, b) == IF a > b THEN a ELSE b

\* Mutant: the wait is that of the one-finger tap.
IdleOfOne == Smaller(IdleMax, Greater(IdleMin, Gap[1]))

\* iqs9151_summary_idle_ms
IdleTime ==
  Smaller(IdleMax,
          Greater(IdleMin, Greater(Gap[1], Greater(Gap[2], Gap[3])) + IdleMargin))

-----------------------------------------------------------------------------
\* Mutant: a new contact leaves the summary scheduled.
BeginAttemptUncancelled(n) ==
  attempt' = IF prev # 0 \/ n = 0 THEN attempt
             ELSE IF ~attempt.active
             THEN [active |-> TRUE, first |-> TRUE, contacts |-> 1, idle |-> Off]
             ELSE [attempt EXCEPT !.contacts = Smaller(@ + 1, ContactCap)]

\* iqs9151_summary_begin_frame
BeginAttempt(n) ==
  attempt' = IF prev # 0 \/ n = 0 THEN attempt
             ELSE IF ~attempt.active
             THEN [active |-> TRUE, first |-> TRUE, contacts |-> 1, idle |-> Off]
             ELSE [attempt EXCEPT !.contacts = Smaller(@ + 1, ContactCap), !.idle = Off]

\* Mutant: only the lift of the first contact schedules the summary.
EndFrameFirst ==
  attempt' = IF attempt.active /\ fr.n = 0 /\ prev # 0
             THEN [attempt EXCEPT !.first = FALSE,
                                  !.idle = IF attempt.first THEN IdleTime ELSE @]
             ELSE attempt

\* iqs9151_summary_end_frame
EndFrame ==
  attempt' = IF attempt.active /\ fr.n = 0 /\ prev # 0
             THEN [attempt EXCEPT !.first = FALSE, !.idle = IdleTime]
             ELSE attempt

\* The queue runs works in the order they fall due.
NothingDueBefore(t) ==
  /\ \A k \in Fingers : Armed(click[k]) => click[k] > t
  /\ Armed(grace) => grace > t

\* iqs9151_summary_work_cb, iqs9151_summary_emit
EmitSummary ==
  /\ pc = "idle"
  /\ Due(attempt.idle) /\ NothingDueBefore(attempt.idle)
  /\ attempt' = NoAttempt
  /\ UNCHANGED contactVars

\* The steps of a frame before the last one do not look at the attempt.
HandleInside ==
  \/ ResolvePending \/ HandOver
  \/ \E k \in Fingers : Close(k)
  \/ ArmClick \/ NoSessionToUpdate \/ OpenSession \/ ContinueSession

-----------------------------------------------------------------------------
SummaryInit == ContactInit /\ attempt = NoAttempt

FrameBegins == \E f \in Frames : BeginFrame(f) /\ BeginAttempt(f.n) /\ Touching

FrameStep == \/ HandleInside /\ Touching /\ UNCHANGED attempt
             \/ ReportFrame /\ Touching /\ EndFrame

GestureTimeout == Timeout /\ Touching /\ UNCHANGED attempt

\* iqs9151_summary_reset is the last the summary hears of the device's reset.
DeviceReset == ShowReset /\ Touching /\ attempt' = NoAttempt

Tune == \E q \in ParamSets : SetParams(q) /\ Touching /\ UNCHANGED attempt

SummaryTick ==
  /\ ContactTick
  /\ ~Overdue(attempt.idle)
  /\ attempt' = [attempt EXCEPT !.idle = Later(@)]

SummaryNext ==
  \/ FrameBegins \/ FrameStep \/ GestureTimeout \/ DeviceReset \/ Tune
  \/ EmitSummary \/ SummaryTick

\* As in Iqs9151Gesture, with one more work in the queue.
SummaryFairness ==
  /\ WF_summaryVars(FrameStep)
  /\ SF_summaryVars(GestureTimeout) /\ SF_summaryVars(EmitSummary)
  /\ SF_summaryVars(SummaryTick)

SummarySpec == SummaryInit /\ [][SummaryNext]_summaryVars /\ SummaryFairness

-----------------------------------------------------------------------------
\* Between frames there is an attempt exactly while the trackpad is touched or
\* the summary is on its way, and it is not on its way under the fingers: every
\* touch belongs to one attempt, and none is summed up before its lift.
AttemptCovers ==
  /\ attempt \in Attempt
  /\ pc = "idle" =>
       /\ attempt.active <=> prev # 0 \/ Armed(attempt.idle)
       /\ prev # 0 => ~Armed(attempt.idle)

\* A summary that tells of a press tells of its release: whatever button a tap
\* or a drag left down, its work has released it by the time of the summary.
SummaryIsComplete ==
  [][attempt.active /\ ~attempt'.active /\ Due(attempt.idle) /\ UNCHANGED contactVars
       => down = {}]_summaryVars

\* An attempt does not stay open: the trackpad is touched again or the summary
\* is emitted, though no further frame may come.
AttemptEnds == attempt.active /\ prev = 0 ~> ~attempt.active \/ prev # 0
=============================================================================
