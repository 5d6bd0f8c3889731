--------------------------- MODULE Iqs9151Gesture ---------------------------
(***************************************************************************)
(* The gesture state machine of drivers/input/iqs9151.c: the one-, two-    *)
(* and three-finger sessions, the deferred clicks that keep a button down  *)
(* after a tap, the release grace of a drag, and the hold_button latch.    *)
(*                                                                         *)
(* One thread runs all of it: the frame handler and the delayed works are  *)
(* items of the single queue iqs9151_work_q, so a timer handler runs only  *)
(* between frames (pc = "idle").  What does run at any moment is another   *)
(* thread's iqs9151_dev_param_set: a key report may block (K_FOREVER), and *)
(* the parameters read after it need not be those read before it.  The     *)
(* frame handler is therefore cut where it reads a parameter again.        *)
(*                                                                         *)
(* A finger session k and its button INPUT_BTN_(k-1) share the number k;   *)
(* 0 is "no button".  Times are whole ticks, saturating at AgeMax.         *)
(* Displacement is abstracted to what a frame's thresholds make of it.     *)
(* Cursor, scroll and inertia output is no part of this module: nothing    *)
(* here reads it.                                                          *)
(***************************************************************************)
EXTENDS Integers, FiniteSets

CONSTANTS
  Counts,     \* finger counts the trackpad reports (a 4-bit field)
  ParamSets,  \* values iqs9151_dev_param_set gives the tap parameters
  TapMax,     \* 1f/2f/3f_tap_max_ms, for each finger session
  DragHold,   \* iqs9151_one_finger_drag_hold_threshold_ms
  Gap,        \* 1f/2f/3f_tapdrag_gap_max_ms, for each finger session
  Grace,      \* 1f_release_grace_ms (0: no grace)
  RelMax,     \* TWO_/THREE_FINGER_RELEASE_PENDING_MAX_MS
  LeadMax,    \* TWO_FINGER_ONE_LEAD_MAX_MS and its three-finger kin
  Reentry,    \* IQS9151_TAP_REENTRY_WINDOW_MS
  HistSize,   \* IQS9151_FINGER_HISTORY_SIZE
  AgeMax,     \* ages are not told apart from here on
  Late        \* how many ticks a due work item may wait for the queue

Fingers == 1..3
Pinch   == 7                      \* INPUT_BTN_7

\* press: the fingers with *_presshold_enable, tap: those with *_tap_enable
Params == [press : SUBSET Fingers, tap : SUBSET Fingers]

ASSUME ConstantsAssumption ==
  /\ Counts \subseteq 0..15
  /\ ParamSets \subseteq Params /\ ParamSets # {}
  /\ TapMax \in [Fingers -> Nat] /\ Gap \in [Fingers -> Nat]
  /\ DragHold \in Nat /\ Grace \in Nat /\ RelMax \in Nat /\ LeadMax \in Nat
  /\ Reentry \in Nat /\ HistSize \in Nat \ {0} /\ Late \in Nat
  /\ AgeMax \in Nat
  /\ \A k \in Fingers : TapMax[k] < AgeMax /\ Gap[k] < AgeMax
  /\ DragHold < AgeMax /\ Grace < AgeMax /\ RelMax < AgeMax
  /\ LeadMax < AgeMax /\ Reentry < AgeMax

VARIABLES
  pc,       \* where the work-queue thread is
  fr,       \* the frame it is handling, and that handler's locals
  s,        \* the three sessions
  pend,     \* {one,two,three}_finger_click_pending
  pendAge,  \* time since *_click_pending_ms
  click,    \* time left on {one,two,three}_finger_click_work, Off if not armed
  grace,    \* time left on one_finger_release_grace_work, Off if not armed
  hold,     \* hold_button
  down,     \* buttons the host has seen pressed and not released
  prev,     \* prev_frame.finger_count
  zero,     \* finger_history: when 0 fingers was last pushed
  par       \* the tap parameters, shared with other threads

vars == <<pc, fr, s, pend, pendAge, click, grace, hold, down, prev, zero, par>>

-----------------------------------------------------------------------------
(* Time.  A timer counts down to 0 and may then wait Late ticks for the    *)
(* queue; Off lies below every value of an armed timer.                    *)

Off       == 0 - Late - 1
Armed(t)  == t # Off
Due(t)    == Armed(t) /\ t <= 0
Overdue(t) == t = 0 - Late
Older(a)  == IF a < AgeMax THEN a + 1 ELSE a
Later(t)  == IF Armed(t) THEN t - 1 ELSE t

-----------------------------------------------------------------------------
(* Sessions.  hold_sent and tapdrag_second_touch are always assigned the   *)
(* same value, so "drag" is both; tap_candidate is only read when drag is  *)
(* false and hold_candidate only when it is true, so "cand" is the one in  *)
(* force.  mode is two_finger.mode, or "swipe" for three_swipe_sent.       *)

Session ==
  [active : BOOLEAN, drag : BOOLEAN, cand : BOOLEAN, rel : BOOLEAN,
   mode : {"none", "scroll", "pinch", "swipe"},
   age : 0..AgeMax, relAge : 0..AgeMax]

NoSession ==
  [active |-> FALSE, drag |-> FALSE, cand |-> FALSE, rel |-> FALSE,
   mode |-> "none", age |-> 0, relAge |-> 0]

\* The longest contact that still counts as a tap (second tap, for a drag).
TapLimit(k, drag) == IF k = 1 /\ drag THEN DragHold ELSE TapMax[k]

-----------------------------------------------------------------------------
(* Frames.  "move" is the verdict on the displacement accumulated so far:  *)
(* within *_tap_move, beyond it, or a scroll, pinch or swipe decided now.  *)
(* xy tells whether the coordinates the session needs are available, from  *)
(* this frame or the previous one.                                         *)

Moves(n) == CASE n = 1 -> {"still", "moved"}
              [] n = 2 -> {"still", "moved", "scroll", "pinch"}
              [] n = 3 -> {"still", "moved", "swipe"}
              [] OTHER -> {"still"}

Frames == {f \in [n : Counts, xy : BOOLEAN,
                  move : {"still", "moved", "scroll", "pinch", "swipe"}] :
             /\ f.move \in Moves(f.n)
             /\ ~f.xy => f.n \in {1, 2} /\ f.move = "still"}

\* lead: one_/two_lead_valid; k: the session at hand; started, ended: the pinch
Handling(f) == [n |-> f.n, xy |-> f.xy, move |-> f.move, lead |-> FALSE, k |-> 0,
                started |-> FALSE, ended |-> FALSE]

NoFrame == Handling([n |-> 0, xy |-> FALSE, move |-> "still"])

Stages == {"idle", "gate", "handover", "close", "arm", "open", "report"}

-----------------------------------------------------------------------------
(* The latch and the deferred clicks.                                      *)

KeepHold    == UNCHANGED <<hold, down>>
ReleaseHold == /\ hold' = 0
               /\ down' = down \ {hold}

ReleaseIf(condition) == IF condition THEN ReleaseHold ELSE KeepHold

\* Clears *_click_pending of every finger in K and cancels its click work.
Forget(K) ==
  /\ pend'    = [k \in Fingers |-> pend[k] /\ k \notin K]
  /\ pendAge' = [k \in Fingers |-> IF k \in K THEN 0 ELSE pendAge[k]]
  /\ click'   = [k \in Fingers |-> IF k \in K THEN Off ELSE click[k]]

KeepPending == UNCHANGED <<pend, pendAge, click>>

\* Mutant: the one-finger reset leaves the grace work scheduled.
ResetKeepsGrace(k) == s' = [s EXCEPT ![k] = NoSession] /\ UNCHANGED grace

\* Ends session k; the one-finger reset also cancels the grace work.
Reset(k) ==
  /\ s' = [s EXCEPT ![k] = NoSession]
  /\ grace' = IF k = 1 THEN Off ELSE grace

-----------------------------------------------------------------------------
(* Frame handler: iqs9151_process_frame, iqs9151_update_gesture_sessions.  *)

BeginFrame(f) ==
  /\ pc = "idle"
  /\ pc' = "gate"
  /\ fr' = Handling(f)
  /\ UNCHANGED <<s, grace, pend, pendAge, click, hold, down, prev, zero, par>>

\* The fingers whose deferred click this frame's finger count resolves.
Resolved ==
  {k \in Fingers :
     /\ pend[k]
     /\ \/ k = 1 /\ fr.n > 1
        \/ k = 2 /\ fr.n > 2
        \/ k = 3 /\ fr.n \notin {0, 3} /\ pendAge[k] > Gap[k]}

\* Mutant: the early return of a staged re-entry is dropped.
StagedReentryUnserved == FALSE

\* A three-finger deferred click is kept during a staged 0->1->2->3 re-entry:
\* the rest of the session updates is skipped.
StagedReentry == pend[3] /\ fr.n \notin {0, 3} /\ pendAge[3] <= Gap[3]

ResolvePending ==
  /\ pc = "gate"
  /\ ReleaseIf(hold \in Resolved)
  /\ Forget(Resolved)
  /\ pc' = IF StagedReentry THEN "report" ELSE "handover"
  /\ UNCHANGED <<fr, s, grace, prev, zero, par>>

\* The sessions a frame with more fingers takes over.
TakenOver == {j \in {1, 2} : s[j].active /\ j < fr.n /\ fr.n <= 3}

\* Mutant: it does not matter how long the fewer fingers have touched.
LeadsTapAnyAge(j) == ~s[j].drag /\ s[j].cand /\ s[j].mode = "none"

\* A tap candidate taken over early enough makes the new session one too.
LeadsTap(j) == /\ ~s[j].drag /\ s[j].cand
               /\ s[j].mode = "none"
               /\ s[j].age <= LeadMax

\* Mutant: any session taken over releases the latch, drag or not.
HandOverReleases ==
  /\ pc = "handover"
  /\ pc' = "close"
  /\ fr' = [fr EXCEPT !.k = 1,
                      !.lead  = \E j \in TakenOver : LeadsTap(j),
                      !.ended = 2 \in TakenOver /\ s[2].mode = "pinch"]
  /\ ReleaseIf(TakenOver # {})
  /\ s' = [j \in Fingers |-> IF j \in TakenOver THEN NoSession ELSE s[j]]
  /\ grace' = IF 1 \in TakenOver THEN Off ELSE grace
  /\ KeepPending
  /\ UNCHANGED <<prev, zero, par>>

HandOver ==
  /\ pc = "handover"
  /\ pc' = "close"
  /\ fr' = [fr EXCEPT !.k = 1,
                      !.lead  = \E j \in TakenOver : LeadsTap(j),
                      !.ended = 2 \in TakenOver /\ s[2].mode = "pinch"]
  /\ ReleaseIf(\E j \in TakenOver : s[j].drag)
  /\ s' = [j \in Fingers |-> IF j \in TakenOver THEN NoSession ELSE s[j]]
  /\ grace' = IF 1 \in TakenOver THEN Off ELSE grace
  /\ KeepPending
  /\ UNCHANGED <<prev, zero, par>>

-----------------------------------------------------------------------------
(* Closing: one_, two_ and three_finger_update for a session whose finger  *)
(* count is no longer reported, in this order.                             *)

Closing(k) == pc = "close" /\ fr.k = k

\* Mutant: a pinch that ends when its fingers lift is not noticed.
CloseNextUnnoticed(k) ==
  /\ pc' = IF k = 3 THEN "open" ELSE "close"
  /\ fr' = [fr EXCEPT !.k = IF k = 3 THEN 0 ELSE k + 1]

\* On to the next session; a pinch session that is gone has ended.
CloseNext(k) ==
  /\ pc' = IF k = 3 THEN "open" ELSE "close"
  /\ fr' = [fr EXCEPT !.k = IF k = 3 THEN 0 ELSE k + 1,
                      !.ended = @ \/ (s[k].mode = "pinch" /\ ~s'[k].active)]

NothingToClose(k) ==
  /\ Closing(k)
  /\ ~s[k].active \/ k = fr.n
  /\ UNCHANGED <<s, grace, prev, zero, par>>
  /\ CloseNext(k)
  /\ KeepHold /\ KeepPending

\* A drag's lift is held back for the grace, in case the finger returns.
InGrace(k) == /\ k = 1 /\ fr.n = 0 /\ Grace > 0 /\ s[k].drag
              /\ s[k].rel => s[k].relAge <= Grace

\* Mutant: only a further frame can end the grace, no work is scheduled.
AwaitGraceUnscheduled(k) ==
  /\ Closing(k)
  /\ s[k].active /\ k # fr.n
  /\ InGrace(k)
  /\ s' = IF s[k].rel THEN s
          ELSE [s EXCEPT ![k].rel = TRUE, ![k].relAge = 0]
  /\ CloseNext(k)
  /\ KeepHold /\ KeepPending
  /\ UNCHANGED <<grace, prev, zero, par>>

AwaitGrace(k) ==
  /\ Closing(k)
  /\ s[k].active /\ k # fr.n
  /\ InGrace(k)
  /\ \/ /\ s[k].rel
        /\ UNCHANGED <<s, grace>>
     \/ /\ ~s[k].rel
        /\ s' = [s EXCEPT ![k].rel = TRUE, ![k].relAge = 0]
        /\ grace' = Grace
  /\ CloseNext(k)
  /\ KeepHold /\ KeepPending
  /\ UNCHANGED <<prev, zero, par>>

\* A two- or three-finger drag goes on with fewer fingers, but is no tap.
KeepDrag(k) ==
  /\ Closing(k)
  /\ s[k].active /\ k # fr.n /\ s[k].drag
  /\ k # 1 /\ fr.n > 0
  /\ s' = [s EXCEPT ![k].cand = FALSE]
  /\ CloseNext(k)
  /\ KeepHold /\ KeepPending
  /\ UNCHANGED <<grace, prev, zero, par>>

\* The drag ends.  The click of a second tap follows the release and leaves
\* the latch as it is.
FinishDrag(k) ==
  /\ Closing(k)
  /\ s[k].active /\ k # fr.n /\ s[k].drag /\ ~InGrace(k)
  /\ k = 1 \/ fr.n = 0
  /\ ReleaseHold
  /\ Reset(k)
  /\ CloseNext(k)
  /\ KeepPending
  /\ UNCHANGED <<prev, zero, par>>

\* The lift, or the last step of a staged one, completes a tap.
TapDetected(k) ==
  /\ fr.n = 0
  /\ s[k].cand /\ s[k].mode = "none"
  /\ IF s[k].rel
     THEN s[k].relAge <= RelMax /\ (k = 3 => s[k].age <= TapMax[k])
     ELSE s[k].age <= TapMax[k] /\ (k # 1 => k \in par.tap)

\* Mutant: the last step of a lift is taken for the first.
StagedLiftToNone(k) ==
  /\ k # 1 /\ fr.n < k
  /\ IF s[k].rel
     THEN s[k].relAge <= RelMax
     ELSE /\ k \in par.tap /\ s[k].cand /\ s[k].mode = "none"
          /\ s[k].age <= TapMax[k]

\* The first step of a staged lift of two or three fingers.
StagedLift(k) ==
  /\ k # 1 /\ 0 < fr.n /\ fr.n < k
  /\ IF s[k].rel
     THEN s[k].relAge <= RelMax
     ELSE /\ k \in par.tap /\ s[k].cand /\ s[k].mode = "none"
          /\ s[k].age <= TapMax[k]

AwaitLift(k) ==
  /\ Closing(k)
  /\ s[k].active /\ k # fr.n /\ ~s[k].drag
  /\ StagedLift(k)
  /\ s' = IF s[k].rel THEN s ELSE [s EXCEPT ![k].rel = TRUE, ![k].relAge = 0]
  /\ CloseNext(k)
  /\ KeepHold /\ KeepPending
  /\ UNCHANGED <<grace, prev, zero, par>>

\* No tap: only the one-finger update clears its deferred click here.
Abandon(k) ==
  /\ Closing(k)
  /\ s[k].active /\ k # fr.n /\ ~s[k].drag
  /\ ~StagedLift(k) /\ ~TapDetected(k)
  /\ Reset(k)
  /\ CloseNext(k)
  /\ Forget(IF k = 1 /\ fr.n # 0 THEN {1} ELSE {})
  /\ KeepHold
  /\ UNCHANGED <<prev, zero, par>>

\* Mutant: a tap does not look at the latch.
SwallowedNever(k) == FALSE

\* iqs9151_try_tap_hold_emit.
Swallowed(k) == hold # 0 /\ k \in par.press \cup par.tap

\* A held button swallows the tap: the tap only releases it.
SuppressTap(k) ==
  /\ Closing(k)
  /\ s[k].active /\ k # fr.n /\ ~s[k].drag
  /\ TapDetected(k)
  /\ Swallowed(k)
  /\ ReleaseHold
  /\ Reset(k)
  /\ CloseNext(k)
  /\ KeepPending
  /\ UNCHANGED <<prev, zero, par>>

\* Otherwise the tap presses its button and latches it, or clicks it (press
\* and release, back to back), as *_presshold_enable says at this moment.
EmitTap(k) ==
  /\ Closing(k)
  /\ s[k].active /\ k # fr.n /\ ~s[k].drag
  /\ TapDetected(k)
  /\ ~Swallowed(k)
  /\ IF k \in par.press
     THEN hold' = k /\ down' = down \cup {k}
     ELSE KeepHold
  /\ pc' = "arm"
  /\ KeepPending
  /\ UNCHANGED <<fr, s, grace, prev, zero, par>>

\* Mutant: the work is scheduled one tick past the gap.
ArmDelayPastGap(k) == Gap[k] + 1

\* After the report: *_presshold_enable is read again, and decides whether
\* the deferred click is armed.
ArmDelay(k) == Gap[k]

ArmClick ==
  /\ pc = "arm"
  /\ LET k == fr.k IN
       /\ IF k \in par.press
          THEN /\ pend' = [pend EXCEPT ![k] = TRUE]
               /\ pendAge' = [pendAge EXCEPT ![k] = 0]
               /\ click' = [click EXCEPT ![k] = ArmDelay(k)]
          ELSE KeepPending
       /\ Reset(k)
       /\ CloseNext(k)
  /\ KeepHold
  /\ UNCHANGED <<prev, zero, par>>

-----------------------------------------------------------------------------
(* Opening or continuing the session of the reported finger count.         *)

\* The remaining fingers of a staged lift start no session of their own.
Blocked == \E j \in {2, 3} : fr.n < j /\ s[j].active /\ s[j].rel

NoSessionToUpdate ==
  /\ pc = "open"
  /\ \/ fr.n \notin Fingers \/ Blocked
     \/ fr.n \in {1, 2} /\ ~s[fr.n].active /\ ~fr.xy
  /\ pc' = "report"
  /\ KeepHold /\ KeepPending
  /\ UNCHANGED <<fr, s, grace, prev, zero, par>>

RecentZero == zero.age <= Reentry /\ zero.frames < HistSize

\* A touch within the gap of a deferred click continues it as a drag.
SecondTouch(k) == pend[k] /\ pendAge[k] <= Gap[k]

\* With 3f_swipe_threshold = 0 the first frame already is a swipe.
SwipesAtOnce(k) == fr.move = "swipe" /\ ~SecondTouch(k)

OpenSession ==
  /\ pc = "open"
  /\ fr.n \in Fingers /\ ~Blocked
  /\ LET k == fr.n IN
       /\ ~s[k].active
       /\ k = 3 \/ fr.xy
       /\ ReleaseIf(pend[k] /\ ~SecondTouch(k) /\ hold = k)
       /\ Forget({k})
       /\ s' = [s EXCEPT ![k] =
                  [NoSession EXCEPT !.active = TRUE,
                                    !.drag = SecondTouch(k),
                                    !.cand = \/ SecondTouch(k) \/ prev = 0
                                             \/ RecentZero \/ fr.lead,
                                    !.mode = IF SwipesAtOnce(k) THEN "swipe" ELSE "none"]]
  /\ pc' = "report"
  /\ UNCHANGED <<fr, grace, prev, zero, par>>

\* A frame that ends the grace of a one-finger drag moves nothing.
Moved(k) == fr.move # "still" /\ ~(k = 1 /\ s[k].rel)

\* Mutant: a drag may turn into a swipe.
DecidesInDrag(k) == s[k].mode = "none" /\ fr.move \in {"scroll", "pinch", "swipe"}

\* Mode and swipe are decided once, and never during a drag.
Decides(k) == /\ ~s[k].drag /\ s[k].mode = "none"
              /\ fr.move \in {"scroll", "pinch", "swipe"}

ContinueSession ==
  /\ pc = "open"
  /\ fr.n \in Fingers /\ ~Blocked
  /\ LET k == fr.n IN
       /\ s[k].active
       /\ s' = [s EXCEPT
            ![k].rel    = FALSE,
            ![k].relAge = 0,
            ![k].cand   = @ /\ s[k].age <= TapLimit(k, s[k].drag) /\ ~Moved(k),
            ![k].mode   = IF Decides(k) THEN fr.move ELSE @]
       /\ grace' = IF k = 1 /\ s[k].rel THEN Off ELSE grace
       /\ fr' = [fr EXCEPT !.started = Decides(k) /\ fr.move = "pinch"]
  /\ pc' = "report"
  /\ KeepHold /\ KeepPending
  /\ UNCHANGED <<prev, zero, par>>

\* iqs9151_report_frame_events, iqs9151_update_prev_frame and the history.
ReportFrame ==
  /\ pc = "report"
  /\ pc' = "idle"
  /\ fr' = NoFrame
  /\ down' = IF fr.ended THEN down \ {Pinch}
             ELSE IF fr.started THEN down \cup {Pinch} ELSE down
  /\ prev' = fr.n
  /\ zero' = IF fr.n = 0 THEN [age |-> 0, frames |-> 0]
             ELSE [zero EXCEPT !.frames = IF @ < HistSize THEN @ + 1 ELSE @]
  /\ KeepPending
  /\ UNCHANGED <<s, grace, hold, par>>

-----------------------------------------------------------------------------
(* The other work items, and what happens around the queue.                *)

\* iqs9151_handle_show_reset: the device says it was reset.
ShowReset ==
  /\ pc = "idle"
  /\ hold' = 0
  /\ down' = down \ (IF s[2].active /\ s[2].mode = "pinch"
                     THEN {hold, Pinch} ELSE {hold})
  /\ s' = [k \in Fingers |-> NoSession]
  /\ grace' = Off
  /\ Forget(Fingers)
  /\ prev' = 0
  /\ zero' = [age |-> 0, frames |-> HistSize]
  /\ UNCHANGED <<pc, fr, par>>

\* Mutant: the work forgets the click and leaves its button down.
ClickTimeoutForgets(k) ==
  /\ pc = "idle"
  /\ Due(click[k])
  /\ Forget({k})
  /\ KeepHold
  /\ UNCHANGED <<pc, fr, s, grace, prev, zero, par>>

\* {one,two,three}_finger_click_work_cb: nobody touched again within the gap.
ClickTimeout(k) ==
  /\ pc = "idle"
  /\ Due(click[k])
  /\ Forget({k})
  /\ ReleaseIf(pend[k] /\ hold = k)
  /\ UNCHANGED <<pc, fr, s, grace, prev, zero, par>>

\* one_finger_release_grace_work_cb: the finger did not return.
GraceTimeout ==
  /\ pc = "idle"
  /\ Due(grace)
  /\ IF s[1].active /\ s[1].rel
     THEN Reset(1) /\ ReleaseHold
     ELSE grace' = Off /\ UNCHANGED s /\ KeepHold
  /\ KeepPending
  /\ UNCHANGED <<pc, fr, prev, zero, par>>

\* iqs9151_dev_param_set of a tap parameter, from the shell thread.
SetParams(q) ==
  /\ q # par
  /\ par' = q
  /\ UNCHANGED <<pc, fr, s, grace, pend, pendAge, click, hold, down, prev, zero>>

\* One unit of time.  A frame is handled within one, and the queue runs an
\* overdue work item before time goes on.
Tick ==
  /\ pc = "idle"
  /\ ~Overdue(grace) /\ \A k \in Fingers : ~Overdue(click[k])
  /\ s' = [k \in Fingers |->
             [s[k] EXCEPT !.age    = IF s[k].active THEN Older(@) ELSE @,
                          !.relAge = IF s[k].rel THEN Older(@) ELSE @]]
  /\ pendAge' = [k \in Fingers |-> IF pend[k] THEN Older(pendAge[k]) ELSE 0]
  /\ click' = [k \in Fingers |-> Later(click[k])]
  /\ grace' = Later(grace)
  /\ zero' = [zero EXCEPT !.age = Older(@)]
  /\ UNCHANGED <<pc, fr, pend, hold, down, prev, par>>

-----------------------------------------------------------------------------
Init ==
  /\ pc = "idle"
  /\ fr = NoFrame
  /\ s = [k \in Fingers |-> NoSession]
  /\ pend = [k \in Fingers |-> FALSE]
  /\ pendAge = [k \in Fingers |-> 0]
  /\ click = [k \in Fingers |-> Off]
  /\ grace = Off
  /\ hold = 0
  /\ down = {}
  /\ prev = 0
  /\ zero = [age |-> 0, frames |-> HistSize]
  /\ par \in ParamSets

Close(k) == \/ NothingToClose(k) \/ AwaitGrace(k) \/ KeepDrag(k) \/ FinishDrag(k)
            \/ AwaitLift(k) \/ Abandon(k) \/ SuppressTap(k) \/ EmitTap(k)

\* The steps that finish the frame at hand.
HandleFrame == \/ ResolvePending \/ HandOver
               \/ \E k \in Fingers : Close(k)
               \/ ArmClick
               \/ NoSessionToUpdate \/ OpenSession \/ ContinueSession
               \/ ReportFrame

Timeout == GraceTimeout \/ \E k \in Fingers : ClickTimeout(k)

\* What takes no time.
Work == \/ \E f \in Frames : BeginFrame(f)
        \/ HandleFrame
        \/ Timeout
        \/ ShowReset
        \/ \E q \in ParamSets : SetParams(q)

Next == Work \/ Tick

Spec == Init /\ [][Next]_vars

\* The queue serves its items in order (Timeout is not starved by frames), a
\* frame in hand is finished, and time passes; fingers owe nothing.
Fairness == WF_vars(HandleFrame) /\ SF_vars(Timeout) /\ SF_vars(Tick)

FairSpec == Spec /\ Fairness

-----------------------------------------------------------------------------
(* Properties.                                                             *)

ControlOK == pc \in Stages /\ par \in ParamSets

FrameOK == fr \in [n : 0..15, xy : BOOLEAN,
                   move : {"still", "moved", "scroll", "pinch", "swipe"},
                   lead : BOOLEAN, k : 0..3, started : BOOLEAN, ended : BOOLEAN]

SessionOK == s \in [Fingers -> Session] /\ grace \in Off..Grace

PendingOK == /\ pend \in [Fingers -> BOOLEAN]
             /\ pendAge \in [Fingers -> 0..AgeMax]
             /\ \A k \in Fingers : click[k] \in Off..Gap[k]
             /\ click \in [Fingers -> Int]

HoldOK == hold \in 0..3 /\ down \subseteq Fingers \cup {Pinch}

HistoryOK == prev \in 0..15 /\ zero \in [age : 0..AgeMax, frames : 0..HistSize]

\* Every variable stays within its type.
TypeOK == ControlOK /\ FrameOK /\ SessionOK /\ PendingOK /\ HoldOK /\ HistoryOK

\* Tuning never turns a press-and-hold option on or off.
PressFixed == \A p, q \in ParamSets : p.press = q.press

\* A latched button always has someone who will release it: the deferred
\* click of its finger, a drag of its finger, or the tap being armed.  A
\* button nobody owns stays down until some later gesture happens to hit it.
HoldOwned ==
  \A k \in Fingers : hold = k =>
    \/ pend[k]
    \/ s[k].active /\ s[k].drag
    \/ pc = "arm" /\ fr.k = k

ClickArmed == \A k \in Fingers : Armed(click[k]) <=> pend[k]
GraceArmed == Armed(grace) <=> s[1].active /\ s[1].rel /\ s[1].drag

\* A deferred click and a drag in its grace wait for a timer, and a timer is
\* armed for nothing else: every path that resolves one cancels the other.
TimersArmed == ClickArmed /\ GraceArmed

\* Between frames the pinch button is down exactly while a pinch session is.
PinchReported ==
  pc = "idle" =>
    (Pinch \in down <=> s[2].active /\ s[2].mode = "pinch")

\* An untouched pad has no open session but a one-finger drag in its grace:
\* no staged lift, scroll or three-finger touch outlives the last finger.
LiftClosesSessions ==
  (pc = "idle" /\ prev = 0) =>
    \A k \in Fingers : s[k].active => k = 1 /\ s[k].drag /\ s[k].rel

\* While a three-finger deferred click is kept for a staged re-entry, no one-
\* or two-finger session is open beside it: the updates that would serve such
\* a session are being skipped.
StagedReentryAlone ==
  (pc = "idle" /\ pend[3]) => ~s[1].active /\ ~s[2].active

\* A drag keeps its button for as long as a finger touches: other sessions
\* that open and close beside it do not release it.
DragKeepsButton ==
  [][\A k \in Fingers :
       (/\ s[k].active /\ s[k].drag /\ hold = k
        /\ s'[k].active /\ fr.n # 0 /\ pc # "idle") => hold' = k]_vars

\* A swipe is clicked only while no click button is held; the swipe itself
\* does not look at the latch.
SwipeFindsNoHold ==
  [][\A k \in Fingers :
       s[k].mode # "swipe" /\ s'[k].mode = "swipe" => hold' = 0]_vars

\* The step opens session k as a drag.
OpensDrag(k) == ~s[k].active /\ s'[k].active /\ s'[k].drag

\* A second three-finger touch within the gap of a tap drags with the tap's
\* button down (documents/gesture_spec.md:297).
ThreeFingerDragHasButton == [][OpensDrag(3) => hold' = 3]_vars

\* So does a two-finger one (documents/gesture_spec.md:172 and 296).
TwoFingerDragHasButton == [][OpensDrag(2) => hold' = 2]_vars

\* A held button is released once the pad is no longer touched, though no
\* further frame may come (event mode).
ReleasedWhenUntouched == hold # 0 ~> hold = 0 \/ prev # 0

\* The button reports implement the abstract promise.
Buttons == INSTANCE Iqs9151Buttons
             WITH ClickButtons <- Fingers, PinchButton <- Pinch
ButtonsSpec == Buttons!Spec

=============================================================================
