---------------------------- MODULE Iqs9151Motion ----------------------------
(***************************************************************************)
(* The movement output of drivers/input/iqs9151.c: the cursor and scroll   *)
(* accumulators with their flush works, the inertia ("glide") that follows *)
(* a flick, and the suppression of the cursor in the tail of a two-finger  *)
(* scroll or pinch.                                                        *)
(*                                                                         *)
(* All of it runs on the one queue iqs9151_work_q: a frame is one step,    *)
(* and the flush and inertia works run between frames.  The report         *)
(* intervals are parameters that another thread may change at any time.    *)
(*                                                                         *)
(* The gestures (module Iqs9151Gesture) are abstracted to what the output  *)
(* reads of them: the mode of the two-finger session, which session drags  *)
(* with a button held, whether the three-finger session is open, and       *)
(* whether a frame or a work reports a button.  Distances are left out; a  *)
(* choice that depends on them alone is nondeterministic here and computed *)
(* in module Iqs9151Algorithms.                                            *)
(***************************************************************************)
EXTENDS Integers

CONSTANTS
  Counts,      \* finger counts the trackpad reports
  Intervals,   \* values given to {cursor,scroll}_report_interval_ms, in ticks
  MaxInterval, \* the largest of them
  GlideEvery,  \* {CURSOR,SCROLL}_INERTIA_INTERVAL_MS
  GlideMax,    \* {CURSOR,SCROLL}_INERTIA_MAX_DURATION_MS
  Stale,       \* {cursor,scroll}_gate.stale_gap_ms
  Late         \* how many ticks a due work item may wait for the queue

ASSUME MotionAssumption ==
  /\ Counts \subseteq 0..15
  /\ MaxInterval \in Nat /\ Intervals \subseteq 0..MaxInterval /\ 0 \in Intervals
  /\ GlideEvery \in Nat \ {0} /\ GlideMax \in Nat \ {0}
  /\ Stale \in Nat /\ Late \in Nat

Channels == {"cursor", "scroll"}

VARIABLES
  prev,      \* prev_frame.finger_count
  mode,      \* two_finger.mode
  drag,      \* the finger session with hold_sent set, 0 for none
  three,     \* three_active
  tail,      \* two_finger_tail_suppresses_cursor
  acc,       \* per channel: *_acc_valid, *_flush_work, last_*_report_ms
  glide,     \* per channel: inertia_*, inertia_*_work
  sample,    \* per channel: age of the newest sample of *_motion_history
  interval,  \* per channel: *_report_interval_ms
  out        \* what the last step reported to the input subsystem

vars == <<prev, mode, drag, three, tail, acc, glide, sample, interval, out>>

-----------------------------------------------------------------------------
(* Time.  A timer counts down to 0 and may then wait Late ticks for the    *)
(* queue; Off lies below every value of an armed timer.                    *)

Off      == 0 - Late - 1
Armed(t) == t # Off
Due(t)   == Armed(t) /\ t <= 0
Later(t) == IF Armed(t) THEN t - 1 ELSE t

\* No movement can be held back for longer than this; ages saturate above it.
HeldMax == 2 * MaxInterval + Late
Older(a, max) == IF a < max THEN a + 1 ELSE a

\* A sample this old, or none at all, cannot start inertia.
NoSample == Stale + 1

-----------------------------------------------------------------------------
(* Accumulators: iqs9151_{cursor,scroll}_acc_send, *_flush, *_report_*.     *)

Acc == [valid : BOOLEAN, since : 0..HeldMax + 1, flush : Off..MaxInterval]

EmptyAcc == [valid |-> FALSE, since |-> HeldMax + 1, flush |-> Off]

Flushed(a) == IF a.valid THEN [valid |-> FALSE, since |-> 0, flush |-> Off] ELSE a

\* Mutants: the flush is left to the next frame; every movement puts the flush
\* off, however long ago the last report was.
AddedUnscheduled(a, i) ==
  IF i = 0 \/ a.since >= i THEN Flushed([a EXCEPT !.valid = TRUE])
  ELSE [a EXCEPT !.valid = TRUE]
AddedDebounced(a, i) ==
  IF i = 0 THEN Flushed([a EXCEPT !.valid = TRUE])
  ELSE [a EXCEPT !.valid = TRUE, !.flush = i]

\* Movement is added, and sent at once or i ticks later.  Rescheduling a work
\* that is already queued leaves it there; the second run finds nothing to send.
Added(a, i) ==
  IF i = 0 \/ a.since >= i THEN Flushed([a EXCEPT !.valid = TRUE])
  ELSE [a EXCEPT !.valid = TRUE, !.flush = IF Due(a.flush) THEN a.flush ELSE i]

\* There was movement to send, and none of it is held back.
Sent(had, after, c) == IF had /\ ~after.valid THEN {c} ELSE {}

-----------------------------------------------------------------------------
(* Inertia: iqs9151_inertia_start, iqs9151_inertia_cancel.  "left" is what *)
(* remains of the maximal duration, 0 when the inertia is not active.      *)

Glide == [left : 0..GlideMax, work : Off..GlideEvery]

NoGlide == [left |-> 0, work |-> Off]

\* Mutant: the inertia is started, its work is not.
StartedUnscheduled(g) == [left |-> GlideMax, work |-> g.work]

\* k_work_schedule leaves a work that is already scheduled as it is.
Started(g) ==
  [left |-> GlideMax, work |-> IF Armed(g.work) THEN g.work ELSE GlideEvery]

\* A seed needs a recent sample; the rest is up to speeds and parameters.
Seeds(age) == IF age <= Stale THEN BOOLEAN ELSE {FALSE}

-----------------------------------------------------------------------------
(* What the gestures make of a frame with n fingers.                       *)

\* Two fingers may start to scroll or pinch unless they drag; any other count
\* ends it.
ModesAfter(n) ==
  IF n # 2 THEN {"none"}
  ELSE IF mode = "none" /\ drag # 2 THEN {"none", "scroll", "pinch"}
  ELSE {mode}

\* A drag starts with the second touch of a tap and ends when its fingers are
\* lifted; a one-finger drag may survive the lift for f1_release_grace_ms.
DragsAfter(n) ==
  CASE n = 0 -> {0} \cup ({drag} \cap {1})
    [] n = 1 -> IF drag = 0 THEN {0, 1} ELSE {drag}
    [] n = 2 -> IF drag \in {2, 3} THEN {drag} ELSE {0, 2}
    [] n = 3 -> IF drag = 3 THEN {3} ELSE {0, 3}
    [] OTHER -> IF drag = 1 THEN {0} ELSE {drag}

ThreeAfter(n, d) ==
  IF n = 3 \/ d = 3 THEN {TRUE} ELSE IF n = 0 THEN {FALSE} ELSE {three, FALSE}

\* Mutant: hold_sent is read after the session has been reset.
ReleasedAfterReset(n, d) == FALSE

\* released_from_hold, as far as the inertia reads it: only the lift of a
\* one-finger drag, and the gates for a larger count, report it.
ReleasedFromHold(n, d) == n = 0 /\ drag = 1 /\ d # 1

-----------------------------------------------------------------------------
(* The frame handler.                                                      *)

\* Mutants: the end of a session by a remaining finger is missed; a second
\* finger keeps the mark.
SuppressesKnown(n, ended) == tail
TailUntilLift(n, quiet)   == quiet /\ n # 0

\* iqs9151_should_suppress_cursor_for_two_finger_tail: the cursor is silent in
\* this frame; the mark itself does not survive a frame without one finger.
Suppresses(n, ended) == tail \/ (prev = 2 /\ n = 1 /\ ended)
TailAfter(n, quiet)  == quiet /\ n = 1

\* Mutant: only buttons flush the cursor.
ReportedOnKey(n, m, key, cursor, scroll) ==
  LET cur == IF key THEN Flushed(acc["cursor"]) ELSE acc["cursor"]
      scr == IF m # "scroll" THEN Flushed(acc["scroll"]) ELSE acc["scroll"]
  IN  [cursor |-> IF cursor THEN Added(cur, interval["cursor"]) ELSE cur,
       scroll |-> IF scroll THEN Added(scr, interval["scroll"]) ELSE scr]

\* iqs9151_report_frame_events, after the buttons of the gestures.
Reported(n, m, key, cursor, scroll) ==
  LET cur == IF key \/ n # 1 THEN Flushed(acc["cursor"]) ELSE acc["cursor"]
      scr == IF m # "scroll" THEN Flushed(acc["scroll"]) ELSE acc["scroll"]
  IN  [cursor |-> IF cursor THEN Added(cur, interval["cursor"]) ELSE cur,
       scroll |-> IF scroll THEN Added(scr, interval["scroll"]) ELSE scr]

Still == [g |-> NoGlide, age |-> NoSample]

\* Mutant: three fingers stop the cursor only.
AtReportCursor(c, n, d, th) ==
  IF c = "cursor" /\ (n = 3 \/ th \/ d = 1) THEN Still
  ELSE [g |-> glide[c], age |-> sample[c]]

\* The inertia and the newest sample of channel c when the frame is reported:
\* three fingers stop both channels, a one-finger drag the cursor.
AtReport(c, n, d, th) ==
  IF n = 3 \/ th \/ (c = "cursor" /\ d = 1) THEN Still
  ELSE [g |-> glide[c], age |-> sample[c]]

\* iqs9151_update_inertia_ema, the scroll half.
ScrollInertia(w, n, m, scroll, seed) ==
  LET g == IF (mode = "none" /\ m = "scroll") \/ n = 2 \/ (prev = 0 /\ n = 1)
           THEN NoGlide ELSE w.g
  IN  CASE m = "pinch" -> Still
        [] mode = "scroll" /\ m = "none" ->
             [g |-> IF seed THEN Started(g) ELSE g, age |-> NoSample]
        [] OTHER -> [g |-> g, age |-> IF scroll THEN 0 ELSE w.age]

\* iqs9151_update_inertia_ema, the cursor half.
CursorInertia(w, n, move, quiet, held, seed) ==
  LET age == IF prev = 0 /\ n = 1 THEN NoSample ELSE w.age
  IN  IF quiet THEN Still
      ELSE IF n = 0 /\ prev = 1 /\ ~held
      THEN [g |-> IF seed THEN Started(w.g) ELSE w.g, age |-> NoSample]
      ELSE IF n = 1 /\ move # "none"
      THEN [g |-> NoGlide, age |-> IF move = "far" THEN 0 ELSE age]
      ELSE [g |-> w.g, age |-> age]

\* Movement of one finger may be lost in the rounding of the gain ("lost").
Moves(n, m) == IF n = 1 THEN {"none", "lost", "far"}
               ELSE IF m = "scroll" THEN {"none", "far"} ELSE {"none"}

\* iqs9151_process_frame.  The gestures choose the mode m, the drag d, the
\* three-finger session th and whether a button is reported (key); the data,
\* the movement, and whether a flick was fast and steady enough for inertia.
Frame(n) ==
  \E m \in ModesAfter(n), d \in DragsAfter(n), key \in BOOLEAN :
  \E th \in ThreeAfter(n, d), move \in Moves(n, m) :
    LET quiet  == Suppresses(n, mode # "none" /\ m = "none")
        scroll == m = "scroll" /\ move # "none"
        cursor == n = 1 /\ move # "none" /\ ~quiet
        rep    == Reported(n, m, key, cursor, scroll)
        cur    == AtReport("cursor", n, d, th)
        scr    == AtReport("scroll", n, d, th)
    IN
    /\ d = 2 => m = "none"
    /\ \E seedC \in Seeds(cur.age), seedS \in Seeds(scr.age) :
         LET c == CursorInertia(cur, n, move, quiet, ReleasedFromHold(n, d), seedC)
             s == ScrollInertia(scr, n, m, scroll, seedS)
         IN  /\ glide'  = [cursor |-> c.g, scroll |-> s.g]
             /\ sample' = [cursor |-> c.age, scroll |-> s.age]
    /\ prev' = n /\ mode' = m /\ drag' = d /\ three' = th
    /\ tail' = TailAfter(n, quiet)
    /\ acc' = rep
    /\ out' = (IF key THEN {"key"} ELSE {})
              \cup (IF (m = "pinch") # (mode = "pinch") THEN {"pinch"} ELSE {})
              \cup Sent(acc["cursor"].valid \/ cursor, rep["cursor"], "cursor")
              \cup Sent(acc["scroll"].valid \/ scroll, rep["scroll"], "scroll")
    /\ UNCHANGED interval

\* iqs9151_handle_show_reset: a frame of a trackpad that has reset itself ends
\* every session; movement not sent yet is dropped, except what has to come
\* before the release of a button.
ShowReset ==
  \E key \in BOOLEAN :
    /\ acc' = [c \in Channels |-> EmptyAcc]
    /\ out' = (IF key THEN {"key"} ELSE {})
              \cup (IF mode = "pinch" THEN {"pinch"} ELSE {})
              \cup (IF key \/ mode = "pinch"
                    THEN Sent(acc["cursor"].valid, EmptyAcc, "cursor") ELSE {})
    /\ glide'  = [c \in Channels |-> NoGlide]
    /\ sample' = [c \in Channels |-> NoSample]
    /\ prev' = 0 /\ mode' = "none" /\ drag' = 0
    /\ three' = FALSE /\ tail' = FALSE
    /\ UNCHANGED interval

-----------------------------------------------------------------------------
(* The works, and the rest of the world.                                   *)

\* {cursor,scroll}_flush_work.
FlushWork(c) ==
  /\ Due(acc[c].flush)
  /\ acc' = [acc EXCEPT ![c] = Flushed(acc[c])]
  /\ out' = Sent(acc[c].valid, EmptyAcc, c)
  /\ UNCHANGED <<prev, mode, drag, three, tail, glide, sample, interval>>

\* Mutant: elapsed_ms is not accumulated.
SpentUncounted(g) == 0

\* iqs9151_inertia_step: as many intervals as have passed are made up for.
Spent(g) == ((GlideEvery - g.work + GlideEvery - 1) \div GlideEvery) * GlideEvery

\* inertia_{cursor,scroll}_work: reports its movement, if that comes to a count,
\* and ends after the maximal duration, or earlier, when the speed has decayed.
GlideWork(c) ==
  /\ Due(glide[c].work)
  /\ \E left \in {0, glide[c].left - Spent(glide[c])} :
       /\ left \in 0..GlideMax
       /\ glide' = [glide EXCEPT ![c] =
                      IF left = 0 THEN NoGlide ELSE [left |-> left, work |-> GlideEvery]]
  /\ out' \in {{}, {c}}
  /\ UNCHANGED <<prev, mode, drag, three, tail, acc, sample, interval>>

\* A deferred click or the release grace ends: the button is released, and a
\* one-finger drag in its grace is over.
ButtonWork ==
  /\ drag' \in {drag} \cup (IF prev = 0 THEN {0} ELSE {})
  /\ acc' = [acc EXCEPT !["cursor"] = Flushed(acc["cursor"])]
  /\ out' = {"key"} \cup Sent(acc["cursor"].valid, EmptyAcc, "cursor")
  /\ UNCHANGED <<prev, mode, three, tail, glide, sample, interval>>

\* iqs9151_dev_param_set, on another thread.
SetInterval(c, i) ==
  /\ interval' = [interval EXCEPT ![c] = i]
  /\ out' = {}
  /\ UNCHANGED <<prev, mode, drag, three, tail, acc, glide, sample>>

\* The queue keeps no item waiting for more than Late ticks.
Tick ==
  /\ \A c \in Channels : acc[c].flush # 0 - Late /\ glide[c].work # 0 - Late
  /\ acc' = [c \in Channels |->
               [valid |-> acc[c].valid, since |-> Older(acc[c].since, HeldMax + 1),
                flush |-> Later(acc[c].flush)]]
  /\ glide' = [c \in Channels |->
                 [left |-> glide[c].left, work |-> Later(glide[c].work)]]
  /\ sample' = [c \in Channels |-> Older(sample[c], NoSample)]
  /\ out' = {}
  /\ UNCHANGED <<prev, mode, drag, three, tail, interval>>

-----------------------------------------------------------------------------
Init ==
  /\ prev = 0 /\ mode = "none" /\ drag = 0 /\ three = FALSE /\ tail = FALSE
  /\ acc = [c \in Channels |-> EmptyAcc]
  /\ glide = [c \in Channels |-> NoGlide]
  /\ sample = [c \in Channels |-> NoSample]
  /\ interval \in [Channels -> Intervals]
  /\ out = {}

Next ==
  \/ \E n \in Counts : Frame(n)
  \/ ShowReset
  \/ \E c \in Channels : FlushWork(c)
  \/ \E c \in Channels : GlideWork(c)
  \/ ButtonWork
  \/ \E c \in Channels, i \in Intervals : SetInterval(c, i)
  \/ Tick

\* The queue runs every work that is due, and time passes.
Fairness ==
  /\ \A c \in Channels : WF_vars(FlushWork(c)) /\ WF_vars(GlideWork(c))
  /\ WF_vars(Tick)

Spec == Init /\ [][Next]_vars /\ Fairness

-----------------------------------------------------------------------------
(* Properties.                                                             *)

\* Every variable keeps the values its C counterpart can hold.
MotionTypeOK ==
  /\ prev \in Counts \cup {0} /\ mode \in {"none", "scroll", "pinch"}
  /\ drag \in 0..3 /\ three \in BOOLEAN /\ tail \in BOOLEAN
  /\ acc \in [Channels -> Acc] /\ glide \in [Channels -> Glide]
  /\ sample \in [Channels -> 0..NoSample]
  /\ interval \in [Channels -> Intervals]
  /\ out \subseteq {"key", "pinch", "cursor", "scroll"}

\* Movement that is held back (*_acc_valid) always has its flush work on the
\* way.  However often new movement reschedules that work, and whatever another
\* thread makes of the interval, no movement waits for two intervals or longer.
DeliveredInTime ==
  \A c \in Channels :
    acc[c].valid => Armed(acc[c].flush) /\ acc[c].since < HeldMax

\* Inertia that runs has its work scheduled, and no work runs for an inertia
\* that is over: a cancelled flick cannot move the pointer once more.
GlideHasWork == \A c \in Channels : glide[c].left > 0 <=> Armed(glide[c].work)

\* The movement of a finger and the inertia of an earlier flick never add up:
\* while the one is held back, the other has stopped.
GlideOrMovement == \A c \in Channels : ~(acc[c].valid /\ glide[c].left > 0)

\* The finger that stays down after a two-finger scroll or pinch moves nothing
\* and leaves nothing to glide on when it is lifted.
QuietTail ==
  tail => /\ prev = 1 /\ ~acc["cursor"].valid
          /\ glide["cursor"].left = 0 /\ sample["cursor"] = NoSample

\* During a scroll or pinch the fingers neither move the cursor nor start inertia
\* of it: what still moves it is the inertia of an earlier flick, which no frame
\* of two fingers cancels.  In the tail of the gesture nothing moves it at all.
NoCursorInTail ==
  [][/\ mode # "none" /\ "cursor" \in out' => GlideWork("cursor")
     /\ mode # "none" => glide'["cursor"].left <= glide["cursor"].left
     /\ tail => "cursor" \notin out' /\ glide'["cursor"].left = 0]_vars

\* Scroll inertia never runs while two or three fingers rest on the trackpad,
\* nor during what is left of a three-finger gesture.
NoScrollGlideUnderFingers ==
  prev \in {2, 3} \/ three => glide["scroll"].left = 0

\* Inertia is never left without its work.  It gives way to movement of its own
\* channel that is held back; that of the cursor to the tail of a two-finger
\* gesture, that of the scroll to two or three fingers, moving or at rest.
GlideYields ==
  /\ GlideHasWork /\ GlideOrMovement
  /\ QuietTail /\ NoScrollGlideUnderFingers

\* Lifting the finger of a one-finger drag starts no inertia: the drop lands
\* where the finger left it.
NoGlideFromDrag == [][drag = 1 /\ prev = 1 => glide'["cursor"].left = 0]_vars

\* BTN_7 of a pinch never overtakes cursor movement that came before it.
MovementBeforePinch ==
  [][("pinch" \in out' /\ acc["cursor"].valid) =>
     ("cursor" \in out' /\ ~acc'["cursor"].valid)]_vars

\* Inertia always comes to an end, however late its work is run.
GlideEnds == \A c \in Channels : []<>(glide[c].left = 0)
=============================================================================
