------------------------ MODULE Iqs9151GestureProofs ------------------------
(***************************************************************************)
(* Proofs about Iqs9151Gesture, for every value of its constants, in the   *)
(* order in which they rest on each other:                                 *)
(*   the latch: timers, the owner of the hold, what the host sees;         *)
(*   the sessions: the pinch button follows the pinch, the lift leaves     *)
(*   nothing open but a drag in its grace, a click kept for a staged       *)
(*   re-entry is alone, a drag keeps its button, swipes and three-finger   *)
(*   drags find the latch as they expect it;                               *)
(*   the contact (Iqs9151GestureContact): a tap is short, whichever        *)
(*   sessions it went through;                                             *)
(*   the attempt (Iqs9151Summary): it covers whatever may still happen,    *)
(*   and is over before its summary goes out.                              *)
(***************************************************************************)
EXTENDS Iqs9151Summary, TLAPS

USE ConstantsAssumption DEF ConstantsAssumption, Fingers, Pinch

-----------------------------------------------------------------------------
(* Facts about the small operators.                                        *)

\* An age stays within its bound, and the clock keeps a timer within its.
LEMMA OlderType == ASSUME NEW a \in 0..AgeMax PROVE Older(a) \in 0..AgeMax
  BY DEF Older

LEMMA LaterType ==
  ASSUME NEW m \in Nat, NEW t \in Off..m PROVE Later(t) \in Off..m
  BY DEF Later, Armed, Off

LEMMA OffType == Off \in Int /\ Off < 0 /\ \A m \in Nat : Off \in Off..m
  BY DEF Off

LEMMA NoSessionType == NoSession \in Session
  BY DEF NoSession, Session

LEMMA LiftedType ==
  ASSUME NEW x \in Session, NEW rel \in BOOLEAN, NEW a \in 0..AgeMax
  PROVE  [x EXCEPT !.rel = rel, !.relAge = a] \in Session
  BY DEF Session

LEMMA OpenedType ==
  ASSUME NEW drag \in BOOLEAN, NEW cand \in BOOLEAN,
         NEW mode \in {"none", "swipe"}
  PROVE  [NoSession EXCEPT !.active = TRUE, !.drag = drag, !.cand = cand,
                           !.mode = mode] \in Session
  BY NoSessionType DEF Session

LEMMA ContinuedType ==
  ASSUME NEW x \in Session, NEW a \in 0..AgeMax,
         NEW cand \in BOOLEAN, NEW mode \in {"none", "scroll", "pinch", "swipe"}
  PROVE  [x EXCEPT !.rel = FALSE, !.relAge = a,
                   !.cand = cand, !.mode = mode] \in Session
  BY DEF Session

LEMMA AgedType ==
  ASSUME NEW x \in Session, NEW a \in 0..AgeMax, NEW b \in 0..AgeMax
  PROVE  [x EXCEPT !.age = a, !.relAge = b] \in Session
  BY DEF Session

\* What a lift and the passing of time leave as it was.
LEMMA LiftedFields ==
  ASSUME NEW x \in Session, NEW a \in 0..AgeMax,
         NEW y, y = [x EXCEPT !.rel = TRUE, !.relAge = a]
  PROVE  /\ y.rel
         /\ y.active <=> x.active
         /\ y.drag <=> x.drag
  BY DEF Session

LEMMA AgedFields ==
  ASSUME NEW x \in Session, NEW a \in 0..AgeMax, NEW b \in 0..AgeMax,
         NEW y, y = [x EXCEPT !.age = a, !.relAge = b]
  PROVE  /\ y.active <=> x.active
         /\ y.rel <=> x.rel
         /\ y.drag <=> x.drag
  BY DEF Session

LEMMA HandlingType ==
  ASSUME NEW f \in Frames
  PROVE  Handling(f) \in [n : 0..15, xy : BOOLEAN,
                          move : {"still", "moved", "scroll", "pinch", "swipe"},
                          lead : BOOLEAN, k : 0..3,
                          started : BOOLEAN, ended : BOOLEAN]
<1>1. f \in [n : Counts, xy : BOOLEAN,
             move : {"still", "moved", "scroll", "pinch", "swipe"}]
  BY DEF Frames
<1>2. f.n \in 0..15 /\ f.xy \in BOOLEAN
      /\ f.move \in {"still", "moved", "scroll", "pinch", "swipe"}
  BY <1>1 DEF ConstantsAssumption
<1>3. QED
  BY <1>2 DEF Handling

LEMMA NoFrameType ==
  NoFrame \in [n : 0..15, xy : BOOLEAN,
               move : {"still", "moved", "scroll", "pinch", "swipe"},
               lead : BOOLEAN, k : 0..3, started : BOOLEAN, ended : BOOLEAN]
  BY DEF NoFrame, Handling

-----------------------------------------------------------------------------
(* Type correctness.                                                       *)

LEMMA ForgetType ==
  ASSUME NEW K, PendingOK, Forget(K) PROVE PendingOK'
  BY OffType DEF PendingOK, Forget

LEMMA ArmType ==
  ASSUME PendingOK, NEW k \in Fingers, NEW a \in 0..AgeMax, NEW c \in Off..Gap[k],
         pend' = [pend EXCEPT ![k] = TRUE], pendAge' = [pendAge EXCEPT ![k] = a],
         click' = [click EXCEPT ![k] = c]
  PROVE  PendingOK'
<1>1. pend' \in [Fingers -> BOOLEAN] /\ pendAge' \in [Fingers -> 0..AgeMax]
  BY DEF PendingOK
<1>2. c \in Int
  BY OffType
<1>3. click' \in [Fingers -> Int]
  BY <1>2 DEF PendingOK
<1>4. \A j \in Fingers : click'[j] \in Off..Gap[j]
  BY DEF PendingOK
<1>5. QED
  BY <1>1, <1>3, <1>4 DEF PendingOK

LEMMA ReleaseType ==
  ASSUME HoldOK, hold' \in {0, hold}, down' \subseteq down PROVE HoldOK'
  BY DEF HoldOK

LEMMA ResetType ==
  ASSUME NEW k, SessionOK, Reset(k) PROVE SessionOK'
  BY NoSessionType, OffType DEF Reset, SessionOK

LEMMA FrameUpdateType ==
  ASSUME FrameOK, NEW k \in 0..3, NEW lead \in BOOLEAN, NEW ended \in BOOLEAN,
         fr' = [fr EXCEPT !.k = k, !.lead = lead, !.ended = ended]
  PROVE  FrameOK'
  BY DEF FrameOK

LEMMA CloseNextType ==
  ASSUME NEW k \in 0..3, FrameOK, CloseNext(k)
  PROVE  FrameOK' /\ pc' \in Stages
<1> DEFINE next == IF k = 3 THEN 0 ELSE k + 1
           ended == fr.ended \/ (s[k].mode = "pinch" /\ ~s'[k].active)
<1>1. fr' = [fr EXCEPT !.k = next, !.ended = ended]
  BY DEF CloseNext
<1>2. next \in 0..3 /\ ended \in BOOLEAN
  OBVIOUS
<1> HIDE DEF next, ended
<1>3. FrameOK'
  BY <1>1, <1>2 DEF FrameOK
<1>4. QED
  BY <1>3 DEF CloseNext, Stages

LEMMA InitType == Init => TypeOK
<1> SUFFICES ASSUME Init PROVE TypeOK
  OBVIOUS
<1>1. FrameOK
  BY NoFrameType DEF Init, FrameOK
<1>2. SessionOK
  BY NoSessionType, OffType DEF Init, SessionOK
<1>3. PendingOK
  BY OffType DEF Init, PendingOK
<1>4. ControlOK /\ HoldOK /\ HistoryOK
  BY DEF Init, ControlOK, HoldOK, HistoryOK, Stages
<1>5. QED
  BY <1>1, <1>2, <1>3, <1>4 DEF TypeOK

-----------------------------------------------------------------------------
\* A step that leaves a part's variables alone leaves the part true.
LEMMA Untouched ==
  /\ FrameOK /\ UNCHANGED fr => FrameOK'
  /\ SessionOK /\ UNCHANGED <<s, grace>> => SessionOK'
  /\ PendingOK /\ UNCHANGED <<pend, pendAge, click>> => PendingOK'
  /\ HoldOK /\ UNCHANGED <<hold, down>> => HoldOK'
  /\ HistoryOK /\ UNCHANGED <<prev, zero>> => HistoryOK'
  BY DEF FrameOK, SessionOK, PendingOK, HoldOK, HistoryOK

LEMMA BeginFrameType ==
  ASSUME TypeOK, NEW f \in Frames, BeginFrame(f) PROVE TypeOK'
<1>1. FrameOK'
  BY HandlingType DEF BeginFrame, FrameOK
<1>2. ControlOK'
  BY DEF TypeOK, BeginFrame, ControlOK, Stages
<1>3. QED
  BY <1>1, <1>2, Untouched DEF TypeOK, BeginFrame

LEMMA ResolvePendingType == ASSUME TypeOK, ResolvePending PROVE TypeOK'
<1>1. HoldOK'
  BY ReleaseType DEF TypeOK, ResolvePending, ReleaseIf, ReleaseHold, KeepHold
<1>2. PendingOK'
  BY ForgetType DEF TypeOK, ResolvePending
<1>3. ControlOK'
  BY DEF TypeOK, ResolvePending, ControlOK, Stages
<1>4. QED
  BY <1>1, <1>2, <1>3, Untouched DEF TypeOK, ResolvePending

LEMMA HandOverType == ASSUME TypeOK, HandOver PROVE TypeOK'
<1>1. FrameOK'
  <2> DEFINE leads == \E j \in TakenOver : LeadsTap(j)
             ends  == 2 \in TakenOver /\ s[2].mode = "pinch"
  <2>1. fr' = [fr EXCEPT !.k = 1, !.lead = leads, !.ended = ends]
    BY DEF HandOver
  <2>2. 1 \in 0..3 /\ leads \in BOOLEAN /\ ends \in BOOLEAN
    OBVIOUS
  <2> HIDE DEF leads, ends
  <2>3. PICK k \in 0..3, lead \in BOOLEAN, ended \in BOOLEAN :
          fr' = [fr EXCEPT !.k = k, !.lead = lead, !.ended = ended]
    BY <2>1, <2>2, Zenon
  <2>4. FrameOK
    BY DEF TypeOK
  <2>5. QED
    BY <2>3, <2>4, FrameUpdateType
<1>2. SessionOK'
  BY NoSessionType, OffType DEF TypeOK, HandOver, SessionOK
<1>3. HoldOK'
  BY ReleaseType DEF TypeOK, HandOver, ReleaseIf, ReleaseHold, KeepHold
<1>4. ControlOK'
  BY DEF TypeOK, HandOver, ControlOK, Stages
<1>5. QED
  BY <1>1, <1>2, <1>3, <1>4, Untouched DEF TypeOK, HandOver, KeepPending

LEMMA CloseType ==
  ASSUME TypeOK, NEW k \in Fingers, Close(k) PROVE TypeOK'
<1> USE DEF TypeOK
<1>1. CASE NothingToClose(k)
  BY <1>1, CloseNextType, Untouched
     DEF NothingToClose, KeepHold, KeepPending, ControlOK
<1>2. CASE AwaitGrace(k)
  <2>1. ASSUME s[k].rel PROVE SessionOK'
    BY <1>2, <2>1 DEF AwaitGrace, SessionOK
  <2>2. ASSUME ~s[k].rel PROVE SessionOK'
    <3>1. s[k] \in Session /\ s[k].age \in 0..AgeMax /\ 0 \in 0..AgeMax
      BY DEF SessionOK, Session
    <3>2. [s[k] EXCEPT !.rel = TRUE, !.relAge = 0] \in Session
      BY <3>1, LiftedType
    <3>3. s' \in [Fingers -> Session]
      BY <1>2, <2>2, <3>2 DEF AwaitGrace, SessionOK
    <3>4. grace' = Grace
      BY <1>2, <2>2 DEF AwaitGrace
    <3>5. QED
      BY <3>3, <3>4, OffType DEF SessionOK
  <2>3. SessionOK'
    BY <2>1, <2>2
  <2>4. QED
    BY <1>2, <2>3, CloseNextType, Untouched
       DEF AwaitGrace, KeepHold, KeepPending, ControlOK
<1>3. CASE KeepDrag(k)
  <2>1. SessionOK'
    BY <1>3, ZenonT(30) DEF KeepDrag, SessionOK, Session
  <2>2. QED
    BY <1>3, <2>1, CloseNextType, Untouched
       DEF KeepDrag, KeepHold, KeepPending, ControlOK
<1>4. CASE FinishDrag(k)
  <2>1. HoldOK'
    BY <1>4, ReleaseType DEF FinishDrag, ReleaseHold
  <2>2. QED
    BY <1>4, <2>1, ResetType, CloseNextType, Untouched
       DEF FinishDrag, KeepPending, ControlOK
<1>5. CASE AwaitLift(k)
  <2>1. SessionOK'
    <3>1. s[k] \in Session /\ 0 \in 0..AgeMax
      BY DEF SessionOK
    <3>2. [s[k] EXCEPT !.rel = TRUE, !.relAge = 0] \in Session
      BY <3>1, LiftedType
    <3>3. CASE s[k].rel
      BY <1>5, <3>3 DEF AwaitLift, SessionOK
    <3>4. CASE ~s[k].rel
      BY <1>5, <3>2, <3>4 DEF AwaitLift, SessionOK
    <3>5. QED
      BY <3>3, <3>4
  <2>2. QED
    BY <1>5, <2>1, CloseNextType, Untouched
       DEF AwaitLift, KeepHold, KeepPending, ControlOK
<1>6. CASE Abandon(k)
  BY <1>6, ResetType, ForgetType, CloseNextType, Untouched
     DEF Abandon, KeepHold, ControlOK
<1>7. CASE SuppressTap(k)
  <2>1. HoldOK'
    BY <1>7, ReleaseType DEF SuppressTap, ReleaseHold
  <2>2. QED
    BY <1>7, <2>1, ResetType, CloseNextType, Untouched
       DEF SuppressTap, KeepPending, ControlOK
<1>8. CASE EmitTap(k)
  <2>1. HoldOK'
    <3>1. CASE k \in par.press
      <4>1. hold' = k /\ down' = down \cup {k}
        BY <1>8, <3>1 DEF EmitTap
      <4>2. hold' \in 0..3
        BY <4>1
      <4>3. QED
        BY <4>1, <4>2 DEF HoldOK
    <3>2. CASE k \notin par.press
      BY <1>8, <3>2 DEF EmitTap, KeepHold, HoldOK
    <3>3. QED
      BY <3>1, <3>2
  <2>2. ControlOK'
    BY <1>8 DEF EmitTap, ControlOK, Stages
  <2>3. QED
    BY <1>8, <2>1, <2>2, Untouched DEF EmitTap, KeepPending
<1>9. QED
  BY <1>1, <1>2, <1>3, <1>4, <1>5, <1>6, <1>7, <1>8 DEF Close

LEMMA ArmClickType == ASSUME TypeOK, ArmClick PROVE TypeOK'
<1> USE DEF TypeOK
<1> DEFINE k == fr.k
<1>1. k \in 0..3
  BY DEF FrameOK
<1>2. PendingOK'
  <2>1. CASE k \in par.press
    <3>1. k \in Fingers /\ 0 \in 0..AgeMax
      BY <2>1 DEF ControlOK, Params
    <3>2. Gap[k] \in Off..Gap[k]
      BY <3>1, OffType
    <3>3. /\ pend' = [pend EXCEPT ![k] = TRUE]
          /\ pendAge' = [pendAge EXCEPT ![k] = 0]
          /\ click' = [click EXCEPT ![k] = Gap[k]]
      BY <2>1 DEF ArmClick, ArmDelay
    <3> HIDE DEF k
    <3>4. QED
      BY <3>1, <3>2, <3>3, ArmType
  <2>2. CASE k \notin par.press
    BY <2>2, Untouched DEF ArmClick, KeepPending
  <2>3. QED
    BY <2>1, <2>2
<1>3. Reset(k) /\ CloseNext(k)
  BY DEF ArmClick
<1>4. SessionOK' /\ FrameOK' /\ pc' \in Stages
  BY <1>1, <1>3, ResetType, CloseNextType
<1>5. QED
  BY <1>2, <1>4, Untouched DEF ArmClick, KeepHold, ControlOK

LEMMA NoSessionToUpdateType ==
  ASSUME TypeOK, NoSessionToUpdate PROVE TypeOK'
  BY Untouched
     DEF TypeOK, NoSessionToUpdate, KeepHold, KeepPending, ControlOK, Stages

LEMMA OpenSessionType == ASSUME TypeOK, OpenSession PROVE TypeOK'
<1> USE DEF TypeOK
<1> DEFINE k == fr.n
           drag == SecondTouch(k)
           cand == \/ SecondTouch(k) \/ prev = 0
                   \/ RecentZero \/ fr.lead
           mode == IF SwipesAtOnce(k) THEN "swipe" ELSE "none"
           new  == [NoSession EXCEPT !.active = TRUE, !.drag = drag,
                                     !.cand = cand, !.mode = mode]
<1>1. k \in Fingers
  BY DEF OpenSession
<1>2. HoldOK'
  BY ReleaseType DEF OpenSession, ReleaseIf, ReleaseHold, KeepHold
<1>3. PendingOK'
  BY ForgetType DEF OpenSession
<1>4. new \in Session
  <2>1. drag \in BOOLEAN /\ cand \in BOOLEAN /\ mode \in {"none", "swipe"}
    BY DEF SecondTouch
  <2> HIDE DEF drag, cand, mode
  <2>2. QED
    BY <2>1, OpenedType
<1>5. s' = [s EXCEPT ![k] = new]
  BY DEF OpenSession
<1>6. SessionOK'
  <2> HIDE DEF k, new
  <2>1. grace' = grace
    BY DEF OpenSession
  <2>2. QED
    BY <1>1, <1>4, <1>5, <2>1 DEF SessionOK
<1>7. ControlOK'
  BY DEF OpenSession, ControlOK, Stages
<1>8. QED
  BY <1>2, <1>3, <1>6, <1>7, Untouched DEF OpenSession

LEMMA ContinueSessionType == ASSUME TypeOK, ContinueSession PROVE TypeOK'
<1> USE DEF TypeOK
<1> DEFINE k == fr.n
           cand == s[k].cand /\ s[k].age <= TapLimit(k, s[k].drag) /\ ~Moved(k)
           mode == IF Decides(k) THEN fr.move ELSE s[k].mode
           new  == [s[k] EXCEPT !.rel = FALSE, !.relAge = 0,
                                !.cand = cand, !.mode = mode]
<1>1. k \in Fingers
  BY DEF ContinueSession
<1>2. new \in Session
  <2>1. s[k] \in Session
    BY <1>1 DEF SessionOK
  <2>2. cand \in BOOLEAN
    BY <2>1 DEF Session
  <2>3. mode \in {"none", "scroll", "pinch", "swipe"}
    BY <2>1 DEF Session, Decides
  <2>4. 0 \in 0..AgeMax
    OBVIOUS
  <2> HIDE DEF cand, mode, k
  <2>5. QED
    BY <2>1, <2>2, <2>3, <2>4, ContinuedType
<1>3. s' = [s EXCEPT ![k] = new]
  BY <1>1 DEF ContinueSession, SessionOK
<1>4. SessionOK'
  <2>1. grace' \in Off..Grace
    BY OffType DEF ContinueSession, SessionOK
  <2> HIDE DEF k, new
  <2>2. QED
    BY <1>1, <1>2, <1>3, <2>1 DEF SessionOK
<1>5. FrameOK'
  BY DEF ContinueSession, FrameOK
<1>6. ControlOK'
  BY DEF ContinueSession, ControlOK, Stages
<1>7. QED
  BY <1>4, <1>5, <1>6, Untouched DEF ContinueSession, KeepHold, KeepPending

LEMMA ReportFrameType == ASSUME TypeOK, ReportFrame PROVE TypeOK'
<1> USE DEF TypeOK
<1>1. FrameOK'
  BY NoFrameType DEF ReportFrame, FrameOK
<1>2. HoldOK'
  BY DEF ReportFrame, HoldOK
<1>3. HistoryOK'
  <2>1. prev' \in 0..15
    BY DEF ReportFrame, FrameOK
  <2>2. zero' \in [age : 0..AgeMax, frames : 0..HistSize]
    BY DEF ReportFrame, HistoryOK
  <2>3. QED
    BY <2>1, <2>2 DEF HistoryOK
<1>4. ControlOK'
  BY DEF ReportFrame, ControlOK, Stages
<1>5. QED
  BY <1>1, <1>2, <1>3, <1>4, Untouched DEF ReportFrame, KeepPending

LEMMA ShowResetType == ASSUME TypeOK, ShowReset PROVE TypeOK'
<1> USE DEF TypeOK
<1>1. SessionOK'
  BY NoSessionType, OffType DEF ShowReset, SessionOK
<1>2. PendingOK'
  BY ForgetType DEF ShowReset
<1>3. HoldOK'
  <2>1. hold' \in 0..3 /\ down' \subseteq down
    BY DEF ShowReset
  <2>2. QED
    BY <2>1 DEF HoldOK
<1>4. HistoryOK'
  BY DEF ShowReset, HistoryOK
<1>5. QED
  BY <1>1, <1>2, <1>3, <1>4, Untouched DEF ShowReset, ControlOK

LEMMA TimeoutType == ASSUME TypeOK, Timeout PROVE TypeOK'
<1> USE DEF TypeOK
<1>1. ASSUME NEW k \in Fingers, ClickTimeout(k) PROVE TypeOK'
  <2>1. HoldOK'
    BY <1>1, ReleaseType DEF ClickTimeout, ReleaseIf, ReleaseHold, KeepHold
  <2>2. PendingOK'
    BY <1>1, ForgetType DEF ClickTimeout
  <2>3. QED
    BY <1>1, <2>1, <2>2, Untouched DEF ClickTimeout, ControlOK
<1>2. CASE GraceTimeout
  <2>1. HoldOK'
    BY <1>2, ReleaseType DEF GraceTimeout, ReleaseHold, KeepHold
  <2>2. SessionOK'
    BY <1>2, ResetType, OffType DEF GraceTimeout, SessionOK
  <2>3. QED
    BY <1>2, <2>1, <2>2, Untouched DEF GraceTimeout, KeepPending, ControlOK
<1>3. QED
  BY <1>1, <1>2 DEF Timeout

LEMMA SetParamsType ==
  ASSUME TypeOK, NEW q \in ParamSets, SetParams(q) PROVE TypeOK'
  BY Untouched DEF TypeOK, SetParams, ControlOK

LEMMA TickSession ==
  ASSUME SessionOK, Tick, NEW k \in Fingers
  PROVE  /\ s[k] \in Session
         /\ \E a, b \in 0..AgeMax : s'[k] = [s[k] EXCEPT !.age = a, !.relAge = b]
<1> DEFINE a == IF s[k].active THEN Older(s[k].age) ELSE s[k].age
           b == IF s[k].rel THEN Older(s[k].relAge) ELSE s[k].relAge
<1>1. s[k] \in Session
  BY DEF SessionOK
<1>2. a \in 0..AgeMax /\ b \in 0..AgeMax
  BY <1>1, OlderType DEF Session
<1>3. s'[k] = [s[k] EXCEPT !.age = a, !.relAge = b]
  BY DEF Tick
<1> HIDE DEF a, b
<1>4. QED
  BY <1>1, <1>2, <1>3

LEMMA TickFields ==
  ASSUME SessionOK, Tick, NEW k \in Fingers
  PROVE  /\ s'[k].active <=> s[k].active
         /\ s'[k].rel <=> s[k].rel
         /\ s'[k].drag <=> s[k].drag
<1>1. PICK a \in 0..AgeMax, b \in 0..AgeMax :
        s'[k] = [s[k] EXCEPT !.age = a, !.relAge = b]
  BY TickSession
<1>2. QED
  BY <1>1, TickSession, AgedFields

LEMMA TickType == ASSUME TypeOK, Tick PROVE TypeOK'
<1> USE DEF TypeOK
<1>1. SessionOK'
  <2>1. ASSUME NEW k \in Fingers PROVE s'[k] \in Session
    <3>1. PICK a \in 0..AgeMax, b \in 0..AgeMax :
            s'[k] = [s[k] EXCEPT !.age = a, !.relAge = b]
      BY TickSession
    <3>2. [s[k] EXCEPT !.age = a, !.relAge = b] \in Session
      BY TickSession, AgedType
    <3>3. QED
      BY <3>1, <3>2
  <2>2. grace' \in Off..Grace
    BY LaterType DEF Tick, SessionOK
  <2>3. QED
    BY <2>1, <2>2 DEF Tick, SessionOK
<1>2. PendingOK'
  <2>1. pendAge' \in [Fingers -> 0..AgeMax]
    BY OlderType DEF Tick, PendingOK
  <2>2. ASSUME NEW k \in Fingers
        PROVE  click'[k] \in Off..Gap[k] /\ click'[k] \in Int
    BY LaterType, OffType DEF Tick, PendingOK
  <2>3. QED
    BY <2>1, <2>2 DEF Tick, PendingOK
<1>3. HistoryOK'
  BY OlderType DEF Tick, HistoryOK
<1>4. QED
  BY <1>1, <1>2, <1>3, Untouched DEF Tick, ControlOK

LEMMA TypeStep == TypeOK /\ [Next]_vars => TypeOK'
<1> SUFFICES ASSUME TypeOK, [Next]_vars PROVE TypeOK'
  OBVIOUS
<1>1. CASE HandleFrame
  BY <1>1, ResolvePendingType, HandOverType, CloseType, ArmClickType,
     NoSessionToUpdateType, OpenSessionType, ContinueSessionType,
     ReportFrameType DEF HandleFrame
<1>2. CASE UNCHANGED vars
  BY <1>2, Untouched DEF TypeOK, ControlOK, vars
<1>3. QED
  BY <1>1, <1>2, BeginFrameType, TimeoutType, ShowResetType, SetParamsType,
     TickType DEF Next, Work

\* Every variable of the gesture machine always has its type.
THEOREM TypeCorrect == Spec => []TypeOK
<1>1. QED
  BY InitType, TypeStep, PTL DEF Spec

-----------------------------------------------------------------------------
(* Timers: a work is scheduled exactly while something waits for it.       *)

LEMMA ForgetArmed ==
  ASSUME NEW K, PendingOK, ClickArmed, Forget(K) PROVE ClickArmed'
  BY DEF PendingOK, ClickArmed, Forget, Armed

LEMMA ResetArmed ==
  ASSUME NEW k \in 0..3, SessionOK, GraceArmed, Reset(k) PROVE GraceArmed'
  BY DEF SessionOK, GraceArmed, Reset, Armed, NoSession

LEMMA TimersUntouched ==
  /\ ClickArmed /\ UNCHANGED <<pend, click>> => ClickArmed'
  /\ GraceArmed /\ UNCHANGED <<s, grace>> => GraceArmed'
  BY DEF ClickArmed, GraceArmed

LEMMA TimersClose ==
  ASSUME TypeOK, TimersArmed, NEW k \in Fingers, Close(k) PROVE TimersArmed'
<1> USE DEF TypeOK, TimersArmed
<1>1. CASE NothingToClose(k)
  BY <1>1, TimersUntouched DEF NothingToClose, KeepPending
<1>2. CASE AwaitGrace(k)
  <2>1. GraceArmed'
    <3>1. k = 1 /\ s[1].active /\ s[1].drag /\ Grace > 0
      BY <1>2 DEF AwaitGrace, InGrace
    <3>2. ASSUME s[1].rel PROVE GraceArmed'
      BY <1>2, <3>1, <3>2 DEF AwaitGrace, GraceArmed
    <3>3. ASSUME ~s[1].rel PROVE GraceArmed'
      <4>1. grace' = Grace
        BY <1>2, <3>1, <3>3 DEF AwaitGrace
      <4>2. s'[1].rel /\ s'[1].active /\ s'[1].drag
        <5>1. s[1] \in Session /\ s[1].age \in 0..AgeMax /\ 0 \in 0..AgeMax
          BY DEF SessionOK, Session
        <5>2. s'[1] = [s[1] EXCEPT !.rel = TRUE, !.relAge = 0]
          BY <1>2, <3>1, <3>3 DEF AwaitGrace, SessionOK
        <5>3. PICK a \in 0..AgeMax :
                s'[1] = [s[1] EXCEPT !.rel = TRUE, !.relAge = a]
          BY <5>1, <5>2
        <5>4. QED
          BY <3>1, <5>1, <5>3, LiftedFields
      <4>3. QED
        BY <3>1, <4>1, <4>2, OffType DEF GraceArmed, Armed
    <3>4. QED
      BY <3>2, <3>3
  <2>2. QED
    BY <1>2, <2>1, TimersUntouched DEF AwaitGrace, KeepPending
<1>3. CASE KeepDrag(k)
  <2>1. GraceArmed'
    BY <1>3 DEF KeepDrag, SessionOK, GraceArmed
  <2>2. QED
    BY <1>3, <2>1, TimersUntouched DEF KeepDrag, KeepPending
<1>4. CASE FinishDrag(k)
  BY <1>4, ResetArmed, TimersUntouched DEF FinishDrag, KeepPending
<1>5. CASE AwaitLift(k)
  <2>1. GraceArmed'
    BY <1>5 DEF AwaitLift, StagedLift, SessionOK, GraceArmed
  <2>2. QED
    BY <1>5, <2>1, TimersUntouched DEF AwaitLift, KeepPending
<1>6. CASE Abandon(k)
  BY <1>6, ResetArmed, ForgetArmed DEF Abandon
<1>7. CASE SuppressTap(k)
  BY <1>7, ResetArmed, TimersUntouched DEF SuppressTap, KeepPending
<1>8. CASE EmitTap(k)
  BY <1>8, TimersUntouched DEF EmitTap, KeepPending
<1>9. QED
  BY <1>1, <1>2, <1>3, <1>4, <1>5, <1>6, <1>7, <1>8 DEF Close

LEMMA TimersArmClick ==
  ASSUME TypeOK, TimersArmed, ArmClick PROVE TimersArmed'
<1> USE DEF TypeOK, TimersArmed
<1> DEFINE k == fr.k
<1>1. k \in 0..3 /\ Reset(k)
  BY DEF ArmClick, FrameOK
<1>2. GraceArmed'
  BY <1>1, ResetArmed
<1>3. CASE k \in par.press
  <2>1. k \in Fingers
    BY <1>3 DEF ControlOK, Params
  <2>2. pend' = [pend EXCEPT ![k] = TRUE] /\ click' = [click EXCEPT ![k] = Gap[k]]
    BY <1>3 DEF ArmClick, ArmDelay
  <2>3. Gap[k] # Off
    BY <2>1, OffType
  <2> HIDE DEF k
  <2>4. ClickArmed'
    BY <2>1, <2>2, <2>3 DEF ClickArmed, Armed, PendingOK
  <2>5. QED
    BY <1>2, <2>4
<1>4. CASE k \notin par.press
  BY <1>2, <1>4, TimersUntouched DEF ArmClick, KeepPending
<1>5. QED
  BY <1>3, <1>4

LEMMA TimersOpen ==
  ASSUME TypeOK, TimersArmed, NoSessionToUpdate \/ OpenSession \/ ContinueSession
  PROVE  TimersArmed'
<1> USE DEF TypeOK, TimersArmed
<1>1. CASE NoSessionToUpdate
  BY <1>1, TimersUntouched DEF NoSessionToUpdate, KeepPending
<1>2. CASE OpenSession
  <2>1. GraceArmed'
    BY <1>2 DEF OpenSession, SessionOK, GraceArmed, NoSession
  <2>2. QED
    BY <1>2, <2>1, ForgetArmed DEF OpenSession
<1>3. CASE ContinueSession
  <2>1. GraceArmed'
    BY <1>3 DEF ContinueSession, SessionOK, GraceArmed, Armed
  <2>2. QED
    BY <1>3, <2>1, TimersUntouched DEF ContinueSession, KeepPending
<1>4. QED
  BY <1>1, <1>2, <1>3

LEMMA TimersTimeout ==
  ASSUME TypeOK, TimersArmed, Timeout PROVE TimersArmed'
<1> USE DEF TypeOK, TimersArmed
<1>1. ASSUME NEW k \in Fingers, ClickTimeout(k) PROVE TimersArmed'
  BY <1>1, ForgetArmed, TimersUntouched DEF ClickTimeout
<1>2. CASE GraceTimeout
  <2>1. GraceArmed'
    BY <1>2, ResetArmed DEF GraceTimeout, GraceArmed, Armed
  <2>2. QED
    BY <1>2, <2>1, TimersUntouched DEF GraceTimeout, KeepPending
<1>3. QED
  BY <1>1, <1>2 DEF Timeout

\* Overdue work runs before time goes on, so a timer never ticks past its due.
LEMMA TimersTick == ASSUME TypeOK, TimersArmed, Tick PROVE TimersArmed'
<1> USE DEF TypeOK, TimersArmed
<1>1. ASSUME NEW t \in Int, ~Overdue(t) PROVE Armed(Later(t)) <=> Armed(t)
  BY <1>1 DEF Overdue, Armed, Later, Off
<1>2. ClickArmed'
  BY <1>1 DEF Tick, ClickArmed, PendingOK
<1>3. GraceArmed'
  <2>1. grace \in Int
    BY OffType DEF SessionOK
  <2>2. Armed(grace') <=> Armed(grace)
    BY <1>1, <2>1 DEF Tick, Armed
  <2>3. /\ s'[1].active <=> s[1].active
        /\ s'[1].rel <=> s[1].rel
        /\ s'[1].drag <=> s[1].drag
    BY TickFields
  <2>4. QED
    BY <2>2, <2>3 DEF GraceArmed, Armed
<1>4. QED
  BY <1>2, <1>3

LEMMA TimersStep == TypeOK /\ TimersArmed /\ [Next]_vars => TimersArmed'
<1> SUFFICES ASSUME TypeOK, TimersArmed, [Next]_vars PROVE TimersArmed'
  OBVIOUS
<1> USE DEF TypeOK, TimersArmed
<1>1. CASE ResolvePending
  BY <1>1, ForgetArmed, TimersUntouched DEF ResolvePending
<1>2. CASE HandOver
  <2>1. GraceArmed'
    BY <1>2 DEF HandOver, SessionOK, GraceArmed, Armed, NoSession
  <2>2. QED
    BY <1>2, <2>1, TimersUntouched DEF HandOver, KeepPending
<1>3. CASE ReportFrame
  BY <1>3, TimersUntouched DEF ReportFrame, KeepPending
<1>4. CASE HandleFrame
  BY <1>1, <1>2, <1>3, <1>4, TimersClose, TimersArmClick, TimersOpen
     DEF HandleFrame
<1>5. CASE ShowReset
  BY <1>5, ForgetArmed DEF ShowReset, GraceArmed, Armed, NoSession
<1>6. ASSUME NEW f \in Frames, BeginFrame(f) PROVE TimersArmed'
  BY <1>6, TimersUntouched DEF BeginFrame
<1>7. ASSUME NEW q \in ParamSets, SetParams(q) PROVE TimersArmed'
  BY <1>7, TimersUntouched DEF SetParams
<1>8. CASE UNCHANGED vars
  BY <1>8, TimersUntouched DEF vars
<1>9. QED
  BY <1>4, <1>5, <1>6, <1>7, <1>8, TimersTimeout, TimersTick DEF Next, Work

\* A work is scheduled exactly while a deferred click or a drag in its grace
\* waits for it: none is left without its timer, none fires for nothing.
THEOREM TimersAlwaysArmed == Spec => []TimersArmed
<1>1. Init => TimersArmed
  BY DEF Init, TimersArmed, ClickArmed, GraceArmed, Armed, NoSession
<1>2. QED
  BY <1>1, TypeCorrect, TimersStep, PTL DEF Spec

-----------------------------------------------------------------------------
(* The latch.  HoldOwned needs to know why the abandoned session of a frame *)
(* with more fingers cannot take the owner away: that frame has resolved   *)
(* the deferred click before.                                              *)

\* Only a finger whose taps press and hold can have the latch.
HoldInForce == hold # 0 => hold \in par.press

\* A frame with several fingers has no one-finger deferred click any more.
ClickResolved ==
  pc \in {"handover", "close", "arm", "open"} /\ fr.n > 1 => ~pend[1]

\* A click is armed for a session that was no drag, when all have lifted.
ArmsTap == pc = "arm" => fr.n = 0 /\ fr.k \in Fingers /\ ~s[fr.k].drag

HoldInv == HoldOwned /\ HoldInForce /\ ClickResolved /\ ArmsTap

\* The latch is what the host sees.
LatchIsDown == \A k \in Fingers : k \in down <=> hold = k

LEMMA LatchRelease ==
  ASSUME HoldOK, LatchIsDown, hold' = 0, down' = down \ {hold} PROVE LatchIsDown'
  BY DEF HoldOK, LatchIsDown

LEMMA LatchUntouched == LatchIsDown /\ UNCHANGED <<hold, down>> => LatchIsDown'
  BY DEF LatchIsDown

LEMMA LatchEmit ==
  ASSUME TypeOK, LatchIsDown, NEW k \in Fingers, EmitTap(k) PROVE LatchIsDown'
<1>1. CASE k \in par.press
  <2>1. hold = 0
    BY <1>1 DEF EmitTap, Swallowed
  <2>2. hold' = k /\ down' = down \cup {k}
    BY <1>1 DEF EmitTap
  <2>3. QED
    BY <2>1, <2>2 DEF LatchIsDown
<1>2. CASE k \notin par.press
  BY <1>2, LatchUntouched DEF EmitTap, KeepHold
<1>3. QED
  BY <1>1, <1>2

LEMMA LatchStep == TypeOK /\ LatchIsDown /\ [Next]_vars => LatchIsDown'
<1> SUFFICES ASSUME TypeOK, LatchIsDown, [Next]_vars PROVE LatchIsDown'
  OBVIOUS
<1>a. HoldOK
  BY DEF TypeOK
<1>1. CASE ResolvePending
  BY <1>1, <1>a, LatchRelease, LatchUntouched
     DEF ResolvePending, ReleaseIf, ReleaseHold, KeepHold
<1>2. CASE HandOver
  BY <1>2, <1>a, LatchRelease, LatchUntouched
     DEF HandOver, ReleaseIf, ReleaseHold, KeepHold
<1>3. ASSUME NEW k \in Fingers, Close(k) PROVE LatchIsDown'
  <2>1. CASE FinishDrag(k) \/ SuppressTap(k)
    BY <2>1, <1>a, LatchRelease DEF FinishDrag, SuppressTap, ReleaseHold
  <2>2. CASE EmitTap(k)
    BY <2>2, LatchEmit
  <2>3. CASE \/ NothingToClose(k) \/ AwaitGrace(k) \/ KeepDrag(k)
             \/ AwaitLift(k) \/ Abandon(k)
    BY <2>3, LatchUntouched
       DEF NothingToClose, AwaitGrace, KeepDrag, AwaitLift, Abandon, KeepHold
  <2>4. QED
    BY <1>3, <2>1, <2>2, <2>3 DEF Close
<1>4. CASE ArmClick \/ NoSessionToUpdate \/ ContinueSession
  BY <1>4, LatchUntouched DEF ArmClick, NoSessionToUpdate, ContinueSession, KeepHold
<1>5. CASE OpenSession
  BY <1>5, <1>a, LatchRelease, LatchUntouched
     DEF OpenSession, ReleaseIf, ReleaseHold, KeepHold
<1>6. CASE ReportFrame
  BY <1>6 DEF ReportFrame, LatchIsDown
<1>7. CASE ShowReset
  <2>1. hold' = 0 /\ down' \subseteq down \ {hold}
    BY <1>7 DEF ShowReset
  <2>2. QED
    BY <2>1 DEF LatchIsDown
<1>8. CASE Timeout
  <2>1. ASSUME NEW k \in Fingers, ClickTimeout(k) PROVE LatchIsDown'
    BY <2>1, <1>a, LatchRelease, LatchUntouched
       DEF ClickTimeout, ReleaseIf, ReleaseHold, KeepHold
  <2>2. CASE GraceTimeout
    BY <2>2, <1>a, LatchRelease, LatchUntouched
       DEF GraceTimeout, ReleaseHold, KeepHold
  <2>3. QED
    BY <1>8, <2>1, <2>2 DEF Timeout
<1>9. CASE (\E f \in Frames : BeginFrame(f)) \/ (\E q \in ParamSets : SetParams(q))
  BY <1>9, LatchUntouched DEF BeginFrame, SetParams
<1>10. CASE Tick \/ UNCHANGED vars
  BY <1>10, LatchUntouched DEF Tick, vars
<1>11. QED
  BY <1>1, <1>2, <1>3, <1>4, <1>5, <1>6, <1>7, <1>8, <1>9, <1>10
     DEF Next, Work, HandleFrame

\* Between any two steps the host sees exactly the latched button down.
THEOREM LatchAlwaysDown == Spec => []LatchIsDown
<1>1. Init => LatchIsDown
  BY DEF Init, LatchIsDown
<1>2. QED
  BY <1>1, TypeCorrect, LatchStep, PTL DEF Spec

-----------------------------------------------------------------------------
(* The button reports implement Iqs9151Buttons: only presses of a button   *)
(* that is up while no click button is down, only releases of one that is. *)

LEMMA ReleaseReported ==
  ASSUME HoldOK, LatchIsDown, hold' = 0, down' = down \ {hold}
  PROVE  [Buttons!Next]_down
<1>1. CASE hold \in Fingers
  BY <1>1 DEF LatchIsDown, Buttons!Next, Buttons!Release
<1>2. CASE hold = 0
  BY <1>2 DEF HoldOK
<1>3. QED
  BY <1>1, <1>2 DEF HoldOK

LEMMA PressReported ==
  ASSUME TypeOK, LatchIsDown, NEW k \in Fingers, EmitTap(k)
  PROVE  [Buttons!Next]_down
<1>1. CASE k \in par.press
  <2>1. hold = 0
    BY <1>1 DEF EmitTap, Swallowed
  <2>2. down' = down \cup {k} /\ down \cap Fingers = {}
    BY <1>1, <2>1 DEF EmitTap, LatchIsDown
  <2>3. QED
    BY <2>2 DEF Buttons!Next, Buttons!Press
<1>2. CASE k \notin par.press
  BY <1>2 DEF EmitTap, KeepHold
<1>3. QED
  BY <1>1, <1>2

LEMMA ResetReported ==
  ASSUME TypeOK, LatchIsDown, ShowReset PROVE [Buttons!Next]_down
<1>1. HoldOK
  BY DEF TypeOK
<1>2. CASE s[2].active /\ s[2].mode = "pinch"
  <2>1. down' = down \ {hold, Pinch}
    BY <1>2 DEF ShowReset
  <2>2. down' = {}
    BY <1>1, <2>1 DEF HoldOK, LatchIsDown
  <2>3. QED
    BY <2>2 DEF Buttons!Next, Buttons!ReleaseAll
<1>3. CASE ~(s[2].active /\ s[2].mode = "pinch")
  BY <1>1, <1>3, ReleaseReported DEF ShowReset
<1>4. QED
  BY <1>2, <1>3

LEMMA ButtonsStep ==
  TypeOK /\ LatchIsDown /\ [Next]_vars => [Buttons!Next]_down
<1> SUFFICES ASSUME TypeOK, LatchIsDown, [Next]_vars PROVE [Buttons!Next]_down
  OBVIOUS
<1>a. HoldOK
  BY DEF TypeOK
<1>1. CASE ResolvePending
  BY <1>1, <1>a, ReleaseReported DEF ResolvePending, ReleaseIf, ReleaseHold, KeepHold
<1>2. CASE HandOver
  BY <1>2, <1>a, ReleaseReported DEF HandOver, ReleaseIf, ReleaseHold, KeepHold
<1>3. ASSUME NEW k \in Fingers, Close(k) PROVE [Buttons!Next]_down
  <2>1. CASE FinishDrag(k) \/ SuppressTap(k)
    BY <2>1, <1>a, ReleaseReported DEF FinishDrag, SuppressTap, ReleaseHold
  <2>2. CASE EmitTap(k)
    BY <2>2, PressReported
  <2>3. CASE \/ NothingToClose(k) \/ AwaitGrace(k) \/ KeepDrag(k)
             \/ AwaitLift(k) \/ Abandon(k)
    BY <2>3 DEF NothingToClose, AwaitGrace, KeepDrag, AwaitLift, Abandon, KeepHold
  <2>4. QED
    BY <1>3, <2>1, <2>2, <2>3 DEF Close
<1>4. CASE ArmClick \/ NoSessionToUpdate \/ ContinueSession
  BY <1>4 DEF ArmClick, NoSessionToUpdate, ContinueSession, KeepHold
<1>5. CASE OpenSession
  BY <1>5, <1>a, ReleaseReported DEF OpenSession, ReleaseIf, ReleaseHold, KeepHold
<1>6. CASE ReportFrame
  <2>1. \/ down' = down \ {Pinch}
        \/ down' = down \cup {Pinch}
        \/ down' = down
    BY <1>6 DEF ReportFrame
  <2>2. QED
    BY <2>1 DEF Buttons!Next, Buttons!Release, Buttons!PressPinch
<1>7. CASE Timeout
  <2>1. ASSUME NEW k \in Fingers, ClickTimeout(k) PROVE [Buttons!Next]_down
    BY <2>1, <1>a, ReleaseReported
       DEF ClickTimeout, ReleaseIf, ReleaseHold, KeepHold
  <2>2. CASE GraceTimeout
    BY <2>2, <1>a, ReleaseReported DEF GraceTimeout, ReleaseHold, KeepHold
  <2>3. QED
    BY <1>7, <2>1, <2>2 DEF Timeout
<1>8. CASE (\E f \in Frames : BeginFrame(f)) \/ (\E q \in ParamSets : SetParams(q))
  BY <1>8 DEF BeginFrame, SetParams
<1>9. CASE Tick \/ UNCHANGED vars
  BY <1>9 DEF Tick, vars
<1>10. QED
  BY <1>1, <1>2, <1>3, <1>4, <1>5, <1>6, <1>7, <1>8, <1>9, ResetReported
     DEF Next, Work, HandleFrame

\* The gesture machine's button reports implement the abstract promise of
\* Iqs9151Buttons.
THEOREM ImplementsButtons == Spec => ButtonsSpec
<1>1. Init => Buttons!Init
  BY DEF Init, Buttons!Init
<1>2. QED
  BY <1>1, TypeCorrect, LatchAlwaysDown, ButtonsStep, PTL
     DEF Spec, ButtonsSpec, Buttons!Spec

-----------------------------------------------------------------------------
(* HoldOwned.                                                              *)

LEMMA OwnedByNobody == hold' = 0 => HoldOwned' /\ HoldInForce'
  BY DEF HoldOwned, HoldInForce

\* A step that keeps the latch, its deferred clicks and its drags.
LEMMA OwnersKept ==
  ASSUME HoldOwned, HoldInForce, pc # "arm", UNCHANGED <<hold, par>>,
         \A k \in Fingers : pend[k] => pend'[k],
         \A k \in Fingers : s[k].active /\ s[k].drag => s'[k].active /\ s'[k].drag
  PROVE  HoldOwned' /\ HoldInForce'
  BY DEF HoldOwned, HoldInForce

LEMMA HoldGate ==
  ASSUME TypeOK, HoldInv, ResolvePending \/ HandOver PROVE HoldInv'
<1> USE DEF HoldInv
<1>1. CASE ResolvePending
  <2>1. HoldOwned' /\ HoldInForce'
    <3>1. CASE hold \in Resolved
      BY <1>1, <3>1, OwnedByNobody DEF ResolvePending, ReleaseIf, ReleaseHold, KeepHold
    <3>2. CASE hold \notin Resolved
      <4>1. UNCHANGED <<hold, par, s>> /\ pc # "arm"
        BY <1>1, <3>2 DEF ResolvePending, ReleaseIf, KeepHold, ReleaseHold
      <4>2. \A k \in Fingers : k \notin Resolved => pend'[k] = pend[k]
        BY <1>1 DEF ResolvePending, Forget, TypeOK, PendingOK
      <4>3. QED
        BY <3>2, <4>1, <4>2 DEF HoldOwned, HoldInForce
    <3>3. QED
      BY <3>1, <3>2
  <2>2. ClickResolved'
    <3>1. fr' = fr /\ pend' = [k \in Fingers |-> pend[k] /\ k \notin Resolved]
      BY <1>1 DEF ResolvePending, Forget
    <3>2. fr.n > 1 => ~pend[1] \/ 1 \in Resolved
      BY DEF Resolved
    <3>3. pend'[1] = (pend[1] /\ 1 \notin Resolved)
      <4>1. 1 \in Fingers
        OBVIOUS
      <4> HIDE DEF Fingers
      <4>2. QED
        BY <3>1, <4>1, Zenon
    <3>4. fr.n > 1 => ~pend'[1]
      BY <3>2, <3>3
    <3>5. QED
      BY <3>1, <3>4 DEF ClickResolved
  <2>3. ArmsTap'
    BY <1>1 DEF ResolvePending, ArmsTap
  <2>4. QED
    BY <2>1, <2>2, <2>3
<1>2. CASE HandOver
  <2>1. HoldOwned' /\ HoldInForce'
    <3>1. CASE \E j \in TakenOver : s[j].drag
      BY <1>2, <3>1, OwnedByNobody DEF HandOver, ReleaseIf, ReleaseHold, KeepHold
    <3>2. CASE ~ \E j \in TakenOver : s[j].drag
      <4>1. UNCHANGED <<hold, par, pend>> /\ pc # "arm"
        BY <1>2, <3>2 DEF HandOver, ReleaseIf, ReleaseHold, KeepHold, KeepPending
      <4>2. ASSUME NEW k \in Fingers, s[k].active, s[k].drag
            PROVE  s'[k].active /\ s'[k].drag
        BY <1>2, <3>2, <4>2 DEF HandOver
      <4>3. QED
        BY <4>1, <4>2, OwnersKept
    <3>3. QED
      BY <3>1, <3>2
  <2>2. ClickResolved' /\ ArmsTap'
    <3>1. pend' = pend /\ pc = "handover" /\ pc' = "close" /\ fr'.n = fr.n
      BY <1>2 DEF HandOver, KeepPending, TypeOK, FrameOK
    <3>2. QED
      BY <3>1 DEF ClickResolved, ArmsTap
  <2>3. QED
    BY <2>1, <2>2
<1>3. QED
  BY <1>1, <1>2

\* The next session is closed, or the frame's own one opened: no click is armed.
LEMMA HoldCloseNext ==
  ASSUME TypeOK, ClickResolved, NEW k \in 0..3, pc \in {"close", "arm"}, CloseNext(k),
         \A j \in Fingers : pend'[j] => pend[j] \/ fr.n = 0
  PROVE  ClickResolved' /\ ArmsTap'
<1>1. pc' \in {"open", "close"} /\ fr'.n = fr.n
  BY DEF CloseNext, TypeOK, FrameOK
<1>2. QED
  BY <1>1 DEF ClickResolved, ArmsTap

LEMMA HoldClose ==
  ASSUME TypeOK, HoldInv, NEW k \in Fingers, Close(k) PROVE HoldInv'
<1> USE DEF HoldInv
<1>a. pc = "close" /\ fr.k = k /\ k \in 0..3
  BY DEF Close, NothingToClose, AwaitGrace, KeepDrag, FinishDrag, AwaitLift,
         Abandon, SuppressTap, EmitTap, Closing
<1>b. s \in [Fingers -> Session]
  BY DEF TypeOK, SessionOK
<1>1. CASE NothingToClose(k)
  <2>1. UNCHANGED <<hold, par, pend, s>> /\ CloseNext(k)
    BY <1>1 DEF NothingToClose, KeepHold, KeepPending
  <2>2. QED
    BY <1>a, <2>1, OwnersKept, HoldCloseNext
<1>2. CASE AwaitGrace(k) \/ KeepDrag(k) \/ AwaitLift(k)
  <2>1. UNCHANGED <<hold, par, pend>> /\ CloseNext(k)
    BY <1>2 DEF AwaitGrace, KeepDrag, AwaitLift, KeepHold, KeepPending
  <2>2. ASSUME NEW j \in Fingers, s[j].active, s[j].drag
        PROVE  s'[j].active /\ s'[j].drag
    BY <1>2, <1>b, <2>2 DEF AwaitGrace, KeepDrag, AwaitLift, Session
  <2>3. QED
    BY <1>a, <2>1, <2>2, OwnersKept, HoldCloseNext
<1>3. CASE FinishDrag(k) \/ SuppressTap(k)
  <2>1. hold' = 0 /\ pend' = pend /\ CloseNext(k)
    BY <1>3 DEF FinishDrag, SuppressTap, ReleaseHold, KeepPending
  <2>2. QED
    BY <1>a, <2>1, OwnedByNobody, HoldCloseNext
<1>4. CASE Abandon(k)
  <2>1. UNCHANGED <<hold, par>> /\ CloseNext(k) /\ Reset(k) /\ ~s[k].drag
    BY <1>4 DEF Abandon, KeepHold
  <2>2. \A j \in Fingers : pend'[j] <=> pend[j]
    <3>1. CASE k = 1 /\ fr.n # 0
      <4>1. fr.n > 1
        BY <1>4, <3>1 DEF Abandon, TypeOK, FrameOK
      <4>2. ~pend[1]
        BY <1>a, <4>1 DEF ClickResolved
      <4>3. QED
        BY <1>4, <3>1, <4>2 DEF Abandon, Forget
    <3>2. CASE ~(k = 1 /\ fr.n # 0)
      BY <1>4, <3>2 DEF Abandon, Forget
    <3>3. QED
      BY <3>1, <3>2
  <2>3. \A j \in Fingers : s[j].active /\ s[j].drag => s'[j].active /\ s'[j].drag
    BY <1>b, <2>1 DEF Reset
  <2>4. HoldOwned' /\ HoldInForce'
    BY <1>a, <2>1, <2>2, <2>3, OwnersKept
  <2>5. QED
    BY <1>a, <2>1, <2>2, <2>4, HoldCloseNext
<1>5. CASE EmitTap(k)
  <2>1. fr.n = 0 /\ fr' = fr /\ s' = s /\ pend' = pend /\ par' = par /\ ~s[k].drag
        /\ pc' = "arm"
    BY <1>5 DEF EmitTap, TapDetected, KeepPending
  <2>2. ClickResolved' /\ ArmsTap'
    BY <1>a, <2>1 DEF ClickResolved, ArmsTap
  <2>3. CASE k \in par.press
    <3>1. hold' = k
      BY <1>5, <2>3 DEF EmitTap
    <3>2. QED
      BY <1>a, <2>1, <2>2, <2>3, <3>1 DEF HoldOwned, HoldInForce
  <2>4. CASE k \notin par.press
    <3>1. hold' = hold
      BY <1>5, <2>4 DEF EmitTap, KeepHold
    <3>2. QED
      BY <1>a, <2>1, <2>2, <3>1, OwnersKept
  <2>5. QED
    BY <2>3, <2>4
<1>6. QED
  BY <1>1, <1>2, <1>3, <1>4, <1>5 DEF Close

\* The latch of the tap just emitted passes to its deferred click.
LEMMA HoldArmClick == ASSUME TypeOK, HoldInv, ArmClick PROVE HoldInv'
<1> USE DEF HoldInv
<1> DEFINE k == fr.k
<1>1. pc = "arm" /\ k \in Fingers /\ k \in 0..3 /\ fr.n = 0 /\ ~s[k].drag
  BY DEF ArmClick, ArmsTap
<1>2. CloseNext(k) /\ Reset(k) /\ hold' = hold /\ par' = par
  BY DEF ArmClick, KeepHold
<1>3. ClickResolved' /\ ArmsTap'
  BY <1>1, <1>2, HoldCloseNext
<1>4. pend \in [Fingers -> BOOLEAN] /\ s \in [Fingers -> Session]
  BY DEF TypeOK, PendingOK, SessionOK
<1>5. \A j \in Fingers : pend[j] => pend'[j]
  BY <1>4 DEF ArmClick, KeepPending
<1>6. k \in par.press => pend'[k]
  BY <1>1, <1>4 DEF ArmClick, KeepPending
<1>7. \A j \in Fingers : s[j].active /\ s[j].drag => s'[j].active /\ s'[j].drag
  BY <1>1, <1>2, <1>4 DEF Reset
<1>8. HoldOwned' /\ HoldInForce'
  BY <1>1, <1>2, <1>5, <1>6, <1>7 DEF HoldOwned, HoldInForce
<1>9. QED
  BY <1>3, <1>8

\* Any other step of the queue: no click is armed, no frame resolved again.
LEMMA HoldElsewhere ==
  ASSUME pc' \in {"idle", "gate", "report"} PROVE ClickResolved' /\ ArmsTap'
  BY DEF ClickResolved, ArmsTap

LEMMA HoldOpen == ASSUME TypeOK, HoldInv, OpenSession PROVE HoldInv'
<1> USE DEF HoldInv
<1> DEFINE k == fr.n
<1>1. pc = "open" /\ pc' = "report" /\ k \in Fingers /\ ~s[k].active /\ par' = par
  BY DEF OpenSession
<1>2. CASE pend[k] /\ ~SecondTouch(k) /\ hold = k
  BY <1>1, <1>2, OwnedByNobody, HoldElsewhere
     DEF OpenSession, ReleaseIf, ReleaseHold, KeepHold
<1>3. CASE ~(pend[k] /\ ~SecondTouch(k) /\ hold = k)
  <2>1. hold' = hold
    BY <1>3 DEF OpenSession, ReleaseIf, KeepHold, ReleaseHold
  <2>2. \A j \in Fingers \ {k} : s'[j] = s[j] /\ pend'[j] = pend[j]
    BY DEF OpenSession, Forget, TypeOK, SessionOK, PendingOK
  <2>3. hold = k => s'[k].active /\ s'[k].drag
    <3>1. hold = k => SecondTouch(k)
      BY <1>1, <1>3 DEF HoldOwned
    <3>2. s'[k].active /\ s'[k].drag = SecondTouch(k)
      BY <1>1 DEF OpenSession, NoSession, TypeOK, SessionOK
    <3>3. QED
      BY <3>1, <3>2
  <2> HIDE DEF k
  <2>4. HoldOwned'
    BY <1>1, <2>1, <2>2, <2>3 DEF HoldOwned
  <2>5. HoldInForce'
    BY <1>1, <2>1 DEF HoldInForce
  <2>6. QED
    BY <1>1, <2>4, <2>5, HoldElsewhere
<1>4. QED
  BY <1>2, <1>3

LEMMA HoldContinue ==
  ASSUME TypeOK, HoldInv, NoSessionToUpdate \/ ContinueSession \/ ReportFrame
  PROVE  HoldInv'
<1> USE DEF HoldInv
<1>1. UNCHANGED <<hold, par, pend>> /\ pc # "arm" /\ pc' \in {"idle", "report"}
  BY DEF NoSessionToUpdate, ContinueSession, ReportFrame, KeepHold, KeepPending
<1>2. ASSUME NEW j \in Fingers, s[j].active, s[j].drag
      PROVE  s'[j].active /\ s'[j].drag
  BY <1>2 DEF NoSessionToUpdate, ContinueSession, ReportFrame, TypeOK, SessionOK, Session
<1>3. QED
  BY <1>1, <1>2, OwnersKept, HoldElsewhere

LEMMA HoldTimeout == ASSUME TypeOK, HoldInv, Timeout PROVE HoldInv'
<1> USE DEF HoldInv
<1>1. ASSUME NEW k \in Fingers, ClickTimeout(k) PROVE HoldInv'
  <2>1. pc = "idle" /\ UNCHANGED <<pc, s, par>>
    BY <1>1 DEF ClickTimeout
  <2>2. CASE pend[k] /\ hold = k
    BY <1>1, <2>1, <2>2, OwnedByNobody, HoldElsewhere
       DEF ClickTimeout, ReleaseIf, ReleaseHold, KeepHold
  <2>3. CASE ~(pend[k] /\ hold = k)
    <3>1. hold' = hold
      BY <1>1, <2>3 DEF ClickTimeout, ReleaseIf, ReleaseHold, KeepHold
    <3>2. \A j \in Fingers : j # k => pend'[j] = pend[j]
      BY <1>1 DEF ClickTimeout, Forget, TypeOK, PendingOK
    <3>3. HoldOwned' /\ HoldInForce'
      BY <2>1, <2>3, <3>1, <3>2 DEF HoldOwned, HoldInForce
    <3>4. QED
      BY <2>1, <3>3, HoldElsewhere
  <2>4. QED
    BY <2>2, <2>3
<1>2. CASE GraceTimeout
  <2>1. pc = "idle" /\ UNCHANGED <<pc, par, pend>>
    BY <1>2 DEF GraceTimeout, KeepPending
  <2>2. CASE hold' = 0
    BY <2>1, <2>2, OwnedByNobody, HoldElsewhere
  <2>3. CASE hold' # 0
    <3>1. UNCHANGED <<hold, s>>
      BY <1>2, <2>3 DEF GraceTimeout, ReleaseHold, KeepHold
    <3>2. QED
      BY <2>1, <3>1, OwnersKept, HoldElsewhere
  <2>4. QED
    BY <2>2, <2>3
<1>3. QED
  BY <1>1, <1>2 DEF Timeout

LEMMA HoldStep ==
  ASSUME PressFixed, TypeOK, HoldInv, [Next]_vars PROVE HoldInv'
<1> USE DEF HoldInv
<1>1. CASE HandleFrame
  BY <1>1, HoldGate, HoldClose, HoldArmClick, HoldOpen, HoldContinue
     DEF HandleFrame
<1>2. CASE ShowReset
  BY <1>2, OwnedByNobody, HoldElsewhere DEF ShowReset
<1>3. ASSUME NEW f \in Frames, BeginFrame(f) PROVE HoldInv'
  BY <1>3, OwnersKept, HoldElsewhere DEF BeginFrame
<1>4. ASSUME NEW q \in ParamSets, SetParams(q) PROVE HoldInv'
  <2>1. par'.press = par.press
    BY <1>4 DEF SetParams, PressFixed, TypeOK, ControlOK
  <2>2. UNCHANGED <<pc, fr, s, pend, hold>>
    BY <1>4 DEF SetParams
  <2>3. QED
    BY <2>1, <2>2 DEF HoldOwned, HoldInForce, ClickResolved, ArmsTap
<1>5. CASE Tick
  <2>1. pc = "idle" /\ UNCHANGED <<pc, hold, par, pend>>
    BY <1>5 DEF Tick
  <2>2. \A k \in Fingers : s[k].active /\ s[k].drag => s'[k].active /\ s'[k].drag
    BY <1>5, TickFields DEF TypeOK
  <2>3. QED
    BY <2>1, <2>2, OwnersKept, HoldElsewhere
<1>6. CASE UNCHANGED vars
  BY <1>6 DEF vars, HoldOwned, HoldInForce, ClickResolved, ArmsTap
<1>7. QED
  BY <1>1, <1>2, <1>3, <1>4, <1>5, <1>6, HoldTimeout DEF Next, Work

\* As long as no press-and-hold option is switched while the driver runs, a
\* latched button always has someone who will release it.
THEOREM HoldAlwaysOwned == PressFixed => (Spec => []HoldOwned)
<1> SUFFICES ASSUME PressFixed PROVE Spec => []HoldOwned
  OBVIOUS
<1>1. Init => HoldInv
  BY DEF Init, HoldInv, HoldOwned, HoldInForce, ClickResolved, ArmsTap
<1>2. TypeOK /\ HoldInv /\ [Next]_vars => HoldInv'
  BY HoldStep
<1>3. HoldInv => HoldOwned
  BY DEF HoldInv
<1>4. QED
  BY <1>1, <1>2, <1>3, TypeCorrect, PTL DEF Spec

-----------------------------------------------------------------------------
(* The pinch.                                                              *)

\* Only an open two-finger session can pinch.
PinchIsOpen == \A k \in Fingers : s[k].mode = "pinch" => k = 2 /\ s[k].active

\* What the frame in hand knows of the pinch.
PinchKnown ==
  /\ fr.move = "pinch" => fr.n = 2
  /\ fr.started => pc = "report" /\ ~fr.ended
  /\ fr.ended => /\ pc \in {"close", "arm", "open", "report"}
                 /\ fr.n # 2 /\ ~s[2].active
  /\ pc = "arm" => fr.n = 0 /\ fr.k \in Fingers

\* The button is down while a pinch session is open, but for what the frame has
\* still to report.
PinchFollows ==
  s[2].active /\ s[2].mode = "pinch" <=> fr.started \/ (Pinch \in down /\ ~fr.ended)

PinchInv == PinchIsOpen /\ PinchKnown /\ PinchFollows

-----------------------------------------------------------------------------
(* The lift.                                                               *)

\* What may be left of session k without a finger.
Lifted(k) == s[k].active => k = 1 /\ s[k].drag /\ s[k].rel

LiftInv ==
  /\ pc = "idle" /\ prev = 0 => \A k \in Fingers : Lifted(k)
  /\ pc \in {"close", "arm"} =>
       fr.k \in Fingers /\ (fr.n = 0 => \A k \in Fingers : k < fr.k => Lifted(k))
  /\ pc \in {"open", "report"} /\ fr.n = 0 => \A k \in Fingers : Lifted(k)

-----------------------------------------------------------------------------
(* The staged re-entry.                                                    *)

\* No session of fewer fingers is open.
Alone3 == ~s[1].active /\ ~s[2].active

StagedInv ==
  /\ pend[3] => Alone3
  /\ s[3].active /\ ~s[3].drag => Alone3
  /\ pc \in {"handover", "close", "arm", "open"} /\ fr.n \notin {0, 3} => ~pend[3]
  /\ pc \in {"close", "arm", "open"} /\ fr.n = 3 => Alone3
  /\ pc = "open" /\ fr.n < 3 /\ s[3].active /\ ~s[3].drag => s[3].rel
  /\ pc = "arm" => fr.n = 0 /\ fr.k \in Fingers /\ s[fr.k].active /\ ~s[fr.k].drag

-----------------------------------------------------------------------------
(* Drags and deferred clicks.                                              *)

Drags(k) == s[k].active /\ s[k].drag

\* A deferred click belongs to a session that has closed.
PendingIsClosed == \A k \in Fingers : pend[k] => ~s[k].active

\* What the frame has taken over or resolved does not come back while it lasts.
FrameIsSettled ==
  /\ pc \in {"close", "arm", "open"} =>
       \A j \in Fingers : j < fr.n /\ fr.n <= 3 => ~s[j].active
  /\ pc \in {"handover", "close", "arm", "open"} =>
       \A j \in {1, 2} : j < fr.n => ~pend[j]

\* There is one drag at most, and no deferred click of fewer fingers beside it
\* that could open another.
OneDrag == \A i, j \in Fingers : Drags(i) /\ Drags(j) => i = j

NoClickBelow ==
  \A i, j \in Fingers :
    j < i /\ Drags(i) /\ pend[j] => pc \in {"close", "arm"} /\ fr.n = 0

DragInv ==
  /\ PendingIsClosed /\ FrameIsSettled /\ OneDrag /\ NoClickBelow
  /\ fr.move = "swipe" => fr.n = 3
  /\ pc = "arm" => fr.n = 0 /\ fr.k \in Fingers

\* The deferred three-finger click has its button down.
ClickHasButton ==
  /\ pend[3] => hold = 3
  /\ pc = "arm" /\ fr.k = 3 /\ 3 \in par.press => hold = 3

-----------------------------------------------------------------------------
(* What the steps do to the frame and the sessions.                        *)

LEMMA SessionFields ==
  ASSUME TypeOK, NEW k \in Fingers
  PROVE  /\ s[k] \in Session /\ s[k].active \in BOOLEAN /\ s[k].drag \in BOOLEAN
         /\ s[k].rel \in BOOLEAN /\ s[k].mode \in {"none", "scroll", "pinch", "swipe"}
  BY DEF TypeOK, SessionOK, Session

LEMMA NoSessionFields == ~NoSession.active /\ ~NoSession.drag /\ NoSession.mode = "none"
  BY DEF NoSession

LEMMA LiftedKeeps ==
  ASSUME NEW x \in Session, NEW a \in 0..AgeMax,
         NEW y, y = [x EXCEPT !.rel = TRUE, !.relAge = a]
  PROVE  /\ y.active <=> x.active
         /\ y.drag <=> x.drag
         /\ y.mode = x.mode /\ y.rel
  BY DEF Session

LEMMA CandKeeps ==
  ASSUME NEW x \in Session, NEW cand \in BOOLEAN, NEW y, y = [x EXCEPT !.cand = cand]
  PROVE  y.active = x.active /\ y.drag = x.drag /\ y.mode = x.mode
  BY DEF Session

LEMMA CloseNextFields ==
  ASSUME FrameOK, NEW k \in Fingers, CloseNext(k)
  PROVE  /\ pc' = IF k = 3 THEN "open" ELSE "close"
         /\ fr'.n = fr.n /\ fr'.move = fr.move /\ fr'.started = fr.started
         /\ fr'.lead = fr.lead
         /\ fr'.k = IF k = 3 THEN 0 ELSE k + 1
         /\ fr'.ended <=> fr.ended \/ (s[k].mode = "pinch" /\ ~s'[k].active)
<1> DEFINE next == IF k = 3 THEN 0 ELSE k + 1
           ended == fr.ended \/ (s[k].mode = "pinch" /\ ~s'[k].active)
<1>1. fr' = [fr EXCEPT !.k = next, !.ended = ended]
  BY DEF CloseNext
<1>2. ended \in BOOLEAN /\ pc' = IF k = 3 THEN "open" ELSE "close"
  BY DEF CloseNext
<1> HIDE DEF next, ended
<1>3. /\ fr'.n = fr.n /\ fr'.move = fr.move /\ fr'.started = fr.started
      /\ fr'.lead = fr.lead /\ fr'.k = next /\ fr'.ended = ended
  BY <1>1 DEF FrameOK
<1>4. fr'.ended <=> ended
  BY <1>3
<1>5. QED
  BY <1>2, <1>3, <1>4 DEF next, ended

\* Session k goes on without its fingers: a drag in its grace, a drag of several
\* fingers that has some of them left, or a staged lift.
GoesOn(k) ==
  /\ s[k].active /\ s'[k].active
  /\ s'[k].drag <=> s[k].drag
  /\ s'[k].mode = s[k].mode
  /\ \/ k = 1 /\ fr.n = 0 /\ s[k].drag /\ s'[k].rel
     \/ k # 1 /\ fr.n > 0 /\ (s[k].drag \/ s'[k].rel)

\* Session k is closed, or was not to be; the others are left alone.
Closed(k) ==
  /\ CloseNext(k)
  /\ \A j \in Fingers : j # k => s'[j] = s[j]
  /\ \/ s'[k] = s[k] /\ (~s[k].active \/ k = fr.n)
     \/ k # fr.n /\ s'[k] = NoSession
     \/ k # fr.n /\ GoesOn(k)

\* The tap of session k is emitted, its session still open.
Emitted(k) ==
  /\ pc' = "arm" /\ fr' = fr /\ s' = s
  /\ fr.n = 0 /\ s[k].active /\ ~s[k].drag

LEMMA ResetCloses ==
  ASSUME TypeOK, NEW k \in Fingers, Reset(k)
  PROVE  s'[k] = NoSession /\ \A j \in Fingers : j # k => s'[j] = s[j]
  BY DEF TypeOK, SessionOK, Reset

LEMMA LiftGoesOn ==
  ASSUME TypeOK, NEW k \in Fingers, s[k].active,
         s' = IF s[k].rel THEN s ELSE [s EXCEPT ![k].rel = TRUE, ![k].relAge = 0]
  PROVE  /\ s'[k].active /\ s'[k].rel
         /\ s'[k].drag <=> s[k].drag
         /\ s'[k].mode = s[k].mode
         /\ \A j \in Fingers : j # k => s'[j] = s[j]
<1>1. CASE s[k].rel
  BY <1>1
<1>2. CASE ~s[k].rel
  <2>1. s[k] \in Session /\ 0 \in 0..AgeMax
    BY SessionFields
  <2>2. /\ s'[k] = [s[k] EXCEPT !.rel = TRUE, !.relAge = 0]
        /\ \A j \in Fingers : j # k => s'[j] = s[j]
    BY <1>2 DEF TypeOK, SessionOK
  <2>3. PICK a \in 0..AgeMax : s'[k] = [s[k] EXCEPT !.rel = TRUE, !.relAge = a]
    BY <2>1, <2>2
  <2>4. /\ s'[k].active <=> s[k].active
        /\ s'[k].drag <=> s[k].drag
        /\ s'[k].mode = s[k].mode /\ s'[k].rel
    BY <2>1, <2>3, LiftedKeeps
  <2>5. QED
    BY <2>2, <2>3, <2>4
<1>3. QED
  BY <1>1, <1>2

LEMMA CloseEffect ==
  ASSUME TypeOK, NEW k \in Fingers, Close(k)
  PROVE  /\ pc = "close" /\ fr.k = k /\ prev' = prev
         /\ Pinch \in down' <=> Pinch \in down
         /\ \A j \in Fingers : pend'[j] => pend[j]
         /\ Closed(k) \/ Emitted(k)
<1>1. pc = "close" /\ fr.k = k /\ prev' = prev
  BY DEF Close, NothingToClose, AwaitGrace, KeepDrag, FinishDrag, AwaitLift,
         Abandon, SuppressTap, EmitTap, Closing
<1>2. Pinch \in down' <=> Pinch \in down
  <2>1. hold \in 0..3
    BY DEF TypeOK, HoldOK
  <2>2. QED
    BY <2>1 DEF Close, NothingToClose, AwaitGrace, KeepDrag, FinishDrag, AwaitLift,
           Abandon, SuppressTap, EmitTap, KeepHold, ReleaseHold
<1>3. \A j \in Fingers : pend'[j] => pend[j]
  BY DEF Close, NothingToClose, AwaitGrace, KeepDrag, FinishDrag, AwaitLift,
         Abandon, SuppressTap, EmitTap, KeepPending, Forget
<1>4. CASE NothingToClose(k)
  BY <1>1, <1>2, <1>3, <1>4 DEF NothingToClose, Closed
<1>5. CASE AwaitGrace(k)
  <2>1. s' = IF s[k].rel THEN s ELSE [s EXCEPT ![k].rel = TRUE, ![k].relAge = 0]
    BY <1>5 DEF AwaitGrace
  <2>2. CloseNext(k) /\ s[k].active /\ k # fr.n /\ k = 1 /\ fr.n = 0 /\ s[k].drag
    BY <1>5 DEF AwaitGrace, InGrace
  <2>3. Closed(k)
    BY <2>1, <2>2, LiftGoesOn DEF Closed, GoesOn
  <2>4. QED
    BY <1>1, <1>2, <1>3, <2>3
<1>6. CASE KeepDrag(k)
  <2>1. /\ CloseNext(k) /\ s[k].active /\ k # fr.n /\ k # 1 /\ fr.n > 0 /\ s[k].drag
        /\ s' = [s EXCEPT ![k].cand = FALSE]
    BY <1>6 DEF KeepDrag
  <2>2. PICK cand \in BOOLEAN : s' = [s EXCEPT ![k].cand = cand]
    BY <2>1
  <2>3. /\ s'[k] = [s[k] EXCEPT !.cand = cand]
        /\ \A j \in Fingers : j # k => s'[j] = s[j]
    BY <2>2 DEF TypeOK, SessionOK
  <2>4. s'[k].active = s[k].active /\ s'[k].drag = s[k].drag /\ s'[k].mode = s[k].mode
    BY <2>3, SessionFields, CandKeeps
  <2>5. Closed(k)
    BY <2>1, <2>3, <2>4 DEF Closed, GoesOn
  <2>6. QED
    BY <1>1, <1>2, <1>3, <2>5
<1>7. CASE FinishDrag(k) \/ Abandon(k) \/ SuppressTap(k)
  <2>1. CloseNext(k) /\ k # fr.n /\ Reset(k)
    BY <1>7 DEF FinishDrag, Abandon, SuppressTap
  <2>2. Closed(k)
    BY <2>1, ResetCloses DEF Closed
  <2>3. QED
    BY <1>1, <1>2, <1>3, <2>2
<1>8. CASE AwaitLift(k)
  <2>1. /\ CloseNext(k) /\ s[k].active /\ k # fr.n /\ k # 1 /\ fr.n > 0
        /\ s' = IF s[k].rel THEN s ELSE [s EXCEPT ![k].rel = TRUE, ![k].relAge = 0]
    BY <1>8 DEF AwaitLift, StagedLift
  <2>2. Closed(k)
    BY <2>1, LiftGoesOn DEF Closed, GoesOn
  <2>3. QED
    BY <1>1, <1>2, <1>3, <2>2
<1>9. CASE EmitTap(k)
  <2>1. Emitted(k)
    BY <1>9 DEF EmitTap, TapDetected, Emitted
  <2>2. QED
    BY <1>1, <1>2, <1>3, <2>1
<1>10. QED
  BY <1>4, <1>5, <1>6, <1>7, <1>8, <1>9 DEF Close

LEMMA ArmEffect ==
  ASSUME TypeOK, ArmClick, fr.n = 0, fr.k \in Fingers
  PROVE  /\ pc = "arm" /\ prev' = prev /\ down' = down
         /\ Closed(fr.k) /\ s'[fr.k] = NoSession
         /\ \A j \in Fingers : pend'[j] => pend[j] \/ j = fr.k
<1>1. pc = "arm" /\ prev' = prev /\ down' = down /\ Reset(fr.k) /\ CloseNext(fr.k)
  BY DEF ArmClick, KeepHold
<1>2. s'[fr.k] = NoSession /\ \A j \in Fingers : j # fr.k => s'[j] = s[j]
  BY <1>1, ResetCloses
<1>3. Closed(fr.k)
  BY <1>1, <1>2 DEF Closed
<1>4. \A j \in Fingers : pend'[j] => pend[j] \/ j = fr.k
  BY DEF ArmClick, KeepPending, TypeOK, PendingOK
<1>5. QED
  BY <1>1, <1>2, <1>3, <1>4

LEMMA OpenEffect ==
  ASSUME TypeOK, OpenSession
  PROVE  LET k == fr.n
         IN  /\ pc = "open" /\ pc' = "report" /\ fr' = fr /\ prev' = prev
             /\ Pinch \in down' <=> Pinch \in down
             /\ \A j \in Fingers : pend'[j] => pend[j]
             /\ k \in Fingers /\ ~Blocked /\ ~s[k].active /\ s'[k].active
             /\ s'[k].mode \in {"none", "swipe"}
             /\ s'[k].mode = "swipe" => fr.move = "swipe" /\ ~SecondTouch(k)
             /\ s'[k].drag => SecondTouch(k)
             /\ s'[k].cand => SecondTouch(k) \/ prev = 0 \/ RecentZero \/ fr.lead
             /\ SecondTouch(k) => s'[k].drag
             /\ ~s'[k].rel /\ s'[k].age = 0
             /\ hold' = IF pend[k] /\ ~SecondTouch(k) /\ hold = k THEN 0 ELSE hold
             /\ ~pend'[k]
             /\ \A j \in Fingers : j # k => s'[j] = s[j]
<1> DEFINE k == fr.n
           drag == SecondTouch(k)
           cand == \/ SecondTouch(k) \/ prev = 0
                   \/ RecentZero \/ fr.lead
           mode == IF SwipesAtOnce(k) THEN "swipe" ELSE "none"
           new  == [NoSession EXCEPT !.active = TRUE, !.drag = drag,
                                     !.cand = cand, !.mode = mode]
<1>1. pc = "open" /\ pc' = "report" /\ fr' = fr /\ prev' = prev /\ k \in Fingers
      /\ ~Blocked /\ ~s[k].active
  BY DEF OpenSession
<1>2. Pinch \in down' <=> Pinch \in down
  BY DEF OpenSession, ReleaseIf, ReleaseHold, KeepHold, TypeOK, HoldOK
<1>3. \A j \in Fingers : pend'[j] => pend[j]
  BY DEF OpenSession, Forget
<1>4. s' = [s EXCEPT ![k] = new]
  BY DEF OpenSession
<1>5. /\ mode \in {"none", "swipe"}
      /\ mode = "swipe" => fr.move = "swipe" /\ ~SecondTouch(k)
      /\ drag <=> SecondTouch(k)
      /\ cand => SecondTouch(k) \/ prev = 0 \/ RecentZero \/ fr.lead
  BY DEF SwipesAtOnce
<1>6. hold' = IF pend[k] /\ ~SecondTouch(k) /\ hold = k THEN 0 ELSE hold
  BY DEF OpenSession, ReleaseIf, ReleaseHold, KeepHold
<1>7. ~pend'[k]
  BY <1>1 DEF OpenSession, Forget
<1> HIDE DEF drag, cand, mode
<1>8. new.active /\ new.mode = mode /\ new.drag = drag /\ new.cand = cand
      /\ ~new.rel /\ new.age = 0
  BY DEF NoSession
<1> HIDE DEF new
<1>9. s'[k] = new /\ \A j \in Fingers : j # k => s'[j] = s[j]
  BY <1>1, <1>4 DEF TypeOK, SessionOK
<1>10. QED
  BY <1>1, <1>2, <1>3, <1>5, <1>6, <1>7, <1>8, <1>9

LEMMA ContinueEffect ==
  ASSUME TypeOK, ContinueSession
  PROVE  LET k == fr.n
         IN  /\ pc = "open" /\ pc' = "report" /\ prev' = prev
             /\ down' = down /\ pend' = pend /\ hold' = hold
             /\ fr'.n = fr.n /\ fr'.move = fr.move /\ fr'.lead = fr.lead
             /\ fr'.ended <=> fr.ended
             /\ fr'.started <=> Decides(k) /\ fr.move = "pinch"
             /\ k \in Fingers /\ s[k].active /\ s'[k].active
             /\ s'[k].drag <=> s[k].drag
             /\ s'[k].cand => s[k].cand
             /\ ~s'[k].rel /\ s'[k].age = s[k].age
             /\ s'[k].mode = IF Decides(k) THEN fr.move ELSE s[k].mode
             /\ \A j \in Fingers : j # k => s'[j] = s[j]
<1> DEFINE k == fr.n
           cand == s[k].cand /\ s[k].age <= TapLimit(k, s[k].drag) /\ ~Moved(k)
           mode == IF Decides(k) THEN fr.move ELSE s[k].mode
           new  == [s[k] EXCEPT !.rel = FALSE, !.relAge = 0,
                                !.cand = cand, !.mode = mode]
           starts == Decides(k) /\ fr.move = "pinch"
<1>1. pc = "open" /\ pc' = "report" /\ prev' = prev /\ down' = down /\ pend' = pend
      /\ hold' = hold /\ k \in Fingers /\ s[k].active
  BY DEF ContinueSession, KeepHold, KeepPending
<1>2. s' = [s EXCEPT ![k] = new] /\ fr' = [fr EXCEPT !.started = starts]
  BY <1>1 DEF ContinueSession, TypeOK, SessionOK
<1>3. s[k] \in Session /\ starts \in BOOLEAN /\ (cand => s[k].cand)
  BY <1>1, SessionFields
<1> HIDE DEF cand, mode, starts
<1>4. /\ fr'.n = fr.n /\ fr'.move = fr.move /\ fr'.lead = fr.lead
      /\ fr'.ended = fr.ended /\ fr'.started = starts
  BY <1>2 DEF TypeOK, FrameOK
<1>5. /\ new.active <=> s[k].active
      /\ new.drag <=> s[k].drag
      /\ new.cand = cand /\ ~new.rel /\ new.age = s[k].age
      /\ new.mode = mode
  BY <1>3 DEF Session
<1> HIDE DEF new
<1>6. s'[k] = new /\ \A j \in Fingers : j # k => s'[j] = s[j]
  BY <1>1, <1>2 DEF TypeOK, SessionOK
<1>7. fr'.started <=> Decides(k) /\ fr.move = "pinch"
  BY <1>4 DEF starts
<1>8. s'[k].mode = IF Decides(k) THEN fr.move ELSE s[k].mode
  BY <1>5, <1>6 DEF mode
<1>9. QED
  BY <1>1, <1>3, <1>4, <1>5, <1>6, <1>7, <1>8

LEMMA HandOverEffect ==
  ASSUME TypeOK, HandOver
  PROVE  /\ pc = "handover" /\ pc' = "close" /\ prev' = prev /\ pend' = pend
         /\ Pinch \in down' <=> Pinch \in down
         /\ fr'.n = fr.n /\ fr'.move = fr.move /\ fr'.started = fr.started /\ fr'.k = 1
         /\ fr'.ended <=> 2 \in TakenOver /\ s[2].mode = "pinch"
         /\ fr'.lead <=> \E j \in TakenOver : LeadsTap(j)
         /\ \A j \in Fingers : s'[j] = IF j \in TakenOver THEN NoSession ELSE s[j]
<1> DEFINE leads == \E j \in TakenOver : LeadsTap(j)
           ends  == 2 \in TakenOver /\ s[2].mode = "pinch"
<1>1. pc = "handover" /\ pc' = "close" /\ prev' = prev /\ pend' = pend
  BY DEF HandOver, KeepPending
<1>2. Pinch \in down' <=> Pinch \in down
  BY DEF HandOver, ReleaseIf, ReleaseHold, KeepHold, TypeOK, HoldOK
<1>3. fr' = [fr EXCEPT !.k = 1, !.lead = leads, !.ended = ends]
  BY DEF HandOver
<1>4. \A j \in Fingers : s'[j] = IF j \in TakenOver THEN NoSession ELSE s[j]
  BY DEF HandOver
<1> HIDE DEF leads, ends
<1>5. /\ fr'.n = fr.n /\ fr'.move = fr.move /\ fr'.started = fr.started
      /\ fr'.k = 1 /\ fr'.ended = ends /\ fr'.lead = leads
  BY <1>3 DEF TypeOK, FrameOK
<1>6. /\ fr'.ended <=> 2 \in TakenOver /\ s[2].mode = "pinch"
      /\ fr'.lead <=> \E j \in TakenOver : LeadsTap(j)
  BY <1>5 DEF ends, leads
<1>7. QED
  BY <1>1, <1>2, <1>4, <1>5, <1>6

LEMMA TickModes ==
  ASSUME TypeOK, Tick, NEW k \in Fingers
  PROVE  s'[k].mode = s[k].mode
<1>1. PICK a \in 0..AgeMax, b \in 0..AgeMax :
        s'[k] = [s[k] EXCEPT !.age = a, !.relAge = b]
  BY TickSession DEF TypeOK
<1>2. QED
  BY <1>1, SessionFields DEF Session

LEMMA BeginEffect ==
  ASSUME NEW f \in Frames, BeginFrame(f)
  PROVE  /\ pc = "idle" /\ pc' = "gate" /\ fr'.n = f.n /\ fr'.move = f.move
         /\ ~fr'.started /\ ~fr'.ended
         /\ UNCHANGED <<s, pend, down, prev>>
         /\ f.move = "pinch" => f.n = 2
<1>1. f.move = "pinch" => f.n = 2
  BY DEF Frames, Moves
<1>2. QED
  BY <1>1 DEF BeginFrame, Handling

-----------------------------------------------------------------------------
(* PinchReported.                                                          *)

LEMMA PinchClose ==
  ASSUME TypeOK, PinchInv, NEW k \in Fingers, pc \in {"close", "arm"}, Closed(k),
         Pinch \in down' <=> Pinch \in down
  PROVE  PinchInv'
<1> USE DEF PinchInv
<1>1. /\ pc' \in {"open", "close"} /\ fr'.n = fr.n /\ fr'.move = fr.move
      /\ fr'.started = fr.started
      /\ fr'.ended <=> fr.ended \/ (s[k].mode = "pinch" /\ ~s'[k].active)
  BY CloseNextFields DEF Closed, TypeOK
<1>2. ~fr.started
  BY DEF PinchKnown
<1>3. PinchIsOpen'
  BY NoSessionFields DEF PinchIsOpen, Closed, GoesOn
<1>4. fr'.ended => fr'.n # 2 /\ ~s'[2].active
  <2>1. CASE fr.ended
    BY <1>1, <2>1, NoSessionFields DEF PinchKnown, Closed, GoesOn
  <2>2. CASE s[k].mode = "pinch" /\ ~s'[k].active
    BY <1>1, <2>2, NoSessionFields DEF PinchIsOpen, Closed, GoesOn
  <2>3. QED
    BY <1>1, <2>1, <2>2
<1>5. PinchKnown'
  BY <1>1, <1>2, <1>4 DEF PinchKnown
<1>6. PinchFollows'
  BY <1>1, <1>2, NoSessionFields DEF PinchFollows, PinchIsOpen, PinchKnown, Closed, GoesOn
<1>7. QED
  BY <1>3, <1>5, <1>6

LEMMA PinchUntouched ==
  ASSUME PinchInv, UNCHANGED <<pc, fr>>, Pinch \in down' <=> Pinch \in down,
         \A j \in Fingers : (s'[j].active <=> s[j].active) /\ s'[j].mode = s[j].mode
  PROVE  PinchInv'
  BY DEF PinchInv, PinchIsOpen, PinchKnown, PinchFollows

LEMMA PinchOpen ==
  ASSUME TypeOK, PinchInv, OpenSession \/ ContinueSession \/ NoSessionToUpdate
  PROVE  PinchInv'
<1> USE DEF PinchInv
<1>1. CASE OpenSession
  BY <1>1, OpenEffect DEF PinchIsOpen, PinchKnown, PinchFollows
<1>2. CASE ContinueSession
  <2> DEFINE k == fr.n
  <2>1. s'[k].mode = "pinch" => k = 2 /\ s'[k].active
    BY <1>2, ContinueEffect DEF PinchIsOpen, PinchKnown
  <2>2. PinchIsOpen'
    BY <1>2, <2>1, ContinueEffect DEF PinchIsOpen
  <2>3. CASE k = 2
    <3>1. ~fr.ended /\ ~fr'.ended
      BY <1>2, <2>3, ContinueEffect DEF PinchKnown
    <3>2. QED
      BY <1>2, <2>2, <2>3, <3>1, ContinueEffect DEF PinchKnown, PinchFollows, Decides
  <2>4. CASE k # 2
    <3>1. ~fr'.started /\ ~fr.started /\ s'[2] = s[2]
      BY <1>2, <2>4, ContinueEffect DEF PinchKnown
    <3>2. QED
      BY <1>2, <2>2, <2>4, <3>1, ContinueEffect DEF PinchKnown, PinchFollows
  <2>5. QED
    BY <2>3, <2>4
<1>3. CASE NoSessionToUpdate
  BY <1>3 DEF NoSessionToUpdate, KeepHold, PinchIsOpen, PinchKnown, PinchFollows
<1>4. QED
  BY <1>1, <1>2, <1>3

LEMMA PinchFrame ==
  ASSUME TypeOK, PinchInv, ResolvePending \/ HandOver \/ ReportFrame
  PROVE  PinchInv'
<1> USE DEF PinchInv
<1>1. CASE ResolvePending
  <2>1. Pinch \in down' <=> Pinch \in down
    BY <1>1 DEF ResolvePending, ReleaseIf, ReleaseHold, KeepHold, TypeOK, HoldOK
  <2>2. pc = "gate" /\ pc' \in {"report", "handover"} /\ UNCHANGED <<fr, s>>
    BY <1>1 DEF ResolvePending
  <2>3. QED
    BY <2>1, <2>2 DEF PinchIsOpen, PinchKnown, PinchFollows
<1>2. CASE HandOver
  <2>1. ~fr.started /\ ~fr.ended /\ ~fr'.started
    BY <1>2, HandOverEffect DEF PinchKnown
  <2>2. PinchIsOpen'
    BY <1>2, HandOverEffect, NoSessionFields DEF PinchIsOpen
  <2>3. fr'.ended => fr'.n # 2 /\ ~s'[2].active
    BY <1>2, HandOverEffect, NoSessionFields DEF TakenOver
  <2>4. PinchKnown'
    BY <1>2, <2>1, <2>3, HandOverEffect DEF PinchKnown
  <2>5. PinchFollows'
    <3>1. CASE 2 \in TakenOver
      BY <1>2, <2>1, <3>1, HandOverEffect, NoSessionFields DEF PinchFollows, TakenOver
    <3>2. CASE 2 \notin TakenOver
      BY <1>2, <2>1, <3>2, HandOverEffect DEF PinchFollows
    <3>3. QED
      BY <3>1, <3>2
  <2>6. QED
    BY <2>2, <2>4, <2>5
<1>3. CASE ReportFrame
  <2>1. /\ pc' = "idle" /\ fr' = NoFrame /\ s' = s
        /\ down' = IF fr.ended THEN down \ {Pinch}
                   ELSE IF fr.started THEN down \cup {Pinch} ELSE down
    BY <1>3 DEF ReportFrame
  <2>2. ~fr'.started /\ ~fr'.ended /\ fr'.move = "still"
    BY <2>1 DEF NoFrame, Handling
  <2>3. PinchIsOpen' /\ PinchKnown'
    BY <2>1, <2>2 DEF PinchIsOpen, PinchKnown
  <2>4. PinchFollows'
    BY <2>1, <2>2 DEF PinchFollows, PinchKnown
  <2>5. QED
    BY <2>3, <2>4
<1>4. QED
  BY <1>1, <1>2, <1>3

LEMMA PinchElsewhere ==
  ASSUME TypeOK, PinchInv,
         \/ \E f \in Frames : BeginFrame(f)
         \/ Timeout \/ ShowReset \/ Tick
         \/ \E q \in ParamSets : SetParams(q)
  PROVE  PinchInv'
<1>a. hold \in 0..3
  BY DEF TypeOK, HoldOK
<1>1. CASE \E f \in Frames : BeginFrame(f)
  BY <1>1, BeginEffect DEF PinchInv, PinchIsOpen, PinchKnown, PinchFollows
<1>2. CASE Timeout
  <2>1. ASSUME NEW k \in Fingers, ClickTimeout(k) PROVE PinchInv'
    BY <1>a, <2>1, PinchUntouched DEF ClickTimeout, ReleaseIf, ReleaseHold, KeepHold
  <2>2. CASE GraceTimeout
    <3>1. UNCHANGED <<pc, fr>> /\ (Pinch \in down' <=> Pinch \in down)
      BY <1>a, <2>2 DEF GraceTimeout, ReleaseHold, KeepHold
    <3>2. s' = s \/ (s'[1] = NoSession /\ \A j \in Fingers : j # 1 => s'[j] = s[j])
      BY <2>2, ResetCloses DEF GraceTimeout
    <3>3. QED
      BY <3>1, <3>2, NoSessionFields DEF PinchInv, PinchIsOpen, PinchKnown, PinchFollows
  <2>3. QED
    BY <1>2, <2>1, <2>2 DEF Timeout
<1>3. CASE ShowReset
  <2>1. /\ pc = "idle" /\ UNCHANGED <<pc, fr>> /\ \A k \in Fingers : s'[k] = NoSession
        /\ s[2].active /\ s[2].mode = "pinch" => Pinch \notin down'
        /\ Pinch \in down' => Pinch \in down
    BY <1>3 DEF ShowReset
  <2>2. QED
    BY <2>1, NoSessionFields DEF PinchInv, PinchIsOpen, PinchKnown, PinchFollows
<1>4. CASE Tick
  <2>1. UNCHANGED <<pc, fr, down>>
    BY <1>4 DEF Tick
  <2>2. ASSUME NEW j \in Fingers
        PROVE  (s'[j].active <=> s[j].active) /\ s'[j].mode = s[j].mode
    BY <1>4, TickFields, TickModes DEF TypeOK
  <2>3. QED
    BY <2>1, <2>2, PinchUntouched
<1>5. CASE \E q \in ParamSets : SetParams(q)
  BY <1>5, PinchUntouched DEF SetParams
<1>6. QED
  BY <1>1, <1>2, <1>3, <1>4, <1>5

LEMMA PinchStep == TypeOK /\ PinchInv /\ [Next]_vars => PinchInv'
<1> SUFFICES ASSUME TypeOK, PinchInv, [Next]_vars PROVE PinchInv'
  OBVIOUS
<1>1. ASSUME NEW k \in Fingers, Close(k) PROVE PinchInv'
  <2>1. CASE Closed(k)
    BY <1>1, <2>1, CloseEffect, PinchClose
  <2>2. CASE Emitted(k)
    <3>1. pc = "close" /\ fr.k = k /\ (Pinch \in down' <=> Pinch \in down)
      BY <1>1, CloseEffect
    <3>2. QED
      BY <2>2, <3>1 DEF Emitted, PinchInv, PinchIsOpen, PinchKnown, PinchFollows
  <2>3. QED
    BY <1>1, <2>1, <2>2, CloseEffect
<1>2. CASE ArmClick
  <2>1. fr.n = 0 /\ fr.k \in Fingers
    BY <1>2 DEF ArmClick, PinchInv, PinchKnown
  <2>2. QED
    BY <1>2, <2>1, ArmEffect, PinchClose
<1>3. CASE HandleFrame
  BY <1>1, <1>2, <1>3, PinchOpen, PinchFrame DEF HandleFrame
<1>4. CASE UNCHANGED vars
  BY <1>4, PinchUntouched DEF vars
<1>5. QED
  BY <1>3, <1>4, PinchElsewhere DEF Next, Work

\* Between frames the host sees the pinch button down exactly while a pinch
\* session is open: each pinch that starts is reported to end, however it ends.
THEOREM PinchAlwaysReported == Spec => []PinchReported
<1>1. Init => PinchInv
  BY NoSessionFields
     DEF Init, PinchInv, PinchIsOpen, PinchKnown, PinchFollows, NoFrame, Handling
<1>2. PinchInv => PinchReported
  BY DEF PinchInv, PinchKnown, PinchFollows, PinchReported
<1>3. QED
  BY <1>1, <1>2, TypeCorrect, PinchStep, PTL DEF Spec

-----------------------------------------------------------------------------
(* LiftClosesSessions.                                                     *)

LEMMA LiftClose ==
  ASSUME TypeOK, LiftInv, NEW k \in Fingers, fr.k = k, pc \in {"close", "arm"},
         Closed(k)
  PROVE  LiftInv'
<1>1. /\ pc' = IF k = 3 THEN "open" ELSE "close"
      /\ fr'.n = fr.n /\ fr'.k = IF k = 3 THEN 0 ELSE k + 1
  BY CloseNextFields DEF Closed, TypeOK
<1>2. ASSUME fr.n = 0 PROVE \A j \in Fingers : j <= k => Lifted(j)'
  <2>1. \A j \in Fingers : j < k => Lifted(j)'
    BY <1>2 DEF LiftInv, Closed, Lifted
  <2>2. Lifted(k)'
    BY <1>2, NoSessionFields DEF Closed, GoesOn, Lifted
  <2>3. QED
    BY <2>1, <2>2
<1>3. CASE k = 3
  BY <1>1, <1>2, <1>3 DEF LiftInv
<1>4. CASE k # 3
  BY <1>1, <1>2, <1>4 DEF LiftInv
<1>5. QED
  BY <1>3, <1>4

LEMMA LiftUntouched ==
  ASSUME LiftInv, UNCHANGED <<pc, fr, prev>>,
         \A j \in Fingers : /\ s'[j].active <=> s[j].active
                            /\ s'[j].drag <=> s[j].drag
                            /\ s'[j].rel <=> s[j].rel
  PROVE  LiftInv'
  BY DEF LiftInv, Lifted

LEMMA LiftFrame ==
  ASSUME TypeOK, LiftInv, HandleFrame PROVE LiftInv'
<1>1. ASSUME NEW k \in Fingers, Close(k) PROVE LiftInv'
  <2>1. CASE Closed(k)
    BY <1>1, <2>1, CloseEffect, LiftClose
  <2>2. CASE Emitted(k)
    BY <1>1, <2>2, CloseEffect DEF Emitted, LiftInv, Lifted
  <2>3. QED
    BY <1>1, <2>1, <2>2, CloseEffect
<1>2. CASE ArmClick
  <2>1. fr.k \in Fingers /\ pc = "arm" /\ s'[fr.k] = NoSession
        /\ CloseNext(fr.k) /\ \A j \in Fingers : j # fr.k => s'[j] = s[j]
    BY <1>2, ResetCloses DEF ArmClick, LiftInv
  <2>2. /\ pc' = IF fr.k = 3 THEN "open" ELSE "close"
        /\ fr'.n = fr.n /\ fr'.k = IF fr.k = 3 THEN 0 ELSE fr.k + 1
    BY <2>1, CloseNextFields DEF TypeOK
  <2>3. ASSUME fr.n = 0 PROVE \A j \in Fingers : j <= fr.k => Lifted(j)'
    BY <2>1, <2>3, NoSessionFields DEF LiftInv, Lifted
  <2>4. CASE fr.k = 3
    BY <2>2, <2>3, <2>4 DEF LiftInv
  <2>5. CASE fr.k # 3
    BY <2>1, <2>2, <2>3, <2>5 DEF LiftInv
  <2>6. QED
    BY <2>4, <2>5
<1>3. CASE ResolvePending
  BY <1>3 DEF ResolvePending, StagedReentry, LiftInv
<1>4. CASE HandOver
  <2>1. pc' = "close" /\ fr'.k = 1
    BY <1>4, HandOverEffect
  <2>2. QED
    BY <2>1 DEF LiftInv
<1>5. CASE OpenSession
  BY <1>5, OpenEffect DEF LiftInv
<1>6. CASE ContinueSession
  BY <1>6, ContinueEffect DEF LiftInv
<1>7. CASE NoSessionToUpdate
  BY <1>7 DEF NoSessionToUpdate, LiftInv, Lifted
<1>8. CASE ReportFrame
  BY <1>8 DEF ReportFrame, LiftInv, Lifted
<1>9. QED
  BY <1>1, <1>2, <1>3, <1>4, <1>5, <1>6, <1>7, <1>8 DEF HandleFrame

LEMMA LiftStep == TypeOK /\ LiftInv /\ [Next]_vars => LiftInv'
<1> SUFFICES ASSUME TypeOK, LiftInv, [Next]_vars PROVE LiftInv'
  OBVIOUS
<1>1. CASE HandleFrame
  BY <1>1, LiftFrame
<1>2. ASSUME NEW f \in Frames, BeginFrame(f) PROVE LiftInv'
  BY <1>2 DEF BeginFrame, LiftInv
<1>3. ASSUME NEW k \in Fingers, ClickTimeout(k) PROVE LiftInv'
  BY <1>3, LiftUntouched DEF ClickTimeout
<1>4. CASE GraceTimeout
  <2>1. UNCHANGED <<pc, fr, prev>> /\ pc = "idle"
    BY <1>4 DEF GraceTimeout
  <2>2. s' = s \/ (s'[1] = NoSession /\ \A j \in Fingers : j # 1 => s'[j] = s[j])
    BY <1>4, ResetCloses DEF GraceTimeout
  <2>3. QED
    BY <2>1, <2>2, NoSessionFields DEF LiftInv, Lifted
<1>5. CASE ShowReset
  BY <1>5, NoSessionFields DEF ShowReset, LiftInv, Lifted
<1>6. CASE Tick
  <2>1. UNCHANGED <<pc, fr, prev>>
    BY <1>6 DEF Tick
  <2>2. QED
    BY <1>6, <2>1, TickFields, LiftUntouched DEF TypeOK
<1>7. ASSUME NEW q \in ParamSets, SetParams(q) PROVE LiftInv'
  BY <1>7, LiftUntouched DEF SetParams
<1>8. CASE UNCHANGED vars
  BY <1>8, LiftUntouched DEF vars
<1>9. QED
  BY <1>1, <1>2, <1>3, <1>4, <1>5, <1>6, <1>7, <1>8 DEF Next, Work, Timeout

LEMMA LiftHolds == Spec => []LiftInv
<1>1. Init => LiftInv
  BY NoSessionFields DEF Init, LiftInv, Lifted
<1>2. QED
  BY <1>1, TypeCorrect, LiftStep, PTL DEF Spec

\* When the last finger has lifted and its frame is handled, no session is open
\* but a one-finger drag in its grace.
THEOREM LiftAlwaysCloses == Spec => []LiftClosesSessions
<1>1. LiftInv => LiftClosesSessions
  BY DEF LiftInv, Lifted, LiftClosesSessions
<1>2. QED
  BY <1>1, LiftHolds, PTL

-----------------------------------------------------------------------------
(* StagedReentryAlone.                                                     *)

LEMMA StagedUntouched ==
  ASSUME StagedInv, UNCHANGED <<pc, fr>>, pend'[3] => pend[3],
         \A j \in Fingers : /\ s'[j].active <=> s[j].active
                            /\ s'[j].drag <=> s[j].drag
                            /\ s'[j].rel <=> s[j].rel
  PROVE  StagedInv'
  BY DEF StagedInv, Alone3

LEMMA ForgetKeeps ==
  ASSUME NEW K, Forget(K), NEW j \in Fingers, pend'[j] PROVE pend[j] /\ j \notin K
  BY DEF Forget

LEMMA StagedClose ==
  ASSUME TypeOK, StagedInv, NEW k \in Fingers, fr.k = k, pc \in {"close", "arm"},
         Closed(k), pend'[3] => pend[3] \/ (pc = "arm" /\ k = 3)
  PROVE  StagedInv'
<1>1. pc' \in {"open", "close"} /\ (pc' = "open" => k = 3) /\ fr'.n = fr.n
  BY CloseNextFields DEF Closed, TypeOK
<1>2. \A j \in Fingers : s'[j].active => s[j].active
  BY NoSessionFields DEF Closed, GoesOn
<1>3. s'[3].active => (s'[3].drag <=> s[3].drag)
  BY NoSessionFields DEF Closed, GoesOn
<1>4. Alone3 => Alone3'
  BY <1>2 DEF Alone3
<1>5. pend'[3] => Alone3'
  BY <1>4 DEF StagedInv
<1>6. s'[3].active /\ ~s'[3].drag => Alone3'
  BY <1>2, <1>3, <1>4 DEF StagedInv
<1>7. fr.n \notin {0, 3} => ~pend'[3]
  BY DEF StagedInv
<1>8. k = 3 /\ fr.n < 3 /\ s'[3].active /\ ~s'[3].drag => s'[3].rel
  BY <1>2, <1>3, NoSessionFields DEF Closed, GoesOn
<1>9. QED
  BY <1>1, <1>4, <1>5, <1>6, <1>7, <1>8 DEF StagedInv

LEMMA StagedOpen ==
  ASSUME TypeOK, StagedInv, OpenSession PROVE StagedInv'
<1> DEFINE k == fr.n
<1>1. /\ pc = "open" /\ pc' = "report" /\ k \in Fingers /\ ~Blocked
      /\ pend'[3] => pend[3]
      /\ \A j \in Fingers : j # k => s'[j] = s[j]
  BY OpenEffect
<1>2. CASE k = 3
  BY <1>1, <1>2 DEF StagedInv, Alone3
<1>3. CASE k # 3
  <2>1. ~pend[3]
    BY <1>1, <1>3 DEF StagedInv
  <2>2. ~(s[3].active /\ s[3].rel)
    BY <1>1, <1>3 DEF Blocked
  <2>3. ~(s[3].active /\ ~s[3].drag)
    BY <1>1, <1>3, <2>2 DEF StagedInv
  <2>4. QED
    BY <1>1, <1>3, <2>1, <2>3 DEF StagedInv
<1>4. QED
  BY <1>2, <1>3

LEMMA StagedFrame ==
  ASSUME TypeOK, StagedInv, HandleFrame PROVE StagedInv'
<1>1. ASSUME NEW k \in Fingers, Close(k) PROVE StagedInv'
  <2>1. CASE Closed(k)
    BY <1>1, <2>1, CloseEffect, StagedClose
  <2>2. CASE Emitted(k)
    BY <1>1, <2>2, CloseEffect DEF Emitted, StagedInv, Alone3
  <2>3. QED
    BY <1>1, <2>1, <2>2, CloseEffect
<1>2. CASE ArmClick
  <2>1. pc = "arm" /\ fr.n = 0 /\ fr.k \in Fingers
    BY <1>2 DEF ArmClick, StagedInv
  <2>2. pend'[3] => pend[3] \/ fr.k = 3
    BY <1>2, <2>1, ArmEffect
  <2>3. Closed(fr.k)
    BY <1>2, <2>1, ArmEffect
  <2>4. QED
    BY <2>1, <2>2, <2>3, StagedClose
<1>3. CASE ResolvePending
  <2>1. pc = "gate" /\ UNCHANGED <<fr, s>>
        /\ pc' = IF StagedReentry THEN "report" ELSE "handover"
    BY <1>3 DEF ResolvePending
  <2>2. pend'[3] => pend[3] /\ 3 \notin Resolved
    BY <1>3, ForgetKeeps DEF ResolvePending
  <2>3. ~StagedReentry /\ fr.n \notin {0, 3} => ~pend'[3]
    <3>1. pendAge[3] \in Int /\ Gap[3] \in Int
      BY DEF TypeOK, PendingOK
    <3>2. QED
      BY <2>2, <3>1 DEF StagedReentry, Resolved
  <2>4. QED
    BY <2>1, <2>2, <2>3 DEF StagedInv, Alone3
<1>4. CASE HandOver
  <2>1. /\ pc = "handover" /\ pc' = "close" /\ pend' = pend /\ fr'.n = fr.n
        /\ \A j \in Fingers : s'[j] = IF j \in TakenOver THEN NoSession ELSE s[j]
    BY <1>4, HandOverEffect
  <2>2. \A j \in Fingers : s'[j].active => s[j].active /\ s'[j] = s[j]
    BY <2>1, NoSessionFields
  <2>3. fr.n = 3 => Alone3'
    BY <2>1, <2>2, NoSessionFields DEF TakenOver, Alone3
  <2>4. Alone3 => Alone3'
    BY <2>2 DEF Alone3
  <2>5. QED
    BY <2>1, <2>2, <2>3, <2>4 DEF StagedInv
<1>5. CASE OpenSession
  BY <1>5, StagedOpen
<1>6. CASE ContinueSession
  <2>1. /\ pc' = "report" /\ pend' = pend
        /\ \A j \in Fingers : (s'[j].active <=> s[j].active) /\ (s'[j].drag <=> s[j].drag)
    BY <1>6, ContinueEffect
  <2>2. QED
    BY <2>1 DEF StagedInv, Alone3
<1>7. CASE NoSessionToUpdate
  BY <1>7 DEF NoSessionToUpdate, KeepPending, StagedInv, Alone3
<1>8. CASE ReportFrame
  BY <1>8 DEF ReportFrame, KeepPending, StagedInv, Alone3
<1>9. QED
  BY <1>1, <1>2, <1>3, <1>4, <1>5, <1>6, <1>7, <1>8 DEF HandleFrame

LEMMA StagedStep == TypeOK /\ StagedInv /\ [Next]_vars => StagedInv'
<1> SUFFICES ASSUME TypeOK, StagedInv, [Next]_vars PROVE StagedInv'
  OBVIOUS
<1>1. CASE HandleFrame
  BY <1>1, StagedFrame
<1>2. ASSUME NEW f \in Frames, BeginFrame(f) PROVE StagedInv'
  BY <1>2 DEF BeginFrame, StagedInv, Alone3
<1>3. ASSUME NEW k \in Fingers, ClickTimeout(k) PROVE StagedInv'
  <2>1. UNCHANGED <<pc, fr, s>> /\ Forget({k})
    BY <1>3 DEF ClickTimeout
  <2>2. pend'[3] => pend[3]
    BY <2>1, ForgetKeeps
  <2>3. QED
    BY <2>1, <2>2, StagedUntouched
<1>4. CASE GraceTimeout
  <2>1. UNCHANGED <<pc, fr, pend>> /\ pc = "idle"
    BY <1>4 DEF GraceTimeout, KeepPending
  <2>2. s' = s \/ (s'[1] = NoSession /\ \A j \in Fingers : j # 1 => s'[j] = s[j])
    BY <1>4, ResetCloses DEF GraceTimeout
  <2>3. QED
    BY <2>1, <2>2, NoSessionFields DEF StagedInv, Alone3
<1>5. CASE ShowReset
  <2>1. pc = "idle" /\ pc' = pc /\ \A j \in Fingers : s'[j] = NoSession
    BY <1>5 DEF ShowReset
  <2>2. Alone3' /\ ~s'[3].active
    BY <2>1, NoSessionFields DEF Alone3
  <2>3. QED
    BY <2>1, <2>2 DEF StagedInv
<1>6. CASE Tick
  <2>1. UNCHANGED <<pc, fr, pend>>
    BY <1>6 DEF Tick
  <2>2. QED
    BY <1>6, <2>1, TickFields, StagedUntouched DEF TypeOK
<1>7. ASSUME NEW q \in ParamSets, SetParams(q) PROVE StagedInv'
  BY <1>7, StagedUntouched DEF SetParams
<1>8. CASE UNCHANGED vars
  BY <1>8, StagedUntouched DEF vars
<1>9. QED
  BY <1>1, <1>2, <1>3, <1>4, <1>5, <1>6, <1>7, <1>8 DEF Next, Work, Timeout

LEMMA StagedHolds == Spec => []StagedInv
<1>1. Init => StagedInv
  BY NoSessionFields DEF Init, StagedInv, Alone3
<1>2. QED
  BY <1>1, TypeCorrect, StagedStep, PTL DEF Spec

\* While a three-finger deferred click is kept for a staged re-entry, no session
\* of fewer fingers is open that the skipped updates would have to serve.
THEOREM StagedReentryAlwaysAlone == Spec => []StagedReentryAlone
<1>1. StagedInv => StagedReentryAlone
  BY DEF StagedInv, Alone3, StagedReentryAlone
<1>2. QED
  BY <1>1, StagedHolds, PTL

-----------------------------------------------------------------------------
(* DragKeepsButton.                                                        *)

\* A step between frames that opens no session and defers no click.
LEMMA DragBetween ==
  ASSUME TypeOK, DragInv, pc' \in {"idle", "gate", "report"},
         pc \notin {"close", "arm"} \/ fr.n # 0,
         fr'.move = "swipe" => fr'.n = 3,
         \A j \in Fingers : pend'[j] => pend[j],
         \A j \in Fingers : s'[j].active => s[j].active,
         \A j \in Fingers : s'[j].active => (s'[j].drag <=> s[j].drag)
  PROVE  DragInv'
<1>1. \A j \in Fingers : Drags(j)' => Drags(j)
  BY DEF Drags
<1>2. PendingIsClosed' /\ FrameIsSettled' /\ OneDrag'
  BY <1>1 DEF DragInv, PendingIsClosed, FrameIsSettled, OneDrag
<1>3. NoClickBelow'
  BY <1>1 DEF DragInv, NoClickBelow
<1>4. QED
  BY <1>2, <1>3 DEF DragInv

LEMMA DragClose ==
  ASSUME TypeOK, DragInv, LiftInv, LiftInv', NEW k \in Fingers, fr.k = k,
         pc \in {"close", "arm"}, Closed(k),
         \A j \in Fingers : pend'[j] => pend[j] \/ (pc = "arm" /\ j = k),
         pc = "arm" => s'[k] = NoSession
  PROVE  DragInv'
<1>1. pc' \in {"open", "close"} /\ fr'.n = fr.n /\ fr'.move = fr.move
  BY CloseNextFields DEF Closed, TypeOK
<1>2. \A j \in Fingers : s'[j].active => s[j].active /\ (s'[j].drag <=> s[j].drag)
  BY NoSessionFields DEF Closed, GoesOn
<1>3. \A j \in Fingers : Drags(j)' => Drags(j)
  BY <1>2 DEF Drags
<1>4. PendingIsClosed'
  BY <1>2, NoSessionFields DEF DragInv, PendingIsClosed
<1>5. FrameIsSettled'
  <2>1. pc = "arm" => fr.n = 0
    BY DEF DragInv
  <2>2. \A j \in Fingers : j < fr.n => (pend'[j] => pend[j])
    BY <2>1
  <2>3. QED
    BY <1>1, <1>2, <2>2 DEF DragInv, FrameIsSettled
<1>6. OneDrag'
  BY <1>3 DEF DragInv, OneDrag
<1>7. NoClickBelow'
  <2>1. CASE fr.n = 0 /\ pc' = "open"
    <3>1. \A i \in Fingers : Drags(i)' => i = 1
      BY <1>1, <2>1 DEF LiftInv, Lifted, Drags
    <3>2. QED
      BY <3>1 DEF NoClickBelow
  <2>2. CASE fr.n = 0 /\ pc' = "close"
    BY <1>1, <2>2 DEF NoClickBelow
  <2>3. CASE fr.n # 0
    <3>1. pc # "arm"
      BY <2>3 DEF DragInv
    <3>2. QED
      BY <1>3, <2>3, <3>1 DEF DragInv, NoClickBelow
  <2>4. QED
    BY <1>1, <2>1, <2>2, <2>3
<1>8. QED
  BY <1>1, <1>4, <1>5, <1>6, <1>7 DEF DragInv

LEMMA DragOpen == ASSUME TypeOK, DragInv, OpenSession PROVE DragInv'
<1> DEFINE k == fr.n
<1>1. /\ pc = "open" /\ pc' = "report" /\ fr' = fr /\ k \in Fingers
      /\ \A j \in Fingers : pend'[j] => pend[j]
      /\ ~pend'[k]
      /\ s'[k].drag => pend[k]
      /\ \A j \in Fingers : j # k => s'[j] = s[j]
  BY OpenEffect DEF SecondTouch
<1>2. PendingIsClosed' /\ FrameIsSettled'
  BY <1>1 DEF DragInv, PendingIsClosed, FrameIsSettled
<1>3. \A j \in Fingers : j # k => (Drags(j)' <=> Drags(j))
  BY <1>1 DEF Drags
<1>4. ASSUME Drags(k)', NEW i \in Fingers, i # k PROVE ~Drags(i)
  <2>1. pend[k]
    BY <1>1, <1>4 DEF Drags
  <2>2. CASE i < k
    BY <1>1, <2>2 DEF DragInv, FrameIsSettled, Drags
  <2>3. CASE i > k
    BY <1>1, <2>1, <2>3 DEF DragInv, NoClickBelow
  <2>4. QED
    BY <1>1, <1>4, <2>2, <2>3
<1>5. OneDrag'
  BY <1>1, <1>3, <1>4 DEF DragInv, OneDrag
<1>6. NoClickBelow'
  <2>1. ASSUME NEW j \in Fingers, j < k PROVE ~pend'[j]
    BY <1>1, <2>1 DEF DragInv, FrameIsSettled
  <2>2. QED
    BY <1>1, <1>3, <2>1 DEF DragInv, NoClickBelow
<1>7. QED
  BY <1>1, <1>2, <1>5, <1>6 DEF DragInv

LEMMA DragGate ==
  ASSUME TypeOK, DragInv, ResolvePending \/ HandOver PROVE DragInv'
<1>1. CASE ResolvePending
  <2>1. pc = "gate" /\ pc' \in {"report", "handover"} /\ UNCHANGED <<fr, s>>
        /\ Forget(Resolved)
    BY <1>1 DEF ResolvePending
  <2>2. \A j \in Fingers : pend'[j] => pend[j] /\ j \notin Resolved
    BY <2>1, ForgetKeeps
  <2>3. \A j \in {1, 2} : j < fr.n => ~pend'[j]
    BY <2>2 DEF Resolved
  <2>4. QED
    BY <2>1, <2>2, <2>3
       DEF DragInv, PendingIsClosed, FrameIsSettled, OneDrag, NoClickBelow, Drags
<1>2. CASE HandOver
  <2>1. /\ pc = "handover" /\ pc' = "close" /\ pend' = pend
        /\ fr'.n = fr.n /\ fr'.move = fr.move /\ fr.n \in 0..15
        /\ \A j \in Fingers : s'[j] = IF j \in TakenOver THEN NoSession ELSE s[j]
    BY <1>2, HandOverEffect DEF TypeOK, FrameOK
  <2>2. \A j \in Fingers : s'[j].active => s[j].active /\ s'[j] = s[j] /\ j \notin TakenOver
    BY <2>1, NoSessionFields
  <2>3. \A j \in Fingers : j < fr.n /\ fr.n <= 3 => ~s'[j].active
    BY <2>1, <2>2 DEF TakenOver
  <2>4. \A j \in Fingers : Drags(j)' => Drags(j)
    BY <2>2 DEF Drags
  <2>5. PendingIsClosed' /\ FrameIsSettled' /\ OneDrag' /\ NoClickBelow'
    BY <2>1, <2>2, <2>3, <2>4
       DEF DragInv, PendingIsClosed, FrameIsSettled, OneDrag, NoClickBelow
  <2>6. QED
    BY <2>1, <2>5 DEF DragInv
<1>3. QED
  BY <1>1, <1>2

LEMMA DragFrame ==
  ASSUME TypeOK, DragInv, LiftInv, LiftInv', HandleFrame PROVE DragInv'
<1>1. ASSUME NEW k \in Fingers, Close(k) PROVE DragInv'
  <2>1. CASE Closed(k)
    BY <1>1, <2>1, CloseEffect, DragClose
  <2>2. CASE Emitted(k)
    BY <1>1, <2>2, CloseEffect
       DEF Emitted, DragInv, PendingIsClosed, FrameIsSettled, OneDrag, NoClickBelow, Drags
  <2>3. QED
    BY <1>1, <2>1, <2>2, CloseEffect
<1>2. CASE ArmClick
  <2>1. fr.n = 0 /\ fr.k \in Fingers /\ pc = "arm"
    BY <1>2 DEF ArmClick, DragInv
  <2>2. QED
    BY <1>2, <2>1, ArmEffect, DragClose
<1>3. CASE OpenSession
  BY <1>3, DragOpen
<1>4. CASE ContinueSession
  <2>1. /\ pc = "open" /\ pc' = "report" /\ pend' = pend
        /\ fr'.n = fr.n /\ fr'.move = fr.move
        /\ \A j \in Fingers : (s'[j].active <=> s[j].active) /\ (s'[j].drag <=> s[j].drag)
    BY <1>4, ContinueEffect
  <2>2. QED
    BY <2>1, DragBetween DEF DragInv
<1>5. CASE NoSessionToUpdate
  BY <1>5, DragBetween DEF NoSessionToUpdate, KeepPending, DragInv
<1>6. CASE ReportFrame
  <2>1. pc = "report" /\ pc' = "idle" /\ fr'.move = "still" /\ UNCHANGED <<pend, s>>
    BY <1>6 DEF ReportFrame, KeepPending, NoFrame, Handling
  <2>2. QED
    BY <2>1, DragBetween
<1>7. QED
  BY <1>1, <1>2, <1>3, <1>4, <1>5, <1>6, DragGate DEF HandleFrame

LEMMA DragStep ==
  TypeOK /\ DragInv /\ LiftInv /\ LiftInv' /\ [Next]_vars => DragInv'
<1> SUFFICES ASSUME TypeOK, DragInv, LiftInv, LiftInv', [Next]_vars PROVE DragInv'
  OBVIOUS
<1>1. CASE HandleFrame
  BY <1>1, DragFrame
<1>2. ASSUME NEW f \in Frames, BeginFrame(f) PROVE DragInv'
  <2>1. f.move = "swipe" => f.n = 3
    BY DEF Frames, Moves
  <2>2. QED
    BY <1>2, <2>1, BeginEffect, DragBetween
<1>3. ASSUME NEW k \in Fingers, ClickTimeout(k) PROVE DragInv'
  <2>1. pc = "idle" /\ UNCHANGED <<pc, fr, s>> /\ \A j \in Fingers : pend'[j] => pend[j]
    BY <1>3, ForgetKeeps DEF ClickTimeout
  <2>2. QED
    BY <2>1, DragBetween DEF DragInv
<1>4. CASE GraceTimeout
  <2>1. UNCHANGED <<pc, fr, pend>> /\ pc = "idle"
    BY <1>4 DEF GraceTimeout, KeepPending
  <2>2. s' = s \/ (s'[1] = NoSession /\ \A j \in Fingers : j # 1 => s'[j] = s[j])
    BY <1>4, ResetCloses DEF GraceTimeout
  <2>3. \A j \in Fingers : s'[j].active => s[j].active /\ s'[j] = s[j]
    BY <2>2, NoSessionFields
  <2>4. QED
    BY <2>1, <2>3, DragBetween DEF DragInv
<1>5. CASE ShowReset
  <2>1. pc = "idle" /\ UNCHANGED <<pc, fr>> /\ \A j \in Fingers : pend'[j] => pend[j]
    BY <1>5, ForgetKeeps DEF ShowReset
  <2>2. \A j \in Fingers : ~s'[j].active
    BY <1>5, NoSessionFields DEF ShowReset
  <2>3. QED
    BY <2>1, <2>2, DragBetween DEF DragInv
<1>6. CASE Tick
  <2>1. pc = "idle" /\ UNCHANGED <<pc, fr, pend>>
    BY <1>6 DEF Tick
  <2>2. QED
    BY <1>6, <2>1, TickFields, DragBetween DEF TypeOK, DragInv
<1>7. ASSUME NEW q \in ParamSets, SetParams(q) PROVE DragInv'
  BY <1>7
     DEF SetParams, DragInv, PendingIsClosed, FrameIsSettled, OneDrag, NoClickBelow, Drags
<1>8. CASE UNCHANGED vars
  BY <1>8
     DEF vars, DragInv, PendingIsClosed, FrameIsSettled, OneDrag, NoClickBelow, Drags
<1>9. QED
  BY <1>1, <1>2, <1>3, <1>4, <1>5, <1>6, <1>7, <1>8 DEF Next, Work, Timeout

LEMMA DragsHold == Spec => []DragInv
<1>1. Init => DragInv
  BY NoSessionFields
     DEF Init, DragInv, PendingIsClosed, FrameIsSettled, OneDrag, NoClickBelow, Drags,
         NoFrame, Handling
<1>2. Init => LiftInv
  BY NoSessionFields DEF Init, LiftInv, Lifted
<1>3. QED
  BY <1>1, <1>2, TypeCorrect, LiftStep, DragStep, PTL DEF Spec

LEMMA DragButtonStep ==
  ASSUME TypeOK, DragInv, [Next]_vars, NEW k \in Fingers,
         Drags(k), hold = k, s'[k].active, fr.n # 0, pc # "idle"
  PROVE  hold' = k
<1>1. CASE ResolvePending
  <2>1. k \notin Resolved
    BY DEF Resolved, DragInv, PendingIsClosed, Drags
  <2>2. QED
    BY <1>1, <2>1 DEF ResolvePending, ReleaseIf, KeepHold
<1>2. CASE HandOver
  <2>1. k \notin TakenOver
    BY <1>2, HandOverEffect, NoSessionFields
  <2>2. ~ \E j \in TakenOver : s[j].drag
    BY <2>1 DEF TakenOver, DragInv, OneDrag, Drags
  <2>3. QED
    BY <1>2, <2>2 DEF HandOver, ReleaseIf, KeepHold
<1>3. ASSUME NEW j \in Fingers, Close(j) PROVE hold' = k
  <2>1. CASE FinishDrag(j)
    <3>1. Drags(j) /\ s'[j] = NoSession
      BY <2>1, ResetCloses DEF FinishDrag, Drags
    <3>2. QED
      BY <3>1, NoSessionFields DEF DragInv, OneDrag
  <2>2. CASE SuppressTap(j) \/ EmitTap(j)
    BY <2>2 DEF SuppressTap, EmitTap, TapDetected
  <2>3. CASE \/ NothingToClose(j) \/ AwaitGrace(j) \/ KeepDrag(j)
             \/ AwaitLift(j) \/ Abandon(j)
    BY <2>3 DEF NothingToClose, AwaitGrace, KeepDrag, AwaitLift, Abandon, KeepHold
  <2>4. QED
    BY <1>3, <2>1, <2>2, <2>3 DEF Close
<1>4. CASE OpenSession
  BY <1>4, OpenEffect DEF Drags
<1>5. CASE ArmClick \/ NoSessionToUpdate \/ ContinueSession \/ ReportFrame
  BY <1>5 DEF ArmClick, NoSessionToUpdate, ContinueSession, ReportFrame, KeepHold
<1>6. CASE (\E f \in Frames : BeginFrame(f)) \/ Timeout \/ ShowReset \/ Tick
  BY <1>6 DEF BeginFrame, Timeout, ClickTimeout, GraceTimeout, ShowReset, Tick
<1>7. CASE (\E q \in ParamSets : SetParams(q)) \/ UNCHANGED vars
  BY <1>7 DEF SetParams, vars
<1>8. QED
  BY <1>1, <1>2, <1>3, <1>4, <1>5, <1>6, <1>7 DEF Next, Work, HandleFrame

\* A drag keeps its button for as long as a finger touches, whatever sessions of
\* other fingers open and close beside it.
THEOREM DragsKeepTheirButton == Spec => DragKeepsButton
<1>1. TypeOK /\ DragInv /\ [Next]_vars =>
        [\A k \in Fingers :
           (/\ s[k].active /\ s[k].drag /\ hold = k
            /\ s'[k].active /\ fr.n # 0 /\ pc # "idle") => hold' = k]_vars
  BY DragButtonStep DEF Drags
<1>2. QED
  BY <1>1, TypeCorrect, DragsHold, PTL DEF Spec, DragKeepsButton

-----------------------------------------------------------------------------
(* SwipeFindsNoHold and ThreeFingerDragHasButton.                          *)

\* Session k is not opened, and its mode is not decided.
NotRaised(k) ==
  /\ s'[k].mode = s[k].mode \/ s'[k].mode = "none"
  /\ s'[k].active => s[k].active

LEMMA ClosedNotRaised ==
  ASSUME TypeOK, NEW j \in Fingers, Closed(j), NEW k \in Fingers PROVE NotRaised(k)
  BY NoSessionFields DEF Closed, GoesOn, NotRaised

\* Only the update of the fingers reported opens a session or decides its mode.
LEMMA OnlyUpdatesRaise ==
  ASSUME TypeOK, DragInv, [Next]_vars, ~OpenSession, ~ContinueSession, NEW k \in Fingers
  PROVE  NotRaised(k)
<1>1. ASSUME NEW j \in Fingers, Close(j) PROVE NotRaised(k)
  <2>1. CASE Closed(j)
    BY <2>1, ClosedNotRaised
  <2>2. CASE Emitted(j)
    BY <2>2 DEF Emitted, NotRaised
  <2>3. QED
    BY <1>1, <2>1, <2>2, CloseEffect
<1>2. CASE ArmClick
  <2>1. fr.n = 0 /\ fr.k \in Fingers
    BY <1>2 DEF ArmClick, DragInv
  <2>2. QED
    BY <1>2, <2>1, ArmEffect, ClosedNotRaised
<1>3. CASE HandOver
  BY <1>3, HandOverEffect, NoSessionFields DEF NotRaised
<1>4. CASE GraceTimeout
  BY <1>4, ResetCloses, NoSessionFields DEF GraceTimeout, NotRaised
<1>5. CASE ShowReset
  BY <1>5, NoSessionFields DEF ShowReset, NotRaised
<1>6. CASE Tick
  <2>1. PICK a \in 0..AgeMax, b \in 0..AgeMax :
          s'[k] = [s[k] EXCEPT !.age = a, !.relAge = b]
    BY <1>6, TickSession DEF TypeOK
  <2>2. s'[k].mode = s[k].mode /\ (s'[k].active <=> s[k].active)
    BY <2>1, SessionFields DEF Session
  <2>3. QED
    BY <2>2 DEF NotRaised
<1>7. CASE ResolvePending \/ NoSessionToUpdate \/ ReportFrame \/ UNCHANGED vars
  BY <1>7 DEF ResolvePending, NoSessionToUpdate, ReportFrame, vars, NotRaised
<1>8. CASE \/ \E f \in Frames : BeginFrame(f)
           \/ \E j \in Fingers : ClickTimeout(j)
           \/ \E q \in ParamSets : SetParams(q)
  BY <1>8 DEF BeginFrame, ClickTimeout, SetParams, NotRaised
<1>9. QED
  BY <1>1, <1>2, <1>3, <1>4, <1>5, <1>6, <1>7, <1>8
     DEF Next, Work, HandleFrame, Timeout

LEMMA SwipeStep ==
  ASSUME TypeOK, DragInv, HoldOwned, [Next]_vars, NEW k \in Fingers,
         s[k].mode # "swipe", s'[k].mode = "swipe"
  PROVE  hold' = 0
<1>1. hold \in 0..3
  BY DEF TypeOK, HoldOK
<1>2. fr.n = 3 /\ pc = "open" => (hold # 0 => hold = 3 /\ (pend[3] \/ Drags(3)))
  BY <1>1 DEF DragInv, FrameIsSettled, HoldOwned, Drags
<1>3. CASE OpenSession
  <2>1. k = fr.n
    BY <1>3, OpenEffect
  <2>2. fr.n = 3 /\ pc = "open" /\ ~s[3].active /\ ~SecondTouch(3)
    BY <1>3, <2>1, OpenEffect DEF DragInv
  <2>3. hold' = IF pend[3] /\ ~SecondTouch(3) /\ hold = 3 THEN 0 ELSE hold
    BY <1>3, <2>2, OpenEffect
  <2>4. QED
    BY <1>1, <1>2, <2>2, <2>3 DEF Drags
<1>4. CASE ContinueSession
  <2>1. k = fr.n /\ Decides(k) /\ fr.move = "swipe"
    BY <1>4, ContinueEffect
  <2>2. fr.n = 3 /\ pc = "open" /\ s[3].active /\ ~s[3].drag /\ hold' = hold
    BY <1>4, <2>1, ContinueEffect DEF DragInv, Decides
  <2>3. ~pend[3]
    BY <2>2 DEF DragInv, PendingIsClosed
  <2>4. QED
    BY <1>1, <1>2, <2>2, <2>3 DEF Drags
<1>5. CASE ~OpenSession /\ ~ContinueSession
  BY <1>5, OnlyUpdatesRaise DEF NotRaised
<1>6. QED
  BY <1>3, <1>4, <1>5

\* A swipe is reported, as a press and a release, only while no click button is
\* held, though the swipe itself does not look at the latch.
THEOREM SwipesFindNoHold == PressFixed => (Spec => SwipeFindsNoHold)
<1> SUFFICES ASSUME PressFixed PROVE Spec => SwipeFindsNoHold
  OBVIOUS
<1>1. TypeOK /\ DragInv /\ HoldOwned /\ [Next]_vars =>
        [\A k \in Fingers :
           s[k].mode # "swipe" /\ s'[k].mode = "swipe" => hold' = 0]_vars
  BY SwipeStep
<1>2. QED
  BY <1>1, TypeCorrect, DragsHold, HoldAlwaysOwned, PTL DEF Spec, SwipeFindsNoHold

LEMMA ClickButtonClose ==
  ASSUME TypeOK, DragInv, StagedInv, ClickHasButton, NEW k \in Fingers, Close(k)
  PROVE  ClickHasButton'
<1>1. pend'[3] => pend[3]
  BY CloseEffect
<1>2. CASE EmitTap(k)
  <2>1. s[k].active /\ fr.k = k /\ fr' = fr /\ par' = par
    BY <1>2 DEF EmitTap, Closing
  <2>2. ~pend[3]
    BY <2>1 DEF StagedInv, Alone3, DragInv, PendingIsClosed
  <2>3. k \in par.press => hold' = k
    BY <1>2 DEF EmitTap
  <2>4. QED
    BY <1>1, <2>1, <2>2, <2>3 DEF ClickHasButton
<1>3. CASE FinishDrag(k) \/ SuppressTap(k)
  <2>1. s[k].active /\ CloseNext(k)
    BY <1>3 DEF FinishDrag, SuppressTap
  <2>2. ~pend[3]
    BY <2>1 DEF StagedInv, Alone3, DragInv, PendingIsClosed
  <2>3. QED
    BY <1>1, <2>1, <2>2 DEF ClickHasButton, CloseNext
<1>4. CASE NothingToClose(k) \/ AwaitGrace(k) \/ KeepDrag(k) \/ AwaitLift(k) \/ Abandon(k)
  <2>1. hold' = hold /\ CloseNext(k)
    BY <1>4 DEF NothingToClose, AwaitGrace, KeepDrag, AwaitLift, Abandon, KeepHold
  <2>2. QED
    BY <1>1, <2>1 DEF ClickHasButton, CloseNext
<1>5. QED
  BY <1>2, <1>3, <1>4 DEF Close

LEMMA ClickButtonStep ==
  PressFixed => (TypeOK /\ DragInv /\ StagedInv /\ ClickHasButton /\ [Next]_vars
                   => ClickHasButton')
<1> SUFFICES ASSUME PressFixed, TypeOK, DragInv, StagedInv, ClickHasButton, [Next]_vars
             PROVE  ClickHasButton'
  OBVIOUS
<1>1. ASSUME NEW k \in Fingers, Close(k) PROVE ClickHasButton'
  BY <1>1, ClickButtonClose
<1>2. CASE ArmClick
  <2>1. /\ pc = "arm" /\ pc' # "arm" /\ hold' = hold
        /\ pend'[3] => pend[3] \/ (fr.k = 3 /\ 3 \in par.press)
    BY <1>2 DEF ArmClick, CloseNext, KeepHold, KeepPending, TypeOK, PendingOK
  <2>2. QED
    BY <2>1 DEF ClickHasButton
<1>3. CASE ResolvePending
  <2>1. pc' # "arm" /\ (pend'[3] => pend[3] /\ 3 \notin Resolved)
    BY <1>3, ForgetKeeps DEF ResolvePending
  <2>2. pend'[3] => hold' = hold
    BY <1>3, <2>1 DEF ResolvePending, ClickHasButton, ReleaseIf, KeepHold
  <2>3. QED
    BY <2>1, <2>2 DEF ClickHasButton
<1>4. CASE HandOver
  <2>1. pc' # "arm" /\ pend' = pend
    BY <1>4, HandOverEffect
  <2>2. pend[3] => hold' = hold
    BY <1>4 DEF HandOver, StagedInv, Alone3, TakenOver, ReleaseIf, KeepHold
  <2>3. QED
    BY <2>1, <2>2 DEF ClickHasButton
<1>5. CASE OpenSession
  <2>1. /\ pc' # "arm" /\ (pend'[3] => pend[3] /\ fr.n # 3)
        /\ hold' = IF pend[fr.n] /\ ~SecondTouch(fr.n) /\ hold = fr.n THEN 0 ELSE hold
    BY <1>5, OpenEffect
  <2>2. QED
    BY <2>1 DEF ClickHasButton
<1>6. CASE ContinueSession
  BY <1>6, ContinueEffect DEF ClickHasButton
<1>7. CASE NoSessionToUpdate \/ ReportFrame \/ \E f \in Frames : BeginFrame(f)
  BY <1>7
     DEF NoSessionToUpdate, ReportFrame, BeginFrame, KeepHold, KeepPending, ClickHasButton
<1>8. ASSUME NEW k \in Fingers, ClickTimeout(k) PROVE ClickHasButton'
  <2>1. /\ pc' # "arm" /\ (pend'[3] => pend[3] /\ k # 3)
        /\ pc = "idle"
    BY <1>8, ForgetKeeps DEF ClickTimeout
  <2>2. pend'[3] => hold' = hold
    BY <1>8, <2>1 DEF ClickTimeout, ClickHasButton, ReleaseIf, KeepHold
  <2>3. QED
    BY <2>1, <2>2 DEF ClickHasButton
<1>9. CASE GraceTimeout
  BY <1>9
     DEF GraceTimeout, KeepPending, KeepHold, StagedInv, Alone3, ClickHasButton
<1>10. CASE ShowReset
  <2>1. pc = "idle" /\ pc' = pc /\ ~pend'[3]
    BY <1>10, ForgetKeeps DEF ShowReset
  <2>2. QED
    BY <2>1 DEF ClickHasButton
<1>11. CASE Tick
  BY <1>11 DEF Tick, ClickHasButton
<1>12. ASSUME NEW q \in ParamSets, SetParams(q) PROVE ClickHasButton'
  <2>1. par'.press = par.press /\ UNCHANGED <<pc, fr, pend, hold>>
    BY <1>12 DEF SetParams, PressFixed, TypeOK, ControlOK
  <2>2. QED
    BY <2>1 DEF ClickHasButton
<1>13. CASE UNCHANGED vars
  BY <1>13 DEF vars, ClickHasButton
<1>14. QED
  BY <1>1, <1>2, <1>3, <1>4, <1>5, <1>6, <1>7, <1>8, <1>9, <1>10, <1>11, <1>12, <1>13
     DEF Next, Work, HandleFrame, Timeout

LEMMA ThreeFingerDragStep ==
  ASSUME TypeOK, DragInv, ClickHasButton, [Next]_vars, OpensDrag(3) PROVE hold' = 3
<1>1. OpenSession
  <2>1. CASE ContinueSession
    BY <2>1, ContinueEffect DEF OpensDrag
  <2>2. CASE ~OpenSession /\ ~ContinueSession
    BY <2>2, OnlyUpdatesRaise DEF NotRaised, OpensDrag
  <2>3. QED
    BY <2>1, <2>2
<1>2. fr.n = 3 /\ SecondTouch(3)
  BY <1>1, OpenEffect DEF OpensDrag
<1>3. hold' = hold
  BY <1>1, <1>2, OpenEffect
<1>4. QED
  BY <1>2, <1>3 DEF ClickHasButton, SecondTouch

\* A three-finger drag, which a second touch within the gap of a tap opens, has
\* the tap's button down.
THEOREM ThreeFingerDragsHaveTheirButton == PressFixed => (Spec => ThreeFingerDragHasButton)
<1> SUFFICES ASSUME PressFixed PROVE Spec => ThreeFingerDragHasButton
  OBVIOUS
<1>1. Init => ClickHasButton /\ StagedInv
  BY NoSessionFields DEF Init, ClickHasButton, StagedInv, Alone3
<1>2. TypeOK /\ DragInv /\ StagedInv /\ ClickHasButton /\ [Next]_vars => ClickHasButton'
  BY ClickButtonStep
<1>3. TypeOK /\ DragInv /\ ClickHasButton /\ [Next]_vars => [OpensDrag(3) => hold' = 3]_vars
  BY ThreeFingerDragStep
<1>4. QED
  BY <1>1, <1>2, <1>3, TypeCorrect, DragsHold, StagedStep, PTL
     DEF Spec, ThreeFingerDragHasButton

-----------------------------------------------------------------------------
(* The contact (module Iqs9151GestureContact): taps are short.             *)

\* The contact before session k opens with a right to a tap.
Lead(k) == Reentry + (k - 1) * LeadMax

MayTap(k) == s[k].active /\ ~s[k].drag /\ s[k].cand /\ s[k].mode = "none"

\* What the clocks of session k say of the contact as a whole.
TapBound(k) ==
  MayTap(k) =>
    /\ s[k].age < AgeMax => contact <= Lead(k) + s[k].age
    /\ s[k].rel =>
         /\ k # 1
         /\ s[k].relAge < AgeMax => contact <= Lead(k) + TapMax[k] + s[k].relAge

ContactClock ==
  /\ contact \in Nat
  /\ prev = 0 => contact = 0
  /\ zero.age < AgeMax => contact <= zero.age

LeadInHand ==
  /\ pc = "idle" => ~fr.lead
  /\ fr.lead => fr.n \in {2, 3} /\ contact <= Lead(fr.n)

ContactInv == ContactClock /\ LeadInHand /\ \A k \in Fingers : TapBound(k)

LEMMA LeadOfFingers ==
  /\ Lead(1) = Reentry /\ Lead(2) = Reentry + LeadMax
  /\ Lead(3) = Reentry + LeadMax + LeadMax
  /\ \A k \in Fingers : Lead(k) \in Nat /\ Lead(k) >= Reentry
<1>1. LeadMax \in Nat /\ Reentry \in Nat
  OBVIOUS
<1>2. /\ Lead(1) = Reentry /\ Lead(2) = Reentry + LeadMax
      /\ Lead(3) = Reentry + LeadMax + LeadMax
  BY <1>1 DEF Lead
<1>3. \A k \in Fingers : k = 1 \/ k = 2 \/ k = 3
  OBVIOUS
<1>4. QED
  BY <1>1, <1>2, <1>3

LEMMA SessionClocks ==
  ASSUME TypeOK, NEW k \in Fingers
  PROVE  /\ s[k].age \in 0..AgeMax /\ s[k].relAge \in 0..AgeMax /\ s[k].cand \in BOOLEAN
         /\ TapMax[k] \in Nat /\ TapMax[k] < AgeMax
  BY SessionFields DEF Session

\* What takes no time does not lengthen the contact.
LEMMA TouchingKeeps ==
  ASSUME ContactClock, Touching PROVE contact' \in Nat /\ contact' <= contact
  BY DEF ContactClock, Touching

\* A session that is left alone, closed, or no candidate any more.
LEMMA TapUntouched ==
  ASSUME TypeOK, ContactInv, Touching, NEW k \in Fingers,
         s'[k] = s[k] \/ ~s'[k].active \/ s'[k].drag
  PROVE  TapBound(k)'
<1>1. CASE s'[k] = s[k]
  <2>1. contact' \in Nat /\ contact \in Nat /\ contact' <= contact
    BY TouchingKeeps DEF ContactInv, ContactClock
  <2>2. Lead(k) \in Nat /\ s[k].age \in Nat /\ s[k].relAge \in Nat /\ TapMax[k] \in Nat
    BY LeadOfFingers, SessionClocks
  <2>3. QED
    BY <1>1, <2>1, <2>2 DEF ContactInv, TapBound, MayTap
<1>2. CASE ~s'[k].active \/ s'[k].drag
  BY <1>2 DEF TapBound, MayTap
<1>3. QED
  BY <1>1, <1>2

LEMMA LiftClocks ==
  ASSUME TypeOK, NEW k \in Fingers,
         s' = [s EXCEPT ![k].rel = TRUE, ![k].relAge = 0]
  PROVE  /\ s'[k].rel /\ s'[k].relAge = 0 /\ s'[k].age = s[k].age
         /\ \A j \in Fingers : j # k => s'[j] = s[j]
<1> DEFINE new == [s[k] EXCEPT !.rel = TRUE, !.relAge = 0]
<1>1. s[k] \in Session
  BY SessionFields
<1>2. new.rel /\ new.relAge = 0 /\ new.age = s[k].age
  BY <1>1 DEF Session
<1>3. s'[k] = new /\ \A j \in Fingers : j # k => s'[j] = s[j]
  BY DEF TypeOK, SessionOK
<1> HIDE DEF new
<1>4. QED
  BY <1>2, <1>3

LEMMA TapLift ==
  ASSUME TypeOK, ContactInv, Touching, NEW k \in Fingers, AwaitLift(k)
  PROVE  \A j \in Fingers : TapBound(j)'
<1>1. CASE s[k].rel
  BY <1>1, TapUntouched DEF AwaitLift
<1>2. CASE ~s[k].rel
  <2>1. /\ s' = [s EXCEPT ![k].rel = TRUE, ![k].relAge = 0]
        /\ k # 1 /\ MayTap(k) /\ s[k].age <= TapMax[k]
    BY <1>2 DEF AwaitLift, StagedLift, MayTap
  <2>2. /\ s'[k].rel /\ s'[k].relAge = 0 /\ s'[k].age = s[k].age
        /\ \A j \in Fingers : j # k => s'[j] = s[j]
    BY <2>1, LiftClocks
  <2>3. contact' \in Nat /\ contact \in Nat /\ contact' <= contact
    BY TouchingKeeps DEF ContactInv, ContactClock
  <2>4. Lead(k) \in Nat /\ s[k].age \in Nat /\ TapMax[k] \in Nat /\ TapMax[k] < AgeMax
    BY LeadOfFingers, SessionClocks
  <2>5. s[k].age < AgeMax /\ contact <= Lead(k) + s[k].age
    BY <2>1, <2>4 DEF ContactInv, TapBound
  <2>6. TapBound(k)'
    BY <2>1, <2>2, <2>3, <2>4, <2>5 DEF TapBound
  <2>7. QED
    BY <2>2, <2>6, TapUntouched
<1>3. QED
  BY <1>1, <1>2

LEMMA TapClose ==
  ASSUME TypeOK, ContactInv, Touching, NEW k \in Fingers, Close(k)
  PROVE  \A j \in Fingers : TapBound(j)'
<1>1. CASE AwaitLift(k)
  BY <1>1, TapLift
<1>2. CASE ~AwaitLift(k) /\ ~Emitted(k)
  <2>1. Closed(k)
    BY <1>2, CloseEffect
  <2>2. s'[k] = s[k] \/ ~s'[k].active \/ s'[k].drag
    <3>1. CASE NothingToClose(k)
      BY <3>1 DEF NothingToClose
    <3>2. CASE AwaitGrace(k) \/ KeepDrag(k)
      <4>1. s[k].drag /\ s[k].active /\ k # fr.n
        BY <3>2 DEF AwaitGrace, InGrace, KeepDrag
      <4>2. QED
        BY <2>1, <4>1, NoSessionFields DEF Closed, GoesOn
    <3>3. CASE FinishDrag(k) \/ Abandon(k) \/ SuppressTap(k)
      <4>1. s'[k] = NoSession
        BY <3>3, ResetCloses DEF FinishDrag, Abandon, SuppressTap
      <4>2. QED
        BY <4>1, NoSessionFields
    <3>4. CASE EmitTap(k)
      BY <3>4 DEF EmitTap
    <3>5. QED
      BY <1>2, <3>1, <3>2, <3>3, <3>4 DEF Close
  <2>3. QED
    BY <2>1, <2>2, TapUntouched DEF Closed
<1>3. CASE Emitted(k)
  BY <1>3, TapUntouched DEF Emitted
<1>4. QED
  BY <1>1, <1>2, <1>3

LEMMA TapHandOver ==
  ASSUME TypeOK, ContactInv, Touching, HandOver
  PROVE  /\ \A j \in Fingers : TapBound(j)'
         /\ fr'.lead => fr'.n \in {2, 3} /\ contact' <= Lead(fr'.n)
<1>1. \A j \in Fingers : TapBound(j)'
  BY HandOverEffect, NoSessionFields, TapUntouched
<1>2. ASSUME fr'.lead PROVE fr'.n \in {2, 3} /\ contact' <= Lead(fr'.n)
  <2>1. PICK j \in TakenOver : LeadsTap(j)
    BY <1>2, HandOverEffect
  <2>2. /\ j \in {1, 2} /\ j < fr.n /\ fr.n <= 3 /\ fr'.n = fr.n
        /\ MayTap(j) /\ s[j].age <= LeadMax
    BY <2>1, HandOverEffect DEF TakenOver, LeadsTap, MayTap
  <2>3. fr.n \in 0..15
    BY DEF TypeOK, FrameOK
  <2>4. (fr.n = 2 /\ j = 1) \/ (fr.n = 3 /\ j \in {1, 2})
    BY <2>2, <2>3
  <2>5. s[j].age \in Nat /\ contact \in Nat /\ contact' \in Nat /\ contact' <= contact
    BY <2>2, SessionClocks, TouchingKeeps DEF ContactInv, ContactClock
  <2>6. contact <= Lead(j) + s[j].age
    BY <2>2, <2>5 DEF ContactInv, TapBound
  <2>7. contact <= Lead(j) + LeadMax
    BY <2>2, <2>5, <2>6, LeadOfFingers
  <2>8. Lead(j) + LeadMax <= Lead(fr.n)
    BY <2>4, LeadOfFingers
  <2>9. QED
    BY <2>2, <2>4, <2>5, <2>7, <2>8, LeadOfFingers
<1>3. QED
  BY <1>1, <1>2

LEMMA TapOpen ==
  ASSUME TypeOK, ContactInv, Touching, OpenSession
  PROVE  \A j \in Fingers : TapBound(j)'
<1>0. PICK k \in Fingers : k = fr.n
  BY OpenEffect
<1>1. /\ ~s'[k].rel /\ s'[k].age = 0
      /\ s'[k].cand => SecondTouch(k) \/ prev = 0 \/ RecentZero \/ fr.lead
      /\ SecondTouch(k) => s'[k].drag
      /\ \A j \in Fingers : j # k => s'[j] = s[j]
  BY <1>0, OpenEffect
<1>2. ASSUME MayTap(k)' PROVE contact <= Lead(k)
  <2>1. prev = 0 \/ RecentZero \/ fr.lead
    BY <1>1, <1>2 DEF MayTap
  <2>2. Lead(k) \in Nat /\ Lead(k) >= Reentry
    BY <1>1, LeadOfFingers
  <2>3. zero.age \in Nat
    BY DEF TypeOK, HistoryOK
  <2>4. contact \in Nat /\ (prev = 0 => contact = 0)
        /\ (zero.age < AgeMax => contact <= zero.age)
    BY DEF ContactInv, ContactClock
  <2>5. RecentZero => contact <= Reentry
    BY <2>3, <2>4 DEF RecentZero
  <2>6. fr.lead => contact <= Lead(k)
    BY <1>0 DEF ContactInv, LeadInHand
  <2>7. QED
    BY <2>1, <2>2, <2>4, <2>5, <2>6
<1>3. contact \in Nat /\ contact' \in Nat /\ contact' <= contact /\ Lead(k) \in Nat
  BY <1>1, LeadOfFingers, TouchingKeeps DEF ContactInv, ContactClock
<1>4. TapBound(k)'
  BY <1>1, <1>2, <1>3 DEF TapBound
<1>5. QED
  BY <1>1, <1>4, TapUntouched

LEMMA TapContinue ==
  ASSUME TypeOK, ContactInv, Touching, ContinueSession
  PROVE  \A j \in Fingers : TapBound(j)'
<1>1. PICK k \in Fingers : k = fr.n
  BY ContinueEffect
<1>2. /\ s[k].active /\ (s'[k].drag <=> s[k].drag)
      /\ s'[k].cand => s[k].cand
      /\ ~s'[k].rel /\ s'[k].age = s[k].age
      /\ s'[k].mode = "none" => s[k].mode = "none"
      /\ \A j \in Fingers : j # k => s'[j] = s[j]
  BY <1>1, ContinueEffect DEF Decides
<1>3. contact \in Nat /\ contact' \in Nat /\ contact' <= contact /\ Lead(k) \in Nat
      /\ s[k].age \in Nat
  BY LeadOfFingers, TouchingKeeps, SessionClocks DEF ContactInv, ContactClock
<1>4. MayTap(k)' => MayTap(k)
  BY <1>2 DEF MayTap
<1>5. TapBound(k)'
  BY <1>2, <1>3, <1>4 DEF ContactInv, TapBound
<1>6. QED
  BY <1>2, <1>5, TapUntouched

LEMMA LeadKept ==
  ASSUME ContactInv, Touching, fr'.n = fr.n, fr'.lead = fr.lead, pc # "idle",
         pc' # "idle"
  PROVE  LeadInHand'
<1>1. contact \in Nat /\ contact' \in Nat /\ contact' <= contact
  BY TouchingKeeps DEF ContactInv, ContactClock
<1>2. fr.lead => Lead(fr.n) \in Nat
  BY LeadOfFingers DEF ContactInv, LeadInHand
<1>3. QED
  BY <1>1, <1>2 DEF ContactInv, LeadInHand, Lead

LEMMA ContactFrame ==
  ASSUME TypeOK, DragInv, ContactInv, Touching, HandleFrame
  PROVE  LeadInHand' /\ \A j \in Fingers : TapBound(j)'
<1>1. ASSUME NEW k \in Fingers, Close(k)
      PROVE  LeadInHand' /\ \A j \in Fingers : TapBound(j)'
  <2>1. /\ pc = "close" /\ pc' # "idle" /\ fr'.n = fr.n /\ fr'.lead = fr.lead
    BY <1>1, CloseEffect, CloseNextFields DEF Closed, Emitted, TypeOK
  <2>2. QED
    BY <1>1, <2>1, TapClose, LeadKept
<1>2. CASE ArmClick
  <2>1. pc = "arm" /\ Closed(fr.k) /\ fr.k \in Fingers /\ s'[fr.k] = NoSession
    BY <1>2, ArmEffect DEF ArmClick, DragInv
  <2>2. pc' # "idle" /\ fr'.n = fr.n /\ fr'.lead = fr.lead
    BY <2>1, CloseNextFields DEF Closed, TypeOK
  <2>3. \A j \in Fingers : s'[j] = s[j] \/ ~s'[j].active
    BY <2>1, NoSessionFields DEF Closed
  <2>4. QED
    BY <2>1, <2>2, <2>3, TapUntouched, LeadKept
<1>3. CASE ResolvePending \/ NoSessionToUpdate
  <2>1. pc # "idle" /\ pc' # "idle" /\ UNCHANGED <<fr, s>>
    BY <1>3 DEF ResolvePending, NoSessionToUpdate
  <2>2. QED
    BY <2>1, TapUntouched, LeadKept
<1>4. CASE HandOver
  <2>1. pc' # "idle" /\ (fr'.lead => fr'.n \in {2, 3} /\ contact' <= Lead(fr'.n))
    BY <1>4, TapHandOver, HandOverEffect
  <2>2. LeadInHand'
    BY <2>1 DEF LeadInHand, Lead
  <2>3. QED
    BY <1>4, <2>2, TapHandOver
<1>5. CASE OpenSession
  BY <1>5, OpenEffect, TapOpen, LeadKept
<1>6. CASE ContinueSession
  BY <1>6, ContinueEffect, TapContinue, LeadKept
<1>7. CASE ReportFrame
  <2>1. fr' = NoFrame /\ s' = s
    BY <1>7 DEF ReportFrame
  <2>2. ~fr'.lead
    BY <2>1 DEF NoFrame, Handling
  <2>3. QED
    BY <2>1, <2>2, TapUntouched DEF LeadInHand
<1>8. QED
  BY <1>1, <1>2, <1>3, <1>4, <1>5, <1>6, <1>7 DEF HandleFrame

LEMMA ContactElsewhere ==
  ASSUME TypeOK, ContactInv, Touching,
         \/ \E f \in Frames : BeginFrame(f)
         \/ Timeout \/ ShowReset
         \/ \E q \in ParamSets : SetParams(q)
  PROVE  LeadInHand' /\ \A j \in Fingers : TapBound(j)'
<1>0. contact \in Nat /\ contact' \in Nat /\ contact' <= contact
  BY TouchingKeeps DEF ContactInv, ContactClock
<1>1. CASE \E f \in Frames : BeginFrame(f)
  <2>1. ~fr'.lead /\ s' = s
    BY <1>1 DEF BeginFrame, Handling
  <2>2. QED
    BY <2>1, TapUntouched DEF LeadInHand
<1>2. CASE Timeout \/ ShowReset
  <2>1. pc = "idle" /\ fr' = fr
    BY <1>2 DEF Timeout, ClickTimeout, GraceTimeout, ShowReset
  <2>2. \A j \in Fingers : s'[j] = s[j] \/ ~s'[j].active
    <3>1. CASE GraceTimeout
      BY <3>1, ResetCloses, NoSessionFields DEF GraceTimeout
    <3>2. CASE ShowReset
      BY <3>2, NoSessionFields DEF ShowReset
    <3>3. CASE \E k \in Fingers : ClickTimeout(k)
      BY <3>3 DEF ClickTimeout
    <3>4. QED
      BY <1>2, <3>1, <3>2, <3>3 DEF Timeout
  <2>3. LeadInHand'
    BY <2>1 DEF ContactInv, LeadInHand
  <2>4. QED
    BY <2>2, <2>3, TapUntouched
<1>3. CASE \E q \in ParamSets : SetParams(q)
  <2>1. UNCHANGED <<pc, fr, s>>
    BY <1>3 DEF SetParams
  <2>2. fr.lead => Lead(fr.n) \in Nat
    BY LeadOfFingers DEF ContactInv, LeadInHand
  <2>3. LeadInHand'
    BY <1>0, <2>1, <2>2 DEF ContactInv, LeadInHand, Lead
  <2>4. QED
    BY <2>1, <2>3, TapUntouched
<1>4. QED
  BY <1>1, <1>2, <1>3

\* The history knows at least as long a contact.
LEMMA ClockWork ==
  ASSUME TypeOK, ContactInv, Work, Touching PROVE ContactClock'
<1>1. contact \in Nat /\ (zero.age < AgeMax => contact <= zero.age)
  BY DEF ContactInv, ContactClock
<1>2. (prev' = 0 /\ zero'.age \in Nat) \/ zero'.age = zero.age
  <2>1. CASE ReportFrame
    <3>1. CASE fr.n = 0
      BY <2>1, <3>1 DEF ReportFrame
    <3>2. CASE fr.n # 0
      BY <2>1, <3>2 DEF ReportFrame, TypeOK, HistoryOK
    <3>3. QED
      BY <3>1, <3>2
  <2>2. CASE ShowReset
    BY <2>2 DEF ShowReset
  <2>3. CASE ~ReportFrame /\ ~ShowReset
    <3>1. zero' = zero
      BY <2>3 DEF Work, HandleFrame, Close, BeginFrame, ResolvePending, HandOver, ArmClick,
         NoSessionToUpdate, OpenSession, ContinueSession, NothingToClose, AwaitGrace,
         KeepDrag, FinishDrag, AwaitLift, Abandon, SuppressTap, EmitTap, Timeout,
         GraceTimeout, ClickTimeout, SetParams
    <3>2. QED
      BY <3>1
  <2>4. QED
    BY <2>1, <2>2, <2>3
<1>3. contact' \in Nat /\ contact' <= contact /\ (prev' = 0 => contact' = 0)
  BY <1>1 DEF Touching
<1>4. zero'.age < AgeMax => contact' <= zero'.age
  <2>1. CASE prev' = 0 /\ zero'.age \in Nat
    BY <1>3, <2>1
  <2>2. CASE zero'.age = zero.age
    <3>1. zero.age \in Nat
      BY DEF TypeOK, HistoryOK
    <3>2. QED
      BY <1>1, <1>3, <2>2, <3>1
  <2>3. QED
    BY <1>2, <2>1, <2>2
<1>5. QED
  BY <1>3, <1>4 DEF ContactClock

LEMMA TickAges ==
  ASSUME TypeOK, Tick, NEW k \in Fingers
  PROVE  /\ s'[k].active = s[k].active /\ s'[k].drag = s[k].drag
         /\ s'[k].rel = s[k].rel /\ s'[k].cand = s[k].cand /\ s'[k].mode = s[k].mode
         /\ s[k].active => s'[k].age = Older(s[k].age)
         /\ s[k].rel => s'[k].relAge = Older(s[k].relAge)
<1> DEFINE a == IF s[k].active THEN Older(s[k].age) ELSE s[k].age
           b == IF s[k].rel THEN Older(s[k].relAge) ELSE s[k].relAge
<1>1. s[k] \in Session
  BY SessionFields
<1>2. s'[k] = [s[k] EXCEPT !.age = a, !.relAge = b]
  BY DEF Tick
<1>3. (s[k].active => a = Older(s[k].age)) /\ (s[k].rel => b = Older(s[k].relAge))
  OBVIOUS
<1> HIDE DEF a, b
<1>4. /\ s'[k].active = s[k].active /\ s'[k].drag = s[k].drag
      /\ s'[k].rel = s[k].rel /\ s'[k].cand = s[k].cand /\ s'[k].mode = s[k].mode
      /\ s'[k].age = a /\ s'[k].relAge = b
  BY <1>1, <1>2 DEF Session
<1>5. QED
  BY <1>3, <1>4

LEMMA ContactTicks ==
  ASSUME TypeOK, ContactInv, ContactTick PROVE ContactInv'
<1>1. /\ Tick /\ UNCHANGED <<pc, fr, prev>> /\ pc = "idle"
      /\ contact' = IF prev # 0 /\ contact < ContactMax THEN contact + 1 ELSE contact
  BY DEF ContactTick, Tick
<1>2. contact \in Nat /\ contact' \in Nat /\ contact' <= contact + 1
      /\ (prev = 0 => contact' = 0)
  BY <1>1 DEF ContactInv, ContactClock
<1>3. zero.age \in 0..AgeMax /\ zero'.age = Older(zero.age)
  BY <1>1 DEF Tick, TypeOK, HistoryOK
<1>4. ContactClock'
  BY <1>1, <1>2, <1>3 DEF ContactInv, ContactClock, Older
<1>5. LeadInHand'
  BY <1>1 DEF ContactInv, LeadInHand
<1>6. ASSUME NEW k \in Fingers, MayTap(k)' PROVE TapBound(k)'
  <2>1. MayTap(k) /\ (s'[k].rel <=> s[k].rel)
    BY <1>1, <1>6, TickAges DEF MayTap
  <2>2. s'[k].age = Older(s[k].age) /\ (s[k].rel => s'[k].relAge = Older(s[k].relAge))
    BY <1>1, <2>1, TickAges DEF MayTap
  <2>3. /\ s[k].age \in 0..AgeMax /\ s[k].relAge \in 0..AgeMax /\ TapMax[k] \in Nat
        /\ Lead(k) \in Nat
    BY LeadOfFingers, SessionClocks
  <2>4. s'[k].age < AgeMax => contact' <= Lead(k) + s'[k].age
    BY <1>2, <2>1, <2>2, <2>3 DEF ContactInv, TapBound, Older
  <2>5. s'[k].rel => k # 1 /\ (s'[k].relAge < AgeMax
                                 => contact' <= Lead(k) + TapMax[k] + s'[k].relAge)
    BY <1>2, <2>1, <2>2, <2>3 DEF ContactInv, TapBound, Older
  <2>6. QED
    BY <2>4, <2>5 DEF TapBound
<1>7. \A k \in Fingers : TapBound(k)'
  BY <1>6 DEF TapBound
<1>8. QED
  BY <1>4, <1>5, <1>7 DEF ContactInv

LEMMA ContactStep ==
  TypeOK /\ DragInv /\ ContactInv /\ [ContactNext]_contactVars => ContactInv'
<1> SUFFICES ASSUME TypeOK, DragInv, ContactInv, [ContactNext]_contactVars PROVE ContactInv'
  OBVIOUS
<1>1. CASE ContactWork
  <2>1. ContactClock'
    BY <1>1, ClockWork DEF ContactWork
  <2>2. LeadInHand' /\ \A j \in Fingers : TapBound(j)'
    BY <1>1, ContactFrame, ContactElsewhere DEF ContactWork, Work
  <2>3. QED
    BY <2>1, <2>2 DEF ContactInv
<1>2. CASE UNCHANGED contactVars
  BY <1>2 DEF contactVars, vars, ContactInv, ContactClock, LeadInHand, TapBound, MayTap,
              Lead
<1>3. QED
  BY <1>1, <1>2, ContactTicks DEF ContactNext

\* A tap that is emitted is short.
LEMMA ShortStep ==
  ASSUME TypeOK, ContactInv, [ContactNext]_contactVars, pc = "close", pc' = "arm"
  PROVE  contact <= ContactLimit(fr.k)
<1>1. PICK k \in Fingers : EmitTap(k)
  <2>1. PICK k \in Fingers : Close(k)
    BY DEF ContactNext, ContactWork, ContactTick, contactVars, vars, Work, HandleFrame,
       BeginFrame, ResolvePending, HandOver, ArmClick, NoSessionToUpdate, OpenSession,
       ContinueSession, ReportFrame, Timeout, GraceTimeout, ClickTimeout, ShowReset,
       SetParams, Tick
  <2>2. EmitTap(k)
    BY <2>1 DEF Close, NothingToClose, AwaitGrace, KeepDrag, FinishDrag, AwaitLift,
       Abandon, SuppressTap, CloseNext
  <2>3. QED
    BY <2>2
<1>2. fr.k = k /\ MayTap(k) /\ TapDetected(k)
  BY <1>1 DEF EmitTap, Closing, TapDetected, MayTap
<1>3. /\ contact \in Nat /\ Lead(k) \in Nat /\ s[k].age \in Nat /\ s[k].relAge \in Nat
      /\ TapMax[k] \in Nat /\ TapMax[k] < AgeMax
  BY LeadOfFingers, SessionClocks DEF ContactInv, ContactClock
<1>4. ContactLimit(k) = Lead(k) + TapMax[k] + (IF k = 2 THEN RelMax ELSE 0)
  BY DEF ContactLimit, Lead
<1>5. CASE ~s[k].rel \/ k = 3
  <2>1. s[k].age <= TapMax[k]
    BY <1>2, <1>5 DEF TapDetected
  <2>2. contact <= Lead(k) + s[k].age
    BY <1>2, <1>3, <2>1 DEF ContactInv, TapBound
  <2>3. QED
    BY <1>2, <1>3, <1>4, <2>1, <2>2
<1>6. CASE s[k].rel /\ k # 3
  <2>1. k = 2 /\ s[k].relAge <= RelMax
    BY <1>2, <1>6 DEF TapDetected, ContactInv, TapBound
  <2>2. contact <= Lead(k) + TapMax[k] + s[k].relAge
    BY <1>2, <1>3, <1>6, <2>1 DEF ContactInv, TapBound
  <2>3. QED
    BY <1>2, <1>3, <1>4, <2>1, <2>2
<1>7. QED
  BY <1>5, <1>6

LEMMA ContactKeepsGestures == ContactSpec => Spec
<1>1. ContactInit => Init
  BY DEF ContactInit
<1>2. [ContactNext]_contactVars => [Next]_vars
  BY DEF ContactNext, ContactWork, ContactTick, contactVars, Next
<1>3. QED
  BY <1>1, <1>2, PTL DEF ContactSpec, Spec

\* No button is pressed or clicked at the end of a contact longer than
\* ContactLimit, however its fingers came and went.
THEOREM TapsAreShort == ContactSpec => TapIsShort
<1>1. ContactInit => ContactInv
  BY NoSessionFields
     DEF ContactInit, Init, ContactInv, ContactClock, LeadInHand, TapBound, MayTap,
         NoFrame, Handling
<1>2. TypeOK /\ ContactInv /\ [ContactNext]_contactVars
        => [pc = "close" /\ pc' = "arm" => contact <= ContactLimit(fr.k)]_contactVars
  BY ShortStep
<1>3. QED
  BY <1>1, <1>2, ContactStep, ContactKeepsGestures, TypeCorrect, DragsHold, PTL
     DEF ContactSpec, TapIsShort

-----------------------------------------------------------------------------
(* The attempt summary (module Iqs9151Summary).                            *)

USE SummaryAssumption DEF SummaryAssumption

\* The summary hears of every step of the gestures and disturbs none.
LEMMA SummaryStepIsContactStep == [SummaryNext]_summaryVars => [ContactNext]_contactVars
<1> SUFFICES ASSUME [SummaryNext]_summaryVars PROVE [ContactNext]_contactVars
  OBVIOUS
<1>1. CASE FrameBegins \/ FrameStep \/ GestureTimeout \/ DeviceReset \/ Tune
  <2>1. Work /\ Touching
    BY <1>1 DEF FrameBegins, FrameStep, HandleInside, GestureTimeout, DeviceReset, Tune,
       Work, HandleFrame
  <2>2. QED
    BY <2>1 DEF ContactNext, ContactWork
<1>2. CASE EmitSummary \/ SummaryTick
  BY <1>2 DEF EmitSummary, SummaryTick, ContactNext
<1>3. CASE UNCHANGED summaryVars
  BY <1>3 DEF summaryVars
<1>4. QED
  BY <1>1, <1>2, <1>3 DEF SummaryNext

\* Composed with the attempt summary, the gestures still are those of
\* Iqs9151Gesture and its contact clock: what is proved of them holds here too.
THEOREM SummaryKeepsGestures == SummarySpec => ContactSpec
<1>1. SummaryInit => ContactInit
  BY DEF SummaryInit
<1>2. QED
  BY <1>1, SummaryStepIsContactStep, PTL DEF SummarySpec, ContactSpec

LEMMA SummaryGestures == SummarySpec => Spec
  BY SummaryKeepsGestures, ContactKeepsGestures, PTL

LEMMA SummaryTapsAreShort == SummarySpec => TapIsShort
  BY SummaryKeepsGestures, TapsAreShort, PTL

\* The trackpad is touched, or the frame in hand says so.
Touched == prev # 0 \/ (pc # "idle" /\ fr.n # 0)

CoversInv ==
  /\ attempt \in Attempt
  /\ attempt.active <=> Touched \/ Armed(attempt.idle)
  /\ Touched => ~Armed(attempt.idle)

LEMMA IdleTimeType == IdleTime \in 0..IdleMax /\ Armed(IdleTime)
<1>1. Gap[1] \in Nat /\ Gap[2] \in Nat /\ Gap[3] \in Nat
  OBVIOUS
<1>2. IdleTime \in 0..IdleMax
  BY <1>1 DEF IdleTime, Smaller, Greater
<1>3. QED
  BY <1>2, OffType DEF Armed

LEMMA AttemptFields ==
  ASSUME NEW a \in Attempt
  PROVE  /\ a.active \in BOOLEAN /\ a.idle \in Off..IdleMax
         /\ a.contacts \in 0..ContactCap
  BY DEF Attempt

LEMMA AttemptIdle ==
  ASSUME NEW a \in Attempt, NEW idle \in Off..IdleMax
  PROVE  LET b == [a EXCEPT !.idle = idle]
         IN  b \in Attempt /\ b.active = a.active /\ b.idle = idle
  BY DEF Attempt

LEMMA AttemptStarts ==
  LET a == [active |-> TRUE, first |-> TRUE, contacts |-> 1, idle |-> Off]
  IN  a \in Attempt /\ a.active /\ ~Armed(a.idle)
  BY OffType DEF Attempt, Armed

LEMMA NoAttemptFields == NoAttempt \in Attempt /\ ~NoAttempt.active /\ ~Armed(NoAttempt.idle)
  BY OffType DEF NoAttempt, Attempt, Armed

LEMMA CoversBegin == ASSUME CoversInv, FrameBegins PROVE CoversInv'
<1>1. PICK f \in Frames : BeginFrame(f) /\ BeginAttempt(f.n)
  BY DEF FrameBegins
<1>2. pc = "idle" /\ pc' = "gate" /\ fr'.n = f.n /\ prev' = prev
  BY <1>1, BeginEffect
<1>3. CASE prev # 0 \/ f.n = 0
  BY <1>1, <1>2, <1>3 DEF BeginAttempt, CoversInv, Touched
<1>4. CASE prev = 0 /\ f.n # 0 /\ ~attempt.active
  BY <1>1, <1>2, <1>4, AttemptStarts DEF BeginAttempt, CoversInv, Touched
<1>5. CASE prev = 0 /\ f.n # 0 /\ attempt.active
  <2> DEFINE c == Smaller(attempt.contacts + 1, ContactCap)
  <2>1. attempt \in Attempt /\ attempt.contacts \in 0..ContactCap
    BY AttemptFields DEF CoversInv, Attempt
  <2>2. c \in 0..ContactCap /\ Off \in Off..IdleMax
    BY <2>1, OffType DEF Smaller
  <2>3. attempt' = [attempt EXCEPT !.contacts = c, !.idle = Off]
    BY <1>1, <1>5 DEF BeginAttempt
  <2> HIDE DEF c
  <2>4. attempt' \in Attempt /\ attempt'.active = attempt.active /\ attempt'.idle = Off
    BY <2>1, <2>2, <2>3 DEF Attempt
  <2>5. QED
    BY <1>2, <1>5, <2>4 DEF CoversInv, Touched, Armed
<1>6. QED
  BY <1>3, <1>4, <1>5

\* The steps of a frame keep it in hand, its fingers and those before it.
LEMMA InsideKeeps ==
  ASSUME TypeOK, DragInv, HandleInside
  PROVE  pc # "idle" /\ pc' # "idle" /\ fr'.n = fr.n /\ prev' = prev
<1>1. ASSUME NEW k \in Fingers, Close(k)
      PROVE  pc # "idle" /\ pc' # "idle" /\ fr'.n = fr.n /\ prev' = prev
  BY <1>1, CloseEffect, CloseNextFields DEF Closed, Emitted, TypeOK
<1>2. CASE ArmClick
  BY <1>2, ArmEffect, CloseNextFields DEF ArmClick, DragInv, Closed, TypeOK
<1>3. CASE ResolvePending \/ NoSessionToUpdate
  BY <1>3 DEF ResolvePending, NoSessionToUpdate
<1>4. CASE HandOver
  BY <1>4, HandOverEffect
<1>5. CASE OpenSession
  BY <1>5, OpenEffect
<1>6. CASE ContinueSession
  BY <1>6, ContinueEffect
<1>7. QED
  BY <1>1, <1>2, <1>3, <1>4, <1>5, <1>6 DEF HandleInside

LEMMA CoversFrame == ASSUME TypeOK, DragInv, CoversInv, FrameStep PROVE CoversInv'
<1>1. CASE HandleInside /\ UNCHANGED attempt
  BY <1>1, InsideKeeps DEF CoversInv, Touched
<1>2. CASE ReportFrame /\ EndFrame
  <2>1. pc = "report" /\ pc' = "idle" /\ prev' = fr.n
    BY <1>2 DEF ReportFrame
  <2>2. CASE attempt.active /\ fr.n = 0 /\ prev # 0
    <3>1. attempt' = [attempt EXCEPT !.first = FALSE, !.idle = IdleTime]
      BY <1>2, <2>2 DEF EndFrame
    <3>2. PICK first \in BOOLEAN :
            attempt' = [attempt EXCEPT !.first = first, !.idle = IdleTime]
      BY <3>1
    <3>3. IdleTime \in Off..IdleMax /\ Armed(IdleTime)
      BY IdleTimeType, OffType
    <3>4. /\ attempt' \in Attempt /\ attempt'.active = attempt.active
          /\ attempt'.idle = IdleTime
      <4> DEFINE idle == IdleTime
      <4>1. attempt \in Attempt /\ idle \in Off..IdleMax
            /\ attempt' = [attempt EXCEPT !.first = first, !.idle = idle]
        BY <3>2, <3>3 DEF CoversInv
      <4> HIDE DEF idle
      <4>2. attempt' \in Attempt /\ attempt'.active = attempt.active /\ attempt'.idle = idle
        BY <4>1, <3>2 DEF Attempt
      <4>3. QED
        BY <4>2 DEF idle
    <3>5. QED
      BY <2>1, <2>2, <3>3, <3>4 DEF CoversInv, Touched
  <2>3. CASE ~(attempt.active /\ fr.n = 0 /\ prev # 0)
    BY <1>2, <2>1, <2>3 DEF EndFrame, CoversInv, Touched
  <2>4. QED
    BY <2>2, <2>3
<1>3. QED
  BY <1>1, <1>2 DEF FrameStep

LEMMA CoversElsewhere ==
  ASSUME TypeOK, CoversInv,
         GestureTimeout \/ DeviceReset \/ Tune \/ EmitSummary \/ SummaryTick
  PROVE  CoversInv'
<1>1. CASE GestureTimeout \/ Tune
  <2>1. UNCHANGED <<pc, fr, prev, attempt>>
    BY <1>1 DEF GestureTimeout, Tune, Timeout, ClickTimeout, GraceTimeout, SetParams
  <2>2. QED
    BY <2>1 DEF CoversInv, Touched
<1>2. CASE DeviceReset
  <2>1. pc = "idle" /\ pc' = pc /\ prev' = 0 /\ attempt' = NoAttempt
    BY <1>2 DEF DeviceReset, ShowReset
  <2>2. QED
    BY <2>1, NoAttemptFields DEF CoversInv, Touched
<1>3. CASE EmitSummary
  <2>1. pc = "idle" /\ pc' = pc /\ prev' = prev /\ attempt' = NoAttempt
        /\ Armed(attempt.idle)
    BY <1>3 DEF EmitSummary, contactVars, vars, Due
  <2>2. QED
    BY <2>1, NoAttemptFields DEF CoversInv, Touched
<1>4. CASE SummaryTick
  <2>1. /\ pc = "idle" /\ UNCHANGED <<pc, fr, prev>> /\ ~Overdue(attempt.idle)
        /\ attempt' = [attempt EXCEPT !.idle = Later(@)]
    BY <1>4 DEF SummaryTick, ContactTick, Tick
  <2>2. attempt \in Attempt /\ attempt.idle \in Off..IdleMax
    BY AttemptFields DEF CoversInv, Attempt
  <2>3. Later(attempt.idle) \in Off..IdleMax
    BY <2>2, LaterType
  <2>4. /\ attempt' \in Attempt /\ attempt'.active = attempt.active
        /\ attempt'.idle = Later(attempt.idle)
    BY <2>1, <2>2, <2>3, AttemptIdle DEF Attempt
  <2>5. Armed(Later(attempt.idle)) <=> Armed(attempt.idle)
    BY <2>1, <2>2 DEF Later, Armed, Overdue, Off
  <2>6. QED
    BY <2>1, <2>4, <2>5 DEF CoversInv, Touched
<1>5. QED
  BY <1>1, <1>2, <1>3, <1>4

LEMMA CoversStep ==
  TypeOK /\ DragInv /\ CoversInv /\ [SummaryNext]_summaryVars => CoversInv'
<1> SUFFICES ASSUME TypeOK, DragInv, CoversInv, [SummaryNext]_summaryVars PROVE CoversInv'
  OBVIOUS
<1>1. CASE UNCHANGED summaryVars
  BY <1>1 DEF summaryVars, contactVars, vars, CoversInv, Touched
<1>2. QED
  BY <1>1, CoversBegin, CoversFrame, CoversElsewhere DEF SummaryNext

LEMMA SummaryCovers == SummarySpec => []CoversInv
<1>1. SummaryInit => CoversInv
  BY NoAttemptFields DEF SummaryInit, ContactInit, Init, CoversInv, Touched
<1>2. QED
  BY <1>1, CoversStep, SummaryGestures, TypeCorrect, DragsHold, PTL DEF SummarySpec

\* Every touch belongs to one attempt, and none is summed up before its lift.
THEOREM AttemptsCover == SummarySpec => []AttemptCovers
<1>1. CoversInv => AttemptCovers
  BY DEF CoversInv, Touched, AttemptCovers
<1>2. QED
  BY <1>1, SummaryCovers, PTL

-----------------------------------------------------------------------------
(* SummaryIsComplete: the summary falls due after every other work, and      *)
(* whoever owned a button has released it by then.                           *)

\* The summary waits at least as long as any deferred click or grace.
IdleOutlastsGestures == (\A k \in Fingers : Gap[k] <= IdleMax) /\ Grace <= IdleTime

\* A frame without fingers on an untouched trackpad finds and leaves nothing
\* open but a drag in its grace.
QuietFrame == pc # "idle" /\ prev = 0 /\ fr.n = 0 => \A k \in Fingers : Lifted(k)

\* No work is due after the summary.
IdleLast ==
  Armed(attempt.idle) => /\ \A k \in Fingers : click[k] <= attempt.idle
                         /\ grace <= attempt.idle

\* A step cancels works, and schedules or puts off none.
OnlyCancels ==
  /\ \A k \in Fingers : click'[k] \in {Off, click[k]}
  /\ grace' \in {Off, grace}

LEMMA TimerTypes ==
  ASSUME TypeOK
  PROVE  /\ \A k \in Fingers : click[k] \in Int /\ click[k] <= Gap[k]
         /\ grace \in Int /\ grace <= Grace
<1>1. \A k \in Fingers : click[k] \in Off..Gap[k] /\ Gap[k] \in Int
  BY DEF TypeOK, PendingOK
<1>2. grace \in Off..Grace
  BY DEF TypeOK, SessionOK
<1>3. QED
  BY <1>1, <1>2, OffType

LEMMA ForgetCancels ==
  ASSUME NEW K, Forget(K) PROVE \A k \in Fingers : click'[k] \in {Off, click[k]}
  BY DEF Forget

LEMMA ResetCancels == ASSUME NEW k, Reset(k) PROVE grace' \in {Off, grace}
  BY DEF Reset

LEMMA CloseCancels ==
  ASSUME TypeOK, NEW k \in Fingers, Close(k), Lifted(k) PROVE OnlyCancels
<1>1. CASE NothingToClose(k) \/ KeepDrag(k) \/ AwaitLift(k) \/ EmitTap(k)
  BY <1>1 DEF NothingToClose, KeepDrag, AwaitLift, EmitTap, KeepPending, OnlyCancels
<1>2. CASE AwaitGrace(k)
  BY <1>2 DEF AwaitGrace, Lifted, KeepPending, OnlyCancels
<1>3. CASE FinishDrag(k) \/ SuppressTap(k)
  BY <1>3, ResetCancels DEF FinishDrag, SuppressTap, KeepPending, OnlyCancels
<1>4. CASE Abandon(k)
  BY <1>4, ResetCancels, ForgetCancels DEF Abandon, OnlyCancels
<1>5. QED
  BY <1>1, <1>2, <1>3, <1>4 DEF Close

\* In such a frame no session opens, goes on or is armed for a click.
LEMMA QuietCancels ==
  ASSUME TypeOK, StagedInv, HandleInside, fr.n = 0, \A k \in Fingers : Lifted(k)
  PROVE  OnlyCancels
<1>1. ASSUME NEW k \in Fingers, Close(k) PROVE OnlyCancels
  BY <1>1, CloseCancels
<1>2. ~ArmClick /\ ~OpenSession /\ ~ContinueSession
  BY DEF ArmClick, StagedInv, Lifted, OpenSession, ContinueSession
<1>3. CASE ResolvePending
  BY <1>3, ForgetCancels DEF ResolvePending, OnlyCancels
<1>4. CASE HandOver
  BY <1>4 DEF HandOver, KeepPending, OnlyCancels
<1>5. CASE NoSessionToUpdate
  BY <1>5 DEF NoSessionToUpdate, KeepPending, OnlyCancels
<1>6. QED
  BY <1>1, <1>2, <1>3, <1>4, <1>5 DEF HandleInside

LEMMA QuietLifts ==
  ASSUME TypeOK, DragInv, StagedInv, HandleInside, fr.n = 0, \A k \in Fingers : Lifted(k)
  PROVE  \A k \in Fingers : Lifted(k)'
<1>1. ASSUME NEW k \in Fingers, Close(k) PROVE \A j \in Fingers : Lifted(j)'
  BY <1>1, CloseEffect, NoSessionFields DEF Closed, GoesOn, Emitted, Lifted
<1>2. ~ArmClick /\ ~OpenSession /\ ~ContinueSession
  BY DEF ArmClick, StagedInv, Lifted, OpenSession, ContinueSession
<1>3. CASE ResolvePending \/ NoSessionToUpdate
  BY <1>3 DEF ResolvePending, NoSessionToUpdate, Lifted
<1>4. CASE HandOver
  BY <1>4, HandOverEffect, NoSessionFields DEF Lifted
<1>5. QED
  BY <1>1, <1>2, <1>3, <1>4 DEF HandleInside

LEMMA QuietStep ==
  ASSUME TypeOK, DragInv, LiftInv, StagedInv, QuietFrame, [SummaryNext]_summaryVars
  PROVE  QuietFrame'
<1>1. CASE FrameBegins
  <2>1. PICK f \in Frames : BeginFrame(f)
    BY <1>1 DEF FrameBegins
  <2>2. pc = "idle" /\ UNCHANGED <<s, prev>>
    BY <2>1, BeginEffect
  <2>3. QED
    BY <2>2 DEF LiftInv, QuietFrame, Lifted
<1>2. CASE HandleInside
  <2>1. pc # "idle" /\ fr'.n = fr.n /\ prev' = prev
    BY <1>2, InsideKeeps
  <2>2. QED
    BY <1>2, <2>1, QuietLifts DEF QuietFrame
<1>3. CASE ReportFrame \/ DeviceReset \/ SummaryTick
  <2>1. pc' = "idle"
    BY <1>3 DEF ReportFrame, DeviceReset, ShowReset, SummaryTick, ContactTick, Tick
  <2>2. QED
    BY <2>1 DEF QuietFrame
<1>4. CASE GestureTimeout
  <2>1. pc' = "idle"
    BY <1>4 DEF GestureTimeout, Timeout, ClickTimeout, GraceTimeout
  <2>2. QED
    BY <2>1 DEF QuietFrame
<1>5. CASE Tune \/ EmitSummary \/ UNCHANGED summaryVars
  BY <1>5 DEF Tune, SetParams, EmitSummary, summaryVars, contactVars, vars, QuietFrame, Lifted
<1>6. QED
  BY <1>1, <1>2, <1>3, <1>4, <1>5 DEF SummaryNext, FrameStep

LEMMA IdleTimeOutlasts ==
  ASSUME IdleOutlastsGestures
  PROVE  IdleTime \in Int /\ Grace <= IdleTime /\ \A k \in Fingers : Gap[k] <= IdleTime
<1>1. Gap[1] \in Nat /\ Gap[2] \in Nat /\ Gap[3] \in Nat
  OBVIOUS
<1>2. /\ Gap[1] <= IdleTime /\ Gap[2] <= IdleTime /\ Gap[3] <= IdleTime
      /\ IdleTime \in Int
  BY <1>1 DEF IdleOutlastsGestures, IdleTime, Smaller, Greater
<1>3. QED
  BY <1>2 DEF IdleOutlastsGestures

\* An armed timer lies above Off.
LEMMA ArmedAboveOff ==
  ASSUME CoversInv, Armed(attempt.idle)
  PROVE  attempt.idle \in Int /\ Off <= attempt.idle
<1>1. attempt.idle \in Off..IdleMax
  BY AttemptFields DEF CoversInv
<1>2. QED
  BY <1>1, OffType

LEMMA LastCancels ==
  ASSUME CoversInv, IdleLast, OnlyCancels, attempt' = attempt PROVE IdleLast'
  BY ArmedAboveOff DEF IdleLast, OnlyCancels, Armed

LEMMA LastTick ==
  ASSUME TypeOK, CoversInv, IdleLast, SummaryTick PROVE IdleLast'
<1>1. /\ attempt' = [attempt EXCEPT !.idle = Later(@)] /\ ~Overdue(attempt.idle)
      /\ grace' = Later(grace) /\ \A k \in Fingers : click'[k] = Later(click[k])
  BY DEF SummaryTick, ContactTick, Tick
<1>2. attempt'.idle = Later(attempt.idle) /\ attempt.idle \in Off..IdleMax
  BY <1>1, AttemptFields DEF CoversInv, Attempt
<1>3. ASSUME Armed(attempt'.idle), NEW t \in Int, t <= attempt.idle
      PROVE  Later(t) <= attempt'.idle
  BY <1>1, <1>2, <1>3 DEF Later, Armed, Overdue, Off
<1>4. Armed(attempt'.idle) => Armed(attempt.idle)
  BY <1>2 DEF Later, Armed
<1>5. QED
  BY <1>1, <1>3, <1>4, TimerTypes DEF IdleLast, Armed

LEMMA LastStep ==
  ASSUME IdleOutlastsGestures, TypeOK, DragInv, StagedInv, CoversInv, QuietFrame,
         IdleLast, [SummaryNext]_summaryVars
  PROVE  IdleLast'
<1>1. CASE FrameBegins
  <2>1. PICK f \in Frames : BeginFrame(f) /\ BeginAttempt(f.n)
    BY <1>1 DEF FrameBegins
  <2>2. (attempt' = attempt /\ OnlyCancels) \/ ~Armed(attempt'.idle)
    <3>1. CASE prev # 0 \/ f.n = 0
      BY <2>1, <3>1 DEF BeginAttempt, BeginFrame, OnlyCancels
    <3>2. CASE prev = 0 /\ f.n # 0 /\ ~attempt.active
      BY <2>1, <3>2, AttemptStarts DEF BeginAttempt
    <3>3. CASE prev = 0 /\ f.n # 0 /\ attempt.active
      BY <2>1, <3>3 DEF BeginAttempt, CoversInv, Attempt, Armed
    <3>4. QED
      BY <3>1, <3>2, <3>3
  <2>3. QED
    BY <2>2, LastCancels DEF IdleLast, Armed
<1>2. CASE HandleInside /\ UNCHANGED attempt
  <2>1. CASE Touched
    BY <1>2, <2>1 DEF CoversInv, IdleLast, Armed
  <2>2. CASE ~Touched
    <3>1. prev = 0 /\ fr.n = 0 /\ pc # "idle"
      BY <1>2, <2>2, InsideKeeps DEF Touched
    <3>2. QED
      BY <1>2, <3>1, QuietCancels, LastCancels DEF QuietFrame
  <2>3. QED
    BY <2>1, <2>2
<1>3. CASE ReportFrame /\ EndFrame
  <2>1. OnlyCancels
    BY <1>3 DEF ReportFrame, KeepPending, OnlyCancels
  <2>2. CASE attempt.active /\ fr.n = 0 /\ prev # 0
    <3>1. attempt'.idle = IdleTime
      BY <1>3, <2>2 DEF EndFrame, CoversInv, Attempt
    <3>2. UNCHANGED <<click, grace>>
      BY <1>3 DEF ReportFrame, KeepPending
    <3>3. \A k \in Fingers : click[k] <= IdleTime /\ Gap[k] \in Int
      BY TimerTypes, IdleTimeOutlasts
    <3>4. grace <= IdleTime
      BY TimerTypes, IdleTimeOutlasts
    <3>5. QED
      BY <3>1, <3>2, <3>3, <3>4 DEF IdleLast
  <2>3. CASE ~(attempt.active /\ fr.n = 0 /\ prev # 0)
    BY <1>3, <2>1, <2>3, LastCancels DEF EndFrame
  <2>4. QED
    BY <2>2, <2>3
<1>4. CASE GestureTimeout
  <2>1. OnlyCancels
    BY <1>4, ForgetCancels, ResetCancels
       DEF GestureTimeout, Timeout, ClickTimeout, GraceTimeout, KeepPending, OnlyCancels
  <2>2. QED
    BY <1>4, <2>1, LastCancels DEF GestureTimeout
<1>5. CASE Tune \/ UNCHANGED summaryVars
  BY <1>5 DEF Tune, SetParams, summaryVars, contactVars, vars, IdleLast, Armed
<1>6. CASE DeviceReset \/ EmitSummary
  BY <1>6, NoAttemptFields DEF DeviceReset, EmitSummary, IdleLast
<1>7. CASE SummaryTick
  BY <1>7, LastTick
<1>8. QED
  BY <1>1, <1>2, <1>3, <1>4, <1>5, <1>6, <1>7 DEF SummaryNext, FrameStep

\* An untouched trackpad with no work left has no button down.
LEMMA NothingDown ==
  ASSUME TypeOK, TimersArmed, HoldOwned, LatchIsDown, PinchReported, LiftInv,
         pc = "idle", prev = 0, ~Armed(grace), \A k \in Fingers : ~Armed(click[k])
  PROVE  down = {}
<1>1. \A k \in Fingers : ~pend[k]
  BY DEF TimersArmed, ClickArmed
<1>2. \A k \in Fingers : ~s[k].active
  BY DEF TimersArmed, GraceArmed, LiftInv, Lifted
<1>3. \A k \in Fingers : hold # k
  BY <1>1, <1>2 DEF HoldOwned
<1>4. Pinch \notin down
  BY <1>2 DEF PinchReported
<1>5. QED
  BY <1>3, <1>4 DEF LatchIsDown, TypeOK, HoldOK

LEMMA CompleteStep ==
  ASSUME TypeOK, TimersArmed, HoldOwned, LatchIsDown, PinchReported, LiftInv,
         CoversInv, IdleLast, [SummaryNext]_summaryVars,
         attempt.active, ~attempt'.active, Due(attempt.idle), UNCHANGED contactVars
  PROVE  down = {}
<1>1. Armed(attempt.idle) /\ attempt.idle <= 0 /\ attempt' # attempt
  BY DEF Due
<1>2. prev = 0
  BY <1>1 DEF CoversInv, Touched
<1>3. CASE EmitSummary
  <2>1. pc = "idle" /\ NothingDueBefore(attempt.idle)
    BY <1>3 DEF EmitSummary
  <2>2. \A k \in Fingers : ~Armed(click[k])
    BY <1>1, <2>1, TimerTypes, ArmedAboveOff DEF NothingDueBefore, IdleLast
  <2>3. ~Armed(grace)
    BY <1>1, <2>1, TimerTypes, ArmedAboveOff DEF NothingDueBefore, IdleLast
  <2>4. QED
    BY <1>2, <2>1, <2>2, <2>3, NothingDown
<1>4. CASE DeviceReset
  <2>1. pc = "idle" /\ UNCHANGED <<grace, click>> /\ grace' = Off
        /\ \A k \in Fingers : click'[k] = Off
    BY <1>4 DEF DeviceReset, ShowReset, Forget, contactVars, vars
  <2>2. QED
    BY <1>2, <2>1, NothingDown DEF Armed
<1>5. CASE FrameBegins
  BY <1>5 DEF FrameBegins, BeginFrame, contactVars, vars
<1>6. CASE ReportFrame /\ EndFrame
  BY <1>6 DEF ReportFrame, contactVars, vars
<1>7. CASE SummaryTick
  <2>1. attempt' = [attempt EXCEPT !.idle = Later(@)]
    BY <1>7 DEF SummaryTick
  <2>2. attempt'.active = attempt.active
    BY <2>1 DEF CoversInv, Attempt
  <2>3. QED
    BY <2>2
<1>8. QED
  BY <1>1, <1>3, <1>4, <1>5, <1>6, <1>7
     DEF SummaryNext, FrameStep, GestureTimeout, Tune, summaryVars

\* Whatever button a tap or a drag left down is released by the time of the
\* attempt's summary, as long as no press-and-hold option is switched and the
\* summary waits at least as long as the deferred clicks and the drag's grace.
THEOREM SummariesAreComplete ==
  PressFixed /\ IdleOutlastsGestures => (SummarySpec => SummaryIsComplete)
<1> SUFFICES ASSUME PressFixed, IdleOutlastsGestures
             PROVE  SummarySpec => SummaryIsComplete
  OBVIOUS
<1>1. SummaryInit => QuietFrame /\ IdleLast
  BY NoAttemptFields DEF SummaryInit, ContactInit, Init, QuietFrame, IdleLast
<1>2. /\ TypeOK /\ DragInv /\ LiftInv /\ StagedInv /\ CoversInv
      /\ QuietFrame /\ IdleLast /\ [SummaryNext]_summaryVars
      => QuietFrame' /\ IdleLast'
  BY QuietStep, LastStep
<1>3. /\ TypeOK /\ TimersArmed /\ HoldOwned /\ LatchIsDown /\ PinchReported /\ LiftInv
      /\ CoversInv /\ IdleLast /\ [SummaryNext]_summaryVars
      => [attempt.active /\ ~attempt'.active /\ Due(attempt.idle) /\ UNCHANGED contactVars
            => down = {}]_summaryVars
  BY CompleteStep
<1>4. Spec => []HoldOwned
  BY HoldAlwaysOwned
<1>5. SummarySpec => [](QuietFrame /\ IdleLast)
  BY <1>1, <1>2, SummaryGestures, SummaryCovers, TypeCorrect, DragsHold, LiftHolds,
     StagedHolds, PTL DEF SummarySpec
<1>6. QED
  BY <1>3, <1>4, <1>5, SummaryGestures, SummaryCovers, TypeCorrect, TimersAlwaysArmed,
     LatchAlwaysDown, PinchAlwaysReported, LiftHolds, PTL
     DEF SummarySpec, SummaryIsComplete
=============================================================================
