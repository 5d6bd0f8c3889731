------------------------ MODULE DynamicScalerProofs ------------------------
(***************************************************************************)
(* Proofs about DynamicScaler: for any set of groups and threads and any   *)
(* range of scales, the scale stays within its bounds, less than a unit of *)
(* movement is lost -- altogether, or per event without a remainder -- and *)
(* no change of the scale is forgotten by the save.  And about the         *)
(* processor that runs its behaviors: for any run of events, mapped        *)
(* buttons become positions and nothing else.                              *)
(***************************************************************************)
EXTENDS MCDynamicScaler, BasicProofs, TLAPS

USE ScalerAssumption DEF ScalerAssumption

-----------------------------------------------------------------------------
(* The operators.                                                          *)

LEMMA WordSizeType == WordSize \in Nat /\ WordSize > 0
  BY DEF WordSize

LEMMA WordsWrap == ASSUME NEW i \in Int PROVE i % WordSize \in Words
  BY WordSizeType DEF Words

LEMMA ScaleBounds ==
  /\ ScaleMin \in Int /\ ScaleMax \in Int /\ ScaleDefault \in Int
  /\ 0 < ScaleMin /\ ScaleMin <= ScaleDefault /\ ScaleDefault <= ScaleMax
  /\ ScaleMax <= WordSize - 1
<1>1. ScaleMin \in Nat \ {0} /\ ScaleMax \in 0..(WordSize - 1)
  BY DEF Words
<1>2. ScaleDefault \in ScaleMin..ScaleMax
  BY DEF Scales
<1>3. QED
  BY <1>1, <1>2, WordSizeType

LEMMA ScalesAreWords == Scales \subseteq Words /\ Words \subseteq Int
<1>1. \A s \in ScaleMin..ScaleMax : s \in 0..(WordSize - 1)
  BY ScaleBounds, WordSizeType
<1>2. \A w \in 0..(WordSize - 1) : w \in Int
  BY WordSizeType
<1>3. QED
  BY <1>1, <1>2 DEF Scales, Words

\* The store holds a word or nothing.
LEMMA CellsHold == /\ Words \subseteq Cells /\ Absent \in Cells
                   /\ \A c \in Cells : c # Absent => c \in Words
<1>1. \A w \in 0..(WordSize - 1) : w \in (-1)..(WordSize - 1)
  BY WordSizeType
<1>2. -1 \in (-1)..(WordSize - 1)
  BY WordSizeType
<1>3. \A c \in (-1)..(WordSize - 1) : c # -1 => c \in 0..(WordSize - 1)
  BY WordSizeType
<1>4. QED
  BY <1>1, <1>2, <1>3 DEF Words, Cells, Absent

\* A clamped request is a scale, and a scale is left alone.
LEMMA ClampInScales ==
  ASSUME NEW v \in Int PROVE Clamp(v) \in ScaleMin..ScaleMax
  BY ScaleBounds DEF Clamp

LEMMA ClampKeeps ==
  ASSUME NEW s \in ScaleMin..ScaleMax PROVE Clamp(s) = s
  BY ScaleBounds DEF Clamp

\* Dividing as C does leaves less than ten tenths either way.
LEMMA TenthLeaves ==
  ASSUME NEW x \in Int
  PROVE  /\ Tenth(x) \in Int
         /\ x - 10 * Tenth(x) \in (-9)..9
  BY DEF Tenth

\* The calls behaviors make.
LEMMA NewCall ==
  ASSUME NEW g \in Groups, NEW v \in Words
  PROVE  /\ [at |-> "set", g |-> g, v |-> v] \in Calls
         /\ [at |-> "set", g |-> g, v |-> v].at = "set"
  BY DEF Calls

LEMMA StoredCall ==
  ASSUME NEW c \in Calls
  PROVE  /\ c.g \in Groups /\ c.v \in Words
         /\ [c EXCEPT !.at = "schedule"] \in Calls
         /\ [c EXCEPT !.at = "schedule"].at = "schedule"
         /\ [c EXCEPT !.at = "schedule"].g = c.g
  BY DEF Calls, Free

LEMMA FreeCall == Free.at = "free"
  BY DEF Free

-----------------------------------------------------------------------------
(* Type correctness.                                                       *)

LEMMA InitType == Init => ScalerTypeOK
<1> SUFFICES ASSUME Init PROVE ScalerTypeOK
  OBVIOUS
<1>1. scale \in [Groups -> Scales] /\ stored \in [Groups -> Cells]
  BY CellsHold DEF Init
<1>2. /\ rem \in [Groups -> (-9)..9] /\ owed \in [Groups -> Int]
      /\ vals \in [Groups -> Words]
  <2>1. 0 \in (-9)..9 /\ 0 \in Int /\ 0 \in Words
    BY WordSizeType DEF Words
  <2>2. QED
    BY <2>1 DEF Init
<1>3. call \in [Threads -> Calls \cup {Free}]
  BY FreeCall DEF Init
<1>4. saver \in [read : SUBSET Groups, write : SUBSET Groups]
  BY DEF Init
<1>5. /\ armed \in BOOLEAN /\ loaded \subseteq Groups /\ failed \subseteq Groups
      /\ tracked \subseteq Groups
  BY DEF Init
<1>6. QED
  BY <1>1, <1>2, <1>3, <1>4, <1>5 DEF ScalerTypeOK

LEMMA BeginType ==
  ASSUME ScalerTypeOK, NEW t \in Threads, NEW g \in Groups, NEW v \in Words,
         Begin(t, g, v)
  PROVE  ScalerTypeOK'
<1>1. call' \in [Threads -> Calls \cup {Free}]
  BY NewCall DEF Begin, ScalerTypeOK
<1>2. QED
  BY <1>1 DEF Begin, ScalerTypeOK, Event, Saver

LEMMA ChangeType ==
  ASSUME ScalerTypeOK, NEW t \in Threads, Change(t) PROVE ScalerTypeOK'
<1>1. ASSUME NEW g \in Groups, NEW by \in {-1, 1}, Step(t, g, by)
      PROVE  ScalerTypeOK'
  <2>1. scale[g] \in Int
    BY ScalesAreWords DEF ScalerTypeOK
  <2>2. by \in Int
    OBVIOUS
  <2>3. (scale[g] + by) % WordSize \in Words
    BY <2>1, <2>2, WordsWrap
  <2>4. QED
    BY <1>1, <2>2, <2>3, BeginType DEF Step
<1>2. ASSUME NEW g \in Groups, NEW v \in Requests, SetTo(t, g, v)
      PROVE  ScalerTypeOK'
  BY <1>2, BeginType DEF SetTo
<1>3. ASSUME NEW g \in Groups, Reset(t, g) PROVE ScalerTypeOK'
  BY <1>3, BeginType, ScalesAreWords DEF Reset
<1>4. ASSUME Store(t) PROVE ScalerTypeOK'
  <2>1. call[t] \in Calls
    BY <1>4, FreeCall DEF Store, ScalerTypeOK
  <2>2. call[t].g \in Groups /\ Clamp(call[t].v) \in Scales
    BY <2>1, StoredCall, ClampInScales, ScalesAreWords DEF Scales
  <2>3. scale' \in [Groups -> Scales]
    BY <1>4, <2>2 DEF Store, ScalerTypeOK
  <2>4. call' = [call EXCEPT ![t] = [call[t] EXCEPT !.at = "schedule"]]
    BY <1>4 DEF Store
  <2>5. call' \in [Threads -> Calls \cup {Free}]
    BY <2>1, <2>4, StoredCall DEF ScalerTypeOK
  <2>6. QED
    BY <1>4, <2>3, <2>5 DEF Store, ScalerTypeOK, Event, Saver
<1>5. ASSUME Schedule(t) PROVE ScalerTypeOK'
  BY <1>5, FreeCall DEF Schedule, ScalerTypeOK, Event
<1>6. QED
  BY <1>1, <1>2, <1>3, <1>4, <1>5 DEF Change

LEMMA SaveType == ASSUME ScalerTypeOK, Save PROVE ScalerTypeOK'
<1>1. ASSUME BeginSaving PROVE ScalerTypeOK'
  BY <1>1 DEF BeginSaving, ScalerTypeOK, Event
<1>2. ASSUME NEW g \in Groups, ReadScale(g) PROVE ScalerTypeOK'
  <2>1. vals' \in [Groups -> Words]
    BY <1>2, ScalesAreWords DEF ReadScale, ScalerTypeOK
  <2>2. saver' \in [read : SUBSET Groups, write : SUBSET Groups]
    BY <1>2 DEF ReadScale, ScalerTypeOK
  <2>3. QED
    BY <1>2, <2>1, <2>2 DEF ReadScale, ScalerTypeOK, Event
<1>3. ASSUME NEW g \in Groups, WriteScale(g) PROVE ScalerTypeOK'
  <2>1. saver' \in [read : SUBSET Groups, write : SUBSET Groups]
    BY <1>3 DEF WriteScale, ScalerTypeOK
  <2>2. stored' \in [Groups -> Cells] /\ failed' \subseteq Groups
    BY <1>3, CellsHold DEF WriteScale, ScalerTypeOK
  <2>3. QED
    BY <1>3, <2>1, <2>2 DEF WriteScale, ScalerTypeOK, Event
<1>4. QED
  BY <1>1, <1>2, <1>3 DEF Save

LEMMA LoadType ==
  ASSUME ScalerTypeOK, NEW g \in Groups, Load(g) PROVE ScalerTypeOK'
<1>1. stored[g] # Absent => Clamp(stored[g]) \in Scales
  BY ClampInScales, ScalesAreWords, CellsHold DEF ScalerTypeOK, Scales
<1>2. scale' \in [Groups -> Scales] /\ failed' \subseteq Groups
  BY <1>1 DEF Load, ScalerTypeOK
<1>3. QED
  BY <1>2 DEF Load, ScalerTypeOK, Event

LEMMA ScaleType ==
  ASSUME ScalerTypeOK, NEW g \in Groups, NEW m \in Moves, Scale(g, m)
  PROVE  ScalerTypeOK'
<1> DEFINE p     == m * scale[g]
           exact == p + Kept(g, rem[g])
           out   == Tenth(exact)
<1>1. p \in Int
  <2>1. m \in Int /\ scale[g] \in Int
    BY ScalesAreWords DEF ScalerTypeOK
  <2>2. QED
    BY <2>1
<1>2. Kept(g, rem[g]) \in Int /\ Kept(g, owed[g]) \in Int
  BY DEF ScalerTypeOK, Kept
<1> HIDE DEF p
<1>3. exact \in Int
  BY <1>1, <1>2
<1>4. out \in Int /\ exact - 10 * out \in (-9)..9
  BY <1>3, TenthLeaves
<1>5. /\ Kept(g, exact - 10 * out) \in (-9)..9
      /\ Kept(g, owed[g]) + p - 10 * out \in Int
  BY <1>1, <1>2, <1>4 DEF Kept
<1>6. /\ rem' = [rem EXCEPT ![g] = Kept(g, exact - 10 * out)]
      /\ owed' = [owed EXCEPT ![g] = Kept(g, owed[g]) + p - 10 * out]
  BY DEF Scale, Scaled, p
<1> HIDE DEF exact, out
<1>7. /\ rem' \in [Groups -> (-9)..9]
      /\ owed' \in [Groups -> Int]
  BY <1>5, <1>6 DEF ScalerTypeOK
<1>8. QED
  BY <1>7 DEF Scale, Scaled, ScalerTypeOK, Saver

LEMMA NextType == ScalerTypeOK /\ [Next]_vars => ScalerTypeOK'
<1> SUFFICES ASSUME ScalerTypeOK, [Next]_vars PROVE ScalerTypeOK'
  OBVIOUS
<1>1. CASE UNCHANGED vars
  BY <1>1 DEF vars, ScalerTypeOK
<1>2. CASE Next
  BY <1>2, ChangeType, SaveType, LoadType, ScaleType DEF Next
<1>3. QED
  BY <1>1, <1>2

\* Whatever is requested, stepped or loaded, the scale stays within its bounds.
THEOREM ScalerTypeCorrect == Spec => []ScalerTypeOK
  BY InitType, NextType, PTL DEF Spec

-----------------------------------------------------------------------------
(* What is lost: the history of what is owed is what a processor keeps as  *)
(* its remainder, and without one it is what a division leaves.            *)

OwedIsKept ==
  \A g \in Groups : IF g \in tracked THEN owed[g] = rem[g] ELSE owed[g] \in (-9)..9

LEMMA OwedStep == ScalerTypeOK /\ OwedIsKept /\ [Next]_vars => OwedIsKept'
<1> SUFFICES ASSUME ScalerTypeOK, OwedIsKept, [Next]_vars PROVE OwedIsKept'
  OBVIOUS
<1>1. ASSUME UNCHANGED Event PROVE OwedIsKept'
  BY <1>1 DEF Event, OwedIsKept
<1>2. ASSUME NEW g \in Groups, NEW m \in Moves, Scale(g, m) PROVE OwedIsKept'
  <2> DEFINE p     == m * scale[g]
             exact == p + Kept(g, rem[g])
             out   == Tenth(exact)
  <2>1. p \in Int
    <3>1. m \in Int /\ scale[g] \in Int
      BY ScalesAreWords DEF ScalerTypeOK
    <3>2. QED
      BY <3>1
  <2>2. /\ rem' = [rem EXCEPT ![g] = Kept(g, exact - 10 * out)]
        /\ owed' = [owed EXCEPT ![g] = Kept(g, owed[g]) + p - 10 * out]
        /\ tracked' = tracked
    BY <1>2 DEF Scale, Scaled
  <2> HIDE DEF p
  <2>3. /\ Kept(g, owed[g]) = Kept(g, rem[g]) /\ Kept(g, rem[g]) \in Int
        /\ rem[g] \in Int
    BY DEF ScalerTypeOK, OwedIsKept, Kept
  <2>4. out \in Int /\ exact - 10 * out \in (-9)..9
    BY <2>1, <2>3, TenthLeaves
  <2>5. Kept(g, owed[g]) + p - 10 * out = exact - 10 * out
    BY <2>1, <2>3, <2>4
  <2> HIDE DEF exact, out
  <2>6. owed'[g] = exact - 10 * out /\ rem'[g] = Kept(g, exact - 10 * out)
    BY <2>2, <2>5 DEF ScalerTypeOK
  <2>7. IF g \in tracked THEN owed'[g] = rem'[g] ELSE owed'[g] \in (-9)..9
    BY <2>4, <2>6 DEF Kept
  <2>8. QED
    BY <2>2, <2>7 DEF ScalerTypeOK, OwedIsKept
<1>3. QED
  BY <1>1, <1>2 DEF Next, vars, Event, Change, Save, Step, SetTo, Reset, Begin, Store,
     Schedule, BeginSaving, ReadScale, WriteScale, Load

\* With a remainder, what is reported over any run of events differs from the
\* exactly scaled movement by less than a unit, whatever the scale does on the
\* way; without one, what is reported of a single event does.
THEOREM LossAlwaysBounded == Spec => []LossIsBounded
<1>1. Init => OwedIsKept
  <2>1. 0 \in (-9)..9
    OBVIOUS
  <2>2. QED
    BY <2>1 DEF Init, OwedIsKept
<1>2. ASSUME ScalerTypeOK, OwedIsKept PROVE LossIsBounded
  <2>1. \A r \in (-9)..9 : -10 < r /\ r < 10
    OBVIOUS
  <2>2. QED
    BY <1>2, <2>1 DEF ScalerTypeOK, OwedIsKept, LossIsBounded
<1>3. QED
  BY <1>1, <1>2, OwedStep, ScalerTypeCorrect, PTL DEF Spec

-----------------------------------------------------------------------------
(* No change is forgotten.  ChangeIsSaved alone is not inductive: while    *)
(* the save is at work its copies must be those of now or another save     *)
(* must be due, even for a group whose last write has failed, and before   *)
(* the load is done nothing may be written.                                *)

Pending(g) == armed \/ Scheduling(g)

SaveInv ==
  /\ saver.read \subseteq saver.write
  /\ saver.write # {} => loaded = Groups
  /\ \A g \in Groups \ loaded : scale[g] = ScaleDefault \/ Pending(g)
  /\ \A g \in saver.write \ saver.read : vals[g] = scale[g] \/ Pending(g)
  /\ ChangeIsSaved

LEMMA SaveInvInit == Init => SaveInv
  BY DEF Init, SaveInv, ChangeIsSaved

\* A behavior call that leaves the scale alone keeps what is pending.
LEMMA SaveInvBegin ==
  ASSUME ScalerTypeOK, SaveInv, NEW t \in Threads, NEW g, NEW v,
         Begin(t, g, v)
  PROVE  SaveInv'
<1>1. \A u \in Threads : call[u].at = "schedule" => call'[u] = call[u]
  BY FreeCall DEF Begin, ScalerTypeOK
<1>2. \A h \in Groups : Scheduling(h) => Scheduling(h)'
  BY <1>1 DEF Scheduling
<1>3. /\ saver' = saver /\ armed' = armed /\ vals' = vals /\ stored' = stored
      /\ failed' = failed /\ loaded' = loaded /\ scale' = scale
  BY DEF Begin, Saver
<1>4. \A h \in Groups : Pending(h) => Pending(h)'
  BY <1>2, <1>3 DEF Pending
<1>5. ChangeIsSaved'
  BY <1>2, <1>3 DEF SaveInv, ChangeIsSaved, Restored, SavingNow, ScalerTypeOK
<1>6. QED
  BY <1>3, <1>4, <1>5 DEF SaveInv, ScalerTypeOK

LEMMA SaveInvStore ==
  ASSUME ScalerTypeOK, SaveInv, NEW t \in Threads, Store(t)
  PROVE  SaveInv'
<1>1. call[t] \in Calls
  BY FreeCall DEF Store, ScalerTypeOK
<1>2. /\ call'[t].at = "schedule" /\ call'[t].g = call[t].g
      /\ \A u \in Threads \ {t} : call'[u] = call[u]
  <2>1. call' = [call EXCEPT ![t] = [call[t] EXCEPT !.at = "schedule"]]
    BY DEF Store
  <2>2. QED
    BY <1>1, <2>1, StoredCall DEF ScalerTypeOK
<1>3. \A h \in Groups : Scheduling(h) => Scheduling(h)'
  BY <1>2 DEF Scheduling, Store
<1>4. Scheduling(call[t].g)'
  BY <1>2 DEF Scheduling
<1>5. \A h \in Groups : h # call[t].g => scale'[h] = scale[h]
  BY DEF Store, ScalerTypeOK
<1>6. QED
  BY <1>3, <1>4, <1>5
  DEF Store, Saver, SaveInv, ChangeIsSaved, Pending, Restored, SavingNow, ScalerTypeOK

LEMMA SaveInvSchedule ==
  ASSUME SaveInv, NEW t \in Threads, Schedule(t) PROVE SaveInv'
  BY DEF Schedule, SaveInv, ChangeIsSaved, Pending, Restored, SavingNow

LEMMA SaveInvSave ==
  ASSUME ScalerTypeOK, SaveInv, Save PROVE SaveInv'
<1>1. ASSUME BeginSaving PROVE SaveInv'
  <2>1. loaded' = Groups /\ saver'.read = Groups /\ saver'.write = Groups
    BY <1>1 DEF BeginSaving
  <2>2. \A g \in Groups : SavingNow(g)'
    BY <2>1 DEF SavingNow
  <2>3. ChangeIsSaved'
    BY <2>1, <2>2 DEF ChangeIsSaved, ScalerTypeOK
  <2>4. QED
    BY <2>1, <2>3 DEF SaveInv
<1>2. ASSUME NEW g \in Groups, ReadScale(g) PROVE SaveInv'
  <2>1. /\ saver'.read = saver.read \ {g} /\ saver'.write = saver.write
        /\ vals'[g] = scale[g] /\ \A h \in Groups \ {g} : vals'[h] = vals[h]
    BY <1>2 DEF ReadScale, ScalerTypeOK
  <2>2. QED
    BY <1>2, <2>1 DEF ReadScale, SaveInv, ChangeIsSaved, Pending, SavingNow, Scheduling,
       Restored, ScalerTypeOK
<1>3. ASSUME NEW g \in Groups, WriteScale(g) PROVE SaveInv'
  <2>1. saver'.read = {} /\ saver'.write = saver.write \ {g} /\ g \in saver.write
    BY <1>3 DEF WriteScale, ScalerTypeOK
  <2>2. /\ \A h \in Groups \ {g} : stored'[h] = stored[h]
        /\ \A h \in Groups \ {g} : h \in failed' <=> h \in failed
        /\ g \in failed' \/ stored'[g] = vals[g]
    BY <1>3 DEF WriteScale, ScalerTypeOK
  <2>3. Clamp(scale[g]) = scale[g] /\ scale[g] # Absent
    <3>1. \A s \in ScaleMin..ScaleMax : s # -1
      BY ScaleBounds
    <3>2. scale[g] \in ScaleMin..ScaleMax
      BY DEF ScalerTypeOK, Scales
    <3>3. QED
      BY <3>1, <3>2, ClampKeeps DEF Absent
  <2>4. QED
    BY <1>3, <2>1, <2>2, <2>3 DEF WriteScale, SaveInv, ChangeIsSaved, Pending, SavingNow,
       Scheduling, Restored, ScalerTypeOK
<1>4. QED
  BY <1>1, <1>2, <1>3 DEF Save

LEMMA SaveInvLoad ==
  ASSUME ScalerTypeOK, SaveInv, NEW g \in Groups, Load(g) PROVE SaveInv'
<1>1. saver.write = {} /\ saver.read = {}
  BY DEF Load, SaveInv, ScalerTypeOK
<1>2. /\ \A h \in Groups \ {g} : scale'[h] = scale[h]
      /\ \A h \in Groups \ {g} : h \in failed' <=> h \in failed
      /\ \/ scale'[g] = IF stored[g] = Absent THEN scale[g] ELSE Clamp(stored[g])
         \/ g \in failed'
  BY DEF Load, ScalerTypeOK
<1>3. \A h \in Groups : Pending(h)' <=> Pending(h)
  BY DEF Load, Pending, Scheduling
<1>4. saver' = saver /\ stored' = stored /\ loaded' = loaded \cup {g}
  BY DEF Load
<1>5. \A h \in Groups \ loaded' : scale'[h] = ScaleDefault \/ Pending(h)'
  BY <1>2, <1>3, <1>4 DEF SaveInv
<1>6. Restored(g)' = scale'[g] \/ Pending(g)' \/ g \in failed'
  <2>1. CASE stored[g] = Absent
    BY <2>1, <1>2, <1>3, <1>4 DEF Load, SaveInv, Restored
  <2>2. CASE stored[g] # Absent
    BY <2>2, <1>2, <1>4 DEF Restored
  <2>3. QED
    BY <2>1, <2>2
<1>7. \A h \in (loaded \ failed) \ {g} : Restored(h)' = scale'[h] \/ Pending(h)'
  <2> SUFFICES ASSUME NEW h \in (loaded \ failed) \ {g}
               PROVE  Restored(h)' = scale'[h] \/ Pending(h)'
    OBVIOUS
  <2>1. h \in Groups
    BY DEF ScalerTypeOK
  <2>2. Restored(h) = scale[h] \/ Pending(h)
    BY <1>1 DEF SaveInv, ChangeIsSaved, SavingNow, Pending
  <2>3. QED
    BY <2>1, <2>2, <1>2, <1>3, <1>4 DEF Restored
<1>8. ChangeIsSaved'
  <2>1. \A h \in loaded' \ failed' : h = g \/ h \in (loaded \ failed) \ {g}
    BY <1>2, <1>4 DEF ScalerTypeOK
  <2>2. \A h \in loaded' \ failed' : Restored(h)' = scale'[h] \/ Pending(h)'
    BY <2>1, <1>6, <1>7
  <2>3. QED
    BY <2>2 DEF ChangeIsSaved, Pending
<1>9. QED
  BY <1>1, <1>4, <1>5, <1>8 DEF SaveInv

\* While the next start would come up with another scale, a save is due, at
\* work with the scale of now, or about to be scheduled.
THEOREM ChangesAreSaved == Spec => []ChangeIsSaved
<1>1. ASSUME ScalerTypeOK, SaveInv, [Next]_vars PROVE SaveInv'
  <2>1. CASE UNCHANGED vars
    BY <1>1, <2>1 DEF vars, SaveInv, ChangeIsSaved, Pending, SavingNow, Scheduling, Restored
  <2>2. ASSUME NEW t \in Threads, Change(t) PROVE SaveInv'
    <3>1. ASSUME NEW g \in Groups, NEW v, Begin(t, g, v) PROVE SaveInv'
      BY <1>1, <3>1, SaveInvBegin
    <3>2. QED
      BY <1>1, <2>2, <3>1, SaveInvStore, SaveInvSchedule DEF Change, Step, SetTo, Reset
  <2>3. CASE Save
    BY <1>1, <2>3, SaveInvSave
  <2>4. ASSUME NEW g \in Groups, Load(g) PROVE SaveInv'
    BY <1>1, <2>4, SaveInvLoad
  <2>5. ASSUME NEW g \in Groups, NEW m \in Moves, Scale(g, m) PROVE SaveInv'
    BY <1>1, <2>5 DEF Scale, Scaled, Saver, SaveInv, ChangeIsSaved, Pending, SavingNow, Scheduling,
       Restored
  <2>6. QED
    BY <1>1, <2>1, <2>2, <2>3, <2>4, <2>5 DEF Next
<1>2. SaveInv => ChangeIsSaved
  BY DEF SaveInv
<1>3. QED
  BY <1>1, <1>2, SaveInvInit, ScalerTypeCorrect, PTL DEF Spec

-----------------------------------------------------------------------------
(* The behaviors-consume processor.                                        *)

\* The position of a code.
Pos(c) == SelectInSeq(Codes, LAMBDA d : d = c)

LEMMA CodesAreListed ==
  /\ Len(Codes) \in Nat /\ DOMAIN Codes = 1..Len(Codes)
  /\ \A c : c \in ToSet(Codes) <=> \E i \in 1..Len(Codes) : Codes[i] = c
<1>1. Codes \in Seq(ToSet(Codes))
  BY ConsumeAssumption DEF ConsumeAssumption
<1>2. Len(Codes) \in Nat /\ DOMAIN Codes = 1..Len(Codes)
  BY <1>1
<1>3. QED
  BY <1>2 DEF ToSet

\* It is 0 for a code that is not mapped, and differs from code to code.
LEMMA PosFacts ==
  ASSUME NEW c
  PROVE  /\ Pos(c) \in Nat
         /\ Pos(c) # 0 <=> c \in ToSet(Codes)
         /\ c \in ToSet(Codes) => Codes[Pos(c)] = c
<1> DEFINE I == {i \in 1..Len(Codes) : Codes[i] = c}
<1>1. Pos(c) = IF I # {} THEN Min(I) ELSE 0
  BY DEF Pos, SelectInSeq
<1>2. I \in SUBSET Nat /\ (I # {} <=> c \in ToSet(Codes))
  BY CodesAreListed
<1>3. \A i \in I : i # 0 /\ Codes[i] = c
  OBVIOUS
<1> HIDE DEF I
<1>4. CASE I # {}
  <2>1. Min(I) \in I
    BY <1>2, <1>4, MinOf
  <2>2. QED
    BY <1>1, <1>2, <1>3, <1>4, <2>1
<1>5. QED
  BY <1>1, <1>2, <1>4

\* An event that has a say in the state of c, and the last of them among the
\* first n of a run.
Speaks(e, c) == e.code = c /\ (e.fails => c \notin ToSet(Codes))
LastAt(run, n, c) ==
  \E i \in 1..n : /\ Speaks(run[i], c) /\ run[i].down
                  /\ \A j \in 1..n : Speaks(run[j], c) => j <= i

LEMMA LastNext ==
  ASSUME NEW run, NEW n \in Nat, NEW c
  PROVE  LastAt(run, n + 1, c) <=>
           IF Speaks(run[n + 1], c) THEN run[n + 1].down ELSE LastAt(run, n, c)
<1>1. 1..n + 1 = (1..n) \cup {n + 1} /\ n + 1 \in 1..n + 1
  OBVIOUS
<1>2. \A i \in 1..n : i \in Int /\ i <= n + 1 /\ ~(n + 1 <= i)
  OBVIOUS
<1>3. CASE Speaks(run[n + 1], c)
  <2>1. n + 1 <= n + 1
    OBVIOUS
  <2>2. ASSUME LastAt(run, n + 1, c) PROVE run[n + 1].down
    BY <1>1, <1>2, <1>3, <2>2 DEF LastAt
  <2>3. ASSUME run[n + 1].down PROVE LastAt(run, n + 1, c)
    BY <1>1, <1>2, <1>3, <2>1, <2>3 DEF LastAt
  <2>4. QED
    BY <1>3, <2>2, <2>3
<1>4. CASE ~Speaks(run[n + 1], c)
  BY <1>1, <1>2, <1>4 DEF LastAt
<1>5. QED
  BY <1>3, <1>4

LEMMA LastSaysSo ==
  ASSUME NEW run \in Seq(Inputs), NEW c
  PROVE  LastSays(run, c) <=> LastAt(run, Len(run), c)
<1> DEFINE I == {i \in 1..Len(run) : Speaks(run[i], c)}
           i == IF I # {} THEN Max(I) ELSE 0
<1>1. LastSays(run, c) <=> i # 0 /\ run[i].down
  BY DEF LastSays, SelectLastInSeq, Speaks
<1>2. Len(run) \in Nat /\ I \in SUBSET (1..Len(run))
  OBVIOUS
<1>3. I # {} => Max(I) \in I /\ \A j \in I : Max(I) >= j
  BY <1>2, IndexLeft
<1>4. CASE I = {}
  <2>1. ~LastAt(run, Len(run), c)
    BY <1>4 DEF LastAt
  <2>2. QED
    BY <1>1, <1>4, <2>1
<1>5. CASE I # {}
  <2> DEFINE m == Max(I)
  <2>1. m \in I /\ \A j \in I : m >= j
    BY <1>3, <1>5
  <2> HIDE DEF m
  <2>2. m \in 1..Len(run) /\ Speaks(run[m], c) /\ m # 0
        /\ \A j \in 1..Len(run) : Speaks(run[j], c) => j <= m
    BY <1>2, <2>1
  <2>3. LastAt(run, Len(run), c) <=> run[m].down
    <3>1. ASSUME NEW k \in 1..Len(run), Speaks(run[k], c),
                 \A j \in 1..Len(run) : Speaks(run[j], c) => j <= k
          PROVE  k = m
      <4>1. k <= m /\ m <= k /\ k \in Int /\ m \in Int
        BY <1>2, <2>2, <3>1
      <4>2. QED
        BY <4>1
    <3>2. QED
      BY <2>2, <3>1 DEF LastAt
  <2>4. QED
    BY <1>1, <1>5, <2>2, <2>3 DEF m
<1>6. QED
  BY <1>4, <1>5

\* What may be held down, and the run of events taken one by one.
HeldDown == [positions : SUBSET Nat, host : SUBSET (Buttons \cup {"BTN_8"})]

LEMMA HandledIsHeld ==
  ASSUME NEW s \in HeldDown, NEW e \in Inputs
  PROVE  HandleEvent(s, e) \in HeldDown
<1>1. e.code \in Buttons /\ Pos(e.code) \in Nat
  BY PosFacts DEF Inputs
<1>2. Listen(s, e) \in HeldDown
  BY <1>1 DEF Listen, Put, HeldDown
<1>3. InvokeBinding(s, Pos(e.code), e) \in HeldDown
  BY <1>1 DEF InvokeBinding, Put, HeldDown
<1>4. \A x \in HeldDown : Listen(x, Neutralized(e)) \in HeldDown
  BY DEF Listen, Put, HeldDown, Neutralized, Inputs
<1>5. HandleEvent(s, e)
        = CASE Pos(e.code) = 0 -> Listen(s, e)
            [] Pos(e.code) # 0 /\ e.fails -> s
            [] Pos(e.code) # 0 /\ ~e.fails ->
                 Listen(InvokeBinding(s, Pos(e.code), e), Neutralized(e))
  BY DEF HandleEvent, Pos
<1>6. QED
  BY <1>1, <1>2, <1>3, <1>4, <1>5

LEMMA HandledSteps ==
  ASSUME NEW run \in Seq(Inputs)
  PROVE  \E f \in [0..Len(run) -> HeldDown] :
           /\ f[0] = Nothing /\ f[Len(run)] = Handled(run)
           /\ \A n \in 1..Len(run) : f[n] = HandleEvent(f[n - 1], run[n])
<1> DEFINE N == Len(run)
           D == DOMAIN run
           E(g) == [s \in SUBSET D |->
                      IF s = {} THEN Nothing ELSE HandleEvent(g[s \ {Max(s)}], run[Max(s)])]
           step == [n \in 1..N |-> [s \in HeldDown |-> HandleEvent(s, run[n])]]
           fold == CHOOSE g : g = E(g)
<1>1. Handled(run) = fold[D]
  BY DEF Handled, FoldLeft, MapThenFoldSet
<1>2. N \in Nat /\ D = 1..N /\ Nothing \in HeldDown
  BY DEF Nothing, HeldDown
<1>3. ASSUME NEW n \in 1..N, NEW s \in HeldDown PROVE HandleEvent(s, run[n]) \in HeldDown
  BY HandledIsHeld
<1>4. step \in [1..N -> [HeldDown -> HeldDown]]
  BY <1>3
<1>5. fold = E(fold)
  <2>1. PICK g \in [SUBSET (1..N) -> HeldDown] : IsFold(g, N, Nothing, step)
    <3> HIDE DEF step, N
    <3>1. QED
      BY <1>2, <1>4, FoldExists, Zenon
  <2>2. ASSUME NEW s \in SUBSET D
        PROVE  g[s] = IF s = {} THEN Nothing ELSE HandleEvent(g[s \ {Max(s)}], run[Max(s)])
    <3>1. g[s] = IF s = {} THEN Nothing ELSE step[Max(s)][g[s \ {Max(s)}]]
      BY <1>2, <2>1 DEF IsFold
    <3>2. s # {} => Max(s) \in 1..N /\ g[s \ {Max(s)}] \in HeldDown
      BY <1>2, IndexLeft
    <3>3. QED
      BY <3>1, <3>2
  <2>3. g = E(g)
    BY <1>2, <2>2
  <2>4. QED
    BY <2>3
<1> HIDE DEF fold
<1>6. fold[{}] = Nothing
  BY <1>5
<1>7. ASSUME NEW n \in 1..N, fold[1..n - 1] \in HeldDown
      PROVE  fold[1..n] = step[n][fold[1..n - 1]]
  <2>1. /\ 1..n \in SUBSET (1..N) /\ 1..n # {}
        /\ Max(1..n) = n /\ (1..n) \ {Max(1..n)} = 1..n - 1
    BY <1>2, IndexSets
  <2>2. fold[1..n] = HandleEvent(fold[1..n - 1], run[n])
    BY <1>2, <1>5, <2>1
  <2>3. QED
    BY <1>7, <2>2
<1>8. PICK f \in [0..N -> HeldDown] : IsCourse(f, N, Nothing, step, fold[1..N])
  <2> HIDE DEF step, N
  <2>1. QED
    BY <1>2, <1>4, <1>6, <1>7, FoldCourse, Zenon
<1>9. ASSUME NEW n \in 1..N PROVE f[n] = HandleEvent(f[n - 1], run[n])
  <2>1. f[n - 1] \in HeldDown /\ f[n] = step[n][f[n - 1]]
    <3> HIDE DEF step, N
    <3>1. n - 1 \in 0..N
      BY <1>2
    <3>2. QED
      BY <1>8, <3>1 DEF IsCourse
  <2>2. QED
    BY <2>1
<1>10. QED
  BY <1>1, <1>2, <1>8, <1>9 DEF IsCourse

\* What is held down after the first n events of a run.
RightlyHeld(s, run, n) ==
  /\ s.host = {c \in Buttons \ ToSet(Codes) : LastAt(run, n, c)}
  /\ s.positions = {Pos(c) : c \in {b \in ToSet(Codes) : LastAt(run, n, b)}}

LEMMA EventIsHandled ==
  ASSUME NEW run \in Seq(Inputs), NEW n \in Nat, n + 1 \in 1..Len(run),
         NEW s \in HeldDown, RightlyHeld(s, run, n)
  PROVE  RightlyHeld(HandleEvent(s, run[n + 1]), run, n + 1)
<1> DEFINE e == run[n + 1]
           p == Pos(e.code)
           t == HandleEvent(s, e)
<1>1. e \in Inputs
  OBVIOUS
<1>2. e.code \in Buttons /\ e.code # "BTN_8" /\ e.down \in BOOLEAN /\ e.fails \in BOOLEAN
  BY <1>1, ConsumeAssumption DEF ConsumeAssumption, Inputs
<1>3. \A c : LastAt(run, n + 1, c) <=> IF Speaks(e, c) THEN e.down ELSE LastAt(run, n, c)
  BY LastNext
<1>4. t = CASE p = 0 -> Listen(s, e)
            [] p # 0 /\ e.fails -> s
            [] p # 0 /\ ~e.fails -> Listen(InvokeBinding(s, p, e), Neutralized(e))
  BY DEF HandleEvent, Pos
<1>5. p # 0 <=> e.code \in ToSet(Codes)
  BY PosFacts
<1>6. /\ s.host = {c \in Buttons \ ToSet(Codes) : LastAt(run, n, c)}
      /\ s.positions = {Pos(c) : c \in {b \in ToSet(Codes) : LastAt(run, n, b)}}
      /\ s = [positions |-> s.positions, host |-> s.host]
  BY DEF RightlyHeld, HeldDown
<1> HIDE DEF e, t
<1>7. CASE p = 0
  <2>1. t.positions = s.positions /\ t.host = Put(s.host, e.code, e.down)
    BY <1>4, <1>6, <1>7 DEF Listen
  <2>2. e.code \notin ToSet(Codes) /\ \A c : Speaks(e, c) <=> c = e.code
    BY <1>5, <1>7 DEF Speaks
  <2>3. t.host = {c \in Buttons \ ToSet(Codes) : LastAt(run, n + 1, c)}
    <3>1. CASE e.down
      BY <1>2, <1>3, <1>6, <2>1, <2>2, <3>1 DEF Put
    <3>2. CASE ~e.down
      BY <1>2, <1>3, <1>6, <2>1, <2>2, <3>2 DEF Put
    <3>3. QED
      BY <3>1, <3>2
  <2>4. \A b \in ToSet(Codes) : LastAt(run, n + 1, b) <=> LastAt(run, n, b)
    BY <1>3, <2>2
  <2>5. t.positions = {Pos(c) : c \in {b \in ToSet(Codes) : LastAt(run, n + 1, b)}}
    BY <1>6, <2>1, <2>4
  <2>6. QED
    BY <2>3, <2>5 DEF RightlyHeld, t, e
<1>8. CASE p # 0 /\ e.fails
  <2>1. t = s
    BY <1>4, <1>8
  <2>2. \A c : ~Speaks(e, c)
    BY <1>5, <1>8 DEF Speaks
  <2>3. \A c : LastAt(run, n + 1, c) <=> LastAt(run, n, c)
    BY <1>3, <2>2
  <2>4. RightlyHeld(t, run, n + 1)
    BY <1>6, <2>1, <2>3 DEF RightlyHeld
  <2>5. QED
    BY <2>4 DEF t, e
<1>9. CASE p # 0 /\ ~e.fails
  <2>1. t = Listen(InvokeBinding(s, p, e), Neutralized(e))
    BY <1>4, <1>9
  <2>2. InvokeBinding(s, p, e) = [positions |-> Put(s.positions, p, e.down), host |-> s.host]
    BY <1>6, <1>9 DEF InvokeBinding
  <2>3. Neutralized(e).code = "BTN_8" /\ Neutralized(e).down = FALSE
    BY <1>1 DEF Neutralized, Inputs
  <2>4. t = [positions |-> Put(s.positions, p, e.down), host |-> Put(s.host, "BTN_8", FALSE)]
    <3> DEFINE i == InvokeBinding(s, p, e)
               k == Neutralized(e)
    <3>1. t = [i EXCEPT !.host = Put(@, k.code, k.down)]
      BY <2>1 DEF Listen
    <3> HIDE DEF i, k
    <3>2. i = [positions |-> Put(s.positions, p, e.down), host |-> s.host]
      BY <2>2 DEF i
    <3>3. k.code = "BTN_8" /\ k.down = FALSE
      BY <2>3 DEF k
    <3>4. QED
      BY <3>1, <3>2, <3>3
  <2>5. e.code \in ToSet(Codes) /\ \A c : Speaks(e, c) <=> c = e.code
    BY <1>5, <1>9 DEF Speaks
  <2>6. t.host = s.host
    <3>1. "BTN_8" \notin s.host
      BY <1>6, ConsumeAssumption DEF ConsumeAssumption
    <3>2. QED
      BY <2>4, <3>1 DEF Put
  <2>7. t.host = {c \in Buttons \ ToSet(Codes) : LastAt(run, n + 1, c)}
    BY <1>3, <1>6, <2>5, <2>6
  <2>8. \A b \in ToSet(Codes) : Pos(b) = p => b = e.code
    BY <2>5, PosFacts
  <2>9. t.positions = {Pos(c) : c \in {b \in ToSet(Codes) : LastAt(run, n + 1, b)}}
    <3>1. CASE e.down
      <4>1. t.positions = s.positions \cup {p}
        BY <2>4, <3>1 DEF Put
      <4>2. QED
        BY <1>3, <1>6, <2>5, <3>1, <4>1
    <3>2. CASE ~e.down
      <4>1. t.positions = s.positions \ {p}
        BY <2>4, <3>2 DEF Put
      <4>2. QED
        BY <1>3, <1>6, <2>5, <2>8, <3>2, <4>1
    <3>3. QED
      BY <3>1, <3>2
  <2>10. QED
    BY <2>7, <2>9 DEF RightlyHeld, t, e
<1>10. QED
  BY <1>2, <1>7, <1>8, <1>9

\* Whatever buttons are mapped and however long the run of events, whichever of
\* the bindings fail: the host holds the buttons that are not mapped, and the
\* keymap the positions of those that are, as the last event with a say in it
\* left them (ip_behaviors_consume_handle_event).
THEOREM RunIsConsumed ==
  ASSUME NEW run \in Seq(Inputs)
  PROVE  LET s == Handled(run)
         IN  /\ s.host = {c \in Buttons \ ToSet(Codes) : LastSays(run, c)}
             /\ s.positions = {Pos(c) : c \in {b \in ToSet(Codes) : LastSays(run, b)}}
<1> DEFINE N == Len(run)
<1>1. N \in Nat
  OBVIOUS
<1>2. PICK f \in [0..N -> HeldDown] :
         /\ f[0] = Nothing /\ f[N] = Handled(run)
         /\ \A n \in 1..N : f[n] = HandleEvent(f[n - 1], run[n])
  BY HandledSteps
<1> DEFINE Right(n) == RightlyHeld(f[n], run, n)
           P == {n \in Nat : n <= N => Right(n)}
<1>3. Right(0)
  <2>1. \A c : ~LastAt(run, 0, c)
    BY DEF LastAt
  <2>2. QED
    BY <1>2, <2>1 DEF RightlyHeld, Nothing
<1>4. ASSUME NEW n \in Nat, n + 1 <= N, Right(n) PROVE Right(n + 1)
  <2>1. n \in 0..N /\ n + 1 \in 1..N /\ n + 1 - 1 = n
    BY <1>1, <1>4
  <2>2. f[n] \in HeldDown /\ f[n + 1] = HandleEvent(f[n], run[n + 1])
    BY <1>2, <2>1
  <2>3. QED
    BY <1>4, <2>1, <2>2, EventIsHandled
<1> HIDE DEF Right
<1>5. 0 \in P /\ \A n \in Nat : n \in P => n + 1 \in P
  BY <1>1, <1>3, <1>4
<1>6. \A n \in Nat : n \in P
  <2> HIDE DEF P
  <2>1. QED
    BY <1>5, Grows
<1>7. RightlyHeld(Handled(run), run, N)
  BY <1>1, <1>2, <1>6 DEF Right
<1>8. \A c : LastSays(run, c) <=> LastAt(run, N, c)
  BY LastSaysSo
<1>9. QED
  BY <1>7, <1>8 DEF RightlyHeld

\* So for the runs that are tried.
COROLLARY ButtonsAreAlwaysConsumed == ButtonsAreConsumed
<1> SUFFICES ASSUME NEW run \in BoundedSeq(Inputs, MaxInputs)
             PROVE  LET s == Handled(run)
                    IN  /\ s.host = {c \in Buttons \ ToSet(Codes) : LastSays(run, c)}
                        /\ s.positions = {SelectInSeq(Codes, LAMBDA d : d = c) :
                                            c \in {b \in ToSet(Codes) : LastSays(run, b)}}
  BY DEF ButtonsAreConsumed
<1>1. run \in Seq(Inputs)
  BY ConsumeAssumption DEF ConsumeAssumption, BoundedSeq, SeqOf
<1>2. QED
  BY <1>1, RunIsConsumed DEF Pos

\* In every state, so in the one where it is computed: mapped buttons become
\* positions, and only the others reach the host.
THEOREM MappedAlwaysConsumed == Spec => []MappedAreConsumed
<1>1. MappedAreConsumed
  BY ButtonsAreAlwaysConsumed DEF MappedAreConsumed
<1>2. QED
  BY <1>1, PTL
============================================================================
