--------------------------- MODULE DynamicScaler ---------------------------
(***************************************************************************)
(* The dynamic scaler (input_processors/input_processor_dynamic_scaler.c): *)
(* a factor per group, in tenths, applied to movement, changed by the      *)
(* behaviors zip_dynamic_scale and zip_dynamic_scale_set, and saved to     *)
(* flash some time after the last change.                                  *)
(*                                                                         *)
(* Behaviors run in the keymap's thread, and in the input thread when the  *)
(* behaviors-consume processor invokes them.  A change is a store into an  *)
(* atomic and then a k_work_reschedule of the save; the save, on the       *)
(* system queue, reads the factors and then writes them one by one.  (The  *)
(* debounced build.  ZDS_ALL is one call per group.)                       *)
(*                                                                         *)
(* Whether a processor is given a place for its remainder is up to the     *)
(* input listener, which is part of ZMK.                                   *)
(***************************************************************************)
EXTENDS Integers

CONSTANTS
  Groups,     \* ZDS_XY and ZDS_SC
  Threads,    \* the threads that run behaviors
  ScaleMin, ScaleMax, ScaleDefault,   \* in tenths
  Requests,   \* the arguments of zip_dynamic_scale_set
  AtStart,    \* what the store may hold for a group at the start, or nothing
  Moves,      \* values of a movement event
  Faults      \* whether an access to the store may fail

Scales == ScaleMin..ScaleMax

\* uint16_t.
WordSize == 65536
Words    == 0..(WordSize - 1)

\* What the store holds for a group: a word, or nothing.
Absent == -1
Cells  == Absent..(WordSize - 1)

ASSUME ScalerAssumption ==
  /\ ScaleMin \in Nat \ {0} /\ ScaleMax \in Words /\ ScaleDefault \in Scales
  /\ Requests \subseteq Words /\ AtStart \subseteq Words
  /\ Moves \subseteq Int
  /\ Faults \in BOOLEAN

VARIABLES
  scale,     \* scale_x10
  tracked,   \* the groups whose processor is given a place for its remainder
  rem,       \* the remainder of a processor of each group, in tenths
  call,      \* the behavior call each thread is in
  armed,     \* scale_save_work is scheduled
  saver,     \* save_scale_cb: the groups it has still to read and to write
  vals,      \* its copies val0 and val1
  stored,    \* what the store holds
  loaded,    \* the groups settings_load has treated
  failed,    \* history: the last access to the store for the group failed
  owed       \* history: scaled movement not reported, in tenths: of all events
             \* so far, or of the last one where no remainder is tracked

vars == <<scale, tracked, rem, call, armed, saver, vals, stored, loaded, failed, owed>>

Event == <<tracked, rem, owed>>
Saver == <<armed, saver, vals, stored, failed>>

\* clamp_scale_x10.
Clamp(v) == IF v < ScaleMin THEN ScaleMin ELSE IF v > ScaleMax THEN ScaleMax ELSE v

-----------------------------------------------------------------------------
(* The behaviors: what is stored, then the save is scheduled.              *)

Free == [at |-> "free"]

Begin(t, g, v) ==
  /\ call[t] = Free
  /\ call' = [call EXCEPT ![t] = [at |-> "set", g |-> g, v |-> v]]
  /\ UNCHANGED <<scale, Event, Saver, loaded>>

\* zmk_zip_dynamic_scaler_step reads the scale and goes on from there.
Step(t, g, by) == Begin(t, g, (scale[g] + by) % WordSize)

SetTo(t, g, v) == Begin(t, g, v)

Reset(t, g) == Begin(t, g, ScaleDefault)

\* set_scale_x10_internal.
Store(t) ==
  /\ call[t].at = "set"
  /\ scale' = [scale EXCEPT ![call[t].g] = Clamp(call[t].v)]
  /\ call' = [call EXCEPT ![t].at = "schedule"]
  /\ UNCHANGED <<Event, Saver, loaded>>

\* Mutant: nothing is scheduled while the save is at work.
ScheduleUnlessRunning(t) ==
  /\ call[t].at = "schedule"
  /\ armed' = (armed \/ saver.write = {})
  /\ call' = [call EXCEPT ![t] = Free]
  /\ UNCHANGED <<scale, Event, saver, vals, stored, failed, loaded>>

\* schedule_save.
Schedule(t) ==
  /\ call[t].at = "schedule"
  /\ armed' = TRUE
  /\ call' = [call EXCEPT ![t] = Free]
  /\ UNCHANGED <<scale, Event, saver, vals, stored, failed, loaded>>

-----------------------------------------------------------------------------
(* The save.  The debounce is longer than the start takes.                 *)

BeginSaving ==
  /\ armed /\ saver.write = {}
  /\ loaded = Groups
  /\ armed' = FALSE
  /\ saver' = [read |-> Groups, write |-> Groups]
  /\ UNCHANGED <<scale, Event, call, vals, stored, failed, loaded>>

ReadScale(g) ==
  /\ g \in saver.read
  /\ vals' = [vals EXCEPT ![g] = scale[g]]
  /\ saver' = [saver EXCEPT !.read = @ \ {g}]
  /\ UNCHANGED <<scale, Event, call, armed, stored, failed, loaded>>

\* settings_save_one; nobody looks at its result.
WriteScale(g) ==
  /\ saver.read = {} /\ g \in saver.write
  /\ \/ /\ stored' = [stored EXCEPT ![g] = vals[g]]
        /\ failed' = failed \ {g}
     \/ /\ Faults
        /\ failed' = failed \cup {g}
        /\ UNCHANGED stored
  /\ saver' = [saver EXCEPT !.write = @ \ {g}]
  /\ UNCHANGED <<scale, Event, call, armed, vals, loaded>>

-----------------------------------------------------------------------------
(* Loading, at the start: dyn_scaler_settings_set.                         *)

\* A value of another length, or one that cannot be read, is left alone.
Load(g) ==
  /\ g \notin loaded
  /\ loaded' = loaded \cup {g}
  /\ \/ /\ scale' = IF stored[g] = Absent THEN scale
                    ELSE [scale EXCEPT ![g] = Clamp(stored[g])]
        /\ UNCHANGED failed
     \/ /\ Faults /\ stored[g] # Absent
        /\ failed' = failed \cup {g}
        /\ UNCHANGED scale
  /\ UNCHANGED <<Event, call, armed, saver, vals, stored>>

-----------------------------------------------------------------------------
(* Movement: dyn_scaler_handle_event, apply_scale_x10.                     *)

\* Division as in C, towards zero.
Tenth(x) == IF x >= 0 THEN x \div 10 ELSE 0 - ((0 - x) \div 10)

\* What is left of the events before this one, if the processor keeps it.
Kept(g, left) == IF g \in tracked THEN left ELSE 0

\* One event of m times the scale, plus the tenths carried over from before.
Scaled(g, m, carried) ==
  LET exact == m * scale[g] + carried
      out   == Tenth(exact)
  IN  /\ rem' = [rem EXCEPT ![g] = Kept(g, exact - 10 * out)]
      /\ owed' = [owed EXCEPT ![g] = Kept(g, @) + m * scale[g] - 10 * out]
      /\ UNCHANGED <<scale, tracked, call, Saver, loaded>>

\* Mutant: the remainder is replaced, not added.
RemainderDropped(g, m) == Scaled(g, m, 0)

Scale(g, m) == Scaled(g, m, Kept(g, rem[g]))

-----------------------------------------------------------------------------
Init ==
  /\ scale = [g \in Groups |-> ScaleDefault]
  /\ tracked \in SUBSET Groups
  /\ rem = [g \in Groups |-> 0] /\ owed = [g \in Groups |-> 0]
  /\ call = [t \in Threads |-> Free]
  /\ armed = FALSE
  /\ saver = [read |-> {}, write |-> {}]
  /\ vals = [g \in Groups |-> 0]
  /\ stored \in [Groups -> AtStart \cup {Absent}]
  /\ loaded = {} /\ failed = {}

Change(t) == \/ \E g \in Groups : \/ \E by \in {-1, 1} : Step(t, g, by)
                                  \/ \E v \in Requests : SetTo(t, g, v)
                                  \/ Reset(t, g)
             \/ Store(t)
             \/ Schedule(t)

Save == BeginSaving \/ \E g \in Groups : ReadScale(g) \/ WriteScale(g)

Next == \/ \E t \in Threads : Change(t)
        \/ Save
        \/ \E g \in Groups : Load(g)
        \/ \E g \in Groups, m \in Moves : Scale(g, m)

Spec == Init /\ [][Next]_vars

-----------------------------------------------------------------------------
(* Properties.                                                             *)

Calls == [at : {"set", "schedule"}, g : Groups, v : Words]

\* Every variable stays within its type: the scale within its bounds, whatever
\* is requested or loaded.
ScalerTypeOK ==
  /\ scale \in [Groups -> Scales]
  /\ tracked \subseteq Groups
  /\ rem \in [Groups -> (-9)..9] /\ owed \in [Groups -> Int]
  /\ call \in [Threads -> Calls \cup {Free}]
  /\ armed \in BOOLEAN
  /\ saver \in [read : SUBSET Groups, write : SUBSET Groups]
  /\ vals \in [Groups -> Words]
  /\ stored \in [Groups -> Cells]
  /\ loaded \subseteq Groups /\ failed \subseteq Groups

\* Where remainders are tracked no movement is lost: what has been reported, over
\* any number of events, never differs from the exactly scaled movement by a
\* whole unit, however the scale changes on the way.  Where they are not, every
\* event may lose up to nine tenths, and no more.
LossIsBounded == \A g \in Groups : -10 < owed[g] /\ owed[g] < 10

\* What the next start would come up with.
Restored(g) == IF stored[g] = Absent THEN ScaleDefault ELSE Clamp(stored[g])

\* A thread has stored a scale for g and not yet scheduled the save.
Scheduling(g) == \E t \in Threads : call[t].at = "schedule" /\ call[t].g = g

\* The save at work will write the scale g has now.
SavingNow(g) == g \in saver.read \/ (g \in saver.write /\ vals[g] = scale[g])

\* No change is forgotten: while the next start would come up with another
\* scale, a save is scheduled, or at work with the scale of now, or about to
\* be scheduled.  (A failed access is not repeated until the next change.)
ChangeIsSaved ==
  \A g \in loaded \ failed :
    Restored(g) = scale[g] \/ armed \/ SavingNow(g) \/ Scheduling(g)

=============================================================================
