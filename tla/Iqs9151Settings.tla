-------------------------- MODULE Iqs9151Settings --------------------------
(***************************************************************************)
(* Saving, loading and deleting the trackpad's parameters                  *)
(* (drivers/input/iqs9151_settings.c, and the commands set, reset and save *)
(* of drivers/input/iqs9151_cmd.c).                                        *)
(*                                                                         *)
(* Commands come from several threads (a shell, a relay to the host); the  *)
(* main thread loads the saved blob once after the start.  Loading and     *)
(* saving share two static buffers under iqs9151_settings_lock.  Zephyr's  *)
(* settings subsystem has a lock of its own: settings_load holds it around *)
(* the handlers it calls, settings_save_one and settings_delete hold it    *)
(* around one access to the store.  Deleting takes no lock of the driver.  *)
(***************************************************************************)
EXTENDS Naturals

CONSTANTS
  Params,      \* the parameters
  Values,      \* the values in their ranges
  Stale,       \* values an older build allowed and this one does not
  Default,     \* the Kconfig default of each parameter
  Commanders,  \* the threads that run commands
  Main,        \* the main thread
  NoBlob,      \* nothing is stored
  Foreign,     \* a blob of another version, parameter count or length
  Nobody,      \* the owner of a free lock
  Faults       \* whether accesses to the store fail and power is lost

Threads == Commanders \cup {Main}

Blobs == [Params -> Values \cup Stale]

ASSUME SettingsAssumption ==
  /\ Default \in [Params -> Values]
  /\ Values \cap Stale = {}
  /\ Main \notin Commanders /\ Nobody \notin Threads
  /\ NoBlob \notin Blobs /\ Foreign \notin Blobs /\ NoBlob # Foreign
  /\ Faults \in BOOLEAN

VARIABLES
  params,   \* data->params
  blob,     \* what the store holds under "iqs9151/params"
  flag,     \* iqs9151_settings_loaded_flag
  store,    \* the owner of the lock of the settings subsystem
  lock,     \* the owner of iqs9151_settings_lock
  work,     \* iqs9151_settings_work, and what is encoded from it
  pc,       \* where each thread is
  left,     \* the parameters each thread has still to treat
  touched   \* history: parameters changed by others since a thread's lock

vars == <<params, blob, flag, store, lock, work, pc, left, touched>>

Stored == <<blob, flag>>
Locks  == <<store, lock>>

Goes(t, from, to) == pc[t] = from /\ pc' = [pc EXCEPT ![t] = to]

\* Thread t changes p under the eyes of the others.
Change(t, p, v) ==
  /\ params' = [params EXCEPT ![p] = v]
  /\ touched' = [u \in Threads |-> IF u = t THEN touched[u] ELSE touched[u] \cup {p}]

-----------------------------------------------------------------------------
(* set and reset.                                                          *)

\* iqs9151_dev_param_set, by the command "set".
Set(t, p, v) ==
  /\ pc[t] = "idle"
  /\ Change(t, p, v)
  /\ UNCHANGED <<Stored, Locks, work, pc, left>>

BeginReset(t) ==
  /\ Goes(t, "idle", "default")
  /\ left' = [left EXCEPT ![t] = Params]
  /\ UNCHANGED <<params, Stored, Locks, work, touched>>

\* iqs9151_dev_param_reset.
StoreDefault(t, p) ==
  /\ pc[t] = "default" /\ p \in left[t]
  /\ Change(t, p, Default[p])
  /\ left' = [left EXCEPT ![t] = @ \ {p}]
  /\ UNCHANGED <<Stored, Locks, work, pc>>

\* iqs9151_settings_clear: settings_delete, then the flag.
Delete(t) ==
  /\ Goes(t, "default", "unflag") /\ left[t] = {}
  /\ store = Nobody
  /\ blob' = NoBlob
  /\ UNCHANGED <<params, flag, Locks, work, left, touched>>

\* A failed delete is ignored; the answer is "OK reset" all the same.
DeleteFailed(t) ==
  /\ Faults
  /\ Goes(t, "default", "idle") /\ left[t] = {}
  /\ store = Nobody
  /\ UNCHANGED <<params, Stored, Locks, work, left, touched>>

MarkCleared(t) ==
  /\ Goes(t, "unflag", "idle")
  /\ flag' = FALSE
  /\ UNCHANGED <<params, blob, Locks, work, left, touched>>

-----------------------------------------------------------------------------
(* save: iqs9151_settings_save.                                            *)

BeginSave(t) ==
  /\ Goes(t, "idle", "save")
  /\ UNCHANGED <<params, Stored, Locks, work, left, touched>>

\* Mutant: saving does not take the lock.
SaveWithoutLock(t) ==
  /\ Goes(t, "save", "copy")
  /\ work' = Default
  /\ left' = [left EXCEPT ![t] = Params]
  /\ touched' = [touched EXCEPT ![t] = {}]
  /\ UNCHANGED <<params, Stored, Locks>>

LockForSave(t) ==
  /\ Goes(t, "save", "copy")
  /\ lock = Nobody
  /\ lock' = t
  /\ work' = Default
  /\ left' = [left EXCEPT ![t] = Params]
  /\ touched' = [touched EXCEPT ![t] = {}]
  /\ UNCHANGED <<params, Stored, store>>

Copy(t, p) ==
  /\ pc[t] = "copy" /\ p \in left[t]
  /\ work' = [work EXCEPT ![p] = params[p]]
  /\ left' = [left EXCEPT ![t] = @ \ {p}]
  /\ UNCHANGED <<params, Stored, Locks, pc, touched>>

\* settings_save_one.
WriteBlob(t) ==
  /\ Goes(t, "copy", "flag") /\ left[t] = {}
  /\ store = Nobody
  /\ blob' = work
  /\ UNCHANGED <<params, flag, Locks, work, left, touched>>

\* Mutant: the error return forgets to unlock.
FailedSaveKeepsLock(t) ==
  /\ Faults
  /\ Goes(t, "copy", "idle") /\ left[t] = {}
  /\ store = Nobody
  /\ blob' \in {blob, work}
  /\ UNCHANGED <<params, flag, Locks, work, left, touched>>

\* It fails, before or after the store has taken the blob.
WriteFailed(t) ==
  /\ Faults
  /\ Goes(t, "copy", "idle") /\ left[t] = {}
  /\ store = Nobody
  /\ blob' \in {blob, work}
  /\ lock' = Nobody
  /\ UNCHANGED <<params, flag, store, work, left, touched>>

MarkSaved(t) ==
  /\ Goes(t, "flag", "idle")
  /\ flag' = TRUE
  /\ lock' = Nobody
  /\ UNCHANGED <<params, blob, store, work, left, touched>>

-----------------------------------------------------------------------------
(* settings_load at the start, and iqs9151_settings_set, its handler.      *)

\* The handler is called only if there is something stored.
BeginLoad ==
  /\ Goes(Main, "boot", IF blob = NoBlob THEN "leave" ELSE "handler")
  /\ store = Nobody
  /\ store' = Main
  /\ UNCHANGED <<params, Stored, lock, work, left, touched>>

\* The blob is read and decoded into the work copy.
LockForLoad ==
  /\ Goes(Main, "handler", "apply")
  /\ lock = Nobody
  /\ blob # Foreign
  /\ lock' = Main
  /\ work' = blob
  /\ left' = [left EXCEPT ![Main] = Params]
  /\ touched' = [touched EXCEPT ![Main] = {}]
  /\ UNCHANGED <<params, Stored, store>>

\* A blob that is not ours, or cannot be read, is ignored (one that is too
\* long even without the lock).
IgnoreBlob ==
  /\ Goes(Main, "handler", "leave")
  /\ blob = Foreign \/ (Faults /\ lock = Nobody)
  /\ UNCHANGED <<params, Stored, Locks, work, left, touched>>

\* Mutant: the decoded values are taken as they are.
ApplyUnchecked(p) ==
  /\ pc[Main] = "apply" /\ p \in left[Main]
  /\ Change(Main, p, work[p])
  /\ left' = [left EXCEPT ![Main] = @ \ {p}]
  /\ UNCHANGED <<Stored, Locks, work, pc>>

\* iqs9151_settings_apply: a value out of range is skipped.
Apply(p) ==
  /\ pc[Main] = "apply" /\ p \in left[Main]
  /\ \/ work[p] \in Values /\ Change(Main, p, work[p])
     \/ work[p] \notin Values /\ UNCHANGED <<params, touched>>
  /\ left' = [left EXCEPT ![Main] = @ \ {p}]
  /\ UNCHANGED <<Stored, Locks, work, pc>>

MarkLoaded ==
  /\ Goes(Main, "apply", "leave") /\ left[Main] = {}
  /\ flag' = TRUE
  /\ lock' = Nobody
  /\ UNCHANGED <<params, blob, store, work, left, touched>>

EndLoad ==
  /\ Goes(Main, "leave", "idle")
  /\ store' = Nobody
  /\ UNCHANGED <<params, Stored, lock, work, left, touched>>

-----------------------------------------------------------------------------
\* After a start everything but the store is as the image has it (the work
\* copy is not read before it is written).
Starts ==
  /\ params' = Default
  /\ flag' = FALSE
  /\ store' = Nobody /\ lock' = Nobody
  /\ work' = Default
  /\ pc' = [t \in Threads |-> IF t = Main THEN "boot" ELSE "idle"]
  /\ left' = [t \in Threads |-> {}]
  /\ touched' = [t \in Threads |-> {}]

\* One access to the store is atomic: power is lost before it or after it.
PowerLoss == Faults /\ Starts /\ UNCHANGED blob

Init ==
  /\ params = Default
  /\ blob \in Blobs \cup {NoBlob, Foreign}
  /\ flag = FALSE
  /\ store = Nobody /\ lock = Nobody
  /\ work = Default
  /\ pc = [t \in Threads |-> IF t = Main THEN "boot" ELSE "idle"]
  /\ left = [t \in Threads |-> {}]
  /\ touched = [t \in Threads |-> {}]

Reset(t) == (\E p \in Params : StoreDefault(t, p)) \/ Delete(t) \/ DeleteFailed(t)
            \/ MarkCleared(t)

Save(t) == (\E p \in Params : Copy(t, p)) \/ WriteBlob(t) \/ WriteFailed(t)
           \/ MarkSaved(t)

Load == BeginLoad \/ LockForLoad \/ IgnoreBlob \/ (\E p \in Params : Apply(p))
        \/ MarkLoaded \/ EndLoad

Begin(t) == (\E p \in Params, v \in Values : Set(t, p, v))
            \/ BeginReset(t) \/ BeginSave(t)

Next == \/ \E t \in Commanders : Begin(t) \/ Reset(t) \/ LockForSave(t) \/ Save(t)
        \/ Load
        \/ PowerLoss

Spec == Init /\ [][Next]_vars

\* Threads go on with what they do, and a lock goes to who waits for it.
Fairness == /\ WF_vars(Load)
            /\ \A t \in Commanders :
                 WF_vars(Reset(t)) /\ WF_vars(Save(t)) /\ SF_vars(LockForSave(t))

FairSpec == Spec /\ Fairness

-----------------------------------------------------------------------------
(* Properties.                                                             *)

Stages == {"idle", "default", "unflag", "save", "copy", "flag",
           "boot", "handler", "apply", "leave"}

\* Every variable stays within its type; the parameters in use are in range
\* whatever an older build has left in the store.
SettingsTypeOK ==
  /\ params \in [Params -> Values]
  /\ blob \in Blobs \cup {NoBlob, Foreign}
  /\ flag \in BOOLEAN
  /\ store \in {Main, Nobody} /\ lock \in Threads \cup {Nobody}
  /\ work \in Blobs
  /\ pc \in [Threads -> Stages]
  /\ left \in [Threads -> SUBSET Params]
  /\ touched \in [Threads -> SUBSET Params]

Busy(t) == pc[t] # "idle"

\* What a save writes is what the parameters are, except for those another
\* thread has changed since the save took the lock: no other save and no load
\* gets into the shared work copy.
SavedFaithfully ==
  [][\A t \in Commanders :
       pc[t] = "copy" /\ pc'[t] = "flag" =>
         \A p \in Params \ touched[t] : blob'[p] = params[p]]_vars

\* When the load says it has applied the blob, every parameter has its saved
\* value, unless that is out of range or a command has changed it meanwhile.
AppliedFaithfully ==
  [][pc[Main] = "apply" /\ pc'[Main] = "leave" =>
       \A p \in Params \ touched[Main] :
         blob[p] \in Values => params[p] = blob[p]]_vars

\* Once the start is over, every command is answered (unless power is lost):
\* no path leaves a lock behind.
AnsweredAfterBoot ==
  \A t \in Commanders :
    Busy(t) /\ ~Busy(Main) ~> ~Busy(t) \/ Busy(Main)

\* "save" is answered, whenever it is given: "OK saved / ERR <errno>"
\* (documents/iqs9151_kconfig_reference.md:132).
SaveAnswered ==
  \A t \in Commanders : pc[t] = "save" ~> ~Busy(t)

=============================================================================
