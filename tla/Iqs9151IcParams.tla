-------------------------- MODULE Iqs9151IcParams --------------------------
(***************************************************************************)
(* How a parameter of the trackpad controller, changed at run time, gets   *)
(* into its register (drivers/input/iqs9151.c: iqs9151_dev_param_set,      *)
(* iqs9151_dev_param_reset, iqs9151_dev_request_reati and                  *)
(* iqs9151_apply_pending_ic).                                              *)
(*                                                                         *)
(* Any thread may set a parameter (the shell, or main while it loads the   *)
(* saved settings): it stores the value and then marks the parameter       *)
(* dirty.  The work queue, when it has read a frame, takes the whole dirty *)
(* set at once and writes the parameters one by one, each with the value   *)
(* it finds stored at that moment.  Nothing locks: the order of these      *)
(* steps is all that keeps an update from being lost.                      *)
(***************************************************************************)
EXTENDS Naturals

CONSTANTS
  Params,     \* the parameters with a register (IQS9151_PARAM_IC_*)
  Values,     \* the values in their ranges
  Default,    \* the Kconfig default of each
  PowerOn,    \* what each register holds after a reset of the device
  Threads,    \* the threads that tune
  Faults      \* whether I2C writes may fail and the device may reset itself

ASSUME IcAssumption ==
  /\ Default \in [Params -> Values] /\ PowerOn \in [Params -> Values]
  /\ Faults \in BOOLEAN

VARIABLES
  slot,    \* data->params
  dirty,   \* data->ic_dirty, as a set of parameters
  reati,   \* data->reati_pending
  task,    \* what each thread has still to store and to mark
  pc,      \* where the work-queue thread is in iqs9151_apply_pending_ic
  todo,    \* its local copy of the dirty set
  held,    \* the parameter and the value it is writing
  reg,     \* the registers of the device
  ati,     \* the device has a Re-ATI queued
  wiped    \* the device has reset itself since it was configured

vars == <<slot, dirty, reati, task, pc, todo, held, reg, ati, wiped>>

Queue  == <<pc, todo, held>>
Device == <<reg, ati, wiped>>

Idle == [left |-> {}, mark |-> {}]

-----------------------------------------------------------------------------
(* The tuning threads.                                                     *)

\* iqs9151_dev_param_set, up to the store of the value.
Set(t, p, v) ==
  /\ task[t] = Idle
  /\ slot' = [slot EXCEPT ![p] = v]
  /\ task' = [task EXCEPT ![t] = [left |-> {}, mark |-> {p}]]
  /\ UNCHANGED <<dirty, reati, Queue, Device>>

\* Mutant: the marks come before the stores.
MarksFirst(t) ==
  /\ task[t] = Idle
  /\ dirty' = dirty \cup Params
  /\ task' = [task EXCEPT ![t] = [left |-> Params, mark |-> {}]]
  /\ UNCHANGED <<slot, reati, Queue, Device>>

\* iqs9151_dev_param_reset: every default is stored, then all are marked.
BeginReset(t) ==
  /\ task[t] = Idle
  /\ task' = [task EXCEPT ![t] = [left |-> Params, mark |-> Params]]
  /\ UNCHANGED <<slot, dirty, reati, Queue, Device>>

StoreDefault(t, p) ==
  /\ p \in task[t].left
  /\ slot' = [slot EXCEPT ![p] = Default[p]]
  /\ task' = [task EXCEPT ![t].left = @ \ {p}]
  /\ UNCHANGED <<dirty, reati, Queue, Device>>

\* The mark: atomic_or into ic_dirty, after the store.
MarkDirty(t) ==
  /\ task[t] # Idle /\ task[t].left = {}
  /\ dirty' = dirty \cup task[t].mark
  /\ task' = [task EXCEPT ![t] = Idle]
  /\ UNCHANGED <<slot, reati, Queue, Device>>

RequestReati ==
  /\ reati' = TRUE
  /\ UNCHANGED <<slot, dirty, task, Queue, Device>>

-----------------------------------------------------------------------------
(* The work queue: iqs9151_apply_pending_ic, after a frame was read.       *)

\* atomic_clear of ic_dirty.
BeginApply ==
  /\ pc = "idle"
  /\ todo' = dirty /\ dirty' = {}
  /\ pc' = "apply"
  /\ UNCHANGED <<slot, reati, task, held, Device>>

\* The value is read when the parameter's turn comes, not when it was marked.
\* (The code goes by the parameters' indices; any order is allowed here.)
Fetch(p) ==
  /\ pc = "apply"
  /\ p \in todo
  /\ todo' = todo \ {p}
  /\ held' = [p |-> p, v |-> slot[p]]
  /\ pc' = "write"
  /\ UNCHANGED <<slot, dirty, reati, task, Device>>

WriteDone ==
  /\ pc = "write"
  /\ reg' = [reg EXCEPT ![held.p] = held.v]
  /\ pc' = "apply"
  /\ UNCHANGED <<slot, dirty, reati, task, todo, held, ati, wiped>>

\* Mutant: a failed write is only logged.
WriteOnlyLogged ==
  /\ Faults
  /\ pc = "write"
  /\ reg' \in {reg, [reg EXCEPT ![held.p] = held.v]}
  /\ pc' = "apply"
  /\ UNCHANGED <<slot, dirty, reati, task, todo, held, ati, wiped>>

\* The transfer fails, before or after the device has taken the value.
WriteFailed ==
  /\ Faults
  /\ pc = "write"
  /\ reg' \in {reg, [reg EXCEPT ![held.p] = held.v]}
  /\ dirty' = dirty \cup {held.p}
  /\ pc' = "apply"
  /\ UNCHANGED <<slot, reati, task, todo, held, ati, wiped>>

\* Mutant: the dirty set is cleared here, when all of it is written, and not
\* when it was taken.
ClearedAtTheEnd ==
  /\ pc = "apply" /\ todo = {}
  /\ dirty' = {}
  /\ reati' = FALSE
  /\ pc' = IF reati THEN "ati" ELSE "idle"
  /\ UNCHANGED <<slot, task, todo, held, Device>>

\* atomic_clear of reati_pending.
TakeReati ==
  /\ pc = "apply" /\ todo = {}
  /\ reati' = FALSE
  /\ pc' = IF reati THEN "ati" ELSE "idle"
  /\ UNCHANGED <<slot, dirty, task, todo, held, Device>>

\* The System Control word iqs9151_run_ati sends, as the set of its one bits:
\* the bits 6 and 5 are put into the second of two little-endian bytes.
AtiWord == {8 + bit : bit \in {5, 6}}

\* What the device makes of a System Control word: bits 6 and 5 queue an ATI.
QueuesAti(word) == word \cap {5, 6} # {}

RunAti ==
  /\ pc = "ati"
  /\ \/ ati' = (ati \/ QueuesAti(AtiWord))
     \/ Faults /\ UNCHANGED ati          \* failed, and only logged
  /\ pc' = "idle"
  /\ UNCHANGED <<slot, dirty, reati, task, todo, held, reg, wiped>>

-----------------------------------------------------------------------------
(* The device.                                                             *)

\* A reset loses every register.  The driver sees SHOW_RESET in the frames
\* and neither acknowledges it nor writes anything again.
DeviceReset ==
  /\ Faults
  /\ reg' = PowerOn
  /\ ati' = FALSE
  /\ wiped' = TRUE
  /\ UNCHANGED <<slot, dirty, reati, task, Queue>>

-----------------------------------------------------------------------------
Init ==
  /\ slot = Default /\ reg = Default
  /\ dirty = {} /\ todo = {}
  /\ reati = FALSE /\ ati = FALSE /\ wiped = FALSE
  /\ task = [t \in Threads |-> Idle]
  /\ pc = "idle"
  /\ held \in [p : Params, v : Values] /\ held.v = Default[held.p]

FinishTask(t) == MarkDirty(t) \/ \E p \in Params : StoreDefault(t, p)

Tune(t) == BeginReset(t) \/ \E p \in Params, v \in Values : Set(t, p, v)

Write == WriteDone \/ WriteFailed

Apply == BeginApply \/ (\E p \in Params : Fetch(p)) \/ Write \/ TakeReati \/ RunAti

Next == \/ \E t \in Threads : FinishTask(t) \/ Tune(t)
        \/ RequestReati
        \/ Apply
        \/ DeviceReset

Spec == Init /\ [][Next]_vars

\* The queue runs, frames keep being read, a thread finishes the call it is
\* in, and a write that is tried again and again succeeds at last.
Fairness == /\ WF_vars(Apply) /\ SF_vars(WriteDone)
            /\ \A p \in Params : SF_vars(Fetch(p))
            /\ \A t \in Threads : WF_vars(FinishTask(t))

FairSpec == Spec /\ Fairness

-----------------------------------------------------------------------------
(* Properties.                                                             *)

\* Every variable stays within its type; the local copy of the dirty set is
\* used up when the queue leaves the loop over it.
IcTypeOK ==
  /\ slot \in [Params -> Values] /\ reg \in [Params -> Values]
  /\ dirty \subseteq Params /\ todo \subseteq Params
  /\ reati \in BOOLEAN /\ ati \in BOOLEAN /\ wiped \in BOOLEAN
  /\ task \in [Threads -> [left : SUBSET Params, mark : SUBSET Params]]
  /\ pc \in {"idle", "apply", "write", "ati"}
  /\ held \in [p : Params, v : Values]
  /\ pc \in {"idle", "ati"} => todo = {}

Marking(p) == \E t \in Threads : p \in task[t].mark

Writing(p) == pc = "write" /\ held.p = p

\* An update is never lost: while a register differs from the stored value,
\* its parameter is dirty, or on the queue's list, or being written, or
\* about to be marked by the thread that stored it.
NoLostUpdate ==
  \A p \in Params :
    reg[p] # slot[p] /\ ~wiped =>
      p \in dirty \/ p \in todo \/ Writing(p) \/ Marking(p)

\* A write overtaken by a newer store is followed by another one: what is on
\* its way to the device is the stored value unless a mark is still to come.
OvertakenIsMarked ==
  \A p \in Params :
    Writing(p) /\ held.v # slot[p] => p \in dirty \/ Marking(p)

\* Every update reaches the device, whatever else is on its way there.
UpdatesLand == NoLostUpdate /\ OvertakenIsMarked

\* A reset marks whatever it stores.
ResetMarks == \A t \in Threads : task[t].left \subseteq task[t].mark

\* The inductive invariant behind the two properties above.
IcInv == IcTypeOK /\ NoLostUpdate /\ OvertakenIsMarked /\ ResetMarks

\* Once the tuning stops and the device stays up, the registers come to agree
\* with the stored values for good, whatever writes fail on the way.
SettlesWhenQuiet ==
  <>[](\A t \in Threads : task[t] = Idle)
    => <>[](wiped \/ \A p \in Params : reg[p] = slot[p])

\* A requested Re-ATI is queued at the device
\* (drivers/input/iqs9151_shell.c:61, "Request Re-ATI on next frame").
ReatiIsQueued == reati ~> ati

=============================================================================
