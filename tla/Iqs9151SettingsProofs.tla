----------------------- MODULE Iqs9151SettingsProofs -----------------------
(***************************************************************************)
(* Proofs about Iqs9151Settings: whatever the parameters, the values and   *)
(* the number of threads that run commands, the parameters in use stay in  *)
(* range, and neither a save nor a load is disturbed by another one.       *)
(***************************************************************************)
EXTENDS Iqs9151Settings, TLAPS

\* The operator a thread's transition goes by.
LEMMA GoesTo ==
  ASSUME pc \in [Threads -> Stages], NEW t \in Threads, NEW from, NEW to \in Stages,
         Goes(t, from, to)
  PROVE  /\ pc[t] = from /\ pc'[t] = to
         /\ \A u \in Threads \ {t} : pc'[u] = pc[u]
         /\ pc' \in [Threads -> Stages]
  BY DEF Goes

LEMMA ChangeType ==
  ASSUME SettingsTypeOK, NEW t \in Threads, NEW p \in Params, NEW v \in Values,
         Change(t, p, v)
  PROVE  /\ params' \in [Params -> Values]
         /\ touched' \in [Threads -> SUBSET Params]
  BY DEF Change, SettingsTypeOK

-----------------------------------------------------------------------------
(* Type correctness.                                                       *)

LEMMA InitType == Init => SettingsTypeOK
<1> SUFFICES ASSUME Init PROVE SettingsTypeOK
  OBVIOUS
<1>1. params \in [Params -> Values] /\ work \in Blobs
  BY SettingsAssumption DEF Init, SettingsAssumption, Blobs
<1>2. pc \in [Threads -> Stages]
  BY DEF Init, Stages
<1>3. left \in [Threads -> SUBSET Params] /\ touched \in [Threads -> SUBSET Params]
  BY DEF Init
<1>4. QED
  BY <1>1, <1>2, <1>3 DEF Init, SettingsTypeOK

LEMMA StartsType == ASSUME Starts PROVE
  /\ params' \in [Params -> Values] /\ work' \in Blobs
  /\ pc' \in [Threads -> Stages]
  /\ left' \in [Threads -> SUBSET Params] /\ touched' \in [Threads -> SUBSET Params]
<1>1. params' \in [Params -> Values] /\ work' \in Blobs
  BY SettingsAssumption DEF Starts, SettingsAssumption, Blobs
<1>2. pc' \in [Threads -> Stages]
  BY DEF Starts, Stages
<1>3. left' \in [Threads -> SUBSET Params] /\ touched' \in [Threads -> SUBSET Params]
  BY DEF Starts
<1>4. QED
  BY <1>1, <1>2, <1>3

LEMMA CommandType ==
  ASSUME SettingsTypeOK, NEW t \in Commanders,
         Begin(t) \/ Reset(t) \/ LockForSave(t) \/ Save(t)
  PROVE  SettingsTypeOK'
<1> USE DEF SettingsTypeOK, Stored, Locks
<1>0. t \in Threads
  BY DEF Threads
<1>1. ASSUME NEW p \in Params, NEW v \in Values, Set(t, p, v) PROVE SettingsTypeOK'
  BY <1>0, <1>1, ChangeType DEF Set
<1>2. ASSUME BeginReset(t) \/ BeginSave(t) \/ LockForSave(t) PROVE SettingsTypeOK'
  BY <1>0, <1>2, SettingsAssumption
  DEF BeginReset, BeginSave, LockForSave, Goes, Stages, SettingsAssumption, Blobs
<1>3. ASSUME NEW p \in Params, StoreDefault(t, p) PROVE SettingsTypeOK'
  <2>1. Default[p] \in Values
    BY SettingsAssumption DEF SettingsAssumption
  <2>2. QED
    BY <1>0, <1>3, <2>1, ChangeType DEF StoreDefault
<1>4. ASSUME Delete(t) \/ DeleteFailed(t) \/ MarkCleared(t) PROVE SettingsTypeOK'
  BY <1>0, <1>4 DEF Delete, DeleteFailed, MarkCleared, Goes, Stages
<1>5. ASSUME NEW p \in Params, Copy(t, p) PROVE SettingsTypeOK'
  BY <1>0, <1>5 DEF Copy, Blobs
<1>6. ASSUME WriteBlob(t) \/ WriteFailed(t) \/ MarkSaved(t) PROVE SettingsTypeOK'
  BY <1>0, <1>6 DEF WriteBlob, WriteFailed, MarkSaved, Goes, Stages
<1>7. QED
  BY <1>1, <1>2, <1>3, <1>4, <1>5, <1>6 DEF Begin, Reset, Save

-----------------------------------------------------------------------------
(* Who holds which lock, and what the load has seen before it took the     *)
(* driver's lock: without this the types are not inductive, since the      *)
(* handler decodes a blob it has not looked at itself.                     *)

OfMain == {"boot", "handler", "apply", "leave"}

Holding ==
  /\ pc[Main] \in OfMain \cup {"idle"}
  /\ pc[Main] \in {"handler", "apply", "leave"} => store = Main
  /\ pc[Main] = "handler" => blob # NoBlob
  /\ pc[Main] = "apply" => lock = Main
  /\ \A t \in Commanders : /\ pc[t] \notin OfMain
                           /\ pc[t] \in {"copy", "flag"} => lock = t

LEMMA LoadType == ASSUME SettingsTypeOK, Holding, Load PROVE SettingsTypeOK'
<1> USE DEF SettingsTypeOK, Stored, Locks
<1>0. Main \in Threads
  BY DEF Threads
<1>1. ASSUME BeginLoad PROVE SettingsTypeOK'
  <2>1. (IF blob = NoBlob THEN "leave" ELSE "handler") \in Stages
    BY DEF Stages
  <2>2. QED
    BY <1>0, <1>1, <2>1 DEF BeginLoad, Goes
<1>2. ASSUME LockForLoad PROVE SettingsTypeOK'
  <2>1. blob \in Blobs
    BY <1>2 DEF LockForLoad, Goes, Holding
  <2>2. QED
    BY <1>0, <1>2, <2>1 DEF LockForLoad, Goes, Stages
<1>3. ASSUME IgnoreBlob \/ MarkLoaded \/ EndLoad PROVE SettingsTypeOK'
  BY <1>0, <1>3 DEF IgnoreBlob, MarkLoaded, EndLoad, Goes, Stages
<1>4. ASSUME NEW p \in Params, Apply(p) PROVE SettingsTypeOK'
  BY <1>0, <1>4, ChangeType DEF Apply
<1>5. QED
  BY <1>1, <1>2, <1>3, <1>4 DEF Load

LEMMA NextType == SettingsTypeOK /\ Holding /\ [Next]_vars => SettingsTypeOK'
<1> SUFFICES ASSUME SettingsTypeOK, Holding, [Next]_vars PROVE SettingsTypeOK'
  OBVIOUS
<1>1. CASE UNCHANGED vars
  BY <1>1 DEF vars, SettingsTypeOK
<1>2. CASE PowerLoss
  BY <1>2, StartsType DEF PowerLoss, Starts, SettingsTypeOK
<1>3. QED
  BY <1>1, <1>2, CommandType, LoadType DEF Next

\* Main is not one of the threads that run commands, and a free lock is not
\* Main's.
LEMMA Apart ==
  /\ Main \in Threads /\ Main # Nobody /\ Main \notin Commanders
  /\ \A t \in Commanders : t \in Threads /\ t # Main /\ t # Nobody
  BY SettingsAssumption DEF SettingsAssumption, Threads

LEMMA HoldingStarts == (Init => Holding) /\ (Starts => Holding')
  BY Apart DEF Init, Starts, Holding, OfMain

\* A command that moves its own thread only, and keeps to the locks.
LEMMA HoldingCommand ==
  ASSUME SettingsTypeOK, Holding, NEW t \in Commanders,
         Begin(t) \/ Reset(t) \/ LockForSave(t) \/ Save(t)
  PROVE  Holding'
<1> USE Apart DEF Stored, Locks, OfMain
<1>1. ASSUME UNCHANGED <<pc, blob, store, lock>> PROVE Holding'
  BY <1>1 DEF Holding
<1>2. ASSUME NEW to, pc' = [pc EXCEPT ![t] = to]
      PROVE  pc'[t] = to /\ \A u \in Threads \ {t} : pc'[u] = pc[u]
  BY <1>2 DEF SettingsTypeOK
<1>3. ASSUME BeginReset(t) \/ BeginSave(t) PROVE Holding'
  BY <1>2, <1>3 DEF BeginReset, BeginSave, Goes, Holding
<1>4. ASSUME LockForSave(t) PROVE Holding'
  BY <1>2, <1>4 DEF LockForSave, Goes, Holding
<1>5. ASSUME Delete(t) \/ DeleteFailed(t) \/ MarkCleared(t) PROVE Holding'
  BY <1>2, <1>5 DEF Delete, DeleteFailed, MarkCleared, Goes, Holding
<1>6. ASSUME WriteBlob(t) \/ WriteFailed(t) \/ MarkSaved(t) PROVE Holding'
  BY <1>2, <1>6 DEF WriteBlob, WriteFailed, MarkSaved, Goes, Holding
<1>7. QED
  BY <1>1, <1>3, <1>4, <1>5, <1>6 DEF Begin, Reset, Save, Set, StoreDefault, Copy

LEMMA HoldingLoad == ASSUME SettingsTypeOK, Holding, Load PROVE Holding'
<1> USE Apart DEF Stored, Locks, OfMain
<1>1. ASSUME NEW to, pc' = [pc EXCEPT ![Main] = to]
      PROVE  pc'[Main] = to /\ \A t \in Commanders : pc'[t] = pc[t]
  BY <1>1 DEF SettingsTypeOK
<1>2. ASSUME BeginLoad PROVE Holding'
  BY <1>1, <1>2 DEF BeginLoad, Goes, Holding
<1>3. ASSUME LockForLoad PROVE Holding'
  BY <1>1, <1>3 DEF LockForLoad, Goes, Holding
<1>4. ASSUME IgnoreBlob \/ EndLoad PROVE Holding'
  BY <1>1, <1>4 DEF IgnoreBlob, EndLoad, Goes, Holding
<1>5. ASSUME MarkLoaded PROVE Holding'
  BY <1>1, <1>5 DEF MarkLoaded, Goes, Holding
<1>6. ASSUME NEW p \in Params, Apply(p) PROVE Holding'
  BY <1>6 DEF Apply, Holding
<1>7. QED
  BY <1>2, <1>3, <1>4, <1>5, <1>6 DEF Load

LEMMA NextHolding == SettingsTypeOK /\ Holding /\ [Next]_vars => Holding'
<1>1. UNCHANGED vars /\ Holding => Holding'
  BY DEF vars, Holding
<1>2. QED
  BY <1>1, HoldingStarts, HoldingCommand, HoldingLoad DEF Next, PowerLoss

\* The parameters in use are in range whatever an older build has left in the
\* store, and the other variables are of their types.
THEOREM SettingsTypeCorrect == Spec => []SettingsTypeOK
  BY InitType, NextType, HoldingStarts, NextHolding, PTL DEF Spec

-----------------------------------------------------------------------------
(* The shared work copy is of use to whoever holds the lock: a save's is   *)
(* what the parameters are, a load's is what they become, apart from those *)
(* still to treat and those another thread has changed meanwhile.          *)

Settled(t) == Params \ (left[t] \cup touched[t])

Copies ==
  /\ \A t \in Commanders : pc[t] = "copy" => \A p \in Settled(t) : work[p] = params[p]
  /\ pc[Main] = "apply" =>
       work = blob /\ \A p \in Settled(Main) : work[p] \in Values => params[p] = work[p]

LEMMA CopiesStart == (Init => Copies) /\ (Starts => Copies')
  BY Apart DEF Init, Starts, Copies

\* A parameter one thread changes counts as touched for all the others.
LEMMA CopiesChange ==
  ASSUME SettingsTypeOK, Copies, NEW u \in Threads, NEW p \in Params, NEW v \in Values,
         Change(u, p, v), pc' = pc, work' = work, blob' = blob,
         \A t \in Threads \ {u} : left'[t] = left[t],
         pc[u] # "copy", pc[u] = "apply" => left'[u] = left[u] \ {p} /\ v = work[p]
  PROVE  Copies'
<1>1. params'[p] = v /\ \A q \in Params \ {p} : params'[q] = params[q]
  BY DEF Change, SettingsTypeOK
<1>2. touched'[u] = touched[u] /\ \A t \in Threads \ {u} : touched'[t] = touched[t] \cup {p}
  BY DEF Change
<1>3. \A t \in Threads \ {u} : Settled(t)' = Settled(t) \ {p}
  BY <1>2 DEF Settled
<1>4. pc[u] = "apply" => Settled(u)' \subseteq Settled(u) \cup {p}
  BY <1>2 DEF Settled
<1>5. \A t \in Commanders : pc[t] = "copy" => \A q \in Settled(t)' : work[q] = params'[q]
  BY <1>1, <1>3, Apart DEF Copies, Settled
<1>6. ASSUME pc[Main] = "apply", NEW q \in Settled(Main)', work[q] \in Values
      PROVE  params'[q] = work[q]
  <2>1. q \in Params
    BY <1>6 DEF Settled
  <2>2. CASE u = Main
    BY <1>1, <1>4, <1>6, <2>1, <2>2 DEF Copies
  <2>3. CASE u # Main
    BY <1>1, <1>3, <1>6, <2>1, <2>3, Apart DEF Copies
  <2>4. QED
    BY <2>2, <2>3
<1>7. QED
  BY <1>5, <1>6 DEF Copies

\* A step that moves t alone, and neither to "copy" nor to "apply".
LEMMA CopiesMove ==
  ASSUME SettingsTypeOK, Holding, Copies, NEW t \in Threads, NEW to,
         pc' = [pc EXCEPT ![t] = to], to \notin {"copy", "apply"},
         params' = params, work' = work, touched' = touched,
         \A u \in Threads \ {t} : left'[u] = left[u],
         blob' = blob \/ store = Nobody
  PROVE  Copies'
<1>1. pc'[t] = to /\ \A u \in Threads \ {t} : pc'[u] = pc[u]
  BY DEF SettingsTypeOK
<1>2. \A u \in Threads \ {t} : Settled(u)' = Settled(u)
  BY DEF Settled
<1>3. pc[Main] = "apply" => blob' = blob
  BY Apart DEF Holding
<1>4. QED
  BY <1>1, <1>2, <1>3, Apart DEF Copies

LEMMA CopiesCommand ==
  ASSUME SettingsTypeOK, Holding, Copies, NEW t \in Commanders,
         Begin(t) \/ Reset(t) \/ LockForSave(t) \/ Save(t)
  PROVE  Copies'
<1> USE Apart DEF Stored, Locks
<1>1. ASSUME NEW p \in Params, NEW v \in Values, Set(t, p, v) PROVE Copies'
  BY <1>1, CopiesChange DEF Set
<1>2. ASSUME NEW p \in Params, StoreDefault(t, p) PROVE Copies'
  <2>1. Default[p] \in Values /\ \A u \in Threads \ {t} : left'[u] = left[u]
    BY <1>2, SettingsAssumption DEF StoreDefault, SettingsAssumption, SettingsTypeOK
  <2>2. QED
    BY <1>2, <2>1, CopiesChange DEF StoreDefault
<1>3. ASSUME BeginReset(t) \/ BeginSave(t) PROVE Copies'
  <2>1. \A u \in Threads \ {t} : left'[u] = left[u]
    BY <1>3 DEF BeginReset, BeginSave, SettingsTypeOK
  <2>2. QED
    BY <1>3, <2>1, CopiesMove DEF BeginReset, BeginSave, Goes
<1>4. ASSUME Delete(t) \/ DeleteFailed(t) \/ MarkCleared(t) PROVE Copies'
  BY <1>4, CopiesMove DEF Delete, DeleteFailed, MarkCleared, Goes
<1>5. ASSUME LockForSave(t) PROVE Copies'
  <2>1. pc'[t] = "copy" /\ Settled(t)' = {}
    BY <1>5 DEF LockForSave, Goes, Settled, SettingsTypeOK
  <2>2. \A u \in Threads \ {t} : pc'[u] = pc[u]
    BY <1>5 DEF LockForSave, Goes
  <2>3. pc[Main] # "apply" /\ \A u \in Commanders : pc[u] # "copy"
    BY <1>5 DEF LockForSave, Holding
  <2>4. QED
    BY <2>1, <2>2, <2>3 DEF Copies
<1>6. ASSUME NEW p \in Params, Copy(t, p) PROVE Copies'
  <2>1. lock = t /\ pc' = pc
    BY <1>6 DEF Copy, Holding
  <2>2. pc[Main] # "apply" /\ \A u \in Commanders \ {t} : pc[u] # "copy"
    BY <2>1 DEF Holding
  <2>3. Settled(t)' \subseteq Settled(t) \cup {p}
    BY <1>6 DEF Copy, Settled, SettingsTypeOK
  <2>4. /\ work'[p] = params[p] /\ params' = params
        /\ \A q \in Params \ {p} : work'[q] = work[q]
    BY <1>6 DEF Copy, SettingsTypeOK, Blobs
  <2>5. \A q \in Settled(t)' : work'[q] = params'[q]
    BY <1>6, <2>3, <2>4 DEF Copy, Copies, Settled
  <2>6. QED
    BY <2>1, <2>2, <2>5 DEF Copies
<1>7. ASSUME WriteBlob(t) \/ WriteFailed(t) \/ MarkSaved(t) PROVE Copies'
  BY <1>7, CopiesMove DEF WriteBlob, WriteFailed, MarkSaved, Goes
<1>8. QED
  BY <1>1, <1>2, <1>3, <1>4, <1>5, <1>6, <1>7 DEF Begin, Reset, Save

LEMMA CopiesLoad == ASSUME SettingsTypeOK, Holding, Copies, Load PROVE Copies'
<1> USE Apart DEF Stored, Locks
<1>1. ASSUME BeginLoad PROVE Copies'
  <2>1. (IF blob = NoBlob THEN "leave" ELSE "handler") \notin {"copy", "apply"}
    OBVIOUS
  <2>2. QED
    BY <1>1, <2>1, CopiesMove DEF BeginLoad, Goes
<1>2. ASSUME LockForLoad PROVE Copies'
  <2>1. Settled(Main)' = {} /\ work' = blob'
    BY <1>2 DEF LockForLoad, Settled, SettingsTypeOK
  <2>2. \A t \in Commanders : pc'[t] # "copy"
    BY <1>2 DEF LockForLoad, Goes, Holding
  <2>3. QED
    BY <2>1, <2>2 DEF Copies
<1>3. ASSUME IgnoreBlob \/ MarkLoaded \/ EndLoad PROVE Copies'
  BY <1>3, CopiesMove DEF IgnoreBlob, MarkLoaded, EndLoad, Goes
<1>4. ASSUME NEW p \in Params, Apply(p) PROVE Copies'
  <2>1. /\ left'[Main] = left[Main] \ {p}
        /\ \A t \in Threads \ {Main} : left'[t] = left[t]
    BY <1>4 DEF Apply, SettingsTypeOK
  <2>2. CASE work[p] \in Values /\ Change(Main, p, work[p])
    BY <1>4, <2>1, <2>2, CopiesChange DEF Apply
  <2>3. CASE work[p] \notin Values /\ UNCHANGED <<params, touched>>
    <3>1. Settled(Main)' \subseteq Settled(Main) \cup {p}
      BY <2>1, <2>3 DEF Settled
    <3>2. \A t \in Commanders : Settled(t)' = Settled(t)
      BY <2>1, <2>3 DEF Settled
    <3>3. QED
      BY <1>4, <2>3, <3>1, <3>2 DEF Apply, Copies
  <2>4. QED
    BY <1>4, <2>2, <2>3 DEF Apply
<1>5. QED
  BY <1>1, <1>2, <1>3, <1>4 DEF Load

LEMMA NextCopies == SettingsTypeOK /\ Holding /\ Copies /\ [Next]_vars => Copies'
<1>1. UNCHANGED vars /\ Copies => Copies'
  BY DEF vars, Copies, Settled
<1>2. QED
  BY <1>1, CopiesStart, CopiesCommand, CopiesLoad DEF Next, PowerLoss

LEMMA CopiesCorrect == Spec => [](SettingsTypeOK /\ Holding /\ Copies)
  BY InitType, NextType, HoldingStarts, NextHolding, CopiesStart, NextCopies, PTL DEF Spec

-----------------------------------------------------------------------------
\* What a save writes is what the parameters are, apart from those another
\* thread has changed since the save took the lock: the only step that takes a
\* save from copying on is the write, and it writes the work copy.
THEOREM SavesFaithfully == Spec => SavedFaithfully
<1> DEFINE Faithful ==
      \A t \in Commanders :
        pc[t] = "copy" /\ pc'[t] = "flag" =>
          \A p \in Params \ touched[t] : blob'[p] = params[p]
<1>1. ASSUME SettingsTypeOK, Copies, [Next]_vars, NEW t \in Commanders,
             pc[t] = "copy", pc'[t] = "flag"
      PROVE  WriteBlob(t)
  <2> USE Apart, <1>1 DEF Goes, SettingsTypeOK
  <2>1. pc' # pc /\ ~PowerLoss
    BY DEF PowerLoss, Starts
  <2>2. ~Load
    BY DEF Load, BeginLoad, LockForLoad, IgnoreBlob, Apply, MarkLoaded, EndLoad
  <2>3. ASSUME NEW u \in Commanders, Begin(u) \/ Reset(u) \/ LockForSave(u) PROVE FALSE
    BY <2>3 DEF Begin, Set, BeginReset, BeginSave, Reset, StoreDefault, Delete,
       DeleteFailed, MarkCleared, LockForSave
  <2>4. ASSUME NEW u \in Commanders, Save(u) PROVE WriteBlob(t)
    BY <2>4 DEF Save, Copy, WriteBlob, WriteFailed, MarkSaved
  <2>5. QED
    BY <2>1, <2>2, <2>3, <2>4 DEF Next, vars
<1>2. ASSUME Copies, NEW t \in Commanders, WriteBlob(t)
      PROVE  \A p \in Params \ touched[t] : blob'[p] = params[p]
  BY <1>2 DEF WriteBlob, Goes, Copies, Settled
<1>3. SettingsTypeOK /\ Copies /\ [Next]_vars => [Faithful]_vars
  BY <1>1, <1>2
<1>4. QED
  BY <1>3, CopiesCorrect, PTL DEF Spec, SavedFaithfully

\* When the load says it has applied the blob, every parameter has its saved
\* value, unless that is out of range or a command has changed it meanwhile.
THEOREM AppliesFaithfully == Spec => AppliedFaithfully
<1> DEFINE Faithful ==
      pc[Main] = "apply" /\ pc'[Main] = "leave" =>
        \A p \in Params \ touched[Main] : blob[p] \in Values => params[p] = blob[p]
<1>1. ASSUME SettingsTypeOK, [Next]_vars, pc[Main] = "apply", pc'[Main] = "leave"
      PROVE  left[Main] = {}
  <2> USE Apart, <1>1 DEF Goes, SettingsTypeOK
  <2>1. pc' # pc /\ ~PowerLoss
    BY DEF PowerLoss, Starts
  <2>2. ASSUME Load PROVE left[Main] = {}
    BY <2>2 DEF Load, BeginLoad, LockForLoad, IgnoreBlob, Apply, MarkLoaded, EndLoad
  <2>3. ASSUME NEW u \in Commanders, Begin(u) \/ Reset(u) \/ LockForSave(u) \/ Save(u)
        PROVE  FALSE
    BY <2>3 DEF Begin, Set, BeginReset, BeginSave, Reset, StoreDefault, Delete,
       DeleteFailed, MarkCleared, LockForSave, Save, Copy, WriteBlob, WriteFailed, MarkSaved
  <2>4. QED
    BY <2>1, <2>2, <2>3 DEF Next, vars
<1>2. SettingsTypeOK /\ Copies /\ [Next]_vars => [Faithful]_vars
  BY <1>1 DEF Copies, Settled
<1>3. QED
  BY <1>2, CopiesCorrect, PTL DEF Spec, AppliedFaithfully

=============================================================================
