----------------------- MODULE Iqs9151IcParamsProofs -----------------------
(***************************************************************************)
(* Proofs about Iqs9151IcParams, for any parameters, values and threads,   *)
(* and about Iqs9151Registers: for any tables and single registers, and    *)
(* for those of the code.                                                  *)
(***************************************************************************)
EXTENDS MCIqs9151IcParams, BasicProofs, SequenceTheorems, TLAPS

USE IcAssumption DEF IcAssumption

-----------------------------------------------------------------------------
(* Type correctness.                                                       *)

LEMMA IcInitType == Init => IcTypeOK
<1> SUFFICES ASSUME Init PROVE IcTypeOK
  OBVIOUS
<1>1. slot \in [Params -> Values] /\ reg \in [Params -> Values]
  BY DEF Init
<1>2. Idle \in [left : SUBSET Params, mark : SUBSET Params]
  BY DEF Idle
<1>3. task \in [Threads -> [left : SUBSET Params, mark : SUBSET Params]]
  BY <1>2 DEF Init
<1>4. held \in [p : Params, v : Values]
  BY DEF Init
<1>5. dirty = {} /\ todo = {} /\ pc = "idle"
  BY DEF Init
<1>6. reati \in BOOLEAN /\ ati \in BOOLEAN /\ wiped \in BOOLEAN
  BY DEF Init
<1>7. QED
  BY <1>1, <1>3, <1>4, <1>5, <1>6 DEF IcTypeOK

LEMMA IcThreadType ==
  ASSUME IcTypeOK, NEW t \in Threads, FinishTask(t) \/ Tune(t) PROVE IcTypeOK'
<1> USE DEF IcTypeOK, Queue, Device
<1>1. ASSUME NEW p \in Params, NEW v \in Values, Set(t, p, v) PROVE IcTypeOK'
  BY <1>1 DEF Set
<1>2. ASSUME BeginReset(t) PROVE IcTypeOK'
  BY <1>2 DEF BeginReset
<1>3. ASSUME NEW p \in Params, StoreDefault(t, p) PROVE IcTypeOK'
  <2>1. slot' \in [Params -> Values]
    BY <1>3 DEF StoreDefault
  <2>2. [task[t] EXCEPT !.left = @ \ {p}]
          \in [left : SUBSET Params, mark : SUBSET Params]
    OBVIOUS
  <2>3. task' = [task EXCEPT ![t] = [task[t] EXCEPT !.left = @ \ {p}]]
    BY <1>3 DEF StoreDefault
  <2>4. task' \in [Threads -> [left : SUBSET Params, mark : SUBSET Params]]
    BY <2>2, <2>3
  <2>5. QED
    BY <1>3, <2>1, <2>4 DEF StoreDefault
<1>4. ASSUME MarkDirty(t) PROVE IcTypeOK'
  BY <1>4 DEF MarkDirty, Idle
<1>5. QED
  BY <1>1, <1>2, <1>3, <1>4 DEF FinishTask, Tune

LEMMA IcApplyType == ASSUME IcTypeOK, Apply PROVE IcTypeOK'
<1> USE DEF IcTypeOK, Queue, Device
<1>1. ASSUME BeginApply PROVE IcTypeOK'
  BY <1>1 DEF BeginApply
<1>2. ASSUME NEW p \in Params, Fetch(p) PROVE IcTypeOK'
  BY <1>2 DEF Fetch
<1>3. ASSUME WriteDone PROVE IcTypeOK'
  BY <1>3 DEF WriteDone
<1>4. ASSUME WriteFailed PROVE IcTypeOK'
  BY <1>4 DEF WriteFailed
<1>5. ASSUME TakeReati PROVE IcTypeOK'
  BY <1>5 DEF TakeReati
<1>6. ASSUME RunAti PROVE IcTypeOK'
  <2>1. ati' \in BOOLEAN
    <3>1. QueuesAti(AtiWord) \in BOOLEAN
      BY DEF QueuesAti
    <3> HIDE DEF IcTypeOK
    <3>2. ati \in BOOLEAN
      BY DEF IcTypeOK
    <3>3. QED
      BY <1>6, <3>1, <3>2 DEF RunAti
  <2>2. QED
    BY <1>6, <2>1 DEF RunAti
<1>7. QED
  BY <1>1, <1>2, <1>3, <1>4, <1>5, <1>6 DEF Apply, Write

LEMMA IcTypeStep == IcTypeOK /\ [Next]_vars => IcTypeOK'
<1> SUFFICES ASSUME IcTypeOK, [Next]_vars PROVE IcTypeOK'
  OBVIOUS
<1>1. ASSUME NEW t \in Threads, FinishTask(t) \/ Tune(t) PROVE IcTypeOK'
  BY <1>1, IcThreadType
<1>2. ASSUME RequestReati PROVE IcTypeOK'
  BY <1>2 DEF RequestReati, IcTypeOK, Queue, Device
<1>3. ASSUME Apply PROVE IcTypeOK'
  BY <1>3, IcApplyType
<1>4. ASSUME DeviceReset PROVE IcTypeOK'
  BY <1>4 DEF DeviceReset, IcTypeOK, Queue
<1>5. ASSUME UNCHANGED vars PROVE IcTypeOK'
  BY <1>5 DEF vars, IcTypeOK
<1>6. QED
  BY <1>1, <1>2, <1>3, <1>4, <1>5 DEF Next

\* Every variable of the parameter application stays within its type.
THEOREM IcTypeCorrect == Spec => []IcTypeOK
<1>1. QED
  BY IcInitType, IcTypeStep, PTL DEF Spec

-----------------------------------------------------------------------------
(* No update is lost.                                                      *)

LEMMA IcInitInv == Init => IcInv
<1> SUFFICES ASSUME Init PROVE IcInv
  OBVIOUS
<1>1. NoLostUpdate /\ OvertakenIsMarked
  BY DEF Init, NoLostUpdate, OvertakenIsMarked, Writing
<1>2. ResetMarks
  BY DEF Init, ResetMarks, Idle
<1>3. QED
  BY <1>1, <1>2, IcInitType DEF IcInv

\* A thread's mark is taken away only by the step that makes it dirty.
LEMMA IcThreadInv ==
  ASSUME IcInv, NEW t \in Threads, FinishTask(t) \/ Tune(t) PROVE IcInv'
<1> USE DEF IcInv, Queue, Device
<1>0. IcTypeOK'
  BY IcThreadType
<1>1. ASSUME NEW p \in Params, NEW v \in Values, Set(t, p, v) PROVE IcInv'
  <2>1. \A q \in Params : Marking(q) \/ q = p => Marking(q)'
    BY <1>1 DEF Set, Marking, Idle, IcTypeOK
  <2>2. \A q \in Params : q # p => slot'[q] = slot[q]
    BY <1>1 DEF Set, IcTypeOK
  <2>3. ResetMarks'
    BY <1>1 DEF Set, ResetMarks, IcTypeOK
  <2>4. NoLostUpdate'
    BY <1>1, <2>1, <2>2 DEF Set, NoLostUpdate, Writing
  <2>5. OvertakenIsMarked'
    BY <1>1, <2>1, <2>2 DEF Set, OvertakenIsMarked, Writing
  <2>6. QED
    BY <1>0, <1>1, <2>3, <2>4, <2>5 DEF Set
<1>2. ASSUME BeginReset(t) PROVE IcInv'
  <2>1. \A q \in Params : Marking(q) => Marking(q)'
    BY <1>2 DEF BeginReset, Marking, IcTypeOK
  <2>2. ResetMarks'
    BY <1>2 DEF BeginReset, ResetMarks, IcTypeOK
  <2>3. QED
    BY <1>0, <1>2, <2>1, <2>2
       DEF BeginReset, NoLostUpdate, OvertakenIsMarked, Writing
<1>3. ASSUME NEW p \in Params, StoreDefault(t, p) PROVE IcInv'
  <2>1. task'[t].mark = task[t].mark /\ task'[t].left = task[t].left \ {p}
    BY <1>3 DEF StoreDefault, IcTypeOK
  <2>2. \A u \in Threads : u # t => task'[u] = task[u]
    BY <1>3 DEF StoreDefault, IcTypeOK
  <2>3. \A q \in Params : Marking(q) => Marking(q)'
    BY <2>1, <2>2 DEF Marking
  <2>4. Marking(p)'
    BY <1>3, <2>1 DEF StoreDefault, Marking, ResetMarks
  <2>5. \A q \in Params : q # p => slot'[q] = slot[q]
    BY <1>3 DEF StoreDefault, IcTypeOK
  <2>6. ResetMarks'
    BY <2>1, <2>2 DEF ResetMarks
  <2>7. NoLostUpdate'
    BY <1>3, <2>3, <2>4, <2>5 DEF StoreDefault, NoLostUpdate, Writing
  <2>8. OvertakenIsMarked'
    BY <1>3, <2>3, <2>4, <2>5 DEF StoreDefault, OvertakenIsMarked, Writing
  <2>9. QED
    BY <1>0, <1>3, <2>6, <2>7, <2>8 DEF StoreDefault
<1>4. ASSUME MarkDirty(t) PROVE IcInv'
  <2>1. \A q \in Params : Marking(q) => Marking(q)' \/ q \in dirty'
    BY <1>4 DEF MarkDirty, Marking, IcTypeOK
  <2>2. ResetMarks'
    BY <1>4 DEF MarkDirty, ResetMarks, Idle, IcTypeOK
  <2>3. QED
    BY <1>0, <1>4, <2>1, <2>2
       DEF MarkDirty, NoLostUpdate, OvertakenIsMarked, Writing
<1>5. QED
  BY <1>1, <1>2, <1>3, <1>4 DEF FinishTask, Tune

LEMMA IcApplyInv == ASSUME IcInv, Apply PROVE IcInv'
<1> USE DEF IcInv, Queue, Device
<1>0. IcTypeOK'
  BY IcApplyType
<1>1. UNCHANGED <<slot, task, wiped>>
  BY DEF Apply, Write, BeginApply, Fetch, WriteDone, WriteFailed, TakeReati, RunAti
<1>2. ResetMarks' /\ \A q \in Params : Marking(q) => Marking(q)'
  BY <1>1 DEF ResetMarks, Marking
<1>3. ASSUME BeginApply PROVE IcInv'
  BY <1>0, <1>1, <1>2, <1>3
     DEF BeginApply, NoLostUpdate, OvertakenIsMarked, Writing, IcTypeOK
<1>4. ASSUME NEW p \in Params, Fetch(p) PROVE IcInv'
  BY <1>0, <1>1, <1>2, <1>4
     DEF Fetch, NoLostUpdate, OvertakenIsMarked, Writing
<1>5. ASSUME WriteDone PROVE IcInv'
  <2>1. reg'[held.p] = held.v /\ \A q \in Params : q # held.p => reg'[q] = reg[q]
    BY <1>5 DEF WriteDone, IcTypeOK
  <2>2. QED
    BY <1>0, <1>1, <1>2, <1>5, <2>1
       DEF WriteDone, NoLostUpdate, OvertakenIsMarked, Writing
<1>6. ASSUME WriteFailed PROVE IcInv'
  <2>1. \A q \in Params : q # held.p => reg'[q] = reg[q]
    BY <1>6 DEF WriteFailed, IcTypeOK
  <2>2. QED
    BY <1>0, <1>1, <1>2, <1>6, <2>1
       DEF WriteFailed, NoLostUpdate, OvertakenIsMarked, Writing
<1>7. ASSUME TakeReati PROVE IcInv'
  BY <1>0, <1>1, <1>2, <1>7
     DEF TakeReati, NoLostUpdate, OvertakenIsMarked, Writing
<1>8. ASSUME RunAti PROVE IcInv'
  BY <1>0, <1>1, <1>2, <1>8
     DEF RunAti, NoLostUpdate, OvertakenIsMarked, Writing
<1>9. QED
  BY <1>3, <1>4, <1>5, <1>6, <1>7, <1>8 DEF Apply, Write

LEMMA IcInvStep == IcInv /\ [Next]_vars => IcInv'
<1> SUFFICES ASSUME IcInv, [Next]_vars PROVE IcInv'
  OBVIOUS
<1>0. IcTypeOK'
  BY IcTypeStep DEF IcInv
<1>1. ASSUME NEW t \in Threads, FinishTask(t) \/ Tune(t) PROVE IcInv'
  BY <1>1, IcThreadInv
<1>2. ASSUME RequestReati PROVE IcInv'
  BY <1>0, <1>2 DEF RequestReati, IcInv, NoLostUpdate, OvertakenIsMarked, Writing,
                    Marking, ResetMarks, Queue, Device
<1>3. ASSUME Apply PROVE IcInv'
  BY <1>3, IcApplyInv
<1>4. ASSUME DeviceReset PROVE IcInv'
  BY <1>0, <1>4 DEF DeviceReset, IcInv, NoLostUpdate, OvertakenIsMarked, Writing,
                    Marking, ResetMarks, Queue
<1>5. ASSUME UNCHANGED vars PROVE IcInv'
  BY <1>0, <1>5 DEF vars, IcInv, NoLostUpdate, OvertakenIsMarked, Writing, Marking,
                    ResetMarks
<1>6. QED
  BY <1>1, <1>2, <1>3, <1>4, <1>5 DEF Next

\* Whatever threads tune and whatever writes fail, an update is never lost:
\* iqs9151_dev_param_set marks after it stores, and iqs9151_apply_pending_ic
\* takes the marks before it reads, so that a value overtaken on its way to the
\* device is followed by the newer one.
THEOREM UpdatesAlwaysLand == Spec => []UpdatesLand
<1>1. IcInv => UpdatesLand
  BY DEF IcInv, UpdatesLand
<1>2. QED
  BY <1>1, IcInitInv, IcInvStep, PTL DEF Spec

-----------------------------------------------------------------------------
(* Where the configuration goes (module Iqs9151Registers).                 *)

HIDE IcAssumption DEF IcAssumption

\* Names tell the tables and registers apart.
Areas(Names)  == [what : Names, at : Nat, from : Nat, len : Nat]
Writes(Names) == {w \in Areas(Names) : w.len <= ChunkSize}

\* The byte of w that goes to address a.
ByteFor(w, a) == <<w.what, w.from + a - w.at>>

\* What the registers may hold.
Contents(Names) == UNION {[D -> Names \X Int] : D \in SUBSET Nat}

LEMMA NoContents ==
  ASSUME NEW Names
  PROVE  <<>> \in Contents(Names) /\ DOMAIN <<>> = {}
<1>1. <<>> \in [{} -> Names \X Int]
  OBVIOUS
<1>2. QED
  BY <1>1 DEF Contents

\* What a write of w makes of the registers: its own bytes and no others.
Wrote(regs, w, next) ==
  /\ DOMAIN next = DOMAIN regs \cup Bytes(w)
  /\ \A a \in Bytes(w) : next[a] = ByteFor(w, a)
  /\ \A a \in DOMAIN regs : a \notin Bytes(w) => next[a] = regs[a]

LEMMA WriteReaches ==
  ASSUME NEW Names, NEW regs \in Contents(Names), NEW w \in Writes(Names)
  PROVE  I2cWrite(regs, w) \in Contents(Names) /\ Wrote(regs, w, I2cWrite(regs, w))
<1> DEFINE next == [a \in DOMAIN regs \cup Bytes(w) |->
                      IF a \in Bytes(w) THEN ByteFor(w, a) ELSE regs[a]]
<1>1. I2cWrite(regs, w) = next
  BY DEF I2cWrite, ByteFor, Writes, Areas, ChunkSize
<1>2. PICK D \in SUBSET Nat : regs \in [D -> Names \X Int]
  BY DEF Contents
<1>3. Bytes(w) \subseteq Nat /\ \A a \in Bytes(w) : ByteFor(w, a) \in Names \X Int
  BY DEF Writes, Areas, Bytes, ByteFor
<1>4. next \in [D \cup Bytes(w) -> Names \X Int]
  <2> HIDE DEF Bytes, ByteFor
  <2>1. QED
    BY <1>2, <1>3
<1>5. D \cup Bytes(w) \in SUBSET Nat
  BY <1>3
<1>6. next \in Contents(Names)
  <2> HIDE DEF next
  <2>1. QED
    BY <1>4, <1>5 DEF Contents
<1>7. QED
  BY <1>1, <1>6 DEF Wrote

\* The writes, one after the other.
LEMMA WriteSteps ==
  ASSUME NEW Names, NEW writes \in Seq(Writes(Names))
  PROVE  \E f \in [0..Len(writes) -> Contents(Names)] :
           /\ f[0] = <<>> /\ f[Len(writes)] = Written(writes)
           /\ \A n \in 1..Len(writes) : f[n] = I2cWrite(f[n - 1], writes[n])
<1> DEFINE N == Len(writes)
           D == DOMAIN writes
           b == <<>>
           E(g) == [s \in SUBSET D |->
                      IF s = {} THEN b ELSE I2cWrite(g[s \ {Max(s)}], writes[Max(s)])]
           step == [n \in 1..N |-> [a \in Contents(Names) |-> I2cWrite(a, writes[n])]]
           fold == CHOOSE g : g = E(g)
<1>1. Written(writes) = fold[D]
  BY DEF Written, FoldLeft, MapThenFoldSet
<1>0. b \in Contents(Names)
  BY NoContents, Zenon
<1>2. N \in Nat /\ D = 1..N
  OBVIOUS
<1>3. ASSUME NEW n \in 1..N, NEW a \in Contents(Names)
      PROVE  I2cWrite(a, writes[n]) \in Contents(Names)
  <2>1. writes[n] \in Writes(Names)
    OBVIOUS
  <2>2. QED
    BY <2>1, WriteReaches, Zenon
<1>4. step \in [1..N -> [Contents(Names) -> Contents(Names)]]
  BY <1>3
<1> HIDE DEF b
<1>5. fold = E(fold)
  <2>1. PICK g \in [SUBSET (1..N) -> Contents(Names)] : IsFold(g, N, b, step)
    <3> HIDE DEF step, N
    <3>1. QED
      BY <1>0, <1>2, <1>4, FoldExists, Zenon
  <2>2. ASSUME NEW s \in SUBSET D
        PROVE  g[s] = IF s = {} THEN b ELSE I2cWrite(g[s \ {Max(s)}], writes[Max(s)])
    <3>1. g[s] = IF s = {} THEN b ELSE step[Max(s)][g[s \ {Max(s)}]]
      BY <1>2, <2>1 DEF IsFold
    <3>2. s # {} => Max(s) \in 1..N /\ g[s \ {Max(s)}] \in Contents(Names)
      BY <1>2, IndexLeft
    <3>3. QED
      BY <3>1, <3>2
  <2>3. g = E(g)
    BY <1>2, <2>2
  <2>4. QED
    BY <2>3
<1> HIDE DEF fold
<1>6. fold[{}] = b
  BY <1>5
<1>7. ASSUME NEW n \in 1..N, fold[1..n - 1] \in Contents(Names)
      PROVE  fold[1..n] = step[n][fold[1..n - 1]]
  <2>1. /\ 1..n \in SUBSET (1..N) /\ 1..n # {}
        /\ Max(1..n) = n /\ (1..n) \ {Max(1..n)} = 1..n - 1
    BY <1>2, IndexSets
  <2>2. fold[1..n] = I2cWrite(fold[1..n - 1], writes[n])
    BY <1>2, <1>5, <2>1
  <2>3. QED
    BY <1>7, <2>2
<1>8. PICK f \in [0..N -> Contents(Names)] : IsCourse(f, N, b, step, fold[1..N])
  <2> HIDE DEF step, N
  <2>1. QED
    BY <1>0, <1>2, <1>4, <1>6, <1>7, FoldCourse, Zenon
<1>9. ASSUME NEW n \in 1..N PROVE f[n] = I2cWrite(f[n - 1], writes[n])
  <2>1. f[n - 1] \in Contents(Names) /\ f[n] = step[n][f[n - 1]]
    <3> HIDE DEF step, N
    <3>1. n - 1 \in 0..N
      BY <1>2
    <3>2. QED
      BY <1>8, <3>1 DEF IsCourse
  <2>2. QED
    BY <2>1
<1>10. QED
  BY <1>1, <1>2, <1>8, <1>9 DEF IsCourse, b

\* After n writes: the registers that one of them reached, each with the byte of
\* the last that did.
Reached(regs, writes, n) ==
  /\ DOMAIN regs = {a \in Nat : \E i \in 1..n : a \in Bytes(writes[i])}
  /\ \A a \in DOMAIN regs : \E i \in 1..n :
       /\ a \in Bytes(writes[i]) /\ regs[a] = ByteFor(writes[i], a)
       /\ \A j \in i + 1..n : a \notin Bytes(writes[j])

LEMMA NextReached ==
  ASSUME NEW Names, NEW writes \in Seq(Writes(Names)),
         NEW n \in Nat, n + 1 \in 1..Len(writes),
         NEW regs \in Contents(Names), Reached(regs, writes, n)
  PROVE  Reached(I2cWrite(regs, writes[n + 1]), writes, n + 1)
<1>1. PICK w \in Writes(Names) : w = writes[n + 1]
  OBVIOUS
<1> DEFINE next == I2cWrite(regs, w)
<1>2. /\ DOMAIN next = DOMAIN regs \cup Bytes(w)
      /\ \A a \in Bytes(w) : next[a] = ByteFor(w, a)
      /\ \A a \in DOMAIN regs : a \notin Bytes(w) => next[a] = regs[a]
  <2>1. Wrote(regs, w, next)
    BY WriteReaches, Zenon
  <2>2. QED
    BY <2>1, Zenon DEF Wrote
<1>3. Bytes(w) \subseteq Nat
  BY DEF Writes, Areas, Bytes
<1> HIDE DEF next
<1>4. DOMAIN next = {a \in Nat : \E i \in 1..n + 1 : a \in Bytes(writes[i])}
  <2>1. \A i \in 1..n + 1 : i \in 1..n \/ i = n + 1
    OBVIOUS
  <2>2. n + 1 \in 1..n + 1 /\ \A i \in 1..n : i \in 1..n + 1
    OBVIOUS
  <2>3. QED
    BY <1>1, <1>2, <1>3, <2>1, <2>2 DEF Reached
<1>5. ASSUME NEW a \in DOMAIN next
      PROVE  \E i \in 1..n + 1 :
               /\ a \in Bytes(writes[i]) /\ next[a] = ByteFor(writes[i], a)
               /\ \A j \in i + 1..n + 1 : a \notin Bytes(writes[j])
  <2>1. CASE a \in Bytes(w)
    <3>1. n + 1 \in 1..n + 1 /\ \A j \in n + 1 + 1..n + 1 : FALSE
      OBVIOUS
    <3>2. QED
      BY <1>1, <1>2, <2>1, <3>1
  <2>2. CASE a \notin Bytes(w)
    <3>1. a \in DOMAIN regs /\ next[a] = regs[a]
      BY <1>2, <2>2
    <3>2. PICK i \in 1..n : /\ a \in Bytes(writes[i]) /\ regs[a] = ByteFor(writes[i], a)
                            /\ \A j \in i + 1..n : a \notin Bytes(writes[j])
      BY <3>1 DEF Reached
    <3>3. i \in 1..n + 1 /\ \A j \in i + 1..n + 1 : j \in i + 1..n \/ j = n + 1
      OBVIOUS
    <3>4. QED
      BY <1>1, <2>2, <3>1, <3>2, <3>3
  <2>3. QED
    BY <2>1, <2>2
<1>6. QED
  BY <1>1, <1>4, <1>5 DEF Reached, next

\* Each register keeps the byte of the last write that reached it.
LEMMA LastWriteStays ==
  ASSUME NEW Names, NEW writes \in Seq(Writes(Names))
  PROVE  Reached(Written(writes), writes, Len(writes))
<1> DEFINE N == Len(writes)
<1>1. PICK f \in [0..N -> Contents(Names)] :
         /\ f[0] = <<>> /\ f[N] = Written(writes)
         /\ \A n \in 1..N : f[n] = I2cWrite(f[n - 1], writes[n])
  BY WriteSteps
<1> DEFINE P == {n \in Nat : n <= N => Reached(f[n], writes, n)}
<1>2. N \in Nat
  OBVIOUS
<1>3. 0 \in P
  <2>1. DOMAIN f[0] = {} /\ 1..0 = {}
    BY <1>1, NoContents
  <2>2. Reached(f[0], writes, 0)
    BY <2>1 DEF Reached
  <2>3. QED
    BY <2>2
<1>4. ASSUME NEW n \in Nat, n \in P PROVE n + 1 \in P
  <2>1. CASE n + 1 <= N
    <3>1. n + 1 \in 1..N /\ n \in 0..N /\ n + 1 - 1 = n /\ Reached(f[n], writes, n)
      BY <1>2, <1>4, <2>1
    <3>2. f[n] \in Contents(Names) /\ f[n + 1] = I2cWrite(f[n], writes[n + 1])
      BY <1>1, <3>1
    <3>3. Reached(f[n + 1], writes, n + 1)
      BY <3>1, <3>2, NextReached
    <3>4. QED
      BY <3>3
  <2>2. QED
    BY <2>1
<1>5. N \in P
  <2> HIDE DEF P
  <2>1. QED
    BY <1>2, <1>3, <1>4, Grows
<1>6. QED
  BY <1>1, <1>5

\* Tables, as they are in the code; and the bytes that are chunk k's share.
Wholes(Names) == {t \in Areas(Names) : t.from = 0}

Share(t, k) == {a \in Bytes(t) : (k - 1) * 30 <= a - t.at /\ a - t.at < k * 30}

LEMMA ShareBounds ==
  ASSUME NEW at \in Nat, NEW len \in Nat, NEW offset \in Nat, NEW n \in Nat,
         n <= 30, offset + n <= len, n = 30 \/ offset + n = len
  PROVE  \A a : a \in at + offset..at + offset + n - 1
                  <=> /\ a \in at..at + len - 1
                      /\ offset <= a - at /\ a - at < offset + 30
<1>1. ASSUME NEW a \in Int
      PROVE  a \in at + offset..at + offset + n - 1
               <=> /\ a \in at..at + len - 1
                   /\ offset <= a - at /\ a - at < offset + 30
  OBVIOUS
<1>2. \A a \in at + offset..at + offset + n - 1 : a \in Int
  OBVIOUS
<1>3. \A a \in at..at + len - 1 : a \in Int
  OBVIOUS
<1>4. QED
  BY <1>1, <1>2, <1>3, Zenon

LEMMA ChunkAt ==
  ASSUME NEW Names, NEW t \in Wholes(Names), NEW k \in DOMAIN Chunked(t)
  PROVE  /\ DOMAIN Chunked(t) = 1..(t.len + 29) \div 30
         /\ Chunked(t)[k] \in Writes(Names)
         /\ Bytes(Chunked(t)[k]) = Share(t, k)
         /\ \A a \in Bytes(Chunked(t)[k]) : ByteFor(Chunked(t)[k], a) = ByteFor(t, a)
<1> DEFINE offset == (k - 1) * 30
           left   == t.len - offset
           n      == IF left < 30 THEN left ELSE 30
           c      == [what |-> t.what, at |-> t.at + offset, from |-> offset, len |-> n]
<1>1. /\ t.what \in Names /\ t.at \in Nat /\ t.len \in Nat /\ t.from = 0
  BY DEF Wholes, Areas
<1>2. t.len + 30 - 1 = t.len + 29
  BY <1>1
<1>3. DOMAIN Chunked(t) = 1..(t.len + 29) \div 30
  BY <1>2 DEF Chunked, ChunkSize
<1>4. Chunked(t)[k] = c
  BY <1>2, <1>3 DEF Chunked, ChunkSize
<1>5. k \in Nat \ {0} /\ k <= (t.len + 29) \div 30
  BY <1>1, <1>3
<1>6. 30 * ((t.len + 29) \div 30) <= t.len + 29
  BY <1>1, DivBounds
<1>7. offset \in Nat /\ n \in Nat /\ n <= 30 /\ offset + n <= t.len /\ offset + 30 = k * 30
      /\ (n = 30 \/ offset + n = t.len)
  BY <1>1, <1>5, <1>6
<1> HIDE DEF offset, n
<1>8. c \in Writes(Names)
  BY <1>1, <1>7 DEF Writes, Areas, ChunkSize
<1>9. Bytes(c) = t.at + offset..t.at + offset + n - 1 /\ Bytes(t) = t.at..t.at + t.len - 1
  BY DEF Bytes
<1>10. Bytes(c) = Share(t, k)
  <2>1. \A a : a \in Bytes(c) <=> /\ a \in Bytes(t)
                                  /\ offset <= a - t.at /\ a - t.at < offset + 30
    <3>1. \A a : a \in t.at + offset..t.at + offset + n - 1
                   <=> /\ a \in t.at..t.at + t.len - 1
                       /\ offset <= a - t.at /\ a - t.at < offset + 30
      BY <1>1, <1>7, ShareBounds, Zenon
    <3>2. QED
      BY <1>9, <3>1, Zenon
  <2> HIDE DEF c
  <2>2. QED
    BY <1>7, <2>1 DEF Share, offset
<1>11. ASSUME NEW a \in Bytes(c) PROVE ByteFor(c, a) = ByteFor(t, a)
  <2>1. a \in Nat
    BY <1>1, <1>7, <1>9
  <2>2. offset + a - (t.at + offset) = 0 + a - t.at
    BY <1>1, <1>7, <2>1
  <2>3. QED
    BY <1>1, <2>2 DEF ByteFor
<1> HIDE DEF c
<1>12. QED
  BY <1>3, <1>4, <1>7, <1>8, <1>10, <1>11 DEF offset

\* A table of any length, cut into chunks: none is too long for a write, no byte
\* of one is beyond the table, and every byte of the table is in exactly one, at
\* the place the table has it (iqs9151_write_chunks).
THEOREM ChunksMakeTheTable ==
  ASSUME NEW Names, NEW t \in Wholes(Names)
  PROVE  /\ Chunked(t) \in Seq(Writes(Names))
         /\ \A c \in ToSet(Chunked(t)) :
              Bytes(c) \subseteq Bytes(t) /\ \A a \in Bytes(c) : ByteFor(c, a) = ByteFor(t, a)
         /\ \A a \in Bytes(t) : \E k \in DOMAIN Chunked(t) :
              /\ a \in Bytes(Chunked(t)[k])
              /\ \A j \in DOMAIN Chunked(t) : a \in Bytes(Chunked(t)[j]) => j = k
<1> DEFINE m == (t.len + 29) \div 30
           C == Chunked(t)
<1>1. t.at \in Nat /\ t.len \in Nat /\ t.len + 30 - 1 = t.len + 29
  BY DEF Wholes, Areas
<1>2. m \in Nat /\ 30 * m <= t.len + 29 /\ t.len + 29 < 30 * m + 30
  <2>1. t.len + 29 \in Nat /\ 30 \in Nat \ {0}
    BY <1>1
  <2>2. QED
    BY <2>1, DivBounds, DivOfNat
<1>3. DOMAIN C = 1..m
  BY <1>1 DEF Chunked, ChunkSize
<1> HIDE DEF m
<1>4. C \in Seq(Writes(Names))
  <2>1. \A k \in 1..m : C[k] \in Writes(Names)
    BY <1>3, ChunkAt
  <2>2. C = [k \in 1..m |-> C[k]]
    BY <1>1 DEF Chunked, ChunkSize, m
  <2> HIDE DEF C
  <2>3. C \in [1..m -> Writes(Names)]
    BY <2>1, <2>2
  <2>4. QED
    BY <1>2, <2>3
<1>5. ASSUME NEW a \in Bytes(t)
      PROVE  \E k \in DOMAIN C :
               a \in Bytes(C[k]) /\ \A j \in DOMAIN C : a \in Bytes(C[j]) => j = k
  <2> DEFINE d == a - t.at
             q == d \div 30
  <2>1. d \in Nat /\ d < t.len
    BY <1>1 DEF Bytes
  <2>2. q \in Nat /\ 30 * q <= d /\ d < 30 * q + 30
    BY <2>1, DivBounds, DivOfNat
  <2> HIDE DEF q
  <2>3. q + 1 \in 1..m
    BY <1>1, <1>2, <2>1, <2>2
  <2>4. a \in Bytes(C[q + 1])
    <3>1. q + 1 - 1 = q /\ q * 30 <= d /\ d < (q + 1) * 30
      BY <2>1, <2>2
    <3>2. q + 1 \in DOMAIN C
      BY <1>3, <2>3
    <3>3. a \in Share(t, q + 1)
      BY <1>5, <2>1, <2>2, <3>1 DEF Share
    <3>4. QED
      BY <3>2, <3>3, ChunkAt
  <2>5. ASSUME NEW j \in 1..m, a \in Bytes(C[j]) PROVE j = q + 1
    <3>1. (j - 1) * 30 <= d /\ d < j * 30
      BY <1>3, <2>5, ChunkAt DEF Share
    <3>2. QED
      BY <2>1, <2>2, <3>1
  <2>6. QED
    BY <1>3, <2>3, <2>4, <2>5
<1>6. \A c \in ToSet(C) : \E k \in DOMAIN C : c = C[k]
  BY DEF ToSet
<1> HIDE DEF C
<1>7. \A c \in ToSet(C) :
        Bytes(c) \subseteq Bytes(t) /\ \A a \in Bytes(c) : ByteFor(c, a) = ByteFor(t, a)
  BY <1>6, ChunkAt DEF C, Share
<1>8. QED
  BY <1>4, <1>5, <1>7 DEF C

LEMMA JoinedSet ==
  ASSUME NEW S, NEW s \in Seq(S), NEW r \in Seq(S)
  PROVE  s \o r \in Seq(S) /\ ToSet(s \o r) = ToSet(s) \cup ToSet(r)
<1>1. /\ s \o r \in Seq(S) /\ Len(s \o r) = Len(s) + Len(r)
      /\ \A i \in 1..Len(s) + Len(r) :
           (s \o r)[i] = IF i <= Len(s) THEN s[i] ELSE r[i - Len(s)]
  BY ConcatProperties
<1>2. Len(s) \in Nat /\ Len(r) \in Nat /\ DOMAIN s = 1..Len(s) /\ DOMAIN r = 1..Len(r)
      /\ DOMAIN (s \o r) = 1..Len(s) + Len(r)
  BY <1>1
<1>3. ASSUME NEW i \in 1..Len(s) + Len(r)
      PROVE  (s \o r)[i] \in ToSet(s) \cup ToSet(r)
  <2>1. CASE i <= Len(s)
    BY <1>1, <1>2, <2>1 DEF ToSet
  <2>2. CASE ~(i <= Len(s))
    <3>1. i - Len(s) \in DOMAIN r /\ (s \o r)[i] = r[i - Len(s)]
      BY <1>1, <1>2, <2>2
    <3>2. QED
      BY <3>1 DEF ToSet
  <2>3. QED
    BY <2>1, <2>2
<1>4. ASSUME NEW i \in DOMAIN s PROVE s[i] \in ToSet(s \o r)
  <2>1. i \in DOMAIN (s \o r) /\ (s \o r)[i] = s[i]
    BY <1>1, <1>2
  <2>2. QED
    BY <2>1 DEF ToSet
<1>5. ASSUME NEW i \in DOMAIN r PROVE r[i] \in ToSet(s \o r)
  <2>1. Len(s) + i \in DOMAIN (s \o r) /\ (s \o r)[Len(s) + i] = r[i]
    BY <1>1, <1>2
  <2>2. QED
    BY <2>1 DEF ToSet
<1>6. QED
  BY <1>1, <1>2, <1>3, <1>4, <1>5 DEF ToSet

LEMMA NoWrites ==
  ASSUME NEW Names
  PROVE  <<>> \in Seq(Writes(Names)) /\ ToSet(<<>>) = {}
  BY DEF ToSet

\* The tables, one after the other.
LEMMA TableSteps ==
  ASSUME NEW Names, NEW tables \in Seq(Wholes(Names))
  PROVE  \E f \in [0..Len(tables) -> Seq(Writes(Names))] :
           /\ f[0] = <<>> /\ f[Len(tables)] = ChunkWrites(tables)
           /\ \A n \in 1..Len(tables) : f[n] = f[n - 1] \o Chunked(tables[n])
<1> DEFINE N == Len(tables)
           D == DOMAIN tables
           S == Seq(Writes(Names))
           b == <<>>
           E(g) == [s \in SUBSET D |->
                      IF s = {} THEN b ELSE g[s \ {Max(s)}] \o Chunked(tables[Max(s)])]
           step == [n \in 1..N |-> [a \in S |-> a \o Chunked(tables[n])]]
           fold == CHOOSE g : g = E(g)
<1>1. ChunkWrites(tables) = fold[D]
  BY DEF ChunkWrites, FoldLeft, MapThenFoldSet
<1>0. b \in S
  BY NoWrites, Zenon
<1>2. N \in Nat /\ D = 1..N
  OBVIOUS
<1>3. ASSUME NEW n \in 1..N, NEW a \in S PROVE a \o Chunked(tables[n]) \in S
  <2>1. tables[n] \in Wholes(Names)
    OBVIOUS
  <2>2. Chunked(tables[n]) \in Seq(Writes(Names))
    BY <2>1, ChunksMakeTheTable, Zenon
  <2>3. QED
    BY <2>2, ConcatProperties
<1>4. step \in [1..N -> [S -> S]]
  BY <1>3
<1> HIDE DEF b, S
<1>5. fold = E(fold)
  <2>1. PICK g \in [SUBSET (1..N) -> S] : IsFold(g, N, b, step)
    <3> HIDE DEF step, N
    <3>1. QED
      BY <1>0, <1>2, <1>4, FoldExists, Zenon
  <2>2. ASSUME NEW s \in SUBSET D
        PROVE  g[s] = IF s = {} THEN b ELSE g[s \ {Max(s)}] \o Chunked(tables[Max(s)])
    <3>1. g[s] = IF s = {} THEN b ELSE step[Max(s)][g[s \ {Max(s)}]]
      BY <1>2, <2>1 DEF IsFold
    <3>2. s # {} => Max(s) \in 1..N /\ g[s \ {Max(s)}] \in S
      BY <1>2, IndexLeft
    <3>3. QED
      BY <3>1, <3>2
  <2>3. g = E(g)
    BY <1>2, <2>2
  <2>4. QED
    BY <2>3
<1> HIDE DEF fold
<1>6. fold[{}] = b
  BY <1>5
<1>7. ASSUME NEW n \in 1..N, fold[1..n - 1] \in S
      PROVE  fold[1..n] = step[n][fold[1..n - 1]]
  <2>1. /\ 1..n \in SUBSET (1..N) /\ 1..n # {}
        /\ Max(1..n) = n /\ (1..n) \ {Max(1..n)} = 1..n - 1
    BY <1>2, IndexSets
  <2>2. fold[1..n] = fold[1..n - 1] \o Chunked(tables[n])
    BY <1>2, <1>5, <2>1
  <2>3. QED
    BY <1>7, <2>2
<1>8. PICK f \in [0..N -> S] : IsCourse(f, N, b, step, fold[1..N])
  <2> HIDE DEF step, N
  <2>1. QED
    BY <1>0, <1>2, <1>4, <1>6, <1>7, FoldCourse, Zenon
<1>9. ASSUME NEW n \in 1..N PROVE f[n] = f[n - 1] \o Chunked(tables[n])
  <2>1. f[n - 1] \in S /\ f[n] = step[n][f[n - 1]]
    <3> HIDE DEF step, N
    <3>1. n - 1 \in 0..N
      BY <1>2
    <3>2. QED
      BY <1>8, <3>1 DEF IsCourse
  <2>2. QED
    BY <2>1
<1>10. QED
  BY <1>1, <1>2, <1>8, <1>9 DEF IsCourse, b, S

\* The writes of the first n tables are their chunks.
Chunks(tables, n) == UNION {ToSet(Chunked(tables[i])) : i \in 1..n}

LEMMA TablesInChunks ==
  ASSUME NEW Names, NEW tables \in Seq(Wholes(Names))
  PROVE  /\ ChunkWrites(tables) \in Seq(Writes(Names))
         /\ ToSet(ChunkWrites(tables)) = Chunks(tables, Len(tables))
<1> DEFINE N == Len(tables)
<1>1. PICK f \in [0..N -> Seq(Writes(Names))] :
         /\ f[0] = <<>> /\ f[N] = ChunkWrites(tables)
         /\ \A n \in 1..N : f[n] = f[n - 1] \o Chunked(tables[n])
  BY TableSteps
<1> DEFINE P == {n \in Nat : n <= N => ToSet(f[n]) = Chunks(tables, n)}
<1>2. N \in Nat
  OBVIOUS
<1>3. 0 \in P
  <2>1. ToSet(f[0]) = {}
    BY <1>1, NoWrites
  <2>2. 1..0 = {}
    OBVIOUS
  <2>3. QED
    BY <2>1, <2>2 DEF Chunks
<1>4. ASSUME NEW n \in Nat, n \in P PROVE n + 1 \in P
  <2>1. CASE n + 1 <= N
    <3>1. n + 1 \in 1..N /\ n \in 0..N /\ n + 1 - 1 = n /\ ToSet(f[n]) = Chunks(tables, n)
      BY <1>2, <1>4, <2>1
    <3>2. f[n] \in Seq(Writes(Names)) /\ f[n + 1] = f[n] \o Chunked(tables[n + 1])
      <4>1. f[n] \in Seq(Writes(Names))
        <5> HIDE DEF N
        <5>1. QED
          BY <3>1
      <4>2. PICK m \in 1..N : m = n + 1
        BY <3>1
      <4>3. f[m] = f[m - 1] \o Chunked(tables[m])
        BY <1>1, Zenon
      <4>4. m - 1 = n
        BY <4>2
      <4>5. QED
        BY <4>1, <4>2, <4>3, <4>4, Zenon
    <3>3. tables[n + 1] \in Wholes(Names)
      BY <3>1
    <3>4. Chunked(tables[n + 1]) \in Seq(Writes(Names))
      BY <3>3, ChunksMakeTheTable, Zenon
    <3>5. ToSet(f[n + 1]) = Chunks(tables, n) \cup ToSet(Chunked(tables[n + 1]))
      BY <3>1, <3>2, <3>4, JoinedSet
    <3>6. 1..n + 1 = (1..n) \cup {n + 1}
      OBVIOUS
    <3>7. Chunks(tables, n + 1) = Chunks(tables, n) \cup ToSet(Chunked(tables[n + 1]))
      BY <3>6, Zenon DEF Chunks
    <3>8. QED
      BY <3>5, <3>7
  <2>2. QED
    BY <2>1
<1>5. N \in P
  <2> HIDE DEF P
  <2>1. QED
    BY <1>2, <1>3, <1>4, Grows
<1>6. f[N] \in Seq(Writes(Names))
  BY <1>2
<1>7. QED
  BY <1>1, <1>5, <1>6

\* Wherever tables of any length are put, and whatever single registers are
\* written after them: what is written is those tables and registers and nothing
\* else, a single register that was written has its own byte, and every other
\* byte is that of a table which belongs there (iqs9151_configure and
\* iqs9151_apply_kconfig_overrides).
THEOREM WritesLand ==
  ASSUME NEW Names, NEW tables \in Seq(Wholes(Names)),
         NEW singles \in Seq(Wholes(Names) \cap Writes(Names))
  PROVE  LET regs == Written(ChunkWrites(tables) \o singles)
         IN  /\ DOMAIN regs = UNION {Bytes(w) : w \in ToSet(tables) \cup ToSet(singles)}
             /\ \A a \in DOMAIN regs :
                  \/ \E s \in ToSet(singles) : a \in Bytes(s) /\ regs[a] = ByteFor(s, a)
                  \/ /\ \A s \in ToSet(singles) : a \notin Bytes(s)
                     /\ \E t \in ToSet(tables) : a \in Bytes(t) /\ regs[a] = ByteFor(t, a)
<1> DEFINE cw     == ChunkWrites(tables)
           writes == cw \o singles
           regs   == Written(writes)
<1>1. cw \in Seq(Writes(Names)) /\ ToSet(cw) = Chunks(tables, Len(tables))
  BY TablesInChunks, Zenon
<1>2. ASSUME NEW c \in ToSet(cw)
      PROVE  \E t \in ToSet(tables) : /\ Bytes(c) \subseteq Bytes(t)
                                      /\ \A a \in Bytes(c) : ByteFor(c, a) = ByteFor(t, a)
  <2>1. PICK i \in 1..Len(tables) : c \in ToSet(Chunked(tables[i]))
    BY <1>1, <1>2, Zenon DEF Chunks
  <2>2. tables[i] \in Wholes(Names) /\ tables[i] \in ToSet(tables)
    BY DEF ToSet
  <2>3. QED
    BY <2>1, <2>2, ChunksMakeTheTable, Zenon
<1>3. ASSUME NEW t \in ToSet(tables), NEW a \in Bytes(t)
      PROVE  \E c \in ToSet(cw) : a \in Bytes(c)
  <2>1. PICK i \in 1..Len(tables) : t = tables[i]
    BY DEF ToSet
  <2>2. t \in Wholes(Names)
    BY <2>1
  <2>3. PICK k \in DOMAIN Chunked(t) : a \in Bytes(Chunked(t)[k])
    BY <1>3, <2>2, ChunksMakeTheTable, Zenon
  <2>4. Chunked(t)[k] \in ToSet(Chunked(t))
    BY Zenon DEF ToSet
  <2>5. Chunked(t)[k] \in ToSet(cw)
    BY <1>1, <2>1, <2>4, Zenon DEF Chunks
  <2>6. QED
    BY <2>3, <2>5, Zenon
<1> HIDE DEF cw
<1>4. singles \in Seq(Writes(Names))
  OBVIOUS
<1>5. writes \in Seq(Writes(Names)) /\ ToSet(writes) = ToSet(cw) \cup ToSet(singles)
  BY <1>1, <1>4, JoinedSet
<1>6. Reached(regs, writes, Len(writes))
  BY <1>5, LastWriteStays, Zenon
<1>7. /\ Len(cw) \in Nat /\ Len(singles) \in Nat /\ Len(writes) = Len(cw) + Len(singles)
      /\ \A i \in 1..Len(cw) + Len(singles) :
           writes[i] = IF i <= Len(cw) THEN cw[i] ELSE singles[i - Len(cw)]
      /\ DOMAIN cw = 1..Len(cw) /\ DOMAIN singles = 1..Len(singles)
      /\ DOMAIN writes = 1..Len(writes)
  BY <1>1, <1>4, <1>5, ConcatProperties
<1>8. \A w \in ToSet(writes) : Bytes(w) \subseteq Nat
  <2>1. \A w \in Writes(Names) : Bytes(w) \subseteq Nat
    BY DEF Writes, Areas, Bytes
  <2>2. ToSet(writes) \subseteq Writes(Names)
    BY <1>5, <1>7 DEF ToSet
  <2>3. QED
    BY <2>1, <2>2
<1>9. ASSUME NEW i \in 1..Len(writes), i > Len(cw) PROVE writes[i] \in ToSet(singles)
  <2>1. i - Len(cw) \in DOMAIN singles /\ writes[i] = singles[i - Len(cw)]
    BY <1>7, <1>9
  <2>2. QED
    BY <2>1 DEF ToSet
<1>10. ASSUME NEW i \in 1..Len(writes), ~(i > Len(cw)) PROVE writes[i] \in ToSet(cw)
  <2>1. i \in DOMAIN cw /\ writes[i] = cw[i]
    BY <1>7, <1>10
  <2>2. QED
    BY <2>1 DEF ToSet
<1>11. ASSUME NEW s \in ToSet(singles)
       PROVE  \E j \in 1..Len(writes) : j > Len(cw) /\ writes[j] = s
  <2>1. PICK k \in DOMAIN singles : s = singles[k]
    BY DEF ToSet
  <2>2. /\ Len(cw) + k \in 1..Len(writes) /\ Len(cw) + k > Len(cw)
        /\ writes[Len(cw) + k] = singles[Len(cw) + k - Len(cw)] /\ Len(cw) + k - Len(cw) = k
    BY <1>7
  <2>3. QED
    BY <2>1, <2>2
<1> HIDE DEF writes, regs
<1>12. DOMAIN regs = UNION {Bytes(w) : w \in ToSet(tables) \cup ToSet(singles)}
  <2>1. DOMAIN regs = {a \in Nat : \E i \in DOMAIN writes : a \in Bytes(writes[i])}
    BY <1>6, <1>7 DEF Reached
  <2>2. DOMAIN regs = UNION {Bytes(w) : w \in ToSet(cw) \cup ToSet(singles)}
    BY <1>5, <1>8, <2>1 DEF ToSet
  <2>3. UNION {Bytes(w) : w \in ToSet(cw)} = UNION {Bytes(w) : w \in ToSet(tables)}
    BY <1>2, <1>3
  <2>4. QED
    BY <2>2, <2>3
<1>13. ASSUME NEW a \in DOMAIN regs
       PROVE  \/ \E s \in ToSet(singles) : a \in Bytes(s) /\ regs[a] = ByteFor(s, a)
              \/ /\ \A s \in ToSet(singles) : a \notin Bytes(s)
                 /\ \E t \in ToSet(tables) : a \in Bytes(t) /\ regs[a] = ByteFor(t, a)
  <2>1. PICK i \in 1..Len(writes) :
          /\ a \in Bytes(writes[i]) /\ regs[a] = ByteFor(writes[i], a)
          /\ \A j \in i + 1..Len(writes) : a \notin Bytes(writes[j])
    BY <1>6 DEF Reached
  <2>2. CASE i > Len(cw)
    BY <1>9, <2>1, <2>2
  <2>3. CASE ~(i > Len(cw))
    <3>1. PICK t \in ToSet(tables) : a \in Bytes(t) /\ ByteFor(writes[i], a) = ByteFor(t, a)
      BY <1>2, <1>10, <2>1, <2>3
    <3>2. ASSUME NEW s \in ToSet(singles) PROVE a \notin Bytes(s)
      <4>1. PICK j \in 1..Len(writes) : j > Len(cw) /\ writes[j] = s
        BY <1>11
      <4>2. j \in i + 1..Len(writes)
        BY <1>7, <2>3, <4>1
      <4>3. QED
        BY <2>1, <4>1, <4>2
    <3>3. QED
      BY <2>1, <3>1, <3>2
  <2>4. QED
    BY <2>2, <2>3
<1>14. QED
  BY <1>12, <1>13 DEF regs, writes, cw

\* The tables and registers of the code, and their names.
Named == ToSet(Geometry) \cup ToSet(IcParams) \cup ToSet(Controls)

AllNames == {w.what : w \in ToSet(Tables) \cup Named}

Registered(Names) == Wholes(Names) \cap Writes(Names)

LEMMA WholeRecord ==
  ASSUME NEW Names, NEW w, w.what \in Names, w.at \in Nat, w.len \in Nat,
         w = [what |-> w.what, at |-> w.at, from |-> 0, len |-> w.len]
  PROVE  w \in Wholes(Names) /\ (w.len <= 30 => w \in Registered(Names))
<1> DEFINE r == [what |-> w.what, at |-> w.at, from |-> 0, len |-> w.len]
<1>1. r \in Wholes(Names) /\ (w.len <= 30 => r \in Registered(Names))
  BY DEF Wholes, Areas, Writes, ChunkSize, Registered
<1> HIDE DEF r
<1>2. QED
  BY <1>1 DEF r

LEMMA TablesAreWhole == Tables \in Seq(Wholes(AllNames))
<1>1. Tables \in Seq(ToSet(Tables))
  BY DEF Tables, ToSet
<1>2. \A w \in ToSet(Tables) : w.at \in Nat /\ w.len \in Nat
  BY DEF Tables, Area, ToSet
<1>3. \A w \in ToSet(Tables) :
        w = [what |-> w.what, at |-> w.at, from |-> 0, len |-> w.len]
  BY DEF Tables, Area, ToSet
<1>4. \A w \in ToSet(Tables) : w.what \in AllNames
  BY Zenon DEF AllNames
<1>5. ToSet(Tables) \subseteq Wholes(AllNames)
  BY <1>2, <1>3, <1>4, WholeRecord
<1> HIDE DEF Tables
<1>6. QED
  BY <1>1, <1>5

LEMMA NamedPlaces ==
  /\ Named \subseteq Registered(AllNames)
  /\ \A s \in Named : /\ s.at \in Nat /\ s.len \in {1, 2} /\ s.from = 0
                      /\ 4472 <= s.at /\ s.at + s.len <= 4472 + 126
  /\ \A s \in Named, t \in Named : s.at <= t.at /\ t.at < s.at + s.len => s = t
<1>1. \A s \in Named : /\ s.at \in Nat /\ s.len \in {1, 2} /\ s.from = 0
                       /\ 4472 <= s.at /\ s.at + s.len <= 4472 + 126
  BY DEF Named, ToSet, Geometry, IcParams, Controls, U8, U16, Area
<1>2. \A s \in Named, t \in Named : s.at <= t.at /\ t.at < s.at + s.len => s = t
  BY DEF Named, ToSet, Geometry, IcParams, Controls, U8, U16, Area
<1>3. \A w \in Named : w = [what |-> w.what, at |-> w.at, from |-> 0, len |-> w.len]
  <2>1. \A w \in ToSet(Geometry) :
          w = [what |-> w.what, at |-> w.at, from |-> 0, len |-> w.len]
    BY DEF Geometry, U8, U16, Area, ToSet
  <2>2. \A w \in ToSet(IcParams) :
          w = [what |-> w.what, at |-> w.at, from |-> 0, len |-> w.len]
    BY DEF IcParams, U8, U16, Area, ToSet
  <2>3. \A w \in ToSet(Controls) :
          w = [what |-> w.what, at |-> w.at, from |-> 0, len |-> w.len]
    BY DEF Controls, U8, U16, Area, ToSet
  <2>4. QED
    BY <2>1, <2>2, <2>3, Zenon DEF Named
<1>4. \A w \in Named : w.what \in AllNames
  BY Zenon DEF AllNames
<1>5. \A w \in Named : w.len \in Nat /\ w.len <= 30
  BY <1>1
<1>6. Named \subseteq Registered(AllNames)
  BY <1>1, <1>3, <1>4, <1>5, WholeRecord
<1>7. QED
  BY <1>1, <1>2, <1>6

LEMMA TablePlaces ==
  /\ \A t \in ToSet(Tables) : t.at \in Nat /\ t.len \in Nat
  /\ \E t \in ToSet(Tables) : t.at = 4472 /\ t.len = 126
  /\ \A s \in ToSet(Tables), t \in ToSet(Tables) :
       s.at <= t.at /\ t.at < s.at + s.len => s = t
  BY DEF Tables, ToSet, Area

LEMMA JoinedThree ==
  ASSUME NEW S, NEW s \in Seq(S), NEW r \in Seq(S), NEW q \in Seq(S)
  PROVE  /\ s \o r \o q \in Seq(S)
         /\ ToSet(s \o r \o q) = ToSet(s) \cup ToSet(r) \cup ToSet(q)
<1> DEFINE both == s \o r
<1>1. both \in Seq(S) /\ ToSet(both) = ToSet(s) \cup ToSet(r)
  BY JoinedSet
<1> HIDE DEF both
<1>2. both \o q \in Seq(S) /\ ToSet(both \o q) = ToSet(both) \cup ToSet(q)
  BY <1>1, JoinedSet
<1>3. QED
  BY <1>1, <1>2 DEF both

LEMMA OverridesAreNamed ==
  Overrides \in Seq(Registered(AllNames)) /\ Singles = Named
<1>1. /\ Geometry \in Seq(ToSet(Geometry)) /\ IcParams \in Seq(ToSet(IcParams))
      /\ Controls \in Seq(ToSet(Controls))
  BY DEF Geometry, IcParams, Controls, ToSet
<1>2. /\ ToSet(Geometry) \subseteq Named /\ ToSet(IcParams) \subseteq Named
      /\ ToSet(Controls) \subseteq Named
  BY Zenon DEF Named
<1>3. /\ Geometry \in Seq(Named) /\ IcParams \in Seq(Named) /\ Controls \in Seq(Named)
  BY <1>1, <1>2
<1>4. /\ Geometry \o IcParams \o Controls \in Seq(Named)
      /\ ToSet(Geometry \o IcParams \o Controls)
           = ToSet(Geometry) \cup ToSet(IcParams) \cup ToSet(Controls)
  BY <1>3, JoinedThree
<1>5. Overrides \in Seq(Named)
  BY <1>4, Zenon DEF Overrides
<1>6. Singles = Named
  BY <1>4, Zenon DEF Overrides, Singles, Named
<1> HIDE DEF Overrides, Named
<1>7. QED
  BY <1>5, <1>6, NamedPlaces

\* No two of them share a byte, and the single registers are inside a table.
LEMMA PlacesApart ==
  ASSUME NEW a
  PROVE  /\ \A s \in Singles, t \in Singles : a \in Bytes(s) /\ a \in Bytes(t) => s = t
         /\ \A s \in ToSet(Tables), t \in ToSet(Tables) :
              a \in Bytes(s) /\ a \in Bytes(t) => s = t
         /\ \A s \in Singles : a \in Bytes(s) => \E t \in ToSet(Tables) : a \in Bytes(t)
<1>1. Singles = Named
  BY OverridesAreNamed
<1>2. \A s \in Named, t \in Named : a \in Bytes(s) /\ a \in Bytes(t) => s = t
  <2> SUFFICES ASSUME NEW s \in Named, NEW t \in Named, a \in Bytes(s), a \in Bytes(t)
               PROVE  s = t
    OBVIOUS
  <2>1. /\ s.at \in Nat /\ s.len \in {1, 2} /\ t.at \in Nat /\ t.len \in {1, 2}
        /\ s.at <= t.at /\ t.at < s.at + s.len => s = t
        /\ t.at <= s.at /\ s.at < t.at + t.len => t = s
    BY NamedPlaces
  <2>2. QED
    BY <2>1 DEF Bytes
<1>3. \A s \in ToSet(Tables), t \in ToSet(Tables) : a \in Bytes(s) /\ a \in Bytes(t) => s = t
  <2> SUFFICES ASSUME NEW s \in ToSet(Tables), NEW t \in ToSet(Tables),
                      a \in Bytes(s), a \in Bytes(t)
               PROVE  s = t
    OBVIOUS
  <2>1. /\ s.at \in Nat /\ s.len \in Nat /\ t.at \in Nat /\ t.len \in Nat
        /\ s.at <= t.at /\ t.at < s.at + s.len => s = t
        /\ t.at <= s.at /\ s.at < t.at + t.len => t = s
    BY TablePlaces
  <2>2. QED
    BY <2>1 DEF Bytes
<1>4. ASSUME NEW s \in Named, a \in Bytes(s) PROVE \E t \in ToSet(Tables) : a \in Bytes(t)
  <2>1. PICK t \in ToSet(Tables) : t.at = 4472 /\ t.len = 126
    BY TablePlaces
  <2>2. s.at \in Nat /\ s.len \in {1, 2} /\ 4472 <= s.at /\ s.at + s.len <= 4472 + 126
    BY NamedPlaces
  <2>3. a \in Bytes(t)
    BY <1>4, <2>1, <2>2 DEF Bytes
  <2>4. QED
    BY <2>3
<1>5. QED
  BY <1>1, <1>2, <1>3, <1>4

\* The tables and registers of the code are an instance of WritesLand, and no two
\* of them fit the same byte.
LEMMA LandsByteByByte == EveryByteLands
<1> DEFINE regs     == Written(InitWrites)
           into(a)  == {s \in Singles : a \in Bytes(s)}
           below(a) == {t \in ToSet(Tables) : a \in Bytes(t)}
           meant(a) == IF \E s \in Singles : a \in Bytes(s)
                       THEN {<<s.what, a - s.at>> : s \in into(a)}
                       ELSE {<<t.what, a - t.at>> : t \in below(a)}
<1>1. /\ DOMAIN regs = UNION {Bytes(w) : w \in ToSet(Tables) \cup Singles}
      /\ \A a \in DOMAIN regs :
           \/ \E s \in Singles : a \in Bytes(s) /\ regs[a] = ByteFor(s, a)
           \/ /\ \A s \in Singles : a \notin Bytes(s)
              /\ \E t \in ToSet(Tables) : a \in Bytes(t) /\ regs[a] = ByteFor(t, a)
  BY TablesAreWhole, OverridesAreNamed, WritesLand, Zenon
     DEF InitWrites, ConfigureWrites, Singles, Registered
<1>2. regs \in Contents(AllNames)
  <2>1. InitWrites \in Seq(Writes(AllNames))
    <3>1. ChunkWrites(Tables) \in Seq(Writes(AllNames))
      BY TablesAreWhole, TablesInChunks, Zenon
    <3>2. Overrides \in Seq(Writes(AllNames))
      BY OverridesAreNamed DEF Registered
    <3>3. QED
      BY <3>1, <3>2, JoinedSet, Zenon DEF InitWrites, ConfigureWrites
  <2>2. PICK f \in [0..Len(InitWrites) -> Contents(AllNames)] : f[Len(InitWrites)] = regs
    BY <2>1, WriteSteps, Zenon
  <2>3. Len(InitWrites) \in 0..Len(InitWrites)
    BY <2>1
  <2>4. QED
    BY <2>2, <2>3
<1> HIDE DEF regs
<1>3. DOMAIN regs = UNION {Bytes(t) : t \in ToSet(Tables)}
  BY <1>1, PlacesApart
<1>4. DOMAIN regs \subseteq Nat
  BY <1>2 DEF Contents
<1>5. \A w \in Singles \cup ToSet(Tables) : w.from = 0 /\ w.at \in Nat
  <2>1. \A w \in Wholes(AllNames) : w.from = 0 /\ w.at \in Nat
    BY DEF Wholes, Areas
  <2>2. Singles \subseteq Wholes(AllNames)
    BY OverridesAreNamed, NamedPlaces DEF Registered
  <2>3. ToSet(Tables) \subseteq Wholes(AllNames)
    BY TablesAreWhole DEF ToSet
  <2>4. QED
    BY <2>1, <2>2, <2>3
<1>6. ASSUME NEW w \in Singles \cup ToSet(Tables), NEW a \in Nat
      PROVE  ByteFor(w, a) = <<w.what, a - w.at>>
  <2>1. w.from + a - w.at = a - w.at
    BY <1>5
  <2>2. QED
    BY <2>1 DEF ByteFor
<1>7. ASSUME NEW a \in DOMAIN regs PROVE meant(a) = {regs[a]}
  <2>1. CASE \E s \in Singles : a \in Bytes(s)
    <3>1. PICK s \in Singles : a \in Bytes(s) /\ regs[a] = ByteFor(s, a)
      BY <1>1, <2>1
    <3>2. into(a) = {s}
      BY <3>1, PlacesApart
    <3>3. regs[a] = <<s.what, a - s.at>>
      BY <1>4, <1>6, <3>1
    <3>4. meant(a) = {<<s.what, a - s.at>>}
      <4> HIDE DEF into
      <4>1. QED
        BY <2>1, <3>2
    <3>5. QED
      BY <3>3, <3>4
  <2>2. CASE ~(\E s \in Singles : a \in Bytes(s))
    <3>1. PICK t \in ToSet(Tables) : a \in Bytes(t) /\ regs[a] = ByteFor(t, a)
      BY <1>1, <2>2
    <3>2. below(a) = {t}
      BY <3>1, PlacesApart
    <3>3. regs[a] = <<t.what, a - t.at>>
      BY <1>4, <1>6, <3>1
    <3>4. meant(a) = {<<t.what, a - t.at>>}
      <4> HIDE DEF below
      <4>1. QED
        BY <2>2, <3>2
    <3>5. QED
      BY <3>3, <3>4
  <2>3. QED
    BY <2>1, <2>2
<1>8. ASSUME NEW p \in ToSet(IcParams) PROVE I2cWrite(regs, p) = regs
  <2>1. p \in Singles /\ p \in Writes(AllNames)
    BY OverridesAreNamed, NamedPlaces DEF Named, Registered
  <2> DEFINE next == I2cWrite(regs, p)
  <2>2. next \in Contents(AllNames) /\ Wrote(regs, p, next)
    BY <1>2, <2>1, WriteReaches, Zenon
  <2> HIDE DEF next
  <2>3. Bytes(p) \subseteq DOMAIN regs
    BY <1>1, <2>1
  <2>4. ASSUME NEW a \in Bytes(p) PROVE regs[a] = ByteFor(p, a)
    <3>1. PICK s \in Singles : a \in Bytes(s) /\ regs[a] = ByteFor(s, a)
      BY <1>1, <2>1, <2>3
    <3>2. s = p
      BY <2>1, <3>1, PlacesApart
    <3>3. QED
      BY <3>1, <3>2
  <2>5. DOMAIN next = DOMAIN regs /\ \A a \in DOMAIN regs : next[a] = regs[a]
    BY <2>2, <2>3, <2>4 DEF Wrote
  <2>6. next = [a \in DOMAIN next |-> next[a]] /\ regs = [a \in DOMAIN regs |-> regs[a]]
    BY <1>2, <2>2 DEF Contents
  <2>7. QED
    BY <2>5, <2>6 DEF next
<1>9. QED
  BY <1>3, <1>7, <1>8 DEF EveryByteLands, regs

\* Whatever is tuned at run time, the configuration lands byte by byte: each
\* table, cut into chunks, and each single register written over it.
THEOREM ConfigurationAlwaysLands == Spec => []ConfigurationLands
<1>1. ConfigurationLands
  BY LandsByteByByte DEF ConfigurationLands
<1>2. QED
  BY <1>1, PTL
=============================================================================
