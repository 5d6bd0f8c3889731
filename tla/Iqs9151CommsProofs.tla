-------------------------- MODULE Iqs9151CommsProofs --------------------------
(***************************************************************************)
(* Proofs about Iqs9151Comms: for any finger counts, patience of the       *)
(* initialisation and number of faults, no work runs before the driver is  *)
(* set up, the interrupt comes on for a configured device only, a window   *)
(* is served unless it is known to have been given up, and whenever no     *)
(* frame is under way the driver and the view agree on the fingers.        *)
(***************************************************************************)
EXTENDS Iqs9151Comms, TLAPS

\* How far the device is configured at each stage of the initialisation, unless
\* it has reset itself since it was last acknowledged.
StageOK(p, d) ==
  ~d.reset =>
    /\ p \in {"overrides", "ati", "waitati", "callback", "event", "endcomms", "irq",
              "running"} => d.setup
    /\ p \in {"endcomms", "irq", "running"} => d.event /\ d.held = hold

\* The interrupt is the last thing to come; no work is queued without it.
IrqOK ==
  /\ irq <=> pc = "running"
  /\ work \/ wpc # "idle" \/ view # 0 => irq
  /\ pc \in {"event", "endcomms", "irq", "running"} => ready

\* Who will close an open window.
WindowOK ==
  /\ dev.held => hold
  /\ open /\ ~irq => left # "no"
  /\ open /\ irq /\ left = "no" => work \/ wpc = "read" \/ (wpc = "close" /\ hold)
  /\ left # "no" => open
  /\ left = "endfail" => hold
  /\ left = "readfail" /\ hold => wpc = "close"

\* Who knows of the last data: nobody while the interrupt is off, then the work
\* that is going to read them, the work that has read them, the gesture code.
FrameOK ==
  /\ ~irq => lost \/ frame.reset
  /\ wpc = "process" => got.ok
  /\ wpc \in {"close", "process"} /\ got.ok => work \/ frame.reset \/ got.f = frame
  /\ ~lost /\ ~frame.reset /\ ~work =>
       \/ wpc = "read"
       \/ wpc \in {"close", "process"} /\ got.ok
       \/ wpc = "idle" /\ view = frame.n

IInv == CommsTypeOK /\ StageOK(pc, dev) /\ IrqOK /\ WindowOK

-----------------------------------------------------------------------------
(* The registers.                                                          *)

LEMMA Counting == 0 \in Counts /\ Counts \subseteq Nat /\ PollMax \in 0..PollMax
  BY CommsAssumption DEF CommsAssumption

LEMMA AfterResetOK ==
  /\ AfterReset \in Registers /\ AfterReset.reset /\ ~AfterReset.held
  /\ \A p : StageOK(p, AfterReset)
  BY DEF AfterReset, Registers, StageOK

LEMMA RegisterFields ==
  ASSUME NEW d \in Registers
  PROVE  /\ d.setup \in BOOLEAN /\ d.ati \in BOOLEAN /\ d.event \in BOOLEAN
         /\ d.held \in BOOLEAN /\ d.reset \in BOOLEAN
  BY DEF Registers

LEMMA WriteSetup ==
  ASSUME NEW d \in Registers, NEW x \in BOOLEAN
  PROVE  LET e == [d EXCEPT !.setup = x]
         IN  /\ e \in Registers /\ e.setup = x /\ e.ati = d.ati /\ e.event = d.event
             /\ e.held = d.held /\ e.reset = d.reset
  BY DEF Registers

LEMMA WriteAti ==
  ASSUME NEW d \in Registers, NEW x \in BOOLEAN
  PROVE  LET e == [d EXCEPT !.ati = x]
         IN  /\ e \in Registers /\ e.setup = d.setup /\ e.ati = x /\ e.event = d.event
             /\ e.held = d.held /\ e.reset = d.reset
  BY DEF Registers

LEMMA WriteReset ==
  ASSUME NEW d \in Registers, NEW x \in BOOLEAN
  PROVE  LET e == [d EXCEPT !.reset = x]
         IN  /\ e \in Registers /\ e.setup = d.setup /\ e.ati = d.ati
             /\ e.event = d.event /\ e.held = d.held /\ e.reset = x
  BY DEF Registers

LEMMA WriteMode ==
  ASSUME NEW d \in Registers, NEW x \in BOOLEAN, NEW y \in BOOLEAN
  PROVE  LET e == [d EXCEPT !.event = x, !.held = y]
         IN  /\ e \in Registers /\ e.setup = d.setup /\ e.ati = d.ati /\ e.event = x
             /\ e.held = y /\ e.reset = d.reset
  BY DEF Registers

LEMMA NowIsFrame == CommsTypeOK => Now \in Frames
  BY DEF CommsTypeOK, Now, Frames, Registers

LEMMA FaultCounts ==
  ASSUME CommsTypeOK, Fault \/ NoFault
  PROVE  faults' \in 0..FaultMax /\ hold' = hold
  BY CommsAssumption DEF CommsAssumption, CommsTypeOK, Fault, NoFault

-----------------------------------------------------------------------------
(* The initialisation.                                                     *)

\* A transfer that leads from one stage to the next, short of the last two.
LEMMA TransferStep ==
  ASSUME IInv, NEW at, NEW to \in InitStages \ {"running"}, NEW d \in Registers,
         Done(at, to, d), at # "running", StageOK(to, d), d.held => hold,
         to \in {"event", "endcomms", "irq"} => ready
  PROVE  IInv'
<1>1. /\ pc = at /\ pc' = to /\ dev' = d /\ hold' = hold /\ faults' = faults
      /\ UNCHANGED <<polls, ready, irq, work, wpc, got, view, fingers, frame, lost>>
  BY DEF Done, NoFault, Queue
<1>2. (open' = FALSE /\ left' = "no") \/ UNCHANGED <<open, left>>
  BY DEF Done, AtStop, Close
<1>3. CommsTypeOK'
  BY <1>1, <1>2 DEF IInv, CommsTypeOK
<1>4. StageOK(pc, dev)'
  BY <1>1 DEF StageOK
<1>5. IrqOK'
  BY <1>1 DEF IInv, IrqOK
<1>6. WindowOK'
  BY <1>1, <1>2 DEF IInv, WindowOK
<1>7. QED
  BY <1>3, <1>4, <1>5, <1>6 DEF IInv

LEMMA TransfersStep ==
  ASSUME IInv,
         \/ CheckProduct \/ WaitForShowReset \/ AckReset \/ Configure
         \/ ApplyOverrides \/ WaitForAti \/ SetEventMode
  PROVE  IInv'
<1> USE DEF InitStages
<1>0. /\ dev \in Registers /\ hold \in BOOLEAN /\ StageOK(pc, dev)
      /\ dev.held => hold
  BY CommsAssumption DEF IInv, CommsTypeOK, WindowOK, CommsAssumption
<1>1. CASE CheckProduct
  <2>1. StageOK("swreset", dev)
    BY DEF StageOK
  <2>2. QED
    BY <1>0, <1>1, <2>1, TransferStep DEF CheckProduct
<1>2. CASE WaitForShowReset
  <2>1. StageOK("ack", dev)
    BY DEF StageOK
  <2>2. QED
    BY <1>0, <1>2, <2>1, TransferStep DEF WaitForShowReset
<1>3. CASE AckReset
  <2> DEFINE d == [dev EXCEPT !.reset = FALSE]
  <2>1. d \in Registers /\ d.held = dev.held
    BY <1>0, WriteReset
  <2>2. StageOK("configure", d)
    BY DEF StageOK
  <2>3. Done("ack", "configure", d)
    BY <1>3 DEF AckReset
  <2> HIDE DEF d
  <2>4. QED
    BY <1>0, <2>1, <2>2, <2>3, TransferStep
<1>4. CASE Configure
  <2> DEFINE d == [dev EXCEPT !.setup = TRUE]
  <2>1. d \in Registers /\ d.held = dev.held /\ d.setup
    BY <1>0, WriteSetup
  <2>2. Done("configure", "overrides", d)
    BY <1>4 DEF Configure
  <2> HIDE DEF d
  <2>3. StageOK("overrides", d)
    BY <2>1 DEF StageOK
  <2>4. QED
    BY <1>0, <2>1, <2>2, <2>3, TransferStep
<1>5. CASE ApplyOverrides
  <2>1. pc = "overrides"
    BY <1>5 DEF ApplyOverrides, Done
  <2>2. StageOK("ati", dev)
    BY <1>0, <2>1 DEF StageOK
  <2>3. QED
    BY <1>0, <1>5, <2>2, TransferStep DEF ApplyOverrides
<1>6. CASE WaitForAti
  <2>1. pc = "waitati"
    BY <1>6 DEF WaitForAti, Done
  <2>2. StageOK("callback", dev)
    BY <1>0, <2>1, RegisterFields DEF StageOK
  <2>3. QED
    BY <1>0, <1>6, <2>2, TransferStep DEF WaitForAti
<1>7. CASE SetEventMode
  <2> DEFINE d == [dev EXCEPT !.event = TRUE, !.held = hold]
  <2>1. pc = "event" /\ ready
    BY <1>7 DEF SetEventMode, Done, IInv, IrqOK
  <2>2. /\ d \in Registers /\ d.held = hold /\ d.event
        /\ d.setup = dev.setup /\ d.ati = dev.ati /\ d.reset = dev.reset
    BY <1>0, WriteMode
  <2>3. Done("event", "endcomms", d)
    BY <1>7 DEF SetEventMode
  <2> HIDE DEF d
  <2>4. StageOK("endcomms", d)
    BY <1>0, <2>1, <2>2 DEF StageOK
  <2>5. QED
    BY <1>0, <2>1, <2>2, <2>3, <2>4, TransferStep
<1>8. QED
  BY <1>1, <1>2, <1>3, <1>4, <1>5, <1>6, <1>7

LEMMA OtherInitStep ==
  ASSUME IInv,
         \/ SwReset \/ RunAti \/ PollAgain \/ InitWorks \/ EndFirstComms
         \/ EnableInterrupt \/ InitFails
  PROVE  IInv'
<1> USE DEF InitStages
<1>0. /\ dev \in Registers /\ hold \in BOOLEAN /\ StageOK(pc, dev)
      /\ dev.held => hold
  BY CommsAssumption DEF IInv, CommsTypeOK, WindowOK, CommsAssumption
<1>1. CASE SwReset
  <2>1. CommsTypeOK'
    BY <1>1, AfterResetOK, Counting
    DEF SwReset, Close, NoFault, Queue, IInv, CommsTypeOK
  <2>2. StageOK(pc, dev)'
    BY <1>1, AfterResetOK DEF SwReset, StageOK
  <2>3. IrqOK' /\ WindowOK'
    BY <1>1, AfterResetOK DEF SwReset, Close, NoFault, Queue, IInv, IrqOK, WindowOK
  <2>4. QED
    BY <2>1, <2>2, <2>3 DEF IInv
<1>2. CASE RunAti
  <2>1. /\ pc = "ati" /\ pc' = "waitati" /\ polls' = PollMax
        /\ hold' = hold /\ faults' = faults
        /\ UNCHANGED <<ready, irq, work, wpc, got, view, dev, fingers, frame, lost>>
    BY <1>2 DEF RunAti, NoFault, Queue
  <2>2. (open' = FALSE /\ left' = "no") \/ UNCHANGED <<open, left>>
    BY <1>2 DEF RunAti, AtStop, Close
  <2>3. CommsTypeOK'
    BY <2>1, <2>2, Counting DEF IInv, CommsTypeOK
  <2>4. StageOK(pc, dev)'
    BY <1>0, <2>1 DEF StageOK
  <2>5. IrqOK' /\ WindowOK'
    BY <2>1, <2>2 DEF IInv, IrqOK, WindowOK
  <2>6. QED
    BY <2>3, <2>4, <2>5 DEF IInv
<1>3. CASE PollAgain
  <2>1. /\ pc \in {"waitreset", "waitati"}
        /\ (polls > 0 /\ polls' = polls - 1 /\ pc' = pc) \/ (pc' = "failed" /\ polls' = polls)
        /\ dev' = dev /\ hold' = hold /\ faults' = faults
        /\ UNCHANGED <<ready, irq, work, wpc, got, view, fingers, frame, lost>>
    BY <1>3 DEF PollAgain, NoFault, Queue
  <2>2. (open' = FALSE /\ left' = "no") \/ UNCHANGED <<open, left>>
    BY <1>3 DEF PollAgain, AtStop, Close
  <2>3. polls' \in 0..PollMax /\ pc' \in InitStages
    <3>1. polls \in 0..PollMax /\ PollMax \in Nat
      BY CommsAssumption DEF IInv, CommsTypeOK, CommsAssumption
    <3>2. polls' \in 0..PollMax
      BY <2>1, <3>1
    <3>3. pc' \in InitStages
      BY <2>1
    <3>4. QED
      BY <3>2, <3>3
  <2>4. CommsTypeOK'
    BY <2>1, <2>2, <2>3 DEF IInv, CommsTypeOK
  <2>5. StageOK(pc, dev)'
    BY <1>0, <2>1 DEF StageOK
  <2>6. IrqOK' /\ WindowOK'
    BY <2>1, <2>2 DEF IInv, IrqOK, WindowOK
  <2>7. QED
    BY <2>4, <2>5, <2>6 DEF IInv
<1>4. CASE InitWorks
  <2>1. CommsTypeOK'
    BY <1>4, Counting DEF InitWorks, NoFault, Device, IInv, CommsTypeOK
  <2>2. StageOK(pc, dev)'
    BY <1>0, <1>4 DEF InitWorks, NoFault, Device, StageOK
  <2>3. IrqOK' /\ WindowOK'
    BY <1>4 DEF InitWorks, NoFault, Device, IInv, IrqOK, WindowOK
  <2>4. QED
    BY <2>1, <2>2, <2>3 DEF IInv
<1>5. CASE EndFirstComms
  <2>1. CommsTypeOK'
    BY <1>5 DEF EndFirstComms, Close, NoFault, Queue, IInv, CommsTypeOK
  <2>2. StageOK(pc, dev)'
    BY <1>0, <1>5 DEF EndFirstComms, NoFault, StageOK
  <2>3. IrqOK' /\ WindowOK'
    BY <1>5 DEF EndFirstComms, Close, NoFault, Queue, IInv, IrqOK, WindowOK
  <2>4. QED
    BY <2>1, <2>2, <2>3 DEF IInv
<1>6. CASE EnableInterrupt
  <2>1. CommsTypeOK'
    BY <1>6 DEF EnableInterrupt, NoFault, Queue, Device, IInv, CommsTypeOK
  <2>2. StageOK(pc, dev)'
    BY <1>0, <1>6 DEF EnableInterrupt, NoFault, Device, StageOK
  <2>3. IrqOK' /\ WindowOK'
    BY <1>6 DEF EnableInterrupt, NoFault, Queue, Device, IInv, IrqOK, WindowOK
  <2>4. QED
    BY <2>1, <2>2, <2>3 DEF IInv
<1>7. CASE InitFails
  <2>1. CommsTypeOK'
    <3>1. CommsTypeOK /\ faults' \in 0..FaultMax /\ hold' = hold
      BY <1>7, FaultCounts DEF InitFails, IInv
    <3>2. QED
      BY <1>7, <3>1 DEF InitFails, Queue, Device, CommsTypeOK
  <2>2. StageOK(pc, dev)'
    BY <1>7 DEF InitFails, Device, StageOK
  <2>3. IrqOK' /\ WindowOK'
    BY <1>7 DEF InitFails, Fault, Queue, Device, IInv, IrqOK, WindowOK
  <2>4. QED
    BY <2>1, <2>2, <2>3 DEF IInv
<1>8. QED
  BY <1>1, <1>2, <1>3, <1>4, <1>5, <1>6, <1>7

-----------------------------------------------------------------------------
(* The work and the device.                                                *)

LEMMA WorkKeeps ==
  ASSUME IInv, BeginWork \/ ReadFrame \/ ReadFails \/ EndComms \/ EndCommsFails \/ Process
  PROVE  IInv'
<1>0. /\ dev \in Registers /\ hold \in BOOLEAN /\ got \in [ok : BOOLEAN, f : Frames]
      /\ frame \in Frames /\ Now \in Frames
  BY CommsAssumption, NowIsFrame DEF IInv, CommsTypeOK, CommsAssumption
<1>1. /\ hold' = hold /\ faults' \in 0..FaultMax
      /\ UNCHANGED <<pc, polls, ready, irq, dev, fingers>>
  BY FaultCounts DEF IInv, BeginWork, ReadFrame, ReadFails, EndComms, EndCommsFails,
     Process, Driver, Device
<1>2. got' \in [ok : BOOLEAN, f : Frames] /\ frame' \in Frames
  <2>1. CASE ReadFrame
    BY <1>0, <2>1 DEF ReadFrame
  <2>2. CASE ReadFails
    BY <1>0, <2>2 DEF ReadFails
  <2>3. CASE BeginWork \/ EndComms \/ EndCommsFails \/ Process
    BY <1>0, <2>3 DEF BeginWork, EndComms, EndCommsFails, Process, Device
  <2>4. QED
    BY <2>1, <2>2, <2>3
<1>3. view' \in Counts
  BY <1>0, Counting DEF BeginWork, ReadFrame, ReadFails, EndComms, EndCommsFails,
     Process, Frames, IInv, CommsTypeOK
<1>4. /\ work' \in BOOLEAN /\ wpc' \in {"idle", "read", "close", "process"}
      /\ lost' \in BOOLEAN
  BY DEF BeginWork, ReadFrame, ReadFails, EndComms, EndCommsFails, Process, IInv,
     CommsTypeOK
<1>5. open' \in BOOLEAN /\ left' \in {"no", "missed", "readfail", "endfail"}
  BY DEF BeginWork, ReadFrame, ReadFails, EndComms, EndCommsFails, Process, IInv,
     CommsTypeOK, AtStop, Close, Device
<1>6. CommsTypeOK'
  BY <1>1, <1>2, <1>3, <1>4, <1>5 DEF IInv, CommsTypeOK
<1>7. StageOK(pc, dev)'
  BY <1>1 DEF IInv, StageOK
<1>8. irq
  BY DEF IInv, IrqOK, BeginWork, ReadFrame, ReadFails, EndComms, EndCommsFails, Process
<1>9. IrqOK'
  BY <1>1, <1>8 DEF IInv, IrqOK
<1>10. WindowOK'
  <2>1. /\ WindowOK /\ (dev.held => hold)
        /\ left \in {"no", "missed", "readfail", "endfail"}
        /\ irq' = irq /\ hold' = hold /\ dev' = dev
    BY <1>1, <1>8 DEF IInv, CommsTypeOK, WindowOK
  <2>2. CASE BeginWork \/ Process
    BY <2>1, <2>2 DEF WindowOK, BeginWork, Process, Device
  <2>3. CASE ReadFrame
    BY <2>1, <2>3 DEF WindowOK, ReadFrame, AtStop, Close
  <2>4. CASE ReadFails
    BY <2>1, <2>4 DEF WindowOK, ReadFails
  <2>5. CASE EndComms
    BY <2>1, <2>5 DEF WindowOK, EndComms, Close
  <2>6. CASE EndCommsFails
    BY <2>1, <2>6 DEF WindowOK, EndCommsFails
  <2>7. QED
    BY <2>2, <2>3, <2>4, <2>5, <2>6
<1>11. QED
  BY <1>6, <1>7, <1>9, <1>10 DEF IInv

LEMMA DeviceKeeps ==
  ASSUME IInv,
         \/ \E n \in Counts : Touch(n)
         \/ Calibrates \/ OpenWindow \/ WindowTimeout \/ DeviceResets
  PROVE  IInv'
<1>0. dev \in Registers /\ hold \in BOOLEAN /\ Now \in Frames
  BY CommsAssumption, NowIsFrame DEF IInv, CommsTypeOK, CommsAssumption
<1>1. CASE \E n \in Counts : Touch(n)
  BY <1>1 DEF Touch, NoFault, Driver, Queue, IInv, CommsTypeOK, StageOK, IrqOK, WindowOK
<1>2. CASE Calibrates
  <2> DEFINE x == ~dev.ati
             d == [dev EXCEPT !.ati = x]
  <2>0. x \in BOOLEAN
    BY <1>0, RegisterFields
  <2>2. dev' = d /\ UNCHANGED <<hold, faults, Driver, Queue, open, fingers, frame, left, lost>>
    BY <1>2 DEF Calibrates, NoFault
  <2> HIDE DEF x
  <2>1. /\ d \in Registers /\ d.held = dev.held /\ d.setup = dev.setup
        /\ d.event = dev.event /\ d.reset = dev.reset
    BY <1>0, <2>0, WriteAti
  <2> HIDE DEF d
  <2>3. CommsTypeOK'
    BY <2>1, <2>2 DEF IInv, CommsTypeOK, Driver, Queue
  <2>4. StageOK(pc, dev)'
    BY <2>1, <2>2 DEF IInv, StageOK, Driver
  <2>5. IrqOK' /\ WindowOK'
    BY <2>1, <2>2 DEF IInv, IrqOK, WindowOK, Driver, Queue
  <2>6. QED
    BY <2>3, <2>4, <2>5 DEF IInv
<1>3. CASE OpenWindow
  <2>1. /\ open' = TRUE /\ frame' = Now /\ UNCHANGED <<hold, faults, dev, fingers, wpc, got, view>>
        /\ UNCHANGED <<pc, polls, ready, irq>>
        /\ irq => work' = TRUE /\ left' = "no"
        /\ ~irq => work' = work /\ left' = "missed"
        /\ lost' \in BOOLEAN /\ work' \in BOOLEAN
    BY <1>3 DEF OpenWindow, NoFault, Driver, IInv, CommsTypeOK
  <2>2. CommsTypeOK'
    BY <1>0, <2>1 DEF IInv, CommsTypeOK
  <2>3. StageOK(pc, dev)' /\ IrqOK' /\ WindowOK'
    BY <2>1 DEF IInv, StageOK, IrqOK, WindowOK
  <2>4. QED
    BY <2>2, <2>3 DEF IInv
<1>4. CASE WindowTimeout
  <2>1. /\ open' = FALSE /\ left' = "no" /\ lost' \in BOOLEAN
        /\ UNCHANGED <<pc, polls, ready, irq, work, wpc, got, view, dev, fingers, frame>>
    BY <1>4 DEF WindowTimeout, Close, Driver, Queue, IInv, CommsTypeOK
  <2>2. faults' \in 0..FaultMax /\ hold' = hold
    BY <1>4, FaultCounts DEF WindowTimeout, IInv
  <2>3. CommsTypeOK'
    BY <2>1, <2>2 DEF IInv, CommsTypeOK
  <2>4. StageOK(pc, dev)' /\ IrqOK' /\ WindowOK'
    BY <2>1, <2>2 DEF IInv, StageOK, IrqOK, WindowOK
  <2>5. QED
    BY <2>3, <2>4 DEF IInv
<1>5. CASE DeviceResets
  <2>1. /\ open' = FALSE /\ left' = "no" /\ dev' = AfterReset
        /\ frame' = [n |-> 0, reset |-> TRUE]
        /\ UNCHANGED <<pc, polls, ready, irq, work, wpc, got, view, fingers, lost>>
    BY <1>5 DEF DeviceResets, Close, Driver, Queue
  <2>2. faults' \in 0..FaultMax /\ hold' = hold /\ frame' \in Frames
    BY <1>5, <2>1, FaultCounts, Counting DEF DeviceResets, IInv, Frames
  <2>3. CommsTypeOK'
    BY <2>1, <2>2, AfterResetOK DEF IInv, CommsTypeOK
  <2>4. StageOK(pc, dev)' /\ IrqOK' /\ WindowOK'
    BY <2>1, <2>2, AfterResetOK DEF IInv, StageOK, IrqOK, WindowOK
  <2>5. QED
    BY <2>3, <2>4 DEF IInv
<1>6. QED
  BY <1>1, <1>2, <1>3, <1>4, <1>5

-----------------------------------------------------------------------------
LEMMA InitHolds == Init => IInv
<1> SUFFICES ASSUME Init PROVE IInv
  OBVIOUS
<1>1. CommsTypeOK
  <2>1. 0 \in 0..PollMax /\ 0 \in 0..FaultMax
    BY CommsAssumption DEF CommsAssumption
  <2>2. [n |-> 0, reset |-> TRUE] \in Frames
    BY Counting DEF Frames
  <2>3. got \in [ok : BOOLEAN, f : Frames] /\ frame \in Frames
    BY <2>2 DEF Init
  <2>4. QED
    BY <2>1, <2>3, AfterResetOK, Counting DEF Init, CommsTypeOK, InitStages
<1>2. StageOK(pc, dev) /\ IrqOK /\ WindowOK
  BY AfterResetOK DEF Init, StageOK, IrqOK, WindowOK
<1>3. QED
  BY <1>1, <1>2 DEF IInv

LEMMA NextKeeps == IInv /\ [Next]_vars => IInv'
<1> SUFFICES ASSUME IInv, [Next]_vars PROVE IInv'
  OBVIOUS
<1>1. CASE UNCHANGED vars
  BY <1>1 DEF vars, IInv, CommsTypeOK, StageOK, IrqOK, WindowOK
<1>2. QED
  BY <1>1, TransfersStep, OtherInitStep, WorkKeeps, DeviceKeeps DEF Next

\* The invariant that carries the properties below: how far the device is
\* configured at each stage of iqs9151_init, that the interrupt is its last step,
\* and who is going to close an open window.
THEOREM CommsInvariant == Spec => []IInv
<1>1. QED
  BY InitHolds, NextKeeps, PTL DEF Spec

-----------------------------------------------------------------------------
\* Every variable keeps the values its counterpart can hold.
THEOREM CommsTypeCorrect == Spec => []CommsTypeOK
<1>1. IInv => CommsTypeOK
  BY DEF IInv
<1>2. QED
  BY <1>1, CommsInvariant, PTL

\* No work is queued or runs before its initialisation, nor ever after the
\* initialisation of the device has failed; and the interrupt is on only for a
\* device that is configured and in the mode the driver counts on, unless the
\* device has reset itself since.
THEOREM AlwaysRunsWhenReady == Spec => []RunsWhenReady
<1>1. IInv => NoWorkBeforeReady
  BY DEF IInv, IrqOK, NoWorkBeforeReady
<1>2. IInv => RunsConfigured
  BY DEF IInv, IrqOK, StageOK, RunsConfigured
<1>3. IInv => RunsWhenReady
  BY <1>1, <1>2 DEF RunsWhenReady
<1>4. QED
  BY <1>3, CommsInvariant, PTL

\* No window is left open by the driver but one whose edge came too early, whose
\* frame failed to be read where the driver does not close it, or whose end
\* command failed.
THEOREM WindowsAreServed == Spec => []WindowIsServed
<1>1. IInv => WindowIsServed
  BY DEF IInv, CommsTypeOK, WindowOK, WindowIsServed
<1>2. QED
  BY <1>1, CommsInvariant, PTL

-----------------------------------------------------------------------------
(* The data of the last window.                                            *)

\* A step that touches neither the frame nor those who handle it.
LEMMA FrameUntouched ==
  ASSUME FrameOK, UNCHANGED <<irq, work, wpc, got, view, frame, lost>> PROVE FrameOK'
  BY DEF FrameOK

LEMMA FrameInit ==
  ASSUME IInv, FrameOK, InitStep \/ InitFails PROVE FrameOK'
<1>1. CASE \/ CheckProduct \/ SwReset \/ WaitForShowReset \/ AckReset \/ Configure
           \/ ApplyOverrides \/ RunAti \/ WaitForAti \/ PollAgain \/ SetEventMode
           \/ EndFirstComms \/ InitFails
  BY <1>1, FrameUntouched
     DEF CheckProduct, SwReset, WaitForShowReset, AckReset, Configure, ApplyOverrides,
         RunAti, WaitForAti, PollAgain, SetEventMode, EndFirstComms, InitFails, Done,
         Queue, Device
<1>2. CASE InitWorks \/ EnableInterrupt
  <2>1. ~irq /\ ~work /\ wpc = "idle" /\ view = 0
    BY <1>2 DEF InitWorks, EnableInterrupt, IInv, IrqOK
  <2>2. UNCHANGED <<work, wpc, got, frame, lost>>
    BY <1>2 DEF InitWorks, EnableInterrupt, Queue, Device
  <2>3. QED
    BY <2>1, <2>2 DEF FrameOK
<1>3. QED
  BY <1>1, <1>2 DEF InitStep

LEMMA FrameWork ==
  ASSUME IInv, FrameOK,
         BeginWork \/ ReadFrame \/ ReadFails \/ EndComms \/ EndCommsFails \/ Process
  PROVE  FrameOK'
<1>0. got \in [ok : BOOLEAN, f : Frames] /\ irq
  BY DEF IInv, CommsTypeOK, IrqOK, BeginWork, ReadFrame, ReadFails, EndComms,
     EndCommsFails, Process
<1>1. CASE BeginWork
  BY <1>0, <1>1 DEF BeginWork, Driver, Device, FrameOK
<1>2. CASE ReadFrame
  BY <1>0, <1>2 DEF ReadFrame, Driver, FrameOK
<1>3. CASE ReadFails
  BY <1>0, <1>3 DEF ReadFails, Driver, FrameOK
<1>4. CASE EndComms \/ EndCommsFails
  BY <1>0, <1>4 DEF EndComms, EndCommsFails, Driver, FrameOK
<1>5. CASE Process
  BY <1>0, <1>5 DEF Process, Driver, Device, FrameOK
<1>6. QED
  BY <1>1, <1>2, <1>3, <1>4, <1>5

LEMMA FrameDevice ==
  ASSUME IInv, FrameOK,
         \/ \E n \in Counts : Touch(n)
         \/ Calibrates \/ OpenWindow \/ WindowTimeout \/ DeviceResets
  PROVE  FrameOK'
<1>1. CASE (\E n \in Counts : Touch(n)) \/ Calibrates
  BY <1>1, FrameUntouched DEF Touch, Calibrates, Driver, Queue
<1>2. CASE OpenWindow
  BY <1>2 DEF OpenWindow, Driver, FrameOK, IInv, IrqOK
<1>3. CASE WindowTimeout
  BY <1>3 DEF WindowTimeout, Driver, Queue, FrameOK
<1>4. CASE DeviceResets
  BY <1>4 DEF DeviceResets, Driver, Queue, FrameOK
<1>5. QED
  BY <1>1, <1>2, <1>3, <1>4

\* When nothing is left to handle, no frame was lost and the device has no news,
\* the driver and the trackpad agree on the fingers.
THEOREM QuietAlwaysAgrees == Spec => []QuietMeansAgreed
<1>1. Init => FrameOK
  BY DEF Init, FrameOK
<1>2. IInv /\ FrameOK /\ [Next]_vars => FrameOK'
  <2> SUFFICES ASSUME IInv, FrameOK, [Next]_vars PROVE FrameOK'
    OBVIOUS
  <2>1. CASE UNCHANGED vars
    BY <2>1, FrameUntouched DEF vars
  <2>2. QED
    BY <2>1, FrameInit, FrameWork, FrameDevice DEF Next, InitStep
<1>3. FrameOK => QuietMeansAgreed
  <2>1. Now.reset = dev.reset /\ Now.n = fingers
    BY DEF Now
  <2>2. QED
    BY <2>1 DEF FrameOK, QuietMeansAgreed
<1>4. QED
  BY <1>1, <1>2, <1>3, CommsInvariant, PTL DEF Spec
=============================================================================
