---------------------------- MODULE Iqs9151Comms ----------------------------
(***************************************************************************)
(* How the driver talks to the trackpad (drivers/input/iqs9151.c):         *)
(* iqs9151_init, which resets and configures the device, has it calibrate  *)
(* and turns its interrupt on; after that the RDY interrupt, the work that *)
(* reads a frame, closes the communication window and processes the frame. *)
(*                                                                         *)
(* Three parties run concurrently: the thread that initialises, the work   *)
(* queue with its interrupt, and the device.  The device is external: it   *)
(* is modelled from how the driver uses it.  It opens a window (RDY        *)
(* active) when it has something to report, and holds its data still until *)
(* the window closes: at the STOP of a transfer, or only at the end        *)
(* command 0xEEEE once TERMINATE_COMMS is set, or after the I2C timeout    *)
(* the driver configures.  A transfer outside a window is stretched by the *)
(* device until it is ready.                                               *)
(*                                                                         *)
(* A frame is its number of fingers and the SHOW_RESET bit; what the       *)
(* gesture code makes of it is module Iqs9151Gesture, the registers        *)
(* written between frames are module Iqs9151IcParams.                      *)
(***************************************************************************)
EXTENDS Naturals

CONSTANTS
  Counts,     \* finger counts
  Builds,     \* values of CONFIG_INPUT_IQS9151_HOLD_COMMS_WINDOW
  PollMax,    \* polls before wait_for_show_reset and wait_for_ati give up
  FaultMax    \* failed transfers, resets of the device and late works

ASSUME CommsAssumption ==
  /\ Counts \subseteq Nat /\ 0 \in Counts
  /\ Builds \subseteq BOOLEAN /\ PollMax \in Nat \ {0} /\ FaultMax \in Nat

VARIABLES
  hold,    \* CONFIG_INPUT_IQS9151_HOLD_COMMS_WINDOW of this build
  pc,      \* where iqs9151_init is
  polls,   \* polls left of the wait it is in
  ready,   \* the works are initialised and the GPIO callback is installed
  irq,     \* the RDY interrupt is enabled
  work,    \* data->work is queued
  wpc,     \* where iqs9151_work_cb is
  got,     \* the frame it has read
  view,    \* the finger count the gesture code goes by (prev_frame)
  dev,     \* the device: its configuration
  open,    \* RDY: a communication window is open
  fingers, \* the fingers on the trackpad
  frame,   \* the data of the last window
  left,    \* why an open window has nobody to serve it, "no" if it has
  lost,    \* a frame never reached the gesture code, and none has since
  faults   \* faults so far

vars == <<hold, pc, polls, ready, irq, work, wpc, got, view, dev, open, fingers,
          frame, left, lost, faults>>

Driver == <<pc, polls, ready, irq>>
Queue  == <<work, wpc, got, view>>
Device == <<dev, open, fingers, frame, left>>

Frames == [n : Counts, reset : BOOLEAN]

\* The registers of the device, as far as the driver depends on them: set up
\* (main_config and overrides), a Re-ATI bit set while it calibrates, event mode,
\* window held until 0xEEEE, and the SHOW_RESET flag, which only ACK_RESET clears.
Registers ==
  [setup : BOOLEAN, ati : BOOLEAN, event : BOOLEAN, held : BOOLEAN, reset : BOOLEAN]

AfterReset == [setup |-> FALSE, ati |-> FALSE, event |-> FALSE, held |-> FALSE,
               reset |-> TRUE]

InitStages == {"product", "swreset", "waitreset", "ack", "configure", "overrides",
               "ati", "waitati", "callback", "event", "endcomms", "irq", "running",
               "failed"}

\* A build keeps its configuration.
Fault   == faults < FaultMax /\ faults' = faults + 1 /\ UNCHANGED hold
NoFault == UNCHANGED <<faults, hold>>

\* A window closes: its data are delivered, whether or not they were read.
Close == open' = FALSE /\ left' = "no"

\* The STOP of a transfer closes a window that is not held.
AtStop == IF dev.held THEN UNCHANGED <<open, left>> ELSE Close

-----------------------------------------------------------------------------
(* iqs9151_init.  wait_for_ready, which precedes the transfers, only waits: *)
(* it gives up with a warning and the transfer is tried all the same.      *)

\* A transfer of stage "at" succeeds: the device is now d, the next stage is to.
Done(at, to, d) ==
  /\ pc = at /\ pc' = to
  /\ dev' = d /\ AtStop
  /\ NoFault
  /\ UNCHANGED <<polls, ready, irq, Queue, fingers, frame, lost>>

CheckProduct == Done("product", "swreset", dev)

\* The write of SW_RESET takes effect at its STOP.
SwReset ==
  /\ pc = "swreset" /\ pc' = "waitreset" /\ polls' = PollMax
  /\ dev' = AfterReset /\ Close
  /\ NoFault
  /\ UNCHANGED <<ready, irq, Queue, fingers, frame, lost>>

WaitForShowReset == dev.reset /\ Done("waitreset", "ack", dev)

AckReset == Done("ack", "configure", [dev EXCEPT !.reset = FALSE])

Configure == Done("configure", "overrides", [dev EXCEPT !.setup = TRUE])

ApplyOverrides == Done("overrides", "ati", dev)

\* Mutant: the interrupt is on before the works are set up.
RunAtiWithIrq ==
  /\ pc = "ati" /\ pc' = "waitati" /\ polls' = PollMax
  /\ irq' = TRUE
  /\ AtStop
  /\ NoFault
  /\ UNCHANGED <<ready, Queue, dev, fingers, frame, lost>>

\* The request is written high byte first: its bits land where they queue no
\* calibration (AtiWord of module Iqs9151IcParams).  The wait that follows is for
\* a calibration the device may have begun by itself.
RunAti ==
  /\ pc = "ati" /\ pc' = "waitati" /\ polls' = PollMax
  /\ AtStop
  /\ NoFault
  /\ UNCHANGED <<ready, irq, Queue, dev, fingers, frame, lost>>

\* The request bits read as zero.
WaitForAti == ~dev.ati /\ Done("waitati", "callback", dev)

\* Mutant: the time that has passed is not counted.
PollForever ==
  /\ \/ pc = "waitreset" /\ ~dev.reset
     \/ pc = "waitati" /\ dev.ati
  /\ AtStop
  /\ NoFault
  /\ UNCHANGED <<pc, polls, ready, irq, Queue, dev, fingers, frame, lost>>

\* A poll that finds the device not there yet.
PollAgain ==
  /\ \/ pc = "waitreset" /\ ~dev.reset
     \/ pc = "waitati" /\ dev.ati
  /\ IF polls > 0 THEN polls' = polls - 1 /\ UNCHANGED pc
     ELSE pc' = "failed" /\ UNCHANGED polls
  /\ AtStop
  /\ NoFault
  /\ UNCHANGED <<ready, irq, Queue, dev, fingers, frame, lost>>

\* k_work_init of every work, and gpio_add_callback.
InitWorks ==
  /\ pc = "callback" /\ pc' = "event"
  /\ ready' = TRUE /\ view' = 0
  /\ NoFault
  /\ UNCHANGED <<polls, irq, work, wpc, got, Device, lost>>

\* Mutant: the window is only held by the driver, the device is not told.
SetEventModeOnly == Done("event", "endcomms", [dev EXCEPT !.event = TRUE])

SetEventMode ==
  Done("event", "endcomms", [dev EXCEPT !.event = TRUE, !.held = hold])

\* The end of iqs9151_set_event_mode: the window it holds is closed.
EndFirstComms ==
  /\ pc = "endcomms" /\ pc' = "irq"
  /\ IF hold THEN Close ELSE UNCHANGED <<open, left>>
  /\ NoFault
  /\ UNCHANGED <<polls, ready, irq, Queue, dev, fingers, frame, lost>>

\* iqs9151_set_interrupt: an edge to come, not the one that may have been.
EnableInterrupt ==
  /\ pc = "irq" /\ pc' = "running"
  /\ irq' = TRUE
  /\ NoFault
  /\ UNCHANGED <<polls, ready, Queue, Device, lost>>

\* Any transfer may fail; the initialisation returns and is never retried.
\* A write may have taken effect in part; SW_RESET and the bits may not be set.
InitFails ==
  /\ pc \notin {"callback", "irq", "running", "failed"} /\ pc' = "failed"
  /\ Fault
  /\ UNCHANGED <<polls, ready, irq, Queue, Device, lost>>

InitStep ==
  \/ CheckProduct \/ SwReset \/ WaitForShowReset \/ AckReset \/ Configure
  \/ ApplyOverrides \/ RunAti \/ WaitForAti \/ PollAgain \/ InitWorks
  \/ SetEventMode \/ EndFirstComms \/ EnableInterrupt

-----------------------------------------------------------------------------
(* The work: iqs9151_work_cb.                                              *)

BeginWork ==
  /\ work /\ wpc = "idle"
  /\ work' = FALSE /\ wpc' = "read"
  /\ NoFault
  /\ UNCHANGED <<got, view, Driver, Device, lost>>

Now == [n |-> fingers, reset |-> dev.reset]

\* Outside a window (stats: rdy_miss) the device answers with fresh data.
ReadFrame ==
  /\ wpc = "read" /\ wpc' = "close"
  /\ frame' = IF open THEN frame ELSE Now
  /\ got' = [ok |-> TRUE, f |-> frame']
  /\ AtStop
  /\ NoFault
  /\ UNCHANGED <<work, view, Driver, dev, fingers, lost>>

\* Stats: i2c_errors.  The frame is gone; the window is closed all the same.
ReadFails ==
  /\ wpc = "read" /\ wpc' = "close"
  /\ got' = [got EXCEPT !.ok = FALSE]
  /\ lost' = TRUE
  /\ Fault
  /\ left' = IF open /\ ~dev.held THEN "readfail" ELSE left
  /\ UNCHANGED <<work, view, Driver, dev, open, fingers, frame>>

\* Mutant: a frame that failed to read leaves the window open.
EndCommsAfterRead ==
  /\ wpc = "close" /\ wpc' = IF got.ok THEN "process" ELSE "idle"
  /\ IF hold /\ got.ok THEN Close ELSE UNCHANGED <<open, left>>
  /\ NoFault
  /\ UNCHANGED <<work, got, view, Driver, dev, fingers, frame, lost>>

\* Mutant: the window is never closed by the driver.
EndCommsNever ==
  /\ wpc = "close" /\ wpc' = IF got.ok THEN "process" ELSE "idle"
  /\ NoFault
  /\ UNCHANGED <<work, got, view, Driver, dev, open, fingers, frame, left, lost>>

\* iqs9151_end_comms, before the frame is processed.
EndComms ==
  /\ wpc = "close" /\ wpc' = IF got.ok THEN "process" ELSE "idle"
  /\ IF hold THEN Close ELSE UNCHANGED <<open, left>>
  /\ NoFault
  /\ UNCHANGED <<work, got, view, Driver, dev, fingers, frame, lost>>

\* Stats: end_comms_errors.  The result is ignored.
EndCommsFails ==
  /\ hold
  /\ wpc = "close" /\ wpc' = IF got.ok THEN "process" ELSE "idle"
  /\ left' = IF open THEN "endfail" ELSE left
  /\ Fault
  /\ UNCHANGED <<work, got, view, Driver, dev, open, fingers, frame, lost>>

\* Mutant: a frame with SHOW_RESET is processed like any other.
ProcessAny ==
  /\ wpc = "process" /\ wpc' = "idle"
  /\ view' = got.f.n
  /\ lost' = FALSE
  /\ NoFault
  /\ UNCHANGED <<work, got, Driver, Device>>

\* iqs9151_process_frame: SHOW_RESET ends every session, and the fingers of
\* that frame are not looked at.
Process ==
  /\ wpc = "process" /\ wpc' = "idle"
  /\ view' = IF got.f.reset THEN 0 ELSE got.f.n
  /\ lost' = FALSE
  /\ NoFault
  /\ UNCHANGED <<work, got, Driver, Device>>

WorkStep == BeginWork \/ ReadFrame \/ EndComms \/ Process

-----------------------------------------------------------------------------
(* The device.                                                             *)

Touch(n) ==
  /\ n # fingers /\ fingers' = n
  /\ NoFault
  /\ UNCHANGED <<Driver, Queue, dev, open, frame, left, lost>>

\* The device calibrates when it sees fit: nothing the driver writes asks for it.
Calibrates ==
  /\ dev' = [dev EXCEPT !.ati = ~@]
  /\ NoFault
  /\ UNCHANGED <<Driver, Queue, open, fingers, frame, left, lost>>

\* Mutant: an edge while the work runs is dropped.
OpenWindowDropped ==
  /\ ~open
  /\ dev.event => frame # Now
  /\ open' = TRUE /\ frame' = Now
  /\ work' = (work \/ (irq /\ wpc = "idle"))
  /\ left' = IF irq THEN "no" ELSE "missed"
  /\ lost' = (lost \/ ~irq)
  /\ NoFault
  /\ UNCHANGED <<Driver, wpc, got, view, dev, fingers>>

\* In event mode a window opens when there is news, before that at any time.
\* iqs9151_gpio_cb, on the edge, queues the work; submitting it again while it
\* is queued does nothing, while it runs queues it once more.
OpenWindow ==
  /\ ~open
  /\ dev.event => frame # Now
  /\ open' = TRUE /\ frame' = Now
  /\ work' = (work \/ irq)
  /\ left' = IF irq THEN "no" ELSE "missed"
  /\ lost' = (lost \/ ~irq)
  /\ NoFault
  /\ UNCHANGED <<Driver, wpc, got, view, dev, fingers>>

\* The I2C timeout ends a window that nobody serves; or the work comes too late.
WindowTimeout ==
  /\ open
  /\ IF left # "no" THEN NoFault ELSE Fault
  /\ Close
  /\ lost' = (lost \/ work \/ wpc = "read")
  /\ UNCHANGED <<Driver, Queue, dev, fingers, frame>>

\* A brown-out or a fault of the device: it starts over, unconfigured.
DeviceResets ==
  /\ Fault
  /\ dev' = AfterReset /\ frame' = [n |-> 0, reset |-> TRUE]
  /\ Close
  /\ UNCHANGED <<Driver, Queue, fingers, lost>>

-----------------------------------------------------------------------------
\* Power on: the device has reset itself, there may be fingers on it.
Init ==
  /\ hold \in Builds
  /\ pc = "product" /\ polls = 0 /\ ready = FALSE /\ irq = FALSE
  /\ work = FALSE /\ wpc = "idle"
  /\ got = [ok |-> FALSE, f |-> [n |-> 0, reset |-> TRUE]]
  /\ view = 0
  /\ dev = AfterReset /\ open = FALSE
  /\ fingers \in Counts /\ frame = [n |-> 0, reset |-> TRUE]
  /\ left = "no" /\ lost = FALSE /\ faults = 0

Next ==
  \/ CheckProduct \/ SwReset \/ WaitForShowReset \/ AckReset \/ Configure
  \/ ApplyOverrides \/ RunAti \/ WaitForAti \/ PollAgain \/ InitWorks
  \/ SetEventMode \/ EndFirstComms \/ EnableInterrupt \/ InitFails
  \/ BeginWork \/ ReadFrame \/ ReadFails \/ EndComms \/ EndCommsFails \/ Process
  \/ \E n \in Counts : Touch(n)
  \/ Calibrates \/ OpenWindow \/ WindowTimeout \/ DeviceResets

\* The initialising thread and the queue run; the device opens a window when it
\* has news and its I2C timeout expires.  Fingers, faults and the calibration
\* need not come.
Fairness ==
  /\ WF_vars(InitStep) /\ WF_vars(WorkStep)
  /\ WF_vars(OpenWindow)
  /\ WF_vars(WindowTimeout /\ left # "no")

Spec == Init /\ [][Next]_vars /\ Fairness

-----------------------------------------------------------------------------
(* Properties.                                                             *)

\* Every variable keeps the values its counterpart can hold.
CommsTypeOK ==
  /\ hold \in Builds
  /\ pc \in InitStages /\ polls \in 0..PollMax /\ ready \in BOOLEAN /\ irq \in BOOLEAN
  /\ work \in BOOLEAN /\ wpc \in {"idle", "read", "close", "process"}
  /\ got \in [ok : BOOLEAN, f : Frames] /\ view \in Counts
  /\ dev \in Registers /\ open \in BOOLEAN /\ fingers \in Counts /\ frame \in Frames
  /\ left \in {"no", "missed", "readfail", "endfail"} /\ lost \in BOOLEAN
  /\ faults \in 0..FaultMax

\* A window that is open while the interrupt is on is going to be read or closed,
\* or has been given up for one of three reasons: its edge came before the
\* interrupt was enabled; its frame failed to be read, in the build that leaves
\* the closing to the transfer; the command to close it failed, in the build that
\* holds it.  Then only the timeout of the device ends it.
WindowIsServed ==
  open /\ irq =>
    \/ work \/ wpc = "read" \/ (wpc = "close" /\ hold)
    \/ left = "missed"
    \/ left = "readfail" /\ ~hold
    \/ left = "endfail" /\ hold

\* When all is quiet the gesture code and the trackpad agree on the fingers that
\* touch: once the last data are those of now and no work is left to handle them,
\* a lifted finger stays down for the driver only if a frame was lost.
QuietMeansAgreed ==
  irq /\ ~dev.reset /\ frame = Now /\ ~work /\ wpc = "idle" /\ ~lost => view = fingers

\* The queue never runs for a device whose initialisation has not got as far as
\* setting up its works, and never after it has failed.
NoWorkBeforeReady ==
  /\ irq \/ work \/ wpc # "idle" => ready
  /\ pc = "failed" => ~irq /\ ~work /\ wpc = "idle" /\ view = 0

\* The interrupt comes on for a device that is configured and in the mode the
\* driver counts on, unless the device has reset itself since.  That it has been
\* calibrated is not promised: the request of RunAti is lost.
RunsConfigured == irq /\ ~dev.reset => dev.setup /\ dev.event /\ dev.held = hold

\* Frames are handled only once the works and the device are set up for them.
RunsWhenReady == NoWorkBeforeReady /\ RunsConfigured

\* However the device behaves, initialisation comes to an end.
InitEnds == <>(pc \in {"running", "failed"})

\* Fingers that rest on a trackpad in operation are noticed, unless the frame
\* that tells of them is lost.
FingersAreSeen ==
  \A n \in Counts :
    (irq /\ fingers = n) ~> (view = n \/ fingers # n \/ lost \/ dev.reset)

\* A device that resets itself does not leave its last gesture behind: the next
\* frame that gets through ends every session.
ResetEndsGestures == (irq /\ dev.reset) ~> (view = 0)

\* The initialisation ends, and after it no touch and no reset of the device goes
\* unnoticed for ever.
CommsMovesOn == InitEnds /\ FingersAreSeen /\ ResetEndsGestures
=============================================================================
