# A TLA+ verification project for zmk-driver-iqs9151

The driver reads frames of finger positions from an IQS9151 trackpad over I2C
and turns them into pointer movement, wheel steps and button reports for ZMK.
This directory holds TLA+ models of its stateful parts, the TLC configurations
that check them, and proofs of their main properties for TLAPS.

All paths below are relative to the repository. Unless said otherwise a line
number belongs to `drivers/input/iqs9151.c`.

## 1. The system

### Threads and works

- One work queue, `iqs9151_work_q` (26-51), runs the frame handler and every
  delayed work, one item after the other.
- The RDY interrupt (`iqs9151_gpio_cb`) only submits the frame work. Submitting
  it again while it is queued has no effect, so edges can merge.
- The shell and `main` (loading saved settings) call the `iqs9151_dev_*`
  functions from their own threads. Parameters are shared without a lock.
- A report to the input subsystem may block (`K_FOREVER`). Other threads run
  meanwhile; other items of the queue do not.

### Inventory

| Component | State | Operations | What makes it correct |
|---|---|---|---|
| Gesture sessions (1451-2911) | `one_finger`, `two_finger`, `three_finger`, `*_click_pending`, `hold_button`, two kinds of timer, `finger_history` | session open / continue / close per finger count, hand-over, deferred click, grace, SHOW_RESET | a held button always has an owner and is released at last; drags keep their button; pinch start and end are paired; no session outlives the touch |
| Button reports (483-510, 3003-3014) | what the host believes to be down | press, release, click | one click button at a time, releases match presses |
| Frames and RDY (2736-2749, 3026-3158) | `prev_frame`, the frame work | read, end the communication window, process | a failed read changes nothing; windows are always closed |
| Initialisation (3165-3397, 3459-3605) | device registers | reset, acknowledge, configure, ATI, event mode, enable interrupt | the device is configured before frames are used; no RDY edge is lost for good |
| Run-time IC parameters (943-992, 3402-3457) | `params`, `ic_dirty`, `reati_pending` | set, reset, apply, Re-ATI | registers come to agree with `params`; a request is executed |
| Movement accumulators (515-660) | `cursor_acc`, `scroll_acc`, flush works | add, flush, reset | movement is neither lost nor doubled nor late |
| Inertia and tail suppression (1325-1450, 2510-2690) | inertia states, motion history, EMA, `two_finger_tail_suppresses_cursor` | start, step, cancel | it gives way to fingers; it ends by itself; its fixed point loses no distance |
| Gain, distance and mode decision (1600-1665, 1934-1988) | none | pure functions | bounded by what is configured; nothing lost in rounding; wide movement decides a mode |
| Attempt summary (1200-1324) | the attempt, `summary_work` | accumulate, emit | every touch is counted in exactly one attempt |
| Statistics, trace, live notification (52-240) | counters, throttle state | record, read and clear, notify | counters that belong together agree; the view shows every change of the fingers |
| Parameter table (`iqs9151_params.c`) | none (`params` is the driver's) | find, range check, defaults | a stored value is in range |
| Settings (`iqs9151_settings.c`) | saved blob, loaded flag, two shared buffers under a mutex | save, load, clear | what is loaded is what was saved; every command is answered |
| Command parser, shell (`iqs9151_cmd.c`, `iqs9151_shell.c`) | none | parse, dispatch, print | a refused command changes nothing |
| Text codecs (`iqs9151_frame_codec.c`, `iqs9151_summary_codec.c`) | none | format, pack, unpack | a packed summary is unpacked unchanged |
| Dynamic scaler (`input_processors/input_processor_dynamic_scaler.c`) | scale, remainders, save work | scale an event, step the scale, save | with a remainder no movement is lost, without one less than a unit per event; a change is saved |
| Behaviors-consume processor, behaviors | none | dispatch | an event is consumed once |

Interactions: the frame handler calls, in this order, parameter application,
end of the communication window, attempt summary, sessions, reports,
`prev_frame` and live notification (3026-3158). Sessions arm and cancel the
delayed works. Settings and shell reach the driver through `iqs9151_dev_*`.

### What is hard here

The hazards, with their lines, are listed in `PROJECT.json`. The heart of them:

- Several timers and the frame path end the same things (a drag, a deferred
  click), and cancel one another by hand.
- A frame with more fingers takes over the session of fewer. The code is a
  hand-written copy per pair of finger counts. A lift may be staged too.
- In event mode no frame follows the lift. Only timers can then release a button.
- Parameters change between two reads of the same frame.
- Dirty marks are stored, taken and re-marked without a lock.
- The device may reset itself, a transfer may fail, a save may be cut short.

## 2. Modules

| Module | Models | Composes |
|---|---|---|
| `Iqs9151Gesture` | sessions, deferred clicks, grace, latch, the queue that runs them | |
| `Iqs9151Buttons` | the abstract promise about button reports | implemented by `Iqs9151Gesture` |
| `Iqs9151GestureContact` | a clock of the whole contact, a history variable | extends `Iqs9151Gesture` |
| `Iqs9151Summary` | the attempt summary and its timer | extends `Iqs9151GestureContact`: gestures and summary on one queue |
| `Iqs9151Motion` | accumulators, flush works, inertia works, tail suppression | gestures abstracted to what the output reads of them |
| `Iqs9151Algorithms` | gains, mode decision, ring of movement, inertia seed and steps | operators; checked together with `Iqs9151Motion` |
| `Iqs9151Comms` | initialisation, RDY interrupt, frame work, the device's communication windows | |
| `Iqs9151Registers` | which byte each write of the initialisation reaches | operators; checked together with `Iqs9151IcParams` |
| `Iqs9151IcParams` | run-time IC parameters, Re-ATI, failed writes, device reset | |
| `Iqs9151Live` | the live view: throttle, notification, `tp live` from another thread | |
| `Iqs9151Console` | parameter table, command lines, statistics, packed summaries | operators; checked together with `Iqs9151Live` |
| `Iqs9151Settings` | saving, loading and deleting the parameters by several threads, failures and power loss | |
| `DynamicScaler` | scales, remainders, the debounced save | |
| `BehaviorsConsume` | mapped buttons turned into key positions | operators; checked together with `DynamicScaler` |
| `...Proofs` | theorems; `Iqs9151GestureProofs` is about `Iqs9151Gesture`, `Iqs9151GestureContact` and `Iqs9151Summary`, `Iqs9151IcParamsProofs` also about `Iqs9151Registers` | |
| `BasicProofs` | lemmas on division and on folds over sequences, used by the proofs of the operators | |
| `MC...` | instances for TLC | |

A module of operators has no state of its own: its properties are checked in
the first state of the run of the module named beside it.

### Iqs9151Gesture

One pass of `iqs9151_process_frame` is a sequence of steps, kept in `pc`, cut
where the code reads a shared parameter again or passes from one session's
update to the next:

| `pc` | action | code |
|---|---|---|
| idle | `BeginFrame` | frame read and decoded |
| gate | `ResolvePending` | a finger count that resolves a deferred click (2782-2815), and the early return of a staged three-finger re-entry |
| handover | `HandOver` | more fingers take over a session of fewer (2816-2878) |
| close | one of `NothingToClose`, `AwaitGrace`, `KeepDrag`, `FinishDrag`, `AwaitLift`, `Abandon`, `SuppressTap`, `EmitTap`, for sessions 1, 2, 3 in turn | the branches of the three `*_finger_update` for a count other than their own |
| arm | `ArmClick` | after the report: `*_presshold_enable` read again (1915, 2226 and the three-finger kin) |
| open | `OpenSession`, `ContinueSession`, `NoSessionToUpdate` | the update of the session of the reported count |
| report | `ReportFrame` | pinch reports, `prev_frame`, finger history |

`ClickTimeout`, `GraceTimeout` and `ShowReset` run between frames, as the queue
makes them. `SetParams` runs at any moment, as another thread does. `Tick` is one unit of
time.

Choices to know of:

- `s[k]` stands for the session of k fingers. `hold_sent` and
  `tapdrag_second_touch` are always written together and are one field, `drag`.
  `tap_candidate` is read only when `drag` is false and `hold_candidate` only
  when it is true; both are `cand`.
- Displacement is abstracted to what the thresholds make of it (`move`). `xy`
  says whether the coordinates a session needs were available.
- A click is a press and a release in one step, so the buttons stay as they
  were; `SwipeFindsNoHold` covers the case in which that would be wrong.
- A timer counts down. When due it may wait up to `Late` ticks for the queue,
  so a frame can still get in before it. A frame is handled within one tick.
- The thresholds in ms are constants. Of the tap parameters, the two groups of
  switches (`*_presshold_enable`, `*_tap_enable`) change at run time.
- `finger_history` is abstracted to the only query made of it: was 0 pushed
  within the window and is it still in the buffer.

### Iqs9151IcParams

`Set`, `BeginReset`, `StoreDefault` and `MarkDirty` are what a tuning thread
does between its stores and its `atomic_or`. `BeginApply`, `Fetch`,
`WriteDone` / `WriteFailed`, `TakeReati` and `RunAti` are
`iqs9151_apply_pending_ic`, cut at each atomic operation and each I2C transfer.
A failed transfer may or may not have reached the device. `DeviceReset` loses
all registers. The System Control word of `iqs9151_run_ati` is a set of bits.

### Iqs9151Settings

The commands `set`, `reset` and `save` of `iqs9151_cmd.c` and the load at the
start, each cut at every parameter it reads or stores, at each lock and at each
access to the store. `lock` is `iqs9151_settings_lock`; `store` is the mutex
inside Zephyr's settings subsystem, which `settings_load` holds around the
handler and `settings_save_one` and `settings_delete` hold around one access
(external: Zephyr's code is not in the repository). `PowerLoss` restarts
everything but the store. One access to the store is atomic. A failed write may
or may not have reached the store; a failed delete has not. A blob is the values
it decodes to, or `Foreign`, which stands for all the blobs that are refused.

### DynamicScaler

A behavior's call is its read, its store into the atomic and its
`k_work_reschedule`. `BeginSaving`, `ReadScale` and `WriteScale` are
`save_scale_cb`. `Load` is `dyn_scaler_settings_set` with its error paths: a
value of another length or one that cannot be read is left alone. The model is
of the build with a debounced save, and the debounce is longer than the start:
no save begins before the load is over.

`Scale` is `dyn_scaler_handle_event` with `apply_scale_x10` and C's division. It
has a place for a remainder only if ZMK's input listener gives it one
(`input_processors/input_processor_dynamic_scaler.c:54`, 60). The listener is not in
the repository, so `Init` chooses for each group whether remainders are
`tracked`, and the properties hold for both. `owed` is a history variable:
scaled movement, in tenths, not reported; that of all events so far where
remainders are tracked, that of the last event where they are not.

### Iqs9151Summary

`FrameBegins` and `FrameStep` put `iqs9151_summary_begin_frame` before and
`iqs9151_summary_end_frame` after the steps of a gesture frame. `EmitSummary`
is the summary work; `NothingDueBefore` says that the queue runs works in the
order they fall due. What is summed up is left out but for the number of
contacts. The idle time is computed from the gaps, which do not change within a
run.

### Iqs9151Motion

A frame is one action, `Frame`, in the order of the code: sessions, cancelling
of inertia, cursor and scroll output, seeds, tail. The gestures are the
variables `mode`, `drag`, `three`, which a frame changes in the ways
`Iqs9151Gesture` allows it. `FlushWork`, `GlideWork` and `ButtonWork` are the
delayed works, `ShowReset` the reset by the device, `SetInterval` another
thread's change of a report interval. Amounts are abstracted to whether there
is movement; a choice that depends on amounts alone (does this flick start
inertia, has it decayed) is free. `out` is what the last step reported, a step
of inertia included. A timer counts down and may wait `Late` ticks for the
queue.

### Iqs9151Algorithms

The functions `iqs9151_speed_gain_x100` to `iqs9151_inertia_step` with C's
division and shift, and the reference each is compared with: gain between the
two configured ones; sum of the reported equals the sum of the input but for
the carried remainder; no movement above twice the start thresholds that is
neither scroll nor pinch (frames of a run are 1, 3 or 5 ms apart); the ring is the newest movement; the seed has the
direction of the samples it comes from; the reported steps add up to the
distance; a late step reports what the missed ones would have.

### Iqs9151Comms

One action per transfer of `iqs9151_init` and per step of `iqs9151_work_cb`
(`BeginWork`, `ReadFrame`, `EndComms`, `Process`). The device is external: it
opens a window when it has news, keeps its data still until the window closes,
closes it at a STOP or, in the build that holds windows, at the end command, or
after its I2C timeout. `Builds` covers both builds. `left` says why nobody
serves an open window: its edge came before the interrupt was on (`missed`), its
frame failed to be read in the build that leaves closing to the transfer
(`readfail`), or the end command failed in the build that holds the window
(`endfail`). `WindowIsServed` excuses these three and nothing else. Two simplifications: `SW_RESET` takes effect at the STOP of its write,
and calibration takes no registers away.

### Iqs9151Registers

The tables of `iqs9151_configure`, written in chunks of 30 bytes, then the
single registers over them, each a range of addresses. A register's content is
whose byte it is. A write of more than a chunk is refused, and the address
counts up from byte to byte within one.

### Iqs9151Live

`EnableLive`, `StoreRate`, `ClearField` are `iqs9151_dev_live_enable`, whose
`memset` clears the throttle field by field while the queue may be in
`iqs9151_live_notify` (`Decide`, `Tell`). `shown` is what the callback was last
told.

### Iqs9151Console

The rows of the parameter table with range and the values of the type it is
narrowed to; `Tokens` is `tokenize_line`, compared with the places where words
begin; `Exec` runs a line of words on the state a command
may change; `Recorded` is a run of statistics events with reads in between;
`Pack` and `Unpack` are the summary words. Answers are `"OK"` or the error.

### BehaviorsConsume

`HandleEvent` is the processor followed by the listener: a mapped button sets
the state of its position by `behavior_trackpad_to_pos` and goes on as a release
of a button no gesture uses; a failing behavior stops the event.

## 3. Runs

| Run | Expected | Shows |
|---|---|---|
| `gesture` | pass | the gesture machine with the default options, the two-finger tap switched by another thread: types, ownership of the latch, timers, pinch pairing, sessions and the lift, drags, swipes, the refinement of `Iqs9151Buttons` |
| `summary` | pass | gestures and summary on one queue, one- and three-finger taps pressing and holding, two-finger taps clicking, taps switched on and off within frames: every summary comes after the releases it should tell of, every attempt ends, timers alone release a held button after the lift, a contact that ends in a tap is short |
| `tuning` | violation | finding 1 |
| `phantom_drag` | violation | finding 2 |
| `ic_params` | pass | no update of a parameter is lost and none overtaken unnoticed; after the tuning, registers come to agree with the parameters for good; initialisation writes every register where it belongs |
| `reati` | violation | finding 3 |
| `settings` | pass | saves and loads do not disturb one another, values out of range stay out, every command is answered once the start is over |
| `settings_boot` | violation | finding 4 |
| `scaler` | pass | no movement is lost where a remainder is tracked, and less than a unit per event where none is; a change is saved or about to be; a mapped button reaches the keymap and not the host |
| `motion` | pass | movement is sent within two intervals; inertia is served, ends, and gives way to movement held back, to the tail of a two-finger gesture and, that of the scroll, to two or three fingers; the fingers of a scroll or pinch move no cursor, and its tail is quiet; buttons do not overtake movement; the arithmetic behind it |
| `comms` | pass | windows are served but for three named cases; driver and trackpad agree on the fingers when all is quiet; initialisation ends; the interrupt is on for a configured device only |
| `live` | pass | the view follows the fingers, also when `tp live` tears the throttle; command lines, ranges, statistics and packed summaries |

Deadlock is checked in all of them but `settings_boot`, which is about one. In
`settings` power may be lost in the deadlock of finding 4, which ends it;
`AnsweredAfterBoot` is about what comes after the start.

Some properties are conjunctions of named parts that answer one question:
`GlideYields`, `RunsWhenReady`, `CommsMovesOn`, `ViewIsTrue`, `UpdatesLand`,
`CommandsAreSound`, `ReportsAgree`, `MovementIsGeared`, `FlickIsFollowed`.
`PROJECT.json` has a mutant of the code for most parts of each.

### Bounds

- `Counts` is 0 to 4 in `gesture` and `motion`. Four stands for every count
  above three, which the code treats alike. The other runs leave it out;
  `comms` and `live` need three different counts and no more.
- A tick is 30 ms in `gesture`, the length of the shortest window
  (`IQS9151_TAP_REENTRY_WINDOW_MS`), 60 ms in `tuning` and `phantom_drag`, and
  120 ms in `summary`, where the re-entry window is 0 ticks. The thresholds are
  the defaults of `drivers/input/Kconfig` rounded down to ticks (the table in
  `documents/gesture_spec.md` section 3 has other values).
- `AgeMax` is one tick above the longest threshold: older ages compare alike.
- `HistSize` is the code's 5.
- `Late` is 1, so that a frame may come before, at, or after the due time.
- `ContactMax` is one above the longest contact allowed. The idle times of the
  summary are 1 to 8 ticks with a margin of 1.
- `motion`: a tick is 10 ms, one inertia interval. Report intervals are 0 and 2
  ticks, inertia lasts 3 intervals, a sample is stale after 1: each timer can
  fall due before, with and after each other. For the arithmetic, displacements
  up to 5, a ring of 3 with 4 pushes, 3 bits of fraction.
- `comms`: one poll before giving up, two faults (a failed transfer, a device
  reset, a work later than the I2C timeout), so that a fault can follow a fault.
- `live`: two rates, two buttons, one mode; a tick is 16 ms, so the slower rate
  is two ticks. Lines of at most 10 characters, the code's 4 words, runs of 4
  statistics events; a byte of a packed word has 16 values.
- IC parameters: two registers and two threads make every pair of races; the
  power-on value is the default, so a device reset undoes what was written. The
  register map is the full one.
- Settings: two command threads and the main thread are every pair; one
  parameter is enough for each order of lock, copy, write and flag. A blob torn
  between two parameters is excluded by the theorems, for any number of them.
- Scaler: one group (groups share nothing but the save, whose order of reading
  and writing the theorem covers), two threads, scales 0.2 to 0.4 around the
  default, with a remainder and without, requests below and above the bounds, movement of both signs; runs of
  4 button events.

### Fairness

- `WF(HandleFrame)`: the queue's thread goes on with a frame it has begun.
- `SF(Timeout)`: the queue is first-in first-out, so a due work is not starved
  by frames, though each frame makes it wait. The same for the summary work.
- `SF(Tick)`: time passes, though frames and resets interrupt it.
- Nothing is assumed of fingers, frames, resets or other threads.
- `Iqs9151Motion`: the flush and inertia works are run (`WF`: only a frame that
  cancels them disables them), and time passes.
- `Iqs9151Comms`: the initialising thread and the queue go on, the device opens
  a window when it has news, and a window nobody serves ends by its timeout.
- `Iqs9151IcParams`: the queue goes on (`WF(Apply)`, and `SF` of each parameter's
  turn: frames keep coming), a thread finishes the call it is in, and a write
  repeated for ever succeeds at last (`SF(WriteDone)`).
- `Iqs9151Settings`: the load and each command go on when they can (`WF`), and
  the lock goes to a thread that waits for it (`SF(LockForSave)`: a `k_mutex`
  wakes the waiting thread).
- `Iqs9151Live` and `DynamicScaler` have safety properties only.

## 4. Proofs

All theorems hold for every value of the constants that satisfies the named
assumption (`ConstantsAssumption`: thresholds are natural numbers below
`AgeMax`; `IcAssumption`, `SettingsAssumption`: defaults are functions into the
values, and the special values are no values; `ScalerAssumption`: the default
scale is within the bounds, the smallest scale is above zero).

- `TypeCorrect`: `Spec => []TypeOK`, one lemma per part of the type and per
  group of actions.
- `TimersAlwaysArmed`: inductive together with the type. Every action that ends
  a deferred click or a drag in its grace is shown to switch its timer off.
- `LatchAlwaysDown`: the latched button, if any, is the only click button that
  is down. It is inductive and not checked for its own sake: the refinement
  rests on it.
- `ImplementsButtons`: `Spec => ButtonsSpec`. Each action is a press, a release,
  a pinch report, a reset or a stutter of `Iqs9151Buttons`, because of
  `LatchAlwaysDown`.
- `HoldAlwaysOwned`: `PressFixed => (Spec => []HoldOwned)`. `HoldOwned` alone is
  not inductive. `HoldInv` adds `HoldInForce` (a held finger has its
  press-and-hold option on), `ClickResolved` (past the gate, no click is
  pending that the frame resolves) and `ArmsTap` (a tap being armed belongs to
  a session that is open and no drag). `PressFixed` is needed: without it the
  `tuning` run gives the counterexample.
- The sessions (second half of `Iqs9151GestureProofs`). Each of its lemmas says what a step makes of the fields of one
  session; the properties then follow from four invariants.
  - `PinchAlwaysReported`: `PinchInv` carries the promise through a frame: a
    session that is a pinch has been reported or will be at the end of it.
  - `LiftAlwaysCloses`: `LiftInv` says of each `pc` which sessions a lifted
    frame has already closed.
  - `StagedReentryAlwaysAlone`: `StagedInv` says which sessions can be open
    beside a pending three-finger click.
  - `DragsKeepTheirButton`: `DragInv` has `OneDrag`, `PendingIsClosed` (a
    finger count with a click pending has no session), `FrameIsSettled` and
    `NoClickBelow`.
  - `SwipesFindNoHold` and `ThreeFingerDragsHaveTheirButton` need `PressFixed`
    and `HoldInv` as well; the second also `ClickHasButton`.
- `IcTypeCorrect`, `UpdatesAlwaysLand`: `IcInv` is the type, the two parts of
  `UpdatesLand` and `ResetMarks` (whatever a reset still has to store it will
  also mark). They hold because a thread marks after it stores and the queue
  takes the marks before it reads.
- `SettingsTypeCorrect`, `SavesFaithfully`, `AppliesFaithfully`: the invariant is
  the type, `Holding` (whoever uses the work copy holds the lock) and `Copies`
  (the part of the work copy a save has copied agrees with the parameters not
  touched since; the part of the parameters a load has applied agrees with the
  work copy and the blob). `Holding` makes the work copy private, which is what
  `Copies` needs.
- `ScalerTypeCorrect`.
- `LossAlwaysBounded`: by `OwedIsKept`, what is owed is the remainder of all
  events where it is tracked, and that of the last event where it is not.
- `ChangesAreSaved`: `ChangeIsSaved` alone is not inductive. `SaveInv` adds that
  the save does not begin before the load is over, that a scale changed before
  it is loaded is pending, and that a value the save has read and not written is
  current, or another save is pending.
- `Iqs9151MotionProofs`: `MotionTypeCorrect`, `MovementIsDelivered`,
  `GlideAlwaysYields`, `TailIsQuiet`, `DragDropsInPlace`, `PinchKeepsOrder`.
  The invariant is the type with `AccOK` (the age of held movement and what is
  left of its flush add up to less than two intervals, whatever rescheduled
  it), `GlideOK` (inertia runs exactly while its work is armed), the parts of
  `GlideYields`, and what ties the gestures to the output: movement is held
  back by one channel at a time (`HeldByOne`), a mode belongs to two fingers
  (`ModeOfTwo`), a drag has no seed to glide on (`DragIsStill`). A frame is
  taken apart first (`FrameTakenApart`), then each part has a lemma.
  `TailIsQuiet` is about what the fingers do: a step of inertia that ran before
  the scroll may report (`GlideWorkSpends`), every other step reports no cursor
  movement and gives inertia nothing to run on (`OthersOfCursor`,
  `CursorStaysStill`). `DragDropsInPlace` is about one-finger drags; for wider
  ones it is false (see *Divergences*).
- `Iqs9151CommsProofs`: `CommsTypeCorrect`, `WindowsAreServed`,
  `AlwaysRunsWhenReady`. The invariant says for each stage of the
  initialisation what the device has been told (`StageOK`), that no interrupt
  or work comes before its time (`IrqOK`), and who serves a window (`WindowOK`).
- `Iqs9151LiveProofs`: `LiveTypeCorrect`, `ViewFollows`, `ViewKeepsRate` (a
  frame with nothing new keeps to the rate). The invariant compares the
  throttle with what was shown (`Remembered`, `InStep`) while no command is at
  work, and says that a torn throttle only makes the next frame due
  (`DueToTell`).

- The contact. `TapsAreShort`: `ContactInv` says what a session's clocks tell of
  the contact: a session that may still become a tap began within its lead
  (`TapBound`, `LeadInHand`), and the time since the last frame without fingers
  is no less than the contact (`ContactClock`).
- The summary. `SummaryKeepsGestures` shows that the composition is still the
  gesture machine, so its invariants can be used. `AttemptsCover` needs the
  frame in hand besides `prev` (`CoversInv`). `SummariesAreComplete` has two
  hypotheses: `PressFixed`, as above, and `IdleOutlastsGestures`: the idle time
  is no shorter than the gaps and the grace. The gaps are at most 1000 ms, and
  so is the idle time's bound (`drivers/input/iqs9151_params.h:90`, 281). The
  grace is a real restriction, see *Divergences*. `IdleLast` says that then no
  other work is due after the summary.
- `QuietAlwaysAgrees` adds `FrameOK` to the invariant of `Iqs9151Comms`: who
  knows of the last data the trackpad had.

### Operators

`TLC` evaluates the operator properties for bounded inputs; the theorems are
about every input. Induction over data goes through two ways around the
library's induction theorems, which take an operator: a set of natural numbers
without its least element is empty (well-foundedness of `<`), and a fold over a
sequence is a function on 0..Len whose value at n + 1 is one application to the
value at n (`FoldExists`, `FoldCourse` in `BasicProofs`). Each proof then has an
invariant of such a course.

- Movement: `GainStaysBetween`, `RunKeepsMovement`, `ModeIsDecided`,
  `LateWorkCatchesUp`, `GlideKeepsDistance`, `RingHoldsNewest`, `GlideGoesOn`.
  The ring needs that its indices wrap around a run that may be longer than it,
  and that the movements it holds keep their order (`Ringed`). `GlideGoesOn` is
  about gates as the parameters allow them: at least one sample and a least
  speed of at least one (`drivers/input/iqs9151_params.h:147`). A fraction has
  at least one bit (`Shift` ≥ 2; the code's 8 bits): with none a seed could
  lose its sign in rounding.
- Buttons: `RunIsConsumed`, by what is held after n events (`RightlyHeld`).
- Console: `SummaryArrives` (words as digits to the base of a byte), `RunAgrees`
  (what has been counted after n events, `Tallied`), `LinesAreSplit` (what the
  loop has found after n characters, `Scanned`), `CommandsAreHarmless` (one
  lemma per command, `Sound`), `TableAlwaysFits`, which needs `HistoryMax` to
  be at least 12: the ring of the code has 12 places (255).
- Registers: `ChunksMakeTheTable` is about one table of any length.
  `LastWriteStays` says what a run of writes leaves: the registers some write
  reached, each with the byte of the last that did (`Reached`). Both give
  `WritesLand`, for any tables and any single registers written over them: a
  byte is that of a single register if there is one, and of a table if not.
  That it is the only one it could be (`PlacesApart`) is a fact about the
  addresses of the code.
- `MovementAlwaysGeared`, `FlickAlwaysFollowed`, `MappedAlwaysConsumed`,
  `ReportsAlwaysAgree`, `CommandsAlwaysSound` and `ConfigurationAlwaysLands`
  then give the properties of the runs, for any bounds of the inputs.

Assumptions of the other modules: `MotionAssumption` (intervals up to a
greatest one, zero among them; durations are natural numbers, those of inertia
positive), `CommsAssumption` (at least one poll, any number of faults),
`LiveAssumption` (each rate has a period of at least one tick),
`SummaryAssumption` (the bounds of the idle time are in order),
`AlgorithmsAssumption` (the ring has a place), `ConsumeAssumption` (no gesture
uses the button that events are turned into), `ConsoleAssumption` (a byte has
more than two values).

The type invariants of `Iqs9151IcParams`, `DynamicScaler`, `Iqs9151Motion`,
`Iqs9151Comms` and `Iqs9151Live`, and `RateIsKept`, are proved and not checked
by a run of their own.

Only model-checked: liveness (`ReleasedWhenUntouched`, `AttemptEnds`,
`SettlesWhenQuiet`, `AnsweredAfterBoot`, `CommsMovesOn`, `GlideEnds`), which
needs fairness and ENABLED and is beyond the prover.

## 5. Findings

1. `tuning`. `1f_presshold_enable` is read before the press is reported and
   again after it (1903, 1915). Switched off in between, the button stays down
   with no timer. `documents/gesture_spec.md:94` promises a release by timeout.
2. `phantom_drag`. A tap of another finger count that finds a button held
   releases it (1530) but leaves that button's deferred click pending. The next
   touch within the gap opens a drag with no button down.
   `documents/gesture_spec.md:172` and `:296` promise the button stays pressed.
3. `reati`. `iqs9151_run_ati` (3165-3171) puts bits 5 and 6 of System Control
   into the second byte of a little-endian register. No Re-ATI is ever queued,
   at start-up or on request (`drivers/input/iqs9151_shell.c:61`).
4. `settings_boot`. A `save` takes the driver's lock, then the settings
   subsystem's; the load at the start has the subsystem's and takes the driver's
   (`drivers/input/iqs9151_settings.c:95`, `:144`). Both threads may stop for
   good. This rests on the external fact above about Zephyr's mutex.
   `documents/iqs9151_kconfig_reference.md:132` promises an answer.

### Divergences

Seen while modelling, without a run of their own. The models behave as the code
does; where a document says otherwise it is named.

- `iqs9151_settings_clear` takes no lock (`drivers/input/iqs9151_settings.c:150`).
  A reset between another thread's write (135) and its flag (139) leaves
  `saved=yes` with nothing stored. `Iqs9151Settings` has the interleaving
  (`WriteBlob`, `Delete`, `MarkCleared`, `MarkSaved`).
  `documents/iqs9151_kconfig_reference.md:175` says a reset sets it to `no`.
- Only the one-finger session tells the start of cursor inertia (2962) that a lift
  released a held button (2883-2888). A two-finger drag keeps its button while
  one finger is left; that finger moves the cursor, and its lift starts inertia.
  A three-finger drag that ends 2, 1, 0 does the same. `Iqs9151Motion` has both;
  `NoGlideFromDrag` is about one-finger drags.
  `documents/gesture_spec.md:128` excludes the release of a hold.
- A second finger that comes back in the tail of a scroll or pinch clears the
  suppression of the cursor (2648), so a later single finger of the same contact
  moves it. In `Iqs9151Motion` a tail ends there too, and `NoCursorInTail` does
  not reach beyond it. `documents/gesture_spec.md:203` and `:215` keep the
  suppression until all fingers are lifted.
- Cursor inertia is not stopped by a finger that rests without moving, nor by
  frames of two fingers, so it may go on moving the cursor during a scroll or a
  pinch; frames of four or more stop nothing.
- The scaler loses up to nine tenths of a unit at every event unless ZMK's
  listener tracks remainders. Neither the binding in this repository nor the
  example of `documents/behavior_input_processor_reference.md` asks for it.
- A device that resets itself at run time is never acknowledged or configured
  again: all its later frames end the sessions and are discarded. A frame that
  fails to read, if it is the last of a touch, leaves the sessions open until
  the next one (`lost` in `Iqs9151Comms`).
- `tp live on 65537` is accepted as 1 Hz, because hz is narrowed to 16 bits
  before the check, and an omitted hz is accepted as 60;
  `documents/iqs9151_kconfig_reference.md:139` has an error for both.
- `tp live` while a frame is being notified can tear the throttle so that the
  lift is not told (`FingersAreShown` is therefore about fingers that touch).
- The statistics record a failed read as a frame without fingers, so that a gap
  between frames which spans a failed read is not measured.
- `reset` ignores a failed delete and answers OK; the old values return at the
  next start. A failed save of a scale is not repeated until the next change.
  Two steps of a scale from two threads may count as one (`Step`, `Store`).
- The idle time of the summary covers the gaps of all gestures and not
  `1f_release_grace_ms`, which may be up to 500 ms while the idle time is 200 ms
  (1265, `drivers/input/iqs9151_params.h:92`): with such settings a summary goes
  out while a drag in its grace still holds the button. The default grace is 60.
- Beyond any bound of the runs: `frame_count` wraps after 2^32 frames, the
  report counters at 16 bits, and the product of an inertia step overflows only
  above some 8000 counts in 10 ms.

## 6. Plan

All modules planned at the start are written, and every safety property of a
passing run is proved. What is left: thresholds that change at run time in
`Iqs9151Gesture`.

## 7. Not modelled

- The contents of the register tables (`iqs9151_init.h`): data. Only their
  places and lengths are in `Iqs9151Registers`.
- Text: the wording of answers, the lines of frames and summaries
  (`iqs9151_frame_codec.c` and the text half of `iqs9151_summary_codec.c`), the
  shell's commands, the names and defaults of the parameters.
- The EMA of inertia: computed by the code and read by nothing. The sums of an
  attempt summary: added up and printed.
- Tuning of the thresholds and gaps in the middle of a gesture or an attempt:
  in `Iqs9151Gesture` and `Iqs9151Summary` only the switches change.
- The build of the scaler without `CONFIG_ZMK_SETTINGS_SAVE_DEBOUNCE`.
- Kconfig, devicetree bindings, build files and the tests. The defaults of
  Kconfig are where the bounds come from.
- In `Iqs9151Gesture` a frame that fails to be read is a frame that does not
  happen; how that comes about is `Iqs9151Comms`.
