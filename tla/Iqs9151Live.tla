----------------------------- MODULE Iqs9151Live -----------------------------
(***************************************************************************)
(* The live view of drivers/input/iqs9151.c: after each frame              *)
(* iqs9151_live_notify tells a callback of it, unless the frame tells      *)
(* nothing new and comes too soon after the last one.  What the callback   *)
(* was told last is remembered in iqs9151_live_throttle.                   *)
(*                                                                         *)
(* The queue's thread runs iqs9151_live_notify; another thread runs        *)
(* iqs9151_dev_live_enable, and clears that memory byte by byte, with no   *)
(* lock.  The queue is cut between its decision and its stores, the other  *)
(* thread after every store.                                               *)
(***************************************************************************)
EXTENDS Integers

CONSTANTS
  Counts,   \* finger counts
  Buttons,  \* values of hold_button
  Modes,    \* values of two_finger.mode
  Rates,    \* values of hz given to tp live on
  Period,   \* for each of them, 1000 / hz
  LongAgo   \* ages are not told apart from here on

ASSUME LiveAssumption ==
  /\ Counts \subseteq Nat /\ 0 \in Counts
  /\ 0 \in Buttons /\ 0 \in Modes
  /\ LongAgo \in Nat /\ Period \in [Rates -> 1..LongAgo]

VARIABLES
  on,       \* iqs9151_live_enabled
  hz,       \* iqs9151_live_hz
  thr,      \* iqs9151_live_throttle; age stands for now - last_ms
  cmd,      \* where iqs9151_dev_live_enable is
  arg,      \* the hz it was given
  todo,     \* the fields it has still to clear
  notify,   \* where iqs9151_live_notify is
  last,     \* the last frame handled
  shown,    \* the frame the callback was told of last
  since,    \* the time since it was told
  seen,     \* history: the view was on when the last frame was handled
  disturbed \* history: tp live has run since the callback was told of a frame

vars == <<on, hz, thr, cmd, arg, todo, notify, last, shown, since, seen, disturbed>>

Command == <<on, hz, cmd, arg, todo>>
View    == <<shown, since, seen>>

Infos == [n : Counts, hold : Buttons, mode : Modes]

Nothing == [n |-> 0, hold |-> 0, mode |-> 0]

Fields == {"has", "age", "n", "hold", "mode"}

Throttle == [has : BOOLEAN, age : 0..LongAgo, n : Counts, hold : Buttons, mode : Modes]

Cleared == [has |-> FALSE, age |-> LongAgo, n |-> 0, hold |-> 0, mode |-> 0]

-----------------------------------------------------------------------------
(* iqs9151_dev_live_enable.                                                *)

EnableLive(want, rate) ==
  /\ cmd = "idle" /\ cmd' = IF want THEN "rate" ELSE "clear"
  /\ on' = want
  /\ arg' = rate /\ todo' = Fields
  /\ disturbed' = TRUE
  /\ UNCHANGED <<hz, thr, notify, last, View>>

StoreRate ==
  /\ cmd = "rate" /\ cmd' = "clear"
  /\ hz' = arg
  /\ UNCHANGED <<on, thr, arg, todo, notify, last, View, disturbed>>

\* memset, in whatever order.
ClearField(f) ==
  /\ cmd = "clear" /\ f \in todo
  /\ thr' = [thr EXCEPT ![f] = Cleared[f]]
  /\ todo' = todo \ {f}
  /\ cmd' = IF todo = {f} THEN "idle" ELSE "clear"
  /\ disturbed' = TRUE
  /\ UNCHANGED <<on, hz, arg, notify, last, View>>

-----------------------------------------------------------------------------
(* iqs9151_live_notify.                                                    *)

\* Mutants: every frame waits for its turn; a lift waits for its turn.
TellsByRate(i) == ~thr.has \/ thr.age >= Period[hz]
TellsThrottled(i) ==
  \/ ~thr.has
  \/ i.n # 0 /\ <<i.n, i.hold, i.mode>> # <<thr.n, thr.hold, thr.mode>>
  \/ thr.age >= Period[hz]

\* should_call
Tells(i) ==
  IF i.n = 0 THEN ~thr.has \/ thr.n # 0
  ELSE \/ ~thr.has
       \/ <<i.n, i.hold, i.mode>> # <<thr.n, thr.hold, thr.mode>>
       \/ thr.age >= Period[hz]

\* A frame has been handled; it is this many fingers, this button, this mode.
Decide(i) ==
  /\ notify = "idle"
  /\ last' = i /\ seen' = on
  /\ notify' = IF on /\ Tells(i) THEN "tell" ELSE "idle"
  /\ UNCHANGED <<Command, thr, shown, since, disturbed>>

\* A frame while the live view is off is not remembered.
Tell ==
  /\ notify = "tell" /\ notify' = "idle"
  /\ thr' = [has |-> TRUE, age |-> 0, n |-> last.n, hold |-> last.hold,
             mode |-> last.mode]
  /\ shown' = last /\ since' = 0
  /\ disturbed' = (cmd # "idle")
  /\ UNCHANGED <<Command, last, seen>>

Tick ==
  /\ notify = "idle"
  /\ thr' = [thr EXCEPT !.age = IF @ < LongAgo THEN @ + 1 ELSE @]
  /\ since' = IF since < LongAgo THEN since + 1 ELSE since
  /\ UNCHANGED <<Command, notify, last, shown, seen, disturbed>>

-----------------------------------------------------------------------------
Init ==
  /\ on = FALSE /\ hz \in Rates /\ arg = hz
  /\ thr = Cleared
  /\ cmd = "idle" /\ todo = {} /\ notify = "idle"
  /\ last = Nothing /\ shown = Nothing /\ since = LongAgo
  /\ seen = FALSE /\ disturbed = FALSE

Next ==
  \/ \E want \in BOOLEAN, rate \in Rates : EnableLive(want, rate)
  \/ StoreRate
  \/ \E f \in Fields : ClearField(f)
  \/ \E i \in Infos : Decide(i)
  \/ Tell
  \/ Tick

Spec == Init /\ [][Next]_vars

-----------------------------------------------------------------------------
\* Every variable keeps the values its C counterpart can hold.
LiveTypeOK ==
  /\ on \in BOOLEAN /\ hz \in Rates /\ arg \in Rates /\ thr \in Throttle
  /\ cmd \in {"idle", "rate", "clear"} /\ todo \subseteq Fields
  /\ notify \in {"idle", "tell"}
  /\ last \in Infos /\ shown \in Infos /\ since \in 0..LongAgo
  /\ seen \in BOOLEAN /\ disturbed \in BOOLEAN

\* Whatever another thread does to the throttle in between, once a frame with
\* fingers has been handled the view shows that many: a torn clear can make the
\* queue tell too much, never too little of them.
FingersAreShown == seen /\ notify = "idle" /\ last.n # 0 => shown.n = last.n

\* Unless tp live has interfered, the view shows every change of the fingers,
\* the lift included, and while they touch every change of the button and mode.
ChangesAreShown ==
  seen /\ notify = "idle" /\ ~disturbed =>
    shown.n = last.n /\ (last.n # 0 => shown = last)

\* The view can be trusted, with and without tp live in the way.
ViewIsTrue == FingersAreShown /\ ChangesAreShown

\* A frame that tells nothing new keeps to the rate that was asked for.
RateIsKept ==
  [][notify = "tell" /\ notify' = "idle" /\ last = shown /\ ~disturbed
       => since >= Period[hz]]_vars
=============================================================================
