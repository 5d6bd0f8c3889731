-------------------------- MODULE Iqs9151Algorithms --------------------------
(***************************************************************************)
(* The arithmetic of drivers/input/iqs9151.c behind the movement output:   *)
(* gains by speed with a carried remainder, the decision between scroll    *)
(* and pinch, the ring of recent movement, and the inertia computed from   *)
(* it in fixed point.  Pure operators, each checked over bounded inputs;   *)
(* module Iqs9151Motion says when the driver calls them.                   *)
(***************************************************************************)
EXTENDS Integers, Sequences, FiniteSets, SequencesExt

CONSTANTS
  Span,      \* displacements -Span..Span are tried
  Size,      \* IQS9151_INERTIA_MOTION_HISTORY_SIZE
  Pushes,    \* longest run of frames tried
  Shift      \* 2 to the INERTIA_FP_SHIFT

ASSUME AlgorithmsAssumption ==
  /\ Span \in Nat /\ Pushes \in Nat
  /\ Size \in Nat \ {0} /\ Shift \in Nat \ {0, 1}

Near == (0 - Span)..Span

\* Division as in C: it truncates towards zero.
CDiv(a, b) == IF a >= 0 THEN a \div b ELSE 0 - ((0 - a) \div b)
Mag(x)     == IF x < 0 THEN 0 - x ELSE x
Larger(a, b) == IF a > b THEN a ELSE b

-----------------------------------------------------------------------------
(* Gains.                                                                  *)

\* Mutant: the interpolation starts at speed 0.
GainFromZero(slow, fast, slowGain, fastGain, speed) ==
  IF slow >= fast THEN IF speed <= slow THEN slowGain ELSE fastGain
  ELSE IF speed <= slow THEN slowGain
  ELSE IF speed >= fast THEN fastGain
  ELSE slowGain + CDiv((fastGain - slowGain) * speed, fast - slow)

\* iqs9151_speed_gain_x100
SpeedGain(slow, fast, slowGain, fastGain, speed) ==
  IF slow >= fast THEN IF speed <= slow THEN slowGain ELSE fastGain
  ELSE IF speed <= slow THEN slowGain
  ELSE IF speed >= fast THEN fastGain
  ELSE slowGain + CDiv((fastGain - slowGain) * (speed - slow), fast - slow)

\* Mutant: the remainder is that of a division rounding downwards.
CarriedFloor(rem, amount, unit) ==
  [out |-> CDiv(rem + amount, unit), rem |-> (rem + amount) % unit]

\* What is reported of an amount in 1/unit counts, and what is carried over:
\* iqs9151_cursor_apply_gain, and the scroll and pinch halves of two_finger_update.
Carried(rem, amount, unit) ==
  LET out == CDiv(rem + amount, unit)
  IN  [out |-> out, rem |-> rem + amount - out * unit]

\* A run of frames: what was reported and what is carried over after it.
CarriedRun(amounts, unit) ==
  FoldLeft(LAMBDA a, x : LET c == Carried(a.rem, x, unit)
                         IN  [out |-> a.out + c.out, rem |-> c.rem],
           [out |-> 0, rem |-> 0], amounts)

-----------------------------------------------------------------------------
(* Scroll or pinch.                                                        *)

\* Manhattan distance of two fingers.
TwoFingerDistance(a, b) == Mag(a.x - b.x) + Mag(a.y - b.y)

\* Mutant: a wide movement of the centroid no longer decides by itself.
DecideByRatio(p, dx, dy, dist) ==
  LET center == Larger(Mag(dx), Mag(dy))
      scroll == p.scroll /\ center >= p.startMove
      pinch  == p.pinch /\ Mag(dist) >= p.startDistance
      spread == Mag(dist) * 10 >= center * p.ratio
  IN  IF pinch /\ spread THEN "pinch"
      ELSE IF scroll /\ (~spread \/ ~p.pinch) THEN "scroll"
      ELSE IF pinch /\ (~p.scroll \/ Mag(dist) >= 2 * p.startDistance) THEN "pinch"
      ELSE "none"

\* iqs9151_two_finger_decide_mode
DecideMode(p, dx, dy, dist) ==
  LET center == Larger(Mag(dx), Mag(dy))
      scroll == p.scroll /\ center >= p.startMove
      pinch  == p.pinch /\ Mag(dist) >= p.startDistance
      spread == Mag(dist) * 10 >= center * p.ratio
  IN  IF pinch /\ spread THEN "pinch"
      ELSE IF scroll /\ (~spread \/ ~p.pinch \/ center >= 2 * p.startMove) THEN "scroll"
      ELSE IF pinch /\ (~p.scroll \/ Mag(dist) >= 2 * p.startDistance) THEN "pinch"
      ELSE "none"

-----------------------------------------------------------------------------
(* The ring of recent movement.                                            *)

EmptyHistory ==
  [samples |-> [i \in 0..Size - 1 |-> [ms |-> 0, x |-> 0, y |-> 0]],
   head |-> 0, count |-> 0]

\* Mutant: a frame without movement takes a place of the ring.
PushStill(h, s) ==
  [samples |-> [h.samples EXCEPT ![h.head] = s],
   head |-> (h.head + 1) % Size,
   count |-> IF h.count < Size THEN h.count + 1 ELSE Size]

\* iqs9151_motion_history_push
Push(h, s) ==
  IF s.x = 0 /\ s.y = 0 THEN h
  ELSE [samples |-> [h.samples EXCEPT ![h.head] = s],
        head |-> (h.head + 1) % Size,
        count |-> IF h.count < Size THEN h.count + 1 ELSE Size]

Pushed(run) == FoldLeft(Push, EmptyHistory, run)

\* The sample i places before the newest.
At(h, i) == h.samples[(h.head + Size - 1 - i) % Size]

\* The loop at the head of iqs9151_inertia_seed_from_history: newest first, up
\* to the first sample outside the window.
Recent(h, now, window) ==
  LET Found == {i \in 0..h.count - 1 : \A j \in 0..i : now - At(h, j).ms <= window}
  IN  [i \in 1..Cardinality(Found) |-> At(h, i - 1)]

Total(xs) == FoldLeft(LAMBDA a, x : a + x, 0, xs)

-----------------------------------------------------------------------------
(* Inertia.                                                                *)

NoSeed == [ok |-> FALSE, vx |-> 0, vy |-> 0]

\* Mutant: movement of any direction counts.
ConsistentAny(recent, tx, ty) == Len(recent)

\* The samples that move along the dominant axis in its direction.
Consistent(recent, tx, ty) ==
  Cardinality({i \in DOMAIN recent :
                 IF Mag(tx) >= Mag(ty) THEN recent[i].x * tx > 0
                 ELSE recent[i].y * ty > 0})

\* iqs9151_inertia_seed_from_history
Seed(h, now, p) ==
  LET recent == Recent(h, now, p.window)
      tx     == Total([i \in DOMAIN recent |-> recent[i].x])
      ty     == Total([i \in DOMAIN recent |-> recent[i].y])
      span   == Larger(recent[1].ms - recent[Len(recent)].ms, p.interval)
      V(t)   == CDiv(t * p.interval * Shift, span)
  IN  IF /\ Len(recent) >= p.minSamples
         /\ now - recent[1].ms <= p.staleGap
         /\ tx # 0 \/ ty # 0
         /\ Consistent(recent, tx, ty) >= p.minSamples
         /\ ((Mag(tx) + Mag(ty)) * p.interval) \div span >= p.minSpeed
      THEN [ok |-> TRUE, vx |-> V(tx), vy |-> V(ty)]
      ELSE NoSeed

\* iqs9151_inertia_start: an axis that is too slow does not glide.
StartAxis(v, threshold) == IF Mag(v) >= threshold * Shift THEN v ELSE 0
StartGlide(vx, vy, threshold) ==
  LET x == StartAxis(vx, threshold)
      y == StartAxis(vy, threshold)
  IN  [vx |-> x, vy |-> y, ax |-> 0, ay |-> 0, elapsed |-> 0,
       active |-> x # 0 \/ y # 0, outX |-> 0, outY |-> 0]

\* One interval of the loop of iqs9151_inertia_step.
Advance(g, p) ==
  [g EXCEPT !.ax = @ + g.vx, !.ay = @ + g.vy,
            !.vx = CDiv(@ * p.decay, p.den), !.vy = CDiv(@ * p.decay, p.den)]

\* The loop itself, for n intervals.
Advanced(g, p, n) == FoldLeft(LAMBDA a, i : Advance(a, p), g, [i \in 1..n |-> i])

\* Mutants: the fraction that was not reported is dropped; a late work counts
\* a single interval against the duration.
FractionDropped(a) == 0
ElapsedOnce(g, p, n) == g.elapsed + p.interval

\* What >>, which rounds downwards, leaves of an accumulator; elapsed_ms.
Fraction(a)      == a % Shift
Elapsed(g, p, n) == g.elapsed + n * p.interval

\* iqs9151_inertia_step, for a work that runs n intervals after the last one.
\* outX and outY count all that has been reported.
Step(g, p, n) ==
  IF ~g.active THEN g
  ELSE LET m == Advanced(g, p, n)
           slow(v) == Mag(v) < p.minVelocity * Shift
       IN  [m EXCEPT !.outX = @ + m.ax \div Shift, !.outY = @ + m.ay \div Shift,
                     !.ax = Fraction(@), !.ay = Fraction(@),
                     !.elapsed = Elapsed(g, p, n),
                     !.active = ~(\/ Elapsed(g, p, n) >= p.maxDuration
                                  \/ slow(m.vx) /\ slow(m.vy))]

Steps(g, p, n) == FoldLeft(LAMBDA a, i : Step(a, p, 1), g, [i \in 1..n |-> i])

-----------------------------------------------------------------------------
(* Properties.                                                             *)

\* The gain never leaves the range of the two configured gains, and faster
\* movement is never geared lower than slower movement when the fast gain is
\* the higher one, whatever the order of the two speeds (gesture_spec.md, 4.1).
GainBetween ==
  \A slow, fast \in 0..Span, g, h \in {0, 7, 20}, speed \in 0..2 * Span :
    LET G(v) == SpeedGain(slow, fast, g, h, v)
    IN  /\ G(speed) \in (IF g <= h THEN g..h ELSE h..g)
        /\ g <= h => G(speed) <= G(speed + 1)

\* No movement is lost or invented by rounding: over any run of frames the
\* counts reported and the remainder carried add up to what was moved, and the
\* remainder stays below one count, so that a finger that returns to where it
\* was returns the pointer too.
GainConserves ==
  LET unit == 5
  IN  \A run \in BoundedSeq({-7, -5, -2, 0, 3, 6, 9}, Pushes) :
        LET r   == CarriedRun(run, unit)
            sum == FoldLeft(LAMBDA a, x : a + x, 0, run)
        IN  /\ r.out * unit + r.rem = sum
            /\ Mag(r.rem) < unit
            /\ sum = 0 => r.out = 0

ModeParams ==
  [scroll : BOOLEAN, pinch : BOOLEAN, startMove : {1, 2}, startDistance : {1, 3},
   ratio : {5, 15, 50}]

\* Two fingers are never stuck between scroll and pinch: an enabled mode that is
\* not chosen at twice its threshold has lost to the other one, which is enabled
\* and past its own threshold too.
NoDeadZone ==
  \A p \in ModeParams, dx, dy, dist \in Near :
    LET m      == DecideMode(p, dx, dy, dist)
        center == Larger(Mag(dx), Mag(dy))
    IN  /\ (p.scroll /\ center >= 2 * p.startMove) \/
           (p.pinch /\ Mag(dist) >= 2 * p.startDistance) => m # "none"
        /\ m = "scroll" => p.scroll /\ center >= p.startMove
        /\ m = "pinch" => p.pinch /\ Mag(dist) >= p.startDistance

\* Frames that follow one another after 1, 3 or 5 ms, moving or not.
Runs ==
  {[i \in DOMAIN r |-> [ms |-> 3 * i - r[i][1], x |-> r[i][2], y |-> 0]] :
   r \in BoundedSeq({0, 2} \X {-2, 0, 3}, Pushes)}

\* The frames of a run that moved, and how many moved after one of them.
Moved(run)   == {i \in DOMAIN run : run[i].x # 0 \/ run[i].y # 0}
Rank(run, i) == Cardinality({j \in Moved(run) : j > i})

\* The movements of the window, as far as a ring of Size can hold them.
Kept(run, now, window) ==
  {i \in Moved(run) : Rank(run, i) < Size /\ now - run[i].ms <= window}

\* The ring holds what it claims to: the loop finds the newest Size movements of
\* the window, newest first, wherever the ring has wrapped around.
RingKeepsNewest ==
  \A run \in Runs, window \in {1, 4} :
    LET now    == IF run = <<>> THEN 0 ELSE Last(run).ms
        recent == Recent(Pushed(run), now, window)
        kept   == Kept(run, now, window)
    IN  /\ Len(recent) = Cardinality(kept)
        /\ \A i \in kept : recent[Rank(run, i) + 1] = run[i]

SeedParams == [window |-> 6, staleGap |-> 2, minSamples |-> 2, minSpeed |-> 1,
               interval |-> 2]

\* A flick glides on the way it went: its direction is that of at least
\* min_samples of the movements, one of them not older than the stale gap, and
\* it is no faster than the whole of the recent movement in one interval.
SeedFollowsFlick ==
  \A run \in Runs, rest \in 0..3 :
    LET now  == rest + (IF run = <<>> THEN 0 ELSE Last(run).ms)
        seed == Seed(Pushed(run), now, SeedParams)
        kept == Kept(run, now, SeedParams.window)
        sum  == Total([i \in DOMAIN run |-> Mag(run[i].x)])
    IN  seed.ok =>
          /\ Cardinality({i \in kept : run[i].x * seed.vx > 0}) >= SeedParams.minSamples
          /\ \E i \in kept : now - run[i].ms <= SeedParams.staleGap
          /\ Mag(seed.vx) <= sum * Shift

GlideParams == [interval |-> 1, maxDuration |-> 6, decay |-> 7, den |-> 10,
                minVelocity |-> 1]

Starts == {g \in {StartGlide(vx, vy, 1) : vx, vy \in {-31, -12, -8, 0, 9, 20}} : g.active}

\* The speed before each interval, and the distance that speeds add up to.
Speeds(v, p, n) ==
  LET V[k \in 0..n] == IF k = 0 THEN v ELSE CDiv(V[k - 1] * p.decay, p.den) IN V
Distance(V, n) == Total([k \in 1..n |-> V[k - 1]])

\* Fixed point loses nothing: after any number of steps the counts reported and
\* the fraction kept make up the distance the speeds add up to, and the fraction
\* stays below one count.
GlideConserves ==
  \A g \in Starts, n \in 0..GlideParams.maxDuration :
    LET end == Steps(g, GlideParams, n)
    IN  /\ end.outX * Shift + end.ax
             = Distance(Speeds(g.vx, GlideParams, n), end.elapsed)
        /\ end.ax \in 0..Shift - 1
        /\ Mag(end.vx) <= Mag(g.vx) /\ end.vx * g.vx >= 0

\* A work that comes late makes up for every interval it missed: it leaves the
\* glide where the same number of punctual works would have left it.
LateStepCatchesUp ==
  \A g \in Starts, n, k \in 1..3 :
    LET from == Steps(g, GlideParams, k)
    IN  Steps(from, GlideParams, n - 1).active =>
          Step(from, GlideParams, n) = Steps(from, GlideParams, n)
=============================================================================
