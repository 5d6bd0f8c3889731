------------------------- MODULE Iqs9151MotionProofs -------------------------
(***************************************************************************)
(* Proofs about Iqs9151Motion: for every report interval, every duration   *)
(* and lateness of the works, held-back movement is delivered in time,     *)
(* inertia and movement never add up, and the tail of a two-finger gesture *)
(* stays quiet.  And about the arithmetic of Iqs9151Algorithms, for every  *)
(* speed, gain, threshold and run of frames: gains stay in their range,    *)
(* nothing is lost to rounding, two fingers always scroll or pinch, the    *)
(* ring holds the newest movement wherever it has wrapped around, a glide  *)
(* goes on the way of the flick, and neither fixed point nor a late work   *)
(* loses any of its distance.                                              *)
(***************************************************************************)
EXTENDS MCIqs9151Motion, BasicProofs, FiniteSetTheorems, FunctionTheorems, TLAPS

\* What an accumulator is at any time.  The sum of the time since the last
\* report and the time to the flush grows in no step, which is why rescheduling
\* the flush cannot put it off for ever.
AccOK(a) ==
  /\ a \in Acc
  /\ a.valid <=> Armed(a.flush)
  /\ a.valid => a.since + a.flush < 2 * MaxInterval

\* What the inertia of a channel is at any time.
GlideOK(g) == g \in Glide /\ (g.left > 0 <=> Armed(g.work))

\* Cursor movement is held back only for one finger.
HeldByOne == acc["cursor"].valid => prev = 1

\* A two-finger mode lasts as long as two fingers do.
ModeOfTwo == mode # "none" => prev = 2

\* The finger of a drag has stopped any inertia of the cursor.
DragIsStill == drag = 1 /\ prev = 1 => glide["cursor"].left = 0

IInv ==
  /\ MotionTypeOK
  /\ \A c \in Channels : AccOK(acc[c]) /\ GlideOK(glide[c])
  /\ GlideOrMovement /\ QuietTail /\ NoScrollGlideUnderFingers
  /\ HeldByOne /\ ModeOfTwo /\ DragIsStill

-----------------------------------------------------------------------------
(* The operators.                                                          *)

LEMMA Numbers ==
  /\ Off \in Int /\ Off < 0 - Late /\ Late \in Nat
  /\ MaxInterval \in Nat
  /\ HeldMax \in Nat /\ HeldMax = 2 * MaxInterval + Late
  /\ GlideEvery \in Nat /\ GlideEvery > 0
  /\ GlideMax \in Nat /\ GlideMax > 0
  /\ Stale \in Nat /\ NoSample \in Nat /\ NoSample > Stale
  BY MotionAssumption DEF MotionAssumption, Off, HeldMax, NoSample

LEMMA AccFields ==
  ASSUME NEW v \in BOOLEAN, NEW s \in 0..HeldMax + 1, NEW f \in Off..MaxInterval
  PROVE  [valid |-> v, since |-> s, flush |-> f] \in Acc
  BY DEF Acc

LEMMA EmptyAccOK == AccOK(EmptyAcc) /\ ~EmptyAcc.valid
<1>1. HeldMax + 1 \in 0..HeldMax + 1 /\ Off \in Off..MaxInterval
  BY Numbers
<1>2. EmptyAcc \in Acc
  BY <1>1, AccFields DEF EmptyAcc
<1>3. QED
  BY <1>2 DEF AccOK, EmptyAcc, Armed

LEMMA FlushedOK ==
  ASSUME NEW a, AccOK(a)
  PROVE  AccOK(Flushed(a)) /\ ~Flushed(a).valid
<1>1. 0 \in 0..HeldMax + 1 /\ Off \in Off..MaxInterval
  BY Numbers
<1>2. [valid |-> FALSE, since |-> 0, flush |-> Off] \in Acc
  BY <1>1, AccFields
<1>3. QED
  BY <1>2 DEF AccOK, Flushed, Armed

LEMMA AddedOK ==
  ASSUME NEW a, AccOK(a), NEW i \in Intervals
  PROVE  AccOK(Added(a, i))
<1>0. i \in 0..MaxInterval /\ MaxInterval \in Nat
  BY Numbers, MotionAssumption DEF MotionAssumption
<1>1. a \in [valid : BOOLEAN, since : 0..HeldMax + 1, flush : Off..MaxInterval]
  BY DEF AccOK, Acc
<1>2. CASE i = 0 \/ a.since >= i
  <2>1. Added(a, i) = [valid |-> FALSE, since |-> 0, flush |-> Off]
    BY <1>1, <1>2 DEF Added, Flushed
  <2>2. 0 \in 0..HeldMax + 1 /\ Off \in Off..MaxInterval
    BY Numbers
  <2>3. Added(a, i) \in Acc
    BY <2>1, <2>2, AccFields
  <2>4. QED
    BY <2>1, <2>3 DEF AccOK, Armed
<1>3. CASE ~(i = 0 \/ a.since >= i)
  <2> DEFINE f == IF Due(a.flush) THEN a.flush ELSE i
  <2>1. Added(a, i) = [valid |-> TRUE, since |-> a.since, flush |-> f]
    BY <1>1, <1>3 DEF Added
  <2>2. f \in Off..MaxInterval /\ Armed(f)
    BY <1>0, <1>1, Numbers DEF Due, Armed
  <2>3. a.since + f < 2 * MaxInterval
    <3>1. CASE Due(a.flush)
      BY <3>1, <1>1 DEF AccOK, Due
    <3>2. CASE ~Due(a.flush)
      BY <3>2, <1>0, <1>1, <1>3, Numbers
    <3>3. QED
      BY <3>1, <3>2
  <2> HIDE DEF f
  <2>4. Added(a, i) \in Acc
    BY <1>1, <2>1, <2>2, AccFields
  <2>5. QED
    BY <2>1, <2>2, <2>3, <2>4 DEF AccOK
<1>4. QED
  BY <1>2, <1>3

LEMMA NoGlideOK == GlideOK(NoGlide) /\ NoGlide.left = 0
<1>1. 0 \in 0..GlideMax /\ Off \in Off..GlideEvery
  BY Numbers
<1>2. QED
  BY <1>1 DEF GlideOK, Glide, NoGlide, Armed

LEMMA StartedOK ==
  ASSUME NEW g, GlideOK(g)
  PROVE  GlideOK(Started(g))
<1>1. g \in [left : 0..GlideMax, work : Off..GlideEvery]
  BY DEF GlideOK, Glide
<1> DEFINE w == IF Armed(g.work) THEN g.work ELSE GlideEvery
<1>2. w \in Off..GlideEvery /\ Armed(w)
  BY <1>1, Numbers DEF Armed
<1>3. GlideMax \in 0..GlideMax /\ GlideMax > 0
  BY Numbers
<1>4. Started(g) = [left |-> GlideMax, work |-> w]
  BY DEF Started
<1> HIDE DEF w
<1>5. QED
  BY <1>2, <1>3, <1>4 DEF GlideOK, Glide

\* Without a recent sample nothing is seeded.
LEMMA SeedsNeedSample == Seeds(NoSample) = {FALSE}
<1>1. ~(NoSample <= Stale)
  BY Numbers
<1>2. QED
  BY <1>1, Zenon DEF Seeds

-----------------------------------------------------------------------------
(* The parts of a frame.                                                   *)

\* A function of the channels, given by its two values.
LEMMA Pair ==
  ASSUME NEW S, NEW x \in S, NEW y \in S
  PROVE  /\ [cursor |-> x, scroll |-> y] \in [Channels -> S]
         /\ [cursor |-> x, scroll |-> y]["cursor"] = x
         /\ [cursor |-> x, scroll |-> y]["scroll"] = y
  BY DEF Channels

LEMMA StillOK ==
  GlideOK(Still.g) /\ Still.g.left = 0 /\ Still.age = NoSample /\ Still.age \in 0..NoSample
<1>1. Still.g = NoGlide /\ Still.age = NoSample
  BY DEF Still
<1>2. NoSample \in 0..NoSample
  BY Numbers
<1>3. QED
  BY <1>1, <1>2, NoGlideOK

LEMMA AtReportOK ==
  ASSUME IInv, NEW c \in Channels, NEW n, NEW d, NEW th \in BOOLEAN
  PROVE  LET r == AtReport(c, n, d, th)
         IN  /\ GlideOK(r.g) /\ r.age \in 0..NoSample
             /\ r.g.left > 0 => r.g = glide[c]
             /\ n = 3 \/ th \/ (c = "cursor" /\ d = 1) => r = Still
<1>1. CASE n = 3 \/ th \/ (c = "cursor" /\ d = 1)
  <2>1. AtReport(c, n, d, th) = Still
    BY <1>1 DEF AtReport
  <2>2. Still.g.left = 0 /\ GlideOK(Still.g) /\ Still.age \in 0..NoSample
    BY StillOK
  <2>3. QED
    BY <2>1, <2>2
<1>2. CASE ~(n = 3 \/ th \/ (c = "cursor" /\ d = 1))
  <2>1. AtReport(c, n, d, th) = [g |-> glide[c], age |-> sample[c]]
    BY <1>2 DEF AtReport
  <2>2. GlideOK(glide[c]) /\ sample[c] \in 0..NoSample
    BY DEF IInv, MotionTypeOK
  <2>3. QED
    BY <1>2, <2>1, <2>2
<1>3. QED
  BY <1>1, <1>2

LEMMA ReportedOK ==
  ASSUME IInv, NEW n, NEW m, NEW key \in BOOLEAN,
         NEW cursor \in BOOLEAN, NEW scroll \in BOOLEAN, scroll => m = "scroll"
  PROVE  LET r == Reported(n, m, key, cursor, scroll)
         IN  /\ r \in [Channels -> Acc]
             /\ AccOK(r["cursor"]) /\ AccOK(r["scroll"])
             /\ r["cursor"].valid => cursor \/ (acc["cursor"].valid /\ n = 1)
             /\ r["scroll"].valid => m = "scroll"
<1> DEFINE cur == IF key \/ n # 1 THEN Flushed(acc["cursor"]) ELSE acc["cursor"]
           scr == IF m # "scroll" THEN Flushed(acc["scroll"]) ELSE acc["scroll"]
           x   == IF cursor THEN Added(cur, interval["cursor"]) ELSE cur
           y   == IF scroll THEN Added(scr, interval["scroll"]) ELSE scr
<1>1. /\ AccOK(acc["cursor"]) /\ AccOK(acc["scroll"])
      /\ interval["cursor"] \in Intervals /\ interval["scroll"] \in Intervals
  BY DEF IInv, MotionTypeOK, Channels
<1>2. AccOK(cur) /\ (cur.valid => acc["cursor"].valid /\ n = 1)
  BY <1>1, FlushedOK
<1>3. AccOK(scr) /\ (scr.valid => m = "scroll")
  BY <1>1, FlushedOK
<1>4. Reported(n, m, key, cursor, scroll) = [cursor |-> x, scroll |-> y]
  BY DEF Reported
<1> HIDE DEF cur, scr
<1>5. AccOK(x) /\ (x.valid => cursor \/ (acc["cursor"].valid /\ n = 1))
  BY <1>1, <1>2, AddedOK
<1>6. AccOK(y) /\ (y.valid => m = "scroll")
  BY <1>1, <1>3, AddedOK
<1> HIDE DEF x, y
<1>7. x \in Acc /\ y \in Acc
  BY <1>5, <1>6 DEF AccOK
<1>8. QED
  BY <1>4, <1>5, <1>6, <1>7, Pair

LEMMA CursorInertiaOK ==
  ASSUME NEW w, GlideOK(w.g), w.age \in 0..NoSample, NEW n, NEW move,
         NEW quiet \in BOOLEAN, NEW held \in BOOLEAN, NEW seed \in BOOLEAN
  PROVE  LET r == CursorInertia(w, n, move, quiet, held, seed)
         IN  /\ GlideOK(r.g) /\ r.age \in 0..NoSample
             /\ quiet => r = Still
             /\ r.g.left > 0 =>
                  \/ n = 0 /\ prev = 1 /\ ~held /\ seed
                  \/ r.g = w.g /\ ~(n = 1 /\ move # "none")
<1> DEFINE r   == CursorInertia(w, n, move, quiet, held, seed)
           age == IF prev = 0 /\ n = 1 THEN NoSample ELSE w.age
<1>0. /\ age \in 0..NoSample /\ 0 \in 0..NoSample /\ NoSample \in 0..NoSample
      /\ GlideOK(NoGlide) /\ NoGlide.left = 0 /\ GlideOK(Started(w.g))
  BY Numbers, NoGlideOK, StartedOK
<1>1. CASE quiet
  <2>1. r = Still
    BY <1>1 DEF CursorInertia
  <2>2. GlideOK(Still.g) /\ ~(Still.g.left > 0) /\ Still.age \in 0..NoSample
    BY StillOK
  <2>3. QED
    BY <1>1, <2>1, <2>2
<1>2. CASE ~quiet /\ n = 0 /\ prev = 1 /\ ~held
  <2>1. r = [g |-> IF seed THEN Started(w.g) ELSE w.g, age |-> NoSample]
    BY <1>2 DEF CursorInertia
  <2>2. QED
    BY <1>0, <1>2, <2>1
<1>3. CASE ~quiet /\ ~(n = 0 /\ prev = 1 /\ ~held) /\ n = 1 /\ move # "none"
  <2>1. r = [g |-> NoGlide, age |-> IF move = "far" THEN 0 ELSE age]
    BY <1>3 DEF CursorInertia
  <2>2. QED
    BY <1>0, <1>3, <2>1
<1>4. CASE ~quiet /\ ~(n = 0 /\ prev = 1 /\ ~held) /\ ~(n = 1 /\ move # "none")
  <2>1. r = [g |-> w.g, age |-> age]
    BY <1>4 DEF CursorInertia
  <2>2. QED
    BY <1>0, <1>4, <2>1
<1>5. QED
  BY <1>1, <1>2, <1>3, <1>4

LEMMA ScrollInertiaOK ==
  ASSUME NEW w, GlideOK(w.g), w.age \in 0..NoSample, NEW n, NEW m,
         NEW scroll \in BOOLEAN, NEW seed \in BOOLEAN
  PROVE  LET r == ScrollInertia(w, n, m, scroll, seed)
         IN  /\ GlideOK(r.g) /\ r.age \in 0..NoSample
             /\ r.g.left > 0 =>
                  \/ mode = "scroll" /\ m = "none" /\ seed
                  \/ w.g.left > 0 /\ n # 2
<1> DEFINE r == ScrollInertia(w, n, m, scroll, seed)
           g == IF (mode = "none" /\ m = "scroll") \/ n = 2 \/ (prev = 0 /\ n = 1)
                THEN NoGlide ELSE w.g
<1>0. 0 \in 0..NoSample /\ NoSample \in 0..NoSample
  BY Numbers
<1>1. GlideOK(g) /\ (g.left > 0 => w.g.left > 0 /\ n # 2)
  BY NoGlideOK, Numbers
<1> DEFINE h == IF seed THEN Started(g) ELSE g
<1>2. CASE m = "pinch"
  <2>1. r = Still
    BY <1>2 DEF ScrollInertia
  <2>2. GlideOK(Still.g) /\ ~(Still.g.left > 0) /\ Still.age \in 0..NoSample
    BY StillOK
  <2>3. QED
    BY <2>1, <2>2
<1>3. CASE m # "pinch" /\ mode = "scroll" /\ m = "none"
  <2>1. r = [g |-> h, age |-> NoSample]
    BY <1>3 DEF ScrollInertia
  <2> HIDE DEF g
  <2>2. GlideOK(h) /\ (h.left > 0 => seed \/ g.left > 0)
    BY <1>1, StartedOK
  <2>3. QED
    BY <1>0, <1>1, <1>3, <2>1, <2>2
<1>4. CASE m # "pinch" /\ ~(mode = "scroll" /\ m = "none")
  <2>1. r = [g |-> g, age |-> IF scroll THEN 0 ELSE w.age]
    BY <1>4 DEF ScrollInertia
  <2> HIDE DEF g
  <2>2. QED
    BY <1>0, <1>1, <2>1
<1>5. QED
  BY <1>2, <1>3, <1>4

\* One frame, taken apart: what it leaves in each accumulator and each inertia.
FrameParts(n, m, d, th, move, quiet, held) ==
  /\ prev' = n /\ mode' = m /\ drag' = d /\ three' = th
  /\ quiet = Suppresses(n, mode # "none" /\ m = "none")
  /\ held = ReleasedFromHold(n, d)
  /\ tail' = (quiet /\ n = 1)
  /\ \E key \in BOOLEAN :
       LET scroll == m = "scroll" /\ move # "none"
           cursor == n = 1 /\ move # "none" /\ ~quiet
           rep    == Reported(n, m, key, cursor, scroll)
       IN  /\ acc' = rep
           /\ out' = (IF key THEN {"key"} ELSE {})
                     \cup (IF (m = "pinch") # (mode = "pinch") THEN {"pinch"} ELSE {})
                     \cup Sent(acc["cursor"].valid \/ cursor, rep["cursor"], "cursor")
                     \cup Sent(acc["scroll"].valid \/ scroll, rep["scroll"], "scroll")
  /\ \E seedC \in Seeds(AtReport("cursor", n, d, th).age) :
     \E seedS \in Seeds(AtReport("scroll", n, d, th).age) :
       LET c == CursorInertia(AtReport("cursor", n, d, th), n, move, quiet, held, seedC)
           s == ScrollInertia(AtReport("scroll", n, d, th), n, m,
                              m = "scroll" /\ move # "none", seedS)
       IN  /\ glide'  = [cursor |-> c.g, scroll |-> s.g]
           /\ sample' = [cursor |-> c.age, scroll |-> s.age]

LEMMA FrameTakenApart ==
  ASSUME NEW n \in Counts, Frame(n)
  PROVE  \E m \in ModesAfter(n), d \in DragsAfter(n) : \E th \in ThreeAfter(n, d),
           move \in Moves(n, m) : \E quiet, held :
             /\ FrameParts(n, m, d, th, move, quiet, held)
             /\ (d = 2 => m = "none")
             /\ UNCHANGED interval
<1>1. PICK m \in ModesAfter(n), d \in DragsAfter(n), key \in BOOLEAN :
        \E th \in ThreeAfter(n, d), move \in Moves(n, m) :
        LET quiet  == Suppresses(n, mode # "none" /\ m = "none")
            scroll == m = "scroll" /\ move # "none"
            cursor == n = 1 /\ move # "none" /\ ~quiet
            rep    == Reported(n, m, key, cursor, scroll)
            cur    == AtReport("cursor", n, d, th)
            scr    == AtReport("scroll", n, d, th)
        IN
        /\ d = 2 => m = "none"
        /\ \E seedC \in Seeds(cur.age), seedS \in Seeds(scr.age) :
             LET c == CursorInertia(cur, n, move, quiet, ReleasedFromHold(n, d), seedC)
                 s == ScrollInertia(scr, n, m, scroll, seedS)
             IN  /\ glide'  = [cursor |-> c.g, scroll |-> s.g]
                 /\ sample' = [cursor |-> c.age, scroll |-> s.age]
        /\ prev' = n /\ mode' = m /\ drag' = d /\ three' = th
        /\ tail' = TailAfter(n, quiet)
        /\ acc' = rep
        /\ out' = (IF key THEN {"key"} ELSE {})
                  \cup (IF (m = "pinch") # (mode = "pinch") THEN {"pinch"} ELSE {})
                  \cup Sent(acc["cursor"].valid \/ cursor, rep["cursor"], "cursor")
                  \cup Sent(acc["scroll"].valid \/ scroll, rep["scroll"], "scroll")
        /\ UNCHANGED interval
  BY Zenon DEF Frame
<1>2. PICK th \in ThreeAfter(n, d), move \in Moves(n, m) :
        /\ FrameParts(n, m, d, th, move, Suppresses(n, mode # "none" /\ m = "none"),
                      ReleasedFromHold(n, d))
        /\ (d = 2 => m = "none")
        /\ UNCHANGED interval
  BY <1>1, Zenon DEF FrameParts, TailAfter
<1>3. QED
  BY <1>2, Zenon

\* What a frame leaves behind, as far as the properties are about it.
FrameEffect(n, m, d, th, move, quiet, held) ==
  /\ th \in BOOLEAN /\ quiet \in BOOLEAN
  /\ acc' \in [Channels -> Acc] /\ AccOK(acc'["cursor"]) /\ AccOK(acc'["scroll"])
  /\ acc'["cursor"].valid =>
       n = 1 /\ ((move # "none" /\ ~quiet) \/ acc["cursor"].valid)
  /\ acc'["scroll"].valid => m = "scroll"
  /\ GlideOK(glide'["cursor"]) /\ GlideOK(glide'["scroll"])
  /\ glide' \in [Channels -> Glide] /\ sample' \in [Channels -> 0..NoSample]
  /\ quiet => glide'["cursor"].left = 0 /\ sample'["cursor"] = NoSample
  /\ glide'["cursor"].left > 0 =>
       /\ d # 1
       /\ \/ n = 0 /\ prev = 1 /\ ~held
          \/ /\ glide["cursor"].left > 0 /\ glide'["cursor"] = glide["cursor"]
             /\ ~(n = 1 /\ move # "none")
  /\ glide'["scroll"].left > 0 =>
       /\ n # 3 /\ ~th
       /\ \/ mode = "scroll" /\ m = "none"
          \/ glide["scroll"].left > 0 /\ n # 2

LEMMA FrameFacts ==
  ASSUME IInv, NEW n, NEW m, NEW d, NEW th \in ThreeAfter(n, d), NEW move,
         NEW quiet, NEW held, FrameParts(n, m, d, th, move, quiet, held)
  PROVE  FrameEffect(n, m, d, th, move, quiet, held)
<1>0. th \in BOOLEAN /\ quiet \in BOOLEAN /\ held \in BOOLEAN
  BY DEF IInv, MotionTypeOK, ThreeAfter, FrameParts, Suppresses, ReleasedFromHold
<1> DEFINE scroll == m = "scroll" /\ move # "none"
           cursor == n = 1 /\ move # "none" /\ ~quiet
           cur    == AtReport("cursor", n, d, th)
           scr    == AtReport("scroll", n, d, th)
<1>1. PICK key \in BOOLEAN : acc' = Reported(n, m, key, cursor, scroll)
  BY Zenon DEF FrameParts
<1>2. /\ acc' \in [Channels -> Acc]
      /\ AccOK(acc'["cursor"]) /\ AccOK(acc'["scroll"])
      /\ acc'["cursor"].valid => cursor \/ (acc["cursor"].valid /\ n = 1)
      /\ acc'["scroll"].valid => m = "scroll"
  BY <1>0, <1>1, ReportedOK
<1>3. PICK seedC \in Seeds(cur.age), seedS \in Seeds(scr.age) :
        LET c == CursorInertia(cur, n, move, quiet, held, seedC)
            s == ScrollInertia(scr, n, m, scroll, seedS)
        IN  /\ glide'  = [cursor |-> c.g, scroll |-> s.g]
            /\ sample' = [cursor |-> c.age, scroll |-> s.age]
  BY Zenon DEF FrameParts
<1> DEFINE c == CursorInertia(cur, n, move, quiet, held, seedC)
           s == ScrollInertia(scr, n, m, scroll, seedS)
<1>4. seedC \in BOOLEAN /\ seedS \in BOOLEAN
  BY DEF Seeds
<1>5. /\ GlideOK(cur.g) /\ cur.age \in 0..NoSample
      /\ cur.g.left > 0 => cur.g = glide["cursor"]
      /\ d = 1 => cur = Still
  BY <1>0, AtReportOK DEF Channels
<1>6. /\ GlideOK(scr.g) /\ scr.age \in 0..NoSample
      /\ scr.g.left > 0 => scr.g = glide["scroll"]
      /\ n = 3 \/ th => scr = Still
  BY <1>0, AtReportOK DEF Channels
<1> HIDE DEF cur, scr
<1>7. /\ d = 1 => ~seedC /\ ~(cur.g.left > 0)
      /\ n = 3 \/ th => ~seedS /\ ~(scr.g.left > 0)
  <2>1. Still.age = NoSample /\ ~(Still.g.left > 0)
    BY StillOK
  <2>2. QED
    BY <1>3, <1>5, <1>6, <2>1, SeedsNeedSample
<1>8. /\ GlideOK(c.g) /\ c.age \in 0..NoSample
      /\ quiet => c = Still
      /\ c.g.left > 0 => \/ n = 0 /\ prev = 1 /\ ~held /\ seedC
                         \/ c.g = cur.g /\ ~(n = 1 /\ move # "none")
  BY <1>0, <1>4, <1>5, CursorInertiaOK
<1>9. /\ GlideOK(s.g) /\ s.age \in 0..NoSample
      /\ s.g.left > 0 => \/ mode = "scroll" /\ m = "none" /\ seedS
                         \/ scr.g.left > 0 /\ n # 2
  <2>1. scroll \in BOOLEAN
    OBVIOUS
  <2> HIDE DEF scroll
  <2>2. QED
    BY <1>4, <1>6, <2>1, ScrollInertiaOK
<1> HIDE DEF c, s
<1>10. /\ glide' \in [Channels -> Glide] /\ sample' \in [Channels -> 0..NoSample]
       /\ glide'["cursor"] = c.g /\ glide'["scroll"] = s.g
       /\ sample'["cursor"] = c.age
  <2>1. glide' = [cursor |-> c.g, scroll |-> s.g]
    BY <1>3 DEF c, s
  <2>2. sample' = [cursor |-> c.age, scroll |-> s.age]
    BY <1>3 DEF c, s
  <2>3. c.g \in Glide /\ s.g \in Glide
    BY <1>8, <1>9 DEF GlideOK
  <2>4. QED
    BY <1>8, <1>9, <2>1, <2>2, <2>3, Pair
<1>11. quiet => glide'["cursor"].left = 0 /\ sample'["cursor"] = NoSample
  BY <1>8, <1>10, StillOK
<1>12. QED
  BY <1>0, <1>2, <1>5, <1>6, <1>7, <1>8, <1>9, <1>10, <1>11 DEF FrameEffect

-----------------------------------------------------------------------------
(* Every step keeps the invariant.                                         *)

LEMMA FrameStep ==
  ASSUME IInv, NEW n \in Counts, Frame(n)
  PROVE  IInv'
<1>1. PICK m \in ModesAfter(n), d \in DragsAfter(n) :
        \E th \in ThreeAfter(n, d), move \in Moves(n, m) : \E quiet, held :
          /\ FrameParts(n, m, d, th, move, quiet, held)
          /\ d = 2 => m = "none"
          /\ UNCHANGED interval
  BY FrameTakenApart
<1>p. PICK th \in ThreeAfter(n, d), move \in Moves(n, m) : \E quiet, held :
        /\ FrameParts(n, m, d, th, move, quiet, held)
        /\ UNCHANGED interval
  BY <1>1
<1>2. PICK quiet, held :
        /\ FrameParts(n, m, d, th, move, quiet, held)
        /\ UNCHANGED interval
  BY <1>p
<1>3. FrameEffect(n, m, d, th, move, quiet, held)
  BY <1>2, FrameFacts
<1>4. /\ prev' = n /\ mode' = m /\ drag' = d /\ three' = th
      /\ quiet = Suppresses(n, mode # "none" /\ m = "none")
      /\ tail' = (quiet /\ n = 1) /\ interval' = interval
  BY <1>2 DEF FrameParts
<1>5. /\ m \in {"none", "scroll", "pinch"} /\ d \in 0..3
      /\ m # "none" => n = 2 /\ (mode = "none" \/ m = mode)
      /\ n = 2 /\ m = "none" => mode = "none"
  BY DEF IInv, MotionTypeOK, ModesAfter, DragsAfter
<1>6. /\ glide["cursor"].left \in Nat /\ glide["scroll"].left \in Nat
      /\ glide'["cursor"].left \in Nat /\ glide'["scroll"].left \in Nat
  <2>1. GlideOK(glide["cursor"]) /\ GlideOK(glide["scroll"])
    BY DEF IInv, Channels
  <2>2. \A g : GlideOK(g) => g.left \in Nat
    BY DEF GlideOK, Glide
  <2>3. QED
    BY <1>3, <2>1, <2>2 DEF FrameEffect
<1>7. MotionTypeOK'
  <2>1. out' \subseteq {"key", "pinch", "cursor", "scroll"}
    BY <1>2 DEF FrameParts, Sent
  <2>2. tail' \in BOOLEAN
    BY <1>3, <1>4 DEF FrameEffect
  <2>3. QED
    BY <1>3, <1>4, <1>5, <2>1, <2>2 DEF IInv, MotionTypeOK, FrameEffect
<1>8. (\A c \in Channels : AccOK(acc[c]) /\ GlideOK(glide[c]))'
  BY <1>3 DEF Channels, FrameEffect
<1>9. /\ ~(acc["cursor"].valid /\ glide["cursor"].left > 0)
      /\ ~(acc["scroll"].valid /\ glide["scroll"].left > 0)
  BY DEF IInv, GlideOrMovement, Channels
<1>10. GlideOrMovement'
  <2>1. ~(acc'["cursor"].valid /\ glide'["cursor"].left > 0)
    BY <1>3, <1>6, <1>9 DEF FrameEffect
  <2>2. ~(acc'["scroll"].valid /\ glide'["scroll"].left > 0)
    BY <1>3, <1>5 DEF FrameEffect
  <2>3. QED
    BY <2>1, <2>2 DEF GlideOrMovement, Channels
<1>11. quiet => ~acc["cursor"].valid
  <2>1. quiet => tail \/ prev = 2
    BY <1>4, Zenon DEF Suppresses
  <2>2. QED
    BY <2>1 DEF IInv, QuietTail, HeldByOne
<1>12. QuietTail'
  BY <1>3, <1>4, <1>11 DEF QuietTail, FrameEffect
<1>13. NoScrollGlideUnderFingers'
  BY <1>3, <1>4, <1>5, <1>6 DEF NoScrollGlideUnderFingers, FrameEffect
<1>14. HeldByOne' /\ ModeOfTwo'
  BY <1>3, <1>4, <1>5 DEF HeldByOne, ModeOfTwo, FrameEffect
<1>15. DragIsStill'
  BY <1>3, <1>4, <1>6 DEF DragIsStill, FrameEffect
<1>16. QED
  BY <1>7, <1>8, <1>10, <1>12, <1>13, <1>14, <1>15 DEF IInv

LEMMA ShowResetStep ==
  ASSUME IInv, ShowReset
  PROVE  IInv'
<1>1. /\ prev' = 0 /\ mode' = "none" /\ drag' = 0 /\ three' = FALSE /\ tail' = FALSE
      /\ acc' = [c \in Channels |-> EmptyAcc] /\ glide' = [c \in Channels |-> NoGlide]
      /\ sample' = [c \in Channels |-> NoSample] /\ interval' = interval
      /\ out' \subseteq {"key", "pinch", "cursor", "scroll"}
  BY DEF ShowReset, Sent
<1>2. /\ EmptyAcc \in Acc /\ NoGlide \in Glide /\ NoSample \in 0..NoSample
      /\ 0 \in 0..3
  BY EmptyAccOK, NoGlideOK, Numbers DEF AccOK, GlideOK
<1>3. MotionTypeOK'
  BY <1>1, <1>2 DEF IInv, MotionTypeOK
<1>4. \A c \in Channels : acc'[c] = EmptyAcc /\ glide'[c] = NoGlide
  BY <1>1
<1>5. (\A c \in Channels : AccOK(acc[c]) /\ GlideOK(glide[c]))'
  BY <1>4, EmptyAccOK, NoGlideOK
<1>6. GlideOrMovement' /\ HeldByOne'
  BY <1>4, EmptyAccOK DEF GlideOrMovement, HeldByOne, Channels
<1>7. QuietTail' /\ NoScrollGlideUnderFingers' /\ ModeOfTwo' /\ DragIsStill'
  BY <1>1 DEF QuietTail, NoScrollGlideUnderFingers, ModeOfTwo, DragIsStill
<1>8. QED
  BY <1>3, <1>5, <1>6, <1>7 DEF IInv

\* A step that changes one channel, and neither the fingers nor the gestures.
LEMMA ChannelStep ==
  ASSUME IInv, NEW c \in Channels, NEW a, NEW g, AccOK(a), GlideOK(g),
         a.valid => acc[c].valid, g.left > 0 => glide[c].left > 0,
         acc' = [acc EXCEPT ![c] = a], glide' = [glide EXCEPT ![c] = g],
         drag' = drag \/ (drag' = 0 /\ prev = 0),
         out' \subseteq {"key", "pinch", "cursor", "scroll"},
         UNCHANGED <<prev, mode, three, tail, sample, interval>>
  PROVE  IInv'
<1>1. /\ acc' \in [Channels -> Acc] /\ acc'[c] = a
      /\ glide' \in [Channels -> Glide] /\ glide'[c] = g
      /\ \A x \in Channels \ {c} : acc'[x] = acc[x] /\ glide'[x] = glide[x]
  BY DEF IInv, MotionTypeOK, AccOK, GlideOK
<1>2. drag' \in 0..3 /\ (drag' = 1 => drag = 1)
  BY DEF IInv, MotionTypeOK
<1>3. MotionTypeOK'
  BY <1>1, <1>2 DEF IInv, MotionTypeOK
<1>4. \A x \in Channels : /\ AccOK(acc'[x]) /\ GlideOK(glide'[x])
                          /\ acc'[x].valid => acc[x].valid
                          /\ glide'[x].left > 0 => glide[x].left > 0
  BY <1>1 DEF IInv
<1>5. (\A x \in Channels : AccOK(acc[x]) /\ GlideOK(glide[x]))'
  BY <1>4
<1>6. GlideOrMovement'
  BY <1>4 DEF IInv, GlideOrMovement
<1>7. \A x \in Channels : glide[x].left = 0 => glide'[x].left = 0
  <2>1. \A x \in Channels : glide'[x].left \in Nat
    BY <1>4 DEF GlideOK, Glide
  <2>2. \A x \in Channels : glide[x].left = 0 => ~(glide'[x].left > 0)
    BY <1>4
  <2>3. QED
    BY <2>1, <2>2
<1>8. "cursor" \in Channels /\ "scroll" \in Channels
  BY DEF Channels
<1>9. QuietTail'
  BY <1>4, <1>7, <1>8 DEF IInv, QuietTail
<1>10. NoScrollGlideUnderFingers'
  BY <1>7, <1>8 DEF IInv, NoScrollGlideUnderFingers
<1>11. HeldByOne' /\ ModeOfTwo' /\ DragIsStill'
  BY <1>2, <1>4, <1>7, <1>8 DEF IInv, HeldByOne, ModeOfTwo, DragIsStill
<1>12. QED
  BY <1>3, <1>5, <1>6, <1>9, <1>10, <1>11 DEF IInv

LEMMA FlushWorkStep ==
  ASSUME IInv, NEW c \in Channels, FlushWork(c)
  PROVE  IInv'
<1>1. AccOK(Flushed(acc[c])) /\ ~Flushed(acc[c]).valid /\ GlideOK(glide[c])
  BY FlushedOK DEF IInv
<1>2. acc' = [acc EXCEPT ![c] = Flushed(acc[c])]
  BY DEF FlushWork
<1>3. glide' = [glide EXCEPT ![c] = glide[c]]
  BY DEF FlushWork, IInv, MotionTypeOK
<1>4. out' \subseteq {"key", "pinch", "cursor", "scroll"}
  BY DEF FlushWork, Sent, Channels
<1>5. drag' = drag /\ UNCHANGED <<prev, mode, three, tail, sample, interval>>
  BY DEF FlushWork
<1>6. QED
  BY <1>1, <1>2, <1>3, <1>4, <1>5, ChannelStep

LEMMA ButtonWorkStep ==
  ASSUME IInv, ButtonWork
  PROVE  IInv'
<1>0. "cursor" \in Channels
  BY DEF Channels
<1>1. /\ AccOK(Flushed(acc["cursor"])) /\ ~Flushed(acc["cursor"]).valid
      /\ GlideOK(glide["cursor"])
  BY <1>0, FlushedOK DEF IInv
<1>2. acc' = [acc EXCEPT !["cursor"] = Flushed(acc["cursor"])]
  BY DEF ButtonWork
<1>3. glide' = [glide EXCEPT !["cursor"] = glide["cursor"]]
  BY DEF ButtonWork, IInv, MotionTypeOK
<1>4. out' \subseteq {"key", "pinch", "cursor", "scroll"}
  BY DEF ButtonWork, Sent
<1>5. /\ drag' = drag \/ (drag' = 0 /\ prev = 0)
      /\ UNCHANGED <<prev, mode, three, tail, sample, interval>>
  BY DEF ButtonWork
<1>6. QED
  BY <1>0, <1>1, <1>2, <1>3, <1>4, <1>5, ChannelStep

LEMMA GlideWorkStep ==
  ASSUME IInv, NEW c \in Channels, GlideWork(c)
  PROVE  IInv'
<1>1. PICK left \in {0, glide[c].left - Spent(glide[c])} :
        /\ left \in 0..GlideMax
        /\ glide' = [glide EXCEPT ![c] = IF left = 0 THEN NoGlide
                                        ELSE [left |-> left, work |-> GlideEvery]]
  BY DEF GlideWork
<1> DEFINE g == IF left = 0 THEN NoGlide ELSE [left |-> left, work |-> GlideEvery]
<1>2. GlideOK(g)
  <2>1. GlideEvery \in Off..GlideEvery /\ Armed(GlideEvery)
    BY Numbers DEF Armed
  <2>2. left # 0 => left > 0
    BY <1>1, Numbers
  <2>3. QED
    BY <1>1, <2>1, <2>2, NoGlideOK DEF GlideOK, Glide
<1>3. AccOK(acc[c]) /\ glide[c].left > 0
  <2>1. Armed(glide[c].work)
    BY DEF GlideWork, Due
  <2>2. QED
    BY <2>1 DEF IInv, GlideOK
<1>4. acc' = [acc EXCEPT ![c] = acc[c]]
  BY DEF GlideWork, IInv, MotionTypeOK
<1>5. out' \subseteq {"key", "pinch", "cursor", "scroll"} /\ drag' = drag
      /\ UNCHANGED <<prev, mode, three, tail, sample, interval>>
  BY DEF GlideWork, Channels
<1>6. glide' = [glide EXCEPT ![c] = g]
  BY <1>1
<1> HIDE DEF g
<1>7. QED
  BY <1>2, <1>3, <1>4, <1>5, <1>6, ChannelStep

\* A tick adds to one part of the sum what it takes from the other.
LEMMA TickedAcc ==
  ASSUME NEW a, AccOK(a), a.flush # 0 - Late
  PROVE  LET b == [valid |-> a.valid, since |-> Older(a.since, HeldMax + 1),
                   flush |-> Later(a.flush)]
         IN  AccOK(b) /\ b.valid = a.valid
<1> DEFINE s == Older(a.since, HeldMax + 1)
           f == Later(a.flush)
<1>1. /\ a.valid \in BOOLEAN /\ a.since \in 0..HeldMax + 1
      /\ a.flush \in Off..MaxInterval
  BY DEF AccOK, Acc
<1>2. s \in 0..HeldMax + 1 /\ s <= a.since + 1
  BY <1>1, Numbers DEF Older
<1>3. /\ f \in Off..MaxInterval /\ (Armed(f) <=> Armed(a.flush))
      /\ Armed(a.flush) => f = a.flush - 1
  BY <1>1, Numbers DEF Later, Armed, Off
<1>4. a.valid => s + f < 2 * MaxInterval
  BY <1>1, <1>2, <1>3, Numbers DEF AccOK
<1> HIDE DEF s, f
<1>5. [valid |-> a.valid, since |-> s, flush |-> f] \in Acc
  BY <1>1, <1>2, <1>3, AccFields
<1>6. AccOK([valid |-> a.valid, since |-> s, flush |-> f])
  BY <1>3, <1>4, <1>5 DEF AccOK
<1>7. QED
  BY <1>6 DEF s, f

LEMMA TickedGlide ==
  ASSUME NEW g, GlideOK(g), g.work # 0 - Late
  PROVE  LET h == [left |-> g.left, work |-> Later(g.work)]
         IN  GlideOK(h) /\ h.left = g.left
<1>1. g.left \in 0..GlideMax /\ g.work \in Off..GlideEvery
  BY DEF GlideOK, Glide
<1>2. Later(g.work) \in Off..GlideEvery /\ (Armed(Later(g.work)) <=> Armed(g.work))
  BY <1>1, Numbers DEF Later, Armed, Off
<1>3. QED
  BY <1>1, <1>2 DEF GlideOK, Glide

LEMMA TickStep ==
  ASSUME IInv, Tick
  PROVE  IInv'
<1>1. \A c \in Channels : AccOK(acc'[c]) /\ acc'[c].valid = acc[c].valid
  <2> SUFFICES ASSUME NEW c \in Channels
               PROVE  AccOK(acc'[c]) /\ acc'[c].valid = acc[c].valid
    OBVIOUS
  <2>1. AccOK(acc[c]) /\ acc[c].flush # 0 - Late
    BY DEF IInv, Tick
  <2>2. acc'[c] = [valid |-> acc[c].valid, since |-> Older(acc[c].since, HeldMax + 1),
                   flush |-> Later(acc[c].flush)]
    BY DEF Tick
  <2>3. QED
    BY <2>1, <2>2, TickedAcc
<1>2. \A c \in Channels : GlideOK(glide'[c]) /\ glide'[c].left = glide[c].left
  <2> SUFFICES ASSUME NEW c \in Channels
               PROVE  GlideOK(glide'[c]) /\ glide'[c].left = glide[c].left
    OBVIOUS
  <2>1. GlideOK(glide[c]) /\ glide[c].work # 0 - Late
    BY DEF IInv, Tick
  <2>2. glide'[c] = [left |-> glide[c].left, work |-> Later(glide[c].work)]
    BY DEF Tick
  <2>3. QED
    BY <2>1, <2>2, TickedGlide
<1>3. /\ \A c \in Channels : sample'[c] \in 0..NoSample
      /\ \A c \in Channels : sample[c] = NoSample => sample'[c] = NoSample
  BY Numbers DEF Tick, Older, IInv, MotionTypeOK
<1>4. /\ out' \subseteq {"key", "pinch", "cursor", "scroll"}
      /\ UNCHANGED <<prev, mode, drag, three, tail, interval>>
  BY DEF Tick
<1>5. acc' \in [Channels -> Acc] /\ glide' \in [Channels -> Glide]
      /\ sample' \in [Channels -> 0..NoSample]
  <2>1. \A c \in Channels : acc'[c] \in Acc /\ glide'[c] \in Glide
    BY <1>1, <1>2 DEF AccOK, GlideOK
  <2>2. DOMAIN acc' = Channels /\ DOMAIN glide' = Channels /\ DOMAIN sample' = Channels
    BY DEF Tick
  <2>3. /\ acc' = [c \in Channels |-> acc'[c]] /\ glide' = [c \in Channels |-> glide'[c]]
        /\ sample' = [c \in Channels |-> sample'[c]]
    BY DEF Tick
  <2>4. QED
    BY <1>3, <2>1, <2>3
<1>6. MotionTypeOK'
  BY <1>4, <1>5 DEF IInv, MotionTypeOK
<1>7. (\A c \in Channels : AccOK(acc[c]) /\ GlideOK(glide[c]))'
  BY <1>1, <1>2
<1>8. "cursor" \in Channels /\ "scroll" \in Channels
  BY DEF Channels
<1>9. GlideOrMovement'
  BY <1>1, <1>2 DEF IInv, GlideOrMovement
<1>10. QuietTail'
  BY <1>1, <1>2, <1>3, <1>4, <1>8 DEF IInv, QuietTail
<1>11. NoScrollGlideUnderFingers' /\ HeldByOne' /\ ModeOfTwo' /\ DragIsStill'
  BY <1>1, <1>2, <1>4, <1>8
  DEF IInv, NoScrollGlideUnderFingers, HeldByOne, ModeOfTwo, DragIsStill
<1>12. QED
  BY <1>6, <1>7, <1>9, <1>10, <1>11 DEF IInv

-----------------------------------------------------------------------------
LEMMA InitHolds == Init => IInv
<1> SUFFICES ASSUME Init PROVE IInv
  OBVIOUS
<1>1. \A c \in Channels : acc[c] = EmptyAcc /\ glide[c] = NoGlide
  BY DEF Init
<1>2. EmptyAcc \in Acc /\ NoGlide \in Glide /\ NoSample \in 0..NoSample
  BY EmptyAccOK, NoGlideOK, Numbers DEF AccOK, GlideOK
<1>3. MotionTypeOK
  <2>1. /\ acc \in [Channels -> Acc] /\ glide \in [Channels -> Glide]
        /\ sample \in [Channels -> 0..NoSample]
    BY <1>2 DEF Init
  <2>2. 0 \in 0..3
    OBVIOUS
  <2>3. QED
    BY <2>1, <2>2 DEF Init, MotionTypeOK
<1>4. \A c \in Channels : AccOK(acc[c]) /\ GlideOK(glide[c])
  BY <1>1, EmptyAccOK, NoGlideOK
<1>5. GlideOrMovement /\ HeldByOne
  BY <1>1, EmptyAccOK DEF GlideOrMovement, HeldByOne, Channels
<1>6. QuietTail /\ NoScrollGlideUnderFingers /\ ModeOfTwo /\ DragIsStill
  BY DEF Init, QuietTail, NoScrollGlideUnderFingers, ModeOfTwo, DragIsStill
<1>7. QED
  BY <1>3, <1>4, <1>5, <1>6 DEF IInv

LEMMA NextKeeps == IInv /\ [Next]_vars => IInv'
<1> SUFFICES ASSUME IInv, [Next]_vars PROVE IInv'
  OBVIOUS
<1>1. ASSUME NEW n \in Counts, Frame(n) PROVE IInv'
  BY <1>1, FrameStep
<1>2. CASE ShowReset
  BY <1>2, ShowResetStep
<1>3. ASSUME NEW c \in Channels, FlushWork(c) PROVE IInv'
  BY <1>3, FlushWorkStep
<1>4. ASSUME NEW c \in Channels, GlideWork(c) PROVE IInv'
  BY <1>4, GlideWorkStep
<1>5. CASE ButtonWork
  BY <1>5, ButtonWorkStep
<1>6. ASSUME NEW c \in Channels, NEW i \in Intervals, SetInterval(c, i) PROVE IInv'
  BY <1>6 DEF SetInterval, IInv, MotionTypeOK, GlideOrMovement, QuietTail,
              NoScrollGlideUnderFingers, HeldByOne, ModeOfTwo, DragIsStill
<1>7. CASE Tick
  BY <1>7, TickStep
<1>8. CASE UNCHANGED vars
  BY <1>8 DEF vars, IInv, MotionTypeOK, GlideOrMovement, QuietTail,
              NoScrollGlideUnderFingers, HeldByOne, ModeOfTwo, DragIsStill
<1>9. QED
  BY <1>1, <1>2, <1>3, <1>4, <1>5, <1>6, <1>7, <1>8 DEF Next

\* The invariant that carries the properties below, for every choice of the
\* constants: what is held back is due, what glides has its work, and fingers,
\* sessions and button agree on who may move.
THEOREM MotionInvariant == Spec => []IInv
<1>1. QED
  BY InitHolds, NextKeeps, PTL DEF Spec

-----------------------------------------------------------------------------
\* Every variable keeps the values its C counterpart can hold.
THEOREM MotionTypeCorrect == Spec => []MotionTypeOK
<1>1. IInv => MotionTypeOK
  BY DEF IInv
<1>2. QED
  BY <1>1, MotionInvariant, PTL

\* Held-back movement always has its flush work scheduled, and none of it waits
\* for two report intervals or longer: neither movement that keeps coming nor a
\* change of the interval can put the flush off for ever.
THEOREM MovementIsDelivered == Spec => []DeliveredInTime
<1>1. IInv => DeliveredInTime
  <2> SUFFICES ASSUME IInv, NEW c \in Channels, acc[c].valid
               PROVE  Armed(acc[c].flush) /\ acc[c].since < HeldMax
    BY DEF DeliveredInTime
  <2>1. AccOK(acc[c])
    BY DEF IInv
  <2>2. /\ acc[c].since \in 0..HeldMax + 1 /\ acc[c].flush \in Off..MaxInterval
        /\ Armed(acc[c].flush) /\ acc[c].since + acc[c].flush < 2 * MaxInterval
    BY <2>1 DEF AccOK, Acc
  <2>3. acc[c].flush >= 0 - Late
    BY <2>2, Numbers DEF Armed, Off
  <2>4. QED
    BY <2>2, <2>3, Numbers
<1>2. QED
  BY <1>1, MotionInvariant, PTL

\* Inertia runs exactly while its work is scheduled, never in a channel with
\* movement held back, never in the tail of a two-finger gesture, and that of
\* the scroll never while two or three fingers touch.
THEOREM GlideAlwaysYields == Spec => []GlideYields
<1>1. IInv => GlideYields
  BY DEF IInv, GlideOK, GlideHasWork, GlideYields
<1>2. QED
  BY <1>1, MotionInvariant, PTL

-----------------------------------------------------------------------------
(* What a step may never do.                                               *)

\* What the facts about a frame say of the cursor.
LEMMA FrameOfCursor ==
  ASSUME IInv, NEW n \in Counts, Frame(n)
  PROVE  /\ mode # "none" \/ tail => "cursor" \notin out'
         /\ mode # "none" => glide'["cursor"].left <= glide["cursor"].left
         /\ tail => glide'["cursor"].left = 0
         /\ drag = 1 /\ prev = 1 => glide'["cursor"].left = 0
         /\ "pinch" \in out' /\ acc["cursor"].valid =>
              "cursor" \in out' /\ ~acc'["cursor"].valid
<1>1. PICK m \in ModesAfter(n), d \in DragsAfter(n) :
        \E th \in ThreeAfter(n, d), move \in Moves(n, m) : \E quiet, held :
          /\ FrameParts(n, m, d, th, move, quiet, held)
          /\ d = 2 => m = "none"
          /\ UNCHANGED interval
  BY FrameTakenApart
<1>p. PICK th \in ThreeAfter(n, d), move \in Moves(n, m) : \E quiet, held :
        FrameParts(n, m, d, th, move, quiet, held)
  BY <1>1
<1>2. PICK quiet, held : FrameParts(n, m, d, th, move, quiet, held)
  BY <1>p
<1>3. FrameEffect(n, m, d, th, move, quiet, held)
  BY <1>2, FrameFacts
<1>4. glide'["cursor"].left \in Nat /\ acc'["cursor"].valid \in BOOLEAN
      /\ acc["cursor"].valid \in BOOLEAN
  <2>1. AccOK(acc["cursor"])
    BY DEF IInv, Channels
  <2>2. AccOK(acc'["cursor"])
    BY <1>2, FrameFacts DEF FrameEffect
  <2>3. QED
    BY <1>3, <2>1, <2>2 DEF GlideOK, Glide, AccOK, Acc, FrameEffect
<1>5. quiet = Suppresses(n, mode # "none" /\ m = "none") /\ held = ReleasedFromHold(n, d)
  BY <1>2 DEF FrameParts
<1>6. m # "none" => n = 2 /\ (mode = "none" \/ m = mode)
  BY DEF ModesAfter
<1>7. tail => quiet
  BY <1>5, Zenon DEF Suppresses
<1>8. mode # "none" => ~acc["cursor"].valid /\ (n = 1 => quiet)
  <2>1. mode # "none" => prev = 2 /\ ~acc["cursor"].valid
    BY DEF IInv, ModeOfTwo, HeldByOne
  <2>2. mode # "none" /\ n = 1 => Suppresses(n, mode # "none" /\ m = "none")
    BY <1>6, <2>1 DEF Suppresses
  <2>3. QED
    BY <1>5, <2>1, <2>2, Zenon
<1>9. \/ n = 1 /\ move # "none" /\ ~quiet
      \/ acc["cursor"].valid
      \/ "cursor" \notin out'
  BY <1>2 DEF FrameParts, Sent
<1>10. mode # "none" \/ tail => "cursor" \notin out'
  BY <1>7, <1>8, <1>9 DEF IInv, QuietTail
<1>11. tail => glide'["cursor"].left = 0
  BY <1>3, <1>7 DEF FrameEffect
<1>l. mode # "none" => glide'["cursor"].left <= glide["cursor"].left
  <2> SUFFICES ASSUME mode # "none"
               PROVE  glide'["cursor"].left <= glide["cursor"].left
    OBVIOUS
  <2>1. prev = 2 /\ glide["cursor"].left \in Nat
    BY DEF IInv, ModeOfTwo, MotionTypeOK, Glide, Channels
  <2>2. glide'["cursor"].left > 0 => glide'["cursor"] = glide["cursor"]
    BY <1>3, <2>1 DEF FrameEffect
  <2>3. QED
    BY <1>4, <2>1, <2>2
<1>12. drag = 1 /\ prev = 1 => glide'["cursor"].left = 0
  <2> SUFFICES ASSUME drag = 1, prev = 1, glide'["cursor"].left > 0
               PROVE  FALSE
    BY <1>4
  <2>1. glide["cursor"].left = 0
    BY DEF IInv, DragIsStill
  <2>2. n = 0 /\ d # 1 /\ ~held
    BY <1>3, <2>1 DEF FrameEffect
  <2>3. ReleasedFromHold(n, d)
    BY <2>2 DEF ReleasedFromHold
  <2>4. QED
    BY <1>5, <2>2, <2>3, Zenon
<1>13. "pinch" \in out' /\ acc["cursor"].valid =>
         "cursor" \in out' /\ ~acc'["cursor"].valid
  <2> SUFFICES ASSUME "pinch" \in out', acc["cursor"].valid
               PROVE  "cursor" \in out' /\ ~acc'["cursor"].valid
    OBVIOUS
  <2>1. (m = "pinch") # (mode = "pinch")
    BY <1>2 DEF FrameParts, Sent
  <2>2. mode = "none"
    BY <1>8
  <2>3. n = 2
    BY <1>6, <2>1, <2>2
  <2>4. ~acc'["cursor"].valid
    BY <1>3, <2>3 DEF FrameEffect
  <2>5. Sent(acc["cursor"].valid \/ (n = 1 /\ move # "none" /\ ~quiet),
             acc'["cursor"], "cursor") \subseteq out'
    BY <1>2 DEF FrameParts
  <2>6. QED
    BY <2>4, <2>5 DEF Sent
<1>14. QED
  BY <1>10, <1>l, <1>11, <1>12, <1>13

\* A step of inertia leaves less of it.
LEMMA GlideWorkSpends ==
  ASSUME IInv, NEW c \in Channels, GlideWork(c)
  PROVE  /\ out' \subseteq {c} /\ glide[c].left > 0
         /\ glide'[c].left <= glide[c].left
         /\ \A b \in Channels : b # c => glide'[b] = glide[b]
<1>1. PICK left \in {0, glide[c].left - Spent(glide[c])} :
        /\ left \in 0..GlideMax
        /\ glide' = [glide EXCEPT ![c] = IF left = 0 THEN NoGlide
                                        ELSE [left |-> left, work |-> GlideEvery]]
  BY DEF GlideWork
<1>2. /\ glide[c].left > 0 /\ glide[c].left \in Nat
      /\ glide[c].work \in Int /\ glide[c].work <= 0
  <2>1. Armed(glide[c].work) /\ glide[c].work <= 0
    BY DEF GlideWork, Due
  <2>2. glide[c] \in Glide
    BY DEF IInv, MotionTypeOK
  <2>3. glide[c].left > 0
    BY <2>1 DEF IInv, GlideOK
  <2>4. QED
    BY <2>1, <2>2, <2>3, Numbers DEF Glide
<1>3. Spent(glide[c]) \in Nat
  <2> DEFINE late == GlideEvery - glide[c].work + GlideEvery - 1
             turns == late \div GlideEvery
  <2>1. late \in Nat /\ GlideEvery \in Nat \ {0}
    BY <1>2, Numbers
  <2>2. turns \in Nat
    <3> HIDE DEF late
    <3>1. QED
      BY <2>1, DivOfNat
  <2>3. Spent(glide[c]) = turns * GlideEvery
    BY DEF Spent
  <2> HIDE DEF turns
  <2>4. QED
    BY <2>1, <2>2, <2>3
<1>4. left <= glide[c].left /\ left \in Nat
  BY <1>1, <1>2, <1>3, Numbers
<1>5. glide'[c].left = left /\ \A b \in Channels : b # c => glide'[b] = glide[b]
  BY <1>1, NoGlideOK DEF IInv, MotionTypeOK
<1>6. QED
  BY <1>2, <1>4, <1>5 DEF GlideWork

\* The other steps: the reset, the works, the passing of time.
LEMMA OthersOfCursor ==
  ASSUME IInv, Next, \A n \in Counts : ~Frame(n)
  PROVE  /\ mode # "none" /\ "cursor" \in out' => GlideWork("cursor")
         /\ tail => "cursor" \notin out'
         /\ glide'["cursor"].left <= glide["cursor"].left
         /\ "pinch" \in out' => ~acc["cursor"].valid
<1>0. /\ "cursor" \in Channels /\ glide["cursor"] \in Glide
      /\ mode # "none" \/ tail => ~acc["cursor"].valid
      /\ tail => glide["cursor"].left = 0
      /\ glide["cursor"].left \in Nat
  BY DEF IInv, MotionTypeOK, ModeOfTwo, HeldByOne, QuietTail, Glide, Channels
<1> DEFINE Held == glide'["cursor"].left <= glide["cursor"].left
           Mute == mode # "none" \/ tail => "cursor" \notin out'
<1>1. CASE ShowReset
  <2>1. glide'["cursor"].left = 0 /\ Mute /\ ("pinch" \in out' => mode # "none")
    BY <1>0, <1>1, NoGlideOK DEF ShowReset, Sent
  <2>2. QED
    BY <1>0, <2>1
<1>2. ASSUME NEW c \in Channels, FlushWork(c)
      PROVE  Mute /\ Held /\ "pinch" \notin out'
  <2>1. glide' = glide /\ "pinch" \notin out' /\ Mute
    BY <1>0, <1>2 DEF FlushWork, Sent, Channels
  <2>2. QED
    BY <1>0, <2>1
<1>3. ASSUME NEW c \in Channels, GlideWork(c)
      PROVE  /\ Held /\ "pinch" \notin out'
             /\ c # "cursor" => "cursor" \notin out'
             /\ tail => "cursor" \notin out'
  <2>1. /\ out' \subseteq {c} /\ glide[c].left > 0 /\ glide'[c].left <= glide[c].left
        /\ \A b \in Channels : b # c => glide'[b] = glide[b]
    BY <1>3, GlideWorkSpends
  <2>2. Held
    BY <1>0, <2>1
  <2>3. QED
    BY <1>0, <2>1, <2>2 DEF Channels
<1>4. CASE ButtonWork
  <2>1. glide' = glide /\ "pinch" \notin out' /\ Mute
    BY <1>0, <1>4 DEF ButtonWork, Sent
  <2>2. QED
    BY <1>0, <2>1
<1>5. ASSUME NEW c \in Channels, NEW i \in Intervals, SetInterval(c, i)
      PROVE  out' = {} /\ Held
  BY <1>0, <1>5 DEF SetInterval
<1>6. CASE Tick
  BY <1>0, <1>6 DEF Tick
<1>7. CASE \E c \in Channels : GlideWork(c)
  BY <1>3, <1>7
<1>8. QED
  BY <1>1, <1>2, <1>4, <1>5, <1>6, <1>7 DEF Next

\* So no step but a frame starts inertia of the cursor.
LEMMA CursorStaysStill ==
  ASSUME IInv, Next, \A n \in Counts : ~Frame(n), glide["cursor"].left = 0
  PROVE  glide'["cursor"].left = 0
<1>1. glide'["cursor"].left <= 0
  BY OthersOfCursor
<1>2. IInv'
  BY NextKeeps
<1>3. glide'["cursor"].left \in Nat
  BY <1>2 DEF IInv, MotionTypeOK, Glide, Channels
<1>4. QED
  BY <1>1, <1>3

\* During a scroll or pinch the fingers neither move the cursor nor start inertia
\* of it, and only an earlier flick's inertia may still move it; in the tail of
\* the gesture nothing does.
THEOREM TailIsQuiet == Spec => NoCursorInTail
<1>1. ASSUME IInv, Next
      PROVE  /\ mode # "none" /\ "cursor" \in out' => GlideWork("cursor")
             /\ mode # "none" => glide'["cursor"].left <= glide["cursor"].left
             /\ tail => "cursor" \notin out' /\ glide'["cursor"].left = 0
  <2>1. CASE \E n \in Counts : Frame(n)
    BY <1>1, <2>1, FrameOfCursor
  <2>2. CASE \A n \in Counts : ~Frame(n)
    BY <1>1, <2>2, OthersOfCursor, CursorStaysStill DEF IInv, QuietTail
  <2>3. QED
    BY <2>1, <2>2
<1>2. IInv /\ [Next]_vars =>
        [/\ mode # "none" /\ "cursor" \in out' => GlideWork("cursor")
         /\ mode # "none" => glide'["cursor"].left <= glide["cursor"].left
         /\ tail => "cursor" \notin out' /\ glide'["cursor"].left = 0]_vars
  BY <1>1
<1>3. QED
  BY <1>2, MotionInvariant, PTL DEF Spec, NoCursorInTail

\* Lifting the finger of a one-finger drag starts no inertia.
THEOREM DragDropsInPlace == Spec => NoGlideFromDrag
<1>1. ASSUME IInv, Next
      PROVE  drag = 1 /\ prev = 1 => glide'["cursor"].left = 0
  <2>1. CASE \E n \in Counts : Frame(n)
    BY <1>1, <2>1, FrameOfCursor
  <2>2. CASE \A n \in Counts : ~Frame(n)
    BY <1>1, <2>2, CursorStaysStill DEF IInv, DragIsStill
  <2>3. QED
    BY <2>1, <2>2
<1>2. IInv /\ [Next]_vars => [drag = 1 /\ prev = 1 => glide'["cursor"].left = 0]_vars
  BY <1>1
<1>3. QED
  BY <1>2, MotionInvariant, PTL DEF Spec, NoGlideFromDrag

\* BTN_7 of a pinch never overtakes cursor movement that came before it.
THEOREM PinchKeepsOrder == Spec => MovementBeforePinch
<1>1. ASSUME IInv, Next
      PROVE  ("pinch" \in out' /\ acc["cursor"].valid) =>
               ("cursor" \in out' /\ ~acc'["cursor"].valid)
  <2>1. CASE \E n \in Counts : Frame(n)
    BY <1>1, <2>1, FrameOfCursor
  <2>2. CASE \A n \in Counts : ~Frame(n)
    BY <1>1, <2>2, OthersOfCursor
  <2>3. QED
    BY <2>1, <2>2
<1>2. IInv /\ [Next]_vars =>
        [("pinch" \in out' /\ acc["cursor"].valid) =>
           ("cursor" \in out' /\ ~acc'["cursor"].valid)]_vars
  BY <1>1
<1>3. QED
  BY <1>2, MotionInvariant, PTL DEF Spec, MovementBeforePinch

-----------------------------------------------------------------------------
(* The arithmetic of Iqs9151Algorithms, for every integer.                  *)

\* Truncating division keeps the order, is exact for a multiple, and leaves less
\* than the divisor, on the side of what was divided.
LEMMA CDivMono ==
  ASSUME NEW a \in Int, NEW c \in Int, NEW b \in Nat \ {0}, a <= c
  PROVE  CDiv(a, b) \in Int /\ CDiv(a, b) <= CDiv(c, b)
<1>1. a \div b \in Int /\ c \div b \in Int /\ (0 - a) \div b \in Int /\ (0 - c) \div b \in Int
  BY DivBounds
<1>2. CASE 0 <= a
  BY <1>1, <1>2, DivMono DEF CDiv
<1>3. CASE a < 0 /\ 0 <= c
  <2>1. (0 - a) \div b \in Nat /\ c \div b \in Nat
    BY <1>3, DivOfNat
  <2>2. QED
    BY <1>3, <2>1 DEF CDiv
<1>4. CASE c < 0
  <2>1. (0 - c) \div b <= (0 - a) \div b
    BY DivMono
  <2>2. QED
    BY <1>1, <1>4, <2>1 DEF CDiv
<1>5. QED
  BY <1>2, <1>3, <1>4

LEMMA CDivExact ==
  ASSUME NEW m \in Int, NEW b \in Nat \ {0}
  PROVE  CDiv(m * b, b) = m
<1>1. (m * b) \div b = m
  <2>1. b * m <= m * b /\ m * b < b * m + b
    OBVIOUS
  <2>2. QED
    BY <2>1, DivUnique
<1>2. (0 - m * b) \div b = 0 - m
  <2>1. b * (0 - m) = 0 - m * b
    OBVIOUS
  <2>2. b * (0 - m) <= 0 - m * b /\ 0 - m * b < b * (0 - m) + b
    BY <2>1
  <2>3. 0 - m \in Int /\ 0 - m * b \in Int
    OBVIOUS
  <2>4. QED
    BY <2>2, <2>3, DivUnique
<1>3. QED
  BY <1>1, <1>2 DEF CDiv

LEMMA CDivRemainder ==
  ASSUME NEW a \in Int, NEW b \in Nat \ {0}
  PROVE  /\ CDiv(a, b) \in Int
         /\ a >= 0 => CDiv(a, b) >= 0 /\ a - CDiv(a, b) * b \in 0..b - 1
         /\ a <= 0 => CDiv(a, b) <= 0 /\ CDiv(a, b) * b - a \in 0..b - 1
<1>1. CASE a >= 0
  <2>1. a \div b \in Nat /\ b * (a \div b) <= a /\ a < b * (a \div b) + b
    BY <1>1, DivOfNat, DivBounds
  <2>2. a = 0 => a \div b = 0
    BY DivUnique
  <2>3. CDiv(a, b) = a \div b
    BY <1>1 DEF CDiv
  <2>4. QED
    BY <1>1, <2>1, <2>2, <2>3
<1>2. CASE a < 0
  <2> DEFINE n == 0 - a
  <2>1. n \in Nat
    BY <1>2
  <2>2. n \div b \in Nat /\ b * (n \div b) <= n /\ n < b * (n \div b) + b
    BY <2>1, DivOfNat, DivBounds
  <2>3. CDiv(a, b) = 0 - (n \div b)
    BY <1>2 DEF CDiv
  <2>4. CDiv(a, b) * b = 0 - b * (n \div b)
    BY <2>2, <2>3
  <2>5. QED
    BY <1>2, <2>2, <2>3, <2>4
<1>3. QED
  BY <1>1, <1>2

-----------------------------------------------------------------------------
(* Gains.                                                                  *)

\* The part of the way from the slow gain to the fast one.
LEMMA Interpolates ==
  ASSUME NEW d \in Int, NEW n \in Nat, NEW b \in Nat \ {0}, n <= b
  PROVE  /\ CDiv(d * n, b) \in Int
         /\ d >= 0 => CDiv(d * n, b) \in 0..d
         /\ d <= 0 => 0 - CDiv(d * n, b) \in 0..0 - d
<1> DEFINE p == d * n
           q == d * b
<1>1. CDiv(0, b) = 0 /\ CDiv(q, b) = d
  <2>1. CDiv(0 * b, b) = 0 /\ 0 * b = 0
    BY CDivExact
  <2>2. QED
    BY <2>1, CDivExact
<1>2. p \in Int /\ q \in Int
  OBVIOUS
<1>3. CDiv(p, b) \in Int
  BY <1>2, CDivMono
<1>4. CASE d >= 0
  <2>1. d \in Nat
    BY <1>4
  <2>2. d * 0 <= d * n /\ d * n <= d * b
    BY <2>1, MulMono
  <2>3. 0 <= p /\ p <= q
    BY <2>2
  <2> HIDE DEF p, q
  <2>4. CDiv(0, b) <= CDiv(p, b) /\ CDiv(p, b) <= CDiv(q, b)
    BY <1>2, <2>3, CDivMono
  <2>5. CDiv(p, b) \in 0..d
    BY <1>1, <1>2, <1>3, <2>4
  <2>6. QED
    BY <1>4, <1>3, <2>5 DEF p
<1>5. CASE d < 0
  <2>1. 0 - d \in Nat
    BY <1>5
  <2>2. (0 - d) * 0 <= (0 - d) * n /\ (0 - d) * n <= (0 - d) * b
    BY <2>1, MulMono
  <2>3. p <= 0 /\ q <= p
    BY <2>2
  <2> HIDE DEF p, q
  <2>4. CDiv(p, b) <= CDiv(0, b) /\ CDiv(q, b) <= CDiv(p, b)
    BY <1>2, <2>3, CDivMono
  <2>5. 0 - CDiv(p, b) \in 0..0 - d
    BY <1>1, <1>2, <1>3, <1>5, <2>4
  <2>6. QED
    BY <1>5, <1>3, <2>5 DEF p
<1>6. QED
  BY <1>3, <1>4, <1>5

\* Whatever speeds and gains are configured, in whatever order, the gain of any
\* speed lies between the two, and faster movement is not geared lower than
\* slower movement when the fast gain is the higher one.
THEOREM GainStaysBetween ==
  ASSUME NEW slow \in Int, NEW fast \in Int, NEW g \in Int, NEW h \in Int,
         NEW v \in Int, NEW w \in Int, v <= w
  PROVE  /\ SpeedGain(slow, fast, g, h, v) \in (IF g <= h THEN g..h ELSE h..g)
         /\ g <= h => SpeedGain(slow, fast, g, h, v) <= SpeedGain(slow, fast, g, h, w)
<1> DEFINE Part(x) == CDiv((h - g) * (x - slow), fast - slow)
<1>1. CASE slow >= fast
  BY <1>1 DEF SpeedGain
<1>2. CASE slow < fast
  <2>1. fast - slow \in Nat \ {0} /\ h - g \in Int
    BY <1>2
  <2>2. ASSUME NEW x \in Int, slow < x, x < fast
        PROVE  /\ Part(x) \in Int
               /\ h - g >= 0 => Part(x) \in 0..h - g
               /\ h - g <= 0 => 0 - Part(x) \in 0..0 - (h - g)
    <3>1. x - slow \in Nat /\ x - slow <= fast - slow
      BY <2>2
    <3>2. QED
      BY <2>1, <3>1, Interpolates
  <2>3. ASSUME slow < v, w < fast, g <= h PROVE Part(v) <= Part(w)
    <3>1. h - g \in Nat /\ v - slow \in Int /\ w - slow \in Int /\ v - slow <= w - slow
      BY <2>3
    <3>2. (h - g) * (v - slow) <= (h - g) * (w - slow)
      BY <3>1, MulMono
    <3>3. (h - g) * (v - slow) \in Int /\ (h - g) * (w - slow) \in Int
      BY <3>1
    <3>4. QED
      BY <2>1, <3>2, <3>3, CDivMono
  <2>4. ASSUME NEW x \in Int
        PROVE  SpeedGain(slow, fast, g, h, x)
                 = IF x <= slow THEN g ELSE IF x >= fast THEN h ELSE g + Part(x)
    BY <1>2 DEF SpeedGain
  <2> HIDE DEF Part
  <2>5. QED
    BY <1>2, <2>2, <2>3, <2>4
<1>3. QED
  BY <1>1, <1>2

\* So the gain of the configured speeds that are tried, in either order, stays
\* between the two gains and never falls as the speed rises (speed_gain_x100).
COROLLARY GainIsBetween == GainBetween
<1> SUFFICES ASSUME NEW slow \in 0..Span, NEW fast \in 0..Span, NEW g \in {0, 7, 20},
                    NEW h \in {0, 7, 20}, NEW speed \in 0..2 * Span
             PROVE  LET G(v) == SpeedGain(slow, fast, g, h, v)
                    IN  /\ G(speed) \in (IF g <= h THEN g..h ELSE h..g)
                        /\ g <= h => G(speed) <= G(speed + 1)
  BY DEF GainBetween
<1>1. slow \in Int /\ fast \in Int /\ g \in Int /\ h \in Int /\ speed \in Int
      /\ speed + 1 \in Int /\ speed <= speed + 1
  BY AlgorithmsAssumption DEF AlgorithmsAssumption
<1>2. QED
  BY <1>1, GainStaysBetween

\* No movement is lost or invented by rounding: what a frame reports and carries
\* over is what it moved and found carried over, and the remainder is less than
\* one count, on the side of the movement.
THEOREM RemainderKeepsMovement ==
  ASSUME NEW rem \in Int, NEW amount \in Int, NEW unit \in Nat \ {0}
  PROVE  LET c == Carried(rem, amount, unit)
         IN  /\ c.out * unit + c.rem = rem + amount
             /\ Mag(c.rem) < unit
             /\ rem + amount >= 0 => c.out >= 0 /\ c.rem >= 0
             /\ rem + amount <= 0 => c.out <= 0 /\ c.rem <= 0
<1> DEFINE all == rem + amount
           q   == CDiv(all, unit)
<1>1. all \in Int
  OBVIOUS
<1>2. /\ q \in Int
      /\ all >= 0 => q >= 0 /\ all - q * unit \in 0..unit - 1
      /\ all <= 0 => q <= 0 /\ q * unit - all \in 0..unit - 1
  BY <1>1, CDivRemainder
<1>3. Carried(rem, amount, unit).out = q
      /\ Carried(rem, amount, unit).rem = all - q * unit
  BY <1>1, <1>2 DEF Carried
<1> HIDE DEF all, q
<1>4. q * unit \in Int
  BY <1>2
<1>5. QED
  BY <1>1, <1>2, <1>3, <1>4 DEF Mag, all

\* The sum of a run.
LEMMA SumSteps ==
  ASSUME NEW run \in Seq(Int)
  PROVE  \E f \in [0..Len(run) -> Int] :
           /\ f[0] = 0 /\ f[Len(run)] = FoldLeft(LAMBDA a, x : a + x, 0, run)
           /\ \A n \in 1..Len(run) : f[n] = f[n - 1] + run[n]
<1> DEFINE N == Len(run)
           D == DOMAIN run
           E(g) == [s \in SUBSET D |->
                      IF s = {} THEN 0 ELSE g[s \ {Max(s)}] + run[Max(s)]]
           step == [n \in 1..N |-> [a \in Int |-> a + run[n]]]
           fold == CHOOSE g : g = E(g)
<1>1. FoldLeft(LAMBDA a, x : a + x, 0, run) = fold[D]
  BY DEF FoldLeft, MapThenFoldSet
<1>2. N \in Nat /\ step \in [1..N -> [Int -> Int]] /\ D = 1..N /\ 0 \in Int
  OBVIOUS
<1>3. fold = E(fold)
  <2>1. PICK g \in [SUBSET (1..N) -> Int] : IsFold(g, N, 0, step)
    <3> HIDE DEF step, N
    <3>1. QED
      BY <1>2, FoldExists, Zenon
  <2>2. ASSUME NEW s \in SUBSET D
        PROVE  g[s] = IF s = {} THEN 0 ELSE g[s \ {Max(s)}] + run[Max(s)]
    <3>1. g[s] = IF s = {} THEN 0 ELSE step[Max(s)][g[s \ {Max(s)}]]
      BY <1>2, <2>1 DEF IsFold
    <3>2. s # {} => Max(s) \in 1..N /\ g[s \ {Max(s)}] \in Int
      BY <1>2, IndexLeft
    <3>3. QED
      BY <3>1, <3>2
  <2>3. g = E(g)
    BY <1>2, <2>2
  <2>4. QED
    BY <2>3
<1> HIDE DEF fold
<1>4. fold[{}] = 0
  BY <1>3
<1>5. ASSUME NEW n \in 1..N, fold[1..n - 1] \in Int
      PROVE  fold[1..n] = step[n][fold[1..n - 1]]
  <2>1. /\ 1..n \in SUBSET (1..N) /\ 1..n # {}
        /\ Max(1..n) = n /\ (1..n) \ {Max(1..n)} = 1..n - 1
    BY <1>2, IndexSets
  <2>2. fold[1..n] = fold[1..n - 1] + run[n]
    BY <1>2, <1>3, <2>1
  <2>3. QED
    BY <1>5, <2>2
<1>6. PICK f \in [0..N -> Int] : IsCourse(f, N, 0, step, fold[1..N])
  <2> HIDE DEF step, N
  <2>1. QED
    BY <1>2, <1>4, <1>5, FoldCourse, Zenon
<1>7. ASSUME NEW n \in 1..N PROVE f[n] = f[n - 1] + run[n]
  <2>1. f[n - 1] \in Int /\ f[n] = step[n][f[n - 1]]
    <3> HIDE DEF step, N
    <3>1. n - 1 \in 0..N
      BY <1>2
    <3>2. QED
      BY <1>6, <3>1 DEF IsCourse
  <2>2. QED
    BY <2>1
<1>8. QED
  BY <1>1, <1>2, <1>6, <1>7, ZenonT(30) DEF IsCourse

\* What a frame makes of the account.
LEMMA CarriedIsInt ==
  ASSUME NEW rem \in Int, NEW amount \in Int, NEW unit \in Nat \ {0}
  PROVE  Carried(rem, amount, unit) \in [out : Int, rem : Int]
<1>1. CDiv(rem + amount, unit) \in Int
  BY CDivRemainder
<1>2. rem + amount - CDiv(rem + amount, unit) * unit \in Int
  BY <1>1
<1>3. QED
  BY <1>1, <1>2 DEF Carried

\* The account of a run of frames, and what one more frame makes of it.
Account == [out : Int, rem : Int]
CarriedOn(a, x, unit) == LET c == Carried(a.rem, x, unit)
                         IN  [out |-> a.out + c.out, rem |-> c.rem]

LEMMA CarriedOnIsAccount ==
  ASSUME NEW a \in Account, NEW x \in Int, NEW unit \in Nat \ {0}
  PROVE  CarriedOn(a, x, unit) \in Account
<1>1. a.out \in Int /\ a.rem \in Int
  BY DEF Account
<1>2. Carried(a.rem, x, unit) \in [out : Int, rem : Int]
  BY <1>1, CarriedIsInt
<1>3. Carried(a.rem, x, unit).out \in Int /\ Carried(a.rem, x, unit).rem \in Int
  BY <1>2
<1>4. QED
  BY <1>1, <1>3 DEF CarriedOn, Account

\* An account is right if it makes up what was moved, holds back less than one
\* count, and has reported nothing to whoever is back where he was.  A frame
\* leaves it right.
Balanced(a, sum, unit) ==
  /\ a.out * unit + a.rem = sum
  /\ Mag(a.rem) < unit
  /\ sum = 0 => a.out = 0

LEMMA AccountStaysRight ==
  ASSUME NEW a \in Account, NEW sum \in Int, NEW amount \in Int,
         NEW unit \in Nat \ {0}, Balanced(a, sum, unit)
  PROVE  Balanced(CarriedOn(a, amount, unit), sum + amount, unit)
<1> DEFINE told == a.out
           rem  == a.rem
           c    == Carried(rem, amount, unit)
<1>0. told \in Int /\ rem \in Int /\ told * unit + rem = sum
  BY DEF Account, Balanced
<1> HIDE DEF told, rem
<1>1. c.out \in Int /\ c.rem \in Int
  <2>1. c \in [out : Int, rem : Int]
    BY <1>0, CarriedIsInt
  <2> HIDE DEF c
  <2>2. QED
    BY <2>1
<1>2. c.out * unit + c.rem = rem + amount /\ Mag(c.rem) < unit
  BY <1>0, RemainderKeepsMovement
<1> HIDE DEF c
<1>3. (told + c.out) * unit = told * unit + c.out * unit
  BY <1>0, <1>1
<1>4. told * unit \in Int /\ c.out * unit \in Int
  BY <1>0, <1>1
<1>5. (told + c.out) * unit + c.rem = sum + amount
  <2> DEFINE x == told * unit
             y == c.out * unit
             z == (told + c.out) * unit
  <2>1. PICK r \in Int : r = c.rem
    BY <1>1
  <2>2. /\ x \in Int /\ y \in Int /\ z = x + y /\ x + rem = sum
        /\ y + r = rem + amount
    BY <1>0, <1>2, <1>3, <1>4, <2>1
  <2> HIDE DEF x, y, z
  <2>3. z + r = sum + amount
    BY <1>0, <2>2
  <2>4. QED
    BY <2>1, <2>3 DEF z
<1>6. ASSUME sum + amount = 0 PROVE told + c.out = 0
  <2> DEFINE n == told + c.out
  <2>1. n \in Int /\ n * unit = 0 - c.rem /\ 0 - c.rem < unit /\ c.rem < unit
    BY <1>0, <1>1, <1>2, <1>5, <1>6 DEF Mag
  <2> HIDE DEF n
  <2>2. CASE n >= 1
    <3>1. unit * 1 <= unit * n
      BY <2>1, <2>2, MulMono
    <3>2. QED
      BY <1>1, <2>1, <3>1
  <2>3. CASE n <= 0 - 1
    <3>1. unit * n <= unit * (0 - 1)
      BY <2>1, <2>3, MulMono
    <3>2. QED
      BY <1>1, <2>1, <3>1
  <2>4. QED
    BY <2>1, <2>2, <2>3 DEF n
<1>7. CarriedOn(a, amount, unit) = [out |-> told + c.out, rem |-> c.rem]
  BY DEF CarriedOn, told, rem, c
<1>8. QED
  BY <1>2, <1>5, <1>6, <1>7 DEF Balanced

LEMMA CarriedSteps ==
  ASSUME NEW run \in Seq(Int), NEW unit \in Nat \ {0}
  PROVE  \E f \in [0..Len(run) -> Account] :
           /\ f[0] = [out |-> 0, rem |-> 0] /\ f[Len(run)] = CarriedRun(run, unit)
           /\ \A n \in 1..Len(run) : f[n] = CarriedOn(f[n - 1], run[n], unit)
<1> DEFINE N == Len(run)
           D == DOMAIN run
           b == [out |-> 0, rem |-> 0]
           E(g) == [s \in SUBSET D |->
                      IF s = {} THEN b ELSE CarriedOn(g[s \ {Max(s)}], run[Max(s)], unit)]
           step == [n \in 1..N |-> [a \in Account |-> CarriedOn(a, run[n], unit)]]
           fold == CHOOSE g : g = E(g)
<1>1. CarriedRun(run, unit) = fold[D]
  BY DEF CarriedRun, CarriedOn, FoldLeft, MapThenFoldSet
<1>2. N \in Nat /\ D = 1..N /\ b \in Account
  BY DEF Account
<1>3. ASSUME NEW n \in 1..N, NEW a \in Account PROVE CarriedOn(a, run[n], unit) \in Account
  BY CarriedOnIsAccount
<1>4. step \in [1..N -> [Account -> Account]]
  BY <1>3
<1>5. fold = E(fold)
  <2>1. PICK g \in [SUBSET (1..N) -> Account] : IsFold(g, N, b, step)
    <3> HIDE DEF step, N, b
    <3>1. QED
      BY <1>2, <1>4, FoldExists, Zenon
  <2>2. ASSUME NEW s \in SUBSET D
        PROVE  g[s] = IF s = {} THEN b ELSE CarriedOn(g[s \ {Max(s)}], run[Max(s)], unit)
    <3>1. g[s] = IF s = {} THEN b ELSE step[Max(s)][g[s \ {Max(s)}]]
      BY <1>2, <2>1 DEF IsFold
    <3>2. s # {} => Max(s) \in 1..N /\ g[s \ {Max(s)}] \in Account
      BY <1>2, IndexLeft
    <3>3. QED
      BY <3>1, <3>2
  <2>3. g = E(g)
    BY <1>2, <2>2
  <2>4. QED
    BY <2>3
<1> HIDE DEF fold
<1>6. fold[{}] = b
  BY <1>5
<1>7. ASSUME NEW n \in 1..N, fold[1..n - 1] \in Account
      PROVE  fold[1..n] = step[n][fold[1..n - 1]]
  <2>1. /\ 1..n \in SUBSET (1..N) /\ 1..n # {}
        /\ Max(1..n) = n /\ (1..n) \ {Max(1..n)} = 1..n - 1
    BY <1>2, IndexSets
  <2>2. fold[1..n] = CarriedOn(fold[1..n - 1], run[n], unit)
    BY <1>2, <1>5, <2>1
  <2>3. QED
    BY <1>7, <2>2
<1>8. PICK f \in [0..N -> Account] : IsCourse(f, N, b, step, fold[1..N])
  <2> HIDE DEF step, N, b
  <2>1. QED
    BY <1>2, <1>4, <1>6, <1>7, FoldCourse, Zenon
<1>9. ASSUME NEW n \in 1..N PROVE f[n] = CarriedOn(f[n - 1], run[n], unit)
  <2>1. f[n - 1] \in Account /\ f[n] = step[n][f[n - 1]]
    <3> HIDE DEF step, N
    <3>1. n - 1 \in 0..N
      BY <1>2
    <3>2. QED
      BY <1>8, <3>1 DEF IsCourse
  <2>2. QED
    BY <2>1
<1>10. QED
  BY <1>1, <1>2, <1>8, <1>9 DEF IsCourse

\* Over any run of frames, of any length, movement is neither lost nor invented
\* by rounding: the counts reported and the remainder carried make up what was
\* moved, less than one count is held back, and a finger that returns to where
\* it was returns the pointer too (iqs9151_cursor_apply_gain, and the scroll and
\* pinch halves of iqs9151_two_finger_update).
THEOREM RunKeepsMovement ==
  ASSUME NEW run \in Seq(Int), NEW unit \in Nat \ {0}
  PROVE  LET r   == CarriedRun(run, unit)
             sum == FoldLeft(LAMBDA a, x : a + x, 0, run)
         IN  /\ r.out * unit + r.rem = sum
             /\ Mag(r.rem) < unit
             /\ sum = 0 => r.out = 0
<1> DEFINE N == Len(run)
           sum == FoldLeft(LAMBDA a, x : a + x, 0, run)
<1>1. N \in Nat /\ \A n \in 1..N : run[n] \in Int
  OBVIOUS
<1>2. PICK f \in [0..N -> Account] :
         /\ f[0] = [out |-> 0, rem |-> 0] /\ f[N] = CarriedRun(run, unit)
         /\ \A n \in 1..N : f[n] = CarriedOn(f[n - 1], run[n], unit)
  BY CarriedSteps
<1>3. PICK t \in [0..N -> Int] :
         /\ t[0] = 0 /\ t[N] = sum /\ \A n \in 1..N : t[n] = t[n - 1] + run[n]
  BY SumSteps
<1> HIDE DEF N, sum
<1> DEFINE Right(n) == Balanced(f[n], t[n], unit)
           P == {n \in Nat : n <= N => Right(n)}
<1>4. Right(0)
  BY <1>1, <1>2, <1>3 DEF Mag, Balanced
<1>5. ASSUME NEW n \in Nat, n + 1 <= N, Right(n) PROVE Right(n + 1)
  <2>1. n \in 0..N /\ n + 1 \in 1..N /\ n + 1 - 1 = n
    BY <1>1, <1>5
  <2>2. f[n] \in Account /\ t[n] \in Int /\ run[n + 1] \in Int
    BY <1>1, <2>1
  <2>3. Balanced(CarriedOn(f[n], run[n + 1], unit), t[n] + run[n + 1], unit)
    BY <1>5, <2>2, AccountStaysRight
  <2>4. f[n + 1] = CarriedOn(f[n], run[n + 1], unit) /\ t[n + 1] = t[n] + run[n + 1]
    BY <1>2, <1>3, <2>1
  <2>5. QED
    BY <2>3, <2>4
<1> HIDE DEF Right
<1>6. 0 \in P /\ \A n \in Nat : n \in P => n + 1 \in P
  BY <1>1, <1>4, <1>5
<1>7. \A n \in Nat : n \in P
  <2> HIDE DEF P
  <2>1. QED
    BY <1>6, Grows
<1>8. Right(N)
  BY <1>1, <1>7
<1>9. QED
  BY <1>2, <1>3, <1>8 DEF Right, Balanced, sum

\* So do the runs that are tried, in fifths of a count.
COROLLARY GainLosesNothing == GainConserves
<1> SUFFICES ASSUME NEW run \in BoundedSeq({-7, -5, -2, 0, 3, 6, 9}, Pushes)
             PROVE  LET r   == CarriedRun(run, 5)
                        sum == FoldLeft(LAMBDA a, x : a + x, 0, run)
                    IN  /\ r.out * 5 + r.rem = sum
                        /\ Mag(r.rem) < 5
                        /\ sum = 0 => r.out = 0
  BY DEF GainConserves
<1>1. run \in Seq(Int) /\ 5 \in Nat \ {0}
  BY AlgorithmsAssumption DEF AlgorithmsAssumption, BoundedSeq, SeqOf
<1>2. QED
  BY <1>1, RunKeepsMovement

-----------------------------------------------------------------------------
(* Scroll or pinch.                                                        *)

\* Two fingers are never stuck between scroll and pinch, however they move and
\* whatever the thresholds: what is not chosen at twice its threshold has lost
\* to the other mode, and a mode is chosen only if enabled and past its own.
THEOREM ModeIsDecided ==
  ASSUME NEW p \in [scroll : BOOLEAN, pinch : BOOLEAN, startMove : Nat,
                    startDistance : Nat, ratio : Nat],
         NEW dx \in Int, NEW dy \in Int, NEW dist \in Int
  PROVE  LET m      == DecideMode(p, dx, dy, dist)
             center == Larger(Mag(dx), Mag(dy))
         IN  /\ (p.scroll /\ center >= 2 * p.startMove) \/
                (p.pinch /\ Mag(dist) >= 2 * p.startDistance) => m # "none"
             /\ m = "scroll" => p.scroll /\ center >= p.startMove
             /\ m = "pinch" => p.pinch /\ Mag(dist) >= p.startDistance
<1> DEFINE center == Larger(Mag(dx), Mag(dy))
           spread == Mag(dist) * 10 >= center * p.ratio
<1>1. center \in Int /\ Mag(dist) \in Int
  BY DEF Larger, Mag
<1>2. p.scroll \in BOOLEAN /\ p.pinch \in BOOLEAN /\ p.startMove \in Nat
      /\ p.startDistance \in Nat
  OBVIOUS
<1>3. DecideMode(p, dx, dy, dist)
        = LET scroll == p.scroll /\ center >= p.startMove
              pinch  == p.pinch /\ Mag(dist) >= p.startDistance
          IN  IF pinch /\ spread THEN "pinch"
              ELSE IF scroll /\ (~spread \/ ~p.pinch \/ center >= 2 * p.startMove) THEN "scroll"
              ELSE IF pinch /\ (~p.scroll \/ Mag(dist) >= 2 * p.startDistance) THEN "pinch"
              ELSE "none"
  BY DEF DecideMode
<1> HIDE DEF center, spread
<1>4. QED
  BY <1>1, <1>2, <1>3 DEF center

\* So no choice of thresholds that is tried leaves two fingers between scroll and
\* pinch (two_finger_decide_mode).
COROLLARY NoDeadZoneAnywhere == NoDeadZone
<1> SUFFICES ASSUME NEW p \in ModeParams, NEW dx \in Near, NEW dy \in Near, NEW dist \in Near
             PROVE  LET m      == DecideMode(p, dx, dy, dist)
                        center == Larger(Mag(dx), Mag(dy))
                    IN  /\ (p.scroll /\ center >= 2 * p.startMove) \/
                           (p.pinch /\ Mag(dist) >= 2 * p.startDistance) => m # "none"
                        /\ m = "scroll" => p.scroll /\ center >= p.startMove
                        /\ m = "pinch" => p.pinch /\ Mag(dist) >= p.startDistance
  BY DEF NoDeadZone
<1>1. p \in [scroll : BOOLEAN, pinch : BOOLEAN, startMove : Nat,
             startDistance : Nat, ratio : Nat]
  BY DEF ModeParams
<1>2. dx \in Int /\ dy \in Int /\ dist \in Int
  BY AlgorithmsAssumption DEF AlgorithmsAssumption, Near
<1>3. QED
  BY <1>1, <1>2, ModeIsDecided

\* In every state, so in the one where it is computed: gains stay in their range,
\* rounding keeps all movement, and two fingers always scroll or pinch, for the
\* values that are tried and whatever the bounds.
THEOREM MovementAlwaysGeared == Spec => []MovementIsGeared
<1>1. MovementIsGeared
  BY GainIsBetween, GainLosesNothing, NoDeadZoneAnywhere DEF MovementIsGeared
<1>2. QED
  BY <1>1, PTL

-----------------------------------------------------------------------------
(* Inertia.                                                                *)

\* A glide, whatever its speed, and the parameters it runs with: den is 1000 and
\* inertia_decay at most that.
Rides == [vx : Int, vy : Int, ax : Int, ay : Int, elapsed : Int, active : BOOLEAN,
          outX : Int, outY : Int]
Settings ==
  [interval : Nat \ {0}, maxDuration : Int, decay : Nat, den : Nat \ {0}, minVelocity : Int]

LEMMA RideFields ==
  ASSUME NEW g \in Rides
  PROVE  /\ g.vx \in Int /\ g.vy \in Int /\ g.ax \in Int /\ g.ay \in Int
         /\ g.elapsed \in Int /\ g.active \in BOOLEAN /\ g.outX \in Int /\ g.outY \in Int
         /\ DOMAIN g = {"vx", "vy", "ax", "ay", "elapsed", "active", "outX", "outY"}
  BY DEF Rides

\* Two glides that agree in every field are the same.
LEMMA SameRide ==
  ASSUME NEW g \in Rides, NEW h \in Rides,
         g.vx = h.vx, g.vy = h.vy, g.ax = h.ax, g.ay = h.ay, g.elapsed = h.elapsed,
         g.active = h.active, g.outX = h.outX, g.outY = h.outY
  PROVE  g = h
  BY DEF Rides

\* What makes a function a glide.
LEMMA IsRide ==
  ASSUME NEW g, g = [f \in {"vx", "vy", "ax", "ay", "elapsed", "active", "outX", "outY"}
                       |-> g[f]],
         g.vx \in Int, g.vy \in Int, g.ax \in Int, g.ay \in Int, g.elapsed \in Int,
         g.active \in BOOLEAN, g.outX \in Int, g.outY \in Int
  PROVE  g \in Rides
  BY DEF Rides

Slower(v, p) == CDiv(v * p.decay, p.den)

LEMMA SlowerIsInt ==
  ASSUME NEW v \in Int, NEW p \in Settings
  PROVE  Slower(v, p) \in Int
<1>1. v * p.decay \in Int /\ p.den \in Nat \ {0}
  BY DEF Settings
<1>2. QED
  BY <1>1, CDivRemainder DEF Slower

LEMMA AdvanceFields ==
  ASSUME NEW g \in Rides, NEW p \in Settings
  PROVE  /\ Advance(g, p) \in Rides
         /\ Advance(g, p).vx = Slower(g.vx, p) /\ Advance(g, p).vy = Slower(g.vy, p)
         /\ Advance(g, p).ax = g.ax + g.vx /\ Advance(g, p).ay = g.ay + g.vy
         /\ Advance(g, p).elapsed = g.elapsed /\ Advance(g, p).active = g.active
         /\ Advance(g, p).outX = g.outX /\ Advance(g, p).outY = g.outY
<1> DEFINE h == Advance(g, p)
           x == Slower(g.vx, p)
           y == Slower(g.vy, p)
<1>1. x \in Int /\ y \in Int
  BY RideFields, SlowerIsInt
<1>2. h = [g EXCEPT !.ax = g.ax + g.vx, !.ay = g.ay + g.vy, !.vx = x, !.vy = y]
  BY RideFields DEF Advance, Slower
<1> HIDE DEF h, x, y
<1>3. /\ h.vx = x /\ h.vy = y /\ h.ax = g.ax + g.vx /\ h.ay = g.ay + g.vy
      /\ h.elapsed = g.elapsed /\ h.active = g.active /\ h.outX = g.outX /\ h.outY = g.outY
  BY <1>2, RideFields
<1>4. h = [f \in {"vx", "vy", "ax", "ay", "elapsed", "active", "outX", "outY"} |-> h[f]]
  BY <1>2, RideFields
<1>5. h \in Rides
  BY <1>1, <1>3, <1>4, IsRide, RideFields
<1>6. QED
  BY <1>3, <1>5 DEF h, x, y

\* A function applied over and over.
IsOrbit(f, n, b, F) == f[0] = b /\ \A k \in 1..n : f[k] = F[f[k - 1]]

LEMMA OneOrbit ==
  ASSUME NEW n \in Nat, NEW S, NEW b \in S, NEW F \in [S -> S],
         NEW f \in [0..n + 1 -> S], IsOrbit(f, n + 1, b, F),
         NEW h \in [0..n -> S], IsOrbit(h, n, b, F)
  PROVE  h[n] = f[n]
<1> DEFINE P == {k \in Nat : k <= n => h[k] = f[k]}
<1>1. 0 \in P
  BY DEF IsOrbit
<1>2. ASSUME NEW k \in Nat, k \in P PROVE k + 1 \in P
  <2>1. CASE k + 1 <= n
    <3>1. k + 1 \in 1..n /\ k + 1 \in 1..n + 1 /\ k + 1 - 1 = k /\ h[k] = f[k]
      BY <1>2, <2>1
    <3>2. h[k + 1] = F[h[k]] /\ f[k + 1] = F[f[k]]
      BY <3>1 DEF IsOrbit
    <3>3. QED
      BY <3>1, <3>2
  <2>2. QED
    BY <2>1
<1>3. \A k \in Nat : k \in P
  <2> HIDE DEF P
  <2>1. QED
    BY <1>1, <1>2, Grows
<1>4. QED
  BY <1>3

Motion(p) == [g \in Rides |-> Advance(g, p)]

LEMMA AdvancedOrbit ==
  ASSUME NEW g \in Rides, NEW p \in Settings, NEW N \in Nat
  PROVE  \E f \in [0..N -> Rides] :
           IsOrbit(f, N, g, Motion(p)) /\ f[N] = Advanced(g, p, N)
<1> DEFINE run == [i \in 1..N |-> i]
           D == DOMAIN run
           E(h) == [s \in SUBSET D |->
                      IF s = {} THEN g ELSE Advance(h[s \ {Max(s)}], p)]
           step == [n \in 1..N |-> Motion(p)]
           fold == CHOOSE h : h = E(h)
<1>1. Advanced(g, p, N) = fold[D]
  BY DEF Advanced, FoldLeft, MapThenFoldSet
<1>2. D = 1..N
  OBVIOUS
<1>3. Motion(p) \in [Rides -> Rides] /\ step \in [1..N -> [Rides -> Rides]]
  BY AdvanceFields DEF Motion
<1>4. fold = E(fold)
  <2>1. PICK h \in [SUBSET (1..N) -> Rides] : IsFold(h, N, g, step)
    <3> HIDE DEF step
    <3>1. QED
      BY <1>3, FoldExists, Zenon
  <2>2. ASSUME NEW s \in SUBSET D
        PROVE  h[s] = IF s = {} THEN g ELSE Advance(h[s \ {Max(s)}], p)
    <3>1. h[s] = IF s = {} THEN g ELSE step[Max(s)][h[s \ {Max(s)}]]
      BY <1>2, <2>1 DEF IsFold
    <3>2. s # {} => Max(s) \in 1..N /\ h[s \ {Max(s)}] \in Rides
      BY <1>2, IndexLeft
    <3>3. QED
      BY <3>1, <3>2 DEF Motion
  <2>3. h = E(h)
    BY <1>2, <2>2
  <2>4. QED
    BY <2>3
<1> HIDE DEF fold
<1>5. fold[{}] = g
  BY <1>4
<1>6. ASSUME NEW n \in 1..N, fold[1..n - 1] \in Rides
      PROVE  fold[1..n] = step[n][fold[1..n - 1]]
  <2>1. /\ 1..n \in SUBSET (1..N) /\ 1..n # {}
        /\ Max(1..n) = n /\ (1..n) \ {Max(1..n)} = 1..n - 1
    BY IndexSets
  <2>2. fold[1..n] = Advance(fold[1..n - 1], p)
    BY <1>2, <1>4, <2>1
  <2>3. QED
    BY <1>6, <2>2 DEF Motion
<1>7. PICK f \in [0..N -> Rides] : IsCourse(f, N, g, step, fold[1..N])
  <2> HIDE DEF step
  <2>1. QED
    BY <1>3, <1>5, <1>6, FoldCourse, Zenon
<1>8. IsOrbit(f, N, g, Motion(p))
  BY <1>7 DEF IsCourse, IsOrbit
<1>9. QED
  BY <1>1, <1>2, <1>7, <1>8 DEF IsCourse

LEMMA AdvancedNext ==
  ASSUME NEW g \in Rides, NEW p \in Settings
  PROVE  /\ Advanced(g, p, 0) = g
         /\ \A n \in Nat : /\ Advanced(g, p, n) \in Rides
                           /\ Advanced(g, p, n + 1) = Advance(Advanced(g, p, n), p)
<1>1. Advanced(g, p, 0) = g
  <2>1. PICK f \in [0..0 -> Rides] :
          IsOrbit(f, 0, g, Motion(p)) /\ f[0] = Advanced(g, p, 0)
    BY AdvancedOrbit
  <2>2. QED
    BY <2>1 DEF IsOrbit
<1>2. ASSUME NEW n \in Nat
      PROVE  /\ Advanced(g, p, n) \in Rides
             /\ Advanced(g, p, n + 1) = Advance(Advanced(g, p, n), p)
  <2>1. PICK h \in [0..n -> Rides] :
          IsOrbit(h, n, g, Motion(p)) /\ h[n] = Advanced(g, p, n)
    BY AdvancedOrbit
  <2>2. n + 1 \in Nat /\ n + 1 \in 1..n + 1 /\ n + 1 - 1 = n /\ n \in 0..n
    OBVIOUS
  <2>3. PICK f \in [0..n + 1 -> Rides] :
          IsOrbit(f, n + 1, g, Motion(p)) /\ f[n + 1] = Advanced(g, p, n + 1)
    BY <2>2, AdvancedOrbit
  <2>4. Motion(p) \in [Rides -> Rides]
    BY AdvanceFields DEF Motion
  <2>5. h[n] = f[n]
    BY <2>1, <2>3, <2>4, OneOrbit
  <2>6. f[n + 1] = Motion(p)[f[n]]
    BY <2>2, <2>3 DEF IsOrbit
  <2>7. Advanced(g, p, n) \in Rides
    BY <2>1, <2>2
  <2>8. QED
    BY <2>1, <2>3, <2>5, <2>6, <2>7 DEF Motion
<1>3. QED
  BY <1>1, <1>2

\* One step, of the glide and of what was reported of it.
Fast(v, p) == ~(Mag(v) < p.minVelocity * Shift)

LEMMA FractionOK ==
  ASSUME NEW a \in Int
  PROVE  /\ Shift \in Nat \ {0}
         /\ a \div Shift \in Int /\ Fraction(a) \in Int /\ Fraction(a) \in 0..Shift - 1
         /\ a = Shift * (a \div Shift) + Fraction(a)
<1>1. Shift \in Nat \ {0}
  BY AlgorithmsAssumption DEF AlgorithmsAssumption
<1>2. QED
  BY <1>1 DEF Fraction

LEMMA StepFields ==
  ASSUME NEW g \in Rides, NEW p \in Settings, NEW n \in Nat, g.active
  PROVE  LET m == Advanced(g, p, n)
             s == Step(g, p, n)
         IN  /\ s \in Rides /\ m \in Rides
             /\ s.vx = m.vx /\ s.vy = m.vy
             /\ s.ax = Fraction(m.ax) /\ s.ay = Fraction(m.ay)
             /\ s.outX = m.outX + m.ax \div Shift /\ s.outY = m.outY + m.ay \div Shift
             /\ s.elapsed = g.elapsed + n * p.interval
             /\ s.active <=> /\ s.elapsed < p.maxDuration
                             /\ Fast(s.vx, p) \/ Fast(s.vy, p)
<1> DEFINE m == Advanced(g, p, n)
           s == Step(g, p, n)
           e == Elapsed(g, p, n)
           ox == m.outX + m.ax \div Shift
           oy == m.outY + m.ay \div Shift
           fx == Fraction(m.ax)
           fy == Fraction(m.ay)
           on == ~(e >= p.maxDuration \/ (~Fast(m.vx, p) /\ ~Fast(m.vy, p)))
<1>1. m \in Rides
  BY AdvancedNext
<1> HIDE DEF m
<1>2. s = [m EXCEPT !.outX = ox, !.outY = oy, !.ax = fx, !.ay = fy, !.elapsed = e,
                    !.active = on]
  <2>1. DOMAIN m = {"vx", "vy", "ax", "ay", "elapsed", "active", "outX", "outY"}
    BY <1>1, RideFields
  <2>2. QED
    BY <2>1 DEF Step, Fast, m
<1>3. e = g.elapsed + n * p.interval /\ e \in Int /\ p.maxDuration \in Int
  <2>1. p.interval \in Int /\ p.maxDuration \in Int
    BY DEF Settings
  <2>2. n * p.interval \in Int
    BY <2>1
  <2>3. QED
    BY <2>1, <2>2, RideFields DEF Elapsed
<1>4. m.ax \in Int /\ m.ay \in Int /\ m.outX \in Int /\ m.outY \in Int
      /\ m.vx \in Int /\ m.vy \in Int
  BY <1>1, RideFields
<1>5. ox \in Int /\ oy \in Int /\ fx \in Int /\ fy \in Int /\ on \in BOOLEAN
  <2>1. m.ax \div Shift \in Int /\ m.ay \div Shift \in Int /\ fx \in Int /\ fy \in Int
    <3>1. \A a \in Int : a \div Shift \in Int /\ Fraction(a) \in Int
      <4>1. Shift \in Int
        BY AlgorithmsAssumption DEF AlgorithmsAssumption
      <4>2. QED
        BY <4>1, FractionOK
    <3>2. QED
      BY <1>4, <3>1
  <2>2. QED
    BY <1>4, <2>1
<1>6. on <=> e < p.maxDuration /\ (Fast(m.vx, p) \/ Fast(m.vy, p))
  <2> HIDE DEF e
  <2>1. QED
    BY <1>3
<1> HIDE DEF s, e, ox, oy, fx, fy, on
<1>7. /\ s.vx = m.vx /\ s.vy = m.vy /\ s.ax = fx /\ s.ay = fy /\ s.outX = ox
      /\ s.outY = oy /\ s.elapsed = e /\ s.active = on
      /\ s = [f \in {"vx", "vy", "ax", "ay", "elapsed", "active", "outX", "outY"} |-> s[f]]
  <2>1. DOMAIN m = {"vx", "vy", "ax", "ay", "elapsed", "active", "outX", "outY"}
    BY <1>1, RideFields
  <2>2. QED
    BY <1>2, <2>1
<1>8. s \in Rides
  BY <1>3, <1>4, <1>5, <1>7, IsRide
<1>9. QED
  BY <1>1, <1>3, <1>6, <1>7, <1>8 DEF s, m, ox, oy, fx, fy

LEMMA RestStays == ASSUME NEW g, NEW p, NEW n, ~g.active PROVE Step(g, p, n) = g
  BY DEF Step

LEMMA OneStepOK ==
  ASSUME NEW g \in Rides, NEW p \in Settings
  PROVE  Step(g, p, 1) \in Rides
<1>1. CASE g.active
  BY <1>1, StepFields
<1>2. CASE ~g.active
  BY <1>2, RestStays
<1>3. QED
  BY <1>1, <1>2

Stepping(p) == [g \in Rides |-> Step(g, p, 1)]

LEMMA StepsOrbit ==
  ASSUME NEW g \in Rides, NEW p \in Settings, NEW N \in Nat
  PROVE  \E f \in [0..N -> Rides] :
           IsOrbit(f, N, g, Stepping(p)) /\ f[N] = Steps(g, p, N)
<1> DEFINE run == [i \in 1..N |-> i]
           D == DOMAIN run
           E(h) == [s \in SUBSET D |->
                      IF s = {} THEN g ELSE Step(h[s \ {Max(s)}], p, 1)]
           step == [n \in 1..N |-> Stepping(p)]
           fold == CHOOSE h : h = E(h)
<1>1. Steps(g, p, N) = fold[D]
  BY DEF Steps, FoldLeft, MapThenFoldSet
<1>2. D = 1..N
  OBVIOUS
<1>3. Stepping(p) \in [Rides -> Rides] /\ step \in [1..N -> [Rides -> Rides]]
  BY OneStepOK DEF Stepping
<1>4. fold = E(fold)
  <2>1. PICK h \in [SUBSET (1..N) -> Rides] : IsFold(h, N, g, step)
    <3> HIDE DEF step
    <3>1. QED
      BY <1>3, FoldExists, Zenon
  <2>2. ASSUME NEW s \in SUBSET D
        PROVE  h[s] = IF s = {} THEN g ELSE Step(h[s \ {Max(s)}], p, 1)
    <3>1. h[s] = IF s = {} THEN g ELSE step[Max(s)][h[s \ {Max(s)}]]
      BY <1>2, <2>1 DEF IsFold
    <3>2. s # {} => Max(s) \in 1..N /\ h[s \ {Max(s)}] \in Rides
      BY <1>2, IndexLeft
    <3>3. QED
      BY <3>1, <3>2 DEF Stepping
  <2>3. h = E(h)
    BY <1>2, <2>2
  <2>4. QED
    BY <2>3
<1> HIDE DEF fold
<1>5. fold[{}] = g
  BY <1>4
<1>6. ASSUME NEW n \in 1..N, fold[1..n - 1] \in Rides
      PROVE  fold[1..n] = step[n][fold[1..n - 1]]
  <2>1. /\ 1..n \in SUBSET (1..N) /\ 1..n # {}
        /\ Max(1..n) = n /\ (1..n) \ {Max(1..n)} = 1..n - 1
    BY IndexSets
  <2>2. fold[1..n] = Step(fold[1..n - 1], p, 1)
    BY <1>2, <1>4, <2>1
  <2>3. QED
    BY <1>6, <2>2 DEF Stepping
<1>7. PICK f \in [0..N -> Rides] : IsCourse(f, N, g, step, fold[1..N])
  <2> HIDE DEF step
  <2>1. QED
    BY <1>3, <1>5, <1>6, FoldCourse, Zenon
<1>8. IsOrbit(f, N, g, Stepping(p))
  BY <1>7 DEF IsCourse, IsOrbit
<1>9. QED
  BY <1>1, <1>2, <1>7, <1>8 DEF IsCourse

LEMMA StepsNext ==
  ASSUME NEW g \in Rides, NEW p \in Settings
  PROVE  /\ Steps(g, p, 0) = g
         /\ \A n \in Nat : /\ Steps(g, p, n) \in Rides
                           /\ Steps(g, p, n + 1) = Step(Steps(g, p, n), p, 1)
<1>1. Steps(g, p, 0) = g
  <2>1. PICK f \in [0..0 -> Rides] :
          IsOrbit(f, 0, g, Stepping(p)) /\ f[0] = Steps(g, p, 0)
    BY StepsOrbit
  <2>2. QED
    BY <2>1 DEF IsOrbit
<1>2. ASSUME NEW n \in Nat
      PROVE  /\ Steps(g, p, n) \in Rides
             /\ Steps(g, p, n + 1) = Step(Steps(g, p, n), p, 1)
  <2>1. PICK h \in [0..n -> Rides] :
          IsOrbit(h, n, g, Stepping(p)) /\ h[n] = Steps(g, p, n)
    BY StepsOrbit
  <2>2. n + 1 \in Nat /\ n + 1 \in 1..n + 1 /\ n + 1 - 1 = n /\ n \in 0..n
    OBVIOUS
  <2>3. PICK f \in [0..n + 1 -> Rides] :
          IsOrbit(f, n + 1, g, Stepping(p)) /\ f[n + 1] = Steps(g, p, n + 1)
    BY <2>2, StepsOrbit
  <2>4. Stepping(p) \in [Rides -> Rides]
    BY OneStepOK DEF Stepping
  <2>5. h[n] = f[n]
    BY <2>1, <2>3, <2>4, OneOrbit
  <2>6. f[n + 1] = Stepping(p)[f[n]]
    BY <2>2, <2>3 DEF IsOrbit
  <2>7. Steps(g, p, n) \in Rides
    BY <2>1, <2>2
  <2>8. QED
    BY <2>1, <2>3, <2>5, <2>6, <2>7 DEF Stepping
<1>3. QED
  BY <1>1, <1>2

\* A quotient and a remainder after one more term: the fraction that was kept is
\* all that matters.
LEMMA FractionCarries ==
  ASSUME NEW a \in Int, NEW v \in Int
  PROVE  /\ Fraction(Fraction(a) + v) = Fraction(a + v)
         /\ a \div Shift + (Fraction(a) + v) \div Shift = (a + v) \div Shift
<1> DEFINE q == a \div Shift
           r == Fraction(a)
           x == r + v
           y == a + v
<1>1. /\ q \in Int /\ r \in Int /\ a = Shift * q + r /\ Shift \in Nat \ {0}
  BY FractionOK, AlgorithmsAssumption DEF AlgorithmsAssumption
<1> HIDE DEF q, r
<1>2. x \in Int /\ y \in Int /\ y = Shift * q + x
  BY <1>1
<1> HIDE DEF x, y
<1> DEFINE u == x \div Shift
           w == Fraction(x)
<1>3. u \in Int /\ w \in 0..Shift - 1 /\ x = Shift * u + w
  BY <1>2, FractionOK
<1> HIDE DEF u, w
<1>4. Shift * (q + u) = Shift * q + Shift * u
  BY <1>1, <1>3
<1>5. Shift * q \in Int /\ Shift * u \in Int
  BY <1>1, <1>3
<1>6. Shift * (q + u) <= y /\ y < Shift * (q + u) + Shift /\ q + u \in Int
  BY <1>1, <1>2, <1>3, <1>4, <1>5
<1>7. y \div Shift = q + u
  BY <1>1, <1>2, <1>6, DivUnique
<1>8. y = Shift * (q + u) + Fraction(y) /\ Fraction(y) \in Int
  <2>1. y = Shift * (y \div Shift) + Fraction(y) /\ Fraction(y) \in 0..Shift - 1
    BY <1>2, FractionOK
  <2>2. QED
    BY <1>1, <1>7, <2>1
<1>9. Fraction(y) = w
  BY <1>2, <1>3, <1>4, <1>5, <1>8
<1>10. QED
  BY <1>7, <1>9 DEF q, r, x, y, u, w

\* The distance covered by the fixed point, in fractions of a count.
LEMMA FractionKeeps ==
  ASSUME NEW a \in Int, NEW o \in Int
  PROVE  (o + a \div Shift) * Shift + Fraction(a) = o * Shift + a
<1> DEFINE q == a \div Shift
           r == Fraction(a)
<1>1. /\ q \in Int /\ r \in Int /\ a = Shift * q + r /\ Shift \in Nat \ {0}
  BY FractionOK, AlgorithmsAssumption DEF AlgorithmsAssumption
<1> HIDE DEF q, r
<1>2. (o + q) * Shift = o * Shift + Shift * q /\ o * Shift \in Int /\ Shift * q \in Int
  BY <1>1
<1>3. QED
  BY <1>1, <1>2 DEF q, r

\* A step of one interval.
LEMMA OneStep ==
  ASSUME NEW g \in Rides, NEW p \in Settings, g.active
  PROVE  LET s == Step(g, p, 1)
         IN  /\ s \in Rides
             /\ s.vx = Slower(g.vx, p) /\ s.vy = Slower(g.vy, p)
             /\ s.ax = Fraction(g.ax + g.vx) /\ s.ay = Fraction(g.ay + g.vy)
             /\ s.outX = g.outX + (g.ax + g.vx) \div Shift
             /\ s.outY = g.outY + (g.ay + g.vy) \div Shift
             /\ s.elapsed = g.elapsed + p.interval
             /\ s.active <=> /\ s.elapsed < p.maxDuration
                             /\ Fast(s.vx, p) \/ Fast(s.vy, p)
<1> DEFINE m == Advanced(g, p, 1)
           s == Step(g, p, 1)
<1>1. m = Advance(g, p)
  <2>1. 0 \in Nat /\ 0 + 1 = 1
    OBVIOUS
  <2>2. Advanced(g, p, 0 + 1) = Advance(Advanced(g, p, 0), p) /\ Advanced(g, p, 0) = g
    BY AdvancedNext
  <2>3. QED
    BY <2>1, <2>2
<1>2. /\ s \in Rides
      /\ s.vx = m.vx /\ s.vy = m.vy /\ s.ax = Fraction(m.ax) /\ s.ay = Fraction(m.ay)
      /\ s.outX = m.outX + m.ax \div Shift /\ s.outY = m.outY + m.ay \div Shift
      /\ s.elapsed = g.elapsed + 1 * p.interval
      /\ s.active <=> s.elapsed < p.maxDuration /\ (Fast(s.vx, p) \/ Fast(s.vy, p))
  BY StepFields
<1>3. /\ m.vx = Slower(g.vx, p) /\ m.vy = Slower(g.vy, p) /\ m.ax = g.ax + g.vx
      /\ m.ay = g.ay + g.vy /\ m.outX = g.outX /\ m.outY = g.outY
  BY <1>1, AdvanceFields
<1>4. 1 * p.interval = p.interval
  BY DEF Settings
<1> HIDE DEF m, s
<1>5. QED
  BY <1>2, <1>3, <1>4 DEF s

\* A glide whose fraction is below one count, as every step leaves it.
Settled(g) == g \in Rides /\ g.ax \in 0..Shift - 1 /\ g.ay \in 0..Shift - 1

\* What a late work makes of n intervals, before and after the division, against
\* what n punctual works make of them.
Caught(m, s, o) ==
  /\ m.vx = s.vx /\ m.vy = s.vy /\ m.elapsed = o.elapsed /\ m.active
  /\ m.outX = o.outX /\ m.outY = o.outY
  /\ s.ax = Fraction(m.ax) /\ s.ay = Fraction(m.ay)
  /\ s.outX = o.outX + m.ax \div Shift /\ s.outY = o.outY + m.ay \div Shift

LEMMA CaughtNext ==
  ASSUME NEW o \in Rides, NEW m \in Rides, NEW s \in Rides, NEW p \in Settings,
         Caught(m, s, o), s.active
  PROVE  Caught(Advance(m, p), Step(s, p, 1), o)
<1> DEFINE a == Advance(m, p)
           t == Step(s, p, 1)
<1>1. /\ a.vx = Slower(m.vx, p) /\ a.vy = Slower(m.vy, p)
      /\ a.ax = m.ax + m.vx /\ a.ay = m.ay + m.vy
      /\ a.elapsed = m.elapsed /\ a.active = m.active
      /\ a.outX = m.outX /\ a.outY = m.outY
  BY AdvanceFields
<1>2. /\ t.vx = Slower(s.vx, p) /\ t.vy = Slower(s.vy, p)
      /\ t.ax = Fraction(s.ax + s.vx) /\ t.ay = Fraction(s.ay + s.vy)
      /\ t.outX = s.outX + (s.ax + s.vx) \div Shift
      /\ t.outY = s.outY + (s.ay + s.vy) \div Shift
  BY OneStep
<1> HIDE DEF a, t
<1>3. /\ m.ax \in Int /\ m.ay \in Int /\ m.vx \in Int /\ m.vy \in Int
      /\ o.outX \in Int /\ o.outY \in Int
  BY RideFields
<1>4. /\ Fraction(Fraction(m.ax) + m.vx) = Fraction(m.ax + m.vx)
      /\ m.ax \div Shift + (Fraction(m.ax) + m.vx) \div Shift = (m.ax + m.vx) \div Shift
      /\ Fraction(Fraction(m.ay) + m.vy) = Fraction(m.ay + m.vy)
      /\ m.ay \div Shift + (Fraction(m.ay) + m.vy) \div Shift = (m.ay + m.vy) \div Shift
  BY <1>3, FractionCarries
<1>5. /\ t.ax = Fraction(a.ax) /\ t.ay = Fraction(a.ay)
  BY <1>1, <1>2, <1>4 DEF Caught
<1>6. /\ t.outX = o.outX + a.ax \div Shift /\ t.outY = o.outY + a.ay \div Shift
  <2>1. \A x \in Int : x \div Shift \in Int
    BY FractionOK
  <2>2. \A x \in Int : Fraction(x) \in Int
    BY FractionOK, AlgorithmsAssumption DEF AlgorithmsAssumption
  <2>3. /\ m.ax \div Shift \in Int /\ (Fraction(m.ax) + m.vx) \div Shift \in Int
        /\ m.ay \div Shift \in Int /\ (Fraction(m.ay) + m.vy) \div Shift \in Int
    BY <1>3, <2>1, <2>2
  <2>4. /\ t.outX = (o.outX + m.ax \div Shift) + (Fraction(m.ax) + m.vx) \div Shift
        /\ t.outY = (o.outY + m.ay \div Shift) + (Fraction(m.ay) + m.vy) \div Shift
    BY <1>2 DEF Caught
  <2>5. \A x, y, z \in Int : (x + y) + z = x + (y + z)
    OBVIOUS
  <2>6. /\ t.outX = o.outX + (m.ax \div Shift + (Fraction(m.ax) + m.vx) \div Shift)
        /\ t.outY = o.outY + (m.ay \div Shift + (Fraction(m.ay) + m.vy) \div Shift)
    BY <1>3, <2>3, <2>4, <2>5
  <2>7. QED
    BY <1>1, <1>4, <2>6
<1>7. QED
  BY <1>1, <1>2, <1>5, <1>6 DEF Caught, a, t

\* A work that comes late, by any number of intervals, makes up for every one of
\* them: it leaves any glide where as many punctual works would have left it
\* (iqs9151_inertia_step).
THEOREM LateWorkCatchesUp ==
  ASSUME NEW g, Settled(g), NEW p \in Settings, NEW n \in Nat,
         Steps(g, p, n).active
  PROVE  Step(g, p, n + 1) = Steps(g, p, n + 1)
<1> DEFINE S(k) == Steps(g, p, k)
           M(k) == Advanced(g, p, k)
<1>1. g \in Rides /\ g.ax \in 0..Shift - 1 /\ g.ay \in 0..Shift - 1
  BY DEF Settled
<1>2. /\ S(0) = g /\ M(0) = g
      /\ \A k \in Nat : /\ S(k) \in Rides /\ S(k + 1) = Step(S(k), p, 1)
                        /\ M(k) \in Rides /\ M(k + 1) = Advance(M(k), p)
  BY <1>1, StepsNext, AdvancedNext
<1> HIDE DEF S, M
<1>3. \A k \in 0..n : S(k).active
  <2> DEFINE P == {j \in Nat : j <= n => S(n - j).active}
  <2>1. 0 \in P
    BY DEF S
  <2>2. ASSUME NEW j \in Nat, j \in P PROVE j + 1 \in P
    <3>1. CASE j + 1 <= n
      <4>1. PICK i \in Nat : i = n - (j + 1)
        BY <3>1, n - (j + 1) \in Nat
      <4>2. i + 1 = n - j
        BY <4>1
      <4>3. S(i + 1).active /\ S(i + 1) = Step(S(i), p, 1)
        BY <1>2, <2>2, <3>1, <4>2
      <4>4. S(i).active
        BY <4>3, RestStays
      <4>5. QED
        BY <4>1, <4>4
    <3>2. QED
      BY <3>1
  <2>3. \A j \in Nat : j \in P
    <3> HIDE DEF P
    <3>1. QED
      BY <2>1, <2>2, Grows
  <2>4. ASSUME NEW k \in 0..n PROVE S(k).active
    <3>1. n - k \in Nat /\ n - k <= n /\ n - (n - k) = k
      OBVIOUS
    <3>2. QED
      BY <2>3, <3>1
  <2>5. QED
    BY <2>4
<1>4. Caught(g, g, g)
  <2>1. ASSUME NEW a \in 0..Shift - 1 PROVE a \div Shift = 0 /\ Fraction(a) = a
    <3>1. Shift \in Nat \ {0} /\ a \in Int
      BY AlgorithmsAssumption DEF AlgorithmsAssumption
    <3>2. Shift * 0 <= a /\ a < Shift * 0 + Shift
      BY <3>1
    <3>3. a \div Shift = 0
      BY <3>1, <3>2, DivUnique
    <3>4. a = Shift * 0 + Fraction(a) /\ Fraction(a) \in Int
      BY <3>1, <3>3, FractionOK
    <3>5. QED
      BY <3>1, <3>3, <3>4
  <2>2. g.active
    BY <1>2, <1>3
  <2>3. g.outX \in Int /\ g.outY \in Int
    BY <1>1, RideFields
  <2>4. QED
    BY <1>1, <2>1, <2>2, <2>3 DEF Caught
<1> DEFINE Right(k) == Caught(M(k), S(k), g) /\ S(k).elapsed = g.elapsed + k * p.interval
           P == {k \in Nat : k <= n + 1 => Right(k)}
<1>5. p.interval \in Int /\ g.elapsed \in Int
  BY <1>1, RideFields DEF Settings
<1>6. Right(0)
  BY <1>2, <1>4, <1>5
<1>7. ASSUME NEW k \in Nat, k <= n, Right(k) PROVE Right(k + 1)
  <2>1. S(k).active /\ S(k) \in Rides /\ M(k) \in Rides
    BY <1>2, <1>3, <1>7
  <2>2. Caught(M(k + 1), S(k + 1), g)
    BY <1>1, <1>2, <1>7, <2>1, CaughtNext
  <2>3. S(k + 1).elapsed = S(k).elapsed + p.interval
    BY <1>2, <2>1, OneStep
  <2>4. (k + 1) * p.interval = k * p.interval + p.interval /\ k * p.interval \in Int
    BY <1>5
  <2>5. S(k + 1).elapsed = g.elapsed + (k + 1) * p.interval
    BY <1>5, <1>7, <2>3, <2>4
  <2>6. QED
    BY <2>2, <2>5
<1> HIDE DEF Right
<1>8. 0 \in P /\ \A k \in Nat : k \in P => k + 1 \in P
  BY <1>6, <1>7
<1>9. \A k \in Nat : k \in P
  <2> HIDE DEF P
  <2>1. QED
    BY <1>8, Grows
<1>10. Right(n + 1)
  BY <1>9
<1> DEFINE t == Step(g, p, n + 1)
           m == M(n + 1)
           s == S(n + 1)
<1>11. /\ t \in Rides
       /\ t.vx = m.vx /\ t.vy = m.vy /\ t.ax = Fraction(m.ax) /\ t.ay = Fraction(m.ay)
       /\ t.outX = m.outX + m.ax \div Shift /\ t.outY = m.outY + m.ay \div Shift
       /\ t.elapsed = g.elapsed + (n + 1) * p.interval
       /\ t.active <=> t.elapsed < p.maxDuration /\ (Fast(t.vx, p) \/ Fast(t.vy, p))
  <2>1. n + 1 \in Nat /\ g.active
    BY <1>2, <1>3
  <2>2. QED
    BY <1>1, <2>1, StepFields DEF M
<1>12. /\ s \in Rides /\ s.elapsed = g.elapsed + (n + 1) * p.interval
       /\ Caught(m, s, g)
       /\ s.active <=> s.elapsed < p.maxDuration /\ (Fast(s.vx, p) \/ Fast(s.vy, p))
  <2>1. n \in Nat /\ S(n).active /\ S(n) \in Rides /\ s = Step(S(n), p, 1) /\ s \in Rides
    BY <1>2, <1>3
  <2>2. QED
    BY <1>10, <2>1, OneStep DEF Right
<1> HIDE DEF t, m, s
<1>13. /\ t.vx = s.vx /\ t.vy = s.vy /\ t.ax = s.ax /\ t.ay = s.ay
       /\ t.elapsed = s.elapsed /\ t.outX = s.outX /\ t.outY = s.outY
  BY <1>11, <1>12 DEF Caught
<1>14. t.active = s.active
  <2>1. t.active <=> s.active
    BY <1>11, <1>12, <1>13
  <2>2. t.active \in BOOLEAN /\ s.active \in BOOLEAN
    BY <1>11, <1>12, RideFields
  <2>3. QED
    BY <2>1, <2>2
<1>15. t = s
  BY <1>11, <1>12, <1>13, <1>14, SameRide
<1>16. QED
  BY <1>15 DEF t, s, S

LEMMA StepSettles ==
  ASSUME NEW g, Settled(g), NEW p \in Settings
  PROVE  Settled(Step(g, p, 1))
<1>1. CASE g.active
  <2>1. /\ Step(g, p, 1) \in Rides
        /\ Step(g, p, 1).ax = Fraction(g.ax + g.vx) /\ Step(g, p, 1).ay = Fraction(g.ay + g.vy)
    BY <1>1, OneStep DEF Settled
  <2>2. g.ax + g.vx \in Int /\ g.ay + g.vy \in Int
    BY RideFields DEF Settled
  <2>3. QED
    BY <2>1, <2>2, FractionOK DEF Settled
<1>2. CASE ~g.active
  BY <1>2, RestStays
<1>3. QED
  BY <1>1, <1>2

LEMMA StepsSettle ==
  ASSUME NEW g, Settled(g), NEW p \in Settings
  PROVE  \A n \in Nat : Settled(Steps(g, p, n))
<1> DEFINE P == {n \in Nat : Settled(Steps(g, p, n))}
<1>1. g \in Rides
  BY DEF Settled
<1>2. 0 \in P
  BY <1>1, StepsNext
<1>3. ASSUME NEW n \in Nat, n \in P PROVE n + 1 \in P
  <2>1. Steps(g, p, n + 1) = Step(Steps(g, p, n), p, 1)
    BY <1>1, StepsNext
  <2>2. QED
    BY <1>3, <2>1, StepSettles
<1>4. \A n \in Nat : n \in P
  <2> HIDE DEF P
  <2>1. QED
    BY <1>2, <1>3, Grows
<1>5. QED
  BY <1>4

\* The speeds, one by one.
LEMMA SpeedsCourse ==
  ASSUME NEW v \in Int, NEW p \in Settings, NEW n \in Nat
  PROVE  /\ Speeds(v, p, n) \in [0..n -> Int]
         /\ Speeds(v, p, n)[0] = v
         /\ \A k \in 1..n : Speeds(v, p, n)[k] = Slower(Speeds(v, p, n)[k - 1], p)
<1> DEFINE g == [vx |-> v, vy |-> 0, ax |-> 0, ay |-> 0, elapsed |-> 0, active |-> TRUE,
                 outX |-> 0, outY |-> 0]
           E(V) == [k \in 0..n |->
                      IF k = 0 THEN v ELSE CDiv(V[k - 1] * p.decay, p.den)]
           W == [k \in 0..n |-> Advanced(g, p, k).vx]
           V == CHOOSE V : V = E(V)
<1>1. g \in Rides /\ g.vx = v
  BY DEF Rides
<1> HIDE DEF g
<1>2. W[0] = v
  BY <1>1, AdvancedNext
<1>3. ASSUME NEW k \in 0..n, k # 0 PROVE W[k] = CDiv(W[k - 1] * p.decay, p.den)
  <2>1. k - 1 \in Nat /\ k - 1 \in 0..n /\ k - 1 + 1 = k
    BY <1>3
  <2>2. Advanced(g, p, k - 1) \in Rides
        /\ Advanced(g, p, k) = Advance(Advanced(g, p, k - 1), p)
    BY <1>1, <2>1, AdvancedNext
  <2>3. Advanced(g, p, k).vx = Slower(Advanced(g, p, k - 1).vx, p)
    BY <2>2, AdvanceFields
  <2>4. QED
    BY <1>3, <2>1, <2>3 DEF Slower
<1>4. W = E(W)
  BY <1>2, <1>3
<1>5. V = E(V)
  BY <1>4
<1>6. Speeds(v, p, n) = V
  BY DEF Speeds
<1> HIDE DEF V
<1>7. V[0] = v
  BY <1>5
<1>8. ASSUME NEW k \in 1..n PROVE V[k] = Slower(V[k - 1], p)
  <2>1. k \in 0..n /\ k # 0
    OBVIOUS
  <2>2. QED
    BY <1>5, <2>1 DEF Slower
<1> DEFINE P == {k \in Nat : k <= n => V[k] \in Int}
<1>9. 0 \in P
  BY <1>7
<1>10. ASSUME NEW k \in Nat, k \in P PROVE k + 1 \in P
  <2>1. CASE k + 1 <= n
    <3>1. k + 1 \in 1..n /\ k + 1 - 1 = k /\ V[k] \in Int
      BY <1>10, <2>1
    <3>2. V[k + 1] = Slower(V[k], p)
      BY <1>8, <3>1
    <3>3. QED
      BY <3>1, <3>2, SlowerIsInt
  <2>2. QED
    BY <2>1
<1>11. \A k \in Nat : k \in P
  <2> HIDE DEF P
  <2>1. QED
    BY <1>9, <1>10, Grows
<1>12. V \in [0..n -> Int]
  <2>1. V = [k \in 0..n |-> V[k]]
    BY <1>5
  <2>2. \A k \in 0..n : V[k] \in Int
    BY <1>11
  <2>3. QED
    BY <2>1, <2>2
<1>13. QED
  BY <1>6, <1>7, <1>8, <1>12

\* The distance, speed by speed.
LEMMA DistanceNext ==
  ASSUME NEW n \in Nat, NEW V \in [0..n -> Int]
  PROVE  /\ Distance(V, 0) = 0
         /\ \A r \in 0..n : /\ Distance(V, r) \in Int
                            /\ Distance(V, r + 1) = Distance(V, r) + V[r]
<1> DEFINE Run(r) == [k \in 1..r |-> V[k - 1]]
<1>1. ASSUME NEW r \in 0..n + 1
      PROVE  \E f \in [0..r -> Int] : /\ f[0] = 0 /\ f[r] = Distance(V, r)
                                      /\ \A k \in 1..r : f[k] = f[k - 1] + V[k - 1]
  <2>1. \A k \in 1..r : k - 1 \in 0..n
    OBVIOUS
  <2>2. Run(r) \in Seq(Int) /\ Len(Run(r)) = r
    BY <2>1
  <2>3. Distance(V, r) = FoldLeft(LAMBDA a, x : a + x, 0, Run(r))
    BY DEF Distance, Total
  <2>4. \A k \in 1..r : Run(r)[k] = V[k - 1]
    OBVIOUS
  <2> HIDE DEF Run
  <2>5. PICK f \in [0..Len(Run(r)) -> Int] :
          /\ f[0] = 0 /\ f[Len(Run(r))] = FoldLeft(LAMBDA a, x : a + x, 0, Run(r))
          /\ \A k \in 1..Len(Run(r)) : f[k] = f[k - 1] + Run(r)[k]
    BY <2>2, SumSteps
  <2>6. QED
    BY <2>2, <2>3, <2>4, <2>5
<1> HIDE DEF Run
<1>2. Distance(V, 0) = 0
  <2>1. 0 \in 0..n + 1
    OBVIOUS
  <2>2. QED
    BY <1>1, <2>1
<1>3. ASSUME NEW r \in 0..n
      PROVE  Distance(V, r) \in Int /\ Distance(V, r + 1) = Distance(V, r) + V[r]
  <2>1. r \in 0..n + 1 /\ r + 1 \in 0..n + 1 /\ r + 1 \in 1..r + 1 /\ r + 1 - 1 = r
        /\ r \in 0..r
    OBVIOUS
  <2>2. PICK f \in [0..r -> Int] : /\ f[0] = 0 /\ f[r] = Distance(V, r)
                                   /\ \A k \in 1..r : f[k] = f[k - 1] + V[k - 1]
    BY <1>1, <2>1
  <2>3. PICK h \in [0..r + 1 -> Int] :
          /\ h[0] = 0 /\ h[r + 1] = Distance(V, r + 1)
          /\ \A k \in 1..r + 1 : h[k] = h[k - 1] + V[k - 1]
    BY <1>1, <2>1
  <2> DEFINE P == {k \in Nat : k <= r => f[k] = h[k]}
  <2>4. 0 \in P
    BY <2>2, <2>3
  <2>5. ASSUME NEW k \in Nat, k \in P PROVE k + 1 \in P
    <3>1. CASE k + 1 <= r
      <4>1. k + 1 \in 1..r /\ k + 1 \in 1..r + 1 /\ k + 1 - 1 = k /\ f[k] = h[k]
        BY <2>5, <3>1
      <4>2. f[k + 1] = f[k] + V[k] /\ h[k + 1] = h[k] + V[k]
        BY <2>2, <2>3, <4>1, SMTT(30)
      <4>3. QED
        BY <4>1, <4>2
    <3>2. QED
      BY <3>1
  <2>6. \A k \in Nat : k \in P
    <3> HIDE DEF P
    <3>1. QED
      BY <2>4, <2>5, Grows
  <2>7. f[r] = h[r]
    BY <2>6
  <2>8. h[r + 1] = h[r] + V[r]
    BY <2>1, <2>3
  <2>9. QED
    BY <2>1, <2>2, <2>3, <2>7, <2>8
<1>4. QED
  BY <1>2, <1>3

\* A speed that has decayed: towards zero, never across it.
Within(w, v) == (v >= 0 => w \in 0..v) /\ (v <= 0 => w \in v..0)

LEMMA SlowerIsWithin ==
  ASSUME NEW v \in Int, NEW w \in Int, Within(w, v), NEW p \in Settings, p.decay <= p.den
  PROVE  Within(Slower(w, p), v)
<1>1. /\ Slower(w, p) \in Int
      /\ w >= 0 => Slower(w, p) \in 0..w
      /\ w <= 0 => 0 - Slower(w, p) \in 0..0 - w
  BY Interpolates DEF Settings, Slower
<1>2. QED
  BY <1>1 DEF Within

\* An axis of a glide after r intervals: what was reported and the fraction kept
\* make up the distance.
Covered(o, a, v, V, r) ==
  /\ v = V[r] /\ a \in 0..Shift - 1
  /\ o * Shift + a = Distance(V, r)

LEMMA CoveredNext ==
  ASSUME NEW n \in Nat, NEW V \in [0..n -> Int], NEW r \in 0..n - 1,
         NEW o \in Int, NEW a \in Int, NEW v \in Int, NEW p,
         V[r + 1] = Slower(V[r], p), Covered(o, a, v, V, r)
  PROVE  Covered(o + (a + v) \div Shift, Fraction(a + v), Slower(v, p), V, r + 1)
<1>1. r \in 0..n /\ a + v \in Int
  OBVIOUS
<1>2. Distance(V, r) \in Int /\ Distance(V, r + 1) = Distance(V, r) + V[r]
  BY <1>1, DistanceNext
<1>3. (o + (a + v) \div Shift) * Shift + Fraction(a + v) = o * Shift + (a + v)
  BY <1>1, FractionKeeps
<1>4. Shift \in Nat \ {0}
  BY AlgorithmsAssumption DEF AlgorithmsAssumption
<1>5. o * Shift \in Int
  BY <1>4
<1>6. o * Shift + (a + v) = Distance(V, r + 1)
  BY <1>2, <1>5 DEF Covered
<1>7. Fraction(a + v) \in 0..Shift - 1
  BY <1>1, FractionOK
<1>8. QED
  BY <1>3, <1>6, <1>7 DEF Covered

\* Fixed point loses nothing, whatever the speeds, the decay and the number of
\* steps: on each axis the counts reported and the fraction kept make up the
\* distance of as many speeds as intervals were counted, less than one count is
\* kept back, and the glide slows down without ever turning round
\* (iqs9151_inertia_step).
THEOREM GlideKeepsDistance ==
  ASSUME NEW g \in Rides, g.ax = 0, g.ay = 0, g.elapsed = 0, g.outX = 0, g.outY = 0,
         NEW p \in Settings, p.decay <= p.den, NEW n \in Nat
  PROVE  LET end == Steps(g, p, n)
         IN  \E ran \in 0..n :
               /\ end.elapsed = ran * p.interval /\ (end.active => ran = n)
               /\ end.outX * Shift + end.ax = Distance(Speeds(g.vx, p, n), ran)
               /\ end.outY * Shift + end.ay = Distance(Speeds(g.vy, p, n), ran)
               /\ end.ax \in 0..Shift - 1 /\ end.ay \in 0..Shift - 1
               /\ Within(end.vx, g.vx) /\ Within(end.vy, g.vy)
<1> DEFINE V == Speeds(g.vx, p, n)
           U == Speeds(g.vy, p, n)
           S(k) == Steps(g, p, k)
           At2(s, r) ==
             /\ s.elapsed = r * p.interval
             /\ Covered(s.outX, s.ax, s.vx, V, r) /\ Covered(s.outY, s.ay, s.vy, U, r)
             /\ Within(s.vx, g.vx) /\ Within(s.vy, g.vy)
           Right(k) == \E r \in 0..k : At2(S(k), r) /\ (S(k).active => r = k)
           P == {k \in Nat : k <= n => Right(k)}
<1>1. g.vx \in Int /\ g.vy \in Int /\ p.interval \in Int
  BY RideFields DEF Settings
<1>2. /\ V \in [0..n -> Int] /\ V[0] = g.vx /\ \A k \in 1..n : V[k] = Slower(V[k - 1], p)
      /\ U \in [0..n -> Int] /\ U[0] = g.vy /\ \A k \in 1..n : U[k] = Slower(U[k - 1], p)
  BY <1>1, SpeedsCourse
<1>3. S(0) = g /\ \A k \in Nat : S(k) \in Rides /\ S(k + 1) = Step(S(k), p, 1)
  BY StepsNext
<1> HIDE DEF V, U, S
<1>4. Right(0)
  <2>1. Distance(V, 0) = 0 /\ Distance(U, 0) = 0
    BY <1>2, DistanceNext
  <2>2. Shift \in Nat \ {0}
    BY AlgorithmsAssumption DEF AlgorithmsAssumption
  <2>3. 0 * p.interval = 0 /\ 0 * Shift = 0
    BY <1>1, <2>2
  <2>4. Covered(g.outX, g.ax, g.vx, V, 0) /\ Covered(g.outY, g.ay, g.vy, U, 0)
    BY <1>2, <2>1, <2>2, <2>3 DEF Covered
  <2>5. Within(g.vx, g.vx) /\ Within(g.vy, g.vy)
    BY <1>1 DEF Within
  <2>6. At2(S(0), 0) /\ 0 \in 0..0
    BY <1>3, <2>3, <2>4, <2>5
  <2> HIDE DEF At2
  <2>7. QED
    BY <2>6
<1>5. ASSUME NEW k \in Nat, k + 1 <= n, Right(k) PROVE Right(k + 1)
  <2>1. PICK r \in 0..k : At2(S(k), r) /\ (S(k).active => r = k)
    BY <1>5
  <2> DEFINE s == S(k)
             t == S(k + 1)
  <2>2. s \in Rides /\ t = Step(s, p, 1)
    BY <1>3
  <2>3. /\ s.elapsed = r * p.interval
        /\ Covered(s.outX, s.ax, s.vx, V, r) /\ Covered(s.outY, s.ay, s.vy, U, r)
        /\ Within(s.vx, g.vx) /\ Within(s.vy, g.vy)
    BY <2>1
  <2>4. /\ s.vx \in Int /\ s.vy \in Int /\ s.ax \in Int /\ s.ay \in Int
        /\ s.outX \in Int /\ s.outY \in Int
    BY <2>2, RideFields
  <2>5. CASE ~s.active
    <3>1. t = s
      BY <2>2, <2>5, RestStays
    <3>2. At2(t, r) /\ r \in 0..k + 1 /\ ~t.active
      BY <2>1, <2>5, <3>1
    <3> HIDE DEF At2, t
    <3>3. QED
      BY <3>2 DEF t
  <2>6. CASE s.active
    <3>1. r = k
      BY <2>1, <2>6
    <3>2. /\ t.vx = Slower(s.vx, p) /\ t.vy = Slower(s.vy, p)
          /\ t.ax = Fraction(s.ax + s.vx) /\ t.ay = Fraction(s.ay + s.vy)
          /\ t.outX = s.outX + (s.ax + s.vx) \div Shift
          /\ t.outY = s.outY + (s.ay + s.vy) \div Shift
          /\ t.elapsed = s.elapsed + p.interval
      BY <2>2, <2>6, OneStep
    <3> HIDE DEF s, t
    <3>3. r \in 0..n - 1 /\ r + 1 \in 1..n /\ r + 1 - 1 = r
      BY <1>5, <3>1
    <3>4. V[r + 1] = Slower(V[r], p) /\ U[r + 1] = Slower(U[r], p)
      BY <1>2, <3>3
    <3>5. Covered(t.outX, t.ax, t.vx, V, r + 1)
      <4>1. Covered(s.outX + (s.ax + s.vx) \div Shift, Fraction(s.ax + s.vx),
                    Slower(s.vx, p), V, r + 1)
        BY <1>2, <2>3, <2>4, <3>3, <3>4, CoveredNext
      <4>2. QED
        BY <3>2, <4>1
    <3>6. Covered(t.outY, t.ay, t.vy, U, r + 1)
      <4>1. Covered(s.outY + (s.ay + s.vy) \div Shift, Fraction(s.ay + s.vy),
                    Slower(s.vy, p), U, r + 1)
        BY <1>2, <2>3, <2>4, <3>3, <3>4, CoveredNext
      <4>2. QED
        BY <3>2, <4>1
    <3>7. Within(t.vx, g.vx) /\ Within(t.vy, g.vy)
      BY <1>1, <2>3, <2>4, <3>2, SlowerIsWithin
    <3>8. t.elapsed = (r + 1) * p.interval
      <4>1. (r + 1) * p.interval = r * p.interval + p.interval
        BY <1>1, <3>3
      <4>2. QED
        BY <2>3, <3>2, <4>1
    <3>9. At2(t, r + 1) /\ r + 1 \in 0..k + 1 /\ r + 1 = k + 1
      BY <3>1, <3>5, <3>6, <3>7, <3>8
    <3> HIDE DEF At2
    <3>10. QED
      BY <3>9 DEF t
  <2>7. QED
    BY <2>5, <2>6
<1> HIDE DEF Right
<1>6. 0 \in P /\ \A k \in Nat : k \in P => k + 1 \in P
  BY <1>4, <1>5
<1>7. \A k \in Nat : k \in P
  <2> HIDE DEF P
  <2>1. QED
    BY <1>6, Grows
<1>8. Right(n)
  BY <1>7
<1>9. PICK r \in 0..n : At2(S(n), r) /\ (S(n).active => r = n)
  BY <1>8 DEF Right
<1>10. QED
  BY <1>9 DEF Covered, S, V, U

\* The glides that are tried.
LEMMA StartsAreRides ==
  ASSUME NEW g \in Starts
  PROVE  /\ g \in Rides /\ Settled(g)
         /\ g.ax = 0 /\ g.ay = 0 /\ g.elapsed = 0 /\ g.outX = 0 /\ g.outY = 0
<1>1. PICK vx \in Int, vy \in Int : g = StartGlide(vx, vy, 1)
  BY DEF Starts
<1>2. Shift \in Nat \ {0}
  BY AlgorithmsAssumption DEF AlgorithmsAssumption
<1>3. StartAxis(vx, 1) \in Int /\ StartAxis(vy, 1) \in Int
  BY DEF StartAxis
<1>4. /\ g.vx \in Int /\ g.vy \in Int /\ g.active \in BOOLEAN
      /\ g.ax = 0 /\ g.ay = 0 /\ g.elapsed = 0 /\ g.outX = 0 /\ g.outY = 0
      /\ g = [f \in {"vx", "vy", "ax", "ay", "elapsed", "active", "outX", "outY"} |-> g[f]]
  BY <1>1, <1>3 DEF StartGlide
<1>5. g \in Rides
  BY <1>4, IsRide
<1>6. QED
  BY <1>2, <1>4, <1>5 DEF Settled

LEMMA GlideParamsOK ==
  /\ GlideParams \in Settings /\ GlideParams.decay <= GlideParams.den
  /\ GlideParams.interval = 1 /\ GlideParams.maxDuration \in Nat
  BY DEF GlideParams, Settings

\* So does a glide of any of the speeds that are tried, however many steps it has
\* gone (iqs9151_inertia_step).
COROLLARY GlideAlwaysConserves == GlideConserves
<1> SUFFICES ASSUME NEW g \in Starts, NEW n \in 0..GlideParams.maxDuration
             PROVE  LET end == Steps(g, GlideParams, n)
                    IN  /\ end.outX * Shift + end.ax
                             = Distance(Speeds(g.vx, GlideParams, n), end.elapsed)
                        /\ end.ax \in 0..Shift - 1
                        /\ Mag(end.vx) <= Mag(g.vx) /\ end.vx * g.vx >= 0
  BY DEF GlideConserves
<1> DEFINE end == Steps(g, GlideParams, n)
<1>1. n \in Nat
  BY GlideParamsOK
<1>2. PICK ran \in 0..n :
        /\ end.elapsed = ran * GlideParams.interval
        /\ end.outX * Shift + end.ax = Distance(Speeds(g.vx, GlideParams, n), ran)
        /\ end.ax \in 0..Shift - 1 /\ Within(end.vx, g.vx)
  BY <1>1, StartsAreRides, GlideParamsOK, GlideKeepsDistance
<1>3. end.elapsed = ran
  BY <1>1, <1>2, GlideParamsOK
<1>4. g.vx \in Int
  BY StartsAreRides, RideFields
<1>5. end.vx \in Int
  BY <1>2, <1>4 DEF Within
<1>6. ASSUME NEW w \in Int, NEW v \in Int, Within(w, v) PROVE Mag(w) <= Mag(v) /\ w * v >= 0
  <2>1. CASE v >= 0
    <3>1. w \in 0..v
      BY <1>6, <2>1 DEF Within
    <3>2. w * 0 <= w * v
      BY <2>1, <3>1, MulMono
    <3>3. QED
      BY <2>1, <3>1, <3>2 DEF Mag
  <2>2. CASE v < 0
    <3>1. w \in v..0 /\ 0 - w \in Nat
      BY <1>6, <2>2 DEF Within
    <3>2. (0 - w) * v <= (0 - w) * 0
      BY <2>2, <3>1, MulMono
    <3>3. (0 - w) * v = 0 - w * v
      OBVIOUS
    <3>4. QED
      BY <2>2, <3>1, <3>2, <3>3 DEF Mag
  <2>3. QED
    BY <2>1, <2>2
<1> HIDE DEF end
<1>7. Mag(end.vx) <= Mag(g.vx) /\ end.vx * g.vx >= 0
  BY <1>2, <1>4, <1>5, <1>6
<1>8. QED
  BY <1>2, <1>3, <1>7 DEF end

\* So does a work that is late after any of the glides and steps that are tried
\* (iqs9151_inertia_step).
COROLLARY LateWorksAlwaysCatchUp == LateStepCatchesUp
<1> SUFFICES ASSUME NEW g \in Starts, NEW n \in 1..3, NEW k \in 1..3,
                    Steps(Steps(g, GlideParams, k), GlideParams, n - 1).active
             PROVE  Step(Steps(g, GlideParams, k), GlideParams, n)
                      = Steps(Steps(g, GlideParams, k), GlideParams, n)
  BY DEF LateStepCatchesUp
<1>1. Settled(Steps(g, GlideParams, k))
  BY StartsAreRides, GlideParamsOK, StepsSettle
<1>2. n - 1 \in Nat /\ n - 1 + 1 = n
  OBVIOUS
<1>3. QED
  BY <1>1, <1>2, GlideParamsOK, LateWorkCatchesUp

-----------------------------------------------------------------------------
(* The ring of recent movement.                                            *)

Samples == [ms : Int, x : Int, y : Int]
Rings   == [samples : [0..Size - 1 -> Samples], head : 0..Size - 1, count : 0..Size]

LEMMA SizeOK == Size \in Nat \ {0}
  BY AlgorithmsAssumption DEF AlgorithmsAssumption

\* Once around the ring.
LEMMA Around ==
  ASSUME NEW x \in 0..2 * Size - 1
  PROVE  x % Size = IF x < Size THEN x ELSE x - Size
<1>1. Size \in Nat \ {0} /\ x \in Int
  BY SizeOK
<1> DEFINE q == x \div Size
           r == x % Size
<1>2. q \in Int /\ r \in 0..Size - 1 /\ x = Size * q + r
  BY <1>1
<1>3. CASE x < Size
  <2>1. Size * 0 <= x /\ x < Size * 0 + Size
    BY <1>1, <1>3
  <2>2. q = 0
    BY <1>1, <2>1, DivUnique
  <2> HIDE DEF q, r
  <2>3. QED
    BY <1>1, <1>2, <1>3, <2>2 DEF r
<1>4. CASE x >= Size
  <2>1. Size * 1 <= x /\ x < Size * 1 + Size
    BY <1>1, <1>4
  <2>2. q = 1
    BY <1>1, <2>1, DivUnique
  <2> HIDE DEF q, r
  <2>3. QED
    BY <1>1, <1>2, <1>4, <2>2 DEF r
<1>5. QED
  BY <1>1, <1>3, <1>4

\* The place of the sample i before the newest, when the next goes to head.
LEMMA PlaceOf ==
  ASSUME NEW head \in 0..Size - 1, NEW i \in 0..Size - 1
  PROVE  (head + Size - 1 - i) % Size
           = IF i < head THEN head - 1 - i ELSE head + Size - 1 - i
<1> DEFINE x == head + Size - 1 - i
<1>1. x \in 0..2 * Size - 1 /\ (x < Size <=> head <= i)
  BY SizeOK
<1> HIDE DEF x
<1>2. x % Size = IF x < Size THEN x ELSE x - Size
  BY <1>1, Around
<1>3. QED
  BY <1>1, <1>2, SizeOK DEF x

LEMMA NextHead ==
  ASSUME NEW head \in 0..Size - 1
  PROVE  (head + 1) % Size = IF head = Size - 1 THEN 0 ELSE head + 1
<1>1. head + 1 \in 0..2 * Size - 1
  BY SizeOK
<1>2. QED
  BY <1>1, Around, SizeOK

LEMMA EmptyRingOK == EmptyHistory \in Rings
  BY SizeOK DEF EmptyHistory, Rings, Samples

NoMove(s) == s.x = 0 /\ s.y = 0

\* What a frame that moved does to the ring.
LEMMA PushFields ==
  ASSUME NEW h \in Rings, NEW s \in Samples, ~NoMove(s)
  PROVE  LET g == Push(h, s)
         IN  /\ g.samples = [h.samples EXCEPT ![h.head] = s]
             /\ g.head = (h.head + 1) % Size
             /\ g.count = IF h.count < Size THEN h.count + 1 ELSE Size
  BY DEF Push, NoMove

LEMMA PushOK ==
  ASSUME NEW h \in Rings, NEW s \in Samples
  PROVE  Push(h, s) \in Rings
<1>1. CASE NoMove(s)
  BY <1>1 DEF Push, NoMove
<1>2. CASE ~NoMove(s)
  <2>1. /\ h.samples \in [0..Size - 1 -> Samples] /\ h.head \in 0..Size - 1
        /\ h.count \in 0..Size
    BY DEF Rings
  <2>2. (h.head + 1) % Size \in 0..Size - 1
    BY <2>1, NextHead, SizeOK
  <2>3. (IF h.count < Size THEN h.count + 1 ELSE Size) \in 0..Size
    BY <2>1, SizeOK
  <2>4. [h.samples EXCEPT ![h.head] = s] \in [0..Size - 1 -> Samples]
    BY <2>1
  <2>5. QED
    BY <1>2, <2>2, <2>3, <2>4 DEF Push, NoMove, Rings
<1>3. QED
  BY <1>1, <1>2

\* The sample i before the newest, after one more frame that moved.
LEMMA AtNext ==
  ASSUME NEW h \in Rings, NEW s \in Samples, ~NoMove(s)
  PROVE  /\ At(Push(h, s), 0) = s
         /\ \A i \in 0..Size - 1 : i + 1 < Size => At(Push(h, s), i + 1) = At(h, i)
<1> DEFINE g == Push(h, s)
           head == h.head
           Place(k, i) == (k + Size - 1 - i) % Size
<1>1. /\ h.samples \in [0..Size - 1 -> Samples] /\ head \in 0..Size - 1
  BY DEF Rings
<1>2. g.samples = [h.samples EXCEPT ![head] = s] /\ g.head = (head + 1) % Size
  BY PushFields
<1> HIDE DEF g, head
<1>3. g.head = (IF head = Size - 1 THEN 0 ELSE head + 1) /\ g.head \in 0..Size - 1
  BY <1>1, <1>2, NextHead, SizeOK
<1>4. \A k \in 0..Size - 1, i \in 0..Size - 1 :
        Place(k, i) = IF i < k THEN k - 1 - i ELSE k + Size - 1 - i
  BY PlaceOf
<1>5. \A i : At(g, i) = g.samples[Place(g.head, i)]
  BY DEF At
<1>6. \A i : At(h, i) = h.samples[Place(head, i)]
  BY DEF At, head
<1> HIDE DEF Place
<1>7. At(g, 0) = s
  <2>1. Place(g.head, 0) = head
    <3>1. 0 \in 0..Size - 1
      BY SizeOK
    <3>2. Place(g.head, 0) = IF 0 < g.head THEN g.head - 1 - 0 ELSE g.head + Size - 1 - 0
      BY <1>3, <1>4, <3>1
    <3>3. QED
      BY <1>1, <1>3, <3>2, SizeOK
  <2>2. QED
    BY <1>1, <1>2, <1>5, <2>1
<1>8. ASSUME NEW i \in 0..Size - 1, i + 1 < Size PROVE At(g, i + 1) = At(h, i)
  <2>1. Place(g.head, i + 1) = Place(head, i) /\ Place(head, i) # head
        /\ Place(head, i) \in 0..Size - 1
    <3>1. i + 1 \in 0..Size - 1
      BY <1>8, SizeOK
    <3>2. Place(g.head, i + 1)
            = IF i + 1 < g.head THEN g.head - 1 - (i + 1) ELSE g.head + Size - 1 - (i + 1)
      BY <1>3, <1>4, <3>1
    <3>3. Place(head, i) = IF i < head THEN head - 1 - i ELSE head + Size - 1 - i
      BY <1>1, <1>4
    <3>4. QED
      BY <1>1, <1>3, <1>8, <3>2, <3>3, SizeOK
  <2>2. QED
    BY <1>1, <1>2, <1>5, <1>6, <2>1
<1>9. QED
  BY <1>7, <1>8 DEF g

\* The frames that moved among the first n, and how many moved after one of them.
MovedAt(run, n)   == {i \in 1..n : ~NoMove(run[i])}
RankAt(run, n, i) == Cardinality({j \in MovedAt(run, n) : j > i})

LEMMA MovedIsFinite ==
  ASSUME NEW run, NEW n \in Nat
  PROVE  /\ IsFiniteSet(MovedAt(run, n)) /\ Cardinality(MovedAt(run, n)) \in Nat
         /\ \A i : /\ IsFiniteSet({j \in MovedAt(run, n) : j > i})
                   /\ RankAt(run, n, i) \in Nat
<1>1. IsFiniteSet(1..n)
  BY FS_Interval
<1>2. \A s \in SUBSET (1..n) : IsFiniteSet(s) /\ Cardinality(s) \in Nat
  BY <1>1, FS_Subset, FS_CardinalityType
<1>3. MovedAt(run, n) \in SUBSET (1..n)
  BY DEF MovedAt
<1>4. ASSUME NEW i PROVE {j \in MovedAt(run, n) : j > i} \in SUBSET (1..n)
  BY <1>3
<1>5. QED
  BY <1>2, <1>3, <1>4 DEF RankAt

LEMMA StillNext ==
  ASSUME NEW run, NEW n \in Nat, NoMove(run[n + 1])
  PROVE  MovedAt(run, n + 1) = MovedAt(run, n)
<1>1. 1..n + 1 = (1..n) \cup {n + 1}
  OBVIOUS
<1>2. QED
  BY <1>1 DEF MovedAt

LEMMA MovedNext ==
  ASSUME NEW run, NEW n \in Nat, ~NoMove(run[n + 1])
  PROVE  /\ MovedAt(run, n + 1) = MovedAt(run, n) \cup {n + 1}
         /\ n + 1 \notin MovedAt(run, n)
         /\ Cardinality(MovedAt(run, n + 1)) = Cardinality(MovedAt(run, n)) + 1
         /\ RankAt(run, n + 1, n + 1) = 0
         /\ \A i \in MovedAt(run, n) : RankAt(run, n + 1, i) = RankAt(run, n, i) + 1
<1>1. 1..n + 1 = (1..n) \cup {n + 1} /\ n + 1 \notin 1..n
  OBVIOUS
<1>2. MovedAt(run, n + 1) = MovedAt(run, n) \cup {n + 1} /\ n + 1 \notin MovedAt(run, n)
  BY <1>1 DEF MovedAt
<1>3. Cardinality(MovedAt(run, n + 1)) = Cardinality(MovedAt(run, n)) + 1
  BY <1>2, MovedIsFinite, FS_AddElement
<1>4. RankAt(run, n + 1, n + 1) = 0
  <2>1. {j \in MovedAt(run, n + 1) : j > n + 1} = {}
    BY DEF MovedAt
  <2>2. QED
    BY <2>1, FS_EmptySet DEF RankAt
<1>5. ASSUME NEW i \in MovedAt(run, n)
      PROVE  RankAt(run, n + 1, i) = RankAt(run, n, i) + 1
  <2> DEFINE A == {j \in MovedAt(run, n) : j > i}
  <2>1. i \in 1..n
    BY DEF MovedAt
  <2>2. {j \in MovedAt(run, n + 1) : j > i} = A \cup {n + 1} /\ n + 1 \notin A
    BY <1>2, <2>1
  <2>3. IsFiniteSet(A)
    BY MovedIsFinite
  <2> HIDE DEF A
  <2>4. Cardinality(A \cup {n + 1}) = Cardinality(A) + 1
    BY <2>2, <2>3, FS_AddElement
  <2>5. QED
    BY <2>2, <2>4 DEF RankAt, A
<1>6. QED
  BY <1>2, <1>3, <1>4, <1>5

\* A ring that holds the newest movement of the first n frames.
Ringed(h, run, n) ==
  LET M       == MovedAt(run, n)
      rank(i) == RankAt(run, n, i)
  IN  /\ h \in Rings
      /\ h.count = IF Cardinality(M) < Size THEN Cardinality(M) ELSE Size
      /\ \A i \in M : /\ rank(i) < Cardinality(M)
                      /\ rank(i) < Size => At(h, rank(i)) = run[i]
      /\ \A r \in Nat : r < Cardinality(M) => \E i \in M : rank(i) = r
      /\ \A i, j \in M : i < j => rank(j) < rank(i)

LEMMA RingedNext ==
  ASSUME NEW run \in Seq(Samples), NEW n \in Nat, n + 1 \in 1..Len(run),
         NEW h \in Rings, Ringed(h, run, n)
  PROVE  Ringed(Push(h, run[n + 1]), run, n + 1)
<1> DEFINE s == run[n + 1]
           g == Push(h, s)
           M == MovedAt(run, n)
           T == MovedAt(run, n + 1)
           rank(i) == RankAt(run, n, i)
           next(i) == RankAt(run, n + 1, i)
           c == Cardinality(M)
<1>1. s \in Samples /\ g \in Rings
  BY PushOK
<1>2. /\ h.count = IF c < Size THEN c ELSE Size
      /\ \A i \in M : rank(i) < c /\ (rank(i) < Size => At(h, rank(i)) = run[i])
      /\ \A r \in Nat : r < c => \E i \in M : rank(i) = r
      /\ \A i, j \in M : i < j => rank(j) < rank(i)
  BY DEF Ringed
<1>3. CASE NoMove(s)
  <2>1. T = M /\ g = h /\ \A i : next(i) = rank(i)
    <3>1. T = M
      BY <1>3, StillNext
    <3>2. QED
      BY <1>3, <3>1 DEF Push, NoMove, RankAt
  <2> HIDE DEF s, g
  <2>2. Ringed(g, run, n + 1)
    BY <1>1, <1>2, <2>1 DEF Ringed
  <2>3. QED
    BY <2>2 DEF g, s
<1>4. CASE ~NoMove(s)
  <2>1. /\ T = M \cup {n + 1} /\ n + 1 \notin M /\ Cardinality(T) = c + 1
        /\ next(n + 1) = 0 /\ \A i \in M : next(i) = rank(i) + 1
    BY <1>4, MovedNext
  <2>2. c \in Nat /\ (\A i : rank(i) \in Nat) /\ \A i \in M : i \in Int /\ i < n + 1
    <3>1. \A i \in M : i \in Int /\ i < n + 1
      BY DEF MovedAt
    <3>2. QED
      BY <3>1, MovedIsFinite
  <2>3. /\ g.count = IF h.count < Size THEN h.count + 1 ELSE Size
        /\ At(g, 0) = s
        /\ \A i \in 0..Size - 1 : i + 1 < Size => At(g, i + 1) = At(h, i)
    BY <1>1, <1>4, PushFields, AtNext
  <2> HIDE DEF g, M, T, rank, next, c
  <2>4. g.count = IF Cardinality(T) < Size THEN Cardinality(T) ELSE Size
    BY <1>2, <2>1, <2>2, <2>3, SizeOK
  <2>5. ASSUME NEW i \in T
        PROVE  next(i) < Cardinality(T) /\ (next(i) < Size => At(g, next(i)) = run[i])
    <3>1. CASE i = n + 1
      BY <2>1, <2>2, <2>3, <3>1 DEF s
    <3>2. CASE i \in M
      <4>1. next(i) = rank(i) + 1 /\ rank(i) < c /\ rank(i) \in Nat
        BY <1>2, <2>1, <2>2, <3>2
      <4>2. ASSUME next(i) < Size PROVE At(g, next(i)) = run[i]
        <5>1. rank(i) \in 0..Size - 1 /\ rank(i) < Size /\ rank(i) + 1 < Size
          BY <4>1, <4>2, SizeOK
        <5>2. At(h, rank(i)) = run[i] /\ At(g, rank(i) + 1) = At(h, rank(i))
          BY <1>2, <2>3, <3>2, <5>1
        <5>3. QED
          BY <4>1, <5>2
      <4>3. QED
        BY <2>1, <2>2, <4>1, <4>2
    <3>3. QED
      BY <2>1, <3>1, <3>2
  <2>6. ASSUME NEW r \in Nat, r < Cardinality(T) PROVE \E i \in T : next(i) = r
    <3>1. CASE r = 0
      BY <2>1, <3>1
    <3>2. CASE r # 0
      <4>1. r - 1 \in Nat /\ r - 1 < c
        BY <2>1, <2>2, <2>6, <3>2
      <4>2. PICK i \in M : rank(i) = r - 1
        BY <1>2, <4>1
      <4>3. QED
        BY <2>1, <4>2
    <3>3. QED
      BY <3>1, <3>2
  <2>7. ASSUME NEW i \in T, NEW j \in T, i < j PROVE next(j) < next(i)
    <3>1. i \in M
      BY <2>1, <2>2, <2>7
    <3>2. next(i) = rank(i) + 1 /\ rank(i) \in Nat
      BY <2>1, <2>2, <3>1
    <3>3. CASE j = n + 1
      BY <2>1, <3>2, <3>3
    <3>4. CASE j \in M
      <4>1. rank(j) < rank(i) /\ next(j) = rank(j) + 1 /\ rank(j) \in Nat
        BY <1>2, <2>1, <2>2, <2>7, <3>1, <3>4
      <4>2. QED
        BY <3>2, <4>1
    <3>5. QED
      BY <2>1, <3>3, <3>4
  <2>8. Ringed(g, run, n + 1)
    BY <1>1, <2>4, <2>5, <2>6, <2>7 DEF Ringed, T, next, g
  <2>9. QED
    BY <2>8 DEF g, s
<1>5. QED
  BY <1>3, <1>4

\* The ring, frame by frame.
LEMMA PushedSteps ==
  ASSUME NEW run \in Seq(Samples)
  PROVE  \E f \in [0..Len(run) -> Rings] :
           /\ f[0] = EmptyHistory /\ f[Len(run)] = Pushed(run)
           /\ \A n \in 1..Len(run) : f[n] = Push(f[n - 1], run[n])
<1> DEFINE N == Len(run)
           D == DOMAIN run
           E(g) == [s \in SUBSET D |->
                      IF s = {} THEN EmptyHistory ELSE Push(g[s \ {Max(s)}], run[Max(s)])]
           step == [n \in 1..N |-> [h \in Rings |-> Push(h, run[n])]]
           fold == CHOOSE g : g = E(g)
<1>1. Pushed(run) = fold[D]
  BY DEF Pushed, FoldLeft, MapThenFoldSet
<1>2. N \in Nat /\ D = 1..N /\ EmptyHistory \in Rings
  BY EmptyRingOK
<1>3. ASSUME NEW n \in 1..N, NEW h \in Rings PROVE Push(h, run[n]) \in Rings
  BY PushOK
<1>4. step \in [1..N -> [Rings -> Rings]]
  BY <1>3
<1>5. fold = E(fold)
  <2>1. PICK g \in [SUBSET (1..N) -> Rings] : IsFold(g, N, EmptyHistory, step)
    <3> HIDE DEF step, N
    <3>1. QED
      BY <1>2, <1>4, FoldExists, Zenon
  <2>2. ASSUME NEW s \in SUBSET D
        PROVE  g[s] = IF s = {} THEN EmptyHistory ELSE Push(g[s \ {Max(s)}], run[Max(s)])
    <3>1. g[s] = IF s = {} THEN EmptyHistory ELSE step[Max(s)][g[s \ {Max(s)}]]
      BY <1>2, <2>1 DEF IsFold
    <3>2. s # {} => Max(s) \in 1..N /\ g[s \ {Max(s)}] \in Rings
      BY <1>2, IndexLeft
    <3>3. QED
      BY <3>1, <3>2
  <2>3. g = E(g)
    BY <1>2, <2>2
  <2>4. QED
    BY <2>3
<1> HIDE DEF fold
<1>6. fold[{}] = EmptyHistory
  BY <1>5
<1>7. ASSUME NEW n \in 1..N, fold[1..n - 1] \in Rings
      PROVE  fold[1..n] = step[n][fold[1..n - 1]]
  <2>1. /\ 1..n \in SUBSET (1..N) /\ 1..n # {}
        /\ Max(1..n) = n /\ (1..n) \ {Max(1..n)} = 1..n - 1
    BY <1>2, IndexSets
  <2>2. fold[1..n] = Push(fold[1..n - 1], run[n])
    BY <1>2, <1>5, <2>1
  <2>3. QED
    BY <1>7, <2>2
<1>8. PICK f \in [0..N -> Rings] : IsCourse(f, N, EmptyHistory, step, fold[1..N])
  <2> HIDE DEF step, N
  <2>1. QED
    BY <1>2, <1>4, <1>6, <1>7, FoldCourse, Zenon
<1>9. ASSUME NEW n \in 1..N PROVE f[n] = Push(f[n - 1], run[n])
  <2>1. f[n - 1] \in Rings /\ f[n] = step[n][f[n - 1]]
    <3> HIDE DEF step, N
    <3>1. n - 1 \in 0..N
      BY <1>2
    <3>2. QED
      BY <1>8, <3>1 DEF IsCourse
  <2>2. QED
    BY <2>1
<1>10. QED
  BY <1>1, <1>2, <1>8, <1>9 DEF IsCourse

LEMMA PushedIsRinged ==
  ASSUME NEW run \in Seq(Samples)
  PROVE  Ringed(Pushed(run), run, Len(run))
<1> DEFINE N == Len(run)
<1>1. N \in Nat
  OBVIOUS
<1>2. PICK f \in [0..N -> Rings] :
         /\ f[0] = EmptyHistory /\ f[N] = Pushed(run)
         /\ \A n \in 1..N : f[n] = Push(f[n - 1], run[n])
  BY PushedSteps
<1> DEFINE Right(n) == Ringed(f[n], run, n)
           P == {n \in Nat : n <= N => Right(n)}
<1>3. Right(0)
  <2>1. MovedAt(run, 0) = {} /\ Cardinality({}) = 0
    BY FS_EmptySet DEF MovedAt
  <2>2. EmptyHistory.count = 0
    BY DEF EmptyHistory
  <2>3. QED
    BY <1>2, <2>1, <2>2, EmptyRingOK, SizeOK DEF Ringed
<1>4. ASSUME NEW n \in Nat, n + 1 <= N, Right(n) PROVE Right(n + 1)
  <2>1. n \in 0..N /\ n + 1 \in 1..N /\ n + 1 - 1 = n
    BY <1>1, <1>4
  <2>2. f[n] \in Rings /\ f[n + 1] = Push(f[n], run[n + 1])
    BY <1>2, <2>1
  <2>3. QED
    BY <1>4, <2>1, <2>2, RingedNext
<1> HIDE DEF Right
<1>5. 0 \in P /\ \A n \in Nat : n \in P => n + 1 \in P
  BY <1>1, <1>3, <1>4
<1>6. \A n \in Nat : n \in P
  <2> HIDE DEF P
  <2>1. QED
    BY <1>5, Grows
<1>7. QED
  BY <1>1, <1>2, <1>6 DEF Right

\* The numbers up to the first that is not wanted.
LEMMA UpToFirst ==
  ASSUME NEW n \in Nat, NEW good
  PROVE  \E m \in 0..n : {i \in 0..n - 1 : \A j \in 0..i : j \in good} = 0..m - 1
<1> DEFINE Bad == {k \in Nat : k <= n /\ (k = n \/ k \notin good)}
<1>1. Bad \in SUBSET Nat /\ Bad # {}
  <2>1. n \in Bad
    OBVIOUS
  <2>2. QED
    BY <2>1
<1>2. \E l \in Bad : \A k \in Bad : ~(k < l)
  <2> HIDE DEF Bad
  <2>1. PICK l \in Bad : \A k \in Bad : <<k, l>> \notin OpToRel(<, Nat)
    BY <1>1, NatLessThanWellFounded, WFMin
  <2>2. QED
    BY <1>1, <2>1 DEF OpToRel
<1>3. PICK l \in Bad : \A k \in Bad : ~(k < l)
  BY <1>2
<1>4. l \in 0..n
  BY <1>3
<1>5. ASSUME NEW i \in 0..n - 1 PROVE (\A j \in 0..i : j \in good) <=> i \in 0..l - 1
  <2>1. ASSUME i < l, NEW j \in 0..i PROVE j \in good
    <3>1. j \in Nat /\ j <= n /\ j < l
      BY <1>4, <2>1
    <3>2. j \notin Bad
      BY <1>3, <3>1
    <3>3. QED
      BY <3>1, <3>2
  <2>2. ASSUME \A j \in 0..i : j \in good PROVE i < l
    <3>1. l # n => l \notin good
      BY <1>3
    <3>2. CASE l <= i
      <4>1. l \in 0..i /\ l # n
        BY <1>4, <3>2
      <4>2. QED
        BY <2>2, <3>1, <4>1
    <3>3. QED
      BY <1>4, <3>2
  <2>3. QED
    BY <1>4, <2>1, <2>2
<1>6. {i \in 0..n - 1 : \A j \in 0..i : j \in good} = 0..l - 1
  <2>1. 0..l - 1 \subseteq 0..n - 1
    BY <1>4
  <2>2. QED
    BY <1>5, <2>1
<1>7. QED
  BY <1>4, <1>6

\* Time does not run backwards.
InTime(run) == \A i, j \in DOMAIN run : i <= j => run[i].ms <= run[j].ms

\* What the loop at the head of iqs9151_inertia_seed_from_history finds: as many
\* samples as there are movements to keep, each in its place.
LEMMA RecentIsKept ==
  ASSUME NEW run \in Seq(Samples), InTime(run), NEW now \in Int, NEW window \in Int
  PROVE  LET h    == Pushed(run)
             kept == Kept(run, now, window)
         IN  \E m \in 0..Size :
               /\ Recent(h, now, window) = [i \in 1..m |-> At(h, i - 1)]
               /\ IsFiniteSet(kept) /\ kept \subseteq DOMAIN run
               /\ [i \in kept |-> Rank(run, i) + 1] \in Bijection(kept, 1..m)
               /\ \A i \in kept : At(h, Rank(run, i)) = run[i]
<1> DEFINE N == Len(run)
           h == Pushed(run)
           M == Moved(run)
           c == Cardinality(M)
           rank(i) == Rank(run, i)
           kept == Kept(run, now, window)
           good == {j \in Nat : now - At(h, j).ms <= window}
           Found == {i \in 0..h.count - 1 : \A j \in 0..i : now - At(h, j).ms <= window}
<1>1. N \in Nat /\ M = MovedAt(run, N) /\ \A i : rank(i) = RankAt(run, N, i)
  <2>1. N \in Nat /\ DOMAIN run = 1..N
    OBVIOUS
  <2>2. M = MovedAt(run, N)
    BY <2>1 DEF Moved, MovedAt, NoMove
  <2>3. QED
    BY <2>1, <2>2 DEF Rank, RankAt
<1>2. /\ h \in Rings
      /\ h.count = IF c < Size THEN c ELSE Size
      /\ \A i \in M : rank(i) < c /\ (rank(i) < Size => At(h, rank(i)) = run[i])
      /\ \A r \in Nat : r < c => \E i \in M : rank(i) = r
      /\ \A i, j \in M : i < j => rank(j) < rank(i)
  <2>1. Ringed(h, run, N)
    BY PushedIsRinged
  <2>2. QED
    BY <1>1, <2>1 DEF Ringed
<1>3. /\ IsFiniteSet(M) /\ c \in Nat /\ \A i : rank(i) \in Nat
  BY <1>1, MovedIsFinite
<1>4. \A i \in M : i \in 1..N /\ run[i] \in Samples /\ run[i].ms \in Int
  <2>1. \A i \in M : i \in 1..N /\ run[i] \in Samples
    BY <1>1 DEF MovedAt
  <2>2. QED
    BY <2>1 DEF Samples
<1>5. kept = {i \in M : rank(i) < Size /\ now - run[i].ms <= window}
  BY DEF Kept
<1>6. \A i, j \in 1..N : i <= j => run[i].ms <= run[j].ms
  BY DEF InTime
<1> HIDE DEF N, h, M, c, rank, kept
<1>7. h.count \in Nat /\ h.count <= c /\ h.count <= Size
  BY <1>2, <1>3, SizeOK
<1>8. PICK m \in 0..h.count : Found = 0..m - 1
  <2>1. Found = {i \in 0..h.count - 1 : \A j \in 0..i : j \in good}
    OBVIOUS
  <2> HIDE DEF good, Found
  <2>2. \E k \in 0..h.count : {i \in 0..h.count - 1 : \A j \in 0..i : j \in good} = 0..k - 1
    BY <1>7, UpToFirst
  <2>3. QED
    BY <2>1, <2>2
<1>9. IsFiniteSet(Found) /\ Cardinality(Found) = m
  <2>1. m \in Nat /\ 0 \in Int /\ m - 1 \in Int
    BY <1>7, <1>8
  <2>2. Cardinality(0..m - 1) = m /\ IsFiniteSet(0..m - 1)
    BY <2>1, FS_Interval
  <2> HIDE DEF Found
  <2>3. QED
    BY <1>8, <2>2
<1>10. ASSUME NEW i \in kept PROVE rank(i) \in Found /\ At(h, rank(i)) = run[i]
  <2>1. i \in M /\ rank(i) < Size /\ now - run[i].ms <= window
    BY <1>5
  <2>2. rank(i) \in 0..h.count - 1 /\ At(h, rank(i)) = run[i]
    BY <1>2, <1>3, <2>1, SizeOK
  <2>3. ASSUME NEW j \in 0..rank(i) PROVE now - At(h, j).ms <= window
    <3>1. j \in Nat /\ j < c /\ j < Size /\ j <= rank(i)
      BY <1>2, <1>3, <2>1, SizeOK
    <3>2. PICK k \in M : rank(k) = j
      BY <1>2, <3>1
    <3>3. At(h, j) = run[k]
      BY <1>2, <3>1, <3>2
    <3>4. i \in 1..N /\ k \in 1..N
      BY <1>4, <2>1
    <3>5. ~(k < i)
      BY <1>2, <1>3, <2>1, <3>1, <3>2
    <3>6. run[i].ms <= run[k].ms /\ run[i].ms \in Int /\ run[k].ms \in Int
      BY <1>4, <1>6, <2>1, <3>4, <3>5
    <3>7. QED
      BY <2>1, <3>3, <3>6
  <2>4. QED
    BY <2>2, <2>3
<1>11. ASSUME NEW r \in Found PROVE \E i \in kept : rank(i) = r
  <2>1. r \in Nat /\ r < c /\ r < Size /\ now - At(h, r).ms <= window
    <3>1. r \in 0..h.count - 1 /\ r \in 0..r
      OBVIOUS
    <3>2. now - At(h, r).ms <= window
      BY <3>1
    <3>3. QED
      BY <1>3, <1>7, <3>1, <3>2, SizeOK
  <2>2. PICK i \in M : rank(i) = r
    BY <1>2, <2>1
  <2>3. At(h, r) = run[i]
    BY <1>2, <2>1, <2>2
  <2>4. QED
    BY <1>5, <2>1, <2>2, <2>3
<1> DEFINE F == [i \in kept |-> rank(i) + 1]
<1>12. F \in Bijection(kept, 1..m)
  <2>1. m \in Nat
    BY <1>7, <1>8
  <2>2. ASSUME NEW i \in kept PROVE rank(i) + 1 \in 1..m /\ rank(i) \in Nat
    <3>1. rank(i) \in 0..m - 1
      BY <1>8, <1>10
    <3>2. QED
      BY <2>1, <3>1
  <2>3. F \in [kept -> 1..m]
    BY <2>2
  <2>4. ASSUME NEW i \in kept, NEW j \in kept, F[i] = F[j] PROVE i = j
    <3>1. i \in M /\ j \in M /\ rank(i) = rank(j) /\ i \in 1..N /\ j \in 1..N
      <4>1. rank(i) + 1 = rank(j) + 1 /\ rank(i) \in Nat /\ rank(j) \in Nat
        BY <2>2, <2>4
      <4>2. QED
        BY <1>4, <1>5, <4>1
    <3>2. ~(i < j) /\ ~(j < i)
      BY <1>2, <1>3, <3>1
    <3>3. QED
      BY <1>1, <3>1, <3>2
  <2>5. ASSUME NEW r \in 1..m PROVE \E i \in kept : F[i] = r
    <3>1. r - 1 \in Found
      BY <1>8, <2>1, SMTT(30)
    <3>2. PICK i \in kept : rank(i) = r - 1
      BY <1>11, <3>1
    <3>3. QED
      BY <2>1, <3>2
  <2> HIDE DEF F
  <2>6. QED
    BY <2>3, <2>4, <2>5, Fun_IsBij
<1>13. IsFiniteSet(kept) /\ kept \subseteq DOMAIN run
  <2>1. kept \in SUBSET M
    BY <1>5
  <2>2. kept \subseteq 1..N
    BY <1>4, <2>1
  <2>3. DOMAIN run = 1..N
    BY DEF N
  <2>4. QED
    BY <1>3, <2>1, <2>2, <2>3, FS_Subset
<1>14. Recent(h, now, window) = [i \in 1..m |-> At(h, i - 1)]
  <2>1. Recent(h, now, window) = [i \in 1..Cardinality(Found) |-> At(h, i - 1)]
    BY DEF Recent
  <2>2. QED
    BY <1>9, <2>1
<1>15. m \in 0..Size
  BY <1>7, <1>8, SizeOK
<1>16. \A i \in kept : At(h, rank(i)) = run[i]
  BY <1>10
<1>17. QED
  BY <1>12, <1>13, <1>14, <1>15, <1>16 DEF h, kept, rank

\* As many of the movements kept as of the samples found have what is asked of
\* them.
LEMMA CountedAlike ==
  ASSUME NEW S, IsFiniteSet(S), NEW T, NEW F \in Bijection(S, T),
         NEW A \in SUBSET S, NEW B \in SUBSET T, \A i \in S : i \in A <=> F[i] \in B
  PROVE  Cardinality(B) = Cardinality(A)
<1> DEFINE G == [i \in A |-> F[i]]
<1>1. /\ F \in [S -> T]
      /\ \A i, j \in S : F[i] = F[j] => i = j
      /\ \A r \in T : \E i \in S : F[i] = r
  BY DEF Bijection, Injection, Surjection, IsInjective
<1>2. G \in [A -> B]
  BY <1>1
<1>3. ASSUME NEW i \in A, NEW j \in A, G[i] = G[j] PROVE i = j
  BY <1>1, <1>3
<1>4. ASSUME NEW r \in B PROVE \E i \in A : G[i] = r
  BY <1>1
<1>5. A \in SUBSET S
  OBVIOUS
<1> HIDE DEF G
<1>6. G \in Bijection(A, B)
  BY <1>2, <1>3, <1>4, Fun_IsBij
<1>7. IsFiniteSet(A)
  BY <1>5, FS_Subset
<1>8. QED
  BY <1>6, <1>7, FS_Bijection DEF ExistsBijection

\* However long the run of frames and wherever the ring has wrapped around, the
\* loop at the head of iqs9151_inertia_seed_from_history finds the newest Size
\* movements of the window, each in its place, the newest first.
THEOREM RingHoldsNewest ==
  ASSUME NEW run \in Seq(Samples), InTime(run), NEW now \in Int, NEW window \in Int
  PROVE  LET recent == Recent(Pushed(run), now, window)
             kept   == Kept(run, now, window)
         IN  /\ Len(recent) = Cardinality(kept)
             /\ \A i \in kept : recent[Rank(run, i) + 1] = run[i]
<1> DEFINE h == Pushed(run)
           recent == Recent(h, now, window)
           kept == Kept(run, now, window)
<1>1. PICK m \in 0..Size :
         /\ recent = [i \in 1..m |-> At(h, i - 1)]
         /\ IsFiniteSet(kept) /\ kept \subseteq DOMAIN run
         /\ [i \in kept |-> Rank(run, i) + 1] \in Bijection(kept, 1..m)
         /\ \A i \in kept : At(h, Rank(run, i)) = run[i]
  BY RecentIsKept
<1> DEFINE F == [i \in kept |-> Rank(run, i) + 1]
<1>2. m \in Nat
  BY SizeOK
<1>3. Len(recent) = m
  BY <1>1, <1>2
<1>4. Cardinality(kept) = m
  <2> HIDE DEF kept
  <2>1. ExistsBijection(kept, 1..m)
    BY <1>1 DEF ExistsBijection
  <2>2. IsFiniteSet(1..m) /\ Cardinality(1..m) = m
    BY <1>2, FS_Interval
  <2>3. QED
    BY <1>1, <2>1, <2>2, FS_Bijection
<1>5. ASSUME NEW i \in kept PROVE recent[Rank(run, i) + 1] = run[i]
  <2>1. F \in [kept -> 1..m] /\ F[i] = Rank(run, i) + 1
    BY <1>1 DEF Bijection, Injection
  <2>2. Rank(run, i) + 1 \in 1..m
    BY <2>1
  <2>3. Rank(run, i) \in Nat
    <3>1. Moved(run) = MovedAt(run, Len(run)) /\ Len(run) \in Nat
      BY DEF Moved, MovedAt, NoMove
    <3>2. Rank(run, i) = RankAt(run, Len(run), i)
      BY <3>1 DEF Rank, RankAt
    <3>3. QED
      BY <3>1, <3>2, MovedIsFinite
  <2>4. \A r \in 1..m : recent[r] = At(h, r - 1)
    <3> HIDE DEF recent, h
    <3>1. QED
      BY <1>1
  <2>5. recent[Rank(run, i) + 1] = At(h, Rank(run, i) + 1 - 1)
        /\ Rank(run, i) + 1 - 1 = Rank(run, i)
    <3> HIDE DEF recent, h
    <3>1. QED
      BY <2>2, <2>3, <2>4
  <2>6. QED
    BY <1>1, <2>5
<1>6. QED
  BY <1>3, <1>4, <1>5

\* The runs that are tried: frames 1, 3 or 5 ms apart.
LEMMA RunsAreInTime ==
  ASSUME NEW run \in Runs
  PROVE  /\ run \in Seq(Samples) /\ InTime(run)
         /\ \A i \in DOMAIN run : run[i].y = 0
         /\ (IF run = <<>> THEN 0 ELSE Last(run).ms) \in Int
<1>1. PICK r \in BoundedSeq({0, 2} \X {-2, 0, 3}, Pushes) :
        run = [i \in DOMAIN r |-> [ms |-> 3 * i - r[i][1], x |-> r[i][2], y |-> 0]]
  BY DEF Runs
<1>2. r \in Seq({0, 2} \X {-2, 0, 3})
  BY AlgorithmsAssumption, <1>1 DEF AlgorithmsAssumption, BoundedSeq, SeqOf
<1> DEFINE n == Len(r)
<1>3. n \in Nat /\ DOMAIN r = 1..n /\ \A i \in 1..n : r[i] \in {0, 2} \X {-2, 0, 3}
  BY <1>2
<1> HIDE DEF n
<1>4. /\ run = [i \in 1..n |-> [ms |-> 3 * i - r[i][1], x |-> r[i][2], y |-> 0]]
      /\ \A i \in 1..n : r[i][1] \in {0, 2} /\ r[i][2] \in Int
  BY <1>1, <1>3
<1>5. ASSUME NEW i \in 1..n PROVE 3 * i - r[i][1] \in Int
  <2>1. r[i][1] \in Int /\ i \in Int
    BY <1>3, <1>4
  <2>2. QED
    BY <2>1
<1>6. run \in [1..n -> Samples]
  BY <1>4, <1>5 DEF Samples
<1>7. run \in Seq(Samples) /\ Len(run) = n
  BY <1>3, <1>6
<1>8. ASSUME NEW i \in 1..n, NEW j \in 1..n, i <= j PROVE run[i].ms <= run[j].ms
  <2>1. run[i].ms = 3 * i - r[i][1] /\ run[j].ms = 3 * j - r[j][1]
    BY <1>4
  <2>2. r[i][1] \in 0..2 /\ r[j][1] \in 0..2
    BY <1>4
  <2>3. CASE i = j
    BY <1>3, <1>5, <2>1, <2>3
  <2>4. CASE i < j
    BY <1>3, <2>1, <2>2, <2>4
  <2>5. QED
    BY <1>3, <1>8, <2>3, <2>4
<1>9. InTime(run)
  BY <1>6, <1>8 DEF InTime
<1>10. run # <<>> => Last(run).ms \in Int
  <2>1. run # <<>> => n \in 1..n
    BY <1>3, <1>7
  <2>2. n \in 1..n => run[n] \in Samples /\ run[n].ms \in Int
    BY <1>6 DEF Samples
  <2>3. QED
    BY <1>7, <2>1, <2>2 DEF Last
<1>11. QED
  BY <1>4, <1>6, <1>7, <1>9, <1>10

\* So it does after every run of frames that is tried, for either window
\* (iqs9151_motion_history_push).
COROLLARY RingAlwaysKeepsNewest == RingKeepsNewest
<1> SUFFICES ASSUME NEW run \in Runs, NEW window \in {1, 4}
             PROVE  LET now    == IF run = <<>> THEN 0 ELSE Last(run).ms
                        recent == Recent(Pushed(run), now, window)
                        kept   == Kept(run, now, window)
                    IN  /\ Len(recent) = Cardinality(kept)
                        /\ \A i \in kept : recent[Rank(run, i) + 1] = run[i]
  BY DEF RingKeepsNewest
<1> DEFINE now == IF run = <<>> THEN 0 ELSE Last(run).ms
<1>1. run \in Seq(Samples) /\ InTime(run) /\ now \in Int /\ window \in Int
  BY RunsAreInTime
<1> HIDE DEF now
<1>2. LET recent == Recent(Pushed(run), now, window)
          kept   == Kept(run, now, window)
      IN  /\ Len(recent) = Cardinality(kept)
          /\ \A i \in kept : recent[Rank(run, i) + 1] = run[i]
  BY <1>1, RingHoldsNewest
<1>3. QED
  BY <1>2 DEF now

-----------------------------------------------------------------------------
(* The seed.                                                               *)

\* The sum of the first r samples of the ring along an axis, moved by one frame.
LEMMA DistanceShift ==
  ASSUME NEW n \in Nat, NEW V \in [0..n -> Int], NEW W \in [0..n -> Int],
         \A i \in 0..n - 1 : V[i + 1] = W[i]
  PROVE  \A r \in 0..n : Distance(V, r + 1) = V[0] + Distance(W, r)
<1> DEFINE P == {r \in Nat : r <= n => Distance(V, r + 1) = V[0] + Distance(W, r)}
<1>1. /\ Distance(V, 0) = 0 /\ Distance(W, 0) = 0
      /\ \A r \in 0..n : /\ Distance(V, r) \in Int /\ Distance(V, r + 1) = Distance(V, r) + V[r]
                         /\ Distance(W, r) \in Int /\ Distance(W, r + 1) = Distance(W, r) + W[r]
  BY DistanceNext
<1>2. 0 \in P
  <2>1. 0 \in 0..n /\ V[0] \in Int
    OBVIOUS
  <2>2. Distance(V, 0 + 1) = Distance(V, 0) + V[0]
    BY <1>1, <2>1
  <2>3. QED
    BY <1>1, <2>1, <2>2
<1>3. ASSUME NEW r \in Nat, r \in P PROVE r + 1 \in P
  <2>1. CASE r + 1 <= n
    <3>1. r \in 0..n /\ r + 1 \in 0..n /\ r \in 0..n - 1 /\ V[0] \in Int
      BY <2>1
    <3>2. V[r + 1] = W[r] /\ Distance(V, r + 1) = V[0] + Distance(W, r)
      BY <1>3, <3>1
    <3>3. Distance(V, r + 1 + 1) = Distance(V, r + 1) + V[r + 1]
          /\ Distance(W, r + 1) = Distance(W, r) + W[r] /\ Distance(W, r) \in Int
          /\ W[r] \in Int
      BY <1>1, <3>1
    <3>4. QED
      BY <3>1, <3>2, <3>3
  <2>2. QED
    BY <2>1
<1>4. \A r \in Nat : r \in P
  <2> HIDE DEF P
  <2>1. QED
    BY <1>2, <1>3, Grows
<1>5. QED
  BY <1>4

\* A sum is no longer than the sum of the lengths.
LEMMA DistanceMag ==
  ASSUME NEW n \in Nat, NEW V \in [0..n -> Int], NEW W \in [0..n -> Int],
         \A i \in 0..n : W[i] = Mag(V[i])
  PROVE  \A r \in 0..n + 1 : Mag(Distance(V, r)) <= Distance(W, r)
                             /\ Distance(V, r) \in Int /\ Distance(W, r) \in Int
<1> DEFINE Right(r) == /\ Mag(Distance(V, r)) <= Distance(W, r)
                       /\ Distance(V, r) \in Int /\ Distance(W, r) \in Int
           P == {r \in Nat : r <= n + 1 => Right(r)}
<1>1. /\ Distance(V, 0) = 0 /\ Distance(W, 0) = 0
      /\ \A r \in 0..n : /\ Distance(V, r) \in Int /\ Distance(V, r + 1) = Distance(V, r) + V[r]
                         /\ Distance(W, r) \in Int /\ Distance(W, r + 1) = Distance(W, r) + W[r]
  BY DistanceNext
<1>2. 0 \in P
  BY <1>1 DEF Mag
<1>3. ASSUME NEW r \in Nat, r \in P PROVE r + 1 \in P
  <2>1. CASE r + 1 <= n + 1
    <3>1. r \in 0..n /\ V[r] \in Int /\ W[r] = Mag(V[r])
      BY <2>1
    <3>2. /\ Distance(V, r) \in Int /\ Distance(V, r + 1) = Distance(V, r) + V[r]
          /\ Distance(W, r) \in Int /\ Distance(W, r + 1) = Distance(W, r) + W[r]
          /\ Mag(Distance(V, r)) <= Distance(W, r)
      BY <1>1, <1>3, <2>1, <3>1
    <3>3. Right(r + 1)
      BY <3>1, <3>2, SMTT(30) DEF Mag
    <3>4. QED
      BY <3>3
  <2>2. QED
    BY <2>1
<1>4. \A r \in Nat : r \in P
  <2> HIDE DEF P
  <2>1. QED
    BY <1>2, <1>3, Grows
<1>5. QED
  BY <1>4

\* What is shown of the movement along x holds along y too.
Axes == {"x", "y"}
Along(h, f)    == [i \in 0..Size - 1 |-> At(h, i)[f]]
Lengths(h, f)  == [i \in 0..Size - 1 |-> Mag(At(h, i)[f])]

LEMMA AlongOK ==
  ASSUME NEW h \in Rings, NEW f \in Axes
  PROVE  /\ Along(h, f) \in [0..Size - 1 -> Int] /\ Lengths(h, f) \in [0..Size - 1 -> Nat]
         /\ \A i \in 0..Size - 1 : At(h, i) \in Samples /\ At(h, i)[f] \in Int
<1>1. ASSUME NEW i \in 0..Size - 1 PROVE At(h, i) \in Samples
  <2>1. h.samples \in [0..Size - 1 -> Samples] /\ h.head \in 0..Size - 1
    BY DEF Rings
  <2>2. (h.head + Size - 1 - i) % Size
          = IF i < h.head THEN h.head - 1 - i ELSE h.head + Size - 1 - i
    BY <2>1, PlaceOf
  <2>3. (h.head + Size - 1 - i) % Size \in 0..Size - 1
    <3>1. \A k \in 0..Size - 1 :
            (IF i < k THEN k - 1 - i ELSE k + Size - 1 - i) \in 0..Size - 1
      BY SizeOK
    <3>2. QED
      BY <2>1, <2>2, <3>1
  <2>4. QED
    BY <2>1, <2>3 DEF At
<1>2. \A s \in Samples : s[f] \in Int /\ Mag(s[f]) \in Nat
  BY DEF Samples, Axes, Mag
<1>3. QED
  BY <1>1, <1>2 DEF Along, Lengths

\* A ring with no more movement along an axis than b.
Light(h, f, b) == \A r \in 0..Size : Distance(Lengths(h, f), r) <= b

LEMMA LightNext ==
  ASSUME NEW h \in Rings, NEW s \in Samples, NEW f \in Axes, NEW b \in Nat, Light(h, f, b)
  PROVE  Light(Push(h, s), f, b + Mag(s[f]))
<1> DEFINE g == Push(h, s)
           V == Lengths(g, f)
           W == Lengths(h, f)
           n == Size - 1
           e == Mag(s[f])
<1>1. n \in Nat /\ n + 1 = Size /\ s[f] \in Int /\ e \in Nat
  BY SizeOK DEF Samples, Axes, Mag
<1>2. g \in Rings /\ V \in [0..n -> Nat] /\ W \in [0..n -> Nat]
  BY PushOK, AlongOK
<1>3. \A r \in 0..n : Distance(W, r) \in Int /\ Distance(W, r + 1) = Distance(W, r) + W[r]
  <2>1. W \in [0..n -> Int]
    BY <1>2
  <2> HIDE DEF W, n
  <2>2. QED
    BY <1>1, <2>1, DistanceNext
<1>4. CASE NoMove(s)
  <2>1. g = h /\ s[f] = 0
    BY <1>4 DEF Push, NoMove, Axes
  <2>2. e = 0
    BY <2>1 DEF Mag
  <2> HIDE DEF g, e
  <2>3. Light(g, f, b + e)
    BY <2>1, <2>2
  <2>4. QED
    BY <2>3 DEF g, e
<1>5. CASE ~NoMove(s)
  <2>1. /\ At(g, 0) = s
        /\ \A i \in 0..Size - 1 : i + 1 < Size => At(g, i + 1) = At(h, i)
    BY <1>5, AtNext
  <2>2. V[0] = e /\ \A i \in 0..n - 1 : V[i + 1] = W[i]
    <3>1. 0 \in 0..Size - 1 /\ \A i \in 0..n - 1 : i \in 0..Size - 1 /\ i + 1 \in 0..Size - 1
                                                  /\ i + 1 < Size
      BY <1>1, SizeOK
    <3> HIDE DEF g, n
    <3>2. QED
      BY <2>1, <3>1 DEF Lengths
  <2> HIDE DEF g, V, W, n, e
  <2>3. \A r \in 0..n : Distance(V, r + 1) = e + Distance(W, r)
    <3>1. V \in [0..n -> Int] /\ W \in [0..n -> Int]
      BY <1>2
    <3>2. QED
      BY <1>1, <2>2, <3>1, DistanceShift
  <2>4. Distance(V, 0) = 0
    <3>1. V \in [0..n -> Int]
      BY <1>2
    <3>2. QED
      BY <1>1, <3>1, DistanceNext
  <2>5. ASSUME NEW r \in 0..Size PROVE Distance(V, r) <= b + e
    <3>1. CASE r = 0
      BY <1>1, <2>4, <3>1
    <3>2. CASE r # 0
      <4>1. PICK k \in 0..n : r = k + 1
        <5>1. r - 1 \in 0..n /\ r = r - 1 + 1
          BY <1>1, <3>2
        <5>2. QED
          BY <5>1
      <4>2. k \in 0..Size
        BY <1>1
      <4>3. Distance(W, k) <= b /\ Distance(W, k) \in Int
        BY <1>3, <4>2 DEF Light, W
      <4>4. QED
        BY <1>1, <2>3, <4>1, <4>3
    <3>3. QED
      BY <3>1, <3>2
  <2>6. QED
    BY <2>5 DEF Light, V, g, e
<1>6. QED
  BY <1>4, <1>5

LEMMA EmptyIsLight ==
  ASSUME NEW f \in Axes
  PROVE  Light(EmptyHistory, f, 0)
<1> DEFINE V == Lengths(EmptyHistory, f)
           n == Size - 1
           P == {r \in Nat : r <= Size => Distance(V, r) = 0}
<1>1. n \in Nat /\ n + 1 = Size
  BY SizeOK
<1>2. V \in [0..n -> Int] /\ \A i \in 0..n : V[i] = 0
  <2>1. ASSUME NEW i \in 0..Size - 1 PROVE Mag(At(EmptyHistory, i)[f]) = 0
    <3>1. (0 + Size - 1 - i) % Size
            = IF i < 0 THEN 0 - 1 - i ELSE 0 + Size - 1 - i
      <4>1. 0 \in 0..Size - 1
        BY SizeOK
      <4>2. QED
        BY <4>1, PlaceOf
    <3>2. (0 + Size - 1 - i) % Size \in 0..Size - 1
      BY <3>1, SizeOK
    <3>3. EmptyHistory.head = 0
          /\ EmptyHistory.samples = [k \in 0..Size - 1 |-> [ms |-> 0, x |-> 0, y |-> 0]]
      BY DEF EmptyHistory
    <3>4. At(EmptyHistory, i) = [ms |-> 0, x |-> 0, y |-> 0]
      BY <3>2, <3>3 DEF At
    <3>5. QED
      BY <3>4 DEF Axes, Mag
  <2>2. QED
    BY <2>1 DEF Lengths
<1>3. Distance(V, 0) = 0 /\ \A r \in 0..n : Distance(V, r + 1) = Distance(V, r) + V[r]
  <2> HIDE DEF V, n
  <2>1. QED
    BY <1>1, <1>2, DistanceNext
<1> HIDE DEF V
<1>4. 0 \in P
  BY <1>3
<1>5. ASSUME NEW r \in Nat, r \in P PROVE r + 1 \in P
  <2>1. CASE r + 1 <= Size
    <3>1. r \in 0..n /\ Distance(V, r) = 0
      BY <1>1, <1>5, <2>1
    <3>2. Distance(V, r + 1) = 0
      BY <1>2, <1>3, <3>1
    <3>3. QED
      BY <3>2
  <2>2. QED
    BY <2>1
<1>6. \A r \in Nat : r \in P
  <2> HIDE DEF P
  <2>1. QED
    BY <1>4, <1>5, Grows
<1>7. QED
  BY <1>1, <1>6 DEF Light, V

\* What a run of samples sums up to, with and without its signs.
SumAlong(xs, f)   == Total([i \in DOMAIN xs |-> xs[i][f]])
SumLengths(xs, f) == Total([i \in DOMAIN xs |-> Mag(xs[i][f])])

\* The ring never holds more movement than there was.
LEMMA PushedIsLight ==
  ASSUME NEW run \in Seq(Samples), NEW f \in Axes
  PROVE  SumLengths(run, f) \in Nat /\ Light(Pushed(run), f, SumLengths(run, f))
<1> DEFINE N == Len(run)
           moves == [i \in DOMAIN run |-> Mag(run[i][f])]
<1>1. N \in Nat /\ DOMAIN run = 1..N /\ \A n \in 1..N : run[n] \in Samples
  OBVIOUS
<1>2. \A s \in Samples : s[f] \in Int /\ Mag(s[f]) \in Nat
  BY DEF Samples, Axes, Mag
<1>3. moves \in Seq(Int) /\ Len(moves) = N /\ \A n \in 1..N : moves[n] = Mag(run[n][f])
  <2>1. moves \in [1..N -> Int]
    BY <1>1, <1>2
  <2>2. QED
    BY <1>1, <2>1
<1>4. PICK h \in [0..N -> Rings] :
         /\ h[0] = EmptyHistory /\ h[N] = Pushed(run)
         /\ \A n \in 1..N : h[n] = Push(h[n - 1], run[n])
  BY PushedSteps
<1>5. PICK b \in [0..N -> Int] :
         /\ b[0] = 0 /\ b[N] = Total(moves)
         /\ \A n \in 1..N : b[n] = b[n - 1] + moves[n]
  <2> HIDE DEF moves, N
  <2>1. QED
    BY <1>3, SumSteps DEF Total
<1> DEFINE Right(n) == b[n] \in Nat /\ Light(h[n], f, b[n])
           P == {n \in Nat : n <= N => Right(n)}
<1> HIDE DEF moves, N
<1>6. 0 \in P
  BY <1>4, <1>5, EmptyIsLight
<1>7. ASSUME NEW n \in Nat, n \in P PROVE n + 1 \in P
  <2>1. CASE n + 1 <= N
    <3>1. n \in 0..N /\ n + 1 \in 1..N /\ n + 1 - 1 = n /\ Right(n)
      BY <1>1, <1>7, <2>1
    <3>2. h[n + 1] = Push(h[n], run[n + 1]) /\ b[n + 1] = b[n] + Mag(run[n + 1][f])
          /\ h[n] \in Rings /\ run[n + 1] \in Samples
      BY <1>1, <1>3, <1>4, <1>5, <3>1
    <3>3. Light(Push(h[n], run[n + 1]), f, b[n] + Mag(run[n + 1][f]))
      BY <3>1, <3>2, LightNext
    <3>4. b[n] + Mag(run[n + 1][f]) \in Nat
      BY <1>2, <3>1, <3>2
    <3>5. Right(n + 1)
      BY <3>2, <3>3, <3>4
    <3>6. QED
      BY <3>5
  <2>2. QED
    BY <2>1
<1>8. \A n \in Nat : n \in P
  <2> HIDE DEF P
  <2>1. QED
    BY <1>6, <1>7, Grows
<1>9. Right(N)
  BY <1>1, <1>8
<1>10. QED
  BY <1>4, <1>5, <1>9 DEF moves, SumLengths

\* The signs of the factors, as the code compares them.
LEMMA SignOf ==
  ASSUME NEW x \in Int, NEW t \in Int
  PROVE  x * t > 0 <=> (x > 0 /\ t > 0) \/ (x < 0 /\ t < 0)
<1>1. CASE x > 0
  <2>1. t >= 1 => x * 1 <= x * t
    BY <1>1, MulMono
  <2>2. t <= 0 => x * t <= x * 0
    BY <1>1, MulMono
  <2>3. QED
    BY <1>1, <2>1, <2>2
<1>2. CASE x = 0
  BY <1>2
<1>3. CASE x < 0
  <2>1. 0 - x \in Nat /\ (0 - x) * t = 0 - x * t /\ x * t \in Int
    BY <1>3
  <2>2. t >= 0 => (0 - x) * 0 <= (0 - x) * t
    BY <2>1, MulMono
  <2>3. t <= 0 - 1 => (0 - x) * t <= (0 - x) * (0 - 1)
    BY <2>1, MulMono
  <2>4. QED
    BY <1>3, <2>1, <2>2, <2>3
<1>4. QED
  BY <1>1, <1>2, <1>3

\* A quotient against a whole number.
LEMMA CDivAtLeast ==
  ASSUME NEW a \in Int, NEW b \in Nat \ {0}, NEW c \in Int
  PROVE  /\ CDiv(a, b) \in Int
         /\ c * b <= a => c <= CDiv(a, b)
         /\ a <= c * b => CDiv(a, b) <= c
<1> DEFINE z == c * b
<1>1. z \in Int /\ CDiv(z, b) = c
  BY CDivExact
<1> HIDE DEF z
<1>2. CDiv(a, b) \in Int
  BY CDivMono
<1>3. ASSUME z <= a PROVE CDiv(z, b) <= CDiv(a, b)
  BY <1>1, <1>3, CDivMono
<1>4. ASSUME a <= z PROVE CDiv(a, b) <= CDiv(z, b)
  BY <1>1, <1>4, CDivMono
<1>5. QED
  BY <1>1, <1>2, <1>3, <1>4 DEF z

LEMMA CDivSigns ==
  ASSUME NEW a \in Int, NEW b \in Nat \ {0}
  PROVE  /\ a >= b => CDiv(a, b) >= 1
         /\ a >= 0 => CDiv(a, b) >= 0
         /\ a <= 0 => CDiv(a, b) <= 0
         /\ a <= 0 - b => CDiv(a, b) <= 0 - 1
<1>1. 1 * b <= a => CDiv(a, b) >= 1
  BY CDivAtLeast
<1>2. 0 * b <= a => CDiv(a, b) >= 0
  BY CDivAtLeast
<1>3. a <= 0 * b => CDiv(a, b) <= 0
  BY CDivAtLeast
<1>4. a <= (0 - 1) * b => CDiv(a, b) <= 0 - 1
  BY CDivAtLeast
<1>5. 0 * b = 0 /\ 1 * b = b /\ (0 - 1) * b = 0 - b
  OBVIOUS
<1>6. QED
  BY <1>1, <1>2, <1>3, <1>4, <1>5

\* A speed, from the movement of a span: no faster than all of it in one interval.
Speed(t, every, span) == CDiv(t * every * Shift, span)

LEMMA SpeedIsBounded ==
  ASSUME NEW t \in Int, NEW every \in Nat \ {0}, NEW span \in Nat \ {0}, every <= span
  PROVE  Speed(t, every, span) \in Int /\ Mag(Speed(t, every, span)) <= Mag(t) * Shift
<1> DEFINE c == t * Shift
           a == t * every * Shift
<1>1. Shift \in Nat \ {0}
  BY AlgorithmsAssumption DEF AlgorithmsAssumption
<1>2. c \in Int /\ a \in Int /\ a = c * every
  BY <1>1
<1>3. Speed(t, every, span) = CDiv(a, span)
  BY DEF Speed
<1>4. CASE t >= 0
  <2>1. c \in Nat /\ Mag(t) * Shift = c
    <3>1. t * Shift \in Nat
      BY <1>1, <1>4
    <3>2. QED
      BY <1>4, <3>1 DEF Mag
  <2> HIDE DEF c, a
  <2>2. c * 0 <= c * every /\ c * every <= c * span
    BY <2>1, MulMono
  <2>3. 0 <= a /\ a <= c * span
    BY <1>2, <2>1, <2>2
  <2>4. CDiv(a, span) \in Int /\ CDiv(a, span) <= c /\ CDiv(a, span) >= 0
    BY <1>2, <2>3, CDivAtLeast, CDivSigns
  <2>5. QED
    BY <1>2, <1>3, <2>1, <2>4 DEF Mag
<1>5. CASE t < 0
  <2>1. 0 - c \in Nat /\ Mag(t) * Shift = 0 - c
    <3>1. (0 - t) * Shift \in Nat /\ (0 - t) * Shift = 0 - t * Shift
      BY <1>1, <1>5
    <3>2. QED
      BY <1>5, <3>1 DEF Mag
  <2> HIDE DEF c, a
  <2>2. (0 - c) * 0 <= (0 - c) * every /\ (0 - c) * every <= (0 - c) * span
    BY <2>1, MulMono
  <2>3. (0 - c) * every = 0 - c * every /\ (0 - c) * span = 0 - c * span
        /\ c * every \in Int /\ c * span \in Int
    BY <1>2
  <2>4. a <= 0 /\ c * span <= a
    BY <1>2, <2>1, <2>2, <2>3
  <2>5. CDiv(a, span) \in Int /\ CDiv(a, span) >= c /\ CDiv(a, span) <= 0
    BY <1>2, <2>4, CDivAtLeast, CDivSigns
  <2>6. QED
    BY <1>2, <1>3, <2>1, <2>5 DEF Mag
<1>6. QED
  BY <1>4, <1>5

\* The dominant half of a movement that is fast enough moves, the way it went: the
\* fixed point has bits enough for it.
LEMMA SpeedKeepsSign ==
  ASSUME NEW t \in Int, NEW u \in Int, Mag(u) <= Mag(t),
         NEW every \in Nat \ {0}, NEW span \in Nat \ {0},
         ((Mag(t) + Mag(u)) * every) \div span >= 1
  PROVE  /\ t > 0 => Speed(t, every, span) > 0
         /\ t < 0 => Speed(t, every, span) < 0
<1> DEFINE s == (Mag(t) + Mag(u)) * every
           b == Mag(t) * every
           a == t * every * Shift
<1>1. Shift \in Nat /\ Shift >= 2
  BY AlgorithmsAssumption DEF AlgorithmsAssumption
<1>2. Mag(t) \in Nat /\ Mag(u) \in Nat
  BY DEF Mag
<1>3. s \in Nat /\ b \in Nat /\ s <= 2 * b
  <2>1. PICK d \in Nat : Mag(t) = Mag(u) + d
    BY <1>2, Mag(t) - Mag(u) \in Nat
  <2>2. d * every \in Nat
    OBVIOUS
  <2>3. Mag(u) * every \in Nat
    BY <1>2
  <2>4. s = 2 * (Mag(u) * every) + d * every /\ b = Mag(u) * every + d * every
    BY <1>2, <2>1
  <2> HIDE DEF s, b
  <2>5. QED
    BY <2>2, <2>3, <2>4
<1>4. span <= s
  <2> HIDE DEF s
  <2>1. s \div span \in Int /\ span * (s \div span) <= s /\ s \div span >= 1
    BY <1>3, DivBounds DEF s
  <2>2. span * 1 <= span * (s \div span)
    BY <2>1, MulMono
  <2>3. span * (s \div span) \in Int
    BY <2>1
  <2>4. QED
    BY <1>3, <2>1, <2>2, <2>3
<1>5. 2 * b <= b * Shift
  <2> HIDE DEF b
  <2>1. b * 2 <= b * Shift
    BY <1>1, <1>3, MulMono
  <2>2. QED
    BY <1>3, <2>1
<1>6. b * Shift \in Nat /\ span <= b * Shift
  <2>1. b * Shift \in Nat
    <3> HIDE DEF b
    <3>1. QED
      BY <1>1, <1>3
  <2> HIDE DEF b, s
  <2>2. QED
    BY <1>3, <1>4, <1>5, <2>1
<1>7. Speed(t, every, span) = CDiv(a, span)
  BY DEF Speed
<1>8. ASSUME t > 0 PROVE Speed(t, every, span) > 0
  <2>1. a = b * Shift
    BY <1>8 DEF Mag
  <2>2. a \in Int /\ a >= span
    <3> HIDE DEF a, b, s
    <3>1. QED
      BY <1>6, <2>1
  <2> HIDE DEF a, b, s
  <2>3. CDiv(a, span) >= 1 /\ CDiv(a, span) \in Int
    BY <2>2, CDivSigns, CDivAtLeast
  <2>4. QED
    BY <1>7, <2>3
<1>9. ASSUME t < 0 PROVE Speed(t, every, span) < 0
  <2>1. a = 0 - b * Shift
    BY <1>1, <1>9 DEF Mag
  <2>2. a \in Int /\ a <= 0 - span
    <3> HIDE DEF a, b, s
    <3>1. QED
      BY <1>6, <2>1
  <2> HIDE DEF a, b, s
  <2>3. CDiv(a, span) <= 0 - 1 /\ CDiv(a, span) \in Int
    BY <2>2, CDivSigns, CDivAtLeast
  <2>4. QED
    BY <1>7, <2>3
<1>10. QED
  BY <1>8, <1>9

\* What the loops of iqs9151_inertia_seed_from_history sum up: no more than there
\* was movement.
LEMMA RecentIsLight ==
  ASSUME NEW run \in Seq(Samples), NEW m \in 0..Size, NEW recent,
         recent = [i \in 1..m |-> At(Pushed(run), i - 1)], NEW f \in Axes
  PROVE  /\ SumAlong(recent, f) \in Int /\ Mag(SumAlong(recent, f)) <= SumLengths(run, f)
         /\ \A i \in 1..m : recent[i] \in Samples
<1> DEFINE h == Pushed(run)
           n == Size - 1
           V == Along(h, f)
           W == Lengths(h, f)
           all == SumLengths(run, f)
<1>1. n \in Nat /\ n + 1 = Size /\ m \in 0..n + 1 /\ m \in Nat
  BY SizeOK
<1>2. h \in Rings
  BY PushedIsRinged DEF Ringed
<1> HIDE DEF h
<1>3. /\ V \in [0..n -> Int] /\ W \in [0..n -> Int]
      /\ \A k \in 0..n : W[k] = Mag(V[k])
      /\ \A k \in 0..n : At(h, k) \in Samples
  BY <1>2, AlongOK DEF Along, Lengths
<1>4. all \in Nat /\ Distance(W, m) <= all
  BY PushedIsLight DEF Light, h
<1>5. \A k \in 1..m : k - 1 \in 0..n
  BY <1>1
<1>6. [i \in DOMAIN recent |-> recent[i][f]] = [k \in 1..m |-> V[k - 1]]
  <2>1. DOMAIN recent = 1..m /\ \A i \in 1..m : recent[i] = At(h, i - 1)
    BY DEF h
  <2>2. \A i \in 1..m : recent[i][f] = V[i - 1]
    BY <1>5, <2>1 DEF Along
  <2> HIDE DEF V
  <2>3. QED
    BY <2>1, <2>2
<1>7. SumAlong(recent, f) = Distance(V, m)
  BY <1>6 DEF Distance, SumAlong
<1> HIDE DEF V, W, all, n
<1>8. Mag(Distance(V, m)) <= Distance(W, m) /\ Distance(V, m) \in Int /\ Distance(W, m) \in Int
  BY <1>1, <1>3, DistanceMag
<1>9. \A i \in 1..m : recent[i] \in Samples
  BY <1>3, <1>5 DEF h
<1>10. Mag(Distance(V, m)) \in Int
  BY <1>8 DEF Mag
<1>11. QED
  BY <1>4, <1>7, <1>8, <1>9, <1>10 DEF all

\* The gates of a glide: what the parameters may be set to.
Gates == [window : Int, staleGap : Int, minSamples : Nat \ {0}, minSpeed : Nat \ {0},
          interval : Nat \ {0}]

\* However the fingers moved, a flick glides on the way it went: its direction is,
\* on one axis, that of at least min_samples of the movements of the window, one of
\* them is not older than the stale gap, and on both axes it is no faster than the
\* whole of the movement in one interval (iqs9151_inertia_seed_from_history).
THEOREM GlideGoesOn ==
  ASSUME NEW run \in Seq(Samples), InTime(run), NEW now \in Int, NEW p \in Gates,
         Seed(Pushed(run), now, p).ok
  PROVE  LET seed   == Seed(Pushed(run), now, p)
             kept   == Kept(run, now, p.window)
         IN  /\ seed.vx \in Int /\ seed.vy \in Int
             /\ \/ Cardinality({i \in kept : run[i].x * seed.vx > 0}) >= p.minSamples
                \/ Cardinality({i \in kept : run[i].y * seed.vy > 0}) >= p.minSamples
             /\ \E i \in kept : now - run[i].ms <= p.staleGap
             /\ Mag(seed.vx) <= SumLengths(run, "x") * Shift
             /\ Mag(seed.vy) <= SumLengths(run, "y") * Shift
<1> DEFINE h == Pushed(run)
           kept == Kept(run, now, p.window)
           recent == Recent(h, now, p.window)
           tx == Total([i \in DOMAIN recent |-> recent[i].x])
           ty == Total([i \in DOMAIN recent |-> recent[i].y])
           span == Larger(recent[1].ms - recent[Len(recent)].ms, p.interval)
           seed == Seed(h, now, p)
           all(f) == SumLengths(run, f)
           F == [i \in kept |-> Rank(run, i) + 1]
<1>1. /\ p.window \in Int /\ p.staleGap \in Int /\ p.minSamples \in Nat \ {0}
      /\ p.minSpeed \in Nat \ {0} /\ p.interval \in Nat \ {0}
  BY DEF Gates
<1>2. PICK m \in 0..Size :
         /\ recent = [i \in 1..m |-> At(h, i - 1)]
         /\ IsFiniteSet(kept) /\ kept \subseteq DOMAIN run
         /\ F \in Bijection(kept, 1..m)
         /\ \A i \in kept : At(h, Rank(run, i)) = run[i]
  BY <1>1, RecentIsKept
<1>3. m \in Nat /\ DOMAIN recent = 1..m /\ Len(recent) = m
  BY <1>2, SizeOK
<1>4. /\ tx \in Int /\ Mag(tx) <= all("x") /\ ty \in Int /\ Mag(ty) <= all("y")
      /\ \A i \in 1..m : recent[i] \in Samples
  <2>1. "x" \in Axes /\ "y" \in Axes
    BY DEF Axes
  <2>2. tx = SumAlong(recent, "x") /\ ty = SumAlong(recent, "y")
    BY DEF SumAlong
  <2> HIDE DEF recent, tx, ty
  <2>3. QED
    BY <1>2, <2>1, <2>2, RecentIsLight
<1>5. /\ Len(recent) >= p.minSamples
      /\ now - recent[1].ms <= p.staleGap
      /\ tx # 0 \/ ty # 0
      /\ Consistent(recent, tx, ty) >= p.minSamples
      /\ ((Mag(tx) + Mag(ty)) * p.interval) \div span >= p.minSpeed
      /\ seed.vx = Speed(tx, p.interval, span) /\ seed.vy = Speed(ty, p.interval, span)
  BY DEF Seed, NoSeed, Speed
<1>6. m >= 1 /\ 1 \in 1..m /\ m \in 1..m
  BY <1>1, <1>3, <1>5
<1>7. span \in Nat \ {0} /\ p.interval <= span
  <2>1. recent[1].ms \in Int /\ recent[m].ms \in Int
    BY <1>4, <1>6 DEF Samples
  <2> HIDE DEF recent
  <2>2. QED
    BY <1>1, <1>3, <2>1 DEF Larger
<1>8. /\ F \in [kept -> 1..m] /\ \A r \in 1..m : \E i \in kept : F[i] = r
      /\ \A i \in kept : recent[F[i]] = run[i]
  <2>1. F \in [kept -> 1..m] /\ \A r \in 1..m : \E i \in kept : F[i] = r
    <3> HIDE DEF F, kept
    <3>1. QED
      BY <1>2 DEF Bijection, Injection, Surjection
  <2>2. ASSUME NEW i \in kept PROVE recent[F[i]] = run[i]
    <3>1. F[i] \in 1..m /\ F[i] = Rank(run, i) + 1
      BY <2>1
    <3>2. Rank(run, i) \in Nat
      <4>1. Moved(run) = MovedAt(run, Len(run)) /\ Len(run) \in Nat
        BY DEF Moved, MovedAt, NoMove
      <4>2. Rank(run, i) = RankAt(run, Len(run), i)
        BY <4>1 DEF Rank, RankAt
      <4>3. QED
        BY <4>1, <4>2, MovedIsFinite
    <3>3. \A r \in 1..m : recent[r] = At(h, r - 1)
      <4> HIDE DEF recent, h
      <4>1. QED
        BY <1>2
    <3>4. recent[F[i]] = At(h, Rank(run, i) + 1 - 1) /\ Rank(run, i) + 1 - 1 = Rank(run, i)
      <4> HIDE DEF recent, h, F
      <4>1. QED
        BY <3>1, <3>2, <3>3
    <3>5. QED
      BY <1>2, <3>4
  <2>3. QED
    BY <2>1, <2>2
<1> HIDE DEF h, kept, recent, tx, ty, span, seed, all, F
<1>9. \E i \in kept : now - run[i].ms <= p.staleGap
  <2>1. PICK i \in kept : F[i] = 1
    BY <1>6, <1>8
  <2>2. QED
    BY <1>5, <1>8, <2>1
<1>10. seed.vx \in Int /\ seed.vy \in Int
       /\ Mag(seed.vx) <= all("x") * Shift /\ Mag(seed.vy) <= all("y") * Shift
  <2>1. Shift \in Nat \ {0} /\ Mag(tx) \in Nat /\ Mag(ty) \in Nat
    BY <1>4, AlgorithmsAssumption DEF AlgorithmsAssumption, Mag
  <2>2. all("x") \in Nat /\ all("y") \in Nat
    BY PushedIsLight DEF all, Axes
  <2>3. Shift * Mag(tx) <= Shift * all("x") /\ Shift * Mag(ty) <= Shift * all("y")
    BY <1>4, <2>1, <2>2, MulMono
  <2>4. /\ seed.vx \in Int /\ Mag(seed.vx) <= Mag(tx) * Shift
        /\ seed.vy \in Int /\ Mag(seed.vy) <= Mag(ty) * Shift
    BY <1>1, <1>4, <1>5, <1>7, SpeedIsBounded
  <2>5. Mag(seed.vx) \in Int /\ Mag(seed.vy) \in Int
    BY <2>4 DEF Mag
  <2>6. /\ Shift * Mag(tx) = Mag(tx) * Shift /\ Shift * all("x") = all("x") * Shift
        /\ Shift * Mag(ty) = Mag(ty) * Shift /\ Shift * all("y") = all("y") * Shift
        /\ Mag(tx) * Shift \in Int /\ all("x") * Shift \in Int
        /\ Mag(ty) * Shift \in Int /\ all("y") * Shift \in Int
    BY <2>1, <2>2
  <2>7. QED
    BY <2>3, <2>4, <2>5, <2>6
<1>11. ((Mag(tx) + Mag(ty)) * p.interval) \div span >= 1
       /\ Mag(tx) \in Nat /\ Mag(ty) \in Nat /\ Mag(ty) + Mag(tx) = Mag(tx) + Mag(ty)
  <2>1. Mag(tx) \in Nat /\ Mag(ty) \in Nat
    BY <1>4 DEF Mag
  <2>2. ((Mag(tx) + Mag(ty)) * p.interval) \div span \in Int
    <3>1. (Mag(tx) + Mag(ty)) * p.interval \in Int
      BY <1>1, <2>1
    <3>2. QED
      BY <1>7, <3>1, DivBounds
  <2>3. QED
    BY <1>1, <1>5, <2>1, <2>2
<1>12. CASE Mag(tx) >= Mag(ty)
  <2> DEFINE good == {r \in 1..m : recent[r].x * tx > 0}
             wanted == {i \in kept : run[i].x * seed.vx > 0}
  <2>1. Consistent(recent, tx, ty) = Cardinality(good)
    <3>1. {i \in 1..m : IF Mag(tx) >= Mag(ty) THEN recent[i].x * tx > 0
                        ELSE recent[i].y * ty > 0} = good
      BY <1>12
    <3>2. QED
      BY <1>3, <3>1 DEF Consistent
  <2>2. (tx > 0 <=> seed.vx > 0) /\ (tx < 0 <=> seed.vx < 0) /\ seed.vx \in Int
    <3>1. (tx > 0 => seed.vx > 0) /\ (tx < 0 => seed.vx < 0)
      BY <1>1, <1>4, <1>5, <1>7, <1>11, <1>12, SpeedKeepsSign
    <3>2. tx # 0
      BY <1>4, <1>5, <1>12 DEF Mag
    <3>3. seed.vx \in Int
      BY <1>1, <1>4, <1>5, <1>7, SpeedIsBounded
    <3>4. QED
      BY <1>4, <3>1, <3>2, <3>3
  <2>3. ASSUME NEW i \in kept PROVE i \in wanted <=> F[i] \in good
    <3>1. F[i] \in 1..m /\ recent[F[i]] = run[i] /\ run[i].x \in Int
      BY <1>4, <1>8 DEF Samples
    <3>2. run[i].x * tx > 0 <=> run[i].x * seed.vx > 0
      BY <1>4, <2>2, <3>1, SignOf
    <3>3. QED
      BY <3>1, <3>2
  <2>4. Cardinality(good) = Cardinality(wanted)
    <3> DEFINE T == 1..m
    <3>1. good \in SUBSET T /\ wanted \in SUBSET kept
          /\ IsFiniteSet(kept) /\ F \in Bijection(kept, T)
      BY <1>2
    <3> HIDE DEF good, wanted, T
    <3>2. QED
      BY <2>3, <3>1, CountedAlike
  <2>5. wanted = {i \in kept : run[i].x * seed.vx > 0}
    OBVIOUS
  <2>6. Cardinality({i \in kept : run[i].x * seed.vx > 0}) >= p.minSamples
    <3> HIDE DEF good, wanted
    <3>1. QED
      BY <1>5, <2>1, <2>4, <2>5
  <2>7. QED
    BY <1>9, <1>10, <2>6 DEF kept, seed, all, h
<1>13. CASE ~(Mag(tx) >= Mag(ty))
  <2> DEFINE good == {r \in 1..m : recent[r].y * ty > 0}
             wanted == {i \in kept : run[i].y * seed.vy > 0}
  <2>1. Consistent(recent, tx, ty) = Cardinality(good)
    <3>1. {i \in 1..m : IF Mag(tx) >= Mag(ty) THEN recent[i].x * tx > 0
                        ELSE recent[i].y * ty > 0} = good
      BY <1>13
    <3>2. QED
      BY <1>3, <3>1 DEF Consistent
  <2>2. (ty > 0 <=> seed.vy > 0) /\ (ty < 0 <=> seed.vy < 0) /\ seed.vy \in Int
    <3>1. Mag(tx) <= Mag(ty) /\ ((Mag(ty) + Mag(tx)) * p.interval) \div span >= 1
      BY <1>11, <1>13
    <3>2. (ty > 0 => seed.vy > 0) /\ (ty < 0 => seed.vy < 0)
      BY <1>1, <1>4, <1>5, <1>7, <3>1, SpeedKeepsSign
    <3>3. ty # 0
      BY <1>4, <1>13 DEF Mag
    <3>4. seed.vy \in Int
      BY <1>1, <1>4, <1>5, <1>7, SpeedIsBounded
    <3>5. QED
      BY <1>4, <3>2, <3>3, <3>4
  <2>3. ASSUME NEW i \in kept PROVE i \in wanted <=> F[i] \in good
    <3>1. F[i] \in 1..m /\ recent[F[i]] = run[i] /\ run[i].y \in Int
      BY <1>4, <1>8 DEF Samples
    <3>2. run[i].y * ty > 0 <=> run[i].y * seed.vy > 0
      BY <1>4, <2>2, <3>1, SignOf
    <3>3. QED
      BY <3>1, <3>2
  <2>4. Cardinality(good) = Cardinality(wanted)
    <3> DEFINE T == 1..m
    <3>1. good \in SUBSET T /\ wanted \in SUBSET kept
          /\ IsFiniteSet(kept) /\ F \in Bijection(kept, T)
      BY <1>2
    <3> HIDE DEF good, wanted, T
    <3>2. QED
      BY <2>3, <3>1, CountedAlike
  <2>5. wanted = {i \in kept : run[i].y * seed.vy > 0}
    OBVIOUS
  <2>6. Cardinality({i \in kept : run[i].y * seed.vy > 0}) >= p.minSamples
    <3> HIDE DEF good, wanted
    <3>1. QED
      BY <1>5, <2>1, <2>4, <2>5
  <2>7. QED
    BY <1>9, <1>10, <2>6 DEF kept, seed, all, h
<1>14. QED
  BY <1>12, <1>13

\* So does the glide after every run of frames that is tried, whenever the fingers
\* are lifted (iqs9151_inertia_seed_from_history).
COROLLARY SeedAlwaysFollows == SeedFollowsFlick
<1> SUFFICES ASSUME NEW run \in Runs, NEW rest \in 0..3
             PROVE  LET now  == rest + (IF run = <<>> THEN 0 ELSE Last(run).ms)
                        seed == Seed(Pushed(run), now, SeedParams)
                        kept == Kept(run, now, SeedParams.window)
                        sum  == Total([i \in DOMAIN run |-> Mag(run[i].x)])
                    IN  seed.ok =>
                          /\ Cardinality({i \in kept : run[i].x * seed.vx > 0})
                               >= SeedParams.minSamples
                          /\ \E i \in kept : now - run[i].ms <= SeedParams.staleGap
                          /\ Mag(seed.vx) <= sum * Shift
  BY DEF SeedFollowsFlick
<1> DEFINE last == IF run = <<>> THEN 0 ELSE Last(run).ms
           now  == rest + last
           seed == Seed(Pushed(run), now, SeedParams)
           kept == Kept(run, now, SeedParams.window)
<1>1. /\ run \in Seq(Samples) /\ InTime(run) /\ last \in Int
      /\ \A i \in DOMAIN run : run[i].y = 0
  BY RunsAreInTime
<1>2. now \in Int
  <2> HIDE DEF last
  <2>1. QED
    BY <1>1
<1>3. SeedParams \in Gates /\ SeedParams.minSamples = 2
  BY DEF SeedParams, Gates
<1>4. kept \subseteq DOMAIN run
  BY DEF Kept, Moved
<1> SUFFICES ASSUME seed.ok
             PROVE  /\ Cardinality({i \in kept : run[i].x * seed.vx > 0})
                         >= SeedParams.minSamples
                    /\ \E i \in kept : now - run[i].ms <= SeedParams.staleGap
                    /\ Mag(seed.vx) <= Total([i \in DOMAIN run |-> Mag(run[i].x)]) * Shift
  OBVIOUS
<1> HIDE DEF now
<1>5. /\ seed.vx \in Int /\ seed.vy \in Int
      /\ \/ Cardinality({i \in kept : run[i].x * seed.vx > 0}) >= SeedParams.minSamples
         \/ Cardinality({i \in kept : run[i].y * seed.vy > 0}) >= SeedParams.minSamples
      /\ \E i \in kept : now - run[i].ms <= SeedParams.staleGap
      /\ Mag(seed.vx) <= SumLengths(run, "x") * Shift
  BY <1>1, <1>2, <1>3, GlideGoesOn
<1>6. Cardinality({i \in kept : run[i].y * seed.vy > 0}) = 0
  <2>1. seed.vy \in Int
    BY <1>5
  <2>2. {i \in kept : run[i].y * seed.vy > 0} = {}
    BY <1>1, <1>4, <2>1
  <2>3. QED
    BY <2>2, FS_EmptySet
<1>7. SumLengths(run, "x") = Total([i \in DOMAIN run |-> Mag(run[i].x)])
  BY DEF SumLengths
<1> HIDE DEF seed, kept
<1>8. QED
  BY <1>3, <1>5, <1>6, <1>7

\* In every state, so in the one where it is computed: the ring holds the newest
\* movement, a glide follows the flick, and neither fixed point nor a late work
\* loses any of it, for the runs that are tried and whatever the bounds.
THEOREM FlickAlwaysFollowed == Spec => []FlickIsFollowed
<1>1. FlickIsFollowed
  BY RingAlwaysKeepsNewest, SeedAlwaysFollows, GlideAlwaysConserves, LateWorksAlwaysCatchUp
     DEF FlickIsFollowed
<1>2. QED
  BY <1>1, PTL
=============================================================================
