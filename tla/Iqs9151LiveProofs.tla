-------------------------- MODULE Iqs9151LiveProofs --------------------------
(***************************************************************************)
(* Proofs about Iqs9151Live: for any rates, finger counts, buttons and     *)
(* modes, the live view shows the fingers whatever another thread does to  *)
(* the throttle, and undisturbed it shows every change at the rate asked.  *)
(*                                                                         *)
(* And about Iqs9151Console, for every summary, run of frames, line and    *)
(* command: a packed summary arrives as it was, statistics agree at any    *)
(* moment, a line becomes its words, no parameter is cut off where it is   *)
(* used, and a command changes one thing or, refused, nothing.             *)
(***************************************************************************)
EXTENDS MCIqs9151Live, BasicProofs, FiniteSetTheorems, SequenceTheorems, TLAPS

\* What the throttle remembers of the fingers is what the view shows of them:
\* a clear can make it forget, never remember something else.
Remembered == thr.has /\ thr.n # 0 => shown.n = thr.n

\* Undisturbed, the throttle remembers exactly the last frame the view was told.
InStep ==
  ~disturbed =>
    /\ cmd = "idle"
    /\ on => thr.has
    /\ thr.has => /\ thr.n = shown.n /\ thr.hold = shown.hold
                  /\ thr.mode = shown.mode /\ thr.age = since

\* Undisturbed, what is about to be told is news or has waited for its turn.
DueToTell ==
  notify = "tell" /\ ~disturbed => on /\ (last = shown => since >= Period[hz])

IInv ==
  /\ LiveTypeOK /\ Remembered /\ FingersAreShown
  /\ InStep /\ DueToTell /\ ChangesAreShown

LEMMA AgesAreNumbers ==
  /\ LongAgo \in Nat /\ LongAgo \in 0..LongAgo /\ 0 \in 0..LongAgo
  /\ \A r \in Rates : Period[r] \in Nat
  BY LiveAssumption DEF LiveAssumption

LEMMA ThrottleFields ==
  ASSUME NEW t \in Throttle
  PROVE  /\ t.has \in BOOLEAN /\ t.age \in 0..LongAgo /\ t.n \in Counts
         /\ t.hold \in Buttons /\ t.mode \in Modes
  BY DEF Throttle

LEMMA NothingOK == Nothing \in Infos /\ Nothing.n = 0 /\ Cleared \in Throttle
  BY AgesAreNumbers, LiveAssumption DEF LiveAssumption, Nothing, Infos, Cleared, Throttle

\* One field of a record of the type, taken from another record of the type.
LEMMA ForgetType ==
  ASSUME NEW t \in Throttle, NEW u \in Throttle, NEW f \in Fields
  PROVE  [t EXCEPT ![f] = u[f]] \in Throttle
<1>1. CASE f = "has"
  BY <1>1, ThrottleFields DEF Throttle
<1>2. CASE f = "age"
  BY <1>2, ThrottleFields DEF Throttle
<1>3. CASE f = "n"
  BY <1>3, ThrottleFields DEF Throttle
<1>4. CASE f = "hold"
  BY <1>4, ThrottleFields DEF Throttle
<1>5. CASE f = "mode"
  BY <1>5, ThrottleFields DEF Throttle
<1>6. QED
  BY <1>1, <1>2, <1>3, <1>4, <1>5 DEF Fields

-----------------------------------------------------------------------------
LEMMA EnableStep ==
  ASSUME IInv, NEW want \in BOOLEAN, NEW rate \in Rates, EnableLive(want, rate)
  PROVE  IInv'
  BY DEF EnableLive, View, IInv, LiveTypeOK, Remembered, FingersAreShown, InStep,
     DueToTell, ChangesAreShown

LEMMA RateStep ==
  ASSUME IInv, StoreRate
  PROVE  IInv'
  BY DEF StoreRate, View, IInv, LiveTypeOK, Remembered, FingersAreShown, InStep,
     DueToTell, ChangesAreShown

LEMMA ClearStep ==
  ASSUME IInv, NEW f \in Fields, ClearField(f)
  PROVE  IInv'
<1>1. /\ thr \in Throttle /\ thr' = [thr EXCEPT ![f] = Cleared[f]]
  BY DEF ClearField, IInv, LiveTypeOK
<1>2. /\ thr' \in Throttle
      /\ thr'.n = thr.n \/ thr'.n = 0
      /\ thr'.has => thr.has
  <2>1. thr' \in Throttle
    BY <1>1, NothingOK, ForgetType
  <2>2. f # "n" => thr'.n = thr.n
    BY <1>1 DEF Throttle
  <2>3. f = "n" => thr'.n = 0
    BY <1>1 DEF Throttle, Cleared
  <2>4. f # "has" => thr'.has = thr.has
    BY <1>1 DEF Throttle
  <2>5. f = "has" => ~thr'.has
    BY <1>1 DEF Throttle, Cleared
  <2>6. QED
    BY <2>1, <2>2, <2>3, <2>4, <2>5
<1>3. LiveTypeOK'
  BY <1>2 DEF ClearField, View, IInv, LiveTypeOK
<1>4. Remembered'
  BY <1>2 DEF ClearField, View, IInv, Remembered
<1>5. FingersAreShown' /\ InStep' /\ DueToTell' /\ ChangesAreShown'
  BY DEF ClearField, View, IInv, FingersAreShown, InStep, DueToTell, ChangesAreShown
<1>6. QED
  BY <1>3, <1>4, <1>5 DEF IInv

LEMMA DecideStep ==
  ASSUME IInv, NEW i \in Infos, Decide(i)
  PROVE  IInv'
<1>1. /\ notify = "idle" /\ last' = i /\ seen' = on
      /\ UNCHANGED <<on, hz, cmd, arg, todo, thr, shown, since, disturbed>>
      /\ on /\ Tells(i) => notify' = "tell"
      /\ ~(on /\ Tells(i)) => notify' = "idle"
  BY DEF Decide, Command
<1>2. /\ thr.has \in BOOLEAN /\ on \in BOOLEAN /\ disturbed \in BOOLEAN
      /\ Period[hz] \in Nat /\ since \in 0..LongAgo /\ thr.age \in 0..LongAgo
      /\ shown \in Infos
  BY ThrottleFields, AgesAreNumbers DEF IInv, LiveTypeOK
<1>3. LiveTypeOK'
  BY <1>1 DEF IInv, LiveTypeOK
<1>4. Remembered' /\ InStep'
  BY <1>1 DEF IInv, Remembered, InStep
<1>5. FingersAreShown'
  BY <1>1, <1>2 DEF IInv, FingersAreShown, Remembered, Tells
<1>6. DueToTell'
  BY <1>1, <1>2 DEF IInv, DueToTell, InStep, Tells
<1>7. ChangesAreShown'
  <2> SUFFICES ASSUME on, notify' = "idle", ~disturbed
               PROVE  shown.n = i.n /\ (i.n # 0 => shown = i)
    BY <1>1 DEF ChangesAreShown
  <2>1. ~Tells(i) /\ thr.has /\ thr.n = shown.n /\ thr.hold = shown.hold
        /\ thr.mode = shown.mode
    BY <1>1 DEF IInv, InStep
  <2>2. CASE i.n = 0
    BY <2>1, <2>2 DEF Tells
  <2>3. CASE i.n # 0
    <3>1. i.n = shown.n /\ i.hold = shown.hold /\ i.mode = shown.mode
      BY <2>1, <2>3 DEF Tells
    <3>2. shown = i
      BY <1>2, <3>1 DEF Infos
    <3>3. QED
      BY <3>1, <3>2
  <2>4. QED
    BY <2>2, <2>3
<1>8. QED
  BY <1>3, <1>4, <1>5, <1>6, <1>7 DEF IInv

LEMMA TellStep ==
  ASSUME IInv, Tell
  PROVE  IInv'
<1>1. last \in Infos /\ last.n \in Counts /\ last.hold \in Buttons /\ last.mode \in Modes
  BY DEF IInv, LiveTypeOK, Infos
<1>2. /\ notify' = "idle" /\ shown' = last /\ since' = 0
      /\ thr' = [has |-> TRUE, age |-> 0, n |-> last.n, hold |-> last.hold,
                 mode |-> last.mode]
      /\ UNCHANGED <<on, hz, cmd, arg, todo, last, seen>>
      /\ disturbed' \in BOOLEAN /\ (~disturbed' => cmd = "idle")
  BY DEF Tell, Command
<1>3. /\ thr' \in Throttle /\ thr'.has /\ thr'.age = 0 /\ thr'.n = last.n
      /\ thr'.hold = last.hold /\ thr'.mode = last.mode
  BY <1>1, <1>2, AgesAreNumbers DEF Throttle
<1>4. LiveTypeOK'
  BY <1>1, <1>2, <1>3, AgesAreNumbers DEF IInv, LiveTypeOK
<1>5. Remembered' /\ FingersAreShown' /\ InStep' /\ DueToTell' /\ ChangesAreShown'
  BY <1>2, <1>3 DEF Remembered, FingersAreShown, InStep, DueToTell, ChangesAreShown
<1>6. QED
  BY <1>4, <1>5 DEF IInv

LEMMA TickStep ==
  ASSUME IInv, Tick
  PROVE  IInv'
<1>1. thr \in Throttle /\ since \in 0..LongAgo /\ LongAgo \in Nat
  BY AgesAreNumbers DEF IInv, LiveTypeOK
<1> DEFINE a == IF thr.age < LongAgo THEN thr.age + 1 ELSE thr.age
<1>2. a \in 0..LongAgo
  BY <1>1, ThrottleFields
<1>3. /\ thr' = [thr EXCEPT !.age = a]
      /\ since' = (IF since < LongAgo THEN since + 1 ELSE since)
      /\ notify = "idle" /\ notify' = notify
      /\ UNCHANGED <<on, hz, cmd, arg, todo, last, shown, seen, disturbed>>
  BY DEF Tick, Command
<1> HIDE DEF a
<1>4. /\ thr' \in Throttle /\ thr'.has = thr.has /\ thr'.age = a /\ thr'.n = thr.n
      /\ thr'.hold = thr.hold /\ thr'.mode = thr.mode
  BY <1>1, <1>2, <1>3 DEF Throttle
<1>5. since' \in 0..LongAgo
  BY <1>1, <1>3
<1>6. LiveTypeOK'
  BY <1>3, <1>4, <1>5 DEF IInv, LiveTypeOK
<1>7. Remembered' /\ FingersAreShown' /\ DueToTell' /\ ChangesAreShown'
  BY <1>3, <1>4 DEF IInv, Remembered, FingersAreShown, DueToTell, ChangesAreShown
<1>8. InStep'
  <2>1. thr.age = since => thr'.age = since'
    BY <1>3, <1>4 DEF a
  <2>2. QED
    BY <1>3, <1>4, <2>1 DEF IInv, InStep
<1>9. QED
  BY <1>6, <1>7, <1>8 DEF IInv

LEMMA InitHolds == Init => IInv
<1> SUFFICES ASSUME Init PROVE IInv
  OBVIOUS
<1>1. LiveTypeOK
  BY NothingOK, AgesAreNumbers DEF Init, LiveTypeOK
<1>2. ~thr.has
  BY DEF Init, Cleared
<1>3. QED
  BY <1>1, <1>2 DEF Init, IInv, Remembered, FingersAreShown, InStep, DueToTell,
                    ChangesAreShown

LEMMA NextKeeps == IInv /\ [Next]_vars => IInv'
<1> SUFFICES ASSUME IInv, [Next]_vars PROVE IInv'
  OBVIOUS
<1>1. CASE UNCHANGED vars
  BY <1>1 DEF vars, Command, View, IInv, LiveTypeOK, Remembered, FingersAreShown,
     InStep, DueToTell, ChangesAreShown
<1>2. QED
  BY <1>1, EnableStep, RateStep, ClearStep, DecideStep, TellStep, TickStep DEF Next

\* The invariant that carries the properties below: what the throttle remembers
\* is what it last told, and what it has not told yet is due.
THEOREM LiveInvariant == Spec => []IInv
<1>1. QED
  BY InitHolds, NextKeeps, PTL DEF Spec

-----------------------------------------------------------------------------
\* Every variable keeps the values its C counterpart can hold.
THEOREM LiveTypeCorrect == Spec => []LiveTypeOK
<1>1. IInv => LiveTypeOK
  BY DEF IInv
<1>2. QED
  BY <1>1, LiveInvariant, PTL

\* However the clear of the throttle is torn by the queue, a frame with fingers
\* that has been handled is shown with that many; undisturbed, so is every change.
THEOREM ViewFollows == Spec => []ViewIsTrue
<1>1. IInv => ViewIsTrue
  BY DEF IInv, ViewIsTrue
<1>2. QED
  BY <1>1, LiveInvariant, PTL

\* A frame that tells nothing new is not told before its time.
THEOREM ViewKeepsRate == Spec => RateIsKept
<1>1. IInv /\ [Next]_vars =>
        [notify = "tell" /\ notify' = "idle" /\ last = shown /\ ~disturbed
           => since >= Period[hz]]_vars
  BY DEF IInv, DueToTell
<1>2. QED
  BY <1>1, LiveInvariant, PTL DEF Spec, RateIsKept

-----------------------------------------------------------------------------
(* The packed summary.                                                     *)

\* The lowest digit of a number to any base, and what is left of it.
LEMMA Digits ==
  ASSUME NEW b \in Nat \ {0}, NEW a \in 0..b - 1, NEW y \in Nat
  PROVE  (a + b * y) % b = a /\ (a + b * y) \div b = y
<1> DEFINE x == a + b * y
           q == x \div b
           r == x % b
<1>1. x \in Nat /\ b * y \in Nat
  OBVIOUS
<1> HIDE DEF x
<1>2. q \in Int /\ r \in 0..b - 1 /\ x = b * q + r
  BY <1>1
<1> HIDE DEF q, r
<1>3. CASE q < y
  <2>1. PICK d \in Nat : y = q + 1 + d
    BY <1>2, <1>3, y - q - 1 \in Nat
  <2>2. b * y = b * q + b + b * d
    BY <1>2, <2>1
  <2>3. b * d \in Nat /\ b * q \in Int
    BY <1>2, <2>1
  <2>4. QED
    BY <1>1, <1>2, <2>2, <2>3 DEF x
<1>4. CASE q > y
  <2>1. PICK d \in Nat : q = y + 1 + d
    BY <1>2, <1>4, q - y - 1 \in Nat
  <2>2. b * q = b * y + b + b * d
    BY <1>2, <2>1
  <2>3. b * d \in Nat /\ b * y \in Int
    BY <1>2, <2>1
  <2>4. QED
    BY <1>1, <1>2, <2>2, <2>3 DEF x
<1>5. CASE q = y
  BY <1>1, <1>2, <1>5 DEF x, q, r
<1>6. QED
  BY <1>2, <1>3, <1>4, <1>5

\* A digit above a number of lower digits.
LEMMA DigitAbove ==
  ASSUME NEW b \in Nat \ {0}, NEW d \in Nat \ {0}, NEW a \in 0..b - 1, NEW c \in 0..d - 1
  PROVE  a + b * c \in 0..b * d - 1
<1>1. PICK k \in Nat : d = c + 1 + k
  BY d - c - 1 \in Nat
<1>2. b * d = b * c + b + b * k
  BY <1>1
<1>3. b * c \in Nat /\ b * k \in Nat
  BY <1>1
<1>4. QED
  BY <1>2, <1>3

LEMMA LowDigit ==
  ASSUME NEW b \in Nat \ {0}, NEW a \in 0..b - 1
  PROVE  a % b = a
<1>1. a + b * 0 = a
  OBVIOUS
<1>2. (a + b * 0) % b = a
  BY Digits
<1>3. QED
  BY <1>1, <1>2

LEMMA WholeWord == ASSUME NEW x \in Nat PROVE x \div 1 = x
<1>1. 0 + 1 * x = x
  OBVIOUS
<1>2. 1 \in Nat \ {0} /\ 0 \in 0..1 - 1
  OBVIOUS
<1>3. (0 + 1 * x) \div 1 = x
  BY <1>2, Digits
<1>4. QED
  BY <1>1, <1>3

LEMMA Units ==
  /\ Byte \in Nat \ {0} /\ Half \in Nat \ {0} /\ Half * Byte \in Nat \ {0}
  /\ Half = Byte * Byte /\ Half > Byte
<1> DEFINE b == Byte
<1>1. b \in Nat /\ b > 2
  BY ConsoleAssumption DEF ConsoleAssumption
<1>2. b * b > b /\ b * b \in Nat
  BY <1>1
<1> DEFINE h == b * b
<1>3. h * b > 0 /\ h * b \in Nat
  <2> HIDE DEF h
  <2>1. h \in Nat /\ h > 0
    BY <1>1, <1>2 DEF h
  <2>2. QED
    BY <1>1, <2>1
<1>4. QED
  BY <1>1, <1>2, <1>3 DEF Half

\* Four digits of a word.
LEMMA FourDigits ==
  ASSUME NEW a \in 0..Byte - 1, NEW b \in 0..Byte - 1,
         NEW c \in 0..Byte - 1, NEW d \in 0..Byte - 1
  PROVE  LET w == a + Byte * b + Half * c + Half * Byte * d
         IN  /\ (w \div 1) % Byte = a /\ (w \div Byte) % Byte = b
             /\ (w \div Half) % Byte = c /\ (w \div (Half * Byte)) % Byte = d
<1> DEFINE B == Byte
           H == Half
           Q == Half * Byte
           w == a + Byte * b + Half * c + Half * Byte * d
<1>1. B \in Nat \ {0} /\ H \in Nat \ {0} /\ Q \in Nat \ {0} /\ H = B * B /\ Q = H * B
  BY Units
<1>2. a \in 0..B - 1 /\ b \in 0..B - 1 /\ c \in 0..B - 1 /\ d \in 0..B - 1
  OBVIOUS
<1>3. w = a + B * b + H * c + Q * d
  OBVIOUS
<1> HIDE DEF B, H, Q, w
<1> DEFINE high == c + B * d
           rest == b + B * high
           low  == a + B * b
           most == low + H * c
<1>4. high \in Nat /\ rest \in Nat /\ low \in Nat /\ most \in Nat
  <2>1. B * d \in Nat /\ B * b \in Nat /\ H * c \in Nat
    BY <1>1, <1>2
  <2>2. high \in Nat /\ low \in Nat
    BY <1>2, <2>1
  <2> HIDE DEF high, low
  <2>3. B * high \in Nat
    BY <1>1, <2>2
  <2>4. QED
    BY <1>2, <2>1, <2>2, <2>3
<1>5. w = a + B * rest /\ w = low + H * high /\ w = most + Q * d
  <2>1. Q * d = H * (B * d) /\ H * c = B * (B * c) /\ H * (B * d) = B * (B * (B * d))
    BY <1>1, <1>2
  <2>2. H * high = H * c + H * (B * d) /\ B * high = B * c + B * (B * d)
    BY <1>1, <1>2
  <2>3. B * rest = B * b + B * (B * c) + B * (B * (B * d))
    BY <1>1, <1>2, <2>2
  <2> DEFINE p == B * b
             q == H * c
             r == Q * d
  <2>4. p \in Nat /\ q \in Nat /\ r \in Nat
    BY <1>1, <1>2
  <2>5. w = a + p + q + r /\ B * rest = p + q + r /\ H * high = q + r
        /\ low = a + p /\ most = a + p + q
    <3> HIDE DEF rest, high
    <3>1. QED
      BY <1>3, <2>1, <2>2, <2>3
  <2> HIDE DEF rest, high, low, most, p, q
  <2>6. w = a + B * rest /\ w = low + H * high
    BY <1>2, <2>4, <2>5
  <2>7. w = most + r
    BY <2>5
  <2>8. QED
    BY <2>6, <2>7
<1>6. low \in 0..H - 1
  BY <1>1, <1>2, DigitAbove
<1>7. most \in 0..Q - 1
  <2> HIDE DEF low
  <2>1. QED
    BY <1>1, <1>2, <1>6, DigitAbove
<1>8. w \div 1 = w
  <2> HIDE DEF rest, low, high, most
  <2>1. B * rest \in Nat
    BY <1>1, <1>4
  <2>2. w \in Nat
    BY <1>2, <1>5, <2>1
  <2>3. QED
    BY <2>2, WholeWord
<1>9. w % B = a /\ w \div B = rest
  <2> HIDE DEF rest
  <2>1. QED
    BY <1>1, <1>2, <1>4, <1>5, Digits
<1>10. rest % B = b
  <2> HIDE DEF high
  <2>1. QED
    BY <1>1, <1>2, <1>4, Digits
<1>11. w \div H = high
  <2> HIDE DEF high, low
  <2>1. QED
    BY <1>1, <1>4, <1>5, <1>6, Digits
<1>12. high % B = c
  <2>1. d \in Nat
    BY <1>2
  <2>2. QED
    BY <1>1, <1>2, <2>1, Digits
<1>13. w \div Q = d
  <2> HIDE DEF most
  <2>1. d \in Nat
    BY <1>2
  <2>2. w = most + Q * d
    BY <1>5
  <2>3. QED
    BY <1>1, <1>7, <2>1, <2>2, Digits
<1>14. d % B = d
  BY <1>1, <1>2, LowDigit
<1>15. /\ (w \div 1) % B = a /\ (w \div B) % B = b
       /\ (w \div H) % B = c /\ (w \div Q) % B = d
  <2> HIDE DEF rest, high
  <2>1. QED
    BY <1>8, <1>9, <1>10, <1>11, <1>12, <1>13, <1>14
<1>16. QED
  BY <1>15 DEF B, H, Q, w

\* Two halves of a word.
LEMMA TwoHalves ==
  ASSUME NEW a \in 0..Half - 1, NEW c \in 0..Half - 1
  PROVE  (a + Half * c) % Half = a /\ ((a + Half * c) \div Half) % Half = c
<1>1. Half \in Nat \ {0} /\ c \in Nat
  BY Units
<1>2. QED
  BY <1>1, Digits, LowDigit

LEMMA ShortIsHalf == ASSUME NEW v \in Nat PROVE Short(v) \in 0..Half - 1
  BY Units DEF Short

\* Every summary whose fields fit their places comes out as it went in, with
\* times cut off at what 16 bits can tell (iqs9151_summary_pack, _unpack).
Packable ==
  [contacts : 0..Byte - 1, fingers : 0..Byte - 1, mode2f : 0..Byte - 1,
   hold : 0..Byte - 1, down : Nat, gap : Nat, press : 0..Byte - 1,
   release : 0..Byte - 1, wheel : 0..Half - 1, rel : 0..Half - 1, drops : 0..Half - 1]

THEOREM SummaryArrives ==
  ASSUME NEW s \in Packable
  PROVE  Unpack(Pack(s)) = [s EXCEPT !.down = Short(@), !.gap = Short(@)]
<1> DEFINE w1 == s.contacts + Byte * s.fingers + Half * s.mode2f + Half * Byte * s.hold
           w2 == Short(s.down) + Half * Short(s.gap)
           w3 == s.press + Byte * s.release + Half * s.wheel
           w4 == s.rel + Half * s.drops
           w  == Pack(s)
<1>1. /\ s.contacts \in 0..Byte - 1 /\ s.fingers \in 0..Byte - 1
      /\ s.mode2f \in 0..Byte - 1 /\ s.hold \in 0..Byte - 1
      /\ s.down \in Nat /\ s.gap \in Nat
      /\ s.press \in 0..Byte - 1 /\ s.release \in 0..Byte - 1
      /\ s.wheel \in 0..Half - 1 /\ s.rel \in 0..Half - 1 /\ s.drops \in 0..Half - 1
  BY DEF Packable
<1>2. w[1] = w1 /\ w[2] = w2 /\ w[3] = w3 /\ w[4] = w4
  BY DEF Pack, PackTimes
<1>3. /\ (w1 \div 1) % Byte = s.contacts /\ (w1 \div Byte) % Byte = s.fingers
      /\ (w1 \div Half) % Byte = s.mode2f /\ (w1 \div (Half * Byte)) % Byte = s.hold
  BY <1>1, FourDigits
<1>4. w2 % Half = Short(s.down) /\ (w2 \div Half) % Half = Short(s.gap)
  BY <1>1, ShortIsHalf, TwoHalves
<1>5. w4 % Half = s.rel /\ (w4 \div Half) % Half = s.drops
  BY <1>1, TwoHalves
<1>6. /\ (w3 \div 1) % Byte = s.press /\ (w3 \div Byte) % Byte = s.release
      /\ (w3 \div Half) % Half = s.wheel
  <2> DEFINE low  == s.press + Byte * s.release
             rest == s.release + Byte * s.wheel
  <2>1. /\ Byte \in Nat \ {0} /\ Half \in Nat \ {0} /\ Half = Byte * Byte
        /\ s.wheel \in Nat /\ s.release \in Nat /\ s.press \in Nat
    BY <1>1, Units
  <2>2. low \in 0..Half - 1
    BY <1>1, <2>1, DigitAbove
  <2>3. w3 = low + Half * s.wheel /\ (w3 \div Half) % Half = s.wheel
    <3>1. w3 = low + Half * s.wheel
      OBVIOUS
    <3> HIDE DEF low, w3
    <3>2. QED
      BY <1>1, <2>2, <3>1, TwoHalves
  <2>4. rest \in Nat /\ w3 \in Nat
    <3>1. Byte * s.wheel \in Nat /\ Byte * s.release \in Nat /\ Half * s.wheel \in Nat
      BY <2>1
    <3>2. QED
      BY <2>1, <3>1
  <2>5. w3 = s.press + Byte * rest
    <3>1. Byte * rest = Byte * s.release + Byte * (Byte * s.wheel)
      BY <2>1
    <3>2. Half * s.wheel = Byte * (Byte * s.wheel)
      BY <2>1
    <3>3. Byte * s.release \in Nat /\ Half * s.wheel \in Nat
      BY <2>1
    <3> DEFINE p == Byte * s.release
               q == Half * s.wheel
    <3>4. w3 = s.press + p + q /\ Byte * rest = p + q /\ p \in Nat /\ q \in Nat
      <4> HIDE DEF rest
      <4>1. QED
        BY <3>1, <3>2, <3>3
    <3> HIDE DEF rest, p, q, w3
    <3>5. QED
      BY <2>1, <3>4
  <2> HIDE DEF w3
  <2>6. w3 \div 1 = w3
    BY <2>4, WholeWord
  <2>7. w3 % Byte = s.press /\ w3 \div Byte = rest
    <3> HIDE DEF rest
    <3>1. QED
      BY <1>1, <2>1, <2>4, <2>5, Digits
  <2>8. rest % Byte = s.release
    BY <1>1, <2>1, Digits
  <2> HIDE DEF rest
  <2>9. QED
    BY <2>3, <2>6, <2>7, <2>8
<1> HIDE DEF w, w1, w2, w3, w4
<1>7. Unpack(w)
        = [contacts |-> s.contacts, fingers |-> s.fingers, mode2f |-> s.mode2f,
           hold |-> s.hold, down |-> Short(s.down), gap |-> Short(s.gap),
           press |-> s.press, release |-> s.release, wheel |-> s.wheel,
           rel |-> s.rel, drops |-> s.drops]
  BY <1>2, <1>3, <1>4, <1>5, <1>6 DEF Unpack
<1>8. [s EXCEPT !.down = Short(@), !.gap = Short(@)]
        = [contacts |-> s.contacts, fingers |-> s.fingers, mode2f |-> s.mode2f,
           hold |-> s.hold, down |-> Short(s.down), gap |-> Short(s.gap),
           press |-> s.press, release |-> s.release, wheel |-> s.wheel,
           rel |-> s.rel, drops |-> s.drops]
  <2> DEFINE t == [s EXCEPT !.down = Short(@), !.gap = Short(@)]
  <2>1. DOMAIN s = {"contacts", "fingers", "mode2f", "hold", "down", "gap", "press",
                    "release", "wheel", "rel", "drops"}
    BY DEF Packable
  <2>2. /\ t.down = Short(s.down) /\ t.gap = Short(s.gap)
        /\ \A f \in DOMAIN s : f # "down" /\ f # "gap" => t[f] = s[f]
        /\ t = [f \in DOMAIN s |-> t[f]]
    BY <2>1
  <2>3. /\ t.contacts = s.contacts /\ t.fingers = s.fingers /\ t.mode2f = s.mode2f
        /\ t.hold = s.hold /\ t.press = s.press /\ t.release = s.release
        /\ t.wheel = s.wheel /\ t.rel = s.rel /\ t.drops = s.drops
    BY <2>1, <2>2
  <2> HIDE DEF t
  <2>4. t = [contacts |-> s.contacts, fingers |-> s.fingers, mode2f |-> s.mode2f,
             hold |-> s.hold, down |-> Short(s.down), gap |-> Short(s.gap),
             press |-> s.press, release |-> s.release, wheel |-> s.wheel,
             rel |-> s.rel, drops |-> s.drops]
    BY <2>1, <2>2, <2>3
  <2>5. QED
    BY <2>4 DEF t
<1>9. QED
  BY <1>7, <1>8 DEF w

\* So do the summaries that are tried.
COROLLARY SummaryAlwaysTravels == SummaryTravels
<1>1. ASSUME NEW s \in Summaries PROVE s \in Packable
  <2>1. Byte \in Nat /\ Byte > 2 /\ Half \in Nat /\ Half > Byte
    BY ConsoleAssumption, Units DEF ConsoleAssumption
  <2>2. QED
    BY <2>1 DEF Summaries, Packable
<1>2. QED
  BY <1>1, SummaryArrives DEF SummaryTravels

-----------------------------------------------------------------------------
(* The statistics.                                                         *)

\* What is recorded, for any times and any numbers of fingers, and the books.
Frames  == [kind : {"frame"}, us : Nat, after : Nat, fingers : Nat]
Reports == Frames \cup [kind : {"error", "get"}]

Stats == [n : Nat, max : Nat, avg : Nat, sum : Nat, gap : Nat, errors : Nat]
Books == [st : Stats, last : [has : BOOLEAN, fingers : Nat]]
EmptyBooks == [st |-> NoStats, last |-> NoFrameYet]

LEMMA EmptyBooksOK == EmptyBooks \in Books
  BY DEF EmptyBooks, Books, Stats, NoStats, NoFrameYet

LEMMA FrameIsTaken ==
  ASSUME NEW a \in Books, NEW e \in Frames
  PROVE  /\ Record(a, e) \in Books
         /\ Record(a, e).st.n = a.st.n + 1
         /\ Record(a, e).st.sum = a.st.sum + e.us
         /\ Record(a, e).st.avg = (a.st.sum + e.us) \div (a.st.n + 1)
         /\ Record(a, e).st.max = IF e.us > a.st.max THEN e.us ELSE a.st.max
         /\ Record(a, e).st.errors = a.st.errors
         /\ \/ Record(a, e).st.gap = a.st.gap
            \/ Record(a, e).st.gap = e.after /\ e.fingers > 0
<1> DEFINE s == a.st
           q == (s.sum + e.us) \div (s.n + 1)
           m == IF e.us > s.max THEN e.us ELSE s.max
           g == IF a.last.has /\ a.last.fingers > 0 /\ e.fingers > 0 /\ e.after > s.gap
                THEN e.after ELSE s.gap
<1>1. /\ s \in Stats /\ s.n \in Nat /\ s.sum \in Nat /\ s.max \in Nat /\ s.gap \in Nat
      /\ s.errors \in Nat /\ e.us \in Nat /\ e.after \in Nat /\ e.fingers \in Nat
      /\ e.kind = "frame"
  BY DEF Books, Stats, Frames
<1>2. q \in Nat
  <2>1. s.sum + e.us \in Nat /\ s.n + 1 \in Nat \ {0}
    BY <1>1
  <2>2. QED
    BY <2>1, DivOfNat
<1>3. m \in Nat /\ g \in Nat
  BY <1>1
<1>4. PICK t : t = [s EXCEPT !.n = s.n + 1, !.sum = s.sum + e.us, !.avg = q,
                            !.max = m, !.gap = g]
  OBVIOUS
<1>5. Record(a, e) = [st |-> t, last |-> [has |-> TRUE, fingers |-> e.fingers]]
  BY <1>1, <1>4 DEF Record, RecordFrame, Stats
<1>6. g = s.gap \/ (g = e.after /\ e.fingers > 0)
  OBVIOUS
<1> HIDE DEF q, m, g
<1>7. /\ t \in Stats
      /\ t.n = s.n + 1 /\ t.max = m /\ t.avg = q /\ t.sum = s.sum + e.us /\ t.gap = g
      /\ t.errors = s.errors
  <2> HIDE DEF s
  <2>1. DOMAIN s = {"n", "max", "avg", "sum", "gap", "errors"}
    BY <1>1 DEF Stats
  <2>2. /\ t.n = s.n + 1 /\ t.max = m /\ t.avg = q /\ t.sum = s.sum + e.us /\ t.gap = g
        /\ t.errors = s.errors
    BY <1>4, <2>1
  <2>3. t = [f \in {"n", "max", "avg", "sum", "gap", "errors"} |-> t[f]]
    BY <1>4, <2>1
  <2>4. /\ t.n \in Nat /\ t.max \in Nat /\ t.avg \in Nat /\ t.sum \in Nat
        /\ t.gap \in Nat /\ t.errors \in Nat
    BY <1>1, <1>2, <1>3, <2>2
  <2>5. t \in Stats
    BY <2>3, <2>4 DEF Stats
  <2>6. QED
    BY <2>2, <2>5
<1>8. Record(a, e) \in Books
  BY <1>1, <1>5, <1>7 DEF Books
<1>9. QED
  BY <1>5, <1>6, <1>7, <1>8 DEF q, m

LEMMA OthersAreTaken ==
  ASSUME NEW a \in Books, NEW e \in [kind : {"error", "get"}]
  PROVE  /\ Record(a, e) \in Books
         /\ e.kind = "error" =>
              Record(a, e).st = [a.st EXCEPT !.errors = a.st.errors + 1]
         /\ e.kind = "get" => Record(a, e).st = NoStats
<1>1. e.kind \in {"error", "get"}
  OBVIOUS
<1>2. CASE e.kind = "error"
  BY <1>2 DEF Record, Books, Stats
<1>3. CASE e.kind = "get"
  BY <1>3 DEF Record, Books, Stats, ClearedStats, NoStats
<1>4. QED
  BY <1>1, <1>2, <1>3

LEMMA RecordOK ==
  ASSUME NEW a \in Books, NEW e \in Reports
  PROVE  Record(a, e) \in Books
  BY FrameIsTaken, OthersAreTaken DEF Reports

\* The statistics, taken one by one.
LEMMA RecordedSteps ==
  ASSUME NEW run \in Seq(Reports)
  PROVE  \E f \in [0..Len(run) -> Books] :
           /\ f[0] = EmptyBooks /\ f[Len(run)] = Recorded(run)
           /\ \A n \in 1..Len(run) : f[n] = Record(f[n - 1], run[n])
<1> DEFINE N == Len(run)
           D == DOMAIN run
           E(g) == [s \in SUBSET D |->
                      IF s = {} THEN EmptyBooks ELSE Record(g[s \ {Max(s)}], run[Max(s)])]
           step == [n \in 1..N |-> [s \in Books |-> Record(s, run[n])]]
           fold == CHOOSE g : g = E(g)
<1>1. Recorded(run) = fold[D]
  BY DEF Recorded, FoldLeft, MapThenFoldSet, EmptyBooks
<1>2. N \in Nat /\ D = 1..N /\ EmptyBooks \in Books
  BY EmptyBooksOK
<1>3. ASSUME NEW n \in 1..N, NEW s \in Books PROVE Record(s, run[n]) \in Books
  BY RecordOK
<1>4. step \in [1..N -> [Books -> Books]]
  BY <1>3
<1>5. fold = E(fold)
  <2>1. PICK g \in [SUBSET (1..N) -> Books] : IsFold(g, N, EmptyBooks, step)
    <3> HIDE DEF step, N
    <3>1. QED
      BY <1>2, <1>4, FoldExists, Zenon
  <2>2. ASSUME NEW s \in SUBSET D
        PROVE  g[s] = IF s = {} THEN EmptyBooks ELSE Record(g[s \ {Max(s)}], run[Max(s)])
    <3>1. g[s] = IF s = {} THEN EmptyBooks ELSE step[Max(s)][g[s \ {Max(s)}]]
      BY <1>2, <2>1 DEF IsFold
    <3>2. s # {} => Max(s) \in 1..N /\ g[s \ {Max(s)}] \in Books
      BY <1>2, IndexLeft
    <3>3. QED
      BY <3>1, <3>2
  <2>3. g = E(g)
    BY <1>2, <2>2
  <2>4. QED
    BY <2>3
<1> HIDE DEF fold
<1>6. fold[{}] = EmptyBooks
  BY <1>5
<1>7. ASSUME NEW n \in 1..N, fold[1..n - 1] \in Books
      PROVE  fold[1..n] = step[n][fold[1..n - 1]]
  <2>1. /\ 1..n \in SUBSET (1..N) /\ 1..n # {}
        /\ Max(1..n) = n /\ (1..n) \ {Max(1..n)} = 1..n - 1
    BY <1>2, IndexSets
  <2>2. fold[1..n] = Record(fold[1..n - 1], run[n])
    BY <1>2, <1>5, <2>1
  <2>3. QED
    BY <1>7, <2>2
<1>8. PICK f \in [0..N -> Books] : IsCourse(f, N, EmptyBooks, step, fold[1..N])
  <2> HIDE DEF step, N
  <2>1. QED
    BY <1>2, <1>4, <1>6, <1>7, FoldCourse, Zenon
<1>9. ASSUME NEW n \in 1..N PROVE f[n] = Record(f[n - 1], run[n])
  <2>1. f[n - 1] \in Books /\ f[n] = step[n][f[n - 1]]
    <3> HIDE DEF step, N
    <3>1. n - 1 \in 0..N
      BY <1>2
    <3>2. QED
      BY <1>8, <3>1 DEF IsCourse
  <2>2. QED
    BY <2>1
<1>10. QED
  BY <1>1, <1>2, <1>8, <1>9 DEF IsCourse

\* The frames among the first n since the last reset, and an error that is not
\* yet followed by its frame.
SinceAt(run, n) ==
  {i \in 1..n : run[i].kind = "frame" /\ \A j \in i..n : run[j].kind # "get"}
Awaits(run, n) ==
  \E i \in 1..n : run[i].kind = "error" /\ \A k \in i..n : run[k].kind # "frame"

\* What the statistics are after the first n of a run.
Tallied(st, run, n) ==
  LET S == SinceAt(run, n)
  IN  /\ IsFiniteSet(S) /\ st.n = Cardinality(S)
      /\ S = {} => st.sum = 0 /\ st.max = 0
      /\ S # {} => /\ st.avg = st.sum \div st.n
                   /\ \E i \in S : st.n * run[i].us <= st.sum
                   /\ st.sum <= st.n * st.max
                   /\ \E i \in S : run[i].us = st.max
      /\ st.errors <= st.n + 1
      /\ st.errors = st.n + 1 => Awaits(run, n)
      /\ st.gap # 0 => \E i \in S : run[i].after = st.gap /\ run[i].fingers > 0

LEMMA NothingTallied ==
  ASSUME NEW run, NEW n, SinceAt(run, n) = {}
  PROVE  Tallied(NoStats, run, n)
<1>1. /\ NoStats.n = 0 /\ NoStats.sum = 0 /\ NoStats.max = 0 /\ NoStats.errors = 0
      /\ NoStats.gap = 0
  BY DEF NoStats
<1>2. IsFiniteSet({}) /\ Cardinality({}) = 0
  BY FS_EmptySet
<1>3. QED
  BY <1>1, <1>2 DEF Tallied

LEMMA SinceNext ==
  ASSUME NEW run, NEW n \in Nat
  PROVE  /\ run[n + 1].kind = "frame" => SinceAt(run, n + 1) = SinceAt(run, n) \cup {n + 1}
         /\ run[n + 1].kind = "error" => SinceAt(run, n + 1) = SinceAt(run, n)
         /\ run[n + 1].kind = "get" => SinceAt(run, n + 1) = {}
         /\ n + 1 \notin SinceAt(run, n)
<1>1. 1..n + 1 = (1..n) \cup {n + 1} /\ n + 1 \notin 1..n
  OBVIOUS
<1>2. /\ \A i \in 1..n : i..n + 1 = (i..n) \cup {n + 1} /\ n + 1 \in i..n + 1
      /\ (n + 1)..(n + 1) = {n + 1}
  OBVIOUS
<1>3. CASE run[n + 1].kind = "frame"
  BY <1>1, <1>2, <1>3 DEF SinceAt
<1>4. CASE run[n + 1].kind = "error"
  BY <1>1, <1>2, <1>4 DEF SinceAt
<1>5. CASE run[n + 1].kind = "get"
  BY <1>1, <1>2, <1>5 DEF SinceAt
<1>6. QED
  BY <1>1, <1>3, <1>4, <1>5 DEF SinceAt

\* One more frame: the average stays between the shortest and the longest.
LEMMA ShortestHolds ==
  ASSUME NEW n \in Nat, NEW sum \in Nat, NEW u \in Nat, NEW m \in Nat, n * m <= sum
  PROVE  (n + 1) * m <= sum + u \/ (n + 1) * u <= sum + u
<1>1. (n + 1) * m = n * m + m /\ (n + 1) * u = n * u + u
  OBVIOUS
<1>2. n * m \in Nat /\ n * u \in Nat
  OBVIOUS
<1>3. CASE m <= u
  BY <1>1, <1>2, <1>3
<1>4. CASE u < m
  <2>1. n * u <= n * m
    BY <1>4, MulMono
  <2>2. QED
    BY <1>1, <1>2, <2>1
<1>5. QED
  BY <1>3, <1>4

LEMMA LongestHolds ==
  ASSUME NEW n \in Nat, NEW sum \in Nat, NEW u \in Nat, NEW m \in Nat, NEW k \in Nat,
         sum <= n * m, m <= k, u <= k
  PROVE  sum + u <= (n + 1) * k
<1>1. (n + 1) * k = n * k + k /\ n * k \in Nat /\ n * m \in Nat
  OBVIOUS
<1>2. n * m <= n * k
  BY MulMono
<1>3. QED
  BY <1>1, <1>2

LEMMA FrameTallied ==
  ASSUME NEW run \in Seq(Reports), NEW n \in Nat, n + 1 \in 1..Len(run),
         NEW a \in Books, Tallied(a.st, run, n), run[n + 1].kind = "frame"
  PROVE  Tallied(Record(a, run[n + 1]).st, run, n + 1)
<1> DEFINE e == run[n + 1]
           s == a.st
           t == Record(a, e).st
           S == SinceAt(run, n)
           T == SinceAt(run, n + 1)
<1>1. e \in Frames /\ Len(run) \in Nat
  BY DEF Reports, Frames
<1>2. /\ s.n \in Nat /\ s.sum \in Nat /\ s.max \in Nat /\ s.gap \in Nat
      /\ s.errors \in Nat /\ e.us \in Nat /\ e.after \in Nat /\ e.fingers \in Nat
  BY <1>1 DEF Books, Stats, Frames
<1>3. \A i \in S : run[i].us \in Nat /\ i \in 1..n
  <2>1. ASSUME NEW i \in S PROVE run[i].us \in Nat /\ i \in 1..n
    <3>1. i \in 1..n /\ i \in 1..Len(run) /\ run[i].kind = "frame"
      BY <1>1 DEF SinceAt
    <3>2. run[i] \in Frames
      BY <3>1 DEF Reports, Frames
    <3>3. QED
      BY <3>1, <3>2 DEF Frames
  <2>2. QED
    BY <2>1
<1>4. /\ t.n = s.n + 1 /\ t.sum = s.sum + e.us /\ t.avg = (s.sum + e.us) \div (s.n + 1)
      /\ t.max = IF e.us > s.max THEN e.us ELSE s.max
      /\ t.errors = s.errors
      /\ t.gap = s.gap \/ (t.gap = e.after /\ e.fingers > 0)
  BY <1>1, FrameIsTaken
<1>5. T = S \cup {n + 1} /\ n + 1 \notin S
  BY SinceNext
<1>6. /\ IsFiniteSet(S) /\ s.n = Cardinality(S)
      /\ S = {} => s.sum = 0 /\ s.max = 0
      /\ S # {} => /\ s.avg = s.sum \div s.n
                   /\ \E i \in S : s.n * run[i].us <= s.sum
                   /\ s.sum <= s.n * s.max
                   /\ \E i \in S : run[i].us = s.max
      /\ s.errors <= s.n + 1
      /\ s.gap # 0 => \E i \in S : run[i].after = s.gap /\ run[i].fingers > 0
  BY DEF Tallied
<1> HIDE DEF e, s, t, S, T
<1>7. IsFiniteSet(T) /\ t.n = Cardinality(T)
  BY <1>4, <1>5, <1>6, FS_AddElement
<1>8. t.avg = t.sum \div t.n
  BY <1>4
<1>9. \E i \in T : t.n * run[i].us <= t.sum
  <2>1. CASE S = {}
    <3>1. s.n = 0 /\ s.sum = 0
      BY <1>6, <2>1, FS_EmptySet
    <3>2. t.n * run[n + 1].us <= t.sum
      BY <1>2, <1>4, <3>1 DEF e
    <3>3. QED
      BY <1>5, <3>2
  <2>2. CASE S # {}
    <3>1. PICK i \in S : s.n * run[i].us <= s.sum
      BY <1>6, <2>2
    <3> DEFINE u == run[i].us
    <3>2. u \in Nat /\ i \in T
      BY <1>3, <1>5
    <3> HIDE DEF u
    <3>3. s.n * u <= s.sum
      BY <3>1 DEF u
    <3>4. (s.n + 1) * u <= s.sum + e.us \/ (s.n + 1) * e.us <= s.sum + e.us
      BY <1>2, <3>2, <3>3, ShortestHolds
    <3>5. CASE (s.n + 1) * u <= s.sum + e.us
      BY <1>4, <3>2, <3>5 DEF u
    <3>6. CASE (s.n + 1) * e.us <= s.sum + e.us
      BY <1>4, <1>5, <3>6 DEF e
    <3>7. QED
      BY <3>4, <3>5, <3>6
  <2>3. QED
    BY <2>1, <2>2
<1>10. t.sum <= t.n * t.max
  <2>1. t.max \in Nat /\ e.us <= t.max /\ s.max <= t.max
    <3>1. e.us \in Nat /\ s.max \in Nat /\ t.max = IF e.us > s.max THEN e.us ELSE s.max
      BY <1>2, <1>4
    <3>2. QED
      BY <3>1
  <2>2. s.sum <= s.n * s.max
    <3>1. CASE S = {}
      <4>1. s.n = 0 /\ s.sum = 0
        BY <1>6, <3>1, FS_EmptySet
      <4>2. QED
        BY <1>2, <4>1
    <3>2. QED
      BY <1>6, <3>1
  <2>3. s.sum + e.us <= (s.n + 1) * t.max
    BY <1>2, <2>1, <2>2, LongestHolds
  <2>4. QED
    BY <1>4, <2>3
<1>11. \E i \in T : run[i].us = t.max
  <2>1. CASE e.us > s.max
    BY <1>4, <1>5, <2>1 DEF e
  <2>2. CASE ~(e.us > s.max) /\ S # {}
    BY <1>4, <1>5, <1>6, <2>2
  <2>3. CASE ~(e.us > s.max) /\ S = {}
    <3>1. e.us = t.max
      BY <1>2, <1>4, <1>6, <2>3
    <3>2. QED
      BY <1>5, <3>1 DEF e
  <2>4. QED
    BY <2>1, <2>2, <2>3
<1>12. t.errors <= t.n + 1 /\ t.errors # t.n + 1
  BY <1>2, <1>4, <1>6
<1>13. t.gap # 0 => \E i \in T : run[i].after = t.gap /\ run[i].fingers > 0
  <2>1. CASE t.gap = s.gap
    BY <1>5, <1>6, <2>1
  <2>2. CASE t.gap = e.after /\ e.fingers > 0
    BY <1>5, <2>2 DEF e
  <2>3. QED
    BY <1>4, <2>1, <2>2
<1>14. T # {}
  BY <1>5
<1>15. Tallied(t, run, n + 1)
  BY <1>7, <1>8, <1>9, <1>10, <1>11, <1>12, <1>13, <1>14 DEF Tallied, T
<1>16. QED
  BY <1>15 DEF t, e

LEMMA ErrorTallied ==
  ASSUME NEW run \in Seq(Reports), InOrder(run), NEW n \in Nat, n + 1 \in 1..Len(run),
         NEW a \in Books, Tallied(a.st, run, n), run[n + 1].kind = "error"
  PROVE  Tallied(Record(a, run[n + 1]).st, run, n + 1)
<1> DEFINE e == run[n + 1]
           s == a.st
           t == Record(a, e).st
<1>1. e \in [kind : {"error", "get"}] /\ e.kind = "error"
  BY DEF Reports, Frames
<1>2. s \in Stats
  BY DEF Books
<1>3. t = [s EXCEPT !.errors = s.errors + 1]
  BY <1>1, OthersAreTaken
<1> HIDE DEF s, t
<1>4. /\ t.n = s.n /\ t.sum = s.sum /\ t.max = s.max /\ t.avg = s.avg /\ t.gap = s.gap
      /\ t.errors = s.errors + 1 /\ s.errors \in Nat /\ s.n \in Nat
  BY <1>2, <1>3 DEF Stats
<1>5. SinceAt(run, n + 1) = SinceAt(run, n)
  BY SinceNext
<1>6. ~Awaits(run, n)
  <2> SUFFICES ASSUME Awaits(run, n) PROVE FALSE
    OBVIOUS
  <2>1. PICK i \in 1..n : run[i].kind = "error" /\ \A k \in i..n : run[k].kind # "frame"
    BY DEF Awaits
  <2>2. i \in DOMAIN run /\ n + 1 \in DOMAIN run /\ i < n + 1
    OBVIOUS
  <2>3. PICK k \in i..n + 1 : run[k].kind = "frame"
    BY <2>1, <2>2 DEF InOrder
  <2>4. k \in i..n
    BY <2>3
  <2>5. QED
    BY <2>1, <2>3, <2>4
<1>7. Awaits(run, n + 1)
  <2>1. n + 1 \in 1..n + 1 /\ (n + 1)..(n + 1) = {n + 1}
    OBVIOUS
  <2>2. QED
    BY <2>1 DEF Awaits
<1>8. s.errors <= s.n
  <2>1. s.errors <= s.n + 1 /\ (s.errors = s.n + 1 => Awaits(run, n))
    BY DEF Tallied, s
  <2>2. QED
    BY <1>4, <1>6, <2>1
<1>9. t.errors <= t.n + 1
  BY <1>4, <1>8
<1>10. Tallied(s, run, n)
  BY DEF s
<1>11. Tallied(t, run, n + 1)
  BY <1>4, <1>5, <1>7, <1>9, <1>10 DEF Tallied
<1>12. QED
  BY <1>11 DEF t, e

LEMMA ResetTallied ==
  ASSUME NEW run \in Seq(Reports), NEW n \in Nat, n + 1 \in 1..Len(run),
         NEW a \in Books, run[n + 1].kind = "get"
  PROVE  Tallied(Record(a, run[n + 1]).st, run, n + 1)
<1>1. run[n + 1] \in [kind : {"error", "get"}]
  BY DEF Reports, Frames
<1>2. Record(a, run[n + 1]).st = NoStats
  BY <1>1, OthersAreTaken
<1>3. SinceAt(run, n + 1) = {}
  BY SinceNext
<1>4. QED
  BY <1>2, <1>3, NothingTallied

\* However long the run of frames, errors and resets, whatever times and fingers
\* they carry: the statistics it leaves agree with each other
\* (iqs9151_stats_record_frame, iqs9151_dev_stats_get).
THEOREM RunAgrees ==
  ASSUME NEW run \in Seq(Reports), InOrder(run)
  PROVE  Agree(run)
<1> DEFINE N == Len(run)
<1>1. N \in Nat
  OBVIOUS
<1>2. PICK f \in [0..N -> Books] :
         /\ f[0] = EmptyBooks /\ f[N] = Recorded(run)
         /\ \A n \in 1..N : f[n] = Record(f[n - 1], run[n])
  BY RecordedSteps
<1> DEFINE Right(n) == Tallied(f[n].st, run, n)
           P == {n \in Nat : n <= N => Right(n)}
<1>3. Right(0)
  <2>1. SinceAt(run, 0) = {}
    BY DEF SinceAt
  <2>2. QED
    BY <1>2, <2>1, NothingTallied DEF EmptyBooks
<1>4. ASSUME NEW n \in Nat, n + 1 <= N, Right(n) PROVE Right(n + 1)
  <2>1. n \in 0..N /\ n + 1 \in 1..N /\ n + 1 - 1 = n
    BY <1>1, <1>4
  <2>2. f[n] \in Books /\ f[n + 1] = Record(f[n], run[n + 1])
    BY <1>2, <2>1
  <2>3. run[n + 1].kind \in {"frame", "error", "get"}
    BY <2>1 DEF Reports, Frames
  <2>4. QED
    BY <1>4, <2>1, <2>2, <2>3, FrameTallied, ErrorTallied, ResetTallied
<1> HIDE DEF Right
<1>5. 0 \in P /\ \A n \in Nat : n \in P => n + 1 \in P
  BY <1>1, <1>3, <1>4
<1>6. \A n \in Nat : n \in P
  <2> HIDE DEF P
  <2>1. QED
    BY <1>5, Grows
<1> DEFINE st == Recorded(run).st
           S == FramesSince(run)
<1>7. Tallied(st, run, N)
  BY <1>1, <1>2, <1>6 DEF Right
<1>8. SinceAt(run, N) = S
  BY <1>1 DEF SinceAt, FramesSince
<1>9. Recorded(run) \in Books
  <2>1. N \in 0..N
    BY <1>1
  <2>2. QED
    BY <1>2, <2>1
<1>10. st.n \in Nat /\ st.sum \in Nat /\ st.max \in Nat
  BY <1>9 DEF Books, Stats
<1>11. ASSUME NEW i \in S PROVE run[i].us \in Nat
  <2>1. i \in 1..N /\ run[i].kind = "frame"
    BY DEF FramesSince
  <2>2. run[i] \in Frames
    BY <2>1 DEF Reports, Frames
  <2>3. QED
    BY <2>2 DEF Frames
<1> HIDE DEF st, S
<1>12. /\ IsFiniteSet(S) /\ st.n = Cardinality(S)
       /\ S # {} => /\ st.avg = st.sum \div st.n
                    /\ \E i \in S : st.n * run[i].us <= st.sum
                    /\ st.sum <= st.n * st.max
                    /\ \E i \in S : run[i].us = st.max
       /\ st.errors <= st.n + 1
       /\ st.gap # 0 => \E i \in S : run[i].after = st.gap /\ run[i].fingers > 0
  BY <1>7, <1>8 DEF Tallied
<1>13. ASSUME S # {}
       PROVE  (\E u \in {run[i].us : i \in S} : u <= st.avg) /\ st.avg <= st.max
              /\ st.max \in {run[i].us : i \in S}
  <2>1. st.n \in Nat \ {0}
    BY <1>10, <1>12, <1>13, FS_EmptySet
  <2>2. PICK i \in S : st.n * run[i].us <= st.sum
    BY <1>12, <1>13
  <2> DEFINE u == run[i].us
  <2>3. u \in Nat
    BY <1>11
  <2>4. st.avg = st.sum \div st.n /\ st.sum <= st.n * st.max
    BY <1>12, <1>13
  <2>5. st.n * u <= st.sum
    BY <2>2
  <2> HIDE DEF u
  <2>6. (st.n * u) \div st.n = u /\ (st.n * st.max) \div st.n = st.max
    BY <1>10, <2>1, <2>3, DivUnique
  <2>7. st.n * u \in Int /\ st.n * st.max \in Int
    BY <1>10, <2>3
  <2>8. u <= st.avg /\ st.avg <= st.max
    BY <1>10, <2>1, <2>4, <2>5, <2>6, <2>7, DivMono
  <2>9. QED
    BY <1>12, <1>13, <2>8 DEF u
<1>14. QED
  BY <1>12, <1>13 DEF Agree, st, S

\* So do those of the runs that are tried.
COROLLARY StatsAlwaysAgree == StatsAgree
<1> SUFFICES ASSUME NEW run \in BoundedSeq(Events, MaxEvents), InOrder(run)
             PROVE  Agree(run)
  BY DEF StatsAgree
<1>1. Events \subseteq Reports
  BY DEF Events, Reports, Frames
<1>2. run \in Seq(Reports)
  BY <1>1, ConsoleAssumption DEF ConsoleAssumption, BoundedSeq, SeqOf
<1>3. QED
  BY <1>2, RunAgrees

\* What the other half of the keyboard and the reader of the statistics get agrees
\* with what was recorded, in every state.
THEOREM ReportsAlwaysAgree == Spec => []ReportsAgree
<1>1. ReportsAgree
  BY StatsAlwaysAgree, SummaryAlwaysTravels DEF ReportsAgree
<1>2. QED
  BY <1>1, PTL

-----------------------------------------------------------------------------
(* Words of a line.                                                        *)

LEMMA NthIsNumber ==
  ASSUME NEW C, NEW line \in Seq(C), NEW n \in Int
  PROVE  /\ IsFiniteSet({k \in Starts(line) : k <= n})
         /\ Nth(line, n) \in Nat
<1>1. IsFiniteSet(1..Len(line))
  BY FS_Interval
<1>2. {k \in Starts(line) : k <= n} \subseteq 1..Len(line)
  BY DEF Starts
<1>3. QED
  BY <1>1, <1>2, FS_Subset, FS_CardinalityType DEF Nth

LEMMA NthGrows ==
  ASSUME NEW C, NEW line \in Seq(C), NEW i \in Int, NEW k \in Int, i <= k
  PROVE  Nth(line, i) <= Nth(line, k)
<1> DEFINE A == {j \in Starts(line) : j <= i}
           B == {j \in Starts(line) : j <= k}
<1>1. A \subseteq B
  BY DEF Starts
<1>2. IsFiniteSet(A) /\ IsFiniteSet(B)
  BY NthIsNumber
<1> HIDE DEF A, B
<1>3. Cardinality(A) <= Cardinality(B)
  BY <1>1, <1>2, FS_Subset
<1>4. QED
  BY <1>3 DEF Nth, A, B

\* The count goes up by one where a word starts, and nowhere else.
LEMMA NthNext ==
  ASSUME NEW C, NEW line \in Seq(C), NEW n \in Int
  PROVE  Nth(line, n + 1) = IF n + 1 \in Starts(line) THEN Nth(line, n) + 1 ELSE Nth(line, n)
<1> DEFINE A == {j \in Starts(line) : j <= n}
           B == {j \in Starts(line) : j <= n + 1}
<1>1. IsFiniteSet(A) /\ n + 1 \notin A
  BY NthIsNumber
<1>2. B = IF n + 1 \in Starts(line) THEN A \cup {n + 1} ELSE A
  BY DEF Starts
<1> HIDE DEF A, B
<1>3. Cardinality(A \cup {n + 1}) = Cardinality(A) + 1
  BY <1>1, FS_AddElement
<1>4. Nth(line, n) = Cardinality(A) /\ Nth(line, n + 1) = Cardinality(B)
  BY DEF Nth, A, B
<1>5. QED
  BY <1>2, <1>3, <1>4

LEMMA NthOrder ==
  ASSUME NEW C, NEW line \in Seq(C), NEW i \in Int, NEW k \in Starts(line), i < k
  PROVE  Nth(line, i) < Nth(line, k)
<1>1. k \in Int /\ k - 1 \in Int /\ i <= k - 1 /\ k - 1 + 1 = k
  BY DEF Starts
<1>2. Nth(line, k) = Nth(line, k - 1) + 1
  BY <1>1, NthNext
<1>3. Nth(line, i) <= Nth(line, k - 1)
  BY <1>1, NthGrows
<1>4. Nth(line, i) \in Nat /\ Nth(line, k - 1) \in Nat
  BY <1>1, NthIsNumber
<1>5. QED
  BY <1>2, <1>3, <1>4

LEMMA NthOfStart ==
  ASSUME NEW C, NEW line \in Seq(C), NEW n \in Int, NEW i \in Starts(line), i <= n
  PROVE  Nth(line, i) \in 1..Nth(line, n)
<1>1. i \in Int /\ i - 1 \in Int /\ i - 1 + 1 = i
  BY DEF Starts
<1>2. Nth(line, i) = Nth(line, i - 1) + 1
  BY <1>1, NthNext
<1>3. Nth(line, i) <= Nth(line, n)
  BY <1>1, NthGrows
<1>4. Nth(line, i - 1) \in Nat /\ Nth(line, n) \in Nat
  BY <1>1, NthIsNumber
<1>5. QED
  BY <1>2, <1>3, <1>4

\* No word starts within a word: the word from s on is the last one.
LEMMA LastStarted ==
  ASSUME NEW C, NEW line \in Seq(C), NEW n \in 0..Len(line), NEW s \in Starts(line), s <= n,
         \A k \in s..n : line[k] # Blank
  PROVE  /\ Nth(line, s) = Nth(line, n)
         /\ \A i \in Starts(line) : i <= n => i <= s
<1>1. ASSUME NEW i \in Starts(line), i <= n, s < i PROVE FALSE
  <2>1. i \in 1..Len(line) /\ s \in 1..Len(line) /\ (i = 1 \/ line[i - 1] = Blank)
    BY DEF Starts
  <2>2. i - 1 \in s..n
    BY <1>1, <2>1
  <2>3. QED
    BY <1>1, <2>1, <2>2
<1>2. \A i \in Starts(line) : i <= n => i <= s
  BY <1>1 DEF Starts
<1>3. {k \in Starts(line) : k <= s} = {k \in Starts(line) : k <= n}
  BY <1>2 DEF Starts
<1>4. QED
  BY <1>2, <1>3 DEF Nth

-----------------------------------------------------------------------------
(* The splitting of a line, character by character.                        *)

Scans(C) == {a \in [argv : Seq(Seq(C)), in : BOOLEAN, big : BOOLEAN] : a.in => a.argv # <<>>}
NothingRead == [argv |-> <<>>, in |-> FALSE, big |-> FALSE]

LEMMA NothingReadOK == ASSUME NEW C PROVE NothingRead \in Scans(C)
  BY DEF Scans, NothingRead

\* What one character does.
LEMMA ScanOK ==
  ASSUME NEW C, NEW a \in Scans(C), NEW c \in C
  PROVE  /\ Scan(a, c) \in Scans(C)
         /\ a.big => Scan(a, c) = a
         /\ ~a.big /\ c = Blank =>
              /\ ~Scan(a, c).big /\ ~Scan(a, c).in /\ Scan(a, c).argv = a.argv
         /\ ~a.big /\ c # Blank /\ a.in =>
              /\ ~Scan(a, c).big /\ Scan(a, c).in /\ Len(a.argv) >= 1
              /\ Scan(a, c).argv = [a.argv EXCEPT ![Len(a.argv)] = Append(@, c)]
              /\ Len(Scan(a, c).argv) = Len(a.argv)
         /\ ~a.big /\ c # Blank /\ ~a.in /\ Len(a.argv) >= MaxTokens => Scan(a, c).big
         /\ ~a.big /\ c # Blank /\ ~a.in /\ ~(Len(a.argv) >= MaxTokens) =>
              /\ ~Scan(a, c).big /\ Scan(a, c).in
              /\ Scan(a, c).argv = Append(a.argv, <<c>>)
<1> DEFINE w == a.argv
           n == Len(w)
           R == [argv : Seq(Seq(C)), in : BOOLEAN, big : BOOLEAN]
<1>1. a \in R /\ w \in Seq(Seq(C)) /\ a.in \in BOOLEAN /\ a.big \in BOOLEAN /\ n \in Nat
      /\ (a.in => w # <<>>) /\ DOMAIN a = {"argv", "in", "big"}
  BY DEF Scans
<1>2. CASE a.big
  BY <1>2 DEF Scan
<1>3. CASE ~a.big /\ c = Blank
  <2> DEFINE b == [a EXCEPT !.in = FALSE]
  <2>1. Scan(a, c) = b
    BY <1>3 DEF Scan
  <2>2. b \in R /\ b.in = FALSE /\ b.big = a.big /\ b.argv = w
    BY <1>1
  <2> HIDE DEF b
  <2>3. QED
    BY <1>3, <2>1, <2>2 DEF Scans
<1>4. CASE ~a.big /\ c # Blank /\ a.in
  <2> DEFINE v == [w EXCEPT ![n] = Append(@, c)]
             b == [a EXCEPT !.argv = v]
  <2>1. Scan(a, c) = [a EXCEPT !.argv[Len(a.argv)] = Append(@, c)]
    BY <1>4 DEF Scan
  <2>2. Scan(a, c) = b
    BY <1>1, <2>1
  <2>3. n >= 1 /\ n \in 1..n /\ w[n] \in Seq(C)
    BY <1>1, <1>4
  <2>4. Append(w[n], c) \in Seq(C)
    BY <2>3
  <2>5. v \in Seq(Seq(C)) /\ Len(v) = n
    BY <1>1, <2>3, <2>4
  <2> HIDE DEF v
  <2>6. b \in R /\ b.in = a.in /\ b.big = a.big /\ b.argv = v
    BY <1>1, <2>5
  <2> HIDE DEF b
  <2>7. v # <<>>
    BY <2>3, <2>5
  <2>8. Scan(a, c) \in Scans(C)
    BY <2>2, <2>6, <2>7 DEF Scans
  <2>9. b.argv = [a.argv EXCEPT ![Len(a.argv)] = Append(@, c)]
    BY <2>6 DEF v
  <2>10. QED
    BY <1>4, <2>2, <2>3, <2>5, <2>6, <2>8, <2>9
<1>5. CASE ~a.big /\ c # Blank /\ ~a.in /\ n >= MaxTokens
  <2> DEFINE b == [a EXCEPT !.big = TRUE]
  <2>1. Scan(a, c) = b
    BY <1>5 DEF Scan, WordStarts
  <2>2. b \in R /\ b.in = a.in /\ b.big /\ b.argv = w
    BY <1>1
  <2> HIDE DEF b
  <2>3. QED
    BY <1>1, <1>5, <2>1, <2>2 DEF Scans
<1>6. CASE ~a.big /\ c # Blank /\ ~a.in /\ ~(n >= MaxTokens)
  <2> DEFINE v == Append(w, <<c>>)
             b == [a EXCEPT !.argv = v, !.in = TRUE]
  <2>1. Scan(a, c) = b
    BY <1>6 DEF Scan, WordStarts
  <2>2. v \in Seq(Seq(C)) /\ v # <<>>
    <3>1. <<c>> \in Seq(C)
      OBVIOUS
    <3>2. v \in Seq(Seq(C)) /\ Len(v) = n + 1
      BY <1>1, <3>1
    <3> HIDE DEF v
    <3>3. QED
      BY <1>1, <3>2
  <2>3. v = Append(a.argv, <<c>>)
    OBVIOUS
  <2> HIDE DEF v
  <2>4. b \in R /\ b.in = TRUE /\ b.big = a.big /\ b.argv = v
    BY <1>1, <2>2
  <2> HIDE DEF b
  <2>5. QED
    BY <1>6, <2>1, <2>2, <2>3, <2>4 DEF Scans
<1>7. QED
  BY <1>1, <1>2, <1>3, <1>4, <1>5, <1>6

\* A word of the first n characters.
IsWordIn(line, n, i, j) ==
  /\ \A k \in i..j : line[k] # Blank
  /\ j = n \/ line[j + 1] = Blank

\* The words of the first n characters are the ones read, or too many to be read.
Scanned(a, line, n) ==
  IF Nth(line, n) > MaxTokens THEN a.big
  ELSE /\ ~a.big /\ Len(a.argv) = Nth(line, n)
       /\ a.in <=> n # 0 /\ line[n] # Blank
       /\ a.in => \E s \in Starts(line) : s <= n /\ \A k \in s..n : line[k] # Blank
       /\ \A i \in Starts(line) : \A j \in i..n :
            IsWordIn(line, n, i, j) => a.argv[Nth(line, i)] = SubSeq(line, i, j)

LEMMA NothingScanned ==
  ASSUME NEW C, NEW line \in Seq(C)
  PROVE  Scanned(NothingRead, line, 0)
<1>1. {k \in Starts(line) : k <= 0} = {}
  BY DEF Starts
<1>2. Nth(line, 0) = 0
  BY <1>1, FS_EmptySet DEF Nth
<1>3. \A i \in Starts(line) : i..0 = {}
  BY DEF Starts
<1>4. QED
  BY <1>2, <1>3, ConsoleAssumption DEF Scanned, NothingRead, ConsoleAssumption

\* A blank ends the word, if there was one.
LEMMA BlankScanned ==
  ASSUME NEW C, NEW line \in Seq(C), NEW n \in 0..Len(line) - 1, NEW a \in Scans(C),
         Scanned(a, line, n), ~a.big, line[n + 1] = Blank
  PROVE  Scanned(Scan(a, line[n + 1]), line, n + 1)
<1> DEFINE b == Scan(a, line[n + 1])
<1>1. n \in Int /\ n + 1 \in 1..Len(line) /\ line[n + 1] \in C
  OBVIOUS
<1>2. Nth(line, n + 1) = Nth(line, n)
  <2>1. n + 1 \notin Starts(line)
    BY DEF Starts
  <2>2. QED
    BY <1>1, <2>1, NthNext
<1>3. ~b.big /\ ~b.in /\ b.argv = a.argv
  BY <1>1, ScanOK
<1> HIDE DEF b
<1>4. ~(Nth(line, n) > MaxTokens)
  BY DEF Scanned
<1>5. ASSUME NEW i \in Starts(line), NEW j \in i..n + 1, IsWordIn(line, n + 1, i, j)
      PROVE  a.argv[Nth(line, i)] = SubSeq(line, i, j)
  <2>1. i \in Int /\ j \in Int /\ i <= j
    BY DEF Starts
  <2>2. j # n + 1
    BY <1>5, <2>1 DEF IsWordIn
  <2>3. j \in i..n /\ IsWordIn(line, n, i, j)
    BY <1>5, <2>1, <2>2 DEF IsWordIn
  <2>4. QED
    BY <1>4, <2>3 DEF Scanned
<1>6. Len(a.argv) = Nth(line, n)
  BY <1>4 DEF Scanned
<1>7. QED
  BY <1>1, <1>2, <1>3, <1>4, <1>5, <1>6 DEF Scanned, b

\* Within a word, the word gets longer and the ones before it stay.
LEMMA WordScanned ==
  ASSUME NEW C, NEW line \in Seq(C), NEW n \in 0..Len(line) - 1, NEW a \in Scans(C),
         Scanned(a, line, n), ~a.big, line[n + 1] # Blank, a.in
  PROVE  Scanned(Scan(a, line[n + 1]), line, n + 1)
<1> DEFINE c == line[n + 1]
           b == Scan(a, c)
           m == Nth(line, n)
<1>1. n \in Int /\ n + 1 \in 1..Len(line) /\ c \in C
  OBVIOUS
<1>2. m <= MaxTokens /\ Len(a.argv) = m /\ n # 0 /\ line[n] # Blank
  <2>1. m \in Nat /\ MaxTokens \in Nat
    BY <1>1, NthIsNumber, ConsoleAssumption DEF ConsoleAssumption
  <2>2. QED
    BY <2>1 DEF Scanned
<1>3. PICK s \in Starts(line) : s <= n /\ \A k \in s..n : line[k] # Blank
  BY <1>2 DEF Scanned
<1>4. n \in 1..Len(line) /\ s \in 1..Len(line) /\ n + 1 - 1 = n
  BY <1>1, <1>2 DEF Starts
<1>5. Nth(line, n + 1) = m
  <2>1. n + 1 \notin Starts(line)
    BY <1>2, <1>4 DEF Starts
  <2>2. QED
    BY <1>1, <2>1, NthNext
<1>6. Nth(line, s) = m /\ \A i \in Starts(line) : i <= n => i <= s
  BY <1>3, <1>4, LastStarted
<1>7. /\ ~b.big /\ b.in /\ m >= 1
      /\ b.argv = [a.argv EXCEPT ![m] = Append(@, c)] /\ Len(b.argv) = m
  <2>1. c \in C /\ c # Blank
    BY <1>1
  <2> HIDE DEF c, m
  <2>2. QED
    BY <1>2, <2>1, ScanOK
<1>8. a.argv \in Seq(Seq(C)) /\ m \in 1..m
  BY <1>1, <1>7, NthIsNumber DEF Scans
<1> HIDE DEF b, m, c
<1>9. ASSUME NEW i \in Starts(line), NEW j \in i..n + 1, IsWordIn(line, n + 1, i, j)
      PROVE  b.argv[Nth(line, i)] = SubSeq(line, i, j)
  <2>1. i \in 1..Len(line) /\ j \in Int /\ i <= j /\ j <= n + 1
    BY <1>1 DEF Starts
  <2>2. i # n + 1
    BY <1>2, <1>4 DEF Starts
  <2>3. i <= n /\ i <= s
    BY <1>1, <1>6, <2>1, <2>2
  <2>4. CASE j = n + 1
    <3>1. IsWordIn(line, n, i, n) /\ n \in i..n
      BY <1>1, <1>9, <2>1, <2>3, <2>4 DEF IsWordIn
    <3>2. a.argv[Nth(line, i)] = SubSeq(line, i, n)
      BY <1>2, <3>1 DEF Scanned, m
    <3>3. Nth(line, i) = m
      BY <1>1, <1>4, <2>3, <3>1, LastStarted DEF IsWordIn, m
    <3>4. b.argv[m] = Append(a.argv[m], c)
      BY <1>2, <1>7, <1>8
    <3>5. SubSeq(line, i, n + 1) = Append(SubSeq(line, i, n), c)
      BY <1>4, <2>1, <2>3 DEF c
    <3>6. QED
      BY <2>4, <3>2, <3>3, <3>4, <3>5
  <2>5. CASE j # n + 1
    <3>1. j \in 1..n /\ line[j + 1] = Blank
      BY <1>1, <1>9, <2>1, <2>5 DEF IsWordIn
    <3>2. IsWordIn(line, n, i, j) /\ j \in i..n
      BY <1>9, <2>1, <3>1 DEF IsWordIn
    <3>3. a.argv[Nth(line, i)] = SubSeq(line, i, j)
      BY <1>2, <3>2 DEF Scanned, m
    <3>4. j # n
      BY <3>1 DEF c
    <3>5. j + 1 <= n
      BY <1>1, <3>1, <3>4
    <3>6. i # s
      BY <1>3, <2>1, <3>1, <3>5
    <3>7. i < s
      BY <1>4, <2>1, <2>3, <3>6
    <3>8. Nth(line, i) < m
      BY <1>6, <2>1, <3>7, NthOrder
    <3>9. Nth(line, i) \in 1..m
      BY <1>1, <2>3, NthOfStart DEF m
    <3>10. b.argv[Nth(line, i)] = a.argv[Nth(line, i)]
      BY <1>2, <1>7, <1>8, <3>8, <3>9
    <3>11. QED
      BY <3>3, <3>10
  <2>6. QED
    BY <2>4, <2>5
<1>10. \A k \in s..n + 1 : line[k] # Blank
  BY <1>1, <1>3, <1>4
<1>11. s <= n + 1 /\ n + 1 # 0 /\ line[n + 1] # Blank
  BY <1>3, <1>4
<1>12. ~(m > MaxTokens)
  BY <1>2, <1>8, ConsoleAssumption DEF ConsoleAssumption
<1>13. QED
  BY <1>5, <1>7, <1>9, <1>10, <1>11, <1>12 DEF Scanned, b, c

\* After a blank or at the beginning, a word starts unless it is one too many.
LEMMA StartScanned ==
  ASSUME NEW C, NEW line \in Seq(C), NEW n \in 0..Len(line) - 1, NEW a \in Scans(C),
         Scanned(a, line, n), ~a.big, line[n + 1] # Blank, ~a.in
  PROVE  Scanned(Scan(a, line[n + 1]), line, n + 1)
<1> DEFINE c == line[n + 1]
           b == Scan(a, c)
           m == Nth(line, n)
<1>1. n \in Int /\ n + 1 \in 1..Len(line) /\ c \in C /\ n + 1 - 1 = n
  OBVIOUS
<1>2. m \in Nat /\ MaxTokens \in Nat
  BY <1>1, NthIsNumber, ConsoleAssumption DEF ConsoleAssumption
<1>3. m <= MaxTokens /\ Len(a.argv) = m /\ (n = 0 \/ line[n] = Blank)
  BY <1>2 DEF Scanned
<1>4. n + 1 \in Starts(line) /\ Nth(line, n + 1) = m + 1
  <2>1. n + 1 \in Starts(line)
    BY <1>1, <1>3 DEF Starts
  <2>2. QED
    BY <1>1, <2>1, NthNext
<1>5. CASE m >= MaxTokens
  <2>1. b.big
    <3>1. c \in C /\ c # Blank
      BY <1>1
    <3>2. Len(a.argv) >= MaxTokens
      BY <1>3, <1>5
    <3> HIDE DEF c, m
    <3>3. QED
      BY <3>1, <3>2, ScanOK, Zenon
  <2> HIDE DEF b, m
  <2>2. m + 1 > MaxTokens
    BY <1>2, <1>5
  <2>3. QED
    BY <1>4, <2>1, <2>2 DEF Scanned, b
<1>6. CASE ~(m >= MaxTokens)
  <2>1. ~b.big /\ b.in /\ b.argv = Append(a.argv, <<c>>)
    <3>1. c \in C /\ c # Blank
      BY <1>1
    <3> HIDE DEF c, m
    <3>2. QED
      BY <1>3, <1>6, <3>1, ScanOK, ZenonT(30)
  <2>2. a.argv \in Seq(Seq(C)) /\ <<c>> \in Seq(C)
    BY <1>1 DEF Scans
  <2> HIDE DEF b, m, c
  <2>3. /\ Len(b.argv) = m + 1 /\ b.argv[m + 1] = <<c>>
        /\ \A k \in 1..m : b.argv[k] = a.argv[k]
    BY <1>3, <2>1, <2>2, AppendProperties
  <2>4. ASSUME NEW i \in Starts(line), NEW j \in i..n + 1, IsWordIn(line, n + 1, i, j)
        PROVE  b.argv[Nth(line, i)] = SubSeq(line, i, j)
    <3>1. i \in 1..Len(line) /\ j \in Int /\ i <= j /\ j <= n + 1
      BY <1>1 DEF Starts
    <3>2. CASE i = n + 1
      <4>1. j = n + 1
        BY <1>1, <3>1, <3>2
      <4>2. SubSeq(line, n + 1, n + 1) = <<c>>
        <5>1. n + 1 \in n + 1..Len(line) /\ n + 1 < n + 1 + 1 /\ n + 1 + 1 \in Int
          BY <1>1
        <5>2. SubSeq(line, n + 1, n + 1 - 1) = <<>>
          BY <1>1, SubSeqEmpty
        <5>3. SubSeq(line, n + 1, n + 1) = SubSeq(line, n + 1, n + 1 - 1) \o <<line[n + 1]>>
          BY <1>1, <5>1, SubSeqRecursiveSecond
        <5>4. <<line[n + 1]>> \in Seq(C)
          BY <1>1 DEF c
        <5>5. QED
          BY <5>2, <5>3, <5>4, ConcatEmptySeq DEF c
      <4>3. QED
        BY <1>4, <2>3, <3>2, <4>1, <4>2
    <3>3. CASE i # n + 1
      <4>1. i <= n /\ n # 0
        BY <1>1, <3>1, <3>3
      <4>2. j # n + 1
        BY <1>1, <1>3, <2>4, <3>1, <4>1 DEF IsWordIn
      <4>3. j \in i..n /\ IsWordIn(line, n, i, j)
        BY <1>1, <1>3, <2>4, <3>1, <4>2 DEF IsWordIn
      <4>4. a.argv[Nth(line, i)] = SubSeq(line, i, j)
        BY <1>2, <1>3, <4>3 DEF Scanned, m
      <4>5. Nth(line, i) \in 1..m
        BY <1>1, <4>1, NthOfStart DEF m
      <4>6. QED
        BY <2>3, <4>4, <4>5
    <3>4. QED
      BY <3>2, <3>3
  <2>5. n + 1 # 0 /\ c # Blank /\ n + 1 <= n + 1 /\ \A k \in n + 1..n + 1 : line[k] # Blank
    BY <1>1 DEF c
  <2>6. ~(m + 1 > MaxTokens)
    BY <1>2, <1>6
  <2>7. QED
    BY <1>4, <2>1, <2>3, <2>4, <2>5, <2>6 DEF Scanned, b, c
<1>7. QED
  BY <1>5, <1>6

\* The course of a line: f[n] is what the first n characters leave.
LEMMA ScanSteps ==
  ASSUME NEW C, NEW line \in Seq(C)
  PROVE  \E f \in [0..Len(line) -> Scans(C)] :
           /\ f[0] = NothingRead /\ f[Len(line)] = Tokens(line)
           /\ \A n \in 1..Len(line) : f[n] = Scan(f[n - 1], line[n])
<1> DEFINE N == Len(line)
           D == DOMAIN line
           E(g) == [s \in SUBSET D |->
                      IF s = {} THEN NothingRead ELSE Scan(g[s \ {Max(s)}], line[Max(s)])]
           step == [n \in 1..N |-> [a \in Scans(C) |-> Scan(a, line[n])]]
           fold == CHOOSE g : g = E(g)
<1>1. Tokens(line) = fold[D]
  BY DEF Tokens, FoldLeft, MapThenFoldSet, NothingRead
<1>2. N \in Nat /\ D = 1..N /\ NothingRead \in Scans(C)
  BY NothingReadOK
<1>3. ASSUME NEW n \in 1..N, NEW a \in Scans(C) PROVE Scan(a, line[n]) \in Scans(C)
  <2>1. line[n] \in C
    OBVIOUS
  <2>2. QED
    BY <2>1, ScanOK
<1>4. step \in [1..N -> [Scans(C) -> Scans(C)]]
  BY <1>3
<1>5. fold = E(fold)
  <2>1. PICK g \in [SUBSET (1..N) -> Scans(C)] : IsFold(g, N, NothingRead, step)
    <3> HIDE DEF step, N
    <3>1. QED
      BY <1>2, <1>4, FoldExists, Zenon
  <2>2. ASSUME NEW s \in SUBSET D
        PROVE  g[s] = IF s = {} THEN NothingRead ELSE Scan(g[s \ {Max(s)}], line[Max(s)])
    <3>1. g[s] = IF s = {} THEN NothingRead ELSE step[Max(s)][g[s \ {Max(s)}]]
      BY <1>2, <2>1 DEF IsFold
    <3>2. s # {} => Max(s) \in 1..N /\ g[s \ {Max(s)}] \in Scans(C)
      BY <1>2, IndexLeft
    <3>3. QED
      BY <3>1, <3>2
  <2>3. g = E(g)
    BY <1>2, <2>2
  <2>4. QED
    BY <2>3
<1> HIDE DEF fold
<1>6. fold[{}] = NothingRead
  BY <1>5
<1>7. ASSUME NEW n \in 1..N, fold[1..n - 1] \in Scans(C)
      PROVE  fold[1..n] = step[n][fold[1..n - 1]]
  <2>1. /\ 1..n \in SUBSET (1..N) /\ 1..n # {}
        /\ Max(1..n) = n /\ (1..n) \ {Max(1..n)} = 1..n - 1
    BY <1>2, IndexSets
  <2>2. fold[1..n] = Scan(fold[1..n - 1], line[n])
    BY <1>2, <1>5, <2>1
  <2>3. QED
    BY <1>7, <2>2
<1>8. PICK f \in [0..N -> Scans(C)] : IsCourse(f, N, NothingRead, step, fold[1..N])
  <2> HIDE DEF step, N
  <2>1. QED
    BY <1>2, <1>4, <1>6, <1>7, FoldCourse, Zenon
<1>9. ASSUME NEW n \in 1..N PROVE f[n] = Scan(f[n - 1], line[n])
  <2>1. f[n - 1] \in Scans(C) /\ f[n] = step[n][f[n - 1]]
    <3> HIDE DEF step, N
    <3>1. n - 1 \in 0..N
      BY <1>2
    <3>2. QED
      BY <1>8, <3>1 DEF IsCourse
  <2>2. QED
    BY <2>1
<1>10. QED
  <2> HIDE DEF step, N
  <2>1. f[0] = NothingRead /\ f[N] = Tokens(line)
    BY <1>1, <1>2, <1>8 DEF IsCourse
  <2>2. QED
    BY <1>9, <2>1 DEF N

LEMMA NextScanned ==
  ASSUME NEW C, NEW line \in Seq(C), NEW n \in 0..Len(line) - 1, NEW a \in Scans(C),
         Scanned(a, line, n)
  PROVE  Scanned(Scan(a, line[n + 1]), line, n + 1)
<1>1. CASE a.big
  <2>1. n \in Int /\ n + 1 \in Int
    OBVIOUS
  <2>2. Scan(a, line[n + 1]) = a
    BY <1>1 DEF Scan
  <2>3. Nth(line, n) \in Nat /\ Nth(line, n + 1) \in Nat /\ MaxTokens \in Nat
    BY <2>1, NthIsNumber, ConsoleAssumption DEF ConsoleAssumption
  <2>4. Nth(line, n + 1) >= Nth(line, n)
    BY <2>1, <2>3, NthGrows
  <2>5. Nth(line, n) > MaxTokens
    BY <1>1 DEF Scanned
  <2>6. Nth(line, n + 1) > MaxTokens
    BY <2>3, <2>4, <2>5
  <2>7. QED
    BY <1>1, <2>2, <2>6 DEF Scanned
<1>2. CASE ~a.big
  BY <1>2, BlankScanned, WordScanned, StartScanned
<1>3. QED
  BY <1>1, <1>2

\* Every line, however long and of whatever characters, is split into exactly its
\* words, or refused when they are too many (tokenize_line).
THEOREM LinesAreSplit ==
  ASSUME NEW C, NEW line \in Seq(C)
  PROVE  Split(line)
<1>1. Len(line) \in Nat
  OBVIOUS
<1>2. PICK f \in [0..Len(line) -> Scans(C)] :
        /\ f[0] = NothingRead /\ f[Len(line)] = Tokens(line)
        /\ \A n \in 1..Len(line) : f[n] = Scan(f[n - 1], line[n])
  BY ScanSteps
<1> DEFINE Right(n) == Scanned(f[n], line, n)
           P == {n \in Nat : n <= Len(line) => Right(n)}
<1>3. Right(0)
  BY <1>2, NothingScanned
<1>4. ASSUME NEW n \in Nat, n + 1 <= Len(line), Right(n) PROVE Right(n + 1)
  <2>1. n \in 0..Len(line) - 1 /\ n \in 0..Len(line) /\ n + 1 \in 1..Len(line) /\ n + 1 - 1 = n
    BY <1>1, <1>4
  <2>2. f[n] \in Scans(C) /\ f[n + 1] = Scan(f[n], line[n + 1])
    BY <1>2, <2>1
  <2>3. QED
    BY <1>4, <2>1, <2>2, NextScanned
<1> HIDE DEF Right
<1>5. 0 \in P /\ \A n \in Nat : n \in P => n + 1 \in P
  BY <1>1, <1>3, <1>4
<1>6. \A n \in Nat : n \in P
  <2> HIDE DEF P
  <2>1. QED
    BY <1>5, Grows
<1>7. Scanned(Tokens(line), line, Len(line))
  BY <1>1, <1>2, <1>6 DEF Right
<1>8. Nth(line, Len(line)) = Cardinality(Starts(line))
  <2>1. {k \in Starts(line) : k <= Len(line)} = Starts(line)
    BY DEF Starts
  <2>2. QED
    BY <2>1 DEF Nth
<1>9. \A i, j : IsWordIn(line, Len(line), i, j) <=> IsWord(line, i, j)
  BY DEF IsWordIn, IsWord
<1>10. QED
  BY <1>7, <1>8, <1>9 DEF Scanned, Split

COROLLARY LineAlwaysSplit == LineIsSplit
<1> DEFINE C == {Blank, "x", "y"}
<1>1. \A line \in BoundedSeq(C, MaxChars) : line \in Seq(C)
  BY DEF BoundedSeq, SeqOf
<1> HIDE DEF C
<1>2. \A line \in BoundedSeq(C, MaxChars) : Split(line)
  BY <1>1, LinesAreSplit
<1>3. QED
  BY <1>2 DEF LineIsSplit, C

-----------------------------------------------------------------------------
(* The table of parameters.                                                *)

\* What a row may be for none of its values to be cut off.
Kinds    == {"ic_u8", "ic_u16", "driver", "driver_bool"}
AnyRow   == [kind : Kinds, min : Int, max : Int, to : SUBSET Int]
FitsIn(r) == r.min \in r.to /\ r.max \in r.to
IcFitting     == {r \in AnyRow : IsIc(r) /\ FitsIn(r)}
DriverFitting == {r \in AnyRow : ~IsIc(r) /\ FitsIn(r)}

LEMMA RowFields ==
  ASSUME NEW kind \in Kinds, NEW min \in Int, NEW max \in Int, NEW to \in SUBSET Int
  PROVE  LET r == Row(kind, min, max, to)
         IN  r \in AnyRow /\ r.kind = kind /\ r.min = min /\ r.max = max /\ r.to = to
  BY DEF Row, AnyRow

LEMMA IcRowFits ==
  ASSUME NEW kind \in {"ic_u8", "ic_u16"}, NEW to \in SUBSET Int,
         NEW min \in to, NEW max \in to
  PROVE  Row(kind, min, max, to) \in IcFitting
<1> DEFINE r == Row(kind, min, max, to)
<1>1. kind \in Kinds /\ min \in Int /\ max \in Int
  BY DEF Kinds
<1>2. r \in AnyRow /\ r.kind = kind /\ r.min = min /\ r.max = max /\ r.to = to
  BY <1>1, RowFields
<1> HIDE DEF r
<1>3. r \in IcFitting
  BY <1>2 DEF IcFitting, IsIc, FitsIn
<1>4. QED
  BY <1>3 DEF r

LEMMA DriverRowFits ==
  ASSUME NEW kind \in {"driver", "driver_bool"}, NEW to \in SUBSET Int,
         NEW min \in to, NEW max \in to
  PROVE  Row(kind, min, max, to) \in DriverFitting
<1> DEFINE r == Row(kind, min, max, to)
<1>1. kind \in Kinds /\ kind \notin {"ic_u8", "ic_u16"} /\ min \in Int /\ max \in Int
  BY DEF Kinds
<1>2. r \in AnyRow /\ r.kind = kind /\ r.min = min /\ r.max = max /\ r.to = to
  BY <1>1, RowFields
<1> HIDE DEF r
<1>3. r \in DriverFitting
  BY <1>1, <1>2 DEF DriverFitting, IsIc, FitsIn
<1>4. QED
  BY <1>3 DEF r

\* A stretch of the table: n rows of a kind.
Stretch(rows, F, n) == rows \in Seq(F) /\ Len(rows) = n

LEMMA TimesStretch ==
  ASSUME NEW F, NEW row \in F, NEW n \in Nat
  PROVE  Stretch(Times(n, row), F, n)
  BY DEF Times, Stretch

LEMMA JoinedStretch ==
  ASSUME NEW F, NEW r, NEW s, NEW n \in Nat, NEW m \in Nat,
         Stretch(r, F, n), Stretch(s, F, m)
  PROVE  Stretch(r \o s, F, n + m)
  BY DEF Stretch

LEMMA ShortStretches ==
  ASSUME NEW F, NEW a \in F, NEW b \in F, NEW c \in F, NEW d \in F, NEW e \in F, NEW f \in F
  PROVE  /\ Stretch(<<a>>, F, 1) /\ Stretch(<<a, b>>, F, 2) /\ Stretch(<<a, b, c>>, F, 3)
         /\ Stretch(<<a, b, c, d, e>>, F, 5) /\ Stretch(<<a, b, c, d, e, f>>, F, 6)
  BY DEF Stretch

LEMMA IcRowsFit == Stretch(IcRows, IcFitting, 21)
<1> DEFINE F == IcFitting
           a == Row("ic_u8", 0, 255, U8)
           b == Row("ic_u16", 1, 65535, U16)
           c == Row("ic_u16", 0, 65535, U16)
           d == Row("ic_u16", 0, 1000, U16)
           e == Row("ic_u16", 0, 2047, U16)
<1>1. U8 \in SUBSET Int /\ U16 \in SUBSET Int
  BY DEF U8, U16
<1>2. /\ 0 \in U8 /\ 255 \in U8
      /\ 0 \in U16 /\ 1 \in U16 /\ 1000 \in U16 /\ 2047 \in U16 /\ 65535 \in U16
  BY DEF U8, U16
<1>3. /\ a \in F /\ b \in F
      /\ c \in F /\ d \in F /\ e \in F
  <2> HIDE DEF F
  <2>1. a \in IcFitting
    BY <1>1, <1>2, IcRowFits
  <2>2. b \in IcFitting
    BY <1>1, <1>2, IcRowFits
  <2>3. c \in IcFitting
    BY <1>1, <1>2, IcRowFits
  <2>4. d \in IcFitting
    BY <1>1, <1>2, IcRowFits
  <2>5. e \in IcFitting
    BY <1>1, <1>2, IcRowFits
  <2> HIDE DEF a, b, c, d, e
  <2>6. QED
    BY <2>1, <2>2, <2>3, <2>4, <2>5 DEF F
<1> HIDE DEF F, a, b, c, d, e
<1>4. /\ Stretch(Times(9, a), F, 9) /\ Stretch(Times(5, b), F, 5)
      /\ Stretch(Times(4, c), F, 4) /\ Stretch(Times(2, e), F, 2)
  BY <1>3, TimesStretch
<1>5. Stretch(<<d>>, F, 1)
  BY <1>3 DEF Stretch
<1> DEFINE ab   == Times(9, a) \o Times(5, b)
           abc  == ab \o Times(4, c)
           abcd == abc \o <<d>>
<1>6. Stretch(ab, F, 14)
  BY <1>4, JoinedStretch, 9 + 5 = 14
<1> HIDE DEF ab
<1>7. Stretch(abc, F, 18)
  BY <1>4, <1>6, JoinedStretch, 14 + 4 = 18
<1> HIDE DEF abc
<1>8. Stretch(abcd, F, 19)
  BY <1>5, <1>7, JoinedStretch, 18 + 1 = 19
<1> HIDE DEF abcd
<1>9. Stretch(abcd \o Times(2, e), F, 21)
  BY <1>4, <1>8, JoinedStretch, 19 + 2 = 21
<1>10. IcRows = abcd \o Times(2, e)
  BY DEF IcRows, abcd, abc, ab, a, b, c, d, e
<1>11. QED
  BY <1>9, <1>10 DEF F

\* The driver's own parameters are kept in integers; the gates of the inertia are
\* narrowed.
LEMMA SignedSpan ==
  ASSUME NEW max \in Nat
  PROVE  Signed(max) \in SUBSET Int /\ \A v \in Nat : v <= max => v \in Signed(max)
  BY DEF Signed

LEMMA DriverTypes ==
  /\ I32 \in SUBSET Int /\ U16 \in SUBSET Int /\ I16 \in SUBSET Int
  /\ \A v \in Nat : v <= 2000 => v \in I32 /\ v \in U16 /\ v \in I16
<1> DEFINE most1 == 32767
           most2 == 2147483647
           most3 == 65535
           top   == 2000
<1>1. /\ most1 \in Nat /\ most2 \in Nat /\ most3 \in Nat /\ top \in Nat
      /\ top <= most1 /\ top <= most2 /\ top <= most3
  BY SMT
<1>2. I16 = Signed(most1) /\ I32 = Signed(most2)
  BY DEF I16, I32
<1>3. U16 \subseteq Int /\ \A v \in Int : v \in U16 <=> 0 <= v /\ v <= most3
  <2>1. U16 \subseteq Int
    BY SMT DEF U16
  <2>2. \A v \in Int : v \in U16 <=> 0 <= v /\ v <= 65535
    BY SMTT(30) DEF U16
  <2>3. QED
    BY <2>1, <2>2
<1> HIDE DEF most1, most2, most3, top
<1>4. \A v \in Nat : v <= top => v \in U16
  BY <1>1, <1>3, SMT
<1>5. \A v \in Nat : v <= top => v \in Signed(most1) /\ v \in Signed(most2)
  BY <1>1, SignedSpan, SMT
<1>6. Signed(most1) \in SUBSET Int /\ Signed(most2) \in SUBSET Int
  BY <1>1, SignedSpan
<1>7. QED
  BY <1>2, <1>3, <1>4, <1>5, <1>6 DEF top

LEMMA NumFits ==
  ASSUME NEW lo \in Nat, NEW hi \in Nat, lo <= 2000, hi <= 2000
  PROVE  Num(lo, hi) \in DriverFitting
<1>1. I32 \in SUBSET Int /\ lo \in I32 /\ hi \in I32
  BY DriverTypes
<1>2. Row("driver", lo, hi, I32) \in DriverFitting
  BY <1>1, DriverRowFits
<1>3. QED
  BY <1>2 DEF Num

LEMMA FlagFits == Flag \in DriverFitting
<1>1. I32 \in SUBSET Int /\ 0 \in I32 /\ 1 \in I32
  BY DriverTypes
<1>2. Row("driver_bool", 0, 1, I32) \in DriverFitting
  BY <1>1, DriverRowFits
<1>3. QED
  BY <1>2 DEF Flag

LEMMA InertiaRowsFit ==
  ASSUME HistoryMax >= 12
  PROVE  Stretch(InertiaRows, DriverFitting, 6)
<1> DEFINE F == DriverFitting
           a == Row("driver", 0, 1000, U16)
           b == Row("driver", 1, 500, U16)
           c == Row("driver", 1, 500, I16)
<1>1. U16 \in SUBSET Int /\ I16 \in SUBSET Int /\ Samples \in SUBSET Int
  BY DriverTypes, ConsoleAssumption DEF Samples, ConsoleAssumption
<1>2. /\ 0 \in U16 /\ 1 \in U16 /\ 500 \in U16 /\ 1000 \in U16
      /\ 1 \in I16 /\ 500 \in I16
  BY DriverTypes
<1>3. 1 \in Samples /\ 12 \in Samples
  BY ConsoleAssumption DEF Samples, ConsoleAssumption
<1>4. a \in DriverFitting
  BY <1>1, <1>2, DriverRowFits
<1>5. b \in DriverFitting
  BY <1>1, <1>2, DriverRowFits
<1>6. c \in DriverFitting
  BY <1>1, <1>2, DriverRowFits
<1>7. SampleRow \in DriverFitting
  BY <1>1, <1>3, DriverRowFits DEF SampleRow
<1> HIDE DEF F, a, b, c
<1>8. Flag \in F /\ a \in F /\ b \in F /\ SampleRow \in F /\ c \in F
  BY <1>4, <1>5, <1>6, <1>7, FlagFits DEF F
<1>9. Stretch(<<Flag, a, b, b, SampleRow, c>>, F, 6)
  BY <1>8, ShortStretches
<1>10. InertiaRows = <<Flag, a, b, b, SampleRow, c>>
  BY DEF InertiaRows, a, b, c
<1>11. QED
  BY <1>9, <1>10 DEF F

LEMMA TapAndGainRowsFit ==
  Stretch(TapRows, DriverFitting, 5) /\ Stretch(GainRows, DriverFitting, 4)
<1> DEFINE F == DriverFitting
           a == Num(1, 1000)
           b == Num(0, 500)
           c == Num(0, 400)
<1>1. a \in F /\ b \in F /\ c \in F /\ Flag \in F
  <2>1. a \in DriverFitting
    BY NumFits
  <2>2. b \in DriverFitting
    BY NumFits
  <2>3. c \in DriverFitting
    BY NumFits
  <2> HIDE DEF a, b, c
  <2>4. QED
    BY <2>1, <2>2, <2>3, FlagFits
<1> HIDE DEF F, a, b, c
<1>2. Stretch(<<Flag, a, a, Flag, a>>, F, 5)
  BY <1>1, ShortStretches
<1>3. Stretch(Times(2, b), F, 2) /\ Stretch(Times(2, c), F, 2)
  BY <1>1, TimesStretch
<1>4. Stretch(Times(2, b) \o Times(2, c), F, 4)
  BY <1>3, JoinedStretch, 2 + 2 = 4
<1>5. TapRows = <<Flag, a, a, Flag, a>> /\ GainRows = Times(2, b) \o Times(2, c)
  BY DEF TapRows, GainRows, a, b, c
<1>6. QED
  BY <1>2, <1>4, <1>5 DEF F

LEMMA DriverRowsFit ==
  ASSUME HistoryMax >= 12
  PROVE  Stretch(DriverRows, DriverFitting, 47)
<1> DEFINE F  == DriverFitting
           p1 == <<Num(0, 500), Num(0, 1000)>>
           p2 == <<Flag, Flag, Num(1, 2000)>>
           p3 == <<Flag, Num(1, 2000), Num(1, 100)>>
           p4 == <<Num(0, 1000)>>
           p5 == Times(2, Num(0, 100))
           p6 == <<Num(5, 50)>>
<1>1. /\ Stretch(p1, F, 2) /\ Stretch(p2, F, 3) /\ Stretch(p3, F, 3)
      /\ Stretch(p4, F, 1) /\ Stretch(p5, F, 2) /\ Stretch(p6, F, 1)
  <2> DEFINE a == Num(0, 500)
             b == Num(0, 1000)
             c == Num(1, 2000)
             d == Num(1, 100)
             e == Num(0, 100)
             f == Num(5, 50)
  <2>1. a \in DriverFitting
    BY NumFits
  <2>2. b \in DriverFitting
    BY NumFits
  <2>3. c \in DriverFitting
    BY NumFits
  <2>4. d \in DriverFitting
    BY NumFits
  <2>5. e \in DriverFitting
    BY NumFits
  <2>6. f \in DriverFitting
    BY NumFits
  <2> HIDE DEF F, a, b, c, d, e, f
  <2>7. Flag \in F /\ a \in F /\ b \in F /\ c \in F /\ d \in F /\ e \in F /\ f \in F
    BY <2>1, <2>2, <2>3, <2>4, <2>5, <2>6, FlagFits DEF F
  <2>8. Stretch(<<a, b>>, F, 2) /\ Stretch(<<b>>, F, 1) /\ Stretch(<<f>>, F, 1)
    BY <2>7 DEF Stretch
  <2>9. Stretch(<<Flag, Flag, c>>, F, 3) /\ Stretch(<<Flag, c, d>>, F, 3)
    BY <2>7, ShortStretches
  <2>10. Stretch(Times(2, e), F, 2)
    BY <2>7, TimesStretch
  <2>11. QED
    BY <2>8, <2>9, <2>10 DEF a, b, c, d, e, f
<1> HIDE DEF F, p1, p2, p3, p4, p5, p6
<1>2. Stretch(TapRows, F, 5) /\ Stretch(GainRows, F, 4) /\ Stretch(InertiaRows, F, 6)
  BY TapAndGainRowsFit, InertiaRowsFit DEF F
<1> DEFINE s1 == TapRows \o p1
           s2 == s1 \o TapRows
           s3 == s2 \o p2
           s4 == s3 \o GainRows
           s5 == s4 \o p3
           s6 == s5 \o TapRows
           s7 == s6 \o p4
           s8 == s7 \o InertiaRows
           s9 == s8 \o InertiaRows
           s10 == s9 \o p5
           s11 == s10 \o p6
<1>3. Stretch(s1, F, 7)
  BY <1>1, <1>2, JoinedStretch, 5 + 2 = 7
<1> HIDE DEF s1
<1>4. Stretch(s2, F, 12)
  BY <1>2, <1>3, JoinedStretch, 7 + 5 = 12
<1> HIDE DEF s2
<1>5. Stretch(s3, F, 15)
  BY <1>1, <1>4, JoinedStretch, 12 + 3 = 15
<1> HIDE DEF s3
<1>6. Stretch(s4, F, 19)
  BY <1>2, <1>5, JoinedStretch, 15 + 4 = 19
<1> HIDE DEF s4
<1>7. Stretch(s5, F, 22)
  BY <1>1, <1>6, JoinedStretch, 19 + 3 = 22
<1> HIDE DEF s5
<1>8. Stretch(s6, F, 27)
  BY <1>2, <1>7, JoinedStretch, 22 + 5 = 27
<1> HIDE DEF s6
<1>9. Stretch(s7, F, 28)
  BY <1>1, <1>8, JoinedStretch, 27 + 1 = 28
<1> HIDE DEF s7
<1>10. Stretch(s8, F, 34)
  BY <1>2, <1>9, JoinedStretch, 28 + 6 = 34
<1> HIDE DEF s8
<1>11. Stretch(s9, F, 40)
  BY <1>2, <1>10, JoinedStretch, 34 + 6 = 40
<1> HIDE DEF s9
<1>12. Stretch(s10, F, 42)
  BY <1>1, <1>11, JoinedStretch, 40 + 2 = 42
<1> HIDE DEF s10
<1>13. Stretch(s11, F, 43)
  BY <1>1, <1>12, JoinedStretch, 42 + 1 = 43
<1> HIDE DEF s11
<1>14. Stretch(s11 \o GainRows, F, 47)
  BY <1>2, <1>13, JoinedStretch, 43 + 4 = 47
<1>15. DriverRows = s11 \o GainRows
  BY DEF DriverRows, s1, s2, s3, s4, s5, s6, s7, s8, s9, s10, s11, p1, p2, p3, p4, p5, p6
<1>16. QED
  BY <1>14, <1>15 DEF F

\* No value that a parameter may take is cut off where the driver narrows it, if
\* the ring holds as many samples as may be asked for (iqs9151_params.h; the ring
\* has IQS9151_INERTIA_MOTION_HISTORY_SIZE places, 12).
THEOREM TableAlwaysFits == ASSUME HistoryMax >= 12 PROVE TableFits
<1>1. /\ IcRows \in Seq(IcFitting) /\ Len(IcRows) = 21
      /\ DriverRows \in Seq(DriverFitting) /\ Len(DriverRows) = 47
  BY IcRowsFit, DriverRowsFit DEF Stretch
<1>2. /\ Len(ParamTable) = 68 /\ DOMAIN ParamTable = 1..68
      /\ \A i \in 1..68 : ParamTable[i] = IF i <= 21 THEN IcRows[i] ELSE DriverRows[i - 21]
  <2> DEFINE r == IcRows
             s == DriverRows
  <2>1. r \in Seq(AnyRow) /\ Len(r) = 21 /\ s \in Seq(AnyRow) /\ Len(s) = 47
    BY <1>1 DEF IcFitting, DriverFitting
  <2> HIDE DEF r, s
  <2>2. /\ Len(r \o s) = 68 /\ DOMAIN (r \o s) = 1..68
        /\ \A i \in 1..68 : (r \o s)[i] = IF i <= 21 THEN r[i] ELSE s[i - 21]
    <3>1. /\ r \o s \in Seq(AnyRow) /\ Len(r \o s) = 68
          /\ \A i \in 1..68 : (r \o s)[i] = IF i <= 21 THEN r[i] ELSE s[i - 21]
      <4>1. /\ r \o s \in Seq(AnyRow) /\ Len(r \o s) = Len(r) + Len(s)
            /\ \A i \in 1..Len(r) + Len(s) :
                 (r \o s)[i] = IF i <= Len(r) THEN r[i] ELSE s[i - Len(r)]
        <5> HIDE DEF AnyRow
        <5>1. QED
          BY <2>1, ConcatProperties, ZenonT(30)
      <4>2. Len(r) + Len(s) = 68
        BY <2>1
      <4>3. QED
        BY <2>1, <4>1, <4>2, ZenonT(30)
    <3>2. DOMAIN (r \o s) = 1..68
      BY <3>1, LenProperties, ZenonT(30)
    <3>3. QED
      BY <3>1, <3>2
  <2>3. QED
    BY <2>2 DEF ParamTable, r, s
<1>3. ASSUME NEW i \in 1..68
      PROVE  (IsIc(ParamTable[i]) <=> i <= 21) /\ FitsIn(ParamTable[i])
  <2>1. CASE i <= 21
    <3>1. i \in 1..Len(IcRows)
      BY <1>1, <2>1
    <3>2. IcRows[i] \in IcFitting
      BY <1>1, <3>1, ElementOfSeq
    <3>3. QED
      BY <1>2, <2>1, <3>2 DEF IcFitting
  <2>2. CASE ~(i <= 21)
    <3>1. i - 21 \in 1..Len(DriverRows)
      BY <1>1, <2>2
    <3>2. DriverRows[i - 21] \in DriverFitting
      BY <1>1, <3>1, ElementOfSeq
    <3>3. QED
      BY <1>2, <2>2, <3>2 DEF DriverFitting
  <2>3. QED
    BY <2>1, <2>2
<1>4. \A i \in 1..68 : (IsIc(ParamTable[i]) <=> i <= 21) /\ FitsIn(ParamTable[i])
  BY <1>3, Zenon
<1>5. \A i \in DOMAIN ParamTable :
        (IsIc(ParamTable[i]) <=> i <= Len(IcRows)) /\ FitsIn(ParamTable[i])
  <2>1. DOMAIN ParamTable = 1..68 /\ Len(IcRows) = 21
    BY <1>1, <1>2, Zenon
  <2> HIDE DEF ParamTable, IcRows, IsIc, FitsIn
  <2>2. QED
    BY <1>4, <2>1
<1>6. QED
  BY <1>1, <1>2, <1>5, Zenon DEF TableFits, FitsIn

-----------------------------------------------------------------------------
(* Commands.                                                               *)

\* What a command may find, whatever was set before.
Consoles == [par : [Params -> Int], trace : BOOLEAN, summary : BOOLEAN, live : BOOLEAN,
             hz : Int, reati : BOOLEAN]

\* Every parameter is in its range and the live view has a rate.
InBounds(st) == (\A p \in Params : st.par[p] \in Lo[p]..Hi[p]) /\ st.hz \in 1..100

\* What an answer may have come to: nothing, or one thing and only that.
Sound(a, st) ==
  /\ a.ret # "OK" => a.st = st
  /\ \/ a.st = st
     \/ \E p \in Params, v \in Int : v \in Lo[p]..Hi[p] /\ a.st = [st EXCEPT !.par[p] = v]
     \/ a.st = [st EXCEPT !.par = Def]
     \/ \E b \in BOOLEAN : \/ a.st = [st EXCEPT !.trace = b]
                           \/ a.st = [st EXCEPT !.summary = b]
                           \/ a.st = [st EXCEPT !.reati = b]
                           \/ a.st = [st EXCEPT !.live = b]
     \/ \E r \in 1..100 : a.st = [st EXCEPT !.live = TRUE, !.hz = r]

LEMMA AnswerFields ==
  ASSUME NEW r, NEW st
  PROVE  Answer(r, st).ret = r /\ Answer(r, st).st = st
  BY DEF Answer

LEMMA KeptIsSound ==
  ASSUME NEW r, NEW st
  PROVE  Sound(Answer(r, st), st)
  BY AnswerFields DEF Sound

LEMMA SetIsSound ==
  ASSUME NEW st \in Consoles, NEW argv
  PROVE  Sound(CmdSet(st, argv), st)
<1> DEFINE p == argv[2]
           v == Number(argv[3])
           next == [st EXCEPT !.par[p] = v]
<1>1. CASE argv[3] \in Numerals /\ p \in Params /\ InRange(p, v)
  <2>1. CmdSet(st, argv) = Answer("OK", next)
    BY <1>1 DEF CmdSet
  <2>2. v \in Int
    BY <1>1 DEF Numerals, Number
  <2>3. v \in Lo[p]..Hi[p]
    BY <1>1 DEF InRange
  <2>4. \E q \in Params, w \in Int : w \in Lo[q]..Hi[q] /\ next = [st EXCEPT !.par[q] = w]
    BY <1>1, <2>2, <2>3
  <2> HIDE DEF next
  <2>5. QED
    BY <2>1, <2>4, AnswerFields DEF Sound
<1>2. CASE ~(argv[3] \in Numerals /\ p \in Params /\ InRange(p, v))
  <2>1. \E r \in {"EINVAL", "ENOENT", "ERANGE"} : CmdSet(st, argv) = Answer(r, st)
    BY <1>2 DEF CmdSet
  <2>2. QED
    BY <2>1, KeptIsSound
<1>3. QED
  BY <1>1, <1>2

LEMMA LiveOnIsSound ==
  ASSUME NEW st \in Consoles, NEW r
  PROVE  Sound(LiveOn(st, r), st)
<1>1. CASE r \in 1..100
  <2> DEFINE next == [st EXCEPT !.live = TRUE, !.hz = r]
  <2>1. LiveOn(st, r) = Answer("OK", next)
    BY <1>1 DEF LiveOn
  <2>2. \E k \in 1..100 : next = [st EXCEPT !.live = TRUE, !.hz = k]
    BY <1>1
  <2> HIDE DEF next
  <2>3. LiveOn(st, r).ret = "OK" /\ LiveOn(st, r).st = next
    BY <2>1, AnswerFields
  <2>4. QED
    BY <2>2, <2>3, Zenon DEF Sound
<1>2. CASE r \notin 1..100
  <2>1. LiveOn(st, r) = Answer("ERANGE", st)
    BY <1>2 DEF LiveOn
  <2>2. QED
    BY <2>1, KeptIsSound
<1>3. QED
  BY <1>1, <1>2

\* A switch of one of the views.
LEMMA SwitchIsSound ==
  ASSUME NEW st, NEW b \in BOOLEAN
  PROVE  /\ Sound(Answer("OK", [st EXCEPT !.live = b]), st)
         /\ Sound(Answer("OK", [st EXCEPT !.trace = b]), st)
         /\ Sound(Answer("OK", [st EXCEPT !.summary = b]), st)
         /\ Sound(Answer("OK", [st EXCEPT !.reati = b]), st)
<1>1. \A r : Answer("OK", r).ret = "OK" /\ Answer("OK", r).st = r
  BY AnswerFields
<1>2. QED
  BY <1>1 DEF Sound

LEMMA LiveIsSound ==
  ASSUME NEW st \in Consoles, NEW argv
  PROVE  Sound(CmdLive(st, argv), st)
<1>1. CmdLive(st, argv) \in {LiveOn(st, 60), LiveOn(st, Number(argv[3]) % 65536),
                             Answer("ERANGE", st), Answer("OK", [st EXCEPT !.live = FALSE]),
                             Answer("EINVAL", st)}
  BY DEF CmdLive
<1>2. Sound(Answer("OK", [st EXCEPT !.live = FALSE]), st)
  BY SwitchIsSound
<1>3. Sound(LiveOn(st, 60), st) /\ Sound(LiveOn(st, Number(argv[3]) % 65536), st)
  BY LiveOnIsSound
<1>4. Sound(Answer("ERANGE", st), st) /\ Sound(Answer("EINVAL", st), st)
  BY KeptIsSound
<1>5. QED
  BY <1>1, <1>2, <1>3, <1>4

LEMMA SwitchesAreSound ==
  ASSUME NEW st \in Consoles, NEW argv
  PROVE  Sound(CmdSwitch(st, argv), st)
<1> DEFINE b == argv[2] = "on"
<1>1. b \in BOOLEAN
  OBVIOUS
<1>2. CmdSwitch(st, argv) \in {Answer("EINVAL", st), Answer("OK", [st EXCEPT !.trace = b]),
                               Answer("OK", [st EXCEPT !.summary = b])}
  BY DEF CmdSwitch
<1> HIDE DEF b
<1>3. QED
  BY <1>1, <1>2, KeptIsSound, SwitchIsSound

LEMMA ExecIsSound ==
  ASSUME NEW env \in Env, NEW st \in Consoles, NEW words
  PROVE  Sound(Exec(env, st, words), st)
<1>1. ASSUME NEW argv PROVE Sound(ExecArgv(env, st, argv), st)
  <2> DEFINE plain == {Answer(r, st) : r \in {"OK", "EINVAL", "ENOENT", "ENODEV", "EIO"}}
  <2>1. ExecArgv(env, st, argv)
          \in plain \cup {CmdSet(st, argv), Answer("OK", [st EXCEPT !.par = Def]),
                          Answer("OK", [st EXCEPT !.reati = TRUE]), CmdSwitch(st, argv),
                          CmdLive(st, argv)}
    <3> DEFINE a == argv[1]
               E == ExecArgv(env, st, argv)
    <3>1. CASE argv = <<>> \/ a \notin DOMAIN Takes \/ Len(argv) \notin Takes[a]
               \/ (a \in NeedsDevice /\ ~env.ready)
      <4>1. E \in {Answer("EINVAL", st), Answer("ENOENT", st), Answer("ENODEV", st)}
        <5> HIDE DEF a
        <5>1. QED
          BY <3>1 DEF ExecArgv, a
      <4>2. QED
        BY <4>1
    <3>2. CASE ~(argv = <<>> \/ a \notin DOMAIN Takes \/ Len(argv) \notin Takes[a]
                 \/ (a \in NeedsDevice /\ ~env.ready))
      <4>1. a \in {"info", "list", "get", "set", "reset", "save", "reati", "trace",
                   "summary", "live", "stats"}
        BY <3>2 DEF Takes
      <4>2. E = CASE a \in {"info", "list"} -> Answer("OK", st)
                  [] a = "get" -> Answer(IF argv[2] \in Params THEN "OK" ELSE "ENOENT", st)
                  [] a = "set" -> CmdSet(st, argv)
                  [] a = "reset" -> Answer("OK", [st EXCEPT !.par = Def])
                  [] a = "save" -> Answer(IF env.saves THEN "OK" ELSE "EIO", st)
                  [] a = "reati" -> Answer("OK", [st EXCEPT !.reati = TRUE])
                  [] a \in {"trace", "summary"} -> CmdSwitch(st, argv)
                  [] a = "live" -> CmdLive(st, argv)
                  [] a = "stats" ->
                       Answer(IF Len(argv) = 2 /\ argv[2] # "noreset" THEN "EINVAL" ELSE "OK",
                              st)
        BY <3>2 DEF ExecArgv
      <4> HIDE DEF E, a
      <4>3. QED
        BY <4>1, <4>2 DEF E
    <3>3. QED
      BY <3>1, <3>2
  <2>2. Sound(Answer("OK", [st EXCEPT !.par = Def]), st)
    <3>1. \A r : Answer("OK", r).ret = "OK" /\ Answer("OK", r).st = r
      BY AnswerFields
    <3>2. QED
      BY <3>1 DEF Sound
  <2>3. \A a \in plain : Sound(a, st)
    BY KeptIsSound
  <2> HIDE DEF plain
  <2>4. QED
    BY <2>1, <2>2, <2>3, SetIsSound, LiveIsSound, SwitchesAreSound, SwitchIsSound
<1>2. QED
  BY <1>1, KeptIsSound DEF Exec

\* Whatever is typed, in whatever state and on whatever device: a command that is
\* answered with an error has changed nothing, none changes more than one thing,
\* and parameters and the rate of the view stay within their ranges
\* (iqs9151_cmd_exec).
THEOREM CommandsAreHarmless ==
  ASSUME NEW env \in Env, NEW st \in Consoles, NEW words
  PROVE  LET a == Exec(env, st, words)
         IN  /\ a.ret # "OK" => a.st = st
             /\ Cardinality(Touched(st, a.st)) <= 1
             /\ InBounds(st) => InBounds(a.st)
<1> DEFINE a == Exec(env, st, words)
<1>1. Sound(a, st)
  BY ExecIsSound
<1> HIDE DEF a
<1>2. st.par \in [Params -> Int]
      /\ DOMAIN st = {"par", "trace", "summary", "live", "hz", "reati"}
  BY DEF Consoles
<1>3. \E f : Touched(st, a.st) \subseteq {f}
  <2>1. CASE a.st = st
    BY <2>1 DEF Touched
  <2>2. CASE \/ \E p \in Params, v \in Int : v \in Lo[p]..Hi[p] /\ a.st = [st EXCEPT !.par[p] = v]
             \/ a.st = [st EXCEPT !.par = Def]
    <3>1. Touched(st, a.st) \subseteq {"par"}
      BY <1>2, <2>2 DEF Touched
    <3>2. QED
      BY <3>1
  <2>3. CASE \E b \in BOOLEAN : a.st = [st EXCEPT !.trace = b]
    <3>1. Touched(st, a.st) \subseteq {"trace"}
      BY <1>2, <2>3 DEF Touched
    <3>2. QED
      BY <3>1
  <2>4. CASE \E b \in BOOLEAN : a.st = [st EXCEPT !.summary = b]
    <3>1. Touched(st, a.st) \subseteq {"summary"}
      BY <1>2, <2>4 DEF Touched
    <3>2. QED
      BY <3>1
  <2>5. CASE \E b \in BOOLEAN : a.st = [st EXCEPT !.reati = b]
    <3>1. Touched(st, a.st) \subseteq {"reati"}
      BY <1>2, <2>5 DEF Touched
    <3>2. QED
      BY <3>1
  <2>6. CASE \/ \E b \in BOOLEAN : a.st = [st EXCEPT !.live = b]
             \/ \E r \in 1..100 : a.st = [st EXCEPT !.live = TRUE, !.hz = r]
    <3>1. Touched(st, a.st) \subseteq {"live"}
      BY <1>2, <2>6 DEF Touched
    <3>2. QED
      BY <3>1
  <2>7. QED
    BY <1>1, <2>1, <2>2, <2>3, <2>4, <2>5, <2>6 DEF Sound
<1>4. Cardinality(Touched(st, a.st)) <= 1
  <2>1. PICK f : Touched(st, a.st) \in SUBSET {f}
    BY <1>3
  <2>2. IsFiniteSet({f}) /\ Cardinality({f}) = 1
    BY FS_Singleton
  <2>3. QED
    BY <2>1, <2>2, FS_Subset
<1>5. ASSUME InBounds(st) PROVE InBounds(a.st)
  <2>1. \A p \in Params : st.par[p] \in Lo[p]..Hi[p] /\ st.hz \in 1..100
    BY <1>5 DEF InBounds
  <2>2. st.hz \in 1..100
    BY <1>5 DEF InBounds
  <2>3. \A p \in Params : Def[p] \in Lo[p]..Hi[p]
    BY DEF Params, Lo, Hi, Def
  <2>4. CASE \E p \in Params, v \in Int : v \in Lo[p]..Hi[p] /\ a.st = [st EXCEPT !.par[p] = v]
    <3>1. PICK p \in Params, v \in Int :
            v \in Lo[p]..Hi[p] /\ a.st = [st EXCEPT !.par[p] = v]
      BY <2>4
    <3>2. a.st.hz = st.hz /\ \A q \in Params : a.st.par[q] = IF q = p THEN v ELSE st.par[q]
      BY <1>2, <3>1
    <3>3. QED
      BY <2>1, <2>2, <3>1, <3>2 DEF InBounds
  <2>5. CASE a.st = [st EXCEPT !.par = Def]
    BY <1>2, <2>2, <2>3, <2>5 DEF InBounds
  <2>6. CASE \E r \in 1..100 : a.st = [st EXCEPT !.live = TRUE, !.hz = r]
    BY <1>2, <2>1, <2>6 DEF InBounds
  <2>7. CASE \E b \in BOOLEAN : \/ a.st = [st EXCEPT !.trace = b]
                                \/ a.st = [st EXCEPT !.summary = b]
                                \/ a.st = [st EXCEPT !.reati = b]
                                \/ a.st = [st EXCEPT !.live = b]
    BY <1>2, <1>5, <2>7 DEF InBounds
  <2>8. QED
    BY <1>1, <1>5, <2>4, <2>5, <2>6, <2>7 DEF Sound
<1>6. a.ret # "OK" => a.st = st
  BY <1>1 DEF Sound
<1>7. QED
  BY <1>4, <1>5, <1>6 DEF a

LEMMA TriedConsoles ==
  ASSUME NEW st \in States
  PROVE  st \in Consoles /\ InBounds(st)
<1>1. /\ st.par \in [Params -> {0, 1, 250}] /\ st.hz \in {1, 60, 100}
      /\ \A p \in Params : st.par[p] \in Lo[p]..Hi[p]
  BY DEF States
<1>2. st \in Consoles
  BY DEF States, Consoles
<1>3. QED
  BY <1>1, <1>2 DEF InBounds

\* So it is for the lines and states that are tried (iqs9151_cmd_exec).
COROLLARY RefusedAlwaysHarmless == RefusedIsHarmless
  BY TriedConsoles, CommandsAreHarmless DEF RefusedIsHarmless

\* And so the ranges hold after each of them (iqs9151_params_set).
COROLLARY RangesAlwaysHold == RangesHold
<1>1. [ready |-> TRUE, saves |-> TRUE] \in Env
  BY DEF Env
<1>2. QED
  BY <1>1, TriedConsoles, CommandsAreHarmless DEF RangesHold, InBounds

\* Every command finds the words of its line, changes nothing when it is refused
\* and keeps the ranges, and they fit what they are used for, in every state.
THEOREM CommandsAlwaysSound == ASSUME HistoryMax >= 12 PROVE Spec => []CommandsAreSound
<1>1. CommandsAreSound
  BY LineAlwaysSplit, RefusedAlwaysHarmless, RangesAlwaysHold, TableAlwaysFits
  DEF CommandsAreSound
<1>2. QED
  BY <1>1, PTL
==============================================================================
