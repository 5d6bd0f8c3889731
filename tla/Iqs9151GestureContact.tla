------------------------ MODULE Iqs9151GestureContact ------------------------
(***************************************************************************)
(* Iqs9151Gesture with a history variable: how long the pad has been       *)
(* touched without a break, whichever sessions that contact went through.  *)
(* The driver keeps no such clock.  Each session times itself only, and a  *)
(* session opened by a frame with one finger more inherits its right to be *)
(* a tap from the session it takes over; a lift may be staged as well.     *)
(* Nothing in the code adds these times up.                                *)
(***************************************************************************)
EXTENDS Iqs9151Gesture

CONSTANT ContactMax     \* contacts are not told apart from here on

VARIABLE contact        \* time since the pad was last reported untouched

contactVars == <<vars, contact>>

ContactInit == Init /\ contact = 0

Touching == contact' = IF prev' = 0 THEN 0 ELSE contact

ContactWork == Work /\ Touching

ContactTick == /\ Tick
               /\ contact' = IF prev # 0 /\ contact < ContactMax
                             THEN contact + 1 ELSE contact

ContactNext == ContactWork \/ ContactTick

ContactSpec == ContactInit /\ [][ContactNext]_contactVars

\* The longest contact that may end in a tap of k fingers: each finger but
\* the last leads the next by at most LeadMax, the k fingers touch for at
\* most TapMax, and two fingers may lift one after the other.  (The staged
\* lift of three fingers counts towards TapMax.)
ContactLimit(k) ==
  Reentry + (k - 1) * LeadMax + TapMax[k] + (IF k = 2 THEN RelMax ELSE 0)

-----------------------------------------------------------------------------
\* A tap, however staged its touch and its lift, is short: a button is never
\* pressed or clicked at the end of a contact longer than ContactLimit.
TapIsShort ==
  [][pc = "close" /\ pc' = "arm" => contact <= ContactLimit(fr.k)]_contactVars

=============================================================================
