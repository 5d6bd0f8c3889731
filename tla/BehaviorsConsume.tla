-------------------------- MODULE BehaviorsConsume --------------------------
(***************************************************************************)
(* The behaviors-consume input processor                                   *)
(* (input_processors/input_processor_behaviors_consume.c) between the      *)
(* driver and the listener that reports to the host: an event with a       *)
(* mapped code invokes its binding, here the behavior trackpad_to_pos      *)
(* (behaviors/behavior_trackpad_to_pos.c), and is turned into a release of *)
(* BTN_8, a button no gesture of the driver uses.                          *)
(*                                                                         *)
(* The processor keeps no state and runs in the input thread alone: it is  *)
(* an operator, applied to runs of events.                                 *)
(***************************************************************************)
EXTENDS Integers, Sequences, SequencesExt

CONSTANTS
  Buttons,    \* the codes the driver reports; "BTN_8" is none of them
  Codes,      \* cfg->codes, in order; code k is bound to position k
  MaxInputs   \* longest run of events tried

ASSUME ConsumeAssumption ==
  /\ "BTN_8" \notin Buttons
  /\ Codes \in Seq(ToSet(Codes)) /\ MaxInputs \in Nat

\* What is held down: positions of the keymap, buttons of the host.
Nothing == [positions |-> {}, host |-> {}]

Put(S, x, down) == IF down THEN S \cup {x} ELSE S \ {x}

\* zmk_behavior_invoke_binding of trackpad_to_pos: unless it fails, the position
\* takes the state of the button.
InvokeBinding(s, i, e) ==
  IF e.fails THEN s ELSE [s EXCEPT !.positions = Put(@, i, e.down)]

\* The listener reports an event that comes through, and drops one whose
\* processor returned an error.
Listen(s, e) == [s EXCEPT !.host = Put(@, e.code, e.down)]

\* Mutant: the value of a neutralized event is kept.
NeutralizedCode(e) == [e EXCEPT !.code = "BTN_8"]

Neutralized(e) == [e EXCEPT !.code = "BTN_8", !.down = FALSE]

\* ip_behaviors_consume_handle_event and what becomes of its result.
HandleEvent(s, e) ==
  LET i == SelectInSeq(Codes, LAMBDA c : c = e.code)
  IN  CASE i = 0 -> Listen(s, e)
        [] i # 0 /\ e.fails -> s
        [] i # 0 /\ ~e.fails -> Listen(InvokeBinding(s, i, e), Neutralized(e))

Handled(run) == FoldLeft(HandleEvent, Nothing, run)

-----------------------------------------------------------------------------
Inputs == [code : Buttons, down : BOOLEAN, fails : BOOLEAN]

\* Held down by the last event that did not fail.
LastSays(run, c) ==
  LET i == SelectLastInSeq(run, LAMBDA e : e.code = c /\ (e.fails => c \notin ToSet(Codes)))
  IN  i # 0 /\ run[i].down

\* Whatever order events come in and whichever bindings fail, the host holds the
\* buttons that are not mapped and no other, BTN_8 neither, and the keymap holds
\* the position of a mapped button as its last event that was not refused says.
ButtonsAreConsumed ==
  \A run \in BoundedSeq(Inputs, MaxInputs) :
    LET s == Handled(run)
    IN  /\ s.host = {c \in Buttons \ ToSet(Codes) : LastSays(run, c)}
        /\ s.positions = {SelectInSeq(Codes, LAMBDA d : d = c) :
                            c \in {b \in ToSet(Codes) : LastSays(run, b)}}
=============================================================================
