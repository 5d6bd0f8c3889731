--------------------------- MODULE MCDynamicScaler ---------------------------
(***************************************************************************)
(* Instance of DynamicScaler: scales of 0.2 to 0.4, two threads.  With it  *)
(* the processor that runs its behaviors in the input thread; what is said *)
(* of that one is computed once, in the first states of the run.           *)
(***************************************************************************)
EXTENDS DynamicScaler, BehaviorsConsume, TLC

CONSTANTS keys, input, b0, b1, b2

Movement == {-7, 4, 15}

\* One code listed twice: its first binding is the one invoked.
Mapped == <<b0, b1, b0>>

\* Mapped buttons become positions, and only the others reach the host.
MappedAreConsumed ==
  (Init /\ stored = [g \in Groups |-> Absent]) => ButtonsAreConsumed
==============================================================================
