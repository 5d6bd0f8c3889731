------------------------- MODULE MCIqs9151Settings -------------------------
(* Instances of Iqs9151Settings: one parameter, with a default, one other   *)
(* and one stale value; one or two command threads.                        *)
EXTENDS Iqs9151Settings

CONSTANTS p1, dflt, new, old, shell, relay

OneDefault == [p \in {p1} |-> dflt]
=============================================================================
