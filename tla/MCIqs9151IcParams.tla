-------------------------- MODULE MCIqs9151IcParams --------------------------
(***************************************************************************)
(* Instance of Iqs9151IcParams.  With it the registers that parameters are *)
(* written to; what is said of those is computed once, in the first state. *)
(***************************************************************************)
EXTENDS Iqs9151IcParams, Iqs9151Registers

CONSTANTS p1, p2, dflt, new, shell, main

\* Every parameter starts with the same default value.
DefaultIs  == [p \in {p1, p2} |-> dflt]
OneDefault == [p \in {p1} |-> dflt]

\* The configuration lands where it is meant to, byte by byte.
ConfigurationLands == Init => EveryByteLands
==============================================================================
