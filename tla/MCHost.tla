------------------------------- MODULE MCHost -------------------------------
(***************************************************************************)
(* A host for TLC, with a setting in its file that does not fit.           *)
(***************************************************************************)
EXTENDS Host
CONSTANTS old, new

\* More hops than eight bits hold.
Operators == [name |-> old, hops |-> 256]
=============================================================================
