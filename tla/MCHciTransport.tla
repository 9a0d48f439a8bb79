--------------------------- MODULE MCHciTransport ---------------------------
(***************************************************************************)
(* An instance of HciTransport for TLC: the 5 packets of the code, and     *)
(* enough events, answers and errors to use them all up.                   *)
(***************************************************************************)
EXTENDS HciTransport
=============================================================================
