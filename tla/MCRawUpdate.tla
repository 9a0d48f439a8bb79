---------------------------- MODULE MCRawUpdate ----------------------------
(***************************************************************************)
(* Instances of RawUpdate for TLC: windows of 3 packets, one double word   *)
(* each; bank 2 is two applications of 6 double words.                     *)
(***************************************************************************)
EXTENDS RawUpdate

MCNums      == 0 .. 6
MCSafeErase == {<<0, 0>>}
=============================================================================
