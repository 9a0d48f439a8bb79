---------------------------- MODULE MCPeripheral ----------------------------
(***************************************************************************)
(* Instances of Peripheral for TLC.  A double word is 2 bytes, a page 2    *)
(* double words.  With raw images of whole windows an application has room *)
(* for three windows of two packets, two double words each as in the code; *)
(* with every command it has 4 double words, and a secure packet one and a *)
(* half.  One page of bootloader comes first.                              *)
(***************************************************************************)
EXTENDS DeviceTransfer

MCNums        == 0 .. 6
MCFewNums     == 0 .. 2
MCSmallTotals == {1, 3}
MCSafeErase   == {<<0, 0>>}

\* What an uninitialised erase request can name: nothing, or
\* the whole chip.
MCUninitErase == {<<0, 0>>, <<0, 10>>}
=============================================================================
