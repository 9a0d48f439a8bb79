--------------------------- MODULE MCSecureUpdate ---------------------------
(***************************************************************************)
(* Instances of SecureUpdate for TLC: windows of 2 packets of one and a    *)
(* half double words; bank 2 is two applications of 6 double words.        *)
(***************************************************************************)
EXTENDS SecureUpdate, RandGenerator

MCNums      == 0 .. 12
MCSafeErase == {<<0, 0>>}

\* The generator against its recurrence, from 0, from one bit, and from many.
ASSUME GeneratorFollows ==
    \A seed \in {0, 1, 2, 4660, 32768, 44257, 65535} : FollowsRecurrence(seed)
=============================================================================
