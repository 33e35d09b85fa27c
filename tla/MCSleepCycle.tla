---------------------------- MODULE MCSleepCycle ----------------------------
(***************************************************************************)
(* Two reconstructions; one bundle verifies the first, two the second.     *)
(***************************************************************************)
EXTENDS SleepCycle, TLC

MCAllowed == {1, 2}
MCVerified == {<<1, 1>>, <<2, 2>>, <<3, 2>>}
=============================================================================
