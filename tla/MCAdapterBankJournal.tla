----------------------- MODULE MCAdapterBankJournal -----------------------
(***************************************************************************)
(* Instances of AdapterBankJournal for TLC.                                *)
(***************************************************************************)
EXTENDS AdapterBankJournal, TLC

CONSTANTS w1, w2, r1, register, activate, reactivate, none

MCWriter == {w1, w2}
MCReader == {r1}
MCSticky == {register}
MCActivation == {activate, reactivate}
MCReversal == {}
=============================================================================
