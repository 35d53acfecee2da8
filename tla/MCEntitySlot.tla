---------------------------- MODULE MCEntitySlot ----------------------------
(* Small instances of EntitySlot for TLC.                                  *)
EXTENDS EntitySlot, TLC

(* Dispatch identities are interchangeable in every safety property.       *)
DispatchSymmetry == Permutations(Dispatches)
=============================================================================
