-------------------------- MODULE MCEntityRuntime --------------------------
(* Small instances of EntityRuntime for TLC.                               *)
EXTENDS EntityRuntime, TLC

(* Callers are interchangeable in every safety property.                   *)
CallerSymmetry == Permutations(Dispatches) \cup Permutations(Passivations)

(* Bound of the liveness run: one caller keeps its future, any other may   *)
(* drop its own at any time.  Only this caller's DropFuture leaves these   *)
(* states, and no fairness condition asks for it, so the behaviours in     *)
(* which it is patient are complete.                                       *)
PatientCaller == CHOOSE d \in Dispatches : TRUE

OnePatient == future[PatientCaller] # "dropped"
=============================================================================
