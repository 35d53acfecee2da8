----------------------- MODULE MCSingleEntityRuntime -----------------------
(* Small instances of SingleEntityRuntime for TLC.                         *)
EXTENDS SingleEntityRuntime, TLC

(* Callers are interchangeable.                                            *)
CallerSymmetry == Permutations(Dispatches) \cup Permutations(Passivations)

(* Bound: at most three directory calls in progress at a time.             *)
FewCalls == Cardinality(calls) <= 3
=============================================================================
