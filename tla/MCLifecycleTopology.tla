------------------------ MODULE MCLifecycleTopology ------------------------
(* The lifecycle's declaration and those that differ from it by one edge   *)
(* left out and one edge of any kind put anywhere.                         *)
EXTENDS LifecycleTopology, SequencesExt

MCPhases == Phases

MCTriggers == Triggers

Extra == [from : Phases, trigger : {"Dispatch", "Terminated"}, to : Phases]

Without(s) == {s} \cup {RemoveAt(s, i) : i \in DOMAIN s}

With(s) == {s} \cup {InsertAt(s, i, e) : i \in 1 .. Len(s) + 1, e \in Extra}

MCDeclarations ==
  {[LifecycleDeclaration EXCEPT !.transitions = s] :
     s \in UNION {With(t) : t \in Without(AllEdges)}}

(* The reducer's evidence and the topology speak of the same edges.        *)
Reducer == INSTANCE Lifecycle WITH WaiterLimit <- 1

ASSUME SameEdges == Range(AllEdges) = Reducer!LifecycleEdges
=============================================================================
