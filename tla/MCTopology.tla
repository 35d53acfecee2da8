----------------------------- MODULE MCTopology -----------------------------
(* Bounded instances of Topology: every declaration of at most MaxVertices *)
(* vertices and MaxEdges transitions, duplicates and stray identities      *)
(* included.  Identities are interchangeable, so the initial one is 1.     *)
EXTENDS Topology, SequencesExt

CONSTANTS MaxVertices, MaxEdges

MCVertexIds == 1 .. 3

MCTopologies ==
  [initial     : {1},
   vertices    : BoundedSeq(MCVertexIds, MaxVertices),
   transitions : BoundedSeq([from : MCVertexIds, trigger : TriggerIds,
                             to : MCVertexIds], MaxEdges)]
=============================================================================
