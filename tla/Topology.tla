------------------------------ MODULE Topology ------------------------------
(***************************************************************************)
(* Topology::validate (crates/transition/src/machine.rs): the checks a     *)
(* declared state graph passes before a machine may be built on it.  The   *)
(* loops that look for the first defect are one step each; the closure of  *)
(* the reachable vertices takes one step per edge visited, in as many      *)
(* rounds over the edges as there are declared vertices.                   *)
(***************************************************************************)
EXTENDS Naturals, Sequences, FiniteSets, Functions

CONSTANTS VertexIds, TriggerIds,
          Topologies     \* the declarations validate is called with

Edges == [from : VertexIds, trigger : TriggerIds, to : VertexIds]

ASSUME TopologiesAssumption ==
  Topologies \subseteq [initial     : VertexIds,
                        vertices    : Seq(VertexIds),
                        transitions : Seq(Edges)]

VARIABLES topology,   \* the declaration under validation
          phase,      \* the check that is next
          round,      \* rounds of the closure begun
          edge,       \* next edge of the round
          reachable,  \* the vertices marked so far
          verdict     \* << >>, or << kind, what it is about >>

vars == <<topology, phase, round, edge, reachable, verdict>>

Declared == Range(topology.vertices)

First(S) == {i \in S : \A j \in S : i <= j}

-----------------------------------------------------------------------------
Init ==
  /\ topology \in Topologies
  /\ phase = "vertices"
  /\ round = 1 /\ edge = 1
  /\ reachable = {}
  /\ verdict = << >>

Return(kind, about) ==
  /\ verdict' = << kind, about >>
  /\ phase' = "done"
  /\ UNCHANGED <<topology, round, edge, reachable>>

Continue(next) ==
  /\ phase' = next
  /\ UNCHANGED <<topology, round, edge, reachable, verdict>>

DuplicateVertices ==
  {i \in DOMAIN topology.vertices :
     \E j \in 1 .. i - 1 : topology.vertices[j] = topology.vertices[i]}

CheckVertices ==
  /\ phase = "vertices"
  /\ \/ \E i \in First(DuplicateVertices) :
          Return("DuplicateVertex", topology.vertices[i])
     \/ DuplicateVertices = {} /\ Continue("initial")

CheckInitial ==
  /\ phase = "initial"
  /\ \/ topology.initial \notin Declared
        /\ Return("UnknownInitial", topology.initial)
     \/ topology.initial \in Declared /\ Continue("edges")

(* Transitions that repeat an earlier one's source and trigger.            *)
DuplicateTransitions ==
  {i \in DOMAIN topology.transitions :
     \E j \in 1 .. i - 1 :
       /\ topology.transitions[j].from = topology.transitions[i].from
       /\ topology.transitions[j].trigger = topology.transitions[i].trigger}

UnknownEndpoints ==
  {i \in DOMAIN topology.transitions :
     {topology.transitions[i].from, topology.transitions[i].to} \ Declared # {}}

\* defect: an edge's endpoints are looked up before its source and trigger
CheckEdgesReferencesFirst ==
  /\ phase = "edges"
  /\ \/ \E i \in First(DuplicateTransitions \cup UnknownEndpoints) :
          LET e == topology.transitions[i]
          IN  \/ i \notin UnknownEndpoints /\ Return("DuplicateTransition", e)
              \/ /\ i \in UnknownEndpoints
                 /\ Return("UnknownVertex", IF e.from \in Declared THEN e.to ELSE e.from)
     \/ DuplicateTransitions \cup UnknownEndpoints = {} /\ Continue("mark")

(* Each edge is first compared with the earlier ones, then its source and  *)
(* then its destination are looked up.                                     *)
CheckEdges ==
  /\ phase = "edges"
  /\ \/ \E i \in First(DuplicateTransitions \cup UnknownEndpoints) :
          LET e == topology.transitions[i]
          IN  \/ i \in DuplicateTransitions /\ Return("DuplicateTransition", e)
              \/ /\ i \notin DuplicateTransitions
                 /\ Return("UnknownVertex", IF e.from \in Declared THEN e.to ELSE e.from)
     \/ DuplicateTransitions \cup UnknownEndpoints = {} /\ Continue("mark")

MarkInitial ==
  /\ phase = "mark"
  /\ reachable' = {topology.initial}
  /\ phase' = "spread"
  /\ UNCHANGED <<topology, round, edge, verdict>>

(* One edge of a round.                                                    *)
Spread ==
  /\ phase = "spread"
  /\ round <= Len(topology.vertices)
  /\ edge <= Len(topology.transitions)
  /\ LET e == topology.transitions[edge]
     IN  reachable' = IF e.from \in reachable
                      THEN reachable \cup {e.to} ELSE reachable
  /\ edge' = edge + 1
  /\ UNCHANGED <<topology, phase, round, verdict>>

\* defect: the edges are visited once
NextRoundOnce ==
  /\ phase = "spread"
  /\ round <= Len(topology.vertices)
  /\ edge > Len(topology.transitions)
  /\ round' = Len(topology.vertices) + 1
  /\ edge' = 1
  /\ UNCHANGED <<topology, phase, reachable, verdict>>

NextRound ==
  /\ phase = "spread"
  /\ round <= Len(topology.vertices)
  /\ edge > Len(topology.transitions)
  /\ round' = round + 1
  /\ edge' = 1
  /\ UNCHANGED <<topology, phase, reachable, verdict>>

Unmarked == {i \in DOMAIN topology.vertices : topology.vertices[i] \notin reachable}

CheckReachable ==
  /\ phase = "spread"
  /\ round > Len(topology.vertices)
  /\ \/ \E i \in First(Unmarked) : Return("UnreachableVertex", topology.vertices[i])
     \/ Unmarked = {} /\ Return("Valid", topology.initial)

Next ==
  \/ CheckVertices \/ CheckInitial \/ CheckEdges
  \/ MarkInitial \/ Spread \/ NextRound \/ CheckReachable

Spec == Init /\ [][Next]_vars

-----------------------------------------------------------------------------
(* Every variable holds a value of its type; once the edges are checked    *)
(* only declared vertices are marked.                                      *)
TypeOK ==
  /\ topology \in Topologies
  /\ phase \in {"vertices", "initial", "edges", "mark", "spread", "done"}
  /\ round \in 1 .. Len(topology.vertices) + 1
  /\ edge \in 1 .. Len(topology.transitions) + 1
  /\ reachable \subseteq Declared
  /\ verdict = << >> <=> phase # "done"

Closed(S) ==
  \A e \in Range(topology.transitions) : e.from \in S => e.to \in S

(* The vertices on some path from the initial one: the least set that      *)
(* holds it and is closed under the edges.                                 *)
OnPath(v) ==
  \A S \in SUBSET VertexIds : topology.initial \in S /\ Closed(S) => v \in S

Deterministic ==
  \A i, j \in DOMAIN topology.transitions :
    /\ topology.transitions[i].from = topology.transitions[j].from
    /\ topology.transitions[i].trigger = topology.transitions[j].trigger
    => i = j

WellFormed ==
  /\ IsInjective(topology.vertices)
  /\ topology.initial \in Declared
  /\ Deterministic
  /\ \A e \in Range(topology.transitions) : {e.from, e.to} \subseteq Declared
  /\ \A v \in Declared : OnPath(v)

(* What ValidatedTopology promises, and that nothing else is turned down:  *)
(* a graph is accepted exactly if it is deterministic, refers to declared  *)
(* vertices only, and has a path to every one of them, however its edges   *)
(* are ordered - as many rounds as vertices are enough.                    *)
AcceptsExactlyWellFormed ==
  verdict # << >> => (verdict[1] = "Valid" <=> WellFormed)

(* A rejection names the first defect in declaration order.                *)
RejectsFirstDefect ==
  LET V == topology.vertices
      E == topology.transitions
      Conflict(i, j) == E[i].from = E[j].from /\ E[i].trigger = E[j].trigger
      Sound(n) ==        \* the first n transitions are in order
        \A i \in 1 .. n : /\ \A j \in 1 .. i - 1 : ~Conflict(i, j)
                          /\ {E[i].from, E[i].to} \subseteq Declared
  IN  verdict # << >> =>
        CASE verdict[1] = "DuplicateVertex" ->
               \E i \in DOMAIN V :
                 /\ V[i] = verdict[2]
                 /\ \E j \in 1 .. i - 1 : V[j] = V[i]
                 /\ IsInjective(SubSeq(V, 1, i - 1))
          [] verdict[1] = "UnknownInitial" -> topology.initial \notin Declared
          [] verdict[1] = "DuplicateTransition" ->
               \E i \in DOMAIN E :
                 /\ E[i] = verdict[2] /\ Sound(i - 1)
                 /\ \E j \in 1 .. i - 1 : Conflict(i, j)
          [] verdict[1] = "UnknownVertex" ->
               \E i \in DOMAIN E :
                 /\ verdict[2] \in {E[i].from, E[i].to} \ Declared /\ Sound(i - 1)
                 /\ \A j \in 1 .. i - 1 : ~Conflict(i, j)
                 /\ E[i].from \notin Declared => verdict[2] = E[i].from
          [] verdict[1] = "UnreachableVertex" ->
               \E i \in DOMAIN V :
                 /\ V[i] = verdict[2] /\ ~OnPath(V[i])
                 /\ \A j \in 1 .. i - 1 : OnPath(V[j])
          [] OTHER -> TRUE
=============================================================================
