--------------------------- MODULE TopologyProofs ---------------------------
(***************************************************************************)
(* Proofs about Topology and LifecycleTopology for every set of            *)
(* declarations, of any size: a declaration is accepted exactly if it is   *)
(* well formed, a rejection names the first defect, and an accepted        *)
(* lifecycle neither reopens admission nor leaves an entity stuck.         *)
(***************************************************************************)
EXTENDS LifecycleTopology, FiniteSetTheorems, TLAPS

(* What each check that has been passed leaves behind.                     *)
Passed ==
  /\ phase \notin {"vertices", "done"} => DuplicateVertices = {}
  /\ phase \in {"edges", "mark", "spread"} => topology.initial \in Declared
  /\ phase \in {"mark", "spread"} =>
       DuplicateTransitions = {} /\ UnknownEndpoints = {}
  /\ phase = "spread" => topology.initial \in reachable
  /\ phase \notin {"spread", "done"} => round = 1 /\ edge = 1 /\ reachable = {}

(* Only vertices on a path are marked.                                     *)
MarksOnPath == \A v \in reachable : OnPath(v)

Followed(n) ==
  \A i \in DOMAIN topology.transitions :
    i < n /\ topology.transitions[i].from \in reachable =>
      topology.transitions[i].to \in reachable

(* The closure is complete, or it has a vertex for every round completed   *)
(* and either gained one in this round or follows the edges visited in it. *)
Progress ==
  phase = "spread" =>
    \/ Closed(reachable)
    \/ Cardinality(reachable) >= round + 1
    \/ Cardinality(reachable) >= round /\ Followed(edge)

IInv == TypeOK /\ Passed /\ MarksOnPath /\ Progress /\ AcceptsExactlyWellFormed

-----------------------------------------------------------------------------
LEMMA TopologyType ==
  ASSUME topology \in Topologies
  PROVE  /\ topology.initial \in VertexIds
         /\ topology.vertices \in Seq(VertexIds)
         /\ topology.transitions \in Seq(Edges)
         /\ Declared \subseteq VertexIds
         /\ \A e \in Range(topology.transitions) : e \in Edges
<1>1. /\ topology.initial \in VertexIds
      /\ topology.vertices \in Seq(VertexIds)
      /\ topology.transitions \in Seq(Edges)
  BY TopologiesAssumption
<1>2. Declared \subseteq VertexIds
  BY <1>1 DEF Declared, Range
<1>3. \A e \in Range(topology.transitions) : e \in Edges
  BY <1>1 DEF Range
<1> QED BY <1>1, <1>2, <1>3

LEMMA FewDeclared ==
  ASSUME topology \in Topologies
  PROVE  /\ IsFiniteSet(Declared)
         /\ Cardinality(Declared) <= Len(topology.vertices)
<1>1. topology.vertices \in Seq(VertexIds)
  BY TopologyType
<1>2. DOMAIN topology.vertices = 1 .. Len(topology.vertices)
      /\ Len(topology.vertices) \in Nat
  BY <1>1
<1>3. IsFiniteSet(DOMAIN topology.vertices)
      /\ Cardinality(DOMAIN topology.vertices) = Len(topology.vertices)
  BY <1>2, FS_Interval
<1>4. topology.vertices \in Surjection(DOMAIN topology.vertices, Declared)
  BY <1>1 DEF Surjection, Declared, Range
<1> QED BY <1>3, <1>4, FS_Surjection

(* The loops' findings are the negations of the reference definition.      *)
LEMMA NoDuplicateVertex ==
  ASSUME topology \in Topologies
  PROVE  DuplicateVertices = {} <=> IsInjective(topology.vertices)
<1>1. DOMAIN topology.vertices = 1 .. Len(topology.vertices)
      /\ Len(topology.vertices) \in Nat
  BY TopologyType
<1>2. ASSUME DuplicateVertices = {} PROVE IsInjective(topology.vertices)
  <2>1. ASSUME NEW i \in DOMAIN topology.vertices, NEW j \in DOMAIN topology.vertices,
               topology.vertices[i] = topology.vertices[j], j < i
        PROVE  FALSE
    BY <1>1, <1>2, <2>1 DEF DuplicateVertices
  <2>2. \A i, j \in DOMAIN topology.vertices : i = j \/ i < j \/ j < i
    BY <1>1
  <2> QED BY <2>1, <2>2 DEF IsInjective
<1>3. ASSUME IsInjective(topology.vertices) PROVE DuplicateVertices = {}
  <2>1. ASSUME NEW i \in DOMAIN topology.vertices, NEW j \in 1 .. i - 1
        PROVE  topology.vertices[j] # topology.vertices[i]
    <3>1. j \in DOMAIN topology.vertices /\ j # i
      BY <1>1
    <3> QED BY <1>3, <3>1 DEF IsInjective
  <2> QED BY <2>1 DEF DuplicateVertices
<1> QED BY <1>2, <1>3

LEMMA NoDuplicateTransition ==
  ASSUME topology \in Topologies
  PROVE  DuplicateTransitions = {} <=> Deterministic
<1> DEFINE E == topology.transitions
<1>1. DOMAIN E = 1 .. Len(E) /\ Len(E) \in Nat
  BY TopologyType
<1>2. ASSUME DuplicateTransitions = {} PROVE Deterministic
  <2>1. ASSUME NEW i \in DOMAIN E, NEW j \in DOMAIN E,
               E[i].from = E[j].from, E[i].trigger = E[j].trigger, j < i
        PROVE  FALSE
    BY <1>1, <1>2, <2>1 DEF DuplicateTransitions
  <2>2. \A i, j \in DOMAIN E : i = j \/ i < j \/ j < i
    BY <1>1
  <2> QED BY <2>1, <2>2 DEF Deterministic
<1>3. ASSUME Deterministic PROVE DuplicateTransitions = {}
  <2>1. ASSUME NEW i \in DOMAIN E, NEW j \in 1 .. i - 1
        PROVE  ~(E[j].from = E[i].from /\ E[j].trigger = E[i].trigger)
    <3>1. j \in DOMAIN E /\ j # i
      BY <1>1
    <3> QED BY <1>3, <3>1 DEF Deterministic
  <2> QED BY <2>1 DEF DuplicateTransitions
<1> QED BY <1>2, <1>3

LEMMA NoUnknownEndpoint ==
  UnknownEndpoints = {} <=>
    \A e \in Range(topology.transitions) : {e.from, e.to} \subseteq Declared
BY DEF UnknownEndpoints, Range

-----------------------------------------------------------------------------
LEMMA InitIInv == Init => IInv
<1> SUFFICES ASSUME Init PROVE IInv
  OBVIOUS
<1>1. Len(topology.vertices) \in Nat /\ Len(topology.transitions) \in Nat
  BY TopologyType DEF Init
<1> QED BY <1>1 DEF Init, IInv, TypeOK, Passed, MarksOnPath, Progress, AcceptsExactlyWellFormed

LEMMA TypeNext == IInv /\ [Next]_vars => TypeOK'
<1> SUFFICES ASSUME IInv, [Next]_vars PROVE TypeOK'
  OBVIOUS
<1>0. /\ topology \in Topologies
      /\ Len(topology.vertices) \in Nat /\ Len(topology.transitions) \in Nat
  BY TopologyType DEF IInv, TypeOK
<1>1. ASSUME NEW kind, NEW about, Return(kind, about) PROVE TypeOK'
  <2>1. << kind, about >> # << >>
    OBVIOUS
  <2> QED BY <1>1, <2>1 DEF IInv, TypeOK, Return, Declared
<1>2. ASSUME NEW next \in {"initial", "edges", "mark"}, Continue(next), phase # "done"
      PROVE  TypeOK'
  BY <1>2 DEF IInv, TypeOK, Continue, Declared
<1>3. CASE MarkInitial
  BY <1>3 DEF MarkInitial, IInv, TypeOK, Passed, Declared
<1>4. CASE Spread
  <2> DEFINE e == topology.transitions[edge]
  <2>1. edge \in DOMAIN topology.transitions
    BY <1>0, <1>4, TopologyType DEF Spread, IInv, TypeOK
  <2>2. e.to \in Declared
    BY <1>4, <2>1 DEF Spread, IInv, Passed, UnknownEndpoints
  <2>3. edge' \in 1 .. Len(topology.transitions) + 1
    BY <1>0, <1>4 DEF Spread, IInv, TypeOK
  <2>4. reachable' \subseteq Declared
    BY <1>4, <2>2 DEF Spread, IInv, TypeOK
  <2> QED BY <1>4, <2>3, <2>4 DEF Spread, IInv, TypeOK, Declared
<1>5. CASE NextRound
  <2>1. round' \in 1 .. Len(topology.vertices) + 1
        /\ edge' \in 1 .. Len(topology.transitions) + 1
    BY <1>0, <1>5 DEF NextRound, IInv, TypeOK
  <2> QED BY <1>5, <2>1 DEF NextRound, IInv, TypeOK, Declared
<1>6. CASE UNCHANGED vars
  BY <1>6 DEF vars, IInv, TypeOK, Declared
<1> QED
  BY <1>1, <1>2, <1>3, <1>4, <1>5, <1>6
  DEF Next, CheckVertices, CheckInitial, CheckEdges, CheckReachable

LEMMA PassedNext == IInv /\ [Next]_vars => Passed'
<1> SUFFICES ASSUME IInv, [Next]_vars PROVE Passed'
  OBVIOUS
<1>0. Passed /\ TypeOK
  BY DEF IInv
<1> USE DEF Passed, Declared, DuplicateVertices, DuplicateTransitions, UnknownEndpoints
<1>1. ASSUME NEW kind, NEW about, Return(kind, about) PROVE Passed'
  BY <1>1 DEF Return
<1>2. CASE phase = "vertices" /\ DuplicateVertices = {} /\ Continue("initial")
  BY <1>0, <1>2 DEF Continue
<1>3. CASE phase = "initial" /\ topology.initial \in Declared /\ Continue("edges")
  BY <1>0, <1>3 DEF Continue
<1>4. CASE /\ phase = "edges" /\ DuplicateTransitions \cup UnknownEndpoints = {}
           /\ Continue("mark")
  BY <1>0, <1>4 DEF Continue
<1>5. CASE MarkInitial
  BY <1>0, <1>5 DEF MarkInitial
<1>6. CASE Spread \/ NextRound
  BY <1>0, <1>6 DEF Spread, NextRound
<1>7. CASE UNCHANGED vars
  BY <1>0, <1>7 DEF vars
<1> QED
  BY <1>1, <1>2, <1>3, <1>4, <1>5, <1>6, <1>7
  DEF Next, CheckVertices, CheckInitial, CheckEdges, CheckReachable

LEMMA MarksNext == IInv /\ [Next]_vars => MarksOnPath'
<1> SUFFICES ASSUME IInv, [Next]_vars PROVE MarksOnPath'
  OBVIOUS
<1>0. MarksOnPath /\ topology' = topology
  BY DEF IInv, Next, vars, CheckVertices, CheckInitial, CheckEdges, MarkInitial,
         Spread, NextRound, CheckReachable, Return, Continue
<1>1. CASE MarkInitial
  BY <1>0, <1>1 DEF MarkInitial, MarksOnPath, OnPath, Closed
<1>2. CASE Spread
  <2> DEFINE e == topology.transitions[edge]
  <2>1. edge \in DOMAIN topology.transitions
    BY <1>2, TopologyType DEF Spread, IInv, TypeOK
  <2>2. e \in Range(topology.transitions)
    BY <2>1 DEF Range
  <2>3. ASSUME e.from \in reachable PROVE OnPath(e.to)
    BY <1>0, <2>2, <2>3 DEF MarksOnPath, OnPath, Closed
  <2>4. \A v \in reachable' : OnPath(v)
    BY <1>0, <1>2, <2>3 DEF Spread, MarksOnPath
  <2> QED BY <1>0, <2>4 DEF MarksOnPath, OnPath, Closed
<1>3. CASE reachable' = reachable
  BY <1>0, <1>3 DEF MarksOnPath, OnPath, Closed
<1> QED
  BY <1>1, <1>2, <1>3
  DEF Next, vars, CheckVertices, CheckInitial, CheckEdges, NextRound,
      CheckReachable, Return, Continue

LEMMA ProgressNext == IInv /\ [Next]_vars => Progress'
<1> SUFFICES ASSUME IInv, [Next]_vars, phase' = "spread" PROVE Progress'
  BY DEF Progress
<1>0. /\ topology \in Topologies /\ reachable \subseteq Declared
      /\ round \in Nat /\ edge \in Nat
      /\ DOMAIN topology.transitions = 1 .. Len(topology.transitions)
      /\ Len(topology.transitions) \in Nat
  <2>1. topology \in Topologies
    BY DEF IInv, TypeOK
  <2> QED BY <2>1, TopologyType DEF IInv, TypeOK
<1>1. IsFiniteSet(reachable) /\ Cardinality(reachable) \in Nat
  BY <1>0, FewDeclared, FS_Subset, FS_CardinalityType
<1>2. CASE MarkInitial
  <2>1. round' = 1 /\ edge' = 1 /\ topology' = topology
    BY <1>2 DEF MarkInitial, IInv, Passed
  <2>2. Cardinality(reachable') = 1
    BY <1>2, FS_Singleton DEF MarkInitial
  <2>3. Followed(edge)'
    BY <1>0, <2>1 DEF Followed
  <2> QED BY <2>1, <2>2, <2>3 DEF Progress
<1>3. CASE Spread
  <2> DEFINE e == topology.transitions[edge]
  <2>1. /\ Progress /\ phase = "spread" /\ edge' = edge + 1 /\ round' = round
        /\ topology' = topology /\ edge \in DOMAIN topology.transitions
    BY <1>0, <1>3 DEF Spread, IInv, TypeOK
  <2>2. CASE e.from \in reachable /\ e.to \notin reachable
    <3>1. Cardinality(reachable') = Cardinality(reachable) + 1
      BY <1>1, <1>3, <2>2, FS_AddElement DEF Spread
    <3>2. ~Closed(reachable)
      BY <2>1, <2>2 DEF Closed, Range
    <3>3. Cardinality(reachable) >= round
      BY <1>0, <1>1, <2>1, <3>2 DEF Progress
    <3> QED BY <1>0, <1>1, <2>1, <3>1, <3>3 DEF Progress
  <2>3. CASE ~(e.from \in reachable /\ e.to \notin reachable)
    <3>1. reachable' = reachable
      BY <1>3, <2>3 DEF Spread
    <3>2. Followed(edge) => Followed(edge)'
      BY <1>0, <2>1, <2>3, <3>1 DEF Followed
    <3>3. Closed(reachable) => Closed(reachable)'
      BY <2>1, <3>1 DEF Closed
    <3> QED BY <2>1, <3>1, <3>2, <3>3 DEF Progress
  <2> QED BY <2>2, <2>3
<1>4. CASE NextRound
  <2>1. /\ Progress /\ phase = "spread" /\ edge' = 1 /\ round' = round + 1
        /\ edge > Len(topology.transitions)
        /\ reachable' = reachable /\ topology' = topology
    BY <1>4 DEF NextRound, IInv
  <2>2. Followed(edge) => Closed(reachable)
    BY <1>0, <2>1 DEF Followed, Closed, Range
  <2>3. Followed(edge)'
    BY <1>0, <2>1 DEF Followed
  <2>4. Closed(reachable) => Closed(reachable)'
    BY <2>1 DEF Closed
  <2> QED BY <1>0, <1>1, <2>1, <2>2, <2>3, <2>4 DEF Progress
<1>5. CASE UNCHANGED vars
  BY <1>5 DEF vars, IInv, Progress, Closed, Followed
<1> QED
  BY <1>2, <1>3, <1>4, <1>5
  DEF Next, CheckVertices, CheckInitial, CheckEdges, CheckReachable, Return, Continue

(* After the last round the marked vertices are those on a path.           *)
LEMMA MarksComplete ==
  ASSUME IInv, phase = "spread", round > Len(topology.vertices)
  PROVE  \A v : OnPath(v) => v \in reachable
<1>0. topology \in Topologies /\ reachable \subseteq Declared /\ round \in Nat
  <2>1. topology \in Topologies
    BY DEF IInv, TypeOK
  <2> QED BY <2>1, TopologyType DEF IInv, TypeOK
<1>1. Cardinality(reachable) <= Len(topology.vertices)
      /\ Cardinality(reachable) \in Nat /\ Len(topology.vertices) \in Nat
  <2>1. IsFiniteSet(Declared) /\ Cardinality(Declared) <= Len(topology.vertices)
    BY <1>0, FewDeclared
  <2>2. IsFiniteSet(reachable) /\ Cardinality(reachable) <= Cardinality(Declared)
    BY <1>0, <2>1, FS_Subset
  <2>3. Cardinality(reachable) \in Nat /\ Cardinality(Declared) \in Nat
    BY <2>1, <2>2, FS_CardinalityType
  <2>4. Len(topology.vertices) \in Nat
    BY <1>0, TopologyType
  <2> QED BY <2>1, <2>2, <2>3, <2>4
<1>2. Closed(reachable)
  BY <1>0, <1>1 DEF IInv, Progress
<1>3. topology.initial \in reachable /\ reachable \in SUBSET VertexIds
  BY <1>0, TopologyType DEF IInv, Passed
<1> QED BY <1>2, <1>3 DEF OnPath

LEMMA VerdictNext == IInv /\ [Next]_vars => AcceptsExactlyWellFormed'
<1> SUFFICES ASSUME IInv, [Next]_vars PROVE AcceptsExactlyWellFormed'
  OBVIOUS
<1>0. topology \in Topologies
  BY DEF IInv, TypeOK
<1>1. topology' = topology
  BY DEF IInv, Next, vars, CheckVertices, CheckInitial, CheckEdges, MarkInitial,
         Spread, NextRound, CheckReachable, Return, Continue
<1>2. WellFormed' <=> WellFormed
  BY <1>1 DEF WellFormed, Declared, Deterministic, OnPath, Closed
<1>3. ASSUME NEW kind, NEW about, Return(kind, about), kind = "Valid" <=> WellFormed
      PROVE  AcceptsExactlyWellFormed'
  BY <1>2, <1>3 DEF Return, AcceptsExactlyWellFormed
<1>4. CASE CheckVertices
  <2>1. DuplicateVertices # {} => ~WellFormed
    BY <1>0, NoDuplicateVertex DEF WellFormed
  <2> QED BY <1>2, <1>3, <1>4, <2>1 DEF CheckVertices, First, Continue, IInv, TypeOK, AcceptsExactlyWellFormed
<1>5. CASE CheckInitial
  <2>1. topology.initial \notin Declared => ~WellFormed
    BY DEF WellFormed
  <2> QED BY <1>2, <1>3, <1>5, <2>1 DEF CheckInitial, Continue, IInv, TypeOK, AcceptsExactlyWellFormed
<1>6. CASE CheckEdges
  <2>1. DuplicateTransitions \cup UnknownEndpoints # {} => ~WellFormed
    BY <1>0, NoDuplicateTransition, NoUnknownEndpoint DEF WellFormed
  <2>2. ASSUME NEW i \in First(DuplicateTransitions \cup UnknownEndpoints)
        PROVE  ~WellFormed
    BY <2>1 DEF First
  <2>3. ASSUME NEW i \in First(DuplicateTransitions \cup UnknownEndpoints),
               NEW kind \in {"DuplicateTransition", "UnknownVertex"}, NEW about,
               Return(kind, about)
        PROVE  AcceptsExactlyWellFormed'
    BY <1>3, <2>2, <2>3
  <2>4. ASSUME Continue("mark") PROVE AcceptsExactlyWellFormed'
    BY <1>2, <2>4 DEF Continue, IInv, AcceptsExactlyWellFormed
  <2>5. \/ Continue("mark")
        \/ \E i \in First(DuplicateTransitions \cup UnknownEndpoints) :
             \E kind \in {"DuplicateTransition", "UnknownVertex"} :
               \E about : Return(kind, about)
    BY <1>6 DEF CheckEdges
  <2> QED BY <2>3, <2>4, <2>5
<1>7. CASE CheckReachable
  <2>1. \A v : OnPath(v) => v \in reachable
    BY <1>7, MarksComplete DEF CheckReachable
  <2>2. Unmarked # {} => ~WellFormed
    BY <2>1 DEF Unmarked, WellFormed, Declared, Range
  <2>3. Unmarked = {} => \A v \in Declared : OnPath(v)
    BY DEF Unmarked, Declared, Range, IInv, MarksOnPath
  <2>4. Unmarked = {} => WellFormed
    BY <1>0, <1>7, <2>3, NoDuplicateVertex, NoDuplicateTransition, NoUnknownEndpoint
    DEF CheckReachable, IInv, Passed, WellFormed
  <2> QED BY <1>3, <1>7, <2>2, <2>4 DEF CheckReachable, First
<1>8. CASE verdict' = verdict
  BY <1>2, <1>8 DEF IInv, AcceptsExactlyWellFormed
<1> QED
  BY <1>4, <1>5, <1>6, <1>7, <1>8
  DEF Next, vars, MarkInitial, Spread, NextRound

LEMMA NextIInv == IInv /\ [Next]_vars => IInv'
BY TypeNext, PassedNext, MarksNext, ProgressNext, VerdictNext DEF IInv

(* The inductive invariant holds of every behaviour.                       *)
THEOREM Invariance == Spec => []IInv
BY InitIInv, NextIInv, PTL DEF Spec

(* Every reachable state of the validation is well typed: the closure      *)
(* marks declared vertices only.                                           *)
THEOREM TypeCorrect == Spec => []TypeOK
<1>1. IInv => TypeOK
  BY DEF IInv
<1> QED BY <1>1, Invariance, PTL

(* A declaration of any size is accepted exactly if it is well formed: no  *)
(* defect slips through, and as many rounds over the edges as there are    *)
(* vertices close every graph.                                             *)
THEOREM Exactness == Spec => []AcceptsExactlyWellFormed
<1>1. IInv => AcceptsExactlyWellFormed
  BY DEF IInv
<1> QED BY <1>1, Invariance, PTL
-----------------------------------------------------------------------------
(* Which defect a rejection is about.                                      *)

Conflict(i, j) ==
  /\ topology.transitions[i].from = topology.transitions[j].from
  /\ topology.transitions[i].trigger = topology.transitions[j].trigger

SoundUpTo(n) ==
  \A i \in 1 .. n :
    /\ \A j \in 1 .. i - 1 : ~Conflict(i, j)
    /\ {topology.transitions[i].from, topology.transitions[i].to} \subseteq Declared

FirstDefect(kind, about) ==
  /\ kind = "DuplicateVertex" =>
       \E i \in DOMAIN topology.vertices :
         /\ topology.vertices[i] = about
         /\ \E j \in 1 .. i - 1 : topology.vertices[j] = topology.vertices[i]
         /\ IsInjective(SubSeq(topology.vertices, 1, i - 1))
  /\ kind = "UnknownInitial" => topology.initial \notin Declared
  /\ kind = "DuplicateTransition" =>
       \E i \in DOMAIN topology.transitions :
         /\ topology.transitions[i] = about /\ SoundUpTo(i - 1)
         /\ \E j \in 1 .. i - 1 : Conflict(i, j)
  /\ kind = "UnknownVertex" =>
       \E i \in DOMAIN topology.transitions :
         /\ about \in {topology.transitions[i].from, topology.transitions[i].to} \ Declared
         /\ SoundUpTo(i - 1)
         /\ \A j \in 1 .. i - 1 : ~Conflict(i, j)
         /\ topology.transitions[i].from \notin Declared => about = topology.transitions[i].from
  /\ kind = "UnreachableVertex" =>
       \E i \in DOMAIN topology.vertices :
         /\ topology.vertices[i] = about /\ ~OnPath(topology.vertices[i])
         /\ \A j \in 1 .. i - 1 : OnPath(topology.vertices[j])

LEMMA DefectByKind ==
  RejectsFirstDefect <=> (verdict # << >> => FirstDefect(verdict[1], verdict[2]))
BY DEF RejectsFirstDefect, FirstDefect, SoundUpTo, Conflict

LEMMA FirstVertexTwice ==
  ASSUME topology \in Topologies, NEW i \in First(DuplicateVertices)
  PROVE  FirstDefect("DuplicateVertex", topology.vertices[i])
<1> DEFINE V == topology.vertices
           P == SubSeq(V, 1, i - 1)
<1>1. V \in Seq(VertexIds) /\ DOMAIN V = 1 .. Len(V) /\ Len(V) \in Nat
  BY TopologyType
<1>2. i \in DOMAIN V /\ \E j \in 1 .. i - 1 : V[j] = V[i]
  BY DEF First, DuplicateVertices
<1>3. DOMAIN P = 1 .. i - 1 /\ \A k \in 1 .. i - 1 : P[k] = V[k]
  BY <1>1, <1>2
<1>4. ASSUME NEW a \in 1 .. i - 1, NEW b \in 1 .. i - 1, a < b PROVE V[a] # V[b]
  <2>1. b \in DOMAIN V /\ ~(i <= b) /\ a \in 1 .. b - 1
    BY <1>1, <1>2, <1>4
  <2>2. b \notin DuplicateVertices
    BY <2>1 DEF First
  <2> QED BY <2>1, <2>2 DEF DuplicateVertices
<1>5. \A a, b \in 1 .. i - 1 : a = b \/ a < b \/ b < a
  OBVIOUS
<1>6. IsInjective(P)
  <2> HIDE DEF P, V
  <2> QED BY <1>3, <1>4, <1>5 DEF IsInjective
<1> QED BY <1>2, <1>6 DEF FirstDefect

(* Every transition before the first one found wrong is in order.          *)
LEMMA SoundBefore ==
  ASSUME topology \in Topologies,
         NEW i \in First(DuplicateTransitions \cup UnknownEndpoints)
  PROVE  i \in DOMAIN topology.transitions /\ SoundUpTo(i - 1)
<1>1. /\ DOMAIN topology.transitions = 1 .. Len(topology.transitions)
      /\ Len(topology.transitions) \in Nat
  BY TopologyType
<1>2. i \in DOMAIN topology.transitions
  BY DEF First, DuplicateTransitions, UnknownEndpoints
<1>3. ASSUME NEW k \in 1 .. i - 1
      PROVE  /\ \A j \in 1 .. k - 1 : ~Conflict(k, j)
             /\ {topology.transitions[k].from, topology.transitions[k].to} \subseteq Declared
  <2>1. k \in DOMAIN topology.transitions /\ ~(i <= k)
    BY <1>1, <1>2
  <2>2. k \notin DuplicateTransitions /\ k \notin UnknownEndpoints
    BY <2>1 DEF First
  <2> QED BY <2>1, <2>2 DEF DuplicateTransitions, UnknownEndpoints, Conflict
<1> QED BY <1>2, <1>3 DEF SoundUpTo

LEMMA FirstEdgeTwice ==
  ASSUME topology \in Topologies,
         NEW i \in First(DuplicateTransitions \cup UnknownEndpoints),
         i \in DuplicateTransitions
  PROVE  FirstDefect("DuplicateTransition", topology.transitions[i])
<1>1. \E j \in 1 .. i - 1 : Conflict(i, j)
  BY DEF DuplicateTransitions, Conflict
<1> QED BY <1>1, SoundBefore DEF FirstDefect

LEMMA FirstEdgeStray ==
  ASSUME topology \in Topologies,
         NEW i \in First(DuplicateTransitions \cup UnknownEndpoints),
         i \notin DuplicateTransitions
  PROVE  LET e == topology.transitions[i]
         IN  FirstDefect("UnknownVertex", IF e.from \in Declared THEN e.to ELSE e.from)
<1>1. i \in DOMAIN topology.transitions /\ SoundUpTo(i - 1)
  BY SoundBefore
<1>2. i \in UnknownEndpoints
  BY DEF First
<1>3. {topology.transitions[i].from, topology.transitions[i].to} \ Declared # {}
  BY <1>2 DEF UnknownEndpoints
<1>4. \A j \in 1 .. i - 1 : ~Conflict(i, j)
  BY <1>1 DEF DuplicateTransitions, Conflict
<1> QED BY <1>1, <1>3, <1>4 DEF FirstDefect

LEMMA FirstUnreachable ==
  ASSUME IInv, phase = "spread", round > Len(topology.vertices), NEW i \in First(Unmarked)
  PROVE  FirstDefect("UnreachableVertex", topology.vertices[i])
<1>1. /\ DOMAIN topology.vertices = 1 .. Len(topology.vertices)
      /\ Len(topology.vertices) \in Nat
  <2>1. topology \in Topologies
    BY DEF IInv, TypeOK
  <2> QED BY <2>1, TopologyType
<1>2. i \in DOMAIN topology.vertices /\ topology.vertices[i] \notin reachable
  BY DEF First, Unmarked
<1>3. ~OnPath(topology.vertices[i])
  BY <1>2, MarksComplete
<1>4. ASSUME NEW j \in 1 .. i - 1 PROVE OnPath(topology.vertices[j])
  <2>1. j \in DOMAIN topology.vertices /\ ~(i <= j)
    BY <1>1, <1>2
  <2>2. topology.vertices[j] \in reachable
    BY <2>1 DEF First, Unmarked
  <2> QED BY <2>2 DEF IInv, MarksOnPath
<1> QED BY <1>2, <1>3, <1>4 DEF FirstDefect

LEMMA DefectNext == IInv /\ RejectsFirstDefect /\ [Next]_vars => RejectsFirstDefect'
<1> SUFFICES ASSUME IInv, RejectsFirstDefect, [Next]_vars PROVE RejectsFirstDefect'
  OBVIOUS
<1>0. topology \in Topologies
  BY DEF IInv, TypeOK
<1>1. topology' = topology
  BY DEF IInv, Next, vars, CheckVertices, CheckInitial, CheckEdges, MarkInitial,
         Spread, NextRound, CheckReachable, Return, Continue
<1>2. Declared' = Declared /\ \A v : OnPath(v)' <=> OnPath(v)
  BY <1>1 DEF Declared, OnPath, Closed
<1>3. (verdict' # << >> => FirstDefect(verdict'[1], verdict'[2])) => RejectsFirstDefect'
  BY <1>1, <1>2 DEF RejectsFirstDefect, FirstDefect, SoundUpTo, Conflict
<1>4. ASSUME NEW kind, NEW about, Return(kind, about), FirstDefect(kind, about)
      PROVE  RejectsFirstDefect'
  BY <1>3, <1>4 DEF Return
<1>5. CASE verdict' = verdict
  BY <1>3, <1>5, DefectByKind
<1>6. CASE CheckVertices
  BY <1>0, <1>4, <1>5, <1>6, FirstVertexTwice DEF CheckVertices, Continue
<1>7. CASE CheckInitial
  <2>1. topology.initial \notin Declared => FirstDefect("UnknownInitial", topology.initial)
    BY DEF FirstDefect
  <2> QED BY <1>4, <1>5, <1>7, <2>1 DEF CheckInitial, Continue
<1>8. CASE CheckEdges
  BY <1>0, <1>4, <1>5, <1>8, FirstEdgeTwice, FirstEdgeStray DEF CheckEdges, Continue
<1>9. CASE CheckReachable
  <2>1. FirstDefect("Valid", topology.initial)
    BY DEF FirstDefect
  <2> QED BY <1>4, <1>9, <2>1, FirstUnreachable DEF CheckReachable
<1> QED
  BY <1>5, <1>6, <1>7, <1>8, <1>9 DEF Next, vars, MarkInitial, Spread, NextRound

(* A rejection names the first defect in declaration order: everything     *)
(* declared before what it blames is in order, for declarations of any     *)
(* size.                                                                   *)
THEOREM Blame == Spec => []RejectsFirstDefect
<1>1. Init => RejectsFirstDefect
  BY DEF Init, RejectsFirstDefect
<1> QED BY <1>1, DefectNext, Invariance, PTL DEF Spec
-----------------------------------------------------------------------------
(* The lifecycle's own checks, which come after the generic ones.          *)

(* What has been found out about a declaration once it is accepted.        *)
Accepted ==
  answer # << >> /\ answer[1] = "Valid" => WellFormed /\ Missing = {} /\ ~Reopening

LIInv == IInv /\ Accepted

LEMMA LifecycleInitInv == LifecycleInit => LIInv
BY InitIInv DEF LifecycleInit, LIInv, Accepted

LEMMA LifecycleNextInv == LIInv /\ [LifecycleNext]_lifecycleVars => LIInv'
<1> SUFFICES ASSUME LIInv, [LifecycleNext]_lifecycleVars PROVE LIInv'
  OBVIOUS
<1>1. [Next]_vars
  BY DEF LifecycleNext, lifecycleVars, Structure, CheckLifecycle
<1>2. topology' = topology
  BY <1>1 DEF Next, vars, CheckVertices, CheckInitial, CheckEdges, MarkInitial,
              Spread, NextRound, CheckReachable, Return, Continue
<1>3. (WellFormed' <=> WellFormed) /\ Missing' = Missing /\ (Reopening' <=> Reopening)
  BY <1>2 DEF WellFormed, Declared, Deterministic, OnPath, Closed, Missing, Reopening
<1>4. ASSUME answer' = answer PROVE Accepted'
  BY <1>3, <1>4 DEF LIInv, Accepted
<1>5. ASSUME Structure PROVE Accepted'
  BY <1>5 DEF Structure, Accepted
<1>6. ASSUME CheckLifecycle PROVE Accepted'
  <2>1. WellFormed
    BY <1>6 DEF CheckLifecycle, LIInv, IInv, AcceptsExactlyWellFormed
  <2> QED BY <1>3, <1>6, <2>1 DEF CheckLifecycle, Accepted
<1>7. Accepted'
  BY <1>4, <1>5, <1>6 DEF LifecycleNext, lifecycleVars
<1> QED BY <1>1, <1>7, NextIInv DEF LIInv

LEMMA LifecycleInvariance == LifecycleSpec => []LIInv
BY LifecycleInitInv, LifecycleNextInv, PTL DEF LifecycleSpec

(* With no edge missing, a set of phases that no edge leaves holds all of  *)
(* them: the required edges make one cycle through the five.               *)
LEMMA RequiredCycle ==
  ASSUME Missing = {}, NEW S, Closed(S), NEW p \in Phases, p \in S
  PROVE  Phases \subseteq S
<1>1. DOMAIN AllEdges = 1 .. 7
  BY DEF AllEdges
<1>2. \A i \in 1 .. 7 : AllEdges[i].from \in S => AllEdges[i].to \in S
  BY <1>1 DEF Missing, Closed
<1>3. /\ AllEdges[1].from = "Inactive" /\ AllEdges[1].to = "Activating"
      /\ AllEdges[2].from = "Activating" /\ AllEdges[2].to = "Active"
      /\ AllEdges[4].from = "Active" /\ AllEdges[4].to = "Draining"
      /\ AllEdges[5].from = "Draining" /\ AllEdges[5].to = "Retiring"
      /\ AllEdges[7].from = "Retiring" /\ AllEdges[7].to = "Inactive"
  BY DEF AllEdges, Declare
<1>4. /\ "Inactive" \in S => "Activating" \in S
      /\ "Activating" \in S => "Active" \in S
      /\ "Active" \in S => "Draining" \in S
      /\ "Draining" \in S => "Retiring" \in S
      /\ "Retiring" \in S => "Inactive" \in S
  BY <1>2, <1>3
<1> QED BY <1>4 DEF Phases

(* Whatever else a declaration of any size contains, once it is accepted   *)
(* as a lifecycle every phase leads on to every other: no entity gets      *)
(* stuck in a phase that nothing leaves.                                   *)
THEOREM LifecycleGoesOn == LifecycleSpec => []NoPhaseIsFinal
<1>1. LIInv => NoPhaseIsFinal
  BY RequiredCycle DEF LIInv, Accepted, NoPhaseIsFinal
<1> QED BY <1>1, LifecycleInvariance, PTL

(* In an accepted lifecycle with no phases of its own every path from a    *)
(* closed phase back into admission leads through Inactive: looking at     *)
(* single edges is enough.                                                 *)
THEOREM LifecycleStaysClosed == LifecycleSpec => []ReopensOnlyThroughInactive
<1>1. ASSUME LIInv, answer # << >>, answer[1] = "Valid", Declared = Phases
      PROVE  \E S \in SUBSET Phases :
               /\ Closing \subseteq S /\ S \cap Admission = {}
               /\ \A e \in Range(topology.transitions) :
                    e.from \in S \ {"Inactive"} => e.to \in S
  <2> DEFINE S == Closing \cup {"Inactive"}
  <2>1. S \in SUBSET Phases /\ Closing \subseteq S /\ S \cap Admission = {}
    BY DEF Closing, Admission, Phases
  <2>2. ASSUME NEW e \in Range(topology.transitions), e.from \in S \ {"Inactive"}
        PROVE  e.to \in S
    <3>1. e.to \in Phases
      BY <1>1 DEF LIInv, Accepted, WellFormed
    <3>2. e.to \notin Admission
      BY <1>1, <2>2 DEF LIInv, Accepted, Reopening
    <3> QED BY <3>1, <3>2 DEF Closing, Admission, Phases
  <2> QED BY <2>1, <2>2
<1>2. LIInv => ReopensOnlyThroughInactive
  BY <1>1 DEF ReopensOnlyThroughInactive
<1> QED BY <1>2, LifecycleInvariance, PTL
=============================================================================
