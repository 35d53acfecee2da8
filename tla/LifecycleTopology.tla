------------------------- MODULE LifecycleTopology -------------------------
(***************************************************************************)
(* validate_lifecycle_topology (crates/entity/src/lifecycle/machine.rs):   *)
(* the generic validation, then the edges every entity lifecycle needs,    *)
(* then that no edge leads from a closed phase back into admission.        *)
(***************************************************************************)
EXTENDS Topology

VARIABLE answer   \* << >>, or << result, what it is about >>

lifecycleVars == <<vars, answer>>

Phases == {"Inactive", "Activating", "Active", "Draining", "Retiring"}

Triggers == {"ClaimActivation", "Dispatch", "CancelWaiter", "ActivationSucceeded",
             "ActivationFailed", "DeliveryResolved", "BeginDrain",
             "FenceAcknowledged", "ForceDrain", "Terminated"}

Declare(from, trigger, to) == [from |-> from, trigger |-> trigger, to |-> to]

(* LifecycleEdge::ALL, in its order.                                       *)
AllEdges ==
  << Declare("Inactive",   "ClaimActivation",     "Activating"),
     Declare("Activating", "ActivationSucceeded", "Active"),
     Declare("Activating", "ActivationFailed",    "Inactive"),
     Declare("Active",     "BeginDrain",          "Draining"),
     Declare("Draining",   "FenceAcknowledged",   "Retiring"),
     Declare("Draining",   "ForceDrain",          "Retiring"),
     Declare("Retiring",   "Terminated",          "Inactive") >>

(* LIFECYCLE_TOPOLOGY.                                                     *)
LifecycleDeclaration ==
  [initial     |-> "Inactive",
   vertices    |-> << "Inactive", "Activating", "Active", "Draining", "Retiring" >>,
   transitions |-> AllEdges]

Closing == {"Draining", "Retiring"}

Admission == {"Activating", "Active"}

-----------------------------------------------------------------------------
Structure ==
  /\ verdict # << >> /\ verdict[1] # "Valid"
  /\ answer = << >>
  /\ answer' = << "Structure", verdict >>
  /\ UNCHANGED vars

\* defect: an edge counts as present when its source and trigger are
MissingTriggers ==
  {i \in DOMAIN AllEdges :
     ~\E e \in Range(topology.transitions) :
        e.from = AllEdges[i].from /\ e.trigger = AllEdges[i].trigger}

Missing == {i \in DOMAIN AllEdges : AllEdges[i] \notin Range(topology.transitions)}

\* defect: an edge out of Retiring is not looked at
ReopeningFromDraining ==
  \E e \in Range(topology.transitions) : e.from = "Draining" /\ e.to \in Admission

Reopening ==
  \E e \in Range(topology.transitions) : e.from \in Closing /\ e.to \in Admission

CheckLifecycle ==
  /\ verdict # << >> /\ verdict[1] = "Valid"
  /\ answer = << >>
  /\ \/ \E i \in First(Missing) : answer' = << "Missing", AllEdges[i] >>
     \/ Missing = {} /\ Reopening /\ answer' = << "ReopensAdmission", verdict >>
     \/ Missing = {} /\ ~Reopening /\ answer' = << "Valid", verdict >>
  /\ UNCHANGED vars

LifecycleInit == Init /\ answer = << >>

LifecycleNext == (Next /\ UNCHANGED answer) \/ Structure \/ CheckLifecycle

LifecycleSpec == LifecycleInit /\ [][LifecycleNext]_lifecycleVars

-----------------------------------------------------------------------------
(* Once admission has closed, an accepted lifecycle can only get back to   *)
(* it through Inactive, on any path and not only by one edge - as long as  *)
(* it has no phases of its own.                                            *)
ReopensOnlyThroughInactive ==
  answer # << >> /\ answer[1] = "Valid" /\ Declared = Phases =>
    \E S \in SUBSET Phases :
      /\ Closing \subseteq S /\ S \cap Admission = {}
      /\ \A e \in Range(topology.transitions) :
           e.from \in S \ {"Inactive"} => e.to \in S

(* An accepted lifecycle lets every phase go on to every other: no entity  *)
(* can get stuck in a phase that nothing leaves.                           *)
NoPhaseIsFinal ==
  answer # << >> /\ answer[1] = "Valid" =>
    \A S \in SUBSET Phases : S # {} /\ Closed(S) => Phases \subseteq S
=============================================================================
