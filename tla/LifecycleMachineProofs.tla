----------------------- MODULE LifecycleMachineProofs -----------------------
(***************************************************************************)
(* Proofs about LifecycleMachine for every waiter limit, every set of      *)
(* activation and dispatch identities and every bound on reservations: the *)
(* evidence the executable machine reports is honest in every phase, for   *)
(* every fact, whether or not the runtime could produce it, and one        *)
(* reduction conserves the commands and leases it is entrusted with.       *)
(***************************************************************************)
EXTENDS LifecycleMachine, NumberedSequences, FiniteSetTheorems, TLAPS

(* All that the evidence depends on: the phase is one of the five, and an  *)
(* Inactive slot carries nothing.                                          *)
Shaped(s) ==
  /\ s.phase \in Phases
  /\ s.phase = "Inactive" => s = Inactive

(* The three ways a reduction can end.                                     *)
Traverses(s, e, r) ==
  /\ r.slot.phase # s.phase
  /\ Edge(s.phase, e.trigger, r.slot.phase) \in LifecycleEdges
  /\ Handles(s, e) \/ e.trigger = "ClaimActivation"

Loops(s, e, r) == r.slot.phase = s.phase /\ Handles(s, e)

CleansUp(s, e, r) ==
  /\ r.slot = s
  /\ \/ r.effects = << >>
     \/ e.trigger = "DeliveryResolved" /\ r.effects = Rejections(e.failure, "Unavailable")
     \/ e.trigger = "ActivationSucceeded" /\ r.effects = << Retire(e.id, "Forced") >>

Classified(s, e, r) ==
  /\ Shaped(r.slot)
  /\ Traverses(s, e, r) \/ Loops(s, e, r) \/ CleansUp(s, e, r)

LEMMA Shapes ==
  /\ Inactive.phase = "Inactive"
  /\ \A id, ws : Activating(id, ws).phase = "Activating"
  /\ \A id, n : Active(id, n).phase = "Active"
  /\ \A id, n : Draining(id, n).phase = "Draining"
  /\ \A id : Retiring(id).phase = "Retiring"
BY DEF Inactive, Activating, Active, Draining, Retiring, Slot

LEMMA Decided ==
  /\ \A s, fxs : Decision(s, fxs).slot = s /\ Decision(s, fxs).effects = fxs
  /\ \A s : Ignore(s).slot = s /\ Ignore(s).effects = << >>
  /\ \A s, d, reason : Refuse(s, d, reason).slot = s
BY DEF Decision, Ignore, Refuse

LEMMA EventTriggers == \A e \in Events : e.trigger \in Triggers
BY DEF Events, Triggers

-----------------------------------------------------------------------------
(* Phase by phase.                                                         *)

LEMMA InactiveClassified ==
  ASSUME NEW s, Shaped(s), s.phase = "Inactive", NEW e \in Events
  PROVE  Classified(s, e, Reduce(s, e))
<1> DEFINE r == DecideInactive(e)
<1>0. s = Inactive /\ Reduce(s, e) = r
  BY DEF Shaped, Reduce
<1>1. CASE e.trigger = "ClaimActivation"
  <2>1. r.slot = Activating(e.id, << e.d >>)
    BY <1>1, Decided DEF DecideInactive
  <2>2. Edge("Inactive", e.trigger, "Activating") \in LifecycleEdges
    BY <1>1 DEF LifecycleEdges
  <2> QED BY <1>0, <1>1, <2>1, <2>2, Shapes DEF Classified, Shaped, Traverses, Phases
<1>2. CASE e.trigger = "Dispatch"
  <2>1. r.slot = Inactive
    BY <1>2, Decided DEF DecideInactive
  <2> QED BY <1>0, <1>2, <2>1 DEF Classified, Loops, Handles
<1>3. CASE e.trigger \notin {"ClaimActivation", "Dispatch"}
  <2>1. /\ r.slot = Inactive
        /\ \/ r.effects = << >>
           \/ e.trigger = "DeliveryResolved" /\ r.effects = Rejections(e.failure, "Unavailable")
           \/ e.trigger = "ActivationSucceeded" /\ r.effects = << Retire(e.id, "Forced") >>
    BY <1>3, Decided DEF DecideInactive, RetireStale, RejectFailedDelivery
  <2> QED BY <1>0, <2>1 DEF Classified, CleansUp
<1> QED BY <1>1, <1>2, <1>3

LEMMA ActivatingClassified ==
  ASSUME NEW s, s.phase = "Activating", NEW e \in Events
  PROVE  Classified(s, e, Reduce(s, e))
<1> DEFINE r == DecideActivating(s, e)
<1>0. Reduce(s, e) = r /\ Shaped(s) /\ ExactTriggers[s.phase] =
        {"CancelWaiter", "ActivationSucceeded", "ActivationFailed"}
  BY DEF Reduce, Shaped, Phases, ExactTriggers
<1>1. CASE e.trigger = "Dispatch"
  <2>1. r = AdmitWaiter(s, e.d)
    BY <1>1 DEF DecideActivating
  <2>2. r.slot = s \/ r.slot = Activating(s.id, Append(s.waiters, e.d))
    BY <2>1, Decided DEF AdmitWaiter
  <2>3. r.slot.phase = "Activating"
    BY <2>2, Shapes
  <2> HIDE DEF r
  <2> QED BY <1>0, <1>1, <2>3 DEF Classified, Shaped, Phases, Loops, Handles
<1>2. CASE e.trigger = "ClaimActivation"
  <2>1. r.slot = s
    BY <1>2, Decided DEF DecideActivating
  <2> HIDE DEF r
  <2> QED BY <1>0, <1>2, <2>1 DEF Classified, Loops, Handles
<1>3. CASE e.trigger = "CancelWaiter"
  <2>1. r = CancelWaiter(s, e.id, e.d)
    BY <1>3 DEF DecideActivating
  <2>2. CASE e.id = s.id
    <3>1. r.slot.phase = "Activating"
      BY <2>1, <2>2, Decided, Shapes DEF CancelWaiter
    <3> HIDE DEF r
    <3> QED BY <1>0, <1>3, <2>2, <3>1 DEF Classified, Shaped, Phases, Loops, Handles
  <2>3. CASE e.id # s.id
    <3>1. r.slot = s /\ r.effects = << >>
      BY <2>1, <2>3, Decided DEF CancelWaiter
    <3> HIDE DEF r
    <3> QED BY <1>0, <3>1 DEF Classified, CleansUp
  <2> QED BY <2>2, <2>3
<1>4. CASE e.trigger = "ActivationSucceeded"
  <2>1. r = FinishActivation(s, e.id)
    BY <1>4 DEF DecideActivating
  <2>2. CASE e.id = s.id
    <3>1. r.slot.phase = "Active"
      BY <2>1, <2>2, Decided, Shapes DEF FinishActivation
    <3>2. Edge("Activating", e.trigger, "Active") \in LifecycleEdges
      BY <1>4 DEF LifecycleEdges
    <3> HIDE DEF r
    <3> QED BY <1>0, <1>4, <2>2, <3>1, <3>2 DEF Classified, Shaped, Phases, Traverses, Handles
  <2>3. CASE e.id # s.id
    <3>1. r.slot = s /\ r.effects = << Retire(e.id, "Forced") >>
      BY <2>1, <2>3, Decided DEF FinishActivation, RetireStale
    <3> HIDE DEF r
    <3> QED BY <1>0, <1>4, <3>1 DEF Classified, CleansUp
  <2> QED BY <2>2, <2>3
<1>5. CASE e.trigger = "ActivationFailed"
  <2>1. r = FailActivation(s, e.id)
    BY <1>5 DEF DecideActivating
  <2>2. CASE e.id = s.id
    <3>1. r.slot = Inactive
      BY <2>1, <2>2, Decided DEF FailActivation
    <3>2. Edge("Activating", e.trigger, "Inactive") \in LifecycleEdges
      BY <1>5 DEF LifecycleEdges
    <3> HIDE DEF r
    <3> QED BY <1>0, <1>5, <2>2, <3>1, <3>2, Shapes
            DEF Classified, Shaped, Phases, Traverses, Handles
  <2>3. CASE e.id # s.id
    <3>1. r.slot = s /\ r.effects = << >>
      BY <2>1, <2>3, Decided DEF FailActivation
    <3> HIDE DEF r
    <3> QED BY <1>0, <3>1 DEF Classified, CleansUp
  <2> QED BY <2>2, <2>3
<1>6. CASE e.trigger = "DeliveryResolved"
  <2>1. r.slot = s /\ r.effects = Rejections(e.failure, "Unavailable")
    BY <1>6, Decided DEF DecideActivating, RejectFailedDelivery
  <2> HIDE DEF r
  <2> QED BY <1>0, <1>6, <2>1 DEF Classified, CleansUp
<1>7. CASE e.trigger \in {"BeginDrain", "FenceAcknowledged", "ForceDrain", "Terminated"}
  <2>1. r.slot = s /\ r.effects = << >>
    BY <1>7, Decided DEF DecideActivating
  <2> HIDE DEF r
  <2> QED BY <1>0, <2>1 DEF Classified, CleansUp
<1> QED BY <1>1, <1>2, <1>3, <1>4, <1>5, <1>6, <1>7, EventTriggers DEF Triggers

LEMMA ActiveClassified ==
  ASSUME NEW s, s.phase = "Active", NEW e \in Events
  PROVE  Classified(s, e, Reduce(s, e))
<1> DEFINE r == DecideActive(s, e)
<1>0. Reduce(s, e) = r /\ Shaped(s) /\ ExactTriggers[s.phase] = {"DeliveryResolved", "BeginDrain"}
  BY DEF Reduce, Shaped, Phases, ExactTriggers
<1>1. CASE e.trigger = "Dispatch"
  <2>1. r.slot.phase = "Active"
    BY <1>1, Decided, Shapes DEF DecideActive, ReserveDelivery
  <2> HIDE DEF r
  <2> QED BY <1>0, <1>1, <2>1 DEF Classified, Shaped, Phases, Loops, Handles
<1>2. CASE e.trigger = "ClaimActivation"
  <2>1. r.slot = s
    BY <1>2, Decided DEF DecideActive
  <2> HIDE DEF r
  <2> QED BY <1>0, <1>2, <2>1 DEF Classified, Loops, Handles
<1>3. CASE e.trigger = "DeliveryResolved" /\ e.id = s.id
  <2>1. r.slot.phase = "Active"
    BY <1>3, Decided, Shapes DEF DecideActive, ResolveActiveDelivery, RejectFailedDelivery
  <2> HIDE DEF r
  <2> QED BY <1>0, <1>3, <2>1 DEF Classified, Shaped, Phases, Loops, Handles
<1>4. CASE e.trigger = "DeliveryResolved" /\ e.id # s.id
  <2>1. r.slot = s /\ r.effects = Rejections(e.failure, "Unavailable")
    BY <1>4, Decided DEF DecideActive, RejectFailedDelivery
  <2> HIDE DEF r
  <2> QED BY <1>0, <1>4, <2>1 DEF Classified, CleansUp
<1>5. CASE e.trigger = "BeginDrain" /\ e.id = s.id
  <2>1. r.slot.phase = "Draining"
    BY <1>5, Decided, Shapes DEF DecideActive, BeginDrain
  <2>2. Edge("Active", e.trigger, "Draining") \in LifecycleEdges
    BY <1>5 DEF LifecycleEdges
  <2> HIDE DEF r
  <2> QED BY <1>0, <1>5, <2>1, <2>2 DEF Classified, Shaped, Phases, Traverses, Handles
<1>6. CASE e.trigger = "ActivationSucceeded"
  <2>1. r.slot = s /\ r.effects = << Retire(e.id, "Forced") >>
    BY <1>6, Decided DEF DecideActive, RetireStale
  <2> HIDE DEF r
  <2> QED BY <1>0, <1>6, <2>1 DEF Classified, CleansUp
<1>7. CASE \/ e.trigger = "BeginDrain" /\ e.id # s.id
           \/ e.trigger \in {"CancelWaiter", "ActivationFailed", "FenceAcknowledged",
                             "ForceDrain", "Terminated"}
  <2>1. r.slot = s /\ r.effects = << >>
    BY <1>7, Decided DEF DecideActive
  <2> HIDE DEF r
  <2> QED BY <1>0, <2>1 DEF Classified, CleansUp
<1> QED BY <1>1, <1>2, <1>3, <1>4, <1>5, <1>6, <1>7, EventTriggers DEF Triggers

LEMMA DrainingClassified ==
  ASSUME NEW s, s.phase = "Draining", NEW e \in Events
  PROVE  Classified(s, e, Reduce(s, e))
<1> DEFINE r == DecideDraining(s, e)
<1>0. Reduce(s, e) = r /\ Shaped(s) /\ ExactTriggers[s.phase] =
        {"DeliveryResolved", "FenceAcknowledged", "ForceDrain"}
  BY DEF Reduce, Shaped, Phases, ExactTriggers
<1>1. CASE e.trigger \in {"Dispatch", "ClaimActivation"}
  <2>1. r.slot = s
    BY <1>1, Decided DEF DecideDraining
  <2> HIDE DEF r
  <2> QED BY <1>0, <1>1, <2>1 DEF Classified, Loops, Handles
<1>2. CASE e.trigger = "DeliveryResolved" /\ e.id = s.id
  <2>1. r.slot.phase = "Draining"
    BY <1>2, Decided, Shapes DEF DecideDraining, ResolveDrainingDelivery
  <2> HIDE DEF r
  <2> QED BY <1>0, <1>2, <2>1 DEF Classified, Shaped, Phases, Loops, Handles
<1>3. CASE e.trigger = "DeliveryResolved" /\ e.id # s.id
  <2>1. r.slot = s /\ r.effects = Rejections(e.failure, "Unavailable")
    BY <1>3, Decided DEF DecideDraining, RejectFailedDelivery
  <2> HIDE DEF r
  <2> QED BY <1>0, <1>3, <2>1 DEF Classified, CleansUp
<1>4. CASE e.trigger = "FenceAcknowledged" /\ e.id = s.id
  <2>1. r.slot = s \/ r.slot.phase = "Retiring"
    BY <1>4, Decided, Shapes DEF DecideDraining, AcknowledgeFence
  <2>2. Edge("Draining", e.trigger, "Retiring") \in LifecycleEdges
    BY <1>4 DEF LifecycleEdges
  <2> HIDE DEF r
  <2> QED BY <1>0, <1>4, <2>1, <2>2 DEF Classified, Shaped, Phases, Traverses, Loops, Handles
<1>5. CASE e.trigger = "ForceDrain" /\ e.id = s.id
  <2>1. r.slot.phase = "Retiring"
    BY <1>5, Decided, Shapes DEF DecideDraining, ForceDrain
  <2>2. Edge("Draining", e.trigger, "Retiring") \in LifecycleEdges
    BY <1>5 DEF LifecycleEdges
  <2> HIDE DEF r
  <2> QED BY <1>0, <1>5, <2>1, <2>2 DEF Classified, Shaped, Phases, Traverses, Handles
<1>6. CASE e.trigger = "ActivationSucceeded"
  <2>1. r.slot = s /\ r.effects = << Retire(e.id, "Forced") >>
    BY <1>6, Decided DEF DecideDraining, RetireStale
  <2> HIDE DEF r
  <2> QED BY <1>0, <1>6, <2>1 DEF Classified, CleansUp
<1>7. CASE \/ e.trigger \in {"FenceAcknowledged", "ForceDrain"} /\ e.id # s.id
           \/ e.trigger \in {"CancelWaiter", "ActivationFailed", "BeginDrain", "Terminated"}
  <2>1. r.slot = s /\ r.effects = << >>
    BY <1>7, Decided DEF DecideDraining
  <2> HIDE DEF r
  <2> QED BY <1>0, <2>1 DEF Classified, CleansUp
<1> QED BY <1>1, <1>2, <1>3, <1>4, <1>5, <1>6, <1>7, EventTriggers DEF Triggers

LEMMA RetiringClassified ==
  ASSUME NEW s, s.phase = "Retiring", NEW e \in Events
  PROVE  Classified(s, e, Reduce(s, e))
<1> DEFINE r == DecideRetiring(s, e)
<1>0. Reduce(s, e) = r /\ Shaped(s) /\ ExactTriggers[s.phase] = {"Terminated"}
  BY DEF Reduce, Shaped, Phases, ExactTriggers
<1>1. CASE e.trigger = "Terminated" /\ e.id = s.id
  <2>1. r.slot = Inactive
    BY <1>1, Decided DEF DecideRetiring
  <2>2. Edge("Retiring", e.trigger, "Inactive") \in LifecycleEdges
    BY <1>1 DEF LifecycleEdges
  <2> HIDE DEF r
  <2> QED BY <1>0, <1>1, <2>1, <2>2, Shapes DEF Classified, Shaped, Phases, Traverses, Handles
<1>2. CASE e.trigger \in {"Dispatch", "ClaimActivation"}
  <2>1. r.slot = s
    BY <1>2, Decided DEF DecideRetiring
  <2> HIDE DEF r
  <2> QED BY <1>0, <1>2, <2>1 DEF Classified, Loops, Handles
<1>3. CASE \/ e.trigger = "Terminated" /\ e.id # s.id
           \/ e.trigger \notin {"Terminated", "Dispatch", "ClaimActivation"}
  <2>1. /\ r.slot = s
        /\ \/ r.effects = << >>
           \/ e.trigger = "DeliveryResolved" /\ r.effects = Rejections(e.failure, "Unavailable")
           \/ e.trigger = "ActivationSucceeded" /\ r.effects = << Retire(e.id, "Forced") >>
    BY <1>3, Decided DEF DecideRetiring, RetireStale, RejectFailedDelivery
  <2> HIDE DEF r
  <2> QED BY <1>0, <2>1 DEF Classified, CleansUp
<1> QED BY <1>1, <1>2, <1>3

LEMMA ReductionClassified ==
  ASSUME NEW s, Shaped(s), NEW e \in Events
  PROVE  Classified(s, e, Reduce(s, e))
BY InactiveClassified, ActivatingClassified, ActiveClassified, DrainingClassified,
   RetiringClassified DEF Shaped, Phases

-----------------------------------------------------------------------------
LEMMA EvidenceOf ==
  ASSUME NEW s, NEW e, NEW r, r = Reduce(s, e), Classified(s, e, r)
  PROVE  /\ Evidence(s, e) # "Undeclared"
         /\ Evidence(s, e) = "Traversed" => Traverses(s, e, r)
         /\ Evidence(s, e) = "Ignored" => CleansUp(s, e, r)
<1>1. CASE s.phase # r.slot.phase
  <2>1. Traverses(s, e, r)
    BY <1>1 DEF Classified, Loops, CleansUp
  <2>2. Evidence(s, e) = "Traversed"
    BY <1>1, <2>1 DEF Evidence, Traverses
  <2> QED BY <2>1, <2>2
<1>2. CASE s.phase = r.slot.phase
  <2>1. Evidence(s, e) \in {"SelfLoop", "Ignored"} /\ (Evidence(s, e) = "Ignored" => ~Handles(s, e))
    BY <1>2 DEF Evidence
  <2> QED BY <1>2, <2>1 DEF Classified, Traverses, Loops
<1> QED BY <1>1, <1>2

(* What a clean-up emits is the fact's own command or lease.               *)
LEMMA CleanUpOwn ==
  ASSUME NEW s, NEW e \in Events, NEW r, CleansUp(s, e, r)
  PROVE  \A fx \in Range(r.effects) :
           \/ fx.type = "Reject" /\ e.trigger = "DeliveryResolved" /\ << fx.d >> = e.failure
           \/ fx.type = "Retire" /\ e.trigger = "ActivationSucceeded" /\ fx.id = e.id
<1>1. CASE r.effects = << >>
  BY <1>1 DEF Range
<1>2. CASE e.trigger = "DeliveryResolved" /\ r.effects = Rejections(e.failure, "Unavailable")
  <2>1. e.failure \in Failures
    BY <1>2 DEF Events
  <2>2. CASE e.failure = << >>
    BY <1>2, <2>2 DEF Range, Rejections
  <2>3. ASSUME NEW d \in Dispatches, e.failure = << d >>, NEW fx \in Range(r.effects)
        PROVE  fx.type = "Reject" /\ << fx.d >> = e.failure
    <3>1. fx = Reject(d, "Unavailable")
      BY <1>2, <2>3 DEF Range, Rejections
    <3> QED BY <2>3, <3>1 DEF Reject
  <2>4. CASE e.failure # << >>
    <3>1. PICK d \in Dispatches : e.failure = << d >>
      BY <2>1, <2>4 DEF Failures
    <3> QED BY <1>2, <2>3, <3>1
  <2> QED BY <2>2, <2>4
<1>3. CASE e.trigger = "ActivationSucceeded" /\ r.effects = << Retire(e.id, "Forced") >>
  <2>1. Range(r.effects) = {Retire(e.id, "Forced")}
    BY <1>3 DEF Range
  <2> QED BY <1>3, <2>1 DEF Retire
<1> QED BY <1>1, <1>2, <1>3 DEF CleansUp

IInv == Shaped(slot) /\ EvidenceHonest

LEMMA StepHonest ==
  ASSUME Shaped(slot), NEW e \in Events, Step(e)
  PROVE  IInv'
<1> DEFINE r == Reduce(slot, e)
<1>0. Classified(slot, e, r)
  BY ReductionClassified
<1>1. /\ slot' = r.slot /\ input' = e
      /\ output'.effects = r.effects /\ output'.evidence = Evidence(slot, e)
      /\ output'.from = slot
  BY DEF Step
<1>2. Shaped(slot')
  BY <1>0, <1>1 DEF Classified
<1>3. /\ Evidence(slot, e) # "Undeclared"
      /\ Evidence(slot, e) = "Traversed" => Traverses(slot, e, r)
      /\ Evidence(slot, e) = "Ignored" => CleansUp(slot, e, r)
  BY <1>0, EvidenceOf
<1> HIDE DEF r
<1>4. EdgesDeclared'
  BY <1>1, <1>3 DEF EdgesDeclared, Traverses
<1>5. IgnoredIsInert'
  <2> SUFFICES ASSUME CleansUp(slot, e, r) PROVE IgnoredIsInert'
    BY <1>1, <1>3 DEF IgnoredIsInert
  <2>1. slot' = output'.from
    BY <1>1 DEF CleansUp
  <2>2. \A fx \in Range(output'.effects) :
           \/ fx.type = "Reject" /\ input'.trigger = "DeliveryResolved" /\ << fx.d >> = input'.failure
           \/ fx.type = "Retire" /\ input'.trigger = "ActivationSucceeded" /\ fx.id = input'.id
    <3>1. \A fx \in Range(r.effects) :
             \/ fx.type = "Reject" /\ e.trigger = "DeliveryResolved" /\ << fx.d >> = e.failure
             \/ fx.type = "Retire" /\ e.trigger = "ActivationSucceeded" /\ fx.id = e.id
      BY CleanUpOwn
    <3>2. output'.effects = r.effects /\ input' = e
      BY <1>1
    <3> QED BY <3>1, <3>2
  <2> QED BY <2>1, <2>2 DEF IgnoredIsInert, Kind
<1> QED BY <1>2, <1>4, <1>5 DEF IInv, EvidenceHonest

(* Evidence is honest, whatever fact arrives in whatever phase: no change  *)
(* of phase lacks its edge, and nothing called ignored changed the slot or *)
(* emitted more than the return of what the fact itself had brought.       *)
THEOREM EvidenceIsHonest == Spec => []EvidenceHonest
<1>1. Init => IInv
  BY Shapes DEF Init, IInv, Shaped, Phases, EvidenceHonest, EdgesDeclared, IgnoredIsInert, Stepped
<1>2. IInv /\ [Next]_vars => IInv'
  <2> SUFFICES ASSUME IInv, [Next]_vars PROVE IInv'
    OBVIOUS
  <2>1. ASSUME NEW e \in Events, Step(e) PROVE IInv'
    BY <2>1, StepHonest DEF IInv
  <2>2. CASE UNCHANGED vars
    BY <2>2 DEF vars, IInv, Shaped, EvidenceHonest, EdgesDeclared, IgnoredIsInert, Stepped, Kind
  <2> QED BY <2>1, <2>2 DEF Next
<1>3. IInv => EvidenceHonest
  BY DEF IInv
<1> QED BY <1>1, <1>2, <1>3, PTL DEF Spec
-----------------------------------------------------------------------------
(* What a batch of effects carries.                                        *)

LEMMA CountOnce ==
  ASSUME NEW S, NEW ws \in Seq(S), IsInjective(ws), NEW d
  PROVE  Count(ws, d) = IF d \in Range(ws) THEN 1 ELSE 0
<1> DEFINE I == {i \in DOMAIN ws : ws[i] = d}
<1>1. CASE d \in Range(ws)
  <2>1. PICK k \in DOMAIN ws : ws[k] = d
    BY <1>1 DEF Range
  <2>2. I = {k}
    BY <2>1 DEF IsInjective
  <2>3. Cardinality({k}) = 1
    BY FS_Singleton
  <2> QED BY <1>1, <2>2, <2>3 DEF Count
<1>2. CASE d \notin Range(ws)
  <2>1. I = {}
    BY <1>2 DEF Range
  <2> QED BY <1>2, <2>1, FS_EmptySet DEF Count
<1> QED BY <1>1, <1>2

LEMMA CountNone == \A d : Count(<< >>, d) = 0
BY FS_EmptySet DEF Count

LEMMA CountSingle == \A x, d : Count(<< x >>, d) = IF d = x THEN 1 ELSE 0
<1> SUFFICES ASSUME NEW x, NEW d PROVE Count(<< x >>, d) = IF d = x THEN 1 ELSE 0
  OBVIOUS
<1>1. d \in Range(<< x >>) <=> d = x
  BY DEF Range
<1>2. << x >> \in Seq({x}) /\ IsInjective(<< x >>)
  BY SingleWaiter
<1> QED BY <1>1, <1>2, CountOnce

(* A batch without commands, leases or fences.                             *)
Idle(effects) ==
  /\ \A d : Returned(effects, d) = 0
  /\ \A id : Retired(effects, id) = 0
  /\ FencesIn(effects) = {}

(* A batch that gives back the commands ds and does nothing else of note.  *)
GivesBack(effects, ds) ==
  /\ \A d : Returned(effects, d) = Count(ds, d)
  /\ \A id : Retired(effects, id) = 0
  /\ FencesIn(effects) = {}

LEMMA IdleBatches ==
  /\ Idle(<< >>)
  /\ \A id : Idle(<< StartActivation(id) >>)
  /\ \A id : Idle(<< RemoveEntry(id) >>)
<1> SUFFICES ASSUME NEW id
             PROVE  Idle(<< >>) /\ Idle(<< StartActivation(id) >>) /\ Idle(<< RemoveEntry(id) >>)
  OBVIOUS
<1>1. ASSUME NEW fxs,
             \A i \in DOMAIN fxs : fxs[i].type \in {"StartActivation", "Remove"}
      PROVE  Idle(fxs)
  <2>1. ASSUME NEW d
        PROVE  {i \in DOMAIN fxs : fxs[i].type \in {"Deliver", "Reject"} /\ fxs[i].d = d} = {}
    BY <1>1
  <2>2. ASSUME NEW a
        PROVE  {i \in DOMAIN fxs : fxs[i].type = "Retire" /\ fxs[i].id = a} = {}
    BY <1>1
  <2>3. FencesIn(fxs) = {}
    BY <1>1 DEF FencesIn
  <2> QED BY <2>1, <2>2, <2>3, FS_EmptySet DEF Idle, Returned, Retired
<1> QED BY <1>1 DEF StartActivation, RemoveEntry

LEMMA BatchGivesBack ==
  ASSUME NEW ds, NEW fxs, DOMAIN ds \subseteq DOMAIN fxs,
         \A i \in DOMAIN ds : fxs[i].type \in {"Deliver", "Reject"} /\ fxs[i].d = ds[i],
         \A i \in DOMAIN fxs \ DOMAIN ds : fxs[i].type = "Remove"
  PROVE  GivesBack(fxs, ds)
<1>1. ASSUME NEW d
      PROVE  {i \in DOMAIN fxs : fxs[i].type \in {"Deliver", "Reject"} /\ fxs[i].d = d}
               = {i \in DOMAIN ds : ds[i] = d}
  OBVIOUS
<1>2. ASSUME NEW a
      PROVE  {i \in DOMAIN fxs : fxs[i].type = "Retire" /\ fxs[i].id = a} = {}
  OBVIOUS
<1>3. FencesIn(fxs) = {}
  BY DEF FencesIn
<1> QED BY <1>1, <1>2, <1>3, FS_EmptySet DEF GivesBack, Returned, Retired, Count

LEMMA RejectionsGiveBack ==
  ASSUME NEW ds, NEW reason
  PROVE  GivesBack(Rejections(ds, reason), ds)
<1>1. DOMAIN Rejections(ds, reason) = DOMAIN ds
  BY DEF Rejections
<1>2. \A i \in DOMAIN ds : Rejections(ds, reason)[i].type = "Reject"
                           /\ Rejections(ds, reason)[i].d = ds[i]
  BY DEF Rejections, Reject
<1> QED BY <1>1, <1>2, BatchGivesBack

LEMMA DeliveriesGiveBack ==
  ASSUME NEW ds, NEW id
  PROVE  GivesBack(Deliveries(id, ds), ds)
<1>1. DOMAIN Deliveries(id, ds) = DOMAIN ds
  BY DEF Deliveries
<1>2. \A i \in DOMAIN ds : Deliveries(id, ds)[i].type = "Deliver"
                           /\ Deliveries(id, ds)[i].d = ds[i]
  BY DEF Deliveries, Deliver
<1> QED BY <1>1, <1>2, BatchGivesBack

LEMMA FailureGivesBack ==
  ASSUME NEW S, NEW ds \in Seq(S), NEW id
  PROVE  GivesBack(Append(Rejections(ds, "Unavailable"), RemoveEntry(id)), ds)
<1> DEFINE rs == Rejections(ds, "Unavailable")
           fx == RemoveEntry(id)
<1>1. /\ rs \in Seq({Reject(d, "Unavailable") : d \in S}) /\ Len(rs) = Len(ds)
      /\ DOMAIN rs = DOMAIN ds
  BY DEF Rejections
<1>2. \A i \in DOMAIN ds : rs[i].type = "Reject" /\ rs[i].d = ds[i]
  BY DEF Rejections, Reject
<1>3. fx.type = "Remove"
  BY DEF RemoveEntry
<1> HIDE DEF rs, fx
<1>4. /\ DOMAIN Append(rs, fx) = 1 .. Len(ds) + 1 /\ DOMAIN ds = 1 .. Len(ds)
      /\ Len(ds) \in Nat
      /\ \A i \in 1 .. Len(ds) : Append(rs, fx)[i] = rs[i]
      /\ Append(rs, fx)[Len(ds) + 1] = fx
  BY <1>1
<1>5. DOMAIN Append(rs, fx) \ DOMAIN ds = {Len(ds) + 1}
  BY <1>4
<1>6. GivesBack(Append(rs, fx), ds)
  <2> DEFINE fxs == Append(rs, fx)
  <2>1. DOMAIN ds \subseteq DOMAIN fxs
    BY <1>4
  <2>2. \A i \in DOMAIN ds : fxs[i].type \in {"Deliver", "Reject"} /\ fxs[i].d = ds[i]
    BY <1>2, <1>4
  <2>3. \A i \in DOMAIN fxs \ DOMAIN ds : fxs[i].type = "Remove"
    BY <1>3, <1>4, <1>5
  <2> HIDE DEF fxs
  <2>4. GivesBack(fxs, ds)
    BY <2>1, <2>2, <2>3, BatchGivesBack
  <2> QED BY <2>4 DEF fxs
<1> QED BY <1>6 DEF rs, fx

LEMMA SingleGivesBack ==
  /\ \A d, reason : GivesBack(<< Reject(d, reason) >>, << d >>)
  /\ \A d, id : GivesBack(<< Deliver(id, d) >>, << d >>)
<1> SUFFICES ASSUME NEW d, NEW reason, NEW id
             PROVE  /\ GivesBack(<< Reject(d, reason) >>, << d >>)
                    /\ GivesBack(<< Deliver(id, d) >>, << d >>)
  OBVIOUS
<1>1. ASSUME NEW fx, fx.type \in {"Deliver", "Reject"}, fx.d = d
      PROVE  GivesBack(<< fx >>, << d >>)
  <2>1. DOMAIN << fx >> = DOMAIN << d >>
    OBVIOUS
  <2>2. \A i \in DOMAIN << d >> : << fx >>[i] = fx /\ << d >>[i] = d
    OBVIOUS
  <2> QED BY <1>1, <2>1, <2>2, BatchGivesBack
<1> QED BY <1>1 DEF Reject, Deliver

(* A batch that only hands lease id to a retirement.                       *)
LEMMA RetiresOne ==
  ASSUME NEW id, NEW mode
  PROVE  /\ \A d : Returned(<< Retire(id, mode) >>, d) = 0
         /\ \A a : Retired(<< Retire(id, mode) >>, a) = IF a = id THEN 1 ELSE 0
         /\ FencesIn(<< Retire(id, mode) >>) = {}
<1> DEFINE fxs == << Retire(id, mode) >>
<1>1. DOMAIN fxs = {1} /\ fxs[1].type = "Retire" /\ fxs[1].id = id
  BY DEF Retire
<1> HIDE DEF fxs
<1>2. ASSUME NEW d
      PROVE  {i \in DOMAIN fxs : fxs[i].type \in {"Deliver", "Reject"} /\ fxs[i].d = d} = {}
  BY <1>1
<1>3. ASSUME NEW a
      PROVE  {i \in DOMAIN fxs : fxs[i].type = "Retire" /\ fxs[i].id = a}
               = IF a = id THEN {1} ELSE {}
  BY <1>1
<1>4. FencesIn(fxs) = {}
  BY <1>1 DEF FencesIn
<1>5. Cardinality({1}) = 1 /\ Cardinality({}) = 0
  BY FS_EmptySet, FS_Singleton
<1>6. /\ \A d : Returned(fxs, d) = 0
      /\ \A a : Retired(fxs, a) = IF a = id THEN 1 ELSE 0
  BY <1>2, <1>3, <1>5 DEF Returned, Retired
<1> QED BY <1>4, <1>6 DEF fxs

LEMMA ConcatFew ==
  /\ \A a : << >> \o << a >> = << a >>
  /\ \A a, b : LET s == << a >> \o << b >>
               IN  Len(s) = 2 /\ DOMAIN s = 1 .. 2 /\ s[1] = a /\ s[2] = b
<1>1. ASSUME NEW a PROVE << >> \o << a >> = << a >>
  OBVIOUS
<1>2. ASSUME NEW a, NEW b
      PROVE  LET s == << a >> \o << b >>
             IN  Len(s) = 2 /\ DOMAIN s = 1 .. 2 /\ s[1] = a /\ s[2] = b
  <2>1. << a >> \in Seq({a, b}) /\ << b >> \in Seq({a, b})
    OBVIOUS
  <2> QED BY <2>1
<1> QED BY <1>1, <1>2

(* A batch that gives back ds, which holds one command at most, and then   *)
(* requests the fence.                                                     *)
LEMMA FencesLast ==
  ASSUME NEW ds \in Failures, NEW id
  PROVE  LET fxs == Rejections(ds, "Unavailable") \o << EnqueueFence(id) >>
         IN  /\ \A d : Returned(fxs, d) = Count(ds, d)
             /\ \A a : Retired(fxs, a) = 0
             /\ FencesIn(fxs) = {Len(fxs)}
             /\ Last(fxs) = EnqueueFence(id)
<1> DEFINE fxs == Rejections(ds, "Unavailable") \o << EnqueueFence(id) >>
           n == Len(ds)
<1>1. n \in {0, 1} /\ DOMAIN ds = 1 .. n
  BY DEF Failures
<1>2. /\ Len(fxs) = n + 1 /\ DOMAIN fxs = 1 .. n + 1
      /\ fxs[n + 1] = EnqueueFence(id)
      /\ \A i \in 1 .. n : fxs[i] = Reject(ds[i], "Unavailable")
  <2>1. CASE ds = << >>
    <3>1. Rejections(ds, "Unavailable") = << >>
      BY <2>1 DEF Rejections
    <3>2. fxs = << EnqueueFence(id) >>
      BY <3>1, ConcatFew
    <3> QED BY <2>1, <3>2
  <2>2. ASSUME NEW x, ds = << x >>
        PROVE  /\ Len(fxs) = n + 1 /\ DOMAIN fxs = 1 .. n + 1
               /\ fxs[n + 1] = EnqueueFence(id)
               /\ \A i \in 1 .. n : fxs[i] = Reject(ds[i], "Unavailable")
    <3>1. Rejections(ds, "Unavailable") = << Reject(x, "Unavailable") >>
      BY <2>2 DEF Rejections
    <3> DEFINE a == Reject(x, "Unavailable")
               b == EnqueueFence(id)
    <3>2. fxs = << a >> \o << b >>
      BY <3>1
    <3>3. n = 1 /\ ds[1] = x
      BY <2>2
    <3> HIDE DEF fxs, a, b, n
    <3>4. /\ Len(fxs) = 2 /\ DOMAIN fxs = 1 .. 2
          /\ fxs[2] = b /\ fxs[1] = a
      BY <3>2, ConcatFew
    <3>5. n + 1 = 2 /\ 1 .. n = {1}
      BY <3>3
    <3> QED BY <3>3, <3>4, <3>5 DEF a, b
  <2> QED BY <2>1, <2>2 DEF Failures
<1> HIDE DEF fxs, n
<1>3. /\ fxs[n + 1].type = "EnqueueFence"
      /\ \A i \in 1 .. n : fxs[i].type = "Reject" /\ fxs[i].d = ds[i]
  <2>1. EnqueueFence(id).type = "EnqueueFence"
    BY DEF EnqueueFence
  <2>2. \A d : Reject(d, "Unavailable").type = "Reject" /\ Reject(d, "Unavailable").d = d
    BY DEF Reject
  <2> QED BY <1>2, <2>1, <2>2
<1>4. ASSUME NEW d
      PROVE  {i \in DOMAIN fxs : fxs[i].type \in {"Deliver", "Reject"} /\ fxs[i].d = d}
               = {i \in DOMAIN ds : ds[i] = d}
  BY <1>1, <1>2, <1>3
<1>5. ASSUME NEW a
      PROVE  {i \in DOMAIN fxs : fxs[i].type = "Retire" /\ fxs[i].id = a} = {}
  BY <1>1, <1>2, <1>3
<1>6. FencesIn(fxs) = {Len(fxs)}
  BY <1>1, <1>2, <1>3 DEF FencesIn
<1>7. Last(fxs) = EnqueueFence(id)
  BY <1>2 DEF Last
<1>8. (\A d : Returned(fxs, d) = Count(ds, d)) /\ (\A a : Retired(fxs, a) = 0)
  BY <1>4, <1>5, FS_EmptySet DEF Returned, Retired, Count
<1> QED BY <1>6, <1>7, <1>8 DEF fxs
-----------------------------------------------------------------------------
(* One reduction conserves what it is entrusted with.                      *)

LEMMA CountType ==
  ASSUME NEW S, NEW ds \in Seq(S), NEW d
  PROVE  Count(ds, d) \in Nat
<1>1. IsFiniteSet(1 .. Len(ds))
  BY FS_Interval
<1>2. {i \in DOMAIN ds : ds[i] = d} \subseteq 1 .. Len(ds)
  OBVIOUS
<1> QED BY <1>1, <1>2, FS_Subset, FS_CardinalityType DEF Count

LEMMA FailureType ==
  ASSUME NEW ds \in Failures
  PROVE  ds \in Seq(Dispatches)
<1>1. CASE ds = << >>
  BY <1>1
<1>2. ASSUME NEW d \in Dispatches, ds = << d >> PROVE ds \in Seq(Dispatches)
  BY <1>2
<1> QED BY <1>1, <1>2 DEF Failures

(* The slots a run of the machine goes through: a waiter waits once, and   *)
(* only while its activation is under way.                                 *)
Well(s) ==
  /\ Shaped(s)
  /\ s.waiters \in Seq(Dispatches) /\ IsInjective(s.waiters)
  /\ s.phase # "Activating" => s.waiters = << >>
  /\ s.reservations \in Nat

OwnCommand(e) ==
  CASE e.trigger \in {"ClaimActivation", "Dispatch"} -> << e.d >>
    [] e.trigger = "DeliveryResolved"                -> e.failure
    [] OTHER                                         -> << >>

OwnLease(e) == IF e.trigger = "ActivationSucceeded" THEN << e.id >> ELSE << >>

Dropped(s, e, d) ==
  IF e.trigger = "CancelWaiter" /\ e.d = d /\ e.id = s.id /\ d \in Range(s.waiters)
  THEN 1 ELSE 0

Awaits(s) == s.phase = "Draining" /\ s.reservations = 0

KeepsCommands(s, e, r) ==
  \A d \in Dispatches :
    Count(s.waiters, d) + Count(OwnCommand(e), d)
      = Count(r.slot.waiters, d) + Returned(r.effects, d) + Dropped(s, e, d)

KeepsLeases(s, e, r) ==
  \A id \in Ids :
    Count(LeaseOf(s), id) + Count(OwnLease(e), id)
      = Count(LeaseOf(r.slot), id) + Retired(r.effects, id)

KeepsFence(s, r) ==
  IF Awaits(r.slot) /\ ~Awaits(s)
  THEN /\ FencesIn(r.effects) = {Len(r.effects)}
       /\ Last(r.effects) = EnqueueFence(r.slot.id)
  ELSE FencesIn(r.effects) = {}

Conserves(s, e, r) ==
  Well(r.slot) /\ KeepsCommands(s, e, r) /\ KeepsLeases(s, e, r) /\ KeepsFence(s, r)

LEMMA WellShapes ==
  /\ Well(Inactive) /\ LeaseOf(Inactive) = << >> /\ Inactive.waiters = << >>
  /\ \A id, ws : /\ Activating(id, ws).phase = "Activating"
                 /\ Activating(id, ws).waiters = ws
                 /\ LeaseOf(Activating(id, ws)) = << >>
                 /\ ws \in Seq(Dispatches) /\ IsInjective(ws) => Well(Activating(id, ws))
  /\ \A id, n : /\ Active(id, n).phase = "Active"
                /\ Active(id, n).waiters = << >> /\ LeaseOf(Active(id, n)) = << id >>
                /\ n \in Nat => Well(Active(id, n))
  /\ \A id, n : /\ Draining(id, n).phase = "Draining" /\ Draining(id, n).id = id
                /\ Draining(id, n).reservations = n
                /\ Draining(id, n).waiters = << >> /\ LeaseOf(Draining(id, n)) = << id >>
                /\ n \in Nat => Well(Draining(id, n))
  /\ \A id : /\ Retiring(id).phase = "Retiring"
             /\ Retiring(id).waiters = << >> /\ LeaseOf(Retiring(id)) = << >>
             /\ Well(Retiring(id))
<1>1. << >> \in Seq(Dispatches) /\ IsInjective(<< >>)
  BY NoWaiters
<1> QED
  BY <1>1 DEF Well, Shaped, Phases, LeaseOf, Inactive, Activating, Active, Draining,
              Retiring, Slot

LEMMA ActivatingShape ==
  ASSUME NEW id, NEW ws, ws \in Seq(Dispatches), IsInjective(ws)
  PROVE  LET t == Activating(id, ws)
         IN  t.waiters = ws /\ Well(t) /\ LeaseOf(t) = << >> /\ t.phase = "Activating"
BY WellShapes

LEMMA LeaseCount == \A s, id : Count(LeaseOf(s), id) \in Nat
BY CountNone, CountSingle DEF LeaseOf

(* The commands and leases facts bring along.                              *)
LEMMA FactTypes ==
  ASSUME NEW e \in Events
  PROVE  /\ e.trigger \in {"ClaimActivation", "Dispatch", "CancelWaiter"} => e.d \in Dispatches
         /\ e.trigger = "DeliveryResolved" => e.failure \in Failures
BY DEF Events

-----------------------------------------------------------------------------
(* The ways a fact is turned away.                                         *)

LEMMA NothingCarried ==
  ASSUME NEW s, Well(s), NEW e \in Events, NEW r, r.slot = s, r.effects = << >>,
         e.trigger \in Triggers \ {"ClaimActivation", "Dispatch", "DeliveryResolved",
                                   "ActivationSucceeded"},
         e.trigger = "CancelWaiter" => s.phase # "Activating" \/ e.id # s.id
  PROVE  Conserves(s, e, r)
<1>1. OwnCommand(e) = << >> /\ OwnLease(e) = << >>
  BY DEF OwnCommand, OwnLease
<1>2. \A d : Dropped(s, e, d) = 0
  BY DEF Dropped, Well, Range
<1>3. /\ \A d : Returned(r.effects, d) = 0
      /\ \A id : Retired(r.effects, id) = 0
      /\ FencesIn(r.effects) = {}
  BY IdleBatches DEF Idle
<1>4. \A d : Count(s.waiters, d) \in Nat
  BY CountType DEF Well
<1>5. KeepsCommands(s, e, r)
  BY <1>1, <1>2, <1>3, <1>4, CountNone DEF KeepsCommands
<1>6. KeepsLeases(s, e, r)
  BY <1>1, <1>3, LeaseCount, CountNone DEF KeepsLeases
<1> QED BY <1>3, <1>5, <1>6 DEF Conserves, KeepsFence

LEMMA CommandRefused ==
  ASSUME NEW s, Well(s), NEW e \in Events, NEW r, r.slot = s, NEW reason,
         r.effects = << Reject(e.d, reason) >>,
         e.trigger \in {"ClaimActivation", "Dispatch"}
  PROVE  Conserves(s, e, r)
<1>1. OwnCommand(e) = << e.d >> /\ OwnLease(e) = << >>
  BY DEF OwnCommand, OwnLease
<1>2. \A d : Dropped(s, e, d) = 0
  BY DEF Dropped
<1>3. /\ \A d : Returned(r.effects, d) = Count(<< e.d >>, d)
      /\ \A id : Retired(r.effects, id) = 0
      /\ FencesIn(r.effects) = {}
  BY SingleGivesBack DEF GivesBack
<1>4. \A d : Count(s.waiters, d) \in Nat
  BY CountType DEF Well
<1>5. KeepsCommands(s, e, r)
  BY <1>1, <1>2, <1>3, <1>4, CountSingle DEF KeepsCommands
<1>6. KeepsLeases(s, e, r)
  BY <1>1, <1>3, LeaseCount, CountNone DEF KeepsLeases
<1> QED BY <1>3, <1>5, <1>6 DEF Conserves, KeepsFence

LEMMA LeaseTurnedAway ==
  ASSUME NEW s, Well(s), NEW e \in Events, NEW r, r.slot = s,
         r.effects = << Retire(e.id, "Forced") >>, e.trigger = "ActivationSucceeded"
  PROVE  Conserves(s, e, r)
<1>1. OwnCommand(e) = << >> /\ OwnLease(e) = << e.id >>
  BY DEF OwnCommand, OwnLease
<1>2. \A d : Dropped(s, e, d) = 0
  BY DEF Dropped
<1>3. /\ \A d : Returned(r.effects, d) = 0
      /\ \A id : Retired(r.effects, id) = IF id = e.id THEN 1 ELSE 0
      /\ FencesIn(r.effects) = {}
  BY RetiresOne
<1>4. \A d : Count(s.waiters, d) \in Nat
  BY CountType DEF Well
<1>5. KeepsCommands(s, e, r)
  BY <1>1, <1>2, <1>3, <1>4, CountNone DEF KeepsCommands
<1>6. KeepsLeases(s, e, r)
  BY <1>1, <1>3, LeaseCount, CountSingle DEF KeepsLeases
<1> QED BY <1>3, <1>5, <1>6 DEF Conserves, KeepsFence

(* A resolution that leaves the fence alone: no other lease, no waiter.    *)
LEMMA FailureReturned ==
  ASSUME NEW s, Well(s), NEW e \in Events, NEW r,
         Well(r.slot), r.slot.waiters = s.waiters, LeaseOf(r.slot) = LeaseOf(s),
         Awaits(r.slot) => Awaits(s),
         r.effects = Rejections(e.failure, "Unavailable"), e.trigger = "DeliveryResolved"
  PROVE  Conserves(s, e, r)
<1>1. OwnCommand(e) = e.failure /\ OwnLease(e) = << >>
  BY DEF OwnCommand, OwnLease
<1>2. \A d : Dropped(s, e, d) = 0
  BY DEF Dropped
<1>3. /\ \A d : Returned(r.effects, d) = Count(e.failure, d)
      /\ \A id : Retired(r.effects, id) = 0
      /\ FencesIn(r.effects) = {}
  BY RejectionsGiveBack DEF GivesBack
<1>4. \A d : Count(s.waiters, d) \in Nat /\ Count(e.failure, d) \in Nat
  BY CountType, FactTypes, FailureType DEF Well
<1>5. KeepsCommands(s, e, r)
  BY <1>1, <1>2, <1>3, <1>4 DEF KeepsCommands
<1>6. KeepsLeases(s, e, r)
  BY <1>1, <1>3, LeaseCount, CountNone DEF KeepsLeases
<1> QED BY <1>3, <1>5, <1>6 DEF Conserves, KeepsFence
-----------------------------------------------------------------------------
(* Phase by phase.                                                         *)

LEMMA InactiveConserves ==
  ASSUME NEW s, Well(s), s.phase = "Inactive", NEW e \in Events
  PROVE  Conserves(s, e, Reduce(s, e))
<1> DEFINE r == DecideInactive(e)
<1>0. s = Inactive /\ Reduce(s, e) = r /\ e.trigger \in Triggers
  BY EventTriggers DEF Well, Shaped, Reduce
<1>1. CASE e.trigger = "ClaimActivation"
  <2>1. r.slot = Activating(e.id, << e.d >>) /\ r.effects = << StartActivation(e.id) >>
    BY <1>1, Decided DEF DecideInactive
  <2>2. /\ Well(r.slot) /\ r.slot.waiters = << e.d >> /\ LeaseOf(r.slot) = << >>
        /\ r.slot.phase = "Activating"
    <3>1. << e.d >> \in Seq(Dispatches) /\ IsInjective(<< e.d >>)
      BY <1>1, SingleWaiter, FactTypes
    <3> DEFINE ws == << e.d >>
    <3>2. r.slot = Activating(e.id, ws) /\ ws \in Seq(Dispatches) /\ IsInjective(ws)
      BY <2>1, <3>1
    <3> HIDE DEF r, ws
    <3>3. /\ Well(r.slot) /\ r.slot.waiters = ws /\ LeaseOf(r.slot) = << >>
          /\ r.slot.phase = "Activating"
      BY <3>2, ActivatingShape
    <3> QED BY <3>3 DEF ws
  <2>3. /\ \A d : Returned(r.effects, d) = 0
        /\ \A id : Retired(r.effects, id) = 0
        /\ FencesIn(r.effects) = {}
    BY <2>1, IdleBatches DEF Idle
  <2>4. OwnCommand(e) = << e.d >> /\ OwnLease(e) = << >> /\ \A d : Dropped(s, e, d) = 0
    BY <1>1 DEF OwnCommand, OwnLease, Dropped
  <2>5. s.waiters = << >> /\ LeaseOf(s) = << >>
    BY <1>0, WellShapes
  <2> HIDE DEF r
  <2>6. KeepsCommands(s, e, r)
    BY <2>2, <2>3, <2>4, <2>5, CountNone, CountSingle DEF KeepsCommands
  <2>7. KeepsLeases(s, e, r)
    BY <2>2, <2>3, <2>4, <2>5, CountNone DEF KeepsLeases
  <2> QED BY <1>0, <2>2, <2>3, <2>6, <2>7 DEF Conserves, KeepsFence, Awaits
<1>2. CASE e.trigger = "Dispatch"
  <2>1. r.slot = s /\ r.effects = << Reject(e.d, "Unavailable") >>
    BY <1>0, <1>2 DEF DecideInactive, Refuse, Decision
  <2> HIDE DEF r
  <2> QED BY <1>0, <1>2, <2>1, CommandRefused
<1>3. CASE e.trigger = "ActivationSucceeded"
  <2>1. r.slot = s /\ r.effects = << Retire(e.id, "Forced") >>
    BY <1>0, <1>3, Decided DEF DecideInactive, RetireStale
  <2> HIDE DEF r
  <2> QED BY <1>0, <1>3, <2>1, LeaseTurnedAway
<1>4. CASE e.trigger = "DeliveryResolved"
  <2>1. r.slot = s /\ r.effects = Rejections(e.failure, "Unavailable")
    BY <1>0, <1>4, Decided DEF DecideInactive, RejectFailedDelivery
  <2> HIDE DEF r
  <2> QED BY <1>0, <1>4, <2>1, FailureReturned
<1>5. CASE e.trigger \in Triggers \ {"ClaimActivation", "Dispatch", "DeliveryResolved",
                                     "ActivationSucceeded"}
  <2>1. r.slot = s /\ r.effects = << >>
    BY <1>0, <1>5, Decided DEF DecideInactive
  <2> HIDE DEF r
  <2> QED BY <1>0, <1>5, <2>1, NothingCarried
<1> QED BY <1>0, <1>1, <1>2, <1>3, <1>4, <1>5

LEMMA WaiterAdmitted ==
  ASSUME NEW s, Well(s), s.phase = "Activating", NEW e \in Events, NEW r,
         e.trigger = "Dispatch", e.d \notin Range(s.waiters),
         r.slot = Activating(s.id, Append(s.waiters, e.d)), r.effects = << >>
  PROVE  Conserves(s, e, r)
<1> DEFINE ws == Append(s.waiters, e.d)
<1>1. /\ s.waiters \in Seq(Dispatches) /\ IsInjective(s.waiters) /\ e.d \in Dispatches
  BY FactTypes DEF Well
<1>2. ws \in Seq(Dispatches) /\ IsInjective(ws) /\ Range(ws) = Range(s.waiters) \cup {e.d}
  BY <1>1, AppendWaiter
<1>a. r.slot = Activating(s.id, ws)
  OBVIOUS
<1> HIDE DEF ws
<1>3. r.slot.waiters = ws /\ Well(r.slot) /\ LeaseOf(r.slot) = << >> /\ r.slot.phase = "Activating"
  BY <1>2, <1>a, ActivatingShape
<1>4. LeaseOf(s) = << >>
  BY DEF LeaseOf
<1>5. OwnCommand(e) = << e.d >> /\ OwnLease(e) = << >> /\ \A d : Dropped(s, e, d) = 0
  BY DEF OwnCommand, OwnLease, Dropped
<1>6. /\ \A d : Returned(r.effects, d) = 0
      /\ \A id : Retired(r.effects, id) = 0
      /\ FencesIn(r.effects) = {}
  BY IdleBatches DEF Idle
<1>7. \A d : /\ Count(ws, d) = IF d \in Range(ws) THEN 1 ELSE 0
             /\ Count(s.waiters, d) = IF d \in Range(s.waiters) THEN 1 ELSE 0
  BY <1>1, <1>2, CountOnce
<1>8. KeepsCommands(s, e, r)
  BY <1>2, <1>3, <1>5, <1>6, <1>7, CountSingle DEF KeepsCommands
<1>9. KeepsLeases(s, e, r)
  BY <1>3, <1>4, <1>5, <1>6, CountNone DEF KeepsLeases
<1> QED BY <1>3, <1>6, <1>8, <1>9 DEF Conserves, KeepsFence, Awaits

LEMMA WaiterWithdrawn ==
  ASSUME NEW s, Well(s), s.phase = "Activating", NEW e \in Events, NEW r,
         e.trigger = "CancelWaiter", e.id = s.id,
         r.slot = Activating(s.id, RemoveFirst(s.waiters, e.d)), r.effects = << >>
  PROVE  Conserves(s, e, r)
<1> DEFINE ws == RemoveFirst(s.waiters, e.d)
<1>1. s.waiters \in Seq(Dispatches) /\ IsInjective(s.waiters)
  BY DEF Well
<1>2. ws \in Seq(Dispatches) /\ IsInjective(ws) /\ Range(ws) = Range(s.waiters) \ {e.d}
  BY <1>1, RemoveWaiter
<1>a. r.slot = Activating(s.id, ws)
  OBVIOUS
<1> HIDE DEF ws
<1>3. r.slot.waiters = ws /\ Well(r.slot) /\ LeaseOf(r.slot) = << >> /\ r.slot.phase = "Activating"
  BY <1>2, <1>a, ActivatingShape
<1>4. LeaseOf(s) = << >>
  BY DEF LeaseOf
<1>5. /\ OwnCommand(e) = << >> /\ OwnLease(e) = << >>
      /\ \A d : Dropped(s, e, d) = IF e.d = d /\ d \in Range(s.waiters) THEN 1 ELSE 0
  BY DEF OwnCommand, OwnLease, Dropped
<1>6. /\ \A d : Returned(r.effects, d) = 0
      /\ \A id : Retired(r.effects, id) = 0
      /\ FencesIn(r.effects) = {}
  BY IdleBatches DEF Idle
<1>7. \A d : /\ Count(ws, d) = IF d \in Range(ws) THEN 1 ELSE 0
             /\ Count(s.waiters, d) = IF d \in Range(s.waiters) THEN 1 ELSE 0
  BY <1>1, <1>2, CountOnce
<1>8. KeepsCommands(s, e, r)
  BY <1>2, <1>3, <1>5, <1>6, <1>7, CountNone DEF KeepsCommands
<1>9. KeepsLeases(s, e, r)
  BY <1>3, <1>4, <1>5, <1>6, CountNone DEF KeepsLeases
<1> QED BY <1>3, <1>6, <1>8, <1>9 DEF Conserves, KeepsFence, Awaits

(* All waiters leave at once, as deliveries or as rejections.              *)
LEMMA WaitersLeave ==
  ASSUME NEW s, Well(s), s.phase = "Activating", NEW e \in Events, NEW r,
         e.trigger \in {"ActivationSucceeded", "ActivationFailed"},
         Well(r.slot), r.slot.phase \in {"Inactive", "Active"},
         LeaseOf(r.slot) = OwnLease(e), GivesBack(r.effects, s.waiters)
  PROVE  Conserves(s, e, r)
<1>1. r.slot.waiters = << >> /\ LeaseOf(s) = << >>
  BY DEF Well, LeaseOf
<1>2. OwnCommand(e) = << >> /\ \A d : Dropped(s, e, d) = 0
  BY DEF OwnCommand, Dropped
<1>3. /\ \A d : Returned(r.effects, d) = Count(s.waiters, d)
      /\ \A id : Retired(r.effects, id) = 0
      /\ FencesIn(r.effects) = {}
  BY DEF GivesBack
<1>4. \A d : Count(s.waiters, d) \in Nat
  BY CountType DEF Well
<1>5. KeepsCommands(s, e, r)
  BY <1>1, <1>2, <1>3, <1>4, CountNone DEF KeepsCommands
<1>6. KeepsLeases(s, e, r)
  BY <1>1, <1>3, LeaseCount, CountNone DEF KeepsLeases
<1> QED BY <1>3, <1>5, <1>6 DEF Conserves, KeepsFence, Awaits

LEMMA ActivatingConserves ==
  ASSUME NEW s, Well(s), s.phase = "Activating", NEW e \in Events,
         e.trigger = "Dispatch" => e.d \notin Range(s.waiters)
  PROVE  Conserves(s, e, Reduce(s, e))
<1> DEFINE r == DecideActivating(s, e)
<1>0. Reduce(s, e) = r /\ e.trigger \in Triggers /\ s.waiters \in Seq(Dispatches)
  BY EventTriggers DEF Well, Reduce
<1>1. CASE e.trigger = "Dispatch"
  <2>1. r = AdmitWaiter(s, e.d)
    BY <1>1 DEF DecideActivating
  <2>2. \/ r.slot = Activating(s.id, Append(s.waiters, e.d)) /\ r.effects = << >>
        \/ r.slot = s /\ r.effects = << Reject(e.d, "Busy") >>
    BY <2>1 DEF AdmitWaiter, Ignore, Refuse, Decision
  <2> HIDE DEF r
  <2> QED BY <1>0, <1>1, <2>2, WaiterAdmitted, CommandRefused
<1>2. CASE e.trigger = "ClaimActivation"
  <2>1. r.slot = s /\ r.effects = << Reject(e.d, "Busy") >>
    BY <1>2 DEF DecideActivating, Refuse, Decision
  <2> HIDE DEF r
  <2> QED BY <1>0, <1>2, <2>1, CommandRefused
<1>3. CASE e.trigger = "CancelWaiter"
  <2>1. r = CancelWaiter(s, e.id, e.d)
    BY <1>3 DEF DecideActivating
  <2>2. CASE e.id = s.id
    <3>1. r.slot = Activating(s.id, RemoveFirst(s.waiters, e.d)) /\ r.effects = << >>
      BY <2>1, <2>2, Decided DEF CancelWaiter
    <3> HIDE DEF r
    <3> QED BY <1>0, <1>3, <2>2, <3>1, WaiterWithdrawn
  <2>3. CASE e.id # s.id
    <3>1. r.slot = s /\ r.effects = << >>
      BY <2>1, <2>3, Decided DEF CancelWaiter
    <3> HIDE DEF r
    <3> QED BY <1>0, <1>3, <2>3, <3>1, NothingCarried
  <2> QED BY <2>2, <2>3
<1>4. CASE e.trigger = "ActivationSucceeded"
  <2>1. r = FinishActivation(s, e.id)
    BY <1>4 DEF DecideActivating
  <2>2. CASE e.id = s.id
    <3>1. /\ r.slot = Active(e.id, Len(s.waiters)) /\ Len(s.waiters) \in Nat
          /\ r.effects = Deliveries(e.id, s.waiters)
      BY <1>0, <2>1, <2>2, Decided DEF FinishActivation
    <3>2. OwnLease(e) = << e.id >>
      BY <1>4 DEF OwnLease
    <3> HIDE DEF r
    <3> QED BY <1>0, <1>4, <3>1, <3>2, WellShapes, DeliveriesGiveBack, WaitersLeave
  <2>3. CASE e.id # s.id
    <3>1. r.slot = s /\ r.effects = << Retire(e.id, "Forced") >>
      BY <2>1, <2>3, Decided DEF FinishActivation, RetireStale
    <3> HIDE DEF r
    <3> QED BY <1>0, <1>4, <3>1, LeaseTurnedAway
  <2> QED BY <2>2, <2>3
<1>5. CASE e.trigger = "ActivationFailed"
  <2>1. r = FailActivation(s, e.id)
    BY <1>5 DEF DecideActivating
  <2>2. CASE e.id = s.id
    <3>1. /\ r.slot = Inactive
          /\ r.effects = Append(Rejections(s.waiters, "Unavailable"), RemoveEntry(e.id))
      BY <2>1, <2>2 DEF FailActivation, Decision
    <3>2. OwnLease(e) = << >>
      BY <1>5 DEF OwnLease
    <3>3. GivesBack(r.effects, s.waiters)
      BY <1>0, <3>1, FailureGivesBack
    <3> HIDE DEF r
    <3>4. Well(r.slot) /\ r.slot.phase = "Inactive" /\ LeaseOf(r.slot) = OwnLease(e)
      BY <3>1, <3>2, WellShapes, Shapes
    <3> QED BY <1>0, <1>5, <3>3, <3>4, WaitersLeave
  <2>3. CASE e.id # s.id
    <3>1. r.slot = s /\ r.effects = << >>
      BY <2>1, <2>3, Decided DEF FailActivation
    <3> HIDE DEF r
    <3> QED BY <1>0, <1>5, <3>1, NothingCarried
  <2> QED BY <2>2, <2>3
<1>6. CASE e.trigger = "DeliveryResolved"
  <2>1. r.slot = s /\ r.effects = Rejections(e.failure, "Unavailable")
    BY <1>6, Decided DEF DecideActivating, RejectFailedDelivery
  <2> HIDE DEF r
  <2> QED BY <1>0, <1>6, <2>1, FailureReturned
<1>7. CASE e.trigger \in {"BeginDrain", "FenceAcknowledged", "ForceDrain", "Terminated"}
  <2>1. r.slot = s /\ r.effects = << >>
    BY <1>7, Decided DEF DecideActivating
  <2> HIDE DEF r
  <2> QED BY <1>0, <1>7, <2>1, NothingCarried
<1> QED BY <1>0, <1>1, <1>2, <1>3, <1>4, <1>5, <1>6, <1>7 DEF Triggers
LEMMA ActiveConserves ==
  ASSUME NEW s, Well(s), s.phase = "Active", NEW e \in Events
  PROVE  Conserves(s, e, Reduce(s, e))
<1> DEFINE r == DecideActive(s, e)
<1>0. /\ Reduce(s, e) = r /\ e.trigger \in Triggers
      /\ s.waiters = << >> /\ LeaseOf(s) = << s.id >> /\ s.reservations \in Nat
  BY EventTriggers DEF Well, Reduce, LeaseOf
<1>1. CASE e.trigger = "Dispatch"
  <2>1. r.slot = Active(s.id, s.reservations + 1) /\ r.effects = << Deliver(s.id, e.d) >>
    BY <1>1 DEF DecideActive, ReserveDelivery, Decision
  <2> HIDE DEF r
  <2>2. /\ Well(r.slot) /\ r.slot.waiters = << >> /\ LeaseOf(r.slot) = << s.id >>
        /\ r.slot.phase = "Active"
    BY <1>0, <2>1, WellShapes
  <2>3. /\ \A d : Returned(r.effects, d) = Count(<< e.d >>, d)
        /\ \A id : Retired(r.effects, id) = 0
        /\ FencesIn(r.effects) = {}
    BY <2>1, SingleGivesBack DEF GivesBack
  <2>4. OwnCommand(e) = << e.d >> /\ OwnLease(e) = << >> /\ \A d : Dropped(s, e, d) = 0
    BY <1>1 DEF OwnCommand, OwnLease, Dropped
  <2>5. KeepsCommands(s, e, r)
    BY <1>0, <2>2, <2>3, <2>4, CountNone, CountSingle DEF KeepsCommands
  <2>6. KeepsLeases(s, e, r)
    BY <1>0, <2>2, <2>3, <2>4, CountNone, CountSingle DEF KeepsLeases
  <2> QED BY <1>0, <2>2, <2>3, <2>5, <2>6 DEF Conserves, KeepsFence, Awaits
<1>2. CASE e.trigger = "DeliveryResolved" /\ e.id = s.id
  <2> DEFINE n == IF s.reservations > 0 THEN s.reservations - 1 ELSE 0
  <2>1. r.slot = Active(s.id, n) /\ r.effects = Rejections(e.failure, "Unavailable")
    BY <1>2, Decided DEF DecideActive, ResolveActiveDelivery, RejectFailedDelivery
  <2>2. n \in Nat
    BY <1>0
  <2> HIDE DEF r, n
  <2>3. /\ Well(r.slot) /\ r.slot.waiters = << >> /\ LeaseOf(r.slot) = << s.id >>
        /\ r.slot.phase = "Active"
    BY <2>1, <2>2, WellShapes
  <2> QED BY <1>0, <1>2, <2>1, <2>3, FailureReturned DEF Awaits
<1>3. CASE e.trigger = "DeliveryResolved" /\ e.id # s.id
  <2>1. r.slot = s /\ r.effects = Rejections(e.failure, "Unavailable")
    BY <1>3, Decided DEF DecideActive, RejectFailedDelivery
  <2> HIDE DEF r
  <2> QED BY <1>0, <1>3, <2>1, FailureReturned
<1>4. CASE e.trigger = "BeginDrain" /\ e.id = s.id
  <2> DEFINE n == s.reservations
  <2>1. /\ r.slot = Draining(s.id, n)
        /\ r.effects = IF n = 0 THEN << EnqueueFence(s.id) >> ELSE << >>
    BY <1>4, Decided DEF DecideActive, BeginDrain
  <2> HIDE DEF r, n
  <2>2. /\ Well(r.slot) /\ r.slot.waiters = << >> /\ LeaseOf(r.slot) = << s.id >>
        /\ r.slot.phase = "Draining" /\ r.slot.id = s.id /\ r.slot.reservations = n
    BY <1>0, <2>1, WellShapes DEF n
  <2>3. OwnCommand(e) = << >> /\ OwnLease(e) = << >> /\ \A d : Dropped(s, e, d) = 0
    BY <1>4 DEF OwnCommand, OwnLease, Dropped
  <2>4. /\ \A d : Returned(r.effects, d) = 0
        /\ \A id : Retired(r.effects, id) = 0
        /\ IF n = 0
           THEN FencesIn(r.effects) = {Len(r.effects)} /\ Last(r.effects) = EnqueueFence(s.id)
           ELSE FencesIn(r.effects) = {}
    <3>1. CASE n = 0
      <4>1. << >> \in Failures /\ Rejections(<< >>, "Unavailable") = << >>
        BY DEF Failures, Rejections
      <4>2. r.effects = Rejections(<< >>, "Unavailable") \o << EnqueueFence(s.id) >>
        BY <2>1, <3>1, <4>1, ConcatFew
      <4> QED BY <3>1, <4>1, <4>2, FencesLast, CountNone
    <3>2. CASE n # 0
      BY <2>1, <3>2, IdleBatches DEF Idle
    <3> QED BY <3>1, <3>2
  <2>5. KeepsCommands(s, e, r)
    BY <1>0, <2>2, <2>3, <2>4, CountNone DEF KeepsCommands
  <2>6. KeepsLeases(s, e, r)
    BY <1>0, <2>2, <2>3, <2>4, CountNone, CountSingle DEF KeepsLeases
  <2> QED BY <1>0, <2>2, <2>4, <2>5, <2>6 DEF Conserves, KeepsFence, Awaits
<1>5. CASE e.trigger = "ActivationSucceeded"
  <2>1. r.slot = s /\ r.effects = << Retire(e.id, "Forced") >>
    BY <1>5, Decided DEF DecideActive, RetireStale
  <2> HIDE DEF r
  <2> QED BY <1>0, <1>5, <2>1, LeaseTurnedAway
<1>6. CASE e.trigger = "ClaimActivation"
  <2>1. r.slot = s /\ r.effects = << Reject(e.d, "Busy") >>
    BY <1>6 DEF DecideActive, Refuse, Decision
  <2> HIDE DEF r
  <2> QED BY <1>0, <1>6, <2>1, CommandRefused
<1>7. CASE \/ e.trigger = "BeginDrain" /\ e.id # s.id
           \/ e.trigger \in {"CancelWaiter", "ActivationFailed", "FenceAcknowledged",
                             "ForceDrain", "Terminated"}
  <2>1. r.slot = s /\ r.effects = << >>
    BY <1>7, Decided DEF DecideActive
  <2> HIDE DEF r
  <2> QED BY <1>0, <1>7, <2>1, NothingCarried
<1> QED BY <1>0, <1>1, <1>2, <1>3, <1>4, <1>5, <1>6, <1>7 DEF Triggers

(* The last resolution of a drain requests the fence.                      *)
LEMMA DrainResolves ==
  ASSUME NEW s, Well(s), s.phase = "Draining", NEW e \in Events, NEW r,
         e.trigger = "DeliveryResolved", r = ResolveDrainingDelivery(s, e.failure)
  PROVE  Conserves(s, e, r)
<1> DEFINE n == IF s.reservations > 0 THEN s.reservations - 1 ELSE 0
           rs == Rejections(e.failure, "Unavailable")
<1>1. /\ r.slot = Draining(s.id, n)
      /\ r.effects = rs \o (IF s.reservations = 1 THEN << EnqueueFence(s.id) >> ELSE << >>)
  BY DEF ResolveDrainingDelivery, Decision
<1>2. n \in Nat /\ s.reservations \in Nat
  BY DEF Well
<1>3. /\ Well(r.slot) /\ r.slot.waiters = << >> /\ LeaseOf(r.slot) = << s.id >>
      /\ r.slot.phase = "Draining" /\ r.slot.id = s.id /\ r.slot.reservations = n
  <2> HIDE DEF n
  <2> QED BY <1>1, <1>2, WellShapes
<1>4. s.waiters = << >> /\ LeaseOf(s) = << s.id >> /\ e.failure \in Failures
  BY FactTypes DEF Well, LeaseOf
<1>5. CASE s.reservations = 1
  <2>1. Awaits(r.slot) /\ ~Awaits(s)
    BY <1>3, <1>5 DEF Awaits
  <2>2. r.effects = rs \o << EnqueueFence(s.id) >>
    BY <1>1, <1>5
  <2>3. /\ \A d : Returned(r.effects, d) = Count(e.failure, d)
        /\ \A id : Retired(r.effects, id) = 0
        /\ FencesIn(r.effects) = {Len(r.effects)}
        /\ Last(r.effects) = EnqueueFence(s.id)
    BY <1>4, <2>2, FencesLast
  <2>4. OwnCommand(e) = e.failure /\ OwnLease(e) = << >> /\ \A d : Dropped(s, e, d) = 0
    BY DEF OwnCommand, OwnLease, Dropped
  <2>5. \A d : Count(e.failure, d) \in Nat
    BY <1>4, CountType, FailureType
  <2>6. KeepsCommands(s, e, r)
    BY <1>3, <1>4, <2>3, <2>4, <2>5, CountNone DEF KeepsCommands
  <2>7. KeepsLeases(s, e, r)
    BY <1>3, <1>4, <2>3, <2>4, CountNone, CountSingle DEF KeepsLeases
  <2> QED BY <1>3, <2>1, <2>3, <2>6, <2>7 DEF Conserves, KeepsFence
<1>6. CASE s.reservations # 1
  <2>1. Awaits(r.slot) => Awaits(s)
    BY <1>2, <1>3, <1>6 DEF Awaits
  <2>2. r.effects = rs
    <3>1. rs \in Seq({Reject(d, "Unavailable") : d \in Dispatches})
      <4>1. e.failure \in Seq(Dispatches)
        BY <1>4, FailureType
      <4> QED BY <4>1 DEF Rejections
    <3> HIDE DEF rs
    <3>2. r.effects = rs \o << >>
      BY <1>1, <1>6
    <3> QED BY <3>1, <3>2
  <2> HIDE DEF n
  <2> QED BY <1>3, <1>4, <2>1, <2>2, FailureReturned
<1> QED BY <1>5, <1>6

(* A drain that ends hands its lease to the retirement.                    *)
LEMMA LeaseHandedOver ==
  ASSUME NEW s, Well(s), s.phase = "Draining", NEW e \in Events, NEW r, NEW mode,
         e.trigger \in {"FenceAcknowledged", "ForceDrain"},
         r.slot = Retiring(s.id), r.effects = << Retire(s.id, mode) >>
  PROVE  Conserves(s, e, r)
<1>1. /\ Well(r.slot) /\ r.slot.waiters = << >> /\ LeaseOf(r.slot) = << >>
      /\ r.slot.phase = "Retiring"
  BY WellShapes
<1>2. s.waiters = << >> /\ LeaseOf(s) = << s.id >>
  BY DEF Well, LeaseOf
<1>3. OwnCommand(e) = << >> /\ OwnLease(e) = << >> /\ \A d : Dropped(s, e, d) = 0
  BY DEF OwnCommand, OwnLease, Dropped
<1>4. /\ \A d : Returned(r.effects, d) = 0
      /\ \A id : Retired(r.effects, id) = IF id = s.id THEN 1 ELSE 0
      /\ FencesIn(r.effects) = {}
  BY RetiresOne
<1>5. KeepsCommands(s, e, r)
  BY <1>1, <1>2, <1>3, <1>4, CountNone DEF KeepsCommands
<1>6. KeepsLeases(s, e, r)
  BY <1>1, <1>2, <1>3, <1>4, CountNone, CountSingle DEF KeepsLeases
<1> QED BY <1>1, <1>4, <1>5, <1>6 DEF Conserves, KeepsFence, Awaits

LEMMA DrainingConserves ==
  ASSUME NEW s, Well(s), s.phase = "Draining", NEW e \in Events
  PROVE  Conserves(s, e, Reduce(s, e))
<1> DEFINE r == DecideDraining(s, e)
<1>0. Reduce(s, e) = r /\ e.trigger \in Triggers
  BY EventTriggers DEF Reduce
<1>1. CASE e.trigger \in {"Dispatch", "ClaimActivation"}
  <2>1. r.slot = s /\ r.effects = << Reject(e.d, "Draining") >>
    BY <1>1 DEF DecideDraining, Refuse, Decision
  <2> HIDE DEF r
  <2> QED BY <1>0, <1>1, <2>1, CommandRefused
<1>2. CASE e.trigger = "DeliveryResolved" /\ e.id = s.id
  <2>1. r = ResolveDrainingDelivery(s, e.failure)
    BY <1>2 DEF DecideDraining
  <2> HIDE DEF r
  <2> QED BY <1>0, <1>2, <2>1, DrainResolves
<1>3. CASE e.trigger = "DeliveryResolved" /\ e.id # s.id
  <2>1. r.slot = s /\ r.effects = Rejections(e.failure, "Unavailable")
    BY <1>3, Decided DEF DecideDraining, RejectFailedDelivery
  <2> HIDE DEF r
  <2> QED BY <1>0, <1>3, <2>1, FailureReturned
<1>4. CASE e.trigger = "FenceAcknowledged" /\ e.id = s.id
  <2>1. \/ r.slot = Retiring(s.id) /\ r.effects = << Retire(s.id, "Graceful") >>
        \/ r.slot = s /\ r.effects = << >>
    BY <1>4, Decided DEF DecideDraining, AcknowledgeFence
  <2> HIDE DEF r
  <2>2. CASE r.slot = Retiring(s.id) /\ r.effects = << Retire(s.id, "Graceful") >>
    BY <1>0, <1>4, <2>2, LeaseHandedOver
  <2>3. CASE r.slot = s /\ r.effects = << >>
    BY <1>0, <1>4, <2>3, NothingCarried
  <2> QED BY <2>1, <2>2, <2>3
<1>5. CASE e.trigger = "ForceDrain" /\ e.id = s.id
  <2>1. r.slot = Retiring(s.id) /\ r.effects = << Retire(s.id, "Forced") >>
    BY <1>5, Decided DEF DecideDraining, ForceDrain
  <2> HIDE DEF r
  <2> QED BY <1>0, <1>5, <2>1, LeaseHandedOver
<1>6. CASE e.trigger = "ActivationSucceeded"
  <2>1. r.slot = s /\ r.effects = << Retire(e.id, "Forced") >>
    BY <1>6, Decided DEF DecideDraining, RetireStale
  <2> HIDE DEF r
  <2> QED BY <1>0, <1>6, <2>1, LeaseTurnedAway
<1>7. CASE \/ e.trigger \in {"FenceAcknowledged", "ForceDrain"} /\ e.id # s.id
           \/ e.trigger \in {"CancelWaiter", "ActivationFailed", "BeginDrain", "Terminated"}
  <2>1. r.slot = s /\ r.effects = << >>
    BY <1>7, Decided DEF DecideDraining
  <2> HIDE DEF r
  <2> QED BY <1>0, <1>7, <2>1, NothingCarried
<1> QED BY <1>0, <1>1, <1>2, <1>3, <1>4, <1>5, <1>6, <1>7 DEF Triggers

LEMMA RetiringConserves ==
  ASSUME NEW s, Well(s), s.phase = "Retiring", NEW e \in Events
  PROVE  Conserves(s, e, Reduce(s, e))
<1> DEFINE r == DecideRetiring(s, e)
<1>0. Reduce(s, e) = r /\ e.trigger \in Triggers
  BY EventTriggers DEF Reduce
<1>1. CASE e.trigger = "Terminated" /\ e.id = s.id
  <2>1. r.slot = Inactive /\ r.effects = << RemoveEntry(s.id) >>
    BY <1>1, Decided DEF DecideRetiring
  <2> HIDE DEF r
  <2>2. /\ Well(r.slot) /\ r.slot.waiters = << >> /\ LeaseOf(r.slot) = << >>
        /\ r.slot.phase = "Inactive"
    BY <2>1, WellShapes, Shapes
  <2>3. s.waiters = << >> /\ LeaseOf(s) = << >>
    BY DEF Well, LeaseOf
  <2>4. OwnCommand(e) = << >> /\ OwnLease(e) = << >> /\ \A d : Dropped(s, e, d) = 0
    BY <1>1 DEF OwnCommand, OwnLease, Dropped
  <2>5. /\ \A d : Returned(r.effects, d) = 0
        /\ \A id : Retired(r.effects, id) = 0
        /\ FencesIn(r.effects) = {}
    BY <2>1, IdleBatches DEF Idle
  <2>6. KeepsCommands(s, e, r) /\ KeepsLeases(s, e, r)
    BY <2>2, <2>3, <2>4, <2>5, CountNone DEF KeepsCommands, KeepsLeases
  <2> QED BY <1>0, <2>2, <2>5, <2>6 DEF Conserves, KeepsFence, Awaits
<1>2. CASE e.trigger \in {"Dispatch", "ClaimActivation"}
  <2>1. r.slot = s /\ r.effects = << Reject(e.d, "Draining") >>
    BY <1>2 DEF DecideRetiring, Refuse, Decision
  <2> HIDE DEF r
  <2> QED BY <1>0, <1>2, <2>1, CommandRefused
<1>3. CASE e.trigger = "ActivationSucceeded"
  <2>1. r.slot = s /\ r.effects = << Retire(e.id, "Forced") >>
    BY <1>3, Decided DEF DecideRetiring, RetireStale
  <2> HIDE DEF r
  <2> QED BY <1>0, <1>3, <2>1, LeaseTurnedAway
<1>4. CASE e.trigger = "DeliveryResolved"
  <2>1. r.slot = s /\ r.effects = Rejections(e.failure, "Unavailable")
    BY <1>4, Decided DEF DecideRetiring, RejectFailedDelivery
  <2> HIDE DEF r
  <2> QED BY <1>0, <1>4, <2>1, FailureReturned
<1>5. CASE \/ e.trigger = "Terminated" /\ e.id # s.id
           \/ e.trigger \in {"CancelWaiter", "ActivationFailed", "BeginDrain",
                             "FenceAcknowledged", "ForceDrain"}
  <2>1. r.slot = s /\ r.effects = << >>
    BY <1>5, Decided DEF DecideRetiring
  <2> HIDE DEF r
  <2> QED BY <1>0, <1>5, <2>1, NothingCarried
<1> QED BY <1>0, <1>1, <1>2, <1>3, <1>4, <1>5 DEF Triggers

(* Whatever the fact and whatever the phase, one reduction conserves.      *)
LEMMA ReductionBalances ==
  ASSUME NEW s, Well(s), NEW e \in Events,
         e.trigger = "Dispatch" => e.d \notin Range(s.waiters)
  PROVE  Conserves(s, e, Reduce(s, e))
BY InactiveConserves, ActivatingConserves, ActiveConserves, DrainingConserves,
   RetiringConserves DEF Well, Shaped, Phases

(* A step of the machine gives up nothing it was entrusted with: however   *)
(* many waiters there are and whatever fact arrives, each command and each *)
(* lease of the slot and of the fact is afterwards kept or handed on, as   *)
(* often as it was there, and a drain requests its fence exactly when its  *)
(* last reservation is gone, behind everything else.                       *)
THEOREM EntrustedIsKept == Spec => []ReductionConserves
<1> DEFINE Inv == Well(slot) /\ ReductionConserves
<1>1. Init => Inv
  BY WellShapes DEF Init, ReductionConserves, CommandsConserved, LeasesConserved,
                    FencedOnce, Stepped
<1>2. Inv /\ [Next]_vars => Inv'
  <2> SUFFICES ASSUME Inv, [Next]_vars PROVE Inv'
    OBVIOUS
  <2>1. ASSUME NEW e \in Events, Step(e) PROVE Inv'
    <3> DEFINE r == Reduce(slot, e)
    <3>1. Conserves(slot, e, r)
      BY <2>1, ReductionBalances DEF Step, Fresh
    <3>2. /\ slot' = r.slot /\ input' = e
          /\ output'.effects = r.effects /\ output'.from = slot
      BY <2>1 DEF Step
    <3> HIDE DEF r
    <3>3. CarriedCommand' = OwnCommand(e) /\ CarriedLease' = OwnLease(e)
      BY <3>2 DEF CarriedCommand, OwnCommand, CarriedLease, OwnLease
    <3>4. CommandsConserved'
      BY <3>1, <3>2, <3>3 DEF CommandsConserved, Conserves, KeepsCommands, Dropped
    <3>5. LeasesConserved'
      BY <3>1, <3>2, <3>3 DEF LeasesConserved, Conserves, KeepsLeases
    <3>6. FencedOnce'
      BY <3>1, <3>2 DEF FencedOnce, Conserves, KeepsFence, Awaits
    <3>7. Well(slot)'
      BY <3>1, <3>2 DEF Conserves
    <3> QED BY <3>4, <3>5, <3>6, <3>7 DEF ReductionConserves
  <2>2. CASE UNCHANGED vars
    BY <2>2 DEF vars, Well, ReductionConserves, CommandsConserved, LeasesConserved,
                FencedOnce, Stepped, CarriedCommand, CarriedLease
  <2> QED BY <2>1, <2>2 DEF Next
<1>3. Inv => ReductionConserves
  OBVIOUS
<1> QED BY <1>1, <1>2, <1>3, PTL DEF Spec
=============================================================================
