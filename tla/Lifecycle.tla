----------------------------- MODULE Lifecycle -----------------------------
(***************************************************************************)
(* The pure lifecycle algebra of one entity routing slot                   *)
(* (crates/entity/src/lifecycle).  Reduce(s, e) is SlotReducer::reduce: it *)
(* consumes a slot and one external fact and returns the next slot with    *)
(* the ordered batch of effects the interpreter must run.                  *)
(*                                                                         *)
(* A slot is one record.  Fields that a Rust variant does not carry hold   *)
(* their empty value: id = NoActivation outside an activation, waiters     *)
(* only while Activating, reservations only while Active or Draining.  A   *)
(* Draining slot with reservations = 0 is DrainProgress's                  *)
(* FenceAcknowledgement, any other is Reservations(n).  A command is its   *)
(* dispatch identity; endpoint and lease are their activation identity.    *)
(***************************************************************************)
EXTENDS Naturals, Sequences, SequencesExt

CONSTANT WaiterLimit    \* DirectoryConfig::waiter_limit, a NonZeroUsize

ASSUME WaiterLimitAssumption == WaiterLimit \in Nat \ {0}

NoActivation == 0

Phases == {"Inactive", "Activating", "Active", "Draining", "Retiring"}

Triggers == {"ClaimActivation", "Dispatch", "CancelWaiter",
             "ActivationSucceeded", "ActivationFailed", "DeliveryResolved",
             "BeginDrain", "FenceAcknowledged", "ForceDrain", "Terminated"}

Slot(phase, id, waiters, reservations) ==
  [phase |-> phase, id |-> id, waiters |-> waiters,
   reservations |-> reservations]

Inactive           == Slot("Inactive", NoActivation, << >>, 0)
Activating(id, ws) == Slot("Activating", id, ws, 0)
Active(id, n)      == Slot("Active", id, << >>, n)
Draining(id, n)    == Slot("Draining", id, << >>, n)
Retiring(id)       == Slot("Retiring", id, << >>, 0)

-----------------------------------------------------------------------------
(* Effects and decisions.                                                  *)

StartActivation(id)      == [type |-> "StartActivation", id |-> id]
Deliver(id, d)           == [type |-> "Deliver", id |-> id, d |-> d]
Reject(d, reason)        == [type |-> "Reject", d |-> d, reason |-> reason]
EnqueueFence(id)         == [type |-> "EnqueueFence", id |-> id]
Retire(id, mode)         == [type |-> "Retire", id |-> id, mode |-> mode]
RemoveEntry(id)          == [type |-> "Remove", id |-> id]

Decision(s, effects) == [slot |-> s, effects |-> effects]

Ignore(s) == Decision(s, << >>)

Refuse(s, d, reason) == Decision(s, << Reject(d, reason) >>)

(* A failed delivery still owns its command, << d >>; a successful one, or *)
(* a fact without a command, has << >>.                                    *)
Rejections(ds, reason) == [i \in DOMAIN ds |-> Reject(ds[i], reason)]

Deliveries(id, ds) == [i \in DOMAIN ds |-> Deliver(id, ds[i])]

RejectFailedDeliveryDropped(s, failure) == Ignore(s)  \* defect: command lost

RejectFailedDelivery(s, failure) ==
  Decision(s, Rejections(failure, "Unavailable"))

\* defect: retires the slot's own activation instead of the late one
RetireStaleOwn(s, id) == Decision(s, << Retire(s.id, "Forced") >>)

RetireStale(s, id) == Decision(s, << Retire(id, "Forced") >>)

-----------------------------------------------------------------------------
(* Inactive (inactive.rs).                                                 *)

DecideInactive(e) ==
  CASE e.trigger = "ClaimActivation" ->
         Decision(Activating(e.id, << e.d >>), << StartActivation(e.id) >>)
    [] e.trigger = "Dispatch" -> Refuse(Inactive, e.d, "Unavailable")
    [] e.trigger = "ActivationSucceeded" -> RetireStale(Inactive, e.id)
    [] e.trigger = "DeliveryResolved" ->
         RejectFailedDelivery(Inactive, e.failure)
    [] OTHER -> Ignore(Inactive)

-----------------------------------------------------------------------------
(* Activating.                                                             *)

\* defect: the limit is checked with <=
AdmitWaiterOverLimit(s, d) ==
  IF Len(s.waiters) <= WaiterLimit
  THEN Ignore(Activating(s.id, Append(s.waiters, d)))
  ELSE Refuse(s, d, "Busy")

AdmitWaiter(s, d) ==
  IF Len(s.waiters) < WaiterLimit
  THEN Ignore(Activating(s.id, Append(s.waiters, d)))
  ELSE Refuse(s, d, "Busy")

(* retain(|w| w.dispatch_id != d): the directory issues a dispatch         *)
(* identity once, so at most one waiter carries it.                        *)
CancelWaiter(s, id, d) ==
  IF id = s.id
  THEN Ignore(Activating(s.id, RemoveFirst(s.waiters, d)))
  ELSE Ignore(s)

\* defect: the deliveries of the waiters hold no reservation
FinishActivationUnreserved(s, id) ==
  IF id = s.id
  THEN Decision(Active(id, 0), Deliveries(id, s.waiters))
  ELSE RetireStale(s, id)

\* defect: a late lease of another activation is dropped
FinishActivationLeaking(s, id) ==
  IF id = s.id
  THEN Decision(Active(id, Len(s.waiters)), Deliveries(id, s.waiters))
  ELSE Ignore(s)

\* defect: any lease is installed
FinishActivationUnchecked(s, id) ==
  Decision(Active(id, Len(s.waiters)), Deliveries(id, s.waiters))

(* The waiters become that many reserved deliveries, in arrival order.  A  *)
(* lease of any other activation is retired, never installed or leaked.    *)
FinishActivation(s, id) ==
  IF id = s.id
  THEN Decision(Active(id, Len(s.waiters)), Deliveries(id, s.waiters))
  ELSE RetireStale(s, id)

\* defect: the waiters are forgotten
FailActivationSilently(s, id) ==
  IF id = s.id THEN Decision(Inactive, << RemoveEntry(id) >>) ELSE Ignore(s)

FailActivation(s, id) ==
  IF id = s.id
  THEN Decision(Inactive, Append(Rejections(s.waiters, "Unavailable"),
                                 RemoveEntry(id)))
  ELSE Ignore(s)

DecideActivating(s, e) ==
  CASE e.trigger = "Dispatch" -> AdmitWaiter(s, e.d)
    [] e.trigger = "CancelWaiter" -> CancelWaiter(s, e.id, e.d)
    [] e.trigger = "ActivationSucceeded" -> FinishActivation(s, e.id)
    [] e.trigger = "ActivationFailed" -> FailActivation(s, e.id)
    [] e.trigger = "ClaimActivation" -> Refuse(s, e.d, "Busy")
    [] e.trigger = "DeliveryResolved" -> RejectFailedDelivery(s, e.failure)
    [] OTHER -> Ignore(s)

-----------------------------------------------------------------------------
(* Active.                                                                 *)

ReserveDelivery(s, d) ==
  Decision(Active(s.id, s.reservations + 1), << Deliver(s.id, d) >>)

(* ReservationCount::resolve: a resolution without a reservation is        *)
(* Unexpected and leaves the count alone.                                  *)
ResolveActiveDelivery(s, failure) ==
  RejectFailedDelivery(
    Active(s.id, IF s.reservations > 0 THEN s.reservations - 1 ELSE 0),
    failure)

\* defect: the fence is requested before the reservations resolve
BeginDrainEarlyFence(s) ==
  Decision(Draining(s.id, s.reservations), << EnqueueFence(s.id) >>)

BeginDrain(s) ==
  Decision(Draining(s.id, s.reservations),
           IF s.reservations = 0 THEN << EnqueueFence(s.id) >> ELSE << >>)

DecideActive(s, e) ==
  CASE e.trigger = "Dispatch" -> ReserveDelivery(s, e.d)
    [] e.trigger = "DeliveryResolved" /\ e.id = s.id ->
         ResolveActiveDelivery(s, e.failure)
    [] e.trigger = "DeliveryResolved" /\ e.id # s.id ->
         RejectFailedDelivery(s, e.failure)
    [] e.trigger = "BeginDrain" /\ e.id = s.id -> BeginDrain(s)
    [] e.trigger = "ActivationSucceeded" -> RetireStale(s, e.id)
    [] e.trigger = "ClaimActivation" -> Refuse(s, e.d, "Busy")
    [] OTHER -> Ignore(s)

-----------------------------------------------------------------------------
(* Draining.                                                               *)

\* defect: tests the count before the resolution, so the fence never comes
ResolveDrainingDeliveryOffByOne(s, failure) ==
  LET fence == IF s.reservations = 0 THEN << EnqueueFence(s.id) >> ELSE << >>
      left  == IF s.reservations > 0 THEN s.reservations - 1 ELSE 0
  IN  Decision(Draining(s.id, left),
               Rejections(failure, "Unavailable") \o fence)

(* The resolution that brings the reservations to zero requests the fence, *)
(* after its own rejection.                                                *)
ResolveDrainingDelivery(s, failure) ==
  LET fence == IF s.reservations = 1 THEN << EnqueueFence(s.id) >> ELSE << >>
      left  == IF s.reservations > 0 THEN s.reservations - 1 ELSE 0
  IN  Decision(Draining(s.id, left),
               Rejections(failure, "Unavailable") \o fence)

\* defect: the entry is inactive before its termination was observed
AcknowledgeFenceSkipping(s) ==
  IF s.reservations = 0
  THEN Decision(Inactive, << Retire(s.id, "Graceful") >>)
  ELSE Ignore(s)

AcknowledgeFence(s) ==
  IF s.reservations = 0
  THEN Decision(Retiring(s.id), << Retire(s.id, "Graceful") >>)
  ELSE Ignore(s)

ForceDrain(s) == Decision(Retiring(s.id), << Retire(s.id, "Forced") >>)

DecideDraining(s, e) ==
  CASE e.trigger \in {"Dispatch", "ClaimActivation"} ->
         Refuse(s, e.d, "Draining")
    [] e.trigger = "DeliveryResolved" /\ e.id = s.id ->
         ResolveDrainingDelivery(s, e.failure)
    [] e.trigger = "DeliveryResolved" /\ e.id # s.id ->
         RejectFailedDelivery(s, e.failure)
    [] e.trigger = "FenceAcknowledged" /\ e.id = s.id -> AcknowledgeFence(s)
    [] e.trigger = "ForceDrain" /\ e.id = s.id -> ForceDrain(s)
    [] e.trigger = "ActivationSucceeded" -> RetireStale(s, e.id)
    [] OTHER -> Ignore(s)

-----------------------------------------------------------------------------
(* Retiring (retiring.rs).                                                 *)

\* defect: any termination releases the slot
DecideRetiringAnyTermination(s, e) ==
  CASE e.trigger = "Terminated" -> Decision(Inactive, << RemoveEntry(s.id) >>)
    [] e.trigger \in {"Dispatch", "ClaimActivation"} ->
         Refuse(s, e.d, "Draining")
    [] e.trigger = "ActivationSucceeded" -> RetireStale(s, e.id)
    [] e.trigger = "DeliveryResolved" -> RejectFailedDelivery(s, e.failure)
    [] OTHER -> Ignore(s)

DecideRetiring(s, e) ==
  CASE e.trigger = "Terminated" /\ e.id = s.id ->
         Decision(Inactive, << RemoveEntry(s.id) >>)
    [] e.trigger \in {"Dispatch", "ClaimActivation"} ->
         Refuse(s, e.d, "Draining")
    [] e.trigger = "ActivationSucceeded" -> RetireStale(s, e.id)
    [] e.trigger = "DeliveryResolved" -> RejectFailedDelivery(s, e.failure)
    [] OTHER -> Ignore(s)

-----------------------------------------------------------------------------
Reduce(s, e) ==
  CASE s.phase = "Inactive"   -> DecideInactive(e)
    [] s.phase = "Activating" -> DecideActivating(s, e)
    [] s.phase = "Active"     -> DecideActive(s, e)
    [] s.phase = "Draining"   -> DecideDraining(s, e)
    [] s.phase = "Retiring"   -> DecideRetiring(s, e)

-----------------------------------------------------------------------------
(* Evidence (lifecycle/machine.rs): what the executable machine reports of *)
(* one step.                                                               *)

(* LifecycleEdge::endpoints; LIFECYCLE_TOPOLOGY declares exactly these.    *)
Edge(from, trigger, to) == [from |-> from, trigger |-> trigger, to |-> to]

LifecycleEdges ==
  {Edge("Inactive",   "ClaimActivation",     "Activating"),
   Edge("Activating", "ActivationSucceeded", "Active"),
   Edge("Activating", "ActivationFailed",    "Inactive"),
   Edge("Active",     "BeginDrain",          "Draining"),
   Edge("Draining",   "FenceAcknowledged",   "Retiring"),
   Edge("Draining",   "ForceDrain",          "Retiring"),
   Edge("Retiring",   "Terminated",          "Inactive")}

(* The triggers a phase handles only when the fact names its activation.   *)
ExactTriggers ==
  [Inactive   |-> {},
   Activating |-> {"CancelWaiter", "ActivationSucceeded", "ActivationFailed"},
   Active     |-> {"DeliveryResolved", "BeginDrain"},
   Draining   |-> {"DeliveryResolved", "FenceAcknowledged", "ForceDrain"},
   Retiring   |-> {"Terminated"}]

\* defect: a refused claim is reported as ignored
HandlesNoClaim(s, e) ==
  \/ e.trigger = "Dispatch"
  \/ e.trigger \in ExactTriggers[s.phase] /\ e.id = s.id

Handles(s, e) ==
  \/ e.trigger = "Dispatch"
  \/ e.trigger = "ClaimActivation" /\ s.phase # "Inactive"
  \/ e.trigger \in ExactTriggers[s.phase] /\ e.id = s.id

(* "Undeclared" stands for the expect() that no declared edge matches.     *)
Evidence(s, e) ==
  LET t == Reduce(s, e).slot
  IN  CASE s.phase # t.phase /\ Edge(s.phase, e.trigger, t.phase) \in LifecycleEdges -> "Traversed"
        [] s.phase # t.phase /\ Edge(s.phase, e.trigger, t.phase) \notin LifecycleEdges -> "Undeclared"
        [] s.phase = t.phase /\ Handles(s, e)  -> "SelfLoop"
        [] s.phase = t.phase /\ ~Handles(s, e) -> "Ignored"
=============================================================================
