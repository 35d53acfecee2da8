----------------------------- MODULE EntitySlot -----------------------------
(***************************************************************************)
(* One stable entity: its routing slot and the asynchronous work its       *)
(* effects start.  Every fact is one linearized step of the lifecycle      *)
(* machine; the effects of the step become tasks, which report back later, *)
(* in any order, possibly after the activation they belong to is gone.     *)
(*                                                                         *)
(* What the interpreter's tasks may report is external to the slot: an     *)
(* activation attempt may fail and then succeed late with a live lease, a  *)
(* delivery enqueues or gives its command back, a fence is acknowledged or *)
(* fails, an exact incarnation terminates.  Callers may cancel, passivate  *)
(* or force any activation ever issued, current or not.                    *)
(***************************************************************************)
EXTENDS Lifecycle, FiniteSets

CONSTANTS Dispatches,      \* the dispatch identities callers may use
          MaxActivation    \* bound on the activation identities issued

ASSUME MaxActivationAssumption == MaxActivation \in Nat

VARIABLES slot,      \* the EntitySlot
          lastId,    \* last activation identity the directory issued
          tasks,     \* effects being carried out
          issued,    \* dispatches whose command entered the slot
          accepted,  \* commands a mailbox accepted
          returned,  \* commands given back with a refusal
          cancelled, \* commands dropped with their cancelled caller
          failed,    \* activations that reported failure
          granted,   \* activations that produced a lease
          acked,     \* activations whose fence was acknowledged
          retired    \* activations whose exact termination was reported

commands == <<issued, accepted, returned, cancelled>>
history  == <<failed, granted, acked, retired>>
vars     == <<slot, lastId, tasks, commands, history>>

ActivationIds == 1 .. MaxActivation

Known == 1 .. lastId

DeliverTasks(id) == {t \in tasks : t.type = "Deliver" /\ t.id = id}

Waiting   == Range(slot.waiters)
InFlight  == {t.d : t \in {u \in tasks : u.type = "Deliver"}}

-----------------------------------------------------------------------------
Asynchronous == {"StartActivation", "Deliver", "EnqueueFence", "Retire"}

Started(effects) == {fx \in Range(effects) : fx.type \in Asynchronous}

Refused(effects) ==
  {fx.d : fx \in {gx \in Range(effects) : gx.type = "Reject"}}

(* Reduce the fact, install the successor and interpret its effects.       *)
Submit(e, finished) ==
  LET r == Reduce(slot, e)
  IN  /\ slot' = r.slot
      /\ tasks' = (tasks \ finished) \cup Started(r.effects)
      /\ returned' = returned \cup Refused(r.effects)

-----------------------------------------------------------------------------
Init ==
  /\ slot = Inactive
  /\ lastId = 0
  /\ tasks = {}
  /\ issued = {} /\ accepted = {} /\ returned = {} /\ cancelled = {}
  /\ failed = {} /\ granted = {} /\ acked = {} /\ retired = {}

(* A dispatch that finds no live slot claims a fresh activation.           *)
Claim(d) ==
  /\ slot.phase = "Inactive"
  /\ d \notin issued
  /\ lastId < MaxActivation
  /\ lastId' = lastId + 1
  /\ issued' = issued \cup {d}
  /\ Submit([trigger |-> "ClaimActivation", id |-> lastId + 1, d |-> d], {})
  /\ UNCHANGED <<accepted, cancelled, history>>

Dispatch(d) ==
  /\ d \notin issued
  /\ issued' = issued \cup {d}
  /\ Submit([trigger |-> "Dispatch", d |-> d], {})
  /\ UNCHANGED <<lastId, accepted, cancelled, history>>

(* The caller looked its slot up before the entry was removed: that slot   *)
(* is Inactive for good, whatever now represents the entity.               *)
DispatchRemoved(d) ==
  /\ d \notin issued
  /\ lastId > 0
  /\ issued' = issued \cup {d}
  /\ returned' =
       returned \cup Refused(Reduce(Inactive, [trigger |-> "Dispatch", d |-> d]).effects)
  /\ UNCHANGED <<slot, lastId, tasks, accepted, cancelled, history>>

Cancel(id, d) ==
  /\ id \in Known
  /\ d \in issued
  /\ Submit([trigger |-> "CancelWaiter", id |-> id, d |-> d], {})
  /\ cancelled' = cancelled \cup (Range(slot.waiters) \ Range(slot'.waiters))
  /\ UNCHANGED <<lastId, issued, accepted, history>>

ActivationSucceeded(id) ==
  /\ StartActivation(id) \in tasks
  /\ granted' = granted \cup {id}
  /\ Submit([trigger |-> "ActivationSucceeded", id |-> id],
            {StartActivation(id)})
  /\ UNCHANGED <<lastId, issued, accepted, cancelled, failed, acked, retired>>

(* The attempt stays outstanding: its success may still arrive late.       *)
ActivationFailed(id) ==
  /\ StartActivation(id) \in tasks
  /\ id \notin failed
  /\ failed' = failed \cup {id}
  /\ Submit([trigger |-> "ActivationFailed", id |-> id], {})
  /\ UNCHANGED <<lastId, issued, accepted, cancelled, granted, acked, retired>>

Delivered(id, d) ==
  /\ Deliver(id, d) \in tasks
  /\ accepted' = accepted \cup {d}
  /\ Submit([trigger |-> "DeliveryResolved", id |-> id, failure |-> << >>],
            {Deliver(id, d)})
  /\ UNCHANGED <<lastId, issued, cancelled, history>>

DeliveryFailed(id, d) ==
  /\ Deliver(id, d) \in tasks
  /\ Submit([trigger |-> "DeliveryResolved", id |-> id, failure |-> << d >>],
            {Deliver(id, d)})
  /\ UNCHANGED <<lastId, issued, accepted, cancelled, history>>

Passivate(id) ==
  /\ id \in Known
  /\ Submit([trigger |-> "BeginDrain", id |-> id], {})
  /\ UNCHANGED <<lastId, issued, accepted, cancelled, history>>

FenceAcknowledged(id) ==
  /\ EnqueueFence(id) \in tasks
  /\ acked' = acked \cup {id}
  /\ Submit([trigger |-> "FenceAcknowledged", id |-> id], {EnqueueFence(id)})
  /\ UNCHANGED <<lastId, issued, accepted, cancelled, failed, granted, retired>>

FenceFailed(id) ==
  /\ EnqueueFence(id) \in tasks
  /\ Submit([trigger |-> "ForceDrain", id |-> id], {EnqueueFence(id)})
  /\ UNCHANGED <<lastId, issued, accepted, cancelled, history>>

(* LocalDirectory::force_drain, at any point of any activation.            *)
ForceRetirement(id) ==
  /\ id \in Known
  /\ Submit([trigger |-> "ForceDrain", id |-> id], {})
  /\ UNCHANGED <<lastId, issued, accepted, cancelled, history>>

Terminated(id, mode) ==
  /\ Retire(id, mode) \in tasks
  /\ retired' = retired \cup {id}
  /\ Submit([trigger |-> "Terminated", id |-> id], {Retire(id, mode)})
  /\ UNCHANGED <<lastId, issued, accepted, cancelled, failed, granted, acked>>

Next ==
  \/ \E d \in Dispatches : Claim(d) \/ Dispatch(d) \/ DispatchRemoved(d)
  \/ \E id \in ActivationIds :
       \/ \E d \in Dispatches :
            Cancel(id, d) \/ Delivered(id, d) \/ DeliveryFailed(id, d)
       \/ ActivationSucceeded(id) \/ ActivationFailed(id)
       \/ Passivate(id) \/ ForceRetirement(id)
       \/ FenceAcknowledged(id) \/ FenceFailed(id)
       \/ \E mode \in {"Graceful", "Forced"} : Terminated(id, mode)

Spec == Init /\ [][Next]_vars

(* Every spawned task runs to completion (LocalEntityRuntime::spawn), so   *)
(* each outstanding attempt, delivery, fence and retirement reports.       *)
(* Nothing makes callers dispatch, cancel, passivate or force, and a late  *)
(* success of a failed attempt may never come.                             *)
Fairness ==
  \A id \in ActivationIds :
    /\ WF_vars(id \notin failed /\ (ActivationSucceeded(id) \/ ActivationFailed(id)))
    /\ \A d \in Dispatches : WF_vars(Delivered(id, d) \/ DeliveryFailed(id, d))
    /\ WF_vars(FenceAcknowledged(id) \/ FenceFailed(id))
    /\ \A mode \in {"Graceful", "Forced"} : WF_vars(Terminated(id, mode))

FairSpec == Spec /\ Fairness

-----------------------------------------------------------------------------
SlotType ==
  /\ slot \in {Inactive, Activating(slot.id, slot.waiters),
               Active(slot.id, slot.reservations),
               Draining(slot.id, slot.reservations), Retiring(slot.id)}
  /\ slot # Inactive => slot.id \in Known
  /\ slot.waiters \in Seq(Dispatches)
  /\ slot.reservations \in Nat

TaskType ==
  {StartActivation(id) : id \in Known}
    \cup {Deliver(id, d) : id \in Known, d \in Dispatches}
    \cup {EnqueueFence(id) : id \in Known}
    \cup {Retire(id, mode) : id \in Known, mode \in {"Graceful", "Forced"}}

(* Every variable holds a value of its type.                               *)
TypeOK ==
  /\ lastId \in 0 .. MaxActivation
  /\ SlotType
  /\ tasks \subseteq TaskType
  /\ \A cs \in {issued, accepted, returned, cancelled} : cs \subseteq Dispatches
  /\ \A ids \in {failed, granted, acked, retired} : ids \subseteq Known

Admitting(id) == slot.id = id /\ slot.phase \in {"Activating", "Active"}

Fenced(id) == EnqueueFence(id) \in tasks \/ id \in acked

(* Where a command can be: with a waiter, in a delivery task, or settled.  *)
Owner == [waiting   |-> Waiting,  inFlight |-> InFlight,
          accepted  |-> accepted, returned |-> returned,
          cancelled |-> cancelled]

(* Command custody (decide_* and reject_failed_delivery): whatever order   *)
(* activation results, cancellations, drains and late deliveries arrive    *)
(* in, a command that entered the slot is in exactly one place: no refusal *)
(* path drops it, none returns or delivers it twice.                       *)
CommandCustody ==
  /\ issued = UNION {Owner[p] : p \in DOMAIN Owner}
  /\ \A p, q \in DOMAIN Owner : p # q => Owner[p] \cap Owner[q] = {}
  /\ \A t, u \in tasks :
       t.type = "Deliver" /\ u.type = "Deliver" /\ t.d = u.d => t = u

Installed == IF slot.phase \in {"Active", "Draining"} THEN {slot.id} ELSE {}

Retirements(id) == {t \in tasks : t.type = "Retire" /\ t.id = id}

(* Affine leases (finish_activation, retire_stale, force_drain): the lease *)
(* of every activation that succeeded, on time or late, is held by the     *)
(* slot, or is being retired exactly once, or has terminated.              *)
LeaseCustody ==
  \A id \in Known :
    /\ id \in granted <=>
         id \in Installed \/ Retirements(id) # {} \/ id \in retired
    /\ id \in Installed => Retirements(id) = {} /\ id \notin retired
    /\ id \in retired => Retirements(id) = {}
    /\ \A t, u \in Retirements(id) : t = u

(* The reservation count of an admitting or draining slot is the number of *)
(* its own deliveries still unresolved: deliveries of an earlier forced    *)
(* incarnation never consume a reservation of the current one.             *)
ReservationsExact ==
  slot.phase \in {"Active", "Draining"} =>
    slot.reservations = Cardinality(DeliverTasks(slot.id))

(* The fence is behind every command (begin_drain,                         *)
(* resolve_draining_delivery): once the fence of an activation has been    *)
(* requested or acknowledged, none of its deliveries is unresolved; so a   *)
(* graceful retirement, which needs the acknowledgement, follows the       *)
(* resolution of every delivery.                                           *)
FenceIsLast ==
  \A id \in Known :
    /\ Fenced(id) => DeliverTasks(id) = {}
    /\ Retire(id, "Graceful") \in tasks => id \in acked

(* Waiting callers never exceed waiter_limit, and only wait for an         *)
(* activation whose attempt can still resolve them.                        *)
WaitersServed ==
  /\ Len(slot.waiters) <= WaiterLimit
  /\ slot.phase = "Activating" =>
       StartActivation(slot.id) \in tasks /\ slot.id \notin failed

(* Admission never reopens: no step starts a new delivery to an activation *)
(* that has begun draining, failed, retired or been superseded.            *)
AdmissionNeverReopens ==
  [][\A id \in Known : ~Admitting(id) => DeliverTasks(id)' \subseteq DeliverTasks(id)]_vars

(* Exact departure: the slot lets an activation go only on that            *)
(* activation's own failure or its own termination, never on a stale fact  *)
(* about another one, and is then Inactive.                                *)
ExactDeparture ==
  [][slot.id # NoActivation /\ slot'.id # slot.id =>
       /\ slot' = Inactive
       /\ slot.id \in (failed' \ failed) \cup (retired' \ retired)]_vars

Settled == accepted \cup returned \cup cancelled

(* Every command that entered the slot is eventually accepted, returned or *)
(* cancelled.                                                              *)
CommandsSettle == \A d \in Dispatches : d \in issued ~> d \in Settled

(* Every drain that began ends with the incarnation gone from the slot.    *)
DrainCompletes ==
  \A id \in ActivationIds :
    (slot.phase = "Draining" /\ slot.id = id) ~> slot.id # id
=============================================================================
