-------------------------- MODULE LifecycleMachine --------------------------
(***************************************************************************)
(* The executable lifecycle machine of one slot under arbitrary input      *)
(* (crates/entity/src/lifecycle/machine.rs): any fact, for any activation, *)
(* in any order, whether or not the runtime could produce it.  EntitySlot  *)
(* constrains the order of the facts; here only the algebra is on trial.   *)
(***************************************************************************)
EXTENDS Lifecycle, FiniteSets

CONSTANTS Ids,              \* activation identities facts may name
          Dispatches,       \* dispatch identities facts may carry
          MaxReservations   \* bound on the reservations of the instance

ASSUME IdsAssumption == NoActivation \notin Ids

VARIABLES slot,   \* EntitySlot
          input,  \* the last fact, << >> before the first
          output  \* LifecycleOutput of the last step

vars == <<slot, input, output>>

Failures == {<< >>} \cup {<< d >> : d \in Dispatches}

(* SlotEvent: every value an input can take.                               *)
Events ==
  [trigger : {"ClaimActivation", "CancelWaiter"}, id : Ids, d : Dispatches]
    \cup [trigger : {"Dispatch"}, d : Dispatches]
    \cup [trigger : {"DeliveryResolved"}, id : Ids, failure : Failures]
    \cup [trigger : {"ActivationSucceeded", "ActivationFailed", "BeginDrain",
                     "FenceAcknowledged", "ForceDrain", "Terminated"},
          id : Ids]

-----------------------------------------------------------------------------
Init ==
  /\ slot = Inactive
  /\ input = << >>
  /\ output = [effects |-> << >>, evidence |-> "None", from |-> Inactive]

(* The directory issues a dispatch identity once (allocate).               *)
Fresh(e) ==
  e.trigger \in {"ClaimActivation", "Dispatch"} => e.d \notin Range(slot.waiters)

(* transition: classify the fact against the state before the step, reduce *)
(* it, and report the edge by its endpoints.  `from` keeps the state       *)
(* before the step for the properties below.                               *)
Step(e) ==
  LET r == Reduce(slot, e)
  IN  /\ Fresh(e)
      /\ r.slot.reservations <= MaxReservations
      /\ slot' = r.slot
      /\ input' = e
      /\ output' = [effects |-> r.effects, evidence |-> Evidence(slot, e),
                    from |-> slot]

Next == \E e \in Events : Step(e)

Spec == Init /\ [][Next]_vars

-----------------------------------------------------------------------------
Stepped == input # << >>

Kind(type) == {fx \in Range(output.effects) : fx.type = type}

(* The expect() of transition never fires: every change of phase any fact  *)
(* can cause is an edge LIFECYCLE_TOPOLOGY declares, and a change of       *)
(* phase is never caused by a fact that `handles` calls irrelevant.        *)
EdgesDeclared ==
  Stepped =>
    /\ output.evidence # "Undeclared"
    /\ output.evidence = "Traversed" =>
         Handles(output.from, input) \/ input.trigger = "ClaimActivation"

(* An ignored fact never changes the slot, and may only clean up: give     *)
(* back the command, or retire the lease, that it carried itself.          *)
IgnoredIsInert ==
  output.evidence = "Ignored" =>
    /\ slot = output.from
    /\ Range(output.effects) = Kind("Reject") \cup Kind("Retire")
    /\ \A fx \in Kind("Reject") : input.trigger = "DeliveryResolved" /\ << fx.d >> = input.failure
    /\ \A fx \in Kind("Retire") : input.trigger = "ActivationSucceeded" /\ fx.id = input.id

CarriedCommand ==
  CASE input.trigger \in {"ClaimActivation", "Dispatch"} -> << input.d >>
    [] input.trigger = "DeliveryResolved"                -> input.failure
    [] OTHER                                             -> << >>

Count(s, x) == Cardinality({i \in DOMAIN s : s[i] = x})

(* How often a batch of effects delivers or rejects command d, how often   *)
(* it retires the lease of activation id, and where it requests a fence.   *)
Returned(effects, d) ==
  Cardinality({i \in DOMAIN effects :
                 effects[i].type \in {"Deliver", "Reject"} /\ effects[i].d = d})

Retired(effects, id) ==
  Cardinality({i \in DOMAIN effects : effects[i].type = "Retire" /\ effects[i].id = id})

FencesIn(effects) == {i \in DOMAIN effects : effects[i].type = "EnqueueFence"}

(* One step conserves commands, counted with multiplicity: the waiters and *)
(* the fact's own command are afterwards the waiters, the deliveries and   *)
(* the rejections; only a cancellation drops one, the one it names, and    *)
(* only as a waiter of the activation it names.                            *)
CommandsConserved ==
  Stepped =>
    LET dropped(d) == IF /\ input.trigger = "CancelWaiter" /\ input.d = d
                         /\ input.id = output.from.id /\ d \in Range(output.from.waiters)
                      THEN 1 ELSE 0
    IN  \A d \in Dispatches :
          Count(output.from.waiters, d) + Count(CarriedCommand, d)
            = Count(slot.waiters, d) + Returned(output.effects, d) + dropped(d)

LeaseOf(s) == IF s.phase \in {"Active", "Draining"} THEN << s.id >> ELSE << >>

CarriedLease ==
  IF input.trigger = "ActivationSucceeded" THEN << input.id >> ELSE << >>

(* One step conserves leases: the installed one and the one the fact       *)
(* brings are afterwards installed or handed to a retirement.              *)
LeasesConserved ==
  Stepped =>
    \A id \in Ids :
      Count(LeaseOf(output.from), id) + Count(CarriedLease, id)
        = Count(LeaseOf(slot), id) + Retired(output.effects, id)

(* A step after which a draining slot has no reservation left requests the *)
(* fence, once, behind the rejection of the command it resolves; no other  *)
(* step requests one.                                                      *)
FencedOnce ==
  Stepped =>
    LET awaits(s) == s.phase = "Draining" /\ s.reservations = 0
    IN  IF awaits(slot) /\ ~awaits(output.from)
        THEN /\ FencesIn(output.effects) = {Len(output.effects)}
             /\ Last(output.effects) = EnqueueFence(slot.id)
        ELSE FencesIn(output.effects) = {}

(* Evidence is honest: whatever fact arrives in whatever phase, transition *)
(* finds an edge for every change of phase and calls nothing ignored that  *)
(* had a consequence for the slot.                                         *)
EvidenceHonest == EdgesDeclared /\ IgnoredIsInert

(* One reduction conserves what it is entrusted with: the commands and the *)
(* leases of the slot and of the fact, and the one fence of a drain.       *)
ReductionConserves == CommandsConserved /\ LeasesConserved /\ FencedOnce
=============================================================================
