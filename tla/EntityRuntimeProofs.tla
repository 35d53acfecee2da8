------------------------ MODULE EntityRuntimeProofs ------------------------
(***************************************************************************)
(* Proofs about EntityRuntime for every set of entities, dispatches and    *)
(* passivations, every number of activations and of panics.                *)
(***************************************************************************)
EXTENDS EntityRuntime, NumberedSequences, SequenceTheorems,
        FiniteSetTheorems, WellFoundedInduction, TLAPS

(* An entry is only removed for a slot that has let its activation go.     *)
CalmEffect == {fx \in EffectType : fx.type # "Remove"}

RemovesAreLate ==
  \A s \in ActivationIds : Live(s) => outputs[s] \in Seq(Seq(CalmEffect) \ {<< >>})

(* Nothing happens in a slot before its activation is issued.              *)
Unissued ==
  \A s \in ActivationIds : s > lastId => ~Live(s) /\ outputs[s] = << >>

IInv == TypeOK /\ OneLiveIncarnation /\ RemovesAreLate /\ Unissued

-----------------------------------------------------------------------------
(* Effects and batches.                                                    *)

LEMMA EffectFields ==
  ASSUME NEW fx \in EffectType
  PROVE  /\ fx.type \in Asynchronous => fx \in TaskType
         /\ fx.type \in {"Deliver", "Reject"} => fx.d \in Dispatches
BY DEF EffectType, TaskType, Asynchronous, StartActivation, Deliver, Reject,
       EnqueueFence, Retire, RemoveEntry, Modes

LEMMA EffectTyped ==
  ASSUME NEW id \in ActivationIds
  PROVE  /\ StartActivation(id) \in CalmEffect
         /\ EnqueueFence(id) \in CalmEffect
         /\ \A mode \in Modes : Retire(id, mode) \in CalmEffect
         /\ \A d \in Dispatches : Deliver(id, d) \in CalmEffect
         /\ RemoveEntry(id) \in EffectType
BY DEF CalmEffect, EffectType, TaskType, StartActivation, Deliver, EnqueueFence,
       Retire, RemoveEntry

LEMMA RejectTyped ==
  ASSUME NEW d \in Dispatches, NEW reason \in Reasons
  PROVE  Reject(d, reason) \in CalmEffect
BY DEF CalmEffect, EffectType, Reject

LEMMA StartedTyped ==
  ASSUME NEW effects \in Seq(EffectType)
  PROVE  /\ Started(effects) \subseteq TaskType
         /\ Refused(effects) \subseteq Dispatches
         /\ Carried(effects) \subseteq Dispatches
<1>1. \A fx \in Range(effects) : fx \in EffectType
  BY DEF Range
<1> QED BY <1>1, EffectFields DEF Started, Refused, Carried

LEMMA OneEffect ==
  ASSUME NEW E, NEW fx \in E
  PROVE  << fx >> \in Seq(E)
OBVIOUS

LEMMA CalmIsTyped ==
  /\ CalmEffect \subseteq EffectType
  /\ Seq(CalmEffect) \subseteq Seq(EffectType)
  /\ Seq(Seq(CalmEffect) \ {<< >>}) \subseteq Seq(Seq(EffectType) \ {<< >>})
<1>1. CalmEffect \subseteq EffectType
  BY DEF CalmEffect
<1>2. Seq(CalmEffect) \subseteq Seq(EffectType)
  BY <1>1
<1>3. Seq(CalmEffect) \ {<< >>} \subseteq Seq(EffectType) \ {<< >>}
  BY <1>2
<1>4. \A q \in Seq(Seq(CalmEffect) \ {<< >>}) : q \in Seq(Seq(EffectType) \ {<< >>})
  BY <1>3
<1> QED BY <1>1, <1>2, <1>4

LEMMA BatchesTyped ==
  ASSUME NEW E, NEW effects \in Seq(E)
  PROVE  Batches(effects) \in Seq(Seq(E) \ {<< >>})
<1>1. CASE effects = << >>
  BY <1>1 DEF Batches
<1>2. CASE effects # << >>
  <2>1. effects \in Seq(E) \ {<< >>}
    BY <1>2
  <2>2. << effects >> \in Seq(Seq(E) \ {<< >>})
    BY <2>1
  <2> QED BY <1>2, <2>2 DEF Batches
<1> QED BY <1>1, <1>2

(* What a queue of batches is after its first effect was taken.            *)
LEMMA QueueTyped ==
  ASSUME NEW E, NEW q \in Seq(Seq(E) \ {<< >>}), q # << >>
  PROVE  /\ Head(q) \in Seq(E) \ {<< >>}
         /\ Head(Head(q)) \in E
         /\ Tail(q) \in Seq(Seq(E) \ {<< >>})
         /\ Batches(Tail(Head(q))) \o Tail(q) \in Seq(Seq(E) \ {<< >>})
<1> DEFINE B == Seq(E) \ {<< >>}
<1>1. Head(q) \in B /\ Tail(q) \in Seq(B)
  <2> HIDE DEF B
  <2> QED BY DEF B
<1>2. Head(Head(q)) \in E /\ Tail(Head(q)) \in Seq(E)
  BY <1>1
<1>3. Batches(Tail(Head(q))) \in Seq(B)
  BY <1>2, BatchesTyped
<1>4. Batches(Tail(Head(q))) \o Tail(q) \in Seq(B)
  <2> HIDE DEF B
  <2> QED BY <1>1, <1>3
<1> QED BY <1>1, <1>2, <1>4

LEMMA QueueAppended ==
  ASSUME NEW E, NEW q \in Seq(Seq(E) \ {<< >>}), NEW effects \in Seq(E)
  PROVE  q \o Batches(effects) \in Seq(Seq(E) \ {<< >>})
<1> DEFINE B == Seq(E) \ {<< >>}
<1>1. Batches(effects) \in Seq(B)
  BY BatchesTyped
<1> HIDE DEF B
<1>2. q \in Seq(B)
  BY DEF B
<1>3. q \o Batches(effects) \in Seq(B)
  BY <1>1, <1>2
<1> QED BY <1>3 DEF B

LEMMA RejectionsTyped ==
  ASSUME NEW ds \in Seq(Dispatches), NEW reason \in Reasons
  PROVE  Rejections(ds, reason) \in Seq(CalmEffect)
<1>1. \A i \in 1 .. Len(ds) : Rejections(ds, reason)[i] \in CalmEffect
  BY RejectTyped DEF Rejections
<1>2. DOMAIN ds = 1 .. Len(ds) /\ Len(ds) \in Nat
  OBVIOUS
<1>3. Rejections(ds, reason) \in [1 .. Len(ds) -> CalmEffect]
  BY <1>1, <1>2 DEF Rejections
<1> QED BY <1>2, <1>3, SeqDef

LEMMA DeliveriesTyped ==
  ASSUME NEW ds \in Seq(Dispatches), NEW id \in ActivationIds
  PROVE  Deliveries(id, ds) \in Seq(CalmEffect)
<1>1. \A i \in 1 .. Len(ds) : Deliveries(id, ds)[i] \in CalmEffect
  BY EffectTyped DEF Deliveries
<1>2. DOMAIN ds = 1 .. Len(ds) /\ Len(ds) \in Nat
  OBVIOUS
<1>3. Deliveries(id, ds) \in [1 .. Len(ds) -> CalmEffect]
  BY <1>1, <1>2 DEF Deliveries
<1> QED BY <1>2, <1>3, SeqDef

-----------------------------------------------------------------------------
(* What one reduction does to a slot that already exists.                  *)

LEMMA MinExists ==
  ASSUME NEW I, I \subseteq Nat, I # {}
  PROVE  Min(I) \in I
<1> DEFINE R == OpToRel(<, Nat)
<1>1. IsWellFoundedOn(R, Nat)
  BY NatLessThanWellFounded
<1>2. \A x, y \in Nat : << y, x >> \in R <=> y < x
  BY DEF OpToRel
<1> HIDE DEF R
<1>3. \E x \in I : \A y \in I : ~ (<< y, x >> \in R)
  BY <1>1, WFMin
<1>4. PICK x \in I : \A y \in I : ~ (<< y, x >> \in R)
  BY <1>3
<1>5. ASSUME NEW y \in I PROVE x <= y
  <2>1. x \in Nat /\ y \in Nat
    OBVIOUS
  <2>2. ~ (y < x)
    BY <1>2, <1>4, <2>1
  <2> QED BY <2>1, <2>2
<1> QED BY <1>5 DEF Min

LEMMA WaitersTyped ==
  ASSUME NEW ws \in Seq(Dispatches), NEW d
  PROVE  RemoveFirst(ws, d) \in Seq(Dispatches)
<1> DEFINE I == {i \in 1 .. Len(ws) : ws[i] = d}
<1>1. CASE I = {}
  <2>1. RemoveFirst(ws, d) = ws
    BY <1>1 DEF RemoveFirst
  <2> QED BY <2>1
<1>2. CASE I # {}
  <2>1. I \subseteq Nat
    OBVIOUS
  <2>2. Min(I) \in 1 .. Len(ws)
    <3>1. Min(I) \in I
      BY <1>2, <2>1, MinExists
    <3> QED BY <3>1
  <2>3. SelectInSeq(ws, LAMBDA v : v = d) = Min(I)
    BY <1>2 DEF SelectInSeq
  <2> DEFINE k == Min(I)
             p == SubSeq(ws, 1, k - 1)
             q == SubSeq(ws, k + 1, Len(ws))
  <2>4. RemoveFirst(ws, d) = p \o q
    BY <1>2, <2>3 DEF RemoveFirst, RemoveAt
  <2> HIDE DEF k, I
  <2>5. k \in 1 .. Len(ws)
    BY <2>2 DEF k
  <2>6. p \in Seq(Dispatches) /\ q \in Seq(Dispatches)
    BY <2>5
  <2> QED BY <2>4, <2>6
<1> QED BY <1>1, <1>2

(* What a reduction promises of a slot s that no claim can reach.          *)
Outcome(s, r) ==
  /\ r.slot \in SlotType
  /\ r.effects \in Seq(EffectType)
  /\ s.phase = "Inactive" => r.slot.phase = "Inactive"
  /\ r.slot.phase # "Inactive" => r.slot.id = s.id /\ r.effects \in Seq(CalmEffect)

Plain(s, r) ==
  /\ r.slot \in SlotType
  /\ r.effects \in Seq(CalmEffect)
  /\ r.slot.phase = s.phase /\ r.slot.id = s.id

LEMMA IgnorePlain ==
  ASSUME NEW s \in SlotType
  PROVE  Plain(s, Ignore(s))
BY DEF Plain, Ignore, Decision

LEMMA RefusePlain ==
  ASSUME NEW s \in SlotType, NEW d \in Dispatches, NEW reason \in Reasons
  PROVE  Plain(s, Refuse(s, d, reason))
<1>1. << Reject(d, reason) >> \in Seq(CalmEffect)
  BY RejectTyped, OneEffect
<1> QED BY <1>1 DEF Plain, Refuse, Decision

LEMMA RetireStalePlain ==
  ASSUME NEW s \in SlotType, NEW id \in ActivationIds
  PROVE  Plain(s, RetireStale(s, id))
<1>1. Retire(id, "Forced") \in CalmEffect
  BY EffectTyped DEF Modes
<1>2. << Retire(id, "Forced") >> \in Seq(CalmEffect)
  BY <1>1, OneEffect
<1> QED BY <1>2 DEF Plain, RetireStale, Decision

Failures == {<< >>} \cup {<< d >> : d \in Dispatches}

LEMMA RejectFailedPlain ==
  ASSUME NEW s \in SlotType, NEW failure \in Failures
  PROVE  /\ Rejections(failure, "Unavailable") \in Seq(CalmEffect)
         /\ Plain(s, RejectFailedDelivery(s, failure))
<1>1. failure \in Seq(Dispatches)
  <2>1. CASE failure = << >>
    BY <2>1
  <2>2. CASE \E d \in Dispatches : failure = << d >>
    BY <2>2, OneEffect
  <2> QED BY <2>1, <2>2 DEF Failures
<1>2. Rejections(failure, "Unavailable") \in Seq(CalmEffect)
  BY <1>1, RejectionsTyped DEF Reasons
<1> QED BY <1>2 DEF Plain, RejectFailedDelivery, Decision

Events == ReportedType \cup [trigger : {"Dispatch"}, d : Dispatches]

LEMMA EventFields ==
  ASSUME NEW e \in Events
  PROVE  /\ e.trigger # "ClaimActivation"
         /\ e.trigger \in {"Dispatch", "CancelWaiter"} => e.d \in Dispatches
         /\ e.trigger # "Dispatch" => e.id \in ActivationIds
         /\ e.trigger = "DeliveryResolved" => e.failure \in Failures
BY DEF Events, ReportedType, Failures

LEMMA SlotTyped ==
  ASSUME lastId \in Nat
  PROVE  /\ Inactive \in SlotType
         /\ \A id \in 0 .. lastId : Retiring(id) \in SlotType
         /\ \A id \in 0 .. lastId, n \in Nat :
              Active(id, n) \in SlotType /\ Draining(id, n) \in SlotType
         /\ \A id \in 0 .. lastId, ws \in Seq(Dispatches) : Activating(id, ws) \in SlotType
<1>1. << >> \in Seq(Dispatches)
  OBVIOUS
<1> QED
  BY <1>1 DEF SlotType, Slot, Phases, NoActivation, Inactive, Activating, Active,
              Draining, Retiring

LEMMA PlainOutcome ==
  ASSUME NEW s, NEW r, Plain(s, r)
  PROVE  Outcome(s, r)
BY CalmIsTyped DEF Plain, Outcome

LEMMA InactiveOutcome ==
  ASSUME lastId \in Nat, NEW e \in Events
  PROVE  Plain(Inactive, DecideInactive(e))
<1>1. Inactive \in SlotType
  BY SlotTyped
<1>2. CASE e.trigger = "Dispatch"
  BY <1>1, <1>2, EventFields, RefusePlain DEF DecideInactive, Reasons
<1>3. CASE e.trigger = "ActivationSucceeded"
  BY <1>1, <1>3, EventFields, RetireStalePlain DEF DecideInactive
<1>4. CASE e.trigger = "DeliveryResolved"
  BY <1>1, <1>4, EventFields, RejectFailedPlain DEF DecideInactive
<1>5. CASE e.trigger \notin {"Dispatch", "ActivationSucceeded", "DeliveryResolved"}
  BY <1>1, <1>5, EventFields, IgnorePlain DEF DecideInactive
<1> QED BY <1>2, <1>3, <1>4, <1>5

LEMMA ActivatingOutcome ==
  ASSUME lastId \in Nat, NEW s \in SlotType, s.phase = "Activating", s.id \in ActivationIds,
         NEW e \in Events
  PROVE  Outcome(s, DecideActivating(s, e))
<1> DEFINE r == DecideActivating(s, e)
<1>0. /\ s.id \in 0 .. lastId
      /\ s.waiters \in Seq(Dispatches)
      /\ Len(s.waiters) \in Nat
      /\ << >> \in Seq(CalmEffect)
  BY DEF SlotType
<1>1. CASE e.trigger = "Dispatch"
  <2>1. e.d \in Dispatches
    BY <1>1, EventFields
  <2>2. Append(s.waiters, e.d) \in Seq(Dispatches)
    BY <1>0, <2>1
  <2>3. Activating(s.id, Append(s.waiters, e.d)) \in SlotType
    BY <1>0, <2>2, SlotTyped
  <2>4. Plain(s, Refuse(s, e.d, "Busy"))
    BY <2>1, RefusePlain DEF Reasons
  <2>5. Plain(s, Ignore(Activating(s.id, Append(s.waiters, e.d))))
    BY <1>0, <2>3 DEF Plain, Ignore, Decision, Activating, Slot
  <2> QED BY <1>1, <2>4, <2>5, PlainOutcome DEF DecideActivating, AdmitWaiter
<1>2. CASE e.trigger = "CancelWaiter"
  <2>1. RemoveFirst(s.waiters, e.d) \in Seq(Dispatches)
    BY <1>0, WaitersTyped
  <2>2. Activating(s.id, RemoveFirst(s.waiters, e.d)) \in SlotType
    BY <1>0, <2>1, SlotTyped
  <2>3. Plain(s, Ignore(Activating(s.id, RemoveFirst(s.waiters, e.d))))
    BY <1>0, <2>2 DEF Plain, Ignore, Decision, Activating, Slot
  <2> QED BY <1>2, <2>3, IgnorePlain, PlainOutcome DEF DecideActivating, CancelWaiter
<1>3. CASE e.trigger = "ActivationSucceeded"
  <2>1. e.id \in ActivationIds
    BY <1>3, EventFields
  <2>2. CASE e.id = s.id
    <3>1. Active(e.id, Len(s.waiters)) \in SlotType
      BY <1>0, <2>2, SlotTyped
    <3>2. Deliveries(e.id, s.waiters) \in Seq(CalmEffect)
      BY <1>0, <2>1, DeliveriesTyped
    <3>3. r = Decision(Active(e.id, Len(s.waiters)), Deliveries(e.id, s.waiters))
      BY <1>3, <2>2 DEF DecideActivating, FinishActivation
    <3> QED BY <2>2, <3>1, <3>2, <3>3, CalmIsTyped DEF Outcome, Decision, Active, Slot
  <2>3. CASE e.id # s.id
    BY <1>3, <2>1, <2>3, RetireStalePlain, PlainOutcome DEF DecideActivating, FinishActivation
  <2> QED BY <2>2, <2>3
<1>4. CASE e.trigger = "ActivationFailed"
  <2>1. e.id \in ActivationIds
    BY <1>4, EventFields
  <2>2. CASE e.id = s.id
    <3>1. Inactive \in SlotType
      BY <1>0, SlotTyped
    <3>2. Rejections(s.waiters, "Unavailable") \in Seq(EffectType)
      BY <1>0, RejectionsTyped, CalmIsTyped DEF Reasons
    <3>3. Append(Rejections(s.waiters, "Unavailable"), RemoveEntry(e.id)) \in Seq(EffectType)
      BY <2>1, <3>2, EffectTyped
    <3> QED
      BY <1>4, <2>2, <3>1, <3>3
         DEF DecideActivating, FailActivation, Outcome, Decision, Inactive, Slot
  <2>3. CASE e.id # s.id
    BY <1>4, <2>3, IgnorePlain, PlainOutcome DEF DecideActivating, FailActivation
  <2> QED BY <2>2, <2>3
<1>5. CASE e.trigger = "DeliveryResolved"
  BY <1>5, EventFields, RejectFailedPlain, PlainOutcome DEF DecideActivating
<1>6. CASE e.trigger \notin {"Dispatch", "CancelWaiter", "ActivationSucceeded",
                             "ActivationFailed", "DeliveryResolved"}
  BY <1>6, EventFields, IgnorePlain, PlainOutcome DEF DecideActivating
<1> QED BY <1>1, <1>2, <1>3, <1>4, <1>5, <1>6

LEMMA ActiveOutcome ==
  ASSUME lastId \in Nat, NEW s \in SlotType, s.phase = "Active", s.id \in ActivationIds,
         NEW e \in Events
  PROVE  Outcome(s, DecideActive(s, e))
<1>0. s.id \in 0 .. lastId /\ s.reservations \in Nat
  BY DEF SlotType
<1>1. CASE e.trigger = "Dispatch"
  <2>1. Active(s.id, s.reservations + 1) \in SlotType
    <3>1. s.reservations + 1 \in Nat
      BY <1>0
    <3> QED BY <1>0, <3>1, SlotTyped
  <2>2. << Deliver(s.id, e.d) >> \in Seq(CalmEffect)
    BY <1>1, EventFields, EffectTyped, OneEffect
  <2>3. Plain(s, ReserveDelivery(s, e.d))
    BY <2>1, <2>2 DEF Plain, ReserveDelivery, Decision, Active, Slot
  <2> QED BY <1>1, <2>3, PlainOutcome DEF DecideActive
<1>2. CASE e.trigger = "DeliveryResolved" /\ e.id = s.id
  <2> DEFINE t == Active(s.id, IF s.reservations > 0 THEN s.reservations - 1 ELSE 0)
  <2>1. t \in SlotType
    <3>1. (IF s.reservations > 0 THEN s.reservations - 1 ELSE 0) \in Nat
      BY <1>0
    <3> QED BY <1>0, <3>1, SlotTyped
  <2>2. t.phase = s.phase /\ t.id = s.id
    BY DEF Active, Slot
  <2>3. DecideActive(s, e) = RejectFailedDelivery(t, e.failure)
    BY <1>2 DEF DecideActive, ResolveActiveDelivery
  <2> HIDE DEF t
  <2>4. Plain(t, RejectFailedDelivery(t, e.failure))
    BY <1>2, <2>1, EventFields, RejectFailedPlain
  <2> QED BY <2>2, <2>3, <2>4, PlainOutcome DEF Plain
<1>3. CASE e.trigger = "DeliveryResolved" /\ e.id # s.id
  BY <1>3, EventFields, RejectFailedPlain, PlainOutcome DEF DecideActive
<1>4. CASE e.trigger = "BeginDrain" /\ e.id = s.id
  <2>1. Draining(s.id, s.reservations) \in SlotType
    BY <1>0, SlotTyped
  <2>2. << EnqueueFence(s.id) >> \in Seq(CalmEffect) /\ << >> \in Seq(CalmEffect)
    BY EffectTyped, OneEffect
  <2> QED
    BY <1>4, <2>1, <2>2, CalmIsTyped
       DEF DecideActive, BeginDrain, Outcome, Decision, Draining, Slot
<1>5. CASE e.trigger = "ActivationSucceeded"
  BY <1>5, EventFields, RetireStalePlain, PlainOutcome DEF DecideActive
<1>6. CASE /\ e.trigger \notin {"Dispatch", "DeliveryResolved", "ActivationSucceeded"}
           /\ ~ (e.trigger = "BeginDrain" /\ e.id = s.id)
  BY <1>6, EventFields, IgnorePlain, PlainOutcome DEF DecideActive
<1> QED BY <1>1, <1>2, <1>3, <1>4, <1>5, <1>6

LEMMA DrainingOutcome ==
  ASSUME lastId \in Nat, NEW s \in SlotType, s.phase = "Draining", s.id \in ActivationIds,
         NEW e \in Events
  PROVE  Outcome(s, DecideDraining(s, e))
<1>0. s.id \in 0 .. lastId /\ s.reservations \in Nat
  BY DEF SlotType
<1>1. CASE e.trigger = "Dispatch"
  BY <1>1, EventFields, RefusePlain, PlainOutcome DEF DecideDraining, Reasons
<1>2. CASE e.trigger = "DeliveryResolved" /\ e.id = s.id
  <2> DEFINE fence == IF s.reservations = 1 THEN << EnqueueFence(s.id) >> ELSE << >>
             left  == IF s.reservations > 0 THEN s.reservations - 1 ELSE 0
  <2>1. Draining(s.id, left) \in SlotType
    <3>1. left \in Nat
      BY <1>0
    <3> QED BY <1>0, <3>1, SlotTyped
  <2>2. fence \in Seq(CalmEffect)
    BY EffectTyped, OneEffect
  <2>3. Rejections(e.failure, "Unavailable") \in Seq(CalmEffect)
    BY <1>2, EventFields, RejectFailedPlain
  <2>4. DecideDraining(s, e) =
          Decision(Draining(s.id, left), Rejections(e.failure, "Unavailable") \o fence)
    BY <1>2 DEF DecideDraining, ResolveDrainingDelivery
  <2> HIDE DEF fence, left
  <2>5. Rejections(e.failure, "Unavailable") \o fence \in Seq(CalmEffect)
    BY <2>2, <2>3
  <2> QED BY <2>1, <2>4, <2>5, CalmIsTyped DEF Outcome, Decision, Draining, Slot
<1>3. CASE e.trigger = "DeliveryResolved" /\ e.id # s.id
  BY <1>3, EventFields, RejectFailedPlain, PlainOutcome DEF DecideDraining
<1>4. CASE e.trigger \in {"FenceAcknowledged", "ForceDrain"} /\ e.id = s.id
  <2>1. Retiring(s.id) \in SlotType
    BY <1>0, SlotTyped
  <2>2. \A mode \in Modes : << Retire(s.id, mode) >> \in Seq(CalmEffect)
    BY EffectTyped, OneEffect
  <2>3. \A mode \in Modes : Outcome(s, Decision(Retiring(s.id), << Retire(s.id, mode) >>))
    BY <2>1, <2>2, CalmIsTyped DEF Outcome, Decision, Retiring, Slot
  <2> QED
    BY <1>4, <2>3, IgnorePlain, PlainOutcome
       DEF DecideDraining, AcknowledgeFence, ForceDrain, Modes
<1>5. CASE e.trigger = "ActivationSucceeded"
  BY <1>5, EventFields, RetireStalePlain, PlainOutcome DEF DecideDraining
<1>6. CASE /\ e.trigger \notin {"Dispatch", "DeliveryResolved", "ActivationSucceeded"}
           /\ ~ (e.trigger \in {"FenceAcknowledged", "ForceDrain"} /\ e.id = s.id)
  BY <1>6, EventFields, IgnorePlain, PlainOutcome DEF DecideDraining
<1> QED BY <1>1, <1>2, <1>3, <1>4, <1>5, <1>6

LEMMA RetiringOutcome ==
  ASSUME lastId \in Nat, NEW s \in SlotType, s.phase = "Retiring", s.id \in ActivationIds,
         NEW e \in Events
  PROVE  Outcome(s, DecideRetiring(s, e))
<1>1. CASE e.trigger = "Dispatch"
  BY <1>1, EventFields, RefusePlain, PlainOutcome DEF DecideRetiring, Reasons
<1>2. CASE e.trigger = "DeliveryResolved"
  BY <1>2, EventFields, RejectFailedPlain, PlainOutcome DEF DecideRetiring
<1>3. CASE e.trigger = "ActivationSucceeded"
  BY <1>3, EventFields, RetireStalePlain, PlainOutcome DEF DecideRetiring
<1>4. CASE e.trigger = "Terminated" /\ e.id = s.id
  <2>1. Inactive \in SlotType
    BY SlotTyped
  <2>2. << RemoveEntry(s.id) >> \in Seq(EffectType)
    BY EffectTyped, OneEffect
  <2> QED BY <1>4, <2>1, <2>2 DEF DecideRetiring, Outcome, Decision, Inactive, Slot
<1>5. CASE /\ e.trigger \notin {"Dispatch", "DeliveryResolved", "ActivationSucceeded"}
           /\ ~ (e.trigger = "Terminated" /\ e.id = s.id)
  BY <1>5, EventFields, IgnorePlain, PlainOutcome DEF DecideRetiring
<1> QED BY <1>1, <1>2, <1>3, <1>4, <1>5

LEMMA ReduceOutcome ==
  ASSUME lastId \in Nat, NEW s \in SlotType,
         s.phase # "Inactive" => s.id \in ActivationIds, NEW e \in Events
  PROVE  Outcome(s, Reduce(s, e))
<1>1. CASE s.phase = "Inactive"
  <2>1. Reduce(s, e) = DecideInactive(e)
    BY <1>1 DEF Reduce
  <2> QED BY <1>1, <2>1, InactiveOutcome, CalmIsTyped DEF Plain, Outcome, Inactive, Slot
<1>2. CASE s.phase = "Activating"
  BY <1>2, ActivatingOutcome DEF Reduce
<1>3. CASE s.phase = "Active"
  BY <1>3, ActiveOutcome DEF Reduce
<1>4. CASE s.phase = "Draining"
  BY <1>4, DrainingOutcome DEF Reduce
<1>5. CASE s.phase = "Retiring"
  BY <1>5, RetiringOutcome DEF Reduce
<1> QED BY <1>1, <1>2, <1>3, <1>4, <1>5 DEF SlotType, Phases

-----------------------------------------------------------------------------
(* Calls.                                                                  *)

LEMMA IssuedIds ==
  ASSUME TypeOK
  PROVE  lastId \in Nat /\ 1 .. lastId \subseteq ActivationIds
<1>1. lastId \in 0 .. MaxActivation
  BY DEF TypeOK
<1> QED BY <1>1, MaxActivationAssumption DEF ActivationIds

LEMMA CallFields ==
  ASSUME NEW c \in CallType
  PROVE  /\ c.by \in Agents
         /\ c.at = "find" => c.event \in ReportedType
         /\ c.at \in {"submit", "interpret", "own"} => c.slot \in 1 .. lastId
         /\ c.at = "submit" => c.event \in Events
         /\ c.at \in {"find", "submit", "interpret", "own"}
BY DEF CallType, Events

LEMMA CallTyped ==
  ASSUME NEW by \in Agents
  PROVE  /\ \A e \in ReportedType : Call(by, "find", NoActivation, e) \in CallType
         /\ \A s \in 1 .. lastId, e \in Events : Call(by, "submit", s, e) \in CallType
         /\ \A s \in 1 .. lastId, at \in {"interpret", "own"} :
              Call(by, at, s, NoEvent) \in CallType
BY DEF Call, CallType, Events

LEMMA SameTypes ==
  ASSUME lastId' = lastId
  PROVE  SlotType' = SlotType /\ CallType' = CallType
BY DEF SlotType, CallType

LEMMA TypesGrow ==
  ASSUME lastId \in Nat, lastId' = lastId + 1
  PROVE  SlotType \subseteq SlotType' /\ CallType \subseteq CallType'
<1>1. 0 .. lastId \subseteq 0 .. lastId' /\ 1 .. lastId \subseteq 1 .. lastId'
  OBVIOUS
<1> QED BY <1>1 DEF SlotType, CallType

LEMMA CompleteTyped ==
  ASSUME TypeOK, NEW ds, NEW result \in Answers, Complete(ds, result)
  PROVE  answer' \in [Dispatches -> Answers]
BY DEF TypeOK, Complete

LEMMA WakeTyped ==
  ASSUME TypeOK, Wake
  PROVE  future' \in [Dispatches -> FutureStates]
BY DEF TypeOK, Wake, FutureStates

(* The steps that leave the directory alone.                               *)
LEMMA DirectoryUnmoved ==
  ASSUME IInv, UNCHANGED directory,
         tasks' \subseteq TaskType, calls' \subseteq CallType,
         ticket' \in [Dispatches -> 0 .. lastId], passivated' \subseteq Passivations,
         future' \in [Dispatches -> FutureStates], answer' \in [Dispatches -> Answers],
         UNCHANGED history
  PROVE  IInv'
<1>1. lastId' = lastId /\ CallType' = CallType /\ SlotType' = SlotType
  BY SameTypes DEF directory
<1>2. TypeOK'
  BY <1>1 DEF IInv, TypeOK, directory, history
<1>3. OneLiveIncarnation'
  BY DEF IInv, OneLiveIncarnation, Live, directory
<1>4. RemovesAreLate'
  BY DEF IInv, RemovesAreLate, Live, directory
<1>5. Unissued'
  BY DEF IInv, Unissued, Live, directory
<1> QED BY <1>2, <1>3, <1>4, <1>5 DEF IInv

LEMMA FindTyped ==
  ASSUME TypeOK, NEW by \in Agents, NEW e \in ReportedType, NEW finished, NEW rest,
         rest \subseteq CallType, Find(by, e, finished, rest)
  PROVE  /\ tasks' \subseteq TaskType
         /\ calls' \subseteq CallType
         /\ answer' \in [Dispatches -> Answers]
<1> DEFINE n == home[e.id]
           r == Reduce(Inactive, e)
<1>1. e \in Events /\ e.id \in ActivationIds /\ lastId \in Nat
  BY EventFields DEF Events, ReportedType, TypeOK
<1>2. n \in Entities /\ map[n] \in 0 .. lastId
  BY <1>1 DEF TypeOK
<1>3. CASE map[n] = NoActivation
  <2>1. Reduce(Inactive, e) = DecideInactive(e)
    BY DEF Reduce, Inactive, Slot
  <2>2. r.effects \in Seq(EffectType)
    BY <1>1, <2>1, InactiveOutcome, CalmIsTyped DEF Plain
  <2>3. tasks' = (tasks \ finished) \cup Started(r.effects) /\ calls' = rest
    BY <1>3 DEF Find
  <2>4. Complete(Refused(r.effects), "Refused")
    BY <1>3 DEF Find
  <2>5. answer' \in [Dispatches -> Answers]
    BY <2>4, CompleteTyped DEF Answers
  <2> HIDE DEF r
  <2>6. Started(r.effects) \subseteq TaskType
    BY <2>2, StartedTyped
  <2> QED BY <2>3, <2>5, <2>6 DEF TypeOK
<1>4. CASE map[n] # NoActivation
  <2>1. /\ tasks' = tasks \ finished
        /\ calls' = rest \cup {Call(by, "submit", map[n], e)}
        /\ UNCHANGED answer
    BY <1>4 DEF Find
  <2>2. map[n] \in 1 .. lastId
    BY <1>1, <1>2, <1>4 DEF NoActivation
  <2>3. Call(by, "submit", map[n], e) \in CallType
    BY <1>1, <2>2, CallTyped
  <2> QED BY <2>1, <2>3 DEF TypeOK
<1> QED BY <1>3, <1>4

-----------------------------------------------------------------------------
(* One lemma per action that moves the directory.                          *)

LEMMA InitIInv == Init => IInv
<1> SUFFICES ASSUME Init PROVE IInv
  OBVIOUS
<1>1. lastId = 0 /\ 0 \in 0 .. MaxActivation /\ 0 \in 0 .. lastId
  BY MaxActivationAssumption DEF Init
<1>2. Inactive \in SlotType
  BY <1>1, SlotTyped
<1>3. (CHOOSE n \in Entities : TRUE) \in Entities
  BY EntitiesAssumption
<1>4. << >> \in Seq(Seq(EffectType) \ {<< >>})
  OBVIOUS
<1>5. panics \in 0 .. MaxPanics
  BY MaxPanicsAssumption DEF Init
<1>6. TypeOK
  BY <1>1, <1>2, <1>3, <1>4, <1>5 DEF Init, TypeOK, NoActivation, FutureStates, Answers
<1>7. \A s \in ActivationIds : ~Live(s) /\ outputs[s] = << >>
  BY DEF Init, Live, Inactive, Slot
<1> QED BY <1>1, <1>6, <1>7 DEF IInv, OneLiveIncarnation, RemovesAreLate, Unissued, ActivationIds

LEMMA AbsentIInv ==
  ASSUME IInv, NEW d \in Dispatches, NEW n \in Entities, DispatchAbsent(d, n)
  PROVE  IInv'
<1>1. PICK id \in ActivationIds : Allocated(id) /\ lastId' = id /\ Claim(d, n, id)
  BY DEF DispatchAbsent
<1>2. /\ lastId \in Nat /\ id = lastId + 1 /\ lastId' = lastId + 1
      /\ lastId' \in 0 .. MaxActivation
      /\ id # NoActivation /\ map[n] = NoActivation
  BY <1>1 DEF Allocated, ActivationIds, IInv, TypeOK, DispatchAbsent, NoActivation
<1>3. SlotType \subseteq SlotType' /\ CallType \subseteq CallType'
  BY <1>2, TypesGrow
<1> DEFINE r == Reduce(Inactive, [trigger |-> "ClaimActivation", id |-> id, d |-> d])
<1>4. r = Decision(Activating(id, << d >>), << StartActivation(id) >>)
  BY DEF Reduce, DecideInactive, Inactive, Slot
<1>5. r.slot = Activating(id, << d >>) /\ r.effects = << StartActivation(id) >>
  BY <1>4 DEF Decision
<1>6. (r.slot \in SlotType)'
  <2>1. << d >> \in Seq(Dispatches) /\ id \in 0 .. lastId'
    BY <1>2
  <2>2. Activating(id, << d >>) \in SlotType'
    BY <2>1 DEF SlotType, Activating, Slot, Phases
  <2> QED BY <1>5, <2>2
<1>7. Batches(r.effects) \in Seq(Seq(CalmEffect) \ {<< >>})
  BY <1>5, EffectTyped, OneEffect, BatchesTyped
<1>8. Batches(r.effects) \in Seq(Seq(EffectType) \ {<< >>})
  BY <1>7, CalmIsTyped
<1>9. Call(d, "interpret", id, NoEvent) \in CallType'
  BY <1>2 DEF Call, CallType, Agents
<1>10. /\ map' = [map EXCEPT ![n] = id]
       /\ home' = [home EXCEPT ![id] = n]
       /\ slots' = [slots EXCEPT ![id] = r.slot]
       /\ outputs' = [outputs EXCEPT ![id] = Batches(r.effects)]
       /\ future' = [future EXCEPT ![d] = "polled"]
       /\ ticket' = [ticket EXCEPT ![d] = id]
       /\ calls' = calls \cup {Call(d, "interpret", id, NoEvent)}
       /\ UNCHANGED <<dispatching, abandoned, tasks, passivated, answer, history>>
  BY <1>1 DEF Claim
<1> HIDE DEF r
<1>11. TypeOK'
  <2>1. 0 .. lastId \subseteq 0 .. lastId' /\ id \in 0 .. lastId' /\ 1 .. lastId \subseteq 1 .. lastId'
    BY <1>2
  <2>2. (map \in [Entities -> 0 .. lastId])' /\ (ticket \in [Dispatches -> 0 .. lastId])'
    BY <1>10, <2>1 DEF IInv, TypeOK
  <2>3. (slots \in [ActivationIds -> SlotType])'
    BY <1>3, <1>6, <1>10 DEF IInv, TypeOK
  <2>4. (outputs \in [ActivationIds -> Seq(Seq(EffectType) \ {<< >>})])'
    BY <1>8, <1>10 DEF IInv, TypeOK
  <2>5. (calls \subseteq CallType)'
    BY <1>3, <1>9, <1>10 DEF IInv, TypeOK
  <2> QED
    BY <1>2, <1>10, <2>1, <2>2, <2>3, <2>4, <2>5 DEF IInv, TypeOK, history, FutureStates
<1>12. OneLiveIncarnation'
  <2> SUFFICES ASSUME NEW s \in 1 .. lastId', Live(s)'
               PROVE  (map[home[s]] = s /\ slots[s].id = s)'
    BY DEF OneLiveIncarnation
  <2>1. CASE s = id
    BY <1>1, <1>5, <1>10, <2>1 DEF IInv, TypeOK, Activating, Slot
  <2>2. CASE s # id
    <3>1. s \in 1 .. lastId /\ s \in ActivationIds
      BY <1>2, <2>2, IssuedIds DEF IInv
    <3>2. Live(s)
      BY <1>10, <2>2, <3>1 DEF Live, IInv, TypeOK
    <3>3. map[home[s]] = s /\ slots[s].id = s
      BY <3>1, <3>2 DEF IInv, OneLiveIncarnation
    <3>4. home[s] # n /\ home[s] \in Entities
      BY <1>2, <3>1, <3>3 DEF IInv, TypeOK, NoActivation
    <3> QED BY <1>10, <2>2, <3>1, <3>3, <3>4 DEF IInv, TypeOK
  <2> QED BY <2>1, <2>2
<1>13. RemovesAreLate'
  <2> SUFFICES ASSUME NEW s \in ActivationIds, Live(s)'
               PROVE  outputs'[s] \in Seq(Seq(CalmEffect) \ {<< >>})
    BY DEF RemovesAreLate
  <2>1. CASE s = id
    BY <1>7, <1>10, <2>1 DEF IInv, TypeOK
  <2>2. CASE s # id
    BY <1>10, <2>2 DEF IInv, TypeOK, RemovesAreLate, Live
  <2> QED BY <2>1, <2>2
<1>14. Unissued'
  <2> SUFFICES ASSUME NEW s \in ActivationIds, s > lastId'
               PROVE  (~Live(s) /\ outputs[s] = << >>)'
    BY DEF Unissued
  <2>1. s > lastId /\ s # id
    BY <1>2 DEF ActivationIds
  <2> QED BY <1>10, <2>1 DEF IInv, TypeOK, Unissued, Live
<1> QED BY <1>11, <1>12, <1>13, <1>14 DEF IInv

LEMMA SubmitIInv ==
  ASSUME IInv, NEW c \in calls, Submit(c)
  PROVE  IInv'
<1> DEFINE s == c.slot
           r == Reduce(slots[s], c.event)
<1>1. /\ c \in CallType /\ c.at = "submit" /\ c.by \in Agents
      /\ s \in 1 .. lastId /\ c.event \in Events
  BY CallFields DEF Submit, IInv, TypeOK
<1>2. s \in ActivationIds /\ lastId \in Nat /\ slots[s] \in SlotType
  BY <1>1, IssuedIds DEF IInv, TypeOK
<1>3. slots[s].phase # "Inactive" => slots[s].id = s
  BY <1>1 DEF IInv, OneLiveIncarnation, Live
<1>4. Outcome(slots[s], r)
  BY <1>1, <1>2, <1>3, ReduceOutcome
<1>5. /\ slots' = [slots EXCEPT ![s] = r.slot]
      /\ outputs' = [outputs EXCEPT ![s] = @ \o Batches(r.effects)]
      /\ calls' = Moved(c, "interpret")
      /\ ticket' = IF c.event.trigger = "Dispatch"
                   THEN [ticket EXCEPT ![c.event.d] = r.slot.id] ELSE ticket
      /\ failed' = IF c.event.trigger = "ActivationFailed"
                   THEN failed \cup {c.event.id} ELSE failed
      /\ acked' = IF c.event.trigger = "FenceAcknowledged"
                  THEN acked \cup {c.event.id} ELSE acked
      /\ UNCHANGED <<lastId, map, home, dispatching, abandoned, tasks, passivated,
                     future, answer, panics, lost>>
  BY DEF Submit
<1> HIDE DEF r, s
<1>6. SlotType' = SlotType /\ CallType' = CallType
  BY <1>5, SameTypes
<1>7. r.slot \in SlotType /\ r.effects \in Seq(EffectType)
  BY <1>4 DEF Outcome
<1>8. TypeOK'
  <2>1. (slots \in [ActivationIds -> SlotType])'
    BY <1>2, <1>5, <1>6, <1>7 DEF IInv, TypeOK
  <2>2. (outputs \in [ActivationIds -> Seq(Seq(EffectType) \ {<< >>})])'
    BY <1>2, <1>5, <1>7, QueueAppended DEF IInv, TypeOK
  <2>3. (calls \subseteq CallType)'
    BY <1>1, <1>5, <1>6, CallTyped DEF IInv, TypeOK, Moved, s
  <2>4. (ticket \in [Dispatches -> 0 .. lastId])'
    <3>1. r.slot.id \in 0 .. lastId
      BY <1>7 DEF SlotType
    <3> QED BY <1>1, <1>5, <3>1, EventFields DEF IInv, TypeOK
  <2>5. (failed \cup acked \subseteq ActivationIds)'
    BY <1>1, <1>5, EventFields DEF IInv, TypeOK
  <2> QED BY <1>5, <2>1, <2>2, <2>3, <2>4, <2>5 DEF IInv, TypeOK
<1>9. \A u \in ActivationIds : Live(u)' => Live(u)
  BY <1>2, <1>4, <1>5 DEF IInv, TypeOK, Live, Outcome
<1>10. OneLiveIncarnation'
  <2> SUFFICES ASSUME NEW u \in 1 .. lastId, Live(u)'
               PROVE  (map[home[u]] = u /\ slots[u].id = u)'
    BY <1>5 DEF OneLiveIncarnation
  <2>1. u \in ActivationIds
    BY IssuedIds DEF IInv
  <2>2. map[home[u]] = u /\ slots[u].id = u
    BY <1>9, <2>1 DEF IInv, OneLiveIncarnation
  <2>3. slots'[u].id = u
    <3>1. CASE u = s
      <4>1. r.slot.phase # "Inactive"
        BY <1>2, <1>5, <3>1 DEF Live, IInv, TypeOK
      <4> QED BY <1>2, <1>4, <1>5, <2>2, <3>1, <4>1 DEF Outcome, IInv, TypeOK
    <3>2. CASE u # s
      BY <1>5, <2>1, <2>2, <3>2 DEF IInv, TypeOK
    <3> QED BY <3>1, <3>2
  <2> QED BY <1>5, <2>2, <2>3
<1>11. RemovesAreLate'
  <2> SUFFICES ASSUME NEW u \in ActivationIds, Live(u)'
               PROVE  outputs'[u] \in Seq(Seq(CalmEffect) \ {<< >>})
    BY DEF RemovesAreLate
  <2>1. outputs[u] \in Seq(Seq(CalmEffect) \ {<< >>})
    BY <1>9 DEF IInv, RemovesAreLate
  <2>2. CASE u = s
    <3>1. r.slot.phase # "Inactive"
      BY <1>2, <1>5, <2>2 DEF Live, IInv, TypeOK
    <3>2. r.effects \in Seq(CalmEffect)
      BY <1>4, <3>1 DEF Outcome
    <3>3. outputs[u] \o Batches(r.effects) \in Seq(Seq(CalmEffect) \ {<< >>})
      BY <2>1, <3>2, QueueAppended
    <3> QED BY <1>2, <1>5, <2>2, <3>3 DEF IInv, TypeOK
  <2>3. CASE u # s
    BY <1>5, <2>1, <2>3 DEF IInv, TypeOK
  <2> QED BY <2>2, <2>3
<1>12. Unissued'
  <2> SUFFICES ASSUME NEW u \in ActivationIds, u > lastId
               PROVE  (~Live(u) /\ outputs[u] = << >>)'
    BY <1>5 DEF Unissued
  <2>1. u # s
    BY <1>1, <1>2 DEF ActivationIds, s
  <2> QED BY <1>5, <1>9, <2>1 DEF IInv, TypeOK, Unissued
<1> QED BY <1>8, <1>10, <1>11, <1>12 DEF IInv

(* What interpreting the slot of a call does to its outputs.               *)
LEMMA Owned ==
  ASSUME IInv, NEW c \in calls, c.at \in {"interpret", "own"}
  PROVE  /\ c \in CallType /\ c.by \in Agents
         /\ c.slot \in 1 .. lastId /\ c.slot \in ActivationIds
         /\ outputs[c.slot] \in Seq(Seq(EffectType) \ {<< >>})
         /\ Live(c.slot) => outputs[c.slot] \in Seq(Seq(CalmEffect) \ {<< >>})
<1>1. /\ c \in CallType /\ c.by \in Agents
      /\ c.slot \in 1 .. lastId /\ c.slot \in ActivationIds
  BY CallFields, IssuedIds DEF IInv, TypeOK
<1> QED BY <1>1 DEF IInv, TypeOK, RemovesAreLate

(* The steps that take from the outputs of one slot.                       *)
LEMMA OutputsTaken ==
  ASSUME IInv, NEW s \in ActivationIds, s <= lastId, NEW q,
         q \in Seq(Seq(EffectType) \ {<< >>}),
         Live(s) => q \in Seq(Seq(CalmEffect) \ {<< >>}),
         UNCHANGED <<lastId, home, slots>>,
         outputs' = [outputs EXCEPT ![s] = q]
  PROVE  /\ (outputs \in [ActivationIds -> Seq(Seq(EffectType) \ {<< >>})])'
         /\ RemovesAreLate'
         /\ Unissued'
<1>1. (outputs \in [ActivationIds -> Seq(Seq(EffectType) \ {<< >>})])'
  BY DEF IInv, TypeOK
<1>2. RemovesAreLate'
  BY DEF IInv, TypeOK, RemovesAreLate, Live
<1>3. Unissued'
  <2> SUFFICES ASSUME NEW u \in ActivationIds, u > lastId
               PROVE  (~Live(u) /\ outputs[u] = << >>)'
    BY DEF Unissued
  <2>1. u # s
    BY IssuedIds DEF IInv, ActivationIds
  <2> QED BY <2>1 DEF IInv, TypeOK, Unissued, Live
<1> QED BY <1>1, <1>2, <1>3

LEMMA InterpretIInv ==
  ASSUME IInv, NEW c \in calls, Interpret(c)
  PROVE  IInv'
<1>1. c.slot \in 1 .. lastId /\ c.by \in Agents
  BY Owned DEF Interpret
<1>2. SlotType' = SlotType /\ CallType' = CallType
  BY SameTypes DEF Interpret
<1>3. Moved(c, "own") \subseteq CallType
  BY <1>1, CallTyped DEF Moved, IInv, TypeOK
<1>4. /\ calls' \subseteq CallType
      /\ dispatching' \subseteq dispatching \cup {c.slot}
      /\ abandoned' \subseteq abandoned
  BY <1>3 DEF Interpret, IInv, TypeOK
<1>5. UNCHANGED <<lastId, map, home, slots, outputs, tasks, callers, future, answer, history>>
  BY DEF Interpret
<1>6. TypeOK'
  BY <1>1, <1>2, <1>4, <1>5 DEF IInv, TypeOK, callers, history
<1> QED
  BY <1>5, <1>6 DEF IInv, OneLiveIncarnation, RemovesAreLate, Unissued, Live

LEMMA ReleaseIInv ==
  ASSUME IInv, NEW c \in calls, Release(c)
  PROVE  IInv'
<1>1. SlotType' = SlotType /\ CallType' = CallType
  BY SameTypes DEF Release
<1>2. TypeOK'
  BY <1>1 DEF Release, IInv, TypeOK, callers, history
<1> QED
  BY <1>2 DEF Release, IInv, OneLiveIncarnation, RemovesAreLate, Unissued, Live

LEMMA ApplyEffectIInv ==
  ASSUME IInv, NEW c \in calls, ApplyEffect(c)
  PROVE  IInv'
<1> DEFINE s == c.slot
           q == outputs[s]
           fx == Head(Head(q))
           rest == Batches(Tail(Head(q))) \o Tail(q)
<1>1. /\ s \in 1 .. lastId /\ s \in ActivationIds
      /\ q \in Seq(Seq(EffectType) \ {<< >>})
      /\ Live(s) => q \in Seq(Seq(CalmEffect) \ {<< >>})
      /\ q # << >>
  BY Owned DEF ApplyEffect
<1>2. /\ outputs' = [outputs EXCEPT ![s] = rest]
      /\ tasks' = tasks \cup Started(<< fx >>)
      /\ Complete(Refused(<< fx >>), "Refused")
      /\ Wake
      /\ fx.type = "Remove" => RemoveMatching(s)
      /\ fx.type # "Remove" => UNCHANGED map
      /\ UNCHANGED <<lastId, home, slots, dispatching, abandoned, calls, callers, history>>
  BY DEF ApplyEffect, Batch
<1> HIDE DEF s, q
<1>3. fx \in EffectType /\ rest \in Seq(Seq(EffectType) \ {<< >>})
  BY <1>1, QueueTyped
<1>4. Live(s) => fx \in CalmEffect /\ rest \in Seq(Seq(CalmEffect) \ {<< >>})
  BY <1>1, QueueTyped
<1> HIDE DEF fx, rest
<1>5. /\ (outputs \in [ActivationIds -> Seq(Seq(EffectType) \ {<< >>})])'
      /\ RemovesAreLate'
      /\ Unissued'
  <2>1. s <= lastId
    BY <1>1, IssuedIds DEF IInv
  <2> QED BY <1>1, <1>2, <1>3, <1>4, <2>1, OutputsTaken
<1>6. map' \in [Entities -> 0 .. lastId]
  <2>1. map \in [Entities -> 0 .. lastId] /\ 0 \in 0 .. lastId
    BY IssuedIds DEF IInv, TypeOK
  <2>2. RemoveMatching(s) => map' \in [Entities -> 0 .. lastId]
    BY <2>1 DEF RemoveMatching, NoActivation
  <2> QED BY <1>2, <2>1, <2>2
<1>7. TypeOK'
  <2>1. SlotType' = SlotType /\ CallType' = CallType
    BY <1>2, SameTypes
  <2>2. << fx >> \in Seq(EffectType)
    BY <1>3, OneEffect
  <2>3. Started(<< fx >>) \subseteq TaskType
    BY <2>2, StartedTyped
  <2>4. answer' \in [Dispatches -> Answers] /\ future' \in [Dispatches -> FutureStates]
    BY <1>2, CompleteTyped, WakeTyped DEF IInv, Answers
  <2> QED BY <1>2, <1>5, <1>6, <2>1, <2>3, <2>4 DEF IInv, TypeOK, callers, history
<1>8. OneLiveIncarnation'
  <2> SUFFICES ASSUME NEW u \in 1 .. lastId, Live(u)'
               PROVE  (map[home[u]] = u /\ slots[u].id = u)'
    BY <1>2 DEF OneLiveIncarnation
  <2>1. u \in ActivationIds /\ Live(u) /\ map[home[u]] = u /\ slots[u].id = u
    BY <1>2, IssuedIds DEF IInv, OneLiveIncarnation, Live
  <2>2. CASE fx.type = "Remove"
    <3>1. u # s
      BY <1>4, <2>1, <2>2 DEF CalmEffect
    <3>2. home[u] \in Entities
      BY <2>1 DEF IInv, TypeOK
    <3> QED BY <1>2, <2>1, <2>2, <3>1, <3>2 DEF RemoveMatching
  <2>3. CASE fx.type # "Remove"
    BY <1>2, <2>1, <2>3
  <2> QED BY <2>2, <2>3
<1> QED BY <1>5, <1>7, <1>8 DEF IInv

LEMMA CarriedTyped ==
  ASSUME NEW effects \in Seq(EffectType)
  PROVE  Carried(effects) \subseteq Dispatches
BY StartedTyped

LEMMA PanicIInv ==
  ASSUME IInv, NEW c \in calls, InterpreterPanics(c)
  PROVE  IInv'
<1> DEFINE s == c.slot
           q == outputs[s]
           fx == Head(Head(q))
<1>1. /\ s \in 1 .. lastId /\ s \in ActivationIds
      /\ q \in Seq(Seq(EffectType) \ {<< >>})
      /\ Live(s) => q \in Seq(Seq(CalmEffect) \ {<< >>})
      /\ q # << >>
  BY Owned DEF InterpreterPanics
<1>2. /\ outputs' = [outputs EXCEPT ![s] = Tail(q)]
      /\ Complete(Refused(<< fx >>), "Refused")
      /\ lost' = lost \cup (Carried(Head(q)) \ Refused(<< fx >>))
      /\ dispatching' = dispatching \ {s}
      /\ abandoned' = abandoned \cup {s}
      /\ calls' = calls \ {c}
      /\ panics < MaxPanics /\ panics' = panics + 1
      /\ future' = [d \in Dispatches |->
                      IF d = c.by /\ future[d] = "polled" THEN "unwound" ELSE future[d]]
      /\ UNCHANGED <<lastId, map, home, slots, tasks, callers, failed, acked>>
  BY DEF InterpreterPanics, Batch
<1> HIDE DEF s, q, fx
<1>3. Head(q) \in Seq(EffectType) /\ Tail(q) \in Seq(Seq(EffectType) \ {<< >>})
  BY <1>1, QueueTyped
<1>4. Live(s) => Tail(q) \in Seq(Seq(CalmEffect) \ {<< >>})
  BY <1>1, QueueTyped
<1>5. /\ (outputs \in [ActivationIds -> Seq(Seq(EffectType) \ {<< >>})])'
      /\ RemovesAreLate'
      /\ Unissued'
  <2>1. s <= lastId
    BY <1>1, IssuedIds DEF IInv
  <2> QED BY <1>1, <1>2, <1>3, <1>4, <2>1, OutputsTaken
<1>6. TypeOK'
  <2>1. SlotType' = SlotType /\ CallType' = CallType
    BY <1>2, SameTypes
  <2>2. Carried(Head(q)) \subseteq Dispatches
    BY <1>3, CarriedTyped
  <2>3. answer' \in [Dispatches -> Answers]
    BY <1>2, CompleteTyped DEF IInv, Answers
  <2>4. future' \in [Dispatches -> FutureStates]
    BY <1>2 DEF IInv, TypeOK, FutureStates
  <2>5. panics' \in 0 .. MaxPanics
    BY <1>2, MaxPanicsAssumption DEF IInv, TypeOK
  <2> QED BY <1>1, <1>2, <1>5, <2>1, <2>2, <2>3, <2>4, <2>5 DEF IInv, TypeOK, callers
<1>7. OneLiveIncarnation'
  BY <1>2 DEF IInv, OneLiveIncarnation, Live
<1> QED BY <1>5, <1>6, <1>7 DEF IInv

-----------------------------------------------------------------------------
(* The steps of callers and tasks.                                         *)

LEMMA FindIInv ==
  ASSUME IInv, NEW by \in Agents, NEW e \in ReportedType, NEW finished, NEW rest,
         rest \subseteq CallType, Find(by, e, finished, rest),
         future' \in [Dispatches -> FutureStates],
         UNCHANGED <<directory, callers, history>>
  PROVE  IInv'
<1>1. /\ tasks' \subseteq TaskType
      /\ calls' \subseteq CallType
      /\ answer' \in [Dispatches -> Answers]
  BY FindTyped DEF IInv
<1> QED BY <1>1, DirectoryUnmoved DEF callers, IInv, TypeOK

LEMMA ReportIInv ==
  ASSUME IInv, NEW t \in TaskType, NEW e \in ReportedType, Report(t, e)
  PROVE  IInv'
<1>1. t \in Agents /\ calls \subseteq CallType
  BY DEF Agents, IInv, TypeOK
<1>2. future' \in [Dispatches -> FutureStates]
  BY WakeTyped DEF Report, IInv
<1> QED BY <1>1, <1>2, FindIInv DEF Report

LEMMA MappedIInv ==
  ASSUME IInv, NEW d \in Dispatches, NEW n \in Entities, DispatchMapped(d, n)
  PROVE  IInv'
<1>1. map[n] \in 1 .. lastId
  BY IssuedIds DEF DispatchMapped, IInv, TypeOK, NoActivation
<1>2. d \in Agents /\ [trigger |-> "Dispatch", d |-> d] \in Events
  BY DEF Agents, Events
<1>3. Call(d, "submit", map[n], [trigger |-> "Dispatch", d |-> d]) \in CallType
  BY <1>1, <1>2, CallTyped
<1>4. future' \in [Dispatches -> FutureStates]
  BY DEF DispatchMapped, IInv, TypeOK, FutureStates
<1> QED BY <1>3, <1>4, DirectoryUnmoved DEF DispatchMapped, IInv, TypeOK, callers

LEMMA ExhaustedIInv ==
  ASSUME IInv, NEW d \in Dispatches, NEW n \in Entities, DispatchExhausted(d, n)
  PROVE  IInv'
<1>1. future' \in [Dispatches -> FutureStates] /\ answer' \in [Dispatches -> Answers]
  BY DEF DispatchExhausted, IInv, TypeOK, FutureStates, Answers
<1> QED BY <1>1, DirectoryUnmoved DEF DispatchExhausted, IInv, TypeOK, callers

LEMMA PassivateIInv ==
  ASSUME IInv, NEW p \in Passivations, NEW n \in Entities, PassivateReads(p, n)
  PROVE  IInv'
<1>1. map[n] \in ActivationIds
  <2>1. map[n] \in 1 .. lastId
    BY IssuedIds DEF PassivateReads, IInv, TypeOK, NoActivation
  <2> QED BY <2>1, IssuedIds DEF IInv
<1>2. slots[map[n]].id \in ActivationIds
  <2>1. slots[map[n]].id \in 1 .. lastId
    BY <1>1, IssuedIds DEF PassivateReads, IInv, TypeOK, SlotType, NoActivation
  <2> QED BY <2>1, IssuedIds DEF IInv
<1>3. [trigger |-> "BeginDrain", id |-> slots[map[n]].id] \in ReportedType
  BY <1>2 DEF ReportedType
<1>4. p \in Agents
  BY DEF Agents
<1>5. calls' \subseteq CallType
  BY <1>3, <1>4, CallTyped DEF PassivateReads, IInv, TypeOK
<1> QED BY <1>5, DirectoryUnmoved DEF PassivateReads, IInv, TypeOK

LEMMA AcceptedIInv ==
  ASSUME IInv, NEW id \in ActivationIds, NEW d \in Dispatches, DeliveryAccepted(id, d)
  PROVE  IInv'
<1>1. Deliver(id, d) \in Agents
  BY DEF Agents, TaskType
<1>2. [trigger |-> "DeliveryResolved", id |-> id, failure |-> << >>] \in ReportedType
  BY DEF ReportedType
<1>3. calls' \subseteq CallType
  BY <1>1, <1>2, CallTyped DEF DeliveryAccepted, IInv, TypeOK
<1>4. answer' \in [Dispatches -> Answers] /\ future' \in [Dispatches -> FutureStates]
  BY CompleteTyped, WakeTyped DEF DeliveryAccepted, IInv, Answers
<1> QED BY <1>3, <1>4, DirectoryUnmoved DEF DeliveryAccepted, IInv, TypeOK, callers

LEMMA PollIInv ==
  ASSUME IInv, NEW d \in Dispatches, Poll(d) \/ DropFuture(d)
  PROVE  IInv'
<1>1. future' \in [Dispatches -> FutureStates]
  BY DEF Poll, DropFuture, IInv, TypeOK, FutureStates
<1>2. CASE Poll(d)
  BY <1>1, <1>2, DirectoryUnmoved DEF Poll, IInv, TypeOK, callers
<1>3. CASE DropFuture(d) /\ ticket[d] = NoActivation
  BY <1>1, <1>3, DirectoryUnmoved DEF DropFuture, IInv, TypeOK, callers
<1>4. CASE DropFuture(d) /\ ticket[d] # NoActivation
  <2>1. ticket[d] \in ActivationIds
    <3>1. ticket[d] \in 1 .. lastId
      BY <1>4, IssuedIds DEF IInv, TypeOK, NoActivation
    <3> QED BY <3>1, IssuedIds DEF IInv
  <2>2. [trigger |-> "CancelWaiter", id |-> ticket[d], d |-> d] \in ReportedType
    BY <2>1 DEF ReportedType
  <2>3. d \in Agents /\ calls \subseteq CallType
    BY DEF Agents, IInv, TypeOK
  <2> QED BY <1>1, <1>4, <2>2, <2>3, FindIInv DEF DropFuture
<1> QED BY <1>2, <1>3, <1>4

LEMMA CallIInv ==
  ASSUME IInv, NEW c \in calls, Proceeds(c) \/ InterpreterPanics(c)
  PROVE  IInv'
<1>1. CASE Finds(c)
  <2>1. c.by \in Agents /\ c.event \in ReportedType /\ calls \ {c} \subseteq CallType
    BY <1>1, CallFields DEF Finds, IInv, TypeOK
  <2>2. future' \in [Dispatches -> FutureStates]
    BY <1>1, WakeTyped DEF Finds, IInv
  <2> QED BY <1>1, <2>1, <2>2, FindIInv DEF Finds
<1> QED
  BY <1>1, SubmitIInv, InterpretIInv, ApplyEffectIInv, ReleaseIInv, PanicIInv DEF Proceeds

LEMMA TaskIInv ==
  ASSUME IInv, NEW id \in ActivationIds,
         \/ ActivationReports(id) \/ FenceReports(id)
         \/ \E d \in Dispatches : DeliveryAccepted(id, d) \/ DeliveryRefused(id, d)
         \/ \E mode \in Modes : RetirementReports(id, mode)
  PROVE  IInv'
<1>1. \A trigger \in {"ActivationSucceeded", "ActivationFailed", "FenceAcknowledged",
                      "ForceDrain", "Terminated"} :
        [trigger |-> trigger, id |-> id] \in ReportedType
  BY DEF ReportedType
<1>2. /\ StartActivation(id) \in TaskType /\ EnqueueFence(id) \in TaskType
      /\ \A d \in Dispatches : Deliver(id, d) \in TaskType
      /\ \A mode \in Modes : Retire(id, mode) \in TaskType
  BY DEF TaskType
<1>3. \A d \in Dispatches :
        [trigger |-> "DeliveryResolved", id |-> id, failure |-> << d >>] \in ReportedType
  BY DEF ReportedType
<1>4. CASE ActivationReports(id)
  BY <1>1, <1>2, <1>4, ReportIInv DEF ActivationReports
<1>5. CASE FenceReports(id)
  BY <1>1, <1>2, <1>5, ReportIInv DEF FenceReports
<1>6. CASE \E d \in Dispatches : DeliveryAccepted(id, d) \/ DeliveryRefused(id, d)
  BY <1>2, <1>3, <1>6, ReportIInv, AcceptedIInv DEF DeliveryRefused
<1>7. CASE \E mode \in Modes : RetirementReports(id, mode)
  BY <1>1, <1>2, <1>7, ReportIInv DEF RetirementReports
<1> QED BY <1>4, <1>5, <1>6, <1>7

LEMMA StutterIInv ==
  ASSUME IInv, UNCHANGED vars
  PROVE  IInv'
BY DirectoryUnmoved DEF vars, callers, history, IInv, TypeOK

LEMMA NextIInv == IInv /\ [Next]_vars => IInv'
<1> SUFFICES ASSUME IInv, Next PROVE IInv'
  BY StutterIInv
<1>1. CASE \E c \in calls : Proceeds(c) \/ InterpreterPanics(c)
  BY <1>1, CallIInv
<1>2. CASE \E n \in Entities :
             \/ \E d \in Dispatches :
                  DispatchMapped(d, n) \/ DispatchAbsent(d, n) \/ DispatchExhausted(d, n)
             \/ \E p \in Passivations : PassivateReads(p, n)
  BY <1>2, MappedIInv, AbsentIInv, ExhaustedIInv, PassivateIInv
<1>3. CASE \E d \in Dispatches : Poll(d) \/ DropFuture(d)
  BY <1>3, PollIInv
<1>4. CASE \E id \in ActivationIds :
             \/ ActivationReports(id) \/ FenceReports(id)
             \/ \E d \in Dispatches : DeliveryAccepted(id, d) \/ DeliveryRefused(id, d)
             \/ \E mode \in Modes : RetirementReports(id, mode)
  BY <1>4, TaskIInv
<1> QED BY <1>1, <1>2, <1>3, <1>4 DEF Next

THEOREM Invariance == Spec => []IInv
BY InitIInv, NextIInv, PTL DEF Spec

(* Every variable keeps a value of its type: whatever the callers, the     *)
(* tasks and the panics do, the directory's maps, the queued batches and   *)
(* the calls in progress stay well formed.                                 *)
THEOREM TypeCorrect == Spec => []TypeOK
<1>1. IInv => TypeOK
  BY DEF IInv
<1> QED BY <1>1, Invariance, PTL

(* An entity has at most one live incarnation, the one its map entry names *)
(* (dispatch inserts under the shard lock, remove_matching removes by      *)
(* pointer): no interleaving of removals and re-activations, no panic and  *)
(* no exhaustion of the identities orphans a live slot.                    *)
THEOREM OneLiveIncarnationHolds == Spec => []OneLiveIncarnation
<1>1. IInv => OneLiveIncarnation
  BY DEF IInv
<1> QED BY <1>1, Invariance, PTL

-----------------------------------------------------------------------------
(* Queued outputs always have someone who will interpret them.             *)

Serving(c) == c.at \in {"interpret", "own"}

(* The steps that leave the interpreting calls and their outputs alone.    *)
LEMMA ServersUnmoved ==
  ASSUME NoEffectStranded, UNCHANGED <<outputs, dispatching, abandoned>>,
         NEW more, NEW fewer, calls' = (calls \ fewer) \cup more,
         \A c \in fewer \cup more : ~Serving(c)
  PROVE  NoEffectStranded'
<1>1. \A c : Serving(c) => (c \in calls' <=> c \in calls)
  OBVIOUS
<1>2. \A s : (\E c \in calls' : c.slot = s /\ c.at \in {"interpret", "own"})
               <=> \E c \in calls : c.slot = s /\ c.at \in {"interpret", "own"}
  BY <1>1 DEF Serving
<1>3. \A s : (\E c \in calls' : c.slot = s /\ c.at = "own")
               <=> \E c \in calls : c.slot = s /\ c.at = "own"
  BY <1>1 DEF Serving
<1>4. \A b, c \in calls' : b.at = "own" /\ c.at = "own" => b \in calls /\ c \in calls
  BY <1>1 DEF Serving
<1> QED BY <1>2, <1>3, <1>4 DEF NoEffectStranded

LEMMA CallAdded ==
  ASSUME NoEffectStranded, UNCHANGED <<outputs, dispatching, abandoned>>,
         NEW m, calls' = calls \cup {m}, ~Serving(m)
  PROVE  NoEffectStranded'
<1>1. calls' = (calls \ {}) \cup {m} /\ \A c \in {} \cup {m} : ~Serving(c)
  OBVIOUS
<1> QED BY <1>1, ServersUnmoved

LEMMA FindStranded ==
  ASSUME NoEffectStranded, UNCHANGED <<outputs, dispatching, abandoned>>,
         NEW by, NEW e, NEW finished, NEW fewer, \A c \in fewer : ~Serving(c),
         Find(by, e, finished, calls \ fewer)
  PROVE  NoEffectStranded'
<1> DEFINE call == Call(by, "submit", map[home[e.id]], e)
<1>1. ~Serving(call)
  BY DEF Serving, Call
<1>2. calls' = (calls \ fewer) \cup {} \/ calls' = (calls \ fewer) \cup {call}
  BY DEF Find
<1> HIDE DEF call
<1> QED BY <1>1, <1>2, ServersUnmoved

LEMMA FindAdded ==
  ASSUME NoEffectStranded, UNCHANGED <<outputs, dispatching, abandoned>>,
         NEW by, NEW e, NEW finished, Find(by, e, finished, calls)
  PROVE  NoEffectStranded'
<1> DEFINE none == {}
           rest == calls \ none
<1>1. rest = calls
  OBVIOUS
<1> HIDE DEF rest
<1>2. Find(by, e, finished, rest)
  BY <1>1
<1>3. \A c \in none : ~Serving(c)
  OBVIOUS
<1> USE DEF rest
<1> HIDE DEF none
<1> QED BY <1>2, <1>3, FindStranded

LEMMA SubmitStranded ==
  ASSUME IInv, NoEffectStranded, NEW c \in calls, Submit(c)
  PROVE  NoEffectStranded'
<1> DEFINE m == Call(c.by, "interpret", c.slot, NoEvent)
<1>1. /\ c.at = "submit"
      /\ calls' = (calls \ {c}) \cup {m}
      /\ UNCHANGED <<dispatching, abandoned>>
      /\ \E q : outputs' = [outputs EXCEPT ![c.slot] = q]
  BY DEF Submit, Moved
<1>2. m.slot = c.slot /\ m.at = "interpret"
  BY DEF Call
<1> HIDE DEF m
<1> SUFFICES ASSUME NEW s \in ActivationIds
             PROVE  /\ outputs'[s] # << >> =>
                         s \in abandoned' \/ \E b \in calls' : b.slot = s /\ b.at \in {"interpret", "own"}
                    /\ s \in dispatching' <=> \E b \in calls' : b.slot = s /\ b.at = "own"
                    /\ \A a, b \in calls' :
                         a.slot = s /\ b.slot = s /\ a.at = "own" /\ b.at = "own" => a = b
  BY DEF NoEffectStranded
<1>3. CASE s = c.slot
  BY <1>1, <1>2, <1>3 DEF NoEffectStranded
<1>4. CASE s # c.slot
  <2>1. outputs'[s] = outputs[s]
    BY <1>1, <1>4 DEF IInv, TypeOK
  <2> QED BY <1>1, <1>2, <1>4, <2>1 DEF NoEffectStranded
<1> QED BY <1>3, <1>4

LEMMA AbsentStranded ==
  ASSUME IInv, NoEffectStranded, NEW d \in Dispatches, NEW n \in Entities, DispatchAbsent(d, n)
  PROVE  NoEffectStranded'
<1>1. PICK id \in ActivationIds : Claim(d, n, id)
  BY DEF DispatchAbsent
<1> DEFINE m == Call(d, "interpret", id, NoEvent)
<1>2. /\ calls' = calls \cup {m}
      /\ UNCHANGED <<dispatching, abandoned>>
      /\ \E q : outputs' = [outputs EXCEPT ![id] = q]
  BY <1>1 DEF Claim
<1>3. m.slot = id /\ m.at = "interpret"
  BY DEF Call
<1> HIDE DEF m
<1> SUFFICES ASSUME NEW s \in ActivationIds
             PROVE  /\ outputs'[s] # << >> =>
                         s \in abandoned' \/ \E b \in calls' : b.slot = s /\ b.at \in {"interpret", "own"}
                    /\ s \in dispatching' <=> \E b \in calls' : b.slot = s /\ b.at = "own"
                    /\ \A a, b \in calls' :
                         a.slot = s /\ b.slot = s /\ a.at = "own" /\ b.at = "own" => a = b
  BY DEF NoEffectStranded
<1>4. CASE s = id
  BY <1>2, <1>3, <1>4 DEF NoEffectStranded
<1>5. CASE s # id
  <2>1. outputs'[s] = outputs[s]
    BY <1>2, <1>5 DEF IInv, TypeOK
  <2> QED BY <1>2, <1>3, <1>5, <2>1 DEF NoEffectStranded
<1> QED BY <1>4, <1>5

LEMMA InterpretStranded ==
  ASSUME IInv, NoEffectStranded, NEW c \in calls, Interpret(c)
  PROVE  NoEffectStranded'
<1>1. c.at = "interpret" /\ c.slot \in ActivationIds /\ outputs' = outputs
  BY Owned DEF Interpret
<1>2. CASE c.slot \in dispatching
  <2>1. calls' = calls \ {c} /\ UNCHANGED <<dispatching, abandoned>>
    BY <1>2 DEF Interpret
  <2>2. PICK b \in calls : b.slot = c.slot /\ b.at = "own"
    BY <1>1, <1>2 DEF NoEffectStranded
  <2>3. b \in calls'
    BY <1>1, <2>1, <2>2
  <2>4. \A s \in ActivationIds : outputs[s] # << >> =>
           s \in abandoned \/ \E a \in calls' : a.slot = s /\ a.at \in {"interpret", "own"}
    BY <2>1, <2>2, <2>3 DEF NoEffectStranded
  <2>5. \A s \in ActivationIds : s \in dispatching <=> \E a \in calls' : a.slot = s /\ a.at = "own"
    BY <1>1, <2>1 DEF NoEffectStranded
  <2> QED BY <1>1, <2>1, <2>4, <2>5 DEF NoEffectStranded
<1>3. CASE c.slot \notin dispatching
  <2> DEFINE m == Call(c.by, "own", c.slot, NoEvent)
  <2>1. /\ calls' = (calls \ {c}) \cup {m}
        /\ dispatching' = dispatching \cup {c.slot}
        /\ abandoned' = abandoned \ {c.slot}
    BY <1>3 DEF Interpret, Moved
  <2>2. m.slot = c.slot /\ m.at = "own"
    BY DEF Call
  <2> HIDE DEF m
  <2>3. \A b \in calls : ~ (b.slot = c.slot /\ b.at = "own")
    BY <1>1, <1>3 DEF NoEffectStranded
  <2>4. \A s \in ActivationIds : outputs[s] # << >> =>
           s \in abandoned' \/ \E a \in calls' : a.slot = s /\ a.at \in {"interpret", "own"}
    BY <2>1, <2>2 DEF NoEffectStranded
  <2>5. \A s \in ActivationIds : s \in dispatching' <=> \E a \in calls' : a.slot = s /\ a.at = "own"
    BY <1>1, <2>1, <2>2 DEF NoEffectStranded
  <2>6. \A s \in ActivationIds : \A a, b \in calls' :
           a.slot = s /\ b.slot = s /\ a.at = "own" /\ b.at = "own" => a = b
    BY <2>1, <2>2, <2>3 DEF NoEffectStranded
  <2> QED BY <1>1, <2>4, <2>5, <2>6 DEF NoEffectStranded
<1> QED BY <1>2, <1>3

LEMMA OwnerStranded ==
  ASSUME IInv, NoEffectStranded, NEW c \in calls,
         ApplyEffect(c) \/ Release(c) \/ InterpreterPanics(c)
  PROVE  NoEffectStranded'
<1>1. c.at = "own" /\ c.slot \in ActivationIds
  BY Owned DEF ApplyEffect, Release, InterpreterPanics
<1>2. \A b \in calls : b.slot = c.slot /\ b.at = "own" => b = c
  BY <1>1 DEF NoEffectStranded
<1>3. CASE ApplyEffect(c)
  <2>1. /\ UNCHANGED <<calls, dispatching, abandoned>>
        /\ \E q : outputs' = [outputs EXCEPT ![c.slot] = q]
    BY <1>3 DEF ApplyEffect
  <2>2. \A s \in ActivationIds : s # c.slot => outputs'[s] = outputs[s]
    BY <2>1 DEF IInv, TypeOK
  <2> QED BY <1>1, <2>1, <2>2 DEF NoEffectStranded
<1>4. CASE Release(c) \/ InterpreterPanics(c)
  <2>1. /\ calls' = calls \ {c} /\ dispatching' = dispatching \ {c.slot}
        /\ \A s \in ActivationIds : s # c.slot => outputs'[s] = outputs[s]
        /\ outputs'[c.slot] = << >> \/ c.slot \in abandoned'
        /\ abandoned \subseteq abandoned'
    BY <1>1, <1>4 DEF Release, InterpreterPanics, IInv, TypeOK
  <2>2. \A s \in ActivationIds : outputs'[s] # << >> =>
           s \in abandoned' \/ \E a \in calls' : a.slot = s /\ a.at \in {"interpret", "own"}
    BY <2>1 DEF NoEffectStranded
  <2>3. \A s \in ActivationIds : s \in dispatching' <=> \E a \in calls' : a.slot = s /\ a.at = "own"
    BY <1>1, <1>2, <2>1 DEF NoEffectStranded
  <2> QED BY <2>1, <2>2, <2>3 DEF NoEffectStranded
<1> QED BY <1>3, <1>4

LEMMA CallerStranded ==
  ASSUME NoEffectStranded, NEW d \in Dispatches, NEW n \in Entities,
         DispatchMapped(d, n) \/ DispatchExhausted(d, n) \/ Poll(d) \/ DropFuture(d)
  PROVE  NoEffectStranded'
<1>1. CASE DispatchMapped(d, n)
  <2>1. ~Serving(Call(d, "submit", map[n], [trigger |-> "Dispatch", d |-> d]))
    BY DEF Serving, Call
  <2>2. UNCHANGED <<outputs, dispatching, abandoned>>
    BY <1>1 DEF DispatchMapped, directory
  <2>3. calls' = calls \cup {Call(d, "submit", map[n], [trigger |-> "Dispatch", d |-> d])}
    BY <1>1 DEF DispatchMapped
  <2> QED BY <2>1, <2>2, <2>3, CallAdded
<1>2. CASE DispatchExhausted(d, n) \/ Poll(d) \/ (DropFuture(d) /\ ticket[d] = NoActivation)
  BY <1>2 DEF DispatchExhausted, Poll, DropFuture, directory, NoEffectStranded
<1>3. CASE DropFuture(d) /\ ticket[d] # NoActivation
  <2>1. UNCHANGED <<outputs, dispatching, abandoned>>
    BY <1>3 DEF DropFuture, directory
  <2>2. Find(d, [trigger |-> "CancelWaiter", id |-> ticket[d], d |-> d], {}, calls)
    BY <1>3 DEF DropFuture
  <2> QED BY <2>1, <2>2, FindAdded
<1> QED BY <1>1, <1>2, <1>3

LEMMA PassivateStranded ==
  ASSUME NoEffectStranded, NEW p \in Passivations, NEW n \in Entities, PassivateReads(p, n)
  PROVE  NoEffectStranded'
<1> DEFINE m == Call(p, "find", NoActivation, [trigger |-> "BeginDrain", id |-> slots[map[n]].id])
<1>1. ~Serving(m)
  BY DEF Serving, Call
<1>2. UNCHANGED <<outputs, dispatching, abandoned>> /\ calls' = calls \cup {m}
  BY DEF PassivateReads, directory
<1> HIDE DEF m
<1> QED BY <1>1, <1>2, CallAdded

LEMMA TaskStranded ==
  ASSUME NoEffectStranded, NEW id \in ActivationIds,
         \/ ActivationReports(id) \/ FenceReports(id)
         \/ \E d \in Dispatches : DeliveryAccepted(id, d) \/ DeliveryRefused(id, d)
         \/ \E mode \in Modes : RetirementReports(id, mode)
  PROVE  NoEffectStranded'
<1>1. ASSUME NEW t, NEW e, Report(t, e) PROVE NoEffectStranded'
  <2>1. UNCHANGED <<outputs, dispatching, abandoned>> /\ Find(t, e, {t}, calls)
    BY <1>1 DEF Report, directory
  <2> QED BY <2>1, FindAdded
<1>2. ASSUME NEW d \in Dispatches, DeliveryAccepted(id, d) PROVE NoEffectStranded'
  <2> DEFINE m == Call(Deliver(id, d), "find", NoActivation,
                       [trigger |-> "DeliveryResolved", id |-> id, failure |-> << >>])
  <2>1. ~Serving(m)
    BY DEF Serving, Call
  <2>2. UNCHANGED <<outputs, dispatching, abandoned>> /\ calls' = calls \cup {m}
    BY <1>2 DEF DeliveryAccepted, directory
  <2> HIDE DEF m
  <2> QED BY <2>1, <2>2, CallAdded
<1> QED
  BY <1>1, <1>2 DEF ActivationReports, FenceReports, DeliveryRefused, RetirementReports

LEMMA NextStranded == IInv /\ NoEffectStranded /\ [Next]_vars => NoEffectStranded'
<1> SUFFICES ASSUME IInv, NoEffectStranded, [Next]_vars PROVE NoEffectStranded'
  OBVIOUS
<1>1. CASE UNCHANGED vars
  BY <1>1 DEF vars, directory, NoEffectStranded
<1>2. CASE \E c \in calls : Proceeds(c) \/ InterpreterPanics(c)
  <2>1. PICK c \in calls : Proceeds(c) \/ InterpreterPanics(c)
    BY <1>2
  <2>2. CASE Finds(c)
    <3>1. UNCHANGED <<outputs, dispatching, abandoned>> /\ c.at = "find"
      BY <2>2 DEF Finds, directory
    <3>2. Find(c.by, c.event, {}, calls \ {c})
      BY <2>2 DEF Finds
    <3>3. \A b \in {c} : ~Serving(b)
      BY <3>1 DEF Serving
    <3> QED BY <3>1, <3>2, <3>3, FindStranded
  <2> QED BY <2>1, <2>2, SubmitStranded, InterpretStranded, OwnerStranded DEF Proceeds
<1>3. CASE \E n \in Entities :
             \/ \E d \in Dispatches :
                  DispatchMapped(d, n) \/ DispatchAbsent(d, n) \/ DispatchExhausted(d, n)
             \/ \E p \in Passivations : PassivateReads(p, n)
  BY <1>3, AbsentStranded, CallerStranded, PassivateStranded
<1>4. CASE \E d \in Dispatches : Poll(d) \/ DropFuture(d)
  BY <1>4, EntitiesAssumption, CallerStranded
<1>5. CASE \E id \in ActivationIds :
             \/ ActivationReports(id) \/ FenceReports(id)
             \/ \E d \in Dispatches : DeliveryAccepted(id, d) \/ DeliveryRefused(id, d)
             \/ \E mode \in Modes : RetirementReports(id, mode)
  BY <1>5, TaskStranded
<1> QED BY <1>1, <1>2, <1>3, <1>4, <1>5 DEF Next

(* No queued effect waits for nobody (dispatch_pending,                    *)
(* try_begin_dispatch, the guard's drop): however many calls race to       *)
(* interpret a slot's outputs, exactly one owns them while they are owned, *)
(* and they are owned or about to be unless the last interpreter panicked. *)
THEOREM NoEffectStrandedHolds == Spec => []NoEffectStranded
<1>1. Init => NoEffectStranded
  BY DEF Init, NoEffectStranded
<1> QED BY <1>1, NextStranded, Invariance, PTL DEF Spec
-----------------------------------------------------------------------------
(* Callers that wait in a slot, and those that gave up.                    *)

Cancellation(s, d) ==
  Call(d, "submit", s, [trigger |-> "CancelWaiter", id |-> s, d |-> d])

(* A waiter is bound to the activation it waits for, and if its caller     *)
(* dropped the future, the cancellation is on its way to the very slot.    *)
WaiterSeats ==
  \A s \in ActivationIds :
    /\ slots[s].waiters # << >> => slots[s].phase = "Activating"
    /\ IsInjective(slots[s].waiters)
    /\ \A d \in Range(slots[s].waiters) :
         /\ ticket[d] = s
         /\ future[d] # "none"
         /\ future[d] = "dropped" => Cancellation(s, d) \in calls

(* A dispatch on its way to a slot is its caller's only one, and nobody    *)
(* waits for it yet.                                                       *)
DispatchesSubmitted ==
  \A c \in calls : c.event.trigger = "Dispatch" =>
    /\ c.by = c.event.d
    /\ future[c.by] \notin {"none", "dropped"}
    /\ \A s \in ActivationIds : c.by \notin Range(slots[s].waiters)
    /\ \A b \in calls : b.event.trigger = "Dispatch" /\ b.event.d = c.by => b = c

WInv == WaiterSeats /\ DispatchesSubmitted

LEMMA WaiterFields ==
  ASSUME TypeOK, NEW s \in ActivationIds
  PROVE  /\ slots[s].waiters \in Seq(Dispatches)
         /\ Range(slots[s].waiters) \subseteq Dispatches
<1>1. slots[s].waiters \in Seq(Dispatches)
  BY DEF TypeOK, SlotType
<1> QED BY <1>1 DEF Range

LEMMA DispatchFields ==
  ASSUME TypeOK, NEW c \in calls, c.event.trigger = "Dispatch"
  PROVE  c.at = "submit" /\ c.event.d \in Dispatches
<1>1. c \in CallType
  BY DEF TypeOK
<1>2. c.at \notin {"interpret", "own"}
  BY <1>1 DEF CallType, NoEvent
<1>3. c.at # "find"
  BY <1>1 DEF CallType, ReportedType
<1> QED BY <1>1, <1>2, <1>3, CallFields, EventFields

(* The steps that leave waiters, tickets and submissions alone, and drop   *)
(* no future.                                                              *)
LEMMA WaitersUnmoved ==
  ASSUME TypeOK, WInv, UNCHANGED <<slots, ticket>>,
         \A c \in calls \ calls' : c.at # "submit",
         \A c \in calls' \ calls : c.event.trigger # "Dispatch",
         \A d \in Dispatches :
           /\ future[d] # "none" => future'[d] # "none"
           /\ future'[d] = "dropped" => future[d] = "dropped"
  PROVE  WInv'
<1>1. WaiterSeats'
  <2> SUFFICES ASSUME NEW s \in ActivationIds
               PROVE  /\ slots[s].waiters # << >> => slots[s].phase = "Activating"
                      /\ IsInjective(slots[s].waiters)
                      /\ \A d \in Range(slots[s].waiters) :
                           /\ ticket[d] = s
                           /\ future'[d] # "none"
                           /\ future'[d] = "dropped" => Cancellation(s, d) \in calls'
    BY DEF WaiterSeats
  <2>1. \A d : Cancellation(s, d).at = "submit"
    BY DEF Cancellation, Call
  <2> QED BY <2>1, WaiterFields DEF WInv, WaiterSeats
<1>2. DispatchesSubmitted'
  <2> SUFFICES ASSUME NEW c \in calls', c.event.trigger = "Dispatch"
               PROVE  /\ c.by = c.event.d
                      /\ future'[c.by] \notin {"none", "dropped"}
                      /\ \A s \in ActivationIds : c.by \notin Range(slots[s].waiters)
                      /\ \A b \in calls' : b.event.trigger = "Dispatch" /\ b.event.d = c.by => b = c
    BY DEF DispatchesSubmitted
  <2>1. c \in calls
    OBVIOUS
  <2>2. c.event.d \in Dispatches
    BY <2>1, DispatchFields
  <2> QED BY <2>1, <2>2 DEF WInv, DispatchesSubmitted
<1> QED BY <1>1, <1>2 DEF WInv

(* A call that looks a slot up for a fact of its own adds at most one.     *)
LEMMA FindCalls ==
  ASSUME NEW by, NEW e, NEW finished, NEW rest, Find(by, e, finished, rest)
  PROVE  calls' = rest \/ calls' = rest \cup {Call(by, "submit", map[home[e.id]], e)}
BY DEF Find

LEMMA WakeForward ==
  ASSUME NEW d \in Dispatches, Wake
  PROVE  /\ future[d] # "none" => future'[d] # "none"
         /\ future'[d] = "dropped" => future[d] = "dropped"
BY DEF Wake
LEMMA FindWaiters ==
  ASSUME TypeOK, WInv, UNCHANGED directory, UNCHANGED ticket,
         NEW by, NEW e, e.trigger # "Dispatch",
         NEW finished, NEW fewer, \A c \in fewer : c.at # "submit",
         Find(by, e, finished, calls \ fewer), Wake
  PROVE  WInv'
<1>1. Call(by, "submit", map[home[e.id]], e).event = e
  BY DEF Call
<1>2. calls' = calls \ fewer \/
      calls' = (calls \ fewer) \cup {Call(by, "submit", map[home[e.id]], e)}
  BY FindCalls
<1>3. /\ \A c \in calls \ calls' : c.at # "submit"
      /\ \A c \in calls' \ calls : c.event.trigger # "Dispatch"
  BY <1>1, <1>2
<1> QED BY <1>3, WakeForward, WaitersUnmoved DEF directory

LEMMA InterpretingWaiters ==
  ASSUME TypeOK, WInv, NEW c \in calls,
         Interpret(c) \/ Release(c) \/ ApplyEffect(c) \/ InterpreterPanics(c)
  PROVE  WInv'
<1>1. UNCHANGED <<slots, ticket>>
  BY DEF Interpret, Release, ApplyEffect, InterpreterPanics, callers
<1>2. Call(c.by, "own", c.slot, NoEvent).event.trigger # "Dispatch"
  BY DEF Call, NoEvent
<1>3. /\ \A b \in calls \ calls' : b.at # "submit"
      /\ \A b \in calls' \ calls : b.event.trigger # "Dispatch"
  BY <1>2 DEF Interpret, Release, ApplyEffect, InterpreterPanics, Moved
<1>4. \A d \in Dispatches :
        /\ future[d] # "none" => future'[d] # "none"
        /\ future'[d] = "dropped" => future[d] = "dropped"
  <2>1. CASE Interpret(c) \/ Release(c)
    BY <2>1 DEF Interpret, Release
  <2>2. CASE ApplyEffect(c)
    BY <2>2, WakeForward DEF ApplyEffect
  <2>3. CASE InterpreterPanics(c)
    BY <2>3 DEF InterpreterPanics
  <2> QED BY <2>1, <2>2, <2>3
<1> QED BY <1>1, <1>3, <1>4, WaitersUnmoved

LEMMA OutsideWaiters ==
  ASSUME TypeOK, WInv, NEW d \in Dispatches, NEW n \in Entities,
         DispatchExhausted(d, n) \/ Poll(d) \/ \E p \in Passivations : PassivateReads(p, n)
  PROVE  WInv'
<1>1. UNCHANGED <<slots, ticket>>
  BY DEF DispatchExhausted, Poll, PassivateReads, directory, callers
<1>2. \A b \in calls' \ calls : b.event.trigger # "Dispatch"
  BY DEF DispatchExhausted, Poll, PassivateReads, Call
<1>3. calls \ calls' = {}
  BY DEF DispatchExhausted, Poll, PassivateReads
<1>4. \A x \in Dispatches :
        /\ future[x] # "none" => future'[x] # "none"
        /\ future'[x] = "dropped" => future[x] = "dropped"
  BY DEF DispatchExhausted, Poll, PassivateReads, TypeOK
<1> QED BY <1>1, <1>2, <1>3, <1>4, WaitersUnmoved

LEMMA TaskWaiters ==
  ASSUME TypeOK, WInv, NEW id \in ActivationIds,
         \/ ActivationReports(id) \/ FenceReports(id)
         \/ \E d \in Dispatches : DeliveryAccepted(id, d) \/ DeliveryRefused(id, d)
         \/ \E mode \in Modes : RetirementReports(id, mode)
  PROVE  WInv'
<1>1. ASSUME NEW t, NEW e, e.trigger # "Dispatch", Report(t, e) PROVE WInv'
  <2> DEFINE none == {}
  <2>1. UNCHANGED directory /\ UNCHANGED ticket /\ Wake /\ Find(t, e, {t}, calls)
    BY <1>1 DEF Report, callers
  <2>2. calls \ none = calls /\ \A c \in none : c.at # "submit"
    OBVIOUS
  <2> HIDE DEF none
  <2>3. Find(t, e, {t}, calls \ none)
    BY <2>1, <2>2
  <2> QED BY <1>1, <2>1, <2>2, <2>3, FindWaiters
<1>2. ASSUME NEW d \in Dispatches, DeliveryAccepted(id, d) PROVE WInv'
  <2>1. UNCHANGED <<slots, ticket>> /\ Wake
    BY <1>2 DEF DeliveryAccepted, directory, callers
  <2>2. /\ \A c \in calls \ calls' : c.at # "submit"
        /\ \A c \in calls' \ calls : c.event.trigger # "Dispatch"
    BY <1>2 DEF DeliveryAccepted, Call
  <2> QED BY <2>1, <2>2, WakeForward, WaitersUnmoved
<1> QED
  BY <1>1, <1>2 DEF ActivationReports, FenceReports, DeliveryRefused, RetirementReports

(* Dropping a future sends the cancellation to the slot it waits in: that  *)
(* slot is live, so the map routes to it.                                  *)
LEMMA DropWaiters ==
  ASSUME IInv, WInv, NEW d \in Dispatches, DropFuture(d)
  PROVE  WInv'
<1> DEFINE m == Call(d, "submit", map[home[ticket[d]]],
                     [trigger |-> "CancelWaiter", id |-> ticket[d], d |-> d])
<1>1. /\ UNCHANGED <<slots, ticket, map, home>>
      /\ future' = [future EXCEPT ![d] = "dropped"]
      /\ \A c \in calls : c.by # d
  BY DEF DropFuture, directory, callers, Waiting
<1>2. calls' = calls \/ calls' = calls \cup {m}
  BY FindCalls DEF DropFuture
<1>3. m.event.trigger # "Dispatch"
  BY DEF Call
<1>4. ASSUME NEW s \in ActivationIds, d \in Range(slots[s].waiters)
      PROVE  Cancellation(s, d) \in calls'
  <2>1. ticket[d] = s /\ ticket[d] # NoActivation
    BY <1>4 DEF WInv, WaiterSeats, ActivationIds, NoActivation
  <2>2. slots[s].waiters # << >>
    BY <1>4 DEF Range
  <2>3. Live(s)
    BY <2>2 DEF WInv, WaiterSeats, Live
  <2>4. s \in 1 .. lastId
    BY <2>3 DEF IInv, Unissued, ActivationIds, TypeOK
  <2>5. map[home[s]] = s /\ map[home[s]] # NoActivation
    BY <2>1, <2>3, <2>4 DEF IInv, OneLiveIncarnation
  <2>6. calls' = calls \cup {m}
    BY <2>1, <2>5 DEF DropFuture, Find
  <2>7. m = Cancellation(s, d)
    BY <2>1, <2>5 DEF Cancellation
  <2> HIDE DEF m
  <2> QED BY <2>6, <2>7
<1> HIDE DEF m
<1>5. WaiterSeats'
  <2> SUFFICES ASSUME NEW s \in ActivationIds
               PROVE  /\ slots[s].waiters # << >> => slots[s].phase = "Activating"
                      /\ IsInjective(slots[s].waiters)
                      /\ \A x \in Range(slots[s].waiters) :
                           /\ ticket[x] = s
                           /\ future'[x] # "none"
                           /\ future'[x] = "dropped" => Cancellation(s, x) \in calls'
    BY <1>1 DEF WaiterSeats
  <2>1. Range(slots[s].waiters) \subseteq Dispatches
    BY WaiterFields DEF IInv
  <2>2. \A x \in Range(slots[s].waiters) :
          future'[x] # "none" /\ (x # d => future'[x] = future[x])
    BY <1>1, <2>1 DEF IInv, TypeOK, WInv, WaiterSeats
  <2> QED BY <1>2, <1>4, <2>2 DEF WInv, WaiterSeats
<1>6. DispatchesSubmitted'
  <2> SUFFICES ASSUME NEW c \in calls', c.event.trigger = "Dispatch"
               PROVE  /\ c.by = c.event.d
                      /\ future'[c.by] \notin {"none", "dropped"}
                      /\ \A s \in ActivationIds : c.by \notin Range(slots[s].waiters)
                      /\ \A b \in calls' : b.event.trigger = "Dispatch" /\ b.event.d = c.by => b = c
    BY <1>1 DEF DispatchesSubmitted
  <2>1. c \in calls
    BY <1>2, <1>3
  <2>2. c.by \in Dispatches /\ c.by # d
    BY <1>1, <2>1, DispatchFields DEF IInv, WInv, DispatchesSubmitted
  <2>3. future'[c.by] = future[c.by]
    BY <1>1, <2>2 DEF IInv, TypeOK
  <2> QED BY <1>2, <1>3, <2>1, <2>3 DEF WInv, DispatchesSubmitted
<1> QED BY <1>5, <1>6 DEF WInv

LEMMA MappedWaiters ==
  ASSUME IInv, WInv, NEW d \in Dispatches, NEW n \in Entities, DispatchMapped(d, n)
  PROVE  WInv'
<1> DEFINE m == Call(d, "submit", map[n], [trigger |-> "Dispatch", d |-> d])
<1>1. /\ UNCHANGED <<slots, ticket>>
      /\ future[d] = "none" /\ future' = [future EXCEPT ![d] = "polled"]
      /\ calls' = calls \cup {m}
  BY DEF DispatchMapped, directory, callers
<1>2. m.by = d /\ m.event.d = d /\ m.event.trigger = "Dispatch"
  BY DEF Call
<1> HIDE DEF m
<1>3. future'[d] = "polled" /\ \A x \in Dispatches \ {d} : future'[x] = future[x]
  BY <1>1 DEF IInv, TypeOK
<1>4. \A s \in ActivationIds : d \notin Range(slots[s].waiters)
  BY <1>1 DEF WInv, WaiterSeats
<1>5. WaiterSeats'
  <2> SUFFICES ASSUME NEW s \in ActivationIds
               PROVE  /\ slots[s].waiters # << >> => slots[s].phase = "Activating"
                      /\ IsInjective(slots[s].waiters)
                      /\ \A x \in Range(slots[s].waiters) :
                           /\ ticket[x] = s
                           /\ future'[x] # "none"
                           /\ future'[x] = "dropped" => Cancellation(s, x) \in calls'
    BY <1>1 DEF WaiterSeats
  <2>1. \A x \in Range(slots[s].waiters) : x \in Dispatches \ {d}
    BY <1>4, WaiterFields DEF IInv
  <2> QED BY <1>1, <1>3, <2>1 DEF WInv, WaiterSeats
<1>6. DispatchesSubmitted'
  <2> SUFFICES ASSUME NEW c \in calls', c.event.trigger = "Dispatch"
               PROVE  /\ c.by = c.event.d
                      /\ future'[c.by] \notin {"none", "dropped"}
                      /\ \A s \in ActivationIds : c.by \notin Range(slots[s].waiters)
                      /\ \A b \in calls' : b.event.trigger = "Dispatch" /\ b.event.d = c.by => b = c
    BY <1>1 DEF DispatchesSubmitted
  <2>1. \A b \in calls : b.event.trigger = "Dispatch" => b.event.d \in Dispatches \ {d} /\ b.by = b.event.d
    BY <1>1, DispatchFields DEF IInv, WInv, DispatchesSubmitted
  <2>2. CASE c = m
    BY <1>1, <1>2, <1>3, <1>4, <2>1, <2>2
  <2>3. CASE c \in calls
    BY <1>1, <1>2, <1>3, <2>1, <2>3 DEF WInv, DispatchesSubmitted
  <2> QED BY <1>1, <2>2, <2>3
<1> QED BY <1>5, <1>6 DEF WInv
(* The first waiter sits in the slot claimed for it.                       *)
LEMMA AbsentWaiters ==
  ASSUME IInv, WInv, NEW d \in Dispatches, NEW n \in Entities, DispatchAbsent(d, n)
  PROVE  WInv'
<1>1. PICK id \in ActivationIds : Claim(d, n, id)
  BY DEF DispatchAbsent
<1> DEFINE r == Reduce(Inactive, [trigger |-> "ClaimActivation", id |-> id, d |-> d])
           m == Call(d, "interpret", id, NoEvent)
<1>2. /\ slots' = [slots EXCEPT ![id] = r.slot]
      /\ future[d] = "none" /\ future' = [future EXCEPT ![d] = "polled"]
      /\ ticket' = [ticket EXCEPT ![d] = id]
      /\ calls' = calls \cup {m}
  BY <1>1 DEF Claim, DispatchAbsent
<1>3. r.slot = Activating(id, << d >>)
  BY DEF Reduce, DecideInactive, Decision, Inactive, Slot
<1>4. m.event.trigger # "Dispatch"
  BY DEF Call, NoEvent
<1> HIDE DEF m, r
<1>5. /\ future'[d] = "polled" /\ ticket'[d] = id
      /\ \A x \in Dispatches \ {d} : future'[x] = future[x] /\ ticket'[x] = ticket[x]
  BY <1>2 DEF IInv, TypeOK
<1>6. \A s \in ActivationIds : d \notin Range(slots[s].waiters)
  BY <1>2 DEF WInv, WaiterSeats
<1>7. /\ slots'[id].waiters = << d >> /\ slots'[id].phase = "Activating"
      /\ \A s \in ActivationIds \ {id} : slots'[s] = slots[s]
  BY <1>2, <1>3 DEF IInv, TypeOK, Activating, Slot
<1>8. Range(<< d >>) = {d} /\ IsInjective(<< d >>)
  BY SingleWaiter
<1>9. WaiterSeats'
  <2> SUFFICES ASSUME NEW s \in ActivationIds
               PROVE  /\ slots'[s].waiters # << >> => slots'[s].phase = "Activating"
                      /\ IsInjective(slots'[s].waiters)
                      /\ \A x \in Range(slots'[s].waiters) :
                           /\ ticket'[x] = s
                           /\ future'[x] # "none"
                           /\ future'[x] = "dropped" => Cancellation(s, x) \in calls'
    BY DEF WaiterSeats
  <2>1. CASE s = id
    BY <1>5, <1>7, <1>8, <2>1
  <2>2. CASE s # id
    <3>1. \A x \in Range(slots[s].waiters) : x \in Dispatches \ {d}
      BY <1>6, WaiterFields DEF IInv
    <3> QED BY <1>2, <1>5, <1>7, <2>2, <3>1 DEF WInv, WaiterSeats
  <2> QED BY <2>1, <2>2
<1>10. DispatchesSubmitted'
  <2> SUFFICES ASSUME NEW c \in calls', c.event.trigger = "Dispatch"
               PROVE  /\ c.by = c.event.d
                      /\ future'[c.by] \notin {"none", "dropped"}
                      /\ \A s \in ActivationIds : c.by \notin Range(slots'[s].waiters)
                      /\ \A b \in calls' : b.event.trigger = "Dispatch" /\ b.event.d = c.by => b = c
    BY DEF DispatchesSubmitted
  <2>1. c \in calls
    BY <1>2, <1>4
  <2>2. c.by \in Dispatches \ {d}
    BY <1>2, <2>1, DispatchFields DEF IInv, WInv, DispatchesSubmitted
  <2>3. \A s \in ActivationIds : c.by \notin Range(slots'[s].waiters)
    BY <1>7, <1>8, <2>1, <2>2 DEF WInv, DispatchesSubmitted
  <2> QED BY <1>2, <1>4, <1>5, <2>1, <2>2, <2>3 DEF WInv, DispatchesSubmitted
<1> QED BY <1>9, <1>10 DEF WInv

(* What a fact does to the waiters of a slot: they leave together, they    *)
(* stay, or one joins or is taken out.                                     *)
Joins(s, e, t) ==
  /\ e.trigger = "Dispatch"
  /\ t.phase = "Activating" /\ t.id = s.id
  /\ t.waiters = Append(s.waiters, e.d)

Withdraws(s, e, t) ==
  /\ e.trigger = "CancelWaiter" /\ e.id = s.id
  /\ t.phase = "Activating" /\ t.id = s.id
  /\ t.waiters = RemoveFirst(s.waiters, e.d)

Keeps(s, e, t) ==
  /\ t = s
  /\ ~ (e.trigger = "CancelWaiter" /\ e.id = s.id)

LEMMA ActivatingWaiters ==
  ASSUME NEW s, NEW e, s.phase = "Activating"
  PROVE  LET t == DecideActivating(s, e).slot
         IN  t.waiters = << >> \/ Joins(s, e, t) \/ Withdraws(s, e, t) \/ Keeps(s, e, t)
<1> DEFINE t == DecideActivating(s, e).slot
<1>1. CASE e.trigger = "Dispatch"
  <2>1. t = s \/ t = Activating(s.id, Append(s.waiters, e.d))
    BY <1>1 DEF DecideActivating, AdmitWaiter, Ignore, Refuse, Decision
  <2> HIDE DEF t
  <2>2. Keeps(s, e, t) \/ Joins(s, e, t)
    BY <1>1, <2>1 DEF Keeps, Joins, Activating, Slot
  <2> QED BY <2>2 DEF t
<1>2. CASE e.trigger = "CancelWaiter"
  <2>1. IF e.id = s.id THEN t = Activating(s.id, RemoveFirst(s.waiters, e.d)) ELSE t = s
    BY <1>2 DEF DecideActivating, CancelWaiter, Ignore, Decision
  <2> HIDE DEF t
  <2>2. Keeps(s, e, t) \/ Withdraws(s, e, t)
    BY <1>2, <2>1 DEF Keeps, Withdraws, Activating, Slot
  <2> QED BY <2>2 DEF t
<1>3. CASE e.trigger = "ActivationSucceeded"
  <2>1. t = s \/ t = Active(e.id, Len(s.waiters))
    BY <1>3 DEF DecideActivating, FinishActivation, RetireStale, Decision
  <2> HIDE DEF t
  <2>2. Keeps(s, e, t) \/ t.waiters = << >>
    BY <1>3, <2>1 DEF Keeps, Active, Slot
  <2> QED BY <2>2 DEF t
<1>4. CASE e.trigger = "ActivationFailed"
  <2>1. t = s \/ t = Inactive
    BY <1>4 DEF DecideActivating, FailActivation, Ignore, Decision
  <2> HIDE DEF t
  <2>2. Keeps(s, e, t) \/ t.waiters = << >>
    BY <1>4, <2>1 DEF Keeps, Inactive, Slot
  <2> QED BY <2>2 DEF t
<1>5. CASE e.trigger \notin {"Dispatch", "CancelWaiter", "ActivationSucceeded", "ActivationFailed"}
  <2>1. t = s
    BY <1>5 DEF DecideActivating, RejectFailedDelivery, Ignore, Refuse, Decision
  <2> HIDE DEF t
  <2>2. Keeps(s, e, t)
    BY <1>5, <2>1 DEF Keeps
  <2> QED BY <2>2 DEF t
<1> QED BY <1>1, <1>2, <1>3, <1>4, <1>5

(* Outside activation nobody waits, and no fact but a claim changes that.  *)
LEMMA OtherwiseNoWaiters ==
  ASSUME NEW s, NEW e, s.phase \in {"Inactive", "Active", "Draining", "Retiring"},
         s.waiters = << >>, e.trigger # "ClaimActivation"
  PROVE  Reduce(s, e).slot.waiters = << >>
<1>1. CASE s.phase = "Inactive"
  BY <1>1 DEF Reduce, DecideInactive, Refuse, RetireStale, RejectFailedDelivery, Ignore,
              Decision, Inactive, Slot
<1>2. CASE s.phase = "Active"
  <2>1. Reduce(s, e) = DecideActive(s, e)
    BY <1>2 DEF Reduce
  <2> DEFINE d == DecideActive(s, e)
  <2>2. CASE e.trigger = "Dispatch"
    <3>1. d.slot = Active(s.id, s.reservations + 1)
      BY <2>2 DEF DecideActive, ReserveDelivery, Decision
    <3> QED BY <2>1, <3>1 DEF Active, Slot
  <2>3. CASE e.trigger = "DeliveryResolved" /\ e.id = s.id
    <3>1. d.slot = Active(s.id, IF s.reservations > 0 THEN s.reservations - 1 ELSE 0)
      BY <2>3 DEF DecideActive, ResolveActiveDelivery, RejectFailedDelivery, Decision
    <3> QED BY <2>1, <3>1 DEF Active, Slot
  <2>4. CASE e.trigger = "BeginDrain" /\ e.id = s.id
    <3>1. d.slot = Draining(s.id, s.reservations)
      BY <2>4 DEF DecideActive, BeginDrain, Decision
    <3> QED BY <2>1, <3>1 DEF Draining, Slot
  <2>5. CASE ~ \/ e.trigger = "Dispatch"
               \/ e.trigger \in {"DeliveryResolved", "BeginDrain"} /\ e.id = s.id
    <3>1. d.slot = s
      BY <2>5 DEF DecideActive, RejectFailedDelivery, RetireStale, Refuse, Ignore, Decision
    <3> QED BY <2>1, <3>1
  <2> QED BY <2>2, <2>3, <2>4, <2>5
<1>3. CASE s.phase = "Draining"
  <2>1. Reduce(s, e) = DecideDraining(s, e)
    BY <1>3 DEF Reduce
  <2> DEFINE d == DecideDraining(s, e)
  <2>2. CASE e.trigger = "DeliveryResolved" /\ e.id = s.id
    <3>1. d.slot = Draining(s.id, IF s.reservations > 0 THEN s.reservations - 1 ELSE 0)
      BY <2>2 DEF DecideDraining, ResolveDrainingDelivery, Decision
    <3> QED BY <2>1, <3>1 DEF Draining, Slot
  <2>3. CASE e.trigger \in {"FenceAcknowledged", "ForceDrain"} /\ e.id = s.id
    <3>1. d.slot = s \/ d.slot = Retiring(s.id)
      BY <2>3 DEF DecideDraining, AcknowledgeFence, ForceDrain, Ignore, Decision
    <3> QED BY <2>1, <3>1 DEF Retiring, Slot
  <2>4. CASE ~ (e.trigger \in {"DeliveryResolved", "FenceAcknowledged", "ForceDrain"} /\ e.id = s.id)
    <3>1. d.slot = s
      BY <2>4 DEF DecideDraining, RejectFailedDelivery, RetireStale, Refuse, Ignore, Decision
    <3> QED BY <2>1, <3>1
  <2> QED BY <2>2, <2>3, <2>4
<1>4. CASE s.phase = "Retiring"
  <2>1. Reduce(s, e) = DecideRetiring(s, e)
    BY <1>4 DEF Reduce
  <2>2. DecideRetiring(s, e).slot = s \/ DecideRetiring(s, e).slot = Inactive
    BY DEF DecideRetiring, RejectFailedDelivery, RetireStale, Refuse, Ignore, Decision
  <2> QED BY <2>1, <2>2 DEF Inactive, Slot
<1> QED BY <1>1, <1>2, <1>3, <1>4
(* The fact of a call reaches its slot: only a dispatch adds a waiter, its *)
(* own, and a cancellation that is submitted has no waiter left to take.   *)
LEMMA SubmitWaiters ==
  ASSUME IInv, WInv, NEW c \in calls, Submit(c)
  PROVE  WInv'
<1> DEFINE u == c.slot
           e == c.event
           t == Reduce(slots[u], e).slot
           m == Call(c.by, "interpret", u, NoEvent)
<1>1. c \in CallType /\ c.at = "submit" /\ u \in 1 .. lastId /\ e \in Events
  BY CallFields DEF Submit, IInv, TypeOK
<1>2. u \in ActivationIds /\ slots[u] \in SlotType /\ e.trigger # "ClaimActivation"
  BY <1>1, IssuedIds, EventFields DEF IInv, TypeOK
<1>3. /\ slots' = [slots EXCEPT ![u] = t]
      /\ calls' = (calls \ {c}) \cup {m}
      /\ ticket' = IF e.trigger = "Dispatch" THEN [ticket EXCEPT ![e.d] = t.id] ELSE ticket
      /\ future' = future
  BY DEF Submit, Moved
<1>4. m.event.trigger # "Dispatch"
  BY DEF Call, NoEvent
<1>5. slots[u].waiters # << >> => slots[u].phase = "Activating"
  BY <1>2 DEF WInv, WaiterSeats
<1>6. \/ t.waiters = << >>
      \/ /\ slots[u].phase = "Activating" /\ slots[u].id = u
         /\ Joins(slots[u], e, t) \/ Withdraws(slots[u], e, t) \/ Keeps(slots[u], e, t)
  <2>1. CASE slots[u].phase = "Activating"
    <3>1. Reduce(slots[u], e) = DecideActivating(slots[u], e)
      BY <2>1 DEF Reduce
    <3>2. slots[u].id = u
      BY <1>1, <2>1 DEF IInv, OneLiveIncarnation, Live
    <3>3. t.waiters = << >> \/ Joins(slots[u], e, t) \/ Withdraws(slots[u], e, t) \/ Keeps(slots[u], e, t)
      BY <2>1, <3>1, ActivatingWaiters
    <3> QED BY <2>1, <3>2, <3>3
  <2>2. CASE slots[u].phase # "Activating"
    <3>1. slots[u].waiters = << >> /\ slots[u].phase \in {"Inactive", "Active", "Draining", "Retiring"}
      BY <1>2, <1>5, <2>2 DEF SlotType, Phases
    <3> QED BY <1>2, <3>1, OtherwiseNoWaiters
  <2> QED BY <2>1, <2>2
<1> HIDE DEF t, m
<1>7. slots'[u] = t /\ \A s \in ActivationIds \ {u} : slots'[s] = slots[s]
  BY <1>2, <1>3 DEF IInv, TypeOK
<1>8. /\ slots[u].waiters \in Seq(Dispatches)
      /\ IsInjective(slots[u].waiters)
      /\ Range(slots[u].waiters) \subseteq Dispatches
  BY <1>2, WaiterFields DEF IInv, WInv, WaiterSeats
<1>9. e.trigger = "Dispatch" => /\ e.d \in Dispatches /\ e.d = c.by
                                /\ future[e.d] \notin {"none", "dropped"}
                                /\ \A s \in ActivationIds : e.d \notin Range(slots[s].waiters)
  BY DispatchFields DEF IInv, WInv, DispatchesSubmitted
(* Who waits in u afterwards.                                              *)
<1>10. /\ t.waiters # << >> => t.phase = "Activating"
       /\ IsInjective(t.waiters)
       /\ \A x \in Range(t.waiters) :
            \/ x \in Range(slots[u].waiters) /\ c # Cancellation(u, x)
            \/ e.trigger = "Dispatch" /\ x = e.d /\ t.id = u
  <2>0. \A x : c = Cancellation(u, x) => e.trigger = "CancelWaiter" /\ e.id = u /\ e.d = x
    BY DEF Cancellation, Call
  <2> HIDE DEF e, u
  <2>1. CASE t.waiters = << >>
    BY <2>1, NoWaiters DEF Range
  <2>2. CASE slots[u].id = u /\ Joins(slots[u], e, t)
    <3>1. e.d \in Dispatches /\ e.d \notin Range(slots[u].waiters)
      BY <1>2, <1>9, <2>2 DEF Joins
    <3>2. e.trigger = "Dispatch" /\ t.phase = "Activating" /\ t.id = u
      BY <2>2 DEF Joins
    <3>3. /\ Range(t.waiters) = Range(slots[u].waiters) \cup {e.d}
          /\ IsInjective(t.waiters)
      BY <1>8, <2>2, <3>1, AppendWaiter DEF Joins
    <3>4. \A x : c # Cancellation(u, x)
      BY <2>0, <3>2
    <3> QED BY <3>3, <3>4, <3>2
  <2>3. CASE slots[u].id = u /\ Withdraws(slots[u], e, t)
    <3>1. /\ Range(t.waiters) = Range(slots[u].waiters) \ {e.d}
          /\ IsInjective(t.waiters)
      BY <1>8, <2>3, RemoveWaiter DEF Withdraws
    <3>2. t.phase = "Activating"
      BY <2>3 DEF Withdraws
    <3> QED BY <2>0, <3>1, <3>2
  <2>4. CASE slots[u].id = u /\ Keeps(slots[u], e, t)
    <3>1. t = slots[u] /\ ~ (e.trigger = "CancelWaiter" /\ e.id = u)
      BY <2>4 DEF Keeps
    <3> QED BY <1>5, <1>8, <2>0, <3>1
  <2> QED BY <1>6, <2>1, <2>2, <2>3, <2>4
<1>11. WaiterSeats'
  <2> SUFFICES ASSUME NEW s \in ActivationIds
               PROVE  /\ slots'[s].waiters # << >> => slots'[s].phase = "Activating"
                      /\ IsInjective(slots'[s].waiters)
                      /\ \A x \in Range(slots'[s].waiters) :
                           /\ ticket'[x] = s
                           /\ future'[x] # "none"
                           /\ future'[x] = "dropped" => Cancellation(s, x) \in calls'
    BY DEF WaiterSeats
  <2>1. ASSUME NEW x \in Range(slots[s].waiters), c # Cancellation(s, x)
        PROVE  /\ ticket'[x] = s
               /\ future'[x] # "none"
               /\ future'[x] = "dropped" => Cancellation(s, x) \in calls'
    <3>1. x \in Dispatches /\ (e.trigger = "Dispatch" => x # e.d)
      BY <1>9, WaiterFields DEF IInv
    <3>2. ticket'[x] = ticket[x]
      BY <1>3, <3>1 DEF IInv, TypeOK
    <3> QED BY <1>3, <2>1, <3>2 DEF WInv, WaiterSeats
  <2>2. CASE s = u
    <3>1. ASSUME e.trigger = "Dispatch", t.id = u
          PROVE  ticket'[e.d] = u /\ future'[e.d] \notin {"none", "dropped"}
      BY <1>3, <1>9, <3>1 DEF IInv, TypeOK
    <3> QED BY <1>7, <1>10, <2>1, <2>2, <3>1
  <2>3. CASE s # u
    <3>1. \A x : c # Cancellation(s, x)
      BY <2>3 DEF Cancellation, Call
    <3> QED BY <1>7, <2>1, <2>3, <3>1 DEF WInv, WaiterSeats
  <2> QED BY <2>2, <2>3
<1>12. DispatchesSubmitted'
  <2> SUFFICES ASSUME NEW b \in calls', b.event.trigger = "Dispatch"
               PROVE  /\ b.by = b.event.d
                      /\ future'[b.by] \notin {"none", "dropped"}
                      /\ \A s \in ActivationIds : b.by \notin Range(slots'[s].waiters)
                      /\ \A a \in calls' : a.event.trigger = "Dispatch" /\ a.event.d = b.by => a = b
    BY DEF DispatchesSubmitted
  <2>1. b \in calls /\ b # c
    <3>1. b \in (calls \ {c}) \cup {m} /\ b # m
      BY <1>3, <1>4
    <3> QED BY <3>1
  <2>2. /\ b.by = b.event.d
        /\ future[b.by] \notin {"none", "dropped"}
        /\ \A s \in ActivationIds : b.by \notin Range(slots[s].waiters)
        /\ \A a \in calls : a.event.trigger = "Dispatch" /\ a.event.d = b.by => a = b
    BY <2>1 DEF WInv, DispatchesSubmitted
  <2>3. e.trigger = "Dispatch" => e.d # b.by
    BY <2>1, <2>2
  <2>4. \A s \in ActivationIds : b.by \notin Range(slots'[s].waiters)
    BY <1>7, <1>10, <2>2, <2>3, <1>2
  <2> QED BY <1>3, <1>4, <2>2, <2>4
<1> QED BY <1>11, <1>12 DEF WInv

LEMMA InitWaiters == Init => WInv
<1> SUFFICES ASSUME Init PROVE WInv
  OBVIOUS
<1>1. \A s \in ActivationIds : slots[s].waiters = << >>
  BY DEF Init, Inactive, Slot
<1> QED BY <1>1, NoWaiters DEF Init, WInv, WaiterSeats, DispatchesSubmitted

LEMMA NextWaiters == IInv /\ WInv /\ [Next]_vars => WInv'
<1> SUFFICES ASSUME IInv, WInv, [Next]_vars PROVE WInv'
  OBVIOUS
<1>0. TypeOK
  BY DEF IInv
<1>1. CASE UNCHANGED vars
  BY <1>1 DEF vars, directory, callers, WInv, WaiterSeats, DispatchesSubmitted
<1>2. CASE \E c \in calls : Proceeds(c) \/ InterpreterPanics(c)
  <2>1. PICK c \in calls : Proceeds(c) \/ InterpreterPanics(c)
    BY <1>2
  <2>2. CASE Finds(c)
    <3>1. UNCHANGED directory /\ UNCHANGED ticket /\ Wake /\ c.at = "find"
      BY <2>2 DEF Finds, callers
    <3>2. c.event.trigger # "Dispatch"
      BY <1>0, <3>1, DispatchFields
    <3>3. Find(c.by, c.event, {}, calls \ {c}) /\ \A b \in {c} : b.at # "submit"
      BY <2>2, <3>1 DEF Finds
    <3> QED BY <1>0, <3>1, <3>2, <3>3, FindWaiters
  <2> QED BY <1>0, <2>1, <2>2, SubmitWaiters, InterpretingWaiters DEF Proceeds
<1>3. CASE \E n \in Entities :
             \/ \E d \in Dispatches :
                  DispatchMapped(d, n) \/ DispatchAbsent(d, n) \/ DispatchExhausted(d, n)
             \/ \E p \in Passivations : PassivateReads(p, n)
  <2>1. CASE \E n \in Entities, d \in Dispatches :
               DispatchMapped(d, n) \/ DispatchAbsent(d, n) \/ DispatchExhausted(d, n)
    BY <1>0, <2>1, MappedWaiters, AbsentWaiters, OutsideWaiters
  <2>2. CASE \E n \in Entities, p \in Passivations : PassivateReads(p, n)
    <3>1. CASE Dispatches = {}
      <4>1. UNCHANGED <<slots, ticket>> /\ calls \ calls' = {}
            /\ \A c \in calls' \ calls : c.event.trigger # "Dispatch"
        BY <2>2 DEF PassivateReads, directory, Call
      <4> QED BY <1>0, <3>1, <4>1, WaitersUnmoved
    <3>2. CASE Dispatches # {}
      BY <1>0, <2>2, <3>2, OutsideWaiters
    <3> QED BY <3>1, <3>2
  <2> QED BY <1>3, <2>1, <2>2
<1>4. CASE \E d \in Dispatches : Poll(d) \/ DropFuture(d)
  BY <1>0, <1>4, EntitiesAssumption, OutsideWaiters, DropWaiters
<1>5. CASE \E id \in ActivationIds :
             \/ ActivationReports(id) \/ FenceReports(id)
             \/ \E d \in Dispatches : DeliveryAccepted(id, d) \/ DeliveryRefused(id, d)
             \/ \E mode \in Modes : RetirementReports(id, mode)
  BY <1>0, <1>5, TaskWaiters
<1> QED BY <1>1, <1>2, <1>3, <1>4, <1>5 DEF Next

(* A caller that gave up leaves no waiter behind (DispatchWait::drop):     *)
(* while its cancellation has not reached the slot the call is still in    *)
(* progress, and after it the waiter is gone, however activations end,     *)
(* fail or are replaced in between.                                        *)
THEOREM DroppedCallersLeaveHolds == Spec => []DroppedCallersLeave
<1>1. WInv => DroppedCallersLeave
  <2> SUFFICES ASSUME WInv, NEW d \in Dispatches, future[d] = "dropped",
                      \A c \in calls : c.by = d => c.at \notin {"find", "submit"},
                      NEW s \in ActivationIds, d \in Range(slots[s].waiters)
               PROVE  FALSE
    BY DEF DroppedCallersLeave
  <2>1. Cancellation(s, d) \in calls
    BY DEF WInv, WaiterSeats
  <2>2. Cancellation(s, d).by = d /\ Cancellation(s, d).at = "submit"
    BY DEF Cancellation, Call
  <2> QED BY <2>1, <2>2
<1> QED BY <1>1, InitWaiters, NextWaiters, Invariance, PTL DEF Spec

-----------------------------------------------------------------------------
(* Commands in effects, batches and queues.                                *)

Carries(fx, d) == fx.type \in {"Deliver", "Reject"} /\ fx.d = d

InBatch(fxs, d) == \E i \in DOMAIN fxs : Carries(fxs[i], d)

OnceInBatch(fxs, d) ==
  \A i, j \in DOMAIN fxs : Carries(fxs[i], d) /\ Carries(fxs[j], d) => i = j

InQueue(q, d) == \E b \in DOMAIN q : InBatch(q[b], d)

OnceInQueue(q, d) ==
  /\ \A b \in DOMAIN q : OnceInBatch(q[b], d)
  /\ \A a, b \in DOMAIN q : InBatch(q[a], d) /\ InBatch(q[b], d) => a = b

(* Taking the first effect of a batch, or the first batch of a queue.      *)
LEMMA BatchSplit ==
  ASSUME NEW E, NEW fxs \in Seq(E), fxs # << >>, NEW d
  PROVE  /\ InBatch(fxs, d) <=> Carries(Head(fxs), d) \/ InBatch(Tail(fxs), d)
         /\ OnceInBatch(fxs, d) =>
              OnceInBatch(Tail(fxs), d) /\ ~ (Carries(Head(fxs), d) /\ InBatch(Tail(fxs), d))
<1> DEFINE n == Len(fxs)
<1>1. /\ n \in Nat \ {0} /\ DOMAIN fxs = 1 .. n /\ Head(fxs) = fxs[1]
      /\ DOMAIN Tail(fxs) = 1 .. n - 1
      /\ \A i \in 1 .. n - 1 : Tail(fxs)[i] = fxs[i + 1]
  BY EmptySeq
<1> DEFINE t == Tail(fxs)
<1> HIDE DEF n, t
<1>2. ASSUME InBatch(fxs, d) PROVE Carries(Head(fxs), d) \/ InBatch(t, d)
  <2>1. PICK i \in 1 .. n : Carries(fxs[i], d)
    BY <1>1, <1>2 DEF InBatch
  <2>2. CASE i = 1
    BY <1>1, <2>1, <2>2
  <2>3. CASE i # 1
    <3>1. i - 1 \in 1 .. n - 1 /\ (i - 1) + 1 = i
      BY <1>1, <2>3
    <3>2. t[i - 1] = fxs[i]
      BY <1>1, <3>1 DEF t
    <3> QED BY <1>1, <2>1, <3>1, <3>2 DEF InBatch, t
  <2> QED BY <2>2, <2>3
<1>3. ASSUME Carries(Head(fxs), d) \/ InBatch(t, d) PROVE InBatch(fxs, d)
  <2>1. CASE Carries(Head(fxs), d)
    BY <1>1, <2>1 DEF InBatch
  <2>2. CASE InBatch(t, d)
    <3>1. PICK i \in 1 .. n - 1 : Carries(t[i], d)
      BY <1>1, <2>2 DEF InBatch, t
    <3>2. i + 1 \in 1 .. n /\ t[i] = fxs[i + 1]
      BY <1>1 DEF t
    <3> QED BY <1>1, <3>1, <3>2 DEF InBatch
  <2> QED BY <1>3, <2>1, <2>2
<1>4. ASSUME OnceInBatch(fxs, d)
      PROVE  OnceInBatch(t, d) /\ ~ (Carries(Head(fxs), d) /\ InBatch(t, d))
  <2>1. ASSUME NEW i \in 1 .. n - 1, NEW j \in 1 .. n - 1, Carries(t[i], d), Carries(t[j], d)
        PROVE  i = j
    <3>1. i + 1 \in 1 .. n /\ j + 1 \in 1 .. n /\ t[i] = fxs[i + 1] /\ t[j] = fxs[j + 1]
      BY <1>1 DEF t
    <3>2. i + 1 = j + 1
      BY <1>1, <1>4, <2>1, <3>1 DEF OnceInBatch
    <3> QED BY <1>1, <3>2
  <2>2. ASSUME NEW i \in 1 .. n - 1, Carries(t[i], d), Carries(Head(fxs), d)
        PROVE  FALSE
    <3>1. i + 1 \in 1 .. n /\ t[i] = fxs[i + 1] /\ 1 \in 1 .. n /\ i + 1 # 1
      BY <1>1 DEF t
    <3> QED BY <1>1, <1>4, <2>2, <3>1 DEF OnceInBatch
  <2> QED BY <1>1, <2>1, <2>2 DEF OnceInBatch, InBatch, t
<1> QED BY <1>2, <1>3, <1>4 DEF t

(* A queue behind a queue.                                                 *)
LEMMA QueueJoined ==
  ASSUME NEW B, NEW p \in Seq(B), NEW q \in Seq(B), NEW d
  PROVE  /\ InQueue(p \o q, d) <=> InQueue(p, d) \/ InQueue(q, d)
         /\ OnceInQueue(p \o q, d) <=>
              OnceInQueue(p, d) /\ OnceInQueue(q, d) /\ ~ (InQueue(p, d) /\ InQueue(q, d))
<1> DEFINE m == Len(p)
           n == Len(q)
           r == p \o q
<1>1. /\ m \in Nat /\ n \in Nat
      /\ DOMAIN p = 1 .. m /\ DOMAIN q = 1 .. n /\ DOMAIN r = 1 .. m + n
      /\ \A i \in 1 .. m : r[i] = p[i]
      /\ \A i \in 1 .. n : r[m + i] = q[i]
  OBVIOUS
<1> HIDE DEF m, n, r
<1>2. /\ \A i \in 1 .. m : i \in 1 .. m + n
      /\ \A i \in 1 .. n : m + i \in 1 .. m + n /\ m + i \notin 1 .. m
      /\ \A i \in 1 .. m + n : i \notin 1 .. m => \E k \in 1 .. n : i = m + k /\ r[i] = q[k]
      /\ \A i, j \in 1 .. n : m + i = m + j => i = j
  <2>1. ASSUME NEW i \in 1 .. m + n, i \notin 1 .. m
        PROVE  \E k \in 1 .. n : i = m + k /\ r[i] = q[k]
    <3>1. i - m \in 1 .. n /\ i = m + (i - m)
      BY <1>1, <2>1
    <3>2. r[i] = q[i - m]
      BY <1>1, <3>1
    <3> QED BY <3>1, <3>2
  <2> QED BY <1>1, <2>1
<1>3. ASSUME InQueue(r, d) PROVE InQueue(p, d) \/ InQueue(q, d)
  <2>1. PICK i \in 1 .. m + n : InBatch(r[i], d)
    BY <1>1, <1>3 DEF InQueue
  <2>2. CASE i \in 1 .. m
    BY <1>1, <2>1, <2>2 DEF InQueue
  <2>3. CASE i \notin 1 .. m
    BY <1>1, <1>2, <2>1, <2>3 DEF InQueue
  <2> QED BY <2>2, <2>3
<1>4. InQueue(p, d) => InQueue(r, d)
  BY <1>1, <1>2 DEF InQueue
<1>5. InQueue(q, d) => InQueue(r, d)
  BY <1>1, <1>2 DEF InQueue
<1>6. ASSUME OnceInQueue(r, d)
      PROVE  OnceInQueue(p, d) /\ OnceInQueue(q, d) /\ ~ (InQueue(p, d) /\ InQueue(q, d))
  <2>1. OnceInQueue(p, d)
    BY <1>1, <1>2, <1>6 DEF OnceInQueue
  <2>2. OnceInQueue(q, d)
    <3>1. \A i \in 1 .. n : OnceInBatch(q[i], d)
      BY <1>1, <1>2, <1>6 DEF OnceInQueue
    <3>2. ASSUME NEW i \in 1 .. n, NEW j \in 1 .. n, InBatch(q[i], d), InBatch(q[j], d)
          PROVE  m + i = m + j
      BY <1>1, <1>2, <1>6, <3>2 DEF OnceInQueue
    <3> QED BY <1>1, <1>2, <3>1, <3>2 DEF OnceInQueue
  <2>3. ~ (InQueue(p, d) /\ InQueue(q, d))
    BY <1>1, <1>2, <1>6 DEF OnceInQueue, InQueue
  <2> QED BY <2>1, <2>2, <2>3
<1>7. ASSUME OnceInQueue(p, d), OnceInQueue(q, d), ~ (InQueue(p, d) /\ InQueue(q, d))
      PROVE  OnceInQueue(r, d)
  <2>1. ASSUME NEW i \in 1 .. m + n PROVE OnceInBatch(r[i], d)
    BY <1>1, <1>2, <1>7 DEF OnceInQueue
  <2>2. ASSUME NEW i \in 1 .. m + n, NEW j \in 1 .. m + n, InBatch(r[i], d), InBatch(r[j], d)
        PROVE  i = j
    <3>1. CASE i \in 1 .. m /\ j \in 1 .. m
      BY <1>1, <1>7, <2>2, <3>1 DEF OnceInQueue
    <3>2. CASE i \notin 1 .. m /\ j \notin 1 .. m
      BY <1>1, <1>2, <1>7, <2>2, <3>2 DEF OnceInQueue
    <3>3. CASE i \in 1 .. m /\ j \notin 1 .. m
      BY <1>1, <1>2, <1>7, <2>2, <3>3 DEF InQueue
    <3>4. CASE i \notin 1 .. m /\ j \in 1 .. m
      BY <1>1, <1>2, <1>7, <2>2, <3>4 DEF InQueue
    <3> QED BY <3>1, <3>2, <3>3, <3>4
  <2> QED BY <1>1, <2>1, <2>2 DEF OnceInQueue
<1> QED BY <1>3, <1>4, <1>5, <1>6, <1>7 DEF r

LEMMA QueueOfBatches ==
  ASSUME NEW fxs, NEW d
  PROVE  /\ InQueue(Batches(fxs), d) <=> InBatch(fxs, d)
         /\ OnceInQueue(Batches(fxs), d) <=> OnceInBatch(fxs, d)
         /\ InQueue(<< fxs >>, d) <=> InBatch(fxs, d)
         /\ OnceInQueue(<< fxs >>, d) <=> OnceInBatch(fxs, d)
         /\ ~ InQueue(<< >>, d) /\ OnceInQueue(<< >>, d)
<1>1. /\ InQueue(<< fxs >>, d) <=> InBatch(fxs, d)
      /\ OnceInQueue(<< fxs >>, d) <=> OnceInBatch(fxs, d)
  <2> DEFINE q == << fxs >>
  <2>1. DOMAIN q = {1} /\ q[1] = fxs
    OBVIOUS
  <2> HIDE DEF q
  <2>2. /\ InQueue(q, d) <=> InBatch(fxs, d)
        /\ OnceInQueue(q, d) <=> OnceInBatch(fxs, d)
    BY <2>1 DEF InQueue, OnceInQueue
  <2> QED BY <2>2 DEF q
<1>2. ~ InQueue(<< >>, d) /\ OnceInQueue(<< >>, d)
  BY DEF InQueue, OnceInQueue
<1>3. CASE fxs = << >>
  <2>1. Batches(fxs) = << >> /\ ~ InBatch(fxs, d) /\ OnceInBatch(fxs, d)
    BY <1>3 DEF Batches, InBatch, OnceInBatch
  <2> QED BY <1>1, <1>2, <2>1
<1>4. CASE fxs # << >>
  <2>1. Batches(fxs) = << fxs >>
    BY <1>4 DEF Batches
  <2> QED BY <1>1, <1>2, <2>1
<1> QED BY <1>3, <1>4

(* What is left of a queue when its first effect, or its first batch, has  *)
(* been taken.                                                             *)
LEMMA QueueTaken ==
  ASSUME NEW E, NEW q \in Seq(Seq(E) \ {<< >>}), q # << >>, NEW d
  PROVE  LET left == Batches(Tail(Head(q))) \o Tail(q)
         IN  /\ InQueue(q, d) <=> Carries(Head(Head(q)), d) \/ InQueue(left, d)
             /\ InQueue(q, d) <=> InBatch(Head(q), d) \/ InQueue(Tail(q), d)
             /\ OnceInQueue(q, d) =>
                  /\ OnceInQueue(left, d) /\ OnceInQueue(Tail(q), d)
                  /\ Carries(Head(Head(q)), d) => ~ InQueue(left, d)
                  /\ InBatch(Head(q), d) => ~ InQueue(Tail(q), d)
<1> DEFINE B == Seq(E) \ {<< >>}
           h == Head(q)
           t == Tail(q)
<1>1. h \in Seq(E) /\ h # << >> /\ t \in Seq(B) /\ h \in B /\ Tail(h) \in Seq(E)
  BY QueueTyped
<1>2. Batches(Tail(h)) \in Seq(B)
  BY <1>1, BatchesTyped
<1>3. q = << h >> \o t
  <2> HIDE DEF B
  <2>1. q \in Seq(B)
    BY DEF B
  <2> QED BY <2>1
<1>4. << h >> \in Seq(B)
  <2> HIDE DEF B, h
  <2> QED BY <1>1
<1>5. /\ InBatch(h, d) <=> Carries(Head(h), d) \/ InBatch(Tail(h), d)
      /\ OnceInBatch(h, d) =>
           OnceInBatch(Tail(h), d) /\ ~ (Carries(Head(h), d) /\ InBatch(Tail(h), d))
  BY <1>1, BatchSplit
<1> HIDE DEF B, h, t
<1>6. /\ InQueue(q, d) <=> InBatch(h, d) \/ InQueue(t, d)
      /\ OnceInQueue(q, d) <=>
           OnceInBatch(h, d) /\ OnceInQueue(t, d) /\ ~ (InBatch(h, d) /\ InQueue(t, d))
  BY <1>1, <1>3, <1>4, QueueJoined, QueueOfBatches
<1> DEFINE g == Tail(h)
<1> HIDE DEF g
<1>7. Batches(g) \in Seq(B)
  BY <1>2 DEF g
<1>8. /\ InQueue(Batches(g) \o t, d) <=> InQueue(Batches(g), d) \/ InQueue(t, d)
      /\ OnceInQueue(Batches(g) \o t, d) <=>
           OnceInQueue(Batches(g), d) /\ OnceInQueue(t, d) /\ ~ (InQueue(Batches(g), d) /\ InQueue(t, d))
  BY <1>1, <1>7, QueueJoined
<1>9. /\ InQueue(Batches(g), d) <=> InBatch(g, d)
      /\ OnceInQueue(Batches(g), d) <=> OnceInBatch(g, d)
  BY QueueOfBatches
<1> QED BY <1>5, <1>6, <1>8, <1>9 DEF g, h, t

LEMMA QueueExtended ==
  ASSUME NEW E, NEW q \in Seq(Seq(E) \ {<< >>}), NEW fxs \in Seq(E), NEW d
  PROVE  /\ InQueue(q \o Batches(fxs), d) <=> InQueue(q, d) \/ InBatch(fxs, d)
         /\ OnceInQueue(q, d) /\ OnceInBatch(fxs, d) /\ ~ (InQueue(q, d) /\ InBatch(fxs, d))
              => OnceInQueue(q \o Batches(fxs), d)
<1>1. Batches(fxs) \in Seq(Seq(E) \ {<< >>})
  BY BatchesTyped
<1> DEFINE B == Seq(E) \ {<< >>}
           g == Batches(fxs)
<1> HIDE DEF B, g
<1>2. /\ InQueue(q \o g, d) <=> InQueue(q, d) \/ InQueue(g, d)
      /\ OnceInQueue(q \o g, d) <=>
           OnceInQueue(q, d) /\ OnceInQueue(g, d) /\ ~ (InQueue(q, d) /\ InQueue(g, d))
  <2>1. q \in Seq(B) /\ g \in Seq(B)
    BY <1>1 DEF B, g
  <2> QED BY <2>1, QueueJoined
<1>3. /\ InQueue(g, d) <=> InBatch(fxs, d)
      /\ OnceInQueue(g, d) <=> OnceInBatch(fxs, d)
  BY QueueOfBatches DEF g
<1> QED BY <1>2, <1>3 DEF g

-----------------------------------------------------------------------------
(* What batches the reducer builds carry.                                  *)
LEMMA CarriedBy ==
  ASSUME NEW x, NEW d
  PROVE  /\ \A id : Carries(Deliver(id, x), d) <=> d = x
         /\ \A reason : Carries(Reject(x, reason), d) <=> d = x
         /\ \A id : ~ Carries(StartActivation(id), d)
         /\ \A id : ~ Carries(EnqueueFence(id), d)
         /\ \A id, mode : ~ Carries(Retire(id, mode), d)
         /\ \A id : ~ Carries(RemoveEntry(id), d)
BY DEF Carries, Deliver, Reject, StartActivation, EnqueueFence, Retire, RemoveEntry

LEMMA SmallBatches ==
  ASSUME NEW fx, NEW d
  PROVE  /\ ~ InBatch(<< >>, d) /\ OnceInBatch(<< >>, d)
         /\ InBatch(<< fx >>, d) <=> Carries(fx, d)
         /\ OnceInBatch(<< fx >>, d)
<1> DEFINE b == << fx >>
<1>1. DOMAIN b = {1} /\ b[1] = fx
  OBVIOUS
<1> HIDE DEF b
<1>2. (InBatch(b, d) <=> Carries(fx, d)) /\ OnceInBatch(b, d)
  BY <1>1 DEF InBatch, OnceInBatch
<1>3. ~ InBatch(<< >>, d) /\ OnceInBatch(<< >>, d)
  BY DEF InBatch, OnceInBatch
<1> QED BY <1>2, <1>3 DEF b

LEMMA BatchExtended ==
  ASSUME NEW E, NEW fxs \in Seq(E), NEW fx \in E, NEW d, ~ Carries(fx, d)
  PROVE  /\ InBatch(Append(fxs, fx), d) <=> InBatch(fxs, d)
         /\ OnceInBatch(Append(fxs, fx), d) <=> OnceInBatch(fxs, d)
<1> DEFINE n == Len(fxs)
           b == Append(fxs, fx)
<1>1. /\ n \in Nat /\ DOMAIN fxs = 1 .. n /\ DOMAIN b = 1 .. n + 1
      /\ b[n + 1] = fx /\ \A i \in 1 .. n : b[i] = fxs[i]
  OBVIOUS
<1>2. 1 .. n \subseteq 1 .. n + 1 /\ \A i \in 1 .. n + 1 : i \in 1 .. n \/ i = n + 1
  BY <1>1
<1> HIDE DEF n, b
<1>3. \A i \in 1 .. n + 1 : Carries(b[i], d) => i \in 1 .. n
  BY <1>1, <1>2
<1>4. InBatch(b, d) <=> InBatch(fxs, d)
  BY <1>1, <1>2, <1>3 DEF InBatch
<1>5. OnceInBatch(b, d) <=> OnceInBatch(fxs, d)
  BY <1>1, <1>2, <1>3 DEF OnceInBatch
<1> QED BY <1>4, <1>5 DEF b

(* A batch that delivers, or rejects, every waiter of a queue.             *)
LEMMA WaitersBatch ==
  ASSUME NEW ds \in Seq(Dispatches), NEW d
  PROVE  /\ \A reason : InBatch(Rejections(ds, reason), d) <=> d \in Range(ds)
         /\ \A id : InBatch(Deliveries(id, ds), d) <=> d \in Range(ds)
         /\ IsInjective(ds) =>
              /\ \A reason : OnceInBatch(Rejections(ds, reason), d)
              /\ \A id : OnceInBatch(Deliveries(id, ds), d)
<1>1. ASSUME NEW fxs, DOMAIN fxs = DOMAIN ds,
             \A i \in DOMAIN ds : Carries(fxs[i], d) <=> d = ds[i]
      PROVE  /\ InBatch(fxs, d) <=> d \in Range(ds)
             /\ IsInjective(ds) => OnceInBatch(fxs, d)
  BY <1>1 DEF InBatch, OnceInBatch, Range, IsInjective
<1>2. ASSUME NEW reason
      PROVE  LET fxs == Rejections(ds, reason)
             IN  DOMAIN fxs = DOMAIN ds /\ \A i \in DOMAIN ds : Carries(fxs[i], d) <=> d = ds[i]
  BY CarriedBy DEF Rejections
<1>3. ASSUME NEW id
      PROVE  LET fxs == Deliveries(id, ds)
             IN  DOMAIN fxs = DOMAIN ds /\ \A i \in DOMAIN ds : Carries(fxs[i], d) <=> d = ds[i]
  BY CarriedBy DEF Deliveries
<1> QED BY <1>1, <1>2, <1>3

(* A failed delivery brings its command back, a successful one nothing.    *)
LEMMA FailureBatch ==
  ASSUME NEW failure \in Failures, NEW d
  PROVE  /\ failure \in Seq(Dispatches) /\ IsInjective(failure)
         /\ InBatch(Rejections(failure, "Unavailable"), d) <=> d \in Range(failure)
         /\ OnceInBatch(Rejections(failure, "Unavailable"), d)
<1>1. failure \in Seq(Dispatches) /\ IsInjective(failure)
  <2>1. CASE failure = << >>
    BY <2>1, NoWaiters
  <2>2. CASE \E x \in Dispatches : failure = << x >>
    BY <2>2, SingleWaiter
  <2> QED BY <2>1, <2>2 DEF Failures
<1> QED BY <1>1, WaitersBatch

(* One reduction passes commands on: a waiter, or the command of the fact, *)
(* is afterwards a waiter or in the effects, once; only a cancellation     *)
(* lets one go, and only the one it names.                                 *)
Waits(s, d) == d \in Range(s.waiters)

PassesOn(s, e, r) ==
  \A d \in Dispatches :
    /\ OnceInBatch(r.effects, d)
    /\ ~ (Waits(r.slot, d) /\ InBatch(r.effects, d))
    /\ Waits(r.slot, d) \/ InBatch(r.effects, d) => Waits(s, d) \/ d \in Conveyed(e)
    /\ Waits(s, d) \/ d \in Conveyed(e) =>
         \/ Waits(r.slot, d) \/ InBatch(r.effects, d)
         \/ e.trigger = "CancelWaiter" /\ e.d = d

(* The waiters stay, and the batch carries what the fact brought.          *)
Echoes(s, e, r) ==
  /\ r.slot.waiters = s.waiters
  /\ \A d \in Dispatches :
       OnceInBatch(r.effects, d) /\ (InBatch(r.effects, d) <=> d \in Conveyed(e))

LEMMA EchoPassesOn ==
  ASSUME NEW s, NEW e, NEW r, Echoes(s, e, r),
         \A d \in Conveyed(e) : ~ Waits(s, d)
  PROVE  PassesOn(s, e, r)
BY DEF Echoes, PassesOn, Waits

(* A fact without a command that touches no waiter.                        *)
LEMMA PlainEcho ==
  ASSUME NEW s, NEW e, NEW r, NEW t,
         \/ r = Decision(t, << >>)
         \/ \E id, mode : r = Decision(t, << Retire(id, mode) >>)
         \/ \E id : r = Decision(t, << EnqueueFence(id) >>)
         \/ \E id : r = Decision(t, << RemoveEntry(id) >>),
         t.waiters = s.waiters, Conveyed(e) = {}
  PROVE  Echoes(s, e, r)
<1>1. r.slot = t
  BY DEF Decision
<1>2. r.effects = << >> \/ \E fx : r.effects = << fx >> /\ \A d : ~ Carries(fx, d)
  <2>1. \A fxs : Decision(t, fxs).effects = fxs
    BY DEF Decision
  <2>2. /\ \A id, mode, d : ~ Carries(Retire(id, mode), d)
        /\ \A id, d : ~ Carries(EnqueueFence(id), d)
        /\ \A id, d : ~ Carries(RemoveEntry(id), d)
    BY DEF Carries, EnqueueFence, Retire, RemoveEntry
  <2> QED BY <2>1, <2>2
<1>3. \A d : OnceInBatch(r.effects, d) /\ ~ InBatch(r.effects, d)
  BY <1>2, SmallBatches
<1> QED BY <1>1, <1>3 DEF Echoes

LEMMA RefusalEcho ==
  ASSUME NEW s, NEW e, NEW reason, Conveyed(e) = {e.d}
  PROVE  Echoes(s, e, Refuse(s, e.d, reason))
<1> DEFINE r == Refuse(s, e.d, reason)
<1>1. r.slot = s /\ r.effects = << Reject(e.d, reason) >>
  BY DEF Refuse, Decision
<1> HIDE DEF r
<1>2. \A d : OnceInBatch(r.effects, d) /\ (InBatch(r.effects, d) <=> d = e.d)
  <2>1. PICK fx : fx = Reject(e.d, reason)
    OBVIOUS
  <2>2. \A d : Carries(fx, d) <=> d = e.d
    BY <2>1, CarriedBy
  <2> QED BY <1>1, <2>1, <2>2, SmallBatches
<1>3. Echoes(s, e, r)
  BY <1>1, <1>2 DEF Echoes
<1> QED BY <1>3 DEF r

LEMMA FailureEcho ==
  ASSUME NEW s, NEW e, e.failure \in Failures, Conveyed(e) = Range(e.failure),
         NEW t, t.waiters = s.waiters
  PROVE  Echoes(s, e, RejectFailedDelivery(t, e.failure))
<1> DEFINE r == RejectFailedDelivery(t, e.failure)
<1>1. r.slot = t /\ r.effects = Rejections(e.failure, "Unavailable")
  BY DEF RejectFailedDelivery, Decision
<1> HIDE DEF r
<1>2. \A d : OnceInBatch(r.effects, d) /\ (InBatch(r.effects, d) <=> d \in Conveyed(e))
  BY <1>1, FailureBatch
<1>3. Echoes(s, e, r)
  BY <1>1, <1>2 DEF Echoes
<1> QED BY <1>3 DEF r

LEMMA ConveyedBy ==
  ASSUME NEW e \in Events
  PROVE  /\ e.trigger = "Dispatch" => Conveyed(e) = {e.d}
         /\ e.trigger = "DeliveryResolved" => Conveyed(e) = Range(e.failure)
         /\ e.trigger \notin {"Dispatch", "DeliveryResolved"} => Conveyed(e) = {}
         /\ e.trigger \in Triggers \ {"ClaimActivation"}
         /\ Conveyed(e) \subseteq Dispatches
<1>1. /\ e.trigger = "Dispatch" => Conveyed(e) = {e.d}
      /\ e.trigger = "DeliveryResolved" => Conveyed(e) = Range(e.failure)
      /\ e.trigger \notin {"Dispatch", "DeliveryResolved"} => Conveyed(e) = {}
  BY DEF Conveyed
<1>2. e.trigger \in Triggers \ {"ClaimActivation"}
  BY DEF Events, ReportedType, Triggers
<1>3. e.trigger = "DeliveryResolved" => Range(e.failure) \subseteq Dispatches
  <2>1. e.trigger = "DeliveryResolved" => e.failure \in Seq(Dispatches)
    BY EventFields, FailureBatch
  <2> QED BY <2>1 DEF Range
<1> QED BY <1>1, <1>2, <1>3, EventFields

-----------------------------------------------------------------------------
LEMMA InactivePassesOn ==
  ASSUME NEW e \in Events
  PROVE  Echoes(Inactive, e, DecideInactive(e))
<1> DEFINE s == Inactive
<1> HIDE DEF s
<1>1. CASE e.trigger = "Dispatch"
  <2>1. DecideInactive(e) = Refuse(s, e.d, "Unavailable")
    BY <1>1 DEF DecideInactive, s
  <2>2. Conveyed(e) = {e.d}
    BY <1>1, ConveyedBy
  <2>3. Echoes(s, e, Refuse(s, e.d, "Unavailable"))
    BY <2>2, RefusalEcho
  <2> QED BY <2>1, <2>3 DEF s
<1>2. CASE e.trigger = "DeliveryResolved"
  <2>1. DecideInactive(e) = RejectFailedDelivery(s, e.failure)
    BY <1>2 DEF DecideInactive, s
  <2>2. Conveyed(e) = Range(e.failure) /\ e.failure \in Failures
    BY <1>2, ConveyedBy, EventFields
  <2>3. Echoes(s, e, RejectFailedDelivery(s, e.failure))
    BY <2>2, FailureEcho
  <2> QED BY <2>1, <2>3 DEF s
<1>3. CASE e.trigger \notin {"Dispatch", "DeliveryResolved"}
  <2>1. DecideInactive(e) = Decision(s, << >>) \/ DecideInactive(e) = Decision(s, << Retire(e.id, "Forced") >>)
    BY <1>3, EventFields DEF DecideInactive, RetireStale, Ignore, s
  <2> QED BY <1>3, <2>1, ConveyedBy, PlainEcho DEF s
<1> QED BY <1>1, <1>2, <1>3

LEMMA ActivatingPassesOn ==
  ASSUME NEW s \in SlotType, s.phase = "Activating", IsInjective(s.waiters),
         NEW e \in Events, \A d \in Conveyed(e) : ~ Waits(s, d)
  PROVE  PassesOn(s, e, DecideActivating(s, e))
<1> DEFINE r == DecideActivating(s, e)
           ws == s.waiters
<1>0. ws \in Seq(Dispatches)
  BY DEF SlotType
<1>1. CASE e.trigger = "Dispatch"
  <2>1. Conveyed(e) = {e.d} /\ e.d \in Dispatches /\ e.d \notin Range(ws)
    BY <1>1, ConveyedBy, EventFields DEF Waits
  <2>2. CASE r = Refuse(s, e.d, "Busy")
    BY <2>1, <2>2, RefusalEcho, EchoPassesOn
  <2>3. CASE r = Ignore(Activating(s.id, Append(ws, e.d)))
    <3>1. r.effects = << >> /\ r.slot.waiters = Append(ws, e.d)
      BY <2>3 DEF Ignore, Decision, Activating, Slot
    <3> HIDE DEF r, ws
    <3>2. Range(Append(ws, e.d)) = Range(ws) \cup {e.d}
      BY <1>0, <2>1, AppendWaiter DEF ws
    <3>3. \A d : ~ InBatch(r.effects, d) /\ OnceInBatch(r.effects, d)
      BY <3>1, SmallBatches
    <3>4. \A d : Waits(r.slot, d) <=> Waits(s, d) \/ d = e.d
      BY <3>1, <3>2 DEF Waits, ws
    <3>5. PassesOn(s, e, r)
      BY <2>1, <3>3, <3>4 DEF PassesOn
    <3> QED BY <3>5 DEF r
  <2> QED BY <1>1, <2>2, <2>3 DEF DecideActivating, AdmitWaiter
<1>2. CASE e.trigger = "CancelWaiter" /\ e.id = s.id
  <2>1. r.effects = << >> /\ r.slot.waiters = RemoveFirst(ws, e.d)
    BY <1>2 DEF DecideActivating, CancelWaiter, Ignore, Decision, Activating, Slot
  <2> HIDE DEF r, ws
  <2>2. Range(RemoveFirst(ws, e.d)) = Range(ws) \ {e.d}
    BY <1>0, RemoveWaiter DEF ws
  <2>3. \A d : ~ InBatch(r.effects, d) /\ OnceInBatch(r.effects, d)
    BY <2>1, SmallBatches
  <2>4. \A d : Waits(r.slot, d) <=> Waits(s, d) /\ d # e.d
    BY <2>1, <2>2 DEF Waits, ws
  <2>5. Conveyed(e) = {}
    BY <1>2, ConveyedBy
  <2>6. PassesOn(s, e, r)
    BY <1>2, <2>3, <2>4, <2>5 DEF PassesOn
  <2> QED BY <2>6 DEF r
<1>3. ASSUME Conveyed(e) = {}, r.slot.waiters = << >>,
             \A d : OnceInBatch(r.effects, d) /\ (InBatch(r.effects, d) <=> d \in Range(ws))
      PROVE  PassesOn(s, e, r)
  BY <1>3, NoWaiters DEF PassesOn, Waits
<1>4. CASE e.trigger = "ActivationSucceeded" /\ e.id = s.id
  <2>1. r = Decision(Active(e.id, Len(ws)), Deliveries(e.id, ws))
    BY <1>4 DEF DecideActivating, FinishActivation
  <2>2. r.slot.waiters = << >> /\ r.effects = Deliveries(e.id, ws)
    BY <2>1 DEF Decision, Active, Slot
  <2> HIDE DEF r, ws
  <2>3. \A d : OnceInBatch(r.effects, d) /\ (InBatch(r.effects, d) <=> d \in Range(ws))
    BY <1>0, <2>2, WaitersBatch DEF ws
  <2> QED BY <1>3, <1>4, <2>2, <2>3, ConveyedBy DEF r, ws
<1>5. CASE e.trigger = "ActivationFailed" /\ e.id = s.id
  <2> DEFINE fxs == Rejections(ws, "Unavailable")
  <2>1. r.slot.waiters = << >> /\ r.effects = Append(fxs, RemoveEntry(e.id))
    BY <1>5 DEF DecideActivating, FailActivation, Decision, Inactive, Slot
  <2>2. fxs \in Seq(EffectType)
    BY <1>0, RejectionsTyped, CalmIsTyped DEF Reasons
  <2>3. RemoveEntry(e.id) \in EffectType
    BY <1>5, EventFields, EffectTyped
  <2>4. \A d : OnceInBatch(fxs, d) /\ (InBatch(fxs, d) <=> d \in Range(ws))
    BY <1>0, WaitersBatch
  <2> HIDE DEF fxs, r, ws
  <2>5. ASSUME NEW d
        PROVE  OnceInBatch(r.effects, d) /\ (InBatch(r.effects, d) <=> d \in Range(ws))
    <3>1. ~ Carries(RemoveEntry(e.id), d)
      BY CarriedBy
    <3> QED BY <2>1, <2>2, <2>3, <2>4, <3>1, BatchExtended
  <2> QED BY <1>3, <1>5, <2>1, <2>5, ConveyedBy DEF r, ws
<1>6. CASE e.trigger = "DeliveryResolved"
  <2>1. r = RejectFailedDelivery(s, e.failure)
    BY <1>6 DEF DecideActivating
  <2> QED BY <1>6, <2>1, ConveyedBy, EventFields, FailureEcho, EchoPassesOn
<1>7. CASE \/ e.trigger \in {"BeginDrain", "FenceAcknowledged", "ForceDrain", "Terminated"}
           \/ e.trigger \in {"CancelWaiter", "ActivationSucceeded", "ActivationFailed"} /\ e.id # s.id
  <2>1. r = Decision(s, << >>) \/ r = Decision(s, << Retire(e.id, "Forced") >>)
    BY <1>7 DEF DecideActivating, CancelWaiter, FinishActivation, FailActivation, RetireStale, Ignore
  <2>2. Conveyed(e) = {}
    BY <1>7, ConveyedBy
  <2> HIDE DEF r
  <2>3. Echoes(s, e, r)
    BY <2>1, <2>2, PlainEcho
  <2> QED BY <2>3, EchoPassesOn DEF r
<1> QED BY <1>1, <1>2, <1>4, <1>5, <1>6, <1>7, ConveyedBy DEF Triggers

LEMMA ActivePassesOn ==
  ASSUME NEW s \in SlotType, s.phase = "Active", s.waiters = << >>, NEW e \in Events
  PROVE  Echoes(s, e, DecideActive(s, e))
<1> DEFINE r == DecideActive(s, e)
<1>1. CASE e.trigger = "Dispatch"
  <2>1. r.slot.waiters = << >> /\ r.effects = << Deliver(s.id, e.d) >>
    BY <1>1 DEF DecideActive, ReserveDelivery, Decision, Active, Slot
  <2> HIDE DEF r
  <2>2. \A d : OnceInBatch(r.effects, d) /\ (InBatch(r.effects, d) <=> d = e.d)
    BY <2>1, SmallBatches, CarriedBy
  <2>3. Echoes(s, e, r)
    BY <1>1, <2>1, <2>2, ConveyedBy DEF Echoes
  <2> QED BY <2>3 DEF r
<1>2. CASE e.trigger = "DeliveryResolved"
  <2> DEFINE t == Active(s.id, IF s.reservations > 0 THEN s.reservations - 1 ELSE 0)
  <2>1. t.waiters = s.waiters
    BY DEF Active, Slot
  <2>2. r = RejectFailedDelivery(t, e.failure) \/ r = RejectFailedDelivery(s, e.failure)
    BY <1>2 DEF DecideActive, ResolveActiveDelivery
  <2> HIDE DEF t, r
  <2>3. Echoes(s, e, r)
    BY <1>2, <2>1, <2>2, ConveyedBy, EventFields, FailureEcho
  <2> QED BY <2>3 DEF r
<1>3. CASE e.trigger = "BeginDrain" /\ e.id = s.id
  <2> DEFINE t == Draining(s.id, s.reservations)
  <2>1. t.waiters = s.waiters
    BY DEF Draining, Slot
  <2>2. r = Decision(t, << >>) \/ r = Decision(t, << EnqueueFence(s.id) >>)
    BY <1>3 DEF DecideActive, BeginDrain
  <2> HIDE DEF t, r
  <2>3. Echoes(s, e, r)
    BY <1>3, <2>1, <2>2, ConveyedBy, PlainEcho
  <2> QED BY <2>3 DEF r
<1>4. CASE \/ e.trigger = "BeginDrain" /\ e.id # s.id
           \/ e.trigger \notin {"Dispatch", "DeliveryResolved", "BeginDrain"}
  <2>1. r = Decision(s, << >>) \/ r = Decision(s, << Retire(e.id, "Forced") >>)
    BY <1>4, EventFields DEF DecideActive, RetireStale, Ignore
  <2> HIDE DEF r
  <2>2. Echoes(s, e, r)
    BY <1>4, <2>1, ConveyedBy, PlainEcho
  <2> QED BY <2>2 DEF r
<1> QED BY <1>1, <1>2, <1>3, <1>4

LEMMA DrainingPassesOn ==
  ASSUME NEW s \in SlotType, s.phase = "Draining", s.waiters = << >>,
         s.id \in ActivationIds, NEW e \in Events
  PROVE  Echoes(s, e, DecideDraining(s, e))
<1> DEFINE r == DecideDraining(s, e)
<1>1. CASE e.trigger = "Dispatch"
  <2>1. r = Refuse(s, e.d, "Draining")
    BY <1>1 DEF DecideDraining
  <2>2. Conveyed(e) = {e.d}
    BY <1>1, ConveyedBy
  <2> QED BY <2>1, <2>2, RefusalEcho
<1>2. CASE e.trigger = "DeliveryResolved" /\ e.id = s.id
  <2> DEFINE t == Draining(s.id, IF s.reservations > 0 THEN s.reservations - 1 ELSE 0)
             fxs == Rejections(e.failure, "Unavailable")
             fence == EnqueueFence(s.id)
  <2>1. t.waiters = s.waiters
    BY DEF Draining, Slot
  <2>2. r = Decision(t, fxs \o << fence >>) \/ r = Decision(t, fxs \o << >>)
    BY <1>2 DEF DecideDraining, ResolveDrainingDelivery
  <2>3. fxs \in Seq(EffectType)
    BY <1>2, EventFields, RejectFailedPlain, CalmIsTyped
  <2>4. fence \in EffectType /\ \A d : ~ Carries(fence, d)
    BY EffectTyped, CalmIsTyped, CarriedBy
  <2>5. \A d : OnceInBatch(fxs, d) /\ (InBatch(fxs, d) <=> d \in Conveyed(e))
    BY <1>2, EventFields, ConveyedBy, FailureBatch
  <2> HIDE DEF t, r, fxs, fence
  <2>6. fxs \o << fence >> = Append(fxs, fence) /\ fxs \o << >> = fxs
    BY <2>3, <2>4
  <2>7. r.slot = t /\ (r.effects = Append(fxs, fence) \/ r.effects = fxs)
    BY <2>2, <2>6 DEF Decision
  <2>8. \A d : OnceInBatch(r.effects, d) /\ (InBatch(r.effects, d) <=> d \in Conveyed(e))
    BY <2>3, <2>4, <2>5, <2>7, BatchExtended
  <2>9. Echoes(s, e, r)
    BY <2>1, <2>7, <2>8 DEF Echoes
  <2> QED BY <2>9 DEF r
<1>3. CASE e.trigger = "DeliveryResolved" /\ e.id # s.id
  <2>1. r = RejectFailedDelivery(s, e.failure)
    BY <1>3 DEF DecideDraining
  <2> QED BY <1>3, <2>1, ConveyedBy, EventFields, FailureEcho
<1>4. CASE e.trigger \in {"FenceAcknowledged", "ForceDrain"} /\ e.id = s.id
  <2> DEFINE t == Retiring(s.id)
  <2>1. t.waiters = s.waiters
    BY DEF Retiring, Slot
  <2>2. r = Decision(s, << >>) \/ \E mode : r = Decision(t, << Retire(s.id, mode) >>)
    BY <1>4 DEF DecideDraining, AcknowledgeFence, ForceDrain, Ignore
  <2> HIDE DEF t, r
  <2>3. Echoes(s, e, r)
    BY <1>4, <2>1, <2>2, ConveyedBy, PlainEcho
  <2> QED BY <2>3 DEF r
<1>5. CASE \/ e.trigger \in {"FenceAcknowledged", "ForceDrain"} /\ e.id # s.id
           \/ e.trigger \notin {"Dispatch", "DeliveryResolved", "FenceAcknowledged", "ForceDrain"}
  <2>1. r = Decision(s, << >>) \/ r = Decision(s, << Retire(e.id, "Forced") >>)
    BY <1>5, EventFields DEF DecideDraining, RetireStale, Ignore
  <2> HIDE DEF r
  <2>2. Echoes(s, e, r)
    BY <1>5, <2>1, ConveyedBy, PlainEcho
  <2> QED BY <2>2 DEF r
<1> QED BY <1>1, <1>2, <1>3, <1>4, <1>5

LEMMA RetiringPassesOn ==
  ASSUME NEW s \in SlotType, s.phase = "Retiring", s.waiters = << >>, NEW e \in Events
  PROVE  Echoes(s, e, DecideRetiring(s, e))
<1> DEFINE r == DecideRetiring(s, e)
<1>1. CASE e.trigger = "Dispatch"
  <2>1. r = Refuse(s, e.d, "Draining")
    BY <1>1 DEF DecideRetiring
  <2>2. Conveyed(e) = {e.d}
    BY <1>1, ConveyedBy
  <2> QED BY <2>1, <2>2, RefusalEcho
<1>2. CASE e.trigger = "DeliveryResolved"
  <2>1. r = RejectFailedDelivery(s, e.failure)
    BY <1>2 DEF DecideRetiring
  <2> QED BY <1>2, <2>1, ConveyedBy, EventFields, FailureEcho
<1>3. CASE e.trigger \notin {"Dispatch", "DeliveryResolved"}
  <2> DEFINE t == Inactive
  <2>1. t.waiters = s.waiters
    BY DEF Inactive, Slot
  <2>2. \/ r = Decision(s, << >>) \/ r = Decision(s, << Retire(e.id, "Forced") >>)
        \/ r = Decision(t, << RemoveEntry(s.id) >>)
    BY <1>3, EventFields DEF DecideRetiring, RetireStale, Ignore
  <2> HIDE DEF t, r
  <2>3. Echoes(s, e, r)
    BY <1>3, <2>1, <2>2, ConveyedBy, PlainEcho
  <2> QED BY <2>3 DEF r
<1> QED BY <1>1, <1>2, <1>3

LEMMA ReducePassesOn ==
  ASSUME NEW s \in SlotType, s.phase # "Inactive" => s.id \in ActivationIds,
         s.waiters # << >> => s.phase = "Activating", IsInjective(s.waiters),
         NEW e \in Events, \A d \in Conveyed(e) : ~ Waits(s, d)
  PROVE  PassesOn(s, e, Reduce(s, e))
<1>1. CASE s.phase = "Inactive"
  <2> DEFINE r == DecideInactive(e)
             i == Inactive
  <2>1. Reduce(s, e) = r
    BY <1>1 DEF Reduce
  <2>2. Echoes(i, e, r)
    BY InactivePassesOn
  <2>3. i.waiters = s.waiters
    BY <1>1 DEF Inactive, Slot
  <2> HIDE DEF r, i
  <2>4. Echoes(s, e, r)
    BY <2>2, <2>3 DEF Echoes
  <2> QED BY <2>1, <2>4, EchoPassesOn
<1>2. CASE s.phase = "Activating"
  BY <1>2, ActivatingPassesOn DEF Reduce
<1>3. CASE s.phase = "Active"
  BY <1>3, ActivePassesOn, EchoPassesOn DEF Reduce
<1>4. CASE s.phase = "Draining"
  BY <1>4, DrainingPassesOn, EchoPassesOn DEF Reduce
<1>5. CASE s.phase = "Retiring"
  BY <1>5, RetiringPassesOn, EchoPassesOn DEF Reduce
<1> QED BY <1>1, <1>2, <1>3, <1>4, <1>5 DEF SlotType, Phases

-----------------------------------------------------------------------------
(* Where a command can be, a slot or a queue counting as one place.        *)
At(d, k, x) ==
  \/ k = "waiting" /\ x \in ActivationIds /\ d \in Range(slots[x].waiters)
  \/ k = "queued" /\ x \in ActivationIds /\ InQueue(outputs[x], d)
  \/ k = "called" /\ x \in calls /\ d \in Conveyed(x.event)
  \/ k = "spawned" /\ x \in tasks /\ x.type = "Deliver" /\ x.d = d
  \/ k = "settled" /\ x = answer[d] /\ x # "Awaiting"

Nowhere(d) == \A k, x : ~ At(d, k, x)

Only(d, k, x) == At(d, k, x) /\ \A j, y : At(d, j, y) => j = k /\ y = x

(* A command is in one place from its dispatch on, unless its caller gave  *)
(* up or it was lost with a batch.                                         *)
Hand(d) ==
  /\ \A j, k, x, y : At(d, j, x) /\ At(d, k, y) => j = k /\ x = y
  /\ future[d] = "none" \/ d \in lost => Nowhere(d)
  /\ future[d] \notin {"none", "dropped"} /\ d \notin lost => \E k, x : At(d, k, x)
  /\ d \in lost => future[d] # "none"

QueuedOnce ==
  \A d \in Dispatches, s \in ActivationIds : OnceInQueue(outputs[s], d)

CancellationsDropped ==
  \A c \in calls : c.event.trigger = "CancelWaiter" => future[c.event.d] = "dropped"

HandInv == (\A d \in Dispatches : Hand(d)) /\ QueuedOnce /\ CancellationsDropped

LEMMA HandOnly ==
  ASSUME NEW d, Hand(d), NEW k, NEW x, At(d, k, x)
  PROVE  Only(d, k, x) /\ future[d] # "none" /\ d \notin lost
BY DEF Hand, Only, Nowhere

(* The ways a step can go on with one command.                             *)
LEMMA HandKept ==
  ASSUME NEW d, Hand(d), \A k, x : At(d, k, x)' <=> At(d, k, x),
         future[d] = "none" <=> future'[d] = "none",
         future[d] = "dropped" => future'[d] = "dropped",
         d \in lost <=> d \in lost'
  PROVE  Hand(d)'
BY DEF Hand, Nowhere

LEMMA HandMoved ==
  ASSUME NEW d, NEW k, NEW x, At(d, k, x)', \A j, y : At(d, j, y)' => j = k /\ y = x,
         future'[d] # "none", d \notin lost'
  PROVE  Hand(d)'
BY DEF Hand, Nowhere

LEMMA HandLost ==
  ASSUME NEW d, \A k, x : ~ At(d, k, x)', future'[d] # "none",
         future'[d] = "dropped" \/ d \in lost'
  PROVE  Hand(d)'
BY DEF Hand, Nowhere

(* What a caller's future may do without the command being touched.        *)
FutureGoesOn(d) ==
  /\ future[d] = "none" <=> future'[d] = "none"
  /\ future[d] = "dropped" => future'[d] = "dropped"

LEMMA WakeGoesOn ==
  ASSUME NEW d \in Dispatches, Wake
  PROVE  FutureGoesOn(d)
BY DEF Wake, FutureGoesOn

LEMMA UnwindGoesOn ==
  ASSUME NEW d \in Dispatches, NEW c, InterpreterPanics(c)
  PROVE  FutureGoesOn(d)
BY DEF InterpreterPanics, FutureGoesOn

LEMMA StartedOne ==
  ASSUME NEW fx, NEW d
  PROVE  /\ Started(<< fx >>) = IF fx.type \in Asynchronous THEN {fx} ELSE {}
         /\ d \in Refused(<< fx >>) <=> fx.type = "Reject" /\ fx.d = d
<1> DEFINE b == << fx >>
<1>1. Range(b) = {fx}
  BY DEF Range
<1> HIDE DEF b
<1>2. /\ Started(b) = IF fx.type \in Asynchronous THEN {fx} ELSE {}
      /\ d \in Refused(b) <=> fx.type = "Reject" /\ fx.d = d
  BY <1>1 DEF Started, Refused
<1> QED BY <1>2 DEF b

(* What a reported fact carries that finds no slot.                        *)
LEMMA FoundNothing ==
  ASSUME NEW e \in Events, e.trigger # "Dispatch", NEW d
  PROVE  LET r == Reduce(Inactive, e)
         IN  /\ \A t \in Started(r.effects) : t.type # "Deliver"
             /\ d \in Refused(r.effects) <=> d \in Conveyed(e)
<1> DEFINE r == Reduce(Inactive, e)
<1>1. r = DecideInactive(e)
  BY DEF Reduce, Inactive, Slot
<1>2. CASE e.trigger = "ActivationSucceeded"
  <2> DEFINE fx == Retire(e.id, "Forced")
  <2>1. r.effects = << fx >> /\ fx.type = "Retire"
    BY <1>1, <1>2 DEF DecideInactive, RetireStale, Decision, Retire
  <2> HIDE DEF r, fx
  <2>2. \A t \in Started(r.effects) : t.type # "Deliver"
    BY <2>1, StartedOne
  <2>3. d \notin Refused(r.effects)
    BY <2>1, StartedOne
  <2> QED BY <1>2, <2>2, <2>3, ConveyedBy DEF r
<1>3. CASE e.trigger = "DeliveryResolved"
  <2> DEFINE f == e.failure
  <2>1. r.effects = Rejections(f, "Unavailable")
    BY <1>1, <1>3 DEF DecideInactive, RejectFailedDelivery, Decision
  <2>2. Conveyed(e) = Range(f) /\ f \in Seq(Dispatches)
    BY <1>3, ConveyedBy, EventFields, FailureBatch
  <2>3. Range(r.effects) = {Reject(x, "Unavailable") : x \in Range(f)}
    BY <2>1 DEF Rejections, Range
  <2> HIDE DEF r, f
  <2>4. \A t \in Range(r.effects) : t.type = "Reject"
    BY <2>3 DEF Reject
  <2>5. \A t \in Started(r.effects) : t.type # "Deliver"
    BY <2>4 DEF Started
  <2>6. d \in Refused(r.effects) <=> d \in Range(f)
    <3>1. \A x : Reject(x, "Unavailable").type = "Reject" /\ Reject(x, "Unavailable").d = x
      BY DEF Reject
    <3>2. d \in Refused(r.effects) <=>
            \E gx \in Range(r.effects) : gx.type = "Reject" /\ gx.d = d
      BY DEF Refused
    <3> QED BY <2>3, <3>1, <3>2
  <2> QED BY <2>2, <2>5, <2>6 DEF r
<1>4. CASE e.trigger \notin {"ActivationSucceeded", "DeliveryResolved"}
  <2>1. r.effects = << >>
    BY <1>1, <1>4, EventFields DEF DecideInactive, Ignore, Decision
  <2> HIDE DEF r
  <2>2. Range(r.effects) = {}
    BY <2>1 DEF Range
  <2> QED BY <1>4, <2>2, ConveyedBy DEF Started, Refused, r
<1> QED BY <1>2, <1>3, <1>4

(* A call looks a slot up for a fact: the command the fact carries moves   *)
(* with it, or settles.                                                    *)
LEMMA FindHand ==
  ASSUME TypeOK, UNCHANGED <<slots, outputs, lost>>,
         NEW by, NEW e \in Events, e.trigger # "Dispatch", NEW finished, NEW fewer,
         Find(by, e, finished, calls \ fewer),
         NEW d \in Dispatches, Hand(d), FutureGoesOn(d),
         d \in Conveyed(e) <=>
           \/ \E t \in finished : At(d, "spawned", t)
           \/ \E c \in fewer : At(d, "called", c)
  PROVE  Hand(d)'
<1> DEFINE n == home[e.id]
           r == Reduce(Inactive, e)
           m == Call(by, "submit", map[n], e)
<1>0. m.event = e
  BY DEF Call
<1>1. CASE d \notin Conveyed(e)
  <2>1. ~ (\E t \in finished : At(d, "spawned", t)) /\ ~ (\E c \in fewer : At(d, "called", c))
    BY <1>1
  <2>2. answer'[d] = answer[d]
    <3>1. CASE map[n] = NoActivation
      <4>1. Complete(Refused(r.effects), "Refused")
        BY <3>1 DEF Find
      <4>2. d \notin Refused(r.effects)
        BY <1>1, FoundNothing
      <4> HIDE DEF r
      <4> QED BY <4>1, <4>2 DEF Complete
    <3>2. CASE map[n] # NoActivation
      BY <3>2 DEF Find
    <3> QED BY <3>1, <3>2
  <2>3. \A t : t.type = "Deliver" /\ t.d = d => (t \in tasks' <=> t \in tasks)
    <3>1. \A t : t.type = "Deliver" /\ t.d = d /\ t \in tasks => t \notin finished
      BY <2>1 DEF At
    <3>2. tasks' = tasks \ finished \/ tasks' = (tasks \ finished) \cup Started(r.effects)
      BY DEF Find
    <3>3. \A t \in Started(r.effects) : t.type # "Deliver"
      BY FoundNothing
    <3> HIDE DEF r
    <3> QED BY <3>1, <3>2, <3>3
  <2>4. \A c : d \in Conveyed(c.event) => (c \in calls' <=> c \in calls)
    <3>1. \A c : d \in Conveyed(c.event) /\ c \in calls => c \notin fewer
      BY <2>1 DEF At
    <3>2. calls' = calls \ fewer \/ calls' = (calls \ fewer) \cup {m}
      BY FindCalls
    <3> HIDE DEF m
    <3> QED BY <1>0, <1>1, <3>1, <3>2
  <2>5. \A k, x : At(d, k, x)' <=> At(d, k, x)
    BY <2>2, <2>3, <2>4 DEF At
  <2> QED BY <2>5, HandKept DEF FutureGoesOn
<1>2. CASE d \in Conveyed(e)
  <2>1. PICK k, x : /\ At(d, k, x)
                    /\ \/ k = "spawned" /\ x \in finished
                       \/ k = "called" /\ x \in fewer
    <3>1. CASE \E t \in finished : At(d, "spawned", t)
      BY <3>1
    <3>2. CASE \E c \in fewer : At(d, "called", c)
      BY <3>2
    <3> QED BY <1>2, <3>1, <3>2
  <2>2. /\ Only(d, k, x) /\ future[d] # "none" /\ d \notin lost
        /\ future'[d] # "none" /\ d \notin lost'
    BY <2>1, HandOnly DEF FutureGoesOn
  <2>3. /\ \A s \in ActivationIds : d \notin Range(slots[s].waiters) /\ ~ InQueue(outputs[s], d)
        /\ \A c \in calls \ fewer : d \notin Conveyed(c.event)
        /\ \A t \in tasks \ finished : ~ (t.type = "Deliver" /\ t.d = d)
        /\ answer[d] = "Awaiting"
    BY <2>1, <2>2 DEF Only, At
  <2>4. CASE map[n] = NoActivation
    <3>1. /\ Complete(Refused(r.effects), "Refused") /\ calls' = calls \ fewer
          /\ tasks' = (tasks \ finished) \cup Started(r.effects)
      BY <2>4 DEF Find
    <3>2. d \in Refused(r.effects) /\ \A t \in Started(r.effects) : t.type # "Deliver"
      BY <1>2, FoundNothing
    <3> HIDE DEF r
    <3>3. answer'[d] = "Refused"
      BY <2>3, <3>1, <3>2 DEF Complete
    <3>4. At(d, "settled", "Refused")' /\ \A j, y : At(d, j, y)' => j = "settled" /\ y = "Refused"
      BY <2>3, <3>1, <3>2, <3>3 DEF At
    <3> QED BY <2>2, <3>4, HandMoved
  <2>5. CASE map[n] # NoActivation
    <3>1. tasks' = tasks \ finished /\ calls' = (calls \ fewer) \cup {m} /\ answer' = answer
      BY <2>5 DEF Find
    <3>2. PICK b : b = m
      OBVIOUS
    <3>3. b.event = e /\ calls' = (calls \ fewer) \cup {b}
      BY <1>0, <3>1, <3>2
    <3>4. At(d, "called", b)' /\ \A j, y : At(d, j, y)' => j = "called" /\ y = b
      BY <1>2, <2>3, <3>1, <3>3 DEF At
    <3> QED BY <2>2, <3>4, HandMoved
  <2> QED BY <2>4, <2>5
<1> QED BY <1>1, <1>2

-----------------------------------------------------------------------------
(* The steps that move no command.                                         *)
LEMMA PlacesUnmoved ==
  ASSUME UNCHANGED <<slots, outputs, tasks, answer, lost>>, HandInv,
         \A d \in Dispatches : FutureGoesOn(d),
         \A c \in calls \ calls' : Conveyed(c.event) = {},
         \A c \in calls' \ calls : Conveyed(c.event) = {} /\ c.event.trigger # "CancelWaiter",
         \A c \in calls : c.event.trigger = "CancelWaiter" => c.event.d \in Dispatches
  PROVE  HandInv'
<1>1. ASSUME NEW d \in Dispatches PROVE Hand(d)'
  <2>1. \A k, x : At(d, k, x)' <=> At(d, k, x)
    BY DEF At
  <2> QED BY <2>1, HandKept DEF HandInv, FutureGoesOn
<1>2. QueuedOnce'
  BY DEF HandInv, QueuedOnce
<1>3. CancellationsDropped'
  BY DEF HandInv, CancellationsDropped, FutureGoesOn
<1> QED BY <1>1, <1>2, <1>3 DEF HandInv

LEMMA CancelFields ==
  ASSUME TypeOK, NEW c \in calls
  PROVE  /\ c.event.trigger = "CancelWaiter" => c.event.d \in Dispatches /\ c.at \in {"find", "submit"}
         /\ c.at \in {"find", "submit"} => c.event \in Events
         /\ c.at = "find" => c.event.trigger # "Dispatch"
         /\ c.at \in {"interpret", "own"} => c.event = NoEvent
<1>1. c \in CallType
  BY DEF TypeOK
<1>2. c.at = "find" => c.event \in ReportedType
  BY <1>1, CallFields
<1>3. c.at \in {"interpret", "own"} => c.event = NoEvent
  BY <1>1 DEF CallType
<1>4. NoEvent.trigger # "CancelWaiter"
  BY DEF NoEvent
<1>5. c.at \in {"find", "submit", "interpret", "own"} /\ (c.at = "submit" => c.event \in Events)
  BY <1>1, CallFields
<1>6. c.event \in ReportedType => c.event \in Events /\ c.event.trigger # "Dispatch"
  BY DEF Events, ReportedType
<1> QED BY <1>2, <1>3, <1>4, <1>5, <1>6, EventFields

LEMMA IdleEvents ==
  /\ Conveyed(NoEvent) = {} /\ NoEvent.trigger # "CancelWaiter"
  /\ \A id : Conveyed([trigger |-> "BeginDrain", id |-> id]) = {}
  /\ \A by, at, s, e : Call(by, at, s, e).event = e
BY DEF Conveyed, NoEvent, Call

LEMMA QuietHand ==
  ASSUME TypeOK, HandInv, NEW c \in calls,
         Interpret(c) \/ Release(c)
  PROVE  HandInv'
<1>1. UNCHANGED <<slots, outputs, tasks, answer, lost, future>>
  BY DEF Interpret, Release, history
<1>2. c.event = NoEvent
  BY CancelFields DEF Interpret, Release
<1>3. calls' = calls \ {c} \/ \E b : b.event = NoEvent /\ calls' = (calls \ {c}) \cup {b}
  BY IdleEvents DEF Interpret, Release, Moved
<1>4. /\ \A b \in calls \ calls' : Conveyed(b.event) = {}
      /\ \A b \in calls' \ calls : Conveyed(b.event) = {} /\ b.event.trigger # "CancelWaiter"
  BY <1>2, <1>3, IdleEvents
<1> QED BY <1>1, <1>4, CancelFields, PlacesUnmoved DEF FutureGoesOn

LEMMA PollHand ==
  ASSUME TypeOK, HandInv, NEW d \in Dispatches, Poll(d)
  PROVE  HandInv'
<1>1. UNCHANGED <<slots, outputs, tasks, answer, lost, calls>>
  BY DEF Poll, directory, history
<1>2. \A x \in Dispatches : FutureGoesOn(x)
  BY DEF Poll, FutureGoesOn, TypeOK
<1> QED BY <1>1, <1>2, CancelFields, PlacesUnmoved

LEMMA PassivateHand ==
  ASSUME TypeOK, HandInv, NEW p \in Passivations, NEW n \in Entities, PassivateReads(p, n)
  PROVE  HandInv'
<1> DEFINE e == [trigger |-> "BeginDrain", id |-> slots[map[n]].id]
           b == Call(p, "find", NoActivation, e)
<1>1. UNCHANGED <<slots, outputs, tasks, answer, lost, future>> /\ calls' = calls \cup {b}
  BY DEF PassivateReads, directory, history
<1>2. b.event = e /\ Conveyed(e) = {} /\ e.trigger # "CancelWaiter"
  BY IdleEvents
<1> HIDE DEF b, e
<1>3. /\ \A c \in calls \ calls' : Conveyed(c.event) = {}
      /\ \A c \in calls' \ calls : Conveyed(c.event) = {} /\ c.event.trigger # "CancelWaiter"
  BY <1>1, <1>2
<1> QED BY <1>1, <1>3, CancelFields, PlacesUnmoved DEF FutureGoesOn

(* Facts that look their slot up: reports, calls that find, cancellations. *)
LEMMA LookupHand ==
  ASSUME TypeOK, HandInv, UNCHANGED <<slots, outputs, lost>>,
         NEW by, NEW e \in Events, e.trigger # "Dispatch", NEW finished, NEW fewer,
         Find(by, e, finished, calls \ fewer),
         \A d \in Dispatches : FutureGoesOn(d),
         \A d \in Dispatches : d \in Conveyed(e) <=>
           \/ \E t \in finished : At(d, "spawned", t)
           \/ \E c \in fewer : At(d, "called", c),
         e.trigger = "CancelWaiter" => future'[e.d] = "dropped"
  PROVE  HandInv'
<1>1. \A d \in Dispatches : Hand(d)'
  BY FindHand DEF HandInv
<1>2. QueuedOnce'
  BY DEF HandInv, QueuedOnce
<1>3. CancellationsDropped'
  <2> DEFINE m == Call(by, "submit", map[home[e.id]], e)
  <2>1. calls' = calls \ fewer \/ calls' = (calls \ fewer) \cup {m}
    BY FindCalls
  <2>2. m.event = e
    BY DEF Call
  <2> HIDE DEF m
  <2> SUFFICES ASSUME NEW c \in calls', c.event.trigger = "CancelWaiter"
               PROVE  future'[c.event.d] = "dropped"
    BY DEF CancellationsDropped
  <2>3. CASE c \in calls
    BY <2>3, CancelFields DEF HandInv, CancellationsDropped, FutureGoesOn
  <2>4. CASE c = m
    BY <2>2, <2>4
  <2> QED BY <2>1, <2>3, <2>4
<1> QED BY <1>1, <1>2, <1>3 DEF HandInv

LEMMA ReportHand ==
  ASSUME TypeOK, HandInv, NEW t, NEW e \in Events, Report(t, e),
         e.trigger \notin {"Dispatch", "CancelWaiter"},
         \A d \in Dispatches : d \in Conveyed(e) <=> t.type = "Deliver" /\ t.d = d
  PROVE  HandInv'
<1> DEFINE none == {}
<1>1. /\ UNCHANGED <<slots, outputs, lost>> /\ Wake /\ Find(t, e, {t}, calls)
      /\ t \in tasks
  BY DEF Report, directory, history
<1>2. calls \ none = calls /\ \A c \in none : FALSE
  OBVIOUS
<1> HIDE DEF none
<1>3. Find(t, e, {t}, calls \ none)
  BY <1>1, <1>2
<1>4. \A d \in Dispatches : d \in Conveyed(e) <=>
        \/ \E u \in {t} : At(d, "spawned", u)
        \/ \E c \in none : At(d, "called", c)
  BY <1>1, <1>2 DEF At
<1>5. \A d \in Dispatches : FutureGoesOn(d)
  BY <1>1, WakeGoesOn
<1> QED BY <1>1, <1>3, <1>4, <1>5, LookupHand

LEMMA TaskHand ==
  ASSUME TypeOK, HandInv, NEW id \in ActivationIds,
         \/ ActivationReports(id) \/ FenceReports(id)
         \/ \E d \in Dispatches : DeliveryRefused(id, d)
         \/ \E mode \in Modes : RetirementReports(id, mode)
  PROVE  HandInv'
<1>1. ASSUME NEW t, NEW trigger \in {"ActivationSucceeded", "ActivationFailed", "FenceAcknowledged",
                                      "ForceDrain", "Terminated"},
             t.type # "Deliver", Report(t, [trigger |-> trigger, id |-> id])
      PROVE  HandInv'
  <2> DEFINE e == [trigger |-> trigger, id |-> id]
  <2>1. e \in Events /\ e.trigger = trigger
    BY DEF Events, ReportedType
  <2>2. Report(t, e)
    BY <1>1
  <2> HIDE DEF e
  <2>3. Conveyed(e) = {}
    BY <2>1, ConveyedBy
  <2> QED BY <1>1, <2>1, <2>2, <2>3, ReportHand
<1>2. ASSUME NEW d \in Dispatches, DeliveryRefused(id, d)
      PROVE  HandInv'
  <2> DEFINE e == [trigger |-> "DeliveryResolved", id |-> id, failure |-> << d >>]
             t == Deliver(id, d)
  <2>1. e \in Events /\ e.trigger = "DeliveryResolved" /\ e.failure = << d >>
    BY DEF Events, ReportedType
  <2>2. Report(t, e)
    BY <1>2 DEF DeliveryRefused
  <2>3. t.type = "Deliver" /\ t.d = d
    BY DEF Deliver
  <2> HIDE DEF e, t
  <2>4. Conveyed(e) = {d}
    BY <2>1, ConveyedBy, SingleWaiter
  <2> QED BY <2>1, <2>2, <2>3, <2>4, ReportHand
<1>3. ASSUME NEW mode \in Modes, RetirementReports(id, mode) PROVE HandInv'
  <2>1. Retire(id, mode).type # "Deliver"
    BY DEF Retire
  <2> QED BY <1>1, <1>3, <2>1 DEF RetirementReports
<1>4. StartActivation(id).type # "Deliver" /\ EnqueueFence(id).type # "Deliver"
  BY DEF StartActivation, EnqueueFence
<1>5. CASE ActivationReports(id)
  BY <1>1, <1>4, <1>5 DEF ActivationReports
<1>6. CASE FenceReports(id)
  BY <1>1, <1>4, <1>6 DEF FenceReports
<1> QED BY <1>2, <1>3, <1>5, <1>6

LEMMA FindsHand ==
  ASSUME TypeOK, HandInv, NEW c \in calls, Finds(c)
  PROVE  HandInv'
<1> DEFINE none == {}
<1>1. /\ UNCHANGED <<slots, outputs, lost>> /\ Wake /\ Find(c.by, c.event, {}, calls \ {c})
      /\ c.event \in Events /\ c.event.trigger # "Dispatch"
  BY CancelFields DEF Finds, directory, history
<1>2. \A t \in none : FALSE
  OBVIOUS
<1>3. Find(c.by, c.event, none, calls \ {c})
  BY <1>1
<1> HIDE DEF none
<1>4. \A d \in Dispatches : d \in Conveyed(c.event) <=>
        \/ \E u \in none : At(d, "spawned", u)
        \/ \E b \in {c} : At(d, "called", b)
  BY <1>2 DEF At
<1>5. \A d \in Dispatches : FutureGoesOn(d)
  BY <1>1, WakeGoesOn
<1>6. c.event.trigger = "CancelWaiter" => future'[c.event.d] = "dropped"
  BY <1>5, CancelFields DEF HandInv, CancellationsDropped, FutureGoesOn
<1> QED BY <1>1, <1>3, <1>4, <1>5, <1>6, LookupHand

LEMMA DropHand ==
  ASSUME TypeOK, HandInv, NEW d \in Dispatches, DropFuture(d)
  PROVE  HandInv'
<1> DEFINE e == [trigger |-> "CancelWaiter", id |-> ticket[d], d |-> d]
           none == {}
<1>1. /\ UNCHANGED <<slots, outputs, lost>>
      /\ future[d] \in {"polled", "parked"} /\ future' = [future EXCEPT ![d] = "dropped"]
      /\ IF ticket[d] = NoActivation THEN UNCHANGED <<tasks, calls, answer>> ELSE Find(d, e, {}, calls)
  BY DEF DropFuture, directory, history, Waiting
<1>2. \A x \in Dispatches : FutureGoesOn(x)
  BY <1>1 DEF FutureGoesOn, TypeOK
<1>3. CASE ticket[d] = NoActivation
  BY <1>1, <1>2, <1>3, CancelFields, PlacesUnmoved
<1>4. CASE ticket[d] # NoActivation
  <2>1. ticket[d] \in ActivationIds
    BY <1>4, IssuedIds DEF TypeOK, NoActivation
  <2>2. e \in Events /\ e.trigger = "CancelWaiter" /\ e.d = d
    BY <2>1 DEF Events, ReportedType
  <2>3. calls \ none = calls /\ \A x \in none : FALSE
    OBVIOUS
  <2>4. Find(d, e, none, calls)
    BY <1>1, <1>4
  <2> HIDE DEF e, none
  <2>5. Find(d, e, none, calls \ none)
    BY <2>3, <2>4
  <2>6. Conveyed(e) = {}
    BY <2>2, ConveyedBy
  <2>7. future'[e.d] = "dropped"
    BY <1>1, <2>2 DEF TypeOK
  <2> QED BY <1>1, <1>2, <2>2, <2>3, <2>5, <2>6, <2>7, LookupHand
<1> QED BY <1>3, <1>4

-----------------------------------------------------------------------------
(* An accepted delivery fills the completion.                              *)
LEMMA AcceptedHand ==
  ASSUME TypeOK, HandInv, NEW id \in ActivationIds, NEW d \in Dispatches, DeliveryAccepted(id, d)
  PROVE  HandInv'
<1> DEFINE t == Deliver(id, d)
           e == [trigger |-> "DeliveryResolved", id |-> id, failure |-> << >>]
           m == Call(t, "find", NoActivation, e)
<1>1. /\ UNCHANGED <<slots, outputs, lost>> /\ Wake
      /\ t \in tasks /\ tasks' = tasks \ {t} /\ Complete({d}, "Ok")
      /\ calls' = calls \cup {m}
  BY DEF DeliveryAccepted, directory, history
<1>2. m.event = e /\ e.trigger = "DeliveryResolved" /\ Conveyed(e) = {}
  BY NoWaiters DEF Call, Conveyed
<1>3. t.type = "Deliver" /\ t.d = d
  BY DEF Deliver
<1> HIDE DEF m, e, t
<1>4. \A x \in Dispatches : FutureGoesOn(x)
  BY <1>1, WakeGoesOn
<1>5. ASSUME NEW x \in Dispatches PROVE Hand(x)'
  <2>1. CASE x = d
    <3>1. At(d, "spawned", t)
      BY <1>1, <1>3 DEF At
    <3>2. PICK t1 : t1 = t
      OBVIOUS
    <3>3. At(d, "spawned", t1)
      BY <3>1, <3>2
    <3>4. Only(d, "spawned", t1) /\ future[d] # "none" /\ d \notin lost
      BY <3>3, HandOnly DEF HandInv
    <3>5. /\ \A s \in ActivationIds : d \notin Range(slots[s].waiters) /\ ~ InQueue(outputs[s], d)
          /\ \A c \in calls : d \notin Conveyed(c.event)
          /\ \A u \in tasks : u.type = "Deliver" /\ u.d = d => u = t
          /\ answer[d] = "Awaiting"
      BY <3>2, <3>4 DEF Only, At
    <3>6. answer'[d] = "Ok"
      BY <1>1, <3>5 DEF Complete
    <3>7. At(d, "settled", "Ok")' /\ \A j, y : At(d, j, y)' => j = "settled" /\ y = "Ok"
      BY <1>1, <1>2, <3>5, <3>6 DEF At
    <3>8. future'[d] # "none" /\ d \notin lost'
      BY <1>1, <1>4, <3>4 DEF FutureGoesOn
    <3> QED BY <2>1, <3>7, <3>8, HandMoved
  <2>2. CASE x # d
    <3>1. answer'[x] = answer[x]
      BY <1>1, <2>2 DEF Complete
    <3>2. \A k, y : At(x, k, y)' <=> At(x, k, y)
      BY <1>1, <1>2, <1>3, <2>2, <3>1 DEF At
    <3> QED BY <1>1, <1>4, <3>2, HandKept DEF HandInv, FutureGoesOn
  <2> QED BY <2>1, <2>2
<1>6. QueuedOnce'
  BY <1>1 DEF HandInv, QueuedOnce
<1>7. CancellationsDropped'
  <2>1. m.event.trigger # "CancelWaiter"
    BY <1>2
  <2> QED BY <1>1, <1>4, <2>1, CancelFields DEF HandInv, CancellationsDropped, FutureGoesOn
<1> QED BY <1>5, <1>6, <1>7 DEF HandInv

(* A new dispatch holds its own command.                                   *)
LEMMA MappedHand ==
  ASSUME TypeOK, HandInv, NEW d \in Dispatches, NEW n \in Entities, DispatchMapped(d, n)
  PROVE  HandInv'
<1> DEFINE e == [trigger |-> "Dispatch", d |-> d]
<1>1. PICK m : m = Call(d, "submit", map[n], e)
  OBVIOUS
<1>2. /\ UNCHANGED <<slots, outputs, lost, tasks, answer>>
      /\ future[d] = "none" /\ future' = [future EXCEPT ![d] = "polled"]
      /\ calls' = calls \cup {m}
  BY <1>1 DEF DispatchMapped, directory, history
<1>3. m.event = e /\ Conveyed(e) = {d} /\ e.trigger # "CancelWaiter"
  BY <1>1 DEF Call, Conveyed
<1> HIDE DEF e
<1>4. future'[d] = "polled" /\ \A x \in Dispatches \ {d} : future'[x] = future[x]
  BY <1>2 DEF TypeOK
<1>5. ASSUME NEW x \in Dispatches PROVE Hand(x)'
  <2>1. CASE x = d
    <3>1. Nowhere(d) /\ d \notin lost
      BY <1>2 DEF HandInv, Hand
    <3>2. /\ \A s \in ActivationIds : d \notin Range(slots[s].waiters) /\ ~ InQueue(outputs[s], d)
          /\ \A c \in calls : d \notin Conveyed(c.event)
          /\ \A u \in tasks : ~ (u.type = "Deliver" /\ u.d = d)
          /\ answer[d] = "Awaiting"
      BY <3>1 DEF Nowhere, At
    <3>3. At(d, "called", m)' /\ \A j, y : At(d, j, y)' => j = "called" /\ y = m
      BY <1>2, <1>3, <3>2 DEF At
    <3> QED BY <1>2, <1>4, <2>1, <3>1, <3>3, HandMoved
  <2>2. CASE x # d
    <3>1. \A k, y : At(x, k, y)' <=> At(x, k, y)
      BY <1>2, <1>3, <2>2 DEF At
    <3> QED BY <1>2, <1>4, <2>2, <3>1, HandKept DEF HandInv
  <2> QED BY <2>1, <2>2
<1>6. QueuedOnce'
  BY <1>2 DEF HandInv, QueuedOnce
<1>7. CancellationsDropped'
  BY <1>2, <1>3, <1>4, CancelFields DEF HandInv, CancellationsDropped
<1> QED BY <1>5, <1>6, <1>7 DEF HandInv

LEMMA ExhaustedHand ==
  ASSUME TypeOK, HandInv, NEW d \in Dispatches, NEW n \in Entities, DispatchExhausted(d, n)
  PROVE  HandInv'
<1>1. /\ UNCHANGED <<slots, outputs, lost, tasks, calls>>
      /\ future[d] = "none" /\ future' = [future EXCEPT ![d] = "done"]
      /\ answer' = [answer EXCEPT ![d] = "Exhausted"]
  BY DEF DispatchExhausted, directory, history
<1>2. /\ future'[d] = "done" /\ answer'[d] = "Exhausted"
      /\ \A x \in Dispatches \ {d} : future'[x] = future[x] /\ answer'[x] = answer[x]
  BY <1>1 DEF TypeOK
<1>3. ASSUME NEW x \in Dispatches PROVE Hand(x)'
  <2>1. CASE x = d
    <3>1. Nowhere(d) /\ d \notin lost
      BY <1>1 DEF HandInv, Hand
    <3>2. /\ \A s \in ActivationIds : d \notin Range(slots[s].waiters) /\ ~ InQueue(outputs[s], d)
          /\ \A c \in calls : d \notin Conveyed(c.event)
          /\ \A u \in tasks : ~ (u.type = "Deliver" /\ u.d = d)
      BY <3>1 DEF Nowhere, At
    <3>3. At(d, "settled", "Exhausted")' /\ \A j, y : At(d, j, y)' => j = "settled" /\ y = "Exhausted"
      BY <1>1, <1>2, <3>2 DEF At
    <3> QED BY <1>1, <1>2, <2>1, <3>1, <3>3, HandMoved
  <2>2. CASE x # d
    <3>1. \A k, y : At(x, k, y)' <=> At(x, k, y)
      BY <1>1, <1>2, <2>2 DEF At
    <3> QED BY <1>1, <1>2, <2>2, <3>1, HandKept DEF HandInv
  <2> QED BY <2>1, <2>2
<1>4. QueuedOnce'
  BY <1>1 DEF HandInv, QueuedOnce
<1>5. CancellationsDropped'
  BY <1>1, <1>2, CancelFields DEF HandInv, CancellationsDropped
<1> QED BY <1>3, <1>4, <1>5 DEF HandInv

(* The first dispatch of an activation waits in the slot it claimed.       *)
LEMMA AbsentHand ==
  ASSUME IInv, WInv, HandInv, NEW d \in Dispatches, NEW n \in Entities, DispatchAbsent(d, n)
  PROVE  HandInv'
<1>0. TypeOK
  BY DEF IInv
<1>1. PICK id \in ActivationIds : Allocated(id) /\ Claim(d, n, id)
  BY DEF DispatchAbsent
<1> DEFINE r == Reduce(Inactive, [trigger |-> "ClaimActivation", id |-> id, d |-> d])
           m == Call(d, "interpret", id, NoEvent)
<1>2. /\ slots' = [slots EXCEPT ![id] = r.slot]
      /\ outputs' = [outputs EXCEPT ![id] = Batches(r.effects)]
      /\ future[d] = "none" /\ future' = [future EXCEPT ![d] = "polled"]
      /\ calls' = calls \cup {m}
      /\ UNCHANGED <<lost, tasks, answer>>
  BY <1>1 DEF Claim, DispatchAbsent, history
<1>3. r.slot = Activating(id, << d >>) /\ r.effects = << StartActivation(id) >>
  BY DEF Reduce, DecideInactive, Decision, Inactive, Slot
<1>4. m.event = NoEvent
  BY DEF Call
<1> HIDE DEF m, r
<1>5. future'[d] = "polled" /\ \A x \in Dispatches \ {d} : future'[x] = future[x]
  BY <1>0, <1>2 DEF TypeOK
<1>6. /\ Range(slots[id].waiters) = {} /\ outputs[id] = << >>
  <2>1. lastId \in Nat /\ id = lastId + 1
    BY <1>0, <1>1, IssuedIds DEF Allocated
  <2>2. ~ Live(id) /\ outputs[id] = << >>
    BY <2>1 DEF IInv, Unissued
  <2>3. slots[id].waiters = << >>
    BY <2>2 DEF WInv, WaiterSeats, Live
  <2> QED BY <2>2, <2>3, NoWaiters
<1>7. /\ Range(slots'[id].waiters) = {d}
      /\ \A s \in ActivationIds \ {id} : slots'[s] = slots[s] /\ outputs'[s] = outputs[s]
  <2>1. slots'[id].waiters = << d >>
    BY <1>0, <1>2, <1>3 DEF TypeOK, Activating, Slot
  <2>2. Range(<< d >>) = {d}
    BY SingleWaiter
  <2> QED BY <1>0, <1>2, <2>1, <2>2 DEF TypeOK
<1>8. \A x : ~ InQueue(outputs'[id], x) /\ OnceInQueue(outputs'[id], x) /\ ~ InQueue(outputs[id], x)
  <2>1. outputs'[id] = Batches(r.effects)
    BY <1>0, <1>2 DEF TypeOK
  <2>2. \A x : ~ InBatch(r.effects, x) /\ OnceInBatch(r.effects, x)
    BY <1>3, SmallBatches, CarriedBy
  <2> QED BY <1>6, <2>1, <2>2, QueueOfBatches
<1>9. ASSUME NEW x \in Dispatches PROVE Hand(x)'
  <2>1. CASE x = d
    <3>1. Nowhere(d) /\ d \notin lost
      BY <1>2 DEF HandInv, Hand
    <3>2. /\ \A s \in ActivationIds : d \notin Range(slots[s].waiters) /\ ~ InQueue(outputs[s], d)
          /\ \A c \in calls : d \notin Conveyed(c.event)
          /\ \A u \in tasks : ~ (u.type = "Deliver" /\ u.d = d)
          /\ answer[d] = "Awaiting"
      BY <3>1 DEF Nowhere, At
    <3>3. At(d, "waiting", id)'
      BY <1>7 DEF At
    <3>4. \A s \in ActivationIds : ~ InQueue(outputs'[s], d) /\ (d \in Range(slots'[s].waiters) => s = id)
      BY <1>7, <1>8, <3>2
    <3>5. \A j, y : At(d, j, y)' => j = "waiting" /\ y = id
      BY <1>2, <1>4, <3>2, <3>4, IdleEvents DEF At
    <3> QED BY <1>2, <1>5, <2>1, <3>1, <3>3, <3>5, HandMoved
  <2>2. CASE x # d
    <3>1. \A s \in ActivationIds :
            /\ x \in Range(slots'[s].waiters) <=> x \in Range(slots[s].waiters)
            /\ InQueue(outputs'[s], x) <=> InQueue(outputs[s], x)
      BY <1>6, <1>7, <1>8, <2>2
    <3>2. \A c : x \in Conveyed(c.event) => (c \in calls' <=> c \in calls)
      BY <1>2, <1>4, IdleEvents
    <3>3. \A k, y : At(x, k, y)' <=> At(x, k, y)
      BY <1>2, <3>1, <3>2 DEF At
    <3> QED BY <1>2, <1>5, <2>2, <3>3, HandKept DEF HandInv
  <2> QED BY <2>1, <2>2
<1>10. QueuedOnce'
  BY <1>7, <1>8 DEF HandInv, QueuedOnce
<1>11. CancellationsDropped'
  BY <1>0, <1>2, <1>4, <1>5, CancelFields, IdleEvents DEF HandInv, CancellationsDropped
<1> QED BY <1>9, <1>10, <1>11 DEF HandInv

-----------------------------------------------------------------------------
(* A fact reaches its slot: the waiters and the command of the fact go     *)
(* where the reduction puts them.                                          *)
LEMMA SubmitHand ==
  ASSUME IInv, WInv, HandInv, NEW c \in calls, Submit(c)
  PROVE  HandInv'
<1> DEFINE r == Reduce(slots[c.slot], c.event)
           m == Call(c.by, "interpret", c.slot, NoEvent)
<1>0. TypeOK
  BY DEF IInv
<1>1. PICK u : u = c.slot
  OBVIOUS
<1>2. PICK e : e = c.event
  OBVIOUS
<1>3. /\ c.at = "submit" /\ u \in 1 .. lastId /\ u \in ActivationIds /\ e \in Events
      /\ slots[u] \in SlotType
  <2>1. c \in CallType /\ c.at = "submit"
    BY <1>0 DEF TypeOK, Submit
  <2> QED BY <1>0, <1>1, <1>2, <2>1, CallFields, IssuedIds DEF TypeOK
<1>4. /\ slots' = [slots EXCEPT ![u] = r.slot]
      /\ outputs' = [outputs EXCEPT ![u] = outputs[u] \o Batches(r.effects)]
      /\ calls' = (calls \ {c}) \cup {m}
      /\ UNCHANGED <<tasks, future, answer, lost>>
  BY <1>1 DEF Submit, Moved
<1>5. m.event = NoEvent
  BY DEF Call
<1>6. \A d \in Conveyed(e) : d \in Dispatches /\ Only(d, "called", c) /\ ~ Waits(slots[u], d)
  <2> SUFFICES ASSUME NEW d \in Conveyed(e)
               PROVE  d \in Dispatches /\ Only(d, "called", c) /\ ~ Waits(slots[u], d)
    OBVIOUS
  <2>1. d \in Dispatches
    BY <1>3, ConveyedBy
  <2>2. At(d, "called", c)
    BY <1>2 DEF At
  <2>3. Only(d, "called", c)
    BY <2>1, <2>2, HandOnly DEF HandInv
  <2>4. ~ At(d, "waiting", u)
    BY <2>3 DEF Only
  <2> QED BY <1>3, <2>1, <2>3, <2>4 DEF At, Waits
<1>7. PassesOn(slots[u], e, r) /\ r.effects \in Seq(EffectType)
  <2>1. slots[u].phase # "Inactive" => slots[u].id \in ActivationIds
    BY <1>3 DEF IInv, OneLiveIncarnation, Live
  <2>2. (slots[u].waiters # << >> => slots[u].phase = "Activating") /\ IsInjective(slots[u].waiters)
    BY <1>3 DEF WInv, WaiterSeats
  <2>3. PassesOn(slots[u], e, Reduce(slots[u], e))
    BY <1>3, <1>6, <2>1, <2>2, ReducePassesOn
  <2>4. Outcome(slots[u], Reduce(slots[u], e))
    BY <1>0, <1>3, <2>1, IssuedIds, ReduceOutcome
  <2> QED BY <1>1, <1>2, <2>3, <2>4 DEF Outcome
<1> HIDE DEF r, m
<1>8. /\ slots'[u] = r.slot /\ outputs'[u] = outputs[u] \o Batches(r.effects)
      /\ \A s \in ActivationIds \ {u} : slots'[s] = slots[s] /\ outputs'[s] = outputs[s]
  BY <1>0, <1>3, <1>4 DEF TypeOK
<1>9. outputs[u] \in Seq(Seq(EffectType) \ {<< >>})
  BY <1>0, <1>3 DEF TypeOK
<1>10. \A d : /\ InQueue(outputs'[u], d) <=> InQueue(outputs[u], d) \/ InBatch(r.effects, d)
              /\ OnceInQueue(outputs[u], d) /\ OnceInBatch(r.effects, d)
                   /\ ~ (InQueue(outputs[u], d) /\ InBatch(r.effects, d))
                   => OnceInQueue(outputs'[u], d)
  BY <1>7, <1>8, <1>9, QueueExtended
<1>11. \A d : \A b \in calls' : d \in Conveyed(b.event) => b \in calls /\ b # c
  BY <1>4, <1>5, IdleEvents
(* A command this step does not touch.                                     *)
<1>12. ASSUME NEW d \in Dispatches, ~ Waits(slots[u], d), d \notin Conveyed(e)
       PROVE  Hand(d)' /\ ~ InBatch(r.effects, d)
  <2>1. ~ Waits(r.slot, d) /\ ~ InBatch(r.effects, d)
    BY <1>7, <1>12 DEF PassesOn
  <2>2. \A s \in ActivationIds :
          /\ d \in Range(slots'[s].waiters) <=> d \in Range(slots[s].waiters)
          /\ InQueue(outputs'[s], d) <=> InQueue(outputs[s], d)
    BY <1>8, <1>10, <1>12, <2>1 DEF Waits
  <2>3. \A b : d \in Conveyed(b.event) => (b \in calls' <=> b \in calls)
    BY <1>2, <1>4, <1>5, <1>12, IdleEvents
  <2>4. \A k, x : At(d, k, x)' <=> At(d, k, x)
    BY <1>4, <2>2, <2>3 DEF At
  <2> QED BY <1>4, <2>1, <2>4, HandKept DEF HandInv
(* A command this step takes over.                                         *)
<1>13. ASSUME NEW d \in Dispatches, Waits(slots[u], d) \/ d \in Conveyed(e)
       PROVE  Hand(d)' /\ ~ InQueue(outputs[u], d)
  <2>1. PICK k, x : /\ Only(d, k, x) /\ future[d] # "none" /\ d \notin lost
                    /\ \/ k = "waiting" /\ x = u
                       \/ k = "called" /\ x = c
    <3>1. CASE Waits(slots[u], d)
      <4>1. At(d, "waiting", u)
        BY <1>3, <3>1 DEF At, Waits
      <4> QED BY <4>1, HandOnly DEF HandInv
    <3>2. CASE d \in Conveyed(e)
      <4>1. At(d, "called", c)
        BY <1>2, <3>2 DEF At
      <4> QED BY <4>1, HandOnly DEF HandInv
    <3> QED BY <1>13, <3>1, <3>2
  <2>2. /\ \A s \in ActivationIds : (d \in Range(slots[s].waiters) => s = u) /\ ~ InQueue(outputs[s], d)
        /\ \A b \in calls : d \in Conveyed(b.event) => b = c
        /\ \A t \in tasks : ~ (t.type = "Deliver" /\ t.d = d)
        /\ answer[d] = "Awaiting"
    BY <2>1 DEF Only, At
  <2>3. /\ ~ (Waits(r.slot, d) /\ InBatch(r.effects, d))
        /\ \/ Waits(r.slot, d) \/ InBatch(r.effects, d)
           \/ e.trigger = "CancelWaiter" /\ e.d = d
    BY <1>7, <1>13 DEF PassesOn
  <2>4. /\ \A s \in ActivationIds : d \in Range(slots'[s].waiters) <=> s = u /\ Waits(r.slot, d)
        /\ \A s \in ActivationIds : InQueue(outputs'[s], d) <=> s = u /\ InBatch(r.effects, d)
    BY <1>3, <1>8, <1>10, <2>2 DEF Waits
  <2>5. \A j, y : At(d, j, y)' => /\ y = u
                                  /\ \/ j = "waiting" /\ Waits(r.slot, d)
                                     \/ j = "queued" /\ InBatch(r.effects, d)
    BY <1>4, <1>11, <2>2, <2>4 DEF At
  <2>6. CASE Waits(r.slot, d)
    <3>1. At(d, "waiting", u)'
      BY <1>3, <2>4, <2>6 DEF At
    <3> QED BY <1>4, <2>1, <2>2, <1>3, <2>3, <2>5, <2>6, <3>1, HandMoved
  <2>7. CASE InBatch(r.effects, d)
    <3>1. At(d, "queued", u)'
      BY <1>3, <2>4, <2>7 DEF At
    <3> QED BY <1>4, <2>1, <2>2, <1>3, <2>3, <2>5, <2>7, <3>1, HandMoved
  <2>8. CASE ~ Waits(r.slot, d) /\ ~ InBatch(r.effects, d)
    <3>1. e.trigger = "CancelWaiter" /\ e.d = d
      BY <2>3, <2>8
    <3>2. future[d] = "dropped"
      BY <1>2, <3>1 DEF HandInv, CancellationsDropped
    <3>3. \A j, y : ~ At(d, j, y)'
      BY <2>5, <2>8
    <3> QED BY <1>3, <1>4, <2>2, <3>2, <3>3, HandLost
  <2> QED BY <2>6, <2>7, <2>8
<1>14. QueuedOnce'
  <2> SUFFICES ASSUME NEW d \in Dispatches, NEW s \in ActivationIds
               PROVE  OnceInQueue(outputs'[s], d)
    BY DEF QueuedOnce
  <2>1. OnceInQueue(outputs[s], d) /\ OnceInQueue(outputs[u], d)
    BY <1>3 DEF HandInv, QueuedOnce
  <2>2. OnceInBatch(r.effects, d)
    BY <1>7 DEF PassesOn
  <2>3. ~ (InQueue(outputs[u], d) /\ InBatch(r.effects, d))
    BY <1>12, <1>13
  <2> QED BY <1>8, <1>10, <2>1, <2>2, <2>3
<1>15. CancellationsDropped'
  BY <1>4, <1>5, IdleEvents DEF HandInv, CancellationsDropped
<1> QED BY <1>12, <1>13, <1>14, <1>15 DEF HandInv

(* The effect an interpreter takes, and the queue it leaves.               *)
LEMMA TakenEffect ==
  ASSUME TypeOK, NEW s \in ActivationIds, outputs[s] # << >>, NEW d \in Dispatches,
         HandInv
  PROVE  LET q == outputs[s]
             fx == Head(Batch(s))
             left == Batches(Tail(Batch(s))) \o Tail(q)
         IN  /\ fx \in EffectType
             /\ InQueue(q, d) <=> Carries(fx, d) \/ InQueue(left, d)
             /\ InQueue(q, d) <=> InBatch(Batch(s), d) \/ InQueue(Tail(q), d)
             /\ OnceInQueue(left, d) /\ OnceInQueue(Tail(q), d)
             /\ Carries(fx, d) => ~ InQueue(left, d)
             /\ InBatch(Batch(s), d) => ~ InQueue(Tail(q), d)
             /\ Carries(fx, d) => InBatch(Batch(s), d)
             /\ InBatch(Batch(s), d) <=> d \in Carried(Batch(s))
<1>1. outputs[s] \in Seq(Seq(EffectType) \ {<< >>}) /\ OnceInQueue(outputs[s], d)
  BY DEF TypeOK, HandInv, QueuedOnce
<1>2. PICK q : q = outputs[s]
  OBVIOUS
<1>3. q \in Seq(Seq(EffectType) \ {<< >>}) /\ q # << >> /\ OnceInQueue(q, d)
  BY <1>1, <1>2
<1>4. Head(q) \in Seq(EffectType) /\ Head(q) # << >> /\ Head(Head(q)) \in EffectType
  BY <1>3, QueueTyped
<1>5. Carries(Head(Head(q)), d) => InBatch(Head(q), d)
  BY <1>4, BatchSplit
<1>6. InBatch(Head(q), d) <=> d \in Carried(Head(q))
  BY DEF InBatch, Carried, Carries, Range
<1>7. /\ InQueue(q, d) <=> Carries(Head(Head(q)), d) \/ InQueue(Batches(Tail(Head(q))) \o Tail(q), d)
      /\ InQueue(q, d) <=> InBatch(Head(q), d) \/ InQueue(Tail(q), d)
      /\ OnceInQueue(Batches(Tail(Head(q))) \o Tail(q), d) /\ OnceInQueue(Tail(q), d)
      /\ Carries(Head(Head(q)), d) => ~ InQueue(Batches(Tail(Head(q))) \o Tail(q), d)
      /\ InBatch(Head(q), d) => ~ InQueue(Tail(q), d)
  BY <1>3, QueueTaken
<1> QED BY <1>2, <1>4, <1>5, <1>6, <1>7 DEF Batch

LEMMA ApplyHand ==
  ASSUME TypeOK, HandInv, NEW c \in calls, ApplyEffect(c)
  PROVE  HandInv'
<1> DEFINE left == Batches(Tail(Batch(c.slot))) \o Tail(outputs[c.slot])
<1>1. PICK u : u = c.slot
  OBVIOUS
<1>2. PICK fx : fx = Head(Batch(u))
  OBVIOUS
<1>3. u \in ActivationIds /\ outputs[u] # << >>
  <2>1. c \in CallType /\ c.at = "own"
    BY DEF TypeOK, ApplyEffect
  <2> QED BY <1>1, <2>1, CallFields, IssuedIds DEF ApplyEffect
<1>4. /\ outputs' = [outputs EXCEPT ![u] = left]
      /\ tasks' = tasks \cup Started(<< fx >>)
      /\ Complete(Refused(<< fx >>), "Refused")
      /\ Wake /\ UNCHANGED <<slots, calls, lost>>
  BY <1>1, <1>2 DEF ApplyEffect, history
<1>5. /\ outputs'[u] = left
      /\ \A s \in ActivationIds \ {u} : outputs'[s] = outputs[s]
  BY <1>3, <1>4 DEF TypeOK
<1>6. \A d \in Dispatches :
        /\ InQueue(outputs[u], d) <=> Carries(fx, d) \/ InQueue(left, d)
        /\ OnceInQueue(left, d)
        /\ Carries(fx, d) => ~ InQueue(left, d)
  BY <1>1, <1>2, <1>3, TakenEffect
<1> HIDE DEF left
<1>7. \A d \in Dispatches : FutureGoesOn(d)
  BY <1>4, WakeGoesOn
<1>8. \A t : t \in tasks' <=> t \in tasks \/ (t = fx /\ fx.type \in Asynchronous)
  <2>1. Started(<< fx >>) = IF fx.type \in Asynchronous THEN {fx} ELSE {}
    BY StartedOne
  <2> QED BY <1>4, <2>1
<1>9. ASSUME NEW d \in Dispatches PROVE Hand(d)'
  <2>1. CASE ~ Carries(fx, d)
    <3>1. answer'[d] = answer[d]
      BY <1>4, <2>1, StartedOne DEF Complete, Carries
    <3>2. \A s \in ActivationIds : InQueue(outputs'[s], d) <=> InQueue(outputs[s], d)
      BY <1>3, <1>5, <1>6, <2>1
    <3>3. \A t : t.type = "Deliver" /\ t.d = d => (t \in tasks' <=> t \in tasks)
      BY <1>8, <2>1 DEF Carries
    <3>4. \A k, x : At(d, k, x)' <=> At(d, k, x)
      BY <1>4, <3>1, <3>2, <3>3 DEF At
    <3> QED BY <1>4, <1>7, <3>4, HandKept DEF HandInv, FutureGoesOn
  <2>2. CASE Carries(fx, d)
    <3>1. At(d, "queued", u)
      BY <1>3, <1>6, <2>2 DEF At
    <3>2. Only(d, "queued", u) /\ future[d] # "none" /\ d \notin lost
      BY <3>1, HandOnly DEF HandInv
    <3>3. /\ \A s \in ActivationIds : d \notin Range(slots[s].waiters) /\ (InQueue(outputs[s], d) => s = u)
          /\ \A b \in calls : d \notin Conveyed(b.event)
          /\ \A t \in tasks : ~ (t.type = "Deliver" /\ t.d = d)
          /\ answer[d] = "Awaiting"
      BY <3>2 DEF Only, At
    <3>4. \A s \in ActivationIds : ~ InQueue(outputs'[s], d)
      BY <1>3, <1>5, <1>6, <2>2, <3>3
    <3>5. future'[d] # "none" /\ d \notin lost'
      BY <1>4, <1>7, <3>2 DEF FutureGoesOn
    <3>6. CASE fx.type = "Deliver"
      <4>1. answer'[d] = answer[d]
        BY <1>4, <3>6, StartedOne DEF Complete
      <4>2. fx \in tasks' /\ fx.d = d
        BY <1>8, <2>2, <3>6 DEF Carries, Asynchronous
      <4>3. At(d, "spawned", fx)' /\ \A j, y : At(d, j, y)' => j = "spawned" /\ y = fx
        BY <1>4, <1>8, <3>3, <3>4, <3>6, <4>1, <4>2 DEF At
      <4> QED BY <3>5, <4>3, HandMoved
    <3>7. CASE fx.type = "Reject"
      <4>1. answer'[d] = "Refused"
        BY <1>4, <2>2, <3>3, <3>7, StartedOne DEF Complete, Carries
      <4>2. \A t \in tasks' : ~ (t.type = "Deliver" /\ t.d = d)
        BY <1>8, <3>3, <3>7
      <4>3. At(d, "settled", "Refused")' /\ \A j, y : At(d, j, y)' => j = "settled" /\ y = "Refused"
        BY <1>4, <3>3, <3>4, <4>1, <4>2 DEF At
      <4> QED BY <3>5, <4>3, HandMoved
    <3> QED BY <2>2, <3>6, <3>7 DEF Carries
  <2> QED BY <2>1, <2>2
<1>10. QueuedOnce'
  BY <1>3, <1>5, <1>6 DEF HandInv, QueuedOnce
<1>11. CancellationsDropped'
  BY <1>4, <1>7, CancelFields DEF HandInv, CancellationsDropped, FutureGoesOn
<1> QED BY <1>9, <1>10, <1>11 DEF HandInv

(* A panic answers the caller of the rejection it unwinds from, and takes  *)
(* the rest of the batch with it.                                          *)
LEMMA PanicHand ==
  ASSUME TypeOK, HandInv, NEW c \in calls, InterpreterPanics(c)
  PROVE  HandInv'
<1>1. PICK u : u = c.slot
  OBVIOUS
<1>2. PICK fx : fx = Head(Batch(u))
  OBVIOUS
<1>3. c \in CallType /\ c.at = "own" /\ u \in ActivationIds /\ outputs[u] # << >>
  <2>1. c \in CallType /\ c.at = "own"
    BY DEF TypeOK, InterpreterPanics
  <2> QED BY <1>1, <2>1, CallFields, IssuedIds DEF InterpreterPanics
<1>4. /\ outputs' = [outputs EXCEPT ![u] = Tail(outputs[u])]
      /\ lost' = lost \cup (Carried(Batch(u)) \ Refused(<< fx >>))
      /\ Complete(Refused(<< fx >>), "Refused")
      /\ calls' = calls \ {c} /\ UNCHANGED <<slots, tasks>>
  BY <1>1, <1>2 DEF InterpreterPanics
<1>5. /\ outputs'[u] = Tail(outputs[u])
      /\ \A s \in ActivationIds \ {u} : outputs'[s] = outputs[s]
  BY <1>3, <1>4 DEF TypeOK
<1>6. \A d \in Dispatches :
        /\ InQueue(outputs[u], d) <=> d \in Carried(Batch(u)) \/ InQueue(outputs'[u], d)
        /\ OnceInQueue(outputs'[u], d)
        /\ d \in Carried(Batch(u)) => ~ InQueue(outputs'[u], d)
        /\ Carries(fx, d) => d \in Carried(Batch(u))
  BY <1>2, <1>3, <1>5, TakenEffect
<1>7. \A d \in Dispatches : FutureGoesOn(d)
  BY UnwindGoesOn
<1>8. \A d : \A b : d \in Conveyed(b.event) => (b \in calls' <=> b \in calls)
  <2>1. c.event = NoEvent
    BY <1>3, CancelFields
  <2> QED BY <1>4, <2>1, IdleEvents
<1>9. ASSUME NEW d \in Dispatches PROVE Hand(d)'
  <2>1. CASE d \notin Carried(Batch(u))
    <3>1. answer'[d] = answer[d]
      <4>1. ~ Carries(fx, d)
        BY <1>6, <2>1
      <4> QED BY <1>4, <4>1, StartedOne DEF Complete, Carries
    <3>2. \A s \in ActivationIds : InQueue(outputs'[s], d) <=> InQueue(outputs[s], d)
      BY <1>3, <1>5, <1>6, <2>1
    <3>3. \A k, x : At(d, k, x)' <=> At(d, k, x)
      BY <1>4, <1>8, <3>1, <3>2 DEF At
    <3>4. d \in lost <=> d \in lost'
      BY <1>4, <2>1
    <3> QED BY <1>7, <3>3, <3>4, HandKept DEF HandInv, FutureGoesOn
  <2>2. CASE d \in Carried(Batch(u))
    <3>1. At(d, "queued", u)
      BY <1>3, <1>6, <2>2 DEF At
    <3>2. Only(d, "queued", u) /\ future[d] # "none" /\ d \notin lost
      BY <3>1, HandOnly DEF HandInv
    <3>3. /\ \A s \in ActivationIds : d \notin Range(slots[s].waiters) /\ (InQueue(outputs[s], d) => s = u)
          /\ \A b \in calls : d \notin Conveyed(b.event)
          /\ \A t \in tasks : ~ (t.type = "Deliver" /\ t.d = d)
          /\ answer[d] = "Awaiting"
      BY <3>2 DEF Only, At
    <3>4. \A s \in ActivationIds : ~ InQueue(outputs'[s], d)
      BY <1>3, <1>5, <1>6, <2>2, <3>3
    <3>5. future'[d] # "none"
      BY <1>7, <3>2 DEF FutureGoesOn
    <3>6. CASE d \in Refused(<< fx >>)
      <4>1. answer'[d] = "Refused" /\ d \notin lost'
        BY <1>4, <3>2, <3>3, <3>6 DEF Complete
      <4>2. At(d, "settled", "Refused")' /\ \A j, y : At(d, j, y)' => j = "settled" /\ y = "Refused"
        BY <1>4, <1>8, <3>3, <3>4, <4>1 DEF At
      <4> QED BY <3>5, <4>1, <4>2, HandMoved
    <3>7. CASE d \notin Refused(<< fx >>)
      <4>1. answer'[d] = "Awaiting" /\ d \in lost'
        BY <1>4, <2>2, <3>3, <3>7 DEF Complete
      <4>2. \A j, y : ~ At(d, j, y)'
        BY <1>4, <1>8, <3>3, <3>4, <4>1 DEF At
      <4> QED BY <3>5, <4>1, <4>2, HandLost
    <3> QED BY <3>6, <3>7
  <2> QED BY <2>1, <2>2
<1>10. QueuedOnce'
  BY <1>3, <1>5, <1>6 DEF HandInv, QueuedOnce
<1>11. CancellationsDropped'
  BY <1>4, <1>7, CancelFields DEF HandInv, CancellationsDropped, FutureGoesOn
<1> QED BY <1>9, <1>10, <1>11 DEF HandInv

-----------------------------------------------------------------------------
LEMMA InitHand == Init => HandInv
<1> SUFFICES ASSUME Init PROVE HandInv
  OBVIOUS
<1>1. /\ \A s \in ActivationIds : Range(slots[s].waiters) = {} /\ outputs[s] = << >>
      /\ tasks = {} /\ calls = {} /\ lost = {}
  BY NoWaiters DEF Init, Inactive, Slot
<1>2. \A d : ~ InQueue(<< >>, d) /\ OnceInQueue(<< >>, d)
  BY QueueOfBatches
<1>3. ASSUME NEW d \in Dispatches PROVE Hand(d)
  <2>1. answer[d] = "Awaiting" /\ future[d] = "none"
    BY DEF Init
  <2>2. \A k, x : ~ At(d, k, x)
    BY <1>1, <1>2, <2>1 DEF At
  <2> QED BY <1>1, <2>1, <2>2 DEF Hand, Nowhere
<1> QED BY <1>1, <1>2, <1>3 DEF HandInv, QueuedOnce, CancellationsDropped

LEMMA NextHand == IInv /\ WInv /\ HandInv /\ [Next]_vars => HandInv'
<1> SUFFICES ASSUME IInv, WInv, HandInv, [Next]_vars PROVE HandInv'
  OBVIOUS
<1>0. TypeOK
  BY DEF IInv
<1>1. CASE UNCHANGED vars
  <2>1. UNCHANGED <<slots, outputs, tasks, answer, lost, calls, future>>
    BY <1>1 DEF vars, directory, history
  <2> QED BY <1>0, <2>1, CancelFields, PlacesUnmoved DEF FutureGoesOn
<1>2. CASE \E c \in calls : Proceeds(c) \/ InterpreterPanics(c)
  BY <1>0, <1>2, FindsHand, SubmitHand, QuietHand, ApplyHand, PanicHand DEF Proceeds
<1>3. CASE \E n \in Entities :
             \/ \E d \in Dispatches :
                  DispatchMapped(d, n) \/ DispatchAbsent(d, n) \/ DispatchExhausted(d, n)
             \/ \E p \in Passivations : PassivateReads(p, n)
  BY <1>0, <1>3, MappedHand, AbsentHand, ExhaustedHand, PassivateHand
<1>4. CASE \E d \in Dispatches : Poll(d) \/ DropFuture(d)
  BY <1>0, <1>4, PollHand, DropHand
<1>5. CASE \E id \in ActivationIds :
             \/ ActivationReports(id) \/ FenceReports(id)
             \/ \E d \in Dispatches : DeliveryAccepted(id, d) \/ DeliveryRefused(id, d)
             \/ \E mode \in Modes : RetirementReports(id, mode)
  BY <1>0, <1>5, TaskHand, AcceptedHand
<1> QED BY <1>1, <1>2, <1>3, <1>4, <1>5 DEF Next

(* The places CommandInOneHand counts, each within a place of the proofs.  *)
Within(d, p, k, x) ==
  /\ At(d, k, x)
  /\ \/ k = "waiting" /\ \E i \in DOMAIN slots[x].waiters :
          slots[x].waiters[i] = d /\ p = << "waiting", x, i >>
     \/ k = "queued" /\ \E b \in DOMAIN outputs[x] : \E i \in DOMAIN outputs[x][b] :
          Carries(outputs[x][b][i], d) /\ p = << "queued", x, b, i >>
     \/ k \in {"called", "spawned", "settled"} /\ p = << k, x >>

LEMMA PlacesAre ==
  ASSUME NEW d, NEW z
  PROVE  z \in Places(d) <=>
           \/ \E s \in ActivationIds : \E i \in DOMAIN slots[s].waiters :
                slots[s].waiters[i] = d /\ z = << "waiting", s, i >>
           \/ \E s \in ActivationIds : \E b \in DOMAIN outputs[s] :
                \E i \in Carrying(outputs[s][b], d) : z = << "queued", s, b, i >>
           \/ \E c \in calls : d \in Conveyed(c.event) /\ z = << "called", c >>
           \/ \E t \in tasks : t.type = "Deliver" /\ t.d = d /\ z = << "spawned", t >>
           \/ \E a \in {answer[d]} \ {"Awaiting"} : z = << "settled", a >>
<1>1. z \in Seats(d) <=> \E s \in ActivationIds : \E i \in DOMAIN slots[s].waiters :
                           slots[s].waiters[i] = d /\ z = << "waiting", s, i >>
  BY DEF Seats
<1>2. z \in InOutputs(d) <=> \E s \in ActivationIds : \E b \in DOMAIN outputs[s] :
                           \E i \in Carrying(outputs[s][b], d) : z = << "queued", s, b, i >>
  BY DEF InOutputs
<1>3. z \in Conveyors(d) <=> \E c \in calls : d \in Conveyed(c.event) /\ z = << "called", c >>
  BY DEF Conveyors
<1>4. z \in Deliverers(d) <=>
        \E t \in tasks : t.type = "Deliver" /\ t.d = d /\ z = << "spawned", t >>
  BY DEF Deliverers
<1>5. z \in Settlements(d) <=> \E a \in {answer[d]} \ {"Awaiting"} : z = << "settled", a >>
  BY DEF Settlements
<1> QED BY <1>1, <1>2, <1>3, <1>4, <1>5 DEF Places

LEMMA PlacesWithin ==
  ASSUME NEW d, NEW p
  PROVE  p \in Places(d) <=> \E k, x : Within(d, p, k, x)
<1>1. ASSUME NEW s \in ActivationIds, NEW i \in DOMAIN slots[s].waiters,
             slots[s].waiters[i] = d, p = << "waiting", s, i >>
      PROVE  Within(d, p, "waiting", s)
  BY <1>1 DEF Within, At, Range
<1>2. ASSUME NEW s \in ActivationIds, NEW b \in DOMAIN outputs[s],
             NEW i \in Carrying(outputs[s][b], d), p = << "queued", s, b, i >>
      PROVE  Within(d, p, "queued", s)
  <2>1. i \in DOMAIN outputs[s][b] /\ Carries(outputs[s][b][i], d)
    BY DEF Carrying, Carries
  <2>2. At(d, "queued", s)
    BY <2>1 DEF At, InQueue, InBatch
  <2> QED BY <1>2, <2>1, <2>2 DEF Within
<1>3. ASSUME NEW c \in calls, d \in Conveyed(c.event), p = << "called", c >>
      PROVE  Within(d, p, "called", c)
  BY <1>3 DEF Within, At
<1>4. ASSUME NEW t \in tasks, t.type = "Deliver", t.d = d, p = << "spawned", t >>
      PROVE  Within(d, p, "spawned", t)
  BY <1>4 DEF Within, At
<1>5. ASSUME NEW a \in {answer[d]} \ {"Awaiting"}, p = << "settled", a >>
      PROVE  Within(d, p, "settled", a)
  BY <1>5 DEF Within, At
<1>6. ASSUME p \in Places(d) PROVE \E k, x : Within(d, p, k, x)
  <2>1. \/ \E s \in ActivationIds : \E i \in DOMAIN slots[s].waiters :
             slots[s].waiters[i] = d /\ p = << "waiting", s, i >>
        \/ \E s \in ActivationIds : \E b \in DOMAIN outputs[s] :
             \E i \in Carrying(outputs[s][b], d) : p = << "queued", s, b, i >>
        \/ \E c \in calls : d \in Conveyed(c.event) /\ p = << "called", c >>
        \/ \E t \in tasks : t.type = "Deliver" /\ t.d = d /\ p = << "spawned", t >>
        \/ \E a \in {answer[d]} \ {"Awaiting"} : p = << "settled", a >>
    BY <1>6, PlacesAre
  <2> QED BY <2>1, <1>1, <1>2, <1>3, <1>4, <1>5
<1>7. ASSUME NEW k, NEW x, Within(d, p, k, x) PROVE p \in Places(d)
  <2>1. CASE k = "waiting"
    BY <1>7, <2>1, PlacesAre DEF Within, At
  <2>2. CASE k = "queued"
    <3>1. PICK b \in DOMAIN outputs[x] : \E i \in DOMAIN outputs[x][b] :
                 Carries(outputs[x][b][i], d) /\ p = << "queued", x, b, i >>
      BY <1>7, <2>2 DEF Within
    <3>2. PICK i \in DOMAIN outputs[x][b] :
                 Carries(outputs[x][b][i], d) /\ p = << "queued", x, b, i >>
      BY <3>1
    <3>3. x \in ActivationIds /\ i \in Carrying(outputs[x][b], d)
      BY <1>7, <2>2, <3>2 DEF Within, At, Carrying, Carries
    <3> QED BY <3>1, <3>2, <3>3, PlacesAre
  <2>3. CASE k = "called"
    BY <1>7, <2>3, PlacesAre DEF Within, At
  <2>4. CASE k = "spawned"
    BY <1>7, <2>4, PlacesAre DEF Within, At
  <2>5. CASE k = "settled"
    BY <1>7, <2>5, PlacesAre DEF Within, At
  <2> QED BY <1>7, <2>1, <2>2, <2>3, <2>4, <2>5 DEF At, Within
<1> QED BY <1>6, <1>7

(* Every coarse place holds exactly one of the places counted.             *)
LEMMA WithinOnce ==
  ASSUME TypeOK, WInv, HandInv, NEW d \in Dispatches, NEW k, NEW x, At(d, k, x)
  PROVE  /\ \E p : Within(d, p, k, x)
         /\ \A p, q : Within(d, p, k, x) /\ Within(d, q, k, x) => p = q
<1>1. CASE k = "waiting"
  <2>1. x \in ActivationIds /\ \E i \in DOMAIN slots[x].waiters : slots[x].waiters[i] = d
    BY <1>1 DEF At, Range
  <2>2. IsInjective(slots[x].waiters)
    BY <2>1 DEF WInv, WaiterSeats
  <2> QED BY <1>1, <2>1, <2>2 DEF Within, IsInjective
<1>2. CASE k = "queued"
  <2>1. x \in ActivationIds /\ InQueue(outputs[x], d) /\ OnceInQueue(outputs[x], d)
    BY <1>2 DEF At, HandInv, QueuedOnce
  <2>2. \E b \in DOMAIN outputs[x] : \E i \in DOMAIN outputs[x][b] : Carries(outputs[x][b][i], d)
    BY <2>1 DEF InQueue, InBatch
  <2>3. \E p : Within(d, p, k, x)
    BY <1>2, <2>2 DEF Within
  <2>4. ASSUME NEW p, NEW q, Within(d, p, k, x), Within(d, q, k, x) PROVE p = q
    <3>1. PICK b, i :
            /\ b \in DOMAIN outputs[x] /\ i \in DOMAIN outputs[x][b]
            /\ Carries(outputs[x][b][i], d) /\ p = << "queued", x, b, i >>
      BY <1>2, <2>4 DEF Within
    <3>2. PICK a, j :
            /\ a \in DOMAIN outputs[x] /\ j \in DOMAIN outputs[x][a]
            /\ Carries(outputs[x][a][j], d) /\ q = << "queued", x, a, j >>
      BY <1>2, <2>4 DEF Within
    <3>3. a = b
      BY <2>1, <3>1, <3>2 DEF OnceInQueue, InBatch
    <3>4. i = j
      BY <2>1, <3>1, <3>2, <3>3 DEF OnceInQueue, OnceInBatch
    <3> QED BY <3>1, <3>2, <3>3, <3>4
  <2> QED BY <2>3, <2>4
<1>3. CASE k \in {"called", "spawned", "settled"}
  BY <1>3 DEF Within
<1> QED BY <1>1, <1>2, <1>3 DEF At

(* Counted in full, a command is in one hand.                              *)
LEMMA OneHand == TypeOK /\ WInv /\ HandInv => CommandInOneHand
<1> SUFFICES ASSUME TypeOK, WInv, HandInv, NEW d \in Dispatches
             PROVE  CASE future[d] = "none" \/ d \in lost -> Custodians(d) = 0
                      [] future[d] = "dropped" /\ d \notin lost -> Custodians(d) <= 1
                      [] OTHER -> Custodians(d) = 1
  BY DEF CommandInOneHand
<1>1. Hand(d)
  BY DEF HandInv
<1>2. \A p, q \in Places(d) : p = q
  <2> SUFFICES ASSUME NEW p \in Places(d), NEW q \in Places(d) PROVE p = q
    OBVIOUS
  <2>1. PICK k, x : Within(d, p, k, x)
    BY PlacesWithin
  <2>2. PICK j, y : Within(d, q, j, y)
    BY PlacesWithin
  <2>3. At(d, k, x) /\ j = k /\ y = x
    BY <1>1, <2>1, <2>2 DEF Within, Hand
  <2> QED BY <2>1, <2>2, <2>3, WithinOnce
<1>3. (\A k, x : ~ At(d, k, x)) => Places(d) = {}
  BY PlacesWithin DEF Within
<1>4. (\E k, x : At(d, k, x)) => Places(d) # {}
  BY PlacesWithin, WithinOnce
<1>5. Places(d) = {} => Custodians(d) = 0
  BY FS_EmptySet DEF Custodians
<1>6. Places(d) # {} => Custodians(d) = 1
  <2> SUFFICES ASSUME Places(d) # {} PROVE Custodians(d) = 1
    OBVIOUS
  <2>1. PICK p : p \in Places(d)
    OBVIOUS
  <2>2. Places(d) = {p}
    BY <1>2, <2>1
  <2> QED BY <2>2, FS_Singleton DEF Custodians
<1>7. CASE future[d] = "none" \/ d \in lost
  BY <1>1, <1>3, <1>5, <1>7 DEF Hand, Nowhere
<1>8. CASE future[d] = "dropped" /\ d \notin lost
  BY <1>5, <1>6, <1>8
<1>9. CASE future[d] \notin {"none", "dropped"} /\ d \notin lost
  BY <1>1, <1>4, <1>6, <1>9 DEF Hand
<1> QED BY <1>7, <1>8, <1>9

(* End-to-end custody (dispatch, interpret, apply_effect, deliver, reject, *)
(* Completion): however callers, tasks and panics interleave, a command is *)
(* in exactly one place of the directory, the tasks and the completion,    *)
(* unless its caller gave it up or it was lost with an unwound batch.      *)
THEOREM CommandInOneHandHolds == Spec => []CommandInOneHand
<1>1. IInv /\ WInv /\ HandInv => CommandInOneHand
  BY OneHand DEF IInv
<1> QED BY <1>1, InitWaiters, InitHand, NextWaiters, NextHand, Invariance, PTL DEF Spec

-----------------------------------------------------------------------------
(* What a slot waits for is on its way to it.                              *)

(* The facts a task may report when it ends.                               *)
Reports(w) ==
  CASE w.type = "StartActivation" ->
         {[trigger |-> "ActivationSucceeded", id |-> w.id],
          [trigger |-> "ActivationFailed", id |-> w.id]}
    [] w.type = "Deliver" ->
         {[trigger |-> "DeliveryResolved", id |-> w.id, failure |-> f] : f \in {<< >>, << w.d >>}}
    [] w.type = "EnqueueFence" ->
         {[trigger |-> "FenceAcknowledged", id |-> w.id], [trigger |-> "ForceDrain", id |-> w.id]}
    [] w.type = "Retire" -> {[trigger |-> "Terminated", id |-> w.id]}

Errands(s) ==
  {StartActivation(s), EnqueueFence(s)} \cup {Retire(s, mode) : mode \in Modes}
    \cup {Deliver(s, d) : d \in Dispatches}

Queues(q, fx) == \E b \in DOMAIN q : \E i \in DOMAIN q[b] : q[b][i] = fx

(* An errand of slot s is queued there, or runs, or a call carries what it *)
(* reported.                                                               *)
Underway(s, w) ==
  \/ Queues(outputs[s], w)
  \/ w \in tasks
  \/ \E c \in calls : c.by = w /\ c.event \in Reports(w)

(* That many deliveries of s have still to be resolved, at least.          *)
Owed(s, r) ==
  \E ds \in SUBSET Dispatches :
    /\ IsFiniteSet(ds) /\ Cardinality(ds) = r
    /\ \A d \in ds : Underway(s, Deliver(s, d))

Expected(s) ==
  /\ slots[s].phase = "Activating" => Underway(s, StartActivation(s))
  /\ slots[s].phase \in {"Active", "Draining"} => Owed(s, slots[s].reservations)
  /\ slots[s].phase = "Draining" /\ slots[s].reservations = 0 => Underway(s, EnqueueFence(s))
  /\ slots[s].phase = "Retiring" => \E mode \in Modes : Underway(s, Retire(s, mode))
  /\ slots[s].phase = "Inactive" /\ map[home[s]] = s => Queues(outputs[s], RemoveEntry(s))

(* An entry leads to a slot that was created for its entity.               *)
Homes == \A n \in Entities : map[n] # NoActivation => home[map[n]] = n

(* A fact about a live activation was looked up to its own slot.           *)
Routed ==
  \A c \in calls :
    c.at = "submit" /\ c.event.trigger # "Dispatch" /\ Live(c.event.id)
      => c.slot = c.event.id

(* The report of an accepted delivery comes after its caller's answer.     *)
Resolved(id, failure) == [trigger |-> "DeliveryResolved", id |-> id, failure |-> failure]

Answered ==
  \A s \in ActivationIds, d \in Dispatches, c \in calls :
    c.by = Deliver(s, d) /\ c.event = Resolved(s, << >>) => answer[d] # "Awaiting"

(* Until the first panic nothing was lost, a caller that left its waker    *)
(* has no answer yet, and every slot gets what it waits for.               *)
Calm ==
  panics = 0 =>
    /\ abandoned = {} /\ lost = {}
    /\ \A d \in Dispatches : future[d] = "parked" => answer[d] = "Awaiting"
    /\ \A s \in 1 .. lastId : Expected(s)

RestInv == Homes /\ Routed /\ Answered /\ Calm

LEMMA ErrandFields ==
  ASSUME NEW s
  PROVE  /\ StartActivation(s).type = "StartActivation" /\ StartActivation(s).id = s
         /\ EnqueueFence(s).type = "EnqueueFence" /\ EnqueueFence(s).id = s
         /\ RemoveEntry(s).type = "Remove" /\ RemoveEntry(s).id = s
         /\ \A mode : Retire(s, mode).type = "Retire" /\ Retire(s, mode).id = s
         /\ \A d : Deliver(s, d).type = "Deliver" /\ Deliver(s, d).id = s /\ Deliver(s, d).d = d
BY DEF StartActivation, EnqueueFence, RemoveEntry, Retire, Deliver

LEMMA ReportsOf ==
  ASSUME NEW s
  PROVE  /\ Reports(StartActivation(s)) = {[trigger |-> "ActivationSucceeded", id |-> s],
                                           [trigger |-> "ActivationFailed", id |-> s]}
         /\ Reports(EnqueueFence(s)) = {[trigger |-> "FenceAcknowledged", id |-> s],
                                        [trigger |-> "ForceDrain", id |-> s]}
         /\ \A mode : Reports(Retire(s, mode)) = {[trigger |-> "Terminated", id |-> s]}
         /\ \A d : Reports(Deliver(s, d)) = {Resolved(s, << >>), Resolved(s, << d >>)}
<1>1. /\ Reports(StartActivation(s)) = {[trigger |-> "ActivationSucceeded", id |-> s],
                                        [trigger |-> "ActivationFailed", id |-> s]}
      /\ Reports(EnqueueFence(s)) = {[trigger |-> "FenceAcknowledged", id |-> s],
                                     [trigger |-> "ForceDrain", id |-> s]}
      /\ \A mode : Reports(Retire(s, mode)) = {[trigger |-> "Terminated", id |-> s]}
  BY ErrandFields DEF Reports
<1>2. ASSUME NEW d PROVE Reports(Deliver(s, d)) = {Resolved(s, << >>), Resolved(s, << d >>)}
  <2>1. Reports(Deliver(s, d)) = {Resolved(s, f) : f \in {<< >>, << d >>}}
    BY ErrandFields DEF Reports, Resolved
  <2> QED BY <2>1
<1> QED BY <1>1, <1>2

(* A report names the activation of its errand, and says of what kind the  *)
(* errand was.                                                             *)
LEMMA ReportFields ==
  ASSUME NEW s, NEW w \in Errands(s), NEW e \in Reports(w)
  PROVE  /\ e.id = s
         /\ e.trigger \in {"ActivationSucceeded", "ActivationFailed", "DeliveryResolved",
                           "FenceAcknowledged", "ForceDrain", "Terminated"}
         /\ w = StartActivation(s) => e.trigger \in {"ActivationSucceeded", "ActivationFailed"}
         /\ w = EnqueueFence(s) => e.trigger \in {"FenceAcknowledged", "ForceDrain"}
         /\ \A d : w = Deliver(s, d) =>
              e.trigger = "DeliveryResolved" /\ e.failure \in {<< >>, << d >>}
         /\ \A mode : w = Retire(s, mode) => e.trigger = "Terminated"
<1>1. \A d : w = Deliver(s, d) => e.id = s /\ e.trigger = "DeliveryResolved" /\ e.failure \in {<< >>, << d >>}
  BY ReportsOf DEF Resolved
<1>2. w = StartActivation(s) => e.id = s /\ e.trigger \in {"ActivationSucceeded", "ActivationFailed"}
  BY ReportsOf
<1>3. w = EnqueueFence(s) => e.id = s /\ e.trigger \in {"FenceAcknowledged", "ForceDrain"}
  BY ReportsOf
<1>4. \A mode : w = Retire(s, mode) => e.id = s /\ e.trigger = "Terminated"
  BY ReportsOf
<1> QED BY <1>1, <1>2, <1>3, <1>4 DEF Errands

LEMMA ErrandTyped ==
  ASSUME NEW s \in ActivationIds
  PROVE  /\ Errands(s) \subseteq TaskType
         /\ \A w \in Errands(s) : w.type \in Asynchronous
BY ErrandFields DEF Errands, TaskType, Asynchronous

-----------------------------------------------------------------------------
(* What a queue holds.                                                     *)

LEMMA QueuesJoined ==
  ASSUME NEW B, NEW p \in Seq(B), NEW q \in Seq(B), NEW fx
  PROVE  Queues(p \o q, fx) <=> Queues(p, fx) \/ Queues(q, fx)
<1> DEFINE m == Len(p)
           n == Len(q)
           r == p \o q
<1>1. /\ m \in Nat /\ n \in Nat
      /\ DOMAIN p = 1 .. m /\ DOMAIN q = 1 .. n /\ DOMAIN r = 1 .. m + n
      /\ \A b \in 1 .. m : r[b] = p[b]
      /\ \A b \in 1 .. n : r[m + b] = q[b]
  OBVIOUS
<1> HIDE DEF m, n, r
<1>2. \A b \in 1 .. m + n : b \in 1 .. m \/ (b - m \in 1 .. n /\ m + (b - m) = b)
  BY <1>1
<1>3. \A b \in 1 .. n : m + b \in 1 .. m + n
  BY <1>1
<1>4. 1 .. m \subseteq 1 .. m + n
  BY <1>1
<1>5. ASSUME Queues(r, fx) PROVE Queues(p, fx) \/ Queues(q, fx)
  <2>1. PICK b \in 1 .. m + n : \E i \in DOMAIN r[b] : r[b][i] = fx
    BY <1>1, <1>5 DEF Queues
  <2>2. CASE b \in 1 .. m
    BY <1>1, <2>1, <2>2 DEF Queues
  <2>3. CASE b - m \in 1 .. n /\ m + (b - m) = b
    <3>1. r[b] = q[b - m]
      BY <1>1, <2>3
    <3> QED BY <1>1, <2>1, <2>3, <3>1 DEF Queues
  <2> QED BY <1>2, <2>2, <2>3
<1>6. ASSUME Queues(p, fx) PROVE Queues(r, fx)
  <2>1. PICK b \in 1 .. m : \E i \in DOMAIN p[b] : p[b][i] = fx
    BY <1>1, <1>6 DEF Queues
  <2> QED BY <1>1, <1>4, <2>1 DEF Queues
<1>7. ASSUME Queues(q, fx) PROVE Queues(r, fx)
  <2>1. PICK b \in 1 .. n : \E i \in DOMAIN q[b] : q[b][i] = fx
    BY <1>1, <1>7 DEF Queues
  <2>2. r[m + b] = q[b] /\ m + b \in DOMAIN r
    BY <1>1, <1>3
  <2> QED BY <2>1, <2>2 DEF Queues
<1> QED BY <1>5, <1>6, <1>7 DEF r

LEMMA QueuesBatches ==
  ASSUME NEW fxs, NEW fx
  PROVE  /\ Queues(Batches(fxs), fx) <=> fx \in Range(fxs)
         /\ Queues(<< fxs >>, fx) <=> fx \in Range(fxs)
         /\ ~ Queues(<< >>, fx)
<1>1. Queues(<< fxs >>, fx) <=> fx \in Range(fxs)
  <2> DEFINE q == << fxs >>
  <2>1. DOMAIN q = {1} /\ q[1] = fxs
    OBVIOUS
  <2> HIDE DEF q
  <2>2. Queues(q, fx) <=> fx \in Range(fxs)
    BY <2>1 DEF Queues, Range
  <2> QED BY <2>2 DEF q
<1>2. ~ Queues(<< >>, fx)
  BY DEF Queues
<1>3. CASE fxs = << >>
  <2>1. Range(fxs) = {}
    BY <1>3 DEF Range
  <2> QED BY <1>1, <1>2, <1>3, <2>1 DEF Batches
<1>4. CASE fxs # << >>
  BY <1>1, <1>2, <1>4 DEF Batches
<1> QED BY <1>3, <1>4

LEMMA QueuesExtended ==
  ASSUME NEW E, NEW q \in Seq(Seq(E) \ {<< >>}), NEW fxs \in Seq(E), NEW fx
  PROVE  Queues(q \o Batches(fxs), fx) <=> Queues(q, fx) \/ fx \in Range(fxs)
<1>1. Batches(fxs) \in Seq(Seq(E) \ {<< >>})
  BY BatchesTyped
<1> DEFINE B == Seq(E) \ {<< >>}
           g == Batches(fxs)
<1>2. q \in Seq(B) /\ g \in Seq(B)
  BY <1>1
<1> HIDE DEF B, g
<1>3. Queues(q \o g, fx) <=> Queues(q, fx) \/ Queues(g, fx)
  BY <1>2, QueuesJoined
<1> QED BY <1>3, QueuesBatches DEF g

LEMMA QueuesTaken ==
  ASSUME NEW E, NEW q \in Seq(Seq(E) \ {<< >>}), q # << >>, NEW fx
  PROVE  /\ Queues(q, fx) <=>
              fx = Head(Head(q)) \/ Queues(Batches(Tail(Head(q))) \o Tail(q), fx)
         /\ Queues(Tail(q), fx) => Queues(q, fx)
<1> DEFINE B == Seq(E) \ {<< >>}
           h == Head(q)
           t == Tail(q)
           g == Batches(Tail(h))
<1>1. /\ h \in B /\ t \in Seq(B) /\ g \in Seq(B)
  <2>1. h \in B /\ t \in Seq(B)
    BY QueueTyped
  <2>2. Tail(h) \in Seq(E)
    BY <2>1
  <2> HIDE DEF h
  <2> QED BY <2>1, <2>2, BatchesTyped
<1>2. q = << h >> \o t
  OBVIOUS
<1>3. << h >> \in Seq(B)
  <2> HIDE DEF B, h
  <2> QED BY <1>1
<1>4. h \in Seq(E) /\ h # << >>
  BY <1>1
<1> HIDE DEF B, h, t, g
<1>5. Queues(q, fx) <=> Queues(<< h >>, fx) \/ Queues(t, fx)
  <2> DEFINE p == << h >>
  <2> HIDE DEF p
  <2> QED BY <1>1, <1>2, <1>3, QueuesJoined DEF p
<1>6. Queues(g \o t, fx) <=> Queues(g, fx) \/ Queues(t, fx)
  BY <1>1, QueuesJoined
<1>7. fx \in Range(h) => fx = Head(h) \/ fx \in Range(Tail(h))
  <2> SUFFICES ASSUME NEW i \in 1 .. Len(h), fx = h[i] PROVE fx = Head(h) \/ fx \in Range(Tail(h))
    BY <1>4 DEF Range
  <2>1. CASE i = 1
    BY <1>4, <2>1
  <2>2. CASE i # 1
    <3>1. i - 1 \in DOMAIN Tail(h) /\ Tail(h)[i - 1] = h[i]
      BY <1>4, <2>2
    <3> QED BY <3>1 DEF Range
  <2> QED BY <2>1, <2>2
<1>8. fx = Head(h) \/ fx \in Range(Tail(h)) => fx \in Range(h)
  <2>1. 1 \in DOMAIN h /\ h[1] = Head(h)
    BY <1>4
  <2>2. ASSUME NEW i \in DOMAIN Tail(h) PROVE i + 1 \in DOMAIN h /\ h[i + 1] = Tail(h)[i]
    BY <1>4
  <2> QED BY <2>1, <2>2 DEF Range
<1> QED BY <1>5, <1>6, <1>7, <1>8, QueuesBatches DEF g, h, t

-----------------------------------------------------------------------------
(* A step that leaves a slot alone leaves it what it waits for.            *)

LEMMA OwedKept ==
  ASSUME NEW s, \A d \in Dispatches : Underway(s, Deliver(s, d)) => Underway(s, Deliver(s, d))',
         NEW r, Owed(s, r)
  PROVE  Owed(s, r)'
BY DEF Owed

LEMMA ExpectedKept ==
  ASSUME NEW s, slots'[s] = slots[s], Expected(s),
         Live(s) => \A w \in Errands(s) : Underway(s, w) => Underway(s, w)',
         ~ Live(s) /\ map'[home'[s]] = s =>
           map[home[s]] = s /\ (Queues(outputs[s], RemoveEntry(s)) => Queues(outputs'[s], RemoveEntry(s)))
  PROVE  Expected(s)'
<1>1. CASE Live(s)
  <2>1. \A d \in Dispatches : Underway(s, Deliver(s, d)) => Underway(s, Deliver(s, d))'
    BY <1>1 DEF Errands
  <2>2. slots[s].phase \in {"Active", "Draining"} => Owed(s, slots[s].reservations)'
    <3>1. PICK r : r = slots[s].reservations
      OBVIOUS
    <3>2. slots[s].phase \in {"Active", "Draining"} => Owed(s, r)'
      BY <2>1, <3>1, OwedKept DEF Expected
    <3>3. slots'[s].reservations = r
      BY <3>1
    <3> QED BY <3>2, <3>3 DEF Owed
  <2>3. slots[s].phase = "Activating" => Underway(s, StartActivation(s))'
    BY <1>1 DEF Expected, Errands
  <2>4. slots[s].phase = "Draining" /\ slots[s].reservations = 0 => Underway(s, EnqueueFence(s))'
    BY <1>1 DEF Expected, Errands
  <2>5. slots[s].phase = "Retiring" => \E mode \in Modes : Underway(s, Retire(s, mode))'
    BY <1>1 DEF Expected, Errands
  <2> QED BY <1>1, <2>2, <2>3, <2>4, <2>5 DEF Expected, Live
<1>2. CASE ~ Live(s)
  BY <1>2 DEF Expected, Live
<1> QED BY <1>1, <1>2

(* A step that moves no fact of a task on.                                 *)
LEMMA ErrandsUnmoved ==
  ASSUME NEW s, outputs'[s] = outputs[s], tasks \subseteq tasks',
         \A c \in calls \ calls' : c.event.trigger \in {"None", "Dispatch", "CancelWaiter", "BeginDrain"},
         NEW w \in Errands(s), Underway(s, w)
  PROVE  Underway(s, w)'
<1>1. CASE \E c \in calls : c.by = w /\ c.event \in Reports(w)
  <2>1. PICK c \in calls : c.by = w /\ c.event \in Reports(w)
    BY <1>1
  <2>2. c \in calls'
    BY <2>1, ReportFields
  <2> QED BY <2>1, <2>2 DEF Underway
<1> QED BY <1>1 DEF Underway

(* The facts of a step that only touches calls, tasks and callers.         *)
LEMMA RestUnmoved ==
  ASSUME IInv, RestInv, UNCHANGED <<lastId, map, home, slots, outputs, lost, panics>>,
         abandoned' \subseteq abandoned,
         \A s \in 1 .. lastId : \A w \in Errands(s) : Live(s) /\ Underway(s, w) => Underway(s, w)',
         \A c \in calls' \ calls :
           /\ c.at = "submit" /\ c.event.trigger # "Dispatch" => c.slot = map[home[c.event.id]]
                /\ c.event.id \in ActivationIds
           /\ \A s \in ActivationIds, d \in Dispatches :
                c.by = Deliver(s, d) /\ c.event = Resolved(s, << >>) => answer'[d] # "Awaiting",
         \A d \in Dispatches :
           /\ answer[d] # "Awaiting" => answer'[d] # "Awaiting"
           /\ panics = 0 /\ future'[d] = "parked" => answer'[d] = "Awaiting"
  PROVE  RestInv'
<1>1. Homes'
  BY DEF RestInv, Homes
<1>2. Routed'
  <2> SUFFICES ASSUME NEW c \in calls', c.at = "submit", c.event.trigger # "Dispatch", Live(c.event.id)
               PROVE  c.slot = c.event.id
    BY DEF Routed, Live
  <2>1. CASE c \in calls
    BY <2>1 DEF RestInv, Routed
  <2>2. CASE c \notin calls
    <3>1. c.slot = map[home[c.event.id]] /\ c.event.id \in ActivationIds
      BY <2>2
    <3>2. c.event.id \in 1 .. lastId
      BY <3>1, IssuedIds DEF IInv, Unissued, ActivationIds
    <3> QED BY <3>1, <3>2 DEF IInv, OneLiveIncarnation
  <2> QED BY <2>1, <2>2
<1>3. Answered'
  <2> SUFFICES ASSUME NEW s \in ActivationIds, NEW d \in Dispatches, NEW c \in calls',
                      c.by = Deliver(s, d), c.event = Resolved(s, << >>)
               PROVE  answer'[d] # "Awaiting"
    BY DEF Answered
  <2>1. CASE c \in calls
    BY <2>1 DEF RestInv, Answered
  <2>2. CASE c \notin calls
    BY <2>2
  <2> QED BY <2>1, <2>2
<1>4. Calm'
  <2> SUFFICES ASSUME panics = 0
               PROVE  /\ abandoned' = {} /\ lost' = {}
                      /\ \A d \in Dispatches : future'[d] = "parked" => answer'[d] = "Awaiting"
                      /\ \A s \in 1 .. lastId : Expected(s)'
    BY DEF Calm
  <2>1. abandoned' = {} /\ lost' = {}
    BY DEF RestInv, Calm
  <2>2. ASSUME NEW s \in 1 .. lastId PROVE Expected(s)'
    <3>1. Expected(s)
      BY DEF RestInv, Calm
    <3> QED BY <3>1, ExpectedKept
  <2> QED BY <2>1, <2>2
<1> QED BY <1>1, <1>2, <1>3, <1>4 DEF RestInv

-----------------------------------------------------------------------------
(* The steps outside the slots.                                            *)

LEMMA IdleCalls ==
  ASSUME NEW c, c.event.trigger \in {"None", "Dispatch", "BeginDrain"}, NEW s, NEW f
  PROVE  c.event # Resolved(s, f)
BY DEF Resolved

LEMMA QuietRest ==
  ASSUME IInv, RestInv, NEW c \in calls, Interpret(c) \/ Release(c)
  PROVE  RestInv'
<1>1. /\ UNCHANGED <<lastId, map, home, slots, outputs, tasks, answer, future, lost, panics>>
      /\ abandoned' \subseteq abandoned
  BY DEF Interpret, Release, history
<1>2. c.event = NoEvent /\ NoEvent.trigger = "None"
  BY CancelFields DEF Interpret, Release, IInv, NoEvent
<1>3. calls' = calls \ {c} \/ \E b : b.event = NoEvent /\ b.at = "own" /\ calls' = (calls \ {c}) \cup {b}
  <2>1. \A by, s : Call(by, "own", s, NoEvent).at = "own" /\ Call(by, "own", s, NoEvent).event = NoEvent
    BY DEF Call
  <2> QED BY <2>1 DEF Interpret, Release, Moved
<1>4. \A b \in calls \ calls' : b.event.trigger = "None"
  BY <1>2, <1>3
<1>5. \A b \in calls' \ calls : b.at = "own" /\ b.event.trigger = "None"
  BY <1>2, <1>3
<1>6. \A s \in 1 .. lastId : \A w \in Errands(s) : Underway(s, w) => Underway(s, w)'
  BY <1>1, <1>4, ErrandsUnmoved
<1> QED BY <1>1, <1>5, <1>6, IdleCalls, RestUnmoved DEF RestInv, Calm

LEMMA PollRest ==
  ASSUME IInv, RestInv, NEW d \in Dispatches, Poll(d)
  PROVE  RestInv'
<1>1. /\ UNCHANGED <<lastId, map, home, slots, outputs, abandoned, tasks, calls, answer, lost, panics>>
      /\ future' = [future EXCEPT ![d] = IF answer[d] = "Awaiting" THEN "parked" ELSE "done"]
  BY DEF Poll, directory, history
<1>2. \A x \in Dispatches : future'[x] = "parked" => future[x] = "parked" \/ answer[x] = "Awaiting"
  BY <1>1 DEF IInv, TypeOK
<1>3. \A s \in 1 .. lastId : \A w \in Errands(s) : Underway(s, w) => Underway(s, w)'
  BY <1>1, ErrandsUnmoved
<1> QED BY <1>1, <1>2, <1>3, RestUnmoved DEF RestInv, Calm

LEMMA PassivateRest ==
  ASSUME IInv, RestInv, NEW p \in Passivations, NEW n \in Entities, PassivateReads(p, n)
  PROVE  RestInv'
<1> DEFINE e == [trigger |-> "BeginDrain", id |-> slots[map[n]].id]
           m == Call(p, "find", NoActivation, e)
<1>1. /\ UNCHANGED <<lastId, map, home, slots, outputs, abandoned, tasks, answer, future, lost, panics>>
      /\ calls' = calls \cup {m}
  BY DEF PassivateReads, directory, history
<1>2. m.at = "find" /\ m.event.trigger = "BeginDrain"
  BY DEF Call
<1> HIDE DEF m
<1>3. \A s \in 1 .. lastId : \A w \in Errands(s) : Underway(s, w) => Underway(s, w)'
  BY <1>1, ErrandsUnmoved
<1>4. \A b \in calls' \ calls : b.at = "find" /\ b.event.trigger = "BeginDrain"
  BY <1>1, <1>2
<1> QED BY <1>1, <1>3, <1>4, IdleCalls, RestUnmoved DEF RestInv, Calm

LEMMA MappedRest ==
  ASSUME IInv, RestInv, NEW d \in Dispatches, NEW n \in Entities, DispatchMapped(d, n)
  PROVE  RestInv'
<1> DEFINE m == Call(d, "submit", map[n], [trigger |-> "Dispatch", d |-> d])
<1>1. /\ UNCHANGED <<lastId, map, home, slots, outputs, abandoned, tasks, answer, lost, panics>>
      /\ calls' = calls \cup {m}
      /\ future' = [future EXCEPT ![d] = "polled"]
  BY DEF DispatchMapped, directory, history
<1>2. m.event.trigger = "Dispatch"
  BY DEF Call
<1> HIDE DEF m
<1>3. \A s \in 1 .. lastId : \A w \in Errands(s) : Underway(s, w) => Underway(s, w)'
  BY <1>1, ErrandsUnmoved
<1>4. \A b \in calls' \ calls : b.event.trigger = "Dispatch"
  BY <1>1, <1>2
<1>5. \A x \in Dispatches : future'[x] = "parked" => future[x] = "parked"
  BY <1>1 DEF IInv, TypeOK
<1> QED BY <1>1, <1>3, <1>4, <1>5, IdleCalls, RestUnmoved DEF RestInv, Calm

LEMMA ExhaustedRest ==
  ASSUME IInv, RestInv, NEW d \in Dispatches, NEW n \in Entities, DispatchExhausted(d, n)
  PROVE  RestInv'
<1>1. /\ UNCHANGED <<lastId, map, home, slots, outputs, abandoned, tasks, calls, lost, panics>>
      /\ future' = [future EXCEPT ![d] = "done"]
      /\ answer' = [answer EXCEPT ![d] = "Exhausted"]
  BY DEF DispatchExhausted, directory, history
<1>2. \A s \in 1 .. lastId : \A w \in Errands(s) : Underway(s, w) => Underway(s, w)'
  BY <1>1, ErrandsUnmoved
<1>3. \A x \in Dispatches :
        /\ future'[x] = "parked" => future[x] = "parked" /\ answer'[x] = answer[x]
        /\ answer[x] # "Awaiting" => answer'[x] # "Awaiting"
  BY <1>1 DEF IInv, TypeOK
<1> QED BY <1>1, <1>2, <1>3, RestUnmoved DEF RestInv, Calm

(* Answers are given once, and wake who waits for them.                    *)
LEMMA AnswersStay ==
  ASSUME NEW d \in Dispatches, NEW ds, NEW result \in {"Ok", "Refused"},
         Complete(ds, result) \/ UNCHANGED answer
  PROVE  answer[d] # "Awaiting" => answer'[d] # "Awaiting"
BY DEF Complete

LEMMA WakeRest ==
  ASSUME RestInv, Wake, NEW d \in Dispatches
  PROVE  panics = 0 /\ future'[d] = "parked" => answer'[d] = "Awaiting"
BY DEF Wake, RestInv, Calm

(* A fact that was looked up is carried on, unless its activation is gone. *)
LEMMA FindRest ==
  ASSUME IInv, RestInv, UNCHANGED directory, UNCHANGED history,
         NEW by, NEW e \in ReportedType, NEW finished, NEW fewer,
         Find(by, e, finished, calls \ fewer),
         \A s \in 1 .. lastId : \A w \in Errands(s) :
           w \in finished \/ (\E c \in fewer : c.by = w /\ c.event \in Reports(w))
             => by = w /\ e \in Reports(w),
         \A s \in ActivationIds, d \in Dispatches :
           by = Deliver(s, d) /\ e = Resolved(s, << >>) => answer[d] # "Awaiting",
         \A d \in Dispatches :
           panics = 0 /\ future'[d] = "parked" => answer'[d] = "Awaiting"
  PROVE  RestInv'
<1> DEFINE m == Call(by, "submit", map[home[e.id]], e)
           r == Reduce(Inactive, e)
<1>0. UNCHANGED <<lastId, map, home, slots, outputs, abandoned, lost, panics>>
  BY DEF directory, history
<1>1. m.by = by /\ m.event = e /\ m.slot = map[home[e.id]]
  BY DEF Call
<1>2. e.id \in ActivationIds /\ e.trigger # "Dispatch"
  BY DEF ReportedType
<1>3. \A d \in Dispatches : answer[d] # "Awaiting" => answer'[d] # "Awaiting"
  <2>1. Complete(Refused(r.effects), "Refused") \/ UNCHANGED answer
    BY DEF Find
  <2> HIDE DEF r
  <2> QED BY <2>1, AnswersStay
<1>4. tasks \ finished \subseteq tasks'
  BY DEF Find
<1>5. calls' = calls \ fewer \/ calls' = (calls \ fewer) \cup {m}
  BY FindCalls
<1>6. map[home[e.id]] # NoActivation => m \in calls'
  BY DEF Find
<1> HIDE DEF m, r
<1>7. ASSUME NEW s \in 1 .. lastId, NEW w \in Errands(s), Live(s), Underway(s, w)
      PROVE  Underway(s, w)'
  <2>1. map[home[s]] = s /\ s # NoActivation
    BY <1>7 DEF IInv, OneLiveIncarnation, NoActivation
  <2>2. CASE by = w /\ e \in Reports(w)
    <3>1. e.id = s
      BY <2>2, ReportFields
    <3> QED BY <1>1, <1>6, <2>1, <2>2, <3>1 DEF Underway
  <2>3. CASE ~ (by = w /\ e \in Reports(w))
    <3>1. w \notin finished /\ \A c \in calls : c.by = w /\ c.event \in Reports(w) => c \in calls'
      BY <1>5, <2>3
    <3>2. outputs' = outputs
      BY <1>0
    <3> QED BY <1>4, <1>7, <3>1, <3>2 DEF Underway
  <2> QED BY <2>2, <2>3
<1>8. \A c \in calls' \ calls : c = m
  BY <1>5
<1> QED BY <1>0, <1>1, <1>2, <1>3, <1>7, <1>8, RestUnmoved

LEMMA ReportRest ==
  ASSUME IInv, RestInv, NEW t, NEW e \in ReportedType, Report(t, e), e \in Reports(t),
         \A s, d : e # Resolved(s, << >>)
  PROVE  RestInv'
<1>0. PICK none, more : none = {} /\ more = {t}
  OBVIOUS
<1>1. calls \ none = calls /\ (\A c \in none : FALSE) /\ (\A w \in more : w = t)
  BY <1>0
<1>2. UNCHANGED directory /\ UNCHANGED history /\ Wake /\ Find(t, e, more, calls)
  BY <1>0 DEF Report
<1>3. Find(t, e, more, calls \ none)
  BY <1>1, <1>2
<1>4. \A d \in Dispatches : panics = 0 /\ future'[d] = "parked" => answer'[d] = "Awaiting"
  BY <1>2, WakeRest
<1>5. \A s \in 1 .. lastId : \A w \in Errands(s) :
        w \in more \/ (\E c \in none : c.by = w /\ c.event \in Reports(w))
          => t = w /\ e \in Reports(w)
  BY <1>1
<1>6. UNCHANGED directory /\ UNCHANGED history
  BY <1>2
<1>7. \A s \in ActivationIds, d \in Dispatches :
        t = Deliver(s, d) /\ e = Resolved(s, << >>) => answer[d] # "Awaiting"
  OBVIOUS
<1>8. Find(t, e, more, calls \ none) /\ UNCHANGED directory /\ UNCHANGED history
  BY <1>3, <1>6
<1>9. IInv /\ RestInv /\ e \in ReportedType
  OBVIOUS
<1> QED BY ONLY <1>4, <1>5, <1>7, <1>8, <1>9, FindRest

LEMMA DeliveryReports ==
  ASSUME NEW s, NEW d
  PROVE  Resolved(s, << >>) \in Reports(Deliver(s, d)) /\ Resolved(s, << d >>) \in Reports(Deliver(s, d))
<1> DEFINE w == Deliver(s, d)
<1>1. Reports(w) = {Resolved(s, << >>), Resolved(s, << d >>)}
  BY ReportsOf
<1> HIDE DEF w
<1>2. Resolved(s, << >>) \in Reports(w) /\ Resolved(s, << d >>) \in Reports(w)
  BY <1>1
<1> QED BY <1>2 DEF w

LEMMA TaskRest ==
  ASSUME IInv, RestInv, NEW id \in ActivationIds,
         \/ ActivationReports(id) \/ FenceReports(id)
         \/ \E d \in Dispatches : DeliveryRefused(id, d)
         \/ \E mode \in Modes : RetirementReports(id, mode)
  PROVE  RestInv'
<1>1. ASSUME NEW t, NEW trigger \in {"ActivationSucceeded", "ActivationFailed", "FenceAcknowledged",
                                      "ForceDrain", "Terminated"},
             Report(t, [trigger |-> trigger, id |-> id]),
             [trigger |-> trigger, id |-> id] \in Reports(t)
      PROVE  RestInv'
  <2> DEFINE e == [trigger |-> trigger, id |-> id]
  <2>1. e \in ReportedType
    BY DEF ReportedType
  <2>2. \A s, d : e # Resolved(s, << >>)
    <3>1. e.trigger # "DeliveryResolved"
      OBVIOUS
    <3> QED BY <3>1 DEF Resolved
  <2> QED BY <1>1, <2>1, <2>2, ReportRest
<1>2. CASE ActivationReports(id)
  BY <1>1, <1>2, ReportsOf DEF ActivationReports
<1>3. CASE FenceReports(id)
  BY <1>1, <1>3, ReportsOf DEF FenceReports
<1>4. CASE \E mode \in Modes : RetirementReports(id, mode)
  BY <1>1, <1>4, ReportsOf DEF RetirementReports
<1>5. CASE \E d \in Dispatches : DeliveryRefused(id, d)
  <2>1. PICK d \in Dispatches : DeliveryRefused(id, d)
    BY <1>5
  <2> DEFINE e == Resolved(id, << d >>)
  <2>2. Report(Deliver(id, d), e)
    BY <2>1 DEF DeliveryRefused, Resolved
  <2>3. e \in ReportedType
    BY DEF ReportedType, Resolved
  <2>4. e \in Reports(Deliver(id, d))
    BY DeliveryReports
  <2>5. \A s, x : e # Resolved(s, << >>)
    <3>1. e.failure = << d >> /\ << d >> # << >>
      BY DEF Resolved
    <3> QED BY <3>1 DEF Resolved
  <2> QED BY <2>2, <2>3, <2>4, <2>5, ReportRest
<1> QED BY <1>2, <1>3, <1>4, <1>5

LEMMA AcceptedRest ==
  ASSUME IInv, RestInv, NEW id \in ActivationIds, NEW d \in Dispatches, DeliveryAccepted(id, d)
  PROVE  RestInv'
<1> DEFINE t == Deliver(id, d)
           m == Call(t, "find", NoActivation, Resolved(id, << >>))
<1>1. /\ UNCHANGED <<lastId, map, home, slots, outputs, abandoned, lost, panics>> /\ Wake
      /\ t \in tasks /\ tasks' = tasks \ {t} /\ Complete({d}, "Ok")
      /\ calls' = calls \cup {m}
  BY DEF DeliveryAccepted, Resolved, directory, history
<1>2. m.by = t /\ m.at = "find" /\ m.event = Resolved(id, << >>) /\ m.event \in Reports(t)
  BY DeliveryReports DEF Call
<1>3. \A s, x : t = Deliver(s, x) => x = d
  BY DEF Deliver
<1> HIDE DEF m, t
<1>4. \A x \in Dispatches : answer[x] # "Awaiting" => answer'[x] # "Awaiting"
  BY <1>1, AnswersStay
<1>5. answer'[d] # "Awaiting"
  BY <1>1 DEF Complete
<1>6. \A s \in 1 .. lastId : \A w \in Errands(s) : Underway(s, w) => Underway(s, w)'
  BY <1>1, <1>2 DEF Underway
<1>7. \A c \in calls' \ calls : c = m
  BY <1>1
<1>8. \A x \in Dispatches : panics = 0 /\ future'[x] = "parked" => answer'[x] = "Awaiting"
  BY <1>1, WakeRest
<1> QED BY <1>1, <1>2, <1>3, <1>4, <1>5, <1>6, <1>7, <1>8, RestUnmoved

LEMMA FindsRest ==
  ASSUME IInv, RestInv, NEW c \in calls, Finds(c)
  PROVE  RestInv'
<1>1. /\ UNCHANGED directory /\ UNCHANGED history /\ Wake
      /\ Find(c.by, c.event, {}, calls \ {c})
  BY DEF Finds
<1>2. PICK by, e, none, fewer :
        by = c.by /\ e = c.event /\ none = {} /\ fewer = {c}
  OBVIOUS
<1>3. c.event \in ReportedType
  BY CallFields DEF Finds, IInv, TypeOK
<1>4. e \in ReportedType
  BY <1>2, <1>3
<1>5. \A s \in ActivationIds, d \in Dispatches :
        c.by = Deliver(s, d) /\ c.event = Resolved(s, << >>) => answer[d] # "Awaiting"
  BY DEF RestInv, Answered
<1>6. \A s \in ActivationIds, d \in Dispatches :
        by = Deliver(s, d) /\ e = Resolved(s, << >>) => answer[d] # "Awaiting"
  BY <1>2, <1>5
<1>7. \A d \in Dispatches : panics = 0 /\ future'[d] = "parked" => answer'[d] = "Awaiting"
  BY <1>1, WakeRest
<1>8. \A s \in 1 .. lastId : \A w \in Errands(s) :
        w \in none \/ (\E b \in fewer : b.by = w /\ b.event \in Reports(w))
          => by = w /\ e \in Reports(w)
  BY <1>2
<1>9. UNCHANGED directory /\ UNCHANGED history
  BY <1>1
<1>10. Find(by, e, none, calls \ fewer)
  BY <1>1, <1>2
<1>11. IInv /\ RestInv
  OBVIOUS
<1> QED BY ONLY <1>4, <1>6, <1>7, <1>8, <1>9, <1>10, <1>11, FindRest

LEMMA DropRest ==
  ASSUME IInv, RestInv, NEW d \in Dispatches, DropFuture(d)
  PROVE  RestInv'
<1> DEFINE e == [trigger |-> "CancelWaiter", id |-> ticket[d], d |-> d]
           none == {}
<1>1. /\ UNCHANGED directory /\ UNCHANGED history
      /\ future' = [future EXCEPT ![d] = "dropped"]
      /\ IF ticket[d] = NoActivation THEN UNCHANGED <<tasks, calls, answer>> ELSE Find(d, e, none, calls)
  BY DEF DropFuture
<1>2. \A x \in Dispatches : future'[x] = "parked" => future[x] = "parked"
  BY <1>1 DEF IInv, TypeOK
<1>3. CASE ticket[d] = NoActivation
  <2>1. /\ UNCHANGED <<lastId, map, home, slots, outputs, abandoned, lost, panics>>
        /\ UNCHANGED <<tasks, calls, answer>>
    BY <1>1, <1>3 DEF directory, history
  <2>2. \A s \in 1 .. lastId : \A w \in Errands(s) : Underway(s, w) => Underway(s, w)'
    BY <2>1, ErrandsUnmoved
  <2> QED BY <1>2, <2>1, <2>2, RestUnmoved DEF RestInv, Calm
<1>4. CASE ticket[d] # NoActivation
  <2>1. e \in ReportedType /\ e \in Events /\ e.trigger = "CancelWaiter"
    <3>1. ticket[d] \in ActivationIds
      BY <1>4, IssuedIds DEF IInv, TypeOK, NoActivation
    <3> QED BY <3>1 DEF ReportedType, Events
  <2>2. answer' = answer
    <3> DEFINE r == Reduce(Inactive, e)
    <3>1. Complete(Refused(r.effects), "Refused") \/ answer' = answer
      BY <1>1, <1>4 DEF Find
    <3>2. \A x : x \notin Refused(r.effects)
      BY <2>1, FoundNothing, ConveyedBy
    <3> HIDE DEF r
    <3> QED BY <3>1, <3>2 DEF Complete, IInv, TypeOK
  <2>3. calls \ none = calls /\ (\A w \in none : FALSE)
    OBVIOUS
  <2>4. \A s : e # Resolved(s, << >>)
    BY <2>1 DEF Resolved
  <2> HIDE DEF none, e
  <2>5. Find(d, e, none, calls \ none)
    BY <1>1, <1>4, <2>3
  <2>6. \A x \in Dispatches : panics = 0 /\ future'[x] = "parked" => answer'[x] = "Awaiting"
    BY <1>2, <2>2 DEF RestInv, Calm
  <2> QED BY <1>1, <2>1, <2>3, <2>4, <2>5, <2>6, FindRest
<1> QED BY <1>3, <1>4

-----------------------------------------------------------------------------
(* What one reduction does to what a slot waits for.                       *)

LEMMA SingleRange ==
  ASSUME NEW fx
  PROVE  Range(<< fx >>) = {fx}
BY DEF Range

LEMMA LastInRange ==
  ASSUME NEW E, NEW fxs \in Seq(E), NEW fx \in E
  PROVE  fx \in Range(Append(fxs, fx))
<1> DEFINE b == Append(fxs, fx)
<1>1. Len(fxs) + 1 \in DOMAIN b /\ b[Len(fxs) + 1] = fx
  OBVIOUS
<1> HIDE DEF b
<1>2. fx \in Range(b)
  BY <1>1 DEF Range
<1> QED BY <1>2 DEF b

LEMMA JoinedRange ==
  ASSUME NEW E, NEW p \in Seq(E), NEW q \in Seq(E), NEW fx, fx \in Range(q)
  PROVE  fx \in Range(p \o q)
<1> DEFINE r == p \o q
<1>1. PICK i \in 1 .. Len(q) : q[i] = fx
  BY DEF Range
<1>2. Len(p) + i \in DOMAIN r /\ r[Len(p) + i] = fx
  BY <1>1
<1> HIDE DEF r
<1>3. fx \in Range(r)
  BY <1>2 DEF Range
<1> QED BY <1>3 DEF r

LEMMA ActivatingGoesOn ==
  ASSUME NEW k \in SlotType, k.phase = "Activating", k.id \in ActivationIds, NEW e \in Events
  PROVE  LET r == Reduce(k, e)
         IN  /\ ~ (e.trigger \in {"ActivationSucceeded", "ActivationFailed"} /\ e.id = k.id) =>
                  r.slot.phase = "Activating"
             /\ e.trigger = "ActivationSucceeded" /\ e.id = k.id =>
                  r = Decision(Active(k.id, Len(k.waiters)), Deliveries(k.id, k.waiters))
             /\ e.trigger = "ActivationFailed" /\ e.id = k.id =>
                  r.slot = Inactive /\ RemoveEntry(k.id) \in Range(r.effects)
<1> DEFINE r == Reduce(k, e)
<1>0. r = DecideActivating(k, e) /\ e.trigger # "ClaimActivation"
  BY EventFields DEF Reduce
<1>1. CASE e.trigger = "ActivationSucceeded" /\ e.id = k.id
  BY <1>0, <1>1 DEF DecideActivating, FinishActivation
<1>2. CASE e.trigger = "ActivationFailed" /\ e.id = k.id
  <2> DEFINE x == Rejections(k.waiters, "Unavailable")
  <2>1. r = Decision(Inactive, Append(x, RemoveEntry(k.id)))
    BY <1>0, <1>2 DEF DecideActivating, FailActivation
  <2>2. x \in Seq(EffectType)
    BY RejectionsTyped, CalmIsTyped DEF Reasons, SlotType
  <2>3. RemoveEntry(k.id) \in EffectType
    BY EffectTyped
  <2> HIDE DEF x
  <2>4. RemoveEntry(k.id) \in Range(Append(x, RemoveEntry(k.id)))
    BY <2>2, <2>3, LastInRange
  <2> QED BY <1>2, <2>1, <2>4 DEF Decision
<1>3. CASE ~ (e.trigger \in {"ActivationSucceeded", "ActivationFailed"} /\ e.id = k.id)
  <2>1. r.slot.phase = "Activating"
    BY <1>0, <1>3
       DEF DecideActivating, AdmitWaiter, CancelWaiter, FinishActivation, FailActivation,
           RejectFailedDelivery, RetireStale, Refuse, Ignore, Decision, Activating, Slot
  <2> QED BY <1>3, <2>1
<1> QED BY <1>1, <1>2, <1>3

LEMMA ActiveGoesOn ==
  ASSUME NEW k \in SlotType, k.phase = "Active", NEW e \in Events
  PROVE  LET r == Reduce(k, e)
             n == k.reservations
         IN  /\ e.trigger = "Dispatch" =>
                  r = Decision(Active(k.id, n + 1), << Deliver(k.id, e.d) >>)
             /\ e.trigger = "DeliveryResolved" /\ e.id = k.id =>
                  r.slot = Active(k.id, IF n > 0 THEN n - 1 ELSE 0)
             /\ e.trigger = "BeginDrain" /\ e.id = k.id =>
                  r.slot = Draining(k.id, n) /\ (n = 0 => EnqueueFence(k.id) \in Range(r.effects))
             /\ e.trigger # "Dispatch" /\ ~ (e.trigger \in {"DeliveryResolved", "BeginDrain"} /\ e.id = k.id) =>
                  r.slot = k
<1> DEFINE r == Reduce(k, e)
<1>0. r = DecideActive(k, e) /\ e.trigger # "ClaimActivation"
  BY EventFields DEF Reduce
<1>1. CASE e.trigger = "Dispatch"
  BY <1>0, <1>1 DEF DecideActive, ReserveDelivery
<1>2. CASE e.trigger = "DeliveryResolved" /\ e.id = k.id
  BY <1>0, <1>2 DEF DecideActive, ResolveActiveDelivery, RejectFailedDelivery, Decision
<1>3. CASE e.trigger = "BeginDrain" /\ e.id = k.id
  <2>1. r = BeginDrain(k)
    BY <1>0, <1>3 DEF DecideActive
  <2>2. r.slot = Draining(k.id, k.reservations)
    BY <2>1 DEF BeginDrain, Decision
  <2>3. k.reservations = 0 => r.effects = << EnqueueFence(k.id) >>
    BY <2>1 DEF BeginDrain, Decision
  <2> HIDE DEF r
  <2>4. k.reservations = 0 => EnqueueFence(k.id) \in Range(r.effects)
    BY <2>3, SingleRange
  <2> QED BY <1>3, <2>2, <2>4 DEF r
<1>4. CASE e.trigger # "Dispatch" /\ ~ (e.trigger \in {"DeliveryResolved", "BeginDrain"} /\ e.id = k.id)
  <2>1. r.slot = k
    BY <1>0, <1>4 DEF DecideActive, RejectFailedDelivery, RetireStale, Ignore, Decision
  <2> QED BY <1>4, <2>1
<1> QED BY <1>1, <1>2, <1>3, <1>4

LEMMA DrainingGoesOn ==
  ASSUME NEW k \in SlotType, k.phase = "Draining", k.id \in ActivationIds, NEW e \in Events
  PROVE  LET r == Reduce(k, e)
             n == k.reservations
             resolves == e.trigger = "DeliveryResolved" /\ e.id = k.id
             retires == \/ e.trigger = "FenceAcknowledged" /\ e.id = k.id /\ n = 0
                        \/ e.trigger = "ForceDrain" /\ e.id = k.id
         IN  /\ resolves =>
                  /\ r.slot = Draining(k.id, IF n > 0 THEN n - 1 ELSE 0)
                  /\ n = 1 => EnqueueFence(k.id) \in Range(r.effects)
             /\ retires =>
                  r.slot = Retiring(k.id) /\ \E mode \in Modes : Retire(k.id, mode) \in Range(r.effects)
             /\ ~ resolves /\ ~ retires => r.slot = k
<1> DEFINE r == Reduce(k, e)
           n == k.reservations
           resolves == e.trigger = "DeliveryResolved" /\ e.id = k.id
           retires == \/ e.trigger = "FenceAcknowledged" /\ e.id = k.id /\ n = 0
                      \/ e.trigger = "ForceDrain" /\ e.id = k.id
<1>0. r = DecideDraining(k, e) /\ e.trigger # "ClaimActivation"
  BY EventFields DEF Reduce
<1>1. CASE resolves
  <2> DEFINE x == Rejections(e.failure, "Unavailable")
             fence == IF n = 1 THEN << EnqueueFence(k.id) >> ELSE << >>
  <2>1. r = Decision(Draining(k.id, IF n > 0 THEN n - 1 ELSE 0), x \o fence)
    BY <1>0, <1>1 DEF DecideDraining, ResolveDrainingDelivery
  <2>2. x \in Seq(CalmEffect) /\ EnqueueFence(k.id) \in CalmEffect
    <3>1. k \in SlotType /\ e.failure \in Failures
      BY <1>1, EventFields
    <3> QED BY <3>1, RejectFailedPlain, EffectTyped
  <2> HIDE DEF x
  <2>3. n = 1 => EnqueueFence(k.id) \in Range(x \o fence)
    <3> SUFFICES ASSUME n = 1 PROVE EnqueueFence(k.id) \in Range(x \o fence)
      OBVIOUS
    <3>1. fence = << EnqueueFence(k.id) >>
      OBVIOUS
    <3>2. fence \in Seq(CalmEffect) /\ EnqueueFence(k.id) \in Range(fence)
      BY <2>2, <3>1, OneEffect, SingleRange
    <3> HIDE DEF fence
    <3> QED BY <2>2, <3>2, JoinedRange
  <2>4. ~ retires
    BY <1>1
  <2> QED BY <1>1, <2>1, <2>3, <2>4 DEF Decision
<1>2. CASE retires
  <2>1. \E mode \in Modes : r = Decision(Retiring(k.id), << Retire(k.id, mode) >>)
    BY <1>0, <1>2 DEF DecideDraining, AcknowledgeFence, ForceDrain, Modes
  <2>2. PICK mode \in Modes : r = Decision(Retiring(k.id), << Retire(k.id, mode) >>)
    BY <2>1
  <2>3. r.slot = Retiring(k.id) /\ r.effects = << Retire(k.id, mode) >>
    BY <2>2 DEF Decision
  <2> HIDE DEF r
  <2>4. Retire(k.id, mode) \in Range(r.effects)
    BY <2>3, SingleRange
  <2>5. ~ resolves
    BY <1>2
  <2> QED BY <1>2, <2>3, <2>4, <2>5 DEF r
<1>3. CASE ~ resolves /\ ~ retires
  <2>1. r.slot = k
    BY <1>0, <1>3
       DEF DecideDraining, AcknowledgeFence, ForceDrain, RejectFailedDelivery, RetireStale,
           Refuse, Ignore, Decision
  <2> QED BY <1>3, <2>1
<1> QED BY <1>1, <1>2, <1>3

LEMMA RetiringGoesOn ==
  ASSUME NEW k \in SlotType, k.phase = "Retiring", NEW e \in Events
  PROVE  LET r == Reduce(k, e)
         IN  /\ e.trigger = "Terminated" /\ e.id = k.id =>
                  r.slot = Inactive /\ RemoveEntry(k.id) \in Range(r.effects)
             /\ ~ (e.trigger = "Terminated" /\ e.id = k.id) => r.slot = k
<1> DEFINE r == Reduce(k, e)
<1>0. r = DecideRetiring(k, e) /\ e.trigger # "ClaimActivation"
  BY EventFields DEF Reduce
<1>1. CASE e.trigger = "Terminated" /\ e.id = k.id
  <2>1. r.slot = Inactive /\ r.effects = << RemoveEntry(k.id) >>
    BY <1>0, <1>1 DEF DecideRetiring, Decision
  <2> HIDE DEF r
  <2>2. RemoveEntry(k.id) \in Range(r.effects)
    BY <2>1, SingleRange
  <2> QED BY <1>1, <2>1, <2>2 DEF r
<1>2. CASE ~ (e.trigger = "Terminated" /\ e.id = k.id)
  <2>1. r.slot = k
    BY <1>0, <1>2
       DEF DecideRetiring, RejectFailedDelivery, RetireStale, Refuse, Ignore, Decision
  <2> QED BY <1>2, <2>1
<1> QED BY <1>1, <1>2

-----------------------------------------------------------------------------
(* Deliveries that are owed to a slot.                                     *)

LEMMA OwedMore ==
  ASSUME NEW s, NEW n \in Nat, Owed(s, n), NEW d \in Dispatches, ~ Underway(s, Deliver(s, d)),
         \A x \in Dispatches :
           x = d \/ Underway(s, Deliver(s, x)) => Underway(s, Deliver(s, x))'
  PROVE  Owed(s, n + 1)'
<1>1. PICK ds \in SUBSET Dispatches :
        /\ IsFiniteSet(ds) /\ Cardinality(ds) = n
        /\ \A x \in ds : Underway(s, Deliver(s, x))
  BY DEF Owed
<1>2. d \notin ds
  BY <1>1
<1>3. IsFiniteSet(ds \cup {d}) /\ Cardinality(ds \cup {d}) = n + 1
  BY <1>1, <1>2, FS_AddElement
<1> QED BY <1>1, <1>3 DEF Owed

LEMMA OwedLess ==
  ASSUME NEW s, NEW n \in Nat, Owed(s, n), NEW d,
         \A x \in Dispatches :
           x # d /\ Underway(s, Deliver(s, x)) => Underway(s, Deliver(s, x))'
  PROVE  Owed(s, IF n > 0 THEN n - 1 ELSE 0)'
<1>1. PICK ds \in SUBSET Dispatches :
        /\ IsFiniteSet(ds) /\ Cardinality(ds) = n
        /\ \A x \in ds : Underway(s, Deliver(s, x))
  BY DEF Owed
<1>2. CASE n = 0
  <2>1. ds = {}
    BY <1>1, <1>2, FS_EmptySet
  <2> QED BY <1>1, <1>2, <2>1 DEF Owed
<1>3. CASE n > 0
  <2>1. ds # {}
    BY <1>1, <1>3, FS_EmptySet
  <2>2. PICK y \in ds : d \in ds => y = d
    BY <2>1
  <2>3. IsFiniteSet(ds \ {y}) /\ Cardinality(ds \ {y}) = n - 1
    BY <1>1, <2>2, FS_RemoveElement
  <2>4. \A x \in ds \ {y} : Underway(s, Deliver(s, x))'
    BY <1>1, <2>2
  <2> QED BY <1>3, <2>3, <2>4 DEF Owed
<1> QED BY <1>2, <1>3

LEMMA SeatsCounted ==
  ASSUME NEW ws \in Seq(Dispatches), IsInjective(ws)
  PROVE  /\ Range(ws) \in SUBSET Dispatches
         /\ IsFiniteSet(Range(ws)) /\ Cardinality(Range(ws)) = Len(ws)
<1> DEFINE n == Len(ws)
<1>1. n \in Nat /\ DOMAIN ws = 1 .. n /\ ws \in [1 .. n -> Range(ws)]
  BY DEF Range
<1>2. Range(ws) \in SUBSET Dispatches
  BY DEF Range
<1> HIDE DEF n
<1>3. ws \in Bijection(1 .. n, Range(ws))
  BY <1>1 DEF Bijection, Injection, Surjection, IsInjective, Range
<1>4. ExistsBijection(1 .. n, Range(ws))
  BY <1>3 DEF ExistsBijection
<1>5. IsFiniteSet(1 .. n) /\ Cardinality(1 .. n) = n
  BY <1>1, FS_Interval
<1> QED BY <1>2, <1>4, <1>5, FS_Bijection DEF n

LEMMA OwedAll ==
  ASSUME NEW s, NEW ws \in Seq(Dispatches), IsInjective(ws),
         \A x \in Range(ws) : Underway(s, Deliver(s, x))'
  PROVE  Owed(s, Len(ws))'
BY SeatsCounted DEF Owed

(* A dispatch on its way to a slot is not being delivered for one.         *)
LEMMA Unshared ==
  ASSUME HandInv, RestInv, NEW c \in calls, NEW d \in Dispatches, Conveyed(c.event) = {d},
         c.event.trigger = "Dispatch", NEW s \in ActivationIds
  PROVE  ~ Underway(s, Deliver(s, d))
<1> DEFINE w == Deliver(s, d)
<1>0. w.type = "Deliver" /\ w.d = d
  BY ErrandFields
<1>1. At(d, "called", c) /\ Hand(d)
  BY DEF At, HandInv
<1>2. Only(d, "called", c)
  BY <1>1, HandOnly
<1>3. ~ Queues(outputs[s], w)
  <2>1. Queues(outputs[s], w) => InQueue(outputs[s], d)
    BY <1>0 DEF Queues, InQueue, InBatch, Carries
  <2> QED BY <1>2, <2>1 DEF Only, At
<1>4. w \notin tasks
  BY <1>0, <1>2 DEF Only, At
<1>5. ASSUME NEW b \in calls, b.by = w, b.event \in Reports(w) PROVE FALSE
  <2>1. b.event = Resolved(s, << >>) \/ b.event = Resolved(s, << d >>)
    BY <1>5, ReportsOf
  <2>2. CASE b.event = Resolved(s, << >>)
    <3>1. answer[d] # "Awaiting"
      BY <1>5, <2>2 DEF RestInv, Answered
    <3>2. At(d, "settled", answer[d])
      BY <3>1 DEF At
    <3> QED BY <1>2, <3>2 DEF Only
  <2>3. CASE b.event = Resolved(s, << d >>)
    <3>1. Conveyed(b.event) = Range(<< d >>) /\ b.event.trigger = "DeliveryResolved"
      BY <2>3 DEF Conveyed, Resolved
    <3>2. d \in Conveyed(b.event)
      BY <3>1, SingleRange
    <3>3. b = c
      BY <1>2, <3>2 DEF Only, At
    <3> QED BY <3>1, <3>3
  <2> QED BY <2>1, <2>2, <2>3
<1> QED BY <1>3, <1>4, <1>5 DEF Underway

-----------------------------------------------------------------------------
(* Submitting a fact.                                                      *)

(* What submitting one fact does to the errands of a slot.                 *)
LEMMA SubmitErrands ==
  ASSUME IInv, RestInv, NEW c \in calls, Submit(c), NEW s \in 1 .. lastId
  PROVE  /\ s # c.slot =>
              /\ slots'[s] = slots[s] /\ outputs'[s] = outputs[s]
              /\ Live(s) => \A w \in Errands(s) : Underway(s, w) => Underway(s, w)'
         /\ s = c.slot =>
              LET r == Reduce(slots[s], c.event)
              IN  /\ slots'[s] = r.slot
                  /\ \A fx \in EffectType :
                       Queues(outputs[s], fx) \/ fx \in Range(r.effects) => Queues(outputs'[s], fx)
                  /\ \A w \in Errands(s) :
                       \/ w \in Range(r.effects)
                       \/ Underway(s, w) /\ ~ (c.by = w /\ c.event \in Reports(w))
                       => Underway(s, w)'
<1> DEFINE r == Reduce(slots[c.slot], c.event)
           m == Call(c.by, "interpret", c.slot, NoEvent)
<1>1. /\ c.at = "submit"
      /\ slots' = [slots EXCEPT ![c.slot] = r.slot]
      /\ outputs' = [outputs EXCEPT ![c.slot] = @ \o Batches(r.effects)]
      /\ calls' = (calls \ {c}) \cup {m} /\ tasks' = tasks
  BY DEF Submit, Moved
<1>2. c.slot \in ActivationIds /\ s \in ActivationIds /\ c.event \in Events
  BY <1>1, CallFields, IssuedIds DEF IInv, TypeOK
<1> HIDE DEF m
<1>3. CASE s # c.slot
  <2>1. slots'[s] = slots[s] /\ outputs'[s] = outputs[s]
    <3> HIDE DEF r
    <3> QED BY <1>1, <1>2, <1>3 DEF IInv, TypeOK
  <2>2. ASSUME Live(s), NEW w \in Errands(s), Underway(s, w) PROVE Underway(s, w)'
    <3>1. ~ (c.by = w /\ c.event \in Reports(w))
      <4> SUFFICES ASSUME c.by = w, c.event \in Reports(w) PROVE FALSE
        OBVIOUS
      <4>1. c.event.id = s /\ c.event.trigger # "Dispatch"
        BY ReportFields
      <4>2. c.slot = s
        BY <1>1, <2>2, <4>1 DEF RestInv, Routed
      <4> QED BY <1>3, <4>2
    <3> HIDE DEF r
    <3> QED BY <1>1, <2>1, <2>2, <3>1 DEF Underway
  <2> QED BY <1>3, <2>1, <2>2
<1>4. CASE s = c.slot
  <2> DEFINE x == Reduce(slots[s], c.event)
  <2>1. slots'[s] = x.slot /\ outputs'[s] = outputs[s] \o Batches(x.effects)
    <3>1. r = x
      BY <1>4
    <3> HIDE DEF r, x
    <3> QED BY <1>1, <1>2, <1>4, <3>1 DEF IInv, TypeOK
  <2>2. x.effects \in Seq(EffectType) /\ outputs[s] \in Seq(Seq(EffectType) \ {<< >>})
    <3>1. slots[s] \in SlotType /\ lastId \in Nat
      BY <1>2, IssuedIds DEF IInv, TypeOK
    <3>2. slots[s].phase # "Inactive" => slots[s].id \in ActivationIds
      BY <1>2 DEF IInv, OneLiveIncarnation, Live
    <3>3. Outcome(slots[s], x)
      BY <1>2, <3>1, <3>2, ReduceOutcome
    <3> QED BY <1>2, <3>3 DEF Outcome, IInv, TypeOK
  <2> HIDE DEF r, x
  <2>3. \A fx : Queues(outputs[s], fx) \/ fx \in Range(x.effects) => Queues(outputs'[s], fx)
    BY <2>1, <2>2, QueuesExtended
  <2>4. ASSUME NEW w \in Errands(s),
               \/ w \in Range(x.effects)
               \/ Underway(s, w) /\ ~ (c.by = w /\ c.event \in Reports(w))
        PROVE  Underway(s, w)'
    BY <1>1, <2>3, <2>4 DEF Underway
  <2> QED BY <1>4, <2>1, <2>3, <2>4 DEF x
<1> QED BY <1>3, <1>4

LEMMA SubmitExpected ==
  ASSUME IInv, WInv, HandInv, RestInv, NEW c \in calls, Submit(c),
         NEW s \in 1 .. lastId, s = c.slot, Expected(s)
  PROVE  Expected(s)'
<1>1. PICK k : k = slots[s]
  OBVIOUS
<1>2. PICK e : e = c.event
  OBVIOUS
<1>3. PICK r : r = Reduce(k, e)
  OBVIOUS
<1>4. /\ k \in SlotType /\ e \in Events /\ s \in ActivationIds
      /\ k.phase # "Inactive" => k.id = s
      /\ k.reservations \in Nat /\ k.waiters \in Seq(Dispatches) /\ IsInjective(k.waiters)
  <2>1. c \in CallType /\ c.at = "submit"
    BY DEF IInv, TypeOK, Submit
  <2>2. e \in Events /\ s \in ActivationIds
    BY <1>2, <2>1, CallFields, IssuedIds DEF IInv
  <2>3. k \in SlotType
    BY <1>1, <2>2 DEF IInv, TypeOK
  <2>4. k.reservations \in Nat /\ k.waiters \in Seq(Dispatches)
    BY <2>3 DEF SlotType
  <2>5. IsInjective(k.waiters)
    BY <1>1, <2>2 DEF WInv, WaiterSeats
  <2> QED BY <1>1, <2>2, <2>3, <2>4, <2>5 DEF IInv, OneLiveIncarnation, Live
<1>5. /\ slots'[s] = r.slot
      /\ \A fx \in EffectType :
           Queues(outputs[s], fx) \/ fx \in Range(r.effects) => Queues(outputs'[s], fx)
      /\ \A w \in Errands(s) :
           \/ w \in Range(r.effects)
           \/ Underway(s, w) /\ ~ (c.by = w /\ e \in Reports(w))
           => Underway(s, w)'
  BY <1>1, <1>2, <1>3, SubmitErrands
<1>6. map' = map /\ home' = home
  BY DEF Submit
<1>7. RemoveEntry(s) \in EffectType
  BY <1>4, EffectTyped
<1>8. CASE k.phase = "Inactive"
  <2>1. r.slot.phase = "Inactive"
    <3>1. Outcome(k, r)
      BY <1>3, <1>4, <1>8, ReduceOutcome, IssuedIds DEF IInv
    <3> QED BY <1>8, <3>1 DEF Outcome
  <2> QED BY <1>1, <1>5, <1>6, <1>7, <1>8, <2>1 DEF Expected
<1>9. CASE k.phase = "Activating"
  <2>1. CASE e.trigger = "ActivationSucceeded" /\ e.id = s
    <3>1. r = Decision(Active(s, Len(k.waiters)), Deliveries(s, k.waiters))
      BY <1>3, <1>4, <1>9, <2>1, ActivatingGoesOn
    <3>2. r.slot = Active(s, Len(k.waiters)) /\ r.effects = Deliveries(s, k.waiters)
      BY <3>1 DEF Decision
    <3>3. \A d \in Range(k.waiters) : Deliver(s, d) \in Range(r.effects) /\ Deliver(s, d) \in Errands(s)
      <4>1. \A d \in Range(k.waiters) : Deliver(s, d) \in Range(r.effects)
        BY <3>2 DEF Deliveries, Range
      <4> QED BY <1>4, <4>1, SeatsCounted DEF Errands
    <3>4. Owed(s, Len(k.waiters))'
      BY <1>4, <1>5, <3>3, OwedAll
    <3>5. slots'[s].phase = "Active" /\ slots'[s].reservations = Len(k.waiters)
      BY <1>5, <3>2 DEF Active, Slot
    <3> QED BY <3>4, <3>5 DEF Expected
  <2>2. CASE e.trigger = "ActivationFailed" /\ e.id = s
    <3>1. r.slot = Inactive /\ RemoveEntry(s) \in Range(r.effects)
      BY <1>3, <1>4, <1>9, <2>2, ActivatingGoesOn
    <3> QED BY <1>5, <1>7, <3>1 DEF Expected, Inactive, Slot
  <2>3. CASE ~ (e.trigger \in {"ActivationSucceeded", "ActivationFailed"} /\ e.id = s)
    <3>1. r.slot.phase = "Activating"
      BY <1>3, <1>4, <1>9, <2>3, ActivatingGoesOn
    <3>2. StartActivation(s) \in Errands(s)
      BY DEF Errands
    <3>3. e \notin Reports(StartActivation(s))
      BY <2>3, <3>2, ReportFields
    <3>4. Underway(s, StartActivation(s))'
      BY <1>1, <1>5, <1>9, <3>2, <3>3 DEF Expected
    <3> QED BY <1>5, <3>1, <3>4 DEF Expected
  <2> QED BY <2>1, <2>2, <2>3
<1>10. ASSUME k.phase \in {"Active", "Draining"}, e.trigger = "DeliveryResolved" /\ e.id = s
       PROVE  Owed(s, IF k.reservations > 0 THEN k.reservations - 1 ELSE 0)'
  <2>1. Owed(s, k.reservations)
    BY <1>1, <1>10 DEF Expected
  <2>2. \A x \in Dispatches :
          x # c.by.d /\ Underway(s, Deliver(s, x)) => Underway(s, Deliver(s, x))'
    BY <1>5, ErrandFields DEF Errands
  <2> QED BY <1>4, <2>1, <2>2, OwedLess
<1>11. ASSUME k.phase \in {"Active", "Draining"}, ~ (e.trigger = "DeliveryResolved" /\ e.id = s)
       PROVE  /\ \A x \in Dispatches : Underway(s, Deliver(s, x)) => Underway(s, Deliver(s, x))'
              /\ Owed(s, k.reservations) /\ Owed(s, k.reservations)'
  <2>1. \A x \in Dispatches : Deliver(s, x) \in Errands(s) /\ e \notin Reports(Deliver(s, x))
    <3>1. \A x \in Dispatches : Deliver(s, x) \in Errands(s)
      BY DEF Errands
    <3> QED BY <1>11, <3>1, ReportFields
  <2>2. \A x \in Dispatches : Underway(s, Deliver(s, x)) => Underway(s, Deliver(s, x))'
    BY <1>5, <2>1
  <2>3. Owed(s, k.reservations)
    BY <1>1, <1>11 DEF Expected
  <2> QED BY <2>2, <2>3, OwedKept
<1>12. CASE k.phase = "Active"
  <2>1. CASE e.trigger = "Dispatch"
    <3>1. r = Decision(Active(s, k.reservations + 1), << Deliver(s, e.d) >>)
      BY <1>3, <1>4, <1>12, <2>1, ActiveGoesOn
    <3>2. r.slot = Active(s, k.reservations + 1) /\ r.effects = << Deliver(s, e.d) >>
      BY <3>1 DEF Decision
    <3>3. e.d \in Dispatches /\ Conveyed(e) = {e.d}
      BY <1>4, <2>1, EventFields, ConveyedBy
    <3>4. ~ Underway(s, Deliver(s, e.d))
      BY <1>2, <1>4, <2>1, <3>3, Unshared
    <3>5. Underway(s, Deliver(s, e.d))'
      <4>1. Deliver(s, e.d) \in Range(r.effects)
        BY <3>2, SingleRange
      <4> QED BY <1>5, <3>3, <4>1 DEF Errands
    <3>6. Owed(s, k.reservations + 1)'
      BY <1>4, <1>11, <1>12, <2>1, <3>3, <3>4, <3>5, OwedMore
    <3>7. slots'[s].phase = "Active" /\ slots'[s].reservations = k.reservations + 1
      BY <1>5, <3>2 DEF Active, Slot
    <3> QED BY <3>6, <3>7 DEF Expected
  <2>2. CASE e.trigger = "DeliveryResolved" /\ e.id = s
    <3> DEFINE n == IF k.reservations > 0 THEN k.reservations - 1 ELSE 0
    <3>1. r.slot = Active(s, n)
      BY <1>3, <1>4, <1>12, <2>2, ActiveGoesOn
    <3>2. Owed(s, n)'
      BY <1>10, <1>12, <2>2
    <3> HIDE DEF n
    <3>3. slots'[s].phase = "Active" /\ slots'[s].reservations = n
      BY <1>5, <3>1 DEF Active, Slot
    <3> QED BY <3>2, <3>3 DEF Expected
  <2>3. CASE e.trigger = "BeginDrain" /\ e.id = s
    <3>1. r.slot = Draining(s, k.reservations) /\ (k.reservations = 0 => EnqueueFence(s) \in Range(r.effects))
      BY <1>3, <1>4, <1>12, <2>3, ActiveGoesOn
    <3>2. Owed(s, k.reservations)'
      BY <1>11, <1>12, <2>3
    <3>3. k.reservations = 0 => Underway(s, EnqueueFence(s))'
      BY <1>5, <3>1 DEF Errands
    <3>4. slots'[s].phase = "Draining" /\ slots'[s].reservations = k.reservations
      BY <1>5, <3>1 DEF Draining, Slot
    <3> QED BY <3>2, <3>3, <3>4 DEF Expected
  <2>4. CASE e.trigger # "Dispatch" /\ ~ (e.trigger \in {"DeliveryResolved", "BeginDrain"} /\ e.id = s)
    <3>1. r.slot = k
      BY <1>3, <1>4, <1>12, <2>4, ActiveGoesOn
    <3>2. Owed(s, k.reservations)'
      BY <1>11, <1>12, <2>4
    <3>3. slots'[s].phase = "Active" /\ slots'[s].reservations = k.reservations
      BY <1>5, <1>12, <3>1
    <3> QED BY <3>2, <3>3 DEF Expected
  <2> QED BY <2>1, <2>2, <2>3, <2>4
<1>13. CASE k.phase = "Draining"
  <2>0. EnqueueFence(s) \in Errands(s) /\ \A mode \in Modes : Retire(s, mode) \in Errands(s)
    BY DEF Errands
  <2>1. CASE e.trigger = "DeliveryResolved" /\ e.id = s
    <3> DEFINE n == IF k.reservations > 0 THEN k.reservations - 1 ELSE 0
    <3>1. r.slot = Draining(s, n) /\ (k.reservations = 1 => EnqueueFence(s) \in Range(r.effects))
      BY <1>3, <1>4, <1>13, <2>1, DrainingGoesOn
    <3>2. Owed(s, n)'
      BY <1>10, <1>13, <2>1
    <3>3. n = 0 => k.reservations \in {0, 1}
      BY <1>4
    <3> HIDE DEF n
    <3>4. e \notin Reports(EnqueueFence(s))
      BY <2>0, <2>1, ReportFields
    <3>5. k.reservations = 0 => Underway(s, EnqueueFence(s))'
      BY <1>1, <1>5, <1>13, <2>0, <3>4 DEF Expected
    <3>6. k.reservations = 1 => Underway(s, EnqueueFence(s))'
      BY <1>5, <2>0, <3>1
    <3>7. slots'[s].phase = "Draining" /\ slots'[s].reservations = n
      BY <1>5, <3>1 DEF Draining, Slot
    <3> QED BY <3>2, <3>3, <3>5, <3>6, <3>7 DEF Expected
  <2>2. CASE \/ e.trigger = "FenceAcknowledged" /\ e.id = s /\ k.reservations = 0
             \/ e.trigger = "ForceDrain" /\ e.id = s
    <3>1. r.slot = Retiring(s) /\ \E mode \in Modes : Retire(s, mode) \in Range(r.effects)
      BY <1>3, <1>4, <1>13, <2>2, DrainingGoesOn
    <3>2. \E mode \in Modes : Underway(s, Retire(s, mode))'
      BY <1>5, <2>0, <3>1
    <3>3. slots'[s].phase = "Retiring"
      BY <1>5, <3>1 DEF Retiring, Slot
    <3> QED BY <3>2, <3>3 DEF Expected
  <2>3. CASE /\ ~ (e.trigger = "DeliveryResolved" /\ e.id = s)
             /\ ~ (e.trigger = "FenceAcknowledged" /\ e.id = s /\ k.reservations = 0)
             /\ ~ (e.trigger = "ForceDrain" /\ e.id = s)
    <3>1. r.slot = k
      BY <1>3, <1>4, <1>13, <2>3, DrainingGoesOn
    <3>2. Owed(s, k.reservations)'
      BY <1>11, <1>13, <2>3
    <3>3. k.reservations = 0 => e \notin Reports(EnqueueFence(s))
      BY <2>0, <2>3, ReportFields
    <3>4. k.reservations = 0 => Underway(s, EnqueueFence(s))'
      BY <1>1, <1>5, <1>13, <2>0, <3>3 DEF Expected
    <3>5. slots'[s].phase = "Draining" /\ slots'[s].reservations = k.reservations
      BY <1>5, <1>13, <3>1
    <3> QED BY <3>2, <3>4, <3>5 DEF Expected
  <2> QED BY <2>1, <2>2, <2>3
<1>14. CASE k.phase = "Retiring"
  <2>1. CASE e.trigger = "Terminated" /\ e.id = s
    <3>1. r.slot = Inactive /\ RemoveEntry(s) \in Range(r.effects)
      BY <1>3, <1>4, <1>14, <2>1, RetiringGoesOn
    <3> QED BY <1>5, <1>7, <3>1 DEF Expected, Inactive, Slot
  <2>2. CASE ~ (e.trigger = "Terminated" /\ e.id = s)
    <3>1. r.slot = k
      BY <1>3, <1>4, <1>14, <2>2, RetiringGoesOn
    <3>2. PICK mode \in Modes : Underway(s, Retire(s, mode))
      BY <1>1, <1>14 DEF Expected
    <3>3. Retire(s, mode) \in Errands(s)
      BY DEF Errands
    <3>4. e \notin Reports(Retire(s, mode))
      BY <2>2, <3>3, ReportFields
    <3>5. Underway(s, Retire(s, mode))'
      BY <1>5, <3>2, <3>3, <3>4
    <3> QED BY <1>5, <1>14, <3>1, <3>5 DEF Expected
  <2> QED BY <2>1, <2>2
<1> QED BY <1>4, <1>8, <1>9, <1>12, <1>13, <1>14 DEF SlotType, Phases

-----------------------------------------------------------------------------
(* Facts and errands name activations that were issued.                    *)

Issuing ==
  /\ \A c \in calls : c.event.trigger \notin {"None", "Dispatch"} => c.event.id \in 1 .. lastId
  /\ \A t \in tasks : t.id \in 1 .. lastId
  /\ \A s \in ActivationIds, fx \in TaskType : Queues(outputs[s], fx) => fx.id \in 1 .. lastId

(* The effects of a reduction name the activation of the slot or the fact. *)
Names(fxs, k, e) ==
  \A fx \in Range(fxs) : fx.type \in Asynchronous =>
    fx.id = k.id \/ (e.trigger # "Dispatch" /\ fx.id = e.id)

LEMMA RejectionsName ==
  ASSUME NEW ds, NEW reason, NEW k, NEW e
  PROVE  Names(Rejections(ds, reason), k, e)
<1> DEFINE x == Rejections(ds, reason)
<1>1. \A fx \in Range(x) : fx.type = "Reject"
  <2>1. Range(x) = {Reject(ds[i], reason) : i \in DOMAIN ds}
    BY DEF Rejections, Range
  <2> QED BY <2>1 DEF Reject
<1> HIDE DEF x
<1>2. Names(x, k, e)
  BY <1>1 DEF Names, Asynchronous
<1> QED BY <1>2 DEF x

LEMMA SingleNames ==
  ASSUME NEW fx, NEW k, NEW e,
         fx.type \in Asynchronous => fx.id = k.id \/ (e.trigger # "Dispatch" /\ fx.id = e.id)
  PROVE  Names(<< fx >>, k, e) /\ Names(<< >>, k, e)
<1> DEFINE b == << fx >>
<1>1. Range(b) = {fx} /\ Range(<< >>) = {}
  BY SingleRange DEF Range
<1> HIDE DEF b
<1>2. Names(b, k, e) /\ Names(<< >>, k, e)
  BY <1>1 DEF Names
<1> QED BY <1>2 DEF b

LEMMA ErrandNames ==
  ASSUME NEW k, NEW e, NEW s, s = k.id \/ (e.trigger # "Dispatch" /\ s = e.id)
  PROVE  /\ \A mode : Names(<< Retire(s, mode) >>, k, e)
         /\ \A d : Names(<< Deliver(s, d) >>, k, e)
         /\ Names(<< EnqueueFence(s) >>, k, e) /\ Names(<< >>, k, e)
<1>1. ASSUME NEW fx, fx.id = s PROVE Names(<< fx >>, k, e) /\ Names(<< >>, k, e)
  BY <1>1, SingleNames
<1>2. ASSUME NEW mode PROVE Names(<< Retire(s, mode) >>, k, e)
  BY <1>1 DEF Retire
<1>3. ASSUME NEW d PROVE Names(<< Deliver(s, d) >>, k, e)
  BY <1>1 DEF Deliver
<1>4. Names(<< EnqueueFence(s) >>, k, e) /\ Names(<< >>, k, e)
  BY <1>1 DEF EnqueueFence
<1> QED BY <1>2, <1>3, <1>4

LEMMA RefusalNames ==
  ASSUME NEW s, NEW d, NEW reason, NEW k, NEW e
  PROVE  Names(Refuse(s, d, reason).effects, k, e)
<1>1. Reject(d, reason).type = "Reject"
  BY DEF Reject
<1>2. Names(<< Reject(d, reason) >>, k, e)
  BY <1>1, SingleNames DEF Asynchronous
<1> QED BY <1>2 DEF Refuse, Decision

LEMMA SilenceNames ==
  ASSUME NEW s, NEW k, NEW e
  PROVE  Names(Ignore(s).effects, k, e)
<1>1. Range(<< >>) = {}
  BY DEF Range
<1>2. Ignore(s).effects = << >>
  BY DEF Ignore, Decision
<1> QED BY <1>1, <1>2 DEF Names

LEMMA StaleNames ==
  ASSUME NEW s, NEW k, NEW e, e.trigger # "Dispatch"
  PROVE  Names(RetireStale(s, e.id).effects, k, e)
<1>1. Names(<< Retire(e.id, "Forced") >>, k, e)
  BY ErrandNames
<1> QED BY <1>1 DEF RetireStale, Decision

LEMMA FailureNames ==
  ASSUME NEW s, NEW failure, NEW k, NEW e
  PROVE  Names(RejectFailedDelivery(s, failure).effects, k, e)
BY RejectionsName DEF RejectFailedDelivery, Decision

LEMMA InactiveNames ==
  ASSUME NEW e \in Events, NEW k
  PROVE  Names(Reduce(Inactive, e).effects, k, e)
<1>1. Reduce(Inactive, e) = DecideInactive(e) /\ e.trigger # "ClaimActivation"
  BY EventFields DEF Reduce, Inactive, Slot
<1>2. CASE e.trigger = "Dispatch"
  BY <1>1, <1>2, RefusalNames DEF DecideInactive
<1>3. CASE e.trigger = "ActivationSucceeded"
  BY <1>1, <1>3, StaleNames DEF DecideInactive
<1>4. CASE e.trigger = "DeliveryResolved"
  BY <1>1, <1>4, FailureNames DEF DecideInactive
<1>5. CASE e.trigger \notin {"Dispatch", "ActivationSucceeded", "DeliveryResolved"}
  BY <1>1, <1>5, SilenceNames DEF DecideInactive
<1> QED BY <1>2, <1>3, <1>4, <1>5

LEMMA ActivatingNames ==
  ASSUME NEW k \in SlotType, k.phase = "Activating", NEW e \in Events
  PROVE  Names(Reduce(k, e).effects, k, e)
<1> DEFINE r == Reduce(k, e)
<1>1. r = DecideActivating(k, e) /\ e.trigger # "ClaimActivation"
  BY EventFields DEF Reduce
<1>2. CASE e.trigger = "ActivationSucceeded" /\ e.id = k.id
  <2> DEFINE x == Deliveries(k.id, k.waiters)
  <2>1. r.effects = x
    BY <1>1, <1>2 DEF DecideActivating, FinishActivation, Decision
  <2>2. \A fx \in Range(x) : fx.id = k.id
    <3>1. Range(x) = {Deliver(k.id, k.waiters[i]) : i \in DOMAIN k.waiters}
      BY DEF Deliveries, Range
    <3> QED BY <3>1 DEF Deliver
  <2> HIDE DEF x, r
  <2>3. Names(r.effects, k, e)
    BY <2>1, <2>2 DEF Names
  <2> QED BY <2>3 DEF r
<1>3. CASE e.trigger = "ActivationSucceeded" /\ e.id # k.id
  BY <1>1, <1>3, StaleNames DEF DecideActivating, FinishActivation
<1>4. CASE e.trigger = "ActivationFailed" /\ e.id = k.id
  <2> DEFINE x == Rejections(k.waiters, "Unavailable")
             y == << RemoveEntry(k.id) >>
  <2>1. r.effects = Append(x, RemoveEntry(k.id))
    BY <1>1, <1>4 DEF DecideActivating, FailActivation, Decision
  <2>2. x \in Seq(EffectType)
    BY RejectionsTyped, CalmIsTyped DEF Reasons, SlotType
  <2>3. Names(x, k, e)
    BY RejectionsName
  <2>4. RemoveEntry(k.id).type = "Remove"
    BY ErrandFields
  <2> HIDE DEF x, r
  <2>5. \A fx \in Range(Append(x, RemoveEntry(k.id))) : fx \in Range(x) \/ fx = RemoveEntry(k.id)
    BY <2>2 DEF Range
  <2>6. Names(r.effects, k, e)
    BY <2>1, <2>3, <2>4, <2>5 DEF Names, Asynchronous
  <2> QED BY <2>6 DEF r
<1>5. CASE e.trigger = "Dispatch"
  BY <1>1, <1>5, RefusalNames, SilenceNames DEF DecideActivating, AdmitWaiter
<1>6. CASE e.trigger = "DeliveryResolved"
  BY <1>1, <1>6, FailureNames DEF DecideActivating
<1>7. CASE /\ e.trigger \notin {"ActivationSucceeded", "Dispatch", "DeliveryResolved"}
           /\ ~ (e.trigger = "ActivationFailed" /\ e.id = k.id)
  BY <1>1, <1>7, SilenceNames DEF DecideActivating, CancelWaiter, FailActivation
<1> QED BY <1>2, <1>3, <1>4, <1>5, <1>6, <1>7

LEMMA ActiveNames ==
  ASSUME NEW k \in SlotType, k.phase = "Active", NEW e \in Events
  PROVE  Names(Reduce(k, e).effects, k, e)
<1> DEFINE r == Reduce(k, e)
<1>1. r = DecideActive(k, e) /\ e.trigger # "ClaimActivation"
  BY EventFields DEF Reduce
<1>2. CASE e.trigger = "Dispatch"
  <2>1. Names(<< Deliver(k.id, e.d) >>, k, e)
    BY ErrandNames
  <2> QED BY <1>1, <1>2, <2>1 DEF DecideActive, ReserveDelivery, Decision
<1>3. CASE e.trigger = "DeliveryResolved"
  BY <1>1, <1>3, FailureNames DEF DecideActive, ResolveActiveDelivery
<1>4. CASE e.trigger = "BeginDrain" /\ e.id = k.id
  <2>1. Names(<< EnqueueFence(k.id) >>, k, e) /\ Names(<< >>, k, e)
    BY ErrandNames
  <2> QED BY <1>1, <1>4, <2>1 DEF DecideActive, BeginDrain, Decision
<1>5. CASE e.trigger = "ActivationSucceeded"
  BY <1>1, <1>5, StaleNames DEF DecideActive
<1>6. CASE /\ e.trigger \notin {"Dispatch", "DeliveryResolved", "ActivationSucceeded"}
           /\ ~ (e.trigger = "BeginDrain" /\ e.id = k.id)
  BY <1>1, <1>6, SilenceNames DEF DecideActive
<1> QED BY <1>2, <1>3, <1>4, <1>5, <1>6

LEMMA DrainingNames ==
  ASSUME NEW k \in SlotType, k.phase = "Draining", k.id \in ActivationIds, NEW e \in Events
  PROVE  Names(Reduce(k, e).effects, k, e)
<1> DEFINE r == Reduce(k, e)
<1>1. r = DecideDraining(k, e) /\ e.trigger # "ClaimActivation"
  BY EventFields DEF Reduce
<1>2. CASE e.trigger = "DeliveryResolved" /\ e.id = k.id
  <2> DEFINE x == Rejections(e.failure, "Unavailable")
             y == IF k.reservations = 1 THEN << EnqueueFence(k.id) >> ELSE << >>
  <2>1. r.effects = x \o y
    BY <1>1, <1>2 DEF DecideDraining, ResolveDrainingDelivery, Decision
  <2>2. x \in Seq(CalmEffect) /\ y \in Seq(CalmEffect)
    <3>1. x \in Seq(CalmEffect)
      BY <1>2, EventFields, RejectFailedPlain
    <3>2. y \in Seq(CalmEffect)
      BY EffectTyped, OneEffect
    <3> QED BY <3>1, <3>2
  <2>3. Names(x, k, e) /\ Names(y, k, e)
    BY RejectionsName, ErrandNames
  <2> HIDE DEF x, y, r
  <2>4. \A fx \in Range(x \o y) : fx \in Range(x) \/ fx \in Range(y)
    BY <2>2 DEF Range
  <2>5. Names(r.effects, k, e)
    BY <2>1, <2>3, <2>4 DEF Names
  <2> QED BY <2>5 DEF r
<1>3. CASE e.trigger = "DeliveryResolved" /\ e.id # k.id
  BY <1>1, <1>3, FailureNames DEF DecideDraining
<1>4. CASE e.trigger \in {"FenceAcknowledged", "ForceDrain"} /\ e.id = k.id
  <2>1. \A mode : Names(<< Retire(k.id, mode) >>, k, e)
    BY ErrandNames
  <2> QED
    BY <1>1, <1>4, <2>1, SilenceNames DEF DecideDraining, AcknowledgeFence, ForceDrain, Decision
<1>5. CASE e.trigger = "Dispatch"
  BY <1>1, <1>5, RefusalNames DEF DecideDraining
<1>6. CASE e.trigger = "ActivationSucceeded"
  BY <1>1, <1>6, StaleNames DEF DecideDraining
<1>7. CASE /\ e.trigger \notin {"Dispatch", "DeliveryResolved", "ActivationSucceeded"}
           /\ ~ (e.trigger \in {"FenceAcknowledged", "ForceDrain"} /\ e.id = k.id)
  BY <1>1, <1>7, SilenceNames DEF DecideDraining
<1> QED BY <1>2, <1>3, <1>4, <1>5, <1>6, <1>7

LEMMA RetiringNames ==
  ASSUME NEW k \in SlotType, k.phase = "Retiring", NEW e \in Events
  PROVE  Names(Reduce(k, e).effects, k, e)
<1> DEFINE r == Reduce(k, e)
<1>1. r = DecideRetiring(k, e) /\ e.trigger # "ClaimActivation"
  BY EventFields DEF Reduce
<1>2. CASE e.trigger = "Terminated" /\ e.id = k.id
  <2>1. Names(<< RemoveEntry(k.id) >>, k, e)
    BY SingleNames, ErrandFields DEF Asynchronous
  <2> QED BY <1>1, <1>2, <2>1 DEF DecideRetiring, Decision
<1>3. CASE e.trigger = "Dispatch"
  BY <1>1, <1>3, RefusalNames DEF DecideRetiring
<1>4. CASE e.trigger = "ActivationSucceeded"
  BY <1>1, <1>4, StaleNames DEF DecideRetiring
<1>5. CASE e.trigger = "DeliveryResolved"
  BY <1>1, <1>5, FailureNames DEF DecideRetiring
<1>6. CASE /\ e.trigger \notin {"Dispatch", "DeliveryResolved", "ActivationSucceeded"}
           /\ ~ (e.trigger = "Terminated" /\ e.id = k.id)
  BY <1>1, <1>6, SilenceNames DEF DecideRetiring
<1> QED BY <1>2, <1>3, <1>4, <1>5, <1>6

LEMMA ReduceNames ==
  ASSUME NEW k \in SlotType, k.phase # "Inactive" => k.id \in ActivationIds, NEW e \in Events
  PROVE  Names(Reduce(k, e).effects, k, e)
<1>1. CASE k.phase = "Inactive"
  <2>1. Reduce(k, e) = Reduce(Inactive, e)
    BY <1>1 DEF Reduce, Inactive, Slot
  <2>2. Names(Reduce(Inactive, e).effects, k, e)
    BY InactiveNames
  <2> QED BY <2>1, <2>2
<1> QED BY <1>1, ActivatingNames, ActiveNames, DrainingNames, RetiringNames DEF SlotType, Phases

-----------------------------------------------------------------------------
(* Every step issues what it names.                                        *)

LEMMA IssuingGrows ==
  ASSUME Issuing, 1 .. lastId \subseteq 1 .. lastId',
         \A c \in calls' \ calls :
           c.event.trigger \notin {"None", "Dispatch"} => c.event.id \in 1 .. lastId',
         \A t \in tasks' \ tasks : t.id \in 1 .. lastId',
         \A s \in ActivationIds, fx \in TaskType :
           Queues(outputs'[s], fx) => Queues(outputs[s], fx) \/ fx.id \in 1 .. lastId'
  PROVE  Issuing'
<1>1. \A c \in calls' :
        c.event.trigger \notin {"None", "Dispatch"} => c.event.id \in 1 .. lastId'
  BY DEF Issuing
<1>2. \A t \in tasks' : t.id \in 1 .. lastId'
  BY DEF Issuing
<1>3. \A s \in ActivationIds, fx \in TaskType : Queues(outputs'[s], fx) => fx.id \in 1 .. lastId'
  BY DEF Issuing
<1> QED BY <1>1, <1>2, <1>3 DEF Issuing

LEMMA FindIssuing ==
  ASSUME Issuing, UNCHANGED directory, NEW by, NEW e \in ReportedType, e.id \in 1 .. lastId,
         NEW finished, NEW rest, rest \subseteq calls, Find(by, e, finished, rest)
  PROVE  Issuing'
<1> DEFINE m == Call(by, "submit", map[home[e.id]], e)
           r == Reduce(Inactive, e)
           k == [id |-> e.id]
<1>1. m.event = e /\ k.id = e.id
  BY DEF Call
<1>2. Names(r.effects, k, e)
  BY InactiveNames DEF Events
<1>3. \A t \in Started(r.effects) : t.id = e.id
  <2> HIDE DEF r, k
  <2> QED BY <1>1, <1>2 DEF Names, Started
<1>4. tasks' = tasks \ finished \/ tasks' = (tasks \ finished) \cup Started(r.effects)
  BY DEF Find
<1>5. calls' = rest \/ calls' = rest \cup {m}
  BY FindCalls
<1>6. lastId' = lastId /\ outputs' = outputs
  BY DEF directory
<1> HIDE DEF m, r, k
<1>7. \A c \in calls' \ calls : c.event.id \in 1 .. lastId'
  BY <1>1, <1>5, <1>6
<1>8. \A t \in tasks' \ tasks : t.id \in 1 .. lastId'
  BY <1>3, <1>4, <1>6
<1> QED BY <1>6, <1>7, <1>8, IssuingGrows

LEMMA SubmitIssuing ==
  ASSUME IInv, Issuing, NEW c \in calls, Submit(c)
  PROVE  Issuing'
<1> DEFINE r == Reduce(slots[c.slot], c.event)
           m == Call(c.by, "interpret", c.slot, NoEvent)
<1>1. /\ c.at = "submit" /\ lastId' = lastId /\ tasks' = tasks
      /\ outputs' = [outputs EXCEPT ![c.slot] = @ \o Batches(r.effects)]
      /\ calls' = (calls \ {c}) \cup {m}
  BY DEF Submit, Moved
<1>2. PICK s : s = c.slot
  OBVIOUS
<1>3. PICK e : e = c.event
  OBVIOUS
<1>4. PICK k : k = slots[s]
  OBVIOUS
<1>5. s \in ActivationIds /\ e \in Events /\ k \in SlotType /\ lastId \in Nat
  BY <1>1, <1>2, <1>3, <1>4, CallFields, IssuedIds DEF IInv, TypeOK
<1>6. k.phase # "Inactive" => k.id = s /\ s \in 1 .. lastId
  <2>1. s \in 1 .. lastId
    BY <1>1, <1>2, CallFields DEF IInv, TypeOK
  <2> QED BY <1>4, <2>1 DEF IInv, OneLiveIncarnation, Live
<1>7. r = Reduce(k, e)
  BY <1>2, <1>3, <1>4
<1>8. Outcome(k, r) /\ Names(r.effects, k, e)
  BY <1>5, <1>6, <1>7, ReduceOutcome, ReduceNames
<1>9. m.event.trigger = "None"
  BY DEF Call, NoEvent
<1> HIDE DEF r, m
<1>10. r.effects \in Seq(EffectType) /\ outputs[s] \in Seq(Seq(EffectType) \ {<< >>})
  BY <1>5, <1>8 DEF Outcome, IInv, TypeOK
<1>11. ASSUME NEW u \in ActivationIds, NEW fx \in TaskType, Queues(outputs'[u], fx)
       PROVE  Queues(outputs[u], fx) \/ fx.id \in 1 .. lastId'
  <2>1. CASE u # s
    BY <1>1, <1>2, <1>5, <1>11, <2>1 DEF IInv, TypeOK
  <2>2. CASE u = s
    <3>1. outputs'[s] = outputs[s] \o Batches(r.effects)
      BY <1>1, <1>2, <1>5 DEF IInv, TypeOK
    <3>2. Queues(outputs[s], fx) \/ fx \in Range(r.effects)
      BY <1>10, <1>11, <2>2, <3>1, QueuesExtended
    <3>3. fx.type \in Asynchronous
      BY DEF TaskType, Asynchronous, StartActivation, Deliver, EnqueueFence, Retire
    <3>4. CASE fx \in Range(r.effects)
      <4>1. fx.id = k.id \/ (e.trigger # "Dispatch" /\ fx.id = e.id)
        BY <1>8, <3>3, <3>4 DEF Names
      <4>2. k.id \in 0 .. lastId /\ fx.id \in ActivationIds
        BY <1>5 DEF SlotType, TaskType, StartActivation, Deliver, EnqueueFence, Retire
      <4>3. CASE fx.id = k.id
        BY <1>1, <1>5, <4>2, <4>3 DEF ActivationIds
      <4>4. CASE e.trigger # "Dispatch" /\ fx.id = e.id
        <5>1. e.trigger # "None"
          BY <1>5 DEF Events, ReportedType
        <5> QED BY <1>1, <1>3, <4>4, <5>1 DEF Issuing
      <4> QED BY <4>1, <4>3, <4>4
    <3> QED BY <2>2, <3>2, <3>4
  <2> QED BY <2>1, <2>2
<1>12. \A b \in calls' \ calls : b.event.trigger = "None"
  BY <1>1, <1>9
<1> QED BY <1>1, <1>11, <1>12, IssuingGrows

LEMMA TakenIssuing ==
  ASSUME IInv, Issuing, NEW c \in calls, ApplyEffect(c) \/ InterpreterPanics(c)
  PROVE  Issuing'
<1>1. PICK s : s = c.slot
  OBVIOUS
<1>2. PICK q : q = outputs[s]
  OBVIOUS
<1>3. /\ s \in ActivationIds /\ q \in Seq(Seq(EffectType) \ {<< >>}) /\ q # << >>
  BY <1>1, <1>2, Owned DEF ApplyEffect, InterpreterPanics
<1> DEFINE fx == Head(Head(q))
           left == Batches(Tail(Head(q))) \o Tail(q)
<1>4. fx \in EffectType /\ (fx.type \in Asynchronous => fx \in TaskType)
  BY <1>3, QueueTyped, EffectFields
<1>5. /\ Queues(q, fx)
      /\ \A gx : Queues(left, gx) \/ Queues(Tail(q), gx) => Queues(q, gx)
  BY <1>3, QueuesTaken
<1>6. /\ lastId' = lastId /\ calls' \subseteq calls
      /\ outputs' = [outputs EXCEPT ![s] = left] \/ outputs' = [outputs EXCEPT ![s] = Tail(q)]
      /\ tasks' = tasks \/ tasks' = tasks \cup Started(<< fx >>)
  BY <1>1, <1>2 DEF ApplyEffect, InterpreterPanics, Batch
<1> HIDE DEF fx, left
<1>7. \A u \in ActivationIds, gx \in TaskType : Queues(outputs'[u], gx) => Queues(outputs[u], gx)
  <2>1. \A u \in ActivationIds : u # s => outputs'[u] = outputs[u]
    BY <1>6 DEF IInv, TypeOK
  <2>2. outputs'[s] = left \/ outputs'[s] = Tail(q)
    BY <1>3, <1>6 DEF IInv, TypeOK
  <2> QED BY <1>2, <1>5, <2>1, <2>2
<1>8. \A t \in tasks' \ tasks : t = fx /\ fx.type \in Asynchronous
  BY <1>6, StartedOne
<1>9. fx \in TaskType => fx.id \in 1 .. lastId'
  BY <1>2, <1>3, <1>5, <1>6 DEF Issuing
<1> QED BY <1>4, <1>6, <1>7, <1>8, <1>9, IssuingGrows

LEMMA AbsentIssuing ==
  ASSUME IInv, Issuing, NEW d \in Dispatches, NEW n \in Entities, DispatchAbsent(d, n)
  PROVE  Issuing'
<1>1. PICK id \in ActivationIds : Allocated(id) /\ lastId' = id /\ Claim(d, n, id)
  BY DEF DispatchAbsent
<1> DEFINE r == Reduce(Inactive, [trigger |-> "ClaimActivation", id |-> id, d |-> d])
           m == Call(d, "interpret", id, NoEvent)
<1>2. /\ outputs' = [outputs EXCEPT ![id] = Batches(r.effects)]
      /\ calls' = calls \cup {m} /\ tasks' = tasks
  BY <1>1 DEF Claim
<1>3. r.effects = << StartActivation(id) >>
  BY DEF Reduce, DecideInactive, Decision, Inactive, Slot
<1>4. m.event.trigger = "None"
  BY DEF Call, NoEvent
<1>5. lastId \in Nat /\ lastId' = lastId + 1 /\ id \in 1 .. lastId'
  BY <1>1, IssuedIds DEF Allocated, IInv
<1> HIDE DEF r, m
<1>6. ASSUME NEW s \in ActivationIds, NEW fx \in TaskType, Queues(outputs'[s], fx)
      PROVE  Queues(outputs[s], fx) \/ fx.id \in 1 .. lastId'
  <2>1. CASE s # id
    BY <1>2, <1>6, <2>1 DEF IInv, TypeOK
  <2>2. CASE s = id
    <3>1. outputs'[id] = Batches(r.effects)
      BY <1>2 DEF IInv, TypeOK
    <3>2. fx \in Range(r.effects)
      BY <1>6, <2>2, <3>1, QueuesBatches
    <3>3. fx = StartActivation(id)
      BY <1>3, <3>2, SingleRange
    <3> QED BY <1>5, <3>3, ErrandFields
  <2> QED BY <2>1, <2>2
<1>7. 1 .. lastId \subseteq 1 .. lastId'
  BY <1>5
<1>8. \A c \in calls' \ calls : c.event.trigger = "None"
  BY <1>2, <1>4
<1> QED BY <1>2, <1>6, <1>7, <1>8, IssuingGrows

(* A task's report is about its own activation.                            *)
LEMMA TaskIssuing ==
  ASSUME IInv, Issuing, NEW id \in ActivationIds,
         \/ ActivationReports(id) \/ FenceReports(id)
         \/ \E d \in Dispatches : DeliveryAccepted(id, d) \/ DeliveryRefused(id, d)
         \/ \E mode \in Modes : RetirementReports(id, mode)
  PROVE  Issuing'
<1>1. ASSUME NEW t, NEW e \in ReportedType, Report(t, e), e.id = t.id
      PROVE  Issuing'
  <2>1. t \in tasks /\ UNCHANGED directory /\ Find(t, e, {t}, calls)
    BY <1>1 DEF Report
  <2>2. e.id \in 1 .. lastId
    BY <1>1, <2>1 DEF Issuing
  <2> QED BY <2>1, <2>2, FindIssuing
<1>2. /\ StartActivation(id).id = id /\ EnqueueFence(id).id = id
      /\ \A mode : Retire(id, mode).id = id
      /\ \A d : Deliver(id, d).id = id
  BY ErrandFields
<1>3. ASSUME NEW t, t.id = id, NEW trigger \in {"ActivationSucceeded", "ActivationFailed",
                                "FenceAcknowledged", "ForceDrain", "Terminated"},
             Report(t, [trigger |-> trigger, id |-> id])
      PROVE  Issuing'
  <2>1. [trigger |-> trigger, id |-> id] \in ReportedType
    BY DEF ReportedType
  <2> QED BY <1>1, <1>3, <2>1
<1>4. CASE ActivationReports(id)
  BY <1>2, <1>3, <1>4 DEF ActivationReports
<1>5. CASE FenceReports(id)
  BY <1>2, <1>3, <1>5 DEF FenceReports
<1>6. CASE \E mode \in Modes : RetirementReports(id, mode)
  BY <1>2, <1>3, <1>6 DEF RetirementReports
<1>7. ASSUME NEW d \in Dispatches, DeliveryRefused(id, d) PROVE Issuing'
  <2> DEFINE e == [trigger |-> "DeliveryResolved", id |-> id, failure |-> << d >>]
  <2>1. e \in ReportedType /\ e.id = Deliver(id, d).id
    BY <1>2 DEF ReportedType
  <2> QED BY <1>1, <1>7, <2>1 DEF DeliveryRefused
<1>8. ASSUME NEW d \in Dispatches, DeliveryAccepted(id, d) PROVE Issuing'
  <2> DEFINE m == Call(Deliver(id, d), "find", NoActivation,
                       [trigger |-> "DeliveryResolved", id |-> id, failure |-> << >>])
  <2>1. /\ UNCHANGED directory /\ Deliver(id, d) \in tasks
        /\ tasks' \subseteq tasks /\ calls' = calls \cup {m}
    BY <1>8 DEF DeliveryAccepted
  <2>2. m.event.id = id
    BY DEF Call
  <2>3. id \in 1 .. lastId
    BY <1>2, <2>1 DEF Issuing
  <2>4. lastId' = lastId /\ outputs' = outputs
    BY <2>1 DEF directory
  <2> HIDE DEF m
  <2>5. \A c \in calls' \ calls : c.event.id \in 1 .. lastId'
    BY <2>1, <2>2, <2>3, <2>4
  <2> QED BY <2>1, <2>4, <2>5, IssuingGrows
<1> QED BY <1>4, <1>5, <1>6, <1>7, <1>8

LEMMA CallerIssuing ==
  ASSUME IInv, Issuing, NEW n \in Entities, NEW d \in Dispatches,
         DispatchMapped(d, n) \/ DispatchExhausted(d, n) \/ Poll(d) \/ DropFuture(d)
  PROVE  Issuing'
<1>1. CASE DispatchMapped(d, n)
  <2> DEFINE m == Call(d, "submit", map[n], [trigger |-> "Dispatch", d |-> d])
  <2>1. lastId' = lastId /\ outputs' = outputs /\ tasks' = tasks /\ calls' = calls \cup {m}
    BY <1>1 DEF DispatchMapped, directory
  <2>2. m.event.trigger = "Dispatch"
    BY DEF Call
  <2> HIDE DEF m
  <2> QED BY <2>1, <2>2, IssuingGrows
<1>2. CASE DispatchExhausted(d, n) \/ Poll(d) \/ (DropFuture(d) /\ ticket[d] = NoActivation)
  <2>1. lastId' = lastId /\ outputs' = outputs /\ tasks' = tasks /\ calls' = calls
    BY <1>2 DEF DispatchExhausted, Poll, DropFuture, directory
  <2> QED BY <2>1, IssuingGrows
<1>3. CASE DropFuture(d) /\ ticket[d] # NoActivation
  <2> DEFINE e == [trigger |-> "CancelWaiter", id |-> ticket[d], d |-> d]
  <2>1. ticket[d] \in 1 .. lastId /\ 1 .. lastId \subseteq ActivationIds
    BY <1>3, IssuedIds DEF IInv, TypeOK, NoActivation
  <2>2. e \in ReportedType /\ e.id \in 1 .. lastId
    BY <2>1 DEF ReportedType
  <2> QED BY <1>3, <2>2, FindIssuing DEF DropFuture
<1> QED BY <1>1, <1>2, <1>3

LEMMA PassivateIssuing ==
  ASSUME IInv, Issuing, NEW p \in Passivations, NEW n \in Entities, PassivateReads(p, n)
  PROVE  Issuing'
<1> DEFINE e == [trigger |-> "BeginDrain", id |-> slots[map[n]].id]
           m == Call(p, "find", NoActivation, e)
<1>1. lastId' = lastId /\ outputs' = outputs /\ tasks' = tasks /\ calls' = calls \cup {m}
  BY DEF PassivateReads, directory
<1>2. m.event.id = slots[map[n]].id
  BY DEF Call
<1>3. slots[map[n]].id \in 1 .. lastId
  <2>1. map[n] \in ActivationIds
    BY IssuedIds DEF PassivateReads, IInv, TypeOK, NoActivation
  <2> QED BY <2>1, IssuedIds DEF PassivateReads, IInv, TypeOK, SlotType, NoActivation
<1> HIDE DEF m
<1>4. \A c \in calls' \ calls : c.event.id \in 1 .. lastId'
  BY <1>1, <1>2, <1>3
<1> QED BY <1>1, <1>4, IssuingGrows

LEMMA QuietIssuing ==
  ASSUME IInv, Issuing, NEW c \in calls, Finds(c) \/ Interpret(c) \/ Release(c)
  PROVE  Issuing'
<1>1. CASE Finds(c)
  <2>1. c.event \in ReportedType
    BY <1>1, CallFields DEF Finds, IInv, TypeOK
  <2>2. c.event.trigger \notin {"None", "Dispatch"}
    BY <2>1 DEF ReportedType
  <2>3. c.event.id \in 1 .. lastId /\ UNCHANGED directory
    BY <1>1, <2>2 DEF Issuing, Finds
  <2>4. calls \ {c} \subseteq calls
    OBVIOUS
  <2>5. Find(c.by, c.event, {}, calls \ {c})
    BY <1>1 DEF Finds
  <2> QED BY <2>1, <2>3, <2>4, <2>5, FindIssuing
<1>2. CASE Interpret(c) \/ Release(c)
  <2>1. lastId' = lastId /\ outputs' = outputs /\ tasks' = tasks
    BY <1>2 DEF Interpret, Release
  <2>2. \A by, s : Call(by, "own", s, NoEvent).event.trigger = "None"
    BY DEF Call, NoEvent
  <2>3. \A b \in calls' \ calls : b.event.trigger = "None"
    BY <1>2, <2>2 DEF Interpret, Release, Moved
  <2> QED BY <2>1, <2>3, IssuingGrows
<1> QED BY <1>1, <1>2

LEMMA NextIssuing == IInv /\ Issuing /\ [Next]_vars => Issuing'
<1> SUFFICES ASSUME IInv, Issuing, [Next]_vars PROVE Issuing'
  OBVIOUS
<1>1. CASE UNCHANGED vars
  <2>1. UNCHANGED <<lastId, calls, tasks, outputs>>
    BY <1>1 DEF vars, directory
  <2> QED BY <2>1, IssuingGrows
<1>2. CASE \E c \in calls : Proceeds(c) \/ InterpreterPanics(c)
  BY <1>2, QuietIssuing, SubmitIssuing, TakenIssuing DEF Proceeds
<1>3. CASE \E n \in Entities :
             \/ \E d \in Dispatches :
                  DispatchMapped(d, n) \/ DispatchAbsent(d, n) \/ DispatchExhausted(d, n)
             \/ \E p \in Passivations : PassivateReads(p, n)
  BY <1>3, CallerIssuing, AbsentIssuing, PassivateIssuing
<1>4. CASE \E d \in Dispatches : Poll(d) \/ DropFuture(d)
  BY <1>4, CallerIssuing, EntitiesAssumption
<1>5. CASE \E id \in ActivationIds :
             \/ ActivationReports(id) \/ FenceReports(id)
             \/ \E d \in Dispatches : DeliveryAccepted(id, d) \/ DeliveryRefused(id, d)
             \/ \E mode \in Modes : RetirementReports(id, mode)
  BY <1>5, TaskIssuing
<1> QED BY <1>1, <1>2, <1>3, <1>4, <1>5 DEF Next

-----------------------------------------------------------------------------
(* The steps of the slots and their outputs.                               *)

LEMMA SubmitRest ==
  ASSUME IInv, WInv, HandInv, RestInv, NEW c \in calls, Submit(c)
  PROVE  RestInv'
<1> DEFINE r == Reduce(slots[c.slot], c.event)
           m == Call(c.by, "interpret", c.slot, NoEvent)
<1>1. /\ c.at = "submit" /\ UNCHANGED <<lastId, map, home, abandoned, future, answer, panics, lost>>
      /\ slots' = [slots EXCEPT ![c.slot] = r.slot]
      /\ calls' = (calls \ {c}) \cup {m}
  BY DEF Submit, Moved
<1>2. m.at = "interpret" /\ m.event.trigger = "None"
  BY DEF Call, NoEvent
<1>3. r.slot.phase # "Inactive" => Live(c.slot)
  <2>1. c.slot \in ActivationIds /\ c.slot \in 1 .. lastId /\ c.event \in Events /\ lastId \in Nat
    BY <1>1, CallFields, IssuedIds DEF IInv, TypeOK
  <2>2. slots[c.slot] \in SlotType /\ (Live(c.slot) => slots[c.slot].id \in ActivationIds)
    BY <2>1 DEF IInv, TypeOK, OneLiveIncarnation
  <2>3. Outcome(slots[c.slot], r)
    BY <2>1, <2>2, ReduceOutcome DEF Live
  <2> QED BY <2>3 DEF Outcome, Live
<1> HIDE DEF r, m
<1>4. Homes'
  BY <1>1 DEF RestInv, Homes
<1>5. Routed'
  <2> SUFFICES ASSUME NEW b \in calls', b.at = "submit", b.event.trigger # "Dispatch",
                      Live(b.event.id)'
               PROVE  b.slot = b.event.id
    BY DEF Routed
  <2>1. b \in calls
    BY <1>1, <1>2
  <2>2. b.event \in Events
    BY <2>1, CallFields DEF IInv, TypeOK
  <2>3. b.event.id \in ActivationIds
    BY <2>2, EventFields
  <2>4. Live(b.event.id)
    BY <1>1, <1>3, <2>3 DEF Live, IInv, TypeOK
  <2> QED BY <2>1, <2>4 DEF RestInv, Routed
<1>6. Answered'
  BY <1>1, <1>2, IdleCalls DEF RestInv, Answered
<1>7. Calm'
  <2>1. ASSUME panics = 0, NEW s \in 1 .. lastId PROVE Expected(s)'
    <3>1. Expected(s)
      BY <2>1 DEF RestInv, Calm
    <3>2. CASE s = c.slot
      BY <3>1, <3>2, SubmitExpected
    <3>3. CASE s # c.slot
      <4>1. /\ slots'[s] = slots[s] /\ outputs'[s] = outputs[s]
            /\ Live(s) => \A w \in Errands(s) : Underway(s, w) => Underway(s, w)'
        BY <3>3, SubmitErrands
      <4> QED BY <1>1, <3>1, <4>1, ExpectedKept
    <3> QED BY <3>2, <3>3
  <2> QED BY <1>1, <2>1 DEF RestInv, Calm
<1> QED BY <1>4, <1>5, <1>6, <1>7 DEF RestInv

LEMMA ApplyRest ==
  ASSUME IInv, RestInv, NEW c \in calls, ApplyEffect(c)
  PROVE  RestInv'
<1>1. PICK s : s = c.slot
  OBVIOUS
<1>2. PICK q : q = outputs[s]
  OBVIOUS
<1>3. /\ s \in ActivationIds /\ s \in 1 .. lastId
      /\ q \in Seq(Seq(EffectType) \ {<< >>}) /\ q # << >>
  BY <1>1, <1>2, Owned DEF ApplyEffect
<1> DEFINE fx == Head(Head(q))
           left == Batches(Tail(Head(q))) \o Tail(q)
<1>4. \A gx : Queues(q, gx) => gx = fx \/ Queues(left, gx)
  BY <1>3, QueuesTaken
<1>5. /\ outputs' = [outputs EXCEPT ![s] = left]
      /\ tasks' = tasks \cup Started(<< fx >>)
      /\ Complete(Refused(<< fx >>), "Refused") /\ Wake
      /\ fx.type = "Remove" => RemoveMatching(s)
      /\ fx.type # "Remove" => map' = map
      /\ UNCHANGED <<lastId, home, slots, abandoned, calls, panics, lost>>
  BY <1>1, <1>2 DEF ApplyEffect, Batch, history
<1> HIDE DEF fx, left
<1>6. /\ outputs'[s] = left
      /\ \A x \in ActivationIds : x # s => outputs'[x] = outputs[x]
  BY <1>3, <1>5 DEF IInv, TypeOK
<1>7. \A n \in Entities : map'[n] # NoActivation => map'[n] = map[n]
  BY <1>5 DEF RemoveMatching
<1>8. fx.type = "Remove" => map'[home[s]] # s
  <2>1. home[s] \in Entities
    BY <1>3 DEF IInv, TypeOK
  <2>2. s # NoActivation
    BY <1>3 DEF NoActivation
  <2> QED BY <1>5, <2>1, <2>2 DEF RemoveMatching
<1>9. fx.type \in Asynchronous => fx \in tasks'
  BY <1>5, StartedOne
<1>10. tasks \subseteq tasks'
  BY <1>5
<1>11. Homes'
  BY <1>5, <1>7 DEF RestInv, Homes
<1>12. Routed'
  BY <1>5 DEF RestInv, Routed, Live
<1>13. Answered'
  BY <1>5, AnswersStay DEF RestInv, Answered
<1>14. ASSUME NEW x \in 1 .. lastId, Expected(x) PROVE Expected(x)'
  <2>1. x \in ActivationIds /\ home[x] \in Entities /\ x # NoActivation
    <3>1. x \in ActivationIds
      BY IssuedIds DEF IInv
    <3>2. x # NoActivation
      BY DEF NoActivation
    <3> QED BY <3>1, <3>2 DEF IInv, TypeOK
  <2>2. ASSUME NEW w \in Errands(x), Underway(x, w) PROVE Underway(x, w)'
    <3>1. CASE x # s
      BY <1>5, <1>6, <1>10, <2>1, <2>2, <3>1 DEF Underway
    <3>2. CASE x = s
      <4>1. w = fx => w \in tasks'
        BY <1>9, <2>1, ErrandTyped
      <4> QED BY <1>2, <1>4, <1>5, <1>6, <1>10, <2>2, <3>2, <4>1 DEF Underway
    <3> QED BY <3>1, <3>2
  <2>3. ASSUME map'[home'[x]] = x
        PROVE  /\ map[home[x]] = x
               /\ Queues(outputs[x], RemoveEntry(x)) => Queues(outputs'[x], RemoveEntry(x))
    <3>1. map[home[x]] = x
      BY <1>5, <1>7, <2>1, <2>3
    <3>2. CASE x # s
      BY <1>6, <2>1, <3>1, <3>2
    <3>3. CASE x = s
      <4>1. fx.type # "Remove"
        BY <1>5, <1>8, <2>3, <3>3
      <4>2. fx # RemoveEntry(x)
        BY <4>1, ErrandFields
      <4> QED BY <1>2, <1>4, <1>6, <3>1, <3>3, <4>2
    <3> QED BY <3>2, <3>3
  <2>4. slots'[x] = slots[x]
    BY <1>5
  <2> QED BY <1>14, <2>2, <2>3, <2>4, ExpectedKept
<1>15. \A d \in Dispatches : panics = 0 /\ future'[d] = "parked" => answer'[d] = "Awaiting"
  BY <1>5, WakeRest
<1>16. Calm'
  BY <1>5, <1>14, <1>15 DEF RestInv, Calm
<1> QED BY <1>11, <1>12, <1>13, <1>16 DEF RestInv

LEMMA AbsentRest ==
  ASSUME IInv, Issuing, RestInv, NEW d \in Dispatches, NEW n \in Entities, DispatchAbsent(d, n)
  PROVE  RestInv'
<1>1. PICK id \in ActivationIds : Allocated(id) /\ lastId' = id /\ Claim(d, n, id)
  BY DEF DispatchAbsent
<1> DEFINE r == Reduce(Inactive, [trigger |-> "ClaimActivation", id |-> id, d |-> d])
           m == Call(d, "interpret", id, NoEvent)
<1>2. /\ map' = [map EXCEPT ![n] = id]
      /\ home' = [home EXCEPT ![id] = n]
      /\ slots' = [slots EXCEPT ![id] = r.slot]
      /\ outputs' = [outputs EXCEPT ![id] = Batches(r.effects)]
      /\ future' = [future EXCEPT ![d] = "polled"]
      /\ calls' = calls \cup {m}
      /\ UNCHANGED <<abandoned, tasks, answer, panics, lost>>
  BY <1>1 DEF Claim, history
<1>3. r.slot = Activating(id, << d >>) /\ r.effects = << StartActivation(id) >>
  BY DEF Reduce, DecideInactive, Decision, Inactive, Slot
<1>4. m.at = "interpret" /\ m.event.trigger = "None"
  BY DEF Call, NoEvent
<1>5. /\ lastId \in Nat /\ lastId' = lastId + 1 /\ id = lastId + 1
      /\ \A x \in 1 .. lastId' : x = id \/ x \in 1 .. lastId
      /\ \A x \in 0 .. lastId : x # id
  BY <1>1, IssuedIds DEF Allocated, IInv
<1> HIDE DEF r, m
<1>6. /\ slots'[id] = r.slot /\ outputs'[id] = Batches(r.effects)
      /\ home'[id] = n /\ map'[n] = id
      /\ \A x \in ActivationIds \ {id} :
           slots'[x] = slots[x] /\ outputs'[x] = outputs[x] /\ home'[x] = home[x]
      /\ \A y \in Entities \ {n} : map'[y] = map[y]
  BY <1>1, <1>2 DEF IInv, TypeOK
<1>7. 1 .. lastId \subseteq ActivationIds
  BY IssuedIds DEF IInv
<1>8. Homes'
  <2> SUFFICES ASSUME NEW y \in Entities, map'[y] # NoActivation PROVE home'[map'[y]] = y
    BY DEF Homes
  <2>1. CASE y = n
    BY <1>6, <2>1
  <2>2. CASE y # n
    <3>1. map'[y] = map[y] /\ map[y] \in 0 .. lastId
      BY <1>6, <2>2 DEF IInv, TypeOK
    <3>2. map[y] \in 1 .. lastId
      BY <1>5, <2>2, <3>1 DEF NoActivation
    <3>3. map[y] \in ActivationIds \ {id}
      BY <1>5, <1>7, <3>1, <3>2
    <3> QED BY <1>6, <2>2, <3>1, <3>3 DEF RestInv, Homes
  <2> QED BY <2>1, <2>2
<1>9. Routed'
  <2> SUFFICES ASSUME NEW b \in calls', b.at = "submit", b.event.trigger # "Dispatch",
                      Live(b.event.id)'
               PROVE  b.slot = b.event.id
    BY DEF Routed
  <2>1. b \in calls
    BY <1>2, <1>4
  <2>2. b.event \in Events
    BY <2>1, CallFields DEF IInv, TypeOK
  <2>3. b.event.trigger # "None"
    BY <2>2 DEF Events, ReportedType
  <2>4. b.event.id \in 1 .. lastId
    BY <2>1, <2>3 DEF Issuing
  <2>5. b.event.id \in ActivationIds \ {id}
    BY <1>5, <1>7, <2>4
  <2>6. Live(b.event.id)
    BY <1>6, <2>5 DEF Live
  <2> QED BY <2>1, <2>6 DEF RestInv, Routed
<1>10. Answered'
  BY <1>2, <1>4, IdleCalls DEF RestInv, Answered
<1>11. ASSUME NEW x \in 1 .. lastId, Expected(x) PROVE Expected(x)'
  <2>1. x \in ActivationIds \ {id} /\ x # id
    BY <1>5, <1>7
  <2>2. slots'[x] = slots[x] /\ outputs'[x] = outputs[x] /\ home'[x] = home[x]
    BY <1>6, <2>1
  <2>3. \A w \in Errands(x) : Underway(x, w) => Underway(x, w)'
    BY <1>2, <2>2 DEF Underway
  <2>4. map'[home'[x]] = x => map[home[x]] = x
    <3>1. home[x] \in Entities
      BY <2>1 DEF IInv, TypeOK
    <3> QED BY <1>6, <2>1, <2>2, <3>1
  <2> QED BY <1>11, <2>2, <2>3, <2>4, ExpectedKept
<1>12. Expected(id)'
  <2>1. Queues(outputs'[id], StartActivation(id))
    BY <1>3, <1>6, QueuesBatches, SingleRange
  <2>2. Underway(id, StartActivation(id))'
    BY <2>1 DEF Underway
  <2>3. slots'[id].phase = "Activating"
    BY <1>3, <1>6 DEF Activating, Slot
  <2> QED BY <2>2, <2>3 DEF Expected
<1>13. \A x \in Dispatches : future'[x] = "parked" => future[x] = "parked"
  BY <1>2 DEF IInv, TypeOK
<1>14. Calm'
  BY <1>2, <1>5, <1>11, <1>12, <1>13 DEF RestInv, Calm
<1> QED BY <1>8, <1>9, <1>10, <1>14 DEF RestInv

(* A panic ends the calm.                                                  *)
LEMMA PanicRest ==
  ASSUME IInv, RestInv, NEW c \in calls, InterpreterPanics(c)
  PROVE  RestInv'
<1>1. /\ UNCHANGED <<map, home, slots>> /\ calls' \subseteq calls /\ panics' = panics + 1
      /\ \E ds : Complete(ds, "Refused")
  BY DEF InterpreterPanics
<1>2. panics' # 0
  BY <1>1 DEF IInv, TypeOK
<1>3. Homes' /\ Routed' /\ Calm'
  BY <1>1, <1>2 DEF RestInv, Homes, Routed, Calm, Live
<1>4. Answered'
  BY <1>1, AnswersStay DEF RestInv, Answered
<1> QED BY <1>3, <1>4 DEF RestInv

LEMMA StutterRest ==
  ASSUME IInv, RestInv, UNCHANGED vars
  PROVE  RestInv'
<1>1. UNCHANGED <<lastId, map, home, slots, outputs, abandoned, tasks, calls, future, answer, panics, lost>>
  BY DEF vars, directory, history
<1>2. \A s \in 1 .. lastId : \A w \in Errands(s) : Underway(s, w) => Underway(s, w)'
  BY <1>1, ErrandsUnmoved
<1> QED BY <1>1, <1>2, RestUnmoved DEF RestInv, Calm

LEMMA NextRest == IInv /\ WInv /\ HandInv /\ Issuing /\ RestInv /\ [Next]_vars => RestInv'
<1> SUFFICES ASSUME IInv, WInv, HandInv, Issuing, RestInv, Next PROVE RestInv'
  BY StutterRest
<1>1. CASE \E c \in calls : Proceeds(c) \/ InterpreterPanics(c)
  BY <1>1, FindsRest, SubmitRest, QuietRest, ApplyRest, PanicRest DEF Proceeds
<1>2. CASE \E n \in Entities :
             \/ \E d \in Dispatches :
                  DispatchMapped(d, n) \/ DispatchAbsent(d, n) \/ DispatchExhausted(d, n)
             \/ \E p \in Passivations : PassivateReads(p, n)
  BY <1>2, MappedRest, AbsentRest, ExhaustedRest, PassivateRest
<1>3. CASE \E d \in Dispatches : Poll(d) \/ DropFuture(d)
  BY <1>3, PollRest, DropRest
<1>4. CASE \E id \in ActivationIds :
             \/ ActivationReports(id) \/ FenceReports(id)
             \/ \E d \in Dispatches : DeliveryAccepted(id, d) \/ DeliveryRefused(id, d)
             \/ \E mode \in Modes : RetirementReports(id, mode)
  BY <1>4, TaskRest, AcceptedRest
<1> QED BY <1>1, <1>2, <1>3, <1>4 DEF Next

-----------------------------------------------------------------------------
(* When nothing is on its way, nobody waits.                               *)

LEMMA NothingUnderway ==
  ASSUME IInv, NoEffectStranded, RestInv, panics = 0, calls = {}, tasks = {},
         NEW s \in ActivationIds
  PROVE  /\ outputs[s] = << >>
         /\ \A w : ~ Underway(s, w)
         /\ \A r : Owed(s, r) => r = 0
<1>1. outputs[s] = << >>
  BY DEF NoEffectStranded, RestInv, Calm
<1>2. \A w : ~ Underway(s, w)
  BY <1>1 DEF Underway, Queues
<1>3. ASSUME NEW r, Owed(s, r) PROVE r = 0
  <2>1. PICK ds \in SUBSET Dispatches :
          /\ IsFiniteSet(ds) /\ Cardinality(ds) = r
          /\ \A d \in ds : Underway(s, Deliver(s, d))
    BY <1>3 DEF Owed
  <2>2. ds = {}
    BY <1>2, <2>1
  <2> QED BY <2>1, <2>2, FS_EmptySet
<1> QED BY <1>1, <1>2, <1>3

LEMMA SlotsAtRest ==
  ASSUME IInv, WInv, NoEffectStranded, RestInv, panics = 0, calls = {}, tasks = {},
         NEW s \in 1 .. lastId
  PROVE  /\ slots[s].phase \in {"Inactive", "Active"}
         /\ map[home[s]] = s => slots[s] = Active(s, 0)
<1>1. s \in ActivationIds /\ Expected(s)
  BY IssuedIds DEF IInv, RestInv, Calm
<1>2. /\ \A w : ~ Underway(s, w)
      /\ \A r : Owed(s, r) => r = 0
      /\ ~ Queues(outputs[s], RemoveEntry(s))
  BY <1>1, NothingUnderway DEF Underway
<1>3. slots[s] \in SlotType
  BY <1>1 DEF IInv, TypeOK
<1>4. slots[s].phase \notin {"Activating", "Draining", "Retiring"}
  BY <1>1, <1>2 DEF Expected
<1>5. slots[s].phase \in {"Inactive", "Active"}
  BY <1>3, <1>4 DEF SlotType, Phases
<1>6. ASSUME map[home[s]] = s PROVE slots[s] = Active(s, 0)
  <2>1. slots[s].phase = "Active" /\ slots[s].reservations = 0
    BY <1>1, <1>2, <1>5, <1>6 DEF Expected
  <2>2. slots[s].id = s
    BY <2>1 DEF IInv, OneLiveIncarnation, Live
  <2>3. slots[s].waiters = << >>
    BY <1>1, <2>1 DEF WInv, WaiterSeats
  <2> QED BY <1>3, <2>1, <2>2, <2>3 DEF SlotType, Active, Slot
<1> QED BY <1>5, <1>6

LEMMA AtRest ==
  ASSUME IInv, WInv, HandInv, RestInv, NoEffectStranded
  PROVE  NothingWedgedAtRest
<1> SUFFICES ASSUME panics = 0, calls = {}, tasks = {}
             PROVE  /\ \A n \in Entities :
                         map[n] # NoActivation => slots[map[n]] = Active(map[n], 0)
                    /\ \A d \in Dispatches :
                         /\ future[d] # "parked"
                         /\ future[d] = "polled" => answer[d] # "Awaiting"
  BY DEF NothingWedgedAtRest
<1>1. ASSUME NEW n \in Entities, map[n] # NoActivation PROVE slots[map[n]] = Active(map[n], 0)
  <2>1. home[map[n]] = n
    BY <1>1 DEF RestInv, Homes
  <2>2. map[n] \in 1 .. lastId
    BY <1>1, IssuedIds DEF IInv, TypeOK, NoActivation
  <2> QED BY <2>1, <2>2, SlotsAtRest
<1>2. ASSUME NEW d \in Dispatches, future[d] \in {"polled", "parked"} PROVE answer[d] # "Awaiting"
  <2>1. d \notin lost /\ Hand(d)
    BY DEF RestInv, Calm, HandInv
  <2>2. PICK k, x : At(d, k, x)
    BY <1>2, <2>1 DEF Hand
  <2>3. k # "waiting"
    <3> SUFFICES ASSUME x \in ActivationIds, d \in Range(slots[x].waiters) PROVE FALSE
      BY <2>2 DEF At
    <3>1. slots[x].waiters # << >>
      BY NoWaiters
    <3>2. slots[x].phase = "Activating"
      BY <3>1 DEF WInv, WaiterSeats
    <3>3. x \in 1 .. lastId
      BY <3>2, IssuedIds DEF IInv, Unissued, Live, ActivationIds
    <3> QED BY <3>2, <3>3, SlotsAtRest
  <2>4. k # "queued"
    BY <2>2, NothingUnderway DEF At, InQueue
  <2> QED BY <2>2, <2>3, <2>4 DEF At
<1>3. \A d \in Dispatches : future[d] = "parked" => answer[d] = "Awaiting"
  BY DEF RestInv, Calm
<1> QED BY <1>1, <1>2, <1>3

LEMMA InitRest == Init => Issuing /\ RestInv
<1> SUFFICES ASSUME Init PROVE Issuing /\ RestInv
  OBVIOUS
<1>1. Issuing
  BY DEF Init, Issuing, Queues
<1>2. Homes /\ Routed /\ Answered
  BY DEF Init, Homes, Routed, Answered
<1>3. abandoned = {} /\ lost = {} /\ \A d \in Dispatches : future[d] # "parked"
  BY DEF Init
<1>4. 1 .. lastId = {}
  BY DEF Init
<1> QED BY <1>1, <1>2, <1>3, <1>4 DEF RestInv, Calm

(* Nothing is wedged at rest, whatever interleaving led there: unless the  *)
(* integration panicked, a slot that waits for a fact has the effect, the  *)
(* task or the call underway that will bring it, so that when none is left *)
(* every entry is Active without deliveries and every waiting caller has   *)
(* its answer and was woken for it.                                        *)
THEOREM NothingWedgedAtRestHolds == Spec => []NothingWedgedAtRest
<1>1. IInv /\ WInv /\ HandInv /\ RestInv /\ NoEffectStranded => NothingWedgedAtRest
  BY AtRest
<1> QED
  BY <1>1, InitRest, InitWaiters, InitHand, NextWaiters, NextHand, NextIssuing, NextRest,
     NoEffectStrandedHolds, Invariance, PTL DEF Spec
=============================================================================
