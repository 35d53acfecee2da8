-------------------------- MODULE EntitySlotProofs --------------------------
(***************************************************************************)
(* Proofs about EntitySlot, and about EntityMailbox, which composes it     *)
(* with the lanes behind its endpoints, for every waiter limit, every set  *)
(* of dispatches, every number of activations and every lane capacity.     *)
(***************************************************************************)
EXTENDS EntityMailbox, NumberedSequences, FiniteSetTheorems, SequenceTheorems, TLAPS

-----------------------------------------------------------------------------
(* What a batch of effects starts and what it refuses.                     *)

LEMMA BatchEmpty == Started(<< >>) = {} /\ Refused(<< >>) = {}
BY DEF Started, Refused, Range

LEMMA BatchReject ==
  ASSUME NEW d, NEW reason
  PROVE  /\ Started(<< Reject(d, reason) >>) = {}
         /\ Refused(<< Reject(d, reason) >>) = {d}
BY DEF Started, Refused, Range, Reject, Asynchronous

LEMMA BatchTask ==
  ASSUME NEW fx, fx.type \in Asynchronous
  PROVE  /\ Started(<< fx >>) = {fx}
         /\ Refused(<< fx >>) = {}
BY DEF Started, Refused, Range, Asynchronous

LEMMA BatchRemove ==
  ASSUME NEW id
  PROVE  /\ Started(<< RemoveEntry(id) >>) = {}
         /\ Refused(<< RemoveEntry(id) >>) = {}
BY DEF Started, Refused, Range, RemoveEntry, Asynchronous

LEMMA BatchDeliveries ==
  ASSUME NEW id, NEW S, NEW ws \in Seq(S)
  PROVE  /\ Started(Deliveries(id, ws)) = {Deliver(id, d) : d \in Range(ws)}
         /\ Refused(Deliveries(id, ws)) = {}
BY DEF Started, Refused, Range, Deliveries, Deliver, Asynchronous

LEMMA BatchRejections ==
  ASSUME NEW S, NEW ws \in Seq(S), NEW reason
  PROVE  /\ Started(Rejections(ws, reason)) = {}
         /\ Refused(Rejections(ws, reason)) = Range(ws)
<1> DEFINE fxs == Rejections(ws, reason)
<1>1. \A i \in DOMAIN fxs : fxs[i] = Reject(ws[i], reason)
  BY DEF Rejections
<1>2. DOMAIN fxs = DOMAIN ws
  BY DEF Rejections
<1>3. Range(fxs) = {Reject(d, reason) : d \in Range(ws)}
  BY <1>1, <1>2 DEF Range
<1>4. \A d : Reject(d, reason).type = "Reject" /\ Reject(d, reason).d = d
  BY DEF Reject
<1> HIDE DEF fxs
<1>5. Started(fxs) = {}
  BY <1>3, <1>4 DEF Started, Asynchronous
<1>6. {gx \in Range(fxs) : gx.type = "Reject"} = Range(fxs)
  BY <1>3, <1>4
<1>7. Refused(fxs) = Range(ws)
  BY <1>3, <1>4, <1>6 DEF Refused
<1> QED BY <1>5, <1>7 DEF fxs

-----------------------------------------------------------------------------
(* What the waiters become.                                                *)

(* As many reserved deliveries as there were waiters.                      *)
LEMMA DeliveriesCardinality ==
  ASSUME NEW id, NEW S, NEW ws \in Seq(S), IsInjective(ws)
  PROVE  LET T == {Deliver(id, d) : d \in Range(ws)}
         IN  IsFiniteSet(T) /\ Cardinality(T) = Len(ws)
<1> DEFINE T == {Deliver(id, d) : d \in Range(ws)}
           f == [i \in 1 .. Len(ws) |-> Deliver(id, ws[i])]
<1>1. \A c, d : Deliver(id, c) = Deliver(id, d) => c = d
  BY DEF Deliver
<1>2. f \in [1 .. Len(ws) -> T]
  BY DEF Range
<1>3. f \in Injection(1 .. Len(ws), T)
  BY <1>1, <1>2 DEF Injection, IsInjective
<1>4. f \in Surjection(1 .. Len(ws), T)
  <2>1. \A t \in T : \E i \in 1 .. Len(ws) : f[i] = t
    BY DEF Range
  <2> QED BY <1>2, <2>1 DEF Surjection
<1>5. ExistsBijection(1 .. Len(ws), T)
  BY <1>3, <1>4 DEF ExistsBijection, Bijection
<1>6. IsFiniteSet(1 .. Len(ws)) /\ Cardinality(1 .. Len(ws)) = Len(ws)
  <2>1. Len(ws) \in Nat
    OBVIOUS
  <2> QED BY <2>1, FS_Interval
<1> QED BY <1>5, <1>6, FS_Bijection

-----------------------------------------------------------------------------
(* What each fact does to the slot and its tasks, phase by phase.          *)

LEMMA SlotShapes ==
  ASSUME TypeOK
  PROVE  \/ slot = Inactive
         \/ /\ slot = Activating(slot.id, slot.waiters)
            /\ slot.phase = "Activating" /\ slot.reservations = 0
         \/ /\ slot = Active(slot.id, slot.reservations)
            /\ slot.phase = "Active" /\ slot.waiters = << >>
         \/ /\ slot = Draining(slot.id, slot.reservations)
            /\ slot.phase = "Draining" /\ slot.waiters = << >>
         \/ /\ slot = Retiring(slot.id)
            /\ slot.phase = "Retiring" /\ slot.waiters = << >>
            /\ slot.reservations = 0
BY DEF TypeOK, SlotType, Inactive, Activating, Active, Draining, Retiring, Slot

Unchanged(finished) ==
  slot' = slot /\ tasks' = tasks \ finished /\ returned' = returned

Refusing(d, finished) ==
  /\ slot' = slot
  /\ tasks' = tasks \ finished
  /\ returned' = returned \cup {d}

LEMMA SubmitIgnored ==
  ASSUME NEW e, NEW fin, Submit(e, fin), Reduce(slot, e) = Ignore(slot)
  PROVE  Unchanged(fin)
BY BatchEmpty DEF Submit, Ignore, Decision, Unchanged

LEMMA SubmitRefused ==
  ASSUME NEW e, NEW fin, NEW d, NEW reason,
         Submit(e, fin), Reduce(slot, e) = Refuse(slot, d, reason)
  PROVE  Refusing(d, fin)
BY BatchReject DEF Submit, Refuse, Decision, Refusing

LEMMA SubmitTask ==
  ASSUME NEW e, NEW fin, NEW s, NEW fx, Submit(e, fin),
         Reduce(slot, e) = Decision(s, << fx >>), fx.type \in Asynchronous
  PROVE  slot' = s /\ tasks' = (tasks \ fin) \cup {fx} /\ returned' = returned
BY BatchTask DEF Submit, Decision

LEMMA ClaimStep ==
  ASSUME NEW d, Claim(d), TypeOK
  PROVE  /\ slot = Inactive
         /\ slot' = Activating(lastId + 1, << d >>)
         /\ tasks' = tasks \cup {StartActivation(lastId + 1)}
         /\ returned' = returned
<1> DEFINE e == [trigger |-> "ClaimActivation", id |-> lastId + 1, d |-> d]
<1>1. slot = Inactive
  BY SlotShapes DEF Claim
<1>2. Reduce(slot, e) = Decision(Activating(lastId + 1, << d >>),
                                 << StartActivation(lastId + 1) >>)
  BY <1>1 DEF Reduce, DecideInactive, Inactive, Slot
<1>3. StartActivation(lastId + 1).type \in Asynchronous
  BY DEF StartActivation, Asynchronous
<1>4. Submit(e, {})
  BY DEF Claim
<1> QED BY <1>1, <1>2, <1>3, <1>4, SubmitTask

LEMMA DispatchStep ==
  ASSUME NEW d, Dispatch(d), TypeOK
  PROVE  \/ Refusing(d, {})
         \/ /\ slot.phase = "Activating"
            /\ Len(slot.waiters) < WaiterLimit
            /\ slot' = Activating(slot.id, Append(slot.waiters, d))
            /\ tasks' = tasks /\ returned' = returned
         \/ /\ slot.phase = "Active"
            /\ slot' = Active(slot.id, slot.reservations + 1)
            /\ tasks' = tasks \cup {Deliver(slot.id, d)}
            /\ returned' = returned
<1> DEFINE e == [trigger |-> "Dispatch", d |-> d]
<1>0. Submit(e, {})
  BY DEF Dispatch
<1>1. CASE slot = Inactive
  <2>1. Reduce(slot, e) = Refuse(slot, d, "Unavailable")
    BY <1>1 DEF Reduce, DecideInactive, Inactive, Slot
  <2> QED BY <1>0, <2>1, SubmitRefused
<1>2. CASE slot.phase = "Activating" /\ Len(slot.waiters) < WaiterLimit
  <2>1. Reduce(slot, e) = Ignore(Activating(slot.id, Append(slot.waiters, d)))
    BY <1>2 DEF Reduce, DecideActivating, AdmitWaiter
  <2> QED BY <1>0, <1>2, <2>1, BatchEmpty DEF Submit, Ignore, Decision
<1>3. CASE slot.phase = "Activating" /\ ~(Len(slot.waiters) < WaiterLimit)
  <2>1. Reduce(slot, e) = Refuse(slot, d, "Busy")
    BY <1>3 DEF Reduce, DecideActivating, AdmitWaiter
  <2> QED BY <1>0, <2>1, SubmitRefused
<1>4. CASE slot.phase = "Active"
  <2>1. Reduce(slot, e) = Decision(Active(slot.id, slot.reservations + 1),
                                   << Deliver(slot.id, d) >>)
    BY <1>4 DEF Reduce, DecideActive, ReserveDelivery
  <2>2. Deliver(slot.id, d).type \in Asynchronous
    BY DEF Deliver, Asynchronous
  <2> QED BY <1>0, <1>4, <2>1, <2>2, SubmitTask
<1>5. CASE slot.phase \in {"Draining", "Retiring"}
  <2>1. Reduce(slot, e) = Refuse(slot, d, "Draining")
    BY <1>5 DEF Reduce, DecideDraining, DecideRetiring
  <2> QED BY <1>0, <2>1, SubmitRefused
<1> QED BY <1>1, <1>2, <1>3, <1>4, <1>5, SlotShapes

LEMMA CancelStep ==
  ASSUME NEW id, NEW d, Cancel(id, d), TypeOK
  PROVE  \/ Unchanged({})
         \/ /\ slot.phase = "Activating"
            /\ slot' = Activating(slot.id, RemoveFirst(slot.waiters, d))
            /\ tasks' = tasks /\ returned' = returned
<1> DEFINE e == [trigger |-> "CancelWaiter", id |-> id, d |-> d]
<1>0. Submit(e, {})
  BY DEF Cancel
<1>1. CASE slot.phase = "Activating" /\ id = slot.id
  <2>1. Reduce(slot, e) =
          Ignore(Activating(slot.id, RemoveFirst(slot.waiters, d)))
    BY <1>1 DEF Reduce, DecideActivating, CancelWaiter
  <2> QED BY <1>0, <1>1, <2>1, BatchEmpty DEF Submit, Ignore, Decision
<1>2. CASE slot.phase = "Activating" /\ id # slot.id
  <2>1. Reduce(slot, e) = Ignore(slot)
    BY <1>2 DEF Reduce, DecideActivating, CancelWaiter
  <2> QED BY <1>0, <2>1, SubmitIgnored
<1>3. CASE slot.phase # "Activating"
  <2>1. Reduce(slot, e) = Ignore(slot)
    BY <1>3, SlotShapes
    DEF Reduce, DecideInactive, DecideActive, DecideDraining, DecideRetiring,
        Inactive, Slot
  <2> QED BY <1>0, <2>1, SubmitIgnored
<1> QED BY <1>1, <1>2, <1>3

LEMMA ActivationSucceededStep ==
  ASSUME NEW id, ActivationSucceeded(id), TypeOK
  PROVE  \/ /\ slot.phase = "Activating" /\ slot.id = id
            /\ slot' = Active(id, Len(slot.waiters))
            /\ tasks' = (tasks \ {StartActivation(id)})
                          \cup {Deliver(id, d) : d \in Range(slot.waiters)}
            /\ returned' = returned
         \/ /\ ~(slot.phase = "Activating" /\ slot.id = id)
            /\ slot' = slot
            /\ tasks' = (tasks \ {StartActivation(id)})
                          \cup {Retire(id, "Forced")}
            /\ returned' = returned
<1> DEFINE e == [trigger |-> "ActivationSucceeded", id |-> id]
           fin == {StartActivation(id)}
<1>0. Submit(e, fin)
  BY DEF ActivationSucceeded
<1>1. CASE slot.phase = "Activating" /\ slot.id = id
  <2>1. Reduce(slot, e) = Decision(Active(id, Len(slot.waiters)),
                                   Deliveries(id, slot.waiters))
    BY <1>1 DEF Reduce, DecideActivating, FinishActivation
  <2>2. slot.waiters \in Seq(Dispatches)
    BY DEF TypeOK, SlotType
  <2>3. /\ Started(Deliveries(id, slot.waiters)) =
             {Deliver(id, d) : d \in Range(slot.waiters)}
        /\ Refused(Deliveries(id, slot.waiters)) = {}
    BY <2>2, BatchDeliveries
  <2> HIDE DEF e, fin
  <2>4. /\ slot' = Active(id, Len(slot.waiters))
        /\ tasks' = (tasks \ fin) \cup Started(Deliveries(id, slot.waiters))
        /\ returned' = returned \cup Refused(Deliveries(id, slot.waiters))
    BY <1>0, <2>1 DEF Submit, Decision
  <2> QED BY <1>1, <2>3, <2>4 DEF fin
<1>2. CASE ~(slot.phase = "Activating" /\ slot.id = id)
  <2>1. Reduce(slot, e) = Decision(slot, << Retire(id, "Forced") >>)
    BY <1>2, SlotShapes
    DEF Reduce, DecideInactive, DecideActivating, DecideActive, DecideDraining,
        DecideRetiring, FinishActivation, RetireStale, Inactive, Slot
  <2>2. Retire(id, "Forced").type \in Asynchronous
    BY DEF Retire, Asynchronous
  <2> QED BY <1>0, <1>2, <2>1, <2>2, SubmitTask
<1> QED BY <1>1, <1>2

LEMMA ActivationFailedStep ==
  ASSUME NEW id, ActivationFailed(id), TypeOK
  PROVE  \/ /\ slot.phase = "Activating" /\ slot.id = id
            /\ slot' = Inactive
            /\ tasks' = tasks
            /\ returned' = returned \cup Range(slot.waiters)
         \/ /\ ~(slot.phase = "Activating" /\ slot.id = id)
            /\ Unchanged({})
<1> DEFINE e == [trigger |-> "ActivationFailed", id |-> id]
<1>0. Submit(e, {})
  BY DEF ActivationFailed
<1>1. CASE slot.phase = "Activating" /\ slot.id = id
  <2> DEFINE rs == Rejections(slot.waiters, "Unavailable")
             fxs == Append(rs, RemoveEntry(id))
  <2>1. Reduce(slot, e) = Decision(Inactive, fxs)
    BY <1>1 DEF Reduce, DecideActivating, FailActivation
  <2>2. slot.waiters \in Seq(Dispatches)
    BY DEF TypeOK, SlotType
  <2>3. rs \in Seq(Range(rs))
    BY <2>2 DEF Rejections, Range
  <2>4. Range(fxs) = Range(rs) \cup {RemoveEntry(id)}
    BY <2>3 DEF Range
  <2>5. Started(rs) = {} /\ Refused(rs) = Range(slot.waiters)
    BY <2>2, BatchRejections
  <2> HIDE DEF rs, fxs, e
  <2>6. Started(fxs) = {} /\ Refused(fxs) = Refused(rs)
    <3>1. RemoveEntry(id).type = "Remove"
      BY DEF RemoveEntry
    <3>2. {gx \in Range(fxs) : gx.type = "Reject"}
            = {gx \in Range(rs) : gx.type = "Reject"}
      BY <2>4, <3>1
    <3>3. Started(fxs) = Started(rs)
      BY <2>4, <3>1 DEF Started, Asynchronous
    <3> QED BY <2>5, <3>2, <3>3 DEF Refused
  <2> QED BY <1>0, <1>1, <2>1, <2>5, <2>6 DEF Submit, Decision
<1>2. CASE ~(slot.phase = "Activating" /\ slot.id = id)
  <2>1. Reduce(slot, e) = Ignore(slot)
    BY <1>2, SlotShapes
    DEF Reduce, DecideInactive, DecideActivating, DecideActive, DecideDraining,
        DecideRetiring, FailActivation, Inactive, Slot
  <2> QED BY <1>0, <1>2, <2>1, SubmitIgnored
<1> QED BY <1>1, <1>2

(* failure is << >> for an accepted command and << d >> for one given back *)
LEMMA DeliveryResolvedStep ==
  ASSUME NEW id, NEW d, NEW failure \in {<< >>, << d >>}, TypeOK,
         Submit([trigger |-> "DeliveryResolved", id |-> id,
                 failure |-> failure], {Deliver(id, d)})
  PROVE  /\ returned' = returned \cup Range(failure)
         /\ \/ /\ ~(slot.id = id /\ slot.phase \in {"Active", "Draining"})
               /\ slot' = slot
               /\ tasks' = tasks \ {Deliver(id, d)}
            \/ /\ slot.phase = "Active" /\ slot.id = id
               /\ slot' = Active(id, IF slot.reservations > 0
                                     THEN slot.reservations - 1 ELSE 0)
               /\ tasks' = tasks \ {Deliver(id, d)}
            \/ /\ slot.phase = "Draining" /\ slot.id = id
               /\ slot.reservations # 1
               /\ slot' = Draining(id, IF slot.reservations > 0
                                       THEN slot.reservations - 1 ELSE 0)
               /\ tasks' = tasks \ {Deliver(id, d)}
            \/ /\ slot.phase = "Draining" /\ slot.id = id
               /\ slot.reservations = 1
               /\ slot' = Draining(id, 0)
               /\ tasks' = (tasks \ {Deliver(id, d)}) \cup {EnqueueFence(id)}
<1> DEFINE e == [trigger |-> "DeliveryResolved", id |-> id, failure |-> failure]
           fin == {Deliver(id, d)}
           rs == Rejections(failure, "Unavailable")
<1>0. failure \in Seq({d})
  <2>1. << >> \in Seq({d})
    OBVIOUS
  <2>2. << d >> \in Seq({d})
    OBVIOUS
  <2> QED BY <2>1, <2>2
<1>1. Started(rs) = {} /\ Refused(rs) = Range(failure)
  BY <1>0, BatchRejections
<1>2. CASE ~(slot.id = id /\ slot.phase \in {"Active", "Draining"})
  <2>1. Reduce(slot, e) = Decision(slot, rs)
    BY <1>2, SlotShapes
    DEF Reduce, DecideInactive, DecideActivating, DecideActive, DecideDraining,
        DecideRetiring, RejectFailedDelivery, Inactive, Slot
  <2> HIDE DEF rs, e, fin
  <2>2. slot' = slot /\ tasks' = tasks \ fin
        /\ returned' = returned \cup Range(failure)
    BY <2>1, <1>1 DEF Submit, Decision, e, fin
  <2> QED BY <1>2, <2>2 DEF fin
<1>3. CASE slot.phase = "Active" /\ slot.id = id
  <2> DEFINE s == Active(id, IF slot.reservations > 0
                             THEN slot.reservations - 1 ELSE 0)
  <2>1. Reduce(slot, e) = Decision(s, rs)
    BY <1>3 DEF Reduce, DecideActive, ResolveActiveDelivery,
                RejectFailedDelivery
  <2> HIDE DEF rs, e, fin, s
  <2>2. slot' = s /\ tasks' = tasks \ fin
        /\ returned' = returned \cup Range(failure)
    BY <2>1, <1>1 DEF Submit, Decision, e, fin
  <2> QED BY <1>3, <2>2 DEF fin, s
<1>4. CASE slot.phase = "Draining" /\ slot.id = id /\ slot.reservations # 1
  <2> DEFINE s == Draining(id, IF slot.reservations > 0
                               THEN slot.reservations - 1 ELSE 0)
  <2>1. rs \in Seq(Range(rs))
    BY <1>0 DEF Rejections, Range
  <2>2. Reduce(slot, e) = Decision(s, rs \o << >>)
    BY <1>4 DEF Reduce, DecideDraining, ResolveDrainingDelivery
  <2>3. rs \o << >> = rs
    BY <2>1, ConcatEmptySeq
  <2> HIDE DEF rs, e, fin, s
  <2>4. slot' = s /\ tasks' = tasks \ fin
        /\ returned' = returned \cup Range(failure)
    BY <2>2, <2>3, <1>1 DEF Submit, Decision, e, fin
  <2> QED BY <1>4, <2>4 DEF fin, s
<1>5. CASE slot.phase = "Draining" /\ slot.id = id /\ slot.reservations = 1
  <2> DEFINE fxs == rs \o << EnqueueFence(id) >>
  <2>1. rs \in Seq(Range(rs) \cup {EnqueueFence(id)})
    BY <1>0 DEF Rejections, Range
  <2>2. Reduce(slot, e) = Decision(Draining(id, 0), fxs)
    BY <1>5 DEF Reduce, DecideDraining, ResolveDrainingDelivery
  <2>3. Range(fxs) = Range(rs) \cup {EnqueueFence(id)}
    <3>1. << EnqueueFence(id) >> \in Seq(Range(rs) \cup {EnqueueFence(id)})
      OBVIOUS
    <3>2. Range(<< EnqueueFence(id) >>) = {EnqueueFence(id)}
      BY DEF Range
    <3> DEFINE S == Range(rs) \cup {EnqueueFence(id)}
    <3> HIDE DEF rs
    <3>3. Range(rs \o << EnqueueFence(id) >>)
            = Range(rs) \cup Range(<< EnqueueFence(id) >>)
      <4>1. rs \in Seq(S) /\ << EnqueueFence(id) >> \in Seq(S)
        BY <2>1, <3>1
      <4> HIDE DEF S
      <4> QED BY <4>1, RangeConcatenation
    <3> QED BY <3>2, <3>3
  <2>4. EnqueueFence(id).type = "EnqueueFence"
    BY DEF EnqueueFence
  <2> HIDE DEF rs, e, fin, fxs
  <2>5. Started(fxs) = {EnqueueFence(id)}
    BY <1>1, <2>3, <2>4 DEF Started, Asynchronous
  <2>6. {gx \in Range(fxs) : gx.type = "Reject"}
          = {gx \in Range(rs) : gx.type = "Reject"}
    BY <2>3, <2>4
  <2>7. Refused(fxs) = Range(failure)
    BY <1>1, <2>6 DEF Refused
  <2>8. /\ slot' = Draining(id, 0)
        /\ tasks' = (tasks \ fin) \cup {EnqueueFence(id)}
        /\ returned' = returned \cup Range(failure)
    BY <2>2, <2>5, <2>7 DEF Submit, Decision, e, fin
  <2> QED BY <1>5, <2>8 DEF fin
<1> QED BY <1>2, <1>3, <1>4, <1>5

LEMMA PassivateStep ==
  ASSUME NEW id, Passivate(id), TypeOK
  PROVE  \/ Unchanged({})
         \/ /\ slot.phase = "Active" /\ slot.id = id
            /\ slot' = Draining(id, slot.reservations)
            /\ returned' = returned
            /\ IF slot.reservations = 0
               THEN tasks' = tasks \cup {EnqueueFence(id)}
               ELSE tasks' = tasks
<1> DEFINE e == [trigger |-> "BeginDrain", id |-> id]
<1>0. Submit(e, {})
  BY DEF Passivate
<1>1. CASE slot.phase = "Active" /\ slot.id = id
  <2>1. Reduce(slot, e) =
          Decision(Draining(id, slot.reservations),
                   IF slot.reservations = 0 THEN << EnqueueFence(id) >>
                                            ELSE << >>)
    BY <1>1 DEF Reduce, DecideActive, BeginDrain
  <2>2. EnqueueFence(id).type \in Asynchronous
    BY DEF EnqueueFence, Asynchronous
  <2>3. CASE slot.reservations = 0
    BY <1>0, <1>1, <2>1, <2>2, <2>3, SubmitTask
  <2>4. CASE slot.reservations # 0
    BY <1>0, <1>1, <2>1, <2>4, BatchEmpty DEF Submit, Decision
  <2> QED BY <2>3, <2>4
<1>2. CASE ~(slot.phase = "Active" /\ slot.id = id)
  <2>1. Reduce(slot, e) = Ignore(slot)
    BY <1>2, SlotShapes
    DEF Reduce, DecideInactive, DecideActivating, DecideActive, DecideDraining,
        DecideRetiring, Inactive, Slot
  <2> QED BY <1>0, <2>1, SubmitIgnored
<1> QED BY <1>1, <1>2

LEMMA FenceAcknowledgedStep ==
  ASSUME NEW id, FenceAcknowledged(id), TypeOK
  PROVE  \/ Unchanged({EnqueueFence(id)})
         \/ /\ slot.phase = "Draining" /\ slot.id = id
            /\ slot' = Retiring(id)
            /\ tasks' = (tasks \ {EnqueueFence(id)})
                          \cup {Retire(id, "Graceful")}
            /\ returned' = returned
<1> DEFINE e == [trigger |-> "FenceAcknowledged", id |-> id]
           fin == {EnqueueFence(id)}
<1>0. Submit(e, fin)
  BY DEF FenceAcknowledged
<1>1. CASE slot.phase = "Draining" /\ slot.id = id /\ slot.reservations = 0
  <2>1. Reduce(slot, e) = Decision(Retiring(id), << Retire(id, "Graceful") >>)
    BY <1>1 DEF Reduce, DecideDraining, AcknowledgeFence
  <2>2. Retire(id, "Graceful").type \in Asynchronous
    BY DEF Retire, Asynchronous
  <2> QED BY <1>0, <1>1, <2>1, <2>2, SubmitTask
<1>2. CASE ~(slot.phase = "Draining" /\ slot.id = id /\ slot.reservations = 0)
  <2>1. Reduce(slot, e) = Ignore(slot)
    BY <1>2, SlotShapes
    DEF Reduce, DecideInactive, DecideActivating, DecideActive, DecideDraining,
        DecideRetiring, AcknowledgeFence, Inactive, Slot
  <2> QED BY <1>0, <2>1, SubmitIgnored
<1> QED BY <1>1, <1>2

LEMMA ForceDrainStep ==
  ASSUME NEW id, NEW fin, TypeOK,
         Submit([trigger |-> "ForceDrain", id |-> id], fin)
  PROVE  \/ Unchanged(fin)
         \/ /\ slot.phase = "Draining" /\ slot.id = id
            /\ slot' = Retiring(id)
            /\ tasks' = (tasks \ fin) \cup {Retire(id, "Forced")}
            /\ returned' = returned
<1> DEFINE e == [trigger |-> "ForceDrain", id |-> id]
<1>1. CASE slot.phase = "Draining" /\ slot.id = id
  <2>1. Reduce(slot, e) = Decision(Retiring(id), << Retire(id, "Forced") >>)
    BY <1>1 DEF Reduce, DecideDraining, ForceDrain
  <2>2. Retire(id, "Forced").type \in Asynchronous
    BY DEF Retire, Asynchronous
  <2> QED BY <1>1, <2>1, <2>2, SubmitTask
<1>2. CASE ~(slot.phase = "Draining" /\ slot.id = id)
  <2>1. Reduce(slot, e) = Ignore(slot)
    BY <1>2, SlotShapes
    DEF Reduce, DecideInactive, DecideActivating, DecideActive, DecideDraining,
        DecideRetiring, Inactive, Slot
  <2> QED BY <2>1, SubmitIgnored
<1> QED BY <1>1, <1>2

LEMMA TerminatedStep ==
  ASSUME NEW id, NEW mode, Terminated(id, mode), TypeOK
  PROVE  \/ /\ ~(slot.phase = "Retiring" /\ slot.id = id)
            /\ Unchanged({Retire(id, mode)})
         \/ /\ slot.phase = "Retiring" /\ slot.id = id
            /\ slot' = Inactive
            /\ tasks' = tasks \ {Retire(id, mode)}
            /\ returned' = returned
<1> DEFINE e == [trigger |-> "Terminated", id |-> id]
           fin == {Retire(id, mode)}
<1>0. Submit(e, fin)
  BY DEF Terminated
<1>1. CASE slot.phase = "Retiring" /\ slot.id = id
  <2>1. Reduce(slot, e) = Decision(Inactive, << RemoveEntry(id) >>)
    BY <1>1 DEF Reduce, DecideRetiring
  <2> HIDE DEF e, fin
  <2>2. slot' = Inactive /\ tasks' = tasks \ fin /\ returned' = returned
    BY <1>0, <2>1, BatchRemove DEF Submit, Decision
  <2> QED BY <1>1, <2>2 DEF fin
<1>2. CASE ~(slot.phase = "Retiring" /\ slot.id = id)
  <2>1. Reduce(slot, e) = Ignore(slot)
    BY <1>2, SlotShapes
    DEF Reduce, DecideInactive, DecideActivating, DecideActive, DecideDraining,
        DecideRetiring, Inactive, Slot
  <2> QED BY <1>0, <1>2, <2>1, SubmitIgnored
<1> QED BY <1>1, <1>2

-----------------------------------------------------------------------------
(* Tasks by kind: every invariant reads the task set through these views.  *)

Of(kind) == {t \in tasks : t.type = kind}

LEMMA TaskFields ==
  /\ \A i : StartActivation(i).type = "StartActivation"
  /\ \A i, d : /\ Deliver(i, d).type = "Deliver"
               /\ Deliver(i, d).id = i
               /\ Deliver(i, d).d = d
  /\ \A i : EnqueueFence(i).type = "EnqueueFence"
  /\ \A i, m : /\ Retire(i, m).type = "Retire"
               /\ Retire(i, m).id = i
               /\ Retire(i, m).mode = m
  /\ \A i, j : StartActivation(i) = StartActivation(j) => i = j
  /\ \A i, j : EnqueueFence(i) = EnqueueFence(j) => i = j
BY DEF StartActivation, Deliver, EnqueueFence, Retire

LEMMA KindFrame ==
  ASSUME NEW old, NEW new, NEW kind, tasks' = (tasks \ old) \cup new,
         \A t \in old \cup new : t.type # kind
  PROVE  Of(kind)' = Of(kind)
BY DEF Of

LEMMA DeliverView ==
  /\ InFlight = {t.d : t \in Of("Deliver")}
  /\ \A id : DeliverTasks(id) = {t \in Of("Deliver") : t.id = id}
  /\ \A id : Retirements(id) = {t \in Of("Retire") : t.id = id}
  /\ \A id : StartActivation(id) \in tasks
              <=> StartActivation(id) \in Of("StartActivation")
  /\ \A id : EnqueueFence(id) \in tasks
              <=> EnqueueFence(id) \in Of("EnqueueFence")
BY TaskFields DEF InFlight, DeliverTasks, Retirements, Of

(* CommandCustody with the places spelled out.                             *)
CustodyByPlace ==
  /\ issued = Waiting \cup InFlight \cup accepted \cup returned \cup cancelled
  /\ Waiting \cap InFlight = {} /\ Waiting \cap accepted = {}
  /\ Waiting \cap returned = {} /\ Waiting \cap cancelled = {}
  /\ InFlight \cap accepted = {} /\ InFlight \cap returned = {}
  /\ InFlight \cap cancelled = {} /\ accepted \cap returned = {}
  /\ accepted \cap cancelled = {} /\ returned \cap cancelled = {}
  /\ \A t, u \in Of("Deliver") : t.d = u.d => t = u

LEMMA CustodyFlat == CommandCustody <=> CustodyByPlace
<1>1. DOMAIN Owner = {"waiting", "inFlight", "accepted", "returned", "cancelled"}
  BY DEF Owner
<1>2. /\ Owner["waiting"] = Waiting /\ Owner["inFlight"] = InFlight
      /\ Owner["accepted"] = accepted /\ Owner["returned"] = returned
      /\ Owner["cancelled"] = cancelled
  BY DEF Owner
<1>3. UNION {Owner[p] : p \in DOMAIN Owner}
        = Waiting \cup InFlight \cup accepted \cup returned \cup cancelled
  BY <1>1, <1>2
<1>4. (\A p, q \in DOMAIN Owner : p # q => Owner[p] \cap Owner[q] = {})
        <=> /\ Waiting \cap InFlight = {} /\ Waiting \cap accepted = {}
            /\ Waiting \cap returned = {} /\ Waiting \cap cancelled = {}
            /\ InFlight \cap accepted = {} /\ InFlight \cap returned = {}
            /\ InFlight \cap cancelled = {} /\ accepted \cap returned = {}
            /\ accepted \cap cancelled = {} /\ returned \cap cancelled = {}
  BY <1>1, <1>2
<1>5. (\A t, u \in tasks :
         t.type = "Deliver" /\ u.type = "Deliver" /\ t.d = u.d => t = u)
        <=> \A t, u \in Of("Deliver") : t.d = u.d => t = u
  BY DEF Of
<1> QED BY <1>3, <1>4, <1>5 DEF CommandCustody, CustodyByPlace

LEMMA CustodyFlatNext == CommandCustody' <=> CustodyByPlace'
BY CustodyFlat, PTL

-----------------------------------------------------------------------------
(* How an activation's past fits the slot: every attempt is outstanding    *)
(* until it produced its lease, deliveries and fences exist only for       *)
(* activations that succeeded, a fenced activation neither admits nor      *)
(* waits for a reservation, and a retiring one has its retirement running. *)
ActivationHistory ==
  /\ slot.phase = "Activating" => slot.id \notin granted \cup failed
  /\ slot.phase = "Retiring" => Retirements(slot.id) # {}
  /\ IsInjective(slot.waiters)
  /\ IsFiniteSet(tasks)
  /\ \A id \in Known :
       /\ StartActivation(id) \in tasks <=> id \notin granted
       /\ DeliverTasks(id) # {} \/ Fenced(id) => id \in granted
       /\ Fenced(id) /\ slot.id = id => ~Admitting(id) /\ slot.reservations = 0

(* The inductive invariant.  CommandCustody and LeaseCustody need to know  *)
(* which tasks an activation can still have (ActivationHistory); the fence *)
(* is last only because the reservation count is exact and stays so.       *)
IInv ==
  /\ TypeOK
  /\ CommandCustody
  /\ LeaseCustody
  /\ ReservationsExact
  /\ FenceIsLast
  /\ WaitersServed
  /\ ActivationHistory

LEMMA InitIInv == Init => IInv
<1> SUFFICES ASSUME Init PROVE IInv
  OBVIOUS
<1>1. slot.waiters = << >> /\ slot.phase = "Inactive" /\ slot.id = 0
      /\ slot.reservations = 0
  BY DEF Init, Inactive, Slot, NoActivation
<1>2. TypeOK
  BY <1>1, MaxActivationAssumption
  DEF Init, TypeOK, SlotType, TaskType, Known
<1>3. CommandCustody
  BY <1>1 DEF Init, CommandCustody, Owner, Waiting, InFlight, Range
<1>4. LeaseCustody /\ FenceIsLast
  BY DEF Init, LeaseCustody, FenceIsLast, Known
<1>5. ReservationsExact
  BY <1>1 DEF ReservationsExact
<1>6. WaitersServed
  BY <1>1, WaiterLimitAssumption DEF WaitersServed
<1>7. ActivationHistory
  BY <1>1, FS_EmptySet DEF Init, ActivationHistory, Known, IsInjective
<1> QED BY <1>2, <1>3, <1>4, <1>5, <1>6, <1>7 DEF IInv

LEMMA FiniteDeliverTasks ==
  ASSUME IsFiniteSet(tasks), NEW id
  PROVE  IsFiniteSet(DeliverTasks(id)) /\ Cardinality(DeliverTasks(id)) \in Nat
<1>1. DeliverTasks(id) \in SUBSET tasks
  BY DEF DeliverTasks
<1> QED BY <1>1, FS_Subset, FS_CardinalityType

(* Types: the shape of the successor slot, and of the tasks added.         *)

LEMMA SlotTypeNext ==
  ASSUME NEW id \in Known', id # NoActivation,
         NEW ws \in Seq(Dispatches), NEW n \in Nat,
         slot' \in {Inactive, Activating(id, ws), Active(id, n),
                   Draining(id, n), Retiring(id)}
  PROVE  SlotType'
<1>1. /\ slot'.waiters \in Seq(Dispatches) /\ slot'.reservations \in Nat
      /\ slot' # Inactive => slot'.id \in Known'
  <2>1. slot'.waiters \in {<< >>, ws}
    BY DEF Inactive, Activating, Active, Draining, Retiring, Slot
  <2>2. << >> \in Seq(Dispatches)
    OBVIOUS
  <2>3. slot'.reservations \in {0, n}
    BY DEF Inactive, Activating, Active, Draining, Retiring, Slot
  <2>4. slot' # Inactive => slot'.id = id
    BY DEF Inactive, Activating, Active, Draining, Retiring, Slot
  <2>5. slot'.waiters \in Seq(Dispatches)
    BY <2>1, <2>2
  <2> QED BY <2>3, <2>4, <2>5
<1>2. slot' \in {Inactive, Activating(slot'.id, slot'.waiters),
                Active(slot'.id, slot'.reservations),
                Draining(slot'.id, slot'.reservations), Retiring(slot'.id)}
  BY DEF Inactive, Activating, Active, Draining, Retiring, Slot
<1> QED BY <1>1, <1>2 DEF SlotType

LEMMA SlotTypeInactive ==
  ASSUME slot' = Inactive
  PROVE  SlotType'
BY DEF SlotType, Inactive, Slot

LEMMA TypeFrame ==
  ASSUME TypeOK, SlotType', lastId' = lastId,
         NEW new, tasks' \subseteq tasks \cup new, new \subseteq TaskType,
         \A cs \in {issued', accepted', returned', cancelled'} :
           cs \subseteq Dispatches,
         \A ids \in {failed', granted', acked', retired'} : ids \subseteq Known
  PROVE  TypeOK'
<1>1. TaskType' = TaskType /\ Known' = Known
  BY DEF TaskType, Known
<1>2. tasks' \subseteq TaskType'
  BY <1>1 DEF TypeOK
<1> QED BY <1>1, <1>2 DEF TypeOK

LEMMA TaskTypes ==
  ASSUME NEW id \in Known
  PROVE  /\ StartActivation(id) \in TaskType
         /\ \A d \in Dispatches : Deliver(id, d) \in TaskType
         /\ EnqueueFence(id) \in TaskType
         /\ \A mode \in {"Graceful", "Forced"} : Retire(id, mode) \in TaskType
BY DEF TaskType

(* Every task belongs to an activation that was issued.                    *)
LEMMA TaskIds ==
  ASSUME TypeOK, NEW id
  PROVE  /\ StartActivation(id) \in tasks => id \in Known
         /\ \A d : Deliver(id, d) \in tasks => id \in Known /\ d \in Dispatches
         /\ EnqueueFence(id) \in tasks => id \in Known
         /\ \A mode : Retire(id, mode) \in tasks =>
              id \in Known /\ mode \in {"Graceful", "Forced"}
<1>1. ASSUME NEW t \in TaskType
      PROVE  /\ t.id \in Known
             /\ t.type = "Deliver" => t.d \in Dispatches
             /\ t.type = "Retire" => t.mode \in {"Graceful", "Forced"}
  <2>1. ASSUME NEW i \in Known, t = StartActivation(i) \/ t = EnqueueFence(i)
        PROVE  t.id = i /\ t.type \notin {"Deliver", "Retire"}
    BY <2>1 DEF StartActivation, EnqueueFence
  <2>2. ASSUME NEW i \in Known, NEW d \in Dispatches, t = Deliver(i, d)
        PROVE  t.id = i /\ t.d = d /\ t.type # "Retire"
    BY <2>2 DEF Deliver
  <2>3. ASSUME NEW i \in Known, NEW m \in {"Graceful", "Forced"}, t = Retire(i, m)
        PROVE  t.id = i /\ t.mode = m /\ t.type # "Deliver"
    BY <2>3 DEF Retire
  <2> QED BY <2>1, <2>2, <2>3 DEF TaskType
<1>2. /\ StartActivation(id).id = id /\ EnqueueFence(id).id = id
      /\ \A d : /\ Deliver(id, d).id = id /\ Deliver(id, d).d = d
               /\ Deliver(id, d).type = "Deliver"
      /\ \A m : /\ Retire(id, m).id = id /\ Retire(id, m).mode = m
               /\ Retire(id, m).type = "Retire"
  BY DEF StartActivation, Deliver, EnqueueFence, Retire
<1> QED BY <1>1, <1>2 DEF TypeOK

(* Frames: what each invariant reads.                                      *)

LEMMA LeaseFrame ==
  ASSUME LeaseCustody, lastId' = lastId, Installed' = Installed,
         Of("Retire")' = Of("Retire"), granted' = granted, retired' = retired
  PROVE  LeaseCustody'
<1>1. \A id : Retirements(id)' = Retirements(id)
  BY DEF Retirements, Of
<1> QED BY <1>1 DEF LeaseCustody, Known

LEMMA ReservationsFrame ==
  ASSUME ReservationsExact, slot' = slot, Of("Deliver")' = Of("Deliver")
  PROVE  ReservationsExact'
<1>1. \A id : DeliverTasks(id)' = DeliverTasks(id)
  BY DEF DeliverTasks, Of
<1>2. DeliverTasks(slot.id)' = DeliverTasks(slot.id)
  BY <1>1
<1> QED BY <1>2 DEF ReservationsExact

LEMMA FenceFrame ==
  ASSUME FenceIsLast, lastId' = lastId, acked' = acked,
         Of("Deliver")' \subseteq Of("Deliver"),
         Of("EnqueueFence")' \subseteq Of("EnqueueFence"),
         \A id : Retire(id, "Graceful") \in tasks' => Retire(id, "Graceful") \in tasks
  PROVE  FenceIsLast'
<1>1. \A id : DeliverTasks(id)' \subseteq DeliverTasks(id)
  BY DEF DeliverTasks, Of
<1>2. \A id : Fenced(id)' => Fenced(id)
  BY TaskFields DEF Fenced, Of
<1> QED BY <1>1, <1>2 DEF FenceIsLast, Known

LEMMA HistoryFrame ==
  ASSUME ActivationHistory, slot' = slot, lastId' = lastId,
         failed' = failed, granted' = granted, acked' = acked,
         Of("StartActivation")' = Of("StartActivation"),
         Of("Deliver")' \subseteq Of("Deliver"),
         Of("EnqueueFence")' \subseteq Of("EnqueueFence"),
         slot.phase = "Retiring" => Retirements(slot.id)' # {},
         IsFiniteSet(tasks')
  PROVE  ActivationHistory'
<1>1. \A id : DeliverTasks(id)' \subseteq DeliverTasks(id)
  BY DEF DeliverTasks, Of
<1>2. \A id : Fenced(id)' => Fenced(id)
  BY TaskFields DEF Fenced, Of
<1>3. \A id : StartActivation(id) \in tasks' <=> StartActivation(id) \in tasks
  BY TaskFields DEF Of
<1> QED BY <1>1, <1>2, <1>3 DEF ActivationHistory, Known, Admitting, Retirements

LEMMA CustodyFrame ==
  ASSUME CommandCustody, Waiting' = Waiting, Of("Deliver")' = Of("Deliver"),
         UNCHANGED commands
  PROVE  CommandCustody'
<1>1. InFlight' = InFlight
  BY DEF InFlight, Of
<1> QED BY <1>1, CustodyFlat, CustodyFlatNext DEF CustodyByPlace, commands

(* A delivery that reports moves its command to where it settled.          *)
LEMMA CustodySettles ==
  ASSUME CommandCustody, NEW id, NEW d, Deliver(id, d) \in tasks,
         Waiting' = Waiting, Of("Deliver")' = Of("Deliver") \ {Deliver(id, d)},
         issued' = issued, cancelled' = cancelled,
         \/ accepted' = accepted \cup {d} /\ returned' = returned
         \/ accepted' = accepted /\ returned' = returned \cup {d}
  PROVE  CommandCustody'
<1>1. Deliver(id, d) \in Of("Deliver") /\ d \in InFlight
  BY TaskFields DEF Of, InFlight
<1>2. \A t \in Of("Deliver") : t.d = d => t = Deliver(id, d)
  BY <1>1, TaskFields, CustodyFlat DEF CustodyByPlace
<1>3. InFlight = {t.d : t \in Of("Deliver")}
      /\ InFlight' = {t.d : t \in Of("Deliver")'}
  BY DEF InFlight, Of
<1>4. InFlight' = InFlight \ {d}
  BY <1>1, <1>2, <1>3, TaskFields
<1>5. \A t, u \in Of("Deliver")' : t.d = u.d => t = u
  BY CustodyFlat DEF CustodyByPlace
<1> QED BY <1>1, <1>4, <1>5, CustodyFlat, CustodyFlatNext DEF CustodyByPlace

LEMMA ServedFrame ==
  ASSUME WaitersServed, slot' = slot, failed' = failed,
         Of("StartActivation")' = Of("StartActivation")
  PROVE  WaitersServed'
BY TaskFields DEF WaitersServed, Of

(* A dispatch that is refused at once moves its command to the returned.  *)
LEMMA RefusedPreserves ==
  ASSUME IInv, NEW d \in Dispatches, Refusing(d, {}),
         d \notin issued, issued' = issued \cup {d},
         UNCHANGED <<lastId, accepted, cancelled, failed, granted, acked, retired>>
  PROVE  IInv'
<1> USE DEF IInv
<1>1. /\ d \notin Waiting /\ d \notin InFlight
      /\ d \notin accepted \cup returned \cup cancelled
  BY CustodyFlat DEF CustodyByPlace
<1>2. slot' = slot /\ tasks' = tasks /\ returned' = returned \cup {d}
  BY DEF Refusing
<1>3. TypeOK'
  BY <1>2 DEF TypeOK, SlotType, TaskType, Known
<1>4. CommandCustody'
  <2>1. Waiting' = Waiting /\ InFlight' = InFlight /\ Of("Deliver")' = Of("Deliver")
    BY <1>2 DEF Waiting, InFlight, Of
  <2> QED BY <1>1, <1>2, <2>1, CustodyFlat, CustodyFlatNext DEF CustodyByPlace
<1>5. LeaseCustody' /\ FenceIsLast' /\ WaitersServed' /\ ReservationsExact'
      /\ ActivationHistory'
  BY <1>2
  DEF LeaseCustody, FenceIsLast, WaitersServed, ReservationsExact,
      ActivationHistory, Known, Installed, Retirements, DeliverTasks,
      Fenced, Admitting
<1> QED BY <1>3, <1>4, <1>5

LEMMA DispatchRemovedPreserves ==
  ASSUME IInv, NEW d \in Dispatches, DispatchRemoved(d)
  PROVE  IInv'
<1> DEFINE e == [trigger |-> "Dispatch", d |-> d]
<1>1. Reduce(Inactive, e) = Refuse(Inactive, d, "Unavailable")
  BY DEF Reduce, DecideInactive, Inactive, Slot
<1>2. Refusing(d, {})
  BY <1>1, BatchReject DEF DispatchRemoved, Refusing, Refuse, Decision
<1> QED BY <1>2, RefusedPreserves DEF DispatchRemoved, history

LEMMA DispatchPreserves ==
  ASSUME IInv, NEW d \in Dispatches, Dispatch(d)
  PROVE  IInv'
<1> USE DEF IInv
<1>1. /\ d \notin issued /\ issued' = issued \cup {d}
      /\ UNCHANGED <<lastId, accepted, cancelled, failed, granted, acked, retired>>
  BY DEF Dispatch, history
<1>2. /\ d \notin Waiting /\ d \notin InFlight
      /\ d \notin accepted \cup returned \cup cancelled
  BY <1>1, CustodyFlat DEF CustodyByPlace
<1>3. CASE Refusing(d, {})
  BY <1>1, <1>3, RefusedPreserves
<1>4. CASE /\ slot.phase = "Activating"
           /\ Len(slot.waiters) < WaiterLimit
           /\ slot' = Activating(slot.id, Append(slot.waiters, d))
           /\ tasks' = tasks /\ returned' = returned
  <2>1. /\ slot = Activating(slot.id, slot.waiters)
        /\ slot.waiters \in Seq(Dispatches) /\ slot.id \in Known
    BY <1>4, SlotShapes DEF TypeOK, SlotType, Inactive, Slot
  <2>2. /\ slot'.phase = "Activating" /\ slot'.id = slot.id
        /\ slot'.waiters = Append(slot.waiters, d) /\ slot'.reservations = 0
    BY <1>4 DEF Activating, Slot
  <2>3. /\ slot'.waiters \in Seq(Dispatches)
        /\ Len(slot'.waiters) = Len(slot.waiters) + 1
        /\ Range(slot'.waiters) = Waiting \cup {d}
        /\ IsInjective(slot'.waiters)
    BY <1>2, <2>1, <2>2, AppendWaiter DEF Waiting, ActivationHistory
  <2>4. TypeOK'
    BY <1>1, <1>4, <2>1, <2>2, <2>3 DEF TypeOK, SlotType, TaskType, Known
  <2>5. CommandCustody'
    <3>1. Waiting' = Waiting \cup {d} /\ InFlight' = InFlight
          /\ Of("Deliver")' = Of("Deliver")
      BY <1>4, <2>3 DEF Waiting, InFlight, Of
    <3> QED BY <1>1, <1>2, <1>4, <3>1, CustodyFlat, CustodyFlatNext
            DEF CustodyByPlace
  <2>6. LeaseCustody'
    <3>1. Installed' = Installed
      BY <1>4, <2>2 DEF Installed
    <3> QED BY <1>1, <1>4, <3>1, LeaseFrame DEF Of
  <2>7. ReservationsExact'
    BY <2>2 DEF ReservationsExact
  <2>8. FenceIsLast'
    BY <1>1, <1>4, FenceFrame DEF Of
  <2>9. WaitersServed'
    BY <1>1, <1>4, <2>1, <2>2, <2>3, WaiterLimitAssumption DEF WaitersServed
  <2>10. ActivationHistory'
    BY <1>1, <1>4, <2>2, <2>3
    DEF ActivationHistory, Known, Admitting, Fenced, DeliverTasks
  <2> QED BY <2>4, <2>5, <2>6, <2>7, <2>8, <2>9, <2>10
<1>5. CASE /\ slot.phase = "Active"
           /\ slot' = Active(slot.id, slot.reservations + 1)
           /\ tasks' = tasks \cup {Deliver(slot.id, d)}
           /\ returned' = returned
  <2> DEFINE new == Deliver(slot.id, d)
  <2>1. /\ slot = Active(slot.id, slot.reservations)
        /\ slot.waiters = << >> /\ slot.id \in Known /\ slot.reservations \in Nat
    BY <1>5, SlotShapes DEF TypeOK, SlotType, Inactive, Slot
  <2>2. /\ slot'.phase = "Active" /\ slot'.id = slot.id /\ slot'.waiters = << >>
        /\ slot'.reservations = slot.reservations + 1
    BY <1>5 DEF Active, Slot
  <2>3. /\ Of("Deliver")' = Of("Deliver") \cup {new} /\ new \notin Of("Deliver")
        /\ Of("Retire")' = Of("Retire")
        /\ Of("EnqueueFence")' = Of("EnqueueFence")
        /\ Of("StartActivation")' = Of("StartActivation")
    BY <1>2, <1>5, TaskFields DEF Of, InFlight
  <2>4. TypeOK'
    <3>1. {new} \subseteq TaskType
      BY <2>1, TaskTypes
    <3>2. slot.id \in Known' /\ slot.id # NoActivation
      BY <1>1, <2>1 DEF Known, NoActivation
    <3>3. SlotType'
      <4>1. << >> \in Seq(Dispatches) /\ slot.reservations + 1 \in Nat
        BY <2>1
      <4> QED BY <1>5, <3>2, <4>1, SlotTypeNext
    <3> QED BY <1>1, <1>5, <3>1, <3>3, TypeFrame DEF TypeOK
  <2>5. CommandCustody'
    <3>1. Waiting' = Waiting
      BY <2>1, <2>2 DEF Waiting
    <3>2. InFlight' = InFlight \cup {d}
      BY <1>5, TaskFields DEF InFlight
    <3>3. \A t \in Of("Deliver") : t.d # d
      BY <1>2 DEF InFlight, Of
    <3>4. \A t, u \in Of("Deliver")' : t.d = u.d => t = u
      BY <2>3, <3>3, TaskFields, CustodyFlat DEF CustodyByPlace
    <3> QED BY <1>1, <1>2, <1>5, <3>1, <3>2, <3>4, CustodyFlat, CustodyFlatNext
            DEF CustodyByPlace
  <2>6. LeaseCustody'
    <3>1. Installed' = Installed
      BY <1>5, <2>2 DEF Installed
    <3> QED BY <1>1, <2>3, <3>1, LeaseFrame
  <2>7. ReservationsExact'
    <3>1. DeliverTasks(slot.id)' = DeliverTasks(slot.id) \cup {new}
      BY <2>2, <2>3, TaskFields DEF DeliverTasks, Of
    <3>2. new \notin DeliverTasks(slot.id)
      BY <2>3 DEF DeliverTasks, Of
    <3>3. slot.reservations = Cardinality(DeliverTasks(slot.id))
      BY <1>5 DEF ReservationsExact
    <3>4. IsFiniteSet(DeliverTasks(slot.id))
      BY FiniteDeliverTasks DEF ActivationHistory
    <3>5. Cardinality(DeliverTasks(slot.id) \cup {new})
            = Cardinality(DeliverTasks(slot.id)) + 1
      BY <3>2, <3>4, FS_AddElement
    <3> QED BY <2>2, <3>1, <3>3, <3>5 DEF ReservationsExact
  <2>8. FenceIsLast'
    <3>1. ~Fenced(slot.id)
      BY <1>5, <2>1 DEF ActivationHistory, Admitting
    <3>2. \A id : id # slot.id => DeliverTasks(id)' = DeliverTasks(id)
      BY <1>5, TaskFields DEF DeliverTasks
    <3>3. \A id : Fenced(id)' <=> Fenced(id)
      BY <1>1, <1>5, TaskFields DEF Fenced
    <3>4. \A id : Retire(id, "Graceful") \in tasks'
                  <=> Retire(id, "Graceful") \in tasks
      BY <1>5, TaskFields
    <3> QED BY <1>1, <3>1, <3>2, <3>3, <3>4 DEF FenceIsLast, Known
  <2>9. WaitersServed'
    BY <2>2, WaiterLimitAssumption DEF WaitersServed
  <2>10. ActivationHistory'
    <3>1. IsFiniteSet(tasks')
      BY <1>5, FS_AddElement DEF ActivationHistory
    <3>2. \A id : StartActivation(id) \in tasks' <=> StartActivation(id) \in tasks
      BY <1>5, TaskFields
    <3>3. \A id : Fenced(id)' <=> Fenced(id)
      BY <1>1, <1>5, TaskFields DEF Fenced
    <3>4. \A id : id # slot.id => DeliverTasks(id)' = DeliverTasks(id)
      BY <1>5, TaskFields DEF DeliverTasks
    <3>5. slot.id \in granted /\ ~Fenced(slot.id)
      BY <1>5, <2>1 DEF LeaseCustody, Installed, ActivationHistory, Admitting
    <3>6. IsInjective(slot'.waiters)
      BY <2>2 DEF IsInjective
    <3> QED BY <1>1, <1>5, <2>2, <3>1, <3>2, <3>3, <3>4, <3>5, <3>6
            DEF ActivationHistory, Known, Admitting
  <2> QED BY <2>4, <2>5, <2>6, <2>7, <2>8, <2>9, <2>10
<1> QED BY <1>3, <1>4, <1>5, DispatchStep

LEMMA ClaimPreserves ==
  ASSUME IInv, NEW d \in Dispatches, Claim(d)
  PROVE  IInv'
<1> USE DEF IInv
<1> DEFINE n == lastId + 1
<1>1. /\ d \notin issued /\ issued' = issued \cup {d}
      /\ lastId' = n /\ n \in 1 .. MaxActivation
      /\ UNCHANGED <<accepted, cancelled, failed, granted, acked, retired>>
  BY MaxActivationAssumption DEF Claim, history, TypeOK
<1>2. /\ slot = Inactive /\ slot' = Activating(n, << d >>)
      /\ tasks' = tasks \cup {StartActivation(n)} /\ returned' = returned
  BY ClaimStep
<1>3. /\ slot.phase = "Inactive" /\ slot.waiters = << >> /\ slot.id = NoActivation
      /\ slot'.phase = "Activating" /\ slot'.id = n
      /\ slot'.waiters = << d >> /\ slot'.reservations = 0
  BY <1>2 DEF Inactive, Activating, Slot
<1>4. Known' = Known \cup {n} /\ n \notin Known
  BY <1>1 DEF Known, TypeOK
<1>5. /\ Of("Deliver")' = Of("Deliver") /\ Of("Retire")' = Of("Retire")
      /\ Of("EnqueueFence")' = Of("EnqueueFence")
  BY <1>2, TaskFields DEF Of
<1>6. /\ n \notin granted \cup failed \cup acked \cup retired
      /\ \A t \in tasks : t.id # n
  <2>1. n \notin granted \cup failed \cup acked \cup retired
    BY <1>4 DEF TypeOK
  <2>2. \A t \in TaskType : t.id \in Known
    BY DEF TaskType, StartActivation, Deliver, EnqueueFence, Retire
  <2> QED BY <1>4, <2>1, <2>2 DEF TypeOK
<1>7. TypeOK'
  <2>1. SlotType'
    <3>1. n \in Known' /\ n # NoActivation
      BY <1>1, <1>4 DEF NoActivation
    <3>2. << d >> \in Seq(Dispatches)
      OBVIOUS
    <3> QED BY <1>2, <3>1, <3>2, SlotTypeNext
  <2>2. tasks' \subseteq TaskType'
    BY <1>2, <1>4 DEF TypeOK, TaskType
  <2> QED BY <1>1, <1>2, <1>4, <2>1, <2>2 DEF TypeOK
<1>8. CommandCustody'
  <2>1. Waiting = {} /\ Waiting' = {d}
    BY <1>3 DEF Waiting, Range
  <2>2. InFlight' = InFlight
    BY <1>5 DEF InFlight, Of
  <2> QED BY <1>1, <1>2, <1>5, <2>1, <2>2, CustodyFlat, CustodyFlatNext
          DEF CustodyByPlace
<1>9. \A id : Retirements(id)' = Retirements(id) /\ DeliverTasks(id)' = DeliverTasks(id)
             /\ (Fenced(id)' <=> Fenced(id))
  BY <1>1, <1>2, TaskFields DEF Retirements, DeliverTasks, Fenced
<1>10. Retirements(n) = {} /\ DeliverTasks(n) = {} /\ ~Fenced(n)
       /\ Retire(n, "Graceful") \notin tasks
  <2>1. EnqueueFence(n).id = n /\ Retire(n, "Graceful").id = n
    BY DEF EnqueueFence, Retire
  <2> QED BY <1>6, <2>1 DEF Retirements, DeliverTasks, Fenced
<1>11. LeaseCustody'
  <2>1. Installed' = {} /\ Installed = {}
    BY <1>3 DEF Installed
  <2>2. ASSUME NEW id \in Known'
        PROVE  /\ id \in granted <=> Retirements(id) # {} \/ id \in retired
               /\ id \in retired => Retirements(id) = {}
               /\ \A t, u \in Retirements(id) : t = u
    <3>1. CASE id \in Known
      BY <3>1, <2>1 DEF LeaseCustody
    <3>2. CASE id = n
      BY <3>2, <1>6, <1>10
    <3> QED BY <1>4, <3>1, <3>2
  <2> QED BY <1>1, <1>9, <2>1, <2>2 DEF LeaseCustody
<1>12. ReservationsExact'
  BY <1>3 DEF ReservationsExact
<1>13. FenceIsLast'
  <2>1. \A id : Retire(id, "Graceful") \in tasks' <=> Retire(id, "Graceful") \in tasks
    BY <1>2, TaskFields
  <2> QED BY <1>1, <1>4, <1>9, <1>10, <2>1 DEF FenceIsLast
<1>14. WaitersServed'
  <2>1. Len(slot'.waiters) = 1
    BY <1>3
  <2>2. StartActivation(slot'.id) \in tasks'
    BY <1>2, <1>3
  <2>3. slot'.id \notin failed'
    BY <1>1, <1>3, <1>6
  <2>4. 1 <= WaiterLimit
    BY WaiterLimitAssumption
  <2> QED BY <2>1, <2>2, <2>3, <2>4 DEF WaitersServed
<1>15. ActivationHistory'
  <2>1. IsFiniteSet(tasks')
    BY <1>2, FS_AddElement DEF ActivationHistory
  <2>2. IsInjective(slot'.waiters)
    BY <1>3 DEF IsInjective
  <2>3. \A id \in Known : StartActivation(id) \in tasks' <=> StartActivation(id) \in tasks
    BY <1>2, <1>4, TaskFields
  <2>4. StartActivation(n) \in tasks'
    BY <1>2
  <2>5. \A id \in Known : id # n
    BY <1>4
  <2> QED BY <1>1, <1>3, <1>4, <1>6, <1>9, <1>10, <2>1, <2>2, <2>3, <2>4, <2>5
          DEF ActivationHistory
<1> QED BY <1>7, <1>8, <1>11, <1>12, <1>13, <1>14, <1>15

LEMMA CancelPreserves ==
  ASSUME IInv, NEW id, NEW d, Cancel(id, d)
  PROVE  IInv'
<1> USE DEF IInv
<1>1. /\ UNCHANGED <<lastId, issued, accepted, failed, granted, acked, retired>>
      /\ cancelled' = cancelled \cup (Waiting \ Waiting')
  BY DEF Cancel, history, Waiting
<1>2. CASE Unchanged({})
  <2>1. slot' = slot /\ tasks' = tasks /\ UNCHANGED commands
    BY <1>1, <1>2 DEF Unchanged, commands, Waiting
  <2>2. TypeOK'
    <3>1. SlotType'
      BY <1>1, <2>1 DEF TypeOK, SlotType, Known
    <3> QED BY <1>1, <2>1, <3>1, TypeFrame DEF TypeOK, commands
  <2>4. CommandCustody'
    BY <2>1, CustodyFrame DEF Waiting, Of
  <2>3. LeaseCustody' /\ FenceIsLast' /\ WaitersServed' /\ ReservationsExact'
        /\ ActivationHistory'
    BY <1>1, <2>1
    DEF LeaseCustody, FenceIsLast, WaitersServed, ReservationsExact,
        ActivationHistory, Known, Installed, Retirements, DeliverTasks,
        Fenced, Admitting
  <2> QED BY <2>2, <2>3, <2>4
<1>3. CASE /\ slot.phase = "Activating"
           /\ slot' = Activating(slot.id, RemoveFirst(slot.waiters, d))
           /\ tasks' = tasks /\ returned' = returned
  <2> DEFINE ws == RemoveFirst(slot.waiters, d)
  <2>1. /\ slot = Activating(slot.id, slot.waiters)
        /\ slot.waiters \in Seq(Dispatches) /\ slot.id \in Known
    BY <1>3, SlotShapes DEF TypeOK, SlotType, Inactive, Slot
  <2>2. /\ ws \in Seq(Dispatches) /\ Len(ws) <= Len(slot.waiters)
        /\ Range(ws) = Waiting \ {d} /\ IsInjective(ws)
    BY <2>1, RemoveWaiter DEF Waiting, ActivationHistory
  <2> HIDE DEF ws
  <2>3. /\ slot'.phase = "Activating" /\ slot'.id = slot.id
        /\ slot'.waiters = ws /\ slot'.reservations = 0
    BY <1>3 DEF Activating, Slot, ws
  <2>4. Waiting' = Waiting \ {d}
    BY <2>2, <2>3 DEF Waiting
  <2>5. CommandCustody'
    <3>1. InFlight' = InFlight /\ Of("Deliver")' = Of("Deliver")
      BY <1>3 DEF InFlight, Of
    <3> QED BY <1>1, <1>3, <2>4, <3>1, CustodyFlat, CustodyFlatNext
            DEF CustodyByPlace
  <2>6. TypeOK'
    <3>1. SlotType'
      <4>1. slot.id \in Known' /\ slot.id # NoActivation
        BY <1>1, <2>1 DEF Known, NoActivation
      <4>2. slot' = Activating(slot.id, ws) /\ 0 \in Nat
        BY <1>3 DEF ws
      <4> QED BY <2>2, <4>1, <4>2, SlotTypeNext
    <3>2. Waiting \subseteq Dispatches
      BY <2>1 DEF Waiting, Range
    <3>3. cancelled' \subseteq Dispatches
      BY <1>1, <3>2 DEF TypeOK
    <3> QED BY <1>1, <1>3, <3>1, <3>3, TypeFrame DEF TypeOK
  <2>7. LeaseCustody'
    <3>1. Installed' = Installed
      BY <1>3, <2>3 DEF Installed
    <3> QED BY <1>1, <1>3, <3>1, LeaseFrame DEF Of
  <2>8. ReservationsExact'
    BY <2>3 DEF ReservationsExact
  <2>9. FenceIsLast'
    BY <1>1, <1>3, FenceFrame DEF Of
  <2>10. WaitersServed'
    <3>1. Len(ws) \in Nat /\ Len(slot.waiters) \in Nat
      BY <2>1, <2>2
    <3> QED BY <1>1, <1>3, <2>2, <2>3, <3>1, WaiterLimitAssumption
            DEF WaitersServed
  <2>11. ActivationHistory'
    BY <1>1, <1>3, <2>2, <2>3
    DEF ActivationHistory, Known, Admitting, Fenced, DeliverTasks
  <2> QED BY <2>5, <2>6, <2>7, <2>8, <2>9, <2>10, <2>11
<1> QED BY <1>2, <1>3, CancelStep

LEMMA ActivationSucceededPreserves ==
  ASSUME IInv, NEW id, ActivationSucceeded(id)
  PROVE  IInv'
<1> USE DEF IInv
<1>1. /\ StartActivation(id) \in tasks /\ id \in Known
      /\ granted' = granted \cup {id}
      /\ UNCHANGED <<lastId, issued, accepted, cancelled, failed, acked, retired>>
  BY TaskIds DEF ActivationSucceeded
<1>2. id \notin granted /\ DeliverTasks(id) = {} /\ ~Fenced(id)
  BY <1>1 DEF ActivationHistory
<1>3. Retirements(id) = {} /\ id \notin Installed /\ id \notin retired
  BY <1>1, <1>2 DEF LeaseCustody
<1>4. Known' = Known
  BY <1>1 DEF Known
<1>5. CASE /\ slot.phase = "Activating" /\ slot.id = id
           /\ slot' = Active(id, Len(slot.waiters))
           /\ tasks' = (tasks \ {StartActivation(id)})
                         \cup {Deliver(id, d) : d \in Range(slot.waiters)}
           /\ returned' = returned
  <2> DEFINE new == {Deliver(id, d) : d \in Range(slot.waiters)}
  <2>1. /\ slot = Activating(id, slot.waiters) /\ slot.reservations = 0
        /\ slot.waiters \in Seq(Dispatches)
    BY <1>5, SlotShapes DEF TypeOK, SlotType, Inactive, Slot
  <2>2. /\ slot'.phase = "Active" /\ slot'.id = id /\ slot'.waiters = << >>
        /\ slot'.reservations = Len(slot.waiters)
    BY <1>5 DEF Active, Slot
  <2>3. new = {Deliver(id, d) : d \in Waiting} /\ Waiting \subseteq Dispatches
    BY <2>1 DEF Waiting, Range
  <2>4. Of("Deliver")' = Of("Deliver") \cup new
    BY <1>5, TaskFields DEF Of
  <2>5. /\ Of("Retire")' = Of("Retire")
        /\ Of("EnqueueFence")' = Of("EnqueueFence")
    BY <1>5, TaskFields DEF Of
  <2>6. IsFiniteSet(new) /\ Cardinality(new) = Len(slot.waiters)
    BY <2>1, DeliveriesCardinality DEF ActivationHistory
  <2> HIDE DEF new
  <2>7. TypeOK'
    <3>1. SlotType'
      <4>1. id \in Known' /\ id # NoActivation
        BY <1>1, <1>4 DEF Known, NoActivation, TypeOK
      <4>2. Len(slot.waiters) \in Nat /\ << >> \in Seq(Dispatches)
        BY <2>1
      <4> QED BY <1>5, <4>1, <4>2, SlotTypeNext
    <3>2. new \subseteq TaskType
      BY <1>1, <2>3, TaskTypes
    <3>3. tasks' \subseteq tasks \cup new
      BY <1>5 DEF new
    <3> QED BY <1>1, <1>5, <3>1, <3>2, <3>3, TypeFrame DEF TypeOK
  <2>8. CommandCustody'
    <3>1. Waiting' = {}
      BY <2>2 DEF Waiting, Range
    <3>2. InFlight' = InFlight \cup Waiting
      BY <2>3, <2>4, TaskFields DEF InFlight, Of
    <3>3. \A t \in new : t.d \in Waiting /\ t = Deliver(id, t.d)
      BY <2>3, TaskFields
    <3>4. \A t \in Of("Deliver") : t.d \notin Waiting
      BY CustodyFlat DEF CustodyByPlace, InFlight, Of
    <3>5. \A t, u \in Of("Deliver")' : t.d = u.d => t = u
      <4> SUFFICES ASSUME NEW t \in Of("Deliver") \cup new,
                          NEW u \in Of("Deliver") \cup new, t.d = u.d
                   PROVE  t = u
        BY <2>4
      <4> QED BY <3>3, <3>4, CustodyFlat DEF CustodyByPlace
    <3> QED BY <1>1, <1>5, <3>1, <3>2, <3>5, CustodyFlat, CustodyFlatNext
            DEF CustodyByPlace
  <2>9. LeaseCustody'
    <3>1. Installed' = {id} /\ Installed = {}
      BY <1>5, <2>2 DEF Installed
    <3>2. \A i : Retirements(i)' = Retirements(i)
      BY <2>5 DEF Retirements, Of
    <3> QED BY <1>1, <1>3, <1>4, <3>1, <3>2 DEF LeaseCustody
  <2>10. ReservationsExact'
    <3>1. DeliverTasks(id)' = new
      BY <1>2, <2>3, <2>4, TaskFields DEF DeliverTasks, Of
    <3> QED BY <2>2, <2>6, <3>1 DEF ReservationsExact
  <2>11. \A i : Fenced(i)' <=> Fenced(i)
    BY <1>1, <2>5, TaskFields DEF Fenced, Of
  <2>12. \A i : i # id => DeliverTasks(i)' = DeliverTasks(i)
    BY <2>3, <2>4, TaskFields DEF DeliverTasks, Of
  <2>13. FenceIsLast'
    <3>1. \A i : Retire(i, "Graceful") \in tasks' => Retire(i, "Graceful") \in tasks
      BY <2>5, TaskFields DEF Of
    <3> QED BY <1>1, <1>2, <1>4, <2>11, <2>12, <3>1 DEF FenceIsLast
  <2>14. WaitersServed'
    <3>1. Len(slot'.waiters) = 0
      BY <2>2
    <3> QED BY <2>2, <3>1, WaiterLimitAssumption DEF WaitersServed
  <2>15. ActivationHistory'
    <3>1. IsFiniteSet(tasks')
      <4>1. IsFiniteSet(tasks \ {StartActivation(id)})
        BY FS_RemoveElement DEF ActivationHistory
      <4> QED BY <1>5, <2>6, <4>1, FS_Union DEF new
    <3>2. IsInjective(slot'.waiters)
      BY <2>2 DEF IsInjective
    <3>3. \A i : StartActivation(i) \in tasks'
                 <=> StartActivation(i) \in tasks /\ i # id
      BY <1>5, TaskFields
    <3> QED BY <1>1, <1>2, <1>4, <1>5, <2>1, <2>2, <2>11, <2>12, <3>1, <3>2, <3>3
            DEF ActivationHistory, Admitting
  <2> QED BY <2>7, <2>8, <2>9, <2>10, <2>13, <2>14, <2>15
<1>6. CASE /\ ~(slot.phase = "Activating" /\ slot.id = id)
           /\ slot' = slot
           /\ tasks' = (tasks \ {StartActivation(id)}) \cup {Retire(id, "Forced")}
           /\ returned' = returned
  <2>1. /\ Of("Deliver")' = Of("Deliver")
        /\ Of("EnqueueFence")' = Of("EnqueueFence")
    BY <1>6, TaskFields DEF Of
  <2>2. /\ Retirements(id)' = {Retire(id, "Forced")}
        /\ \A i : i # id => Retirements(i)' = Retirements(i)
    BY <1>3, <1>6, TaskFields DEF Retirements
  <2>3. \A i : StartActivation(i) \in tasks'
               <=> StartActivation(i) \in tasks /\ i # id
    BY <1>6, TaskFields
  <2>4. TypeOK'
    <3>1. SlotType'
      BY <1>4, <1>6 DEF TypeOK, SlotType
    <3>2. {Retire(id, "Forced")} \subseteq TaskType
      BY <1>1, TaskTypes
    <3> QED BY <1>1, <1>6, <3>1, <3>2, TypeFrame DEF TypeOK
  <2>5. CommandCustody'
    BY <1>1, <1>6, <2>1, CustodyFrame DEF Waiting, commands
  <2>6. LeaseCustody'
    <3>1. Installed' = Installed
      BY <1>6 DEF Installed
    <3> QED BY <1>1, <1>3, <1>4, <2>2, <3>1 DEF LeaseCustody
  <2>7. ReservationsExact'
    BY <1>6, <2>1, ReservationsFrame
  <2>8. FenceIsLast'
    <3>1. \A i : Retire(i, "Graceful") \in tasks' => Retire(i, "Graceful") \in tasks
      BY <1>6, TaskFields
    <3> QED BY <1>1, <2>1, <3>1, FenceFrame
  <2>9. slot.phase = "Activating" => slot.id # id
    BY <1>6
  <2>10. WaitersServed'
    BY <1>1, <1>6, <2>3, <2>9 DEF WaitersServed
  <2>11. ActivationHistory'
    <3>1. IsFiniteSet(tasks')
      <4>1. IsFiniteSet(tasks \ {StartActivation(id)})
        BY FS_RemoveElement DEF ActivationHistory
      <4> QED BY <1>6, <4>1, FS_AddElement
    <3>2. \A i : Fenced(i)' <=> Fenced(i)
      BY <1>1, <2>1, TaskFields DEF Fenced, Of
    <3>3. \A i : DeliverTasks(i)' = DeliverTasks(i)
      BY <2>1 DEF DeliverTasks, Of
    <3>4. slot.phase = "Retiring" => Retirements(slot.id)' # {}
      <4>1. CASE slot.id = id
        BY <1>6, <2>2, <4>1
      <4>2. CASE slot.id # id
        <5>1. Retirements(slot.id)' = Retirements(slot.id)
          BY <1>6, <2>2, <4>2 DEF Retirements
        <5> QED BY <5>1 DEF ActivationHistory
      <4> QED BY <4>1, <4>2
    <3> QED BY <1>1, <1>2, <1>4, <1>6, <2>3, <2>9, <3>1, <3>2, <3>3, <3>4
            DEF ActivationHistory, Admitting
  <2> QED BY <2>4, <2>5, <2>6, <2>7, <2>8, <2>10, <2>11
<1> QED BY <1>5, <1>6, ActivationSucceededStep

LEMMA ActivationFailedPreserves ==
  ASSUME IInv, NEW id, ActivationFailed(id)
  PROVE  IInv'
<1> USE DEF IInv
<1>1. /\ id \in Known /\ failed' = failed \cup {id}
      /\ UNCHANGED <<lastId, issued, accepted, cancelled, granted, acked, retired>>
  BY TaskIds DEF ActivationFailed
<1>2. Known' = Known
  BY <1>1 DEF Known
<1>3. CASE /\ slot.phase = "Activating" /\ slot.id = id
           /\ slot' = Inactive /\ tasks' = tasks
           /\ returned' = returned \cup Range(slot.waiters)
  <2>1. /\ slot'.phase = "Inactive" /\ slot'.id = NoActivation
        /\ slot'.waiters = << >> /\ slot'.reservations = 0
    BY <1>3 DEF Inactive, Slot
  <2>2. Waiting \subseteq Dispatches /\ returned' = returned \cup Waiting
        /\ Waiting' = {}
    BY <1>3, <2>1 DEF TypeOK, SlotType, Waiting, Range
  <2>3. TypeOK'
    BY <1>1, <1>3, <2>2, SlotTypeInactive, TypeFrame DEF TypeOK
  <2>4. CommandCustody'
    <3>1. InFlight' = InFlight /\ Of("Deliver")' = Of("Deliver")
      BY <1>3 DEF InFlight, Of
    <3> QED BY <1>1, <2>2, <3>1, CustodyFlat, CustodyFlatNext DEF CustodyByPlace
  <2>5. LeaseCustody'
    <3>1. Installed' = Installed
      BY <1>3, <2>1 DEF Installed
    <3> QED BY <1>1, <1>3, <3>1, LeaseFrame DEF Of
  <2>6. ReservationsExact' /\ WaitersServed'
    BY <2>1, WaiterLimitAssumption DEF ReservationsExact, WaitersServed
  <2>7. FenceIsLast'
    BY <1>1, <1>3, FenceFrame DEF Of
  <2>8. ActivationHistory'
    <3>1. IsInjective(slot'.waiters)
      BY <2>1 DEF IsInjective
    <3>2. \A i \in Known : i # NoActivation
      BY DEF Known, NoActivation, TypeOK
    <3> QED BY <1>1, <1>2, <1>3, <2>1, <3>1, <3>2
            DEF ActivationHistory, Admitting, Fenced, DeliverTasks
  <2> QED BY <2>3, <2>4, <2>5, <2>6, <2>7, <2>8
<1>4. CASE ~(slot.phase = "Activating" /\ slot.id = id) /\ Unchanged({})
  <2>1. slot' = slot /\ tasks' = tasks /\ returned' = returned
    BY <1>4 DEF Unchanged
  <2>2. TypeOK'
    <3>1. SlotType'
      BY <1>2, <2>1 DEF TypeOK, SlotType
    <3> QED BY <1>1, <2>1, <3>1, TypeFrame DEF TypeOK
  <2>3. CommandCustody'
    BY <1>1, <2>1, CustodyFrame DEF Waiting, Of, commands
  <2>4. LeaseCustody' /\ FenceIsLast' /\ WaitersServed' /\ ReservationsExact'
        /\ ActivationHistory'
    BY <1>1, <1>2, <1>4, <2>1
    DEF LeaseCustody, FenceIsLast, WaitersServed, ReservationsExact,
        ActivationHistory, Installed, Retirements, DeliverTasks,
        Fenced, Admitting
  <2> QED BY <2>2, <2>3, <2>4
<1> QED BY <1>3, <1>4, ActivationFailedStep

(* A delivery's report, either way: one command settles, and the current   *)
(* incarnation's reservation is released only by its own delivery.         *)
LEMMA DeliveryResolvedPreserves ==
  ASSUME IInv, NEW id, NEW d, NEW failure \in {<< >>, << d >>},
         Deliver(id, d) \in tasks,
         Submit([trigger |-> "DeliveryResolved", id |-> id,
                 failure |-> failure], {Deliver(id, d)}),
         accepted' = IF failure = << >> THEN accepted \cup {d} ELSE accepted,
         UNCHANGED <<lastId, issued, cancelled, failed, granted, acked, retired>>
  PROVE  IInv'
<1> USE DEF IInv
<1> DEFINE done == Deliver(id, d)
<1>1. id \in Known /\ d \in Dispatches /\ Known' = Known
  BY TaskIds DEF Known
<1>2. /\ returned' = returned \cup Range(failure)
      /\ \/ accepted' = accepted \cup {d} /\ returned' = returned
         \/ accepted' = accepted /\ returned' = returned \cup {d}
  <2>1. returned' = returned \cup Range(failure)
    BY DeliveryResolvedStep
  <2>2. Range(<< >>) = {} /\ Range(<< d >>) = {d} /\ << d >> # << >>
    BY DEF Range
  <2>3. CASE failure = << >>
    BY <2>1, <2>2, <2>3
  <2>4. CASE failure = << d >>
    BY <2>1, <2>2, <2>4
  <2> QED BY <2>1, <2>3, <2>4
<1>3. done \in DeliverTasks(id) /\ done \in Of("Deliver")
      /\ IsFiniteSet(DeliverTasks(id)) /\ Cardinality(DeliverTasks(id)) \in Nat
      /\ Cardinality(DeliverTasks(id) \ {done}) = Cardinality(DeliverTasks(id)) - 1
  <2>1. done \in DeliverTasks(id) /\ done \in Of("Deliver")
    BY TaskFields DEF DeliverTasks, Of
  <2>2. IsFiniteSet(DeliverTasks(id)) /\ Cardinality(DeliverTasks(id)) \in Nat
    BY FiniteDeliverTasks DEF ActivationHistory
  <2> QED BY <2>1, <2>2, FS_RemoveElement
<1>4. id \in granted /\ ~Fenced(id)
  BY <1>1, <1>3 DEF ActivationHistory, FenceIsLast
<1>5. CASE slot' = slot /\ tasks' = tasks \ {done}
           /\ ~(slot.id = id /\ slot.phase \in {"Active", "Draining"})
  <2>1. /\ Of("Deliver")' = Of("Deliver") \ {done}
        /\ Of("Retire")' = Of("Retire")
        /\ Of("EnqueueFence")' = Of("EnqueueFence")
        /\ Of("StartActivation")' = Of("StartActivation")
    BY <1>5, TaskFields DEF Of
  <2>2. TypeOK'
    <3>1. SlotType'
      BY <1>1, <1>5 DEF TypeOK, SlotType
    <3> QED BY <1>1, <1>2, <1>5, <3>1, TypeFrame DEF TypeOK
  <2>3. CommandCustody'
    BY <1>2, <1>5, <2>1, CustodySettles DEF Waiting
  <2>4. LeaseCustody'
    BY <1>5, <2>1, LeaseFrame DEF Installed
  <2>5. ReservationsExact'
    <3>1. slot.id # id => DeliverTasks(slot.id)' = DeliverTasks(slot.id)
      BY <1>5, TaskFields DEF DeliverTasks
    <3> QED BY <1>5, <3>1 DEF ReservationsExact
  <2>6. FenceIsLast' /\ WaitersServed'
    BY <1>5, <2>1, TaskFields, FenceFrame, ServedFrame
  <2>7. ActivationHistory'
    <3>1. IsFiniteSet(tasks')
      BY <1>5, FS_RemoveElement DEF ActivationHistory
    <3>2. Retirements(slot.id)' = Retirements(slot.id)
      BY <1>5, <2>1 DEF Retirements, Of
    <3> QED BY <1>5, <2>1, <3>1, <3>2, HistoryFrame DEF ActivationHistory
  <2> QED BY <2>2, <2>3, <2>4, <2>5, <2>6, <2>7
<1>6. CASE slot.id = id /\ slot.phase \in {"Active", "Draining"}
  <2> DEFINE n == slot.reservations
             fence == IF slot.phase = "Draining" /\ n = 1
                      THEN {EnqueueFence(id)} ELSE {}
  <2>1. n = Cardinality(DeliverTasks(id)) /\ n \in Nat /\ n > 0
    <3>1. n = Cardinality(DeliverTasks(id))
      BY <1>6 DEF ReservationsExact
    <3>2. Cardinality(DeliverTasks(id)) # 0
      BY <1>3, FS_EmptySet
    <3> QED BY <1>3, <3>1, <3>2
  <2>2. /\ slot.phase = "Active" => slot' = Active(id, n - 1)
        /\ slot.phase = "Draining" => slot' = Draining(id, n - 1)
        /\ tasks' = (tasks \ {done}) \cup fence
    <3> HIDE DEF IInv
    <3>1. CASE slot.phase = "Active"
      BY <1>6, <2>1, <3>1, DeliveryResolvedStep DEF IInv
    <3>2. CASE slot.phase = "Draining" /\ n # 1
      BY <1>6, <2>1, <3>2, DeliveryResolvedStep DEF IInv
    <3>3. CASE slot.phase = "Draining" /\ n = 1
      <4>0. TypeOK /\ n - 1 = 0 /\ slot.id = id /\ slot.phase = "Draining"
            /\ slot.phase # "Active" /\ slot.reservations = 1
        BY <1>6, <3>3 DEF IInv
      <4> HIDE DEF done
      <4>1. /\ slot' = Draining(id, 0)
            /\ tasks' = (tasks \ {Deliver(id, d)}) \cup {EnqueueFence(id)}
        BY <4>0, DeliveryResolvedStep
      <4> USE DEF done
      <4>2. fence = {EnqueueFence(id)}
        BY <3>3
      <4> QED BY <3>3, <4>1, <4>2
    <3> QED BY <1>6, <3>1, <3>2, <3>3
  <2> HIDE DEF fence
  <2>3. /\ slot'.phase = slot.phase /\ slot'.id = id
        /\ slot'.waiters = << >> /\ slot'.reservations = n - 1
    BY <1>6, <2>2 DEF Active, Draining, Slot
  <2>4. slot.waiters = << >> /\ slot.id \in Known
    BY <1>1, <1>6, SlotShapes DEF Inactive, Slot
  <2>5. /\ Of("Deliver")' = Of("Deliver") \ {done}
        /\ Of("Retire")' = Of("Retire")
        /\ Of("StartActivation")' = Of("StartActivation")
        /\ Of("EnqueueFence")' = Of("EnqueueFence") \cup fence
    BY <2>2, TaskFields DEF Of, fence
  <2>6. TypeOK'
    <3>1. SlotType'
      <4>1. id \in Known' /\ id # NoActivation /\ n - 1 \in Nat
        BY <1>1, <2>1 DEF Known, NoActivation, TypeOK
      <4>2. << >> \in Seq(Dispatches)
        OBVIOUS
      <4> QED BY <1>6, <2>2, <4>1, <4>2, SlotTypeNext
    <3>2. fence \subseteq TaskType
      BY <1>1, TaskTypes DEF fence
    <3>3. tasks' \subseteq tasks \cup fence
      BY <2>2
    <3> QED BY <1>1, <1>2, <3>1, <3>2, <3>3, TypeFrame DEF TypeOK
  <2>7. CommandCustody'
    <3>1. Waiting' = Waiting
      BY <2>3, <2>4 DEF Waiting
    <3> QED BY <1>2, <2>5, <3>1, CustodySettles
  <2>8. LeaseCustody'
    <3>1. Installed' = Installed
      BY <1>6, <2>3 DEF Installed
    <3> QED BY <2>5, <3>1, LeaseFrame
  <2>9. DeliverTasks(id)' = DeliverTasks(id) \ {done}
    BY <2>5 DEF DeliverTasks, Of
  <2>10. ReservationsExact'
    BY <1>3, <2>1, <2>3, <2>9 DEF ReservationsExact
  <2>11. fence # {} => DeliverTasks(id)' = {}
    <3>1. ASSUME fence # {} PROVE Cardinality(DeliverTasks(id) \ {done}) = 0
      BY <1>3, <2>1, <3>1 DEF fence
    <3>2. IsFiniteSet(DeliverTasks(id) \ {done})
      BY <1>3, FS_RemoveElement
    <3> QED BY <2>9, <3>1, <3>2, FS_EmptySet
  <2>12. \A i : i # id => DeliverTasks(i)' = DeliverTasks(i)
    BY <2>5, TaskFields DEF DeliverTasks, Of
  <2>13. \A i : Fenced(i)' <=> Fenced(i) \/ (i = id /\ fence # {})
    BY <2>5, TaskFields DEF Fenced, Of, fence
  <2>14. FenceIsLast'
    <3>1. \A i : Retire(i, "Graceful") \in tasks' => Retire(i, "Graceful") \in tasks
      BY <2>5, TaskFields DEF Of
    <3>2. \A i \in Known : Fenced(i)' => DeliverTasks(i)' = {}
      BY <1>4, <2>11, <2>12, <2>13 DEF FenceIsLast
    <3> QED BY <1>1, <3>1, <3>2 DEF FenceIsLast
  <2>15. WaitersServed'
    <3>1. Len(slot'.waiters) = 0
      BY <2>3
    <3> QED BY <1>6, <2>3, <3>1, WaiterLimitAssumption DEF WaitersServed
  <2>16. ActivationHistory'
    <3>1. IsFiniteSet(tasks')
      <4>1. IsFiniteSet(tasks \ {done}) /\ IsFiniteSet(fence)
        BY FS_RemoveElement, FS_EmptySet, FS_Singleton
        DEF ActivationHistory, fence
      <4> QED BY <2>2, <4>1, FS_Union
    <3>2. IsInjective(slot'.waiters)
      BY <2>3 DEF IsInjective
    <3>3. \A i : StartActivation(i) \in tasks' <=> StartActivation(i) \in tasks
      BY <2>5, TaskFields DEF Of
    <3>4. fence # {} => slot'.reservations = 0 /\ slot'.phase = "Draining"
      BY <2>1, <2>3 DEF fence
    <3>5. \A i \in Known : DeliverTasks(i)' # {} \/ Fenced(i)' => i \in granted
      BY <1>4, <2>12, <2>13 DEF ActivationHistory
    <3>6. \A i \in Known : Fenced(i)' /\ slot'.id = i
                           => ~Admitting(i)' /\ slot'.reservations = 0
      BY <1>4, <2>3, <2>13, <3>4 DEF Admitting
    <3> QED BY <1>1, <1>6, <2>3, <3>1, <3>2, <3>3, <3>5, <3>6
            DEF ActivationHistory
  <2> QED BY <2>6, <2>7, <2>8, <2>10, <2>14, <2>15, <2>16
<1> QED BY <1>5, <1>6, DeliveryResolvedStep

(* A fact that changes nothing but drops its own fence task.               *)
LEMMA IgnoredPreserves ==
  ASSUME IInv, NEW id, NEW finished \in SUBSET {EnqueueFence(id)},
         Unchanged(finished),
         UNCHANGED <<lastId, issued, accepted, cancelled, failed, granted, retired>>,
         \/ acked' = acked
         \/ acked' = acked \cup {id} /\ EnqueueFence(id) \in tasks
  PROVE  IInv'
<1> USE DEF IInv
<1>1. slot' = slot /\ tasks' = tasks \ finished /\ returned' = returned
  BY DEF Unchanged
<1>2. /\ Of("Deliver")' = Of("Deliver") /\ Of("Retire")' = Of("Retire")
      /\ Of("StartActivation")' = Of("StartActivation")
  BY <1>1, TaskFields DEF Of
<1>3. \A i : Fenced(i)' => Fenced(i)
  BY <1>1, TaskFields DEF Fenced
<1>4. Known' = Known /\ acked' \subseteq Known
  BY TaskIds DEF Known, TypeOK
<1>5. \A i : /\ DeliverTasks(i)' = DeliverTasks(i)
             /\ Retirements(i)' = Retirements(i)
             /\ StartActivation(i) \in tasks' <=> StartActivation(i) \in tasks
             /\ Retire(i, "Graceful") \in tasks' <=> Retire(i, "Graceful") \in tasks
  BY <1>2, TaskFields DEF DeliverTasks, Retirements, Of
<1>6. TypeOK'
  <2>1. SlotType'
    BY <1>1, <1>4 DEF TypeOK, SlotType
  <2> QED BY <1>1, <1>4, <2>1, TypeFrame DEF TypeOK
<1>7. CommandCustody'
  BY <1>1, <1>2, CustodyFrame DEF Waiting, commands
<1>8. LeaseCustody'
  BY <1>1, <1>2, LeaseFrame DEF Installed
<1>9. ReservationsExact' /\ WaitersServed'
  BY <1>1, <1>2, ReservationsFrame, ServedFrame
<1>10. FenceIsLast'
  BY <1>3, <1>4, <1>5 DEF FenceIsLast
<1>11. ActivationHistory'
  <2>1. IsFiniteSet(tasks')
    BY <1>1, FS_Difference DEF ActivationHistory
  <2>2. Retirements(slot.id)' = Retirements(slot.id)
    BY <1>1, <1>2 DEF Retirements, Of
  <2> QED BY <1>1, <1>3, <1>4, <1>5, <2>1, <2>2 DEF ActivationHistory, Admitting
<1> QED BY <1>6, <1>7, <1>8, <1>9, <1>10, <1>11

LEMMA PassivatePreserves ==
  ASSUME IInv, NEW id, Passivate(id)
  PROVE  IInv'
<1> USE DEF IInv
<1>1. UNCHANGED <<lastId, issued, accepted, cancelled, failed, granted, acked, retired>>
      /\ Known' = Known
  BY DEF Passivate, history, Known
<1>2. CASE Unchanged({})
  BY <1>1, <1>2, IgnoredPreserves
<1>3. CASE /\ slot.phase = "Active" /\ slot.id = id
           /\ slot' = Draining(id, slot.reservations)
           /\ returned' = returned
           /\ IF slot.reservations = 0
              THEN tasks' = tasks \cup {EnqueueFence(id)}
              ELSE tasks' = tasks
  <2> DEFINE fence == IF slot.reservations = 0 THEN {EnqueueFence(id)} ELSE {}
  <2>1. tasks' = tasks \cup fence
    BY <1>3
  <2>2. /\ slot.waiters = << >> /\ id \in Known /\ slot.reservations \in Nat
        /\ slot.reservations = Cardinality(DeliverTasks(id))
        /\ IsFiniteSet(DeliverTasks(id))
    BY <1>3, SlotShapes, FiniteDeliverTasks
    DEF TypeOK, SlotType, Inactive, Slot, ReservationsExact, ActivationHistory
  <2>3. /\ slot'.phase = "Draining" /\ slot'.id = id /\ slot'.waiters = << >>
        /\ slot'.reservations = slot.reservations
    BY <1>3 DEF Draining, Slot
  <2>4. fence # {} => slot.reservations = 0 /\ DeliverTasks(id) = {}
    BY <2>2, FS_EmptySet
  <2> HIDE DEF fence
  <2>5. /\ Of("Deliver")' = Of("Deliver") /\ Of("Retire")' = Of("Retire")
        /\ Of("StartActivation")' = Of("StartActivation")
    BY <2>1, TaskFields DEF Of, fence
  <2>6. \A i : Fenced(i)' <=> Fenced(i) \/ (i = id /\ fence # {})
    BY <1>1, <2>1, TaskFields DEF Fenced, fence
  <2>7. \A i : /\ DeliverTasks(i)' = DeliverTasks(i)
               /\ StartActivation(i) \in tasks' <=> StartActivation(i) \in tasks
               /\ Retire(i, "Graceful") \in tasks' <=> Retire(i, "Graceful") \in tasks
    BY <2>5, TaskFields DEF DeliverTasks, Of
  <2>8. TypeOK'
    <3>1. SlotType'
      <4>1. id \in Known' /\ id # NoActivation /\ << >> \in Seq(Dispatches)
        BY <1>1, <2>2 DEF Known, NoActivation, TypeOK
      <4> QED BY <1>3, <2>2, <4>1, SlotTypeNext
    <3>2. fence \subseteq TaskType
      BY <2>2, TaskTypes DEF fence
    <3> QED BY <1>1, <1>3, <2>1, <3>1, <3>2, TypeFrame DEF TypeOK
  <2>9. CommandCustody'
    BY <1>1, <1>3, <2>2, <2>3, <2>5, CustodyFrame DEF Waiting, commands
  <2>10. LeaseCustody'
    <3>1. Installed' = Installed
      BY <1>3, <2>3 DEF Installed
    <3> QED BY <1>1, <2>5, <3>1, LeaseFrame
  <2>11. ReservationsExact'
    <3>1. DeliverTasks(slot.id)' = DeliverTasks(id)
      BY <2>3, <2>5 DEF DeliverTasks, Of
    <3> QED BY <2>2, <2>3, <3>1 DEF ReservationsExact
  <2>12. FenceIsLast'
    BY <1>1, <2>4, <2>6, <2>7 DEF FenceIsLast
  <2>13. WaitersServed'
    <3>1. Len(slot'.waiters) = 0
      BY <2>3
    <3> QED BY <2>3, <3>1, WaiterLimitAssumption DEF WaitersServed
  <2>14. ActivationHistory'
    <3>1. IsFiniteSet(tasks')
      BY <2>1, FS_AddElement DEF ActivationHistory, fence
    <3>2. IsInjective(slot'.waiters)
      BY <2>3 DEF IsInjective
    <3>3. id \in granted /\ ~Fenced(id)
      BY <1>3, <2>2 DEF LeaseCustody, Installed, ActivationHistory, Admitting
    <3> QED BY <1>1, <1>3, <2>3, <2>4, <2>6, <2>7, <3>1, <3>2, <3>3
            DEF ActivationHistory, Admitting
  <2> QED BY <2>8, <2>9, <2>10, <2>11, <2>12, <2>13, <2>14
<1> QED BY <1>2, <1>3, PassivateStep

(* Draining ends in a retirement, graceful or forced, that owns the lease. *)
LEMMA RetirePreserves ==
  ASSUME IInv, NEW id, NEW mode \in {"Graceful", "Forced"},
         NEW finished \in SUBSET {EnqueueFence(id)},
         slot.phase = "Draining", slot.id = id, slot' = Retiring(id),
         tasks' = (tasks \ finished) \cup {Retire(id, mode)},
         returned' = returned,
         UNCHANGED <<lastId, issued, accepted, cancelled, failed, granted, retired>>,
         \/ acked' = acked /\ mode = "Forced"
         \/ acked' = acked \cup {id} /\ EnqueueFence(id) \in tasks
  PROVE  IInv'
<1> USE DEF IInv
<1>1. /\ slot.waiters = << >> /\ id \in Known /\ Known' = Known
  BY SlotShapes DEF TypeOK, SlotType, Inactive, Slot, Known
<1>2. /\ slot'.phase = "Retiring" /\ slot'.id = id /\ slot'.waiters = << >>
      /\ slot'.reservations = 0
  BY DEF Retiring, Slot
<1>3. /\ Installed = {id} /\ Installed' = {}
      /\ Retirements(id) = {} /\ id \notin retired /\ id \in granted
  BY <1>1, <1>2 DEF Installed, LeaseCustody
<1>4. /\ Of("Deliver")' = Of("Deliver")
      /\ Of("StartActivation")' = Of("StartActivation")
      /\ Retirements(id)' = {Retire(id, mode)}
      /\ \A i : i # id => Retirements(i)' = Retirements(i)
  BY <1>3, TaskFields DEF Of, Retirements
<1>5. \A i : Fenced(i)' => Fenced(i)
  BY TaskFields DEF Fenced
<1>6. \A i : /\ DeliverTasks(i)' = DeliverTasks(i)
             /\ StartActivation(i) \in tasks' <=> StartActivation(i) \in tasks
  BY <1>4, TaskFields DEF DeliverTasks, Of
<1>7. TypeOK'
  <2>1. SlotType'
    <3>1. id \in Known' /\ id # NoActivation /\ << >> \in Seq(Dispatches) /\ 0 \in Nat
      BY <1>1 DEF Known, NoActivation, TypeOK
    <3> QED BY <3>1, SlotTypeNext
  <2>2. {Retire(id, mode)} \subseteq TaskType
    BY <1>1, TaskTypes
  <2>3. acked' \subseteq Known
    BY <1>1 DEF TypeOK
  <2> QED BY <2>1, <2>2, <2>3, TypeFrame DEF TypeOK
<1>8. CommandCustody'
  BY <1>1, <1>2, <1>4, CustodyFrame DEF Waiting, commands
<1>9. LeaseCustody'
  BY <1>1, <1>3, <1>4 DEF LeaseCustody
<1>10. ReservationsExact' /\ WaitersServed'
  <2>1. Len(slot'.waiters) = 0
    BY <1>2
  <2> QED BY <1>2, <2>1, WaiterLimitAssumption DEF ReservationsExact, WaitersServed
<1>11. FenceIsLast'
  <2>1. \A i : Retire(i, "Graceful") \in tasks' =>
              Retire(i, "Graceful") \in tasks \/ (i = id /\ mode = "Graceful")
    BY TaskFields
  <2> QED BY <1>1, <1>5, <1>6, <2>1 DEF FenceIsLast
<1>12. ActivationHistory'
  <2>1. IsFiniteSet(tasks')
    <3>1. IsFiniteSet(tasks \ finished)
      BY FS_Difference DEF ActivationHistory
    <3> QED BY <3>1, FS_AddElement
  <2>2. IsInjective(slot'.waiters)
    BY <1>2 DEF IsInjective
  <2>3. Retirements(slot.id)' # {}
    BY <1>2, <1>4 DEF Retirements
  <2> QED BY <1>1, <1>2, <1>5, <1>6, <2>1, <2>2, <2>3
          DEF ActivationHistory, Admitting
<1> QED BY <1>7, <1>8, <1>9, <1>10, <1>11, <1>12

LEMMA TerminatedPreserves ==
  ASSUME IInv, NEW id, NEW mode, Terminated(id, mode)
  PROVE  IInv'
<1> USE DEF IInv
<1> DEFINE done == Retire(id, mode)
<1>1. /\ done \in tasks /\ id \in Known /\ Known' = Known
      /\ retired' = retired \cup {id}
      /\ UNCHANGED <<lastId, issued, accepted, cancelled, failed, granted, acked>>
  BY TaskIds DEF Terminated, Known
<1>2. /\ slot.phase = "Retiring" /\ slot.id = id => slot' = Inactive
      /\ ~(slot.phase = "Retiring" /\ slot.id = id) => slot' = slot
      /\ tasks' = tasks \ {done} /\ returned' = returned
  BY TerminatedStep DEF Unchanged
<1>3. /\ Retirements(id) = {done} /\ id \in granted /\ id \notin retired
      /\ id \notin Installed
  <2>1. done \in Retirements(id)
    BY <1>1, TaskFields DEF Retirements
  <2> QED BY <1>1, <2>1 DEF LeaseCustody
<1>4. /\ Of("Deliver")' = Of("Deliver")
      /\ Of("EnqueueFence")' = Of("EnqueueFence")
      /\ Of("StartActivation")' = Of("StartActivation")
      /\ Retirements(id)' = {}
      /\ \A i : i # id => Retirements(i)' = Retirements(i)
  BY <1>2, <1>3, TaskFields DEF Of, Retirements
<1>5. \A i : /\ DeliverTasks(i)' = DeliverTasks(i)
             /\ StartActivation(i) \in tasks' <=> StartActivation(i) \in tasks
             /\ Fenced(i)' <=> Fenced(i)
             /\ Retire(i, "Graceful") \in tasks' => Retire(i, "Graceful") \in tasks
  BY <1>1, <1>2, <1>4, TaskFields DEF DeliverTasks, Of, Fenced
<1>6. IsFiniteSet(tasks')
  BY <1>2, FS_RemoveElement DEF ActivationHistory
<1>7. FenceIsLast'
  BY <1>1, <1>5 DEF FenceIsLast
<1>8. CASE slot.phase = "Retiring" /\ slot.id = id
  <2>1. /\ slot' = Inactive /\ slot'.phase = "Inactive" /\ slot'.id = NoActivation
        /\ slot'.waiters = << >> /\ slot'.reservations = 0
    BY <1>2, <1>8 DEF Inactive, Slot
  <2>2. slot.waiters = << >>
    BY <1>8, SlotShapes DEF Inactive, Slot
  <2>3. TypeOK'
    BY <1>1, <1>2, <2>1, SlotTypeInactive, TypeFrame DEF TypeOK
  <2>4. CommandCustody'
    BY <1>1, <1>2, <1>4, <2>1, <2>2, CustodyFrame DEF Waiting, commands
  <2>5. LeaseCustody'
    <3>1. Installed = {} /\ Installed' = {}
      BY <1>8, <2>1 DEF Installed
    <3> QED BY <1>1, <1>3, <1>4, <3>1 DEF LeaseCustody
  <2>6. ReservationsExact' /\ WaitersServed'
    <3>1. Len(slot'.waiters) = 0
      BY <2>1
    <3> QED BY <2>1, <3>1, WaiterLimitAssumption DEF ReservationsExact, WaitersServed
  <2>7. ActivationHistory'
    <3>1. IsInjective(slot'.waiters)
      BY <2>1 DEF IsInjective
    <3>2. \A i \in Known : i # NoActivation
      BY DEF Known, NoActivation, TypeOK
    <3> QED BY <1>1, <1>5, <1>6, <2>1, <3>1, <3>2 DEF ActivationHistory, Admitting
  <2> QED BY <1>7, <2>3, <2>4, <2>5, <2>6, <2>7
<1>9. CASE ~(slot.phase = "Retiring" /\ slot.id = id)
  <2>1. slot' = slot
    BY <1>2, <1>9
  <2>2. TypeOK'
    <3>1. SlotType'
      BY <1>1, <2>1 DEF TypeOK, SlotType
    <3> QED BY <1>1, <1>2, <3>1, TypeFrame DEF TypeOK
  <2>3. CommandCustody'
    BY <1>1, <1>2, <1>4, <2>1, CustodyFrame DEF Waiting, commands
  <2>4. LeaseCustody'
    <3>1. Installed' = Installed
      BY <2>1 DEF Installed
    <3> QED BY <1>1, <1>3, <1>4, <3>1 DEF LeaseCustody
  <2>5. ReservationsExact' /\ WaitersServed'
    BY <1>1, <1>4, <2>1, ReservationsFrame, ServedFrame
  <2>6. ActivationHistory'
    <3>1. slot.phase = "Retiring" => Retirements(slot.id)' # {}
      <4>1. slot.phase = "Retiring" => slot.id # id
        BY <1>9
      <4>2. slot.id # id => Retirements(slot.id)' = Retirements(slot.id)
        BY <1>2, <2>1, TaskFields DEF Retirements
      <4> QED BY <4>1, <4>2 DEF ActivationHistory
    <3> QED BY <1>1, <1>4, <1>6, <2>1, <3>1, HistoryFrame
  <2> QED BY <1>7, <2>2, <2>3, <2>4, <2>5, <2>6
<1> QED BY <1>8, <1>9

-----------------------------------------------------------------------------
LEMMA NextIInv == IInv /\ [Next]_vars => IInv'
<1> SUFFICES ASSUME IInv, [Next]_vars PROVE IInv'
  OBVIOUS
<1>0. TypeOK
  BY DEF IInv
<1>1. ASSUME NEW d \in Dispatches, Claim(d) PROVE IInv'
  BY <1>1, ClaimPreserves
<1>2. ASSUME NEW d \in Dispatches, Dispatch(d) PROVE IInv'
  BY <1>2, DispatchPreserves
<1>3. ASSUME NEW id \in ActivationIds, NEW d \in Dispatches, Cancel(id, d)
      PROVE  IInv'
  BY <1>3, CancelPreserves
<1>4. ASSUME NEW id \in ActivationIds, NEW d \in Dispatches, Delivered(id, d)
      PROVE  IInv'
  <2>1. << >> \in {<< >>, << d >>}
    OBVIOUS
  <2> QED BY <1>4, <2>1, DeliveryResolvedPreserves DEF Delivered, history
<1>5. ASSUME NEW id \in ActivationIds, NEW d \in Dispatches, DeliveryFailed(id, d)
      PROVE  IInv'
  <2>1. << d >> \in {<< >>, << d >>} /\ << d >> # << >>
    OBVIOUS
  <2> QED BY <1>5, <2>1, DeliveryResolvedPreserves DEF DeliveryFailed, history
<1>6. ASSUME NEW id \in ActivationIds, ActivationSucceeded(id) PROVE IInv'
  BY <1>6, ActivationSucceededPreserves
<1>7. ASSUME NEW id \in ActivationIds, ActivationFailed(id) PROVE IInv'
  BY <1>7, ActivationFailedPreserves
<1>8. ASSUME NEW id \in ActivationIds, Passivate(id) PROVE IInv'
  BY <1>8, PassivatePreserves
<1>9. ASSUME NEW id \in ActivationIds, ForceRetirement(id) PROVE IInv'
  <2>1. Submit([trigger |-> "ForceDrain", id |-> id], {})
        /\ UNCHANGED <<lastId, issued, accepted, cancelled, failed, granted, acked, retired>>
    BY <1>9 DEF ForceRetirement, history
  <2>2. CASE Unchanged({})
    BY <2>1, <2>2, IgnoredPreserves
  <2>3. CASE ~Unchanged({})
    BY <1>0, <2>1, <2>3, ForceDrainStep, RetirePreserves
  <2> QED BY <2>2, <2>3
<1>10. ASSUME NEW id \in ActivationIds, FenceAcknowledged(id) PROVE IInv'
  <2>1. /\ EnqueueFence(id) \in tasks /\ acked' = acked \cup {id}
        /\ UNCHANGED <<lastId, issued, accepted, cancelled, failed, granted, retired>>
    BY <1>10 DEF FenceAcknowledged
  <2>2. CASE Unchanged({EnqueueFence(id)})
    BY <2>1, <2>2, IgnoredPreserves
  <2>3. CASE ~Unchanged({EnqueueFence(id)})
    BY <1>0, <1>10, <2>1, <2>3, FenceAcknowledgedStep, RetirePreserves
  <2> QED BY <2>2, <2>3
<1>11. ASSUME NEW id \in ActivationIds, FenceFailed(id) PROVE IInv'
  <2>1. Submit([trigger |-> "ForceDrain", id |-> id], {EnqueueFence(id)})
        /\ UNCHANGED <<lastId, issued, accepted, cancelled, failed, granted, acked, retired>>
    BY <1>11 DEF FenceFailed, history
  <2>2. CASE Unchanged({EnqueueFence(id)})
    BY <2>1, <2>2, IgnoredPreserves
  <2>3. CASE ~Unchanged({EnqueueFence(id)})
    BY <1>0, <2>1, <2>3, ForceDrainStep, RetirePreserves
  <2> QED BY <2>2, <2>3
<1>12. ASSUME NEW id \in ActivationIds, NEW mode \in {"Graceful", "Forced"},
              Terminated(id, mode)
       PROVE  IInv'
  BY <1>12, TerminatedPreserves
<1>13. ASSUME NEW d \in Dispatches, DispatchRemoved(d) PROVE IInv'
  BY <1>13, DispatchRemovedPreserves
<1>14. CASE UNCHANGED vars
  BY <1>14
  DEF vars, commands, history, IInv, TypeOK, SlotType, TaskType, Known,
      CommandCustody, Owner, Waiting, InFlight, LeaseCustody, Installed,
      Retirements, ReservationsExact, DeliverTasks, FenceIsLast, Fenced,
      WaitersServed, ActivationHistory, Admitting
<1> QED BY <1>1, <1>2, <1>3, <1>4, <1>5, <1>6, <1>7, <1>8, <1>9, <1>10, <1>11,
           <1>12, <1>13, <1>14 DEF Next

(* The inductive invariant holds of every behaviour.                       *)
THEOREM Invariance == Spec => []IInv
BY InitIInv, NextIInv, PTL DEF Spec

(* Type correctness of the slot, its tasks and the command sets.           *)
THEOREM TypeCorrect == Spec => []TypeOK
<1>1. IInv => TypeOK
  BY DEF IInv
<1> QED BY <1>1, Invariance, PTL

(* No refusal path, stale fact or cancellation loses, duplicates or        *)
(* double-settles a command, for any number of commands and activations.   *)
THEOREM CommandsInCustody == Spec => []CommandCustody
<1>1. IInv => CommandCustody
  BY DEF IInv
<1> QED BY <1>1, Invariance, PTL

(* Every lease ever granted, even by a late success, is installed, being   *)
(* retired once, or terminated.                                            *)
THEOREM LeasesInCustody == Spec => []LeaseCustody
<1>1. IInv => LeaseCustody
  BY DEF IInv
<1> QED BY <1>1, Invariance, PTL

(* The reservation count equals the current incarnation's own unresolved   *)
(* deliveries.                                                             *)
THEOREM ReservationsAreExact == Spec => []ReservationsExact
<1>1. IInv => ReservationsExact
  BY DEF IInv
<1> QED BY <1>1, Invariance, PTL

(* A fence is requested, and a graceful retirement granted, only after     *)
(* every delivery of the incarnation resolved.                             *)
THEOREM FenceFollowsDeliveries == Spec => []FenceIsLast
<1>1. IInv => FenceIsLast
  BY DEF IInv
<1> QED BY <1>1, Invariance, PTL

(* The waiters never exceed the limit, and every waiting caller's attempt  *)
(* is still outstanding.                                                   *)
THEOREM WaitersAreServed == Spec => []WaitersServed
<1>1. IInv => WaitersServed
  BY DEF IInv
<1> QED BY <1>1, Invariance, PTL

-----------------------------------------------------------------------------
(* What a step may never do.                                               *)

AdmissionStep ==
  \A id \in Known : ~Admitting(id) => DeliverTasks(id)' \subseteq DeliverTasks(id)

DepartureStep ==
  slot.id # NoActivation /\ slot'.id # slot.id =>
    /\ slot' = Inactive
    /\ slot.id \in (failed' \ failed) \cup (retired' \ retired)

LEMMA NoNewDelivery ==
  ASSUME NEW fx, tasks' \subseteq tasks \cup {fx}, fx.type # "Deliver"
  PROVE  AdmissionStep
BY DEF AdmissionStep, DeliverTasks

LEMMA SlotFields ==
  /\ \A i, ws : Activating(i, ws).id = i
  /\ \A i, n : Active(i, n).id = i /\ Draining(i, n).id = i
  /\ \A i : Retiring(i).id = i
BY DEF Activating, Active, Draining, Retiring, Slot

LEMMA AdmissionKept == IInv /\ [Next]_vars => AdmissionStep
<1> SUFFICES ASSUME IInv, [Next]_vars PROVE AdmissionStep
  OBVIOUS
<1>0. TypeOK
  BY DEF IInv
<1>1. ASSUME NEW d \in Dispatches, Claim(d) PROVE AdmissionStep
  BY <1>0, <1>1, ClaimStep, NoNewDelivery, TaskFields
<1>2. ASSUME NEW d \in Dispatches, Dispatch(d) PROVE AdmissionStep
  <2>1. CASE tasks' = tasks
    BY <2>1 DEF AdmissionStep, DeliverTasks
  <2>2. CASE slot.phase = "Active" /\ tasks' = tasks \cup {Deliver(slot.id, d)}
    BY <2>2, TaskFields DEF AdmissionStep, DeliverTasks, Admitting
  <2> QED BY <1>0, <1>2, <2>1, <2>2, DispatchStep DEF Refusing
<1>3. ASSUME NEW d \in Dispatches, DispatchRemoved(d) PROVE AdmissionStep
  BY <1>3 DEF DispatchRemoved, AdmissionStep, DeliverTasks
<1>4. ASSUME NEW id \in ActivationIds, NEW d \in Dispatches, Cancel(id, d)
      PROVE  AdmissionStep
  <2>1. tasks' \subseteq tasks
    BY <1>0, <1>4, CancelStep DEF Unchanged
  <2> QED BY <2>1 DEF AdmissionStep, DeliverTasks
<1>5. ASSUME NEW id \in ActivationIds, NEW d \in Dispatches,
             Delivered(id, d) \/ DeliveryFailed(id, d)
      PROVE  AdmissionStep
  <2>1. PICK failure \in {<< >>, << d >>} :
          Submit([trigger |-> "DeliveryResolved", id |-> id,
                  failure |-> failure], {Deliver(id, d)})
    BY <1>5 DEF Delivered, DeliveryFailed
  <2>2. tasks' \subseteq tasks \cup {EnqueueFence(id)}
    BY <1>0, <2>1, DeliveryResolvedStep
  <2> QED BY <2>2, NoNewDelivery, TaskFields
<1>6. ASSUME NEW id \in ActivationIds, ActivationSucceeded(id) PROVE AdmissionStep
  <2>1. CASE /\ slot.phase = "Activating" /\ slot.id = id
             /\ tasks' = (tasks \ {StartActivation(id)})
                           \cup {Deliver(id, d) : d \in Range(slot.waiters)}
    BY <2>1, TaskFields DEF AdmissionStep, DeliverTasks, Admitting
  <2>2. CASE tasks' = (tasks \ {StartActivation(id)}) \cup {Retire(id, "Forced")}
    BY <2>2, NoNewDelivery, TaskFields
  <2> QED BY <1>0, <1>6, <2>1, <2>2, ActivationSucceededStep
<1>7. ASSUME NEW id \in ActivationIds, ActivationFailed(id) PROVE AdmissionStep
  <2>1. tasks' \subseteq tasks
    BY <1>0, <1>7, ActivationFailedStep DEF Unchanged
  <2> QED BY <2>1 DEF AdmissionStep, DeliverTasks
<1>8. ASSUME NEW id \in ActivationIds, Passivate(id) PROVE AdmissionStep
  <2>1. tasks' \subseteq tasks \cup {EnqueueFence(id)}
    BY <1>0, <1>8, PassivateStep DEF Unchanged
  <2> QED BY <2>1, NoNewDelivery, TaskFields
<1>9. ASSUME NEW id \in ActivationIds, ForceRetirement(id) \/ FenceFailed(id)
      PROVE  AdmissionStep
  <2>1. PICK fin \in {{}, {EnqueueFence(id)}} :
          Submit([trigger |-> "ForceDrain", id |-> id], fin)
    BY <1>9 DEF ForceRetirement, FenceFailed
  <2>2. tasks' \subseteq tasks \cup {Retire(id, "Forced")}
    BY <1>0, <2>1, ForceDrainStep DEF Unchanged
  <2> QED BY <2>2, NoNewDelivery, TaskFields
<1>10. ASSUME NEW id \in ActivationIds, FenceAcknowledged(id) PROVE AdmissionStep
  <2>1. tasks' \subseteq tasks \cup {Retire(id, "Graceful")}
    BY <1>0, <1>10, FenceAcknowledgedStep DEF Unchanged
  <2> QED BY <2>1, NoNewDelivery, TaskFields
<1>11. ASSUME NEW id \in ActivationIds, NEW mode \in {"Graceful", "Forced"},
              Terminated(id, mode)
       PROVE  AdmissionStep
  <2>1. tasks' \subseteq tasks
    BY <1>0, <1>11, TerminatedStep DEF Unchanged
  <2> QED BY <2>1 DEF AdmissionStep, DeliverTasks
<1>12. CASE UNCHANGED vars
  BY <1>12 DEF vars, AdmissionStep, DeliverTasks
<1> QED BY <1>1, <1>2, <1>3, <1>4, <1>5, <1>6, <1>7, <1>8, <1>9, <1>10, <1>11,
           <1>12 DEF Next

(* No step delivers to an activation that does not admit: not a late       *)
(* activation result, not a retry, not a stale dispatch.                   *)
THEOREM AdmissionStaysClosed == Spec => AdmissionNeverReopens
<1>1. IInv /\ [Next]_vars => [AdmissionStep]_vars
  BY AdmissionKept
<1> QED BY <1>1, Invariance, PTL DEF Spec, AdmissionNeverReopens, AdmissionStep

LEMMA DepartureExact == IInv /\ [Next]_vars => DepartureStep
<1> SUFFICES ASSUME IInv, [Next]_vars, slot.id # NoActivation, slot'.id # slot.id
             PROVE  /\ slot' = Inactive
                    /\ slot.id \in (failed' \ failed) \cup (retired' \ retired)
  BY DEF DepartureStep
<1>0. TypeOK /\ LeaseCustody /\ slot.id \in Known
  <2>1. slot # Inactive
    BY DEF Inactive, Slot
  <2> QED BY <2>1 DEF IInv, TypeOK, SlotType
<1>1. ASSUME NEW d \in Dispatches, Claim(d) \/ Dispatch(d) \/ DispatchRemoved(d)
      PROVE  FALSE
  <2>1. ~Claim(d)
    <3>1. slot # Inactive
      BY DEF Inactive, Slot
    <3> QED BY <1>0, <3>1, ClaimStep
  <2>2. ~Dispatch(d)
    BY <1>0, DispatchStep, SlotFields DEF Refusing
  <2> QED BY <1>1, <2>1, <2>2 DEF DispatchRemoved
<1>2. ASSUME NEW id \in ActivationIds, NEW d \in Dispatches,
             \/ Cancel(id, d) \/ Delivered(id, d) \/ DeliveryFailed(id, d)
      PROVE  FALSE
  <2>1. ~Cancel(id, d)
    BY <1>0, CancelStep, SlotFields DEF Unchanged
  <2>2. ASSUME NEW failure \in {<< >>, << d >>},
               Submit([trigger |-> "DeliveryResolved", id |-> id,
                       failure |-> failure], {Deliver(id, d)})
        PROVE  FALSE
    <3>1. \/ slot' = slot
          \/ slot.id = id /\ \E n : slot' = Active(id, n) \/ slot' = Draining(id, n)
      BY <1>0, <2>2, DeliveryResolvedStep
    <3> QED BY <3>1, SlotFields
  <2> QED BY <1>2, <2>1, <2>2 DEF Delivered, DeliveryFailed
<1>3. ASSUME NEW id \in ActivationIds, ActivationSucceeded(id) PROVE FALSE
  BY <1>0, <1>3, ActivationSucceededStep, SlotFields
<1>4. ASSUME NEW id \in ActivationIds, ActivationFailed(id)
      PROVE  slot' = Inactive /\ slot.id \in failed' \ failed
  BY <1>0, <1>4, ActivationFailedStep DEF Unchanged, ActivationFailed
<1>5. ASSUME NEW id \in ActivationIds, Passivate(id) PROVE FALSE
  BY <1>0, <1>5, PassivateStep, SlotFields DEF Unchanged
<1>6. ASSUME NEW id \in ActivationIds, ForceRetirement(id) \/ FenceFailed(id) PROVE FALSE
  <2>1. PICK fin \in {{}, {EnqueueFence(id)}} :
          Submit([trigger |-> "ForceDrain", id |-> id], fin)
    BY <1>6 DEF ForceRetirement, FenceFailed
  <2> QED BY <1>0, <2>1, ForceDrainStep, SlotFields DEF Unchanged
<1>7. ASSUME NEW id \in ActivationIds, FenceAcknowledged(id) PROVE FALSE
  BY <1>0, <1>7, FenceAcknowledgedStep, SlotFields DEF Unchanged
<1>8. ASSUME NEW id \in ActivationIds, NEW mode \in {"Graceful", "Forced"},
             Terminated(id, mode)
      PROVE  slot' = Inactive /\ slot.id \in retired' \ retired
  <2>1. slot.phase = "Retiring" /\ slot.id = id /\ slot' = Inactive
    BY <1>0, <1>8, TerminatedStep DEF Unchanged
  <2>2. Retirements(id) # {}
    BY <1>8, TaskFields DEF Terminated, Retirements
  <2>3. id \notin retired
    BY <1>0, <2>1, <2>2 DEF LeaseCustody
  <2> QED BY <1>8, <2>1, <2>3 DEF Terminated
<1>9. CASE UNCHANGED vars
  BY <1>9 DEF vars
<1> QED BY <1>1, <1>2, <1>3, <1>4, <1>5, <1>6, <1>7, <1>8, <1>9 DEF Next

(* The slot lets an activation go only on that activation's own failure or *)
(* termination.                                                            *)
THEOREM DepartureIsExact == Spec => ExactDeparture
<1>1. IInv /\ [Next]_vars => [DepartureStep]_vars
  BY DepartureExact
<1> QED BY <1>1, Invariance, PTL DEF Spec, ExactDeparture, DepartureStep

-----------------------------------------------------------------------------
(* EntityMailbox: a step of the composition is a step of the slot or       *)
(* leaves it alone.                                                        *)

Waits(e, id) == \E i \in 1 .. Len(lane[id]) : lane[id][i] = e

(* A lane loses its events with its incarnation; a fence is its last       *)
(* event, for nothing is delivered to an activation behind its fence.      *)
LaneOrder ==
  \A id \in ActivationIds :
    /\ id \notin running => lane[id] = << >>
    /\ id \in fenced => id \in Known /\ DeliverTasks(id) = {} /\ ~Admitting(id)
    /\ \A i \in 1 .. Len(lane[id]) :
         lane[id][i] = DrainFence => i = Len(lane[id]) /\ id \in fenced

(* What entered a running incarnation is handled or still waits there.     *)
LaneContents ==
  \A id \in ActivationIds :
    /\ id \in running => \A d \in entered[id] : d \in handled \/ Waits(Inner(d), id)
    /\ \A d \in Dispatches : Waits(Inner(d), id) => d \in entered[id]
    /\ id \in replies => id \in fenced /\ entered[id] \subseteq handled
    /\ entered[id] # {} => id \in granted

(* A command in a lane is being delivered or was accepted there.           *)
LaneCustody ==
  /\ \A id \in ActivationIds : \A d \in entered[id] :
       Deliver(id, d) \in tasks \/ d \in accepted
  /\ \A i, j \in ActivationIds : i # j => entered[i] \cap entered[j] = {}
  /\ handled \subseteq UNION {entered[id] : id \in ActivationIds}
  /\ acked \subseteq replies

MInv == MailboxTypeOK /\ LaneOrder /\ LaneContents /\ LaneCustody

-----------------------------------------------------------------------------
(* What a step of the slot does to admission and to deliveries.            *)

ClosedStep == \A id \in Known : ~Admitting(id) => ~Admitting(id)'

LEMMA PhaseFields ==
  /\ \A i, ws : Activating(i, ws).phase = "Activating" /\ Activating(i, ws).id = i
  /\ \A i, n : Active(i, n).phase = "Active" /\ Active(i, n).id = i
  /\ \A i, n : Draining(i, n).phase = "Draining" /\ Draining(i, n).id = i
  /\ \A i : Retiring(i).phase = "Retiring" /\ Retiring(i).id = i
  /\ Inactive.phase = "Inactive"
BY DEF Activating, Active, Draining, Retiring, Inactive, Slot

LEMMA AdmissionCloses == IInv /\ [Next]_vars => ClosedStep
<1> SUFFICES ASSUME IInv, [Next]_vars PROVE ClosedStep
  OBVIOUS
<1>0. TypeOK
  BY DEF IInv
<1>1. ASSUME slot' = slot PROVE ClosedStep
  BY <1>1 DEF ClosedStep, Admitting
<1>2. ASSUME slot'.phase \notin {"Activating", "Active"} PROVE ClosedStep
  BY <1>2 DEF ClosedStep, Admitting
<1>3. ASSUME slot.phase \in {"Activating", "Active"}, slot'.id = slot.id PROVE ClosedStep
  BY <1>3 DEF ClosedStep, Admitting
<1>4. ASSUME NEW d \in Dispatches, Claim(d) PROVE ClosedStep
  <2>1. slot'.id = lastId + 1
    <3>1. slot' = Activating(lastId + 1, << d >>)
      BY <1>0, <1>4, ClaimStep
    <3> QED BY <3>1 DEF Activating, Slot
  <2>2. lastId + 1 \notin Known
    BY <1>0, MaxActivationAssumption DEF Known, TypeOK
  <2> QED BY <2>1, <2>2 DEF ClosedStep, Admitting
<1>5. ASSUME NEW d \in Dispatches, Dispatch(d) \/ DispatchRemoved(d) PROVE ClosedStep
  <2>1. CASE Dispatch(d)
    BY <1>0, <1>1, <1>3, <2>1, DispatchStep, PhaseFields DEF Refusing
  <2>2. CASE DispatchRemoved(d)
    BY <1>1, <2>2 DEF DispatchRemoved
  <2> QED BY <1>5, <2>1, <2>2
<1>6. ASSUME NEW id \in ActivationIds, NEW d \in Dispatches, Cancel(id, d) PROVE ClosedStep
  BY <1>0, <1>1, <1>3, <1>6, CancelStep, PhaseFields DEF Unchanged
<1>7. ASSUME NEW id \in ActivationIds, NEW d \in Dispatches,
             Delivered(id, d) \/ DeliveryFailed(id, d)
      PROVE  ClosedStep
  <2>1. PICK failure \in {<< >>, << d >>} :
          Submit([trigger |-> "DeliveryResolved", id |-> id,
                  failure |-> failure], {Deliver(id, d)})
    BY <1>7 DEF Delivered, DeliveryFailed
  <2>2. \/ slot' = slot
        \/ slot.phase = "Active" /\ slot.id = id /\ \E n : slot' = Active(id, n)
        \/ \E n : slot' = Draining(id, n)
    BY <1>0, <2>1, DeliveryResolvedStep
  <2> QED BY <1>1, <1>2, <1>3, <2>2, PhaseFields
<1>8. ASSUME NEW id \in ActivationIds, ActivationSucceeded(id) PROVE ClosedStep
  BY <1>0, <1>1, <1>3, <1>8, ActivationSucceededStep, PhaseFields
<1>9. ASSUME NEW id \in ActivationIds, ActivationFailed(id) PROVE ClosedStep
  BY <1>0, <1>1, <1>2, <1>9, ActivationFailedStep, PhaseFields DEF Unchanged
<1>10. ASSUME NEW id \in ActivationIds, Passivate(id) PROVE ClosedStep
  BY <1>0, <1>1, <1>2, <1>10, PassivateStep, PhaseFields DEF Unchanged
<1>11. ASSUME NEW id \in ActivationIds, ForceRetirement(id) \/ FenceFailed(id) PROVE ClosedStep
  <2>1. PICK fin \in {{}, {EnqueueFence(id)}} :
          Submit([trigger |-> "ForceDrain", id |-> id], fin)
    BY <1>11 DEF ForceRetirement, FenceFailed
  <2> QED BY <1>0, <1>1, <1>2, <2>1, ForceDrainStep, PhaseFields DEF Unchanged
<1>12. ASSUME NEW id \in ActivationIds, FenceAcknowledged(id) PROVE ClosedStep
  BY <1>0, <1>1, <1>2, <1>12, FenceAcknowledgedStep, PhaseFields DEF Unchanged
<1>13. ASSUME NEW id \in ActivationIds, NEW mode \in {"Graceful", "Forced"}, Terminated(id, mode)
       PROVE  ClosedStep
  BY <1>0, <1>1, <1>2, <1>13, TerminatedStep, PhaseFields DEF Unchanged
<1>14. CASE UNCHANGED vars
  BY <1>1, <1>14 DEF vars
<1> QED BY <1>4, <1>5, <1>6, <1>7, <1>8, <1>9, <1>10, <1>11, <1>12, <1>13, <1>14 DEF Next

(* Only its own resolution ends a delivery.                                *)
LEMMA SubmitKeepsDeliveries ==
  ASSUME NEW e, NEW finished, Submit(e, finished), NEW id, NEW d,
         Deliver(id, d) \in tasks, Deliver(id, d) \notin finished
  PROVE  Deliver(id, d) \in tasks'
BY DEF Submit

-----------------------------------------------------------------------------
(* A step of the composition is a step of the slot.                        *)

LEMMA MailboxStep == MailboxNext => [Next]_vars
<1> SUFFICES ASSUME MailboxNext PROVE [Next]_vars
  OBVIOUS
<1>1. CASE Elsewhere
  BY <1>1 DEF Elsewhere, Next
<1>2. ASSUME NEW id \in ActivationIds,
             \/ Launch(id) \/ Transition(id) \/ Stops(id)
             \/ EnqueueFenceInLane(id) \/ FenceAnswered(id) \/ FenceGivenUp(id)
      PROVE  [Next]_vars
  BY <1>2 DEF Launch, Transition, Stops, EnqueueFenceInLane, FenceAnswered, FenceGivenUp, Next
<1>3. ASSUME NEW id \in ActivationIds, NEW d \in Dispatches,
             \/ Enqueue(id, d) \/ EnqueueResolves(id, d) \/ GivesBack(id, d)
             \/ TransitionStops(id, d)
      PROVE  [Next]_vars
  BY <1>3 DEF Enqueue, EnqueueResolves, GivesBack, TransitionStops, Next
<1>4. ASSUME NEW id \in ActivationIds, NEW mode \in {"Graceful", "Forced"}, Terminates(id, mode)
      PROVE  [Next]_vars
  BY <1>4 DEF Terminates, Next
<1> QED BY <1>1, <1>2, <1>3, <1>4 DEF MailboxNext

(* The composition implements the slot's protocol, so every theorem of     *)
(* EntitySlotProofs holds with real lanes and event loops, whatever those  *)
(* do: incarnations that stop unannounced break none of them.              *)
THEOREM MailboxImplementsSlot == MailboxSpec => Spec
<1>1. MailboxInit => Init
  BY DEF MailboxInit
<1>2. [MailboxNext]_allVars => [Next]_vars
  BY MailboxStep DEF allVars
<1> QED BY <1>1, <1>2, PTL DEF MailboxSpec, Spec

-----------------------------------------------------------------------------
LEMMA InitMInv == MailboxInit => MInv
<1> SUFFICES ASSUME MailboxInit PROVE MInv
  OBVIOUS
<1>1. MailboxTypeOK
  <2>1. << >> \in Seq(EventType)
    OBVIOUS
  <2> QED BY <2>1 DEF MailboxInit, MailboxTypeOK
<1>2. LaneOrder /\ LaneContents
  BY DEF MailboxInit, LaneOrder, LaneContents, Waits
<1>3. LaneCustody
  BY DEF MailboxInit, Init, LaneCustody
<1> QED BY <1>1, <1>2, <1>3 DEF MInv

LEMMA GrantedKnown ==
  ASSUME TypeOK
  PROVE  granted \subseteq Known /\ Known \subseteq ActivationIds
<1>1. lastId \in 0 .. MaxActivation
  BY DEF TypeOK
<1> QED BY <1>1, MaxActivationAssumption DEF TypeOK, Known, ActivationIds

LEMMA KnownGrows == TypeOK /\ [Next]_vars => Known \subseteq Known'
<1> SUFFICES ASSUME TypeOK, [Next]_vars PROVE Known \subseteq Known'
  OBVIOUS
<1>1. lastId \in Nat
  BY MaxActivationAssumption DEF TypeOK
<1>2. lastId' = lastId \/ lastId' = lastId + 1
  BY DEF Next, vars, Claim, Dispatch, DispatchRemoved, Cancel, Delivered, DeliveryFailed,
         ActivationSucceeded, ActivationFailed, Passivate, ForceRetirement,
         FenceAcknowledged, FenceFailed, Terminated
<1> QED BY <1>1, <1>2 DEF Known

(* The steps of the slot that leave every lane alone.                      *)
LEMMA SlotMoves ==
  ASSUME IInv, MInv, [Next]_vars, UNCHANGED <<lane, entered, fenced, handled, replies>>,
         running \subseteq running',
         \A id \in running' \ running : id \in Known /\ entered[id] = {},
         \A id \in ActivationIds : \A d \in entered[id] :
           Deliver(id, d) \in tasks => Deliver(id, d) \in tasks' \/ d \in accepted',
         accepted \subseteq accepted', granted \subseteq granted',
         acked' \subseteq acked \cup replies
  PROVE  MInv'
<1>1. /\ Known \subseteq Known' /\ ClosedStep /\ AdmissionStep
      /\ Known \subseteq ActivationIds
  BY KnownGrows, AdmissionCloses, AdmissionKept, GrantedKnown DEF IInv
<1>2. MailboxTypeOK'
  <2>1. running' \subseteq Known'
    BY <1>1 DEF MInv, MailboxTypeOK
  <2>2. EventType' = EventType
    BY DEF EventType
  <2> QED BY <1>1, <2>1, <2>2 DEF MInv, MailboxTypeOK
<1>3. LaneOrder'
  <2> SUFFICES ASSUME NEW id \in ActivationIds
               PROVE  /\ id \notin running' => lane'[id] = << >>
                      /\ id \in fenced' => id \in Known' /\ DeliverTasks(id)' = {} /\ ~Admitting(id)'
                      /\ \A i \in 1 .. Len(lane'[id]) :
                           lane'[id][i] = DrainFence => i = Len(lane'[id]) /\ id \in fenced'
    BY DEF LaneOrder
  <2>1. id \notin running' => lane'[id] = << >>
    BY DEF MInv, LaneOrder
  <2>2. id \in fenced' => id \in Known' /\ DeliverTasks(id)' = {} /\ ~Admitting(id)'
    BY <1>1 DEF MInv, LaneOrder, ClosedStep, AdmissionStep
  <2>3. \A i \in 1 .. Len(lane'[id]) :
          lane'[id][i] = DrainFence => i = Len(lane'[id]) /\ id \in fenced'
    BY DEF MInv, LaneOrder
  <2> QED BY <2>1, <2>2, <2>3
<1>4. LaneContents'
  <2>1. \A e, id : Waits(e, id)' <=> Waits(e, id)
    BY DEF Waits
  <2> QED BY <2>1 DEF MInv, LaneContents, MailboxTypeOK
<1>5. LaneCustody'
  BY DEF MInv, LaneCustody
<1> QED BY <1>2, <1>3, <1>4, <1>5 DEF MInv

LEMMA ElsewhereMInv ==
  ASSUME IInv, MInv, Elsewhere
  PROVE  MInv'
<1>1. [Next]_vars
  BY MailboxStep DEF MailboxNext
<1>2. tasks \subseteq tasks'
  <2>1. ASSUME NEW d \in Dispatches, Claim(d) \/ Dispatch(d) \/ DispatchRemoved(d)
        PROVE  tasks \subseteq tasks'
    BY <2>1 DEF Claim, Dispatch, DispatchRemoved, Submit
  <2>2. ASSUME NEW id \in ActivationIds,
               \/ \E d \in Dispatches : Cancel(id, d)
               \/ ActivationFailed(id) \/ Passivate(id) \/ ForceRetirement(id)
        PROVE  tasks \subseteq tasks'
    BY <2>2 DEF Cancel, ActivationFailed, Passivate, ForceRetirement, Submit
  <2> QED BY <2>1, <2>2 DEF Elsewhere
<1>3. /\ UNCHANGED mailbox
      /\ accepted' = accepted /\ granted' = granted /\ acked' = acked
  BY DEF Elsewhere, Claim, Dispatch, DispatchRemoved, Cancel, ActivationFailed, Passivate,
         ForceRetirement, history
<1> QED BY <1>1, <1>2, <1>3, SlotMoves DEF mailbox

LEMMA LaunchMInv ==
  ASSUME IInv, MInv, NEW id \in ActivationIds, Launch(id)
  PROVE  MInv'
<1>1. [Next]_vars
  BY DEF Launch, Next
<1>2. StartActivation(id) \in tasks /\ id \in Known
  BY TaskIds DEF Launch, ActivationSucceeded, IInv
<1>3. id \notin granted
  BY <1>2 DEF IInv, ActivationHistory
<1>4. entered[id] = {}
  BY <1>3 DEF MInv, LaneContents
<1>5. \A i, d : Deliver(i, d) \in tasks => Deliver(i, d) \in tasks'
  <2>1. \A i, d : Deliver(i, d) \notin {StartActivation(id)}
    BY TaskFields
  <2> QED BY <2>1, SubmitKeepsDeliveries DEF Launch, ActivationSucceeded
<1>6. /\ running' = running \cup {id}
      /\ UNCHANGED <<lane, entered, fenced, handled, replies>>
      /\ accepted' = accepted /\ granted' = granted \cup {id} /\ acked' = acked
  BY DEF Launch, ActivationSucceeded
<1> QED BY <1>1, <1>2, <1>4, <1>5, <1>6, SlotMoves

LEMMA ResolvesMInv ==
  ASSUME IInv, MInv, NEW id \in ActivationIds, NEW d \in Dispatches,
         EnqueueResolves(id, d) \/ GivesBack(id, d)
  PROVE  MInv'
<1>1. [Next]_vars
  BY DEF EnqueueResolves, GivesBack, Next
<1>2. ASSUME NEW i, NEW c, Deliver(i, c) \in tasks, ~ (i = id /\ c = d)
      PROVE  Deliver(i, c) \in tasks'
  <2>1. Deliver(i, c) \notin {Deliver(id, d)}
    BY <1>2, TaskFields
  <2> QED
    BY <1>2, <2>1, SubmitKeepsDeliveries DEF EnqueueResolves, GivesBack, Delivered, DeliveryFailed
<1>3. d \in entered[id] => d \in accepted'
  BY DEF EnqueueResolves, GivesBack, Delivered
<1>4. /\ UNCHANGED mailbox
      /\ accepted \subseteq accepted' /\ granted' = granted /\ acked' = acked
  BY DEF EnqueueResolves, GivesBack, Delivered, DeliveryFailed, history
<1> QED BY <1>1, <1>2, <1>3, <1>4, SlotMoves DEF mailbox

LEMMA ReportsMInv ==
  ASSUME IInv, MInv, NEW id \in ActivationIds,
         \/ FenceAnswered(id) \/ FenceGivenUp(id)
         \/ \E mode \in {"Graceful", "Forced"} : Terminates(id, mode)
  PROVE  MInv'
<1>1. [Next]_vars
  BY DEF FenceAnswered, FenceGivenUp, Terminates, Next
<1>2. \A i, d : /\ Deliver(i, d) # EnqueueFence(id)
                /\ \A mode : Deliver(i, d) # Retire(id, mode)
  BY TaskFields
<1>3. \A i, d : Deliver(i, d) \in tasks => Deliver(i, d) \in tasks'
  BY <1>2, SubmitKeepsDeliveries
     DEF FenceAnswered, FenceGivenUp, Terminates, FenceAcknowledged, FenceFailed, Terminated
<1>4. /\ UNCHANGED mailbox
      /\ accepted' = accepted /\ granted' = granted /\ acked' \subseteq acked \cup replies
  BY DEF FenceAnswered, FenceGivenUp, Terminates, FenceAcknowledged, FenceFailed, Terminated,
         history
<1> QED BY <1>1, <1>3, <1>4, SlotMoves DEF mailbox
-----------------------------------------------------------------------------
(* The steps of the lanes, which leave the slot alone.                     *)

LEMMA SlotStill ==
  ASSUME UNCHANGED vars
  PROVE  /\ Known' = Known /\ EventType' = EventType
         /\ \A id : DeliverTasks(id)' = DeliverTasks(id) /\ Admitting(id)' = Admitting(id)
         /\ tasks' = tasks /\ accepted' = accepted /\ granted' = granted /\ acked' = acked
BY DEF vars, commands, history, Known, EventType, DeliverTasks, Admitting

LEMMA Events ==
  /\ \A d : Inner(d) # DrainFence
  /\ \A c, d : Inner(c) = Inner(d) => c = d
  /\ DrainFence \in EventType
  /\ \A d \in Dispatches : Inner(d) \in EventType
BY DEF Inner, DrainFence, EventType

LEMMA LaneTyped ==
  ASSUME MInv, NEW id \in ActivationIds
  PROVE  lane[id] \in Seq(EventType) /\ Len(lane[id]) \in Nat
BY DEF MInv, MailboxTypeOK

(* What pushing an event to a lane without a fence leaves of the lanes.    *)
LEMMA PushedLane ==
  ASSUME MInv, NEW id \in ActivationIds, NEW e \in EventType, Push(id, e)
  PROVE  /\ lane' \in [ActivationIds -> Seq(EventType)]
         /\ \A j \in ActivationIds \ {id} : lane'[j] = lane[j]
         /\ \A x : \A j \in ActivationIds \ {id} : Waits(x, j)' <=> Waits(x, j)
         /\ \A x : Waits(x, id)' <=> Waits(x, id) \/ x = e
         /\ \A i \in 1 .. Len(lane'[id]) :
              \/ i = Len(lane'[id]) /\ lane'[id][i] = e
              \/ i \in 1 .. Len(lane[id]) /\ lane'[id][i] = lane[id][i]
<1>1. lane[id] \in Seq(EventType) /\ Len(lane[id]) \in Nat
  BY LaneTyped
<1>2. lane \in [ActivationIds -> Seq(EventType)]
  BY DEF MInv, MailboxTypeOK
<1>3. lane'[id] = Append(lane[id], e)
  BY <1>2 DEF Push
<1>4. /\ Append(lane[id], e) \in Seq(EventType)
      /\ Len(lane'[id]) = Len(lane[id]) + 1
      /\ lane'[id][Len(lane[id]) + 1] = e
      /\ \A i \in 1 .. Len(lane[id]) : lane'[id][i] = lane[id][i]
  BY <1>1, <1>3
<1>5. \A j \in ActivationIds \ {id} : lane'[j] = lane[j]
  BY <1>2 DEF Push
<1>6. lane' \in [ActivationIds -> Seq(EventType)]
  BY <1>2, <1>4 DEF Push
<1>7. \A x : Waits(x, id)' <=> Waits(x, id) \/ x = e
  BY <1>1, <1>4 DEF Waits
<1>8. \A i \in 1 .. Len(lane'[id]) :
        \/ i = Len(lane'[id]) /\ lane'[id][i] = e
        \/ i \in 1 .. Len(lane[id]) /\ lane'[id][i] = lane[id][i]
  BY <1>1, <1>4
<1>9. \A x : \A j \in ActivationIds \ {id} : Waits(x, j)' <=> Waits(x, j)
  BY <1>5 DEF Waits
<1> QED BY <1>5, <1>6, <1>7, <1>8, <1>9

LEMMA EnqueueMInv ==
  ASSUME IInv, MInv, NEW id \in ActivationIds, NEW d \in Dispatches, Enqueue(id, d)
  PROVE  MInv'
<1>0. /\ Push(id, Inner(d)) /\ Inner(d) \in EventType /\ UNCHANGED vars
      /\ Deliver(id, d) \in tasks /\ d \notin entered[id] /\ id \in running
      /\ entered' = [entered EXCEPT ![id] = @ \cup {d}]
      /\ running' = running /\ fenced' = fenced /\ handled' = handled /\ replies' = replies
  BY Events DEF Enqueue
<1>1. id \in Known /\ DeliverTasks(id) # {}
  BY <1>0, TaskIds, TaskFields DEF IInv, DeliverTasks
<1>2. id \in granted
  BY <1>1 DEF IInv, ActivationHistory
<1>3. id \notin fenced /\ id \notin replies
  BY <1>1 DEF MInv, LaneOrder, LaneContents
<1>4. \A i \in 1 .. Len(lane[id]) : lane[id][i] # DrainFence
  BY <1>3 DEF MInv, LaneOrder
<1>5. \A j \in ActivationIds : d \notin entered[j]
  <2> SUFFICES ASSUME NEW j \in ActivationIds, d \in entered[j] PROVE FALSE
    OBVIOUS
  <2>1. CASE Deliver(j, d) \in tasks
    <3>1. Deliver(j, d) = Deliver(id, d)
      BY <1>0, <2>1, TaskFields DEF IInv, CommandCustody
    <3> QED BY <1>0, <3>1, TaskFields
  <2>2. CASE d \in accepted
    <3>1. d \in InFlight
      BY <1>0, TaskFields DEF InFlight
    <3> QED BY <2>2, <3>1, CustodyFlat DEF IInv, CustodyByPlace
  <2> QED BY <2>1, <2>2 DEF MInv, LaneCustody
<1>6. /\ entered' \in [ActivationIds -> SUBSET Dispatches]
      /\ entered'[id] = entered[id] \cup {d}
      /\ \A j \in ActivationIds \ {id} : entered'[j] = entered[j]
  BY <1>0 DEF MInv, MailboxTypeOK
<1>7. MailboxTypeOK'
  BY <1>0, <1>6, PushedLane, SlotStill DEF MInv, MailboxTypeOK
<1>8. LaneOrder'
  <2> SUFFICES ASSUME NEW j \in ActivationIds
               PROVE  /\ j \notin running' => lane'[j] = << >>
                      /\ j \in fenced' => j \in Known' /\ DeliverTasks(j)' = {} /\ ~Admitting(j)'
                      /\ \A i \in 1 .. Len(lane'[j]) :
                           lane'[j][i] = DrainFence => i = Len(lane'[j]) /\ j \in fenced'
    BY DEF LaneOrder
  <2>1. j \in fenced' => j \in Known' /\ DeliverTasks(j)' = {} /\ ~Admitting(j)'
    BY <1>0, SlotStill DEF MInv, LaneOrder
  <2>2. CASE j # id
    BY <1>0, <2>1, <2>2, PushedLane DEF MInv, LaneOrder
  <2>3. CASE j = id
    <3>1. ASSUME NEW i \in 1 .. Len(lane'[id]) PROVE lane'[id][i] # DrainFence
      <4>1. \/ lane'[id][i] = Inner(d)
            \/ i \in 1 .. Len(lane[id]) /\ lane'[id][i] = lane[id][i]
        BY <1>0, PushedLane
      <4> QED BY <1>4, <4>1, Events
    <3> QED BY <1>0, <2>1, <2>3, <3>1
  <2> QED BY <2>2, <2>3
<1>9. LaneContents'
  <2> SUFFICES ASSUME NEW j \in ActivationIds
               PROVE  /\ j \in running' =>
                           \A c \in entered'[j] : c \in handled' \/ Waits(Inner(c), j)'
                      /\ \A c \in Dispatches : Waits(Inner(c), j)' => c \in entered'[j]
                      /\ j \in replies' => j \in fenced' /\ entered'[j] \subseteq handled'
                      /\ entered'[j] # {} => j \in granted'
    BY DEF LaneContents
  <2>1. CASE j # id
    BY <1>0, <1>6, <2>1, PushedLane, SlotStill DEF MInv, LaneContents
  <2>2. CASE j = id
    <3>1. \A c : Waits(Inner(c), id)' <=> Waits(Inner(c), id) \/ c = d
      BY <1>0, PushedLane, Events
    <3> QED BY <1>0, <1>2, <1>3, <1>6, <2>2, <3>1, SlotStill DEF MInv, LaneContents
  <2> QED BY <2>1, <2>2
<1>10. LaneCustody'
  <2>1. \A j \in ActivationIds : entered[j] \subseteq entered'[j]
    BY <1>6
  <2>2. handled' \subseteq UNION {entered'[j] : j \in ActivationIds}
    BY <1>0, <2>1 DEF MInv, LaneCustody
  <2>3. \A j \in ActivationIds : \A c \in entered'[j] :
          Deliver(j, c) \in tasks' \/ c \in accepted'
    BY <1>0, <1>6, SlotStill DEF MInv, LaneCustody
  <2>4. \A i, j \in ActivationIds : i # j => entered'[i] \cap entered'[j] = {}
    <3> SUFFICES ASSUME NEW i \in ActivationIds, NEW j \in ActivationIds, i # j,
                        NEW c \in entered'[i], c \in entered'[j]
                 PROVE  FALSE
      OBVIOUS
    <3>1. c # d => c \in entered[i] /\ c \in entered[j]
      BY <1>6
    <3>2. c = d => i = id /\ j = id
      BY <1>5, <1>6
    <3> QED BY <3>1, <3>2 DEF MInv, LaneCustody
  <2> QED BY <1>0, <2>2, <2>3, <2>4, SlotStill DEF MInv, LaneCustody
<1> QED BY <1>7, <1>8, <1>9, <1>10 DEF MInv

LEMMA EnqueueFenceMInv ==
  ASSUME IInv, MInv, NEW id \in ActivationIds, EnqueueFenceInLane(id)
  PROVE  MInv'
<1>0. /\ Push(id, DrainFence) /\ DrainFence \in EventType /\ UNCHANGED vars
      /\ EnqueueFence(id) \in tasks /\ id \notin fenced /\ id \in running
      /\ fenced' = fenced \cup {id}
      /\ running' = running /\ entered' = entered /\ handled' = handled /\ replies' = replies
  BY Events DEF EnqueueFenceInLane
<1>1. id \in Known /\ Fenced(id)
  BY <1>0, TaskIds DEF IInv, Fenced
<1>2. DeliverTasks(id) = {} /\ ~Admitting(id)
  BY <1>1 DEF IInv, FenceIsLast, ActivationHistory, Admitting
<1>3. \A i \in 1 .. Len(lane[id]) : lane[id][i] # DrainFence
  BY <1>0 DEF MInv, LaneOrder
<1>4. MailboxTypeOK'
  BY <1>0, <1>1, PushedLane, SlotStill DEF MInv, MailboxTypeOK
<1>5. LaneOrder'
  <2> SUFFICES ASSUME NEW j \in ActivationIds
               PROVE  /\ j \notin running' => lane'[j] = << >>
                      /\ j \in fenced' => j \in Known' /\ DeliverTasks(j)' = {} /\ ~Admitting(j)'
                      /\ \A i \in 1 .. Len(lane'[j]) :
                           lane'[j][i] = DrainFence => i = Len(lane'[j]) /\ j \in fenced'
    BY DEF LaneOrder
  <2>1. j \in fenced' => j \in Known' /\ DeliverTasks(j)' = {} /\ ~Admitting(j)'
    BY <1>0, <1>1, <1>2, SlotStill DEF MInv, LaneOrder
  <2>2. CASE j # id
    BY <1>0, <2>1, <2>2, PushedLane DEF MInv, LaneOrder
  <2>3. CASE j = id
    <3>1. \A i \in 1 .. Len(lane'[id]) : lane'[id][i] = DrainFence => i = Len(lane'[id])
      BY <1>0, <1>3, PushedLane
    <3> QED BY <1>0, <2>1, <2>3, <3>1
  <2> QED BY <2>2, <2>3
<1>6. LaneContents'
  <2>1. \A c : \A j \in ActivationIds : Waits(Inner(c), j)' <=> Waits(Inner(c), j)
    BY <1>0, PushedLane, Events
  <2> QED BY <1>0, <2>1, SlotStill DEF MInv, LaneContents
<1>7. LaneCustody'
  BY <1>0, SlotStill DEF MInv, LaneCustody
<1> QED BY <1>4, <1>5, <1>6, <1>7 DEF MInv

LEMMA TransitionMInv ==
  ASSUME IInv, MInv, NEW id \in ActivationIds, Transition(id)
  PROVE  MInv'
<1> DEFINE q == lane[id]
<1>0. /\ UNCHANGED vars /\ id \in running
      /\ lane' = [lane EXCEPT ![id] = Tail(@)]
      /\ handled' = handled \cup {d \in Dispatches : Head(q) = Inner(d)}
      /\ replies' = IF Head(q) = DrainFence THEN replies \cup {id} ELSE replies
      /\ running' = running /\ entered' = entered /\ fenced' = fenced
  BY DEF Transition
<1>1. /\ q \in Seq(EventType) /\ Len(q) \in Nat /\ 1 \in 1 .. Len(q)
  BY LaneTyped DEF Transition
<1>2. lane \in [ActivationIds -> Seq(EventType)]
  BY DEF MInv, MailboxTypeOK
<1>3. /\ lane'[id] = Tail(q) /\ Head(q) = q[1] /\ Tail(q) \in Seq(EventType)
      /\ Len(Tail(q)) = Len(q) - 1
      /\ \A i \in 1 .. Len(q) - 1 : Tail(q)[i] = q[i + 1]
  BY <1>0, <1>1, <1>2
<1>4. /\ \A j \in ActivationIds \ {id} : lane'[j] = lane[j]
      /\ lane' \in [ActivationIds -> Seq(EventType)]
  BY <1>0, <1>2, <1>3
<1>5. \A x : \A j \in ActivationIds \ {id} : Waits(x, j)' <=> Waits(x, j)
  BY <1>4 DEF Waits
<1>6. \A x : Waits(x, id) <=> x = Head(q) \/ Waits(x, id)'
  <2>1. ASSUME NEW i \in 1 .. Len(q), i # 1 PROVE i - 1 \in 1 .. Len(lane'[id]) /\ lane'[id][i - 1] = q[i]
    BY <1>1, <1>3, <2>1
  <2>2. ASSUME NEW i \in 1 .. Len(lane'[id]) PROVE i + 1 \in 1 .. Len(q) /\ q[i + 1] = lane'[id][i]
    BY <1>1, <1>3
  <2>3. ASSUME NEW x, Waits(x, id) PROVE x = Head(q) \/ Waits(x, id)'
    BY <1>3, <2>1, <2>3 DEF Waits
  <2>4. ASSUME NEW x, Waits(x, id)' PROVE Waits(x, id)
    BY <2>2, <2>4 DEF Waits
  <2>5. Waits(Head(q), id)
    BY <1>1, <1>3 DEF Waits
  <2> QED BY <2>3, <2>4, <2>5
<1>7. Head(q) = DrainFence => id \in fenced /\ entered[id] \subseteq handled
  <2> SUFFICES ASSUME Head(q) = DrainFence PROVE id \in fenced /\ entered[id] \subseteq handled
    OBVIOUS
  <2>1. Len(q) = 1 /\ id \in fenced
    BY <1>1, <1>3 DEF MInv, LaneOrder
  <2>2. \A d : ~Waits(Inner(d), id)
    BY <1>3, <2>1, Events DEF Waits
  <2> QED BY <1>0, <2>1, <2>2 DEF MInv, LaneContents
<1>8. MailboxTypeOK'
  <2>1. replies' \subseteq Known'
    BY <1>0, <1>7, SlotStill DEF MInv, MailboxTypeOK
  <2> QED BY <1>0, <1>4, <2>1, SlotStill DEF MInv, MailboxTypeOK
<1>9. LaneOrder'
  <2> SUFFICES ASSUME NEW j \in ActivationIds
               PROVE  /\ j \notin running' => lane'[j] = << >>
                      /\ j \in fenced' => j \in Known' /\ DeliverTasks(j)' = {} /\ ~Admitting(j)'
                      /\ \A i \in 1 .. Len(lane'[j]) :
                           lane'[j][i] = DrainFence => i = Len(lane'[j]) /\ j \in fenced'
    BY DEF LaneOrder
  <2>1. j \in fenced' => j \in Known' /\ DeliverTasks(j)' = {} /\ ~Admitting(j)'
    BY <1>0, SlotStill DEF MInv, LaneOrder
  <2>2. CASE j # id
    BY <1>0, <1>4, <2>1, <2>2 DEF MInv, LaneOrder
  <2>3. CASE j = id
    <3>1. ASSUME NEW i \in 1 .. Len(lane'[id]), lane'[id][i] = DrainFence
          PROVE  i = Len(lane'[id]) /\ id \in fenced'
      <4>1. i + 1 \in 1 .. Len(q) /\ q[i + 1] = DrainFence
        BY <1>1, <1>3, <3>1
      <4>2. i + 1 = Len(q) /\ id \in fenced
        BY <4>1 DEF MInv, LaneOrder
      <4>3. Len(lane'[id]) = Len(q) - 1 /\ i \in Int
        BY <1>3
      <4>4. i = Len(lane'[id])
        BY <1>1, <4>2, <4>3
      <4> QED BY <1>0, <4>2, <4>4
    <3> QED BY <1>0, <2>1, <2>3, <3>1
  <2> QED BY <2>2, <2>3
<1>10. LaneContents'
  <2> SUFFICES ASSUME NEW j \in ActivationIds
               PROVE  /\ j \in running' =>
                           \A c \in entered'[j] : c \in handled' \/ Waits(Inner(c), j)'
                      /\ \A c \in Dispatches : Waits(Inner(c), j)' => c \in entered'[j]
                      /\ j \in replies' => j \in fenced' /\ entered'[j] \subseteq handled'
                      /\ entered'[j] # {} => j \in granted'
    BY DEF LaneContents
  <2>1. \A j1 \in ActivationIds : entered[j1] \subseteq Dispatches
    BY DEF MInv, MailboxTypeOK
  <2>2. handled \subseteq handled'
    BY <1>0
  <2>3. CASE j # id
    <3>1. j \in replies' => j \in replies
      BY <1>0, <2>3
    <3> QED BY <1>0, <1>5, <2>2, <2>3, <3>1, SlotStill DEF MInv, LaneContents
  <2>4. CASE j = id
    <3>1. \A c \in Dispatches : Waits(Inner(c), id) => c \in handled' \/ Waits(Inner(c), id)'
      BY <1>0, <1>6
    <3>2. id \in replies' => id \in fenced' /\ entered'[id] \subseteq handled'
      BY <1>0, <1>7, <2>2 DEF MInv, LaneContents
    <3> QED BY <1>0, <1>6, <2>1, <2>2, <2>4, <3>1, <3>2, SlotStill DEF MInv, LaneContents
  <2> QED BY <2>3, <2>4
<1>11. LaneCustody'
  <2>1. ASSUME NEW d \in Dispatches, Head(q) = Inner(d) PROVE d \in entered[id]
    BY <1>6, <2>1 DEF MInv, LaneContents
  <2>2. handled' \subseteq UNION {entered[j] : j \in ActivationIds}
    BY <1>0, <2>1 DEF MInv, LaneCustody
  <2>3. replies \subseteq replies'
    BY <1>0
  <2> QED BY <1>0, <2>2, <2>3, SlotStill DEF MInv, LaneCustody
<1> QED BY <1>8, <1>9, <1>10, <1>11 DEF MInv

LEMMA EndMInv ==
  ASSUME IInv, MInv, NEW id \in ActivationIds, Stops(id) \/ \E d \in Dispatches : TransitionStops(id, d)
  PROVE  MInv'
<1>0. /\ UNCHANGED vars
      /\ running' = running \ {id} /\ lane' = [lane EXCEPT ![id] = << >>]
      /\ entered' = entered /\ fenced' = fenced /\ replies' = replies
      /\ handled \subseteq handled'
  BY DEF Stops, TransitionStops, End
<1>1. handled' \subseteq handled \cup entered[id]
  <2>1. CASE Stops(id)
    BY <2>1 DEF Stops
  <2>2. ASSUME NEW d \in Dispatches, TransitionStops(id, d) PROVE handled' \subseteq handled \cup entered[id]
    <3>1. lane[id] # << >> /\ Head(lane[id]) = Inner(d) /\ handled' = handled \cup {d}
      BY <2>2 DEF TransitionStops
    <3>2. lane[id] \in Seq(EventType) /\ Len(lane[id]) \in Nat
      BY LaneTyped
    <3>3. 1 \in 1 .. Len(lane[id]) /\ lane[id][1] = Inner(d)
      BY <3>1, <3>2
    <3>4. d \in entered[id]
      BY <3>3 DEF MInv, LaneContents, Waits
    <3> QED BY <3>1, <3>4
  <2> QED BY <2>1, <2>2
<1>2. << >> \in Seq(EventType) /\ Len(<< >>) = 0
  OBVIOUS
<1>3. /\ lane'[id] = << >>
      /\ \A j \in ActivationIds \ {id} : lane'[j] = lane[j]
      /\ lane' \in [ActivationIds -> Seq(EventType)]
  BY <1>0, <1>2 DEF MInv, MailboxTypeOK
<1>4. /\ \A x : ~Waits(x, id)'
      /\ \A x : \A j \in ActivationIds \ {id} : Waits(x, j)' <=> Waits(x, j)
  BY <1>2, <1>3 DEF Waits
<1>5. MailboxTypeOK'
  <2>1. handled' \subseteq Dispatches
    BY <1>1 DEF MInv, MailboxTypeOK
  <2> QED BY <1>0, <1>3, <2>1, SlotStill DEF MInv, MailboxTypeOK
<1>6. LaneOrder'
  <2>1. \A j \in ActivationIds :
          j \in fenced' => j \in Known' /\ DeliverTasks(j)' = {} /\ ~Admitting(j)'
    BY <1>0, SlotStill DEF MInv, LaneOrder
  <2>2. \A j \in ActivationIds : j \notin running' => lane'[j] = << >>
    BY <1>0, <1>3 DEF MInv, LaneOrder
  <2>3. \A j \in ActivationIds : \A i \in 1 .. Len(lane'[j]) :
          lane'[j][i] = DrainFence => i = Len(lane'[j]) /\ j \in fenced'
    <3> SUFFICES ASSUME NEW j \in ActivationIds, NEW i \in 1 .. Len(lane'[j]),
                        lane'[j][i] = DrainFence
                 PROVE  i = Len(lane'[j]) /\ j \in fenced'
      OBVIOUS
    <3>1. j # id
      BY <1>2, <1>3
    <3> QED BY <1>0, <1>3, <3>1 DEF MInv, LaneOrder
  <2> QED BY <2>1, <2>2, <2>3 DEF LaneOrder
<1>7. LaneContents'
  <2> SUFFICES ASSUME NEW j \in ActivationIds
               PROVE  /\ j \in running' =>
                           \A c \in entered'[j] : c \in handled' \/ Waits(Inner(c), j)'
                      /\ \A c \in Dispatches : Waits(Inner(c), j)' => c \in entered'[j]
                      /\ j \in replies' => j \in fenced' /\ entered'[j] \subseteq handled'
                      /\ entered'[j] # {} => j \in granted'
    BY DEF LaneContents
  <2>1. CASE j # id
    BY <1>0, <1>4, <2>1, SlotStill DEF MInv, LaneContents
  <2>2. CASE j = id
    BY <1>0, <1>4, <2>2, SlotStill DEF MInv, LaneContents
  <2> QED BY <2>1, <2>2
<1>8. LaneCustody'
  <2>1. handled' \subseteq UNION {entered[j] : j \in ActivationIds}
    BY <1>1 DEF MInv, LaneCustody
  <2> QED BY <1>0, <2>1, SlotStill DEF MInv, LaneCustody
<1> QED BY <1>5, <1>6, <1>7, <1>8 DEF MInv

LEMMA NextMInv == IInv /\ MInv /\ [MailboxNext]_allVars => MInv'
<1> SUFFICES ASSUME IInv, MInv, [MailboxNext]_allVars PROVE MInv'
  OBVIOUS
<1>1. CASE Elsewhere
  BY <1>1, ElsewhereMInv
<1>2. ASSUME NEW id \in ActivationIds, Launch(id) \/ Transition(id) \/ Stops(id)
      PROVE  MInv'
  BY <1>2, LaunchMInv, TransitionMInv, EndMInv
<1>3. ASSUME NEW id \in ActivationIds,
             \/ EnqueueFenceInLane(id) \/ FenceAnswered(id) \/ FenceGivenUp(id)
             \/ \E mode \in {"Graceful", "Forced"} : Terminates(id, mode)
      PROVE  MInv'
  BY <1>3, EnqueueFenceMInv, ReportsMInv
<1>4. ASSUME NEW id \in ActivationIds, NEW d \in Dispatches,
             \/ Enqueue(id, d) \/ EnqueueResolves(id, d) \/ GivesBack(id, d)
             \/ TransitionStops(id, d)
      PROVE  MInv'
  BY <1>4, EnqueueMInv, ResolvesMInv, EndMInv
<1>5. CASE UNCHANGED allVars
  <2>1. UNCHANGED vars /\ UNCHANGED mailbox
    BY <1>5 DEF allVars
  <2>2. \A x, id : Waits(x, id)' <=> Waits(x, id)
    BY <2>1 DEF Waits, mailbox
  <2>3. MailboxTypeOK' /\ LaneOrder'
    BY <2>1, SlotStill DEF mailbox, MInv, MailboxTypeOK, LaneOrder
  <2>4. LaneContents' /\ LaneCustody'
    BY <2>1, <2>2, SlotStill DEF mailbox, MInv, LaneContents, LaneCustody
  <2> QED BY <2>3, <2>4 DEF MInv
<1> QED BY <1>1, <1>2, <1>3, <1>4, <1>5 DEF MailboxNext

THEOREM MailboxInvariance == MailboxSpec => [](IInv /\ MInv)
<1>1. MailboxSpec => []IInv
  BY MailboxImplementsSlot, Invariance, PTL
<1> QED BY <1>1, InitMInv, NextMInv, PTL DEF MailboxSpec

(* Every variable of the lanes keeps its type.                             *)
THEOREM MailboxTypeCorrect == MailboxSpec => []MailboxTypeOK
<1>1. MInv => MailboxTypeOK
  BY DEF MInv
<1> QED BY <1>1, MailboxInvariance, PTL

(* The fence certifies: whatever stops incarnations and in whatever order  *)
(* deliveries, drains and fences are carried out, an answered fence and a  *)
(* graceful retirement have every command of the lane handled before them. *)
THEOREM FenceCertifiesHolds == MailboxSpec => []FenceCertifies
<1>1. IInv /\ MInv => FenceCertifies
  <2> SUFFICES ASSUME IInv, MInv, NEW id \in Known
               PROVE  /\ id \in replies => entered[id] \subseteq handled
                      /\ Retire(id, "Graceful") \in tasks => entered[id] \subseteq handled
    BY DEF FenceCertifies
  <2>1. id \in ActivationIds
    BY GrantedKnown DEF IInv
  <2>2. id \in replies => entered[id] \subseteq handled
    BY <2>1 DEF MInv, LaneContents
  <2>3. Retire(id, "Graceful") \in tasks => id \in replies
    BY DEF IInv, FenceIsLast, MInv, LaneCustody
  <2> QED BY <2>2, <2>3
<1> QED BY <1>1, MailboxInvariance, PTL

(* What is given back or cancelled never ran and never will, and nothing   *)
(* runs twice: a lane holds a command only under a delivery the slot still *)
(* counts, or after its acceptance.                                        *)
THEOREM RefusedNeverRunHolds == MailboxSpec => []RefusedNeverRun
<1>1. IInv /\ MInv => RefusedNeverRun
  <2> SUFFICES ASSUME IInv, MInv PROVE RefusedNeverRun
    OBVIOUS
  <2>0. Known \subseteq ActivationIds /\ granted \subseteq Known
    BY GrantedKnown DEF IInv
  <2>1. \A id \in Known : entered[id] \cap (returned \cup cancelled) = {}
    <3> SUFFICES ASSUME NEW id \in Known, NEW d \in entered[id], d \in returned \cup cancelled
                 PROVE  FALSE
      OBVIOUS
    <3>1. d \in InFlight \/ d \in accepted
      <4>1. Deliver(id, d) \in tasks \/ d \in accepted
        BY <2>0 DEF MInv, LaneCustody
      <4> QED BY <4>1, TaskFields DEF InFlight
    <3> QED BY <3>1, CustodyFlat DEF IInv, CustodyByPlace
  <2>2. \A i, j \in Known : i # j => entered[i] \cap entered[j] = {}
    BY <2>0 DEF MInv, LaneCustody
  <2>3. handled \subseteq UNION {entered[id] : id \in Known}
    BY <2>0 DEF MInv, LaneCustody, LaneContents
  <2> QED BY <2>1, <2>2, <2>3 DEF RefusedNeverRun
<1> QED BY <1>1, MailboxInvariance, PTL
=============================================================================
