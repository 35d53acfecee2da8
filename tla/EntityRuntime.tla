--------------------------- MODULE EntityRuntime ---------------------------
(***************************************************************************)
(* The local entity runtime: LocalDirectory under the facade EntityRuntime *)
(* (crates/entity/src/directory.rs and runtime.rs).  Callers, passivators  *)
(* and the tasks the effects spawn all run the same kind of directory      *)
(* call: find the entity's slot under its shard lock, submit one fact to   *)
(* it under its executor's lock, then interpret the queued outputs unless  *)
(* another call already does.  Every lock section is one action, so any    *)
(* two calls interleave between them.                                      *)
(*                                                                         *)
(* A slot allocation is named by the activation it was created for: only   *)
(* dispatch to an absent entry claims, and it claims once, on a new slot.  *)
(* A spawned task is the effect that spawned it.                           *)
(*                                                                         *)
(* The integration behind the facade may panic when it is asked to spawn   *)
(* a task or to wake a caller.  The panic unwinds through the interpreting *)
(* call, which gives the slot's outputs up and drops the batch it held.    *)
(***************************************************************************)
EXTENDS Lifecycle, FiniteSets

CONSTANTS Entities,       \* EntityId
          Dispatches,     \* the dispatch calls that may be made, each once
          Passivations,   \* the passivate calls that may be made, each once
          MaxActivation,  \* the last activation identity there is
          MaxPanics       \* bound on the panics of the integration

ASSUME MaxActivationAssumption == MaxActivation \in Nat
ASSUME MaxPanicsAssumption == MaxPanics \in Nat
ASSUME EntitiesAssumption == Entities # {}

ActivationIds == 1 .. MaxActivation

Modes == {"Graceful", "Forced"}

VARIABLES lastId,       \* next_activation - 1
          map,          \* entity -> its slot, NoActivation when absent
          home,         \* slot -> the entity it was created for
          slots,        \* slot -> EntitySlot
          outputs,      \* slot -> its queued outputs, each a batch of effects
          dispatching,  \* slots whose outputs some call is interpreting
          abandoned,    \* slots an interpreter unwound from, none since
          tasks,        \* spawned tasks, running outside the directory
          calls,        \* directory calls in progress
          ticket,       \* dispatch -> the activation DispatchWait may cancel
          future,       \* dispatch -> where its future is, see FutureStates
          passivated,   \* passivate calls made
          answer,       \* dispatch -> its Completion, see Answers
          failed,       \* activations that reported failure (history)
          acked,        \* activations whose fence was acknowledged (history)
          panics,       \* panics so far
          lost          \* commands dropped with a panicking batch (history)

directory == <<lastId, map, home, slots, outputs, dispatching, abandoned>>
callers   == <<ticket, passivated>>
history   == <<failed, acked, panics, lost>>
vars      == <<directory, tasks, calls, callers, future, answer, history>>

(* A future is polled again once its waker was called; a parked one has    *)
(* left its waker in the Completion.  Unwound: dispatch itself panicked.   *)
FutureStates == {"none", "polled", "parked", "done", "dropped", "unwound"}

Answers == {"Awaiting", "Ok", "Refused", "Exhausted"}

-----------------------------------------------------------------------------
(* A call by an agent: looking its slot up, about to submit its fact,      *)
(* about to interpret, or interpreting the outputs of the slot.            *)
Call(by, at, s, e) == [by |-> by, at |-> at, slot |-> s, event |-> e]

NoEvent == [trigger |-> "None"]

Moved(c, at) == (calls \ {c}) \cup {Call(c.by, at, c.slot, NoEvent)}

Asynchronous == {"StartActivation", "Deliver", "EnqueueFence", "Retire"}

Started(effects) == {fx \in Range(effects) : fx.type \in Asynchronous}

Refused(effects) == {fx.d : fx \in {gx \in Range(effects) : gx.type = "Reject"}}

(* Completion::complete: the first result wins.                            *)
Complete(ds, result) ==
  answer' = [d \in Dispatches |->
               IF d \in ds /\ answer[d] = "Awaiting" THEN result ELSE answer[d]]

\* defect: the stored waker is not called
WakeNobody == UNCHANGED future

(* A completed caller that left its waker is polled again.                 *)
Wake ==
  future' = [d \in Dispatches |->
               IF future[d] = "parked" /\ answer'[d] # answer[d] THEN "polled" ELSE future[d]]

(* An output without effects has nothing to interpret.                     *)
Batches(effects) == IF effects = << >> THEN << >> ELSE << effects >>

(* The phase passivate reports from, once its fact has been reduced.       *)
Passivation(s, e) ==
  CASE Evidence(s, e) = "Traversed"             -> "Begun"
    [] Evidence(s, e) # "Traversed" /\ s.phase = "Active" -> "Superseded"
    [] Evidence(s, e) # "Traversed" /\ s.phase \in {"Draining", "Retiring"} ->
         "AlreadyPassivating"
    [] OTHER                                    -> "NotActive"

-----------------------------------------------------------------------------
Init ==
  /\ lastId = 0
  /\ map = [n \in Entities |-> NoActivation]
  /\ home = [i \in ActivationIds |-> CHOOSE n \in Entities : TRUE]
  /\ slots = [i \in ActivationIds |-> Inactive]
  /\ outputs = [i \in ActivationIds |-> << >>]
  /\ dispatching = {}
  /\ abandoned = {}
  /\ tasks = {}
  /\ calls = {}
  /\ ticket = [d \in Dispatches |-> NoActivation]
  /\ future = [d \in Dispatches |-> "none"]
  /\ passivated = {}
  /\ answer = [d \in Dispatches |-> "Awaiting"]
  /\ failed = {}
  /\ acked = {}
  /\ panics = 0
  /\ lost = {}

(* dispatch, entry present: clone the slot, release the shard, submit.     *)
DispatchMapped(d, n) ==
  /\ future[d] = "none"
  /\ map[n] # NoActivation
  /\ future' = [future EXCEPT ![d] = "polled"]
  /\ calls' = calls \cup {Call(d, "submit", map[n], [trigger |-> "Dispatch", d |-> d])}
  /\ UNCHANGED <<directory, tasks, callers, answer, history>>

(* allocate returns the next identity until the sequence is used up.       *)
Allocated(id) == id = lastId + 1 /\ id \in ActivationIds

(* The new slot is claimed before it is inserted.                          *)
Claim(d, n, id) ==
  LET r == Reduce(Inactive, [trigger |-> "ClaimActivation", id |-> id, d |-> d])
  IN  /\ map' = [map EXCEPT ![n] = id]
      /\ home' = [home EXCEPT ![id] = n]
      /\ slots' = [slots EXCEPT ![id] = r.slot]
      /\ outputs' = [outputs EXCEPT ![id] = Batches(r.effects)]
      /\ future' = [future EXCEPT ![d] = "polled"]
      /\ ticket' = [ticket EXCEPT ![d] = id]
      /\ calls' = calls \cup {Call(d, "interpret", id, NoEvent)}
      /\ UNCHANGED <<dispatching, abandoned, tasks, passivated, answer, history>>

\* defect: the shard is unlocked between the lookup and the insertion
DispatchAbsentUnlocked(d, n) ==
  /\ future[d] = "none"
  /\ \E id \in ActivationIds : Allocated(id) /\ lastId' = id /\ Claim(d, n, id)

(* dispatch, entry absent: lookup, allocation, claim and insertion happen  *)
(* under the shard lock.                                                   *)
DispatchAbsent(d, n) ==
  /\ future[d] = "none"
  /\ map[n] = NoActivation
  /\ \E id \in ActivationIds : Allocated(id) /\ lastId' = id /\ Claim(d, n, id)

(* No identity is left: the caller gets its command back at once.          *)
DispatchExhausted(d, n) ==
  /\ future[d] = "none"
  /\ map[n] = NoActivation
  /\ ~ \E id \in ActivationIds : Allocated(id)
  /\ future' = [future EXCEPT ![d] = "done"]
  /\ answer' = [answer EXCEPT ![d] = "Exhausted"]
  /\ UNCHANGED <<directory, tasks, calls, callers, history>>

(* submit_or_inactive: find the slot of the activation's entity, or reduce *)
(* the fact on a transient inactive machine whose effects then run.        *)
Find(by, e, finished, rest) ==
  LET n == home[e.id]
      r == Reduce(Inactive, e)
  IN  IF map[n] = NoActivation
      THEN /\ tasks' = (tasks \ finished) \cup Started(r.effects)
           /\ Complete(Refused(r.effects), "Refused")
           /\ calls' = rest
      ELSE /\ tasks' = tasks \ finished
           /\ calls' = rest \cup {Call(by, "submit", map[n], e)}
           /\ UNCHANGED answer

(* The fact and its output are installed under the executor's lock.        *)
Submit(c) ==
  LET r == Reduce(slots[c.slot], c.event)
  IN  /\ c.at = "submit"
      /\ slots' = [slots EXCEPT ![c.slot] = r.slot]
      /\ outputs' = [outputs EXCEPT ![c.slot] = @ \o Batches(r.effects)]
      /\ calls' = Moved(c, "interpret")
      /\ ticket' = IF c.event.trigger = "Dispatch"
                   THEN [ticket EXCEPT ![c.event.d] = r.slot.id] ELSE ticket
      /\ failed' = IF c.event.trigger = "ActivationFailed"
                   THEN failed \cup {c.event.id} ELSE failed
      /\ acked' = IF c.event.trigger = "FenceAcknowledged"
                  THEN acked \cup {c.event.id} ELSE acked
      /\ UNCHANGED <<lastId, map, home, dispatching, abandoned, tasks, passivated,
                     future, answer, panics, lost>>

(* interpret: own the slot's outputs, or leave them to the call that does. *)
Interpret(c) ==
  /\ c.at = "interpret"
  /\ IF c.slot \in dispatching
     THEN calls' = calls \ {c} /\ UNCHANGED <<dispatching, abandoned>>
     ELSE /\ calls' = Moved(c, "own")
          /\ dispatching' = dispatching \cup {c.slot}
          /\ abandoned' = abandoned \ {c.slot}
  /\ UNCHANGED <<lastId, map, home, slots, outputs, tasks, callers, future, answer, history>>

(* next finds the queue empty and gives the outputs up in the same section. *)
Release(c) ==
  /\ c.at = "own"
  /\ outputs[c.slot] = << >>
  /\ dispatching' = dispatching \ {c.slot}
  /\ calls' = calls \ {c}
  /\ UNCHANGED <<lastId, map, home, slots, outputs, abandoned, tasks, callers, future,
                 answer, history>>

\* defect: the entry stays
RemoveMatchingNothing(s) == UNCHANGED map

(* remove_matching: only the very slot that asked is removed.              *)
RemoveMatching(s) ==
  map' = [n \in Entities |-> IF n = home[s] /\ map[n] = s THEN NoActivation ELSE map[n]]

(* Only the owner takes from the queue, so the batch it holds is the first *)
(* one, and what it has applied of it is gone from there.                  *)
Batch(s) == Head(outputs[s])

(* apply_effect: spawn a task, answer a caller, or remove the entry.       *)
ApplyEffect(c) ==
  LET fx == Head(Batch(c.slot))
  IN  /\ c.at = "own"
      /\ outputs[c.slot] # << >>
      /\ outputs' = [outputs EXCEPT ![c.slot] = Batches(Tail(Batch(c.slot))) \o Tail(@)]
      /\ tasks' = tasks \cup Started(<< fx >>)
      /\ Complete(Refused(<< fx >>), "Refused")
      /\ Wake
      /\ IF fx.type = "Remove" THEN RemoveMatching(c.slot) ELSE UNCHANGED map
      /\ UNCHANGED <<lastId, home, slots, dispatching, abandoned, calls, callers, history>>

Carried(effects) == {fx.d : fx \in {gx \in Range(effects) : gx.type \in {"Deliver", "Reject"}}}

\* defect: the unwinding interpreter keeps the slot's outputs
InterpreterPanicsKeeping(c) ==
  LET fx == Head(Batch(c.slot))
  IN  /\ c.at = "own"
      /\ outputs[c.slot] # << >>
      /\ fx.type # "Remove"
      /\ panics < MaxPanics
      /\ panics' = panics + 1
      /\ outputs' = [outputs EXCEPT ![c.slot] = Tail(@)]
      /\ Complete(Refused(<< fx >>), "Refused")
      /\ lost' = lost \cup (Carried(Batch(c.slot)) \ Refused(<< fx >>))
      /\ calls' = calls \ {c}
      /\ future' = [d \in Dispatches |->
                      IF d = c.by /\ future[d] = "polled" THEN "unwound" ELSE future[d]]
      /\ UNCHANGED <<lastId, map, home, slots, dispatching, abandoned, tasks, callers, failed, acked>>

\* defect: the panic drops every queued batch
InterpreterPanicsClearing(c) ==
  LET fx == Head(Batch(c.slot))
  IN  /\ c.at = "own"
      /\ outputs[c.slot] # << >>
      /\ fx.type # "Remove"
      /\ panics < MaxPanics
      /\ panics' = panics + 1
      /\ outputs' = [outputs EXCEPT ![c.slot] = << >>]
      /\ Complete(Refused(<< fx >>), "Refused")
      /\ lost' = lost \cup (Carried(Batch(c.slot)) \ Refused(<< fx >>))
      /\ dispatching' = dispatching \ {c.slot}
      /\ abandoned' = abandoned \cup {c.slot}
      /\ calls' = calls \ {c}
      /\ future' = [d \in Dispatches |->
                      IF d = c.by /\ future[d] = "polled" THEN "unwound" ELSE future[d]]
      /\ UNCHANGED <<lastId, map, home, slots, tasks, callers, failed, acked>>

(* The integration panics instead of spawning the task of an effect, or    *)
(* from the waker of the caller it has just answered.  The rest of the     *)
(* batch is dropped with it, the slot's outputs are given up, and a        *)
(* dispatch that was interpreting unwinds before it waits.                 *)
InterpreterPanics(c) ==
  LET fx == Head(Batch(c.slot))
  IN  /\ c.at = "own"
      /\ outputs[c.slot] # << >>
      /\ fx.type # "Remove"
      /\ panics < MaxPanics
      /\ panics' = panics + 1
      /\ outputs' = [outputs EXCEPT ![c.slot] = Tail(@)]
      /\ Complete(Refused(<< fx >>), "Refused")
      /\ lost' = lost \cup (Carried(Batch(c.slot)) \ Refused(<< fx >>))
      /\ dispatching' = dispatching \ {c.slot}
      /\ abandoned' = abandoned \cup {c.slot}
      /\ calls' = calls \ {c}
      /\ future' = [d \in Dispatches |->
                      IF d = c.by /\ future[d] = "polled" THEN "unwound" ELSE future[d]]
      /\ UNCHANGED <<lastId, map, home, slots, tasks, callers, failed, acked>>

-----------------------------------------------------------------------------
(* Tasks report.                                                           *)

Report(t, e) ==
  /\ t \in tasks
  /\ Find(t, e, {t}, calls)
  /\ Wake
  /\ UNCHANGED <<directory, callers, history>>

ActivationReports(id) ==
  \/ Report(StartActivation(id), [trigger |-> "ActivationSucceeded", id |-> id])
  \/ Report(StartActivation(id), [trigger |-> "ActivationFailed", id |-> id])

(* An accepted command answers its caller before the slot hears of it.     *)
DeliveryAccepted(id, d) ==
  /\ Deliver(id, d) \in tasks
  /\ tasks' = tasks \ {Deliver(id, d)}
  /\ Complete({d}, "Ok")
  /\ Wake
  /\ calls' = calls \cup {Call(Deliver(id, d), "find", NoActivation,
                 [trigger |-> "DeliveryResolved", id |-> id, failure |-> << >>])}
  /\ UNCHANGED <<directory, callers, history>>

DeliveryRefused(id, d) ==
  Report(Deliver(id, d), [trigger |-> "DeliveryResolved", id |-> id, failure |-> << d >>])

\* defect: a failed fence ends without forcing the drain
FenceReportsSuccess(id) ==
  \/ Report(EnqueueFence(id), [trigger |-> "FenceAcknowledged", id |-> id])
  \/ /\ EnqueueFence(id) \in tasks
     /\ tasks' = tasks \ {EnqueueFence(id)}
     /\ UNCHANGED <<directory, calls, callers, future, answer, history>>

FenceReports(id) ==
  \/ Report(EnqueueFence(id), [trigger |-> "FenceAcknowledged", id |-> id])
  \/ Report(EnqueueFence(id), [trigger |-> "ForceDrain", id |-> id])

RetirementReports(id, mode) ==
  Report(Retire(id, mode), [trigger |-> "Terminated", id |-> id])

-----------------------------------------------------------------------------
(* Callers wait, give up, or passivate.                                    *)

Waiting(d) == future[d] \in {"polled", "parked"} /\ \A c \in calls : c.by # d

(* DispatchWait::poll: take the result, or leave the waker.                *)
Poll(d) ==
  /\ Waiting(d)
  /\ future[d] = "polled"
  /\ future' = [future EXCEPT ![d] = IF answer[d] = "Awaiting" THEN "parked" ELSE "done"]
  /\ UNCHANGED <<directory, tasks, calls, callers, answer, history>>

\* defect: a dropped future leaves its waiter in the slot
DropFutureSilently(d) ==
  /\ Waiting(d)
  /\ future' = [future EXCEPT ![d] = "dropped"]
  /\ UNCHANGED <<directory, tasks, calls, callers, answer, history>>

(* DispatchWait::drop before a result was taken: cancel the waiter, if the *)
(* dispatch was bound to an activation.                                    *)
DropFuture(d) ==
  /\ Waiting(d)
  /\ future' = [future EXCEPT ![d] = "dropped"]
  /\ IF ticket[d] = NoActivation
     THEN UNCHANGED <<tasks, calls, answer>>
     ELSE Find(d, [trigger |-> "CancelWaiter", id |-> ticket[d], d |-> d], {}, calls)
  /\ UNCHANGED <<directory, callers, history>>

\* defect: an entry without an activation is drained too
PassivateReadsAny(p, n) ==
  /\ p \notin passivated
  /\ passivated' = passivated \cup {p}
  /\ map[n] # NoActivation
  /\ calls' = calls \cup {Call(p, "find", NoActivation,
                               [trigger |-> "BeginDrain", id |-> slots[map[n]].id])}
  /\ UNCHANGED <<directory, tasks, ticket, future, answer, history>>

(* passivate: current_activation, then begin_drain on what it returned.    *)
PassivateReads(p, n) ==
  /\ p \notin passivated
  /\ passivated' = passivated \cup {p}
  /\ map[n] # NoActivation
  /\ slots[map[n]].id # NoActivation
  /\ calls' = calls \cup {Call(p, "find", NoActivation,
                               [trigger |-> "BeginDrain", id |-> slots[map[n]].id])}
  /\ UNCHANGED <<directory, tasks, ticket, future, answer, history>>

Finds(c) ==
  /\ c.at = "find"
  /\ Find(c.by, c.event, {}, calls \ {c})
  /\ Wake
  /\ UNCHANGED <<directory, callers, history>>

Proceeds(c) ==
  Finds(c) \/ Submit(c) \/ Interpret(c) \/ ApplyEffect(c) \/ Release(c)

Next ==
  \/ \E c \in calls : Proceeds(c) \/ InterpreterPanics(c)
  \/ \E n \in Entities :
       \/ \E d \in Dispatches : DispatchMapped(d, n) \/ DispatchAbsent(d, n) \/ DispatchExhausted(d, n)
       \/ \E p \in Passivations : PassivateReads(p, n)
  \/ \E d \in Dispatches : Poll(d) \/ DropFuture(d)
  \/ \E id \in ActivationIds :
       \/ ActivationReports(id) \/ FenceReports(id)
       \/ \E d \in Dispatches : DeliveryAccepted(id, d) \/ DeliveryRefused(id, d)
       \/ \E mode \in Modes : RetirementReports(id, mode)

Spec == Init /\ [][Next]_vars

TaskType ==
  {StartActivation(id) : id \in ActivationIds}
    \cup {Deliver(id, d) : id \in ActivationIds, d \in Dispatches}
    \cup {EnqueueFence(id) : id \in ActivationIds}
    \cup {Retire(id, mode) : id \in ActivationIds, mode \in Modes}

Agents == Dispatches \cup Passivations \cup TaskType

(* Calls proceed, spawned tasks are driven to completion (the contract of  *)
(* LocalEntityRuntime::spawn), and a future that was called or woken is    *)
(* polled.  Nothing makes anyone dispatch, passivate, give up or panic.    *)
Fairness ==
  /\ \A a \in Agents : WF_vars(\E c \in calls : c.by = a /\ Proceeds(c))
  /\ \A d \in Dispatches : WF_vars(Poll(d))
  /\ \A id \in ActivationIds :
       /\ WF_vars(ActivationReports(id))
       /\ WF_vars(FenceReports(id))
       /\ \A d \in Dispatches : WF_vars(DeliveryAccepted(id, d) \/ DeliveryRefused(id, d))
       /\ \A mode \in Modes : WF_vars(RetirementReports(id, mode))

FairSpec == Spec /\ Fairness

-----------------------------------------------------------------------------
SlotType ==
  [phase : Phases, id : 0 .. lastId, waiters : Seq(Dispatches), reservations : Nat]

Reasons == {"Unavailable", "Busy", "Draining"}

EffectType ==
  TaskType \cup {Reject(d, reason) : d \in Dispatches, reason \in Reasons}
    \cup {RemoveEntry(id) : id \in ActivationIds}

ReportedType ==
  [trigger : {"ActivationSucceeded", "ActivationFailed", "BeginDrain",
              "FenceAcknowledged", "ForceDrain", "Terminated"}, id : ActivationIds]
    \cup [trigger : {"CancelWaiter"}, id : ActivationIds, d : Dispatches]
    \cup [trigger : {"DeliveryResolved"}, id : ActivationIds,
          failure : {<< >>} \cup {<< d >> : d \in Dispatches}]

(* ClaimActivation is not among them: it never reaches an existing slot.   *)
CallType ==
  [by : Agents, at : {"find"}, slot : {NoActivation}, event : ReportedType]
    \cup [by : Agents, at : {"submit"}, slot : 1 .. lastId,
          event : ReportedType \cup [trigger : {"Dispatch"}, d : Dispatches]]
    \cup [by : Agents, at : {"interpret", "own"}, slot : 1 .. lastId, event : {NoEvent}]

(* Every variable holds a value of its type.                               *)
TypeOK ==
  /\ lastId \in 0 .. MaxActivation
  /\ map \in [Entities -> 0 .. lastId]
  /\ home \in [ActivationIds -> Entities]
  /\ slots \in [ActivationIds -> SlotType]
  /\ outputs \in [ActivationIds -> Seq(Seq(EffectType) \ {<< >>})]
  /\ dispatching \cup abandoned \subseteq 1 .. lastId
  /\ tasks \subseteq TaskType
  /\ calls \subseteq CallType
  /\ ticket \in [Dispatches -> 0 .. lastId]
  /\ passivated \subseteq Passivations
  /\ future \in [Dispatches -> FutureStates]
  /\ answer \in [Dispatches -> Answers]
  /\ failed \cup acked \subseteq ActivationIds
  /\ panics \in 0 .. MaxPanics
  /\ lost \subseteq Dispatches

(* Where the command of dispatch d is: in a waiter entry, in an effect     *)
(* queued or being applied, with its caller about to submit it or with a   *)
(* failed delivery on its way back, in a delivery task, or settled in the  *)
(* caller's completion.                                                    *)
Carrying(effects, d) ==
  {i \in DOMAIN effects : effects[i].type \in {"Deliver", "Reject"} /\ effects[i].d = d}

Conveyed(e) ==
  CASE e.trigger = "Dispatch" -> {e.d}
    [] e.trigger = "DeliveryResolved" -> Range(e.failure)
    [] OTHER -> {}

Seats(d) ==
  UNION {{<< "waiting", s, i >> : i \in {j \in DOMAIN slots[s].waiters : slots[s].waiters[j] = d}}
           : s \in ActivationIds}

InOutputs(d) ==
  UNION {UNION {{<< "queued", s, b, i >> : i \in Carrying(outputs[s][b], d)}
                  : b \in DOMAIN outputs[s]} : s \in ActivationIds}

Conveyors(d)   == {<< "called", c >> : c \in {b \in calls : d \in Conveyed(b.event)}}
Deliverers(d)  == {<< "spawned", t >> : t \in {u \in tasks : u.type = "Deliver" /\ u.d = d}}
Settlements(d) == {<< "settled", a >> : a \in {answer[d]} \ {"Awaiting"}}

Places(d) ==
  Seats(d) \cup InOutputs(d) \cup Conveyors(d) \cup Deliverers(d) \cup Settlements(d)

Custodians(d) == Cardinality(Places(d))

(* End-to-end custody (dispatch, interpret, apply_effect, deliver, reject, *)
(* Completion): from the moment a caller dispatches until its completion   *)
(* is filled, its command is in exactly one place across the directory,    *)
(* the tasks and the completion - it is never lost, delivered twice, or    *)
(* both delivered and refused - unless the caller dropped its future or    *)
(* the command was in the very batch an interpreter was unwound from.      *)
CommandInOneHand ==
  \A d \in Dispatches :
    CASE future[d] = "none" \/ d \in lost -> Custodians(d) = 0
      [] future[d] = "dropped" /\ d \notin lost -> Custodians(d) <= 1
      [] OTHER -> Custodians(d) = 1

(* A caller that dropped its future leaves no waiter behind: once its      *)
(* cancellation has been submitted no activation can deliver its command   *)
(* from the waiter queue (DispatchWait::drop, against activations that     *)
(* complete, fail or are replaced meanwhile).                              *)
DroppedCallersLeave ==
  \A d \in Dispatches :
    future[d] = "dropped" /\ (\A c \in calls : c.by = d => c.at \notin {"find", "submit"})
      => \A s \in ActivationIds : d \notin Range(slots[s].waiters)

Live(s) == slots[s].phase # "Inactive"

(* At most one live incarnation per entity, and it is the one the map      *)
(* routes to (dispatch inserts under the shard lock, remove_matching       *)
(* removes by pointer): a slot that is still activating, active, draining  *)
(* or retiring is never orphaned by a removal or a second insertion, and   *)
(* a used-up identity sequence issues no identity twice.                   *)
OneLiveIncarnation ==
  \A s \in 1 .. lastId : Live(s) => map[home[s]] = s /\ slots[s].id = s

(* No effect is stranded: whenever a slot has queued outputs, some call is *)
(* there that will interpret them - unless the last interpreter unwound,   *)
(* and then no owner is left behind, so the next call that reaches the     *)
(* slot resumes (dispatch_pending, try_begin_dispatch, the guard's drop).  *)
NoEffectStranded ==
  \A s \in ActivationIds :
    /\ outputs[s] # << >> =>
         s \in abandoned \/ \E c \in calls : c.slot = s /\ c.at \in {"interpret", "own"}
    /\ s \in dispatching <=> \E c \in calls : c.slot = s /\ c.at = "own"
    /\ \A b, c \in calls : b.slot = s /\ c.slot = s /\ b.at = "own" /\ c.at = "own" => b = c

(* Nothing is wedged at rest: when no call and no task is left, every      *)
(* entry is gone or Active with every delivery resolved - no slot waits    *)
(* for a fact nobody will report - and every waiting caller has its answer *)
(* and its wakeup; an integration that never panicked is presumed.         *)
NothingWedgedAtRest ==
  panics = 0 /\ calls = {} /\ tasks = {} =>
    /\ \A n \in Entities :
         map[n] # NoActivation => slots[map[n]] = Active(map[n], 0)
    /\ \A d \in Dispatches :
         /\ future[d] # "parked"
         /\ future[d] = "polled" => answer[d] # "Awaiting"

(* Passivation::AlreadyPassivating as documented: "A passivation was       *)
(* already in progress for the exact incarnation" (runtime.rs), that is    *)
(* for the activation passivate had read.                                  *)
AlreadyPassivatingExact ==
  \A c \in calls :
    /\ c.by \in Passivations
    /\ c.at = "submit"
    /\ Passivation(slots[c.slot], c.event) = "AlreadyPassivating"
    => slots[c.slot].id = c.event.id

(* Every dispatch that waits and is not dropped is eventually answered,    *)
(* whatever fails or drains and whichever waiter beside it is cancelled:   *)
(* its completion is filled and its waker called, in either order.         *)
CallersAnswered ==
  \A d \in Dispatches :
    future[d] \in {"polled", "parked"} ~> future[d] \in {"done", "dropped"}

(* Every activation that begins to drain eventually gives its entry up, so *)
(* that a later dispatch may activate the entity again.                    *)
EntriesReclaimed ==
  \A s \in ActivationIds : slots[s].phase = "Draining" ~> map[home[s]] # s
=============================================================================
