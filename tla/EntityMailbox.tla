--------------------------- MODULE EntityMailbox ---------------------------
(***************************************************************************)
(* The slot composed with the incarnations behind its endpoints.  Each     *)
(* incarnation runs an EntityBehavior (crates/entity/src/protocol.rs) on a *)
(* bounded first-in first-out lane of user messages; the drain fence of    *)
(* the lifecycle is a message of that lane.  What the port says            *)
(* (LocalEntityRuntime in runtime.rs: activate, deliver, fence, retire) is *)
(* done to the lanes: a delivery enqueues and is resolved later, a fence   *)
(* enqueues and awaits the behavior's answer, an incarnation may stop at   *)
(* any time with messages in its lane, and nothing tells the slot.         *)
(*                                                                         *)
(* The lanes and event loops belong to the actor runtime and are external; *)
(* that a lane keeps its order is the premise docs/architecture.mdx states.*)
(***************************************************************************)
EXTENDS EntitySlot

CONSTANT LaneCapacity    \* the bound of the actor runtime's user lane

ASSUME LaneCapacityAssumption == LaneCapacity \in Nat \ {0}

VARIABLES running,   \* incarnations whose event loop runs
          lane,      \* incarnation -> the events waiting in its user lane
          entered,   \* incarnation -> commands that entered its lane
          fenced,    \* incarnations whose lane a fence entered
          handled,   \* commands whose inner transition was taken
          replies    \* incarnations that answered their fence

mailbox  == <<running, lane, entered, fenced, handled, replies>>
allVars  == <<vars, mailbox>>

-----------------------------------------------------------------------------
(* UserEvent::user: a command is the inner behavior's own event.           *)
Inner(d)   == [event |-> "Inner", d |-> d]
DrainFence == [event |-> "DrainFence"]

EventType == {Inner(d) : d \in Dispatches} \cup {DrainFence}

Full(id) == Len(lane[id]) >= LaneCapacity

Push(id, e) == lane' = [lane EXCEPT ![id] = Append(@, e)]

(* The event loop is gone, and what waited in its lane with it.            *)
End(id) ==
  /\ running' = running \ {id}
  /\ lane' = [lane EXCEPT ![id] = << >>]

-----------------------------------------------------------------------------
MailboxInit ==
  /\ Init
  /\ running = {}
  /\ lane = [id \in ActivationIds |-> << >>]
  /\ entered = [id \in ActivationIds |-> {}]
  /\ fenced = {} /\ handled = {} /\ replies = {}

(* activate returns after init succeeded and the event loop was launched.  *)
Launch(id) ==
  /\ ActivationSucceeded(id)
  /\ running' = running \cup {id}
  /\ UNCHANGED <<lane, entered, fenced, handled, replies>>

(* endpoint.deliver: the command moves into the lane, once.                *)
Enqueue(id, d) ==
  /\ Deliver(id, d) \in tasks
  /\ d \notin entered[id]
  /\ id \in running
  /\ ~Full(id)
  /\ Push(id, Inner(d))
  /\ entered' = [entered EXCEPT ![id] = @ \cup {d}]
  /\ UNCHANGED <<vars, running, fenced, handled, replies>>

EnqueueResolves(id, d) ==
  /\ d \in entered[id]
  /\ Delivered(id, d)
  /\ UNCHANGED mailbox

\* defect: the command is given back although the lane has it
GivesBackEntered(id, d) ==
  /\ DeliveryFailed(id, d)
  /\ UNCHANGED mailbox

(* deliver returns ownership only of a command that did not enter.         *)
GivesBack(id, d) ==
  /\ d \notin entered[id]
  /\ DeliveryFailed(id, d)
  /\ UNCHANGED mailbox

EnqueueFenceInLane(id) ==
  /\ EnqueueFence(id) \in tasks
  /\ id \notin fenced
  /\ id \in running
  /\ ~Full(id)
  /\ Push(id, DrainFence)
  /\ fenced' = fenced \cup {id}
  /\ UNCHANGED <<vars, running, entered, handled, replies>>

FenceAnswered(id) ==
  /\ id \in replies
  /\ FenceAcknowledged(id)
  /\ UNCHANGED mailbox

(* The fence was not enqueued, or is given up without an answer.           *)
FenceGivenUp(id) ==
  /\ FenceFailed(id)
  /\ UNCHANGED mailbox

\* defect: the command is dropped by the wrapper
TransitionForgetting(id) ==
  /\ id \in running
  /\ lane[id] # << >>
  /\ lane' = [lane EXCEPT ![id] = Tail(@)]
  /\ replies' = IF Head(lane[id]) = DrainFence THEN replies \cup {id} ELSE replies
  /\ UNCHANGED <<vars, running, entered, fenced, handled>>

\* defect: the fence is handled by the inner behavior, and not answered
TransitionUnanswered(id) ==
  /\ id \in running
  /\ lane[id] # << >>
  /\ lane' = [lane EXCEPT ![id] = Tail(@)]
  /\ handled' = handled \cup {d \in Dispatches : Head(lane[id]) = Inner(d)}
  /\ UNCHANGED <<vars, running, entered, fenced, replies>>

\* defect: a fence overtakes the commands before it
TransitionUrgent(id) ==
  /\ id \in running
  /\ lane[id] # << >>
  /\ IF DrainFence \in Range(lane[id])
     THEN /\ lane' = [lane EXCEPT ![id] = RemoveFirst(@, DrainFence)]
          /\ replies' = replies \cup {id}
          /\ UNCHANGED handled
     ELSE /\ lane' = [lane EXCEPT ![id] = Tail(@)]
          /\ handled' = handled \cup {d \in Dispatches : Head(lane[id]) = Inner(d)}
          /\ UNCHANGED replies
  /\ UNCHANGED <<vars, running, entered, fenced>>

(* EntityBehavior::transition: an inner event is the inner behavior's, a   *)
(* fence is only answered and leaves the inner behavior as it is.          *)
Transition(id) ==
  /\ id \in running
  /\ lane[id] # << >>
  /\ lane' = [lane EXCEPT ![id] = Tail(@)]
  /\ handled' = handled \cup {d \in Dispatches : Head(lane[id]) = Inner(d)}
  /\ replies' = IF Head(lane[id]) = DrainFence THEN replies \cup {id} ELSE replies
  /\ UNCHANGED <<vars, running, entered, fenced>>

(* The inner transition of a command stops the incarnation, or fails.      *)
TransitionStops(id, d) ==
  /\ id \in running
  /\ lane[id] # << >>
  /\ Head(lane[id]) = Inner(d)
  /\ handled' = handled \cup {d}
  /\ End(id)
  /\ UNCHANGED <<vars, entered, fenced, replies>>

(* A timer, a peer, a child, a worker or a shutdown request, forwarded to  *)
(* the inner behavior, stops the incarnation; or it crashes.               *)
Stops(id) ==
  /\ id \in running
  /\ End(id)
  /\ UNCHANGED <<vars, entered, fenced, handled, replies>>

(* retire ends the incarnation and awaits its exact termination.           *)
Retires(id, mode) ==
  /\ Retire(id, mode) \in tasks
  /\ Stops(id)

Terminates(id, mode) ==
  /\ id \notin running
  /\ Terminated(id, mode)
  /\ UNCHANGED mailbox

(* What callers and their slot do without touching an incarnation.         *)
Elsewhere ==
  /\ \/ \E d \in Dispatches : Claim(d) \/ Dispatch(d) \/ DispatchRemoved(d)
     \/ \E id \in ActivationIds :
          \/ \E d \in Dispatches : Cancel(id, d)
          \/ ActivationFailed(id) \/ Passivate(id) \/ ForceRetirement(id)
  /\ UNCHANGED mailbox

MailboxNext ==
  \/ Elsewhere
  \/ \E id \in ActivationIds :
       \/ Launch(id) \/ Transition(id) \/ Stops(id)
       \/ EnqueueFenceInLane(id) \/ FenceAnswered(id) \/ FenceGivenUp(id)
       \/ \E d \in Dispatches :
            \/ Enqueue(id, d) \/ EnqueueResolves(id, d) \/ GivesBack(id, d)
            \/ TransitionStops(id, d)
       \/ \E mode \in {"Graceful", "Forced"} : Terminates(id, mode)

MailboxSpec == MailboxInit /\ [][MailboxNext]_allVars

(* Spawned tasks are driven to completion (LocalEntityRuntime::spawn) and  *)
(* the port answers them: an attempt ends, a delivery enters or returns, a *)
(* fence that was answered or can no longer be is reported, a retirement   *)
(* ends its incarnation.  Event loops take what is in their lanes.         *)
MailboxFairness ==
  \A id \in ActivationIds :
    /\ WF_allVars(id \notin failed /\ (Launch(id) \/ (ActivationFailed(id) /\ UNCHANGED mailbox)))
    /\ \A d \in Dispatches :
         WF_allVars(Enqueue(id, d) \/ EnqueueResolves(id, d) \/ GivesBack(id, d))
    /\ WF_allVars(\/ EnqueueFenceInLane(id) \/ FenceAnswered(id)
                  \/ (id \notin running /\ id \notin replies /\ FenceGivenUp(id)))
    /\ WF_allVars(Transition(id))
    /\ \A mode \in {"Graceful", "Forced"} :
         WF_allVars(Retires(id, mode) \/ Terminates(id, mode))

MailboxFairSpec == MailboxSpec /\ MailboxFairness

-----------------------------------------------------------------------------
(* Every variable of the lanes holds a value of its type.                  *)
MailboxTypeOK ==
  /\ running \cup fenced \cup replies \subseteq Known
  /\ lane \in [ActivationIds -> Seq(EventType)]
  /\ entered \in [ActivationIds -> SUBSET Dispatches]
  /\ handled \subseteq Dispatches

(* The fence certifies (EntityBehavior::transition, begin_drain): once an  *)
(* incarnation answered its drain fence, every command that ever entered   *)
(* its lane has been handled - none is behind the fence or lost with the   *)
(* lane - so a graceful retirement loses no command.                       *)
FenceCertifies ==
  \A id \in Known :
    /\ id \in replies => entered[id] \subseteq handled
    /\ Retire(id, "Graceful") \in tasks => entered[id] \subseteq handled

(* A command given back or cancelled has not run and never will, and no    *)
(* command runs in two incarnations (deliver, reject_failed_delivery: the  *)
(* runtime never retries): a caller may retry what was refused.            *)
RefusedNeverRun ==
  /\ \A id \in Known : entered[id] \cap (returned \cup cancelled) = {}
  /\ \A i, j \in Known : i # j => entered[i] \cap entered[j] = {}
  /\ handled \subseteq UNION {entered[id] : id \in Known}

Gone == UNION {entered[id] : id \in ActivationIds \ running}

(* Every command that entered the slot is in the end handled, given back,  *)
(* cancelled, or was in the lane of an incarnation that is gone.           *)
CommandsRun ==
  \A d \in Dispatches : d \in issued ~> d \in handled \cup returned \cup cancelled \cup Gone
=============================================================================
