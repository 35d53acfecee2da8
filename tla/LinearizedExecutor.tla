------------------------ MODULE LinearizedExecutor ------------------------
(***************************************************************************)
(* LinearizedExecutor (crates/driver/src/lib.rs): a transition and the     *)
(* enqueueing of its output are one step under the executor's mutex, and   *)
(* queued outputs are handled outside it by whichever caller owns          *)
(* dispatch.                                                               *)
(*                                                                         *)
(* Every mutex section is one action.  A thread runs                       *)
(* submit-then-dispatch_pending, as directory.rs does, or                  *)
(* dispatch_pending alone; a handler may call both reentrantly.  A panic   *)
(* of the transition happens while the mutex is held and poisons it; a     *)
(* panic of a handler unwinds through DispatchOwnership::drop.             *)
(***************************************************************************)
EXTENDS Naturals, Sequences, SequencesExt

CONSTANTS Threads, MaxOutputs   \* bound on the transitions of the instance

ASSUME MaxOutputsAssumption == MaxOutputs \in Nat

VARIABLES lock,       \* "Clean" | "Poisoned": the mutex
          outputs,    \* queued outputs, each the index of its transition
          dispatch,   \* DispatchState: "Idle" | "Dispatching"
          pc,         \* where each thread is
          nested,     \* threads whose running handler has submitted
          produced,   \* transitions so far
          begun,      \* outputs handed to a handler
          abandoned   \* an owner unwound and nobody acquired since

vars == <<lock, outputs, dispatch, pc, nested, produced, begun, abandoned>>

Owning == {"owner", "handling", "unwinding"}

Owners == {t \in Threads : pc[t] \in Owning}

Goto(t, where) == pc' = [pc EXCEPT ![t] = where]

-----------------------------------------------------------------------------
Init ==
  /\ lock = "Clean"
  /\ outputs = << >>
  /\ dispatch = "Idle"
  /\ pc = [t \in Threads |-> "idle"]
  /\ nested = {}
  /\ produced = 0
  /\ begun = << >>
  /\ abandoned = FALSE

(* The transition and its output are installed in one critical section.    *)
Transition ==
  /\ lock = "Clean"
  /\ produced < MaxOutputs
  /\ produced' = produced + 1
  /\ outputs' = Append(outputs, produced + 1)

Submit(t) ==
  /\ pc[t] = "idle"
  /\ Transition
  /\ Goto(t, "submitted")
  /\ UNCHANGED <<lock, dispatch, nested, begun, abandoned>>

(* machine.step panics: the machine is consumed and the mutex poisoned.    *)
SubmitPanics(t) ==
  /\ pc[t] = "idle"
  /\ lock = "Clean"
  /\ lock' = "Poisoned"
  /\ UNCHANGED <<outputs, dispatch, pc, nested, produced, begun, abandoned>>

(* DispatchOwnership::acquire.                                             *)
Acquire(t) ==
  /\ pc[t] \in {"idle", "submitted"}
  /\ lock = "Clean"
  /\ dispatch = "Idle"
  /\ dispatch' = "Dispatching"
  /\ abandoned' = FALSE
  /\ Goto(t, "owner")
  /\ UNCHANGED <<lock, outputs, nested, produced, begun>>

OwnedElsewhere(t) ==
  /\ pc[t] = "submitted"
  /\ lock = "Clean"
  /\ dispatch = "Dispatching"
  /\ Goto(t, "idle")
  /\ UNCHANGED <<lock, outputs, dispatch, nested, produced, begun, abandoned>>

(* dispatch_pending on a poisoned mutex panics before it owns anything.    *)
AcquirePanics(t) ==
  /\ pc[t] = "submitted"
  /\ lock = "Poisoned"
  /\ Goto(t, "idle")
  /\ UNCHANGED <<lock, outputs, dispatch, nested, produced, begun, abandoned>>

\* defect: the newest output is taken first
TakeNewest(t) ==
  /\ pc[t] = "owner"
  /\ lock = "Clean"
  /\ outputs # << >>
  /\ outputs' = Front(outputs)
  /\ begun' = Append(begun, Last(outputs))
  /\ Goto(t, "handling")
  /\ UNCHANGED <<lock, dispatch, nested, produced, abandoned>>

(* DispatchOwnership::next.                                                *)
TakeOutput(t) ==
  /\ pc[t] = "owner"
  /\ lock = "Clean"
  /\ outputs # << >>
  /\ outputs' = Tail(outputs)
  /\ begun' = Append(begun, Head(outputs))
  /\ Goto(t, "handling")
  /\ UNCHANGED <<lock, dispatch, nested, produced, abandoned>>

\* defect: an empty queue is noticed in one critical section and ownership
\* released in a later one
ReleaseLate(t) ==
  /\ lock = "Clean"
  /\ \/ /\ pc[t] = "owner" /\ outputs = << >>
        /\ Goto(t, "releasing") /\ UNCHANGED dispatch
     \/ /\ pc[t] = "releasing"
        /\ Goto(t, "idle") /\ dispatch' = "Idle"
  /\ UNCHANGED <<lock, outputs, nested, produced, begun, abandoned>>

(* An exhausted queue releases ownership in the same critical section.     *)
Release(t) ==
  /\ pc[t] = "owner"
  /\ lock = "Clean"
  /\ outputs = << >>
  /\ dispatch' = "Idle"
  /\ Goto(t, "idle")
  /\ UNCHANGED <<lock, outputs, nested, produced, begun, abandoned>>

Handled(t) ==
  /\ pc[t] = "handling"
  /\ t \notin nested
  /\ Goto(t, "owner")
  /\ UNCHANGED <<lock, outputs, dispatch, nested, produced, begun, abandoned>>

(* A handler submits and dispatches: it only contributes its output.       *)
NestedSubmit(t) ==
  /\ pc[t] = "handling"
  /\ t \notin nested
  /\ Transition
  /\ nested' = nested \cup {t}
  /\ UNCHANGED <<lock, dispatch, pc, begun, abandoned>>

NestedDispatch(t) ==
  /\ t \in nested
  /\ lock = "Clean"
  /\ dispatch = "Dispatching"
  /\ nested' = nested \ {t}
  /\ UNCHANGED <<lock, outputs, dispatch, pc, produced, begun, abandoned>>

(* The handler panics, or a call it makes does; its own submit may be what *)
(* poisons the mutex.  The output it owned goes with it.                   *)
HandlerPanics(t) ==
  /\ pc[t] = "handling"
  /\ lock' \in IF t \in nested THEN {lock} ELSE {lock, "Poisoned"}
  /\ nested' = nested \ {t}
  /\ Goto(t, "unwinding")
  /\ UNCHANGED <<outputs, dispatch, produced, begun, abandoned>>

(* next on a mutex another thread poisoned.                                *)
NextPanics(t) ==
  /\ pc[t] = "owner"
  /\ lock = "Poisoned"
  /\ Goto(t, "unwinding")
  /\ UNCHANGED <<lock, outputs, dispatch, nested, produced, begun, abandoned>>

\* defect: an unwinding owner keeps ownership
DropKeeping(t) ==
  /\ pc[t] = "unwinding"
  /\ Goto(t, "idle")
  /\ UNCHANGED <<lock, outputs, dispatch, nested, produced, begun, abandoned>>

(* DispatchOwnership::drop while unwinding, poisoned mutex or not.         *)
Drop(t) ==
  /\ pc[t] = "unwinding"
  /\ dispatch' = "Idle"
  /\ abandoned' = TRUE
  /\ Goto(t, "idle")
  /\ UNCHANGED <<lock, outputs, nested, produced, begun>>

Next ==
  \E t \in Threads :
    \/ Submit(t) \/ SubmitPanics(t)
    \/ Acquire(t) \/ OwnedElsewhere(t) \/ AcquirePanics(t)
    \/ TakeOutput(t) \/ Release(t) \/ Handled(t)
    \/ NestedSubmit(t) \/ NestedDispatch(t)
    \/ HandlerPanics(t) \/ NextPanics(t) \/ Drop(t)

Spec == Init /\ [][Next]_vars

(* A thread that submitted goes on to dispatch, an owner goes on, and a    *)
(* handler returns or panics.  Nothing makes an idle thread call again, so *)
(* what an unwound owner left behind may stay.                             *)
Fairness ==
  \A t \in Threads :
    /\ WF_vars(pc[t] = "submitted" /\ (Acquire(t) \/ OwnedElsewhere(t) \/ AcquirePanics(t)))
    /\ WF_vars(TakeOutput(t) \/ Release(t) \/ NextPanics(t))
    /\ WF_vars(Handled(t) \/ NestedDispatch(t) \/ HandlerPanics(t))
    /\ WF_vars(Drop(t))

FairSpec == Spec /\ Fairness

-----------------------------------------------------------------------------
(* Every variable holds a value of its type.                               *)
TypeOK ==
  /\ lock \in {"Clean", "Poisoned"}
  /\ outputs \in Seq(1 .. produced)
  /\ dispatch \in {"Idle", "Dispatching"}
  /\ pc \in [Threads -> {"idle", "submitted"} \cup Owning]
  /\ nested \subseteq {t \in Threads : pc[t] = "handling"}
  /\ produced \in 0 .. MaxOutputs
  /\ begun \in Seq(1 .. produced)
  /\ abandoned \in BOOLEAN

(* Exactly once, in transition order: what handlers were given followed by *)
(* what is queued is every output produced so far, in order, through       *)
(* reentrant submits, handoffs between owners and panics.                  *)
OutputsInOrder == begun \o outputs = [i \in 1 .. produced |-> i]

(* Ownership of dispatch is exclusive, and held by the flag exactly while  *)
(* some thread is inside dispatch_pending as its owner: an unwinding owner *)
(* gives it back, and nobody else can.                                     *)
SingleDispatcher ==
  /\ \A t, u \in Owners : t = u
  /\ dispatch = "Dispatching" <=> Owners # {}

(* No lost handoff (next, dispatch_pending): an output is queued only      *)
(* while somebody is going to look at the queue again, unless an owner     *)
(* unwound and nobody has called since, or the executor is poisoned.  The  *)
(* race is a caller that queues its output and leaves it to an owner that  *)
(* has just found the queue empty.                                         *)
NoOutputStranded ==
  outputs # << >> /\ lock = "Clean" =>
    Owners # {} \/ (\E t \in Threads : pc[t] = "submitted") \/ abandoned

(* Every output is eventually handed to a handler, or was abandoned by a   *)
(* panic.                                                                  *)
OutputsHandled ==
  \A n \in 1 .. MaxOutputs :
    n <= produced ~> n \in Range(begun) \/ abandoned \/ lock = "Poisoned"

(* The executor implements the ordered output stream.                      *)
Ordered ==
  INSTANCE OrderedOutputs WITH busy <- \E t \in Threads : pc[t] = "handling"

ImplementsOrderedOutputs == Ordered!Spec
=============================================================================
