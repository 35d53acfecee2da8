---------------------- MODULE LinearizedExecutorProofs ----------------------
(***************************************************************************)
(* Proofs about LinearizedExecutor for every set of threads and every      *)
(* number of transitions: what its inductive invariant is, and that it     *)
(* implements OrderedOutputs.                                              *)
(***************************************************************************)
EXTENDS LinearizedExecutor, NumberedSequences, TLAPS

-----------------------------------------------------------------------------
(* The inductive invariant is the conjunction of the invariants the runs   *)
(* check: no queued output is stranded because the flag says exactly       *)
(* whether somebody owns dispatch.                                         *)
IInv ==
  /\ TypeOK
  /\ OutputsInOrder
  /\ SingleDispatcher
  /\ NoOutputStranded

LEMMA InitIInv == Init => IInv
<1> SUFFICES ASSUME Init PROVE IInv
  OBVIOUS
<1>1. TypeOK
  <2>1. << >> \in Seq(1 .. produced)
    BY EmptySeq
  <2>2. outputs \in Seq(1 .. produced) /\ begun \in Seq(1 .. produced)
    BY <2>1 DEF Init
  <2>3. produced \in 0 .. MaxOutputs
    BY MaxOutputsAssumption DEF Init
  <2> QED BY <2>2, <2>3 DEF Init, TypeOK
<1>2. OutputsInOrder
  BY DEF Init, OutputsInOrder
<1>3. SingleDispatcher
  BY DEF Init, SingleDispatcher, Owners, Owning
<1>4. NoOutputStranded
  BY DEF Init, NoOutputStranded
<1> QED BY <1>1, <1>2, <1>3, <1>4 DEF IInv

LEMMA TypeNext == TypeOK /\ [Next]_vars => TypeOK'
<1> SUFFICES ASSUME TypeOK, [Next]_vars PROVE TypeOK'
  OBVIOUS
<1> USE DEF TypeOK, Goto, Owning
<1>1. ASSUME NEW t \in Threads, Submit(t) \/ NestedSubmit(t) PROVE TypeOK'
  <2>1. /\ produced' = produced + 1 /\ produced' \in 0 .. MaxOutputs
        /\ outputs' = Append(outputs, produced + 1) /\ begun' = begun
    BY <1>1, MaxOutputsAssumption DEF Submit, NestedSubmit, Transition
  <2>2. outputs' \in Seq(1 .. produced') /\ begun' \in Seq(1 .. produced')
    <3>1. outputs \in Seq(1 .. produced') /\ begun \in Seq(1 .. produced')
      <4>1. 1 .. produced \subseteq 1 .. produced'
        BY <2>1
      <4> QED BY <4>1, SeqMonotonic
    <3>2. produced + 1 \in 1 .. produced'
      BY <2>1
    <3> QED BY <2>1, <3>1, <3>2
  <2>3. pc' \in [Threads -> {"idle", "submitted"} \cup Owning]
        /\ nested' \subseteq {u \in Threads : pc'[u] = "handling"}
    BY <1>1 DEF Submit, NestedSubmit
  <2>4. lock' = lock /\ dispatch' = dispatch /\ abandoned' = abandoned
    BY <1>1 DEF Submit, NestedSubmit
  <2> QED BY <2>1, <2>2, <2>3, <2>4
<1>2. ASSUME NEW t \in Threads, TakeOutput(t) PROVE TypeOK'
  <2>1. Head(outputs) \in 1 .. produced /\ Tail(outputs) \in Seq(1 .. produced)
    BY <1>2 DEF TakeOutput
  <2> QED BY <1>2, <2>1 DEF TakeOutput
<1>3. ASSUME NEW t \in Threads,
             \/ SubmitPanics(t) \/ Acquire(t) \/ OwnedElsewhere(t)
             \/ AcquirePanics(t) \/ Release(t) \/ Handled(t)
             \/ NestedDispatch(t) \/ NextPanics(t) \/ Drop(t)
      PROVE  TypeOK'
  BY <1>3
  DEF SubmitPanics, Acquire, OwnedElsewhere, AcquirePanics, Release, Handled,
      NestedDispatch, NextPanics, Drop
<1>4. ASSUME NEW t \in Threads, HandlerPanics(t) PROVE TypeOK'
  BY <1>4 DEF HandlerPanics
<1>5. CASE UNCHANGED vars
  BY <1>5 DEF vars
<1> QED BY <1>1, <1>2, <1>3, <1>4, <1>5 DEF Next

LEMMA TypedStream ==
  ASSUME TypeOK
  PROVE  begun \in Seq(Nat) /\ outputs \in Seq(Nat) /\ produced \in Nat
<1>1. 1 .. produced \subseteq Nat
  OBVIOUS
<1> QED BY <1>1 DEF TypeOK

LEMMA OrderNext == TypeOK /\ OutputsInOrder /\ [Next]_vars => OutputsInOrder'
<1> SUFFICES ASSUME TypeOK, OutputsInOrder, [Next]_vars PROVE OutputsInOrder'
  OBVIOUS
<1>0. begun \o outputs = Numbered(produced)
  BY DEF OutputsInOrder, Numbered
<1>1. ASSUME NEW t \in Threads, Submit(t) \/ NestedSubmit(t) PROVE OutputsInOrder'
  <2>1. produced' = produced + 1 /\ outputs' = Append(outputs, produced + 1)
        /\ begun' = begun
    BY <1>1 DEF Submit, NestedSubmit, Transition
  <2>2. begun' \o outputs' = Numbered(produced')
    BY <1>0, <2>1, TypedStream, AppendNumbered
  <2> QED BY <2>2 DEF OutputsInOrder, Numbered
<1>2. ASSUME NEW t \in Threads, TakeOutput(t) PROVE OutputsInOrder'
  <2>1. begun' \o outputs' = Numbered(produced')
    BY <1>0, <1>2, TypedStream, TakeNumbered DEF TakeOutput
  <2> QED BY <2>1 DEF OutputsInOrder, Numbered
<1>3. CASE UNCHANGED <<begun, outputs, produced>>
  BY <1>3 DEF OutputsInOrder
<1> QED
  BY <1>1, <1>2, <1>3
  DEF Next, vars, SubmitPanics, Acquire, OwnedElsewhere, AcquirePanics, Release,
      Handled, NestedDispatch, HandlerPanics, NextPanics, Drop

(* Who owns dispatch before and after a thread moves.                      *)
LEMMA OwnersMove ==
  ASSUME TypeOK, NEW t \in Threads, NEW where, Goto(t, where)
  PROVE  Owners' = IF where \in Owning THEN Owners \cup {t} ELSE Owners \ {t}
BY DEF TypeOK, Goto, Owners

LEMMA DispatcherNext ==
  TypeOK /\ SingleDispatcher /\ [Next]_vars => SingleDispatcher'
<1> SUFFICES ASSUME TypeOK, SingleDispatcher, [Next]_vars PROVE SingleDispatcher'
  OBVIOUS
<1>1. ASSUME NEW t \in Threads, Acquire(t) PROVE SingleDispatcher'
  <2>1. Owners = {} /\ Owners' = Owners \cup {t} /\ dispatch' = "Dispatching"
    BY <1>1, OwnersMove DEF Acquire, SingleDispatcher, Owning
  <2> QED BY <2>1 DEF SingleDispatcher
<1>2. ASSUME NEW t \in Threads, Release(t) \/ Drop(t) PROVE SingleDispatcher'
  <2>1. Owners = {t}
    BY <1>2 DEF Release, Drop, SingleDispatcher, Owners, Owning
  <2>2. Owners' = {} /\ dispatch' = "Idle"
    BY <1>2, <2>1, OwnersMove DEF Release, Drop, Owning
  <2> QED BY <2>2 DEF SingleDispatcher
<1>3. ASSUME NEW t \in Threads,
             Submit(t) \/ OwnedElsewhere(t) \/ AcquirePanics(t)
      PROVE  SingleDispatcher'
  <2>1. Owners' = Owners /\ dispatch' = dispatch
    BY <1>3, OwnersMove
    DEF Submit, OwnedElsewhere, AcquirePanics, Owners, Owning
  <2> QED BY <2>1 DEF SingleDispatcher
<1>4. ASSUME NEW t \in Threads,
             TakeOutput(t) \/ Handled(t) \/ HandlerPanics(t) \/ NextPanics(t)
      PROVE  SingleDispatcher'
  <2>1. Owners' = Owners /\ dispatch' = dispatch
    BY <1>4, OwnersMove
    DEF TakeOutput, Handled, HandlerPanics, NextPanics, Owners, Owning
  <2> QED BY <2>1 DEF SingleDispatcher
<1>5. CASE UNCHANGED <<pc, dispatch>>
  BY <1>5 DEF SingleDispatcher, Owners
<1> QED
  BY <1>1, <1>2, <1>3, <1>4, <1>5
  DEF Next, vars, SubmitPanics, NestedSubmit, NestedDispatch

LEMMA StrandedNext == IInv /\ [Next]_vars => NoOutputStranded'
<1> SUFFICES ASSUME IInv, [Next]_vars PROVE NoOutputStranded'
  OBVIOUS
<1> USE DEF IInv
<1>1. ASSUME NEW t \in Threads, Submit(t) PROVE NoOutputStranded'
  BY <1>1 DEF Submit, Goto, TypeOK, NoOutputStranded
<1>2. ASSUME NEW t \in Threads,
             Acquire(t) \/ TakeOutput(t) \/ Handled(t) \/ HandlerPanics(t)
      PROVE  NoOutputStranded'
  <2>1. t \in Owners'
    BY <1>2 DEF Acquire, TakeOutput, Handled, HandlerPanics, Goto, TypeOK,
                Owners, Owning
  <2> QED BY <2>1 DEF NoOutputStranded
<1>3. ASSUME NEW t \in Threads, OwnedElsewhere(t) PROVE NoOutputStranded'
  <2>1. Owners # {} /\ Owners' = Owners
    BY <1>3, OwnersMove DEF OwnedElsewhere, SingleDispatcher, Owners, Owning
  <2> QED BY <2>1 DEF NoOutputStranded
<1>4. ASSUME NEW t \in Threads, NestedSubmit(t) PROVE NoOutputStranded'
  <2>1. t \in Owners'
    BY <1>4 DEF NestedSubmit, Owners, Owning
  <2> QED BY <2>1 DEF NoOutputStranded
<1>5. ASSUME NEW t \in Threads,
             \/ SubmitPanics(t) \/ AcquirePanics(t) \/ NextPanics(t)
             \/ Release(t) \/ Drop(t)
      PROVE  NoOutputStranded'
  BY <1>5
  DEF SubmitPanics, AcquirePanics, NextPanics, Release, Drop, NoOutputStranded
<1>6. CASE UNCHANGED <<outputs, lock, pc, abandoned>>
  BY <1>6 DEF NoOutputStranded, Owners
<1> QED BY <1>1, <1>2, <1>3, <1>4, <1>5, <1>6 DEF Next, vars, NestedDispatch

LEMMA NextIInv == IInv /\ [Next]_vars => IInv'
BY TypeNext, OrderNext, DispatcherNext, StrandedNext DEF IInv

(* The inductive invariant holds of every behaviour.                       *)
THEOREM Invariance == Spec => []IInv
BY InitIInv, NextIInv, PTL DEF Spec

(* Every reachable state of the executor is well typed.                    *)
THEOREM TypeCorrect == Spec => []TypeOK
<1>1. IInv => TypeOK
  BY DEF IInv
<1> QED BY <1>1, Invariance, PTL

(* Outputs reach handlers exactly once and in transition order, through    *)
(* reentrancy, handoffs and panics, for any number of threads.             *)
THEOREM OutputsAreOrdered == Spec => []OutputsInOrder
<1>1. IInv => OutputsInOrder
  BY DEF IInv
<1> QED BY <1>1, Invariance, PTL

(* At most one thread owns dispatch, and the flag says exactly so.         *)
THEOREM DispatchIsExclusive == Spec => []SingleDispatcher
<1>1. IInv => SingleDispatcher
  BY DEF IInv
<1> QED BY <1>1, Invariance, PTL

(* No caller leaves its output to an owner that no longer looks.           *)
THEOREM NoLostHandoff == Spec => []NoOutputStranded
<1>1. IInv => NoOutputStranded
  BY DEF IInv
<1> QED BY <1>1, Invariance, PTL

-----------------------------------------------------------------------------
(* Refinement.                                                             *)

Busy == \E t \in Threads : pc[t] = "handling"

LEMMA InitRefines == Init => Ordered!Init
BY DEF Init, Ordered!Init

(* Every step is a step of the ordered stream or leaves it alone.          *)
LEMMA NextRefines == IInv /\ [Next]_vars => [Ordered!Next]_(Ordered!vars)
<1> SUFFICES ASSUME IInv, [Next]_vars
             PROVE  \/ /\ produced' = produced + 1
                       /\ UNCHANGED begun /\ Busy' = Busy
                    \/ /\ ~Busy /\ Len(begun) < produced
                       /\ begun' = Append(begun, Len(begun) + 1)
                       /\ Busy' /\ UNCHANGED produced
                    \/ Busy /\ ~Busy' /\ UNCHANGED <<produced, begun>>
                    \/ UNCHANGED <<produced, begun>> /\ Busy' = Busy
  BY DEF Ordered!Next, Ordered!Produce, Ordered!Begin, Ordered!End, Ordered!vars, Busy
<1> USE DEF IInv
<1>1. \A t, u \in Threads : pc[t] \in Owning /\ pc[u] \in Owning => t = u
  BY DEF SingleDispatcher, Owners
<1>2. ASSUME NEW t \in Threads, NEW where, Goto(t, where),
             pc[t] # "handling", where # "handling"
      PROVE  Busy' = Busy
  BY <1>2 DEF Busy, Goto, TypeOK
<1>3. ASSUME NEW t \in Threads, Submit(t) \/ NestedSubmit(t)
      PROVE  produced' = produced + 1 /\ UNCHANGED begun /\ Busy' = Busy
  BY <1>2, <1>3 DEF Submit, NestedSubmit, Transition, Busy
<1>4. ASSUME NEW t \in Threads, TakeOutput(t)
      PROVE  /\ ~Busy /\ Len(begun) < produced
             /\ begun' = Append(begun, Len(begun) + 1)
             /\ Busy' /\ UNCHANGED produced
  <2>1. ~Busy /\ Busy'
    BY <1>1, <1>4 DEF TakeOutput, Busy, Goto, TypeOK, Owning
  <2>2. begun \o outputs = Numbered(produced)
    BY DEF OutputsInOrder, Numbered
  <2>3. Head(outputs) = Len(begun) + 1 /\ Len(begun) < produced
    BY <1>4, <2>2, TypedStream, TakeNumbered DEF TakeOutput
  <2> QED BY <1>4, <2>1, <2>3 DEF TakeOutput
<1>5. ASSUME NEW t \in Threads, Handled(t) \/ HandlerPanics(t)
      PROVE  Busy /\ ~Busy' /\ UNCHANGED <<produced, begun>>
  BY <1>1, <1>5 DEF Handled, HandlerPanics, Busy, Goto, TypeOK, Owning
<1>6. ASSUME NEW t \in Threads,
             \/ Acquire(t) \/ OwnedElsewhere(t) \/ AcquirePanics(t)
             \/ Release(t) \/ NextPanics(t) \/ Drop(t)
      PROVE  UNCHANGED <<produced, begun>> /\ Busy' = Busy
  BY <1>2, <1>6
  DEF Acquire, OwnedElsewhere, AcquirePanics, Release, NextPanics, Drop
<1>7. CASE UNCHANGED <<produced, begun, pc>>
  BY <1>7 DEF Busy
<1> QED
  BY <1>3, <1>4, <1>5, <1>6, <1>7
  DEF Next, vars, SubmitPanics, NestedDispatch

(* The executor implements the ordered output stream.                      *)
THEOREM Refinement == Spec => ImplementsOrderedOutputs
BY InitRefines, NextRefines, Invariance, PTL
DEF Spec, ImplementsOrderedOutputs, Ordered!Spec
=============================================================================
