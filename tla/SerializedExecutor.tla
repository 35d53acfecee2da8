------------------------- MODULE SerializedExecutor -------------------------
(***************************************************************************)
(* SerializedExecutor (crates/driver/src/lib.rs): inputs are queued, and   *)
(* one caller at a time runs whole turns - transition, installation,       *)
(* handler, receipt - in the order of submission.  A turn is the index of  *)
(* its input; its receipt is outcome[turn].                                *)
(*                                                                         *)
(* The executor's mutex guards submission, take_turn, install and drop;    *)
(* the transition and the handler run outside it.  A panic of either       *)
(* unwinds through SerializedOwnership::drop and poisons the executor.     *)
(***************************************************************************)
EXTENDS Naturals, Sequences, SequencesExt

CONSTANTS Threads, MaxTurns   \* bound on the inputs of the instance

ASSUME MaxTurnsAssumption == MaxTurns \in Nat

VARIABLES turn,       \* TurnState: "Idle" | "Running" | "Poisoned"
          machine,    \* "Ready" | "Taken": Some or None in the executor
          inputs,     \* queued turns
          active,     \* turns whose receipt the owner's guard holds: {} or {n}
          pc,         \* where each thread is
          receipt,    \* the turn each thread submitted last, 0 before
          outcome,    \* what each receipt says
          submitted,  \* inputs accepted so far
          started,    \* turns taken, in order
          handled     \* turns whose handler returned

vars == <<turn, machine, inputs, active, pc, receipt, outcome, submitted,
          started, handled>>

Turns == 1 .. MaxTurns

Running == {"draining", "stepping", "handling", "unwinding"}

Owners == {t \in Threads : pc[t] \in Running}

Goto(t, where) == pc' = [pc EXCEPT ![t] = where]

-----------------------------------------------------------------------------
Init ==
  /\ turn = "Idle"
  /\ machine = "Ready"
  /\ inputs = << >>
  /\ active = {}
  /\ pc = [t \in Threads |-> "idle"]
  /\ receipt = [t \in Threads |-> 0]
  /\ outcome = [n \in Turns |-> "Pending"]
  /\ submitted = 0
  /\ started = << >>
  /\ handled = {}

(* A poisoned executor gives the input back and queues nothing.            *)
Enqueue ==
  /\ turn # "Poisoned"
  /\ submitted < MaxTurns
  /\ submitted' = submitted + 1
  /\ inputs' = Append(inputs, submitted + 1)

\* defect: every caller drains
SubmitShared(t) ==
  /\ pc[t] = "idle"
  /\ Enqueue
  /\ turn' = "Running"
  /\ Goto(t, "draining")
  /\ receipt' = [receipt EXCEPT ![t] = submitted + 1]
  /\ UNCHANGED <<machine, active, outcome, started, handled>>

(* The caller that finds the executor idle owns the drain; any other has   *)
(* its turn run by the owner and waits for its receipt.                    *)
Submit(t) ==
  /\ pc[t] = "idle"
  /\ Enqueue
  /\ turn' = "Running"
  /\ Goto(t, IF turn = "Idle" THEN "draining" ELSE "waiting")
  /\ receipt' = [receipt EXCEPT ![t] = submitted + 1]
  /\ UNCHANGED <<machine, active, outcome, started, handled>>

(* TurnReceipt::wait.                                                      *)
WaitReturns(t) ==
  /\ pc[t] = "waiting"
  /\ outcome[receipt[t]] # "Pending"
  /\ Goto(t, "idle")
  /\ UNCHANGED <<turn, machine, inputs, active, receipt, outcome, submitted,
                 started, handled>>

\* defect: the newest input is taken first
TakeTurnNewest(t) ==
  /\ pc[t] = "draining"
  /\ inputs # << >>
  /\ machine = "Ready"
  /\ machine' = "Taken"
  /\ inputs' = Front(inputs)
  /\ active' = {Last(inputs)}
  /\ started' = Append(started, Last(inputs))
  /\ Goto(t, "stepping")
  /\ UNCHANGED <<turn, receipt, outcome, submitted, handled>>

(* take_turn; the machine leaves the executor with the turn.               *)
TakeTurn(t) ==
  /\ pc[t] = "draining"
  /\ inputs # << >>
  /\ machine = "Ready"
  /\ machine' = "Taken"
  /\ inputs' = Tail(inputs)
  /\ active' = {Head(inputs)}
  /\ started' = Append(started, Head(inputs))
  /\ Goto(t, "stepping")
  /\ UNCHANGED <<turn, receipt, outcome, submitted, handled>>

\* defect: the executor stays Running with nobody draining it
ExhaustedRunning(t) ==
  /\ pc[t] = "draining"
  /\ inputs = << >>
  /\ Goto(t, "idle")
  /\ UNCHANGED <<turn, machine, inputs, active, receipt, outcome, submitted,
                 started, handled>>

(* take_turn on an empty queue disarms the guard.                          *)
Exhausted(t) ==
  /\ pc[t] = "draining"
  /\ inputs = << >>
  /\ turn' = "Idle"
  /\ Goto(t, "idle")
  /\ UNCHANGED <<machine, inputs, active, receipt, outcome, submitted,
                 started, handled>>

\* defect: the receipt is completed before the handler runs
InstallCompleting(t) ==
  /\ pc[t] = "stepping"
  /\ machine' = "Ready"
  /\ outcome' = [n \in Turns |-> IF n \in active THEN "Completed" ELSE outcome[n]]
  /\ Goto(t, "handling")
  /\ UNCHANGED <<turn, inputs, active, receipt, submitted, started, handled>>

(* machine.step, then install.                                             *)
Install(t) ==
  /\ pc[t] = "stepping"
  /\ machine' = "Ready"
  /\ Goto(t, "handling")
  /\ UNCHANGED <<turn, inputs, active, receipt, outcome, submitted, started,
                 handled>>

(* The handler returns: complete, turn_completed.                          *)
Complete(t) ==
  /\ pc[t] = "handling"
  /\ handled' = handled \cup active
  /\ outcome' = [n \in Turns |-> IF n \in active THEN "Completed" ELSE outcome[n]]
  /\ active' = {}
  /\ Goto(t, "draining")
  /\ UNCHANGED <<turn, machine, inputs, receipt, submitted, started>>

(* A handler submits to its own executor; the receipt must not be waited   *)
(* for before the outer turn returns.                                      *)
NestedSubmit(t) ==
  /\ pc[t] = "handling"
  /\ Enqueue
  /\ UNCHANGED <<turn, machine, active, pc, receipt, outcome, started, handled>>

(* machine.step or the handler panics.                                     *)
Panic(t) ==
  /\ pc[t] \in {"stepping", "handling"}
  /\ Goto(t, "unwinding")
  /\ UNCHANGED <<turn, machine, inputs, active, receipt, outcome, submitted,
                 started, handled>>

\* defect: queued receipts are dropped unresolved
DropActiveOnly(t) ==
  /\ pc[t] = "unwinding"
  /\ turn' = "Poisoned"
  /\ outcome' = [n \in Turns |-> IF n \in active THEN "Poisoned" ELSE outcome[n]]
  /\ active' = {}
  /\ inputs' = << >>
  /\ Goto(t, "idle")
  /\ UNCHANGED <<machine, receipt, submitted, started, handled>>

\* defect: receipts already completed are poisoned too
DropAll(t) ==
  /\ pc[t] = "unwinding"
  /\ turn' = "Poisoned"
  /\ outcome' = [n \in Turns |-> IF n <= submitted THEN "Poisoned" ELSE outcome[n]]
  /\ active' = {}
  /\ inputs' = << >>
  /\ Goto(t, "idle")
  /\ UNCHANGED <<machine, receipt, submitted, started, handled>>

(* SerializedOwnership::drop: the executor is poisoned and every receipt   *)
(* still outstanding resolves.                                             *)
Drop(t) ==
  /\ pc[t] = "unwinding"
  /\ turn' = "Poisoned"
  /\ outcome' = [n \in Turns |-> IF n \in active \cup Range(inputs)
                                 THEN "Poisoned" ELSE outcome[n]]
  /\ active' = {}
  /\ inputs' = << >>
  /\ Goto(t, "idle")
  /\ UNCHANGED <<machine, receipt, submitted, started, handled>>

Next ==
  \E t \in Threads :
    \/ Submit(t) \/ WaitReturns(t) \/ TakeTurn(t) \/ Exhausted(t)
    \/ Install(t) \/ Complete(t) \/ NestedSubmit(t) \/ Panic(t) \/ Drop(t)

Spec == Init /\ [][Next]_vars

(* An owner goes on with its turn, transitions and handlers return or      *)
(* panic, and unwinding ends; a resolved receipt wakes its waiter.         *)
Fairness ==
  \A t \in Threads :
    /\ WF_vars(TakeTurn(t) \/ Exhausted(t))
    /\ WF_vars(Install(t) \/ Complete(t) \/ Panic(t))
    /\ WF_vars(Drop(t))
    /\ WF_vars(WaitReturns(t))

FairSpec == Spec /\ Fairness

-----------------------------------------------------------------------------
(* Every variable holds a value of its type.                               *)
TypeOK ==
  /\ turn \in {"Idle", "Running", "Poisoned"}
  /\ machine \in {"Ready", "Taken"}
  /\ inputs \in Seq(1 .. submitted)
  /\ active \in {{}} \cup {{n} : n \in 1 .. submitted}
  /\ pc \in [Threads -> {"idle", "waiting"} \cup Running]
  /\ receipt \in [Threads -> 0 .. submitted]
  /\ outcome \in [Turns -> {"Pending", "Completed", "Poisoned"}]
  /\ submitted \in 0 .. MaxTurns
  /\ started \in Seq(1 .. submitted)
  /\ handled \subseteq 1 .. submitted

(* Run to completion: one thread drains at a time, turns are taken in the  *)
(* order of submission, and each only once every earlier one's handler has *)
(* returned.                                                               *)
RunToCompletion ==
  /\ \A t, u \in Owners : t = u
  /\ Range(started) \ active \subseteq handled \/ turn = "Poisoned"
  /\ turn # "Poisoned" => started \o inputs = [n \in 1 .. submitted |-> n]

(* Receipts tell the truth: a turn is Completed exactly if its handler     *)
(* returned, Poisoned only on a poisoned executor, and Pending only while  *)
(* its owner holds it or it is queued behind a running owner.              *)
ReceiptsHonest ==
  \A n \in 1 .. submitted :
    /\ outcome[n] = "Completed" <=> n \in handled
    /\ outcome[n] = "Poisoned" => turn = "Poisoned"
    /\ outcome[n] = "Pending" <=> n \in active \cup Range(inputs)

(* Ownership and poison: the executor says Running exactly while a thread  *)
(* drains it, the machine is away only inside a turn or lost to poison,    *)
(* and an idle or poisoned executor has nothing queued.                    *)
OwnershipExact ==
  /\ turn = "Running" <=> Owners # {}
  /\ turn # "Running" => inputs = << >> /\ active = {}
  /\ \A t \in Owners :
       /\ active = {} <=> pc[t] = "draining"
       /\ pc[t] \in {"draining", "handling"} => machine = "Ready"
       /\ pc[t] = "stepping" => machine = "Taken"

(* A receipt that has resolved never changes: a completed turn stays       *)
(* completed when a later one poisons the executor.                        *)
ReceiptsFinal ==
  [][\A n \in Turns : outcome[n] # "Pending" => outcome'[n] = outcome[n]]_vars

(* Every accepted input's receipt resolves, so no waiter blocks for ever.  *)
ReceiptsResolve ==
  /\ \A n \in Turns : n <= submitted ~> outcome[n] # "Pending"
  /\ \A t \in Threads : pc[t] = "waiting" ~> pc[t] = "idle"

(* Turns are taken like the outputs of an ordered stream.                  *)
Ordered ==
  INSTANCE OrderedOutputs
    WITH produced <- submitted, begun <- started,
         busy <- \E t \in Threads : pc[t] \in {"stepping", "handling"}

ImplementsOrderedTurns == Ordered!Spec
=============================================================================
