# A TLA+ development of bombay-entity

`bombay-entity` routes commands to *stable entities*: an entity identity
outlives the actor incarnations that serve it. This directory models the
program's own logic in TLA+, checks it with TLC and proves the central part with
TLAPS. File names below are relative to `crates/`.

## 1. Inventory

| Component | Source | State | Operations | What makes it correct |
|---|---|---|---|---|
| Transition topology | `transition/src/machine.rs`, `lib.rs` | static vertices and edges | `validate`, `Base`/`Then`/`Product`/`Routed` steps | a validated topology has no dangling, duplicate or unreachable part |
| Drivers | `driver/src/lib.rs` | | | |
| – `ExclusiveExecutor` | 21–111 | one seat | `turn`, `into_inner` | outputs are those of the composed machine; a panic loses the machine, later inputs come back |
| – `SerializedExecutor` | 147–367 | input queue, turn state, receipts | `submit`, `drain`, `TurnReceipt::wait` | whole turns in order, honest receipts, poison resolves all |
| – `LinearizedExecutor` | 369–531 | machine, output queue, dispatch flag | `submit`, `evidence`, `dispatch_pending` | outputs in transition order, one dispatcher, none stranded |
| Lifecycle reducer | `entity/src/lifecycle/{mod,inactive,retiring}.rs` | `EntitySlot` | `reduce` on ten facts | commands, leases and fences conserved |
| Lifecycle evidence | `entity/src/lifecycle/machine.rs` | topology | `transition` | phase changes are declared edges |
| `LocalDirectory` | `entity/src/directory.rs` | sharded map of slots, identity sequences | `dispatch`, eight fact submissions, `interpret` | one live incarnation per entity, every effect applied |
| `EntityRuntime` | `entity/src/runtime.rs` | completions with wakers, futures, spawned tasks | `dispatch`, future poll and drop, `passivate` | every caller answered once and woken, every drain ends |
| Behavior protocol | `entity/src/protocol.rs` | none; it wraps an inner behavior | `transition`, `UserEvent::user` | the fence is acknowledged from inside the mailbox order, behind every admitted command |

How they interact: a caller asks the directory to dispatch; the directory finds
or creates the entity's slot under a shard lock, releases it, and submits a
*fact* to the slot's `LinearizedExecutor`, which runs the lifecycle reducer and
queues its effects in one lock section. The call then interprets queued effects,
unless another call already does. Effects spawn tasks (activate, deliver, fence,
retire) which report back as further facts, answer callers through a
`Completion`, or remove the entry. The hard behaviours are the interleavings
between those lock sections, late and stale facts of earlier incarnations,
callers that give up, wakers stored while a result arrives, failed activations,
deliveries and fences, incarnations that stop with commands in their lane, and
panics of the integration that unwind through an executor's ownership guard and
take a batch of effects with them. Nothing is persisted and nothing
crosses a network, so there is no crash recovery and no message loss to model.
The hazards, each at its line, are in `PROJECT.json`.

## 2. Modules

| Module | Models | Role |
|---|---|---|
| `Lifecycle` | `SlotReducer`, `handles`, `transition` | pure operators; no state |
| `LifecycleMachine`, `LifecycleMachineProofs` | one slot receiving arbitrary facts | single reductions and their evidence |
| `EntitySlot`, `EntitySlotProofs` | one entity: slot, tasks, callers' commands | linearized protocol; specification of the directory |
| `EntityMailbox`, proved about in `EntitySlotProofs` | `EntityBehavior` on the lanes of its incarnations | `EntitySlot` composed with what is behind the endpoints; implements it |
| `OrderedOutputs` | | what both queueing executors promise |
| `LinearizedExecutor`, `LinearizedExecutorProofs` | `LinearizedExecutor` | implements `OrderedOutputs` |
| `SerializedExecutor`, `SerializedExecutorProofs` | `SerializedExecutor` | implements `OrderedOutputs` |
| `ExclusiveExecutor` | `ExclusiveExecutor` over `Base`, `Then`, `Product`, `Routed` | one owner, a composed machine, against a reference on streams |
| `Topology`, `TopologyProofs` | `Topology::validate` | a validation step by step, against a reference definition |
| `LifecycleTopology` | `validate_lifecycle_topology` | extends `Topology` |
| `EntityRuntime`, `EntityRuntimeProofs` | `LocalDirectory` and `EntityRuntime` | every lock section is an action |
| `SingleEntityRuntime`, `SingleEntityRuntimeProofs` | | refinement mapping from `EntityRuntime` to `EntitySlot` |
| `NumberedSequences` | | lemmas about queues, shared by the proofs |
| `MC…` | | symmetry sets and bounds for TLC |

### How the models correspond to the code

**Lifecycle.** A slot is a record `phase, id, waiters, reservations`; fields a
Rust variant lacks hold their empty value. A command is represented by its
`DispatchId`, and an endpoint or lease by its `ActivationId`. `ReservationCount`
and `DrainProgress` are both the number `reservations`: zero while `Active` is
`Drained`, zero while `Draining` is `FenceAcknowledgement`. Each `decide_*` or
helper function is an operator of the same name. `BeginDrainEarlyFence` and the
other operators marked `\* defect:` are not part of any specification. They are
plausible mistakes, substituted for the operator they follow to show that a
property can fail.

**EntitySlot.** Every fact is one step. Tasks are the effects being carried out;
what they report is nondeterministic. It is deliberately more permissive than
the runtime facade: an attempt may fail and still succeed late, anyone may force,
cancel or passivate any activation ever issued. The public `LocalDirectory` interface allows all of that.
`accepted`, `returned`, `cancelled`, `granted`, `failed`, `acked` and
`retired` record history for the properties.

**LinearizedExecutor.** `lock` is the mutex with its poison flag, `outputs` the
queue, `dispatch` the flag. A thread is idle, has submitted, owns dispatch,
handles an output, or unwinds. Handlers may submit and dispatch again from
inside. A panicking transition poisons the mutex; a panicking handler runs the
ownership guard's `drop`.

**SerializedExecutor.** A turn is the index of its input; `outcome` is what its
receipt says. `Panic` covers `machine.step` and the handler. A nested
submission is not waited for, as the documentation of `TurnReceipt` demands.

**ExclusiveExecutor.** A machine is a tree of combinators whose leaves are named
bases. `Step` follows `Machine::step`: a composite steps its parts in order and is
rebuilt from their successors, and the panic of a base, chosen in each turn,
unwinds through every composite above it. `turn` empties the seat, steps, and
takes the seat again, so a panic leaves it `Poisoned`. A base's state is what it
has consumed and its output shows that state, so a machine that missed or repeated a
step could not hide it. The wiring of the composites is forced by their types: `step`
takes the parts by value, so nothing but the successors is left to rebuild a
composite from. What could be wrong is the executor's handling of its seat, and
`ComposesAsStreams` and `InputsAccounted` are about that: the turns are one run of the
machine, and a panic ends it.

**EntityMailbox.** `EntitySlot` takes every answer of the actor runtime as
possible; here the answers come from incarnations. `Enqueue` moves a command into
the incarnation's bounded lane and `EnqueueResolves` reports it later;
`GivesBack` reports a command that never entered. A drain fence is a message of
the same lane. `Transition` is `EntityBehavior::transition`: an inner event goes
to the inner behavior, a fence is answered and leaves it as it is. `TransitionStops`
and `Stops` end an incarnation from inside or outside, and what waits in its lane
ends with it; nothing tells the slot. `Retires` is the retirement's request to
stop and `Terminates` its report. `Elsewhere` lists what only concerns the slot. The lanes are the actor
runtime's and external; that a user lane keeps its order is the premise
`docs/architecture.mdx` states.

**EntityRuntime.** A directory call is at `find` (before the shard lock), `submit`
(has its slot, before the executor's lock), `interpret` (before acquiring dispatch)
or `own`. Between two of these any other call may run. Shard locks are held for
one action each, so sharding and hashing do not show; the map is one function.
A slot allocation is named by the activation it was created for, since only
`dispatch` on an absent entry claims, on a new slot. `outputs[s]` is the queue of
the slot's executor, one batch of effects per output that has any. Only the owner
takes from it, so the batch it holds is left at the head of the queue, without the
effects already applied. A fact for an absent entry is reduced on a transient
`Inactive` slot. A future is *polled* when it was called or woken and has to be
polled, *parked* when its waker is stored in the `Completion`; `Wake` is part of
every action that fills a completion. `InterpreterPanics` is an integration that panics
instead of spawning the task of an effect, or in the waker of the caller it has
just answered: the rest of the batch is dropped (`lost`), the ownership guard gives the slot's
outputs up (`abandoned`, until the next call acquires them), and a dispatch that was
interpreting unwinds. `DispatchExhausted` is a dispatch that finds no activation identity left.

**SingleEntityRuntime.** With one entity, `EntityRuntime` implements `EntitySlot`.
That holds while the integration does not panic: a panicking interpreter loses
tasks the slot counts on. The abstract slot is the mapped one; an effect counts as an abstract task from the
reduction that emitted it to the submission of its report; a failed attempt stays
outstanding. Facts that reach an already removed slot become stutters or
`DispatchRemoved`. `SingleEntity` says that there is one entity; `DistinctAgents`, that callers,
passivators and tasks are different things, since a call is known by its agent.

**Topology.** One behaviour is one call of `validate`. Each loop that looks for
a first defect is a step; the closure takes a step per edge, with `reachable` as the
set of marked identities. Labels are left out; `contains` in
`validate_lifecycle_topology` compares them too, so a declaration that renames a
label misses the edge, which no input of the model does. The check for reopened
admission looks at single edges; that this rules out longer paths is
`ReopensOnlyThroughInactive`, and it holds for declarations with the five phases only:
a further vertex between `Draining` and `Active` would pass.

## 3. Runs

| Run | Instance | Checks |
|---|---|---|
| `lifecycle` | 2 activations, 2 dispatches, 2 waiters, 3 reservations | single reductions: honest evidence, conservation of commands, leases and fences |
| `entity_slot` | 4 dispatches, 3 activations, 2 waiters | eight safety and action properties of the slot protocol |
| `mailbox` | 3 dispatches, 2 activations, 1 waiter, lanes of 2 | the fence certifies, nothing refused runs; commands settle and run, drains complete |
| `linearized` | 4 threads, 5 outputs | exclusivity, no lost handoff, refinement, outputs handled |
| `serialized` | 3 threads, 5 turns | run to completion, honest and final receipts, refinement, receipts resolve |
| `exclusive` | 7 bases nested in every combinator, 2 inputs per base, 4 turns | turns are one run of the composed machine, every input accounted for |
| `runtime` | 1 entity, 2 dispatches, 2 activations, 1 passivation, 1 panic | end-to-end custody, single incarnation, nothing stranded or wedged |
| `runtime_live` | 1 activation, 2 waiters, one patient caller, the other may give up, no panic | callers answered, entries reclaimed |
| `runtime_refines_slot` | as `runtime` without panics, at most 3 calls at once | refinement of `EntitySlot` |
| `topology` | at most 3 vertices and 3 edges, 2 triggers | accepts exactly the well-formed, names the first defect |
| `lifecycle_topology` | the declaration with an edge left out and one added | admission not reopened, no final phase |
| `passivation_report` | 2 passivations | the divergence in section 6 |

Bounds. Three vertices and three edges give every order of a path's edges, branches,
cycles, and each defect alone and combined. The slot has three activations, so a stale fact can be one or two
incarnations old, and more dispatches than waiters. In the mailbox, two commands
fill a lane, so a third delivery or the fence meets a full one, and the second activation lets a command
survive the first incarnation. The composed machine has each combinator inside
each other kind's reach, and four turns let a routed part be skipped, stepped twice
and panic, and an input follow the panic. In the runtime, two
activations are the least with a *previous* and a *current*
incarnation, which every stale-fact hazard needs; two dispatches the least with
one command delivered and one waiting or refused; a waiter limit of one makes
the second caller `Busy`. One panic (`MaxPanics`, in `runtime` only) is enough for a
lost batch, an abandoned slot and a call that resumes it. `runtime_live` has one
activation, whose identity a second dispatch may find used up, and two waiters, so that a
waiter is cancelled beside another one. Four threads let one own dispatch, one hand over, one
arrive at release and one panic. Each dispatch and passivation is made once, so
the behaviours of the runtime are finite. `FewCalls` limits the calls in
progress at once to three; tasks are not limited. `OnePatient` cuts the liveness run
where one chosen caller drops its future; the other caller may drop at any time. No
fairness condition demands a drop, so the behaviours in which that caller is patient
are explored to their end, and as callers are interchangeable it stands for either.
That leaves out the behaviours in which every caller gives up, and those with a second
activation: that `EntriesReclaimed` survives these, stale facts of an earlier
activation included, rests on `NothingWedgedAtRest`, which `runtime` checks and
`EntityRuntimeProofs` proves. The runs of the runtime serve one entity; entities meet
only in the map and in the identity sequence, and the theorems of
`EntityRuntimeProofs` hold for every number of them. Deadlock checking is off where the instance
really stops: identities, turns or outputs are used up, and nobody is obliged to
dispatch again.

Fairness. `LocalEntityRuntime::spawn` (runtime.rs:58–65) requires spawned
tasks to be driven to completion, hence weak fairness of every task's report.
Directory calls are synchronous code, hence weak fairness of their next step.
`Poll` is weakly fair and enabled only for a future that was called or woken: a
completion that forgot its waker would leave its caller parked for ever. In the
mailbox, event loops take from their lanes; a delivery enters or returns; a fence
that was answered, or can no longer be because its incarnation is gone, is reported; a retirement stops its
incarnation and reports it. In the executors,
an owner continues with its turn, a handler returns or panics, and unwinding
finishes. Callers, passivators, late successes, stops of an incarnation and panics
have no fairness.

## 4. Proofs

`EntitySlotProofs` proves, for every set of dispatches and every value of
`MaxActivation` and `WaiterLimit` allowed by the assumptions
(`MaxActivation \in Nat`, `WaiterLimit \in Nat \ {0}`), the
invariants `TypeOK`, `CommandCustody`, `LeaseCustody`, `ReservationsExact`,
`FenceIsLast` and `WaitersServed` and the action properties
`AdmissionNeverReopens` and `ExactDeparture`. None of these is inductive alone:
that the reservation count is exact needs that a delivery's command is nowhere
else; that the fence is last needs the count; that a lease is in one place needs
that an activation still attempting has not produced one. The inductive
invariant is their conjunction with `ActivationHistory`, which ties each
activation's past to the slot's phase. The proof takes one action at a time,
and under it the phase of the slot.

`EntitySlotProofs` also proves, for every lane capacity (`LaneCapacity \in Nat \ {0}`), that
each step of `EntityMailbox` is a step of `EntitySlot` or leaves it unchanged
(`MailboxImplementsSlot`), so the invariants above hold with real incarnations, and on
top of them `FenceCertifies` and `RefusedNeverRun`. The
strengthening relates the lanes to the slot. `LaneOrder`: a lane that is not running is
empty, a fence is its lane's last event, and behind a fence nothing is being delivered
or admitted. `LaneContents`: what entered a running incarnation is handled or still
waits in its lane, and an answered fence means that all that entered is handled.
`LaneCustody`: a command that entered a lane is being delivered or was accepted, and
entered no other lane.

`LifecycleMachineProofs` proves `EvidenceHonest` and `ReductionConserves`. Every reduction either traverses
a declared edge, loops on a fact `handles` accepts, or cleans up, that is, leaves
the slot alone and gives back only what the fact brought. The proof is this classification, one lemma per
phase; the inductive invariant only says that the phase is one of the five and an
`Inactive` slot is empty. Conservation counts what a slot was entrusted with before and
after: how often each command is held by waiters, delivered, rejected or withdrawn, how many
leases are retired, and how many fences are sent (`Count`, `Returned`, `Retired`, `FencesIn`).
The count is a cardinality of positions, so that it can be reasoned about where a fold over a
sequence cannot; the slot it starts from must be `Well`: no command waits twice, and the fields its phase does not
use are empty.

`EntityRuntimeProofs` proves every invariant the run `runtime` checks, for every number
of entities, callers, passivations, activations and panics. Its inductive invariant grows
in layers, each proved with those before it.

- `IInv` gives `TypeOK` and `OneLiveIncarnation`: that a live slot is the mapped one needs that an
  entry's removal is queued only after its slot became `Inactive` (`RemovesAreLate`), and
  that nothing happened in slots not yet issued. `NoEffectStranded` is inductive with it.
- `WInv` gives `DroppedCallersLeave`: a waiter is bound to the activation it waits for, a
  dispatch being submitted is its caller's only one, and a cancellation is sent to the
  very slot its waiter sits in, which is mapped because it is live.
- `HandInv` gives `CommandInOneHand`. `At` names the places a command can be: the waiters of a
  slot, a queue, a call, a task, a settled completion. `Hand` says that it is in at most one of
  them, in none before its dispatch and after it was lost, and otherwise in one, unless its
  caller dropped the future. The count in the property is finer, since a command could
  sit twice in the waiters or the queue of one slot: that it does not is `WaiterSeats` and
  `QueuedOnce`. The step is a lemma per phase on what a reduction does with the waiters and
  the command of the fact (`PassesOn`), then one per action.
- `RestInv` gives `NothingWedgedAtRest`. A slot's errands are the tasks it starts; one is
  `Underway` while its effect is queued, its task runs or a call carries what it reported. `Calm`:
  until the first panic, an `Activating` slot has its start underway, an `Active` or `Draining` one
  as many deliveries as reservations, a `Draining` one without reservations its fence, a `Retiring`
  one its retirement, and an `Inactive` one that is still mapped its removal queued. A report
  must reach the slot that waits for it (`Routed`, `Homes`, with `OneLiveIncarnation`), and a
  dispatch that adds a delivery must not be counted already, which is where `HandInv` and
  `Answered` enter. `Issuing`: no fact or errand names an activation that is not yet issued.
  With no call and no task left nothing is underway, so no phase but an idle `Active` remains; and a
  waiting caller's command, being in one hand, can only be settled.

`LinearizedExecutorProofs` proves type correctness, order, exclusivity, absence of
a lost handoff and the refinement of `OrderedOutputs`, for every set of threads
and every `MaxOutputs \in Nat`. The conjunction of its checked invariants is
inductive.

`SerializedExecutorProofs` proves every safety property of `SerializedExecutor`
and its refinement of `OrderedOutputs`, for every set of threads and every
`MaxTurns \in Nat`. The checked invariants are strengthened by three facts: receipts not
handed out are pending, an idle executor has its machine, and the turn its
owner holds is the last one taken. The last one gives that a held turn is not also
queued, on which completing or poisoning exactly the right receipts depends.
Both rest on `NumberedSequences`: appending the next number, or moving the head
across, keeps a split stream numbered.

`TopologyProofs` proves that `validate` accepts a declaration exactly if it is
well formed, for every set of identities and declarations of any size. Soundness
needs that only vertices on a path are marked. Completeness needs a progress
measure: at round *r* the closure is complete, or has *r* + 1 vertices, or has *r*
and follows the edges visited in this round. Since marked vertices are declared,
there are too few of them for the last two after the last round. `Blame` adds
that everything declared before what a rejection names is in order. `LifecycleGoesOn` and
`LifecycleStaysClosed` do the same for `validate_lifecycle_topology`, for declarations of any size: if it accepts one,
every phase leads on to every other, and if that one has no phases of its own, no path of any
length leads from a closed phase back into admission except through `Inactive`, although the
code looks at single edges. Beside the validation's invariant they need what acceptance says
of the declaration (`LIInv`).

`SingleEntityRuntimeProofs` proves that the directory serving one entity implements
`EntitySlot`, for every set of callers and passivators, every number of activations and every
waiter limit, under `SingleEntity` and `DistinctAgents`. `StepsLikeTheSlotHolds`: every step in
which no integration panics is one step of the slot or leaves it alone, in any behaviour, so
also after a panic. `ImplementsSlotUnlessPanicking` and, for `MaxPanics = 0`,
`ImplementsEntitySlotHolds` follow. The condition is needed: a panic drops effects that
the slot has started, and `EntitySlot` has no step for that. The argument has four parts.

- *Where the work is.* The mapping counts an effect as a task until its report is submitted.
  `WorkInv` says that this work is in one place, a queue, a task or a call (`Singly`), and that
  while it is, the slot is in the phase that waits for it (`Due`): an attempt goes on
  only in an `Activating` slot, a retirement in a `Retiring` one, a fence in a `Draining` one
  without reservations. Without it a report could be a step that
  `EntitySlot` does not enable, or end a task that goes on elsewhere. It is proved on top of the
  invariants of `EntityRuntimeProofs`, with the calls each step adds (`CallsInv`) and that the
  entry is the last slot issued (`Lone`). `ReduceCourse` gives what a reduction starts, phase by
  phase, when the fact comes in time (`Timely`), and `SubmittedInTime` that every fact does.
  `WorkInOnePlace` is this part by itself.
- *What the slot sees.* The mapped variables are characterized by who holds what:
  `TasksAre`, `AcceptedAre`, `ReturnedAre`, `InFlightAre` and `CancelledAre`. The last one
  says that the commands that are nowhere are those withdrawn by a cancellation, which needs
  the custody of `HandInv`.
- *Steps that only move work.* Lookups, reports, the application of an effect and the steps of
  callers leave every mapped variable alone (`Steady`), with two exceptions: a delivery whose activation
  is gone ends with the lookup, and a dispatch that finds no entry is `Claim`.
- *Submissions.* For one call `c` that submits the fact `e` to the slot `s`, the lemmas named
  `Submitted…` say what becomes of each variable of `EntitySlot`, for every fact, and a lemma for each kind
  of fact picks the step. A slot whose entry is gone is `Inactive` for good, which
  makes a fact that reaches it a stutter, a `DispatchRemoved`, or the end of a late delivery.

`SlotInvariantsCarryOver` and `SlotStepsCarryOver` instantiate `EntitySlotProofs` with the
mapping (`SlotFacts`): in behaviours without a panic the custody of commands and of leases, the
exact reservations, the order of the fence, the service of waiters, closed admission and exact
departure, all proved of the linearized slot, are facts about the interleaved directory. The lanes of
`EntityMailbox`, which `EntitySlotProofs` covers too, are given constant values there.
One entity is enough for this statement because an activation belongs to one entity; with
several entities each would have a slot of its own, and the mapping would select its
calls and tasks. That is not done; what several entities share is covered by the
theorems of `EntityRuntimeProofs`.

Model-checked only are `ExclusiveExecutor`, whose machines are recursive trees, so that
`ComposesAsStreams` and `InputsAccounted` are induction over data; and all liveness properties
(`CallersAnswered`, `EntriesReclaimed`, `CommandsSettle`, `CommandsRun`, `DrainCompletes`, `OutputsHandled`,
`ReceiptsResolve`), which need `ENABLED`. `AlreadyPassivatingExact` is refuted by
TLC (section 6).

## 5. Not modelled

The actor runtime behind `LocalEntityRuntime` (only its contract is used); the
values of commands and errors; the order of `Refusal` reasons in documentation;
hashing, shard counts and their validation; `len` and `is_empty`; the describing
and Mermaid rendering of topologies; the getters of `ExclusiveExecutor`;
`into_user`; benches, release files and CI. The exhaustion of dispatch identities is left
out: `allocate` is the function that issues activation identities, whose exhaustion is modelled.
The memory ordering of `allocate` is relied on only for uniqueness, as its comment argues.

Of the panics, those of an integration are modelled where an interpreter meets
them. A waker that panics inside a delivery task, after its completion, is not: it
breaks the contract that spawned tasks run to completion. A command that is lost with a
panicking batch leaves its caller waiting, since neither `PendingCommand` nor
`Completion` answers when dropped; the liveness run assumes no panic. That a turn handler must not wait for a receipt of its
own executor is a rule for callers, which the model obeys.

## 6. A divergence from the documentation

`passivate` reads the entity's activation, then submits `BeginDrain` for it, and
answers from the phase of the slot the fact reached. If the activation it read
has gone and a later one is draining, it answers `AlreadyPassivating`, which
`runtime.rs:40` documents as "A passivation was already in progress for the
exact incarnation". The run `passivation_report` shows the interleaving. The
fact itself is ignored, so only the answer is wrong; comparing the output's
activation with the one read would give `Superseded`.

## 7. Plan

1. *(done)* `Lifecycle`, `LifecycleMachine`, `EntitySlot` and its proofs.
2. *(done)* `OrderedOutputs`, `LinearizedExecutor` and `SerializedExecutor`, both
   with proofs.
3. *(done)* `EntityRuntime`, `SingleEntityRuntime`.
4. *(done)* `Topology` with proofs, `LifecycleTopology`.
5. *(done)* `EntityMailbox` with proofs: the behavior protocol composed with `EntitySlot`.
6. *(done)* Panics of the integration, wakers and exhausted identities in `EntityRuntime`.
7. *(done)* `ExclusiveExecutor` over composed machines.
8. *(done)* Theorems about `EntityRuntime`, `EntityMailbox`, `LifecycleMachine` and the
   blame of `Topology`.
9. *(done)* `ReductionConserves`, the lifecycle declaration, `CommandInOneHand` and
   `NothingWedgedAtRest` as theorems.
10. *(done)* The refinement of `EntitySlot` by `EntityRuntime` as a theorem, and with it the
    theorems about the slot as theorems about the directory.
11. *(open)* The same refinement with several entities, one mapped slot each.
