------------------------- MODULE ExclusiveExecutor -------------------------
(***************************************************************************)
(* ExclusiveExecutor (crates/driver/src/lib.rs) running a machine composed *)
(* of Base, Then, Product and Routed (crates/transition/src/machine.rs).   *)
(* A step consumes its machine: composites step their parts in order and   *)
(* are put together again from the successors, so a panic in a later part  *)
(* takes the already advanced earlier ones with it.  The executor gives up *)
(* its seat before the step and takes it again after: what each turn finds *)
(* there is the executor's to get right.  That a composite is rebuilt from *)
(* its parts' successors is not: step takes the parts by value, so nothing *)
(* else is left to rebuild it from.                                        *)
(*                                                                         *)
(* A base machine's state is the inputs it has consumed and its output     *)
(* tells them apart; whether a base transition panics is chosen per turn.  *)
(***************************************************************************)
EXTENDS Naturals, Sequences, SequencesExt

CONSTANTS Machine,     \* the composed machine the executor is made with
          Atoms,       \* inputs of a base machine
          MaxTurns     \* bound on the turns requested

(* The bases of a machine carry different names.                           *)
Base(name)      == [kind |-> "Base", name |-> name, state |-> << >>]
Then(a, b)      == [kind |-> "Then", left |-> a, right |-> b]
Product(a, b)   == [kind |-> "Product", left |-> a, right |-> b]
Routed(a, b)    == [kind |-> "Routed", left |-> a, right |-> b]

RECURSIVE Bases(_), InputType(_)
Bases(m) == IF m.kind = "Base" THEN {m.name} ELSE Bases(m.left) \cup Bases(m.right)

Pair(l, r)      == [left |-> l, right |-> r]
Either(side, x) == [side |-> side, value |-> x]

InputType(m) ==
  CASE m.kind = "Base"    -> Atoms
    [] m.kind = "Then"    -> InputType(m.left)
    [] m.kind = "Product" -> {Pair(l, r) : l \in InputType(m.left), r \in InputType(m.right)}
    [] m.kind = "Routed"  -> {Either("Left", x) : x \in InputType(m.left)}
                               \cup {Either("Right", x) : x \in InputType(m.right)}

VARIABLES seat,       \* the machine, or Poisoned
          owned,      \* whether the executor still exists
          given,      \* inputs in the order of their turns
          accepted,   \* inputs whose turn returned an output
          consumed,   \* inputs lost to a panicking transition
          returned,   \* inputs given back intact
          produced    \* outputs returned

vars == <<seat, owned, given, accepted, consumed, returned, produced>>

Poisoned == [kind |-> "Poisoned"]

-----------------------------------------------------------------------------
(* Machine::step with the base named broken panicking, if it is reached.   *)
Stepped(output, m) == [unwound |-> FALSE, output |-> output, machine |-> m]
Unwound            == [unwound |-> TRUE]

StepBase(m, x, broken) ==
  IF m.name = broken THEN Unwound
  ELSE Stepped([by |-> m.name, after |-> m.state, input |-> x],
               [m EXCEPT !.state = Append(@, x)])

RECURSIVE Step(_, _, _)

StepThen(m, x, broken) ==
  LET first  == Step(m.left, x, broken)
      second == Step(m.right, first.output, broken)
  IN  IF first.unwound \/ second.unwound THEN Unwound
      ELSE Stepped(second.output, Then(first.machine, second.machine))

StepProduct(m, x, broken) ==
  LET l == Step(m.left, x.left, broken)
      r == Step(m.right, x.right, broken)
  IN  IF l.unwound \/ r.unwound THEN Unwound
      ELSE Stepped(Pair(l.output, r.output), Product(l.machine, r.machine))

StepRouted(m, x, broken) ==
  LET part == Step(IF x.side = "Left" THEN m.left ELSE m.right, x.value, broken)
  IN  IF part.unwound THEN Unwound
      ELSE Stepped(Either(x.side, part.output),
                   IF x.side = "Left" THEN Routed(part.machine, m.right)
                                      ELSE Routed(m.left, part.machine))

Step(m, x, broken) ==
  CASE m.kind = "Base"    -> StepBase(m, x, broken)
    [] m.kind = "Then"    -> StepThen(m, x, broken)
    [] m.kind = "Product" -> StepProduct(m, x, broken)
    [] m.kind = "Routed"  -> StepRouted(m, x, broken)

-----------------------------------------------------------------------------
Init ==
  /\ seat = Machine
  /\ owned = TRUE
  /\ given = << >> /\ accepted = << >> /\ consumed = << >> /\ returned = << >>
  /\ produced = << >>

Turn(x) ==
  /\ owned
  /\ Len(given) < MaxTurns
  /\ given' = Append(given, x)
  /\ UNCHANGED owned

\* defect: the successor is not installed
CompletesUnseated(x) ==
  /\ Turn(x)
  /\ seat # Poisoned
  /\ produced' = Append(produced, Step(seat, x, "none").output)
  /\ seat' = Poisoned
  /\ accepted' = Append(accepted, x)
  /\ UNCHANGED <<consumed, returned>>

Completes(x) ==
  /\ Turn(x)
  /\ seat # Poisoned
  /\ LET r == Step(seat, x, "none")
     IN  /\ seat' = r.machine
         /\ produced' = Append(produced, r.output)
  /\ accepted' = Append(accepted, x)
  /\ UNCHANGED <<consumed, returned>>

\* defect: the machine stays in the seat during the step
PanicsSeated(x, broken) ==
  /\ Turn(x)
  /\ seat # Poisoned
  /\ Step(seat, x, broken) = Unwound
  /\ consumed' = Append(consumed, x)
  /\ UNCHANGED <<seat, accepted, returned, produced>>

(* The panic reaches the caller; nothing restores the seat.                *)
Panics(x, broken) ==
  /\ Turn(x)
  /\ seat # Poisoned
  /\ Step(seat, x, broken) = Unwound
  /\ seat' = Poisoned
  /\ consumed' = Append(consumed, x)
  /\ UNCHANGED <<accepted, returned, produced>>

Rejects(x) ==
  /\ Turn(x)
  /\ seat = Poisoned
  /\ returned' = Append(returned, x)
  /\ UNCHANGED <<seat, accepted, consumed, produced>>

(* into_inner consumes the executor, with the machine or without one.      *)
IntoInner ==
  /\ owned
  /\ owned' = FALSE
  /\ UNCHANGED <<seat, given, accepted, consumed, returned, produced>>

Next ==
  \/ \E x \in InputType(Machine) :
       Completes(x) \/ Rejects(x) \/ \E broken \in Bases(Machine) : Panics(x, broken)
  \/ IntoInner

Spec == Init /\ [][Next]_vars

-----------------------------------------------------------------------------
(* What the composition of machines means for whole streams of inputs:     *)
(* each part is run alone on the stream it is meant to receive.            *)
Part(xs, side) == SelectSeq(xs, LAMBDA x : x.side = side)

Values(xs) == [i \in DOMAIN xs |-> xs[i].value]

Merged(xs, ls, rs) ==
  [i \in DOMAIN xs |->
     LET n == Len(Part(SubSeq(xs, 1, i), xs[i].side))
     IN  Either(xs[i].side, IF xs[i].side = "Left" THEN ls[n] ELSE rs[n])]

RECURSIVE Stream(_, _)
Stream(m, xs) ==
  CASE m.kind = "Base" ->
         [i \in DOMAIN xs |-> [by |-> m.name, after |-> SubSeq(xs, 1, i - 1), input |-> xs[i]]]
    [] m.kind = "Then" -> Stream(m.right, Stream(m.left, xs))
    [] m.kind = "Product" ->
         LET ls == Stream(m.left, [i \in DOMAIN xs |-> xs[i].left])
             rs == Stream(m.right, [i \in DOMAIN xs |-> xs[i].right])
         IN  [i \in DOMAIN xs |-> Pair(ls[i], rs[i])]
    [] m.kind = "Routed" ->
         Merged(xs, Stream(m.left, Values(Part(xs, "Left"))),
                    Stream(m.right, Values(Part(xs, "Right"))))

(* The turns of an executor (ExclusiveExecutor::turn) are one run of its   *)
(* machine: their outputs are, in order, those of the parts run alone on   *)
(* the inputs given, each part with its own state, and none is missing     *)
(* unless a transition panicked.  Every turn finds in the seat what the    *)
(* turn before made.                                                       *)
ComposesAsStreams ==
  /\ IsPrefix(produced, Stream(Machine, given))
  /\ consumed = << >> => Len(produced) = Len(given)

(* Every input is accounted for (ExclusiveExecutor::turn): in the order of *)
(* the turns, the inputs were answered up to at most one that a panicking  *)
(* transition consumed, and all after it came back intact - no turn runs   *)
(* on a machine that a panic has torn.                                     *)
InputsAccounted ==
  /\ given = accepted \o consumed \o returned
  /\ Len(consumed) <= 1
=============================================================================
