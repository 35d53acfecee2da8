--------------------------- MODULE OrderedOutputs ---------------------------
(***************************************************************************)
(* What LinearizedExecutor promises of its outputs (crates/driver): the    *)
(* transitions are totally ordered, each output is handed to a handler at  *)
(* most once, in transition order, and never while another is handled.     *)
(* An output is the index of its transition.                               *)
(***************************************************************************)
EXTENDS Naturals, Sequences

VARIABLES produced,  \* transitions so far
          begun,     \* outputs handed to a handler, in the order they were
          busy       \* a handler is running

vars == <<produced, begun, busy>>

Init == produced = 0 /\ begun = << >> /\ busy = FALSE

Produce == produced' = produced + 1 /\ UNCHANGED <<begun, busy>>

Begin ==
  /\ ~busy
  /\ Len(begun) < produced
  /\ begun' = Append(begun, Len(begun) + 1)
  /\ busy' = TRUE
  /\ UNCHANGED produced

End == busy /\ busy' = FALSE /\ UNCHANGED <<produced, begun>>

(* A handler that submits reentrantly produces while it is busy.           *)
Next == Produce \/ Begin \/ End

Spec == Init /\ [][Next]_vars
=============================================================================
