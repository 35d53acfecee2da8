------------------------ MODULE MCExclusiveExecutor ------------------------
(* A small instance of ExclusiveExecutor for TLC: every combinator, nested *)
(* in another one.                                                         *)
EXTENDS ExclusiveExecutor

MCMachine ==
  Routed(Then(Base("a"), Then(Base("b"), Base("c"))),
         Product(Then(Base("d"), Base("e")), Routed(Base("f"), Base("g"))))
=============================================================================
