---------------------- MODULE SerializedExecutorProofs ----------------------
(***************************************************************************)
(* Proofs about SerializedExecutor for every set of threads and every      *)
(* number of turns: what its inductive invariant is, and that it           *)
(* implements OrderedOutputs.                                              *)
(***************************************************************************)
EXTENDS SerializedExecutor, NumberedSequences, TLAPS

(* What the checked invariants leave open: receipts not handed out yet are *)
(* pending, an idle executor has its machine, and while the executor is    *)
(* not poisoned the owner's turn is the last one taken.                    *)
Untouched == \A n \in Turns : n > submitted => outcome[n] = "Pending"

Seated == turn = "Idle" => machine = "Ready"

ActiveIsLast ==
  turn # "Poisoned" /\ active # {} =>
    started # << >> /\ active = {started[Len(started)]}

IInv ==
  /\ TypeOK
  /\ RunToCompletion
  /\ ReceiptsHonest
  /\ OwnershipExact
  /\ Untouched
  /\ Seated
  /\ ActiveIsLast

-----------------------------------------------------------------------------
LEMMA InitIInv == Init => IInv
<1> SUFFICES ASSUME Init PROVE IInv
  OBVIOUS
<1>1. TypeOK
  <2>1. << >> \in Seq(1 .. submitted)
    BY EmptySeq
  <2>2. inputs \in Seq(1 .. submitted) /\ started \in Seq(1 .. submitted)
    BY <2>1 DEF Init
  <2>3. submitted \in 0 .. MaxTurns
    BY MaxTurnsAssumption DEF Init
  <2> QED BY <2>2, <2>3 DEF Init, TypeOK
<1>2. RunToCompletion
  <2>1. started \o inputs = [n \in 1 .. submitted |-> n]
    BY DEF Init
  <2>2. Range(started) = {}
    BY DEF Init, Range
  <2> QED BY <2>1, <2>2 DEF Init, RunToCompletion, Owners, Running
<1>3. ReceiptsHonest
  BY DEF Init, ReceiptsHonest
<1>4. OwnershipExact
  BY DEF Init, OwnershipExact, Owners, Running
<1>5. Untouched /\ Seated /\ ActiveIsLast
  BY DEF Init, Untouched, Seated, ActiveIsLast
<1> QED BY <1>1, <1>2, <1>3, <1>4, <1>5 DEF IInv

LEMMA TypeNext == TypeOK /\ [Next]_vars => TypeOK'
<1> SUFFICES ASSUME TypeOK, [Next]_vars PROVE TypeOK'
  OBVIOUS
<1> USE DEF TypeOK, Goto, Running
<1>1. ASSUME Enqueue, UNCHANGED started PROVE
        /\ submitted' = submitted + 1 /\ submitted' \in 0 .. MaxTurns
        /\ inputs' \in Seq(1 .. submitted') /\ started' \in Seq(1 .. submitted')
        /\ 1 .. submitted \subseteq 1 .. submitted'
  <2>1. submitted' = submitted + 1 /\ submitted' \in 0 .. MaxTurns
    BY <1>1, MaxTurnsAssumption DEF Enqueue
  <2>2. 1 .. submitted \subseteq 1 .. submitted' /\ submitted + 1 \in 1 .. submitted'
    BY <2>1
  <2>3. inputs \in Seq(1 .. submitted') /\ started \in Seq(1 .. submitted')
    BY <2>2, SeqMonotonic
  <2>4. inputs' = Append(inputs, submitted + 1)
    BY <1>1 DEF Enqueue
  <2> QED BY <1>1, <2>1, <2>2, <2>3, <2>4
<1>2. ASSUME NEW t \in Threads, Submit(t) PROVE TypeOK'
  <2>1. Enqueue /\ UNCHANGED started
    BY <1>2 DEF Submit
  <2>2. receipt' \in [Threads -> 0 .. submitted']
    BY <1>1, <1>2, <2>1 DEF Submit
  <2>3. pc' \in [Threads -> {"idle", "waiting"} \cup Running]
    BY <1>2 DEF Submit
  <2>4. turn' = "Running" /\ UNCHANGED <<machine, active, outcome, handled>>
    BY <1>2 DEF Submit
  <2>5. active' \in {{}} \cup {{n} : n \in 1 .. submitted'} /\ handled' \subseteq 1 .. submitted'
    BY <1>1, <2>1, <2>4
  <2> QED BY <1>1, <2>1, <2>2, <2>3, <2>4, <2>5
<1>3. ASSUME NEW t \in Threads, NestedSubmit(t) PROVE TypeOK'
  <2>1. Enqueue /\ UNCHANGED started
    BY <1>3 DEF NestedSubmit
  <2>2. UNCHANGED <<turn, machine, active, pc, receipt, outcome, handled>>
    BY <1>3 DEF NestedSubmit
  <2>3. active' \in {{}} \cup {{n} : n \in 1 .. submitted'} /\ handled' \subseteq 1 .. submitted'
    BY <1>1, <2>1, <2>2
  <2>4. receipt' \in [Threads -> 0 .. submitted']
    BY <1>1, <2>1, <2>2
  <2> QED BY <1>1, <2>1, <2>2, <2>3, <2>4
<1>4. ASSUME NEW t \in Threads, TakeTurn(t) PROVE TypeOK'
  <2>1. Head(inputs) \in 1 .. submitted /\ Tail(inputs) \in Seq(1 .. submitted)
    BY <1>4 DEF TakeTurn
  <2>2. Append(started, Head(inputs)) \in Seq(1 .. submitted)
    BY <2>1
  <2> QED BY <1>4, <2>1, <2>2 DEF TakeTurn
<1>5. ASSUME NEW t \in Threads, Drop(t) PROVE TypeOK'
  <2>1. << >> \in Seq(1 .. submitted)
    BY EmptySeq
  <2>2. inputs' \in Seq(1 .. submitted')
    BY <1>5, <2>1 DEF Drop
  <2> QED BY <1>5, <2>2 DEF Drop
<1>6. ASSUME NEW t \in Threads, Complete(t) PROVE TypeOK'
  <2>1. active \subseteq 1 .. submitted
    OBVIOUS
  <2> QED BY <1>6, <2>1 DEF Complete
<1>7. ASSUME NEW t \in Threads, WaitReturns(t) \/ Exhausted(t) PROVE TypeOK'
  BY <1>7 DEF WaitReturns, Exhausted
<1>8. ASSUME NEW t \in Threads, Install(t) \/ Panic(t) PROVE TypeOK'
  BY <1>8 DEF Install, Panic
<1>9. CASE UNCHANGED vars
  BY <1>9 DEF vars
<1> QED
  BY <1>2, <1>3, <1>4, <1>5, <1>6, <1>7, <1>8, <1>9 DEF Next

-----------------------------------------------------------------------------
(* Facts about the queue and the turns taken.                              *)

LEMMA RangeAppend ==
  ASSUME NEW S, NEW q \in Seq(S), NEW e \in S
  PROVE  Range(Append(q, e)) = Range(q) \cup {e}
<1>1. /\ DOMAIN Append(q, e) = DOMAIN q \cup {Len(q) + 1}
      /\ Append(q, e)[Len(q) + 1] = e
      /\ \A i \in DOMAIN q : Append(q, e)[i] = q[i]
  OBVIOUS
<1>2. Range(Append(q, e)) \subseteq Range(q) \cup {e}
  BY <1>1 DEF Range
<1>3. Range(q) \cup {e} \subseteq Range(Append(q, e))
  BY <1>1 DEF Range
<1> QED BY <1>2, <1>3

LEMMA RangeTake ==
  ASSUME NEW S, NEW q \in Seq(S), q # << >>
  PROVE  Range(q) = {Head(q)} \cup Range(Tail(q))
<1>1. q = << Head(q) >> \o Tail(q) /\ Head(q) \in S /\ Tail(q) \in Seq(S)
  OBVIOUS
<1>2. \A i \in DOMAIN Tail(q) : i + 1 \in DOMAIN q /\ Tail(q)[i] = q[i + 1]
  OBVIOUS
<1>3. \A i \in DOMAIN q : i # 1 => i - 1 \in DOMAIN Tail(q) /\ Tail(q)[i - 1] = q[i]
  OBVIOUS
<1>4. 1 \in DOMAIN q /\ q[1] = Head(q)
  OBVIOUS
<1>5. ASSUME NEW x \in Range(q) PROVE x \in {Head(q)} \cup Range(Tail(q))
  <2>1. PICK i \in DOMAIN q : x = q[i]
    BY <1>5 DEF Range
  <2>2. CASE i = 1
    BY <1>4, <2>1, <2>2
  <2>3. CASE i # 1
    BY <1>3, <2>1, <2>3 DEF Range
  <2> QED BY <2>2, <2>3
<1>6. {Head(q)} \cup Range(Tail(q)) \subseteq Range(q)
  BY <1>2, <1>4 DEF Range
<1> QED BY <1>5, <1>6

(* No turn is both taken and queued.                                       *)
LEMMA NumberedApart ==
  ASSUME NEW n \in Nat, NEW b \in Seq(Nat), NEW q \in Seq(Nat), b \o q = Numbered(n)
  PROVE  \A i \in DOMAIN b : b[i] \notin Range(q)
<1>1. SUFFICES ASSUME NEW i \in DOMAIN b, NEW j \in DOMAIN q, b[i] = q[j] PROVE FALSE
  BY DEF Range
<1>2. i \in 1 .. Len(b) /\ j \in 1 .. Len(q) /\ Len(b) \in Nat /\ Len(q) \in Nat
  BY <1>1
<1>3. (b \o q)[i] = b[i] /\ (b \o q)[Len(b) + j] = q[j] /\ Len(b \o q) = Len(b) + Len(q)
  BY <1>2
<1>4. Len(b) + Len(q) = n
  BY <1>3, NumberedSeq
<1>5. Numbered(n)[i] = i /\ Numbered(n)[Len(b) + j] = Len(b) + j
  BY <1>2, <1>4 DEF Numbered
<1> QED BY <1>1, <1>2, <1>3, <1>5

LEMMA TypedTurns ==
  ASSUME TypeOK
  PROVE  /\ inputs \in Seq(Nat) /\ started \in Seq(Nat) /\ submitted \in Nat
         /\ Range(inputs) \subseteq 1 .. submitted
         /\ Range(started) \subseteq 1 .. submitted
         /\ active \subseteq 1 .. submitted
<1>1. 1 .. submitted \subseteq Nat /\ submitted \in Nat
  BY MaxTurnsAssumption DEF TypeOK
<1>2. inputs \in Seq(Nat) /\ started \in Seq(Nat)
  BY <1>1, SeqMonotonic DEF TypeOK
<1>3. Range(inputs) \subseteq 1 .. submitted /\ Range(started) \subseteq 1 .. submitted
  BY DEF TypeOK, Range
<1> QED BY <1>1, <1>2, <1>3 DEF TypeOK

-----------------------------------------------------------------------------
LEMMA OwnersMove ==
  ASSUME TypeOK, NEW t \in Threads, NEW where, Goto(t, where)
  PROVE  Owners' = IF where \in Running THEN Owners \cup {t} ELSE Owners \ {t}
BY DEF TypeOK, Goto, Owners, Running

(* While a thread owns the drain, it is the only one and the executor runs. *)
LEMMA OwnerFacts ==
  ASSUME IInv, NEW t \in Threads, pc[t] \in Running
  PROVE  /\ Owners = {t} /\ turn = "Running"
         /\ active = {} <=> pc[t] = "draining"
         /\ pc[t] \in {"draining", "handling"} => machine = "Ready"
         /\ pc[t] = "stepping" => machine = "Taken"
         /\ started \o inputs = Numbered(submitted)
         /\ Range(started) \ active \subseteq handled
<1>1. t \in Owners
  BY DEF Owners
<1>2. Owners = {t}
  BY <1>1 DEF IInv, RunToCompletion
<1>3. turn = "Running"
  BY <1>1 DEF IInv, OwnershipExact
<1>4. started \o inputs = Numbered(submitted) /\ Range(started) \ active \subseteq handled
  BY <1>3 DEF IInv, RunToCompletion, Numbered
<1> QED BY <1>1, <1>2, <1>3, <1>4 DEF IInv, OwnershipExact

LEMMA NextRun == IInv /\ [Next]_vars => RunToCompletion'
<1> SUFFICES ASSUME IInv, [Next]_vars PROVE RunToCompletion'
  OBVIOUS
<1>t. TypeOK
  BY DEF IInv
<1>0. \A t, u \in Owners : t = u
  BY DEF IInv, RunToCompletion
<1>1. ASSUME Enqueue, UNCHANGED <<started, active, handled>>
      PROVE  /\ Range(started') \ active' \subseteq handled'
             /\ started' \o inputs' = Numbered(submitted')
  <2>1. turn # "Poisoned" /\ submitted' = submitted + 1
        /\ inputs' = Append(inputs, submitted + 1)
    BY <1>1 DEF Enqueue
  <2>2. started \o inputs = Numbered(submitted) /\ Range(started) \ active \subseteq handled
    BY <2>1 DEF IInv, RunToCompletion, Numbered
  <2>3. started \o Append(inputs, submitted + 1) = Numbered(submitted + 1)
    BY <1>t, <2>2, TypedTurns, AppendNumbered
  <2> QED BY <1>1, <2>1, <2>2, <2>3
<1>2. ASSUME NEW t \in Threads, Submit(t) PROVE RunToCompletion'
  <2>1. Enqueue /\ UNCHANGED <<started, active, handled>>
    BY <1>2 DEF Submit
  <2>2. \A u, v \in Owners' : u = v
    <3>1. CASE turn = "Idle"
      <4>1. Owners = {} /\ Owners' = {t}
        BY <1>2, <1>t, <3>1, OwnersMove
        DEF Submit, IInv, OwnershipExact, Running
      <4> QED BY <4>1
    <3>2. CASE turn # "Idle"
      <4>1. Owners' \subseteq Owners
        BY <1>2, <1>t, <3>2, OwnersMove DEF Submit, Running
      <4> QED BY <1>0, <4>1
    <3> QED BY <3>1, <3>2
  <2> QED BY <1>1, <2>1, <2>2 DEF RunToCompletion, Numbered
<1>3. ASSUME NEW t \in Threads, NestedSubmit(t) PROVE RunToCompletion'
  <2>1. Enqueue /\ UNCHANGED <<started, active, handled, pc>>
    BY <1>3 DEF NestedSubmit
  <2> QED BY <1>0, <1>1, <2>1 DEF RunToCompletion, Numbered, Owners
<1>4. ASSUME NEW t \in Threads, TakeTurn(t) PROVE RunToCompletion'
  <2>1. /\ pc[t] = "draining" /\ inputs # << >>
        /\ inputs' = Tail(inputs) /\ active' = {Head(inputs)}
        /\ started' = Append(started, Head(inputs))
        /\ UNCHANGED <<turn, submitted, handled>> /\ Goto(t, "stepping")
    BY <1>4 DEF TakeTurn
  <2>2. pc[t] \in Running
    BY <2>1 DEF Running
  <2>3. Owners' = {t}
    BY <1>t, <2>1, <2>2, OwnersMove, OwnerFacts DEF Running
  <2>4. started' \o inputs' = Numbered(submitted')
    BY <1>t, <2>1, <2>2, OwnerFacts, TakeNumbered, TypedTurns
  <2>5. Range(started') = Range(started) \cup {Head(inputs)}
    <3>1. Head(inputs) \in 1 .. submitted
      BY <1>t, <2>1 DEF TypeOK
    <3> QED BY <1>t, <2>1, <3>1, RangeAppend DEF TypeOK
  <2>6. Range(started) \subseteq handled
    BY <2>1, <2>2, OwnerFacts
  <2> QED BY <2>1, <2>3, <2>4, <2>5, <2>6 DEF RunToCompletion, Numbered
<1>5. ASSUME NEW t \in Threads, NEW where, Goto(t, where), pc[t] \in Running
      PROVE  \A u, v \in Owners' : u = v
  <2>1. Owners' \subseteq {t}
    BY <1>5, <1>t, OwnersMove, OwnerFacts
  <2> QED BY <2>1
<1>6. ASSUME NEW t \in Threads, Complete(t) PROVE RunToCompletion'
  <2>1. pc[t] \in Running /\ Goto(t, "draining")
        /\ handled' = handled \cup active /\ UNCHANGED <<turn, started, inputs, submitted>>
    BY <1>6 DEF Complete, Running
  <2>2. Range(started) \subseteq handled'
    BY <2>1, OwnerFacts
  <2>3. started' \o inputs' = Numbered(submitted')
    BY <2>1, OwnerFacts
  <2> QED BY <1>5, <2>1, <2>2, <2>3 DEF RunToCompletion, Numbered
<1>7. ASSUME NEW t \in Threads, Exhausted(t) \/ Install(t) \/ Panic(t)
      PROVE  RunToCompletion'
  <2>1. PICK where : Goto(t, where)
    BY <1>7 DEF Exhausted, Install, Panic
  <2>2. pc[t] \in Running /\ UNCHANGED <<started, active, handled, inputs, submitted>>
    BY <1>7 DEF Exhausted, Install, Panic, Running
  <2>3. started' \o inputs' = Numbered(submitted')
        /\ Range(started') \ active' \subseteq handled'
    BY <2>2, OwnerFacts
  <2> QED BY <1>5, <2>1, <2>2, <2>3 DEF RunToCompletion, Numbered
<1>8. ASSUME NEW t \in Threads, Drop(t) PROVE RunToCompletion'
  <2>1. pc[t] \in Running /\ Goto(t, "idle") /\ turn' = "Poisoned"
    BY <1>8 DEF Drop, Running
  <2> QED BY <1>5, <2>1 DEF RunToCompletion
<1>9. ASSUME NEW t \in Threads, WaitReturns(t) PROVE RunToCompletion'
  <2>1. /\ Goto(t, "idle")
        /\ UNCHANGED <<turn, started, active, handled, inputs, submitted>>
    BY <1>9 DEF WaitReturns
  <2>2. Owners' \subseteq Owners
    BY <1>t, <2>1, OwnersMove DEF Running
  <2> QED BY <1>0, <2>1, <2>2 DEF IInv, RunToCompletion
<1>10. CASE UNCHANGED vars
  BY <1>0, <1>10 DEF vars, IInv, RunToCompletion, Owners
<1> QED
  BY <1>2, <1>3, <1>4, <1>6, <1>7, <1>8, <1>9, <1>10 DEF Next

LEMMA NextAux == IInv /\ [Next]_vars => Untouched' /\ Seated' /\ ActiveIsLast'
<1> SUFFICES ASSUME IInv, [Next]_vars PROVE Untouched' /\ Seated' /\ ActiveIsLast'
  OBVIOUS
<1>t. TypeOK /\ Untouched /\ Seated /\ ActiveIsLast
  BY DEF IInv
<1>1. submitted \in Nat /\ active \subseteq 1 .. submitted /\ Range(inputs) \subseteq 1 .. submitted
      /\ started \in Seq(Nat) /\ inputs \in Seq(Nat)
  BY <1>t, TypedTurns
<1>2. ASSUME NEW t \in Threads, Submit(t) \/ NestedSubmit(t)
      PROVE  Untouched' /\ Seated' /\ ActiveIsLast'
  <2>1. submitted' = submitted + 1 /\ turn # "Poisoned"
        /\ UNCHANGED <<outcome, active, started, machine>>
    BY <1>2 DEF Submit, NestedSubmit, Enqueue
  <2>2. turn' # "Idle" \/ turn' = turn
    BY <1>2 DEF Submit, NestedSubmit
  <2>3. \A n \in Turns : n > submitted' => n > submitted
    BY <1>1, <2>1, MaxTurnsAssumption DEF Turns
  <2>4. Untouched'
    BY <1>t, <2>1, <2>3 DEF Untouched
  <2>5. Seated'
    BY <1>t, <2>1, <2>2 DEF Seated
  <2>6. ActiveIsLast'
    BY <1>t, <2>1 DEF ActiveIsLast
  <2> QED BY <2>4, <2>5, <2>6
<1>3. ASSUME NEW t \in Threads, TakeTurn(t) PROVE Untouched' /\ Seated' /\ ActiveIsLast'
  <2>1. turn' = "Running"
    BY <1>3, OwnerFacts DEF TakeTurn, Running
  <2>2. started' # << >> /\ started'[Len(started')] = Head(inputs)
    BY <1>1, <1>3 DEF TakeTurn
  <2> QED BY <1>t, <1>3, <2>1, <2>2 DEF TakeTurn, Untouched, Seated, ActiveIsLast
<1>4. ASSUME NEW t \in Threads, Exhausted(t) PROVE Untouched' /\ Seated' /\ ActiveIsLast'
  <2>1. machine = "Ready" /\ active = {}
    BY <1>4, OwnerFacts DEF Exhausted, Running
  <2> QED BY <1>t, <1>4, <2>1 DEF Exhausted, Untouched, Seated, ActiveIsLast
<1>5. ASSUME NEW t \in Threads, Install(t) PROVE Untouched' /\ Seated' /\ ActiveIsLast'
  BY <1>t, <1>5 DEF Install, Untouched, Seated, ActiveIsLast
<1>6. ASSUME NEW t \in Threads, Complete(t) PROVE Untouched' /\ Seated' /\ ActiveIsLast'
  <2>1. \A n \in Turns : n > submitted => n \notin active
    BY <1>1 DEF Turns
  <2> QED BY <1>t, <1>6, <2>1 DEF Complete, Untouched, Seated, ActiveIsLast
<1>7. ASSUME NEW t \in Threads, Drop(t) PROVE Untouched' /\ Seated' /\ ActiveIsLast'
  <2>1. \A n \in Turns : n > submitted => n \notin active \cup Range(inputs)
    BY <1>1 DEF Turns
  <2> QED BY <1>t, <1>7, <2>1 DEF Drop, Untouched, Seated, ActiveIsLast
<1>8. ASSUME NEW t \in Threads, WaitReturns(t) \/ Panic(t)
      PROVE  Untouched' /\ Seated' /\ ActiveIsLast'
  BY <1>t, <1>8 DEF WaitReturns, Panic, Untouched, Seated, ActiveIsLast
<1>9. CASE UNCHANGED vars
  BY <1>t, <1>9 DEF vars, Untouched, Seated, ActiveIsLast
<1> QED
  BY <1>2, <1>3, <1>4, <1>5, <1>6, <1>7, <1>8, <1>9 DEF Next

(* A turn held by its owner is not queued.                                 *)
LEMMA ActiveNotQueued ==
  ASSUME IInv, turn # "Poisoned"
  PROVE  active \cap Range(inputs) = {}
<1>1. started \o inputs = Numbered(submitted)
  BY DEF IInv, RunToCompletion, Numbered
<1>2. inputs \in Seq(Nat) /\ started \in Seq(Nat) /\ submitted \in Nat
  BY TypedTurns DEF IInv
<1>3. \A i \in DOMAIN started : started[i] \notin Range(inputs)
  BY <1>1, <1>2, NumberedApart
<1>4. CASE active = {}
  BY <1>4
<1>5. CASE active # {}
  <2>1. started # << >> /\ active = {started[Len(started)]}
    BY <1>5 DEF IInv, ActiveIsLast
  <2>2. Len(started) \in DOMAIN started
    BY <1>2, <2>1
  <2> QED BY <1>3, <2>1, <2>2
<1> QED BY <1>4, <1>5

LEMMA NextReceipts == IInv /\ [Next]_vars => ReceiptsHonest'
<1> SUFFICES ASSUME IInv, [Next]_vars PROVE ReceiptsHonest'
  OBVIOUS
<1>t. TypeOK /\ ReceiptsHonest
  BY DEF IInv
<1>1. /\ submitted \in Nat /\ active \subseteq 1 .. submitted
      /\ Range(inputs) \subseteq 1 .. submitted /\ handled \subseteq 1 .. submitted
      /\ submitted <= MaxTurns
  BY <1>t, TypedTurns, MaxTurnsAssumption DEF TypeOK
<1>2. ASSUME NEW t \in Threads, Submit(t) \/ NestedSubmit(t) PROVE ReceiptsHonest'
  <2>1. /\ submitted' = submitted + 1 /\ submitted < MaxTurns /\ turn # "Poisoned"
        /\ inputs' = Append(inputs, submitted + 1)
        /\ UNCHANGED <<outcome, active, handled>>
    BY <1>2 DEF Submit, NestedSubmit, Enqueue
  <2>2. Range(inputs') = Range(inputs) \cup {submitted + 1}
    <3>1. inputs \in Seq(Nat) /\ submitted + 1 \in Nat
      BY <1>1, <1>t, TypedTurns
    <3> QED BY <2>1, <3>1, RangeAppend
  <2>3. outcome[submitted + 1] = "Pending"
    <3>1. submitted + 1 \in Turns /\ submitted + 1 > submitted
      BY <1>1, <2>1, MaxTurnsAssumption DEF Turns
    <3> QED BY <3>1 DEF IInv, Untouched
  <2>4. ASSUME NEW n \in 1 .. submitted'
        PROVE  /\ outcome'[n] = "Completed" <=> n \in handled'
               /\ outcome'[n] = "Poisoned" => turn' = "Poisoned"
               /\ outcome'[n] = "Pending" <=> n \in active' \cup Range(inputs')
    <3>1. n \in 1 .. submitted \/ n = submitted + 1
      BY <1>1, <2>1
    <3>2. CASE n = submitted + 1
      <4>1. n \notin handled
        BY <1>1, <3>2
      <4> QED BY <2>1, <2>2, <2>3, <3>2, <4>1
    <3>3. CASE n \in 1 .. submitted
      <4>1. n # submitted + 1
        BY <1>1, <3>3
      <4> QED BY <1>t, <2>1, <2>2, <3>3, <4>1 DEF ReceiptsHonest
    <3> QED BY <3>1, <3>2, <3>3
  <2> QED BY <2>4 DEF ReceiptsHonest
<1>3. ASSUME NEW t \in Threads, TakeTurn(t) PROVE ReceiptsHonest'
  <2>1. active = {}
    BY <1>3, OwnerFacts DEF TakeTurn, Running
  <2>2. Range(inputs) = {Head(inputs)} \cup Range(Tail(inputs))
    <3>1. inputs \in Seq(Nat)
      BY <1>t, TypedTurns
    <3> QED BY <1>3, <3>1, RangeTake DEF TakeTurn
  <2>3. active' \cup Range(inputs') = active \cup Range(inputs)
    BY <1>3, <2>1, <2>2 DEF TakeTurn
  <2> QED BY <1>t, <1>3, <2>3 DEF TakeTurn, ReceiptsHonest
<1>4. ASSUME NEW t \in Threads, Complete(t) PROVE ReceiptsHonest'
  <2>1. turn = "Running"
    BY <1>4, OwnerFacts DEF Complete, Running
  <2>2. active \cap Range(inputs) = {}
    BY <2>1, ActiveNotQueued
  <2>3. ASSUME NEW n \in 1 .. submitted
        PROVE  /\ outcome'[n] = "Completed" <=> n \in handled'
               /\ outcome'[n] = "Poisoned" => turn' = "Poisoned"
               /\ outcome'[n] = "Pending" <=> n \in active' \cup Range(inputs')
    <3>1. n \in Turns
      BY <1>1, MaxTurnsAssumption DEF Turns
    <3>2. outcome'[n] = IF n \in active THEN "Completed" ELSE outcome[n]
      BY <1>4, <3>1 DEF Complete
    <3>3. /\ handled' = handled \cup active /\ active' = {} /\ inputs' = inputs
          /\ turn' = turn
      BY <1>4 DEF Complete
    <3>4. CASE n \in active
      BY <2>2, <3>2, <3>3, <3>4
    <3>5. CASE n \notin active
      BY <1>t, <3>2, <3>3, <3>5 DEF ReceiptsHonest
    <3> QED BY <3>4, <3>5
  <2>4. submitted' = submitted
    BY <1>4 DEF Complete
  <2> QED BY <2>3, <2>4 DEF ReceiptsHonest
<1>5. ASSUME NEW t \in Threads, Drop(t) PROVE ReceiptsHonest'
  <2>1. Range(inputs') = {}
    BY <1>5 DEF Drop, Range
  <2>2. ASSUME NEW n \in 1 .. submitted
        PROVE  /\ outcome'[n] = "Completed" <=> n \in handled'
               /\ outcome'[n] = "Poisoned" => turn' = "Poisoned"
               /\ outcome'[n] = "Pending" <=> n \in active' \cup Range(inputs')
    <3>1. n \in Turns
      BY <1>1, MaxTurnsAssumption DEF Turns
    <3>2. /\ outcome'[n] = IF n \in active \cup Range(inputs) THEN "Poisoned" ELSE outcome[n]
          /\ handled' = handled /\ active' = {} /\ turn' = "Poisoned"
      BY <1>5, <3>1 DEF Drop
    <3>3. CASE n \in active \cup Range(inputs)
      <4>1. n \notin handled
        BY <1>t, <3>3 DEF ReceiptsHonest
      <4> QED BY <2>1, <3>2, <3>3, <4>1
    <3>4. CASE n \notin active \cup Range(inputs)
      BY <1>t, <2>1, <3>2, <3>4 DEF ReceiptsHonest
    <3> QED BY <3>3, <3>4
  <2>3. submitted' = submitted
    BY <1>5 DEF Drop
  <2> QED BY <2>2, <2>3 DEF ReceiptsHonest
<1>6. ASSUME NEW t \in Threads, Exhausted(t) PROVE ReceiptsHonest'
  <2>1. turn = "Running"
    BY <1>6, OwnerFacts DEF Exhausted, Running
  <2> QED BY <1>t, <1>6, <2>1 DEF Exhausted, ReceiptsHonest
<1>7. ASSUME NEW t \in Threads, WaitReturns(t) \/ Install(t) \/ Panic(t)
      PROVE  ReceiptsHonest'
  BY <1>t, <1>7 DEF WaitReturns, Install, Panic, ReceiptsHonest
<1>8. CASE UNCHANGED vars
  BY <1>t, <1>8 DEF vars, ReceiptsHonest
<1> QED
  BY <1>2, <1>3, <1>4, <1>5, <1>6, <1>7, <1>8 DEF Next

LEMMA NextOwnership == IInv /\ [Next]_vars => OwnershipExact'
<1> SUFFICES ASSUME IInv, [Next]_vars PROVE OwnershipExact'
  OBVIOUS
<1>t. TypeOK /\ OwnershipExact /\ Seated
  BY DEF IInv
<1>1. ASSUME NEW t \in Threads, Submit(t) PROVE OwnershipExact'
  <2>1. /\ turn # "Poisoned" /\ turn' = "Running" /\ pc[t] = "idle"
        /\ UNCHANGED <<active, machine>>
        /\ Goto(t, IF turn = "Idle" THEN "draining" ELSE "waiting")
    BY <1>1 DEF Submit, Enqueue
  <2>2. CASE turn = "Idle"
    <3>1. Owners = {} /\ active = {} /\ machine = "Ready"
      BY <1>t, <2>2 DEF OwnershipExact, Seated
    <3>2. Owners' = {t}
      BY <1>t, <2>1, <2>2, <3>1, OwnersMove DEF Running
    <3>3. pc'[t] = "draining"
      BY <1>t, <2>1, <2>2 DEF Goto, TypeOK
    <3> QED BY <2>1, <3>1, <3>2, <3>3 DEF OwnershipExact
  <2>3. CASE turn = "Running"
    <3>1. Owners' = Owners /\ \A u \in Owners : pc'[u] = pc[u]
      BY <1>t, <2>1, <2>3 DEF Owners, Running, Goto, TypeOK
    <3> QED BY <1>t, <2>1, <2>3, <3>1 DEF OwnershipExact
  <2> QED BY <1>t, <2>1, <2>2, <2>3 DEF TypeOK
<1>2. ASSUME NEW t \in Threads, NestedSubmit(t) PROVE OwnershipExact'
  <2>1. turn = "Running"
    BY <1>2, OwnerFacts DEF NestedSubmit, Running
  <2>2. UNCHANGED <<turn, machine, active, pc>> /\ Owners' = Owners
    BY <1>2 DEF NestedSubmit, Owners
  <2> QED BY <1>t, <2>1, <2>2 DEF OwnershipExact
(* A step of the owner that goes on owning.                                *)
<1>3. ASSUME NEW t \in Threads, NEW where \in Running, Goto(t, where),
             pc[t] \in Running, turn' = turn,
             active' = {} <=> where = "draining",
             where \in {"draining", "handling"} => machine' = "Ready",
             where = "stepping" => machine' = "Taken"
      PROVE  OwnershipExact'
  <2>1. Owners' = {t} /\ turn' = "Running"
    BY <1>t, <1>3, OwnersMove, OwnerFacts
  <2>2. pc'[t] = where
    BY <1>t, <1>3 DEF Goto, TypeOK
  <2> QED BY <1>3, <2>1, <2>2 DEF OwnershipExact
<1>4. ASSUME NEW t \in Threads, TakeTurn(t) PROVE OwnershipExact'
  BY <1>3, <1>4 DEF TakeTurn, Running
<1>5. ASSUME NEW t \in Threads, Install(t) PROVE OwnershipExact'
  <2>1. active # {}
    BY <1>5, OwnerFacts DEF Install, Running
  <2> QED BY <1>3, <1>5, <2>1 DEF Install, Running
<1>6. ASSUME NEW t \in Threads, Complete(t) PROVE OwnershipExact'
  <2>1. machine = "Ready"
    BY <1>6, OwnerFacts DEF Complete, Running
  <2> QED BY <1>3, <1>6, <2>1 DEF Complete, Running
<1>7. ASSUME NEW t \in Threads, Panic(t) PROVE OwnershipExact'
  <2>1. active # {}
    BY <1>7, OwnerFacts DEF Panic, Running
  <2> QED BY <1>3, <1>7, <2>1 DEF Panic, Running
<1>8. ASSUME NEW t \in Threads, Exhausted(t) \/ Drop(t) PROVE OwnershipExact'
  <2>1. Owners = {t} /\ (pc[t] = "draining" => active = {})
    BY <1>8, OwnerFacts DEF Exhausted, Drop, Running
  <2>2. Owners' = {}
    BY <1>8, <1>t, <2>1, OwnersMove DEF Exhausted, Drop, Running
  <2>3. turn' # "Running" /\ inputs' = << >> /\ active' = {}
    BY <1>8, <2>1 DEF Exhausted, Drop
  <2> QED BY <2>2, <2>3 DEF OwnershipExact
<1>9. ASSUME NEW t \in Threads, WaitReturns(t) PROVE OwnershipExact'
  <2>1. Owners' = Owners /\ \A u \in Owners : pc'[u] = pc[u]
    BY <1>t, <1>9 DEF WaitReturns, Owners, Running, Goto, TypeOK
  <2>2. UNCHANGED <<turn, inputs, active, machine>>
    BY <1>9 DEF WaitReturns
  <2> QED BY <1>t, <2>1, <2>2 DEF OwnershipExact
<1>10. CASE UNCHANGED vars
  BY <1>t, <1>10 DEF vars, OwnershipExact, Owners
<1> QED
  BY <1>1, <1>2, <1>4, <1>5, <1>6, <1>7, <1>8, <1>9, <1>10 DEF Next

LEMMA NextIInv == IInv /\ [Next]_vars => IInv'
<1> SUFFICES ASSUME IInv, [Next]_vars PROVE IInv'
  OBVIOUS
<1>1. TypeOK'
  BY TypeNext DEF IInv
<1>2. RunToCompletion' /\ ReceiptsHonest' /\ OwnershipExact'
  BY NextRun, NextReceipts, NextOwnership
<1>3. Untouched' /\ Seated' /\ ActiveIsLast'
  BY NextAux
<1> QED BY <1>1, <1>2, <1>3 DEF IInv

(* The inductive invariant holds of every behaviour.                       *)
THEOREM Invariance == Spec => []IInv
BY InitIInv, NextIInv, PTL DEF Spec

(* Every reachable state of the executor is well typed.                    *)
THEOREM TypeCorrect == Spec => []TypeOK
<1>1. IInv => TypeOK
  BY DEF IInv
<1> QED BY <1>1, Invariance, PTL

(* Turns run to completion, one at a time and in the order of submission,  *)
(* for any number of submitting threads and through handler panics.        *)
THEOREM TurnsRunToCompletion == Spec => []RunToCompletion
<1>1. IInv => RunToCompletion
  BY DEF IInv
<1> QED BY <1>1, Invariance, PTL

(* A receipt is Completed exactly if its turn's handler returned, and      *)
(* unresolved only while its turn is held or queued.                       *)
THEOREM ReceiptsAreHonest == Spec => []ReceiptsHonest
<1>1. IInv => ReceiptsHonest
  BY DEF IInv
<1> QED BY <1>1, Invariance, PTL

(* The executor runs exactly while a thread drains it, and a poisoned one  *)
(* holds nothing back.                                                     *)
THEOREM OwnershipIsExact == Spec => []OwnershipExact
<1>1. IInv => OwnershipExact
  BY DEF IInv
<1> QED BY <1>1, Invariance, PTL

LEMMA NextFinal ==
  IInv /\ [Next]_vars =>
    [\A n \in Turns : outcome[n] # "Pending" => outcome'[n] = outcome[n]]_vars
<1> SUFFICES ASSUME IInv, Next, NEW n \in Turns, outcome[n] # "Pending"
             PROVE  outcome'[n] = outcome[n]
  OBVIOUS
<1>1. n \in 1 .. submitted
  BY MaxTurnsAssumption DEF IInv, Untouched, TypeOK, Turns
<1>2. n \notin active \cup Range(inputs)
  BY <1>1 DEF IInv, ReceiptsHonest
<1> QED
  BY <1>2
  DEF Next, Submit, WaitReturns, TakeTurn, Exhausted, Install, Complete,
      NestedSubmit, Panic, Drop

(* A resolved receipt keeps its answer, whatever later turns do.           *)
THEOREM ReceiptsStayFinal == Spec => ReceiptsFinal
BY Invariance, NextFinal, PTL DEF Spec, ReceiptsFinal

-----------------------------------------------------------------------------
(* Refinement.                                                             *)

Busy == \E t \in Threads : pc[t] \in {"stepping", "handling"}

LEMMA InitRefines == Init => Ordered!Init
BY DEF Init, Ordered!Init

(* Every step is a step of the ordered stream or leaves it alone.          *)
LEMMA NextRefines == IInv /\ [Next]_vars => [Ordered!Next]_(Ordered!vars)
<1> SUFFICES ASSUME IInv, [Next]_vars
             PROVE  \/ /\ submitted' = submitted + 1
                       /\ UNCHANGED started /\ Busy' = Busy
                    \/ /\ ~Busy /\ Len(started) < submitted
                       /\ started' = Append(started, Len(started) + 1)
                       /\ Busy' /\ UNCHANGED submitted
                    \/ Busy /\ ~Busy' /\ UNCHANGED <<submitted, started>>
                    \/ UNCHANGED <<submitted, started>> /\ Busy' = Busy
  BY DEF Ordered!Next, Ordered!Produce, Ordered!Begin, Ordered!End, Ordered!vars, Busy
<1>t. TypeOK
  BY DEF IInv
<1>1. \A t, u \in Threads : pc[t] \in Running /\ pc[u] \in Running => t = u
  BY DEF IInv, RunToCompletion, Owners
<1>2. ASSUME NEW t \in Threads, NEW where, Goto(t, where),
             pc[t] \in {"stepping", "handling"} <=> where \in {"stepping", "handling"}
      PROVE  Busy' = Busy
  BY <1>t, <1>2 DEF Busy, Goto, TypeOK
<1>3. ASSUME NEW t \in Threads, Submit(t) \/ NestedSubmit(t)
      PROVE  submitted' = submitted + 1 /\ UNCHANGED started /\ Busy' = Busy
  BY <1>2, <1>3 DEF Submit, NestedSubmit, Enqueue, Busy
<1>4. ASSUME NEW t \in Threads, TakeTurn(t)
      PROVE  /\ ~Busy /\ Len(started) < submitted
             /\ started' = Append(started, Len(started) + 1)
             /\ Busy' /\ UNCHANGED submitted
  <2>1. ~Busy /\ Busy'
    BY <1>t, <1>1, <1>4 DEF TakeTurn, Busy, Goto, TypeOK, Running
  <2>2. started \o inputs = Numbered(submitted)
    BY <1>4, OwnerFacts DEF TakeTurn, Running
  <2>3. Head(inputs) = Len(started) + 1 /\ Len(started) < submitted
    BY <1>t, <1>4, <2>2, TypedTurns, TakeNumbered DEF TakeTurn
  <2> QED BY <1>4, <2>1, <2>3 DEF TakeTurn
<1>5. ASSUME NEW t \in Threads, Complete(t) \/ Panic(t)
      PROVE  Busy /\ ~Busy' /\ UNCHANGED <<submitted, started>>
  BY <1>t, <1>1, <1>5 DEF Complete, Panic, Busy, Goto, TypeOK, Running
<1>6. ASSUME NEW t \in Threads,
             WaitReturns(t) \/ Exhausted(t) \/ Install(t) \/ Drop(t)
      PROVE  UNCHANGED <<submitted, started>> /\ Busy' = Busy
  BY <1>2, <1>6 DEF WaitReturns, Exhausted, Install, Drop
<1>7. CASE UNCHANGED vars
  BY <1>7 DEF vars, Busy
<1> QED
  BY <1>3, <1>4, <1>5, <1>6, <1>7 DEF Next

(* Turns are taken like the outputs of an ordered stream.                  *)
THEOREM Refinement == Spec => ImplementsOrderedTurns
BY InitRefines, NextRefines, Invariance, PTL
DEF Spec, ImplementsOrderedTurns, Ordered!Spec
=============================================================================
