--------------------- MODULE SingleEntityRuntimeProofs ---------------------
(***************************************************************************)
(* The directory serving one entity implements EntitySlot, for every set   *)
(* of callers and passivators, every number of activations and every       *)
(* waiter limit.                                                           *)
(*                                                                         *)
(* The refinement mapping counts an effect among the slot's tasks from its *)
(* reduction to the submission of its report, so the argument needs to     *)
(* know where that work is: WorkInv says that it is in one place at a time *)
(* (a queue, a task or a call that reports it) and that, while it is, its  *)
(* slot is in the phase that waits for it.  Then every fact is submitted   *)
(* when EntitySlot allows it, to the one slot the entry names, and every   *)
(* other step of the directory moves work without changing what the slot   *)
(* can tell.                                                               *)
(***************************************************************************)
EXTENDS SingleEntityRuntime, EntityRuntimeProofs

-----------------------------------------------------------------------------
(* An effect occurs in a batch, or in a queue of batches, at most once.    *)
OnceIn(fxs, fx) == \A i, j \in DOMAIN fxs : fxs[i] = fx /\ fxs[j] = fx => i = j

OnceQueued(q, fx) ==
  \A a, b \in DOMAIN q : \A i \in DOMAIN q[a], j \in DOMAIN q[b] :
    q[a][i] = fx /\ q[b][j] = fx => a = b /\ i = j

LEMMA OnceExtended ==
  ASSUME NEW E, NEW q \in Seq(Seq(E) \ {<< >>}), NEW fxs \in Seq(E), NEW fx,
         OnceQueued(q, fx), OnceIn(fxs, fx), ~ (Queues(q, fx) /\ fx \in Range(fxs))
  PROVE  OnceQueued(q \o Batches(fxs), fx)
<1> DEFINE B == Seq(E) \ {<< >>}
           n == Len(q)
           r == q \o << fxs >>
<1>1. CASE fxs = << >>
  <2>1. q \o << >> = q
    OBVIOUS
  <2> QED BY <1>1, <2>1 DEF Batches
<1>2. CASE fxs # << >>
  <2>1. Batches(fxs) = << fxs >> /\ fxs \in B
    BY <1>2 DEF Batches
  <2>2. q \in Seq(B)
    OBVIOUS
  <2> HIDE DEF B
  <2>3. /\ n \in Nat /\ DOMAIN q = 1 .. n /\ DOMAIN r = 1 .. n + 1
        /\ \A a \in 1 .. n : r[a] = q[a]
        /\ r[n + 1] = fxs
    BY <2>1, <2>2
  <2> HIDE DEF n, r
  <2>4. \A a \in DOMAIN r : (a \in DOMAIN q /\ r[a] = q[a]) \/ (a = n + 1 /\ r[a] = fxs)
    <3>1. \A a \in 1 .. n + 1 : a \in 1 .. n \/ a = n + 1
      BY <2>3
    <3> QED BY <2>3, <3>1
  <2>5. \A a \in DOMAIN q : \A i : i \in DOMAIN q[a] /\ q[a][i] = fx => Queues(q, fx)
    BY DEF Queues
  <2>6. \A i \in DOMAIN fxs : fxs[i] = fx => fx \in Range(fxs)
    BY DEF Range
  <2>7. ASSUME NEW a \in DOMAIN r, NEW b \in DOMAIN r, NEW i \in DOMAIN r[a], NEW j \in DOMAIN r[b],
               r[a][i] = fx, r[b][j] = fx
        PROVE  a = b /\ i = j
    <3>1. CASE a \in DOMAIN q /\ r[a] = q[a] /\ b \in DOMAIN q /\ r[b] = q[b]
      BY <2>7, <3>1 DEF OnceQueued
    <3>2. CASE a = n + 1 /\ r[a] = fxs /\ b = n + 1 /\ r[b] = fxs
      BY <2>7, <3>2 DEF OnceIn
    <3>3. CASE a \in DOMAIN q /\ r[a] = q[a] /\ b = n + 1 /\ r[b] = fxs
      BY <2>5, <2>6, <2>7, <3>3
    <3>4. CASE a = n + 1 /\ r[a] = fxs /\ b \in DOMAIN q /\ r[b] = q[b]
      BY <2>5, <2>6, <2>7, <3>4
    <3> QED BY <2>4, <3>1, <3>2, <3>3, <3>4
  <2>8. OnceQueued(r, fx)
    BY <2>7 DEF OnceQueued
  <2> QED BY <2>1, <2>8 DEF r
<1> QED BY <1>1, <1>2

(* Every place of what is left of a queue was another place of the queue,  *)
(* and none was its first.                                                 *)
LEMMA OnceTaken ==
  ASSUME NEW E, NEW q \in Seq(Seq(E) \ {<< >>}), q # << >>, NEW fx, OnceQueued(q, fx)
  PROVE  LET left == Batches(Tail(Head(q))) \o Tail(q)
         IN  OnceQueued(left, fx) /\ (fx = Head(Head(q)) => ~ Queues(left, fx))
<1> DEFINE B == Seq(E) \ {<< >>}
           h == Head(q)
           t == Tail(q)
           g == Tail(h)
           left == Batches(g) \o t
<1>1. h \in B /\ h \in Seq(E) /\ h # << >> /\ t \in Seq(B) /\ g \in Seq(E) /\ q \in Seq(B)
  BY QueueTyped
<1>2. /\ Len(q) \in Nat \ {0} /\ DOMAIN q = 1 .. Len(q) /\ q[1] = h
      /\ DOMAIN t = 1 .. Len(q) - 1 /\ \A b \in DOMAIN t : t[b] = q[b + 1]
  <2> HIDE DEF B
  <2> QED BY <1>1
<1>3. /\ Len(h) \in Nat \ {0} /\ DOMAIN h = 1 .. Len(h) /\ h[1] = Head(h)
      /\ DOMAIN g = 1 .. Len(h) - 1 /\ \A i \in DOMAIN g : g[i] = h[i + 1]
  BY <1>1
<1>4. PICK step \in {0, 1} : 
        /\ step = IF g = << >> THEN 1 ELSE 0
  OBVIOUS
<1>5. ASSUME NEW b \in DOMAIN left, NEW i \in DOMAIN left[b]
      PROVE  \/ /\ step = 0 /\ b = 1 /\ 1 \in DOMAIN q /\ i + 1 \in DOMAIN q[1] /\ i \in Nat \ {0}
                /\ left[b][i] = q[1][i + 1]
             \/ /\ b + step \in DOMAIN q /\ b + step # 1 /\ b \in Nat
                /\ i \in DOMAIN q[b + step] /\ left[b][i] = q[b + step][i]
  <2>1. CASE g = << >>
    <3>1. left = t
      <4> HIDE DEF B, t, g
      <4>1. << >> \o t = t
        BY <1>1
      <4> QED BY <2>1, <4>1 DEF Batches
    <3>2. b \in DOMAIN t /\ i \in DOMAIN t[b] /\ left[b] = t[b] /\ step = 1
      BY <1>4, <1>5, <2>1, <3>1
    <3> HIDE DEF t, left, h, g
    <3>3. b + step \in DOMAIN q /\ b + step # 1 /\ t[b] = q[b + step] /\ b \in Nat
      BY <1>2, <3>2
    <3> QED BY <3>2, <3>3
  <2>2. CASE g # << >>
    <3>1. left = << g >> \o t /\ step = 0
      BY <1>4, <2>2 DEF Batches
    <3>2. << g >> \in Seq(Seq(E) \ {<< >>})
      <4> HIDE DEF g
      <4> QED BY <1>1, <2>2
    <3> HIDE DEF t, g
    <3>3. /\ Len(t) \in Nat /\ DOMAIN t = 1 .. Len(t)
          /\ DOMAIN left = 1 .. Len(t) + 1 /\ left[1] = g /\ \A a \in 1 .. Len(t) : left[a + 1] = t[a]
      <4>1. Len(<< g >>) = 1 /\ << g >>[1] = g
        OBVIOUS
      <4> DEFINE p == << g >>
      <4> HIDE DEF p, B
      <4>2. p \in Seq(B)
        BY <3>2 DEF p, B
      <4>3. Len(p) = 1 /\ p[1] = g
        BY <4>1 DEF p
      <4>4. left = p \o t
        BY <3>1 DEF p
      <4> DEFINE o == p \o t
      <4>5. /\ Len(t) \in Nat /\ DOMAIN t = 1 .. Len(t)
            /\ DOMAIN o = 1 .. Len(p) + Len(t)
            /\ \A a \in 1 .. Len(p) : o[a] = p[a]
            /\ \A a \in 1 .. Len(t) : o[Len(p) + a] = t[a]
        BY <1>1, <4>2
      <4> HIDE DEF left, o
      <4>6. DOMAIN o = 1 .. Len(t) + 1 /\ o[1] = p[1]
        BY <4>3, <4>5
      <4>7. \A a \in 1 .. Len(t) : o[a + 1] = t[a]
        <5> SUFFICES ASSUME NEW a \in 1 .. Len(t) PROVE o[a + 1] = t[a]
          OBVIOUS
        <5>1. Len(p) + a = a + 1
          BY <4>3, <4>5
        <5> QED BY <4>5, <5>1
      <4>8. left = o
        BY <4>4 DEF o
      <4> QED BY <4>3, <4>5, <4>6, <4>7, <4>8
    <3> HIDE DEF left
    <3>4. CASE b = 1
      <4>1. i \in DOMAIN g /\ left[b][i] = h[i + 1]
        BY <1>3, <1>5, <3>3, <3>4
      <4>2. i \in Nat \ {0} /\ i + 1 \in DOMAIN h
        BY <1>3, <4>1
      <4>3. 1 \in DOMAIN q /\ q[1] = h
        BY <1>2
      <4> HIDE DEF h
      <4> QED BY <3>1, <3>4, <4>1, <4>2, <4>3
    <3>5. CASE b # 1
      <4>1. b - 1 \in DOMAIN t /\ left[b] = t[b - 1] /\ b \in Nat
        <5>1. b \in 1 .. Len(t) + 1 /\ Len(t) \in Nat
          BY <1>5, <3>3
        <5>2. b - 1 \in 1 .. Len(t) /\ (b - 1) + 1 = b
          BY <3>5, <5>1
        <5> QED BY <3>3, <5>1, <5>2
      <4>2. b \in DOMAIN q /\ t[b - 1] = q[b]
        <5>1. t[b - 1] = q[(b - 1) + 1]
          BY <1>2, <4>1
        <5> QED BY <1>2, <4>1, <5>1
      <4>3. b + step = b
        BY <3>1, <4>1
      <4> QED BY <1>5, <3>1, <3>5, <4>1, <4>2, <4>3
    <3> QED BY <3>4, <3>5
  <2> QED BY <2>1, <2>2
<1> HIDE DEF left, g, t, h, B
<1>6. ASSUME NEW a \in DOMAIN left, NEW b \in DOMAIN left, NEW i \in DOMAIN left[a], NEW j \in DOMAIN left[b],
             left[a][i] = fx, left[b][j] = fx
      PROVE  a = b /\ i = j
  <2>1. CASE /\ step = 0 /\ a = 1 /\ 1 \in DOMAIN q /\ i + 1 \in DOMAIN q[1] /\ i \in Nat \ {0}
             /\ left[a][i] = q[1][i + 1]
    <3>1. CASE /\ step = 0 /\ b = 1 /\ 1 \in DOMAIN q /\ j + 1 \in DOMAIN q[1] /\ j \in Nat \ {0}
               /\ left[b][j] = q[1][j + 1]
      <4>1. i + 1 = j + 1
        BY <1>6, <2>1, <3>1 DEF OnceQueued
      <4> QED BY <2>1, <3>1, <4>1
    <3>2. CASE /\ b + step \in DOMAIN q /\ b + step # 1 /\ b \in Nat
               /\ j \in DOMAIN q[b + step] /\ left[b][j] = q[b + step][j]
      BY <1>6, <2>1, <3>2 DEF OnceQueued
    <3> QED BY <1>5, <3>1, <3>2
  <2>2. CASE /\ a + step \in DOMAIN q /\ a + step # 1 /\ a \in Nat
             /\ i \in DOMAIN q[a + step] /\ left[a][i] = q[a + step][i]
    <3>1. CASE /\ step = 0 /\ b = 1 /\ 1 \in DOMAIN q /\ j + 1 \in DOMAIN q[1] /\ j \in Nat \ {0}
               /\ left[b][j] = q[1][j + 1]
      BY <1>6, <2>2, <3>1 DEF OnceQueued
    <3>2. CASE /\ b + step \in DOMAIN q /\ b + step # 1 /\ b \in Nat
               /\ j \in DOMAIN q[b + step] /\ left[b][j] = q[b + step][j]
      <4>1. a + step = b + step /\ i = j
        BY <1>6, <2>2, <3>2 DEF OnceQueued
      <4>2. step \in Int
        BY <1>4
      <4> QED BY <2>2, <3>2, <4>1, <4>2
    <3> QED BY <1>5, <3>1, <3>2
  <2> QED BY <1>5, <2>1, <2>2
<1>7. OnceQueued(left, fx)
  BY <1>6 DEF OnceQueued
<1>8. ASSUME fx = Head(h), NEW b \in DOMAIN left, NEW i \in DOMAIN left[b], left[b][i] = fx PROVE FALSE
  <2>1. 1 \in DOMAIN q /\ 1 \in DOMAIN q[1] /\ q[1][1] = fx
    BY <1>2, <1>3, <1>8
  <2>2. CASE /\ step = 0 /\ b = 1 /\ 1 \in DOMAIN q /\ i + 1 \in DOMAIN q[1] /\ i \in Nat \ {0}
             /\ left[b][i] = q[1][i + 1]
    <3>1. i + 1 = 1
      BY <1>8, <2>1, <2>2 DEF OnceQueued
    <3> QED BY <2>2, <3>1
  <2>3. CASE /\ b + step \in DOMAIN q /\ b + step # 1 /\ b \in Nat
             /\ i \in DOMAIN q[b + step] /\ left[b][i] = q[b + step][i]
    BY <1>8, <2>1, <2>3 DEF OnceQueued
  <2> QED BY <1>5, <1>8, <2>2, <2>3
<1>9. fx = Head(h) => ~ Queues(left, fx)
  BY <1>8 DEF Queues
<1> QED BY <1>7, <1>9 DEF left, g, t, h

-----------------------------------------------------------------------------
(* Who calls, and about what.                                              *)

Looking(c) == c.at \in {"find", "submit"}

Speaks(by, e) ==
  \/ by \in TaskType /\ e \in Reports(by)
  \/ by \in Dispatches /\ e.trigger \in {"Dispatch", "CancelWaiter"}
  \/ by \in Passivations /\ e.trigger = "BeginDrain"

(* A task reports on its own activation, and only the report of an         *)
(* accepted delivery is looked up in a step of its own.                    *)
Spoken(c) ==
  /\ Speaks(c.by, c.event)
  /\ c.at = "find" /\ c.by \in TaskType => \E s, d : c.by = Deliver(s, d) /\ c.event = Resolved(s, << >>)

(* No fact reaches a slot older than the one it is about.                  *)
Reaches(c) == c.at = "submit" /\ c.event.trigger # "Dispatch" => c.event.id <= c.slot

(* The caller of an accepted delivery has its answer before the report.    *)
Thanks(by, e) ==
  \A s \in ActivationIds, d \in Dispatches :
    by = Deliver(s, d) /\ e = Resolved(s, << >>) => answer[d] = "Ok"

Thanked(c) == Thanks(c.by, c.event)

CallsInv == \A c \in calls : Looking(c) => Spoken(c) /\ Reaches(c) /\ Thanked(c)

(* The one entity's entry is its last slot, if any.                        *)
Lone == map[Entity] \in {NoActivation, lastId} /\ \A s \in ActivationIds : home[s] = Entity

LEMMA TheEntity == Entities = {Entity}
BY SingleEntity DEF Entity

LEMMA TaskFields ==
  ASSUME NEW w \in TaskType
  PROVE  /\ w.id \in ActivationIds /\ w \in Errands(w.id) /\ w.type \in Asynchronous
         /\ w.type = "StartActivation" <=> w = StartActivation(w.id)
         /\ w.type = "EnqueueFence" <=> w = EnqueueFence(w.id)
         /\ w.type = "Deliver" <=> \E d \in Dispatches : w = Deliver(w.id, d)
         /\ w.type = "Retire" <=> \E m \in Modes : w = Retire(w.id, m)
BY DEF TaskType, Errands, Asynchronous, StartActivation, EnqueueFence, Deliver, Retire

LEMMA ReportTyped ==
  ASSUME NEW w \in TaskType, NEW e \in Reports(w)
  PROVE  e.id = w.id /\ e.trigger \notin {"None", "Dispatch", "CancelWaiter", "BeginDrain"}
BY TaskFields, ReportFields

(* The task behind a report.                                               *)
LEMMA ReportedBy ==
  ASSUME NEW w \in TaskType, NEW e \in Reports(w)
  PROVE  /\ e.trigger \in {"ActivationSucceeded", "ActivationFailed"} <=> w = StartActivation(e.id)
         /\ e.trigger \in {"FenceAcknowledged", "ForceDrain"} <=> w = EnqueueFence(e.id)
         /\ e.trigger = "Terminated" <=> \E m \in Modes : w = Retire(e.id, m)
         /\ e.trigger = "DeliveryResolved" <=> \E d \in Dispatches : w = Deliver(e.id, d)
<1>1. w \in Errands(w.id) /\ e.id = w.id
  BY TaskFields, ReportFields
<1>2. CASE w = StartActivation(w.id)
  BY <1>1, <1>2, ReportFields DEF StartActivation, EnqueueFence, Retire, Deliver
<1>3. CASE w = EnqueueFence(w.id)
  BY <1>1, <1>3, ReportFields DEF StartActivation, EnqueueFence, Retire, Deliver
<1>4. CASE \E m \in Modes : w = Retire(w.id, m)
  BY <1>1, <1>4, ReportFields DEF StartActivation, EnqueueFence, Retire, Deliver
<1>5. CASE \E d \in Dispatches : w = Deliver(w.id, d)
  BY <1>1, <1>5, ReportFields DEF StartActivation, EnqueueFence, Retire, Deliver
<1> QED BY <1>1, <1>2, <1>3, <1>4, <1>5 DEF Errands

-----------------------------------------------------------------------------
(* Every step adds calls of these kinds.                                   *)

LEMMA CallsGrow ==
  ASSUME CallsInv, \A d \in Dispatches : answer[d] = "Ok" => answer'[d] = "Ok",
         \A c \in calls' \ calls : Looking(c) => Spoken(c) /\ Reaches(c) /\ Thanked(c)'
  PROVE  CallsInv'
<1> SUFFICES ASSUME NEW c \in calls', Looking(c)
             PROVE  Spoken(c) /\ Reaches(c) /\ Thanked(c)'
  BY DEF CallsInv, Looking, Spoken, Speaks, Reaches
<1>1. CASE c \in calls
  <2>1. Spoken(c) /\ Reaches(c) /\ Thanked(c)
    BY <1>1 DEF CallsInv
  <2> QED BY <2>1 DEF Thanked, Thanks
<1>2. CASE c \notin calls
  BY <1>2
<1> QED BY <1>1, <1>2

LEMMA OkStays ==
  ASSUME NEW ds, NEW result, Complete(ds, result) \/ UNCHANGED answer, NEW d \in Dispatches
  PROVE  answer[d] = "Ok" => answer'[d] = "Ok"
BY DEF Complete

LEMMA FindCallsInv ==
  ASSUME CallsInv, Lone, UNCHANGED directory, lastId \in Nat, 1 .. lastId \subseteq ActivationIds,
         NEW by, NEW e, e.id \in 1 .. lastId, e.trigger # "Dispatch", Speaks(by, e),
         NEW finished, NEW fewer, Find(by, e, finished, calls \ fewer), Thanks(by, e)
  PROVE  CallsInv' /\ Lone'
<1> DEFINE r == Reduce(Inactive, e)
<1>0. PICK m : m = Call(by, "submit", map[home[e.id]], e)
  OBVIOUS
<1>1. m.by = by /\ m.at = "submit" /\ m.event = e /\ m.slot = map[home[e.id]]
  BY <1>0 DEF Call
<1>2. home[e.id] = Entity
  BY DEF Lone
<1>3. map[home[e.id]] = NoActivation => calls' = calls \ fewer
  BY DEF Find
<1>4. calls' = calls \ fewer \/ calls' = (calls \ fewer) \cup {m}
  BY <1>0, FindCalls
<1>5. Complete(Refused(r.effects), "Refused") \/ UNCHANGED answer
  BY DEF Find
<1> HIDE DEF r
<1>6. \A d \in Dispatches : answer[d] = "Ok" => answer'[d] = "Ok"
  BY <1>5, OkStays
<1>7. map[home[e.id]] # NoActivation => m.slot = lastId
  BY <1>1, <1>2 DEF Lone
<1>8. map[home[e.id]] # NoActivation => Spoken(m) /\ Reaches(m) /\ Thanked(m)'
  BY <1>1, <1>6, <1>7 DEF Spoken, Reaches, Thanked, Thanks
<1>9. CallsInv'
  BY <1>3, <1>4, <1>6, <1>8, CallsGrow
<1> QED BY <1>9 DEF Lone, directory

LEMMA IdleCallsInv ==
  ASSUME CallsInv, Lone, UNCHANGED <<lastId, home>>, map' = map \/ map'[Entity] = NoActivation \/ map'[Entity] = map[Entity],
         \A d \in Dispatches : answer[d] = "Ok" => answer'[d] = "Ok",
         \A c \in calls' \ calls :
           \/ ~ Looking(c)
           \/ c.at = "submit" /\ c.by \in Dispatches /\ c.event.trigger = "Dispatch"
           \/ c.at = "find" /\ c.by \in Passivations /\ c.event.trigger = "BeginDrain"
  PROVE  CallsInv' /\ Lone'
<1>1. Lone'
  BY DEF Lone
<1>2. ASSUME NEW c \in calls' \ calls, Looking(c) PROVE Spoken(c) /\ Reaches(c) /\ Thanked(c)'
  <2>1. c.by \in Dispatches \cup Passivations /\ c.by \notin TaskType
    BY <1>2, DistinctAgents
  <2>2. \A s \in ActivationIds, d \in Dispatches : Deliver(s, d) \in TaskType
    BY DEF TaskType
  <2>3. Thanked(c)'
    BY <2>1, <2>2 DEF Thanked, Thanks
  <2> QED BY <1>2, <2>1, <2>3 DEF Spoken, Speaks, Reaches
<1> QED BY <1>1, <1>2, CallsGrow

LEMMA ServingCallsInv ==
  ASSUME IInv, CallsInv, Lone, NEW c \in calls,
         Submit(c) \/ Interpret(c) \/ Release(c) \/ ApplyEffect(c) \/ InterpreterPanics(c)
  PROVE  CallsInv' /\ Lone'
<1>1. Entity \in Entities
  BY TheEntity
<1>2. \A at \in {"interpret", "own"} : ~ Looking(Call(c.by, at, c.slot, NoEvent))
  BY DEF Looking, Call
<1>3. CASE Submit(c) \/ Interpret(c) \/ Release(c)
  <2>1. UNCHANGED <<lastId, home, map, answer>>
    BY <1>3 DEF Submit, Interpret, Release
  <2>2. \A b \in calls' \ calls : ~ Looking(b)
    BY <1>2, <1>3 DEF Submit, Interpret, Release, Moved
  <2> QED BY <2>1, <2>2, IdleCallsInv
<1>4. CASE ApplyEffect(c)
  <2>1. UNCHANGED <<lastId, home, calls>> /\ \E ds : Complete(ds, "Refused")
    BY <1>4 DEF ApplyEffect
  <2>2. map' = map \/ map'[Entity] \in {NoActivation, map[Entity]}
    BY <1>1, <1>4 DEF ApplyEffect, RemoveMatching
  <2>3. \A d \in Dispatches : answer[d] = "Ok" => answer'[d] = "Ok"
    BY <2>1, OkStays
  <2> QED BY <2>1, <2>2, <2>3, IdleCallsInv
<1>5. CASE InterpreterPanics(c)
  <2>1. UNCHANGED <<lastId, home, map>> /\ calls' \subseteq calls /\ \E ds : Complete(ds, "Refused")
    BY <1>5 DEF InterpreterPanics
  <2>2. \A d \in Dispatches : answer[d] = "Ok" => answer'[d] = "Ok"
    BY <2>1, OkStays
  <2> QED BY <2>1, <2>2, IdleCallsInv
<1> QED BY <1>3, <1>4, <1>5

LEMMA UnanswerdHand ==
  ASSUME HandInv, NEW d \in Dispatches
  PROVE  /\ future[d] = "none" => answer[d] = "Awaiting"
         /\ \A s : Deliver(s, d) \in tasks => answer[d] = "Awaiting"
<1>1. Hand(d)
  BY DEF HandInv
<1>2. answer[d] # "Awaiting" => At(d, "settled", answer[d])
  BY DEF At
<1>3. \A s : Deliver(s, d) \in tasks => At(d, "spawned", Deliver(s, d))
  BY DEF At, Deliver
<1> QED BY <1>1, <1>2, <1>3 DEF Hand, Nowhere

LEMMA CallerCallsInv ==
  ASSUME IInv, HandInv, CallsInv, Lone, NEW n \in Entities, NEW d \in Dispatches,
         DispatchMapped(d, n) \/ DispatchAbsent(d, n) \/ DispatchExhausted(d, n)
  PROVE  CallsInv' /\ Lone'
<1>1. n = Entity
  BY TheEntity
<1>2. CASE DispatchMapped(d, n)
  <2> DEFINE m == Call(d, "submit", map[n], [trigger |-> "Dispatch", d |-> d])
  <2>1. UNCHANGED <<lastId, home, map, answer>> /\ calls' = calls \cup {m}
    BY <1>2 DEF DispatchMapped, directory
  <2>2. m.at = "submit" /\ m.by = d /\ m.event.trigger = "Dispatch"
    BY DEF Call
  <2> HIDE DEF m
  <2> QED BY <2>1, <2>2, IdleCallsInv
<1>3. CASE DispatchExhausted(d, n)
  <2>1. UNCHANGED <<lastId, home, map, calls>> /\ answer' = [answer EXCEPT ![d] = "Exhausted"]
    BY <1>3 DEF DispatchExhausted, directory
  <2>2. answer[d] = "Awaiting"
    BY <1>3, UnanswerdHand DEF DispatchExhausted
  <2>3. \A x \in Dispatches : answer[x] = "Ok" => answer'[x] = "Ok"
    BY <2>1, <2>2 DEF IInv, TypeOK
  <2> QED BY <2>1, <2>3, IdleCallsInv
<1>4. CASE DispatchAbsent(d, n)
  <2>1. PICK id \in ActivationIds : Allocated(id) /\ lastId' = id /\ Claim(d, n, id)
    BY <1>4 DEF DispatchAbsent
  <2>2. PICK m : m = Call(d, "interpret", id, NoEvent)
    OBVIOUS
  <2>3. ~ Looking(m)
    BY <2>2 DEF Looking, Call
  <2>4. /\ map' = [map EXCEPT ![n] = id] /\ home' = [home EXCEPT ![id] = n]
        /\ calls' = calls \cup {m} /\ UNCHANGED answer
    BY <2>1, <2>2 DEF Claim
  <2>5. Lone'
    BY <1>1, <2>1, <2>4 DEF Lone, IInv, TypeOK
  <2>6. CallsInv'
    BY <2>3, <2>4, CallsGrow
  <2> QED BY <2>5, <2>6
<1> QED BY <1>2, <1>3, <1>4

LEMMA IdledCallsInv ==
  ASSUME IInv, CallsInv, Lone,
         \/ \E n \in Entities, p \in Passivations : PassivateReads(p, n)
         \/ \E d \in Dispatches : Poll(d)
  PROVE  CallsInv' /\ Lone'
<1>1. CASE \E d \in Dispatches : Poll(d)
  <2>1. UNCHANGED <<lastId, home, map, calls, answer>>
    BY <1>1 DEF Poll, directory
  <2> QED BY <2>1, IdleCallsInv
<1>2. CASE \E n \in Entities, p \in Passivations : PassivateReads(p, n)
  <2>1. PICK n \in Entities, p \in Passivations : PassivateReads(p, n)
    BY <1>2
  <2>2. PICK m : m = Call(p, "find", NoActivation, [trigger |-> "BeginDrain", id |-> slots[map[n]].id])
    OBVIOUS
  <2>3. m.at = "find" /\ m.by = p /\ m.event.trigger = "BeginDrain"
    BY <2>2 DEF Call
  <2>4. UNCHANGED <<lastId, home, map, answer>> /\ calls' = calls \cup {m}
    BY <2>1, <2>2 DEF PassivateReads, directory
  <2> QED BY <2>3, <2>4, IdleCallsInv
<1> QED BY <1>1, <1>2

LEMMA FinderCallsInv ==
  ASSUME IInv, Issuing, CallsInv, Lone,
         \/ \E d \in Dispatches : DropFuture(d)
         \/ \E c \in calls : Finds(c)
  PROVE  CallsInv' /\ Lone'
<1>0. lastId \in Nat /\ 1 .. lastId \subseteq ActivationIds
  BY IssuedIds DEF IInv
<1>1. CASE \E d \in Dispatches : DropFuture(d)
  <2>1. PICK d \in Dispatches : DropFuture(d)
    BY <1>1
  <2>2. PICK e : e = [trigger |-> "CancelWaiter", id |-> ticket[d], d |-> d]
    OBVIOUS
  <2>3. PICK none : none = {}
    OBVIOUS
  <2>4. UNCHANGED directory
    BY <2>1 DEF DropFuture
  <2>5. CASE ticket[d] = NoActivation
    <3>1. UNCHANGED <<lastId, home, map, calls, answer>>
      BY <2>1, <2>5 DEF DropFuture, directory
    <3> QED BY <3>1, IdleCallsInv
  <2>6. CASE ticket[d] # NoActivation
    <3>1. e.id \in 1 .. lastId /\ e.trigger = "CancelWaiter"
      BY <1>0, <2>2, <2>6 DEF IInv, TypeOK, NoActivation
    <3>2. Speaks(d, e)
      BY <3>1 DEF Speaks
    <3>3. Find(d, e, none, calls \ none)
      <4>1. Find(d, [trigger |-> "CancelWaiter", id |-> ticket[d], d |-> d], {}, calls)
        BY <2>1, <2>6 DEF DropFuture
      <4>2. calls \ none = calls
        BY <2>3
      <4> QED BY <2>2, <2>3, <4>1, <4>2
    <3>4. Thanks(d, e)
      BY <3>1 DEF Resolved, Thanks
    <3> QED BY <1>0, <2>4, <3>1, <3>2, <3>3, <3>4, FindCallsInv
  <2> QED BY <2>5, <2>6
<1>2. CASE \E c \in calls : Finds(c)
  <2>1. PICK c \in calls : Finds(c)
    BY <1>2
  <2>2. PICK who, e, none, fewer : who = c.by /\ e = c.event /\ none = {} /\ fewer = {c}
    OBVIOUS
  <2>3. UNCHANGED directory /\ Find(who, e, none, calls \ fewer) /\ c.at = "find"
    BY <2>1, <2>2 DEF Finds
  <2>4. Looking(c) /\ Spoken(c) /\ Thanked(c)
    BY <2>3 DEF CallsInv, Looking
  <2>5. c.event \in ReportedType
    BY <2>3, CallFields DEF IInv, TypeOK
  <2>6. e.trigger \notin {"None", "Dispatch"}
    BY <2>2, <2>5 DEF ReportedType
  <2>7. e.id \in 1 .. lastId
    BY <2>2, <2>6 DEF Issuing
  <2>8. Speaks(who, e)
    BY <2>2, <2>4 DEF Spoken
  <2>9. Thanks(who, e)
    BY <2>2, <2>4 DEF Thanked
  <2>10. CallsInv /\ Lone /\ e.trigger # "Dispatch"
    BY <2>6
  <2>11. UNCHANGED directory
    BY <2>3
  <2>12. Find(who, e, none, calls \ fewer)
    BY <2>3
  <2> QED BY ONLY <1>0, <2>7, <2>8, <2>9, <2>10, <2>11, <2>12, FindCallsInv
<1> QED BY <1>1, <1>2

(* The four kinds of report of a task.                                     *)
Reported(t, e) ==
  /\ Report(t, e) /\ t \in TaskType /\ e \in Reports(t) /\ e \in ReportedType
  /\ \A s : e # Resolved(s, << >>)

LEMMA TaskReported ==
  ASSUME NEW id \in ActivationIds,
         \/ ActivationReports(id) \/ FenceReports(id)
         \/ \E d \in Dispatches : DeliveryRefused(id, d)
         \/ \E mode \in Modes : RetirementReports(id, mode)
  PROVE  \E t, e : Reported(t, e)
<1>0. Errands(id) \subseteq TaskType
  BY ErrandTyped
<1>1. ASSUME NEW t \in Errands(id), NEW trigger \in {"ActivationSucceeded", "ActivationFailed", "FenceAcknowledged",
                                      "ForceDrain", "Terminated"},
             Report(t, [trigger |-> trigger, id |-> id]),
             [trigger |-> trigger, id |-> id] \in Reports(t)
      PROVE  \E u, e : Reported(u, e)
  <2> DEFINE e == [trigger |-> trigger, id |-> id]
  <2>1. e \in ReportedType
    BY DEF ReportedType
  <2>2. \A s : e # Resolved(s, << >>)
    <3>1. e.trigger # "DeliveryResolved"
      OBVIOUS
    <3> QED BY <3>1 DEF Resolved
  <2>3. Reported(t, e)
    BY <1>0, <1>1, <2>1, <2>2 DEF Reported
  <2> QED BY <2>3
<1>2. CASE ActivationReports(id)
  BY <1>1, <1>2, ReportsOf DEF ActivationReports, Errands
<1>3. CASE FenceReports(id)
  BY <1>1, <1>3, ReportsOf DEF FenceReports, Errands
<1>4. CASE \E mode \in Modes : RetirementReports(id, mode)
  BY <1>1, <1>4, ReportsOf DEF RetirementReports, Errands
<1>5. CASE \E d \in Dispatches : DeliveryRefused(id, d)
  <2>1. PICK d \in Dispatches : DeliveryRefused(id, d)
    BY <1>5
  <2> DEFINE e == Resolved(id, << d >>)
  <2>2. Report(Deliver(id, d), e)
    BY <2>1 DEF DeliveryRefused, Resolved
  <2>3. e \in ReportedType
    BY DEF ReportedType, Resolved
  <2>4. e \in Reports(Deliver(id, d)) /\ Deliver(id, d) \in TaskType
    BY DeliveryReports DEF TaskType
  <2>5. \A s : e # Resolved(s, << >>)
    <3>1. e.failure = << d >> /\ << d >> # << >>
      BY DEF Resolved
    <3> QED BY <3>1 DEF Resolved
  <2> QED BY <2>2, <2>3, <2>4, <2>5 DEF Reported
<1> QED BY <1>2, <1>3, <1>4, <1>5

LEMMA TaskCallsInv ==
  ASSUME IInv, Issuing, CallsInv, Lone, \E t, e : Reported(t, e)
  PROVE  CallsInv' /\ Lone'
<1>0. lastId \in Nat /\ 1 .. lastId \subseteq ActivationIds
  BY IssuedIds DEF IInv
<1>1. PICK t, e : Reported(t, e)
  OBVIOUS
<1>2. PICK none, more : none = {} /\ more = {t}
  OBVIOUS
<1>3. UNCHANGED directory /\ Find(t, e, more, calls \ none) /\ t \in tasks
  <2>1. UNCHANGED directory /\ Find(t, e, {t}, calls) /\ t \in tasks
    BY <1>1 DEF Reported, Report
  <2>2. calls \ none = calls
    BY <1>2
  <2> QED BY <1>2, <2>1, <2>2
<1>4. e.id = t.id /\ e.trigger # "Dispatch"
  BY <1>1, ReportTyped DEF Reported
<1>5. e.id \in 1 .. lastId
  BY <1>3, <1>4 DEF Issuing
<1>6. Speaks(t, e)
  BY <1>1 DEF Reported, Speaks
<1>7. Thanks(t, e)
  BY <1>1 DEF Reported, Thanks
<1> QED BY <1>0, <1>3, <1>4, <1>5, <1>6, <1>7, FindCallsInv

LEMMA AcceptedCallsInv ==
  ASSUME IInv, HandInv, CallsInv, Lone, NEW id \in ActivationIds, NEW d \in Dispatches, DeliveryAccepted(id, d)
  PROVE  CallsInv' /\ Lone'
<1>1. PICK t : t = Deliver(id, d)
  OBVIOUS
<1>2. PICK m : m = Call(t, "find", NoActivation, Resolved(id, << >>))
  OBVIOUS
<1>3. /\ UNCHANGED <<lastId, map, home>> /\ t \in tasks /\ Complete({d}, "Ok")
      /\ calls' = calls \cup {m}
  BY <1>1, <1>2 DEF DeliveryAccepted, Resolved, directory
<1>4. m.by = t /\ m.at = "find" /\ m.event = Resolved(id, << >>) /\ m.event \in Reports(t) /\ t \in TaskType
  <2>1. m.by = t /\ m.at = "find" /\ m.event = Resolved(id, << >>)
    BY <1>2 DEF Call
  <2>2. t \in TaskType
    BY <1>1 DEF TaskType
  <2>3. Resolved(id, << >>) \in Reports(t)
    BY <1>1, DeliveryReports
  <2> QED BY <2>1, <2>2, <2>3
<1>5. answer[d] = "Awaiting"
  BY <1>1, <1>3, UnanswerdHand
<1>6. answer'[d] = "Ok"
  BY <1>3, <1>5 DEF Complete
<1>7. Spoken(m) /\ Reaches(m)
  BY <1>1, <1>4 DEF Spoken, Speaks, Reaches
<1>8. \A s, x : t = Deliver(s, x) => x = d
  BY <1>1 DEF Deliver
<1>9. Thanked(m)'
  BY <1>4, <1>6, <1>8 DEF Thanked, Thanks
<1>10. \A x \in Dispatches : answer[x] = "Ok" => answer'[x] = "Ok"
  BY <1>3, OkStays
<1>11. CallsInv'
  BY <1>3, <1>7, <1>9, <1>10, CallsGrow
<1> QED BY <1>3, <1>11 DEF Lone

LEMMA NextCallsInv ==
  ASSUME IInv, HandInv, Issuing, CallsInv, Lone, Next
  PROVE  CallsInv' /\ Lone'
<1>1. CASE \E c \in calls : Proceeds(c) \/ InterpreterPanics(c)
  BY <1>1, ServingCallsInv, FinderCallsInv DEF Proceeds
<1>2. CASE \E n \in Entities :
             \/ \E d \in Dispatches :
                  DispatchMapped(d, n) \/ DispatchAbsent(d, n) \/ DispatchExhausted(d, n)
             \/ \E p \in Passivations : PassivateReads(p, n)
  BY <1>2, CallerCallsInv, IdledCallsInv
<1>3. CASE \E d \in Dispatches : Poll(d) \/ DropFuture(d)
  BY <1>3, IdledCallsInv, FinderCallsInv
<1>4. CASE \E id \in ActivationIds :
             \/ ActivationReports(id) \/ FenceReports(id)
             \/ \E d \in Dispatches : DeliveryAccepted(id, d) \/ DeliveryRefused(id, d)
             \/ \E mode \in Modes : RetirementReports(id, mode)
  BY <1>4, TaskReported, TaskCallsInv, AcceptedCallsInv
<1> QED BY <1>1, <1>2, <1>3, <1>4 DEF Next

LEMMA InitCallsInv == Init => CallsInv /\ Lone
BY TheEntity DEF Init, CallsInv, Lone, Entity, NoActivation

-----------------------------------------------------------------------------
(* Where the work of an effect is: queued in a slot, in a running task, or *)
(* with a call that reports it.                                            *)
Holds(w, k, x) ==
  \/ k = "queued" /\ x \in ActivationIds /\ Queues(outputs[x], w)
  \/ k = "running" /\ x = w /\ w \in tasks
  \/ k = "reporting" /\ x \in calls /\ Looking(x) /\ x.by = w

Held(w) == \E k, x : Holds(w, k, x)

Single(w) == \A j, k, x, y : Holds(w, j, x) /\ Holds(w, k, y) => j = k /\ x = y

Singly == \A w \in TaskType : Single(w) /\ \A s \in ActivationIds : OnceQueued(outputs[s], w)

(* The phase a slot is in while the work of an effect of it is going on.   *)
Due(s) ==
  /\ Held(StartActivation(s)) => slots[s].phase = "Activating"
  /\ Held(EnqueueFence(s)) => slots[s].phase = "Draining" /\ slots[s].reservations = 0
  /\ \A m \in Modes : Held(Retire(s, m)) => slots[s].phase = "Retiring"
  /\ \A m, n \in Modes : Held(Retire(s, m)) /\ Held(Retire(s, n)) => m = n

FailedGone == failed \subseteq 1 .. lastId /\ \A id \in failed : ~ Live(id)

WorkInv == Singly /\ (\A s \in ActivationIds : Due(s)) /\ FailedGone

(* A step leaves the work of w where it is, or moves all of it.            *)
GoesOn(w) ==
  \/ \A k, x : Holds(w, k, x)' => Holds(w, k, x)
  \/ \E j, y : \A k, x : Holds(w, k, x)' => k = j /\ x = y

LEMMA SingleKept ==
  ASSUME NEW w, Single(w), GoesOn(w)
  PROVE  Single(w)'
BY DEF Single, GoesOn

LEMMA WorkKept ==
  ASSUME WorkInv, UNCHANGED <<slots, failed, lastId>>,
         \A w \in TaskType : GoesOn(w) /\ (Held(w)' => Held(w)),
         \A w \in TaskType, s \in ActivationIds : OnceQueued(outputs'[s], w)
  PROVE  WorkInv'
<1>1. Singly'
  BY SingleKept DEF WorkInv, Singly
<1>2. ASSUME NEW s \in ActivationIds PROVE Due(s)'
  <2>1. Errands(s) \subseteq TaskType
    BY ErrandTyped
  <2>2. \A w \in Errands(s) : Held(w)' => Held(w)
    BY <2>1
  <2>3. Due(s)
    BY DEF WorkInv
  <2>4. (Held(StartActivation(s)) => slots[s].phase = "Activating")'
    BY <2>2, <2>3 DEF Due, Errands
  <2>5. (Held(EnqueueFence(s)) => slots[s].phase = "Draining" /\ slots[s].reservations = 0)'
    BY <2>2, <2>3 DEF Due, Errands
  <2>6. \A m \in Modes : Held(Retire(s, m))' => Held(Retire(s, m))
    BY <2>2 DEF Errands
  <2> QED BY <2>3, <2>4, <2>5, <2>6 DEF Due
<1>3. FailedGone'
  BY DEF WorkInv, FailedGone, Live
<1> QED BY <1>1, <1>2, <1>3 DEF WorkInv

(* Steps that move no work.                                                *)
LEMMA WorkUnmoved ==
  ASSUME UNCHANGED <<outputs, tasks>>,
         \A c \in calls : c \notin calls' /\ Looking(c) => c.by \notin TaskType,
         \A c \in calls' : c \notin calls /\ Looking(c) => c.by \notin TaskType,
         NEW w \in TaskType
  PROVE  (\A k, x : Holds(w, k, x)' <=> Holds(w, k, x)) /\ GoesOn(w) /\ (Held(w)' <=> Held(w))
<1>1. \A k, x : Holds(w, k, x)' <=> Holds(w, k, x)
  BY DEF Holds, Looking
<1> QED BY <1>1 DEF GoesOn, Held

(* A task reports, or its report is looked up: its work moves on with the  *)
(* call, or ends there.                                                    *)
LEMMA WorkReported ==
  ASSUME NEW t \in TaskType, Singly, UNCHANGED outputs,
         NEW gone, gone \subseteq calls,
         \/ t \in tasks /\ tasks' = tasks \ {t} /\ gone = {}
         \/ tasks' = tasks /\ \E c \in calls : Looking(c) /\ c.by = t /\ gone = {c},
         NEW more, \A m \in more : Looking(m) /\ m.by = t, \A l, m \in more : l = m,
         more \cap calls = {}, calls' = (calls \ gone) \cup more,
         NEW w \in TaskType
  PROVE  GoesOn(w) /\ (Held(w)' <=> Held(w) /\ (w = t => more # {}))
<1>1. CASE w = t
  <2>1. Single(w)
    BY DEF Singly
  <2>2. PICK j, y : /\ Holds(w, j, y)
                    /\ \/ j = "running" /\ gone = {} /\ tasks' = tasks \ {t}
                       \/ j = "reporting" /\ gone = {y} /\ tasks' = tasks
    <3>1. CASE t \in tasks /\ tasks' = tasks \ {t} /\ gone = {}
      <4>1. Holds(w, "running", w)
        BY <1>1, <3>1 DEF Holds
      <4> QED BY <3>1, <4>1
    <3>2. CASE tasks' = tasks /\ \E c \in calls : Looking(c) /\ c.by = t /\ gone = {c}
      <4>1. PICK c \in calls : Looking(c) /\ c.by = t /\ gone = {c}
        BY <3>2
      <4>2. Holds(w, "reporting", c)
        BY <1>1, <4>1 DEF Holds
      <4> QED BY <3>2, <4>1, <4>2
    <3> QED BY <3>1, <3>2
  <2>3. \A k, x : Holds(w, k, x) => k = j /\ x = y
    BY <2>1, <2>2 DEF Single
  <2>4. ASSUME NEW k, NEW x, Holds(w, k, x)' PROVE k = "reporting" /\ x \in more
    <3>1. CASE k = "queued" /\ x \in ActivationIds /\ Queues(outputs'[x], w)
      <4>1. Holds(w, k, x)
        BY <3>1 DEF Holds
      <4> QED BY <2>2, <2>3, <3>1, <4>1
    <3>2. CASE k = "running" /\ x = w /\ w \in tasks'
      <4>1. Holds(w, k, x)
        BY <2>2, <3>2 DEF Holds
      <4> QED BY <1>1, <2>2, <2>3, <3>2, <4>1
    <3>3. CASE k = "reporting" /\ x \in calls' /\ Looking(x) /\ x.by = w
      <4>1. CASE x \in calls
        <5>1. Holds(w, k, x)
          BY <3>3, <4>1 DEF Holds
        <5> QED BY <2>2, <2>3, <3>3, <4>1, <5>1
      <4>2. CASE x \notin calls
        BY <3>3, <4>2
      <4> QED BY <4>1, <4>2
    <3> QED BY <2>4, <3>1, <3>2, <3>3 DEF Holds, Looking
  <2>5. \A m \in more : Holds(w, "reporting", m)'
    BY <1>1 DEF Holds, Looking
  <2>6. CASE more = {}
    BY <1>1, <2>4, <2>6 DEF GoesOn, Held
  <2>7. CASE more # {}
    <3>1. PICK m \in more : TRUE
      BY <2>7
    <3>2. \A k, x : Holds(w, k, x)' => k = "reporting" /\ x = m
      BY <2>4, <3>1
    <3> QED BY <1>1, <2>2, <2>5, <3>1, <3>2 DEF GoesOn, Held
  <2> QED BY <2>6, <2>7
<1>2. CASE w # t
  <2>1. \A k, x : Holds(w, k, x)' <=> Holds(w, k, x)
    BY <1>2 DEF Holds, Looking
  <2> QED BY <1>2, <2>1 DEF GoesOn, Held
<1> QED BY <1>1, <1>2

LEMMA NothingStarted ==
  ASSUME NEW e \in Events, e.trigger # "ActivationSucceeded"
  PROVE  Started(Reduce(Inactive, e).effects) = {}
<1> DEFINE r == Reduce(Inactive, e)
<1>1. r = DecideInactive(e) /\ e.trigger # "ClaimActivation"
  BY EventFields DEF Reduce, Inactive, Slot
<1>2. CASE e.trigger = "DeliveryResolved"
  <2> DEFINE f == Rejections(e.failure, "Unavailable")
  <2>1. r.effects = f
    BY <1>1, <1>2 DEF DecideInactive, RejectFailedDelivery, Decision
  <2>2. Range(f) = {Reject(x, "Unavailable") : x \in Range(e.failure)}
    BY DEF Rejections, Range
  <2>3. \A fx \in Range(f) : fx.type = "Reject"
    BY <2>2 DEF Reject
  <2> HIDE DEF r, f
  <2> QED BY <2>1, <2>3 DEF Started, Asynchronous, r
<1>3. CASE e.trigger = "Dispatch"
  <2>1. r.effects = << Reject(e.d, "Unavailable") >> /\ Reject(e.d, "Unavailable").type = "Reject"
    BY <1>1, <1>3 DEF DecideInactive, Refuse, Decision, Reject
  <2> HIDE DEF r
  <2> QED BY <2>1, StartedOne DEF Asynchronous, r
<1>4. CASE e.trigger \notin {"DeliveryResolved", "Dispatch"}
  <2>1. r.effects = << >>
    BY <1>1, <1>4 DEF DecideInactive, Ignore, Decision
  <2> HIDE DEF r
  <2> QED BY <2>1 DEF Started, Range, r
<1> QED BY <1>2, <1>3, <1>4

-----------------------------------------------------------------------------
(* A task reports, and its report is looked up.                            *)

LEMMA TaskSpeaks ==
  ASSUME CallsInv, NEW c \in calls, Looking(c), c.by \in TaskType
  PROVE  /\ c.event \in Reports(c.by) /\ c.event.id = c.by.id
         /\ c.event.trigger \notin {"None", "Dispatch", "CancelWaiter", "BeginDrain"}
<1>1. Speaks(c.by, c.event)
  BY DEF CallsInv, Spoken
<1>2. c.event \in Reports(c.by)
  BY <1>1, DistinctAgents DEF Speaks
<1> QED BY <1>2, ReportTyped

LEMMA HeldIssued ==
  ASSUME IInv, Issuing, CallsInv, NEW w \in TaskType, Held(w)
  PROVE  w.id \in 1 .. lastId
<1>1. PICK k, x : Holds(w, k, x)
  BY DEF Held
<1>2. CASE k = "reporting" /\ x \in calls /\ Looking(x) /\ x.by = w
  BY <1>2, TaskSpeaks DEF Issuing
<1> QED BY <1>1, <1>2 DEF Holds, Issuing

(* Until it has reported, an attempt, a fence or a retirement has its slot *)
(* alive and mapped.                                                       *)
LEMMA HeldMapped ==
  ASSUME IInv, Issuing, CallsInv, WorkInv, NEW w \in TaskType, Held(w), w.type # "Deliver"
  PROVE  w.id \in 1 .. lastId /\ Live(w.id) /\ map[home[w.id]] = w.id /\ w.id # NoActivation
<1>1. w.id \in 1 .. lastId
  BY HeldIssued
<1>2. w.id \in ActivationIds
  BY TaskFields
<1>3. Due(w.id)
  BY <1>2 DEF WorkInv
<1>4. w.type \in {"StartActivation", "EnqueueFence", "Retire"}
  BY TaskFields DEF Asynchronous
<1>5. Live(w.id)
  BY <1>3, <1>4, TaskFields DEF Due, Live
<1> QED BY <1>1, <1>2, <1>5 DEF IInv, OneLiveIncarnation, ActivationIds, NoActivation

(* A lookup for a task.                                                    *)
LEMMA FoundWork ==
  ASSUME IInv, Issuing, CallsInv, WorkInv, UNCHANGED directory, UNCHANGED history,
         NEW t \in TaskType, NEW e \in Reports(t), e \in Events,
         NEW gone, NEW finished, Find(t, e, finished, calls \ gone),
         \/ t \in tasks /\ finished = {t} /\ gone = {}
         \/ finished = {} /\ \E c \in calls : c.at = "find" /\ c.by = t /\ gone = {c}
  PROVE  /\ WorkInv'
         /\ \A w \in TaskType :
              GoesOn(w) /\ (Held(w)' <=> Held(w) /\ (w = t => map[home[e.id]] # NoActivation))
<1>1. PICK m : m = Call(t, "submit", map[home[e.id]], e)
  OBVIOUS
<1>2. m.by = t /\ m.at = "submit" /\ Looking(m)
  BY <1>1 DEF Call, Looking
<1>3. Held(t) /\ Single(t)
  <2>1. t \in tasks => Holds(t, "running", t)
    BY DEF Holds
  <2>2. \A c \in calls : c.at = "find" /\ c.by = t => Holds(t, "reporting", c)
    BY DEF Holds, Looking
  <2> QED BY <2>1, <2>2 DEF Held, WorkInv, Singly
<1>4. m \notin calls
  <2> SUFFICES ASSUME m \in calls PROVE FALSE
    OBVIOUS
  <2>1. Holds(t, "reporting", m)
    BY <1>2 DEF Holds
  <2>2. CASE t \in tasks
    <3>1. Holds(t, "running", t)
      BY <2>2 DEF Holds
    <3> QED BY <1>3, <2>1, <3>1 DEF Single
  <2>3. CASE \E c \in calls : c.at = "find" /\ c.by = t
    <3>1. PICK c \in calls : c.at = "find" /\ c.by = t
      BY <2>3
    <3>2. Holds(t, "reporting", c)
      BY <3>1 DEF Holds, Looking
    <3> QED BY <1>2, <1>3, <2>1, <3>1, <3>2 DEF Single
  <2> QED BY <2>2, <2>3
<1>5. PICK more : more = IF map[home[e.id]] = NoActivation THEN {} ELSE {m}
  OBVIOUS
<1>6. map[home[e.id]] = NoActivation => Started(Reduce(Inactive, e).effects) = {}
  <2>1. e.trigger = "ActivationSucceeded" => map[home[e.id]] # NoActivation
    <3> SUFFICES ASSUME e.trigger = "ActivationSucceeded" PROVE map[home[e.id]] # NoActivation
      OBVIOUS
    <3>1. t = StartActivation(e.id) /\ e.id = t.id
      BY ReportedBy, ReportTyped
    <3>2. t.type # "Deliver"
      BY <3>1 DEF StartActivation
    <3> QED BY <1>3, <3>1, <3>2, HeldMapped
  <2> QED BY <2>1, NothingStarted
<1>7. tasks' = tasks \ finished /\ calls' = (calls \ gone) \cup more
  BY <1>1, <1>5, <1>6 DEF Find
<1>8. outputs' = outputs /\ slots' = slots /\ failed' = failed /\ lastId' = lastId
  BY DEF directory, history
<1>9. \/ t \in tasks /\ tasks' = tasks \ {t} /\ gone = {}
      \/ tasks' = tasks /\ \E c \in calls : Looking(c) /\ c.by = t /\ gone = {c}
  BY <1>7 DEF Looking
<1>10. gone \subseteq calls
  OBVIOUS
<1>11. (\A l \in more : Looking(l) /\ l.by = t) /\ (\A k, l \in more : k = l) /\ more \cap calls = {}
  BY <1>2, <1>4, <1>5
<1>12. Singly
  BY DEF WorkInv
<1>13. \A w \in TaskType : GoesOn(w) /\ (Held(w)' <=> Held(w) /\ (w = t => more # {}))
  BY <1>7, <1>8, <1>9, <1>10, <1>11, <1>12, WorkReported
<1>14. \A w \in TaskType, s \in ActivationIds : OnceQueued(outputs'[s], w)
  BY <1>8, <1>12 DEF Singly
<1>15. WorkInv'
  BY <1>8, <1>13, <1>14, WorkKept
<1> QED BY <1>5, <1>13, <1>15

LEMMA ReportedWork ==
  ASSUME IInv, Issuing, CallsInv, WorkInv, NEW t, NEW e, Reported(t, e)
  PROVE  /\ WorkInv'
         /\ \A w \in TaskType :
              GoesOn(w) /\ (Held(w)' <=> Held(w) /\ (w = t => map[home[e.id]] # NoActivation))
<1>1. PICK none, more : none = {} /\ more = {t}
  OBVIOUS
<1>2. UNCHANGED directory /\ UNCHANGED history /\ Find(t, e, {t}, calls) /\ t \in tasks
  BY DEF Reported, Report
<1>3. calls \ none = calls
  BY <1>1
<1>4. UNCHANGED directory
  BY <1>2
<1>5. UNCHANGED history
  BY <1>2
<1>6. Find(t, e, more, calls \ none)
  BY <1>1, <1>2, <1>3
<1>7. t \in TaskType /\ e \in Reports(t) /\ e \in Events
  BY DEF Reported, Events
<1>8. t \in tasks /\ more = {t} /\ none = {}
  BY <1>1, <1>2
<1> QED BY <1>4, <1>5, <1>6, <1>7, <1>8, FoundWork

LEMMA FindsWork ==
  ASSUME IInv, Issuing, CallsInv, WorkInv, NEW c \in calls, Finds(c), c.by \in TaskType
  PROVE  /\ WorkInv'
         /\ \A w \in TaskType :
              GoesOn(w) /\ (Held(w)' <=> Held(w) /\ (w = c.by => map[home[c.event.id]] # NoActivation))
<1>1. PICK t, e, none, gone : t = c.by /\ e = c.event /\ none = {} /\ gone = {c}
  OBVIOUS
<1>2. UNCHANGED directory /\ UNCHANGED history /\ Find(t, e, none, calls \ gone) /\ c.at = "find"
  BY <1>1 DEF Finds
<1>3. UNCHANGED directory
  BY <1>2
<1>4. UNCHANGED history
  BY <1>2
<1>5. Find(t, e, none, calls \ gone)
  BY <1>2
<1>6. t \in TaskType /\ e \in Reports(t) /\ e \in Events
  <2>1. Looking(c)
    BY <1>2 DEF Looking
  <2>2. c.event \in ReportedType
    BY <1>2, CallFields DEF IInv, TypeOK
  <2> QED BY <1>1, <2>1, <2>2, TaskSpeaks DEF Events
<1>7. none = {} /\ \E b \in calls : b.at = "find" /\ b.by = t /\ gone = {b}
  BY <1>1, <1>2
<1>8. /\ WorkInv'
      /\ \A w \in TaskType :
           GoesOn(w) /\ (Held(w)' <=> Held(w) /\ (w = t => map[home[e.id]] # NoActivation))
  BY <1>3, <1>4, <1>5, <1>6, <1>7, FoundWork
<1> QED BY <1>1, <1>8

LEMMA AcceptedWork ==
  ASSUME IInv, WorkInv, NEW id \in ActivationIds, NEW d \in Dispatches, DeliveryAccepted(id, d)
  PROVE  WorkInv' /\ \A w \in TaskType : GoesOn(w) /\ (Held(w)' <=> Held(w))
<1>1. PICK t : t = Deliver(id, d)
  OBVIOUS
<1>2. PICK m : m = Call(t, "find", NoActivation, Resolved(id, << >>))
  OBVIOUS
<1>3. /\ UNCHANGED <<outputs, slots, failed, lastId>> /\ t \in tasks /\ tasks' = tasks \ {t}
      /\ calls' = calls \cup {m} /\ t \in TaskType
  BY <1>1, <1>2 DEF DeliveryAccepted, Resolved, directory, history, TaskType
<1>4. m.by = t /\ Looking(m)
  BY <1>2 DEF Call, Looking
<1>5. m \notin calls
  <2>1. Holds(t, "running", t)
    BY <1>3 DEF Holds
  <2>2. m \in calls => Holds(t, "reporting", m)
    BY <1>4 DEF Holds
  <2>3. Single(t)
    BY <1>3 DEF WorkInv, Singly
  <2> QED BY <2>1, <2>2, <2>3 DEF Single
<1>6. PICK none, more : none = {} /\ more = {m}
  OBVIOUS
<1>7. (t \in tasks /\ tasks' = tasks \ {t} /\ none = {}) /\ none \subseteq calls
  BY <1>3, <1>6
<1>8. /\ (\A l \in more : Looking(l) /\ l.by = t) /\ (\A k, l \in more : k = l)
      /\ more \cap calls = {} /\ calls' = (calls \ none) \cup more
  BY <1>3, <1>4, <1>5, <1>6
<1>9. Singly
  BY DEF WorkInv
<1>10. \A w \in TaskType : GoesOn(w) /\ (Held(w)' <=> Held(w) /\ (w = t => more # {}))
  BY <1>3, <1>7, <1>8, <1>9, WorkReported
<1>11. \A w \in TaskType : GoesOn(w) /\ (Held(w)' <=> Held(w))
  BY <1>6, <1>10
<1>12. \A w \in TaskType, s \in ActivationIds : OnceQueued(outputs'[s], w)
  BY <1>3, <1>9 DEF Singly
<1> QED BY <1>3, <1>11, <1>12, WorkKept

-----------------------------------------------------------------------------
(* Steps of the interpreters and of callers that only ask.                 *)

LEMMA OnceDropped ==
  ASSUME NEW E, NEW q \in Seq(Seq(E) \ {<< >>}), q # << >>, NEW fx, OnceQueued(q, fx)
  PROVE  OnceQueued(Tail(q), fx)
<1> DEFINE B == Seq(E) \ {<< >>}
           t == Tail(q)
<1>1. q \in Seq(B)
  OBVIOUS
<1>2. /\ Len(q) \in Nat \ {0} /\ DOMAIN q = 1 .. Len(q)
      /\ DOMAIN t = 1 .. Len(q) - 1 /\ \A b \in DOMAIN t : t[b] = q[b + 1]
  <2> HIDE DEF B
  <2> QED BY <1>1
<1>3. \A b \in DOMAIN t : b + 1 \in DOMAIN q /\ b \in Int
  BY <1>2
<1> HIDE DEF t, B
<1>4. ASSUME NEW a \in DOMAIN t, NEW b \in DOMAIN t, NEW i \in DOMAIN t[a], NEW j \in DOMAIN t[b],
             t[a][i] = fx, t[b][j] = fx
      PROVE  a = b /\ i = j
  <2>1. a + 1 = b + 1 /\ i = j
    BY <1>2, <1>3, <1>4 DEF OnceQueued
  <2> QED BY <1>3, <2>1
<1> QED BY <1>4 DEF OnceQueued, t

(* The interpreter takes the first effect of a slot and spawns its task.   *)
LEMMA AppliedWork ==
  ASSUME IInv, WorkInv, NEW c \in calls, ApplyEffect(c)
  PROVE  WorkInv' /\ \A w \in TaskType : GoesOn(w) /\ (Held(w)' <=> Held(w))
<1>1. PICK s, q : s = c.slot /\ q = outputs[s]
  OBVIOUS
<1>2. /\ s \in ActivationIds /\ q \in Seq(Seq(EffectType) \ {<< >>}) /\ q # << >>
  BY <1>1, Owned DEF ApplyEffect
<1>3. PICK fx, left : fx = Head(Head(q)) /\ left = Batches(Tail(Head(q))) \o Tail(q)
  OBVIOUS
<1>4. fx \in EffectType
  BY <1>2, <1>3, QueueTyped
<1>5. /\ UNCHANGED <<slots, failed, lastId, calls>>
      /\ outputs' = [outputs EXCEPT ![s] = left]
      /\ tasks' = tasks \cup Started(<< fx >>)
  BY <1>1, <1>3 DEF ApplyEffect, Batch, history
<1>6. outputs \in [ActivationIds -> Seq(Seq(EffectType) \ {<< >>})]
  BY DEF IInv, TypeOK
<1>7. outputs'[s] = left /\ \A u \in ActivationIds : u # s => outputs'[u] = outputs[u]
  BY <1>2, <1>5, <1>6
<1>8. \A w : Queues(q, w) <=> w = fx \/ Queues(left, w)
  BY <1>2, <1>3, QueuesTaken
<1>9. \A w : OnceQueued(q, w) => OnceQueued(left, w) /\ (w = fx => ~ Queues(left, w))
  BY <1>2, <1>3, OnceTaken
<1>10. Started(<< fx >>) = IF fx.type \in Asynchronous THEN {fx} ELSE {}
  BY StartedOne
<1>11. ASSUME NEW w \in TaskType PROVE GoesOn(w) /\ (Held(w)' <=> Held(w))
  <2>1. Single(w) /\ OnceQueued(q, w) /\ w.type \in Asynchronous
    BY <1>1, <1>2, TaskFields DEF WorkInv, Singly
  <2>2. CASE w = fx
    <3>1. Holds(w, "queued", s)
      BY <1>1, <1>2, <1>8, <2>2 DEF Holds
    <3>2. \A k, x : Holds(w, k, x) => k = "queued" /\ x = s
      BY <2>1, <3>1 DEF Single
    <3>3. w \in tasks'
      BY <1>5, <1>10, <2>1, <2>2
    <3>4. Holds(w, "running", w)'
      BY <3>3 DEF Holds
    <3>5. ASSUME NEW k, NEW x, Holds(w, k, x)' PROVE k = "running" /\ x = w
      <4>1. CASE k = "queued" /\ x \in ActivationIds /\ Queues(outputs'[x], w)
        <5>1. x # s
          BY <1>7, <1>9, <2>1, <2>2, <4>1
        <5>2. Holds(w, k, x)
          BY <1>7, <4>1, <5>1 DEF Holds
        <5> QED BY <3>2, <5>1, <5>2
      <4>2. CASE k = "reporting" /\ x \in calls' /\ Looking(x) /\ x.by = w
        <5>1. Holds(w, k, x)
          BY <1>5, <4>2 DEF Holds
        <5> QED BY <3>2, <4>2, <5>1
      <4> QED BY <3>5, <4>1, <4>2 DEF Holds, Looking
    <3> QED BY <3>1, <3>4, <3>5 DEF GoesOn, Held
  <2>3. CASE w # fx
    <3>1. w \in tasks' <=> w \in tasks
      BY <1>5, <1>10, <2>3
    <3>2. \A u \in ActivationIds : Queues(outputs'[u], w) <=> Queues(outputs[u], w)
      BY <1>1, <1>7, <1>8, <2>3
    <3>3. \A k, x : Holds(w, k, x)' <=> Holds(w, k, x)
      BY <1>5, <3>1, <3>2 DEF Holds, Looking
    <3> QED BY <3>3 DEF GoesOn, Held
  <2> QED BY <2>2, <2>3
<1>12. \A w \in TaskType, u \in ActivationIds : OnceQueued(outputs'[u], w)
  BY <1>1, <1>2, <1>7, <1>9 DEF WorkInv, Singly
<1> QED BY <1>5, <1>11, <1>12, WorkKept

LEMMA PanickedWork ==
  ASSUME IInv, WorkInv, NEW c \in calls, InterpreterPanics(c)
  PROVE  WorkInv' /\ \A w \in TaskType : Held(w)' => Held(w)
<1>1. PICK s, q : s = c.slot /\ q = outputs[s]
  OBVIOUS
<1>2. /\ s \in ActivationIds /\ q \in Seq(Seq(EffectType) \ {<< >>}) /\ q # << >>
  BY <1>1, Owned DEF InterpreterPanics
<1>3. PICK left : left = Tail(q)
  OBVIOUS
<1>4. /\ UNCHANGED <<slots, failed, lastId, tasks>> /\ calls' \subseteq calls
      /\ outputs' = [outputs EXCEPT ![s] = left]
  BY <1>1, <1>3 DEF InterpreterPanics
<1>5. outputs \in [ActivationIds -> Seq(Seq(EffectType) \ {<< >>})]
  BY DEF IInv, TypeOK
<1>6. outputs'[s] = left /\ \A u \in ActivationIds : u # s => outputs'[u] = outputs[u]
  BY <1>2, <1>4, <1>5
<1>7. \A w : Queues(left, w) => Queues(q, w)
  BY <1>2, <1>3, QueuesTaken
<1>8. \A w : OnceQueued(q, w) => OnceQueued(left, w)
  BY <1>2, <1>3, OnceDropped
<1>9. ASSUME NEW w \in TaskType PROVE GoesOn(w) /\ (Held(w)' => Held(w))
  <2>1. \A k, x : Holds(w, k, x)' => Holds(w, k, x)
    BY <1>1, <1>4, <1>6, <1>7 DEF Holds, Looking
  <2> QED BY <2>1 DEF GoesOn, Held
<1>10. \A w \in TaskType, u \in ActivationIds : OnceQueued(outputs'[u], w)
  BY <1>1, <1>2, <1>6, <1>8 DEF WorkInv, Singly
<1> QED BY <1>4, <1>9, <1>10, WorkKept

(* The steps of callers and interpreters that move no work.                *)
Idles ==
  \/ \E n \in Entities :
       \/ \E d \in Dispatches : DispatchMapped(d, n) \/ DispatchExhausted(d, n)
       \/ \E p \in Passivations : PassivateReads(p, n)
  \/ \E d \in Dispatches : Poll(d) \/ DropFuture(d)
  \/ \E c \in calls : Interpret(c) \/ Release(c)
  \/ \E c \in calls : Finds(c) /\ c.by \notin TaskType

LEMMA IdleWork ==
  ASSUME IInv, CallsInv, WorkInv, Idles
  PROVE  /\ UNCHANGED <<lastId, slots, outputs, tasks, failed, acked, map, home>>
         /\ \A c \in calls : c \notin calls' /\ Looking(c) => c.by \notin TaskType
         /\ \A c \in calls' : c \notin calls /\ Looking(c) => c.by \notin TaskType
<1>0. \A d \in Dispatches \cup Passivations : d \notin TaskType
  BY DistinctAgents
<1>1. CASE \E n \in Entities, d \in Dispatches : DispatchMapped(d, n)
  <2>1. PICK n \in Entities, d \in Dispatches : DispatchMapped(d, n)
    BY <1>1
  <2>2. PICK m : m = Call(d, "submit", map[n], [trigger |-> "Dispatch", d |-> d])
    OBVIOUS
  <2>3. m.by = d
    BY <2>2 DEF Call
  <2>4. /\ calls' = calls \cup {m}
        /\ UNCHANGED <<lastId, slots, outputs, tasks, failed, acked, map, home>>
    BY <2>1, <2>2 DEF DispatchMapped, directory, history
  <2> QED BY <1>0, <2>3, <2>4
<1>2. CASE \E n \in Entities, p \in Passivations : PassivateReads(p, n)
  <2>1. PICK n \in Entities, p \in Passivations : PassivateReads(p, n)
    BY <1>2
  <2>2. PICK m : m = Call(p, "find", NoActivation, [trigger |-> "BeginDrain", id |-> slots[map[n]].id])
    OBVIOUS
  <2>3. m.by = p
    BY <2>2 DEF Call
  <2>4. /\ calls' = calls \cup {m}
        /\ UNCHANGED <<lastId, slots, outputs, tasks, failed, acked, map, home>>
    BY <2>1, <2>2 DEF PassivateReads, directory, history
  <2> QED BY <1>0, <2>3, <2>4
<1>3. CASE \/ \E n \in Entities, d \in Dispatches : DispatchExhausted(d, n)
           \/ \E d \in Dispatches : Poll(d)
  BY <1>3 DEF DispatchExhausted, Poll, directory, history
<1>4. CASE \E d \in Dispatches : DropFuture(d)
  <2>1. PICK d \in Dispatches : DropFuture(d)
    BY <1>4
  <2>2. PICK e : e = [trigger |-> "CancelWaiter", id |-> ticket[d], d |-> d]
    OBVIOUS
  <2>3. UNCHANGED <<lastId, slots, outputs, failed, acked, map, home>>
    BY <2>1 DEF DropFuture, directory, history
  <2>4. CASE ticket[d] = NoActivation
    BY <2>1, <2>3, <2>4 DEF DropFuture
  <2>5. CASE ticket[d] # NoActivation
    <3>1. ticket[d] \in ActivationIds
      BY <2>5, IssuedIds DEF IInv, TypeOK, NoActivation
    <3>2. e \in Events /\ e.trigger # "ActivationSucceeded"
      BY <2>2, <3>1 DEF Events, ReportedType
    <3>3. Started(Reduce(Inactive, e).effects) = {}
      BY <3>2, NothingStarted
    <3>4. PICK m : m = Call(d, "submit", map[home[e.id]], e)
      OBVIOUS
    <3>5. m.by = d
      BY <3>4 DEF Call
    <3>6. Find(d, e, {}, calls)
      BY <2>1, <2>2, <2>5 DEF DropFuture
    <3>7. tasks' = tasks /\ (calls' = calls \/ calls' = calls \cup {m})
      BY <3>3, <3>4, <3>6 DEF Find
    <3> QED BY <1>0, <2>3, <3>5, <3>7
  <2> QED BY <2>4, <2>5
<1>5. CASE \E c \in calls : Interpret(c) \/ Release(c)
  <2>1. PICK c \in calls : Interpret(c) \/ Release(c)
    BY <1>5
  <2>2. UNCHANGED <<lastId, slots, outputs, tasks, failed, acked, map, home>>
    BY <2>1 DEF Interpret, Release, history
  <2>3. ~ Looking(c)
    BY <2>1 DEF Interpret, Release, Looking
  <2>4. PICK m : m = Call(c.by, "own", c.slot, NoEvent)
    OBVIOUS
  <2>5. ~ Looking(m)
    BY <2>4 DEF Call, Looking
  <2>6. calls' = calls \ {c} \/ calls' = (calls \ {c}) \cup {m}
    BY <2>1, <2>4 DEF Interpret, Release, Moved
  <2> QED BY <2>2, <2>3, <2>5, <2>6
<1>6. CASE \E c \in calls : Finds(c) /\ c.by \notin TaskType
  <2>1. PICK c \in calls : Finds(c) /\ c.by \notin TaskType
    BY <1>6
  <2>2. c.event \in ReportedType /\ c.at = "find"
    BY <2>1, CallFields DEF Finds, IInv, TypeOK
  <2>3. c.event.trigger # "ActivationSucceeded"
    BY <2>1, <2>2 DEF CallsInv, Looking, Spoken, Speaks
  <2>4. Started(Reduce(Inactive, c.event).effects) = {}
    BY <2>2, <2>3, NothingStarted DEF Events
  <2>5. PICK m : m = Call(c.by, "submit", map[home[c.event.id]], c.event)
    OBVIOUS
  <2>6. m.by = c.by
    BY <2>5 DEF Call
  <2>7. Find(c.by, c.event, {}, calls \ {c}) /\ UNCHANGED <<lastId, slots, outputs, failed, acked, map, home>>
    BY <2>1 DEF Finds, directory, history
  <2>8. tasks' = tasks /\ (calls' = calls \ {c} \/ calls' = (calls \ {c}) \cup {m})
    BY <2>4, <2>5, <2>7 DEF Find
  <2> QED BY <2>1, <2>6, <2>7, <2>8
<1> QED BY <1>1, <1>2, <1>3, <1>4, <1>5, <1>6 DEF Idles

LEMMA IdledWork ==
  ASSUME IInv, CallsInv, WorkInv, Idles
  PROVE  WorkInv' /\ \A w \in TaskType : GoesOn(w) /\ (Held(w)' <=> Held(w))
<1>1. \A w \in TaskType : GoesOn(w) /\ (Held(w)' <=> Held(w))
  BY IdleWork, WorkUnmoved
<1>2. \A w \in TaskType, s \in ActivationIds : OnceQueued(outputs'[s], w)
  BY IdleWork DEF WorkInv, Singly
<1> QED BY <1>1, <1>2, IdleWork, WorkKept

-----------------------------------------------------------------------------
(* A claim.                                                                *)

(* A claim queues the attempt of a new activation.                         *)
LEMMA ClaimedWork ==
  ASSUME IInv, Issuing, CallsInv, WorkInv, NEW d \in Dispatches, NEW n \in Entities, DispatchAbsent(d, n)
  PROVE  /\ WorkInv'
         /\ lastId' = lastId + 1 /\ lastId' \in ActivationIds
         /\ \A w \in TaskType : Held(w)' <=> Held(w) \/ w = StartActivation(lastId')
         /\ slots' = [slots EXCEPT ![lastId'] = Activating(lastId', << d >>)]
         /\ outputs' = [outputs EXCEPT ![lastId'] = << << StartActivation(lastId') >> >>]
         /\ map' = [map EXCEPT ![n] = lastId']
         /\ calls' = calls \cup {Call(d, "interpret", lastId', NoEvent)}
         /\ future' = [future EXCEPT ![d] = "polled"]
         /\ UNCHANGED <<tasks, answer, failed, acked>>
<1>1. PICK id \in ActivationIds : Allocated(id) /\ lastId' = id /\ Claim(d, n, id)
  BY DEF DispatchAbsent
<1>2. lastId \in Nat /\ id = lastId + 1 /\ id \in Nat /\ id \notin 1 .. lastId
  BY <1>1, IssuedIds DEF Allocated, IInv
<1> DEFINE e == [trigger |-> "ClaimActivation", id |-> id, d |-> d]
<1>3. Reduce(Inactive, e) = Decision(Activating(id, << d >>), << StartActivation(id) >>)
  BY DEF Reduce, DecideInactive, Inactive, Slot
<1>4. PICK w0 : w0 = StartActivation(id)
  OBVIOUS
<1>5. PICK q : q = << << w0 >> >>
  OBVIOUS
<1>6. Batches(<< w0 >>) = q
  BY <1>5 DEF Batches
<1>7. /\ slots' = [slots EXCEPT ![id] = Activating(id, << d >>)]
      /\ outputs' = [outputs EXCEPT ![id] = q]
      /\ calls' = calls \cup {Call(d, "interpret", id, NoEvent)}
      /\ map' = [map EXCEPT ![n] = id]
      /\ future' = [future EXCEPT ![d] = "polled"]
      /\ UNCHANGED <<tasks, answer, failed, acked>>
  <2>1. PICK r : r = Reduce(Inactive, e)
    OBVIOUS
  <2>2. r.slot = Activating(id, << d >>) /\ r.effects = << w0 >>
    BY <1>3, <1>4, <2>1 DEF Decision
  <2>3. /\ slots' = [slots EXCEPT ![id] = r.slot]
        /\ outputs' = [outputs EXCEPT ![id] = Batches(r.effects)]
    BY <1>1, <2>1 DEF Claim
  <2>4. /\ calls' = calls \cup {Call(d, "interpret", id, NoEvent)}
        /\ map' = [map EXCEPT ![n] = id]
        /\ future' = [future EXCEPT ![d] = "polled"]
        /\ UNCHANGED <<tasks, answer, failed, acked>>
    BY <1>1 DEF Claim, history
  <2> QED BY <1>6, <2>2, <2>3, <2>4
<1>8. PICK m : m = Call(d, "interpret", id, NoEvent)
  OBVIOUS
<1>9. ~ Looking(m)
  BY <1>8 DEF Looking, Call
<1>10. outputs \in [ActivationIds -> Seq(Seq(EffectType) \ {<< >>})] /\ slots \in [ActivationIds -> SlotType]
  BY DEF IInv, TypeOK
<1>11. outputs'[id] = q /\ \A u \in ActivationIds : u # id => outputs'[u] = outputs[u]
  BY <1>7, <1>10
<1>12. slots'[id] = Activating(id, << d >>) /\ \A u \in ActivationIds : u # id => slots'[u] = slots[u]
  BY <1>7, <1>10
<1>13. \A w : Queues(q, w) <=> w = w0
  <2>1. Range(<< w0 >>) = {w0}
    BY SingleRange
  <2> QED BY <1>5, <2>1, QueuesBatches
<1>14. \A w : OnceQueued(q, w)
  <2>1. DOMAIN q = {1} /\ q[1] = << w0 >> /\ DOMAIN << w0 >> = {1}
    BY <1>5
  <2> QED BY <2>1 DEF OnceQueued
<1>15. w0 \in TaskType /\ w0.id = id
  BY <1>4 DEF TaskType, StartActivation
<1>16. ~ Held(w0) /\ \A w \in Errands(id) : ~ Held(w)
  <2>1. \A w \in Errands(id) : w \in TaskType /\ w.id = id
    BY ErrandTyped, ErrandFields DEF Errands
  <2> QED BY <1>2, <1>15, <2>1, HeldIssued
<1>17. ASSUME NEW w \in TaskType PROVE GoesOn(w) /\ (Held(w)' <=> Held(w) \/ w = w0)
  <2>1. \A k, x : k # "queued" => (Holds(w, k, x)' <=> Holds(w, k, x))
    BY <1>7, <1>8, <1>9 DEF Holds, Looking
  <2>2. \A x : x # id => (Holds(w, "queued", x)' <=> Holds(w, "queued", x))
    BY <1>11 DEF Holds
  <2>3. Holds(w, "queued", id)' <=> w = w0
    BY <1>11, <1>13 DEF Holds
  <2>4. CASE w = w0
    <3>1. \A k, x : ~ Holds(w, k, x)
      BY <1>16, <2>4 DEF Held
    <3>2. \A k, x : Holds(w, k, x)' => k = "queued" /\ x = id
      BY <2>1, <2>2, <3>1
    <3> QED BY <2>3, <2>4, <3>2 DEF GoesOn, Held
  <2>5. CASE w # w0
    <3>1. ~ Holds(w, "queued", id)
      <4> SUFFICES ASSUME Holds(w, "queued", id) PROVE FALSE
        OBVIOUS
      <4>1. outputs[id] # << >>
        BY QueuesBatches DEF Holds
      <4> QED BY <1>2, <4>1 DEF IInv, Unissued
    <3>2. \A k, x : Holds(w, k, x)' <=> Holds(w, k, x)
      BY <2>1, <2>2, <2>3, <2>5, <3>1
    <3> QED BY <2>5, <3>2 DEF GoesOn, Held
  <2> QED BY <2>4, <2>5
<1>18. Singly'
  <2>1. \A w \in TaskType, u \in ActivationIds : OnceQueued(outputs'[u], w)
    BY <1>11, <1>14 DEF WorkInv, Singly
  <2> QED BY <1>17, <2>1, SingleKept DEF WorkInv, Singly
<1>19. ASSUME NEW s \in ActivationIds PROVE Due(s)'
  <2>1. Errands(s) \subseteq TaskType
    BY ErrandTyped
  <2>2. \A w \in Errands(s) : Held(w)' => Held(w) \/ w = w0
    BY <1>17, <2>1
  <2>3. Due(s)
    BY DEF WorkInv
  <2>4. EnqueueFence(s) # w0 /\ \A mode : Retire(s, mode) # w0
    BY <1>4 DEF EnqueueFence, StartActivation, Retire
  <2>5. Held(EnqueueFence(s))' => Held(EnqueueFence(s))
    BY <2>2, <2>4 DEF Errands
  <2>6. \A mode \in Modes : Held(Retire(s, mode))' => Held(Retire(s, mode))
    BY <2>2, <2>4 DEF Errands
  <2>7. CASE s = id
    <3>1. ~ Held(EnqueueFence(s)) /\ \A mode \in Modes : ~ Held(Retire(s, mode))
      BY <1>16, <2>7 DEF Errands
    <3>2. slots'[s].phase = "Activating"
      BY <1>12, <2>7 DEF Activating, Slot
    <3> QED BY <2>5, <2>6, <3>1, <3>2 DEF Due
  <2>8. CASE s # id
    <3>1. StartActivation(s) # w0
      BY <1>4, <2>8 DEF StartActivation
    <3>2. Held(StartActivation(s))' => Held(StartActivation(s))
      BY <2>2, <3>1 DEF Errands
    <3>3. slots'[s] = slots[s]
      BY <1>12, <2>8
    <3> QED BY <2>3, <2>5, <2>6, <3>2, <3>3 DEF Due
  <2> QED BY <2>7, <2>8
<1>20. FailedGone'
  <2>1. \A f \in failed : f \in 1 .. lastId /\ f # id /\ f \in ActivationIds /\ ~ Live(f)
    BY <1>2, IssuedIds DEF WorkInv, FailedGone, IInv
  <2>2. 1 .. lastId \subseteq 1 .. lastId'
    BY <1>1, <1>2
  <2> QED BY <1>7, <1>12, <2>1, <2>2 DEF FailedGone, Live
<1>21. WorkInv'
  BY <1>18, <1>19, <1>20 DEF WorkInv
<1> QED BY <1>1, <1>2, <1>4, <1>5, <1>7, <1>17, <1>21

-----------------------------------------------------------------------------
(* One reduction of a fact that its task has the right to report.          *)

Timely(s, k, e) ==
  /\ e.trigger \in {"ActivationSucceeded", "ActivationFailed"} => e.id = s /\ k.phase = "Activating"
  /\ e.trigger \in {"FenceAcknowledged", "ForceDrain"} =>
       e.id = s /\ k.phase = "Draining" /\ k.reservations = 0
  /\ e.trigger = "Terminated" => e.id = s /\ k.phase = "Retiring"

(* What the reduction starts.                                              *)
Starts(s, k, e, r, fx) ==
  \/ \E d \in Dispatches :
       fx = Deliver(s, d) /\ (Waits(k, d) \/ (e.trigger = "Dispatch" /\ e.d = d))
  \/ /\ fx = EnqueueFence(s)
     /\ k.phase = "Active" \/ (k.phase = "Draining" /\ k.reservations # 0)
     /\ r.slot.phase = "Draining" /\ r.slot.reservations = 0
  \/ /\ \E m \in Modes : fx = Retire(s, m) /\ \A gx \in Started(r.effects) : gx = fx
     /\ k.phase = "Draining" /\ r.slot.phase = "Retiring"

Course(s, k, e, r) ==
  /\ \A fx \in Started(r.effects) : OnceIn(r.effects, fx) /\ Starts(s, k, e, r, fx)
  /\ k.phase = "Activating" =>
       r.slot.phase = "Activating" \/ e.trigger \in {"ActivationSucceeded", "ActivationFailed"}
  /\ k.phase = "Draining" /\ k.reservations = 0 =>
       \/ r.slot.phase = "Draining" /\ r.slot.reservations = 0
       \/ e.trigger \in {"FenceAcknowledged", "ForceDrain"}
  /\ k.phase = "Retiring" => r.slot.phase = "Retiring" \/ e.trigger = "Terminated"
  /\ k.phase = "Inactive" => r.slot.phase = "Inactive"
  /\ e.trigger = "ActivationFailed" => r.slot.phase = "Inactive"

LEMMA StillCourse ==
  ASSUME NEW s, NEW k, NEW e, NEW r, Started(r.effects) = {}, r.slot.phase = k.phase,
         r.slot.reservations = k.reservations \/ k.phase # "Draining",
         e.trigger # "ActivationFailed" \/ k.phase = "Inactive"
  PROVE  Course(s, k, e, r)
BY DEF Course

LEMMA SilentStarts ==
  /\ Started(<< >>) = {}
  /\ \A ds, reason : Started(Rejections(ds, reason)) = {}
  /\ \A d, reason : Started(<< Reject(d, reason) >>) = {}
  /\ \A id : Started(<< RemoveEntry(id) >>) = {}
<1>1. Started(<< >>) = {}
  BY DEF Started, Range
<1>2. ASSUME NEW ds, NEW reason PROVE Started(Rejections(ds, reason)) = {}
  <2> DEFINE x == Rejections(ds, reason)
  <2>1. Range(x) = {Reject(d, reason) : d \in Range(ds)}
    BY DEF Rejections, Range
  <2>2. \A fx \in Range(x) : fx.type = "Reject"
    BY <2>1 DEF Reject
  <2> HIDE DEF x
  <2>3. Started(x) = {}
    BY <2>2 DEF Started, Asynchronous
  <2> QED BY <2>3 DEF x
<1>3. ASSUME NEW d, NEW reason PROVE Started(<< Reject(d, reason) >>) = {}
  <2>1. PICK fx : fx = Reject(d, reason)
    OBVIOUS
  <2>2. fx.type \notin Asynchronous
    BY <2>1 DEF Reject, Asynchronous
  <2> QED BY <2>1, <2>2, StartedOne
<1>4. ASSUME NEW id PROVE Started(<< RemoveEntry(id) >>) = {}
  <2>1. PICK fx : fx = RemoveEntry(id)
    OBVIOUS
  <2>2. fx.type \notin Asynchronous
    BY <2>1 DEF RemoveEntry, Asynchronous
  <2> QED BY <2>1, <2>2, StartedOne
<1> QED BY <1>1, <1>2, <1>3, <1>4

LEMMA OneStart ==
  ASSUME NEW fx, fx.type \in Asynchronous
  PROVE  Started(<< fx >>) = {fx} /\ OnceIn(<< fx >>, fx)
<1>1. DOMAIN << fx >> = {1}
  OBVIOUS
<1> QED BY <1>1, StartedOne DEF OnceIn

LEMMA InactiveCourse ==
  ASSUME NEW s, NEW k, k.phase = "Inactive", NEW e \in Events, Timely(s, k, e)
  PROVE  Course(s, k, e, Reduce(k, e))
<1> DEFINE r == Reduce(k, e)
<1>1. r = DecideInactive(e) /\ e.trigger \notin {"ClaimActivation", "ActivationSucceeded"}
  BY EventFields DEF Reduce, Timely
<1>2. Reduce(Inactive, e) = DecideInactive(e)
  BY DEF Reduce, Inactive, Slot
<1>3. Started(r.effects) = {}
  BY <1>1, <1>2, NothingStarted
<1>4. r.slot = Inactive
  BY <1>1 DEF DecideInactive, Refuse, RejectFailedDelivery, Ignore, Decision
<1> HIDE DEF r
<1>5. Course(s, k, e, r)
  BY <1>3, <1>4, StillCourse DEF Inactive, Slot
<1> QED BY <1>5 DEF r

LEMMA ActivatingCourse ==
  ASSUME NEW s, NEW k, k.phase = "Activating", k.id = s, k.waiters \in Seq(Dispatches), IsInjective(k.waiters),
         NEW e \in Events, Timely(s, k, e)
  PROVE  Course(s, k, e, Reduce(k, e))
<1> DEFINE r == Reduce(k, e)
<1>1. r = DecideActivating(k, e) /\ e.trigger # "ClaimActivation"
  BY EventFields DEF Reduce
<1>2. CASE e.trigger = "Dispatch"
  <2>1. r = AdmitWaiter(k, e.d)
    BY <1>1, <1>2 DEF DecideActivating
  <2>2. CASE Len(k.waiters) < WaiterLimit
    <3>1. r.slot.phase = "Activating" /\ r.effects = << >>
      BY <2>1, <2>2 DEF AdmitWaiter, Ignore, Decision, Activating, Slot
    <3> HIDE DEF r
    <3>2. Course(s, k, e, r)
      BY <1>2, <3>1, SilentStarts, StillCourse
    <3> QED BY <3>2 DEF r
  <2>3. CASE ~ (Len(k.waiters) < WaiterLimit)
    <3>1. r.slot = k /\ r.effects = << Reject(e.d, "Busy") >>
      BY <2>1, <2>3 DEF AdmitWaiter, Refuse, Decision
    <3> HIDE DEF r
    <3>2. Course(s, k, e, r)
      BY <1>2, <3>1, SilentStarts, StillCourse
    <3> QED BY <3>2 DEF r
  <2> QED BY <2>2, <2>3
<1>3. CASE e.trigger = "DeliveryResolved"
  <2>1. r.slot = k /\ r.effects = Rejections(e.failure, "Unavailable")
    BY <1>1, <1>3 DEF DecideActivating, RejectFailedDelivery, Decision
  <2> HIDE DEF r
  <2>2. Course(s, k, e, r)
    BY <1>3, <2>1, SilentStarts, StillCourse
  <2> QED BY <2>2 DEF r
<1>4. CASE e.trigger = "ActivationSucceeded"
  <2> DEFINE x == Deliveries(s, k.waiters)
  <2>1. r.effects = x /\ r.slot.phase = "Active"
    BY <1>1, <1>4 DEF DecideActivating, FinishActivation, Decision, Timely, Active, Slot
  <2>2. DOMAIN x = DOMAIN k.waiters /\ \A i \in DOMAIN x : x[i] = Deliver(s, k.waiters[i])
    BY DEF Deliveries
  <2> HIDE DEF r, x
  <2>3. ASSUME NEW fx \in Started(r.effects) PROVE OnceIn(r.effects, fx) /\ Starts(s, k, e, r, fx)
    <3>1. PICK i \in DOMAIN x : fx = Deliver(s, k.waiters[i])
      BY <2>1, <2>2, <2>3 DEF Started, Range
    <3>2. k.waiters[i] \in Dispatches /\ Waits(k, k.waiters[i])
      BY <2>2, <3>1 DEF Waits, Range
    <3>3. \A a, b : Deliver(s, a) = Deliver(s, b) => a = b
      BY DEF Deliver
    <3>4. OnceIn(x, fx)
      <4> SUFFICES ASSUME NEW a \in DOMAIN x, NEW b \in DOMAIN x, x[a] = fx, x[b] = fx PROVE a = b
        BY DEF OnceIn
      <4>1. k.waiters[a] = k.waiters[b]
        BY <2>2, <3>3
      <4> QED BY <2>2, <4>1 DEF IsInjective
    <3> QED BY <2>1, <3>1, <3>2, <3>4 DEF Starts
  <2>4. Course(s, k, e, r)
    BY <1>4, <2>1, <2>3 DEF Course
  <2> QED BY <2>4 DEF r
<1>5. CASE e.trigger = "ActivationFailed"
  <2> DEFINE x == Rejections(k.waiters, "Unavailable")
  <2>1. r.effects = Append(x, RemoveEntry(s)) /\ r.slot.phase = "Inactive"
    BY <1>1, <1>5 DEF DecideActivating, FailActivation, Decision, Timely, Inactive, Slot
  <2>2. x \in Seq(CalmEffect)
    BY RejectionsTyped DEF Reasons
  <2>3. Range(x) = {Reject(d, "Unavailable") : d \in Range(k.waiters)}
    BY DEF Rejections, Range
  <2>4. \A fx \in Range(x) : fx.type = "Reject"
    BY <2>3 DEF Reject
  <2>5. RemoveEntry(s).type = "Remove"
    BY DEF RemoveEntry
  <2> HIDE DEF r, x
  <2>6. \A fx \in Range(Append(x, RemoveEntry(s))) : fx \in Range(x) \/ fx = RemoveEntry(s)
    BY <2>2 DEF Range
  <2>7. Started(r.effects) = {}
    BY <2>1, <2>4, <2>5, <2>6 DEF Started, Asynchronous
  <2>8. Course(s, k, e, r)
    BY <1>5, <2>1, <2>7 DEF Course
  <2> QED BY <2>8 DEF r
<1>6. CASE e.trigger \notin {"Dispatch", "DeliveryResolved", "ActivationSucceeded", "ActivationFailed"}
  <2>1. r.slot.phase = "Activating" /\ r.effects = << >>
    BY <1>1, <1>6 DEF DecideActivating, CancelWaiter, Ignore, Decision, Activating, Slot
  <2> HIDE DEF r
  <2>2. Course(s, k, e, r)
    BY <1>6, <2>1, SilentStarts, StillCourse
  <2> QED BY <2>2 DEF r
<1> QED BY <1>2, <1>3, <1>4, <1>5, <1>6

LEMMA ActiveCourse ==
  ASSUME NEW s, NEW k, k.phase = "Active", k.id = s, k.reservations \in Nat,
         NEW e \in Events, Timely(s, k, e)
  PROVE  Course(s, k, e, Reduce(k, e))
<1> DEFINE r == Reduce(k, e)
<1>1. r = DecideActive(k, e) /\ e.trigger \notin {"ClaimActivation", "ActivationSucceeded", "ActivationFailed"}
  BY EventFields DEF Reduce, Timely
<1>2. CASE e.trigger = "Dispatch"
  <2>1. PICK fx : fx = Deliver(s, e.d)
    OBVIOUS
  <2>2. r.effects = << fx >> /\ r.slot.phase = "Active"
    BY <1>1, <1>2, <2>1 DEF DecideActive, ReserveDelivery, Decision, Active, Slot
  <2>3. fx.type \in Asynchronous
    BY <2>1 DEF Deliver, Asynchronous
  <2> HIDE DEF r
  <2>4. Started(r.effects) = {fx} /\ OnceIn(r.effects, fx)
    BY <2>2, <2>3, OneStart
  <2>5. Starts(s, k, e, r, fx)
    BY <1>2, <2>1, EventFields DEF Starts
  <2>6. Course(s, k, e, r)
    BY <1>2, <2>2, <2>4, <2>5 DEF Course
  <2> QED BY <2>6 DEF r
<1>3. CASE e.trigger = "DeliveryResolved"
  <2>1. r.slot.phase = "Active" /\ r.effects = Rejections(e.failure, "Unavailable")
    BY <1>1, <1>3 DEF DecideActive, ResolveActiveDelivery, RejectFailedDelivery, Decision, Active, Slot
  <2> HIDE DEF r
  <2>2. Started(r.effects) = {}
    BY <2>1, SilentStarts
  <2>3. Course(s, k, e, r)
    BY <1>3, <2>1, <2>2, StillCourse
  <2> QED BY <2>3 DEF r
<1>4. CASE e.trigger = "BeginDrain" /\ e.id = s
  <2>1. r = BeginDrain(k)
    BY <1>1, <1>4 DEF DecideActive
  <2>2. r.slot = Draining(s, k.reservations)
    BY <2>1 DEF BeginDrain, Decision
  <2>3. r.slot.phase = "Draining" /\ r.slot.reservations = k.reservations
    BY <2>2 DEF Draining, Slot
  <2>4. CASE k.reservations = 0
    <3>1. PICK fx : fx = EnqueueFence(s)
      OBVIOUS
    <3>2. r.effects = << fx >>
      BY <2>1, <2>4, <3>1 DEF BeginDrain, Decision
    <3>3. fx.type \in Asynchronous
      BY <3>1 DEF EnqueueFence, Asynchronous
    <3> HIDE DEF r
    <3>4. Started(r.effects) = {fx} /\ OnceIn(r.effects, fx)
      BY <3>2, <3>3, OneStart
    <3>5. Starts(s, k, e, r, fx)
      BY <2>3, <2>4, <3>1 DEF Starts
    <3>6. Course(s, k, e, r)
      BY <1>4, <2>3, <3>4, <3>5 DEF Course
    <3> QED BY <3>6 DEF r
  <2>5. CASE k.reservations # 0
    <3>1. r.effects = << >>
      BY <2>1, <2>5 DEF BeginDrain, Decision
    <3> HIDE DEF r
    <3>2. Started(r.effects) = {}
      BY <3>1, SilentStarts
    <3>3. Course(s, k, e, r)
      BY <1>4, <2>3, <3>2 DEF Course
    <3> QED BY <3>3 DEF r
  <2> QED BY <2>4, <2>5
<1>5. CASE e.trigger \notin {"Dispatch", "DeliveryResolved"} /\ ~ (e.trigger = "BeginDrain" /\ e.id = s)
  <2>1. r.slot = k /\ r.effects = << >>
    BY <1>1, <1>5 DEF DecideActive, Ignore, Decision
  <2> HIDE DEF r
  <2>2. Started(r.effects) = {}
    BY <2>1, SilentStarts
  <2>3. e.trigger # "ActivationFailed" /\ k.phase # "Draining"
    BY <1>1
  <2>4. Course(s, k, e, r)
    BY ONLY <2>1, <2>2, <2>3, StillCourse
  <2> QED BY <2>4 DEF r
<1> QED BY <1>2, <1>3, <1>4, <1>5

LEMMA PairJoined ==
  ASSUME NEW a, NEW b
  PROVE  LET z == << a >> \o << b >>
         IN  DOMAIN z = {1, 2} /\ z[1] = a /\ z[2] = b
<1> DEFINE z == << a >> \o << b >>
<1>1. PICK E : E = {a, b}
  OBVIOUS
<1>2. << a >> \in Seq(E) /\ << b >> \in Seq(E) /\ Len(<< a >>) = 1 /\ Len(<< b >>) = 1
  BY <1>1
<1>3. Len(z) = 2 /\ z \in Seq(E) /\ z[1] = << a >>[1] /\ z[2] = << b >>[1]
  BY <1>2
<1> QED BY <1>3

LEMMA DrainingCourse ==
  ASSUME NEW s, NEW k, k.phase = "Draining", k.id = s, k.reservations \in Nat,
         NEW e \in Events, Timely(s, k, e)
  PROVE  Course(s, k, e, Reduce(k, e))
<1> DEFINE r == Reduce(k, e)
<1>1. r = DecideDraining(k, e) /\ e.trigger \notin {"ClaimActivation", "ActivationSucceeded", "ActivationFailed"}
  BY EventFields DEF Reduce, Timely
<1>2. CASE e.trigger = "Dispatch"
  <2>1. r.slot = k /\ r.effects = << Reject(e.d, "Draining") >>
    BY <1>1, <1>2 DEF DecideDraining, Refuse, Decision
  <2> HIDE DEF r
  <2>2. Started(r.effects) = {}
    BY <2>1, SilentStarts
  <2>3. Course(s, k, e, r)
    BY <1>2, <2>1, <2>2, StillCourse
  <2> QED BY <2>3 DEF r
<1>3. CASE e.trigger = "DeliveryResolved" /\ e.id # s
  <2>1. r.slot = k /\ r.effects = Rejections(e.failure, "Unavailable")
    BY <1>1, <1>3 DEF DecideDraining, RejectFailedDelivery, Decision
  <2> HIDE DEF r
  <2>2. Started(r.effects) = {}
    BY <2>1, SilentStarts
  <2>3. Course(s, k, e, r)
    BY <1>3, <2>1, <2>2, StillCourse
  <2> QED BY <2>3 DEF r
<1>4. CASE e.trigger = "DeliveryResolved" /\ e.id = s
  <2> DEFINE x == Rejections(e.failure, "Unavailable")
  <2>1. r = ResolveDrainingDelivery(k, e.failure)
    BY <1>1, <1>4 DEF DecideDraining
  <2>2. e.failure = << >> \/ \E d \in Dispatches : e.failure = << d >>
    BY <1>4, EventFields DEF Failures
  <2>3. PICK fx : fx = EnqueueFence(s)
    OBVIOUS
  <2>4. /\ r.slot.phase = "Draining"
        /\ r.slot.reservations = IF k.reservations > 0 THEN k.reservations - 1 ELSE 0
        /\ r.effects = x \o (IF k.reservations = 1 THEN << fx >> ELSE << >>)
    BY <2>1, <2>3 DEF ResolveDrainingDelivery, Decision, Draining, Slot
  <2>5. PICK no, y : no = << >> /\ y = << >>
    OBVIOUS
  <2>6. x = << >> \/ \E d \in Dispatches : x = << Reject(d, "Unavailable") >>
    BY <2>2 DEF Rejections
  <2>7. fx.type \in Asynchronous /\ \A d \in Dispatches : Reject(d, "Unavailable") # fx
    BY <2>3 DEF EnqueueFence, Reject, Asynchronous
  <2>8. CASE k.reservations # 1
    <3>1. r.effects = x
      BY <2>4, <2>6, <2>8
    <3> HIDE DEF r
    <3>2. Started(r.effects) = {}
      BY <3>1, SilentStarts
    <3>3. k.reservations = 0 => r.slot.reservations = 0
      BY <2>4
    <3> HIDE DEF x
    <3>4. Course(s, k, e, r)
      BY <1>4, <2>4, <3>2, <3>3 DEF Course
    <3> QED BY <3>4 DEF r
  <2>9. CASE k.reservations = 1
    <3>1. r.slot.reservations = 0 /\ r.effects = x \o << fx >>
      BY <2>4, <2>9
    <3>2. Started(r.effects) = {fx} /\ OnceIn(r.effects, fx)
      <4>1. CASE x = << >>
        <5> HIDE DEF r, x
        <5>1. x \o << fx >> = << fx >>
          <6>1. << >> \o << fx >> = << fx >>
            OBVIOUS
          <6> QED BY <4>1, <6>1
        <5> QED BY <2>7, <3>1, <5>1, OneStart
      <4>2. CASE \E d \in Dispatches : x = << Reject(d, "Unavailable") >>
        <5>1. PICK d \in Dispatches : x = << Reject(d, "Unavailable") >>
          BY <4>2
        <5>2. PICK rj : rj = Reject(d, "Unavailable")
          OBVIOUS
        <5>3. x = << rj >> /\ rj # fx /\ rj.type \notin Asynchronous
          BY <2>7, <5>1, <5>2 DEF Reject, Asynchronous
        <5> HIDE DEF r, x
        <5>4. PICK z : z = << rj >> \o << fx >>
          OBVIOUS
        <5>5. r.effects = z
          BY <3>1, <5>3, <5>4
        <5>6. DOMAIN z = {1, 2} /\ z[1] = rj /\ z[2] = fx
          BY <5>4, PairJoined
        <5>7. Range(z) = {rj, fx}
          BY <5>6 DEF Range
        <5>8. Started(z) = {fx}
          BY <2>7, <5>3, <5>7 DEF Started
        <5>9. OnceIn(z, fx)
          BY <5>3, <5>6 DEF OnceIn
        <5> QED BY <5>5, <5>8, <5>9
      <4> QED BY <2>6, <4>1, <4>2
    <3> HIDE DEF r, x
    <3>3. Starts(s, k, e, r, fx)
      BY <2>3, <2>4, <2>9, <3>1 DEF Starts
    <3>4. Course(s, k, e, r)
      BY <1>4, <2>4, <2>9, <3>1, <3>2, <3>3 DEF Course
    <3> QED BY <3>4 DEF r
  <2> QED BY <2>8, <2>9
<1>5. CASE e.trigger \in {"FenceAcknowledged", "ForceDrain"}
  <2>1. e.id = s /\ k.reservations = 0
    BY <1>5 DEF Timely
  <2>2. PICK m \in Modes : r = Decision(Retiring(s), << Retire(s, m) >>)
    <3>1. CASE e.trigger = "FenceAcknowledged"
      <4>1. r = Decision(Retiring(s), << Retire(s, "Graceful") >>)
        BY <1>1, <2>1, <3>1 DEF DecideDraining, AcknowledgeFence
      <4> QED BY <4>1 DEF Modes
    <3>2. CASE e.trigger = "ForceDrain"
      <4>1. r = Decision(Retiring(s), << Retire(s, "Forced") >>)
        BY <1>1, <2>1, <3>2 DEF DecideDraining, ForceDrain
      <4> QED BY <4>1 DEF Modes
    <3> QED BY <1>5, <3>1, <3>2
  <2>3. PICK fx : fx = Retire(s, m)
    OBVIOUS
  <2>4. r.effects = << fx >> /\ r.slot.phase = "Retiring"
    BY <2>2, <2>3 DEF Decision, Retiring, Slot
  <2>5. fx.type \in Asynchronous
    BY <2>3 DEF Retire, Asynchronous
  <2> HIDE DEF r
  <2>6. Started(r.effects) = {fx} /\ OnceIn(r.effects, fx)
    BY <2>4, <2>5, OneStart
  <2>7. Starts(s, k, e, r, fx)
    BY <2>3, <2>4, <2>6 DEF Starts
  <2>8. Course(s, k, e, r)
    BY <1>1, <1>5, <2>4, <2>6, <2>7 DEF Course
  <2> QED BY <2>8 DEF r
<1>6. CASE e.trigger \notin {"Dispatch", "DeliveryResolved", "FenceAcknowledged", "ForceDrain"}
  <2>1. r.slot = k /\ r.effects = << >>
    BY <1>1, <1>6 DEF DecideDraining, Ignore, Decision
  <2> HIDE DEF r
  <2>2. Started(r.effects) = {}
    BY <2>1, SilentStarts
  <2>3. Course(s, k, e, r)
    BY <1>1, <2>1, <2>2, StillCourse
  <2> QED BY <2>3 DEF r
<1> QED BY <1>2, <1>3, <1>4, <1>5, <1>6

LEMMA RetiringCourse ==
  ASSUME NEW s, NEW k, k.phase = "Retiring", k.id = s, NEW e \in Events, Timely(s, k, e)
  PROVE  Course(s, k, e, Reduce(k, e))
<1> DEFINE r == Reduce(k, e)
<1>1. /\ r = DecideRetiring(k, e)
      /\ e.trigger \notin {"ClaimActivation", "ActivationSucceeded", "ActivationFailed"}
  BY EventFields DEF Reduce, Timely
<1>2. Started(r.effects) = {} /\ (r.slot.phase = "Retiring" \/ e.trigger = "Terminated")
  <2>1. CASE e.trigger = "Dispatch"
    <3>1. r.slot = k /\ r.effects = << Reject(e.d, "Draining") >>
      BY <1>1, <2>1 DEF DecideRetiring, Refuse, Decision
    <3> HIDE DEF r
    <3> QED BY <3>1, SilentStarts
  <2>2. CASE e.trigger = "DeliveryResolved"
    <3>1. r.slot = k /\ r.effects = Rejections(e.failure, "Unavailable")
      BY <1>1, <2>2 DEF DecideRetiring, RejectFailedDelivery, Decision
    <3> HIDE DEF r
    <3> QED BY <3>1, SilentStarts
  <2>3. CASE e.trigger = "Terminated" /\ e.id = k.id
    <3>1. r.effects = << RemoveEntry(k.id) >>
      BY <1>1, <2>3 DEF DecideRetiring, Decision
    <3> HIDE DEF r
    <3> QED BY <2>3, <3>1, SilentStarts
  <2>4. CASE e.trigger \notin {"Dispatch", "DeliveryResolved"} /\ ~ (e.trigger = "Terminated" /\ e.id = k.id)
    <3>1. r.slot = k /\ r.effects = << >>
      BY <1>1, <2>4 DEF DecideRetiring, Ignore, Decision
    <3> HIDE DEF r
    <3> QED BY <3>1, SilentStarts
  <2> QED BY <2>1, <2>2, <2>3, <2>4
<1> HIDE DEF r
<1>3. Course(s, k, e, r)
  BY <1>1, <1>2 DEF Course
<1> QED BY <1>3 DEF r

LEMMA ReduceCourse ==
  ASSUME NEW s, NEW k \in SlotType, k.phase # "Inactive" => k.id = s, IsInjective(k.waiters),
         NEW e \in Events, Timely(s, k, e)
  PROVE  Course(s, k, e, Reduce(k, e))
<1>1. k.phase \in Phases /\ k.waiters \in Seq(Dispatches) /\ k.reservations \in Nat
  BY DEF SlotType
<1>2. CASE k.phase = "Inactive"
  BY <1>2, InactiveCourse
<1>3. CASE k.phase = "Activating"
  BY <1>1, <1>3, ActivatingCourse
<1>4. CASE k.phase = "Active"
  BY <1>1, <1>4, ActiveCourse
<1>5. CASE k.phase = "Draining"
  BY <1>1, <1>5, DrainingCourse
<1>6. CASE k.phase = "Retiring"
  BY <1>6, RetiringCourse
<1> QED BY <1>1, <1>2, <1>3, <1>4, <1>5, <1>6 DEF Phases

-----------------------------------------------------------------------------
(* A fact is submitted.                                                    *)

(* Only the task that was started for it reports a fact of an activation,  *)
(* and while it does the slot waits for it.                                *)
LEMMA SubmittedInTime ==
  ASSUME IInv, WInv, Issuing, RestInv, CallsInv, WorkInv, NEW c \in calls, c.at = "submit"
  PROVE  /\ c.slot \in 1 .. lastId /\ c.slot \in ActivationIds /\ c.event \in Events
         /\ slots[c.slot] \in SlotType /\ IsInjective(slots[c.slot].waiters)
         /\ slots[c.slot].phase # "Inactive" => slots[c.slot].id = c.slot
         /\ c.by \in TaskType => Held(c.by)
         /\ Timely(c.slot, slots[c.slot], c.event)
<1>1. /\ c.slot \in 1 .. lastId /\ c.slot \in ActivationIds /\ c.event \in Events
      /\ slots[c.slot] \in SlotType
  BY CallFields, IssuedIds DEF IInv, TypeOK
<1>2. IsInjective(slots[c.slot].waiters)
  BY <1>1 DEF WInv, WaiterSeats
<1>3. slots[c.slot].phase # "Inactive" => slots[c.slot].id = c.slot
  BY <1>1 DEF IInv, OneLiveIncarnation, Live
<1>4. c.by \in TaskType => Held(c.by)
  <2>1. Looking(c)
    BY DEF Looking
  <2>2. c.by \in TaskType => Holds(c.by, "reporting", c)
    BY <2>1 DEF Holds
  <2> QED BY <2>2 DEF Held
<1>5. Timely(c.slot, slots[c.slot], c.event)
  <2> SUFFICES ASSUME c.event.trigger \in {"ActivationSucceeded", "ActivationFailed",
                                           "FenceAcknowledged", "ForceDrain", "Terminated"}
               PROVE  Timely(c.slot, slots[c.slot], c.event)
    BY DEF Timely
  <2>1. c.by \in TaskType /\ c.event \in Reports(c.by)
    BY DEF CallsInv, Looking, Spoken, Speaks
  <2>2. PICK id : id = c.event.id
    OBVIOUS
  <2>3. id = c.by.id /\ id \in ActivationIds /\ Held(c.by) /\ c.by.type # "Deliver"
    <3>1. ~ \E d \in Dispatches : c.by = Deliver(c.event.id, d)
      BY <2>1, ReportedBy
    <3> QED BY <1>4, <2>1, <2>2, <3>1, ReportTyped, TaskFields
  <2>4. Live(id)
    BY <2>1, <2>3, HeldMapped
  <2>5. c.slot = id
    BY <2>2, <2>4 DEF RestInv, Routed
  <2>6. Due(id)
    BY <2>3 DEF WorkInv
  <2>7. CASE c.by = StartActivation(id)
    <3>1. slots[id].phase = "Activating"
      BY <2>3, <2>6, <2>7 DEF Due
    <3>2. c.event.trigger \in {"ActivationSucceeded", "ActivationFailed"}
      BY <2>1, <2>2, <2>7, ReportedBy
    <3> QED BY <2>2, <2>5, <3>1, <3>2 DEF Timely
  <2>8. CASE c.by = EnqueueFence(id)
    <3>1. slots[id].phase = "Draining" /\ slots[id].reservations = 0
      BY <2>3, <2>6, <2>8 DEF Due
    <3>2. c.event.trigger \in {"FenceAcknowledged", "ForceDrain"}
      BY <2>1, <2>2, <2>8, ReportedBy
    <3> QED BY <2>2, <2>5, <3>1, <3>2 DEF Timely
  <2>9. CASE \E m \in Modes : c.by = Retire(id, m)
    <3>1. slots[id].phase = "Retiring"
      BY <2>3, <2>6, <2>9 DEF Due
    <3>2. c.event.trigger = "Terminated"
      BY <2>1, <2>2, <2>9, ReportedBy
    <3> QED BY <2>2, <2>5, <3>1, <3>2 DEF Timely
  <2> QED BY <2>1, <2>2, <2>7, <2>8, <2>9, ReportedBy
<1> QED BY <1>1, <1>2, <1>3, <1>4, <1>5

Twin(v, w) == v = w \/ (v.type = "Deliver" /\ w.type = "Deliver" /\ v.d = w.d)

(* What a reduction starts was not going on before, nor was another        *)
(* delivery of the same command.                                           *)
LEMMA StartsAnew ==
  ASSUME IInv, WInv, HandInv, Issuing, RestInv, CallsInv, WorkInv, NEW c \in calls, c.at = "submit",
         NEW s, s = c.slot, NEW k, k = slots[s], NEW e, e = c.event, NEW r, NEW w \in TaskType,
         Starts(s, k, e, r, w), NEW v \in TaskType, Twin(v, w)
  PROVE  ~ Held(v)
<1>1. s \in ActivationIds /\ s \in 1 .. lastId
  BY SubmittedInTime
<1>2. Due(s)
  BY <1>1 DEF WorkInv
<1>3. CASE \E d \in Dispatches : w = Deliver(s, d) /\ (Waits(k, d) \/ (e.trigger = "Dispatch" /\ e.d = d))
  <2>1. PICK d \in Dispatches : w = Deliver(s, d) /\ (Waits(k, d) \/ (e.trigger = "Dispatch" /\ e.d = d))
    BY <1>3
  <2>2. PICK a, x : At(d, a, x) /\ (a = "waiting" \/ (a = "called" /\ x = c))
    <3>1. CASE Waits(k, d)
      <4>1. At(d, "waiting", s)
        BY <1>1, <3>1 DEF At, Waits
      <4> QED BY <4>1
    <3>2. CASE e.trigger = "Dispatch" /\ e.d = d
      <4>1. d \in Conveyed(e)
        BY <3>2 DEF Conveyed
      <4>2. At(d, "called", c)
        BY <4>1 DEF At
      <4> QED BY <4>2
    <3> QED BY <2>1, <3>1, <3>2
  <2>3. \A j, y : At(d, j, y) => j = a /\ y = x
    BY <2>2 DEF HandInv, Hand
  <2>4. v.type = "Deliver" /\ v.d = d
    <3>1. w.type = "Deliver" /\ w.d = d
      BY <2>1 DEF Deliver
    <3> QED BY <3>1 DEF Twin
  <2>8. PICK u \in ActivationIds : v = Deliver(u, d)
    <3>1. v.id \in ActivationIds /\ \E x2 \in Dispatches : v = Deliver(v.id, x2)
      BY <2>4, TaskFields
    <3> QED BY <2>4, <3>1 DEF Deliver
  <2> SUFFICES ASSUME NEW j, NEW y, Holds(v, j, y) PROVE FALSE
    BY DEF Held
  <2>5. CASE j = "queued" /\ y \in ActivationIds /\ Queues(outputs[y], v)
    <3>1. InQueue(outputs[y], d)
      BY <2>4, <2>5 DEF InQueue, InBatch, Queues, Carries
    <3>2. At(d, "queued", y)
      BY <2>5, <3>1 DEF At
    <3> QED BY <2>2, <2>3, <3>2
  <2>6. CASE j = "running" /\ v \in tasks
    <3>1. At(d, "spawned", v)
      BY <2>4, <2>6 DEF At
    <3> QED BY <2>2, <2>3, <3>1
  <2>7. CASE j = "reporting" /\ y \in calls /\ Looking(y) /\ y.by = v
    <3>1. y.event \in Reports(Deliver(u, d))
      BY <2>7, <2>8, TaskSpeaks
    <3>2. y.event = Resolved(u, << >>) \/ y.event = Resolved(u, << d >>)
      BY <3>1, ReportsOf
    <3>3. CASE y.event = Resolved(u, << >>)
      <4>1. answer[d] = "Ok"
        BY <2>7, <2>8, <3>3 DEF CallsInv, Thanked, Thanks
      <4>2. At(d, "settled", "Ok")
        BY <4>1 DEF At
      <4> QED BY <2>2, <2>3, <4>2
    <3>4. CASE y.event = Resolved(u, << d >>)
      <4>1. y.event.trigger = "DeliveryResolved" /\ y.event.failure = << d >>
        BY <3>4 DEF Resolved
      <4>2. d \in Conveyed(y.event)
        <5>1. Range(<< d >>) = {d}
          BY SingleRange
        <5> QED BY <4>1, <5>1 DEF Conveyed
      <4>3. At(d, "called", y)
        BY <2>7, <4>2 DEF At
      <4>4. a = "called" /\ y = c
        BY <2>2, <2>3, <4>3
      <4>5. ~ Waits(k, d)
        <5>1. Waits(k, d) => At(d, "waiting", s)
          BY <1>1 DEF At, Waits
        <5> QED BY <2>3, <4>4, <5>1
      <4> QED BY <2>1, <4>1, <4>4, <4>5
    <3> QED BY <3>2, <3>3, <3>4
  <2> QED BY <2>5, <2>6, <2>7 DEF Holds
<1>4. CASE w = EnqueueFence(s) /\ v = w /\ (k.phase = "Active" \/ (k.phase = "Draining" /\ k.reservations # 0))
  BY <1>2, <1>4 DEF Due
<1>5. CASE (\E m \in Modes : w = Retire(s, m)) /\ v = w /\ k.phase = "Draining"
  BY <1>2, <1>5 DEF Due
<1>6. w.type # "Deliver" => v = w
  BY DEF Twin
<1>7. (\A m \in Modes : Retire(s, m).type # "Deliver") /\ EnqueueFence(s).type # "Deliver"
  BY ErrandFields
<1> QED BY <1>3, <1>4, <1>5, <1>6, <1>7 DEF Starts

(* A reduction takes the task that reported out of the work and adds what  *)
(* it starts.                                                              *)
LEMMA SubmitWork ==
  ASSUME IInv, WInv, HandInv, Issuing, RestInv, CallsInv, WorkInv, NEW c \in calls, Submit(c),
         NEW r, r = Reduce(slots[c.slot], c.event)
  PROVE  /\ WorkInv'
         /\ Course(c.slot, slots[c.slot], c.event, r) /\ Outcome(slots[c.slot], r)
         /\ Started(r.effects) \subseteq TaskType
         /\ \A w \in Started(r.effects), v \in TaskType : Twin(v, w) => ~ Held(v)
         /\ \A w \in TaskType : Held(w)' <=> (Held(w) /\ w # c.by) \/ w \in Started(r.effects)
<1>1. PICK s, k, e : s = c.slot /\ k = slots[c.slot] /\ e = c.event
  OBVIOUS
<1>2. /\ c.at = "submit" /\ s \in 1 .. lastId /\ s \in ActivationIds /\ e \in Events /\ k \in SlotType
      /\ IsInjective(k.waiters) /\ (k.phase # "Inactive" => k.id = s)
      /\ (c.by \in TaskType => Held(c.by)) /\ Timely(s, k, e)
  <2>1. c.at = "submit"
    BY DEF Submit
  <2> QED BY <1>1, <2>1, SubmittedInTime
<1>3. Course(s, k, e, r)
  BY <1>1, <1>2, ReduceCourse
<1>4. Outcome(k, r) /\ lastId \in Nat
  BY <1>1, <1>2, IssuedIds, ReduceOutcome DEF IInv
<1>5. PICK fxs : fxs = r.effects
  OBVIOUS
<1>6. fxs \in Seq(EffectType)
  BY <1>4, <1>5 DEF Outcome
<1>7. Started(fxs) \subseteq TaskType /\ \A w \in TaskType : w \in Range(fxs) <=> w \in Started(fxs)
  <2>1. Range(fxs) \subseteq EffectType
    BY <1>6 DEF Range
  <2> QED BY <2>1, EffectFields, TaskFields DEF Started
<1>8. \A w \in Started(fxs) : OnceIn(fxs, w) /\ Starts(s, k, e, r, w)
  BY <1>3, <1>5 DEF Course
<1>24. \A w \in Started(fxs), v \in TaskType : Twin(v, w) => ~ Held(v)
  BY <1>1, <1>2, <1>7, <1>8, StartsAnew
<1>9. \A w \in Started(fxs) : ~ Held(w)
  BY <1>7, <1>24 DEF Twin
<1>10. PICK m : m = Call(c.by, "interpret", s, NoEvent)
  OBVIOUS
<1>11. ~ Looking(m) /\ Looking(c)
  BY <1>2, <1>10 DEF Looking, Call
<1>12. /\ slots' = [slots EXCEPT ![s] = r.slot]
       /\ outputs' = [outputs EXCEPT ![s] = outputs[s] \o Batches(fxs)]
       /\ calls' = (calls \ {c}) \cup {m}
       /\ failed' = IF e.trigger = "ActivationFailed" THEN failed \cup {e.id} ELSE failed
       /\ tasks' = tasks /\ lastId' = lastId
  BY <1>1, <1>5, <1>10 DEF Submit, Moved
<1>13. outputs \in [ActivationIds -> Seq(Seq(EffectType) \ {<< >>})] /\ slots \in [ActivationIds -> SlotType]
  BY DEF IInv, TypeOK
<1>14. /\ outputs'[s] = outputs[s] \o Batches(fxs)
       /\ \A u \in ActivationIds : u # s => outputs'[u] = outputs[u]
  BY <1>2, <1>12, <1>13
<1>15. slots'[s] = r.slot /\ \A u \in ActivationIds : u # s => slots'[u] = slots[u]
  BY <1>2, <1>12, <1>13
<1>16. \A w \in TaskType : Queues(outputs'[s], w) <=> Queues(outputs[s], w) \/ w \in Started(fxs)
  <2>1. outputs[s] \in Seq(Seq(EffectType) \ {<< >>})
    BY <1>2, <1>13
  <2>2. \A w : Queues(outputs'[s], w) <=> Queues(outputs[s], w) \/ w \in Range(fxs)
    BY <1>6, <1>14, <2>1, QueuesExtended
  <2> QED BY <1>7, <2>2
<1>17. ASSUME NEW w \in TaskType, NEW j, NEW x
       PROVE  Holds(w, j, x)' <=> \/ Holds(w, j, x) /\ ~ (j = "reporting" /\ x = c)
                                  \/ j = "queued" /\ x = s /\ w \in Started(fxs)
  <2>1. CASE j = "queued"
    <3>1. x \in ActivationIds => (Queues(outputs'[x], w) <=> Queues(outputs[x], w) \/ (x = s /\ w \in Started(fxs)))
      BY <1>14, <1>16
    <3> QED BY <1>2, <2>1, <3>1 DEF Holds
  <2>2. CASE j = "running"
    BY <1>12, <2>2 DEF Holds
  <2>3. CASE j = "reporting"
    <3>1. x \in calls' /\ Looking(x) <=> x \in calls /\ Looking(x) /\ x # c
      BY <1>11, <1>12
    <3>2. Holds(w, j, x)' <=> x \in calls' /\ Looking(x) /\ x.by = w
      BY <2>3 DEF Holds, Looking
    <3>3. Holds(w, j, x) <=> x \in calls /\ Looking(x) /\ x.by = w
      BY <2>3 DEF Holds
    <3> QED BY <2>3, <3>1, <3>2, <3>3
  <2>4. CASE j \notin {"queued", "running", "reporting"}
    BY <2>4 DEF Holds
  <2> QED BY <2>1, <2>2, <2>3, <2>4
<1>18. ASSUME NEW w \in TaskType
       PROVE  GoesOn(w) /\ (Held(w)' <=> (Held(w) /\ w # c.by) \/ w \in Started(fxs))
  <2>1. CASE w \in Started(fxs)
    <3>1. \A j, x : ~ Holds(w, j, x)
      BY <1>9, <2>1 DEF Held
    <3>2. \A j, x : Holds(w, j, x)' <=> j = "queued" /\ x = s
      BY <1>17, <2>1, <3>1
    <3> QED BY <2>1, <3>2 DEF GoesOn, Held
  <2>2. CASE w \notin Started(fxs)
    <3>1. \A j, x : Holds(w, j, x)' <=> Holds(w, j, x) /\ ~ (j = "reporting" /\ x = c)
      BY <1>17, <2>2
    <3>2. Holds(w, "reporting", c) <=> w = c.by
      BY <1>11 DEF Holds
    <3>3. w = c.by => \A j, x : Holds(w, j, x) => j = "reporting" /\ x = c
      <4>1. Single(w)
        BY DEF WorkInv, Singly
      <4> QED BY <3>2, <4>1 DEF Single
    <3> QED BY <2>2, <3>1, <3>2, <3>3 DEF GoesOn, Held
  <2> QED BY <2>1, <2>2
<1>19. Singly'
  <2>1. ASSUME NEW w \in TaskType, NEW u \in ActivationIds PROVE OnceQueued(outputs'[u], w)
    <3>1. OnceQueued(outputs[u], w)
      BY DEF WorkInv, Singly
    <3>2. CASE u # s
      BY <1>14, <3>1, <3>2
    <3>3. CASE u = s
      <4>1. OnceIn(fxs, w) /\ ~ (Queues(outputs[s], w) /\ w \in Range(fxs))
        <5>1. CASE w \in Started(fxs)
          <6>1. ~ Holds(w, "queued", s)
            BY <1>9, <5>1 DEF Held
          <6> QED BY <1>2, <1>8, <5>1, <6>1 DEF Holds
        <5>2. CASE w \notin Started(fxs)
          <6>1. w \notin Range(fxs)
            BY <1>7, <5>2
          <6> QED BY <6>1 DEF OnceIn, Range
        <5> QED BY <5>1, <5>2
      <4>2. outputs[s] \in Seq(Seq(EffectType) \ {<< >>})
        BY <1>2, <1>13
      <4> QED BY <1>6, <1>14, <3>1, <3>3, <4>1, <4>2, OnceExtended
    <3> QED BY <3>2, <3>3
  <2> QED BY <1>18, <2>1, SingleKept DEF WorkInv, Singly
<1>20. ASSUME NEW u \in ActivationIds, u # s PROVE Due(u)'
  <2>1. \A w \in Errands(u) : w \in TaskType /\ w.id = u
    BY ErrandTyped, ErrandFields DEF Errands
  <2>2. \A w \in Errands(u) : w \notin Started(fxs)
    <3>1. \A w \in Started(fxs) : w.id = s
      BY <1>8, ErrandFields DEF Starts
    <3> QED BY <1>20, <2>1, <3>1
  <2>3. \A w \in Errands(u) : Held(w)' => Held(w)
    BY <1>18, <2>1, <2>2
  <2>4. Due(u) /\ slots'[u] = slots[u]
    BY <1>15, <1>20 DEF WorkInv
  <2>5. (Held(StartActivation(u)) => slots[u].phase = "Activating")'
    BY <2>3, <2>4 DEF Due, Errands
  <2>6. (Held(EnqueueFence(u)) => slots[u].phase = "Draining" /\ slots[u].reservations = 0)'
    BY <2>3, <2>4 DEF Due, Errands
  <2>7. \A mode \in Modes : Held(Retire(u, mode))' => Held(Retire(u, mode))
    BY <2>3 DEF Errands
  <2> QED BY <2>4, <2>5, <2>6, <2>7 DEF Due
<1>21. Due(s)'
  <2>0. Due(s)
    BY <1>2 DEF WorkInv
  <2>1. ASSUME NEW w \in Errands(s), Held(w)'
        PROVE  (Held(w) /\ w # c.by) \/ Starts(s, k, e, r, w)
    BY <1>2, <1>8, <1>18, <2>1, ErrandTyped
  <2>2. e.trigger \in {"ActivationSucceeded", "ActivationFailed", "FenceAcknowledged", "ForceDrain", "Terminated"}
          => c.by \in TaskType /\ e \in Reports(c.by) /\ e.id = s
    <3>1. Speaks(c.by, e)
      BY <1>1, <1>11 DEF CallsInv, Spoken
    <3> QED BY <1>2, <3>1 DEF Speaks, Timely
  <2>3. (Held(StartActivation(s)) => slots[s].phase = "Activating")'
    <3> SUFFICES ASSUME Held(StartActivation(s))' PROVE r.slot.phase = "Activating"
      BY <1>15
    <3>1. StartActivation(s) \in Errands(s)
      BY DEF Errands
    <3>2. ~ Starts(s, k, e, r, StartActivation(s))
      BY DEF Starts, StartActivation, Deliver, EnqueueFence, Retire
    <3>3. Held(StartActivation(s)) /\ StartActivation(s) # c.by
      BY <2>1, <3>1, <3>2
    <3>4. k.phase = "Activating"
      BY <1>1, <2>0, <3>3 DEF Due
    <3>5. e.trigger \notin {"ActivationSucceeded", "ActivationFailed"}
      BY <2>2, <3>3, ReportedBy
    <3> QED BY <1>3, <3>4, <3>5 DEF Course
  <2>4. (Held(EnqueueFence(s)) => slots[s].phase = "Draining" /\ slots[s].reservations = 0)'
    <3> SUFFICES ASSUME Held(EnqueueFence(s))' PROVE r.slot.phase = "Draining" /\ r.slot.reservations = 0
      BY <1>15
    <3>1. EnqueueFence(s) \in Errands(s)
      BY DEF Errands
    <3>2. CASE Starts(s, k, e, r, EnqueueFence(s))
      BY <3>2 DEF Starts, Deliver, EnqueueFence, Retire
    <3>3. CASE Held(EnqueueFence(s)) /\ EnqueueFence(s) # c.by
      <4>1. k.phase = "Draining" /\ k.reservations = 0
        BY <1>1, <2>0, <3>3 DEF Due
      <4>2. e.trigger \notin {"FenceAcknowledged", "ForceDrain"}
        BY <2>2, <3>3, ReportedBy
      <4> QED BY <1>3, <4>1, <4>2 DEF Course
    <3> QED BY <2>1, <3>1, <3>2, <3>3
  <2>5. ASSUME NEW mode \in Modes, Held(Retire(s, mode))'
        PROVE  /\ \/ Starts(s, k, e, r, Retire(s, mode)) /\ k.phase = "Draining"
                  \/ Held(Retire(s, mode)) /\ k.phase = "Retiring"
               /\ r.slot.phase = "Retiring"
    <3>1. Retire(s, mode) \in Errands(s)
      BY DEF Errands
    <3>2. CASE Starts(s, k, e, r, Retire(s, mode))
      BY <3>2 DEF Starts, Deliver, EnqueueFence, Retire
    <3>3. CASE Held(Retire(s, mode)) /\ Retire(s, mode) # c.by
      <4>1. k.phase = "Retiring"
        BY <1>1, <2>0, <3>3 DEF Due
      <4>2. e.trigger # "Terminated"
        <5> SUFFICES ASSUME e.trigger = "Terminated" PROVE FALSE
          OBVIOUS
        <5>1. PICK n \in Modes : c.by = Retire(s, n)
          BY <2>2, ReportedBy
        <5>2. Held(Retire(s, n))
          BY <1>2, <2>2, <5>1
        <5>3. n = mode
          BY <2>0, <3>3, <5>2 DEF Due
        <5> QED BY <3>3, <5>1, <5>3
      <4> QED BY <1>3, <3>3, <4>1, <4>2 DEF Course
    <3> QED BY <2>1, <2>5, <3>1, <3>2, <3>3
  <2>6. ASSUME NEW a \in Modes, NEW b \in Modes, Held(Retire(s, a))', Held(Retire(s, b))' PROVE a = b
    <3>1. CASE Held(Retire(s, a)) /\ Held(Retire(s, b))
      BY <2>0, <3>1 DEF Due
    <3>2. CASE /\ Starts(s, k, e, r, Retire(s, a)) /\ Starts(s, k, e, r, Retire(s, b))
               /\ ~ Held(Retire(s, a)) /\ ~ Held(Retire(s, b))
      <4>1. Retire(s, a) \in Errands(s) /\ Retire(s, b) \in Errands(s)
        BY DEF Errands
      <4>2. Retire(s, a) \in TaskType /\ Retire(s, b) \in TaskType
        BY <1>2, <4>1, ErrandTyped
      <4>3. Retire(s, a) \in Started(r.effects) /\ Retire(s, b) \in Started(r.effects)
        BY <1>5, <1>18, <2>6, <3>2, <4>2
      <4>4. \A gx \in Started(r.effects) : gx = Retire(s, a)
        BY <3>2 DEF Starts, Deliver, EnqueueFence, Retire
      <4> QED BY <4>3, <4>4 DEF Retire
    <3>3. \/ Starts(s, k, e, r, Retire(s, a)) /\ k.phase = "Draining"
          \/ Held(Retire(s, a)) /\ k.phase = "Retiring"
      BY <2>5, <2>6
    <3>4. \/ Starts(s, k, e, r, Retire(s, b)) /\ k.phase = "Draining"
          \/ Held(Retire(s, b)) /\ k.phase = "Retiring"
      BY <2>5, <2>6
    <3>5. k.phase = "Draining" => ~ Held(Retire(s, a)) /\ ~ Held(Retire(s, b))
      BY <1>1, <2>0 DEF Due
    <3>6. k.phase # "Retiring" \/ k.phase # "Draining"
      OBVIOUS
    <3> QED BY <3>1, <3>2, <3>3, <3>4, <3>5, <3>6
  <2> QED BY <1>15, <2>3, <2>4, <2>5, <2>6 DEF Due
<1>22. FailedGone'
  <2>1. failed \subseteq 1 .. lastId /\ \A id \in failed : ~ Live(id)
    BY DEF WorkInv, FailedGone
  <2>2. e.trigger = "ActivationFailed" => e.id = s /\ r.slot.phase = "Inactive"
    BY <1>2, <1>3 DEF Timely, Course
  <2>3. \A id \in 1 .. lastId : id \in ActivationIds
    BY IssuedIds DEF IInv
  <2>4. failed' \subseteq 1 .. lastId'
    BY <1>2, <1>12, <2>1, <2>2
  <2>5. ASSUME NEW id \in failed' PROVE slots'[id].phase = "Inactive"
    <3>1. id \in ActivationIds
      BY <1>12, <2>3, <2>4, <2>5
    <3>2. CASE id = s
      <4>1. k.phase = "Inactive" => r.slot.phase = "Inactive"
        BY <1>4 DEF Outcome
      <4> QED BY <1>1, <1>12, <1>15, <2>1, <2>2, <2>5, <3>2, <4>1 DEF Live
    <3>3. CASE id # s
      BY <1>12, <1>15, <2>1, <2>2, <2>5, <3>1, <3>3 DEF Live
    <3> QED BY <3>2, <3>3
  <2> QED BY <2>4, <2>5 DEF FailedGone, Live
<1>23. WorkInv'
  <2>1. \A u \in ActivationIds : Due(u)'
    BY <1>20, <1>21
  <2> QED BY <1>19, <1>22, <2>1 DEF WorkInv
<1> QED BY <1>1, <1>3, <1>4, <1>5, <1>7, <1>18, <1>23, <1>24

LEMMA NextWork ==
  ASSUME IInv, WInv, HandInv, Issuing, RestInv, CallsInv, WorkInv, Next
  PROVE  WorkInv'
<1>1. CASE \E c \in calls : Proceeds(c) \/ InterpreterPanics(c)
  <2>1. PICK c \in calls : Proceeds(c) \/ InterpreterPanics(c)
    BY <1>1
  <2>2. CASE Finds(c) /\ c.by \in TaskType
    BY <2>2, FindsWork
  <2>3. CASE Submit(c)
    BY <2>3, SubmitWork
  <2>4. CASE ApplyEffect(c)
    BY <2>4, AppliedWork
  <2>5. CASE InterpreterPanics(c)
    BY <2>5, PanickedWork
  <2>6. CASE Interpret(c) \/ Release(c) \/ (Finds(c) /\ c.by \notin TaskType)
    <3>1. Idles
      BY <2>6 DEF Idles
    <3> QED BY <3>1, IdledWork
  <2> QED BY <2>1, <2>2, <2>3, <2>4, <2>5, <2>6 DEF Proceeds
<1>2. CASE \E n \in Entities :
             \/ \E d \in Dispatches :
                  DispatchMapped(d, n) \/ DispatchAbsent(d, n) \/ DispatchExhausted(d, n)
             \/ \E p \in Passivations : PassivateReads(p, n)
  <2>1. CASE \E n \in Entities, d \in Dispatches : DispatchAbsent(d, n)
    BY <2>1, ClaimedWork
  <2>2. CASE ~ \E n \in Entities, d \in Dispatches : DispatchAbsent(d, n)
    <3>1. Idles
      BY <1>2, <2>2 DEF Idles
    <3> QED BY <3>1, IdledWork
  <2> QED BY <2>1, <2>2
<1>3. CASE \E d \in Dispatches : Poll(d) \/ DropFuture(d)
  <2>1. Idles
    BY <1>3 DEF Idles
  <2> QED BY <2>1, IdledWork
<1>4. CASE \E id \in ActivationIds :
             \/ ActivationReports(id) \/ FenceReports(id)
             \/ \E d \in Dispatches : DeliveryAccepted(id, d) \/ DeliveryRefused(id, d)
             \/ \E mode \in Modes : RetirementReports(id, mode)
  BY <1>4, TaskReported, ReportedWork, AcceptedWork
<1> QED BY <1>1, <1>2, <1>3, <1>4 DEF Next

LEMMA InitWork == Init => WorkInv
<1> SUFFICES ASSUME Init PROVE WorkInv
  OBVIOUS
<1>1. tasks = {} /\ calls = {} /\ failed = {} /\ \A s \in ActivationIds : outputs[s] = << >>
  BY DEF Init
<1>2. \A w, k, x : ~ Holds(w, k, x)
  BY <1>1 DEF Holds, Queues
<1>3. \A w : ~ Held(w)
  BY <1>2 DEF Held
<1>4. Singly
  BY <1>1, <1>2 DEF Singly, Single, OnceQueued
<1>5. \A s \in ActivationIds : Due(s)
  BY <1>3 DEF Due
<1>6. FailedGone
  BY <1>1 DEF FailedGone
<1> QED BY <1>4, <1>5, <1>6 DEF WorkInv

-----------------------------------------------------------------------------
(* The invariants together.                                                *)
RInv == IInv /\ WInv /\ HandInv /\ Issuing /\ RestInv /\ CallsInv /\ Lone /\ WorkInv

LEMMA StutterRInv == RInv /\ UNCHANGED vars => RInv'
<1> SUFFICES ASSUME RInv, UNCHANGED vars PROVE RInv'
  OBVIOUS
<1>1. IInv' /\ WInv' /\ HandInv' /\ Issuing' /\ RestInv'
  BY NextIInv, NextWaiters, NextHand, NextIssuing, NextRest DEF RInv
<1>2. UNCHANGED <<lastId, map, home, slots, outputs, tasks, calls, answer, failed>>
  BY DEF vars, directory, history
<1>3. CallsInv' /\ Lone'
  BY <1>2 DEF RInv, CallsInv, Lone, Looking, Spoken, Speaks, Reaches, Thanked, Thanks
<1>4. WorkInv'
  <2>1. \A w \in TaskType : GoesOn(w) /\ (Held(w)' <=> Held(w))
    BY <1>2, WorkUnmoved
  <2> QED BY <1>2, <2>1, WorkKept DEF RInv, WorkInv, Singly
<1> QED BY <1>1, <1>3, <1>4 DEF RInv

LEMMA NextRInv == RInv /\ [Next]_vars => RInv'
<1> SUFFICES ASSUME RInv, Next PROVE RInv'
  BY StutterRInv
<1>1. IInv' /\ WInv' /\ HandInv' /\ Issuing' /\ RestInv'
  BY NextIInv, NextWaiters, NextHand, NextIssuing, NextRest DEF RInv
<1> QED BY <1>1, NextCallsInv, NextWork DEF RInv

-----------------------------------------------------------------------------
(* EntitySlot reduces with the same algebra.                               *)

LEMMA SameEffects ==
  /\ \A id : EntitySlotOf!StartActivation(id) = StartActivation(id)
  /\ \A id, d : EntitySlotOf!Deliver(id, d) = Deliver(id, d)
  /\ \A d, reason : EntitySlotOf!Reject(d, reason) = Reject(d, reason)
  /\ \A id : EntitySlotOf!EnqueueFence(id) = EnqueueFence(id)
  /\ \A id, mode : EntitySlotOf!Retire(id, mode) = Retire(id, mode)
  /\ \A id : EntitySlotOf!RemoveEntry(id) = RemoveEntry(id)
BY DEF EntitySlotOf!StartActivation, StartActivation, EntitySlotOf!Deliver, Deliver,
       EntitySlotOf!Reject, Reject, EntitySlotOf!EnqueueFence, EnqueueFence,
       EntitySlotOf!Retire, Retire, EntitySlotOf!RemoveEntry, RemoveEntry

LEMMA SameSlots ==
  /\ EntitySlotOf!Inactive = Inactive
  /\ \A id, ws : EntitySlotOf!Activating(id, ws) = Activating(id, ws)
  /\ \A id, n : EntitySlotOf!Active(id, n) = Active(id, n)
  /\ \A id, n : EntitySlotOf!Draining(id, n) = Draining(id, n)
  /\ \A id : EntitySlotOf!Retiring(id) = Retiring(id)
BY DEF EntitySlotOf!Slot, Slot, EntitySlotOf!NoActivation, NoActivation,
       EntitySlotOf!Inactive, Inactive, EntitySlotOf!Activating, Activating,
       EntitySlotOf!Active, Active, EntitySlotOf!Draining, Draining,
       EntitySlotOf!Retiring, Retiring

LEMMA SameDecisions ==
  /\ \A s, fxs : EntitySlotOf!Decision(s, fxs) = Decision(s, fxs)
  /\ \A s : EntitySlotOf!Ignore(s) = Ignore(s)
  /\ \A s, d, reason : EntitySlotOf!Refuse(s, d, reason) = Refuse(s, d, reason)
  /\ \A ds, reason : EntitySlotOf!Rejections(ds, reason) = Rejections(ds, reason)
  /\ \A id, ds : EntitySlotOf!Deliveries(id, ds) = Deliveries(id, ds)
  /\ \A s, f : EntitySlotOf!RejectFailedDelivery(s, f) = RejectFailedDelivery(s, f)
  /\ \A s, id : EntitySlotOf!RetireStale(s, id) = RetireStale(s, id)
<1>1. \A s, fxs : EntitySlotOf!Decision(s, fxs) = Decision(s, fxs)
  BY DEF EntitySlotOf!Decision, Decision
<1>2. /\ \A ds, reason : EntitySlotOf!Rejections(ds, reason) = Rejections(ds, reason)
      /\ \A id, ds : EntitySlotOf!Deliveries(id, ds) = Deliveries(id, ds)
  BY SameEffects DEF EntitySlotOf!Rejections, Rejections, EntitySlotOf!Deliveries, Deliveries
<1> QED
  BY <1>1, <1>2, SameEffects
  DEF EntitySlotOf!Ignore, Ignore, EntitySlotOf!Refuse, Refuse,
      EntitySlotOf!RejectFailedDelivery, RejectFailedDelivery, EntitySlotOf!RetireStale, RetireStale

LEMMA SameRemoval ==
  \A ws, d : EntitySlotOf!RemoveFirst(ws, d) = RemoveFirst(ws, d)
BY DEF EntitySlotOf!RemoveFirst, RemoveFirst, EntitySlotOf!RemoveAt, RemoveAt,
       EntitySlotOf!SelectInSeq, SelectInSeq, EntitySlotOf!Min, Min

LEMMA SameReduce ==
  ASSUME NEW s, NEW e
  PROVE  EntitySlotOf!Reduce(s, e) = Reduce(s, e)
<1>1. EntitySlotOf!DecideInactive(e) = DecideInactive(e)
  BY SameEffects, SameSlots, SameDecisions DEF EntitySlotOf!DecideInactive, DecideInactive
<1>2. EntitySlotOf!DecideActivating(s, e) = DecideActivating(s, e)
  BY SameEffects, SameSlots, SameDecisions, SameRemoval
  DEF EntitySlotOf!DecideActivating, DecideActivating, EntitySlotOf!AdmitWaiter, AdmitWaiter,
      EntitySlotOf!CancelWaiter, CancelWaiter, EntitySlotOf!FinishActivation, FinishActivation,
      EntitySlotOf!FailActivation, FailActivation
<1>3. EntitySlotOf!DecideActive(s, e) = DecideActive(s, e)
  BY SameEffects, SameSlots, SameDecisions
  DEF EntitySlotOf!DecideActive, DecideActive, EntitySlotOf!ReserveDelivery, ReserveDelivery,
      EntitySlotOf!ResolveActiveDelivery, ResolveActiveDelivery, EntitySlotOf!BeginDrain, BeginDrain
<1>4. EntitySlotOf!DecideDraining(s, e) = DecideDraining(s, e)
  BY SameEffects, SameSlots, SameDecisions
  DEF EntitySlotOf!DecideDraining, DecideDraining, EntitySlotOf!AcknowledgeFence, AcknowledgeFence,
      EntitySlotOf!ResolveDrainingDelivery, ResolveDrainingDelivery, EntitySlotOf!ForceDrain, ForceDrain
<1>5. EntitySlotOf!DecideRetiring(s, e) = DecideRetiring(s, e)
  BY SameEffects, SameSlots, SameDecisions DEF EntitySlotOf!DecideRetiring, DecideRetiring
<1> QED BY <1>1, <1>2, <1>3, <1>4, <1>5 DEF EntitySlotOf!Reduce, Reduce

LEMMA SameStarts ==
  /\ \A fxs : EntitySlotOf!Started(fxs) = Started(fxs)
  /\ \A fxs : EntitySlotOf!Refused(fxs) = Refused(fxs)
BY DEF EntitySlotOf!Started, Started, EntitySlotOf!Asynchronous, Asynchronous,
       EntitySlotOf!Refused, Refused, EntitySlotOf!Range, Range

-----------------------------------------------------------------------------
(* The phases a fact that comes in time leads through.                     *)
Moves(k, e, r) ==
  /\ r.slot.phase = "Inactive" => r.slot = Inactive
  /\ e.trigger = "ActivationSucceeded" => r.slot.phase = "Active"
  /\ e.trigger = "ActivationFailed" => r.slot.phase = "Inactive"
  /\ e.trigger = "Terminated" => r.slot.phase = "Inactive"
  /\ e.trigger \notin {"ActivationSucceeded", "ActivationFailed", "Terminated"} =>
       /\ r.slot.phase = "Inactive" <=> k.phase = "Inactive"
       /\ r.slot.phase = "Activating" <=> k.phase = "Activating"

LEMMA ReduceMoves ==
  ASSUME NEW s, NEW k \in SlotType, k.phase # "Inactive" => k.id = s, k.phase = "Inactive" => k = Inactive,
         NEW e \in Events, Timely(s, k, e)
  PROVE  Moves(k, e, Reduce(k, e))
<1> DEFINE r == Reduce(k, e)
<1>0. k.phase \in Phases /\ e.trigger # "ClaimActivation" /\ Inactive.phase = "Inactive"
  BY EventFields DEF SlotType, Inactive, Slot
<1>1. CASE k.phase = "Inactive"
  <2>1. r.slot = Inactive
    BY <1>0, <1>1 DEF Reduce, DecideInactive, Refuse, RetireStale, RejectFailedDelivery, Ignore, Decision
  <2>2. e.trigger # "ActivationSucceeded"
    BY <1>1 DEF Timely
  <2> HIDE DEF r
  <2>3. Moves(k, e, r)
    BY <1>0, <1>1, <2>1, <2>2 DEF Moves
  <2> QED BY <2>3 DEF r
<1>2. CASE k.phase = "Activating"
  <2>1. r = DecideActivating(k, e) /\ k.id = s
    BY <1>2 DEF Reduce
  <2>2. e.trigger = "ActivationSucceeded" => r.slot.phase = "Active"
    BY <2>1 DEF DecideActivating, FinishActivation, Decision, Active, Slot, Timely
  <2>3. e.trigger = "ActivationFailed" => r.slot = Inactive
    BY <2>1 DEF DecideActivating, FailActivation, Decision, Timely
  <2>4. e.trigger \notin {"ActivationSucceeded", "ActivationFailed"} => r.slot.phase = "Activating"
    BY <1>0, <1>2, <2>1 DEF DecideActivating, AdmitWaiter, CancelWaiter, Refuse, RejectFailedDelivery,
                       Ignore, Decision, Activating, Slot
  <2>5. e.trigger # "Terminated"
    BY <1>2 DEF Timely
  <2> HIDE DEF r
  <2>6. Moves(k, e, r)
    BY <1>0, <1>2, <2>2, <2>3, <2>4, <2>5 DEF Moves
  <2> QED BY <2>6 DEF r
<1>3. CASE k.phase = "Active"
  <2>1. r = DecideActive(k, e) /\ k.id = s
    BY <1>3 DEF Reduce
  <2>2. e.trigger \notin {"ActivationSucceeded", "ActivationFailed", "Terminated"}
    BY <1>3 DEF Timely
  <2>3. r.slot.phase \in {"Active", "Draining"}
    BY <1>0, <1>3, <2>1, <2>2 DEF DecideActive, ReserveDelivery, ResolveActiveDelivery, RejectFailedDelivery, BeginDrain,
                       Ignore, Decision, Active, Draining, Slot
  <2> HIDE DEF r
  <2>4. Moves(k, e, r)
    BY <1>3, <2>2, <2>3 DEF Moves
  <2> QED BY <2>4 DEF r
<1>4. CASE k.phase = "Draining"
  <2>1. r = DecideDraining(k, e) /\ k.id = s
    BY <1>4 DEF Reduce
  <2>2. e.trigger \notin {"ActivationSucceeded", "ActivationFailed", "Terminated"}
    BY <1>4 DEF Timely
  <2>3. r.slot.phase \in {"Draining", "Retiring"}
    BY <1>0, <1>4, <2>1, <2>2
    DEF DecideDraining, ResolveDrainingDelivery, RejectFailedDelivery, Refuse, AcknowledgeFence, ForceDrain,
        Ignore, Decision, Draining, Retiring, Slot
  <2> HIDE DEF r
  <2>4. Moves(k, e, r)
    BY <1>4, <2>2, <2>3 DEF Moves
  <2> QED BY <2>4 DEF r
<1>5. CASE k.phase = "Retiring"
  <2>1. r = DecideRetiring(k, e) /\ k.id = s
    BY <1>5 DEF Reduce
  <2>2. e.trigger \notin {"ActivationSucceeded", "ActivationFailed"}
    BY <1>5 DEF Timely
  <2>3. e.trigger = "Terminated" => r.slot = Inactive
    BY <2>1 DEF DecideRetiring, Decision, Timely
  <2>4. e.trigger # "Terminated" => r.slot.phase = "Retiring"
    BY <1>0, <1>5, <2>1, <2>2 DEF DecideRetiring, RejectFailedDelivery, Refuse, Ignore, Decision
  <2> HIDE DEF r
  <2>5. Moves(k, e, r)
    BY <1>0, <1>5, <2>2, <2>3, <2>4 DEF Moves
  <2> QED BY <2>5 DEF r
<1> QED BY <1>0, <1>1, <1>2, <1>3, <1>4, <1>5 DEF Phases

-----------------------------------------------------------------------------
(* What the refinement needs besides: an Inactive slot is blank, no        *)
(* command has two deliveries, and a caller that found no identity left is *)
(* done.                                                                   *)

Blank == \A s \in ActivationIds : slots[s].phase = "Inactive" => slots[s] = Inactive

OneDelivery ==
  \A i, j \in ActivationIds, d \in Dispatches :
    Held(Deliver(i, d)) /\ Held(Deliver(j, d)) => i = j

Exhausted == \A d \in Dispatches : answer[d] = "Exhausted" => future[d] = "done"

MInv == Blank /\ OneDelivery /\ Exhausted

LEMMA DeliveryKept ==
  ASSUME OneDelivery, \A w \in TaskType : w.type = "Deliver" /\ Held(w)' => Held(w)
  PROVE  OneDelivery'
<1>1. \A i \in ActivationIds, d \in Dispatches : Deliver(i, d) \in TaskType /\ Deliver(i, d).type = "Deliver"
  BY DEF TaskType, Deliver
<1>2. \A i \in ActivationIds, d \in Dispatches : Held(Deliver(i, d))' => Held(Deliver(i, d))
  BY <1>1
<1> QED BY <1>2 DEF OneDelivery

(* The first answer of a caller is its last, and no step but its own       *)
(* dispatch leaves it without an identity.                                 *)
LEMMA ExhaustedKept ==
  ASSUME Exhausted,
         \A d \in Dispatches : answer'[d] = "Exhausted" => answer[d] = "Exhausted" \/ future'[d] = "done",
         \A d \in Dispatches : future[d] = "done" => future'[d] = "done"
  PROVE  Exhausted'
BY DEF Exhausted

LEMMA CompletedKept ==
  ASSUME TypeOK, Exhausted, NEW ds, NEW result \in {"Ok", "Refused"},
         Complete(ds, result) \/ UNCHANGED answer,
         \/ Wake \/ UNCHANGED future
         \/ \E d \in Dispatches : Waiting(d) /\ future' = [future EXCEPT ![d] = "dropped"]
  PROVE  Exhausted'
<1>1. \A d \in Dispatches : answer'[d] = "Exhausted" => answer[d] = "Exhausted"
  BY DEF Complete
<1>2. \A d \in Dispatches : future[d] = "done" => future'[d] = "done"
  BY DEF Wake, Waiting, TypeOK
<1> QED BY <1>1, <1>2, ExhaustedKept

LEMMA FoundKept ==
  ASSUME TypeOK, Exhausted, NEW by, NEW e, NEW finished, NEW rest, Find(by, e, finished, rest),
         \/ Wake
         \/ \E d \in Dispatches : Waiting(d) /\ future' = [future EXCEPT ![d] = "dropped"]
  PROVE  Exhausted'
<1>1. Complete(Refused(Reduce(Inactive, e).effects), "Refused") \/ UNCHANGED answer
  BY DEF Find
<1>2. PICK ds : ds = Refused(Reduce(Inactive, e).effects)
  OBVIOUS
<1>3. Complete(ds, "Refused") \/ UNCHANGED answer
  BY <1>1, <1>2
<1> QED BY <1>3, CompletedKept

LEMMA NextExhausted ==
  ASSUME TypeOK, Exhausted, Next
  PROVE  Exhausted'
<1>1. ASSUME NEW c \in calls, Proceeds(c) \/ InterpreterPanics(c) PROVE Exhausted'
  <2>1. CASE Finds(c)
    <3>1. Find(c.by, c.event, {}, calls \ {c}) /\ Wake
      BY <2>1 DEF Finds
    <3> QED BY <3>1, FoundKept
  <2>2. CASE Submit(c) \/ Interpret(c) \/ Release(c)
    BY <2>2 DEF Submit, Interpret, Release, Exhausted
  <2>3. CASE ApplyEffect(c)
    <3>1. PICK ds : ds = Refused(<< Head(Batch(c.slot)) >>)
      OBVIOUS
    <3>2. Complete(ds, "Refused") /\ Wake
      BY <2>3, <3>1 DEF ApplyEffect
    <3> QED BY <3>2, CompletedKept
  <2>4. CASE InterpreterPanics(c)
    <3>1. PICK ds : ds = Refused(<< Head(Batch(c.slot)) >>)
      OBVIOUS
    <3>2. /\ Complete(ds, "Refused")
          /\ future' = [d \in Dispatches |->
                          IF d = c.by /\ future[d] = "polled" THEN "unwound" ELSE future[d]]
      BY <2>4, <3>1 DEF InterpreterPanics
    <3>3. \A d \in Dispatches : answer'[d] = "Exhausted" => answer[d] = "Exhausted"
      BY <3>2 DEF Complete
    <3>4. \A d \in Dispatches : future[d] = "done" => future'[d] = "done"
      BY <3>2
    <3> QED BY <3>3, <3>4, ExhaustedKept
  <2> QED BY <1>1, <2>1, <2>2, <2>3, <2>4 DEF Proceeds
<1>2. ASSUME NEW n \in Entities, NEW d \in Dispatches,
             DispatchMapped(d, n) \/ DispatchAbsent(d, n) \/ DispatchExhausted(d, n)
      PROVE  Exhausted'
  <2>1. future[d] = "none" /\ future \in [Dispatches -> FutureStates] /\ answer \in [Dispatches -> Answers]
    BY <1>2 DEF DispatchMapped, DispatchAbsent, DispatchExhausted, TypeOK
  <2>2. \/ answer' = answer /\ future' = [future EXCEPT ![d] = "polled"]
        \/ answer' = [answer EXCEPT ![d] = "Exhausted"] /\ future' = [future EXCEPT ![d] = "done"]
    <3>1. CASE DispatchAbsent(d, n)
      <4>1. PICK id \in ActivationIds : Claim(d, n, id)
        BY <3>1 DEF DispatchAbsent
      <4> QED BY <4>1 DEF Claim
    <3>2. CASE DispatchMapped(d, n) \/ DispatchExhausted(d, n)
      BY <3>2 DEF DispatchMapped, DispatchExhausted
    <3> QED BY <1>2, <3>1, <3>2
  <2> QED BY <2>1, <2>2 DEF Exhausted
<1>3. ASSUME NEW n \in Entities, NEW p \in Passivations, PassivateReads(p, n) PROVE Exhausted'
  BY <1>3 DEF PassivateReads, Exhausted
<1>4. ASSUME NEW d \in Dispatches, Poll(d) PROVE Exhausted'
  BY <1>4 DEF Poll, Exhausted, TypeOK
<1>5. ASSUME NEW d \in Dispatches, DropFuture(d) PROVE Exhausted'
  <2>1. Waiting(d) /\ future' = [future EXCEPT ![d] = "dropped"]
    BY <1>5 DEF DropFuture
  <2>2. CASE ticket[d] = NoActivation
    <3>1. UNCHANGED answer
      BY <1>5, <2>2 DEF DropFuture
    <3>2. PICK ds, result : ds = {} /\ result = "Ok"
      OBVIOUS
    <3> QED BY <2>1, <3>1, <3>2, CompletedKept
  <2>3. CASE ticket[d] # NoActivation
    <3>1. PICK e : e = [trigger |-> "CancelWaiter", id |-> ticket[d], d |-> d]
      OBVIOUS
    <3>2. Find(d, e, {}, calls)
      BY <1>5, <2>3, <3>1 DEF DropFuture
    <3> QED BY <2>1, <3>2, FoundKept
  <2> QED BY <2>2, <2>3
<1>6. ASSUME NEW t, NEW e, Report(t, e) PROVE Exhausted'
  <2>1. Find(t, e, {t}, calls) /\ Wake
    BY <1>6 DEF Report
  <2> QED BY <2>1, FoundKept
<1>7. ASSUME NEW id, NEW d, DeliveryAccepted(id, d) PROVE Exhausted'
  <2>1. Complete({d}, "Ok") /\ Wake
    BY <1>7 DEF DeliveryAccepted
  <2> QED BY <2>1, CompletedKept
<1>8. ASSUME NEW id \in ActivationIds,
             \/ ActivationReports(id) \/ FenceReports(id)
             \/ \E d \in Dispatches : DeliveryRefused(id, d)
             \/ \E mode \in Modes : RetirementReports(id, mode)
      PROVE  Exhausted'
  BY <1>6, <1>8 DEF ActivationReports, FenceReports, DeliveryRefused, RetirementReports
<1> QED BY <1>1, <1>2, <1>3, <1>4, <1>5, <1>7, <1>8 DEF Next

LEMMA SubmitBlank ==
  ASSUME RInv, Blank, NEW c \in calls, Submit(c)
  PROVE  /\ Blank'
         /\ Moves(slots[c.slot], c.event, Reduce(slots[c.slot], c.event))
<1>1. PICK s, k, e : s = c.slot /\ k = slots[c.slot] /\ e = c.event
  OBVIOUS
<1>2. c.at = "submit"
  BY DEF Submit
<1>3. /\ s \in ActivationIds /\ k \in SlotType /\ (k.phase # "Inactive" => k.id = s)
      /\ e \in Events /\ Timely(s, k, e)
  BY <1>1, <1>2, SubmittedInTime DEF RInv
<1>4. k.phase = "Inactive" => k = Inactive
  BY <1>1, <1>3 DEF Blank
<1>5. PICK r : r = Reduce(k, e)
  OBVIOUS
<1>6. Moves(k, e, r)
  BY <1>3, <1>4, <1>5, ReduceMoves
<1>7. slots' = [slots EXCEPT ![s] = r.slot]
  BY <1>1, <1>5 DEF Submit
<1>8. Blank'
  BY <1>3, <1>6, <1>7 DEF Blank, Moves, RInv, IInv, TypeOK
<1> QED BY <1>1, <1>5, <1>6, <1>8

LEMMA NextMInv ==
  ASSUME RInv, MInv, Next
  PROVE  MInv'
<1>0. /\ IInv /\ WInv /\ HandInv /\ Issuing /\ RestInv /\ CallsInv /\ Lone /\ WorkInv
      /\ Blank /\ OneDelivery /\ Exhausted /\ TypeOK
  BY DEF RInv, MInv, IInv
<1>1. Exhausted'
  BY <1>0, NextExhausted
<1>2. CASE Idles
  <2>1. UNCHANGED slots /\ \A w \in TaskType : Held(w)' <=> Held(w)
    BY <1>0, <1>2, IdledWork, IdleWork
  <2>2. Blank'
    BY <1>0, <2>1 DEF Blank
  <2>3. OneDelivery'
    BY <1>0, <2>1, DeliveryKept
  <2> QED BY <1>1, <2>2, <2>3 DEF MInv
<1>3. ASSUME NEW t, NEW e, Reported(t, e) PROVE MInv'
  <2>1. UNCHANGED slots /\ \A w \in TaskType : Held(w)' => Held(w)
    BY <1>0, <1>3, ReportedWork DEF Reported, Report, directory
  <2>2. Blank'
    BY <1>0, <2>1 DEF Blank
  <2>3. OneDelivery'
    BY <1>0, <2>1, DeliveryKept
  <2> QED BY <1>1, <2>2, <2>3 DEF MInv
<1>4. ASSUME NEW id \in ActivationIds, NEW d \in Dispatches, DeliveryAccepted(id, d) PROVE MInv'
  <2>1. UNCHANGED slots /\ \A w \in TaskType : Held(w)' => Held(w)
    BY <1>0, <1>4, AcceptedWork DEF DeliveryAccepted, directory
  <2>2. Blank'
    BY <1>0, <2>1 DEF Blank
  <2>3. OneDelivery'
    BY <1>0, <2>1, DeliveryKept
  <2> QED BY <1>1, <2>2, <2>3 DEF MInv
<1>5. ASSUME NEW d \in Dispatches, NEW n \in Entities, DispatchAbsent(d, n) PROVE MInv'
  <2>1. /\ lastId' \in ActivationIds /\ slots' = [slots EXCEPT ![lastId'] = Activating(lastId', << d >>)]
        /\ \A w \in TaskType : Held(w)' <=> Held(w) \/ w = StartActivation(lastId')
    BY <1>0, <1>5, ClaimedWork
  <2>2. Activating(lastId', << d >>).phase = "Activating"
    BY DEF Activating, Slot
  <2>3. Blank'
    BY <1>0, <2>1, <2>2 DEF Blank, TypeOK
  <2>4. StartActivation(lastId').type # "Deliver"
    BY DEF StartActivation
  <2>5. OneDelivery'
    BY <1>0, <2>1, <2>4, DeliveryKept
  <2> QED BY <1>1, <2>3, <2>5 DEF MInv
<1>6. ASSUME NEW c \in calls, Finds(c) /\ c.by \in TaskType PROVE MInv'
  <2>1. UNCHANGED slots /\ \A w \in TaskType : Held(w)' => Held(w)
    BY <1>0, <1>6, FindsWork DEF Finds, directory
  <2>2. Blank'
    BY <1>0, <2>1 DEF Blank
  <2>3. OneDelivery'
    BY <1>0, <2>1, DeliveryKept
  <2> QED BY <1>1, <2>2, <2>3 DEF MInv
<1>7. ASSUME NEW c \in calls, ApplyEffect(c) \/ InterpreterPanics(c) PROVE MInv'
  <2>1. UNCHANGED slots /\ \A w \in TaskType : Held(w)' => Held(w)
    BY <1>0, <1>7, AppliedWork, PanickedWork DEF ApplyEffect, InterpreterPanics
  <2>2. Blank'
    BY <1>0, <2>1 DEF Blank
  <2>3. OneDelivery'
    BY <1>0, <2>1, DeliveryKept
  <2> QED BY <1>1, <2>2, <2>3 DEF MInv
<1>8. ASSUME NEW c \in calls, Submit(c) PROVE MInv'
  <2>1. Blank'
    BY <1>0, <1>8, SubmitBlank
  <2>2. PICK r : r = Reduce(slots[c.slot], c.event)
    OBVIOUS
  <2>3. /\ Started(r.effects) \subseteq TaskType
        /\ \A w \in Started(r.effects), v \in TaskType : Twin(v, w) => ~ Held(v)
        /\ \A w \in TaskType : Held(w)' => Held(w) \/ w \in Started(r.effects)
        /\ Course(c.slot, slots[c.slot], c.event, r)
    BY <1>0, <1>8, <2>2, SubmitWork
  <2>4. OneDelivery'
    <3> SUFFICES ASSUME NEW i \in ActivationIds, NEW j \in ActivationIds, NEW d \in Dispatches,
                        Held(Deliver(i, d))', Held(Deliver(j, d))'
                 PROVE  i = j
      BY DEF OneDelivery
    <3>1. Deliver(i, d) \in TaskType /\ Deliver(j, d) \in TaskType
      BY DEF TaskType
    <3>2. Twin(Deliver(i, d), Deliver(j, d)) /\ Twin(Deliver(j, d), Deliver(i, d))
      BY DEF Twin, Deliver
    <3>3. \A a \in ActivationIds : Deliver(a, d) \in Started(r.effects) => a = c.slot
      BY <2>3 DEF Course, Starts, Deliver, EnqueueFence, Retire
    <3>4. CASE Deliver(i, d) \in Started(r.effects) /\ Deliver(j, d) \in Started(r.effects)
      BY <3>3, <3>4
    <3>5. CASE Held(Deliver(i, d)) /\ Held(Deliver(j, d))
      BY <1>0, <3>5 DEF OneDelivery
    <3> QED BY <2>3, <3>1, <3>2, <3>4, <3>5
  <2> QED BY <1>1, <2>1, <2>4 DEF MInv
<1>9. CASE \E c \in calls : Proceeds(c) \/ InterpreterPanics(c)
  <2>1. PICK c \in calls : Proceeds(c) \/ InterpreterPanics(c)
    BY <1>9
  <2>2. CASE Interpret(c) \/ Release(c) \/ (Finds(c) /\ c.by \notin TaskType)
    <3>1. Idles
      BY <2>2 DEF Idles
    <3> QED BY <1>2, <3>1
  <2> QED BY <1>6, <1>7, <1>8, <2>1, <2>2 DEF Proceeds
<1>10. CASE \E n \in Entities :
              \/ \E d \in Dispatches :
                   DispatchMapped(d, n) \/ DispatchAbsent(d, n) \/ DispatchExhausted(d, n)
              \/ \E p \in Passivations : PassivateReads(p, n)
  <2>1. CASE ~ \E n \in Entities, d \in Dispatches : DispatchAbsent(d, n)
    <3>1. Idles
      BY <1>10, <2>1 DEF Idles
    <3> QED BY <1>2, <3>1
  <2> QED BY <1>5, <2>1
<1>11. CASE \E d \in Dispatches : Poll(d) \/ DropFuture(d)
  <2>1. Idles
    BY <1>11 DEF Idles
  <2> QED BY <1>2, <2>1
<1>12. CASE \E id \in ActivationIds :
              \/ ActivationReports(id) \/ FenceReports(id)
              \/ \E d \in Dispatches : DeliveryAccepted(id, d) \/ DeliveryRefused(id, d)
              \/ \E mode \in Modes : RetirementReports(id, mode)
  BY <1>3, <1>4, <1>12, TaskReported
<1> QED BY <1>9, <1>10, <1>11, <1>12 DEF Next

LEMMA StutterMInv == MInv /\ UNCHANGED vars => MInv'
<1> SUFFICES ASSUME MInv, UNCHANGED vars PROVE MInv'
  OBVIOUS
<1>1. UNCHANGED <<slots, outputs, tasks, calls, answer, future>>
  BY DEF vars, directory
<1>2. \A w : Held(w)' <=> Held(w)
  BY <1>1 DEF Held, Holds, Looking
<1>3. Blank' /\ Exhausted'
  BY <1>1 DEF MInv, Blank, Exhausted
<1>4. OneDelivery'
  BY <1>2 DEF MInv, OneDelivery
<1> QED BY <1>3, <1>4 DEF MInv

LEMMA InitMInv == Init => MInv
<1> SUFFICES ASSUME Init PROVE MInv
  OBVIOUS
<1>1. Blank /\ Exhausted
  BY DEF Init, Blank, Exhausted
<1>2. \A w : ~ Held(w)
  BY DEF Init, Held, Holds, Queues
<1> QED BY <1>1, <1>2 DEF MInv, OneDelivery

FullInv == RInv /\ MInv

LEMMA InitFull == Init => FullInv
BY InitIInv, InitWaiters, InitHand, InitRest, InitCallsInv, InitWork, InitMInv DEF RInv, FullInv

LEMMA NextFull == FullInv /\ [Next]_vars => FullInv'
BY NextRInv, NextMInv, StutterMInv DEF FullInv

-----------------------------------------------------------------------------
(* What the variables of EntitySlot are, in terms of who holds what.       *)

HeldTasks == {w \in TaskType : Held(w)}

Attempts == {StartActivation(id) : id \in failed}

Delivering(d) == \E id \in ActivationIds : Held(Deliver(id, d))

Rejecting(d) == \E s \in ActivationIds, reason \in Reasons : Queues(outputs[s], Reject(d, reason))

Dispatching(d) == \E c \in calls : c.by = d /\ c.at = "submit" /\ c.event.trigger = "Dispatch"

LEMMA QueuedAre ==
  ASSUME NEW fx
  PROVE  fx \in QueuedEffects <=> \E s \in ActivationIds : Queues(outputs[s], fx)
BY DEF QueuedEffects, Range, Queues

LEMMA QueuedTyped ==
  ASSUME TypeOK, NEW s \in ActivationIds, NEW fx, Queues(outputs[s], fx)
  PROVE  fx \in EffectType
<1>1. PICK q : q = outputs[s]
  OBVIOUS
<1>2. q \in Seq(Seq(EffectType) \ {<< >>})
  BY <1>1 DEF TypeOK
<1>3. PICK b \in DOMAIN q : \E i \in DOMAIN q[b] : q[b][i] = fx
  BY <1>1 DEF Queues
<1>4. q[b] \in Seq(EffectType)
  BY <1>2, <1>3
<1> QED BY <1>3, <1>4

LEMMA RejectsAre ==
  ASSUME NEW fx \in EffectType
  PROVE  fx.type = "Reject" <=> \E d \in Dispatches, reason \in Reasons : fx = Reject(d, reason)
BY DEF EffectType, TaskType, StartActivation, Deliver, Reject, EnqueueFence, Retire, RemoveEntry

LEMMA ReportingAre ==
  ASSUME TypeOK, NEW w
  PROVE  w \in Reporting <=> w \in TaskType /\ \E c \in calls : Looking(c) /\ c.by = w
<1>1. \A c \in calls : c.by \in Agents
  BY CallFields DEF TypeOK
<1> QED BY <1>1, DistinctAgents DEF Reporting, Looking, Agents

LEMMA HeldAre ==
  ASSUME TypeOK, NEW w
  PROVE  w \in TaskType /\ Held(w) <=>
           \/ w \in tasks
           \/ w \in QueuedEffects /\ w.type \in Asynchronous
           \/ w \in Reporting
<1>1. w \in tasks => w \in TaskType
  BY DEF TypeOK
<1>2. w \in QueuedEffects /\ w.type \in Asynchronous => w \in TaskType
  BY QueuedAre, QueuedTyped, EffectFields
<1>3. w \in TaskType => w.type \in Asynchronous
  BY TaskFields
<1>4. Held(w) <=> \/ \E s \in ActivationIds : Queues(outputs[s], w)
                  \/ w \in tasks
                  \/ \E c \in calls : Looking(c) /\ c.by = w
  BY DEF Held, Holds, Looking
<1> QED BY <1>1, <1>2, <1>3, <1>4, QueuedAre, ReportingAre

LEMMA TasksAre == RInv => SlotTasks = HeldTasks \cup Attempts
<1> SUFFICES ASSUME RInv PROVE SlotTasks = HeldTasks \cup Attempts
  OBVIOUS
<1>1. TypeOK
  BY DEF RInv, IInv
<1>2. \A w : w \in HeldTasks <=> \/ w \in tasks
                                 \/ w \in QueuedEffects /\ w.type \in Asynchronous
                                 \/ w \in Reporting
  BY <1>1, HeldAre DEF HeldTasks
<1> QED BY <1>2 DEF SlotTasks, Attempts

(* The delivery of an accepted command is at most being reported.          *)
LEMMA DeliversWhere ==
  ASSUME TypeOK, NEW id \in ActivationIds, NEW d \in Dispatches, Held(Deliver(id, d))
  PROVE  \/ At(d, "spawned", Deliver(id, d))
         \/ \E s : At(d, "queued", s)
         \/ Deliver(id, d) \in Reporting
<1>1. PICK k, x : Holds(Deliver(id, d), k, x)
  BY DEF Held
<1>2. Deliver(id, d).type = "Deliver" /\ Deliver(id, d).d = d /\ Deliver(id, d) \in TaskType
  BY ErrandFields DEF TaskType
<1>3. CASE k = "queued" /\ x \in ActivationIds /\ Queues(outputs[x], Deliver(id, d))
  <2>1. InQueue(outputs[x], d)
    BY <1>2, <1>3 DEF InQueue, InBatch, Queues, Carries
  <2> QED BY <1>3, <2>1 DEF At
<1>4. CASE Deliver(id, d) \in tasks
  BY <1>2, <1>4 DEF At
<1>5. CASE k = "reporting" /\ x \in calls /\ Looking(x) /\ x.by = Deliver(id, d)
  BY <1>2, <1>5, ReportingAre
<1> QED BY <1>1, <1>3, <1>4, <1>5 DEF Holds

LEMMA AcceptedAre == RInv => Accepted = {d \in Dispatches : answer[d] = "Ok" /\ ~ Delivering(d)}
<1> SUFFICES ASSUME RInv, NEW d \in Dispatches, answer[d] = "Ok"
             PROVE  (\A id \in ActivationIds : Deliver(id, d) \notin Reporting) <=> ~ Delivering(d)
  BY DEF Accepted
<1>1. TypeOK /\ Hand(d)
  BY DEF RInv, IInv, HandInv
<1>2. At(d, "settled", "Ok")
  BY DEF At
<1>3. ASSUME NEW id \in ActivationIds PROVE Deliver(id, d) \in Reporting <=> Held(Deliver(id, d))
  <2>1. Deliver(id, d) \in Reporting => Held(Deliver(id, d))
    BY <1>1, HeldAre
  <2>2. Held(Deliver(id, d)) => Deliver(id, d) \in Reporting
    BY <1>1, <1>2, DeliversWhere DEF Hand
  <2> QED BY <2>1, <2>2
<1> QED BY <1>3 DEF Delivering

LEMMA ReturnedAre == RInv => Returned = {d \in Dispatches : answer[d] = "Refused" \/ Rejecting(d)}
<1> SUFFICES ASSUME RInv PROVE Returned = {d \in Dispatches : answer[d] = "Refused" \/ Rejecting(d)}
  OBVIOUS
<1>1. TypeOK
  BY DEF RInv, IInv
<1>2. \A fx \in QueuedEffects : fx \in EffectType
  BY <1>1, QueuedAre, QueuedTyped
<1>3. \A d, reason : Reject(d, reason).type = "Reject" /\ Reject(d, reason).d = d
  BY DEF Reject
<1>4. ASSUME NEW d
      PROVE  d \in {fx.d : fx \in {gx \in QueuedEffects : gx.type = "Reject"}} <=> d \in Dispatches /\ Rejecting(d)
  <2>1. ASSUME NEW fx \in QueuedEffects, fx.type = "Reject", fx.d = d PROVE d \in Dispatches /\ Rejecting(d)
    <3>1. PICK x \in Dispatches, reason \in Reasons : fx = Reject(x, reason)
      BY <1>2, <2>1, RejectsAre
    <3>2. x = d
      BY <1>3, <2>1, <3>1
    <3> QED BY <2>1, <3>1, <3>2, QueuedAre DEF Rejecting
  <2>2. ASSUME d \in Dispatches, Rejecting(d) PROVE \E fx \in QueuedEffects : fx.type = "Reject" /\ fx.d = d
    <3>1. PICK s \in ActivationIds, reason \in Reasons : Queues(outputs[s], Reject(d, reason))
      BY <2>2 DEF Rejecting
    <3> QED BY <1>3, <3>1, QueuedAre
  <2> QED BY <2>1, <2>2
<1> QED BY <1>4 DEF Returned

LEMMA IssuedAre ==
  Issued = {d \in Dispatches : future[d] # "none" /\ answer[d] # "Exhausted" /\ ~ Dispatching(d)}
BY DEF Issued, Dispatching

InFlight == {t.d : t \in {u \in SlotTasks : u.type = "Deliver"}}

LEMMA InFlightAre == RInv => InFlight = {d \in Dispatches : Delivering(d)}
<1> SUFFICES ASSUME RInv PROVE InFlight = {d \in Dispatches : Delivering(d)}
  OBVIOUS
<1>1. \A u \in SlotTasks : u.type = "Deliver" <=> u \in HeldTasks /\ u.type = "Deliver"
  <2>1. \A u \in Attempts : u.type # "Deliver"
    BY ErrandFields DEF Attempts
  <2> QED BY <2>1, TasksAre
<1>2. HeldTasks \subseteq SlotTasks
  BY TasksAre
<1>3. ASSUME NEW u \in HeldTasks, u.type = "Deliver" PROVE u.d \in Dispatches /\ Delivering(u.d)
  <2>1. u \in TaskType /\ Held(u)
    BY <1>3 DEF HeldTasks
  <2>2. PICK d \in Dispatches : u = Deliver(u.id, d) /\ u.id \in ActivationIds
    BY <1>3, <2>1, TaskFields
  <2>3. u.d = d
    BY <2>2, ErrandFields
  <2> QED BY <2>1, <2>2, <2>3 DEF Delivering
<1>4. ASSUME NEW d \in Dispatches, Delivering(d) PROVE \E u \in HeldTasks : u.type = "Deliver" /\ u.d = d
  <2>1. PICK id \in ActivationIds : Held(Deliver(id, d))
    BY <1>4 DEF Delivering
  <2>2. Deliver(id, d) \in HeldTasks
    BY <2>1 DEF HeldTasks, TaskType
  <2> QED BY <2>2, ErrandFields
<1> QED BY <1>1, <1>2, <1>3, <1>4 DEF InFlight

(* Only the mapped slot has waiters.                                       *)
LEMMA WaitersCurrent ==
  ASSUME RInv, NEW s \in ActivationIds, Live(s)
  PROVE  map[Entity] = s /\ CurrentSlot = slots[s]
<1>1. s \in 1 .. lastId
  <2>1. ~ s > lastId
    BY DEF RInv, IInv, Unissued
  <2> QED BY <2>1, IssuedIds, MaxActivationAssumption DEF RInv, IInv, ActivationIds
<1>2. map[Entity] = s
  BY <1>1 DEF RInv, IInv, OneLiveIncarnation, Lone
<1>3. s # NoActivation
  BY MaxActivationAssumption DEF ActivationIds, NoActivation
<1> QED BY <1>2, <1>3 DEF CurrentSlot

LEMMA Mapped ==
  ASSUME RInv
  PROVE  map[Entity] # NoActivation => map[Entity] \in ActivationIds /\ map[Entity] = lastId /\ map[Entity] \in 1 .. lastId
<1>1. Entity \in Entities
  BY TheEntity
<1>2. map[Entity] \in 0 .. lastId /\ lastId \in Nat /\ 1 .. lastId \subseteq ActivationIds
  BY <1>1, IssuedIds DEF RInv, IInv, TypeOK
<1> QED BY <1>2 DEF NoActivation, RInv, Lone

LEMMA WaitingAre ==
  ASSUME RInv, NEW d
  PROVE  (\E s : At(d, "waiting", s)) <=> d \in Range(CurrentSlot.waiters)
<1>1. ASSUME NEW s, At(d, "waiting", s) PROVE d \in Range(CurrentSlot.waiters)
  <2>1. s \in ActivationIds /\ d \in Range(slots[s].waiters)
    BY <1>1 DEF At
  <2>2. slots[s].waiters # << >>
    BY <2>1 DEF Range
  <2>3. Live(s)
    BY <2>1, <2>2 DEF RInv, WInv, WaiterSeats, Live
  <2> QED BY <2>1, <2>3, WaitersCurrent
<1>2. ASSUME d \in Range(CurrentSlot.waiters) PROVE \E s : At(d, "waiting", s)
  <2>1. map[Entity] # NoActivation
    BY <1>2 DEF CurrentSlot, Inactive, Slot, Range
  <2> QED BY <1>2, <2>1, Mapped DEF CurrentSlot, At
<1> QED BY <1>1, <1>2

LEMMA DeliveringSomewhere ==
  ASSUME RInv, NEW d \in Dispatches, Delivering(d)
  PROVE  \E k, x : At(d, k, x)
<1>1. PICK id \in ActivationIds : Held(Deliver(id, d))
  BY DEF Delivering
<1>2. TypeOK
  BY DEF RInv, IInv
<1>3. CASE Deliver(id, d) \in Reporting
  <2>1. PICK c \in calls : Looking(c) /\ c.by = Deliver(id, d) /\ c.by \in TaskType
    BY <1>2, <1>3, ReportingAre
  <2>2. c.event \in Reports(Deliver(id, d))
    BY <2>1, TaskSpeaks DEF RInv
  <2>3. CASE c.event = Resolved(id, << >>)
    <3>1. answer[d] = "Ok"
      BY <2>1, <2>3 DEF RInv, CallsInv, Thanked, Thanks
    <3>2. At(d, "settled", "Ok")
      BY <3>1 DEF At
    <3> QED BY <3>2
  <2>4. CASE c.event = Resolved(id, << d >>)
    <3>1. Range(<< d >>) = {d}
      BY SingleRange
    <3>2. d \in Conveyed(c.event)
      BY <2>4, <3>1 DEF Conveyed, Resolved
    <3>3. At(d, "called", c)
      BY <3>2 DEF At
    <3> QED BY <3>3
  <2> QED BY <2>2, <2>3, <2>4, ReportsOf
<1> QED BY <1>1, <1>2, <1>3, DeliversWhere

LEMMA QueuedOwns ==
  ASSUME RInv, NEW d \in Dispatches, NEW s, At(d, "queued", s)
  PROVE  Delivering(d) \/ Rejecting(d)
<1>1. s \in ActivationIds /\ InQueue(outputs[s], d) /\ TypeOK
  BY DEF At, RInv, IInv
<1>2. PICK fx : Queues(outputs[s], fx) /\ Carries(fx, d)
  BY <1>1 DEF InQueue, InBatch, Queues
<1>3. fx \in EffectType
  BY <1>1, <1>2, QueuedTyped
<1>4. CASE fx.type = "Deliver"
  <2>1. fx \in TaskType
    BY <1>3, <1>4, EffectFields DEF Asynchronous
  <2>2. PICK x \in Dispatches : fx = Deliver(fx.id, x) /\ fx.id \in ActivationIds
    BY <1>4, <2>1, TaskFields
  <2>3. x = d
    BY <1>2, <2>2, CarriedBy
  <2>4. Holds(fx, "queued", s)
    BY <1>1, <1>2 DEF Holds
  <2> QED BY <2>2, <2>3, <2>4 DEF Delivering, Held
<1>5. CASE fx.type = "Reject"
  <2>1. PICK x \in Dispatches, reason \in Reasons : fx = Reject(x, reason)
    BY <1>3, <1>5, RejectsAre
  <2>2. x = d
    BY <1>2, <2>1, CarriedBy
  <2> QED BY <1>1, <1>2, <2>1, <2>2 DEF Rejecting
<1> QED BY <1>2, <1>4, <1>5 DEF Carries

LEMMA CalledOwns ==
  ASSUME RInv, NEW d \in Dispatches, NEW c, At(d, "called", c)
  PROVE  Delivering(d) \/ Dispatching(d)
<1>1. c \in calls /\ d \in Conveyed(c.event) /\ TypeOK
  BY DEF At, RInv, IInv
<1>2. c \in CallType /\ c.event # NoEvent
  BY <1>1 DEF TypeOK, Conveyed, NoEvent
<1>3. Looking(c) /\ (c.at = "find" => c.event \in ReportedType) /\ c.event \in Events
  BY <1>2 DEF CallType, Looking, Events
<1>4. CASE c.event.trigger = "Dispatch"
  <2>1. c.event.d = d
    BY <1>1, <1>4 DEF Conveyed
  <2>2. c.by = d
    BY <1>1, <1>4, <2>1 DEF RInv, WInv, DispatchesSubmitted
  <2>3. c.at = "submit"
    BY <1>3, <1>4 DEF Looking, ReportedType
  <2> QED BY <1>1, <1>4, <2>2, <2>3 DEF Dispatching
<1>5. CASE c.event.trigger = "DeliveryResolved"
  <2>1. c.by \in TaskType /\ c.event \in Reports(c.by)
    BY <1>1, <1>3, <1>5 DEF RInv, CallsInv, Spoken, Speaks
  <2>2. PICK x \in Dispatches : c.by = Deliver(c.event.id, x)
    BY <1>5, <2>1, ReportedBy
  <2>3. c.event.id \in ActivationIds
    BY <2>1, ReportTyped, TaskFields
  <2>4. c.event.failure \in {<< >>, << x >>}
    <3>1. c.event = Resolved(c.event.id, << >>) \/ c.event = Resolved(c.event.id, << x >>)
      BY <2>1, <2>2, ReportsOf
    <3> QED BY <3>1 DEF Resolved
  <2>5. x = d
    <3>1. d \in Range(c.event.failure)
      BY <1>1, <1>5 DEF Conveyed
    <3>2. Range(<< >>) = {} /\ Range(<< x >>) = {x}
      BY SingleRange DEF Range
    <3> QED BY <2>4, <3>1, <3>2
  <2>6. Holds(c.by, "reporting", c)
    BY <1>1, <1>3 DEF Holds
  <2> QED BY <2>2, <2>3, <2>5, <2>6 DEF Held, Delivering
<1>6. CASE c.event.trigger \notin {"Dispatch", "DeliveryResolved"}
  BY <1>1, <1>6 DEF Conveyed
<1> QED BY <1>4, <1>5, <1>6

(* The commands nobody holds are those dropped with their cancelled caller. *)
LEMMA CancelledAre == RInv /\ MInv => Cancelled = {d \in Dispatches : future[d] # "none" /\ Nowhere(d)}
<1> SUFFICES ASSUME RInv, MInv, NEW d \in Dispatches
             PROVE  d \in Cancelled <=> future[d] # "none" /\ Nowhere(d)
  BY DEF Cancelled, Issued
<1>1. TypeOK
  BY DEF RInv, IInv
<1>2. d \in Cancelled <=> /\ d \in Issued /\ d \notin Accepted /\ d \notin Returned
                          /\ d \notin Range(CurrentSlot.waiters) /\ d \notin InFlight
  BY DEF Cancelled, InFlight
<1>3. d \in Issued <=> future[d] # "none" /\ answer[d] # "Exhausted" /\ ~ Dispatching(d)
  BY IssuedAre
<1>4. d \in Accepted <=> answer[d] = "Ok" /\ ~ Delivering(d)
  BY AcceptedAre
<1>5. d \in Returned <=> answer[d] = "Refused" \/ Rejecting(d)
  BY ReturnedAre
<1>6. d \in InFlight <=> Delivering(d)
  BY InFlightAre
<1>7. ASSUME d \in Cancelled, NEW k, NEW x, At(d, k, x) PROVE FALSE
  <2>1. k # "waiting"
    BY <1>2, <1>7, WaitingAre
  <2>2. k # "queued"
    BY <1>2, <1>5, <1>6, <1>7, QueuedOwns
  <2>3. k # "called"
    BY <1>2, <1>3, <1>6, <1>7, CalledOwns
  <2>4. k # "spawned"
    <3> SUFFICES ASSUME x \in tasks, x.type = "Deliver", x.d = d PROVE FALSE
      BY <1>7 DEF At
    <3>1. x \in SlotTasks
      BY DEF SlotTasks
    <3> QED BY <1>2, <1>7, <3>1 DEF InFlight
  <2>5. k # "settled"
    <3> SUFFICES ASSUME x = answer[d], x # "Awaiting" PROVE FALSE
      BY <1>7 DEF At
    <3>1. x \in {"Ok", "Refused", "Exhausted"}
      BY <1>1 DEF TypeOK, Answers
    <3> QED BY <1>2, <1>3, <1>4, <1>5, <1>6, <1>7, <3>1
  <2> QED BY <1>7, <2>1, <2>2, <2>3, <2>4, <2>5 DEF At
<1>8. ASSUME future[d] # "none", Nowhere(d) PROVE d \in Cancelled
  <2>1. answer[d] = "Awaiting"
    <3>1. answer[d] # "Awaiting" => At(d, "settled", answer[d])
      BY DEF At
    <3> QED BY <1>8, <3>1 DEF Nowhere
  <2>2. ~ Delivering(d)
    BY <1>8, DeliveringSomewhere DEF Nowhere
  <2>3. ~ Dispatching(d)
    <3> SUFFICES ASSUME NEW c \in calls, c.by = d, c.event.trigger = "Dispatch" PROVE FALSE
      BY DEF Dispatching
    <3>1. c.event.d = d
      BY DEF RInv, WInv, DispatchesSubmitted
    <3>2. At(d, "called", c)
      BY <3>1 DEF At, Conveyed
    <3> QED BY <1>8, <3>2 DEF Nowhere
  <2>4. ~ Rejecting(d)
    <3> SUFFICES ASSUME NEW s \in ActivationIds, NEW reason \in Reasons, Queues(outputs[s], Reject(d, reason))
                 PROVE  FALSE
      BY DEF Rejecting
    <3>1. Carries(Reject(d, reason), d)
      BY CarriedBy
    <3>2. At(d, "queued", s)
      BY <3>1 DEF At, InQueue, InBatch, Queues
    <3> QED BY <1>8, <3>2 DEF Nowhere
  <2>5. d \notin Range(CurrentSlot.waiters)
    BY <1>8, WaitingAre DEF Nowhere
  <2> QED BY <1>2, <1>3, <1>4, <1>5, <1>6, <1>8, <2>1, <2>2, <2>3, <2>4, <2>5
<1> QED BY <1>3, <1>7, <1>8 DEF Nowhere, Cancelled

-----------------------------------------------------------------------------
(* Steps that leave the slot as it is.                                     *)

LEMMA Steady ==
  ASSUME UNCHANGED <<lastId, failed, acked>>, CurrentSlot' = CurrentSlot, SlotTasks' = SlotTasks,
         Issued' = Issued, Accepted' = Accepted, Returned' = Returned
  PROVE  UNCHANGED EntitySlotOf!vars
<1>1. Cancelled' = Cancelled
  BY DEF Cancelled
<1>2. Granted' = Granted
  BY DEF Granted
<1>3. Retired' = Retired
  BY <1>2 DEF Retired
<1> QED BY <1>1, <1>2, <1>3 DEF EntitySlotOf!vars, EntitySlotOf!commands, EntitySlotOf!history

(* The same work is going on.                                              *)
LEMMA SameWork ==
  ASSUME RInv, RInv', UNCHANGED failed, \A w \in TaskType : Held(w)' <=> Held(w)
  PROVE  SlotTasks' = SlotTasks /\ \A d \in Dispatches : Delivering(d)' <=> Delivering(d)
<1>1. (RInv => SlotTasks = HeldTasks \cup Attempts)'
  BY TasksAre, PTL
<1>2. HeldTasks' = HeldTasks
  BY DEF HeldTasks
<1>3. Attempts' = Attempts
  BY DEF Attempts
<1>4. \A id \in ActivationIds, d \in Dispatches : Deliver(id, d) \in TaskType
  BY DEF TaskType
<1>5. \A d \in Dispatches : Delivering(d)' <=> Delivering(d)
  BY <1>4 DEF Delivering
<1> QED BY <1>1, <1>2, <1>3, <1>5, TasksAre

(* No command is accepted or returned.                                     *)
LEMMA SameAnswers ==
  ASSUME RInv, RInv',
         \A d \in Dispatches : Delivering(d)' <=> Delivering(d),
         \A d \in Dispatches : answer'[d] = "Ok" /\ ~ Delivering(d) <=> answer[d] = "Ok" /\ ~ Delivering(d),
         \A d \in Dispatches : answer'[d] = "Refused" \/ Rejecting(d)' <=> answer[d] = "Refused" \/ Rejecting(d)
  PROVE  Accepted' = Accepted /\ Returned' = Returned
<1>1. (RInv => Accepted = {d \in Dispatches : answer[d] = "Ok" /\ ~ Delivering(d)})'
  BY AcceptedAre, PTL
<1>2. (RInv => Returned = {d \in Dispatches : answer[d] = "Refused" \/ Rejecting(d)})'
  BY ReturnedAre, PTL
<1> QED BY <1>1, <1>2, AcceptedAre, ReturnedAre

(* Nobody enters a command.                                                *)
LEMMA SameIssued ==
  ASSUME \A d \in Dispatches : future'[d] = "none" <=> future[d] = "none",
         \A d \in Dispatches : answer'[d] = "Exhausted" <=> answer[d] = "Exhausted",
         \A c \in calls : c \notin calls' => ~ (c.at = "submit" /\ c.event.trigger = "Dispatch"),
         \A c \in calls' : c \notin calls => ~ (c.at = "submit" /\ c.event.trigger = "Dispatch")
  PROVE  Issued' = Issued
BY DEF Issued

LEMMA FoundAnswers ==
  ASSUME TypeOK, NEW by, NEW e \in Events, e.trigger # "Dispatch", NEW finished, NEW rest,
         Find(by, e, finished, rest)
  PROVE  \A d \in Dispatches :
           answer'[d] = IF map[home[e.id]] = NoActivation /\ d \in Conveyed(e) /\ answer[d] = "Awaiting"
                        THEN "Refused" ELSE answer[d]
<1>1. PICK ds : ds = Refused(Reduce(Inactive, e).effects)
  OBVIOUS
<1>2. \A d : d \in ds <=> d \in Conveyed(e)
  BY <1>1, FoundNothing
<1>3. CASE map[home[e.id]] = NoActivation
  <2>1. Complete(ds, "Refused")
    BY <1>1, <1>3 DEF Find
  <2> QED BY <1>2, <1>3, <2>1 DEF Complete
<1>4. CASE map[home[e.id]] # NoActivation
  BY <1>4 DEF Find
<1> QED BY <1>3, <1>4

LEMMA FoundCalls ==
  ASSUME NEW by, NEW e, e.trigger # "Dispatch", NEW finished, NEW rest, Find(by, e, finished, rest)
  PROVE  \A c \in calls' : c \notin rest => ~ (c.at = "submit" /\ c.event.trigger = "Dispatch")
<1>1. PICK m : m = Call(by, "submit", map[home[e.id]], e)
  OBVIOUS
<1>2. m.event = e
  BY <1>1 DEF Call
<1> QED BY <1>1, <1>2 DEF Find

LEMMA IdleIssued ==
  ASSUME RInv, Idles
  PROVE  /\ Issued' = Issued
         /\ \A d \in Dispatches : answer'[d] = "Ok" <=> answer[d] = "Ok"
         /\ \A d \in Dispatches : answer'[d] = "Refused" <=> answer[d] = "Refused"
<1>0. TypeOK /\ answer \in [Dispatches -> Answers] /\ future \in [Dispatches -> FutureStates]
  BY DEF RInv, IInv, TypeOK
<1>1. ASSUME NEW n \in Entities, NEW d \in Dispatches, DispatchMapped(d, n)
      PROVE  Issued' = Issued /\ UNCHANGED answer
  <2>1. PICK e : e = [trigger |-> "Dispatch", d |-> d]
    OBVIOUS
  <2>2. PICK m : m = Call(d, "submit", map[n], e)
    OBVIOUS
  <2>3. m.by = d /\ m.at = "submit" /\ m.event.trigger = "Dispatch"
    BY <2>1, <2>2 DEF Call
  <2>4. /\ future[d] = "none" /\ future' = [future EXCEPT ![d] = "polled"]
        /\ calls' = calls \cup {m} /\ UNCHANGED answer
    BY <1>1, <2>1, <2>2 DEF DispatchMapped
  <2>5. d \notin Issued /\ d \notin Issued'
    BY <2>3, <2>4 DEF Issued
  <2>6. \A x \in Dispatches : x # d => (x \in Issued' <=> x \in Issued)
    BY <1>0, <2>3, <2>4 DEF Issued
  <2>7. Issued \subseteq Dispatches /\ Issued' \subseteq Dispatches
    BY DEF Issued
  <2> QED BY <2>4, <2>5, <2>6, <2>7
<1>2. ASSUME NEW n \in Entities, NEW d \in Dispatches, DispatchExhausted(d, n)
      PROVE  /\ Issued' = Issued
             /\ \A x \in Dispatches : answer'[x] = "Ok" <=> answer[x] = "Ok"
             /\ \A x \in Dispatches : answer'[x] = "Refused" <=> answer[x] = "Refused"
  <2>1. /\ future[d] = "none" /\ answer' = [answer EXCEPT ![d] = "Exhausted"]
        /\ future' = [future EXCEPT ![d] = "done"] /\ UNCHANGED calls
    BY <1>2 DEF DispatchExhausted
  <2>2. answer[d] = "Awaiting"
    <3>1. Nowhere(d)
      BY <2>1 DEF RInv, HandInv, Hand
    <3>2. answer[d] # "Awaiting" => At(d, "settled", answer[d])
      BY DEF At
    <3> QED BY <3>1, <3>2 DEF Nowhere
  <2>3. d \notin Issued /\ d \notin Issued'
    BY <1>0, <2>1 DEF Issued
  <2>4. \A x \in Dispatches : x # d => (x \in Issued' <=> x \in Issued)
    BY <1>0, <2>1 DEF Issued
  <2>5. Issued \subseteq Dispatches /\ Issued' \subseteq Dispatches
    BY DEF Issued
  <2> QED BY <1>0, <2>1, <2>2, <2>3, <2>4, <2>5
<1>3. ASSUME NEW n \in Entities, NEW p \in Passivations, PassivateReads(p, n)
      PROVE  Issued' = Issued /\ UNCHANGED answer
  <2>1. PICK m : m = Call(p, "find", NoActivation, [trigger |-> "BeginDrain", id |-> slots[map[n]].id])
    OBVIOUS
  <2>2. m.at = "find"
    BY <2>1 DEF Call
  <2>3. UNCHANGED <<future, answer>> /\ calls' = calls \cup {m}
    BY <1>3, <2>1 DEF PassivateReads
  <2> QED BY <2>2, <2>3, SameIssued
<1>4. ASSUME NEW d \in Dispatches, Poll(d) PROVE Issued' = Issued /\ UNCHANGED answer
  <2>1. UNCHANGED <<calls, answer>> /\ \A x \in Dispatches : future'[x] = "none" <=> future[x] = "none"
    BY <1>0, <1>4 DEF Poll
  <2> QED BY <2>1, SameIssued
<1>5. ASSUME NEW d \in Dispatches, DropFuture(d)
      PROVE  Issued' = Issued /\ \A x \in Dispatches : answer'[x] = answer[x]
  <2>1. \A x \in Dispatches : future'[x] = "none" <=> future[x] = "none"
    BY <1>0, <1>5 DEF DropFuture, Waiting
  <2>2. CASE ticket[d] = NoActivation
    <3>1. UNCHANGED <<calls, answer>>
      BY <1>5, <2>2 DEF DropFuture
    <3> QED BY <2>1, <3>1, SameIssued
  <2>3. CASE ticket[d] # NoActivation
    <3>1. PICK e : e = [trigger |-> "CancelWaiter", id |-> ticket[d], d |-> d]
      OBVIOUS
    <3>2. Find(d, e, {}, calls)
      BY <1>5, <2>3, <3>1 DEF DropFuture
    <3>3. ticket[d] \in ActivationIds
      BY <1>0, <2>3, IssuedIds DEF TypeOK, NoActivation
    <3>4. e \in Events /\ e.trigger = "CancelWaiter"
      BY <3>1, <3>3 DEF Events, ReportedType
    <3>5. Conveyed(e) = {}
      BY <3>4 DEF Conveyed
    <3>6. \A x \in Dispatches : answer'[x] = answer[x]
      BY <1>0, <3>2, <3>4, <3>5, FoundAnswers
    <3>7. \A c \in calls' : c \notin calls => ~ (c.at = "submit" /\ c.event.trigger = "Dispatch")
      BY <3>2, <3>4, FoundCalls
    <3>8. calls \subseteq calls'
      BY <3>2 DEF Find
    <3> QED BY <2>1, <3>6, <3>7, <3>8, SameIssued
  <2> QED BY <2>2, <2>3
<1>6. ASSUME NEW c \in calls, Interpret(c) \/ Release(c) PROVE Issued' = Issued /\ UNCHANGED answer
  <2>1. c.at # "submit" /\ UNCHANGED <<future, answer>>
    BY <1>6 DEF Interpret, Release
  <2>2. PICK m : m = Call(c.by, "own", c.slot, NoEvent)
    OBVIOUS
  <2>3. m.at # "submit"
    BY <2>2 DEF Call
  <2>4. calls' = calls \ {c} \/ calls' = (calls \ {c}) \cup {m}
    BY <1>6, <2>2 DEF Interpret, Release, Moved
  <2> QED BY <2>1, <2>3, <2>4, SameIssued
<1>7. ASSUME NEW c \in calls, Finds(c), c.by \notin TaskType
      PROVE  Issued' = Issued /\ \A x \in Dispatches : answer'[x] = answer[x]
  <2>1. c.at = "find" /\ Find(c.by, c.event, {}, calls \ {c}) /\ Wake
    BY <1>7 DEF Finds
  <2>2. c.event \in Events /\ c.event.trigger # "Dispatch"
    BY <1>0, <2>1, CancelFields
  <2>3. c.event.trigger \in {"CancelWaiter", "BeginDrain"}
    BY <1>7, <2>1, <2>2 DEF RInv, CallsInv, Looking, Spoken, Speaks
  <2>4. Conveyed(c.event) = {}
    BY <2>3 DEF Conveyed
  <2>5. \A x \in Dispatches : answer'[x] = answer[x]
    BY <1>0, <2>1, <2>2, <2>4, FoundAnswers
  <2>6. \A b \in calls' : b \notin calls \ {c} => ~ (b.at = "submit" /\ b.event.trigger = "Dispatch")
    BY <2>1, <2>2, FoundCalls
  <2>7. calls \ {c} \subseteq calls'
    BY <2>1 DEF Find
  <2>8. \A x \in Dispatches : future'[x] = "none" <=> future[x] = "none"
    BY <2>1 DEF Wake
  <2> QED BY <2>1, <2>5, <2>6, <2>7, <2>8, SameIssued
<1> QED BY <1>1, <1>2, <1>3, <1>4, <1>5, <1>6, <1>7 DEF Idles

LEMMA IdleSteady ==
  ASSUME RInv, RInv', Idles
  PROVE  UNCHANGED EntitySlotOf!vars
<1>1. UNCHANGED <<lastId, slots, outputs, failed, acked, map>> /\ \A w \in TaskType : Held(w)' <=> Held(w)
  BY IdleWork, IdledWork DEF RInv
<1>2. CurrentSlot' = CurrentSlot
  BY <1>1 DEF CurrentSlot
<1>3. SlotTasks' = SlotTasks /\ \A d \in Dispatches : Delivering(d)' <=> Delivering(d)
  BY <1>1, SameWork
<1>4. \A d : Rejecting(d)' <=> Rejecting(d)
  BY <1>1 DEF Rejecting
<1>5. Accepted' = Accepted /\ Returned' = Returned
  BY <1>3, <1>4, IdleIssued, SameAnswers
<1> QED BY <1>1, <1>2, <1>3, <1>5, IdleIssued, Steady

LEMMA AsSubmit ==
  ASSUME NEW e, NEW finished, NEW r, r = Reduce(CurrentSlot, e), CurrentSlot' = r.slot,
         SlotTasks' = (SlotTasks \ finished) \cup Started(r.effects),
         Returned' = Returned \cup Refused(r.effects)
  PROVE  EntitySlotOf!Submit(e, finished)
<1>1. EntitySlotOf!Reduce(CurrentSlot, e) = r
  BY SameReduce
<1>2. /\ EntitySlotOf!Started(r.effects) = Started(r.effects)
      /\ EntitySlotOf!Refused(r.effects) = Refused(r.effects)
  BY SameStarts
<1> QED BY <1>1, <1>2 DEF EntitySlotOf!Submit

(* The same after a step.                                                  *)
LEMMA AfterStep ==
  ASSUME RInv'
  PROVE  /\ SlotTasks' = HeldTasks' \cup Attempts'
         /\ Accepted' = {x \in Dispatches : answer'[x] = "Ok" /\ ~ Delivering(x)'}
         /\ Returned' = {x \in Dispatches : answer'[x] = "Refused" \/ Rejecting(x)'}
         /\ InFlight' = {x \in Dispatches : Delivering(x)'}
<1>1. (RInv => SlotTasks = HeldTasks \cup Attempts)'
  BY TasksAre, PTL
<1>2. (RInv => Accepted = {d \in Dispatches : answer[d] = "Ok" /\ ~ Delivering(d)})'
  BY AcceptedAre, PTL
<1>3. (RInv => Returned = {d \in Dispatches : answer[d] = "Refused" \/ Rejecting(d)})'
  BY ReturnedAre, PTL
<1>4. (RInv => InFlight = {d \in Dispatches : Delivering(d)})'
  BY InFlightAre, PTL
<1> QED BY <1>1, <1>2, <1>3, <1>4

LEMMA InactiveSubmit ==
  ASSUME NEW e \in Events, e.trigger # "ActivationSucceeded", NEW r, r = Reduce(Inactive, e)
  PROVE  r.slot = Inactive /\ Started(r.effects) = {} /\ Refused(r.effects) = Conveyed(e)
<1>1. Started(r.effects) = {}
  BY NothingStarted
<1>2. r = DecideInactive(e) /\ e.trigger # "ClaimActivation"
  BY EventFields DEF Reduce, Inactive, Slot
<1>3. r.slot = Inactive
  BY <1>2 DEF DecideInactive, Refuse, RetireStale, RejectFailedDelivery, Ignore, Decision
<1>4. CASE e.trigger = "Dispatch"
  <2>1. PICK fx : fx = Reject(e.d, "Unavailable")
    OBVIOUS
  <2>2. r.effects = << fx >> /\ fx.type = "Reject" /\ fx.d = e.d
    BY <1>2, <1>4, <2>1 DEF DecideInactive, Refuse, Decision, Reject
  <2>3. \A d : d \in Refused(<< fx >>) <=> fx.type = "Reject" /\ fx.d = d
    BY StartedOne
  <2>4. \A d : d \in Refused(r.effects) <=> d = e.d
    BY <2>2, <2>3
  <2>5. Conveyed(e) = {e.d}
    BY <1>4, ConveyedBy
  <2> QED BY <1>1, <1>3, <2>4, <2>5
<1>5. CASE e.trigger # "Dispatch"
  <2>1. \A d : d \in Refused(r.effects) <=> d \in Conveyed(e)
    BY <1>5, FoundNothing
  <2> QED BY <1>1, <1>3, <2>1
<1> QED BY <1>4, <1>5

(* Only deliveries come and go.                                            *)
LEMMA SameLeases ==
  ASSUME lastId' = lastId, CurrentSlot' = CurrentSlot,
         \A t : t.type # "Deliver" => (t \in SlotTasks' <=> t \in SlotTasks)
  PROVE  Granted' = Granted /\ Retired' = Retired
<1>1. \A id : StartActivation(id).type # "Deliver"
  BY ErrandFields
<1>2. \A id, mode : Retire(id, mode).type # "Deliver"
  BY ErrandFields
<1>3. Granted' = Granted
  BY <1>1 DEF Granted
<1> QED BY <1>2, <1>3 DEF Retired

LEMMA EntityOf ==
  ASSUME RInv, NEW e, e.id \in ActivationIds
  PROVE  map[home[e.id]] = map[Entity]
BY DEF RInv, Lone

(* The report of a task goes on to the current slot.                       *)
LEMMA FoundSteady ==
  ASSUME RInv, RInv', UNCHANGED directory, UNCHANGED history, Wake,
         \A w \in TaskType : Held(w)' <=> Held(w),
         NEW by, NEW e \in Events, e.trigger # "Dispatch", NEW finished, NEW rest,
         rest \subseteq calls, \A c \in calls : c \notin rest => c.at # "submit",
         Find(by, e, finished, rest),
         map[home[e.id]] # NoActivation
  PROVE  UNCHANGED EntitySlotOf!vars
<1>1. UNCHANGED <<lastId, map, slots, outputs, failed, acked>> /\ TypeOK
  BY DEF directory, history, RInv, IInv
<1>2. SlotTasks' = SlotTasks /\ \A d \in Dispatches : Delivering(d)' <=> Delivering(d)
  BY <1>1, SameWork
<1>3. \A d \in Dispatches : answer'[d] = answer[d]
  BY <1>1, FoundAnswers
<1>4. \A d : Rejecting(d)' <=> Rejecting(d)
  BY <1>1 DEF Rejecting
<1>5. Accepted' = Accepted /\ Returned' = Returned
  BY <1>2, <1>3, <1>4, SameAnswers
<1>6. \A d \in Dispatches : future'[d] = "none" <=> future[d] = "none"
  BY DEF Wake
<1>7. \A c \in calls' : c \notin rest => ~ (c.at = "submit" /\ c.event.trigger = "Dispatch")
  BY FoundCalls
<1>8. rest \subseteq calls'
  BY DEF Find
<1>9. Issued' = Issued
  BY <1>3, <1>6, <1>7, <1>8, SameIssued
<1>10. CurrentSlot' = CurrentSlot
  BY <1>1 DEF CurrentSlot
<1> QED BY <1>1, <1>2, <1>5, <1>9, <1>10, Steady

(* A delivery ends with a report that finds no slot.                       *)
LEMMA FoundEnd ==
  ASSUME RInv, RInv', MInv, UNCHANGED directory, UNCHANGED history, Wake,
         NEW id \in ActivationIds, NEW d \in Dispatches,
         \A w \in TaskType : Held(w)' <=> Held(w) /\ w # Deliver(id, d),
         Held(Deliver(id, d)),
         NEW by, NEW f, f = << >> \/ f = << d >>, f = << >> => answer[d] = "Ok",
         f = << d >> => answer[d] = "Awaiting",
         NEW finished, NEW rest,
         rest \subseteq calls, \A c \in calls : c \notin rest => c.at # "submit",
         Find(by, Resolved(id, f), finished, rest),
         map[Entity] = NoActivation
  PROVE  \/ EntitySlotOf!Delivered(id, d)
         \/ EntitySlotOf!DeliveryFailed(id, d)
<1>1. UNCHANGED <<lastId, map, slots, outputs, failed, acked>> /\ TypeOK
  BY DEF directory, history, RInv, IInv
<1>2. PICK e, t : e = Resolved(id, f) /\ t = Deliver(id, d)
  OBVIOUS
<1>3. /\ e.id = id /\ e.trigger = "DeliveryResolved" /\ e.failure = f /\ e \in Events
      /\ t \in TaskType /\ t.type = "Deliver" /\ t.d = d
  <2>1. f \in Failures
    BY DEF Failures
  <2>2. Resolved(id, f) \in ReportedType
    BY <2>1 DEF Failures, Resolved, ReportedType
  <2>3. e.id = id /\ e.trigger = "DeliveryResolved" /\ e.failure = f
    BY <1>2 DEF Resolved
  <2>4. t \in TaskType
    BY <1>2 DEF TaskType
  <2>5. t.type = "Deliver" /\ t.d = d
    BY <1>2, ErrandFields
  <2>6. e \in Events
    BY <1>2, <2>2 DEF Events
  <2> QED BY <2>3, <2>4, <2>5, <2>6
<1>4. map[home[e.id]] = NoActivation
  BY <1>3, EntityOf
<1>5. Conveyed(e) = Range(f) /\ Range(<< >>) = {} /\ Range(<< d >>) = {d}
  BY <1>3, SingleRange DEF Conveyed, Range
<1>6. \A x \in Dispatches :
        answer'[x] = IF x \in Range(f) /\ answer[x] = "Awaiting" THEN "Refused" ELSE answer[x]
  <2>1. Find(by, e, finished, rest)
    BY <1>2
  <2>2. \A x \in Dispatches :
          answer'[x] = IF map[home[e.id]] = NoActivation /\ x \in Conveyed(e) /\ answer[x] = "Awaiting"
                       THEN "Refused" ELSE answer[x]
    BY <1>1, <1>3, <2>1, FoundAnswers
  <2> QED BY <1>4, <1>5, <2>2
<1>7. \A x \in Dispatches : Delivering(x)' <=> Delivering(x) /\ x # d
  <2>1. \A i \in ActivationIds, x \in Dispatches : Deliver(i, x) \in TaskType
    BY DEF TaskType
  <2>2. \A i \in ActivationIds, x \in Dispatches : x # d => Deliver(i, x) # Deliver(id, d)
    BY DEF Deliver
  <2>3. \A i \in ActivationIds : Held(Deliver(i, d)) => i = id
    BY DEF MInv, OneDelivery
  <2> QED BY <2>1, <2>2, <2>3 DEF Delivering
<1>8. Delivering(d)
  BY DEF Delivering
<1>9. SlotTasks' = SlotTasks \ {t} /\ t \in SlotTasks
  <2>1. SlotTasks' = HeldTasks' \cup Attempts'
    BY AfterStep
  <2>2. HeldTasks' = HeldTasks \ {t} /\ t \in HeldTasks
    BY <1>2, <1>3 DEF HeldTasks
  <2>3. Attempts' = Attempts /\ t \notin Attempts
    BY <1>1, <1>3, ErrandFields DEF Attempts
  <2> QED BY <2>1, <2>2, <2>3, TasksAre
<1>10. \A x : Rejecting(x)' <=> Rejecting(x)
  BY <1>1 DEF Rejecting
<1>11. Accepted' = {x \in Dispatches : answer'[x] = "Ok" /\ ~ Delivering(x)'}
  BY AfterStep
<1>12. Returned' = {x \in Dispatches : answer'[x] = "Refused" \/ Rejecting(x)'}
  BY AfterStep
<1>13. Accepted' = IF f = << >> THEN Accepted \cup {d} ELSE Accepted
  <2>1. << >> # << d >>
    OBVIOUS
  <2>2. CASE f = << >>
    BY <1>5, <1>6, <1>7, <1>11, <2>2, AcceptedAre
  <2>3. CASE f = << d >>
    BY <1>5, <1>6, <1>7, <1>8, <1>11, <2>1, <2>3, AcceptedAre
  <2> QED BY <2>2, <2>3
<1>14. Returned' = Returned \cup Range(f)
  <2>2. CASE f = << >>
    BY <1>5, <1>6, <1>10, <1>12, <2>2, ReturnedAre
  <2>3. CASE f = << d >>
    BY <1>5, <1>6, <1>10, <1>12, <2>3, ReturnedAre
  <2> QED BY <2>2, <2>3
<1>15. Issued' = Issued
  <2>1. \A x \in Dispatches : future'[x] = "none" <=> future[x] = "none"
    BY DEF Wake
  <2>2. e.trigger # "Dispatch" /\ Find(by, e, finished, rest)
    BY <1>2, <1>3
  <2>3. \A c \in calls' : c \notin rest => ~ (c.at = "submit" /\ c.event.trigger = "Dispatch")
    BY <2>2, FoundCalls
  <2>4. rest \subseteq calls'
    BY DEF Find
  <2>5. \A x \in Dispatches : answer'[x] = "Exhausted" <=> answer[x] = "Exhausted"
    BY <1>6
  <2> QED BY <2>1, <2>3, <2>4, <2>5, SameIssued
<1>16. CurrentSlot = Inactive /\ CurrentSlot' = Inactive
  BY <1>1 DEF CurrentSlot
<1>17. Granted' = Granted /\ Retired' = Retired
  BY <1>1, <1>3, <1>9, <1>16, SameLeases
<1>18. Cancelled' = Cancelled
  <2>1. InFlight' = {x \in Dispatches : Delivering(x)'}
    BY AfterStep
  <2>2. InFlight' = InFlight \ {d} /\ d \in InFlight
    BY <1>7, <1>8, <2>1, InFlightAre
  <2>3. /\ Cancelled = Issued \ (Accepted \cup Returned \cup Range(CurrentSlot.waiters) \cup InFlight)
        /\ Cancelled' = Issued' \ (Accepted' \cup Returned' \cup Range(CurrentSlot'.waiters) \cup InFlight')
    BY DEF Cancelled, InFlight
  <2>4. (Accepted' \cup Returned') = (Accepted \cup Returned) \cup {d}
    BY <1>5, <1>13, <1>14
  <2> QED BY <1>15, <1>16, <2>2, <2>3, <2>4
<1>19. PICK r : r = Reduce(CurrentSlot, e)
  OBVIOUS
<1>20. r.slot = Inactive /\ Started(r.effects) = {} /\ Refused(r.effects) = Range(f)
  BY <1>3, <1>5, <1>16, <1>19, InactiveSubmit
<1>21. EntitySlotOf!Submit(e, {t})
  <2>1. CurrentSlot' = r.slot
    BY <1>16, <1>20
  <2>2. SlotTasks' = (SlotTasks \ {t}) \cup Started(r.effects)
    BY <1>9, <1>20
  <2>3. Returned' = Returned \cup Refused(r.effects)
    BY <1>14, <1>20
  <2> QED BY <1>19, <2>1, <2>2, <2>3, AsSubmit
<1>22. EntitySlotOf!Deliver(id, d) = t
  BY <1>2, SameEffects
<1>23. CASE f = << >>
  <2>1. EntitySlotOf!Submit([trigger |-> "DeliveryResolved", id |-> id, failure |-> << >>], {t})
    BY <1>2, <1>21, <1>23 DEF Resolved
  <2> QED BY <1>1, <1>9, <1>13, <1>15, <1>17, <1>18, <1>22, <1>23, <2>1
          DEF EntitySlotOf!Delivered, EntitySlotOf!history
<1>24. CASE f = << d >>
  <2>1. EntitySlotOf!Submit([trigger |-> "DeliveryResolved", id |-> id, failure |-> << d >>], {t})
    BY <1>2, <1>21, <1>24 DEF Resolved
  <2>2. Accepted' = Accepted
    <3>1. << d >> # << >>
      OBVIOUS
    <3> QED BY <1>13, <1>24, <3>1
  <2> QED BY <1>1, <1>9, <1>15, <1>17, <1>18, <1>22, <2>1, <2>2
          DEF EntitySlotOf!DeliveryFailed, EntitySlotOf!history
<1> QED BY <1>23, <1>24

-----------------------------------------------------------------------------
(* Steps of the tasks, of lookups and of the interpreter.                  *)

SlotStep == EntitySlotOf!Next \/ UNCHANGED EntitySlotOf!vars

LEMMA SameIds == EntitySlotOf!ActivationIds = ActivationIds
BY DEF EntitySlotOf!ActivationIds, ActivationIds

LEMMA DeliveryStep ==
  ASSUME NEW id \in ActivationIds, NEW d \in Dispatches,
         EntitySlotOf!Delivered(id, d) \/ EntitySlotOf!DeliveryFailed(id, d)
  PROVE  SlotStep
BY SameIds DEF EntitySlotOf!Next, SlotStep

(* A command whose delivery has not been answered is awaited.              *)
LEMMA AwaitedAt ==
  ASSUME RInv, NEW d \in Dispatches, NEW k, NEW x, At(d, k, x), k # "settled"
  PROVE  answer[d] = "Awaiting"
<1>1. answer[d] # "Awaiting" => At(d, "settled", answer[d])
  BY DEF At
<1> QED BY <1>1 DEF RInv, HandInv, Hand

(* A task comes back with its report.                                      *)
LEMMA ReportStep ==
  ASSUME RInv, RInv', MInv, NEW t, NEW e, Reported(t, e)
  PROVE  SlotStep
<1>1. /\ t \in TaskType /\ e \in Reports(t) /\ e \in Events /\ t \in tasks
      /\ Find(t, e, {t}, calls) /\ Wake /\ \A s : e # Resolved(s, << >>)
  BY DEF Reported, Report, Events
<1>2. UNCHANGED directory
  BY DEF Reported, Report
<1>3. UNCHANGED history
  BY DEF Reported, Report
<1>4. e.trigger # "Dispatch" /\ e.id = t.id /\ t.id \in ActivationIds
  BY <1>1, ReportTyped, TaskFields
<1>5. map[home[e.id]] = map[Entity]
  BY <1>4, EntityOf
<1>6. \A w \in TaskType : Held(w)' <=> Held(w) /\ (w = t => map[Entity] # NoActivation)
  BY <1>5, ReportedWork DEF RInv
<1>7. CASE map[Entity] # NoActivation
  <2>1. \A w \in TaskType : Held(w)' <=> Held(w)
    BY <1>6, <1>7
  <2>2. PICK done : done = {t}
    OBVIOUS
  <2>3. Find(t, e, done, calls)
    BY <1>1, <2>2
  <2>4. UNCHANGED EntitySlotOf!vars
    BY <1>1, <1>2, <1>3, <1>4, <1>5, <1>7, <2>1, <2>3, FoundSteady
  <2> QED BY <2>4 DEF SlotStep
<1>8. CASE map[Entity] = NoActivation
  <2>1. Held(t)
    BY <1>1 DEF Held, Holds
  <2>2. t.type = "Deliver"
    BY <1>1, <1>4, <1>5, <1>8, <2>1, HeldMapped DEF RInv
  <2>3. PICK id \in ActivationIds, d \in Dispatches : t = Deliver(id, d)
    BY <1>1, <1>4, <2>2, TaskFields
  <2>4. e = Resolved(id, << d >>)
    <3>1. Reports(Deliver(id, d)) = {Resolved(id, << >>), Resolved(id, << d >>)}
      BY ReportsOf
    <3>2. e \in Reports(Deliver(id, d)) /\ e # Resolved(id, << >>)
      BY <1>1, <2>3
    <3> QED BY ONLY <3>1, <3>2
  <2>5. At(d, "spawned", t)
    <3>1. t.type = "Deliver" /\ t.d = d
      BY <2>3 DEF Deliver
    <3> QED BY <1>1, <3>1 DEF At
  <2>6. answer[d] = "Awaiting"
    BY <2>5, AwaitedAt
  <2>7. PICK f, done : f = << d >> /\ done = {t}
    OBVIOUS
  <2>8. Find(t, Resolved(id, f), done, calls)
    BY <1>1, <2>4, <2>7
  <2>9. f # << >>
    BY <2>7
  <2>10. \A w \in TaskType : Held(w)' <=> Held(w) /\ w # Deliver(id, d)
    BY <1>6, <1>8, <2>3
  <2>11. EntitySlotOf!Delivered(id, d) \/ EntitySlotOf!DeliveryFailed(id, d)
    BY ONLY RInv, RInv', MInv, <1>1, <1>2, <1>3, <1>8, <2>1, <2>3, <2>6, <2>7, <2>8, <2>9, <2>10, FoundEnd
  <2> QED BY <2>11, DeliveryStep
<1> QED BY <1>7, <1>8

(* A task looks its slot up, or finds that it has none.                    *)
LEMMA FindsStep ==
  ASSUME RInv, RInv', MInv, NEW c \in calls, Finds(c), c.by \in TaskType
  PROVE  SlotStep
<1>1. c.at = "find" /\ Find(c.by, c.event, {}, calls \ {c}) /\ Wake /\ Looking(c)
  BY DEF Finds, Looking
<1>2. UNCHANGED directory
  BY DEF Finds
<1>3. UNCHANGED history
  BY DEF Finds
<1>4. PICK id, d : c.by = Deliver(id, d) /\ c.event = Resolved(id, << >>)
  BY <1>1 DEF RInv, CallsInv, Spoken
<1>5. id \in ActivationIds /\ d \in Dispatches
  <2>1. c.by.type = "Deliver" /\ c.by.id = id /\ c.by.d = d
    BY <1>4 DEF Deliver
  <2>2. PICK x \in Dispatches : c.by = Deliver(c.by.id, x) /\ c.by.id \in ActivationIds
    BY <2>1, TaskFields
  <2>3. c.by.d = x
    BY <2>2, ErrandFields
  <2> QED BY <2>1, <2>2, <2>3
<1>6. PICK e : e = c.event
  OBVIOUS
<1>7. e \in Events /\ e.trigger # "Dispatch" /\ e.id = id
  <2>1. TypeOK
    BY DEF RInv, IInv
  <2>2. e \in Events /\ e.trigger # "Dispatch"
    BY <1>1, <1>6, <2>1, CancelFields
  <2>3. e.id = id
    BY <1>4, <1>6 DEF Resolved
  <2> QED BY <2>2, <2>3
<1>8. map[home[e.id]] = map[Entity]
  BY <1>5, <1>7, EntityOf
<1>9. \A w \in TaskType : Held(w)' <=> Held(w) /\ (w = c.by => map[Entity] # NoActivation)
  BY <1>6, <1>8, FindsWork DEF RInv
<1>10. PICK none, rest : none = {} /\ rest = calls \ {c}
  OBVIOUS
<1>11. Find(c.by, e, none, rest) /\ rest \subseteq calls /\ \A b \in calls : b \notin rest => b.at # "submit"
  BY <1>1, <1>6, <1>10
<1>12. CASE map[Entity] # NoActivation
  <2>1. \A w \in TaskType : Held(w)' <=> Held(w)
    BY <1>9, <1>12
  <2>2. UNCHANGED EntitySlotOf!vars
    BY ONLY RInv, RInv', <1>1, <1>2, <1>3, <1>7, <1>8, <1>11, <1>12, <2>1, FoundSteady
  <2> QED BY <2>2 DEF SlotStep
<1>13. CASE map[Entity] = NoActivation
  <2>1. Held(Deliver(id, d))
    <3>1. Holds(c.by, "reporting", c)
      BY <1>1 DEF Holds
    <3> QED BY <1>4, <3>1 DEF Held
  <2>2. answer[d] = "Ok"
    BY <1>1, <1>4, <1>5 DEF RInv, CallsInv, Thanked, Thanks
  <2>3. PICK f : f = << >>
    OBVIOUS
  <2>4. Find(c.by, Resolved(id, f), none, rest)
    BY <1>4, <1>6, <1>11, <2>3
  <2>5. f # << d >>
    BY <2>3
  <2>6. \A w \in TaskType : Held(w)' <=> Held(w) /\ w # Deliver(id, d)
    BY <1>4, <1>9, <1>13
  <2>7. EntitySlotOf!Delivered(id, d) \/ EntitySlotOf!DeliveryFailed(id, d)
    BY ONLY RInv, RInv', MInv, <1>1, <1>2, <1>3, <1>5, <1>11, <1>13, <2>1, <2>2, <2>3, <2>4, <2>5, <2>6, FoundEnd
  <2> QED BY <1>5, <2>7, DeliveryStep
<1> QED BY <1>12, <1>13

(* The mailbox accepted a command: nothing the slot knows of yet.          *)
LEMMA AcceptedStep ==
  ASSUME RInv, RInv', NEW id \in ActivationIds, NEW d \in Dispatches, DeliveryAccepted(id, d)
  PROVE  UNCHANGED EntitySlotOf!vars
<1>1. /\ UNCHANGED <<lastId, map, slots, outputs, failed, acked>>
      /\ Complete({d}, "Ok") /\ Wake /\ Deliver(id, d) \in tasks
  BY DEF DeliveryAccepted, directory, history
<1>2. \A w \in TaskType : Held(w)' <=> Held(w)
  BY AcceptedWork DEF RInv
<1>3. SlotTasks' = SlotTasks /\ \A x \in Dispatches : Delivering(x)' <=> Delivering(x)
  BY <1>1, <1>2, SameWork
<1>4. Delivering(d) /\ answer[d] = "Awaiting"
  <2>1. Holds(Deliver(id, d), "running", Deliver(id, d))
    BY <1>1 DEF Holds
  <2>2. At(d, "spawned", Deliver(id, d))
    BY <1>1, ErrandFields DEF At
  <2> QED BY <2>1, <2>2, AwaitedAt DEF Delivering, Held
<1>5. \A x \in Dispatches : answer'[x] = IF x = d THEN "Ok" ELSE answer[x]
  BY <1>1, <1>4 DEF Complete
<1>6. \A x : Rejecting(x)' <=> Rejecting(x)
  BY <1>1 DEF Rejecting
<1>7. Accepted' = Accepted /\ Returned' = Returned
  BY <1>3, <1>4, <1>5, <1>6, SameAnswers
<1>8. Issued' = Issued
  <2>1. PICK m : m = Call(Deliver(id, d), "find", NoActivation,
                          [trigger |-> "DeliveryResolved", id |-> id, failure |-> << >>])
    OBVIOUS
  <2>2. m.at = "find" /\ calls' = calls \cup {m}
    BY <2>1 DEF DeliveryAccepted, Call
  <2>3. \A x \in Dispatches : future'[x] = "none" <=> future[x] = "none"
    BY <1>1 DEF Wake
  <2> QED BY <1>4, <1>5, <2>2, <2>3, SameIssued
<1>9. CurrentSlot' = CurrentSlot
  BY <1>1 DEF CurrentSlot
<1> QED BY <1>1, <1>3, <1>7, <1>8, <1>9, Steady

(* The interpreter applies an effect: the work of it goes on, or a         *)
(* refusal becomes the caller's answer.                                    *)
LEMMA AppliedStep ==
  ASSUME RInv, RInv', MInv, NEW c \in calls, ApplyEffect(c)
  PROVE  UNCHANGED EntitySlotOf!vars
<1>0. TypeOK
  BY DEF RInv, IInv
<1>1. PICK s, q : s = c.slot /\ q = outputs[s]
  OBVIOUS
<1>2. /\ s \in ActivationIds /\ q \in Seq(Seq(EffectType) \ {<< >>}) /\ q # << >>
  BY <1>1, Owned DEF ApplyEffect, RInv
<1>3. PICK fx, left : fx = Head(Head(q)) /\ left = Batches(Tail(Head(q))) \o Tail(q)
  OBVIOUS
<1>4. fx \in EffectType
  BY <1>2, <1>3, QueueTyped
<1>5. /\ UNCHANGED <<lastId, slots, failed, acked, calls, home>>
      /\ outputs' = [outputs EXCEPT ![s] = left]
      /\ Complete(Refused(<< fx >>), "Refused") /\ Wake
      /\ IF fx.type = "Remove" THEN RemoveMatching(s) ELSE UNCHANGED map
  BY <1>1, <1>3 DEF ApplyEffect, Batch, history
<1>6. \A w \in TaskType : Held(w)' <=> Held(w)
  BY AppliedWork DEF RInv
<1>7. SlotTasks' = SlotTasks /\ \A x \in Dispatches : Delivering(x)' <=> Delivering(x)
  BY <1>5, <1>6, SameWork
<1>8. \A w : Queues(q, w) <=> w = fx \/ Queues(left, w)
  BY <1>2, <1>3, QueuesTaken
<1>9. outputs'[s] = left /\ \A u \in ActivationIds : u # s => outputs'[u] = outputs[u]
  BY <1>2, <1>5, <1>0 DEF TypeOK
<1>10. \A w : w # fx => \A u \in ActivationIds : Queues(outputs'[u], w) <=> Queues(outputs[u], w)
  BY <1>1, <1>8, <1>9
<1>11. \A d : d \in Refused(<< fx >>) <=> fx.type = "Reject" /\ fx.d = d
  BY StartedOne
<1>12. \A x, reason : Reject(x, reason).type = "Reject" /\ Reject(x, reason).d = x
  BY DEF Reject
<1>13. ASSUME NEW x \in Dispatches
       PROVE  /\ answer'[x] = "Ok" <=> answer[x] = "Ok"
              /\ answer'[x] = "Exhausted" <=> answer[x] = "Exhausted"
              /\ answer'[x] = "Refused" \/ Rejecting(x)' <=> answer[x] = "Refused" \/ Rejecting(x)
  <2>1. CASE fx.type = "Reject" /\ fx.d = x
    <3>1. Carries(fx, x)
      BY <2>1 DEF Carries
    <3>2. Queues(q, fx)
      BY <1>8
    <3>3. At(x, "queued", s)
      BY <1>1, <1>2, <3>1, <3>2 DEF At, InQueue, InBatch, Queues
    <3>4. answer[x] = "Awaiting"
      BY <3>3, AwaitedAt
    <3>5. answer'[x] = "Refused"
      BY <1>5, <1>11, <2>1, <3>4 DEF Complete
    <3>6. Rejecting(x)
      <4>1. PICK y \in Dispatches, reason \in Reasons : fx = Reject(y, reason)
        BY <1>4, <2>1, RejectsAre
      <4>2. y = x
        BY <1>12, <2>1, <4>1
      <4> QED BY <1>1, <1>2, <3>2, <4>1, <4>2 DEF Rejecting
    <3> QED BY <3>4, <3>5, <3>6
  <2>2. CASE ~ (fx.type = "Reject" /\ fx.d = x)
    <3>1. answer'[x] = answer[x]
      BY <1>5, <1>11, <2>2 DEF Complete
    <3>2. \A reason : Reject(x, reason) # fx
      BY <1>12, <2>2
    <3>3. Rejecting(x)' <=> Rejecting(x)
      BY <1>10, <3>2 DEF Rejecting
    <3> QED BY <3>1, <3>3
  <2> QED BY <2>1, <2>2
<1>14. Accepted' = Accepted /\ Returned' = Returned
  BY <1>7, <1>13, SameAnswers
<1>15. Issued' = Issued
  <2>1. \A x \in Dispatches : future'[x] = "none" <=> future[x] = "none"
    BY <1>5 DEF Wake
  <2> QED BY <1>5, <1>13, <2>1, SameIssued
<1>16. CurrentSlot' = CurrentSlot
  <2>1. CASE fx.type = "Remove"
    <3>1. slots[s] = Inactive
      <4>1. ~ Live(s)
        <5> SUFFICES ASSUME Live(s) PROVE FALSE
          OBVIOUS
        <5>1. q \in Seq(Seq(CalmEffect) \ {<< >>})
          BY <1>1, <1>2 DEF RInv, IInv, RemovesAreLate
        <5>2. fx \in CalmEffect
          BY <1>2, <1>3, <5>1, QueueTyped
        <5> QED BY <2>1, <5>2 DEF CalmEffect
      <4> QED BY <1>2, <4>1 DEF Live, MInv, Blank
    <3>2. \A n \in Entities : map'[n] = IF n = home[s] /\ map[n] = s THEN NoActivation ELSE map[n]
      BY <1>5, <2>1 DEF RemoveMatching
    <3>3. Entity \in Entities
      BY TheEntity
    <3>4. Entity = Entity'
      BY DEF Entity
    <3> QED BY <1>5, <3>1, <3>2, <3>3 DEF CurrentSlot
  <2>2. CASE fx.type # "Remove"
    BY <1>5, <2>2 DEF CurrentSlot
  <2> QED BY <2>1, <2>2
<1> QED BY <1>5, <1>7, <1>14, <1>15, <1>16, Steady

-----------------------------------------------------------------------------
(* A claim is EntitySlot's claim.                                          *)

(* A dispatch that finds no entry claims the next activation.              *)
LEMMA ClaimStep ==
  ASSUME RInv, RInv', MInv, NEW d \in Dispatches, NEW n \in Entities, DispatchAbsent(d, n)
  PROVE  EntitySlotOf!Claim(d)
<1>0. TypeOK /\ outputs \in [ActivationIds -> Seq(Seq(EffectType) \ {<< >>})]
      /\ slots \in [ActivationIds -> SlotType] /\ lastId \in Nat /\ 1 .. lastId \subseteq ActivationIds
      /\ future \in [Dispatches -> FutureStates] /\ map \in [Entities -> 0 .. lastId]
  BY IssuedIds DEF RInv, IInv, TypeOK
<1>1. PICK id : id = lastId'
  OBVIOUS
<1>2. PICK w0, q : w0 = StartActivation(id) /\ q = << << w0 >> >>
  OBVIOUS
<1>3. /\ id = lastId + 1 /\ id \in ActivationIds
      /\ \A w \in TaskType : Held(w)' <=> Held(w) \/ w = w0
      /\ slots' = [slots EXCEPT ![id] = Activating(id, << d >>)]
      /\ outputs' = [outputs EXCEPT ![id] = q]
      /\ map' = [map EXCEPT ![n] = id]
      /\ calls' = calls \cup {Call(d, "interpret", id, NoEvent)}
      /\ future' = [future EXCEPT ![d] = "polled"]
      /\ UNCHANGED <<answer, failed, acked>>
  BY <1>1, <1>2, ClaimedWork DEF RInv
<1>4. n = Entity /\ map[n] = NoActivation /\ future[d] = "none"
  BY TheEntity DEF DispatchAbsent
<1>5. id # NoActivation /\ id \notin 1 .. lastId /\ 1 .. lastId' = 1 .. lastId \cup {id}
  BY <1>0, <1>1, <1>3 DEF NoActivation
<1>6. CurrentSlot = Inactive /\ CurrentSlot' = Activating(id, << d >>)
  BY <1>0, <1>3, <1>4, <1>5 DEF CurrentSlot
<1>7. w0 \in TaskType /\ w0.type = "StartActivation"
  BY <1>2, <1>3, ErrandFields DEF TaskType
<1>8. SlotTasks' = SlotTasks \cup {w0}
  <2>1. SlotTasks' = HeldTasks' \cup Attempts'
    BY AfterStep
  <2>2. HeldTasks' = HeldTasks \cup {w0}
    BY <1>3, <1>7 DEF HeldTasks
  <2>3. Attempts' = Attempts
    BY <1>3 DEF Attempts
  <2> QED BY <2>1, <2>2, <2>3, TasksAre
<1>9. \A x \in Dispatches : Delivering(x)' <=> Delivering(x)
  <2>1. \A i \in ActivationIds, x \in Dispatches : Deliver(i, x) \in TaskType /\ Deliver(i, x) # w0
    BY <1>7, ErrandFields DEF TaskType
  <2> QED BY <1>3, <2>1 DEF Delivering
<1>10. \A x : Rejecting(x)' <=> Rejecting(x)
  <2>1. outputs'[id] = q /\ \A u \in ActivationIds : u # id => outputs'[u] = outputs[u]
    BY <1>0, <1>3
  <2>2. outputs[id] = << >>
    <3>1. id > lastId
      BY <1>0, <1>3
    <3> QED BY <1>3, <3>1 DEF RInv, IInv, Unissued
  <2>3. \A x, reason : ~ Queues(outputs[id], Reject(x, reason))
    BY <2>2, QueuesBatches
  <2>4. \A x, reason : Reject(x, reason) # w0
    BY <1>7 DEF Reject
  <2>5. \A w : Queues(q, w) <=> w \in Range(<< w0 >>)
    BY <1>2, QueuesBatches
  <2>6. Range(<< w0 >>) = {w0}
    BY SingleRange
  <2>7. \A x, reason : ~ Queues(outputs'[id], Reject(x, reason))
    BY <2>1, <2>4, <2>5, <2>6
  <2>8. \A u \in ActivationIds : \A x, reason :
          Queues(outputs'[u], Reject(x, reason)) <=> Queues(outputs[u], Reject(x, reason))
    BY <2>1, <2>3, <2>7
  <2> QED BY <2>8 DEF Rejecting
<1>11. Accepted' = Accepted /\ Returned' = Returned
  BY <1>3, <1>9, <1>10, SameAnswers
<1>12. answer[d] = "Awaiting"
  <2>1. Nowhere(d)
    BY <1>4 DEF RInv, HandInv, Hand
  <2>2. answer[d] # "Awaiting" => At(d, "settled", answer[d])
    BY DEF At
  <2> QED BY <2>1, <2>2 DEF Nowhere
<1>13. Issued' = Issued \cup {d} /\ d \notin Issued
  <2>1. PICK m : m = Call(d, "interpret", id, NoEvent)
    OBVIOUS
  <2>2. m.at = "interpret" /\ calls' = calls \cup {m}
    BY <1>3, <2>1 DEF Call
  <2>3. \A x : Dispatching(x)' <=> Dispatching(x)
    BY <2>2 DEF Dispatching
  <2>4. ~ Dispatching(d)
    BY <1>4 DEF Dispatching, RInv, WInv, DispatchesSubmitted
  <2>5. Issued' = {x \in Dispatches : future'[x] # "none" /\ answer'[x] # "Exhausted" /\ ~ Dispatching(x)'}
    BY DEF Issued, Dispatching
  <2>6. \A x \in Dispatches : x \in Issued' <=> x \in Issued \/ x = d
    BY <1>0, <1>3, <1>12, <2>3, <2>4, <2>5, IssuedAre
  <2>7. Issued \subseteq Dispatches /\ Issued' \subseteq Dispatches
    BY DEF Issued
  <2> QED BY <1>4, <2>6, <2>7, IssuedAre
<1>14. Cancelled' = Cancelled
  <2>1. InFlight' = {x \in Dispatches : Delivering(x)'}
    BY AfterStep
  <2>2. InFlight' = InFlight
    BY <1>9, <2>1, InFlightAre
  <2>3. /\ Cancelled = Issued \ (Accepted \cup Returned \cup Range(CurrentSlot.waiters) \cup InFlight)
        /\ Cancelled' = Issued' \ (Accepted' \cup Returned' \cup Range(CurrentSlot'.waiters) \cup InFlight')
    BY DEF Cancelled, InFlight
  <2>4. Range(CurrentSlot.waiters) = {} /\ Range(CurrentSlot'.waiters) = {d}
    <3>1. CurrentSlot.waiters = << >> /\ CurrentSlot'.waiters = << d >>
      BY <1>6 DEF Inactive, Activating, Slot
    <3>2. Range(<< d >>) = {d} /\ Range(<< >>) = {}
      BY SingleRange DEF Range
    <3> QED BY <3>1, <3>2
  <2> QED BY <1>11, <1>13, <2>2, <2>3, <2>4
<1>15. Granted' = Granted
  <2>1. \A i \in 1 .. lastId : StartActivation(i) # w0
    BY <1>2, <1>5 DEF StartActivation
  <2> QED BY <1>2, <1>5, <1>8, <2>1 DEF Granted
<1>16. Retired' = Retired
  <2>1. CurrentSlot.phase = "Inactive" /\ CurrentSlot'.phase = "Activating"
    BY <1>6 DEF Inactive, Activating, Slot
  <2>2. \A i, mode : Retire(i, mode) # w0
    BY <1>7 DEF Retire
  <2> QED BY <1>8, <1>15, <2>1, <2>2 DEF Retired
<1>17. PICK e, r : /\ e = [trigger |-> "ClaimActivation", id |-> id, d |-> d]
                   /\ r = Reduce(CurrentSlot, e)
  OBVIOUS
<1>18. r = Decision(Activating(id, << d >>), << w0 >>)
  BY <1>2, <1>6, <1>17 DEF Reduce, DecideInactive, Inactive, Slot
<1>19. Started(<< w0 >>) = {w0} /\ Refused(<< w0 >>) = {}
  BY <1>7, StartedOne DEF Asynchronous
<1>20. r.slot = Activating(id, << d >>) /\ Started(r.effects) = {w0} /\ Refused(r.effects) = {}
  BY <1>18, <1>19 DEF Decision
<1>21. EntitySlotOf!Submit(e, {})
  <2>1. CurrentSlot' = r.slot
    BY <1>6, <1>20
  <2>2. SlotTasks' = (SlotTasks \ {}) \cup Started(r.effects)
    BY <1>8, <1>20
  <2>3. Returned' = Returned \cup Refused(r.effects)
    BY <1>11, <1>20
  <2>4. PICK none : none = {}
    OBVIOUS
  <2>5. EntitySlotOf!Submit(e, none)
    BY <1>17, <2>1, <2>2, <2>3, <2>4, AsSubmit
  <2> QED BY <2>4, <2>5
<1>22. EntitySlotOf!Submit([trigger |-> "ClaimActivation", id |-> lastId + 1, d |-> d], {})
  BY <1>3, <1>17, <1>21
<1>23. CurrentSlot.phase = "Inactive" /\ lastId < MaxActivation /\ lastId' = lastId + 1
  <2>1. CurrentSlot.phase = "Inactive"
    BY <1>6 DEF Inactive, Slot
  <2>2. lastId < MaxActivation
    BY <1>0, <1>3, MaxActivationAssumption DEF ActivationIds
  <2> QED BY <1>1, <1>3, <2>1, <2>2
<1> QED BY <1>3, <1>11, <1>13, <1>14, <1>15, <1>16, <1>22, <1>23
        DEF EntitySlotOf!Claim, EntitySlotOf!history

-----------------------------------------------------------------------------
(* A submitted fact, whatever it is: what becomes of each variable of      *)
(* EntitySlot.                                                             *)

(* Call c submits its fact e to slot s, which holds k; r is the decision.  *)
Submitted(c, s, k, e, r) ==
  /\ c \in calls /\ Submit(c)
  /\ s = c.slot /\ k = slots[s] /\ e = c.event /\ r = Reduce(k, e)

LEMMA SubmittedMoves ==
  ASSUME RInv, NEW c, NEW s, NEW k, NEW e, NEW r, Submitted(c, s, k, e, r)
  PROVE  /\ c \in calls /\ c.at = "submit" /\ Looking(c)
         /\ lastId' = lastId /\ map' = map /\ tasks' = tasks /\ future' = future /\ answer' = answer
         /\ slots'[s] = r.slot /\ \A u \in ActivationIds : u # s => slots'[u] = slots[u]
         /\ calls' = (calls \ {c}) \cup {Call(c.by, "interpret", s, NoEvent)}
         /\ failed' = IF e.trigger = "ActivationFailed" THEN failed \cup {e.id} ELSE failed
         /\ acked' = IF e.trigger = "FenceAcknowledged" THEN acked \cup {e.id} ELSE acked
<1>1. c \in calls /\ Submit(c) /\ c.slot = s /\ c.event = e
  BY DEF Submitted
<1>2. Reduce(slots[c.slot], c.event) = r
  BY DEF Submitted
<1>3. /\ c.at = "submit"
      /\ lastId' = lastId /\ map' = map /\ tasks' = tasks /\ future' = future /\ answer' = answer
  BY <1>1 DEF Submit
<1>4. slots' = [slots EXCEPT ![s] = r.slot]
  BY <1>1, <1>2 DEF Submit
<1>6. calls' = (calls \ {c}) \cup {Call(c.by, "interpret", s, NoEvent)}
  BY <1>1 DEF Submit, Moved
<1>7. /\ failed' = IF e.trigger = "ActivationFailed" THEN failed \cup {e.id} ELSE failed
      /\ acked' = IF e.trigger = "FenceAcknowledged" THEN acked \cup {e.id} ELSE acked
  BY <1>1 DEF Submit
<1>8. Looking(c)
  BY <1>3 DEF Looking
<1>9. s \in ActivationIds
  BY <1>1, <1>3, CallFields, IssuedIds DEF RInv, IInv, TypeOK
<1>10. slots'[s] = r.slot /\ \A u \in ActivationIds : u # s => slots'[u] = slots[u]
  BY <1>4, <1>9 DEF RInv, IInv, TypeOK
<1> QED BY ONLY <1>1, <1>3, <1>6, <1>7, <1>8, <1>10

LEMMA SubmittedFacts ==
  ASSUME RInv, NEW c, NEW s, NEW k, NEW e, NEW r, Submitted(c, s, k, e, r)
  PROVE  /\ s \in 1 .. lastId /\ s \in ActivationIds /\ e \in Events
         /\ k \in SlotType /\ IsInjective(k.waiters)
         /\ k.phase # "Inactive" => k.id = s
         /\ k.waiters # << >> => k.phase = "Activating"
         /\ c.by \in TaskType => Held(c.by)
         /\ Timely(s, k, e)
         /\ Course(s, k, e, r) /\ Outcome(k, r)
         /\ Started(r.effects) \subseteq TaskType
         /\ \A w \in Started(r.effects), v \in TaskType : Twin(v, w) => ~ Held(v)
         /\ \A w \in TaskType : Held(w)' <=> (Held(w) /\ w # c.by) \/ w \in Started(r.effects)
<1>1. c \in calls /\ c.slot = s /\ c.event = e /\ slots[c.slot] = k /\ Submit(c) /\ r = Reduce(slots[c.slot], c.event)
  BY DEF Submitted
<1>2. c.at = "submit"
  BY SubmittedMoves
<1>3. /\ c.slot \in 1 .. lastId /\ c.slot \in ActivationIds /\ c.event \in Events
      /\ slots[c.slot] \in SlotType /\ IsInjective(slots[c.slot].waiters)
      /\ slots[c.slot].phase # "Inactive" => slots[c.slot].id = c.slot
      /\ c.by \in TaskType => Held(c.by)
      /\ Timely(c.slot, slots[c.slot], c.event)
  BY <1>1, <1>2, SubmittedInTime DEF RInv
<1>4. /\ Course(c.slot, slots[c.slot], c.event, r) /\ Outcome(slots[c.slot], r)
      /\ Started(r.effects) \subseteq TaskType
      /\ \A w \in Started(r.effects), v \in TaskType : Twin(v, w) => ~ Held(v)
      /\ \A w \in TaskType : Held(w)' <=> (Held(w) /\ w # c.by) \/ w \in Started(r.effects)
  BY <1>1, SubmitWork DEF RInv
<1>5. slots[c.slot].waiters # << >> => slots[c.slot].phase = "Activating"
  BY <1>3 DEF RInv, WInv, WaiterSeats
<1> QED BY ONLY <1>1, <1>3, <1>4, <1>5

(* Where a command is afterwards: a refusal leaves with the decision, and  *)
(* what the slot had or was given is nowhere only if a cancellation        *)
(* withdrew it.                                                            *)
LEMMA SubmittedPasses ==
  ASSUME RInv, NEW c, NEW s, NEW k, NEW e, NEW r, Submitted(c, s, k, e, r)
  PROVE  PassesOn(k, e, r)
<1>1. /\ c \in calls /\ c.event = e /\ k = slots[s] /\ r = Reduce(k, e)
  BY DEF Submitted
<1>2. /\ s \in ActivationIds /\ e \in Events
      /\ k \in SlotType /\ IsInjective(k.waiters)
      /\ k.phase # "Inactive" => k.id = s
      /\ k.waiters # << >> => k.phase = "Activating"
  BY SubmittedFacts
<1>3. \A d \in Conveyed(e) : ~ Waits(k, d)
  <2>1. SUFFICES ASSUME NEW d \in Conveyed(e), Waits(k, d) PROVE FALSE
    OBVIOUS
  <2>2. d \in Dispatches
    BY <1>2, ConveyedBy
  <2>3. At(d, "called", c)
    BY <1>1 DEF At
  <2>4. At(d, "waiting", s)
    BY <1>1, <1>2, <2>1 DEF At, Waits
  <2>5. Hand(d)
    BY <2>2 DEF RInv, HandInv
  <2> QED BY <2>3, <2>4, <2>5 DEF Hand
<1> QED BY <1>1, <1>2, <1>3, ReducePassesOn

(* Its effects join the queue of its slot.                                 *)
LEMMA SubmittedQueues ==
  ASSUME RInv, NEW c, NEW s, NEW k, NEW e, NEW r, Submitted(c, s, k, e, r)
  PROVE  /\ \A fx : Queues(outputs'[s], fx) <=> Queues(outputs[s], fx) \/ fx \in Range(r.effects)
         /\ \A d : InQueue(outputs'[s], d) <=> InQueue(outputs[s], d) \/ InBatch(r.effects, d)
         /\ \A u \in ActivationIds : u # s => outputs'[u] = outputs[u]
<1>1. c \in calls /\ Submit(c) /\ c.slot = s /\ Reduce(slots[c.slot], c.event) = r
  BY DEF Submitted
<1>2. outputs' = [outputs EXCEPT ![s] = outputs[s] \o Batches(r.effects)]
  BY <1>1 DEF Submit
<1>3. s \in ActivationIds /\ r.effects \in Seq(EffectType)
  BY SubmittedFacts DEF Outcome
<1>4. outputs \in [ActivationIds -> Seq(Seq(EffectType) \ {<< >>})]
  BY DEF RInv, IInv, TypeOK
<1>5. PICK q, fxs : q = outputs[s] /\ fxs = r.effects
  OBVIOUS
<1>6. q \in Seq(Seq(EffectType) \ {<< >>}) /\ fxs \in Seq(EffectType)
  BY <1>3, <1>4, <1>5
<1>7. outputs'[s] = q \o Batches(fxs) /\ \A u \in ActivationIds : u # s => outputs'[u] = outputs[u]
  BY <1>2, <1>3, <1>4, <1>5
<1>8. \A fx : Queues(q \o Batches(fxs), fx) <=> Queues(q, fx) \/ fx \in Range(fxs)
  BY <1>6, QueuesExtended
<1>9. \A d : InQueue(q \o Batches(fxs), d) <=> InQueue(q, d) \/ InBatch(fxs, d)
  BY <1>6, QueueExtended
<1> QED BY <1>5, <1>7, <1>8, <1>9

(* The refusals of the decision are the commands given back.               *)
LEMMA SubmittedReturned ==
  ASSUME RInv, RInv', NEW c, NEW s, NEW k, NEW e, NEW r, Submitted(c, s, k, e, r)
  PROVE  /\ Returned' = Returned \cup Refused(r.effects)
         /\ Refused(r.effects) \subseteq Dispatches
<1>1. answer' = answer
  BY SubmittedMoves
<1>2. s \in ActivationIds /\ r.effects \in Seq(EffectType)
  BY SubmittedFacts DEF Outcome
<1>4. \A u \in ActivationIds : u # s => outputs'[u] = outputs[u]
  BY SubmittedQueues
<1>5. \A fx : Queues(outputs'[s], fx) <=> Queues(outputs[s], fx) \/ fx \in Range(r.effects)
  BY SubmittedQueues
<1>6. Refused(r.effects) \subseteq Dispatches
  BY <1>2, StartedTyped
<1>7. \A x \in Dispatches :
        x \in Refused(r.effects) <=> \E reason \in Reasons : Reject(x, reason) \in Range(r.effects)
  <2>1. TAKE x \in Dispatches
  <2>2. ASSUME NEW reason, Reject(x, reason) \in Range(r.effects)
        PROVE  x \in Refused(r.effects)
    BY <2>2 DEF Refused, Reject
  <2>3. ASSUME x \in Refused(r.effects)
        PROVE  \E reason \in Reasons : Reject(x, reason) \in Range(r.effects)
    <3>1. PICK fx \in Range(r.effects) : fx.type = "Reject" /\ fx.d = x
      BY <2>3 DEF Refused
    <3>2. fx \in EffectType
      BY <1>2 DEF Range
    <3>3. PICK y \in Dispatches, reason \in Reasons : fx = Reject(y, reason)
      BY <3>1, <3>2, RejectsAre
    <3>4. y = x
      BY <3>1, <3>3 DEF Reject
    <3> QED BY <3>1, <3>3, <3>4
  <2> QED BY <2>2, <2>3
<1>8. \A x \in Dispatches : Rejecting(x)' <=> Rejecting(x) \/ x \in Refused(r.effects)
  BY <1>2, <1>4, <1>5, <1>7 DEF Rejecting
<1>9. Returned' = {x \in Dispatches : answer'[x] = "Refused" \/ Rejecting(x)'}
  BY AfterStep
<1> QED BY <1>1, <1>6, <1>8, <1>9, ReturnedAre

(* Who submits what: the task of an effect its report, a caller the rest.  *)
LEMMA SubmittedBy ==
  ASSUME RInv, NEW c, NEW s, NEW k, NEW e, NEW r, Submitted(c, s, k, e, r)
  PROVE  /\ e.trigger \in {"ActivationSucceeded", "ActivationFailed"} =>
              c.by = StartActivation(s) /\ e.id = s
         /\ e.trigger \in {"FenceAcknowledged", "ForceDrain"} => c.by = EnqueueFence(s) /\ e.id = s
         /\ e.trigger = "Terminated" => e.id = s /\ \E m \in Modes : c.by = Retire(s, m)
         /\ e.trigger = "DeliveryResolved" =>
              \E d \in Dispatches : /\ c.by = Deliver(e.id, d) /\ e.id \in ActivationIds
                                    /\ e \in {Resolved(e.id, << >>), Resolved(e.id, << d >>)}
         /\ e.trigger \in {"Dispatch", "CancelWaiter", "BeginDrain"} => c.by \notin TaskType
<1>1. c \in calls /\ c.event = e /\ c.slot = s /\ c.at = "submit" /\ Looking(c)
  BY SubmittedMoves DEF Submitted
<1>2. Speaks(c.by, e)
  BY <1>1 DEF RInv, CallsInv, Spoken
<1>3. /\ e.trigger \in {"ActivationSucceeded", "ActivationFailed"} => e.id = s
      /\ e.trigger \in {"FenceAcknowledged", "ForceDrain"} => e.id = s
      /\ e.trigger = "Terminated" => e.id = s
  BY SubmittedFacts DEF Timely
<1>4. CASE c.by \in TaskType /\ e \in Reports(c.by)
  <2>1. e.trigger \notin {"Dispatch", "CancelWaiter", "BeginDrain"} /\ e.id = c.by.id
    BY <1>4, ReportTyped
  <2>2. /\ e.trigger \in {"ActivationSucceeded", "ActivationFailed"} => c.by = StartActivation(e.id)
        /\ e.trigger \in {"FenceAcknowledged", "ForceDrain"} => c.by = EnqueueFence(e.id)
        /\ e.trigger = "Terminated" => \E m \in Modes : c.by = Retire(e.id, m)
        /\ e.trigger = "DeliveryResolved" => \E d \in Dispatches : c.by = Deliver(e.id, d)
    BY <1>4, ReportedBy
  <2>3. e.id \in ActivationIds
    BY <1>4, <2>1, TaskFields
  <2>4. ASSUME e.trigger = "DeliveryResolved"
        PROVE  \E d \in Dispatches : /\ c.by = Deliver(e.id, d)
                                     /\ e \in {Resolved(e.id, << >>), Resolved(e.id, << d >>)}
    <3>1. PICK d \in Dispatches : c.by = Deliver(e.id, d)
      BY <2>2, <2>4
    <3>2. PICK i : i = e.id
      OBVIOUS
    <3>3. e \in Reports(Deliver(i, d))
      BY <1>4, <3>1, <3>2
    <3>4. Reports(Deliver(i, d)) = {Resolved(i, << >>), Resolved(i, << d >>)}
      BY ReportsOf
    <3> QED BY <3>1, <3>2, <3>3, <3>4
  <2> QED BY ONLY <1>3, <2>1, <2>2, <2>3, <2>4
<1>5. CASE c.by \in Dispatches /\ e.trigger \in {"Dispatch", "CancelWaiter"}
  BY <1>5, DistinctAgents
<1>6. CASE c.by \in Passivations /\ e.trigger = "BeginDrain"
  BY <1>6, DistinctAgents
<1> QED BY <1>2, <1>4, <1>5, <1>6 DEF Speaks

LEMMA FailedNotHeld ==
  ASSUME RInv, NEW id \in failed
  PROVE  id \in ActivationIds /\ StartActivation(id) \in TaskType /\ ~ Held(StartActivation(id))
<1>1. id \in ActivationIds /\ ~ Live(id)
  BY IssuedIds DEF RInv, IInv, WorkInv, FailedGone
<1>2. StartActivation(id) \in TaskType
  BY <1>1 DEF TaskType
<1>3. Due(id)
  BY <1>1 DEF RInv, WorkInv
<1> QED BY <1>1, <1>2, <1>3 DEF Due, Live

(* A reported effect leaves the tasks and those of the decision join; the  *)
(* failed attempt stays.                                                   *)
LEMMA SubmittedTasks ==
  ASSUME RInv, RInv', NEW c, NEW s, NEW k, NEW e, NEW r, Submitted(c, s, k, e, r)
  PROVE  /\ c.by \notin TaskType => c.by \notin SlotTasks
         /\ e.trigger # "ActivationFailed" => SlotTasks' = (SlotTasks \ {c.by}) \cup Started(r.effects)
         /\ e.trigger = "ActivationFailed" => SlotTasks' = SlotTasks \cup Started(r.effects)
         /\ c.by \in TaskType => c.by \in SlotTasks
<1>1. SlotTasks = HeldTasks \cup Attempts /\ SlotTasks' = HeldTasks' \cup Attempts'
  BY TasksAre, AfterStep
<1>2. \A w \in TaskType : Held(w)' <=> (Held(w) /\ w # c.by) \/ w \in Started(r.effects)
  BY SubmittedFacts
<1>3. Started(r.effects) \subseteq TaskType /\ (c.by \in TaskType => Held(c.by))
  BY SubmittedFacts
<1>4. HeldTasks' = (HeldTasks \ {c.by}) \cup Started(r.effects)
  BY <1>2, <1>3 DEF HeldTasks
<1>5. Attempts \subseteq TaskType /\ c.by \notin Attempts
  BY <1>3, FailedNotHeld DEF Attempts
<1>6. c.by \notin TaskType => c.by \notin SlotTasks
  BY <1>1, <1>5 DEF HeldTasks
<1>7. failed' = IF e.trigger = "ActivationFailed" THEN failed \cup {e.id} ELSE failed
  BY SubmittedMoves
<1>8. ASSUME e.trigger # "ActivationFailed"
      PROVE  SlotTasks' = (SlotTasks \ {c.by}) \cup Started(r.effects)
  <2>1. Attempts' = Attempts
    BY <1>7, <1>8 DEF Attempts
  <2> QED BY <1>1, <1>4, <1>5, <2>1
<1>9. ASSUME e.trigger = "ActivationFailed"
      PROVE  SlotTasks' = SlotTasks \cup Started(r.effects)
  <2>1. c.by = StartActivation(e.id)
    BY <1>9, SubmittedBy
  <2>2. Attempts' = Attempts \cup {StartActivation(e.id)}
    BY <1>7, <1>9 DEF Attempts
  <2>3. StartActivation(e.id) \in HeldTasks
    <3>1. c.by \in TaskType
      <4>1. s \in ActivationIds /\ e.id = s
        BY <1>9, SubmittedFacts, SubmittedBy
      <4> QED BY <2>1, <4>1 DEF TaskType
    <3> QED BY <1>3, <2>1, <3>1 DEF HeldTasks
  <2> QED BY <1>1, <1>4, <2>1, <2>2, <2>3
<1>10. c.by \in TaskType => c.by \in SlotTasks
  BY <1>1, <1>3 DEF HeldTasks
<1> QED BY <1>6, <1>8, <1>9, <1>10

(* The mailbox's acceptance counts once the slot has heard of it.          *)
LEMMA SubmittedAccepted ==
  ASSUME RInv, RInv', MInv, NEW c, NEW s, NEW k, NEW e, NEW r, Submitted(c, s, k, e, r)
  PROVE  Accepted' = Accepted \cup
           {x \in Dispatches : answer[x] = "Ok" /\ \E i \in ActivationIds : c.by = Deliver(i, x)}
<1>1. answer' = answer /\ c \in calls
  BY SubmittedMoves
<1>2. /\ \A w \in TaskType : Held(w)' <=> (Held(w) /\ w # c.by) \/ w \in Started(r.effects)
      /\ c.by \in TaskType => Held(c.by)
  BY SubmittedFacts
<1>3. \A i \in ActivationIds, x \in Dispatches : Deliver(i, x) \in TaskType
  BY DEF TaskType
<1>4. ASSUME NEW i \in ActivationIds, NEW x \in Dispatches, Deliver(i, x) \in Started(r.effects)
      PROVE  answer[x] = "Awaiting"
  <2>1. InBatch(r.effects, x)
    <3>1. PICK j \in DOMAIN r.effects : r.effects[j] = Deliver(i, x)
      BY <1>4 DEF Started, Range
    <3> QED BY <3>1, CarriedBy DEF InBatch
  <2>2. Waits(k, x) \/ x \in Conveyed(e)
    BY <2>1, SubmittedPasses DEF PassesOn
  <2>3. k = slots[s] /\ e = c.event /\ s \in ActivationIds
    BY SubmittedFacts DEF Submitted
  <2>4. Waits(k, x) => At(x, "waiting", s)
    BY <2>3 DEF At, Waits
  <2>5. x \in Conveyed(e) => At(x, "called", c)
    BY <1>1, <2>3 DEF At
  <2> QED BY <2>2, <2>4, <2>5, AwaitedAt
<1>5. ASSUME NEW x \in Dispatches
      PROVE  answer[x] = "Ok" /\ ~ Delivering(x)' <=>
               answer[x] = "Ok" /\ (~ Delivering(x) \/ \E i \in ActivationIds : c.by = Deliver(i, x))
  <2>1. ASSUME answer[x] = "Ok", ~ Delivering(x)', NEW j \in ActivationIds, Held(Deliver(j, x))
        PROVE  c.by = Deliver(j, x)
    BY <1>2, <1>3, <2>1 DEF Delivering
  <2>2. ASSUME answer[x] = "Ok", NEW i \in ActivationIds, c.by = Deliver(i, x), Delivering(x)'
        PROVE  FALSE
    <3>1. PICK j \in ActivationIds : Held(Deliver(j, x))'
      BY <2>2 DEF Delivering
    <3>2. Held(Deliver(j, x)) /\ Deliver(j, x) # c.by
      BY <1>2, <1>3, <1>4, <2>2, <3>1
    <3>3. Held(Deliver(i, x))
      BY <1>2, <1>3, <2>2
    <3>4. i = j
      BY <3>2, <3>3 DEF MInv, OneDelivery
    <3> QED BY <2>2, <3>2, <3>4
  <2>3. ASSUME answer[x] = "Ok", ~ Delivering(x), Delivering(x)'
        PROVE  FALSE
    BY <1>2, <1>3, <1>4, <2>3 DEF Delivering
  <2> QED BY <2>1, <2>2, <2>3 DEF Delivering
<1>6. Accepted' = {x \in Dispatches : answer'[x] = "Ok" /\ ~ Delivering(x)'}
  BY AfterStep
<1> QED BY <1>1, <1>5, <1>6, AcceptedAre

(* A command enters the slot when its caller submits it.                   *)
LEMMA SubmittedIssued ==
  ASSUME RInv, NEW c, NEW s, NEW k, NEW e, NEW r, Submitted(c, s, k, e, r)
  PROVE  /\ e.trigger # "Dispatch" => Issued' = Issued
         /\ e.trigger = "Dispatch" => /\ e.d \in Dispatches /\ e.d \notin Issued
                                      /\ Issued' = Issued \cup {e.d}
<1>1. /\ c \in calls /\ c.at = "submit" /\ future' = future /\ answer' = answer
      /\ calls' = (calls \ {c}) \cup {Call(c.by, "interpret", s, NoEvent)}
  BY SubmittedMoves
<1>2. c.event = e /\ e \in Events
  BY SubmittedFacts DEF Submitted
<1>3. PICK m : m = Call(c.by, "interpret", s, NoEvent)
  OBVIOUS
<1>4. m.at = "interpret" /\ calls' = (calls \ {c}) \cup {m}
  BY <1>1, <1>3 DEF Call
<1>5. Issued' = {x \in Dispatches : future'[x] # "none" /\ answer'[x] # "Exhausted" /\ ~ Dispatching(x)'}
  BY DEF Issued, Dispatching
<1>6. CASE e.trigger # "Dispatch"
  <2>1. \A x : Dispatching(x)' <=> Dispatching(x)
    BY <1>2, <1>4, <1>6 DEF Dispatching
  <2> QED BY <1>1, <1>5, <1>6, <2>1, IssuedAre
<1>7. CASE e.trigger = "Dispatch"
  <2>1. /\ c.by = e.d /\ future[c.by] # "none"
        /\ \A b \in calls : b.event.trigger = "Dispatch" /\ b.event.d = c.by => b = c
    BY <1>1, <1>2, <1>7 DEF RInv, WInv, DispatchesSubmitted
  <2>2. \A b \in calls : b.event.trigger = "Dispatch" => b.by = b.event.d
    BY DEF RInv, WInv, DispatchesSubmitted
  <2>3. e.d \in Dispatches /\ Conveyed(e) = {e.d}
    BY <1>2, <1>7, EventFields, ConveyedBy
  <2>4. At(e.d, "called", c)
    BY <1>1, <1>2, <2>3 DEF At
  <2>5. answer[e.d] = "Awaiting"
    BY <2>3, <2>4, AwaitedAt
  <2>6. \A x : Dispatching(x)' <=> Dispatching(x) /\ x # e.d
    BY <1>1, <1>2, <1>4, <1>7, <2>1, <2>2 DEF Dispatching
  <2>7. Dispatching(e.d)
    BY <1>1, <1>2, <1>7, <2>1 DEF Dispatching
  <2>8. e.d \notin Issued
    BY <2>7, IssuedAre
  <2>9. \A x \in Dispatches : x \in Issued' <=> x \in Issued \/ x = e.d
    BY <1>1, <1>5, <2>1, <2>5, <2>6, IssuedAre
  <2>10. Issued \subseteq Dispatches /\ Issued' \subseteq Dispatches
    BY DEF Issued
  <2> QED BY <1>7, <2>3, <2>8, <2>9, <2>10
<1> QED BY <1>6, <1>7

(* A cancellation withdraws at most the waiter it names.                   *)
LEMMA CancelsQuietly ==
  ASSUME NEW k \in SlotType, NEW e, e.trigger = "CancelWaiter"
  PROVE  Reduce(k, e).effects = << >>
<1>1. k.phase \in Phases
  BY DEF SlotType
<1>2. CASE k.phase = "Inactive"
  BY <1>2 DEF Reduce, DecideInactive, Ignore, Decision
<1>3. CASE k.phase = "Activating"
  BY <1>3 DEF Reduce, DecideActivating, CancelWaiter, Ignore, Decision
<1>4. CASE k.phase = "Active"
  BY <1>4 DEF Reduce, DecideActive, Ignore, Decision
<1>5. CASE k.phase = "Draining"
  BY <1>5 DEF Reduce, DecideDraining, Ignore, Decision
<1>6. CASE k.phase = "Retiring"
  BY <1>6 DEF Reduce, DecideRetiring, Ignore, Decision
<1> QED BY <1>1, <1>2, <1>3, <1>4, <1>5, <1>6 DEF Phases

(* A command is nowhere after the step only if it was nowhere before or    *)
(* was the waiter a cancellation withdrew.                                 *)
LEMMA SubmittedNowhere ==
  ASSUME RInv, NEW c, NEW s, NEW k, NEW e, NEW r, Submitted(c, s, k, e, r), NEW x \in Dispatches
  PROVE  Nowhere(x)' <=>
           Nowhere(x) \/ (e.trigger = "CancelWaiter" /\ Waits(k, x) /\ ~ Waits(r.slot, x))
<1>1. /\ c \in calls /\ tasks' = tasks /\ answer' = answer
      /\ calls' = (calls \ {c}) \cup {Call(c.by, "interpret", s, NoEvent)}
      /\ slots'[s] = r.slot /\ \A u \in ActivationIds : u # s => slots'[u] = slots[u]
  BY SubmittedMoves
<1>2. k = slots[s] /\ c.event = e /\ s \in ActivationIds /\ e \in Events /\ k \in SlotType /\ r = Reduce(k, e)
  BY SubmittedFacts DEF Submitted
<1>3. /\ InQueue(outputs'[s], x) <=> InQueue(outputs[s], x) \/ InBatch(r.effects, x)
      /\ \A u \in ActivationIds : u # s => outputs'[u] = outputs[u]
  BY SubmittedQueues
<1>4. /\ Waits(r.slot, x) \/ InBatch(r.effects, x) => Waits(k, x) \/ x \in Conveyed(e)
      /\ Waits(k, x) \/ x \in Conveyed(e) =>
           \/ Waits(r.slot, x) \/ InBatch(r.effects, x)
           \/ e.trigger = "CancelWaiter"
  BY SubmittedPasses DEF PassesOn
<1>5. e.trigger = "CancelWaiter" => ~ InBatch(r.effects, x) /\ Conveyed(e) = {}
  <2>1. ASSUME e.trigger = "CancelWaiter" PROVE r.effects = << >> /\ Conveyed(e) = {}
    BY <1>2, <2>1, CancelsQuietly, ConveyedBy
  <2>2. ~ InBatch(<< >>, x)
    BY SmallBatches
  <2> QED BY <2>1, <2>2
<1>6. PICK m : m = Call(c.by, "interpret", s, NoEvent)
  OBVIOUS
<1>7. calls' = (calls \ {c}) \cup {m} /\ Conveyed(m.event) = {}
  BY <1>1, <1>6, IdleEvents
<1>8. DEFINE others == /\ \A u \in ActivationIds : u # s =>
                            x \notin Range(slots[u].waiters) /\ ~ InQueue(outputs[u], x)
                       /\ ~ InQueue(outputs[s], x)
                       /\ \A b \in calls \ {c} : x \notin Conveyed(b.event)
                       /\ \A t \in tasks : ~ (t.type = "Deliver" /\ t.d = x)
                       /\ answer[x] = "Awaiting"
<1>9. Nowhere(x) <=> others /\ ~ Waits(k, x) /\ x \notin Conveyed(e)
  <2>1. ASSUME Nowhere(x) PROVE others /\ ~ Waits(k, x) /\ x \notin Conveyed(e)
    BY <2>1, <1>1, <1>2 DEF Nowhere, At, Waits
  <2>2. ASSUME others, ~ Waits(k, x), x \notin Conveyed(e) PROVE Nowhere(x)
    <3>1. SUFFICES ASSUME NEW j, NEW y, At(x, j, y) PROVE FALSE
      BY DEF Nowhere
    <3>2. CASE j = "waiting" /\ y \in ActivationIds /\ x \in Range(slots[y].waiters)
      BY <1>2, <2>2, <3>2 DEF Waits
    <3>3. CASE j = "queued" /\ y \in ActivationIds /\ InQueue(outputs[y], x)
      BY <1>2, <2>2, <3>3
    <3>4. CASE j = "called" /\ y \in calls /\ x \in Conveyed(y.event)
      BY <1>2, <2>2, <3>4
    <3>5. CASE j = "spawned" /\ y \in tasks /\ y.type = "Deliver" /\ y.d = x
      BY <2>2, <3>5
    <3>6. CASE j = "settled" /\ y = answer[x] /\ y # "Awaiting"
      BY <2>2, <3>6
    <3> QED BY <3>1, <3>2, <3>3, <3>4, <3>5, <3>6 DEF At
  <2> QED BY <2>1, <2>2
<1>10. Nowhere(x)' <=> others /\ ~ InBatch(r.effects, x) /\ ~ Waits(r.slot, x)
  <2>1. ASSUME Nowhere(x)' PROVE others /\ ~ InBatch(r.effects, x) /\ ~ Waits(r.slot, x)
    <3>1. \A u \in ActivationIds : x \notin Range(slots'[u].waiters) /\ ~ InQueue(outputs'[u], x)
      BY <2>1 DEF Nowhere, At
    <3>2. \A b \in calls' : x \notin Conveyed(b.event)
      BY <2>1 DEF Nowhere, At
    <3>3. \A t \in tasks' : ~ (t.type = "Deliver" /\ t.d = x)
      BY <2>1 DEF Nowhere, At
    <3>4. answer'[x] = "Awaiting"
      BY <2>1 DEF Nowhere, At
    <3>5. ~ InQueue(outputs'[s], x) /\ x \notin Range(slots'[s].waiters)
      BY <1>2, <3>1
    <3>6. ~ InQueue(outputs[s], x) /\ ~ InBatch(r.effects, x) /\ ~ Waits(r.slot, x)
      BY <1>1, <1>3, <3>5 DEF Waits
    <3>7. \A u \in ActivationIds : u # s => x \notin Range(slots[u].waiters) /\ ~ InQueue(outputs[u], x)
      BY <1>1, <1>3, <3>1
    <3> QED BY <1>1, <1>7, <3>2, <3>3, <3>4, <3>6, <3>7
  <2>2. ASSUME others, ~ InBatch(r.effects, x), ~ Waits(r.slot, x) PROVE Nowhere(x)'
    <3>1. ~ InQueue(outputs'[s], x) /\ x \notin Range(slots'[s].waiters)
      BY <1>1, <1>3, <2>2 DEF Waits
    <3>2. \A u \in ActivationIds : x \notin Range(slots'[u].waiters) /\ ~ InQueue(outputs'[u], x)
      BY <1>1, <1>3, <2>2, <3>1
    <3>3. \A b \in calls' : x \notin Conveyed(b.event)
      BY <1>7, <2>2
    <3>4. \A t \in tasks' : ~ (t.type = "Deliver" /\ t.d = x)
      BY <1>1, <2>2
    <3>5. answer'[x] = "Awaiting"
      BY <1>1, <2>2
    <3> QED BY <3>2, <3>3, <3>4, <3>5 DEF Nowhere, At
  <2> QED BY <2>1, <2>2
<1>11. Waits(k, x) => others
  <2>1. SUFFICES ASSUME Waits(k, x) PROVE others
    OBVIOUS
  <2>2. At(x, "waiting", s)
    BY <1>2, <2>1 DEF At, Waits
  <2>3. \A j, y : At(x, j, y) => j = "waiting" /\ y = s
    BY <2>2 DEF RInv, HandInv, Hand
  <2>4. \A u \in ActivationIds : u # s => x \notin Range(slots[u].waiters)
    BY <2>3 DEF At
  <2>5. \A u \in ActivationIds : ~ InQueue(outputs[u], x)
    BY <2>3 DEF At
  <2>6. \A b \in calls : x \notin Conveyed(b.event)
    BY <2>3 DEF At
  <2>7. \A t \in tasks : ~ (t.type = "Deliver" /\ t.d = x)
    BY <2>3 DEF At
  <2>8. answer[x] = "Awaiting"
    BY <2>3 DEF At
  <2> QED BY <1>2, <2>4, <2>5, <2>6, <2>7, <2>8
<1> HIDE DEF others
<1> QED BY <1>4, <1>5, <1>9, <1>10, <1>11

(* What a submission leaves nowhere is what EntitySlot calls cancelled.    *)
LEMMA SubmittedCancelled ==
  ASSUME RInv, RInv', MInv, MInv', NEW c, NEW s, NEW k, NEW e, NEW r, Submitted(c, s, k, e, r)
  PROVE  /\ e.trigger # "CancelWaiter" => Cancelled' = Cancelled
         /\ e.trigger = "CancelWaiter" =>
              Cancelled' = Cancelled \cup (Range(k.waiters) \ Range(r.slot.waiters))
<1>1. future' = future /\ k = slots[s] /\ s \in ActivationIds
  BY SubmittedMoves, SubmittedFacts DEF Submitted
<1>2. \A x \in Dispatches : Nowhere(x)' <=>
           Nowhere(x) \/ (e.trigger = "CancelWaiter" /\ Waits(k, x) /\ ~ Waits(r.slot, x))
  BY SubmittedNowhere
<1>3. Cancelled = {d \in Dispatches : future[d] # "none" /\ Nowhere(d)}
  BY CancelledAre
<1>4. Cancelled' = {d \in Dispatches : future'[d] # "none" /\ Nowhere(d)'}
  <2>1. (RInv /\ MInv => Cancelled = {d \in Dispatches : future[d] # "none" /\ Nowhere(d)})'
    BY CancelledAre, PTL
  <2> QED BY <2>1
<1>5. CASE e.trigger # "CancelWaiter"
  BY <1>1, <1>2, <1>3, <1>4, <1>5
<1>6. CASE e.trigger = "CancelWaiter"
  <2>1. Range(k.waiters) \subseteq Dispatches
    BY <1>1, WaiterFields DEF RInv, IInv
  <2>2. \A x \in Range(k.waiters) : future[x] # "none"
    <3>1. TAKE x \in Range(k.waiters)
    <3>2. At(x, "waiting", s) /\ x \in Dispatches
      BY <1>1, <2>1 DEF At
    <3> QED BY <3>2, HandOnly DEF RInv, HandInv
  <2> QED BY <1>1, <1>2, <1>3, <1>4, <1>6, <2>1, <2>2 DEF Waits
<1> QED BY <1>5, <1>6

(* The slot the entry names, and any other: that one is Inactive for good. *)
LEMMA SubmittedWhere ==
  ASSUME RInv, RInv', MInv, NEW c, NEW s, NEW k, NEW e, NEW r, Submitted(c, s, k, e, r)
  PROVE  /\ s = map[Entity] => CurrentSlot = k /\ CurrentSlot' = r.slot
         /\ s # map[Entity] => CurrentSlot' = CurrentSlot /\ k = Inactive
<1>1. /\ map' = map /\ slots'[s] = r.slot /\ \A u \in ActivationIds : u # s => slots'[u] = slots[u]
  BY SubmittedMoves
<1>2. k = slots[s] /\ s \in ActivationIds /\ s # NoActivation
  <2>1. k = slots[s]
    BY DEF Submitted
  <2>2. s \in 1 .. lastId /\ s \in ActivationIds
    BY SubmittedFacts
  <2>3. lastId \in Nat
    BY IssuedIds DEF RInv, IInv
  <2> QED BY <2>1, <2>2, <2>3 DEF NoActivation
<1>3. CASE s = map[Entity]
  BY <1>1, <1>2, <1>3 DEF CurrentSlot
<1>4. CASE s # map[Entity]
  <2>1. ~ Live(s)
    BY <1>2, <1>4, WaitersCurrent
  <2>2. k = Inactive
    BY <1>2, <2>1 DEF Live, MInv, Blank
  <2>3. map[Entity] # NoActivation => map[Entity] \in ActivationIds
    BY Mapped
  <2>4. CurrentSlot' = CurrentSlot
    BY <1>1, <1>4, <2>3 DEF CurrentSlot
  <2> QED BY <1>4, <2>2, <2>4
<1> QED BY <1>3, <1>4

(* The lease stays installed until a retirement of it starts.              *)
LEMMA ReduceLease ==
  ASSUME NEW s \in ActivationIds, NEW k \in SlotType, k.id = s, NEW e \in Events, NEW r, r = Reduce(k, e)
  PROVE  /\ k.phase = "Active" => r.slot.phase \in {"Active", "Draining"} /\ r.slot.id = s
         /\ k.phase = "Draining" =>
              \/ r.slot.phase = "Draining" /\ r.slot.id = s
              \/ \E m \in Modes : Retire(s, m) \in Started(r.effects)
<1>1. ASSUME k.phase = "Active" PROVE r.slot.phase \in {"Active", "Draining"} /\ r.slot.id = s
  <2>1. /\ e.trigger = "Dispatch" =>
              r = Decision(Active(k.id, k.reservations + 1), << Deliver(k.id, e.d) >>)
        /\ e.trigger = "DeliveryResolved" /\ e.id = k.id =>
             r.slot = Active(k.id, IF k.reservations > 0 THEN k.reservations - 1 ELSE 0)
        /\ e.trigger = "BeginDrain" /\ e.id = k.id => r.slot = Draining(k.id, k.reservations)
        /\ e.trigger # "Dispatch" /\ ~ (e.trigger \in {"DeliveryResolved", "BeginDrain"} /\ e.id = k.id) =>
             r.slot = k
    BY <1>1, ActiveGoesOn
  <2>2. CASE e.trigger = "Dispatch"
    BY <2>1, <2>2 DEF Decision, Active, Slot
  <2>3. CASE e.trigger = "DeliveryResolved" /\ e.id = k.id
    BY <2>1, <2>3 DEF Active, Slot
  <2>4. CASE e.trigger = "BeginDrain" /\ e.id = k.id
    BY <2>1, <2>4 DEF Draining, Slot
  <2>5. CASE e.trigger # "Dispatch" /\ ~ (e.trigger \in {"DeliveryResolved", "BeginDrain"} /\ e.id = k.id)
    BY <1>1, <2>1, <2>5
  <2> QED BY <2>2, <2>3, <2>4, <2>5
<1>2. ASSUME k.phase = "Draining"
      PROVE  \/ r.slot.phase = "Draining" /\ r.slot.id = s
             \/ \E m \in Modes : Retire(s, m) \in Started(r.effects)
  <2> DEFINE resolves == e.trigger = "DeliveryResolved" /\ e.id = k.id
             retires == \/ e.trigger = "FenceAcknowledged" /\ e.id = k.id /\ k.reservations = 0
                        \/ e.trigger = "ForceDrain" /\ e.id = k.id
  <2>1. /\ resolves => r.slot = Draining(k.id, IF k.reservations > 0 THEN k.reservations - 1 ELSE 0)
        /\ retires => \E m \in Modes : Retire(k.id, m) \in Range(r.effects)
        /\ ~ resolves /\ ~ retires => r.slot = k
    BY <1>2, DrainingGoesOn
  <2> HIDE DEF resolves, retires
  <2>2. CASE resolves
    BY <2>1, <2>2 DEF Draining, Slot
  <2>3. CASE retires
    BY <2>1, <2>3, ErrandFields DEF Started, Asynchronous
  <2>4. CASE ~ resolves /\ ~ retires
    BY <1>2, <2>1, <2>4
  <2> QED BY <2>2, <2>3, <2>4
<1> QED BY <1>1, <1>2

(* Only a success grants a lease.                                          *)
LEMMA SubmittedGranted ==
  ASSUME RInv, RInv', NEW c, NEW s, NEW k, NEW e, NEW r, Submitted(c, s, k, e, r)
  PROVE  /\ e.trigger # "ActivationSucceeded" => Granted' = Granted
         /\ e.trigger = "ActivationSucceeded" =>
              /\ Granted' = Granted \cup {s} /\ s \notin Granted
              /\ StartActivation(s) \in SlotTasks
<1>1. lastId' = lastId
  BY SubmittedMoves
<1>2. /\ e.trigger # "ActivationFailed" => SlotTasks' = (SlotTasks \ {c.by}) \cup Started(r.effects)
      /\ e.trigger = "ActivationFailed" => SlotTasks' = SlotTasks \cup Started(r.effects)
      /\ c.by \in TaskType => c.by \in SlotTasks
      /\ c.by \notin TaskType => c.by \notin SlotTasks
  BY SubmittedTasks
<1>3. \A id : StartActivation(id) \notin Started(r.effects)
  <2>1. Course(s, k, e, r)
    BY SubmittedFacts
  <2>2. ASSUME NEW id, StartActivation(id) \in Started(r.effects) PROVE FALSE
    <3>1. Starts(s, k, e, r, StartActivation(id))
      BY <2>1, <2>2 DEF Course
    <3>2. StartActivation(id).type = "StartActivation"
      BY DEF StartActivation
    <3> QED BY <3>1, <3>2, ErrandFields DEF Starts
  <2> QED BY <2>2
<1>4. s \in 1 .. lastId /\ s \in ActivationIds /\ e \in Events
  BY SubmittedFacts
<1>5. CASE e.trigger = "ActivationSucceeded"
  <2>1. c.by = StartActivation(s)
    BY <1>5, SubmittedBy
  <2>2. StartActivation(s) \in TaskType
    BY <1>4 DEF TaskType
  <2>3. StartActivation(s) \in SlotTasks
    BY <1>2, <2>1, <2>2
  <2>4. \A id : StartActivation(id) \in SlotTasks' <=> StartActivation(id) \in SlotTasks /\ id # s
    <3>1. \A id : StartActivation(id) = StartActivation(s) <=> id = s
      BY DEF StartActivation
    <3> QED BY <1>2, <1>3, <1>5, <2>1, <3>1
  <2> QED BY <1>1, <1>4, <1>5, <2>3, <2>4 DEF Granted
<1>6. CASE e.trigger = "ActivationFailed"
  BY <1>1, <1>2, <1>3, <1>6 DEF Granted
<1>7. CASE e.trigger \notin {"ActivationSucceeded", "ActivationFailed"}
  <2>1. c.by \notin TaskType \/ c.by.type # "StartActivation"
    <3>1. e.trigger \in Triggers \ {"ClaimActivation"}
      BY <1>4, ConveyedBy
    <3>2. CASE e.trigger \in {"FenceAcknowledged", "ForceDrain"}
      BY <3>2, SubmittedBy, ErrandFields
    <3>3. CASE e.trigger = "Terminated"
      BY <3>3, SubmittedBy, ErrandFields
    <3>4. CASE e.trigger = "DeliveryResolved"
      <4>1. PICK d \in Dispatches : /\ c.by = Deliver(e.id, d) /\ e.id \in ActivationIds
                                      /\ e \in {Resolved(e.id, << >>), Resolved(e.id, << d >>)}
        BY <3>4, SubmittedBy
      <4>2. c.by.type = "Deliver"
        BY <4>1 DEF Deliver
      <4> QED BY <4>2
    <3>5. CASE e.trigger \in {"Dispatch", "CancelWaiter", "BeginDrain"}
      BY <3>5, SubmittedBy
    <3> QED BY <1>7, <3>1, <3>2, <3>3, <3>4, <3>5 DEF Triggers
  <2>2. \A id : StartActivation(id).type = "StartActivation"
    BY ErrandFields
  <2>3. \A id : StartActivation(id) \in SlotTasks' <=> StartActivation(id) \in SlotTasks
    BY <1>2, <1>3, <1>7, <2>1, <2>2
  <2> QED BY <1>1, <1>7, <2>3 DEF Granted
<1> QED BY <1>5, <1>6, <1>7

(* Retirements join the tasks when the drain ends and leave with their     *)
(* report.                                                                 *)
LEMMA SubmittedRetirements ==
  ASSUME RInv, RInv', NEW c, NEW s, NEW k, NEW e, NEW r, Submitted(c, s, k, e, r)
  PROVE  /\ \A id, m : id # s => (Retire(id, m) \in SlotTasks' <=> Retire(id, m) \in SlotTasks)
         /\ e.trigger # "Terminated" =>
              \A m : Retire(s, m) \in SlotTasks' <=>
                       Retire(s, m) \in SlotTasks \/ Retire(s, m) \in Started(r.effects)
         /\ e.trigger = "Terminated" => \A m \in Modes : Retire(s, m) \notin SlotTasks'
<1>1. /\ e.trigger # "ActivationFailed" => SlotTasks' = (SlotTasks \ {c.by}) \cup Started(r.effects)
      /\ e.trigger = "ActivationFailed" => SlotTasks' = SlotTasks \cup Started(r.effects)
      /\ c.by \notin TaskType => c.by \notin SlotTasks
      /\ c.by \in TaskType => c.by \in SlotTasks
  BY SubmittedTasks
<1>2. s \in ActivationIds /\ e \in Events /\ Course(s, k, e, r) /\ Timely(s, k, e) /\ (c.by \in TaskType => Held(c.by))
  BY SubmittedFacts
<1>3. \A id, m : id # s => Retire(id, m) \notin Started(r.effects)
  <2>1. ASSUME NEW id, NEW m, Retire(id, m) \in Started(r.effects) PROVE id = s
    <3>1. Starts(s, k, e, r, Retire(id, m))
      BY <1>2, <2>1 DEF Course
    <3>2. Retire(id, m).type = "Retire" /\ Retire(id, m).id = id
      BY ErrandFields
    <3> QED BY <3>1, <3>2, ErrandFields DEF Starts
  <2> QED BY <2>1
<1>4. e.trigger # "Terminated" => c.by \notin TaskType \/ c.by.type # "Retire"
  <2>1. e.trigger \in Triggers \ {"ClaimActivation"}
    BY <1>2, ConveyedBy
  <2>2. CASE e.trigger \in {"FenceAcknowledged", "ForceDrain"}
    BY <2>2, SubmittedBy, ErrandFields
  <2>3. CASE e.trigger \in {"ActivationSucceeded", "ActivationFailed"}
    BY <2>3, SubmittedBy, ErrandFields
  <2>4. CASE e.trigger = "DeliveryResolved"
    <3>1. PICK d \in Dispatches : /\ c.by = Deliver(e.id, d) /\ e.id \in ActivationIds
                                    /\ e \in {Resolved(e.id, << >>), Resolved(e.id, << d >>)}
      BY <2>4, SubmittedBy
    <3>2. c.by.type = "Deliver"
      BY <3>1 DEF Deliver
    <3> QED BY <3>2
  <2>5. CASE e.trigger \in {"Dispatch", "CancelWaiter", "BeginDrain"}
    BY <2>5, SubmittedBy
  <2> QED BY <2>1, <2>2, <2>3, <2>4, <2>5 DEF Triggers
<1>5. \A id, m : Retire(id, m).type = "Retire"
  BY ErrandFields
<1>6. CASE e.trigger # "Terminated"
  <2>1. \A id, m : Retire(id, m) = c.by => Retire(id, m) \notin SlotTasks
    BY <1>1, <1>4, <1>5, <1>6
  <2>2. \A id, m : Retire(id, m) \in SlotTasks' <=>
               Retire(id, m) \in SlotTasks \/ Retire(id, m) \in Started(r.effects)
    BY <1>1, <2>1
  <2> QED BY <1>3, <1>6, <2>2
<1>7. CASE e.trigger = "Terminated"
  <2>1. PICK n \in Modes : c.by = Retire(s, n)
    BY <1>7, SubmittedBy
  <2>2. k.phase = "Retiring"
    BY <1>2, <1>7 DEF Timely
  <2>3. \A id, m : id # s => Retire(id, m) # c.by
    BY <2>1 DEF Retire
  <2>4. \A m : Retire(s, m) \notin Started(r.effects)
    <3>1. ASSUME NEW m, Retire(s, m) \in Started(r.effects) PROVE FALSE
      <4>1. Starts(s, k, e, r, Retire(s, m))
        BY <1>2, <3>1 DEF Course
      <4> QED BY <2>2, <4>1, <1>5, ErrandFields DEF Starts
    <3> QED BY <3>1
  <2>5. \A m \in Modes : Retire(s, m) \in SlotTasks => m = n
    <3>1. SUFFICES ASSUME NEW m \in Modes, Retire(s, m) \in SlotTasks PROVE m = n
      OBVIOUS
    <3>2. Retire(s, m) \in HeldTasks
      <4>1. Retire(s, m) \notin Attempts
        BY <1>5, ErrandFields DEF Attempts
      <4> QED BY <3>1, <4>1, TasksAre
    <3>3. Held(Retire(s, m)) /\ Held(Retire(s, n))
      <4>1. Retire(s, n) \in TaskType
        BY <1>2 DEF TaskType
      <4> QED BY <1>2, <2>1, <3>2, <4>1 DEF HeldTasks
    <3>4. Due(s)
      BY <1>2 DEF RInv, WorkInv
    <3> QED BY <3>3, <3>4 DEF Due
  <2>6. SlotTasks' = (SlotTasks \ {c.by}) \cup Started(r.effects)
    BY <1>1, <1>7
  <2> QED BY <1>3, <1>7, <2>1, <2>3, <2>4, <2>5, <2>6
<1> QED BY <1>6, <1>7

(* The history of leases: only a termination retires one, the slot's own.  *)
LEMMA SubmittedRetired ==
  ASSUME RInv, RInv', MInv, NEW c, NEW s, NEW k, NEW e, NEW r, Submitted(c, s, k, e, r),
         s = map[Entity]
  PROVE  /\ e.trigger # "Terminated" => Retired' = Retired
         /\ e.trigger = "Terminated" => Retired' = Retired \cup {s}
<1>1. CurrentSlot = k /\ CurrentSlot' = r.slot
  BY SubmittedWhere
<1>2. /\ s \in 1 .. lastId /\ s \in ActivationIds /\ e \in Events /\ k \in SlotType
      /\ k.phase # "Inactive" => k.id = s
      /\ Timely(s, k, e) /\ Course(s, k, e, r) /\ Outcome(k, r)
  BY SubmittedFacts
<1>3. r.slot.phase # "Inactive" => r.slot.id = s /\ k.id = s
  BY <1>2 DEF Outcome
<1>4. r = Reduce(k, e)
  BY DEF Submitted
<1>5. Moves(k, e, r)
  BY <1>4, SubmitBlank DEF Submitted, MInv
<1>6. /\ e.trigger # "ActivationSucceeded" => Granted' = Granted
      /\ e.trigger = "ActivationSucceeded" => Granted' = Granted \cup {s} /\ s \notin Granted
  BY SubmittedGranted
<1>7. /\ \A id, m : id # s => (Retire(id, m) \in SlotTasks' <=> Retire(id, m) \in SlotTasks)
      /\ e.trigger # "Terminated" =>
              \A m : Retire(s, m) \in SlotTasks' <=>
                       Retire(s, m) \in SlotTasks \/ Retire(s, m) \in Started(r.effects)
      /\ e.trigger = "Terminated" => \A m \in Modes : Retire(s, m) \notin SlotTasks'
  BY SubmittedRetirements
<1>8. Retired = {id \in Granted : ~ (k.phase \in {"Active", "Draining"} /\ k.id = id)
                                    /\ \A m \in Modes : Retire(id, m) \notin SlotTasks}
  BY <1>1 DEF Retired
<1>9. Retired' = {id \in Granted' : ~ (r.slot.phase \in {"Active", "Draining"} /\ r.slot.id = id)
                                    /\ \A m \in Modes : Retire(id, m) \notin SlotTasks'}
  BY <1>1 DEF Retired
<1>10. \A id : id # s => (id \in Granted' <=> id \in Granted)
  BY <1>6
<1>11. \A id : id # s => (id \in Retired' <=> id \in Retired)
  BY <1>2, <1>3, <1>7, <1>8, <1>9, <1>10
<1>12. ASSUME e.trigger # "Terminated" PROVE s \in Retired' <=> s \in Retired
  <2>1. k.phase \in Phases
    BY <1>2 DEF SlotType
  <2>2. \A m : Retire(s, m) \in Started(r.effects) => k.phase = "Draining"
    <3>1. ASSUME NEW m, Retire(s, m) \in Started(r.effects) PROVE k.phase = "Draining"
      <4>1. Starts(s, k, e, r, Retire(s, m))
        BY <1>2, <3>1 DEF Course
      <4> QED BY <4>1, ErrandFields DEF Starts
    <3> QED BY <3>1
  <2>3. CASE k.phase \in {"Active", "Draining"}
    <3>1. s \notin Retired
      BY <1>2, <1>8, <2>3
    <3>2. CASE k.phase = "Active"
      <4>1. r.slot.phase \in {"Active", "Draining"} /\ r.slot.id = s
        BY <1>2, <1>4, <3>2, ReduceLease
      <4> QED BY <1>9, <3>1, <4>1
    <3>3. CASE k.phase = "Draining"
      <4>1. \/ r.slot.phase = "Draining" /\ r.slot.id = s
            \/ \E m \in Modes : Retire(s, m) \in Started(r.effects)
        BY <1>2, <1>4, <3>3, ReduceLease
      <4> QED BY <1>7, <1>9, <1>12, <3>1, <4>1
    <3> QED BY <2>3, <3>2, <3>3
  <2>4. CASE e.trigger = "ActivationSucceeded"
    <3>1. r.slot.phase = "Active" /\ s \notin Granted
      BY <1>5, <1>6, <2>4 DEF Moves
    <3> QED BY <1>3, <1>8, <1>9, <3>1
  <2>5. CASE k.phase \in {"Inactive", "Activating", "Retiring"} /\ e.trigger # "ActivationSucceeded"
    <3>1. r.slot.phase \notin {"Active", "Draining"}
      <4>1. CASE k.phase = "Inactive"
        BY <1>2, <4>1 DEF Course
      <4>2. CASE k.phase = "Retiring"
        BY <1>2, <1>12, <4>2 DEF Course
      <4>3. CASE k.phase = "Activating"
        BY <1>2, <1>5, <2>5, <4>3 DEF Course, Moves
      <4> QED BY <2>5, <4>1, <4>2, <4>3
    <3> QED BY <1>6, <1>7, <1>8, <1>9, <1>12, <2>2, <2>5, <3>1
  <2> QED BY <2>1, <2>3, <2>4, <2>5 DEF Phases
<1>13. ASSUME e.trigger = "Terminated" PROVE s \in Retired'
  <2>1. k.phase = "Retiring" /\ r.slot.phase = "Inactive"
    BY <1>2, <1>5, <1>13 DEF Timely, Moves
  <2>2. s \in Granted
    <3>1. StartActivation(s) \notin Attempts
      <4>1. ASSUME s \in failed PROVE FALSE
        <5>1. ~ Live(s)
          BY <4>1 DEF RInv, WorkInv, FailedGone
        <5> QED BY <2>1, <5>1 DEF Live, Submitted
      <4> QED BY <4>1 DEF Attempts, StartActivation
    <3>2. ~ Held(StartActivation(s))
      <4>1. Due(s) /\ slots[s] = k
        BY <1>2 DEF RInv, WorkInv, Submitted
      <4> QED BY <2>1, <4>1 DEF Due
    <3>3. StartActivation(s) \notin SlotTasks
      BY <3>1, <3>2, TasksAre DEF HeldTasks
    <3> QED BY <1>2, <3>3 DEF Granted
  <2> QED BY <1>6, <1>7, <1>9, <1>13, <2>1, <2>2
<1> QED BY <1>11, <1>12, <1>13

-----------------------------------------------------------------------------
(* The facts of callers and passivators: Dispatch, CancelWaiter and        *)
(* BeginDrain on the slot the entry names.                                 *)

LEMMA EventShape ==
  ASSUME NEW e \in Events
  PROVE  /\ e.trigger = "Dispatch" => e = [trigger |-> "Dispatch", d |-> e.d]
         /\ e.trigger = "CancelWaiter" => e = [trigger |-> "CancelWaiter", id |-> e.id, d |-> e.d]
         /\ e.trigger \notin {"Dispatch", "CancelWaiter", "DeliveryResolved"} =>
              e = [trigger |-> e.trigger, id |-> e.id]
<1>1. CASE e \in [trigger : {"Dispatch"}, d : Dispatches]
  BY <1>1
<1>2. CASE e \in [trigger : {"ActivationSucceeded", "ActivationFailed", "BeginDrain",
                             "FenceAcknowledged", "ForceDrain", "Terminated"}, id : ActivationIds]
  BY <1>2
<1>3. CASE e \in [trigger : {"CancelWaiter"}, id : ActivationIds, d : Dispatches]
  BY <1>3
<1>4. CASE e \in [trigger : {"DeliveryResolved"}, id : ActivationIds,
                  failure : {<< >>} \cup {<< d >> : d \in Dispatches}]
  BY <1>4
<1> QED BY <1>1, <1>2, <1>3, <1>4 DEF Events, ReportedType

(* The step on the slot the entry names is the abstract submission.        *)
LEMMA SubmittedAsSubmit ==
  ASSUME RInv, RInv', MInv, NEW c, NEW s, NEW k, NEW e, NEW r, Submitted(c, s, k, e, r),
         s = map[Entity], NEW finished,
         \/ finished = {} /\ (c.by \notin TaskType \/ e.trigger = "ActivationFailed")
         \/ finished = {c.by} /\ e.trigger # "ActivationFailed"
  PROVE  EntitySlotOf!Submit(e, finished)
<1>1. CurrentSlot = k /\ CurrentSlot' = r.slot
  BY SubmittedWhere
<1>2. r = Reduce(k, e)
  BY DEF Submitted
<1>3. /\ c.by \notin TaskType => c.by \notin SlotTasks
      /\ e.trigger # "ActivationFailed" => SlotTasks' = (SlotTasks \ {c.by}) \cup Started(r.effects)
      /\ e.trigger = "ActivationFailed" => SlotTasks' = SlotTasks \cup Started(r.effects)
  BY SubmittedTasks
<1>4. SlotTasks' = (SlotTasks \ finished) \cup Started(r.effects)
  <2>1. CASE finished = {c.by} /\ e.trigger # "ActivationFailed"
    BY <1>3, <2>1
  <2>2. CASE finished = {} /\ e.trigger = "ActivationFailed"
    BY <1>3, <2>2
  <2>3. CASE finished = {} /\ c.by \notin TaskType /\ e.trigger # "ActivationFailed"
    BY <1>3, <2>3
  <2> QED BY <2>1, <2>2, <2>3
<1>5. Returned' = Returned \cup Refused(r.effects)
  BY SubmittedReturned
<1>6. r = Reduce(CurrentSlot, e)
  BY <1>1, <1>2
<1> QED BY ONLY <1>1, <1>4, <1>5, <1>6, AsSubmit

(* What a fact of a caller leaves alone.                                   *)
LEMMA CallerSteady ==
  ASSUME RInv, RInv', MInv, NEW c, NEW s, NEW k, NEW e, NEW r, Submitted(c, s, k, e, r),
         e.trigger \in {"Dispatch", "CancelWaiter", "BeginDrain"}
  PROVE  /\ lastId' = lastId /\ failed' = failed /\ acked' = acked
         /\ Accepted' = Accepted /\ Granted' = Granted
         /\ s = map[Entity] => Retired' = Retired
         /\ c.by \notin TaskType
         /\ SlotTasks' = SlotTasks \cup Started(r.effects)
<1>1. /\ lastId' = lastId
      /\ failed' = IF e.trigger = "ActivationFailed" THEN failed \cup {e.id} ELSE failed
      /\ acked' = IF e.trigger = "FenceAcknowledged" THEN acked \cup {e.id} ELSE acked
  BY SubmittedMoves
<1>2. c.by \notin TaskType
  BY SubmittedBy
<1>3. Accepted' = Accepted
  <2>1. Accepted' = Accepted \cup
           {x \in Dispatches : answer[x] = "Ok" /\ \E i \in ActivationIds : c.by = Deliver(i, x)}
    BY SubmittedAccepted
  <2>2. \A i \in ActivationIds, x \in Dispatches : Deliver(i, x) \in TaskType
    BY DEF TaskType
  <2> QED BY <1>2, <2>1, <2>2
<1>4. Granted' = Granted
  BY SubmittedGranted
<1>5. s = map[Entity] => Retired' = Retired
  BY SubmittedRetired
<1>6. SlotTasks' = SlotTasks \cup Started(r.effects)
  BY <1>2, SubmittedTasks
<1> QED BY <1>1, <1>2, <1>3, <1>4, <1>5, <1>6

(* A caller's fact on the slot the entry names.                            *)
LEMMA DispatchStep ==
  ASSUME RInv, RInv', MInv, MInv', NEW c, NEW s, NEW k, NEW e, NEW r, Submitted(c, s, k, e, r),
         s = map[Entity], e.trigger = "Dispatch"
  PROVE  SlotStep
<1>1. /\ lastId' = lastId /\ failed' = failed /\ acked' = acked
      /\ Accepted' = Accepted /\ Granted' = Granted /\ Retired' = Retired /\ c.by \notin TaskType
  BY CallerSteady
<1>2. e.d \in Dispatches /\ e.d \notin Issued /\ Issued' = Issued \cup {e.d}
  BY SubmittedIssued
<1>3. Cancelled' = Cancelled
  BY SubmittedCancelled
<1>4. PICK none : none = {}
  OBVIOUS
<1>5. EntitySlotOf!Submit(e, none)
  BY <1>1, <1>4, SubmittedAsSubmit
<1>6. e = [trigger |-> "Dispatch", d |-> e.d]
  BY SubmittedFacts, EventShape
<1>7. EntitySlotOf!Submit([trigger |-> "Dispatch", d |-> e.d], {})
  BY <1>4, <1>5, <1>6
<1>8. EntitySlotOf!Dispatch(e.d)
  BY <1>1, <1>2, <1>3, <1>7 DEF EntitySlotOf!Dispatch, EntitySlotOf!history
<1> QED BY <1>2, <1>8 DEF SlotStep, EntitySlotOf!Next

LEMMA CancelStep ==
  ASSUME RInv, RInv', MInv, MInv', NEW c, NEW s, NEW k, NEW e, NEW r, Submitted(c, s, k, e, r),
         s = map[Entity], e.trigger = "CancelWaiter"
  PROVE  SlotStep
<1>1. /\ lastId' = lastId /\ failed' = failed /\ acked' = acked
      /\ Accepted' = Accepted /\ Granted' = Granted /\ Retired' = Retired /\ c.by \notin TaskType
  BY CallerSteady
<1>2. Issued' = Issued
  BY SubmittedIssued
<1>3. CurrentSlot = k /\ CurrentSlot' = r.slot
  BY SubmittedWhere
<1>4. Cancelled' = Cancelled \cup (Range(CurrentSlot.waiters) \ Range(CurrentSlot'.waiters))
  BY <1>3, SubmittedCancelled
<1>5. PICK none : none = {}
  OBVIOUS
<1>6. EntitySlotOf!Submit(e, none)
  BY <1>1, <1>5, SubmittedAsSubmit
<1>7. c \in calls /\ c.event = e /\ e \in Events
  BY SubmittedMoves, SubmittedFacts DEF Submitted
<1>8. e = [trigger |-> "CancelWaiter", id |-> e.id, d |-> e.d] /\ e.id \in ActivationIds /\ e.d \in Dispatches
  BY <1>7, EventShape, EventFields
<1>9. e.id \in 1 .. lastId
  BY <1>7 DEF RInv, Issuing
<1>10. e.d \in Issued
  <2>1. future[e.d] = "dropped"
    BY <1>7 DEF RInv, HandInv, CancellationsDropped
  <2>2. answer[e.d] # "Exhausted"
    BY <1>8, <2>1 DEF MInv, Exhausted
  <2>3. ~ Dispatching(e.d)
    BY <2>1 DEF Dispatching, RInv, WInv, DispatchesSubmitted
  <2> QED BY <1>8, <2>1, <2>2, <2>3, IssuedAre
<1>11. EntitySlotOf!Submit([trigger |-> "CancelWaiter", id |-> e.id, d |-> e.d], {})
  BY <1>5, <1>6, <1>8
<1>12. \A f : EntitySlotOf!Range(f) = Range(f)
  BY DEF EntitySlotOf!Range, Range
<1>13. EntitySlotOf!Cancel(e.id, e.d)
  BY <1>1, <1>2, <1>4, <1>9, <1>10, <1>11, <1>12 DEF EntitySlotOf!Cancel, EntitySlotOf!Known, EntitySlotOf!history
<1> QED BY <1>8, <1>13, SameIds DEF SlotStep, EntitySlotOf!Next

(* Passivation of the activation the entry names.                          *)
LEMMA PassivateStep ==
  ASSUME RInv, RInv', MInv, MInv', NEW c, NEW s, NEW k, NEW e, NEW r, Submitted(c, s, k, e, r),
         s = map[Entity], e.trigger = "BeginDrain"
  PROVE  SlotStep
<1>1. /\ lastId' = lastId /\ failed' = failed /\ acked' = acked
      /\ Accepted' = Accepted /\ Granted' = Granted /\ Retired' = Retired /\ c.by \notin TaskType
  BY CallerSteady
<1>2. Issued' = Issued
  BY SubmittedIssued
<1>3. Cancelled' = Cancelled
  BY SubmittedCancelled
<1>4. PICK none : none = {}
  OBVIOUS
<1>5. EntitySlotOf!Submit(e, none)
  BY <1>1, <1>4, SubmittedAsSubmit
<1>6. c \in calls /\ c.event = e /\ e \in Events
  BY SubmittedMoves, SubmittedFacts DEF Submitted
<1>7. e = [trigger |-> "BeginDrain", id |-> e.id] /\ e.id \in ActivationIds
  BY <1>6, EventShape, EventFields
<1>8. e.id \in 1 .. lastId
  BY <1>6 DEF RInv, Issuing
<1>9. EntitySlotOf!Submit([trigger |-> "BeginDrain", id |-> e.id], {})
  BY <1>4, <1>5, <1>7
<1>10. EntitySlotOf!Passivate(e.id)
  BY <1>1, <1>2, <1>3, <1>8, <1>9 DEF EntitySlotOf!Passivate, EntitySlotOf!Known, EntitySlotOf!history
<1> QED BY <1>7, <1>10, SameIds DEF SlotStep, EntitySlotOf!Next

(* What the report of a task that is not a delivery leaves alone.          *)
LEMMA TaskSteady ==
  ASSUME RInv, RInv', MInv, MInv', NEW c, NEW s, NEW k, NEW e, NEW r, Submitted(c, s, k, e, r),
         e.trigger \in {"ActivationSucceeded", "ActivationFailed", "FenceAcknowledged",
                        "ForceDrain", "Terminated"}
  PROVE  /\ lastId' = lastId /\ Issued' = Issued /\ Accepted' = Accepted /\ Cancelled' = Cancelled
         /\ e.id = s /\ s \in ActivationIds /\ s = map[Entity]
         /\ e = [trigger |-> e.trigger, id |-> s]
         /\ c.by \in TaskType /\ c.by \in SlotTasks
         /\ failed' = IF e.trigger = "ActivationFailed" THEN failed \cup {s} ELSE failed
         /\ acked' = IF e.trigger = "FenceAcknowledged" THEN acked \cup {s} ELSE acked
         /\ k.phase # "Inactive" /\ k = slots[s]
<1>1. /\ lastId' = lastId
      /\ failed' = IF e.trigger = "ActivationFailed" THEN failed \cup {e.id} ELSE failed
      /\ acked' = IF e.trigger = "FenceAcknowledged" THEN acked \cup {e.id} ELSE acked
  BY SubmittedMoves
<1>2. Timely(s, k, e) /\ s \in ActivationIds /\ e \in Events /\ k = slots[s]
  BY SubmittedFacts DEF Submitted
<1>3. e.id = s /\ k.phase # "Inactive"
  BY <1>2 DEF Timely
<1>4. s = map[Entity]
  BY <1>2, <1>3, WaitersCurrent DEF Live
<1>5. e = [trigger |-> e.trigger, id |-> s]
  BY <1>2, <1>3, EventShape
<1>6. Issued' = Issued
  BY SubmittedIssued
<1>7. Cancelled' = Cancelled
  BY SubmittedCancelled
<1>8. c.by \in TaskType /\ c.by.type # "Deliver"
  <2>1. CASE e.trigger \in {"ActivationSucceeded", "ActivationFailed"}
    <3>1. c.by = StartActivation(s)
      BY <2>1, SubmittedBy
    <3> QED BY <1>2, <3>1, ErrandFields DEF TaskType
  <2>2. CASE e.trigger \in {"FenceAcknowledged", "ForceDrain"}
    <3>1. c.by = EnqueueFence(s)
      BY <2>2, SubmittedBy
    <3> QED BY <1>2, <3>1, ErrandFields DEF TaskType
  <2>3. CASE e.trigger = "Terminated"
    <3>1. PICK m \in Modes : c.by = Retire(s, m)
      BY <2>3, SubmittedBy
    <3> QED BY <1>2, <3>1, ErrandFields DEF TaskType
  <2> QED BY <2>1, <2>2, <2>3
<1>9. Accepted' = Accepted
  <2>1. Accepted' = Accepted \cup
           {x \in Dispatches : answer[x] = "Ok" /\ \E i \in ActivationIds : c.by = Deliver(i, x)}
    BY SubmittedAccepted
  <2>2. \A i \in ActivationIds, x \in Dispatches : c.by # Deliver(i, x)
    BY <1>8, ErrandFields
  <2> QED BY <2>1, <2>2
<1>10. c.by \in SlotTasks
  BY <1>8, SubmittedTasks
<1> QED BY <1>1, <1>2, <1>3, <1>4, <1>5, <1>6, <1>7, <1>8, <1>9, <1>10

(* The attempt succeeded, or failed and stays outstanding in EntitySlot.   *)
LEMMA ActivationStep ==
  ASSUME RInv, RInv', MInv, MInv', NEW c, NEW s, NEW k, NEW e, NEW r, Submitted(c, s, k, e, r),
         e.trigger \in {"ActivationSucceeded", "ActivationFailed"}
  PROVE  SlotStep
<1>1. /\ lastId' = lastId /\ Issued' = Issued /\ Accepted' = Accepted /\ Cancelled' = Cancelled
      /\ s \in ActivationIds /\ s = map[Entity]
      /\ e = [trigger |-> e.trigger, id |-> s]
      /\ c.by \in TaskType /\ c.by \in SlotTasks
      /\ failed' = IF e.trigger = "ActivationFailed" THEN failed \cup {s} ELSE failed
      /\ acked' = acked
      /\ k.phase # "Inactive" /\ k = slots[s]
  BY TaskSteady
<1>2. c.by = StartActivation(s)
  BY SubmittedBy
<1>3. StartActivation(s) \in SlotTasks
  BY <1>1, <1>2
<1>4. Retired' = Retired
  BY <1>1, SubmittedRetired
<1>5. PICK finished : finished = IF e.trigger = "ActivationFailed" THEN {} ELSE {c.by}
  OBVIOUS
<1>6. EntitySlotOf!Submit(e, finished)
  BY <1>1, <1>5, SubmittedAsSubmit
<1>7. CASE e.trigger = "ActivationSucceeded"
  <2>1. Granted' = Granted \cup {s}
    BY <1>7, SubmittedGranted
  <2>2. EntitySlotOf!Submit([trigger |-> "ActivationSucceeded", id |-> s], {StartActivation(s)})
    BY <1>1, <1>2, <1>5, <1>6, <1>7
  <2>3. EntitySlotOf!StartActivation(s) = StartActivation(s) /\ failed' = failed
    BY <1>1, <1>7, SameEffects
  <2>4. EntitySlotOf!ActivationSucceeded(s)
    BY <1>1, <1>3, <1>4, <2>1, <2>2, <2>3 DEF EntitySlotOf!ActivationSucceeded
  <2> QED BY <1>1, <2>4, SameIds DEF SlotStep, EntitySlotOf!Next
<1>8. CASE e.trigger = "ActivationFailed"
  <2>1. Granted' = Granted
    BY <1>8, SubmittedGranted
  <2>2. EntitySlotOf!Submit([trigger |-> "ActivationFailed", id |-> s], {})
    BY <1>1, <1>5, <1>6, <1>8
  <2>3. EntitySlotOf!StartActivation(s) = StartActivation(s)
    BY SameEffects
  <2>4. s \notin failed /\ failed' = failed \cup {s}
    BY <1>1, <1>8 DEF RInv, WorkInv, FailedGone, Live
  <2>5. EntitySlotOf!ActivationFailed(s)
    BY <1>1, <1>3, <1>4, <2>1, <2>2, <2>3, <2>4 DEF EntitySlotOf!ActivationFailed
  <2> QED BY <1>1, <2>5, SameIds DEF SlotStep, EntitySlotOf!Next
<1> QED BY <1>7, <1>8

(* The fence is acknowledged, or its mailbox is gone and the drain forced.  *)
LEMMA FenceStep ==
  ASSUME RInv, RInv', MInv, MInv', NEW c, NEW s, NEW k, NEW e, NEW r, Submitted(c, s, k, e, r),
         e.trigger \in {"FenceAcknowledged", "ForceDrain"}
  PROVE  SlotStep
<1>1. /\ lastId' = lastId /\ Issued' = Issued /\ Accepted' = Accepted /\ Cancelled' = Cancelled
      /\ s \in ActivationIds /\ s = map[Entity]
      /\ e = [trigger |-> e.trigger, id |-> s]
      /\ c.by \in TaskType /\ c.by \in SlotTasks
      /\ failed' = failed
      /\ acked' = IF e.trigger = "FenceAcknowledged" THEN acked \cup {s} ELSE acked
  BY TaskSteady
<1>2. c.by = EnqueueFence(s)
  BY SubmittedBy
<1>3. EnqueueFence(s) \in SlotTasks /\ EntitySlotOf!EnqueueFence(s) = EnqueueFence(s)
  BY <1>1, <1>2, SameEffects
<1>4. Retired' = Retired /\ Granted' = Granted
  BY <1>1, SubmittedRetired, SubmittedGranted
<1>5. PICK finished : finished = {c.by}
  OBVIOUS
<1>6. EntitySlotOf!Submit(e, finished)
  BY <1>1, <1>5, SubmittedAsSubmit
<1>7. CASE e.trigger = "FenceAcknowledged"
  <2>1. EntitySlotOf!Submit([trigger |-> "FenceAcknowledged", id |-> s], {EnqueueFence(s)})
    BY <1>1, <1>2, <1>5, <1>6, <1>7
  <2>2. EntitySlotOf!FenceAcknowledged(s)
    BY <1>1, <1>3, <1>4, <1>7, <2>1 DEF EntitySlotOf!FenceAcknowledged
  <2> QED BY <1>1, <2>2, SameIds DEF SlotStep, EntitySlotOf!Next
<1>8. CASE e.trigger = "ForceDrain"
  <2>1. EntitySlotOf!Submit([trigger |-> "ForceDrain", id |-> s], {EnqueueFence(s)})
    BY <1>1, <1>2, <1>5, <1>6, <1>8
  <2>2. acked' = acked
    BY <1>1, <1>8
  <2>3. EntitySlotOf!FenceFailed(s)
    BY <1>1, <1>3, <1>4, <2>1, <2>2 DEF EntitySlotOf!FenceFailed, EntitySlotOf!history
  <2> QED BY <1>1, <2>3, SameIds DEF SlotStep, EntitySlotOf!Next
<1> QED BY <1>7, <1>8

(* The exact incarnation terminated: its entry is removed.                 *)
LEMMA TerminationStep ==
  ASSUME RInv, RInv', MInv, MInv', NEW c, NEW s, NEW k, NEW e, NEW r, Submitted(c, s, k, e, r),
         e.trigger = "Terminated"
  PROVE  SlotStep
<1>1. /\ lastId' = lastId /\ Issued' = Issued /\ Accepted' = Accepted /\ Cancelled' = Cancelled
      /\ s \in ActivationIds /\ s = map[Entity]
      /\ e = [trigger |-> e.trigger, id |-> s]
      /\ c.by \in TaskType /\ c.by \in SlotTasks
      /\ failed' = failed /\ acked' = acked
  BY TaskSteady
<1>2. PICK m \in Modes : c.by = Retire(s, m)
  BY SubmittedBy
<1>3. Retire(s, m) \in SlotTasks /\ EntitySlotOf!Retire(s, m) = Retire(s, m)
  BY <1>1, <1>2, SameEffects
<1>4. Retired' = Retired \cup {s} /\ Granted' = Granted
  BY <1>1, SubmittedRetired, SubmittedGranted
<1>5. PICK finished : finished = {c.by}
  OBVIOUS
<1>6. EntitySlotOf!Submit(e, finished)
  BY <1>1, <1>5, SubmittedAsSubmit
<1>7. EntitySlotOf!Submit([trigger |-> "Terminated", id |-> s], {Retire(s, m)})
  BY <1>1, <1>2, <1>5, <1>6
<1>8. EntitySlotOf!Terminated(s, m)
  BY <1>1, <1>3, <1>4, <1>7 DEF EntitySlotOf!Terminated
<1> QED BY <1>1, <1>2, <1>8, SameIds DEF SlotStep, EntitySlotOf!Next, Modes

-----------------------------------------------------------------------------
(* A delivery is resolved, for the current activation or an earlier one.   *)

(* What a delivery of another activation does to any slot.                 *)
LEMMA StrangeDelivery ==
  ASSUME NEW k \in SlotType, k.phase = "Inactive" => k = Inactive,
         NEW e, e.trigger = "DeliveryResolved", e.id # k.id
  PROVE  Reduce(k, e) = RejectFailedDelivery(k, e.failure)
<1>1. k.phase \in Phases
  BY DEF SlotType
<1>2. CASE k.phase = "Inactive"
  BY <1>2 DEF Reduce, DecideInactive
<1>3. CASE k.phase = "Activating"
  BY <1>3 DEF Reduce, DecideActivating
<1>4. CASE k.phase = "Active"
  BY <1>4 DEF Reduce, DecideActive
<1>5. CASE k.phase = "Draining"
  BY <1>5 DEF Reduce, DecideDraining
<1>6. CASE k.phase = "Retiring"
  BY <1>6 DEF Reduce, DecideRetiring
<1> QED BY <1>1, <1>2, <1>3, <1>4, <1>5, <1>6 DEF Phases

(* A failed or accepted delivery reaches its activation's slot or a later  *)
(* one of the entity; either way the step is the entity's.                 *)
LEMMA DeliveryCurrent ==
  ASSUME RInv, RInv', MInv, NEW c, NEW s, NEW k, NEW e, NEW r, Submitted(c, s, k, e, r),
         e.trigger = "DeliveryResolved"
  PROVE  \E q : q = Reduce(CurrentSlot, e) /\ CurrentSlot' = q.slot /\ q.effects = r.effects
<1>1. /\ s = map[Entity] => CurrentSlot = k /\ CurrentSlot' = r.slot
      /\ s # map[Entity] => CurrentSlot' = CurrentSlot /\ k = Inactive
  BY SubmittedWhere
<1>2. r = Reduce(k, e) /\ c \in calls /\ c.slot = s /\ c.event = e /\ c.at = "submit" /\ Looking(c)
  BY SubmittedMoves DEF Submitted
<1>3. CASE s = map[Entity]
  BY <1>1, <1>2, <1>3
<1>4. CASE s # map[Entity]
  <2>1. r = RejectFailedDelivery(Inactive, e.failure)
    BY <1>1, <1>2, <1>4 DEF Reduce, DecideInactive, Inactive, Slot
  <2>2. s \in 1 .. lastId /\ s \in ActivationIds /\ lastId \in Nat
    BY SubmittedFacts, IssuedIds DEF RInv, IInv
  <2>3. e.id <= s
    BY <1>2 DEF RInv, CallsInv, Reaches
  <2>4. e.id \in 1 .. lastId
    BY <1>2 DEF RInv, Issuing
  <2>5. CurrentSlot \in SlotType /\ (CurrentSlot.phase = "Inactive" => CurrentSlot = Inactive)
        /\ CurrentSlot.id # e.id
    <3>1. CASE map[Entity] = NoActivation
      <4>1. CurrentSlot = Inactive
        BY <3>1 DEF CurrentSlot
      <4>2. Inactive \in SlotType
        BY <2>2, SlotTyped
      <4> QED BY <2>2, <2>4, <4>1, <4>2 DEF Inactive, Slot, NoActivation
    <3>2. CASE map[Entity] # NoActivation
      <4>1. map[Entity] = lastId /\ lastId \in ActivationIds /\ lastId \in 1 .. lastId
        BY <3>2, Mapped
      <4>2. CurrentSlot = slots[lastId]
        BY <3>2, <4>1 DEF CurrentSlot
      <4>3. CurrentSlot \in SlotType /\ (CurrentSlot.phase = "Inactive" => CurrentSlot = Inactive)
        BY <4>1, <4>2 DEF RInv, IInv, TypeOK, MInv, Blank
      <4>4. CurrentSlot.phase # "Inactive" => CurrentSlot.id = lastId
        BY <4>1, <4>2 DEF RInv, IInv, OneLiveIncarnation, Live
      <4>5. e.id # lastId
        BY <1>4, <2>2, <2>3, <2>4, <4>1
      <4>6. CASE CurrentSlot.phase # "Inactive"
        BY <4>3, <4>4, <4>5, <4>6
      <4>7. CASE CurrentSlot = Inactive
        BY <2>2, <2>4, <4>3, <4>7 DEF Inactive, Slot, NoActivation
      <4> QED BY <4>3, <4>6, <4>7
    <3> QED BY <3>1, <3>2
  <2>6. Reduce(CurrentSlot, e) = RejectFailedDelivery(CurrentSlot, e.failure)
    BY <2>5, StrangeDelivery
  <2>7. CurrentSlot' = CurrentSlot
    BY <1>1, <1>4
  <2>8. PICK q : q = Reduce(CurrentSlot, e)
    OBVIOUS
  <2>9. q.slot = CurrentSlot /\ q.effects = Rejections(e.failure, "Unavailable")
    BY <2>6, <2>8 DEF RejectFailedDelivery, Decision
  <2>10. r.effects = Rejections(e.failure, "Unavailable")
    BY <2>1 DEF RejectFailedDelivery, Decision
  <2> QED BY <2>7, <2>8, <2>9, <2>10
<1> QED BY <1>3, <1>4

(* A delivery comes back, accepted or failed.                              *)
LEMMA ResolutionStep ==
  ASSUME RInv, RInv', MInv, MInv', NEW c, NEW s, NEW k, NEW e, NEW r, Submitted(c, s, k, e, r),
         e.trigger = "DeliveryResolved"
  PROVE  SlotStep
<1>1. PICK d \in Dispatches : /\ c.by = Deliver(e.id, d) /\ e.id \in ActivationIds
                              /\ e \in {Resolved(e.id, << >>), Resolved(e.id, << d >>)}
  BY SubmittedBy
<1>2. PICK id, w : id = e.id /\ w = Deliver(id, d)
  OBVIOUS
<1>3. id \in ActivationIds /\ c.by = w /\ (e = Resolved(id, << >>) \/ e = Resolved(id, << d >>))
  BY <1>1, <1>2
<1>4. w \in TaskType
  BY <1>2, <1>3 DEF TaskType
<1>5. SlotTasks' = (SlotTasks \ {w}) \cup Started(r.effects) /\ w \in SlotTasks
  BY <1>3, <1>4, SubmittedTasks
<1>6. lastId' = lastId /\ failed' = failed /\ acked' = acked
  BY SubmittedMoves
<1>7. Issued' = Issued
  BY SubmittedIssued
<1>8. Cancelled' = Cancelled
  BY SubmittedCancelled
<1>9. Granted' = Granted
  BY SubmittedGranted
<1>10. Retired' = Retired
  <2>1. CASE s = map[Entity]
    BY <2>1, SubmittedRetired
  <2>2. CASE s # map[Entity]
    <3>1. CurrentSlot' = CurrentSlot
      BY <2>2, SubmittedWhere
    <3>2. \A i, m : Retire(i, m) \in SlotTasks' <=> Retire(i, m) \in SlotTasks
      <4>1. \A m : Retire(s, m) \notin Started(r.effects)
        <5>1. k.phase = "Inactive" /\ Course(s, k, e, r)
          <6>1. k = Inactive
            BY <2>2, SubmittedWhere
          <6>2. Course(s, k, e, r)
            BY SubmittedFacts
          <6> QED BY <6>1, <6>2 DEF Inactive, Slot
        <5>2. ASSUME NEW m, Retire(s, m) \in Started(r.effects) PROVE FALSE
          <6>1. Starts(s, k, e, r, Retire(s, m))
            BY <5>1, <5>2 DEF Course
          <6> QED BY <5>1, <6>1, ErrandFields DEF Starts
        <5> QED BY <5>2
      <4>2. \A i, m : i # s => (Retire(i, m) \in SlotTasks' <=> Retire(i, m) \in SlotTasks)
        BY SubmittedRetirements
      <4>3. \A m : Retire(s, m) \in SlotTasks' <=>
                     Retire(s, m) \in SlotTasks \/ Retire(s, m) \in Started(r.effects)
        BY SubmittedRetirements
      <4> QED BY <4>1, <4>2, <4>3
    <3> QED BY <1>9, <3>1, <3>2 DEF Retired
  <2> QED BY <2>1, <2>2
<1>11. PICK q : q = Reduce(CurrentSlot, e) /\ CurrentSlot' = q.slot /\ q.effects = r.effects
  BY DeliveryCurrent
<1>12. Returned' = Returned \cup Refused(r.effects)
  BY SubmittedReturned
<1>13. PICK finished : finished = {w}
  OBVIOUS
<1>14. EntitySlotOf!Submit(e, finished)
  <2>1. SlotTasks' = (SlotTasks \ finished) \cup Started(q.effects)
    BY <1>5, <1>11, <1>13
  <2>2. Returned' = Returned \cup Refused(q.effects)
    BY <1>11, <1>12
  <2> QED BY ONLY <1>11, <2>1, <2>2, AsSubmit
<1>15. Accepted' = Accepted \cup {x \in Dispatches : answer[x] = "Ok" /\ x = d}
  <2>1. Accepted' = Accepted \cup
           {x \in Dispatches : answer[x] = "Ok" /\ \E i \in ActivationIds : c.by = Deliver(i, x)}
    BY SubmittedAccepted
  <2>2. \A i, x : w = Deliver(i, x) <=> i = id /\ x = d
    BY <1>2 DEF Deliver
  <2> QED BY <1>3, <2>1, <2>2
<1>16. EntitySlotOf!Deliver(id, d) = w
  BY <1>2, SameEffects
<1>17. c \in calls /\ c.event = e /\ c.slot = s /\ Looking(c)
  BY SubmittedMoves DEF Submitted
<1>18. CASE e = Resolved(id, << >>)
  <2>1. answer[d] = "Ok"
    BY <1>2, <1>3, <1>17, <1>18 DEF RInv, CallsInv, Thanked, Thanks
  <2>2. Accepted' = Accepted \cup {d}
    BY <1>15, <2>1
  <2>3. EntitySlotOf!Submit([trigger |-> "DeliveryResolved", id |-> id, failure |-> << >>], {w})
    BY <1>13, <1>14, <1>18 DEF Resolved
  <2>4. EntitySlotOf!Delivered(id, d)
    BY <1>5, <1>6, <1>7, <1>8, <1>9, <1>10, <1>16, <2>2, <2>3
       DEF EntitySlotOf!Delivered, EntitySlotOf!history
  <2> QED BY <1>3, <2>4, DeliveryStep
<1>19. CASE e = Resolved(id, << d >>)
  <2>1. d \in Conveyed(e)
    <3>1. e.trigger = "DeliveryResolved" /\ e.failure = << d >> /\ Range(<< d >>) = {d}
      BY <1>19, SingleRange DEF Resolved
    <3> QED BY <3>1 DEF Conveyed
  <2>2. At(d, "called", c)
    BY <1>17, <2>1 DEF At
  <2>3. answer[d] = "Awaiting"
    BY <2>2, AwaitedAt
  <2>4. Accepted' = Accepted
    BY <1>15, <2>3
  <2>5. EntitySlotOf!Submit([trigger |-> "DeliveryResolved", id |-> id, failure |-> << d >>], {w})
    BY <1>13, <1>14, <1>19 DEF Resolved
  <2>6. EntitySlotOf!DeliveryFailed(id, d)
    BY <1>5, <1>6, <1>7, <1>8, <1>9, <1>10, <1>16, <2>4, <2>5
       DEF EntitySlotOf!DeliveryFailed, EntitySlotOf!history
  <2> QED BY <1>3, <2>6, DeliveryStep
<1> QED BY <1>3, <1>18, <1>19

-----------------------------------------------------------------------------
(* All steps.                                                              *)

(* A caller's fact on a slot whose entry is gone.                          *)
LEMMA RemovedStep ==
  ASSUME RInv, RInv', MInv, MInv', NEW c, NEW s, NEW k, NEW e, NEW r, Submitted(c, s, k, e, r),
         s # map[Entity], e.trigger \in {"Dispatch", "CancelWaiter", "BeginDrain"}
  PROVE  SlotStep
<1>1. /\ lastId' = lastId /\ failed' = failed /\ acked' = acked
      /\ Accepted' = Accepted /\ Granted' = Granted
      /\ SlotTasks' = SlotTasks \cup Started(r.effects)
  BY CallerSteady
<1>2. CurrentSlot' = CurrentSlot /\ k = Inactive
  BY SubmittedWhere
<1>3. e \in Events /\ s \in 1 .. lastId
  BY SubmittedFacts
<1>4. r = Reduce(Inactive, e)
  BY <1>2 DEF Submitted
<1>5. Started(r.effects) = {} /\ Refused(r.effects) = Conveyed(e)
  BY <1>3, <1>4, InactiveSubmit
<1>6. SlotTasks' = SlotTasks
  BY <1>1, <1>5
<1>7. Returned' = Returned \cup Refused(r.effects)
  BY SubmittedReturned
<1>8. CASE e.trigger = "Dispatch"
  <2>1. e.d \in Dispatches /\ e.d \notin Issued /\ Issued' = Issued \cup {e.d}
    BY <1>8, SubmittedIssued
  <2>2. Cancelled' = Cancelled
    BY <1>8, SubmittedCancelled
  <2>3. Retired' = Retired
    BY <1>1, <1>2, <1>6, SameLeases
  <2>4. lastId > 0
    <3>1. lastId \in Nat
      BY IssuedIds DEF RInv, IInv
    <3> QED BY <1>3, <3>1
  <2>5. e = [trigger |-> "Dispatch", d |-> e.d]
    BY <1>3, <1>8, EventShape
  <2>6. PICK q : q = EntitySlotOf!Reduce(EntitySlotOf!Inactive, [trigger |-> "Dispatch", d |-> e.d])
    OBVIOUS
  <2>7. EntitySlotOf!Inactive = Inactive /\ EntitySlotOf!Reduce(Inactive, e) = Reduce(Inactive, e)
    BY SameSlots, SameReduce
  <2>8. q = r
    BY <1>4, <2>5, <2>6, <2>7
  <2>9. EntitySlotOf!Refused(r.effects) = Refused(r.effects)
    BY SameStarts
  <2>10. Returned' = Returned \cup EntitySlotOf!Refused(
                       EntitySlotOf!Reduce(EntitySlotOf!Inactive, [trigger |-> "Dispatch", d |-> e.d]).effects)
    BY <1>7, <2>6, <2>8, <2>9
  <2>11. EntitySlotOf!DispatchRemoved(e.d)
    BY <1>1, <1>2, <1>6, <2>1, <2>2, <2>3, <2>4, <2>10
       DEF EntitySlotOf!DispatchRemoved, EntitySlotOf!history
  <2> QED BY <2>1, <2>11 DEF SlotStep, EntitySlotOf!Next
<1>9. CASE e.trigger \in {"CancelWaiter", "BeginDrain"}
  <2>1. Issued' = Issued
    BY <1>9, SubmittedIssued
  <2>2. Conveyed(e) = {}
    BY <1>3, <1>9, ConveyedBy
  <2>3. Returned' = Returned
    BY <1>5, <1>7, <2>2
  <2>4. UNCHANGED EntitySlotOf!vars
    BY <1>1, <1>2, <1>6, <2>1, <2>3, Steady
  <2> QED BY <2>4 DEF SlotStep
<1> QED BY <1>8, <1>9

(* The fact one call submits is one step of the entity's slot.             *)
LEMMA SubmitStep ==
  ASSUME FullInv, FullInv', NEW c \in calls, Submit(c)
  PROVE  SlotStep
<1>1. RInv /\ MInv /\ RInv' /\ MInv'
  BY DEF FullInv
<1>2. PICK s, k, e, r : s = c.slot /\ k = slots[s] /\ e = c.event /\ r = Reduce(k, e)
  OBVIOUS
<1>3. Submitted(c, s, k, e, r)
  BY <1>2 DEF Submitted
<1>4. e \in Events
  BY <1>1, <1>3, SubmittedFacts
<1>5. e.trigger \in Triggers \ {"ClaimActivation"}
  BY <1>4, ConveyedBy
<1>6. CASE e.trigger \in {"ActivationSucceeded", "ActivationFailed"}
  BY <1>1, <1>3, <1>6, ActivationStep
<1>7. CASE e.trigger \in {"FenceAcknowledged", "ForceDrain"}
  BY <1>1, <1>3, <1>7, FenceStep
<1>8. CASE e.trigger = "Terminated"
  BY <1>1, <1>3, <1>8, TerminationStep
<1>9. CASE e.trigger = "DeliveryResolved"
  BY <1>1, <1>3, <1>9, ResolutionStep
<1>10. CASE s # map[Entity] /\ e.trigger \in {"Dispatch", "CancelWaiter", "BeginDrain"}
  BY <1>1, <1>3, <1>10, RemovedStep
<1>11. CASE s = map[Entity] /\ e.trigger = "Dispatch"
  BY <1>1, <1>3, <1>11, DispatchStep
<1>12. CASE s = map[Entity] /\ e.trigger = "CancelWaiter"
  BY <1>1, <1>3, <1>12, CancelStep
<1>13. CASE s = map[Entity] /\ e.trigger = "BeginDrain"
  BY <1>1, <1>3, <1>13, PassivateStep
<1> QED BY <1>5, <1>6, <1>7, <1>8, <1>9, <1>10, <1>11, <1>12, <1>13 DEF Triggers

(* Every step of the directory but a panic is one step of the slot, or     *)
(* leaves it alone.                                                        *)
LEMMA NextStep ==
  ASSUME FullInv, FullInv', Next, panics' = panics
  PROVE  SlotStep
<1>0. RInv /\ MInv /\ RInv' /\ MInv'
  BY DEF FullInv
<1>1. CASE Idles
  BY <1>0, <1>1, IdleSteady DEF SlotStep
<1>2. ASSUME NEW t, NEW e, Reported(t, e) PROVE SlotStep
  BY <1>0, <1>2, ReportStep
<1>3. ASSUME NEW id \in ActivationIds, NEW d \in Dispatches, DeliveryAccepted(id, d) PROVE SlotStep
  BY <1>0, <1>3, AcceptedStep DEF SlotStep
<1>4. ASSUME NEW d \in Dispatches, NEW n \in Entities, DispatchAbsent(d, n) PROVE SlotStep
  <2>1. EntitySlotOf!Claim(d)
    BY <1>0, <1>4, ClaimStep
  <2> QED BY <2>1 DEF SlotStep, EntitySlotOf!Next
<1>5. ASSUME NEW c \in calls, Finds(c) /\ c.by \in TaskType PROVE SlotStep
  BY <1>0, <1>5, FindsStep
<1>6. ASSUME NEW c \in calls, ApplyEffect(c) PROVE SlotStep
  BY <1>0, <1>6, AppliedStep DEF SlotStep
<1>7. ASSUME NEW c \in calls, Submit(c) PROVE SlotStep
  BY <1>7, SubmitStep
<1>8. ASSUME NEW c \in calls, InterpreterPanics(c) PROVE FALSE
  <2>1. panics' = panics + 1 /\ panics \in Nat
    BY <1>0, <1>8 DEF InterpreterPanics, RInv, IInv, TypeOK
  <2> QED BY <2>1
<1>9. ASSUME NEW c \in calls, Proceeds(c) \/ InterpreterPanics(c) PROVE SlotStep
  BY <1>1, <1>5, <1>6, <1>7, <1>8, <1>9 DEF Proceeds, Idles
<1>10. ASSUME NEW n \in Entities,
              \/ \E d \in Dispatches : DispatchMapped(d, n) \/ DispatchAbsent(d, n) \/ DispatchExhausted(d, n)
              \/ \E p \in Passivations : PassivateReads(p, n)
       PROVE  SlotStep
  BY <1>1, <1>4, <1>10 DEF Idles
<1>11. ASSUME NEW d \in Dispatches, Poll(d) \/ DropFuture(d) PROVE SlotStep
  BY <1>1, <1>11 DEF Idles
<1>12. ASSUME NEW id \in ActivationIds,
              \/ ActivationReports(id) \/ FenceReports(id)
              \/ \E d \in Dispatches : DeliveryAccepted(id, d) \/ DeliveryRefused(id, d)
              \/ \E mode \in Modes : RetirementReports(id, mode)
       PROVE  SlotStep
  <2>1. CASE \/ ActivationReports(id) \/ FenceReports(id)
             \/ \E d \in Dispatches : DeliveryRefused(id, d)
             \/ \E mode \in Modes : RetirementReports(id, mode)
    BY <1>2, <2>1, TaskReported
  <2>2. CASE \E d \in Dispatches : DeliveryAccepted(id, d)
    BY <1>3, <2>2
  <2> QED BY <1>12, <2>1, <2>2
<1> QED BY <1>9, <1>10, <1>11, <1>12 DEF Next

-----------------------------------------------------------------------------
(* The refinement.                                                         *)

(* An empty directory is an Inactive slot.                                 *)
LEMMA InitStep == Init => EntitySlotOf!Init
<1> SUFFICES ASSUME Init PROVE EntitySlotOf!Init
  OBVIOUS
<1>0. Entity \in Entities
  BY SingleEntity DEF Entity
<1>1. CurrentSlot = EntitySlotOf!Inactive
  BY <1>0, SameSlots DEF Init, CurrentSlot
<1>2. QueuedEffects = {}
  <2>1. \A s \in ActivationIds : Range(outputs[s]) = {}
    BY DEF Init, Range
  <2> QED BY <2>1 DEF QueuedEffects
<1>3. Reporting = {}
  BY DEF Init, Reporting
<1>4. SlotTasks = {}
  BY <1>2, <1>3 DEF Init, SlotTasks
<1>5. Issued = {} /\ Accepted = {}
  BY DEF Init, Issued, Accepted
<1>6. Returned = {}
  BY <1>2 DEF Init, Returned
<1>7. Cancelled = {}
  BY <1>5 DEF Cancelled
<1>8. 1 .. lastId = {}
  BY DEF Init
<1>9. Granted = {} /\ Retired = {}
  BY <1>8 DEF Granted, Retired
<1> QED BY <1>1, <1>4, <1>5, <1>6, <1>7, <1>9 DEF Init, EntitySlotOf!Init

LEMMA StutterStep == UNCHANGED vars => UNCHANGED EntitySlotOf!vars
<1> SUFFICES ASSUME UNCHANGED vars PROVE UNCHANGED EntitySlotOf!vars
  OBVIOUS
<1>1. UNCHANGED <<map, slots, outputs, tasks, calls, future, answer, failed, acked, lastId>>
  BY DEF vars, directory, history
<1>2. UNCHANGED <<CurrentSlot, QueuedEffects, Reporting>>
  BY <1>1 DEF CurrentSlot, QueuedEffects, Reporting
<1>3. UNCHANGED SlotTasks
  BY <1>1, <1>2 DEF SlotTasks
<1>4. UNCHANGED <<Issued, Accepted, Returned>>
  BY <1>1, <1>2 DEF Issued, Accepted, Returned
<1>5. UNCHANGED Cancelled
  BY <1>2, <1>3, <1>4 DEF Cancelled
<1>6. UNCHANGED Granted
  BY <1>1, <1>3 DEF Granted
<1>7. UNCHANGED Retired
  BY <1>2, <1>3, <1>6 DEF Retired
<1> QED BY <1>1, <1>2, <1>3, <1>4, <1>5, <1>6, <1>7
     DEF EntitySlotOf!vars, EntitySlotOf!commands, EntitySlotOf!history

(* The work of every spawned effect is in one place: a queue of effects,   *)
(* a running task or the call that reports it, never two and never twice   *)
(* (interpret, spawn_activation, spawn_delivery, spawn_fence,              *)
(* spawn_retirement, submit_or_inactive); while it is, the slot it belongs *)
(* to is in the phase that waits for it, whatever was removed or claimed   *)
(* meanwhile.                                                              *)
THEOREM WorkInOnePlace == Spec => []WorkInv
<1>1. FullInv => WorkInv
  BY DEF FullInv, RInv
<1> QED BY <1>1, InitFull, NextFull, PTL DEF Spec

(* Every step of the directory that unwinds no interpreter is one step of  *)
(* the entity's linearized slot, or leaves it as it is.                    *)
StepsLikeTheSlot == panics' = panics => [EntitySlotOf!Next]_(EntitySlotOf!vars)

LEMMA NextLikeTheSlot == FullInv /\ FullInv' /\ [Next]_vars => StepsLikeTheSlot
BY NextStep, StutterStep DEF SlotStep, StepsLikeTheSlot

(* However lookups, submissions, interpreters and tasks interleave, and    *)
(* whichever allocation a fact reaches (dispatch, submit_or_inactive,      *)
(* interpret, remove_matching), each step of the directory is one step of  *)
(* the slot or none.  Only the step in which an integration panics may do  *)
(* otherwise: it loses a batch the slot had started.                       *)
THEOREM StepsLikeTheSlotHolds == Spec => [][StepsLikeTheSlot]_vars
<1>1. FullInv /\ FullInv' /\ [Next]_vars => [StepsLikeTheSlot]_vars
  BY NextLikeTheSlot
<1> QED BY <1>1, InitFull, NextFull, PTL DEF Spec

(* A directory whose integration never panics implements EntitySlot.       *)
THEOREM ImplementsSlotUnlessPanicking ==
  Spec /\ [](panics = 0) => ImplementsEntitySlot
<1>1. /\ panics = 0 /\ (panics = 0)'
      /\ FullInv /\ FullInv' /\ [Next]_vars
      => [EntitySlotOf!Next]_(EntitySlotOf!vars)
  <2> SUFFICES ASSUME panics = 0, (panics = 0)', FullInv, FullInv', [Next]_vars
               PROVE  [EntitySlotOf!Next]_(EntitySlotOf!vars)
    OBVIOUS
  <2>1. panics' = panics
    OBVIOUS
  <2> QED BY <2>1, NextLikeTheSlot DEF StepsLikeTheSlot
<1> QED
  BY <1>1, InitStep, InitFull, NextFull, PTL
     DEF Spec, ImplementsEntitySlot, EntitySlotOf!Spec

(* The same for integrations that panic nowhere, as the run checks it: the *)
(* directory's lookups, submissions, interpreters and tasks implement the  *)
(* linearized slot (dispatch, submit_or_inactive, interpret,               *)
(* remove_matching).                                                       *)
THEOREM ImplementsEntitySlotHolds ==
  ASSUME MaxPanics = 0
  PROVE  Spec => ImplementsEntitySlot
<1>1. FullInv => panics = 0
  BY DEF FullInv, RInv, IInv, TypeOK
<1>2. Spec => [](panics = 0)
  BY <1>1, InitFull, NextFull, PTL DEF Spec
<1> QED BY <1>2, ImplementsSlotUnlessPanicking

-----------------------------------------------------------------------------
(* What is proved of the slot holds of the directory: EntitySlotProofs on  *)
(* the mapping.  The lanes of EntityMailbox play no part in it.            *)

SlotFacts ==
  INSTANCE EntitySlotProofs
    WITH slot <- CurrentSlot, tasks <- SlotTasks,
         issued <- Issued, accepted <- Accepted, returned <- Returned,
         cancelled <- Cancelled, granted <- Granted, retired <- Retired,
         LaneCapacity <- 1, running <- {}, lane <- << >>, entered <- << >>,
         fenced <- {}, handled <- {}, replies <- {}

LEMMA SameVariables ==
  /\ EntitySlotOf!vars = SlotFacts!vars
  /\ UNCHANGED EntitySlotOf!vars <=> UNCHANGED SlotFacts!vars
BY DEF EntitySlotOf!vars, SlotFacts!vars, EntitySlotOf!commands, SlotFacts!commands,
       EntitySlotOf!history, SlotFacts!history

LEMMA SameStart == EntitySlotOf!Init <=> SlotFacts!Init
BY DEF EntitySlotOf!Init, SlotFacts!Init, EntitySlotOf!Inactive, SlotFacts!Inactive,
       EntitySlotOf!Slot, SlotFacts!Slot, EntitySlotOf!NoActivation, SlotFacts!NoActivation

LEMMA SameReduction == \A s, e : EntitySlotOf!Reduce(s, e) = SlotFacts!Reduce(s, e)
BY DEF EntitySlotOf!NoActivation, SlotFacts!NoActivation, EntitySlotOf!Slot, SlotFacts!Slot,
       EntitySlotOf!Inactive, SlotFacts!Inactive, EntitySlotOf!Activating, SlotFacts!Activating,
       EntitySlotOf!Active, SlotFacts!Active, EntitySlotOf!Draining, SlotFacts!Draining,
       EntitySlotOf!Retiring, SlotFacts!Retiring,
       EntitySlotOf!StartActivation, SlotFacts!StartActivation,
       EntitySlotOf!Deliver, SlotFacts!Deliver, EntitySlotOf!Reject, SlotFacts!Reject,
       EntitySlotOf!EnqueueFence, SlotFacts!EnqueueFence, EntitySlotOf!Retire, SlotFacts!Retire,
       EntitySlotOf!RemoveEntry, SlotFacts!RemoveEntry, EntitySlotOf!Decision, SlotFacts!Decision,
       EntitySlotOf!Ignore, SlotFacts!Ignore, EntitySlotOf!Refuse, SlotFacts!Refuse,
       EntitySlotOf!Rejections, SlotFacts!Rejections,
       EntitySlotOf!Deliveries, SlotFacts!Deliveries,
       EntitySlotOf!RejectFailedDelivery, SlotFacts!RejectFailedDelivery,
       EntitySlotOf!RetireStale, SlotFacts!RetireStale,
       EntitySlotOf!DecideInactive, SlotFacts!DecideInactive,
       EntitySlotOf!AdmitWaiter, SlotFacts!AdmitWaiter,
       EntitySlotOf!CancelWaiter, SlotFacts!CancelWaiter,
       EntitySlotOf!FinishActivation, SlotFacts!FinishActivation,
       EntitySlotOf!FailActivation, SlotFacts!FailActivation,
       EntitySlotOf!DecideActivating, SlotFacts!DecideActivating,
       EntitySlotOf!ReserveDelivery, SlotFacts!ReserveDelivery,
       EntitySlotOf!ResolveActiveDelivery, SlotFacts!ResolveActiveDelivery,
       EntitySlotOf!BeginDrain, SlotFacts!BeginDrain,
       EntitySlotOf!DecideActive, SlotFacts!DecideActive,
       EntitySlotOf!ResolveDrainingDelivery, SlotFacts!ResolveDrainingDelivery,
       EntitySlotOf!AcknowledgeFence, SlotFacts!AcknowledgeFence,
       EntitySlotOf!ForceDrain, SlotFacts!ForceDrain,
       EntitySlotOf!DecideDraining, SlotFacts!DecideDraining,
       EntitySlotOf!DecideRetiring, SlotFacts!DecideRetiring,
       EntitySlotOf!Reduce, SlotFacts!Reduce, EntitySlotOf!Range, SlotFacts!Range,
       EntitySlotOf!SelectInSeq, SlotFacts!SelectInSeq, EntitySlotOf!Min, SlotFacts!Min,
       EntitySlotOf!RemoveAt, SlotFacts!RemoveAt

LEMMA SameSubmission ==
  \A e, finished : EntitySlotOf!Submit(e, finished) <=> SlotFacts!Submit(e, finished)
BY SameReduction
   DEF EntitySlotOf!Submit, SlotFacts!Submit, EntitySlotOf!Started, SlotFacts!Started,
       EntitySlotOf!Refused, SlotFacts!Refused, EntitySlotOf!Asynchronous, SlotFacts!Asynchronous,
       EntitySlotOf!Range, SlotFacts!Range

LEMMA SameSteps == EntitySlotOf!Next <=> SlotFacts!Next
<1>1. \A d : EntitySlotOf!Claim(d) <=> SlotFacts!Claim(d)
  BY SameSubmission
  DEF EntitySlotOf!Claim, SlotFacts!Claim, EntitySlotOf!history, SlotFacts!history,
      EntitySlotOf!Inactive, SlotFacts!Inactive, EntitySlotOf!Slot, SlotFacts!Slot,
      EntitySlotOf!NoActivation, SlotFacts!NoActivation
<1>2. \A d : EntitySlotOf!Dispatch(d) <=> SlotFacts!Dispatch(d)
  BY SameSubmission
  DEF EntitySlotOf!Dispatch, SlotFacts!Dispatch, EntitySlotOf!history, SlotFacts!history
<1>3. \A d : EntitySlotOf!DispatchRemoved(d) <=> SlotFacts!DispatchRemoved(d)
  BY SameSubmission, SameReduction
  DEF EntitySlotOf!DispatchRemoved, SlotFacts!DispatchRemoved,
      EntitySlotOf!history, SlotFacts!history, EntitySlotOf!Inactive, SlotFacts!Inactive,
      EntitySlotOf!Refused, SlotFacts!Refused, EntitySlotOf!Slot, SlotFacts!Slot,
      EntitySlotOf!NoActivation, SlotFacts!NoActivation, EntitySlotOf!Range, SlotFacts!Range
<1>4. \A id, d : EntitySlotOf!Cancel(id, d) <=> SlotFacts!Cancel(id, d)
  BY SameSubmission
  DEF EntitySlotOf!Cancel, SlotFacts!Cancel, EntitySlotOf!Known, SlotFacts!Known,
      EntitySlotOf!history, SlotFacts!history, EntitySlotOf!Range, SlotFacts!Range
<1>5. \A id : EntitySlotOf!ActivationSucceeded(id) <=> SlotFacts!ActivationSucceeded(id)
  BY SameSubmission
  DEF EntitySlotOf!ActivationSucceeded, SlotFacts!ActivationSucceeded,
      EntitySlotOf!StartActivation, SlotFacts!StartActivation
<1>6. \A id : EntitySlotOf!ActivationFailed(id) <=> SlotFacts!ActivationFailed(id)
  BY SameSubmission
  DEF EntitySlotOf!ActivationFailed, SlotFacts!ActivationFailed,
      EntitySlotOf!StartActivation, SlotFacts!StartActivation
<1>7. \A id, d : EntitySlotOf!Delivered(id, d) <=> SlotFacts!Delivered(id, d)
  BY SameSubmission
  DEF EntitySlotOf!Delivered, SlotFacts!Delivered, EntitySlotOf!history, SlotFacts!history,
      EntitySlotOf!Deliver, SlotFacts!Deliver
<1>8. \A id, d : EntitySlotOf!DeliveryFailed(id, d) <=> SlotFacts!DeliveryFailed(id, d)
  BY SameSubmission
  DEF EntitySlotOf!DeliveryFailed, SlotFacts!DeliveryFailed,
      EntitySlotOf!history, SlotFacts!history, EntitySlotOf!Deliver, SlotFacts!Deliver
<1>9. \A id : EntitySlotOf!Passivate(id) <=> SlotFacts!Passivate(id)
  BY SameSubmission
  DEF EntitySlotOf!Passivate, SlotFacts!Passivate, EntitySlotOf!Known, SlotFacts!Known,
      EntitySlotOf!history, SlotFacts!history
<1>10. \A id : EntitySlotOf!FenceAcknowledged(id) <=> SlotFacts!FenceAcknowledged(id)
  BY SameSubmission
  DEF EntitySlotOf!FenceAcknowledged, SlotFacts!FenceAcknowledged,
      EntitySlotOf!EnqueueFence, SlotFacts!EnqueueFence
<1>11. \A id : EntitySlotOf!FenceFailed(id) <=> SlotFacts!FenceFailed(id)
  BY SameSubmission
  DEF EntitySlotOf!FenceFailed, SlotFacts!FenceFailed, EntitySlotOf!history, SlotFacts!history,
      EntitySlotOf!EnqueueFence, SlotFacts!EnqueueFence
<1>12. \A id : EntitySlotOf!ForceRetirement(id) <=> SlotFacts!ForceRetirement(id)
  BY SameSubmission
  DEF EntitySlotOf!ForceRetirement, SlotFacts!ForceRetirement,
      EntitySlotOf!Known, SlotFacts!Known, EntitySlotOf!history, SlotFacts!history
<1>13. \A id, mode : EntitySlotOf!Terminated(id, mode) <=> SlotFacts!Terminated(id, mode)
  BY SameSubmission
  DEF EntitySlotOf!Terminated, SlotFacts!Terminated, EntitySlotOf!Retire, SlotFacts!Retire
<1> QED
  BY <1>1, <1>2, <1>3, <1>4, <1>5, <1>6, <1>7, <1>8, <1>9, <1>10, <1>11, <1>12, <1>13
  DEF EntitySlotOf!Next, SlotFacts!Next, EntitySlotOf!ActivationIds, SlotFacts!ActivationIds

LEMMA ActsAsSlot == Spec /\ [](panics = 0) => SlotFacts!Spec
<1>1. [EntitySlotOf!Next]_(EntitySlotOf!vars) => [SlotFacts!Next]_(SlotFacts!vars)
  BY SameSteps, SameVariables
<1>2. ImplementsEntitySlot => SlotFacts!Spec
  BY <1>1, SameStart, PTL DEF ImplementsEntitySlot, EntitySlotOf!Spec, SlotFacts!Spec
<1> QED BY <1>2, ImplementsSlotUnlessPanicking

(* In a directory whose integration never panics, whatever its calls and   *)
(* tasks interleave with: no command is lost, duplicated or settled twice, *)
(* every lease an activation produced is held, being retired once or       *)
(* terminated, the reservations are the unresolved deliveries, a fence is  *)
(* requested behind all of them and a graceful retirement after it, and    *)
(* waiters stay within the limit and wait for an attempt underway.         *)
THEOREM SlotInvariantsCarryOver ==
  Spec /\ [](panics = 0) =>
    /\ []SlotFacts!CommandCustody
    /\ []SlotFacts!LeaseCustody
    /\ []SlotFacts!ReservationsExact
    /\ []SlotFacts!FenceIsLast
    /\ []SlotFacts!WaitersServed
<1>1. 1 \in Nat \ {0}
  OBVIOUS
<1>2. Spec /\ [](panics = 0) => SlotFacts!Spec
  BY ActsAsSlot
<1>3. SlotFacts!Spec => []SlotFacts!CommandCustody
  BY <1>1, SlotFacts!CommandsInCustody, WaiterLimitAssumption, MaxActivationAssumption, PTL
<1>4. SlotFacts!Spec => []SlotFacts!LeaseCustody
  BY <1>1, SlotFacts!LeasesInCustody, WaiterLimitAssumption, MaxActivationAssumption, PTL
<1>5. SlotFacts!Spec => []SlotFacts!ReservationsExact
  BY <1>1, SlotFacts!ReservationsAreExact, WaiterLimitAssumption, MaxActivationAssumption, PTL
<1>6. SlotFacts!Spec => []SlotFacts!FenceIsLast
  BY <1>1, SlotFacts!FenceFollowsDeliveries, WaiterLimitAssumption, MaxActivationAssumption, PTL
<1>7. SlotFacts!Spec => []SlotFacts!WaitersServed
  BY <1>1, SlotFacts!WaitersAreServed, WaiterLimitAssumption, MaxActivationAssumption, PTL
<1> QED BY <1>2, <1>3, <1>4, <1>5, <1>6, <1>7, PTL

(* In such a directory no activation that began to drain, or is gone, is   *)
(* delivered to again, and the entity lets an activation go only on that   *)
(* activation's own failure or termination, whichever reports are late.    *)
THEOREM SlotStepsCarryOver ==
  Spec /\ [](panics = 0) => SlotFacts!AdmissionNeverReopens /\ SlotFacts!ExactDeparture
<1>1. 1 \in Nat \ {0}
  OBVIOUS
<1>2. Spec /\ [](panics = 0) => SlotFacts!Spec
  BY ActsAsSlot
<1>3. SlotFacts!Spec => SlotFacts!AdmissionNeverReopens
  BY <1>1, SlotFacts!AdmissionStaysClosed, WaiterLimitAssumption, MaxActivationAssumption, PTL
<1>4. SlotFacts!Spec => SlotFacts!ExactDeparture
  BY <1>1, SlotFacts!DepartureIsExact, WaiterLimitAssumption, MaxActivationAssumption, PTL
<1> QED BY <1>2, <1>3, <1>4, PTL
=============================================================================
