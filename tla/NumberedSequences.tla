------------------------- MODULE NumberedSequences -------------------------
(***************************************************************************)
(* A numbered stream split into what was handed over, b, and what is still *)
(* queued, q: facts for the proofs about the executors, whose outputs and  *)
(* turns are numbered in the order of their submission.  A last section is *)
(* about queues whose members give up their place.                         *)
(***************************************************************************)
EXTENDS Naturals, Sequences, SequencesExt, SequenceTheorems, TLAPS

Numbered(n) == [i \in 1 .. n |-> i]

LEMMA NumberedSeq ==
  ASSUME NEW n \in Nat
  PROVE  Numbered(n) \in Seq(Nat) /\ Len(Numbered(n)) = n
BY DEF Numbered

(* Enqueueing the next number extends the numbering.                       *)
LEMMA AppendNumbered ==
  ASSUME NEW n \in Nat, NEW b \in Seq(Nat), NEW q \in Seq(Nat),
         b \o q = Numbered(n)
  PROVE  b \o Append(q, n + 1) = Numbered(n + 1)
<1>1. Append(q, n + 1) = q \o << n + 1 >>
  OBVIOUS
<1>2. b \o Append(q, n + 1) = (b \o q) \o << n + 1 >>
  <2>1. << n + 1 >> \in Seq(Nat)
    OBVIOUS
  <2> QED BY <1>1, <2>1, ConcatAssociative
<1>3. Numbered(n) \o << n + 1 >> = Numbered(n + 1)
  BY DEF Numbered
<1> QED BY <1>2, <1>3

LEMMA ConcatOne ==
  ASSUME NEW h \in Nat, NEW b \in Seq(Nat), NEW q \in Seq(Nat)
  PROVE  (b \o << h >>) \o q = b \o (<< h >> \o q)
<1>1. << h >> \in Seq(Nat)
  OBVIOUS
<1> QED BY <1>1, ConcatAssociative

(* Handing the head of the queue over leaves the stream as it is, and the  *)
(* head is the number after those handed over.                             *)
LEMMA TakeNumbered ==
  ASSUME NEW n \in Nat, NEW b \in Seq(Nat), NEW q \in Seq(Nat), q # << >>,
         b \o q = Numbered(n)
  PROVE  /\ Append(b, Head(q)) \o Tail(q) = Numbered(n)
         /\ Head(q) = Len(b) + 1
         /\ Len(b) < n
<1>1. q = << Head(q) >> \o Tail(q) /\ Head(q) \in Nat /\ Tail(q) \in Seq(Nat)
  OBVIOUS
<1>2. Append(b, Head(q)) = b \o << Head(q) >>
  BY <1>1
<1>3. Append(b, Head(q)) \o Tail(q) = b \o q
  <2>1. (b \o << Head(q) >>) \o Tail(q) = b \o (<< Head(q) >> \o Tail(q))
    BY <1>1, ConcatOne
  <2> QED BY <1>1, <1>2, <2>1
<1>4. (b \o q)[Len(b) + 1] = Head(q) /\ Len(b \o q) = Len(b) + Len(q) /\ Len(q) > 0
  OBVIOUS
<1>5. Len(b) + Len(q) = n
  BY <1>4, NumberedSeq
<1>6. Numbered(n)[Len(b) + 1] = Len(b) + 1
  BY <1>4, <1>5 DEF Numbered
<1> QED BY <1>3, <1>4, <1>5, <1>6

-----------------------------------------------------------------------------
(* A queue that holds each of its members once.                            *)

LEMMA AppendWaiter ==
  ASSUME NEW S, NEW ws \in Seq(S), NEW d \in S,
         IsInjective(ws), d \notin Range(ws)
  PROVE  /\ Append(ws, d) \in Seq(S)
         /\ Len(Append(ws, d)) = Len(ws) + 1
         /\ Range(Append(ws, d)) = Range(ws) \cup {d}
         /\ IsInjective(Append(ws, d))
BY DEF Range, IsInjective

LEMMA SingleWaiter ==
  ASSUME NEW S, NEW d \in S
  PROVE  /\ << d >> \in Seq(S)
         /\ Len(<< d >>) = 1
         /\ Range(<< d >>) = {d}
         /\ IsInjective(<< d >>)
BY DEF Range, IsInjective

LEMMA NoWaiters ==
  ASSUME NEW S
  PROVE  /\ << >> \in Seq(S)
         /\ Len(<< >>) = 0
         /\ Range(<< >>) = {}
         /\ IsInjective(<< >>)
BY DEF Range, IsInjective

(* Withdrawing a member takes exactly it out of a queue, and the others    *)
(* stay, once each.                                                        *)
LEMMA RemoveWaiter ==
  ASSUME NEW S, NEW ws \in Seq(S), NEW d, IsInjective(ws)
  PROVE  /\ RemoveFirst(ws, d) \in Seq(S)
         /\ Len(RemoveFirst(ws, d)) <= Len(ws)
         /\ Range(RemoveFirst(ws, d)) = Range(ws) \ {d}
         /\ IsInjective(RemoveFirst(ws, d))
<1> DEFINE I == {i \in 1 .. Len(ws) : ws[i] = d}
<1>1. CASE I = {}
  <2>1. RemoveFirst(ws, d) = ws
    BY <1>1 DEF RemoveFirst
  <2> QED BY <1>1, <2>1 DEF Range
<1>2. CASE I # {}
  <2>1. PICK k \in 1 .. Len(ws) : ws[k] = d
    BY <1>2
  <2>2. I = {k}
    BY <2>1 DEF IsInjective
  <2>3. Min(I) = k
    BY <2>2 DEF Min
  <2> DEFINE p == SubSeq(ws, 1, k - 1)
             q == SubSeq(ws, k + 1, Len(ws))
  <2>4. SelectInSeq(ws, LAMBDA v : v = d) = k
    BY <1>2, <2>3 DEF SelectInSeq
  <2>5. RemoveFirst(ws, d) = p \o q
    BY <2>1, <2>4 DEF RemoveFirst, RemoveAt
  <2>6. /\ p \in Seq(S) /\ Len(p) = k - 1
        /\ \A i \in 1 .. k - 1 : p[i] = ws[i]
    BY <2>1
  <2>7. /\ q \in Seq(S) /\ Len(q) = Len(ws) - k
        /\ \A i \in 1 .. Len(ws) - k : q[i] = ws[k + i]
    BY <2>1
  <2> HIDE DEF p, q, I
  <2> DEFINE r == p \o q
  <2>8. /\ r \in Seq(S) /\ Len(r) = Len(ws) - 1
        /\ \A i \in 1 .. Len(r) : r[i] = IF i < k THEN ws[i] ELSE ws[i + 1]
    <3>1. /\ r \in Seq(S) /\ Len(r) = Len(p) + Len(q)
          /\ \A i \in 1 .. Len(p) + Len(q) :
               r[i] = IF i <= Len(p) THEN p[i] ELSE q[i - Len(p)]
      BY <2>6, <2>7, ConcatProperties
    <3>2. Len(r) = Len(ws) - 1 /\ Len(ws) \in Nat
      BY <2>1, <2>6, <2>7, <3>1
    <3>3. ASSUME NEW i \in 1 .. Len(r), i < k PROVE r[i] = ws[i]
      BY <2>1, <2>6, <3>1, <3>2, <3>3
    <3>4. ASSUME NEW i \in 1 .. Len(r), ~(i < k) PROVE r[i] = ws[i + 1]
      <4>1. r[i] = q[i - (k - 1)] /\ i - (k - 1) \in 1 .. Len(ws) - k
        BY <2>1, <2>6, <2>7, <3>1, <3>2, <3>4
      <4>2. q[i - (k - 1)] = ws[k + (i - (k - 1))]
        BY <2>7, <4>1
      <4>3. k + (i - (k - 1)) = i + 1
        BY <3>2, <2>1
      <4> QED BY <4>1, <4>2, <4>3
    <3> QED BY <3>1, <3>2, <3>3, <3>4
  <2> HIDE DEF r
  <2>9. Range(r) = Range(ws) \ {d}
    <3>1. ASSUME NEW x \in Range(r) PROVE x \in Range(ws) \ {d}
      BY <2>1, <2>8 DEF Range, IsInjective
    <3>2. ASSUME NEW x \in Range(ws) \ {d} PROVE x \in Range(r)
      <4>1. PICK i \in 1 .. Len(ws) : ws[i] = x
        BY DEF Range
      <4>2. CASE i < k
        BY <2>1, <2>8, <4>1, <4>2 DEF Range
      <4>3. CASE i > k
        <5>1. i - 1 \in 1 .. Len(r) /\ r[i - 1] = ws[i]
          BY <2>1, <2>8, <4>1, <4>3
        <5> QED BY <4>1, <5>1, <2>8 DEF Range
      <4> QED BY <2>1, <4>1, <4>2, <4>3
    <3> QED BY <3>1, <3>2
  <2>10. IsInjective(r)
    <3>1. \A i, j \in 1 .. Len(ws) : ws[i] = ws[j] => i = j
      BY DEF IsInjective
    <3>2. ASSUME NEW i \in 1 .. Len(r)
          PROVE  /\ i \in 1 .. Len(ws) /\ i + 1 \in 1 .. Len(ws)
                 /\ i < k => r[i] = ws[i]
                 /\ i >= k => r[i] = ws[i + 1]
      <4>1. r[i] = IF i < k THEN ws[i] ELSE ws[i + 1]
        BY <2>8
      <4>2. Len(r) = Len(ws) - 1 /\ Len(ws) \in Nat
        BY <2>8
      <4>3. i \in 1 .. Len(ws) /\ i + 1 \in 1 .. Len(ws)
        BY <4>2
      <4>4. k \in Int /\ i \in Int
        BY <2>1
      <4>5. (i < k => r[i] = ws[i]) /\ (i >= k => r[i] = ws[i + 1])
        BY <4>1, <4>4
      <4> QED BY <4>3, <4>5
    <3>3. ASSUME NEW i \in 1 .. Len(r), NEW j \in 1 .. Len(r), r[i] = r[j]
          PROVE  i = j
      <4>2. k \in Int /\ i \in Int /\ j \in Int
        BY <2>1
      <4>3. CASE i < k /\ j < k
        BY <3>1, <3>2, <3>3, <4>3
      <4>4. CASE i >= k /\ j >= k
        <5>1. i + 1 = j + 1
          BY <3>1, <3>2, <3>3, <4>4
        <5> QED BY <4>2, <5>1
      <4>5. CASE i < k /\ j >= k
        <5>1. i = j + 1
          BY <3>1, <3>2, <3>3, <4>5
        <5> QED BY <4>2, <4>5, <5>1
      <4>6. CASE i >= k /\ j < k
        <5>1. i + 1 = j
          BY <3>1, <3>2, <3>3, <4>6
        <5> QED BY <4>2, <4>6, <5>1
      <4> QED BY <4>2, <4>3, <4>4, <4>5, <4>6
    <3>4. DOMAIN r = 1 .. Len(r)
      BY <2>8
    <3> QED BY <3>3, <3>4 DEF IsInjective
  <2> QED BY <2>5, <2>8, <2>9, <2>10 DEF r
<1> QED BY <1>1, <1>2
=============================================================================
