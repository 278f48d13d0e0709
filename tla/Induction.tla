------------------------------- MODULE Induction -------------------------------
(***************************************************************************)
(* Induction and recursion over the natural numbers, stated of sets and    *)
(* functions: what a definition computes that scans a sequence follows     *)
(* from these without an operator for a parameter.  Then the operators on  *)
(* sequences that several modules scan with.                               *)
(***************************************************************************)
EXTENDS Naturals, SequencesExt, Lists, WellFoundedInduction, SequenceTheorems, TLAPS

(* The least of some numbers: the counterexample every induction looks for. *)
LEMMA LeastNumber ==
    ASSUME NEW T \in SUBSET Nat, T # {}
    PROVE  \E n \in T : \A m \in T : n <= m
  <1> DEFINE R == OpToRel(<, Nat)
  <1>1. IsWellFoundedOn(R, Nat)
    BY NatLessThanWellFounded
  <1>2. R = {ss \in Nat \X Nat : ss[1] < ss[2]}
    BY DEF OpToRel
  <1> HIDE DEF R
  <1>3. PICK n \in T : \A m \in T : ~(<<m, n>> \in R)
    BY <1>1, WFMin
  <1>4. \A m \in T : ~(m < n)
    <2>1. \A m \in T : <<m, n>> \in Nat \X Nat
      OBVIOUS
    <2> QED BY <1>2, <1>3, <2>1
  <1> QED BY <1>3, <1>4

(* A set of numbers that has 0 and with each number the next has them all. *)
LEMMA Induction ==
    ASSUME NEW H, 0 \in H, \A n \in Nat : n \in H => n + 1 \in H
    PROVE  Nat \subseteq H
  <1> SUFFICES ASSUME Nat \ H # {} PROVE FALSE
    OBVIOUS
  <1>1. PICK n \in Nat \ H : \A m \in Nat \ H : n <= m
    BY LeastNumber
  <1>2. n # 0 /\ n - 1 \in Nat /\ ~(n <= n - 1)
    BY <1>1
  <1>3. n - 1 \in H
    BY <1>1, <1>2
  <1>4. (n - 1) + 1 = n
    BY <1>2
  <1> QED BY <1>1, <1>2, <1>3, <1>4

(* A function on 0..n can be defined by its first value and a step.  (The set
   of the steps has a name that provers can find an instance by.) *)
StepsOf(n, A) == [(1..n) \X A -> A]
LEMMA Recursion ==
    ASSUME NEW n \in Nat, NEW A, NEW a \in A, NEW step \in StepsOf(n, A)
    PROVE  \E f \in [0..n -> A] : f[0] = a /\ \A i \in 1..n : f[i] = step[<<i, f[i - 1]>>]
  <1>0. \A i \in 1..n, x \in A : step[<<i, x>>] \in A
    <2>1. \A i \in 1..n, x \in A : <<i, x>> \in (1..n) \X A
      OBVIOUS
    <2> QED BY <2>1 DEF StepsOf
  <1> DEFINE Solves(f, m) == f[0] = a /\ \A i \in 1..m : f[i] = step[<<i, f[i - 1]>>]
             H == {m \in Nat : m <= n => \E f \in [0..m -> A] : Solves(f, m)}
  <1>1. 0 \in H
    <2>1. [i \in 0..0 |-> a] \in [0..0 -> A] /\ Solves([i \in 0..0 |-> a], 0)
      OBVIOUS
    <2> QED BY <2>1
  <1>2. ASSUME NEW m \in Nat, m \in H PROVE m + 1 \in H
    <2> SUFFICES ASSUME m + 1 <= n PROVE \E f \in [0..(m + 1) -> A] : Solves(f, m + 1)
      OBVIOUS
    <2>1. PICK f \in [0..m -> A] : Solves(f, m)
      BY <1>2
    <2>2. /\ m \in 0..m /\ f[m] \in A /\ m + 1 \in 1..n
          /\ step[<<m + 1, f[m]>>] \in A
      <3>1. m \in 0..m /\ m + 1 \in 1..n
        OBVIOUS
      <3>2. f[m] \in A
        BY <3>1, <2>1
      <3> QED BY <1>0, <3>1, <3>2
    <2> DEFINE g == [i \in 0..(m + 1) |-> IF i = m + 1 THEN step[<<m + 1, f[m]>>] ELSE f[i]]
    <2>3. g \in [0..(m + 1) -> A]
      <3>1. \A i \in 0..(m + 1) : i # m + 1 => i \in 0..m
        OBVIOUS
      <3> QED BY <2>1, <2>2, <3>1
    <2>4. g[m + 1] = step[<<m + 1, f[m]>>] /\ \A i \in 0..m : g[i] = f[i]
      OBVIOUS
    <2> HIDE DEF g
    <2>5. g[0] = a
      BY <2>1, <2>4
    <2>6. ASSUME NEW i \in 1..(m + 1) PROVE g[i] = step[<<i, g[i - 1]>>]
      <3>1. CASE i = m + 1
        <4>1. i - 1 = m
          BY <3>1
        <4> QED BY <2>4, <3>1, <4>1
      <3>2. CASE i # m + 1
        <4>1. i \in 1..m /\ i \in 0..m /\ i - 1 \in 0..m
          BY <3>2
        <4> QED BY <2>1, <2>4, <4>1
      <3> QED BY <3>1, <3>2
    <2> QED BY <2>3, <2>5, <2>6
  <1> HIDE DEF H
  <1>3. n \in H
    BY <1>1, <1>2, Induction
  <1> QED BY <1>3 DEF H

(* The same of the set of the functions so defined, again by a name. *)
SolutionsOf(n, A, a, step) ==
    {f \in [0..n -> A] : f[0] = a /\ \A i \in 1..n : f[i] = step[<<i, f[i - 1]>>]}
LEMMA Solvable ==
    ASSUME NEW n \in Nat, NEW A, NEW a \in A, NEW step \in StepsOf(n, A)
    PROVE  SolutionsOf(n, A, a, step) # {}
  <1>1. PICK f \in [0..n -> A] : f[0] = a /\ \A i \in 1..n : f[i] = step[<<i, f[i - 1]>>]
    BY Recursion
  <1> QED BY <1>1 DEF SolutionsOf

------------------------------------------------------------------------------
(* FlattenSeq joins the sequences of a sequence one after the other. *)
LEMMA FlattenSteps ==
    ASSUME NEW S, NEW s \in Seq(Seq(S))
    PROVE  \E f \in [0..Len(s) -> Seq(S)] :
              /\ f[0] = <<>> /\ f[Len(s)] = FlattenSeq(s)
              /\ \A i \in 1..Len(s) : f[i] = f[i - 1] \o s[i]
  <1> DEFINE n == Len(s)
             A == Seq(S)
             step == [x \in (1..n) \X A |-> x[2] \o s[x[1]]]
  <1>1. n \in Nat /\ <<>> \in A /\ \A i \in 1..n : s[i] \in A
    OBVIOUS
  <1>2. \A b, c \in A : b \o c \in A
    OBVIOUS
  <1>4. \A i \in 1..n, b \in A : step[<<i, b>>] = b \o s[i]
    <2>1. \A i \in 1..n, b \in A : <<i, b>> \in (1..n) \X A
      OBVIOUS
    <2> QED BY <2>1
  <1>3. step \in StepsOf(n, A)
    BY <1>1, <1>2 DEF StepsOf
  <1> HIDE DEF step
  <1>5. PICK f \in [0..n -> A] : f[0] = <<>> /\ \A i \in 1..n : f[i] = step[<<i, f[i - 1]>>]
    <2> DEFINE none == <<>>
    <2>1. n \in Nat /\ none \in A
      BY <1>1
    <2> HIDE DEF n, A, none
    <2>2. \E f \in [0..n -> A] : f[0] = none /\ \A i \in 1..n : f[i] = step[<<i, f[i - 1]>>]
      BY <1>3, <2>1, Recursion
    <2> QED BY <2>2 DEF none
  <1>6. \A i \in 1..n : i - 1 \in 0..n
    BY <1>1
  <1>7. \A i \in 1..n : f[i] = f[i - 1] \o s[i]
    BY <1>4, <1>5, <1>6
  <1>8. CASE n = 0
    <2>1. FlattenSeq(s) = <<>>
      BY <1>8 DEF FlattenSeq
    <2> QED BY <1>5, <1>7, <1>8, <2>1
  <1>9. CASE n # 0
    <2> DEFINE g == CHOOSE h : h = [i \in 1..Len(s) |-> IF i = 1 THEN s[i] ELSE h[i - 1] \o s[i]]
               c == [i \in 1..Len(s) |-> f[i]]
    <2>1. c = [i \in 1..Len(s) |-> IF i = 1 THEN s[i] ELSE c[i - 1] \o s[i]]
      <3>1. \A i \in 1..n : i # 1 => i - 1 \in 1..n
        BY <1>1
      <3>2. \A i \in 1..n : f[i] = IF i = 1 THEN s[i] ELSE c[i - 1] \o s[i]
        <4> SUFFICES ASSUME NEW i \in 1..n PROVE f[i] = IF i = 1 THEN s[i] ELSE c[i - 1] \o s[i]
          OBVIOUS
        <4>1. CASE i = 1
          <5>1. i - 1 = 0 /\ s[i] \in A
            BY <1>1, <4>1
          <5>2. f[i] = <<>> \o s[i]
            BY <1>5, <1>7, <5>1
          <5>3. \A b \in A : <<>> \o b = b
            OBVIOUS
          <5> QED BY <4>1, <5>1, <5>2, <5>3
        <4>2. CASE i # 1
          <5>1. c[i - 1] = f[i - 1]
            BY <3>1, <4>2
          <5> QED BY <1>7, <4>2, <5>1
        <4> QED BY <4>1, <4>2
      <3> QED BY <3>2
    <2> HIDE DEF c
    <2>2. g = [i \in 1..Len(s) |-> IF i = 1 THEN s[i] ELSE g[i - 1] \o s[i]]
      BY <2>1
    <2>3. FlattenSeq(s) = g[Len(s)]
      BY <1>9 DEF FlattenSeq
    <2> HIDE DEF g
    <2> DEFINE H == {k \in Nat : k \in 1..n => g[k] = f[k]}
    <2>4. 0 \in H
      OBVIOUS
    <2>5. ASSUME NEW k \in Nat, k \in H PROVE k + 1 \in H
      <3> SUFFICES ASSUME k + 1 \in 1..n PROVE g[k + 1] = f[k + 1]
        OBVIOUS
      <3>1. g[k + 1] = IF k + 1 = 1 THEN s[k + 1] ELSE g[(k + 1) - 1] \o s[k + 1]
        BY <2>2
      <3>2. (k + 1) - 1 = k
        OBVIOUS
      <3>3. f[k + 1] = f[k] \o s[k + 1]
        BY <1>7, <3>2
      <3>4. CASE k = 0
        <4>1. s[k + 1] \in A
          BY <1>1
        <4>2. \A b \in A : <<>> \o b = b
          OBVIOUS
        <4>3. f[k] = <<>> /\ k + 1 = 1
          BY <1>5, <3>4
        <4>4. g[k + 1] = s[k + 1]
          BY <3>1, <4>3
        <4> QED BY <3>3, <4>1, <4>2, <4>3, <4>4
      <3>5. CASE k # 0
        <4>1. k \in 1..n /\ k + 1 # 1
          BY <1>1, <3>5
        <4> QED BY <2>5, <3>1, <3>2, <3>3, <4>1
      <3> QED BY <3>4, <3>5
    <2> HIDE DEF H
    <2>6. n \in H
      BY <1>1, <2>4, <2>5, Induction
    <2>7. g[n] = f[n]
      BY <1>1, <1>9, <2>6 DEF H
    <2> QED BY <1>5, <1>7, <2>3, <2>7
  <1> QED BY <1>8, <1>9

LEMMA FlattenType ==
    ASSUME NEW S, NEW s \in Seq(Seq(S))
    PROVE  FlattenSeq(s) \in Seq(S)
  <1>1. PICK f \in [0..Len(s) -> Seq(S)] : f[Len(s)] = FlattenSeq(s)
    BY FlattenSteps
  <1>2. Len(s) \in 0..Len(s)
    OBVIOUS
  <1> QED BY <1>1, <1>2

LEMMA FlattenAppend ==
    ASSUME NEW S, NEW s \in Seq(Seq(S)), NEW e \in Seq(S)
    PROVE  FlattenSeq(Append(s, e)) = FlattenSeq(s) \o e
  <1> DEFINE t == Append(s, e)
  <1>1. t \in Seq(Seq(S)) /\ Len(t) = Len(s) + 1 /\ t[Len(s) + 1] = e
        /\ \A i \in 1..Len(s) : t[i] = s[i]
    OBVIOUS
  <1> HIDE DEF t
  <1>2. PICK f \in [0..Len(s) -> Seq(S)] :
              /\ f[0] = <<>> /\ f[Len(s)] = FlattenSeq(s)
              /\ \A i \in 1..Len(s) : f[i] = f[i - 1] \o s[i]
    BY FlattenSteps
  <1>3. PICK g \in [0..Len(t) -> Seq(S)] :
              /\ g[0] = <<>> /\ g[Len(t)] = FlattenSeq(t)
              /\ \A i \in 1..Len(t) : g[i] = g[i - 1] \o t[i]
    BY <1>1, FlattenSteps
  <1> DEFINE H == {k \in Nat : k \in 0..Len(s) => g[k] = f[k]}
  <1>4. 0 \in H
    BY <1>2, <1>3
  <1>5. ASSUME NEW k \in Nat, k \in H PROVE k + 1 \in H
    <2> SUFFICES ASSUME k + 1 \in 0..Len(s) PROVE g[k + 1] = f[k + 1]
      OBVIOUS
    <2>1. k \in 0..Len(s) /\ k + 1 \in 1..Len(s) /\ k + 1 \in 1..Len(t) /\ (k + 1) - 1 = k
      BY <1>1
    <2>2. g[k + 1] = g[k] \o t[k + 1] /\ f[k + 1] = f[k] \o s[k + 1]
      BY <1>2, <1>3, <2>1
    <2> QED BY <1>1, <1>5, <2>1, <2>2
  <1> HIDE DEF H
  <1>6. Len(s) \in H
    <2>1. Len(s) \in Nat
      OBVIOUS
    <2> QED BY <1>4, <1>5, <2>1, Induction
  <1>7. g[Len(s)] = f[Len(s)]
    <2>1. Len(s) \in Nat /\ Len(s) \in 0..Len(s)
      OBVIOUS
    <2> QED BY <1>6, <2>1 DEF H
  <1>8. Len(t) \in 1..Len(t) /\ Len(t) - 1 = Len(s)
    BY <1>1
  <1>9. g[Len(t)] = g[Len(s)] \o t[Len(t)]
    BY <1>3, <1>8
  <1> QED BY <1>1, <1>2, <1>3, <1>7, <1>9 DEF t

(* ... also those of two sequences. *)
LEMMA FlattenConcat ==
    ASSUME NEW S, NEW s \in Seq(Seq(S)), NEW t \in Seq(Seq(S))
    PROVE  FlattenSeq(s \o t) = FlattenSeq(s) \o FlattenSeq(t)
  <1> DEFINE H == {k \in Nat : k \in 0..Len(t) =>
                      FlattenSeq(s \o SubSeq(t, 1, k)) = FlattenSeq(s) \o FlattenSeq(SubSeq(t, 1, k))}
  <1>1. 0 \in H
    <2>1. SubSeq(t, 1, 0) = <<>> /\ s \o <<>> = s
      OBVIOUS
    <2>2. FlattenSeq(<<>>) = <<>>
      <3>1. Len(<<>>) = 0
        OBVIOUS
      <3> QED BY <3>1 DEF FlattenSeq
    <2>3. FlattenSeq(s) \in Seq(S)
      BY FlattenType
    <2>4. \A b \in Seq(S) : b \o <<>> = b
      OBVIOUS
    <2> QED BY <2>1, <2>2, <2>3, <2>4
  <1>2. ASSUME NEW k \in Nat, k \in H PROVE k + 1 \in H
    <2> SUFFICES ASSUME k + 1 \in 0..Len(t)
                 PROVE  FlattenSeq(s \o SubSeq(t, 1, k + 1)) = FlattenSeq(s) \o FlattenSeq(SubSeq(t, 1, k + 1))
      OBVIOUS
    <2> DEFINE front == SubSeq(t, 1, k)
    <2>1. k \in 0..Len(t) /\ k + 1 \in 1..Len(t) /\ t[k + 1] \in Seq(S) /\ front \in Seq(Seq(S))
      OBVIOUS
    <2>2. SubSeq(t, 1, k + 1) = Append(front, t[k + 1])
      OBVIOUS
    <2> HIDE DEF front
    <2>3. s \o Append(front, t[k + 1]) = Append(s \o front, t[k + 1]) /\ s \o front \in Seq(Seq(S))
      BY <2>1
    <2>4. FlattenSeq(Append(s \o front, t[k + 1])) = FlattenSeq(s \o front) \o t[k + 1]
      BY <2>1, <2>3, FlattenAppend
    <2>5. FlattenSeq(Append(front, t[k + 1])) = FlattenSeq(front) \o t[k + 1]
      BY <2>1, FlattenAppend
    <2>6. FlattenSeq(s \o front) = FlattenSeq(s) \o FlattenSeq(front)
      BY <1>2, <2>1 DEF front
    <2>7. FlattenSeq(s) \in Seq(S) /\ FlattenSeq(front) \in Seq(S)
      BY <2>1, FlattenType
    <2>8. \A b, c, d \in Seq(S) : (b \o c) \o d = b \o (c \o d)
      OBVIOUS
    <2>9. FlattenSeq(s \o SubSeq(t, 1, k + 1)) = (FlattenSeq(s) \o FlattenSeq(front)) \o t[k + 1]
      BY <2>2, <2>3, <2>4, <2>6
    <2>10. @ = FlattenSeq(s) \o (FlattenSeq(front) \o t[k + 1])
      BY <2>1, <2>7, <2>8
    <2> QED BY <2>2, <2>5, <2>9, <2>10
  <1> HIDE DEF H
  <1>3. Len(t) \in H
    <2>1. Len(t) \in Nat
      OBVIOUS
    <2> QED BY <1>1, <1>2, <2>1, Induction
  <1>4. SubSeq(t, 1, Len(t)) = t /\ Len(t) \in Nat /\ Len(t) \in 0..Len(t)
    OBVIOUS
  <1> QED BY <1>3, <1>4 DEF H

------------------------------------------------------------------------------
(* Sequences given element by element. *)
LEMMA SequenceOf ==
    ASSUME NEW S, NEW n \in Nat, NEW f \in [1..n -> S]
    PROVE  f \in Seq(S) /\ Len(f) = n
  OBVIOUS

LEMMA ConcatPointwise ==
    ASSUME NEW S, NEW a \in Seq(S), NEW b \in Seq(S), NEW c \in Seq(S),
           Len(c) = Len(a) + Len(b),
           \A i \in 1..Len(a) : c[i] = a[i],
           \A i \in 1..Len(b) : c[Len(a) + i] = b[i]
    PROVE  c = a \o b
  <1> DEFINE d == a \o b
  <1>1. /\ d \in Seq(S) /\ Len(d) = Len(a) + Len(b)
        /\ \A i \in 1..Len(a) + Len(b) : d[i] = IF i <= Len(a) THEN a[i] ELSE b[i - Len(a)]
    BY ConcatProperties
  <1> HIDE DEF d
  <1>2. Len(a) \in Nat /\ Len(b) \in Nat
    OBVIOUS
  <1>3. ASSUME NEW i \in 1..Len(c) PROVE c[i] = d[i]
    <2>1. CASE i <= Len(a)
      <3>1. i \in 1..Len(a) /\ i \in 1..Len(a) + Len(b)
        BY <1>2, <2>1
      <3> QED BY <1>1, <2>1, <3>1
    <2>2. CASE ~(i <= Len(a))
      <3>1. i - Len(a) \in 1..Len(b) /\ i \in 1..Len(a) + Len(b) /\ Len(a) + (i - Len(a)) = i
        BY <1>2, <2>2
      <3> QED BY <1>1, <2>2, <3>1
    <2> QED BY <2>1, <2>2
  <1> QED BY <1>1, <1>3, SeqEqual DEF d

(* A part of a sequence. *)
LEMMA PartOfSeq ==
    ASSUME NEW S, NEW s \in Seq(S), NEW m \in 1..Len(s) + 1, NEW n \in (m - 1)..Len(s)
    PROVE  /\ SubSeq(s, m, n) \in Seq(S) /\ Len(SubSeq(s, m, n)) = n - m + 1
           /\ \A i \in 1..(n - m + 1) : SubSeq(s, m, n)[i] = s[m + i - 1] /\ m + i - 1 \in m..n
  <1>1. m \in Int /\ n \in Int /\ Len(s) \in Nat
    OBVIOUS
  <1>2. \A i \in m..n : i \in 1..Len(s) /\ s[i] \in S
    BY <1>1
  <1>3. /\ SubSeq(s, m, n) \in Seq(S)
        /\ Len(SubSeq(s, m, n)) = IF m <= n THEN n - m + 1 ELSE 0
        /\ \A i \in 1..n - m + 1 : SubSeq(s, m, n)[i] = s[m + i - 1]
    BY <1>1, <1>2, SubSeqProperties
  <1>4. \A i \in 1..(n - m + 1) : m + i - 1 \in m..n
    BY <1>1
  <1> QED BY <1>1, <1>3, <1>4

(* Kept goes over a sequence once: what it has after each element. *)
KeptRun(s, G) ==
    CHOOSE h : h = [i \in 0..Len(s) |->
                       IF i = 0 THEN <<>>
                       ELSE IF s[i] \in G THEN Append(h[i - 1], s[i])
                       ELSE h[i - 1]]

LEMMA KeptSteps ==
    ASSUME NEW S, NEW s \in Seq(S), NEW G
    PROVE  /\ KeptRun(s, G) \in [0..Len(s) -> Seq(S)]
           /\ KeptRun(s, G)[0] = <<>> /\ Kept(s, G) = KeptRun(s, G)[Len(s)]
           /\ \A i \in 1..Len(s) :
                 KeptRun(s, G)[i] = IF s[i] \in G THEN Append(KeptRun(s, G)[i - 1], s[i])
                                    ELSE KeptRun(s, G)[i - 1]
  <1> DEFINE n == Len(s)
             A == Seq(S)
             pass == [x \in (1..n) \X A |-> IF s[x[1]] \in G THEN Append(x[2], s[x[1]]) ELSE x[2]]
             next(i, b) == IF s[i] \in G THEN Append(b, s[i]) ELSE b
  <1>1. n \in Nat /\ <<>> \in A /\ \A i \in 1..n : s[i] \in S
    OBVIOUS
  <1>2. \A i \in 1..n, b \in A : next(i, b) \in A
    BY <1>1
  <1>3. \A i \in 1..n, b \in A : pass[<<i, b>>] = next(i, b)
    <2>1. \A i \in 1..n, b \in A : <<i, b>> \in (1..n) \X A
      OBVIOUS
    <2> QED BY <2>1
  <1>4. pass \in StepsOf(n, A)
    <2>1. \A x \in (1..n) \X A : x[1] \in 1..n /\ x[2] \in A
      OBVIOUS
    <2> QED BY <1>2, <2>1 DEF StepsOf
  <1> HIDE DEF pass
  <1>5. PICK f \in [0..n -> A] : f[0] = <<>> /\ \A i \in 1..n : f[i] = pass[<<i, f[i - 1]>>]
    <2> DEFINE none == <<>>
    <2>1. n \in Nat /\ none \in A
      BY <1>1
    <2> HIDE DEF n, A, none
    <2>2. SolutionsOf(n, A, none, pass) # {}
      BY <1>4, <2>1, Solvable
    <2>3. PICK f \in SolutionsOf(n, A, none, pass) : TRUE
      BY <2>2
    <2> QED BY <2>3 DEF SolutionsOf, none
  <1>6. \A i \in 1..n : i - 1 \in 0..n
    BY <1>1
  <1>7. \A i \in 1..n : f[i] = next(i, f[i - 1])
    <2> HIDE DEF next
    <2> QED BY <1>3, <1>5, <1>6
  <1> DEFINE g == KeptRun(s, G)
  <1>8. f = [i \in 0..Len(s) |->
                     IF i = 0 THEN <<>>
                     ELSE IF s[i] \in G THEN Append(f[i - 1], s[i])
                     ELSE f[i - 1]]
    <2>1. \A i \in 0..n : i # 0 => i \in 1..n
      BY <1>1
    <2>2. \A i \in 0..n : f[i] = IF i = 0 THEN <<>>
                                 ELSE IF s[i] \in G THEN Append(f[i - 1], s[i])
                                 ELSE f[i - 1]
      BY <1>5, <1>7, <2>1
    <2> QED BY <1>5, <2>2
  <1>9. g = [i \in 0..Len(s) |->
                     IF i = 0 THEN <<>>
                     ELSE IF s[i] \in G THEN Append(g[i - 1], s[i])
                     ELSE g[i - 1]]
    BY <1>8 DEF KeptRun
  <1>10. Kept(s, G) = g[Len(s)]
    BY DEF Kept, KeptRun
  <1> HIDE DEF g
  <1> DEFINE H == {k \in Nat : k \in 0..n => g[k] = f[k]}
  <1>11. 0 \in H
    BY <1>1, <1>5, <1>9
  <1>12. ASSUME NEW k \in Nat, k \in H PROVE k + 1 \in H
    <2> SUFFICES ASSUME k + 1 \in 0..n PROVE g[k + 1] = f[k + 1]
      OBVIOUS
    <2>1. k \in 0..n /\ k + 1 \in 1..n /\ (k + 1) - 1 = k /\ k + 1 # 0
      BY <1>1
    <2>2. g[k + 1] = IF s[k + 1] \in G THEN Append(g[k], s[k + 1]) ELSE g[k]
      BY <1>9, <2>1
    <2> QED BY <1>7, <1>12, <2>1, <2>2
  <1> HIDE DEF H
  <1>13. n \in H
    BY <1>1, <1>11, <1>12, Induction
  <1>14. H = Nat
    BY <1>11, <1>12, Induction DEF H
  <1>15. \A k \in 0..n : g[k] = f[k]
    BY <1>1, <1>14 DEF H
  <1>16. g = f
    BY <1>5, <1>9, <1>15
  <1> QED BY <1>5, <1>7, <1>10, <1>16 DEF g

LEMMA KeptType ==
    ASSUME NEW S, NEW s \in Seq(S), NEW G
    PROVE  Kept(s, G) \in Seq(S)
  <1>1. KeptRun(s, G) \in [0..Len(s) -> Seq(S)] /\ Kept(s, G) = KeptRun(s, G)[Len(s)]
    BY KeptSteps
  <1>2. Len(s) \in 0..Len(s)
    OBVIOUS
  <1> QED BY <1>1, <1>2

(* One more element is kept or not. *)
LEMMA KeptAppend ==
    ASSUME NEW S, NEW s \in Seq(S), NEW e \in S, NEW G
    PROVE  Kept(Append(s, e), G) = IF e \in G THEN Append(Kept(s, G), e) ELSE Kept(s, G)
  <1> DEFINE t == Append(s, e)
  <1>1. t \in Seq(S) /\ Len(t) = Len(s) + 1 /\ t[Len(s) + 1] = e
        /\ \A i \in 1..Len(s) : t[i] = s[i]
    OBVIOUS
  <1> HIDE DEF t
  <1> DEFINE f == KeptRun(s, G)
  <1>2. /\ f \in [0..Len(s) -> Seq(S)] /\ f[0] = <<>> /\ f[Len(s)] = Kept(s, G)
        /\ \A i \in 1..Len(s) :
              f[i] = IF s[i] \in G THEN Append(f[i - 1], s[i]) ELSE f[i - 1]
    BY KeptSteps
  <1> HIDE DEF f
  <1> DEFINE g == KeptRun(t, G)
  <1>3. /\ g \in [0..Len(t) -> Seq(S)] /\ g[0] = <<>> /\ g[Len(t)] = Kept(t, G)
        /\ \A i \in 1..Len(t) :
              g[i] = IF t[i] \in G THEN Append(g[i - 1], t[i]) ELSE g[i - 1]
    BY <1>1, KeptSteps
  <1> HIDE DEF g
  <1> DEFINE H == {k \in Nat : k \in 0..Len(s) => g[k] = f[k]}
  <1>4. 0 \in H
    BY <1>2, <1>3
  <1>5. ASSUME NEW k \in Nat, k \in H PROVE k + 1 \in H
    <2> SUFFICES ASSUME k + 1 \in 0..Len(s) PROVE g[k + 1] = f[k + 1]
      OBVIOUS
    <2>1. k \in 0..Len(s) /\ k + 1 \in 1..Len(s) /\ k + 1 \in 1..Len(t) /\ (k + 1) - 1 = k
      BY <1>1
    <2>2. /\ f[k + 1] = IF s[k + 1] \in G THEN Append(f[k], s[k + 1]) ELSE f[k]
          /\ g[k + 1] = IF t[k + 1] \in G THEN Append(g[k], t[k + 1]) ELSE g[k]
      BY <1>2, <1>3, <2>1
    <2> QED BY <1>1, <1>5, <2>1, <2>2
  <1> HIDE DEF H
  <1>6. Len(s) \in H
    <2>1. Len(s) \in Nat
      OBVIOUS
    <2> QED BY <1>4, <1>5, <2>1, Induction
  <1>7. g[Len(s)] = f[Len(s)]
    <2>1. Len(s) \in Nat /\ Len(s) \in 0..Len(s)
      OBVIOUS
    <2> QED BY <1>6, <2>1 DEF H
  <1>8. Len(t) \in 1..Len(t) /\ Len(t) - 1 = Len(s)
    BY <1>1
  <1>9. g[Len(t)] = IF e \in G THEN Append(g[Len(s)], e) ELSE g[Len(s)]
    BY <1>1, <1>3, <1>8
  <1> QED BY <1>2, <1>3, <1>7, <1>9 DEF t

LEMMA KeptEmpty == ASSUME NEW G PROVE Kept(<<>>, G) = <<>>
  <1>1. ASSUME NEW S, NEW s \in Seq(S), Len(s) = 0 PROVE Kept(s, G) = <<>>
    <2>1. KeptRun(s, G)[0] = <<>> /\ Kept(s, G) = KeptRun(s, G)[Len(s)]
      BY KeptSteps
    <2> QED BY <1>1, <2>1
  <1>2. \A S : <<>> \in Seq(S) /\ Len(<<>>) = 0
    OBVIOUS
  <1> QED BY <1>1, <1>2

------------------------------------------------------------------------------
(* What the other scans have after one more element. *)
Pieces(S) == Seq(Seq(S)) \ {<<>>}
Cut(before, e, mark) ==
    IF e = mark THEN Append(before, <<>>)
    ELSE [before EXCEPT ![Len(before)] = Append(@, e)]
Worth(before, d) == before * 10 + (d - 48)
Digit == 48..57

LEMMA CutType ==
    ASSUME NEW S, NEW b \in Pieces(S), NEW e \in S, NEW mark
    PROVE  Cut(b, e, mark) \in Pieces(S)
  <1>1. b \in Seq(Seq(S)) /\ b # <<>>
    BY DEF Pieces
  <1>2. Len(b) \in 1..Len(b)
    BY <1>1
  <1>3. b[Len(b)] \in Seq(S)
    BY <1>1, <1>2
  <1>4. CASE e = mark
    <2>1. <<>> \in Seq(S)
      OBVIOUS
    <2>2. Append(b, <<>>) \in Seq(Seq(S)) /\ Append(b, <<>>) # <<>>
      BY <1>1, <2>1
    <2> QED BY <1>4, <2>2 DEF Cut, Pieces
  <1>5. CASE e # mark
    <2> DEFINE x == Append(b[Len(b)], e)
               c == [b EXCEPT ![Len(b)] = x]
    <2>1. x \in Seq(S)
      BY <1>3
    <2> HIDE DEF x
    <2>2. c \in Seq(Seq(S)) /\ Len(c) = Len(b)
      BY <1>1, <1>2, <2>1
    <2>3. c # <<>>
      BY <1>1, <2>2
    <2>4. Cut(b, e, mark) = c
      BY <1>5 DEF Cut, x
    <2> QED BY <2>2, <2>3, <2>4 DEF Pieces
  <1> QED BY <1>4, <1>5

LEMMA NoPieces == \A S : <<<<>>>> \in Pieces(S)
  <1> TAKE S
  <1>1. <<>> \in Seq(S)
    OBVIOUS
  <1>2. <<<<>>>> \in Seq(Seq(S)) /\ <<<<>>>> # <<>>
    BY <1>1
  <1> QED BY <1>2 DEF Pieces

LEMMA WorthType == \A b \in Nat, d \in Digit : Worth(b, d) \in Nat
  BY DEF Worth, Digit

(* Split: the pieces after each element. *)
SplitRun(s, m) ==
    CHOOSE h : h = [i \in 0..Len(s) |->
          IF i = 0 THEN <<<<>>>>
          ELSE LET before == h[i - 1]
               IN IF s[i] = m THEN Append(before, <<>>)
                  ELSE [before EXCEPT ![Len(before)] = Append(@, s[i])]]

LEMMA SplitSteps ==
    ASSUME NEW S, NEW s \in Seq(S), NEW m
    PROVE  /\ SplitRun(s, m) \in [0..Len(s) -> Pieces(S)]
           /\ SplitRun(s, m)[0] = <<<<>>>> /\ Split(s, m) = SplitRun(s, m)[Len(s)]
           /\ \A i \in 1..Len(s) : SplitRun(s, m)[i] = Cut(SplitRun(s, m)[i - 1], s[i], m)
  <1> DEFINE n == Len(s)
             A == Pieces(S)
             pass == [x \in (1..n) \X A |-> Cut(x[2], s[x[1]], m)]
             next(i, b) == Cut(b, s[i], m)
  <1>1. n \in Nat /\ <<<<>>>> \in A /\ \A i \in 1..n : s[i] \in S
    BY NoPieces
  <1>2. \A i \in 1..n, b \in A : next(i, b) \in A
    BY <1>1, CutType
  <1>3. \A i \in 1..n, b \in A : pass[<<i, b>>] = next(i, b)
    <2>1. \A i \in 1..n, b \in A : <<i, b>> \in (1..n) \X A
      OBVIOUS
    <2> QED BY <2>1
  <1>4. pass \in StepsOf(n, A)
    <2>1. \A x \in (1..n) \X A : x[1] \in 1..n /\ x[2] \in A
      OBVIOUS
    <2> QED BY <1>2, <2>1 DEF StepsOf
  <1> HIDE DEF pass
  <1>5. PICK f \in [0..n -> A] : f[0] = <<<<>>>> /\ \A i \in 1..n : f[i] = pass[<<i, f[i - 1]>>]
    <2> DEFINE start == <<<<>>>>
    <2>1. n \in Nat /\ start \in A
      BY <1>1
    <2> HIDE DEF n, A, start
    <2>2. SolutionsOf(n, A, start, pass) # {}
      BY <1>4, <2>1, Solvable
    <2>3. PICK f \in SolutionsOf(n, A, start, pass) : TRUE
      BY <2>2
    <2> QED BY <2>3 DEF SolutionsOf, start
  <1>6. \A i \in 1..n : i - 1 \in 0..n
    BY <1>1
  <1>7. \A i \in 1..n : f[i] = next(i, f[i - 1])
    <2> HIDE DEF next
    <2> QED BY <1>3, <1>5, <1>6
  <1> DEFINE g == SplitRun(s, m)
  <1>8. f = [i \in 0..Len(s) |->
          IF i = 0 THEN <<<<>>>>
          ELSE LET before == f[i - 1]
               IN IF s[i] = m THEN Append(before, <<>>)
                  ELSE [before EXCEPT ![Len(before)] = Append(@, s[i])]]
    <2>1. \A i \in 0..n : i # 0 => i \in 1..n
      BY <1>1
    <2>2. \A i \in 0..n : f[i] = IF i = 0 THEN <<<<>>>> ELSE next(i, f[i - 1])
      <3> HIDE DEF next
      <3> QED BY <1>5, <1>7, <2>1
    <2> HIDE DEF n, A
    <2>3. f = [i \in 0..n |-> f[i]]
      BY <1>5
    <2>4. f = [i \in 0..n |-> IF i = 0 THEN <<<<>>>> ELSE next(i, f[i - 1])]
      BY <2>2, <2>3
    <2> QED BY <2>4 DEF n, Cut
  <1>9. g = [i \in 0..Len(s) |->
          IF i = 0 THEN <<<<>>>>
          ELSE LET before == g[i - 1]
               IN IF s[i] = m THEN Append(before, <<>>)
                  ELSE [before EXCEPT ![Len(before)] = Append(@, s[i])]]
    BY <1>8 DEF SplitRun
  <1>10. Split(s, m) = g[Len(s)]
    BY DEF Split, SplitRun
  <1> HIDE DEF g
  <1>11. /\ g[0] = <<<<>>>>
         /\ \A i \in 1..n : g[i] = next(i, g[i - 1])
    <2>1. 0 \in 0..n /\ \A i \in 1..n : i \in 0..n /\ i # 0
      BY <1>1
    <2> QED BY <1>9, <2>1 DEF Cut
  <1> DEFINE H == {k \in Nat : k \in 0..n => g[k] = f[k]}
  <1>12. 0 \in H
    BY <1>1, <1>5, <1>11
  <1>13. ASSUME NEW k \in Nat, k \in H PROVE k + 1 \in H
    <2> SUFFICES ASSUME k + 1 \in 0..n PROVE g[k + 1] = f[k + 1]
      OBVIOUS
    <2>1. k \in 0..n /\ k + 1 \in 1..n /\ (k + 1) - 1 = k
      BY <1>1
    <2>2. g[k] = f[k]
      BY <1>13, <2>1
    <2> HIDE DEF next
    <2> QED BY <1>7, <1>11, <2>1, <2>2
  <1> HIDE DEF H
  <1>14. H = Nat
    BY <1>12, <1>13, Induction DEF H
  <1>15. \A k \in 0..n : g[k] = f[k]
    BY <1>1, <1>14 DEF H
  <1>16. g = f
    BY <1>5, <1>9, <1>15
  <1>17. n \in 0..n
    BY <1>1
  <1> QED BY <1>5, <1>7, <1>10, <1>16, <1>17 DEF g

LEMMA SplitAppend ==
    ASSUME NEW S, NEW s \in Seq(S), NEW m, NEW e \in S
    PROVE  /\ Split(s, m) \in Pieces(S)
           /\ Split(Append(s, e), m) = Cut(Split(s, m), e, m)
  <1> DEFINE t == Append(s, e)
  <1>1. t \in Seq(S) /\ Len(t) = Len(s) + 1 /\ t[Len(s) + 1] = e
        /\ \A i \in 1..Len(s) : t[i] = s[i]
    OBVIOUS
  <1>10. Len(s) \in Nat /\ Len(s) \in 0..Len(s)
    OBVIOUS
  <1> HIDE DEF t
  <1> DEFINE f == SplitRun(s, m)
  <1>2. /\ f \in [0..Len(s) -> Pieces(S)] /\ f[0] = <<<<>>>> /\ f[Len(s)] = Split(s, m)
        /\ \A i \in 1..Len(s) : f[i] = Cut(f[i - 1], s[i], m)
    BY SplitSteps
  <1> HIDE DEF f
  <1> DEFINE g == SplitRun(t, m)
  <1>3. /\ g \in [0..Len(t) -> Pieces(S)] /\ g[0] = <<<<>>>> /\ g[Len(t)] = Split(t, m)
        /\ \A i \in 1..Len(t) : g[i] = Cut(g[i - 1], t[i], m)
    BY <1>1, SplitSteps
  <1> HIDE DEF g
  <1> DEFINE H == {k \in Nat : k \in 0..Len(s) => g[k] = f[k]}
  <1>4. 0 \in H
    BY <1>2, <1>3
  <1>5. ASSUME NEW k \in Nat, k \in H PROVE k + 1 \in H
    <2> SUFFICES ASSUME k + 1 \in 0..Len(s) PROVE g[k + 1] = f[k + 1]
      OBVIOUS
    <2>1. k \in 0..Len(s) /\ k + 1 \in 1..Len(s) /\ k + 1 \in 1..Len(t) /\ (k + 1) - 1 = k
      BY <1>1, <1>10
    <2>2. f[k + 1] = Cut(f[k], s[k + 1], m) /\ g[k + 1] = Cut(g[k], t[k + 1], m)
      BY <1>2, <1>3, <2>1
    <2> QED BY <1>1, <1>5, <2>1, <2>2
  <1> HIDE DEF H
  <1>6. Len(s) \in H
    BY <1>4, <1>5, <1>10, Induction
  <1>7. g[Len(s)] = f[Len(s)]
    BY <1>6, <1>10 DEF H
  <1>8. Len(t) \in 1..Len(t) /\ Len(t) - 1 = Len(s)
    BY <1>1, <1>10
  <1>9. g[Len(t)] = Cut(g[Len(s)], e, m)
    BY <1>1, <1>3, <1>8
  <1> QED BY <1>2, <1>3, <1>7, <1>9, <1>10 DEF t

(* Spelled: the number after each digit. *)
SpelledRun(s) ==
    CHOOSE h : h = [i \in 0..Len(s) |-> IF i = 0 THEN 0 ELSE h[i - 1] * 10 + (s[i] - 48)]

LEMMA SpelledSteps ==
    ASSUME NEW s \in Seq(Digit)
    PROVE  /\ SpelledRun(s) \in [0..Len(s) -> Nat]
           /\ SpelledRun(s)[0] = 0 /\ Spelled(s) = SpelledRun(s)[Len(s)]
           /\ \A i \in 1..Len(s) : SpelledRun(s)[i] = Worth(SpelledRun(s)[i - 1], s[i])
  <1> DEFINE n == Len(s)
             A == Nat
             pass == [x \in (1..n) \X A |-> Worth(x[2], s[x[1]])]
             next(i, b) == Worth(b, s[i])
  <1>1. n \in Nat /\ 0 \in A /\ \A i \in 1..n : s[i] \in Digit
    BY WorthType
  <1>2. \A i \in 1..n, b \in A : next(i, b) \in A
    BY <1>1, WorthType
  <1>3. \A i \in 1..n, b \in A : pass[<<i, b>>] = next(i, b)
    <2>1. \A i \in 1..n, b \in A : <<i, b>> \in (1..n) \X A
      OBVIOUS
    <2> QED BY <2>1
  <1>4. pass \in StepsOf(n, A)
    <2>1. \A x \in (1..n) \X A : x[1] \in 1..n /\ x[2] \in A
      OBVIOUS
    <2> QED BY <1>2, <2>1 DEF StepsOf
  <1> HIDE DEF pass
  <1>5. PICK f \in [0..n -> A] : f[0] = 0 /\ \A i \in 1..n : f[i] = pass[<<i, f[i - 1]>>]
    <2> DEFINE start == 0
    <2>1. n \in Nat /\ start \in A
      BY <1>1
    <2> HIDE DEF n, A, start
    <2>2. SolutionsOf(n, A, start, pass) # {}
      BY <1>4, <2>1, Solvable
    <2>3. PICK f \in SolutionsOf(n, A, start, pass) : TRUE
      BY <2>2
    <2> QED BY <2>3 DEF SolutionsOf, start
  <1>6. \A i \in 1..n : i - 1 \in 0..n
    BY <1>1
  <1>7. \A i \in 1..n : f[i] = next(i, f[i - 1])
    <2> HIDE DEF next
    <2> QED BY <1>3, <1>5, <1>6
  <1> DEFINE g == SpelledRun(s)
  <1>8. f = [i \in 0..Len(s) |-> IF i = 0 THEN 0 ELSE f[i - 1] * 10 + (s[i] - 48)]
    <2>1. \A i \in 0..n : i # 0 => i \in 1..n
      BY <1>1
    <2>2. \A i \in 0..n : f[i] = IF i = 0 THEN 0 ELSE next(i, f[i - 1])
      <3> HIDE DEF next
      <3> QED BY <1>5, <1>7, <2>1
    <2> HIDE DEF n, A
    <2>3. f = [i \in 0..n |-> f[i]]
      BY <1>5
    <2>4. f = [i \in 0..n |-> IF i = 0 THEN 0 ELSE next(i, f[i - 1])]
      BY <2>2, <2>3
    <2> QED BY <2>4 DEF n, Worth
  <1>9. g = [i \in 0..Len(s) |-> IF i = 0 THEN 0 ELSE g[i - 1] * 10 + (s[i] - 48)]
    BY <1>8 DEF SpelledRun
  <1>10. Spelled(s) = g[Len(s)]
    BY DEF Spelled, SpelledRun
  <1> HIDE DEF g
  <1>11. /\ g[0] = 0
         /\ \A i \in 1..n : g[i] = next(i, g[i - 1])
    <2>1. 0 \in 0..n /\ \A i \in 1..n : i \in 0..n /\ i # 0
      BY <1>1
    <2> QED BY <1>9, <2>1 DEF Worth
  <1> DEFINE H == {k \in Nat : k \in 0..n => g[k] = f[k]}
  <1>12. 0 \in H
    BY <1>1, <1>5, <1>11
  <1>13. ASSUME NEW k \in Nat, k \in H PROVE k + 1 \in H
    <2> SUFFICES ASSUME k + 1 \in 0..n PROVE g[k + 1] = f[k + 1]
      OBVIOUS
    <2>1. k \in 0..n /\ k + 1 \in 1..n /\ (k + 1) - 1 = k
      BY <1>1
    <2>2. g[k] = f[k]
      BY <1>13, <2>1
    <2> HIDE DEF next
    <2> QED BY <1>7, <1>11, <2>1, <2>2
  <1> HIDE DEF H
  <1>14. H = Nat
    BY <1>12, <1>13, Induction DEF H
  <1>15. \A k \in 0..n : g[k] = f[k]
    BY <1>1, <1>14 DEF H
  <1>16. g = f
    BY <1>5, <1>9, <1>15
  <1>17. n \in 0..n
    BY <1>1
  <1> QED BY <1>5, <1>7, <1>10, <1>16, <1>17 DEF g

LEMMA SpelledAppend ==
    ASSUME NEW s \in Seq(Digit), NEW e \in Digit
    PROVE  /\ Spelled(s) \in Nat
           /\ Spelled(Append(s, e)) = Worth(Spelled(s), e)
  <1> DEFINE t == Append(s, e)
  <1>1. t \in Seq(Digit) /\ Len(t) = Len(s) + 1 /\ t[Len(s) + 1] = e
        /\ \A i \in 1..Len(s) : t[i] = s[i]
    OBVIOUS
  <1>10. Len(s) \in Nat /\ Len(s) \in 0..Len(s)
    OBVIOUS
  <1> HIDE DEF t
  <1> DEFINE f == SpelledRun(s)
  <1>2. /\ f \in [0..Len(s) -> Nat] /\ f[0] = 0 /\ f[Len(s)] = Spelled(s)
        /\ \A i \in 1..Len(s) : f[i] = Worth(f[i - 1], s[i])
    BY SpelledSteps
  <1> HIDE DEF f
  <1> DEFINE g == SpelledRun(t)
  <1>3. /\ g \in [0..Len(t) -> Nat] /\ g[0] = 0 /\ g[Len(t)] = Spelled(t)
        /\ \A i \in 1..Len(t) : g[i] = Worth(g[i - 1], t[i])
    BY <1>1, SpelledSteps
  <1> HIDE DEF g
  <1> DEFINE H == {k \in Nat : k \in 0..Len(s) => g[k] = f[k]}
  <1>4. 0 \in H
    BY <1>2, <1>3
  <1>5. ASSUME NEW k \in Nat, k \in H PROVE k + 1 \in H
    <2> SUFFICES ASSUME k + 1 \in 0..Len(s) PROVE g[k + 1] = f[k + 1]
      OBVIOUS
    <2>1. k \in 0..Len(s) /\ k + 1 \in 1..Len(s) /\ k + 1 \in 1..Len(t) /\ (k + 1) - 1 = k
      BY <1>1, <1>10
    <2>2. f[k + 1] = Worth(f[k], s[k + 1]) /\ g[k + 1] = Worth(g[k], t[k + 1])
      BY <1>2, <1>3, <2>1
    <2> QED BY <1>1, <1>5, <2>1, <2>2
  <1> HIDE DEF H
  <1>6. Len(s) \in H
    BY <1>4, <1>5, <1>10, Induction
  <1>7. g[Len(s)] = f[Len(s)]
    BY <1>6, <1>10 DEF H
  <1>8. Len(t) \in 1..Len(t) /\ Len(t) - 1 = Len(s)
    BY <1>1, <1>10
  <1>9. g[Len(t)] = Worth(g[Len(s)], e)
    BY <1>1, <1>3, <1>8
  <1> QED BY <1>2, <1>3, <1>7, <1>9, <1>10 DEF t

LEMMA SplitEmpty == ASSUME NEW m PROVE Split(<<>>, m) = <<<<>>>>
  <1>1. ASSUME NEW S, NEW s \in Seq(S), Len(s) = 0 PROVE Split(s, m) = <<<<>>>>
    <2>1. SplitRun(s, m)[0] = <<<<>>>> /\ Split(s, m) = SplitRun(s, m)[Len(s)]
      BY SplitSteps
    <2> QED BY <1>1, <2>1
  <1>2. \A S : <<>> \in Seq(S) /\ Len(<<>>) = 0
    OBVIOUS
  <1> QED BY <1>1, <1>2

LEMMA SpelledEmpty == Spelled(<<>>) = 0
  <1>1. ASSUME NEW s \in Seq(Digit), Len(s) = 0 PROVE Spelled(s) = 0
    <2>1. SpelledRun(s)[0] = 0 /\ Spelled(s) = SpelledRun(s)[Len(s)]
      BY SpelledSteps
    <2> QED BY <1>1, <2>1
  <1>2. <<>> \in Seq(Digit) /\ Len(<<>>) = 0
    OBVIOUS
  <1> QED BY <1>1, <1>2
================================================================================
