------------------------------ MODULE Iteration ------------------------------
(***************************************************************************)
(* A loop that runs over data, and what can be proved of it.  The modules  *)
(* that have such a loop instantiate this one with its body: a proof about *)
(* the loop then cites the lemmas of the instance.                         *)
(***************************************************************************)
EXTENDS Integers, WellFoundedInduction, TLAPS

\* Body(s, b, k) is the state after round k of the loop over b from the state s.
CONSTANT Body(_, _, _)

\* The state after n rounds over b, from s.
Iterated(s, b, n) ==
    LET f[k \in Nat] == IF k = 0 THEN s ELSE Body(f[k - 1], b, k) IN f[n]

(***************************************************************************)
(* Induction, in terms of sets.                                            *)
(***************************************************************************)

\* Numbers of which there is one have a least one.
LEMMA LeastElement ==
  ASSUME NEW T \in SUBSET Nat, T # {}
  PROVE  \E n \in T : \A m \in T : n <= m
<1>. DEFINE R == OpToRel(<, Nat)
<1>1. IsWellFoundedOn(R, Nat)
  BY NatLessThanWellFounded
<1>. HIDE DEF R
<1>2. PICK n \in T : \A m \in T : ~(<<m, n>> \in R)
  BY <1>1, WFMin
<1>3. ASSUME NEW m \in T PROVE n <= m
  <2>1. <<m, n>> \in Nat \X Nat
    OBVIOUS
  <2>2. ~(m < n)
    BY <1>2, <2>1 DEF R, OpToRel
  <2>. QED
    BY <2>2
<1>. QED
  BY <1>3

\* Those that have 0, and with each number the next, are all of them.
LEMMA Induction ==
  ASSUME NEW T \in SUBSET Nat, 0 \in T, \A n \in T : n + 1 \in T
  PROVE  T = Nat
<1>1. SUFFICES ASSUME Nat \ T # {} PROVE FALSE
  OBVIOUS
<1>2. PICK n \in Nat \ T : \A m \in Nat \ T : n <= m
  <2>. DEFINE U == Nat \ T
  <2>1. U \in SUBSET Nat /\ U # {}
    BY <1>1
  <2>. HIDE DEF U
  <2>2. \E n \in U : \A m \in U : n <= m
    BY <2>1, LeastElement
  <2>. QED
    BY <2>2 DEF U
<1>3. n # 0 /\ n - 1 \in Nat
  OBVIOUS
<1>4. n - 1 \in T
  BY <1>2, <1>3
<1>5. (n - 1) + 1 \in T
  BY <1>4
<1>. QED
  BY <1>5, <1>3

(***************************************************************************)
(* The loop.                                                               *)
(***************************************************************************)

\* The recursion of Iterated defines it: each round starts where the one before
\* has ended.  The proof puts together the functions that follow the recursion for
\* n rounds.
LEMMA Unrolled ==
  ASSUME NEW s, NEW b
  PROVE  /\ Iterated(s, b, 0) = s
         /\ \A n \in Nat : Iterated(s, b, n + 1) = Body(Iterated(s, b, n), b, n + 1)
<1>. DEFINE Follows(g, n) ==
              g = [k \in 0 .. n |-> IF k = 0 THEN s ELSE Body(g[k - 1], b, k)]
            Rec(g) == g = [k \in Nat |-> IF k = 0 THEN s ELSE Body(g[k - 1], b, k)]
            The(n) == CHOOSE g : Follows(g, n)
            F == [n \in Nat |-> The(n)[n]]
            f == CHOOSE g : Rec(g)
<1>1. \A n \in Nat : \E g : Follows(g, n)
  <2>. DEFINE T == {n \in Nat : \E g : Follows(g, n)}
  <2>1. 0 \in T
    <3>1. Follows([k \in 0 .. 0 |-> s], 0)
      OBVIOUS
    <3>. QED
      BY <3>1
  <2>2. ASSUME NEW n \in T PROVE n + 1 \in T
    <3>1. PICK g : Follows(g, n)
      OBVIOUS
    <3>. DEFINE h == [k \in 0 .. n + 1 |-> IF k = n + 1 THEN Body(g[n], b, n + 1) ELSE g[k]]
    <3>2. n \in Nat
      OBVIOUS
    <3>. HIDE DEF T
    <3>3. ASSUME NEW k \in 0 .. n + 1
          PROVE  h[k] = IF k = 0 THEN s ELSE Body(h[k - 1], b, k)
      <4>1. CASE k = n + 1
        <5>1. h[k - 1] = g[n] /\ h[k] = Body(g[n], b, n + 1) /\ k # 0
          BY <3>2, <4>1
        <5>. QED
          BY <4>1, <5>1
      <4>2. CASE k = 0
        BY <3>1, <3>2, <4>2
      <4>3. CASE k \in 1 .. n
        <5>1. h[k] = g[k] /\ h[k - 1] = g[k - 1]
          BY <3>2, <4>3
        <5>2. g[k] = Body(g[k - 1], b, k)
          BY <3>1, <3>2, <4>3
        <5>. QED
          BY <4>3, <5>1, <5>2
      <4>. QED
        BY <3>2, <4>1, <4>2, <4>3
    <3>4. Follows(h, n + 1)
      BY <3>2, <3>3
    <3>5. \E x : Follows(x, n + 1)
      BY <3>4
    <3>. HIDE DEF Follows
    <3>. QED
      BY <3>2, <3>5 DEF T
  <2>3. T \in SUBSET Nat
    OBVIOUS
  <2>. HIDE DEF T
  <2>4. T = Nat
    BY <2>1, <2>2, <2>3, Induction
  <2>. QED
    BY <2>4 DEF T
<1>2. \A n \in Nat : Follows(The(n), n)
  BY <1>1
<1>. HIDE DEF The
<1>3. \A n \in Nat : \A k \in 0 .. n : The(n)[k] = The(k)[k]
  <2>. SUFFICES ASSUME NEW n \in Nat
                PROVE  \A k \in 0 .. n : The(n)[k] = The(k)[k]
    OBVIOUS
  <2>0. ASSUME NEW m \in Nat, m <= n, NEW k \in Nat, k <= m
        PROVE  The(m)[k] = IF k = 0 THEN s ELSE Body(The(m)[k - 1], b, k)
    BY <1>2, <2>0
  <2>. DEFINE T == {k \in Nat : \A m \in k .. n : The(m)[k] = The(n)[k]}
  <2>1. 0 \in T
    BY <2>0
  <2>2. ASSUME NEW k \in T PROVE k + 1 \in T
    <3>1. k \in Nat /\ \A m \in k .. n : The(m)[k] = The(n)[k]
      OBVIOUS
    <3>. HIDE DEF T
    <3>2. ASSUME NEW m \in (k + 1) .. n PROVE The(m)[k + 1] = The(n)[k + 1]
      <4>0. m \in Nat /\ k + 1 <= m /\ m <= n /\ k + 1 \in Nat /\ (k + 1) - 1 = k /\ k + 1 # 0
        BY <3>1
      <4>1. The(m)[k + 1] = Body(The(m)[k], b, k + 1)
        BY <2>0, <4>0
      <4>2. The(n)[k + 1] = Body(The(n)[k], b, k + 1)
        BY <2>0, <4>0
      <4>3. The(m)[k] = The(n)[k]
        BY <3>1, <4>0
      <4>. QED
        BY <4>1, <4>2, <4>3
    <3>. QED
      BY <3>1, <3>2 DEF T
  <2>3. T \in SUBSET Nat
    OBVIOUS
  <2>. HIDE DEF T
  <2>4. T = Nat
    BY <2>1, <2>2, <2>3, Induction
  <2>5. ASSUME NEW k \in 0 .. n PROVE The(n)[k] = The(k)[k]
    <3>1. k \in T /\ k \in k .. n
      BY <2>4
    <3>. QED
      BY <3>1 DEF T
  <2>. QED
    BY <2>5
<1>4. Rec(F)
  <2>1. ASSUME NEW k \in Nat PROVE F[k] = IF k = 0 THEN s ELSE Body(F[k - 1], b, k)
    <3>1. The(k)[k] = IF k = 0 THEN s ELSE Body(The(k)[k - 1], b, k)
      BY <1>2
    <3>2. k # 0 => The(k)[k - 1] = The(k - 1)[k - 1]
      BY <1>3
    <3>3. F[k] = The(k)[k] /\ (k # 0 => F[k - 1] = The(k - 1)[k - 1])
      OBVIOUS
    <3>. QED
      BY <3>1, <3>2, <3>3
  <2>. QED
    BY <2>1
<1>5. Rec(f)
  BY <1>4
<1>6. \A n : Iterated(s, b, n) = f[n]
  BY DEF Iterated
<1>. HIDE DEF f
<1>7. f[0] = s /\ \A n \in Nat : f[n + 1] = Body(f[n], b, n + 1)
  <2>1. ASSUME NEW n \in Nat PROVE f[n + 1] = Body(f[n], b, n + 1)
    BY <1>5
  <2>. QED
    BY <1>5, <2>1
<1>. QED
  BY <1>6, <1>7

\* What holds before the loop and is kept by its body holds after it.
LEMMA Stays ==
  ASSUME NEW s, NEW b, NEW n \in Nat, NEW P,
         s \in P,
         \A x \in P, k \in 1 .. n : Body(x, b, k) \in P
  PROVE  Iterated(s, b, n) \in P
<1>. DEFINE T == {k \in Nat : k <= n => Iterated(s, b, k) \in P}
<1>1. 0 \in T
  BY Unrolled
<1>2. ASSUME NEW k \in T PROVE k + 1 \in T
  <2>1. k \in Nat
    OBVIOUS
  <2>2. Iterated(s, b, k + 1) = Body(Iterated(s, b, k), b, k + 1)
    BY <2>1, Unrolled
  <2>. QED
    BY <2>1, <2>2
<1>3. T \in SUBSET Nat
  OBVIOUS
<1>. HIDE DEF T
<1>4. T = Nat
  BY <1>1, <1>2, <1>3, Induction
<1>. QED
  BY <1>4 DEF T
=============================================================================
