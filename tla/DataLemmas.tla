----------------------------- MODULE DataLemmas -----------------------------
(***************************************************************************)
(* What the proofs need of numbers, recursive functions, concatenations    *)
(* and folds, for every length: induction over bounded numbers, which      *)
(* takes a set where the library's theorems take an operator.              *)
(***************************************************************************)
EXTENDS Integers, SequencesExt, FiniteSetTheorems, SequenceTheorems, WellFoundedInduction, TLAPS

-----------------------------------------------------------------------------
(* Induction and recursion over numbers.                                   *)

(* A set of numbers has a least one. *)
LEMMA Least ==
  ASSUME NEW S \in SUBSET Nat, S # {}
  PROVE  \E m \in S : \A n \in S : m <= n
<1> DEFINE R == StrictSubsetOrdering(Nat)
           T == {0..n : n \in S}
<1>1. T \subseteq FiniteSubsetsOf(Nat) /\ T # {}
  <2>1. ASSUME NEW n \in S PROVE 0..n \in SUBSET Nat /\ IsFiniteSet(0..n)
    <3>1. n \in Int /\ 0 \in Int
      OBVIOUS
    <3>2. QED
      BY <3>1, FS_Interval
  <2>2. QED
    BY <2>1 DEF FiniteSubsetsOf
<1>2. PICK t \in T : \A u \in T : <<u, t>> \notin R
  BY <1>1, FS_StrictSubsetOrderingWellFounded, WFMin, Zenon
<1>3. PICK m \in S : t = 0..m
  OBVIOUS
<1>4. ASSUME NEW n \in S PROVE m <= n
  <2>1. <<0..n, 0..m>> \notin R
    BY <1>2, <1>3
  <2>2. 0..n \in SUBSET Nat /\ 0..m \in SUBSET Nat
    OBVIOUS
  <2>3. ~(0..n \subseteq 0..m) \/ 0..n = 0..m
    BY <2>1, <2>2 DEF StrictSubsetOrdering
  <2>4. CASE ~(0..n \subseteq 0..m)
    BY <2>4
  <2>5. CASE 0..n = 0..m
    <3>1. m \in 0..n
      BY <2>5
    <3>2. QED
      BY <3>1
  <2>6. QED
    BY <2>3, <2>4, <2>5
<1>5. QED
  BY <1>4

(* Induction up to N. *)
LEMMA InductTo ==
  ASSUME NEW N \in Nat, NEW S, 0 \in S, \A n \in 0..N - 1 : n \in S => n + 1 \in S
  PROVE  0..N \subseteq S
<1> SUFFICES ASSUME (0..N) \ S # {} PROVE FALSE
  OBVIOUS
<1>0. (0..N) \ S \in SUBSET Nat
  OBVIOUS
<1>1. PICK m \in (0..N) \ S : \A n \in (0..N) \ S : m <= n
  BY <1>0, Least
<1>2. m # 0 /\ m - 1 \in 0..N - 1
  BY <1>1
<1>3. m - 1 \in S
  BY <1>1, <1>2
<1>4. QED
  BY <1>1, <1>2, <1>3

(* A set of numbers up to n has a greatest one. *)
LEMMA Greatest ==
  ASSUME NEW n \in Nat, NEW S \in SUBSET (1..n), S # {}
  PROVE  Max(S) \in S /\ \A y \in S : y <= Max(S)
<1> DEFINE T == {n - x : x \in S}
<1>1. T \in SUBSET Nat /\ T # {}
  <2>1. ASSUME NEW x \in S PROVE n - x \in Nat
    <3>1. x \in 1..n
      OBVIOUS
    <3>2. QED
      BY <3>1
  <2>2. QED
    BY <2>1
<1>2. PICK t \in T : \A u \in T : t <= u
  <2> HIDE DEF T
  <2>1. QED
    BY <1>1, Least
<1>3. PICK x \in S : t = n - x
  BY <1>2
<1>4. ASSUME NEW y \in S PROVE y <= x
  <2>1. n - y \in T
    OBVIOUS
  <2>2. n - x <= n - y
    BY <1>2, <1>3, <2>1
  <2>3. QED
    BY <2>2
<1>5. \E z \in S : \A y \in S : z >= y
  BY <1>4
<1>6. Max(S) \in S /\ \A y \in S : Max(S) >= y
  BY <1>5 DEF Max
<1>7. QED
  BY <1>6

(* A function computed by recursion up to N. *)
IsRun(f, N, V, b, g) ==
  /\ f \in [0..N -> V]
  /\ f[0] = b
  /\ \A i \in 1..N : f[i] = g[<<i, f[i - 1]>>]

LEMMA Recursion ==
  ASSUME NEW N \in Nat, NEW V, NEW b \in V, NEW g \in [(1..N) \X V -> V]
  PROVE  \E f : IsRun(f, N, V, b, g)
<1> DEFINE S == {n \in 0..N : \E f : IsRun(f, n, V, b, g)}
<1>1. 0 \in S
  <2> DEFINE h == [i \in 0..0 |-> b]
  <2>1. IsRun(h, 0, V, b, g)
    BY DEF IsRun
  <2>2. 0 \in 0..N
    OBVIOUS
  <2> HIDE DEF h
  <2>3. QED
    BY <2>1, <2>2
<1>2. ASSUME NEW n \in 0..N - 1, n \in S PROVE n + 1 \in S
  <2>1. PICK f : IsRun(f, n, V, b, g)
    BY <1>2
  <2> DEFINE h == [i \in 0..n + 1 |-> IF i = n + 1 THEN g[<<i, f[n]>>] ELSE f[i]]
  <2>2. f[n] \in V /\ n + 1 \in 1..N
    BY <2>1 DEF IsRun
  <2>3. g[<<n + 1, f[n]>>] \in V
    BY <2>2
  <2>4. h \in [0..n + 1 -> V]
    BY <2>1, <2>3 DEF IsRun
  <2>5. h[0] = b
    BY <2>1 DEF IsRun
  <2>6. ASSUME NEW i \in 1..n + 1 PROVE h[i] = g[<<i, h[i - 1]>>]
    BY <2>1 DEF IsRun
  <2>7. IsRun(h, n + 1, V, b, g)
    BY <2>4, <2>5, <2>6 DEF IsRun
  <2>8. n + 1 \in 0..N
    OBVIOUS
  <2> HIDE DEF h
  <2>9. QED
    BY <2>7, <2>8
<1>3. N \in S
  <2> HIDE DEF S
  <2>1. \A n \in 0..N - 1 : n \in S => n + 1 \in S
    BY <1>2
  <2>2. 0..N \subseteq S
    BY <1>1, <2>1, InductTo
  <2>3. QED
    BY <2>2
<1>4. QED
  BY <1>3

(* Two functions of the same recursion agree. *)
AgreeTo(f, h, N) == \A i \in 0..N : f[i] = h[i]
AgreeNext(f, h, N) == \A i \in 1..N : f[i - 1] = h[i - 1] => f[i] = h[i]

LEMMA SameRecursion ==
  ASSUME NEW N \in Nat, NEW f, NEW h, f[0] = h[0], AgreeNext(f, h, N)
  PROVE  AgreeTo(f, h, N)
<1> DEFINE S == {i \in 0..N : f[i] = h[i]}
<1>1. \A n \in 0..N - 1 : n \in S => n + 1 \in S
  BY DEF AgreeNext
<1>2. 0 \in S
  OBVIOUS
<1>3. 0..N \subseteq S
  <2> HIDE DEF S
  <2>1. QED
    BY <1>1, <1>2, InductTo
<1>4. QED
  BY <1>3 DEF AgreeTo

-----------------------------------------------------------------------------
(* Folds from the left, as the library computes them: a function over the  *)
(* sets of positions, which takes the greatest position last.              *)

IsFold(it, N, V, b, g) ==
  /\ it \in [SUBSET (1..N) -> V]
  /\ it[{}] = b
  /\ \A s \in SUBSET (1..N) : s # {} => it[s] = g[<<Max(s), it[s \ {Max(s)}]>>]

LEMMA Folding ==
  ASSUME NEW N \in Nat, NEW V, NEW b \in V, NEW g \in [(1..N) \X V -> V]
  PROVE  \E it : IsFold(it, N, V, b, g)
<1> DEFINE W == [SUBSET (1..N) -> V]
           step(i, h) == [s \in SUBSET (1..N) |-> IF i \in s THEN g[<<i, h[s]>>] ELSE h[s]]
           G == [q \in (1..N) \X W |-> step(q[1], q[2])]
           none == [s \in SUBSET (1..N) |-> b]
<1>1. none \in W
  OBVIOUS
<1>2. G \in [(1..N) \X W -> W]
  <2>1. ASSUME NEW i \in 1..N, NEW h \in W PROVE step(i, h) \in W
    <3>1. ASSUME NEW s \in SUBSET (1..N) PROVE h[s] \in V /\ g[<<i, h[s]>>] \in V
      OBVIOUS
    <3>2. QED
      BY <3>1
  <2> HIDE DEF W, step
  <2>2. QED
    BY <2>1
<1>3. PICK f : IsRun(f, N, W, none, G)
  <2> HIDE DEF W, G, none
  <2>1. QED
    BY <1>1, <1>2, Recursion
<1>4. f \in [0..N -> W] /\ f[0] = none
  BY <1>3 DEF IsRun
<1>5. ASSUME NEW i \in 1..N PROVE f[i] = step(i, f[i - 1])
  <2>1. f[i - 1] \in W /\ f[i] = G[<<i, f[i - 1]>>]
    <3>1. i - 1 \in 0..N
      OBVIOUS
    <3>2. QED
      BY <1>3, <1>4, <3>1 DEF IsRun
  <2> HIDE DEF W, step
  <2>2. QED
    BY <2>1
<1>6. ASSUME NEW i \in 1..N, NEW s \in SUBSET (1..N)
      PROVE  f[i][s] = IF i \in s THEN g[<<i, f[i - 1][s]>>] ELSE f[i - 1][s]
  <2> HIDE DEF W, G, none
  <2>1. f[i] = step(i, f[i - 1])
    BY <1>5
  <2>2. step(i, f[i - 1])[s] = IF i \in s THEN g[<<i, f[i - 1][s]>>] ELSE f[i - 1][s]
    OBVIOUS
  <2>3. QED
    <3> HIDE DEF step
    <3>1. QED
      BY <2>1, <2>2
<1> HIDE DEF W, G, step
(* Only the positions so far matter. *)
<1>7. ASSUME NEW s \in SUBSET (1..N), NEW t \in SUBSET (1..N), NEW m \in 0..N,
             \A x \in 1..m : x \in s <=> x \in t
      PROVE  f[m][s] = f[m][t]
  <2> DEFINE S == {i \in 0..m : f[i][s] = f[i][t]}
  <2>1. 0 \in S
    <3>1. f[0][s] = b /\ f[0][t] = b
      BY <1>4
    <3>2. QED
      BY <3>1
  <2>2. ASSUME NEW i \in 0..m - 1, i \in S PROVE i + 1 \in S
    <3>1. i + 1 \in 1..N /\ i + 1 \in 1..m /\ (i + 1) - 1 = i
      OBVIOUS
    <3>2. f[i + 1][s] = IF i + 1 \in s THEN g[<<i + 1, f[i][s]>>] ELSE f[i][s]
      BY <1>6, <3>1
    <3>3. f[i + 1][t] = IF i + 1 \in t THEN g[<<i + 1, f[i][t]>>] ELSE f[i][t]
      BY <1>6, <3>1
    <3>4. f[i][s] = f[i][t] /\ (i + 1 \in s <=> i + 1 \in t)
      BY <1>7, <2>2, <3>1
    <3>5. QED
      BY <3>1, <3>2, <3>3, <3>4
  <2> HIDE DEF S
  <2>3. 0..m \subseteq S
    BY <2>1, <2>2, InductTo
  <2>4. m \in S
    BY <2>3
  <2>5. QED
    BY <2>4 DEF S
(* Nothing above the greatest position. *)
<1>8. ASSUME NEW s \in SUBSET (1..N), NEW m \in 0..N, \A x \in s : x <= m
      PROVE  f[N][s] = f[m][s]
  <2> DEFINE S == {i \in 0..N - m : f[m + i][s] = f[m][s]}
  <2>1. 0 \in S
    OBVIOUS
  <2>2. ASSUME NEW i \in 0..(N - m) - 1, i \in S PROVE i + 1 \in S
    <3>1. m + (i + 1) \in 1..N /\ (m + (i + 1)) - 1 = m + i /\ i + 1 \in 0..N - m
      OBVIOUS
    <3>2. m + (i + 1) \notin s
      BY <1>8
    <3>3. f[m + (i + 1)][s] = f[(m + (i + 1)) - 1][s]
      BY <1>6, <3>1, <3>2
    <3>4. QED
      BY <2>2, <3>1, <3>3
  <2>3. N - m \in Nat
    OBVIOUS
  <2> HIDE DEF S
  <2>4. 0..(N - m) \subseteq S
    BY <2>1, <2>2, <2>3, InductTo
  <2>5. N - m \in S /\ m + (N - m) = N
    BY <2>3, <2>4
  <2>6. QED
    BY <2>5 DEF S
<1>9. f[N] \in [SUBSET (1..N) -> V]
  BY <1>4 DEF W
<1>10. f[N][{}] = b
  <2>1. f[N][{}] = f[0][{}]
    BY <1>8
  <2>2. QED
    BY <1>4, <2>1
<1>11. ASSUME NEW s \in SUBSET (1..N), s # {}
       PROVE  f[N][s] = g[<<Max(s), f[N][s \ {Max(s)}]>>]
  <2> DEFINE x == Max(s)
  <2>1. x \in s /\ \A y \in s : y <= x
    BY <1>11, Greatest
  <2> HIDE DEF x
  <2>2. x \in 1..N /\ x - 1 \in 0..N /\ x \in 0..N
    BY <2>1
  <2>3. f[N][s] = g[<<x, f[x - 1][s]>>]
    <3>1. f[N][s] = f[x][s]
      BY <1>8, <2>1, <2>2
    <3>2. QED
      BY <1>6, <2>1, <2>2, <3>1
  <2>4. f[x - 1][s] = f[x - 1][s \ {x}]
    <3>1. \A y \in 1..x - 1 : y \in s <=> y \in s \ {x}
      BY <2>2
    <3>2. s \ {x} \in SUBSET (1..N)
      OBVIOUS
    <3>3. QED
      BY <1>7, <2>2, <3>1, <3>2
  <2>5. f[N][s \ {x}] = f[x - 1][s \ {x}]
    <3>1. \A y \in s \ {x} : y <= x - 1
      BY <2>1, <2>2
    <3>2. s \ {x} \in SUBSET (1..N)
      OBVIOUS
    <3>3. QED
      BY <1>8, <2>2, <3>1, <3>2
  <2>6. QED
    BY <2>3, <2>4, <2>5 DEF x
<1>12. IsFold(f[N], N, V, b, g)
  BY <1>9, <1>10, <1>11 DEF IsFold
<1>13. QED
  BY <1>12

(* The greatest of the positions so far. *)
LEMMA MaxUpTo == ASSUME NEW N \in Nat, NEW i \in 1..N PROVE Max(1..i) = i
<1> DEFINE x == Max(1..i)
<1>1. 1..i \in SUBSET (1..N) /\ i \in 1..i
  OBVIOUS
<1>2. x \in 1..i /\ \A y \in 1..i : y <= x
  BY <1>1, Greatest
<1> HIDE DEF x
<1>3. i <= x /\ x \in 1..i
  BY <1>1, <1>2
<1>4. x = i
  BY <1>3
<1>5. QED
  BY <1>4 DEF x


-----------------------------------------------------------------------------
(* Concatenations of pieces.                                               *)

LEMMA ConcatProps ==
  ASSUME NEW X, NEW a \in Seq(X), NEW b \in Seq(X)
  PROVE  /\ a \o b \in Seq(X) /\ Len(a \o b) = Len(a) + Len(b)
         /\ \A i \in 1..Len(a) : (a \o b)[i] = a[i]
         /\ \A i \in 1..Len(b) : (a \o b)[Len(a) + i] = b[i]
  OBVIOUS

Flattens(F, p, W) ==
  /\ \A i \in 0..Len(p) : F[i] \in Seq(W)
  /\ F[0] = <<>>
  /\ \A i \in 1..Len(p) : F[i] = F[i - 1] \o p[i]
  /\ FlattenSeq(p) = F[Len(p)]

LEMMA Flattening ==
  ASSUME NEW W, NEW p \in Seq(Seq(W))
  PROVE  \E F : Flattens(F, p, W)
<1> DEFINE N == Len(p)
           V == Seq(W)
           g == [q \in (1..N) \X V |-> q[2] \o p[q[1]]]
           Body(a) == [i \in 1..N |-> IF i = 1 THEN p[i] ELSE a[i - 1] \o p[i]]
<1>1. N \in Nat /\ p \in [1..N -> V]
  OBVIOUS
<1>2. g \in [(1..N) \X V -> V]
  <2>1. ASSUME NEW q \in (1..N) \X V PROVE q[2] \o p[q[1]] \in V
    <3>1. q[2] \in Seq(W) /\ p[q[1]] \in Seq(W)
      BY <1>1
    <3>2. QED
      BY <3>1, ConcatProps
  <2>2. QED
    BY <2>1
<1>3. <<>> \in V
  OBVIOUS
<1>4. PICK f : IsRun(f, N, V, <<>>, g)
  <2> HIDE DEF N, V, g
  <2>1. QED
    BY <1>1, <1>2, <1>3, Recursion
<1>5. f \in [0..N -> V] /\ f[0] = <<>>
  BY <1>4 DEF IsRun
<1>6. ASSUME NEW i \in 1..N PROVE f[i] = f[i - 1] \o p[i]
  <2>1. f[i - 1] \in V
    <3>1. i - 1 \in 0..N
      BY <1>1
    <3> HIDE DEF V, N
    <3>2. QED
      BY <1>5, <3>1
  <2>2. f[i] = g[<<i, f[i - 1]>>]
    BY <1>4 DEF IsRun
  <2>3. <<i, f[i - 1]>> \in (1..N) \X V
    BY <2>1
  <2>4. QED
    BY <2>2, <2>3
<1>7. CASE N = 0
  <2>1. p = <<>>
    BY <1>7
  <2>2. FlattenSeq(p) = f[N]
    BY <1>5, <1>7, <2>1 DEF FlattenSeq
  <2>3. QED
    BY <1>5, <1>6, <2>2 DEF Flattens
<1>8. CASE N # 0
  <2> DEFINE after == CHOOSE a : a = Body(a)
             h == [i \in 1..N |-> f[i]]
  <2>1. h = Body(h)
    <3>1. ASSUME NEW i \in 1..N PROVE h[i] = Body(h)[i]
      <4>1. f[i] = f[i - 1] \o p[i] /\ h[i] = f[i]
        BY <1>6
      <4>2. CASE i = 1
        <5>1. f[i] = <<>> \o p[i]
          <6>1. i - 1 = 0
            BY <4>2
          <6>2. f[i - 1] = <<>>
            BY <1>5, <6>1
          <6>3. QED
            BY <4>1, <6>2
        <5>2. p[i] \in Seq(W)
          BY <1>1
        <5>3. <<>> \o p[i] = p[i]
          BY <5>2
        <5>4. QED
          BY <4>1, <4>2, <5>1, <5>3
      <4>3. CASE i # 1
        <5>1. i - 1 \in 1..N
          BY <4>3
        <5>2. h[i - 1] = f[i - 1]
          BY <5>1
        <5>3. QED
          BY <4>1, <4>3, <5>2
      <4>4. QED
        BY <4>2, <4>3
    <3>2. QED
      BY <3>1
  <2>2. after = Body(after)
    <3> HIDE DEF Body, h
    <3>1. QED
      BY <2>1
  <2>3. FlattenSeq(p) = after[N]
    BY <1>8 DEF FlattenSeq
  <2> DEFINE S == {i \in 0..N : i = 0 \/ f[i] = after[i]}
  <2> HIDE DEF after
  <2>4. ASSUME NEW i \in 0..N - 1, i \in S PROVE i + 1 \in S
    <3>1. i + 1 \in 1..N /\ i + 1 \in 0..N /\ (i + 1) - 1 = i
      OBVIOUS
    <3>2. after[i + 1] = IF i + 1 = 1 THEN p[i + 1] ELSE after[(i + 1) - 1] \o p[i + 1]
      <4>1. after[i + 1] = Body(after)[i + 1]
        BY <2>2
      <4>2. QED
        BY <3>1, <4>1
    <3>3. f[i + 1] = f[i] \o p[i + 1]
      BY <1>6, <3>1
    <3>4. CASE i = 0
      <4>1. p[1] \in Seq(W)
        BY <1>1, <3>1, <3>4
      <4>2. <<>> \o p[1] = p[1]
        BY <4>1
      <4>3. f[0] = <<>> /\ i + 1 = 1
        BY <1>5, <3>4
      <4>4. f[1] = p[1]
        BY <3>3, <3>4, <4>2, <4>3
      <4>5. after[1] = p[1]
        BY <3>2, <4>3
      <4>6. QED
        BY <3>1, <4>3, <4>4, <4>5
    <3>5. CASE i # 0
      <4>1. f[i] = after[i]
        BY <2>4, <3>5
      <4>2. after[i + 1] = after[i] \o p[i + 1]
        <5>1. i + 1 # 1 /\ (i + 1) - 1 = i
          BY <3>5
        <5>2. after[i + 1] = after[(i + 1) - 1] \o p[i + 1]
          BY <3>2, <5>1
        <5>3. QED
          BY <5>1, <5>2
      <4>3. QED
        BY <3>1, <3>3, <4>1, <4>2
    <3>6. QED
      BY <3>4, <3>5
  <2>5. N \in S
    <3>1. 0 \in S
      BY <1>1
    <3> HIDE DEF S, N
    <3>2. 0..N \subseteq S
      BY <1>1, <2>4, <3>1, InductTo
    <3>3. QED
      BY <1>1, <3>2
  <2>6. FlattenSeq(p) = f[N]
    BY <1>8, <2>3, <2>5
  <2>7. QED
    BY <1>5, <1>6, <2>6 DEF Flattens
<1>9. QED
  BY <1>7, <1>8
=============================================================================
