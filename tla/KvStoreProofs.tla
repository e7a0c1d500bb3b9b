--------------------------- MODULE KvStoreProofs ---------------------------
(***************************************************************************)
(* The record store implements a map, for any keys, values, lengths of     *)
(* values, sizes of the halves, budgets and thresholds, as long as no      *)
(* power loss cuts a factory reset (~TornWipe; KvStore says why).          *)
(*                                                                         *)
(* From the bottom up: what a program of words, whole or torn, does to a   *)
(* memory; that the log of a half is the one chain of records from its     *)
(* bottom; that packed records, with nothing after them, are a log again   *)
(* and read the same; then one lemma per thing that is written (a record,  *)
(* a superblock, a step of the flip, the tail and the commit, a factory    *)
(* reset), each for every point a power loss may cut it at; and the        *)
(* invariant IInv, one lemma per action.                                   *)
(***************************************************************************)
EXTENDS KvStore, DataLemmas

-----------------------------------------------------------------------------
(* Programs.                                                               *)

Cell == {Blank, Junk} \cup (Keys \X Data \X Nat) \cup Nat
Memory == [Region -> Cell]
Writes == [addr : Region, word : Cell]

Programs(f, m, ws, n) ==
  /\ DOMAIN f = 0..n
  /\ \A i \in 0..n : f[i] \in Memory
  /\ f[0] = m
  /\ \A i \in 1..n : f[i] = [f[i - 1] EXCEPT ![ws[i].addr] = ws[i].word]

(* What n writes make of a memory, step by step. *)
LEMMA ProgrammedRuns ==
  ASSUME NEW m \in Memory, NEW ws \in Seq(Writes), NEW n \in 0..Len(ws)
  PROVE  \E f : Programs(f, m, ws, n) /\ f[n] = Programmed(m, ws, n)
<1> DEFINE g == [p \in (1..n) \X Memory |-> [p[2] EXCEPT ![ws[p[1]].addr] = ws[p[1]].word]]
           Body(f) == [i \in 0..n |-> IF i = 0 THEN m
                                      ELSE [f[i - 1] EXCEPT ![ws[i].addr] = ws[i].word]]
<1>1. ASSUME NEW i \in 1..n PROVE ws[i].addr \in Region /\ ws[i].word \in Cell
  <2>1. i \in 1..Len(ws)
    OBVIOUS
  <2>2. ws[i] \in Writes
    BY <2>1
  <2>3. QED
    BY <2>2 DEF Writes
<1>2. ASSUME NEW i \in 1..n, NEW x \in Memory
      PROVE  [x EXCEPT ![ws[i].addr] = ws[i].word] \in Memory
  BY <1>1 DEF Memory
<1>3. g \in [(1..n) \X Memory -> Memory]
  <2>1. ASSUME NEW p \in (1..n) \X Memory
        PROVE  [p[2] EXCEPT ![ws[p[1]].addr] = ws[p[1]].word] \in Memory
    BY <1>2
  <2>2. QED
    BY <2>1
<1>4. n \in Nat
  OBVIOUS
<1>5. PICK f : IsRun(f, n, Memory, m, g)
  <2> HIDE DEF g
  <2>1. QED
    BY <1>3, <1>4, Recursion
<1>6. f \in [0..n -> Memory] /\ f[0] = m
  BY <1>5 DEF IsRun
<1>7. ASSUME NEW i \in 1..n PROVE f[i] = [f[i - 1] EXCEPT ![ws[i].addr] = ws[i].word]
  <2>1. f[i - 1] \in Memory
    BY <1>6
  <2>2. f[i] = g[<<i, f[i - 1]>>]
    BY <1>5 DEF IsRun
  <2>3. <<i, f[i - 1]>> \in (1..n) \X Memory
    BY <2>1
  <2>4. QED
    BY <2>2, <2>3
<1>8. f = Body(f)
  <2>1. ASSUME NEW i \in 0..n PROVE f[i] = Body(f)[i]
    <3>1. CASE i = 0
      BY <1>6, <3>1
    <3>2. CASE i # 0
      <4>1. i \in 1..n
        BY <3>2
      <4>2. f[i] = [f[i - 1] EXCEPT ![ws[i].addr] = ws[i].word]
        BY <1>7, <4>1
      <4>3. QED
        BY <3>2, <4>2
    <3>3. QED
      BY <3>1, <3>2
  <2>2. QED
    BY <1>6, <2>1
<1> DEFINE after == CHOOSE a : a = Body(a)
<1>9. after = Body(after)
  <2> HIDE DEF Body
  <2>1. QED
    BY <1>8
<1>10. Programmed(m, ws, n) = after[n]
  BY DEF Programmed
<1>11. ASSUME NEW i \in 1..n PROVE after[i] = [after[i - 1] EXCEPT ![ws[i].addr] = ws[i].word]
  <2> HIDE DEF after
  <2>1. after[i] = Body(after)[i]
    BY <1>9
  <2>2. QED
    BY <2>1
<1>12. after[0] = m
  <2> HIDE DEF after
  <2>1. after[0] = Body(after)[0]
    BY <1>9
  <2>2. QED
    BY <2>1
<1>13. \A i \in 0..n : f[i] = after[i]
  <2> HIDE DEF after
  <2>1. f[0] = after[0]
    BY <1>6, <1>12
  <2>2. AgreeNext(f, after, n)
    BY <1>7, <1>11 DEF AgreeNext
  <2>3. AgreeTo(f, after, n)
    BY <1>4, <2>1, <2>2, SameRecursion
  <2>4. QED
    BY <2>3 DEF AgreeTo
<1>14. f[n] = Programmed(m, ws, n)
  BY <1>10, <1>13
<1>15. Programs(f, m, ws, n)
  BY <1>6, <1>7 DEF Programs
<1>16. QED
  BY <1>14, <1>15

LEMMA ProgrammedStep ==
  ASSUME NEW m \in Memory, NEW ws \in Seq(Writes), NEW n \in 0..Len(ws)
  PROVE  /\ Programmed(m, ws, n) \in Memory
         /\ n = 0 => Programmed(m, ws, n) = m
         /\ n > 0 => Programmed(m, ws, n) =
                       [Programmed(m, ws, n - 1) EXCEPT ![ws[n].addr] = ws[n].word]
<1>1. PICK f : Programs(f, m, ws, n) /\ f[n] = Programmed(m, ws, n)
  BY ProgrammedRuns
<1>2. Programmed(m, ws, n) \in Memory
  BY <1>1 DEF Programs
<1>3. n = 0 => Programmed(m, ws, n) = m
  BY <1>1 DEF Programs
<1>4. ASSUME n > 0
      PROVE  Programmed(m, ws, n) = [Programmed(m, ws, n - 1) EXCEPT ![ws[n].addr] = ws[n].word]
  <2>1. n - 1 \in 0..Len(ws) /\ n - 1 \in Nat
    BY <1>4
  <2>2. PICK h : Programs(h, m, ws, n - 1) /\ h[n - 1] = Programmed(m, ws, n - 1)
    BY <2>1, ProgrammedRuns
  <2>3. f[0] = h[0]
    BY <1>1, <2>2 DEF Programs
  <2>4. AgreeNext(f, h, n - 1)
    <3>1. ASSUME NEW i \in 1..n - 1, f[i - 1] = h[i - 1] PROVE f[i] = h[i]
      <4>1. i \in 1..n
        BY <1>4
      <4>2. f[i] = [f[i - 1] EXCEPT ![ws[i].addr] = ws[i].word]
        BY <1>1, <4>1 DEF Programs
      <4>3. h[i] = [h[i - 1] EXCEPT ![ws[i].addr] = ws[i].word]
        BY <2>2 DEF Programs
      <4>4. QED
        BY <3>1, <4>2, <4>3
    <3>2. QED
      BY <3>1 DEF AgreeNext
  <2>5. f[n - 1] = h[n - 1]
    <3>1. AgreeTo(f, h, n - 1)
      BY <2>1, <2>3, <2>4, SameRecursion
    <3>2. QED
      BY <2>1, <3>1 DEF AgreeTo
  <2>6. n \in 1..n
    BY <1>4
  <2>7. f[n] = [f[n - 1] EXCEPT ![ws[n].addr] = ws[n].word]
    BY <1>1, <2>6 DEF Programs
  <2>8. QED
    BY <1>1, <2>2, <2>5, <2>7
<1>5. QED
  BY <1>2, <1>3, <1>4

LEMMA ProgrammedNext ==
  ASSUME NEW m \in Memory, NEW ws \in Seq(Writes), NEW n \in Nat, n < Len(ws)
  PROVE  Programmed(m, ws, n + 1) = [Programmed(m, ws, n) EXCEPT ![ws[n + 1].addr] = ws[n + 1].word]
<1> DEFINE k == n + 1
<1>1. k \in 0..Len(ws) /\ k > 0 /\ k - 1 = n
  OBVIOUS
<1> HIDE DEF k
<1>2. Programmed(m, ws, k) = [Programmed(m, ws, k - 1) EXCEPT ![ws[k].addr] = ws[k].word]
  BY <1>1, ProgrammedStep
<1>3. QED
  BY <1>1, <1>2 DEF k

(* An address the writes leave alone keeps its word. *)
LEMMA Unwritten ==
  ASSUME NEW m \in Memory, NEW ws \in Seq(Writes), NEW n \in 0..Len(ws),
         NEW a \in Region, \A i \in 1..n : ws[i].addr # a
  PROVE  Programmed(m, ws, n)[a] = m[a]
<1> DEFINE S == {j \in 0..n : Programmed(m, ws, j)[a] = m[a]}
<1>1. 0 \in S
  BY ProgrammedStep
<1>2. ASSUME NEW j \in 0..n - 1, j \in S PROVE j + 1 \in S
  <2>1. j \in 0..Len(ws) /\ j \in Nat /\ j < Len(ws) /\ j + 1 \in 1..n
    OBVIOUS
  <2>2. Programmed(m, ws, j) \in Memory
    BY <2>1, ProgrammedStep
  <2>3. Programmed(m, ws, j + 1) = [Programmed(m, ws, j) EXCEPT ![ws[j + 1].addr] = ws[j + 1].word]
    BY <2>1, ProgrammedNext
  <2>4. Programmed(m, ws, j)[a] = m[a]
    BY <1>2
  <2>5. ws[j + 1].addr # a
    BY <2>1
  <2>6. Programmed(m, ws, j + 1)[a] = m[a]
    BY <2>2, <2>3, <2>4, <2>5 DEF Memory
  <2>7. j + 1 \in 0..n
    OBVIOUS
  <2>8. QED
    BY <2>6, <2>7
<1>3. 0..n \subseteq S
  <2> HIDE DEF S
  <2>1. n \in Nat
    OBVIOUS
  <2>2. QED
    BY <1>1, <1>2, <2>1, InductTo
<1>4. n \in S
  BY <1>3
<1>5. QED
  BY <1>4

(* The last word written to an address stays. *)
LEMMA Written ==
  ASSUME NEW m \in Memory, NEW ws \in Seq(Writes), NEW n \in 0..Len(ws),
         NEW i \in 1..n, \A j \in i + 1..n : ws[j].addr # ws[i].addr
  PROVE  Programmed(m, ws, n)[ws[i].addr] = ws[i].word
<1> DEFINE a == ws[i].addr
           S == {j \in 0..n - i : Programmed(m, ws, i + j)[a] = ws[i].word}
<1>0. ws[i] \in Writes /\ a \in Region
  <2>1. i \in 1..Len(ws)
    OBVIOUS
  <2>2. ws[i] \in Writes
    BY <2>1
  <2>3. QED
    BY <2>2 DEF Writes
<1>1. 0 \in S
  <2>1. i \in 0..Len(ws) /\ i - 1 \in 0..Len(ws) /\ i > 0 /\ i + 0 = i
    OBVIOUS
  <2>2. Programmed(m, ws, i - 1) \in Memory
    BY <2>1, ProgrammedStep
  <2>3. Programmed(m, ws, i) = [Programmed(m, ws, i - 1) EXCEPT ![a] = ws[i].word]
    BY <2>1, ProgrammedStep
  <2>4. Programmed(m, ws, i)[a] = ws[i].word
    BY <1>0, <2>2, <2>3 DEF Memory
  <2>5. QED
    BY <2>1, <2>4
<1>2. ASSUME NEW j \in 0..(n - i) - 1, j \in S PROVE j + 1 \in S
  <2> DEFINE k == i + j
  <2>1. k \in 0..Len(ws) /\ k \in Nat /\ k < Len(ws) /\ k + 1 \in i + 1..n
        /\ i + (j + 1) = k + 1 /\ j + 1 \in 0..n - i
    OBVIOUS
  <2>2. Programmed(m, ws, k)[a] = ws[i].word
    BY <1>2
  <2> HIDE DEF k
  <2>3. Programmed(m, ws, k) \in Memory
    BY <2>1, ProgrammedStep
  <2>4. Programmed(m, ws, k + 1) = [Programmed(m, ws, k) EXCEPT ![ws[k + 1].addr] = ws[k + 1].word]
    BY <2>1, ProgrammedNext
  <2>5. ws[k + 1].addr # a
    BY <2>1
  <2>6. Programmed(m, ws, k + 1)[a] = ws[i].word
    BY <1>0, <2>2, <2>3, <2>4, <2>5 DEF Memory
  <2>7. QED
    BY <2>1, <2>6
<1>3. n - i \in S
  <2> HIDE DEF S
  <2>1. n - i \in Nat /\ n - i \in 0..n - i
    OBVIOUS
  <2>2. \A j \in 0..(n - i) - 1 : j \in S => j + 1 \in S
    BY <1>2
  <2>3. 0..n - i \subseteq S
    BY <1>1, <2>1, <2>2, InductTo
  <2>4. QED
    BY <2>1, <2>3
<1>4. i + (n - i) = n
  OBVIOUS
<1>5. QED
  BY <1>3, <1>4

(* Two programs that begin alike do the same at first. *)
LEMMA ProgrammedAlike ==
  ASSUME NEW m \in Memory, NEW ws \in Seq(Writes), NEW vs \in Seq(Writes),
         NEW n \in Nat, n <= Len(ws), n <= Len(vs), \A i \in 1..n : ws[i] = vs[i]
  PROVE  Programmed(m, ws, n) = Programmed(m, vs, n)
<1> DEFINE S == {j \in 0..n : Programmed(m, ws, j) = Programmed(m, vs, j)}
<1>1. 0 \in S
  <2>1. 0 \in 0..Len(ws) /\ 0 \in 0..Len(vs) /\ 0 \in 0..n
    OBVIOUS
  <2>2. Programmed(m, ws, 0) = m /\ Programmed(m, vs, 0) = m
    BY <2>1, ProgrammedStep
  <2>3. QED
    BY <2>1, <2>2
<1>2. ASSUME NEW j \in 0..n - 1, j \in S PROVE j + 1 \in S
  <2>1. j \in Nat /\ j < Len(ws) /\ j < Len(vs) /\ j + 1 \in 1..n /\ j + 1 \in 0..n
    OBVIOUS
  <2>2. Programmed(m, ws, j + 1) = [Programmed(m, ws, j) EXCEPT ![ws[j + 1].addr] = ws[j + 1].word]
    BY <2>1, ProgrammedNext
  <2>3. Programmed(m, vs, j + 1) = [Programmed(m, vs, j) EXCEPT ![vs[j + 1].addr] = vs[j + 1].word]
    BY <2>1, ProgrammedNext
  <2>4. ws[j + 1] = vs[j + 1]
    BY <2>1
  <2>5. Programmed(m, ws, j) = Programmed(m, vs, j)
    BY <1>2
  <2>6. QED
    BY <2>1, <2>2, <2>3, <2>4, <2>5
<1>3. n \in S
  <2> HIDE DEF S
  <2>1. \A j \in 0..n - 1 : j \in S => j + 1 \in S
    BY <1>2
  <2>2. 0..n \subseteq S
    BY <1>1, <2>1, InductTo
  <2>3. QED
    BY <2>2
<1>4. QED
  BY <1>3

(* A program of two parts. *)
LEMMA ProgrammedConcat ==
  ASSUME NEW m \in Memory, NEW a \in Seq(Writes), NEW b \in Seq(Writes)
  PROVE  /\ \A n \in 0..Len(a) : Programmed(m, a \o b, n) = Programmed(m, a, n)
         /\ \A n \in 0..Len(b) : Programmed(m, a \o b, Len(a) + n) = Programmed(Program(m, a), b, n)
         /\ Program(m, a \o b) = Program(Program(m, a), b)
<1> DEFINE c == a \o b
           m1 == Program(m, a)
<1>1. c \in Seq(Writes) /\ Len(c) = Len(a) + Len(b) /\ Len(a) \in Nat /\ Len(b) \in Nat
      /\ \A i \in 1..Len(a) : c[i] = a[i]
  BY ConcatProps
<1>2. \A i \in 1..Len(b) : c[Len(a) + i] = b[i]
  BY ConcatProps
<1> HIDE DEF c
<1>3. ASSUME NEW n \in 0..Len(a) PROVE Programmed(m, c, n) = Programmed(m, a, n)
  <2>1. n \in Nat /\ n <= Len(a) /\ n <= Len(c) /\ \A i \in 1..n : c[i] = a[i]
    BY <1>1
  <2>2. QED
    BY <1>1, <2>1, ProgrammedAlike
<1>4. m1 \in Memory
  <2>1. Len(a) \in 0..Len(a)
    BY <1>1
  <2>2. QED
    BY <2>1, ProgrammedStep DEF Program
<1>5. Programmed(m, c, Len(a)) = m1
  BY <1>1, <1>3 DEF Program
<1> DEFINE S == {j \in 0..Len(b) : Programmed(m, c, Len(a) + j) = Programmed(m1, b, j)}
<1> HIDE DEF m1
<1>6. 0 \in S
  <2>1. 0 \in 0..Len(b) /\ Len(a) + 0 = Len(a)
    BY <1>1
  <2>2. Programmed(m1, b, 0) = m1
    BY <1>4, <2>1, ProgrammedStep
  <2>3. QED
    BY <1>5, <2>1, <2>2
<1>7. ASSUME NEW j \in 0..Len(b) - 1, j \in S PROVE j + 1 \in S
  <2> DEFINE k == Len(a) + j
  <2>1. k \in Nat /\ k < Len(c) /\ j \in Nat /\ j < Len(b) /\ Len(a) + (j + 1) = k + 1
        /\ j + 1 \in 1..Len(b) /\ j + 1 \in 0..Len(b)
    BY <1>1
  <2>2. Programmed(m, c, k) = Programmed(m1, b, j)
    BY <1>7
  <2>3. c[k + 1] = b[j + 1]
    BY <1>2, <2>1
  <2> HIDE DEF k
  <2>4. Programmed(m, c, k + 1) = [Programmed(m, c, k) EXCEPT ![c[k + 1].addr] = c[k + 1].word]
    BY <1>1, <2>1, ProgrammedNext
  <2>5. Programmed(m1, b, j + 1) = [Programmed(m1, b, j) EXCEPT ![b[j + 1].addr] = b[j + 1].word]
    BY <1>4, <2>1, ProgrammedNext
  <2>6. QED
    BY <2>1, <2>2, <2>3, <2>4, <2>5
<1>8. 0..Len(b) \subseteq S
  <2> HIDE DEF S
  <2>1. \A j \in 0..Len(b) - 1 : j \in S => j + 1 \in S
    BY <1>7
  <2>2. QED
    BY <1>1, <1>6, <2>1, InductTo
<1>9. \A n \in 0..Len(b) : Programmed(m, c, Len(a) + n) = Programmed(m1, b, n)
  BY <1>8
<1>10. Program(m, c) = Program(m1, b)
  <2>1. Len(b) \in 0..Len(b)
    BY <1>1
  <2>2. QED
    BY <1>1, <1>9, <2>1 DEF Program
<1>11. QED
  BY <1>3, <1>9, <1>10 DEF c, m1

LEMMA ProgramInMemory ==
  ASSUME NEW m \in Memory, NEW ws \in Seq(Writes)
  PROVE  Program(m, ws) \in Memory
<1>1. Len(ws) \in 0..Len(ws)
  OBVIOUS
<1>2. QED
  BY <1>1, ProgrammedStep DEF Program

LEMMA ProgramNothing ==
  ASSUME NEW m \in Memory
  PROVE  Program(m, <<>>) = m
<1>1. ASSUME NEW e \in Seq(Writes), Len(e) = 0 PROVE Programmed(m, e, 0) = m
  <2>1. 0 \in 0..Len(e)
    BY <1>1
  <2>2. QED
    BY <2>1, ProgrammedStep
<1>2. <<>> \in Seq(Writes) /\ Len(<<>>) = 0
  OBVIOUS
<1>3. Programmed(m, <<>>, 0) = m
  BY <1>1, <1>2
<1>4. QED
  BY <1>2, <1>3 DEF Program

(* What a power loss at the n-th write leaves. *)
TornAt(m, ws, n, m2) ==
  \/ m2 = Programmed(m, ws, n - 1)
  \/ m2 = [Programmed(m, ws, n - 1) EXCEPT ![ws[n].addr] = Junk]

LEMMA TornIs ==
  ASSUME NEW m, NEW ws \in Seq(Writes), NEW m2
  PROVE  m2 \in Torn(m, ws) <=> \E n \in 1..Len(ws) : TornAt(m, ws, n, m2)
<1>1. DOMAIN ws = 1..Len(ws)
  OBVIOUS
<1>2. ASSUME m2 \in Torn(m, ws) PROVE \E n \in 1..Len(ws) : TornAt(m, ws, n, m2)
  BY <1>1, <1>2, Zenon DEF Torn, TornAt
<1>3. ASSUME NEW n \in 1..Len(ws), TornAt(m, ws, n, m2) PROVE m2 \in Torn(m, ws)
  <2> DEFINE T(j) == {Programmed(m, ws, j - 1),
                      [Programmed(m, ws, j - 1) EXCEPT ![ws[j].addr] = Junk]}
  <2>1. m2 \in T(n)
    BY <1>3 DEF TornAt
  <2>2. Torn(m, ws) = UNION {T(j) : j \in DOMAIN ws}
    BY DEF Torn
  <2> HIDE DEF T
  <2>3. T(n) \in {T(j) : j \in DOMAIN ws}
    BY <1>1
  <2>4. QED
    BY <2>1, <2>2, <2>3
<1>4. QED
  BY <1>2, <1>3

LEMMA TornNothing ==
  ASSUME NEW m
  PROVE  Torn(m, <<>>) = {}
<1>1. <<>> \in Seq(Writes) /\ 1..Len(<<>>) = {}
  OBVIOUS
<1>2. QED
  BY <1>1, TornIs, Zenon

(* A power loss in a program of two parts is in the one or in the other. *)
LEMMA TornConcat ==
  ASSUME NEW m \in Memory, NEW a \in Seq(Writes), NEW b \in Seq(Writes),
         NEW m2 \in Torn(m, a \o b)
  PROVE  m2 \in Torn(m, a) \/ m2 \in Torn(Program(m, a), b)
<1> DEFINE c == a \o b
<1>1. c \in Seq(Writes) /\ Len(c) = Len(a) + Len(b) /\ Len(a) \in Nat /\ Len(b) \in Nat
      /\ (\A i \in 1..Len(a) : c[i] = a[i]) /\ \A i \in 1..Len(b) : c[Len(a) + i] = b[i]
  BY ConcatProps
<1>2. PICK n \in 1..Len(c) : TornAt(m, c, n, m2)
  BY <1>1, TornIs
<1>3. CASE n <= Len(a)
  <2>1. n \in 1..Len(a) /\ n - 1 \in 0..Len(a)
    BY <1>1, <1>3
  <2>2. Programmed(m, c, n - 1) = Programmed(m, a, n - 1)
    BY <2>1, ProgrammedConcat
  <2>3. TornAt(m, a, n, m2)
    BY <1>1, <1>2, <2>1, <2>2 DEF TornAt
  <2>4. QED
    BY <2>1, <2>3, TornIs
<1>4. CASE n > Len(a)
  <2> DEFINE j == n - Len(a)
  <2>1. j \in 1..Len(b) /\ j - 1 \in 0..Len(b) /\ Len(a) + j = n /\ Len(a) + (j - 1) = n - 1
    BY <1>1, <1>4
  <2> HIDE DEF j
  <2>2. Programmed(m, c, n - 1) = Programmed(Program(m, a), b, j - 1)
    <3>1. Programmed(m, c, Len(a) + (j - 1)) = Programmed(Program(m, a), b, j - 1)
      BY <2>1, ProgrammedConcat
    <3>2. QED
      BY <2>1, <3>1
  <2>3. c[n] = b[j]
    BY <1>1, <2>1
  <2>4. TornAt(Program(m, a), b, j, m2)
    BY <1>2, <2>2, <2>3 DEF TornAt
  <2>5. QED
    BY <2>1, <2>4, TornIs
<1>5. QED
  BY <1>1, <1>3, <1>4

(* A memory that differs from m by some of the writes, or by junk in their *)
(* place.                                                                  *)
Touched(m, ws, m2) ==
  /\ m2 \in Memory
  /\ \A x \in Region : \/ m2[x] = m[x]
                       \/ \E i \in 1..Len(ws) : ws[i].addr = x /\ m2[x] \in {Junk, ws[i].word}

LEMMA ProgrammedTouches ==
  ASSUME NEW m \in Memory, NEW ws \in Seq(Writes), NEW n \in 0..Len(ws)
  PROVE  Touched(m, ws, Programmed(m, ws, n))
<1> DEFINE S == {j \in 0..n : Touched(m, ws, Programmed(m, ws, j))}
<1>1. 0 \in S
  <2>1. 0 \in 0..Len(ws) /\ 0 \in 0..n
    OBVIOUS
  <2>2. Programmed(m, ws, 0) = m
    BY <2>1, ProgrammedStep
  <2>3. QED
    BY <2>1, <2>2 DEF Touched
<1>2. ASSUME NEW j \in 0..n - 1, j \in S PROVE j + 1 \in S
  <2> DEFINE p == Programmed(m, ws, j)
             q == Programmed(m, ws, j + 1)
  <2>1. j \in Nat /\ j < Len(ws) /\ j + 1 \in 1..Len(ws) /\ j + 1 \in 0..n /\ j + 1 \in 0..Len(ws)
    OBVIOUS
  <2>2. q = [p EXCEPT ![ws[j + 1].addr] = ws[j + 1].word]
    BY <2>1, ProgrammedNext
  <2>3. q \in Memory
    BY <2>1, ProgrammedStep
  <2>4. Touched(m, ws, p)
    BY <1>2
  <2> HIDE DEF p, q
  <2>5. ASSUME NEW x \in Region
        PROVE  q[x] = m[x] \/ \E i \in 1..Len(ws) : ws[i].addr = x /\ q[x] \in {Junk, ws[i].word}
    <3>1. p \in Memory
      BY <2>4 DEF Touched
    <3>2. CASE ws[j + 1].addr = x
      <4>1. q[x] = ws[j + 1].word
        BY <2>2, <3>1, <3>2 DEF Memory
      <4>2. QED
        BY <2>1, <3>2, <4>1
    <3>3. CASE ws[j + 1].addr # x
      <4>1. q[x] = p[x]
        BY <2>2, <3>1, <3>3 DEF Memory
      <4>2. QED
        BY <2>4, <4>1 DEF Touched
    <3>4. QED
      BY <3>2, <3>3
  <2>6. Touched(m, ws, q)
    BY <2>3, <2>5 DEF Touched
  <2>7. QED
    BY <2>1, <2>6 DEF q
<1>3. n \in S
  <2> HIDE DEF S
  <2>1. n \in Nat /\ n \in 0..n
    OBVIOUS
  <2>2. \A j \in 0..n - 1 : j \in S => j + 1 \in S
    BY <1>2
  <2>3. 0..n \subseteq S
    BY <1>1, <2>1, <2>2, InductTo
  <2>4. QED
    BY <2>1, <2>3
<1>4. QED
  BY <1>3

LEMMA ProgramTouches ==
  ASSUME NEW m \in Memory, NEW ws \in Seq(Writes)
  PROVE  Touched(m, ws, Program(m, ws))
<1>1. Len(ws) \in 0..Len(ws)
  OBVIOUS
<1>2. QED
  BY <1>1, ProgrammedTouches DEF Program

LEMMA TornTouches ==
  ASSUME NEW m \in Memory, NEW ws \in Seq(Writes), NEW m2 \in Torn(m, ws)
  PROVE  Touched(m, ws, m2)
<1>1. PICK n \in 1..Len(ws) : TornAt(m, ws, n, m2)
  BY TornIs
<1> DEFINE p == Programmed(m, ws, n - 1)
<1>2. n - 1 \in 0..Len(ws)
  OBVIOUS
<1>3. Touched(m, ws, p)
  BY <1>2, ProgrammedTouches
<1>4. ws[n] \in Writes
  OBVIOUS
<1> HIDE DEF p
<1>5. m2 = p \/ m2 = [p EXCEPT ![ws[n].addr] = Junk]
  BY <1>1 DEF TornAt, p
<1>6. CASE m2 = p
  BY <1>3, <1>6
<1>7. CASE m2 = [p EXCEPT ![ws[n].addr] = Junk]
  <2>1. p \in Memory /\ ws[n].addr \in Region /\ Junk \in Cell
    BY <1>3, <1>4 DEF Touched, Writes, Cell
  <2>2. m2 \in Memory
    BY <1>7, <2>1 DEF Memory
  <2>3. ASSUME NEW x \in Region
        PROVE  m2[x] = m[x] \/ \E i \in 1..Len(ws) : ws[i].addr = x /\ m2[x] \in {Junk, ws[i].word}
    <3>1. CASE ws[n].addr = x
      <4>1. m2[x] = Junk
        BY <1>7, <2>1, <3>1 DEF Memory
      <4>2. QED
        BY <3>1, <4>1
    <3>2. CASE ws[n].addr # x
      <4>1. m2[x] = p[x]
        BY <1>7, <2>1, <3>2 DEF Memory
      <4>2. QED
        BY <1>3, <4>1 DEF Touched
    <3>3. QED
      BY <3>1, <3>2
  <2>4. QED
    BY <2>2, <2>3 DEF Touched
<1>8. QED
  BY <1>5, <1>6, <1>7

-----------------------------------------------------------------------------
(* Addresses.                                                              *)

Word == {Blank, Junk} \cup (Keys \X Data \X Nat)
Offsets == 0..Half - 1

LEMMA Bases ==
  /\ Half \in Nat \ {0}
  /\ Base(0) = 0 /\ Base(1) = Half
  /\ SuperOff(0) = 2 * Half /\ SuperOff(1) = 2 * Half + 1
  /\ \A h \in Halves : h = 0 \/ h = 1
  /\ Halves \subseteq Int
  /\ \A h \in Halves : 1 - h \in Halves /\ 1 - h # h /\ 1 - (1 - h) = h
  BY KvConstants DEF Base, SuperOff, Halves

LEMMA Addresses ==
  /\ \A h \in Halves, o \in Offsets : Base(h) + o \in Region
  /\ \A h, g \in Halves, o \in Offsets : Base(h) + o # SuperOff(g)
  /\ \A h, g \in Halves, o, q \in Offsets : Base(h) + o = Base(g) + q => h = g /\ o = q
  /\ \A h \in Halves : SuperOff(h) \in Region
  /\ \A h, g \in Halves : SuperOff(h) = SuperOff(g) => h = g
<1>1. ASSUME NEW h \in Halves, NEW o \in Offsets PROVE Base(h) + o \in Region
  BY Bases DEF Offsets, Region
<1>2. ASSUME NEW h \in Halves, NEW g \in Halves, NEW o \in Offsets PROVE Base(h) + o # SuperOff(g)
  BY Bases DEF Offsets
<1>3. ASSUME NEW h \in Halves, NEW g \in Halves, NEW o \in Offsets, NEW q \in Offsets,
             Base(h) + o = Base(g) + q
      PROVE  h = g /\ o = q
  BY <1>3, Bases DEF Offsets
<1>4. ASSUME NEW h \in Halves PROVE SuperOff(h) \in Region
  BY Bases DEF Region
<1>5. ASSUME NEW h \in Halves, NEW g \in Halves, SuperOff(h) = SuperOff(g) PROVE h = g
  BY <1>5, Bases
<1>6. QED
  BY <1>1, <1>2, <1>3, <1>4, <1>5

LEMMA WordsAreCells == Word \subseteq Cell /\ Nat \subseteq Cell /\ Blank \in Word /\ Junk \in Word
  BY DEF Word, Cell

(* Consecutive words. *)
LEMMA WordsAtIs ==
  ASSUME NEW h \in Halves, NEW o \in Nat, NEW words \in Seq(Word), o + Len(words) <= Half
  PROVE  LET ws == WordsAt(Base(h) + o, words)
         IN  /\ ws \in Seq(Writes) /\ Len(ws) = Len(words)
             /\ \A i \in 1..Len(words) :
                  /\ ws[i].addr = Base(h) + (o + i - 1) /\ ws[i].word = words[i]
                  /\ o + i - 1 \in Offsets
<1> DEFINE ws == WordsAt(Base(h) + o, words)
<1>0. Len(words) \in Nat /\ Base(h) \in Int
  BY Bases
<1>1. ws = [i \in 1..Len(words) |-> [addr |-> Base(h) + o + i - 1, word |-> words[i]]]
  BY DEF WordsAt, Write
<1>2. ASSUME NEW i \in 1..Len(words)
      PROVE  /\ [addr |-> Base(h) + o + i - 1, word |-> words[i]] \in Writes
             /\ Base(h) + o + i - 1 = Base(h) + (o + i - 1)
             /\ o + i - 1 \in Offsets
  <2>1. o + i - 1 \in Offsets
    BY Bases DEF Offsets
  <2>2. Base(h) + o + i - 1 = Base(h) + (o + i - 1)
    BY <1>0
  <2>3. Base(h) + (o + i - 1) \in Region
    BY <2>1, Addresses
  <2>4. words[i] \in Word
    OBVIOUS
  <2>5. words[i] \in Cell
    BY <2>4, WordsAreCells
  <2>6. QED
    BY <2>1, <2>2, <2>3, <2>5 DEF Writes
<1>3. ws \in [1..Len(words) -> Writes]
  BY <1>1, <1>2
<1>4. ws \in Seq(Writes) /\ Len(ws) = Len(words)
  BY <1>0, <1>3
<1>5. QED
  BY <1>1, <1>2, <1>4

(* The memory p is m with the first n of the words at offset o of half h.  *)
Wrote(m, h, o, words, n, p) ==
  /\ p \in Memory
  /\ \A i \in 1..n : p[Base(h) + (o + i - 1)] = words[i]
  /\ \A x \in Region : (\A i \in 1..n : x # Base(h) + (o + i - 1)) => p[x] = m[x]

LEMMA WordsWritten ==
  ASSUME NEW m \in Memory, NEW h \in Halves, NEW o \in Nat, NEW words \in Seq(Word),
         o + Len(words) <= Half, NEW n \in 0..Len(words)
  PROVE  Wrote(m, h, o, words, n, Programmed(m, WordsAt(Base(h) + o, words), n))
<1> DEFINE ws == WordsAt(Base(h) + o, words)
<1>1. /\ ws \in Seq(Writes) /\ Len(ws) = Len(words)
      /\ \A i \in 1..Len(words) :
           /\ ws[i].addr = Base(h) + (o + i - 1) /\ ws[i].word = words[i]
           /\ o + i - 1 \in Offsets
  BY WordsAtIs
<1> HIDE DEF ws
<1>2. n \in 0..Len(ws)
  BY <1>1
<1>3. Programmed(m, ws, n) \in Memory
  BY <1>1, <1>2, ProgrammedStep
<1>4. ASSUME NEW i \in 1..n PROVE Programmed(m, ws, n)[Base(h) + (o + i - 1)] = words[i]
  <2>1. i \in 1..Len(words) /\ Len(words) \in Nat
    OBVIOUS
  <2>2. ASSUME NEW j \in i + 1..n PROVE ws[j].addr # ws[i].addr
    <3>1. j \in 1..Len(words) /\ o + j - 1 # o + i - 1
      BY <2>1
    <3>2. /\ o + i - 1 \in Offsets /\ o + j - 1 \in Offsets
          /\ ws[i].addr = Base(h) + (o + i - 1) /\ ws[j].addr = Base(h) + (o + j - 1)
      BY <1>1, <2>1, <3>1
    <3>3. Base(h) + (o + i - 1) # Base(h) + (o + j - 1)
      BY <3>1, <3>2, Addresses
    <3>4. QED
      BY <3>2, <3>3
  <2>3. Programmed(m, ws, n)[ws[i].addr] = ws[i].word
    BY <1>1, <1>2, <2>2, Written
  <2>4. QED
    BY <1>1, <2>1, <2>3
<1>5. ASSUME NEW x \in Region, \A i \in 1..n : x # Base(h) + (o + i - 1)
      PROVE  Programmed(m, ws, n)[x] = m[x]
  <2>1. ASSUME NEW i \in 1..n PROVE ws[i].addr # x
    <3>1. i \in 1..Len(words)
      OBVIOUS
    <3>2. QED
      BY <1>1, <1>5, <3>1
  <2>2. QED
    BY <1>1, <1>2, <2>1, Unwritten
<1>6. QED
  BY <1>3, <1>4, <1>5 DEF Wrote, ws

(* Blanking. *)
Ascending(s) == \A i, j \in 1..Len(s) : i < j => s[i] < s[j]

LEMMA BlankWritesAre ==
  ASSUME NEW h \in Halves, NEW offs \in Seq(Offsets)
  PROVE  LET ws == BlankWrites(h, offs)
         IN  /\ ws \in Seq(Writes) /\ Len(ws) = Len(offs)
             /\ \A i \in 1..Len(offs) :
                  /\ ws[i].addr = Base(h) + offs[i] /\ ws[i].word = Blank
                  /\ offs[i] \in Offsets
<1> DEFINE ws == BlankWrites(h, offs)
<1>1. ws = [i \in 1..Len(offs) |-> [addr |-> Base(h) + offs[i], word |-> Blank]]
  BY DEF BlankWrites, Write
<1>2. ASSUME NEW i \in 1..Len(offs)
      PROVE  offs[i] \in Offsets /\ [addr |-> Base(h) + offs[i], word |-> Blank] \in Writes
  <2>1. offs[i] \in Offsets
    OBVIOUS
  <2>2. Base(h) + offs[i] \in Region
    BY <2>1, Addresses
  <2>3. QED
    BY <2>1, <2>2 DEF Writes, Cell
<1>3. ws \in [1..Len(offs) -> Writes]
  BY <1>1, <1>2
<1>4. ws \in Seq(Writes) /\ Len(ws) = Len(offs)
  <2>1. Len(offs) \in Nat
    OBVIOUS
  <2>2. QED
    BY <1>3, <2>1
<1>5. QED
  BY <1>1, <1>2, <1>4

LEMMA Blanked ==
  ASSUME NEW m \in Memory, NEW h \in Halves, NEW offs \in Seq(Offsets), Ascending(offs)
  PROVE  LET p == Program(m, BlankWrites(h, offs))
         IN  /\ p \in Memory
             /\ \A i \in 1..Len(offs) : p[Base(h) + offs[i]] = Blank
             /\ \A x \in Region : (\A i \in 1..Len(offs) : x # Base(h) + offs[i]) => p[x] = m[x]
<1> DEFINE ws == BlankWrites(h, offs)
<1>1. /\ ws \in Seq(Writes) /\ Len(ws) = Len(offs)
      /\ \A i \in 1..Len(offs) :
           /\ ws[i].addr = Base(h) + offs[i] /\ ws[i].word = Blank
           /\ offs[i] \in Offsets
  BY BlankWritesAre
<1> HIDE DEF ws
<1> DEFINE n == Len(ws)
<1>2. n \in 0..Len(ws) /\ n = Len(offs) /\ n \in Nat
  BY <1>1
<1>3. Programmed(m, ws, n) = Program(m, ws)
  BY DEF Program
<1> HIDE DEF n
<1>4. Programmed(m, ws, n) \in Memory
  BY <1>1, <1>2, ProgrammedStep
<1>5. ASSUME NEW i \in 1..Len(offs) PROVE Programmed(m, ws, n)[Base(h) + offs[i]] = Blank
  <2>1. i \in 1..n
    BY <1>2
  <2>2. ASSUME NEW j \in i + 1..n PROVE ws[j].addr # ws[i].addr
    <3>1. j \in 1..Len(offs) /\ i < j
      BY <1>2
    <3>2. offs[i] < offs[j] /\ offs[i] \in Offsets /\ offs[j] \in Offsets
      BY <1>1, <3>1 DEF Ascending
    <3>3. offs[i] # offs[j]
      BY <3>2 DEF Offsets
    <3>4. QED
      BY <1>1, <3>1, <3>2, <3>3, Addresses
  <2>3. Programmed(m, ws, n)[ws[i].addr] = ws[i].word
    BY <1>1, <1>2, <2>1, <2>2, Written
  <2>4. QED
    BY <1>1, <2>3
<1>6. ASSUME NEW x \in Region, \A i \in 1..Len(offs) : x # Base(h) + offs[i]
      PROVE  Programmed(m, ws, n)[x] = m[x]
  <2>1. ASSUME NEW i \in 1..n PROVE ws[i].addr # x
    BY <1>1, <1>2, <1>6
  <2>2. QED
    BY <1>1, <1>2, <2>1, Unwritten
<1>7. QED
  BY <1>3, <1>4, <1>5, <1>6 DEF ws

(* The superblock. *)
LEMMA Committed ==
  ASSUME NEW m \in Memory, NEW h \in Halves, NEW g \in Nat
  PROVE  /\ Commit(h, g) \in Seq(Writes) /\ Len(Commit(h, g)) = 2
         /\ \A i \in 1..2 : Commit(h, g)[i].addr = SuperOff(h)
         /\ Program(m, Commit(h, g)) = [m EXCEPT ![SuperOff(h)] = g]
         /\ \A m2 \in Torn(m, Commit(h, g)) : m2 = m \/ m2 = [m EXCEPT ![SuperOff(h)] = Junk]
<1> DEFINE ws == Commit(h, g)
           a == SuperOff(h)
           j == [m EXCEPT ![a] = Junk]
<1>0. a \in Region /\ Junk \in Cell /\ g \in Cell
  BY Addresses DEF Cell
<1>1. ws = <<[addr |-> a, word |-> Junk], [addr |-> a, word |-> g]>>
  BY DEF Commit, Write
<1>2. ws \in Seq(Writes) /\ Len(ws) = 2
  <2>1. [addr |-> a, word |-> Junk] \in Writes /\ [addr |-> a, word |-> g] \in Writes
    BY <1>0 DEF Writes
  <2>2. QED
    BY <1>1, <2>1
<1>3. ws[1].addr = a /\ ws[1].word = Junk /\ ws[2].addr = a /\ ws[2].word = g
  BY <1>1
<1> HIDE DEF ws, a
<1>4. Programmed(m, ws, 0) = m
  <2>1. 0 \in 0..Len(ws)
    BY <1>2
  <2>2. QED
    BY <1>2, <2>1, ProgrammedStep
<1>5. Programmed(m, ws, 1) = j
  <2>1. 0 \in Nat /\ 0 < Len(ws) /\ 0 + 1 = 1
    BY <1>2
  <2>2. Programmed(m, ws, 0 + 1) = [Programmed(m, ws, 0) EXCEPT ![ws[0 + 1].addr] = ws[0 + 1].word]
    BY <1>2, <2>1, ProgrammedNext
  <2>3. QED
    BY <1>3, <1>4, <2>2
<1>6. Programmed(m, ws, 2) = [m EXCEPT ![a] = g]
  <2>1. 1 \in Nat /\ 1 < Len(ws) /\ 1 + 1 = 2
    BY <1>2
  <2>2. Programmed(m, ws, 1 + 1) = [Programmed(m, ws, 1) EXCEPT ![ws[1 + 1].addr] = ws[1 + 1].word]
    BY <1>2, <2>1, ProgrammedNext
  <2>3. Programmed(m, ws, 2) = [j EXCEPT ![a] = g]
    BY <1>3, <1>5, <2>1, <2>2
  <2>4. QED
    BY <1>0, <2>3 DEF Memory
<1>7. ASSUME NEW m2 \in Torn(m, ws) PROVE m2 = m \/ m2 = j
  <2>1. PICK n \in 1..2 : TornAt(m, ws, n, m2)
    BY <1>2, TornIs
  <2>2. CASE n = 1
    <3>1. n - 1 = 0
      BY <2>2
    <3>2. QED
      BY <1>3, <1>4, <2>1, <2>2, <3>1 DEF TornAt
  <2>3. CASE n = 2
    <3>1. n - 1 = 1
      BY <2>3
    <3>2. m2 = j \/ m2 = [j EXCEPT ![a] = Junk]
      BY <1>3, <1>5, <2>1, <2>3, <3>1 DEF TornAt
    <3>3. [j EXCEPT ![a] = Junk] = j
      BY <1>0 DEF Memory
    <3>4. QED
      BY <3>2, <3>3
  <2>4. QED
    BY <2>2, <2>3
<1>8. Program(m, ws) = [m EXCEPT ![a] = g]
  BY <1>2, <1>6 DEF Program
<1>9. \A i \in 1..2 : ws[i].addr = a
  BY <1>3
<1>10. QED
  BY <1>2, <1>7, <1>8, <1>9 DEF ws, a

-----------------------------------------------------------------------------
(* The offsets to blank.                                                   *)

LEMMA AppendAscends ==
  ASSUME NEW s \in Seq(Int), Ascending(s), NEW x \in Int, \A i \in 1..Len(s) : s[i] < x
  PROVE  Ascending(Append(s, x))
<1> DEFINE t == Append(s, x)
<1>1. Len(t) = Len(s) + 1 /\ Len(s) \in Nat /\ t[Len(s) + 1] = x
      /\ \A i \in 1..Len(s) : t[i] = s[i]
  OBVIOUS
<1> HIDE DEF t
<1>2. ASSUME NEW i \in 1..Len(t), NEW j \in 1..Len(t), i < j PROVE t[i] < t[j]
  <2>1. i \in 1..Len(s)
    BY <1>1, <1>2
  <2>2. CASE j \in 1..Len(s)
    BY <1>1, <1>2, <2>1, <2>2 DEF Ascending
  <2>3. CASE j = Len(s) + 1
    BY <1>1, <2>1, <2>3
  <2>4. QED
    BY <1>1, <2>2, <2>3
<1>3. QED
  BY <1>2 DEF Ascending, t

IsDirty(d, m, h, from) ==
  /\ d \in Seq(Offsets) /\ Ascending(d)
  /\ \A j \in 1..Len(d) : d[j] >= from
  /\ \A o \in from..Half - 1 : m[Base(h) + o] # Blank => \E j \in 1..Len(d) : d[j] = o

LEMMA DirtyIs ==
  ASSUME NEW m, NEW h \in Halves, NEW from \in 0..Half
  PROVE  IsDirty(Dirty(m, h, from), m, h, from)
<1> DEFINE N == Half - from
           p == [i \in 1..N |-> IF m[Base(h) + (from + i - 1)] # Blank THEN <<from + i - 1>> ELSE <<>>]
<1>1. Half \in Nat /\ N \in Nat /\ from \in Nat
  BY Bases
<1>2. Dirty(m, h, from) = FlattenSeq(p)
  BY DEF Dirty
<1>3. ASSUME NEW i \in 1..N PROVE from + i - 1 \in Offsets
  BY <1>1 DEF Offsets
<1>4. p \in Seq(Seq(Offsets)) /\ Len(p) = N
  <2>1. ASSUME NEW i \in 1..N
        PROVE  (IF m[Base(h) + (from + i - 1)] # Blank THEN <<from + i - 1>> ELSE <<>>) \in Seq(Offsets)
    <3>1. <<from + i - 1>> \in Seq(Offsets) /\ <<>> \in Seq(Offsets)
      BY <1>3
    <3>2. QED
      BY <3>1
  <2>2. p \in [1..N -> Seq(Offsets)]
    BY <2>1
  <2>3. QED
    BY <1>1, <2>2
<1>5. \A i \in 1..N : p[i] = IF m[Base(h) + (from + i - 1)] # Blank THEN <<from + i - 1>> ELSE <<>>
  OBVIOUS
<1> HIDE DEF p, N
<1>6. PICK F : Flattens(F, p, Offsets)
  BY <1>4, Flattening
<1> DEFINE Good(i) == /\ F[i] \in Seq(Offsets) /\ Ascending(F[i])
                      /\ \A j \in 1..Len(F[i]) : F[i][j] \in from..from + i - 1
                      /\ \A o \in from..from + i - 1 :
                           m[Base(h) + o] # Blank => \E j \in 1..Len(F[i]) : F[i][j] = o
           S == {i \in 0..N : Good(i)}
<1>7. 0 \in S
  <2>1. F[0] = <<>> /\ 0 \in 0..N /\ from..from + 0 - 1 = {}
    BY <1>1, <1>6 DEF Flattens
  <2>2. Good(0)
    BY <2>1 DEF Ascending
  <2>3. QED
    BY <2>1, <2>2
<1>8. ASSUME NEW i \in 0..N - 1, i \in S PROVE i + 1 \in S
  <2> DEFINE o == from + i
             a == F[i]
             b == F[i + 1]
  <2>1. i + 1 \in 0..N /\ i + 1 \in 1..N /\ (i + 1) - 1 = i /\ from + (i + 1) - 1 = o
        /\ o \in Int /\ from..o = (from..from + i - 1) \cup {o} /\ i \in Nat
    BY <1>1
  <2>2. Good(i)
    BY <1>8
  <2>3. o \in Offsets
    BY <1>1, <2>1 DEF Offsets, N
  <2>4. b = a \o p[i + 1]
    BY <1>4, <1>6, <2>1 DEF Flattens
  <2>5. p[i + 1] = IF m[Base(h) + o] # Blank THEN <<o>> ELSE <<>>
    BY <1>5, <2>1
  <2>6. a \in Seq(Offsets) /\ Ascending(a)
        /\ (\A j \in 1..Len(a) : a[j] \in from..from + i - 1)
        /\ \A q \in from..from + i - 1 : m[Base(h) + q] # Blank => \E j \in 1..Len(a) : a[j] = q
    BY <2>2
  <2>7. \A j \in 1..Len(a) : a[j] < o
    BY <1>1, <2>1, <2>6
  <2>8. a \in Seq(Int)
    <3>1. Offsets \subseteq Int
      BY <1>1 DEF Offsets
    <3>2. a \in Seq(Offsets)
      BY <2>6
    <3>3. QED
      BY <3>1, <3>2, SeqMonotonic, Zenon
  <2> HIDE DEF o, a, b, Good
  <2>9. CASE m[Base(h) + o] # Blank
    <3>1. b = Append(a, o)
      BY <2>3, <2>4, <2>5, <2>6, <2>9
    <3>2. b \in Seq(Offsets) /\ Ascending(b)
      BY <2>1, <2>3, <2>6, <2>7, <2>8, <3>1, AppendAscends
    <3>3. Len(b) = Len(a) + 1 /\ Len(a) \in Nat /\ b[Len(a) + 1] = o
          /\ \A j \in 1..Len(a) : b[j] = a[j]
      BY <2>3, <2>6, <3>1
    <3>4. ASSUME NEW j \in 1..Len(b) PROVE b[j] \in from..o
      <4>1. CASE j \in 1..Len(a)
        BY <2>1, <2>6, <3>3, <4>1
      <4>2. CASE j = Len(a) + 1
        BY <2>1, <3>3, <4>2
      <4>3. QED
        BY <3>3, <4>1, <4>2
    <3>5. ASSUME NEW q \in from..o, m[Base(h) + q] # Blank PROVE \E j \in 1..Len(b) : b[j] = q
      <4>1. CASE q = o
        BY <3>3, <4>1
      <4>2. CASE q \in from..from + i - 1
        <5>1. PICK j \in 1..Len(a) : a[j] = q
          BY <2>6, <3>5, <4>2
        <5>2. j \in 1..Len(b)
          BY <3>3
        <5>3. QED
          BY <3>3, <5>1, <5>2
      <4>3. QED
        BY <2>1, <4>1, <4>2
    <3>6. Good(i + 1)
      BY <2>1, <3>2, <3>4, <3>5 DEF Good, b
    <3>7. QED
      BY <2>1, <3>6
  <2>10. CASE m[Base(h) + o] = Blank
    <3>1. b = a
      BY <2>4, <2>5, <2>6, <2>10
    <3>2. ASSUME NEW j \in 1..Len(b) PROVE b[j] \in from..o
      BY <2>1, <2>6, <3>1
    <3>3. ASSUME NEW q \in from..o, m[Base(h) + q] # Blank PROVE \E j \in 1..Len(b) : b[j] = q
      BY <2>1, <2>6, <2>10, <3>1, <3>3
    <3>4. Good(i + 1)
      BY <2>1, <2>6, <3>1, <3>2, <3>3 DEF Good, b
    <3>5. QED
      BY <2>1, <3>4
  <2>11. QED
    BY <2>9, <2>10
<1>9. Good(N)
  <2> HIDE DEF Good
  <2>1. \A i \in 0..N - 1 : i \in S => i + 1 \in S
    BY <1>8
  <2> HIDE DEF S
  <2>2. 0..N \subseteq S
    BY <1>1, <1>7, <2>1, InductTo
  <2>3. QED
    BY <1>1, <2>2 DEF S
<1>10. from + N - 1 = Half - 1 /\ FlattenSeq(p) = F[N]
  <2>1. from + N - 1 = Half - 1
    BY <1>1 DEF N
  <2>2. QED
    BY <1>4, <1>6, <2>1 DEF Flattens
<1>11. QED
  BY <1>1, <1>2, <1>9, <1>10 DEF IsDirty

(* One blanking step: everything below where it resumes is blank, nothing  *)
(* below where it began has changed.                                       *)
LEMMA BlankStep ==
  ASSUME NEW m \in Memory, NEW h \in Halves, NEW from \in 0..Half,
         NEW b \in 0..Len(Dirty(m, h, from))
  PROVE  LET d     == Dirty(m, h, from)
             reach == BlankReach(d, b)
             offs  == SubSeq(d, 1, b)
             p     == Program(m, BlankWrites(h, offs))
         IN  /\ offs \in Seq(Offsets) /\ Ascending(offs)
             /\ BlankWrites(h, offs) \in Seq(Writes)
             /\ reach \in from..Half /\ (b = Len(d) => reach = Half)
             /\ p \in Memory
             /\ \A o \in from..reach - 1 : p[Base(h) + o] = Blank
             /\ \A o \in Offsets : p[Base(h) + o] \in {Blank, m[Base(h) + o]}
             /\ \A x \in Region : (\A o \in from..Half - 1 : x # Base(h) + o) => p[x] = m[x]
<1> DEFINE d == Dirty(m, h, from)
           reach == BlankReach(d, b)
           offs == SubSeq(d, 1, b)
           p == Program(m, BlankWrites(h, offs))
<1>1. d \in Seq(Offsets) /\ Ascending(d) /\ (\A j \in 1..Len(d) : d[j] >= from)
      /\ \A o \in from..Half - 1 : m[Base(h) + o] # Blank => \E j \in 1..Len(d) : d[j] = o
  <2>1. IsDirty(d, m, h, from)
    BY DirtyIs
  <2> HIDE DEF d
  <2>2. QED
    BY <2>1 DEF IsDirty
<1>2. b \in 0..Len(d) /\ Len(d) \in Nat /\ b \in Nat /\ Half \in Nat /\ from \in Nat
  BY Bases
<1>3. reach = IF b = Len(d) THEN Half ELSE d[b + 1]
  BY DEF BlankReach
<1> HIDE DEF d, reach
<1>4. offs \in Seq(Offsets) /\ Len(offs) = b /\ \A j \in 1..b : offs[j] = d[j]
  BY <1>1, <1>2
<1> HIDE DEF offs
<1>5. Ascending(offs)
  BY <1>1, <1>2, <1>4 DEF Ascending
<1>6. BlankWrites(h, offs) \in Seq(Writes)
  BY <1>4, BlankWritesAre
<1>7. reach \in from..Half /\ (b = Len(d) => reach = Half)
  <2>1. CASE b = Len(d)
    BY <1>2, <1>3, <2>1
  <2>2. CASE b # Len(d)
    <3>1. b + 1 \in 1..Len(d)
      BY <1>2, <2>2
    <3>2. d[b + 1] \in Offsets /\ d[b + 1] >= from
      BY <1>1, <3>1
    <3>3. QED
      BY <1>2, <1>3, <2>2, <3>2 DEF Offsets
  <2>3. QED
    BY <2>1, <2>2
<1>8. p \in Memory
      /\ (\A i \in 1..b : p[Base(h) + offs[i]] = Blank)
      /\ \A x \in Region : (\A i \in 1..b : x # Base(h) + offs[i]) => p[x] = m[x]
  BY <1>4, <1>5, Blanked
<1> HIDE DEF p
<1>9. ASSUME NEW o \in Offsets PROVE p[Base(h) + o] \in {Blank, m[Base(h) + o]}
  <2>1. Base(h) + o \in Region
    BY Addresses
  <2>2. CASE \E i \in 1..b : Base(h) + o = Base(h) + offs[i]
    BY <1>8, <2>2
  <2>3. CASE \A i \in 1..b : Base(h) + o # Base(h) + offs[i]
    BY <1>8, <2>1, <2>3
  <2>4. QED
    BY <2>2, <2>3
<1>10. ASSUME NEW x \in Region, \A o \in from..Half - 1 : x # Base(h) + o PROVE p[x] = m[x]
  <2>1. ASSUME NEW i \in 1..b PROVE x # Base(h) + offs[i]
    <3>1. i \in 1..Len(d)
      BY <1>2
    <3>2. d[i] \in Offsets /\ d[i] >= from
      BY <1>1, <3>1
    <3>3. offs[i] \in from..Half - 1
      BY <1>2, <1>4, <3>2 DEF Offsets
    <3>4. QED
      BY <1>10, <3>3
  <2>2. QED
    BY <1>8, <2>1
<1>11. ASSUME NEW o \in from..reach - 1 PROVE p[Base(h) + o] = Blank
  <2>1. o \in from..Half - 1 /\ o \in Offsets
    BY <1>2, <1>7 DEF Offsets
  <2>2. CASE m[Base(h) + o] = Blank
    BY <1>9, <2>1, <2>2
  <2>3. CASE m[Base(h) + o] # Blank
    <3>1. PICK j \in 1..Len(d) : d[j] = o
      BY <1>1, <2>1, <2>3
    <3>2. j <= b
      <4>1. SUFFICES ASSUME j > b PROVE FALSE
        BY <1>2
      <4>2. b # Len(d) /\ b + 1 \in 1..Len(d) /\ (j = b + 1 \/ b + 1 < j)
        BY <1>2, <4>1
      <4>3. reach = d[b + 1]
        BY <1>3, <4>2
      <4>4. d[b + 1] \in Offsets
        BY <1>1, <4>2
      <4>5. reach <= o
        BY <1>1, <2>1, <3>1, <4>2, <4>3, <4>4 DEF Ascending, Offsets
      <4>6. QED
        BY <1>2, <1>7, <4>5
    <3>3. j \in 1..b /\ offs[j] = o
      BY <1>2, <1>4, <3>1, <3>2
    <3>4. QED
      BY <1>8, <3>3
  <2>4. QED
    BY <2>2, <2>3
<1>12. QED
  BY <1>4, <1>5, <1>6, <1>7, <1>8, <1>9, <1>10, <1>11 DEF d, reach, offs, p

-----------------------------------------------------------------------------
(* Records.                                                                *)

Typed(m) ==
  /\ m \in Memory
  /\ \A h \in Halves, o \in Offsets : m[Base(h) + o] \in Word
  /\ \A h \in Halves : m[SuperOff(h)] \in {Blank, Junk} \cup (Nat \ {0})

Rec == [off : Offsets, key : Keys, val : Data]

RecAt(m, h, o) == [off |-> o, key |-> m[Base(h) + o][1], val |-> m[Base(h) + o][2]]

LEMMA Sizes == \A v \in Data : Size(v) \in Nat \ {0} /\ Size(v) \in Nat /\ Size(v) \in Int /\ Size(v) > 0
<1> SUFFICES ASSUME NEW v \in Data PROVE Size(v) \in Nat \ {0}
  OBVIOUS
<1>1. Header \in Nat \ {0} /\ WordsOf \in [Values -> Nat \ {0}]
  BY KvConstants
<1>2. CASE v = Absent
  BY <1>1, <1>2 DEF Size
<1>3. CASE v # Absent
  <2>1. WordsOf[v] \in Nat \ {0}
    BY <1>1, <1>3 DEF Data
  <2>2. QED
    BY <1>1, <1>3, <2>1 DEF Size
<1>4. QED
  BY <1>2, <1>3

LEMMA RecordFields ==
  \A r \in Rec : /\ r.off \in Offsets /\ r.off \in Nat /\ r.key \in Keys /\ r.val \in Data
                 /\ Size(r.val) \in Nat \ {0} /\ Size(r.val) \in Nat
<1> SUFFICES ASSUME NEW r \in Rec
             PROVE  /\ r.off \in Offsets /\ r.off \in Nat /\ r.key \in Keys /\ r.val \in Data
                    /\ Size(r.val) \in Nat \ {0} /\ Size(r.val) \in Nat
  OBVIOUS
<1>1. r.off \in Offsets /\ r.key \in Keys /\ r.val \in Data
  BY DEF Rec
<1>2. r.off \in Nat
  BY <1>1, Bases DEF Offsets
<1>3. QED
  BY <1>1, <1>2, Sizes

(* What a record is made of. *)
LEMMA RecordIs ==
  ASSUME NEW m, Typed(m), NEW h \in Halves, NEW o \in Nat, IsRecord(m, h, o)
  PROVE  LET r == RecAt(m, h, o)
         IN  /\ r \in Rec /\ o + Size(r.val) \in o + 1..Half
             /\ \A i \in 0..Size(r.val) - 1 : m[Base(h) + (o + i)] = <<r.key, r.val, i>>
<1> DEFINE w == m[Base(h) + o]
           r == RecAt(m, h, o)
<1>1. o \in Offsets
  BY Bases DEF IsRecord, Offsets
<1>2. w \in Keys \X Data \X Nat
  <2>1. w \in Word
    BY <1>1 DEF Typed
  <2>2. w \notin {Blank, Junk}
    BY DEF IsRecord
  <2>3. QED
    BY <2>1, <2>2 DEF Word
<1>3. w = <<w[1], w[2], w[3]>> /\ w[1] \in Keys /\ w[2] \in Data /\ w[3] = 0
  BY <1>2 DEF IsRecord
<1>4. r = [off |-> o, key |-> w[1], val |-> w[2]]
  BY DEF RecAt
<1> HIDE DEF r
<1>5. r \in Rec /\ r.key = w[1] /\ r.val = w[2]
  BY <1>1, <1>3, <1>4 DEF Rec
<1>6. Size(r.val) \in Nat \ {0}
  BY <1>3, <1>5, Sizes
<1>7. o + Size(r.val) \in o + 1..Half
  <2>1. o + Size(r.val) <= Half
    BY <1>5 DEF IsRecord
  <2>2. QED
    BY <1>6, <2>1, Bases
<1>8. ASSUME NEW i \in 0..Size(r.val) - 1 PROVE m[Base(h) + (o + i)] = <<r.key, r.val, i>>
  <2>1. CASE i = 0
    BY <1>3, <1>5, <2>1
  <2>2. CASE i # 0
    <3>1. i \in 1..Size(w[2]) - 1
      BY <1>5, <1>6, <2>2
    <3>2. m[Base(h) + o + i] = [w EXCEPT ![3] = i]
      BY <3>1 DEF IsRecord
    <3>3. [w EXCEPT ![3] = i] = <<w[1], w[2], i>>
      BY <1>3
    <3>4. Base(h) + o + i = Base(h) + (o + i)
      BY <1>6, Bases
    <3>5. QED
      BY <1>5, <3>2, <3>3, <3>4
  <2>3. QED
    BY <2>1, <2>2
<1>9. QED
  BY <1>5, <1>7, <1>8 DEF r

LEMMA RecordWhen ==
  ASSUME NEW m, NEW h \in Halves, NEW o \in Nat, NEW k \in Keys, NEW v \in Data,
         o + Size(v) <= Half,
         \A i \in 0..Size(v) - 1 : m[Base(h) + (o + i)] = <<k, v, i>>
  PROVE  IsRecord(m, h, o) /\ RecAt(m, h, o) = [off |-> o, key |-> k, val |-> v]
<1> DEFINE w == m[Base(h) + o]
<1>1. Size(v) \in Nat \ {0} /\ Half \in Nat
  BY Sizes, Bases
<1>2. w = <<k, v, 0>>
  <2>1. 0 \in 0..Size(v) - 1 /\ Base(h) + (o + 0) = Base(h) + o
    BY <1>1, Bases
  <2>2. QED
    BY <2>1
<1>3. w[1] = k /\ w[2] = v /\ w[3] = 0
  BY <1>2
<1>4. w \notin {Blank, Junk}
  <2>1. w \in Keys \X Data \X Nat
    BY <1>2
  <2>2. QED
    BY <2>1, KvNames
<1>5. ASSUME NEW i \in 1..Size(v) - 1 PROVE m[Base(h) + o + i] = [w EXCEPT ![3] = i]
  <2>1. i \in 0..Size(v) - 1 /\ Base(h) + o + i = Base(h) + (o + i)
    BY <1>1, Bases
  <2>2. m[Base(h) + o + i] = <<k, v, i>>
    BY <2>1
  <2>3. [w EXCEPT ![3] = i] = <<k, v, i>>
    BY <1>2
  <2>4. QED
    BY <2>2, <2>3
<1>6. o < Half
  BY <1>1
<1>7. IsRecord(m, h, o)
  BY <1>3, <1>4, <1>5, <1>6 DEF IsRecord
<1>8. QED
  BY <1>3, <1>7 DEF RecAt

-----------------------------------------------------------------------------
(* Logs.                                                                   *)

EndFrom(l, o) == IF Len(l) = 0 THEN o ELSE l[Len(l)].off + Size(l[Len(l)].val)

(* Records one after the other from offset o. *)
Chained(m, h, o, l) ==
  /\ l \in Seq(Rec)
  /\ \A i \in 1..Len(l) :
       /\ l[i].off = IF i = 1 THEN o ELSE l[i - 1].off + Size(l[i - 1].val)
       /\ IsRecord(m, h, l[i].off) /\ RecAt(m, h, l[i].off) = l[i]
  /\ EndFrom(l, o) \in o..Half

(* All of them. *)
LogFrom(m, h, o, l) == Chained(m, h, o, l) /\ ~IsRecord(m, h, EndFrom(l, o))

LEMMA LogNone ==
  ASSUME NEW m, NEW h \in Halves, NEW o \in 0..Half, ~IsRecord(m, h, o)
  PROVE  LogFrom(m, h, o, <<>>)
<1>1. o \in o..Half
  BY Bases
<1>2. EndFrom(<<>>, o) = o
  BY DEF EndFrom
<1>3. QED
  BY <1>1, <1>2 DEF LogFrom, Chained

LEMMA LogFirst ==
  ASSUME NEW m, Typed(m), NEW h \in Halves, NEW o \in 0..Half, IsRecord(m, h, o),
         NEW l, LogFrom(m, h, o + Size(RecAt(m, h, o).val), l)
  PROVE  LogFrom(m, h, o, <<RecAt(m, h, o)>> \o l)
<1> DEFINE r == RecAt(m, h, o)
           n == o + Size(r.val)
           x == <<r>> \o l
<1>0. o \in Nat
  BY Bases
<1>1. r \in Rec /\ n \in o + 1..Half
  BY <1>0, RecordIs
<1>2. r.off = o
  BY DEF RecAt
<1>3. l \in Seq(Rec) /\ EndFrom(l, n) \in n..Half /\ ~IsRecord(m, h, EndFrom(l, n))
      /\ \A i \in 1..Len(l) :
           /\ l[i].off = IF i = 1 THEN n ELSE l[i - 1].off + Size(l[i - 1].val)
           /\ IsRecord(m, h, l[i].off) /\ RecAt(m, h, l[i].off) = l[i]
  BY DEF LogFrom, Chained
<1>4. x \in Seq(Rec) /\ Len(x) = Len(l) + 1 /\ x[1] = r /\ \A i \in 1..Len(l) : x[i + 1] = l[i]
  <2>1. <<r>> \in Seq(Rec) /\ Len(<<r>>) = 1 /\ <<r>>[1] = r
    BY <1>1
  <2> HIDE DEF r
  <2>2. x \in Seq(Rec) /\ Len(x) = Len(<<r>>) + Len(l)
        /\ (\A i \in 1..Len(<<r>>) : x[i] = <<r>>[i])
        /\ \A i \in 1..Len(l) : x[Len(<<r>>) + i] = l[i]
    BY <1>3, <2>1, ConcatProps
  <2>3. x[1] = r
    BY <2>1, <2>2
  <2>4. ASSUME NEW i \in 1..Len(l) PROVE x[i + 1] = l[i]
    <3>1. x[Len(<<r>>) + i] = l[i]
      BY <2>2
    <3>2. Len(<<r>>) + i = i + 1
      BY <2>1
    <3>3. QED
      BY <3>1, <3>2
  <2>5. Len(x) = Len(l) + 1
    BY <1>3, <2>1, <2>2
  <2>6. QED
    BY <2>2, <2>3, <2>4, <2>5
<1>5. Len(l) \in Nat
  BY <1>3
<1> HIDE DEF x, r
<1>6. EndFrom(x, o) = EndFrom(l, n)
  <2>1. CASE Len(l) = 0
    BY <1>2, <1>4, <2>1 DEF EndFrom
  <2>2. CASE Len(l) # 0
    <3>1. Len(l) \in 1..Len(l) /\ Len(x) # 0
      BY <1>4, <1>5, <2>2
    <3>2. x[Len(x)] = l[Len(l)]
      BY <1>4, <3>1
    <3>3. QED
      BY <2>2, <3>1, <3>2 DEF EndFrom
  <2>3. QED
    BY <2>1, <2>2
<1>7. ASSUME NEW i \in 1..Len(x)
      PROVE  /\ x[i].off = IF i = 1 THEN o ELSE x[i - 1].off + Size(x[i - 1].val)
             /\ IsRecord(m, h, x[i].off) /\ RecAt(m, h, x[i].off) = x[i]
  <2>1. CASE i = 1
    BY <1>2, <1>4, <2>1 DEF r
  <2>2. CASE i # 1
    <3> DEFINE j == i - 1
    <3>1. j \in 1..Len(l) /\ i = j + 1
      BY <1>4, <1>5, <2>2
    <3> HIDE DEF j
    <3>2. x[i] = l[j]
      BY <1>4, <3>1
    <3>3. x[i - 1].off + Size(x[i - 1].val) = IF j = 1 THEN n ELSE l[j - 1].off + Size(l[j - 1].val)
      <4>1. i - 1 = j
        BY <3>1
      <4>2. CASE j = 1
        BY <1>2, <1>4, <4>1, <4>2
      <4>3. CASE j # 1
        <5>1. j - 1 \in 1..Len(l) /\ (j - 1) + 1 = j
          BY <3>1, <4>3
        <5>2. x[j] = l[j - 1]
          <6>1. x[(j - 1) + 1] = l[j - 1]
            BY <1>4, <5>1
          <6>2. QED
            BY <5>1, <6>1
        <5>3. QED
          BY <4>1, <4>3, <5>2
      <4>4. QED
        BY <4>2, <4>3
    <3>4. QED
      BY <1>3, <2>2, <3>1, <3>2, <3>3
  <2>3. QED
    BY <2>1, <2>2
<1>8. EndFrom(x, o) \in o..Half
  BY <1>1, <1>3, <1>6, <1>0
<1>9. LogFrom(m, h, o, x)
  BY <1>3, <1>4, <1>6, <1>7, <1>8 DEF LogFrom, Chained
<1>10. QED
  BY <1>9 DEF x, r

LogBody(m, h, a) ==
  [o \in 0..Half |->
     IF IsRecord(m, h, o) THEN <<RecAt(m, h, o)>> \o a[o + Size(RecAt(m, h, o).val)] ELSE <<>>]

LEMMA LogRecursion ==
  ASSUME NEW m, Typed(m), NEW h \in Halves
  PROVE  \E a : a = LogBody(m, h, a)
<1> DEFINE Part(n, f) == \A o \in Half - n..Half :
                           f[o] = IF IsRecord(m, h, o)
                                    THEN <<RecAt(m, h, o)>> \o f[o + Size(RecAt(m, h, o).val)]
                                    ELSE <<>>
           S == {n \in 0..Half : \E f : Part(n, f)}
<1>0. Half \in Nat /\ Half \in 0..Half
  BY Bases
<1>1. 0 \in S
  <2> DEFINE f == [o \in 0..Half |-> <<>>]
  <2>1. ~IsRecord(m, h, Half)
    BY <1>0 DEF IsRecord
  <2>2. Part(0, f)
    BY <1>0, <2>1
  <2>3. 0 \in 0..Half
    BY <1>0
  <2> HIDE DEF f, Part
  <2>4. QED
    BY <2>2, <2>3
<1>2. ASSUME NEW n \in 0..Half - 1, n \in S PROVE n + 1 \in S
  <2>1. PICK f : Part(n, f)
    BY <1>2
  <2> DEFINE c == Half - (n + 1)
             y == IF IsRecord(m, h, c) THEN <<RecAt(m, h, c)>> \o f[c + Size(RecAt(m, h, c).val)]
                                       ELSE <<>>
             g == [o \in 0..Half |-> IF o = c THEN y ELSE f[o]]
  <2>2. c \in 0..Half /\ c + 1 = Half - n /\ c \in Nat /\ n + 1 \in 0..Half /\ n \in Nat
    BY <1>0
  <2>3. ASSUME NEW o \in c..Half, IsRecord(m, h, o)
        PROVE  o + Size(RecAt(m, h, o).val) \in o + 1..Half
    <3>1. o \in Nat
      BY <2>2
    <3>2. QED
      BY <2>3, <3>1, RecordIs
  <2>4. ASSUME NEW o \in c..Half
        PROVE  g[o] = IF IsRecord(m, h, o)
                        THEN <<RecAt(m, h, o)>> \o g[o + Size(RecAt(m, h, o).val)]
                        ELSE <<>>
    <3>1. g[o] = IF IsRecord(m, h, o)
                   THEN <<RecAt(m, h, o)>> \o f[o + Size(RecAt(m, h, o).val)]
                   ELSE <<>>
      <4>1. CASE o = c
        BY <2>2, <4>1
      <4>2. CASE o # c
        <5>1. o \in Half - n..Half /\ o \in 0..Half
          BY <1>0, <2>2, <4>2
        <5>2. g[o] = f[o]
          BY <4>2, <5>1
        <5> HIDE DEF g
        <5>3. QED
          BY <2>1, <5>1, <5>2
      <4>3. QED
        BY <4>1, <4>2
    <3>2. CASE IsRecord(m, h, o)
      <4> DEFINE q == o + Size(RecAt(m, h, o).val)
      <4>1. q \in o + 1..Half
        BY <2>3, <3>2
      <4> HIDE DEF q
      <4>2. q # c /\ q \in 0..Half
        BY <1>0, <2>2, <4>1
      <4>3. g[q] = f[q]
        BY <4>2
      <4> HIDE DEF g
      <4>4. QED
        BY <3>1, <3>2, <4>3 DEF q
    <3>3. CASE ~IsRecord(m, h, o)
      <4> HIDE DEF g
      <4>1. QED
        BY <3>1, <3>3
    <3>4. QED
      BY <3>2, <3>3
  <2> HIDE DEF g
  <2>5. Part(n + 1, g)
    BY <2>4
  <2> HIDE DEF Part
  <2>6. QED
    BY <2>2, <2>5
<1>3. Half \in S
  <2> HIDE DEF Part
  <2>1. \A n \in 0..Half - 1 : n \in S => n + 1 \in S
    BY <1>2
  <2> HIDE DEF S
  <2>2. 0..Half \subseteq S
    BY <1>0, <1>1, <2>1, InductTo
  <2>3. QED
    BY <1>0, <2>2
<1>4. PICK f : Part(Half, f)
  BY <1>3
<1> DEFINE a == [o \in 0..Half |-> f[o]]
<1>5. ASSUME NEW o \in 0..Half
      PROVE  a[o] = IF IsRecord(m, h, o)
                      THEN <<RecAt(m, h, o)>> \o a[o + Size(RecAt(m, h, o).val)]
                      ELSE <<>>
  <2>1. o \in Half - Half..Half /\ o \in Nat /\ a[o] = f[o]
    BY <1>0
  <2>2. CASE IsRecord(m, h, o)
    <3>1. o + Size(RecAt(m, h, o).val) \in o + 1..Half
      BY <2>1, <2>2, RecordIs
    <3>2. o + Size(RecAt(m, h, o).val) \in 0..Half
      BY <1>0, <2>1, <3>1
    <3>3. a[o + Size(RecAt(m, h, o).val)] = f[o + Size(RecAt(m, h, o).val)]
      BY <3>2
    <3> HIDE DEF a
    <3>4. QED
      BY <1>4, <2>1, <2>2, <3>3
  <2>3. CASE ~IsRecord(m, h, o)
    <3> HIDE DEF a
    <3>1. QED
      BY <1>4, <2>1, <2>3
  <2>4. QED
    BY <2>2, <2>3
<1>6. a = LogBody(m, h, a)
  <2> DEFINE b == LogBody(m, h, a)
  <2>1. ASSUME NEW o \in 0..Half PROVE a[o] = b[o]
    <3> HIDE DEF a
    <3>1. QED
      BY <1>5 DEF LogBody
  <2>2. DOMAIN b = 0..Half /\ b = [o \in 0..Half |-> b[o]]
    BY DEF LogBody
  <2> HIDE DEF b
  <2>3. [o \in 0..Half |-> b[o]] = [o \in 0..Half |-> f[o]]
    BY <2>1
  <2>4. QED
    BY <2>2, <2>3 DEF b
<1>7. QED
  BY <1>6

(* The log is all the records, one after the other, from the bottom. *)
LEMMA LogIs ==
  ASSUME NEW m, Typed(m), NEW h \in Halves
  PROVE  LogFrom(m, h, 0, Log(m, h))
<1> DEFINE B(a) == [o \in 0..Half |->
                      IF IsRecord(m, h, o)
                        THEN LET w == m[Base(h) + o]
                             IN  <<[off |-> o, key |-> w[1], val |-> w[2]]>> \o a[o + Size(w[2])]
                        ELSE <<>>]
           from == CHOOSE a : a = B(a)
<1>0. Half \in Nat /\ 0 \in 0..Half
  BY Bases
<1>1. ASSUME NEW a PROVE B(a) = LogBody(m, h, a)
  BY DEF LogBody, RecAt
<1>2. PICK a : a = LogBody(m, h, a)
  BY LogRecursion
<1>3. a = B(a)
  BY <1>1, <1>2
<1>4. from = B(from)
  <2> HIDE DEF B
  <2>1. QED
    BY <1>3
<1>5. Log(m, h) = from[0]
  BY DEF Log
<1>6. from = LogBody(m, h, from)
  BY <1>1, <1>4
<1> HIDE DEF from, B
<1>7. ASSUME NEW o \in 0..Half
      PROVE  from[o] = IF IsRecord(m, h, o)
                         THEN <<RecAt(m, h, o)>> \o from[o + Size(RecAt(m, h, o).val)]
                         ELSE <<>>
  <2>1. from[o] = LogBody(m, h, from)[o]
    BY <1>6
  <2>2. QED
    BY <2>1 DEF LogBody
<1> DEFINE Good(n) == \A o \in Half - n..Half : LogFrom(m, h, o, from[o])
           S == {n \in 0..Half : Good(n)}
<1>8. ASSUME NEW o \in 0..Half, \A q \in o + 1..Half : LogFrom(m, h, q, from[q])
      PROVE  LogFrom(m, h, o, from[o])
  <2>1. CASE ~IsRecord(m, h, o)
    <3>1. from[o] = <<>>
      BY <1>7, <2>1
    <3>2. LogFrom(m, h, o, <<>>)
      BY <2>1, LogNone
    <3>3. QED
      BY <3>1, <3>2
  <2>2. CASE IsRecord(m, h, o)
    <3> DEFINE q == o + Size(RecAt(m, h, o).val)
    <3>1. o \in Nat
      BY <1>0
    <3>2. q \in o + 1..Half
      BY <2>2, <3>1, RecordIs
    <3>3. LogFrom(m, h, q, from[q])
      <4> HIDE DEF q
      <4>1. QED
        BY <1>8, <3>2
    <3>4. LogFrom(m, h, o, <<RecAt(m, h, o)>> \o from[q])
      BY <2>2, <3>3, LogFirst
    <3>5. from[o] = <<RecAt(m, h, o)>> \o from[q]
      BY <1>7, <2>2
    <3>6. QED
      BY <3>4, <3>5
  <2>3. QED
    BY <2>1, <2>2
<1>9. 0 \in S
  <2>1. ASSUME NEW o \in Half - 0..Half PROVE LogFrom(m, h, o, from[o])
    <3>1. o \in 0..Half /\ o + 1..Half = {}
      BY <1>0
    <3>2. QED
      BY <1>8, <3>1
  <2>2. Good(0)
    BY <2>1
  <2>3. QED
    BY <1>0, <2>2
<1>10. ASSUME NEW n \in 0..Half - 1, n \in S PROVE n + 1 \in S
  <2>1. Good(n)
    BY <1>10
  <2>2. ASSUME NEW o \in Half - (n + 1)..Half PROVE LogFrom(m, h, o, from[o])
    <3>1. o \in 0..Half /\ \A q \in o + 1..Half : q \in Half - n..Half
      BY <1>0
    <3>2. QED
      BY <1>8, <2>1, <3>1
  <2>3. Good(n + 1)
    BY <2>2
  <2>4. n + 1 \in 0..Half
    BY <1>0
  <2> HIDE DEF Good
  <2>5. QED
    BY <2>3, <2>4
<1>11. Good(Half)
  <2> HIDE DEF Good
  <2>1. \A n \in 0..Half - 1 : n \in S => n + 1 \in S
    BY <1>10
  <2> HIDE DEF S
  <2>2. 0..Half \subseteq S
    BY <1>0, <1>9, <2>1, InductTo
  <2>3. Half \in 0..Half
    BY <1>0
  <2>4. QED
    BY <2>2, <2>3 DEF S
<1>12. LogFrom(m, h, 0, from[0])
  <2>1. 0 \in Half - Half..Half
    BY <1>0
  <2>2. QED
    BY <1>11, <2>1
<1>13. QED
  BY <1>5, <1>12

(* And nothing else is. *)
LEMMA LogUnique ==
  ASSUME NEW m, NEW h \in Halves, NEW l, LogFrom(m, h, 0, l), NEW x, LogFrom(m, h, 0, x)
  PROVE  Len(l) <= Len(x) /\ \A i \in 1..Len(l) : l[i] = x[i]
<1> DEFINE S == {n \in 0..Len(l) : n <= Len(x) /\ \A i \in 1..n : l[i] = x[i]}
<1>1. l \in Seq(Rec) /\ x \in Seq(Rec) /\ Len(l) \in Nat /\ Len(x) \in Nat
      /\ \A i \in 1..Len(l) :
           /\ l[i].off = IF i = 1 THEN 0 ELSE l[i - 1].off + Size(l[i - 1].val)
           /\ IsRecord(m, h, l[i].off) /\ RecAt(m, h, l[i].off) = l[i]
  BY DEF LogFrom, Chained
<1>2. ~IsRecord(m, h, EndFrom(x, 0))
      /\ \A i \in 1..Len(x) :
           /\ x[i].off = IF i = 1 THEN 0 ELSE x[i - 1].off + Size(x[i - 1].val)
           /\ IsRecord(m, h, x[i].off) /\ RecAt(m, h, x[i].off) = x[i]
  BY DEF LogFrom, Chained
<1>3. 0 \in S
  BY <1>1
<1>4. ASSUME NEW n \in 0..Len(l) - 1, n \in S PROVE n + 1 \in S
  <2>1. n <= Len(x) /\ (\A i \in 1..n : l[i] = x[i]) /\ n \in Nat
    BY <1>4
  <2>2. n + 1 \in 1..Len(l) /\ n + 1 \in 0..Len(l)
    BY <1>1
  <2>3. l[n + 1].off = EndFrom(x, 0) \/ n # Len(x)
    <3>1. SUFFICES ASSUME n = Len(x) PROVE l[n + 1].off = EndFrom(x, 0)
      OBVIOUS
    <3>2. CASE n = 0
      <4>1. n + 1 = 1
        BY <3>2
      <4>2. l[n + 1].off = 0
        BY <1>1, <2>2, <4>1
      <4>3. QED
        BY <3>1, <3>2, <4>2 DEF EndFrom
    <3>3. CASE n # 0
      <4>1. n + 1 # 1 /\ (n + 1) - 1 = n /\ n \in 1..n
        BY <2>1, <3>3
      <4>2. l[n + 1].off = l[n].off + Size(l[n].val)
        BY <1>1, <2>2, <4>1
      <4>3. l[n] = x[n]
        BY <2>1, <4>1
      <4>4. QED
        BY <3>1, <3>3, <4>2, <4>3 DEF EndFrom
    <3>4. QED
      BY <3>2, <3>3
  <2>4. n # Len(x)
    BY <1>1, <1>2, <2>2, <2>3
  <2>5. n + 1 \in 1..Len(x) /\ n + 1 <= Len(x)
    BY <1>1, <2>1, <2>4
  <2>6. l[n + 1].off = x[n + 1].off
    <3>1. CASE n = 0
      <4>1. n + 1 = 1
        BY <3>1
      <4>2. QED
        BY <1>1, <1>2, <2>2, <2>5, <4>1
    <3>2. CASE n # 0
      <4>1. n + 1 # 1 /\ (n + 1) - 1 = n /\ n \in 1..n
        BY <2>1, <3>2
      <4>2. l[n + 1].off = l[n].off + Size(l[n].val) /\ x[n + 1].off = x[n].off + Size(x[n].val)
        BY <1>1, <1>2, <2>2, <2>5, <4>1
      <4>3. l[n] = x[n]
        BY <2>1, <4>1
      <4>4. QED
        BY <4>2, <4>3
    <3>3. QED
      BY <3>1, <3>2
  <2>7. l[n + 1] = x[n + 1]
    BY <1>1, <1>2, <2>2, <2>5, <2>6
  <2>8. \A i \in 1..n + 1 : i = n + 1 \/ i \in 1..n
    BY <2>1
  <2>9. QED
    BY <2>1, <2>2, <2>5, <2>7, <2>8
<1>5. Len(l) \in S
  <2>1. \A n \in 0..Len(l) - 1 : n \in S => n + 1 \in S
    BY <1>4
  <2> HIDE DEF S
  <2>2. 0..Len(l) \subseteq S
    BY <1>1, <1>3, <2>1, InductTo
  <2>3. QED
    BY <1>1, <2>2
<1>6. QED
  BY <1>5

LEMMA LogIsThat ==
  ASSUME NEW m, Typed(m), NEW h \in Halves, NEW l, LogFrom(m, h, 0, l)
  PROVE  Log(m, h) = l
<1> DEFINE x == Log(m, h)
<1>1. LogFrom(m, h, 0, x)
  BY LogIs
<1> HIDE DEF x
<1>2. x \in Seq(Rec) /\ l \in Seq(Rec)
  BY <1>1 DEF LogFrom, Chained
<1>3. Len(l) <= Len(x) /\ (\A i \in 1..Len(l) : l[i] = x[i])
  BY <1>1, LogUnique
<1>4. Len(x) <= Len(l)
  BY <1>1, LogUnique
<1>5. Len(x) = Len(l)
  BY <1>2, <1>3, <1>4
<1>6. x = l
  BY <1>2, <1>3, <1>5, SeqEqual
<1>7. QED
  BY <1>6 DEF x

LEMMA LogEnds ==
  ASSUME NEW l \in Seq(Rec)
  PROVE  LogEnd(l) = EndFrom(l, 0)
<1>1. l = <<>> <=> Len(l) = 0
  OBVIOUS
<1>2. QED
  BY <1>1 DEF LogEnd, EndFrom, Last

(* A half is read for what it holds. *)
SameHalf(m, m2, h) == \A o \in Offsets : m2[Base(h) + o] = m[Base(h) + o]

LEMMA RecordStays ==
  ASSUME NEW m, Typed(m), NEW m2, NEW h \in Halves, SameHalf(m, m2, h),
         NEW o \in Nat, IsRecord(m, h, o)
  PROVE  IsRecord(m2, h, o) /\ RecAt(m2, h, o) = RecAt(m, h, o)
<1> DEFINE r == RecAt(m, h, o)
<1>1. /\ r \in Rec /\ o + Size(r.val) \in o + 1..Half
      /\ \A i \in 0..Size(r.val) - 1 : m[Base(h) + (o + i)] = <<r.key, r.val, i>>
  BY RecordIs
<1>2. r = [off |-> o, key |-> r.key, val |-> r.val]
  BY DEF RecAt
<1> HIDE DEF r
<1>3. r.key \in Keys /\ r.val \in Data /\ Half \in Nat
  BY <1>1, Bases DEF Rec
<1>4. Size(r.val) \in Nat
  BY <1>3, Sizes
<1>5. ASSUME NEW i \in 0..Size(r.val) - 1 PROVE m2[Base(h) + (o + i)] = <<r.key, r.val, i>>
  <2>1. o + i \in Offsets
    BY <1>1, <1>3, <1>4 DEF Offsets
  <2>2. QED
    BY <1>1, <2>1 DEF SameHalf
<1>6. o + Size(r.val) <= Half
  BY <1>1, <1>3, <1>4
<1>7. IsRecord(m2, h, o) /\ RecAt(m2, h, o) = [off |-> o, key |-> r.key, val |-> r.val]
  BY <1>3, <1>5, <1>6, RecordWhen
<1>8. QED
  BY <1>2, <1>7 DEF r

LEMMA RecordSame ==
  ASSUME NEW m, Typed(m), NEW m2, Typed(m2), NEW h \in Halves, SameHalf(m, m2, h), NEW o \in Nat
  PROVE  IsRecord(m2, h, o) <=> IsRecord(m, h, o)
<1>1. SameHalf(m2, m, h)
  BY DEF SameHalf
<1>2. QED
  BY <1>1, RecordStays

LEMMA ChainStays ==
  ASSUME NEW m, Typed(m), NEW m2, NEW h \in Halves, SameHalf(m, m2, h),
         NEW l, Chained(m, h, 0, l)
  PROVE  Chained(m2, h, 0, l)
<1>1. ASSUME NEW i \in 1..Len(l)
      PROVE  IsRecord(m2, h, l[i].off) /\ RecAt(m2, h, l[i].off) = l[i]
  <2>1. l[i] \in Rec
    BY DEF Chained
  <2>2. l[i].off \in Nat
    BY <2>1, Bases DEF Rec, Offsets
  <2>3. IsRecord(m, h, l[i].off) /\ RecAt(m, h, l[i].off) = l[i]
    BY DEF Chained
  <2>4. QED
    BY <2>2, <2>3, RecordStays
<1>2. QED
  BY <1>1 DEF Chained

LEMMA LogSame ==
  ASSUME NEW m, Typed(m), NEW m2, Typed(m2), NEW h \in Halves, SameHalf(m, m2, h)
  PROVE  Log(m2, h) = Log(m, h)
<1> DEFINE l == Log(m, h)
<1>1. LogFrom(m, h, 0, l)
  BY LogIs
<1> HIDE DEF l
<1>2. Chained(m2, h, 0, l)
  BY <1>1, ChainStays DEF LogFrom
<1>3. EndFrom(l, 0) \in Nat
  BY <1>1, Bases DEF LogFrom, Chained
<1>4. ~IsRecord(m2, h, EndFrom(l, 0))
  BY <1>1, <1>3, RecordSame DEF LogFrom
<1>5. LogFrom(m2, h, 0, l)
  BY <1>2, <1>4 DEF LogFrom
<1>6. Log(m2, h) = l
  BY <1>5, LogIsThat
<1>7. QED
  BY <1>6 DEF l

(* What is known of a log. *)
LEMMA LogFacts ==
  ASSUME NEW m, Typed(m), NEW h \in Halves
  PROVE  LET l == Log(m, h)
         IN  /\ l \in Seq(Rec) /\ LogEnd(l) \in 0..Half /\ LogEnd(l) = EndFrom(l, 0)
             /\ Chained(m, h, 0, l) /\ ~IsRecord(m, h, LogEnd(l))
<1> DEFINE l == Log(m, h)
<1>1. LogFrom(m, h, 0, l)
  BY LogIs
<1> HIDE DEF l
<1>2. l \in Seq(Rec) /\ EndFrom(l, 0) \in 0..Half
  BY <1>1 DEF LogFrom, Chained
<1>3. LogEnd(l) = EndFrom(l, 0)
  BY <1>2, LogEnds
<1>4. QED
  BY <1>1, <1>2, <1>3 DEF LogFrom, l

-----------------------------------------------------------------------------
(* What a log holds for a key.                                             *)

LastOf(l, k, i) ==
  /\ i \in 1..Len(l) /\ l[i].key = k
  /\ \A j \in i + 1..Len(l) : l[j].key # k

LEMMA FoundNone ==
  ASSUME NEW l \in Seq(Rec), NEW k, \A i \in 1..Len(l) : l[i].key # k
  PROVE  Found(l, k) = Absent
<1>1. {i \in DOMAIN l : l[i].key = k} = {}
  OBVIOUS
<1>2. QED
  BY <1>1 DEF Found

LEMMA FoundLast ==
  ASSUME NEW l \in Seq(Rec), NEW k, NEW i, LastOf(l, k, i)
  PROVE  Found(l, k) = l[i].val
<1> DEFINE S == {j \in DOMAIN l : l[j].key = k}
<1>1. i \in S /\ S \in SUBSET (1..Len(l)) /\ Len(l) \in Nat
  BY DEF LastOf
<1>2. Max(S) \in S /\ \A y \in S : y <= Max(S)
  <2> HIDE DEF S
  <2>1. QED
    BY <1>1, Greatest
<1>3. Max(S) = i
  <2>1. i <= Max(S) /\ Max(S) \in 1..Len(l) /\ l[Max(S)].key = k
    BY <1>1, <1>2
  <2>2. Max(S) \notin i + 1..Len(l)
    BY <2>1 DEF LastOf
  <2>3. QED
    BY <1>1, <2>1, <2>2
<1>4. Found(l, k) = IF S = {} THEN Absent ELSE l[Max(S)].val
  BY DEF Found
<1>5. QED
  BY <1>1, <1>3, <1>4

LEMMA FoundCases ==
  ASSUME NEW l \in Seq(Rec), NEW k
  PROVE  (\A i \in 1..Len(l) : l[i].key # k) \/ \E i : LastOf(l, k, i)
<1> DEFINE S == {j \in DOMAIN l : l[j].key = k}
<1>1. CASE S = {}
  BY <1>1
<1>2. CASE S # {}
  <2>1. S \in SUBSET (1..Len(l)) /\ Len(l) \in Nat
    OBVIOUS
  <2>2. Max(S) \in S /\ \A y \in S : y <= Max(S)
    <3> HIDE DEF S
    <3>1. QED
      BY <1>2, <2>1, Greatest
  <2>3. ASSUME NEW j \in Max(S) + 1..Len(l) PROVE l[j].key # k
    <3>1. Max(S) \in 1..Len(l)
      BY <2>1, <2>2
    <3>2. j \in 1..Len(l) /\ ~(j <= Max(S))
      BY <3>1
    <3>3. j \notin S
      BY <2>2, <3>2
    <3>4. QED
      BY <3>2, <3>3
  <2>4. LastOf(l, k, Max(S))
    BY <2>1, <2>2, <2>3 DEF LastOf
  <2>5. QED
    BY <2>4
<1>3. QED
  BY <1>1, <1>2

LEMMA FoundAppend ==
  ASSUME NEW l \in Seq(Rec), NEW r \in Rec, NEW k
  PROVE  Found(Append(l, r), k) = IF r.key = k THEN r.val ELSE Found(l, k)
<1> DEFINE x == Append(l, r)
<1>1. x \in Seq(Rec) /\ Len(x) = Len(l) + 1 /\ Len(l) \in Nat /\ x[Len(l) + 1] = r
      /\ \A i \in 1..Len(l) : x[i] = l[i]
  OBVIOUS
<1> HIDE DEF x
<1>2. CASE r.key = k
  <2>1. LastOf(x, k, Len(l) + 1)
    BY <1>1, <1>2 DEF LastOf
  <2>2. Found(x, k) = x[Len(l) + 1].val
    BY <1>1, <2>1, FoundLast
  <2>3. QED
    BY <1>1, <1>2, <2>2 DEF x
<1>3. CASE r.key # k
  <2>1. CASE \A i \in 1..Len(l) : l[i].key # k
    <3>1. Found(l, k) = Absent
      BY <2>1, FoundNone
    <3>2. \A i \in 1..Len(x) : i \in 1..Len(l) \/ i = Len(l) + 1
      BY <1>1
    <3>3. \A i \in 1..Len(x) : x[i].key # k
      BY <1>1, <1>3, <2>1, <3>2
    <3>4. Found(x, k) = Absent
      BY <1>1, <3>3, FoundNone
    <3>5. QED
      BY <1>3, <3>1, <3>4 DEF x
  <2>2. ASSUME NEW i, LastOf(l, k, i) PROVE Found(x, k) = Found(l, k)
    <3>1. i \in 1..Len(l) /\ l[i].key = k /\ \A j \in i + 1..Len(l) : l[j].key # k
      BY <2>2 DEF LastOf
    <3>2. ASSUME NEW j \in i + 1..Len(x) PROVE x[j].key # k
      <4>1. j \in i + 1..Len(l) \/ j = Len(l) + 1
        BY <1>1, <3>1
      <4>2. \A q \in i + 1..Len(l) : q \in 1..Len(l)
        BY <3>1
      <4>3. QED
        BY <1>1, <1>3, <3>1, <4>1, <4>2
    <3>3. LastOf(x, k, i)
      BY <1>1, <3>1, <3>2 DEF LastOf
    <3>4. Found(x, k) = x[i].val /\ Found(l, k) = l[i].val
      BY <1>1, <2>2, <3>3, FoundLast
    <3>5. QED
      BY <1>1, <3>1, <3>4
  <2>3. QED
    BY <1>3, <2>1, <2>2, FoundCases DEF x
<1>4. QED
  BY <1>2, <1>3

LEMMA FoundIsData ==
  ASSUME NEW l \in Seq(Rec), NEW k
  PROVE  Found(l, k) \in Data
<1>1. CASE \A i \in 1..Len(l) : l[i].key # k
  BY <1>1, FoundNone DEF Data
<1>2. ASSUME NEW i, LastOf(l, k, i) PROVE Found(l, k) \in Data
  <2>1. i \in 1..Len(l)
    BY <1>2 DEF LastOf
  <2>2. l[i] \in Rec
    BY <2>1
  <2>3. QED
    BY <1>2, <2>2, FoundLast DEF Rec
<1>3. QED
  BY <1>1, <1>2, FoundCases

-----------------------------------------------------------------------------
(* Packed records.                                                         *)

LEMMA RecordWordsAre ==
  ASSUME NEW k \in Keys, NEW v \in Data
  PROVE  /\ RecordWords(k, v) \in Seq(Word) /\ Len(RecordWords(k, v)) = Size(v)
         /\ \A i \in 1..Size(v) : RecordWords(k, v)[i] = <<k, v, i - 1>>
<1> DEFINE ws == RecordWords(k, v)
<1>1. Size(v) \in Nat
  BY Sizes
<1>2. ws = [i \in 1..Size(v) |-> <<k, v, i - 1>>]
  BY DEF RecordWords
<1>3. ASSUME NEW i \in 1..Size(v) PROVE <<k, v, i - 1>> \in Word
  <2>1. i - 1 \in Nat
    BY <1>1
  <2>2. QED
    BY <2>1 DEF Word
<1>4. ws \in [1..Size(v) -> Word]
  BY <1>2, <1>3
<1> HIDE DEF ws
<1>5. ws \in Seq(Word) /\ Len(ws) = Size(v)
  BY <1>1, <1>4
<1>6. \A i \in 1..Size(v) : ws[i] = <<k, v, i - 1>>
  BY <1>2
<1>7. QED
  BY <1>5, <1>6 DEF ws

(* The words of the first records of a log, record by record. *)
Packs(F, log, some) ==
  /\ \A i \in 0..Len(log) : F[i] \in Seq(Word)
  /\ F[0] = <<>>
  /\ \A i \in 1..Len(log) :
       F[i] = IF log[i] \in some THEN F[i - 1] \o RecordWords(log[i].key, log[i].val) ELSE F[i - 1]
  /\ RecordsWords(log, some) = F[Len(log)]

LEMMA Packing ==
  ASSUME NEW log \in Seq(Rec), NEW some
  PROVE  \E F : Packs(F, log, some)
<1> DEFINE N == Len(log)
           p == [i \in 1..N |-> IF log[i] \in some
                                  THEN RecordWords(log[i].key, log[i].val) ELSE <<>>]
<1>1. N \in Nat /\ DOMAIN log = 1..N
  OBVIOUS
<1>2. RecordsWords(log, some) = FlattenSeq(p)
  BY <1>1 DEF RecordsWords
<1>3. ASSUME NEW i \in 1..N PROVE RecordWords(log[i].key, log[i].val) \in Seq(Word)
  <2>1. log[i] \in Rec
    OBVIOUS
  <2>2. log[i].key \in Keys /\ log[i].val \in Data
    BY <2>1 DEF Rec
  <2>3. QED
    BY <2>2, RecordWordsAre
<1>4. p \in [1..N -> Seq(Word)]
  <2>1. <<>> \in Seq(Word)
    OBVIOUS
  <2>2. QED
    BY <1>3, <2>1
<1>5. \A i \in 1..N : p[i] = IF log[i] \in some THEN RecordWords(log[i].key, log[i].val) ELSE <<>>
  OBVIOUS
<1> HIDE DEF p, N
<1>6. p \in Seq(Seq(Word)) /\ Len(p) = N
  BY <1>1, <1>4
<1>7. PICK F : Flattens(F, p, Word)
  BY <1>6, Flattening
<1>8. ASSUME NEW i \in 1..N
      PROVE  F[i] = IF log[i] \in some THEN F[i - 1] \o RecordWords(log[i].key, log[i].val)
                                       ELSE F[i - 1]
  <2>1. F[i] = F[i - 1] \o p[i]
    BY <1>6, <1>7 DEF Flattens
  <2>2. i - 1 \in 0..N
    BY <1>1
  <2>3. F[i - 1] \in Seq(Word)
    BY <1>6, <1>7, <2>2 DEF Flattens
  <2>4. CASE log[i] \in some
    BY <1>5, <2>1, <2>4
  <2>5. CASE log[i] \notin some
    <3>1. F[i] = F[i - 1] \o <<>>
      BY <1>5, <2>1, <2>5
    <3>2. F[i - 1] \o <<>> = F[i - 1]
      BY <2>3
    <3>3. QED
      BY <2>5, <3>1, <3>2
  <2>6. QED
    BY <2>4, <2>5
<1>9. Packs(F, log, some)
  BY <1>2, <1>6, <1>7, <1>8 DEF Packs, Flattens, N
<1>10. QED
  BY <1>9

LEMMA PackedIsWords ==
  ASSUME NEW log \in Seq(Rec), NEW some
  PROVE  RecordsWords(log, some) \in Seq(Word)
<1>1. PICK F : Packs(F, log, some)
  BY Packing
<1>2. Len(log) \in 0..Len(log)
  OBVIOUS
<1>3. QED
  BY <1>1, <1>2 DEF Packs

(* The packed words of fewer records come first. *)
LEMMA PackPrefix ==
  ASSUME NEW log \in Seq(Rec), NEW some, NEW F, Packs(F, log, some), NEW i \in 0..Len(log)
  PROVE  LET W == RecordsWords(log, some)
         IN  Len(F[i]) <= Len(W) /\ \A j \in 1..Len(F[i]) : W[j] = F[i][j]
<1> DEFINE N == Len(log)
           Good(n) == Len(F[i]) <= Len(F[n]) /\ \A j \in 1..Len(F[i]) : F[n][j] = F[i][j]
           S == {q \in 0..N - i : Good(i + q)}
<1>1. N \in Nat /\ i \in Nat /\ i <= N
  OBVIOUS
<1>2. \A n \in 0..N : F[n] \in Seq(Word)
  BY DEF Packs
<1>3. \A n \in 0..N : Len(F[n]) \in Nat
  BY <1>2
<1>4. 0 \in S
  <2>1. i + 0 = i /\ 0 \in 0..N - i /\ i \in 0..N
    BY <1>1
  <2>2. Good(i + 0)
    BY <1>3, <2>1
  <2>3. QED
    BY <2>1, <2>2
<1>5. ASSUME NEW q \in 0..(N - i) - 1, q \in S PROVE q + 1 \in S
  <2> DEFINE n == i + q
  <2>1. n \in 0..N /\ n + 1 \in 0..N /\ n + 1 \in 1..N /\ (n + 1) - 1 = n /\ i + (q + 1) = n + 1
        /\ q + 1 \in 0..N - i
    BY <1>1
  <2>2. Good(n)
    BY <1>5
  <2> HIDE DEF n
  <2>3. F[n + 1] = IF log[n + 1] \in some THEN F[n] \o RecordWords(log[n + 1].key, log[n + 1].val)
                                          ELSE F[n]
    <3>1. F[n + 1] = IF log[n + 1] \in some
                       THEN F[(n + 1) - 1] \o RecordWords(log[n + 1].key, log[n + 1].val)
                       ELSE F[(n + 1) - 1]
      BY <2>1 DEF Packs
    <3>2. QED
      BY <2>1, <3>1
  <2>4. Good(n + 1)
    <3>1. CASE log[n + 1] \in some
      <4> DEFINE w == RecordWords(log[n + 1].key, log[n + 1].val)
      <4>1. log[n + 1] \in Rec
        BY <2>1
      <4>2. w \in Seq(Word)
        BY <4>1, RecordWordsAre DEF Rec
      <4> HIDE DEF w
      <4>3. F[n + 1] = F[n] \o w /\ F[n] \in Seq(Word) /\ F[i] \in Seq(Word)
        BY <1>1, <1>2, <2>1, <2>3, <3>1 DEF w
      <4>4. Len(F[n + 1]) = Len(F[n]) + Len(w) /\ \A j \in 1..Len(F[n]) : F[n + 1][j] = F[n][j]
        BY <4>2, <4>3, ConcatProps
      <4>5. Len(F[n]) \in Nat /\ Len(w) \in Nat /\ Len(F[i]) \in Nat
        BY <4>2, <4>3
      <4>6. \A j \in 1..Len(F[i]) : j \in 1..Len(F[n])
        BY <2>2, <4>5
      <4>7. QED
        BY <2>2, <4>4, <4>5, <4>6
    <3>2. CASE log[n + 1] \notin some
      BY <2>2, <2>3, <3>2
    <3>3. QED
      BY <3>1, <3>2
  <2> HIDE DEF Good
  <2>5. QED
    BY <2>1, <2>4
<1>6. Good(N)
  <2> HIDE DEF Good
  <2>1. \A q \in 0..(N - i) - 1 : q \in S => q + 1 \in S
    BY <1>5
  <2> HIDE DEF S
  <2>2. N - i \in Nat /\ N - i \in 0..N - i /\ i + (N - i) = N
    BY <1>1
  <2>3. 0..N - i \subseteq S
    BY <1>4, <2>1, <2>2, InductTo
  <2>4. Good(i + (N - i))
    BY <2>2, <2>3 DEF S
  <2>5. QED
    BY <2>2, <2>4
<1>7. RecordsWords(log, some) = F[N]
  BY DEF Packs
<1>8. QED
  BY <1>6, <1>7

(* Packed records take no more room than they did. *)
LEMMA PackedLength ==
  ASSUME NEW log \in Seq(Rec), NEW some,
         \A i \in 1..Len(log) :
           log[i].off = IF i = 1 THEN 0 ELSE log[i - 1].off + Size(log[i - 1].val)
  PROVE  /\ Len(RecordsWords(log, some)) <= LogEnd(log)
         /\ (\A i \in 1..Len(log) : log[i] \in some) =>
              Len(RecordsWords(log, some)) = LogEnd(log)
<1>1. PICK F : Packs(F, log, some)
  BY Packing
<1> DEFINE N == Len(log)
           E(i) == IF i = 0 THEN 0 ELSE log[i].off + Size(log[i].val)
           all == \A i \in 1..N : log[i] \in some
           S == {n \in 0..N : Len(F[n]) <= E(n) /\ (all => Len(F[n]) = E(n))}
<1>2. N \in Nat /\ \A n \in 0..N : F[n] \in Seq(Word)
  BY <1>1 DEF Packs
<1>3. \A n \in 0..N : Len(F[n]) \in Nat
  BY <1>2
<1>4. 0 \in S
  <2>1. Len(F[0]) = 0
    BY <1>1 DEF Packs
  <2>2. QED
    BY <1>2, <2>1
<1>5. ASSUME NEW n \in 0..N - 1, n \in S PROVE n + 1 \in S
  <2> DEFINE r == log[n + 1]
             w == RecordWords(r.key, r.val)
  <2>1. n + 1 \in 1..N /\ n + 1 \in 0..N /\ (n + 1) - 1 = n /\ n \in 0..N /\ n \in Nat
    BY <1>2
  <2>2. r \in Rec
    BY <2>1
  <2>3. w \in Seq(Word) /\ Len(w) = Size(r.val) /\ Size(r.val) \in Nat
    BY <2>2, RecordWordsAre, Sizes DEF Rec
  <2>4. r.off = E(n)
    <3>1. CASE n = 0
      BY <2>1, <3>1
    <3>2. CASE n # 0
      <4>1. n + 1 # 1
        BY <2>1, <3>2
      <4>2. r.off = log[(n + 1) - 1].off + Size(log[(n + 1) - 1].val)
        BY <2>1, <4>1
      <4>3. QED
        BY <2>1, <3>2, <4>2
    <3>3. QED
      BY <3>1, <3>2
  <2>5. r.off \in Nat
    BY <2>2, Bases DEF Rec, Offsets
  <2>6. Len(F[n]) <= r.off /\ (all => Len(F[n]) = r.off) /\ (all => r \in some)
    BY <1>5, <2>1, <2>4
  <2>7. E(n + 1) = r.off + Size(r.val)
    BY <2>1
  <2> HIDE DEF w, E, all
  <2>8. F[n + 1] = IF r \in some THEN F[n] \o w ELSE F[n]
    <3>1. F[n + 1] = IF log[n + 1] \in some
                       THEN F[(n + 1) - 1] \o RecordWords(log[n + 1].key, log[n + 1].val)
                       ELSE F[(n + 1) - 1]
      BY <1>1, <2>1 DEF Packs
    <3>2. QED
      BY <2>1, <3>1 DEF w
  <2> HIDE DEF r
  <2>9. Len(F[n + 1]) <= E(n + 1) /\ (all => Len(F[n + 1]) = E(n + 1))
    <3>1. CASE r \in some
      <4>1. Len(F[n + 1]) = Len(F[n]) + Len(w)
        <5>1. F[n] \in Seq(Word) /\ F[n + 1] = F[n] \o w
          BY <1>2, <2>1, <2>8, <3>1
        <5>2. ASSUME NEW s \in Seq(Word), NEW u \in Seq(Word) PROVE Len(s \o u) = Len(s) + Len(u)
          OBVIOUS
        <5>3. Len(F[n] \o w) = Len(F[n]) + Len(w)
          BY <2>3, <5>1, <5>2
        <5>4. QED
          BY <5>1, <5>3
      <4>2. QED
        BY <1>3, <2>1, <2>3, <2>5, <2>6, <2>7, <4>1
    <3>2. CASE r \notin some
      <4>1. Len(F[n + 1]) = Len(F[n])
        BY <2>8, <3>2
      <4>2. QED
        BY <1>3, <2>1, <2>3, <2>5, <2>6, <2>7, <3>2, <4>1
    <3>3. QED
      BY <3>1, <3>2
  <2>10. QED
    BY <2>1, <2>9
<1>6. Len(F[N]) <= E(N) /\ (all => Len(F[N]) = E(N))
  <2> HIDE DEF E, all
  <2>1. \A n \in 0..N - 1 : n \in S => n + 1 \in S
    BY <1>5
  <2> HIDE DEF S
  <2>2. 0..N \subseteq S
    BY <1>2, <1>4, <2>1, InductTo
  <2>3. N \in 0..N
    BY <1>2
  <2>4. QED
    BY <2>2, <2>3 DEF S
<1>7. LogEnd(log) = E(N)
  BY LogEnds DEF EndFrom
<1>8. QED
  BY <1>1, <1>6, <1>7 DEF Packs

(* Only the selection matters. *)
LEMMA PackedAlike ==
  ASSUME NEW log \in Seq(Rec), NEW some, NEW x \in Seq(Rec), NEW these, Len(log) <= Len(x),
         \A i \in 1..Len(log) : x[i] = log[i] /\ (log[i] \in some <=> x[i] \in these),
         \A i \in Len(log) + 1..Len(x) : x[i] \notin these
  PROVE  RecordsWords(x, these) = RecordsWords(log, some)
<1> DEFINE N == Len(log)
           M == Len(x)
<1>0. N \in Nat /\ M \in Nat /\ N <= M
  OBVIOUS
<1>1. PICK F : Packs(F, log, some)
  BY Packing
<1>2. PICK G : Packs(G, x, these)
  BY Packing
<1>3. AgreeTo(F, G, N)
  <2>1. F[0] = G[0]
    BY <1>1, <1>2 DEF Packs
  <2>2. ASSUME NEW i \in 1..N, F[i - 1] = G[i - 1] PROVE F[i] = G[i]
    <3>1. i \in 1..M
      BY <1>0
    <3>2. F[i] = IF log[i] \in some THEN F[i - 1] \o RecordWords(log[i].key, log[i].val) ELSE F[i - 1]
      BY <1>1 DEF Packs
    <3>3. G[i] = IF x[i] \in these THEN G[i - 1] \o RecordWords(x[i].key, x[i].val) ELSE G[i - 1]
      BY <1>2, <3>1 DEF Packs
    <3>4. x[i] = log[i] /\ (log[i] \in some <=> x[i] \in these)
      OBVIOUS
    <3>5. QED
      BY <2>2, <3>2, <3>3, <3>4
  <2>3. AgreeNext(F, G, N)
    BY <2>2 DEF AgreeNext
  <2>4. QED
    BY <1>0, <2>1, <2>3, SameRecursion
<1> DEFINE S == {q \in 0..M - N : G[N + q] = G[N]}
<1>4. 0 \in S
  BY <1>0
<1>5. ASSUME NEW q \in 0..(M - N) - 1, q \in S PROVE q + 1 \in S
  <2> DEFINE n == N + q
  <2>1. n + 1 \in N + 1..M /\ n + 1 \in 1..M /\ (n + 1) - 1 = n /\ N + (q + 1) = n + 1
        /\ q + 1 \in 0..M - N
    BY <1>0
  <2>2. G[n] = G[N]
    BY <1>5
  <2> HIDE DEF n
  <2>3. x[n + 1] \notin these
    BY <2>1
  <2>4. G[n + 1] = IF x[n + 1] \in these
                     THEN G[(n + 1) - 1] \o RecordWords(x[n + 1].key, x[n + 1].val)
                     ELSE G[(n + 1) - 1]
    BY <1>2, <2>1 DEF Packs
  <2>5. QED
    BY <2>1, <2>2, <2>3, <2>4
<1>6. G[M] = G[N]
  <2>1. \A q \in 0..(M - N) - 1 : q \in S => q + 1 \in S
    BY <1>5
  <2>2. M - N \in Nat /\ M - N \in 0..M - N /\ N + (M - N) = M
    BY <1>0
  <2> HIDE DEF S
  <2>3. 0..M - N \subseteq S
    BY <1>4, <2>1, <2>2, InductTo
  <2>4. G[N + (M - N)] = G[N]
    BY <2>2, <2>3 DEF S
  <2>5. QED
    BY <2>2, <2>4
<1>7. F[N] = G[N]
  BY <1>0, <1>3 DEF AgreeTo
<1>8. QED
  BY <1>1, <1>2, <1>6, <1>7 DEF Packs

(* Two selections, the one before the other, are one. *)
LEMMA PackedUnion ==
  ASSUME NEW log \in Seq(Rec), NEW A, NEW B,
         \A i, j \in 1..Len(log) : log[i] \in B /\ log[j] \in A => j < i
  PROVE  RecordsWords(log, A) \o RecordsWords(log, B) = RecordsWords(log, A \cup B)
<1> DEFINE N == Len(log)
           C == A \cup B
<1>0. N \in Nat
  OBVIOUS
<1>1. PICK a : Packs(a, log, A)
  BY Packing
<1>2. PICK b : Packs(b, log, B)
  BY Packing
<1>3. PICK c : Packs(c, log, C)
  BY Packing
<1>4. \A n \in 0..N : a[n] \in Seq(Word) /\ b[n] \in Seq(Word) /\ c[n] \in Seq(Word)
  BY <1>1, <1>2, <1>3 DEF Packs
<1> HIDE DEF C
<1> DEFINE Good(n) == a[n] \o b[n] = c[n] /\ ((\A j \in 1..n : log[j] \notin B) => b[n] = <<>>)
           S == {n \in 0..N : Good(n)}
<1>5. 0 \in S
  <2>1. a[0] = <<>> /\ b[0] = <<>> /\ c[0] = <<>>
    BY <1>1, <1>2, <1>3 DEF Packs
  <2>2. <<>> \o <<>> = <<>>
    OBVIOUS
  <2>3. Good(0)
    BY <2>1, <2>2
  <2> HIDE DEF Good
  <2>4. QED
    BY <1>0, <2>3
<1>6. ASSUME NEW n \in 0..N - 1, n \in S PROVE n + 1 \in S
  <2> DEFINE r == log[n + 1]
             w == RecordWords(r.key, r.val)
  <2>1. n + 1 \in 1..N /\ n + 1 \in 0..N /\ (n + 1) - 1 = n /\ n \in 0..N /\ n \in Nat
    BY <1>0
  <2>2. r \in Rec
    BY <2>1
  <2>3. w \in Seq(Word)
    BY <2>2, RecordWordsAre DEF Rec
  <2> HIDE DEF w
  <2>4. a[n + 1] = IF r \in A THEN a[n] \o w ELSE a[n]
    <3>1. a[n + 1] = IF log[n + 1] \in A
                       THEN a[(n + 1) - 1] \o RecordWords(log[n + 1].key, log[n + 1].val)
                       ELSE a[(n + 1) - 1]
      BY <1>1, <2>1 DEF Packs
    <3>2. QED
      BY <2>1, <3>1 DEF w
  <2>5. b[n + 1] = IF r \in B THEN b[n] \o w ELSE b[n]
    <3>1. b[n + 1] = IF log[n + 1] \in B
                       THEN b[(n + 1) - 1] \o RecordWords(log[n + 1].key, log[n + 1].val)
                       ELSE b[(n + 1) - 1]
      BY <1>2, <2>1 DEF Packs
    <3>2. QED
      BY <2>1, <3>1 DEF w
  <2>6. c[n + 1] = IF r \in C THEN c[n] \o w ELSE c[n]
    <3>1. c[n + 1] = IF log[n + 1] \in C
                       THEN c[(n + 1) - 1] \o RecordWords(log[n + 1].key, log[n + 1].val)
                       ELSE c[(n + 1) - 1]
      BY <1>3, <2>1 DEF Packs
    <3>2. QED
      BY <2>1, <3>1 DEF w
  <2>7. Good(n)
    BY <1>6
  <2>8. r \in A => \A j \in 1..n + 1 : log[j] \notin B
    <3>1. SUFFICES ASSUME r \in A, NEW j \in 1..n + 1, log[j] \in B PROVE FALSE
      OBVIOUS
    <3>2. j \in 1..N
      BY <2>1
    <3>3. n + 1 < j
      BY <2>1, <3>1, <3>2
    <3>4. QED
      BY <2>1, <3>3
  <2>9. n + 1 \in 1..n + 1 /\ \A j \in 1..n : j \in 1..n + 1
    BY <2>1
  <2>10. Good(n + 1)
    <3>1. CASE r \in A
      <4>1. r \notin B /\ r \in C
        BY <2>8, <2>9, <3>1 DEF C
      <4>2. b[n] = <<>> /\ b[n + 1] = <<>>
        BY <2>5, <2>7, <2>8, <2>9, <3>1, <4>1
      <4>3. a[n] \o <<>> = a[n] /\ (a[n] \o w) \o <<>> = a[n] \o w
        <5>1. a[n] \o w \in Seq(Word)
          BY <1>4, <2>1, <2>3, ConcatProps
        <5>2. QED
          BY <1>4, <2>1, <5>1, ConcatEmptySeq
      <4>4. c[n] = a[n]
        BY <2>7, <4>2, <4>3
      <4>5. QED
        BY <2>4, <2>6, <3>1, <4>1, <4>2, <4>3, <4>4
    <3>2. CASE r \notin A /\ r \in B
      <4>1. (a[n] \o b[n]) \o w = a[n] \o (b[n] \o w)
        <5> DEFINE Words == Seq(Word)
        <5>1. a[n] \in Words /\ b[n] \in Words /\ w \in Words
          BY <1>4, <2>1, <2>3
        <5>2. \A s, u, v \in Words : (s \o u) \o v = s \o (u \o v)
          BY ConcatAssociative, SMTT(60)
        <5> HIDE DEF Words
        <5>3. QED
          BY <5>1, <5>2
      <4>2. r \in C
        BY <3>2 DEF C
      <4>3. QED
        BY <2>4, <2>5, <2>6, <2>7, <2>9, <3>2, <4>1, <4>2
    <3>3. CASE r \notin A /\ r \notin B
      <4>1. r \notin C
        BY <3>3 DEF C
      <4>2. QED
        BY <2>4, <2>5, <2>6, <2>7, <2>9, <3>3, <4>1
    <3>4. QED
      BY <3>1, <3>2, <3>3
  <2> HIDE DEF Good
  <2>11. QED
    BY <2>1, <2>10
<1>7. Good(N)
  <2> HIDE DEF Good
  <2>1. \A n \in 0..N - 1 : n \in S => n + 1 \in S
    BY <1>6
  <2> HIDE DEF S
  <2>2. 0..N \subseteq S
    BY <1>0, <1>5, <2>1, InductTo
  <2>3. N \in 0..N
    BY <1>0
  <2>4. QED
    BY <2>2, <2>3 DEF S
<1>8. QED
  BY <1>1, <1>2, <1>3, <1>7 DEF Packs, C

(* One more record. *)
LEMMA ChainAppend ==
  ASSUME NEW m, NEW h \in Halves, NEW l, Chained(m, h, 0, l), NEW r \in Rec,
         r.off = EndFrom(l, 0), IsRecord(m, h, r.off), RecAt(m, h, r.off) = r,
         r.off + Size(r.val) <= Half
  PROVE  /\ Chained(m, h, 0, Append(l, r))
         /\ EndFrom(Append(l, r), 0) = r.off + Size(r.val)
<1> DEFINE x == Append(l, r)
<1>1. l \in Seq(Rec)
      /\ \A i \in 1..Len(l) :
           /\ l[i].off = IF i = 1 THEN 0 ELSE l[i - 1].off + Size(l[i - 1].val)
           /\ IsRecord(m, h, l[i].off) /\ RecAt(m, h, l[i].off) = l[i]
  BY DEF Chained
<1>2. x \in Seq(Rec) /\ Len(x) = Len(l) + 1 /\ Len(l) \in Nat /\ x[Len(l) + 1] = r
      /\ \A i \in 1..Len(l) : x[i] = l[i]
  BY <1>1
<1> HIDE DEF x
<1>3. ASSUME NEW i \in 1..Len(x)
      PROVE  /\ x[i].off = IF i = 1 THEN 0 ELSE x[i - 1].off + Size(x[i - 1].val)
             /\ IsRecord(m, h, x[i].off) /\ RecAt(m, h, x[i].off) = x[i]
  <2>1. CASE i \in 1..Len(l)
    <3>1. x[i] = l[i]
      BY <1>2, <2>1
    <3>2. CASE i = 1
      BY <1>1, <2>1, <3>1, <3>2
    <3>3. CASE i # 1
      <4>1. i - 1 \in 1..Len(l)
        BY <1>2, <2>1, <3>3
      <4>2. x[i - 1] = l[i - 1]
        BY <1>2, <4>1
      <4>3. QED
        BY <1>1, <2>1, <3>1, <3>3, <4>2
    <3>4. QED
      BY <3>2, <3>3
  <2>2. CASE i = Len(l) + 1
    <3>1. x[i] = r
      BY <1>2, <2>2
    <3>2. CASE Len(l) = 0
      BY <1>2, <2>2, <3>1, <3>2 DEF EndFrom
    <3>3. CASE Len(l) # 0
      <4>1. i # 1 /\ i - 1 = Len(l) /\ Len(l) \in 1..Len(l)
        BY <1>2, <2>2, <3>3
      <4>2. x[i - 1] = l[Len(l)]
        BY <1>2, <4>1
      <4>3. r.off = l[Len(l)].off + Size(l[Len(l)].val)
        BY <3>3 DEF EndFrom
      <4>4. QED
        BY <3>1, <4>1, <4>2, <4>3
    <3>4. QED
      BY <3>2, <3>3
  <2>3. QED
    BY <1>2, <2>1, <2>2
<1>4. EndFrom(x, 0) = r.off + Size(r.val)
  <2>1. Len(x) # 0
    BY <1>2
  <2>2. QED
    BY <1>2, <2>1 DEF EndFrom
<1>5. r.off \in Nat /\ Size(r.val) \in Nat /\ Half \in Nat
  BY Bases, Sizes DEF Rec, Offsets
<1>6. EndFrom(x, 0) \in 0..Half
  BY <1>4, <1>5
<1>7. QED
  BY <1>2, <1>3, <1>4, <1>6 DEF Chained, x

(* What the log l has of the selected ones among the first n records. *)
Mirrors(l, log, some, n) ==
  /\ \A k : (\A j \in 1..n : log[j].key = k => log[j] \notin some) => Found(l, k) = Absent
  /\ \A i \in 1..n :
       log[i] \in some /\ (\A j \in i + 1..n : log[j].key = log[i].key => log[j] \notin some)
         => Found(l, log[i].key) = log[i].val

LEMMA MirrorsNext ==
  ASSUME NEW log \in Seq(Rec), NEW some, NEW n \in Nat, n + 1 \in 1..Len(log),
         NEW l \in Seq(Rec), Mirrors(l, log, some, n), NEW q \in Rec,
         q.key = log[n + 1].key, q.val = log[n + 1].val
  PROVE  Mirrors(IF log[n + 1] \in some THEN Append(l, q) ELSE l, log, some, n + 1)
<1> DEFINE r == log[n + 1]
<1>1. n + 1 \in 1..n + 1 /\ (\A j \in 1..n : j \in 1..n + 1)
      /\ (\A j \in 1..n + 1 : j \in 1..n \/ j = n + 1)
  OBVIOUS
<1>2. \A i \in 1..n : n + 1 \in i + 1..n + 1 /\ \A j \in i + 1..n : j \in i + 1..n + 1
  OBVIOUS
<1> HIDE DEF r
<1>3. CASE r \in some
  <2>1. \A k : Found(Append(l, q), k) = IF r.key = k THEN r.val ELSE Found(l, k)
    BY FoundAppend DEF r
  <2>2. ASSUME NEW k, \A j \in 1..n + 1 : log[j].key = k => log[j] \notin some
        PROVE  Found(Append(l, q), k) = Absent
    <3>1. r.key # k
      BY <1>1, <1>3, <2>2 DEF r
    <3>2. Found(l, k) = Absent
      BY <1>1, <2>2 DEF Mirrors
    <3>3. QED
      BY <2>1, <3>1, <3>2
  <2>3. ASSUME NEW i \in 1..n + 1, log[i] \in some,
               \A j \in i + 1..n + 1 : log[j].key = log[i].key => log[j] \notin some
        PROVE  Found(Append(l, q), log[i].key) = log[i].val
    <3>1. CASE i = n + 1
      BY <2>1, <3>1 DEF r
    <3>2. CASE i \in 1..n
      <4>1. r.key # log[i].key
        BY <1>2, <1>3, <2>3, <3>2 DEF r
      <4>2. Found(l, log[i].key) = log[i].val
        BY <1>2, <2>3, <3>2 DEF Mirrors
      <4>3. QED
        BY <2>1, <4>1, <4>2
    <3>3. QED
      BY <1>1, <3>1, <3>2
  <2>4. QED
    BY <1>3, <2>2, <2>3 DEF Mirrors, r
<1>4. CASE r \notin some
  <2>1. ASSUME NEW k, \A j \in 1..n + 1 : log[j].key = k => log[j] \notin some
        PROVE  Found(l, k) = Absent
    BY <1>1, <2>1 DEF Mirrors
  <2>2. ASSUME NEW i \in 1..n + 1, log[i] \in some,
               \A j \in i + 1..n + 1 : log[j].key = log[i].key => log[j] \notin some
        PROVE  Found(l, log[i].key) = log[i].val
    <3>1. i \in 1..n
      BY <1>1, <1>4, <2>2 DEF r
    <3>2. QED
      BY <1>2, <2>2, <3>1 DEF Mirrors
  <2>3. QED
    BY <1>4, <2>1, <2>2 DEF Mirrors, r
<1>5. QED
  BY <1>3, <1>4

(* The log l is nothing but the selected ones among the first n records,   *)
(* in their order.                                                         *)
PicksBy(p, l, log, some, n) ==
  /\ p \in [1..Len(l) -> 1..n]
  /\ \A i, j \in 1..Len(l) : i < j => p[i] < p[j]
  /\ \A i \in 1..Len(l) :
       log[p[i]] \in some /\ l[i].key = log[p[i]].key /\ l[i].val = log[p[i]].val

Picks(l, log, some, n) == \E p : PicksBy(p, l, log, some, n)

LEMMA PicksNext ==
  ASSUME NEW log \in Seq(Rec), NEW some, NEW n \in Nat, NEW l \in Seq(Rec),
         Picks(l, log, some, n), NEW q \in Rec,
         q.key = log[n + 1].key, q.val = log[n + 1].val
  PROVE  Picks(IF log[n + 1] \in some THEN Append(l, q) ELSE l, log, some, n + 1)
<1>1. PICK p : PicksBy(p, l, log, some, n)
  BY DEF Picks
<1>2. Len(l) \in Nat
  OBVIOUS
<1>3. CASE log[n + 1] \in some
  <2> DEFINE l2 == Append(l, q)
             p2 == [i \in 1..Len(l) + 1 |-> IF i = Len(l) + 1 THEN n + 1 ELSE p[i]]
  <2>1. /\ Len(l2) = Len(l) + 1 /\ l2[Len(l) + 1] = q
        /\ \A i \in 1..Len(l) : l2[i] = l[i]
    OBVIOUS
  <2>2. \A i \in 1..Len(l) : p[i] \in 1..n
    BY <1>1 DEF PicksBy
  <2>3. /\ p2[Len(l) + 1] = n + 1 /\ \A i \in 1..Len(l) : p2[i] = p[i]
        /\ DOMAIN p2 = 1..Len(l) + 1
    BY <1>2
  <2>4. p2 \in [1..Len(l) + 1 -> 1..n + 1]
    <3>1. \A i \in 1..Len(l) : p[i] \in 1..n + 1
      BY <2>2
    <3>2. n + 1 \in 1..n + 1
      OBVIOUS
    <3>3. \A i \in 1..Len(l) + 1 : i = Len(l) + 1 \/ i \in 1..Len(l)
      BY <1>2
    <3>4. QED
      BY <3>1, <3>2, <3>3
  <2> HIDE DEF l2, p2
  <2>5. ASSUME NEW i \in 1..Len(l) + 1 PROVE i = Len(l) + 1 \/ i \in 1..Len(l)
    BY <1>2
  <2>6. ASSUME NEW i \in 1..Len(l) + 1, NEW j \in 1..Len(l) + 1, i < j PROVE p2[i] < p2[j]
    <3>1. i \in 1..Len(l)
      BY <1>2, <2>6
    <3>2. p2[i] = p[i] /\ p[i] \in 1..n
      BY <2>2, <2>3, <3>1
    <3>3. CASE j = Len(l) + 1
      BY <2>3, <3>2, <3>3
    <3>4. CASE j \in 1..Len(l)
      BY <1>1, <2>3, <2>6, <3>1, <3>2, <3>4 DEF PicksBy
    <3>5. QED
      BY <2>5, <3>3, <3>4
  <2>7. ASSUME NEW i \in 1..Len(l) + 1
        PROVE  log[p2[i]] \in some /\ l2[i].key = log[p2[i]].key /\ l2[i].val = log[p2[i]].val
    <3>1. CASE i = Len(l) + 1
      BY <1>3, <2>1, <2>3, <3>1
    <3>2. CASE i \in 1..Len(l)
      BY <1>1, <2>1, <2>3, <3>2 DEF PicksBy
    <3>3. QED
      BY <2>5, <3>1, <3>2
  <2>8. PicksBy(p2, l2, log, some, n + 1)
    BY <2>1, <2>4, <2>6, <2>7 DEF PicksBy
  <2>9. QED
    BY <1>3, <2>8 DEF Picks, l2
<1>4. CASE log[n + 1] \notin some
  <2>1. p \in [1..Len(l) -> 1..n + 1]
    BY <1>1 DEF PicksBy
  <2>2. PicksBy(p, l, log, some, n + 1)
    BY <1>1, <2>1 DEF PicksBy
  <2>3. QED
    BY <1>4, <2>2 DEF Picks
<1>5. QED
  BY <1>3, <1>4

(* A half holds these words and nothing after them. *)
HoldsOnly(m, h, W) ==
  /\ Len(W) <= Half
  /\ \A i \in 1..Len(W) : m[Base(h) + (i - 1)] = W[i]
  /\ \A o \in Len(W)..Half - 1 : m[Base(h) + o] = Blank

(* Packed records, with nothing after them, are a log. *)
LEMMA PackedLog ==
  ASSUME NEW log \in Seq(Rec), NEW some, NEW m, Typed(m), NEW d \in Halves,
         HoldsOnly(m, d, RecordsWords(log, some))
  PROVE  \E l : /\ LogFrom(m, d, 0, l) /\ EndFrom(l, 0) = Len(RecordsWords(log, some))
                /\ Mirrors(l, log, some, Len(log)) /\ Picks(l, log, some, Len(log))
<1> DEFINE W == RecordsWords(log, some)
           N == Len(log)
<1>0. N \in Nat /\ W \in Seq(Word) /\ Len(W) \in Nat /\ Half \in Nat
  BY PackedIsWords, Bases
<1>1. PICK F : Packs(F, log, some)
  BY Packing
<1>2. \A n \in 0..N : F[n] \in Seq(Word) /\ Len(F[n]) \in Nat
  <2>1. \A n \in 0..N : F[n] \in Seq(Word)
    BY <1>1 DEF Packs
  <2>2. QED
    BY <2>1
<1>3. ASSUME NEW n \in 0..N PROVE Len(F[n]) <= Len(W) /\ \A j \in 1..Len(F[n]) : W[j] = F[n][j]
  BY <1>1, PackPrefix
<1> DEFINE Good(n, l) == /\ Chained(m, d, 0, l) /\ EndFrom(l, 0) = Len(F[n])
                         /\ Mirrors(l, log, some, n) /\ Picks(l, log, some, n)
           S == {n \in 0..N : \E l : Good(n, l)}
<1>4. 0 \in S
  <2>1. F[0] = <<>> /\ Len(F[0]) = 0
    BY <1>1 DEF Packs
  <2>2. Chained(m, d, 0, <<>>) /\ EndFrom(<<>>, 0) = 0
    BY <1>0 DEF Chained, EndFrom
  <2>3. \A k : Found(<<>>, k) = Absent
    BY DEF Found
  <2>4. Mirrors(<<>>, log, some, 0)
    BY <2>3 DEF Mirrors
  <2>5. Good(0, <<>>)
    <3> DEFINE p == [i \in 1..0 |-> i]
    <3>1. Len(<<>>) = 0 /\ \A i \in 1..0 : FALSE
      OBVIOUS
    <3>2. p \in [1..0 -> 1..0]
      OBVIOUS
    <3> HIDE DEF p
    <3>3. PicksBy(p, <<>>, log, some, 0)
      BY <3>1, <3>2 DEF PicksBy
    <3>4. QED
      BY <2>1, <2>2, <2>4, <3>3 DEF Picks
  <2> HIDE DEF Good
  <2>6. QED
    BY <1>0, <2>5
<1>5. ASSUME NEW n \in 0..N - 1, n \in S PROVE n + 1 \in S
  <2>1. PICK l : Good(n, l)
    BY <1>5
  <2> DEFINE r == log[n + 1]
             o == Len(F[n])
             q == [off |-> o, key |-> r.key, val |-> r.val]
             w == RecordWords(r.key, r.val)
  <2>2. n + 1 \in 1..N /\ n + 1 \in 0..N /\ (n + 1) - 1 = n /\ n \in 0..N /\ n \in Nat
    BY <1>0
  <2>3. r \in Rec
    BY <2>2
  <2>4. r.key \in Keys /\ r.val \in Data /\ Size(r.val) \in Nat \ {0}
    BY <2>3, Sizes DEF Rec
  <2>5. F[n + 1] = IF r \in some THEN F[n] \o w ELSE F[n]
    <3>1. F[n + 1] = IF log[n + 1] \in some
                       THEN F[(n + 1) - 1] \o RecordWords(log[n + 1].key, log[n + 1].val)
                       ELSE F[(n + 1) - 1]
      BY <1>1, <2>2 DEF Packs
    <3>2. QED
      BY <2>2, <3>1
  <2>6. o \in Nat /\ l \in Seq(Rec)
    BY <1>2, <2>1, <2>2 DEF Chained
  <2>7. CASE r \in some
    <3>1. /\ w \in Seq(Word) /\ Len(w) = Size(r.val)
          /\ \A i \in 1..Size(r.val) : w[i] = <<r.key, r.val, i - 1>>
      BY <2>4, RecordWordsAre
    <3> HIDE DEF w, r
    <3>2. Len(F[n + 1]) = o + Size(r.val) /\ \A i \in 1..Size(r.val) : F[n + 1][o + i] = w[i]
      <4>1. F[n] \in Seq(Word) /\ F[n + 1] = F[n] \o w
        BY <1>2, <2>2, <2>5, <2>7
      <4>2. ASSUME NEW s \in Seq(Word), NEW u \in Seq(Word)
            PROVE  Len(s \o u) = Len(s) + Len(u) /\ \A i \in 1..Len(u) : (s \o u)[Len(s) + i] = u[i]
        BY ConcatProps
      <4>3. /\ Len(F[n] \o w) = Len(F[n]) + Len(w)
            /\ \A i \in 1..Len(w) : (F[n] \o w)[Len(F[n]) + i] = w[i]
        BY <3>1, <4>1, <4>2
      <4>4. QED
        BY <3>1, <4>1, <4>3
    <3> HIDE DEF o
    <3>3. o + Size(r.val) <= Half
      <4>1. Len(W) <= Half
        BY DEF HoldsOnly
      <4>2. Len(F[n + 1]) <= Len(W)
        BY <1>3, <2>2
      <4>3. QED
        BY <1>0, <2>4, <2>6, <3>2, <4>1, <4>2
    <3>4. ASSUME NEW i \in 0..Size(r.val) - 1 PROVE m[Base(d) + (o + i)] = <<r.key, r.val, i>>
      <4> DEFINE j == o + (i + 1)
      <4>1. i + 1 \in 1..Size(r.val) /\ (i + 1) - 1 = i /\ j - 1 = o + i
        BY <2>4, <2>6
      <4>2. j \in 1..Len(F[n + 1])
        BY <2>4, <2>6, <3>2, <4>1
      <4>3. F[n + 1][j] = <<r.key, r.val, i>>
        BY <3>1, <3>2, <4>1
      <4> HIDE DEF j
      <4>4. W[j] = F[n + 1][j] /\ j \in 1..Len(W)
        <5>1. Len(F[n + 1]) <= Len(W) /\ Len(F[n + 1]) \in Nat /\ W[j] = F[n + 1][j]
          BY <1>2, <1>3, <2>2, <4>2
        <5>2. QED
          BY <1>0, <4>2, <5>1
      <4>5. m[Base(d) + (j - 1)] = W[j]
        BY <4>4 DEF HoldsOnly
      <4>6. QED
        BY <4>1, <4>3, <4>4, <4>5
    <3>5. IsRecord(m, d, o) /\ RecAt(m, d, o) = q
      <4>1. o \in Nat /\ r.key \in Keys /\ r.val \in Data
        BY <2>4, <2>6
      <4>2. QED
        <5>1. IsRecord(m, d, o) /\ RecAt(m, d, o) = [off |-> o, key |-> r.key, val |-> r.val]
          BY <3>3, <3>4, <4>1, RecordWhen, SMTT(60)
        <5>2. QED
          BY <5>1
    <3>6. q \in Rec /\ q.off = o /\ q.key = r.key /\ q.val = r.val
      <4>1. o \in Offsets
        BY <1>0, <2>4, <2>6, <3>3 DEF Offsets
      <4>2. QED
        BY <2>4, <4>1 DEF Rec
    <3> HIDE DEF q
    <3>7. /\ Chained(m, d, 0, l) /\ EndFrom(l, 0) = o
          /\ Mirrors(l, log, some, n) /\ Picks(l, log, some, n)
      BY <2>1 DEF o
    <3>8. Chained(m, d, 0, Append(l, q)) /\ EndFrom(Append(l, q), 0) = o + Size(r.val)
      <4>1. IsRecord(m, d, q.off) /\ RecAt(m, d, q.off) = q /\ q.off = EndFrom(l, 0)
            /\ q.off + Size(q.val) <= Half
        BY <3>3, <3>5, <3>6, <3>7
      <4>2. QED
        BY <3>6, <3>7, <4>1, ChainAppend
    <3>9. Mirrors(Append(l, q), log, some, n + 1) /\ Picks(Append(l, q), log, some, n + 1)
      <4>1. Mirrors(IF log[n + 1] \in some THEN Append(l, q) ELSE l, log, some, n + 1)
        BY <2>2, <2>6, <3>6, <3>7, MirrorsNext DEF r
      <4>2. Picks(IF log[n + 1] \in some THEN Append(l, q) ELSE l, log, some, n + 1)
        BY <2>2, <2>6, <3>6, <3>7, PicksNext DEF r
      <4>3. QED
        BY <2>7, <4>1, <4>2 DEF r
    <3>10. Good(n + 1, Append(l, q))
      BY <3>2, <3>8, <3>9
    <3> HIDE DEF Good
    <3>11. QED
      BY <2>2, <3>10
  <2>8. CASE r \notin some
    <3> DEFINE q0 == [off |-> 0, key |-> r.key, val |-> r.val]
    <3>1. q0 \in Rec
      <4>1. 0 \in Offsets
        BY Bases DEF Offsets
      <4>2. QED
        BY <2>4, <4>1 DEF Rec
    <3>2. q0.key = r.key /\ q0.val = r.val
      OBVIOUS
    <3>3. Mirrors(l, log, some, n + 1) /\ Picks(l, log, some, n + 1)
      <4> HIDE DEF q0
      <4>1. Mirrors(IF log[n + 1] \in some THEN Append(l, q0) ELSE l, log, some, n + 1)
        BY <2>1, <2>2, <2>6, <3>1, <3>2, MirrorsNext
      <4>2. Picks(IF log[n + 1] \in some THEN Append(l, q0) ELSE l, log, some, n + 1)
        BY <2>1, <2>2, <2>6, <3>1, <3>2, PicksNext
      <4>3. QED
        BY <2>8, <4>1, <4>2
    <3>4. Good(n + 1, l)
      BY <2>1, <2>5, <2>8, <3>3
    <3> HIDE DEF Good
    <3>5. QED
      BY <2>2, <3>4
  <2>9. QED
    BY <2>7, <2>8
<1>6. N \in S
  <2> HIDE DEF Good
  <2>1. \A n \in 0..N - 1 : n \in S => n + 1 \in S
    BY <1>5
  <2> HIDE DEF S
  <2>2. 0..N \subseteq S
    BY <1>0, <1>4, <2>1, InductTo
  <2>3. QED
    BY <1>0, <2>2
<1>7. PICK l : Good(N, l)
  BY <1>6
<1>8. F[N] = W
  BY <1>1 DEF Packs
<1>9. ~IsRecord(m, d, Len(W))
  <2>1. CASE Len(W) = Half
    BY <1>0, <2>1 DEF IsRecord
  <2>2. CASE Len(W) # Half
    <3>1. Len(W) \in Len(W)..Half - 1
      BY <1>0, <2>2 DEF HoldsOnly
    <3>2. m[Base(d) + Len(W)] = Blank
      BY <3>1 DEF HoldsOnly
    <3>3. QED
      BY <3>2 DEF IsRecord
  <2>3. QED
    BY <2>1, <2>2
<1>10. LogFrom(m, d, 0, l)
  BY <1>7, <1>8, <1>9 DEF LogFrom
<1>11. QED
  BY <1>7, <1>8, <1>10

-----------------------------------------------------------------------------
(* The plan of a flip.                                                     *)

(* A selection that has the last record of every key, or, where that is a  *)
(* tombstone, none of the key's records.                                   *)
Faithful(log, some) ==
  \A k, i : LastOf(log, k, i) =>
    \/ log[i] \in some
    \/ log[i].val = Absent /\ \A j \in 1..Len(log) : log[j].key = k => log[j] \notin some

LEMMA FaithfulFinds ==
  ASSUME NEW log \in Seq(Rec), NEW some, Faithful(log, some),
         NEW l, Mirrors(l, log, some, Len(log)), NEW k
  PROVE  Found(l, k) = Found(log, k)
<1>1. CASE \A i \in 1..Len(log) : log[i].key # k
  <2>1. Found(log, k) = Absent
    BY <1>1, FoundNone
  <2>2. Found(l, k) = Absent
    BY <1>1 DEF Mirrors
  <2>3. QED
    BY <2>1, <2>2
<1>2. ASSUME NEW i, LastOf(log, k, i) PROVE Found(l, k) = Found(log, k)
  <2>1. Found(log, k) = log[i].val
    BY <1>2, FoundLast
  <2>2. i \in 1..Len(log) /\ log[i].key = k /\ \A j \in i + 1..Len(log) : log[j].key # k
    BY <1>2 DEF LastOf
  <2>3. CASE log[i] \in some
    BY <2>1, <2>2, <2>3 DEF Mirrors
  <2>4. CASE log[i].val = Absent /\ \A j \in 1..Len(log) : log[j].key = k => log[j] \notin some
    <3>1. Found(l, k) = Absent
      BY <2>4 DEF Mirrors
    <3>2. QED
      BY <2>1, <2>4, <3>1
  <2>5. QED
    BY <1>2, <2>3, <2>4 DEF Faithful
<1>3. QED
  BY <1>1, <1>2, FoundCases

(* Offsets grow along a log. *)
LEMMA ChainAscends ==
  ASSUME NEW m, NEW h \in Halves, NEW l, Chained(m, h, 0, l)
  PROVE  /\ \A i, j \in 1..Len(l) : i < j => l[i].off < l[j].off
         /\ \A i \in 1..Len(l) : l[i].off < EndFrom(l, 0)
<1> DEFINE N == Len(l)
<1>1. l \in Seq(Rec) /\ N \in Nat /\ \A i \in 1..N : l[i] \in Rec
  BY DEF Chained
<1>2. \A i \in 1..N : l[i].off \in Nat /\ Size(l[i].val) \in Nat \ {0}
  BY <1>1, RecordFields
<1>3. ASSUME NEW i \in 1..N - 1 PROVE l[i + 1].off = l[i].off + Size(l[i].val)
  <2>1. i + 1 \in 1..Len(l) /\ i + 1 # 1 /\ (i + 1) - 1 = i
    BY <1>1
  <2>2. l[i + 1].off = l[(i + 1) - 1].off + Size(l[(i + 1) - 1].val)
    BY <2>1 DEF Chained
  <2>3. QED
    BY <2>1, <2>2
<1>4. ASSUME NEW i \in 1..N PROVE \A j \in 1..N : i < j => l[i].off < l[j].off
  <2> DEFINE S == {q \in 0..N - i : q = 0 \/ l[i].off < l[i + q].off}
  <2>1. 0 \in S
    BY <1>1
  <2>2. ASSUME NEW q \in 0..(N - i) - 1, q \in S PROVE q + 1 \in S
    <3> DEFINE j == i + q
    <3>1. j \in 1..N - 1 /\ i + (q + 1) = j + 1 /\ q + 1 \in 0..N - i /\ j \in 1..N /\ j + 1 \in 1..N
      BY <1>1
    <3>2. l[i].off <= l[j].off
      <4>1. CASE q = 0
        <5>1. j = i
          BY <4>1
        <5>2. l[i].off \in Nat
          BY <1>2
        <5> HIDE DEF j
        <5>3. QED
          BY <5>1, <5>2
      <4>2. CASE q # 0
        <5>1. l[i].off < l[j].off
          BY <2>2, <4>2
        <5>2. l[i].off \in Nat /\ l[j].off \in Nat
          BY <1>2, <3>1
        <5> HIDE DEF j
        <5>3. QED
          BY <5>1, <5>2
      <4>3. QED
        BY <4>1, <4>2
    <3> HIDE DEF j
    <3>3. l[j + 1].off = l[j].off + Size(l[j].val)
      BY <1>3, <3>1
    <3>4. l[i].off < l[j + 1].off
      <4>1. l[i].off \in Nat /\ l[j].off \in Nat /\ Size(l[j].val) \in Nat \ {0}
        BY <1>2, <3>1
      <4>2. QED
        BY <3>2, <3>3, <4>1
    <3>5. QED
      BY <3>1, <3>4
  <2>3. 0..N - i \subseteq S
    <3>1. \A q \in 0..(N - i) - 1 : q \in S => q + 1 \in S
      BY <2>2
    <3>2. N - i \in Nat
      BY <1>1
    <3> HIDE DEF S
    <3>3. QED
      BY <2>1, <3>1, <3>2, InductTo
  <2>4. ASSUME NEW j \in 1..N, i < j PROVE l[i].off < l[j].off
    <3>1. j - i \in 0..N - i /\ j - i # 0 /\ i + (j - i) = j
      BY <1>1, <2>4
    <3>2. j - i \in S
      BY <2>3, <3>1
    <3>3. QED
      BY <3>1, <3>2
  <2>5. QED
    BY <2>4
<1>5. ASSUME NEW i \in 1..N PROVE l[i].off < EndFrom(l, 0)
  <2>1. N \in 1..N /\ N # 0 /\ (i = N \/ i < N)
    BY <1>1
  <2>2. EndFrom(l, 0) = l[N].off + Size(l[N].val)
    BY <2>1 DEF EndFrom
  <2>3. l[i].off <= l[N].off
    BY <1>2, <1>4, <2>1
  <2>4. QED
    BY <1>2, <2>1, <2>2, <2>3
<1>6. QED
  BY <1>4, <1>5

PlanRecs(log, plan) == {r \in ToSet(log) : r.off \in plan /\ r.val # Absent}
TailRecs(log, e) == {r \in ToSet(log) : r.off >= e}

IsLatestBefore(log, e, j) ==
  log[j].off < e /\ \A n \in j + 1..Len(log) : log[n].off < e => log[n].key # log[j].key

(* The offsets of the last records of every key below e. *)
LatestBefore(log, e) == {log[i].off : i \in {j \in 1..Len(log) : IsLatestBefore(log, e, j)}}

LEMMA SelectionIs ==
  ASSUME NEW log \in Seq(Rec), NEW plan, NEW e, NEW i \in 1..Len(log)
  PROVE  /\ log[i] \in PlanRecs(log, plan) <=> log[i].off \in plan /\ log[i].val # Absent
         /\ log[i] \in TailRecs(log, e) <=> log[i].off >= e
<1>1. log[i] \in ToSet(log)
  BY DEF ToSet
<1>2. QED
  BY <1>1 DEF PlanRecs, TailRecs

LEMMA StartPlans ==
  ASSUME NEW m, NEW h \in Halves, NEW l, Chained(m, h, 0, l)
  PROVE  LatestOffsets(l) = LatestBefore(l, LogEnd(l))
<1>1. l \in Seq(Rec) /\ DOMAIN l = 1..Len(l) /\ Len(l) \in Nat
  BY DEF Chained
<1>2. LogEnd(l) = EndFrom(l, 0)
  BY <1>1, LogEnds
<1>3. \A i \in 1..Len(l) : l[i].off < LogEnd(l)
  BY <1>2, ChainAscends
<1>4. ASSUME NEW j \in 1..Len(l) PROVE IsLatest(l, j) <=> IsLatestBefore(l, LogEnd(l), j)
  <2>1. \A n \in j + 1..Len(l) : n \in 1..Len(l)
    BY <1>1
  <2>2. QED
    BY <1>3, <2>1 DEF IsLatest, IsLatestBefore
<1>5. {j \in DOMAIN l : IsLatest(l, j)} = {j \in 1..Len(l) : IsLatestBefore(l, LogEnd(l), j)}
  BY <1>1, <1>4
<1>6. QED
  BY <1>5 DEF LatestOffsets, LatestBefore

(* The plan and the tail together lose nothing. *)
LEMMA FlipFaithful ==
  ASSUME NEW m, NEW h \in Halves, NEW l, Chained(m, h, 0, l), NEW e \in Nat
  PROVE  LET A == PlanRecs(l, LatestBefore(l, e))
             B == TailRecs(l, e)
         IN  /\ Faithful(l, A \cup B)
             /\ \A i, j \in 1..Len(l) : l[i] \in B /\ l[j] \in A => j < i
<1> DEFINE P == LatestBefore(l, e)
           A == PlanRecs(l, P)
           B == TailRecs(l, e)
<1>1. l \in Seq(Rec) /\ Len(l) \in Nat /\ \A i \in 1..Len(l) : l[i] \in Rec
  BY DEF Chained
<1>2. \A i \in 1..Len(l) : l[i].off \in Nat
  BY <1>1, Bases DEF Rec, Offsets
<1>3. \A i, j \in 1..Len(l) : i < j => l[i].off < l[j].off
  BY ChainAscends
<1>4. ASSUME NEW i \in 1..Len(l) PROVE l[i].off \in P <=> IsLatestBefore(l, e, i)
  <2>1. ASSUME l[i].off \in P PROVE IsLatestBefore(l, e, i)
    <3>1. PICK j \in 1..Len(l) : IsLatestBefore(l, e, j) /\ l[j].off = l[i].off
      BY <2>1 DEF LatestBefore
    <3>2. i = j
      <4>1. ~(i < j) /\ ~(j < i)
        BY <1>2, <1>3, <3>1
      <4>2. QED
        BY <4>1
    <3>3. QED
      BY <3>1, <3>2
  <2>2. ASSUME IsLatestBefore(l, e, i) PROVE l[i].off \in P
    BY <2>2 DEF LatestBefore
  <2>3. QED
    BY <2>1, <2>2
<1> HIDE DEF P
<1>5. ASSUME NEW i \in 1..Len(l)
      PROVE  /\ l[i] \in A <=> IsLatestBefore(l, e, i) /\ l[i].val # Absent
             /\ l[i] \in B <=> l[i].off >= e
  BY <1>1, <1>4, SelectionIs
<1> HIDE DEF A, B
<1>6. ASSUME NEW i \in 1..Len(l), NEW j \in 1..Len(l), l[i] \in B, l[j] \in A PROVE j < i
  <2>1. l[i].off >= e /\ l[j].off < e
    BY <1>5, <1>6 DEF IsLatestBefore
  <2>2. ~(i < j) /\ i # j
    BY <1>2, <1>3, <2>1
  <2>3. QED
    BY <2>2
<1>7. ASSUME NEW k, NEW i, LastOf(l, k, i)
      PROVE  \/ l[i] \in A \cup B
             \/ l[i].val = Absent /\ \A j \in 1..Len(l) : l[j].key = k => l[j] \notin A \cup B
  <2>1. i \in 1..Len(l) /\ l[i].key = k /\ \A j \in i + 1..Len(l) : l[j].key # k
    BY <1>7 DEF LastOf
  <2>2. CASE l[i].off >= e
    BY <1>5, <2>1, <2>2
  <2>3. CASE l[i].off < e
    <3>1. IsLatestBefore(l, e, i)
      BY <2>1, <2>3 DEF IsLatestBefore
    <3>2. CASE l[i].val # Absent
      BY <1>5, <2>1, <3>1, <3>2
    <3>3. CASE l[i].val = Absent
      <4>1. ASSUME NEW j \in 1..Len(l), l[j].key = k PROVE l[j] \notin A \cup B
        <5>1. j = i \/ j < i
          <6>1. j \notin i + 1..Len(l)
            BY <2>1, <4>1
          <6>2. QED
            BY <2>1, <6>1
        <5>2. CASE j = i
          BY <1>2, <1>5, <2>1, <2>3, <3>3, <5>2
        <5>3. CASE j < i
          <6>1. l[j].off < e
            BY <1>2, <1>3, <2>1, <2>3, <5>3
          <6>2. ~IsLatestBefore(l, e, j)
            <7>1. i \in j + 1..Len(l)
              BY <2>1, <5>3
            <7>2. QED
              BY <2>1, <2>3, <4>1, <7>1 DEF IsLatestBefore
          <6>3. QED
            BY <1>2, <1>5, <6>1, <6>2
        <5>4. QED
          BY <5>1, <5>2, <5>3
      <4>2. QED
        BY <3>3, <4>1
    <3>4. QED
      BY <3>2, <3>3
  <2>4. QED
    BY <1>2, <2>1, <2>2, <2>3
<1>8. Faithful(l, A \cup B)
  BY <1>7 DEF Faithful
<1>9. QED
  BY <1>6, <1>8 DEF A, B, P

(* Records appended after e do not touch the plan. *)
LEMMA PlanStays ==
  ASSUME NEW l \in Seq(Rec), NEW r \in Rec, NEW e \in Nat, r.off >= e
  PROVE  /\ LatestBefore(Append(l, r), e) = LatestBefore(l, e)
         /\ \A plan : r.off \notin plan =>
              PackedWords(Append(l, r), plan) = PackedWords(l, plan)
<1> DEFINE x == Append(l, r)
<1>1. x \in Seq(Rec) /\ Len(x) = Len(l) + 1 /\ Len(l) \in Nat /\ x[Len(l) + 1] = r
      /\ \A i \in 1..Len(l) : x[i] = l[i]
  OBVIOUS
<1> HIDE DEF x
<1>2. r.off \in Nat
  BY Bases DEF Rec, Offsets
<1>3. ~(r.off < e)
  BY <1>2
<1>4. ASSUME NEW j \in 1..Len(l) PROVE IsLatestBefore(x, e, j) <=> IsLatestBefore(l, e, j)
  <2>1. \A n \in j + 1..Len(x) : n \in j + 1..Len(l) \/ n = Len(l) + 1
    BY <1>1
  <2>2. \A n \in j + 1..Len(l) : n \in j + 1..Len(x) /\ n \in 1..Len(l)
    BY <1>1
  <2>3. QED
    BY <1>1, <1>3, <2>1, <2>2 DEF IsLatestBefore
<1>5. ~IsLatestBefore(x, e, Len(l) + 1)
  BY <1>1, <1>3 DEF IsLatestBefore
<1>6. \A o : o \in LatestBefore(x, e) <=> o \in LatestBefore(l, e)
  <2>1. ASSUME NEW o, o \in LatestBefore(x, e) PROVE o \in LatestBefore(l, e)
    <3>1. PICK i \in 1..Len(x) : IsLatestBefore(x, e, i) /\ x[i].off = o
      BY <2>1 DEF LatestBefore
    <3>2. i \in 1..Len(l)
      BY <1>1, <1>5, <3>1
    <3>3. QED
      BY <1>1, <1>4, <3>1, <3>2 DEF LatestBefore
  <2>2. ASSUME NEW o, o \in LatestBefore(l, e) PROVE o \in LatestBefore(x, e)
    <3>1. PICK i \in 1..Len(l) : IsLatestBefore(l, e, i) /\ l[i].off = o
      BY <2>2 DEF LatestBefore
    <3>2. i \in 1..Len(x)
      BY <1>1
    <3>3. QED
      BY <1>1, <1>4, <3>1, <3>2 DEF LatestBefore
  <2>3. QED
    BY <2>1, <2>2
<1>7. LatestBefore(x, e) = LatestBefore(l, e)
  BY <1>6
<1>8. ASSUME NEW plan, r.off \notin plan PROVE PackedWords(x, plan) = PackedWords(l, plan)
  <2>1. PackedWords(x, plan) = RecordsWords(x, PlanRecs(x, plan))
        /\ PackedWords(l, plan) = RecordsWords(l, PlanRecs(l, plan))
    BY DEF PackedWords, PlanRecs
  <2>2. Len(l) <= Len(x)
    BY <1>1
  <2>3. ASSUME NEW i \in 1..Len(l)
        PROVE  x[i] = l[i] /\ (l[i] \in PlanRecs(l, plan) <=> x[i] \in PlanRecs(x, plan))
    <3>1. i \in 1..Len(x) /\ x[i] = l[i]
      BY <1>1
    <3>2. l[i] \in PlanRecs(l, plan) <=> l[i].off \in plan /\ l[i].val # Absent
      BY SelectionIs
    <3>3. x[i] \in PlanRecs(x, plan) <=> x[i].off \in plan /\ x[i].val # Absent
      BY <1>1, <3>1, SelectionIs
    <3>4. QED
      BY <3>1, <3>2, <3>3
  <2>4. ASSUME NEW i \in Len(l) + 1..Len(x) PROVE x[i] \notin PlanRecs(x, plan)
    <3>1. i = Len(l) + 1
      BY <1>1
    <3>2. QED
      BY <1>1, <1>8, <3>1 DEF PlanRecs
  <2>5. RecordsWords(x, PlanRecs(x, plan)) = RecordsWords(l, PlanRecs(l, plan))
    BY <1>1, <2>2, <2>3, <2>4, PackedAlike
  <2>6. QED
    BY <2>1, <2>5
<1>9. QED
  BY <1>7, <1>8 DEF x

-----------------------------------------------------------------------------
(* Memories.                                                               *)

NoBuried(m) ==
  LET h == ActiveHalf(m)
  IN  \A o \in LogEnd(Log(m, h))..Half - 1 : ~IsRecord(m, h, o)

Empty(m) == \A h \in Halves, o \in Offsets : m[Base(h) + o] = Blank

(* A memory between two operations. *)
Sound(m) == Typed(m) /\ NoBuried(m) /\ (~Initialised(m) => Empty(m))

LEMMA Actives ==
  ASSUME NEW m, Typed(m)
  PROVE  /\ \A h \in Halves : GenOf(m, h) \in Nat
         /\ ActiveHalf(m) \in Halves /\ 1 - ActiveHalf(m) \in Halves
         /\ ActiveGen(m) \in Nat
         /\ \A h \in Halves : GenOf(m, h) <= ActiveGen(m)
         /\ Initialised(m) <=> ActiveGen(m) # 0
         /\ \A h \in Halves : GenOf(m, h) # 0 => m[SuperOff(h)] = GenOf(m, h)
<1>1. ASSUME NEW h \in Halves PROVE GenOf(m, h) \in Nat
  BY DEF Typed, GenOf
<1>2. ActiveHalf(m) \in Halves /\ 1 - ActiveHalf(m) \in Halves
  BY DEF ActiveHalf, Halves
<1>3. ActiveGen(m) \in Nat
  BY <1>1, <1>2 DEF ActiveGen
<1>4. ASSUME NEW h \in Halves PROVE GenOf(m, h) <= ActiveGen(m)
  <2>1. GenOf(m, 0) \in Nat /\ GenOf(m, 1) \in Nat
    BY <1>1 DEF Halves
  <2>2. GenOf(m, 0) <= ActiveGen(m) /\ GenOf(m, 1) <= ActiveGen(m)
    BY <2>1 DEF ActiveGen, ActiveHalf
  <2>3. QED
    BY <2>2 DEF Halves
<1>5. Initialised(m) <=> ActiveGen(m) # 0
  BY <1>1, <1>2, <1>3, <1>4 DEF Initialised, ActiveGen
<1>6. \A h \in Halves : GenOf(m, h) # 0 => m[SuperOff(h)] = GenOf(m, h)
  BY DEF GenOf
<1>7. QED
  BY <1>1, <1>2, <1>3, <1>4, <1>5, <1>6

(* Nothing that is read has changed. *)
Steady(m, m2) ==
  /\ Typed(m2)
  /\ SameHalf(m, m2, ActiveHalf(m))
  /\ m2[SuperOff(ActiveHalf(m))] = m[SuperOff(ActiveHalf(m))]
  /\ m2[SuperOff(1 - ActiveHalf(m))] \in {m[SuperOff(1 - ActiveHalf(m))], Junk}

(* The superblocks decide which half is active. *)
LEMMA ActiveStays ==
  ASSUME NEW m, Typed(m), Initialised(m), NEW m2, Typed(m2),
         m2[SuperOff(ActiveHalf(m))] = m[SuperOff(ActiveHalf(m))],
         m2[SuperOff(1 - ActiveHalf(m))] \in {m[SuperOff(1 - ActiveHalf(m))], Junk}
  PROVE  /\ ActiveHalf(m2) = ActiveHalf(m) /\ ActiveGen(m2) = ActiveGen(m)
         /\ Initialised(m2)
<1> DEFINE a == ActiveHalf(m)
<1>1. GenOf(m2, a) = GenOf(m, a)
  BY DEF GenOf
<1>2. GenOf(m2, 1 - a) \in {GenOf(m, 1 - a), 0}
  BY DEF GenOf
<1>3. GenOf(m, 0) \in Nat /\ GenOf(m, 1) \in Nat
  BY Actives DEF Halves
<1>4. ActiveHalf(m2) = a
  <2>1. CASE a = 0
    <3>1. GenOf(m2, 0) = GenOf(m, 0) /\ GenOf(m2, 1) \in {GenOf(m, 1), 0}
      BY <1>1, <1>2, <2>1
    <3>2. GenOf(m, 0) >= GenOf(m, 1)
      BY <2>1 DEF ActiveHalf
    <3>3. GenOf(m2, 0) >= GenOf(m2, 1)
      BY <1>3, <3>1, <3>2
    <3>4. QED
      BY <2>1, <3>3 DEF ActiveHalf
  <2>2. CASE a = 1
    <3>1. GenOf(m2, 1) = GenOf(m, 1) /\ GenOf(m2, 0) \in {GenOf(m, 0), 0}
      BY <1>1, <1>2, <2>2
    <3>2. ~(GenOf(m, 0) >= GenOf(m, 1))
      BY <2>2 DEF ActiveHalf
    <3>3. ~(GenOf(m2, 0) >= GenOf(m2, 1))
      BY <1>3, <3>1, <3>2
    <3>4. QED
      BY <2>2, <3>3 DEF ActiveHalf
  <2>3. QED
    BY <2>1, <2>2 DEF ActiveHalf
<1>5. ActiveGen(m2) = ActiveGen(m)
  BY <1>1, <1>4 DEF ActiveGen
<1>6. Initialised(m2)
  BY <1>5, Actives
<1>7. QED
  BY <1>4, <1>5, <1>6

LEMMA SteadyKeeps ==
  ASSUME NEW m, Sound(m), Initialised(m), NEW m2, Steady(m, m2)
  PROVE  /\ Sound(m2) /\ Initialised(m2)
         /\ ActiveHalf(m2) = ActiveHalf(m) /\ ActiveGen(m2) = ActiveGen(m)
         /\ Log(m2, ActiveHalf(m)) = Log(m, ActiveHalf(m))
         /\ \A k : Get(m2, k) = Get(m, k)
<1> DEFINE a == ActiveHalf(m)
<1>0. Typed(m) /\ Typed(m2) /\ a \in Halves
  BY Actives DEF Sound, Steady
<1>1. ActiveHalf(m2) = a /\ ActiveGen(m2) = ActiveGen(m) /\ Initialised(m2)
  BY <1>0, ActiveStays DEF Steady
<1>2. SameHalf(m, m2, a)
  BY DEF Steady
<1> HIDE DEF a
<1>3. Log(m2, a) = Log(m, a)
  BY <1>0, <1>2, LogSame
<1>4. \A k : Get(m2, k) = Get(m, k)
  BY <1>1, <1>3 DEF Get, a
<1>5. NoBuried(m2)
  <2>1. ASSUME NEW o \in LogEnd(Log(m, a))..Half - 1 PROVE ~IsRecord(m2, a, o)
    <3>1. o \in Nat
      BY <1>0, LogFacts
    <3>2. ~IsRecord(m, a, o)
      BY DEF Sound, NoBuried, a
    <3>3. QED
      BY <1>0, <1>2, <3>1, <3>2, RecordSame
  <2>2. QED
    BY <1>1, <1>3, <2>1 DEF NoBuried
<1>6. Sound(m2)
  BY <1>0, <1>1, <1>5 DEF Sound
<1>7. QED
  BY <1>1, <1>3, <1>4, <1>6 DEF a

(* Programs that only touch a half that is not active. *)
DeadWrites(ws, d) ==
  /\ ws \in Seq(Writes)
  /\ \A i \in 1..Len(ws) : \E o \in Offsets : ws[i].addr = Base(d) + o /\ ws[i].word \in Word

LEMMA DeadIsSteady ==
  ASSUME NEW m, Typed(m), NEW ws, DeadWrites(ws, 1 - ActiveHalf(m)),
         NEW m2, Touched(m, ws, m2)
  PROVE  Steady(m, m2) /\ \A h \in Halves : m2[SuperOff(h)] = m[SuperOff(h)]
<1> DEFINE a == ActiveHalf(m)
           d == 1 - a
<1>0. a \in Halves /\ d \in Halves /\ a # d /\ m \in Memory /\ m2 \in Memory
  BY Actives, Bases DEF Typed, Touched
<1>1. ASSUME NEW x \in Region, m2[x] # m[x]
      PROVE  \E o \in Offsets : x = Base(d) + o /\ m2[x] \in Word
  <2>1. PICK i \in 1..Len(ws) : ws[i].addr = x /\ m2[x] \in {Junk, ws[i].word}
    BY <1>1 DEF Touched
  <2>2. PICK o \in Offsets : ws[i].addr = Base(d) + o /\ ws[i].word \in Word
    BY <2>1 DEF DeadWrites
  <2>3. QED
    BY <2>1, <2>2, WordsAreCells
<1> HIDE DEF d, a
<1>2. ASSUME NEW h \in Halves PROVE m2[SuperOff(h)] = m[SuperOff(h)]
  BY <1>0, <1>1, Addresses
<1>3. ASSUME NEW h \in Halves, NEW o \in Offsets PROVE m2[Base(h) + o] \in Word
  <2>1. Base(h) + o \in Region /\ m[Base(h) + o] \in Word
    BY Addresses DEF Typed
  <2>2. QED
    BY <1>1, <2>1
<1>4. Typed(m2)
  BY <1>0, <1>2, <1>3 DEF Typed
<1>5. ASSUME NEW o \in Offsets PROVE m2[Base(a) + o] = m[Base(a) + o]
  <2>1. Base(a) + o \in Region
    BY <1>0, Addresses
  <2>2. \A q \in Offsets : Base(a) + o # Base(d) + q
    BY <1>0, Addresses
  <2>3. QED
    BY <1>1, <2>1, <2>2
<1>6. SameHalf(m, m2, a)
  BY <1>5 DEF SameHalf
<1>7. QED
  BY <1>0, <1>2, <1>4, <1>6 DEF Steady, a, d

LEMMA SteadySelf ==
  ASSUME NEW m, Typed(m)
  PROVE  Steady(m, m)
  BY DEF Steady, SameHalf

LEMMA SteadyTrans ==
  ASSUME NEW m, Typed(m), Initialised(m), NEW m1, Steady(m, m1), NEW m2, Steady(m1, m2)
  PROVE  Steady(m, m2)
<1>1. ActiveHalf(m1) = ActiveHalf(m)
  BY ActiveStays DEF Steady
<1>2. QED
  BY <1>1 DEF Steady, SameHalf

SuperIs(m, h, w, m2) ==
  /\ Typed(m2) /\ m2[SuperOff(h)] = w
  /\ \A g \in Halves : SameHalf(m, m2, g)
  /\ \A g \in Halves : g # h => m2[SuperOff(g)] = m[SuperOff(g)]

LEMMA SuperSet ==
  ASSUME NEW m, Typed(m), NEW h \in Halves, NEW w \in {Junk} \cup (Nat \ {0})
  PROVE  SuperIs(m, h, w, [m EXCEPT ![SuperOff(h)] = w])
<1> DEFINE m2 == [m EXCEPT ![SuperOff(h)] = w]
<1>1. m \in Memory /\ w \in Cell /\ SuperOff(h) \in Region
  BY Addresses DEF Typed, Cell
<1>2. m2 \in Memory /\ m2[SuperOff(h)] = w /\ \A x \in Region : x # SuperOff(h) => m2[x] = m[x]
  BY <1>1 DEF Memory
<1> HIDE DEF m2
<1>3. ASSUME NEW g \in Halves, NEW o \in Offsets PROVE m2[Base(g) + o] = m[Base(g) + o]
  BY <1>2, Addresses
<1>4. ASSUME NEW g \in Halves, g # h PROVE m2[SuperOff(g)] = m[SuperOff(g)]
  BY <1>2, <1>4, Addresses
<1>5. Typed(m2)
  BY <1>2, <1>3, <1>4 DEF Typed
<1>6. QED
  BY <1>2, <1>3, <1>4, <1>5 DEF SameHalf, SuperIs, m2

LEMMA JunkSteady ==
  ASSUME NEW m, Typed(m)
  PROVE  Steady(m, [m EXCEPT ![SuperOff(1 - ActiveHalf(m))] = Junk])
<1> DEFINE a == ActiveHalf(m)
           d == 1 - a
           m2 == [m EXCEPT ![SuperOff(d)] = Junk]
<1>1. a \in Halves /\ d \in Halves /\ a # d
  BY Actives, Bases
<1> HIDE DEF d, a
<1>2. SuperIs(m, d, Junk, m2)
  BY <1>1, SuperSet
<1> HIDE DEF m2
<1>3. Steady(m, m2)
  BY <1>1, <1>2 DEF Steady, SuperIs, a, d
<1>4. QED
  BY <1>3 DEF m2, d, a

-----------------------------------------------------------------------------
(* Appending.                                                              *)

(* A record stands as long as its words do. *)
LEMMA RecordKept ==
  ASSUME NEW m, Typed(m), NEW m2, NEW h \in Halves, NEW o \in Nat, IsRecord(m, h, o),
         \A q \in o..o + Size(RecAt(m, h, o).val) - 1 : m2[Base(h) + q] = m[Base(h) + q]
  PROVE  IsRecord(m2, h, o) /\ RecAt(m2, h, o) = RecAt(m, h, o)
<1> DEFINE r == RecAt(m, h, o)
<1>1. /\ r \in Rec /\ o + Size(r.val) \in o + 1..Half
      /\ \A i \in 0..Size(r.val) - 1 : m[Base(h) + (o + i)] = <<r.key, r.val, i>>
  BY RecordIs
<1>2. r = [off |-> o, key |-> r.key, val |-> r.val]
  BY DEF RecAt
<1> HIDE DEF r
<1>3. r.key \in Keys /\ r.val \in Data /\ Half \in Nat
  BY <1>1, Bases DEF Rec
<1>4. Size(r.val) \in Nat
  BY <1>3, Sizes
<1>5. ASSUME NEW i \in 0..Size(r.val) - 1 PROVE m2[Base(h) + (o + i)] = <<r.key, r.val, i>>
  <2>1. o + i \in o..o + Size(r.val) - 1
    BY <1>4
  <2>2. QED
    BY <1>1, <2>1 DEF r
<1>6. o + Size(r.val) <= Half
  BY <1>1, <1>3, <1>4
<1>7. IsRecord(m2, h, o) /\ RecAt(m2, h, o) = [off |-> o, key |-> r.key, val |-> r.val]
  BY <1>3, <1>5, <1>6, RecordWhen
<1>8. QED
  BY <1>2, <1>7 DEF r

(* Every record of a chain ends before the chain does. *)
LEMMA ChainEnds ==
  ASSUME NEW m, NEW h \in Halves, NEW l, Chained(m, h, 0, l), NEW i \in 1..Len(l)
  PROVE  l[i].off + Size(l[i].val) <= EndFrom(l, 0)
<1>1. l \in Seq(Rec) /\ Len(l) \in Nat /\ i \in Nat
  BY DEF Chained
<1>2. CASE i = Len(l)
  <2>1. Len(l) # 0 /\ l[i] \in Rec
    BY <1>1, <1>2
  <2>2. EndFrom(l, 0) = l[i].off + Size(l[i].val)
    BY <1>2, <2>1 DEF EndFrom
  <2>3. l[i].off \in Nat /\ Size(l[i].val) \in Nat
    BY <2>1, Bases, Sizes DEF Rec, Offsets
  <2>4. QED
    BY <2>2, <2>3
<1>3. CASE i # Len(l)
  <2>1. i + 1 \in 1..Len(l) /\ i + 1 # 1 /\ (i + 1) - 1 = i
    BY <1>1, <1>3
  <2>2. l[i + 1].off = l[(i + 1) - 1].off + Size(l[(i + 1) - 1].val)
    BY <2>1 DEF Chained
  <2>3. l[i + 1].off < EndFrom(l, 0)
    BY <2>1, ChainAscends
  <2>4. l[i + 1].off \in Nat /\ EndFrom(l, 0) \in Int
    <3>1. l[i + 1] \in Rec
      BY <1>1, <2>1
    <3>2. EndFrom(l, 0) \in Int
      BY Bases DEF Chained
    <3>3. QED
      BY <3>1, <3>2, Bases DEF Rec, Offsets
  <2>5. QED
    BY <2>1, <2>2, <2>3, <2>4
<1>4. QED
  BY <1>2, <1>3

LEMMA ChainKept ==
  ASSUME NEW m, Typed(m), NEW m2, NEW h \in Halves, NEW l, Chained(m, h, 0, l),
         \A o \in 0..EndFrom(l, 0) - 1 : m2[Base(h) + o] = m[Base(h) + o]
  PROVE  Chained(m2, h, 0, l)
<1>1. ASSUME NEW i \in 1..Len(l)
      PROVE  IsRecord(m2, h, l[i].off) /\ RecAt(m2, h, l[i].off) = l[i]
  <2> DEFINE o == l[i].off
             s == Size(l[i].val)
             e == EndFrom(l, 0)
  <2>1. l[i] \in Rec
    BY DEF Chained
  <2>2. o \in Nat /\ s \in Nat /\ e \in Int
    <3>1. o \in Nat /\ s \in Nat
      BY <2>1, RecordFields
    <3>2. e \in 0..Half
      BY DEF Chained
    <3>3. QED
      BY <3>1, <3>2, Bases
  <2>3. IsRecord(m, h, o) /\ RecAt(m, h, o) = l[i]
    BY DEF Chained
  <2>4. o + s <= e
    BY ChainEnds
  <2> HIDE DEF o, s, e
  <2>5. ASSUME NEW q \in o..o + s - 1 PROVE m2[Base(h) + q] = m[Base(h) + q]
    <3>1. q \in 0..e - 1
      BY <2>2, <2>4
    <3>2. QED
      BY <3>1 DEF e
  <2>6. \A q \in o..o + Size(RecAt(m, h, o).val) - 1 : m2[Base(h) + q] = m[Base(h) + q]
    BY <2>3, <2>5 DEF s
  <2>7. IsRecord(m2, h, o) /\ RecAt(m2, h, o) = RecAt(m, h, o)
    BY <2>2, <2>3, <2>6, RecordKept
  <2>8. QED
    BY <2>3, <2>7 DEF o
<1>2. QED
  BY <1>1 DEF Chained

(* The first n words of a record of k and v are written from offset e of   *)
(* half a, and the word in flight may be junk.                             *)
Appending(m, a, e, k, v, n, m2) ==
  /\ m2 \in Memory /\ n \in 0..Size(v)
  /\ \A i \in 0..n - 1 : m2[Base(a) + (e + i)] = <<k, v, i>>
  /\ \A x \in Region : (\A i \in 0..n - 1 : x # Base(a) + (e + i)) =>
       m2[x] = m[x] \/ (n < Size(v) /\ x = Base(a) + (e + n) /\ m2[x] = Junk)

(* The rest of the memory is as it was. *)
LEMMA AppendingElsewhere ==
  ASSUME NEW m, Typed(m), NEW a \in Halves, NEW e \in Nat, NEW k \in Keys, NEW v \in Data,
         e + Size(v) <= Half, NEW n, NEW m2, Appending(m, a, e, k, v, n, m2)
  PROVE  /\ Typed(m2)
         /\ \A h \in Halves : m2[SuperOff(h)] = m[SuperOff(h)]
         /\ SameHalf(m, m2, 1 - a)
         /\ \A o \in Offsets : o < e => m2[Base(a) + o] = m[Base(a) + o]
         /\ \A o \in Offsets : o > e =>
              \/ m2[Base(a) + o] = m[Base(a) + o] /\ o >= e + n
              \/ m2[Base(a) + o] = Junk
              \/ o < e + n /\ \E i \in 1..Size(v) : m2[Base(a) + o] = <<k, v, i>>
<1>0. /\ Size(v) \in Nat /\ Half \in Nat /\ n \in Nat /\ n <= Size(v) /\ m \in Memory /\ m2 \in Memory
      /\ 1 - a \in Halves /\ 1 - a # a
  BY Sizes, Bases DEF Appending, Typed
<1>1. ASSUME NEW h \in Halves, NEW o \in Offsets, h # a \/ o < e
      PROVE  m2[Base(h) + o] = m[Base(h) + o]
  <2>1. Base(h) + o \in Region
    BY Addresses
  <2>2. ASSUME NEW i \in 0..n, e + i \in Offsets PROVE Base(h) + o # Base(a) + (e + i)
    <3>1. h # a \/ o # e + i
      BY <1>0, <1>1 DEF Offsets
    <3>2. QED
      BY <2>2, <3>1, Addresses
  <2>3. \A i \in 0..n - 1 : e + i \in Offsets
    BY <1>0 DEF Offsets
  <2>4. n < Size(v) => n \in 0..n /\ e + n \in Offsets
    BY <1>0 DEF Offsets
  <2>5. \A i \in 0..n - 1 : i \in 0..n
    BY <1>0
  <2>6. QED
    BY <2>1, <2>2, <2>3, <2>4, <2>5 DEF Appending
<1>2. ASSUME NEW h \in Halves PROVE m2[SuperOff(h)] = m[SuperOff(h)]
  <2>1. SuperOff(h) \in Region
    BY Addresses
  <2>2. \A i \in 0..n : e + i \in Offsets => SuperOff(h) # Base(a) + (e + i)
    BY Addresses
  <2>3. \A i \in 0..n - 1 : i \in 0..n /\ e + i \in Offsets
    BY <1>0 DEF Offsets
  <2>4. n < Size(v) => n \in 0..n /\ e + n \in Offsets
    BY <1>0 DEF Offsets
  <2>5. QED
    BY <2>1, <2>2, <2>3, <2>4 DEF Appending
<1>3. ASSUME NEW o \in Offsets, o >= e
      PROVE  \/ m2[Base(a) + o] = m[Base(a) + o] /\ o >= e + n
             \/ m2[Base(a) + o] = Junk
             \/ o < e + n /\ \E i \in 0..Size(v) : m2[Base(a) + o] = <<k, v, i>> /\ o = e + i
  <2>1. CASE o < e + n
    <3>1. o - e \in 0..n - 1 /\ o - e \in 0..Size(v) /\ e + (o - e) = o
      BY <1>0, <1>3, <2>1 DEF Offsets
    <3>2. m2[Base(a) + (e + (o - e))] = <<k, v, o - e>>
      BY <3>1 DEF Appending
    <3>3. QED
      BY <2>1, <3>1, <3>2
  <2>2. CASE o >= e + n
    <3>1. \A i \in 0..n - 1 : o # e + i /\ e + i \in Offsets
      BY <1>0, <2>2 DEF Offsets
    <3>2. \A i \in 0..n - 1 : Base(a) + o # Base(a) + (e + i)
      BY <3>1, Addresses
    <3>3. Base(a) + o \in Region
      BY Addresses
    <3>4. m2[Base(a) + o] = m[Base(a) + o] \/ m2[Base(a) + o] = Junk
      BY <3>2, <3>3 DEF Appending
    <3>5. QED
      BY <2>2, <3>4
  <2>3. QED
    BY <1>0, <2>1, <2>2 DEF Offsets
<1>4. ASSUME NEW h \in Halves, NEW o \in Offsets PROVE m2[Base(h) + o] \in Word
  <2>1. m[Base(h) + o] \in Word
    BY DEF Typed
  <2>2. CASE h # a \/ o < e
    BY <1>1, <2>1, <2>2
  <2>3. CASE h = a /\ o >= e
    <3>1. \A i \in 0..Size(v) : <<k, v, i>> \in Word
      BY <1>0 DEF Word
    <3>2. QED
      BY <1>3, <2>1, <2>3, <3>1, WordsAreCells
  <2>4. QED
    BY <1>0, <2>2, <2>3 DEF Offsets
<1>5. Typed(m2)
  BY <1>0, <1>2, <1>4 DEF Typed
<1>6. SameHalf(m, m2, 1 - a)
  BY <1>0, <1>1 DEF SameHalf
<1>7. \A o \in Offsets : o < e => m2[Base(a) + o] = m[Base(a) + o]
  BY <1>1
<1>8. ASSUME NEW o \in Offsets, o > e
      PROVE  \/ m2[Base(a) + o] = m[Base(a) + o] /\ o >= e + n
             \/ m2[Base(a) + o] = Junk
             \/ o < e + n /\ \E i \in 1..Size(v) : m2[Base(a) + o] = <<k, v, i>>
  <2>1. o >= e
    BY <1>8 DEF Offsets
  <2>2. \A i \in 0..Size(v) : o = e + i => i \in 1..Size(v)
    BY <1>0, <1>8 DEF Offsets
  <2>3. QED
    BY <1>3, <2>1, <2>2
<1>9. QED
  BY <1>2, <1>5, <1>6, <1>7, <1>8

(* No record begins inside the new words, or after them. *)
LEMMA AppendingBuriesNone ==
  ASSUME NEW m, Typed(m), NEW a \in Halves, NEW e \in Nat, NEW k \in Keys, NEW v \in Data,
         e + Size(v) <= Half, NEW n, NEW m2, Appending(m, a, e, k, v, n, m2),
         \A o \in e..Half - 1 : ~IsRecord(m, a, o),
         NEW o \in e + 1..Half - 1
  PROVE  ~IsRecord(m2, a, o)
<1> SUFFICES ASSUME IsRecord(m2, a, o) PROVE FALSE
  OBVIOUS
<1> DEFINE r == RecAt(m2, a, o)
           s == Size(r.val)
<1>0. Typed(m2) /\ Half \in Nat /\ o \in Nat /\ o \in Offsets /\ o > e /\ n \in Nat
  <2>1. Typed(m2)
    BY AppendingElsewhere
  <2>2. Half \in Nat
    BY Bases
  <2>3. n \in 0..Size(v) /\ Size(v) \in Nat
    BY Sizes DEF Appending
  <2>4. QED
    BY <2>1, <2>2, <2>3 DEF Offsets
<1>1. /\ r \in Rec /\ o + s \in o + 1..Half
      /\ \A i \in 0..s - 1 : m2[Base(a) + (o + i)] = <<r.key, r.val, i>>
  BY <1>0, RecordIs
<1>2. r.key \in Keys /\ r.val \in Data
  BY <1>1 DEF Rec
<1>3. s \in Nat /\ s > 0
  BY <1>2, Sizes
<1> HIDE DEF r, s
<1>4. ASSUME NEW q \in Offsets, q > e
      PROVE  \/ m2[Base(a) + q] = m[Base(a) + q] /\ q >= e + n
             \/ m2[Base(a) + q] = Junk
             \/ q < e + n /\ \E i \in 1..Size(v) : m2[Base(a) + q] = <<k, v, i>>
  BY <1>4, AppendingElsewhere
<1>5. \A i \in Nat : <<r.key, r.val, i>> # Junk
  BY <1>2, KvNames
<1>6. m2[Base(a) + o] = <<r.key, r.val, 0>>
  <2>1. 0 \in 0..s - 1 /\ o + 0 = o
    BY <1>0, <1>3
  <2>2. QED
    BY <1>1, <2>1
<1>7. o >= e + n
  <2>1. m2[Base(a) + o] # Junk
    BY <1>5, <1>6
  <2>2. ASSUME NEW i \in 1..Size(v) PROVE m2[Base(a) + o] # <<k, v, i>>
    BY <1>6
  <2>3. QED
    BY <1>0, <1>4, <2>1, <2>2
<1>8. ASSUME NEW q \in o..o + s - 1 PROVE m2[Base(a) + q] = m[Base(a) + q]
  <2>1. q - o \in 0..s - 1 /\ o + (q - o) = q /\ q \in Nat /\ q - o \in Nat
    BY <1>0, <1>3
  <2>2. m2[Base(a) + q] = <<r.key, r.val, q - o>>
    BY <1>1, <2>1
  <2>3. m2[Base(a) + q] # Junk
    BY <1>5, <2>1, <2>2
  <2>4. q \in Offsets /\ q > e /\ ~(q < e + n)
    BY <1>0, <1>1, <1>3, <1>7 DEF Offsets
  <2>5. QED
    BY <1>4, <2>3, <2>4
<1>9. IsRecord(m, a, o)
  <2>1. ASSUME NEW q \in o..o + Size(RecAt(m2, a, o).val) - 1 PROVE m[Base(a) + q] = m2[Base(a) + q]
    BY <1>8 DEF s, r
  <2>2. QED
    BY <1>0, <2>1, RecordKept
<1>10. QED
  BY <1>0, <1>9

(* The log has the new record at its end, or nothing new.                  *)
Appended(m, k, v, n, m2) ==
  LET a  == ActiveHalf(m)
      l  == Log(m, a)
      l2 == Append(l, [off |-> LogEnd(l), key |-> k, val |-> v])
  IN  /\ Sound(m2) /\ Initialised(m2)
      /\ ActiveHalf(m2) = a /\ ActiveGen(m2) = ActiveGen(m)
      /\ SameHalf(m, m2, 1 - a)
      /\ Log(m2, a) \in {l, l2} /\ (n = Size(v) => Log(m2, a) = l2)

LEMMA AppendStep ==
  ASSUME NEW m, Sound(m), Initialised(m), NEW k \in Keys, NEW v \in Data, NEW n, NEW m2,
         Size(v) <= FreeWords(m),
         Appending(m, ActiveHalf(m), LogEnd(Log(m, ActiveHalf(m))), k, v, n, m2)
  PROVE  Appended(m, k, v, n, m2)
<1> DEFINE a == ActiveHalf(m)
           l == Log(m, a)
           e == LogEnd(l)
           r == [off |-> e, key |-> k, val |-> v]
<1>0. /\ Typed(m) /\ a \in Halves /\ Half \in Nat /\ Size(v) \in Nat /\ Size(v) > 0
  BY Actives, Bases, Sizes DEF Sound
<1> HIDE DEF a
<1>1. /\ l \in Seq(Rec) /\ e \in 0..Half /\ e = EndFrom(l, 0)
      /\ Chained(m, a, 0, l) /\ ~IsRecord(m, a, e)
  BY <1>0, LogFacts
<1>2. e \in Nat /\ e + Size(v) <= Half /\ e \in Offsets
  <2>1. FreeWords(m) = Half - e
    BY DEF FreeWords, a
  <2>2. QED
    BY <1>0, <1>1, <2>1 DEF Offsets
<1>3. Appending(m, a, e, k, v, n, m2)
  BY DEF a
<1>4. \A o \in e..Half - 1 : ~IsRecord(m, a, o)
  BY DEF Sound, NoBuried, a
<1> HIDE DEF e, l
<1>5. /\ Typed(m2)
      /\ \A h \in Halves : m2[SuperOff(h)] = m[SuperOff(h)]
      /\ SameHalf(m, m2, 1 - a)
      /\ \A o \in Offsets : o < e => m2[Base(a) + o] = m[Base(a) + o]
  BY <1>0, <1>2, <1>3, AppendingElsewhere
<1>6. \A o \in e + 1..Half - 1 : ~IsRecord(m2, a, o)
  BY <1>0, <1>2, <1>3, <1>4, AppendingBuriesNone
<1>7. ActiveHalf(m2) = a /\ ActiveGen(m2) = ActiveGen(m) /\ Initialised(m2)
  <2>1. 1 - a \in Halves
    BY <1>0, Bases
  <2>2. QED
    BY <1>0, <1>5, <2>1, ActiveStays DEF a
<1>8. Chained(m2, a, 0, l)
  <2>1. \A o \in 0..EndFrom(l, 0) - 1 : o \in Offsets /\ o < e
    BY <1>0, <1>1, <1>2 DEF Offsets
  <2>2. QED
    BY <1>0, <1>1, <1>5, <2>1, ChainKept
<1>9. CASE ~IsRecord(m2, a, e)
  <2>1. n # Size(v)
    <3>1. SUFFICES ASSUME n = Size(v) PROVE FALSE
      OBVIOUS
    <3>2. \A i \in 0..Size(v) - 1 : m2[Base(a) + (e + i)] = <<k, v, i>>
      BY <1>3, <3>1 DEF Appending
    <3>3. IsRecord(m2, a, e)
      BY <1>0, <1>2, <3>2, RecordWhen
    <3>4. QED
      BY <1>9, <3>3
  <2>2. LogFrom(m2, a, 0, l)
    BY <1>1, <1>8, <1>9 DEF LogFrom
  <2>3. Log(m2, a) = l
    BY <1>0, <1>5, <2>2, LogIsThat
  <2>4. \A o \in e..Half - 1 : ~IsRecord(m2, a, o)
    BY <1>0, <1>2, <1>6, <1>9
  <2>5. NoBuried(m2)
    BY <1>7, <2>3, <2>4 DEF NoBuried, e
  <2>6. Sound(m2)
    BY <1>5, <1>7, <2>5 DEF Sound
  <2>7. QED
    BY <1>5, <1>7, <2>1, <2>3, <2>6 DEF Appended, a, l
<1>10. CASE IsRecord(m2, a, e)
  <2>1. n > 0
    <3>1. SUFFICES ASSUME n = 0 PROVE FALSE
      BY <1>0, <1>3 DEF Appending
    <3>2. Base(a) + e \in Region
      BY <1>0, <1>2, Addresses
    <3>3. m2[Base(a) + e] = m[Base(a) + e] \/ m2[Base(a) + e] = Junk
      <4>1. \A i \in 0..n - 1 : FALSE
        BY <3>1
      <4>2. QED
        BY <1>3, <3>2, <4>1 DEF Appending
    <3>4. m2[Base(a) + e] # Junk
      BY <1>10 DEF IsRecord
    <3>5. \A o \in Offsets : o >= e => m2[Base(a) + o] = m[Base(a) + o] \/ m2[Base(a) + o] = Junk
      <4>1. ASSUME NEW o \in Offsets, o >= e
            PROVE  m2[Base(a) + o] = m[Base(a) + o] \/ m2[Base(a) + o] = Junk
        <5>1. Base(a) + o \in Region
          BY <1>0, Addresses
        <5>2. \A i \in 0..n - 1 : FALSE
          BY <3>1
        <5>3. QED
          BY <1>3, <5>1, <5>2 DEF Appending
      <4>2. QED
        BY <4>1
    <3> DEFINE q == RecAt(m2, a, e)
    <3>6. /\ q \in Rec /\ e + Size(q.val) \in e + 1..Half
          /\ \A i \in 0..Size(q.val) - 1 : m2[Base(a) + (e + i)] = <<q.key, q.val, i>>
      BY <1>0, <1>2, <1>5, <1>10, RecordIs
    <3>7. q.key \in Keys /\ q.val \in Data /\ Size(q.val) \in Nat
      BY <3>6, Sizes DEF Rec
    <3> HIDE DEF q
    <3>8. ASSUME NEW x \in e..e + Size(q.val) - 1 PROVE m[Base(a) + x] = m2[Base(a) + x]
      <4>1. x - e \in 0..Size(q.val) - 1 /\ e + (x - e) = x /\ x - e \in Nat /\ x \in Offsets /\ x >= e
        BY <1>0, <1>2, <3>6, <3>7 DEF Offsets
      <4>2. m2[Base(a) + x] = <<q.key, q.val, x - e>>
        BY <3>6, <4>1
      <4>3. m2[Base(a) + x] # Junk
        BY <3>7, <4>1, <4>2, KvNames
      <4>4. QED
        BY <3>5, <4>1, <4>3
    <3>9. IsRecord(m, a, e)
      <4>1. \A x \in e..e + Size(RecAt(m2, a, e).val) - 1 : m[Base(a) + x] = m2[Base(a) + x]
        BY <3>8 DEF q
      <4>2. QED
        BY <1>0, <1>2, <1>5, <1>10, <4>1, RecordKept
    <3>10. QED
      BY <1>1, <3>9
  <2>2. m2[Base(a) + e] = <<k, v, 0>>
    <3>1. 0 \in 0..n - 1 /\ e + 0 = e
      BY <1>0, <1>2, <1>3, <2>1 DEF Appending
    <3>2. QED
      BY <1>3, <3>1 DEF Appending
  <2>3. RecAt(m2, a, e) = r
    BY <2>2 DEF RecAt
  <2>4. r \in Rec
    BY <1>2 DEF Rec
  <2>5. r.off = e /\ r.val = v
    OBVIOUS
  <2> DEFINE l2 == Append(l, r)
  <2> HIDE DEF r
  <2>6. Chained(m2, a, 0, l2) /\ EndFrom(l2, 0) = e + Size(v)
    BY <1>0, <1>1, <1>2, <1>8, <1>10, <2>3, <2>4, <2>5, ChainAppend
  <2> HIDE DEF l2
  <2>7. ~IsRecord(m2, a, EndFrom(l2, 0))
    <3>1. CASE e + Size(v) < Half
      BY <1>0, <1>2, <1>6, <2>6, <3>1
    <3>2. CASE e + Size(v) = Half
      BY <1>0, <2>6, <3>2 DEF IsRecord
    <3>3. QED
      BY <1>0, <1>2, <3>1, <3>2
  <2>8. LogFrom(m2, a, 0, l2)
    BY <2>6, <2>7 DEF LogFrom
  <2>9. Log(m2, a) = l2
    BY <1>0, <1>5, <2>8, LogIsThat
  <2>10. LogEnd(l2) = e + Size(v)
    BY <2>6, LogEnds DEF Chained
  <2>11. \A o \in e + Size(v)..Half - 1 : ~IsRecord(m2, a, o)
    BY <1>0, <1>2, <1>6
  <2>12. NoBuried(m2)
    BY <1>7, <2>9, <2>10, <2>11 DEF NoBuried
  <2>13. Sound(m2)
    BY <1>5, <1>7, <2>12 DEF Sound
  <2>14. QED
    BY <1>5, <1>7, <2>9, <2>13 DEF Appended, a, l, l2, r, e
<1>11. QED
  BY <1>9, <1>10

(* What the writes of a record make of a memory, whole or torn. *)
LEMMA AppendWritten ==
  ASSUME NEW m \in Memory, NEW a \in Halves, NEW e \in Nat, NEW k \in Keys, NEW v \in Data,
         e + Size(v) <= Half, NEW n \in 0..Size(v)
  PROVE  Appending(m, a, e, k, v, n, Programmed(m, WordsAt(Base(a) + e, RecordWords(k, v)), n))
<1> DEFINE W == RecordWords(k, v)
           p == Programmed(m, WordsAt(Base(a) + e, W), n)
<1>1. W \in Seq(Word) /\ Len(W) = Size(v) /\ \A i \in 1..Size(v) : W[i] = <<k, v, i - 1>>
  BY RecordWordsAre
<1> HIDE DEF W
<1>2. e + Len(W) <= Half /\ n \in 0..Len(W)
  BY <1>1
<1>3. /\ p \in Memory
      /\ \A i \in 1..n : p[Base(a) + (e + i - 1)] = W[i]
      /\ \A x \in Region : (\A i \in 1..n : x # Base(a) + (e + i - 1)) => p[x] = m[x]
  BY <1>1, <1>2, WordsWritten DEF Wrote
<1> HIDE DEF p
<1>4. Size(v) \in Nat
  BY Sizes
<1>5. ASSUME NEW i \in 0..n - 1 PROVE p[Base(a) + (e + i)] = <<k, v, i>>
  <2>1. i + 1 \in 1..n /\ e + (i + 1) - 1 = e + i /\ (i + 1) - 1 = i /\ i + 1 \in 1..Size(v)
    BY <1>4
  <2>2. p[Base(a) + (e + (i + 1) - 1)] = W[i + 1]
    BY <1>3, <2>1
  <2>3. W[i + 1] = <<k, v, (i + 1) - 1>>
    BY <1>1, <2>1
  <2>4. QED
    BY <2>1, <2>2, <2>3
<1>6. ASSUME NEW x \in Region, \A i \in 0..n - 1 : x # Base(a) + (e + i)
      PROVE  p[x] = m[x]
  <2>1. ASSUME NEW i \in 1..n PROVE x # Base(a) + (e + i - 1)
    <3>1. i - 1 \in 0..n - 1 /\ e + (i - 1) = e + i - 1
      BY <1>4
    <3>2. QED
      BY <1>6, <3>1
  <2>2. QED
    BY <1>3, <2>1
<1>7. Appending(m, a, e, k, v, n, p)
  BY <1>3, <1>5, <1>6 DEF Appending
<1>8. QED
  BY <1>7 DEF p, W

LEMMA AppendTorn ==
  ASSUME NEW m \in Memory, NEW a \in Halves, NEW e \in Nat, NEW k \in Keys, NEW v \in Data,
         e + Size(v) <= Half, NEW m2 \in Torn(m, WordsAt(Base(a) + e, RecordWords(k, v)))
  PROVE  \E n \in 0..Size(v) - 1 : Appending(m, a, e, k, v, n, m2)
<1> DEFINE W == RecordWords(k, v)
           ws == WordsAt(Base(a) + e, W)
<1>1. W \in Seq(Word) /\ Len(W) = Size(v)
  BY RecordWordsAre
<1>2. Size(v) \in Nat
  BY Sizes
<1> HIDE DEF W
<1>3. e + Len(W) <= Half
  BY <1>1
<1>4. /\ ws \in Seq(Writes) /\ Len(ws) = Size(v)
      /\ \A i \in 1..Size(v) : ws[i].addr = Base(a) + (e + i - 1) /\ e + i - 1 \in Offsets
  BY <1>1, <1>3, WordsAtIs
<1>5. m2 \in Torn(m, ws)
  BY DEF W
<1> HIDE DEF ws
<1>6. PICK n \in 1..Len(ws) : TornAt(m, ws, n, m2)
  BY <1>4, <1>5, TornIs
<1> DEFINE p == Programmed(m, ws, n - 1)
<1>7. n - 1 \in 0..Size(v) /\ n - 1 \in 0..Size(v) - 1 /\ n - 1 < Size(v) /\ n \in 1..Size(v)
  BY <1>2, <1>4
<1>8. Appending(m, a, e, k, v, n - 1, p)
  BY <1>7, AppendWritten DEF ws, W
<1> HIDE DEF p
<1>9. CASE m2 = p
  BY <1>7, <1>8, <1>9
<1>10. CASE m2 = [p EXCEPT ![ws[n].addr] = Junk]
  <2>1. ws[n].addr = Base(a) + (e + (n - 1)) /\ ws[n].addr \in Region
    <3>1. e + n - 1 = e + (n - 1) /\ e + (n - 1) \in Offsets
      BY <1>4, <1>7
    <3>2. Base(a) + (e + (n - 1)) \in Region
      BY <3>1, Addresses
    <3>3. QED
      BY <1>4, <1>7, <3>1, <3>2
  <2>2. p \in Memory /\ Junk \in Cell
    BY <1>8 DEF Appending, Cell
  <2>3. /\ m2 \in Memory /\ m2[ws[n].addr] = Junk
        /\ \A x \in Region : x # ws[n].addr => m2[x] = p[x]
    BY <1>10, <2>1, <2>2 DEF Memory
  <2>4. ASSUME NEW i \in 0..(n - 1) - 1 PROVE m2[Base(a) + (e + i)] = <<k, v, i>>
    <3>1. i + 1 \in 1..Size(v) /\ e + (i + 1) - 1 = e + i /\ e + i # e + (n - 1)
      BY <1>2, <1>7
    <3>2. e + i \in Offsets /\ e + (n - 1) \in Offsets
      <4>1. e + n - 1 \in Offsets /\ e + n - 1 = e + (n - 1)
        BY <1>4, <1>7
      <4>2. QED
        BY <1>4, <3>1, <4>1
    <3>3. Base(a) + (e + i) # ws[n].addr /\ Base(a) + (e + i) \in Region
      BY <2>1, <3>1, <3>2, Addresses
    <3>4. p[Base(a) + (e + i)] = <<k, v, i>>
      BY <1>8 DEF Appending
    <3>5. QED
      BY <2>3, <3>3, <3>4
  <2>5. ASSUME NEW x \in Region, \A i \in 0..(n - 1) - 1 : x # Base(a) + (e + i)
        PROVE  m2[x] = m[x] \/ (n - 1 < Size(v) /\ x = Base(a) + (e + (n - 1)) /\ m2[x] = Junk)
    <3>1. CASE x = ws[n].addr
      BY <1>7, <2>1, <2>3, <3>1
    <3>2. CASE x # ws[n].addr
      <4>1. p[x] = m[x] \/ x = Base(a) + (e + (n - 1))
        BY <1>8, <2>5 DEF Appending
      <4>2. QED
        BY <2>1, <2>3, <3>2, <4>1
    <3>3. QED
      BY <3>1, <3>2
  <2>6. Appending(m, a, e, k, v, n - 1, m2)
    BY <1>7, <2>3, <2>4, <2>5 DEF Appending
  <2>7. QED
    BY <1>7, <2>6
<1>11. QED
  BY <1>6, <1>9, <1>10 DEF TornAt, p

(* An append, whole or torn. *)
LEMMA AppendOp ==
  ASSUME NEW m, Sound(m), Initialised(m), NEW k \in Keys, NEW v \in Data, Size(v) <= FreeWords(m)
  PROVE  /\ AppendWrites(m, k, v) \in Seq(Writes)
         /\ Appended(m, k, v, Size(v), Program(m, AppendWrites(m, k, v)))
         /\ \A m2 \in Torn(m, AppendWrites(m, k, v)) : \E n : Appended(m, k, v, n, m2)
<1> DEFINE a == ActiveHalf(m)
           e == LogEnd(Log(m, a))
           W == RecordWords(k, v)
<1>0. /\ Typed(m) /\ m \in Memory /\ a \in Halves /\ Half \in Nat /\ Size(v) \in Nat
  BY Actives, Bases, Sizes DEF Sound, Typed
<1>1. e \in 0..Half
  BY <1>0, LogFacts
<1>2. e \in Nat /\ e + Size(v) <= Half
  <2>1. FreeWords(m) = Half - e
    BY DEF FreeWords
  <2> HIDE DEF e
  <2>2. QED
    BY <1>0, <1>1, <2>1
<1>3. AppendWrites(m, k, v) = WordsAt(Base(a) + e, W)
  BY DEF AppendWrites
<1>4. W \in Seq(Word) /\ Len(W) = Size(v)
  BY RecordWordsAre
<1>5. \A n, m2 : Appending(m, a, e, k, v, n, m2) => Appended(m, k, v, n, m2)
  BY AppendStep
<1> HIDE DEF a, e
<1>6. WordsAt(Base(a) + e, W) \in Seq(Writes) /\ Len(WordsAt(Base(a) + e, W)) = Size(v)
  <2> HIDE DEF W
  <2>1. e + Len(W) <= Half
    BY <1>2, <1>4
  <2>2. QED
    BY <1>0, <1>2, <1>4, <2>1, WordsAtIs
<1>7. Appended(m, k, v, Size(v), Program(m, WordsAt(Base(a) + e, W)))
  <2>1. Size(v) \in 0..Size(v)
    BY <1>0
  <2>2. Appending(m, a, e, k, v, Size(v), Programmed(m, WordsAt(Base(a) + e, W), Size(v)))
    BY <1>0, <1>2, <2>1, AppendWritten
  <2>3. QED
    BY <1>5, <1>6, <2>2 DEF Program
<1>8. ASSUME NEW m2 \in Torn(m, WordsAt(Base(a) + e, W))
      PROVE  \E n : Appended(m, k, v, n, m2)
  <2>1. \E n \in 0..Size(v) - 1 : Appending(m, a, e, k, v, n, m2)
    BY <1>0, <1>2, <1>8, AppendTorn
  <2>2. QED
    BY <1>5, <2>1
<1>9. QED
  BY <1>3, <1>6, <1>7, <1>8

(* What an append does to the values read. *)
LEMMA AppendReads ==
  ASSUME NEW m, Sound(m), Initialised(m), NEW k \in Keys, NEW v \in Data, NEW n, NEW m2,
         LogEnd(Log(m, ActiveHalf(m))) \in Offsets, Appended(m, k, v, n, m2)
  PROVE  /\ \/ \A q : Get(m2, q) = Get(m, q)
            \/ \A q : Get(m2, q) = IF q = k THEN v ELSE Get(m, q)
         /\ n = Size(v) => \A q : Get(m2, q) = IF q = k THEN v ELSE Get(m, q)
<1> DEFINE a == ActiveHalf(m)
           l == Log(m, a)
           r == [off |-> LogEnd(l), key |-> k, val |-> v]
<1>1. l \in Seq(Rec)
  BY Actives, LogFacts DEF Sound
<1>2. r \in Rec /\ r.key = k /\ r.val = v
  BY DEF Rec
<1> HIDE DEF r
<1>3. \A q : Found(Append(l, r), q) = IF q = k THEN v ELSE Found(l, q)
  BY <1>1, <1>2, FoundAppend
<1>4. \A q : Get(m, q) = Found(l, q)
  BY DEF Get
<1>5. \A q : Get(m2, q) = Found(Log(m2, a), q)
  BY DEF Get, Appended
<1>6. Log(m2, a) \in {l, Append(l, r)} /\ (n = Size(v) => Log(m2, a) = Append(l, r))
  BY DEF Appended, r
<1>7. QED
  BY <1>3, <1>4, <1>5, <1>6

-----------------------------------------------------------------------------
(* Opening.                                                                *)

(* An empty memory reads empty. *)
LEMMA EmptyReads ==
  ASSUME NEW m, Typed(m), Empty(m)
  PROVE  /\ NoBuried(m) /\ \A k : Get(m, k) = Absent
         /\ LogEnd(Log(m, ActiveHalf(m))) = 0
<1> DEFINE a == ActiveHalf(m)
<1>1. a \in Halves /\ Half \in Nat
  BY Actives, Bases
<1> HIDE DEF a
<1>2. ASSUME NEW o \in Nat PROVE ~IsRecord(m, a, o)
  <2>1. CASE o < Half
    <3>1. o \in Offsets
      BY <1>1, <2>1 DEF Offsets
    <3>2. m[Base(a) + o] = Blank
      BY <1>1, <3>1 DEF Empty
    <3>3. QED
      BY <3>2 DEF IsRecord
  <2>2. CASE ~(o < Half)
    BY <2>2 DEF IsRecord
  <2>3. QED
    BY <2>1, <2>2
<1>3. Log(m, a) = <<>>
  <2>1. 0 \in 0..Half
    BY <1>1
  <2>2. LogFrom(m, a, 0, <<>>)
    BY <1>1, <1>2, <2>1, LogNone
  <2>3. QED
    BY <1>1, <2>2, LogIsThat
<1>4. \A k : Get(m, k) = Absent
  <2>1. <<>> \in Seq(Rec) /\ \A i \in 1..Len(<<>>) : FALSE
    OBVIOUS
  <2>2. ASSUME NEW k PROVE Found(<<>>, k) = Absent
    <3>1. \A i \in 1..Len(<<>>) : <<>>[i].key # k
      BY <2>1
    <3>2. QED
      BY <2>1, <3>1, FoundNone
  <2>3. QED
    BY <1>3, <2>2 DEF Get, a
<1>5. LogEnd(Log(m, a)) = 0
  BY <1>3 DEF LogEnd
<1>6. NoBuried(m)
  <2>1. \A o \in 0..Half - 1 : ~IsRecord(m, a, o)
    BY <1>2
  <2>2. QED
    BY <1>5, <2>1 DEF NoBuried, a
<1>7. QED
  BY <1>4, <1>5, <1>6 DEF a

LEMMA SuperOpen ==
  ASSUME NEW m, Sound(m), ~Initialised(m), NEW w \in {Junk, 1}, NEW m2, SuperIs(m, 0, w, m2)
  PROVE  /\ Sound(m2) /\ Empty(m2)
         /\ w = 1 => Initialised(m2) /\ ActiveGen(m2) = 1 /\ ActiveHalf(m2) = 0
         /\ (w = Junk => ~Initialised(m2))
         /\ \A k : Get(m2, k) = Absent
<1>1. Typed(m) /\ Typed(m2) /\ Empty(m) /\ 0 \in Halves /\ 1 \in Halves /\ Half \in Nat
  BY Bases DEF Sound, SuperIs, Halves
<1>2. Empty(m2)
  BY <1>1 DEF SuperIs, SameHalf, Empty
<1>3. GenOf(m, 0) = 0 /\ GenOf(m, 1) = 0
  BY <1>1 DEF Initialised
<1>4. m2[SuperOff(0)] = w /\ m2[SuperOff(1)] = m[SuperOff(1)]
  BY <1>1 DEF SuperIs
<1>5. GenOf(m2, 1) = 0
  BY <1>3, <1>4 DEF GenOf
<1>6. w = Junk => GenOf(m2, 0) = 0
  BY <1>4 DEF GenOf
<1>7. w = 1 => GenOf(m2, 0) = 1
  <2>1. 1 \notin {Blank, Junk}
    BY KvNames
  <2>2. QED
    BY <1>4, <2>1 DEF GenOf
<1>8. w = Junk => ~Initialised(m2)
  BY <1>5, <1>6 DEF Initialised, Halves
<1>9. w = 1 => Initialised(m2) /\ ActiveGen(m2) = 1 /\ ActiveHalf(m2) = 0
  BY <1>1, <1>5, <1>7 DEF Initialised, ActiveGen, ActiveHalf
<1>10. NoBuried(m2) /\ \A k : Get(m2, k) = Absent
  BY <1>1, <1>2, EmptyReads
<1>11. QED
  BY <1>1, <1>2, <1>8, <1>9, <1>10 DEF Sound

LEMMA OpenOp ==
  ASSUME NEW m, Sound(m)
  PROVE  /\ OpenWrites(m) \in Seq(Writes)
         /\ Sound(Program(m, OpenWrites(m))) /\ Initialised(Program(m, OpenWrites(m)))
         /\ Initialised(m) => Program(m, OpenWrites(m)) = m /\ Torn(m, OpenWrites(m)) = {}
         /\ ~Initialised(m) => /\ Empty(Program(m, OpenWrites(m)))
                               /\ ActiveGen(Program(m, OpenWrites(m))) = 1
         /\ \A k : Get(Program(m, OpenWrites(m)), k) = Get(m, k)
         /\ \A m2 \in Torn(m, OpenWrites(m)) : Sound(m2) /\ \A k : Get(m2, k) = Get(m, k)
<1>1. m \in Memory /\ Typed(m) /\ 0 \in Halves
  BY Bases DEF Sound, Typed, Halves
<1>2. CASE Initialised(m)
  <2>1. OpenWrites(m) = <<>> /\ <<>> \in Seq(Writes)
    BY <1>2 DEF OpenWrites
  <2>2. Program(m, <<>>) = m /\ Torn(m, <<>>) = {}
    BY <1>1, ProgramNothing, TornNothing
  <2>3. QED
    BY <1>2, <2>1, <2>2
<1>3. CASE ~Initialised(m)
  <2>1. OpenWrites(m) = Commit(0, 1)
    BY <1>3 DEF OpenWrites
  <2>2. /\ Commit(0, 1) \in Seq(Writes)
        /\ Program(m, Commit(0, 1)) = [m EXCEPT ![SuperOff(0)] = 1]
        /\ \A m2 \in Torn(m, Commit(0, 1)) : m2 = m \/ m2 = [m EXCEPT ![SuperOff(0)] = Junk]
    BY <1>1, Committed
  <2>3. \A k : Get(m, k) = Absent
    BY <1>3 DEF Get
  <2> DEFINE p == Program(m, Commit(0, 1))
             j == [m EXCEPT ![SuperOff(0)] = Junk]
  <2>4. SuperIs(m, 0, 1, p) /\ SuperIs(m, 0, Junk, j)
    <3>1. 1 \in {Junk} \cup (Nat \ {0}) /\ Junk \in {Junk} \cup (Nat \ {0})
      OBVIOUS
    <3>2. SuperIs(m, 0, 1, [m EXCEPT ![SuperOff(0)] = 1])
      BY <1>1, <3>1, SuperSet
    <3>3. SuperIs(m, 0, Junk, j)
      BY <1>1, <3>1, SuperSet
    <3>4. QED
      BY <2>2, <3>2, <3>3
  <2>5. \A m2 \in Torn(m, Commit(0, 1)) : m2 = m \/ m2 = j
    BY <2>2
  <2>6. p = Program(m, OpenWrites(m)) /\ Torn(m, Commit(0, 1)) = Torn(m, OpenWrites(m))
    BY <2>1
  <2> HIDE DEF p, j
  <2>7. /\ Sound(p) /\ Initialised(p) /\ Empty(p) /\ ActiveGen(p) = 1
        /\ \A k : Get(p, k) = Absent
    <3>1. 1 = 1 /\ 1 \in {Junk, 1}
      OBVIOUS
    <3>2. QED
      BY <1>3, <2>4, <3>1, SuperOpen
  <2>8. Sound(j) /\ \A k : Get(j, k) = Absent
    <3>1. Junk \in {Junk, 1}
      OBVIOUS
    <3>2. QED
      BY <1>3, <2>4, <3>1, SuperOpen
  <2>9. QED
    BY <1>3, <2>1, <2>2, <2>3, <2>5, <2>6, <2>7, <2>8
<1>4. QED
  BY <1>2, <1>3

-----------------------------------------------------------------------------
(* Flipping.                                                               *)

(* Offsets that ascend from one on are at least as far apart as there are  *)
(* steps between them.                                                     *)
LEMMA AscendingFar ==
  ASSUME NEW d \in Seq(Offsets), Ascending(d), NEW from \in 0..Half,
         \A j \in 1..Len(d) : d[j] >= from
  PROVE  /\ \A j \in 1..Len(d) : d[j] + 1 >= from + j
         /\ from + Len(d) <= Half
<1> DEFINE N == Len(d)
           S == {n \in 0..N : n > 0 => d[n] + 1 >= from + n}
<1>0. Half \in Nat /\ N \in Nat /\ from \in Nat
  BY Bases
<1>1. ASSUME NEW j \in 1..N PROVE d[j] \in Nat /\ d[j] <= Half - 1
  <2>1. d[j] \in Offsets
    OBVIOUS
  <2>2. QED
    BY <1>0, <2>1 DEF Offsets
<1>2. 0 \in S
  BY <1>0
<1>3. ASSUME NEW n \in 0..N - 1, n \in S PROVE n + 1 \in S
  <2>1. n + 1 \in 1..N /\ n + 1 \in 0..N
    BY <1>0
  <2>2. CASE n = 0
    BY <1>0, <1>1, <2>1, <2>2
  <2>3. CASE n > 0
    <3>1. n \in 1..N /\ d[n] < d[n + 1]
      BY <1>0, <2>1, <2>3 DEF Ascending
    <3>2. QED
      BY <1>0, <1>1, <1>3, <2>1, <2>3, <3>1
  <2>4. QED
    BY <2>2, <2>3
<1>4. 0..N \subseteq S
  <2> HIDE DEF S
  <2>1. \A n \in 0..N - 1 : n \in S => n + 1 \in S
    BY <1>3
  <2>2. QED
    BY <1>0, <1>2, <2>1, InductTo
<1>5. \A j \in 1..N : d[j] + 1 >= from + j
  BY <1>0, <1>4
<1>6. from + N <= Half
  <2>1. CASE N = 0
    BY <1>0, <2>1
  <2>2. CASE N > 0
    BY <1>0, <1>1, <1>5, <2>2
  <2>3. QED
    BY <1>0, <2>1, <2>2
<1>7. QED
  BY <1>5, <1>6

LEMMA AscendingShort ==
  ASSUME NEW d \in Seq(Offsets), Ascending(d)
  PROVE  Len(d) <= Half
<1>1. Half \in Nat /\ Len(d) \in Nat /\ 0 \in 0..Half
  BY Bases
<1>2. ASSUME NEW j \in 1..Len(d) PROVE d[j] >= 0
  <2>1. d[j] \in Offsets
    OBVIOUS
  <2>2. QED
    BY <1>1, <2>1 DEF Offsets
<1>3. 0 + Len(d) <= Half
  BY <1>1, <1>2, AscendingFar
<1>4. QED
  BY <1>1, <1>3

(* The first `copied` words of the stream S stand in half d, which is      *)
(* blank from there to blankOff.                                           *)
Copying(m, d, S, blankOff, copied) ==
  /\ blankOff \in 0..Half /\ copied \in 0..Len(S)
  /\ copied > 0 => blankOff = Half
  /\ \A o \in 0..blankOff - 1 :
       m[Base(d) + o] = IF o < copied THEN S[o + 1] ELSE Blank

LEMMA BlankWritesDead ==
  ASSUME NEW d \in Halves, NEW x \in Seq(Offsets)
  PROVE  DeadWrites(BlankWrites(d, x), d)
<1>1. /\ BlankWrites(d, x) \in Seq(Writes) /\ Len(BlankWrites(d, x)) = Len(x)
      /\ \A i \in 1..Len(x) :
           /\ BlankWrites(d, x)[i].addr = Base(d) + x[i] /\ BlankWrites(d, x)[i].word = Blank
           /\ x[i] \in Offsets
  BY BlankWritesAre
<1>2. QED
  BY <1>1, WordsAreCells DEF DeadWrites

LEMMA BlankStage ==
  ASSUME NEW m \in Memory, NEW d \in Halves, NEW S \in Seq(Word), NEW from, NEW c,
         Copying(m, d, S, from, c), NEW b \in 0..Len(Dirty(m, d, from))
  PROVE  LET dirty == Dirty(m, d, from)
             ws    == BlankWrites(d, SubSeq(dirty, 1, b))
         IN  /\ DeadWrites(ws, d) /\ Program(m, ws) \in Memory
             /\ Copying(Program(m, ws), d, S, BlankReach(dirty, b), c)
             /\ b = Len(dirty) => BlankReach(dirty, b) = Half
<1> DEFINE dirty == Dirty(m, d, from)
           reach == BlankReach(dirty, b)
           offs  == SubSeq(dirty, 1, b)
           ws    == BlankWrites(d, offs)
           p     == Program(m, ws)
<1>1. from \in 0..Half /\ c \in 0..Len(S) /\ (c > 0 => from = Half) /\ Half \in Nat
  BY Bases DEF Copying
<1>2. /\ offs \in Seq(Offsets) /\ Ascending(offs)
      /\ ws \in Seq(Writes)
      /\ reach \in from..Half /\ (b = Len(dirty) => reach = Half)
      /\ p \in Memory
      /\ \A o \in from..reach - 1 : p[Base(d) + o] = Blank
      /\ \A x \in Region : (\A o \in from..Half - 1 : x # Base(d) + o) => p[x] = m[x]
  BY <1>1, BlankStep
<1>3. DeadWrites(ws, d)
  BY <1>2, BlankWritesDead
<1> HIDE DEF p, ws, offs, reach, dirty
<1>4. ASSUME NEW o \in 0..reach - 1
      PROVE  p[Base(d) + o] = IF o < c THEN S[o + 1] ELSE Blank
  <2>1. CASE o < from
    <3>1. o \in Offsets /\ o \in 0..from - 1
      BY <1>1, <1>2, <2>1 DEF Offsets
    <3>2. \A q \in from..Half - 1 : q \in Offsets /\ q # o
      BY <1>1, <2>1 DEF Offsets
    <3>3. \A q \in from..Half - 1 : Base(d) + o # Base(d) + q
      BY <3>1, <3>2, Addresses
    <3>4. Base(d) + o \in Region
      BY <3>1, Addresses
    <3>5. p[Base(d) + o] = m[Base(d) + o]
      BY <1>2, <3>3, <3>4
    <3>6. QED
      BY <3>1, <3>5 DEF Copying
  <2>2. CASE ~(o < from)
    <3>1. o \in from..reach - 1 /\ ~(o < c)
      BY <1>1, <1>2, <2>2
    <3>2. QED
      BY <1>2, <3>1
  <2>3. QED
    BY <2>1, <2>2
<1>5. reach \in 0..Half /\ (c > 0 => reach = Half)
  BY <1>1, <1>2
<1>6. Copying(p, d, S, reach, c)
  BY <1>1, <1>4, <1>5 DEF Copying
<1>7. QED
  BY <1>2, <1>3, <1>6 DEF p, ws, offs, reach, dirty

LEMMA CopyStage ==
  ASSUME NEW m \in Memory, NEW d \in Halves, NEW S \in Seq(Word), Len(S) <= Half,
         NEW b, NEW c, Copying(m, d, S, b, c),
         NEW n \in 0..Len(S) - c, n > 0 => b = Half
  PROVE  LET ws == WordsAt(Base(d) + c, SubSeq(S, c + 1, c + n))
         IN  /\ DeadWrites(ws, d) /\ Program(m, ws) \in Memory
             /\ Copying(Program(m, ws), d, S, b, c + n)
<1> DEFINE W  == SubSeq(S, c + 1, c + n)
           ws == WordsAt(Base(d) + c, W)
           p  == Program(m, ws)
<1>1. b \in 0..Half /\ c \in 0..Len(S) /\ (c > 0 => b = Half) /\ Half \in Nat /\ Len(S) \in Nat
  BY Bases DEF Copying
<1>2. W \in Seq(Word) /\ Len(W) = n /\ \A i \in 1..n : W[i] = S[c + i]
  <2>1. \A i \in c + 1..c + n : i \in 1..Len(S)
    BY <1>1
  <2>2. \A i \in c + 1..c + n : S[i] \in Word
    BY <2>1
  <2>3. c + 1 \in Int /\ c + n \in Int /\ c + 1 <= (c + n) + 1
    BY <1>1
  <2>4. W \in Seq(Word) /\ Len(W) = (IF c + 1 <= c + n THEN (c + n) - (c + 1) + 1 ELSE 0)
        /\ \A i \in 1..(c + n) - (c + 1) + 1 : W[i] = S[(c + 1) + i - 1]
    BY <1>1, <2>1, <2>2, <2>3, SubSeqProperties
  <2>5. (c + n) - (c + 1) + 1 = n /\ (c + 1 <= c + n <=> n > 0) /\ \A i \in 1..n : (c + 1) + i - 1 = c + i
    BY <1>1
  <2> HIDE DEF W
  <2>6. QED
    BY <1>1, <2>4, <2>5
<1> HIDE DEF W
<1>3. c \in Nat /\ c + Len(W) <= Half
  BY <1>1, <1>2
<1>4. /\ ws \in Seq(Writes) /\ Len(ws) = Len(W)
      /\ \A i \in 1..Len(W) :
           ws[i].addr = Base(d) + (c + i - 1) /\ ws[i].word = W[i] /\ c + i - 1 \in Offsets
  BY <1>2, <1>3, WordsAtIs
<1>5. DeadWrites(ws, d)
  BY <1>2, <1>4 DEF DeadWrites
<1>6. /\ p \in Memory
      /\ \A i \in 1..n : p[Base(d) + (c + i - 1)] = W[i]
      /\ \A x \in Region : (\A i \in 1..n : x # Base(d) + (c + i - 1)) => p[x] = m[x]
  <2>1. n \in 0..Len(W)
    BY <1>1, <1>2
  <2>2. p = Programmed(m, WordsAt(Base(d) + c, W), n)
    BY <1>2, <1>4 DEF Program
  <2> DEFINE q == Programmed(m, WordsAt(Base(d) + c, W), n)
  <2>3. /\ q \in Memory
        /\ \A i \in 1..n : q[Base(d) + (c + i - 1)] = W[i]
        /\ \A x \in Region : (\A i \in 1..n : x # Base(d) + (c + i - 1)) => q[x] = m[x]
    <3>1. c + Len(W) <= Half /\ c \in Nat /\ W \in Seq(Word)
      BY <1>2, <1>3
    <3>2. Wrote(m, d, c, W, n, q)
      BY <2>1, <3>1, WordsWritten
    <3> HIDE DEF q
    <3>3. QED
      BY <3>2 DEF Wrote
  <2>4. p = q
    BY <2>2
  <2> HIDE DEF p, q
  <2>5. QED
    BY <2>3, <2>4
<1> HIDE DEF p, ws
<1>7. ASSUME NEW o \in 0..b - 1
      PROVE  p[Base(d) + o] = IF o < c + n THEN S[o + 1] ELSE Blank
  <2>1. o \in Offsets
    BY <1>1 DEF Offsets
  <2>2. CASE o >= c /\ o < c + n
    <3>1. (o - c) + 1 \in 1..n /\ c + ((o - c) + 1) - 1 = o /\ c + ((o - c) + 1) = o + 1
      BY <1>1, <2>2
    <3>2. p[Base(d) + (c + ((o - c) + 1) - 1)] = W[(o - c) + 1] /\ W[(o - c) + 1] = S[c + ((o - c) + 1)]
      BY <1>2, <1>6, <3>1
    <3>3. QED
      BY <2>2, <3>1, <3>2
  <2>3. CASE ~(o >= c /\ o < c + n)
    <3>1. ASSUME NEW i \in 1..n PROVE Base(d) + o # Base(d) + (c + i - 1)
      <4>1. i \in 1..Len(W) /\ o # c + i - 1
        BY <1>1, <1>2, <2>3
      <4> DEFINE q == c + i - 1
      <4>2. q \in Offsets
        BY <1>4, <4>1
      <4>3. o # q
        BY <4>1
      <4> HIDE DEF q
      <4>4. Base(d) + o # Base(d) + q
        BY <2>1, <4>2, <4>3, Addresses
      <4>5. QED
        BY <4>4 DEF q
    <3>2. Base(d) + o \in Region
      BY <2>1, Addresses
    <3>3. p[Base(d) + o] = m[Base(d) + o]
      BY <1>6, <3>1, <3>2
    <3>4. m[Base(d) + o] = IF o < c THEN S[o + 1] ELSE Blank
      BY DEF Copying
    <3>5. o < c <=> o < c + n
      BY <1>1, <2>3
    <3>6. QED
      BY <3>3, <3>4, <3>5
  <2>4. QED
    BY <2>2, <2>3
<1>8. c + n \in 0..Len(S) /\ (c + n > 0 => b = Half)
  BY <1>1
<1>9. Copying(p, d, S, b, c + n)
  BY <1>1, <1>7, <1>8 DEF Copying
<1>10. QED
  BY <1>5, <1>6, <1>9 DEF p, ws, W

LEMMA DeadConcat ==
  ASSUME NEW d, NEW a, DeadWrites(a, d), NEW b, DeadWrites(b, d)
  PROVE  DeadWrites(a \o b, d)
<1>1. a \in Seq(Writes) /\ b \in Seq(Writes) /\ Len(a) \in Nat /\ Len(b) \in Nat
  BY DEF DeadWrites
<1>2. /\ a \o b \in Seq(Writes) /\ Len(a \o b) = Len(a) + Len(b)
      /\ \A i \in 1..Len(a) : (a \o b)[i] = a[i]
      /\ \A i \in 1..Len(b) : (a \o b)[Len(a) + i] = b[i]
  BY <1>1, ConcatProps
<1>3. ASSUME NEW i \in 1..Len(a \o b)
      PROVE  \E o \in Offsets : (a \o b)[i].addr = Base(d) + o /\ (a \o b)[i].word \in Word
  <2>1. CASE i <= Len(a)
    <3>1. i \in 1..Len(a)
      BY <1>1, <2>1
    <3>2. QED
      BY <1>2, <3>1 DEF DeadWrites
  <2>2. CASE ~(i <= Len(a))
    <3>1. i - Len(a) \in 1..Len(b) /\ Len(a) + (i - Len(a)) = i
      BY <1>1, <1>2, <2>2
    <3>2. (a \o b)[i] = b[i - Len(a)]
      BY <1>2, <3>1
    <3>3. QED
      BY <3>1, <3>2 DEF DeadWrites
  <2>3. QED
    BY <2>1, <2>2
<1>4. QED
  BY <1>2, <1>3 DEF DeadWrites

(* One step of the flip: blank, then copy, within a budget of words. *)
LEMMA CopyStep ==
  ASSUME NEW m \in Memory, NEW d \in Halves, NEW S \in Seq(Word), Len(S) <= Half,
         NEW from, NEW c, Copying(m, d, S, from, c), NEW budget \in Nat
  PROVE  LET dirty == Dirty(m, d, from)
             b     == Min2(budget, Len(dirty))
             n     == IF b = Len(dirty) THEN Min2(budget - b, Len(S) - c) ELSE 0
             ws    == BlankWrites(d, SubSeq(dirty, 1, b))
                        \o WordsAt(Base(d) + c, SubSeq(S, c + 1, c + n))
         IN  /\ DeadWrites(ws, d) /\ Program(m, ws) \in Memory
             /\ Copying(Program(m, ws), d, S, BlankReach(dirty, b), c + n)
             /\ budget = 3 * Half => BlankReach(dirty, b) = Half /\ c + n = Len(S)
<1> DEFINE dirty == Dirty(m, d, from)
           b     == Min2(budget, Len(dirty))
           n     == IF b = Len(dirty) THEN Min2(budget - b, Len(S) - c) ELSE 0
           reach == BlankReach(dirty, b)
           x     == BlankWrites(d, SubSeq(dirty, 1, b))
           y     == WordsAt(Base(d) + c, SubSeq(S, c + 1, c + n))
<1>1. from \in 0..Half /\ c \in 0..Len(S) /\ Half \in Nat /\ Len(S) \in Nat
  BY Bases DEF Copying
<1>2. dirty \in Seq(Offsets) /\ Len(dirty) \in Nat /\ Len(dirty) <= Half
  <2>1. IsDirty(dirty, m, d, from)
    BY <1>1, DirtyIs
  <2> HIDE DEF dirty
  <2>2. QED
    BY <2>1, AscendingShort DEF IsDirty
<1>3. b \in 0..Len(dirty) /\ b <= budget
  <2> HIDE DEF dirty
  <2>1. QED
    BY <1>2 DEF Min2
<1>4. n \in 0..Len(S) - c /\ (n > 0 => b = Len(dirty))
  <2> HIDE DEF dirty, b
  <2>1. QED
    BY <1>1, <1>3 DEF Min2
<1>5. budget = 3 * Half => b = Len(dirty) /\ c + n = Len(S)
  <2>1. budget = 3 * Half => b = Len(dirty)
    <3> HIDE DEF dirty
    <3>1. QED
      BY <1>1, <1>2 DEF Min2
  <2>2. budget = 3 * Half => Len(S) - c <= budget - b
    <3> HIDE DEF dirty, b
    <3>1. QED
      BY <1>1, <1>2, <1>3
  <2> HIDE DEF dirty, b
  <2>3. QED
    BY <1>1, <1>2, <1>3, <2>1, <2>2 DEF Min2
<1>6. /\ DeadWrites(x, d) /\ Program(m, x) \in Memory
      /\ Copying(Program(m, x), d, S, reach, c)
      /\ b = Len(dirty) => reach = Half
  <2>1. b \in 0..Len(Dirty(m, d, from))
    BY <1>3
  <2> HIDE DEF b
  <2>2. QED
    BY <2>1, BlankStage
<1> HIDE DEF x, reach, b, dirty
<1>7. /\ DeadWrites(y, d) /\ Program(Program(m, x), y) \in Memory
      /\ Copying(Program(Program(m, x), y), d, S, reach, c + n)
  <2>1. n > 0 => reach = Half
    BY <1>4, <1>6
  <2> HIDE DEF n
  <2>2. QED
    BY <1>4, <1>6, <2>1, CopyStage
<1> HIDE DEF y, n
<1>8. Program(m, x \o y) = Program(Program(m, x), y)
  BY <1>6, <1>7, ProgrammedConcat DEF DeadWrites
<1>9. DeadWrites(x \o y, d)
  BY <1>6, <1>7, DeadConcat
<1>10. QED
  BY <1>5, <1>6, <1>7, <1>8, <1>9 DEF x, y, n, b, dirty, reach

FlipRec == [half : Halves, gen : Nat, end : Nat, plan : SUBSET Nat, blankOff : Nat, copied : Nat]

Stream(m, st) == PackedWords(Log(m, st.half), st.plan)

(* A flip that is pending and still fresh. *)
Pending(m, st) ==
  /\ st \in FlipRec /\ Fresh(m, st)
  /\ st.end <= LogEnd(Log(m, st.half))
  /\ st.plan = LatestBefore(Log(m, st.half), st.end)
  /\ Copying(m, 1 - st.half, Stream(m, st), st.blankOff, st.copied)

LEMMA StreamIs ==
  ASSUME NEW m, Typed(m), NEW h \in Halves, NEW plan
  PROVE  /\ PackedWords(Log(m, h), plan) \in Seq(Word)
         /\ Len(PackedWords(Log(m, h), plan)) <= LogEnd(Log(m, h))
         /\ Len(PackedWords(Log(m, h), plan)) <= Half
<1> DEFINE l == Log(m, h)
           A == {r \in ToSet(l) : r.off \in plan /\ r.val # Absent}
<1>1. l \in Seq(Rec) /\ LogEnd(l) \in 0..Half /\ Half \in Nat
      /\ \A i \in 1..Len(l) : l[i].off = IF i = 1 THEN 0 ELSE l[i - 1].off + Size(l[i - 1].val)
  BY LogFacts, Bases DEF Chained
<1>2. PackedWords(l, plan) = RecordsWords(l, A)
  BY DEF PackedWords
<1> HIDE DEF A, l
<1>3. RecordsWords(l, A) \in Seq(Word) /\ Len(RecordsWords(l, A)) <= LogEnd(l)
  BY <1>1, PackedIsWords, PackedLength
<1>4. Len(RecordsWords(l, A)) \in Nat
  BY <1>3
<1>5. QED
  BY <1>1, <1>2, <1>3, <1>4 DEF l

(* A step of the flip keeps it pending, and a step with budget enough ends *)
(* the copying.                                                            *)
Stepped(m, st, f, p, budget) ==
  /\ DeadWrites(f.ws, 1 - st.half) /\ p = Program(m, f.ws)
  /\ Steady(m, p) /\ Stream(p, st) = Stream(m, st)
  /\ f.st \in FlipRec /\ f.st.half = st.half /\ f.st.gen = st.gen /\ f.st.end = st.end
  /\ f.st.plan = st.plan
  /\ Pending(p, f.st)
  /\ budget = 3 * Half => f.st.blankOff = Half /\ f.st.copied = Len(Stream(m, st))

LEMMA FlipStepIs ==
  ASSUME NEW m, Sound(m), Initialised(m), NEW st, Pending(m, st), NEW budget \in Nat
  PROVE  Stepped(m, st, FlipStep(m, st, budget), Program(m, FlipStep(m, st, budget).ws), budget)
<1> DEFINE d == 1 - st.half
           S == Stream(m, st)
           from  == st.blankOff
           c     == st.copied
           dirty == Dirty(m, d, from)
           b     == Min2(budget, Len(dirty))
           n     == IF b = Len(dirty) THEN Min2(budget - b, Len(S) - c) ELSE 0
           ws    == BlankWrites(d, SubSeq(dirty, 1, b))
                      \o WordsAt(Base(d) + c, SubSeq(S, c + 1, c + n))
           p     == Program(m, ws)
           reach == BlankReach(dirty, b)
           f     == FlipStep(m, st, budget)
<1>0. /\ Typed(m) /\ m \in Memory /\ st.half = ActiveHalf(m) /\ st.half \in Halves /\ d \in Halves
      /\ 1 - d = st.half
  BY Actives, Bases DEF Sound, Typed, Pending, Fresh
<1>1. S \in Seq(Word) /\ Len(S) <= Half
  BY <1>0, StreamIs DEF Stream
<1>2. Copying(m, d, S, from, c)
  BY DEF Pending
<1>3. /\ DeadWrites(ws, d) /\ p \in Memory
      /\ Copying(p, d, S, reach, c + n)
      /\ budget = 3 * Half => reach = Half /\ c + n = Len(S)
  <2> HIDE DEF S, d, from, c
  <2>1. QED
    BY <1>0, <1>1, <1>2, CopyStep
<1>4. f.ws = ws
  BY DEF FlipStep, Stream
<1>5. f.st = [st EXCEPT !.blankOff = reach, !.copied = @ + n]
  BY DEF FlipStep, Stream
<1>6. st \in FlipRec
  BY DEF Pending
<1>7. reach \in Nat /\ c + n \in Nat
  <2>1. Half \in Nat /\ Len(S) \in Nat
    BY <1>1, Bases
  <2> HIDE DEF S, d, from, c, reach, n, p, ws
  <2>2. QED
    BY <1>3, <2>1 DEF Copying
<1> HIDE DEF f, reach, n, p, ws, S, dirty, b, d
<1>8. /\ f.st \in FlipRec /\ f.st.half = st.half /\ f.st.gen = st.gen /\ f.st.end = st.end
      /\ f.st.plan = st.plan /\ f.st.blankOff = reach /\ f.st.copied = c + n
  <2> DEFINE s1 == [st EXCEPT !.blankOff = reach]
  <2>1. s1 \in FlipRec /\ s1.half = st.half /\ s1.gen = st.gen /\ s1.end = st.end
        /\ s1.plan = st.plan /\ s1.blankOff = reach /\ s1.copied = c
    BY <1>6, <1>7 DEF FlipRec
  <2>2. f.st = [s1 EXCEPT !.copied = c + n]
    BY <1>5, <1>6 DEF FlipRec
  <2> HIDE DEF s1
  <2>3. QED
    BY <1>7, <2>1, <2>2 DEF FlipRec
<1>9. Touched(m, ws, p)
  BY <1>0, <1>3, ProgramTouches DEF DeadWrites, p
<1>10. Steady(m, p)
  <2>1. DeadWrites(ws, 1 - ActiveHalf(m))
    BY <1>0, <1>3 DEF d
  <2>2. QED
    BY <1>0, <1>9, <2>1, DeadIsSteady
<1>11. /\ ActiveHalf(p) = ActiveHalf(m) /\ ActiveGen(p) = ActiveGen(m)
       /\ Log(p, ActiveHalf(m)) = Log(m, ActiveHalf(m))
  BY <1>10, SteadyKeeps
<1>12. Stream(p, st) = S /\ Stream(p, f.st) = S
  BY <1>0, <1>8, <1>11 DEF Stream, S
<1>13. Fresh(p, f.st)
  <2>1. f.st # None
    BY <1>8, KvNames DEF FlipRec
  <2>2. QED
    BY <1>8, <1>11, <2>1 DEF Fresh, Pending
<1>14. Pending(p, f.st)
  BY <1>0, <1>3, <1>8, <1>11, <1>12, <1>13 DEF Pending, d
<1>15. QED
  BY <1>3, <1>4, <1>8, <1>10, <1>12, <1>14 DEF Stepped, p, f, d, S

(* The tail after the whole stream. *)
LEMMA TailStage ==
  ASSUME NEW m \in Memory, NEW d \in Halves, NEW S \in Seq(Word), NEW R \in Seq(Word),
         Len(S) + Len(R) <= Half, Copying(m, d, S, Half, Len(S))
  PROVE  LET ws == WordsAt(Base(d) + Len(S), R)
         IN  /\ DeadWrites(ws, d) /\ Program(m, ws) \in Memory
             /\ HoldsOnly(Program(m, ws), d, S \o R)
<1> DEFINE W == S \o R
           c == Len(S)
           n == Len(R)
<1>1. /\ W \in Seq(Word) /\ Len(W) = c + n
      /\ \A i \in 1..c : W[i] = S[i]
      /\ \A i \in 1..n : W[c + i] = R[i]
  BY ConcatProps
<1>2. c \in Nat /\ n \in Nat /\ Half \in Nat
  BY Bases
<1> HIDE DEF W
<1>3. Copying(m, d, W, Half, c)
  <2>1. ASSUME NEW o \in 0..Half - 1 PROVE m[Base(d) + o] = IF o < c THEN W[o + 1] ELSE Blank
    <3>1. m[Base(d) + o] = IF o < c THEN S[o + 1] ELSE Blank
      BY DEF Copying
    <3>2. o < c => o + 1 \in 1..c
      BY <1>2
    <3>3. QED
      BY <1>1, <3>1, <3>2
  <2>2. c \in 0..Len(W) /\ Half \in 0..Half
    BY <1>1, <1>2
  <2>3. QED
    BY <2>1, <2>2 DEF Copying
<1>4. SubSeq(W, c + 1, c + n) = R
  <2>1. \A i \in c + 1..c + n : i \in 1..Len(W)
    BY <1>1, <1>2
  <2>2. \A i \in c + 1..c + n : W[i] \in Word
    BY <1>1, <2>1
  <2>3. c + 1 \in Int /\ c + n \in Int
    BY <1>2
  <2> DEFINE Q == SubSeq(W, c + 1, c + n)
  <2>4. Q \in Seq(Word) /\ Len(Q) = (IF c + 1 <= c + n THEN (c + n) - (c + 1) + 1 ELSE 0)
        /\ \A i \in 1..(c + n) - (c + 1) + 1 : Q[i] = W[(c + 1) + i - 1]
    BY <2>2, <2>3, SubSeqProperties
  <2>5. (c + n) - (c + 1) + 1 = n /\ (c + 1 <= c + n <=> n > 0) /\ \A i \in 1..n : (c + 1) + i - 1 = c + i
    BY <1>2
  <2> HIDE DEF Q
  <2>6. Len(Q) = Len(R) /\ \A i \in 1..n : Q[i] = R[i]
    <3>1. Len(Q) = n
      BY <1>2, <2>4, <2>5
    <3>2. ASSUME NEW i \in 1..n PROVE Q[i] = R[i]
      <4>1. Q[i] = W[(c + 1) + i - 1]
        BY <2>4, <2>5
      <4>2. (c + 1) + i - 1 = c + i
        BY <2>5
      <4>3. QED
        BY <1>1, <4>1, <4>2
    <3>3. QED
      BY <3>1, <3>2
  <2>7. Q = R
    BY <2>4, <2>6, SeqEqual
  <2>8. QED
    BY <2>7 DEF Q
<1>5. LET ws == WordsAt(Base(d) + c, SubSeq(W, c + 1, c + n))
      IN  /\ DeadWrites(ws, d) /\ Program(m, ws) \in Memory
          /\ Copying(Program(m, ws), d, W, Half, c + n)
  <2>1. n \in 0..Len(W) - c /\ Len(W) <= Half
    BY <1>1, <1>2
  <2> HIDE DEF n, c
  <2>2. QED
    BY <1>1, <1>3, <2>1, CopyStage
<1> DEFINE ws == WordsAt(Base(d) + c, R)
           p == Program(m, ws)
<1>6. DeadWrites(ws, d) /\ p \in Memory /\ Copying(p, d, W, Half, c + n)
  BY <1>4, <1>5
<1> HIDE DEF p, ws
<1>7. HoldsOnly(p, d, W)
  <2>1. Len(W) <= Half /\ Len(W) = c + n /\ Len(W) \in Nat
    BY <1>1, <1>2
  <2>2. ASSUME NEW i \in 1..Len(W) PROVE p[Base(d) + (i - 1)] = W[i]
    <3>1. i - 1 \in 0..Half - 1 /\ i - 1 < c + n /\ (i - 1) + 1 = i
      BY <1>2, <2>1
    <3>2. p[Base(d) + (i - 1)] = IF i - 1 < c + n THEN W[(i - 1) + 1] ELSE Blank
      BY <1>6, <3>1 DEF Copying
    <3>3. QED
      BY <3>1, <3>2
  <2>3. ASSUME NEW o \in Len(W)..Half - 1 PROVE p[Base(d) + o] = Blank
    <3>1. o \in 0..Half - 1 /\ ~(o < c + n)
      BY <1>2, <2>1
    <3>2. p[Base(d) + o] = IF o < c + n THEN W[o + 1] ELSE Blank
      BY <1>6, <3>1 DEF Copying
    <3>3. QED
      BY <3>1, <3>2
  <2>4. QED
    BY <2>1, <2>2, <2>3 DEF HoldsOnly
<1>8. QED
  BY <1>6, <1>7 DEF p, ws, W

(* The compacted half takes over with the same values. *)
Flipped(m, m2) ==
  /\ Sound(m2) /\ Initialised(m2) /\ ActiveGen(m2) = ActiveGen(m) + 1
  /\ \A k : Get(m2, k) = Get(m, k)

LEMMA CommitFlips ==
  ASSUME NEW m, Sound(m), Initialised(m), NEW m2,
         SuperIs(m, 1 - ActiveHalf(m), ActiveGen(m) + 1, m2),
         NEW log, log = Log(m, ActiveHalf(m)), NEW some, Faithful(log, some),
         HoldsOnly(m, 1 - ActiveHalf(m), RecordsWords(log, some))
  PROVE  /\ Flipped(m, m2) /\ Picks(Log(m2, ActiveHalf(m2)), log, some, Len(log))
         /\ LogEnd(Log(m2, ActiveHalf(m2))) = Len(RecordsWords(log, some))
<1> DEFINE a == ActiveHalf(m)
           d == 1 - a
           W == RecordsWords(log, some)
<1>0. /\ Typed(m) /\ Typed(m2) /\ a \in Halves /\ d \in Halves /\ a # d /\ 1 - d = a
      /\ ActiveGen(m) \in Nat /\ Half \in Nat
  BY Actives, Bases DEF Sound, SuperIs
<1>1. log \in Seq(Rec)
  BY <1>0, LogFacts
<1>2. W \in Seq(Word) /\ Len(W) \in Nat
  BY <1>1, PackedIsWords
<1>3. SuperIs(m, d, ActiveGen(m) + 1, m2) /\ HoldsOnly(m, d, W)
  OBVIOUS
<1>4. \A k : Get(m, k) = Found(log, k)
  BY DEF Get
<1>a. ActiveGen(m) = GenOf(m, a)
  BY DEF ActiveGen
<1> HIDE DEF d, a
<1>5. HoldsOnly(m2, d, W)
  <2>1. SameHalf(m, m2, d)
    BY <1>0, <1>3 DEF SuperIs
  <2>2. \A i \in 1..Len(W) : i - 1 \in Offsets
    BY <1>0, <1>2, <1>3 DEF Offsets, HoldsOnly
  <2>3. \A o \in Len(W)..Half - 1 : o \in Offsets
    BY <1>2 DEF Offsets
  <2> HIDE DEF W
  <2>4. QED
    BY <1>3, <2>1, <2>2, <2>3 DEF HoldsOnly, SameHalf
<1>6. PICK l : /\ LogFrom(m2, d, 0, l) /\ EndFrom(l, 0) = Len(W)
               /\ Mirrors(l, log, some, Len(log)) /\ Picks(l, log, some, Len(log))
  BY <1>0, <1>1, <1>5, PackedLog
<1>7. Log(m2, d) = l
  BY <1>0, <1>6, LogIsThat
<1>8. l \in Seq(Rec) /\ LogEnd(l) = Len(W)
  BY <1>6, LogEnds DEF LogFrom, Chained
<1>9. \A k : Found(l, k) = Found(log, k)
  BY <1>1, <1>6, <1>8, FaithfulFinds
<1>10. GenOf(m2, d) = ActiveGen(m) + 1 /\ GenOf(m2, a) = ActiveGen(m)
  <2>1. m2[SuperOff(d)] = ActiveGen(m) + 1 /\ m2[SuperOff(a)] = m[SuperOff(a)]
    BY <1>0, <1>3 DEF SuperIs
  <2>2. ActiveGen(m) + 1 \notin {Blank, Junk}
    BY <1>0, KvNames
  <2>3. GenOf(m2, a) = GenOf(m, a)
    BY <2>1 DEF GenOf
  <2>4. QED
    BY <1>a, <2>1, <2>2, <2>3 DEF GenOf
<1>11. ActiveHalf(m2) = d /\ Initialised(m2)
  <2>1. CASE a = 0
    <3>1. d = 1
      BY <2>1 DEF d
    <3>2. ~(GenOf(m2, 0) >= GenOf(m2, 1))
      BY <1>0, <1>10, <2>1, <3>1
    <3>3. GenOf(m2, 1) # 0
      BY <1>0, <1>10, <3>1
    <3>4. QED
      BY <3>1, <3>2, <3>3 DEF ActiveHalf, Initialised, Halves
  <2>2. CASE a = 1
    <3>1. d = 0
      BY <2>2 DEF d
    <3>2. GenOf(m2, 0) >= GenOf(m2, 1)
      BY <1>0, <1>10, <2>2, <3>1
    <3>3. GenOf(m2, 0) # 0
      BY <1>0, <1>10, <3>1
    <3>4. QED
      BY <3>1, <3>2, <3>3 DEF ActiveHalf, Initialised, Halves
  <2>3. QED
    BY <1>0, <2>1, <2>2, Bases
<1>12. \A k : Get(m2, k) = Get(m, k)
  BY <1>4, <1>7, <1>9, <1>11 DEF Get
<1>13. NoBuried(m2)
  <2>1. ASSUME NEW o \in Len(W)..Half - 1 PROVE ~IsRecord(m2, d, o)
    <3>1. m2[Base(d) + o] = Blank
      BY <1>5 DEF HoldsOnly
    <3>2. QED
      BY <3>1 DEF IsRecord
  <2>2. QED
    BY <1>7, <1>8, <1>11, <2>1 DEF NoBuried
<1>14. Sound(m2) /\ ActiveGen(m2) = ActiveGen(m) + 1
  BY <1>0, <1>10, <1>11, <1>13 DEF Sound, ActiveGen
<1>15. QED
  BY <1>6, <1>7, <1>8, <1>11, <1>12, <1>14 DEF Flipped

(* What a flip leaves of a log: the planned records and the tail. *)
FlipPicks(m, st, m2) ==
  LET log  == Log(m, ActiveHalf(m))
      some == PlanRecs(log, st.plan) \cup TailRecs(log, st.end)
      log2 == Log(m2, ActiveHalf(m2))
  IN  Picks(log2, log, some, Len(log)) /\ LogEnd(log2) = Len(RecordsWords(log, some))

(* A compaction, whole or torn. *)
LEMMA FlipCommitIs ==
  ASSUME NEW m, Sound(m), Initialised(m), NEW st, Pending(m, st)
  PROVE  /\ FlipCommit(m, st) \in Seq(Writes)
         /\ Flipped(m, Program(m, FlipCommit(m, st)))
         /\ FlipPicks(m, st, Program(m, FlipCommit(m, st)))
         /\ \A m2 \in Torn(m, FlipCommit(m, st)) : Steady(m, m2)
<1> DEFINE a    == ActiveHalf(m)
           d    == 1 - a
           log  == Log(m, a)
           A    == PlanRecs(log, st.plan)
           B    == TailRecs(log, st.end)
           S    == RecordsWords(log, A)
           R    == RecordsWords(log, B)
           x    == FlipStep(m, st, 3 * Half).ws
           T    == WordsAt(Base(d) + Len(S), R)
           C    == Commit(d, ActiveGen(m) + 1)
           p    == Program(m, x)
           p2   == Program(m, x \o T)
           p3   == Program(m, x \o T \o C)
<1>0. /\ Typed(m) /\ m \in Memory /\ st.half = a /\ a \in Halves /\ d \in Halves /\ d # a /\ 1 - d = a
      /\ st.gen = ActiveGen(m) /\ Half \in Nat /\ ActiveGen(m) \in Nat /\ st \in FlipRec
  BY Actives, Bases DEF Sound, Typed, Pending, Fresh
<1>1. FlipCommit(m, st) = x \o T \o C
  <2>1. PackedWords(log, st.plan) = S
    BY DEF PackedWords, PlanRecs
  <2>2. st.half = a /\ st.gen = ActiveGen(m)
    BY <1>0
  <2>3. RecordsWords(log, {r \in ToSet(log) : r.off >= st.end}) = R
    BY DEF TailRecs
  <2> HIDE DEF x, S, R, d
  <2>4. QED
    BY <2>1, <2>2, <2>3 DEF FlipCommit, x, d
<1>2. Chained(m, a, 0, log) /\ log \in Seq(Rec) /\ LogEnd(log) \in 0..Half
  <2> HIDE DEF a
  <2>1. QED
    BY <1>0, LogFacts
<1>3. st.plan = LatestBefore(log, st.end) /\ st.end \in Nat
  BY <1>0 DEF Pending, FlipRec
<1>4. Faithful(log, A \cup B) /\ \A i, j \in 1..Len(log) : log[i] \in B /\ log[j] \in A => j < i
  <2> HIDE DEF a, log
  <2>1. QED
    BY <1>0, <1>2, <1>3, FlipFaithful
<1>5. Stream(m, st) = S
  BY <1>0 DEF Stream, PackedWords, PlanRecs
<1>6. Stepped(m, st, FlipStep(m, st, 3 * Half), p, 3 * Half)
  <2>1. 3 * Half \in Nat
    BY <1>0
  <2>2. QED
    BY <2>1, FlipStepIs
<1>7. /\ DeadWrites(x, d) /\ Steady(m, p) /\ p \in Memory
      /\ Copying(p, d, S, Half, Len(S))
  <2> DEFINE f == FlipStep(m, st, 3 * Half)
  <2>1. /\ DeadWrites(f.ws, 1 - st.half) /\ Steady(m, p) /\ Stream(p, st) = Stream(m, st)
        /\ f.st.half = st.half /\ f.st.plan = st.plan /\ Pending(p, f.st)
        /\ f.st.blankOff = Half /\ f.st.copied = Len(Stream(m, st))
    BY <1>6 DEF Stepped
  <2> HIDE DEF f, p, S
  <2>2. Stream(p, f.st) = S
    BY <1>5, <2>1 DEF Stream
  <2>3. Copying(p, d, S, Half, Len(S))
    BY <1>0, <1>5, <2>1, <2>2 DEF Pending
  <2>4. p \in Memory
    BY <2>1 DEF Steady, Typed
  <2>5. QED
    BY <1>0, <2>1, <2>3, <2>4 DEF f
<1>8. S \in Seq(Word) /\ R \in Seq(Word) /\ Len(S) \in Nat /\ Len(R) \in Nat
  <2> HIDE DEF log, A, B
  <2>1. QED
    BY <1>2, PackedIsWords
<1>9. S \o R = RecordsWords(log, A \cup B) /\ Len(S) + Len(R) <= Half
  <2> HIDE DEF log, A, B
  <2>1. S \o R = RecordsWords(log, A \cup B)
    BY <1>2, <1>4, PackedUnion
  <2>2. Len(RecordsWords(log, A \cup B)) <= LogEnd(log)
    BY <1>2, PackedLength DEF Chained
  <2>3. Len(S \o R) = Len(S) + Len(R)
    BY <1>8, ConcatProps
  <2>4. QED
    BY <1>0, <1>2, <1>8, <2>1, <2>2, <2>3
<1> HIDE DEF x, A, B, log, d, a
<1>10. DeadWrites(T, d) /\ HoldsOnly(Program(p, T), d, S \o R)
  <2> HIDE DEF p, S, R
  <2>1. QED
    BY <1>0, <1>7, <1>8, <1>9, TailStage
<1> HIDE DEF T, S, R
<1>11. x \in Seq(Writes) /\ T \in Seq(Writes) /\ DeadWrites(x \o T, d) /\ x \o T \in Seq(Writes)
  <2>1. DeadWrites(x \o T, d)
    BY <1>7, <1>10, DeadConcat
  <2>2. QED
    BY <1>7, <1>10, <2>1 DEF DeadWrites
<1>12. p2 = Program(p, T)
  BY <1>0, <1>11, ProgrammedConcat
<1>13. Steady(m, p2) /\ \A h \in Halves : p2[SuperOff(h)] = m[SuperOff(h)]
  <2>1. Touched(m, x \o T, p2)
    BY <1>0, <1>11, ProgramTouches
  <2> HIDE DEF p2
  <2>2. DeadWrites(x \o T, 1 - ActiveHalf(m))
    BY <1>11 DEF d, a
  <2>3. QED
    BY <1>0, <2>1, <2>2, DeadIsSteady
<1>14. /\ Sound(p2) /\ Initialised(p2) /\ ActiveHalf(p2) = a /\ ActiveGen(p2) = ActiveGen(m)
       /\ Log(p2, a) = log /\ \A k : Get(p2, k) = Get(m, k)
  <2> HIDE DEF p2
  <2>1. QED
    BY <1>13, SteadyKeeps DEF a, log
<1>15. p2 \in Memory /\ Typed(p2)
  BY <1>14 DEF Sound, Typed
<1>16. /\ C \in Seq(Writes)
       /\ Program(p2, C) = [p2 EXCEPT ![SuperOff(d)] = ActiveGen(m) + 1]
       /\ \A m2 \in Torn(p2, C) : m2 = p2 \/ m2 = [p2 EXCEPT ![SuperOff(d)] = Junk]
  <2> DEFINE g == ActiveGen(m) + 1
  <2>1. g \in Nat
    BY <1>0
  <2> HIDE DEF p2, g
  <2>2. /\ Commit(d, g) \in Seq(Writes)
        /\ Program(p2, Commit(d, g)) = [p2 EXCEPT ![SuperOff(d)] = g]
        /\ \A m2 \in Torn(p2, Commit(d, g)) : m2 = p2 \/ m2 = [p2 EXCEPT ![SuperOff(d)] = Junk]
    BY <1>0, <1>15, <2>1, Committed
  <2>3. QED
    BY <2>2 DEF g
<1>17. p3 = Program(p2, C) /\ x \o T \o C \in Seq(Writes)
  <2> HIDE DEF C
  <2>1. Program(m, (x \o T) \o C) = Program(Program(m, x \o T), C)
    BY <1>0, <1>11, <1>16, ProgrammedConcat
  <2>2. QED
    BY <1>11, <1>16, <2>1, ConcatProps
<1>18. Flipped(m, p3) /\ FlipPicks(m, st, p3)
  <2> HIDE DEF p2, p3, C
  <2>1. SuperIs(p2, d, ActiveGen(m) + 1, p3)
    <3> DEFINE g == ActiveGen(m) + 1
    <3>1. g \in {Junk} \cup (Nat \ {0})
      BY <1>0
    <3>2. p3 = [p2 EXCEPT ![SuperOff(d)] = g]
      BY <1>16, <1>17
    <3> HIDE DEF g
    <3>3. SuperIs(p2, d, g, [p2 EXCEPT ![SuperOff(d)] = g])
      BY <1>0, <1>15, <3>1, SuperSet
    <3>4. QED
      BY <3>2, <3>3 DEF g
  <2>2. HoldsOnly(p2, d, RecordsWords(log, A \cup B))
    BY <1>9, <1>10, <1>12
  <2>3. /\ SuperIs(p2, 1 - ActiveHalf(p2), ActiveGen(p2) + 1, p3)
        /\ log = Log(p2, ActiveHalf(p2))
        /\ HoldsOnly(p2, 1 - ActiveHalf(p2), RecordsWords(log, A \cup B))
    BY <1>14, <2>1, <2>2 DEF d
  <2>4. /\ Flipped(p2, p3) /\ Picks(Log(p3, ActiveHalf(p3)), log, A \cup B, Len(log))
        /\ LogEnd(Log(p3, ActiveHalf(p3))) = Len(RecordsWords(log, A \cup B))
    BY <1>4, <1>14, <2>3, CommitFlips
  <2>5. Flipped(m, p3)
    BY <1>14, <2>4 DEF Flipped
  <2>6. FlipPicks(m, st, p3)
    BY <2>4 DEF FlipPicks, A, B, log, a
  <2>7. QED
    BY <2>5, <2>6
<1>19. ASSUME NEW m2 \in Torn(m, x \o T \o C) PROVE Steady(m, m2)
  <2> HIDE DEF p2, p3, C
  <2>1. m2 \in Torn(m, x \o T) \/ m2 \in Torn(p2, C)
    <3>1. m2 \in Torn(m, (x \o T) \o C)
      BY <1>19
    <3>2. m2 \in Torn(m, x \o T) \/ m2 \in Torn(Program(m, x \o T), C)
      BY <1>0, <1>11, <1>16, <3>1, TornConcat
    <3>3. QED
      BY <3>2 DEF p2
  <2>2. CASE m2 \in Torn(m, x \o T)
    <3>1. Touched(m, x \o T, m2)
      BY <1>0, <1>11, <2>2, TornTouches
    <3>2. DeadWrites(x \o T, 1 - ActiveHalf(m))
      BY <1>11 DEF d, a
    <3>3. QED
      BY <1>0, <3>1, <3>2, DeadIsSteady
  <2>3. CASE m2 \in Torn(p2, C)
    <3>1. m2 = p2 \/ m2 = [p2 EXCEPT ![SuperOff(1 - ActiveHalf(p2))] = Junk]
      BY <1>14, <1>16, <2>3 DEF d
    <3>2. Steady(p2, m2)
      BY <1>15, <3>1, JunkSteady, SteadySelf
    <3>3. QED
      BY <1>0, <1>13, <3>2, SteadyTrans
  <2>4. QED
    BY <2>1, <2>2, <2>3
<1>20. QED
  BY <1>1, <1>17, <1>18, <1>19

LEMMA LatestBelow ==
  ASSUME NEW l \in Seq(Rec), NEW e \in Nat
  PROVE  LatestBefore(l, e) \in SUBSET Nat /\ \A o \in LatestBefore(l, e) : o < e
<1>1. ASSUME NEW o \in LatestBefore(l, e) PROVE o \in Nat /\ o < e
  <2>1. PICK i \in 1..Len(l) : IsLatestBefore(l, e, i) /\ o = l[i].off
    BY DEF LatestBefore
  <2>2. l[i] \in Rec
    BY <2>1
  <2>3. l[i].off \in Nat
    BY <2>2 DEF Rec, Offsets
  <2>4. QED
    BY <2>1, <2>3 DEF IsLatestBefore
<1>2. QED
  BY <1>1

(* A flip starts with nothing copied. *)
LEMMA StartPending ==
  ASSUME NEW m, Sound(m), Initialised(m)
  PROVE  Pending(m, FlipStart(m))
<1> DEFINE a  == ActiveHalf(m)
           l  == Log(m, a)
           e  == LogEnd(l)
           st == FlipStart(m)
<1>0. Typed(m) /\ a \in Halves /\ ActiveGen(m) \in Nat /\ Half \in Nat
  BY Actives, Bases DEF Sound
<1>1. l \in Seq(Rec) /\ e \in 0..Half /\ Chained(m, a, 0, l)
  <2> HIDE DEF a
  <2>1. QED
    BY <1>0, LogFacts
<1>2. LatestOffsets(l) = LatestBefore(l, e)
  <2> HIDE DEF a, l
  <2>1. QED
    BY <1>0, <1>1, StartPlans
<1>3. LatestBefore(l, e) \in SUBSET Nat
  <2> HIDE DEF l, e
  <2>1. e \in Nat
    BY <1>0, <1>1
  <2>2. QED
    BY <1>1, <2>1, LatestBelow
<1>4. st = [half |-> a, gen |-> ActiveGen(m), end |-> e, plan |-> LatestBefore(l, e),
            blankOff |-> 0, copied |-> 0]
  BY <1>2 DEF FlipStart
<1>5. e \in Nat
  BY <1>0, <1>1
<1> HIDE DEF e, l, st
<1>6. st \in FlipRec
  BY <1>0, <1>3, <1>4, <1>5 DEF FlipRec
<1>7. /\ st.half = a /\ st.gen = ActiveGen(m) /\ st.end = e /\ st.plan = LatestBefore(l, e)
      /\ st.blankOff = 0 /\ st.copied = 0
  BY <1>4
<1>8. Fresh(m, st)
  <2>1. st # None
    BY <1>6, KvNames DEF FlipRec
  <2>2. QED
    BY <1>7, <2>1 DEF Fresh
<1>9. Copying(m, 1 - st.half, Stream(m, st), 0, 0)
  <2>1. Stream(m, st) \in Seq(Word)
    BY <1>0, <1>7, StreamIs DEF Stream
  <2>2. Len(Stream(m, st)) \in Nat
    BY <2>1
  <2>3. 0 \in 0..Half /\ 0 \in 0..Len(Stream(m, st)) /\ \A o \in 0..0 - 1 : FALSE
    BY <1>0, <2>2
  <2>4. QED
    BY <2>3 DEF Copying
<1>10. st.end <= LogEnd(Log(m, st.half)) /\ st.plan = LatestBefore(Log(m, st.half), st.end)
  BY <1>5, <1>7 DEF e, l
<1>11. Pending(m, st)
  BY <1>6, <1>7, <1>8, <1>9, <1>10 DEF Pending
<1>12. QED
  BY <1>11 DEF st

(* A flip planned on the spot packs the live words, and has no tail. *)
LEMMA StartPacks ==
  ASSUME NEW m, Sound(m), Initialised(m), NEW m2, FlipPicks(m, FlipStart(m), m2)
  PROVE  LogEnd(Log(m2, ActiveHalf(m2))) = LiveWords(m)
<1> DEFINE l == Log(m, ActiveHalf(m))
           e == LogEnd(l)
           A == PlanRecs(l, LatestOffsets(l))
<1>1. /\ l \in Seq(Rec) /\ Chained(m, ActiveHalf(m), 0, l) /\ e = EndFrom(l, 0)
      /\ e \in 0..Half /\ ActiveHalf(m) \in Halves /\ Half \in Nat
  BY Actives, LogFacts, Bases DEF Sound
<1>2. LogEnd(Log(m2, ActiveHalf(m2))) = Len(RecordsWords(l, A \cup TailRecs(l, e)))
  BY DEF FlipPicks, FlipStart
<1>3. LiveWords(m) = Len(RecordsWords(l, A))
  BY DEF LiveWords, PackedWords, PlanRecs
<1> HIDE DEF l, A, e
<1>4. TailRecs(l, e) = {}
  <2>1. SUFFICES ASSUME NEW r \in TailRecs(l, e) PROVE FALSE
    OBVIOUS
  <2>2. PICK i \in 1..Len(l) : r = l[i] /\ r.off >= e
    BY <1>1 DEF TailRecs, ToSet
  <2>3. l[i].off < e /\ l[i].off \in Nat
    BY <1>1, ChainAscends, RecordFields
  <2>4. QED
    BY <1>1, <2>2, <2>3
<1>5. QED
  BY <1>2, <1>3, <1>4

(* What the maintenance state is, between two operations. *)
FlipOK(m, st) == Fresh(m, st) => Pending(m, st)

LEMMA CompactionIs ==
  ASSUME NEW m, Sound(m), Initialised(m), NEW st, FlipOK(m, st)
  PROVE  /\ Compaction(m, st) \in Seq(Writes)
         /\ Flipped(m, Program(m, Compaction(m, st)))
         /\ \A m2 \in Torn(m, Compaction(m, st)) : Steady(m, m2)
         /\ ~Fresh(m, st) => FreeWords(Program(m, Compaction(m, st))) = Half - LiveWords(m)
<1> DEFINE q == IF Fresh(m, st) THEN st ELSE FlipStart(m)
<1>1. Pending(m, q)
  BY StartPending DEF FlipOK
<1>2. Compaction(m, st) = FlipCommit(m, q)
  BY DEF Compaction
<1>3. ~Fresh(m, st) => q = FlipStart(m)
  OBVIOUS
<1> HIDE DEF q
<1>4. QED
  BY <1>1, <1>2, <1>3, FlipCommitIs, StartPacks DEF FreeWords

(* Appended records leave a pending flip as it is. *)
LEMMA AppendKeepsFlip ==
  ASSUME NEW m, Sound(m), Initialised(m), NEW k \in Keys, NEW v \in Data, NEW n, NEW m2,
         Size(v) <= FreeWords(m), Appended(m, k, v, n, m2), NEW st, Pending(m, st)
  PROVE  Pending(m2, st)
<1> DEFINE a == ActiveHalf(m)
           l == Log(m, a)
           r == [off |-> LogEnd(l), key |-> k, val |-> v]
           l2 == Log(m2, a)
<1>0. /\ Typed(m) /\ a \in Halves /\ st.half = a /\ Half \in Nat /\ 1 - a \in Halves
      /\ ActiveHalf(m2) = a /\ ActiveGen(m2) = ActiveGen(m) /\ SameHalf(m, m2, 1 - a)
  BY Actives, Bases DEF Sound, Pending, Fresh, Appended
<1>1. l \in Seq(Rec) /\ LogEnd(l) \in 0..Half
  BY <1>0, LogFacts
<1>2. l2 = l \/ l2 = Append(l, r)
  BY DEF Appended
<1>3. /\ st \in FlipRec /\ st.end <= LogEnd(l) /\ st.plan = LatestBefore(l, st.end)
      /\ Copying(m, 1 - a, PackedWords(l, st.plan), st.blankOff, st.copied)
  BY <1>0 DEF Pending, Stream
<1>4. st.end \in Nat
  BY <1>3 DEF FlipRec
<1>5. r \in Rec
  <2>1. Size(v) \in Nat /\ Size(v) > 0
    BY Sizes
  <2>2. Size(v) <= Half - LogEnd(l)
    BY DEF FreeWords
  <2>3. LogEnd(l) \in Offsets
    BY <1>0, <1>1, <2>1, <2>2 DEF Offsets
  <2>4. QED
    BY <2>3 DEF Rec
<1>6. r.off = LogEnd(l) /\ r.val = v
  OBVIOUS
<1> HIDE DEF r, l, l2, a
<1>7. r.off >= st.end /\ r.off \notin st.plan
  <2>1. \A o \in st.plan : o < st.end /\ o \in Nat
    BY <1>1, <1>3, <1>4, LatestBelow
  <2>2. LogEnd(l) \in Nat
    BY <1>0, <1>1
  <2>3. QED
    BY <1>3, <1>4, <1>6, <2>1, <2>2
<1>8. /\ LatestBefore(l2, st.end) = LatestBefore(l, st.end)
      /\ PackedWords(l2, st.plan) = PackedWords(l, st.plan)
  BY <1>1, <1>2, <1>4, <1>5, <1>7, PlanStays
<1>9. st.end <= LogEnd(l2)
  <2>1. CASE l2 = l
    BY <1>3, <2>1
  <2>2. CASE l2 = Append(l, r)
    <3>1. Append(l, r) \in Seq(Rec) /\ Len(Append(l, r)) = Len(l) + 1 /\ Append(l, r)[Len(l) + 1] = r
          /\ Len(l) \in Nat
      BY <1>1, <1>5
    <3>2. Len(Append(l, r)) # 0
      BY <3>1
    <3>3. LogEnd(Append(l, r)) = r.off + Size(r.val)
      BY <3>1, <3>2, LogEnds DEF EndFrom
    <3>4. Size(v) \in Nat /\ LogEnd(l) \in Nat
      BY <1>0, <1>1, Sizes
    <3>5. QED
      BY <1>3, <1>4, <1>6, <2>2, <3>3, <3>4
  <2>3. QED
    BY <1>2, <2>1, <2>2
<1>10. Copying(m2, 1 - a, PackedWords(l2, st.plan), st.blankOff, st.copied)
  <2>1. st.blankOff \in 0..Half
    BY <1>3 DEF Copying
  <2>2. ASSUME NEW o \in 0..st.blankOff - 1 PROVE m2[Base(1 - a) + o] = m[Base(1 - a) + o]
    <3>1. o \in Offsets
      BY <1>0, <2>1 DEF Offsets
    <3>2. QED
      BY <1>0, <3>1 DEF SameHalf
  <2>3. QED
    BY <1>3, <1>8, <2>2 DEF Copying
<1>11. Fresh(m2, st)
  BY <1>0 DEF Fresh, Pending
<1>12. QED
  BY <1>0, <1>3, <1>8, <1>9, <1>10, <1>11 DEF Pending, Stream, l2

-----------------------------------------------------------------------------
(* The operations.                                                         *)

SameReads(m, m2) == \A q : Get(m2, q) = Get(m, q)
Updated(m, k, v, m2) == \A q : Get(m2, q) = IF q = k THEN v ELSE Get(m, q)

(* The EEPROM and the pending flip between two operations. *)
Kept(m, st) == Sound(m) /\ FlipOK(m, st) /\ (~Initialised(m) => st = None)

(* A new generation, or nothing that the blanking depends on has changed. *)
Follows(m, st, m2, st2) ==
  \/ ActiveGen(m2) > ActiveGen(m)
  \/ /\ st2 = st /\ ActiveHalf(m2) = ActiveHalf(m) /\ ActiveGen(m2) = ActiveGen(m)
     /\ SameHalf(m, m2, 1 - ActiveHalf(m))

LEMMA FollowsSelf ==
  ASSUME NEW m, NEW st
  PROVE  Follows(m, st, m, st)
  BY DEF Follows, SameHalf

LEMMA FollowsTrans ==
  ASSUME NEW m, Typed(m), NEW st, NEW m1, Typed(m1), NEW st1, NEW m2, Typed(m2), NEW st2,
         Follows(m, st, m1, st1), Follows(m1, st1, m2, st2)
  PROVE  Follows(m, st, m2, st2)
<1>1. ActiveGen(m) \in Nat /\ ActiveGen(m1) \in Nat /\ ActiveGen(m2) \in Nat
  BY Actives
<1>2. CASE ActiveGen(m1) > ActiveGen(m) \/ ActiveGen(m2) > ActiveGen(m1)
  <2>1. ActiveGen(m1) >= ActiveGen(m) /\ ActiveGen(m2) >= ActiveGen(m1)
    BY <1>1 DEF Follows
  <2>2. ActiveGen(m2) > ActiveGen(m)
    BY <1>1, <1>2, <2>1
  <2>3. QED
    BY <2>2 DEF Follows
<1>3. CASE ~(ActiveGen(m1) > ActiveGen(m)) /\ ~(ActiveGen(m2) > ActiveGen(m1))
  <2>1. /\ st1 = st /\ ActiveHalf(m1) = ActiveHalf(m) /\ ActiveGen(m1) = ActiveGen(m)
        /\ SameHalf(m, m1, 1 - ActiveHalf(m))
    BY <1>3 DEF Follows
  <2>2. /\ st2 = st1 /\ ActiveHalf(m2) = ActiveHalf(m1) /\ ActiveGen(m2) = ActiveGen(m1)
        /\ SameHalf(m1, m2, 1 - ActiveHalf(m1))
    BY <1>3 DEF Follows
  <2>3. SameHalf(m, m2, 1 - ActiveHalf(m))
    BY <2>1, <2>2 DEF SameHalf
  <2>4. QED
    BY <2>1, <2>2, <2>3 DEF Follows
<1>4. QED
  BY <1>2, <1>3

LEMMA AppendOutcome ==
  ASSUME NEW m, Sound(m), Initialised(m), NEW st, FlipOK(m, st),
         NEW k \in Keys, NEW v \in Data, Size(v) <= FreeWords(m)
  PROVE  /\ AppendWrites(m, k, v) \in Seq(Writes)
         /\ Kept(Program(m, AppendWrites(m, k, v)), st)
         /\ Updated(m, k, v, Program(m, AppendWrites(m, k, v)))
         /\ Follows(m, st, Program(m, AppendWrites(m, k, v)), st)
         /\ \A m2 \in Torn(m, AppendWrites(m, k, v)) :
              Sound(m2) /\ (SameReads(m, m2) \/ Updated(m, k, v, m2))
<1> DEFINE A == AppendWrites(m, k, v)
           p == Program(m, A)
<1>1. /\ A \in Seq(Writes) /\ Appended(m, k, v, Size(v), p)
      /\ \A m2 \in Torn(m, A) : \E n : Appended(m, k, v, n, m2)
  BY AppendOp
<1> HIDE DEF p, A
<1>2. LogEnd(Log(m, ActiveHalf(m))) \in Offsets
  <2>1. Typed(m) /\ ActiveHalf(m) \in Halves
    BY Actives DEF Sound
  <2>2. LogEnd(Log(m, ActiveHalf(m))) \in 0..Half
    BY <2>1, LogFacts
  <2>3. Size(v) <= Half - LogEnd(Log(m, ActiveHalf(m)))
    BY DEF FreeWords
  <2>4. Size(v) \in Nat /\ Size(v) > 0 /\ Half \in Nat
    BY Sizes, Bases
  <2>5. QED
    BY <2>2, <2>3, <2>4 DEF Offsets
<1>3. ASSUME NEW n, NEW m2, Appended(m, k, v, n, m2)
      PROVE  /\ Sound(m2) /\ (SameReads(m, m2) \/ Updated(m, k, v, m2))
             /\ n = Size(v) => Updated(m, k, v, m2)
  <2>1. Sound(m2)
    BY <1>3 DEF Appended
  <2>2. /\ (\A q : Get(m2, q) = Get(m, q)) \/ (\A q : Get(m2, q) = IF q = k THEN v ELSE Get(m, q))
        /\ n = Size(v) => \A q : Get(m2, q) = IF q = k THEN v ELSE Get(m, q)
    BY <1>2, <1>3, AppendReads
  <2>3. QED
    BY <2>1, <2>2 DEF SameReads, Updated
<1>4. FlipOK(p, st)
  <2>1. SUFFICES ASSUME Fresh(p, st) PROVE Pending(p, st)
    BY DEF FlipOK
  <2>2. Fresh(m, st)
    BY <1>1, <2>1 DEF Fresh, Appended
  <2>3. Pending(m, st)
    BY <2>2 DEF FlipOK
  <2>4. QED
    BY <1>1, <2>3, AppendKeepsFlip
<1>5. Initialised(p) /\ Follows(m, st, p, st)
  BY <1>1 DEF Appended, Follows
<1>6. QED
  BY <1>1, <1>3, <1>4, <1>5 DEF Kept, p, A

(* No flip is pending in nothing. *)
LEMMA NonePending == \A m : FlipOK(m, None)
  BY DEF FlipOK, Fresh

(* What a call does: the memory it leaves, whole or torn. *)
Outcome(m, st, k, v, r) ==
  /\ r.ws \in Seq(Writes)
  /\ Kept(Program(m, r.ws), r.flip) /\ Follows(m, st, Program(m, r.ws), r.flip)
  /\ \/ r.out = "ok" /\ Updated(m, k, v, Program(m, r.ws))
     \/ r.out = "full" /\ SameReads(m, Program(m, r.ws))
  /\ \A m2 \in Torn(m, r.ws) : Sound(m2) /\ (SameReads(m, m2) \/ Updated(m, k, v, m2))

LEMMA SetIs ==
  ASSUME Kept(nvm, maint.flip), NEW k \in Keys, NEW v \in Data
  PROVE  Outcome(nvm, maint.flip, k, v, SetOp(k, v))
<1> DEFINE open == OpenWrites(nvm)
           m0   == Program(nvm, open)
           flip == Compaction(m0, maint.flip)
           m1   == Program(m0, flip)
           st   == maint.flip
<1>0. Sound(nvm) /\ nvm \in Memory
  BY DEF Kept, Sound, Typed
<1>1. /\ open \in Seq(Writes) /\ Sound(m0) /\ Initialised(m0)
      /\ Initialised(nvm) => m0 = nvm
      /\ SameReads(nvm, m0)
      /\ \A m2 \in Torn(nvm, open) : Sound(m2) /\ SameReads(nvm, m2)
  BY <1>0, OpenOp DEF SameReads
<1>2. FlipOK(m0, st)
  <2>1. CASE Initialised(nvm)
    BY <1>1, <2>1 DEF Kept
  <2>2. CASE ~Initialised(nvm)
    BY <2>2, NonePending DEF Kept
  <2>3. QED
    BY <2>1, <2>2
<1>a. SetOp(k, v) =
        IF Size(v) <= FreeWords(m0)
          THEN [ws |-> open \o AppendWrites(m0, k, v), flip |-> st, out |-> "ok"]
          ELSE IF Size(v) <= FreeWords(m1)
                 THEN [ws |-> open \o flip \o AppendWrites(m1, k, v), flip |-> None, out |-> "ok"]
                 ELSE [ws |-> open \o flip, flip |-> None, out |-> "full"]
  BY DEF SetOp
<1>b. m0 \in Memory
  BY <1>1 DEF Sound, Typed
<1>c. m0 = Program(nvm, open)
  OBVIOUS
<1>e. Follows(nvm, st, m0, st)
  <2>1. CASE Initialised(nvm)
    BY <1>1, <2>1, FollowsSelf
  <2>2. CASE ~Initialised(nvm)
    <3>1. ActiveGen(nvm) = 0
      BY <1>0, <2>2, Actives DEF Sound
    <3>2. ActiveGen(m0) = 1
      BY <1>0, <2>2, OpenOp
    <3>3. QED
      BY <3>1, <3>2 DEF Follows
  <2>3. QED
    BY <2>1, <2>2
<1> HIDE DEF m0, open
<1>3. /\ flip \in Seq(Writes) /\ Flipped(m0, m1)
      /\ \A m2 \in Torn(m0, flip) : Steady(m0, m2)
  BY <1>1, <1>2, CompactionIs
<1>d. m1 = Program(m0, flip)
  OBVIOUS
<1>f. st = maint.flip /\ Typed(nvm) /\ Typed(m0) /\ Typed(m1)
  BY <1>0, <1>1, <1>3 DEF Sound, Flipped
<1> HIDE DEF m1, flip, st
<1>g. Follows(nvm, st, m1, None)
  <2>1. ActiveGen(m0) \in Nat /\ ActiveGen(m1) = ActiveGen(m0) + 1
    BY <1>3, <1>f, Actives DEF Flipped
  <2>2. Follows(m0, st, m1, None)
    BY <2>1 DEF Follows
  <2>3. QED
    BY <1>e, <1>f, <2>2, FollowsTrans
<1>4. /\ Sound(m1) /\ Initialised(m1) /\ SameReads(nvm, m1) /\ m1 \in Memory
  BY <1>1, <1>3 DEF Flipped, SameReads, Sound, Typed
<1>5. \A m2 \in Torn(m0, flip) : Sound(m2) /\ SameReads(nvm, m2)
  <2>1. ASSUME NEW m2 \in Torn(m0, flip) PROVE Sound(m2) /\ \A q : Get(m2, q) = Get(m0, q)
    <3>1. Steady(m0, m2)
      BY <1>3
    <3>2. QED
      BY <1>1, <3>1, SteadyKeeps
  <2>2. QED
    BY <1>1, <2>1 DEF SameReads
<1>6. CASE Size(v) <= FreeWords(m0)
  <2> DEFINE A == AppendWrites(m0, k, v)
             r == SetOp(k, v)
             p == Program(m0, A)
  <2>1. r.ws = open \o A /\ r.flip = st /\ r.out = "ok"
    BY <1>a, <1>6
  <2>2. /\ A \in Seq(Writes) /\ Kept(p, st) /\ Updated(m0, k, v, p) /\ Follows(m0, st, p, st)
        /\ \A m2 \in Torn(m0, A) : Sound(m2) /\ (SameReads(m0, m2) \/ Updated(m0, k, v, m2))
    BY <1>1, <1>2, <1>6, AppendOutcome
  <2> HIDE DEF A
  <2>3. Program(nvm, open \o A) = p /\ open \o A \in Seq(Writes)
    BY <1>0, <1>1, <1>c, <2>2, ProgrammedConcat, ConcatProps
  <2>4. ASSUME NEW m2 \in Torn(nvm, open \o A)
        PROVE  Sound(m2) /\ (SameReads(nvm, m2) \/ Updated(nvm, k, v, m2))
    <3>1. m2 \in Torn(nvm, open) \/ m2 \in Torn(m0, A)
      BY <1>0, <1>1, <1>c, <2>2, TornConcat
    <3>2. QED
      BY <1>1, <2>2, <3>1 DEF SameReads, Updated
  <2> HIDE DEF r, p
  <2>5. Updated(nvm, k, v, p)
    BY <1>1, <2>2 DEF SameReads, Updated
  <2>6. Follows(nvm, st, p, st)
    BY <1>e, <1>f, <2>2, FollowsTrans DEF Kept, Sound
  <2>7. Outcome(nvm, maint.flip, k, v, r)
    BY <1>f, <2>1, <2>2, <2>3, <2>4, <2>5, <2>6 DEF Outcome
  <2>8. QED
    BY <2>7 DEF r
<1>7. CASE ~(Size(v) <= FreeWords(m0)) /\ Size(v) <= FreeWords(m1)
  <2> DEFINE A == AppendWrites(m1, k, v)
             r == SetOp(k, v)
             p == Program(m1, A)
  <2>1. r.ws = (open \o flip) \o A /\ r.flip = None /\ r.out = "ok"
    BY <1>a, <1>7
  <2>2. /\ A \in Seq(Writes) /\ Kept(p, None) /\ Updated(m1, k, v, p) /\ Follows(m1, None, p, None)
        /\ \A m2 \in Torn(m1, A) : Sound(m2) /\ (SameReads(m1, m2) \/ Updated(m1, k, v, m2))
    BY <1>4, <1>7, NonePending, AppendOutcome
  <2> HIDE DEF A
  <2>3. Program(nvm, open \o flip) = m1 /\ open \o flip \in Seq(Writes)
    BY <1>0, <1>1, <1>3, <1>c, <1>d, ProgrammedConcat, ConcatProps
  <2> DEFINE of == open \o flip
  <2>a. of \in Seq(Writes) /\ Program(nvm, of) = m1
    BY <2>3
  <2>b. \A m2 \in Torn(nvm, of) : Sound(m2) /\ SameReads(nvm, m2)
    <3>1. ASSUME NEW m2 \in Torn(nvm, open \o flip) PROVE m2 \in Torn(nvm, open) \/ m2 \in Torn(m0, flip)
      BY <1>0, <1>1, <1>3, <1>c, TornConcat
    <3>2. QED
      BY <1>1, <1>5, <3>1
  <2>c. r.ws = of \o A
    BY <2>1
  <2> HIDE DEF r, p, of
  <2>4. Program(nvm, of \o A) = p /\ of \o A \in Seq(Writes)
    BY <1>0, <2>2, <2>a, ProgrammedConcat, ConcatProps DEF p
  <2>5. ASSUME NEW m2 \in Torn(nvm, of \o A)
        PROVE  Sound(m2) /\ (SameReads(nvm, m2) \/ Updated(nvm, k, v, m2))
    <3>1. m2 \in Torn(nvm, of) \/ m2 \in Torn(m1, A)
      BY <1>0, <2>2, <2>a, TornConcat
    <3>2. QED
      BY <1>4, <2>2, <2>b, <3>1 DEF SameReads, Updated
  <2>6. Updated(nvm, k, v, p)
    BY <1>4, <2>2 DEF SameReads, Updated
  <2>7. Follows(nvm, st, p, None)
    BY <1>f, <1>g, <2>2, FollowsTrans DEF Kept, Sound
  <2>8. Outcome(nvm, maint.flip, k, v, r)
    BY <1>f, <2>1, <2>2, <2>4, <2>5, <2>6, <2>7, <2>c DEF Outcome
  <2>9. QED
    BY <2>8 DEF r
<1>8. CASE ~(Size(v) <= FreeWords(m0)) /\ ~(Size(v) <= FreeWords(m1))
  <2> DEFINE r == SetOp(k, v)
  <2>1. r.ws = open \o flip /\ r.flip = None /\ r.out = "full"
    BY <1>a, <1>8
  <2>2. Program(nvm, open \o flip) = m1 /\ open \o flip \in Seq(Writes)
    BY <1>0, <1>1, <1>3, <1>c, <1>d, ProgrammedConcat, ConcatProps
  <2>3. \A m2 \in Torn(nvm, open \o flip) : Sound(m2) /\ SameReads(nvm, m2)
    <3>1. ASSUME NEW m2 \in Torn(nvm, open \o flip) PROVE m2 \in Torn(nvm, open) \/ m2 \in Torn(m0, flip)
      BY <1>0, <1>1, <1>3, <1>c, TornConcat
    <3>2. QED
      BY <1>1, <1>5, <3>1
  <2>4. Kept(m1, None)
    BY <1>4, NonePending DEF Kept
  <2> HIDE DEF r
  <2>5. Outcome(nvm, maint.flip, k, v, r)
    BY <1>4, <1>f, <1>g, <2>1, <2>2, <2>3, <2>4 DEF Outcome
  <2>6. QED
    BY <2>5 DEF r
<1>9. QED
  BY <1>6, <1>7, <1>8

LEMMA PutIs ==
  ASSUME Kept(nvm, maint.flip), NEW k \in Keys, NEW v \in Data
  PROVE  Outcome(nvm, maint.flip, k, v, PutOp(k, v))
<1> DEFINE r == PutOp(k, v)
<1>1. CASE v = Absent /\ Get(nvm, k) = Absent
  <2>1. r.ws = <<>> /\ r.flip = maint.flip /\ r.out = "ok"
    BY <1>1 DEF PutOp
  <2>2. nvm \in Memory
    BY DEF Kept, Sound, Typed
  <2>3. <<>> \in Seq(Writes) /\ Program(nvm, <<>>) = nvm /\ Torn(nvm, <<>>) = {}
    BY <2>2, ProgramNothing, TornNothing
  <2>4. Updated(nvm, k, v, nvm)
    BY <1>1 DEF Updated
  <2> HIDE DEF r
  <2>5. Outcome(nvm, maint.flip, k, v, r)
    BY <2>1, <2>3, <2>4, FollowsSelf DEF Outcome
  <2>6. QED
    BY <2>5 DEF r
<1>2. CASE ~(v = Absent /\ Get(nvm, k) = Absent)
  <2>1. PutOp(k, v) = SetOp(k, v)
    BY <1>2 DEF PutOp
  <2>2. QED
    BY <2>1, SetIs
<1>3. QED
  BY <1>1, <1>2

MaintOK(mt) == mt = [cursor |-> mt.cursor, flip |-> mt.flip] /\ mt.cursor.off \in 0..Half

(* What a maintenance slice does, whole or torn. *)
Sliced(m, op) ==
  /\ op.ws \in Seq(Writes)
  /\ Kept(Program(m, op.ws), op.maint.flip) /\ MaintOK(op.maint)
  /\ SameReads(m, Program(m, op.ws))
  /\ \A m2 \in Torn(m, op.ws) : Sound(m2) /\ SameReads(m, m2)

LEMMA SteadyReads ==
  ASSUME NEW m, Sound(m), Initialised(m), NEW m2, Steady(m, m2)
  PROVE  Sound(m2) /\ Initialised(m2) /\ SameReads(m, m2)
  BY SteadyKeeps DEF SameReads

LEMMA DriveIs ==
  ASSUME NEW m, Sound(m), Initialised(m), NEW mt, MaintOK(mt), Pending(m, mt.flip), Budget \in Nat
  PROVE  Sliced(m, DriveFlip(m, mt))
<1> DEFINE st == mt.flip
           f  == FlipStep(m, st, Budget)
           op == DriveFlip(m, mt)
           p  == Program(m, f.ws)
<1>0. m \in Memory /\ Typed(m)
  BY DEF Sound, Typed
<1>1. CASE f.more
  <2>1. op.ws = f.ws /\ op.maint = [mt EXCEPT !.flip = f.st]
    BY <1>1 DEF DriveFlip
  <2>2. Stepped(m, st, f, p, Budget)
    BY FlipStepIs
  <2> HIDE DEF f, p, op
  <2>3. /\ DeadWrites(f.ws, 1 - ActiveHalf(m)) /\ Steady(m, p) /\ Pending(p, f.st)
        /\ p = Program(m, f.ws)
    BY <2>2 DEF Stepped, Pending, Fresh
  <2>4. op.maint.flip = f.st /\ op.maint.cursor = mt.cursor
        /\ op.maint = [cursor |-> mt.cursor, flip |-> f.st]
    BY <2>1 DEF MaintOK
  <2>5. MaintOK(op.maint)
    BY <2>4 DEF MaintOK
  <2>6. Sound(p) /\ Initialised(p) /\ SameReads(m, p)
    BY <2>3, SteadyReads
  <2>7. Kept(p, f.st)
    BY <2>3, <2>6 DEF Kept, FlipOK
  <2>8. ASSUME NEW m2 \in Torn(m, f.ws) PROVE Sound(m2) /\ SameReads(m, m2)
    <3>1. Touched(m, f.ws, m2)
      BY <1>0, <2>3, TornTouches DEF DeadWrites
    <3>2. Steady(m, m2)
      BY <1>0, <2>3, <3>1, DeadIsSteady
    <3>3. QED
      BY <3>2, SteadyReads
  <2>9. f.ws \in Seq(Writes)
    BY <2>3 DEF DeadWrites
  <2>10. Sliced(m, op)
    BY <2>1, <2>3, <2>4, <2>5, <2>6, <2>7, <2>8, <2>9 DEF Sliced
  <2>11. QED
    BY <2>10 DEF op
<1>2. CASE ~f.more
  <2>1. op.ws = FlipCommit(m, st) /\ op.maint = [mt EXCEPT !.flip = None]
    BY <1>2 DEF DriveFlip
  <2> DEFINE q == Program(m, FlipCommit(m, st))
  <2>2. /\ FlipCommit(m, st) \in Seq(Writes) /\ Flipped(m, q)
        /\ \A m2 \in Torn(m, FlipCommit(m, st)) : Steady(m, m2)
    BY FlipCommitIs
  <2> HIDE DEF f, op, p
  <2>3. op.maint.flip = None /\ op.maint.cursor = mt.cursor
        /\ op.maint = [cursor |-> mt.cursor, flip |-> None]
    BY <2>1 DEF MaintOK
  <2>4. MaintOK(op.maint)
    BY <2>3 DEF MaintOK
  <2>5. Kept(q, None) /\ SameReads(m, q)
    BY <2>2, NonePending DEF Kept, Flipped, SameReads
  <2>6. \A m2 \in Torn(m, FlipCommit(m, st)) : Sound(m2) /\ SameReads(m, m2)
    BY <2>2, SteadyReads
  <2>7. Sliced(m, op)
    BY <2>1, <2>2, <2>3, <2>4, <2>5, <2>6 DEF Sliced
  <2>8. QED
    BY <2>7 DEF op
<1>3. QED
  BY <1>1, <1>2

LEMMA BlankIs ==
  ASSUME NEW m, Sound(m), Initialised(m), NEW off \in 0..Half, Budget \in Nat
  PROVE  Sliced(m, BlankFrom(m, off))
<1> DEFINE d     == 1 - ActiveHalf(m)
           dirty == Dirty(m, d, off)
           b     == Min2(Budget, Len(dirty))
           reach == BlankReach(dirty, b)
           ws    == BlankWrites(d, SubSeq(dirty, 1, b))
           op    == BlankFrom(m, off)
           p     == Program(m, ws)
<1>0. m \in Memory /\ Typed(m) /\ d \in Halves /\ Half \in Nat
  BY Actives, Bases DEF Sound, Typed
<1>1. op.ws = ws /\ op.maint = [cursor |-> [gen |-> ActiveGen(m), off |-> reach], flip |-> None]
  BY DEF BlankFrom
<1>2. b \in 0..Len(dirty)
  <2>1. dirty \in Seq(Offsets)
    <3> HIDE DEF d
    <3>1. QED
      BY <1>0, DirtyIs DEF IsDirty
  <2> HIDE DEF dirty
  <2>2. Len(dirty) \in Nat
    BY <2>1
  <2>3. QED
    BY <2>2 DEF Min2
<1>3. DeadWrites(ws, d) /\ reach \in 0..Half
  <2> HIDE DEF d
  <2>2. b \in 0..Len(Dirty(m, d, off))
    BY <1>2
  <2> HIDE DEF b
  <2>3. /\ SubSeq(dirty, 1, b) \in Seq(Offsets) /\ reach \in off..Half
    BY <1>0, <2>2, BlankStep
  <2>4. reach \in 0..Half
    BY <1>0, <2>3
  <2> HIDE DEF dirty, reach
  <2>5. QED
    BY <1>0, <2>3, <2>4, BlankWritesDead
<1> HIDE DEF p, op, ws, reach, b, dirty
<1>4. ws \in Seq(Writes) /\ DeadWrites(ws, 1 - ActiveHalf(m))
  BY <1>3 DEF DeadWrites
<1>5. ASSUME NEW m2, Touched(m, ws, m2) PROVE Sound(m2) /\ Initialised(m2) /\ SameReads(m, m2)
  <2>1. Steady(m, m2)
    BY <1>0, <1>4, <1>5, DeadIsSteady
  <2>2. QED
    BY <2>1, SteadyReads
<1>6. Sound(p) /\ Initialised(p) /\ SameReads(m, p)
  BY <1>0, <1>4, <1>5, ProgramTouches DEF p
<1>7. \A m2 \in Torn(m, ws) : Sound(m2) /\ SameReads(m, m2)
  BY <1>0, <1>4, <1>5, TornTouches
<1>8. MaintOK(op.maint) /\ op.maint.flip = None
  BY <1>1, <1>3 DEF MaintOK
<1>9. Kept(p, None)
  BY <1>6, NonePending DEF Kept
<1>10. Sliced(m, op)
  BY <1>1, <1>4, <1>6, <1>7, <1>8, <1>9 DEF Sliced, p
<1>11. QED
  BY <1>10 DEF op

LEMMA MaintainIs ==
  ASSUME NEW m, Initialised(m), NEW mt, MaintOK(mt), Kept(m, mt.flip)
  PROVE  Sliced(m, MaintainOp(m, mt))
<1>0. Sound(m) /\ FlipOK(m, mt.flip) /\ Budget \in Nat /\ m \in Memory
  BY KvConstants DEF Kept, Sound, Typed
<1>1. CASE Fresh(m, mt.flip)
  <2>1. Pending(m, mt.flip)
    BY <1>0, <1>1 DEF FlipOK
  <2>2. MaintainOp(m, mt) = DriveFlip(m, mt)
    BY <1>1 DEF MaintainOp
  <2>3. QED
    BY <1>0, <2>1, <2>2, DriveIs
<1>2. CASE ~Fresh(m, mt.flip) /\ FlipDue(m)
  <2> DEFINE op == MaintainOp(m, mt)
             st == FlipStart(m)
  <2>1. op.ws = <<>> /\ op.maint = [mt EXCEPT !.flip = st]
    BY <1>2 DEF MaintainOp
  <2> HIDE DEF op, st
  <2>2. op.maint.flip = st /\ op.maint.cursor = mt.cursor
        /\ op.maint = [cursor |-> mt.cursor, flip |-> st]
    BY <2>1 DEF MaintOK
  <2>3. MaintOK(op.maint)
    BY <2>2 DEF MaintOK
  <2>4. Pending(m, st)
    BY <1>0, StartPending DEF st
  <2>5. Kept(m, st)
    BY <1>0, <2>4 DEF Kept, FlipOK
  <2>6. Program(m, <<>>) = m /\ Torn(m, <<>>) = {} /\ <<>> \in Seq(Writes)
    BY <1>0, ProgramNothing, TornNothing
  <2>7. Sliced(m, op)
    BY <2>1, <2>2, <2>3, <2>5, <2>6 DEF Sliced, SameReads
  <2>8. QED
    BY <2>7 DEF op
<1>3. CASE ~Fresh(m, mt.flip) /\ ~FlipDue(m)
  <2> DEFINE off == IF mt.cursor.gen = ActiveGen(m) THEN mt.cursor.off ELSE 0
  <2>1. off \in 0..Half
    BY Bases DEF MaintOK
  <2>2. MaintainOp(m, mt) = BlankFrom(m, off)
    BY <1>3 DEF MaintainOp, BlankDead
  <2> HIDE DEF off
  <2>3. QED
    BY <1>0, <2>1, <2>2, BlankIs
<1>4. QED
  BY <1>1, <1>2, <1>3

(* The blanking may believe its cursor: below it, the dead half of that    *)
(* generation is blank, unless a flip is filling it.                       *)
CursorTrue(m, st, c) ==
  /\ c.gen \in Nat /\ c.gen <= ActiveGen(m)
  /\ c.gen = ActiveGen(m) /\ Initialised(m) /\ ~Fresh(m, st) =>
       \A o \in 0..c.off - 1 : m[Base(1 - ActiveHalf(m)) + o] = Blank

LEMMA CursorFollows ==
  ASSUME NEW m, Typed(m), NEW st, NEW c, c.off \in 0..Half, CursorTrue(m, st, c),
         NEW m2, Typed(m2), NEW st2, Follows(m, st, m2, st2)
  PROVE  CursorTrue(m2, st2, c)
<1>1. /\ ActiveGen(m) \in Nat /\ ActiveGen(m2) \in Nat /\ Half \in Nat
      /\ c.gen \in Nat /\ c.gen <= ActiveGen(m)
  BY Actives, Bases DEF CursorTrue
<1>2. CASE ActiveGen(m2) > ActiveGen(m)
  BY <1>1, <1>2 DEF CursorTrue
<1>3. CASE ~(ActiveGen(m2) > ActiveGen(m))
  <2>1. /\ st2 = st /\ ActiveHalf(m2) = ActiveHalf(m) /\ ActiveGen(m2) = ActiveGen(m)
        /\ SameHalf(m, m2, 1 - ActiveHalf(m))
    BY <1>3 DEF Follows
  <2>2. /\ Initialised(m2) <=> Initialised(m)
        /\ Fresh(m2, st2) <=> Fresh(m, st)
    BY <2>1, Actives DEF Fresh
  <2>3. \A o \in 0..c.off - 1 : o \in Offsets
    BY <1>1 DEF Offsets
  <2>4. \A o \in 0..c.off - 1 :
          m2[Base(1 - ActiveHalf(m2)) + o] = m[Base(1 - ActiveHalf(m)) + o]
    BY <2>1, <2>3 DEF SameHalf
  <2>5. QED
    BY <1>1, <2>1, <2>2, <2>4 DEF CursorTrue
<1>4. QED
  BY <1>2, <1>3

(* A slice of blanking leaves everything below its reach blank.            *)
LEMMA BlankCursor ==
  ASSUME NEW m, Sound(m), Initialised(m), NEW c, c.off \in 0..Half,
         CursorTrue(m, None, c), Budget \in Nat
  PROVE  LET op == BlankDead(m, c)
             p  == Program(m, op.ws)
         IN  /\ CursorTrue(p, op.maint.flip, op.maint.cursor)
             /\ ~op.more => \A o \in Offsets : p[Base(1 - ActiveHalf(p)) + o] = Blank
<1> DEFINE off   == IF c.gen = ActiveGen(m) THEN c.off ELSE 0
           d     == 1 - ActiveHalf(m)
           dirty == Dirty(m, d, off)
           b     == Min2(Budget, Len(dirty))
           reach == BlankReach(dirty, b)
           ws    == BlankWrites(d, SubSeq(dirty, 1, b))
           op    == BlankDead(m, c)
           p     == Program(m, ws)
<1>0. m \in Memory /\ Typed(m) /\ d \in Halves /\ Half \in Nat
  BY Actives, Bases DEF Sound, Typed
<1>1. /\ op.ws = ws /\ op.more = (reach < Half) /\ op.maint.flip = None
      /\ op.maint.cursor.gen = ActiveGen(m) /\ op.maint.cursor.off = reach
  BY DEF BlankDead, BlankFrom
<1>2. off \in 0..Half
  BY <1>0
<1>3. \A o \in 0..off - 1 : m[Base(d) + o] = Blank
  <2>1. ~Fresh(m, None)
    BY DEF Fresh
  <2>2. CASE c.gen = ActiveGen(m)
    BY <2>1, <2>2 DEF CursorTrue
  <2>3. CASE c.gen # ActiveGen(m)
    BY <2>3
  <2>4. QED
    BY <2>2, <2>3
<1> HIDE DEF off, d
<1>4. b \in 0..Len(dirty)
  <2>1. dirty \in Seq(Offsets)
    BY <1>0, <1>2, DirtyIs DEF IsDirty
  <2> HIDE DEF dirty
  <2>2. Len(dirty) \in Nat
    BY <2>1
  <2>3. QED
    BY <2>2 DEF Min2
<1>5. /\ DeadWrites(ws, d) /\ reach \in off..Half
      /\ \A o \in off..reach - 1 : p[Base(d) + o] = Blank
      /\ \A o \in Offsets : p[Base(d) + o] \in {Blank, m[Base(d) + o]}
  <2>1. b \in 0..Len(Dirty(m, d, off))
    BY <1>4
  <2> HIDE DEF b
  <2>2. /\ SubSeq(dirty, 1, b) \in Seq(Offsets) /\ reach \in off..Half
        /\ \A o \in off..reach - 1 : p[Base(d) + o] = Blank
        /\ \A o \in Offsets : p[Base(d) + o] \in {Blank, m[Base(d) + o]}
    BY <1>0, <1>2, <2>1, BlankStep
  <2>3. DeadWrites(ws, d)
    <3> HIDE DEF dirty
    <3>1. QED
      BY <1>0, <2>2, BlankWritesDead
  <2>4. QED
    BY <2>2, <2>3
<1> HIDE DEF op, p, ws, reach, b, dirty
<1>6. Steady(m, p)
  <2>1. Touched(m, ws, p)
    BY <1>0, <1>5, ProgramTouches DEF DeadWrites, p
  <2>2. QED
    BY <1>0, <1>5, <2>1, DeadIsSteady DEF d
<1>7. ActiveHalf(p) = ActiveHalf(m) /\ ActiveGen(p) = ActiveGen(m) /\ ActiveGen(p) \in Nat
  BY <1>0, <1>6, SteadyKeeps, Actives
<1>8. ASSUME NEW o \in 0..reach - 1 PROVE p[Base(1 - ActiveHalf(p)) + o] = Blank
  <2>1. p[Base(d) + o] = Blank
    <3>1. CASE o < off
      <4>1. o \in 0..off - 1 /\ o \in Offsets
        BY <1>0, <1>2, <1>5, <3>1 DEF Offsets
      <4>2. QED
        BY <1>3, <1>5, <4>1
    <3>2. CASE ~(o < off)
      <4>1. o \in off..reach - 1
        BY <1>0, <1>2, <1>5, <3>2
      <4>2. QED
        BY <1>5, <4>1
    <3>3. QED
      BY <3>1, <3>2
  <2>2. QED
    BY <1>7, <2>1 DEF d
<1>9. CursorTrue(p, op.maint.flip, op.maint.cursor)
  BY <1>1, <1>7, <1>8 DEF CursorTrue
<1>10. ~op.more => \A o \in Offsets : p[Base(1 - ActiveHalf(p)) + o] = Blank
  <2>1. ~(reach < Half) => reach = Half
    BY <1>0, <1>2, <1>5
  <2>2. ~op.more => ~(reach < Half)
    BY <1>1, Zenon
  <2>3. QED
    BY <1>8, <2>1, <2>2 DEF Offsets
<1>11. QED
  BY <1>1, <1>9, <1>10 DEF op, p

(* A slice leaves the cursor true, and says that it is done only when the  *)
(* half that is not active is blank.                                       *)
LEMMA MaintainCursor ==
  ASSUME NEW m, Initialised(m), NEW mt, MaintOK(mt), Kept(m, mt.flip),
         CursorTrue(m, mt.flip, mt.cursor)
  PROVE  LET op == MaintainOp(m, mt)
             p  == Program(m, op.ws)
         IN  /\ CursorTrue(p, op.maint.flip, op.maint.cursor)
             /\ ~op.more => \A o \in Offsets : p[Base(1 - ActiveHalf(p)) + o] = Blank
<1> DEFINE op == MaintainOp(m, mt)
           st == mt.flip
           c  == mt.cursor
<1>0. /\ Sound(m) /\ FlipOK(m, st) /\ Budget \in Nat /\ m \in Memory /\ c.off \in 0..Half
      /\ ActiveGen(m) \in Nat /\ c.gen \in Nat /\ c.gen <= ActiveGen(m)
  BY KvConstants, Actives DEF Kept, Sound, Typed, MaintOK, CursorTrue
<1>1. CASE Fresh(m, st)
  <2> DEFINE f == FlipStep(m, st, Budget)
  <2>1. Pending(m, st) /\ op = DriveFlip(m, mt)
    BY <1>0, <1>1 DEF FlipOK, MaintainOp
  <2>2. op.more = TRUE
    BY <2>1 DEF DriveFlip
  <2>3. CASE f.more
    <3>1. op.ws = f.ws /\ op.maint = [mt EXCEPT !.flip = f.st]
      BY <2>1, <2>3 DEF DriveFlip
    <3> DEFINE p == Program(m, f.ws)
    <3>2. Stepped(m, st, f, p, Budget)
      BY <1>0, <2>1, FlipStepIs
    <3> HIDE DEF f, p, op
    <3>3. Steady(m, p) /\ Fresh(p, f.st) /\ op.maint.flip = f.st /\ op.maint.cursor = c
      BY <3>1, <3>2 DEF Stepped, Pending, MaintOK
    <3>4. ActiveGen(p) = ActiveGen(m)
      BY <1>0, <3>3, SteadyKeeps
    <3>5. CursorTrue(p, op.maint.flip, op.maint.cursor)
      BY <1>0, <3>3, <3>4 DEF CursorTrue
    <3>6. QED
      BY <2>2, <3>1, <3>5 DEF op, p
  <2>4. CASE ~f.more
    <3>1. op.ws = FlipCommit(m, st) /\ op.maint = [mt EXCEPT !.flip = None]
      BY <2>1, <2>4 DEF DriveFlip
    <3> DEFINE p == Program(m, FlipCommit(m, st))
    <3>2. Flipped(m, p)
      BY <1>0, <2>1, FlipCommitIs
    <3> HIDE DEF f, p, op
    <3>3. op.maint.flip = None /\ op.maint.cursor = c
      BY <3>1 DEF MaintOK
    <3>4. ActiveGen(p) = ActiveGen(m) + 1
      BY <3>2 DEF Flipped
    <3>5. CursorTrue(p, op.maint.flip, op.maint.cursor)
      BY <1>0, <3>3, <3>4 DEF CursorTrue
    <3>6. QED
      BY <2>2, <3>1, <3>5 DEF op, p
  <2>5. QED
    BY <2>3, <2>4
<1>2. CASE ~Fresh(m, st) /\ FlipDue(m)
  <2>1. op.ws = <<>> /\ op.maint = [mt EXCEPT !.flip = FlipStart(m)] /\ op.more = TRUE
    BY <1>2 DEF MaintainOp
  <2>2. Fresh(m, FlipStart(m)) /\ Program(m, <<>>) = m
    BY <1>0, StartPending, ProgramNothing DEF Pending
  <2> HIDE DEF op
  <2>3. op.maint.flip = FlipStart(m) /\ op.maint.cursor = c
    BY <2>1 DEF MaintOK
  <2>4. CursorTrue(m, op.maint.flip, op.maint.cursor)
    BY <1>0, <2>2, <2>3 DEF CursorTrue
  <2>5. QED
    BY <2>1, <2>2, <2>4 DEF op
<1>3. CASE ~Fresh(m, st) /\ ~FlipDue(m)
  <2>1. op = BlankDead(m, c)
    BY <1>3 DEF MaintainOp
  <2>2. CursorTrue(m, None, c)
    BY <1>3 DEF CursorTrue
  <2> HIDE DEF op, c
  <2>3. QED
    BY <1>0, <2>1, <2>2, BlankCursor DEF op
<1>4. QED
  BY <1>1, <1>2, <1>3

(* The factory reset. *)
LEMMA Erases ==
  ASSUME NEW m \in Memory, NEW ws \in Seq(Writes), \A i \in 1..Len(ws) : ws[i].word = Blank,
         NEW i \in 1..Len(ws)
  PROVE  Program(m, ws)[ws[i].addr] = Blank
<1> DEFINE S == {n \in 0..Len(ws) : n >= i => Programmed(m, ws, n)[ws[i].addr] = Blank}
<1>1. Len(ws) \in Nat /\ i \in Nat /\ i > 0 /\ i <= Len(ws)
  OBVIOUS
<1>2. 0 \in S
  BY <1>1
<1>3. ASSUME NEW n \in 0..Len(ws) - 1, n \in S PROVE n + 1 \in S
  <2>1. n + 1 \in 0..Len(ws) /\ n \in 0..Len(ws) /\ n \in Nat /\ n < Len(ws) /\ n + 1 \in 1..Len(ws)
    BY <1>1
  <2> DEFINE p == Programmed(m, ws, n)
             q == Programmed(m, ws, n + 1)
  <2>2. p \in Memory
    BY <2>1, ProgrammedStep
  <2>3. q = [p EXCEPT ![ws[n + 1].addr] = ws[n + 1].word]
    BY <2>1, ProgrammedNext
  <2>4. n >= i => p[ws[i].addr] = Blank
    BY <1>3
  <2>5. ws[n + 1].word = Blank /\ ws[n + 1].addr \in Region /\ ws[i].addr \in Region
    <3>1. ws[n + 1] \in Writes /\ ws[i] \in Writes
      BY <2>1
    <3>2. ws[n + 1].word = Blank
      BY <2>1
    <3>3. QED
      BY <3>1, <3>2 DEF Writes
  <2> HIDE DEF p, q
  <2>6. n + 1 >= i => q[ws[i].addr] = Blank
    <3>1. CASE n >= i
      BY <2>2, <2>3, <2>4, <2>5, <3>1 DEF Memory
    <3>2. CASE n + 1 = i
      BY <2>2, <2>3, <2>5, <3>2 DEF Memory
    <3>3. QED
      BY <1>1, <2>1, <3>1, <3>2
  <2>7. QED
    BY <2>1, <2>6 DEF q
<1>4. Len(ws) \in S
  <2> HIDE DEF S
  <2>1. 0..Len(ws) \subseteq S
    BY <1>1, <1>2, <1>3, InductTo
  <2>2. QED
    BY <1>1, <2>1
<1>5. QED
  BY <1>1, <1>4 DEF Program

(* Everything is blank. *)
LEMMA WipeIs ==
  ASSUME NEW m, m = [a \in Region |-> Blank]
  PROVE  Sound(m) /\ ~Initialised(m) /\ \A k : Get(m, k) = Absent
<1>1. m \in Memory /\ \A x \in Region : m[x] = Blank
  BY DEF Memory, Cell
<1>2. Typed(m) /\ Empty(m)
  BY <1>1, Addresses, WordsAreCells DEF Typed, Empty
<1>3. ~Initialised(m)
  <2>1. ASSUME NEW h \in Halves PROVE GenOf(m, h) = 0
    BY <1>1, Addresses DEF GenOf
  <2>2. QED
    BY <2>1 DEF Initialised
<1>4. QED
  BY <1>2, <1>3, EmptyReads DEF Sound

LEMMA WipeWritesAll ==
  /\ WipeWrites \in Seq(Writes)
  /\ \A i \in 1..Len(WipeWrites) : WipeWrites[i].word = Blank
  /\ \A x \in Region : \E i \in 1..Len(WipeWrites) : WipeWrites[i].addr = x
<1> DEFINE offs == [i \in 1..Half |-> i - 1]
           a == BlankWrites(0, offs)
           b == BlankWrites(1, offs)
           c == <<Write(SuperOff(0), Blank), Write(SuperOff(1), Blank)>>
<1>0. Half \in Nat /\ Half > 0 /\ 0 \in Halves /\ 1 \in Halves
  BY Bases DEF Halves
<1>1. offs \in Seq(Offsets) /\ Len(offs) = Half /\ \A i \in 1..Half : offs[i] = i - 1
  BY <1>0 DEF Offsets
<1>2. WipeWrites = (a \o b) \o c
  BY DEF WipeWrites
<1> HIDE DEF offs
<1>3. /\ a \in Seq(Writes) /\ Len(a) = Half
      /\ \A i \in 1..Half : a[i].addr = Base(0) + offs[i] /\ a[i].word = Blank
  BY <1>0, <1>1, BlankWritesAre
<1>4. /\ b \in Seq(Writes) /\ Len(b) = Half
      /\ \A i \in 1..Half : b[i].addr = Base(1) + offs[i] /\ b[i].word = Blank
  BY <1>0, <1>1, BlankWritesAre
<1>5. /\ c \in Seq(Writes) /\ Len(c) = 2
      /\ c[1].addr = 2 * Half /\ c[2].addr = 2 * Half + 1 /\ c[1].word = Blank /\ c[2].word = Blank
  <2>1. Write(SuperOff(0), Blank) \in Writes /\ Write(SuperOff(1), Blank) \in Writes
    BY <1>0, Addresses DEF Write, Writes, Cell
  <2>2. QED
    BY <2>1, Bases DEF Write
<1> DEFINE ab == a \o b
           ws == ab \o c
<1> HIDE DEF a, b, c
<1>6. /\ ab \in Seq(Writes) /\ Len(ab) = Half + Half
      /\ \A i \in 1..Half : ab[i] = a[i]
      /\ \A i \in 1..Half : ab[Half + i] = b[i]
  <2>1. /\ a \o b \in Seq(Writes) /\ Len(a \o b) = Len(a) + Len(b)
        /\ \A i \in 1..Len(a) : (a \o b)[i] = a[i]
        /\ \A i \in 1..Len(b) : (a \o b)[Len(a) + i] = b[i]
    <3>1. a \in Seq(Writes) /\ b \in Seq(Writes)
      BY <1>3, <1>4
    <3>2. QED
      BY ONLY <3>1, ConcatProps
  <2>2. QED
    BY <1>3, <1>4, <2>1
<1> HIDE DEF ab
<1>7. /\ ws \in Seq(Writes) /\ Len(ws) = 2 * Half + 2
      /\ \A i \in 1..2 * Half : ws[i] = ab[i]
      /\ \A i \in 1..2 : ws[2 * Half + i] = c[i]
  <2>1. Len(ab) = 2 * Half
    BY <1>0, <1>6
  <2>2. /\ ab \o c \in Seq(Writes) /\ Len(ab \o c) = Len(ab) + Len(c)
        /\ \A i \in 1..Len(ab) : (ab \o c)[i] = ab[i]
        /\ \A i \in 1..Len(c) : (ab \o c)[Len(ab) + i] = c[i]
    <3>1. ab \in Seq(Writes) /\ c \in Seq(Writes)
      BY <1>5, <1>6
    <3>2. QED
      BY ONLY <3>1, ConcatProps
  <2>3. QED
    BY <1>5, <2>1, <2>2
<1> HIDE DEF ws
<1>8. \A i \in 1..Half : ws[i].addr = i - 1 /\ ws[i].word = Blank
  <2>1. ASSUME NEW i \in 1..Half PROVE ws[i].addr = i - 1 /\ ws[i].word = Blank
    <3>1. i \in 1..2 * Half
      BY <1>0
    <3>2. ws[i] = a[i]
      BY <1>6, <1>7, <3>1
    <3>3. QED
      BY <1>1, <1>3, <3>2, Bases
  <2>2. QED
    BY <2>1
<1>9. \A i \in 1..Half : ws[Half + i].addr = Half + (i - 1) /\ ws[Half + i].word = Blank
  <2>1. ASSUME NEW i \in 1..Half
        PROVE  ws[Half + i].addr = Half + (i - 1) /\ ws[Half + i].word = Blank
    <3>1. Half + i \in 1..2 * Half
      BY <1>0
    <3>2. ws[Half + i] = b[i]
      BY <1>6, <1>7, <3>1
    <3>3. QED
      BY <1>1, <1>4, <3>2, Bases
  <2>2. QED
    BY <2>1
<1>10. /\ ws[2 * Half + 1].addr = 2 * Half /\ ws[2 * Half + 1].word = Blank
       /\ ws[2 * Half + 2].addr = 2 * Half + 1 /\ ws[2 * Half + 2].word = Blank
  BY <1>5, <1>7
<1>11. ASSUME NEW i \in 1..Len(ws) PROVE ws[i].word = Blank
  <2>1. \/ i \in 1..Half
        \/ i - Half \in 1..Half /\ Half + (i - Half) = i
        \/ i = 2 * Half + 1 \/ i = 2 * Half + 2
    BY <1>0, <1>7
  <2>2. QED
    BY <1>8, <1>9, <1>10, <2>1
<1>12. ASSUME NEW x \in Region PROVE \E i \in 1..Len(ws) : ws[i].addr = x
  <2>1. CASE x < Half
    <3>1. x + 1 \in 1..Half /\ (x + 1) - 1 = x /\ x + 1 \in 1..Len(ws)
      BY <1>0, <1>7, <2>1 DEF Region
    <3>2. QED
      BY <1>8, <3>1
  <2>2. CASE x >= Half /\ x < 2 * Half
    <3>1. (x - Half) + 1 \in 1..Half /\ Half + (((x - Half) + 1) - 1) = x
          /\ Half + ((x - Half) + 1) \in 1..Len(ws)
      BY <1>0, <1>7, <2>2 DEF Region
    <3>2. QED
      BY <1>9, <3>1
  <2>3. CASE x = 2 * Half \/ x = 2 * Half + 1
    <3>1. 2 * Half + 1 \in 1..Len(ws) /\ 2 * Half + 2 \in 1..Len(ws)
      BY <1>0, <1>7
    <3>2. QED
      BY <1>10, <2>3, <3>1
  <2>4. QED
    BY <1>0, <2>1, <2>2, <2>3 DEF Region
<1>13. WipeWrites = ws
  BY <1>2 DEF ws, ab
<1>14. QED
  BY <1>7, <1>11, <1>12, <1>13

LEMMA WipeBlanks ==
  ASSUME NEW m \in Memory
  PROVE  Program(m, WipeWrites) = [a \in Region |-> Blank]
<1>1. Program(m, WipeWrites) \in Memory
  BY WipeWritesAll, ProgramInMemory
<1>2. ASSUME NEW x \in Region PROVE Program(m, WipeWrites)[x] = Blank
  <2>1. PICK i \in 1..Len(WipeWrites) : WipeWrites[i].addr = x
    BY WipeWritesAll
  <2>2. Program(m, WipeWrites)[WipeWrites[i].addr] = Blank
    BY WipeWritesAll, Erases
  <2>3. QED
    BY <2>1, <2>2
<1>3. QED
  BY <1>1, <1>2 DEF Memory

-----------------------------------------------------------------------------
(* The invariant.                                                          *)

(* The memory is sound, a pending flip is what it was planned to be, the   *)
(* cursor of the blanking can be believed, and the keys read what the      *)
(* memory holds.                                                           *)
IInv ==
  /\ Kept(nvm, maint.flip)
  /\ MaintOK(maint)
  /\ CursorTrue(nvm, maint.flip, maint.cursor)
  /\ reads = [k \in Keys |-> Get(nvm, k)]

LEMMA ReadsSame ==
  ASSUME NEW m, NEW m2, SameReads(m, m2)
  PROVE  [k \in Keys |-> Get(m2, k)] = [k \in Keys |-> Get(m, k)]
  BY DEF SameReads

LEMMA ReadsUpdated ==
  ASSUME NEW m, NEW m2, NEW k \in Keys, NEW v, Updated(m, k, v, m2)
  PROVE  [q \in Keys |-> Get(m2, q)] = [[q \in Keys |-> Get(m, q)] EXCEPT ![k] = v]
  BY DEF Updated

LEMMA FreshMaintOK == MaintOK(FreshMaint) /\ FreshMaint.flip = None
<1>1. 0 \in 0..Half
  BY Bases
<1>2. QED
  BY <1>1 DEF MaintOK, FreshMaint

LEMMA FreshCursor ==
  ASSUME NEW m, Typed(m)
  PROVE  CursorTrue(m, FreshMaint.flip, FreshMaint.cursor)
<1>1. FreshMaint.cursor.gen = 0 /\ FreshMaint.cursor.off = 0
  BY DEF FreshMaint
<1>2. ActiveGen(m) \in Nat
  BY Actives
<1>3. QED
  BY <1>1, <1>2 DEF CursorTrue

LEMMA InitIInv == Init => IInv
<1> SUFFICES ASSUME Init PROVE IInv
  OBVIOUS
<1>1. Sound(nvm) /\ ~Initialised(nvm) /\ \A k : Get(nvm, k) = Absent
  BY WipeIs DEF Init
<1>2. reads = [k \in Keys |-> Get(nvm, k)]
  BY <1>1 DEF Init
<1>3. maint = FreshMaint
  BY DEF Init
<1>4. MaintOK(maint) /\ maint.flip = None
  BY <1>3, FreshMaintOK
<1>5. CursorTrue(nvm, maint.flip, maint.cursor)
  BY <1>1, <1>3, FreshCursor DEF Sound
<1>6. QED
  BY <1>1, <1>2, <1>4, <1>5, NonePending DEF IInv, Kept

(* Every step keeps the invariant, and is a step of the map. *)
LEMMA StepPut ==
  ASSUME IInv, NEW k \in Keys, NEW v \in Data, Put(k, v)
  PROVE  IInv' /\ (Store!Put(k, v) \/ Store!Reject(k, v))
<1> DEFINE r == PutOp(k, v)
           p == Program(nvm, r.ws)
<1>1. Outcome(nvm, maint.flip, k, v, r)
  BY PutIs DEF IInv
<1>2. /\ nvm' = p /\ reads' = [q \in Keys |-> Get(p, q)]
      /\ maint' = [maint EXCEPT !.flip = r.flip]
      /\ last' = [key |-> k, val |-> v, out |-> r.out]
  BY DEF Put, Becomes
<1> HIDE DEF r
<1>3. Kept(p, r.flip)
  BY <1>1 DEF Outcome
<1>4. maint'.flip = r.flip /\ maint'.cursor = maint.cursor
      /\ maint' = [cursor |-> maint.cursor, flip |-> r.flip]
  BY <1>2 DEF IInv, MaintOK
<1>5. MaintOK(maint') /\ CursorTrue(p, r.flip, maint.cursor)
  <2>1. Typed(nvm) /\ Typed(p) /\ Follows(nvm, maint.flip, p, r.flip)
    BY <1>1, <1>3 DEF Outcome, Kept, Sound, IInv
  <2>2. maint.cursor.off \in 0..Half /\ CursorTrue(nvm, maint.flip, maint.cursor)
    BY DEF IInv, MaintOK
  <2> HIDE DEF p
  <2>3. CursorTrue(p, r.flip, maint.cursor)
    BY <2>1, <2>2, CursorFollows
  <2>4. QED
    BY <1>4, <2>2, <2>3 DEF MaintOK
<1>6. (r.out = "ok" /\ Updated(nvm, k, v, p)) \/ (r.out = "full" /\ SameReads(nvm, p))
  BY <1>1 DEF Outcome
<1> HIDE DEF p
<1>7. IInv'
  BY <1>2, <1>3, <1>4, <1>5 DEF IInv
<1>8. reads = [q \in Keys |-> Get(nvm, q)]
  BY DEF IInv
<1>9. CASE r.out = "ok" /\ Updated(nvm, k, v, p)
  <2>1. reads' = [reads EXCEPT ![k] = v]
    BY <1>2, <1>8, <1>9, ReadsUpdated
  <2>2. QED
    BY <1>2, <1>7, <1>9, <2>1 DEF Store!Put
<1>10. CASE r.out = "full" /\ SameReads(nvm, p)
  <2>1. reads' = reads
    BY <1>2, <1>8, <1>10, ReadsSame
  <2>2. QED
    BY <1>2, <1>7, <1>10, <2>1 DEF Store!Reject
<1>11. QED
  BY <1>6, <1>9, <1>10

LEMMA Rebooted ==
  ASSUME NEW m, Sound(m), nvm' = m, reads' = [q \in Keys |-> Get(m, q)], maint' = FreshMaint
  PROVE  IInv'
<1>1. MaintOK(maint') /\ maint'.flip = None
  BY FreshMaintOK
<1>2. Kept(nvm', None)
  BY NonePending DEF Kept
<1>3. CursorTrue(nvm', maint'.flip, maint'.cursor)
  BY FreshCursor DEF Sound
<1>4. QED
  BY <1>1, <1>2, <1>3 DEF IInv

LEMMA StepTearPut ==
  ASSUME IInv, NEW k \in Keys, NEW v \in Data, TearPut(k, v)
  PROVE  IInv' /\ Store!Tear(k, v)
<1> DEFINE r == PutOp(k, v)
<1>1. Outcome(nvm, maint.flip, k, v, r)
  BY PutIs DEF IInv
<1>2. PICK m \in Torn(nvm, r.ws) : nvm' = m /\ reads' = [q \in Keys |-> Get(m, q)]
  BY DEF TearPut, Becomes
<1>3. maint' = FreshMaint /\ last' = [key |-> k, val |-> v, out |-> "torn"]
  BY DEF TearPut
<1> HIDE DEF r
<1>4. Sound(m) /\ (SameReads(nvm, m) \/ Updated(nvm, k, v, m))
  BY <1>1, <1>2 DEF Outcome
<1>5. IInv'
  BY <1>2, <1>3, <1>4, Rebooted
<1>6. reads = [q \in Keys |-> Get(nvm, q)]
  BY DEF IInv
<1>7. reads' \in {reads, [reads EXCEPT ![k] = v]}
  <2>1. CASE SameReads(nvm, m)
    BY <1>2, <1>6, <2>1, ReadsSame
  <2>2. CASE Updated(nvm, k, v, m)
    BY <1>2, <1>6, <2>2, ReadsUpdated
  <2>3. QED
    BY <1>4, <2>1, <2>2
<1>8. QED
  BY <1>3, <1>5, <1>7 DEF Store!Tear

LEMMA StepCompact ==
  ASSUME IInv, Compact
  PROVE  IInv' /\ Store!Internal
<1> DEFINE p == Program(nvm, Compaction(nvm, maint.flip))
<1>1. /\ Initialised(nvm) /\ nvm' = p /\ reads' = [q \in Keys |-> Get(p, q)]
      /\ maint' = [maint EXCEPT !.flip = None] /\ last' = Idle
  BY DEF Compact, Becomes
<1>2. Flipped(nvm, p)
  BY <1>1, CompactionIs DEF IInv, Kept
<1> HIDE DEF p
<1>3. maint'.flip = None /\ maint' = [cursor |-> maint.cursor, flip |-> None]
  BY <1>1 DEF IInv, MaintOK
<1>4. MaintOK(maint')
  BY <1>3 DEF IInv, MaintOK
<1>5. Kept(p, None) /\ SameReads(nvm, p) /\ CursorTrue(p, None, maint.cursor)
  <2>1. ActiveGen(nvm) \in Nat /\ ActiveGen(p) = ActiveGen(nvm) + 1
    BY <1>2, Actives DEF Flipped, IInv, Kept, Sound
  <2>2. CursorTrue(p, None, maint.cursor)
    BY <2>1 DEF IInv, CursorTrue
  <2>3. QED
    BY <1>2, <2>2, NonePending DEF Kept, Flipped, SameReads
<1>6. IInv'
  BY <1>1, <1>3, <1>4, <1>5 DEF IInv
<1>7. reads' = reads
  BY <1>1, <1>5, ReadsSame DEF IInv
<1>8. QED
  BY <1>1, <1>6, <1>7 DEF Store!Internal, Store!Idle, Idle

LEMMA StepMaintain ==
  ASSUME IInv, Maintain
  PROVE  IInv' /\ Store!Internal
<1> DEFINE op == MaintainOp(nvm, maint)
           p == Program(nvm, op.ws)
<1>1. /\ Initialised(nvm) /\ nvm' = p /\ reads' = [q \in Keys |-> Get(p, q)]
      /\ maint' = op.maint /\ last' = Idle
  BY DEF Maintain, Becomes
<1>2. Sliced(nvm, op) /\ CursorTrue(p, op.maint.flip, op.maint.cursor)
  BY <1>1, MaintainIs, MaintainCursor DEF IInv
<1> HIDE DEF op
<1>3. /\ Kept(p, op.maint.flip) /\ MaintOK(op.maint) /\ SameReads(nvm, p)
      /\ CursorTrue(p, op.maint.flip, op.maint.cursor)
  BY <1>2 DEF Sliced
<1> HIDE DEF p
<1>4. IInv'
  BY <1>1, <1>3 DEF IInv
<1>5. reads' = reads
  BY <1>1, <1>3, ReadsSame DEF IInv
<1>6. QED
  BY <1>1, <1>4, <1>5 DEF Store!Internal, Store!Idle, Idle

LEMMA StepOpen ==
  ASSUME IInv, Open
  PROVE  IInv' /\ Store!Internal
<1> DEFINE p == Program(nvm, OpenWrites(nvm))
<1>1. /\ nvm' = p /\ reads' = [q \in Keys |-> Get(p, q)] /\ maint' = FreshMaint /\ last' = Idle
  BY DEF Open, Becomes
<1>2. Sound(p) /\ SameReads(nvm, p)
  BY OpenOp DEF IInv, Kept, SameReads
<1> HIDE DEF p
<1>3. IInv'
  BY <1>1, <1>2, Rebooted
<1>4. reads' = reads
  BY <1>1, <1>2, ReadsSame DEF IInv
<1>5. QED
  BY <1>1, <1>3, <1>4 DEF Store!Internal, Store!Idle, Idle

LEMMA StepPowerLoss ==
  ASSUME IInv, PowerLoss
  PROVE  IInv' /\ Store!Internal
<1>1. PICK m \in {nvm} \cup Torn(nvm, OpenWrites(nvm))
                   \cup (IF Initialised(nvm)
                           THEN Torn(nvm, Compaction(nvm, maint.flip))
                                  \cup Torn(nvm, MaintainOp(nvm, maint).ws)
                           ELSE {}) :
        nvm' = m /\ reads' = [q \in Keys |-> Get(m, q)]
  BY DEF PowerLoss, Becomes
<1>2. maint' = FreshMaint /\ last' = Idle
  BY DEF PowerLoss
<1>3. Sound(nvm)
  BY DEF IInv, Kept
<1>4. Sound(m) /\ SameReads(nvm, m)
  <2>1. CASE m = nvm
    BY <1>3, <2>1 DEF SameReads
  <2>2. CASE m \in Torn(nvm, OpenWrites(nvm))
    BY <1>3, <2>2, OpenOp DEF SameReads
  <2>3. CASE Initialised(nvm) /\ m \in Torn(nvm, Compaction(nvm, maint.flip))
    <3>1. Steady(nvm, m)
      BY <1>3, <2>3, CompactionIs DEF IInv, Kept
    <3>2. QED
      BY <1>3, <2>3, <3>1, SteadyReads
  <2>4. CASE Initialised(nvm) /\ m \in Torn(nvm, MaintainOp(nvm, maint).ws)
    <3>1. Sliced(nvm, MaintainOp(nvm, maint))
      BY <2>4, MaintainIs DEF IInv
    <3>2. QED
      BY <2>4, <3>1 DEF Sliced
  <2>5. QED
    BY <1>1, <2>1, <2>2, <2>3, <2>4
<1>5. IInv'
  BY <1>1, <1>2, <1>4, Rebooted
<1>6. reads' = reads
  BY <1>1, <1>4, ReadsSame DEF IInv
<1>7. QED
  BY <1>2, <1>5, <1>6 DEF Store!Internal, Store!Idle, Idle

LEMMA StepWipe ==
  ASSUME ~TornWipe, IInv, Wipe
  PROVE  IInv' /\ Store!Wipe
<1> DEFINE p == Program(nvm, WipeWrites)
<1>1. /\ nvm' = p /\ reads' = [q \in Keys |-> Get(p, q)] /\ maint' = FreshMaint
      /\ last' = [Idle EXCEPT !.out = "wiped"]
  BY DEF Wipe, Becomes
<1>2. nvm \in Memory
  BY DEF IInv, Kept, Sound, Typed
<1>3. Sound(p) /\ \A q : Get(p, q) = Absent
  BY <1>2, WipeBlanks, WipeIs
<1> HIDE DEF p
<1>4. IInv'
  BY <1>1, <1>3, Rebooted
<1>5. reads' = Store!Erased
  BY <1>1, <1>3 DEF Store!Erased
<1>6. QED
  BY <1>1, <1>4, <1>5 DEF Store!Wipe, Store!Idle, Idle

LEMMA StepIInv ==
  ASSUME ~TornWipe, IInv, [Next]_vars
  PROVE  IInv' /\ [Store!Next]_<<reads, last>>
<1>1. ASSUME NEW k \in Keys, NEW v \in Data, Put(k, v)
      PROVE  IInv' /\ Store!Next
  BY <1>1, StepPut DEF Store!Next, Data
<1>2. ASSUME NEW k \in Keys, NEW v \in Data, TearPut(k, v)
      PROVE  IInv' /\ Store!Next
  BY <1>2, StepTearPut DEF Store!Next, Data
<1>3. CASE Compact
  BY <1>3, StepCompact DEF Store!Next
<1>4. CASE Maintain
  BY <1>4, StepMaintain DEF Store!Next
<1>5. CASE Open
  BY <1>5, StepOpen DEF Store!Next
<1>6. CASE PowerLoss
  BY <1>6, StepPowerLoss DEF Store!Next
<1>7. CASE Wipe
  BY <1>7, StepWipe DEF Store!Next
<1>8. CASE UNCHANGED vars
  BY <1>8 DEF vars, IInv
<1>9. QED
  BY <1>1, <1>2, <1>3, <1>4, <1>5, <1>6, <1>7, <1>8 DEF Next

-----------------------------------------------------------------------------
(* The maintenance task runs out of work.                                  *)

(* A log without garbage: no tombstone, and no key twice. *)
Clean(l) == \A i \in 1..Len(l) : l[i].val # Absent /\ IsLatest(l, i)

(* A flip that nothing was appended behind leaves no garbage. *)
LEMMA FlipCleans ==
  ASSUME NEW m, Sound(m), Initialised(m), NEW st, Pending(m, st),
         st.end = LogEnd(Log(m, st.half)), NEW m2, Typed(m2), FlipPicks(m, st, m2)
  PROVE  Clean(Log(m2, ActiveHalf(m2)))
<1> DEFINE log == Log(m, ActiveHalf(m))
           e   == LogEnd(log)
           l   == Log(m2, ActiveHalf(m2))
           A   == PlanRecs(log, st.plan)
           B   == TailRecs(log, st.end)
<1>1. log \in Seq(Rec) /\ Chained(m, ActiveHalf(m), 0, log) /\ e = EndFrom(log, 0)
  BY Actives, LogFacts DEF Sound
<1>2. l \in Seq(Rec)
  BY Actives, LogFacts
<1>3. st.end = e /\ st.plan = LatestBefore(log, e)
  BY DEF Pending, Fresh
<1>4. PICK p : PicksBy(p, l, log, A \cup B, Len(log))
  BY DEF FlipPicks, Picks
<1> HIDE DEF log, l, e, A, B
<1>5. /\ \A i, j \in 1..Len(log) : i < j => log[i].off < log[j].off
      /\ \A i \in 1..Len(log) : log[i].off < e /\ log[i].off \in Nat
  <2>1. /\ \A i, j \in 1..Len(log) : i < j => log[i].off < log[j].off
        /\ \A i \in 1..Len(log) : log[i].off < e
    BY <1>1, Actives, ChainAscends DEF Sound
  <2>2. \A i \in 1..Len(log) : log[i].off \in Nat
    BY <1>1, RecordFields
  <2>3. QED
    BY <2>1, <2>2
<1>6. ASSUME NEW i \in 1..Len(l)
      PROVE  /\ p[i] \in 1..Len(log) /\ l[i].key = log[p[i]].key /\ l[i].val = log[p[i]].val
             /\ log[p[i]].val # Absent /\ IsLatestBefore(log, e, p[i])
  <2> DEFINE x == p[i]
  <2>1. x \in 1..Len(log) /\ log[x] \in A \cup B /\ l[i].key = log[x].key /\ l[i].val = log[x].val
    BY <1>4 DEF PicksBy
  <2> HIDE DEF x
  <2>2. log[x] \notin B
    <3>1. e \in Int /\ log[x].off < e /\ log[x].off \in Nat
      <4>1. e \in 0..Half /\ Half \in Nat
        BY Actives, LogFacts, Bases DEF Sound, e, log
      <4>2. QED
        BY <1>5, <2>1, <4>1
    <3>2. ~(log[x].off >= st.end)
      BY <1>3, <3>1
    <3>3. QED
      BY <1>1, <2>1, <3>2, SelectionIs DEF B
  <2>3. log[x].off \in st.plan /\ log[x].val # Absent
    BY <1>1, <2>1, <2>2, SelectionIs DEF A
  <2>4. PICK y \in 1..Len(log) : IsLatestBefore(log, e, y) /\ log[x].off = log[y].off
    BY <1>3, <2>3 DEF LatestBefore
  <2>5. x = y
    BY <1>5, <2>1, <2>4
  <2>6. QED
    BY <2>1, <2>3, <2>4, <2>5 DEF x
<1>7. ASSUME NEW i \in 1..Len(l), NEW j \in i + 1..Len(l) PROVE l[j].key # l[i].key
  <2>1. j \in 1..Len(l) /\ i < j
    BY <1>2
  <2>2. p[i] < p[j] /\ p[i] \in 1..Len(log) /\ p[j] \in 1..Len(log)
    BY <1>4, <1>6, <2>1 DEF PicksBy
  <2>3. p[j] \in p[i] + 1..Len(log)
    BY <2>2
  <2>4. log[p[j]].key # log[p[i]].key
    BY <1>5, <1>6, <2>2, <2>3 DEF IsLatestBefore
  <2>5. QED
    BY <1>6, <2>1, <2>4
<1>8. QED
  BY <1>6, <1>7 DEF Clean, IsLatest, l

(* Without garbage, no flip is due. *)
LEMMA CleanIsNotDue ==
  ASSUME NEW m, Typed(m), Clean(Log(m, ActiveHalf(m)))
  PROVE  LiveWords(m) = LogEnd(Log(m, ActiveHalf(m))) /\ ~FlipDue(m)
<1> DEFINE l == Log(m, ActiveHalf(m))
           A == PlanRecs(l, LatestOffsets(l))
<1>1. /\ l \in Seq(Rec) /\ LogEnd(l) \in 0..Half
      /\ \A i \in 1..Len(l) : l[i].off = IF i = 1 THEN 0 ELSE l[i - 1].off + Size(l[i - 1].val)
  BY Actives, LogFacts DEF Chained
<1>2. LiveWords(m) = Len(RecordsWords(l, A))
  BY DEF LiveWords, PackedWords, PlanRecs
<1>3. Clean(l)
  OBVIOUS
<1> HIDE DEF l
<1>4. ASSUME NEW i \in 1..Len(l) PROVE l[i] \in A
  <2>1. DOMAIN l = 1..Len(l)
    BY <1>1
  <2>2. l[i].off \in LatestOffsets(l) /\ l[i].val # Absent
    BY <1>3, <2>1 DEF Clean, LatestOffsets
  <2>3. QED
    BY <1>1, <2>2, SelectionIs
<1> HIDE DEF A
<1>5. LiveWords(m) = LogEnd(l)
  BY <1>1, <1>2, <1>4, PackedLength
<1>6. ~FlipDue(m)
  <2>1. FreeWords(m) = Half - LogEnd(l)
    BY DEF FreeWords, l
  <2>2. Threshold \in Nat /\ Half \in Nat
    BY KvConstants
  <2>3. QED
    BY <1>1, <1>5, <2>1, <2>2 DEF FlipDue
<1>7. QED
  BY <1>5, <1>6 DEF l

(* Division by a budget, as far as ranks need it. *)
LEMMA Slices ==
  ASSUME NEW a \in Nat, NEW b \in Nat, NEW B \in Nat \ {0}
  PROVE  /\ a \div B \in Nat
         /\ a <= b => a \div B <= b \div B
         /\ b + B <= a => b \div B < a \div B
<1> DEFINE q == a \div B
           p == b \div B
           r == a % B
           s == b % B
<1>1. q \in Nat /\ p \in Nat /\ r \in 0..B - 1 /\ s \in 0..B - 1
  OBVIOUS
<1>2. a = B * q + r /\ b = B * p + s
  OBVIOUS
<1> HIDE DEF q, p, r, s
<1>3. ASSUME NEW x \in Nat, NEW y \in Nat, x < y PROVE B * x + B <= B * y
  <2>1. PICK z \in Nat : y = x + 1 + z
    <3>1. y - x - 1 \in Nat /\ y = x + 1 + (y - x - 1)
      BY <1>3
    <3>2. QED
      BY <3>1
  <2>2. B * y = B * x + B + B * z /\ B * z >= 0
    BY <2>1
  <2>3. QED
    BY <2>2
<1>4. B * q \in Nat /\ B * p \in Nat
  BY <1>1
<1>5. ASSUME a <= b PROVE q <= p
  <2>1. SUFFICES ASSUME p < q PROVE FALSE
    BY <1>1
  <2>2. B * p + B <= B * q
    BY <1>1, <1>3, <2>1
  <2> DEFINE Bp == B * p
             Bq == B * q
  <2>3. Bp \in Nat /\ Bq \in Nat /\ Bp + B <= Bq /\ a = Bq + r /\ b = Bp + s
    BY <1>2, <1>4, <2>2
  <2> HIDE DEF Bp, Bq
  <2>4. QED
    BY <1>1, <1>5, <2>3
<1>6. ASSUME b + B <= a PROVE p < q
  <2>1. SUFFICES ASSUME q <= p PROVE FALSE
    BY <1>1
  <2> DEFINE Bp == B * p
             Bq == B * q
  <2>2. Bp >= Bq
    <3>1. CASE q = p
      BY <1>4, <3>1
    <3>2. CASE q < p
      BY <1>1, <1>3, <1>4, <3>2
    <3>3. QED
      BY <1>1, <2>1, <3>1, <3>2
  <2>3. Bp \in Nat /\ Bq \in Nat /\ a = Bq + r /\ b = Bp + s
    BY <1>2, <1>4
  <2> HIDE DEF Bp, Bq
  <2>4. QED
    BY <1>1, <1>6, <2>2, <2>3
<1>7. QED
  BY <1>1, <1>5, <1>6 DEF q, p

(* How far a budget of blanking reaches. *)
LEMMA Reaches ==
  ASSUME NEW m, NEW h \in Halves, NEW from \in 0..Half, NEW budget \in Nat
  PROVE  LET d == Dirty(m, h, from)
             b == Min2(budget, Len(d))
         IN  /\ Len(d) \in Nat /\ from + Len(d) <= Half /\ b \in 0..Len(d) /\ b <= budget
             /\ BlankReach(d, b) \in from..Half
             /\ b = Len(d) => BlankReach(d, b) = Half
             /\ b # Len(d) => b = budget /\ from + budget <= BlankReach(d, b)
<1> DEFINE d == Dirty(m, h, from)
           b == Min2(budget, Len(d))
<1>1. d \in Seq(Offsets) /\ Ascending(d) /\ \A j \in 1..Len(d) : d[j] >= from
  BY DirtyIs DEF IsDirty
<1> HIDE DEF d
<1>2. Len(d) \in Nat /\ Half \in Nat /\ from \in Nat
  BY <1>1, Bases
<1>3. /\ \A j \in 1..Len(d) : d[j] + 1 >= from + j
      /\ from + Len(d) <= Half
  BY <1>1, AscendingFar
<1>4. b \in 0..Len(d) /\ b <= budget /\ (b # Len(d) => b = budget)
  BY <1>2 DEF Min2
<1> HIDE DEF b
<1>5. CASE b = Len(d)
  <2>1. BlankReach(d, b) = Half
    BY <1>5 DEF BlankReach
  <2>2. QED
    BY <1>2, <1>3, <1>4, <1>5, <2>1 DEF d, b
<1>6. CASE b # Len(d)
  <2>1. BlankReach(d, b) = d[b + 1] /\ b + 1 \in 1..Len(d)
    BY <1>2, <1>4, <1>6 DEF BlankReach
  <2>2. d[b + 1] \in Offsets
    BY <1>1, <2>1
  <2>3. d[b + 1] \in Nat /\ d[b + 1] <= Half - 1 /\ d[b + 1] + 1 >= from + (b + 1)
    BY <1>2, <1>3, <2>1, <2>2 DEF Offsets
  <2>4. BlankReach(d, b) \in from..Half /\ from + budget <= BlankReach(d, b)
    BY <1>2, <1>4, <1>6, <2>1, <2>3
  <2>5. QED
    BY <1>2, <1>3, <1>4, <1>6, <2>4 DEF d, b
<1>7. QED
  BY <1>5, <1>6

(* The words a pending flip has still to look at or to copy. *)
Left(m, st) == (Half - st.blankOff) + (Len(Stream(m, st)) - st.copied)

LEMMA LeftIs ==
  ASSUME NEW m, Sound(m), NEW st, Pending(m, st)
  PROVE  Left(m, st) \in Nat /\ Left(m, st) <= 2 * Half
<1>1. Stream(m, st) \in Seq(Word) /\ Len(Stream(m, st)) <= Half
  BY Actives, StreamIs DEF Sound, Pending, Fresh, Stream
<1>2. Half \in Nat /\ Len(Stream(m, st)) \in Nat
  BY <1>1, Bases
<1>3. st.blankOff \in 0..Half /\ st.copied \in 0..Len(Stream(m, st))
  BY DEF Pending, Copying
<1>4. QED
  BY <1>1, <1>2, <1>3 DEF Left

(* A step that leaves work has used its budget. *)
LEMMA StepShortens ==
  ASSUME NEW m, Sound(m), Initialised(m), NEW st, Pending(m, st), NEW budget \in Nat,
         FlipStep(m, st, budget).more
  PROVE  LET f == FlipStep(m, st, budget)
         IN  Left(Program(m, f.ws), f.st) + budget <= Left(m, st)
<1> DEFINE f     == FlipStep(m, st, budget)
           p     == Program(m, f.ws)
           S     == Stream(m, st)
           from  == st.blankOff
           c     == st.copied
           dirty == Dirty(m, 1 - st.half, from)
           b     == Min2(budget, Len(dirty))
           n     == IF b = Len(dirty) THEN Min2(budget - b, Len(S) - c) ELSE 0
           reach == BlankReach(dirty, b)
<1>1. /\ f.st = [st EXCEPT !.blankOff = reach, !.copied = @ + n]
      /\ f.more = (~(b = Len(dirty)) \/ c + n < Len(S))
  BY DEF FlipStep, Stream
<1>2. Stepped(m, st, f, p, budget)
  BY FlipStepIs
<1>3. Len(S) \in Nat /\ Half \in Nat /\ from \in 0..Half /\ c \in 0..Len(S) /\ from \in Nat
  <2>1. S \in Seq(Word)
    BY Actives, StreamIs DEF Sound, Pending, Fresh, Stream
  <2>2. Len(S) \in Nat /\ Half \in Nat
    BY <2>1, Bases
  <2>3. QED
    BY <2>2 DEF Pending, Copying
<1>4. /\ Len(dirty) \in Nat /\ from + Len(dirty) <= Half /\ b \in 0..Len(dirty) /\ b <= budget
      /\ reach \in from..Half
      /\ b = Len(dirty) => reach = Half
      /\ b # Len(dirty) => b = budget /\ from + budget <= reach
  <2>1. 1 - st.half \in Halves
    BY Actives DEF Sound, Pending, Fresh
  <2> HIDE DEF from
  <2>2. QED
    BY <1>3, <2>1, Reaches
<1>5. f.st.blankOff = reach /\ f.st.copied = c + n /\ Stream(p, f.st) = S
  <2>1. st \in FlipRec
    BY DEF Pending
  <2> HIDE DEF reach, n
  <2>2. f.st.blankOff = reach /\ f.st.copied = c + n
    BY <1>1, <2>1 DEF FlipRec
  <2> HIDE DEF f, p, S
  <2>3. Stream(p, f.st) = S
    BY <1>2 DEF Stepped, Stream, S
  <2>4. QED
    BY <2>2, <2>3
<1>6. f.more
  OBVIOUS
<1> HIDE DEF f, p, S, reach, dirty, from, c, b
<1>7. (Half - reach) + (Len(S) - (c + n)) + budget <= (Half - from) + (Len(S) - c)
  <2>1. CASE b # Len(dirty)
    <3>1. n = 0
      BY <2>1
    <3>2. QED
      BY <1>3, <1>4, <2>1, <3>1
  <2>2. CASE b = Len(dirty)
    <3>1. n = Min2(budget - b, Len(S) - c) /\ c + n < Len(S) /\ reach = Half
      BY <1>1, <1>4, <1>6, <2>2
    <3>2. n = budget - b
      BY <1>3, <1>4, <3>1 DEF Min2
    <3>3. QED
      BY <1>3, <1>4, <2>2, <3>1, <3>2
  <2>3. QED
    BY <2>1, <2>2
<1>8. Left(p, f.st) = (Half - reach) + (Len(S) - (c + n))
  BY <1>5 DEF Left
<1>9. Left(m, st) = (Half - from) + (Len(S) - c)
  BY DEF Left, S, from, c
<1> HIDE DEF n
<1>10. QED
  BY <1>7, <1>8, <1>9 DEF f, p

(* What a maintenance slice finds. *)
Fit(m, mt) == Initialised(m) /\ MaintOK(mt) /\ Kept(m, mt.flip)

BlankOffset(m, mt) == IF mt.cursor.gen = ActiveGen(m) THEN mt.cursor.off ELSE 0

(* The flip was made of all that the log holds. *)
Whole(m, st) == st.end = LogEnd(Log(m, st.half))

Once == Half \div Budget
Twice == (2 * Half) \div Budget

(* How many slices that leave work there are at most: blanking the dead    *)
(* half; a flip that leaves no garbage, and that; making such a flip; a    *)
(* flip whose tail may leave garbage, and all that.                        *)
Rank(m, mt) ==
  IF Fresh(m, mt.flip)
    THEN Left(m, mt.flip) \div Budget
           + (IF Whole(m, mt.flip) THEN Once + 1 ELSE Once + Twice + 3)
    ELSE IF FlipDue(m) THEN Once + Twice + 2
    ELSE (Half - BlankOffset(m, mt)) \div Budget

LEMMA RankIs ==
  ASSUME NEW m, NEW mt, Fit(m, mt)
  PROVE  /\ Rank(m, mt) \in Nat /\ Rank(m, mt) <= Once + 2 * Twice + 3
         /\ ~Fresh(m, mt.flip) => Rank(m, mt) <= Once + Twice + 2
         /\ ~Fresh(m, mt.flip) /\ ~FlipDue(m) => Rank(m, mt) <= Once
<1>1. Half \in Nat \ {0} /\ Budget \in Nat \ {0} /\ 2 * Half \in Nat
  BY KvConstants
<1>2. Once \in Nat /\ Twice \in Nat
  BY <1>1, Slices DEF Once, Twice
<1> HIDE DEF Once, Twice
<1>3. CASE Fresh(m, mt.flip)
  <2>1. Pending(m, mt.flip) /\ Sound(m)
    BY <1>3 DEF Fit, Kept, FlipOK
  <2>2. Left(m, mt.flip) \in Nat /\ Left(m, mt.flip) <= 2 * Half
    BY <2>1, LeftIs
  <2>3. Left(m, mt.flip) \div Budget \in Nat /\ Left(m, mt.flip) \div Budget <= Twice
    BY <1>1, <2>2, Slices DEF Twice
  <2> DEFINE x == Left(m, mt.flip) \div Budget
  <2>4. Rank(m, mt) = x + (IF Whole(m, mt.flip) THEN Once + 1 ELSE Once + Twice + 3)
    BY <1>3 DEF Rank
  <2> HIDE DEF x
  <2>5. QED
    BY <1>2, <1>3, <2>3, <2>4 DEF x
<1>4. CASE ~Fresh(m, mt.flip) /\ FlipDue(m)
  <2>1. Rank(m, mt) = Once + Twice + 2
    BY <1>4 DEF Rank
  <2>2. QED
    BY <1>2, <1>4, <2>1
<1>5. CASE ~Fresh(m, mt.flip) /\ ~FlipDue(m)
  <2>1. BlankOffset(m, mt) \in 0..Half
    BY <1>1 DEF Fit, MaintOK, BlankOffset
  <2> DEFINE x == Half - BlankOffset(m, mt)
  <2>2. x \in Nat /\ x <= Half
    BY <1>1, <2>1
  <2>3. Rank(m, mt) = x \div Budget
    BY <1>5 DEF Rank
  <2> HIDE DEF x
  <2>4. x \div Budget \in Nat /\ x \div Budget <= Once
    BY <1>1, <2>2, Slices DEF Once
  <2>5. QED
    BY <1>2, <1>5, <2>3, <2>4
<1>6. QED
  BY <1>3, <1>4, <1>5

(* A step leaves the flip as whole as it was. *)
LEMMA DriveStepRanks ==
  ASSUME NEW m, NEW mt, Fit(m, mt), Fresh(m, mt.flip), FlipStep(m, mt.flip, Budget).more
  PROVE  LET op == DriveFlip(m, mt)
             p  == Program(m, op.ws)
         IN  Fit(p, op.maint) /\ op.more = TRUE /\ Rank(p, op.maint) < Rank(m, mt)
<1> DEFINE st == mt.flip
           f  == FlipStep(m, st, Budget)
           op == DriveFlip(m, mt)
           p  == Program(m, f.ws)
<1>0. Half \in Nat /\ Budget \in Nat \ {0} /\ Budget \in Nat
  BY KvConstants
<1>1. Sound(m) /\ Initialised(m) /\ MaintOK(mt) /\ Pending(m, st)
  BY DEF Fit, Kept, FlipOK
<1>2. op.ws = f.ws /\ op.maint = [mt EXCEPT !.flip = f.st] /\ op.more = TRUE
  BY DEF DriveFlip
<1>3. Stepped(m, st, f, p, Budget)
  BY <1>0, <1>1, FlipStepIs
<1>4. Left(p, f.st) + Budget <= Left(m, st)
  BY <1>0, <1>1, StepShortens
<1>5. Sliced(m, op)
  BY <1>0, <1>1, DriveIs
<1> HIDE DEF f, p, op, st
<1>6. op.maint.flip = f.st
  BY <1>1, <1>2 DEF MaintOK
<1>7. /\ Steady(m, p) /\ Pending(p, f.st) /\ f.st.end = st.end /\ f.st.half = st.half
      /\ st.half = ActiveHalf(m) /\ Fresh(p, f.st) /\ Fresh(m, st)
  BY <1>1, <1>3 DEF Stepped, Pending, Fresh
<1>8. /\ Sound(p) /\ Initialised(p) /\ Log(p, ActiveHalf(m)) = Log(m, ActiveHalf(m))
  BY <1>1, <1>7, SteadyKeeps
<1>9. Whole(p, f.st) <=> Whole(m, st)
  BY <1>7, <1>8 DEF Whole
<1>10. Left(p, f.st) \div Budget < Left(m, st) \div Budget
       /\ Left(p, f.st) \div Budget \in Nat /\ Left(m, st) \div Budget \in Nat
  <2>1. Left(p, f.st) \in Nat /\ Left(m, st) \in Nat
    BY <1>1, <1>7, <1>8, LeftIs
  <2>2. QED
    BY <1>0, <1>4, <2>1, Slices
<1>11. Fit(p, op.maint)
  BY <1>2, <1>5, <1>8 DEF Fit, Sliced, p
<1> DEFINE x == Left(p, f.st) \div Budget
           y == Left(m, st) \div Budget
           z == IF Whole(m, st) THEN Once + 1 ELSE Once + Twice + 3
<1>12. Rank(p, op.maint) = x + z /\ Rank(m, mt) = y + z
  BY <1>6, <1>7, <1>9 DEF Rank, st
<1>13. z \in Nat
  <2>1. Once \in Nat /\ Twice \in Nat
    BY <1>0, Slices DEF Once, Twice
  <2>2. QED
    BY <2>1
<1> HIDE DEF x, y, z
<1>14. x + z < y + z
  BY <1>10, <1>13 DEF x, y
<1>15. QED
  BY <1>2, <1>11, <1>12, <1>14 DEF op, p

(* The commit of a flip without a tail leaves only blanking, any other     *)
(* commit at most one such flip.                                           *)
LEMMA CommitRanks ==
  ASSUME NEW m, NEW mt, Fit(m, mt), Fresh(m, mt.flip), ~FlipStep(m, mt.flip, Budget).more
  PROVE  LET op == DriveFlip(m, mt)
             p  == Program(m, op.ws)
         IN  Fit(p, op.maint) /\ op.more = TRUE /\ Rank(p, op.maint) < Rank(m, mt)
<1> DEFINE st == mt.flip
           op == DriveFlip(m, mt)
           p  == Program(m, FlipCommit(m, st))
<1>0. Half \in Nat /\ Budget \in Nat \ {0} /\ Budget \in Nat
  BY KvConstants
<1>1. Sound(m) /\ Initialised(m) /\ MaintOK(mt) /\ Pending(m, st)
  BY DEF Fit, Kept, FlipOK
<1>2. op.ws = FlipCommit(m, st) /\ op.maint = [mt EXCEPT !.flip = None] /\ op.more = TRUE
  BY DEF DriveFlip
<1>3. Flipped(m, p) /\ FlipPicks(m, st, p)
  BY <1>1, FlipCommitIs
<1>4. Sliced(m, op)
  BY <1>0, <1>1, DriveIs
<1> HIDE DEF p, op, st
<1>5. op.maint.flip = None
  BY <1>1, <1>2 DEF MaintOK
<1>6. Fit(p, op.maint)
  BY <1>2, <1>3, <1>4 DEF Fit, Flipped, Sliced, p
<1>7. ~Fresh(p, op.maint.flip)
  BY <1>5 DEF Fresh
<1>8. Once \in Nat /\ Twice \in Nat
  <2>1. 2 * Half \in Nat
    BY <1>0
  <2>2. QED
    BY <1>0, <2>1, Slices DEF Once, Twice
<1> DEFINE y == Left(m, st) \div Budget
<1>9. y \in Nat
  BY <1>0, <1>1, LeftIs, Slices
<1>10. Rank(m, mt) = y + (IF Whole(m, st) THEN Once + 1 ELSE Once + Twice + 3)
  BY DEF Rank, st
<1> HIDE DEF y
<1>11. CASE Whole(m, st)
  <2>1. Clean(Log(p, ActiveHalf(p)))
    BY <1>1, <1>3, <1>11, FlipCleans DEF Whole, Flipped, Sound
  <2>2. ~FlipDue(p)
    BY <1>3, <2>1, CleanIsNotDue DEF Flipped, Sound
  <2>3. Rank(p, op.maint) \in Nat /\ Rank(p, op.maint) <= Once
    BY <1>6, <1>7, <2>2, RankIs
  <2>4. Rank(p, op.maint) < Rank(m, mt)
    BY <1>8, <1>9, <1>10, <1>11, <2>3
  <2>5. QED
    BY <1>2, <1>6, <2>4 DEF op, p
<1>12. CASE ~Whole(m, st)
  <2>1. Rank(p, op.maint) \in Nat /\ Rank(p, op.maint) <= Once + Twice + 2
    BY <1>6, <1>7, RankIs
  <2>2. Rank(p, op.maint) < Rank(m, mt)
    BY <1>8, <1>9, <1>10, <1>12, <2>1
  <2>3. QED
    BY <1>2, <1>6, <2>2 DEF op, p
<1>13. QED
  BY <1>11, <1>12

(* Blanking that leaves work has used its budget. *)
LEMMA BlankRanks ==
  ASSUME NEW m, NEW mt, Fit(m, mt), ~Fresh(m, mt.flip), ~FlipDue(m)
  PROVE  LET op == BlankDead(m, mt.cursor)
             p  == Program(m, op.ws)
         IN  op.more => Fit(p, op.maint) /\ Rank(p, op.maint) < Rank(m, mt)
<1> DEFINE off   == BlankOffset(m, mt)
           d     == 1 - ActiveHalf(m)
           dirty == Dirty(m, d, off)
           b     == Min2(Budget, Len(dirty))
           reach == BlankReach(dirty, b)
           ws    == BlankWrites(d, SubSeq(dirty, 1, b))
           op    == BlankFrom(m, off)
           p     == Program(m, ws)
<1>0. Half \in Nat /\ Budget \in Nat \ {0} /\ Budget \in Nat
  BY KvConstants
<1>1. Sound(m) /\ Initialised(m) /\ Typed(m) /\ m \in Memory /\ MaintOK(mt) /\ d \in Halves
  BY Actives DEF Fit, Kept, Sound, Typed
<1>2. off \in 0..Half
  BY <1>0, <1>1 DEF MaintOK, BlankOffset
<1>3. op = BlankDead(m, mt.cursor)
  BY DEF BlankDead, BlankOffset
<1>4. /\ op.ws = ws /\ op.more = (reach < Half)
      /\ op.maint = [cursor |-> [gen |-> ActiveGen(m), off |-> reach], flip |-> None]
  BY DEF BlankFrom
<1>5. SUFFICES ASSUME reach < Half PROVE Fit(p, op.maint) /\ Rank(p, op.maint) < Rank(m, mt)
  <2> HIDE DEF op, ws, reach, off
  <2>1. QED
    BY <1>3, <1>4
<1>6. Sliced(m, op)
  <2> HIDE DEF off
  <2>1. QED
    BY <1>0, <1>1, <1>2, BlankIs
<1>7. /\ dirty \in Seq(Offsets) /\ b \in 0..Len(dirty) /\ reach \in off..Half
      /\ off + Budget <= reach
  <2> HIDE DEF off, d
  <2>1. /\ Len(dirty) \in Nat /\ b \in 0..Len(dirty)
        /\ BlankReach(dirty, b) \in off..Half
        /\ b = Len(dirty) => BlankReach(dirty, b) = Half
        /\ b # Len(dirty) => off + Budget <= BlankReach(dirty, b)
    BY <1>0, <1>1, <1>2, Reaches
  <2>2. dirty \in Seq(Offsets)
    BY <1>1, <1>2, DirtyIs DEF IsDirty
  <2> HIDE DEF dirty, b
  <2>3. b # Len(dirty)
    BY <1>0, <1>5, <2>1
  <2>4. QED
    BY <2>1, <2>2, <2>3
<1>8. DeadWrites(ws, d)
  <2> DEFINE offs == SubSeq(dirty, 1, b)
  <2> HIDE DEF dirty, b, d, off
  <2>1. offs \in Seq(Offsets)
    BY <1>7, SubSeqProperties
  <2> HIDE DEF offs
  <2>2. DeadWrites(BlankWrites(d, offs), d)
    BY <1>1, <2>1, BlankWritesDead
  <2>3. QED
    BY <2>2 DEF offs
<1> HIDE DEF op, p, ws, reach, b, dirty, off
<1>9. Steady(m, p)
  <2>1. ws \in Seq(Writes)
    BY <1>8 DEF DeadWrites
  <2>2. Touched(m, ws, p)
    BY <1>1, <2>1, ProgramTouches DEF p
  <2>3. QED
    BY <1>1, <1>8, <2>2, DeadIsSteady DEF d
<1>10. /\ Sound(p) /\ Initialised(p) /\ ActiveHalf(p) = ActiveHalf(m) /\ ActiveGen(p) = ActiveGen(m)
       /\ Log(p, ActiveHalf(m)) = Log(m, ActiveHalf(m))
  BY <1>1, <1>9, SteadyKeeps
<1>11. ~FlipDue(p)
  <2>1. FreeWords(p) = FreeWords(m) /\ LiveWords(p) = LiveWords(m)
    BY <1>10 DEF FreeWords, LiveWords
  <2>2. QED
    BY <2>1 DEF FlipDue
<1>12. op.maint.flip = None /\ op.maint.cursor.gen = ActiveGen(m) /\ op.maint.cursor.off = reach
  BY <1>4
<1>13. ~Fresh(p, op.maint.flip)
  BY <1>12 DEF Fresh
<1>14. Fit(p, op.maint)
  BY <1>4, <1>6, <1>10 DEF Fit, Sliced, p
<1>15. Rank(p, op.maint) = (Half - reach) \div Budget
  BY <1>10, <1>11, <1>12, <1>13 DEF Rank, BlankOffset
<1>16. Rank(m, mt) = (Half - off) \div Budget
  BY DEF Rank, off
<1>17. (Half - reach) \div Budget < (Half - off) \div Budget
  <2>1. Half - reach \in Nat /\ Half - off \in Nat /\ (Half - reach) + Budget <= Half - off
    BY <1>0, <1>2, <1>7
  <2>2. QED
    BY <1>0, <2>1, Slices
<1>18. QED
  BY <1>14, <1>15, <1>16, <1>17

(* Every slice that leaves work brings the end nearer. *)
LEMMA SliceRanks ==
  ASSUME NEW m, NEW mt, Fit(m, mt), MaintainOp(m, mt).more
  PROVE  LET op == MaintainOp(m, mt)
             p  == Program(m, op.ws)
         IN  Fit(p, op.maint) /\ Rank(p, op.maint) < Rank(m, mt)
<1>1. CASE Fresh(m, mt.flip)
  <2>1. MaintainOp(m, mt) = DriveFlip(m, mt)
    BY <1>1 DEF MaintainOp
  <2>2. QED
    BY <1>1, <2>1, DriveStepRanks, CommitRanks
<1>2. CASE ~Fresh(m, mt.flip) /\ FlipDue(m)
  <2> DEFINE op == MaintainOp(m, mt)
             st == FlipStart(m)
             x  == Left(m, st) \div Budget
  <2>0. Half \in Nat /\ Budget \in Nat \ {0} /\ 2 * Half \in Nat
    BY KvConstants
  <2>1. op.ws = <<>> /\ op.maint = [mt EXCEPT !.flip = st]
    BY <1>2 DEF MaintainOp
  <2>2. Sound(m) /\ m \in Memory /\ Initialised(m) /\ MaintOK(mt)
    BY DEF Fit, Kept, Sound, Typed
  <2>3. Pending(m, st) /\ Fresh(m, st)
    BY <2>2, StartPending DEF Pending
  <2>4. Whole(m, st)
    BY DEF Whole, FlipStart
  <2>5. Left(m, st) \in Nat /\ Left(m, st) <= 2 * Half
    BY <2>2, <2>3, LeftIs
  <2>6. x \in Nat /\ x <= Twice /\ Once \in Nat /\ Twice \in Nat
    BY <2>0, <2>5, Slices DEF Once, Twice
  <2>7. Program(m, <<>>) = m
    BY <2>2, ProgramNothing
  <2>8. Sliced(m, op)
    BY <2>2, MaintainIs DEF Fit
  <2> HIDE DEF op, st
  <2>9. op.maint.flip = st
    BY <2>1, <2>2 DEF MaintOK
  <2>10. Fit(m, op.maint)
    BY <2>1, <2>2, <2>7, <2>8 DEF Fit, Sliced
  <2>11. Rank(m, op.maint) = x + (Once + 1)
    BY <2>3, <2>4, <2>9 DEF Rank
  <2>12. Rank(m, mt) = Once + Twice + 2
    BY <1>2 DEF Rank
  <2> HIDE DEF x
  <2>13. Rank(m, op.maint) < Rank(m, mt)
    BY <2>6, <2>11, <2>12
  <2>14. QED
    BY <2>1, <2>7, <2>10, <2>13 DEF op
<1>3. CASE ~Fresh(m, mt.flip) /\ ~FlipDue(m)
  <2>1. MaintainOp(m, mt) = BlankDead(m, mt.cursor)
    BY <1>3 DEF MaintainOp
  <2>2. QED
    BY <1>3, <2>1, BlankRanks
<1>4. QED
  BY <1>1, <1>2, <1>3

(* The task's states: what it holds at first, and what slices leave. *)
Maints == [cursor : {maint.cursor} \cup [gen : Nat, off : 0..Half],
           flip : {maint.flip, None} \cup FlipRec]

(* Work that is left can be done, and what is done leaves the half blank.  *)
Sliceable(s) ==
  /\ s.more => Fit(s.mem, s.maint) /\ CursorTrue(s.mem, s.maint.flip, s.maint.cursor)
  /\ ~s.more => DeadHalfBlank(s.mem)

SliceStates == {s \in [mem : Memory, maint : Maints, more : BOOLEAN] : Sliceable(s)}

Slice(s) ==
  LET op == MaintainOp(s.mem, s.maint)
  IN  IF s.more
        THEN [mem |-> Program(s.mem, op.ws), maint |-> op.maint, more |-> op.more]
        ELSE s

LEMMA SliceTyped ==
  ASSUME NEW m, NEW mt \in Maints, Fit(m, mt)
  PROVE  MaintainOp(m, mt).maint \in Maints /\ MaintainOp(m, mt).more \in BOOLEAN
<1> DEFINE op == MaintainOp(m, mt)
<1>0. Sound(m) /\ Initialised(m) /\ Budget \in Nat /\ Half \in Nat
  BY KvConstants DEF Fit, Kept
<1>1. ASSUME NEW x \in {None} \cup FlipRec PROVE [mt EXCEPT !.flip = x] \in Maints
  <2>1. x \in {maint.flip, None} \cup FlipRec
    OBVIOUS
  <2>2. [mt EXCEPT !.flip = x] = [cursor |-> mt.cursor, flip |-> x]
    BY DEF Maints
  <2>3. mt.cursor \in {maint.cursor} \cup [gen : Nat, off : 0..Half]
    BY DEF Maints
  <2>4. QED
    BY <2>1, <2>2, <2>3 DEF Maints
<1>2. CASE Fresh(m, mt.flip)
  <2> DEFINE f == FlipStep(m, mt.flip, Budget)
  <2>1. Pending(m, mt.flip)
    BY <1>2 DEF Fit, Kept, FlipOK
  <2>2. f.st \in FlipRec
    BY <1>0, <2>1, FlipStepIs DEF Stepped
  <2>3. op = DriveFlip(m, mt)
    BY <1>2 DEF MaintainOp
  <2>4. op.maint \in {[mt EXCEPT !.flip = f.st], [mt EXCEPT !.flip = None]} /\ op.more = TRUE
    BY <2>3 DEF DriveFlip
  <2>5. QED
    BY <1>1, <2>2, <2>4
<1>3. CASE ~Fresh(m, mt.flip) /\ FlipDue(m)
  <2>1. op.maint = [mt EXCEPT !.flip = FlipStart(m)] /\ op.more = TRUE
    BY <1>3 DEF MaintainOp
  <2>2. FlipStart(m) \in FlipRec
    BY <1>0, StartPending DEF Pending
  <2>3. QED
    BY <1>1, <2>1, <2>2
<1>4. CASE ~Fresh(m, mt.flip) /\ ~FlipDue(m)
  <2> DEFINE off   == BlankOffset(m, mt)
             d     == 1 - ActiveHalf(m)
             dirty == Dirty(m, d, off)
             reach == BlankReach(dirty, Min2(Budget, Len(dirty)))
  <2>1. op = BlankFrom(m, off)
    BY <1>4 DEF MaintainOp, BlankDead, BlankOffset
  <2>2. /\ op.maint = [cursor |-> [gen |-> ActiveGen(m), off |-> reach], flip |-> None]
        /\ op.more = (reach < Half)
    BY <2>1 DEF BlankFrom
  <2>3. off \in 0..Half /\ d \in Halves
    BY <1>0, Actives DEF Fit, MaintOK, BlankOffset, Sound
  <2>4. reach \in off..Half
    <3> HIDE DEF off, d
    <3>1. QED
      BY <1>0, <2>3, Reaches
  <2>5. reach \in 0..Half /\ ActiveGen(m) \in Nat
    <3> HIDE DEF reach, off
    <3>1. QED
      BY <1>0, <2>3, <2>4, Actives DEF Sound
  <2> HIDE DEF reach, op
  <2> DEFINE c == [gen |-> ActiveGen(m), off |-> reach]
  <2>6. c \in [gen : Nat, off : 0..Half]
    BY <2>5
  <2>7. op.maint = [cursor |-> c, flip |-> None] /\ op.more \in BOOLEAN
    BY <2>2
  <2> HIDE DEF c
  <2>8. op.maint \in Maints
    BY <2>6, <2>7 DEF Maints
  <2>9. QED
    BY <2>7, <2>8 DEF op
<1>5. QED
  BY <1>2, <1>3, <1>4

LEMMA SliceRuns ==
  ASSUME NEW s \in SliceStates
  PROVE  /\ Slice(s) \in SliceStates
         /\ Slice(s).more => s.more /\ Rank(Slice(s).mem, Slice(s).maint) < Rank(s.mem, s.maint)
<1> DEFINE op == MaintainOp(s.mem, s.maint)
           p  == Program(s.mem, op.ws)
<1>1. /\ s.mem \in Memory /\ s.maint \in Maints /\ s.more \in BOOLEAN
      /\ s.more => Fit(s.mem, s.maint) /\ CursorTrue(s.mem, s.maint.flip, s.maint.cursor)
  BY DEF SliceStates, Sliceable
<1>2. CASE s.more
  <2>1. op.maint \in Maints /\ op.more \in BOOLEAN
    BY <1>1, <1>2, SliceTyped
  <2>2. op.ws \in Seq(Writes)
    BY <1>1, <1>2, MaintainIs DEF Fit, Sliced
  <2>3. p \in Memory
    BY <1>1, <2>2, ProgramInMemory
  <2>4. op.more => Fit(p, op.maint) /\ Rank(p, op.maint) < Rank(s.mem, s.maint)
    BY <1>1, <1>2, SliceRanks
  <2>5. Slice(s) = [mem |-> p, maint |-> op.maint, more |-> op.more]
    BY <1>2 DEF Slice
  <2>a. /\ CursorTrue(p, op.maint.flip, op.maint.cursor)
        /\ ~op.more => DeadHalfBlank(p)
    BY <1>1, <1>2, MaintainCursor DEF Fit, DeadHalfBlank, Offsets
  <2> HIDE DEF p, op
  <2>6. Slice(s).mem = p /\ Slice(s).maint = op.maint /\ Slice(s).more = op.more
    BY <2>5
  <2>7. Slice(s) \in [mem : Memory, maint : Maints, more : BOOLEAN]
    BY <2>1, <2>3, <2>5
  <2>8. QED
    BY <1>2, <2>4, <2>6, <2>7, <2>a DEF SliceStates, Sliceable
<1>3. CASE ~s.more
  BY <1>3 DEF Slice
<1>4. QED
  BY <1>2, <1>3

(* A run of slices ends. *)
LEMMA RunEnds ==
  ASSUME NEW f, NEW N \in Nat, \A i \in 0..N : f[i] \in SliceStates,
         \A i \in 1..N : f[i] = Slice(f[i - 1]), N > Once + 2 * Twice + 3
  PROVE  ~f[N].more
<1> DEFINE R(i) == Rank(f[i].mem, f[i].maint)
           S == {n \in 0..N : f[n].more => f[0].more /\ R(n) + n <= R(0)}
<1>1. Once \in Nat /\ Twice \in Nat
  <2>1. Half \in Nat /\ 2 * Half \in Nat /\ Budget \in Nat \ {0}
    BY KvConstants
  <2>2. QED
    BY <2>1, Slices DEF Once, Twice
<1>2. ASSUME NEW i \in 0..N, f[i].more PROVE R(i) \in Nat /\ R(i) <= Once + 2 * Twice + 3
  <2>1. Fit(f[i].mem, f[i].maint)
    BY <1>2 DEF SliceStates, Sliceable
  <2>2. QED
    BY <2>1, RankIs
<1>3. 0 \in S
  <2>1. 0 \in 0..N
    OBVIOUS
  <2>2. CASE f[0].more
    <3>1. R(0) \in Nat
      BY <1>2, <2>1, <2>2
    <3> HIDE DEF R
    <3>2. R(0) + 0 <= R(0)
      BY <3>1
    <3>3. QED
      BY <2>1, <2>2, <3>2
  <2>3. CASE ~f[0].more
    BY <2>1, <2>3
  <2>4. QED
    BY <2>2, <2>3
<1>4. ASSUME NEW n \in 0..N - 1, n \in S PROVE n + 1 \in S
  <2>1. n + 1 \in 1..N /\ n + 1 \in 0..N /\ n \in 0..N /\ 0 \in 0..N /\ (n + 1) - 1 = n
    OBVIOUS
  <2>2. SUFFICES ASSUME f[n + 1].more PROVE f[0].more /\ R(n + 1) + (n + 1) <= R(0)
    BY <2>1
  <2>3. f[n + 1] = Slice(f[n]) /\ f[n] \in SliceStates
    <3>1. f[n + 1] = Slice(f[(n + 1) - 1])
      BY <2>1
    <3>2. QED
      BY <2>1, <3>1
  <2>4. f[n].more /\ R(n + 1) < R(n)
    BY <2>2, <2>3, SliceRuns
  <2>5. f[0].more /\ R(n) + n <= R(0)
    BY <1>4, <2>4
  <2>6. R(n) \in Nat /\ R(n + 1) \in Nat /\ R(0) \in Nat
    BY <1>2, <2>1, <2>2, <2>4, <2>5
  <2> HIDE DEF R
  <2>7. QED
    BY <2>4, <2>5, <2>6
<1>5. N \in S
  <2> HIDE DEF S
  <2>1. \A n \in 0..N - 1 : n \in S => n + 1 \in S
    BY <1>4
  <2>2. 0..N \subseteq S
    BY <1>3, <2>1, InductTo
  <2>3. QED
    BY <2>2
<1>6. SUFFICES ASSUME f[N].more PROVE FALSE
  OBVIOUS
<1>7. f[0].more /\ R(N) + N <= R(0)
  BY <1>5, <1>6
<1>8. R(N) \in Nat /\ R(0) \in Nat /\ R(0) <= Once + 2 * Twice + 3
  <2>1. 0 \in 0..N /\ N \in 0..N
    OBVIOUS
  <2>2. QED
    BY <1>2, <1>6, <1>7, <2>1
<1> HIDE DEF R
<1>9. QED
  BY <1>1, <1>7, <1>8

LEMMA Settles ==
  ASSUME IInv
  PROVE  MaintenanceSettles
<1> DEFINE N == SettleSlices
           first == [mem |-> nvm, maint |-> maint, more |-> Initialised(nvm)]
           g == [p \in (1..N) \X SliceStates |-> Slice(p[2])]
           Body(f) == [n \in 0..N |->
                         IF n = 0 THEN first
                         ELSE LET s  == f[n - 1]
                                  op == MaintainOp(s.mem, s.maint)
                              IN  IF s.more
                                    THEN [mem |-> Program(s.mem, op.ws), maint |-> op.maint, more |-> op.more]
                                    ELSE s]
<1>1. N \in Nat /\ N > Once + 2 * Twice + 3
  <2>1. Half \in Nat /\ 2 * Half \in Nat /\ Budget \in Nat \ {0}
    BY KvConstants
  <2>2. Once \in Nat /\ Twice \in Nat
    BY <2>1, Slices DEF Once, Twice
  <2>3. N = 2 * Twice + Once + 4
    BY DEF SettleSlices, Once, Twice
  <2> HIDE DEF N, Once, Twice
  <2>4. QED
    BY <2>2, <2>3
<1> HIDE DEF N
<1>2. first \in SliceStates
  <2>1. nvm \in Memory /\ MaintOK(maint) /\ Kept(nvm, maint.flip)
    BY DEF IInv, Kept, Sound, Typed
  <2>2. maint \in Maints
    <3>1. maint = [cursor |-> maint.cursor, flip |-> maint.flip]
      BY <2>1 DEF MaintOK
    <3> DEFINE c == maint.cursor
               x == maint.flip
    <3>2. [cursor |-> c, flip |-> x] \in [cursor : {c} \cup [gen : Nat, off : 0..Half],
                                          flip : {x, None} \cup FlipRec]
      <4> HIDE DEF c, x
      <4>1. QED
        OBVIOUS
    <3>3. QED
      BY <3>1, <3>2 DEF Maints
  <2>3. Initialised(nvm) \in BOOLEAN
    BY DEF Initialised
  <2>4. /\ Initialised(nvm) => Fit(nvm, maint) /\ CursorTrue(nvm, maint.flip, maint.cursor)
        /\ ~Initialised(nvm) => DeadHalfBlank(nvm)
    BY <2>1 DEF Fit, IInv, DeadHalfBlank
  <2>5. first.mem = nvm /\ first.maint = maint /\ first.more = Initialised(nvm)
    OBVIOUS
  <2>6. first \in [mem : Memory, maint : Maints, more : BOOLEAN]
    BY <2>1, <2>2, <2>3
  <2> HIDE DEF first
  <2>7. QED
    BY <2>4, <2>5, <2>6 DEF SliceStates, Sliceable
<1>3. g \in [(1..N) \X SliceStates -> SliceStates]
  <2>1. ASSUME NEW p \in (1..N) \X SliceStates PROVE Slice(p[2]) \in SliceStates
    <3>1. p[2] \in SliceStates
      OBVIOUS
    <3>2. QED
      BY <3>1, SliceRuns
  <2>2. QED
    BY <2>1
<1> HIDE DEF first
<1>4. PICK f : IsRun(f, N, SliceStates, first, g)
  <2> HIDE DEF g
  <2>1. QED
    BY <1>1, <1>2, <1>3, Recursion
<1>5. f \in [0..N -> SliceStates] /\ f[0] = first
  BY <1>4 DEF IsRun
<1>6. ASSUME NEW i \in 1..N PROVE f[i] = Slice(f[i - 1])
  <2>1. f[i - 1] \in SliceStates
    BY <1>1, <1>5
  <2>2. f[i] = g[<<i, f[i - 1]>>]
    BY <1>4 DEF IsRun
  <2>3. <<i, f[i - 1]>> \in (1..N) \X SliceStates
    BY <2>1
  <2>4. QED
    BY <2>2, <2>3
<1>7. f = Body(f)
  <2>1. ASSUME NEW i \in 0..N PROVE f[i] = Body(f)[i]
    <3>1. CASE i = 0
      BY <1>5, <3>1
    <3>2. CASE i # 0
      <4>1. i \in 1..N
        BY <3>2
      <4>2. f[i] = Slice(f[i - 1])
        BY <1>6, <4>1
      <4>3. QED
        BY <3>2, <4>2 DEF Slice
    <3>3. QED
      BY <3>1, <3>2
  <2>2. QED
    BY <1>5, <2>1
<1> DEFINE after == CHOOSE a : a = Body(a)
<1>8. after = Body(after)
  <2> HIDE DEF Body
  <2>1. QED
    BY <1>7
<1>9. MaintenanceSettles <=> ~after[N].more /\ DeadHalfBlank(after[N].mem)
  BY DEF MaintenanceSettles, N, first
<1>10. ASSUME NEW i \in 1..N PROVE after[i] = Slice(after[i - 1])
  <2> HIDE DEF after
  <2>1. after[i] = Body(after)[i]
    BY <1>8
  <2>2. QED
    BY <2>1 DEF Slice
<1>11. after[0] = first
  <2> HIDE DEF after
  <2>1. after[0] = Body(after)[0]
    BY <1>8
  <2>2. QED
    BY <1>1, <2>1
<1> HIDE DEF after
<1>12. f[N] = after[N]
  <2>1. AgreeNext(f, after, N)
    BY <1>6, <1>10 DEF AgreeNext
  <2>2. AgreeTo(f, after, N)
    BY <1>1, <1>5, <1>11, <2>1, SameRecursion
  <2>3. QED
    BY <1>1, <2>2 DEF AgreeTo
<1>13. ~f[N].more /\ DeadHalfBlank(f[N].mem)
  <2>1. \A i \in 0..N : f[i] \in SliceStates
    BY <1>5
  <2>2. ~f[N].more
    BY <1>1, <1>6, <2>1, RunEnds
  <2>3. f[N] \in SliceStates
    BY <1>1, <2>1
  <2>4. QED
    BY <2>2, <2>3 DEF SliceStates, Sliceable
<1>14. QED
  BY <1>9, <1>12, <1>13

-----------------------------------------------------------------------------
(* Refusals.                                                               *)

(* A store that was not initialised has room for every record, and the     *)
(* compaction made on the spot leaves nothing but live words.              *)
LEMMA PutRefused ==
  ASSUME Kept(nvm, maint.flip), ~Fresh(nvm, maint.flip),
         NEW k \in Keys, NEW v \in Data, PutOp(k, v).out = "full"
  PROVE  LiveWords(nvm) + Size(v) > Half
<1> DEFINE m0   == Program(nvm, OpenWrites(nvm))
           flip == Compaction(m0, maint.flip)
           m1   == Program(m0, flip)
<1>0. Sound(nvm) /\ Half \in Nat /\ Size(v) \in Nat
  BY KvConstants, Sizes DEF Kept
<1>1. ~(Size(v) <= FreeWords(m0)) /\ ~(Size(v) <= FreeWords(m1))
  BY DEF PutOp, SetOp
<1>2. /\ Initialised(nvm) => m0 = nvm
      /\ ~Initialised(nvm) => Sound(m0) /\ Empty(m0)
  BY <1>0, OpenOp
<1> HIDE DEF m0
<1>3. CASE ~Initialised(nvm)
  <2>1. FreeWords(m0) = Half - 0
    BY <1>2, <1>3, EmptyReads DEF Sound, FreeWords
  <2>2. Size(v) <= Half
    <3>1. v # Absent
      BY <1>3 DEF PutOp, Get
    <3>2. QED
      BY <3>1, KvConstants DEF Size, Data
  <2>3. QED
    BY <1>0, <1>1, <2>1, <2>2
<1>4. CASE Initialised(nvm)
  <2>1. FreeWords(m1) = Half - LiveWords(nvm)
    BY <1>0, <1>2, <1>4, CompactionIs DEF Kept
  <2>2. LiveWords(nvm) \in Nat
    <3> DEFINE P == PackedWords(Log(nvm, ActiveHalf(nvm)), LatestOffsets(Log(nvm, ActiveHalf(nvm))))
    <3>1. P \in Seq(Word)
      BY <1>0, Actives, StreamIs DEF Sound
    <3>2. LiveWords(nvm) = Len(P)
      BY DEF LiveWords
    <3> HIDE DEF P
    <3>3. QED
      BY <3>1, <3>2
  <2>3. QED
    BY <1>0, <1>1, <2>1, <2>2
<1>5. QED
  BY <1>3, <1>4

(* Only a set can be refused. *)
LEMMA StepRefuses ==
  ASSUME IInv, Next, last'.out = "full", ~Fresh(nvm, maint.flip)
  PROVE  LiveWords(nvm) + Size(last'.val) > Half
<1>1. ASSUME NEW k \in Keys, NEW v \in Data, Put(k, v)
      PROVE  LiveWords(nvm) + Size(last'.val) > Half
  <2>1. last'.val = v /\ PutOp(k, v).out = "full"
    BY <1>1 DEF Put
  <2>2. QED
    BY <2>1, PutRefused DEF IInv
<1>2. ASSUME NEW k \in Keys, NEW v \in Data, TearPut(k, v) PROVE FALSE
  BY <1>2 DEF TearPut
<1>3. Idle.out = "idle" /\ [Idle EXCEPT !.out = "wiped"].out = "wiped"
  BY DEF Idle
<1>4. CASE Compact
  BY <1>3, <1>4 DEF Compact
<1>5. CASE Maintain
  BY <1>3, <1>5 DEF Maintain
<1>6. CASE Open
  BY <1>3, <1>6 DEF Open
<1>7. CASE PowerLoss
  BY <1>3, <1>7 DEF PowerLoss
<1>8. CASE Wipe
  BY <1>3, <1>8 DEF Wipe
<1>9. QED
  BY <1>1, <1>2, <1>4, <1>5, <1>6, <1>7, <1>8 DEF Next

-----------------------------------------------------------------------------
(* Theorems.                                                               *)

LEMMA Inductive ==
  ASSUME ~TornWipe
  PROVE  Spec => []IInv
<1>1. Init => IInv
  BY InitIInv
<1>2. IInv /\ [Next]_vars => IInv'
  BY StepIInv
<1>3. QED
  BY <1>1, <1>2, PTL DEF Spec

(* As long as no power loss cuts a factory reset, the store is a map: what *)
(* get_bytes returns for a key is what the last set or delete of it left,  *)
(* through every compaction, maintenance slice and power loss.             *)
THEOREM StoreIsMap ==
  ASSUME ~TornWipe
  PROVE  Spec => ImplementsMap
<1>1. Init => Store!Init
  BY DEF Init, Store!Init, Store!Erased, Store!Idle, Idle
<1>2. IInv /\ [Next]_vars => [Store!Next]_<<reads, last>>
  BY StepIInv
<1>3. QED
  BY <1>1, <1>2, Inductive, PTL DEF Spec, ImplementsMap, Store!Spec

(* As long as no power loss cuts a factory reset, no complete record lies  *)
(* beyond the end of the log, however many appends were torn.              *)
THEOREM NothingBuried ==
  ASSUME ~TornWipe
  PROVE  Spec => []NoBuriedRecord
<1>1. IInv => NoBuriedRecord
  BY DEF IInv, Kept, Sound, NoBuried, NoBuriedRecord
<1>2. QED
  BY <1>1, Inductive, PTL

(* What flip_commit is about to commit without looking at it again is the  *)
(* part of the live set copied so far, whatever was appended meanwhile.    *)
THEOREM CopyStaysIntact ==
  ASSUME ~TornWipe
  PROVE  Spec => []PlannedCopyIntact
<1>1. IInv => PlannedCopyIntact
  <2>1. SUFFICES ASSUME IInv, Fresh(nvm, maint.flip)
                 PROVE  LET st == maint.flip
                            dst == 1 - st.half
                            stream == PackedWords(Log(nvm, st.half), st.plan)
                        IN  /\ st.copied > 0 => st.blankOff = Half
                            /\ \A o \in 0..st.blankOff - 1 :
                                 nvm[Base(dst) + o] = IF o < st.copied THEN stream[o + 1] ELSE Blank
    BY DEF PlannedCopyIntact
  <2>2. Pending(nvm, maint.flip)
    BY <2>1 DEF IInv, Kept, FlipOK
  <2>3. QED
    BY <2>2 DEF Pending, Copying, Stream
<1>2. QED
  BY <1>1, Inductive, PTL

(* Left alone, the maintenance task runs out of work within SettleSlices   *)
(* slices, from whatever the callers, the task itself and power losses     *)
(* left, for any sizes, budget and threshold: it does not flip for ever.   *)
(* What it leaves is blank in the half that is not active.                 *)
THEOREM MaintenanceEnds ==
  ASSUME ~TornWipe
  PROVE  Spec => []MaintenanceSettles
<1>1. IInv => MaintenanceSettles
  BY Settles
<1>2. QED
  BY <1>1, Inductive, PTL

(* A set that finishes no pending flip is refused only when the live       *)
(* words leave no room for the record, whatever the sizes of the records   *)
(* and however much garbage the log had.                                   *)
THEOREM RefusalsAreFull ==
  ASSUME ~TornWipe
  PROVE  Spec => RefusedOnlyWhenFull
<1> DEFINE Refuses == last'.out = "full" /\ ~Fresh(nvm, maint.flip)
                        => LiveWords(nvm) + Size(last'.val) > Half
<1>1. IInv /\ [Next]_vars => [Refuses]_vars
  BY StepRefuses
<1>2. QED
  BY <1>1, Inductive, PTL DEF Spec, RefusedOnlyWhenFull
=============================================================================
