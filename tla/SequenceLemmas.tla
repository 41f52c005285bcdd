--------------------------- MODULE SequenceLemmas ---------------------------
(***************************************************************************)
(* What FlattenSeq, of which the programs of the scenarios and the runners *)
(* are made, keeps: a set of sequences that is closed under concatenation  *)
(* holds the concatenation of any number of its members.  The induction    *)
(* over the length is the choice of a smallest counterexample, since an    *)
(* induction rule takes an operator that no backend can instantiate.       *)
(***************************************************************************)
EXTENDS SequencesExt, WellFoundedInduction, SequenceTheorems, TLAPS

\* A set of numbers that is not empty has a smallest member.
LEMMA Smallest ==
  ASSUME NEW T, T \subseteq Nat, T # {}
  PROVE  \E x \in T : \A y \in T : x <= y
<1>. DEFINE R == {ss \in Nat \X Nat : ss[1] < ss[2]}
<1>1. IsWellFoundedOn(R, Nat)
  BY NatLessThanWellFounded DEF OpToRel
<1>2. PICK x \in T : \A y \in T : ~(<<y, x>> \in R)
  BY <1>1, WFMin
<1>3. ASSUME NEW y \in T PROVE x <= y
  <2>1. x \in Nat /\ y \in Nat
    OBVIOUS
  <2>2. ~(y < x)
    BY <1>2, <2>1
  <2>. QED BY <2>1, <2>2
<1>. QED BY <1>3

\* Concatenations of the first sequences of seqs, one for each length up to n.
Builds(f, seqs, n) ==
  f = [i \in 1..n |-> IF i = 1 THEN seqs[i] ELSE f[i - 1] \o seqs[i]]

\* The recursive function in FlattenSeq exists, whatever is concatenated.
LEMMA BuildsExist ==
  ASSUME NEW seqs, NEW n \in Nat
  PROVE  \E f : Builds(f, seqs, n)
<1>. DEFINE T == {m \in Nat : ~ \E f : Builds(f, seqs, m)}
<1>1. SUFFICES ASSUME T # {} PROVE FALSE
  OBVIOUS
<1>2. PICK m \in T : \A k \in T : m <= k
  BY <1>1, Smallest
<1>3. m \in Nat /\ ~ \E f : Builds(f, seqs, m)
  OBVIOUS
<1>4. CASE m = 0
  <2>. DEFINE g == [i \in 1..0 |-> seqs[1]]
  <2>1. Builds(g, seqs, 0)
    BY DEF Builds
  <2>. QED BY <2>1, <1>3, <1>4
<1>5. CASE m # 0
  <2>1. m - 1 \in Nat /\ m - 1 \notin T
    BY <1>2, <1>3, <1>5
  <2>2. PICK f : Builds(f, seqs, m - 1)
    BY <2>1
  <2>3. PICK g : g = [i \in 1..m |-> IF i = 1 THEN seqs[i] ELSE f[i - 1] \o seqs[i]]
    OBVIOUS
  <2>4. \A i \in 1..(m - 1) : g[i] = f[i]
    <3>1. \A i \in 1..(m - 1) : i \in 1..m
      BY <1>3
    <3>2. f = [i \in 1..(m - 1) |-> IF i = 1 THEN seqs[i] ELSE f[i - 1] \o seqs[i]]
      BY <2>2 DEF Builds
    <3>. QED BY <3>1, <3>2, <2>3
  <2>5. \A i \in 1..m : i # 1 => i - 1 \in 1..(m - 1)
    BY <1>3
  <2>6. \A i \in 1..m : i # 1 => f[i - 1] = g[i - 1]
    BY <2>4, <2>5
  <2>7. Builds(g, seqs, m)
    BY <2>3, <2>6 DEF Builds
  <2>. QED BY <2>7, <1>3
<1>. QED BY <1>4, <1>5

\* FlattenSeq goes through a chain of sets of sequences, when one more sequence leads
\* from each set to the next.
LEMMA FlattenReaches ==
  ASSUME NEW seqs, NEW n \in Nat \ {0}, Len(seqs) = n,
         NEW G, seqs[1] \in G[1],
         \A i \in 1..n : i # 1 => \A p \in G[i - 1] : p \o seqs[i] \in G[i]
  PROVE  FlattenSeq(seqs) \in G[n]
<1>. DEFINE f == CHOOSE h : Builds(h, seqs, n)
<1>1. FlattenSeq(seqs) = f[n]
  BY DEF FlattenSeq, Builds
<1>2. Builds(f, seqs, n)
  BY BuildsExist
<1>3. \A i \in 1..n : f[i] = IF i = 1 THEN seqs[i] ELSE f[i - 1] \o seqs[i]
  BY <1>2 DEF Builds
<1>. HIDE DEF f
<1>. DEFINE T == {i \in 1..n : f[i] \notin G[i]}
<1>4. ASSUME T # {} PROVE FALSE
  <2>1. PICK m \in T : \A k \in T : m <= k
    <3>1. T \subseteq Nat
      OBVIOUS
    <3>. QED BY <3>1, <1>4, Smallest
  <2>2. CASE m = 1
    BY <2>1, <2>2, <1>3
  <2>3. CASE m # 1
    <3>1. m - 1 \in 1..n /\ m - 1 \notin T /\ m \in 1..n
      BY <2>1, <2>3
    <3>2. f[m - 1] \in G[m - 1] /\ f[m] = f[m - 1] \o seqs[m]
      BY <3>1, <2>3, <1>3
    <3>. QED BY <3>1, <3>2, <2>3
  <2>. QED BY <2>2, <2>3
<1>5. f[n] \in G[n]
  BY <1>4
<1>. QED BY <1>1, <1>5

\* FlattenSeq keeps to a set of sequences that is closed under concatenation.
LEMMA FlattenKeeps ==
  ASSUME NEW S, \A p, q \in S : p \o q \in S,
         NEW seqs, NEW n \in Nat \ {0}, Len(seqs) = n, \A i \in 1..n : seqs[i] \in S
  PROVE  FlattenSeq(seqs) \in S
<1>1. PICK G : G = [i \in 1..n |-> S]
  OBVIOUS
<1>2. seqs[1] \in G[1] /\ G[n] = S
  BY <1>1
<1>3. ASSUME NEW i \in 1..n, i # 1, NEW p \in G[i - 1] PROVE p \o seqs[i] \in G[i]
  BY <1>1, <1>3
<1>. QED BY <1>2, <1>3, FlattenReaches

\* Any number of sequences have a set of elements in common.
LEMMA CommonElements ==
  ASSUME NEW I, NEW seqs, \A i \in I : \E S : seqs[i] \in Seq(S)
  PROVE  \E U : \A i \in I : seqs[i] \in Seq(U)
<1>. DEFINE U == {seqs[i][j] : i \in I, j \in UNION {1..Len(seqs[k]) : k \in I}}
<1>1. ASSUME NEW i \in I PROVE seqs[i] \in Seq(U)
  <2>1. PICK S : seqs[i] \in Seq(S)
    OBVIOUS
  <2>2. Len(seqs[i]) \in Nat /\ seqs[i] \in [1..Len(seqs[i]) -> S]
    BY <2>1, LenProperties
  <2>3. ASSUME NEW j \in 1..Len(seqs[i]) PROVE seqs[i][j] \in U
    <3>1. j \in UNION {1..Len(seqs[k]) : k \in I}
      OBVIOUS
    <3>. QED BY <3>1
  <2>. HIDE DEF U
  <2>4. seqs[i] \in [1..Len(seqs[i]) -> U]
    BY <2>2, <2>3
  <2>. QED BY <2>2, <2>4
<1>. HIDE DEF U
<1>2. \A i \in I : seqs[i] \in Seq(U)
  BY <1>1
<1>. QED BY <1>2

\* A sequence behind another one.
LEMMA ConcatOfParts ==
  ASSUME NEW p, NEW q, \E S : p \in Seq(S), \E S : q \in Seq(S)
  PROVE  /\ \E S : p \o q \in Seq(S)
         /\ Len(p) \in Nat /\ Len(q) \in Nat
         /\ Len(p \o q) = Len(p) + Len(q)
         /\ \A i \in 1..Len(p) : (p \o q)[i] = p[i]
         /\ \A i \in 1..Len(q) : (p \o q)[Len(p) + i] = q[i]
<1>1. PICK S : p \in Seq(S)
  OBVIOUS
<1>2. PICK T : q \in Seq(T)
  OBVIOUS
<1>3. p \in Seq(S \cup T) /\ q \in Seq(S \cup T)
  BY <1>1, <1>2, SeqMonotonic
<1>4. Len(p) \in Nat /\ Len(q) \in Nat
  BY <1>3, LenProperties
<1>5. /\ p \o q \in Seq(S \cup T)
      /\ Len(p \o q) = Len(p) + Len(q)
      /\ \A i \in 1 .. Len(p) + Len(q) : (p \o q)[i] = IF i <= Len(p) THEN p[i] ELSE q[i - Len(p)]
  BY <1>3, ConcatProperties
<1>6. \A i \in 1..Len(p) : (p \o q)[i] = p[i]
  BY <1>4, <1>5
<1>7. ASSUME NEW i \in 1..Len(q) PROVE (p \o q)[Len(p) + i] = q[i]
  <2>1. Len(p) + i \in 1 .. Len(p) + Len(q) /\ ~(Len(p) + i <= Len(p)) /\ (Len(p) + i) - Len(p) = i
    BY <1>4
  <2>. QED BY <2>1, <1>5
<1>. QED BY <1>4, <1>5, <1>6, <1>7
=============================================================================
