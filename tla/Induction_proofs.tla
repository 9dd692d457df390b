---------------------------- MODULE Induction_proofs ----------------------------
(***************************************************************************)
(* Induction over the natural numbers as a theorem about sets, and what it *)
(* gives for functions defined by recursion on a number.  The library's    *)
(* NatInduction takes the property as an operator; here it is the set of   *)
(* the numbers that have it, so that a proof can cite the theorem with the *)
(* property expanded.                                                      *)
(***************************************************************************)
EXTENDS Integers, FiniteSetTheorems, TLAPS

(* Every set of natural numbers that is not empty has a least element. *)
THEOREM LeastNumber ==
  ASSUME NEW T, T \subseteq Nat, T # {}
  PROVE  \E x \in T : \A y \in T : x <= y
<1>1. IsWellFoundedOn(OpToRel(<, Nat), Nat)
  BY NatLessThanWellFounded
<1>2. PICK x \in T : \A y \in T : ~(<<y, x>> \in OpToRel(<, Nat))
  BY <1>1, WFMin
<1>3. \A y \in Nat : y < x => <<y, x>> \in OpToRel(<, Nat)
  BY x \in Nat DEF OpToRel
<1>4. \A y \in T : ~(y < x)
  BY <1>2, <1>3, Zenon
<1> QED
  BY <1>4

(* A set that holds 0, and the successor of every number it holds, holds   *)
(* them all.                                                               *)
THEOREM Induction ==
  ASSUME NEW S, 0 \in S, \A n \in Nat : n \in S => n + 1 \in S
  PROVE  Nat \subseteq S
<1> SUFFICES ASSUME Nat \ S # {} PROVE FALSE
  OBVIOUS
<1>1. PICK x \in Nat \ S : \A y \in Nat \ S : x <= y
  <2>1. Nat \ S \subseteq Nat
    OBVIOUS
  <2> QED
    BY <2>1, LeastNumber
<1>2. x - 1 \in Nat /\ x - 1 \notin Nat \ S
  BY <1>1
<1> QED
  BY <1>1, <1>2

(* The same up to a bound. *)
THEOREM InductionTo ==
  ASSUME NEW N \in Nat, NEW S, 0 \in S, \A n \in 0 .. N - 1 : n \in S => n + 1 \in S
  PROVE  0 .. N \subseteq S
<1> DEFINE A == {n \in Nat : n \in S \/ n > N}
<1>1. 0 \in A
  OBVIOUS
<1>2. \A n \in Nat : n \in A => n + 1 \in A
  OBVIOUS
<1>3. Nat \subseteq A
  <2> HIDE DEF A
  <2> QED
    BY <1>1, <1>2, Induction
<1> QED
  BY <1>3
(* A number has what all the numbers before it hand on: every number has.  *)
THEOREM Upward ==
  ASSUME NEW N \in Nat, NEW S,
         \A n \in 0 .. N - 1 : (\A m \in 0 .. n - 1 : m \in S) => n \in S
  PROVE  0 .. N - 1 \subseteq S
<1> DEFINE B == (0 .. N - 1) \ S
<1> SUFFICES ASSUME B # {} PROVE FALSE
  OBVIOUS
<1>1. PICK x \in B : \A y \in B : x <= y
  <2>1. B \subseteq Nat
    OBVIOUS
  <2> HIDE DEF B
  <2> QED
    BY <2>1, LeastNumber
<1>2. x \in 0 .. N - 1 /\ x \notin S
  OBVIOUS
<1>3. ASSUME NEW m \in 0 .. x - 1 PROVE m \in S
  <2>1. m \in 0 .. N - 1 /\ ~(x <= m)
    BY <1>2
  <2> QED
    BY <1>1, <2>1
<1> QED
  BY <1>2, <1>3

(* And down from the last one. *)
THEOREM Downward ==
  ASSUME NEW N \in Nat, NEW S,
         \A n \in 0 .. N - 1 : (\A m \in n + 1 .. N - 1 : m \in S) => n \in S
  PROVE  0 .. N - 1 \subseteq S
<1> DEFINE B == (0 .. N - 1) \ S
           U == {N - b : b \in B}
<1> SUFFICES ASSUME B # {} PROVE FALSE
  OBVIOUS
<1>1. PICK u \in U : \A y \in U : u <= y
  <2>1. U \subseteq Nat /\ U # {}
    OBVIOUS
  <2> HIDE DEF U
  <2> QED
    BY <2>1, LeastNumber
<1>2. PICK x \in B : u = N - x
  OBVIOUS
<1>3. \A b \in B : N - x <= N - b
  BY <1>1, <1>2
<1>4. x \in 0 .. N - 1 /\ x \notin S
  OBVIOUS
<1>5. ASSUME NEW m \in x + 1 .. N - 1 PROVE m \in S
  <2>1. m \in 0 .. N - 1 /\ ~(N - x <= N - m)
    BY <1>4
  <2> QED
    BY <1>3, <2>1
<1> QED
  BY <1>4, <1>5
-----------------------------------------------------------------------------
(* The fold of a function that adds up its values: it takes the elements   *)
(* in the order CHOOSE picks them, whatever the function.                  *)
Pick(s) == CHOOSE x \in s : TRUE

SumTable(f, T) ==
  CHOOSE g : g = [s \in SUBSET T |-> IF s = {} THEN 0 ELSE f[Pick(s)] + g[s \ {Pick(s)}]]

SumOf(f) == FoldFunction(+, 0, f)

LEMMA SumIsTable == ASSUME NEW f PROVE SumOf(f) = SumTable(f, DOMAIN f)[DOMAIN f]
  BY DEF SumOf, FoldFunction, FoldFunctionOnSet, MapThenFoldSet, SumTable, Pick

(* The sets of at most n elements that the fold of T passes through.       *)
UpTo(T, n) == {s \in SUBSET T : Cardinality(s) <= n}

LEMMA UpToNext ==
  ASSUME NEW T, IsFiniteSet(T), NEW n \in Nat, NEW s \in UpTo(T, n + 1), s # {}
  PROVE  /\ Pick(s) \in s
         /\ s \ {Pick(s)} \in UpTo(T, n)
<1>1. s \in SUBSET T /\ IsFiniteSet(s) /\ Cardinality(s) <= n + 1
  BY FS_Subset DEF UpTo
<1>2. Pick(s) \in s
  BY DEF Pick
<1>3. Cardinality(s) \in Nat /\ Cardinality(s \ {Pick(s)}) = Cardinality(s) - 1
  BY <1>1, <1>2, FS_RemoveElement, FS_CardinalityType
<1> QED
  BY <1>1, <1>2, <1>3 DEF UpTo

(* The table of a finite set exists, so it unfolds. *)
LEMMA TableUnfold ==
  ASSUME NEW T, IsFiniteSet(T), NEW f
  PROVE  /\ SumTable(f, T)[{}] = 0
         /\ \A s \in SUBSET T :
              s # {} => /\ Pick(s) \in s
                        /\ SumTable(f, T)[s] = f[Pick(s)] + SumTable(f, T)[s \ {Pick(s)}]
<1> DEFINE S == {n \in Nat : \E g : g = [s \in UpTo(T, n) |->
                                           IF s = {} THEN 0 ELSE f[Pick(s)] + g[s \ {Pick(s)}]]}
<1>1. 0 \in S
  <2> DEFINE g == [s \in UpTo(T, 0) |-> 0]
  <2>1. \A s \in UpTo(T, 0) : s = {}
    <3> TAKE s \in UpTo(T, 0)
    <3>1. s \in SUBSET T /\ IsFiniteSet(s) /\ Cardinality(s) <= 0 /\ Cardinality(s) \in Nat
      BY FS_Subset, FS_CardinalityType DEF UpTo
    <3> QED
      BY <3>1, FS_EmptySet
  <2>2. g = [s \in UpTo(T, 0) |-> IF s = {} THEN 0 ELSE f[Pick(s)] + g[s \ {Pick(s)}]]
    BY <2>1
  <2> QED
    BY <2>2
<1>2. ASSUME NEW n \in Nat, n \in S PROVE n + 1 \in S
  <2>1. PICK g : g = [s \in UpTo(T, n) |->
                        IF s = {} THEN 0 ELSE f[Pick(s)] + g[s \ {Pick(s)}]]
    BY <1>2
  <2> DEFINE h == [s \in UpTo(T, n + 1) |->
                     IF s = {} THEN 0 ELSE f[Pick(s)] + g[s \ {Pick(s)}]]
  <2>2. \A s \in UpTo(T, n) : h[s] = g[s]
    <3>1. \A s \in UpTo(T, n) : g[s] = IF s = {} THEN 0 ELSE f[Pick(s)] + g[s \ {Pick(s)}]
      BY <2>1
    <3>2. UpTo(T, n) \subseteq UpTo(T, n + 1)
      <4> SUFFICES ASSUME NEW s \in UpTo(T, n) PROVE s \in UpTo(T, n + 1)
        OBVIOUS
      <4>1. s \in SUBSET T /\ Cardinality(s) \in Nat /\ Cardinality(s) <= n
        BY FS_Subset, FS_CardinalityType DEF UpTo
      <4> QED
        BY <4>1 DEF UpTo
    <3> QED
      BY <3>1, <3>2
  <2>3. \A s \in UpTo(T, n + 1) : s # {} => h[s \ {Pick(s)}] = g[s \ {Pick(s)}]
    <3> HIDE DEF h
    <3> QED
      BY <2>2, UpToNext
  <2>4. h = [s \in UpTo(T, n + 1) |-> IF s = {} THEN 0 ELSE f[Pick(s)] + h[s \ {Pick(s)}]]
    BY <2>3
  <2> HIDE DEF h
  <2>5. \E g2 : g2 = [s \in UpTo(T, n + 1) |->
                        IF s = {} THEN 0 ELSE f[Pick(s)] + g2[s \ {Pick(s)}]]
    BY <2>4
  <2>6. n + 1 \in Nat
    OBVIOUS
  <2> QED
    BY <2>5, <2>6
<1>3. Nat \subseteq S
  <2> HIDE DEF S
  <2> QED
    BY <1>1, <1>2, Induction
<1>4. SUBSET T = UpTo(T, Cardinality(T)) /\ Cardinality(T) \in Nat
  BY FS_Subset, FS_CardinalityType DEF UpTo
<1>5. \E g : g = [s \in SUBSET T |-> IF s = {} THEN 0 ELSE f[Pick(s)] + g[s \ {Pick(s)}]]
  BY <1>3, <1>4
<1> HIDE DEF S
<1>6. SumTable(f, T) = [s \in SUBSET T |->
                          IF s = {} THEN 0
                          ELSE f[Pick(s)] + SumTable(f, T)[s \ {Pick(s)}]]
  BY <1>5, Zenon DEF SumTable
<1>7. \A s \in SUBSET T : s # {} => Pick(s) \in s
  BY DEF Pick
<1> QED
  BY <1>6, <1>7

(* So a sum is a number, it is zero when every term is, and it grows by    *)
(* one when one term does.                                                 *)
LEMMA SumByOne ==
  ASSUME NEW T, IsFiniteSet(T), NEW f \in [T -> Int], NEW t \in T
  PROVE  /\ SumOf(f) \in Int
         /\ SumOf([f EXCEPT ![t] = @ + 1]) = SumOf(f) + 1
         /\ (\A x \in T : f[x] = 0) => SumOf(f) = 0
<1> DEFINE h == [f EXCEPT ![t] = @ + 1]
           F == SumTable(f, T)
           H == SumTable(h, T)
           One(s) == IF t \in s THEN 1 ELSE 0
           Right(s) == /\ F[s] \in Int
                       /\ H[s] = F[s] + One(s)
                       /\ (\A x \in T : f[x] = 0) => F[s] = 0
           S == {n \in Nat : \A s \in UpTo(T, n) : Right(s)}
<1>1. h[t] = f[t] + 1 /\ \A x \in T \ {t} : h[x] = f[x]
  OBVIOUS
<1>2. /\ F[{}] = 0 /\ H[{}] = 0
      /\ \A s \in SUBSET T : s # {} => /\ Pick(s) \in s
                                       /\ F[s] = f[Pick(s)] + F[s \ {Pick(s)}]
                                       /\ H[s] = h[Pick(s)] + H[s \ {Pick(s)}]
  BY TableUnfold
<1> HIDE DEF F, H, h
<1>3. 0 \in S
  <2>1. ASSUME NEW s \in UpTo(T, 0) PROVE s = {}
    <3>1. s \in SUBSET T /\ IsFiniteSet(s) /\ Cardinality(s) <= 0 /\ Cardinality(s) \in Nat
      BY FS_Subset, FS_CardinalityType DEF UpTo
    <3> QED
      BY <3>1, FS_EmptySet
  <2>2. Right({})
    BY <1>2
  <2> QED
    BY <2>1, <2>2
<1>4. ASSUME NEW n \in Nat, n \in S PROVE n + 1 \in S
  <2>1. ASSUME NEW s \in UpTo(T, n + 1) PROVE Right(s)
    <3>1. CASE s = {}
      BY <1>2, <3>1
    <3>2. CASE s # {}
      <4> DEFINE x == Pick(s)
                 r == s \ {x}
      <4>1. x \in s /\ r \in UpTo(T, n) /\ s \in SUBSET T
        BY <3>2, UpToNext DEF UpTo
      <4>2. F[r] \in Int /\ H[r] = F[r] + One(r) /\ ((\A y \in T : f[y] = 0) => F[r] = 0)
        BY <1>4, <4>1
      <4>3. F[s] = f[x] + F[r] /\ H[s] = h[x] + H[r]
        BY <1>2, <3>2, <4>1
      <4>4. f[x] \in Int /\ x \in T
        BY <4>1
      <4>5. t = x => h[x] = f[x] + 1 /\ t \in s /\ t \notin r
        BY <1>1, <4>1
      <4>6. t # x => h[x] = f[x] /\ (t \in s <=> t \in r)
        BY <1>1, <4>4
      <4> HIDE DEF x, r
      <4> QED
        BY <4>2, <4>3, <4>4, <4>5, <4>6
    <3> QED
      BY <3>1, <3>2
  <2>2. n + 1 \in Nat
    OBVIOUS
  <2> QED
    BY <2>1, <2>2
<1>5. Nat \subseteq S
  <2> HIDE DEF S
  <2> QED
    BY <1>3, <1>4, Induction
<1>6. T \in UpTo(T, Cardinality(T)) /\ Cardinality(T) \in Nat
  BY FS_CardinalityType DEF UpTo
<1>7. Right(T)
  BY <1>5, <1>6
<1>8. SumOf(f) = F[T] /\ SumOf(h) = H[T]
  <2>1. DOMAIN f = T /\ DOMAIN h = T
    BY DEF h
  <2> QED
    BY <2>1, SumIsTable, Zenon DEF F, H
<1> QED
  BY <1>7, <1>8 DEF h

(* The order does not matter: any element can be taken first. *)
AnyOrder(f, T) ==
  \A s \in SUBSET T :
    /\ SumTable(f, T)[s] \in Int
    /\ \A x \in s : SumTable(f, T)[s] = f[x] + SumTable(f, T)[s \ {x}]

Terms(f, T) == \A x \in T : f[x] \in Int

LEMMA SumAnyOrder ==
  ASSUME NEW T, IsFiniteSet(T), NEW f, Terms(f, T)
  PROVE  AnyOrder(f, T)
<1> DEFINE F == SumTable(f, T)
           Right(s) == /\ F[s] \in Int
                       /\ \A x \in s : F[s] = f[x] + F[s \ {x}]
           S == {n \in Nat : \A s \in UpTo(T, n) : Right(s)}
<1>1. /\ F[{}] = 0
      /\ \A s \in SUBSET T :
           s # {} => Pick(s) \in s /\ F[s] = f[Pick(s)] + F[s \ {Pick(s)}]
  BY TableUnfold
<1> HIDE DEF F
<1>2. 0 \in S
  <2>1. ASSUME NEW s \in UpTo(T, 0) PROVE s = {}
    <3>1. s \in SUBSET T /\ IsFiniteSet(s) /\ Cardinality(s) <= 0 /\ Cardinality(s) \in Nat
      BY FS_Subset, FS_CardinalityType DEF UpTo
    <3> QED
      BY <3>1, FS_EmptySet
  <2>2. Right({})
    BY <1>1
  <2> QED
    BY <2>1, <2>2
<1>3. ASSUME NEW n \in Nat, n \in S PROVE n + 1 \in S
  <2>1. ASSUME NEW s \in UpTo(T, n + 1) PROVE Right(s)
    <3>1. CASE s = {}
      BY <1>1, <3>1
    <3>2. CASE s # {}
      <4> DEFINE p == Pick(s)
      <4>1. p \in s /\ s \ {p} \in UpTo(T, n) /\ s \in SUBSET T
        BY <3>2, UpToNext DEF UpTo
      <4>2. F[s] = f[p] + F[s \ {p}] /\ F[s \ {p}] \in Int /\ f[p] \in Int
        BY <1>1, <1>3, <3>2, <4>1 DEF Terms
      <4>3. ASSUME NEW x \in s PROVE F[s] = f[x] + F[s \ {x}]
        <5>1. CASE x = p
          BY <4>2, <5>1
        <5>2. CASE x # p
          <6>1. s \ {x} \in UpTo(T, n)
            <7>1. IsFiniteSet(s) /\ Cardinality(s) <= n + 1
              BY <4>1, FS_Subset DEF UpTo
            <7>2. Cardinality(s \ {x}) = Cardinality(s) - 1 /\ Cardinality(s) \in Nat
              BY <7>1, FS_RemoveElement, FS_CardinalityType
            <7> QED
              BY <4>1, <7>1, <7>2 DEF UpTo
          <6>2. F[s \ {p}] = f[x] + F[(s \ {p}) \ {x}]
            <7>1. x \in s \ {p} /\ Right(s \ {p})
              BY <1>3, <4>1, <5>2
            <7> QED
              BY <7>1
          <6>3. F[s \ {x}] = f[p] + F[(s \ {x}) \ {p}]
            <7>1. p \in s \ {x} /\ Right(s \ {x})
              BY <1>3, <4>1, <5>2, <6>1
            <7> QED
              BY <7>1
          <6>4. (s \ {p}) \ {x} = (s \ {x}) \ {p}
            OBVIOUS
          <6>5. F[(s \ {p}) \ {x}] \in Int /\ f[x] \in Int
            <7>1. (s \ {x}) \ {p} \in UpTo(T, n)
              <8>1. (s \ {x}) \ {p} \subseteq s \ {x} /\ IsFiniteSet(s \ {x})
                    /\ Cardinality(s \ {x}) <= n
                BY <6>1, FS_Subset DEF UpTo
              <8>2. Cardinality((s \ {x}) \ {p}) <= Cardinality(s \ {x})
                    /\ Cardinality(s \ {x}) \in Nat /\ Cardinality((s \ {x}) \ {p}) \in Nat
                BY <8>1, FS_Subset, FS_CardinalityType
              <8> QED
                BY <4>1, <8>1, <8>2 DEF UpTo
            <7> QED
              BY <1>3, <4>1, <6>4, <7>1 DEF Terms
          <6> HIDE DEF p
          <6>6. PICK a \in Int, c \in Int, r \in Int :
                  a = f[p] /\ c = f[x] /\ r = F[(s \ {p}) \ {x}]
            BY <4>2, <6>5
          <6>7. F[s] = a + (c + r) /\ F[s \ {x}] = a + r
            BY <4>2, <6>2, <6>3, <6>4, <6>6, Zenon
          <6>8. a + (c + r) = c + (a + r)
            OBVIOUS
          <6> QED
            BY <6>6, <6>7, <6>8, Zenon
        <5> QED
          BY <5>1, <5>2
      <4>4. F[s] \in Int
        BY <4>2
      <4> QED
        BY <4>3, <4>4
    <3> QED
      BY <3>1, <3>2
  <2>2. n + 1 \in Nat
    OBVIOUS
  <2> QED
    BY <2>1, <2>2
<1>4. Nat \subseteq S
  <2> HIDE DEF S
  <2> QED
    BY <1>2, <1>3, Induction
<1>5. ASSUME NEW s \in SUBSET T PROVE Right(s)
  <2>1. IsFiniteSet(s) /\ Cardinality(s) \in Nat
    BY FS_Subset, FS_CardinalityType
  <2>2. s \in UpTo(T, Cardinality(s))
    BY <2>1 DEF UpTo
  <2> QED
    BY <1>4, <2>1, <2>2
<1> QED
  BY <1>5 DEF F, AnyOrder

(* What a set sums to does not depend on the set its table is for. *)
LEMMA SubTable ==
  ASSUME NEW U, IsFiniteSet(U), NEW T, T \subseteq U, NEW f
  PROVE  \A s \in SUBSET T : SumTable(f, T)[s] = SumTable(f, U)[s]
<1> DEFINE F == SumTable(f, T)
           G == SumTable(f, U)
           S == {n \in Nat : \A s \in UpTo(T, n) : F[s] = G[s]}
<1>1. IsFiniteSet(T)
  BY FS_Subset
<1>2. F[{}] = 0 /\ G[{}] = 0
      /\ \A s \in SUBSET T :
           s # {} => /\ F[s] = f[Pick(s)] + F[s \ {Pick(s)}]
                     /\ G[s] = f[Pick(s)] + G[s \ {Pick(s)}]
  BY <1>1, TableUnfold
<1> HIDE DEF F, G
<1>3. 0 \in S
  <2>1. ASSUME NEW s \in UpTo(T, 0) PROVE s = {}
    <3>1. s \in SUBSET T /\ IsFiniteSet(s) /\ Cardinality(s) <= 0 /\ Cardinality(s) \in Nat
      BY <1>1, FS_Subset, FS_CardinalityType DEF UpTo
    <3> QED
      BY <3>1, FS_EmptySet
  <2> QED
    BY <1>2, <2>1
<1>4. ASSUME NEW n \in Nat, n \in S PROVE n + 1 \in S
  <2>1. ASSUME NEW s \in UpTo(T, n + 1) PROVE F[s] = G[s]
    <3>1. CASE s = {}
      BY <1>2, <3>1
    <3>2. CASE s # {}
      <4>1. s \ {Pick(s)} \in UpTo(T, n) /\ s \in SUBSET T
        BY <1>1, <3>2, UpToNext DEF UpTo
      <4>2. F[s \ {Pick(s)}] = G[s \ {Pick(s)}]
        BY <1>4, <4>1
      <4> QED
        BY <1>2, <3>2, <4>1, <4>2
    <3> QED
      BY <3>1, <3>2
  <2>2. n + 1 \in Nat
    OBVIOUS
  <2> QED
    BY <2>1, <2>2
<1>5. Nat \subseteq S
  <2> HIDE DEF S
  <2> QED
    BY <1>3, <1>4, Induction
<1>6. ASSUME NEW s \in SUBSET T PROVE F[s] = G[s]
  <2>1. IsFiniteSet(s) /\ Cardinality(s) \in Nat
    BY <1>1, FS_Subset, FS_CardinalityType
  <2>2. s \in UpTo(T, Cardinality(s))
    BY <2>1 DEF UpTo
  <2> QED
    BY <1>5, <2>1, <2>2
<1> QED
  BY <1>6 DEF F, G

(* The sum over a set, one element at a time. *)
SumOver(f, T) == SumTable(f, T)[T]

LEMMA SumOverOne ==
  ASSUME NEW T, IsFiniteSet(T), NEW f, Terms(f, T)
  PROVE  /\ SumOver(f, T) \in Int
         /\ SumOver(f, {}) = 0
         /\ \A x \in T : SumOver(f, T) = f[x] + SumOver(f, T \ {x})
<1>1. SumOver(f, T) \in Int /\ \A x \in T : SumOver(f, T) = f[x] + SumTable(f, T)[T \ {x}]
  <2>1. AnyOrder(f, T)
    BY SumAnyOrder, Zenon
  <2>2. T \in SUBSET T
    OBVIOUS
  <2> QED
    BY <2>1, <2>2, Zenon DEF SumOver, AnyOrder
<1>2. \A x \in T : SumTable(f, T)[T \ {x}] = SumOver(f, T \ {x})
  BY SubTable DEF SumOver
<1>3. SumOver(f, {}) = 0
  BY FS_EmptySet, TableUnfold DEF SumOver
<1> QED
  BY <1>1, <1>2, <1>3
=============================================================================
