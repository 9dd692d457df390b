---------------------------- MODULE CacheSims_proofs ----------------------------
(***************************************************************************)
(* What holds of the abstract hierarchy, and of the two other simulators   *)
(* run beside it, for any number of sets, ways and blocks.                 *)
(***************************************************************************)
EXTENDS CacheSims, Induction_proofs

(* The blocks a level holds. *)
Kept(r) == {x \in Block : Has(r, x)}

(* r orders the blocks of each set by their last use. *)
Proper(r, N) ==
  /\ r \subseteq Block \X Block
  /\ \A a, b : <<a, b>> \in r => Has(r, a) /\ Has(r, b) /\ a % N = b % N
  /\ \A a, b \in Kept(r) : a % N = b % N => <<a, b>> \in r \/ <<b, a>> \in r
  /\ \A a, b : <<a, b>> \in r /\ <<b, a>> \in r => a = b
  /\ \A a, b, c : <<a, b>> \in r /\ <<b, c>> \in r => <<a, c>> \in r

Within(r, W, N) == \A a \in Kept(r) : Cardinality(Mates(r, a, N)) <= W

(* A level of W ways and N sets. *)
Level(r, W, N) == Proper(r, N) /\ IsFiniteSet(Kept(r)) /\ Within(r, W, N)

LEMMA KeptHas ==
  ASSUME NEW r, NEW N, Proper(r, N), NEW x
  PROVE  Has(r, x) <=> x \in Kept(r)
  BY DEF Proper, Kept, Has

LEMMA MatesKept ==
  ASSUME NEW r, NEW N, NEW a, NEW x
  PROVE  x \in Mates(r, a, N) <=> x \in Kept(r) /\ x % N = a % N
  BY DEF Mates, Kept

LEMMA MatesFinite ==
  ASSUME NEW r, NEW N, IsFiniteSet(Kept(r)), NEW a
  PROVE  IsFiniteSet(Mates(r, a, N)) /\ Cardinality(Mates(r, a, N)) \in Nat
<1>1. Mates(r, a, N) \subseteq Kept(r)
  BY MatesKept
<1> QED
  BY <1>1, FS_Subset, FS_CardinalityType

(* A level is what Coherent asks of it. *)
LEMMA LevelOrdered ==
  ASSUME NEW r, NEW W, NEW N, Level(r, W, N)
  PROVE  Ordered(r, W, N)
<1> USE DEF Level
<1>1. ASSUME NEW p \in r
      PROVE  /\ {p[1], p[2]} \subseteq Block /\ p[1] % N = p[2] % N
             /\ Has(r, p[1]) /\ Has(r, p[2])
  <2>1. p = <<p[1], p[2]>> /\ p[1] \in Block /\ p[2] \in Block
    BY DEF Proper
  <2>2. <<p[1], p[2]>> \in r
    BY <2>1
  <2> QED
    BY <2>1, <2>2 DEF Proper
<1>2. ASSUME NEW a \in Block, Has(r, a)
      PROVE  /\ Cardinality(Mates(r, a, N)) <= W
             /\ \A b \in Mates(r, a, N) :
                  /\ <<a, b>> \in r \/ <<b, a>> \in r
                  /\ <<a, b>> \in r /\ <<b, a>> \in r => a = b
                  /\ \A c \in Mates(r, a, N) : <<a, b>> \in r /\ <<b, c>> \in r => <<a, c>> \in r
  <2>1. a \in Kept(r)
    BY <1>2 DEF Kept
  <2>2. \A b \in Mates(r, a, N) : b \in Kept(r) /\ b % N = a % N
    BY MatesKept
  <2>3. Cardinality(Mates(r, a, N)) <= W
    BY <2>1 DEF Within
  <2>4. \A b \in Mates(r, a, N) : <<a, b>> \in r \/ <<b, a>> \in r
    BY <2>1, <2>2 DEF Proper
  <2> QED
    BY <2>3, <2>4 DEF Proper
<1> QED
  BY <1>1, <1>2 DEF Ordered
-----------------------------------------------------------------------------
(* What Without and Use do, pair by pair. *)
LEMMA WithoutPair ==
  ASSUME NEW r, NEW out, NEW a, NEW b
  PROVE  <<a, b>> \in Without(r, out) <=> <<a, b>> \in r /\ a \notin out /\ b \notin out
  BY DEF Without

Using(r, x, N) == Use(r, {x}, N)

LEMMA UsePair ==
  ASSUME NEW r, NEW x, NEW N, NEW a, NEW b
  PROVE  <<a, b>> \in Using(r, x, N) <=>
           \/ (<<a, b>> \in r /\ a # x /\ b # x)
           \/ (a = x /\ (b = x \/ (b \in Block /\ Has(r, b) /\ b % N = x % N)))
<1>1. <<a, b>> \in Without(r, {x}) <=> <<a, b>> \in r /\ a # x /\ b # x
  BY WithoutPair
<1>2. UNION {{y} \X (Mates(r, y, N) \cup {y}) : y \in {x}} = {x} \X (Mates(r, x, N) \cup {x})
  OBVIOUS
<1> QED
  BY <1>1, <1>2 DEF Using, Use, Mates

LEMMA UseNothing ==
  ASSUME NEW r, NEW N PROVE Use(r, {}, N) = r /\ Without(r, {}) = r
  BY DEF Use, Without

LEMMA PairsOnly ==
  ASSUME NEW r, r \subseteq Block \X Block, NEW x \in Block, NEW out, NEW N
  PROVE  /\ Without(r, out) \subseteq Block \X Block
         /\ Using(r, x, N) \subseteq Block \X Block
  BY DEF Without, Use, Mates, Using

(* A block that is used becomes the first of its set. *)
LEMMA UseProper ==
  ASSUME NEW r, NEW N, Proper(r, N), NEW x \in Block
  PROVE  /\ Proper(Using(r, x, N), N)
         /\ Kept(Using(r, x, N)) = Kept(r) \cup {x}
<1> DEFINE q == Using(r, x, N)
<1>1. \A a, b : <<a, b>> \in q <=>
           \/ (<<a, b>> \in r /\ a # x /\ b # x)
           \/ (a = x /\ (b = x \/ (b \in Block /\ Has(r, b) /\ b % N = x % N)))
  BY UsePair
<1>2. q \subseteq Block \X Block
  BY PairsOnly DEF Proper
<1> HIDE DEF q
<1>3. ASSUME NEW a PROVE Has(q, a) <=> Has(r, a) \/ a = x
  <2>1. <<a, a>> \in q <=>
           \/ (<<a, a>> \in r /\ a # x /\ a # x)
           \/ (a = x /\ (a = x \/ (a \in Block /\ Has(r, a) /\ a % N = x % N)))
    BY <1>1
  <2> QED
    BY <2>1 DEF Has
<1>4. Kept(q) = Kept(r) \cup {x}
  BY <1>3 DEF Kept
<1>5. \A a, b : <<a, b>> \in r => Has(r, a) /\ Has(r, b) /\ a % N = b % N /\ b \in Block
  BY DEF Proper
<1>6. \A a, b : <<a, b>> \in q => Has(q, a) /\ Has(q, b) /\ a % N = b % N
  BY <1>1, <1>3, <1>5
<1>7. \A a, b \in Kept(q) : a % N = b % N => <<a, b>> \in q \/ <<b, a>> \in q
  <2> SUFFICES ASSUME NEW a \in Kept(q), NEW b \in Kept(q), a % N = b % N
               PROVE <<a, b>> \in q \/ <<b, a>> \in q
    OBVIOUS
  <2>1. CASE a = x \/ b = x
    BY <2>1, <1>1, <1>4 DEF Kept
  <2>2. CASE a # x /\ b # x
    BY <2>2, <1>1, <1>4 DEF Proper
  <2> QED
    BY <2>1, <2>2
<1>8. \A a, b : <<a, b>> \in q /\ <<b, a>> \in q => a = b
  BY <1>1 DEF Proper
<1>9. \A a, b, c : <<a, b>> \in q /\ <<b, c>> \in q => <<a, c>> \in q
  <2> SUFFICES ASSUME NEW a, NEW b, NEW c, <<a, b>> \in q, <<b, c>> \in q PROVE <<a, c>> \in q
    OBVIOUS
  <2>1. CASE a = x
    BY <2>1, <1>1, <1>5, <1>6
  <2>2. CASE a # x
    BY <2>2, <1>1 DEF Proper
  <2> QED
    BY <2>1, <2>2
<1>10. Proper(q, N)
  BY <1>2, <1>6, <1>7, <1>8, <1>9 DEF Proper
<1> QED
  BY <1>4, <1>10 DEF q

LEMMA WithoutProper ==
  ASSUME NEW r, NEW N, Proper(r, N), NEW out
  PROVE  /\ Proper(Without(r, out), N)
         /\ Kept(Without(r, out)) = Kept(r) \ out
<1> DEFINE q == Without(r, out)
<1>1. \A a, b : <<a, b>> \in q <=> <<a, b>> \in r /\ a \notin out /\ b \notin out
  BY WithoutPair
<1>2. q \subseteq Block \X Block
  BY DEF Proper, Without
<1> HIDE DEF q
<1>3. \A a : Has(q, a) <=> Has(r, a) /\ a \notin out
  BY <1>1 DEF Has
<1>4. Kept(q) = Kept(r) \ out
  BY <1>3 DEF Kept
<1>5. Proper(q, N)
  BY <1>1, <1>2, <1>3, <1>4 DEF Proper
<1> QED
  BY <1>4, <1>5 DEF q
-----------------------------------------------------------------------------
(* Blocks of one set, finitely many: one of them all others follow.        *)
LEMMA LastOf ==
  ASSUME NEW r, NEW N, Proper(r, N),
         NEW T, T \subseteq Kept(r), IsFiniteSet(T), T # {},
         \A a, b \in T : a % N = b % N
  PROVE  \E x \in T : \A y \in T : <<y, x>> \in r
<1> DEFINE S == {n \in Nat : \A U \in SUBSET T :
                   U # {} /\ Cardinality(U) = n => \E x \in U : \A y \in U : <<y, x>> \in r}
<1>1. 0 \in S
  <2>1. \A U \in SUBSET T : Cardinality(U) = 0 => U = {}
    BY FS_Subset, FS_EmptySet
  <2> QED
    BY <2>1
<1>2. ASSUME NEW n \in Nat, n \in S PROVE n + 1 \in S
  <2> SUFFICES ASSUME NEW U \in SUBSET T, U # {}, Cardinality(U) = n + 1
               PROVE  \E x \in U : \A y \in U : <<y, x>> \in r
    OBVIOUS
  <2>1. PICK u \in U : TRUE
    OBVIOUS
  <2>2. IsFiniteSet(U) /\ Cardinality(U \ {u}) = n
    <3>1. IsFiniteSet(U)
      BY FS_Subset
    <3>2. Cardinality(U \ {u}) = Cardinality(U) - 1
      BY <2>1, <3>1, FS_RemoveElement
    <3> QED
      BY <3>1, <3>2
  <2>3. <<u, u>> \in r
    BY <2>1 DEF Kept, Has
  <2>4. CASE U \ {u} = {}
    BY <2>1, <2>3, <2>4
  <2>5. CASE U \ {u} # {}
    <3>1. PICK x \in U \ {u} : \A y \in U \ {u} : <<y, x>> \in r
      BY <1>2, <2>2, <2>5
    <3>2. <<u, x>> \in r \/ <<x, u>> \in r
      BY <2>1, <3>1 DEF Proper
    <3>3. CASE <<u, x>> \in r
      BY <3>1, <3>3
    <3>4. CASE <<x, u>> \in r
      <4>1. \A y \in U : <<y, u>> \in r
        BY <2>3, <3>1, <3>4 DEF Proper
      <4> QED
        BY <2>1, <4>1
    <3> QED
      BY <3>2, <3>3, <3>4
  <2> QED
    BY <2>4, <2>5
<1>3. Nat \subseteq S
  <2> HIDE DEF S
  <2> QED
    BY <1>1, <1>2, Induction
<1>4. Cardinality(T) \in Nat
  BY FS_CardinalityType
<1> QED
  BY <1>3, <1>4

(* A set loses a block exactly when it is full. *)
LEMMA LeavingOne ==
  ASSUME NEW r, NEW W \in Nat \ {0}, NEW N, Level(r, W, N), NEW b
  PROVE  \/ /\ Cardinality(Mates(r, b, N)) < W
            /\ Leaving(r, b, W, N) = {}
         \/ /\ Cardinality(Mates(r, b, N)) = W
            /\ \E x \in Mates(r, b, N) : /\ Leaving(r, b, W, N) = {x}
                                         /\ \A y \in Mates(r, b, N) : <<y, x>> \in r
<1> DEFINE M == Mates(r, b, N)
<1>1. IsFiniteSet(M) /\ Cardinality(M) \in Nat
  BY MatesFinite DEF Level
<1>2. M \subseteq Kept(r) /\ \A x \in M : x % N = b % N
  BY MatesKept
<1>3. CASE Cardinality(M) < W
  BY <1>1, <1>3 DEF Leaving
<1>4. CASE Cardinality(M) >= W
  <2>1. M # {}
    BY <1>1, <1>4, FS_EmptySet
  <2>2. PICK x \in M : \A y \in M : <<y, x>> \in r
    <3> HIDE DEF M
    <3> QED
      BY <1>1, <1>2, <2>1, LastOf DEF Level
  <2>3. Mates(r, x, N) = M
    BY <1>2, <2>2 DEF Mates
  <2>4. Cardinality(M) = W
    BY <1>1, <1>2, <1>4, <2>2, <2>3 DEF Level, Within
  <2>5. \A z \in M : (\A y \in M : <<y, z>> \in r) => z = x
    BY <2>2 DEF Level, Proper
  <2>6. Leaving(r, b, W, N) = {x}
    BY <1>4, <2>2, <2>5 DEF Leaving
  <2> QED
    BY <2>2, <2>4, <2>6
<1> QED
  BY <1>1, <1>3, <1>4

LEMMA WithoutLevel ==
  ASSUME NEW r, NEW W \in Nat \ {0}, NEW N, Level(r, W, N), NEW out
  PROVE  /\ Level(Without(r, out), W, N)
         /\ Kept(Without(r, out)) = Kept(r) \ out
<1> DEFINE q == Without(r, out)
<1>1. Proper(q, N) /\ Kept(q) = Kept(r) \ out
  BY WithoutProper DEF Level
<1> HIDE DEF q
<1>2. IsFiniteSet(Kept(q))
  BY <1>1, FS_Subset DEF Level
<1>3. ASSUME NEW a \in Kept(q) PROVE Cardinality(Mates(q, a, N)) <= W
  <2>1. Mates(q, a, N) \subseteq Mates(r, a, N)
    BY <1>1, MatesKept
  <2>2. IsFiniteSet(Mates(r, a, N)) /\ Cardinality(Mates(r, a, N)) \in Nat
    BY MatesFinite DEF Level
  <2>3. Cardinality(Mates(q, a, N)) <= Cardinality(Mates(r, a, N))
    BY <2>1, <2>2, FS_Subset
  <2>4. Cardinality(Mates(r, a, N)) <= W /\ Cardinality(Mates(q, a, N)) \in Nat
    BY <1>1, <1>2, MatesFinite DEF Level, Within
  <2> QED
    BY <2>2, <2>3, <2>4
<1> QED
  BY <1>1, <1>2, <1>3 DEF Level, Within, q

(* A block is used for which its set has room. *)
LEMMA UseLevel ==
  ASSUME NEW r, NEW W \in Nat \ {0}, NEW N, Level(r, W, N), NEW x \in Block,
         Has(r, x) \/ Cardinality(Mates(r, x, N)) < W
  PROVE  /\ Level(Using(r, x, N), W, N)
         /\ Kept(Using(r, x, N)) = Kept(r) \cup {x}
<1> DEFINE q == Using(r, x, N)
<1>1. Proper(q, N) /\ Kept(q) = Kept(r) \cup {x}
  BY UseProper DEF Level
<1> HIDE DEF q
<1>2. IsFiniteSet(Kept(q))
  BY <1>1, FS_AddElement DEF Level
<1>3. IsFiniteSet(Mates(r, x, N)) /\ Cardinality(Mates(r, x, N)) \in Nat
  BY MatesFinite DEF Level
<1>4. Mates(q, x, N) = Mates(r, x, N) \cup {x}
  BY <1>1, MatesKept
<1>5. Cardinality(Mates(q, x, N)) <= W
  <2>1. CASE Has(r, x)
    <3>1. x \in Kept(r) /\ x \in Mates(r, x, N)
      BY <2>1 DEF Kept, Mates
    <3>2. Mates(q, x, N) = Mates(r, x, N)
      BY <1>4, <3>1
    <3> QED
      BY <3>1, <3>2 DEF Level, Within
  <2>2. CASE ~Has(r, x)
    <3>1. x \notin Mates(r, x, N)
      BY <2>2 DEF Mates
    <3>2. Cardinality(Mates(q, x, N)) = Cardinality(Mates(r, x, N)) + 1
      BY <1>3, <1>4, <3>1, FS_AddElement
    <3> QED
      BY <1>3, <2>2, <3>2
  <2> QED
    BY <2>1, <2>2
<1>6. ASSUME NEW a \in Kept(q) PROVE Cardinality(Mates(q, a, N)) <= W
  <2>1. CASE a % N = x % N
    <3>1. Mates(q, a, N) = Mates(q, x, N)
      BY <2>1 DEF Mates
    <3> QED
      BY <3>1, <1>5
  <2>2. CASE a % N # x % N
    <3>1. a \in Kept(r)
      BY <1>1, <1>6, <2>2
    <3>2. \A y : y \in Mates(q, a, N) <=> y \in Mates(r, a, N)
      BY <1>1, <2>2, MatesKept
    <3>3. Mates(q, a, N) = Mates(r, a, N)
      BY <3>2
    <3> QED
      BY <3>1, <3>3 DEF Level, Within
  <2> QED
    BY <2>1, <2>2
<1> QED
  BY <1>1, <1>2, <1>6 DEF Level, Within, q

(* A block enters a level: the one that leaves makes room. *)
LEMMA EnterLevel ==
  ASSUME NEW r, NEW W \in Nat \ {0}, NEW N, Level(r, W, N), NEW x \in Block
  PROVE  /\ Level(Enter(r, x, W, N), W, N)
         /\ Kept(Enter(r, x, W, N)) = (Kept(r) \ Leaving(r, x, W, N)) \cup {x}
<1> DEFINE out == Leaving(r, x, W, N)
           q == Without(r, out)
<1>1. Level(q, W, N) /\ Kept(q) = Kept(r) \ out
  BY WithoutLevel
<1>2. Enter(r, x, W, N) = Using(q, x, N)
  BY DEF Enter, Using
<1>3. Mates(q, x, N) = Mates(r, x, N) \ out
  <2> HIDE DEF q, out
  <2> QED
    BY <1>1, MatesKept
<1>4. Cardinality(Mates(q, x, N)) < W
  <2>0. IsFiniteSet(Mates(r, x, N))
    BY MatesFinite DEF Level
  <2>1. CASE /\ Cardinality(Mates(r, x, N)) < W
             /\ out = {}
    <3>1. Mates(q, x, N) = Mates(r, x, N)
      BY <1>3, <2>1
    <3> QED
      BY <2>1, <3>1
  <2>2. CASE /\ Cardinality(Mates(r, x, N)) = W
             /\ \E y \in Mates(r, x, N) : out = {y}
    <3>1. PICK y \in Mates(r, x, N) : out = {y}
      BY <2>2
    <3>2. Cardinality(Mates(r, x, N) \ {y}) = W - 1
      BY <2>0, <2>2, <3>1, FS_RemoveElement
    <3> QED
      BY <1>3, <3>1, <3>2
  <2>3. \/ /\ Cardinality(Mates(r, x, N)) < W
           /\ out = {}
        \/ /\ Cardinality(Mates(r, x, N)) = W
           /\ \E y \in Mates(r, x, N) : out = {y}
    <3>1. \/ /\ Cardinality(Mates(r, x, N)) < W
             /\ Leaving(r, x, W, N) = {}
          \/ /\ Cardinality(Mates(r, x, N)) = W
             /\ \E y \in Mates(r, x, N) : /\ Leaving(r, x, W, N) = {y}
                                          /\ \A z \in Mates(r, x, N) : <<z, y>> \in r
      BY LeavingOne
    <3> QED
      BY <3>1, Zenon
  <2> HIDE DEF out, q
  <2> QED
    BY <2>1, <2>2, <2>3
<1>5. Level(Using(q, x, N), W, N) /\ Kept(Using(q, x, N)) = Kept(q) \cup {x}
  <2> HIDE DEF q
  <2> QED
    BY <1>1, <1>4, UseLevel
<1> QED
  BY <1>1, <1>2, <1>5
-----------------------------------------------------------------------------
(* The inductive invariant: the two levels are orders, L1 is within L2,    *)
(* only blocks held are dirty, and the dirty ones are those newer than     *)
(* memory.                                                                 *)
HierarchyInv ==
  /\ Level(recent1, L1Ways, L1Sets)
  /\ Level(recent2, L2Ways, L2Sets)
  /\ Kept(recent1) \subseteq Kept(recent2)
  /\ dirty1 \subseteq Kept(recent1)
  /\ dirty2 \subseteq Kept(recent2)
  /\ dirty1 \cup dirty2 = written

LEMMA HierarchyCoherent == HierarchyInv => Coherent /\ WritesKept
<1> SUFFICES ASSUME HierarchyInv PROVE Coherent /\ WritesKept
  OBVIOUS
<1>1. Ordered(recent1, L1Ways, L1Sets) /\ Ordered(recent2, L2Ways, L2Sets)
  BY LevelOrdered DEF HierarchyInv
<1>2. /\ \A b \in Block : In1(b) => In2(b)
      /\ \A b \in dirty1 : In1(b)
      /\ \A b \in dirty2 : In2(b)
  BY DEF HierarchyInv, Kept, In1, In2
<1> QED
  BY <1>1, <1>2 DEF HierarchyInv, Coherent, WritesKept

LEMMA EmptyLevel ==
  ASSUME NEW W, NEW N PROVE Level({}, W, N) /\ Kept({}) = {}
<1>1. Kept({}) = {}
  BY DEF Kept, Has
<1> QED
  BY <1>1, FS_EmptySet DEF Level, Proper, Within

LEMMA HierarchyInvInit == Init => HierarchyInv
<1> SUFFICES ASSUME Init PROVE HierarchyInv
  OBVIOUS
<1>1. /\ Level({}, L1Ways, L1Sets)
      /\ Level({}, L2Ways, L2Sets)
      /\ Kept({}) = {}
  BY EmptyLevel
<1> QED
  BY <1>1 DEF Init, HierarchyInv

(* Blocks of a level, one at most, are used. *)
LEMMA UseSome ==
  ASSUME NEW r, NEW W \in Nat \ {0}, NEW N, Level(r, W, N),
         NEW used, NEW x, used \subseteq {x}, used \subseteq Kept(r)
  PROVE  /\ Level(Use(r, used, N), W, N)
         /\ Kept(Use(r, used, N)) = Kept(r)
<1>1. CASE used = {}
  BY <1>1, UseNothing
<1>2. CASE used = {x}
  <2>1. x \in Block /\ Has(r, x) /\ x \in Kept(r)
    BY <1>2 DEF Kept
  <2>2. Level(Using(r, x, N), W, N) /\ Kept(Using(r, x, N)) = Kept(r) \cup {x}
    BY <2>1, UseLevel
  <2> QED
    BY <1>2, <2>1, <2>2 DEF Using
<1> QED
  BY <1>1, <1>2

LEMMA UseHeld ==
  ASSUME NEW r, NEW W \in Nat \ {0}, NEW N, Level(r, W, N), NEW x, Has(r, x)
  PROVE  /\ Level(Use(r, {x}, N), W, N)
         /\ Kept(Use(r, {x}, N)) = Kept(r)
<1>1. x \in Kept(r)
  BY KeptHas DEF Level
<1> QED
  BY <1>1, UseSome

LEMMA LeavingHeld ==
  ASSUME NEW r, NEW W \in Nat \ {0}, NEW N, Level(r, W, N), NEW b
  PROVE  /\ Leaving(r, b, W, N) \subseteq Kept(r)
         /\ \E x : Leaving(r, b, W, N) \subseteq {x}
<1>1. Leaving(r, b, W, N) \subseteq Kept(r)
  BY MatesKept DEF Leaving
<1>2. Leaving(r, b, W, N) = {} \/ \E x : Leaving(r, b, W, N) = {x}
  <2>1. \/ /\ Cardinality(Mates(r, b, N)) < W
           /\ Leaving(r, b, W, N) = {}
        \/ /\ Cardinality(Mates(r, b, N)) = W
           /\ \E x \in Mates(r, b, N) : /\ Leaving(r, b, W, N) = {x}
                                        /\ \A y \in Mates(r, b, N) : <<y, x>> \in r
    BY LeavingOne
  <2> QED
    BY <2>1, Zenon
<1> QED
  BY <1>1, <1>2

(* What enters L1 keeps both levels in order. *)
LEMMA EnterL1Keeps ==
  ASSUME NEW one, Level(one, L1Ways, L1Sets),
         NEW two, Level(two, L2Ways, L2Sets),
         NEW d1, NEW d2, d1 \subseteq Kept(one), d2 \subseteq Kept(two),
         NEW b \in Block, NEW dirtyNow \in BOOLEAN,
         Kept(one) \subseteq Kept(two), b \in Kept(two),
         EnterL1(b, one, d1, d2, dirtyNow)
  PROVE  /\ Level(recent1', L1Ways, L1Sets)
         /\ Kept(recent1') \subseteq Kept(two)
         /\ dirty1' \subseteq Kept(recent1')
         /\ dirty2' \subseteq Kept(two)
         /\ dirty1' \cup dirty2' = d1 \cup d2 \cup (IF dirtyNow THEN {b} ELSE {})
<1> USE LevelSizes
<1> DEFINE V == Leaving(one, b, L1Ways, L1Sets)
<1>1. /\ recent1' = Enter(one, b, L1Ways, L1Sets)
      /\ dirty1' = (d1 \ V) \cup (IF dirtyNow THEN {b} ELSE {})
      /\ dirty2' = d2 \cup (V \cap d1)
  BY DEF EnterL1, Victims, StaleBelow
<1>2. /\ Level(Enter(one, b, L1Ways, L1Sets), L1Ways, L1Sets)
      /\ Kept(Enter(one, b, L1Ways, L1Sets)) = (Kept(one) \ V) \cup {b}
  BY EnterLevel
<1>3. V \subseteq Kept(one)
  BY LeavingHeld
<1> HIDE DEF V
<1> QED
  BY <1>1, <1>2, <1>3

LEMMA Hit1Keeps ==
  ASSUME HierarchyInv, NEW b \in Block, NEW dirtyNow \in BOOLEAN, Hit1(b, dirtyNow)
  PROVE  /\ Level(recent1', L1Ways, L1Sets)
         /\ Level(recent2', L2Ways, L2Sets)
         /\ Kept(recent1') \subseteq Kept(recent2')
         /\ dirty1' \subseteq Kept(recent1')
         /\ dirty2' \subseteq Kept(recent2')
         /\ dirty1' \cup dirty2' =
              ((dirty1 \cup dirty2) \cup (IF dirtyNow THEN {b} ELSE {})) \cap Kept(recent2')
<1> USE LevelSizes
<1>1. /\ Level(Use(recent1, {b}, L1Sets), L1Ways, L1Sets)
      /\ Kept(Use(recent1, {b}, L1Sets)) = Kept(recent1)
  BY UseHeld DEF HierarchyInv, Hit1, In1
<1>2. b \in Kept(recent1)
  BY DEF Hit1, In1, Kept
<1> QED
  BY <1>1, <1>2 DEF HierarchyInv, Hit1

LEMMA Hit2Keeps ==
  ASSUME HierarchyInv, NEW b \in Block, NEW dirtyNow \in BOOLEAN, Hit2(b, dirtyNow)
  PROVE  /\ Level(recent1', L1Ways, L1Sets)
         /\ Level(recent2', L2Ways, L2Sets)
         /\ Kept(recent1') \subseteq Kept(recent2')
         /\ dirty1' \subseteq Kept(recent1')
         /\ dirty2' \subseteq Kept(recent2')
         /\ dirty1' \cup dirty2' =
              ((dirty1 \cup dirty2) \cup (IF dirtyNow THEN {b} ELSE {})) \cap Kept(recent2')
<1> USE LevelSizes
<1> DEFINE stale == StaleBelow(b, recent1, dirty1)
<1>1. b \in Kept(recent2) /\ Has(recent2, b)
  BY DEF Hit2, In2, Kept
<1>2. /\ Level(recent1', L1Ways, L1Sets)
      /\ Kept(recent1') \subseteq Kept(recent2)
      /\ dirty1' \subseteq Kept(recent1')
      /\ dirty2' \subseteq Kept(recent2)
      /\ dirty1' \cup dirty2' = dirty1 \cup dirty2 \cup (IF dirtyNow THEN {b} ELSE {})
  <2> DEFINE one == recent1
             two == recent2
             d1  == dirty1
             d2  == dirty2
  <2>0. /\ Level(one, L1Ways, L1Sets) /\ Level(two, L2Ways, L2Sets)
        /\ Kept(one) \subseteq Kept(two) /\ b \in Kept(two)
        /\ d1 \subseteq Kept(one) /\ d2 \subseteq Kept(two)
    BY <1>1 DEF HierarchyInv
  <2>1. EnterL1(b, one, d1, d2, dirtyNow)
    BY DEF Hit2
  <2>2. /\ Level(recent1', L1Ways, L1Sets)
        /\ Kept(recent1') \subseteq Kept(two)
        /\ dirty1' \subseteq Kept(recent1')
        /\ dirty2' \subseteq Kept(two)
        /\ dirty1' \cup dirty2' = d1 \cup d2 \cup (IF dirtyNow THEN {b} ELSE {})
    <3> HIDE DEF stale, one, two, d1, d2
    <3>1. Level(recent1', L1Ways, L1Sets)
      BY ONLY <2>0, <2>1, EnterL1Keeps, b \in Block, dirtyNow \in BOOLEAN
    <3>2. Kept(recent1') \subseteq Kept(two)
      <4> SUFFICES ASSUME NEW y, y \in Kept(recent1') PROVE y \in Kept(two)
        OBVIOUS
      <4> QED
        BY ONLY <2>0, <2>1, EnterL1Keeps, b \in Block, dirtyNow \in BOOLEAN, y \in Kept(recent1')
    <3>3. dirty1' \subseteq Kept(recent1')
      BY ONLY <2>0, <2>1, EnterL1Keeps, b \in Block, dirtyNow \in BOOLEAN
    <3>4. dirty2' \subseteq Kept(two)
      BY ONLY <2>0, <2>1, EnterL1Keeps, b \in Block, dirtyNow \in BOOLEAN
    <3>5. dirty1' \cup dirty2' = d1 \cup d2 \cup (IF dirtyNow THEN {b} ELSE {})
      BY ONLY <2>0, <2>1, EnterL1Keeps, b \in Block, dirtyNow \in BOOLEAN
    <3> QED
      BY <3>1, <3>2, <3>3, <3>4, <3>5
  <2> QED
    BY <2>2
<1>3. PICK x : stale \subseteq {x}
  BY LeavingHeld DEF HierarchyInv, StaleBelow, Victims
<1>4. stale \subseteq Kept(recent2)
  BY DEF HierarchyInv, StaleBelow
<1>5. recent2' = IF victimFirst THEN Use(Use(recent2, stale, L2Sets), {b}, L2Sets)
                 ELSE Use(Use(recent2, {b}, L2Sets), stale, L2Sets)
  BY DEF Hit2
<1> HIDE DEF stale
<1>6. Level(recent2', L2Ways, L2Sets) /\ Kept(recent2') = Kept(recent2)
  <2>1. CASE victimFirst
    <3> DEFINE q == Use(recent2, stale, L2Sets)
    <3>1. Level(q, L2Ways, L2Sets) /\ Kept(q) = Kept(recent2)
      BY <1>3, <1>4, UseSome DEF HierarchyInv
    <3>2. Has(q, b)
      BY <1>1, <3>1 DEF Kept
    <3>3. Level(Use(q, {b}, L2Sets), L2Ways, L2Sets) /\ Kept(Use(q, {b}, L2Sets)) = Kept(q)
      <4> HIDE DEF q
      <4> QED
        BY <3>1, <3>2, UseHeld
    <3> QED
      BY <1>5, <2>1, <3>1, <3>3
  <2>2. CASE ~victimFirst
    <3> DEFINE q == Use(recent2, {b}, L2Sets)
    <3>1. Level(q, L2Ways, L2Sets) /\ Kept(q) = Kept(recent2)
      BY <1>1, UseHeld DEF HierarchyInv
    <3>2. Level(Use(q, stale, L2Sets), L2Ways, L2Sets) /\ Kept(Use(q, stale, L2Sets)) = Kept(q)
      <4> HIDE DEF q
      <4> QED
        BY <1>3, <1>4, <3>1, UseSome
    <3> QED
      BY <1>5, <2>2, <3>1, <3>2
  <2> QED
    BY <2>1, <2>2
<1>7. dirty1' \cup dirty2' \subseteq Kept(recent2')
  BY <1>2, <1>6
<1> QED
  BY <1>2, <1>6, <1>7

LEMMA MissKeeps ==
  ASSUME HierarchyInv, NEW b \in Block, NEW dirtyNow \in BOOLEAN, Miss(b, dirtyNow)
  PROVE  /\ Level(recent1', L1Ways, L1Sets)
         /\ Level(recent2', L2Ways, L2Sets)
         /\ Kept(recent1') \subseteq Kept(recent2')
         /\ dirty1' \subseteq Kept(recent1')
         /\ dirty2' \subseteq Kept(recent2')
         /\ dirty1' \cup dirty2' =
              ((dirty1 \cup dirty2) \cup (IF dirtyNow THEN {b} ELSE {})) \cap Kept(recent2')
<1> USE LevelSizes
<1> DEFINE out == Leaving(recent2, b, L2Ways, L2Sets)
           one == Without(recent1, out)
           two == Enter(recent2, b, L2Ways, L2Sets)
           stale == StaleBelow(b, one, dirty1 \ out)
<1>1. /\ EnterL1(b, one, dirty1 \ out, dirty2 \ out, dirtyNow)
      /\ recent2' = Use(two, stale, L2Sets)
      /\ ~Has(recent2, b)
  BY DEF Miss, LeavesBoth, In2
<1>2. Level(one, L1Ways, L1Sets) /\ Kept(one) = Kept(recent1) \ out
  BY WithoutLevel DEF HierarchyInv
<1>3. Level(two, L2Ways, L2Sets) /\ Kept(two) = (Kept(recent2) \ out) \cup {b}
  BY EnterLevel DEF HierarchyInv
<1>4. stale \subseteq dirty1 \ out /\ \E x : stale \subseteq {x}
  <2> HIDE DEF one, out
  <2> QED
    BY <1>2, LeavingHeld DEF StaleBelow, Victims
<1>5. out \subseteq Kept(recent2)
  BY LeavingHeld DEF HierarchyInv
<1> HIDE DEF out, one, two, stale
<1>6. /\ dirty1 \ out \subseteq Kept(one) /\ dirty2 \ out \subseteq Kept(two)
      /\ Kept(one) \subseteq Kept(two) /\ b \in Kept(two)
  BY <1>2, <1>3 DEF HierarchyInv
<1>7. /\ Level(recent1', L1Ways, L1Sets)
      /\ Kept(recent1') \subseteq Kept(two)
      /\ dirty1' \subseteq Kept(recent1')
      /\ dirty2' \subseteq Kept(two)
      /\ dirty1' \cup dirty2' = (dirty1 \ out) \cup (dirty2 \ out) \cup (IF dirtyNow THEN {b} ELSE {})
  BY <1>1, <1>2, <1>3, <1>6, EnterL1Keeps
<1>8. Level(recent2', L2Ways, L2Sets) /\ Kept(recent2') = Kept(two)
  <2>1. PICK x : stale \subseteq {x}
    BY <1>4
  <2>2. stale \subseteq Kept(two)
    BY <1>4, <1>6
  <2> QED
    BY <1>1, <1>3, <2>1, <2>2, UseSome
<1>9. b \notin out
  BY <1>1, <1>5 DEF Kept
<1>10. dirty1 \cup dirty2 \subseteq Kept(recent2)
  BY DEF HierarchyInv
<1> QED
  BY <1>3, <1>7, <1>8, <1>9, <1>10

LEMMA WrittenKept ==
  ASSUME NEW r, NEW N, Proper(r, N), NEW T, NEW K, K = {v \in T : Has(r, v)}
  PROVE  K = T \cap Kept(r)
  BY KeptHas

LEMMA ReadKeeps ==
  ASSUME HierarchyInv, NEW b \in Block, Read(b)
  PROVE  HierarchyInv'
<1>1. /\ Level(recent1', L1Ways, L1Sets)
      /\ Level(recent2', L2Ways, L2Sets)
      /\ Kept(recent1') \subseteq Kept(recent2')
      /\ dirty1' \subseteq Kept(recent1')
      /\ dirty2' \subseteq Kept(recent2')
      /\ dirty1' \cup dirty2' = (dirty1 \cup dirty2) \cap Kept(recent2')
  BY Hit1Keeps, Hit2Keeps, MissKeeps DEF Read
<1>2. written' = written \cap Kept(recent2')
  <2>1. written' = {v \in written : Has(recent2', v)}
    BY DEF Read
  <2> QED
    BY <1>1, <2>1, WrittenKept DEF Level
<1> QED
  BY <1>1, <1>2 DEF HierarchyInv, Level, Proper, Within, Kept, Has, Mates

LEMMA WriteKeeps ==
  ASSUME HierarchyInv, NEW b \in Block, Write(b)
  PROVE  HierarchyInv'
<1> USE LevelSizes
<1>1. /\ Level(recent1', L1Ways, L1Sets)
      /\ Level(recent2', L2Ways, L2Sets)
      /\ Kept(recent1') \subseteq Kept(recent2')
      /\ dirty1' \subseteq Kept(recent1')
      /\ dirty2' \subseteq Kept(recent2')
      /\ dirty1' \cup dirty2' = (written \cup {b}) \cap Kept(recent2')
  <2>0. dirty1 \cup dirty2 = written /\ written \subseteq Kept(recent2)
    BY DEF HierarchyInv
  <2>1. CASE Hit1(b, TRUE)
    BY <2>0, <2>1, Hit1Keeps
  <2>2. CASE Hit2(b, TRUE)
    BY <2>0, <2>2, Hit2Keeps
  <2>3. CASE Miss(b, TRUE)
    BY <2>0, <2>3, MissKeeps
  <2>4. CASE /\ ~In1(b) /\ In2(b)
             /\ recent2' = Use(recent2, {b}, L2Sets)
             /\ dirty2' = dirty2 \cup {b}
             /\ UNCHANGED <<recent1, dirty1>>
    <3>1. /\ Level(recent2', L2Ways, L2Sets)
          /\ Kept(recent2') = Kept(recent2)
      BY <2>4, UseHeld DEF HierarchyInv, In2
    <3>2. b \in Kept(recent2)
      BY <2>4 DEF In2, Kept
    <3> QED
      BY <2>0, <2>4, <3>1, <3>2 DEF HierarchyInv
  <2>5. CASE /\ ~In1(b) /\ ~In2(b)
             /\ UNCHANGED <<recent1, recent2, dirty1, dirty2>>
    <3>1. b \notin Kept(recent2)
      BY <2>5 DEF In2, Kept
    <3> QED
      BY <2>0, <2>5, <3>1 DEF HierarchyInv
  <2> QED
    BY <2>1, <2>2, <2>3, <2>4, <2>5 DEF Write
<1>2. written' = (written \cup {b}) \cap Kept(recent2')
  <2>1. written' = {v \in written \cup {b} : Has(recent2', v)}
    BY DEF Write
  <2> QED
    BY <1>1, <2>1, WrittenKept DEF Level
<1> QED
  BY <1>1, <1>2 DEF HierarchyInv, Level, Proper, Within, Kept, Has, Mates

LEMMA HierarchySame == HierarchyInv /\ UNCHANGED lruVars => HierarchyInv'
<1> SUFFICES ASSUME HierarchyInv, UNCHANGED lruVars PROVE HierarchyInv'
  OBVIOUS
<1>1. /\ recent1' = recent1 /\ recent2' = recent2
      /\ dirty1' = dirty1 /\ dirty2' = dirty2 /\ written' = written
  BY DEF lruVars
<1>2. /\ Level(recent1', L1Ways, L1Sets)
      /\ Level(recent2', L2Ways, L2Sets)
      /\ Kept(recent1') \subseteq Kept(recent2')
      /\ dirty1' \subseteq Kept(recent1')
      /\ dirty2' \subseteq Kept(recent2')
      /\ dirty1' \cup dirty2' = written'
  BY <1>1 DEF HierarchyInv
<1> QED
  BY <1>2 DEF HierarchyInv, Level, Proper, Within, Kept, Has, Mates

(* The hierarchy alone, on a trace of any length: L1 stays within L2, and  *)
(* no write is lost.                                                       *)
THEOREM HierarchyCorrect == Spec => [](Coherent /\ WritesKept)
<1>1. Init => HierarchyInv
  BY HierarchyInvInit
<1>2. HierarchyInv /\ [Next]_lruVars => HierarchyInv'
  BY ReadKeeps, WriteKeeps, HierarchySame DEF Next
<1>3. HierarchyInv => Coherent /\ WritesKept
  BY HierarchyCoherent
<1> QED
  BY <1>1, <1>2, <1>3, PTL DEF Spec

LEMMA SimsStep == SimsNext => (\E b \in Block : Read(b) \/ Write(b)) \/ UNCHANGED vars
  BY DEF SimsNext, RoyAccess, ShellyAccess, Step, Undefined

LEMMA HierarchyInvCorrect == SimsSpec => []HierarchyInv
<1>1. SimsInit => HierarchyInv
  BY HierarchyInvInit DEF SimsInit
<1>2. HierarchyInv /\ [SimsNext]_vars => HierarchyInv'
  <2>1. HierarchyInv /\ UNCHANGED vars => HierarchyInv'
    BY HierarchySame DEF vars, lruVars
  <2> QED
    BY <2>1, SimsStep, ReadKeeps, WriteKeeps
<1> QED
  BY <1>1, <1>2, PTL DEF SimsSpec

(* Whatever the trace and the program beside it, every block of L1 is in   *)
(* L2, no set holds more blocks than it has ways, and dirty blocks are     *)
(* held.                                                                   *)
THEOREM CoherentCorrect == SimsSpec => []Coherent
  BY HierarchyInvCorrect, HierarchyCoherent, PTL

(* A block newer than memory is dirty in a level that holds it, and no     *)
(* other is.                                                               *)
THEOREM WritesKeptCorrect == SimsSpec => []WritesKept
  BY HierarchyInvCorrect, HierarchyCoherent, PTL
-----------------------------------------------------------------------------
(* CacheSimRoy, one set at a time.  Its valid ways hold the ranks 1 .. n,  *)
(* each once, and different tags.                                          *)
Rows(W) == [1 .. W -> [validBit : BOOLEAN, dirty : BOOLEAN, tag : Nat, LRU : Nat]]

Numbered(row, W, n) ==
  /\ n \in 0 .. W
  /\ \A v \in 1 .. W : row[v].validBit => row[v].LRU \in 1 .. n
  /\ \A k \in 1 .. n : \E v \in 1 .. W : row[v].validBit /\ row[v].LRU = k
  /\ \A v, w \in 1 .. W :
       row[v].validBit /\ row[w].validBit /\ row[v].LRU = row[w].LRU => v = w

Tagged(row, W) ==
  \A v, w \in 1 .. W : row[v].validBit /\ row[w].validBit /\ row[v].tag = row[w].tag => v = w

SoundRow(row, W) == row \in Rows(W) /\ Tagged(row, W) /\ \E n : Numbered(row, W, n)

(* The tag t was used no earlier than u; the row holds t dirty. *)
Before(row, W, t, u) ==
  \E v, w \in 1 .. W : /\ row[v].validBit /\ row[v].tag = t
                       /\ row[w].validBit /\ row[w].tag = u
                       /\ row[v].LRU <= row[w].LRU

DirtyRow(row, W, t) ==
  \E v \in 1 .. W : row[v].validBit /\ row[v].tag = t /\ row[v].dirty

LEMMA RowWays ==
  ASSUME NEW W \in Nat, NEW row \in Rows(W)
  PROVE  /\ Ranked!Ways(row) = 1 .. W
         /\ Len(row) = W
         /\ Ranked!EmptySlots(row) = {w \in 1 .. W : ~row[w].validBit}
         /\ Ranked!Used(row) = {w \in 1 .. W : row[w].validBit}
<1>1. DOMAIN row = 1 .. W /\ Len(row) = W
  BY DEF Rows
<1> QED
  BY <1>1 DEF Ranked!Ways, Ranked!EmptySlots, Ranked!Used

LEMMA RankedLeast ==
  ASSUME NEW T, T \subseteq Nat, T # {}
  PROVE  Ranked!Min(T) \in T
<1>1. \E x \in T : \A y \in T : x <= y
  BY LeastNumber
<1> QED
  BY <1>1 DEF Ranked!Min

LEMMA SearchFinds ==
  ASSUME NEW W \in Nat, NEW row \in Rows(W), NEW t
  PROVE  \/ /\ Ranked!SearchCache(row, t) = 0
            /\ \A v \in 1 .. W : ~(row[v].validBit /\ row[v].tag = t)
         \/ /\ Ranked!SearchCache(row, t) \in 1 .. W
            /\ row[Ranked!SearchCache(row, t)].validBit
            /\ row[Ranked!SearchCache(row, t)].tag = t
<1> DEFINE found == {v \in 1 .. W : row[v].validBit /\ row[v].tag = t}
<1>1. Ranked!SearchCache(row, t) = IF found = {} THEN 0 ELSE Ranked!Min(found)
  BY RowWays DEF Ranked!SearchCache, Ranked!NULL
<1>2. found # {} => Ranked!Min(found) \in found
  <2>1. found \subseteq Nat
    OBVIOUS
  <2> HIDE DEF found
  <2> QED
    BY <2>1, RankedLeast
<1> QED
  BY <1>1, <1>2

(* The valid ways are as many as their ranks. *)
LEMMA NumberedCount ==
  ASSUME NEW W \in Nat, NEW row \in Rows(W), NEW n, Numbered(row, W, n)
  PROVE  /\ Cardinality(Ranked!Used(row)) = n
         /\ n = W <=> Ranked!EmptySlots(row) = {}
<1> DEFINE U == {w \in 1 .. W : row[w].validBit}
           f == [w \in U |-> row[w].LRU]
<1>1. Ranked!Used(row) = U /\ (Ranked!EmptySlots(row) = {} <=> U = 1 .. W)
  BY RowWays
<1>2. f \in Bijection(U, 1 .. n)
  <2>1. f \in [U -> 1 .. n]
    BY DEF Numbered
  <2>2. \A v, w \in U : f[v] = f[w] => v = w
    BY DEF Numbered
  <2>3. \A k \in 1 .. n : \E v \in U : f[v] = k
    BY DEF Numbered
  <2> QED
    BY <2>1, <2>2, <2>3 DEF Bijection, Injection, Surjection, IsInjective
<1>3. IsFiniteSet(1 .. W) /\ Cardinality(1 .. W) = W /\ IsFiniteSet(1 .. n) /\ Cardinality(1 .. n) = n
  <2>1. n \in Nat /\ 0 <= n
    BY DEF Numbered
  <2> QED
    BY <2>1, FS_Interval
<1>4. IsFiniteSet(U)
  BY <1>3, FS_Subset
<1>5. Cardinality(U) = n
  <2> HIDE DEF f, U
  <2>1. ExistsBijection(U, 1 .. n)
    BY <1>2 DEF ExistsBijection
  <2> QED
    BY <2>1, <1>3, <1>4, FS_Bijection
<1>6. n = W <=> U = 1 .. W
  <2>1. U = 1 .. W => n = W
    BY <1>3, <1>5
  <2>2. n = W => U = 1 .. W
    <3>1. U \in SUBSET (1 .. W)
      OBVIOUS
    <3> HIDE DEF U
    <3> QED
      BY <1>3, <1>5, <3>1, FS_Subset
  <2> QED
    BY <2>1, <2>2
<1> QED
  BY <1>1, <1>5, <1>6

(* The way w of rank k becomes the first; the ranks before k move back.    *)
LEMMA RanksMove ==
  ASSUME NEW W \in Nat \ {0}, NEW row \in Rows(W), NEW w \in 1 .. W,
         row[w].validBit, row[w].LRU \in 1 .. W
  PROVE  LET q == Ranked!UpdateLRU(row, row[w].LRU)
         IN  /\ q \in Rows(W)
             /\ \A v \in 1 .. W : /\ q[v].validBit = row[v].validBit
                                  /\ q[v].tag = row[v].tag
                                  /\ q[v].dirty = row[v].dirty
                                  /\ row[v].validBit => q[v].LRU =
                                       IF row[v].LRU = row[w].LRU THEN 1
                                       ELSE IF row[v].LRU < row[w].LRU THEN row[v].LRU + 1
                                       ELSE row[v].LRU
<1> DEFINE k == row[w].LRU
           q == Ranked!UpdateLRU(row, k)
<1>1. q = [v \in 1 .. W |-> [row[v] EXCEPT !.LRU =
             IF ~row[v].validBit \/ row[v].LRU > k THEN row[v].LRU
             ELSE IF row[v].LRU = k THEN 1 ELSE row[v].LRU + 1]]
  BY RowWays DEF Ranked!UpdateLRU
<1>2. \A v \in 1 .. W : row[v] \in [validBit : BOOLEAN, dirty : BOOLEAN, tag : Nat, LRU : Nat]
  BY DEF Rows
<1>3. k \in 1 .. W
  OBVIOUS
<1> HIDE DEF q, k
<1>4. ASSUME NEW v \in 1 .. W
      PROVE  /\ q[v] \in [validBit : BOOLEAN, dirty : BOOLEAN, tag : Nat, LRU : Nat]
             /\ q[v].validBit = row[v].validBit
             /\ q[v].tag = row[v].tag
             /\ q[v].dirty = row[v].dirty
             /\ row[v].validBit => q[v].LRU =
                  IF row[v].LRU = k THEN 1
                  ELSE IF row[v].LRU < k THEN row[v].LRU + 1
                  ELSE row[v].LRU
  <2> DEFINE x == IF ~row[v].validBit \/ row[v].LRU > k THEN row[v].LRU
                  ELSE IF row[v].LRU = k THEN 1 ELSE row[v].LRU + 1
  <2>1. row[v].LRU \in Nat /\ x \in Nat
    BY <1>2
  <2>2. q[v] = [row[v] EXCEPT !.LRU = x]
    BY <1>1
  <2>3. row[v].validBit => x = IF row[v].LRU = k THEN 1
                               ELSE IF row[v].LRU < k THEN row[v].LRU + 1
                               ELSE row[v].LRU
    BY <1>3, <2>1
  <2> HIDE DEF x
  <2>4. /\ q[v] \in [validBit : BOOLEAN, dirty : BOOLEAN, tag : Nat, LRU : Nat]
        /\ q[v].validBit = row[v].validBit
        /\ q[v].tag = row[v].tag
        /\ q[v].dirty = row[v].dirty
        /\ q[v].LRU = x
    BY <1>2, <2>1, <2>2
  <2> QED
    BY <2>3, <2>4
<1>5. q \in Rows(W)
  <2>1. q = [v \in 1 .. W |-> q[v]]
    BY <1>1
  <2> QED
    BY <2>1, <1>4 DEF Rows
<1> QED
  BY <1>4, <1>5 DEF q, k

(* A way that is used: its tag comes first. *)
LEMMA TouchRow ==
  ASSUME NEW W \in Nat \ {0}, NEW row, SoundRow(row, W), NEW w \in 1 .. W, row[w].validBit
  PROVE  LET q == Ranked!UpdateLRU(row, row[w].LRU)
             x == row[w].tag
         IN  /\ SoundRow(q, W)
             /\ \A v \in 1 .. W : q[v].validBit = row[v].validBit /\ q[v].tag = row[v].tag
             /\ \A t, u : Before(q, W, t, u) <=>
                   \/ Before(row, W, t, u) /\ t # x /\ u # x
                   \/ t = x /\ Before(row, W, u, u)
             /\ \A t : DirtyRow(q, W, t) <=> DirtyRow(row, W, t)
<1> DEFINE k == row[w].LRU
           x == row[w].tag
           q == Ranked!UpdateLRU(row, k)
<1>0. row \in Rows(W) /\ Tagged(row, W)
  BY DEF SoundRow
<1>1. PICK n : Numbered(row, W, n)
  BY DEF SoundRow
<1>2. n \in 0 .. W /\ k \in 1 .. n /\ k \in 1 .. W
  BY <1>1 DEF Numbered
<1>3. /\ q \in Rows(W)
      /\ \A v \in 1 .. W : /\ q[v].validBit = row[v].validBit
                           /\ q[v].tag = row[v].tag
                           /\ q[v].dirty = row[v].dirty
                           /\ row[v].validBit => q[v].LRU =
                                IF row[v].LRU = k THEN 1
                                ELSE IF row[v].LRU < k THEN row[v].LRU + 1
                                ELSE row[v].LRU
  BY <1>0, <1>2, RanksMove
<1>4. \A v \in 1 .. W : row[v].validBit => row[v].LRU \in 1 .. n /\ (row[v].LRU = k <=> v = w)
  BY <1>1 DEF Numbered
<1> HIDE DEF q
<1>5. Numbered(q, W, n)
  <2>1. \A v \in 1 .. W : q[v].validBit => q[v].LRU \in 1 .. n
    BY <1>2, <1>3, <1>4
  <2>2. ASSUME NEW j \in 1 .. n PROVE \E v \in 1 .. W : q[v].validBit /\ q[v].LRU = j
    <3>1. CASE j = 1
      BY <1>3, <3>1
    <3>2. CASE j # 1 /\ j <= k
      <4>1. j - 1 \in 1 .. n
        BY <1>2, <3>2
      <4>2. PICK v \in 1 .. W : row[v].validBit /\ row[v].LRU = j - 1
        BY <1>1, <4>1 DEF Numbered
      <4> QED
        BY <1>2, <1>3, <3>2, <4>2
    <3>3. CASE j > k
      <4>1. PICK v \in 1 .. W : row[v].validBit /\ row[v].LRU = j
        BY <1>1 DEF Numbered
      <4> QED
        BY <1>2, <1>3, <3>3, <4>1
    <3> QED
      BY <1>2, <3>1, <3>2, <3>3
  <2>3. ASSUME NEW v \in 1 .. W, NEW u \in 1 .. W, q[v].validBit, q[u].validBit, q[v].LRU = q[u].LRU
        PROVE  v = u
    <3>1. row[v].validBit /\ row[u].validBit
      BY <1>3, <2>3
    <3>2. row[v].LRU = row[u].LRU
      BY <1>2, <1>3, <1>4, <2>3, <3>1
    <3> QED
      BY <1>1, <3>1, <3>2 DEF Numbered
  <2> QED
    BY <1>2, <2>1, <2>2, <2>3 DEF Numbered
<1>6. Tagged(q, W)
  BY <1>0, <1>3 DEF Tagged
<1>7. \A v \in 1 .. W : row[v].validBit => (row[v].tag = x <=> v = w)
  BY <1>0 DEF Tagged
<1>8. \A v, u \in 1 .. W : row[v].validBit /\ row[u].validBit =>
        (q[v].LRU <= q[u].LRU <=> \/ v = w
                                  \/ v # w /\ u # w /\ row[v].LRU <= row[u].LRU)
  BY <1>2, <1>3, <1>4
<1>9. ASSUME NEW t, NEW u
      PROVE  Before(q, W, t, u) <=> \/ Before(row, W, t, u) /\ t # x /\ u # x
                                    \/ t = x /\ Before(row, W, u, u)
  <2>1. Before(q, W, t, u) <=>
          \E v, y \in 1 .. W : /\ row[v].validBit /\ row[v].tag = t
                               /\ row[y].validBit /\ row[y].tag = u
                               /\ v = w \/ (v # w /\ y # w /\ row[v].LRU <= row[y].LRU)
    BY <1>3, <1>8 DEF Before
  <2>2. Before(row, W, u, u) <=> \E y \in 1 .. W : row[y].validBit /\ row[y].tag = u
    BY <1>4 DEF Before
  <2>3. CASE t = x
    BY <2>1, <2>2, <2>3, <1>7
  <2>4. CASE t # x
    BY <2>1, <2>4, <1>7 DEF Before
  <2> QED
    BY <2>3, <2>4
<1>10. \A t : DirtyRow(q, W, t) <=> DirtyRow(row, W, t)
  BY <1>3 DEF DirtyRow
<1>11. SoundRow(q, W)
  BY <1>3, <1>5, <1>6 DEF SoundRow
<1> QED
  BY <1>3, <1>9, <1>10, <1>11 DEF q

(* A way that is marked. *)
Marked(row, q, W, w, d) ==
  /\ SoundRow(q, W)
  /\ \A v \in 1 .. W : /\ q[v].validBit = row[v].validBit
                       /\ q[v].tag = row[v].tag
                       /\ q[v].LRU = row[v].LRU
                       /\ q[v].dirty = IF v = w THEN d ELSE row[v].dirty
  /\ \A t, u : Before(q, W, t, u) <=> Before(row, W, t, u)
  /\ \A t : DirtyRow(q, W, t) <=> IF t = row[w].tag THEN d ELSE DirtyRow(row, W, t)

LEMMA MarkRow ==
  ASSUME NEW W \in Nat \ {0}, NEW row, SoundRow(row, W), NEW w \in 1 .. W, row[w].validBit,
         NEW d \in BOOLEAN
  PROVE  Marked(row, [row EXCEPT ![w].dirty = d], W, w, d)
<1> DEFINE q == [row EXCEPT ![w].dirty = d]
<1>0. row \in Rows(W) /\ Tagged(row, W)
  BY DEF SoundRow
<1>1. PICK n : Numbered(row, W, n)
  BY DEF SoundRow
<1>2. q \in Rows(W)
  BY <1>0 DEF Rows
<1>3. \A v \in 1 .. W : /\ q[v].validBit = row[v].validBit
                        /\ q[v].tag = row[v].tag
                        /\ q[v].LRU = row[v].LRU
                        /\ q[v].dirty = IF v = w THEN d ELSE row[v].dirty
  BY <1>0 DEF Rows
<1> HIDE DEF q
<1>4. Numbered(q, W, n) /\ Tagged(q, W)
  BY <1>0, <1>1, <1>3 DEF Numbered, Tagged
<1>5. \A t, u : Before(q, W, t, u) <=> Before(row, W, t, u)
  BY <1>3 DEF Before
<1>6. ASSUME NEW t PROVE DirtyRow(q, W, t) <=> IF t = row[w].tag THEN d ELSE DirtyRow(row, W, t)
  <2>1. \A v \in 1 .. W : row[v].validBit => (row[v].tag = row[w].tag <=> v = w)
    BY <1>0 DEF Tagged
  <2> QED
    BY <1>3, <2>1 DEF DirtyRow
<1> QED
  BY <1>2, <1>3, <1>4, <1>5, <1>6 DEF SoundRow, q, Marked

(* A way that is emptied: those behind it move up. *)
LEMMA DropRow ==
  ASSUME NEW W \in Nat \ {0}, NEW row, SoundRow(row, W), NEW w \in 1 .. W, row[w].validBit
  PROVE  LET q == Ranked!UpdateLRUforEvac([row EXCEPT ![w].validBit = FALSE], row[w].LRU)
             x == row[w].tag
         IN  /\ SoundRow(q, W)
             /\ \A t, u : Before(q, W, t, u) <=> Before(row, W, t, u) /\ t # x /\ u # x
             /\ \A t : DirtyRow(q, W, t) <=> DirtyRow(row, W, t) /\ t # x
<1> DEFINE k == row[w].LRU
           x == row[w].tag
           p == [row EXCEPT ![w].validBit = FALSE]
           q == Ranked!UpdateLRUforEvac(p, k)
<1>0. row \in Rows(W) /\ Tagged(row, W)
  BY DEF SoundRow
<1>1. PICK n : Numbered(row, W, n)
  BY DEF SoundRow
<1>2. n \in 0 .. W /\ k \in 1 .. n /\ k \in 1 .. W
  BY <1>1 DEF Numbered
<1>3. /\ p \in Rows(W)
      /\ \A v \in 1 .. W : /\ (p[v].validBit <=> row[v].validBit /\ v # w)
                           /\ p[v].tag = row[v].tag
                           /\ p[v].dirty = row[v].dirty
                           /\ p[v].LRU = row[v].LRU
  BY <1>0 DEF Rows
<1> HIDE DEF p
<1>4. q = [v \in 1 .. W |-> [p[v] EXCEPT !.LRU =
             IF p[v].validBit /\ p[v].LRU > k THEN p[v].LRU - 1 ELSE p[v].LRU]]
  BY <1>3, RowWays DEF Ranked!UpdateLRUforEvac
<1> HIDE DEF q, k
<1>5. ASSUME NEW v \in 1 .. W
      PROVE  /\ q[v] \in [validBit : BOOLEAN, dirty : BOOLEAN, tag : Nat, LRU : Nat]
             /\ (q[v].validBit <=> row[v].validBit /\ v # w)
             /\ q[v].tag = row[v].tag
             /\ q[v].dirty = row[v].dirty
             /\ q[v].validBit => q[v].LRU = IF row[v].LRU > k THEN row[v].LRU - 1 ELSE row[v].LRU
  <2> DEFINE y == IF p[v].validBit /\ p[v].LRU > k THEN p[v].LRU - 1 ELSE p[v].LRU
  <2>1. p[v] \in [validBit : BOOLEAN, dirty : BOOLEAN, tag : Nat, LRU : Nat]
    BY <1>3 DEF Rows
  <2>2. p[v].LRU \in Nat /\ y \in Nat
    BY <1>2, <2>1
  <2>3. q[v] = [p[v] EXCEPT !.LRU = y]
    BY <1>4
  <2>4. p[v].validBit => y = IF row[v].LRU > k THEN row[v].LRU - 1 ELSE row[v].LRU
    BY <1>3
  <2> HIDE DEF y
  <2>5. /\ q[v] \in [validBit : BOOLEAN, dirty : BOOLEAN, tag : Nat, LRU : Nat]
        /\ q[v].validBit = p[v].validBit
        /\ q[v].tag = p[v].tag
        /\ q[v].dirty = p[v].dirty
        /\ q[v].LRU = y
    BY <2>1, <2>2, <2>3
  <2> QED
    BY <1>3, <2>4, <2>5
<1>6. q \in Rows(W)
  <2>1. q = [v \in 1 .. W |-> q[v]]
    BY <1>4
  <2> QED
    BY <2>1, <1>5 DEF Rows
<1>7. \A v \in 1 .. W : row[v].validBit => row[v].LRU \in 1 .. n /\ (row[v].LRU = k <=> v = w)
  BY <1>1 DEF Numbered, k
<1>71. ASSUME NEW v \in 1 .. W, q[v].validBit
       PROVE  /\ row[v].validBit /\ v # w
              /\ row[v].LRU \in 1 .. n /\ row[v].LRU # k
              /\ q[v].LRU = IF row[v].LRU > k THEN row[v].LRU - 1 ELSE row[v].LRU
  <2>1. row[v].validBit /\ v # w
    BY <1>5, <1>71
  <2>2. q[v].LRU = IF row[v].LRU > k THEN row[v].LRU - 1 ELSE row[v].LRU
    BY <1>5, <1>71
  <2> QED
    BY <1>7, <2>1, <2>2
<1>8. Numbered(q, W, n - 1)
  <2>1. \A v \in 1 .. W : q[v].validBit => q[v].LRU \in 1 .. n - 1
    BY <1>2, <1>71
  <2>2. ASSUME NEW j \in 1 .. n - 1 PROVE \E v \in 1 .. W : q[v].validBit /\ q[v].LRU = j
    <3>1. CASE j < k
      <4>1. j \in 1 .. n
        BY <1>2
      <4>2. PICK v \in 1 .. W : row[v].validBit /\ row[v].LRU = j
        BY <1>1, <4>1 DEF Numbered
      <4> QED
        BY <1>2, <1>5, <1>7, <3>1, <4>2
    <3>2. CASE j >= k
      <4>1. j + 1 \in 1 .. n
        BY <1>2
      <4>2. PICK v \in 1 .. W : row[v].validBit /\ row[v].LRU = j + 1
        BY <1>1, <4>1 DEF Numbered
      <4>3. q[v].validBit
        BY <1>2, <1>5, <1>7, <3>2, <4>2
      <4>4. q[v].LRU = j
        BY <1>2, <1>71, <3>2, <4>2, <4>3
      <4> QED
        BY <4>3, <4>4
    <3> QED
      BY <1>2, <3>1, <3>2
  <2>3. ASSUME NEW v \in 1 .. W, NEW u \in 1 .. W, q[v].validBit, q[u].validBit, q[v].LRU = q[u].LRU
        PROVE  v = u
    <3>1. row[v].validBit /\ row[u].validBit
      BY <1>71, <2>3
    <3>2. row[v].LRU = row[u].LRU
      BY <1>2, <1>71, <2>3
    <3> QED
      BY <1>1, <3>1, <3>2 DEF Numbered
  <2>4. n - 1 \in 0 .. W
    BY <1>2
  <2> QED
    BY <2>1, <2>2, <2>3, <2>4 DEF Numbered
<1>9. Tagged(q, W)
  BY <1>0, <1>5 DEF Tagged
<1>10. \A v \in 1 .. W : row[v].validBit => (row[v].tag = x <=> v = w)
  BY <1>0 DEF Tagged
<1>11. \A v, u \in 1 .. W : q[v].validBit /\ q[u].validBit =>
         (q[v].LRU <= q[u].LRU <=> row[v].LRU <= row[u].LRU)
  BY <1>2, <1>71
<1>12. \A t, u : Before(q, W, t, u) <=> Before(row, W, t, u) /\ t # x /\ u # x
  <2> TAKE t, u
  <2>1. Before(q, W, t, u) <=>
          \E v, y \in 1 .. W : /\ row[v].validBit /\ v # w /\ row[v].tag = t
                               /\ row[y].validBit /\ y # w /\ row[y].tag = u
                               /\ row[v].LRU <= row[y].LRU
    BY <1>5, <1>11 DEF Before
  <2> QED
    BY <1>10, <2>1 DEF Before
<1>13. \A t : DirtyRow(q, W, t) <=> DirtyRow(row, W, t) /\ t # x
  BY <1>5, <1>10 DEF DirtyRow
<1>14. SoundRow(q, W)
  BY <1>6, <1>8, <1>9 DEF SoundRow
<1> QED
  BY <1>12, <1>13, <1>14 DEF q, p, k

(* A tag takes the place of an empty way or, in a full set, of the last.   *)
LEMMA InsertRow ==
  ASSUME NEW W \in Nat \ {0}, NEW row, SoundRow(row, W), NEW w \in 1 .. W,
         NEW x \in Nat, \A v \in 1 .. W : ~(row[v].validBit /\ row[v].tag = x),
         row[w].validBit => /\ \A v \in 1 .. W : row[v].validBit
                            /\ row[w].LRU = W,
         NEW operation
  PROVE  LET q == Ranked!InsertToSlot(row, x, w, operation)
             gone(t) == row[w].validBit /\ row[w].tag = t
         IN  /\ SoundRow(q, W)
             /\ \A t, u : Before(q, W, t, u) <=>
                   \/ Before(row, W, t, u) /\ ~gone(t) /\ ~gone(u)
                   \/ t = x /\ (u = x \/ (Before(row, W, u, u) /\ ~gone(u)))
             /\ \A t : DirtyRow(q, W, t) <=>
                   \/ DirtyRow(row, W, t) /\ ~gone(t)
                   \/ t = x /\ operation = "w"
<1> DEFINE new == [validBit |-> TRUE, dirty |-> operation = "w", tag |-> x, LRU |-> W]
           p == [row EXCEPT ![w] = new]
           q == Ranked!UpdateLRU(p, W)
           gone(t) == row[w].validBit /\ row[w].tag = t
<1>0. row \in Rows(W) /\ Tagged(row, W)
  BY DEF SoundRow
<1>1. PICK n : Numbered(row, W, n)
  BY DEF SoundRow
<1>2. q = Ranked!InsertToSlot(row, x, w, operation)
  BY <1>0, RowWays DEF Ranked!InsertToSlot
<1>3. new \in [validBit : BOOLEAN, dirty : BOOLEAN, tag : Nat, LRU : Nat]
  OBVIOUS
<1>4. /\ p \in Rows(W)
      /\ \A v \in 1 .. W : v # w => p[v] = row[v]
      /\ p[w] = new
  <2> HIDE DEF new
  <2> QED
    BY <1>0, <1>3 DEF Rows
<1>5. p[w].validBit /\ p[w].tag = x /\ p[w].LRU = W /\ (p[w].dirty <=> operation = "w")
  <2> HIDE DEF p
  <2>1. p[w] = new
    BY <1>4
  <2>2. new.validBit /\ new.tag = x /\ new.LRU = W
    OBVIOUS
  <2>3. new.dirty = (operation = "w")
    OBVIOUS
  <2> HIDE DEF new
  <2> QED
    BY <2>1, <2>2, <2>3
<1> HIDE DEF p, new
(* The ranks of the others: below W. *)
<1>6. n \in 0 .. W /\ \A v \in 1 .. W : row[v].validBit /\ v # w => row[v].LRU \in 1 .. n /\ row[v].LRU < W
  <2>1. n \in 0 .. W /\ \A v \in 1 .. W : row[v].validBit => row[v].LRU \in 1 .. n
    BY <1>1 DEF Numbered
  <2>2. CASE row[w].validBit
    <3>1. \A v \in 1 .. W : row[v].validBit /\ row[v].LRU = W => v = w
      BY <1>1, <2>2 DEF Numbered
    <3> QED
      BY <2>1, <3>1
  <2>3. CASE ~row[w].validBit
    <3>1. Ranked!EmptySlots(row) # {}
      BY <1>0, <2>3, RowWays
    <3>2. n # W
      BY <1>0, <1>1, <3>1, NumberedCount
    <3> QED
      BY <2>1, <3>2
  <2> QED
    BY <2>2, <2>3
<1>7. /\ q \in Rows(W)
      /\ \A v \in 1 .. W : /\ q[v].validBit = p[v].validBit
                           /\ q[v].tag = p[v].tag
                           /\ q[v].dirty = p[v].dirty
                           /\ p[v].validBit => q[v].LRU =
                                IF p[v].LRU = W THEN 1
                                ELSE IF p[v].LRU < W THEN p[v].LRU + 1
                                ELSE p[v].LRU
  <2>1. W \in 1 .. W
    OBVIOUS
  <2> QED
    BY <1>4, <1>5, <2>1, RanksMove
<1> HIDE DEF q
<1>8. q[w].validBit /\ q[w].tag = x /\ q[w].LRU = 1 /\ (q[w].dirty <=> operation = "w")
  BY <1>5, <1>7
<1>9. ASSUME NEW v \in 1 .. W, v # w
      PROVE  /\ q[v].validBit <=> row[v].validBit
             /\ q[v].tag = row[v].tag
             /\ q[v].dirty = row[v].dirty
  BY <1>4, <1>7, <1>9
<1>10. ASSUME NEW v \in 1 .. W, v # w, row[v].validBit
       PROVE  row[v].LRU \in 1 .. n /\ row[v].LRU < W /\ q[v].LRU = row[v].LRU + 1
  <2>1. row[v].LRU \in 1 .. n /\ row[v].LRU < W
    BY <1>6, <1>10
  <2>2. p[v] = row[v]
    BY <1>4, <1>10
  <2> QED
    BY <1>7, <1>10, <2>1, <2>2
<1>11. \E m : Numbered(q, W, m)
  <2> DEFINE m == IF row[w].validBit THEN W ELSE n + 1
  <2>0. ~row[w].validBit => n < W
    <3> SUFFICES ASSUME ~row[w].validBit PROVE n < W
      OBVIOUS
    <3>1. Ranked!EmptySlots(row) # {}
      BY <1>0, RowWays
    <3> QED
      BY <1>0, <1>1, <1>6, <3>1, NumberedCount
  <2>1. m \in 1 .. W
    BY <1>6, <2>0
  <2>2. \A v \in 1 .. W : q[v].validBit => q[v].LRU \in 1 .. m
    <3> TAKE v \in 1 .. W
    <3> HAVE q[v].validBit
    <3>1. CASE v = w
      BY <1>8, <2>1, <3>1
    <3>2. CASE v # w
      <4>1. row[v].validBit
        BY <1>9, <3>2
      <4>2. row[v].LRU \in 1 .. n /\ row[v].LRU < W /\ q[v].LRU = row[v].LRU + 1
        BY <1>10, <3>2, <4>1
      <4> QED
        BY <1>6, <4>2
    <3> QED
      BY <3>1, <3>2
  <2>3. ASSUME NEW j \in 1 .. m PROVE \E v \in 1 .. W : q[v].validBit /\ q[v].LRU = j
    <3>1. CASE j = 1
      BY <1>8, <3>1
    <3>2. CASE j # 1
      <4>0. row[w].validBit => n = W
        <5> SUFFICES ASSUME row[w].validBit PROVE n = W
          OBVIOUS
        <5>1. row[w].LRU = W /\ row[w].LRU \in 1 .. n
          BY <1>1 DEF Numbered
        <5> QED
          BY <1>6, <5>1
      <4>1. j - 1 \in 1 .. n /\ (row[w].validBit => j - 1 < W)
        BY <1>6, <3>2, <4>0
      <4>2. PICK v \in 1 .. W : row[v].validBit /\ row[v].LRU = j - 1
        BY <1>1, <4>1 DEF Numbered
      <4>3. v # w
        BY <4>1, <4>2
      <4>4. q[v].validBit /\ q[v].LRU = (j - 1) + 1
        BY <1>9, <1>10, <4>2, <4>3
      <4> QED
        BY <4>4
    <3> QED
      BY <3>1, <3>2
  <2>4. ASSUME NEW v \in 1 .. W, NEW u \in 1 .. W, q[v].validBit, q[u].validBit, q[v].LRU = q[u].LRU
        PROVE  v = u
    <3>1. CASE v = w \/ u = w
      <4>1. \A y \in 1 .. W : y # w /\ q[y].validBit => q[y].LRU > 1
        <5> TAKE y \in 1 .. W
        <5> HAVE y # w /\ q[y].validBit
        <5>1. row[y].LRU \in 1 .. n /\ q[y].LRU = row[y].LRU + 1
          BY <1>9, <1>10
        <5> QED
          BY <1>6, <5>1
      <4>2. q[w].LRU = 1
        BY <1>8
      <4> QED
        BY <2>4, <3>1, <4>1, <4>2
    <3>2. CASE v # w /\ u # w
      <4>1. row[v].validBit /\ row[u].validBit
        BY <1>9, <2>4, <3>2
      <4>2. /\ row[v].LRU \in 1 .. n /\ q[v].LRU = row[v].LRU + 1
            /\ row[u].LRU \in 1 .. n /\ q[u].LRU = row[u].LRU + 1
        BY <1>10, <3>2, <4>1
      <4>3. row[v].LRU \in Nat /\ row[u].LRU \in Nat
        BY <1>0 DEF Rows
      <4>4. row[v].LRU + 1 = row[u].LRU + 1
        BY <2>4, <4>2
      <4>5. row[v].LRU = row[u].LRU
        BY ONLY <4>3, <4>4
      <4> QED
        BY <1>1, <4>1, <4>5 DEF Numbered
    <3> QED
      BY <3>1, <3>2
  <2>5. m \in 0 .. W
    BY <2>1
  <2> HIDE DEF m
  <2>6. Numbered(q, W, m)
    BY <2>2, <2>3, <2>4, <2>5 DEF Numbered
  <2> QED
    BY <2>6
<1>12. Tagged(q, W)
  BY <1>0, <1>8, <1>9 DEF Tagged
<1>13. \A v \in 1 .. W : row[v].validBit => (gone(row[v].tag) => v = w) /\ row[v].tag # x
  BY <1>0 DEF Tagged
<1>14. \A v, u \in 1 .. W : q[v].validBit /\ q[u].validBit =>
         (q[v].LRU <= q[u].LRU <=> \/ v = w
                                   \/ v # w /\ u # w /\ row[v].LRU <= row[u].LRU)
  <2> TAKE v, u \in 1 .. W
  <2> HAVE q[v].validBit /\ q[u].validBit
  <2>1. \A y \in 1 .. W : q[y].validBit /\ y # w =>
          row[y].LRU \in Nat /\ row[y].LRU >= 1 /\ q[y].LRU = row[y].LRU + 1
    BY <1>6, <1>9, <1>10
  <2>2. q[w].LRU = 1
    BY <1>8
  <2> QED
    BY <2>1, <2>2
<1>15. ASSUME NEW t, NEW u
       PROVE  Before(q, W, t, u) <=>
                 \/ Before(row, W, t, u) /\ ~gone(t) /\ ~gone(u)
                 \/ t = x /\ (u = x \/ (Before(row, W, u, u) /\ ~gone(u)))
  <2>1. Before(q, W, t, u) <=>
          \E v, y \in 1 .. W : /\ q[v].validBit /\ q[v].tag = t
                               /\ q[y].validBit /\ q[y].tag = u
                               /\ v = w \/ (v # w /\ y # w /\ row[v].LRU <= row[y].LRU)
    BY <1>14 DEF Before
  <2>2. Before(row, W, u, u) <=> \E y \in 1 .. W : row[y].validBit /\ row[y].tag = u
    <3>1. \A y \in 1 .. W : row[y].LRU \in Nat
      BY <1>0 DEF Rows
    <3> QED
      BY <3>1 DEF Before
  <2>3. \A y \in 1 .. W : y # w /\ q[y].validBit => q[y].tag # x /\ ~gone(q[y].tag)
    BY <1>9, <1>13
  <2>4. (\E y \in 1 .. W : q[y].validBit /\ q[y].tag = u) <=> u = x \/ (Before(row, W, u, u) /\ ~gone(u))
    BY <1>8, <1>9, <2>2, <2>3
  <2>5. CASE t = x
    <3>1. \A v \in 1 .. W : q[v].validBit /\ q[v].tag = t <=> v = w
      BY <1>8, <2>3, <2>5
    <3>2. Before(q, W, t, u) <=> \E y \in 1 .. W : q[y].validBit /\ q[y].tag = u
      BY <1>8, <2>1, <2>5, <3>1
    <3>3. ~Before(row, W, t, u)
      BY <1>13, <2>5 DEF Before
    <3> QED
      BY <2>4, <2>5, <3>2, <3>3
  <2>6. CASE t # x
    <3>1. Before(q, W, t, u) <=>
          \E v, y \in 1 .. W : /\ q[v].validBit /\ q[v].tag = t /\ v # w
                               /\ q[y].validBit /\ q[y].tag = u /\ y # w
                               /\ row[v].LRU <= row[y].LRU
      BY <1>8, <2>1, <2>6
    <3>2. Before(q, W, t, u) <=>
          \E v, y \in 1 .. W : /\ row[v].validBit /\ row[v].tag = t /\ v # w
                               /\ row[y].validBit /\ row[y].tag = u /\ y # w
                               /\ row[v].LRU <= row[y].LRU
      BY <1>9, <3>1
    <3>3. \A v \in 1 .. W : row[v].validBit => (v # w <=> ~gone(row[v].tag))
      BY <1>13
    <3> HIDE DEF gone
    <3> QED
      BY <2>6, <3>2, <3>3 DEF Before
  <2> QED
    BY <2>5, <2>6
<1>16. ASSUME NEW t
       PROVE  DirtyRow(q, W, t) <=> \/ DirtyRow(row, W, t) /\ ~gone(t)
                                    \/ t = x /\ operation = "w"
  <2>1. \A v \in 1 .. W : row[v].validBit => (v # w <=> ~gone(row[v].tag))
    BY <1>13
  <2>2. DirtyRow(q, W, t) <=>
          \/ t = x /\ operation = "w"
          \/ \E v \in 1 .. W : v # w /\ row[v].validBit /\ row[v].tag = t /\ row[v].dirty
    BY <1>8, <1>9 DEF DirtyRow
  <2> HIDE DEF gone
  <2> QED
    BY <2>1, <2>2 DEF DirtyRow
<1>17. SoundRow(q, W)
  BY <1>7, <1>11, <1>12 DEF SoundRow
<1> QED
  BY <1>2, <1>15, <1>16, <1>17
-----------------------------------------------------------------------------
(* CacheSimRoy, one level at a time: its sets are sound rows.              *)
SoundLevel(L, W, N) ==
  /\ L \in [0 .. N - 1 -> Rows(W)]
  /\ \A s \in 0 .. N - 1 : SoundRow(L[s], W)

LEMMA Split ==
  ASSUME NEW N \in Nat \ {0}, NEW b \in Nat
  PROVE  /\ b % N \in 0 .. N - 1 /\ b \div N \in Nat
         /\ b = (b \div N) * N + (b % N)
<1>1. b % N \in 0 .. N - 1
  OBVIOUS
<1>2. b \div N \in Nat
  OBVIOUS
<1>3. b = N * (b \div N) + (b % N)
  OBVIOUS
<1> QED
  BY <1>1, <1>2, <1>3

LEMMA Joined ==
  ASSUME NEW N \in Nat \ {0}, NEW t \in Nat, NEW s \in 0 .. N - 1
  PROVE  /\ t * N + s \in Nat
         /\ (t * N + s) % N = s
         /\ (t * N + s) \div N = t
<1>1. t * N \in Nat
  OBVIOUS
<1>2. t * N + s \in Nat
  BY <1>1
<1> DEFINE a == t * N + s
           u == a \div N
           v == a % N
<1>3. a = N * u + v /\ v \in 0 .. N - 1 /\ u \in Nat
  BY <1>2
<1> HIDE DEF a, u, v
<1>4. a = t * N + s
  BY DEF a
<1>5. N * u + v = N * t + s
  BY <1>3, <1>4
<1>6. u = t
  <2>1. CASE u < t
    <3>1. N * (u + 1) <= N * t
      BY <1>3, <2>1
    <3> QED
      BY <1>3, <1>5, <3>1
  <2>2. CASE u > t
    <3>1. N * (t + 1) <= N * u
      BY <1>3, <2>2
    <3> QED
      BY <1>3, <1>5, <3>1
  <2> QED
    BY <1>3, <2>1, <2>2
<1>7. v = s
  BY <1>3, <1>5, <1>6
<1> QED
  BY <1>2, <1>6, <1>7 DEF a, u, v

LEMMA SameBlock ==
  ASSUME NEW N \in Nat \ {0}, NEW a \in Nat, NEW b \in Nat,
         a % N = b % N, a \div N = b \div N
  PROVE  a = b
<1>1. a = (a \div N) * N + (a % N) /\ b = (b \div N) * N + (b % N)
  BY Split
<1> QED
  BY <1>1

LEMMA RankedCardinality == ASSUME NEW S PROVE Ranked!Cardinality(S) = Cardinality(S)
  BY DEF Ranked!Cardinality, Cardinality, Ranked!IsFiniteSet, IsFiniteSet

LEMMA SetCount ==
  ASSUME NEW N \in Nat \ {0}, NEW W, NEW L, L \in [0 .. N - 1 -> Rows(W)]
  PROVE  Ranked!Cardinality(DOMAIN L) = N
<1>1. Cardinality(0 .. N - 1) = N
  BY FS_Interval
<1> QED
  BY <1>1, RankedCardinality

(* What the ranks of a level say, pair by pair. *)
LEMMA RankPair ==
  ASSUME NEW W \in Nat \ {0}, NEW N \in Nat \ {0}, NEW L, SoundLevel(L, W, N), NEW a, NEW b
  PROVE  <<a, b>> \in Ranked!ByRank(L) <=>
           /\ a \in Nat /\ b \in Nat /\ a % N = b % N
           /\ Before(L[a % N], W, a \div N, b \div N)
<1>0. L \in [0 .. N - 1 -> Rows(W)] /\ DOMAIN L = 0 .. N - 1
  BY DEF SoundLevel
<1>1. \A s \in 0 .. N - 1 : Ranked!Used(L[s]) = {w \in 1 .. W : L[s][w].validBit}
  BY <1>0, RowWays
<1>2. \A s, w : Ranked!BlockIn(L, s, w) = L[s][w].tag * N + s
  BY <1>0, SetCount DEF Ranked!BlockIn
<1>3. <<a, b>> \in Ranked!ByRank(L) <=>
        \E s \in 0 .. N - 1 : \E v, w \in Ranked!Used(L[s]) :
           /\ L[s][v].LRU <= L[s][w].LRU
           /\ a = Ranked!BlockIn(L, s, v) /\ b = Ranked!BlockIn(L, s, w)
  <2> DEFINE pairs(s) == {q \in Ranked!Used(L[s]) \X Ranked!Used(L[s]) :
                            L[s][q[1]].LRU <= L[s][q[2]].LRU}
  <2>1. Ranked!ByRank(L) =
          UNION {{<<Ranked!BlockIn(L, s, p[1]), Ranked!BlockIn(L, s, p[2])>> : p \in pairs(s)} :
                   s \in 0 .. N - 1}
    BY <1>0 DEF Ranked!ByRank
  <2>2. <<a, b>> \in Ranked!ByRank(L) <=>
          \E s \in 0 .. N - 1 : \E p \in pairs(s) :
             a = Ranked!BlockIn(L, s, p[1]) /\ b = Ranked!BlockIn(L, s, p[2])
    <3> HIDE DEF pairs
    <3> QED
      BY <2>1
  <2>3. \A s : \A v, w \in Ranked!Used(L[s]) :
          L[s][v].LRU <= L[s][w].LRU => <<v, w>> \in pairs(s)
    OBVIOUS
  <2>4. \A s : \A p \in pairs(s) : /\ p[1] \in Ranked!Used(L[s]) /\ p[2] \in Ranked!Used(L[s])
                                  /\ L[s][p[1]].LRU <= L[s][p[2]].LRU
    OBVIOUS
  <2>5. \A v, w : <<v, w>>[1] = v /\ <<v, w>>[2] = w
    OBVIOUS
  <2> HIDE DEF pairs
  <2>6. ASSUME NEW s \in 0 .. N - 1, NEW p \in pairs(s),
               a = Ranked!BlockIn(L, s, p[1]), b = Ranked!BlockIn(L, s, p[2])
        PROVE  \E v, w \in Ranked!Used(L[s]) :
                 /\ L[s][v].LRU <= L[s][w].LRU
                 /\ a = Ranked!BlockIn(L, s, v) /\ b = Ranked!BlockIn(L, s, w)
    BY <2>4, <2>6
  <2>7. ASSUME NEW s \in 0 .. N - 1, NEW v \in Ranked!Used(L[s]), NEW w \in Ranked!Used(L[s]),
               L[s][v].LRU <= L[s][w].LRU,
               a = Ranked!BlockIn(L, s, v), b = Ranked!BlockIn(L, s, w)
        PROVE  \E p \in pairs(s) : a = Ranked!BlockIn(L, s, p[1]) /\ b = Ranked!BlockIn(L, s, p[2])
    BY <2>3, <2>5, <2>7
  <2> QED
    BY <2>2, <2>6, <2>7
<1>4. ASSUME NEW s \in 0 .. N - 1, NEW w \in 1 .. W
      PROVE  L[s][w].tag \in Nat
  BY <1>0 DEF Rows
<1>5. ASSUME <<a, b>> \in Ranked!ByRank(L)
      PROVE  /\ a \in Nat /\ b \in Nat /\ a % N = b % N
             /\ Before(L[a % N], W, a \div N, b \div N)
  <2>1. PICK s \in 0 .. N - 1 : \E v, w \in Ranked!Used(L[s]) :
           /\ L[s][v].LRU <= L[s][w].LRU
           /\ a = Ranked!BlockIn(L, s, v) /\ b = Ranked!BlockIn(L, s, w)
    BY <1>3, <1>5
  <2>2. PICK v, w \in 1 .. W : /\ L[s][v].validBit /\ L[s][w].validBit
                               /\ L[s][v].LRU <= L[s][w].LRU
                               /\ a = L[s][v].tag * N + s /\ b = L[s][w].tag * N + s
    BY <1>1, <1>2, <2>1
  <2>3. /\ a \in Nat /\ a % N = s /\ a \div N = L[s][v].tag
        /\ b \in Nat /\ b % N = s /\ b \div N = L[s][w].tag
    BY <1>4, <2>2, Joined
  <2> QED
    BY <2>2, <2>3 DEF Before
<1>6. ASSUME a \in Nat, b \in Nat, a % N = b % N, Before(L[a % N], W, a \div N, b \div N)
      PROVE  <<a, b>> \in Ranked!ByRank(L)
  <2> DEFINE s == a % N
  <2>1. PICK v, w \in 1 .. W : /\ L[s][v].validBit /\ L[s][v].tag = a \div N
                               /\ L[s][w].validBit /\ L[s][w].tag = b \div N
                               /\ L[s][v].LRU <= L[s][w].LRU
    BY <1>6 DEF Before
  <2>2. s \in 0 .. N - 1 /\ a = (a \div N) * N + s /\ b = (b \div N) * N + s
    BY <1>6, Split
  <2> HIDE DEF s
  <2>3. v \in Ranked!Used(L[s]) /\ w \in Ranked!Used(L[s])
    BY <1>1, <2>1, <2>2
  <2>4. a = Ranked!BlockIn(L, s, v) /\ b = Ranked!BlockIn(L, s, w)
    BY <1>2, <2>1, <2>2
  <2> QED
    BY <1>3, <2>1, <2>2, <2>3, <2>4
<1> QED
  BY <1>5, <1>6

LEMMA DirtyBlock ==
  ASSUME NEW W \in Nat \ {0}, NEW N \in Nat \ {0}, NEW L, SoundLevel(L, W, N), NEW a
  PROVE  a \in Ranked!DirtyIn(L) <=> a \in Nat /\ DirtyRow(L[a % N], W, a \div N)
<1>0. L \in [0 .. N - 1 -> Rows(W)] /\ DOMAIN L = 0 .. N - 1
  BY DEF SoundLevel
<1>1. \A s \in 0 .. N - 1 : Ranked!Used(L[s]) = {w \in 1 .. W : L[s][w].validBit}
  BY <1>0, RowWays
<1>2. \A s, w : Ranked!BlockIn(L, s, w) = L[s][w].tag * N + s
  BY <1>0, SetCount DEF Ranked!BlockIn
<1>3. a \in Ranked!DirtyIn(L) <=>
        \E s \in 0 .. N - 1 : \E v \in Ranked!Used(L[s]) :
           L[s][v].dirty /\ a = Ranked!BlockIn(L, s, v)
  BY <1>0 DEF Ranked!DirtyIn
<1>4. ASSUME NEW s \in 0 .. N - 1, NEW w \in 1 .. W
      PROVE  L[s][w].tag \in Nat
  BY <1>0 DEF Rows
<1>5. ASSUME a \in Ranked!DirtyIn(L)
      PROVE  a \in Nat /\ DirtyRow(L[a % N], W, a \div N)
  <2>1. PICK s \in 0 .. N - 1 : \E v \in Ranked!Used(L[s]) :
           L[s][v].dirty /\ a = Ranked!BlockIn(L, s, v)
    BY <1>3, <1>5
  <2>2. PICK v \in 1 .. W : L[s][v].validBit /\ L[s][v].dirty /\ a = L[s][v].tag * N + s
    BY <1>1, <1>2, <2>1
  <2>3. a \in Nat /\ a % N = s /\ a \div N = L[s][v].tag
    BY <1>4, <2>2, Joined
  <2> QED
    BY <2>2, <2>3 DEF DirtyRow
<1>6. ASSUME a \in Nat, DirtyRow(L[a % N], W, a \div N)
      PROVE  a \in Ranked!DirtyIn(L)
  <2> DEFINE s == a % N
  <2>1. PICK v \in 1 .. W : L[s][v].validBit /\ L[s][v].tag = a \div N /\ L[s][v].dirty
    BY <1>6 DEF DirtyRow
  <2>2. s \in 0 .. N - 1 /\ a = (a \div N) * N + s
    BY <1>6, Split
  <2> HIDE DEF s
  <2>3. v \in Ranked!Used(L[s]) /\ a = Ranked!BlockIn(L, s, v)
    BY <1>1, <1>2, <2>1, <2>2
  <2> QED
    BY <1>3, <2>1, <2>2, <2>3
<1> QED
  BY <1>5, <1>6

LEMMA RankPairsOnly ==
  ASSUME NEW L, NEW p \in Ranked!ByRank(L)
  PROVE  p = <<p[1], p[2]>>
  BY DEF Ranked!ByRank

(* The ranks of an empty cache order nothing. *)
LEMMA RankedEmpty ==
  ASSUME NEW W \in Nat \ {0}, NEW N \in Nat \ {0}
  PROVE  /\ SoundLevel(Ranked!Empty(N, W), W, N)
         /\ Ranked!ByRank(Ranked!Empty(N, W)) = {}
         /\ Ranked!DirtyIn(Ranked!Empty(N, W)) = {}
<1> DEFINE L == Ranked!Empty(N, W)
<1>1. /\ L \in [0 .. N - 1 -> Rows(W)]
      /\ \A s \in 0 .. N - 1 : \A w \in 1 .. W : ~L[s][w].validBit
  BY DEF Ranked!Empty, Rows
<1> HIDE DEF L
<1>2. \A s \in 0 .. N - 1 : SoundRow(L[s], W)
  <2> TAKE s \in 0 .. N - 1
  <2>1. Numbered(L[s], W, 0) /\ Tagged(L[s], W)
    BY <1>1 DEF Numbered, Tagged
  <2> QED
    BY <1>1, <2>1 DEF SoundRow
<1>3. \A s \in 0 .. N - 1 : Ranked!Used(L[s]) = {}
  BY <1>1, RowWays
<1>4. Ranked!ByRank(L) = {} /\ Ranked!DirtyIn(L) = {}
  BY <1>1, <1>3 DEF Ranked!ByRank, Ranked!DirtyIn
<1> QED
  BY <1>1, <1>2, <1>4 DEF SoundLevel, L

LEMMA RowChanged ==
  ASSUME NEW W \in Nat \ {0}, NEW N \in Nat \ {0}, NEW L, SoundLevel(L, W, N),
         NEW s \in 0 .. N - 1, NEW q, SoundRow(q, W)
  PROVE  /\ SoundLevel([L EXCEPT ![s] = q], W, N)
         /\ [L EXCEPT ![s] = q][s] = q
         /\ \A u \in 0 .. N - 1 : u # s => [L EXCEPT ![s] = q][u] = L[u]
<1>1. L \in [0 .. N - 1 -> Rows(W)] /\ q \in Rows(W)
  BY DEF SoundLevel, SoundRow
<1>2. [L EXCEPT ![s] = q] \in [0 .. N - 1 -> Rows(W)]
  BY <1>1
<1>3. /\ [L EXCEPT ![s] = q][s] = q
      /\ \A u \in 0 .. N - 1 : u # s => [L EXCEPT ![s] = q][u] = L[u]
  BY <1>1
<1>4. \A u \in 0 .. N - 1 : SoundRow([L EXCEPT ![s] = q][u], W)
  <2> TAKE u \in 0 .. N - 1
  <2>1. CASE u = s
    BY <1>3, <2>1
  <2>2. CASE u # s
    BY <1>3, <2>2 DEF SoundLevel
  <2> QED
    BY <2>1, <2>2
<1> QED
  BY <1>2, <1>3, <1>4 DEF SoundLevel

(* The block b is in way w of its set. *)
Placed(L, W, N, b, w) ==
  w \in 1 .. W /\ L[b % N][w].validBit /\ L[b % N][w].tag = b \div N

LEMMA PlacedHas ==
  ASSUME NEW W \in Nat \ {0}, NEW N \in Nat \ {0}, NEW L, SoundLevel(L, W, N), NEW b \in Nat
  PROVE  Has(Ranked!ByRank(L), b) <=> \E w \in 1 .. W : Placed(L, W, N, b, w)
<1>1. L[b % N] \in Rows(W)
  BY Split DEF SoundLevel
<1>2. \A w \in 1 .. W : L[b % N][w].LRU <= L[b % N][w].LRU
  BY <1>1 DEF Rows
<1>3. Has(Ranked!ByRank(L), b) <=> Before(L[b % N], W, b \div N, b \div N)
  BY RankPair DEF Has
<1> QED
  BY <1>2, <1>3 DEF Before, Placed

(* The search of a set for a block of its own. *)
LEMMA SearchRight ==
  ASSUME NEW W \in Nat \ {0}, NEW N \in Nat \ {0}, NEW L, SoundLevel(L, W, N), NEW b \in Nat
  PROVE  LET w == Ranked!SearchCache(L[b % N], b \div N)
         IN  IF Has(Ranked!ByRank(L), b) THEN Placed(L, W, N, b, w) ELSE w = 0
<1>1. L[b % N] \in Rows(W)
  BY Split DEF SoundLevel
<1> QED
  BY <1>1, SearchFinds, PlacedHas DEF Placed

(* What the functions do to a row, and a level with one row changed.       *)
Touched(row, w) == Ranked!UpdateLRU(row, row[w].LRU)
Dirtied(row, w, d) == [row EXCEPT ![w].dirty = d]
Dropped(row, w) == Ranked!UpdateLRUforEvac([row EXCEPT ![w].validBit = FALSE], row[w].LRU)
Put(L, s, q) == [L EXCEPT ![s] = q]

Outcome(M, W, N, r, d) ==
  SoundLevel(M, W, N) /\ Ranked!ByRank(M) = r /\ Ranked!DirtyIn(M) = d

LEMMA LevelTouch ==
  ASSUME NEW W \in Nat \ {0}, NEW N \in Nat \ {0}, NEW L, SoundLevel(L, W, N),
         Ranked!ByRank(L) \subseteq Block \X Block,
         NEW b \in Block, NEW w, Placed(L, W, N, b, w)
  PROVE  LET M == Put(L, b % N, Touched(L[b % N], w))
         IN  /\ Outcome(M, W, N, Using(Ranked!ByRank(L), b, N), Ranked!DirtyIn(L))
             /\ Placed(M, W, N, b, w)
<1> DEFINE s == b % N
           x == b \div N
           q == Ranked!UpdateLRU(L[s], L[s][w].LRU)
           M == [L EXCEPT ![s] = q]
           r == Ranked!ByRank(L)
           m == Ranked!ByRank(M)
           u == Using(r, b, N)
<1>0. b \in Nat /\ s \in 0 .. N - 1
  BY BlockNumbers, Split
<1>1. SoundRow(L[s], W) /\ w \in 1 .. W /\ L[s][w].validBit /\ L[s][w].tag = x
  BY <1>0 DEF SoundLevel, Placed
<1>2. /\ SoundRow(q, W)
      /\ \A v \in 1 .. W : q[v].validBit = L[s][v].validBit /\ q[v].tag = L[s][v].tag
      /\ \A t, z : Before(q, W, t, z) <=>
            \/ Before(L[s], W, t, z) /\ t # x /\ z # x
            \/ t = x /\ Before(L[s], W, z, z)
      /\ \A t : DirtyRow(q, W, t) <=> DirtyRow(L[s], W, t)
  <2> DEFINE row == L[s]
  <2>1. SoundRow(row, W) /\ row[w].validBit /\ row[w].tag = x
    BY <1>1
  <2> HIDE DEF row
  <2>2. LET new == Ranked!UpdateLRU(row, row[w].LRU)
            tag == row[w].tag
        IN  /\ SoundRow(new, W)
            /\ \A v \in 1 .. W : new[v].validBit = row[v].validBit /\ new[v].tag = row[v].tag
            /\ \A t, z : Before(new, W, t, z) <=>
                  \/ Before(row, W, t, z) /\ t # tag /\ z # tag
                  \/ t = tag /\ Before(row, W, z, z)
            /\ \A t : DirtyRow(new, W, t) <=> DirtyRow(row, W, t)
    BY <1>1, <2>1, TouchRow
  <2>3. q = Ranked!UpdateLRU(row, row[w].LRU)
    BY DEF row
  <2> HIDE DEF q, x
  <2>4. /\ SoundRow(q, W)
        /\ \A v \in 1 .. W : q[v].validBit = row[v].validBit /\ q[v].tag = row[v].tag
        /\ \A t, z : Before(q, W, t, z) <=>
              \/ Before(row, W, t, z) /\ t # x /\ z # x
              \/ t = x /\ Before(row, W, z, z)
        /\ \A t : DirtyRow(q, W, t) <=> DirtyRow(row, W, t)
    BY <2>1, <2>2, <2>3
  <2> QED
    BY <2>4 DEF row
<1> HIDE DEF q
<1>3. SoundLevel(M, W, N) /\ M[s] = q /\ \A y \in 0 .. N - 1 : y # s => M[y] = L[y]
  BY <1>0, <1>2, RowChanged
<1> HIDE DEF M
<1>4. \A a, c : <<a, c>> \in r <=> /\ a \in Nat /\ c \in Nat /\ a % N = c % N
                                   /\ Before(L[a % N], W, a \div N, c \div N)
  BY RankPair
<1>5. \A a, c : <<a, c>> \in m <=> /\ a \in Nat /\ c \in Nat /\ a % N = c % N
                                   /\ Before(M[a % N], W, a \div N, c \div N)
  BY <1>3, RankPair
<1>6. Has(r, b)
  BY <1>0, <1>1, PlacedHas
<1>7. \A a, c : <<a, c>> \in u <=>
           \/ (<<a, c>> \in r /\ a # b /\ c # b)
           \/ (a = b /\ (c = b \/ (c \in Block /\ Has(r, c) /\ c % N = b % N)))
  BY UsePair
<1>8. \A a \in Nat : a % N \in 0 .. N - 1 /\ (a % N = s /\ a \div N = x <=> a = b)
  BY <1>0, Split, SameBlock
<1>9. ASSUME NEW a, NEW c PROVE <<a, c>> \in m <=> <<a, c>> \in u
  <2>1. CASE ~(a \in Nat /\ c \in Nat /\ a % N = c % N)
    <3>1. <<a, c>> \notin m /\ <<a, c>> \notin r
      BY <1>4, <1>5, <2>1
    <3>2. a = b /\ c = b => FALSE
      BY <1>0, <2>1
    <3>3. a = b /\ c \in Block /\ c % N = b % N => FALSE
      BY <1>0, <2>1, BlockNumbers
    <3> QED
      BY <1>7, <3>1, <3>2, <3>3
  <2>2. CASE a \in Nat /\ c \in Nat /\ a % N = c % N /\ a % N # s
    <3>1. a # b /\ c # b /\ M[a % N] = L[a % N]
      BY <1>3, <1>8, <2>2
    <3> QED
      BY <1>4, <1>5, <1>7, <2>2, <3>1
  <2>3. CASE a \in Nat /\ c \in Nat /\ a % N = s /\ c % N = s
    <3>1. (a \div N = x <=> a = b) /\ (c \div N = x <=> c = b)
      BY <1>8, <2>3
    <3>2. <<a, c>> \in m <=>
            \/ Before(L[s], W, a \div N, c \div N) /\ a # b /\ c # b
            \/ a = b /\ Before(L[s], W, c \div N, c \div N)
      BY <1>2, <1>3, <1>5, <2>3, <3>1
    <3>3. /\ <<a, c>> \in r <=> Before(L[s], W, a \div N, c \div N)
          /\ <<c, c>> \in r <=> Before(L[s], W, c \div N, c \div N)
      BY <1>4, <2>3
    <3>4. Has(r, c) => c \in Block
      BY DEF Has
    <3>5. Has(r, c) <=> <<c, c>> \in r
      BY DEF Has
    <3> QED
      BY <1>6, <1>7, <2>3, <3>2, <3>3, <3>4, <3>5
  <2> QED
    BY <2>1, <2>2, <2>3
<1>10. m = u
  <2>1. \A p \in m : p = <<p[1], p[2]>>
    BY RankPairsOnly
  <2>2. u \subseteq Block \X Block
    BY PairsOnly
  <2> HIDE DEF m, u, r
  <2>3. \A p \in u : p = <<p[1], p[2]>>
    BY <2>2
  <2> QED
    BY <1>9, <2>1, <2>3
<1>11. Ranked!DirtyIn(M) = Ranked!DirtyIn(L)
  <2>1. ASSUME NEW a PROVE a \in Ranked!DirtyIn(M) <=> a \in Ranked!DirtyIn(L)
    <3>1. a \in Ranked!DirtyIn(M) <=> a \in Nat /\ DirtyRow(M[a % N], W, a \div N)
      BY <1>3, DirtyBlock
    <3>2. a \in Ranked!DirtyIn(L) <=> a \in Nat /\ DirtyRow(L[a % N], W, a \div N)
      BY DirtyBlock
    <3>3. a \in Nat => (DirtyRow(M[a % N], W, a \div N) <=> DirtyRow(L[a % N], W, a \div N))
      BY <1>2, <1>3, <1>8
    <3> QED
      BY <3>1, <3>2, <3>3
  <2> QED
    BY <2>1
<1>12. Placed(M, W, N, b, w)
  BY <1>1, <1>2, <1>3 DEF Placed
<1>13. M = Put(L, s, Touched(L[s], w))
  BY DEF M, q, Put, Touched
<1>14. Outcome(M, W, N, u, Ranked!DirtyIn(L))
  BY <1>3, <1>10, <1>11 DEF Outcome
<1> HIDE DEF s
<1> QED
  BY <1>12, <1>13, <1>14 DEF u, s, r

LEMMA BeforeItself ==
  ASSUME NEW W \in Nat, NEW row \in Rows(W), NEW t, NEW u, Before(row, W, t, u)
  PROVE  Before(row, W, t, t) /\ Before(row, W, u, u)
<1>1. \A v \in 1 .. W : row[v].LRU <= row[v].LRU
  BY DEF Rows
<1> QED
  BY <1>1 DEF Before

(* A row changes: the tags in out leave it, those in new come first, and   *)
(* those in dnew are dirty.                                                *)
Becomes(row, q, W, out, new, dnew) ==
  /\ \A t, z : Before(q, W, t, z) <=>
        \/ Before(row, W, t, z) /\ t \notin out /\ z \notin out
        \/ t \in new /\ (z \in new \/ (Before(row, W, z, z) /\ z \notin out))
  /\ \A t : DirtyRow(q, W, t) <=> (DirtyRow(row, W, t) /\ t \notin out) \/ t \in dnew

BlocksOf(T, s, N) == {a \in Nat : a % N = s /\ a \div N \in T}

Changed(L, M, W, N, b, gone, new, dnew) ==
  /\ SoundLevel(M, W, N)
  /\ Ranked!ByRank(M) = IF new = {} THEN Without(Ranked!ByRank(L), gone)
                        ELSE Using(Without(Ranked!ByRank(L), gone), b, N)
  /\ Ranked!DirtyIn(M) = (Ranked!DirtyIn(L) \ gone) \cup IF dnew = {} THEN {} ELSE {b}

(* The row of b changes, and b, if it is new there, is not among those     *)
(* that stay.                                                              *)
LEMMA LevelChanged ==
  ASSUME NEW W \in Nat \ {0}, NEW N \in Nat \ {0}, NEW L, SoundLevel(L, W, N),
         Ranked!ByRank(L) \subseteq Block \X Block,
         NEW b \in Block, NEW q, SoundRow(q, W),
         NEW out, NEW new, new = {} \/ new = {b \div N},
         new # {} => b \div N \in out \/ ~Before(L[b % N], W, b \div N, b \div N),
         NEW dnew, dnew = {} \/ dnew = {b \div N},
         Becomes(L[b % N], q, W, out, new, dnew)
  PROVE  Changed(L, [L EXCEPT ![b % N] = q], W, N, b, BlocksOf(out, b % N, N), new, dnew)
<1> DEFINE s == b % N
           x == b \div N
           M == [L EXCEPT ![s] = q]
           o == Ranked!ByRank(L)
           gone == BlocksOf(out, s, N)
           r == Without(o, gone)
           m == Ranked!ByRank(M)
           u == IF new = {} THEN r ELSE Using(r, b, N)
<1>0. b \in Nat /\ s \in 0 .. N - 1
  BY BlockNumbers, Split
<1>3. SoundLevel(M, W, N) /\ M[s] = q /\ \A y \in 0 .. N - 1 : y # s => M[y] = L[y]
  BY <1>0, RowChanged
<1> HIDE DEF M
<1>4. \A a, c : <<a, c>> \in o <=> /\ a \in Nat /\ c \in Nat /\ a % N = c % N
                                   /\ Before(L[a % N], W, a \div N, c \div N)
  BY RankPair
<1>5. \A a, c : <<a, c>> \in m <=> /\ a \in Nat /\ c \in Nat /\ a % N = c % N
                                   /\ Before(M[a % N], W, a \div N, c \div N)
  BY <1>3, RankPair
<1>6. \A a, c : <<a, c>> \in r <=> <<a, c>> \in o /\ a \notin gone /\ c \notin gone
  BY DEF Without
<1> HIDE DEF r
<1>7. \A a, c : <<a, c>> \in Using(r, b, N) <=>
           \/ (<<a, c>> \in r /\ a # b /\ c # b)
           \/ (a = b /\ (c = b \/ (c \in Block /\ Has(r, c) /\ c % N = b % N)))
  BY UsePair
<1>8. \A a \in Nat : /\ a % N \in 0 .. N - 1
                     /\ a % N = s /\ a \div N = x <=> a = b
                     /\ a % N = s => (a \in gone <=> a \div N \in out)
                     /\ a % N # s => a \notin gone /\ a # b
  <2> TAKE a \in Nat
  <2>1. a % N \in 0 .. N - 1
    BY Split
  <2>2. a % N = s /\ a \div N = x => a = b
    BY <1>0, SameBlock
  <2>3. a \in gone <=> a % N = s /\ a \div N \in out
    BY DEF BlocksOf
  <2> QED
    BY <2>1, <2>2, <2>3
<1> HIDE DEF gone
<1>9. \A c : Has(r, c) <=> <<c, c>> \in o /\ c \notin gone
  BY <1>6 DEF Has
<1>10. \A c : <<c, c>> \in o => c \in Block
  OBVIOUS
<1>11. ASSUME NEW a, NEW c PROVE <<a, c>> \in m <=> <<a, c>> \in u
  <2>1. CASE ~(a \in Nat /\ c \in Nat /\ a % N = c % N)
    <3>1. <<a, c>> \notin m /\ <<a, c>> \notin r
      BY <1>4, <1>5, <1>6, <2>1
    <3>2. a = b /\ c = b => FALSE
      BY <1>0, <2>1
    <3>3. a = b /\ c \in Block /\ c % N = b % N => FALSE
      BY <1>0, <2>1, BlockNumbers
    <3> QED
      BY <1>7, <3>1, <3>2, <3>3
  <2>2. CASE a \in Nat /\ c \in Nat /\ a % N = c % N /\ a % N # s
    <3>1. a # b /\ c # b /\ M[a % N] = L[a % N] /\ a \notin gone /\ c \notin gone
      BY <1>3, <1>8, <2>2
    <3>2. <<a, c>> \in m <=> <<a, c>> \in r
      BY <1>4, <1>5, <1>6, <2>2, <3>1
    <3> QED
      BY <1>7, <3>1, <3>2
  <2>3. CASE a \in Nat /\ c \in Nat /\ a % N = s /\ c % N = s
    <3>1. /\ (a \div N = x <=> a = b) /\ (c \div N = x <=> c = b)
          /\ (a \in gone <=> a \div N \in out) /\ (c \in gone <=> c \div N \in out)
      BY <1>8, <2>3
    <3>2. /\ <<a, c>> \in o <=> Before(L[s], W, a \div N, c \div N)
          /\ <<c, c>> \in o <=> Before(L[s], W, c \div N, c \div N)
      BY <1>4, <2>3
    <3>3. <<a, c>> \in m <=>
            \/ Before(L[s], W, a \div N, c \div N) /\ a \div N \notin out /\ c \div N \notin out
            \/ a \div N \in new
                 /\ (c \div N \in new \/ (Before(L[s], W, c \div N, c \div N) /\ c \div N \notin out))
      BY <1>3, <1>5, <2>3 DEF Becomes
    <3>4. CASE new = {}
      BY <1>6, <3>1, <3>2, <3>3, <3>4
    <3>5. CASE new = {x}
      <4>0. <<a, c>> \in m <=>
            \/ <<a, c>> \in r
            \/ a = b /\ (c = b \/ Has(r, c))
        BY <1>6, <1>9, <3>1, <3>2, <3>3, <3>5
      <4>1. <<a, c>> \in u <=>
            \/ <<a, c>> \in r /\ a # b /\ c # b
            \/ a = b /\ (c = b \/ Has(r, c))
        BY <1>7, <1>9, <1>10, <2>3, <3>5
      <4>2. <<a, c>> \in r => a # b /\ c # b
        <5> SUFFICES ASSUME <<a, c>> \in r, a = b \/ c = b PROVE FALSE
          OBVIOUS
        <5>1. a \notin gone /\ c \notin gone /\ Before(L[s], W, a \div N, c \div N)
          BY <1>6, <3>2
        <5>2. L[s] \in Rows(W)
          BY <1>0 DEF SoundLevel
        <5>3. Before(L[s], W, x, x)
          BY <3>1, <5>1, <5>2, BeforeItself
        <5> QED
          BY <3>1, <3>5, <5>1, <5>3
      <4> QED
        BY <4>0, <4>1, <4>2
    <3> QED
      BY <3>4, <3>5
  <2> QED
    BY <2>1, <2>2, <2>3
<1>12. m = u
  <2>1. \A p \in m : p = <<p[1], p[2]>>
    BY RankPairsOnly
  <2>2. u \subseteq Block \X Block
    BY PairsOnly DEF r
  <2> HIDE DEF m, u, o
  <2>3. \A p \in u : p = <<p[1], p[2]>>
    BY <2>2
  <2>4. \A p : p \in m => p \in u
    BY <1>11, <2>1
  <2>5. \A p : p \in u => p \in m
    BY <1>11, <2>3
  <2> QED
    BY <2>4, <2>5
<1>13. Ranked!DirtyIn(M) = (Ranked!DirtyIn(L) \ gone) \cup IF dnew = {} THEN {} ELSE {b}
  <2>1. ASSUME NEW a
        PROVE  a \in Ranked!DirtyIn(M) <=>
                 (a \in Ranked!DirtyIn(L) /\ a \notin gone) \/ (dnew # {} /\ a = b)
    <3>1. a \in Ranked!DirtyIn(M) <=> a \in Nat /\ DirtyRow(M[a % N], W, a \div N)
      BY <1>3, DirtyBlock
    <3>2. a \in Ranked!DirtyIn(L) <=> a \in Nat /\ DirtyRow(L[a % N], W, a \div N)
      BY DirtyBlock
    <3>3. CASE a \notin Nat
      BY <1>0, <3>1, <3>2, <3>3
    <3>4. CASE a \in Nat /\ a % N # s
      BY <1>3, <1>8, <3>1, <3>2, <3>4
    <3>5. CASE a \in Nat /\ a % N = s
      <4>1. /\ a \div N = x <=> a = b
            /\ a \in gone <=> a \div N \in out
        BY <1>8, <3>5
      <4>2. DirtyRow(q, W, a \div N) <=>
              (DirtyRow(L[s], W, a \div N) /\ a \div N \notin out) \/ a \div N \in dnew
        BY DEF Becomes
      <4> QED
        BY <1>3, <3>1, <3>2, <3>5, <4>1, <4>2
    <3> QED
      BY <3>3, <3>4, <3>5
  <2> QED
    BY <2>1
<1> QED
  BY <1>3, <1>12, <1>13 DEF M, r, gone, Changed

LEMMA LevelMark ==
  ASSUME NEW W \in Nat \ {0}, NEW N \in Nat \ {0}, NEW L, SoundLevel(L, W, N),
         Ranked!ByRank(L) \subseteq Block \X Block,
         NEW b \in Block, NEW w, Placed(L, W, N, b, w), NEW e \in BOOLEAN,
         NEW d \in BOOLEAN, d <=> L[b % N][w].dirty \/ e
  PROVE  LET M == Put(L, b % N, Dirtied(L[b % N], w, d))
         IN  /\ Outcome(M, W, N, Ranked!ByRank(L), Ranked!DirtyIn(L) \cup IF e THEN {b} ELSE {})
             /\ Placed(M, W, N, b, w)
<1> DEFINE s == b % N
           x == b \div N
           row == L[s]
           q == [row EXCEPT ![w].dirty = d]
           dnew == IF e THEN {x} ELSE {}
           M == [L EXCEPT ![s] = q]
<1>0. b \in Nat /\ s \in 0 .. N - 1
  BY BlockNumbers, Split
<1>1. SoundRow(row, W) /\ w \in 1 .. W /\ row[w].validBit /\ row[w].tag = x
  BY <1>0 DEF SoundLevel, Placed
<1> HIDE DEF row
<1>2. /\ SoundRow(q, W)
      /\ \A v \in 1 .. W : /\ q[v].validBit = row[v].validBit
                           /\ q[v].tag = row[v].tag
                           /\ q[v].LRU = row[v].LRU
                           /\ q[v].dirty = IF v = w THEN d ELSE row[v].dirty
      /\ \A t, u : Before(q, W, t, u) <=> Before(row, W, t, u)
      /\ \A t : DirtyRow(q, W, t) <=> IF t = row[w].tag THEN d ELSE DirtyRow(row, W, t)
  <2>1. Marked(row, q, W, w, d)
    BY <1>1, MarkRow
  <2> HIDE DEF q
  <2> QED
    BY <2>1 DEF Marked
<1>3. DirtyRow(row, W, x) <=> row[w].dirty
  BY <1>1 DEF DirtyRow, SoundRow, Tagged
<1> HIDE DEF q
<1>4. \A t : DirtyRow(q, W, t) <=> DirtyRow(row, W, t) \/ t \in dnew
  <2>1. d <=> row[w].dirty \/ e
    BY DEF row
  <2> QED
    BY <1>1, <1>2, <1>3, <2>1
<1> HIDE DEF dnew
<1>5. Becomes(row, q, W, {}, {}, dnew)
  BY <1>2, <1>4 DEF Becomes
<1>6. Changed(L, M, W, N, b, BlocksOf({}, s, N), {}, dnew)
  <2>1. dnew = {} \/ dnew = {x}
    BY DEF dnew
  <2>2. Becomes(L[b % N], q, W, {}, {}, dnew)
    BY <1>5 DEF row
  <2> QED
    BY <1>2, <2>1, <2>2, LevelChanged
<1>7. BlocksOf({}, s, N) = {} /\ Without(Ranked!ByRank(L), {}) = Ranked!ByRank(L)
  BY UseNothing DEF BlocksOf
<1>8. (IF dnew = {} THEN {} ELSE {b}) = IF e THEN {b} ELSE {}
  BY DEF dnew
<1>9. M[s] = q
  BY <1>0 DEF SoundLevel
<1>10. Placed(M, W, N, b, w)
  <2> HIDE DEF M
  <2> QED
    BY <1>1, <1>2, <1>9 DEF Placed, row
<1>11. M = Put(L, s, Dirtied(L[s], w, d))
  BY DEF q, row, Put, Dirtied
<1>12. Outcome(M, W, N, Ranked!ByRank(L), Ranked!DirtyIn(L) \cup IF e THEN {b} ELSE {})
  <2> HIDE DEF M
  <2> QED
    BY <1>6, <1>7, <1>8 DEF Changed, Outcome
<1> HIDE DEF M, s
<1> QED
  BY <1>10, <1>11, <1>12 DEF s

LEMMA LevelDrop ==
  ASSUME NEW W \in Nat \ {0}, NEW N \in Nat \ {0}, NEW L, SoundLevel(L, W, N),
         Ranked!ByRank(L) \subseteq Block \X Block,
         NEW b \in Block, NEW w, Placed(L, W, N, b, w)
  PROVE  Outcome(Put(L, b % N, Dropped(L[b % N], w)), W, N,
                 Without(Ranked!ByRank(L), {b}), Ranked!DirtyIn(L) \ {b})
<1> DEFINE s == b % N
           x == b \div N
           row == L[s]
           q == Ranked!UpdateLRUforEvac([row EXCEPT ![w].validBit = FALSE], row[w].LRU)
           M == [L EXCEPT ![s] = q]
<1>0. b \in Nat /\ s \in 0 .. N - 1
  BY BlockNumbers, Split
<1>1. SoundRow(row, W) /\ w \in 1 .. W /\ row[w].validBit /\ row[w].tag = x
  BY <1>0 DEF SoundLevel, Placed
<1> HIDE DEF row
<1>2. /\ SoundRow(q, W)
      /\ \A t, u : Before(q, W, t, u) <=> Before(row, W, t, u) /\ t # row[w].tag /\ u # row[w].tag
      /\ \A t : DirtyRow(q, W, t) <=> DirtyRow(row, W, t) /\ t # row[w].tag
  BY <1>1, DropRow
<1> HIDE DEF q
<1>3. Becomes(row, q, W, {x}, {}, {})
  <2> HIDE DEF x
  <2> QED
    BY <1>1, <1>2 DEF Becomes
<1>4. Changed(L, M, W, N, b, BlocksOf({x}, s, N), {}, {})
  <2>1. Becomes(L[b % N], q, W, {x}, {}, {})
    BY <1>3 DEF row
  <2> HIDE DEF x
  <2> QED
    BY <1>2, <2>1, LevelChanged
<1>5. BlocksOf({x}, s, N) = {b}
  <2>1. \A a \in Nat : a % N = s /\ a \div N = x => a = b
    BY <1>0, SameBlock
  <2> QED
    BY <1>0, <2>1 DEF BlocksOf
<1>6. M = Put(L, s, Dropped(L[s], w))
  BY DEF q, row, Put, Dropped
<1>7. Outcome(M, W, N, Without(Ranked!ByRank(L), {b}), Ranked!DirtyIn(L) \ {b})
  <2> HIDE DEF M
  <2> QED
    BY <1>4, <1>5 DEF Changed, Outcome
<1> HIDE DEF M, s
<1> QED
  BY <1>6, <1>7 DEF s

(* What leaves a set when a block enters it is what the program replaces.  *)
SlotOf(row) ==
  IF Ranked!EmptySlots(row) # {} THEN Ranked!Min(Ranked!EmptySlots(row)) ELSE Ranked!getLRU(row)

Replaces(row, s, N) ==
  IF Ranked!EmptySlots(row) # {} THEN {} ELSE {row[Ranked!getLRU(row)].tag * N + s}

LEMMA SlotRight ==
  ASSUME NEW W \in Nat \ {0}, NEW row, SoundRow(row, W)
  PROVE  /\ SlotOf(row) \in 1 .. W
         /\ IF Ranked!EmptySlots(row) # {} THEN ~row[SlotOf(row)].validBit
            ELSE /\ SlotOf(row) = Ranked!getLRU(row)
                 /\ \A v \in 1 .. W : row[v].validBit
                 /\ row[SlotOf(row)].LRU = W
                 /\ Numbered(row, W, W)
<1>0. row \in Rows(W)
  BY DEF SoundRow
<1>1. PICK n : Numbered(row, W, n)
  BY DEF SoundRow
<1>2. Ranked!EmptySlots(row) = {v \in 1 .. W : ~row[v].validBit}
  BY <1>0, RowWays
<1>3. CASE Ranked!EmptySlots(row) # {}
  <2>1. Ranked!EmptySlots(row) \subseteq Nat
    BY <1>2
  <2>2. Ranked!Min(Ranked!EmptySlots(row)) \in Ranked!EmptySlots(row)
    BY <1>3, <2>1, RankedLeast
  <2> QED
    BY <1>2, <1>3, <2>2 DEF SlotOf
<1>4. CASE Ranked!EmptySlots(row) = {}
  <2>1. n = W
    BY <1>0, <1>1, <1>4, NumberedCount
  <2>2. \A v \in 1 .. W : row[v].validBit
    BY <1>2, <1>4
  <2> DEFINE last == {v \in 1 .. W : row[v].LRU = W}
  <2>3. last # {}
    <3>1. W \in 1 .. n
      BY <2>1
    <3> QED
      BY <1>1, <3>1 DEF Numbered
  <2>4. Ranked!getLRU(row) = Ranked!Min(last)
    BY <1>0, <2>3, RowWays DEF Ranked!getLRU
  <2>5. Ranked!Min(last) \in last
    <3>1. last \subseteq Nat
      OBVIOUS
    <3> HIDE DEF last
    <3> QED
      BY <2>3, <3>1, RankedLeast
  <2> QED
    BY <1>1, <1>4, <2>1, <2>2, <2>4, <2>5 DEF SlotOf
<1> QED
  BY <1>3, <1>4

LEMMA MatesCount ==
  ASSUME NEW W \in Nat \ {0}, NEW N \in Nat \ {0}, NEW L, SoundLevel(L, W, N),
         Ranked!ByRank(L) \subseteq Block \X Block, NEW b \in Block
  PROVE  LET U == {v \in 1 .. W : L[b % N][v].validBit}
         IN  /\ Mates(Ranked!ByRank(L), b, N) = {L[b % N][v].tag * N + (b % N) : v \in U}
             /\ Cardinality(Mates(Ranked!ByRank(L), b, N)) = Cardinality(Ranked!Used(L[b % N]))
<1> DEFINE s == b % N
           row == L[s]
           U == {v \in 1 .. W : row[v].validBit}
           block(v) == row[v].tag * N + s
           r == Ranked!ByRank(L)
           f == [v \in U |-> block(v)]
<1>0. b \in Nat /\ s \in 0 .. N - 1
  BY BlockNumbers, Split
<1>1. SoundRow(row, W) /\ row \in Rows(W)
  BY <1>0 DEF SoundLevel, SoundRow
<1>2. \A v \in U : row[v].tag \in Nat
  BY <1>1 DEF Rows
<1>3. \A v \in U : block(v) \in Nat /\ block(v) % N = s /\ block(v) \div N = row[v].tag
  BY <1>0, <1>2, Joined
<1> HIDE DEF row
<1>4. \A v \in U : Has(r, block(v))
  <2> TAKE v \in U
  <2>1. Placed(L, W, N, block(v), v)
    BY <1>3 DEF Placed, row
  <2> HIDE DEF block
  <2> QED
    BY <1>3, <2>1, PlacedHas
<1>5. \A x \in Block : Has(r, x) /\ x % N = s => \E v \in U : x = block(v)
  <2> SUFFICES ASSUME NEW x \in Block, Has(r, x), x % N = s PROVE \E v \in U : x = block(v)
    OBVIOUS
  <2>1. x \in Nat /\ x = (x \div N) * N + (x % N)
    BY BlockNumbers, Split
  <2>2. PICK v \in 1 .. W : Placed(L, W, N, x, v)
    BY <2>1, PlacedHas
  <2>3. v \in U /\ row[v].tag = x \div N
    BY <2>2 DEF Placed, row
  <2> QED
    BY <2>1, <2>3
<1>6. \A x : Has(r, x) => x \in Block
  BY DEF Has
<1>7. Mates(r, b, N) = {block(v) : v \in U}
  <2> HIDE DEF r, block, U
  <2> QED
    BY <1>3, <1>4, <1>5, <1>6 DEF Mates
<1>8. f \in Bijection(U, Mates(r, b, N))
  <2>1. \A v \in U : f[v] = block(v)
    OBVIOUS
  <2>2. \A v, w \in U : block(v) = block(w) => v = w
    <3> TAKE v, w \in U
    <3> HAVE block(v) = block(w)
    <3>1. row[v].tag = row[w].tag
      <4> HIDE DEF block
      <4> QED
        BY <1>3
    <3> QED
      BY <1>1, <3>1 DEF SoundRow, Tagged
  <2> HIDE DEF block, U, r
  <2> QED
    BY <1>7, <2>1, <2>2 DEF Bijection, Injection, Surjection, IsInjective
<1>9. IsFiniteSet(U)
  <2>1. IsFiniteSet(1 .. W)
    BY FS_Interval
  <2> QED
    BY <2>1, FS_Subset
<1>10. Cardinality(Mates(r, b, N)) = Cardinality(U)
  <2> HIDE DEF U, f, r
  <2>1. ExistsBijection(U, Mates(r, b, N))
    BY <1>8 DEF ExistsBijection
  <2> QED
    BY <1>9, <2>1, FS_Bijection
<1>11. Ranked!Used(row) = U
  BY <1>1, RowWays
<1> QED
  BY <1>7, <1>10, <1>11 DEF row

LEMMA SlotLeaves ==
  ASSUME NEW W \in Nat \ {0}, NEW N \in Nat \ {0}, NEW L, SoundLevel(L, W, N),
         Ranked!ByRank(L) \subseteq Block \X Block, Level(Ranked!ByRank(L), W, N),
         NEW b \in Block
  PROVE  Leaving(Ranked!ByRank(L), b, W, N) = Replaces(L[b % N], b % N, N)
<1> DEFINE s == b % N
           row == L[s]
           r == Ranked!ByRank(L)
           block(v) == row[v].tag * N + s
<1>0. b \in Nat /\ s \in 0 .. N - 1
  BY BlockNumbers, Split
<1>1. SoundRow(row, W) /\ row \in Rows(W)
  BY <1>0 DEF SoundLevel, SoundRow
<1>2. PICK n : Numbered(row, W, n)
  BY <1>1 DEF SoundRow
<1>3. /\ Mates(r, b, N) = {block(v) : v \in {v \in 1 .. W : row[v].validBit}}
      /\ Cardinality(Mates(r, b, N)) = Cardinality(Ranked!Used(row))
  BY MatesCount
<1>4. Cardinality(Mates(r, b, N)) = n /\ (n = W <=> Ranked!EmptySlots(row) = {})
  BY <1>1, <1>2, <1>3, NumberedCount
<1>5. \/ n < W /\ Leaving(r, b, W, N) = {}
      \/ n = W /\ \E x \in Mates(r, b, N) : /\ Leaving(r, b, W, N) = {x}
                                            /\ \A y \in Mates(r, b, N) : <<y, x>> \in r
  <2>1. \/ /\ Cardinality(Mates(r, b, N)) < W
           /\ Leaving(r, b, W, N) = {}
        \/ /\ Cardinality(Mates(r, b, N)) = W
           /\ \E x \in Mates(r, b, N) : /\ Leaving(r, b, W, N) = {x}
                                        /\ \A y \in Mates(r, b, N) : <<y, x>> \in r
    <3> HIDE DEF r
    <3> QED
      BY LeavingOne DEF r
  <2> HIDE DEF r
  <2> QED
    BY <1>4, <2>1
<1> HIDE DEF row, block
<1>6. CASE n < W /\ Leaving(r, b, W, N) = {}
  <2>1. n \in Nat
    BY <1>2 DEF Numbered
  <2> QED
    BY <1>4, <1>6, <2>1 DEF Replaces, row
<1>7. CASE n = W /\ \E x \in Mates(r, b, N) : /\ Leaving(r, b, W, N) = {x}
                                              /\ \A y \in Mates(r, b, N) : <<y, x>> \in r
  <2>1. PICK x \in Mates(r, b, N) : /\ Leaving(r, b, W, N) = {x}
                                    /\ \A y \in Mates(r, b, N) : <<y, x>> \in r
    BY <1>7
  <2> DEFINE w == Ranked!getLRU(row)
  <2>2. /\ w \in 1 .. W /\ row[w].LRU = W
        /\ \A v \in 1 .. W : row[v].validBit /\ row[v].LRU \in 1 .. W
    <3>1. Ranked!EmptySlots(row) = {}
      BY <1>4, <1>7
    <3>2. w \in 1 .. W /\ row[w].LRU = W /\ (\A v \in 1 .. W : row[v].validBit) /\ Numbered(row, W, W)
      BY <1>1, <3>1, SlotRight
    <3> QED
      BY <3>2 DEF Numbered
  <2> HIDE DEF w
  <2>3. block(w) \in Mates(r, b, N)
    BY <1>3, <2>2
  <2>4. PICK v \in 1 .. W : x = block(v)
    BY <1>3, <2>1
  <2>5. <<x, block(w)>> \in r
    <3>1. row[v].tag \in Nat /\ row[w].tag \in Nat
      BY <1>1, <2>2 DEF Rows
    <3>2. /\ block(v) \in Nat /\ block(v) % N = s /\ block(v) \div N = row[v].tag
          /\ block(w) \in Nat /\ block(w) % N = s /\ block(w) \div N = row[w].tag
      BY <1>0, <3>1, Joined DEF block
    <3>3. Before(row, W, row[v].tag, row[w].tag)
      BY <2>2 DEF Before
    <3>4. <<block(v), block(w)>> \in r
      BY <3>2, <3>3, RankPair DEF row
    <3> QED
      BY <2>4, <3>4
  <2>6. <<block(w), x>> \in r
    BY <2>1, <2>3
  <2>7. x = block(w)
    BY <2>5, <2>6 DEF Level, Proper
  <2>8. Ranked!EmptySlots(row) = {}
    BY <1>4, <1>7
  <2> QED
    BY <2>1, <2>7, <2>8 DEF Replaces, w, block, row
<1> QED
  BY <1>5, <1>6, <1>7

(* The block that gives its way to b, if the set is full.                  *)
SlotBlockIs(L, W, N, b, w, s, tag, a) ==
  IF Ranked!EmptySlots(L[s]) # {}
    THEN /\ Leaving(Ranked!ByRank(L), b, W, N) = {}
         /\ BlocksOf({}, s, N) = {}
    ELSE /\ Leaving(Ranked!ByRank(L), b, W, N) = {a}
         /\ BlocksOf({tag}, s, N) = {a}
         /\ a \in Block /\ a % N = s /\ a \div N = tag
         /\ Placed(L, W, N, a, w)

LEMMA SlotBlock ==
  ASSUME NEW W \in Nat \ {0}, NEW N \in Nat \ {0}, NEW L, SoundLevel(L, W, N),
         Ranked!ByRank(L) \subseteq Block \X Block, Level(Ranked!ByRank(L), W, N),
         NEW b \in Block
  PROVE  LET row == L[b % N]
             w == SlotOf(row)
             a == row[w].tag * N + (b % N)
         IN  SlotBlockIs(L, W, N, b, w, b % N, row[w].tag, a)
<1> DEFINE s == b % N
           row == L[s]
           w == SlotOf(row)
           t == row[w].tag
           a == t * N + s
           r == Ranked!ByRank(L)
<1>0. b \in Nat /\ s \in 0 .. N - 1
  BY BlockNumbers, Split
<1>1. SoundRow(row, W) /\ row \in Rows(W)
  BY <1>0 DEF SoundLevel, SoundRow
<1>2. Leaving(r, b, W, N) = Replaces(row, s, N)
  BY SlotLeaves
<1>3. w \in 1 .. W
  BY <1>1, SlotRight
<1>4. CASE Ranked!EmptySlots(row) # {}
  <2>1. Leaving(r, b, W, N) = {}
    BY <1>2, <1>4 DEF Replaces
  <2>2. BlocksOf({}, s, N) = {}
    BY DEF BlocksOf
  <2> QED
    BY <1>4, <2>1, <2>2 DEF SlotBlockIs
<1>5. CASE Ranked!EmptySlots(row) = {}
  <2>1. w = Ranked!getLRU(row) /\ row[w].validBit
    BY <1>1, <1>3, <1>5, SlotRight
  <2>2. Leaving(r, b, W, N) = {a}
    BY <1>2, <1>5, <2>1 DEF Replaces
  <2>3. t \in Nat
    BY <1>1, <1>3 DEF Rows
  <2>4. a \in Nat /\ a % N = s /\ a \div N = t
    BY <1>0, <2>3, Joined
  <2>5. a \in Block
    <3>1. Leaving(r, b, W, N) \subseteq Kept(r)
      BY LeavingHeld
    <3> HIDE DEF a, r
    <3> QED
      BY <2>2, <3>1 DEF Kept
  <2>6. BlocksOf({t}, s, N) = {a}
    <3> HIDE DEF a, t, s
    <3>1. \A y \in Nat : y % N = s /\ y \div N = t => y = a
      BY <2>4, SameBlock
    <3> QED
      BY <2>4, <3>1 DEF BlocksOf
  <2>7. Placed(L, W, N, a, w)
    <3>1. L[a % N] = row
      BY <2>4
    <3> HIDE DEF a, t, row, s
    <3> QED
      BY <1>3, <2>1, <2>4, <3>1 DEF Placed, t
  <2> QED
    BY <1>5, <2>2, <2>4, <2>5, <2>6, <2>7 DEF SlotBlockIs
<1> QED
  BY <1>4, <1>5

(* A block that is not in the level enters it. *)
LEMMA LevelInsert ==
  ASSUME NEW W \in Nat \ {0}, NEW N \in Nat \ {0}, NEW L, SoundLevel(L, W, N),
         Ranked!ByRank(L) \subseteq Block \X Block, Level(Ranked!ByRank(L), W, N),
         NEW b \in Block, ~Has(Ranked!ByRank(L), b), NEW operation
  PROVE  Outcome(Put(L, b % N, Ranked!InsertToSlot(L[b % N], b \div N, SlotOf(L[b % N]), operation)),
                 W, N, Enter(Ranked!ByRank(L), b, W, N),
                 (Ranked!DirtyIn(L) \ Leaving(Ranked!ByRank(L), b, W, N))
                   \cup IF operation = "w" THEN {b} ELSE {})
<1> DEFINE s == b % N
           x == b \div N
           row == L[s]
           w == SlotOf(row)
           q == Ranked!InsertToSlot(row, x, w, operation)
           M == [L EXCEPT ![s] = q]
           r == Ranked!ByRank(L)
           out == IF Ranked!EmptySlots(row) # {} THEN {} ELSE {row[w].tag}
           dnew == IF operation = "w" THEN {x} ELSE {}
<1>0. b \in Nat /\ s \in 0 .. N - 1 /\ x \in Nat
  BY BlockNumbers, Split
<1>1. SoundRow(row, W) /\ row \in Rows(W)
  BY <1>0 DEF SoundLevel, SoundRow
<1>2. /\ w \in 1 .. W
      /\ row[w].validBit => (\A v \in 1 .. W : row[v].validBit) /\ row[w].LRU = W
      /\ row[w].validBit <=> Ranked!EmptySlots(row) = {}
  BY <1>1, SlotRight
<1>3. \A v \in 1 .. W : ~(row[v].validBit /\ row[v].tag = x)
  BY <1>0, PlacedHas DEF Placed
<1>4. ~Before(row, W, x, x)
  BY <1>3 DEF Before
<1>5. BlocksOf(out, s, N) = Leaving(r, b, W, N)
  <2>1. SlotBlockIs(L, W, N, b, w, s, row[w].tag, row[w].tag * N + s)
    BY SlotBlock
  <2> HIDE DEF w, s
  <2> QED
    BY <2>1 DEF SlotBlockIs
<1> HIDE DEF w, row, x
<1>6. Becomes(row, q, W, out, {x}, dnew) /\ SoundRow(q, W)
  <2> DEFINE gone(t) == row[w].validBit /\ row[w].tag = t
  <2>1. /\ SoundRow(q, W)
        /\ \A t, u : Before(q, W, t, u) <=>
              \/ Before(row, W, t, u) /\ ~gone(t) /\ ~gone(u)
              \/ t = x /\ (u = x \/ (Before(row, W, u, u) /\ ~gone(u)))
        /\ \A t : DirtyRow(q, W, t) <=>
              \/ DirtyRow(row, W, t) /\ ~gone(t)
              \/ t = x /\ operation = "w"
    BY <1>0, <1>1, <1>2, <1>3, InsertRow
  <2>2. \A t : gone(t) <=> t \in out
    BY <1>2
  <2>3. \A t : t \in dnew <=> t = x /\ operation = "w"
    OBVIOUS
  <2> HIDE DEF gone, q, out, dnew
  <2> QED
    BY <2>1, <2>2, <2>3 DEF Becomes
<1>7. Changed(L, M, W, N, b, BlocksOf(out, s, N), {x}, dnew)
  <2>1. dnew = {} \/ dnew = {x}
    OBVIOUS
  <2> HIDE DEF q, out, dnew
  <2>2. Becomes(L[b % N], q, W, out, {x}, dnew) /\ ~Before(L[b % N], W, x, x)
    BY <1>4, <1>6 DEF row
  <2>3. x = b \div N
    BY DEF x
  <2> QED
    BY <1>6, <2>1, <2>2, <2>3, LevelChanged
<1>8. (IF dnew = {} THEN {} ELSE {b}) = IF operation = "w" THEN {b} ELSE {}
  OBVIOUS
<1>9. Enter(r, b, W, N) = Using(Without(r, Leaving(r, b, W, N)), b, N)
  BY DEF Enter, Using
<1>10. Outcome(M, W, N, Enter(r, b, W, N),
               (Ranked!DirtyIn(L) \ Leaving(r, b, W, N)) \cup IF operation = "w" THEN {b} ELSE {})
  <2> HIDE DEF M, r, out, dnew
  <2> QED
    BY <1>5, <1>7, <1>8, <1>9 DEF Changed, Outcome, r
<1>11. M = Put(L, s, Ranked!InsertToSlot(L[s], b \div N, SlotOf(L[s]), operation))
  BY DEF M, q, w, row, x, Put
<1> HIDE DEF M, s
<1> QED
  BY <1>10, <1>11 DEF s, r
-----------------------------------------------------------------------------
(* CacheSimRoy, both levels: what the program's cache c holds, and in what *)
(* order; then what each of its functions makes of that.                   *)
Whole(c) == c \in [L1 : {c.L1}, L2 : {c.L2}, crashed : BOOLEAN] /\ ~c.crashed

Holds(c, one, two, d1, d2) ==
  /\ Whole(c)
  /\ SoundLevel(c.L1, L1Ways, L1Sets) /\ SoundLevel(c.L2, L2Ways, L2Sets)
  /\ Ranked!ByRank(c.L1) = one /\ Ranked!ByRank(c.L2) = two
  /\ Ranked!DirtyIn(c.L1) = d1 /\ Ranked!DirtyIn(c.L2) = d2

LEMMA Fields ==
  ASSUME NEW c, Whole(c), NEW X
  PROVE  /\ Whole([c EXCEPT !.L1 = X])
         /\ [c EXCEPT !.L1 = X].L1 = X /\ [c EXCEPT !.L1 = X].L2 = c.L2
         /\ Whole([c EXCEPT !.L2 = X])
         /\ [c EXCEPT !.L2 = X].L2 = X /\ [c EXCEPT !.L2 = X].L1 = c.L1
<1> DEFINE p == [c EXCEPT !.L1 = X]
           q == [c EXCEPT !.L2 = X]
<1>1. p \in [L1 : {X}, L2 : {c.L2}, crashed : BOOLEAN] /\ ~p.crashed
  BY DEF Whole
<1>2. q \in [L1 : {c.L1}, L2 : {X}, crashed : BOOLEAN] /\ ~q.crashed
  BY DEF Whole
<1> HIDE DEF p, q
<1>3. p.L1 = X /\ p.L2 = c.L2 /\ q.L1 = c.L1 /\ q.L2 = X
  BY <1>1, <1>2
<1>4. Whole(p) /\ Whole(q)
  BY <1>1, <1>2, <1>3 DEF Whole
<1> QED
  BY <1>3, <1>4 DEF p, q

(* One level of the cache changes. *)
LEMMA HoldsL1 ==
  ASSUME NEW c, NEW one, NEW two, NEW d1, NEW d2, Holds(c, one, two, d1, d2),
         NEW M, NEW r, NEW d, Outcome(M, L1Ways, L1Sets, r, d)
  PROVE  Holds([c EXCEPT !.L1 = M], r, two, d, d2)
<1> DEFINE p == [c EXCEPT !.L1 = M]
<1>1. Whole(p) /\ p.L1 = M /\ p.L2 = c.L2
  BY Fields DEF Holds
<1> HIDE DEF p
<1>2. Holds(p, r, two, d, d2)
  BY <1>1 DEF Holds, Outcome
<1> QED
  BY <1>2 DEF p

LEMMA HoldsL2 ==
  ASSUME NEW c, NEW one, NEW two, NEW d1, NEW d2, Holds(c, one, two, d1, d2),
         NEW M, NEW r, NEW d, Outcome(M, L2Ways, L2Sets, r, d)
  PROVE  Holds([c EXCEPT !.L2 = M], one, r, d1, d)
<1> DEFINE p == [c EXCEPT !.L2 = M]
<1>1. Whole(p) /\ p.L2 = M /\ p.L1 = c.L1
  BY Fields DEF Holds
<1> HIDE DEF p
<1>2. Holds(p, one, r, d1, d)
  BY <1>1 DEF Holds, Outcome
<1> QED
  BY <1>2 DEF p

LEMMA PutTwice ==
  ASSUME NEW L, NEW s, NEW p, NEW q
  PROVE  Put(Put(L, s, p), s, q) = Put(L, s, q)
  BY DEF Put

LEMMA PutGet ==
  ASSUME NEW L, NEW s \in DOMAIN L, NEW p
  PROVE  Put(L, s, p)[s] = p
  BY DEF Put

(* A block of a level is marked dirty and used. *)
LEMMA LevelMarkTouch ==
  ASSUME NEW W \in Nat \ {0}, NEW N \in Nat \ {0}, NEW L, SoundLevel(L, W, N),
         Ranked!ByRank(L) \subseteq Block \X Block,
         NEW b \in Block, NEW w, Placed(L, W, N, b, w)
  PROVE  Outcome(Put(L, b % N, Ranked!UpdateLRU(Dirtied(L[b % N], w, TRUE), L[b % N][w].LRU)), W, N,
                 Using(Ranked!ByRank(L), b, N), Ranked!DirtyIn(L) \cup {b})
<1> DEFINE s == b % N
           p == Dirtied(L[s], w, TRUE)
           K == Put(L, s, p)
           M == Put(K, s, Touched(K[s], w))
<1>0. s \in DOMAIN L
  BY BlockNumbers, Split DEF SoundLevel
<1>1. /\ Outcome(K, W, N, Ranked!ByRank(L), Ranked!DirtyIn(L) \cup IF TRUE THEN {b} ELSE {})
      /\ Placed(K, W, N, b, w)
  <2>1. \A d, e \in BOOLEAN : (d <=> L[b % N][w].dirty \/ e) =>
          LET J == Put(L, b % N, Dirtied(L[b % N], w, d))
          IN  /\ Outcome(J, W, N, Ranked!ByRank(L), Ranked!DirtyIn(L) \cup IF e THEN {b} ELSE {})
              /\ Placed(J, W, N, b, w)
    BY LevelMark
  <2>2. TRUE <=> L[b % N][w].dirty \/ TRUE
    OBVIOUS
  <2> QED
    BY <2>1, <2>2, Zenon
<1>2. K[s] = p
  BY <1>0, PutGet
<1>21. p[w].LRU = L[s][w].LRU
  <2>1. L[s] \in Rows(W) /\ w \in 1 .. W
    BY <1>0 DEF SoundLevel, Placed
  <2> HIDE DEF s
  <2> QED
    BY <2>1 DEF Rows, Dirtied
<1> HIDE DEF K, p
<1>3. Outcome(M, W, N, Using(Ranked!ByRank(K), b, N), Ranked!DirtyIn(K))
  BY <1>1, LevelTouch DEF Outcome
<1>4. M = Put(K, s, Ranked!UpdateLRU(p, L[s][w].LRU))
  BY <1>2, <1>21 DEF Touched
<1>5. M = Put(L, s, Ranked!UpdateLRU(p, L[s][w].LRU))
  BY <1>4, PutTwice DEF K
<1> HIDE DEF M, s
<1> QED
  BY <1>1, <1>3, <1>5 DEF p, s, Outcome

(* A block of a level is used, and marked dirty if it was written. *)
LEMMA LevelTouchMark ==
  ASSUME NEW W \in Nat \ {0}, NEW N \in Nat \ {0}, NEW L, SoundLevel(L, W, N),
         Ranked!ByRank(L) \subseteq Block \X Block,
         NEW b \in Block, NEW w, Placed(L, W, N, b, w), NEW e \in BOOLEAN
  PROVE  LET used == Touched(L[b % N], w)
         IN  Outcome(Put(L, b % N, Dirtied(used, w, used[w].dirty \/ e)), W, N,
                     Using(Ranked!ByRank(L), b, N),
                     Ranked!DirtyIn(L) \cup IF e THEN {b} ELSE {})
<1> DEFINE s == b % N
           p == Touched(L[s], w)
           K == Put(L, s, p)
           d == p[w].dirty \/ e
           M == Put(K, s, Dirtied(K[s], w, d))
<1>0. s \in DOMAIN L
  BY BlockNumbers, Split DEF SoundLevel
<1>1. /\ Outcome(K, W, N, Using(Ranked!ByRank(L), b, N), Ranked!DirtyIn(L))
      /\ Placed(K, W, N, b, w)
  BY LevelTouch
<1>2. K[s] = p
  BY <1>0, PutGet
<1>3. d \in BOOLEAN /\ (d <=> K[s][w].dirty \/ e)
  BY <1>2
<1>4. Ranked!ByRank(K) \subseteq Block \X Block
  BY <1>1, PairsOnly DEF Outcome
<1> HIDE DEF K, p, d
<1>5. Outcome(M, W, N, Ranked!ByRank(K), Ranked!DirtyIn(K) \cup IF e THEN {b} ELSE {})
  <2>1. SoundLevel(K, W, N) /\ Placed(K, W, N, b, w)
    BY <1>1 DEF Outcome
  <2> QED
    BY <1>3, <1>4, <2>1, LevelMark
<1>6. M = Put(K, s, Dirtied(p, w, d))
  BY <1>2
<1>7. M = Put(L, s, Dirtied(p, w, d))
  BY <1>6, PutTwice DEF K
<1> HIDE DEF M, s
<1> QED
  BY <1>1, <1>5, <1>7 DEF p, d, s, Outcome
-----------------------------------------------------------------------------
LEMMA WithL1HitHolds ==
  ASSUME NEW c, NEW one, NEW two, NEW d1, NEW d2, Holds(c, one, two, d1, d2),
         one \subseteq Block \X Block, NEW b \in Block, Has(one, b), NEW operation
  PROVE  LET w == Ranked!SearchCache(c.L1[b % L1Sets], b \div L1Sets)
         IN  /\ w # 0
             /\ Holds(Ranked!WithL1Hit(c, b, w, operation), Using(one, b, L1Sets), two,
                      d1 \cup IF operation = "w" THEN {b} ELSE {}, d2)
<1> USE LevelSizes
<1> DEFINE L == c.L1
           s == b % L1Sets
           w == Ranked!SearchCache(L[s], b \div L1Sets)
           e == operation = "w"
           used == Touched(L[s], w)
           M == Put(L, s, Dirtied(used, w, used[w].dirty \/ e))
<1>1. SoundLevel(L, L1Ways, L1Sets) /\ Ranked!ByRank(L) = one /\ Ranked!DirtyIn(L) = d1
  BY DEF Holds
<1>2. Placed(L, L1Ways, L1Sets, b, w)
  <2>1. b \in Nat
    BY BlockNumbers
  <2> HIDE DEF L
  <2> QED
    BY <1>1, <2>1, SearchRight
<1>3. w # 0
  BY <1>2 DEF Placed
<1>4. Ranked!WithL1Hit(c, b, w, operation) = [c EXCEPT !.L1 = M]
  BY DEF Ranked!WithL1Hit, Put, Dirtied, Touched
<1>5. Outcome(M, L1Ways, L1Sets, Using(one, b, L1Sets), d1 \cup IF e THEN {b} ELSE {})
  <2>1. e \in BOOLEAN
    OBVIOUS
  <2> HIDE DEF L, w, e
  <2> QED
    BY <1>1, <1>2, <2>1, LevelTouchMark
<1> HIDE DEF M
<1>6. Holds([c EXCEPT !.L1 = M], Using(one, b, L1Sets), two, d1 \cup IF e THEN {b} ELSE {}, d2)
  BY <1>5, HoldsL1
<1> QED
  BY <1>3, <1>4, <1>6

LEMMA Used2Holds ==
  ASSUME NEW c, NEW one, NEW two, NEW d1, NEW d2, Holds(c, one, two, d1, d2),
         two \subseteq Block \X Block, NEW b \in Block, Has(two, b)
  PROVE  LET w == Ranked!SearchCache(c.L2[b % L2Sets], b \div L2Sets)
         IN  /\ w # 0
             /\ Holds(Ranked!Used2(c, b, w), one, Using(two, b, L2Sets), d1, d2)
             /\ Placed(Ranked!Used2(c, b, w).L2, L2Ways, L2Sets, b, w)
<1> USE LevelSizes
<1> DEFINE L == c.L2
           s == b % L2Sets
           w == Ranked!SearchCache(L[s], b \div L2Sets)
           M == Put(L, s, Touched(L[s], w))
<1>1. /\ SoundLevel(L, L2Ways, L2Sets) /\ Ranked!ByRank(L) = two /\ Ranked!DirtyIn(L) = d2
      /\ Whole(c)
  BY DEF Holds
<1>2. Placed(L, L2Ways, L2Sets, b, w)
  <2>1. b \in Nat
    BY BlockNumbers
  <2> HIDE DEF L
  <2> QED
    BY <1>1, <2>1, SearchRight
<1>3. w # 0
  BY <1>2 DEF Placed
<1>4. Ranked!Used2(c, b, w) = [c EXCEPT !.L2 = M]
  BY DEF Ranked!Used2, Put, Touched
<1>5. /\ Outcome(M, L2Ways, L2Sets, Using(two, b, L2Sets), d2)
      /\ Placed(M, L2Ways, L2Sets, b, w)
  <2> HIDE DEF L, w
  <2> QED
    BY <1>1, <1>2, LevelTouch
<1> HIDE DEF M
<1>6. Holds([c EXCEPT !.L2 = M], one, Using(two, b, L2Sets), d1, d2)
  BY <1>5, HoldsL2
<1>7. [c EXCEPT !.L2 = M].L2 = M
  BY <1>1, Fields
<1> QED
  BY <1>3, <1>4, <1>5, <1>6, <1>7

(* The block b, in way w of L2, is marked there. *)
LEMMA Marked2Holds ==
  ASSUME NEW c, NEW one, NEW two, NEW d1, NEW d2, Holds(c, one, two, d1, d2),
         two \subseteq Block \X Block, NEW b \in Block, NEW w,
         Placed(c.L2, L2Ways, L2Sets, b, w)
  PROVE  Holds([c EXCEPT !.L2[b % L2Sets][w].dirty = TRUE], one, two, d1, d2 \cup {b})
<1> USE LevelSizes
<1> DEFINE L == c.L2
           s == b % L2Sets
           M == Put(L, s, Dirtied(L[s], w, TRUE))
<1>1. SoundLevel(L, L2Ways, L2Sets) /\ Ranked!ByRank(L) = two /\ Ranked!DirtyIn(L) = d2
  BY DEF Holds
<1>2. [c EXCEPT !.L2[b % L2Sets][w].dirty = TRUE] = [c EXCEPT !.L2 = M]
  BY DEF Put, Dirtied
<1>3. Outcome(M, L2Ways, L2Sets, two, d2 \cup {b})
  <2>1. Placed(L, L2Ways, L2Sets, b, w)
    OBVIOUS
  <2>2. \A d, e \in BOOLEAN : (d <=> L[s][w].dirty \/ e) =>
          Outcome(Put(L, s, Dirtied(L[s], w, d)), L2Ways, L2Sets,
                  two, d2 \cup IF e THEN {b} ELSE {})
    <3> HIDE DEF L
    <3> QED
      BY <1>1, <2>1, LevelMark
  <2>3. TRUE <=> L[s][w].dirty \/ TRUE
    OBVIOUS
  <2>4. Outcome(M, L2Ways, L2Sets, two, d2 \cup IF TRUE THEN {b} ELSE {})
    BY <2>2, <2>3, Zenon
  <2> HIDE DEF M
  <2> QED
    BY <2>4
<1> HIDE DEF M
<1>4. Holds([c EXCEPT !.L2 = M], one, two, d1, d2 \cup {b})
  BY <1>3, HoldsL2
<1> QED
  BY <1>2, <1>4

LEMMA EvacToL2Holds ==
  ASSUME NEW c, NEW one, NEW two, NEW d1, NEW d2, Holds(c, one, two, d1, d2),
         two \subseteq Block \X Block, NEW b \in Block, Has(two, b)
  PROVE  Holds(Ranked!EvacToL2(c, b), one, Using(two, b, L2Sets), d1, d2 \cup {b})
<1> USE LevelSizes
<1> DEFINE L == c.L2
           s == b % L2Sets
           w == Ranked!SearchCache(L[s], b \div L2Sets)
           M == Put(L, s, Ranked!UpdateLRU(Dirtied(L[s], w, TRUE), L[s][w].LRU))
<1>1. SoundLevel(L, L2Ways, L2Sets) /\ Ranked!ByRank(L) = two /\ Ranked!DirtyIn(L) = d2
  BY DEF Holds
<1>2. Placed(L, L2Ways, L2Sets, b, w)
  <2>1. b \in Nat
    BY BlockNumbers
  <2> HIDE DEF L
  <2> QED
    BY <1>1, <2>1, SearchRight
<1>3. w # 0
  BY <1>2 DEF Placed
<1>4. Ranked!EvacToL2(c, b) = [c EXCEPT !.L2 = M]
  BY <1>3 DEF Ranked!EvacToL2, Ranked!NULL, Put, Dirtied
<1>5. Outcome(M, L2Ways, L2Sets, Using(two, b, L2Sets), d2 \cup {b})
  <2> HIDE DEF L, w
  <2> QED
    BY <1>1, <1>2, LevelMarkTouch
<1> HIDE DEF M
<1> QED
  BY <1>4, <1>5, HoldsL2

(* The block leaving L2 leaves L1 if it is there. *)
LEMMA EvacFromL1Holds ==
  ASSUME NEW c, NEW one, NEW two, NEW d1, NEW d2, Holds(c, one, two, d1, d2),
         Proper(one, L1Sets), d1 \subseteq Kept(one), NEW b \in Block
  PROVE  Holds(Ranked!EvacFromL1(c, b), Without(one, {b}), two, d1 \ {b}, d2)
<1> USE LevelSizes
<1> DEFINE L == c.L1
           s == b % L1Sets
           w == Ranked!SearchCache(L[s], b \div L1Sets)
           M == Put(L, s, Dropped(L[s], w))
<1>1. SoundLevel(L, L1Ways, L1Sets) /\ Ranked!ByRank(L) = one /\ Ranked!DirtyIn(L) = d1
  BY DEF Holds
<1>2. IF Has(one, b) THEN Placed(L, L1Ways, L1Sets, b, w) ELSE w = 0
  <2>1. b \in Nat
    BY BlockNumbers
  <2> HIDE DEF L
  <2> QED
    BY <1>1, <2>1, SearchRight
<1>3. CASE Has(one, b)
  <2>1. Placed(L, L1Ways, L1Sets, b, w)
    BY <1>2, <1>3
  <2>2. w # 0
    BY <2>1 DEF Placed
  <2>3. Ranked!EvacFromL1(c, b) = [c EXCEPT !.L1 = M]
    BY <2>2 DEF Ranked!EvacFromL1, Ranked!NULL, Put, Dropped
  <2>4. Outcome(M, L1Ways, L1Sets, Without(one, {b}), d1 \ {b})
    <3>1. one \subseteq Block \X Block
      BY DEF Proper
    <3> HIDE DEF L, w
    <3> QED
      BY <1>1, <2>1, <3>1, LevelDrop
  <2> HIDE DEF M
  <2> QED
    BY <2>3, <2>4, HoldsL1
<1>4. CASE ~Has(one, b)
  <2>1. w = 0
    BY <1>2, <1>4
  <2>2. Ranked!EvacFromL1(c, b) = c
    BY <2>1 DEF Ranked!EvacFromL1, Ranked!NULL
  <2>3. Without(one, {b}) = one
    <3>1. \A p \in one : p = <<p[1], p[2]>>
      BY DEF Proper
    <3>2. \A x, y : <<x, y>> \in one => x # b /\ y # b
      BY <1>4 DEF Proper
    <3>3. \A p \in one : p[1] # b /\ p[2] # b
      BY <3>1, <3>2
    <3> QED
      BY <3>3 DEF Without
  <2>4. d1 \ {b} = d1
    BY <1>4 DEF Kept
  <2> QED
    BY <2>2, <2>3, <2>4
<1> QED
  BY <1>3, <1>4

(* Each evacuation leaves the other level alone. *)
LEMMA EvacLeaves ==
  ASSUME NEW c, Whole(c), NEW b
  PROVE  Ranked!EvacToL2(c, b).L1 = c.L1 /\ Ranked!EvacFromL1(c, b).L2 = c.L2
<1>1. \A X : [c EXCEPT !.L1 = X].L2 = c.L2 /\ [c EXCEPT !.L2 = X].L1 = c.L1
  BY Fields
<1>2. Ranked!EvacToL2(c, b).L1 = c.L1
  <2> DEFINE s == b % L2Sets
             w == Ranked!SearchCache(c.L2[s], b \div L2Sets)
             M == [c.L2 EXCEPT ![s] = Ranked!UpdateLRU([c.L2[s] EXCEPT ![w].dirty = TRUE], c.L2[s][w].LRU)]
  <2>1. Ranked!EvacToL2(c, b) = IF w = 0 THEN c ELSE [c EXCEPT !.L2 = M]
    BY DEF Ranked!EvacToL2, Ranked!NULL
  <2> HIDE DEF w, M
  <2> QED
    BY <1>1, <2>1
<1>3. Ranked!EvacFromL1(c, b).L2 = c.L2
  <2> DEFINE s == b % L1Sets
             w == Ranked!SearchCache(c.L1[s], b \div L1Sets)
             M == [c.L1 EXCEPT ![s] =
                     Ranked!UpdateLRUforEvac([c.L1[s] EXCEPT ![w].validBit = FALSE], c.L1[s][w].LRU)]
  <2>1. Ranked!EvacFromL1(c, b) = IF w = 0 THEN c ELSE [c EXCEPT !.L1 = M]
    BY DEF Ranked!EvacFromL1, Ranked!NULL
  <2> HIDE DEF w, M
  <2> QED
    BY <1>1, <2>1
<1> QED
  BY <1>2, <1>3

LEMMA PlacedDirty ==
  ASSUME NEW W \in Nat \ {0}, NEW N \in Nat \ {0}, NEW L, SoundLevel(L, W, N),
         NEW a \in Nat, NEW w, Placed(L, W, N, a, w)
  PROVE  L[a % N][w].dirty <=> a \in Ranked!DirtyIn(L)
<1>1. Tagged(L[a % N], W)
  <2>1. a % N \in 0 .. N - 1
    BY Split
  <2> QED
    BY <2>1 DEF SoundLevel, SoundRow
<1>2. DirtyRow(L[a % N], W, a \div N) <=> L[a % N][w].dirty
  BY <1>1 DEF Tagged, DirtyRow, Placed
<1> QED
  BY <1>2, DirtyBlock

LEMMA InsertToL1Holds ==
  ASSUME NEW c, NEW one, NEW two, NEW d1, NEW d2, Holds(c, one, two, d1, d2),
         Level(one, L1Ways, L1Sets), Level(two, L2Ways, L2Sets),
         Kept(one) \subseteq Kept(two),
         NEW b \in Block, ~Has(one, b), NEW operation
  PROVE  LET V == Leaving(one, b, L1Ways, L1Sets)
         IN  Holds(Ranked!InsertToL1(c, b, operation),
                   Enter(one, b, L1Ways, L1Sets), Use(two, V \cap d1, L2Sets),
                   (d1 \ V) \cup IF operation = "w" THEN {b} ELSE {}, d2 \cup (V \cap d1))
<1> USE LevelSizes
<1> DEFINE L == c.L1
           s == b % L1Sets
           row == L[s]
           w == SlotOf(row)
           a == row[w].tag * L1Sets + s
           V == Leaving(one, b, L1Ways, L1Sets)
           stale == V \cap d1
           evac == Ranked!EmptySlots(row) = {} /\ row[w].dirty
           below == IF evac THEN Ranked!EvacToL2(c, a) ELSE c
           new == Ranked!InsertToSlot(row, b \div L1Sets, w, operation)
           M == Put(L, s, new)
<1>0. s \in 0 .. L1Sets - 1
  BY BlockNumbers, Split
<1>1. /\ SoundLevel(L, L1Ways, L1Sets) /\ Ranked!ByRank(L) = one /\ Ranked!DirtyIn(L) = d1
      /\ Whole(c)
  BY DEF Holds
<1>2. one \subseteq Block \X Block /\ two \subseteq Block \X Block
  BY DEF Level, Proper
<1>3. w # 0
  <2>1. SoundRow(row, L1Ways)
    BY <1>0, <1>1 DEF SoundLevel
  <2>2. w \in 1 .. L1Ways
    BY <2>1, SlotRight
  <2> QED
    BY <2>2
<1>4. Ranked!InsertToL1(c, b, operation) =
        [below EXCEPT !.L1[s] = Ranked!InsertToSlot(@, b \div L1Sets, w, operation)]
  <2>1. Ranked!InsertToL1(c, b, operation) =
          IF w = 0 THEN Ranked!Crash(c)
          ELSE [below EXCEPT !.L1[s] = Ranked!InsertToSlot(@, b \div L1Sets, w, operation)]
    BY DEF Ranked!InsertToL1, Ranked!NULL, SlotOf
  <2> QED
    BY <1>3, <2>1
<1>5. below.L1 = L
  BY <1>1, EvacLeaves
<1>6. IF Ranked!EmptySlots(row) # {} THEN V = {}
      ELSE /\ V = {a} /\ a \in Block /\ Placed(L, L1Ways, L1Sets, a, w)
           /\ L[a % L1Sets][w].dirty <=> row[w].dirty
  <2>1. SlotBlockIs(L, L1Ways, L1Sets, b, w, s, row[w].tag, a)
    <3>1. /\ SoundLevel(L, L1Ways, L1Sets) /\ Ranked!ByRank(L) \subseteq Block \X Block
          /\ Level(Ranked!ByRank(L), L1Ways, L1Sets)
      BY <1>1, <1>2
    <3> HIDE DEF L
    <3> QED
      BY <3>1, SlotBlock
  <2> HIDE DEF a, w, L, s
  <2> QED
    BY <1>1, <2>1 DEF SlotBlockIs
<1> HIDE DEF w, row, a, L, evac
<1>7. Holds(below, one, Use(two, stale, L2Sets), d1, d2 \cup stale)
  <2>1. CASE evac
    <3>1. V = {a} /\ a \in Block /\ Placed(L, L1Ways, L1Sets, a, w) /\ L[a % L1Sets][w].dirty
      BY <1>6, <2>1 DEF evac
    <3>2. a \in Nat
      BY <3>1, BlockNumbers
    <3>3. a \in d1
      BY <1>1, <3>1, <3>2, PlacedDirty
    <3>4. stale = {a}
      BY <3>1, <3>3
    <3>5. Has(two, a)
      <4>1. V \subseteq Kept(one)
        BY LeavingHeld
      <4> QED
        BY <3>1, <4>1 DEF Kept
    <3>6. Holds(Ranked!EvacToL2(c, a), one, Using(two, a, L2Sets), d1, d2 \cup {a})
      BY <1>2, <3>1, <3>5, EvacToL2Holds
    <3> HIDE DEF stale, V
    <3> QED
      BY <2>1, <3>4, <3>6 DEF Using
  <2>2. CASE ~evac
    <3>1. stale = {}
      <4>1. CASE Ranked!EmptySlots(row) # {}
        BY <1>6, <4>1
      <4>2. CASE Ranked!EmptySlots(row) = {}
        <5>1. /\ V = {a} /\ a \in Block /\ Placed(L, L1Ways, L1Sets, a, w)
              /\ ~L[a % L1Sets][w].dirty
          BY <1>6, <2>2, <4>2 DEF evac
        <5>2. a \in Nat
          BY <5>1, BlockNumbers
        <5>3. a \notin d1
          BY <1>1, <5>1, <5>2, PlacedDirty
        <5> QED
          BY <5>1, <5>3
      <4> QED
        BY <4>1, <4>2
    <3>2. Use(two, {}, L2Sets) = two
      BY UseNothing
    <3> HIDE DEF stale
    <3> QED
      BY <2>2, <3>1, <3>2
  <2> QED
    BY <2>1, <2>2
<1>8. Ranked!InsertToL1(c, b, operation) = [below EXCEPT !.L1 = M]
  <2> HIDE DEF below
  <2>1. [below EXCEPT !.L1[s] = Ranked!InsertToSlot(@, b \div L1Sets, w, operation)] =
          [below EXCEPT !.L1 = [below.L1 EXCEPT ![s] =
             Ranked!InsertToSlot(below.L1[s], b \div L1Sets, w, operation)]]
    OBVIOUS
  <2> QED
    BY <1>4, <1>5, <2>1 DEF row, Put
<1>9. Outcome(M, L1Ways, L1Sets, Enter(one, b, L1Ways, L1Sets),
              (d1 \ V) \cup IF operation = "w" THEN {b} ELSE {})
  <2>1. Outcome(Put(L, s, Ranked!InsertToSlot(L[s], b \div L1Sets, SlotOf(L[s]), operation)),
                L1Ways, L1Sets, Enter(Ranked!ByRank(L), b, L1Ways, L1Sets),
                (Ranked!DirtyIn(L) \ Leaving(Ranked!ByRank(L), b, L1Ways, L1Sets))
                  \cup IF operation = "w" THEN {b} ELSE {})
    BY <1>1, <1>2, LevelInsert
  <2> QED
    BY <1>1, <2>1 DEF row, w
<1> HIDE DEF M, below, stale
<1>10. Holds([below EXCEPT !.L1 = M], Enter(one, b, L1Ways, L1Sets), Use(two, stale, L2Sets),
             (d1 \ V) \cup IF operation = "w" THEN {b} ELSE {}, d2 \cup stale)
  BY <1>7, <1>9, HoldsL1
<1> QED
  BY <1>8, <1>10 DEF stale

LEMMA InsertToL2Holds ==
  ASSUME NEW c, NEW one, NEW two, NEW d1, NEW d2, Holds(c, one, two, d1, d2),
         Proper(one, L1Sets), Level(two, L2Ways, L2Sets), d1 \subseteq Kept(one),
         NEW b \in Block, ~Has(two, b), NEW operation
  PROVE  LET out == Leaving(two, b, L2Ways, L2Sets)
         IN  Holds(Ranked!InsertToL2(c, b, operation),
                   Without(one, out), Enter(two, b, L2Ways, L2Sets),
                   d1 \ out, (d2 \ out) \cup IF operation = "w" THEN {b} ELSE {})
<1> USE LevelSizes
<1> DEFINE L == c.L2
           s == b % L2Sets
           row == L[s]
           w == SlotOf(row)
           a == row[w].tag * L2Sets + s
           out == Leaving(two, b, L2Ways, L2Sets)
           above == IF Ranked!EmptySlots(row) = {} THEN Ranked!EvacFromL1(c, a) ELSE c
           M == Put(L, s, Ranked!InsertToSlot(row, b \div L2Sets, w, operation))
<1>0. s \in 0 .. L2Sets - 1
  BY BlockNumbers, Split
<1>1. /\ SoundLevel(L, L2Ways, L2Sets) /\ Ranked!ByRank(L) = two /\ Ranked!DirtyIn(L) = d2
      /\ Whole(c)
  BY DEF Holds
<1>2. two \subseteq Block \X Block
  BY DEF Level, Proper
<1>3. w # 0
  <2>1. SoundRow(row, L2Ways)
    BY <1>0, <1>1 DEF SoundLevel
  <2>2. w \in 1 .. L2Ways
    BY <2>1, SlotRight
  <2> QED
    BY <2>2
<1>4. Ranked!InsertToL2(c, b, operation) =
        [above EXCEPT !.L2[s] = Ranked!InsertToSlot(@, b \div L2Sets, w, operation)]
  <2>1. Ranked!InsertToL2(c, b, operation) =
          IF w = 0 THEN Ranked!Crash(c)
          ELSE [above EXCEPT !.L2[s] = Ranked!InsertToSlot(@, b \div L2Sets, w, operation)]
    BY DEF Ranked!InsertToL2, Ranked!NULL, SlotOf
  <2> QED
    BY <1>3, <2>1
<1>5. above.L2 = L
  BY <1>1, EvacLeaves
<1>6. IF Ranked!EmptySlots(row) # {} THEN out = {} ELSE out = {a} /\ a \in Block
  <2>1. SlotBlockIs(L, L2Ways, L2Sets, b, w, s, row[w].tag, a)
    <3>1. /\ SoundLevel(L, L2Ways, L2Sets) /\ Ranked!ByRank(L) \subseteq Block \X Block
          /\ Level(Ranked!ByRank(L), L2Ways, L2Sets)
      BY <1>1, <1>2
    <3> HIDE DEF L
    <3> QED
      BY <3>1, SlotBlock
  <2> HIDE DEF a, w, L, s
  <2> QED
    BY <1>1, <2>1 DEF SlotBlockIs
<1> HIDE DEF w, row, a, L
<1>7. Holds(above, Without(one, out), two, d1 \ out, d2)
  <2>1. CASE Ranked!EmptySlots(row) = {}
    <3>1. out = {a} /\ a \in Block
      BY <1>6, <2>1
    <3>2. Holds(Ranked!EvacFromL1(c, a), Without(one, {a}), two, d1 \ {a}, d2)
      BY <3>1, EvacFromL1Holds
    <3> HIDE DEF out
    <3> QED
      BY <2>1, <3>1, <3>2
  <2>2. CASE Ranked!EmptySlots(row) # {}
    <3>1. out = {} /\ Without(one, {}) = one /\ d1 \ {} = d1
      BY <1>6, <2>2, UseNothing
    <3> HIDE DEF out
    <3> QED
      BY <2>2, <3>1
  <2> QED
    BY <2>1, <2>2
<1>8. Ranked!InsertToL2(c, b, operation) = [above EXCEPT !.L2 = M]
  <2> HIDE DEF above
  <2>1. [above EXCEPT !.L2[s] = Ranked!InsertToSlot(@, b \div L2Sets, w, operation)] =
          [above EXCEPT !.L2 = [above.L2 EXCEPT ![s] =
             Ranked!InsertToSlot(above.L2[s], b \div L2Sets, w, operation)]]
    OBVIOUS
  <2> QED
    BY <1>4, <1>5, <2>1 DEF row, Put
<1>9. Outcome(M, L2Ways, L2Sets, Enter(two, b, L2Ways, L2Sets),
              (d2 \ out) \cup IF operation = "w" THEN {b} ELSE {})
  <2>1. Outcome(Put(L, s, Ranked!InsertToSlot(L[s], b \div L2Sets, SlotOf(L[s]), operation)),
                L2Ways, L2Sets, Enter(Ranked!ByRank(L), b, L2Ways, L2Sets),
                (Ranked!DirtyIn(L) \ Leaving(Ranked!ByRank(L), b, L2Ways, L2Sets))
                  \cup IF operation = "w" THEN {b} ELSE {})
    BY <1>1, <1>2, LevelInsert
  <2> QED
    BY <1>1, <2>1 DEF row, w
<1> HIDE DEF M, above, out
<1>10. Holds([above EXCEPT !.L2 = M], Without(one, out), Enter(two, b, L2Ways, L2Sets), d1 \ out,
             (d2 \ out) \cup IF operation = "w" THEN {b} ELSE {})
  BY <1>7, <1>9, HoldsL2
<1> QED
  BY <1>8, <1>10 DEF out

(* Only what a level holds is dirty in it. *)
LEMMA HoldsDirty ==
  ASSUME NEW c, NEW one, NEW two, NEW d1, NEW d2, Holds(c, one, two, d1, d2)
  PROVE  \A a \in d2 : Has(two, a)
<1> USE LevelSizes
<1>1. SoundLevel(c.L2, L2Ways, L2Sets) /\ Ranked!ByRank(c.L2) = two /\ Ranked!DirtyIn(c.L2) = d2
  BY DEF Holds
<1> SUFFICES ASSUME NEW a \in d2 PROVE Has(two, a)
  OBVIOUS
<1>2. a \in Nat /\ DirtyRow(c.L2[a % L2Sets], L2Ways, a \div L2Sets)
  BY <1>1, DirtyBlock
<1>3. \E w \in 1 .. L2Ways : Placed(c.L2, L2Ways, L2Sets, a, w)
  BY <1>2 DEF DirtyRow, Placed
<1> QED
  BY <1>1, <1>2, <1>3, PlacedHas

(* What the searches of an access find. *)
LEMMA Searches ==
  ASSUME NEW c, NEW one, NEW two, NEW d1, NEW d2, Holds(c, one, two, d1, d2), NEW b \in Block
  PROVE  /\ Ranked!SearchCache(c.L1[b % L1Sets], b \div L1Sets) # 0 <=> Has(one, b)
         /\ Ranked!SearchCache(c.L2[b % L2Sets], b \div L2Sets) # 0 <=> Has(two, b)
<1> USE LevelSizes
<1> DEFINE A == c.L1
           B == c.L2
<1>1. /\ SoundLevel(A, L1Ways, L1Sets) /\ Ranked!ByRank(A) = one
      /\ SoundLevel(B, L2Ways, L2Sets) /\ Ranked!ByRank(B) = two
  BY DEF Holds
<1> HIDE DEF A, B
<1>2. b \in Nat
  BY BlockNumbers
<1>3. Ranked!SearchCache(A[b % L1Sets], b \div L1Sets) # 0 <=> Has(one, b)
  BY <1>1, <1>2, SearchRight DEF Placed
<1>4. Ranked!SearchCache(B[b % L2Sets], b \div L2Sets) # 0 <=> Has(two, b)
  BY <1>1, <1>2, SearchRight DEF Placed
<1> QED
  BY <1>3, <1>4 DEF A, B
-----------------------------------------------------------------------------
(* CacheSimRoy, a whole access.                                            *)
New(b, operation) == IF operation = "w" THEN {b} ELSE {}

LEMMA AccessHit1 ==
  ASSUME NEW c, NEW one, NEW two, NEW d1, NEW d2, Holds(c, one, two, d1, d2),
         one \subseteq Block \X Block, NEW b \in Block, Has(one, b), NEW operation, NEW alloc
  PROVE  Holds(Ranked!access(c, b, operation, alloc),
               Using(one, b, L1Sets), two, d1 \cup New(b, operation), d2)
<1> DEFINE w == Ranked!SearchCache(c.L1[b % L1Sets], b \div L1Sets)
<1>1. /\ w # 0
      /\ Holds(Ranked!WithL1Hit(c, b, w, operation), Using(one, b, L1Sets), two,
               d1 \cup New(b, operation), d2)
  BY WithL1HitHolds DEF New
<1> HIDE DEF w
<1>2. Ranked!access(c, b, operation, alloc) = Ranked!WithL1Hit(c, b, w, operation)
  BY <1>1 DEF Ranked!access, Ranked!NULL, w
<1> QED
  BY <1>1, <1>2

LEMMA AccessHit2 ==
  ASSUME NEW c, NEW one, NEW two, NEW d1, NEW d2, Holds(c, one, two, d1, d2),
         Level(one, L1Ways, L1Sets), Level(two, L2Ways, L2Sets), Kept(one) \subseteq Kept(two),
         NEW b \in Block, ~Has(one, b), Has(two, b), NEW operation, NEW alloc,
         operation = "r" \/ alloc = 1
  PROVE  LET V == Leaving(one, b, L1Ways, L1Sets)
         IN  Holds(Ranked!access(c, b, operation, alloc),
                   Enter(one, b, L1Ways, L1Sets),
                   Use(Using(two, b, L2Sets), V \cap d1, L2Sets),
                   (d1 \ V) \cup New(b, operation), d2 \cup (V \cap d1))
<1> USE LevelSizes
<1> DEFINE w1 == Ranked!SearchCache(c.L1[b % L1Sets], b \div L1Sets)
           w2 == Ranked!SearchCache(c.L2[b % L2Sets], b \div L2Sets)
           u  == Ranked!Used2(c, b, w2)
           t  == Using(two, b, L2Sets)
           V  == Leaving(one, b, L1Ways, L1Sets)
<1>1. w1 = 0 /\ w2 # 0
  BY Searches
<1>2. Holds(u, one, t, d1, d2)
  <2>1. two \subseteq Block \X Block
    BY DEF Level, Proper
  <2> QED
    BY <2>1, Used2Holds
<1>3. Level(t, L2Ways, L2Sets) /\ Kept(one) \subseteq Kept(t)
  <2>1. Level(t, L2Ways, L2Sets) /\ Kept(t) = Kept(two) \cup {b}
    BY UseLevel
  <2> QED
    BY <2>1
<1>4. Ranked!access(c, b, operation, alloc) = Ranked!InsertToL1(u, b, operation)
  <2> HIDE DEF w1, w2
  <2> QED
    BY <1>1 DEF Ranked!access, Ranked!NULL, w1, w2
<1> HIDE DEF u, t
<1>5. Holds(Ranked!InsertToL1(u, b, operation),
            Enter(one, b, L1Ways, L1Sets), Use(t, V \cap d1, L2Sets),
            (d1 \ V) \cup New(b, operation), d2 \cup (V \cap d1))
  BY <1>2, <1>3, InsertToL1Holds DEF New
<1> QED
  BY <1>4, <1>5 DEF t

LEMMA AccessBelow ==
  ASSUME NEW c, NEW one, NEW two, NEW d1, NEW d2, Holds(c, one, two, d1, d2),
         Level(two, L2Ways, L2Sets),
         NEW b \in Block, ~Has(one, b), Has(two, b), NEW operation, NEW alloc,
         ~(operation = "r" \/ alloc = 1)
  PROVE  Holds(Ranked!access(c, b, operation, alloc),
               one, Using(two, b, L2Sets), d1, d2 \cup {b})
<1> USE LevelSizes
<1> DEFINE w1 == Ranked!SearchCache(c.L1[b % L1Sets], b \div L1Sets)
           w2 == Ranked!SearchCache(c.L2[b % L2Sets], b \div L2Sets)
           u  == Ranked!Used2(c, b, w2)
           t  == Using(two, b, L2Sets)
<1>0. two \subseteq Block \X Block
  BY DEF Level, Proper
<1>1. w1 = 0 /\ w2 # 0
  BY Searches
<1>2. Holds(u, one, t, d1, d2) /\ Placed(u.L2, L2Ways, L2Sets, b, w2)
  BY <1>0, Used2Holds
<1>3. t \subseteq Block \X Block
  BY <1>0, PairsOnly
<1>4. Ranked!access(c, b, operation, alloc) = [u EXCEPT !.L2[b % L2Sets][w2].dirty = TRUE]
  <2> HIDE DEF w1, w2
  <2> QED
    BY <1>1 DEF Ranked!access, Ranked!NULL, w1, w2
<1> HIDE DEF u, t, w1, w2
<1>5. Holds([u EXCEPT !.L2[b % L2Sets][w2].dirty = TRUE], one, t, d1, d2 \cup {b})
  BY <1>2, <1>3, Marked2Holds
<1> QED
  BY <1>4, <1>5 DEF t

LEMMA AccessMiss ==
  ASSUME NEW c, NEW one, NEW two, NEW d1, NEW d2, Holds(c, one, two, d1, d2),
         Level(one, L1Ways, L1Sets), Level(two, L2Ways, L2Sets), Kept(one) \subseteq Kept(two),
         d1 \subseteq Kept(one),
         NEW b \in Block, ~Has(one, b), ~Has(two, b), NEW operation, NEW alloc,
         operation = "r" \/ alloc = 1
  PROVE  LET out == Leaving(two, b, L2Ways, L2Sets)
             o   == Without(one, out)
             V   == Leaving(o, b, L1Ways, L1Sets)
         IN  Holds(Ranked!access(c, b, operation, alloc),
                   Enter(o, b, L1Ways, L1Sets),
                   Use(Enter(two, b, L2Ways, L2Sets), V \cap (d1 \ out), L2Sets),
                   ((d1 \ out) \ V) \cup New(b, operation),
                   ((d2 \ out) \cup New(b, operation)) \cup (V \cap (d1 \ out)))
<1> USE LevelSizes
<1> DEFINE w1  == Ranked!SearchCache(c.L1[b % L1Sets], b \div L1Sets)
           w2  == Ranked!SearchCache(c.L2[b % L2Sets], b \div L2Sets)
           u   == Ranked!InsertToL2(c, b, operation)
           out == Leaving(two, b, L2Ways, L2Sets)
           o   == Without(one, out)
           t   == Enter(two, b, L2Ways, L2Sets)
           V   == Leaving(o, b, L1Ways, L1Sets)
<1>1. w1 = 0 /\ w2 = 0
  BY Searches
<1>2. Holds(u, o, t, d1 \ out, (d2 \ out) \cup New(b, operation))
  <2>1. Proper(one, L1Sets)
    BY DEF Level
  <2> QED
    BY <2>1, InsertToL2Holds DEF New
<1>3. Level(o, L1Ways, L1Sets) /\ Kept(o) = Kept(one) \ out
  BY WithoutLevel
<1>4. Level(t, L2Ways, L2Sets) /\ Kept(t) = (Kept(two) \ out) \cup {b}
  BY EnterLevel
<1>5. ~Has(o, b)
  BY DEF Has, Without
<1>6. Ranked!access(c, b, operation, alloc) = Ranked!InsertToL1(u, b, operation)
  <2> HIDE DEF w1, w2
  <2> QED
    BY <1>1 DEF Ranked!access, Ranked!NULL, w1, w2
<1> HIDE DEF u, t, o, out
<1>7. Kept(o) \subseteq Kept(t)
  BY <1>3, <1>4
<1>8. Holds(Ranked!InsertToL1(u, b, operation),
            Enter(o, b, L1Ways, L1Sets), Use(t, V \cap (d1 \ out), L2Sets),
            ((d1 \ out) \ V) \cup New(b, operation),
            ((d2 \ out) \cup New(b, operation)) \cup (V \cap (d1 \ out)))
  BY <1>2, <1>3, <1>4, <1>5, <1>7, InsertToL1Holds DEF New
<1> QED
  BY <1>6, <1>8 DEF t, o, out

LEMMA AccessNone ==
  ASSUME NEW c, NEW one, NEW two, NEW d1, NEW d2, Holds(c, one, two, d1, d2),
         NEW b \in Block, ~Has(one, b), ~Has(two, b), NEW operation, NEW alloc,
         ~(operation = "r" \/ alloc = 1)
  PROVE  Ranked!access(c, b, operation, alloc) = c
<1> DEFINE w1  == Ranked!SearchCache(c.L1[b % L1Sets], b \div L1Sets)
           w2  == Ranked!SearchCache(c.L2[b % L2Sets], b \div L2Sets)
<1>1. w1 = 0 /\ w2 = 0
  BY Searches
<1> HIDE DEF w1, w2
<1> QED
  BY <1>1 DEF Ranked!access, Ranked!NULL, w1, w2

(* What the same access makes of the hierarchy. *)
LEMMA StepHit1 ==
  ASSUME NEW b \in Block, NEW operation \in Operation, Step(b, operation), In1(b)
  PROVE  /\ recent1' = Using(recent1, b, L1Sets)
         /\ dirty1' = dirty1 \cup New(b, operation)
         /\ UNCHANGED <<recent2, dirty2>>
<1>1. CASE operation = "w"
  <2>1. Hit1(b, TRUE)
    BY <1>1 DEF Step, Write, Hit2, Miss
  <2> QED
    BY <1>1, <2>1 DEF Hit1, Using, New
<1>2. CASE operation = "r"
  <2>1. Hit1(b, FALSE)
    BY <1>2 DEF Step, Read, Hit2, Miss
  <2> QED
    BY <1>2, <2>1 DEF Hit1, Using, New
<1> QED
  BY <1>1, <1>2 DEF Operation

LEMMA StepHit2 ==
  ASSUME NEW b \in Block, NEW operation \in Operation, Step(b, operation), ~In1(b), In2(b),
         operation = "r" \/ wrAlloc = 1, ~victimFirst
  PROVE  LET V == Leaving(recent1, b, L1Ways, L1Sets)
         IN  /\ recent1' = Enter(recent1, b, L1Ways, L1Sets)
             /\ recent2' = Use(Using(recent2, b, L2Sets), V \cap dirty1, L2Sets)
             /\ dirty1' = (dirty1 \ V) \cup New(b, operation)
             /\ dirty2' = dirty2 \cup (V \cap dirty1)
<1>1. CASE operation = "w"
  <2>1. wrAlloc = 1 /\ wrAlloc # 0 /\ Write(b)
    BY <1>1 DEF Step
  <2>2. ~Hit1(b, TRUE) /\ ~Miss(b, TRUE)
    BY DEF Hit1, Miss
  <2>3. Hit2(b, TRUE)
    BY <2>1, <2>2 DEF Write
  <2> QED
    BY <1>1, <2>3 DEF Hit2, EnterL1, StaleBelow, Victims, Using, New
<1>2. CASE operation = "r"
  <2>1. Hit2(b, FALSE)
    BY <1>2 DEF Step, Read, Hit1, Miss
  <2> QED
    BY <1>2, <2>1 DEF Hit2, EnterL1, StaleBelow, Victims, Using, New
<1> QED
  BY <1>1, <1>2 DEF Operation

LEMMA StepBelow ==
  ASSUME NEW b \in Block, NEW operation \in Operation, Step(b, operation), ~In1(b), In2(b),
         ~(operation = "r" \/ wrAlloc = 1), wrAlloc \in {0, 1}
  PROVE  /\ recent2' = Using(recent2, b, L2Sets)
         /\ dirty2' = dirty2 \cup {b}
         /\ UNCHANGED <<recent1, dirty1>>
<1>1. operation = "w" /\ wrAlloc = 0
  BY DEF Operation
<1> QED
  BY <1>1 DEF Step, Write, Hit1, Hit2, Miss, Using

LEMMA StepMiss ==
  ASSUME NEW b \in Block, NEW operation \in Operation, Step(b, operation), ~In1(b), ~In2(b),
         operation = "r" \/ wrAlloc = 1
  PROVE  LET out == Leaving(recent2, b, L2Ways, L2Sets)
             o   == Without(recent1, out)
             V   == Leaving(o, b, L1Ways, L1Sets)
         IN  /\ recent1' = Enter(o, b, L1Ways, L1Sets)
             /\ recent2' = Use(Enter(recent2, b, L2Ways, L2Sets), V \cap (dirty1 \ out), L2Sets)
             /\ dirty1' = ((dirty1 \ out) \ V) \cup New(b, operation)
             /\ dirty2' = (dirty2 \ out) \cup (V \cap (dirty1 \ out))
<1>1. CASE operation = "w"
  <2>1. Miss(b, TRUE)
    BY <1>1 DEF Step, Write, Hit1, Hit2
  <2> QED
    BY <1>1, <2>1 DEF Miss, LeavesBoth, EnterL1, StaleBelow, Victims, New
<1>2. CASE operation = "r"
  <2>1. Miss(b, FALSE)
    BY <1>2 DEF Step, Read, Hit1, Hit2
  <2> QED
    BY <1>2, <2>1 DEF Miss, LeavesBoth, EnterL1, StaleBelow, Victims, New
<1> QED
  BY <1>1, <1>2 DEF Operation

LEMMA StepNone ==
  ASSUME NEW b \in Block, NEW operation \in Operation, Step(b, operation), ~In1(b), ~In2(b),
         ~(operation = "r" \/ wrAlloc = 1), wrAlloc \in {0, 1}
  PROVE  UNCHANGED <<recent1, recent2, dirty1, dirty2>>
<1>1. operation = "w" /\ wrAlloc = 0
  BY DEF Operation
<1> QED
  BY <1>1 DEF Step, Write, Hit1, Hit2, Miss

LEMMA StepWritten ==
  ASSUME NEW b \in Block, NEW operation \in Operation, Step(b, operation)
  PROVE  /\ written' = {v \in written \cup New(b, operation) : Has(recent2', v)}
         /\ UNCHANGED <<wrAlloc, victimFirst>>
<1>1. CASE operation = "w"
  BY <1>1 DEF Step, Write, New
<1>2. CASE operation = "r"
  BY <1>2 DEF Step, Read, New
<1> QED
  BY <1>1, <1>2 DEF Operation
-----------------------------------------------------------------------------
(* The program's cache holds the blocks of the hierarchy in its order.  In *)
(* L2 it marks, besides the blocks the hierarchy does, some whose newer    *)
(* copy is in L1.                                                          *)
Follows(c, one, two, d1, d2, new) ==
  \E e : Holds(c, one, two, d1, e) /\ d2 \subseteq e /\ e \subseteq new

RoyInv ==
  program = "Roy" =>
    /\ ~victimFirst
    /\ wrAlloc \in {0, 1}
    /\ Follows(ranked, recent1, recent2, dirty1, dirty2, written)

LEMMA RoyStep ==
  ASSUME HierarchyInv, ~victimFirst, wrAlloc \in {0, 1},
         Follows(ranked, recent1, recent2, dirty1, dirty2, written),
         NEW b \in Block, NEW operation \in Operation, Step(b, operation),
         ranked' = Ranked!access(ranked, b, operation, wrAlloc)
  PROVE  Follows(ranked', recent1', recent2', dirty1', dirty2', written')
<1> DEFINE N == New(b, operation)
<1>1. PICK d2 : Holds(ranked, recent1, recent2, dirty1, d2) /\ dirty2 \subseteq d2 /\ d2 \subseteq written
  BY DEF Follows
<1>2. /\ Level(recent1, L1Ways, L1Sets) /\ Level(recent2, L2Ways, L2Sets)
      /\ Kept(recent1) \subseteq Kept(recent2) /\ dirty1 \subseteq Kept(recent1)
      /\ dirty1 \subseteq written
  BY DEF HierarchyInv
<1>3. recent1 \subseteq Block \X Block
  BY <1>2 DEF Level, Proper
<1> HIDE DEF N
<1>4. ASSUME NEW e, Holds(ranked', recent1', recent2', dirty1', e),
             dirty2' \subseteq e, e \subseteq written \cup N
      PROVE  Follows(ranked', recent1', recent2', dirty1', dirty2', written')
  <2>1. \A a \in e : Has(recent2', a)
    BY <1>4, HoldsDirty
  <2>2. e \subseteq written'
    BY <1>4, <2>1, StepWritten DEF N
  <2> QED
    BY <1>4, <2>2 DEF Follows
<1> DEFINE c == Ranked!access(ranked, b, operation, wrAlloc)
<1>5. ranked' = c
  OBVIOUS
<1> HIDE DEF c
<1>6. CASE In1(b)
  <2>1. Holds(c, Using(recent1, b, L1Sets), recent2, dirty1 \cup N, d2)
    BY <1>1, <1>3, <1>6, AccessHit1 DEF In1, N, c
  <2>2. /\ recent1' = Using(recent1, b, L1Sets) /\ dirty1' = dirty1 \cup N
        /\ recent2' = recent2 /\ dirty2' = dirty2
    BY <1>6, StepHit1 DEF N
  <2>3. Holds(ranked', recent1', recent2', dirty1', d2)
    BY <1>5, <2>1, <2>2
  <2> QED
    BY <1>1, <1>4, <2>2, <2>3
<1>7. CASE ~In1(b) /\ In2(b) /\ (operation = "r" \/ wrAlloc = 1)
  <2> DEFINE V == Leaving(recent1, b, L1Ways, L1Sets)
             t == Use(Using(recent2, b, L2Sets), V \cap dirty1, L2Sets)
             e == d2 \cup (V \cap dirty1)
  <2>1. Holds(c, Enter(recent1, b, L1Ways, L1Sets), t, (dirty1 \ V) \cup N, e)
    BY <1>1, <1>2, <1>7, AccessHit2 DEF In1, In2, N, c
  <2>2. /\ recent1' = Enter(recent1, b, L1Ways, L1Sets) /\ dirty1' = (dirty1 \ V) \cup N
        /\ recent2' = t /\ dirty2' = dirty2 \cup (V \cap dirty1)
    BY <1>7, StepHit2 DEF N
  <2>3. dirty2' \subseteq e /\ e \subseteq written \cup N
    BY <1>1, <1>2, <2>2
  <2> HIDE DEF V, t, e
  <2>4. Holds(ranked', recent1', recent2', dirty1', e)
    BY <1>5, <2>1, <2>2
  <2> QED
    BY <1>4, <2>3, <2>4
<1>8. CASE ~In1(b) /\ In2(b) /\ ~(operation = "r" \/ wrAlloc = 1)
  <2>1. Holds(c, recent1, Using(recent2, b, L2Sets), dirty1, d2 \cup {b})
    BY <1>1, <1>2, <1>8, AccessBelow DEF In1, In2, c
  <2>2. /\ recent2' = Using(recent2, b, L2Sets) /\ dirty2' = dirty2 \cup {b}
        /\ recent1' = recent1 /\ dirty1' = dirty1
    BY <1>8, StepBelow
  <2>3. N = {b}
    BY <1>8 DEF Operation, N, New
  <2>4. Holds(ranked', recent1', recent2', dirty1', d2 \cup {b})
    BY <1>5, <2>1, <2>2
  <2>5. dirty2' \subseteq d2 \cup {b} /\ d2 \cup {b} \subseteq written \cup N
    BY <1>1, <2>2, <2>3
  <2> QED
    BY <1>4, <2>4, <2>5
<1>9. CASE ~In1(b) /\ ~In2(b) /\ (operation = "r" \/ wrAlloc = 1)
  <2> DEFINE out == Leaving(recent2, b, L2Ways, L2Sets)
             o == Without(recent1, out)
             V == Leaving(o, b, L1Ways, L1Sets)
             t == Use(Enter(recent2, b, L2Ways, L2Sets), V \cap (dirty1 \ out), L2Sets)
             f == ((dirty1 \ out) \ V) \cup N
             e == ((d2 \ out) \cup N) \cup (V \cap (dirty1 \ out))
  <2>1. Holds(c, Enter(o, b, L1Ways, L1Sets), t, f, e)
    BY <1>1, <1>2, <1>9, AccessMiss DEF In1, In2, N, c
  <2>2. /\ recent1' = Enter(o, b, L1Ways, L1Sets) /\ recent2' = t /\ dirty1' = f
        /\ dirty2' = (dirty2 \ out) \cup (V \cap (dirty1 \ out))
    BY <1>9, StepMiss DEF N
  <2>3. dirty2' \subseteq e /\ e \subseteq written \cup N
    <3> HIDE DEF out, V
    <3> QED
      BY <1>1, <1>2, <2>2
  <2> HIDE DEF out, o, V, t, f, e
  <2>4. Holds(ranked', recent1', recent2', dirty1', e)
    BY <1>5, <2>1, <2>2
  <2> QED
    BY <1>4, <2>3, <2>4
<1>10. CASE ~In1(b) /\ ~In2(b) /\ ~(operation = "r" \/ wrAlloc = 1)
  <2>1. c = ranked
    BY <1>1, <1>10, AccessNone DEF In1, In2, c
  <2>2. recent1' = recent1 /\ recent2' = recent2 /\ dirty1' = dirty1 /\ dirty2' = dirty2
    BY <1>10, StepNone
  <2>3. Holds(ranked', recent1', recent2', dirty1', d2)
    BY <1>1, <1>5, <2>1, <2>2
  <2> QED
    BY <1>1, <1>4, <2>2, <2>3
<1> QED
  BY <1>6, <1>7, <1>8, <1>9, <1>10

LEMMA SoundRanks ==
  ASSUME NEW W \in Nat \ {0}, NEW N \in Nat \ {0}, NEW L, SoundLevel(L, W, N)
  PROVE  \A s \in DOMAIN L : Ranked!RanksExact(L[s])
<1> SUFFICES ASSUME NEW s \in DOMAIN L PROVE Ranked!RanksExact(L[s])
  OBVIOUS
<1> DEFINE row == L[s]
<1>1. SoundRow(row, W) /\ row \in Rows(W)
  BY DEF SoundLevel, SoundRow
<1> HIDE DEF row
<1>2. PICK n : Numbered(row, W, n)
  BY <1>1 DEF SoundRow
<1>3. Ranked!Cardinality(Ranked!Used(row)) = n
  BY <1>1, <1>2, NumberedCount, RankedCardinality
<1>4. Len(row) = W /\ Ranked!Used(row) = {w \in 1 .. W : row[w].validBit}
  BY <1>1, RowWays
<1>5. \A k \in 1 .. W : (\E w \in Ranked!Used(row) : row[w].LRU = k) <=> k <= n
  <2>1. n \in 0 .. W
    BY <1>2 DEF Numbered
  <2>2. \A k \in 1 .. W : k <= n => \E w \in 1 .. W : row[w].validBit /\ row[w].LRU = k
    BY <1>2, <2>1 DEF Numbered
  <2>3. \A w \in 1 .. W : row[w].validBit => row[w].LRU <= n
    BY <1>2, <2>1 DEF Numbered
  <2> QED
    BY <1>4, <2>2, <2>3
<1> QED
  BY <1>3, <1>4, <1>5 DEF Ranked!RanksExact, row

LEMMA RoyInvMatches == RoyInv => RankedMatches
<1> USE LevelSizes
<1> SUFFICES ASSUME RoyInv, program = "Roy" PROVE RankedMatches
  BY DEF RankedMatches
<1>1. PICK d2 : Holds(ranked, recent1, recent2, dirty1, d2) /\ dirty2 \subseteq d2 /\ d2 \subseteq written
  BY DEF RoyInv, Follows
<1>2. /\ ~ranked.crashed
      /\ SoundLevel(ranked.L1, L1Ways, L1Sets) /\ SoundLevel(ranked.L2, L2Ways, L2Sets)
      /\ Ranked!ByRank(ranked.L1) = recent1 /\ Ranked!ByRank(ranked.L2) = recent2
      /\ Ranked!DirtyIn(ranked.L1) = dirty1 /\ Ranked!DirtyIn(ranked.L2) = d2
  BY <1>1 DEF Holds, Whole
<1>3. /\ \A s \in DOMAIN ranked.L1 : Ranked!RanksExact(ranked.L1[s])
      /\ \A s \in DOMAIN ranked.L2 : Ranked!RanksExact(ranked.L2[s])
  BY <1>2, SoundRanks
<1> QED
  BY <1>1, <1>2, <1>3 DEF RankedMatches

LEMMA RoyInvInit ==
  ASSUME WrAllocs \subseteq {0, 1} PROVE SimsInit => RoyInv
<1> USE LevelSizes
<1> SUFFICES ASSUME SimsInit, program = "Roy" PROVE RoyInv
  BY DEF RoyInv
<1>1. ~victimFirst /\ wrAlloc \in {0, 1}
  BY DEF SimsInit, Init
<1>2. recent1 = {} /\ recent2 = {} /\ dirty1 = {} /\ dirty2 = {} /\ written = {}
  BY DEF SimsInit, Init
<1> DEFINE A == Ranked!Empty(L1Sets, L1Ways)
           B == Ranked!Empty(L2Sets, L2Ways)
<1>3. ranked = [L1 |-> A, L2 |-> B, crashed |-> FALSE]
  BY DEF SimsInit, Ranked!EmptyCache
<1>4. /\ SoundLevel(A, L1Ways, L1Sets) /\ Ranked!ByRank(A) = {} /\ Ranked!DirtyIn(A) = {}
      /\ SoundLevel(B, L2Ways, L2Sets) /\ Ranked!ByRank(B) = {} /\ Ranked!DirtyIn(B) = {}
  BY RankedEmpty
<1> HIDE DEF A, B
<1>5. ranked.L1 = A /\ ranked.L2 = B /\ ~ranked.crashed
  BY <1>3
<1>6. Whole(ranked)
  BY <1>3, <1>5 DEF Whole
<1>7. Holds(ranked, {}, {}, {}, {})
  BY <1>4, <1>5, <1>6 DEF Holds
<1> QED
  BY <1>1, <1>2, <1>7 DEF RoyInv, Follows

LEMMA RoyInvStep == HierarchyInv /\ RoyInv /\ [SimsNext]_vars => RoyInv'
<1> SUFFICES ASSUME HierarchyInv, RoyInv, [SimsNext]_vars PROVE RoyInv'
  OBVIOUS
<1>1. ASSUME NEW b \in Block, NEW operation \in Operation, RoyAccess(b, operation)
      PROVE  RoyInv'
  <2>1. /\ program = "Roy" /\ program' = program
        /\ ranked' = Ranked!access(ranked, b, operation, wrAlloc)
        /\ Step(b, operation)
    BY <1>1 DEF RoyAccess
  <2>2. /\ ~victimFirst /\ wrAlloc \in {0, 1}
        /\ Follows(ranked, recent1, recent2, dirty1, dirty2, written)
    BY <2>1 DEF RoyInv
  <2>3. Follows(ranked', recent1', recent2', dirty1', dirty2', written')
    BY <2>1, <2>2, RoyStep
  <2>4. victimFirst' = victimFirst /\ wrAlloc' = wrAlloc
    BY <2>1, StepWritten
  <2>5. Follows(ranked, recent1, recent2, dirty1, dirty2, written)'
    BY <2>3 DEF Follows, Holds, SoundLevel, Whole
  <2> QED
    BY <2>2, <2>4, <2>5 DEF RoyInv
<1>2. ASSUME NEW b \in Block, NEW operation \in Operation, ShellyAccess(b, operation)
      PROVE  RoyInv'
  BY <1>2 DEF ShellyAccess, RoyInv
<1>3. ASSUME UNCHANGED vars PROVE RoyInv'
  BY <1>3 DEF vars, lruVars, RoyInv, Follows, Holds, SoundLevel, Whole
<1> QED
  BY <1>1, <1>2, <1>3 DEF SimsNext, Undefined

(* CacheSimRoy, on any trace, with any number of sets and ways: the ranks  *)
(* of each set number its valid ways without gap or repetition, so getLRU  *)
(* never fails; they order the blocks by their last use; what L1 evicts is *)
(* what an LRU cache evicts, and no dirty block is lost.  --wr-alloc is 0  *)
(* or 1, as documented: the program takes any other number for 0.          *)
THEOREM RankedMatchesCorrect ==
  ASSUME WrAllocs \subseteq {0, 1} PROVE SimsSpec => []RankedMatches
<1>1. SimsInit => RoyInv
  BY RoyInvInit
<1>2. RoyInv => RankedMatches
  BY RoyInvMatches
<1> QED
  BY <1>1, <1>2, RoyInvStep, HierarchyInvCorrect, PTL DEF SimsSpec
-----------------------------------------------------------------------------
(* The lists that the loop of AllBut builds, entry by entry. *)
Copies(list, b) ==
  CHOOSE f : f = [i \in 0 .. Len(list) |->
                    IF i = 0 THEN << >>
                    ELSE IF list[i] = b THEN f[i - 1] ELSE Append(f[i - 1], list[i])]

LEMMA AllButCopies ==
  ASSUME NEW list, NEW b PROVE Vector!AllBut(list, b) = Copies(list, b)[Len(list)]
  BY DEF Vector!AllBut, Copies

LEMMA CopiesUnfold ==
  ASSUME NEW list, Len(list) \in Nat, NEW b
  PROVE  Copies(list, b) =
           [i \in 0 .. Len(list) |->
              IF i = 0 THEN << >>
              ELSE IF list[i] = b THEN Copies(list, b)[i - 1]
              ELSE Append(Copies(list, b)[i - 1], list[i])]
<1> DEFINE next(p, i) == IF list[i] = b THEN p ELSE Append(p, list[i])
           S == {n \in Nat : \E g : g = [i \in 0 .. n |-> IF i = 0 THEN << >> ELSE next(g[i - 1], i)]}
<1> HIDE DEF next
<1>1. 0 \in S
  <2> DEFINE g == [i \in 0 .. 0 |-> << >>]
  <2>1. g = [i \in 0 .. 0 |-> IF i = 0 THEN << >> ELSE next(g[i - 1], i)]
    OBVIOUS
  <2> QED
    BY <2>1
<1>2. ASSUME NEW n \in Nat, n \in S PROVE n + 1 \in S
  <2>1. PICK g : g = [i \in 0 .. n |-> IF i = 0 THEN << >> ELSE next(g[i - 1], i)]
    BY <1>2
  <2> DEFINE h == [i \in 0 .. n + 1 |-> IF i = 0 THEN << >> ELSE next(g[i - 1], i)]
  <2>2. \A i \in 0 .. n : h[i] = g[i]
    <3>1. \A i \in 0 .. n : g[i] = IF i = 0 THEN << >> ELSE next(g[i - 1], i)
      BY <2>1
    <3> QED
      BY <3>1
  <2>3. \A i \in 0 .. n + 1 : i # 0 => i - 1 \in 0 .. n
    OBVIOUS
  <2>4. h = [i \in 0 .. n + 1 |-> IF i = 0 THEN << >> ELSE next(h[i - 1], i)]
    <3> HIDE DEF h
    <3>1. \A i \in 0 .. n + 1 : i # 0 => h[i - 1] = g[i - 1]
      BY <2>2, <2>3
    <3> QED
      BY <3>1 DEF h
  <2> HIDE DEF h
  <2>5. \E g2 : g2 = [i \in 0 .. n + 1 |-> IF i = 0 THEN << >> ELSE next(g2[i - 1], i)]
    BY <2>4
  <2> QED
    BY <2>5
<1>3. Nat \subseteq S
  <2> HIDE DEF S
  <2> QED
    BY <1>1, <1>2, Induction
<1>4. \E g : g = [i \in 0 .. Len(list) |-> IF i = 0 THEN << >> ELSE next(g[i - 1], i)]
  BY <1>3
<1> QED
  BY <1>4, Zenon DEF Copies, next

(* In a list, x is y or comes after it. *)
Listed(l, x, y) == \E i, j \in DOMAIN l : i >= j /\ l[i] = x /\ l[j] = y

Apart(l) == \A i, j \in DOMAIN l : l[i] = l[j] => i = j

LEMMA AppendListed ==
  ASSUME NEW S, NEW l \in Seq(S), NEW e \in S
  PROVE  /\ Append(l, e) \in Seq(S)
         /\ \A x, y : Listed(Append(l, e), x, y) <=>
                        Listed(l, x, y) \/ (x = e /\ (y = e \/ Listed(l, y, y)))
         /\ Apart(l) /\ ~Listed(l, e, e) => Apart(Append(l, e))
<1> DEFINE m == Append(l, e)
           n == Len(l)
<1>1. /\ n \in Nat /\ DOMAIN l = 1 .. n /\ m \in Seq(S) /\ DOMAIN m = 1 .. n + 1
      /\ m[n + 1] = e /\ \A i \in 1 .. n : m[i] = l[i]
  OBVIOUS
<1> HIDE DEF m, n
<1>2. ASSUME NEW x, NEW y, Listed(m, x, y)
      PROVE  Listed(l, x, y) \/ (x = e /\ (y = e \/ Listed(l, y, y)))
  <2>1. PICK i, j \in 1 .. n + 1 : i >= j /\ m[i] = x /\ m[j] = y
    BY <1>1, <1>2 DEF Listed
  <2>2. CASE i \in 1 .. n
    <3>1. j \in 1 .. n
      BY <1>1, <2>1, <2>2
    <3> QED
      BY <1>1, <2>1, <2>2, <3>1 DEF Listed
  <2>3. CASE i = n + 1 /\ j \in 1 .. n
    <3>1. j >= j /\ l[j] = y
      BY <1>1, <2>1, <2>3
    <3> QED
      BY <1>1, <2>1, <2>3, <3>1 DEF Listed
  <2> QED
    BY <1>1, <2>1, <2>2, <2>3
<1>3. ASSUME NEW x, NEW y, Listed(l, x, y) PROVE Listed(m, x, y)
  <2>1. PICK i, j \in 1 .. n : i >= j /\ l[i] = x /\ l[j] = y
    BY <1>1, <1>3 DEF Listed
  <2>2. i \in 1 .. n + 1 /\ j \in 1 .. n + 1 /\ m[i] = x /\ m[j] = y
    BY <1>1, <2>1
  <2> QED
    BY <1>1, <2>1, <2>2 DEF Listed
<1>4. Listed(m, e, e)
  <2>1. n + 1 \in 1 .. n + 1 /\ n + 1 >= n + 1
    BY <1>1
  <2> QED
    BY <1>1, <2>1 DEF Listed
<1>5. ASSUME NEW y, Listed(l, y, y) PROVE Listed(m, e, y)
  <2>1. PICK j \in 1 .. n : l[j] = y
    BY <1>1, <1>5 DEF Listed
  <2>2. n + 1 \in 1 .. n + 1 /\ j \in 1 .. n + 1 /\ n + 1 >= j /\ m[j] = y
    BY <1>1, <2>1
  <2> QED
    BY <1>1, <2>2 DEF Listed
<1>6. ASSUME Apart(l), ~Listed(l, e, e) PROVE Apart(m)
  <2>1. \A j \in 1 .. n : l[j] # e
    BY <1>1, <1>6 DEF Listed
  <2> QED
    BY <1>1, <1>6, <2>1 DEF Apart
<1> QED
  BY <1>1, <1>2, <1>3, <1>4, <1>5, <1>6 DEF m

(* The list without b: the rest in the same order. *)
LEMMA AllButRight ==
  ASSUME NEW S, NEW l \in Seq(S), Apart(l), NEW b
  PROVE  /\ Vector!AllBut(l, b) \in Seq(S)
         /\ Apart(Vector!AllBut(l, b))
         /\ \A x, y : Listed(Vector!AllBut(l, b), x, y) <=> Listed(l, x, y) /\ x # b /\ y # b
<1> DEFINE n == Len(l)
           C == Copies(l, b)
           UpTo1(k, x, y) == \E i, j \in 1 .. k : i >= j /\ l[i] = x /\ l[j] = y
           Right(k) == /\ C[k] \in Seq(S) /\ Apart(C[k])
                       /\ \A x, y : Listed(C[k], x, y) <=> UpTo1(k, x, y) /\ x # b /\ y # b
           T == {k \in 0 .. n : Right(k)}
<1>1. n \in Nat /\ DOMAIN l = 1 .. n /\ \A i \in 1 .. n : l[i] \in S
  OBVIOUS
<1>2. /\ C[0] = << >>
      /\ \A k \in 0 .. n - 1 : C[k + 1] = IF l[k + 1] = b THEN C[k] ELSE Append(C[k], l[k + 1])
  <2>1. C = [i \in 0 .. n |-> IF i = 0 THEN << >>
                              ELSE IF l[i] = b THEN C[i - 1] ELSE Append(C[i - 1], l[i])]
    BY <1>1, CopiesUnfold
  <2> HIDE DEF C
  <2>2. C[0] = << >>
    BY <1>1, <2>1
  <2>3. ASSUME NEW k \in 0 .. n - 1
        PROVE  C[k + 1] = IF l[k + 1] = b THEN C[k] ELSE Append(C[k], l[k + 1])
    <3>1. k + 1 \in 0 .. n /\ k + 1 # 0 /\ (k + 1) - 1 = k
      BY <1>1
    <3>2. C[k + 1] = IF l[k + 1] = b THEN C[(k + 1) - 1] ELSE Append(C[(k + 1) - 1], l[k + 1])
      BY <2>1, <3>1
    <3> QED
      BY <3>1, <3>2
  <2> QED
    BY <2>2, <2>3
<1> HIDE DEF C, n
<1>3. 0 \in T
  <2>1. << >> \in Seq(S) /\ Apart(<< >>) /\ \A x, y : ~Listed(<< >>, x, y)
    BY DEF Apart, Listed
  <2>2. \A x, y : ~UpTo1(0, x, y)
    OBVIOUS
  <2>3. Right(0)
    BY <1>2, <2>1, <2>2
  <2> HIDE DEF Right
  <2> QED
    BY <1>1, <2>3
<1>4. ASSUME NEW k \in 0 .. n - 1, k \in T PROVE k + 1 \in T
  <2> DEFINE e == l[k + 1]
  <2>0. k + 1 \in 1 .. n /\ k + 1 \in 0 .. n /\ e \in S /\ k \in 0 .. n
    BY <1>1
  <2>1. Right(k)
    BY <1>4
  <2>2. \A x, y : UpTo1(k + 1, x, y) <=> UpTo1(k, x, y) \/ (x = e /\ (y = e \/ UpTo1(k, y, y)))
    <3> TAKE x, y
    <3>1. ASSUME UpTo1(k + 1, x, y)
          PROVE  UpTo1(k, x, y) \/ (x = e /\ (y = e \/ UpTo1(k, y, y)))
      <4>1. PICK i, j \in 1 .. k + 1 : i >= j /\ l[i] = x /\ l[j] = y
        BY <3>1
      <4>2. i \in 1 .. k => j \in 1 .. k
        BY <1>1, <4>1
      <4>3. i = k + 1 \/ i \in 1 .. k
        BY <1>1, <4>1
      <4>4. j = k + 1 \/ j \in 1 .. k
        BY <1>1, <4>1
      <4>5. j >= j
        BY <4>1
      <4> QED
        BY <4>1, <4>2, <4>3, <4>4, <4>5
    <3>2. ASSUME UpTo1(k, x, y) PROVE UpTo1(k + 1, x, y)
      <4>1. PICK i, j \in 1 .. k : i >= j /\ l[i] = x /\ l[j] = y
        BY <3>2
      <4>2. i \in 1 .. k + 1 /\ j \in 1 .. k + 1
        BY <1>1, <4>1
      <4> QED
        BY <4>1, <4>2
    <3>3. UpTo1(k + 1, e, e)
      <4>1. k + 1 \in 1 .. k + 1 /\ k + 1 >= k + 1
        BY <1>1
      <4> QED
        BY <4>1
    <3>4. ASSUME UpTo1(k, y, y) PROVE UpTo1(k + 1, e, y)
      <4>1. PICK j \in 1 .. k : l[j] = y
        BY <3>4
      <4>2. k + 1 \in 1 .. k + 1 /\ j \in 1 .. k + 1 /\ k + 1 >= j
        BY <1>1, <4>1
      <4> QED
        BY <4>1, <4>2
    <3> QED
      BY <3>1, <3>2, <3>3, <3>4
  <2>3. ~UpTo1(k, e, e)
    <3> SUFFICES ASSUME UpTo1(k, e, e) PROVE FALSE
      OBVIOUS
    <3>1. PICK i \in 1 .. k : l[i] = l[k + 1]
      OBVIOUS
    <3>2. i \in 1 .. n /\ i # k + 1
      BY <1>1
    <3> QED
      BY <1>1, <2>0, <3>1, <3>2 DEF Apart
  <2> HIDE DEF UpTo1, e
  <2>4. CASE e = b
    <3>1. C[k + 1] = C[k]
      BY <1>2, <2>4 DEF e
    <3> QED
      BY <2>0, <2>1, <2>2, <2>4, <3>1
  <2>5. CASE e # b
    <3>1. C[k + 1] = Append(C[k], e)
      BY <1>2, <2>5 DEF e
    <3>2. ~Listed(C[k], e, e)
      BY <2>1, <2>3
    <3>3. /\ C[k + 1] \in Seq(S) /\ Apart(C[k + 1])
          /\ \A x, y : Listed(C[k + 1], x, y) <=>
                         Listed(C[k], x, y) \/ (x = e /\ (y = e \/ Listed(C[k], y, y)))
      BY <2>0, <2>1, <3>1, <3>2, AppendListed
    <3>4. Right(k + 1)
      BY <2>1, <2>2, <2>5, <3>3
    <3> QED
      BY <2>0, <3>4
  <2> QED
    BY <2>4, <2>5
<1>5. n \in T
  <2>1. 0 .. n \subseteq T
    <3> HIDE DEF T
    <3> QED
      BY <1>1, <1>3, <1>4, InductionTo
  <2>2. n \in 0 .. n
    BY <1>1
  <2> HIDE DEF T
  <2> QED
    BY <2>1, <2>2
<1>6. C[n] = Vector!AllBut(l, b)
  BY AllButCopies DEF C, n
<1>7. \A x, y : UpTo1(n, x, y) <=> Listed(l, x, y)
  BY <1>1 DEF Listed
<1> QED
  BY <1>5, <1>6, <1>7
-----------------------------------------------------------------------------
(* A level of CacheSimShelly: its data hold the blocks K, the blocks D     *)
(* dirty, and its lists are the order r.  Between two steps of an access   *)
(* the data are ahead of the lists, or behind them.                        *)
Formed(c) == c \in [data : {c.data}, LRU_vector : {c.LRU_vector}]

Lists(V, N, r) ==
  /\ V \in [0 .. N - 1 -> Seq(Block)]
  /\ \A s \in 0 .. N - 1 : Apart(V[s]) /\ \A x : Listed(V[s], x, x) => x % N = s
  /\ r \subseteq Block \X Block
  /\ \A x, y : <<x, y>> \in r <=> \E s \in 0 .. N - 1 : Listed(V[s], x, y)

At(L, N, x, w) == L[x % N][w].tag = x \div N /\ L[x % N][w].status # 0

Entries == [tag : Nat, status : {0, 1, 2}]

Distinct(row, W) ==
  \A v, w \in 1 .. W :
    row[v].status # 0 /\ row[w].status # 0 /\ row[v].tag = row[w].tag => v = w

Data(L, W, N, K, D) ==
  /\ L \in [0 .. N - 1 -> [1 .. W -> Entries]]
  /\ \A s \in 0 .. N - 1 : Distinct(L[s], W)
  /\ \A x : x \in K <=> x \in Nat /\ \E w \in 1 .. W : At(L, N, x, w)
  /\ \A x : x \in D <=> x \in Nat /\ \E w \in 1 .. W : At(L, N, x, w) /\ L[x % N][w].status = 2

(* A level of W ways and N sets. *)
State(c, W, N, K, D, r) ==
  Formed(c) /\ Data(c.data, W, N, K, D) /\ Lists(c.LRU_vector, N, r)

LEMMA ListedIn ==
  ASSUME NEW S, NEW l \in Seq(S)
  PROVE  /\ \A x, y : Listed(l, x, y) => x \in S /\ y \in S
         /\ \A x : Listed(l, x, x) <=> \E i \in 1 .. Len(l) : l[i] = x
<1>1. DOMAIN l = 1 .. Len(l) /\ \A i \in DOMAIN l : l[i] \in S
  OBVIOUS
<1>2. \A i \in 1 .. Len(l) : i >= i
  OBVIOUS
<1> QED
  BY <1>1, <1>2 DEF Listed

LEMMA ListsPairs ==
  ASSUME NEW N, NEW V, NEW r, Lists(V, N, r), NEW s \in 0 .. N - 1
  PROVE  /\ V[s] \in Seq(Block) /\ Apart(V[s])
         /\ \A x, y : Listed(V[s], x, y) <=> <<x, y>> \in r /\ x % N = s /\ y % N = s
<1>1. \A t \in 0 .. N - 1 : V[t] \in Seq(Block) /\ Apart(V[t])
  BY DEF Lists
<1>2. ASSUME NEW t \in 0 .. N - 1, NEW x, NEW y, Listed(V[t], x, y) PROVE x % N = t /\ y % N = t
  <2>1. Listed(V[t], x, x) /\ Listed(V[t], y, y)
    <3>1. V[t] \in Seq(Block)
      BY <1>1
    <3>2. PICK i, j \in 1 .. Len(V[t]) : V[t][i] = x /\ V[t][j] = y
      BY <1>2, <3>1 DEF Listed
    <3> QED
      BY <3>1, <3>2, ListedIn
  <2> QED
    BY <2>1 DEF Lists
<1>3. \A x, y : <<x, y>> \in r <=> \E t \in 0 .. N - 1 : Listed(V[t], x, y)
  BY DEF Lists
<1> QED
  BY <1>1, <1>2, <1>3

LEMMA ListsOrder ==
  ASSUME NEW N, NEW V, NEW r, Lists(V, N, r)
  PROVE  /\ r \subseteq Block \X Block
         /\ \A x, y : <<x, y>> \in r => x % N = y % N /\ x % N \in 0 .. N - 1
<1>1. ASSUME NEW x, NEW y, <<x, y>> \in r PROVE x % N = y % N /\ x % N \in 0 .. N - 1
  <2>1. PICK t \in 0 .. N - 1 : Listed(V[t], x, y)
    BY <1>1 DEF Lists
  <2>2. \A u, v : Listed(V[t], u, v) <=> <<u, v>> \in r /\ u % N = t /\ v % N = t
    BY ListsPairs
  <2> QED
    BY <2>1, <2>2
<1> QED
  BY <1>1 DEF Lists

(* The fields of a level one of whose lists is another.                    *)
LEMMA NewList ==
  ASSUME NEW c, Formed(c), NEW s, NEW l
  PROVE  /\ Formed([c EXCEPT !.LRU_vector[s] = l])
         /\ [c EXCEPT !.LRU_vector[s] = l].data = c.data
         /\ [c EXCEPT !.LRU_vector[s] = l].LRU_vector = [c.LRU_vector EXCEPT ![s] = l]
<1> DEFINE p == [c EXCEPT !.LRU_vector[s] = l]
           X == [c.LRU_vector EXCEPT ![s] = l]
<1>1. p \in [data : {c.data}, LRU_vector : {X}]
  BY DEF Formed
<1> HIDE DEF p, X
<1>2. p.data = c.data /\ p.LRU_vector = X
  BY <1>1
<1>3. Formed(p)
  BY <1>1, <1>2 DEF Formed
<1> QED
  BY <1>2, <1>3 DEF p, X

LEMMA VectorCardinality == ASSUME NEW S PROVE Vector!Cardinality(S) = Cardinality(S)
  BY DEF Vector!Cardinality, Cardinality, Vector!IsFiniteSet, IsFiniteSet

LEMMA VectorLeast ==
  ASSUME NEW T, T \subseteq Nat, T # {}
  PROVE  Vector!Min(T) \in T
<1>1. \E x \in T : \A y \in T : x <= y
  BY LeastNumber
<1> QED
  BY <1>1 DEF Vector!Min

LEMMA VectorSets ==
  ASSUME NEW N \in Nat \ {0}, NEW c, DOMAIN c.data = 0 .. N - 1, NEW b
  PROVE  Vector!SetOf(c, b) = b % N /\ Vector!TagOf(c, b) = b \div N
<1>1. Cardinality(0 .. N - 1) = N
  BY FS_Interval
<1>2. Vector!num_of_rows(c) = N
  BY <1>1, VectorCardinality DEF Vector!num_of_rows
<1> QED
  BY <1>2 DEF Vector!SetOf, Vector!TagOf

(* One list of a level changes to one with other pairs of the same set.    *)
LEMMA ListChanged ==
  ASSUME NEW N \in Nat \ {0}, NEW V, NEW r, Lists(V, N, r), NEW s \in 0 .. N - 1,
         NEW l \in Seq(Block), Apart(l), \A x : Listed(l, x, x) => x % N = s,
         NEW q, q \subseteq Block \X Block,
         \A x, y : <<x, y>> \in q <=>
           Listed(l, x, y) \/ (<<x, y>> \in r /\ x % N # s)
  PROVE  Lists([V EXCEPT ![s] = l], N, q)
<1> DEFINE U == [V EXCEPT ![s] = l]
<1>1. V \in [0 .. N - 1 -> Seq(Block)]
  BY DEF Lists
<1>2. \A t \in 0 .. N - 1 : Apart(V[t]) /\ \A x : Listed(V[t], x, x) => x % N = t
  BY DEF Lists
<1>3. \A x, y : <<x, y>> \in r <=> \E t \in 0 .. N - 1 : Listed(V[t], x, y)
  BY DEF Lists
<1>4. U \in [0 .. N - 1 -> Seq(Block)] /\ U[s] = l /\ \A t \in 0 .. N - 1 : t # s => U[t] = V[t]
  BY <1>1
<1> HIDE DEF U
<1>5. \A x, y : <<x, y>> \in q <=> \E t \in 0 .. N - 1 : Listed(U[t], x, y)
  <2> TAKE x, y
  <2>1. ASSUME <<x, y>> \in r, x % N # s PROVE \E t \in 0 .. N - 1 : Listed(U[t], x, y)
    <3>1. PICK t \in 0 .. N - 1 : Listed(V[t], x, y)
      BY <1>3, <2>1
    <3>2. \A u, v : Listed(V[t], u, v) <=> <<u, v>> \in r /\ u % N = t /\ v % N = t
      BY ListsPairs
    <3>3. x % N = t
      BY <3>1, <3>2
    <3> QED
      BY <1>4, <2>1, <3>1, <3>3
  <2>2. ASSUME NEW t \in 0 .. N - 1, t # s, Listed(U[t], x, y) PROVE <<x, y>> \in r /\ x % N # s
    <3>1. Listed(V[t], x, y)
      BY <1>4, <2>2
    <3>2. \A u, v : Listed(V[t], u, v) <=> <<u, v>> \in r /\ u % N = t /\ v % N = t
      BY ListsPairs
    <3>3. x % N = t
      BY <3>1, <3>2
    <3> QED
      BY <1>3, <2>2, <3>1, <3>3
  <2> QED
    BY <1>4, <2>1, <2>2
<1>6. \A t \in 0 .. N - 1 : Apart(U[t]) /\ \A x : Listed(U[t], x, x) => x % N = t
  BY <1>2, <1>4
<1>7. Lists(U, N, q)
  BY <1>4, <1>5, <1>6 DEF Lists
<1> QED
  BY <1>7 DEF U

LEMMA RemoveState ==
  ASSUME NEW W, NEW N \in Nat \ {0}, NEW c, NEW K, NEW D, NEW r, State(c, W, N, K, D, r),
         NEW b \in Block
  PROVE  State(Vector!LRUremove(c, b), W, N, K, D, Without(r, {b}))
<1> DEFINE s == b % N
           V == c.LRU_vector
           k == Vector!AllBut(V[s], b)
           d == [c EXCEPT !.LRU_vector[s] = k]
           q == Without(r, {b})
<1>0. b \in Nat /\ s \in 0 .. N - 1
  BY BlockNumbers, Split
<1>1. Formed(c) /\ Data(c.data, W, N, K, D) /\ Lists(V, N, r)
  BY DEF State
<1>2. Vector!LRUremove(c, b) = d
  <2>1. DOMAIN c.data = 0 .. N - 1
    BY <1>1 DEF Data
  <2>2. Vector!SetOf(c, b) = s
    BY <2>1, VectorSets
  <2> QED
    BY <2>2, Zenon DEF Vector!LRUremove
<1>3. Formed(d) /\ d.data = c.data /\ d.LRU_vector = [V EXCEPT ![s] = k]
  BY <1>1, NewList
<1> HIDE DEF s, V, k, d, q
<1>4. /\ V[s] \in Seq(Block) /\ Apart(V[s])
      /\ \A x, y : Listed(V[s], x, y) <=> <<x, y>> \in r /\ x % N = s /\ y % N = s
  BY <1>0, <1>1, ListsPairs
<1>5. /\ k \in Seq(Block) /\ Apart(k)
      /\ \A x, y : Listed(k, x, y) <=> Listed(V[s], x, y) /\ x # b /\ y # b
  BY <1>4, AllButRight DEF k
<1>6. r \subseteq Block \X Block /\ \A x, y : <<x, y>> \in r => x % N = y % N
  BY <1>1, ListsOrder
<1>7. \A x, y : <<x, y>> \in q <=> <<x, y>> \in r /\ x # b /\ y # b
  <2> TAKE x, y
  <2> DEFINE out == {b}
  <2>1. q = Without(r, out)
    BY DEF q
  <2> HIDE DEF out
  <2>2. <<x, y>> \in q <=> <<x, y>> \in r /\ x \notin out /\ y \notin out
    BY <2>1, WithoutPair
  <2> QED
    BY <2>2 DEF out
<1>8. /\ \A x, y : <<x, y>> \in q <=> Listed(k, x, y) \/ (<<x, y>> \in r /\ x % N # s)
      /\ \A x : Listed(k, x, x) => x % N = s
  BY <1>4, <1>5, <1>6, <1>7 DEF s
<1>9. q \subseteq Block \X Block
  BY <1>6, PairsOnly DEF q
<1>10. Lists(d.LRU_vector, N, q)
  BY <1>0, <1>1, <1>3, <1>5, <1>8, <1>9, ListChanged
<1> QED
  BY <1>1, <1>2, <1>3, <1>10 DEF State, q

LEMMA UpdateState ==
  ASSUME NEW W, NEW N \in Nat \ {0}, NEW c, NEW K, NEW D, NEW r, State(c, W, N, K, D, r),
         NEW b \in Block
  PROVE  State(Vector!LRUupdate(c, b), W, N, K, D, Using(r, b, N))
<1> DEFINE s == b % N
           V == c.LRU_vector
           k == Vector!AllBut(V[s], b)
           m == Append(k, b)
           d == [c EXCEPT !.LRU_vector[s] = m]
           q == Using(r, b, N)
<1>0. b \in Nat /\ s \in 0 .. N - 1
  BY BlockNumbers, Split
<1>1. Formed(c) /\ Data(c.data, W, N, K, D) /\ Lists(V, N, r)
  BY DEF State
<1>2. Vector!LRUupdate(c, b) = d
  <2>1. DOMAIN c.data = 0 .. N - 1
    BY <1>1 DEF Data
  <2>2. Vector!SetOf(c, b) = s
    BY <2>1, VectorSets
  <2> QED
    BY <2>2, Zenon DEF Vector!LRUupdate
<1>3. Formed(d) /\ d.data = c.data /\ d.LRU_vector = [V EXCEPT ![s] = m]
  <2> HIDE DEF m, s, k
  <2> QED
    BY <1>1, NewList
<1> HIDE DEF s, V, k, m, d, q
<1>4. /\ V[s] \in Seq(Block) /\ Apart(V[s])
      /\ \A x, y : Listed(V[s], x, y) <=> <<x, y>> \in r /\ x % N = s /\ y % N = s
  BY <1>0, <1>1, ListsPairs
<1>5. /\ k \in Seq(Block) /\ Apart(k)
      /\ \A x, y : Listed(k, x, y) <=> Listed(V[s], x, y) /\ x # b /\ y # b
  BY <1>4, AllButRight DEF k
<1>6. /\ m \in Seq(Block) /\ Apart(m)
      /\ \A x, y : Listed(m, x, y) <=> Listed(k, x, y) \/ (x = b /\ (y = b \/ Listed(k, y, y)))
  BY <1>5, AppendListed DEF m
<1>7. r \subseteq Block \X Block /\ \A x, y : <<x, y>> \in r => x % N = y % N
  BY <1>1, ListsOrder
<1>8. \A x, y : <<x, y>> \in q <=>
                  \/ (<<x, y>> \in r /\ x # b /\ y # b)
                  \/ (x = b /\ (y = b \/ (y \in Block /\ Has(r, y) /\ y % N = s)))
  BY UsePair DEF q, s
<1>9. /\ \A x, y : <<x, y>> \in q <=> Listed(m, x, y) \/ (<<x, y>> \in r /\ x % N # s)
      /\ \A x : Listed(m, x, x) => x % N = s
  <2>1. \A y : Has(r, y) => y \in Block
    BY <1>7 DEF Has
  <2>2. \A y : Listed(k, y, y) <=> Has(r, y) /\ y % N = s /\ y # b
    BY <1>4, <1>5 DEF Has
  <2> QED
    BY <1>4, <1>5, <1>6, <1>7, <1>8, <2>1, <2>2 DEF s
<1>10. q \subseteq Block \X Block
  BY <1>7, PairsOnly DEF q
<1>11. Lists(d.LRU_vector, N, q)
  BY <1>0, <1>1, <1>3, <1>6, <1>9, <1>10, ListChanged
<1> QED
  BY <1>1, <1>2, <1>3, <1>11 DEF State, q
-----------------------------------------------------------------------------
(* The blocks that leave and enter with a new entry e in way w of set s.   *)
Leaves(L, N, s, w) == {x \in Nat : x % N = s /\ At(L, N, x, w)}
Enters(e, N, s, states) == {x \in Nat : x % N = s /\ x \div N = e.tag /\ e.status \in states}

LEMMA AtOnce ==
  ASSUME NEW W, NEW N \in Nat \ {0}, NEW L, NEW K, NEW D, Data(L, W, N, K, D),
         NEW x \in Nat, NEW v \in 1 .. W, NEW w \in 1 .. W, At(L, N, x, v), At(L, N, x, w)
  PROVE  v = w
<1>1. x % N \in 0 .. N - 1
  BY Split
<1>2. Distinct(L[x % N], W)
  BY <1>1 DEF Data
<1> QED
  BY <1>2 DEF At, Distinct

LEMMA DataChanged ==
  ASSUME NEW W \in Nat \ {0}, NEW N \in Nat \ {0}, NEW L, NEW K, NEW D, Data(L, W, N, K, D),
         NEW s \in 0 .. N - 1, NEW w \in 1 .. W, NEW e \in Entries,
         e.status # 0 =>
           \A v \in 1 .. W : v # w /\ L[s][v].status # 0 => L[s][v].tag # e.tag
  PROVE  Data([L EXCEPT ![s][w] = e], W, N,
              (K \ Leaves(L, N, s, w)) \cup Enters(e, N, s, {1, 2}),
              (D \ Leaves(L, N, s, w)) \cup Enters(e, N, s, {2}))
<1> DEFINE M == [L EXCEPT ![s][w] = e]
           K1 == (K \ Leaves(L, N, s, w)) \cup Enters(e, N, s, {1, 2})
           D1 == (D \ Leaves(L, N, s, w)) \cup Enters(e, N, s, {2})
<1>1. L \in [0 .. N - 1 -> [1 .. W -> Entries]] /\ \A t \in 0 .. N - 1 : Distinct(L[t], W)
  BY DEF Data
<1>2. /\ M \in [0 .. N - 1 -> [1 .. W -> Entries]]
      /\ M[s][w] = e
      /\ \A t \in 0 .. N - 1, v \in 1 .. W : t # s \/ v # w => M[t][v] = L[t][v]
  BY <1>1
<1> HIDE DEF M
<1>3. e.status \in {0, 1, 2} /\ e.tag \in Nat
  BY DEF Entries
<1>4. \A x \in Nat : x % N \in 0 .. N - 1 /\ x \div N \in Nat
  BY Split
<1>5. ASSUME NEW t \in 0 .. N - 1 PROVE Distinct(M[t], W)
  <2>1. CASE t # s
    BY <1>1, <1>2, <2>1 DEF Distinct
  <2>2. CASE t = s
    <3>1. \A v \in 1 .. W : v # w => M[s][v] = L[s][v]
      BY <1>2
    <3>2. Distinct(L[s], W)
      BY <1>1
    <3> QED
      BY <1>2, <2>2, <3>1, <3>2 DEF Distinct
  <2> QED
    BY <2>1, <2>2
<1>6. \A x \in Nat, v \in 1 .. W : x % N # s \/ v # w =>
        /\ At(M, N, x, v) <=> At(L, N, x, v)
        /\ M[x % N][v].status = L[x % N][v].status
  BY <1>2, <1>4 DEF At
<1>7. \A x \in Nat : x % N = s => /\ At(M, N, x, w) <=> x \div N = e.tag /\ e.status # 0
                                  /\ M[x % N][w].status = e.status
  BY <1>2, <1>4 DEF At
<1>8. \A x : x \in Leaves(L, N, s, w) <=> x \in Nat /\ x % N = s /\ At(L, N, x, w)
  BY DEF Leaves
<1>9. \A x : /\ x \in Enters(e, N, s, {1, 2}) <=> x \in Nat /\ x % N = s /\ x \div N = e.tag /\ e.status # 0
             /\ x \in Enters(e, N, s, {2}) <=> x \in Nat /\ x % N = s /\ x \div N = e.tag /\ e.status = 2
  BY <1>3 DEF Enters
<1>10. \A x \in Nat, v \in 1 .. W : At(L, N, x, w) /\ At(L, N, x, v) => v = w
  BY AtOnce
<1>11. ASSUME NEW x PROVE x \in K1 <=> x \in Nat /\ \E v \in 1 .. W : At(M, N, x, v)
  <2>1. x \in K <=> x \in Nat /\ \E v \in 1 .. W : At(L, N, x, v)
    BY DEF Data
  <2>2. CASE x \in Nat
    BY <1>6, <1>7, <1>8, <1>9, <1>10, <2>1, <2>2
  <2>3. CASE x \notin Nat
    BY <1>8, <1>9, <2>1, <2>3
  <2> QED
    BY <2>2, <2>3
<1>12. ASSUME NEW x
       PROVE  x \in D1 <=> x \in Nat /\ \E v \in 1 .. W : At(M, N, x, v) /\ M[x % N][v].status = 2
  <2>1. x \in D <=> x \in Nat /\ \E v \in 1 .. W : At(L, N, x, v) /\ L[x % N][v].status = 2
    BY DEF Data
  <2>2. CASE x \in Nat
    BY <1>6, <1>7, <1>8, <1>9, <1>10, <2>1, <2>2
  <2>3. CASE x \notin Nat
    BY <1>8, <1>9, <2>1, <2>3
  <2> QED
    BY <2>2, <2>3
<1> HIDE DEF K1, D1
<1>13. Data(M, W, N, K1, D1)
  BY <1>2, <1>5, <1>11, <1>12 DEF Data
<1> QED
  BY <1>13 DEF M, K1, D1

(* A level one of whose entries is another, field by field. *)
PutEntry(c, s, w, e) == [c EXCEPT !.data[s][w] = e]

Differs(p, c, s, w, e) ==
  /\ Formed(p) /\ p.LRU_vector = c.LRU_vector
  /\ p.data = [c.data EXCEPT ![s][w] = e]

LEMMA NewEntry ==
  ASSUME NEW c, Formed(c), NEW s, NEW w, NEW e
  PROVE  Differs(PutEntry(c, s, w, e), c, s, w, e)
<1> DEFINE p == PutEntry(c, s, w, e)
           X == [c.data EXCEPT ![s][w] = e]
<1>1. p \in [data : {X}, LRU_vector : {c.LRU_vector}]
  BY DEF Formed, PutEntry
<1> HIDE DEF p, X
<1>2. p.data = X /\ p.LRU_vector = c.LRU_vector
  BY <1>1
<1>3. Formed(p)
  BY <1>1, <1>2 DEF Formed
<1> QED
  BY <1>2, <1>3 DEF p, X, Differs

LEMMA WaysAt ==
  ASSUME NEW W \in Nat \ {0}, NEW N \in Nat \ {0}, NEW c, NEW K, NEW D, NEW r, State(c, W, N, K, D, r),
         NEW b \in Block
  PROVE  /\ Vector!WaysWith(c, b % N, b \div N) = {w \in 1 .. W : At(c.data, N, b, w)}
         /\ Vector!WaysWith(c, b % N, b \div N) = {} <=> b \notin K
         /\ b \in K => Vector!Min(Vector!WaysWith(c, b % N, b \div N)) \in 1 .. W
         /\ b \in K => At(c.data, N, b, Vector!Min(Vector!WaysWith(c, b % N, b \div N)))
<1> DEFINE T == Vector!WaysWith(c, b % N, b \div N)
<1>0. Data(c.data, W, N, K, D)
  BY DEF State
<1>1. b \in Nat /\ b % N \in 0 .. N - 1
  BY BlockNumbers, Split
<1>2. DOMAIN c.data[b % N] = 1 .. W
  BY <1>0, <1>1 DEF Data
<1>3. T = {w \in 1 .. W : At(c.data, N, b, w)}
  BY <1>2 DEF Vector!WaysWith, Vector!DOESNT_EXIST, At
<1>4. b \in K <=> \E w \in 1 .. W : At(c.data, N, b, w)
  BY <1>0, <1>1 DEF Data
<1>5. T # {} => Vector!Min(T) \in T
  <2>1. T \subseteq Nat
    BY <1>3
  <2> HIDE DEF T
  <2> QED
    BY <2>1, VectorLeast
<1> QED
  BY <1>3, <1>4, <1>5

LEMMA InCache ==
  ASSUME NEW W \in Nat \ {0}, NEW N \in Nat \ {0}, NEW c, NEW K, NEW D, NEW r, State(c, W, N, K, D, r),
         NEW b \in Block
  PROVE  Vector!in_cache(c, b) <=> b \in K
<1>1. DOMAIN c.data = 0 .. N - 1
  BY DEF Data, State
<1>2. Vector!SetOf(c, b) = b % N /\ Vector!TagOf(c, b) = b \div N
  BY <1>1, VectorSets
<1>3. Vector!WaysWith(c, b % N, b \div N) = {} <=> b \notin K
  BY WaysAt
<1> QED
  BY <1>2, <1>3 DEF Vector!in_cache

(* The state of one block changes. *)
LEMMA ChangeState ==
  ASSUME NEW W \in Nat \ {0}, NEW N \in Nat \ {0}, NEW c, NEW K, NEW D, NEW r,
         State(c, W, N, K, D, r), NEW b \in Block, NEW st \in {0, 1, 2}
  PROVE  State(Vector!changeToX(c, b, st), W, N,
               IF st = 0 THEN K \ {b} ELSE K,
               IF st = 2 THEN D \cup ({b} \cap K) ELSE D \ {b}, r)
<1> DEFINE s == b % N
           L == c.data
           T == Vector!WaysWith(c, s, b \div N)
           w == Vector!Min(T)
           e == [L[s][w] EXCEPT !.status = st]
           K1 == IF st = 0 THEN K \ {b} ELSE K
           D1 == IF st = 2 THEN D \cup ({b} \cap K) ELSE D \ {b}
<1>0. b \in Nat /\ s \in 0 .. N - 1
  BY BlockNumbers, Split
<1>1. Formed(c) /\ Data(L, W, N, K, D) /\ Lists(c.LRU_vector, N, r)
  BY DEF State
<1>2. DOMAIN c.data = 0 .. N - 1
  BY <1>1 DEF Data
<1>3. Vector!SetOf(c, b) = s /\ Vector!TagOf(c, b) = b \div N
  BY <1>2, VectorSets
<1>4. (T = {} <=> b \notin K) /\ (b \in K => w \in 1 .. W /\ At(L, N, b, w))
  BY WaysAt
<1>5. Vector!changeToX(c, b, st) = Vector!ChangeIn(c, s, b \div N, st)
  BY <1>3, Zenon DEF Vector!changeToX
<1>6. D \subseteq K
  BY <1>1 DEF Data
<1>7. CASE b \notin K
  <2>1. Vector!ChangeIn(c, s, b \div N, st) = c
    BY <1>4, <1>7 DEF Vector!ChangeIn
  <2>2. K1 = K /\ D1 = D
    BY <1>6, <1>7
  <2> QED
    BY <1>5, <2>1, <2>2
<1>8. CASE b \in K
  <2>1. w \in 1 .. W /\ At(L, N, b, w)
    BY <1>4, <1>8
  <2>2. Vector!ChangeIn(c, s, b \div N, st) = [c EXCEPT !.data[s][w].status = st]
    BY <1>4, <1>8, Zenon DEF Vector!ChangeIn
  <2>3. [c EXCEPT !.data[s][w].status = st] = PutEntry(c, s, w, e)
    BY DEF PutEntry
  <2> HIDE DEF w, T, e
  <2> DEFINE d == PutEntry(c, s, w, e)
  <2>4. Formed(d) /\ d.LRU_vector = c.LRU_vector /\ d.data = [L EXCEPT ![s][w] = e]
    <3>1. Formed(c)
      BY <1>1
    <3>2. Differs(d, c, s, w, e)
      BY <3>1, NewEntry
    <3> QED
      BY <3>2 DEF Differs
  <2>5. L[s][w] \in Entries
    BY <1>0, <1>1, <2>1 DEF Data
  <2>6. e \in Entries /\ e.status = st /\ e.tag = b \div N
    BY <2>1, <2>5 DEF e, Entries, At
  <2>7. \A v \in 1 .. W : v # w /\ L[s][v].status # 0 => L[s][v].tag # e.tag
    BY <1>0, <1>1, <2>1, <2>6 DEF Data, Distinct, At
  <2>8. \A x \in Nat : x % N = s /\ x \div N = b \div N => x = b
    BY <1>0, SameBlock
  <2>9. Leaves(L, N, s, w) = {b}
    <3>1. \A x : x \in Leaves(L, N, s, w) <=> x \in Nat /\ x % N = s /\ At(L, N, x, w)
      BY DEF Leaves
    <3>2. \A x \in Nat : x % N = s /\ At(L, N, x, w) => x = b
      BY <2>1, <2>8 DEF At
    <3> QED
      BY <1>0, <2>1, <3>1, <3>2
  <2>10. \A states : Enters(e, N, s, states) = IF st \in states THEN {b} ELSE {}
    BY <1>0, <2>6, <2>8 DEF Enters
  <2>11. Data([L EXCEPT ![s][w] = e], W, N,
              (K \ Leaves(L, N, s, w)) \cup Enters(e, N, s, {1, 2}),
              (D \ Leaves(L, N, s, w)) \cup Enters(e, N, s, {2}))
    <3> HIDE DEF s, L
    <3> QED
      BY <1>0, <1>1, <2>1, <2>6, <2>7, DataChanged
  <2>12. (K \ Leaves(L, N, s, w)) \cup Enters(e, N, s, {1, 2}) = K1
    BY <1>8, <2>9, <2>10
  <2>13. (D \ Leaves(L, N, s, w)) \cup Enters(e, N, s, {2}) = D1
    BY <1>8, <2>9, <2>10
  <2> HIDE DEF K1, D1, d
  <2>14. State(d, W, N, K1, D1, r)
    BY <1>1, <2>4, <2>11, <2>12, <2>13 DEF State
  <2> QED
    BY <1>5, <2>2, <2>3, <2>14 DEF K1, D1, d
<1> QED
  BY <1>7, <1>8

(* Block b, which the level does not hold, is written over way w. *)
LEMMA PutState ==
  ASSUME NEW W \in Nat \ {0}, NEW N \in Nat \ {0}, NEW c, NEW K, NEW D, NEW r,
         State(c, W, N, K, D, r), NEW b \in Block, b \notin K, NEW w \in 1 .. W
  PROVE  State(Vector!Put(c, b, w), W, N,
               (K \ Leaves(c.data, N, b % N, w)) \cup {b}, D \ Leaves(c.data, N, b % N, w), r)
<1> DEFINE s == b % N
           L == c.data
           e == [tag |-> b \div N, status |-> 1]
           gone == Leaves(L, N, s, w)
           d == PutEntry(c, s, w, e)
<1>0. b \in Nat /\ s \in 0 .. N - 1 /\ b \div N \in Nat
  BY BlockNumbers, Split
<1>1. Formed(c) /\ Data(L, W, N, K, D) /\ Lists(c.LRU_vector, N, r)
  BY DEF State
<1>2. DOMAIN c.data = 0 .. N - 1
  BY <1>1 DEF Data
<1>3. Vector!SetOf(c, b) = s /\ Vector!TagOf(c, b) = b \div N
  BY <1>2, VectorSets
<1>4. Vector!Put(c, b, w) = d
  BY <1>3, Zenon DEF Vector!Put, Vector!EXIST, PutEntry
<1>5. e \in Entries /\ e.tag = b \div N /\ e.status = 1
  BY <1>0 DEF Entries
<1> HIDE DEF e
<1>6. Formed(d) /\ d.LRU_vector = c.LRU_vector /\ d.data = [L EXCEPT ![s][w] = e]
  <2>1. Formed(c)
    BY <1>1
  <2>2. Differs(d, c, s, w, e)
    BY <2>1, NewEntry
  <2> QED
    BY <2>2 DEF Differs
<1>7. \A v \in 1 .. W : L[s][v].status # 0 => L[s][v].tag # e.tag
  BY <1>0, <1>1, <1>5 DEF Data, At
<1>8. Enters(e, N, s, {1, 2}) = {b} /\ Enters(e, N, s, {2}) = {}
  <2>1. \A x \in Nat : x % N = s /\ x \div N = b \div N => x = b
    BY <1>0, SameBlock
  <2> QED
    BY <1>0, <1>5, <2>1 DEF Enters
<1>9. Data([L EXCEPT ![s][w] = e], W, N,
           (K \ gone) \cup Enters(e, N, s, {1, 2}), (D \ gone) \cup Enters(e, N, s, {2}))
  <2> HIDE DEF s, L
  <2> QED
    BY <1>0, <1>1, <1>5, <1>7, DataChanged
<1>10. Data(d.data, W, N, (K \ gone) \cup {b}, D \ gone)
  <2>1. (D \ gone) \cup {} = D \ gone
    OBVIOUS
  <2> QED
    BY <1>6, <1>8, <1>9, <2>1
<1> HIDE DEF d, gone
<1>11. State(d, W, N, (K \ gone) \cup {b}, D \ gone, r)
  BY <1>1, <1>6, <1>10 DEF State
<1> QED
  BY <1>4, <1>11 DEF gone

(* old is the block all others of b's set follow, or there is none. *)
First(r, N, b, old) ==
  \/ Mates(r, b, N) = {} /\ old = Vector!NO_ADDRESS
  \/ /\ Mates(r, b, N) # {} /\ old \in Mates(r, b, N)
     /\ \A y \in Mates(r, b, N) : <<y, old>> \in r

LEMMA Oldest ==
  ASSUME NEW W \in Nat \ {0}, NEW N \in Nat \ {0}, NEW c, NEW K, NEW D, NEW r,
         State(c, W, N, K, D, r), NEW b \in Block
  PROVE  First(r, N, b, Vector!LRUgetLeastRecentlyUsed(c, b))
<1> DEFINE s == b % N
           l == c.LRU_vector[s]
           old == Vector!LRUgetLeastRecentlyUsed(c, b)
<1>0. b \in Nat /\ s \in 0 .. N - 1
  BY BlockNumbers, Split
<1>1. Data(c.data, W, N, K, D) /\ Lists(c.LRU_vector, N, r)
  BY DEF State
<1>2. DOMAIN c.data = 0 .. N - 1
  BY <1>1 DEF Data
<1>3. Vector!SetOf(c, b) = s
  BY <1>2, VectorSets
<1>4. old = IF l = << >> THEN Vector!NO_ADDRESS ELSE Head(l)
  BY <1>3 DEF Vector!LRUgetLeastRecentlyUsed
<1>5. /\ l \in Seq(Block) /\ Apart(l)
      /\ \A x, y : Listed(l, x, y) <=> <<x, y>> \in r /\ x % N = s /\ y % N = s
  <2> HIDE DEF s
  <2> QED
    BY <1>0, <1>1, ListsPairs
<1>6. \A x : x \in Mates(r, b, N) <=> x \in Block /\ <<x, x>> \in r /\ x % N = s
  BY DEF Mates, Has
<1> HIDE DEF l, old, s
<1>7. \A x : x \in Mates(r, b, N) <=> \E i \in 1 .. Len(l) : l[i] = x
  <2>1. \A x, y : Listed(l, x, y) => x \in Block /\ y \in Block
    BY <1>5, ListedIn
  <2>2. \A x : Listed(l, x, x) <=> \E i \in 1 .. Len(l) : l[i] = x
    BY <1>5, ListedIn
  <2> QED
    BY <1>5, <1>6, <2>1, <2>2
<1>8. CASE l = << >>
  BY <1>4, <1>7, <1>8 DEF First, old
<1>9. CASE l # << >>
  <2>1. Len(l) \in Nat /\ Len(l) >= 1 /\ Head(l) = l[1] /\ DOMAIN l = 1 .. Len(l)
    BY <1>5, <1>9
  <2>2. old = l[1] /\ 1 \in 1 .. Len(l)
    BY <1>4, <1>9, <2>1
  <2>3. old \in Mates(r, b, N)
    BY <1>7, <2>2
  <2>4. ASSUME NEW y \in Mates(r, b, N) PROVE <<y, old>> \in r
    <3>1. PICK i \in 1 .. Len(l) : l[i] = y
      BY <1>7
    <3>2. i >= 1
      OBVIOUS
    <3>3. Listed(l, y, old)
      BY <2>1, <2>2, <3>1, <3>2 DEF Listed
    <3> QED
      BY <1>5, <3>3
  <2> QED
    BY <2>3, <2>4 DEF First, old
<1> QED
  BY <1>8, <1>9

(* A set has as many blocks as entries that exist. *)
LEMMA FreeCount ==
  ASSUME NEW W \in Nat \ {0}, NEW N \in Nat \ {0}, NEW c, NEW D, NEW r,
         State(c, W, N, Kept(r), D, r), NEW b \in Block
  PROVE  /\ Vector!FreeWays(c, b) = {w \in 1 .. W : c.data[b % N][w].status = 0}
         /\ Vector!FreeWays(c, b) = {} => Cardinality(Mates(r, b, N)) = W
         /\ Vector!FreeWays(c, b) # {} => Cardinality(Mates(r, b, N)) < W
<1> DEFINE s == b % N
           L == c.data
           row == L[s]
           U == {v \in 1 .. W : row[v].status # 0}
           F == {v \in 1 .. W : row[v].status = 0}
           block(v) == row[v].tag * N + s
           f == [v \in U |-> block(v)]
<1>0. b \in Nat /\ s \in 0 .. N - 1
  BY BlockNumbers, Split
<1>1. Data(L, W, N, Kept(r), D)
  BY DEF State
<1>2. L \in [0 .. N - 1 -> [1 .. W -> Entries]] /\ DOMAIN c.data = 0 .. N - 1
  BY <1>1 DEF Data
<1>3. Vector!SetOf(c, b) = s
  BY <1>2, VectorSets
<1>4. row \in [1 .. W -> Entries] /\ Distinct(row, W)
  BY <1>0, <1>1, <1>2 DEF Data
<1>5. Vector!FreeWays(c, b) = F
  <2>1. DOMAIN c.data[s] = 1 .. W
    BY <1>4
  <2> QED
    BY <1>3, <2>1 DEF Vector!FreeWays, Vector!DOESNT_EXIST
<1>6. \A v \in U : row[v].tag \in Nat
  BY <1>4 DEF Entries
<1>7. \A v \in U : block(v) \in Nat /\ block(v) % N = s /\ block(v) \div N = row[v].tag
  BY <1>0, <1>6, Joined
<1> HIDE DEF row
<1>8. \A x : x \in Mates(r, b, N) <=> x \in Nat /\ x % N = s /\ \E v \in U : x \div N = row[v].tag
  <2>1. \A x : x \in Mates(r, b, N) <=> x \in Kept(r) /\ x % N = s
    BY MatesKept
  <2>2. \A x : x \in Kept(r) <=> x \in Nat /\ \E w \in 1 .. W : At(L, N, x, w)
    BY <1>1 DEF Data
  <2> QED
    BY <2>1, <2>2 DEF At, row
<1>9. \A v \in U : block(v) \in Mates(r, b, N)
  <2> HIDE DEF block, U, s
  <2> QED
    BY <1>7, <1>8
<1>10. \A x \in Mates(r, b, N) : \E v \in U : x = block(v)
  <2> TAKE x \in Mates(r, b, N)
  <2>1. x \in Nat /\ x % N = s /\ \E v \in U : x \div N = row[v].tag
    BY <1>8
  <2>2. PICK v \in U : x \div N = row[v].tag
    BY <2>1
  <2>3. block(v) \in Nat /\ block(v) % N = s /\ block(v) \div N = row[v].tag
    BY <1>7
  <2>4. block(v) = x
    <3> HIDE DEF block, U, s
    <3> QED
      BY <2>1, <2>2, <2>3, SameBlock
  <2> QED
    BY <2>4
<1>11. f \in Bijection(U, Mates(r, b, N))
  <2>1. \A v \in U : f[v] = block(v)
    OBVIOUS
  <2>2. \A v, w \in U : block(v) = block(w) => v = w
    <3> TAKE v, w \in U
    <3> HAVE block(v) = block(w)
    <3>1. row[v].tag = row[w].tag
      <4> HIDE DEF block
      <4> QED
        BY <1>7
    <3> QED
      BY <1>4, <3>1 DEF Distinct
  <2> HIDE DEF block, U
  <2> QED
    BY <1>9, <1>10, <2>1, <2>2 DEF Bijection, Injection, Surjection, IsInjective
<1>12. IsFiniteSet(1 .. W) /\ Cardinality(1 .. W) = W
  BY FS_Interval
<1>13. IsFiniteSet(U)
  BY <1>12, FS_Subset
<1>14. Cardinality(Mates(r, b, N)) = Cardinality(U)
  <2> HIDE DEF U, f
  <2>1. ExistsBijection(U, Mates(r, b, N))
    BY <1>11 DEF ExistsBijection
  <2> QED
    BY <1>13, <2>1, FS_Bijection
<1>15. F = {} => U = 1 .. W
  OBVIOUS
<1>16. F # {} => Cardinality(U) < W
  <2> SUFFICES ASSUME NEW w \in F PROVE Cardinality(U) < W
    OBVIOUS
  <2>1. IsFiniteSet((1 .. W) \ {w}) /\ Cardinality((1 .. W) \ {w}) = W - 1
    BY <1>12, FS_RemoveElement
  <2>2. U \subseteq (1 .. W) \ {w}
    OBVIOUS
  <2>3. Cardinality(U) \in Nat /\ Cardinality(U) <= W - 1
    <3> HIDE DEF U
    <3>1. Cardinality(U) <= Cardinality((1 .. W) \ {w})
      BY <2>1, <2>2, FS_Subset
    <3>2. Cardinality(U) \in Nat
      BY <1>13, FS_CardinalityType
    <3> QED
      BY <2>1, <3>1, <3>2
  <2> QED
    BY <2>3
<1> QED
  BY <1>5, <1>12, <1>14, <1>15, <1>16 DEF row

(* What add does when b, which the level does not hold, is to enter it in  *)
(* place of old: the blocks out leave.                                     *)
Adds(c, d, W, N, D, r, b, old, out) ==
  /\ State(d, W, N, (Kept(r) \ out) \cup {b}, D \ out, Without(r, out))
  /\ out = {} \/ out = {old}
  /\ Vector!need_evac(c, b, old, TRUE) <=> out \cap D # {}
  /\ Vector!need_evac(c, b, old, FALSE) <=> out # {}

LEMMA AddState ==
  ASSUME NEW W \in Nat \ {0}, NEW N \in Nat \ {0}, NEW c, NEW D, NEW r,
         State(c, W, N, Kept(r), D, r), Level(r, W, N), NEW b \in Block, b \notin Kept(r),
         NEW old, old = Vector!LRUgetLeastRecentlyUsed(c, b)
  PROVE  Adds(c, Vector!add(c, b, old), W, N, D, r, b, old, Leaving(r, b, W, N))
<1> DEFINE s == b % N
           L == c.data
           out == Leaving(r, b, W, N)
           F == Vector!FreeWays(c, b)
           T == Vector!Replaced(c, b, old)
           d == Vector!add(c, b, old)
<1>0. b \in Nat /\ s \in 0 .. N - 1 /\ b \div N \in Nat
  BY BlockNumbers, Split
<1>1. Formed(c) /\ Data(L, W, N, Kept(r), D) /\ Lists(c.LRU_vector, N, r)
  BY DEF State
<1>2. DOMAIN c.data = 0 .. N - 1
  BY <1>1 DEF Data
<1>3. Vector!SetOf(c, b) = s /\ Vector!TagOf(c, b) = b \div N
  BY <1>2, VectorSets
<1>4. ~Vector!in_cache(c, b)
  BY InCache
<1>5. /\ F = {w \in 1 .. W : L[s][w].status = 0}
      /\ F = {} => Cardinality(Mates(r, b, N)) = W
      /\ F # {} => Cardinality(Mates(r, b, N)) < W
  BY FreeCount
<1>6. \/ Cardinality(Mates(r, b, N)) < W /\ out = {}
      \/ /\ Cardinality(Mates(r, b, N)) = W
         /\ \E x \in Mates(r, b, N) : out = {x} /\ \A y \in Mates(r, b, N) : <<y, x>> \in r
  BY LeavingOne
<1>7. Cardinality(Mates(r, b, N)) \in Nat
  BY MatesFinite DEF Level
<1>8. Vector!TakesFree(c, b) <=> F # {}
  BY <1>4 DEF Vector!TakesFree
<1> HIDE DEF F, out
<1>9. CASE F # {}
  <2>1. out = {}
    BY <1>5, <1>6, <1>7, <1>9
  <2>2. Vector!Min(F) \in F
    <3>1. F \subseteq Nat
      BY <1>5
    <3> QED
      BY <1>9, <3>1, VectorLeast
  <2> DEFINE w == Vector!Min(F)
  <2>3. T = {}
    BY <1>8, <1>9 DEF Vector!Replaced
  <2>4. d = Vector!Put(c, b, w)
    <3>1. Vector!TakesFree(c, b) /\ Vector!Replaced(c, b, old) = {}
      BY <1>8, <1>9, <2>3
    <3> QED
      BY <3>1, Zenon DEF Vector!add, F
  <2> HIDE DEF w, d, T
  <2>5. w \in 1 .. W /\ L[s][w].status = 0
    BY <1>5, <2>2 DEF w
  <2>6. Leaves(L, N, s, w) = {}
    BY <2>5 DEF Leaves, At
  <2>7. State(d, W, N, (Kept(r) \ Leaves(L, N, s, w)) \cup {b}, D \ Leaves(L, N, s, w), r)
    BY <2>4, <2>5, PutState
  <2>8. Without(r, {}) = r
    BY UseNothing
  <2>9. State(d, W, N, (Kept(r) \ out) \cup {b}, D \ out, Without(r, out))
    BY <2>1, <2>6, <2>7, <2>8
  <2>10. ~Vector!need_evac(c, b, old, TRUE) /\ ~Vector!need_evac(c, b, old, FALSE)
    BY <2>3 DEF Vector!need_evac, T
  <2> QED
    BY <2>1, <2>9, <2>10 DEF Adds, d, out
<1>10. CASE F = {}
  <2>1. PICK x \in Mates(r, b, N) : out = {x} /\ \A y \in Mates(r, b, N) : <<y, x>> \in r
    BY <1>5, <1>6, <1>7, <1>10
  <2>2. old \in Mates(r, b, N) /\ \A y \in Mates(r, b, N) : <<y, old>> \in r
    <3>1. First(r, N, b, old)
      BY Oldest
    <3> QED
      BY <2>1, <3>1 DEF First
  <2>3. out = {old}
    <3>1. <<x, old>> \in r /\ <<old, x>> \in r
      BY <2>1, <2>2
    <3>2. x = old
      BY <3>1 DEF Level, Proper
    <3> QED
      BY <2>1, <3>2
  <2>4. old \in Kept(r) /\ old \in Block /\ old \in Nat /\ old % N = s
    BY <2>2, BlockNumbers, MatesKept DEF Kept
  <2>5. old # Vector!NO_ADDRESS
    BY <2>4 DEF Vector!NO_ADDRESS
  <2>6. Vector!TagOf(c, old) = old \div N
    BY <1>2, VectorSets
  <2>7. T = Vector!WaysWith(c, old % N, old \div N)
    BY <1>3, <1>8, <1>10, <2>4, <2>5, <2>6 DEF Vector!Replaced
  <2> DEFINE w == Vector!Min(T)
  <2>8. T # {} /\ w \in 1 .. W /\ At(L, N, old, w)
    <3>1. Vector!WaysWith(c, old % N, old \div N) # {}
      BY <2>4, WaysAt
    <3>2. Vector!Min(Vector!WaysWith(c, old % N, old \div N)) \in 1 .. W
      BY <2>4, WaysAt
    <3>3. At(L, N, old, Vector!Min(Vector!WaysWith(c, old % N, old \div N)))
      BY <2>4, WaysAt
    <3> QED
      BY <2>7, <3>1, <3>2, <3>3
  <2>9. d = Vector!LRUremove(Vector!Put(c, b, w), old)
    <3>1. ~Vector!TakesFree(c, b) /\ Vector!Replaced(c, b, old) # {}
      BY <1>8, <1>10, <2>8
    <3> QED
      BY <3>1, Zenon DEF Vector!add
  <2>10. /\ Vector!need_evac(c, b, old, TRUE) <=> L[s][w].status = 2
         /\ Vector!need_evac(c, b, old, FALSE)
    <3>1. T # {}
      BY <2>8
    <3> QED
      BY <1>3, <3>1 DEF Vector!need_evac, Vector!DIRTY
  <2> HIDE DEF w, d, T
  <2>11. Leaves(L, N, s, w) = {old}
    <3>1. \A a \in Nat : a % N = s /\ At(L, N, a, w) => a = old
      BY <2>4, <2>8, SameBlock DEF At
    <3> QED
      BY <2>4, <2>8, <3>1 DEF Leaves
  <2>12. L[s][w].status = 2 <=> old \in D
    <3>1. old \in D <=> \E v \in 1 .. W : At(L, N, old, v) /\ L[old % N][v].status = 2
      BY <1>1, <2>4 DEF Data
    <3>2. \A v \in 1 .. W : At(L, N, old, v) => v = w
      BY <1>1, <2>4, <2>8, AtOnce
    <3> QED
      BY <2>4, <2>8, <3>1, <3>2
  <2>13. State(Vector!Put(c, b, w), W, N, (Kept(r) \ Leaves(L, N, s, w)) \cup {b},
               D \ Leaves(L, N, s, w), r)
    BY <2>8, PutState
  <2>14. State(Vector!Put(c, b, w), W, N, (Kept(r) \ {old}) \cup {b}, D \ {old}, r)
    BY <2>11, <2>13
  <2>15. State(d, W, N, (Kept(r) \ {old}) \cup {b}, D \ {old}, Without(r, {old}))
    <3> HIDE DEF s, L
    <3> QED
      BY <2>4, <2>9, <2>14, RemoveState
  <2>16. Vector!need_evac(c, b, old, TRUE) <=> out \cap D # {}
    BY <2>3, <2>10, <2>12
  <2> QED
    BY <2>3, <2>10, <2>15, <2>16 DEF Adds, d, out
<1> QED
  BY <1>9, <1>10

-----------------------------------------------------------------------------
(* CacheSimShelly, both levels.  Nothing reads which blocks L2 marks.      *)
Below(c, K, r) == \E e : State(c, L2Ways, L2Sets, K, e, r)

Both(v, K1, d1, one, K2, two) ==
  Whole(v) /\ State(v.L1, L1Ways, L1Sets, K1, d1, one) /\ Below(v.L2, K2, two)

Agree(v, one, two, d1) == Both(v, Kept(one), d1, one, Kept(two), two)

LEMMA BothFields ==
  ASSUME NEW v, Whole(v), NEW A, NEW B,
         NEW K1, NEW d1, NEW one, State(A, L1Ways, L1Sets, K1, d1, one),
         NEW K2, NEW two, Below(B, K2, two)
  PROVE  Both([v EXCEPT !.L1 = A, !.L2 = B], K1, d1, one, K2, two)
<1> DEFINE p == [v EXCEPT !.L1 = A, !.L2 = B]
<1>1. p \in [L1 : {A}, L2 : {B}, crashed : BOOLEAN] /\ ~p.crashed
  BY DEF Whole
<1> HIDE DEF p
<1>2. p.L1 = A /\ p.L2 = B
  BY <1>1
<1>3. Whole(p)
  BY <1>1, <1>2 DEF Whole
<1>4. Both(p, K1, d1, one, K2, two)
  BY <1>2, <1>3 DEF Both
<1> QED
  BY <1>4 DEF p

LEMMA BothL1 ==
  ASSUME NEW v, NEW K1, NEW d1, NEW one, NEW K2, NEW two, Both(v, K1, d1, one, K2, two),
         NEW A, NEW K, NEW D, NEW r, State(A, L1Ways, L1Sets, K, D, r)
  PROVE  Both([v EXCEPT !.L1 = A], K, D, r, K2, two)
<1> DEFINE p == [v EXCEPT !.L1 = A]
<1>1. Whole(p) /\ p.L1 = A /\ p.L2 = v.L2
  BY Fields DEF Both
<1> HIDE DEF p
<1>2. Both(p, K, D, r, K2, two)
  BY <1>1 DEF Both
<1> QED
  BY <1>2 DEF p

LEMMA BothL2 ==
  ASSUME NEW v, NEW K1, NEW d1, NEW one, NEW K2, NEW two, Both(v, K1, d1, one, K2, two),
         NEW B, NEW K, NEW r, Below(B, K, r)
  PROVE  Both([v EXCEPT !.L2 = B], K1, d1, one, K, r)
<1> DEFINE p == [v EXCEPT !.L2 = B]
<1>1. Whole(p) /\ p.L2 = B /\ p.L1 = v.L1
  BY Fields DEF Both
<1> HIDE DEF p
<1>2. Both(p, K1, d1, one, K, r)
  BY <1>1 DEF Both
<1> QED
  BY <1>2 DEF p

LEMMA BelowUsed ==
  ASSUME NEW c, NEW K, NEW r, Below(c, K, r), NEW b \in Block
  PROVE  Below(Vector!LRUupdate(c, b), K, Using(r, b, L2Sets))
<1>1. PICK e : State(c, L2Ways, L2Sets, K, e, r)
  BY DEF Below
<1>2. State(Vector!LRUupdate(c, b), L2Ways, L2Sets, K, e, Using(r, b, L2Sets))
  BY <1>1, LevelSizes, UpdateState
<1> QED
  BY <1>2 DEF Below

LEMMA BelowMarked ==
  ASSUME NEW c, NEW K, NEW r, Below(c, K, r), NEW b \in Block, NEW st \in {1, 2}
  PROVE  Below(Vector!changeToX(c, b, st), K, r)
<1>1. PICK e : State(c, L2Ways, L2Sets, K, e, r)
  BY DEF Below
<1>2. State(Vector!changeToX(c, b, st), L2Ways, L2Sets,
            IF st = 0 THEN K \ {b} ELSE K, IF st = 2 THEN e \cup ({b} \cap K) ELSE e \ {b}, r)
  BY <1>1, LevelSizes, ChangeState
<1>3. st # 0
  OBVIOUS
<1>4. State(Vector!changeToX(c, b, st), L2Ways, L2Sets, K,
            IF st = 2 THEN e \cup ({b} \cap K) ELSE e \ {b}, r)
  BY <1>2, <1>3
<1> QED
  BY <1>4 DEF Below

LEMMA InCaches ==
  ASSUME NEW v, NEW K1, NEW d1, NEW one, NEW K2, NEW two, Both(v, K1, d1, one, K2, two),
         NEW b \in Block
  PROVE  /\ Vector!in_cache(v.L1, b) <=> b \in K1
         /\ Vector!in_cache(v.L2, b) <=> b \in K2
<1> USE LevelSizes
<1>1. State(v.L1, L1Ways, L1Sets, K1, d1, one) /\ Below(v.L2, K2, two)
  BY DEF Both
<1>2. PICK e : State(v.L2, L2Ways, L2Sets, K2, e, two)
  BY <1>1 DEF Below
<1> DEFINE A == v.L1
           B == v.L2
<1> HIDE DEF A, B
<1>3. State(A, L1Ways, L1Sets, K1, d1, one) /\ State(B, L2Ways, L2Sets, K2, e, two)
  BY <1>1, <1>2 DEF A, B
<1>4. Vector!in_cache(A, b) <=> b \in K1
  BY <1>3, InCache
<1>5. Vector!in_cache(B, b) <=> b \in K2
  BY <1>3, InCache
<1> QED
  BY <1>4, <1>5 DEF A, B

LEMMA EnterL1State ==
  ASSUME NEW v, NEW one, NEW two, NEW d1, NEW K2, Both(v, Kept(one), d1, one, K2, two),
         Level(one, L1Ways, L1Sets), NEW b \in Block, b \notin Kept(one)
  PROVE  LET V == Leaving(one, b, L1Ways, L1Sets)
         IN  Both(Vector!EnterL1(v, b), (Kept(one) \ V) \cup {b}, d1 \ V, Without(one, V),
                  K2, Use(two, V \cap d1, L2Sets))
<1> USE LevelSizes
<1> DEFINE V   == Leaving(one, b, L1Ways, L1Sets)
           c   == v.L1
           old == Vector!LRUgetLeastRecentlyUsed(c, b)
           A   == Vector!add(c, b, old)
           B   == IF Vector!need_evac(c, b, old, TRUE) THEN Vector!LRUupdate(v.L2, old) ELSE v.L2
<1>1. /\ Whole(v) /\ State(c, L1Ways, L1Sets, Kept(one), d1, one) /\ Below(v.L2, K2, two)
  BY DEF Both
<1>2. Vector!EnterL1(v, b) = [v EXCEPT !.L1 = A, !.L2 = B]
  BY DEF Vector!EnterL1
<1>3. Adds(c, A, L1Ways, L1Sets, d1, one, b, old, V)
  <2>1. State(c, L1Ways, L1Sets, Kept(one), d1, one)
    BY <1>1
  <2>2. old = Vector!LRUgetLeastRecentlyUsed(c, b)
    OBVIOUS
  <2> HIDE DEF c, old
  <2> QED
    BY <2>1, <2>2, AddState
<1>4. State(A, L1Ways, L1Sets, (Kept(one) \ V) \cup {b}, d1 \ V, Without(one, V))
  BY <1>3 DEF Adds
<1>5. /\ V = {} \/ V = {old}
      /\ Vector!need_evac(c, b, old, TRUE) <=> V \cap d1 # {}
      /\ V \subseteq Block
  <2>1. V \subseteq Block
    BY DEF Leaving, Mates
  <2> HIDE DEF V, old, c
  <2> QED
    BY <1>3, <2>1 DEF Adds
<1>6. Below(B, K2, Use(two, V \cap d1, L2Sets))
  <2> HIDE DEF V, old, c
  <2>1. CASE V \cap d1 = {}
    <3>1. B = v.L2
      BY <1>5, <2>1
    <3>2. Use(two, {}, L2Sets) = two
      BY UseNothing
    <3> QED
      BY <1>1, <2>1, <3>1, <3>2
  <2>2. CASE V \cap d1 # {}
    <3>1. V \cap d1 = {old} /\ old \in Block
      BY <1>5, <2>2
    <3>2. Below(Vector!LRUupdate(v.L2, old), K2, Using(two, old, L2Sets))
      BY <1>1, <3>1, BelowUsed
    <3> QED
      BY <1>5, <2>2, <3>1, <3>2 DEF Using
  <2> QED
    BY <2>1, <2>2
<1> HIDE DEF A, B, V
<1>7. Both([v EXCEPT !.L1 = A, !.L2 = B], (Kept(one) \ V) \cup {b}, d1 \ V, Without(one, V),
           K2, Use(two, V \cap d1, L2Sets))
  BY <1>1, <1>4, <1>6, BothFields
<1> QED
  BY <1>2, <1>7 DEF V

(* A block that left L2 leaves L1, when the set written to is its own. *)
LEMMA LeaveL1State ==
  ASSUME NEW v, NEW one, NEW two, NEW d1, NEW K2, Both(v, Kept(one), d1, one, K2, two),
         Proper(one, L1Sets), d1 \subseteq Kept(one), NEW old \in Block, NEW set,
         old \in Kept(one) => set = old % L1Sets
  PROVE  Both(Vector!LeaveL1(v, old, set), Kept(one) \ {old}, d1 \ {old}, Without(one, {old}),
              K2, two)
<1> USE LevelSizes
<1> DEFINE c == v.L1
           A == Vector!LRUremove(Vector!changeToX(c, old, 0), old)
<1>1. /\ Whole(v) /\ State(c, L1Ways, L1Sets, Kept(one), d1, one) /\ Below(v.L2, K2, two)
  BY DEF Both
<1>2. Vector!in_cache(v.L1, old) <=> old \in Kept(one)
  BY InCaches
<1>3. CASE old \notin Kept(one)
  <2>1. Vector!LeaveL1(v, old, set) = v
    <3>1. ~Vector!in_cache(v.L1, old)
      BY <1>2, <1>3
    <3> QED
      BY <3>1, Zenon DEF Vector!LeaveL1
  <2>2. Kept(one) \ {old} = Kept(one) /\ d1 \ {old} = d1
    BY <1>3
  <2>3. Without(one, {old}) = one
    <3> DEFINE out == {old}
    <3>1. \A a, e : <<a, e>> \in one => a \notin out /\ e \notin out
      BY <1>3 DEF Proper, Kept
    <3> HIDE DEF out
    <3>2. one \subseteq Block \X Block /\ Without(one, out) \subseteq one
      BY DEF Proper, Without
    <3>3. \A a, e : <<a, e>> \in one => <<a, e>> \in Without(one, out)
      BY <3>1, WithoutPair
    <3>4. one \subseteq Without(one, out)
      BY <3>2, <3>3
    <3> QED
      BY <3>2, <3>4 DEF out
  <2> QED
    BY <2>1, <2>2, <2>3
<1>4. CASE old \in Kept(one)
  <2>1. Data(c.data, L1Ways, L1Sets, Kept(one), d1)
    BY <1>1 DEF State
  <2>2. DOMAIN c.data = 0 .. L1Sets - 1
    BY <2>1 DEF Data
  <2>3. Vector!SetOf(c, old) = old % L1Sets
    BY <2>2, VectorSets
  <2>4. old % L1Sets \in 0 .. L1Sets - 1
    BY BlockNumbers, Split
  <2>5. Vector!in_cache(v.L1, old) /\ set \in DOMAIN v.L1.data
    BY <1>2, <1>4, <2>2, <2>4
  <2>6. Vector!changeToX(c, old, 0) = Vector!ChangeIn(c, set, Vector!TagOf(c, old), Vector!DOESNT_EXIST)
    BY <1>4, <2>3 DEF Vector!changeToX, Vector!DOESNT_EXIST
  <2>7. Vector!LeaveL1(v, old, set) =
          [v EXCEPT !.L1 = Vector!LRUremove(Vector!ChangeIn(@, set, Vector!TagOf(@, old), Vector!DOESNT_EXIST), old)]
    BY <2>5, Zenon DEF Vector!LeaveL1
  <2>8. Vector!LeaveL1(v, old, set) = [v EXCEPT !.L1 = A]
    BY <2>6, <2>7
  <2>9. State(A, L1Ways, L1Sets, Kept(one) \ {old}, d1 \ {old}, Without(one, {old}))
    <3> HIDE DEF c
    <3>1. State(Vector!changeToX(c, old, 0), L1Ways, L1Sets,
                IF 0 = 0 THEN Kept(one) \ {old} ELSE Kept(one),
                IF 0 = 2 THEN d1 \cup ({old} \cap Kept(one)) ELSE d1 \ {old}, one)
      <4>1. 0 \in {0, 1, 2}
        OBVIOUS
      <4>2. \A st \in {0, 1, 2} : State(Vector!changeToX(c, old, st), L1Ways, L1Sets,
                IF st = 0 THEN Kept(one) \ {old} ELSE Kept(one),
                IF st = 2 THEN d1 \cup ({old} \cap Kept(one)) ELSE d1 \ {old}, one)
        BY <1>1, ChangeState
      <4> QED
        BY <4>1, <4>2, Zenon
    <3>2. State(Vector!changeToX(c, old, 0), L1Ways, L1Sets, Kept(one) \ {old}, d1 \ {old}, one)
      BY <3>1
    <3> QED
      BY <3>2, RemoveState
  <2> HIDE DEF A
  <2> QED
    BY <2>8, <2>9, BothL1
<1> QED
  BY <1>3, <1>4

LEMMA EnterL2State ==
  ASSUME NEW v, NEW one, NEW two, NEW d1, Agree(v, one, two, d1),
         Level(one, L1Ways, L1Sets), Level(two, L2Ways, L2Sets), d1 \subseteq Kept(one),
         NEW b \in Block, b \notin Kept(two), NEW set,
         LET old == Vector!LRUgetLeastRecentlyUsed(v.L2, b)
         IN  Vector!need_evac(v.L2, b, old, FALSE) /\ old \in Kept(one) => set = old % L1Sets
  PROVE  LET out == Leaving(two, b, L2Ways, L2Sets)
         IN  Both(Vector!EnterL2(v, b, set), Kept(one) \ out, d1 \ out, Without(one, out),
                  (Kept(two) \ out) \cup {b}, Enter(two, b, L2Ways, L2Sets))
<1> USE LevelSizes
<1> DEFINE out == Leaving(two, b, L2Ways, L2Sets)
           c   == v.L2
           old == Vector!LRUgetLeastRecentlyUsed(c, b)
           B   == Vector!add(c, b, old)
           K2  == (Kept(two) \ out) \cup {b}
           t   == Without(two, out)
           added == [v EXCEPT !.L2 = B]
           above == IF Vector!need_evac(c, b, old, FALSE) THEN Vector!LeaveL1(added, old, set) ELSE added
           C   == Vector!LRUupdate(above.L2, b)
<1>1. Whole(v) /\ Below(c, Kept(two), two) /\ Both(v, Kept(one), d1, one, Kept(two), two)
  BY DEF Agree, Both
<1>2. PICK e : State(c, L2Ways, L2Sets, Kept(two), e, two)
  BY <1>1 DEF Below
<1>3. Adds(c, B, L2Ways, L2Sets, e, two, b, old, out)
  <2>1. old = Vector!LRUgetLeastRecentlyUsed(c, b)
    OBVIOUS
  <2> HIDE DEF c, old
  <2> QED
    BY <1>2, <2>1, AddState
<1>4. State(B, L2Ways, L2Sets, K2, e \ out, t)
  BY <1>3 DEF Adds
<1>5. /\ out = {} \/ out = {old}
      /\ Vector!need_evac(c, b, old, FALSE) <=> out # {}
      /\ out \subseteq Block
  <2>1. out \subseteq Block
    BY DEF Leaving, Mates
  <2> HIDE DEF out, old, c
  <2> QED
    BY <1>3, <2>1 DEF Adds
<1>6. Below(B, K2, t)
  BY <1>4 DEF Below
<1>7. Both(added, Kept(one), d1, one, K2, t)
  <2> HIDE DEF B, K2, t
  <2> QED
    BY <1>1, <1>6, BothL2
<1>8. Both(above, Kept(one) \ out, d1 \ out, Without(one, out), K2, t)
  <2>0. Vector!need_evac(c, b, old, FALSE) /\ old \in Kept(one) => set = old % L1Sets
    OBVIOUS
  <2> HIDE DEF out, old, c, added, K2, t
  <2>1. CASE out = {}
    <3>1. above = added
      BY <1>5, <2>1
    <3>2. Kept(one) \ {} = Kept(one) /\ d1 \ {} = d1
      OBVIOUS
    <3>3. Without(one, {}) = one
      BY UseNothing
    <3> QED
      BY <1>7, <2>1, <3>1, <3>2, <3>3
  <2>2. CASE out # {}
    <3>1. out = {old} /\ old \in Block
      BY <1>5, <2>2
    <3>2. above = Vector!LeaveL1(added, old, set)
      BY <1>5, <2>2
    <3>3. old \in Kept(one) => set = old % L1Sets
      BY <1>5, <2>0, <2>2
    <3>4. Proper(one, L1Sets)
      BY DEF Level
    <3>5. Both(Vector!LeaveL1(added, old, set), Kept(one) \ {old}, d1 \ {old},
               Without(one, {old}), K2, t)
      BY <1>7, <3>1, <3>3, <3>4, LeaveL1State
    <3> QED
      BY <3>1, <3>2, <3>5
  <2> QED
    BY <2>1, <2>2
<1>9. Vector!EnterL2(v, b, set) = [above EXCEPT !.L2 = C]
  BY DEF Vector!EnterL2
<1> HIDE DEF above, K2
<1>10. Below(C, K2, Using(t, b, L2Sets))
  <2>1. Below(above.L2, K2, t)
    BY <1>8 DEF Both
  <2> DEFINE D == above.L2
  <2> HIDE DEF D
  <2>2. Below(D, K2, t)
    BY <2>1 DEF D
  <2>3. Below(Vector!LRUupdate(D, b), K2, Using(t, b, L2Sets))
    BY <2>2, BelowUsed
  <2> QED
    BY <2>3 DEF D
<1>11. Using(t, b, L2Sets) = Enter(two, b, L2Ways, L2Sets)
  BY DEF Using, Enter
<1> HIDE DEF C, out, t
<1>12. Both([above EXCEPT !.L2 = C], Kept(one) \ out, d1 \ out, Without(one, out), K2,
            Using(t, b, L2Sets))
  BY <1>8, <1>10, BothL2
<1> QED
  BY <1>9, <1>11, <1>12 DEF K2, out

(* A block of L1 is marked as the operation says, before or after its use. *)
LEMMA Marks ==
  ASSUME NEW c, NEW K, NEW D, NEW r, State(c, L1Ways, L1Sets, K, D, r),
         NEW b \in Block, b \in K, NEW operation \in Operation
  PROVE  /\ operation = "w" =>
              State(Vector!changeToX(c, b, 2), L1Ways, L1Sets, K, D \cup New(b, operation), r)
         /\ operation = "r" /\ b \notin D =>
              State(Vector!changeToX(c, b, 1), L1Ways, L1Sets, K, D \cup New(b, operation), r)
<1> USE LevelSizes
<1>1. \A st \in {0, 1, 2} :
        State(Vector!changeToX(c, b, st), L1Ways, L1Sets,
              IF st = 0 THEN K \ {b} ELSE K, IF st = 2 THEN D \cup ({b} \cap K) ELSE D \ {b}, r)
  BY ChangeState
<1>2. State(Vector!changeToX(c, b, 2), L1Ways, L1Sets, K, D \cup {b}, r)
  <2>1. State(Vector!changeToX(c, b, 2), L1Ways, L1Sets,
              IF 2 = 0 THEN K \ {b} ELSE K, IF 2 = 2 THEN D \cup ({b} \cap K) ELSE D \ {b}, r)
    <3>1. 2 \in {0, 1, 2}
      OBVIOUS
    <3> QED
      BY <1>1, <3>1, Zenon
  <2>2. {b} \cap K = {b}
    OBVIOUS
  <2> QED
    BY <2>1, <2>2
<1>3. State(Vector!changeToX(c, b, 1), L1Ways, L1Sets, K, D \ {b}, r)
  <2>1. State(Vector!changeToX(c, b, 1), L1Ways, L1Sets,
              IF 1 = 0 THEN K \ {b} ELSE K, IF 1 = 2 THEN D \cup ({b} \cap K) ELSE D \ {b}, r)
    <3>1. 1 \in {0, 1, 2}
      OBVIOUS
    <3> QED
      BY <1>1, <3>1, Zenon
  <2> QED
    BY <2>1
<1>4. operation = "w" => New(b, operation) = {b}
  BY DEF New
<1>5. operation = "r" /\ b \notin D => D \ {b} = D \cup New(b, operation)
  BY DEF New
<1> QED
  BY <1>2, <1>3, <1>4, <1>5

Touch(c, b, operation) ==
  IF operation = "w" THEN Vector!changeToX(Vector!LRUupdate(c, b), b, Vector!DIRTY)
  ELSE Vector!LRUupdate(c, b)

LEMMA TouchState ==
  ASSUME NEW c, NEW K, NEW D, NEW r, State(c, L1Ways, L1Sets, K, D, r),
         NEW b \in Block, b \in K, NEW operation \in Operation
  PROVE  State(Touch(c, b, operation), L1Ways, L1Sets, K, D \cup New(b, operation),
               Using(r, b, L1Sets))
<1> USE LevelSizes
<1> DEFINE u == Vector!LRUupdate(c, b)
<1>1. State(u, L1Ways, L1Sets, K, D, Using(r, b, L1Sets))
  BY UpdateState
<1> HIDE DEF u
<1>2. CASE operation = "w"
  <2>1. State(Vector!changeToX(u, b, 2), L1Ways, L1Sets, K, D \cup New(b, operation),
              Using(r, b, L1Sets))
    BY <1>1, <1>2, Marks
  <2> QED
    BY <1>2, <2>1 DEF Touch, Vector!DIRTY, u
<1>3. CASE operation = "r"
  <2>1. D \cup New(b, operation) = D
    BY <1>3 DEF New
  <2>2. Touch(c, b, operation) = u
    BY <1>3 DEF Touch, u
  <2> QED
    BY <1>1, <2>1, <2>2
<1> QED
  BY <1>2, <1>3 DEF Operation

LEMMA CalcHit1 ==
  ASSUME NEW v, NEW one, NEW two, NEW d1, Agree(v, one, two, d1), Proper(one, L1Sets),
         NEW b \in Block, Has(one, b), NEW operation \in Operation, NEW alloc, NEW set
  PROVE  Agree(Vector!calc_operation(v, b, operation, alloc, set),
               Using(one, b, L1Sets), two, d1 \cup New(b, operation))
<1>1. Both(v, Kept(one), d1, one, Kept(two), two) /\ b \in Kept(one)
  BY DEF Agree, Kept
<1>2. Vector!in_cache(v.L1, b)
  BY <1>1, InCaches
<1>3. Vector!calc_operation(v, b, operation, alloc, set) =
        [v EXCEPT !.L1 = IF operation = "w" THEN Vector!changeToX(Vector!LRUupdate(@, b), b, Vector!DIRTY)
                         ELSE Vector!LRUupdate(@, b)]
  BY <1>2, Zenon DEF Vector!calc_operation
<1> DEFINE c == v.L1
           A == Touch(c, b, operation)
<1>4. Vector!calc_operation(v, b, operation, alloc, set) = [v EXCEPT !.L1 = A]
  BY <1>3 DEF Touch
<1>5. State(c, L1Ways, L1Sets, Kept(one), d1, one)
  BY <1>1 DEF Both
<1> HIDE DEF c
<1>6. State(A, L1Ways, L1Sets, Kept(one), d1 \cup New(b, operation), Using(one, b, L1Sets))
  BY <1>1, <1>5, TouchState
<1> HIDE DEF A
<1>7. Both([v EXCEPT !.L1 = A], Kept(one), d1 \cup New(b, operation), Using(one, b, L1Sets),
           Kept(two), two)
  BY <1>1, <1>6, BothL1
<1>8. Kept(Using(one, b, L1Sets)) = Kept(one)
  <2>1. Kept(Using(one, b, L1Sets)) = Kept(one) \cup {b}
    BY UseProper
  <2> QED
    BY <1>1, <2>1
<1> QED
  BY <1>4, <1>7, <1>8 DEF Agree

LEMMA CalcBelow ==
  ASSUME NEW v, NEW one, NEW two, NEW d1, Agree(v, one, two, d1), Proper(two, L2Sets),
         NEW b \in Block, b \notin Kept(one), Has(two, b), NEW operation, NEW alloc, NEW set,
         ~(operation = "r" \/ alloc # 0)
  PROVE  Agree(Vector!calc_operation(v, b, operation, alloc, set), one, Using(two, b, L2Sets), d1)
<1>1. Both(v, Kept(one), d1, one, Kept(two), two) /\ b \in Kept(two)
  BY DEF Agree, Kept
<1>2. ~Vector!in_cache(v.L1, b) /\ Vector!in_cache(v.L2, b)
  BY <1>1, InCaches
<1> DEFINE c == v.L2
           u == Vector!LRUupdate(c, b)
           B == Vector!changeToX(u, b, 2)
<1>3. Vector!calc_operation(v, b, operation, alloc, set) =
        [v EXCEPT !.L2 = Vector!changeToX(Vector!LRUupdate(@, b), b, Vector!DIRTY)]
  BY <1>2, Zenon DEF Vector!calc_operation
<1>4. Vector!calc_operation(v, b, operation, alloc, set) = [v EXCEPT !.L2 = B]
  BY <1>3 DEF Vector!DIRTY
<1>5. Below(c, Kept(two), two)
  BY <1>1 DEF Both
<1> HIDE DEF c
<1>6. Below(u, Kept(two), Using(two, b, L2Sets))
  BY <1>5, BelowUsed
<1> HIDE DEF u
<1>7. Below(B, Kept(two), Using(two, b, L2Sets))
  <2>1. \A st \in {1, 2} : Below(Vector!changeToX(u, b, st), Kept(two), Using(two, b, L2Sets))
    BY <1>6, BelowMarked
  <2> QED
    BY <2>1
<1> HIDE DEF B
<1>8. Both([v EXCEPT !.L2 = B], Kept(one), d1, one, Kept(two), Using(two, b, L2Sets))
  BY <1>1, <1>7, BothL2
<1>9. Kept(Using(two, b, L2Sets)) = Kept(two)
  BY <1>1, UseProper
<1> QED
  BY <1>4, <1>8, <1>9 DEF Agree

LEMMA CalcNone ==
  ASSUME NEW v, NEW one, NEW two, NEW d1, Agree(v, one, two, d1),
         NEW b \in Block, b \notin Kept(one), b \notin Kept(two), NEW operation, NEW alloc, NEW set,
         ~(operation = "r" \/ alloc # 0)
  PROVE  Vector!calc_operation(v, b, operation, alloc, set) = v
<1>1. Both(v, Kept(one), d1, one, Kept(two), two)
  BY DEF Agree
<1>2. ~Vector!in_cache(v.L1, b) /\ ~Vector!in_cache(v.L2, b)
  BY <1>1, InCaches
<1> QED
  BY <1>2, Zenon DEF Vector!calc_operation

LEMMA CalcHit2 ==
  ASSUME NEW v, NEW one, NEW two, NEW d1, Agree(v, one, two, d1),
         Level(one, L1Ways, L1Sets), Level(two, L2Ways, L2Sets),
         Kept(one) \subseteq Kept(two), d1 \subseteq Kept(one),
         NEW b \in Block, b \notin Kept(one), b \in Kept(two),
         NEW operation \in Operation, NEW alloc, NEW set, operation = "r" \/ alloc # 0
  PROVE  LET V == Leaving(one, b, L1Ways, L1Sets)
         IN  Agree(Vector!calc_operation(v, b, operation, alloc, set),
                   Enter(one, b, L1Ways, L1Sets),
                   Using(Use(two, V \cap d1, L2Sets), b, L2Sets),
                   (d1 \ V) \cup New(b, operation))
<1> USE LevelSizes
<1> DEFINE V    == Leaving(one, b, L1Ways, L1Sets)
           old  == Vector!LRUgetLeastRecentlyUsed(v.L1, b)
           marks == Vector!need_evac(v.L1, b, old, TRUE)
           in1  == Vector!EnterL1(v, b)
           K    == (Kept(one) \ V) \cup {b}
           t    == Use(two, V \cap d1, L2Sets)
           status == IF operation = "w" THEN 2 ELSE 1
           A    == Vector!LRUupdate(Vector!changeToX(in1.L1, b, status), b)
           M    == CASE operation = "r"          -> Vector!changeToX(in1.L2, b, 1)
                     [] operation # "r" /\ marks -> Vector!changeToX(in1.L2, b, 2)
                     [] OTHER                    -> in1.L2
           B    == Vector!LRUupdate(M, b)
<1>1. Both(v, Kept(one), d1, one, Kept(two), two)
  BY DEF Agree
<1>2. ~Vector!in_cache(v.L1, b) /\ Vector!in_cache(v.L2, b)
  BY <1>1, InCaches
<1>3. Vector!calc_operation(v, b, operation, alloc, set) = Vector!FromL2(v, b, operation)
  BY <1>2, Zenon DEF Vector!calc_operation
<1>4. Vector!FromL2(v, b, operation) = [in1 EXCEPT !.L1 = A, !.L2 = B]
  BY DEF Vector!FromL2, Vector!DIRTY, Vector!EXIST
<1>5. Both(in1, K, d1 \ V, Without(one, V), Kept(two), t)
  <2> HIDE DEF in1
  <2> QED
    BY <1>1, EnterL1State DEF in1
<1>6. b \notin d1 /\ b \in K
  OBVIOUS
<1> HIDE DEF in1, V, t, K, marks
<1> DEFINE c == in1.L1
           e == in1.L2
<1>7. Whole(in1) /\ State(c, L1Ways, L1Sets, K, d1 \ V, Without(one, V)) /\ Below(e, Kept(two), t)
  BY <1>5 DEF Both
<1>8. State(A, L1Ways, L1Sets, K, (d1 \ V) \cup New(b, operation), Using(Without(one, V), b, L1Sets))
  <2> DEFINE m == Vector!changeToX(c, b, status)
  <2>1. State(m, L1Ways, L1Sets, K, (d1 \ V) \cup New(b, operation), Without(one, V))
    <3> HIDE DEF c
    <3>1. CASE operation = "w"
      <4>1. State(Vector!changeToX(c, b, 2), L1Ways, L1Sets, K, (d1 \ V) \cup New(b, operation),
                  Without(one, V))
        BY <1>6, <1>7, <3>1, Marks
      <4> QED
        BY <3>1, <4>1
    <3>2. CASE operation = "r"
      <4>1. b \notin d1 \ V
        BY <1>6
      <4>2. State(Vector!changeToX(c, b, 1), L1Ways, L1Sets, K, (d1 \ V) \cup New(b, operation),
                  Without(one, V))
        BY <1>6, <1>7, <3>2, <4>1, Marks
      <4>3. status = 1
        BY <3>2
      <4> QED
        BY <4>2, <4>3
    <3> QED
      BY <3>1, <3>2 DEF Operation
  <2> HIDE DEF m
  <2>2. State(Vector!LRUupdate(m, b), L1Ways, L1Sets, K, (d1 \ V) \cup New(b, operation),
              Using(Without(one, V), b, L1Sets))
    BY <2>1, UpdateState
  <2> QED
    BY <2>2 DEF m, c
<1>9. Below(B, Kept(two), Using(t, b, L2Sets))
  <2>1. \A st \in {1, 2} : Below(Vector!changeToX(e, b, st), Kept(two), t)
    <3> HIDE DEF e
    <3> QED
      BY <1>7, BelowMarked
  <2>2. Below(M, Kept(two), t)
    <3>1. M = Vector!changeToX(e, b, 1) \/ M = Vector!changeToX(e, b, 2) \/ M = e
      OBVIOUS
    <3>2. Below(Vector!changeToX(e, b, 1), Kept(two), t) /\ Below(Vector!changeToX(e, b, 2), Kept(two), t)
      BY <2>1
    <3> HIDE DEF M, e
    <3> QED
      BY <1>7, <3>1, <3>2
  <2> HIDE DEF M
  <2> QED
    BY <2>2, BelowUsed
<1> HIDE DEF A, B
<1>10. Both([in1 EXCEPT !.L1 = A, !.L2 = B], K, (d1 \ V) \cup New(b, operation),
            Using(Without(one, V), b, L1Sets), Kept(two), Using(t, b, L2Sets))
  BY <1>7, <1>8, <1>9, BothFields
<1>11. Using(Without(one, V), b, L1Sets) = Enter(one, b, L1Ways, L1Sets)
  BY DEF Enter, Using, V
<1>12. Kept(Enter(one, b, L1Ways, L1Sets)) = K
  BY EnterLevel DEF K, V
<1>13. Kept(Using(t, b, L2Sets)) = Kept(two)
  <2>1. V \subseteq Kept(one) /\ \E x : V \subseteq {x}
    BY LeavingHeld DEF V
  <2>2. PICK x : V \subseteq {x}
    BY <2>1
  <2>3. V \cap d1 \subseteq {x} /\ V \cap d1 \subseteq Kept(two)
    BY <2>1, <2>2
  <2>4. Level(t, L2Ways, L2Sets) /\ Kept(t) = Kept(two)
    <3> DEFINE used == V \cap d1
    <3>1. used \subseteq {x} /\ used \subseteq Kept(two)
      BY <2>3
    <3> HIDE DEF used
    <3>2. Level(Use(two, used, L2Sets), L2Ways, L2Sets) /\ Kept(Use(two, used, L2Sets)) = Kept(two)
      BY <3>1, UseSome
    <3> QED
      BY <3>2 DEF used, t
  <2>5. Kept(Using(t, b, L2Sets)) = Kept(t) \cup {b}
    BY <2>4, UseProper DEF Level
  <2> QED
    BY <2>4, <2>5
<1>14. Agree([in1 EXCEPT !.L1 = A, !.L2 = B], Enter(one, b, L1Ways, L1Sets),
             Using(t, b, L2Sets), (d1 \ V) \cup New(b, operation))
  BY <1>10, <1>11, <1>12, <1>13 DEF Agree
<1> QED
  BY <1>3, <1>4, <1>14 DEF t, V

LEMMA CalcMiss ==
  ASSUME NEW v, NEW one, NEW two, NEW d1, Agree(v, one, two, d1),
         Level(one, L1Ways, L1Sets), Level(two, L2Ways, L2Sets),
         Kept(one) \subseteq Kept(two), d1 \subseteq Kept(one),
         NEW b \in Block, b \notin Kept(one), b \notin Kept(two),
         NEW operation \in Operation, NEW alloc, operation = "r" \/ alloc # 0,
         NEW set,
         Vector!ReadsGarbage(v, b, operation, alloc)
           => set = Vector!LRUgetLeastRecentlyUsed(v.L2, b) % L1Sets
  PROVE  LET out == Leaving(two, b, L2Ways, L2Sets)
             o   == Without(one, out)
             V   == Leaving(o, b, L1Ways, L1Sets)
         IN  Agree(Vector!calc_operation(v, b, operation, alloc, set),
                   Enter(o, b, L1Ways, L1Sets),
                   Use(Enter(two, b, L2Ways, L2Sets), V \cap (d1 \ out), L2Sets),
                   ((d1 \ out) \ V) \cup New(b, operation))
<1> USE LevelSizes
<1> DEFINE out == Leaving(two, b, L2Ways, L2Sets)
           o   == Without(one, out)
           V   == Leaving(o, b, L1Ways, L1Sets)
           d   == d1 \ out
           t   == Enter(two, b, L2Ways, L2Sets)
           q   == Use(t, V \cap d, L2Sets)
           old == Vector!LRUgetLeastRecentlyUsed(v.L2, b)
           in2 == Vector!EnterL2(v, b, set)
           in1 == Vector!EnterL1(in2, b)
           A   == Touch(in1.L1, b, operation)
<1>1. Both(v, Kept(one), d1, one, Kept(two), two)
  BY DEF Agree
<1>2. ~Vector!in_cache(v.L1, b) /\ ~Vector!in_cache(v.L2, b)
  BY <1>1, InCaches
<1>3. Vector!calc_operation(v, b, operation, alloc, set) = Vector!FromMemory(v, b, operation, set)
  BY <1>2, Zenon DEF Vector!calc_operation
<1>4. Vector!FromMemory(v, b, operation, set) = [in1 EXCEPT !.L1 = A]
  BY DEF Vector!FromMemory, Touch
<1>5. Vector!need_evac(v.L2, b, old, FALSE) /\ old \in Kept(one) => set = old % L1Sets
  <2> SUFFICES ASSUME Vector!need_evac(v.L2, b, old, FALSE), old \in Kept(one)
               PROVE  set = old % L1Sets
    OBVIOUS
  <2>1. old \in Block
    BY DEF Kept
  <2>2. Vector!in_cache(v.L1, old)
    <3> HIDE DEF old
    <3> QED
      BY <1>1, <2>1, InCaches
  <2>3. Vector!ReadsGarbage(v, b, operation, alloc)
    BY <1>2, <2>2 DEF Vector!ReadsGarbage
  <2> QED
    BY <2>3
<1>6. Both(in2, Kept(one) \ out, d, o, Kept(t), t)
  <2>1. Both(in2, Kept(one) \ out, d, o, (Kept(two) \ out) \cup {b}, t)
    BY <1>5, EnterL2State
  <2>2. Kept(t) = (Kept(two) \ out) \cup {b}
    BY EnterLevel
  <2> QED
    BY <2>1, <2>2
<1>7. Level(o, L1Ways, L1Sets) /\ Kept(o) = Kept(one) \ out
  BY WithoutLevel
<1>8. Level(t, L2Ways, L2Sets) /\ Kept(t) = (Kept(two) \ out) \cup {b}
  BY EnterLevel
<1>9. b \notin Kept(o) /\ Kept(o) \subseteq Kept(t) /\ d \subseteq Kept(o)
  BY <1>7, <1>8
<1> HIDE DEF in2, out, o, t, d
<1> DEFINE K == (Kept(o) \ V) \cup {b}
<1>10. Both(in1, K, d \ V, Without(o, V), Kept(t), q)
  <2>1. Both(in2, Kept(o), d, o, Kept(t), t)
    BY <1>6, <1>7
  <2> QED
    BY <1>7, <1>9, <2>1, EnterL1State
<1> HIDE DEF in1, V
<1>11. State(A, L1Ways, L1Sets, K, (d \ V) \cup New(b, operation), Using(Without(o, V), b, L1Sets))
  <2> DEFINE c == in1.L1
  <2>1. State(c, L1Ways, L1Sets, K, d \ V, Without(o, V)) /\ b \in K
    BY <1>10 DEF Both
  <2> HIDE DEF c, K
  <2>2. State(Touch(c, b, operation), L1Ways, L1Sets, K, (d \ V) \cup New(b, operation),
              Using(Without(o, V), b, L1Sets))
    BY <2>1, TouchState
  <2> QED
    BY <2>2 DEF c
<1> HIDE DEF A, K, q
<1>12. Both([in1 EXCEPT !.L1 = A], K, (d \ V) \cup New(b, operation),
            Using(Without(o, V), b, L1Sets), Kept(t), q)
  BY <1>10, <1>11, BothL1
<1>13. Using(Without(o, V), b, L1Sets) = Enter(o, b, L1Ways, L1Sets)
  BY DEF Enter, Using, V
<1>14. Kept(Enter(o, b, L1Ways, L1Sets)) = K
  BY <1>7, EnterLevel DEF K, V
<1>15. Kept(q) = Kept(t)
  <2>1. V \subseteq Kept(o) /\ \E x : V \subseteq {x}
    BY <1>7, LeavingHeld DEF V
  <2>2. PICK x : V \subseteq {x}
    BY <2>1
  <2> DEFINE used == V \cap d
  <2>3. used \subseteq {x} /\ used \subseteq Kept(t)
    BY <1>9, <2>1, <2>2
  <2> HIDE DEF used
  <2>4. Kept(Use(t, used, L2Sets)) = Kept(t)
    BY <1>8, <2>3, UseSome
  <2> QED
    BY <2>4 DEF used, q
<1>16. Agree([in1 EXCEPT !.L1 = A], Enter(o, b, L1Ways, L1Sets), q, (d \ V) \cup New(b, operation))
  BY <1>12, <1>13, <1>14, <1>15 DEF Agree
<1> QED
  BY <1>3, <1>4, <1>16 DEF o, V, out, d, t, q

LEMMA StepHit2First ==
  ASSUME NEW b \in Block, NEW operation \in Operation, Step(b, operation), ~In1(b), In2(b),
         operation = "r" \/ wrAlloc = 1, victimFirst
  PROVE  LET V == Leaving(recent1, b, L1Ways, L1Sets)
         IN  /\ recent1' = Enter(recent1, b, L1Ways, L1Sets)
             /\ recent2' = Using(Use(recent2, V \cap dirty1, L2Sets), b, L2Sets)
             /\ dirty1' = (dirty1 \ V) \cup New(b, operation)
<1>1. CASE operation = "w"
  <2>1. wrAlloc = 1 /\ wrAlloc # 0 /\ Write(b)
    BY <1>1 DEF Step
  <2>2. ~Hit1(b, TRUE) /\ ~Miss(b, TRUE)
    BY DEF Hit1, Miss
  <2>3. Hit2(b, TRUE)
    BY <2>1, <2>2 DEF Write
  <2> QED
    BY <1>1, <2>3 DEF Hit2, EnterL1, StaleBelow, Victims, Using, New
<1>2. CASE operation = "r"
  <2>1. Hit2(b, FALSE)
    BY <1>2 DEF Step, Read, Hit1, Miss
  <2> QED
    BY <1>2, <2>1 DEF Hit2, EnterL1, StaleBelow, Victims, Using, New
<1> QED
  BY <1>1, <1>2 DEF Operation

(* As long as no wrong set was written, the program's cache is that of the *)
(* hierarchy.                                                              *)
ShellyInv ==
  program = "Shelly" /\ lucky =>
    /\ victimFirst
    /\ wrAlloc \in {0, 1}
    /\ Agree(vector, recent1, recent2, dirty1)

LEMMA ShellyStep ==
  ASSUME HierarchyInv, victimFirst, wrAlloc \in {0, 1}, Agree(vector, recent1, recent2, dirty1),
         NEW b \in Block, NEW operation \in Operation, Step(b, operation), NEW set,
         Vector!ReadsGarbage(vector, b, operation, wrAlloc)
           => set = Vector!LRUgetLeastRecentlyUsed(vector.L2, b) % L1Sets,
         vector' = Vector!calc_operation(vector, b, operation, wrAlloc, set)
  PROVE  Agree(vector', recent1', recent2', dirty1')
<1> DEFINE N == New(b, operation)
           c == Vector!calc_operation(vector, b, operation, wrAlloc, set)
<1>1. /\ Level(recent1, L1Ways, L1Sets) /\ Level(recent2, L2Ways, L2Sets)
      /\ Kept(recent1) \subseteq Kept(recent2) /\ dirty1 \subseteq Kept(recent1)
      /\ Proper(recent1, L1Sets) /\ Proper(recent2, L2Sets)
  BY DEF HierarchyInv, Level
<1>2. (b \in Kept(recent1) <=> In1(b)) /\ (b \in Kept(recent2) <=> In2(b))
  BY DEF Kept, In1, In2
<1>3. vector' = c
  OBVIOUS
<1>4. wrAlloc # 0 <=> wrAlloc = 1
  OBVIOUS
<1> HIDE DEF N, c
<1>5. CASE In1(b)
  <2>1. Has(recent1, b)
    BY <1>5 DEF In1
  <2>2. Agree(c, Using(recent1, b, L1Sets), recent2, dirty1 \cup N)
    BY <1>1, <2>1, CalcHit1 DEF N, c
  <2>3. /\ recent1' = Using(recent1, b, L1Sets) /\ dirty1' = dirty1 \cup N
        /\ recent2' = recent2
    BY <1>5, StepHit1 DEF N
  <2> QED
    BY <1>3, <2>2, <2>3
<1>6. CASE ~In1(b) /\ In2(b) /\ (operation = "r" \/ wrAlloc = 1)
  <2> DEFINE V == Leaving(recent1, b, L1Ways, L1Sets)
             t == Using(Use(recent2, V \cap dirty1, L2Sets), b, L2Sets)
  <2>1. Agree(c, Enter(recent1, b, L1Ways, L1Sets), t, (dirty1 \ V) \cup N)
    BY <1>1, <1>2, <1>4, <1>6, CalcHit2 DEF N, c
  <2>2. /\ recent1' = Enter(recent1, b, L1Ways, L1Sets) /\ dirty1' = (dirty1 \ V) \cup N
        /\ recent2' = t
    BY <1>6, StepHit2First DEF N
  <2> HIDE DEF V, t
  <2> QED
    BY <1>3, <2>1, <2>2
<1>7. CASE ~In1(b) /\ In2(b) /\ ~(operation = "r" \/ wrAlloc = 1)
  <2>1. Has(recent2, b)
    BY <1>7 DEF In2
  <2>2. Agree(c, recent1, Using(recent2, b, L2Sets), dirty1)
    BY <1>1, <1>2, <1>4, <1>7, <2>1, CalcBelow DEF c
  <2>3. recent2' = Using(recent2, b, L2Sets) /\ recent1' = recent1 /\ dirty1' = dirty1
    BY <1>7, StepBelow
  <2> QED
    BY <1>3, <2>2, <2>3
<1>8. CASE ~In1(b) /\ ~In2(b) /\ (operation = "r" \/ wrAlloc = 1)
  <2> DEFINE out == Leaving(recent2, b, L2Ways, L2Sets)
             o == Without(recent1, out)
             V == Leaving(o, b, L1Ways, L1Sets)
             t == Use(Enter(recent2, b, L2Ways, L2Sets), V \cap (dirty1 \ out), L2Sets)
             f == ((dirty1 \ out) \ V) \cup N
  <2>1. Agree(c, Enter(o, b, L1Ways, L1Sets), t, f)
    BY <1>1, <1>2, <1>4, <1>8, CalcMiss DEF N, c
  <2>2. recent1' = Enter(o, b, L1Ways, L1Sets) /\ recent2' = t /\ dirty1' = f
    BY <1>8, StepMiss DEF N
  <2> HIDE DEF out, o, V, t, f
  <2> QED
    BY <1>3, <2>1, <2>2
<1>9. CASE ~In1(b) /\ ~In2(b) /\ ~(operation = "r" \/ wrAlloc = 1)
  <2>1. c = vector
    BY <1>2, <1>4, <1>9, CalcNone DEF c
  <2>2. recent1' = recent1 /\ recent2' = recent2 /\ dirty1' = dirty1
    BY <1>9, StepNone
  <2> QED
    BY <1>3, <2>1, <2>2
<1> QED
  BY <1>5, <1>6, <1>7, <1>8, <1>9

LEMMA ShellyInvStep == HierarchyInv /\ ShellyInv /\ [SimsNext]_vars => ShellyInv'
<1> SUFFICES ASSUME HierarchyInv, ShellyInv, [SimsNext]_vars PROVE ShellyInv'
  OBVIOUS
<1>1. ASSUME NEW b \in Block, NEW operation \in Operation, ShellyAccess(b, operation)
      PROVE  ShellyInv'
  <2>1. PICK set \in Uninitialised(b, operation) :
          /\ vector' = Vector!calc_operation(vector, b, operation, wrAlloc, set)
          /\ lucky'  = (Vector!ReadsGarbage(vector, b, operation, wrAlloc)
                          => set = Vector!LRUgetLeastRecentlyUsed(vector.L2, b) % L1Sets)
    BY <1>1 DEF ShellyAccess
  <2>2. program = "Shelly" /\ lucky /\ Step(b, operation)
    BY <1>1 DEF ShellyAccess
  <2>3. victimFirst /\ wrAlloc \in {0, 1} /\ Agree(vector, recent1, recent2, dirty1)
    BY <2>2 DEF ShellyInv
  <2>4. victimFirst' = victimFirst /\ wrAlloc' = wrAlloc
    BY <2>2, StepWritten
  <2>5. ASSUME lucky' PROVE Agree(vector', recent1', recent2', dirty1')
    <3>1. Vector!ReadsGarbage(vector, b, operation, wrAlloc)
            => set = Vector!LRUgetLeastRecentlyUsed(vector.L2, b) % L1Sets
      BY <2>1, <2>5
    <3> QED
      BY <2>1, <2>2, <2>3, <3>1, ShellyStep
  <2>6. lucky' => Agree(vector, recent1, recent2, dirty1)'
    BY <2>5 DEF Agree, Both, Whole, Below, State, Formed, Data, Distinct, At, Lists, Listed, Apart
  <2> QED
    BY <2>3, <2>4, <2>6 DEF ShellyInv
<1>2. ASSUME NEW b \in Block, NEW operation \in Operation, RoyAccess(b, operation)
      PROVE  ShellyInv'
  BY <1>2 DEF RoyAccess, ShellyInv
<1>3. ASSUME UNCHANGED vars PROVE ShellyInv'
  <2>1. /\ program' = program /\ lucky' = lucky /\ victimFirst' = victimFirst
        /\ wrAlloc' = wrAlloc /\ vector' = vector
        /\ recent1' = recent1 /\ recent2' = recent2 /\ dirty1' = dirty1
    BY <1>3 DEF vars, lruVars
  <2>2. ASSUME program = "Shelly", lucky
        PROVE  Agree(vector', recent1', recent2', dirty1')
    BY <2>1, <2>2 DEF ShellyInv
  <2>3. program = "Shelly" /\ lucky => Agree(vector, recent1, recent2, dirty1)'
    BY <2>2 DEF Agree, Both, Whole, Below, State, Formed, Data, Distinct, At, Lists, Listed, Apart
  <2> QED
    BY <2>1, <2>3 DEF ShellyInv
<1> QED
  BY <1>1, <1>2, <1>3 DEF SimsNext, Undefined

LEMMA ShellyInvInit ==
  ASSUME WrAllocs \subseteq {0, 1} PROVE SimsInit => ShellyInv
<1> USE LevelSizes
<1> SUFFICES ASSUME SimsInit, program = "Shelly" PROVE ShellyInv
  BY DEF ShellyInv
<1>1. victimFirst /\ wrAlloc \in {0, 1}
  BY DEF SimsInit, Init
<1>2. recent1 = {} /\ recent2 = {} /\ dirty1 = {}
  BY DEF SimsInit, Init
<1> DEFINE A == Vector!EmptyLevel(L1Sets, L1Ways)
           B == Vector!EmptyLevel(L2Sets, L2Ways)
<1>3. vector = [L1 |-> A, L2 |-> B, crashed |-> FALSE]
  BY DEF SimsInit, Vector!EmptyCache
<1>4. \A W, N \in Nat \ {0} : State(Vector!EmptyLevel(N, W), W, N, {}, {}, {})
  <2> SUFFICES ASSUME NEW W \in Nat \ {0}, NEW N \in Nat \ {0}
               PROVE  State(Vector!EmptyLevel(N, W), W, N, {}, {}, {})
    OBVIOUS
  <2> DEFINE L == [s \in 0 .. N - 1 |-> [w \in 1 .. W |-> [tag |-> 0, status |-> 0]]]
             Q == [s \in 0 .. N - 1 |-> << >>]
             c == Vector!EmptyLevel(N, W)
  <2>1. c = [data |-> L, LRU_vector |-> Q]
    BY DEF Vector!EmptyLevel, Vector!DOESNT_EXIST
  <2>2. Data(L, W, N, {}, {})
    <3>1. L \in [0 .. N - 1 -> [1 .. W -> Entries]]
      BY DEF Entries
    <3>2. \A s \in 0 .. N - 1 : \A w \in 1 .. W : L[s][w].status = 0
      OBVIOUS
    <3>3. \A s \in 0 .. N - 1 : Distinct(L[s], W)
      BY <3>2 DEF Distinct
    <3>4. \A x \in Nat, w \in 1 .. W : ~At(L, N, x, w)
      <4>1. \A x \in Nat : x % N \in 0 .. N - 1
        BY Split
      <4> HIDE DEF L
      <4> QED
        BY <3>2, <4>1 DEF At
    <3> HIDE DEF L
    <3> QED
      BY <3>1, <3>3, <3>4 DEF Data
  <2>3. Lists(Q, N, {})
    <3>1. Q \in [0 .. N - 1 -> Seq(Block)]
      OBVIOUS
    <3>2. \A s \in 0 .. N - 1 : Apart(Q[s]) /\ \A x, y : ~Listed(Q[s], x, y)
      BY DEF Apart, Listed
    <3> HIDE DEF Q
    <3> QED
      BY <3>1, <3>2 DEF Lists
  <2> HIDE DEF L, Q, c
  <2>4. c.data = L /\ c.LRU_vector = Q
    BY <2>1
  <2>5. Formed(c)
    BY <2>1, <2>4 DEF Formed
  <2>6. State(c, W, N, {}, {}, {})
    BY <2>2, <2>3, <2>4, <2>5 DEF State
  <2> QED
    BY <2>6 DEF c
<1>5. State(A, L1Ways, L1Sets, {}, {}, {}) /\ State(B, L2Ways, L2Sets, {}, {}, {})
  BY <1>4
<1> HIDE DEF A, B
<1>6. vector.L1 = A /\ vector.L2 = B /\ ~vector.crashed
  BY <1>3
<1>7. Whole(vector)
  BY <1>3, <1>6 DEF Whole
<1>8. Both(vector, {}, {}, {}, {}, {})
  BY <1>5, <1>6, <1>7 DEF Both, Below
<1>9. Kept({}) = {}
  BY EmptyLevel
<1> QED
  BY <1>1, <1>2, <1>8, <1>9 DEF ShellyInv, Agree

LEMMA Injective ==
  ASSUME NEW l, NEW S, l \in Seq(S), Apart(l) PROVE IsInjective(l)
  BY DEF IsInjective, Apart

(* What a level whose data and lists agree holds. *)
LEMMA StateBlocks ==
  ASSUME NEW W \in Nat \ {0}, NEW N \in Nat \ {0}, NEW c, NEW K, NEW D, NEW r,
         State(c, W, N, K, D, r)
  PROVE  /\ Vector!Existing(c) = K
         /\ Vector!BlocksWith(c, {Vector!DIRTY}) = D
<1> DEFINE L == c.data
<1>1. Data(L, W, N, K, D) /\ DOMAIN L = 0 .. N - 1 /\ L \in [0 .. N - 1 -> [1 .. W -> Entries]]
  BY DEF State, Data
<1>2. Vector!num_of_rows(c) = N
  <2>1. DOMAIN c.data = 0 .. N - 1
    BY <1>1
  <2>2. Cardinality(0 .. N - 1) = N
    BY FS_Interval
  <2> QED
    BY <2>1, <2>2, VectorCardinality DEF Vector!num_of_rows
<1>3. \A states : \A x :
        x \in Vector!BlocksWith(c, states) <=>
          \E s \in 0 .. N - 1 : \E w \in 1 .. W : L[s][w].status \in states /\ x = L[s][w].tag * N + s
  <2> TAKE states
  <2>1. \A s \in 0 .. N - 1 : DOMAIN L[s] = 1 .. W
    BY <1>1
  <2>2. Vector!BlocksWith(c, states) =
          UNION {{L[s][w].tag * N + s : w \in {w \in DOMAIN L[s] : L[s][w].status \in states}} : s \in DOMAIN L}
    BY <1>2 DEF Vector!BlocksWith
  <2>3. Vector!BlocksWith(c, states) =
          UNION {{L[s][w].tag * N + s : w \in {w \in 1 .. W : L[s][w].status \in states}} : s \in 0 .. N - 1}
    BY <1>1, <2>1, <2>2
  <2> HIDE DEF L
  <2> QED
    BY <2>3
<1>4. \A s \in 0 .. N - 1, w \in 1 .. W :
        L[s][w].tag \in Nat /\ L[s][w].status \in {0, 1, 2}
  BY <1>1 DEF Entries
<1> HIDE DEF L
<1>5. \A states : states \subseteq {1, 2} => \A x :
        x \in Vector!BlocksWith(c, states) <=>
          x \in Nat /\ \E w \in 1 .. W : At(L, N, x, w) /\ L[x % N][w].status \in states
  <2> SUFFICES ASSUME NEW states, states \subseteq {1, 2}, NEW x
               PROVE  x \in Vector!BlocksWith(c, states) <=>
                        x \in Nat /\ \E w \in 1 .. W : At(L, N, x, w) /\ L[x % N][w].status \in states
    OBVIOUS
  <2>1. ASSUME NEW s \in 0 .. N - 1, NEW w \in 1 .. W, L[s][w].status \in states,
               x = L[s][w].tag * N + s
        PROVE  x \in Nat /\ At(L, N, x, w) /\ L[x % N][w].status \in states
    <3>1. L[s][w].tag \in Nat
      BY <1>4
    <3> DEFINE tag == L[s][w].tag
    <3> HIDE DEF tag
    <3>2. x = tag * N + s /\ tag \in Nat
      BY <2>1, <3>1 DEF tag
    <3>3. x \in Nat /\ x % N = s /\ x \div N = tag
      BY <3>2, Joined
    <3>4. L[s][w].status # 0
      BY <2>1
    <3> QED
      BY <2>1, <3>3, <3>4 DEF At, tag
  <2>2. ASSUME x \in Nat, NEW w \in 1 .. W, At(L, N, x, w), L[x % N][w].status \in states
        PROVE  \E s \in 0 .. N - 1 : L[s][w].status \in states /\ x = L[s][w].tag * N + s
    <3>1. x % N \in 0 .. N - 1 /\ x = (x \div N) * N + (x % N)
      BY <2>2, Split
    <3>2. L[x % N][w].tag = x \div N
      BY <2>2 DEF At
    <3> QED
      BY <2>2, <3>1, <3>2
  <2>3. x \in Vector!BlocksWith(c, states) <=>
          \E s \in 0 .. N - 1 : \E w \in 1 .. W : L[s][w].status \in states /\ x = L[s][w].tag * N + s
    BY <1>3
  <2> QED
    BY <2>1, <2>2, <2>3
<1>6. Vector!BlocksWith(c, {2}) = D
  <2>1. \A x : x \in Vector!BlocksWith(c, {2}) <=>
          x \in Nat /\ \E w \in 1 .. W : At(L, N, x, w) /\ L[x % N][w].status \in {2}
    BY <1>5
  <2>2. \A x : x \in Vector!BlocksWith(c, {2}) <=> x \in D
    BY <1>1, <2>1 DEF Data
  <2> QED
    BY <2>2
<1>7. Vector!BlocksWith(c, {1, 2}) = K
  <2>1. \A x : x \in Vector!BlocksWith(c, {1, 2}) <=>
          x \in Nat /\ \E w \in 1 .. W : At(L, N, x, w) /\ L[x % N][w].status \in {1, 2}
    BY <1>5
  <2>2. \A x \in Nat, w \in 1 .. W : At(L, N, x, w) => L[x % N][w].status \in {1, 2}
    <3>1. \A x \in Nat : x % N \in 0 .. N - 1
      BY Split
    <3> QED
      BY <1>4, <3>1 DEF At
  <2>3. \A x : x \in Vector!BlocksWith(c, {1, 2}) <=> x \in K
    BY <1>1, <2>1, <2>2 DEF Data
  <2> QED
    BY <2>3
<1> QED
  BY <1>6, <1>7 DEF Vector!Existing, Vector!EXIST, Vector!DIRTY

LEMMA StateLists ==
  ASSUME NEW W \in Nat \ {0}, NEW N \in Nat \ {0}, NEW c, NEW K, NEW D, NEW r,
         State(c, W, N, K, D, r)
  PROVE  /\ \A s \in DOMAIN c.data : IsInjective(c.LRU_vector[s])
         /\ UNION {ToSet(c.LRU_vector[s]) : s \in DOMAIN c.data} = Kept(r)
         /\ Vector!ByList(c) = r
<1> DEFINE V == c.LRU_vector
<1>1. DOMAIN c.data = 0 .. N - 1 /\ Lists(V, N, r)
  BY DEF State, Data
<1>2. \A s \in 0 .. N - 1 : V[s] \in Seq(Block) /\ Apart(V[s])
  BY <1>1 DEF Lists
<1>3. \A x, y : <<x, y>> \in r <=> \E s \in 0 .. N - 1 : Listed(V[s], x, y)
  BY <1>1 DEF Lists
<1>4. r \subseteq Block \X Block
  BY <1>1 DEF Lists
<1>5. \A s \in 0 .. N - 1 : \A x : x \in ToSet(V[s]) <=> Listed(V[s], x, x)
  <2> SUFFICES ASSUME NEW s \in 0 .. N - 1, NEW x
               PROVE  x \in ToSet(V[s]) <=> Listed(V[s], x, x)
    OBVIOUS
  <2> DEFINE l == V[s]
  <2>1. l \in Seq(Block)
    BY <1>2
  <2> HIDE DEF l
  <2>2. Listed(l, x, x) <=> \E i \in 1 .. Len(l) : l[i] = x
    BY <2>1, ListedIn
  <2>3. DOMAIN l = 1 .. Len(l)
    BY <2>1
  <2>4. x \in ToSet(l) <=> \E i \in DOMAIN l : l[i] = x
    BY DEF ToSet
  <2> QED
    BY <2>2, <2>3, <2>4 DEF l
<1>6. UNION {ToSet(V[s]) : s \in 0 .. N - 1} = Kept(r)
  <2>1. \A x : x \in UNION {ToSet(V[s]) : s \in 0 .. N - 1} <=>
                 \E s \in 0 .. N - 1 : x \in ToSet(V[s])
    OBVIOUS
  <2>2. \A x : x \in Kept(r) <=> <<x, x>> \in r
    BY <1>4 DEF Kept, Has
  <2> HIDE DEF V
  <2>3. \A x : x \in UNION {ToSet(V[s]) : s \in 0 .. N - 1} <=> x \in Kept(r)
    BY <1>3, <1>5, <2>1, <2>2
  <2> QED
    BY <2>3
<1>7. Vector!ByList(c) = r
  <2> DEFINE T(s) == {<<V[s][p[1]], V[s][p[2]]>> :
                        p \in {q \in (DOMAIN V[s]) \X (DOMAIN V[s]) : q[1] >= q[2]}}
  <2>1. Vector!ByList(c) = UNION {T(s) : s \in 0 .. N - 1}
    BY <1>1 DEF Vector!ByList
  <2>2. \A s : T(s) = {z \in T(s) : \E x, y : z = <<x, y>>}
    OBVIOUS
  <2>3. \A s, x, y : <<x, y>> \in T(s) <=> Listed(V[s], x, y)
    <3> SUFFICES ASSUME NEW s, NEW x, NEW y
                 PROVE  <<x, y>> \in T(s) <=> Listed(V[s], x, y)
      OBVIOUS
    <3> DEFINE l == V[s]
    <3>1. <<x, y>> \in T(s) <=>
            \E p \in (DOMAIN l) \X (DOMAIN l) : p[1] >= p[2] /\ <<x, y>> = <<l[p[1]], l[p[2]]>>
      OBVIOUS
    <3> HIDE DEF l
    <3>2. (\E p \in (DOMAIN l) \X (DOMAIN l) : p[1] >= p[2] /\ <<x, y>> = <<l[p[1]], l[p[2]]>>)
            <=> \E i, j \in DOMAIN l : i >= j /\ l[i] = x /\ l[j] = y
      <4>1. ASSUME NEW p \in (DOMAIN l) \X (DOMAIN l), p[1] >= p[2], <<x, y>> = <<l[p[1]], l[p[2]]>>
            PROVE  \E i, j \in DOMAIN l : i >= j /\ l[i] = x /\ l[j] = y
        <5>1. p[1] \in DOMAIN l /\ p[2] \in DOMAIN l /\ l[p[1]] = x /\ l[p[2]] = y
          BY <4>1
        <5> QED
          BY <4>1, <5>1
      <4>2. ASSUME NEW i \in DOMAIN l, NEW j \in DOMAIN l, i >= j, l[i] = x, l[j] = y
            PROVE  \E p \in (DOMAIN l) \X (DOMAIN l) : p[1] >= p[2] /\ <<x, y>> = <<l[p[1]], l[p[2]]>>
        <5> DEFINE p == <<i, j>>
        <5>1. p \in (DOMAIN l) \X (DOMAIN l) /\ p[1] = i /\ p[2] = j
          OBVIOUS
        <5> HIDE DEF p
        <5>2. p[1] >= p[2] /\ <<x, y>> = <<l[p[1]], l[p[2]]>>
          BY <4>2, <5>1
        <5> QED
          BY <5>1, <5>2
      <4> QED
        BY <4>1, <4>2
    <3> QED
      BY <3>1, <3>2 DEF Listed, l
  <2> HIDE DEF T, V
  <2>4. \A z \in Vector!ByList(c) : \E x, y : z = <<x, y>>
    BY <2>1, <2>2
  <2>5. \A x, y : <<x, y>> \in Vector!ByList(c) <=> <<x, y>> \in r
    BY <1>3, <2>1, <2>3
  <2>6. \A z \in r : \E x, y : z = <<x, y>>
    BY <1>4
  <2> QED
    BY <2>4, <2>5, <2>6
<1>8. \A s \in DOMAIN c.data : IsInjective(c.LRU_vector[s])
  <2> HIDE DEF V
  <2>1. \A s \in 0 .. N - 1 : IsInjective(V[s])
    BY <1>2, Injective
  <2> QED
    BY <1>1, <2>1 DEF V
<1> QED
  BY <1>1, <1>6, <1>7, <1>8

LEMMA ShellyInvMatches == HierarchyInv /\ ShellyInv => VectorConsistent /\ VectorMatches
<1> USE LevelSizes
<1> SUFFICES ASSUME HierarchyInv, ShellyInv, program = "Shelly", lucky
             PROVE  VectorConsistent /\ VectorMatches
  BY DEF VectorConsistent, VectorMatches
<1>1. Both(vector, Kept(recent1), dirty1, recent1, Kept(recent2), recent2)
  BY DEF ShellyInv, Agree
<1> DEFINE c1 == vector.L1
           c2 == vector.L2
<1>2. ~vector.crashed
  BY <1>1 DEF Both, Whole
<1>3. State(c1, L1Ways, L1Sets, Kept(recent1), dirty1, recent1)
  BY <1>1 DEF Both
<1>4. PICK e : State(c2, L2Ways, L2Sets, Kept(recent2), e, recent2)
  BY <1>1 DEF Both, Below
<1> HIDE DEF c1, c2
<1>5. /\ Vector!Existing(c1) = Kept(recent1)
      /\ Vector!BlocksWith(c1, {Vector!DIRTY}) = dirty1
  BY <1>3, StateBlocks
<1>6. Vector!Existing(c2) = Kept(recent2)
  BY <1>4, StateBlocks
<1>7. /\ \A s \in DOMAIN c1.data : IsInjective(c1.LRU_vector[s])
      /\ UNION {ToSet(c1.LRU_vector[s]) : s \in DOMAIN c1.data} = Kept(recent1)
      /\ Vector!ByList(c1) = recent1
  BY <1>3, StateLists
<1>8. /\ \A s \in DOMAIN c2.data : IsInjective(c2.LRU_vector[s])
      /\ UNION {ToSet(c2.LRU_vector[s]) : s \in DOMAIN c2.data} = Kept(recent2)
      /\ Vector!ByList(c2) = recent2
  BY <1>4, StateLists
<1>9. Kept(recent1) \subseteq Kept(recent2)
  BY DEF HierarchyInv
<1>10. VectorConsistent
  <2>1. Vector!Existing(c1) \subseteq Vector!Existing(c2)
    BY <1>5, <1>6, <1>9
  <2>2. \A c \in {c1, c2} :
          /\ \A s \in DOMAIN c.data : IsInjective(c.LRU_vector[s])
          /\ UNION {ToSet(c.LRU_vector[s]) : s \in DOMAIN c.data} = Vector!Existing(c)
    BY <1>5, <1>6, <1>7, <1>8
  <2> QED
    BY <1>2, <2>1, <2>2 DEF VectorConsistent, c1, c2
<1>11. VectorMatches
  BY <1>5, <1>7, <1>8 DEF VectorMatches, c1, c2
<1> QED
  BY <1>10, <1>11

LEMMA ShellyInvCorrect ==
  ASSUME WrAllocs \subseteq {0, 1}
  PROVE  SimsSpec => [](VectorConsistent /\ VectorMatches)
<1>1. SimsInit => ShellyInv
  BY ShellyInvInit
<1> QED
  BY <1>1, ShellyInvStep, ShellyInvMatches, HierarchyInvCorrect, PTL DEF SimsSpec

(* CacheSimShelly, on any trace, with any number of sets and ways: the     *)
(* data and the lists, which different functions update, name the same     *)
(* blocks, no list names one twice, and L1 stays included in L2 - as long  *)
(* as the set changeToX leaves uninitialised happens to be the right one.  *)
THEOREM VectorConsistentCorrect ==
  ASSUME WrAllocs \subseteq {0, 1} PROVE SimsSpec => []VectorConsistent
<1>1. SimsSpec => [](VectorConsistent /\ VectorMatches)
  BY ShellyInvCorrect
<1> QED
  BY <1>1, PTL

(* Under the same condition its lists order the blocks by their last use   *)
(* as an LRU hierarchy does which, on a hit in L2, uses the dirty block    *)
(* that leaves L1 before the block hit; L1's dirty states are the          *)
(* hierarchy's, so every dirty block L1 evicts is noticed.                 *)
THEOREM VectorMatchesCorrect ==
  ASSUME WrAllocs \subseteq {0, 1} PROVE SimsSpec => []VectorMatches
<1>1. SimsSpec => [](VectorConsistent /\ VectorMatches)
  BY ShellyInvCorrect
<1> QED
  BY <1>1, PTL
=============================================================================
