---------------------------- MODULE CacheSim_proofs ----------------------------
(***************************************************************************)
(* The two-level cache keeps every block in one place, in L2 whenever in   *)
(* L1, and loses no write, for every number of ways and sets.              *)
(*                                                                         *)
(* What a search and a change of one entry do is proved once, for a level  *)
(* L of W ways and N sets; then each operation of the cache is shown to    *)
(* keep the two levels sound, with its effect on the blocks and the dirty  *)
(* blocks of each.                                                         *)
(***************************************************************************)
EXTENDS CacheSim, Induction_proofs

Entries ==
  [valid : BOOLEAN, dirty : BOOLEAN, tag : Nat,
   last_accessed_time : 0 .. UintMax, address : Nat]

Levels(W, N) == [0 .. W - 1 -> [0 .. N - 1 -> Entries]]

(* Entry e is where the searches look for its block. *)
Suits(e, s, N) ==
  /\ e.address \in Block
  /\ e.address % N = s
  /\ e.tag = e.address \div N

(* A level in which every block has one place, and no entry carries the    *)
(* time the search for a victim starts from.                               *)
Sound(L, W, N) ==
  /\ L \in Levels(W, N)
  /\ \A w \in 0 .. W - 1, s \in 0 .. N - 1 :
       /\ L[w][s].valid => Suits(L[w][s], s, N)
       /\ L[w][s].last_accessed_time < UintMax
  /\ \A w, v \in 0 .. W - 1, s \in 0 .. N - 1 :
       L[w][s].valid /\ L[v][s].valid /\ L[w][s].address = L[v][s].address => w = v

At(L, w, b, N) == L[w][b % N].valid /\ L[w][b % N].address = b

In(L, W, N)   == {b \in Block : \E w \in 0 .. W - 1 : At(L, w, b, N)}
Dirt(L, W, N) == {b \in Block : \E w \in 0 .. W - 1 : At(L, w, b, N) /\ L[w][b % N].dirty}

(* The block an entry holds. *)
Held(e) == IF e.valid THEN {e.address} ELSE {}
HeldDirty(e) == IF e.valid /\ e.dirty THEN {e.address} ELSE {}
-----------------------------------------------------------------------------
LEMMA SetOf ==
  ASSUME NEW N \in Nat \ {0}, NEW b \in Block
  PROVE  b \in Nat /\ b % N \in 0 .. N - 1 /\ b \div N \in Nat
<1>1. b \in Nat
  BY BlockAssumption
<1>2. b % N \in 0 .. N - 1
  BY <1>1
<1>3. b \div N \in Nat
  BY <1>1
<1> QED
  BY <1>1, <1>2, <1>3

(* An address is its tag and its set. *)
LEMMA SameAddress ==
  ASSUME NEW N \in Nat \ {0}, NEW a \in Nat, NEW b \in Nat,
         a % N = b % N, a \div N = b \div N
  PROVE  a = b
<1>1. a = N * (a \div N) + (a % N)
  OBVIOUS
<1>2. b = N * (b \div N) + (b % N)
  OBVIOUS
<1> QED
  BY <1>1, <1>2

(* The searches: for the block of an address, and for a way to put it in.  *)
Least(T) == CHOOSE x \in T : \A y \in T : x =< y

Hits(L, W, N, b) ==
  {w \in 0 .. W - 1 : L[w][b % N].valid /\ L[w][b % N].tag = b \div N}
Find(L, W, N, b) == IF Hits(L, W, N, b) = {} THEN -1 ELSE Least(Hits(L, W, N, b))

Free(L, W, s) == {w \in 0 .. W - 1 : ~L[w][s].valid}
Oldest(L, W, s) ==
  {w \in 0 .. W - 1 : /\ L[w][s].last_accessed_time < UintMax
                      /\ \A v \in 0 .. W - 1 :
                           L[w][s].last_accessed_time <= L[v][s].last_accessed_time}
Spot(L, W, s) ==
  IF Free(L, W, s) # {} THEN Least(Free(L, W, s))
  ELSE IF Oldest(L, W, s) # {} THEN Least(Oldest(L, W, s)) ELSE -1

LEMMA LeastIn == ASSUME NEW T, T \subseteq Nat, T # {} PROVE Least(T) \in T
  BY LeastNumber DEF Least

(* In a sound level the search for a block finds it exactly when it is     *)
(* there.                                                                  *)
LEMMA FindRight ==
  ASSUME NEW W \in Nat \ {0}, NEW N \in Nat \ {0}, NEW L, Sound(L, W, N), NEW b \in Block
  PROVE  /\ b \notin In(L, W, N) <=> Find(L, W, N, b) = -1
         /\ b \in In(L, W, N) => /\ Find(L, W, N, b) \in 0 .. W - 1
                                 /\ At(L, Find(L, W, N, b), b, N)
<1> DEFINE s == b % N
<1>1. b \in Nat /\ s \in 0 .. N - 1
  BY SetOf
<1>2. ASSUME NEW w \in 0 .. W - 1 PROVE w \in Hits(L, W, N, b) <=> At(L, w, b, N)
  <2>1. L[w] \in [0 .. N - 1 -> Entries] /\ L[w][s] \in Entries
    BY <1>1 DEF Sound, Levels
  <2>2. L[w][s].valid => Suits(L[w][s], s, N)
    BY <1>1 DEF Sound
  <2>3. L[w][s].address \in Nat
    BY <2>1 DEF Entries
  <2>4. L[w][s].valid => (L[w][s].tag = b \div N <=> L[w][s].address = b)
    BY <1>1, <2>2, <2>3, SameAddress DEF Suits
  <2> QED
    BY <2>4 DEF Hits, At
<1>3. Hits(L, W, N, b) \subseteq 0 .. W - 1
  BY DEF Hits
<1>4. Hits(L, W, N, b) = {} <=> b \notin In(L, W, N)
  BY <1>2, <1>3 DEF In
<1>5. Hits(L, W, N, b) # {} => Least(Hits(L, W, N, b)) \in Hits(L, W, N, b)
  <2>1. Hits(L, W, N, b) \subseteq Nat
    BY <1>3
  <2> QED
    BY <2>1, LeastIn
<1> QED
  BY <1>2, <1>3, <1>4, <1>5 DEF Find

(* And there is always a way to put a block in. *)
LEMMA SpotRight ==
  ASSUME NEW W \in Nat \ {0}, NEW N \in Nat \ {0}, NEW L, Sound(L, W, N), NEW b \in Block
  PROVE  Spot(L, W, b % N) \in 0 .. W - 1
<1> DEFINE s == b % N
           time(w) == L[w][s].last_accessed_time
           T == {time(w) : w \in 0 .. W - 1}
<1>1. s \in 0 .. N - 1
  BY SetOf
<1>2. \A w \in 0 .. W - 1 : time(w) \in Nat /\ time(w) < UintMax
  <2> TAKE w \in 0 .. W - 1
  <2>1. L[w] \in [0 .. N - 1 -> Entries] /\ L[w][s] \in Entries
    BY <1>1 DEF Sound, Levels
  <2>2. L[w][s].last_accessed_time < UintMax
    BY <1>1 DEF Sound
  <2> QED
    BY <2>1, <2>2 DEF Entries
<1>3. T \subseteq Nat /\ T # {}
  BY <1>2
<1>4. PICK x \in T : \A y \in T : x <= y
  <2> HIDE DEF T
  <2> QED
    BY <1>3, LeastNumber
<1>5. PICK w \in 0 .. W - 1 : x = time(w)
  BY <1>4
<1>6. w \in Oldest(L, W, s)
  BY <1>2, <1>4, <1>5 DEF Oldest
<1>7. Free(L, W, s) \subseteq Nat /\ Oldest(L, W, s) \subseteq Nat
  BY DEF Free, Oldest
<1>8. Free(L, W, s) # {} => Least(Free(L, W, s)) \in Free(L, W, s)
  BY <1>7, LeastIn
<1>9. Least(Oldest(L, W, s)) \in Oldest(L, W, s)
  BY <1>6, <1>7, LeastIn
<1> QED
  BY <1>6, <1>8, <1>9 DEF Spot, Free, Oldest

(* K is L with one entry changed. *)
Changed(K, L, w, s, e) == K = [L EXCEPT ![w][s] = e]

(* K is sound, and holds what L does but for the blocks that left and came. *)
Holding(K, L, W, N, out, came, dirty) ==
  /\ Sound(K, W, N)
  /\ In(K, W, N) = (In(L, W, N) \ out) \cup came
  /\ Dirt(K, W, N) = (Dirt(L, W, N) \ out) \cup dirty

(* What that does to the blocks of a level. *)
LEMMA SetEntry ==
  ASSUME NEW W \in Nat \ {0}, NEW N \in Nat \ {0}, NEW L, Sound(L, W, N),
         NEW w \in 0 .. W - 1, NEW s \in 0 .. N - 1, NEW e \in Entries,
         e.last_accessed_time < UintMax,
         e.valid => Suits(e, s, N),
         e.valid /\ e.address \in In(L, W, N) => e.address \in Held(L[w][s]),
         NEW K, Changed(K, L, w, s, e)
  PROVE  Holding(K, L, W, N, Held(L[w][s]), Held(e), HeldDirty(e))
<1> DEFINE old == L[w][s]
<1>1. /\ K \in Levels(W, N)
      /\ K[w][s] = e
      /\ \A v \in 0 .. W - 1, r \in 0 .. N - 1 : <<v, r>> # <<w, s>> => K[v][r] = L[v][r]
  BY DEF Sound, Levels, Changed
<1>2. \A v \in 0 .. W - 1, r \in 0 .. N - 1 :
        /\ L[v][r].valid => Suits(L[v][r], r, N)
        /\ L[v][r].last_accessed_time < UintMax
  BY DEF Sound
<1>3. \A v \in 0 .. W - 1, r \in 0 .. N - 1 :
        /\ K[v][r].valid => Suits(K[v][r], r, N)
        /\ K[v][r].last_accessed_time < UintMax
  BY <1>1, <1>2
<1>4. \A v \in 0 .. W - 1 : L[v][s].valid /\ L[v][s].address \in Held(old) => v = w
  BY DEF Sound, Held
<1>5. \A v \in 0 .. W - 1 : v # w /\ L[v][s].valid /\ e.valid => L[v][s].address # e.address
  <2> SUFFICES ASSUME NEW v \in 0 .. W - 1, v # w, L[v][s].valid, e.valid,
                      L[v][s].address = e.address
               PROVE  FALSE
    OBVIOUS
  <2>1. e.address \in Block /\ e.address % N = s
    BY DEF Suits
  <2>2. e.address \in In(L, W, N)
    BY <2>1 DEF In, At
  <2> QED
    BY <1>4, <2>2
<1>6. \A u, v \in 0 .. W - 1, r \in 0 .. N - 1 :
        K[u][r].valid /\ K[v][r].valid /\ K[u][r].address = K[v][r].address => u = v
  BY <1>1, <1>5 DEF Sound
<1>7. Sound(K, W, N)
  BY <1>1, <1>3, <1>6 DEF Sound
<1>8. ASSUME NEW b \in Block
      PROVE  /\ b \in In(K, W, N) <=> (b \in In(L, W, N) /\ b \notin Held(old)) \/ b \in Held(e)
             /\ b \in Dirt(K, W, N) <=>
                  (b \in Dirt(L, W, N) /\ b \notin Held(old)) \/ b \in HeldDirty(e)
  <2>1. b % N \in 0 .. N - 1
    BY SetOf
  <2>2. CASE b % N # s
    <3>1. \A v \in 0 .. W - 1 : K[v][b % N] = L[v][b % N]
      BY <1>1, <2>1, <2>2
    <3>2. b \notin Held(old) /\ b \notin Held(e) /\ b \notin HeldDirty(e)
      BY <1>2, <2>2 DEF Held, HeldDirty, Suits
    <3> QED
      BY <3>1, <3>2 DEF In, Dirt, At
  <2>3. CASE b % N = s
    <3>1. \A v \in 0 .. W - 1 : v # w => (At(K, v, b, N) <=> At(L, v, b, N))
                                         /\ K[v][s].dirty = L[v][s].dirty
      BY <1>1, <2>3 DEF At
    <3>2. At(K, w, b, N) <=> b \in Held(e)
      BY <1>1, <2>3 DEF At, Held
    <3>3. At(L, w, b, N) <=> b \in Held(old)
      BY <2>3 DEF At, Held
    <3>4. \A v \in 0 .. W - 1 : At(L, v, b, N) /\ b \in Held(old) => v = w
      BY <1>4, <2>3 DEF At
    <3>5. K[w][s].dirty /\ At(K, w, b, N) <=> b \in HeldDirty(e)
      BY <1>1, <2>3 DEF At, HeldDirty
    <3>6. b \in In(K, W, N) <=> (b \in In(L, W, N) /\ b \notin Held(old)) \/ b \in Held(e)
      BY <3>1, <3>2, <3>3, <3>4 DEF In
    <3>7. b \in Dirt(K, W, N) <=>
            (b \in Dirt(L, W, N) /\ b \notin Held(old)) \/ b \in HeldDirty(e)
      BY <2>3, <3>1, <3>3, <3>4, <3>5 DEF Dirt
    <3> QED
      BY <3>6, <3>7
  <2> QED
    BY <2>2, <2>3
<1>9. In(K, W, N) \subseteq Block /\ In(L, W, N) \subseteq Block
      /\ Dirt(K, W, N) \subseteq Block /\ Dirt(L, W, N) \subseteq Block
      /\ Held(e) \subseteq Block /\ HeldDirty(e) \subseteq Block
  BY DEF In, Dirt, Held, HeldDirty, Suits
<1> QED
  BY <1>7, <1>8, <1>9 DEF Holding

HeldRight(L, W, N, e) ==
  /\ e \in Entries
  /\ e.last_accessed_time < UintMax
  /\ Held(e) \subseteq In(L, W, N)
  /\ Dirt(L, W, N) \cap Held(e) = HeldDirty(e)

LEMMA HeldIn ==
  ASSUME NEW W \in Nat \ {0}, NEW N \in Nat \ {0}, NEW L, Sound(L, W, N),
         NEW w \in 0 .. W - 1, NEW s \in 0 .. N - 1
  PROVE  HeldRight(L, W, N, L[w][s])
<1>1. /\ L[w] \in [0 .. N - 1 -> Entries] /\ L[w][s] \in Entries
      /\ L[w][s].last_accessed_time < UintMax
  BY DEF Sound, Levels
<1>2. L[w][s].valid => Suits(L[w][s], s, N)
  BY DEF Sound
<1>3. \A v \in 0 .. W - 1 : L[v][s].valid /\ L[v][s].address \in Held(L[w][s]) => v = w
  BY DEF Sound, Held
<1> QED
  BY <1>1, <1>2, <1>3 DEF HeldRight, Held, HeldDirty, In, Dirt, At, Suits

(* A change that leaves the entry's block, and what is dirty of it. *)
SameBlock(e, old) == e.valid = old.valid /\ e.tag = old.tag /\ e.address = old.address

LEMMA ChangeEntry ==
  ASSUME NEW W \in Nat \ {0}, NEW N \in Nat \ {0}, NEW L, Sound(L, W, N),
         NEW w \in 0 .. W - 1, NEW s \in 0 .. N - 1, NEW e \in Entries,
         e.last_accessed_time < UintMax,
         SameBlock(e, L[w][s]),
         L[w][s].dirty => e.dirty,
         NEW K, Changed(K, L, w, s, e)
  PROVE  /\ Holding(K, L, W, N, {}, {}, HeldDirty(e))
         /\ e.dirty = L[w][s].dirty => Holding(K, L, W, N, {}, {}, {})
         /\ \A v \in 0 .. W - 1, b \in Block : At(L, v, b, N) => At(K, v, b, N)
<1>1. HeldRight(L, W, N, L[w][s])
  BY HeldIn, Zenon
<1>2. Held(e) = Held(L[w][s]) /\ (e.dirty = L[w][s].dirty => HeldDirty(e) = HeldDirty(L[w][s]))
  BY DEF Held, HeldDirty, SameBlock
<1>3. L[w][s].valid => Suits(L[w][s], s, N)
  BY DEF Sound
<1>4. e.valid => Suits(e, s, N) /\ e.address \in Held(L[w][s])
  BY <1>3 DEF Suits, Held, SameBlock
<1>5. Holding(K, L, W, N, Held(L[w][s]), Held(e), HeldDirty(e))
  BY <1>4, SetEntry, Zenon
<1>6. ASSUME NEW v \in 0 .. W - 1, NEW b \in Block, At(L, v, b, N) PROVE At(K, v, b, N)
  <2>1. b % N \in 0 .. N - 1
    BY SetOf
  <2>2. L \in Levels(W, N)
    BY DEF Sound
  <2>3. K[v][b % N] = IF v = w /\ b % N = s THEN e ELSE L[v][b % N]
    BY <2>1, <2>2 DEF Levels, Changed
  <2> QED
    BY <1>6, <2>3 DEF At, SameBlock
<1>7. HeldDirty(L[w][s]) \subseteq HeldDirty(e)
  BY DEF HeldDirty, SameBlock
<1>8. Holding(K, L, W, N, {}, {}, HeldDirty(e))
  BY <1>1, <1>2, <1>5, <1>7 DEF Holding, HeldRight
<1>9. e.dirty = L[w][s].dirty => Holding(K, L, W, N, {}, {}, {})
  BY <1>1, <1>2, <1>5 DEF Holding, HeldRight
<1> QED
  BY <1>6, <1>8, <1>9

(* An entry that is emptied, and one that takes a new block. *)
LEMMA DropEntry ==
  ASSUME NEW W \in Nat \ {0}, NEW N \in Nat \ {0}, NEW L, Sound(L, W, N),
         NEW w \in 0 .. W - 1, NEW s \in 0 .. N - 1,
         NEW K, Changed(K, L, w, s, [L[w][s] EXCEPT !.valid = FALSE])
  PROVE  Holding(K, L, W, N, Held(L[w][s]), {}, {})
<1> DEFINE e == [L[w][s] EXCEPT !.valid = FALSE]
<1>1. HeldRight(L, W, N, L[w][s])
  BY HeldIn, Zenon
<1>2. e \in Entries /\ ~e.valid /\ e.last_accessed_time < UintMax
  BY <1>1 DEF Entries, HeldRight
<1>3. Held(e) = {} /\ HeldDirty(e) = {}
  BY <1>2 DEF Held, HeldDirty
<1>4. Changed(K, L, w, s, e)
  OBVIOUS
<1>5. Holding(K, L, W, N, Held(L[w][s]), Held(e), HeldDirty(e))
  <2> HIDE DEF e
  <2> QED
    BY <1>2, <1>4, SetEntry, Zenon
<1> QED
  BY <1>3, <1>5, Zenon

LEMMA PutEntry ==
  ASSUME NEW W \in Nat \ {0}, NEW N \in Nat \ {0}, NEW L, Sound(L, W, N),
         NEW w \in 0 .. W - 1, NEW b \in Block, b \notin In(L, W, N),
         NEW t \in 0 .. UintMax, t < UintMax,
         NEW K, Changed(K, L, w, b % N, Fresh(b \div N, t, b))
  PROVE  /\ Holding(K, L, W, N, Held(L[w][b % N]), {b}, {})
         /\ At(K, w, b, N)
<1> DEFINE e == Fresh(b \div N, t, b)
<1>1. b \in Nat /\ b % N \in 0 .. N - 1 /\ b \div N \in Nat
  BY SetOf
<1>2. e \in Entries
  BY <1>1 DEF Entries, Fresh
<1>3. /\ e.valid /\ ~e.dirty /\ e.last_accessed_time < UintMax
      /\ e.address = b /\ Suits(e, b % N, N)
  BY DEF Fresh, Suits
<1>4. Held(e) = {b} /\ HeldDirty(e) = {}
  BY <1>3 DEF Held, HeldDirty
<1> HIDE DEF e
<1>5. Changed(K, L, w, b % N, e)
  BY DEF e
<1>6. At(K, w, b, N)
  <2>1. L \in Levels(W, N)
    BY DEF Sound
  <2>2. K[w][b % N] = e
    BY <1>1, <1>5, <2>1 DEF Levels, Changed
  <2> QED
    BY <1>3, <2>2 DEF At
<1>7. Holding(K, L, W, N, Held(L[w][b % N]), Held(e), HeldDirty(e))
  BY <1>1, <1>2, <1>3, <1>5, SetEntry, Zenon
<1> QED
  BY <1>4, <1>6, <1>7, Zenon
-----------------------------------------------------------------------------
(* The two levels.                                                         *)
Caches ==
  [l1 : Levels(L1Ways, L1Sets), l2 : Levels(L2Ways, L2Sets),
   pseudo_cycle : 0 .. UintMax, crashed : BOOLEAN]

B1(c) == In(c.l1, L1Ways, L1Sets)
B2(c) == In(c.l2, L2Ways, L2Sets)
D1(c) == Dirt(c.l1, L1Ways, L1Sets)
D2(c) == Dirt(c.l2, L2Ways, L2Sets)

At1(c, w, b) == w \in 0 .. L1Ways - 1 /\ At(c.l1, w, b, L1Sets)
At2(c, w, b) == w \in 0 .. L2Ways - 1 /\ At(c.l2, w, b, L2Sets)

(* What every operation finds and leaves. *)
Good(c) ==
  /\ c \in Caches
  /\ Sound(c.l1, L1Ways, L1Sets)
  /\ Sound(c.l2, L2Ways, L2Sets)
  /\ ~c.crashed
  /\ B1(c) \subseteq B2(c)

(* d is c with what left and what came to each level, n ticks later. *)
Moved1(c, d, out, came, dirty) ==
  Holding(d.l1, c.l1, L1Ways, L1Sets, out, came, dirty)
Moved2(c, d, out, came, dirty) ==
  Holding(d.l2, c.l2, L2Ways, L2Sets, out, came, dirty)
Later(c, d, n) == d \in Caches /\ ~d.crashed /\ d.pseudo_cycle = c.pseudo_cycle + n

LEMMA Geometry ==
  /\ L1Ways \in Nat \ {0} /\ L1Sets \in Nat \ {0}
  /\ L2Ways \in Nat \ {0} /\ L2Sets \in Nat \ {0}
  /\ UintMax \in Nat
  BY GeometryAssumption

LEMMA TickOne == \A n \in 0 .. UintMax : n < UintMax => Tick(n) = n + 1 /\ Tick(n) \in 0 .. UintMax
  BY Geometry DEF Tick

LEMMA Search1 ==
  ASSUME NEW L, NEW b
  PROVE  /\ L1!blockExists(L, b) = Find(L, L1Ways, L1Sets, b)
         /\ L1!getEntryForNewBlock(L, b) = Spot(L, L1Ways, b % L1Sets)
         /\ L1!getSet(b) = b % L1Sets /\ L1!getTag(b) = b \div L1Sets /\ L1!NULL = -1
<1>1. L1!blockExists(L, b) = Find(L, L1Ways, L1Sets, b)
  BY DEF L1!blockExists, Find, Hits, L1!Ways, L1!getSet, L1!getTag, L1!NULL, L1!Min, Least
<1>2. L1!getEntryForNewBlock(L, b) = Spot(L, L1Ways, b % L1Sets)
  BY DEF L1!getEntryForNewBlock, Spot, Free, Oldest, L1!Ways, L1!getSet, L1!NULL, L1!Min, Least
<1> QED
  BY <1>1, <1>2 DEF L1!getSet, L1!getTag, L1!NULL

LEMMA Search2 ==
  ASSUME NEW L, NEW b
  PROVE  /\ L2!blockExists(L, b) = Find(L, L2Ways, L2Sets, b)
         /\ L2!getEntryForNewBlock(L, b) = Spot(L, L2Ways, b % L2Sets)
         /\ L2!getSet(b) = b % L2Sets /\ L2!getTag(b) = b \div L2Sets /\ L2!NULL = -1
<1>1. L2!blockExists(L, b) = Find(L, L2Ways, L2Sets, b)
  BY DEF L2!blockExists, Find, Hits, L2!Ways, L2!getSet, L2!getTag, L2!NULL, L2!Min, Least
<1>2. L2!getEntryForNewBlock(L, b) = Spot(L, L2Ways, b % L2Sets)
  BY DEF L2!getEntryForNewBlock, Spot, Free, Oldest, L2!Ways, L2!getSet, L2!NULL, L2!Min, Least
<1> QED
  BY <1>1, <1>2 DEF L2!getSet, L2!getTag, L2!NULL

(* The searches of the two levels, in a good cache. *)
LEMMA Found1 ==
  ASSUME NEW c, Good(c), NEW b \in Block
  PROVE  /\ b \notin B1(c) <=> L1!blockExists(c.l1, b) = L1!NULL
         /\ b \in B1(c) => At1(c, L1!blockExists(c.l1, b), b)
         /\ L1!getEntryForNewBlock(c.l1, b) \in 0 .. L1Ways - 1
<1>1. Sound(c.l1, L1Ways, L1Sets)
  BY DEF Good
<1> QED
  BY <1>1, Geometry, Search1, FindRight, SpotRight DEF B1, At1

LEMMA Found2 ==
  ASSUME NEW c, Good(c), NEW b \in Block
  PROVE  /\ b \notin B2(c) <=> L2!blockExists(c.l2, b) = L2!NULL
         /\ b \in B2(c) => At2(c, L2!blockExists(c.l2, b), b)
         /\ L2!getEntryForNewBlock(c.l2, b) \in 0 .. L2Ways - 1
<1>1. Sound(c.l2, L2Ways, L2Sets)
  BY DEF Good
<1> QED
  BY <1>1, Geometry, Search2, FindRight, SpotRight DEF B2, At2
-----------------------------------------------------------------------------
(* The operations of a level on an entry of the cache.                     *)
LEMMA FieldsOf ==
  ASSUME NEW c \in Caches
  PROVE  /\ c.l1 \in Levels(L1Ways, L1Sets) /\ c.l2 \in Levels(L2Ways, L2Sets)
         /\ c.pseudo_cycle \in 0 .. UintMax /\ c.crashed \in BOOLEAN
  BY DEF Caches

LEMMA Entry1 ==
  ASSUME NEW c, Good(c), NEW b \in Block, NEW w \in 0 .. L1Ways - 1
  PROVE  /\ b % L1Sets \in 0 .. L1Sets - 1
         /\ HeldRight(c.l1, L1Ways, L1Sets, c.l1[w][b % L1Sets])
         /\ c.l1[w][b % L1Sets] \in Entries
<1>1. b % L1Sets \in 0 .. L1Sets - 1
  BY Geometry, SetOf
<1>2. Sound(c.l1, L1Ways, L1Sets)
  BY DEF Good
<1>3. HeldRight(c.l1, L1Ways, L1Sets, c.l1[w][b % L1Sets])
  BY <1>1, <1>2, Geometry, HeldIn, Zenon
<1> QED
  BY <1>1, <1>3 DEF HeldRight

LEMMA Entry2 ==
  ASSUME NEW c, Good(c), NEW b \in Block, NEW w \in 0 .. L2Ways - 1
  PROVE  /\ b % L2Sets \in 0 .. L2Sets - 1
         /\ HeldRight(c.l2, L2Ways, L2Sets, c.l2[w][b % L2Sets])
         /\ c.l2[w][b % L2Sets] \in Entries
<1>1. b % L2Sets \in 0 .. L2Sets - 1
  BY Geometry, SetOf
<1>2. Sound(c.l2, L2Ways, L2Sets)
  BY DEF Good
<1>3. HeldRight(c.l2, L2Ways, L2Sets, c.l2[w][b % L2Sets])
  BY <1>1, <1>2, Geometry, HeldIn, Zenon
<1> QED
  BY <1>1, <1>3 DEF HeldRight

LEMMA TouchL1Right ==
  ASSUME NEW c, Good(c), c.pseudo_cycle < UintMax, NEW b \in Block, NEW w \in 0 .. L1Ways - 1,
         NEW d, d = TouchL1(c, w, b)
  PROVE  /\ Later(c, d, 1)
         /\ d.l2 = c.l2
         /\ Moved1(c, d, {}, {}, {})
         /\ \A x \in Block : \A v : At1(c, v, x) => At1(d, v, x)
         /\ Changed(d.l1, c.l1, w, b % L1Sets,
                    [c.l1[w][b % L1Sets] EXCEPT !.last_accessed_time = c.pseudo_cycle])
<1> DEFINE s == b % L1Sets
           e == [c.l1[w][s] EXCEPT !.last_accessed_time = c.pseudo_cycle]
<1>1. /\ c \in Caches /\ ~c.crashed /\ Sound(c.l1, L1Ways, L1Sets)
      /\ c.l1 \in Levels(L1Ways, L1Sets)
      /\ c.pseudo_cycle \in 0 .. UintMax /\ Tick(c.pseudo_cycle) = c.pseudo_cycle + 1
      /\ Tick(c.pseudo_cycle) \in 0 .. UintMax
  BY FieldsOf, TickOne DEF Good
<1>2. s \in 0 .. L1Sets - 1 /\ c.l1[w][s] \in Entries
  BY Entry1
<1>3. /\ e \in Entries /\ e.last_accessed_time < UintMax /\ SameBlock(e, c.l1[w][s])
      /\ e.dirty = c.l1[w][s].dirty
  BY <1>1, <1>2 DEF Entries, SameBlock
<1>4. d = [c EXCEPT !.l1[w][s].last_accessed_time = c.pseudo_cycle,
                    !.pseudo_cycle = Tick(c.pseudo_cycle)]
  BY <1>1, Search1 DEF TouchL1, Caches
<1>5. /\ d.l1 = [c.l1 EXCEPT ![w][s] = e] /\ d.l2 = c.l2
      /\ d.pseudo_cycle = Tick(c.pseudo_cycle) /\ d.crashed = c.crashed
      /\ d = [l1 |-> d.l1, l2 |-> d.l2, pseudo_cycle |-> d.pseudo_cycle, crashed |-> d.crashed]
  BY <1>1, <1>4 DEF Caches
<1> HIDE DEF e
<1>6. Changed(d.l1, c.l1, w, s, e)
  BY <1>5 DEF Changed
<1>7. /\ Holding(d.l1, c.l1, L1Ways, L1Sets, {}, {}, {})
      /\ \A v \in 0 .. L1Ways - 1, x \in Block : At(c.l1, v, x, L1Sets) => At(d.l1, v, x, L1Sets)
  BY <1>1, <1>2, <1>3, <1>6, Geometry, ChangeEntry, Zenon
<1>8. d \in Caches
  <2>1. d.l1 \in Levels(L1Ways, L1Sets)
    BY <1>7 DEF Holding, Sound
  <2> QED
    BY <1>1, <1>5, <2>1, FieldsOf DEF Caches
<1>9. Changed(d.l1, c.l1, w, s, [c.l1[w][s] EXCEPT !.last_accessed_time = c.pseudo_cycle])
  BY <1>6 DEF e
<1> QED
  BY <1>1, <1>5, <1>7, <1>8, <1>9 DEF Later, Moved1, At1

LEMMA TouchL2Right ==
  ASSUME NEW c, Good(c), c.pseudo_cycle < UintMax, NEW b \in Block, NEW w \in 0 .. L2Ways - 1,
         NEW d, d = TouchL2(c, w, b)
  PROVE  /\ Later(c, d, 1)
         /\ d.l1 = c.l1
         /\ Moved2(c, d, {}, {}, {})
         /\ \A x \in Block : \A v : At2(c, v, x) => At2(d, v, x)
         /\ Changed(d.l2, c.l2, w, b % L2Sets,
                    [c.l2[w][b % L2Sets] EXCEPT !.last_accessed_time = c.pseudo_cycle])
<1> DEFINE s == b % L2Sets
           e == [c.l2[w][s] EXCEPT !.last_accessed_time = c.pseudo_cycle]
<1>1. /\ c \in Caches /\ ~c.crashed /\ Sound(c.l2, L2Ways, L2Sets)
      /\ c.l2 \in Levels(L2Ways, L2Sets)
      /\ c.pseudo_cycle \in 0 .. UintMax /\ Tick(c.pseudo_cycle) = c.pseudo_cycle + 1
      /\ Tick(c.pseudo_cycle) \in 0 .. UintMax
  BY FieldsOf, TickOne DEF Good
<1>2. s \in 0 .. L2Sets - 1 /\ c.l2[w][s] \in Entries
  BY Entry2
<1>3. /\ e \in Entries /\ e.last_accessed_time < UintMax /\ SameBlock(e, c.l2[w][s])
      /\ e.dirty = c.l2[w][s].dirty
  BY <1>1, <1>2 DEF Entries, SameBlock
<1>4. d = [c EXCEPT !.l2[w][s].last_accessed_time = c.pseudo_cycle,
                    !.pseudo_cycle = Tick(c.pseudo_cycle)]
  BY <1>1, Search2 DEF TouchL2, Caches
<1>5. /\ d.l2 = [c.l2 EXCEPT ![w][s] = e] /\ d.l1 = c.l1
      /\ d.pseudo_cycle = Tick(c.pseudo_cycle) /\ d.crashed = c.crashed
      /\ d = [l1 |-> d.l1, l2 |-> d.l2, pseudo_cycle |-> d.pseudo_cycle, crashed |-> d.crashed]
  BY <1>1, <1>4 DEF Caches
<1> HIDE DEF e
<1>6. Changed(d.l2, c.l2, w, s, e)
  BY <1>5 DEF Changed
<1>7. /\ Holding(d.l2, c.l2, L2Ways, L2Sets, {}, {}, {})
      /\ \A v \in 0 .. L2Ways - 1, x \in Block : At(c.l2, v, x, L2Sets) => At(d.l2, v, x, L2Sets)
  BY <1>1, <1>2, <1>3, <1>6, Geometry, ChangeEntry, Zenon
<1>8. d \in Caches
  <2>1. d.l2 \in Levels(L2Ways, L2Sets)
    BY <1>7 DEF Holding, Sound
  <2> QED
    BY <1>1, <1>5, <2>1, FieldsOf DEF Caches
<1>9. Changed(d.l2, c.l2, w, s, [c.l2[w][s] EXCEPT !.last_accessed_time = c.pseudo_cycle])
  BY <1>6 DEF e
<1> QED
  BY <1>1, <1>5, <1>7, <1>8, <1>9 DEF Later, Moved2, At2

LEMMA MarkL1Right ==
  ASSUME NEW c, Good(c), NEW b \in Block, NEW w, At1(c, w, b),
         NEW d, d = MarkL1(c, w, b)
  PROVE  /\ Later(c, d, 0)
         /\ d.l2 = c.l2
         /\ Moved1(c, d, {}, {}, {b})
         /\ \A x \in Block : \A v : At1(c, v, x) => At1(d, v, x)
         /\ Changed(d.l1, c.l1, w, b % L1Sets, [c.l1[w][b % L1Sets] EXCEPT !.dirty = TRUE])
<1> DEFINE s == b % L1Sets
           e == [c.l1[w][s] EXCEPT !.dirty = TRUE]
<1>1. /\ c \in Caches /\ ~c.crashed /\ Sound(c.l1, L1Ways, L1Sets)
      /\ c.l1 \in Levels(L1Ways, L1Sets)
      /\ w \in 0 .. L1Ways - 1 /\ c.l1[w][s].valid /\ c.l1[w][s].address = b
      /\ c.pseudo_cycle \in 0 .. UintMax
  BY FieldsOf DEF Good, At1, At
<1>2. /\ s \in 0 .. L1Sets - 1 /\ c.l1[w][s] \in Entries
      /\ c.l1[w][s].last_accessed_time < UintMax
  BY <1>1, Entry1 DEF HeldRight
<1>3. /\ e \in Entries /\ e.last_accessed_time < UintMax /\ SameBlock(e, c.l1[w][s])
      /\ e.dirty /\ HeldDirty(e) = {b}
  BY <1>1, <1>2 DEF Entries, SameBlock, HeldDirty
<1>4. d = [c EXCEPT !.l1[w][s].dirty = TRUE]
  BY Search1 DEF MarkL1
<1>5. /\ d.l1 = [c.l1 EXCEPT ![w][s] = e] /\ d.l2 = c.l2
      /\ d.pseudo_cycle = c.pseudo_cycle /\ d.crashed = c.crashed
      /\ d = [l1 |-> d.l1, l2 |-> d.l2, pseudo_cycle |-> d.pseudo_cycle, crashed |-> d.crashed]
  BY <1>1, <1>4 DEF Caches
<1> HIDE DEF e
<1>6. Changed(d.l1, c.l1, w, s, e)
  BY <1>5 DEF Changed
<1>7. /\ Holding(d.l1, c.l1, L1Ways, L1Sets, {}, {}, HeldDirty(e))
      /\ \A v \in 0 .. L1Ways - 1, x \in Block : At(c.l1, v, x, L1Sets) => At(d.l1, v, x, L1Sets)
  BY <1>1, <1>2, <1>3, <1>6, Geometry, ChangeEntry, Zenon
<1>8. d \in Caches
  <2>1. d.l1 \in Levels(L1Ways, L1Sets)
    BY <1>7 DEF Holding, Sound
  <2> QED
    BY <1>1, <1>5, <2>1, FieldsOf DEF Caches
<1>9. Changed(d.l1, c.l1, w, s, [c.l1[w][s] EXCEPT !.dirty = TRUE])
  BY <1>6 DEF e
<1> QED
  BY <1>1, <1>3, <1>5, <1>7, <1>8, <1>9 DEF Later, Moved1, At1

LEMMA MarkL2Right ==
  ASSUME NEW c, Good(c), NEW b \in Block, NEW w, At2(c, w, b),
         NEW d, d = MarkL2(c, w, b)
  PROVE  /\ Later(c, d, 0)
         /\ d.l1 = c.l1
         /\ Moved2(c, d, {}, {}, {b})
         /\ \A x \in Block : \A v : At2(c, v, x) => At2(d, v, x)
         /\ Changed(d.l2, c.l2, w, b % L2Sets, [c.l2[w][b % L2Sets] EXCEPT !.dirty = TRUE])
<1> DEFINE s == b % L2Sets
           e == [c.l2[w][s] EXCEPT !.dirty = TRUE]
<1>1. /\ c \in Caches /\ ~c.crashed /\ Sound(c.l2, L2Ways, L2Sets)
      /\ c.l2 \in Levels(L2Ways, L2Sets)
      /\ w \in 0 .. L2Ways - 1 /\ c.l2[w][s].valid /\ c.l2[w][s].address = b
      /\ c.pseudo_cycle \in 0 .. UintMax
  BY FieldsOf DEF Good, At2, At
<1>2. /\ s \in 0 .. L2Sets - 1 /\ c.l2[w][s] \in Entries
      /\ c.l2[w][s].last_accessed_time < UintMax
  BY <1>1, Entry2 DEF HeldRight
<1>3. /\ e \in Entries /\ e.last_accessed_time < UintMax /\ SameBlock(e, c.l2[w][s])
      /\ e.dirty /\ HeldDirty(e) = {b}
  BY <1>1, <1>2 DEF Entries, SameBlock, HeldDirty
<1>4. d = [c EXCEPT !.l2[w][s].dirty = TRUE]
  BY Search2 DEF MarkL2
<1>5. /\ d.l2 = [c.l2 EXCEPT ![w][s] = e] /\ d.l1 = c.l1
      /\ d.pseudo_cycle = c.pseudo_cycle /\ d.crashed = c.crashed
      /\ d = [l1 |-> d.l1, l2 |-> d.l2, pseudo_cycle |-> d.pseudo_cycle, crashed |-> d.crashed]
  BY <1>1, <1>4 DEF Caches
<1> HIDE DEF e
<1>6. Changed(d.l2, c.l2, w, s, e)
  BY <1>5 DEF Changed
<1>7. /\ Holding(d.l2, c.l2, L2Ways, L2Sets, {}, {}, HeldDirty(e))
      /\ \A v \in 0 .. L2Ways - 1, x \in Block : At(c.l2, v, x, L2Sets) => At(d.l2, v, x, L2Sets)
  BY <1>1, <1>2, <1>3, <1>6, Geometry, ChangeEntry, Zenon
<1>8. d \in Caches
  <2>1. d.l2 \in Levels(L2Ways, L2Sets)
    BY <1>7 DEF Holding, Sound
  <2> QED
    BY <1>1, <1>5, <2>1, FieldsOf DEF Caches
<1>9. Changed(d.l2, c.l2, w, s, [c.l2[w][s] EXCEPT !.dirty = TRUE])
  BY <1>6 DEF e
<1> QED
  BY <1>1, <1>3, <1>5, <1>7, <1>8, <1>9 DEF Later, Moved2, At2

LEMMA InsertL1Right ==
  ASSUME NEW c, Good(c), c.pseudo_cycle < UintMax, NEW b \in Block, b \notin B1(c),
         NEW w \in 0 .. L1Ways - 1, NEW d, d = InsertL1(c, w, b)
  PROVE  /\ Later(c, d, 1)
         /\ d.l2 = c.l2
         /\ Moved1(c, d, Held(c.l1[w][b % L1Sets]), {b}, {})
         /\ At1(d, w, b)
         /\ Changed(d.l1, c.l1, w, b % L1Sets, Fresh(b \div L1Sets, c.pseudo_cycle, b))
<1> DEFINE s == b % L1Sets
           e == Fresh(b \div L1Sets, c.pseudo_cycle, b)
<1>1. /\ c \in Caches /\ ~c.crashed /\ Sound(c.l1, L1Ways, L1Sets)
      /\ b \notin In(c.l1, L1Ways, L1Sets)
      /\ c.pseudo_cycle \in 0 .. UintMax /\ Tick(c.pseudo_cycle) = c.pseudo_cycle + 1
      /\ Tick(c.pseudo_cycle) \in 0 .. UintMax
  BY FieldsOf, TickOne DEF Good, B1
<1>2. d = [c EXCEPT !.l1[w][s] = e, !.pseudo_cycle = Tick(c.pseudo_cycle)]
  BY <1>1, Search1 DEF InsertL1, Caches
<1> HIDE DEF e
<1>3. /\ d.l1 = [c.l1 EXCEPT ![w][s] = e] /\ d.l2 = c.l2
      /\ d.pseudo_cycle = Tick(c.pseudo_cycle) /\ d.crashed = c.crashed
      /\ d = [l1 |-> d.l1, l2 |-> d.l2, pseudo_cycle |-> d.pseudo_cycle, crashed |-> d.crashed]
  BY <1>1, <1>2 DEF Caches
<1>4. Changed(d.l1, c.l1, w, s, Fresh(b \div L1Sets, c.pseudo_cycle, b))
  BY <1>3 DEF Changed, e
<1>5. /\ Holding(d.l1, c.l1, L1Ways, L1Sets, Held(c.l1[w][s]), {b}, {})
      /\ At(d.l1, w, b, L1Sets)
  BY <1>1, <1>4, Geometry, PutEntry, Zenon
<1>6. d \in Caches
  <2>1. d.l1 \in Levels(L1Ways, L1Sets)
    BY <1>5 DEF Holding, Sound
  <2> QED
    BY <1>1, <1>3, <2>1, FieldsOf DEF Caches
<1> QED
  BY <1>1, <1>3, <1>4, <1>5, <1>6 DEF Later, Moved1, At1

LEMMA InsertL2Right ==
  ASSUME NEW c, Good(c), c.pseudo_cycle < UintMax, NEW b \in Block, b \notin B2(c),
         NEW w \in 0 .. L2Ways - 1, NEW d, d = InsertL2(c, w, b)
  PROVE  /\ Later(c, d, 1)
         /\ d.l1 = c.l1
         /\ Moved2(c, d, Held(c.l2[w][b % L2Sets]), {b}, {})
         /\ At2(d, w, b)
         /\ Changed(d.l2, c.l2, w, b % L2Sets, Fresh(b \div L2Sets, c.pseudo_cycle, b))
<1> DEFINE s == b % L2Sets
           e == Fresh(b \div L2Sets, c.pseudo_cycle, b)
<1>1. /\ c \in Caches /\ ~c.crashed /\ Sound(c.l2, L2Ways, L2Sets)
      /\ b \notin In(c.l2, L2Ways, L2Sets)
      /\ c.pseudo_cycle \in 0 .. UintMax /\ Tick(c.pseudo_cycle) = c.pseudo_cycle + 1
      /\ Tick(c.pseudo_cycle) \in 0 .. UintMax
  BY FieldsOf, TickOne DEF Good, B2
<1>2. d = [c EXCEPT !.l2[w][s] = e, !.pseudo_cycle = Tick(c.pseudo_cycle)]
  BY <1>1, Search2 DEF InsertL2, Caches
<1> HIDE DEF e
<1>3. /\ d.l2 = [c.l2 EXCEPT ![w][s] = e] /\ d.l1 = c.l1
      /\ d.pseudo_cycle = Tick(c.pseudo_cycle) /\ d.crashed = c.crashed
      /\ d = [l1 |-> d.l1, l2 |-> d.l2, pseudo_cycle |-> d.pseudo_cycle, crashed |-> d.crashed]
  BY <1>1, <1>2 DEF Caches
<1>4. Changed(d.l2, c.l2, w, s, Fresh(b \div L2Sets, c.pseudo_cycle, b))
  BY <1>3 DEF Changed, e
<1>5. /\ Holding(d.l2, c.l2, L2Ways, L2Sets, Held(c.l2[w][s]), {b}, {})
      /\ At(d.l2, w, b, L2Sets)
  BY <1>1, <1>4, Geometry, PutEntry, Zenon
<1>6. d \in Caches
  <2>1. d.l2 \in Levels(L2Ways, L2Sets)
    BY <1>5 DEF Holding, Sound
  <2> QED
    BY <1>1, <1>3, <2>1, FieldsOf DEF Caches
<1> QED
  BY <1>1, <1>3, <1>4, <1>5, <1>6 DEF Later, Moved2, At2

(* A block that is not in L1 is not dirty there. *)
LEMMA DirtyIn == ASSUME NEW L, NEW W, NEW N PROVE Dirt(L, W, N) \subseteq In(L, W, N)
  BY DEF Dirt, In

LEMMA InvalidateRight ==
  ASSUME NEW c, Good(c), NEW b \in Block, NEW d, d = Invalidate(c, b)
  PROVE  /\ Later(c, d, 0)
         /\ d.l2 = c.l2
         /\ Moved1(c, d, {b}, {}, {})
         /\ b \notin B1(c) => d = c
         /\ b \in B1(c) => \E w : /\ At1(c, w, b)
                                  /\ Changed(d.l1, c.l1, w, b % L1Sets,
                                             [c.l1[w][b % L1Sets] EXCEPT !.valid = FALSE])
<1> DEFINE s == b % L1Sets
           w == L1!blockExists(c.l1, b)
<1>1. /\ c \in Caches /\ ~c.crashed /\ Sound(c.l1, L1Ways, L1Sets)
      /\ c.pseudo_cycle \in 0 .. UintMax
  BY FieldsOf DEF Good
<1>2. CASE b \notin B1(c)
  <2>1. d = c
    BY <1>2, Found1 DEF Invalidate
  <2> QED
    BY <1>1, <1>2, <2>1, DirtyIn DEF Later, Moved1, Holding, B1
<1>3. CASE b \in B1(c)
  <2>1. w # L1!NULL /\ At1(c, w, b)
    BY <1>3, Found1
  <2>2. d = [c EXCEPT !.l1[w][s].valid = FALSE]
    BY <2>1, Search1 DEF Invalidate
  <2> HIDE DEF w
  <2>3. /\ w \in 0 .. L1Ways - 1 /\ Held(c.l1[w][s]) = {b}
    BY <2>1 DEF At1, At, Held
  <2>4. s \in 0 .. L1Sets - 1
    BY <2>3, Entry1
  <2>5. /\ d.l1 = [c.l1 EXCEPT ![w][s] = [c.l1[w][s] EXCEPT !.valid = FALSE]] /\ d.l2 = c.l2
        /\ d.pseudo_cycle = c.pseudo_cycle /\ d.crashed = c.crashed
        /\ d = [l1 |-> d.l1, l2 |-> d.l2, pseudo_cycle |-> d.pseudo_cycle, crashed |-> d.crashed]
    <3>1. c.l1 \in Levels(L1Ways, L1Sets)
      BY <1>1, FieldsOf
    <3> QED
      BY <1>1, <2>2, <2>3, <2>4, <3>1 DEF Caches, Levels
  <2>6. Changed(d.l1, c.l1, w, s, [c.l1[w][s] EXCEPT !.valid = FALSE])
    BY <2>5 DEF Changed
  <2>7. Holding(d.l1, c.l1, L1Ways, L1Sets, Held(c.l1[w][s]), {}, {})
    BY <1>1, <2>3, <2>4, <2>6, Geometry, DropEntry, Zenon
  <2>8. d \in Caches
    <3>1. d.l1 \in Levels(L1Ways, L1Sets)
      BY <2>7 DEF Holding, Sound
    <3> QED
      BY <1>1, <2>5, <3>1, FieldsOf DEF Caches
  <2> QED
    <3>1. Later(c, d, 0) /\ d.l2 = c.l2 /\ Moved1(c, d, {b}, {}, {})
      BY <1>1, <2>3, <2>5, <2>7, <2>8 DEF Later, Moved1
    <3> QED
      BY <1>3, <2>1, <2>6, <3>1, Zenon
<1> QED
  BY <1>2, <1>3
-----------------------------------------------------------------------------
(* What both levels hold newer than memory.                                *)
D(c) == D1(c) \cup D2(c)

LEMMA GoodAfter ==
  ASSUME NEW c, NEW d, NEW n, Later(c, d, n),
         Sound(d.l1, L1Ways, L1Sets), Sound(d.l2, L2Ways, L2Sets), B1(d) \subseteq B2(d)
  PROVE  Good(d)
  BY DEF Good, Later

LEMMA BlocksOf ==
  ASSUME NEW c, Good(c)
  PROVE  /\ B1(c) \subseteq Block /\ B2(c) \subseteq Block
         /\ D1(c) \subseteq B1(c) /\ D2(c) \subseteq B2(c) /\ D(c) \subseteq B2(c)
         /\ Sound(c.l1, L1Ways, L1Sets) /\ Sound(c.l2, L2Ways, L2Sets)
         /\ B1(c) \subseteq B2(c)
         /\ c.pseudo_cycle \in 0 .. UintMax
  BY FieldsOf DEF Good, B1, B2, D1, D2, D, In, Dirt

(* The data of a dirty block of L1 goes to the copy of it in L2. *)
LEMMA WriteBackRight ==
  ASSUME NEW c, Good(c), c.pseudo_cycle < UintMax, NEW v \in Block, v \in B2(c),
         NEW d, d = WriteBack(c, v)
  PROVE  /\ Good(d)
         /\ Later(c, d, 1)
         /\ d.l1 = c.l1
         /\ B2(d) = B2(c)
         /\ D2(d) = D2(c) \cup {v}
<1> DEFINE w == L2!blockExists(c.l2, v)
           m == MarkL2(c, w, v)
<1>1. w # L2!NULL /\ At2(c, w, v)
  BY Found2
<1>2. d = TouchL2(m, w, v)
  BY <1>1 DEF WriteBack
<1> HIDE DEF w
<1>3. /\ Later(c, m, 0) /\ m.l1 = c.l1 /\ Moved2(c, m, {}, {}, {v})
  BY <1>1, MarkL2Right, Zenon
<1> HIDE DEF m
<1>4. m.pseudo_cycle = c.pseudo_cycle /\ c.pseudo_cycle \in 0 .. UintMax
  BY <1>3, BlocksOf DEF Later
<1>5. Good(m)
  <2>1. /\ Sound(m.l2, L2Ways, L2Sets) /\ B2(m) = B2(c)
        /\ Sound(m.l1, L1Ways, L1Sets) /\ B1(m) = B1(c)
    BY <1>3, BlocksOf DEF Moved2, Holding, B2, B1
  <2>2. B1(m) \subseteq B2(m)
    BY <2>1, BlocksOf
  <2> QED
    BY <1>3, <2>1, <2>2, GoodAfter, Zenon
<1>6. w \in 0 .. L2Ways - 1 /\ m.pseudo_cycle < UintMax
  BY <1>1, <1>4 DEF At2
<1>7. /\ Later(m, d, 1) /\ d.l1 = m.l1 /\ Moved2(m, d, {}, {}, {})
  BY <1>2, <1>5, <1>6, TouchL2Right, Zenon
<1>8. /\ B2(d) = B2(c) /\ D2(d) = D2(c) \cup {v}
      /\ Sound(d.l2, L2Ways, L2Sets) /\ Sound(d.l1, L1Ways, L1Sets) /\ B1(d) = B1(c)
  BY <1>3, <1>7, BlocksOf DEF Moved2, Holding, B1, B2, D2
<1>9. Later(c, d, 1) /\ d.l1 = c.l1
  BY <1>3, <1>4, <1>7 DEF Later
<1>10. Good(d)
  <2>1. B1(d) \subseteq B2(d)
    BY <1>8, BlocksOf
  <2> QED
    BY <1>8, <1>9, <2>1, GoodAfter, Zenon
<1> QED
  BY <1>8, <1>9, <1>10

(* A block of L2 enters L1: nothing newer than memory is lost. *)
LEMMA FetchToL1Right ==
  ASSUME NEW c, Good(c), c.pseudo_cycle + 1 < UintMax, NEW b \in Block,
         b \in B2(c), b \notin B1(c),
         NEW d, d = fetchToL1(c, b)
  PROVE  /\ Good(d)
         /\ d.pseudo_cycle <= c.pseudo_cycle + 2
         /\ b \in B1(d)
         /\ B2(d) = B2(c)
         /\ D(d) = D(c)
<1> DEFINE s == b % L1Sets
           w == L1!getEntryForNewBlock(c.l1, b)
           victim == c.l1[w][s]
           x == WriteBack(c, victim.address)
<1>1. w \in 0 .. L1Ways - 1 /\ w # L1!NULL
  BY Found1, Search1, Geometry
<1>2. /\ c.pseudo_cycle \in 0 .. UintMax /\ c.pseudo_cycle < UintMax
  BY BlocksOf, Geometry
<1>3. HeldRight(c.l1, L1Ways, L1Sets, victim)
  BY <1>1, Entry1
<1>4. d = IF victim.valid /\ victim.dirty THEN InsertL1(x, w, b) ELSE InsertL1(c, w, b)
  BY <1>1, Search1 DEF fetchToL1
<1> HIDE DEF w, x
<1>5. CASE ~(victim.valid /\ victim.dirty)
  <2>1. d = InsertL1(c, w, b)
    BY <1>4, <1>5
  <2>2. Later(c, d, 1) /\ d.l2 = c.l2 /\ Moved1(c, d, Held(victim), {b}, {})
    BY <1>1, <1>2, <2>1, InsertL1Right, Zenon
  <2>3. HeldDirty(victim) = {}
    BY <1>5 DEF HeldDirty
  <2>4. D1(c) \cap Held(victim) = {}
    BY <1>3, <2>3 DEF HeldRight, D1
  <2>5. /\ B1(d) = (B1(c) \ Held(victim)) \cup {b} /\ D1(d) = D1(c)
        /\ B2(d) = B2(c) /\ D2(d) = D2(c)
        /\ Sound(d.l1, L1Ways, L1Sets) /\ Sound(d.l2, L2Ways, L2Sets)
    BY <2>2, <2>4, BlocksOf DEF Moved1, Holding, B1, B2, D1, D2
  <2>6. Good(d)
    <3>1. B1(d) \subseteq B2(d)
      BY <2>5, BlocksOf
    <3> QED
      BY <2>2, <2>5, <3>1, GoodAfter, Zenon
  <2>7. d.pseudo_cycle <= c.pseudo_cycle + 2
    BY <1>2, <2>2 DEF Later
  <2> QED
    BY <2>5, <2>6, <2>7 DEF D
<1>6. CASE victim.valid /\ victim.dirty
  <2> DEFINE v == victim.address
  <2>1. d = InsertL1(x, w, b)
    BY <1>4, <1>6
  <2>2. Held(victim) = {v} /\ HeldDirty(victim) = {v}
    BY <1>6 DEF Held, HeldDirty
  <2>3. v \in B1(c) /\ v \in D1(c)
    BY <1>3, <2>2 DEF HeldRight, B1, D1
  <2>4. v \in Block /\ v \in B2(c)
    BY <2>3, BlocksOf
  <2>5. Good(x) /\ Later(c, x, 1) /\ x.l1 = c.l1 /\ B2(x) = B2(c) /\ D2(x) = D2(c) \cup {v}
    BY <1>2, <2>4, WriteBackRight, Zenon DEF x
  <2>6. x.pseudo_cycle < UintMax /\ b \notin B1(x) /\ x.pseudo_cycle = c.pseudo_cycle + 1
    BY <1>2, <2>5 DEF Later, B1
  <2>7. Later(x, d, 1) /\ d.l2 = x.l2 /\ Moved1(x, d, Held(x.l1[w][s]), {b}, {})
    <3>1. Good(x) /\ x.pseudo_cycle < UintMax /\ b \notin B1(x)
      BY <2>5, <2>6
    <3> QED
      BY <1>1, <2>1, <3>1, InsertL1Right, Zenon
  <2>8. /\ B1(d) = (B1(c) \ {v}) \cup {b} /\ D1(d) = D1(c) \ {v}
        /\ B2(d) = B2(c) /\ D2(d) = D2(c) \cup {v}
        /\ Sound(d.l1, L1Ways, L1Sets) /\ Sound(d.l2, L2Ways, L2Sets)
    <3>1. Held(x.l1[w][s]) = {v}
      BY <2>2, <2>5
    <3>2. Sound(x.l2, L2Ways, L2Sets)
      BY <2>5, BlocksOf
    <3> QED
      BY <2>5, <2>7, <3>1, <3>2 DEF Moved1, Holding, B1, B2, D1, D2
  <2>9. Good(d)
    <3>1. B1(d) \subseteq B2(d)
      BY <2>8, BlocksOf
    <3> QED
      BY <2>7, <2>8, <3>1, GoodAfter, Zenon
  <2>10. d.pseudo_cycle <= c.pseudo_cycle + 2
    BY <1>2, <2>6, <2>7 DEF Later
  <2>11. D(d) = D(c)
    BY <2>3, <2>8 DEF D
  <2> QED
    BY <2>8, <2>9, <2>10, <2>11
<1> QED
  BY <1>5, <1>6

(* A block of memory enters L2, in the place of one that leaves both       *)
(* levels ...                                                              *)
Entering2(c, b, w, x, y) ==
  /\ w = L2!getEntryForNewBlock(c.l2, b)
  /\ x = IF c.l2[w][b % L2Sets].valid THEN Invalidate(c, c.l2[w][b % L2Sets].address) ELSE c
  /\ y = InsertL2(x, w, b)

LEMMA EnterL2Right ==
  ASSUME NEW c, Good(c), c.pseudo_cycle < UintMax, NEW b \in Block, b \notin B2(c),
         NEW w, NEW x, NEW y, Entering2(c, b, w, x, y)
  PROVE  LET out == Held(c.l2[w][b % L2Sets])
         IN  /\ fetchBlockFromMemory(c, b) = fetchToL1(y, b)
             /\ w \in 0 .. L2Ways - 1 /\ out \subseteq Block
             /\ Good(x) /\ x.pseudo_cycle = c.pseudo_cycle /\ x.l2 = c.l2 /\ b \notin B2(x)
             /\ Good(y) /\ y.pseudo_cycle = c.pseudo_cycle + 1
             /\ B2(y) = (B2(c) \ out) \cup {b} /\ b \notin B1(y)
             /\ D(y) = D(c) \ out
<1> DEFINE s == b % L2Sets
           victim == c.l2[w][s]
<1>1. w \in 0 .. L2Ways - 1 /\ w # L2!NULL
  BY Found2, Search2, Geometry DEF Entering2
<1>2. c.pseudo_cycle \in 0 .. UintMax
  BY BlocksOf, Geometry
<1>3. HeldRight(c.l2, L2Ways, L2Sets, victim)
  BY <1>1, Entry2
<1>4. fetchBlockFromMemory(c, b) = fetchToL1(y, b)
  BY <1>1, Search2 DEF fetchBlockFromMemory, Entering2
<1>5. Held(victim) \subseteq B2(c) /\ Held(victim) \subseteq Block
  BY <1>3, BlocksOf DEF HeldRight, B2
<1>6. /\ Later(c, x, 0) /\ x.l2 = c.l2
      /\ B1(x) = B1(c) \ Held(victim) /\ D1(x) = D1(c) \ Held(victim)
      /\ Sound(x.l1, L1Ways, L1Sets)
  <2>1. CASE ~victim.valid
    <3>1. x = c /\ Held(victim) = {}
      BY <2>1 DEF Held, Entering2
    <3>2. Later(c, c, 0)
      BY <1>2 DEF Later, Good
    <3> QED
      BY <3>1, <3>2, BlocksOf
  <2>2. CASE victim.valid
    <3> DEFINE v == victim.address
    <3>1. Held(victim) = {v} /\ x = Invalidate(c, v)
      BY <2>2 DEF Held, Entering2
    <3>2. v \in Block
      BY <1>5, <3>1, BlocksOf
    <3> HIDE DEF v
    <3>3. Later(c, x, 0) /\ x.l2 = c.l2 /\ Moved1(c, x, {v}, {}, {})
      BY <3>1, <3>2, InvalidateRight, Zenon
    <3> QED
      BY <3>1, <3>3 DEF Moved1, Holding, B1, D1
  <2> QED
    BY <2>1, <2>2
<1>7. Good(x)
  <2>1. B2(x) = B2(c) /\ Sound(x.l2, L2Ways, L2Sets)
    BY <1>6, BlocksOf DEF B2
  <2>2. B1(x) \subseteq B2(x)
    BY <1>6, <2>1, BlocksOf
  <2> QED
    BY <1>6, <2>1, <2>2, GoodAfter, Zenon
<1>8. x.pseudo_cycle = c.pseudo_cycle /\ x.pseudo_cycle < UintMax /\ b \notin B2(x)
  BY <1>2, <1>6, Geometry DEF Later, B2
<1>9. Later(x, y, 1) /\ y.l1 = x.l1 /\ Moved2(x, y, Held(x.l2[w][s]), {b}, {})
  <2>1. y = InsertL2(x, w, b)
    BY DEF Entering2
  <2> QED
    BY <1>1, <1>7, <1>8, <2>1, InsertL2Right, Zenon
<1>10. /\ B1(y) = B1(c) \ Held(victim) /\ D1(y) = D1(c) \ Held(victim)
       /\ B2(y) = (B2(c) \ Held(victim)) \cup {b} /\ D2(y) = D2(c) \ Held(victim)
       /\ Sound(y.l1, L1Ways, L1Sets) /\ Sound(y.l2, L2Ways, L2Sets)
  <2>1. Held(x.l2[w][s]) = Held(victim)
    BY <1>6
  <2> QED
    BY <1>6, <1>9, <2>1 DEF Moved2, Holding, B1, B2, D1, D2
<1>11. Good(y)
  <2>1. B1(y) \subseteq B2(y)
    BY <1>10, BlocksOf
  <2> QED
    BY <1>9, <1>10, <2>1, GoodAfter, Zenon
<1>12. y.pseudo_cycle = c.pseudo_cycle + 1 /\ b \notin B1(y)
  <2>1. b \notin B1(c)
    BY BlocksOf
  <2> QED
    BY <1>2, <1>8, <1>9, <1>10, <2>1 DEF Later
<1>13. D(y) = D(c) \ Held(victim)
  BY <1>10 DEF D
<1> QED
  BY <1>1, <1>4, <1>5, <1>6, <1>7, <1>8, <1>10, <1>11, <1>12, <1>13

(* ... and then L1.                                                        *)
LEMMA FetchFromMemoryRight ==
  ASSUME NEW c, Good(c), c.pseudo_cycle + 2 < UintMax, NEW b \in Block, b \notin B2(c),
         NEW d, d = fetchBlockFromMemory(c, b)
  PROVE  /\ Good(d)
         /\ d.pseudo_cycle <= c.pseudo_cycle + 3
         /\ b \in B1(d)
         /\ D(d) = D(c) \cap B2(d)
<1>1. c.pseudo_cycle \in 0 .. UintMax /\ c.pseudo_cycle < UintMax
  BY BlocksOf, Geometry
<1>2. PICK w, x, y : Entering2(c, b, w, x, y)
  BY DEF Entering2
<1> DEFINE out == Held(c.l2[w][b % L2Sets])
<1>3. /\ d = fetchToL1(y, b) /\ Good(y) /\ y.pseudo_cycle = c.pseudo_cycle + 1
      /\ B2(y) = (B2(c) \ out) \cup {b} /\ b \notin B1(y) /\ D(y) = D(c) \ out
  BY <1>1, <1>2, EnterL2Right
<1> HIDE DEF out
<1>4. y.pseudo_cycle + 1 < UintMax /\ b \in B2(y)
  BY <1>1, <1>3
<1>5. /\ Good(d) /\ d.pseudo_cycle <= y.pseudo_cycle + 2 /\ b \in B1(d)
      /\ B2(d) = B2(y) /\ D(d) = D(y)
  BY <1>3, <1>4, FetchToL1Right, Zenon
<1>6. D(d) = D(c) \cap B2(d)
  <2>1. D(c) \subseteq B2(c) /\ b \notin D(c)
    BY BlocksOf
  <2> QED
    BY <1>3, <1>5, <2>1
<1>7. d.pseudo_cycle \in Int
  BY <1>5, BlocksOf
<1> QED
  BY <1>1, <1>3, <1>5, <1>6, <1>7

(* The entry the fetch returned is marked. *)
LEMMA MarkFetchedRight ==
  ASSUME NEW c, Good(c), NEW b \in Block, b \in B1(c), NEW d, d = MarkFetched(c, b)
  PROVE  /\ Good(d)
         /\ d.pseudo_cycle = c.pseudo_cycle
         /\ B2(d) = B2(c)
         /\ D(d) = D(c) \cup {b}
<1> DEFINE w == L1!blockExists(c.l1, b)
<1>1. At1(c, w, b)
  BY Found1
<1>2. d = MarkL1(c, w, b)
  BY DEF MarkFetched, Good
<1> HIDE DEF w
<1>3. Later(c, d, 0) /\ d.l2 = c.l2 /\ Moved1(c, d, {}, {}, {b})
  BY <1>1, <1>2, MarkL1Right, Zenon
<1>4. /\ B1(d) = B1(c) /\ B2(d) = B2(c) /\ D1(d) = D1(c) \cup {b} /\ D2(d) = D2(c)
      /\ Sound(d.l1, L1Ways, L1Sets) /\ Sound(d.l2, L2Ways, L2Sets)
  BY <1>3, BlocksOf DEF Moved1, Holding, B1, B2, D1, D2
<1>5. Good(d)
  <2>1. B1(d) \subseteq B2(d)
    BY <1>4, BlocksOf
  <2> QED
    BY <1>3, <1>4, <2>1, GoodAfter, Zenon
<1>6. d.pseudo_cycle = c.pseudo_cycle
  BY <1>3, BlocksOf DEF Later
<1> QED
  BY <1>4, <1>5, <1>6 DEF D

(* A block that is used in L2. *)
LEMMA UsedInL2 ==
  ASSUME NEW c, Good(c), c.pseudo_cycle < UintMax, NEW b \in Block, NEW w, At2(c, w, b),
         NEW d, d = TouchL2(c, w, b)
  PROVE  /\ Good(d)
         /\ d.pseudo_cycle = c.pseudo_cycle + 1
         /\ B1(d) = B1(c) /\ B2(d) = B2(c)
         /\ D(d) = D(c)
         /\ At2(d, w, b)
<1>1. w \in 0 .. L2Ways - 1
  BY DEF At2
<1>2. /\ Later(c, d, 1) /\ d.l1 = c.l1 /\ Moved2(c, d, {}, {}, {})
      /\ At2(d, w, b)
  BY <1>1, TouchL2Right, Zenon
<1>3. /\ B1(d) = B1(c) /\ B2(d) = B2(c) /\ D1(d) = D1(c) /\ D2(d) = D2(c)
      /\ Sound(d.l1, L1Ways, L1Sets) /\ Sound(d.l2, L2Ways, L2Sets)
  BY <1>2, BlocksOf DEF Moved2, Holding, B1, B2, D1, D2
<1>4. Good(d)
  <2>1. B1(d) \subseteq B2(d)
    BY <1>3, BlocksOf
  <2> QED
    BY <1>2, <1>3, <2>1, GoodAfter, Zenon
<1> QED
  BY <1>2, <1>3, <1>4 DEF D, Later
LEMMA UsedInL1 ==
  ASSUME NEW c, Good(c), c.pseudo_cycle < UintMax, NEW b \in Block, NEW w, At1(c, w, b),
         NEW d, d = TouchL1(c, w, b)
  PROVE  /\ Good(d)
         /\ d.pseudo_cycle = c.pseudo_cycle + 1
         /\ B2(d) = B2(c)
         /\ D(d) = D(c)
<1>1. w \in 0 .. L1Ways - 1
  BY DEF At1
<1>2. Later(c, d, 1) /\ d.l2 = c.l2 /\ Moved1(c, d, {}, {}, {})
  BY <1>1, TouchL1Right, Zenon
<1>3. /\ B1(d) = B1(c) /\ B2(d) = B2(c) /\ D1(d) = D1(c) /\ D2(d) = D2(c)
      /\ Sound(d.l1, L1Ways, L1Sets) /\ Sound(d.l2, L2Ways, L2Sets)
  BY <1>2, BlocksOf DEF Moved1, Holding, B1, B2, D1, D2
<1>4. Good(d)
  <2>1. B1(d) \subseteq B2(d)
    BY <1>3, BlocksOf
  <2> QED
    BY <1>2, <1>3, <2>1, GoodAfter, Zenon
<1> QED
  BY <1>2, <1>3, <1>4 DEF D, Later
LEMMA MarkedInL1 ==
  ASSUME NEW c, Good(c), NEW b \in Block, NEW w, At1(c, w, b), NEW d, d = MarkL1(c, w, b)
  PROVE  /\ Good(d)
         /\ d.pseudo_cycle = c.pseudo_cycle
         /\ B2(d) = B2(c)
         /\ D(d) = D(c) \cup {b}
         /\ At1(d, w, b)
<1>1. /\ Later(c, d, 0) /\ d.l2 = c.l2 /\ Moved1(c, d, {}, {}, {b})
      /\ At1(d, w, b)
  BY MarkL1Right, Zenon
<1>2. /\ B1(d) = B1(c) /\ B2(d) = B2(c) /\ D1(d) = D1(c) \cup {b} /\ D2(d) = D2(c)
      /\ Sound(d.l1, L1Ways, L1Sets) /\ Sound(d.l2, L2Ways, L2Sets)
  BY <1>1, BlocksOf DEF Moved1, Holding, B1, B2, D1, D2
<1>3. Good(d)
  <2>1. B1(d) \subseteq B2(d)
    BY <1>2, BlocksOf
  <2> QED
    BY <1>1, <1>2, <2>1, GoodAfter, Zenon
<1>4. d.pseudo_cycle = c.pseudo_cycle
  BY <1>1, BlocksOf DEF Later
<1> QED
  BY <1>1, <1>2, <1>3, <1>4 DEF D
LEMMA MarkedInL2 ==
  ASSUME NEW c, Good(c), NEW b \in Block, NEW w, At2(c, w, b), NEW d, d = MarkL2(c, w, b)
  PROVE  /\ Good(d)
         /\ d.pseudo_cycle = c.pseudo_cycle
         /\ B2(d) = B2(c)
         /\ D(d) = D(c) \cup {b}
<1>1. Later(c, d, 0) /\ d.l1 = c.l1 /\ Moved2(c, d, {}, {}, {b})
  BY MarkL2Right, Zenon
<1>2. /\ B1(d) = B1(c) /\ B2(d) = B2(c) /\ D1(d) = D1(c) /\ D2(d) = D2(c) \cup {b}
      /\ Sound(d.l1, L1Ways, L1Sets) /\ Sound(d.l2, L2Ways, L2Sets)
  BY <1>1, BlocksOf DEF Moved2, Holding, B1, B2, D1, D2
<1>3. Good(d)
  <2>1. B1(d) \subseteq B2(d)
    BY <1>2, BlocksOf
  <2> QED
    BY <1>1, <1>2, <2>1, GoodAfter, Zenon
<1>4. d.pseudo_cycle = c.pseudo_cycle
  BY <1>1, BlocksOf DEF Later
<1> QED
  BY <1>2, <1>3, <1>4 DEF D
-----------------------------------------------------------------------------
(* A whole read, and a whole write: of the blocks newer than memory the    *)
(* cache keeps track of those it holds.                                    *)
Accessed(c, d, newer) ==
  /\ Good(d)
  /\ d.pseudo_cycle <= c.pseudo_cycle + 3
  /\ D(d) = newer \cap B2(d)

LEMMA ReadRight ==
  ASSUME NEW c, Good(c), c.pseudo_cycle + 2 < UintMax, NEW b \in Block,
         NEW d, d = AfterRead(c, b)
  PROVE  Accessed(c, d, D(c))
<1> SUFFICES Good(d) /\ d.pseudo_cycle <= c.pseudo_cycle + 3 /\ D(d) = D(c) \cap B2(d)
  BY DEF Accessed
<1> DEFINE w1 == L1!blockExists(c.l1, b)
           w2 == L2!blockExists(c.l2, b)
<1>1. /\ c.pseudo_cycle \in 0 .. UintMax /\ c.pseudo_cycle < UintMax
      /\ c.pseudo_cycle + 1 < UintMax
      /\ D(c) \subseteq B2(c) /\ B1(c) \subseteq B2(c)
  BY BlocksOf, Geometry
<1>2. /\ b \notin B1(c) <=> w1 = L1!NULL
      /\ b \notin B2(c) <=> w2 = L2!NULL
      /\ b \in B1(c) => At1(c, w1, b)
      /\ b \in B2(c) => At2(c, w2, b)
  BY Found1, Found2
<1>3. CASE b \in B1(c)
  <2>1. d = TouchL1(c, w1, b)
    BY <1>2, <1>3 DEF AfterRead
  <2> HIDE DEF w1
  <2>2. Good(d) /\ d.pseudo_cycle = c.pseudo_cycle + 1 /\ B2(d) = B2(c) /\ D(d) = D(c)
    BY <1>1, <1>2, <1>3, <2>1, UsedInL1, Zenon
  <2> QED
    BY <1>1, <2>2
<1>4. CASE b \notin B1(c) /\ b \in B2(c)
  <2> DEFINE x == TouchL2(c, w2, b)
  <2>1. d = fetchToL1(x, b)
    BY <1>2, <1>4 DEF AfterRead
  <2> HIDE DEF w1, w2
  <2>2. /\ Good(x) /\ x.pseudo_cycle = c.pseudo_cycle + 1
        /\ B1(x) = B1(c) /\ B2(x) = B2(c) /\ D(x) = D(c)
    BY <1>1, <1>2, <1>4, UsedInL2, Zenon
  <2> HIDE DEF x
  <2>3. x.pseudo_cycle + 1 < UintMax /\ b \in B2(x) /\ b \notin B1(x)
    BY <1>1, <1>4, <2>2
  <2>4. /\ Good(d) /\ d.pseudo_cycle <= x.pseudo_cycle + 2 /\ B2(d) = B2(x) /\ D(d) = D(x)
    BY <2>1, <2>2, <2>3, FetchToL1Right, Zenon
  <2>5. d.pseudo_cycle \in Int
    BY <2>4, BlocksOf
  <2> QED
    BY <1>1, <2>2, <2>4, <2>5
<1>5. CASE b \notin B1(c) /\ b \notin B2(c)
  <2>1. d = fetchBlockFromMemory(c, b)
    BY <1>2, <1>5 DEF AfterRead
  <2> QED
    BY <1>1, <1>5, <2>1, FetchFromMemoryRight, Zenon
<1> QED
  BY <1>3, <1>4, <1>5

LEMMA WriteRight ==
  ASSUME NEW c, Good(c), c.pseudo_cycle + 2 < UintMax, NEW b \in Block,
         NEW d, d = AfterWrite(c, b)
  PROVE  Accessed(c, d, D(c) \cup {b})
<1> SUFFICES Good(d) /\ d.pseudo_cycle <= c.pseudo_cycle + 3 /\ D(d) = (D(c) \cup {b}) \cap B2(d)
  BY DEF Accessed
<1> DEFINE w1 == L1!blockExists(c.l1, b)
           w2 == L2!blockExists(c.l2, b)
<1>1. /\ c.pseudo_cycle \in 0 .. UintMax /\ c.pseudo_cycle < UintMax
      /\ c.pseudo_cycle + 1 < UintMax
      /\ D(c) \subseteq B2(c) /\ B1(c) \subseteq B2(c)
  BY BlocksOf, Geometry
<1>2. /\ b \notin B1(c) <=> w1 = L1!NULL
      /\ b \notin B2(c) <=> w2 = L2!NULL
      /\ b \in B1(c) => At1(c, w1, b)
      /\ b \in B2(c) => At2(c, w2, b)
  BY Found1, Found2
<1>3. CASE b \in B1(c)
  <2> DEFINE x == MarkL1(c, w1, b)
  <2>1. d = TouchL1(x, w1, b)
    BY <1>2, <1>3 DEF AfterWrite
  <2> HIDE DEF w1
  <2>2. /\ Good(x) /\ x.pseudo_cycle = c.pseudo_cycle
        /\ B2(x) = B2(c) /\ D(x) = D(c) \cup {b} /\ At1(x, w1, b)
    BY <1>2, <1>3, MarkedInL1, Zenon
  <2> HIDE DEF x
  <2>3. x.pseudo_cycle < UintMax /\ Good(x) /\ At1(x, w1, b)
    BY <1>1, <2>2
  <2>4. Good(d) /\ d.pseudo_cycle = x.pseudo_cycle + 1 /\ B2(d) = B2(x) /\ D(d) = D(x)
    BY <2>1, <2>3, UsedInL1, Zenon
  <2> QED
    BY <1>1, <1>3, <2>2, <2>4
<1>4. CASE b \notin B1(c) /\ b \in B2(c)
  <2> DEFINE x == TouchL2(c, w2, b)
  <2>1. d = IF write_policy = NO_WRITE_ALLOCATE THEN MarkL2(x, w2, b)
            ELSE MarkFetched(fetchToL1(x, b), b)
    BY <1>2, <1>4 DEF AfterWrite
  <2> HIDE DEF w1, w2
  <2>2. /\ Good(x) /\ x.pseudo_cycle = c.pseudo_cycle + 1
        /\ B1(x) = B1(c) /\ B2(x) = B2(c) /\ D(x) = D(c) /\ At2(x, w2, b)
    BY <1>1, <1>2, <1>4, UsedInL2, Zenon
  <2> HIDE DEF x
  <2>3. x.pseudo_cycle + 1 < UintMax /\ b \in B2(x) /\ b \notin B1(x)
    BY <1>1, <1>4, <2>2
  <2>4. CASE write_policy = NO_WRITE_ALLOCATE
    <3>1. d = MarkL2(x, w2, b)
      BY <2>1, <2>4
    <3>2. Good(d) /\ d.pseudo_cycle = x.pseudo_cycle /\ B2(d) = B2(x) /\ D(d) = D(x) \cup {b}
      <4>1. Good(x) /\ At2(x, w2, b)
        BY <2>2
      <4> QED
        BY <3>1, <4>1, MarkedInL2, Zenon
    <3> QED
      BY <1>1, <1>4, <2>2, <3>2
  <2>5. CASE write_policy # NO_WRITE_ALLOCATE
    <3> DEFINE y == fetchToL1(x, b)
    <3>1. d = MarkFetched(y, b)
      BY <2>1, <2>5
    <3>2. /\ Good(y) /\ y.pseudo_cycle <= x.pseudo_cycle + 2
          /\ b \in B1(y) /\ B2(y) = B2(x) /\ D(y) = D(x)
      BY <2>2, <2>3, FetchToL1Right, Zenon
    <3> HIDE DEF y
    <3>3. /\ Good(d) /\ d.pseudo_cycle = y.pseudo_cycle
          /\ B2(d) = B2(y) /\ D(d) = D(y) \cup {b}
      BY <3>1, <3>2, MarkFetchedRight, Zenon
    <3>4. d.pseudo_cycle \in Int
      BY <3>3, BlocksOf
    <3> QED
      BY <1>1, <1>4, <2>2, <3>2, <3>3, <3>4
  <2> QED
    BY <2>4, <2>5
<1>5. CASE b \notin B1(c) /\ b \notin B2(c)
  <2>1. CASE write_policy = WRITE_ALLOCATE
    <3> DEFINE y == fetchBlockFromMemory(c, b)
    <3>1. d = MarkFetched(y, b)
      BY <1>2, <1>5, <2>1 DEF AfterWrite
    <3>2. /\ Good(y) /\ y.pseudo_cycle <= c.pseudo_cycle + 3
          /\ b \in B1(y) /\ D(y) = D(c) \cap B2(y)
      BY <1>1, <1>5, FetchFromMemoryRight, Zenon
    <3> HIDE DEF y
    <3>3. /\ Good(d) /\ d.pseudo_cycle = y.pseudo_cycle
          /\ B2(d) = B2(y) /\ D(d) = D(y) \cup {b}
      BY <3>1, <3>2, MarkFetchedRight, Zenon
    <3>4. b \in B2(y)
      BY <3>2, BlocksOf
    <3> QED
      BY <3>2, <3>3, <3>4
  <2>2. CASE write_policy # WRITE_ALLOCATE
    <3>1. d = c
      BY <1>2, <1>5, <2>2 DEF AfterWrite
    <3> QED
      BY <1>1, <1>5, <3>1
  <2> QED
    BY <2>1, <2>2
<1> QED
  BY <1>3, <1>4, <1>5
-----------------------------------------------------------------------------
(* The blocks of a level in the specification's terms.                     *)
LEMMA Level1 ==
  ASSUME NEW L, Sound(L, L1Ways, L1Sets)
  PROVE  /\ L \in [L1!Ways -> [L1!Sets -> L1!Entry]]
         /\ L1!Blocks(L) = In(L, L1Ways, L1Sets)
         /\ L1!Dirty(L) = Dirt(L, L1Ways, L1Sets)
         /\ \A p, q \in L1!Valid(L) : L[p[1]][p[2]].address = L[q[1]][q[2]].address => p = q
         /\ \A b \in L1!Blocks(L) : L1!Holds(L, b)
<1>1. L1!Ways = 0 .. L1Ways - 1 /\ L1!Sets = 0 .. L1Sets - 1 /\ L1!Entry = Entries
  BY DEF L1!Ways, L1!Sets, L1!Entry, Entries
<1>2. \A w \in L1!Ways, s \in L1!Sets : L[w][s].valid => Suits(L[w][s], s, L1Sets)
  BY <1>1 DEF Sound
<1>3. \A b \in Block : b % L1Sets \in L1!Sets
  BY <1>1, Geometry, SetOf
<1>4. L1!Blocks(L) = In(L, L1Ways, L1Sets)
  <2>1. ASSUME NEW b \in L1!Blocks(L) PROVE b \in In(L, L1Ways, L1Sets)
    <3>1. PICK p \in L1!Ways \X L1!Sets : L[p[1]][p[2]].valid /\ b = L[p[1]][p[2]].address
      BY <2>1 DEF L1!Blocks, L1!Valid
    <3>2. p[1] \in L1!Ways /\ p[2] \in L1!Sets
      BY <3>1
    <3> QED
      BY <1>1, <1>2, <3>1, <3>2 DEF In, At, Suits
  <2>2. ASSUME NEW b \in In(L, L1Ways, L1Sets) PROVE b \in L1!Blocks(L)
    <3>1. PICK w \in L1!Ways : At(L, w, b, L1Sets)
      BY <1>1 DEF In
    <3>2. b \in Block
      BY DEF In
    <3>3. <<w, b % L1Sets>> \in L1!Valid(L)
      BY <1>3, <3>1, <3>2 DEF L1!Valid, At
    <3> QED
      BY <3>1, <3>3 DEF L1!Blocks, At
  <2> QED
    BY <2>1, <2>2
<1>5. L1!Dirty(L) = Dirt(L, L1Ways, L1Sets)
  <2>1. ASSUME NEW b \in L1!Dirty(L) PROVE b \in Dirt(L, L1Ways, L1Sets)
    <3>1. PICK p \in L1!Ways \X L1!Sets :
            L[p[1]][p[2]].valid /\ L[p[1]][p[2]].dirty /\ b = L[p[1]][p[2]].address
      BY <2>1 DEF L1!Dirty, L1!Valid
    <3>2. p[1] \in L1!Ways /\ p[2] \in L1!Sets
      BY <3>1
    <3> QED
      BY <1>1, <1>2, <3>1, <3>2 DEF Dirt, At, Suits
  <2>2. ASSUME NEW b \in Dirt(L, L1Ways, L1Sets) PROVE b \in L1!Dirty(L)
    <3>1. PICK w \in L1!Ways : At(L, w, b, L1Sets) /\ L[w][b % L1Sets].dirty
      BY <1>1 DEF Dirt
    <3>2. b \in Block
      BY DEF Dirt
    <3>3. <<w, b % L1Sets>> \in L1!Valid(L)
      BY <1>3, <3>1, <3>2 DEF L1!Valid, At
    <3> QED
      BY <3>1, <3>3 DEF L1!Dirty, At
  <2> QED
    BY <2>1, <2>2
<1>6. ASSUME NEW p \in L1!Valid(L), NEW q \in L1!Valid(L),
             L[p[1]][p[2]].address = L[q[1]][q[2]].address
      PROVE  p = q
  <2>1. /\ p = <<p[1], p[2]>> /\ p[1] \in L1!Ways /\ p[2] \in L1!Sets /\ L[p[1]][p[2]].valid
        /\ q = <<q[1], q[2]>> /\ q[1] \in L1!Ways /\ q[2] \in L1!Sets /\ L[q[1]][q[2]].valid
    BY DEF L1!Valid
  <2>2. p[2] = q[2]
    BY <1>2, <1>6, <2>1 DEF Suits
  <2>3. p[1] = q[1]
    BY <1>1, <1>6, <2>1, <2>2 DEF Sound
  <2> QED
    BY <2>1, <2>2, <2>3
<1>7. ASSUME NEW b \in L1!Blocks(L) PROVE L1!Holds(L, b)
  <2>1. b \in Block /\ b \in In(L, L1Ways, L1Sets)
    BY <1>4 DEF In
  <2>2. Find(L, L1Ways, L1Sets, b) \in 0 .. L1Ways - 1
    BY <2>1, Geometry, FindRight
  <2> QED
    BY <2>2, Search1 DEF L1!Holds
<1>8. L \in [L1!Ways -> [L1!Sets -> L1!Entry]]
  BY <1>1 DEF Sound, Levels
<1> QED
  BY <1>4, <1>5, <1>6, <1>7, <1>8

LEMMA Level2 ==
  ASSUME NEW L, Sound(L, L2Ways, L2Sets)
  PROVE  /\ L \in [L2!Ways -> [L2!Sets -> L2!Entry]]
         /\ L2!Blocks(L) = In(L, L2Ways, L2Sets)
         /\ L2!Dirty(L) = Dirt(L, L2Ways, L2Sets)
         /\ \A p, q \in L2!Valid(L) : L[p[1]][p[2]].address = L[q[1]][q[2]].address => p = q
         /\ \A b \in L2!Blocks(L) : L2!Holds(L, b)
<1>1. L2!Ways = 0 .. L2Ways - 1 /\ L2!Sets = 0 .. L2Sets - 1 /\ L2!Entry = Entries
  BY DEF L2!Ways, L2!Sets, L2!Entry, Entries
<1>2. \A w \in L2!Ways, s \in L2!Sets : L[w][s].valid => Suits(L[w][s], s, L2Sets)
  BY <1>1 DEF Sound
<1>3. \A b \in Block : b % L2Sets \in L2!Sets
  BY <1>1, Geometry, SetOf
<1>4. L2!Blocks(L) = In(L, L2Ways, L2Sets)
  <2>1. ASSUME NEW b \in L2!Blocks(L) PROVE b \in In(L, L2Ways, L2Sets)
    <3>1. PICK p \in L2!Ways \X L2!Sets : L[p[1]][p[2]].valid /\ b = L[p[1]][p[2]].address
      BY <2>1 DEF L2!Blocks, L2!Valid
    <3>2. p[1] \in L2!Ways /\ p[2] \in L2!Sets
      BY <3>1
    <3> QED
      BY <1>1, <1>2, <3>1, <3>2 DEF In, At, Suits
  <2>2. ASSUME NEW b \in In(L, L2Ways, L2Sets) PROVE b \in L2!Blocks(L)
    <3>1. PICK w \in L2!Ways : At(L, w, b, L2Sets)
      BY <1>1 DEF In
    <3>2. b \in Block
      BY DEF In
    <3>3. <<w, b % L2Sets>> \in L2!Valid(L)
      BY <1>3, <3>1, <3>2 DEF L2!Valid, At
    <3> QED
      BY <3>1, <3>3 DEF L2!Blocks, At
  <2> QED
    BY <2>1, <2>2
<1>5. L2!Dirty(L) = Dirt(L, L2Ways, L2Sets)
  <2>1. ASSUME NEW b \in L2!Dirty(L) PROVE b \in Dirt(L, L2Ways, L2Sets)
    <3>1. PICK p \in L2!Ways \X L2!Sets :
            L[p[1]][p[2]].valid /\ L[p[1]][p[2]].dirty /\ b = L[p[1]][p[2]].address
      BY <2>1 DEF L2!Dirty, L2!Valid
    <3>2. p[1] \in L2!Ways /\ p[2] \in L2!Sets
      BY <3>1
    <3> QED
      BY <1>1, <1>2, <3>1, <3>2 DEF Dirt, At, Suits
  <2>2. ASSUME NEW b \in Dirt(L, L2Ways, L2Sets) PROVE b \in L2!Dirty(L)
    <3>1. PICK w \in L2!Ways : At(L, w, b, L2Sets) /\ L[w][b % L2Sets].dirty
      BY <1>1 DEF Dirt
    <3>2. b \in Block
      BY DEF Dirt
    <3>3. <<w, b % L2Sets>> \in L2!Valid(L)
      BY <1>3, <3>1, <3>2 DEF L2!Valid, At
    <3> QED
      BY <3>1, <3>3 DEF L2!Dirty, At
  <2> QED
    BY <2>1, <2>2
<1>6. ASSUME NEW p \in L2!Valid(L), NEW q \in L2!Valid(L),
             L[p[1]][p[2]].address = L[q[1]][q[2]].address
      PROVE  p = q
  <2>1. /\ p = <<p[1], p[2]>> /\ p[1] \in L2!Ways /\ p[2] \in L2!Sets /\ L[p[1]][p[2]].valid
        /\ q = <<q[1], q[2]>> /\ q[1] \in L2!Ways /\ q[2] \in L2!Sets /\ L[q[1]][q[2]].valid
    BY DEF L2!Valid
  <2>2. p[2] = q[2]
    BY <1>2, <1>6, <2>1 DEF Suits
  <2>3. p[1] = q[1]
    BY <1>1, <1>6, <2>1, <2>2 DEF Sound
  <2> QED
    BY <2>1, <2>2, <2>3
<1>7. ASSUME NEW b \in L2!Blocks(L) PROVE L2!Holds(L, b)
  <2>1. b \in Block /\ b \in In(L, L2Ways, L2Sets)
    BY <1>4 DEF In
  <2>2. Find(L, L2Ways, L2Sets, b) \in 0 .. L2Ways - 1
    BY <2>1, Geometry, FindRight
  <2> QED
    BY <2>2, Search2 DEF L2!Holds
<1>8. L \in [L2!Ways -> [L2!Sets -> L2!Entry]]
  BY <1>1 DEF Sound, Levels
<1> QED
  BY <1>4, <1>5, <1>6, <1>7, <1>8
-----------------------------------------------------------------------------
(* The clock ticks three times in an access at most, so in a trace of a    *)
(* third as many accesses as UINT32_MAX no entry carries that time.        *)
TraceFits == 3 * MaxAccesses < UintMax

(* The inductive invariant. *)
CacheInv ==
  /\ Good(cache)
  /\ l1_access \in 0 .. MaxAccesses
  /\ pseudo_cycle <= 3 * l1_access
  /\ D(cache) = written

LEMMA CacheInvInit == ASSUME TraceFits PROVE Init => CacheInv
<1> SUFFICES ASSUME Init PROVE CacheInv
  OBVIOUS
<1>1. MaxAccesses \in Nat /\ UintMax \in Nat /\ 0 < UintMax
  BY CyclesAssumption, Geometry DEF TraceFits
<1>2. /\ cache.l1 = L1!EmptyLevel /\ cache.l2 = L2!EmptyLevel
      /\ cache.pseudo_cycle = 0 /\ cache.crashed = FALSE
      /\ cache = [l1 |-> cache.l1, l2 |-> cache.l2, pseudo_cycle |-> 0, crashed |-> FALSE]
  BY DEF Init, cache
<1>3. /\ cache.l1 \in Levels(L1Ways, L1Sets)
      /\ \A w \in 0 .. L1Ways - 1, s \in 0 .. L1Sets - 1 :
           ~cache.l1[w][s].valid /\ cache.l1[w][s].last_accessed_time = 0
  BY <1>1, <1>2 DEF L1!EmptyLevel, L1!Ways, L1!Sets, Levels, Entries
<1>4. /\ cache.l2 \in Levels(L2Ways, L2Sets)
      /\ \A w \in 0 .. L2Ways - 1, s \in 0 .. L2Sets - 1 :
           ~cache.l2[w][s].valid /\ cache.l2[w][s].last_accessed_time = 0
  BY <1>1, <1>2 DEF L2!EmptyLevel, L2!Ways, L2!Sets, Levels, Entries
<1>5. \A b \in Block : b % L1Sets \in 0 .. L1Sets - 1 /\ b % L2Sets \in 0 .. L2Sets - 1
  BY Geometry, SetOf
<1>6. Sound(cache.l1, L1Ways, L1Sets) /\ B1(cache) = {} /\ D1(cache) = {}
  BY <1>1, <1>3, <1>5 DEF Sound, B1, D1, In, Dirt, At
<1>7. Sound(cache.l2, L2Ways, L2Sets) /\ B2(cache) = {} /\ D2(cache) = {}
  BY <1>1, <1>4, <1>5 DEF Sound, B2, D2, In, Dirt, At
<1>8. cache \in Caches
  <2>1. PICK l, m : l = cache.l1 /\ m = cache.l2
    OBVIOUS
  <2>2. l \in Levels(L1Ways, L1Sets) /\ m \in Levels(L2Ways, L2Sets) /\ 0 \in 0 .. UintMax
    BY <1>1, <1>3, <1>4, <2>1
  <2>3. cache = [l1 |-> l, l2 |-> m, pseudo_cycle |-> 0, crashed |-> FALSE]
    BY <1>2, <2>1
  <2> QED
    BY <2>2, <2>3 DEF Caches
<1>9. Good(cache)
  BY <1>2, <1>6, <1>7, <1>8 DEF Good
<1> QED
  BY <1>1, <1>6, <1>7, <1>9 DEF CacheInv, Init, D

(* Any access whose effect on the levels is right keeps the invariant. *)
LEMMA CacheInvAccess ==
  ASSUME TraceFits, CacheInv, NEW b \in Block, Count(b), l1_access < MaxAccesses,
         NEW d, Good(d), d.pseudo_cycle <= cache.pseudo_cycle + 3, Become(d),
         D(d) = written'
  PROVE  CacheInv'
<1>1. /\ l1_access' = l1_access + 1 /\ l1_access \in 0 .. MaxAccesses
      /\ MaxAccesses \in Nat /\ pseudo_cycle <= 3 * l1_access
  BY CyclesAssumption DEF Count, CacheInv
<1>2. d \in Caches
  BY DEF Good
<1>3. cache' = d
  BY <1>2 DEF cache, Become, Caches
<1>4. d.pseudo_cycle \in Int /\ pseudo_cycle \in Int /\ cache.pseudo_cycle = pseudo_cycle
  <2>1. cache.pseudo_cycle = pseudo_cycle
    BY DEF cache
  <2>2. cache.pseudo_cycle \in 0 .. UintMax /\ d.pseudo_cycle \in 0 .. UintMax
    BY BlocksOf DEF CacheInv
  <2> QED
    BY <2>1, <2>2
<1>5. pseudo_cycle' <= 3 * l1_access' /\ l1_access' \in 0 .. MaxAccesses
  BY <1>1, <1>4 DEF Become
<1>6. Good(cache') /\ D(cache') = written'
  BY <1>3
<1> QED
  BY <1>5, <1>6 DEF CacheInv

(* Before an access there is time for it. *)
LEMMA RoomForAccess ==
  ASSUME TraceFits, CacheInv, l1_access < MaxAccesses
  PROVE  /\ Good(cache) /\ cache.pseudo_cycle + 2 < UintMax
         /\ D(cache) = written
<1>1. cache.pseudo_cycle = pseudo_cycle
  BY DEF cache
<1>2. cache.pseudo_cycle \in 0 .. UintMax
  BY BlocksOf DEF CacheInv
<1>3. l1_access \in Int /\ MaxAccesses \in Nat /\ UintMax \in Nat
  BY CyclesAssumption, Geometry DEF CacheInv
<1> QED
  BY <1>1, <1>2, <1>3 DEF CacheInv, TraceFits

LEMMA CacheInvNext ==
  ASSUME TraceFits PROVE CacheInv /\ [Next]_vars => CacheInv'
<1> SUFFICES ASSUME CacheInv, [Next]_vars PROVE CacheInv'
  OBVIOUS
<1>1. ASSUME NEW b \in Block, cacheRead(b) PROVE CacheInv'
  <2>1. /\ Count(b) /\ l1_access < MaxAccesses
        /\ Become(AfterRead(cache, b))
        /\ written' = written \cap L2!Blocks(l2')
    BY <1>1 DEF cacheRead
  <2>2. PICK d : d = AfterRead(cache, b)
    OBVIOUS
  <2>3. Good(cache) /\ cache.pseudo_cycle + 2 < UintMax /\ D(cache) = written
    BY <2>1, RoomForAccess
  <2>4. Good(d) /\ d.pseudo_cycle <= cache.pseudo_cycle + 3 /\ D(d) = D(cache) \cap B2(d)
    <3>1. PICK c : c = cache
      OBVIOUS
    <3>2. Good(c) /\ c.pseudo_cycle + 2 < UintMax /\ d = AfterRead(c, b)
      BY <2>2, <2>3, <3>1
    <3>3. Accessed(c, d, D(c))
      BY <3>2, ReadRight, Zenon
    <3> QED
      BY <3>1, <3>3 DEF Accessed
  <2>5. Become(d)
    BY <2>1, <2>2
  <2>6. L2!Blocks(l2') = B2(d)
    <3>1. Sound(d.l2, L2Ways, L2Sets) /\ l2' = d.l2
      BY <2>4, <2>5 DEF Good, Become
    <3> QED
      BY <3>1, Level2 DEF B2
  <2>7. D(d) = written'
    BY <2>1, <2>3, <2>4, <2>6
  <2> QED
    BY <2>1, <2>4, <2>5, <2>7, CacheInvAccess
<1>2. ASSUME NEW b \in Block, cacheWrite(b) PROVE CacheInv'
  <2>1. /\ Count(b) /\ l1_access < MaxAccesses
        /\ Become(AfterWrite(cache, b))
        /\ written' = (written \cup {b}) \cap L2!Blocks(l2')
    BY <1>2 DEF cacheWrite
  <2>2. PICK d : d = AfterWrite(cache, b)
    OBVIOUS
  <2>3. Good(cache) /\ cache.pseudo_cycle + 2 < UintMax /\ D(cache) = written
    BY <2>1, RoomForAccess
  <2>4. Good(d) /\ d.pseudo_cycle <= cache.pseudo_cycle + 3
        /\ D(d) = (D(cache) \cup {b}) \cap B2(d)
    <3>1. PICK c : c = cache
      OBVIOUS
    <3>2. Good(c) /\ c.pseudo_cycle + 2 < UintMax /\ d = AfterWrite(c, b)
      BY <2>2, <2>3, <3>1
    <3>3. Accessed(c, d, D(c) \cup {b})
      BY <3>2, WriteRight, Zenon
    <3> QED
      BY <3>1, <3>3 DEF Accessed
  <2>5. Become(d)
    BY <2>1, <2>2
  <2>6. L2!Blocks(l2') = B2(d)
    <3>1. Sound(d.l2, L2Ways, L2Sets) /\ l2' = d.l2
      BY <2>4, <2>5 DEF Good, Become
    <3> QED
      BY <3>1, Level2 DEF B2
  <2>7. D(d) = written'
    BY <2>1, <2>3, <2>4, <2>6
  <2> QED
    BY <2>1, <2>4, <2>5, <2>7, CacheInvAccess
<1>3. CASE UNCHANGED vars
  <2>1. UNCHANGED <<l1, l2, pseudo_cycle, crashed, l1_access, written>>
    BY <1>3 DEF vars, counters
  <2>2. cache' = cache
    BY <2>1 DEF cache
  <2> QED
    BY <2>1, <2>2 DEF CacheInv
<1> QED
  BY <1>1, <1>2, <1>3 DEF Next, Finished

(* For every number of ways and sets and every trace of less than a third  *)
(* of UINT32_MAX accesses: no two ways of a set hold one block, every      *)
(* search finds what it looks for, what L1 holds L2 holds, and no access   *)
(* goes through a pointer that is null or was never set                    *)
(* (cacheSim.cpp:158-333).                                                 *)
THEOREM CoherentCorrect == ASSUME TraceFits PROVE Spec => []Coherent
<1>1. Init => CacheInv
  BY CacheInvInit
<1>2. CacheInv /\ [Next]_vars => CacheInv'
  BY CacheInvNext
<1>3. CacheInv => Coherent
  <2> SUFFICES ASSUME CacheInv PROVE Coherent
    OBVIOUS
  <2>1. /\ Sound(l1, L1Ways, L1Sets) /\ Sound(l2, L2Ways, L2Sets)
        /\ In(l1, L1Ways, L1Sets) \subseteq In(l2, L2Ways, L2Sets)
        /\ ~crashed
    BY DEF CacheInv, Good, cache, B1, B2
  <2>2. OnePlace
    BY <2>1, Level1, Level2 DEF OnePlace
  <2>3. Inclusion
    BY <2>1, Level1, Level2 DEF Inclusion
  <2> QED
    BY <2>1, <2>2, <2>3 DEF Coherent, NoBadPointer
<1> QED
  BY <1>1, <1>2, <1>3, PTL DEF Spec

(* In the same traces no write is lost: the blocks the cache holds newer   *)
(* than memory are exactly the dirty ones, wherever blocks are copied,     *)
(* written back or driven out (cacheSim.cpp:270-455).                      *)
THEOREM WritesKeptCorrect == ASSUME TraceFits PROVE Spec => []WritesKept
<1>1. Init => CacheInv
  BY CacheInvInit
<1>2. CacheInv /\ [Next]_vars => CacheInv'
  BY CacheInvNext
<1>3. CacheInv => WritesKept
  <2> SUFFICES ASSUME CacheInv PROVE WritesKept
    OBVIOUS
  <2>1. /\ Sound(l1, L1Ways, L1Sets) /\ Sound(l2, L2Ways, L2Sets)
        /\ D(cache) = written /\ D(cache) \subseteq B2(cache)
    BY BlocksOf DEF CacheInv, Good, cache
  <2>2. L1!Dirty(l1) \cup L2!Dirty(l2) = D(cache) /\ L2!Blocks(l2) = B2(cache)
    BY <2>1, Level1, Level2 DEF D, D1, D2, B2, cache
  <2> QED
    BY <2>1, <2>2 DEF WritesKept
<1> QED
  BY <1>1, <1>2, <1>3, PTL DEF Spec
-----------------------------------------------------------------------------
(* Types and counters need no bound on the trace.                          *)
LEMMA TickType == \A n \in 0 .. UintMax : Tick(n) \in 0 .. UintMax
<1> TAKE n \in 0 .. UintMax
<1>1. UintMax + 1 \in Nat \ {0} /\ n + 1 \in Nat
  BY Geometry
<1>2. \A m \in Nat \ {0}, k \in Nat : k % m \in 0 .. m - 1
  OBVIOUS
<1>3. (n + 1) % (UintMax + 1) \in 0 .. (UintMax + 1) - 1
  BY <1>1, <1>2, Zenon
<1>4. (UintMax + 1) - 1 = UintMax
  BY Geometry
<1> QED
  BY <1>3, <1>4, Zenon DEF Tick

(* An entry that changes, if it is one of the level. *)
LEMMA LevelType ==
  ASSUME NEW W \in Nat \ {0}, NEW N \in Nat \ {0}, NEW L \in Levels(W, N), NEW w, NEW s
  PROVE  /\ [L EXCEPT ![w][s].dirty = TRUE] \in Levels(W, N)
         /\ [L EXCEPT ![w][s].valid = FALSE] \in Levels(W, N)
         /\ \A t \in 0 .. UintMax : [L EXCEPT ![w][s].last_accessed_time = t] \in Levels(W, N)
         /\ \A e \in Entries : [L EXCEPT ![w][s] = e] \in Levels(W, N)
<1>1. ASSUME NEW e, w \in 0 .. W - 1 /\ s \in 0 .. N - 1 => e \in Entries
      PROVE  [L EXCEPT ![w][s] = e] \in Levels(W, N)
  BY <1>1 DEF Levels
<1>2. ASSUME w \in 0 .. W - 1, s \in 0 .. N - 1
      PROVE  /\ [L[w][s] EXCEPT !.dirty = TRUE] \in Entries
             /\ [L[w][s] EXCEPT !.valid = FALSE] \in Entries
             /\ \A t \in 0 .. UintMax : [L[w][s] EXCEPT !.last_accessed_time = t] \in Entries
  <2>1. L[w][s] \in Entries
    BY <1>2 DEF Levels
  <2> QED
    BY <2>1 DEF Entries
<1> QED
  BY <1>1, <1>2

LEMMA OperationsType ==
  ASSUME NEW c \in Caches, NEW w, NEW b \in Nat
  PROVE  /\ TouchL1(c, w, b) \in Caches /\ TouchL2(c, w, b) \in Caches
         /\ MarkL1(c, w, b) \in Caches /\ MarkL2(c, w, b) \in Caches
         /\ InsertL1(c, w, b) \in Caches /\ InsertL2(c, w, b) \in Caches
         /\ Invalidate(c, b) \in Caches /\ Crash(c) \in Caches
<1>1. /\ c.l1 \in Levels(L1Ways, L1Sets) /\ c.l2 \in Levels(L2Ways, L2Sets)
      /\ c.pseudo_cycle \in 0 .. UintMax /\ Tick(c.pseudo_cycle) \in 0 .. UintMax
      /\ c.crashed \in BOOLEAN
  BY FieldsOf, TickType
<1>2. /\ Fresh(b \div L1Sets, c.pseudo_cycle, b) \in Entries
      /\ Fresh(b \div L2Sets, c.pseudo_cycle, b) \in Entries
  <2>1. \A n \in Nat, m \in Nat \ {0} : n \div m \in Nat
    OBVIOUS
  <2>2. b \div L1Sets \in Nat /\ b \div L2Sets \in Nat
    BY <2>1, Geometry
  <2> QED
    BY <1>1, <2>2 DEF Fresh, Entries
<1>3. ASSUME NEW L \in Levels(L1Ways, L1Sets), NEW t \in 0 .. UintMax
      PROVE  [c EXCEPT !.l1 = L] \in Caches /\ [c EXCEPT !.l1 = L, !.pseudo_cycle = t] \in Caches
  BY <1>1 DEF Caches
<1>4. ASSUME NEW L \in Levels(L2Ways, L2Sets), NEW t \in 0 .. UintMax
      PROVE  [c EXCEPT !.l2 = L] \in Caches /\ [c EXCEPT !.l2 = L, !.pseudo_cycle = t] \in Caches
  BY <1>1 DEF Caches
<1> DEFINE r == b % L1Sets
           s == b % L2Sets
<1>5. TouchL1(c, w, b) \in Caches /\ InsertL1(c, w, b) \in Caches
  <2>1. /\ [c.l1 EXCEPT ![w][r].last_accessed_time = c.pseudo_cycle] \in Levels(L1Ways, L1Sets)
        /\ [c.l1 EXCEPT ![w][r] = Fresh(b \div L1Sets, c.pseudo_cycle, b)]
             \in Levels(L1Ways, L1Sets)
    BY <1>1, <1>2, LevelType, Geometry
  <2> QED
    BY <1>1, <1>3, <2>1, Search1 DEF TouchL1, InsertL1, Caches
<1>6. TouchL2(c, w, b) \in Caches /\ InsertL2(c, w, b) \in Caches
  <2>1. /\ [c.l2 EXCEPT ![w][s].last_accessed_time = c.pseudo_cycle] \in Levels(L2Ways, L2Sets)
        /\ [c.l2 EXCEPT ![w][s] = Fresh(b \div L2Sets, c.pseudo_cycle, b)]
             \in Levels(L2Ways, L2Sets)
    BY <1>1, <1>2, LevelType, Geometry
  <2> QED
    BY <1>1, <1>4, <2>1, Search2 DEF TouchL2, InsertL2, Caches
<1>7. MarkL1(c, w, b) \in Caches /\ MarkL2(c, w, b) \in Caches
  <2>1. /\ [c.l1 EXCEPT ![w][r].dirty = TRUE] \in Levels(L1Ways, L1Sets)
        /\ [c.l2 EXCEPT ![w][s].dirty = TRUE] \in Levels(L2Ways, L2Sets)
    BY <1>1, LevelType, Geometry
  <2> QED
    BY <1>1, <1>3, <1>4, <2>1, Search1, Search2 DEF MarkL1, MarkL2, Caches
<1>8. Invalidate(c, b) \in Caches
  <2> DEFINE v == L1!blockExists(c.l1, b)
  <2>1. [c.l1 EXCEPT ![v][r].valid = FALSE] \in Levels(L1Ways, L1Sets)
    BY <1>1, LevelType, Geometry
  <2>2. Invalidate(c, b) = c \/ Invalidate(c, b) = [c EXCEPT !.l1[v][r].valid = FALSE]
    BY Search1 DEF Invalidate
  <2> HIDE DEF v
  <2> QED
    BY <1>1, <1>3, <2>1, <2>2 DEF Caches
<1>9. Crash(c) \in Caches
  BY <1>1 DEF Crash, Caches
<1> QED
  BY <1>5, <1>6, <1>7, <1>8, <1>9

(* The way a victim was found in is one of the level's, so the victim is   *)
(* an entry.                                                               *)
LEMMA VictimType ==
  ASSUME NEW W \in Nat \ {0}, NEW N \in Nat \ {0}, NEW L \in Levels(W, N), NEW b \in Nat,
         Spot(L, W, b % N) # -1
  PROVE  L[Spot(L, W, b % N)][b % N] \in Entries
<1> DEFINE s == b % N
<1>1. s \in 0 .. N - 1
  OBVIOUS
<1>2. Free(L, W, s) \subseteq Nat /\ Oldest(L, W, s) \subseteq Nat
      /\ Free(L, W, s) \subseteq 0 .. W - 1 /\ Oldest(L, W, s) \subseteq 0 .. W - 1
  BY DEF Free, Oldest
<1>3. Free(L, W, s) # {} => Least(Free(L, W, s)) \in Free(L, W, s)
  BY <1>2, LeastIn
<1>4. Oldest(L, W, s) # {} => Least(Oldest(L, W, s)) \in Oldest(L, W, s)
  BY <1>2, LeastIn
<1>5. Spot(L, W, s) \in 0 .. W - 1
  BY <1>2, <1>3, <1>4 DEF Spot
<1> HIDE DEF s
<1>6. L[Spot(L, W, s)][s] \in Entries
  <2>1. PICK w \in 0 .. W - 1 : w = Spot(L, W, s)
    BY <1>5
  <2>2. L[w][s] \in Entries
    BY <1>1 DEF Levels
  <2> QED
    BY <2>1, <2>2
<1> QED
  BY <1>6 DEF s

LEMMA FetchType ==
  ASSUME NEW c \in Caches, NEW b \in Nat
  PROVE  fetchToL1(c, b) \in Caches
<1> DEFINE w == L1!getEntryForNewBlock(c.l1, b)
           victim == c.l1[w][b % L1Sets]
           x == WriteBack(c, victim.address)
<1>1. \/ fetchToL1(c, b) = Crash(c) \/ fetchToL1(c, b) = InsertL1(c, w, b)
      \/ w # L1!NULL /\ fetchToL1(c, b) = InsertL1(x, w, b)
  <2>1. L1!getSet(b) = b % L1Sets
    BY Search1
  <2> QED
    BY <2>1, Zenon DEF fetchToL1
<1>2. ASSUME w # L1!NULL PROVE x \in Caches
  <2>1. victim \in Entries
    <3>1. c.l1 \in Levels(L1Ways, L1Sets) /\ w = Spot(c.l1, L1Ways, b % L1Sets)
          /\ w # -1
      BY <1>2, FieldsOf, Search1
    <3> QED
      BY <3>1, Geometry, VictimType
  <2>2. victim.address \in Nat
    BY <2>1 DEF Entries
  <2>3. PICK v \in Nat : v = victim.address
    BY <2>2
  <2> DEFINE u == L2!blockExists(c.l2, v)
  <2>4. x = Crash(c) \/ x = TouchL2(MarkL2(c, u, v), u, v)
    BY <2>3 DEF WriteBack
  <2> HIDE DEF u, x
  <2>5. MarkL2(c, u, v) \in Caches /\ Crash(c) \in Caches
    BY OperationsType
  <2>6. TouchL2(MarkL2(c, u, v), u, v) \in Caches
    BY <2>5, OperationsType
  <2> QED
    BY <2>4, <2>5, <2>6
<1> HIDE DEF w, x
<1>3. Crash(c) \in Caches /\ InsertL1(c, w, b) \in Caches
  BY OperationsType
<1>4. w # L1!NULL => InsertL1(x, w, b) \in Caches
  BY <1>2, OperationsType
<1> QED
  BY <1>1, <1>3, <1>4

LEMMA FetchMemoryType ==
  ASSUME NEW c \in Caches, NEW b \in Nat
  PROVE  fetchBlockFromMemory(c, b) \in Caches
<1> DEFINE w == L2!getEntryForNewBlock(c.l2, b)
           victim == c.l2[w][b % L2Sets]
           x == Invalidate(c, victim.address)
           d == fetchBlockFromMemory(c, b)
<1>1. \/ d = Crash(c) \/ d = fetchToL1(InsertL2(c, w, b), b)
      \/ w # L2!NULL /\ d = fetchToL1(InsertL2(x, w, b), b)
  <2>1. L2!getSet(b) = b % L2Sets
    BY Search2
  <2> QED
    BY <2>1, Zenon DEF fetchBlockFromMemory
<1>2. ASSUME w # L2!NULL PROVE x \in Caches
  <2>1. victim \in Entries
    <3>1. c.l2 \in Levels(L2Ways, L2Sets) /\ w = Spot(c.l2, L2Ways, b % L2Sets)
          /\ w # -1
      BY <1>2, FieldsOf, Search2
    <3> QED
      BY <3>1, Geometry, VictimType
  <2>2. PICK v \in Nat : v = victim.address
    BY <2>1 DEF Entries
  <2>3. Invalidate(c, v) \in Caches
    BY OperationsType
  <2> QED
    BY <2>2, <2>3
<1> HIDE DEF w, x, d
<1>3. Crash(c) \in Caches /\ InsertL2(c, w, b) \in Caches
  BY OperationsType
<1>4. w # L2!NULL => InsertL2(x, w, b) \in Caches
  BY <1>2, OperationsType
<1>5. d \in Caches
  BY <1>1, <1>3, <1>4, FetchType
<1> QED
  BY <1>5 DEF d

LEMMA AccessType ==
  ASSUME NEW c \in Caches, NEW b \in Nat
  PROVE  AfterRead(c, b) \in Caches /\ AfterWrite(c, b) \in Caches
<1> DEFINE w1 == L1!blockExists(c.l1, b)
           w2 == L2!blockExists(c.l2, b)
<1>1. /\ TouchL1(c, w1, b) \in Caches /\ TouchL2(c, w2, b) \in Caches
      /\ MarkL1(c, w1, b) \in Caches
  BY OperationsType
<1>2. /\ fetchToL1(TouchL2(c, w2, b), b) \in Caches
      /\ fetchBlockFromMemory(c, b) \in Caches
      /\ TouchL1(MarkL1(c, w1, b), w1, b) \in Caches
      /\ MarkL2(TouchL2(c, w2, b), w2, b) \in Caches
  BY <1>1, FetchType, FetchMemoryType, OperationsType
<1>3. AfterRead(c, b) \in Caches
  BY <1>1, <1>2, Zenon DEF AfterRead
<1>4. \A x \in Caches : MarkFetched(x, b) \in Caches
  BY OperationsType DEF MarkFetched
<1>5. /\ MarkFetched(fetchToL1(TouchL2(c, w2, b), b), b) \in Caches
      /\ MarkFetched(fetchBlockFromMemory(c, b), b) \in Caches
  BY <1>2, <1>4
<1>6. AfterWrite(c, b) \in Caches
  BY <1>1, <1>2, <1>5, Zenon DEF AfterWrite
<1> QED
  BY <1>3, <1>6

TypeInv == cache \in Caches /\ written \subseteq Block

LEMMA TypeInvNext == TypeInv /\ [Next]_vars => TypeInv'
<1> SUFFICES ASSUME TypeInv, [Next]_vars PROVE TypeInv'
  OBVIOUS
<1>1. ASSUME NEW b \in Block, cacheRead(b) \/ cacheWrite(b) PROVE TypeInv'
  <2>1. b \in Nat
    BY BlockAssumption
  <2>2. PICK c : c = cache
    OBVIOUS
  <2>3. c \in Caches
    BY <2>2 DEF TypeInv
  <2>4. AfterRead(c, b) \in Caches /\ AfterWrite(c, b) \in Caches
    BY <2>1, <2>3, AccessType
  <2>5. PICK d : d \in Caches /\ Become(d)
    <3>1. Become(AfterRead(c, b)) \/ Become(AfterWrite(c, b))
      BY <1>1, <2>2, Zenon DEF cacheRead, cacheWrite
    <3> QED
      BY <2>4, <3>1
  <2>6. cache' = d
    BY <2>5 DEF cache, Become, Caches
  <2>7. written' \subseteq Block
    BY <1>1 DEF cacheRead, cacheWrite, TypeInv
  <2> QED
    BY <2>5, <2>6, <2>7 DEF TypeInv
<1>2. CASE UNCHANGED vars
  BY <1>2 DEF TypeInv, vars, cache
<1> QED
  BY <1>1, <1>2 DEF Next, Finished

(* Every reachable state is well typed, traces of any length included. *)
THEOREM TypeCorrect == Spec => []TypeOK
<1>1. Init => TypeInv
  <2> SUFFICES ASSUME Init PROVE TypeInv
    OBVIOUS
  <2>1. L1!EmptyLevel \in Levels(L1Ways, L1Sets) /\ L2!EmptyLevel \in Levels(L2Ways, L2Sets)
    BY Geometry DEF L1!EmptyLevel, L1!Ways, L1!Sets, L2!EmptyLevel, L2!Ways, L2!Sets,
                    Levels, Entries
  <2>2. 0 \in 0 .. UintMax
    BY Geometry
  <2> QED
    BY <2>1, <2>2 DEF Init, TypeInv, cache, Caches
<1>2. TypeInv /\ [Next]_vars => TypeInv'
  BY TypeInvNext
<1>3. TypeInv => TypeOK
  <2> SUFFICES ASSUME TypeInv PROVE TypeOK
    OBVIOUS
  <2>1. /\ l1 \in Levels(L1Ways, L1Sets) /\ l2 \in Levels(L2Ways, L2Sets)
        /\ pseudo_cycle \in 0 .. UintMax /\ crashed \in BOOLEAN
    BY FieldsOf DEF TypeInv, cache
  <2>2. Levels(L1Ways, L1Sets) = [L1!Ways -> [L1!Sets -> L1!Entry]]
    BY DEF Levels, Entries, L1!Ways, L1!Sets, L1!Entry
  <2>3. Levels(L2Ways, L2Sets) = [L2!Ways -> [L2!Sets -> L2!Entry]]
    BY DEF Levels, Entries, L2!Ways, L2!Sets, L2!Entry
  <2> QED
    BY <2>1, <2>2, <2>3 DEF TypeOK, TypeInv
<1> QED
  BY <1>1, <1>2, <1>3, PTL DEF Spec

(* The counters with what makes the first access miss: until then L1 holds *)
(* nothing.                                                                *)
AccountingInv ==
  /\ l1_access \in Nat /\ l1_miss \in Nat /\ l2_access \in Nat /\ l2_miss \in Nat
  /\ AccountingExact
  /\ l1_access = 0 => l1 = L1!EmptyLevel

LEMMA NothingHeld ==
  ASSUME NEW b \in Block PROVE ~L1!Holds(L1!EmptyLevel, b)
<1>1. b % L1Sets \in L1!Sets
  BY Geometry, SetOf DEF L1!Sets
<1>2. Hits(L1!EmptyLevel, L1Ways, L1Sets, b) = {}
  BY <1>1 DEF Hits, L1!EmptyLevel, L1!Ways
<1> QED
  BY <1>2, Search1 DEF L1!Holds, Find

LEMMA AccountingNext == AccountingInv /\ [Next]_vars => AccountingInv'
<1> SUFFICES ASSUME AccountingInv, [Next]_vars PROVE AccountingInv'
  OBVIOUS
<1> USE CyclesAssumption
<1>1. ASSUME NEW b \in Block, Count(b) PROVE AccountingInv'
  <2>1. PICK m1 \in {0, 1}, m2 \in {0, 1} :
          /\ m1 = 0 => L1!Holds(l1, b)
          /\ m2 <= m1
          /\ l1_access' = l1_access + 1 /\ l1_miss' = l1_miss + m1
          /\ l2_access' = l2_access + m1 /\ l2_miss' = l2_miss + m2
          /\ t_access_total' = t_access_total + L1Cyc + m1 * L2Cyc + m2 * MemCyc
    <3>1. CASE L1!Holds(l1, b)
      BY <1>1, <3>1 DEF Count
    <3>2. CASE ~L1!Holds(l1, b) /\ L2!Holds(l2, b)
      BY <1>1, <3>2 DEF Count
    <3>3. CASE ~L1!Holds(l1, b) /\ ~L2!Holds(l2, b)
      BY <1>1, <3>3 DEF Count
    <3> QED
      BY <3>1, <3>2, <3>3
  <2>2. l1_access = 0 => m1 = 1
    BY <2>1, NothingHeld DEF AccountingInv
  <2>3. /\ l1_access \in Nat /\ l1_miss \in Nat /\ l2_access \in Nat /\ l2_miss \in Nat
        /\ l1_access > 0 => l2_access > 0
        /\ l2_access = l1_miss /\ l2_miss <= l2_access
        /\ t_access_total = l1_access * L1Cyc + l2_access * L2Cyc + l2_miss * MemCyc
    BY DEF AccountingInv, AccountingExact
  <2>4. /\ l1_access' \in Nat /\ l1_access' # 0 /\ l1_miss' \in Nat
        /\ l2_access' \in Nat /\ l2_miss' \in Nat
        /\ l1_access' > 0 => l2_access' > 0
        /\ l2_access' = l1_miss' /\ l2_miss' <= l2_access'
    BY <2>1, <2>2, <2>3
  <2>5. t_access_total' = l1_access' * L1Cyc + l2_access' * L2Cyc + l2_miss' * MemCyc
    <3>1. \A n, m, k \in Nat : (n + m) * k = n * k + m * k
      OBVIOUS
    <3>2. /\ l1_access' * L1Cyc = l1_access * L1Cyc + 1 * L1Cyc
          /\ l2_access' * L2Cyc = l2_access * L2Cyc + m1 * L2Cyc
          /\ l2_miss' * MemCyc = l2_miss * MemCyc + m2 * MemCyc
      BY <2>1, <2>3, <3>1
    <3>3. /\ l1_access * L1Cyc \in Nat /\ l2_access * L2Cyc \in Nat /\ l2_miss * MemCyc \in Nat
          /\ m1 * L2Cyc \in Nat /\ m2 * MemCyc \in Nat /\ 1 * L1Cyc = L1Cyc
      BY <2>1, <2>3
    <3> QED
      BY <2>1, <2>3, <3>2, <3>3
  <2> QED
    BY <2>4, <2>5 DEF AccountingInv, AccountingExact
<1>2. CASE UNCHANGED vars
  BY <1>2 DEF AccountingInv, AccountingExact, vars, counters
<1> QED
  BY <1>1, <1>2 DEF Next, Finished, cacheRead, cacheWrite

(* Whatever the trace, every miss of L1 is one access to L2, the total     *)
(* time is that of the accesses each level and the memory saw, and after   *)
(* any access no rate divides by zero (cacheSim.cpp:336-455, 588-590).     *)
THEOREM AccountingCorrect == Spec => []AccountingExact
<1>1. Init => AccountingInv
  BY CyclesAssumption DEF Init, AccountingInv, AccountingExact
<1>2. AccountingInv /\ [Next]_vars => AccountingInv'
  BY AccountingNext
<1>3. AccountingInv => AccountingExact
  BY DEF AccountingInv
<1> QED
  BY <1>1, <1>2, <1>3, PTL DEF Spec
-----------------------------------------------------------------------------
(* The order in which the blocks of each set of a level were last used.    *)
Stamp(L, w, b, N) == L[w][b % N].last_accessed_time

Order(L, W, N) ==
  {p \in Block \X Block :
     /\ p[1] % N = p[2] % N
     /\ \E v, w \in 0 .. W - 1 : /\ At(L, v, p[1], N) /\ At(L, w, p[2], N)
                                 /\ Stamp(L, v, p[1], N) >= Stamp(L, w, p[2], N)}

(* The valid entries of a set were used at different times, all before t.  *)
Stamped(L, W, N, t) ==
  \A v \in 0 .. W - 1, s \in 0 .. N - 1 : L[v][s].valid =>
    /\ L[v][s].last_accessed_time < t
    /\ \A w \in 0 .. W - 1 :
         L[w][s].valid /\ L[w][s].last_accessed_time = L[v][s].last_accessed_time => w = v

LEMMA OrderPair ==
  ASSUME NEW W, NEW N, NEW L, NEW a, NEW b
  PROVE  <<a, b>> \in Order(L, W, N) <=>
           /\ a \in Block /\ b \in Block /\ a % N = b % N
           /\ \E v, w \in 0 .. W - 1 : /\ At(L, v, a, N) /\ At(L, w, b, N)
                                       /\ Stamp(L, v, a, N) >= Stamp(L, w, b, N)
  BY DEF Order

LEMMA OrderIsPairs ==
  ASSUME NEW W, NEW N, NEW L, NEW p \in Order(L, W, N)
  PROVE  p = <<p[1], p[2]>> /\ p[1] \in Block /\ p[2] \in Block
  BY DEF Order

(* What is used, or taken out, in terms of pairs. *)
LEMMA WithoutPair ==
  ASSUME NEW r, NEW out, NEW a, NEW b
  PROVE  <<a, b>> \in LRU!Without(r, out) <=> <<a, b>> \in r /\ a \notin out /\ b \notin out
  BY DEF LRU!Without

(* One block is used. *)
Using(r, x, N) == LRU!Use(r, {x}, N)

LEMMA UsePair ==
  ASSUME NEW r, NEW x, NEW N, NEW a, NEW b
  PROVE  <<a, b>> \in Using(r, x, N) <=>
           \/ (<<a, b>> \in r /\ a # x /\ b # x)
           \/ (a = x /\ (b = x \/ (b \in Block /\ <<b, b>> \in r /\ b % N = x % N)))
<1>1. <<a, b>> \in LRU!Without(r, {x}) <=> <<a, b>> \in r /\ a # x /\ b # x
  BY WithoutPair
<1>2. UNION {{y} \X (LRU!Mates(r, y, N) \cup {y}) : y \in {x}} = {x} \X (LRU!Mates(r, x, N) \cup {x})
  OBVIOUS
<1> QED
  BY <1>1, <1>2 DEF Using, LRU!Use, LRU!Mates, LRU!Has

LEMMA UseNothing ==
  ASSUME NEW r, NEW N PROVE LRU!Use(r, {}, N) = r /\ LRU!Without(r, {}) = r
  BY DEF LRU!Use, LRU!Without

LEMMA Within ==
  ASSUME NEW r, r \subseteq Block \X Block, NEW x \in Block, NEW out, NEW N
  PROVE  /\ LRU!Without(r, out) \subseteq Block \X Block
         /\ Using(r, x, N) \subseteq Block \X Block
  BY DEF LRU!Without, LRU!Use, LRU!Mates, Using

(* A block that is used is taken out of its place first. *)
LEMMA UseAgain ==
  ASSUME NEW r, r \subseteq Block \X Block, NEW x \in Block, NEW N
  PROVE  Using(LRU!Without(r, {x}), x, N) = Using(r, x, N)
<1> DEFINE q == LRU!Without(r, {x})
           R == Using(q, x, N)
           Q == Using(r, x, N)
<1>1. \A a, b : <<a, b>> \in q <=> <<a, b>> \in r /\ a # x /\ b # x
  BY WithoutPair
<1>2. q \subseteq Block \X Block
  BY Within
<1> HIDE DEF q
<1>3. ASSUME NEW a, NEW b PROVE <<a, b>> \in R <=> <<a, b>> \in Q
  <2>1. <<a, b>> \in R <=>
           \/ (<<a, b>> \in q /\ a # x /\ b # x)
           \/ (a = x /\ (b = x \/ (b \in Block /\ <<b, b>> \in q /\ b % N = x % N)))
    BY UsePair
  <2>2. <<a, b>> \in Q <=>
           \/ (<<a, b>> \in r /\ a # x /\ b # x)
           \/ (a = x /\ (b = x \/ (b \in Block /\ <<b, b>> \in r /\ b % N = x % N)))
    BY UsePair
  <2> QED
    BY <1>1, <2>1, <2>2
<1>4. R \subseteq Block \X Block /\ Q \subseteq Block \X Block
  BY <1>2, Within
<1>5. R = Q
  <2> HIDE DEF R, Q
  <2> QED
    BY <1>3, <1>4
<1> QED
  BY <1>5 DEF q
-----------------------------------------------------------------------------
(* An entry takes the place of another and is the last used of its set.    *)
LEMMA OrderUse ==
  ASSUME NEW W \in Nat \ {0}, NEW N \in Nat \ {0}, NEW L, Sound(L, W, N),
         NEW t \in Nat, Stamped(L, W, N, t),
         NEW w \in 0 .. W - 1, NEW s \in 0 .. N - 1, NEW e \in Entries,
         e.valid, e.last_accessed_time = t, Suits(e, s, N),
         e.address \in In(L, W, N) => e.address \in Held(L[w][s]),
         NEW K, Changed(K, L, w, s, e)
  PROVE  /\ Order(K, W, N) =
              Using(LRU!Without(Order(L, W, N), Held(L[w][s])), e.address, N)
         /\ Stamped(K, W, N, t + 1)
<1> DEFINE old == L[w][s]
           x == e.address
           q == LRU!Without(Order(L, W, N), Held(old))
<1>1. /\ L \in Levels(W, N)
      /\ K[w][s] = e
      /\ \A v \in 0 .. W - 1, r \in 0 .. N - 1 : <<v, r>> # <<w, s>> => K[v][r] = L[v][r]
  BY DEF Sound, Levels, Changed
<1>2. \A v \in 0 .. W - 1 : L[v][s].valid /\ L[v][s].address \in Held(old) => v = w
  BY DEF Sound, Held
<1>3. x \in Block /\ x % N = s
  BY DEF Suits
<1>4. \A v \in 0 .. W - 1 : v # w /\ L[v][s].valid => L[v][s].address # x
  BY <1>2, <1>3 DEF In, At
<1>5. \A v \in 0 .. W - 1, r \in 0 .. N - 1 :
        /\ L[v][r].last_accessed_time \in Nat /\ L[v][r].valid \in BOOLEAN
        /\ L[v][r].valid => L[v][r].last_accessed_time < t
  <2>1. \A v \in 0 .. W - 1, r \in 0 .. N - 1 : L[v][r] \in Entries
    BY <1>1 DEF Levels
  <2> QED
    BY <2>1 DEF Entries, Stamped
<1>6. Stamped(K, W, N, t + 1)
  <2> SUFFICES ASSUME NEW v \in 0 .. W - 1, NEW r \in 0 .. N - 1, K[v][r].valid
               PROVE  /\ K[v][r].last_accessed_time < t + 1
                      /\ \A u \in 0 .. W - 1 :
                           K[u][r].valid /\ K[u][r].last_accessed_time = K[v][r].last_accessed_time
                             => u = v
    BY DEF Stamped
  <2>1. CASE r # s
    <3>1. \A u \in 0 .. W - 1 : K[u][r] = L[u][r]
      BY <1>1, <2>1
    <3> QED
      BY <1>5, <3>1 DEF Stamped
  <2>2. CASE r = s
    <3>1. \A u \in 0 .. W - 1 : u # w => K[u][r] = L[u][r]
      BY <1>1, <2>2
    <3>2. K[w][r].last_accessed_time = t
      BY <1>1, <2>2
    <3>3. \A u \in 0 .. W - 1 : u # w /\ K[u][r].valid =>
            K[u][r].last_accessed_time < t /\ K[u][r].last_accessed_time \in Nat
      BY <1>5, <3>1
    <3>4. K[v][r].last_accessed_time < t + 1
      BY <3>2, <3>3
    <3>5. ASSUME NEW u \in 0 .. W - 1, K[u][r].valid,
                 K[u][r].last_accessed_time = K[v][r].last_accessed_time
          PROVE  u = v
      <4>1. CASE u = w \/ v = w
        BY <3>2, <3>3, <3>5, <4>1
      <4>2. CASE u # w /\ v # w
        BY <3>1, <3>5, <4>2 DEF Stamped
      <4> QED
        BY <4>1, <4>2
    <3> QED
      BY <3>4, <3>5
  <2> QED
    BY <2>1, <2>2
<1>7. \A b \in Block : b % N \in 0 .. N - 1
  BY SetOf
<1>8. \A b \in Block, v \in 0 .. W - 1 :
        At(K, v, b, N) <=>
          IF b = x THEN v = w ELSE At(L, v, b, N) /\ b \notin Held(old)
  <2> SUFFICES ASSUME NEW b \in Block, NEW v \in 0 .. W - 1
               PROVE  At(K, v, b, N) <=>
                        IF b = x THEN v = w ELSE At(L, v, b, N) /\ b \notin Held(old)
    OBVIOUS
  <2>1. CASE b % N # s
    <3>1. b # x /\ b \notin Held(old)
      BY <1>1, <1>3, <2>1 DEF Held, Sound, Suits
    <3> QED
      BY <1>1, <1>7, <2>1, <3>1 DEF At
  <2>2. CASE b % N = s /\ v = w
    <3>1. At(K, v, b, N) <=> b = x
      BY <1>1, <2>2 DEF At
    <3>2. At(L, v, b, N) => b \in Held(old)
      BY <2>2 DEF At, Held
    <3> QED
      BY <2>2, <3>1, <3>2
  <2>3. CASE b % N = s /\ v # w
    <3>1. At(K, v, b, N) <=> At(L, v, b, N)
      BY <1>1, <2>3 DEF At
    <3>2. At(L, v, b, N) => b # x /\ b \notin Held(old)
      BY <1>2, <1>4, <2>3 DEF At
    <3> QED
      BY <2>3, <3>1, <3>2
  <2> QED
    BY <2>1, <2>2, <2>3
<1>9. \A b \in Block, v \in 0 .. W - 1 :
        At(K, v, b, N) => Stamp(K, v, b, N) = IF b = x THEN t ELSE Stamp(L, v, b, N)
  BY <1>1, <1>3, <1>7, <1>8 DEF Stamp, At, Held
<1>10. \A b \in Block, v \in 0 .. W - 1 : At(L, v, b, N) => Stamp(L, v, b, N) < t
  BY <1>5, <1>7 DEF Stamp, At
<1>11. ASSUME NEW a \in Block, NEW b \in Block
       PROVE  <<a, b>> \in Order(K, W, N) <=>
                \/ (<<a, b>> \in q /\ a # x /\ b # x)
                \/ (a = x /\ (b = x \/ (<<b, b>> \in q /\ b % N = x % N)))
  <2>0. \A c \in Block, v \in 0 .. W - 1 : Stamp(L, v, c, N) \in Nat
    BY <1>5, <1>7 DEF Stamp
  <2>1. <<a, b>> \in q <=> /\ a % N = b % N /\ a \notin Held(old) /\ b \notin Held(old)
                           /\ \E u, v \in 0 .. W - 1 : /\ At(L, u, a, N) /\ At(L, v, b, N)
                                                       /\ Stamp(L, u, a, N) >= Stamp(L, v, b, N)
    BY WithoutPair, OrderPair
  <2>2. <<b, b>> \in q <=> b \notin Held(old) /\ \E v \in 0 .. W - 1 : At(L, v, b, N)
    <3>1. <<b, b>> \in q <=> /\ b \notin Held(old)
                             /\ \E u, v \in 0 .. W - 1 : /\ At(L, u, b, N) /\ At(L, v, b, N)
                                                       /\ Stamp(L, u, b, N) >= Stamp(L, v, b, N)
      BY WithoutPair, OrderPair
    <3> QED
      BY <2>0, <3>1
  <2>3. <<a, b>> \in Order(K, W, N) <=>
          /\ a % N = b % N
          /\ \E u, v \in 0 .. W - 1 : /\ At(K, u, a, N) /\ At(K, v, b, N)
                                      /\ Stamp(K, u, a, N) >= Stamp(K, v, b, N)
    BY OrderPair
  <2> HIDE DEF q
  <2>4. CASE a # x /\ b # x
    BY <1>8, <1>9, <2>1, <2>3, <2>4
  <2>5. CASE a = x /\ b = x
    BY <1>8, <1>9, <2>3, <2>5
  <2>6. CASE a = x /\ b # x
    <3>1. \A v \in 0 .. W - 1 : At(L, v, b, N) => t >= Stamp(L, v, b, N)
      BY <1>10, <2>0
    <3> QED
      BY <1>8, <1>9, <2>2, <2>3, <2>6, <3>1
  <2>7. CASE a # x /\ b = x
    <3>1. \A v \in 0 .. W - 1 : At(L, v, a, N) => ~(Stamp(L, v, a, N) >= t)
      BY <1>10, <2>0
    <3> QED
      BY <1>8, <1>9, <2>3, <2>7, <3>1
  <2> QED
    BY <2>4, <2>5, <2>6, <2>7
<1>12. Order(L, W, N) \subseteq Block \X Block /\ Order(K, W, N) \subseteq Block \X Block
  BY DEF Order
<1>13. q \subseteq Block \X Block
  BY <1>3, <1>12, Within
<1> HIDE DEF q
<1>14. Using(q, x, N) \subseteq Block \X Block
  BY <1>3, <1>13, Within
<1> DEFINE R == Order(K, W, N)
           Q == Using(q, x, N)
<1>15. ASSUME NEW a \in Block, NEW b \in Block PROVE <<a, b>> \in R <=> <<a, b>> \in Q
  <2>1. <<a, b>> \in Q <=> \/ (<<a, b>> \in q /\ a # x /\ b # x)
                          \/ (a = x /\ (b = x \/ (b \in Block /\ <<b, b>> \in q /\ b % N = x % N)))
    BY UsePair
  <2> QED
    BY <1>11, <2>1
<1>16. R = Q
  <2>1. R \subseteq Block \X Block /\ Q \subseteq Block \X Block
    BY <1>12, <1>14
  <2> HIDE DEF R, Q
  <2> QED
    BY <1>15, <2>1
<1> QED
  BY <1>6, <1>16 DEF q

(* An entry is marked, or made invalid. *)
LEMMA OrderSame ==
  ASSUME NEW W \in Nat \ {0}, NEW N \in Nat \ {0}, NEW L, Sound(L, W, N),
         NEW t, Stamped(L, W, N, t),
         NEW w \in 0 .. W - 1, NEW s \in 0 .. N - 1,
         NEW K, Changed(K, L, w, s, [L[w][s] EXCEPT !.dirty = TRUE])
  PROVE  Order(K, W, N) = Order(L, W, N) /\ Stamped(K, W, N, t)
<1>1. /\ L \in Levels(W, N)
      /\ K[w][s] = [L[w][s] EXCEPT !.dirty = TRUE]
      /\ L[w][s] \in Entries
      /\ \A v \in 0 .. W - 1, r \in 0 .. N - 1 : <<v, r>> # <<w, s>> => K[v][r] = L[v][r]
  BY DEF Sound, Levels, Changed
<1>2. \A v \in 0 .. W - 1, r \in 0 .. N - 1 :
        /\ K[v][r].valid = L[v][r].valid /\ K[v][r].address = L[v][r].address
        /\ K[v][r].last_accessed_time = L[v][r].last_accessed_time
  BY <1>1 DEF Entries
<1>3. \A b \in Block : b % N \in 0 .. N - 1
  BY SetOf
<1>4. \A b \in Block, v \in 0 .. W - 1 :
        (At(K, v, b, N) <=> At(L, v, b, N)) /\ Stamp(K, v, b, N) = Stamp(L, v, b, N)
  BY <1>2, <1>3 DEF At, Stamp
<1>5. Order(K, W, N) = Order(L, W, N)
  BY <1>4 DEF Order
<1>6. Stamped(K, W, N, t)
  BY <1>2 DEF Stamped
<1> QED
  BY <1>5, <1>6

LEMMA OrderDrop ==
  ASSUME NEW W \in Nat \ {0}, NEW N \in Nat \ {0}, NEW L, Sound(L, W, N),
         NEW t, Stamped(L, W, N, t),
         NEW w \in 0 .. W - 1, NEW s \in 0 .. N - 1,
         NEW K, Changed(K, L, w, s, [L[w][s] EXCEPT !.valid = FALSE])
  PROVE  /\ Order(K, W, N) = LRU!Without(Order(L, W, N), Held(L[w][s]))
         /\ Stamped(K, W, N, t)
<1> DEFINE old == L[w][s]
<1>1. /\ L \in Levels(W, N)
      /\ K[w][s] = [L[w][s] EXCEPT !.valid = FALSE]
      /\ L[w][s] \in Entries
      /\ \A v \in 0 .. W - 1, r \in 0 .. N - 1 : <<v, r>> # <<w, s>> => K[v][r] = L[v][r]
  BY DEF Sound, Levels, Changed
<1>2. ~K[w][s].valid
  BY <1>1 DEF Entries
<1>3. \A b \in Block : b % N \in 0 .. N - 1
  BY SetOf
<1>4. \A b \in Block, v \in 0 .. W - 1 :
        /\ At(K, v, b, N) <=> At(L, v, b, N) /\ b \notin Held(old)
        /\ At(K, v, b, N) => Stamp(K, v, b, N) = Stamp(L, v, b, N)
  <2> SUFFICES ASSUME NEW b \in Block, NEW v \in 0 .. W - 1
               PROVE  /\ At(K, v, b, N) <=> At(L, v, b, N) /\ b \notin Held(old)
                      /\ At(K, v, b, N) => Stamp(K, v, b, N) = Stamp(L, v, b, N)
    OBVIOUS
  <2>1. CASE b % N # s
    <3>1. b \notin Held(old)
      BY <1>1, <2>1 DEF Held, Sound, Suits
    <3> QED
      BY <1>1, <1>3, <2>1, <3>1 DEF At, Stamp
  <2>2. CASE b % N = s /\ v = w
    BY <1>1, <1>2, <2>2 DEF At, Held
  <2>3. CASE b % N = s /\ v # w
    <3>1. L[v][s].valid /\ L[v][s].address \in Held(old) => v = w
      BY DEF Sound, Held
    <3> QED
      BY <1>1, <2>3, <3>1 DEF At, Stamp
  <2> QED
    BY <2>1, <2>2, <2>3
<1> DEFINE R == Order(K, W, N)
           Q == LRU!Without(Order(L, W, N), Held(old))
<1>5. ASSUME NEW a \in Block, NEW b \in Block PROVE <<a, b>> \in R <=> <<a, b>> \in Q
  <2>1. <<a, b>> \in Q <=> <<a, b>> \in Order(L, W, N) /\ a \notin Held(old) /\ b \notin Held(old)
    BY WithoutPair
  <2>2. <<a, b>> \in Order(L, W, N) <=>
           /\ a % N = b % N
           /\ \E v, u \in 0 .. W - 1 : /\ At(L, v, a, N) /\ At(L, u, b, N)
                                       /\ Stamp(L, v, a, N) >= Stamp(L, u, b, N)
    BY OrderPair
  <2>3. <<a, b>> \in R <=>
           /\ a % N = b % N
           /\ \E v, u \in 0 .. W - 1 : /\ At(K, v, a, N) /\ At(K, u, b, N)
                                       /\ Stamp(K, v, a, N) >= Stamp(K, u, b, N)
    BY OrderPair
  <2> HIDE DEF R, Q
  <2> QED
    BY <1>4, <2>1, <2>2, <2>3
<1>6. R \subseteq Block \X Block /\ Q \subseteq Block \X Block
  BY DEF Order, LRU!Without
<1>7. R = Q
  <2> HIDE DEF R, Q
  <2> QED
    BY <1>5, <1>6
<1>8. \A v \in 0 .. W - 1, r \in 0 .. N - 1 :
        K[v][r].valid => L[v][r].valid /\ K[v][r] = L[v][r]
  BY <1>1, <1>2
<1>9. Stamped(K, W, N, t)
  BY <1>8 DEF Stamped
<1> QED
  BY <1>7, <1>9
-----------------------------------------------------------------------------
LEMMA LRUCardinality == ASSUME NEW S PROVE LRU!Cardinality(S) = Cardinality(S)
  BY DEF LRU!Cardinality, Cardinality, LRU!IsFiniteSet, IsFiniteSet

(* A set is full when it has no invalid way, and what leaves it then is    *)
(* the block of the way found for the new one.                             *)
LEMMA MatesOf ==
  ASSUME NEW W \in Nat \ {0}, NEW N \in Nat \ {0}, NEW L, Sound(L, W, N), NEW b \in Block
  PROVE  LRU!Mates(Order(L, W, N), b, N) = {x \in In(L, W, N) : x % N = b % N}
<1>1. L \in [0 .. W - 1 -> [0 .. N - 1 -> Entries]]
  BY DEF Sound, Levels
<1>2. ASSUME NEW x \in Block, NEW v \in 0 .. W - 1 PROVE Stamp(L, v, x, N) >= Stamp(L, v, x, N)
  <2>1. L[v][x % N] \in Entries
    BY <1>1, SetOf
  <2> QED
    BY <2>1 DEF Stamp, Entries
<1>3. \A x \in Block : <<x, x>> \in Order(L, W, N) <=> x \in In(L, W, N)
  BY <1>2, OrderPair DEF In
<1> QED
  BY <1>3 DEF LRU!Mates, LRU!Has, In

LEMMA FullSet ==
  ASSUME NEW W \in Nat \ {0}, NEW N \in Nat \ {0}, NEW L, Sound(L, W, N), NEW b \in Block
  PROVE  Cardinality(LRU!Mates(Order(L, W, N), b, N)) >= W <=> Free(L, W, b % N) = {}
<1> DEFINE s == b % N
           V == {w \in 0 .. W - 1 : L[w][s].valid}
           M == LRU!Mates(Order(L, W, N), b, N)
           f == [w \in V |-> L[w][s].address]
<1>1. s \in 0 .. N - 1
  BY SetOf
<1>2. \A w \in V : Suits(L[w][s], s, N)
  BY <1>1 DEF Sound
<1>3. f \in Bijection(V, M)
  <2>1. M = {x \in In(L, W, N) : x % N = s}
    BY MatesOf
  <2>2. \A w \in V : L[w][s].address \in M
    BY <1>2, <2>1 DEF Suits, In, At
  <2>3. \A x \in M : \E w \in V : L[w][s].address = x
    BY <2>1 DEF In, At
  <2>4. \A v, w \in V : L[v][s].address = L[w][s].address => v = w
    BY <1>1 DEF Sound
  <2> HIDE DEF M, V
  <2> QED
    BY <2>2, <2>3, <2>4 DEF Bijection, Injection, Surjection, IsInjective
<1>4. IsFiniteSet(0 .. W - 1) /\ Cardinality(0 .. W - 1) = W
  BY FS_Interval
<1>5. V \subseteq 0 .. W - 1
  OBVIOUS
<1> HIDE DEF f
<1>6. IsFiniteSet(V) /\ Cardinality(V) <= W /\ (Cardinality(V) = W => V = 0 .. W - 1)
  <2> HIDE DEF V
  <2> QED
    BY <1>4, <1>5, FS_Subset
<1>7. Cardinality(M) = Cardinality(V)
  <2> HIDE DEF M, V
  <2>1. ExistsBijection(V, M)
    BY <1>3 DEF ExistsBijection
  <2> QED
    BY <1>6, <2>1, FS_Bijection
<1>8. V = 0 .. W - 1 <=> Free(L, W, s) = {}
  BY DEF Free
<1>9. Cardinality(V) \in Nat /\ (V = 0 .. W - 1 => Cardinality(V) = W)
  <2> HIDE DEF V
  <2> QED
    BY <1>4, <1>6, FS_CardinalityType
<1> HIDE DEF M, V
<1>10. Cardinality(M) >= W <=> Free(L, W, s) = {}
  BY <1>6, <1>7, <1>8, <1>9
<1> QED
  BY <1>10 DEF M

LEMMA SpotLeaves ==
  ASSUME NEW W \in Nat \ {0}, NEW N \in Nat \ {0}, NEW L, Sound(L, W, N), NEW b \in Block,
         NEW t, Stamped(L, W, N, t)
  PROVE  Held(L[Spot(L, W, b % N)][b % N]) = LRU!Leaving(Order(L, W, N), b, W, N)
<1> DEFINE s == b % N
           w == Spot(L, W, s)
           M == LRU!Mates(Order(L, W, N), b, N)
<1>1. s \in 0 .. N - 1 /\ w \in 0 .. W - 1
  BY SetOf, SpotRight
<1>2. Free(L, W, s) \subseteq Nat /\ Oldest(L, W, s) \subseteq Nat
  BY DEF Free, Oldest
<1>3. CASE Free(L, W, s) # {}
  <2>1. w \in Free(L, W, s)
    BY <1>2, <1>3, LeastIn DEF Spot
  <2>2. Held(L[w][s]) = {}
    BY <2>1 DEF Free, Held
  <2>3. LRU!Leaving(Order(L, W, N), b, W, N) = {}
    BY <1>3, FullSet, LRUCardinality DEF LRU!Leaving
  <2> QED
    BY <2>2, <2>3
<1>4. CASE Free(L, W, s) = {}
  <2>1. \A v \in 0 .. W - 1 :
          /\ L[v][s].valid /\ Suits(L[v][s], s, N) /\ L[v][s].last_accessed_time \in Nat
          /\ L[v][s].last_accessed_time < UintMax
    <3>1. \A v \in 0 .. W - 1 : L[v][s] \in Entries
      BY <1>1 DEF Sound, Levels
    <3> QED
      BY <1>1, <1>4, <3>1 DEF Free, Sound, Entries
  <2>2. w \in Oldest(L, W, s)
    <3>1. Oldest(L, W, s) # {}
      <4>1. w # -1
        BY <1>1
      <4> QED
        BY <1>4, <4>1 DEF Spot
    <3> QED
      BY <1>2, <1>4, <3>1, LeastIn DEF Spot
  <2>3. \A v \in 0 .. W - 1 : L[w][s].last_accessed_time <= L[v][s].last_accessed_time
    BY <2>2 DEF Oldest
  <2> HIDE DEF w
  <2>4. \A x \in M : \E v \in 0 .. W - 1 : At(L, v, x, N) /\ x % N = s /\ x \in Block
    BY MatesOf DEF In
  <2>5. L[w][s].address \in M /\ L[w][s].address % N = s
    BY <1>1, <2>1, MatesOf DEF In, At, Suits
  <2> DEFINE z == L[w][s].address
  <2>6. \A v \in 0 .. W - 1 : At(L, v, z, N) => v = w
    BY <1>1, <2>1, <2>5 DEF At, Sound
  <2>7. z \in Block /\ At(L, w, z, N) /\ Stamp(L, w, z, N) = L[w][s].last_accessed_time
    BY <1>1, <2>1, <2>5 DEF At, Stamp, Suits
  <2> HIDE DEF z, M
  <2>8. \A y \in M : <<y, z>> \in Order(L, W, N)
    <3> SUFFICES ASSUME NEW y \in M PROVE <<y, z>> \in Order(L, W, N)
      OBVIOUS
    <3>1. PICK v \in 0 .. W - 1 : At(L, v, y, N) /\ y % N = s /\ y \in Block
      BY <2>4
    <3>2. Stamp(L, v, y, N) >= Stamp(L, w, z, N)
      BY <1>1, <2>1, <2>3, <2>7, <3>1 DEF Stamp
    <3> QED
      BY <1>1, <2>5, <2>7, <3>1, <3>2, OrderPair DEF z
  <2>9. ASSUME NEW x \in M, \A y \in M : <<y, x>> \in Order(L, W, N) PROVE x = z
    <3>1. <<z, x>> \in Order(L, W, N)
      BY <2>5, <2>9 DEF z
    <3>2. PICK u, v \in 0 .. W - 1 : /\ At(L, u, z, N) /\ At(L, v, x, N)
                                     /\ Stamp(L, u, z, N) >= Stamp(L, v, x, N)
      BY <3>1, OrderPair
    <3>3. u = w /\ x % N = s
      BY <2>4, <2>6, <3>2
    <3>4. L[w][s].last_accessed_time = L[v][s].last_accessed_time
      BY <1>1, <2>1, <2>3, <2>7, <3>2, <3>3 DEF Stamp
    <3>5. v = w
      BY <1>1, <2>1, <3>4 DEF Stamped
    <3> QED
      BY <3>2, <3>3, <3>5 DEF At, z
  <2>10. z \in M
    BY <2>5 DEF z
  <2>11. LRU!Leaving(Order(L, W, N), b, W, N) = {z}
    <3>1. Cardinality(M) >= W
      BY <1>4, FullSet DEF M
    <3>2. LRU!Leaving(Order(L, W, N), b, W, N) =
            {x \in M : Cardinality(M) >= W /\ \A y \in M : <<y, x>> \in Order(L, W, N)}
      BY LRUCardinality DEF LRU!Leaving, M
    <3> QED
      BY <2>8, <2>9, <2>10, <3>1, <3>2
  <2>12. Held(L[w][s]) = {z}
    BY <1>1, <2>1 DEF Held, z
  <2> QED
    BY <2>11, <2>12 DEF w
<1> QED
  BY <1>3, <1>4
-----------------------------------------------------------------------------
(* The orders of the two levels of a cache, and its clock ahead of both.   *)
O1(c) == Order(c.l1, L1Ways, L1Sets)
O2(c) == Order(c.l2, L2Ways, L2Sets)
Timed(c) == /\ Stamped(c.l1, L1Ways, L1Sets, c.pseudo_cycle)
            /\ Stamped(c.l2, L2Ways, L2Sets, c.pseudo_cycle)

LEMMA StampedLater ==
  ASSUME NEW W \in Nat \ {0}, NEW N \in Nat \ {0}, NEW L, Sound(L, W, N),
         NEW t \in Nat, Stamped(L, W, N, t)
  PROVE  Stamped(L, W, N, t + 1)
<1>1. \A v \in 0 .. W - 1, s \in 0 .. N - 1 : L[v][s].last_accessed_time \in Nat
  <2>1. \A v \in 0 .. W - 1, s \in 0 .. N - 1 : L[v][s] \in Entries
    BY DEF Sound, Levels
  <2> QED
    BY <2>1 DEF Entries
<1> QED
  BY <1>1 DEF Stamped

LEMMA OrdersWithin ==
  ASSUME NEW c PROVE O1(c) \subseteq Block \X Block /\ O2(c) \subseteq Block \X Block
  BY DEF O1, O2, Order

LEMMA TouchL1Order ==
  ASSUME NEW c, Good(c), Timed(c), c.pseudo_cycle < UintMax, NEW b \in Block, NEW w, At1(c, w, b),
         NEW d, d = TouchL1(c, w, b)
  PROVE  /\ O1(d) = Using(O1(c), b, L1Sets) /\ O2(d) = O2(c) /\ Timed(d)
         /\ D1(d) = D1(c) /\ D2(d) = D2(c)
<1> DEFINE s == b % L1Sets
           e == [c.l1[w][s] EXCEPT !.last_accessed_time = c.pseudo_cycle]
<1>1. w \in 0 .. L1Ways - 1 /\ c.l1[w][s].valid /\ c.l1[w][s].address = b
  BY DEF At1, At
<1>2. /\ Later(c, d, 1) /\ d.l2 = c.l2 /\ Moved1(c, d, {}, {}, {})
      /\ Changed(d.l1, c.l1, w, s, e)
  BY <1>1, TouchL1Right
<1>3. /\ c.pseudo_cycle \in Nat /\ c.pseudo_cycle \in 0 .. UintMax
      /\ Sound(c.l1, L1Ways, L1Sets) /\ Sound(c.l2, L2Ways, L2Sets)
  BY BlocksOf
<1>4. s \in 0 .. L1Sets - 1 /\ c.l1[w][s] \in Entries
  BY <1>1, Entry1
<1>5. /\ e \in Entries /\ e.valid /\ e.last_accessed_time = c.pseudo_cycle /\ e.address = b
      /\ Suits(e, s, L1Sets) /\ b \in Held(c.l1[w][s]) /\ Held(c.l1[w][s]) = {b}
  <2>1. Suits(c.l1[w][s], s, L1Sets)
    BY <1>1, <1>3, <1>4 DEF Sound
  <2> QED
    BY <1>1, <1>3, <1>4, <2>1 DEF Entries, Suits, Held
<1> HIDE DEF e
<1>6. /\ O1(d) = Using(LRU!Without(O1(c), Held(c.l1[w][s])), e.address, L1Sets)
      /\ Stamped(d.l1, L1Ways, L1Sets, c.pseudo_cycle + 1)
  BY <1>1, <1>2, <1>3, <1>4, <1>5, Geometry, OrderUse, Zenon DEF O1, Timed
<1>7. O1(d) = Using(O1(c), b, L1Sets)
  BY <1>5, <1>6, OrdersWithin, UseAgain, Geometry
<1>8. Stamped(c.l2, L2Ways, L2Sets, c.pseudo_cycle + 1)
  BY <1>3, Geometry, StampedLater, Zenon DEF Timed
<1> QED
  BY <1>2, <1>6, <1>7, <1>8 DEF Later, Timed, O2, Moved1, Holding, D1, D2

LEMMA MarkL1Order ==
  ASSUME NEW c, Good(c), Timed(c), NEW b \in Block, NEW w, At1(c, w, b),
         NEW d, d = MarkL1(c, w, b)
  PROVE  /\ O1(d) = O1(c) /\ O2(d) = O2(c) /\ Timed(d)
         /\ D1(d) = D1(c) \cup {b} /\ D2(d) = D2(c)
<1> DEFINE s == b % L1Sets
<1>1. /\ Later(c, d, 0) /\ d.l2 = c.l2 /\ Moved1(c, d, {}, {}, {b})
      /\ Changed(d.l1, c.l1, w, s, [c.l1[w][s] EXCEPT !.dirty = TRUE])
  BY MarkL1Right, Zenon
<1>2. /\ c.pseudo_cycle \in Nat /\ c.pseudo_cycle \in 0 .. UintMax /\ Sound(c.l1, L1Ways, L1Sets)
  BY BlocksOf
<1>3. w \in 0 .. L1Ways - 1 /\ s \in 0 .. L1Sets - 1
  BY Entry1 DEF At1
<1>4. O1(d) = O1(c) /\ Stamped(d.l1, L1Ways, L1Sets, c.pseudo_cycle)
  BY <1>1, <1>2, <1>3, Geometry, OrderSame, Zenon DEF O1, Timed
<1>5. d.pseudo_cycle = c.pseudo_cycle
  BY <1>1, <1>2 DEF Later
<1> QED
  BY <1>1, <1>4, <1>5 DEF Timed, O2, Moved1, Holding, D1, D2

LEMMA InsertL1Order ==
  ASSUME NEW c, Good(c), Timed(c), c.pseudo_cycle < UintMax, NEW b \in Block, b \notin B1(c),
         NEW w \in 0 .. L1Ways - 1, NEW d, d = InsertL1(c, w, b)
  PROVE  /\ O1(d) = Using(LRU!Without(O1(c), Held(c.l1[w][b % L1Sets])), b, L1Sets)
         /\ O2(d) = O2(c)
         /\ Timed(d)
         /\ D1(d) = D1(c) \ Held(c.l1[w][b % L1Sets]) /\ D2(d) = D2(c)
<1> DEFINE s == b % L1Sets
           e == Fresh(b \div L1Sets, c.pseudo_cycle, b)
<1>1. /\ Later(c, d, 1) /\ d.l2 = c.l2 /\ Moved1(c, d, Held(c.l1[w][s]), {b}, {})
      /\ Changed(d.l1, c.l1, w, s, e)
  BY InsertL1Right, Zenon
<1>2. /\ c.pseudo_cycle \in Nat /\ c.pseudo_cycle \in 0 .. UintMax
      /\ Sound(c.l1, L1Ways, L1Sets) /\ Sound(c.l2, L2Ways, L2Sets)
  BY BlocksOf
<1>3. b \in Nat /\ s \in 0 .. L1Sets - 1 /\ b \div L1Sets \in Nat
  BY Geometry, SetOf
<1>4. /\ e \in Entries /\ e.valid /\ e.last_accessed_time = c.pseudo_cycle /\ e.address = b
      /\ Suits(e, s, L1Sets)
  BY <1>2, <1>3 DEF Fresh, Entries, Suits
<1>5. b \notin In(c.l1, L1Ways, L1Sets)
  BY DEF B1
<1> HIDE DEF e
<1>6. /\ O1(d) = Using(LRU!Without(O1(c), Held(c.l1[w][s])), e.address, L1Sets)
      /\ Stamped(d.l1, L1Ways, L1Sets, c.pseudo_cycle + 1)
  BY <1>1, <1>2, <1>3, <1>4, <1>5, Geometry, OrderUse, Zenon DEF O1, Timed
<1>7. Stamped(c.l2, L2Ways, L2Sets, c.pseudo_cycle + 1)
  BY <1>2, Geometry, StampedLater, Zenon DEF Timed
<1> QED
  BY <1>1, <1>4, <1>6, <1>7 DEF Later, Timed, O2, Moved1, Holding, D1, D2

LEMMA TouchL2Order ==
  ASSUME NEW c, Good(c), Timed(c), c.pseudo_cycle < UintMax, NEW b \in Block, NEW w, At2(c, w, b),
         NEW d, d = TouchL2(c, w, b)
  PROVE  /\ O2(d) = Using(O2(c), b, L2Sets) /\ O1(d) = O1(c) /\ Timed(d)
         /\ D2(d) = D2(c) /\ D1(d) = D1(c)
<1> DEFINE s == b % L2Sets
           e == [c.l2[w][s] EXCEPT !.last_accessed_time = c.pseudo_cycle]
<1>1. w \in 0 .. L2Ways - 1 /\ c.l2[w][s].valid /\ c.l2[w][s].address = b
  BY DEF At2, At
<1>2. /\ Later(c, d, 1) /\ d.l1 = c.l1 /\ Moved2(c, d, {}, {}, {})
      /\ Changed(d.l2, c.l2, w, s, e)
  BY <1>1, TouchL2Right
<1>3. /\ c.pseudo_cycle \in Nat /\ c.pseudo_cycle \in 0 .. UintMax
      /\ Sound(c.l2, L2Ways, L2Sets) /\ Sound(c.l1, L1Ways, L1Sets)
  BY BlocksOf
<1>4. s \in 0 .. L2Sets - 1 /\ c.l2[w][s] \in Entries
  BY <1>1, Entry2
<1>5. /\ e \in Entries /\ e.valid /\ e.last_accessed_time = c.pseudo_cycle /\ e.address = b
      /\ Suits(e, s, L2Sets) /\ b \in Held(c.l2[w][s]) /\ Held(c.l2[w][s]) = {b}
  <2>1. Suits(c.l2[w][s], s, L2Sets)
    BY <1>1, <1>3, <1>4 DEF Sound
  <2> QED
    BY <1>1, <1>3, <1>4, <2>1 DEF Entries, Suits, Held
<1> HIDE DEF e
<1>6. /\ O2(d) = Using(LRU!Without(O2(c), Held(c.l2[w][s])), e.address, L2Sets)
      /\ Stamped(d.l2, L2Ways, L2Sets, c.pseudo_cycle + 1)
  BY <1>1, <1>2, <1>3, <1>4, <1>5, Geometry, OrderUse, Zenon DEF O2, Timed
<1>7. O2(d) = Using(O2(c), b, L2Sets)
  BY <1>5, <1>6, OrdersWithin, UseAgain, Geometry
<1>8. Stamped(c.l1, L1Ways, L1Sets, c.pseudo_cycle + 1)
  BY <1>3, Geometry, StampedLater, Zenon DEF Timed
<1> QED
  BY <1>2, <1>6, <1>7, <1>8 DEF Later, Timed, O1, Moved2, Holding, D2, D1

LEMMA MarkL2Order ==
  ASSUME NEW c, Good(c), Timed(c), NEW b \in Block, NEW w, At2(c, w, b),
         NEW d, d = MarkL2(c, w, b)
  PROVE  /\ O2(d) = O2(c) /\ O1(d) = O1(c) /\ Timed(d)
         /\ D2(d) = D2(c) \cup {b} /\ D1(d) = D1(c)
<1> DEFINE s == b % L2Sets
<1>1. /\ Later(c, d, 0) /\ d.l1 = c.l1 /\ Moved2(c, d, {}, {}, {b})
      /\ Changed(d.l2, c.l2, w, s, [c.l2[w][s] EXCEPT !.dirty = TRUE])
  BY MarkL2Right, Zenon
<1>2. /\ c.pseudo_cycle \in Nat /\ c.pseudo_cycle \in 0 .. UintMax /\ Sound(c.l2, L2Ways, L2Sets)
  BY BlocksOf
<1>3. w \in 0 .. L2Ways - 1 /\ s \in 0 .. L2Sets - 1
  BY Entry2 DEF At2
<1>4. O2(d) = O2(c) /\ Stamped(d.l2, L2Ways, L2Sets, c.pseudo_cycle)
  BY <1>1, <1>2, <1>3, Geometry, OrderSame, Zenon DEF O2, Timed
<1>5. d.pseudo_cycle = c.pseudo_cycle
  BY <1>1, <1>2 DEF Later
<1> QED
  BY <1>1, <1>4, <1>5 DEF Timed, O1, Moved2, Holding, D2, D1

LEMMA InsertL2Order ==
  ASSUME NEW c, Good(c), Timed(c), c.pseudo_cycle < UintMax, NEW b \in Block, b \notin B2(c),
         NEW w \in 0 .. L2Ways - 1, NEW d, d = InsertL2(c, w, b)
  PROVE  /\ O2(d) = Using(LRU!Without(O2(c), Held(c.l2[w][b % L2Sets])), b, L2Sets)
         /\ O1(d) = O1(c)
         /\ Timed(d)
         /\ D2(d) = D2(c) \ Held(c.l2[w][b % L2Sets]) /\ D1(d) = D1(c)
<1> DEFINE s == b % L2Sets
           e == Fresh(b \div L2Sets, c.pseudo_cycle, b)
<1>1. /\ Later(c, d, 1) /\ d.l1 = c.l1 /\ Moved2(c, d, Held(c.l2[w][s]), {b}, {})
      /\ Changed(d.l2, c.l2, w, s, e)
  BY InsertL2Right, Zenon
<1>2. /\ c.pseudo_cycle \in Nat /\ c.pseudo_cycle \in 0 .. UintMax
      /\ Sound(c.l2, L2Ways, L2Sets) /\ Sound(c.l1, L1Ways, L1Sets)
  BY BlocksOf
<1>3. b \in Nat /\ s \in 0 .. L2Sets - 1 /\ b \div L2Sets \in Nat
  BY Geometry, SetOf
<1>4. /\ e \in Entries /\ e.valid /\ e.last_accessed_time = c.pseudo_cycle /\ e.address = b
      /\ Suits(e, s, L2Sets)
  BY <1>2, <1>3 DEF Fresh, Entries, Suits
<1>5. b \notin In(c.l2, L2Ways, L2Sets)
  BY DEF B2
<1> HIDE DEF e
<1>6. /\ O2(d) = Using(LRU!Without(O2(c), Held(c.l2[w][s])), e.address, L2Sets)
      /\ Stamped(d.l2, L2Ways, L2Sets, c.pseudo_cycle + 1)
  BY <1>1, <1>2, <1>3, <1>4, <1>5, Geometry, OrderUse, Zenon DEF O2, Timed
<1>7. Stamped(c.l1, L1Ways, L1Sets, c.pseudo_cycle + 1)
  BY <1>2, Geometry, StampedLater, Zenon DEF Timed
<1> QED
  BY <1>1, <1>4, <1>6, <1>7 DEF Later, Timed, O1, Moved2, Holding, D2, D1

(* A block leaves L1. *)
LEMMA InvalidateOrder ==
  ASSUME NEW c, Good(c), Timed(c), NEW b \in Block, NEW d, d = Invalidate(c, b)
  PROVE  /\ O1(d) = LRU!Without(O1(c), {b}) /\ O2(d) = O2(c)
         /\ Timed(d)
         /\ D1(d) = D1(c) \ {b} /\ D2(d) = D2(c)
<1>1. /\ Later(c, d, 0) /\ d.l2 = c.l2 /\ Moved1(c, d, {b}, {}, {})
      /\ b \notin B1(c) => d = c
      /\ b \in B1(c) => \E w : /\ At1(c, w, b)
                               /\ Changed(d.l1, c.l1, w, b % L1Sets,
                                          [c.l1[w][b % L1Sets] EXCEPT !.valid = FALSE])
  BY InvalidateRight, Zenon
<1>2. Sound(c.l1, L1Ways, L1Sets) /\ c.pseudo_cycle \in Nat /\ d.pseudo_cycle = c.pseudo_cycle
  BY <1>1, BlocksOf DEF Later
<1>3. O1(d) = LRU!Without(O1(c), {b}) /\ Stamped(d.l1, L1Ways, L1Sets, c.pseudo_cycle)
  <2>1. CASE b \notin B1(c)
    <3>1. \A x, y : <<x, y>> \in O1(c) => x # b /\ y # b
      BY <2>1, OrderPair DEF O1, B1, In
    <3>2. \A p \in O1(c) : p = <<p[1], p[2]>>
      BY OrderIsPairs DEF O1
    <3>3. LRU!Without(O1(c), {b}) = O1(c)
      BY <3>1, <3>2 DEF LRU!Without
    <3> QED
      BY <1>1, <2>1, <3>3 DEF Timed
  <2>2. CASE b \in B1(c)
    <3>1. PICK w : /\ At1(c, w, b)
                   /\ Changed(d.l1, c.l1, w, b % L1Sets,
                              [c.l1[w][b % L1Sets] EXCEPT !.valid = FALSE])
      BY <1>1, <2>2
    <3>2. w \in 0 .. L1Ways - 1 /\ Held(c.l1[w][b % L1Sets]) = {b}
      BY <3>1 DEF At1, At, Held
    <3>3. b % L1Sets \in 0 .. L1Sets - 1
      BY <3>2, Entry1
    <3>4. Stamped(c.l1, L1Ways, L1Sets, c.pseudo_cycle)
      BY DEF Timed
    <3>5. /\ O1(d) = LRU!Without(O1(c), Held(c.l1[w][b % L1Sets]))
          /\ Stamped(d.l1, L1Ways, L1Sets, c.pseudo_cycle)
      BY <1>2, <3>1, <3>2, <3>3, <3>4, Geometry, OrderDrop, Zenon DEF O1
    <3> QED
      BY <3>2, <3>5
  <2> QED
    BY <2>1, <2>2
<1> QED
  BY <1>1, <1>2, <1>3 DEF Timed, O2, Moved1, Holding, D1, D2

(* A block's data goes to its copy in L2, which is thereby used. *)
LEMMA WriteBackOrder ==
  ASSUME NEW c, Good(c), Timed(c), c.pseudo_cycle < UintMax, NEW v \in Block, v \in B2(c),
         NEW d, d = WriteBack(c, v)
  PROVE  /\ O1(d) = O1(c) /\ O2(d) = Using(O2(c), v, L2Sets)
         /\ Timed(d)
         /\ D1(d) = D1(c) /\ D2(d) = D2(c) \cup {v}
<1> DEFINE w == L2!blockExists(c.l2, v)
           m == MarkL2(c, w, v)
<1>1. w # L2!NULL /\ At2(c, w, v)
  BY Found2
<1>2. d = TouchL2(m, w, v)
  BY <1>1 DEF WriteBack
<1> HIDE DEF w
<1>3. Good(m) /\ m.pseudo_cycle = c.pseudo_cycle
  BY <1>1, MarkedInL2, Zenon
<1>4. At2(m, w, v)
  BY <1>1, MarkL2Right, Zenon
<1>5. /\ O2(m) = O2(c) /\ O1(m) = O1(c) /\ Timed(m)
      /\ D2(m) = D2(c) \cup {v} /\ D1(m) = D1(c)
  BY <1>1, MarkL2Order, Zenon
<1> HIDE DEF m
<1>6. Timed(m) /\ m.pseudo_cycle < UintMax
  BY <1>3, <1>5
<1>7. /\ O2(d) = Using(O2(m), v, L2Sets) /\ O1(d) = O1(m) /\ Timed(d)
      /\ D2(d) = D2(m) /\ D1(d) = D1(m)
  BY <1>2, <1>3, <1>4, <1>6, TouchL2Order, Zenon
<1> QED
  BY <1>5, <1>7

Leaving1(c, b) == LRU!Leaving(O1(c), b, L1Ways, L1Sets)
Leaving2(c, b) == LRU!Leaving(O2(c), b, L2Ways, L2Sets)

(* A block of L2 enters L1: of what leaves L1, what is newer there is used *)
(* in L2.                                                                  *)
LEMMA FetchToL1Order ==
  ASSUME NEW c, Good(c), Timed(c), c.pseudo_cycle + 1 < UintMax, NEW b \in Block,
         b \in B2(c), b \notin B1(c),
         NEW d, d = fetchToL1(c, b)
  PROVE  /\ O1(d) = LRU!Enter(O1(c), b, L1Ways, L1Sets)
         /\ O2(d) = LRU!Use(O2(c), Leaving1(c, b) \cap D1(c), L2Sets)
         /\ Timed(d)
         /\ D1(d) = D1(c) \ Leaving1(c, b)
         /\ D2(d) = D2(c) \cup (Leaving1(c, b) \cap D1(c))
<1> DEFINE s == b % L1Sets
           w == L1!getEntryForNewBlock(c.l1, b)
           victim == c.l1[w][s]
           x == WriteBack(c, victim.address)
<1>1. w \in 0 .. L1Ways - 1 /\ w # L1!NULL
  BY Found1, Search1, Geometry
<1>2. /\ c.pseudo_cycle \in 0 .. UintMax /\ c.pseudo_cycle < UintMax
  BY BlocksOf, Geometry
<1>3. HeldRight(c.l1, L1Ways, L1Sets, victim)
  BY <1>1, Entry1
<1>4. d = IF victim.valid /\ victim.dirty THEN InsertL1(x, w, b) ELSE InsertL1(c, w, b)
  BY <1>1, Search1 DEF fetchToL1
<1>5. Held(victim) = Leaving1(c, b)
  <2>1. w = Spot(c.l1, L1Ways, s)
    BY Search1
  <2>2. Sound(c.l1, L1Ways, L1Sets) /\ Stamped(c.l1, L1Ways, L1Sets, c.pseudo_cycle)
    BY BlocksOf DEF Timed
  <2> HIDE DEF w
  <2>3. Held(c.l1[Spot(c.l1, L1Ways, b % L1Sets)][b % L1Sets]) =
          LRU!Leaving(O1(c), b, L1Ways, L1Sets)
    BY <2>2, Geometry, SpotLeaves, Zenon DEF O1
  <2> QED
    BY <2>1, <2>3 DEF Leaving1
<1>6. LRU!Enter(O1(c), b, L1Ways, L1Sets) =
          Using(LRU!Without(O1(c), Leaving1(c, b)), b, L1Sets)
  BY DEF LRU!Enter, Using, Leaving1
<1> HIDE DEF w, x
<1>7. CASE ~(victim.valid /\ victim.dirty)
  <2>1. d = InsertL1(c, w, b)
    BY <1>4, <1>7
  <2>2. HeldDirty(victim) = {}
    BY <1>7 DEF HeldDirty
  <2>3. D1(c) \cap Held(victim) = {}
    BY <1>3, <2>2 DEF HeldRight, D1
  <2>4. /\ O1(d) = Using(LRU!Without(O1(c), Held(victim)), b, L1Sets) /\ O2(d) = O2(c)
        /\ Timed(d) /\ D1(d) = D1(c) \ Held(victim) /\ D2(d) = D2(c)
    BY <1>1, <1>2, <2>1, InsertL1Order, Zenon
  <2> HIDE DEF victim
  <2>5. Leaving1(c, b) \cap D1(c) = {}
    BY <1>5, <2>3
  <2> QED
    BY <1>5, <1>6, <2>4, <2>5, UseNothing
<1>8. CASE victim.valid /\ victim.dirty
  <2> DEFINE v == victim.address
  <2>1. d = InsertL1(x, w, b)
    BY <1>4, <1>8
  <2>2. Held(victim) = {v} /\ HeldDirty(victim) = {v}
    BY <1>8 DEF Held, HeldDirty
  <2>3. v \in B1(c) /\ v \in D1(c)
    BY <1>3, <2>2 DEF HeldRight, B1, D1
  <2>4. v \in Block /\ v \in B2(c)
    BY <2>3, BlocksOf
  <2>5. Good(x) /\ Later(c, x, 1) /\ x.l1 = c.l1
    BY <1>2, <2>4, WriteBackRight, Zenon DEF x
  <2>6. x.pseudo_cycle < UintMax /\ b \notin B1(x)
    BY <1>2, <2>5 DEF Later, B1
  <2>7. /\ O1(x) = O1(c) /\ O2(x) = Using(O2(c), v, L2Sets) /\ Timed(x)
        /\ D1(x) = D1(c) /\ D2(x) = D2(c) \cup {v}
    BY <1>2, <2>4, WriteBackOrder, Zenon DEF x
  <2>8. /\ O1(d) = Using(LRU!Without(O1(x), Held(x.l1[w][s])), b, L1Sets) /\ O2(d) = O2(x)
        /\ Timed(d) /\ D1(d) = D1(x) \ Held(x.l1[w][s]) /\ D2(d) = D2(x)
    <3>1. Good(x) /\ Timed(x)
      BY <2>5, <2>7
    <3> QED
      BY <1>1, <2>1, <2>6, <3>1, InsertL1Order, Zenon
  <2>9. Held(x.l1[w][s]) = {v} /\ Leaving1(c, b) = {v} /\ Leaving1(c, b) \cap D1(c) = {v}
    BY <1>5, <2>2, <2>3, <2>5
  <2>10. O2(d) = LRU!Use(O2(c), {v}, L2Sets)
    BY <2>7, <2>8 DEF Using
  <2> HIDE DEF v
  <2> QED
    BY <1>6, <2>7, <2>8, <2>9, <2>10
<1> QED
  BY <1>7, <1>8

(* A block of memory enters L2 and then L1; what it drives out of L2 left  *)
(* L1 before it.                                                           *)
LEMMA FetchFromMemoryOrder ==
  ASSUME NEW c, Good(c), Timed(c), c.pseudo_cycle + 2 < UintMax, NEW b \in Block, b \notin B2(c),
         NEW out, out = Leaving2(c, b),
         NEW one, one = LRU!Without(O1(c), out),
         NEW stale, stale = LRU!Leaving(one, b, L1Ways, L1Sets) \cap (D1(c) \ out),
         NEW d, d = fetchBlockFromMemory(c, b)
  PROVE  /\ O1(d) = LRU!Enter(one, b, L1Ways, L1Sets)
         /\ O2(d) = LRU!Use(LRU!Enter(O2(c), b, L2Ways, L2Sets), stale, L2Sets)
         /\ Timed(d)
         /\ D1(d) = (D1(c) \ out) \ LRU!Leaving(one, b, L1Ways, L1Sets)
         /\ D2(d) = (D2(c) \ out) \cup stale
<1>1. c.pseudo_cycle \in 0 .. UintMax /\ c.pseudo_cycle < UintMax
  BY BlocksOf, Geometry
<1>2. PICK w, x, y : Entering2(c, b, w, x, y)
  BY DEF Entering2
<1> DEFINE victim == c.l2[w][b % L2Sets]
<1>3. /\ d = fetchToL1(y, b) /\ w \in 0 .. L2Ways - 1 /\ Held(victim) \subseteq Block
      /\ Good(x) /\ x.pseudo_cycle = c.pseudo_cycle /\ x.l2 = c.l2 /\ b \notin B2(x)
      /\ Good(y) /\ y.pseudo_cycle = c.pseudo_cycle + 1
      /\ B2(y) = (B2(c) \ Held(victim)) \cup {b} /\ b \notin B1(y)
  BY <1>1, <1>2, EnterL2Right
<1>4. Held(victim) = out
  <2>1. w = Spot(c.l2, L2Ways, b % L2Sets)
    BY <1>2, Search2 DEF Entering2
  <2>2. Sound(c.l2, L2Ways, L2Sets) /\ Stamped(c.l2, L2Ways, L2Sets, c.pseudo_cycle)
    BY BlocksOf DEF Timed
  <2>3. Held(c.l2[Spot(c.l2, L2Ways, b % L2Sets)][b % L2Sets]) =
          LRU!Leaving(O2(c), b, L2Ways, L2Sets)
    BY <2>2, Geometry, SpotLeaves, Zenon DEF O2
  <2> QED
    BY <2>1, <2>3 DEF Leaving2
<1>5. /\ O1(x) = one /\ O2(x) = O2(c) /\ Timed(x)
      /\ D1(x) = D1(c) \ out /\ D2(x) = D2(c)
  <2>1. CASE ~victim.valid
    <3>1. x = c /\ out = {}
      BY <1>2, <1>4, <2>1 DEF Held, Entering2
    <3> QED
      BY <3>1, UseNothing
  <2>2. CASE victim.valid
    <3>1. PICK v : v = victim.address
      OBVIOUS
    <3>2. x = Invalidate(c, v) /\ out = {v}
      BY <1>2, <1>4, <2>2, <3>1 DEF Held, Entering2
    <3>3. v \in Block
      BY <1>3, <1>4, <3>2
    <3>4. /\ O1(x) = LRU!Without(O1(c), {v}) /\ O2(x) = O2(c) /\ Timed(x)
          /\ D1(x) = D1(c) \ {v} /\ D2(x) = D2(c)
      BY <3>2, <3>3, InvalidateOrder, Zenon
    <3> QED
      BY <3>2, <3>4
  <2> QED
    BY <2>1, <2>2
<1>6. /\ O2(y) = LRU!Enter(O2(c), b, L2Ways, L2Sets) /\ O1(y) = one /\ Timed(y)
      /\ D2(y) = D2(c) \ out /\ D1(y) = D1(c) \ out
  <2>1. y = InsertL2(x, w, b)
    BY <1>2 DEF Entering2
  <2>2. x.pseudo_cycle < UintMax
    BY <1>1, <1>3
  <2>3. /\ O2(y) = Using(LRU!Without(O2(x), Held(x.l2[w][b % L2Sets])), b, L2Sets)
        /\ O1(y) = O1(x) /\ Timed(y)
        /\ D2(y) = D2(x) \ Held(x.l2[w][b % L2Sets]) /\ D1(y) = D1(x)
    <3>1. w \in 0 .. L2Ways - 1 /\ Good(x) /\ Timed(x) /\ b \notin B2(x)
      BY <1>3, <1>5
    <3> QED
      BY <2>1, <2>2, <3>1, InsertL2Order, Zenon
  <2>4. Held(x.l2[w][b % L2Sets]) = out
    BY <1>3, <1>4
  <2>5. LRU!Enter(O2(c), b, L2Ways, L2Sets) = Using(LRU!Without(O2(c), out), b, L2Sets)
    BY DEF LRU!Enter, Using, Leaving2
  <2> QED
    BY <1>5, <2>3, <2>4, <2>5
<1>7. y.pseudo_cycle + 1 < UintMax /\ b \in B2(y)
  BY <1>1, <1>3
<1>8. /\ O1(d) = LRU!Enter(O1(y), b, L1Ways, L1Sets)
      /\ O2(d) = LRU!Use(O2(y), Leaving1(y, b) \cap D1(y), L2Sets)
      /\ Timed(d)
      /\ D1(d) = D1(y) \ Leaving1(y, b)
      /\ D2(d) = D2(y) \cup (Leaving1(y, b) \cap D1(y))
  BY <1>3, <1>6, <1>7, FetchToL1Order, Zenon
<1>9. Leaving1(y, b) = LRU!Leaving(one, b, L1Ways, L1Sets)
  BY <1>6 DEF Leaving1
<1> QED
  BY <1>6, <1>8, <1>9, Zenon

(* The entry the fetch returned is marked. *)
LEMMA MarkFetchedOrder ==
  ASSUME NEW c, Good(c), Timed(c), NEW b \in Block, b \in B1(c), NEW d, d = MarkFetched(c, b)
  PROVE  /\ O1(d) = O1(c) /\ O2(d) = O2(c)
         /\ Timed(d)
         /\ D1(d) = D1(c) \cup {b} /\ D2(d) = D2(c)
<1> DEFINE w == L1!blockExists(c.l1, b)
<1>1. At1(c, w, b)
  BY Found1
<1>2. d = MarkL1(c, w, b)
  BY DEF MarkFetched, Good
<1> HIDE DEF w
<1> QED
  BY <1>1, <1>2, MarkL1Order, Zenon
-----------------------------------------------------------------------------
(* What an access does in the terms of the abstract hierarchy; new is what *)
(* it writes into L1.                                                      *)
HitsL1(c, d, b, new) ==
  /\ b \in B1(c)
  /\ O1(d) = LRU!Use(O1(c), {b}, L1Sets) /\ O2(d) = O2(c)
  /\ D1(d) = D1(c) \cup new /\ D2(d) = D2(c)

HitsL2(c, d, b, new) ==
  LET stale == Leaving1(c, b) \cap D1(c)
  IN  /\ b \notin B1(c) /\ b \in B2(c)
      /\ O1(d) = LRU!Enter(O1(c), b, L1Ways, L1Sets)
      /\ O2(d) = LRU!Use(LRU!Use(O2(c), {b}, L2Sets), stale, L2Sets)
      /\ D1(d) = (D1(c) \ Leaving1(c, b)) \cup new
      /\ D2(d) = D2(c) \cup stale

Misses(c, d, b, new) ==
  LET out   == Leaving2(c, b)
      one   == LRU!Without(O1(c), out)
      stale == LRU!Leaving(one, b, L1Ways, L1Sets) \cap (D1(c) \ out)
  IN  /\ b \notin B1(c) /\ b \notin B2(c)
      /\ O1(d) = LRU!Enter(one, b, L1Ways, L1Sets)
      /\ O2(d) = LRU!Use(LRU!Enter(O2(c), b, L2Ways, L2Sets), stale, L2Sets)
      /\ D1(d) = ((D1(c) \ out) \ LRU!Leaving(one, b, L1Ways, L1Sets)) \cup new
      /\ D2(d) = (D2(c) \ out) \cup stale

WritesL2(c, d, b) ==
  /\ b \notin B1(c) /\ b \in B2(c)
  /\ O1(d) = O1(c) /\ O2(d) = LRU!Use(O2(c), {b}, L2Sets)
  /\ D1(d) = D1(c) /\ D2(d) = D2(c) \cup {b}

(* A block of L2 is fetched, and a block of memory. *)
LEMMA HitsL2Order ==
  ASSUME NEW c, Good(c), Timed(c), c.pseudo_cycle + 2 < UintMax, NEW b \in Block,
         b \notin B1(c), b \in B2(c), NEW w, At2(c, w, b),
         NEW d, d = fetchToL1(TouchL2(c, w, b), b)
  PROVE  Timed(d) /\ HitsL2(c, d, b, {})
<1> DEFINE x == TouchL2(c, w, b)
<1>1. c.pseudo_cycle \in 0 .. UintMax /\ c.pseudo_cycle < UintMax
  BY BlocksOf, Geometry
<1>2. Good(x) /\ x.pseudo_cycle = c.pseudo_cycle + 1 /\ B1(x) = B1(c) /\ B2(x) = B2(c)
  BY <1>1, UsedInL2, Zenon
<1>3. /\ O2(x) = Using(O2(c), b, L2Sets) /\ O1(x) = O1(c) /\ Timed(x)
      /\ D2(x) = D2(c) /\ D1(x) = D1(c)
  BY <1>1, TouchL2Order, Zenon
<1> HIDE DEF x
<1>4. x.pseudo_cycle + 1 < UintMax /\ b \in B2(x) /\ b \notin B1(x) /\ Good(x) /\ Timed(x)
  BY <1>1, <1>2, <1>3
<1>5. d = fetchToL1(x, b)
  BY DEF x
<1>6. /\ O1(d) = LRU!Enter(O1(x), b, L1Ways, L1Sets)
      /\ O2(d) = LRU!Use(O2(x), Leaving1(x, b) \cap D1(x), L2Sets)
      /\ Timed(d)
      /\ D1(d) = D1(x) \ Leaving1(x, b)
      /\ D2(d) = D2(x) \cup (Leaving1(x, b) \cap D1(x))
  BY <1>4, <1>5, FetchToL1Order, Zenon
<1>7. Leaving1(x, b) = Leaving1(c, b)
  BY <1>3 DEF Leaving1
<1> QED
  BY <1>3, <1>6, <1>7 DEF HitsL2, Using

LEMMA MissesOrder ==
  ASSUME NEW c, Good(c), Timed(c), c.pseudo_cycle + 2 < UintMax, NEW b \in Block,
         b \notin B2(c), NEW d, d = fetchBlockFromMemory(c, b)
  PROVE  Timed(d) /\ Misses(c, d, b, {})
<1>1. b \notin B1(c)
  BY BlocksOf
<1> QED
  BY <1>1, FetchFromMemoryOrder DEF Misses

(* What is fetched is written. *)
LEMMA FetchedWritten ==
  ASSUME NEW c, NEW y, Good(y), Timed(y), NEW b \in Block, b \in B1(y),
         NEW d, d = MarkFetched(y, b)
  PROVE  /\ Timed(d)
         /\ HitsL2(c, y, b, {}) => HitsL2(c, d, b, {b})
         /\ Misses(c, y, b, {}) => Misses(c, d, b, {b})
<1>1. /\ O1(d) = O1(y) /\ O2(d) = O2(y) /\ Timed(d)
      /\ D1(d) = D1(y) \cup {b} /\ D2(d) = D2(y)
  BY MarkFetchedOrder, Zenon
<1> QED
  BY <1>1 DEF HitsL2, Misses

LEMMA ReadOrder ==
  ASSUME NEW c, Good(c), Timed(c), c.pseudo_cycle + 2 < UintMax, NEW b \in Block,
         NEW d, d = AfterRead(c, b)
  PROVE  /\ Timed(d)
         /\ HitsL1(c, d, b, {}) \/ HitsL2(c, d, b, {}) \/ Misses(c, d, b, {})
<1> DEFINE w1 == L1!blockExists(c.l1, b)
           w2 == L2!blockExists(c.l2, b)
<1>1. c.pseudo_cycle \in 0 .. UintMax /\ c.pseudo_cycle < UintMax /\ B1(c) \subseteq B2(c)
  BY BlocksOf, Geometry
<1>2. /\ b \notin B1(c) <=> w1 = L1!NULL
      /\ b \notin B2(c) <=> w2 = L2!NULL
      /\ b \in B1(c) => At1(c, w1, b)
      /\ b \in B2(c) => At2(c, w2, b)
  BY Found1, Found2
<1>3. CASE b \in B1(c)
  <2>1. d = TouchL1(c, w1, b)
    BY <1>2, <1>3 DEF AfterRead
  <2> HIDE DEF w1
  <2>2. /\ O1(d) = Using(O1(c), b, L1Sets) /\ O2(d) = O2(c) /\ Timed(d)
        /\ D1(d) = D1(c) /\ D2(d) = D2(c)
    BY <1>1, <1>2, <1>3, <2>1, TouchL1Order, Zenon
  <2> QED
    BY <1>3, <2>2 DEF HitsL1, Using
<1>4. CASE b \notin B1(c) /\ b \in B2(c)
  <2>1. d = fetchToL1(TouchL2(c, w2, b), b)
    BY <1>2, <1>4 DEF AfterRead
  <2> HIDE DEF w2
  <2> QED
    BY <1>2, <1>4, <2>1, HitsL2Order, Zenon
<1>5. CASE b \notin B2(c)
  <2>1. d = fetchBlockFromMemory(c, b)
    BY <1>1, <1>2, <1>5 DEF AfterRead
  <2> QED
    BY <1>5, <2>1, MissesOrder, Zenon
<1> QED
  BY <1>3, <1>4, <1>5

LEMMA WriteOrder ==
  ASSUME NEW c, Good(c), Timed(c), c.pseudo_cycle + 2 < UintMax, NEW b \in Block,
         NEW d, d = AfterWrite(c, b)
  PROVE  /\ Timed(d)
         /\ \/ HitsL1(c, d, b, {b})
            \/ write_policy # 0 /\ HitsL2(c, d, b, {b})
            \/ write_policy = 1 /\ Misses(c, d, b, {b})
            \/ write_policy = 0 /\ WritesL2(c, d, b)
            \/ write_policy # 1 /\ b \notin B1(c) /\ b \notin B2(c) /\ d = c
<1> DEFINE w1 == L1!blockExists(c.l1, b)
           w2 == L2!blockExists(c.l2, b)
<1>1. c.pseudo_cycle \in 0 .. UintMax /\ c.pseudo_cycle < UintMax /\ B1(c) \subseteq B2(c)
  BY BlocksOf, Geometry
<1>2. /\ b \notin B1(c) <=> w1 = L1!NULL
      /\ b \notin B2(c) <=> w2 = L2!NULL
      /\ b \in B1(c) => At1(c, w1, b)
      /\ b \in B2(c) => At2(c, w2, b)
  BY Found1, Found2
<1>3. CASE b \in B1(c)
  <2> DEFINE x == MarkL1(c, w1, b)
  <2>1. d = TouchL1(x, w1, b)
    BY <1>2, <1>3 DEF AfterWrite
  <2> HIDE DEF w1
  <2>2. Good(x) /\ x.pseudo_cycle = c.pseudo_cycle /\ At1(x, w1, b)
    BY <1>2, <1>3, MarkedInL1, Zenon
  <2>3. /\ O1(x) = O1(c) /\ O2(x) = O2(c) /\ Timed(x)
        /\ D1(x) = D1(c) \cup {b} /\ D2(x) = D2(c)
    BY <1>2, <1>3, MarkL1Order, Zenon
  <2> HIDE DEF x
  <2>4. x.pseudo_cycle < UintMax /\ Good(x) /\ Timed(x) /\ At1(x, w1, b)
    BY <1>1, <2>2, <2>3
  <2>5. /\ O1(d) = Using(O1(x), b, L1Sets) /\ O2(d) = O2(x) /\ Timed(d)
        /\ D1(d) = D1(x) /\ D2(d) = D2(x)
    BY <2>1, <2>4, TouchL1Order, Zenon
  <2> QED
    BY <1>3, <2>3, <2>5 DEF HitsL1, Using
<1>4. CASE b \notin B1(c) /\ b \in B2(c)
  <2> DEFINE x == TouchL2(c, w2, b)
  <2>1. d = IF write_policy = 0 THEN MarkL2(x, w2, b) ELSE MarkFetched(fetchToL1(x, b), b)
    BY <1>2, <1>4 DEF AfterWrite, NO_WRITE_ALLOCATE
  <2> HIDE DEF w1, w2
  <2>2. /\ Good(x) /\ x.pseudo_cycle = c.pseudo_cycle + 1
        /\ B1(x) = B1(c) /\ B2(x) = B2(c) /\ At2(x, w2, b)
    BY <1>1, <1>2, <1>4, UsedInL2, Zenon
  <2>3. /\ O2(x) = Using(O2(c), b, L2Sets) /\ O1(x) = O1(c) /\ Timed(x)
        /\ D2(x) = D2(c) /\ D1(x) = D1(c)
    BY <1>1, <1>2, <1>4, TouchL2Order, Zenon
  <2> HIDE DEF x
  <2>4. CASE write_policy = 0
    <3>1. d = MarkL2(x, w2, b)
      BY <2>1, <2>4
    <3>2. Good(x) /\ Timed(x) /\ At2(x, w2, b)
      BY <2>2, <2>3
    <3>3. /\ O2(d) = O2(x) /\ O1(d) = O1(x) /\ Timed(d)
          /\ D2(d) = D2(x) \cup {b} /\ D1(d) = D1(x)
      BY <3>1, <3>2, MarkL2Order, Zenon
    <3> QED
      BY <1>4, <2>3, <2>4, <3>3 DEF WritesL2, Using
  <2>5. CASE write_policy # 0
    <3> DEFINE y == fetchToL1(x, b)
    <3>1. d = MarkFetched(y, b)
      BY <2>1, <2>5
    <3>2. x.pseudo_cycle + 1 < UintMax /\ b \in B2(x) /\ b \notin B1(x) /\ Good(x)
      BY <1>1, <1>4, <2>2
    <3>3. Good(y) /\ b \in B1(y)
      BY <3>2, FetchToL1Right, Zenon
    <3>4. Timed(y) /\ HitsL2(c, y, b, {})
      <4>1. At2(c, w2, b) /\ y = fetchToL1(TouchL2(c, w2, b), b)
        BY <1>2, <1>4 DEF x
      <4> HIDE DEF y
      <4> QED
        BY <1>4, <4>1, HitsL2Order, Zenon
    <3> HIDE DEF y
    <3>5. Timed(d) /\ HitsL2(c, d, b, {b})
      BY <3>1, <3>3, <3>4, FetchedWritten, Zenon
    <3> QED
      BY <2>5, <3>5
  <2> QED
    BY <2>4, <2>5
<1>5. CASE b \notin B2(c)
  <2>1. CASE write_policy = 1
    <3> DEFINE y == fetchBlockFromMemory(c, b)
    <3>1. d = MarkFetched(y, b)
      BY <1>1, <1>2, <1>5, <2>1 DEF AfterWrite, WRITE_ALLOCATE, NO_WRITE_ALLOCATE
    <3>2. Good(y) /\ b \in B1(y)
      BY <1>5, FetchFromMemoryRight, Zenon
    <3>3. Timed(y) /\ Misses(c, y, b, {})
      BY <1>5, MissesOrder, Zenon
    <3> HIDE DEF y
    <3>4. Timed(d) /\ Misses(c, d, b, {b})
      BY <3>1, <3>2, <3>3, FetchedWritten, Zenon
    <3> QED
      BY <2>1, <3>4
  <2>2. CASE write_policy # 1
    <3>1. d = c
      BY <1>1, <1>2, <1>5, <2>2 DEF AfterWrite, WRITE_ALLOCATE, NO_WRITE_ALLOCATE
    <3> QED
      BY <1>1, <1>5, <2>2, <3>1
  <2> QED
    BY <2>1, <2>2
<1> QED
  BY <1>3, <1>4, <1>5
-----------------------------------------------------------------------------
(* The refinement.                                                         *)
LEMMA HasOrder ==
  ASSUME NEW W \in Nat \ {0}, NEW N \in Nat \ {0}, NEW L, Sound(L, W, N), NEW b \in Block
  PROVE  LRU!Has(Order(L, W, N), b) <=> b \in In(L, W, N)
<1>1. L \in [0 .. W - 1 -> [0 .. N - 1 -> Entries]]
  BY DEF Sound, Levels
<1>2. ASSUME NEW v \in 0 .. W - 1 PROVE Stamp(L, v, b, N) >= Stamp(L, v, b, N)
  <2>1. L[v][b % N] \in Entries
    BY <1>1, SetOf
  <2> QED
    BY <2>1 DEF Stamp, Entries
<1> QED
  BY <1>2, OrderPair DEF In, LRU!Has

LEMMA RecencyIsOrder ==
  ASSUME NEW W \in Nat \ {0}, NEW N \in Nat \ {0}, NEW L, Sound(L, W, N)
  PROVE  Recency(L, {p \in (0 .. W - 1) \X (0 .. N - 1) : L[p[1]][p[2]].valid}) = Order(L, W, N)
<1> DEFINE V == {p \in (0 .. W - 1) \X (0 .. N - 1) : L[p[1]][p[2]].valid}
           address(p) == L[p[1]][p[2]].address
           time(p) == L[p[1]][p[2]].last_accessed_time
           R == Recency(L, V)
           Q == Order(L, W, N)
<1>1. \A p \in V : /\ address(p) \in Block /\ address(p) % N = p[2] /\ p[1] \in 0 .. W - 1
                   /\ At(L, p[1], address(p), N) /\ Stamp(L, p[1], address(p), N) = time(p)
  BY DEF Sound, Suits, At, Stamp
<1>2. ASSUME NEW a, NEW b, <<a, b>> \in R PROVE <<a, b>> \in Q
  <2>1. PICK p \in V, q \in V : /\ p[2] = q[2] /\ time(p) >= time(q)
                                /\ a = address(p) /\ b = address(q)
    BY <1>2 DEF Recency
  <2> QED
    BY <1>1, <2>1, OrderPair
<1>3. ASSUME NEW a, NEW b, <<a, b>> \in Q PROVE <<a, b>> \in R
  <2>1. PICK v, w \in 0 .. W - 1 :
          /\ a \in Block /\ b \in Block /\ a % N = b % N
          /\ At(L, v, a, N) /\ At(L, w, b, N) /\ Stamp(L, v, a, N) >= Stamp(L, w, b, N)
    BY <1>3, OrderPair
  <2>2. a % N \in 0 .. N - 1
    BY <2>1, SetOf
  <2> DEFINE p == <<v, a % N>>
             q == <<w, b % N>>
  <2>3. p \in V /\ q \in V /\ p[2] = q[2] /\ time(p) >= time(q) /\ a = address(p) /\ b = address(q)
    BY <2>1, <2>2 DEF At, Stamp
  <2> HIDE DEF p, q, V
  <2>4. <<p, q>> \in V \X V
    BY <2>3
  <2> QED
    BY <2>3, <2>4 DEF Recency
<1>4. \A p \in R : p = <<p[1], p[2]>>
  BY DEF Recency
<1>5. \A p \in Q : p = <<p[1], p[2]>>
  BY OrderIsPairs
<1>6. R = Q
  <2> HIDE DEF R, Q
  <2> QED
    BY <1>2, <1>3, <1>4, <1>5
<1> QED
  BY <1>6

(* The abstract state, in terms of the cache's. *)
LEMMA AbstractState ==
  ASSUME NEW c, Good(c)
  PROVE  /\ Recency(c.l1, L1!Valid(c.l1)) = O1(c) /\ Recency(c.l2, L2!Valid(c.l2)) = O2(c)
         /\ L1!Dirty(c.l1) = D1(c) /\ L2!Dirty(c.l2) = D2(c)
<1>1. Sound(c.l1, L1Ways, L1Sets) /\ Sound(c.l2, L2Ways, L2Sets)
  BY DEF Good
<1>2. ASSUME NEW L
      PROVE  /\ L1!Valid(L) = {p \in (0 .. L1Ways - 1) \X (0 .. L1Sets - 1) : L[p[1]][p[2]].valid}
             /\ L2!Valid(L) = {p \in (0 .. L2Ways - 1) \X (0 .. L2Sets - 1) : L[p[1]][p[2]].valid}
  BY DEF L1!Valid, L1!Ways, L1!Sets, L2!Valid, L2!Ways, L2!Sets
<1>3. /\ Recency(c.l1, L1!Valid(c.l1)) = Order(c.l1, L1Ways, L1Sets)
      /\ Recency(c.l2, L2!Valid(c.l2)) = Order(c.l2, L2Ways, L2Sets)
  BY <1>1, <1>2, Geometry, RecencyIsOrder
<1> QED
  BY <1>1, <1>3, Level1, Level2 DEF O1, O2, D1, D2

LEMMA HeldHas ==
  ASSUME NEW c, Good(c), NEW b \in Block
  PROVE  (LRU!Has(O1(c), b) <=> b \in B1(c)) /\ (LRU!Has(O2(c), b) <=> b \in B2(c))
<1>1. Sound(c.l1, L1Ways, L1Sets) /\ Sound(c.l2, L2Ways, L2Sets)
  BY DEF Good
<1> QED
  BY <1>1, Geometry, HasOrder DEF O1, O2, B1, B2

(* The blocks newer than memory that the cache still holds. *)
LEMMA StillWritten ==
  ASSUME NEW d, Good(d), NEW newer, newer \subseteq Block
  PROVE  newer \cap L2!Blocks(d.l2) = {v \in newer : LRU!Has(O2(d), v)}
<1>1. Sound(d.l2, L2Ways, L2Sets)
  BY DEF Good
<1>2. L2!Blocks(d.l2) = B2(d)
  BY <1>1, Level2 DEF B2
<1> QED
  BY <1>2, HeldHas

LEMMA ReadStep ==
  ASSUME TraceFits, CacheInv, Timed(cache), CacheInv', NEW b \in Block, cacheRead(b)
  PROVE  Timed(cache)' /\ LRU!Read(b)
<1>1. PICK c : c = cache
  OBVIOUS
<1>2. PICK d : d = AfterRead(c, b)
  OBVIOUS
<1>3. /\ Become(d) /\ l1_access < MaxAccesses
      /\ written' = written \cap L2!Blocks(l2') /\ write_policy' = write_policy
  BY <1>1, <1>2 DEF cacheRead
<1>4. Good(c) /\ c.pseudo_cycle + 2 < UintMax /\ D(c) = written /\ Timed(c)
  BY <1>1, <1>3, RoomForAccess
<1>5. Good(d)
  BY <1>2, <1>4, ReadRight DEF Accessed
<1>6. cache' = d /\ d.l1 = l1' /\ d.l2 = l2' /\ c.l1 = l1 /\ c.l2 = l2
  BY <1>1, <1>3, <1>5 DEF Become, cache, Good, Caches
<1>7. Timed(d) /\ (HitsL1(c, d, b, {}) \/ HitsL2(c, d, b, {}) \/ Misses(c, d, b, {}))
  BY <1>2, <1>4, ReadOrder, Zenon
<1>8. /\ Recency(l1, L1!Valid(l1)) = O1(c) /\ Recency(l2, L2!Valid(l2)) = O2(c)
      /\ L1!Dirty(l1) = D1(c) /\ L2!Dirty(l2) = D2(c)
      /\ Recency(l1', L1!Valid(l1')) = O1(d) /\ Recency(l2', L2!Valid(l2')) = O2(d)
      /\ L1!Dirty(l1') = D1(d) /\ L2!Dirty(l2') = D2(d)
  BY <1>4, <1>5, <1>6, AbstractState
<1>9. /\ LRU!In1(b) <=> b \in B1(c)
      /\ LRU!In2(b) <=> b \in B2(c)
  BY <1>4, <1>8, HeldHas DEF LRU!In1, LRU!In2
<1>10. HitsL1(c, d, b, {}) => LRU!Hit1(b, FALSE)
  BY <1>8, <1>9 DEF HitsL1, LRU!Hit1
<1>11. HitsL2(c, d, b, {}) => LRU!Hit2(b, FALSE)
  BY <1>8, <1>9 DEF HitsL2, LRU!Hit2, LRU!EnterL1, LRU!StaleBelow, LRU!Victims, Leaving1
<1>12. Misses(c, d, b, {}) => LRU!Miss(b, FALSE)
  BY <1>8, <1>9 DEF Misses, LRU!Miss, LRU!EnterL1, LRU!StaleBelow, LRU!Victims, LRU!LeavesBoth,
                    Leaving2
<1>13. written' = {v \in written : LRU!Has(Recency(l2', L2!Valid(l2')), v)}
  BY <1>3, <1>4, <1>5, <1>6, <1>8, StillWritten, BlocksOf
<1> QED
  BY <1>3, <1>6, <1>7, <1>10, <1>11, <1>12, <1>13 DEF LRU!Read

LEMMA WriteStep ==
  ASSUME TraceFits, CacheInv, Timed(cache), CacheInv', NEW b \in Block, cacheWrite(b)
  PROVE  Timed(cache)' /\ LRU!Write(b)
<1>1. PICK c : c = cache
  OBVIOUS
<1>2. PICK d : d = AfterWrite(c, b)
  OBVIOUS
<1>3. /\ Become(d) /\ l1_access < MaxAccesses
      /\ written' = (written \cup {b}) \cap L2!Blocks(l2') /\ write_policy' = write_policy
  BY <1>1, <1>2 DEF cacheWrite
<1>4. Good(c) /\ c.pseudo_cycle + 2 < UintMax /\ D(c) = written /\ Timed(c)
  BY <1>1, <1>3, RoomForAccess
<1>5. Good(d)
  BY <1>2, <1>4, WriteRight DEF Accessed
<1>6. cache' = d /\ d.l1 = l1' /\ d.l2 = l2' /\ c.l1 = l1 /\ c.l2 = l2
  BY <1>1, <1>3, <1>5 DEF Become, cache, Good, Caches
<1>7. /\ Timed(d)
      /\ \/ HitsL1(c, d, b, {b})
         \/ write_policy # 0 /\ HitsL2(c, d, b, {b})
         \/ write_policy = 1 /\ Misses(c, d, b, {b})
         \/ write_policy = 0 /\ WritesL2(c, d, b)
         \/ write_policy # 1 /\ b \notin B1(c) /\ b \notin B2(c) /\ d = c
  BY <1>2, <1>4, WriteOrder, Zenon
<1>8. /\ Recency(l1, L1!Valid(l1)) = O1(c) /\ Recency(l2, L2!Valid(l2)) = O2(c)
      /\ L1!Dirty(l1) = D1(c) /\ L2!Dirty(l2) = D2(c)
      /\ Recency(l1', L1!Valid(l1')) = O1(d) /\ Recency(l2', L2!Valid(l2')) = O2(d)
      /\ L1!Dirty(l1') = D1(d) /\ L2!Dirty(l2') = D2(d)
  BY <1>4, <1>5, <1>6, AbstractState
<1>9. /\ LRU!In1(b) <=> b \in B1(c)
      /\ LRU!In2(b) <=> b \in B2(c)
  BY <1>4, <1>8, HeldHas DEF LRU!In1, LRU!In2
<1>10. HitsL1(c, d, b, {b}) => LRU!Hit1(b, TRUE)
  BY <1>8, <1>9 DEF HitsL1, LRU!Hit1
<1>11. HitsL2(c, d, b, {b}) => LRU!Hit2(b, TRUE)
  BY <1>8, <1>9 DEF HitsL2, LRU!Hit2, LRU!EnterL1, LRU!StaleBelow, LRU!Victims, Leaving1
<1>12. Misses(c, d, b, {b}) => LRU!Miss(b, TRUE)
  BY <1>8, <1>9 DEF Misses, LRU!Miss, LRU!EnterL1, LRU!StaleBelow, LRU!Victims, LRU!LeavesBoth,
                    Leaving2
<1>13. written' = {v \in written \cup {b} : LRU!Has(Recency(l2', L2!Valid(l2')), v)}
  <2>1. written \cup {b} \subseteq Block
    BY <1>4, BlocksOf
  <2> QED
    BY <1>3, <1>5, <1>6, <1>8, <2>1, StillWritten
<1> QED
  BY <1>3, <1>6, <1>7, <1>8, <1>9, <1>10, <1>11, <1>12, <1>13 DEF LRU!Write, WritesL2

(* For every number of ways and sets and every trace of less than a third  *)
(* of UINT32_MAX accesses, timestamps and pointer-linked searches behave   *)
(* as the two-level LRU hierarchy: each access uses, moves and evicts      *)
(* exactly the blocks it does, in the order it does (cacheSim.cpp:158-333).*)
THEOREM ImplementsLRUCorrect == ASSUME TraceFits PROVE Spec => ImplementsLRU
<1>1. Init => CacheInv /\ Timed(cache) /\ LRU!Init
  <2> SUFFICES ASSUME Init PROVE CacheInv /\ Timed(cache) /\ LRU!Init
    OBVIOUS
  <2>1. CacheInv
    BY CacheInvInit
  <2>2. cache.l1 = L1!EmptyLevel /\ cache.l2 = L2!EmptyLevel
    BY DEF Init, cache
  <2>3. /\ \A w \in 0 .. L1Ways - 1, s \in 0 .. L1Sets - 1 : ~cache.l1[w][s].valid
        /\ \A w \in 0 .. L2Ways - 1, s \in 0 .. L2Sets - 1 : ~cache.l2[w][s].valid
    BY <2>2 DEF L1!EmptyLevel, L1!Ways, L1!Sets, L2!EmptyLevel, L2!Ways, L2!Sets
  <2>4. Timed(cache)
    BY <2>3 DEF Timed, Stamped
  <2>5. \A b \in Block : b % L1Sets \in 0 .. L1Sets - 1 /\ b % L2Sets \in 0 .. L2Sets - 1
    BY Geometry, SetOf
  <2>6. O1(cache) = {} /\ O2(cache) = {} /\ D1(cache) = {} /\ D2(cache) = {}
    BY <2>3, <2>5 DEF O1, O2, D1, D2, Order, Dirt, At
  <2>7. /\ Recency(l1, L1!Valid(l1)) = {} /\ Recency(l2, L2!Valid(l2)) = {}
        /\ L1!Dirty(l1) = {} /\ L2!Dirty(l2) = {}
    <3>1. Good(cache) /\ cache.l1 = l1 /\ cache.l2 = l2
      BY <2>1 DEF CacheInv, cache
    <3> QED
      BY <2>6, <3>1, AbstractState
  <2> QED
    BY <2>1, <2>4, <2>7 DEF Init, LRU!Init
<1>2. CacheInv /\ Timed(cache) /\ [Next]_vars
        => (CacheInv /\ Timed(cache))' /\ [LRU!Next]_(LRU!lruVars)
  <2> SUFFICES ASSUME CacheInv, Timed(cache), [Next]_vars
               PROVE  (CacheInv /\ Timed(cache))' /\ [LRU!Next]_(LRU!lruVars)
    OBVIOUS
  <2>1. CacheInv'
    BY CacheInvNext
  <2>2. ASSUME NEW b \in Block, cacheRead(b) PROVE Timed(cache)' /\ LRU!Next
    BY <2>1, <2>2, ReadStep DEF LRU!Next
  <2>3. ASSUME NEW b \in Block, cacheWrite(b) PROVE Timed(cache)' /\ LRU!Next
    BY <2>1, <2>3, WriteStep DEF LRU!Next
  <2>4. ASSUME UNCHANGED vars PROVE Timed(cache)' /\ UNCHANGED LRU!lruVars
    BY <2>4 DEF vars, cache, Timed, LRU!lruVars
  <2> QED
    BY <2>1, <2>2, <2>3, <2>4 DEF Next, Finished
<1> QED
  BY <1>1, <1>2, PTL DEF Spec, ImplementsLRU, LRU!Spec
=============================================================================
