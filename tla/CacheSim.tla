------------------------------- MODULE CacheSim -------------------------------
(***************************************************************************)
(* The two-level cache of HW2/cacheSim.cpp: a read or a write of a block   *)
(* per line of the trace.  A handler runs to its end before the next line  *)
(* is read, so each is one action, written as a function of the state of   *)
(* both levels (a record c of l1, l2, pseudo_cycle and crashed).           *)
(*                                                                         *)
(* Bound: MaxAccesses, the length of the trace.                            *)
(***************************************************************************)
EXTENDS Integers, Sequences

CONSTANTS
  L1Ways, L1Sets, L2Ways, L2Sets,
  L1Cyc, L2Cyc, MemCyc,       \* access times
  Block,                      \* the blocks a trace may name
  WrAllocs,                   \* the values --wr-alloc may take
  UintMax,
  MaxAccesses

ASSUME GeometryAssumption ==
  {L1Ways, L1Sets, L2Ways, L2Sets} \subseteq Nat \ {0} /\ UintMax \in Nat
ASSUME BlockAssumption == Block \subseteq Nat
ASSUME CyclesAssumption ==
  L1Cyc \in Nat /\ L2Cyc \in Nat /\ MemCyc \in Nat /\ MaxAccesses \in Nat

L1 == INSTANCE CacheLevel WITH num_of_ways <- L1Ways, num_of_sets <- L1Sets
L2 == INSTANCE CacheLevel WITH num_of_ways <- L2Ways, num_of_sets <- L2Sets

NO_WRITE_ALLOCATE == 0
WRITE_ALLOCATE    == 1

VARIABLES
  write_policy,
  l1, l2,             \* the ways of each level
  pseudo_cycle,       \* the LRU clock
  crashed,            \* a null or uninitialised entry was written through
  l1_access, l1_miss, l2_access, l2_miss,
  t_access_total,
  written             \* history: blocks the cache holds newer than memory does

counters == <<l1_access, l1_miss, l2_access, l2_miss, t_access_total>>
vars     == <<write_policy, l1, l2, pseudo_cycle, crashed, counters, written>>

cache == [l1 |-> l1, l2 |-> l2, pseudo_cycle |-> pseudo_cycle, crashed |-> crashed]

(* Faulty variant: the clock runs backwards. *)
Tick_Back(n) == n - 1
Tick(n) == (n + 1) % (UintMax + 1)

(* Entry w of the set of address b becomes most recently used. *)
TouchL1(c, w, b) ==
  [c EXCEPT !.l1[w][L1!getSet(b)].last_accessed_time = c.pseudo_cycle,
            !.pseudo_cycle = Tick(@)]
TouchL2(c, w, b) ==
  [c EXCEPT !.l2[w][L2!getSet(b)].last_accessed_time = c.pseudo_cycle,
            !.pseudo_cycle = Tick(@)]

MarkL1(c, w, b) == [c EXCEPT !.l1[w][L1!getSet(b)].dirty = TRUE]
MarkL2(c, w, b) == [c EXCEPT !.l2[w][L2!getSet(b)].dirty = TRUE]

Fresh(tag, time, b) ==
  [valid |-> TRUE, dirty |-> FALSE, tag |-> tag, last_accessed_time |-> time, address |-> b]

Crash(c) == [c EXCEPT !.crashed = TRUE]

(* Faulty variant: the data of a dirty victim is dropped. *)
WriteBack_Dropped(c, victim) == c

(* The victim's data moves to L2, which by inclusion holds the block. *)
WriteBack(c, victim) ==
  LET w == L2!blockExists(c.l2, victim)
  IN  IF w = L2!NULL THEN Crash(c) ELSE TouchL2(MarkL2(c, w, victim), w, victim)

InsertL1(c, w, b) ==
  [c EXCEPT !.l1[w][L1!getSet(b)] = Fresh(L1!getTag(b), c.pseudo_cycle, b),
            !.pseudo_cycle = Tick(@)]
InsertL2(c, w, b) ==
  [c EXCEPT !.l2[w][L2!getSet(b)] = Fresh(L2!getTag(b), c.pseudo_cycle, b),
            !.pseudo_cycle = Tick(@)]

(* The way getEntryForNewBlock chose for b is where the new block is.      *)
fetchToL1(c, b) ==
  LET w      == L1!getEntryForNewBlock(c.l1, b)
      victim == c.l1[w][L1!getSet(b)]
  IN  CASE w = L1!NULL -> Crash(c)
        [] w # L1!NULL /\ victim.valid /\ victim.dirty ->
             InsertL1(WriteBack(c, victim.address), w, b)
        [] OTHER -> InsertL1(c, w, b)

(* Faulty variant: it stays in L1. *)
Invalidate_Never(c, b) == c

(* A block that leaves L2 leaves L1 too. *)
Invalidate(c, b) ==
  LET w == L1!blockExists(c.l1, b)
  IN  IF w = L1!NULL THEN c ELSE [c EXCEPT !.l1[w][L1!getSet(b)].valid = FALSE]

fetchBlockFromMemory(c, b) ==
  LET w      == L2!getEntryForNewBlock(c.l2, b)
      victim == c.l2[w][L2!getSet(b)]
  IN  CASE w = L2!NULL -> Crash(c)
        [] w # L2!NULL /\ victim.valid ->
             fetchToL1(InsertL2(Invalidate(c, victim.address), w, b), b)
        [] OTHER -> fetchToL1(InsertL2(c, w, b), b)

(* The caller's "->dirty = true" on the entry the fetch returned. *)
MarkFetched(c, b) ==
  IF c.crashed THEN c ELSE MarkL1(c, L1!blockExists(c.l1, b), b)

(* Faulty variant: a block found in L2 is copied to L1 without being       *)
(* marked as used in L2.                                                   *)
AfterRead_NoTouch(c, b) ==
  LET w1 == L1!blockExists(c.l1, b)
      w2 == L2!blockExists(c.l2, b)
  IN  CASE w1 # L1!NULL -> TouchL1(c, w1, b)
        [] w1 = L1!NULL /\ w2 # L2!NULL -> fetchToL1(c, b)
        [] OTHER -> fetchBlockFromMemory(c, b)

AfterRead(c, b) ==
  LET w1 == L1!blockExists(c.l1, b)
      w2 == L2!blockExists(c.l2, b)
  IN  CASE w1 # L1!NULL -> TouchL1(c, w1, b)
        [] w1 = L1!NULL /\ w2 # L2!NULL -> fetchToL1(TouchL2(c, w2, b), b)
        [] OTHER -> fetchBlockFromMemory(c, b)

AfterWrite(c, b) ==
  LET w1 == L1!blockExists(c.l1, b)
      w2 == L2!blockExists(c.l2, b)
      allocate == write_policy = WRITE_ALLOCATE
  IN  CASE w1 # L1!NULL -> TouchL1(MarkL1(c, w1, b), w1, b)
        [] w1 = L1!NULL /\ w2 # L2!NULL /\ write_policy = NO_WRITE_ALLOCATE ->
             MarkL2(TouchL2(c, w2, b), w2, b)
        [] w1 = L1!NULL /\ w2 # L2!NULL /\ write_policy # NO_WRITE_ALLOCATE ->
             MarkFetched(fetchToL1(TouchL2(c, w2, b), b), b)
        [] w1 = L1!NULL /\ w2 = L2!NULL /\ allocate ->
             MarkFetched(fetchBlockFromMemory(c, b), b)
        [] OTHER -> c

(* Faulty variant: the time of an access to L2 is added only when it hits. *)
Count_HitsOnly(b) ==
  LET miss1 == ~L1!Holds(l1, b)
      miss2 == miss1 /\ ~L2!Holds(l2, b)
      One(p) == IF p THEN 1 ELSE 0
  IN  /\ l1_access' = l1_access + 1
      /\ l1_miss' = l1_miss + One(miss1)
      /\ l2_access' = l2_access + One(miss1)
      /\ l2_miss' = l2_miss + One(miss2)
      /\ t_access_total' = t_access_total + L1Cyc + One(miss1 /\ ~miss2) * L2Cyc
                             + One(miss2) * MemCyc

(* The counters cacheRead and cacheWrite keep alike. *)
Count(b) ==
  LET miss1 == ~L1!Holds(l1, b)
      miss2 == miss1 /\ ~L2!Holds(l2, b)
      One(p) == IF p THEN 1 ELSE 0
  IN  /\ l1_access' = l1_access + 1
      /\ l1_miss' = l1_miss + One(miss1)
      /\ l2_access' = l2_access + One(miss1)
      /\ l2_miss' = l2_miss + One(miss2)
      /\ t_access_total' = t_access_total + L1Cyc + One(miss1) * L2Cyc + One(miss2) * MemCyc

Become(c) ==
  /\ l1' = c.l1
  /\ l2' = c.l2
  /\ pseudo_cycle' = c.pseudo_cycle
  /\ crashed' = c.crashed

Init ==
  /\ write_policy \in WrAllocs
  /\ l1 = L1!EmptyLevel
  /\ l2 = L2!EmptyLevel
  /\ pseudo_cycle = 0
  /\ crashed = FALSE
  /\ l1_access = 0
  /\ l1_miss = 0
  /\ l2_access = 0
  /\ l2_miss = 0
  /\ t_access_total = 0
  /\ written = {}

(* history: a block that left L2 is back in memory. *)
cacheRead(b) ==
  /\ ~crashed
  /\ l1_access < MaxAccesses
  /\ Count(b)
  /\ Become(AfterRead(cache, b))
  /\ written' = written \cap L2!Blocks(l2')
  /\ UNCHANGED write_policy

(* history: a write that the cache does not keep goes to memory. *)
cacheWrite(b) ==
  /\ ~crashed
  /\ l1_access < MaxAccesses
  /\ Count(b)
  /\ Become(AfterWrite(cache, b))
  /\ written' = (written \cup {b}) \cap L2!Blocks(l2')
  /\ UNCHANGED write_policy

(* The file with the trace has ended. *)
Finished == (crashed \/ l1_access = MaxAccesses) /\ UNCHANGED vars

Next == (\E b \in Block : cacheRead(b) \/ cacheWrite(b)) \/ Finished

Spec == Init /\ [][Next]_vars
-----------------------------------------------------------------------------
TypeOK ==
  /\ l1 \in [L1!Ways -> [L1!Sets -> L1!Entry]]
  /\ l2 \in [L2!Ways -> [L2!Sets -> L2!Entry]]
  /\ pseudo_cycle \in 0 .. UintMax
  /\ crashed \in BOOLEAN
  /\ written \subseteq Block

(* The searches rely on it: in no set do two ways hold one tag, and every  *)
(* valid entry is where getSet and getTag look for its address.            *)
OnePlace ==
  /\ \A p, q \in L1!Valid(l1) : l1[p[1]][p[2]].address = l1[q[1]][q[2]].address => p = q
  /\ \A p, q \in L2!Valid(l2) : l2[p[1]][p[2]].address = l2[q[1]][q[2]].address => p = q
  /\ \A b \in L1!Blocks(l1) : L1!Holds(l1, b)
  /\ \A b \in L2!Blocks(l2) : L2!Holds(l2, b)

(* "Due to inclusiveness" (cacheSim.cpp:281): whatever L1 holds L2 holds.  *)
Inclusion == L1!Blocks(l1) \subseteq L2!Blocks(l2)

(* entry_l2 is never NULL when fetchToL1 writes through it, and the search *)
(* for a victim never returns an uninitialised pointer.                    *)
NoBadPointer == ~crashed

(* The state every operation of the cache assumes of the two levels.       *)
Coherent == OnePlace /\ Inclusion /\ NoBadPointer

(* No write is lost: a block newer than memory is dirty in a level, so its *)
(* eviction from L2 would write it back; and only such a block is dirty.   *)
WritesKept ==
  (L1!Dirty(l1) \cup L2!Dirty(l2)) \cap L2!Blocks(l2) = written

(* The printed rates rest on it: every L1 miss is one L2 access, the total *)
(* time is that of the accesses each level and the memory saw, and after   *)
(* any access neither rate divides by zero.                                *)
AccountingExact ==
  /\ l1_access > 0 => l2_access > 0
  /\ l2_access = l1_miss
  /\ l2_miss <= l2_access
  /\ t_access_total = l1_access * L1Cyc + l2_access * L2Cyc + l2_miss * MemCyc

(* The timestamps implement LRU: they order the valid entries of each set  *)
(* as the abstract hierarchy orders its blocks.                            *)
Recency(level, valid) ==
  {<<level[p[1][1]][p[1][2]].address, level[p[2][1]][p[2][2]].address>> :
     p \in {q \in valid \X valid :
              /\ q[1][2] = q[2][2]
              /\ level[q[1][1]][q[1][2]].last_accessed_time
                   >= level[q[2][1]][q[2][2]].last_accessed_time}}

LRU == INSTANCE LRUHierarchy WITH
  wrAlloc <- write_policy,
  victimFirst <- FALSE,
  recent1 <- Recency(l1, L1!Valid(l1)),
  recent2 <- Recency(l2, L2!Valid(l2)),
  dirty1  <- L1!Dirty(l1),
  dirty2  <- L2!Dirty(l2)

ImplementsLRU == LRU!Spec
=============================================================================
