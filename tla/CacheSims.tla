------------------------------ MODULE CacheSims ------------------------------
(***************************************************************************)
(* The two other implementations of HW2's cache simulator, each run on the *)
(* same trace as the abstract hierarchy of LRUHierarchy.  Everything is    *)
(* finite, so traces of any length are explored.                           *)
(***************************************************************************)
EXTENDS LRUHierarchy, SequencesExt

ASSUME LevelSizes ==
  /\ L1Ways \in Nat \ {0} /\ L1Sets \in Nat \ {0}
  /\ L2Ways \in Nat \ {0} /\ L2Sets \in Nat \ {0}
ASSUME BlockNumbers == Block \subseteq Nat

VARIABLES
  program,     \* the executable that reads the trace
  ranked,      \* the cache of CacheSimRoy
  vector,      \* the cache of CacheSimShelly
  lucky        \* history: changeToX's uninitialised set was the right one so far

vars == <<lruVars, program, ranked, vector, lucky>>

Ranked == INSTANCE RankedCache
Vector == INSTANCE VectorCache

(* What an uninitialised unsigned may hold: a set of L1, or none of them.  *)
NOT_A_SET == L1Sets
Garbage   == 0 .. NOT_A_SET

(* Where the access does not read it, one value stands for all.            *)
Uninitialised(b, operation) ==
  IF Vector!ReadsGarbage(vector, b, operation, wrAlloc) THEN Garbage ELSE {NOT_A_SET}

Operation == {"r", "w"}

Step(b, operation) == IF operation = "w" THEN Write(b) ELSE Read(b)

RoyAccess(b, operation) ==
  /\ program = "Roy"
  /\ ~ranked.crashed
  /\ ranked' = Ranked!access(ranked, b, operation, wrAlloc)
  /\ Step(b, operation)
  /\ UNCHANGED <<program, vector, lucky>>

(* Past a wrong set the program is not followed. *)
ShellyAccess(b, operation) ==
  /\ program = "Shelly"
  /\ lucky
  /\ \E set \in Uninitialised(b, operation) :
       /\ vector' = Vector!calc_operation(vector, b, operation, wrAlloc, set)
       /\ lucky'  = (Vector!ReadsGarbage(vector, b, operation, wrAlloc)
                       => set = Vector!LRUgetLeastRecentlyUsed(vector.L2, b) % L1Sets)
  /\ Step(b, operation)
  /\ UNCHANGED <<program, ranked>>

SimsInit ==
  /\ Init
  /\ program \in {"Roy", "Shelly"}
  /\ victimFirst = (program = "Shelly")
  /\ ranked = Ranked!EmptyCache
  /\ vector = Vector!EmptyCache
  /\ lucky = TRUE

(* Nothing is claimed of the accesses after a wrong set was written to. *)
Undefined == ~lucky /\ UNCHANGED vars

SimsNext ==
  \/ \E b \in Block, operation \in Operation :
       RoyAccess(b, operation) \/ ShellyAccess(b, operation)
  \/ Undefined

SimsSpec == SimsInit /\ [][SimsNext]_vars
-----------------------------------------------------------------------------
(* The ranks of CacheSimRoy implement LRU: they number the valid ways of   *)
(* each set without gap or repetition, so that getLRU finds one, and order *)
(* the blocks as the hierarchy does; the dirty bits are the abstract ones, *)
(* except that InsertToL2 also marks the L2 copy of a block written for    *)
(* the first time.  No trace reaches the null pointer of "should never     *)
(* reach here" (cacheSimRoy.cpp:174).                                      *)
RankedMatches ==
  program = "Roy" =>
    /\ ~ranked.crashed
    /\ \A level \in {ranked.L1, ranked.L2} :
         \A s \in DOMAIN level : Ranked!RanksExact(level[s])
    /\ Ranked!ByRank(ranked.L1) = recent1
    /\ Ranked!ByRank(ranked.L2) = recent2
    /\ Ranked!DirtyIn(ranked.L1) = dirty1
    /\ dirty2 \subseteq Ranked!DirtyIn(ranked.L2)
    /\ Ranked!DirtyIn(ranked.L2) \subseteq written

(* CacheSimShelly keeps two records of what a level holds, the data and    *)
(* the lists, in functions that touch one or the other: as long as no      *)
(* wrong set is written they agree, and L1 is included in L2.              *)
VectorConsistent ==
  program = "Shelly" /\ lucky =>
    /\ ~vector.crashed
    /\ \A c \in {vector.L1, vector.L2} :
         /\ \A s \in DOMAIN c.data : IsInjective(c.LRU_vector[s])
         /\ UNION {ToSet(c.LRU_vector[s]) : s \in DOMAIN c.data} = Vector!Existing(c)
    /\ Vector!Existing(vector.L1) \subseteq Vector!Existing(vector.L2)

(* ... and its lists are those of an LRU hierarchy that, on a hit in L2,   *)
(* uses the dirty block leaving L1 before the block hit.                   *)
VectorMatches ==
  program = "Shelly" /\ lucky =>
    /\ Vector!ByList(vector.L1) = recent1
    /\ Vector!ByList(vector.L2) = recent2
    /\ Vector!BlocksWith(vector.L1, {Vector!DIRTY}) = dirty1
=============================================================================
