----------------------------- MODULE LRUHierarchy -----------------------------
(***************************************************************************)
(* What a two-level inclusive write-back LRU cache is, without ways,       *)
(* timestamps or a clock: each level is the order in which the blocks of   *)
(* each of its sets were last used.  Being a finite machine, it is         *)
(* explored completely, for traces of any length.                          *)
(***************************************************************************)
EXTENDS Integers, FiniteSets

CONSTANTS L1Ways, L1Sets, L2Ways, L2Sets, Block, WrAllocs

VARIABLES
  wrAlloc,
  victimFirst,      \* on a hit in L2: a dirty block leaving L1 is used before the block hit
  recent1, recent2, \* <<a, b>>: blocks of one set of the level, a is b or was used after it
  dirty1, dirty2,   \* blocks newer here than in the level below
  written           \* blocks the cache holds newer than memory does

lruVars == <<wrAlloc, victimFirst, recent1, recent2, dirty1, dirty2, written>>

(* A level is its order r and the number of its sets. *)
Has(r, b) == <<b, b>> \in r
Mates(r, b, sets) == {x \in Block : Has(r, x) /\ x % sets = b % sets}
Without(r, out) == {p \in r : p[1] \notin out /\ p[2] \notin out}

(* The block of used, if there is one, becomes the most recent of its set. *)
Use(r, used, sets) ==
  Without(r, used)
    \cup UNION {{b} \X (Mates(r, b, sets) \cup {b}) : b \in used}

In1(b) == Has(recent1, b)
In2(b) == Has(recent2, b)

(* What leaves a full set when b enters it: the block all others follow.   *)
Leaving(r, b, ways, sets) ==
  {x \in Mates(r, b, sets) : /\ Cardinality(Mates(r, b, sets)) >= ways
                             /\ \A y \in Mates(r, b, sets) : <<y, x>> \in r}

Enter(r, b, ways, sets) == Use(Without(r, Leaving(r, b, ways, sets)), {b}, sets)

Victims(b, one) == Leaving(one, b, L1Ways, L1Sets)

(* Faulty variant: the level below does not learn that its copy is stale.  *)
StaleBelow_Forgets(b, one, d1) == {}

(* The blocks b drives out of L1 that are newer there than in L2.          *)
StaleBelow(b, one, d1) == Victims(b, one) \cap d1

(* b enters L1.  one, d1, d2: the levels before.                           *)
EnterL1(b, one, d1, d2, dirtyNow) ==
  /\ recent1' = Enter(one, b, L1Ways, L1Sets)
  /\ dirty1' = (d1 \ Victims(b, one)) \cup (IF dirtyNow THEN {b} ELSE {})
  /\ dirty2' = d2 \cup StaleBelow(b, one, d1)

Hit1(b, dirtyNow) ==
  /\ In1(b)
  /\ recent1' = Use(recent1, {b}, L1Sets)
  /\ dirty1' = dirty1 \cup (IF dirtyNow THEN {b} ELSE {})
  /\ UNCHANGED <<recent2, dirty2>>

(* The block hit becomes the most recently used of its set in L2, before   *)
(* the write-back that its way into L1 causes or after it.                 *)
Hit2(b, dirtyNow) ==
  /\ ~In1(b) /\ In2(b)
  /\ EnterL1(b, recent1, dirty1, dirty2, dirtyNow)
  /\ LET stale == StaleBelow(b, recent1, dirty1)
     IN  recent2' = IF victimFirst THEN Use(Use(recent2, stale, L2Sets), {b}, L2Sets)
                    ELSE Use(Use(recent2, {b}, L2Sets), stale, L2Sets)

(* Faulty variant: what leaves L2 stays in L1. *)
LeavesBoth_L2Only(out) == recent1

(* What leaves L2 leaves L1 as well. *)
LeavesBoth(out) == Without(recent1, out)

(* b comes from memory. *)
Miss(b, dirtyNow) ==
  /\ ~In1(b) /\ ~In2(b)
  /\ LET out == Leaving(recent2, b, L2Ways, L2Sets)
         one == LeavesBoth(out)
     IN  /\ EnterL1(b, one, dirty1 \ out, dirty2 \ out, dirtyNow)
         /\ recent2' = Use(Enter(recent2, b, L2Ways, L2Sets),
                           StaleBelow(b, one, dirty1 \ out), L2Sets)

Read(b) ==
  /\ Hit1(b, FALSE) \/ Hit2(b, FALSE) \/ Miss(b, FALSE)
  /\ written' = {v \in written : Has(recent2', v)}
  /\ UNCHANGED <<wrAlloc, victimFirst>>

(* A write that hits only L2 stays there when writes do not allocate; one  *)
(* that misses goes to memory unless they do.                              *)
Write(b) ==
  /\ \/ Hit1(b, TRUE)
     \/ wrAlloc # 0 /\ Hit2(b, TRUE)
     \/ wrAlloc = 1 /\ Miss(b, TRUE)
     \/ /\ wrAlloc = 0 /\ ~In1(b) /\ In2(b)
        /\ recent2' = Use(recent2, {b}, L2Sets)
        /\ dirty2' = dirty2 \cup {b}
        /\ UNCHANGED <<recent1, dirty1>>
     \/ /\ wrAlloc # 1 /\ ~In1(b) /\ ~In2(b)
        /\ UNCHANGED <<recent1, recent2, dirty1, dirty2>>
  /\ written' = {v \in written \cup {b} : Has(recent2', v)}
  /\ UNCHANGED <<wrAlloc, victimFirst>>

Init ==
  /\ wrAlloc \in WrAllocs
  /\ victimFirst \in BOOLEAN
  /\ recent1 = {} /\ recent2 = {}
  /\ dirty1 = {} /\ dirty2 = {}
  /\ written = {}

Next == \E b \in Block : Read(b) \/ Write(b)

Spec == Init /\ [][Next]_lruVars
-----------------------------------------------------------------------------
(* r orders the blocks of each set by their last use, and no set is over   *)
(* its ways.                                                               *)
Ordered(r, ways, sets) ==
  /\ \A p \in r : /\ {p[1], p[2]} \subseteq Block /\ p[1] % sets = p[2] % sets
                  /\ Has(r, p[1]) /\ Has(r, p[2])
  /\ \A a \in Block :
       LET mates == Mates(r, a, sets)
       IN  Has(r, a) =>
             /\ Cardinality(mates) <= ways
             /\ \A b \in mates :
                  /\ <<a, b>> \in r \/ <<b, a>> \in r
                  /\ <<a, b>> \in r /\ <<b, a>> \in r => a = b
                  /\ \A c \in mates : <<a, b>> \in r /\ <<b, c>> \in r => <<a, c>> \in r

(* Every block of L1 is in L2, the blocks of each set are ordered by their *)
(* last use and are no more than its ways, and every dirty bit is on a     *)
(* block the level holds.                                                  *)
Coherent ==
  /\ \A b \in Block : In1(b) => In2(b)
  /\ Ordered(recent1, L1Ways, L1Sets)
  /\ Ordered(recent2, L2Ways, L2Sets)
  /\ \A b \in dirty1 : In1(b)
  /\ \A b \in dirty2 : In2(b)

(* A block newer than memory is dirty in a level that holds it: evicting   *)
(* it from L2 writes it back.  Nothing else is.                            *)
WritesKept == dirty1 \cup dirty2 = written
=============================================================================
