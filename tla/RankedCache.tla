----------------------------- MODULE RankedCache -----------------------------
(***************************************************************************)
(* HW2/cacheSimRoy.cpp, a second implementation of the cache simulator: a  *)
(* valid way carries its rank (1: the most recently used) instead of a     *)
(* timestamp.  A cache r is a record of L1, L2 (level[set][way]) and       *)
(* crashed; an access is a function from a cache to a cache.               *)
(***************************************************************************)
EXTENDS Integers, Sequences, FiniteSetsExt

CONSTANTS L1Ways, L1Sets, L2Ways, L2Sets

Empty(sets, ways) ==
  [s \in 0 .. sets - 1 |-> [w \in 1 .. ways |->
     [validBit |-> FALSE, dirty |-> FALSE, tag |-> 0, LRU |-> 0]]]

EmptyCache == [L1 |-> Empty(L1Sets, L1Ways), L2 |-> Empty(L2Sets, L2Ways), crashed |-> FALSE]

Ways(row) == DOMAIN row

(* The way of a set that SearchCache finds; NULL when it finds none.       *)
NULL == 0
SearchCache(row, tag) ==
  LET found == {w \in Ways(row) : row[w].validBit /\ row[w].tag = tag}
  IN  IF found = {} THEN NULL ELSE Min(found)

(* The way of rank limit becomes the first, those before it move back.     *)
UpdateLRU(row, limit) ==
  [w \in Ways(row) |-> [row[w] EXCEPT !.LRU =
     IF ~row[w].validBit \/ @ > limit THEN @ ELSE IF @ = limit THEN 1 ELSE @ + 1]]

(* Faulty variant: the hole in the ranks stays. *)
UpdateLRUforEvac_Never(row, limit) == row

(* The way of rank limit is gone: those behind it move up.                 *)
UpdateLRUforEvac(row, limit) ==
  [w \in Ways(row) |-> [row[w] EXCEPT !.LRU =
     IF row[w].validBit /\ @ > limit THEN @ - 1 ELSE @]]

InsertToSlot(row, tag, w, operation) ==
  LET assoc == Len(row)
  IN  UpdateLRU([row EXCEPT ![w] = [validBit |-> TRUE, dirty |-> operation = "w",
                                    tag |-> tag, LRU |-> assoc]], assoc)

getLRU(row) ==
  LET last == {w \in Ways(row) : row[w].LRU = Len(row)}
  IN  IF last = {} THEN NULL ELSE Min(last)

EmptySlots(row) == {w \in Ways(row) : ~row[w].validBit}

Crash(r) == [r EXCEPT !.crashed = TRUE]

(* The dirty block leaving L1 is looked for in L2, marked and used there.  *)
EvacToL2(r, block) ==
  LET set == block % L2Sets
      w   == SearchCache(r.L2[set], block \div L2Sets)
  IN  IF w = NULL THEN r
      ELSE [r EXCEPT !.L2[set] = UpdateLRU([@ EXCEPT ![w].dirty = TRUE], @[w].LRU)]

InsertToL1(r, b, operation) ==
  LET set   == b % L1Sets
      tag   == b \div L1Sets
      empty == EmptySlots(r.L1[set])
      w     == IF empty # {} THEN Min(empty) ELSE getLRU(r.L1[set])
      block == r.L1[set][w].tag * L1Sets + set
      below == IF empty = {} /\ r.L1[set][w].dirty THEN EvacToL2(r, block) ELSE r
  IN  IF w = NULL THEN Crash(r)
      ELSE [below EXCEPT !.L1[set] = InsertToSlot(@, tag, w, operation)]

(* The block leaving L2 is looked for in L1, where it need not be.         *)
EvacFromL1(r, block) ==
  LET set == block % L1Sets
      w   == SearchCache(r.L1[set], block \div L1Sets)
  IN  IF w = NULL THEN r
      ELSE [r EXCEPT !.L1[set] = UpdateLRUforEvac([@ EXCEPT ![w].validBit = FALSE], @[w].LRU)]

InsertToL2(r, b, operation) ==
  LET set   == b % L2Sets
      tag   == b \div L2Sets
      empty == EmptySlots(r.L2[set])
      w     == IF empty # {} THEN Min(empty) ELSE getLRU(r.L2[set])
      block == r.L2[set][w].tag * L2Sets + set
      above == IF empty = {} THEN EvacFromL1(r, block) ELSE r
  IN  IF w = NULL THEN Crash(r)
      ELSE [above EXCEPT !.L2[set] = InsertToSlot(@, tag, w, operation)]

WithL1Hit(r, b, w, operation) ==
  LET used == UpdateLRU(r.L1[b % L1Sets], r.L1[b % L1Sets][w].LRU)
  IN  [r EXCEPT !.L1[b % L1Sets] =
         [used EXCEPT ![w].dirty = @ \/ operation = "w"]]

Used2(r, b, w) ==
  [r EXCEPT !.L2[b % L2Sets] = UpdateLRU(@, @[w].LRU)]

(* One line of the trace: operation "r" or "w" on block b.                 *)
access(r, b, operation, WrAlloc) ==
  LET w1        == SearchCache(r.L1[b % L1Sets], b \div L1Sets)
      w2        == SearchCache(r.L2[b % L2Sets], b \div L2Sets)
      allocates == operation = "r" \/ WrAlloc = 1
  IN  CASE w1 # NULL -> WithL1Hit(r, b, w1, operation)
        [] w1 = NULL /\ w2 # NULL /\ allocates  -> InsertToL1(Used2(r, b, w2), b, operation)
        [] w1 = NULL /\ w2 # NULL /\ ~allocates ->
             [Used2(r, b, w2) EXCEPT !.L2[b % L2Sets][w2].dirty = TRUE]
        [] w1 = NULL /\ w2 = NULL /\ allocates  -> InsertToL1(InsertToL2(r, b, operation), b, operation)
        [] OTHER -> r
-----------------------------------------------------------------------------
(* The valid ways of a set hold the ranks 1 .. their number. *)
Used(row) == Ways(row) \ EmptySlots(row)
RanksExact(row) ==
  \A k \in 1 .. Len(row) : (\E w \in Used(row) : row[w].LRU = k) <=> k <= Cardinality(Used(row))

(* What the ranks say: which of two blocks of a set was used last.         *)
BlockIn(level, set, w) == level[set][w].tag * Cardinality(DOMAIN level) + set
ByRank(level) ==
  UNION {{<<BlockIn(level, s, p[1]), BlockIn(level, s, p[2])>> :
            p \in {q \in Used(level[s]) \X Used(level[s]) :
                     level[s][q[1]].LRU <= level[s][q[2]].LRU}} : s \in DOMAIN level}

DirtyIn(level) ==
  UNION {{BlockIn(level, s, w) : w \in {v \in Used(level[s]) : level[s][v].dirty}} :
           s \in DOMAIN level}
=============================================================================
