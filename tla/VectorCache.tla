----------------------------- MODULE VectorCache -----------------------------
(***************************************************************************)
(* HW2/cacheSimShelly.cpp, a third implementation of the cache simulator:  *)
(* each set keeps the list of its blocks, least recently used first, next  *)
(* to the array that holds their tags and states.  A level is a record of  *)
(* data[set][way] and LRU_vector[set]; a cache v is a record of L1, L2 and *)
(* crashed; an access is a function from a cache to a cache.               *)
(***************************************************************************)
EXTENDS Integers, Sequences, FiniteSetsExt

CONSTANTS L1Ways, L1Sets, L2Ways, L2Sets

DOESNT_EXIST == 0
EXIST        == 1
DIRTY        == 2

NO_ADDRESS == -1      \* nullptr in place of a block

EmptyLevel(sets, ways) ==
  [data       |-> [s \in 0 .. sets - 1 |-> [w \in 1 .. ways |->
                     [tag |-> 0, status |-> DOESNT_EXIST]]],
   LRU_vector |-> [s \in 0 .. sets - 1 |-> << >>]]

EmptyCache == [L1 |-> EmptyLevel(L1Sets, L1Ways), L2 |-> EmptyLevel(L2Sets, L2Ways),
               crashed |-> FALSE]

num_of_rows(c) == Cardinality(DOMAIN c.data)
SetOf(c, b)    == b % num_of_rows(c)
TagOf(c, b)    == b \div num_of_rows(c)

(* The ways of a set whose entry exists with that tag: the loops stop at   *)
(* the first.                                                              *)
WaysWith(c, set, tag) ==
  {w \in DOMAIN c.data[set] : c.data[set][w].tag = tag /\ c.data[set][w].status # DOESNT_EXIST}

in_cache(c, b) == WaysWith(c, SetOf(c, b), TagOf(c, b)) # {}

ChangeIn(c, set, tag, status) ==
  IF WaysWith(c, set, tag) = {} THEN c
  ELSE [c EXCEPT !.data[set][Min(WaysWith(c, set, tag))].status = status]

changeToX(c, b, status) == ChangeIn(c, SetOf(c, b), TagOf(c, b), status)

LRUgetLeastRecentlyUsed(c, b) ==
  IF c.LRU_vector[SetOf(c, b)] = << >> THEN NO_ADDRESS ELSE Head(c.LRU_vector[SetOf(c, b)])

(* The list copied but for one block. *)
AllBut(list, b) ==
  LET copied[i \in 0 .. Len(list)] ==
        IF i = 0 THEN << >>
        ELSE IF list[i] = b THEN copied[i - 1] ELSE Append(copied[i - 1], list[i])
  IN  copied[Len(list)]

LRUremove(c, b) == [c EXCEPT !.LRU_vector[SetOf(c, b)] = AllBut(@, b)]

LRUupdate(c, b) == [c EXCEPT !.LRU_vector[SetOf(c, b)] = Append(AllBut(@, b), b)]

FreeWays(c, b) ==
  {w \in DOMAIN c.data[SetOf(c, b)] : c.data[SetOf(c, b)][w].status = DOESNT_EXIST}

Put(c, b, w) ==
  [c EXCEPT !.data[SetOf(c, b)][w] = [tag |-> TagOf(c, b), status |-> EXIST]]

(* The way add puts b in, and what it does to the list: a free way, or the *)
(* way of LRU_address, which leaves the list; else the level is unchanged. *)
TakesFree(c, b) == FreeWays(c, b) # {} /\ ~in_cache(c, b)
Replaced(c, b, LRU_address) ==
  IF TakesFree(c, b) \/ LRU_address = NO_ADDRESS THEN {}
  ELSE WaysWith(c, SetOf(c, b), TagOf(c, LRU_address))

(* Faulty variant: the block replaced stays in the list. *)
add_Lists(c, b, LRU_address) ==
  LET ways == Replaced(c, b, LRU_address)
  IN  CASE TakesFree(c, b) -> Put(c, b, Min(FreeWays(c, b)))
        [] ways # {}       -> Put(c, b, Min(ways))
        [] OTHER           -> c

add(c, b, LRU_address) ==
  LET ways == Replaced(c, b, LRU_address)
  IN  CASE TakesFree(c, b) -> Put(c, b, Min(FreeWays(c, b)))
        [] ways # {}       -> LRUremove(Put(c, b, Min(ways)), LRU_address)
        [] OTHER           -> c

(* What add returns: for L1, that a dirty block was replaced; for L2, that *)
(* any was.                                                                *)
need_evac(c, b, LRU_address, L1) ==
  LET ways == Replaced(c, b, LRU_address)
  IN  ways # {} /\ (~L1 \/ c.data[SetOf(c, b)][Min(ways)].status = DIRTY)

(* Faulty variant: a dirty block that leaves L1 is forgotten. *)
EnterL1_Drops(v, b) ==
  [v EXCEPT !.L1 = add(@, b, LRUgetLeastRecentlyUsed(v.L1, b))]

(* b enters L1: a dirty block it replaces is used in L2.                   *)
EnterL1(v, b) ==
  LET old == LRUgetLeastRecentlyUsed(v.L1, b)
  IN  [v EXCEPT !.L1 = add(@, b, old),
                !.L2 = IF need_evac(v.L1, b, old, TRUE) THEN LRUupdate(@, old) ELSE @]

(* The block that left L2 leaves L1.  changeToX is told a tag, and then    *)
(* never sets set: it is some number the build left there.                 *)
LeaveL1(v, old, set) ==
  CASE ~in_cache(v.L1, old)         -> v
    [] in_cache(v.L1, old) /\ set \in DOMAIN v.L1.data ->
         [v EXCEPT !.L1 = LRUremove(ChangeIn(@, set, TagOf(@, old), DOESNT_EXIST), old)]
    [] OTHER                        -> [v EXCEPT !.crashed = TRUE]

EnterL2(v, b, set) ==
  LET old   == LRUgetLeastRecentlyUsed(v.L2, b)
      added == [v EXCEPT !.L2 = add(@, b, old)]
      above == IF need_evac(v.L2, b, old, FALSE) THEN LeaveL1(added, old, set) ELSE added
  IN  [above EXCEPT !.L2 = LRUupdate(@, b)]

(* A hit in L2 that brings the block to L1: the states of the two entries, *)
(* then both lists.  A dirty block replaced in L1 has b, and not itself,   *)
(* marked in L2, whose states nothing reads.                               *)
FromL2(v, b, op) ==
  LET old    == LRUgetLeastRecentlyUsed(v.L1, b)
      marks  == need_evac(v.L1, b, old, TRUE)
      in1    == EnterL1(v, b)
      status == IF op = "w" THEN DIRTY ELSE EXIST
  IN  [in1 EXCEPT !.L1 = LRUupdate(changeToX(@, b, status), b),
                  !.L2 = LRUupdate(CASE op = "r"           -> changeToX(@, b, EXIST)
                                     [] op # "r" /\ marks  -> changeToX(@, b, DIRTY)
                                     [] OTHER              -> @, b)]

FromMemory(v, b, op, set) ==
  LET in1 == EnterL1(EnterL2(v, b, set), b)
  IN  [in1 EXCEPT !.L1 = IF op = "w" THEN changeToX(LRUupdate(@, b), b, DIRTY) ELSE LRUupdate(@, b)]

(* One line of the trace: op "r" or "w" on block b.  set: what the         *)
(* uninitialised variable of changeToX holds, should it be read.           *)
calc_operation(v, b, op, WrAlloc, set) ==
  LET allocates == op = "r" \/ WrAlloc # 0
      hit1 == in_cache(v.L1, b)
      hit2 == ~hit1 /\ in_cache(v.L2, b)
      miss == ~hit1 /\ ~hit2
  IN  CASE hit1 -> [v EXCEPT !.L1 = IF op = "w" THEN changeToX(LRUupdate(@, b), b, DIRTY)
                                    ELSE LRUupdate(@, b)]
        [] hit2 /\ allocates  -> FromL2(v, b, op)
        [] hit2 /\ ~allocates -> [v EXCEPT !.L2 = changeToX(LRUupdate(@, b), b, DIRTY)]
        [] miss /\ allocates  -> FromMemory(v, b, op, set)
        [] OTHER              -> v

(* The access reads that variable: a full set of L2 loses a block L1 holds. *)
ReadsGarbage(v, b, op, WrAlloc) ==
  LET old == LRUgetLeastRecentlyUsed(v.L2, b)
  IN  /\ op = "r" \/ WrAlloc # 0
      /\ ~in_cache(v.L1, b) /\ ~in_cache(v.L2, b)
      /\ need_evac(v.L2, b, old, FALSE) /\ in_cache(v.L1, old)
-----------------------------------------------------------------------------
(* The blocks the data of a level holds, and those it holds dirty.         *)
BlocksWith(c, states) ==
  LET ways(row) == {w \in DOMAIN row : row[w].status \in states}
  IN  UNION {{c.data[s][w].tag * num_of_rows(c) + s : w \in ways(c.data[s])} : s \in DOMAIN c.data}

Existing(c) == BlocksWith(c, {EXIST, DIRTY})

(* What the lists say: which of two blocks of a set was used last.         *)
ByList(c) ==
  UNION {LET list == c.LRU_vector[s]
         IN  {<<list[p[1]], list[p[2]]>> :
                p \in {q \in (DOMAIN list) \X (DOMAIN list) : q[1] >= q[2]}} : s \in DOMAIN c.data}
=============================================================================
