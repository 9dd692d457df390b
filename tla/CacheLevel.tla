------------------------------ MODULE CacheLevel ------------------------------
(***************************************************************************)
(* One level of the cache simulator (HW2/cacheSim.cpp, CacheLevel): its    *)
(* geometry and its searches, as operators on the value of its ways.       *)
(* Addresses are block numbers: the offset bits inside a block are never   *)
(* looked at.                                                              *)
(***************************************************************************)
EXTENDS Integers, FiniteSetsExt

CONSTANTS
  num_of_ways,
  num_of_sets,
  UintMax        \* __UINT32_MAX__

Ways == 0 .. num_of_ways - 1
Sets == 0 .. num_of_sets - 1
NULL == -1     \* no way: a null or a wild pointer

getSet(address) == address % num_of_sets
getTag(address) == address \div num_of_sets

Entry == [valid : BOOLEAN, dirty : BOOLEAN, tag : Nat,
          last_accessed_time : 0 .. UintMax, address : Nat]

EmptyLevel ==
  [w \in Ways |-> [s \in Sets |->
     [valid |-> FALSE, dirty |-> FALSE, tag |-> 0, last_accessed_time |-> 0, address |-> 0]]]

(* The first way whose entry is valid and carries the address's tag. *)
blockExists(ways, address) ==
  LET hits == {w \in Ways : /\ ways[w][getSet(address)].valid
                            /\ ways[w][getSet(address)].tag = getTag(address)}
  IN  IF hits = {} THEN NULL ELSE Min(hits)

(* The first unused way, else the first among those accessed the longest   *)
(* time ago.  The search for the latter starts from UINT32_MAX: an entry   *)
(* that carries it is not found, and the result is an uninitialised        *)
(* pointer.                                                                *)
getEntryForNewBlock(ways, address) ==
  LET set    == getSet(address)
      free   == {w \in Ways : ~ways[w][set].valid}
      time(w) == ways[w][set].last_accessed_time
      oldest == {w \in Ways : /\ time(w) < UintMax
                              /\ \A v \in Ways : time(w) <= time(v)}
  IN  IF free # {} THEN Min(free) ELSE IF oldest # {} THEN Min(oldest) ELSE NULL

(* The blocks the level holds, and where. *)
Holds(ways, address) == blockExists(ways, address) # NULL
Valid(ways)  == {p \in Ways \X Sets : ways[p[1]][p[2]].valid}
Blocks(ways) == {ways[p[1]][p[2]].address : p \in Valid(ways)}
Dirty(ways)  ==
  {ways[p[1]][p[2]].address : p \in {q \in Valid(ways) : ways[q[1]][q[2]].dirty}}
=============================================================================
