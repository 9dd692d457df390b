---------------------------- MODULE MemImage_proofs ----------------------------
(***************************************************************************)
(* Theorems about the reader of memory images, for files of any length,    *)
(* any number of threads and any capacity.                                 *)
(***************************************************************************)
EXTENDS MemImage, FiniteSetTheorems, TLAPS

(* The rank of k among the elements of S, and cells filled in the order of *)
(* a set of lines.                                                         *)
Smaller(S, k) == {m \in S : m < k}

Filled(f, capacity, S) ==
  \A n \in 0 .. capacity - 1 :
    /\ n < Cardinality(S) => f[n] \in S /\ Cardinality(Smaller(S, f[n])) = n
    /\ ~(n < Cardinality(S)) => f[n] = Empty

LEMMA RankOne ==
  ASSUME NEW S, S \subseteq Nat, IsFiniteSet(S), NEW x \in S, NEW y \in S,
         Cardinality(Smaller(S, x)) = Cardinality(Smaller(S, y))
  PROVE  x = y
<1>1. ASSUME NEW u \in S, NEW v \in S, Cardinality(Smaller(S, u)) = Cardinality(Smaller(S, v)), u < v
      PROVE  FALSE
  <2>1. Smaller(S, v) \in SUBSET S /\ Smaller(S, u) \in SUBSET Smaller(S, v)
    <3>1. \A m \in S : m < u => m < v
      BY <1>1
    <3> QED
      BY <3>1 DEF Smaller
  <2>2. IsFiniteSet(Smaller(S, v))
    BY <2>1, FS_Subset
  <2>3. Smaller(S, v) = Smaller(S, u)
    BY <1>1, <2>1, <2>2, FS_Subset
  <2> QED
    BY <1>1, <2>3 DEF Smaller
<1> QED
  BY <1>1

LEMMA NthFilled ==
  ASSUME NEW S, S \subseteq Nat, IsFiniteSet(S), NEW capacity, NEW f, Filled(f, capacity, S)
  PROVE  \A n \in 0 .. capacity - 1 : f[n] = Nth(S, n)
<1> SUFFICES ASSUME NEW n \in 0 .. capacity - 1 PROVE f[n] = Nth(S, n)
  OBVIOUS
<1>1. CASE n < Cardinality(S)
  <2>1. f[n] \in S /\ Cardinality(Smaller(S, f[n])) = n
    BY <1>1 DEF Filled
  <2> DEFINE x == CHOOSE k \in S : Cardinality({m \in S : m < k}) = n
  <2>2. x \in S /\ Cardinality({m \in S : m < x}) = n
    BY <2>1 DEF Smaller
  <2>3. Nth(S, n) = x
    BY <1>1 DEF Nth
  <2> HIDE DEF x
  <2>4. Cardinality(Smaller(S, x)) = n
    BY <2>2 DEF Smaller
  <2> QED
    BY <2>1, <2>2, <2>3, <2>4, RankOne
<1>2. CASE ~(n < Cardinality(S))
  BY <1>2 DEF Filled, Nth
<1> QED
  BY <1>1, <1>2

LEMMA FillNone ==
  ASSUME NEW capacity, NEW f, \A n \in 0 .. capacity - 1 : f[n] = Empty
  PROVE  Filled(f, capacity, {})
<1>1. Cardinality({}) = 0
  BY FS_EmptySet
<1>2. \A n \in 0 .. capacity - 1 : ~(n < 0)
  OBVIOUS
<1> QED
  BY <1>1, <1>2 DEF Filled

(* The next line goes to the next cell. *)
LEMMA FillOne ==
  ASSUME NEW S, S \subseteq Nat, IsFiniteSet(S), NEW k \in Nat, \A m \in S : m < k,
         NEW capacity \in Nat, NEW f, DOMAIN f = 0 .. capacity - 1, Filled(f, capacity, S),
         NEW i, i = Cardinality(S)
  PROVE  Filled([f EXCEPT ![i] = k], capacity, S \cup {k})
<1> DEFINE T == S \cup {k}
           g == [f EXCEPT ![i] = k]
<1>1. Cardinality(S) \in Nat /\ k \notin S
  BY FS_CardinalityType
<1>2. Cardinality(T) = Cardinality(S) + 1
  BY <1>1, FS_AddElement
<1>3. \A m \in S : Smaller(T, m) = Smaller(S, m)
  BY DEF Smaller
<1>4. Smaller(T, k) = S
  <2>1. ~(k < k)
    OBVIOUS
  <2>2. \A m : m \in Smaller(T, k) <=> m \in S
    BY <2>1 DEF Smaller
  <2> QED
    BY <2>2
<1> SUFFICES ASSUME NEW n \in 0 .. capacity - 1
             PROVE  /\ n < Cardinality(T) => g[n] \in T /\ Cardinality(Smaller(T, g[n])) = n
                    /\ ~(n < Cardinality(T)) => g[n] = Empty
  BY DEF Filled
<1>5. /\ n < Cardinality(S) => f[n] \in S /\ Cardinality(Smaller(S, f[n])) = n
      /\ ~(n < Cardinality(S)) => f[n] = Empty
  BY DEF Filled
<1>6. g[n] = IF n = i THEN k ELSE f[n]
  OBVIOUS
<1> HIDE DEF T, g
<1>7. CASE n = i
  <2>1. g[n] = k /\ n < Cardinality(T)
    BY <1>1, <1>2, <1>6, <1>7
  <2>2. k \in T
    BY DEF T
  <2> QED
    BY <1>4, <1>7, <2>1, <2>2
<1>8. CASE n # i
  <2>1. g[n] = f[n]
    BY <1>6, <1>8
  <2>2. n < Cardinality(T) <=> n < Cardinality(S)
    BY <1>1, <1>2, <1>8
  <2>3. S \subseteq T
    BY DEF T
  <2> QED
    BY <1>3, <1>5, <2>1, <2>2, <2>3
<1> QED
  BY <1>7, <1>8

-----------------------------------------------------------------------------
(* What the first m lines of a file f hold.                                *)
Selects(f, t, m) ==
  \E j \in 1 .. m : f[j] = [kind |-> "T", tid |-> t] /\ \A i \in j + 1 .. m : f[i].kind # "T"

Insts(f, t, m) == {k \in 1 .. m : f[k].kind = "inst" /\ Selects(f, t, k)}
WordsIn(f, m)  == {k \in 1 .. m : f[k].kind = "word"}

LEMMA SelectsNext ==
  ASSUME NEW f, NEW t, NEW m \in Nat, f[m + 1].kind # "T"
  PROVE  Selects(f, t, m + 1) <=> Selects(f, t, m)
<1>1. \A j \in 1 .. m + 1 : j \in 1 .. m \/ j = m + 1
  OBVIOUS
<1>2. f[m + 1] = [kind |-> "T", tid |-> t] => f[m + 1].kind = "T"
  OBVIOUS
<1>3. \A j \in 1 .. m : \A i : i \in j + 1 .. m + 1 <=> i \in j + 1 .. m \/ i = m + 1
  OBVIOUS
<1> QED
  BY <1>1, <1>2, <1>3 DEF Selects

LEMMA SelectsOne ==
  ASSUME NEW f, NEW t, NEW u, NEW m \in Nat, Selects(f, t, m), Selects(f, u, m)
  PROVE  t = u
<1>1. PICK j \in 1 .. m : f[j] = [kind |-> "T", tid |-> t] /\ \A i \in j + 1 .. m : f[i].kind # "T"
  BY DEF Selects
<1>2. PICK k \in 1 .. m : f[k] = [kind |-> "T", tid |-> u] /\ \A i \in k + 1 .. m : f[i].kind # "T"
  BY DEF Selects
<1>3. f[j].kind = "T" /\ f[k].kind = "T" /\ f[j].tid = t /\ f[k].tid = u
  BY <1>1, <1>2
<1>4. j = k
  BY <1>1, <1>2, <1>3
<1> QED
  BY <1>3, <1>4

LEMMA InstsNext ==
  ASSUME NEW f, NEW t, NEW m \in Nat
  PROVE  Insts(f, t, m + 1) =
           Insts(f, t, m) \cup IF f[m + 1].kind = "inst" /\ Selects(f, t, m + 1) THEN {m + 1} ELSE {}
<1>1. \A k : k \in 1 .. m + 1 <=> k \in 1 .. m \/ k = m + 1
  OBVIOUS
<1> QED
  BY <1>1 DEF Insts

LEMMA WordsNext ==
  ASSUME NEW f, NEW m \in Nat
  PROVE  WordsIn(f, m + 1) =
           WordsIn(f, m) \cup IF f[m + 1].kind = "word" THEN {m + 1} ELSE {}
<1>1. \A k : k \in 1 .. m + 1 <=> k \in 1 .. m \/ k = m + 1
  OBVIOUS
<1> QED
  BY <1>1 DEF WordsIn

LEMMA LinesFinite ==
  ASSUME NEW f, NEW t, NEW m \in Nat
  PROVE  /\ Insts(f, t, m) \subseteq Nat /\ WordsIn(f, m) \subseteq Nat
         /\ IsFiniteSet(Insts(f, t, m)) /\ IsFiniteSet(WordsIn(f, m))
         /\ Cardinality(Insts(f, t, m)) \in Nat /\ Cardinality(WordsIn(f, m)) \in Nat
<1>1. IsFiniteSet(1 .. m)
  BY FS_Interval
<1>2. Insts(f, t, m) \in SUBSET (1 .. m) /\ WordsIn(f, m) \in SUBSET (1 .. m)
  BY DEF Insts, WordsIn
<1>3. IsFiniteSet(Insts(f, t, m)) /\ IsFiniteSet(WordsIn(f, m))
  BY <1>1, <1>2, FS_Subset
<1> QED
  BY <1>2, <1>3, FS_CardinalityType

(* What they hold does not change when the file grows. *)
LEMMA PrefixSame ==
  ASSUME NEW f, NEW g, NEW m \in Nat, \A k \in 1 .. m : g[k] = f[k]
  PROVE  /\ \A t : \A k \in 0 .. m : Selects(g, t, k) <=> Selects(f, t, k)
         /\ \A t : Insts(g, t, m) = Insts(f, t, m)
         /\ WordsIn(g, m) = WordsIn(f, m)
<1>1. \A t : \A k \in 0 .. m : Selects(g, t, k) <=> Selects(f, t, k)
  <2> SUFFICES ASSUME NEW t, NEW k \in 0 .. m PROVE Selects(g, t, k) <=> Selects(f, t, k)
    OBVIOUS
  <2>1. \A j \in 1 .. k : g[j] = f[j]
    OBVIOUS
  <2>2. \A j \in 1 .. k : \A i \in j + 1 .. k : g[i].kind = f[i].kind
    <3> SUFFICES ASSUME NEW j \in 1 .. k, NEW i \in j + 1 .. k PROVE g[i] = f[i]
      OBVIOUS
    <3>1. i \in 1 .. k
      OBVIOUS
    <3> QED
      BY <2>1, <3>1
  <2> QED
    BY <2>1, <2>2 DEF Selects
<1>2. \A k \in 1 .. m : g[k].kind = f[k].kind
  OBVIOUS
<1> QED
  BY <1>1, <1>2 DEF Insts, WordsIn

-----------------------------------------------------------------------------
AnyLine == Lines \cup HeaderLines \cup NLines

(* The cells and positions of a file of n lines. *)
Cells(n, ps, start, code, words) ==
  /\ ps \in [Parameters -> 0 .. n]
  /\ start \in 0 .. n
  /\ code \in [Threads -> [0 .. InstCapacity - 1 -> 0 .. n]]
  /\ words \in [0 .. DataCapacity - 1 -> 0 .. n]

(* The line in the buffer is the last one read; a block has more lines     *)
(* than it has stored.                                                     *)
TypeInv ==
  /\ TypeOK
  /\ line = Len(file)
  /\ index <= Len(file)
  /\ loop \in {"openCode", "openData"} => index = 0 /\ Len(file) >= 1
  /\ loop \in {"code", "data"} => index < Len(file)

LEMMA Grown ==
  ASSUME NEW f \in Seq(AnyLine), NEW l \in AnyLine
  PROVE  /\ Append(f, l) \in Seq(AnyLine)
         /\ Len(Append(f, l)) = Len(f) + 1
         /\ \A k \in 1 .. Len(f) : Append(f, l)[k] = f[k]
         /\ Append(f, l)[Len(f) + 1] = l
  OBVIOUS

LEMMA FgetsType ==
  ASSUME TypeInv, More, NEW l \in AnyLine, Fgets(l)
  PROVE  /\ file' \in Seq(AnyLine) /\ Len(file') = Len(file) + 1 /\ Len(file') \in 0 .. MaxLines
         /\ line' = Len(file') /\ eof' = FALSE /\ eof = FALSE
         /\ Len(file) \in Nat /\ Len(file) + 1 <= MaxLines
         /\ \A k \in 1 .. Len(file) : file'[k] = file[k]
         /\ file'[Len(file')] = l
<1>1. file \in Seq(AnyLine) /\ Len(file) \in Nat /\ MaxLines \in Nat
  BY LinesAssumption DEF TypeInv, TypeOK, AnyLine
<1>2. file' = Append(file, l) /\ line' = Len(file) + 1 /\ eof' = FALSE /\ eof = FALSE
  BY DEF Fgets, More, TypeInv, TypeOK
<1>3. Len(file) + 1 <= MaxLines
  BY <1>1 DEF More
<1> QED
  BY <1>1, <1>2, <1>3, Grown

LEMMA CellsGrow ==
  ASSUME NEW n \in Nat, NEW ps, NEW start, NEW code, NEW words, Cells(n, ps, start, code, words)
  PROVE  Cells(n + 1, ps, start, code, words)
<1>1. 0 .. n \subseteq 0 .. n + 1
  OBVIOUS
<1> QED
  BY <1>1 DEF Cells

(* A step that reads the line l keeps the types.                           *)
LEMMA FgetsKeepsType ==
  ASSUME TypeInv, More, NEW l \in AnyLine, Fgets(l),
         loop' \in {"header", "top", "openCode", "openData", "code", "data"},
         tid' \in Threads \cup {None}, threadnumber' \in 0 .. MaxThreads,
         index' \in 0 .. Len(file), loop' \in {"openCode", "openData"} => index' = 0,
         Cells(Len(file) + 1, parameters', data_start', instructions', data')
  PROVE  TypeInv'
<1>1. /\ file' \in Seq(AnyLine) /\ Len(file') = Len(file) + 1 /\ Len(file') \in 0 .. MaxLines
      /\ line' = Len(file') /\ eof' = FALSE
      /\ Len(file) \in Nat /\ Len(file) + 1 <= MaxLines
  BY FgetsType
<1>2. index' \in 0 .. MaxLines /\ MaxLines \in Nat
  BY <1>1, LinesAssumption
<1>3. TypeOK'
  <2>1. file' \in Seq(Lines \cup HeaderLines \cup NLines) /\ Len(file') <= MaxLines
    BY <1>1 DEF AnyLine
  <2>2. /\ parameters' \in [Parameters -> 0 .. Len(file')]
        /\ data_start' \in 0 .. Len(file')
        /\ instructions' \in [Threads -> [0 .. InstCapacity - 1 -> 0 .. Len(file')]]
        /\ data' \in [0 .. DataCapacity - 1 -> 0 .. Len(file')]
    BY <1>1 DEF Cells
  <2>3. line' \in 0 .. Len(file')
    BY <1>1
  <2>4. eof' \in BOOLEAN
    BY <1>1, Zenon
  <2> QED
    BY <1>2, <2>1, <2>2, <2>3, <2>4, Zenon DEF TypeOK
<1>4. Len(file') >= 1 /\ index' < Len(file')
  BY <1>1
<1> QED
  BY <1>1, <1>3, <1>4 DEF TypeInv

LEMMA LinesAreAny ==
  /\ Lines \subseteq AnyLine /\ HeaderLines \subseteq AnyLine /\ NLines \subseteq AnyLine
  /\ \A t \in Threads : [kind |-> "T", tid |-> t] \in Lines
  /\ \A kind \in Kinds : [kind |-> kind] \in Lines
  /\ [kind |-> "L"] \in HeaderLines
  BY DEF AnyLine, Lines, HeaderLines, Parameters, Kinds

LEMMA TypeInvInit == Init => TypeInv
<1> SUFFICES ASSUME Init PROVE TypeInv
  OBVIOUS
<1>1. Len(<< >>) = 0 /\ << >> \in Seq(AnyLine)
  OBVIOUS
<1>2. /\ file = << >> /\ eof = FALSE /\ loop = "header" /\ line = 0 /\ threadnumber = 0
      /\ tid = None /\ index = 0
  BY DEF Init
<1>3. Cells(0, parameters, data_start, instructions, data)
  BY DEF Init, Cells, Empty
<1>4. TypeOK
  <2>1. file \in Seq(Lines \cup HeaderLines \cup NLines) /\ Len(file) = 0
    BY <1>1, <1>2 DEF AnyLine
  <2>2. /\ parameters \in [Parameters -> 0 .. Len(file)]
        /\ data_start \in 0 .. Len(file)
        /\ instructions \in [Threads -> [0 .. InstCapacity - 1 -> 0 .. Len(file)]]
        /\ data \in [0 .. DataCapacity - 1 -> 0 .. Len(file)]
    BY <1>3, <2>1 DEF Cells
  <2>3. /\ Len(file) <= MaxLines /\ line \in 0 .. Len(file)
        /\ index \in 0 .. MaxLines /\ threadnumber \in 0 .. MaxThreads
    BY <1>2, <2>1, LinesAssumption
  <2>4. /\ eof \in BOOLEAN
        /\ loop \in {"header", "top", "openCode", "openData", "code", "data", "done", "undefined"}
        /\ tid \in Threads \cup {None}
    BY <1>2, Zenon
  <2> QED
    BY <2>1, <2>2, <2>3, <2>4, Zenon DEF TypeOK
<1> QED
  BY <1>1, <1>2, <1>4 DEF TypeInv

LEMMA TypeInvStep == TypeInv /\ [Next]_vars => TypeInv'
<1> SUFFICES ASSUME TypeInv, [Next]_vars PROVE TypeInv'
  OBVIOUS
<1> DEFINE n == Len(file)
<1>0. /\ n \in Nat /\ line = n /\ index \in 0 .. n /\ n <= MaxLines
      /\ Cells(n, parameters, data_start, instructions, data) /\ tid \in Threads \cup {None} /\ threadnumber \in 0 .. MaxThreads
      /\ file \in Seq(AnyLine)
  BY DEF TypeInv, TypeOK, Cells, AnyLine
<1>00. Cells(n + 1, parameters, data_start, instructions, data)
  BY <1>0, CellsGrow
<1>01. 0 \in 0 .. n /\ n + 1 \in 0 .. n + 1 /\ Empty \in 0 .. n + 1
  BY <1>0 DEF Empty
<1> HIDE DEF n
<1>1. CASE Parameter
  <2>1. PICK l \in HeaderLines : Fgets(l) /\ parameters' = IF l.kind \in Parameters THEN [parameters EXCEPT ![l.kind] = line']
                        ELSE parameters
    BY <1>1 DEF Parameter
  <2>2. line' = n + 1
    BY <2>1 DEF Fgets, n
  <2>3. Cells(n + 1, parameters', data_start', instructions', data')
    BY <1>00, <1>01, <1>1, <2>1, <2>2 DEF Cells, Parameter
  <2> QED
    BY <1>0, <1>1, <2>1, <2>3, FgetsKeepsType, LinesAreAny DEF Parameter, n, headerVars
<1>2. CASE NumberOfThreads
  <2>1. PICK l \in NLines : Fgets(l) /\ threadnumber' = l.threads
    BY <1>2 DEF NumberOfThreads
  <2>2. threadnumber' \in 0 .. MaxThreads
    <3>1. l.threads \in 1 .. MaxThreads
      BY DEF NLines
    <3> QED
      BY <2>1, <3>1, LinesAssumption
  <2>3. Cells(n + 1, parameters', data_start', instructions', data')
    BY <1>00, <1>2 DEF Cells, NumberOfThreads
  <2> QED
    BY <1>0, <1>2, <2>1, <2>2, <2>3, FgetsKeepsType, LinesAreAny DEF NumberOfThreads, n
<1>3. CASE NoThreads \/ EndOfFile
  BY <1>3 DEF NoThreads, EndOfFile, FgetsNull, TypeInv, TypeOK, headerVars
<1>4. CASE SelectThread
  <2>1. PICK t \in Threads : Fgets([kind |-> "T", tid |-> t]) /\ tid' = t
    BY <1>4 DEF SelectThread
  <2>2. Cells(n + 1, parameters', data_start', instructions', data')
    BY <1>00, <1>4 DEF Cells, SelectThread, headerVars
  <2>3. [kind |-> "T", tid |-> t] \in AnyLine
    BY LinesAreAny
  <2> QED
    BY <1>0, <1>4, <2>1, <2>2, <2>3, FgetsKeepsType DEF SelectThread, n, headerVars
<1>5. CASE Ignore
  <2>1. PICK kind \in {"blank", "inst", "word", "L"} : Fgets([kind |-> kind])
    BY <1>5 DEF Ignore
  <2>2. Cells(n + 1, parameters', data_start', instructions', data')
    BY <1>00, <1>5 DEF Cells, Ignore, headerVars
  <2>3. [kind |-> kind] \in AnyLine
    BY LinesAreAny DEF Kinds
  <2> QED
    BY <1>0, <1>5, <2>1, <2>2, <2>3, FgetsKeepsType DEF Ignore, n, headerVars
<1>6. CASE OpenCode
  <2>2. Cells(n + 1, parameters', data_start', instructions', data')
    BY <1>00, <1>6 DEF Cells, OpenCode, headerVars
  <2>3. [kind |-> "I@"] \in AnyLine
    BY LinesAreAny DEF Kinds
  <2> QED
    BY <1>0, <1>01, <1>6, <2>2, <2>3, FgetsKeepsType DEF OpenCode, n, headerVars
<1>7. CASE OpenData
  <2>1. line' = n + 1
    BY <1>7 DEF OpenData, Fgets, n
  <2>2. Cells(n + 1, parameters', data_start', instructions', data')
    BY <1>00, <1>01, <1>7, <2>1 DEF Cells, OpenData, headerVars
  <2>3. [kind |-> "D@"] \in AnyLine
    BY LinesAreAny DEF Kinds
  <2> QED
    BY <1>0, <1>01, <1>7, <2>2, <2>3, FgetsKeepsType DEF OpenData, n, headerVars
<1>8. CASE FirstLine
  <2>1. PICK l \in Lines : Fgets(l)
    BY <1>8 DEF FirstLine
  <2>2. Cells(n + 1, parameters', data_start', instructions', data')
    BY <1>00, <1>8 DEF Cells, FirstLine, headerVars
  <2> QED
    BY <1>0, <1>8, <2>1, <2>2, FgetsKeepsType, LinesAreAny DEF FirstLine, n, headerVars
<1>9. CASE NoFirstLine
  BY <1>0, <1>9 DEF NoFirstLine, FgetsNull, TypeInv, TypeOK, headerVars, n
<1>10. CASE CloseBlock \/ Undefined
  BY <1>10 DEF CloseBlock, Undefined, TypeInv, TypeOK, headerVars
<1>11. CASE StoreInst
  <2>1. index < n /\ index + 1 \in 0 .. n /\ index + 1 \in 0 .. MaxLines /\ n \in 0 .. n
    BY <1>0, <1>11, LinesAssumption DEF StoreInst, TypeInv, n
  <2>2. Cells(n, parameters', data_start', instructions', data')
    BY <1>0, <1>11, <2>1 DEF Cells, StoreInst, headerVars
  <2>3. CASE More /\ (\E l \in Lines : Fgets(l)) /\ UNCHANGED loop
    <3>1. PICK l \in Lines : Fgets(l)
      BY <2>3
    <3>2. Cells(n + 1, parameters', data_start', instructions', data')
      BY <1>0, <2>2 DEF Cells
    <3> QED
      BY <1>0, <1>11, <2>1, <2>3, <3>1, <3>2, FgetsKeepsType, LinesAreAny DEF StoreInst, n, headerVars
  <2>4. CASE loop' = "top" /\ FgetsNull
    BY <1>0, <1>11, <2>1, <2>2, <2>4 DEF StoreInst, FgetsNull, TypeInv, TypeOK, headerVars, Cells, n
  <2> QED
    BY <1>11, <2>3, <2>4 DEF StoreInst
<1>12. CASE StoreWord
  <2>1. index < n /\ index + 1 \in 0 .. n /\ index + 1 \in 0 .. MaxLines /\ n \in 0 .. n /\ Empty \in 0 .. n
    BY <1>0, <1>12, LinesAssumption DEF StoreWord, TypeInv, Empty, n
  <2>2. Cells(n, parameters', data_start', instructions', data')
    BY <1>0, <1>12, <2>1 DEF Cells, StoreWord, headerVars
  <2>3. CASE More /\ (\E l \in Lines : Fgets(l)) /\ UNCHANGED loop
    <3>1. PICK l \in Lines : Fgets(l)
      BY <2>3
    <3>2. Cells(n + 1, parameters', data_start', instructions', data')
      BY <1>0, <2>2 DEF Cells
    <3> QED
      BY <1>0, <1>12, <2>1, <2>3, <3>1, <3>2, FgetsKeepsType, LinesAreAny DEF StoreWord, n, headerVars
  <2>4. CASE loop' = "top" /\ FgetsNull
    BY <1>0, <1>12, <2>1, <2>2, <2>4 DEF StoreWord, FgetsNull, TypeInv, TypeOK, headerVars, Cells, n
  <2> QED
    BY <1>12, <2>3, <2>4 DEF StoreWord
<1>13. CASE UNCHANGED vars
  BY <1>13 DEF vars, TypeInv, TypeOK, headerVars
<1> QED
  BY <1>1, <1>2, <1>3, <1>4, <1>5, <1>6, <1>7, <1>8, <1>9, <1>10, <1>11, <1>12, <1>13 DEF Next

(* The reader keeps every value in its range, on any file.                 *)
THEOREM TypeCorrect == Spec => []TypeOK
<1>1. TypeInv => TypeOK
  BY DEF TypeInv
<1> QED
  BY <1>1, TypeInvInit, TypeInvStep, PTL DEF Spec

-----------------------------------------------------------------------------
(* The elements of a set in their order.                                   *)
LEMMA NthIs ==
  ASSUME NEW S, S \subseteq Nat, IsFiniteSet(S), NEW v \in S, NEW n,
         Cardinality(Smaller(S, v)) = n, n < Cardinality(S)
  PROVE  Nth(S, n) = v
<1> DEFINE x == CHOOSE k \in S : Cardinality({m \in S : m < k}) = n
<1>1. Nth(S, n) = x
  BY DEF Nth
<1>2. Cardinality({m \in S : m < v}) = n
  BY DEF Smaller
<1>3. x \in S /\ Cardinality({m \in S : m < x}) = n
  BY <1>2
<1> HIDE DEF x
<1>4. Cardinality(Smaller(S, x)) = n
  BY <1>3 DEF Smaller
<1> QED
  BY <1>1, <1>3, <1>4, RankOne

LEMMA NthFirst ==
  ASSUME NEW S, S \subseteq Nat, IsFiniteSet(S), NEW v \in S, \A k \in S : v <= k
  PROVE  Nth(S, 0) = v
<1>1. Smaller(S, v) = {}
  <2>1. \A k \in S : ~(k < v)
    OBVIOUS
  <2> QED
    BY <2>1 DEF Smaller
<1>2. Cardinality(Smaller(S, v)) = 0
  BY <1>1, FS_EmptySet
<1>3. Cardinality(S) \in Nat
  BY FS_CardinalityType
<1>4. Cardinality(S) # 0
  BY FS_EmptySet
<1>5. 0 < Cardinality(S)
  BY <1>3, <1>4
<1> QED
  BY <1>2, <1>5, NthIs

LEMMA NthLast ==
  ASSUME NEW S, S \subseteq Nat, IsFiniteSet(S), NEW v \in S, \A k \in S : k <= v
  PROVE  Nth(S, Cardinality(S) - 1) = v
<1>1. Smaller(S, v) = S \ {v}
  <2>1. \A k \in S : k < v <=> k # v
    OBVIOUS
  <2> QED
    BY <2>1 DEF Smaller
<1>2. Cardinality(S \ {v}) = Cardinality(S) - 1 /\ Cardinality(S) \in Nat
  BY FS_RemoveElement, FS_CardinalityType
<1>3. Cardinality(S) - 1 < Cardinality(S)
  BY <1>2
<1> QED
  BY <1>1, <1>2, <1>3, NthIs

-----------------------------------------------------------------------------
(* The header's h lines: v is the last one that gives p.                   *)
HeaderKinds == Parameters \cup {"blank"}
BodyKinds   == Kinds \cup {"T", "L"}

LastGiven(f, h, p, v) ==
  \/ v = Empty /\ \A k \in 1 .. h : f[k].kind # p
  \/ v \in 1 .. h /\ f[v].kind = p /\ \A k \in v + 1 .. h : f[k].kind # p

ParametersRead(f, h, ps) == \A p \in Parameters : LastGiven(f, h, p, ps[p])

HeaderOnly(f, h) == \A k \in 1 .. h : f[k].kind \in HeaderKinds

(* The layout of n lines, the h of the header first, as in WellLaidOut.    *)
After(f, k, ks) == k > 1 /\ f[k - 1].kind \in ks

InOrder(f, k) ==
  /\ f[k].kind = "inst"  => After(f, k, {"I@", "inst"})
  /\ f[k].kind = "word"  => After(f, k, {"D@", "word"})
  /\ f[k].kind = "I@"    => After(f, k, {"T"})
  /\ f[k].kind = "blank" => ~After(f, k, {"I@", "D@"})
  /\ f[k].kind \in {"T", "D@"} => After(f, k, {"N", "blank"})
  /\ f[k].kind # "L"

LaidOut(f, h, n, threads) ==
  /\ \A k \in h + 1 .. n : InOrder(f, k)
  /\ \A k \in h + 1 .. n : f[k].kind = "T" => f[k].tid < threads
  /\ \A j, k \in h + 1 .. n : f[j].kind \in {"T", "D@"} /\ f[j] = f[k] => j = k

FitsIn(f, n) == /\ \A t \in Threads : Cardinality(Insts(f, t, n)) <= InstCapacity
                /\ Cardinality(WordsIn(f, n)) <= DataCapacity

Good(f, h, n, threads, ended) ==
  LaidOut(f, h, n, threads) /\ FitsIn(f, n) /\ (ended => f[n].kind \notin {"I@", "D@"})

Shape(f, h, n) ==
  /\ h \in 1 .. n
  /\ HeaderOnly(f, h - 1) /\ f[h].kind = "N"
  /\ \A k \in h + 1 .. n : f[k].kind \in BodyKinds

(* The first m lines are in their cells.                                   *)
StartsAt(f, m, start) ==
  WordsIn(f, m) # {} => /\ start \in 1 .. m /\ f[start] = [kind |-> "D@"]
                        /\ start + 1 \in WordsIn(f, m)
                        /\ \A k \in WordsIn(f, m) : k > start

Stored(f, m, start, code, words) ==
  /\ \A t \in Threads : Filled(code[t], InstCapacity, Insts(f, t, m))
  /\ Filled(words, DataCapacity, WordsIn(f, m))
  /\ StartsAt(f, m, start)

(* The outer loop, and a block of which m lines are stored.                *)
AtTop(f, n, ended, t) ==
  /\ ~ended => f[n].kind \in {"N", "blank", "T"}
  /\ f[n].kind = "T" => t \in Threads /\ f[n] = [kind |-> "T", tid |-> t]

InCode(f, m, t, i, threads) ==
  /\ t \in Threads /\ t < threads
  /\ Selects(f, t, m) /\ f[m].kind \in {"I@", "inst"}
  /\ i = Cardinality(Insts(f, t, m))

InData(f, m, i, start) ==
  /\ f[m].kind \in {"D@", "word"}
  /\ i = Cardinality(WordsIn(f, m))
  /\ WordsIn(f, m) = {} => start = m /\ f[m] = [kind |-> "D@"]

-----------------------------------------------------------------------------
(* An image laid out well is so in each of its prefixes.                   *)
LEMMA LaidOutPrefix ==
  ASSUME NEW f, NEW h \in Nat, NEW n \in Nat, NEW threads, LaidOut(f, h, n + 1, threads)
  PROVE  LaidOut(f, h, n, threads)
<1>1. \A k \in h + 1 .. n : k \in h + 1 .. n + 1
  OBVIOUS
<1> QED
  BY <1>1, Zenon DEF LaidOut

LEMMA FitsInPrefix ==
  ASSUME NEW f, NEW n \in Nat, FitsIn(f, n + 1)
  PROVE  FitsIn(f, n)
<1>1. ASSUME NEW t \in Threads PROVE Cardinality(Insts(f, t, n)) <= InstCapacity
  <2>1. Insts(f, t, n) \in SUBSET Insts(f, t, n + 1)
    BY InstsNext
  <2>2. IsFiniteSet(Insts(f, t, n + 1)) /\ Cardinality(Insts(f, t, n)) \in Nat /\ Cardinality(Insts(f, t, n + 1)) \in Nat
    BY LinesFinite, n + 1 \in Nat
  <2>3. Cardinality(Insts(f, t, n)) <= Cardinality(Insts(f, t, n + 1))
    BY <2>1, <2>2, FS_Subset
  <2>4. Cardinality(Insts(f, t, n + 1)) <= InstCapacity
    BY DEF FitsIn
  <2> QED
    BY <2>2, <2>3, <2>4, CapacityAssumption
<1>2. Cardinality(WordsIn(f, n)) <= DataCapacity
  <2>1. WordsIn(f, n) \in SUBSET WordsIn(f, n + 1)
    BY WordsNext
  <2>2. IsFiniteSet(WordsIn(f, n + 1)) /\ Cardinality(WordsIn(f, n)) \in Nat /\ Cardinality(WordsIn(f, n + 1)) \in Nat
    BY LinesFinite, n + 1 \in Nat
  <2>3. Cardinality(WordsIn(f, n)) <= Cardinality(WordsIn(f, n + 1))
    BY <2>1, <2>2, FS_Subset
  <2>4. Cardinality(WordsIn(f, n + 1)) <= DataCapacity
    BY DEF FitsIn
  <2> QED
    BY <2>2, <2>3, <2>4, CapacityAssumption
<1> QED
  BY <1>1, <1>2 DEF FitsIn

Agree(f, g, n) == \A k \in 1 .. n : g[k] = f[k]

LEMMA LaidOutAgree ==
  ASSUME NEW f, NEW g, NEW h \in Nat, NEW n \in Nat, h >= 1, NEW threads,
         Agree(f, g, n), LaidOut(g, h, n, threads)
  PROVE  LaidOut(f, h, n, threads)
<1>1. \A k \in h + 1 .. n : g[k] = f[k] /\ g[k - 1] = f[k - 1]
  <2> SUFFICES ASSUME NEW k \in h + 1 .. n PROVE g[k] = f[k] /\ g[k - 1] = f[k - 1]
    OBVIOUS
  <2>1. k \in 1 .. n /\ k - 1 \in 1 .. n
    OBVIOUS
  <2> QED
    BY <2>1 DEF Agree
<1>2. \A k \in h + 1 .. n : InOrder(g, k) => InOrder(f, k)
  BY <1>1 DEF InOrder, After
<1> QED
  BY <1>1, <1>2 DEF LaidOut

LEMMA FitsInAgree ==
  ASSUME NEW f, NEW g, NEW n \in Nat, Agree(f, g, n), FitsIn(g, n)
  PROVE  FitsIn(f, n)
<1>1. /\ \A t : Insts(g, t, n) = Insts(f, t, n)
      /\ WordsIn(g, n) = WordsIn(f, n)
  BY PrefixSame DEF Agree
<1> QED
  BY <1>1 DEF FitsIn

LEMMA GoodPrefix ==
  ASSUME NEW f, NEW g, NEW h \in Nat, NEW n \in Nat, h >= 1, NEW threads, NEW ended,
         Agree(f, g, n), Good(g, h, n + 1, threads, ended)
  PROVE  Good(f, h, n, threads, FALSE)
<1>1. LaidOut(g, h, n, threads) /\ FitsIn(g, n)
  BY LaidOutPrefix, FitsInPrefix DEF Good
<1>2. LaidOut(f, h, n, threads) /\ FitsIn(f, n)
  BY <1>1, LaidOutAgree, FitsInAgree
<1> QED
  BY <1>2 DEF Good

(* What is stored depends on these lines alone.                            *)
LEMMA StoredAgree ==
  ASSUME NEW f, NEW g, NEW m \in Nat, Agree(f, g, m), NEW start, NEW code, NEW words,
         Stored(f, m, start, code, words)
  PROVE  Stored(g, m, start, code, words)
<1>1. /\ \A t : Insts(g, t, m) = Insts(f, t, m)
      /\ WordsIn(g, m) = WordsIn(f, m)
  BY PrefixSame DEF Agree
<1>2. StartsAt(g, m, start)
  BY <1>1 DEF StartsAt, Stored, Agree
<1> QED
  BY <1>1, <1>2 DEF Stored

LEMMA BlocksAgree ==
  ASSUME NEW f, NEW g, NEW m \in Nat, m >= 1, Agree(f, g, m)
  PROVE  /\ \A t, i, threads : InCode(f, m, t, i, threads) => InCode(g, m, t, i, threads)
         /\ \A i, start : InData(f, m, i, start) => InData(g, m, i, start)
         /\ \A ended, t : AtTop(f, m, ended, t) => AtTop(g, m, ended, t)
<1>1. /\ \A t : \A k \in 0 .. m : Selects(g, t, k) <=> Selects(f, t, k)
      /\ \A t : Insts(g, t, m) = Insts(f, t, m)
      /\ WordsIn(g, m) = WordsIn(f, m)
  BY PrefixSame DEF Agree
<1>2. m \in 0 .. m /\ g[m] = f[m]
  BY DEF Agree
<1>3. \A t : Selects(g, t, m) <=> Selects(f, t, m)
  BY <1>1, <1>2
<1> QED
  BY <1>1, <1>2, <1>3, Zenon DEF InCode, InData, AtTop

(* A line that is neither an instruction nor a word is stored nowhere.     *)
LEMMA StoredSkip ==
  ASSUME NEW f, NEW m \in Nat, NEW start, NEW code, NEW words,
         Stored(f, m, start, code, words), f[m + 1].kind \notin {"inst", "word"}
  PROVE  Stored(f, m + 1, start, code, words)
<1>1. ASSUME NEW t PROVE Insts(f, t, m + 1) = Insts(f, t, m)
  <2>1. Insts(f, t, m + 1) =
           Insts(f, t, m) \cup IF f[m + 1].kind = "inst" /\ Selects(f, t, m + 1) THEN {m + 1} ELSE {}
    BY InstsNext
  <2> QED
    BY <2>1
<1>2. WordsIn(f, m + 1) = WordsIn(f, m)
  <2>1. WordsIn(f, m + 1) =
           WordsIn(f, m) \cup IF f[m + 1].kind = "word" THEN {m + 1} ELSE {}
    BY WordsNext
  <2> QED
    BY <2>1
<1>3. 1 .. m \subseteq 1 .. m + 1
  OBVIOUS
<1>4. StartsAt(f, m + 1, start)
  BY <1>2, <1>3 DEF Stored, StartsAt
<1> QED
  BY <1>1, <1>2, <1>4 DEF Stored

(* The line after an instruction or a word of a block, or after its        *)
(* location line.                                                          *)
LEMMA CodeLine ==
  ASSUME NEW f, NEW h \in Nat, NEW m \in Nat, m > h, NEW threads,
         Shape(f, h, m + 1), LaidOut(f, h, m + 1, threads), f[m].kind \in {"I@", "inst"}
  PROVE  f[m + 1].kind = "inst" \/ (f[m + 1].kind = "blank" /\ f[m].kind = "inst")
<1>1. m + 1 \in h + 1 .. m + 1 /\ (m + 1) - 1 = m /\ m + 1 > 1
  OBVIOUS
<1>2. InOrder(f, m + 1) /\ f[m + 1].kind \in BodyKinds
  BY <1>1 DEF LaidOut, Shape
<1>3. \A ks : After(f, m + 1, ks) <=> f[m].kind \in ks
  BY <1>1 DEF After
<1> QED
  BY <1>2, <1>3 DEF InOrder, BodyKinds, Kinds

LEMMA DataLine ==
  ASSUME NEW f, NEW h \in Nat, NEW m \in Nat, m > h, NEW threads,
         Shape(f, h, m + 1), LaidOut(f, h, m + 1, threads), f[m].kind \in {"D@", "word"}
  PROVE  f[m + 1].kind = "word" \/ (f[m + 1].kind = "blank" /\ f[m].kind = "word")
<1>1. m + 1 \in h + 1 .. m + 1 /\ (m + 1) - 1 = m /\ m + 1 > 1
  OBVIOUS
<1>2. InOrder(f, m + 1) /\ f[m + 1].kind \in BodyKinds
  BY <1>1 DEF LaidOut, Shape
<1>3. \A ks : After(f, m + 1, ks) <=> f[m].kind \in ks
  BY <1>1 DEF After
<1> QED
  BY <1>2, <1>3 DEF InOrder, BodyKinds, Kinds

(* What the outer loop may read next.                                      *)
LEMMA TopLine ==
  ASSUME NEW f, NEW h \in Nat, NEW n \in Nat, n >= h, NEW threads, NEW t,
         Shape(f, h, n + 1), LaidOut(f, h, n + 1, threads), f[n].kind \in {"N", "blank", "T"},
         f[n].kind = "T" => t \in Threads /\ f[n] = [kind |-> "T", tid |-> t]
  PROVE  /\ f[n + 1].kind \notin {"inst", "word", "L"}
         /\ f[n + 1].kind = "I@" => n > h /\ t \in Threads /\ f[n] = [kind |-> "T", tid |-> t]
<1>1. n + 1 \in h + 1 .. n + 1 /\ (n + 1) - 1 = n
  OBVIOUS
<1>2. InOrder(f, n + 1)
  BY <1>1 DEF LaidOut
<1>3. \A ks : After(f, n + 1, ks) => f[n].kind \in ks
  BY <1>1 DEF After
<1>5. f[n + 1].kind \notin {"inst", "word", "L"}
  BY <1>2, <1>3 DEF InOrder
<1>6. ASSUME f[n + 1].kind = "I@" PROVE n > h /\ t \in Threads /\ f[n] = [kind |-> "T", tid |-> t]
  <2>1. f[n].kind = "T"
    BY <1>2, <1>3, <1>6 DEF InOrder
  <2>2. n # h
    BY <2>1 DEF Shape
  <2> QED
    BY <2>1, <2>2
<1> QED
  BY <1>5, <1>6

(* A block that starts has stored nothing: its thread had no other block,  *)
(* and there was no block of data.                                         *)
LEMMA NewCode ==
  ASSUME NEW f, NEW h \in Nat, NEW n \in Nat, n > h, NEW threads, NEW t \in Threads,
         LaidOut(f, h, n, threads), Shape(f, h, n), f[n] = [kind |-> "T", tid |-> t],
         f[n + 1].kind = "I@"
  PROVE  InCode(f, n + 1, t, 0, threads)
<1>1. f[n].kind = "T" /\ f[n].tid = t /\ n \in h + 1 .. n /\ n \in 1 .. n /\ n + 1 \in Nat
  OBVIOUS
<1>2. t < threads
  BY <1>1 DEF LaidOut
<1>3. Selects(f, t, n)
  <2>1. \A i : i \notin n + 1 .. n
    OBVIOUS
  <2> QED
    BY <1>1, <2>1 DEF Selects
<1>4. Selects(f, t, n + 1)
  BY <1>3, SelectsNext
<1>5. Insts(f, t, n) = {}
  <2> SUFFICES ASSUME NEW k \in 1 .. n, f[k].kind = "inst", Selects(f, t, k) PROVE FALSE
    BY DEF Insts
  <2>1. PICK j \in 1 .. k : f[j] = [kind |-> "T", tid |-> t]
    BY DEF Selects
  <2>2. j \in 1 .. n /\ f[j].kind = "T" /\ f[j] = f[n]
    BY <2>1
  <2>3. j \in h + 1 .. n
    <3>1. \A i \in 1 .. h - 1 : f[i].kind # "T"
      BY DEF Shape, HeaderOnly, HeaderKinds, Parameters
    <3>2. f[h].kind # "T"
      BY DEF Shape
    <3>3. j \in 1 .. h - 1 \/ j = h \/ j \in h + 1 .. n
      BY <2>2
    <3> QED
      BY <2>2, <3>1, <3>2, <3>3
  <2>4. j = n
    BY <1>1, <2>2, <2>3 DEF LaidOut
  <2>5. k = n
    BY <2>4
  <2> QED
    BY <1>1, <2>5
<1>6. Insts(f, t, n + 1) = {}
  BY <1>5, InstsNext
<1>7. Cardinality(Insts(f, t, n + 1)) = 0
  BY <1>6, FS_EmptySet
<1> QED
  BY <1>2, <1>4, <1>7 DEF InCode

LEMMA NewData ==
  ASSUME NEW f, NEW h \in Nat, NEW n \in Nat, n >= h, NEW threads,
         LaidOut(f, h, n + 1, threads), Shape(f, h, n + 1), NEW start, StartsAt(f, n, start),
         f[n + 1] = [kind |-> "D@"]
  PROVE  InData(f, n + 1, 0, n + 1) /\ WordsIn(f, n) = {}
<1>1. f[n + 1].kind = "D@" /\ n + 1 \in h + 1 .. n + 1
  OBVIOUS
<1>2. ASSUME WordsIn(f, n) # {} PROVE FALSE
  <2>1. start \in 1 .. n /\ f[start] = [kind |-> "D@"]
    BY <1>2 DEF StartsAt
  <2>2. f[start].kind = "D@" /\ f[start] = f[n + 1]
    BY <2>1
  <2>3. start \in h + 1 .. n + 1
    <3>1. start \notin 1 .. h - 1
      BY <2>2 DEF Shape, HeaderOnly, HeaderKinds, Parameters
    <3>2. start # h
      BY <2>2 DEF Shape
    <3> QED
      BY <2>1, <3>1, <3>2
  <2>4. start = n + 1
    BY <1>1, <2>2, <2>3 DEF LaidOut
  <2> QED
    BY <2>1, <2>4
<1>3. WordsIn(f, n + 1) = {}
  BY <1>1, <1>2, WordsNext
<1>4. Cardinality(WordsIn(f, n + 1)) = 0
  BY <1>3, FS_EmptySet
<1> QED
  BY <1>1, <1>2, <1>3, <1>4 DEF InData

(* The next instruction of the block, and the next word.                   *)
LEMMA StoredInst ==
  ASSUME NEW f, NEW m \in Nat, NEW n, NEW ps, NEW start, NEW code, NEW words, NEW t, NEW i, NEW threads,
         Cells(n, ps, start, code, words),
         Stored(f, m, start, code, words), InCode(f, m, t, i, threads), f[m + 1].kind = "inst"
  PROVE  /\ Stored(f, m + 1, start, [code EXCEPT ![t][i] = m + 1], words)
         /\ InCode(f, m + 1, t, i + 1, threads)
<1>1. Selects(f, t, m + 1) /\ t \in Threads /\ Selects(f, t, m)
  <2>1. Selects(f, t, m) /\ t \in Threads
    BY DEF InCode
  <2> QED
    BY <2>1, SelectsNext
<1>2. ASSUME NEW u \in Threads PROVE Insts(f, u, m + 1) = Insts(f, u, m) \cup IF u = t THEN {m + 1} ELSE {}
  <2>1. Insts(f, u, m + 1) =
           Insts(f, u, m) \cup IF f[m + 1].kind = "inst" /\ Selects(f, u, m + 1) THEN {m + 1} ELSE {}
    BY InstsNext
  <2>2. u # t => ~Selects(f, u, m + 1)
    BY <1>1, SelectsOne, m + 1 \in Nat
  <2> QED
    BY <1>1, <2>1, <2>2
<1>3. WordsIn(f, m + 1) = WordsIn(f, m)
  <2>1. WordsIn(f, m + 1) =
           WordsIn(f, m) \cup IF f[m + 1].kind = "word" THEN {m + 1} ELSE {}
    BY WordsNext
  <2> QED
    BY <2>1
<1>4. DOMAIN code = Threads /\ DOMAIN code[t] = 0 .. InstCapacity - 1
  BY <1>1 DEF Cells
<1> DEFINE new == [code EXCEPT ![t][i] = m + 1]
<1>5. \A u \in Threads : new[u] = IF u = t THEN [code[t] EXCEPT ![i] = m + 1] ELSE code[u]
  BY <1>4
<1>6. /\ Insts(f, t, m) \subseteq Nat /\ IsFiniteSet(Insts(f, t, m)) /\ Cardinality(Insts(f, t, m)) \in Nat
  BY LinesFinite
<1>60. (\A k \in Insts(f, t, m) : k < m + 1) /\ m + 1 \notin Insts(f, t, m)
  BY DEF Insts
<1>7. Filled([code[t] EXCEPT ![i] = m + 1], InstCapacity, Insts(f, t, m) \cup {m + 1})
  <2>1. Filled(code[t], InstCapacity, Insts(f, t, m)) /\ i = Cardinality(Insts(f, t, m))
    BY <1>1 DEF Stored, InCode
  <2> DEFINE cells == code[t]
  <2>2. DOMAIN cells = 0 .. InstCapacity - 1 /\ Filled(cells, InstCapacity, Insts(f, t, m))
    BY <1>4, <2>1
  <2> HIDE DEF cells
  <2>3. Filled([cells EXCEPT ![i] = m + 1], InstCapacity, Insts(f, t, m) \cup {m + 1})
    BY <1>6, <1>60, <2>1, <2>2, FillOne, CapacityAssumption, m + 1 \in Nat
  <2> QED
    BY <2>3 DEF cells
<1> HIDE DEF new
<1>8. ASSUME NEW u \in Threads PROVE Filled(new[u], InstCapacity, Insts(f, u, m + 1))
  <2>1. CASE u = t
    <3>1. new[u] = [code[t] EXCEPT ![i] = m + 1] /\ Insts(f, u, m + 1) = Insts(f, t, m) \cup {m + 1}
      BY <1>2, <1>5, <2>1
    <3> QED
      BY <1>7, <3>1
  <2>2. CASE u # t
    <3>1. new[u] = code[u] /\ Insts(f, u, m + 1) = Insts(f, u, m)
      BY <1>2, <1>5, <2>2
    <3> QED
      BY <3>1 DEF Stored
  <2> QED
    BY <2>1, <2>2
<1>9. StartsAt(f, m + 1, start)
  <2>1. 1 .. m \subseteq 1 .. m + 1
    OBVIOUS
  <2> QED
    BY <1>3, <2>1 DEF Stored, StartsAt
<1>10. Stored(f, m + 1, start, new, words)
  BY <1>3, <1>8, <1>9 DEF Stored
<1>11. i + 1 = Cardinality(Insts(f, t, m + 1))
  <2>1. Insts(f, t, m + 1) = Insts(f, t, m) \cup {m + 1}
    BY <1>1, <1>2
  <2> QED
    BY <1>6, <1>60, <2>1, FS_AddElement DEF InCode
<1>12. InCode(f, m + 1, t, i + 1, threads)
  BY <1>1, <1>11 DEF InCode
<1> QED
  BY <1>10, <1>12 DEF new

LEMMA StoredWord ==
  ASSUME NEW f, NEW m \in Nat, NEW n, NEW ps, NEW start, NEW code, NEW words, NEW i, m >= 1,
         Cells(n, ps, start, code, words),
         Stored(f, m, start, code, words), InData(f, m, i, start), f[m + 1].kind = "word"
  PROVE  /\ Stored(f, m + 1, start, code, [words EXCEPT ![i] = m + 1])
         /\ InData(f, m + 1, i + 1, start)
<1>1. \A t : Insts(f, t, m + 1) = Insts(f, t, m)
  <2> SUFFICES ASSUME NEW t PROVE Insts(f, t, m + 1) = Insts(f, t, m)
    OBVIOUS
  <2>1. Insts(f, t, m + 1) =
           Insts(f, t, m) \cup IF f[m + 1].kind = "inst" /\ Selects(f, t, m + 1) THEN {m + 1} ELSE {}
    BY InstsNext
  <2> QED
    BY <2>1
<1>2. WordsIn(f, m + 1) = WordsIn(f, m) \cup {m + 1}
  <2>1. WordsIn(f, m + 1) =
           WordsIn(f, m) \cup IF f[m + 1].kind = "word" THEN {m + 1} ELSE {}
    BY WordsNext
  <2> QED
    BY <2>1
<1>3. DOMAIN words = 0 .. DataCapacity - 1
  BY DEF Cells
<1>4. /\ WordsIn(f, m) \subseteq Nat /\ IsFiniteSet(WordsIn(f, m)) /\ Cardinality(WordsIn(f, m)) \in Nat
  BY LinesFinite
<1>5. (\A k \in WordsIn(f, m) : k < m + 1) /\ m + 1 \notin WordsIn(f, m)
  BY DEF WordsIn
<1>6. Filled([words EXCEPT ![i] = m + 1], DataCapacity, WordsIn(f, m) \cup {m + 1})
  <2>1. Filled(words, DataCapacity, WordsIn(f, m)) /\ i = Cardinality(WordsIn(f, m))
    BY DEF Stored, InData
  <2> QED
    BY <1>3, <1>4, <1>5, <2>1, FillOne, CapacityAssumption, m + 1 \in Nat
<1>7. StartsAt(f, m + 1, start)
  <2>1. CASE WordsIn(f, m) = {}
    <3>1. start = m /\ f[m] = [kind |-> "D@"]
      BY <2>1 DEF InData
    <3>2. WordsIn(f, m + 1) = {m + 1}
      BY <1>2, <2>1
    <3> QED
      BY <3>1, <3>2 DEF StartsAt
  <2>2. CASE WordsIn(f, m) # {}
    <3>1. /\ start \in 1 .. m /\ f[start] = [kind |-> "D@"]
          /\ start + 1 \in WordsIn(f, m)
          /\ \A k \in WordsIn(f, m) : k > start
      BY <2>2 DEF Stored, StartsAt
    <3>2. start \in 1 .. m + 1 /\ m + 1 > start
      BY <3>1
    <3> QED
      BY <1>2, <3>1, <3>2 DEF StartsAt
  <2> QED
    BY <2>1, <2>2
<1>8. i + 1 = Cardinality(WordsIn(f, m + 1))
  BY <1>2, <1>4, <1>5, FS_AddElement DEF InData
<1>9. WordsIn(f, m + 1) # {}
  BY <1>2
<1> QED
  BY <1>1, <1>2, <1>6, <1>7, <1>8, <1>9 DEF Stored, InData

(* There is room for the next line of a block that fits.                   *)
LEMMA RoomLeft ==
  ASSUME NEW f, NEW m \in Nat, FitsIn(f, m + 1)
  PROVE  /\ \A t, i, threads : InCode(f, m, t, i, threads) /\ f[m + 1].kind = "inst" => i < InstCapacity
         /\ \A i, start : InData(f, m, i, start) /\ f[m + 1].kind = "word" => i < DataCapacity
<1>1. ASSUME NEW t, NEW i, NEW threads, InCode(f, m, t, i, threads), f[m + 1].kind = "inst"
      PROVE  i < InstCapacity
  <2>1. Selects(f, t, m + 1) /\ t \in Threads
    BY <1>1, SelectsNext DEF InCode
  <2>2. Insts(f, t, m + 1) = Insts(f, t, m) \cup {m + 1}
    <3>1. Insts(f, t, m + 1) =
           Insts(f, t, m) \cup IF f[m + 1].kind = "inst" /\ Selects(f, t, m + 1) THEN {m + 1} ELSE {}
      BY InstsNext
    <3> QED
      BY <1>1, <2>1, <3>1
  <2>3. m + 1 \notin Insts(f, t, m)
    BY DEF Insts
  <2>4. IsFiniteSet(Insts(f, t, m)) /\ Cardinality(Insts(f, t, m)) \in Nat
    BY LinesFinite
  <2>5. Cardinality(Insts(f, t, m + 1)) = i + 1 /\ i \in Nat
    BY <1>1, <2>2, <2>3, <2>4, FS_AddElement DEF InCode
  <2>6. Cardinality(Insts(f, t, m + 1)) <= InstCapacity
    BY <2>1 DEF FitsIn
  <2> QED
    BY <2>5, <2>6, CapacityAssumption
<1>2. ASSUME NEW i, NEW start, InData(f, m, i, start), f[m + 1].kind = "word"
      PROVE  i < DataCapacity
  <2>2. WordsIn(f, m + 1) = WordsIn(f, m) \cup {m + 1}
    <3>1. WordsIn(f, m + 1) =
           WordsIn(f, m) \cup IF f[m + 1].kind = "word" THEN {m + 1} ELSE {}
      BY WordsNext
    <3> QED
      BY <1>2, <3>1
  <2>3. m + 1 \notin WordsIn(f, m)
    BY DEF WordsIn
  <2>4. IsFiniteSet(WordsIn(f, m)) /\ Cardinality(WordsIn(f, m)) \in Nat
    BY LinesFinite
  <2>5. Cardinality(WordsIn(f, m + 1)) = i + 1 /\ i \in Nat
    BY <1>2, <2>2, <2>3, <2>4, FS_AddElement DEF InData
  <2>6. Cardinality(WordsIn(f, m + 1)) <= DataCapacity
    BY DEF FitsIn
  <2> QED
    BY <2>5, <2>6, CapacityAssumption
<1> QED
  BY <1>1, <1>2

-----------------------------------------------------------------------------
(* What is stored, loop by loop: all lines, but for the one in the buffer  *)
(* inside a block.                                                         *)
Loaded(f, h, n, lp, ended, t, i, start, code, words, threads) ==
  /\ lp \in {"top", "done", "openCode", "openData", "code", "data"}
  /\ lp \notin {"code", "data"} => Stored(f, n, start, code, words)
  /\ lp \in {"code", "data"} => n - 1 > h /\ Stored(f, n - 1, start, code, words)
  /\ lp = "top"      => AtTop(f, n, ended, t)
  /\ lp = "openCode" => n > h /\ f[n].kind = "I@" /\ InCode(f, n, t, i, threads)
  /\ lp = "openData" => n > h /\ f[n].kind = "D@" /\ InData(f, n, i, start)
  /\ lp = "code"     => InCode(f, n - 1, t, i, threads)
  /\ lp = "data"     => InData(f, n - 1, i, start)

(* The invariant: while there is only a header, nothing is stored; once    *)
(* the number of threads is read, a well laid out image is stored up to    *)
(* the line in the buffer.                                                 *)
HeaderRead(f, n, lp, ended, code, words) ==
  /\ HeaderOnly(f, n)
  /\ \/ lp = "header" /\ ended = FALSE
     \/ lp \in {"top", "done"} /\ ended = TRUE
  /\ \A t \in Threads : Filled(code[t], InstCapacity, {})
  /\ Filled(words, DataCapacity, {})

BodyRead(f, h, n, lp, ended, t, i, start, code, words, threads) ==
  /\ Shape(f, h, n)
  /\ lp # "header"
  /\ Good(f, h, n, threads, ended) => Loaded(f, h, n, lp, ended, t, i, start, code, words, threads)

ImageInv ==
  /\ TypeInv
  /\ \/ /\ HeaderRead(file, Len(file), loop, eof, instructions, data)
        /\ ParametersRead(file, Len(file), parameters)
     \/ \E h \in 1 .. Len(file) :
          /\ BodyRead(file, h, Len(file), loop, eof, tid, index, data_start, instructions, data, threadnumber)
          /\ ParametersRead(file, h, parameters)

LEMMA LoadedAs ==
  ASSUME NEW f, NEW h, NEW n, NEW ended, NEW t, NEW i, NEW start, NEW code, NEW words, NEW threads
  PROVE  /\ Stored(f, n, start, code, words) /\ AtTop(f, n, ended, t)
              => Loaded(f, h, n, "top", ended, t, i, start, code, words, threads)
         /\ Stored(f, n, start, code, words)
              => Loaded(f, h, n, "done", ended, t, i, start, code, words, threads)
         /\ Stored(f, n, start, code, words) /\ n > h /\ f[n].kind = "I@" /\ InCode(f, n, t, i, threads)
              => Loaded(f, h, n, "openCode", ended, t, i, start, code, words, threads)
         /\ Stored(f, n, start, code, words) /\ n > h /\ f[n].kind = "D@" /\ InData(f, n, i, start)
              => Loaded(f, h, n, "openData", ended, t, i, start, code, words, threads)
  BY Zenon DEF Loaded

LEMMA LoadedIn ==
  ASSUME NEW f, NEW h \in Nat, NEW m \in Nat, m > h, NEW ended, NEW t, NEW i, NEW start, NEW code, NEW words, NEW threads,
         Stored(f, m, start, code, words)
  PROVE  /\ InCode(f, m, t, i, threads)
              => Loaded(f, h, m + 1, "code", ended, t, i, start, code, words, threads)
         /\ InData(f, m, i, start)
              => Loaded(f, h, m + 1, "data", ended, t, i, start, code, words, threads)
<1>1. (m + 1) - 1 = m
  OBVIOUS
<1> DEFINE n == m + 1
<1>2. n - 1 = m
  BY <1>1
<1> HIDE DEF n
<1>3. /\ InCode(f, m, t, i, threads)
              => Loaded(f, h, n, "code", ended, t, i, start, code, words, threads)
      /\ InData(f, m, i, start)
              => Loaded(f, h, n, "data", ended, t, i, start, code, words, threads)
  BY <1>2 DEF Loaded
<1> QED
  BY <1>3 DEF n

LEMMA AgreeRead ==
  ASSUME TypeInv, NEW h, Shape(file, h, Len(file)), More, NEW l \in AnyLine, Fgets(l), l.kind \in BodyKinds
  PROVE  /\ Len(file) \in Nat /\ h \in Nat /\ h >= 1 /\ h <= Len(file) /\ Len(file') = Len(file) + 1
         /\ Agree(file, file', Len(file)) /\ file'[Len(file) + 1] = l /\ line' = Len(file) + 1
         /\ Shape(file', h, Len(file) + 1) /\ file'[h] = file[h]
         /\ eof = FALSE /\ eof' = FALSE
<1> DEFINE n == Len(file)
<1>1. /\ Len(file') = n + 1 /\ line' = Len(file') /\ eof' = FALSE /\ eof = FALSE
      /\ n \in Nat /\ (\A k \in 1 .. n : file'[k] = file[k]) /\ file'[Len(file')] = l
  BY FgetsType
<1> HIDE DEF n
<1>2. h \in 1 .. n /\ Shape(file, h, n)
  BY DEF Shape, n
<1>3. Agree(file, file', n) /\ file'[n + 1] = l
  BY <1>1 DEF Agree
<1>4. Shape(file', h, n + 1)
  <2>1. \A k \in 1 .. h - 1 : k \in 1 .. n
    BY <1>1, <1>2
  <2>2. \A k \in h + 1 .. n + 1 : (k \in h + 1 .. n /\ k \in 1 .. n) \/ k = n + 1
    BY <1>1, <1>2
  <2>3. h \in 1 .. n + 1
    BY <1>1, <1>2
  <2>4. HeaderOnly(file', h - 1) /\ file'[h].kind = "N"
    BY <1>1, <1>2, <2>1 DEF Shape, HeaderOnly
  <2>5. \A k \in h + 1 .. n + 1 : file'[k].kind \in BodyKinds
    BY <1>1, <1>2, <1>3, <2>2 DEF Shape
  <2> QED
    BY <2>3, <2>4, <2>5 DEF Shape
<1> QED
  BY <1>1, <1>2, <1>3, <1>4 DEF n

(* A step that reads the line l in the body.                               *)
LEMMA BodyReads ==
  ASSUME TypeInv, TypeInv', NEW h \in 1 .. Len(file), More, NEW l \in AnyLine, Fgets(l), l.kind \in BodyKinds,
         BodyRead(file, h, Len(file), loop, eof, tid, index, data_start, instructions, data, threadnumber),
         ParametersRead(file, h, parameters), parameters' = parameters, threadnumber' = threadnumber,
         loop' # "header",
         /\ Good(file', h, Len(file) + 1, threadnumber, eof')
         /\ Loaded(file, h, Len(file), loop, eof, tid, index, data_start, instructions, data, threadnumber)
         => Loaded(file', h, Len(file) + 1, loop', eof', tid', index', data_start', instructions', data', threadnumber)
  PROVE  ImageInv'
<1> DEFINE n == Len(file)
<1>1. /\ Shape(file, h, n) /\ (Good(file, h, n, threadnumber, eof)
            => Loaded(file, h, n, loop, eof, tid, index, data_start, instructions, data, threadnumber))
  BY DEF BodyRead
<1>2. /\ n \in Nat /\ h \in Nat /\ h >= 1 /\ h <= n /\ Len(file') = n + 1
      /\ Agree(file, file', n)
      /\ Shape(file', h, n + 1) /\ eof = FALSE /\ eof' = FALSE
  BY <1>1, AgreeRead
<1>3. Good(file', h, n + 1, threadnumber, eof') => Good(file, h, n, threadnumber, FALSE)
  BY <1>2, GoodPrefix
<1>4. BodyRead(file', h, n + 1, loop', eof', tid', index', data_start', instructions', data', threadnumber')
  BY <1>1, <1>2, <1>3 DEF BodyRead
<1>5. ParametersRead(file', h, parameters')
  <2>1. \A k \in 1 .. h : file'[k] = file[k]
    <3>1. \A k \in 1 .. h : k \in 1 .. n
      BY <1>2
    <3> QED
      BY <1>2, <3>1 DEF Agree
  <2>2. ASSUME NEW p, NEW v, LastGiven(file, h, p, v) PROVE LastGiven(file', h, p, v)
    <3>1. v \in 1 .. h => \A k \in v + 1 .. h : k \in 1 .. h
      OBVIOUS
    <3> QED
      BY <2>1, <2>2, <3>1 DEF LastGiven
  <2> QED
    BY <2>2 DEF ParametersRead
<1>6. h \in 1 .. Len(file')
  BY <1>2
<1> QED
  BY <1>2, <1>4, <1>5, <1>6 DEF ImageInv

(* A step that reads no line.                                              *)
LEMMA BodyStays ==
  ASSUME TypeInv, TypeInv', NEW h \in 1 .. Len(file), file' = file,
         BodyRead(file, h, Len(file), loop, eof, tid, index, data_start, instructions, data, threadnumber),
         ParametersRead(file, h, parameters), parameters' = parameters, threadnumber' = threadnumber,
         loop' # "header", eof' = eof \/ eof' = TRUE,
         /\ Good(file, h, Len(file), threadnumber, eof')
         /\ Loaded(file, h, Len(file), loop, eof, tid, index, data_start, instructions, data, threadnumber)
         => Loaded(file, h, Len(file), loop', eof', tid', index', data_start', instructions', data', threadnumber)
  PROVE  ImageInv'
<1>1. /\ Shape(file, h, Len(file)) /\ (Good(file, h, Len(file), threadnumber, eof)
            => Loaded(file, h, Len(file), loop, eof, tid, index, data_start, instructions, data, threadnumber))
  BY DEF BodyRead
<1>2. Good(file, h, Len(file), threadnumber, eof') => Good(file, h, Len(file), threadnumber, eof)
  BY DEF Good
<1>3. BodyRead(file', h, Len(file'), loop', eof', tid', index', data_start', instructions', data', threadnumber')
  BY <1>1, <1>2 DEF BodyRead
<1> QED
  BY <1>3 DEF ImageInv

LEMMA FilledNone == ASSUME NEW f, NEW capacity, f = [k \in 0 .. capacity - 1 |-> Empty]
                    PROVE  Filled(f, capacity, {})
  BY FillNone

LEMMA ImageInvInit == Init => ImageInv
<1> SUFFICES ASSUME Init PROVE ImageInv
  OBVIOUS
<1>1. TypeInv
  BY TypeInvInit
<1>2. file = << >> /\ Len(file) = 0 /\ loop = "header" /\ eof = FALSE
  BY DEF Init
<1>3. \A t \in Threads : Filled(instructions[t], InstCapacity, {})
  <2>1. \A t \in Threads : instructions[t] = [k \in 0 .. InstCapacity - 1 |-> Empty]
    BY DEF Init
  <2> QED
    BY <2>1, FilledNone
<1>4. Filled(data, DataCapacity, {})
  BY FilledNone DEF Init
<1>5. HeaderOnly(file, 0) /\ ParametersRead(file, 0, parameters)
  BY DEF Init, HeaderOnly, ParametersRead, LastGiven
<1> QED
  BY <1>1, <1>2, <1>3, <1>4, <1>5 DEF ImageInv, HeaderRead

LEMMA LineKinds ==
  /\ \A l \in Lines : l \in AnyLine /\ l.kind \in BodyKinds
  /\ \A l \in HeaderLines : l \in AnyLine /\ l.kind \in HeaderKinds
  /\ \A l \in NLines : l \in AnyLine /\ l.kind = "N" /\ l.threads \in 1 .. MaxThreads
  BY DEF Lines, HeaderLines, NLines, AnyLine, BodyKinds, HeaderKinds

(* The steps before the number of threads is read, and after it.           *)
LEMMA HeaderStep ==
  ASSUME TypeInv, TypeInv', Next,
         HeaderRead(file, Len(file), loop, eof, instructions, data),
         ParametersRead(file, Len(file), parameters)
  PROVE  ImageInv'
<1> DEFINE n == Len(file)
<1>1. /\ HeaderOnly(file, n) /\ n \in Nat /\ file \in Seq(AnyLine)
      /\ \A t \in Threads : Filled(instructions[t], InstCapacity, {})
      /\ Filled(data, DataCapacity, {})
      /\ \/ loop = "header" /\ eof = FALSE
         \/ loop \in {"top", "done"} /\ eof = TRUE
  BY DEF HeaderRead, TypeInv, TypeOK, AnyLine
<1> HIDE DEF n
<1>2. CASE Parameter
  <2>1. PICK l \in HeaderLines : Fgets(l) /\ parameters' = IF l.kind \in Parameters THEN [parameters EXCEPT ![l.kind] = line']
                        ELSE parameters
    BY <1>2 DEF Parameter
  <2>2. /\ l \in AnyLine /\ l.kind \in HeaderKinds /\ More
    BY <1>2, LineKinds DEF Parameter
  <2>3. /\ Len(file') = n + 1 /\ eof' = FALSE /\ line' = n + 1
        /\ (\A k \in 1 .. n : file'[k] = file[k]) /\ file'[n + 1] = l
    BY <2>1, <2>2, FgetsType DEF n
  <2>4. HeaderOnly(file', n + 1)
    <3>1. \A k \in 1 .. n + 1 : k \in 1 .. n \/ k = n + 1
      BY <1>1
    <3> QED
      BY <1>1, <2>2, <2>3, <3>1 DEF HeaderOnly
  <2>5. ParametersRead(file', n + 1, parameters')
    <3> SUFFICES ASSUME NEW p \in Parameters PROVE LastGiven(file', n + 1, p, parameters'[p])
      BY DEF ParametersRead
    <3>1. LastGiven(file, n, p, parameters[p])
      BY DEF ParametersRead, n
    <3>2. DOMAIN parameters = Parameters
      BY DEF TypeInv, TypeOK
    <3>3. CASE l.kind = p
      <4>1. parameters'[p] = n + 1
        BY <2>1, <2>3, <3>2, <3>3
      <4>2. \A k : k \notin (n + 1) + 1 .. n + 1
        BY <1>1
      <4>3. n + 1 \in 1 .. n + 1
        BY <1>1
      <4> QED
        BY <2>3, <3>3, <4>1, <4>2, <4>3 DEF LastGiven
    <3>4. CASE l.kind # p
      <4>1. parameters'[p] = parameters[p]
        BY <2>1, <3>2, <3>4
      <4> DEFINE v == parameters[p]
      <4>2. \A k \in 1 .. n + 1 : (k \in 1 .. n /\ file'[k] = file[k]) \/ (k = n + 1 /\ file'[k] = l)
        BY <1>1, <2>3
      <4>3. \A k \in 1 .. n : k \in 1 .. n + 1
        BY <1>1
      <4>4. ASSUME v \in 1 .. n PROVE \A k \in v + 1 .. n + 1 : (k \in v + 1 .. n \/ k = n + 1) /\ k \in 1 .. n + 1
        BY <1>1, <4>4
      <4>5. LastGiven(file, n, p, v)
        BY <3>1
      <4> HIDE DEF v
      <4>6. CASE v = Empty /\ \A k \in 1 .. n : file[k].kind # p
        <5>1. \A k \in 1 .. n + 1 : file'[k].kind # p
          BY <3>4, <4>2, <4>6
        <5> QED
          BY <4>1, <4>6, <5>1 DEF LastGiven, v
      <4>7. CASE v \in 1 .. n /\ file[v].kind = p /\ \A k \in v + 1 .. n : file[k].kind # p
        <5>1. \A k \in v + 1 .. n + 1 : file'[k].kind # p
          <6> SUFFICES ASSUME NEW k \in v + 1 .. n + 1 PROVE file'[k].kind # p
            OBVIOUS
          <6>1. (k \in v + 1 .. n \/ k = n + 1) /\ k \in 1 .. n + 1
            BY <4>4, <4>7
          <6>2. CASE k = n + 1
            BY <2>3, <3>4, <6>2
          <6>3. CASE k # n + 1
            BY <4>2, <4>7, <6>1, <6>3
          <6> QED
            BY <6>2, <6>3
        <5>2. v \in 1 .. n + 1 /\ file'[v].kind = p
          BY <2>3, <4>3, <4>7
        <5> QED
          BY <4>1, <5>1, <5>2 DEF LastGiven, v
      <4> QED
        BY <4>5, <4>6, <4>7 DEF LastGiven
    <3> QED
      BY <3>3, <3>4
  <2>6. loop' = "header" /\ instructions' = instructions /\ data' = data
    BY <1>2 DEF Parameter
  <2>7. HeaderRead(file', n + 1, loop', eof', instructions', data')
    BY <1>1, <2>3, <2>4, <2>6 DEF HeaderRead
  <2> QED
    BY <2>3, <2>5, <2>7 DEF ImageInv
<1>3. CASE NumberOfThreads
  <2>1. PICK l \in NLines : Fgets(l) /\ threadnumber' = l.threads
    BY <1>3 DEF NumberOfThreads
  <2>2. l \in AnyLine /\ l.kind = "N" /\ More
    BY <1>3, LineKinds DEF NumberOfThreads
  <2>3. /\ Len(file') = n + 1 /\ eof' = FALSE
        /\ (\A k \in 1 .. n : file'[k] = file[k]) /\ file'[n + 1] = l
    BY <2>1, <2>2, FgetsType DEF n
  <2>4. Shape(file', n + 1, n + 1)
    <3>1. /\ (n + 1) - 1 = n /\ n + 1 \in 1 .. n + 1
          /\ \A k : k \notin (n + 1) + 1 .. n + 1
      BY <1>1
    <3>2. HeaderOnly(file', n)
      BY <1>1, <2>3 DEF HeaderOnly
    <3> QED
      BY <2>2, <2>3, <3>1, <3>2 DEF Shape
  <2>5. /\ \A t : Insts(file', t, n + 1) = {}
        /\ WordsIn(file', n + 1) = {}
    <3>1. \A k \in 1 .. n + 1 : file'[k].kind \notin {"inst", "word"}
      <4> SUFFICES ASSUME NEW k \in 1 .. n + 1 PROVE file'[k].kind \notin {"inst", "word"}
        OBVIOUS
      <4>1. CASE k = n + 1
        BY <2>2, <2>3, <4>1
      <4>2. CASE k # n + 1
        <5>1. k \in 1 .. n
          BY <1>1, <4>2
        <5>2. file'[k].kind \in HeaderKinds
          BY <1>1, <2>3, <5>1 DEF HeaderOnly
        <5> QED
          BY <5>2 DEF HeaderKinds, Parameters
      <4> QED
        BY <4>1, <4>2
    <3> QED
      BY <3>1 DEF Insts, WordsIn
  <2>6. /\ loop' = "top" /\ instructions' = instructions /\ data' = data /\ parameters' = parameters
        /\ data_start' = data_start /\ tid' = tid
    BY <1>3 DEF NumberOfThreads
  <2>7. Stored(file', n + 1, data_start', instructions', data')
    BY <1>1, <2>5, <2>6 DEF Stored, StartsAt
  <2>8. AtTop(file', n + 1, eof', tid')
    BY <2>2, <2>3 DEF AtTop
  <2>9. Loaded(file', n + 1, n + 1, loop', eof', tid', index', data_start', instructions', data', threadnumber')
    BY <2>6, <2>7, <2>8, LoadedAs
  <2>10. BodyRead(file', n + 1, n + 1, loop', eof', tid', index', data_start', instructions', data', threadnumber')
    BY <2>4, <2>6, <2>9 DEF BodyRead
  <2>11. ParametersRead(file', n + 1, parameters')
    <3> SUFFICES ASSUME NEW p \in Parameters PROVE LastGiven(file', n + 1, p, parameters[p])
      BY <2>6 DEF ParametersRead
    <3> DEFINE v == parameters[p]
    <3>1. LastGiven(file, n, p, v)
      BY DEF ParametersRead, n
    <3> HIDE DEF v
    <3>2. file'[n + 1].kind # p
      BY <2>2, <2>3 DEF Parameters
    <3>3. \A k \in 1 .. n + 1 : k \in 1 .. n \/ k = n + 1
      BY <1>1
    <3>4. CASE v = Empty /\ \A k \in 1 .. n : file[k].kind # p
      <4>1. \A k \in 1 .. n + 1 : file'[k].kind # p
        BY <2>3, <3>2, <3>3, <3>4
      <4> QED
        BY <3>4, <4>1 DEF LastGiven, v
    <3>5. CASE v \in 1 .. n /\ file[v].kind = p /\ \A k \in v + 1 .. n : file[k].kind # p
      <4>1. \A k \in v + 1 .. n + 1 : (k \in v + 1 .. n /\ k \in 1 .. n) \/ k = n + 1
        BY <1>1, <3>5
      <4>2. v \in 1 .. n + 1
        BY <1>1, <3>5
      <4>3. \A k \in v + 1 .. n + 1 : file'[k].kind # p
        BY <2>3, <3>2, <3>5, <4>1
      <4> QED
        BY <2>3, <3>5, <4>2, <4>3 DEF LastGiven, v
    <3> QED
      BY <3>1, <3>4, <3>5 DEF LastGiven
  <2>12. n + 1 \in 1 .. Len(file')
    BY <1>1, <2>3
  <2> QED
    BY <2>3, <2>10, <2>11, <2>12 DEF ImageInv
<1>4. CASE NoThreads \/ EndOfFile
  <2>1. /\ file' = file /\ eof' = TRUE /\ loop' \in {"top", "done"} /\ instructions' = instructions
        /\ data' = data /\ parameters' = parameters
    BY <1>4 DEF NoThreads, EndOfFile, FgetsNull, headerVars
  <2>2. HeaderRead(file', n, loop', eof', instructions', data')
    BY <1>1, <2>1 DEF HeaderRead
  <2> QED
    BY <2>1, <2>2 DEF ImageInv, n
<1>5. ~(SelectThread \/ Ignore \/ OpenCode \/ OpenData)
  BY <1>1 DEF SelectThread, Ignore, OpenCode, OpenData, More
<1>6. ~(FirstLine \/ NoFirstLine \/ CloseBlock \/ StoreInst \/ StoreWord \/ Undefined)
  BY <1>1 DEF FirstLine, NoFirstLine, CloseBlock, StoreInst, StoreWord, Undefined
<1> QED
  BY <1>2, <1>3, <1>4, <1>5, <1>6 DEF Next

(* The outer loop reads a line that starts no block.                       *)
LEMMA TopStays ==
  ASSUME NEW f, NEW h \in Nat, NEW n \in Nat, n >= h, h >= 1, NEW threads, NEW t, NEW u,
         Shape(f, h, n + 1), Good(f, h, n + 1, threads, FALSE),
         NEW start, NEW code, NEW words, Stored(f, n, start, code, words), AtTop(f, n, FALSE, t),
         f[n + 1].kind \notin {"I@", "D@"}, f[n + 1].kind \in BodyKinds,
         f[n + 1].kind = "T" => u \in Threads /\ f[n + 1] = [kind |-> "T", tid |-> u]
  PROVE  Stored(f, n + 1, start, code, words) /\ AtTop(f, n + 1, FALSE, u)
<1>1. f[n + 1].kind \notin {"inst", "word", "L"}
  <2>1. /\ f[n].kind \in {"N", "blank", "T"}
        /\ f[n].kind = "T" => t \in Threads /\ f[n] = [kind |-> "T", tid |-> t]
    BY DEF AtTop
  <2>2. LaidOut(f, h, n + 1, threads)
    BY DEF Good
  <2> QED
    BY <2>1, <2>2, TopLine
<1>2. Stored(f, n + 1, start, code, words)
  BY <1>1, StoredSkip
<1>3. f[n + 1].kind \in {"blank", "T"}
  BY <1>1 DEF BodyKinds, Kinds
<1> QED
  BY <1>2, <1>3 DEF AtTop

LEMMA BodyStep ==
  ASSUME TypeInv, TypeInv', Next, NEW h \in 1 .. Len(file),
         BodyRead(file, h, Len(file), loop, eof, tid, index, data_start, instructions, data, threadnumber),
         ParametersRead(file, h, parameters)
  PROVE  ImageInv'
<1> DEFINE n == Len(file)
           Before == Loaded(file, h, n, loop, eof, tid, index, data_start, instructions, data, threadnumber)
           Later  == Loaded(file', h, n + 1, loop', eof', tid', index', data_start', instructions', data', threadnumber)
           Same   == Loaded(file, h, n, loop', eof', tid', index', data_start', instructions', data', threadnumber)
<1>1. /\ Shape(file, h, n) /\ n \in Nat /\ loop # "header" /\ file \in Seq(AnyLine)
      /\ h \in Nat /\ h >= 1 /\ h <= n /\ line = n /\ eof \in BOOLEAN
      /\ Cells(n, parameters, data_start, instructions, data)
  <2>1. Shape(file, h, n) /\ loop # "header"
    BY DEF BodyRead
  <2>2. n \in Nat /\ file \in Seq(AnyLine) /\ line = n
    BY DEF TypeInv, TypeOK, AnyLine
  <2>3. eof \in BOOLEAN
    BY DEF TypeInv, TypeOK
  <2>4. Cells(n, parameters, data_start, instructions, data)
    BY DEF TypeInv, TypeOK, Cells
  <2>5. h \in Nat /\ h >= 1 /\ h <= n
    BY <2>2
  <2> QED
    BY <2>1, <2>2, <2>3, <2>4, <2>5
<1> HIDE DEF n, Before, Later, Same
<1>2. CASE Parameter \/ NumberOfThreads \/ NoThreads
  BY <1>1, <1>2 DEF Parameter, NumberOfThreads, NoThreads
<1>3. CASE SelectThread \/ Ignore
  <2>1. PICK l \in AnyLine : /\ Fgets(l) /\ l.kind \in BodyKinds /\ l.kind \notin {"I@", "D@"}
                             /\ l.kind = "T" => tid' \in Threads /\ l = [kind |-> "T", tid |-> tid']
    <3>1. CASE SelectThread
      <4>1. PICK t \in Threads : Fgets([kind |-> "T", tid |-> t]) /\ tid' = t
        BY <3>1 DEF SelectThread
      <4>2. [kind |-> "T", tid |-> t] \in AnyLine
        BY LinesAreAny
      <4> QED
        BY <4>1, <4>2 DEF BodyKinds
    <3>2. CASE Ignore
      <4>1. PICK kind \in {"blank", "inst", "word", "L"} : Fgets([kind |-> kind])
        BY <3>2 DEF Ignore
      <4>2. [kind |-> kind] \in AnyLine
        BY LinesAreAny DEF Kinds
      <4>3. [kind |-> kind].kind \in BodyKinds
        BY DEF BodyKinds, Kinds
      <4> QED
        BY <4>1, <4>2, <4>3
    <3> QED
      BY <1>3, <3>1, <3>2
  <2>2. /\ loop = "top" /\ loop' = "top" /\ More /\ index' = index /\ parameters' = parameters /\ threadnumber' = threadnumber
        /\ data_start' = data_start /\ instructions' = instructions /\ data' = data
    BY <1>3 DEF SelectThread, Ignore, headerVars
  <2>3. /\ Agree(file, file', n) /\ file'[n + 1] = l /\ Shape(file', h, n + 1) /\ eof = FALSE /\ eof' = FALSE
    BY <1>1, <2>1, <2>2, AgreeRead DEF n
  <2>4. ASSUME Good(file', h, n + 1, threadnumber, eof'), Before PROVE Later
    <3>1. Stored(file, n, data_start, instructions, data) /\ AtTop(file, n, FALSE, tid)
      BY <2>2, <2>3, <2>4 DEF Before, Loaded
    <3>2. Stored(file', n, data_start, instructions, data) /\ AtTop(file', n, FALSE, tid)
      <4>1. n \in 1 .. n /\ file'[n] = file[n]
        BY <1>1, <2>3 DEF Agree
      <4>2. Stored(file', n, data_start, instructions, data)
        BY <1>1, <2>3, <3>1, StoredAgree
      <4>3. AtTop(file', n, FALSE, tid)
        BY <3>1, <4>1 DEF AtTop
      <4> QED
        BY <4>2, <4>3
    <3>3. Stored(file', n + 1, data_start, instructions, data) /\ AtTop(file', n + 1, FALSE, tid')
      BY <1>1, <2>1, <2>3, <2>4, <3>2, TopStays
    <3> QED
      BY <2>2, <2>3, <3>3, LoadedAs DEF Later
  <2> QED
    BY <2>1, <2>2, <2>4, BodyReads DEF n, Before, Later
<1>4. CASE OpenCode
  <2> DEFINE l == [kind |-> "I@"]
  <2>1. l \in AnyLine /\ l.kind \in BodyKinds /\ Fgets(l)
    BY <1>4, LinesAreAny DEF Kinds, BodyKinds, OpenCode
  <2>2. /\ loop = "top" /\ loop' = "openCode" /\ More /\ index' = 0 /\ parameters' = parameters /\ threadnumber' = threadnumber
        /\ data_start' = data_start /\ instructions' = instructions /\ data' = data /\ tid' = tid
    BY <1>4 DEF OpenCode, headerVars
  <2>3. /\ Agree(file, file', n) /\ file'[n + 1] = l /\ Shape(file', h, n + 1) /\ eof = FALSE /\ eof' = FALSE
    BY <1>1, <2>1, <2>2, AgreeRead DEF n
  <2>4. ASSUME Good(file', h, n + 1, threadnumber, eof'), Before PROVE Later
    <3>1. Stored(file, n, data_start, instructions, data) /\ AtTop(file, n, FALSE, tid)
      BY <2>2, <2>3, <2>4 DEF Before, Loaded
    <3>2. Stored(file', n, data_start, instructions, data) /\ AtTop(file', n, FALSE, tid)
      <4>1. n \in 1 .. n /\ file'[n] = file[n]
        BY <1>1, <2>3 DEF Agree
      <4>2. Stored(file', n, data_start, instructions, data)
        BY <1>1, <2>3, <3>1, StoredAgree
      <4>3. AtTop(file', n, FALSE, tid)
        BY <3>1, <4>1 DEF AtTop
      <4> QED
        BY <4>2, <4>3
    <3>3. LaidOut(file', h, n + 1, threadnumber) /\ file'[n + 1].kind = "I@"
      BY <2>3, <2>4 DEF Good
    <3>4. n > h /\ tid \in Threads /\ file'[n] = [kind |-> "T", tid |-> tid]
      <4>1. Shape(file', h, n + 1) /\ AtTop(file', n, FALSE, tid)
        BY <2>3, <3>2
      <4> HIDE DEF l
      <4>2. file'[n + 1].kind = "I@" => n > h /\ tid \in Threads /\ file'[n] = [kind |-> "T", tid |-> tid]
        <5>1. /\ file'[n].kind \in {"N", "blank", "T"}
              /\ file'[n].kind = "T" => tid \in Threads /\ file'[n] = [kind |-> "T", tid |-> tid]
          BY <4>1 DEF AtTop
        <5> QED
          BY <1>1, <3>3, <4>1, <5>1, TopLine
      <4> QED
        BY <3>3, <4>2
    <3>5. LaidOut(file', h, n, threadnumber)
      BY <1>1, <3>3, LaidOutPrefix
    <3>6. Shape(file', h, n)
      <4>1. h \in 1 .. n /\ \A k \in h + 1 .. n : k \in h + 1 .. n + 1
        BY <1>1
      <4> QED
        BY <2>3, <4>1 DEF Shape
    <3>7. InCode(file', n + 1, tid, 0, threadnumber)
      BY <1>1, <3>3, <3>4, <3>5, <3>6, NewCode
    <3>8. Stored(file', n + 1, data_start, instructions, data)
      BY <1>1, <3>2, <3>3, StoredSkip
    <3>9. n + 1 > h
      BY <1>1
    <3> QED
      BY <2>2, <3>3, <3>7, <3>8, <3>9, LoadedAs DEF Later
  <2> QED
    BY <2>1, <2>2, <2>4, BodyReads DEF n, Before, Later
<1>5. CASE OpenData
  <2> DEFINE l == [kind |-> "D@"]
  <2>1. l \in AnyLine /\ l.kind \in BodyKinds /\ Fgets(l)
    BY <1>5, LinesAreAny DEF Kinds, BodyKinds, OpenData
  <2>2. /\ loop = "top" /\ loop' = "openData" /\ More /\ index' = 0 /\ parameters' = parameters /\ threadnumber' = threadnumber
        /\ data_start' = line' /\ instructions' = instructions /\ data' = data /\ tid' = tid
    BY <1>5 DEF OpenData, headerVars
  <2>3. /\ Agree(file, file', n) /\ file'[n + 1] = l /\ Shape(file', h, n + 1) /\ eof = FALSE /\ eof' = FALSE /\ line' = n + 1
    BY <1>1, <2>1, <2>2, AgreeRead DEF n
  <2>4. ASSUME Good(file', h, n + 1, threadnumber, eof'), Before PROVE Later
    <3>1. Stored(file, n, data_start, instructions, data)
      BY <2>2, <2>4 DEF Before, Loaded
    <3>2. Stored(file', n, data_start, instructions, data)
      BY <1>1, <2>3, <3>1, StoredAgree
    <3>3. LaidOut(file', h, n + 1, threadnumber) /\ file'[n + 1].kind = "D@"
      BY <2>3, <2>4 DEF Good
    <3>4. StartsAt(file', n, data_start)
      BY <3>2 DEF Stored
    <3>5. InData(file', n + 1, 0, n + 1) /\ WordsIn(file', n) = {}
      BY <1>1, <2>3, <3>3, <3>4, NewData
    <3>6. Stored(file', n, n + 1, instructions, data)
      BY <3>2, <3>5 DEF Stored, StartsAt
    <3>8. Stored(file', n + 1, n + 1, instructions, data)
      BY <1>1, <3>3, <3>6, StoredSkip
    <3>9. n + 1 > h
      BY <1>1
    <3> QED
      BY <2>2, <2>3, <3>3, <3>5, <3>8, <3>9, LoadedAs DEF Later
  <2> QED
    BY <2>1, <2>2, <2>4, BodyReads DEF n, Before, Later
<1>6. CASE FirstLine
  <2>1. PICK l \in Lines : Fgets(l)
    BY <1>6 DEF FirstLine
  <2>2. /\ loop \in {"openCode", "openData"} /\ loop' = (IF loop = "openCode" THEN "code" ELSE "data") /\ More
        /\ index' = index /\ parameters' = parameters /\ threadnumber' = threadnumber
        /\ data_start' = data_start /\ instructions' = instructions /\ data' = data /\ tid' = tid
    BY <1>6 DEF FirstLine, headerVars
  <2>3. /\ l \in AnyLine /\ l.kind \in BodyKinds
        /\ Agree(file, file', n) /\ file'[n + 1] = l /\ Shape(file', h, n + 1) /\ eof = FALSE /\ eof' = FALSE
    BY <1>1, <2>1, <2>2, LineKinds, AgreeRead DEF n
  <2>4. ASSUME Good(file', h, n + 1, threadnumber, eof'), Before PROVE Later
    <3>1. Stored(file, n, data_start, instructions, data) /\ n > h
      BY <2>2, <2>4 DEF Before, Loaded
    <3>2. Stored(file', n, data_start, instructions, data)
      BY <1>1, <2>3, <3>1, StoredAgree
    <3>3. CASE loop = "openCode"
      <4>1. InCode(file, n, tid, index, threadnumber)
        BY <2>4, <3>3 DEF Before, Loaded
      <4>2. InCode(file', n, tid, index, threadnumber)
        BY <1>1, <2>3, <4>1, BlocksAgree
      <4> QED
        BY <1>1, <2>2, <3>1, <3>2, <3>3, <4>2, LoadedIn DEF Later
    <3>4. CASE loop = "openData"
      <4>1. InData(file, n, index, data_start)
        BY <2>4, <3>4 DEF Before, Loaded
      <4>2. InData(file', n, index, data_start)
        BY <1>1, <2>3, <4>1, BlocksAgree
      <4> QED
        BY <1>1, <2>2, <3>1, <3>2, <3>4, <4>2, LoadedIn DEF Later
    <3> QED
      BY <2>2, <3>3, <3>4
  <2> QED
    BY <2>1, <2>2, <2>3, <2>4, BodyReads DEF n, Before, Later
<1>7. CASE NoFirstLine
  <2>1. /\ loop \in {"openCode", "openData"} /\ loop' \in {"code", "data"} /\ eof' = TRUE /\ file' = file
        /\ parameters' = parameters /\ threadnumber' = threadnumber
    BY <1>7 DEF NoFirstLine, FgetsNull, headerVars
  <2>2. ASSUME Good(file, h, n, threadnumber, eof'), Before PROVE FALSE
    BY <2>1, <2>2 DEF Good, Before, Loaded
  <2> QED
    BY <2>1, <2>2, BodyStays DEF n, Before
<1>8. ASSUME Good(file, h, n, threadnumber, eof), Before, NEW m, m = n - 1
      PROVE  /\ loop \in {"code", "data"} => m \in Nat /\ m > h /\ n = m + 1 /\ Stored(file, m, data_start, instructions, data)
             /\ loop = "code" => /\ InCode(file, m, tid, index, threadnumber) /\ file[m].kind \in {"I@", "inst"}
                                 /\ file[n].kind = "inst" \/ (file[n].kind = "blank" /\ file[m].kind = "inst")
             /\ loop = "data" => /\ InData(file, m, index, data_start) /\ file[m].kind \in {"D@", "word"}
                                 /\ file[n].kind = "word" \/ (file[n].kind = "blank" /\ file[m].kind = "word")
  <2>1. loop \in {"code", "data"} => n - 1 > h /\ Stored(file, m, data_start, instructions, data)
    BY <1>8 DEF Before, Loaded
  <2>2. loop \in {"code", "data"} => m \in Nat /\ m > h /\ n = m + 1
    BY <1>1, <1>8, <2>1
  <2>3. loop = "code" => InCode(file, m, tid, index, threadnumber) /\ file[m].kind \in {"I@", "inst"}
    BY <1>8 DEF Before, Loaded, InCode
  <2>4. loop = "data" => InData(file, m, index, data_start) /\ file[m].kind \in {"D@", "word"}
    BY <1>8 DEF Before, Loaded, InData
  <2>5. LaidOut(file, h, n, threadnumber)
    BY <1>8 DEF Good
  <2>6. loop = "code" => file[n].kind = "inst" \/ (file[n].kind = "blank" /\ file[m].kind = "inst")
    BY <1>1, <2>2, <2>3, <2>5, CodeLine
  <2>7. loop = "data" => file[n].kind = "word" \/ (file[n].kind = "blank" /\ file[m].kind = "word")
    BY <1>1, <2>2, <2>4, <2>5, DataLine
  <2> QED
    BY <2>1, <2>2, <2>3, <2>4, <2>6, <2>7
<1>9. CASE CloseBlock
  <2>1. /\ \/ loop = "code" /\ file[n].kind \in {"blank", "D@"}
           \/ loop = "data" /\ file[n].kind \in {"blank", "I@"}
        /\ loop' = "top" /\ file' = file /\ eof' = eof /\ tid' = tid
        /\ parameters' = parameters /\ threadnumber' = threadnumber
        /\ data_start' = data_start /\ instructions' = instructions /\ data' = data
    BY <1>1, <1>9 DEF CloseBlock, CodeEnds, DataEnds, headerVars
  <2>2. ASSUME Good(file, h, n, threadnumber, eof), Before PROVE Same
    <3> DEFINE m == n - 1
    <3>1. m \in Nat /\ n = m + 1 /\ Stored(file, m, data_start, instructions, data) /\ file[n].kind = "blank"
      BY <1>8, <2>1, <2>2
    <3> HIDE DEF m
    <3>2. Stored(file, n, data_start, instructions, data)
      BY <3>1, StoredSkip
    <3>3. AtTop(file, n, eof', tid')
      BY <3>1 DEF AtTop
    <3> QED
      BY <2>1, <3>2, <3>3, LoadedAs DEF Same
  <2> QED
    BY <2>1, <2>2, BodyStays DEF n, Before, Same
<1>10. CASE StoreInst
  <2>1. /\ loop = "code" /\ file[n].kind = "inst"
        /\ instructions' = [instructions EXCEPT ![tid][index] = n] /\ index' = index + 1
        /\ tid' = tid /\ parameters' = parameters /\ threadnumber' = threadnumber
        /\ data_start' = data_start /\ data' = data
    BY <1>1, <1>10 DEF StoreInst, BadCode, headerVars
  <2>2. ASSUME Good(file, h, n, threadnumber, eof), Before
        PROVE  n > h /\ Stored(file, n, data_start, instructions', data) /\ InCode(file, n, tid, index', threadnumber)
    <3> DEFINE m == n - 1
    <3>1. /\ m \in Nat /\ m > h /\ n = m + 1 /\ Stored(file, m, data_start, instructions, data)
          /\ InCode(file, m, tid, index, threadnumber)
      BY <1>8, <2>1, <2>2
    <3> HIDE DEF m
    <3>2. file[m + 1].kind = "inst" /\ Cells(n, parameters, data_start, instructions, data)
      BY <1>1, <2>1, <3>1
    <3>3. /\ Stored(file, m + 1, data_start, [instructions EXCEPT ![tid][index] = m + 1], data)
          /\ InCode(file, m + 1, tid, index + 1, threadnumber)
      BY <3>1, <3>2, StoredInst
    <3> QED
      BY <1>1, <2>1, <3>1, <3>3
  <2>3. CASE More /\ (\E l \in Lines : Fgets(l)) /\ UNCHANGED loop
    <3>1. PICK l \in Lines : Fgets(l)
      BY <2>3
    <3>2. /\ l \in AnyLine /\ l.kind \in BodyKinds
          /\ Agree(file, file', n) /\ eof = FALSE
      BY <1>1, <2>3, <3>1, LineKinds, AgreeRead DEF n
    <3>3. ASSUME Good(file', h, n + 1, threadnumber, eof'), Before PROVE Later
      <4>1. Good(file, h, n, threadnumber, eof)
        BY <1>1, <3>2, <3>3, GoodPrefix
      <4>2. n > h /\ Stored(file, n, data_start, instructions', data) /\ InCode(file, n, tid, index', threadnumber)
        BY <2>2, <3>3, <4>1
      <4>3. Stored(file', n, data_start, instructions', data) /\ InCode(file', n, tid, index', threadnumber)
        BY <1>1, <3>2, <4>2, StoredAgree, BlocksAgree
      <4> QED
        BY <1>1, <2>1, <2>3, <4>2, <4>3, LoadedIn DEF Later
    <3> QED
      BY <2>1, <2>3, <3>1, <3>2, <3>3, BodyReads DEF n, Before, Later
  <2>4. CASE loop' = "top" /\ FgetsNull
    <3>1. eof' = TRUE /\ file' = file
      BY <2>4 DEF FgetsNull
    <3>2. ASSUME Good(file, h, n, threadnumber, eof'), Before PROVE Same
      <4>1. Good(file, h, n, threadnumber, eof)
        BY <3>1, <3>2 DEF Good
      <4>2. Stored(file, n, data_start, instructions', data)
        BY <2>2, <3>2, <4>1
      <4>3. AtTop(file, n, eof', tid')
        BY <2>1, <3>1 DEF AtTop
      <4> QED
        BY <2>1, <2>4, <4>2, <4>3, LoadedAs DEF Same
    <3> QED
      BY <2>1, <2>4, <3>1, <3>2, BodyStays DEF n, Before, Same
  <2> QED
    BY <1>10, <2>3, <2>4 DEF StoreInst
<1>11. CASE StoreWord
  <2>1. /\ loop = "data" /\ file[n].kind \notin {"blank", "I@"}
        /\ data' = [data EXCEPT ![index] = IF file[n].kind = "word" THEN n ELSE Empty] /\ index' = index + 1
        /\ tid' = tid /\ parameters' = parameters /\ threadnumber' = threadnumber
        /\ data_start' = data_start /\ instructions' = instructions
    BY <1>1, <1>11 DEF StoreWord, DataEnds, headerVars
  <2>2. ASSUME Good(file, h, n, threadnumber, eof), Before
        PROVE  /\ n > h /\ Stored(file, n, data_start, instructions, data') /\ InData(file, n, index', data_start)
               /\ file[n].kind = "word"
    <3> DEFINE m == n - 1
    <3>1. /\ m \in Nat /\ m > h /\ n = m + 1 /\ Stored(file, m, data_start, instructions, data)
          /\ InData(file, m, index, data_start) /\ file[n].kind = "word"
      BY <1>8, <2>1, <2>2
    <3> HIDE DEF m
    <3>2. file[m + 1].kind = "word" /\ Cells(n, parameters, data_start, instructions, data) /\ m >= 1
      BY <1>1, <3>1
    <3>3. /\ Stored(file, m + 1, data_start, instructions, [data EXCEPT ![index] = m + 1])
          /\ InData(file, m + 1, index + 1, data_start)
      BY <3>1, <3>2, StoredWord
    <3> QED
      BY <1>1, <2>1, <3>1, <3>3
  <2>3. CASE More /\ (\E l \in Lines : Fgets(l)) /\ UNCHANGED loop
    <3>1. PICK l \in Lines : Fgets(l)
      BY <2>3
    <3>2. /\ l \in AnyLine /\ l.kind \in BodyKinds
          /\ Agree(file, file', n) /\ eof = FALSE
      BY <1>1, <2>3, <3>1, LineKinds, AgreeRead DEF n
    <3>3. ASSUME Good(file', h, n + 1, threadnumber, eof'), Before PROVE Later
      <4>1. Good(file, h, n, threadnumber, eof)
        BY <1>1, <3>2, <3>3, GoodPrefix
      <4>2. n > h /\ Stored(file, n, data_start, instructions, data') /\ InData(file, n, index', data_start)
        BY <2>2, <3>3, <4>1
      <4>3. Stored(file', n, data_start, instructions, data') /\ InData(file', n, index', data_start)
        BY <1>1, <3>2, <4>2, StoredAgree, BlocksAgree
      <4> QED
        BY <1>1, <2>1, <2>3, <4>2, <4>3, LoadedIn DEF Later
    <3> QED
      BY <2>1, <2>3, <3>1, <3>2, <3>3, BodyReads DEF n, Before, Later
  <2>4. CASE loop' = "top" /\ FgetsNull
    <3>1. eof' = TRUE /\ file' = file
      BY <2>4 DEF FgetsNull
    <3>2. ASSUME Good(file, h, n, threadnumber, eof'), Before PROVE Same
      <4>1. Good(file, h, n, threadnumber, eof)
        BY <3>1, <3>2 DEF Good
      <4>2. Stored(file, n, data_start, instructions, data') /\ file[n].kind = "word"
        BY <2>2, <3>2, <4>1
      <4>3. AtTop(file, n, eof', tid')
        BY <3>1, <4>2 DEF AtTop
      <4> QED
        BY <2>1, <2>4, <4>2, <4>3, LoadedAs DEF Same
    <3> QED
      BY <2>1, <2>4, <3>1, <3>2, BodyStays DEF n, Before, Same
  <2> QED
    BY <1>11, <2>3, <2>4 DEF StoreWord
<1>12. CASE Undefined
  <2>1. /\ file' = file /\ eof' = eof /\ loop' = "undefined"
        /\ parameters' = parameters /\ threadnumber' = threadnumber
    BY <1>12 DEF Undefined, headerVars
  <2>2. \/ /\ loop = "code" /\ file[n].kind \notin {"blank", "D@"}
           /\ file[n].kind # "inst" \/ tid \notin 0 .. threadnumber - 1 \/ index >= InstCapacity
        \/ loop = "data" /\ file[n].kind \notin {"blank", "I@"} /\ index >= DataCapacity
    BY <1>1, <1>12 DEF Undefined, CodeEnds, DataEnds, BadCode
  <2>3. ASSUME Good(file, h, n, threadnumber, eof), Before PROVE FALSE
    <3> DEFINE m == n - 1
    <3>1. /\ loop \in {"code", "data"} => m \in Nat /\ n = m + 1
          /\ loop = "code" => /\ InCode(file, m, tid, index, threadnumber)
                              /\ file[n].kind = "inst" \/ (file[n].kind = "blank" /\ file[m].kind = "inst")
          /\ loop = "data" => /\ InData(file, m, index, data_start)
                              /\ file[n].kind = "word" \/ (file[n].kind = "blank" /\ file[m].kind = "word")
      BY <1>8, <2>3
    <3> HIDE DEF m
    <3>2. FitsIn(file, n)
      BY <2>3 DEF Good
    <3>3. CASE loop = "code"
      <4>1. m \in Nat /\ n = m + 1 /\ InCode(file, m, tid, index, threadnumber) /\ file[n].kind = "inst"
        BY <2>2, <3>1, <3>3
      <4>2. FitsIn(file, m + 1) /\ file[m + 1].kind = "inst"
        BY <3>2, <4>1
      <4>3. index < InstCapacity
        BY <4>1, <4>2, RoomLeft
      <4>4. tid \in Threads /\ tid < threadnumber
        BY <4>1 DEF InCode
      <4>5. threadnumber \in Nat /\ index \in Nat
        BY DEF TypeInv, TypeOK
      <4>6. tid \in 0 .. threadnumber - 1
        BY <4>4, <4>5, LinesAssumption DEF Threads
      <4>7. ~(index >= InstCapacity)
        BY <4>3, <4>5, CapacityAssumption
      <4> QED
        BY <2>2, <3>3, <4>1, <4>6, <4>7
    <3>4. CASE loop = "data"
      <4>1. m \in Nat /\ n = m + 1 /\ InData(file, m, index, data_start) /\ file[n].kind = "word"
        BY <2>2, <3>1, <3>4
      <4>2. FitsIn(file, m + 1) /\ file[m + 1].kind = "word"
        BY <3>2, <4>1
      <4>3. index < DataCapacity
        BY <4>1, <4>2, RoomLeft
      <4>5. index \in Nat
        BY DEF TypeInv, TypeOK
      <4>7. ~(index >= DataCapacity)
        BY <4>3, <4>5, CapacityAssumption
      <4> QED
        BY <2>2, <3>4, <4>7
    <3> QED
      BY <2>2, <3>3, <3>4
  <2> QED
    BY <2>1, <2>3, BodyStays DEF n, Before
<1>13. CASE EndOfFile
  <2>1. /\ loop = "top" /\ loop' = "done" /\ eof' = TRUE /\ file' = file
        /\ parameters' = parameters /\ threadnumber' = threadnumber
        /\ data_start' = data_start /\ instructions' = instructions /\ data' = data
    BY <1>13 DEF EndOfFile, FgetsNull, headerVars
  <2>2. ASSUME Before PROVE Same
    <3>1. Stored(file, n, data_start, instructions, data)
      BY <2>1, <2>2 DEF Before, Loaded
    <3> QED
      BY <2>1, <3>1, LoadedAs DEF Same
  <2> QED
    BY <2>1, <2>2, BodyStays DEF n, Before, Same
<1> QED
  BY <1>2, <1>3, <1>4, <1>5, <1>6, <1>7, <1>9, <1>10, <1>11, <1>12, <1>13 DEF Next

LEMMA ImageInvStep == ImageInv /\ [Next]_vars => ImageInv'
<1> SUFFICES ASSUME ImageInv, [Next]_vars PROVE ImageInv'
  OBVIOUS
<1>1. TypeInv /\ TypeInv'
  BY TypeInvStep DEF ImageInv
<1>2. CASE UNCHANGED vars
  <2>1. /\ file' = file /\ loop' = loop /\ eof' = eof /\ tid' = tid /\ index' = index /\ data_start' = data_start
        /\ instructions' = instructions /\ data' = data /\ parameters' = parameters /\ threadnumber' = threadnumber
    BY <1>2 DEF vars, headerVars
  <2> QED
    BY <1>1, <2>1 DEF ImageInv
<1>3. CASE Next
  <2>1. CASE /\ HeaderRead(file, Len(file), loop, eof, instructions, data)
             /\ ParametersRead(file, Len(file), parameters)
    BY <1>1, <1>3, <2>1, HeaderStep
  <2>2. ASSUME NEW h \in 1 .. Len(file),
               BodyRead(file, h, Len(file), loop, eof, tid, index, data_start, instructions, data, threadnumber),
               ParametersRead(file, h, parameters)
        PROVE  ImageInv'
    BY <1>1, <1>3, <2>2, BodyStep
  <2> QED
    BY <2>1, <2>2 DEF ImageInv
<1> QED
  BY <1>2, <1>3

LEMMA GivenLast ==
  ASSUME NEW f, NEW h \in Nat, NEW p, NEW v, LastGiven(f, h, p, v), NEW given, given = {k \in 1 .. h : f[k].kind = p}
  PROVE  v = IF given = {} THEN Empty ELSE Nth(given, Cardinality(given) - 1)
<1>1. CASE v = Empty /\ \A k \in 1 .. h : f[k].kind # p
  BY <1>1
<1>2. CASE v \in 1 .. h /\ f[v].kind = p /\ \A k \in v + 1 .. h : f[k].kind # p
  <2>1. v \in given
    BY <1>2
  <2>2. \A k \in given : k <= v
    <3> SUFFICES ASSUME NEW k \in 1 .. h, f[k].kind = p PROVE k <= v
      OBVIOUS
    <3>1. k \notin v + 1 .. h
      BY <1>2
    <3> QED
      BY <1>2, <3>1
  <2>3. given \in SUBSET (1 .. h) /\ given \subseteq Nat
    OBVIOUS
  <2>4. IsFiniteSet(1 .. h)
    BY FS_Interval
  <2>5. IsFiniteSet(given)
    BY <2>3, <2>4, FS_Subset
  <2>6. Nth(given, Cardinality(given) - 1) = v
    BY <2>1, <2>2, <2>3, <2>5, NthLast
  <2> QED
    BY <2>1, <2>6
<1> QED
  BY <1>1, <1>2 DEF LastGiven

LEMMA SameLines ==
  ASSUME TypeInv
  PROVE  /\ \A t : InstLines(t) = Insts(file, t, Len(file))
         /\ WordLines = WordsIn(file, Len(file))
         /\ DOMAIN file = 1 .. Len(file) /\ Len(file) \in Nat
<1>1. DOMAIN file = 1 .. Len(file) /\ Len(file) \in Nat
  BY DEF TypeInv, TypeOK
<1> QED
  BY <1>1 DEF InstLines, Insts, Selects, WordLines, WordsIn, Kind

(* The invariant implies that a well laid out image is loaded.             *)
LEMMA HeaderLoads ==
  ASSUME TypeInv, HeaderRead(file, Len(file), loop, eof, instructions, data),
         ParametersRead(file, Len(file), parameters)
  PROVE  ImageLoaded
<1> DEFINE m == Len(file)
<1>1. /\ \A t : InstLines(t) = Insts(file, t, m)
      /\ WordLines = WordsIn(file, m)
      /\ DOMAIN file = 1 .. m /\ m \in Nat
  BY SameLines
<1>2. /\ HeaderOnly(file, m) /\ ParametersRead(file, m, parameters) /\ loop # "undefined"
      /\ \A t \in Threads : Filled(instructions[t], InstCapacity, {})
      /\ Filled(data, DataCapacity, {})
  BY DEF HeaderRead
<1> HIDE DEF m
<1>3. \A k \in 1 .. m : file[k].kind \notin {"inst", "word", "N"}
  BY <1>2 DEF HeaderOnly, HeaderKinds, Parameters
<1>4. (\A t : InstLines(t) = {}) /\ WordLines = {} /\ NLine = {}
  BY <1>1, <1>3 DEF Insts, WordsIn, NLine, Kind
<1>5. Header = 1 .. m
  BY <1>1, <1>4 DEF Header
<1>6. {} \subseteq Nat /\ IsFiniteSet({})
  BY FS_EmptySet
<1>7. \A t \in Threads : \A k \in 0 .. InstCapacity - 1 : instructions[t][k] = Nth(InstLines(t), k)
  <2> SUFFICES ASSUME NEW t \in Threads PROVE \A k \in 0 .. InstCapacity - 1 : instructions[t][k] = Nth({}, k)
    BY <1>4
  <2> QED
    BY <1>2, <1>6, NthFilled
<1>8. \A k \in 0 .. DataCapacity - 1 : data[k] = Nth(WordLines, k)
  BY <1>2, <1>4, <1>6, NthFilled
<1>9. ASSUME NEW p \in Parameters, NEW given, given = {k \in Header : Kind(k) = p}
      PROVE  parameters[p] = IF given = {} THEN Empty ELSE Nth(given, Cardinality(given) - 1)
  <2> DEFINE v == parameters[p]
  <2>1. given = {k \in 1 .. m : file[k].kind = p} /\ LastGiven(file, m, p, v)
    BY <1>2, <1>5, <1>9 DEF ParametersRead, Kind
  <2> HIDE DEF v
  <2>2. v = IF given = {} THEN Empty ELSE Nth(given, Cardinality(given) - 1)
    <3>1. m \in Nat
      BY <1>1
    <3> QED
      BY <2>1, <3>1, GivenLast
  <2> QED
    BY <2>2 DEF v
<1> QED
  BY <1>2, <1>4, <1>7, <1>8, <1>9 DEF ImageLoaded

LEMMA BodyLoads ==
  ASSUME TypeInv, NEW h \in 1 .. Len(file),
         BodyRead(file, h, Len(file), loop, eof, tid, index, data_start, instructions, data, threadnumber),
         ParametersRead(file, h, parameters), WellLaidOut, Fits
  PROVE  ImageLoaded
<1> DEFINE m == Len(file)
<1>1. /\ \A t : InstLines(t) = Insts(file, t, m)
      /\ WordLines = WordsIn(file, m)
      /\ DOMAIN file = 1 .. m /\ m \in Nat
  BY SameLines
<1>2. /\ Shape(file, h, m) /\ (Good(file, h, m, threadnumber, eof)
            => Loaded(file, h, m, loop, eof, tid, index, data_start, instructions, data, threadnumber))
      /\ ParametersRead(file, h, parameters) /\ h \in 1 .. m
  BY DEF BodyRead
<1> HIDE DEF m
<1>3. NLine = {h}
  <2>1. \A k \in 1 .. m : k \in 1 .. h - 1 \/ k = h \/ k \in h + 1 .. m
    BY <1>1, <1>2
  <2>2. \A k \in 1 .. h - 1 : file[k].kind # "N"
    BY <1>2 DEF Shape, HeaderOnly, HeaderKinds, Parameters
  <2>3. \A k \in h + 1 .. m : file[k].kind # "N"
    BY <1>2 DEF Shape, BodyKinds, Kinds
  <2>4. file[h].kind = "N"
    BY <1>2 DEF Shape
  <2> QED
    BY <1>1, <1>2, <2>1, <2>2, <2>3, <2>4 DEF NLine, Kind
<1>4. Header = 1 .. h
  BY <1>3 DEF Header
<1>5. Body = h + 1 .. m
  BY <1>1, <1>2, <1>4 DEF Body
<1>6. LaidOut(file, h, m, threadnumber)
  <2>1. \A k \in h + 1 .. m : InOrder(file, k)
    BY <1>5 DEF WellLaidOut, InOrder, After, Follows, Kind
  <2> QED
    BY <1>5, <2>1 DEF WellLaidOut, LaidOut, Kind
<1>7. FitsIn(file, m)
  BY <1>1 DEF Fits, FitsIn
<1>8. eof => file[m].kind \notin {"I@", "D@"}
  <2>1. m # 0
    BY <1>1, <1>2
  <2> QED
    BY <2>1 DEF WellLaidOut, Kind, m
<1>9. Good(file, h, m, threadnumber, eof)
  BY <1>6, <1>7, <1>8 DEF Good
<1>10. Loaded(file, h, m, loop, eof, tid, index, data_start, instructions, data, threadnumber)
  BY <1>2, <1>9
<1>11. loop # "undefined"
  BY <1>10 DEF Loaded
<1>12. loop = "done" => Stored(file, m, data_start, instructions, data)
  BY <1>10 DEF Loaded
<1>13. ASSUME loop = "done", NEW t \in Threads
       PROVE  \A n \in 0 .. InstCapacity - 1 : instructions[t][n] = Nth(InstLines(t), n)
  <2>1. Filled(instructions[t], InstCapacity, Insts(file, t, m))
    BY <1>12, <1>13 DEF Stored
  <2>2. Insts(file, t, m) \subseteq Nat /\ IsFiniteSet(Insts(file, t, m))
    BY <1>1, LinesFinite
  <2>3. \A n \in 0 .. InstCapacity - 1 : instructions[t][n] = Nth(Insts(file, t, m), n)
    BY <2>1, <2>2, NthFilled
  <2> QED
    BY <1>1, <2>3
<1>14. WordLines \subseteq Nat /\ IsFiniteSet(WordLines)
  BY <1>1, LinesFinite
<1>15. ASSUME loop = "done" PROVE \A n \in 0 .. DataCapacity - 1 : data[n] = Nth(WordLines, n)
  <2>1. Filled(data, DataCapacity, WordLines)
    BY <1>1, <1>12, <1>15 DEF Stored
  <2> QED
    BY <1>14, <2>1, NthFilled
<1>16. ASSUME loop = "done", WordLines # {} PROVE data_start = Nth(WordLines, 0) - 1
  <2>1. /\ data_start \in 1 .. m /\ data_start + 1 \in WordLines
        /\ \A k \in WordLines : k > data_start
    BY <1>1, <1>12, <1>16 DEF Stored, StartsAt
  <2>2. \A k \in WordLines : data_start + 1 <= k
    BY <1>14, <2>1
  <2>3. Nth(WordLines, 0) = data_start + 1
    BY <1>14, <2>1, <2>2, NthFirst
  <2> QED
    BY <2>1, <2>3
<1>17. ASSUME NEW p \in Parameters, NEW given, given = {k \in Header : Kind(k) = p}
       PROVE  parameters[p] = IF given = {} THEN Empty ELSE Nth(given, Cardinality(given) - 1)
  <2> DEFINE v == parameters[p]
  <2>1. given = {k \in 1 .. h : file[k].kind = p} /\ LastGiven(file, h, p, v) /\ h \in Nat
    BY <1>2, <1>4, <1>17 DEF ParametersRead, Kind
  <2> HIDE DEF v
  <2>2. v = IF given = {} THEN Empty ELSE Nth(given, Cardinality(given) - 1)
    BY <2>1, GivenLast
  <2> QED
    BY <2>2 DEF v
<1> QED
  BY <1>11, <1>13, <1>15, <1>16, <1>17 DEF ImageLoaded

(* Whatever the length of the file, the number of threads and the          *)
(* capacities, an image laid out as the tests are and that fits is loaded  *)
(* exactly: each instruction and word in its own place and nothing else.   *)
THEOREM ImageLoadedCorrect == Spec => []ImageLoaded
<1>1. ASSUME ImageInv PROVE ImageLoaded
  <2>1. CASE /\ HeaderRead(file, Len(file), loop, eof, instructions, data)
             /\ ParametersRead(file, Len(file), parameters)
    BY <1>1, <2>1, HeaderLoads DEF ImageInv
  <2>2. ASSUME NEW h \in 1 .. Len(file),
               BodyRead(file, h, Len(file), loop, eof, tid, index, data_start, instructions, data, threadnumber),
               ParametersRead(file, h, parameters)
        PROVE  ImageLoaded
    <3> SUFFICES ASSUME WellLaidOut, Fits PROVE ImageLoaded
      BY Zenon DEF ImageLoaded
    <3> QED
      BY <1>1, <2>2, BodyLoads DEF ImageInv
  <2> QED
    BY <1>1, <2>1, <2>2 DEF ImageInv
<1> QED
  BY <1>1, ImageInvInit, ImageInvStep, PTL DEF Spec
=============================================================================
