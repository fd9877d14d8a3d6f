------------------------------ MODULE HistHash ------------------------------
(***************************************************************************)
(* The hash table of the history list (sh.hist.c:628-878): open addressing *)
(* with linear probing, deleted entries as place holders, and a table that *)
(* is built anew, from the whole list, when it gets too full.              *)
(*                                                                         *)
(* A table is a function from 0 .. histHashTableLength-1 to entries.  An   *)
(* entry is the number of a struct Hist, EMPTY or DELETED.  The hash of a  *)
(* struct Hist is a function the caller gives (its Hhash once it is in a   *)
(* table, hashhist() of its words before).  An operator that may run into  *)
(* an assert(), or needs a table beyond the bound, returns ABORT in place  *)
(* of a table.                                                             *)
(***************************************************************************)
EXTENDS Integers, Sequences, FiniteSetsExt, TLC

CONSTANTS
  MinTableLog,  \* sh.hist.c:717, 5: the least table has 2^5 entries
  MaxTableLog   \* bound: no table is larger than 2^MaxTableLog

ASSUME HistHashAssumption ==
  /\ MinTableLog \in Nat /\ MaxTableLog \in Nat /\ MinTableLog <= MaxTableLog

EMPTY   == 0
DELETED == -1
NoTable == << >>                      \* histHashTable is NULL
ABORT   == [i \in {-1} |-> EMPTY]      \* no table has this domain

Length(T) == Cardinality(DOMAIN T)

\* hash2tableIndex()
Index(hash, d, length) == (hash + d) % length

\* The d-th entry that a search for hash looks at.
Probe(T, hash, d) == T[Index(hash, d, Length(T))]

\* How far a search gets before it finds one of S: 0 is the first entry.
Distances(T, hash, S) == {d \in 0 .. Length(T) - 1 : Probe(T, hash, d) \in S}

-----------------------------------------------------------------------------
(* createHistHashTable and insertHistHashTable.                             *)

\* 1 << e
Size[e \in 0 .. MaxTableLog] == IF e = 0 THEN 1 ELSE 2 * Size[e - 1]

\* The powers of two, from 2^MinTableLog on, that hold hlen entries twice: the
\* code takes the least of them.
getHashTableSize(hlen) == {e \in MinTableLog .. MaxTableLog : Size[e] >= 2 * hlen}

EmptyTable(length) == [i \in 0 .. length - 1 |-> EMPTY]

\* More than a tenth of the table would be passed over: it has to grow.
Crowded(T, hash) ==
  \A d \in 0 .. Length(T) \div 10 : Probe(T, hash, d) \notin {EMPTY, DELETED}

\* Mutant: the first entry of the search is taken, free or not.
PutFirst(T, id, hash) == [T EXCEPT ![hash % Length(T)] = id]

Put(T, id, hash) ==
  LET d == Min(Distances(T, hash, {EMPTY, DELETED}))
  IN  [T EXCEPT ![Index(hash, d, Length(T))] = id]

\* The table of the given length after the first k entries of list, as far as
\* none of them found it crowded.
Filled(list, hash, length) ==
  LET after[k \in 0 .. Len(list)] ==
        IF k = 0 THEN EmptyTable(length)
        ELSE LET T == after[k - 1] IN
             IF T = NoTable \/ Crowded(T, hash[list[k]]) THEN NoTable
             ELSE Put(T, list[k], hash[list[k]])
  IN  after

\* Fill a new table from the list.  If an entry finds it crowded, an inner
\* call has built a larger one with the whole list when insertHistHashTable()
\* returns to the loop; the next entry of the loop is then inserted once more
\* and meets itself: assert(np != histHashTable[hi]).
Build(list, hash, hlen) ==
  LET count     == Len(list)
      filled(e) == Filled(list, hash, Size[e])
      ends      == {e \in getHashTableSize(IF hlen > count THEN hlen ELSE count) :
                      \/ filled(e)[count] # NoTable
                      \/ filled(e)[count - 1] = NoTable}
  IN  IF ends = {} \/ filled(Min(ends))[count] = NoTable THEN ABORT
      ELSE filled(Min(ends))[count]

\* createHistHashTable(hlen), histlen being the length of the history.
create(T, list, hash, hlen, histlen) ==
  LET n == IF hlen < 0 THEN histlen ELSE hlen IN
  IF hlen = 0 THEN NoTable
  ELSE IF hlen < 0 /\ histlen <= 0 THEN T
  ELSE IF T # NoTable /\ Len(list) < (Length(T) * 3) \div 4 THEN T
  ELSE Build(list, hash, n)

\* insertHistHashTable(id, hash[id]); id is on the list already.
insert(T, list, hash, id) ==
  IF T = NoTable THEN T
  ELSE IF Crowded(T, hash[id]) THEN Build(list, hash, Length(T))
  ELSE Put(T, id, hash[id])

-----------------------------------------------------------------------------
(* removeHistHashTable and findHistHashTable.                               *)

\* The entry becomes DELETED; it and the DELETED ones behind it become EMPTY
\* when no search has to pass them any more.
remove(T, id, hash) ==
  LET found == Distances(T, hash, {id})
      ends  == Distances(T, hash, {EMPTY})
  IN  IF T = NoTable THEN T
      ELSE IF found = {} \/ \E e \in ends : e < Min(found) THEN ABORT
      ELSE LET h    == Index(hash, Min(found), Length(T))
               next == Min({i \in 1 .. Length(T) : Probe(T, h, i) # DELETED})
               gone == {Index(h, i, Length(T)) : i \in 0 .. next - 1}
           IN  [i \in DOMAIN T |->
                  IF Probe(T, h, next) = EMPTY /\ i \in gone THEN EMPTY
                  ELSE IF i = h THEN DELETED
                  ELSE T[i]]

\* The search for one of same, the entries with the words that are looked for.
Search(T, hash, same) ==
  LET ends  == Distances(T, hash, {EMPTY})
      found == Distances(T, hash, same)
  IN  IF found = {} \/ \E e \in ends : e < Min(found) THEN EMPTY
      ELSE Probe(T, hash, Min(found))

\* It passes so many DELETED ones that the table is built anew first.
TooManyDeleted(T, hash, same) ==
  LET deleted == Distances(T, hash, {DELETED})
  IN  \E d \in deleted :
        /\ \A e \in Distances(T, hash, {EMPTY} \cup same) : d < e
        /\ Cardinality({e \in deleted : e <= d}) > Length(T) \div 16

\* findHistHashTable: the entry found, EMPTY if none, and the table.
find(T, list, hash, h, same) ==
  IF T = NoTable THEN [entry |-> EMPTY, table |-> T]
  ELSE LET T1 == IF TooManyDeleted(T, h, same) THEN Build(list, hash, Length(T)) ELSE T
       IN  [entry |-> IF T1 = ABORT THEN EMPTY ELSE Search(T1, h, same), table |-> T1]
=============================================================================
