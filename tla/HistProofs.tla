----------------------------- MODULE HistProofs -----------------------------
(***************************************************************************)
(* The history (HistHash, HistList), for every value of the constants.     *)
(*                                                                         *)
(* From bottom to top: what the operators on tables do to one that holds a *)
(* set of entries (Holds), by the arithmetic of probing and by induction   *)
(* along the list; what the operators on the history do to a well formed   *)
(* one (Histories); what a step of the shell is then (Step), in terms that *)
(* the properties speak of: a line is entered, entries are dropped; and    *)
(* from that the theorems at the end.                                      *)
(*                                                                         *)
(* Recursive functions are proved to exist (Recursion), and sets up to a   *)
(* number to reach it (Steps), without the library's theorems that take an *)
(* operator as a parameter.                                                *)
(***************************************************************************)
EXTENDS HistList, FiniteSetTheorems, SequenceTheorems, NaturalsInduction, WellFoundedInduction, TLAPS

-----------------------------------------------------------------------------
(* Numbers: the least and the greatest of a set, and division with rest.    *)

LEMMA MinIs ==
  ASSUME NEW S, S \subseteq Nat, S # {}
  PROVE  Min(S) \in S /\ \A q \in S : Min(S) <= q
<1>1. PICK x \in S : \A y \in S : ~(<<y, x>> \in OpToRel(<, Nat))
  BY NatLessThanWellFounded, WFMin
<1>2. \A y \in S : ~(y < x)  BY <1>1 DEF OpToRel
<1>3. \A y \in S : x <= y  BY <1>2
<1>. QED BY <1>3 DEF Min

LEMMA MaxIs ==
  ASSUME NEW n \in Nat, NEW S, S \subseteq 0 .. n, S # {}
  PROVE  Max(S) \in S /\ \A q \in S : q <= Max(S)
<1> DEFINE D == {n - x : x \in S}
<1>1. D \subseteq Nat /\ D # {}
  <2>1. \A x \in S : n - x \in Nat  OBVIOUS
  <2>. QED BY <2>1
<1>2. Min(D) \in D /\ \A q \in D : Min(D) <= q
  <2> HIDE DEF D
  <2>. QED BY <1>1, MinIs
<1>3. PICK x \in S : Min(D) = n - x  BY <1>2
<1>4. \A y \in S : y <= x
  <2> SUFFICES ASSUME NEW y \in S PROVE y <= x  OBVIOUS
  <2>1. n - y \in D  OBVIOUS
  <2>2. n - x <= n - y
    <3> HIDE DEF D
    <3>. QED BY <1>2, <1>3, <2>1
  <2>. QED BY <2>2
<1>. QED BY <1>4 DEF Max

LEMMA Divide ==
  ASSUME NEW L \in Nat \ {0}, NEW a \in Nat
  PROVE  (a % L) \in 0 .. L - 1 /\ a = L * (a \div L) + (a % L) /\ a \div L \in Nat
<1>1. (a % L) \in 0 .. L - 1  OBVIOUS
<1>2. a = L * (a \div L) + (a % L)  OBVIOUS
<1>3. a \div L \in Nat  OBVIOUS
<1>. QED BY <1>1, <1>2, <1>3

LEMMA DivideOnce ==
  ASSUME NEW L \in Nat \ {0}, NEW q1 \in Int, NEW q2 \in Int, NEW r1 \in 0 .. L - 1,
         NEW r2 \in 0 .. L - 1, L * q1 + r1 = L * q2 + r2
  PROVE  q1 = q2 /\ r1 = r2
OBVIOUS

\* A step of at most once around the table.
LEMMA ModAdd ==
  ASSUME NEW L \in Nat \ {0}, NEW a \in Nat, NEW d \in 0 .. L
  PROVE  (a + d) % L = IF (a % L) + d < L THEN (a % L) + d ELSE (a % L) + d - L
<1> DEFINE q == a \div L
           r == a % L
           q1 == (a + d) \div L
           r1 == (a + d) % L
<1>1. r \in 0 .. L - 1 /\ a = L * q + r /\ q \in Nat  BY Divide
<1>2. r1 \in 0 .. L - 1 /\ a + d = L * q1 + r1 /\ q1 \in Nat  BY Divide, a + d \in Nat
<1> HIDE DEF q, r, q1, r1
<1>3. CASE r + d < L
  <2>1. L * q1 + r1 = L * q + (r + d)  BY <1>1, <1>2
  <2>2. r + d \in 0 .. L - 1  BY <1>1, <1>3
  <2>3. r1 = r + d  BY <1>1, <1>2, <2>1, <2>2, DivideOnce
  <2>. QED BY <1>3, <2>3 DEF r, r1
<1>4. CASE ~(r + d < L)
  <2>1. PICK q2 \in Int : q2 = q + 1  BY <1>1
  <2>2. PICK r2 \in 0 .. L - 1 : r2 = r + d - L  BY <1>1, <1>4
  <2>3. L * q1 + r1 = L * q2 + r2  BY <1>1, <1>2, <2>1, <2>2
  <2>4. r1 = r2
    <3>1. q1 \in Int /\ r1 \in 0 .. L - 1  BY <1>2
    <3>. QED BY <2>3, <3>1, DivideOnce
  <2>. QED BY <1>4, <2>2, <2>4 DEF r, r1
<1>. QED BY <1>3, <1>4

\* Index() in terms of where the search begins.
LEMMA IndexIs ==
  ASSUME NEW L \in Nat \ {0}, NEW h \in Nat
  PROVE  \E r \in 0 .. L - 1 :
           \A d \in 0 .. L : Index(h, d, L) = IF r + d < L THEN r + d ELSE r + d - L
<1>1. (h % L) \in 0 .. L - 1  BY Divide
<1>2. \A d \in 0 .. L : Index(h, d, L) = IF (h % L) + d < L THEN (h % L) + d ELSE (h % L) + d - L
  <2> SUFFICES ASSUME NEW d \in 0 .. L
               PROVE  (h + d) % L = IF (h % L) + d < L THEN (h % L) + d ELSE (h % L) + d - L
    BY DEF Index
  <2>. QED BY ModAdd
<1>. QED BY <1>1, <1>2

LEMMA IndexIn ==
  ASSUME NEW L \in Nat \ {0}, NEW h \in Nat, NEW d \in Nat
  PROVE  Index(h, d, L) \in 0 .. L - 1
<1>1. PICK a \in Nat : a = h + d  OBVIOUS
<1>2. (a % L) \in 0 .. L - 1  BY Divide
<1>. QED BY <1>1, <1>2 DEF Index

LEMMA IndexHere ==
  ASSUME NEW L \in Nat \ {0}, NEW i \in 0 .. L - 1
  PROVE  Index(i, 0, L) = i /\ Index(i, L, L) = i
<1>1. PICK a \in Nat : a = i  OBVIOUS
<1>2. (a % L) \in 0 .. L - 1 /\ a = L * (a \div L) + (a % L) /\ a \div L \in Nat  BY Divide
<1>3. a % L = a
  <2>1. a = L * 0 + a  OBVIOUS
  <2>. QED BY <1>1, <1>2, <2>1, DivideOnce
<1>4. PICK r \in 0 .. L - 1 :
        \A d \in 0 .. L : Index(a, d, L) = IF r + d < L THEN r + d ELSE r + d - L  BY IndexIs
<1>5. Index(a, 0, L) = r /\ Index(a, L, L) = r  BY <1>4
<1>6. Index(a, 0, L) = a  BY <1>3 DEF Index
<1>. QED BY <1>1, <1>5, <1>6

\* One search after the other is one longer search.
LEMMA IndexAdd ==
  ASSUME NEW L \in Nat \ {0}, NEW h \in Nat, NEW d \in Nat, NEW e \in 0 .. L
  PROVE  Index(Index(h, d, L), e, L) = Index(h, d + e, L)
<1>1. PICK a \in Nat : a = h + d  OBVIOUS
<1>2. PICK r \in Nat : r = a % L /\ r \in 0 .. L - 1  BY Divide
<1>3. (a + e) % L = IF r + e < L THEN r + e ELSE r + e - L
  <2>1. (a + e) % L = IF (a % L) + e < L THEN (a % L) + e ELSE (a % L) + e - L  BY ModAdd
  <2>. QED BY <1>2, <2>1
<1>4. r % L = r
  <2>1. Index(r, 0, L) = r  BY <1>2, IndexHere
  <2>. QED BY <1>2, <2>1 DEF Index
<1>5. (r + e) % L = IF (r % L) + e < L THEN (r % L) + e ELSE (r % L) + e - L  BY ModAdd
<1>6. Index(h, d, L) = r  BY <1>1, <1>2 DEF Index
<1>7. Index(r, e, L) = (a + e) % L
  <2>1. Index(r, e, L) = (r + e) % L  BY DEF Index
  <2>. QED BY <1>3, <1>4, <1>5, <2>1
<1>8. Index(h, d + e, L) = (a + e) % L
  <2>1. h + (d + e) = a + e  BY <1>1
  <2>. QED BY <2>1 DEF Index
<1>. QED BY <1>6, <1>7, <1>8

\* A search looks at every place, and at each once.
LEMMA Reach ==
  ASSUME NEW L \in Nat \ {0}, NEW h \in Nat, NEW i \in 0 .. L - 1
  PROVE  \E d \in 0 .. L - 1 : Index(h, d, L) = i
<1>1. PICK r \in 0 .. L - 1 :
        \A d \in 0 .. L : Index(h, d, L) = IF r + d < L THEN r + d ELSE r + d - L  BY IndexIs
<1>2. CASE i >= r
  <2>1. i - r \in 0 .. L - 1 /\ i - r \in 0 .. L  BY <1>2
  <2>2. Index(h, i - r, L) = i  BY <1>1, <2>1
  <2>. QED BY <2>1, <2>2
<1>3. CASE i < r
  <2>1. i - r + L \in 0 .. L - 1 /\ i - r + L \in 0 .. L  BY <1>3
  <2>2. Index(h, i - r + L, L) = i  BY <1>1, <2>1
  <2>. QED BY <2>1, <2>2
<1>. QED BY <1>2, <1>3

LEMMA ReachOnce ==
  ASSUME NEW L \in Nat \ {0}, NEW h \in Nat, NEW d \in 0 .. L - 1, NEW e \in 0 .. L - 1,
         Index(h, d, L) = Index(h, e, L)
  PROVE  d = e
<1>1. PICK r \in 0 .. L - 1 :
        \A c \in 0 .. L : Index(h, c, L) = IF r + c < L THEN r + c ELSE r + c - L  BY IndexIs
<1>. QED BY <1>1

-----------------------------------------------------------------------------
(* What is done n times, one after the other.                               *)

LEMMA Steps ==
  ASSUME NEW n \in Nat, NEW K, 0 \in K, \A k \in 1 .. n : k - 1 \in K => k \in K
  PROVE  \A k \in 0 .. n : k \in K
<1> DEFINE Missed == {k \in 0 .. n : k \notin K}
<1>1. SUFFICES ASSUME Missed # {} PROVE FALSE  OBVIOUS
<1>2. Missed \subseteq Nat  OBVIOUS
<1>3. PICK m \in Missed : \A q \in Missed : m <= q
  <2> HIDE DEF Missed
  <2>. QED BY <1>1, <1>2, MinIs
<1>4. m \in 1 .. n /\ m - 1 \in 0 .. n  OBVIOUS
<1>5. m - 1 \in K
  <2> SUFFICES ASSUME m - 1 \notin K PROVE FALSE  OBVIOUS
  <2>1. m - 1 \in Missed  BY <1>4
  <2>2. m <= m - 1
    <3> HIDE DEF Missed
    <3>. QED BY <1>3, <2>1
  <2>. QED BY <1>4, <2>2
<1>. QED BY <1>4, <1>5

\* The function that such a definition by recursion chooses exists.
Defined(X, a, n, G) ==
  \E f \in [0 .. n -> X] : f[0] = a /\ \A k \in 1 .. n : f[k] = G[k][f[k - 1]]

LEMMA Recursion ==
  ASSUME NEW X, NEW a \in X, NEW n \in Nat, NEW G \in [1 .. n -> [X -> X]]
  PROVE  Defined(X, a, n, G)
<1> DEFINE Is(f, m) == f \in [0 .. m -> X] /\ f[0] = a /\ \A k \in 1 .. m : f[k] = G[k][f[k - 1]]
           K == {m \in 0 .. n : \E f : Is(f, m)}
<1>1. 0 \in K
  <2>1. Is([k \in 0 .. 0 |-> a], 0)  OBVIOUS
  <2> HIDE DEF Is
  <2>. QED BY <2>1
<1>2. ASSUME NEW m \in 1 .. n, m - 1 \in K PROVE m \in K
  <2>1. PICK f : Is(f, m - 1)  BY <1>2
  <2>2. G[m] \in [X -> X] /\ m - 1 \in 0 .. m - 1  OBVIOUS
  <2>3. f[m - 1] \in X  BY <2>1, <2>2
  <2>4. G[m][f[m - 1]] \in X  BY <2>2, <2>3
  <2> DEFINE g == [k \in 0 .. m |-> IF k = m THEN G[m][f[m - 1]] ELSE f[k]]
  <2>5. g \in [0 .. m -> X]
    <3>1. \A k \in 0 .. m : k # m => k \in 0 .. m - 1  OBVIOUS
    <3>. QED BY <2>1, <2>4, <3>1
  <2>6. g[0] = a  BY <2>1
  <2>7. ASSUME NEW k \in 1 .. m PROVE g[k] = G[k][g[k - 1]]
    <3>1. g[k - 1] = f[k - 1]  OBVIOUS
    <3>2. CASE k = m  BY <3>1, <3>2
    <3>3. CASE k # m
      <4>1. k \in 1 .. m - 1  BY <3>3
      <4>2. g[k] = f[k]  BY <3>3
      <4>. QED BY <2>1, <3>1, <4>1, <4>2
    <3>. QED BY <3>2, <3>3
  <2> HIDE DEF g
  <2>8. Is(g, m)  BY <2>5, <2>6, <2>7
  <2> HIDE DEF Is
  <2>. QED BY <2>8
<1>3. \A m \in 0 .. n : m \in K
  <2> HIDE DEF K
  <2>. QED BY <1>1, <1>2, Steps
<1>4. PICK f : Is(f, n)
  <2>1. n \in K  BY <1>3
  <2> HIDE DEF Is
  <2>. QED BY <2>1
<1>. QED BY <1>4 DEF Defined
-----------------------------------------------------------------------------
(* The table.                                                               *)

\* A table of L entries that holds the entries R of the history, each at one
\* place, where the search for its hash finds it.
HoldsIn(L, T, R, hash) ==
  /\ T \in [0 .. L - 1 -> {EMPTY, DELETED} \cup R]
  /\ \A id \in R : \E d \in 0 .. L - 1 :
       /\ \A i \in 0 .. L - 1 : T[i] = id <=> i = Index(hash[id], d, L)
       /\ \A e \in 0 .. d - 1 : T[Index(hash[id], e, L)] # EMPTY

Holds(T, R, hash) == \E L \in Nat \ {0} : HoldsIn(L, T, R, hash)

\* Entries of the history, and their hash values.
Hashed(R, hash) == R \subseteq Nat \ {0} /\ \A id \in R : hash[id] \in Nat

LEMMA LengthIs ==
  ASSUME NEW L \in Nat \ {0}, NEW T, DOMAIN T = 0 .. L - 1
  PROVE  Length(T) = L
<1>1. Cardinality(0 .. L - 1) = L  BY FS_Interval
<1>. QED BY <1>1 DEF Length

LEMMA NotATable ==
  ASSUME NEW L \in Nat \ {0}, NEW T, DOMAIN T = 0 .. L - 1
  PROVE  T # NoTable /\ T # ABORT
<1>1. 0 \in DOMAIN T /\ -1 \notin DOMAIN T  OBVIOUS
<1>2. DOMAIN NoTable = {}
  <2>1. \A s : s = << >> => DOMAIN s = {}  OBVIOUS
  <2>. QED BY <2>1 DEF NoTable
<1>3. DOMAIN ABORT = {-1}  BY DEF ABORT
<1>. QED BY <1>1, <1>2, <1>3

LEMMA NoTableNotAbort == NoTable # ABORT
<1>1. DOMAIN NoTable = {}
  <2>1. \A s : s = << >> => DOMAIN s = {}  OBVIOUS
  <2>. QED BY <2>1 DEF NoTable
<1>2. DOMAIN ABORT = {-1}  BY DEF ABORT
<1>. QED BY <1>1, <1>2

LEMMA HoldsTable ==
  ASSUME NEW T, NEW R, NEW hash, Holds(T, R, hash)
  PROVE  T # NoTable /\ T # ABORT /\ \E L \in Nat \ {0} : HoldsIn(L, T, R, hash) /\ Length(T) = L
<1>1. PICK L \in Nat \ {0} : HoldsIn(L, T, R, hash)  BY DEF Holds
<1>2. DOMAIN T = 0 .. L - 1  BY <1>1 DEF HoldsIn
<1>. QED BY <1>1, <1>2, LengthIs, NotATable

\* Only the hash values of the entries it holds matter.
LEMMA HoldsSame ==
  ASSUME NEW T, NEW R, NEW hash, NEW hash2, Holds(T, R, hash), \A id \in R : hash2[id] = hash[id]
  PROVE  Holds(T, R, hash2)
<1>1. PICK L \in Nat \ {0} : HoldsIn(L, T, R, hash)  BY DEF Holds
<1>2. HoldsIn(L, T, R, hash2)  BY <1>1 DEF HoldsIn
<1>. QED BY <1>2 DEF Holds

LEMMA EmptyHolds ==
  ASSUME NEW L \in Nat \ {0}, NEW hash
  PROVE  HoldsIn(L, EmptyTable(L), {}, hash)
BY DEF HoldsIn, EmptyTable

LEMMA PutHolds ==
  ASSUME NEW L \in Nat \ {0}, NEW R, NEW hash, NEW T, HoldsIn(L, T, R, hash), Hashed(R, hash),
         NEW id \in (Nat \ {0}) \ R, hash[id] \in Nat, ~Crowded(T, hash[id])
  PROVE  HoldsIn(L, Put(T, id, hash[id]), R \cup {id}, hash)
<1>1. DOMAIN T = 0 .. L - 1 /\ Length(T) = L  BY LengthIs DEF HoldsIn
<1> DEFINE h == hash[id]
           Free == Distances(T, h, {EMPTY, DELETED})
           d0 == Min(Free)
<1>2. Free = {d \in 0 .. L - 1 : T[Index(h, d, L)] \in {EMPTY, DELETED}}
  BY <1>1 DEF Distances, Probe
<1>3. Free # {}
  <2>1. PICK d \in 0 .. L \div 10 : T[Index(h, d, L)] \in {EMPTY, DELETED}
    BY <1>1 DEF Crowded, Probe
  <2>2. L \div 10 <= L - 1 /\ L \div 10 \in Nat  OBVIOUS
  <2>3. d \in 0 .. L - 1  BY <2>2
  <2>. QED BY <1>2, <2>1, <2>3
<1>4. d0 \in Free /\ \A d \in Free : d0 <= d
  <2>1. Free \subseteq Nat  BY <1>2
  <2> HIDE DEF Free
  <2>. QED BY <1>3, <2>1, MinIs
<1>5. d0 \in 0 .. L - 1 /\ T[Index(h, d0, L)] \in {EMPTY, DELETED}
  BY <1>2, <1>4
<1>6. \A e \in 0 .. d0 - 1 : T[Index(h, e, L)] \notin {EMPTY, DELETED}
  <2> SUFFICES ASSUME NEW e \in 0 .. d0 - 1, T[Index(h, e, L)] \in {EMPTY, DELETED} PROVE FALSE
    OBVIOUS
  <2>1. e \in 0 .. L - 1 /\ e < d0  BY <1>5
  <2>2. e \in Free  BY <1>2, <2>1
  <2>. QED BY <1>4, <1>5, <2>1, <2>2
<1> DEFINE p == Index(h, d0, L)
           U == [T EXCEPT ![p] = id]
<1>7. Put(T, id, h) = U  BY <1>1 DEF Put
<1>8. p \in 0 .. L - 1
  <2>1. d0 \in Nat  BY <1>5
  <2> HIDE DEF d0
  <2>. QED BY <2>1, IndexIn
<1>9. U \in [0 .. L - 1 -> {EMPTY, DELETED} \cup (R \cup {id})]
  BY <1>8 DEF HoldsIn
<1>10. \A i \in 0 .. L - 1 : U[i] = IF i = p THEN id ELSE T[i]
  BY <1>8 DEF HoldsIn
<1>11. id # EMPTY /\ id # DELETED /\ id \notin R  BY DEF EMPTY, DELETED
<1> HIDE DEF Free, d0, U
<1>12. ASSUME NEW k \in R \cup {id}
       PROVE  \E d \in 0 .. L - 1 :
                /\ \A i \in 0 .. L - 1 : U[i] = k <=> i = Index(hash[k], d, L)
                /\ \A e \in 0 .. d - 1 : U[Index(hash[k], e, L)] # EMPTY
  <2>1. CASE k = id
    <3>1. \A i \in 0 .. L - 1 : T[i] # id  BY <1>11 DEF HoldsIn
    <3>2. \A i \in 0 .. L - 1 : U[i] = k <=> i = Index(hash[k], d0, L)
      BY <1>10, <2>1, <3>1
    <3>3. \A e \in 0 .. d0 - 1 : U[Index(hash[k], e, L)] # EMPTY
      <4> SUFFICES ASSUME NEW e \in 0 .. d0 - 1 PROVE U[Index(h, e, L)] # EMPTY  BY <2>1
      <4>0. e \in Nat  BY <1>5
      <4>1. Index(h, e, L) \in 0 .. L - 1  BY <4>0, IndexIn
      <4>. QED BY <1>6, <1>10, <1>11, <4>1
    <3>. QED BY <1>5, <3>2, <3>3
  <2>2. CASE k # id
    <3>1. k \in R /\ hash[k] \in Nat /\ k # EMPTY /\ k # DELETED
      BY <2>2 DEF Hashed, EMPTY, DELETED
    <3>2. PICK d \in 0 .. L - 1 :
            /\ \A i \in 0 .. L - 1 : T[i] = k <=> i = Index(hash[k], d, L)
            /\ \A e \in 0 .. d - 1 : T[Index(hash[k], e, L)] # EMPTY
      BY <3>1 DEF HoldsIn
    <3>3. \A i \in 0 .. L - 1 : U[i] = k <=> i = Index(hash[k], d, L)
      BY <1>5, <1>8, <1>10, <2>2, <3>1, <3>2
    <3>4. \A e \in 0 .. d - 1 : U[Index(hash[k], e, L)] # EMPTY
      <4> SUFFICES ASSUME NEW e \in 0 .. d - 1 PROVE U[Index(hash[k], e, L)] # EMPTY  OBVIOUS
      <4>0. e \in Nat  OBVIOUS
      <4>1. Index(hash[k], e, L) \in 0 .. L - 1  BY <3>1, <4>0, IndexIn
      <4>. QED BY <1>10, <1>11, <3>2, <4>1
    <3>. QED BY <3>3, <3>4
  <2>. QED BY <2>1, <2>2
<1>. QED BY <1>7, <1>9, <1>12 DEF HoldsIn
\* A table filled from the list, as far as no entry finds it crowded.
LEMMA FilledHolds ==
  ASSUME NEW L \in Nat \ {0}, NEW list \in Seq(Nat), NEW hash, Hashed(Range(list), hash),
         IsInjective(list)
  PROVE  \A k \in 0 .. Len(list) :
           LET T == Filled(list, hash, L)[k] IN
           T = NoTable \/ HoldsIn(L, T, {list[i] : i \in 1 .. k}, hash)
<1> DEFINE n == Len(list)
           X == [0 .. L - 1 -> {EMPTY, DELETED} \cup Range(list)] \cup {NoTable}
           Step(T, k) == IF T = NoTable \/ Crowded(T, hash[list[k]]) THEN NoTable
                         ELSE Put(T, list[k], hash[list[k]])
           Is(f) == f = [k \in 0 .. n |-> IF k = 0 THEN EmptyTable(L)
                                          ELSE Step(f[k - 1], k)]
<1>1. n \in Nat /\ \A k \in 1 .. n : list[k] \in Range(list) /\ list[k] \in Nat \ {0}
                                     /\ hash[list[k]] \in Nat
  BY DEF Range, Hashed
<1>2. EmptyTable(L) \in X  BY DEF EmptyTable
<1>3. ASSUME NEW k \in 1 .. n, NEW T \in X PROVE Step(T, k) \in X
  <2>1. CASE T = NoTable  BY <2>1
  <2>2. CASE T # NoTable
    <3>1. T \in [0 .. L - 1 -> {EMPTY, DELETED} \cup Range(list)]  BY <2>2
    <3>2. Put(T, list[k], hash[list[k]]) \in [0 .. L - 1 -> {EMPTY, DELETED} \cup Range(list)]
      BY <1>1, <3>1 DEF Put
    <3>. QED BY <3>2
  <2>. QED BY <2>1, <2>2
<1> DEFINE G == [k \in 1 .. n |-> [T \in X |-> Step(T, k)]]
<1>4. G \in [1 .. n -> [X -> X]]
  <2> HIDE DEF X, Step
  <2>. QED BY <1>3
<1>5. PICK g \in [0 .. n -> X] : g[0] = EmptyTable(L) /\ \A k \in 1 .. n : g[k] = G[k][g[k - 1]]
  <2>1. Defined(X, EmptyTable(L), n, G)
    <3> HIDE DEF X, G, n
    <3>. QED BY <1>1, <1>2, <1>4, Recursion
  <2> HIDE DEF X, G, n
  <2>. QED BY <2>1 DEF Defined
<1>6. Is(g)
  <2>1. \A k \in 1 .. n : g[k] = Step(g[k - 1], k)
    <3> SUFFICES ASSUME NEW k \in 1 .. n PROVE g[k] = Step(g[k - 1], k)  OBVIOUS
    <3>1. k - 1 \in 0 .. n  BY <1>1
    <3>2. g[k - 1] \in X  BY <3>1
    <3> HIDE DEF X, Step
    <3>. QED BY <1>5, <3>2
  <2>2. \A k \in 0 .. n : k # 0 => k \in 1 .. n  BY <1>1
  <2> HIDE DEF X, Step
  <2>. QED BY <1>5, <2>1, <2>2
<1> DEFINE F == Filled(list, hash, L)
<1>7. F = CHOOSE f : Is(f)  BY Zenon DEF Filled
<1>8. Is(F)
  <2> HIDE DEF Is, F
  <2>. QED BY <1>6, <1>7
<1> DEFINE P(k) == {list[i] : i \in 1 .. k}
           K == {k \in 0 .. n : F[k] = NoTable \/ HoldsIn(L, F[k], P(k), hash)}
<1>a. F[0] = EmptyTable(L) /\ \A k \in 1 .. n : F[k] = Step(F[k - 1], k)
  <2>1. \A k \in 1 .. n : k \in 0 .. n /\ k # 0  OBVIOUS
  <2> HIDE DEF F, Step, n
  <2>. QED BY <1>1, <1>8, <2>1
<1>9. 0 \in K
  <2>1. P(0) = {}  OBVIOUS
  <2>2. HoldsIn(L, EmptyTable(L), {}, hash)  BY EmptyHolds
  <2>3. F[0] = EmptyTable(L)  BY <1>a
  <2> HIDE DEF F, P
  <2>4. HoldsIn(L, F[0], P(0), hash)  BY <2>1, <2>2, <2>3
  <2>. QED BY <1>1, <2>4
<1>10. ASSUME NEW k \in 1 .. n, k - 1 \in K PROVE k \in K
  <2>1. F[k] = Step(F[k - 1], k)  BY <1>a
  <2> HIDE DEF F
  <2>2. CASE F[k - 1] = NoTable \/ Crowded(F[k - 1], hash[list[k]])
    BY <2>1, <2>2
  <2>3. CASE ~(F[k - 1] = NoTable \/ Crowded(F[k - 1], hash[list[k]]))
    <3>1. HoldsIn(L, F[k - 1], P(k - 1), hash)  BY <1>10, <2>3
    <3>2. \A i \in 1 .. k - 1 : i \in 1 .. n /\ list[i] # list[k]
      BY <1>1 DEF IsInjective
    <3>3. list[k] \in (Nat \ {0}) \ P(k - 1)  BY <1>1, <3>2
    <3>4. Hashed(P(k - 1), hash)
      <4>1. P(k - 1) \subseteq Range(list)  BY <1>1, <3>2
      <4>. QED BY <4>1 DEF Hashed
    <3>5. F[k] = Put(F[k - 1], list[k], hash[list[k]])  BY <2>1, <2>3
    <3>6. P(k - 1) \cup {list[k]} = P(k)
      <4>1. \A i \in 1 .. k : i = k \/ i \in 1 .. k - 1  OBVIOUS
      <4>. QED BY <4>1
    <3> HIDE DEF P
    <3>7. HoldsIn(L, F[k], P(k - 1) \cup {list[k]}, hash)
      <4>1. PICK T, R, id : T = F[k - 1] /\ R = P(k - 1) /\ id = list[k]  OBVIOUS
      <4>2. HoldsIn(L, T, R, hash) /\ Hashed(R, hash) /\ id \in (Nat \ {0}) \ R
        BY <3>1, <3>3, <3>4, <4>1
      <4>3. hash[id] \in Nat /\ ~Crowded(T, hash[id])  BY <1>1, <2>3, <4>1
      <4>4. HoldsIn(L, Put(T, id, hash[id]), R \cup {id}, hash)  BY <4>2, <4>3, PutHolds
      <4>. QED BY <3>5, <4>1, <4>4
    <3>. QED BY <3>6, <3>7
  <2>. QED BY <2>2, <2>3
<1>11. \A k \in 0 .. n : k \in K
  <2> HIDE DEF K
  <2>. QED BY <1>1, <1>9, <1>10, Steps
<1>. QED BY <1>11

LEMMA SizeIs == \A e \in 0 .. MaxTableLog : Size[e] \in Nat \ {0}
<1> DEFINE n == MaxTableLog
           X == Nat \ {0}
           G == [k \in 1 .. n |-> [x \in X |-> 2 * x]]
           Is(f) == f = [e \in 0 .. n |-> IF e = 0 THEN 1 ELSE 2 * f[e - 1]]
<1>1. n \in Nat  BY HistHashAssumption
<1>2. G \in [1 .. n -> [X -> X]]  OBVIOUS
<1>3. PICK g \in [0 .. n -> X] : g[0] = 1 /\ \A k \in 1 .. n : g[k] = G[k][g[k - 1]]
  <2>1. 1 \in X  OBVIOUS
  <2> HIDE DEF X, G
  <2>2. Defined(X, 1, n, G)  BY <1>1, <1>2, <2>1, Recursion
  <2>. QED BY <2>2 DEF Defined
<1>4. Is(g)
  <2>1. \A k \in 1 .. n : g[k] = 2 * g[k - 1]
    <3> SUFFICES ASSUME NEW k \in 1 .. n PROVE g[k] = 2 * g[k - 1]  OBVIOUS
    <3>1. k - 1 \in 0 .. n  BY <1>1
    <3>2. g[k - 1] \in X  BY <3>1
    <3> HIDE DEF X
    <3>. QED BY <1>3, <3>2
  <2>2. \A k \in 0 .. n : k # 0 => k \in 1 .. n  BY <1>1
  <2>. QED BY <1>3, <2>1, <2>2
<1>5. Is(Size)
  <2>1. Size = CHOOSE f : Is(f)  BY Zenon DEF Size
  <2> HIDE DEF Is
  <2>. QED BY <1>4, <2>1
<1> DEFINE K == {e \in 0 .. n : Size[e] \in Nat \ {0}}
<1>6. 0 \in K  BY <1>1, <1>5
<1>7. \A k \in 1 .. n : k - 1 \in K => k \in K  BY <1>1, <1>5
<1>8. \A e \in 0 .. n : e \in K
  <2> HIDE DEF K
  <2>. QED BY <1>1, <1>6, <1>7, Steps
<1>. QED BY <1>8
\* A table that may be in use: none, none left after an assertion, or a good one.
Good(T, R, hash) == T = NoTable \/ T = ABORT \/ Holds(T, R, hash)

LEMMA BuildHolds ==
  ASSUME NEW list \in Seq(Nat), NEW hash, Hashed(Range(list), hash), IsInjective(list), NEW hlen
  PROVE  Build(list, hash, hlen) = ABORT \/ Holds(Build(list, hash, hlen), Range(list), hash)
<1> DEFINE n       == Len(list)
           fill(e) == Filled(list, hash, Size[e])
           ends    == {e \in getHashTableSize(IF hlen > n THEN hlen ELSE n) :
                         \/ fill(e)[n] # NoTable
                         \/ fill(e)[n - 1] = NoTable}
<1>1. Build(list, hash, hlen) = IF ends = {} \/ fill(Min(ends))[n] = NoTable THEN ABORT
                                ELSE fill(Min(ends))[n]
  BY Zenon DEF Build
<1>2. CASE ends = {} \/ fill(Min(ends))[n] = NoTable
  <2> HIDE DEF fill, ends
  <2>. QED BY <1>1, <1>2
<1>3. CASE ends # {} /\ fill(Min(ends))[n] # NoTable
  <2>1. ends \subseteq MinTableLog .. MaxTableLog  BY DEF getHashTableSize
  <2>2. ends \subseteq Nat /\ ends \subseteq 0 .. MaxTableLog
    <3> HIDE DEF ends
    <3>. QED BY <2>1, HistHashAssumption
  <2>3. PICK m : m = Min(ends)  OBVIOUS
  <2>4. m \in 0 .. MaxTableLog
    <3> HIDE DEF ends
    <3>. QED BY <1>3, <2>2, <2>3, MinIs
  <2>5. Size[m] \in Nat \ {0}  BY <2>4, SizeIs
  <2>6. n \in 0 .. n  OBVIOUS
  <2>7. LET T == Filled(list, hash, Size[m])[n] IN
        T = NoTable \/ HoldsIn(Size[m], T, {list[i] : i \in 1 .. n}, hash)
    BY <2>5, <2>6, FilledHolds
  <2>8. {list[i] : i \in 1 .. n} = Range(list)  BY DEF Range
  <2>9. HoldsIn(Size[m], fill(m)[n], Range(list), hash)
    <3>1. fill(m)[n] # NoTable
      <4> HIDE DEF fill, ends
      <4>. QED BY <1>3, <2>3
    <3>. QED BY <2>7, <2>8, <3>1
  <2>10. Build(list, hash, hlen) = fill(m)[n]
    <3> HIDE DEF fill, ends
    <3>. QED BY <1>1, <1>3, <2>3
  <2> HIDE DEF fill, ends
  <2>. QED BY <2>5, <2>9, <2>10 DEF Holds
<1>. QED BY <1>2, <1>3

LEMMA RemoveHolds ==
  ASSUME NEW L \in Nat \ {0}, NEW R, NEW hash, NEW T, HoldsIn(L, T, R, hash), Hashed(R, hash),
         NEW id \in R
  PROVE  HoldsIn(L, remove(T, id, hash[id]), R \ {id}, hash)
<1> DEFINE h0 == hash[id]
<1>1. DOMAIN T = 0 .. L - 1 /\ Length(T) = L /\ T # NoTable  BY LengthIs, NotATable DEF HoldsIn
<1>2. h0 \in Nat /\ id # EMPTY /\ id # DELETED  BY DEF Hashed, EMPTY, DELETED
<1>3. PICK d \in 0 .. L - 1 :
        /\ \A i \in 0 .. L - 1 : T[i] = id <=> i = Index(h0, d, L)
        /\ \A e \in 0 .. d - 1 : T[Index(h0, e, L)] # EMPTY
  BY DEF HoldsIn
<1> DEFINE found == Distances(T, h0, {id})
           ends  == Distances(T, h0, {EMPTY})
<1>4. found = {d}
  <2>1. \A e \in 0 .. L - 1 : Index(h0, e, L) \in 0 .. L - 1
    <3>1. \A e \in 0 .. L - 1 : e \in Nat  OBVIOUS
    <3>. QED BY <1>2, <3>1, IndexIn
  <2>2. \A e \in 0 .. L - 1 : T[Index(h0, e, L)] = id <=> e = d
    BY <1>2, <1>3, <2>1, ReachOnce
  <2>3. found = {e \in 0 .. L - 1 : T[Index(h0, e, L)] \in {id}}
    BY <1>1 DEF Distances, Probe
  <2>. QED BY <2>2, <2>3
<1>5. Min(found) = d
  <2> HIDE DEF found
  <2>1. found \subseteq Nat /\ found # {}
    <3>1. d \in Nat  OBVIOUS
    <3>. QED BY <1>4, <3>1
  <2>2. Min(found) \in found  BY <2>1, MinIs
  <2>. QED BY <1>4, <2>2
<1>6. ~\E e \in ends : e < d
  <2>1. ends = {e \in 0 .. L - 1 : T[Index(h0, e, L)] \in {EMPTY}}
    BY <1>1 DEF Distances, Probe
  <2> HIDE DEF ends
  <2>. QED BY <1>3, <2>1
<1> DEFINE h    == Index(h0, d, L)
           live == {i \in 1 .. L : T[Index(h, i, L)] # DELETED}
           next == Min(live)
           gone == {Index(h, i, L) : i \in 0 .. next - 1}
           U    == [i \in DOMAIN T |-> IF T[Index(h, next, L)] = EMPTY /\ i \in gone THEN EMPTY
                                       ELSE IF i = h THEN DELETED ELSE T[i]]
<1>7. remove(T, id, h0) = U
  <2>1. found # {} /\ ~(found = {} \/ \E e \in ends : e < Min(found))
    <3> HIDE DEF found, ends
    <3>. QED BY <1>4, <1>5, <1>6
  <2>. QED BY <1>1, <1>5, <2>1 DEF remove, Probe
<1> HIDE DEF found, ends
<1>8. h \in 0 .. L - 1 /\ T[h] = id
  <2>1. d \in Nat  OBVIOUS
  <2>. QED BY <1>2, <1>3, <2>1, IndexIn
<1>9. L \in live  BY <1>2, <1>8, IndexHere
<1>10. next \in live /\ \A i \in live : next <= i
  <2>1. live \subseteq Nat  OBVIOUS
  <2> HIDE DEF live
  <2>. QED BY <1>9, <2>1, MinIs
<1>11. next \in 1 .. L /\ T[Index(h, next, L)] # DELETED  BY <1>10
<1>12. \A i \in 1 .. next - 1 : T[Index(h, i, L)] = DELETED
  <2> SUFFICES ASSUME NEW i \in 1 .. next - 1, T[Index(h, i, L)] # DELETED PROVE FALSE  OBVIOUS
  <2>1. i \in 1 .. L /\ i < next  BY <1>11
  <2>2. i \in live  BY <2>1
  <2> HIDE DEF live, next
  <2>. QED BY <1>10, <1>11, <2>1, <2>2
<1>13. \A i \in gone : T[i] \in {id, DELETED}
  <2> SUFFICES ASSUME NEW g \in 0 .. next - 1 PROVE T[Index(h, g, L)] \in {id, DELETED}  OBVIOUS
  <2>1. CASE g = 0  BY <1>8, <2>1, IndexHere
  <2>2. CASE g # 0
    <3>1. g \in 1 .. next - 1  BY <2>2
    <3>. QED BY <1>12, <3>1
  <2>. QED BY <2>1, <2>2
<1>14. \A i \in 0 .. L - 1 : U[i] = IF T[Index(h, next, L)] = EMPTY /\ i \in gone THEN EMPTY
                                    ELSE IF i = h THEN DELETED ELSE T[i]
  BY <1>1
<1> HIDE DEF U, next, live
<1>15. U \in [0 .. L - 1 -> {EMPTY, DELETED} \cup (R \ {id})]
  <2>1. \A i \in 0 .. L - 1 : T[i] = id => i = h  BY <1>3
  <2>2. \A i \in 0 .. L - 1 : U[i] \in {EMPTY, DELETED} \cup (R \ {id})
    <3> HIDE DEF gone, h
    <3>. QED BY <1>14, <2>1 DEF HoldsIn
  <2>3. DOMAIN U = 0 .. L - 1 /\ U = [i \in 0 .. L - 1 |-> U[i]]  BY <1>1 DEF U
  <2>. QED BY <2>2, <2>3
<1>16. ASSUME NEW k \in R \ {id}
       PROVE  \E c \in 0 .. L - 1 :
                /\ \A i \in 0 .. L - 1 : U[i] = k <=> i = Index(hash[k], c, L)
                /\ \A e \in 0 .. c - 1 : U[Index(hash[k], e, L)] # EMPTY
  <2>1. hash[k] \in Nat /\ k # EMPTY /\ k # DELETED /\ k # id  BY DEF Hashed, EMPTY, DELETED
  <2>2. PICK c \in 0 .. L - 1 :
          /\ \A i \in 0 .. L - 1 : T[i] = k <=> i = Index(hash[k], c, L)
          /\ \A e \in 0 .. c - 1 : T[Index(hash[k], e, L)] # EMPTY
    BY DEF HoldsIn
  <2>3. \A i \in 0 .. L - 1 : U[i] = k <=> T[i] = k
    <3> SUFFICES ASSUME NEW i \in 0 .. L - 1 PROVE U[i] = k <=> T[i] = k  OBVIOUS
    <3>1. i \in gone => T[i] # k  BY <1>13, <2>1
    <3>2. i = h => T[i] # k  BY <1>8, <2>1
    <3> HIDE DEF gone, h
    <3>. QED BY <1>14, <2>1, <3>1, <3>2
  <2>4. ASSUME NEW e \in 0 .. c - 1, U[Index(hash[k], e, L)] = EMPTY PROVE FALSE
    <3> DEFINE j == Index(hash[k], e, L)
    <3>0. e \in Nat /\ e < c  OBVIOUS
    <3>1. j \in 0 .. L - 1  BY <2>1, <3>0, IndexIn
    <3>2. T[j] # EMPTY  BY <2>2
    <3>3. T[Index(h, next, L)] = EMPTY /\ j \in gone
      <4>1. U[j] = EMPTY  BY <2>4
      <4> HIDE DEF gone, h, j
      <4>. QED BY <1>14, <3>1, <3>2, <4>1 DEF EMPTY, DELETED
    <3>4. PICK g \in 0 .. next - 1 : j = Index(h, g, L)  BY <3>3
    <3>5. g \in Nat /\ next - g \in 0 .. L /\ next \in Nat  BY <1>11
    <3>6. \A x \in 0 .. L : Index(hash[k], e + x, L) = Index(h, g + x, L)
      <4> SUFFICES ASSUME NEW x \in 0 .. L
                   PROVE  Index(hash[k], e + x, L) = Index(h, g + x, L)  OBVIOUS
      <4>1. Index(j, x, L) = Index(hash[k], e + x, L)  BY <2>1, <3>0, IndexAdd
      <4>2. h \in Nat  BY <1>8
      <4>3. Index(Index(h, g, L), x, L) = Index(h, g + x, L)
        <5> HIDE DEF h
        <5>. QED BY <3>5, <4>2, IndexAdd
      <4>. QED BY <3>4, <4>1, <4>3
    <3>7. CASE e + (next - g) < c
      <4>1. e + (next - g) \in 0 .. c - 1  BY <3>0, <3>5, <3>7
      <4>2. Index(hash[k], e + (next - g), L) = Index(h, g + (next - g), L)  BY <3>5, <3>6
      <4>3. g + (next - g) = next  BY <3>5
      <4>. QED BY <2>2, <3>3, <4>1, <4>2, <4>3
    <3>8. CASE e + (next - g) = c
      <4>1. Index(hash[k], e + (next - g), L) = Index(h, g + (next - g), L)  BY <3>5, <3>6
      <4>2. g + (next - g) = next  BY <3>5
      <4>3. T[Index(hash[k], c, L)] = k
        <5>1. c \in Nat  OBVIOUS
        <5>2. Index(hash[k], c, L) \in 0 .. L - 1  BY <2>1, <5>1, IndexIn
        <5>. QED BY <2>2, <5>2
      <4>. QED BY <2>1, <3>3, <3>8, <4>1, <4>2, <4>3
    <3>9. CASE e + (next - g) > c
      <4>1. c - e \in 0 .. L /\ g + (c - e) \in 0 .. next - 1 /\ e + (c - e) = c
        BY <3>0, <3>5, <3>9
      <4>2. Index(hash[k], c, L) = Index(h, g + (c - e), L)  BY <3>6, <4>1
      <4>3. Index(hash[k], c, L) \in gone  BY <4>1, <4>2
      <4>4. T[Index(hash[k], c, L)] = k
        <5>1. c \in Nat  OBVIOUS
        <5>2. Index(hash[k], c, L) \in 0 .. L - 1  BY <2>1, <5>1, IndexIn
        <5>. QED BY <2>2, <5>2
      <4> HIDE DEF gone
      <4>. QED BY <1>13, <2>1, <4>3, <4>4
    <3>. QED BY <3>0, <3>5, <3>7, <3>8, <3>9
  <2>. QED BY <2>2, <2>3, <2>4
<1>. QED BY <1>7, <1>15, <1>16 DEF HoldsIn
\* A search finds one of the entries looked for, and does if there is one.
LEMMA SearchFinds ==
  ASSUME NEW T, NEW R, NEW hash, Holds(T, R, hash), Hashed(R, hash), NEW h \in Nat,
         NEW same \in SUBSET R
  PROVE  /\ Search(T, h, same) \in same \cup {EMPTY}
         /\ \A id \in same : hash[id] = h => Search(T, h, same) # EMPTY
<1>1. PICK L \in Nat \ {0} : HoldsIn(L, T, R, hash) /\ Length(T) = L  BY HoldsTable
<1> DEFINE found == Distances(T, h, same)
           ends  == Distances(T, h, {EMPTY})
<1>2. found = {e \in 0 .. L - 1 : T[Index(h, e, L)] \in same}
  BY <1>1 DEF Distances, Probe
<1>3. ends = {e \in 0 .. L - 1 : T[Index(h, e, L)] \in {EMPTY}}
  BY <1>1 DEF Distances, Probe
<1>4. Search(T, h, same) = IF found = {} \/ \E e \in ends : e < Min(found) THEN EMPTY
                           ELSE T[Index(h, Min(found), L)]
  BY <1>1 DEF Search, Probe
<1>5. found \subseteq Nat  BY <1>2
<1>6. found # {} => Min(found) \in found /\ \A e \in found : Min(found) <= e
  <2> HIDE DEF found
  <2>. QED BY <1>5, MinIs
<1>7. found # {} => T[Index(h, Min(found), L)] \in same
  <2> HIDE DEF found
  <2>. QED BY <1>2, <1>6
<1>8. EMPTY \notin same  BY DEF Hashed, EMPTY
<1>9. ASSUME NEW id \in same, hash[id] = h
      PROVE  found # {} /\ ~\E e \in ends : e < Min(found)
  <2>1. PICK d \in 0 .. L - 1 :
          /\ \A i \in 0 .. L - 1 : T[i] = id <=> i = Index(h, d, L)
          /\ \A e \in 0 .. d - 1 : T[Index(h, e, L)] # EMPTY
    BY <1>1, <1>9 DEF HoldsIn
  <2>2. Index(h, d, L) \in 0 .. L - 1
    <3>1. d \in Nat  OBVIOUS
    <3>. QED BY <3>1, IndexIn
  <2>3. d \in found  BY <1>2, <2>1, <2>2
  <2> HIDE DEF found, ends
  <2>4. Min(found) \in Nat /\ Min(found) <= d  BY <1>5, <1>6, <2>3
  <2>. QED BY <1>3, <2>1, <2>3, <2>4
<1> HIDE DEF found, ends
<1>. QED BY <1>4, <1>7, <1>8, <1>9

LEMMA CreateHolds ==
  ASSUME NEW list \in Seq(Nat), NEW hash, Hashed(Range(list), hash), IsInjective(list),
         NEW hlen, NEW n, NEW T, Good(T, Range(list), hash)
  PROVE  /\ Good(create(T, list, hash, hlen, n), Range(list), hash)
         /\ create(T, list, hash, hlen, n) = NoTable => hlen = 0 \/ (hlen < 0 /\ n <= 0)
<1> DEFINE m == IF hlen < 0 THEN n ELSE hlen
<1>1. Build(list, hash, m) = ABORT \/ Holds(Build(list, hash, m), Range(list), hash)
  BY BuildHolds
<1>2. Build(list, hash, m) # NoTable  BY <1>1, HoldsTable, NoTableNotAbort
<1>3. create(T, list, hash, hlen, n) =
        IF hlen = 0 THEN NoTable
        ELSE IF hlen < 0 /\ n <= 0 THEN T
        ELSE IF T # NoTable /\ Len(list) < (Length(T) * 3) \div 4 THEN T
        ELSE Build(list, hash, m)
  BY Zenon DEF create
<1>. QED BY <1>1, <1>2, <1>3, Zenon DEF Good

LEMMA InsertHolds ==
  ASSUME NEW list \in Seq(Nat), NEW hash, Hashed(Range(list), hash), IsInjective(list),
         NEW id \in Range(list), NEW T, Good(T, Range(list) \ {id}, hash), T # ABORT
  PROVE  Good(insert(T, list, hash, id), Range(list), hash)
<1>1. CASE T = NoTable  BY <1>1 DEF insert, Good
<1>2. CASE T # NoTable /\ Crowded(T, hash[id])
  BY <1>2, BuildHolds DEF insert, Good
<1>3. CASE T # NoTable /\ ~Crowded(T, hash[id])
  <2>1. PICK R : R = Range(list) \ {id}  OBVIOUS
  <2>2. Holds(T, R, hash)  BY <1>3, <2>1 DEF Good
  <2>3. PICK L \in Nat \ {0} : HoldsIn(L, T, R, hash)  BY <2>2 DEF Holds
  <2>4. Hashed(R, hash) /\ id \in (Nat \ {0}) \ R /\ hash[id] \in Nat  BY <2>1 DEF Hashed
  <2>5. HoldsIn(L, Put(T, id, hash[id]), R \cup {id}, hash)  BY <1>3, <2>3, <2>4, PutHolds
  <2>6. R \cup {id} = Range(list)  BY <2>1
  <2>7. insert(T, list, hash, id) = Put(T, id, hash[id])  BY <1>3 DEF insert
  <2>. QED BY <2>5, <2>6, <2>7 DEF Good, Holds
<1>. QED BY <1>1, <1>2, <1>3

\* findHistHashTable() finds an entry with the words if there is one.
LEMMA FindHolds ==
  ASSUME NEW list \in Seq(Nat), NEW hash, Hashed(Range(list), hash), IsInjective(list),
         NEW T, Good(T, Range(list), hash), T # ABORT, NEW h \in Nat,
         NEW same \in SUBSET Range(list), \A id \in same : hash[id] = h
  PROVE  LET f == find(T, list, hash, h, same) IN
         /\ Good(f.table, Range(list), hash)
         /\ f.entry \in same \cup {EMPTY}
         /\ T # NoTable /\ f.table # ABORT /\ f.entry = EMPTY => same = {}
         /\ T # NoTable => f.table # NoTable
<1>1. CASE T = NoTable  BY <1>1 DEF find, Good
<1>2. CASE T # NoTable
  <2> DEFINE T1 == IF TooManyDeleted(T, h, same) THEN Build(list, hash, Length(T)) ELSE T
  <2>1. T1 = ABORT \/ Holds(T1, Range(list), hash)
    <3>1. Build(list, hash, Length(T)) = ABORT \/ Holds(Build(list, hash, Length(T)), Range(list), hash)
      BY BuildHolds
    <3>. QED BY <1>2, <3>1, Zenon DEF Good
  <2>2. find(T, list, hash, h, same) =
          [entry |-> IF T1 = ABORT THEN EMPTY ELSE Search(T1, h, same), table |-> T1]
    BY <1>2, Zenon DEF find
  <2> HIDE DEF T1
  <2>3. CASE T1 = ABORT  BY <2>2, <2>3, NoTableNotAbort DEF Good
  <2>4. CASE T1 # ABORT
    <3>1. Holds(T1, Range(list), hash)  BY <2>1, <2>4
    <3>2. Search(T1, h, same) \in same \cup {EMPTY}
          /\ \A id \in same : hash[id] = h => Search(T1, h, same) # EMPTY
      BY <3>1, SearchFinds
    <3>3. T1 # NoTable  BY <3>1, HoldsTable
    <3>. QED BY <2>2, <2>4, <3>1, <3>2, <3>3 DEF Good
  <2>. QED BY <2>3, <2>4
<1>. QED BY <1>1, <1>2
-----------------------------------------------------------------------------
(* The list.                                                                *)

LEMMA RangeIs ==
  ASSUME NEW X, NEW s \in Seq(X)
  PROVE  /\ \A i \in 1 .. Len(s) : s[i] \in Range(s) /\ s[i] \in X
         /\ \A x \in Range(s) : \E i \in 1 .. Len(s) : x = s[i]
         /\ DOMAIN s = 1 .. Len(s) /\ Len(s) \in Nat
BY DEF Range

LEMMA RemoveAtIs ==
  ASSUME NEW X, NEW s \in Seq(X), NEW pos \in 1 .. Len(s)
  PROVE  LET t == RemoveAt(s, pos) IN
         /\ t \in Seq(X) /\ Len(t) = Len(s) - 1
         /\ \A i \in 1 .. Len(t) : t[i] = IF i < pos THEN s[i] ELSE s[i + 1]
<1> DEFINE a == SubSeq(s, 1, pos - 1)
           b == SubSeq(s, pos + 1, Len(s))
<1>1. a \in Seq(X) /\ Len(a) = pos - 1 /\ \A i \in 1 .. pos - 1 : a[i] = s[i]  OBVIOUS
<1>2. b \in Seq(X) /\ Len(b) = Len(s) - pos /\ \A i \in 1 .. Len(s) - pos : b[i] = s[pos + i]
  OBVIOUS
<1>3. RemoveAt(s, pos) = a \o b  BY DEF RemoveAt
<1> HIDE DEF a, b
<1>4. a \o b \in Seq(X) /\ Len(a \o b) = Len(s) - 1
  <2>1. a \o b \in Seq(X) /\ Len(a \o b) = Len(a) + Len(b)  BY <1>1, <1>2, ConcatProperties
  <2>. QED BY <1>1, <1>2, <2>1
<1>5. \A i \in 1 .. Len(s) - 1 : (a \o b)[i] = IF i < pos THEN s[i] ELSE s[i + 1]
  BY <1>1, <1>2
<1>. QED BY <1>3, <1>4, <1>5

LEMMA InsertAtIs ==
  ASSUME NEW X, NEW s \in Seq(X), NEW pos \in 1 .. Len(s) + 1, NEW x \in X
  PROVE  LET t == InsertAt(s, pos, x) IN
         /\ t \in Seq(X) /\ Len(t) = Len(s) + 1
         /\ \A i \in 1 .. Len(t) :
              t[i] = IF i < pos THEN s[i] ELSE IF i = pos THEN x ELSE s[i - 1]
<1> DEFINE a == SubSeq(s, 1, pos - 1)
           b == SubSeq(s, pos, Len(s))
           c == a \o << x >>
<1>1. a \in Seq(X) /\ Len(a) = pos - 1 /\ \A i \in 1 .. pos - 1 : a[i] = s[i]  OBVIOUS
<1>2. b \in Seq(X) /\ Len(b) = Len(s) - pos + 1
      /\ \A i \in 1 .. Len(s) - pos + 1 : b[i] = s[pos + i - 1]
  OBVIOUS
<1>3. InsertAt(s, pos, x) = c \o b  BY DEF InsertAt
<1> HIDE DEF a, b
<1>4. c \in Seq(X) /\ Len(c) = pos /\ \A i \in 1 .. pos : c[i] = IF i < pos THEN s[i] ELSE x
  BY <1>1
<1> HIDE DEF c
<1>5. c \o b \in Seq(X) /\ Len(c \o b) = Len(s) + 1
  <2>1. c \o b \in Seq(X) /\ Len(c \o b) = Len(c) + Len(b)  BY <1>2, <1>4, ConcatProperties
  <2>. QED BY <1>2, <1>4, <2>1
<1>6. \A i \in 1 .. Len(s) + 1 :
        (c \o b)[i] = IF i < pos THEN s[i] ELSE IF i = pos THEN x ELSE s[i - 1]
  <2>1. \A i \in 1 .. Len(c) + Len(b) : (c \o b)[i] = IF i <= Len(c) THEN c[i] ELSE b[i - Len(c)]
    BY <1>2, <1>4, ConcatProperties
  <2>. QED BY <1>2, <1>4, <2>1
<1>. QED BY <1>3, <1>5, <1>6

LEMMA RemoveAtRange ==
  ASSUME NEW X, NEW s \in Seq(X), IsInjective(s), NEW pos \in 1 .. Len(s)
  PROVE  /\ IsInjective(RemoveAt(s, pos))
         /\ Range(RemoveAt(s, pos)) = Range(s) \ {s[pos]}
<1> DEFINE t == RemoveAt(s, pos)
<1>1. t \in Seq(X) /\ Len(t) = Len(s) - 1
      /\ \A i \in 1 .. Len(t) : t[i] = IF i < pos THEN s[i] ELSE s[i + 1]
  BY RemoveAtIs
<1> HIDE DEF t
<1>2. \A i, j \in 1 .. Len(s) : s[i] = s[j] => i = j  BY DEF IsInjective
<1>3. \A i, j \in 1 .. Len(t) : t[i] = t[j] => i = j  BY <1>1, <1>2
<1>4. Range(t) \subseteq Range(s) \ {s[pos]}
  <2> SUFFICES ASSUME NEW i \in 1 .. Len(t) PROVE t[i] \in Range(s) \ {s[pos]}
    BY <1>1, RangeIs
  <2>1. CASE i < pos
    <3>1. i \in 1 .. Len(s) /\ i # pos /\ t[i] = s[i]  BY <1>1, <2>1
    <3>. QED BY <1>2, <3>1, RangeIs
  <2>2. CASE i >= pos
    <3>1. i + 1 \in 1 .. Len(s) /\ i + 1 # pos /\ t[i] = s[i + 1]  BY <1>1, <2>2
    <3>. QED BY <1>2, <3>1, RangeIs
  <2>. QED BY <1>1, <2>1, <2>2
<1>5. Range(s) \ {s[pos]} \subseteq Range(t)
  <2> SUFFICES ASSUME NEW i \in 1 .. Len(s), i # pos PROVE s[i] \in Range(t)
    BY DEF Range
  <2>1. CASE i < pos
    <3>1. i \in 1 .. Len(t) /\ t[i] = s[i]  BY <1>1, <2>1
    <3>. QED BY <1>1, <3>1 DEF Range
  <2>2. CASE i > pos
    <3>1. i - 1 \in 1 .. Len(t) /\ t[i - 1] = s[i]  BY <1>1, <2>2
    <3>. QED BY <1>1, <3>1 DEF Range
  <2>. QED BY <2>1, <2>2
<1>6. IsInjective(t)  BY <1>1, <1>3 DEF IsInjective
<1>. QED BY <1>4, <1>5, <1>6 DEF t

LEMMA InsertAtRange ==
  ASSUME NEW X, NEW s \in Seq(X), IsInjective(s), NEW pos \in 1 .. Len(s) + 1,
         NEW x \in X, x \notin Range(s)
  PROVE  /\ IsInjective(InsertAt(s, pos, x))
         /\ Range(InsertAt(s, pos, x)) = Range(s) \cup {x}
<1> DEFINE t == InsertAt(s, pos, x)
<1>1. t \in Seq(X) /\ Len(t) = Len(s) + 1
      /\ \A i \in 1 .. Len(t) : t[i] = IF i < pos THEN s[i] ELSE IF i = pos THEN x ELSE s[i - 1]
  BY InsertAtIs
<1> HIDE DEF t
<1>2. \A i, j \in 1 .. Len(s) : s[i] = s[j] => i = j  BY DEF IsInjective
<1>3. \A i \in 1 .. Len(s) : s[i] # x  BY DEF Range
<1>4. \A i, j \in 1 .. Len(t) : t[i] = t[j] => i = j
  <2> SUFFICES ASSUME NEW i \in 1 .. Len(t), NEW j \in 1 .. Len(t), t[i] = t[j] PROVE i = j
    OBVIOUS
  <2>1. i < pos => i \in 1 .. Len(s) /\ t[i] = s[i]  BY <1>1
  <2>2. i > pos => i - 1 \in 1 .. Len(s) /\ t[i] = s[i - 1]  BY <1>1
  <2>3. j < pos => j \in 1 .. Len(s) /\ t[j] = s[j]  BY <1>1
  <2>4. j > pos => j - 1 \in 1 .. Len(s) /\ t[j] = s[j - 1]  BY <1>1
  <2>5. i = pos => t[i] = x  BY <1>1
  <2>6. j = pos => t[j] = x  BY <1>1
  <2>7. CASE i < pos  BY <1>2, <1>3, <2>1, <2>3, <2>4, <2>6, <2>7
  <2>8. CASE i = pos  BY <1>2, <1>3, <2>5, <2>3, <2>4, <2>8
  <2>9. CASE i > pos  BY <1>2, <1>3, <2>2, <2>3, <2>4, <2>6, <2>9
  <2>. QED BY <2>7, <2>8, <2>9
<1>5. Range(t) \subseteq Range(s) \cup {x}
  <2> SUFFICES ASSUME NEW i \in 1 .. Len(t) PROVE t[i] \in Range(s) \cup {x}
    BY <1>1, RangeIs
  <2>1. CASE i < pos
    <3>1. i \in 1 .. Len(s) /\ t[i] = s[i]  BY <1>1, <2>1
    <3>. QED BY <3>1, RangeIs
  <2>2. CASE i = pos  BY <1>1, <2>2
  <2>3. CASE i > pos
    <3>1. i - 1 \in 1 .. Len(s) /\ t[i] = s[i - 1]  BY <1>1, <2>3
    <3>. QED BY <3>1, RangeIs
  <2>. QED BY <1>1, <2>1, <2>2, <2>3
<1>6. Range(s) \cup {x} \subseteq Range(t)
  <2>1. x \in Range(t)
    <3>1. pos \in 1 .. Len(t) /\ t[pos] = x  BY <1>1
    <3>. QED BY <1>1, <3>1 DEF Range
  <2>2. ASSUME NEW i \in 1 .. Len(s) PROVE s[i] \in Range(t)
    <3>1. CASE i < pos
      <4>1. i \in 1 .. Len(t) /\ t[i] = s[i]  BY <1>1, <3>1
      <4>. QED BY <1>1, <4>1, RangeIs
    <3>2. CASE i >= pos
      <4>1. i + 1 \in 1 .. Len(t) /\ t[i + 1] = s[i]  BY <1>1, <3>2
      <4>. QED BY <1>1, <4>1, RangeIs
    <3>. QED BY <3>1, <3>2
  <2>. QED BY <2>1, <2>2 DEF Range
<1>7. IsInjective(t)  BY <1>1, <1>4 DEF IsInjective
<1>. QED BY <1>5, <1>6, <1>7 DEF t
-----------------------------------------------------------------------------
(* The history: the list, its entries and the table.                        *)

Tables == (UNION {[0 .. L - 1 -> {EMPTY, DELETED} \cup Ids] : L \in Nat}) \cup {NoTable, ABORT}

\* Every state of the history, well formed or not.
Store ==
  [hist : UNION {[D -> Entry] : D \in SUBSET Ids}, list : Seq(Ids),
   histMerg : {NULL, HEAD} \cup Ids, table : Tables, eventno : Int]

\* Each entry is on the list once, and the table holds them all.
Sound(S) ==
  /\ IsInjective(S.list) /\ DOMAIN S.hist = Range(S.list)
  /\ S.histMerg \in {NULL, HEAD} \cup Range(S.list)
  /\ Good(S.table, Range(S.list), Hash(S))

Histories == {S \in Store : Sound(S)}

\* R is what is left of S when entries are taken off the list.
Thinned(S, R) ==
  /\ R.eventno = S.eventno
  /\ Range(R.list) \subseteq Range(S.list)
  /\ \A id \in Range(R.list) : R.hist[id] = S.hist[id]
  /\ \A i, j \in 1 .. Len(R.list) : i < j =>
       \E k, l \in 1 .. Len(S.list) : k < l /\ R.list[i] = S.list[k] /\ R.list[j] = S.list[l]

LEMMA HistoryIs ==
  ASSUME NEW S \in Histories
  PROVE  /\ S \in Store /\ Sound(S)
         /\ S.list \in Seq(Ids) /\ S.list \in Seq(Nat) /\ Len(S.list) \in Nat
         /\ IsInjective(S.list) /\ DOMAIN S.hist = Range(S.list) /\ Range(S.list) \subseteq Ids
         /\ \A id \in Range(S.list) : S.hist[id] \in Entry
         /\ \A i \in 1 .. Len(S.list) : S.list[i] \in Range(S.list) /\ S.hist[S.list[i]] \in Entry
         /\ \A id \in Range(S.list) : \E i \in 1 .. Len(S.list) : id = S.list[i]
         /\ S.histMerg \in {NULL, HEAD} \cup Range(S.list)
         /\ S.eventno \in Int
         /\ Ids \subseteq Nat \ {0}
<1>1. S \in Store /\ Sound(S)  BY DEF Histories
<1>2. S.list \in Seq(Ids) /\ S.eventno \in Int  BY <1>1 DEF Store
<1>3. MaxHist \in Nat  BY HistListAssumption
<1>4. Ids \subseteq Nat /\ Ids \subseteq Nat \ {0}  BY <1>3 DEF Ids
<1>5. S.list \in Seq(Nat) /\ Len(S.list) \in Nat
  <2>1. Len(S.list) \in Nat /\ DOMAIN S.list = 1 .. Len(S.list)
        /\ \A i \in 1 .. Len(S.list) : S.list[i] \in Ids
    BY <1>2, RangeIs
  <2>2. S.list = [i \in 1 .. Len(S.list) |-> S.list[i]]  BY <1>2
  <2>3. \A i \in 1 .. Len(S.list) : S.list[i] \in Nat  BY <1>4, <2>1
  <2>. QED BY <2>1, <2>2, <2>3
<1>6. IsInjective(S.list) /\ DOMAIN S.hist = Range(S.list)
      /\ S.histMerg \in {NULL, HEAD} \cup Range(S.list)
  BY <1>1 DEF Sound
<1>7. Range(S.list) \subseteq Ids /\ \A id \in Range(S.list) : \E i \in 1 .. Len(S.list) : id = S.list[i]
  BY <1>2, RangeIs
<1>8. \A id \in Range(S.list) : S.hist[id] \in Entry
  <2>1. PICK D \in SUBSET Ids : S.hist \in [D -> Entry]  BY <1>1 DEF Store
  <2>. QED BY <1>6, <2>1
<1>9. \A i \in 1 .. Len(S.list) : S.list[i] \in Range(S.list)  BY <1>2, RangeIs
<1>. QED BY <1>1, <1>2, <1>4, <1>5, <1>6, <1>7, <1>8, <1>9

LEMMA EntryIs ==
  ASSUME NEW e \in Entry
  PROVE  e.word \in Words /\ HashOf[e.word] \in Nat /\ e.dummy \in BOOLEAN /\ e.num \in Int
         /\ e.ref \in Int /\ e.time \in Nat
BY HistListAssumption DEF Entry

LEMMA HashIs ==
  ASSUME NEW S \in Histories
  PROVE  /\ Hashed(Range(S.list), Hash(S)) /\ DOMAIN Hash(S) = Range(S.list)
         /\ \A id \in Range(S.list) : Hash(S)[id] = HashOf[S.hist[id].word]
<1>1. DOMAIN S.hist = Range(S.list) /\ Range(S.list) \subseteq Nat \ {0}  BY HistoryIs
<1>2. \A id \in Range(S.list) : Hash(S)[id] = HashOf[S.hist[id].word]  BY <1>1 DEF Hash
<1>3. \A id \in Range(S.list) : HashOf[S.hist[id].word] \in Nat  BY HistoryIs, EntryIs
<1>. QED BY <1>1, <1>2, <1>3 DEF Hashed, Hash

LEMMA TableIs ==
  ASSUME NEW T, NEW R \in SUBSET Ids, NEW hash, Good(T, R, hash)
  PROVE  T \in Tables
<1>1. CASE T \in {NoTable, ABORT}  BY <1>1 DEF Tables
<1>2. CASE T \notin {NoTable, ABORT}
  <2>1. PICK L \in Nat \ {0} : HoldsIn(L, T, R, hash)  BY <1>2 DEF Good, Holds
  <2>2. T \in [0 .. L - 1 -> {EMPTY, DELETED} \cup Ids]  BY <2>1 DEF HoldsIn
  <2>. QED BY <2>2 DEF Tables
<1>. QED BY <1>1, <1>2

LEMMA HremoveIs ==
  ASSUME NEW S \in Histories, NEW pos \in 1 .. Len(S.list)
  PROVE  LET R == hremove(S, pos) IN
         /\ R \in Histories /\ Thinned(S, R)
         /\ Range(R.list) = Range(S.list) \ {S.list[pos]}
         /\ R.list = RemoveAt(S.list, pos) /\ Len(R.list) = Len(S.list) - 1
         /\ S.table # ABORT => R.table # ABORT
         /\ S.table = NoTable => R.table = NoTable
<1> DEFINE id == S.list[pos]
           R == hremove(S, pos)
           t == RemoveAt(S.list, pos)
           g == [i \in Range(S.list) \ {id} |-> S.hist[i]]
           m == IF S.histMerg = id THEN NULL ELSE S.histMerg
           T == IF S.table = ABORT THEN S.table ELSE remove(S.table, id, Hash(S)[id])
<1>1. S \in Store /\ Sound(S) /\ S.list \in Seq(Ids) /\ IsInjective(S.list)
      /\ DOMAIN S.hist = Range(S.list) /\ Range(S.list) \subseteq Ids /\ id \in Range(S.list)
  BY HistoryIs
<1>2. R = [S EXCEPT !.list = t, !.hist = g, !.histMerg = m, !.table = T]
  BY <1>1 DEF hremove
<1>3. R.list = t /\ R.hist = g /\ R.histMerg = m /\ R.table = T /\ R.eventno = S.eventno
  BY <1>1, <1>2 DEF Store
<1>4. t \in Seq(Ids) /\ Len(t) = Len(S.list) - 1
      /\ \A i \in 1 .. Len(t) : t[i] = IF i < pos THEN S.list[i] ELSE S.list[i + 1]
  BY <1>1, RemoveAtIs
<1>5. IsInjective(t) /\ Range(t) = Range(S.list) \ {id}  BY <1>1, RemoveAtRange
<1>6. \A i \in Range(t) : g[i] = S.hist[i] /\ S.hist[i] \in Entry  BY <1>5, HistoryIs
<1>7. g \in UNION {[D -> Entry] : D \in SUBSET Ids}
  <2>1. g \in [Range(S.list) \ {id} -> Entry]  BY <1>5, <1>6
  <2>2. Range(S.list) \ {id} \in SUBSET Ids  BY <1>1
  <2> HIDE DEF g
  <2>. QED BY <2>1, <2>2
<1>8. m \in {NULL, HEAD} \cup Range(t)  BY <1>1, <1>5, HistoryIs
<1>9. /\ Good(T, Range(t), Hash(S))
      /\ S.table # ABORT => T # ABORT
      /\ S.table = NoTable => T = NoTable
  <2>1. CASE S.table = ABORT  BY <2>1, NoTableNotAbort DEF Good
  <2>2. CASE S.table = NoTable
    <3>1. T = NoTable  BY <2>2, NoTableNotAbort DEF remove
    <3> HIDE DEF T
    <3>. QED BY <2>2, <3>1, NoTableNotAbort DEF Good
  <2>3. CASE S.table \notin {ABORT, NoTable}
    <3>1. Holds(S.table, Range(S.list), Hash(S))  BY <1>1, <2>3 DEF Sound, Good
    <3>2. PICK L \in Nat \ {0} : HoldsIn(L, S.table, Range(S.list), Hash(S))  BY <3>1 DEF Holds
    <3>3. Hashed(Range(S.list), Hash(S))  BY HashIs
    <3>4. HoldsIn(L, remove(S.table, id, Hash(S)[id]), Range(S.list) \ {id}, Hash(S))
      <4> HIDE DEF id
      <4>. QED BY <1>1, <3>2, <3>3, RemoveHolds
    <3>5. T = remove(S.table, id, Hash(S)[id])  BY <2>3
    <3> HIDE DEF T, t
    <3>6. Holds(T, Range(t), Hash(S))  BY <1>5, <3>4, <3>5 DEF Holds
    <3>. QED BY <2>3, <3>6, HoldsTable DEF Good
  <2>. QED BY <2>1, <2>2, <2>3
<1>10. Good(T, Range(t), Hash(R))
  <2>1. \A i \in Range(t) : Hash(R)[i] = Hash(S)[i]
    BY <1>1, <1>3, <1>5, <1>6 DEF Hash
  <2> HIDE DEF T, t, R
  <2>. QED BY <1>9, <2>1, HoldsSame DEF Good
<1> HIDE DEF T, t, R, g, m
<1>11. T \in Tables
  <2>1. Range(t) \in SUBSET Ids  BY <1>1, <1>5
  <2>. QED BY <1>9, <2>1, TableIs
<1>12. R \in Store
  <2>1. m \in {NULL, HEAD} \cup Ids  BY <1>1, <1>5, <1>8
  <2>. QED BY <1>1, <1>2, <1>4, <1>7, <1>11, <2>1 DEF Store
<1>13. Sound(R)
  <2>1. DOMAIN R.hist = Range(t)  BY <1>3, <1>5 DEF g
  <2>. QED BY <1>3, <1>5, <1>8, <1>10, <2>1 DEF Sound
<1>14. Thinned(S, R)
  <2>1. ASSUME NEW i \in 1 .. Len(t), NEW j \in 1 .. Len(t), i < j
        PROVE  \E k, l \in 1 .. Len(S.list) : k < l /\ t[i] = S.list[k] /\ t[j] = S.list[l]
    <3> DEFINE k == IF i < pos THEN i ELSE i + 1
               l == IF j < pos THEN j ELSE j + 1
    <3>1. k \in 1 .. Len(S.list) /\ l \in 1 .. Len(S.list) /\ k < l  BY <1>1, <1>4, <2>1
    <3>2. t[i] = S.list[k] /\ t[j] = S.list[l]  BY <1>4
    <3>. QED BY <3>1, <3>2
  <2>. QED BY <1>3, <1>5, <1>6, <2>1 DEF Thinned
<1>15. R \in Histories  BY <1>12, <1>13 DEF Histories
<1>. QED BY <1>3, <1>4, <1>5, <1>9, <1>14, <1>15 DEF R, t, id
\* No entry is dropped that is not old.
Kept(S, R, hlen) ==
  hlen # 0 => \A id \in Range(S.list) : S.eventno - S.hist[id].ref < hlen => id \in Range(R.list)

LEMMA ThinnedSame == ASSUME NEW S \in Histories PROVE Thinned(S, S)
BY DEF Thinned

LEMMA ThinnedTwice ==
  ASSUME NEW S, NEW R, NEW Q, Thinned(S, R), Thinned(R, Q)
  PROVE  Thinned(S, Q)
<1>1. Q.eventno = S.eventno /\ Range(Q.list) \subseteq Range(S.list)  BY DEF Thinned
<1>2. \A id \in Range(Q.list) : Q.hist[id] = S.hist[id]  BY DEF Thinned
<1>3. ASSUME NEW i \in 1 .. Len(Q.list), NEW j \in 1 .. Len(Q.list), i < j
      PROVE  \E k, l \in 1 .. Len(S.list) : k < l /\ Q.list[i] = S.list[k] /\ Q.list[j] = S.list[l]
  <2>1. PICK k \in 1 .. Len(R.list), l \in 1 .. Len(R.list) :
          k < l /\ Q.list[i] = R.list[k] /\ Q.list[j] = R.list[l]
    BY <1>3 DEF Thinned
  <2>. QED BY <2>1 DEF Thinned
<1>. QED BY <1>1, <1>2, <1>3 DEF Thinned

LEMMA KeptTwice ==
  ASSUME NEW S, NEW R, NEW Q, NEW hlen, Thinned(S, R), Kept(S, R, hlen), Kept(R, Q, hlen)
  PROVE  Kept(S, Q, hlen)
BY DEF Thinned, Kept

\* What DropAll() keeps, whichever entries it is for.
LEMMA DropAllIs ==
  ASSUME NEW S \in Histories, NEW which, NEW hlen
  PROVE  LET R == DropAll(S, which, hlen) IN
         /\ R \in Histories /\ Thinned(S, R)
         /\ S.table # ABORT => R.table # ABORT
         /\ which \in {"front", "back", "old"} /\ hlen \in Nat => Kept(S, R, hlen)
         /\ (which = "front" /\ hlen = 0) \/ which = "all" => R.list = << >>
<1> DEFINE n       == Len(S.list)
           Vic(R)  == Victims(R, which, hlen)
           Step(R) == IF Vic(R) = {} THEN R ELSE hremove(R, Min(Vic(R)))
           Is(f)   == f = [k \in 0 .. n |-> IF k = 0 THEN S ELSE Step(f[k - 1])]
           F       == CHOOSE f : Is(f)
           all     == (which = "front" /\ hlen = 0) \/ which = "all"
           recent  == which \in {"front", "back", "old"} /\ hlen \in Nat
<1>1. n \in Nat  BY HistoryIs
<1>2. DropAll(S, which, hlen) = F[n]  BY Zenon DEF DropAll
<1>3. ASSUME NEW R \in Histories
      PROVE  /\ Step(R) \in Histories /\ Thinned(R, Step(R))
             /\ R.table # ABORT => Step(R).table # ABORT
             /\ recent => Kept(R, Step(R), hlen)
             /\ all => Len(Step(R).list) = IF R.list = << >> THEN 0 ELSE Len(R.list) - 1
  <2>0. R.list \in Seq(Ids) /\ Len(R.list) \in Nat  BY HistoryIs
  <2>1. Vic(R) \subseteq 1 .. Len(R.list)  BY DEF Victims
  <2>2. CASE Vic(R) = {}
    <3>1. Step(R) = R  BY <2>2
    <3>2. all => R.list = << >>
      <4> SUFFICES ASSUME all, R.list # << >> PROVE FALSE  OBVIOUS
      <4>1. 1 \in 1 .. Len(R.list)  BY <2>0
      <4>2. 1 \in Vic(R)
        <5>1. CASE which = "all"  BY <4>1, <5>1 DEF Victims
        <5>2. CASE which = "front" /\ hlen = 0  BY <2>0, <4>1, <5>2 DEF Victims, Old
        <5>. QED BY <5>1, <5>2
      <4>. QED BY <2>2, <4>2
    <3> HIDE DEF Step, all, recent
    <3>. QED BY <2>0, <3>1, <3>2, ThinnedSame DEF Kept
  <2>3. CASE Vic(R) # {}
    <3>1. PICK p \in 1 .. Len(R.list) : p = Min(Vic(R)) /\ p \in Vic(R)
      <4>1. Vic(R) \subseteq Nat  BY <2>1
      <4> HIDE DEF Vic
      <4>. QED BY <2>1, <2>3, <4>1, MinIs
    <3>2. Step(R) = hremove(R, p)  BY <2>3, <3>1
    <3>3. LET Q == hremove(R, p) IN
          /\ Q \in Histories /\ Thinned(R, Q)
          /\ Range(Q.list) = Range(R.list) \ {R.list[p]}
          /\ Len(Q.list) = Len(R.list) - 1
          /\ R.table # ABORT => Q.table # ABORT
      BY HremoveIs
    <3>4. ASSUME recent PROVE Kept(R, Step(R), hlen)
      <4> SUFFICES ASSUME hlen # 0, NEW id \in Range(R.list), R.eventno - R.hist[id].ref < hlen
                   PROVE  id \in Range(Step(R).list)
        BY DEF Kept
      <4>1. Old(R, p, hlen)  BY <3>1, <3>4 DEF Victims
      <4>2. R.eventno \in Int /\ R.hist[id].ref \in Int  BY HistoryIs, EntryIs
      <4>3. id # R.list[p]  BY <3>4, <4>1, <4>2 DEF Old
      <4> HIDE DEF Step
      <4>. QED BY <3>2, <3>3, <4>3
    <3>5. R.list # << >>  BY <3>1
    <3> HIDE DEF Step, all, recent
    <3>. QED BY <3>2, <3>3, <3>4, <3>5
  <2>. QED BY <2>2, <2>3
<1> HIDE DEF Vic
<1> DEFINE X == Histories
           G == [k \in 1 .. n |-> [R \in X |-> Step(R)]]
<1>4. PICK g \in [0 .. n -> X] : g[0] = S /\ \A k \in 1 .. n : g[k] = G[k][g[k - 1]]
  <2>1. G \in [1 .. n -> [X -> X]]
    <3> HIDE DEF Step, n
    <3>. QED BY <1>3
  <2>2. Defined(X, S, n, G)
    <3> HIDE DEF X, G, n
    <3>1. S \in X  BY DEF X
    <3>. QED BY <1>1, <2>1, <3>1, Recursion
  <2> HIDE DEF X, G, n
  <2>. QED BY <2>2 DEF Defined
<1>5. Is(g)
  <2>1. \A k \in 1 .. n : g[k] = Step(g[k - 1])
    <3> SUFFICES ASSUME NEW k \in 1 .. n PROVE g[k] = Step(g[k - 1])  OBVIOUS
    <3>1. k - 1 \in 0 .. n  BY <1>1
    <3>2. g[k - 1] \in X  BY <3>1
    <3> HIDE DEF X, Step
    <3>. QED BY <1>4, <3>2
  <2>2. \A k \in 0 .. n : k # 0 => k \in 1 .. n  BY <1>1
  <2> HIDE DEF X, Step
  <2>. QED BY <1>4, <2>1, <2>2
<1>6. F[0] = S /\ \A k \in 1 .. n : F[k] = Step(F[k - 1])
  <2>1. Is(F)
    <3> HIDE DEF Is
    <3>. QED BY <1>5 DEF F
  <2>2. \A k \in 1 .. n : k \in 0 .. n /\ k # 0  OBVIOUS
  <2> HIDE DEF F, Step, n
  <2>. QED BY <1>1, <2>1, <2>2
<1> HIDE DEF F, Step, Is, G, X
<1> DEFINE P(k) == /\ F[k] \in Histories /\ Thinned(S, F[k])
                   /\ S.table # ABORT => F[k].table # ABORT
                   /\ recent => Kept(S, F[k], hlen)
                   /\ all => Len(F[k].list) = n - k
           K == {k \in 0 .. n : P(k)}
<1>7. 0 \in K
  <2>1. P(0)  BY <1>1, <1>6, ThinnedSame DEF Kept
  <2> HIDE DEF P, n
  <2>. QED BY <1>1, <2>1
<1>8. ASSUME NEW k \in 1 .. n, k - 1 \in K PROVE k \in K
  <2>1. P(k - 1)  BY <1>8
  <2>2. PICK R \in Histories : R = F[k - 1]  BY <2>1
  <2>3. F[k] = Step(R)  BY <1>6, <2>2
  <2>4. F[k] \in Histories /\ Thinned(S, F[k])  BY <1>3, <2>1, <2>2, <2>3, ThinnedTwice
  <2>5. S.table # ABORT => F[k].table # ABORT  BY <1>3, <2>1, <2>2, <2>3
  <2>6. recent => Kept(S, F[k], hlen)
    <3> HIDE DEF recent
    <3>. QED BY <1>3, <2>1, <2>2, <2>3, KeptTwice
  <2>7. ASSUME all PROVE Len(F[k].list) = n - k
    <3>1. Len(R.list) = n - (k - 1)  BY <2>1, <2>2, <2>7
    <3>2. R.list # << >>  BY <1>1, <3>1
    <3>3. Len(F[k].list) = Len(R.list) - 1
      <4> HIDE DEF all
      <4>. QED BY <1>3, <2>3, <2>7, <3>2
    <3>. QED BY <1>1, <3>1, <3>3
  <2>8. P(k)  BY <2>4, <2>5, <2>6, <2>7
  <2>9. k \in 0 .. n  OBVIOUS
  <2> HIDE DEF P, n
  <2>. QED BY <2>8, <2>9
<1>9. P(n)
  <2>1. \A k \in 0 .. n : k \in K
    <3> HIDE DEF K, n
    <3>. QED BY <1>1, <1>7, <1>8, Steps
  <2>2. n \in 0 .. n  BY <1>1
  <2> HIDE DEF P, n
  <2>. QED BY <2>1, <2>2
<1>10. all => F[n].list = << >>
  <2> SUFFICES ASSUME all PROVE F[n].list = << >>  OBVIOUS
  <2>1. F[n].list \in Seq(Ids) /\ Len(F[n].list) = 0  BY <1>1, <1>9, HistoryIs
  <2>. QED BY <2>1
<1> HIDE DEF n
<1>. QED BY <1>2, <1>9, <1>10

LEMMA DiscardExcessIs ==
  ASSUME NEW S \in Histories, NEW hlen \in Nat
  PROVE  LET R == discardExcess(S, hlen) IN
         /\ R \in Histories /\ Thinned(S, R)
         /\ S.table # ABORT => R.table # ABORT
         /\ Kept(S, R, hlen)
         /\ hlen = 0 => R.list = << >>
<1> DEFINE A == DropAll(S, "front", hlen)
           B == DropAll(A, "back", hlen)
           C == DropAll(B, "old", hlen)
<1>1. A \in Histories /\ Thinned(S, A) /\ (S.table # ABORT => A.table # ABORT)
      /\ Kept(S, A, hlen) /\ (hlen = 0 => A.list = << >>)
  <2>1. "front" \in {"front", "back", "old"}  OBVIOUS
  <2>. QED BY <2>1, DropAllIs
<1> HIDE DEF A
<1>2. B \in Histories /\ Thinned(A, B) /\ (A.table # ABORT => B.table # ABORT)
      /\ Kept(A, B, hlen)
  <2>1. "back" \in {"front", "back", "old"}  OBVIOUS
  <2>. QED BY <1>1, <2>1, DropAllIs
<1> HIDE DEF B
<1>3. C \in Histories /\ Thinned(B, C) /\ (B.table # ABORT => C.table # ABORT)
      /\ Kept(B, C, hlen)
  <2>1. "old" \in {"front", "back", "old"}  OBVIOUS
  <2>. QED BY <1>2, <2>1, DropAllIs
<1> HIDE DEF C
<1>4. Thinned(S, B) /\ Thinned(S, C) /\ Kept(S, B, hlen) /\ Kept(S, C, hlen)
  <2>1. Thinned(S, B) /\ Kept(S, B, hlen)  BY <1>1, <1>2, ThinnedTwice, KeptTwice
  <2>. QED BY <1>3, <2>1, ThinnedTwice, KeptTwice
<1>5. ASSUME hlen = 0 PROVE B.list = << >> /\ C.list = << >>
  <2>1. A.list = << >>  BY <1>1, <1>5
  <2>2. \A s \in Seq(Ids) : Range(s) = {} => s = << >>
    <3> SUFFICES ASSUME NEW s \in Seq(Ids), Range(s) = {} PROVE s = << >>  OBVIOUS
    <3>1. ~(1 \in 1 .. Len(s))  BY RangeIs
    <3>2. Len(s) = 0  BY <3>1
    <3>. QED BY <3>2
  <2>3. Range(A.list) = {}
    <3>1. A.list \in Seq(Ids) /\ Len(A.list) = 0  BY <1>1, <2>1, HistoryIs
    <3>2. 1 .. Len(A.list) = {}  BY <3>1
    <3>. QED BY <3>1, <3>2, RangeIs
  <2>4. Range(B.list) = {} /\ Range(C.list) = {}  BY <1>2, <1>3, <2>3 DEF Thinned
  <2>. QED BY <1>2, <1>3, <2>2, <2>4, HistoryIs
<1>6. discardExcess(S, hlen) \in {B, C}
  BY DEF discardExcess, A, B, C
<1>. QED BY <1>1, <1>2, <1>3, <1>4, <1>5, <1>6
-----------------------------------------------------------------------------
(* Entering a command.                                                      *)

LEMMA NewIdIs ==
  ASSUME NEW S \in Histories, Len(S.list) < MaxHist
  PROVE  NewId(S) \in Ids \ Range(S.list)
<1>1. S.list \in Seq(Ids) /\ Len(S.list) \in Nat /\ Range(S.list) \subseteq Ids /\ MaxHist \in Nat
  BY HistoryIs, HistListAssumption
<1>2. Ids \ Range(S.list) # {}
  <2> SUFFICES ASSUME Ids \subseteq Range(S.list) PROVE FALSE  OBVIOUS
  <2> DEFINE n == Len(S.list)
  <2>1. S.list \in [1 .. n -> Ids] /\ \A x \in Ids : \E i \in 1 .. n : S.list[i] = x
    BY <1>1, RangeIs
  <2>2. S.list \in Surjection(1 .. n, Ids)  BY <2>1 DEF Surjection
  <2>3. IsFiniteSet(1 .. n) /\ Cardinality(1 .. n) = n
    <3> HIDE DEF n
    <3>1. n \in Nat  BY <1>1 DEF n
    <3>. QED BY <3>1, FS_Interval
  <2>4. Cardinality(Ids) <= n  BY <2>2, <2>3, FS_Surjection
  <2>5. Cardinality(Ids) = MaxHist  BY <1>1, FS_Interval DEF Ids
  <2>. QED BY <1>1, <2>4, <2>5
<1>3. Ids \ Range(S.list) \subseteq Nat  BY <1>1 DEF Ids
<1>. QED BY <1>2, <1>3, MinIs DEF NewId

LEMMA HtimeIs ==
  ASSUME NEW S \in Histories
  PROVE  Htime(S, 0) = 0 /\ \A pos \in 0 .. Len(S.list) :
           /\ Htime(S, pos) \in Nat
           /\ pos # 0 => Htime(S, pos) = S.hist[S.list[pos]].time
<1>1. \A pos \in 1 .. Len(S.list) : S.hist[S.list[pos]].time \in Nat  BY HistoryIs, EntryIs
<1>2. \A pos \in 0 .. Len(S.list) : pos # 0 => pos \in 1 .. Len(S.list)  OBVIOUS
<1>. QED BY <1>1, <1>2 DEF Htime

LEMMA PositionIs ==
  ASSUME NEW S \in Histories, NEW id \in Range(S.list)
  PROVE  Position(S, id) \in 1 .. Len(S.list) /\ S.list[Position(S, id)] = id
<1>1. \E pos \in 1 .. Len(S.list) : S.list[pos] = id  BY HistoryIs
<1>. QED BY <1>1 DEF Position

LEMMA PositionOf ==
  ASSUME NEW S \in Histories, NEW pos \in 1 .. Len(S.list)
  PROVE  Position(S, S.list[pos]) = pos
<1>1. S.list[pos] \in Range(S.list)  BY HistoryIs
<1>2. Position(S, S.list[pos]) \in 1 .. Len(S.list) /\ S.list[Position(S, S.list[pos])] = S.list[pos]
  BY <1>1, PositionIs
<1>3. \A i, j \in DOMAIN S.list : S.list[i] = S.list[j] => i = j  BY HistoryIs DEF IsInjective
<1>4. DOMAIN S.list = 1 .. Len(S.list)  BY HistoryIs
<1>. QED BY <1>2, <1>3, <1>4

\* Below an entry that is later, or at the front, and above the first that is
\* not later.
LEMMA MergePointIs ==
  ASSUME NEW S \in Histories, NEW time \in Nat, NEW hint \in -1 .. Len(S.list)
  PROVE  LET pp == mergeInsertionPoint(S, time, hint) IN
         /\ pp \in 0 .. Len(S.list)
         /\ pp = Len(S.list) \/ Htime(S, pp + 1) <= time
         /\ \E up \in 0 .. pp :
              /\ up = 0 \/ Htime(S, up) > time
              /\ \A pos \in up + 1 .. pp : Htime(S, pos) > time
<1> DEFINE count == Len(S.list)
           merg  == IF S.histMerg \in {NULL, HEAD} THEN 1 ELSE Position(S, S.histMerg)
           from  == IF merg > 1 /\ Htime(S, merg) >= time THEN merg
                    ELSE IF merg > 1 /\ Htime(S, merg - 1) >= time THEN merg - 1
                    ELSE IF count > 0 /\ Htime(S, count) >= time THEN count
                    ELSE hint
           above == {pos \in 0 .. from : pos = 0 \/ Htime(S, pos) > time}
           up    == IF from = -1 THEN 0 ELSE Max(above)
           below == {pos \in up .. count : pos = count \/ Htime(S, pos + 1) <= time}
           pp    == Min(below)
<1>1. mergeInsertionPoint(S, time, hint) = pp  BY Zenon DEF mergeInsertionPoint
<1>2. count \in Nat  BY HistoryIs
<1>3. merg \in Nat /\ (merg > 1 => merg \in 1 .. count)
  <2>1. S.histMerg \notin {NULL, HEAD} => Position(S, S.histMerg) \in 1 .. count
    BY HistoryIs, PositionIs
  <2> HIDE DEF count
  <2>. QED BY <1>2, <2>1
<1> HIDE DEF merg, count
<1>4. from \in -1 .. count
  <2>1. hint \in -1 .. count  BY DEF count
  <2>. QED BY <1>2, <1>3, <2>1
<1> HIDE DEF from
<1>5. up \in 0 .. count /\ (up = 0 \/ Htime(S, up) > time)
  <2>1. CASE from = -1  BY <1>2, <2>1
  <2>2. CASE from # -1
    <3>1. from \in Nat /\ from \in 0 .. count  BY <1>2, <1>4, <2>2
    <3>2. above \subseteq 0 .. from /\ 0 \in above  BY <3>1
    <3>3. Max(above) \in above
      <4> HIDE DEF above
      <4>. QED BY <3>1, <3>2, MaxIs
    <3>4. up = Max(above)  BY <2>2
    <3> HIDE DEF up
    <3>. QED BY <1>2, <3>1, <3>3, <3>4
  <2>. QED BY <2>1, <2>2
<1> HIDE DEF up
<1>6. below \subseteq Nat /\ count \in below  BY <1>2, <1>5
<1>7. pp \in below /\ \A q \in below : pp <= q
  <2> HIDE DEF below
  <2>. QED BY <1>6, MinIs
<1>8. pp \in up .. count /\ (pp = count \/ Htime(S, pp + 1) <= time)  BY <1>7
<1>9. ASSUME NEW pos \in up + 1 .. pp PROVE Htime(S, pos) > time
  <2>1. pos - 1 \in up .. count /\ pos - 1 # count /\ pos - 1 < pp /\ pos \in 0 .. count
    <3> HIDE DEF pp
    <3>. QED BY <1>2, <1>5, <1>8
  <2>2. pos - 1 \notin below
    <3> HIDE DEF below, pp
    <3>. QED BY <1>2, <1>5, <1>8, <1>7, <2>1
  <2>3. (pos - 1) + 1 = pos  BY <2>1
  <2>4. ~(Htime(S, pos) <= time)  BY <2>1, <2>2, <2>3
  <2>5. Htime(S, pos) \in Nat  BY <2>1, HtimeIs DEF count
  <2>. QED BY <2>4, <2>5
<1> HIDE DEF pp, below
<1>10. pp \in 0 .. count /\ up \in 0 .. pp  BY <1>2, <1>5, <1>8
<1>. QED BY <1>1, <1>5, <1>8, <1>9, <1>10 DEF count

\* A line is put before or after entries, or takes the place of one: the numbers
\* move on by one place.
Inserted(S, R, word, dummy, time, event) ==
  \E pos \in 1 .. Len(S.list) + 1, id \in Ids \ Range(S.list) :
    /\ R.list = InsertAt(S.list, pos, id) /\ R.eventno = S.eventno
    /\ R.hist[id].word = word /\ R.hist[id].dummy = dummy /\ R.hist[id].time = time
    /\ \A i \in Range(S.list) :
         /\ R.hist[i].word = S.hist[i].word /\ R.hist[i].dummy = S.hist[i].dummy
         /\ R.hist[i].time = S.hist[i].time
    /\ R.hist[R.list[1]].num = event /\ R.hist[R.list[1]].ref = event
    /\ \A k \in 1 .. Len(S.list) :
         /\ R.hist[R.list[k + 1]].num = S.hist[S.list[k]].num
         /\ R.hist[R.list[k + 1]].ref = S.hist[S.list[k]].ref

LEMMA EnteredIs ==
  ASSUME NEW S \in Histories, NEW e \in Entry, NEW pos \in 0 .. Len(S.list), NEW hashing,
         Len(S.list) < MaxHist
  PROVE  LET R == Entered(S, e, pos, hashing)  id == NewId(S) IN
         /\ R \in Histories /\ R.eventno = S.eventno
         /\ R.list = InsertAt(S.list, pos + 1, id)
         /\ R.hist[id] = e /\ \A i \in Range(S.list) : R.hist[i] = S.hist[i]
<1> DEFINE id == NewId(S)
           t == InsertAt(S.list, pos + 1, id)
           g == [i \in Range(S.list) \cup {id} |-> IF i = id THEN e ELSE S.hist[i]]
           S1 == hinsert(S, id, e, pos)
           T == IF S.table = ABORT THEN S.table
                ELSE IF hashing THEN insert(S.table, t, Hash(S1), id) ELSE NoTable
           R == Entered(S, e, pos, hashing)
<1>1. S \in Store /\ Sound(S) /\ S.list \in Seq(Ids) /\ IsInjective(S.list)
      /\ DOMAIN S.hist = Range(S.list) /\ Range(S.list) \subseteq Ids /\ Len(S.list) \in Nat
  BY HistoryIs
<1>2. id \in Ids \ Range(S.list)  BY NewIdIs
<1> HIDE DEF id
<1>3. pos + 1 \in 1 .. Len(S.list) + 1  OBVIOUS
<1>4. t \in Seq(Ids)  BY <1>1, <1>2, <1>3, InsertAtIs
<1>5. IsInjective(t) /\ Range(t) = Range(S.list) \cup {id}  BY <1>1, <1>2, <1>3, InsertAtRange
<1>6. S1 = [S EXCEPT !.list = t, !.hist = g]  BY <1>1 DEF hinsert
<1>7. S1.list = t /\ S1.hist = g /\ S1.table = S.table /\ S1.eventno = S.eventno
      /\ S1.histMerg = S.histMerg
  BY <1>1, <1>6 DEF Store
<1>8. R = [S1 EXCEPT !.table = T]
  <2>1. R = [S1 EXCEPT !.table = IF S1.table = ABORT THEN S1.table
                                 ELSE IF hashing THEN insert(S1.table, S1.list, Hash(S1), id)
                                 ELSE NoTable]
    BY DEF Entered, id
  <2> HIDE DEF t, S1
  <2>. QED BY <1>7, <2>1
<1>9. R.list = t /\ R.hist = g /\ R.table = T /\ R.eventno = S.eventno /\ R.histMerg = S.histMerg
  <2> HIDE DEF S1, R, g, T, t
  <2>. QED BY <1>1, <1>6, <1>7, <1>8 DEF Store
<1>10. g \in [Range(S.list) \cup {id} -> Entry]  BY HistoryIs
<1>11. Hash(R) = Hash(S1)
  <2> HIDE DEF S1, R
  <2>. QED BY <1>7, <1>9 DEF Hash
<1>12. \A i \in Range(S.list) : Hash(S1)[i] = Hash(S)[i]
  <2>1. \A i \in Range(S.list) : g[i] = S.hist[i]  BY <1>2
  <2>2. DOMAIN g = Range(S.list) \cup {id}  OBVIOUS
  <2> HIDE DEF S1, g
  <2>. QED BY <1>1, <1>7, <2>1, <2>2 DEF Hash
<1>13. Hashed(Range(t), Hash(S1))
  <2>1. \A i \in Range(t) : Hash(S1)[i] = HashOf[g[i].word]
    <3>1. DOMAIN g = Range(S.list) \cup {id}  OBVIOUS
    <3> HIDE DEF S1, g, t
    <3>. QED BY <1>5, <1>7, <3>1 DEF Hash
  <2>2. \A i \in Range(t) : HashOf[g[i].word] \in Nat
    <3> HIDE DEF g, t
    <3>. QED BY <1>5, <1>10, EntryIs
  <2>3. Range(t) \subseteq Nat \ {0}
    <3>1. Ids \subseteq Nat \ {0}  BY HistoryIs
    <3> HIDE DEF t
    <3>. QED BY <1>1, <1>2, <1>5, <3>1
  <2> HIDE DEF S1, g, t
  <2>. QED BY <2>1, <2>2, <2>3 DEF Hashed
<1> HIDE DEF g, t, S1, R
<1>14. Good(T, Range(t), Hash(S1))
  <2>1. CASE S.table = ABORT  BY <2>1 DEF Good
  <2>2. CASE S.table # ABORT /\ ~hashing  BY <2>2 DEF Good
  <2>3. CASE S.table # ABORT /\ hashing
    <3>1. Range(t) \ {id} = Range(S.list)  BY <1>2, <1>5
    <3>2. Good(S.table, Range(S.list), Hash(S1))
      BY <1>1, <1>12, HoldsSame DEF Sound, Good
    <3>3. t \in Seq(Nat)
      <4>1. Ids \subseteq Nat  BY HistoryIs
      <4>2. \A i \in 1 .. Len(t) : t[i] \in Nat
        <5>1. \A i \in 1 .. Len(t) : t[i] \in Ids  BY <1>4, RangeIs
        <5>. QED BY <4>1, <5>1
      <4>3. t = [i \in 1 .. Len(t) |-> t[i]] /\ Len(t) \in Nat  BY <1>4
      <4>. QED BY <4>2, <4>3
    <3>4. id \in Range(t)  BY <1>5
    <3>5. PICK T0 : T0 = S.table  OBVIOUS
    <3>6. Good(T0, Range(t) \ {id}, Hash(S1)) /\ T0 # ABORT  BY <2>3, <3>1, <3>2, <3>5
    <3>7. Good(insert(T0, t, Hash(S1), id), Range(t), Hash(S1))
      BY <1>5, <1>13, <3>3, <3>4, <3>6, InsertHolds
    <3>. QED BY <2>3, <3>5, <3>7
  <2>. QED BY <2>1, <2>2, <2>3
<1> HIDE DEF T
<1>15. T \in Tables
  <2>1. Range(t) \in SUBSET Ids  BY <1>1, <1>2, <1>5
  <2>. QED BY <1>14, <2>1, TableIs
<1>16. R \in Store
  <2>1. g \in UNION {[D -> Entry] : D \in SUBSET Ids}
    <3>1. Range(S.list) \cup {id} \in SUBSET Ids  BY <1>1, <1>2
    <3>. QED BY <1>10, <3>1
  <2>. QED BY <1>1, <1>4, <1>6, <1>8, <1>15, <2>1 DEF Store
<1>17. Sound(R)
  <2>1. S.histMerg \in {NULL, HEAD} \cup Range(t)  BY <1>5, HistoryIs
  <2>2. DOMAIN g = Range(t)  BY <1>5 DEF g
  <2>. QED BY <1>5, <1>9, <1>11, <1>14, <2>1, <2>2 DEF Sound
<1>18. g[id] = e /\ \A i \in Range(S.list) : g[i] = S.hist[i]  BY <1>2 DEF g
<1>. QED BY <1>9, <1>16, <1>17, <1>18 DEF Histories, R, t, id
\* In R the entries of S up to a position have the numbers of the one before.
Bubbled(S, R, pos, event) ==
  /\ R.list = S.list /\ R.eventno = S.eventno
  /\ \A id \in Range(S.list) :
       /\ R.hist[id].word = S.hist[id].word /\ R.hist[id].dummy = S.hist[id].dummy
       /\ R.hist[id].time = S.hist[id].time
  /\ \A k \in 1 .. Len(S.list) :
       IF k > pos THEN R.hist[S.list[k]] = S.hist[S.list[k]]
       ELSE IF k = 1 THEN R.hist[S.list[k]].num = event /\ R.hist[S.list[k]].ref = event
       ELSE /\ R.hist[S.list[k]].num = S.hist[S.list[k - 1]].num
            /\ R.hist[S.list[k]].ref = S.hist[S.list[k - 1]].ref

LEMMA BubbleIs ==
  ASSUME NEW S \in Histories, NEW pos \in 0 .. Len(S.list), NEW event \in Int
  PROVE  LET R == bubbleHnumHrefDown(S, event, pos) IN
         R \in Histories /\ Bubbled(S, R, pos, event)
<1> DEFINE Num(k) == IF k = 1 THEN event ELSE S.hist[S.list[k - 1]].num
           Ref(k) == IF k = 1 THEN event ELSE S.hist[S.list[k - 1]].ref
           P(id)  == Position(S, id)
           g == [id \in DOMAIN S.hist |->
                   IF \E k \in 1 .. pos : S.list[k] = id
                   THEN [S.hist[id] EXCEPT !.num = Num(P(id)), !.ref = Ref(P(id))]
                   ELSE S.hist[id]]
           R == bubbleHnumHrefDown(S, event, pos)
<1>1. S \in Store /\ Sound(S) /\ DOMAIN S.hist = Range(S.list) /\ Range(S.list) \subseteq Ids
      /\ Len(S.list) \in Nat /\ (\A id \in Range(S.list) : S.hist[id] \in Entry)
      /\ \A i \in 1 .. Len(S.list) : S.list[i] \in Range(S.list)
  BY HistoryIs
<1>2. R = [S EXCEPT !.hist = g]
  <2> DEFINE Given(k) == IF k = 1 THEN [num |-> event, ref |-> event]
                         ELSE [num |-> S.hist[S.list[k - 1]].num, ref |-> S.hist[S.list[k - 1]].ref]
  <2>1. \A k : Given(k).num = Num(k) /\ Given(k).ref = Ref(k)  OBVIOUS
  <2>2. R = [S EXCEPT !.hist = [id \in DOMAIN S.hist |->
                   IF \E k \in 1 .. pos : S.list[k] = id
                   THEN [S.hist[id] EXCEPT !.num = Given(P(id)).num, !.ref = Given(P(id)).ref]
                   ELSE S.hist[id]]]
    BY <1>1 DEF bubbleHnumHrefDown, Store
  <2> HIDE DEF Num, Ref, Given, P
  <2>. QED BY <2>1, <2>2
<1>3. R.list = S.list /\ R.hist = g /\ R.table = S.table /\ R.eventno = S.eventno
      /\ R.histMerg = S.histMerg
  <2> HIDE DEF R, g
  <2>. QED BY <1>1, <1>2 DEF Store
<1>4. \A k \in 1 .. Len(S.list) : Num(k) \in Int /\ Ref(k) \in Int
  <2> SUFFICES ASSUME NEW k \in 1 .. Len(S.list), k # 1 PROVE Num(k) \in Int /\ Ref(k) \in Int
    OBVIOUS
  <2>1. k - 1 \in 1 .. Len(S.list)  BY <1>1
  <2>2. S.hist[S.list[k - 1]] \in Entry  BY <1>1, <2>1
  <2>. QED BY <2>2, EntryIs
<1>5. \A id \in Range(S.list) : P(id) \in 1 .. Len(S.list)  BY PositionIs
<1>6. ASSUME NEW id \in Range(S.list)
      PROVE  /\ g[id] \in Entry /\ g[id].word = S.hist[id].word
             /\ g[id].dummy = S.hist[id].dummy /\ g[id].time = S.hist[id].time
  <2>1. Num(P(id)) \in Int /\ Ref(P(id)) \in Int /\ S.hist[id] \in Entry  BY <1>1, <1>4, <1>5
  <2>2. g[id] \in {S.hist[id], [S.hist[id] EXCEPT !.num = Num(P(id)), !.ref = Ref(P(id))]}
    BY <1>1
  <2> HIDE DEF g, Num, Ref, P
  <2>. QED BY <2>1, <2>2 DEF Entry
<1>7. ASSUME NEW k \in 1 .. Len(S.list)
      PROVE  IF k > pos THEN g[S.list[k]] = S.hist[S.list[k]]
             ELSE g[S.list[k]].num = Num(k) /\ g[S.list[k]].ref = Ref(k)
  <2>1. P(S.list[k]) = k /\ S.list[k] \in DOMAIN S.hist /\ S.hist[S.list[k]] \in Entry
    BY <1>1, PositionOf
  <2>2. (\E i \in 1 .. pos : S.list[i] = S.list[k]) <=> k <= pos
    <3>1. \A i \in 1 .. pos : i \in 1 .. Len(S.list)  BY <1>1
    <3>2. \A i \in 1 .. pos : S.list[i] = S.list[k] => i = k  BY <3>1, PositionOf
    <3>. QED BY <3>1, <3>2
  <2> HIDE DEF Num, Ref, P
  <2>3. CASE k > pos  BY <2>1, <2>2, <2>3
  <2>4. CASE ~(k > pos)
    <3>1. PICK id : id = S.list[k]  OBVIOUS
    <3>2. P(id) = k /\ id \in DOMAIN S.hist /\ S.hist[id] \in Entry
          /\ \E i \in 1 .. pos : S.list[i] = id
      BY <2>1, <2>2, <2>4, <3>1
    <3>3. g[id] = [S.hist[id] EXCEPT !.num = Num(P(id)), !.ref = Ref(P(id))]  BY <3>2
    <3>4. PICK n, m : n = Num(P(id)) /\ m = Ref(P(id))  OBVIOUS
    <3>5. n = Num(k) /\ m = Ref(k)  BY Zenon, <3>2, <3>4
    <3>6. g[id] = [S.hist[id] EXCEPT !.num = n, !.ref = m]  BY <3>3, <3>4
    <3> HIDE DEF g
    <3>7. g[id].num = n /\ g[id].ref = m  BY <3>2, <3>6 DEF Entry
    <3>. QED BY <2>4, <3>1, <3>5, <3>7
  <2>. QED BY <2>3, <2>4
<1> HIDE DEF g, R, Num, Ref, P
<1>8. DOMAIN g = Range(S.list) /\ g = [id \in Range(S.list) |-> g[id]]  BY <1>1 DEF g
<1>9. R \in Store
  <2>1. g \in [Range(S.list) -> Entry]  BY <1>6, <1>8
  <2>2. g \in UNION {[D -> Entry] : D \in SUBSET Ids}
    <3>1. Range(S.list) \in SUBSET Ids  BY <1>1
    <3>. QED BY <2>1, <3>1
  <2>. QED BY <1>1, <1>2, <2>2 DEF Store
<1>10. Sound(R)
  <2>1. Hash(R) = Hash(S)
    <3>1. Hash(R) = [id \in Range(S.list) |-> HashOf[g[id].word]]  BY <1>3, <1>8 DEF Hash
    <3>2. Hash(S) = [id \in Range(S.list) |-> HashOf[S.hist[id].word]]  BY <1>1 DEF Hash
    <3>. QED BY <1>6, <3>1, <3>2
  <2>. QED BY <1>1, <1>3, <1>8, <2>1 DEF Sound
<1>11. R \in Histories  BY <1>9, <1>10 DEF Histories
<1>12. \A k \in 1 .. Len(S.list) :
         IF k > pos THEN g[S.list[k]] = S.hist[S.list[k]]
         ELSE IF k = 1 THEN g[S.list[k]].num = event /\ g[S.list[k]].ref = event
         ELSE /\ g[S.list[k]].num = S.hist[S.list[k - 1]].num
              /\ g[S.list[k]].ref = S.hist[S.list[k - 1]].ref
  BY <1>7 DEF Num, Ref
<1>. QED BY <1>3, <1>6, <1>11, <1>12 DEF R, Bubbled

\* Entered() with the numbers moved on before is what Inserted says.
LEMMA EnteredInserted ==
  ASSUME NEW S \in Histories, NEW B \in Histories, NEW e \in Entry, NEW pos \in 0 .. Len(S.list),
         NEW hashing, NEW event, Len(S.list) < MaxHist, Bubbled(S, B, pos, event),
         IF pos = 0 THEN e.num = event /\ e.ref = event
         ELSE e.num = S.hist[S.list[pos]].num /\ e.ref = S.hist[S.list[pos]].ref
  PROVE  LET R == Entered(B, e, pos, hashing) IN
         R \in Histories /\ Inserted(S, R, e.word, e.dummy, e.time, event)
<1> DEFINE R == Entered(B, e, pos, hashing)
           id == NewId(B)
           g == R.hist
<1>0. B.list = S.list /\ B.eventno = S.eventno  BY DEF Bubbled
<1>1. /\ R \in Histories /\ R.eventno = S.eventno /\ R.list = InsertAt(S.list, pos + 1, id)
      /\ g[id] = e /\ \A i \in Range(S.list) : g[i] = B.hist[i]
  <2>1. pos \in 0 .. Len(B.list) /\ Len(B.list) < MaxHist  BY <1>0
  <2>2. /\ R \in Histories /\ R.eventno = B.eventno /\ R.list = InsertAt(B.list, pos + 1, id)
        /\ R.hist[id] = e /\ \A i \in Range(B.list) : R.hist[i] = B.hist[i]
    BY <2>1, EnteredIs
  <2> HIDE DEF R, id
  <2>. QED BY <1>0, <2>2
<1>2. id \in Ids \ Range(S.list)
  <2>1. NewId(B) \in Ids \ Range(B.list)  BY <1>0, NewIdIs
  <2>. QED BY <1>0, <2>1
<1>3. S.list \in Seq(Ids) /\ Len(S.list) \in Nat
      /\ \A i \in 1 .. Len(S.list) : S.list[i] \in Range(S.list)
  BY HistoryIs
<1> HIDE DEF id, R
<1>4. Len(R.list) = Len(S.list) + 1
      /\ \A i \in 1 .. Len(R.list) :
           R.list[i] = IF i < pos + 1 THEN S.list[i] ELSE IF i = pos + 1 THEN id ELSE S.list[i - 1]
  <2>1. PICK p \in 1 .. Len(S.list) + 1 : p = pos + 1  OBVIOUS
  <2>2. LET t == InsertAt(S.list, p, id) IN
        /\ Len(t) = Len(S.list) + 1
        /\ \A i \in 1 .. Len(t) :
             t[i] = IF i < p THEN S.list[i] ELSE IF i = p THEN id ELSE S.list[i - 1]
    <3>1. PICK x \in Ids : x = id  BY <1>2
    <3>2. PICK s \in Seq(Ids) : s = S.list  BY <1>3
    <3>3. LET t == InsertAt(s, p, x) IN
          /\ Len(t) = Len(s) + 1
          /\ \A i \in 1 .. Len(t) : t[i] = IF i < p THEN s[i] ELSE IF i = p THEN x ELSE s[i - 1]
      BY <3>2, InsertAtIs
    <3>. QED BY <3>1, <3>2, <3>3
  <2>. QED BY <1>1, <2>1, <2>2
<1>5. g[id] = e /\ \A i \in Range(S.list) : g[i] = B.hist[i]  BY <1>1
<1> HIDE DEF g
<1>6. g[R.list[1]].num = event /\ g[R.list[1]].ref = event
  <2>1. CASE pos = 0
    <3>1. R.list[1] = id  BY <1>3, <1>4, <2>1
    <3>. QED BY <1>5, <2>1, <3>1
  <2>2. CASE pos # 0
    <3>1. R.list[1] = S.list[1] /\ 1 \in 1 .. Len(S.list) /\ ~(1 > pos)  BY <1>3, <1>4, <2>2
    <3>2. g[R.list[1]] = B.hist[S.list[1]]  BY <1>3, <1>5, <3>1
    <3>. QED BY <3>1, <3>2 DEF Bubbled
  <2>. QED BY <2>1, <2>2
<1>7. ASSUME NEW k \in 1 .. Len(S.list)
      PROVE  /\ g[R.list[k + 1]].num = S.hist[S.list[k]].num
             /\ g[R.list[k + 1]].ref = S.hist[S.list[k]].ref
  <2>0. k + 1 \in 1 .. Len(R.list) /\ k \in Nat /\ pos \in Nat /\ (k + 1) - 1 = k  BY <1>3, <1>4
  <2>1. CASE k < pos
    <3>1. R.list[k + 1] = S.list[k + 1] /\ k + 1 \in 1 .. Len(S.list) /\ ~(k + 1 > pos) /\ k + 1 # 1
      BY <1>3, <1>4, <2>0, <2>1
    <3>2. g[R.list[k + 1]] = B.hist[S.list[k + 1]]  BY <1>3, <1>5, <3>1
    <3>. QED BY <2>0, <3>1, <3>2 DEF Bubbled
  <2>2. CASE k = pos
    <3>1. R.list[k + 1] = id  BY <1>4, <2>0, <2>2
    <3>. QED BY <1>5, <2>0, <2>2, <3>1
  <2>3. CASE k > pos
    <3>1. R.list[k + 1] = S.list[k]  BY <1>4, <2>0, <2>3
    <3>2. g[R.list[k + 1]] = B.hist[S.list[k]]  BY <1>3, <1>5, <3>1
    <3>. QED BY <2>3, <3>2 DEF Bubbled
  <2>. QED BY <2>0, <2>1, <2>2, <2>3
<1>8. /\ R.hist[id].word = e.word /\ R.hist[id].dummy = e.dummy /\ R.hist[id].time = e.time
      /\ \A i \in Range(S.list) :
           /\ R.hist[i].word = S.hist[i].word /\ R.hist[i].dummy = S.hist[i].dummy
           /\ R.hist[i].time = S.hist[i].time
      /\ R.hist[R.list[1]].num = event /\ R.hist[R.list[1]].ref = event
      /\ \A k \in 1 .. Len(S.list) :
           /\ R.hist[R.list[k + 1]].num = S.hist[S.list[k]].num
           /\ R.hist[R.list[k + 1]].ref = S.hist[S.list[k]].ref
  BY <1>5, <1>6, <1>7 DEF g, Bubbled
<1>9. Inserted(S, R, e.word, e.dummy, e.time, event)
  <2>1. PICK p \in 1 .. Len(S.list) + 1 : p = pos + 1  OBVIOUS
  <2>2. R.list = InsertAt(S.list, p, id) /\ R.eventno = S.eventno  BY <1>1, <2>1
  <2>. QED BY <1>2, <1>8, <2>1, <2>2 DEF Inserted
<1>. QED BY <1>1, <1>9 DEF R

\* What enthist() does with a line that is not on the list, or no longer: it is
\* put there, or an equal one of the same time is there when lines are merged.
AddedTo(S, R, word, dummy, time, event, merge) ==
  \/ /\ Inserted(S, R, word, dummy, time, event)
     /\ merge /\ Sorted(S) => \A id \in Same(S, word, dummy) : S.hist[id].time # time
  \/ merge /\ R.list = S.list /\ R.hist = S.hist /\ R.eventno = S.eventno - 1

Merged(S, R, m, n) == R = [S EXCEPT !.histMerg = m, !.eventno = n]

LEMMA MergIs ==
  ASSUME NEW S \in Histories, NEW m \in {NULL, HEAD} \cup Range(S.list), NEW n \in Int, NEW R,
         Merged(S, R, m, n)
  PROVE  /\ R \in Histories
         /\ R.list = S.list /\ R.hist = S.hist /\ R.table = S.table /\ R.eventno = n
<1>1. S \in Store /\ Sound(S) /\ Range(S.list) \subseteq Ids  BY HistoryIs
<1>2. R \in Store /\ R.list = S.list /\ R.hist = S.hist /\ R.table = S.table /\ R.eventno = n
      /\ R.histMerg = m
  BY <1>1 DEF Store, Merged
<1>3. Hash(R) = Hash(S)  BY <1>2 DEF Hash
<1>4. Sound(R)  BY <1>1, <1>2, <1>3 DEF Sound
<1>. QED BY <1>2, <1>4 DEF Histories

\* In a list that is sorted the entries of a time are together, where lines of
\* that time are merged.
LEMMA MergedBetween ==
  ASSUME NEW S \in Histories, Sorted(S), NEW time \in Nat, NEW up \in Nat, NEW pp \in up .. Len(S.list),
         NEW last \in pp .. Len(S.list),
         up = 0 \/ Htime(S, up) > time, \A k \in up + 1 .. pp : Htime(S, k) > time,
         pp = Len(S.list) \/ Htime(S, pp + 1) <= time,
         \A k \in pp + 1 .. last : Htime(S, k) = time,
         last = Len(S.list) \/ Htime(S, last + 1) # time,
         NEW i \in 1 .. Len(S.list), Htime(S, i) = time
  PROVE  i \in pp + 1 .. last
<1>1. Len(S.list) \in Nat  BY HistoryIs
<1>2. \A k \in 1 .. Len(S.list) : Htime(S, k) \in Nat  BY HtimeIs
<1>3. i > up
  <2> SUFFICES ASSUME i <= up PROVE FALSE  BY <1>1
  <2>1. up \in 1 .. Len(S.list) /\ Htime(S, up) > time  BY <1>1
  <2>2. i = up \/ Htime(S, i) >= Htime(S, up)  BY <1>1, <2>1 DEF Sorted
  <2>. QED BY <1>2, <2>1, <2>2
<1>4. i > pp
  <2> SUFFICES ASSUME i <= pp PROVE FALSE  BY <1>1
  <2>. QED BY <1>1, <1>2, <1>3
<1>5. i <= last
  <2> SUFFICES ASSUME i > last PROVE FALSE  BY <1>1
  <2>1. last + 1 \in 1 .. Len(S.list) /\ Htime(S, last + 1) # time  BY <1>1
  <2>2. i = last + 1 \/ Htime(S, last + 1) >= Htime(S, i)  BY <1>1, <2>1 DEF Sorted
  <2>3. Htime(S, last + 1) <= time
    <3>1. CASE last = pp  BY <1>1, <2>1, <3>1
    <3>2. CASE last # pp
      <4>1. last \in 1 .. Len(S.list) /\ Htime(S, last) = time  BY <1>1, <3>2
      <4>. QED BY <1>1, <2>1, <4>1 DEF Sorted
    <3>. QED BY <3>1, <3>2
  <2>. QED BY <1>2, <2>1, <2>2, <2>3
<1>. QED BY <1>4, <1>5

LEMMA AddIs ==
  ASSUME NEW S \in Histories, NEW event \in Int, NEW word \in Words, NEW dummy \in BOOLEAN,
         NEW time \in Nat, NEW merge \in BOOLEAN, NEW hint \in -1 .. Len(S.list), NEW hashing,
         Len(S.list) < MaxHist
  PROVE  LET R == Add(S, event, word, dummy, time, merge, hint, hashing) IN
         R \in Histories /\ AddedTo(S, R, word, dummy, time, event, merge)
<1> DEFINE count == Len(S.list)
           pp    == mergeInsertionPoint(S, time, hint)
           runs  == {pos \in pp .. count : \A k \in pp + 1 .. pos : Htime(S, k) = time}
           last  == Max(runs)
           equal == \E k \in pp + 1 .. last : S.list[k] \in Same(S, word, dummy)
           S1    == [S EXCEPT !.histMerg = IF pp = 0 THEN HEAD ELSE S.list[pp]]
           S2    == bubbleHnumHrefDown(S1, event, last)
           prev  == S.hist[S.list[last]]
           e     == [word |-> word, dummy |-> dummy, time |-> time, num |-> event, ref |-> event]
           R     == Add(S, event, word, dummy, time, merge, hint, hashing)
<1>1. R = IF ~merge THEN Entered(S, e, 0, hashing)
          ELSE IF equal THEN [S1 EXCEPT !.eventno = @ - 1]
          ELSE IF last = 0 THEN Entered(S1, e, 0, hashing)
          ELSE Entered(S2, [e EXCEPT !.num = prev.num, !.ref = prev.ref], last, hashing)
  BY DEF Add
<1> HIDE DEF R
<1>2. count \in Nat /\ pp \in 0 .. count /\ (pp = count \/ Htime(S, pp + 1) <= time)
      /\ \E up \in 0 .. pp :
           /\ up = 0 \/ Htime(S, up) > time
           /\ \A pos \in up + 1 .. pp : Htime(S, pos) > time
  BY MergePointIs, HistoryIs
<1> HIDE DEF pp
<1>3. last \in pp .. count /\ (\A k \in pp + 1 .. last : Htime(S, k) = time)
      /\ (last = count \/ Htime(S, last + 1) # time)
  <2>1. runs \subseteq 0 .. count /\ pp \in runs  BY <1>2
  <2>2. last \in runs /\ \A q \in runs : q <= last
    <3> HIDE DEF runs, count
    <3>. QED BY <1>2, <2>1, MaxIs
  <2>3. last \in pp .. count /\ \A k \in pp + 1 .. last : Htime(S, k) = time  BY <2>2
  <2>4. ASSUME last # count, Htime(S, last + 1) = time PROVE FALSE
    <3>1. last + 1 \in pp .. count  BY <1>2, <2>3, <2>4
    <3>2. \A k \in pp + 1 .. last + 1 : k \in pp + 1 .. last \/ k = last + 1
      BY <1>2, <2>3
    <3>3. last + 1 \in runs
      <4> HIDE DEF last
      <4>. QED BY <2>3, <2>4, <3>1, <3>2
    <3> HIDE DEF last, runs
    <3>. QED BY <1>2, <2>2, <2>3, <3>3
  <2>. QED BY <2>3, <2>4
<1> HIDE DEF last
<1>4. e \in Entry /\ e.word = word /\ e.dummy = dummy /\ e.time = time /\ e.num = event
      /\ e.ref = event
  BY DEF Entry
<1> HIDE DEF e
<1>5. Bubbled(S, S, 0, event)  BY DEF Bubbled
<1>6. CASE ~merge
  <2>1. 0 \in 0 .. Len(S.list)  BY <1>2
  <2>2. PICK Q : Q = Entered(S, e, 0, hashing)  OBVIOUS
  <2>3. Q \in Histories /\ Inserted(S, Q, e.word, e.dummy, e.time, event)
    BY <1>4, <1>5, <2>1, <2>2, EnteredInserted
  <2>4. R = Q  BY <1>1, <1>6, <2>2
  <2>. QED BY <1>4, <1>6, <2>3, <2>4 DEF AddedTo, R
<1>7. PICK m \in {NULL, HEAD} \cup Range(S.list) : m = IF pp = 0 THEN HEAD ELSE S.list[pp]
  BY <1>2, HistoryIs
<1>8. S1 = [S EXCEPT !.histMerg = m]  BY <1>7
<1>9. S.eventno \in Int /\ S \in Store  BY HistoryIs
<1>10. S1 \in Histories /\ S1.list = S.list /\ S1.hist = S.hist /\ S1.eventno = S.eventno
  <2>1. Merged(S, S1, m, S.eventno)  BY <1>8, <1>9 DEF Store, Merged
  <2> HIDE DEF S1
  <2>. QED BY <1>9, <2>1, MergIs
<1>11. [S1 EXCEPT !.eventno = @ - 1] = [S EXCEPT !.histMerg = m, !.eventno = S.eventno - 1]
  BY <1>8, <1>9 DEF Store
<1> HIDE DEF S1
<1>12. CASE merge /\ equal
  <2>1. Merged(S, R, m, S.eventno - 1)
    <3> HIDE DEF equal
    <3>. QED BY <1>1, <1>11, <1>12 DEF Merged
  <2>2. S.eventno - 1 \in Int  BY <1>9
  <2>3. R \in Histories /\ R.list = S.list /\ R.hist = S.hist /\ R.eventno = S.eventno - 1
    BY <2>1, <2>2, MergIs
  <2>. QED BY <1>12, <2>3 DEF AddedTo, R
<1>13. ASSUME Sorted(S), ~equal PROVE \A id \in Same(S, word, dummy) : S.hist[id].time # time
  <2> SUFFICES ASSUME NEW id \in Same(S, word, dummy), S.hist[id].time = time PROVE FALSE
    OBVIOUS
  <2>1. id \in Range(S.list)  BY DEF Same
  <2>2. PICK k \in 1 .. Len(S.list) : S.list[k] = id  BY <2>1, HistoryIs
  <2>3. Htime(S, k) = time  BY <2>2, HtimeIs
  <2>4. PICK up \in 0 .. pp : /\ up = 0 \/ Htime(S, up) > time
                              /\ \A pos \in up + 1 .. pp : Htime(S, pos) > time
    BY <1>2
  <2>5. up \in Nat /\ pp \in up .. Len(S.list) /\ last \in pp .. Len(S.list)  BY <1>2, <1>3
  <2>6. k \in pp + 1 .. last
    <3>1. PICK q : q = last  OBVIOUS
    <3>2. PICK p : p = pp  OBVIOUS
    <3>. QED BY <1>2, <1>3, <1>13, <2>3, <2>4, <2>5, <3>1, <3>2, MergedBetween
  <2>. QED BY <1>13, <2>2, <2>6
<1> HIDE DEF equal
<1>14. CASE merge /\ ~equal /\ last = 0
  <2>1. 0 \in 0 .. Len(S.list)  BY <1>2
  <2>2. Bubbled(S, S1, 0, event)  BY <1>10 DEF Bubbled
  <2>3. PICK Q : Q = Entered(S1, e, 0, hashing)  OBVIOUS
  <2>4. Q \in Histories /\ Inserted(S, Q, e.word, e.dummy, e.time, event)
    BY <1>4, <1>10, <2>1, <2>2, <2>3, EnteredInserted
  <2>5. R = Q  BY <1>1, <1>14, <2>3
  <2>. QED BY <1>4, <1>13, <1>14, <2>4, <2>5 DEF AddedTo, R
<1>15. CASE merge /\ ~equal /\ last # 0
  <2>1. last \in 0 .. Len(S.list) /\ last \in 0 .. Len(S1.list) /\ last \in 1 .. Len(S.list)
    BY <1>2, <1>3, <1>10, <1>15
  <2>2. S2 \in Histories /\ Bubbled(S1, S2, last, event)  BY <1>10, <2>1, BubbleIs
  <2> HIDE DEF S2
  <2>3. Bubbled(S, S2, last, event)  BY <1>10, <2>2 DEF Bubbled
  <2> DEFINE e2 == [e EXCEPT !.num = prev.num, !.ref = prev.ref]
  <2>4. prev \in Entry  BY <2>1, HistoryIs
  <2>5. e2 \in Entry /\ e2.word = word /\ e2.dummy = dummy /\ e2.time = time
        /\ e2.num = prev.num /\ e2.ref = prev.ref
    <3> HIDE DEF prev
    <3>. QED BY <1>4, <2>4 DEF Entry
  <2>6. R = Entered(S2, e2, last, hashing)  BY <1>1, <1>15
  <2> HIDE DEF e2
  <2>7. PICK Q : Q = Entered(S2, e2, last, hashing)  OBVIOUS
  <2>8. Q \in Histories /\ Inserted(S, Q, e2.word, e2.dummy, e2.time, event)
    <3>1. IF last = 0 THEN e2.num = event /\ e2.ref = event
          ELSE e2.num = S.hist[S.list[last]].num /\ e2.ref = S.hist[S.list[last]].ref
      BY <1>15, <2>5
    <3> HIDE DEF prev
    <3>. QED BY <2>1, <2>2, <2>3, <2>5, <2>7, <3>1, EnteredInserted
  <2>9. R = Q  BY <2>6, <2>7
  <2>. QED BY <1>13, <1>15, <2>5, <2>8, <2>9 DEF AddedTo, R
<1>. QED BY <1>6, <1>12, <1>14, <1>15

\* The words of the entries are what they were: the table still holds them.
LEMMA AlteredIs ==
  ASSUME NEW S \in Histories, NEW R \in Store, R.list = S.list, R.histMerg = S.histMerg,
         R.table = S.table, DOMAIN R.hist = Range(S.list),
         \A id \in Range(S.list) : R.hist[id].word = S.hist[id].word
  PROVE  R \in Histories
<1>1. Sound(S) /\ DOMAIN S.hist = Range(S.list)  BY HistoryIs
<1>2. Hash(R) = Hash(S)  BY <1>1 DEF Hash
<1>. QED BY <1>1, <1>2 DEF Sound, Histories

Tabled(S, R, T) == R = [S EXCEPT !.table = T]

LEMMA TabledIs ==
  ASSUME NEW S \in Histories, NEW T, Good(T, Range(S.list), Hash(S)), NEW R, Tabled(S, R, T)
  PROVE  /\ R \in Histories /\ R.list = S.list /\ R.hist = S.hist /\ R.eventno = S.eventno
         /\ R.table = T
<1>1. S \in Store /\ Sound(S) /\ Range(S.list) \in SUBSET Ids  BY HistoryIs
<1>2. T \in Tables  BY <1>1, TableIs
<1>3. R \in Store /\ R.list = S.list /\ R.hist = S.hist /\ R.eventno = S.eventno
      /\ R.table = T /\ R.histMerg = S.histMerg
  BY <1>1, <1>2 DEF Store, Tabled
<1>4. Hash(R) = Hash(S)  BY <1>3 DEF Hash
<1>. QED BY <1>1, <1>3, <1>4 DEF Sound, Histories

LEMMA AddedSame ==
  ASSUME NEW S, NEW Q, NEW R, Q.list = S.list, Q.hist = S.hist, Q.eventno = S.eventno,
         NEW word, NEW dummy, NEW time, NEW event, NEW merge,
         AddedTo(Q, R, word, dummy, time, event, merge)
  PROVE  AddedTo(S, R, word, dummy, time, event, merge)
<1>1. Sorted(Q) = Sorted(S)  BY DEF Sorted, Htime
<1>2. Same(Q, word, dummy) = Same(S, word, dummy)  BY DEF Same
<1>3. Inserted(Q, R, word, dummy, time, event) => Inserted(S, R, word, dummy, time, event)
  BY DEF Inserted
<1>. QED BY <1>1, <1>2, <1>3 DEF AddedTo

\* What enthist() may do: nothing, if it meets an assert(); put the line on the
\* list; take an equal one off first; or give an equal one the time.
EnteredAs(S, R, event, word, dummy, stamp, now, merge, hlen) ==
  LET time == IF stamp # 0 THEN stamp ELSE now IN
  \/ R.list = S.list /\ R.hist = S.hist /\ R.eventno = S.eventno
  \/ /\ AddedTo(S, R, word, dummy, time, event, merge)
     /\ histdup \in {"erase", "all"} /\ hlen > 0 => Same(S, word, dummy) = {}
  \/ /\ histdup = "erase"
     /\ \E id \in Same(S, word, dummy), Q \in Histories, t \in Nat :
          /\ Thinned(S, Q) /\ Range(Q.list) = Range(S.list) \ {id}
          /\ stamp = 0 => t = now
          /\ AddedTo(Q, R, word, dummy, t, event, merge)
  \/ /\ histdup \in {"all", "prev"}
     /\ \E id \in Same(S, word, dummy) :
          /\ R.list = S.list /\ R.eventno = S.eventno - 1
          /\ R.hist = [S.hist EXCEPT ![id].time = time]

LEMMA EnthistIs ==
  ASSUME NEW S \in Histories, NEW event \in Int, NEW word \in Words, NEW dummy \in BOOLEAN,
         NEW stamp \in Nat, NEW now \in Nat, NEW merge \in BOOLEAN, NEW hlen \in Int,
         Len(S.list) < MaxHist, histlen \in Nat
  PROVE  LET R == enthist(S, event, word, dummy, stamp, now, merge, hlen) IN
         R \in Histories /\ EnteredAs(S, R, event, word, dummy, stamp, now, merge, hlen)
<1> DEFINE hashing == histdup \in {"erase", "all"}
           same    == Same(S, word, dummy)
           created == IF S.table = ABORT THEN ABORT
                      ELSE create(S.table, S.list, Hash(S), hlen, histlen)
           looked  == IF created = ABORT THEN [entry |-> EMPTY, table |-> ABORT]
                      ELSE find(created, S.list, Hash(S), HashOf[word], same)
           S1      == IF hashing THEN [S EXCEPT !.table = looked.table] ELSE S
           p       == IF hashing THEN looked.entry
                      ELSE IF histdup = "prev" /\ S.list # << >> /\ S.list[1] \in same
                      THEN S.list[1] ELSE EMPTY
           keep    == hashing /\ hlen # 0
           time    == IF stamp # 0 THEN stamp ELSE now
           pos     == Position(S, p)
           stamp1  == IF stamp # 0 /\ S.hist[p].time > stamp THEN S.hist[p].time ELSE stamp
           hint    == IF merge /\ stamp1 # 0 /\ Htime(S, pos - 1) >= stamp1 THEN pos - 1 ELSE -1
           t       == IF stamp1 # 0 THEN stamp1 ELSE now
           R       == enthist(S, event, word, dummy, stamp, now, merge, hlen)
<1>1. R = IF S1.table = ABORT THEN S1
          ELSE IF p = EMPTY THEN Add(S1, event, word, dummy, time, merge, -1, keep)
          ELSE IF histdup = "erase"
          THEN Add(hremove(S1, pos), event, word, dummy, t, merge, hint, keep)
          ELSE [S1 EXCEPT !.eventno = @ - 1, !.hist[p].time = time]
  BY Zenon DEF enthist
<1> HIDE DEF R
<1>2. same \subseteq Range(S.list) /\ \A id \in same : Hash(S)[id] = HashOf[word]
  BY HashIs DEF Same
<1>3. S.list \in Seq(Nat) /\ IsInjective(S.list) /\ Hashed(Range(S.list), Hash(S))
      /\ Good(S.table, Range(S.list), Hash(S)) /\ HashOf[word] \in Nat /\ S \in Store
      /\ Len(S.list) \in Nat /\ Range(S.list) \subseteq Nat \ {0} /\ S.eventno \in Int
  BY HistoryIs, HashIs, HistListAssumption DEF Sound
<1> HIDE DEF same
<1>4. /\ Good(created, Range(S.list), Hash(S))
      /\ hlen > 0 => created # NoTable
  <2>1. PICK T : T = S.table  OBVIOUS
  <2>2. PICK h : h = Hash(S)  OBVIOUS
  <2>3. Good(create(T, S.list, h, hlen, histlen), Range(S.list), h)
        /\ (create(T, S.list, h, hlen, histlen) = NoTable => hlen = 0 \/ (hlen < 0 /\ histlen <= 0))
    BY <1>3, <2>1, <2>2, CreateHolds
  <2>4. CASE S.table = ABORT
    <3>1. created = ABORT  BY <2>4
    <3>2. Good(ABORT, Range(S.list), Hash(S))  BY DEF Good
    <3>3. ABORT # NoTable  BY NoTableNotAbort
    <3> HIDE DEF created
    <3>. QED BY <3>1, <3>2, <3>3
  <2>5. CASE S.table # ABORT
    <3>1. created = create(T, S.list, h, hlen, histlen)  BY <2>1, <2>2, <2>5
    <3> HIDE DEF created
    <3>. QED BY <2>2, <2>3, <3>1
  <2>. QED BY <2>4, <2>5
<1> HIDE DEF created
<1>5. /\ Good(looked.table, Range(S.list), Hash(S))
      /\ looked.entry \in same \cup {EMPTY}
      /\ hlen > 0 /\ looked.table # ABORT /\ looked.entry = EMPTY => same = {}
  <2>1. CASE created = ABORT
    <3>1. looked.entry = EMPTY /\ looked.table = ABORT  BY <2>1
    <3> HIDE DEF looked
    <3>. QED BY <3>1 DEF Good
  <2>2. CASE created # ABORT
    <3>1. PICK h : h = Hash(S)  OBVIOUS
    <3>2. PICK m \in SUBSET Range(S.list) : m = same  BY <1>2
    <3>3. PICK n \in Nat : n = HashOf[word]  BY <1>3
    <3>4. PICK f : f = find(created, S.list, h, n, m)  OBVIOUS
    <3>5. \A id \in m : h[id] = n  BY <1>2, <3>1, <3>2, <3>3
    <3>6. Hashed(Range(S.list), h) /\ Good(created, Range(S.list), h)  BY <1>3, <1>4, <3>1
    <3>7. /\ Good(f.table, Range(S.list), h)
          /\ f.entry \in m \cup {EMPTY}
          /\ created # NoTable /\ f.table # ABORT /\ f.entry = EMPTY => m = {}
      BY <1>3, <2>2, <3>4, <3>5, <3>6, FindHolds
    <3>8. looked = f  BY <2>2, <3>1, <3>2, <3>3, <3>4
    <3> HIDE DEF looked
    <3>. QED BY <1>4, <3>1, <3>2, <3>7, <3>8
  <2>. QED BY <2>1, <2>2
<1> HIDE DEF looked
<1>6. S1 \in Histories /\ S1.list = S.list /\ S1.hist = S.hist /\ S1.eventno = S.eventno
      /\ (hashing => S1.table = looked.table)
  <2>1. CASE hashing
    <3>1. Tabled(S, S1, looked.table)  BY <2>1 DEF Tabled
    <3> HIDE DEF S1
    <3>2. PICK T : T = looked.table  OBVIOUS
    <3>3. Good(T, Range(S.list), Hash(S)) /\ Tabled(S, S1, T)  BY <1>5, <3>1, <3>2
    <3>. QED BY <3>2, <3>3, TabledIs
  <2>2. CASE ~hashing  BY <2>2
  <2>. QED BY <2>1, <2>2
<1>7. p \in same \cup {EMPTY}  BY <1>5
<1>8. hashing /\ hlen > 0 /\ S1.table # ABORT /\ p = EMPTY => same = {}
  <2> HIDE DEF S1
  <2>. QED BY <1>5, <1>6
<1>9. p # EMPTY => histdup \in {"erase", "all", "prev"}  OBVIOUS
<1> HIDE DEF S1, p
<1>10. time \in Nat  OBVIOUS
<1> HIDE DEF keep
<1>11. CASE S1.table = ABORT
  <2>1. R = S1  BY <1>1, <1>11
  <2>2. R \in Histories /\ R.list = S.list /\ R.hist = S.hist /\ R.eventno = S.eventno
    BY <1>6, <2>1
  <2>. QED BY <2>2 DEF EnteredAs, R
<1>12. CASE S1.table # ABORT /\ p = EMPTY
  <2>1. R = Add(S1, event, word, dummy, time, merge, -1, keep)  BY <1>1, <1>12
  <2> HIDE DEF time
  <2>2. -1 \in -1 .. Len(S1.list) /\ Len(S1.list) < MaxHist  BY <1>3, <1>6
  <2>3. R \in Histories /\ AddedTo(S1, R, word, dummy, time, event, merge)
    BY <1>6, <1>10, <2>1, <2>2, AddIs
  <2>4. AddedTo(S, R, word, dummy, time, event, merge)  BY <1>6, <2>3, AddedSame
  <2>5. hashing /\ hlen > 0 => same = {}  BY <1>8, <1>12
  <2>. QED BY <2>3, <2>4, <2>5 DEF EnteredAs, R, time, same
<1>13. CASE S1.table # ABORT /\ p # EMPTY
  <2>1. p \in same /\ p \in Range(S.list)  BY <1>2, <1>7, <1>13
  <2>2. pos \in 1 .. Len(S.list) /\ S.list[pos] = p  BY <2>1, PositionIs
  <2>3. S.hist[p] \in Entry /\ S.hist[p].time \in Nat  BY <2>1, HistoryIs, EntryIs
  <2> HIDE DEF pos
  <2>4. CASE histdup = "erase"
    <3>1. R = Add(hremove(S1, pos), event, word, dummy, t, merge, hint, keep)
      BY <1>1, <1>13, <2>4
    <3>2. stamp1 \in Nat /\ (stamp = 0 => stamp1 = 0)  BY <2>3
    <3>3. t \in Nat /\ (stamp = 0 => t = now)
      <4> HIDE DEF stamp1
      <4>. QED BY <3>2
    <3>4. hint \in -1 .. Len(S.list) - 1
      <4> HIDE DEF stamp1
      <4>. QED BY <1>3, <2>2
    <3> HIDE DEF t, hint, stamp1
    <3> DEFINE Q == hremove(S1, pos)
    <3>5. pos \in 1 .. Len(S1.list)  BY <1>6, <2>2
    <3>6. Q \in Histories /\ Thinned(S1, Q) /\ Range(Q.list) = Range(S1.list) \ {S1.list[pos]}
          /\ Len(Q.list) = Len(S1.list) - 1
      BY <1>6, <3>5, HremoveIs
    <3> HIDE DEF Q
    <3>7. Thinned(S, Q) /\ Range(Q.list) = Range(S.list) \ {p} /\ Len(Q.list) = Len(S.list) - 1
      BY <1>6, <2>2, <3>6 DEF Thinned
    <3>8. hint \in -1 .. Len(Q.list) /\ Len(Q.list) < MaxHist
      <4>1. PICK n : n = Len(Q.list)  OBVIOUS
      <4>2. n = Len(S.list) - 1  BY <3>7, <4>1
      <4>3. MaxHist \in Nat  BY HistListAssumption
      <4>4. hint \in -1 .. n /\ n < MaxHist  BY <1>3, <3>4, <4>2, <4>3
      <4>. QED BY <4>1, <4>4
    <3>9. R = Add(Q, event, word, dummy, t, merge, hint, keep)  BY <3>1 DEF Q
    <3>10. R \in Histories /\ AddedTo(Q, R, word, dummy, t, event, merge)
      <4>1. PICK h \in -1 .. Len(Q.list) : h = hint  BY <3>8
      <4>2. PICK tt \in Nat : tt = t  BY <3>3
      <4>3. R = Add(Q, event, word, dummy, tt, merge, h, keep)  BY <3>9, <4>1, <4>2
      <4>4. R \in Histories /\ AddedTo(Q, R, word, dummy, tt, event, merge)
        <5>1. PICK B \in Histories : B = Q  BY <3>6
        <5>2. h \in -1 .. Len(B.list) /\ Len(B.list) < MaxHist  BY <3>8, <5>1
        <5>3. LET A == Add(B, event, word, dummy, tt, merge, h, keep) IN
              A \in Histories /\ AddedTo(B, A, word, dummy, tt, event, merge)
          BY <5>2, AddIs
        <5>. QED BY <4>3, <5>1, <5>3
      <4>. QED BY <4>2, <4>4
    <3>. QED BY <2>1, <2>4, <3>3, <3>6, <3>7, <3>10 DEF EnteredAs, R, same
  <2>5. CASE histdup # "erase"
    <3>1. R = [S1 EXCEPT !.eventno = @ - 1, !.hist[p].time = time]  BY <1>1, <1>13, <2>5
    <3>2. S1 \in Store /\ S1.hist = S.hist /\ DOMAIN S.hist = Range(S.list)
          /\ Range(S.list) \subseteq Ids /\ \A id \in Range(S.list) : S.hist[id] \in Entry
      BY <1>6, HistoryIs
    <3> HIDE DEF time
    <3> DEFINE g == [S.hist EXCEPT ![p].time = time]
    <3>3. R = [S1 EXCEPT !.eventno = S.eventno - 1, !.hist = g]
      BY <1>6, <3>1, <3>2 DEF Store
    <3>4. /\ DOMAIN g = Range(S.list) /\ g = [id \in Range(S.list) |-> g[id]]
          /\ \A id \in Range(S.list) : g[id] \in Entry /\ g[id].word = S.hist[id].word
      BY <1>10, <2>1, <2>3, <3>2 DEF Entry
    <3> HIDE DEF g
    <3>5. g \in UNION {[D -> Entry] : D \in SUBSET Ids}
      <4>1. g \in [Range(S.list) -> Entry]  BY <3>4
      <4>. QED BY <3>2, <4>1
    <3>6. S.eventno - 1 \in Int  BY <1>3
    <3>7. R \in Store /\ R.list = S1.list /\ R.histMerg = S1.histMerg /\ R.table = S1.table
          /\ R.hist = g /\ R.eventno = S.eventno - 1
      BY <3>2, <3>3, <3>5, <3>6 DEF Store
    <3>8. R \in Histories
      <4>1. DOMAIN R.hist = Range(S1.list)  BY <1>6, <3>4, <3>7
      <4>2. \A id \in Range(S1.list) : R.hist[id].word = S1.hist[id].word
        BY <1>6, <3>4, <3>7
      <4>. QED BY <1>6, <3>7, <4>1, <4>2, AlteredIs
    <3>9. histdup \in {"all", "prev"}  BY <1>9, <1>13, <2>5
    <3>. QED BY <1>6, <2>1, <3>7, <3>8, <3>9 DEF EnteredAs, R, g, same, time
  <2>. QED BY <2>4, <2>5
<1>. QED BY <1>11, <1>12, <1>13

-----------------------------------------------------------------------------
(* What a step does to the history.                                         *)

\* Every state of the shell: the history is one of Histories.
HistInv ==
  /\ H \in Histories
  /\ histlen \in Lengths /\ histdup \in Modes
  /\ clock \in 1 .. MaxTime /\ lexing \in BOOLEAN

\* A line has been entered: the next event, of which E is made, and R from it
\* when old entries are dropped.
Saved(S, E, R, word, stamp, now, merge) ==
  \E S1 \in Histories :
    /\ S1.list = S.list /\ S1.hist = S.hist /\ S1.eventno = S.eventno + 1
    /\ E \in Histories /\ EnteredAs(S1, E, S1.eventno, word, FALSE, stamp, now, merge, histlen)
    /\ Thinned(E, R) /\ Kept(E, R, histlen)
    /\ histlen = 0 => R.list = << >>

LEMMA SavehistIs ==
  ASSUME NEW S \in Histories, NEW word \in Words, NEW stamp \in Nat, NEW now \in Nat,
         NEW merge \in BOOLEAN, Len(S.list) < MaxHist, histlen \in Nat
  PROVE  LET R == savehist(S, word, stamp, now, merge) IN
         R \in Histories /\ \E E \in Histories : Saved(S, E, R, word, stamp, now, merge)
<1> DEFINE S1 == [S EXCEPT !.eventno = @ + 1]
           E  == enthist(S1, S1.eventno, word, FALSE, stamp, now, merge, histlen)
           R  == discardExcess(E, histlen)
<1>1. S \in Store /\ S.eventno \in Int /\ S.histMerg \in {NULL, HEAD} \cup Range(S.list)
  BY HistoryIs
<1>2. S1 \in Histories /\ S1.list = S.list /\ S1.hist = S.hist /\ S1.eventno = S.eventno + 1
  <2>1. PICK m \in {NULL, HEAD} \cup Range(S.list) : m = S.histMerg  BY <1>1
  <2>2. PICK n \in Int : n = S.eventno + 1  BY <1>1
  <2>3. Merged(S, S1, m, n)  BY <1>1, <2>1, <2>2 DEF Store, Merged
  <2> HIDE DEF S1
  <2>. QED BY <2>2, <2>3, MergIs
<1>3. savehist(S, word, stamp, now, merge) = R  BY DEF savehist
<1> HIDE DEF S1
<1>4. E \in Histories /\ EnteredAs(S1, E, S1.eventno, word, FALSE, stamp, now, merge, histlen)
  <2>1. PICK n \in Int : n = S1.eventno  BY <1>1, <1>2
  <2>2. PICK h \in Int : h = histlen  OBVIOUS
  <2>3. Len(S1.list) < MaxHist  BY <1>2
  <2>4. LET A == enthist(S1, n, word, FALSE, stamp, now, merge, h) IN
        A \in Histories /\ EnteredAs(S1, A, n, word, FALSE, stamp, now, merge, h)
    BY <1>2, <2>3, EnthistIs
  <2>. QED BY <2>1, <2>2, <2>4
<1> HIDE DEF E
<1>5. R \in Histories /\ Thinned(E, R) /\ Kept(E, R, histlen) /\ (histlen = 0 => R.list = << >>)
  BY <1>4, DiscardExcessIs
<1> HIDE DEF R
<1>6. Saved(S, E, R, word, stamp, now, merge)  BY <1>2, <1>4, <1>5 DEF Saved
<1>. QED BY <1>3, <1>4, <1>5, <1>6

\* Typed, or read from a file.
Enters(word, stamp, now, merge) ==
  /\ Room /\ \E E \in Histories : Saved(H, E, H', word, stamp, now, merge)
  /\ histlen' = histlen /\ histdup' = histdup
  /\ stamp \in Nat /\ now \in Nat /\ clock' \in Nat
  /\ IF stamp = 0 THEN clock' = now /\ clock <= now /\ ~merge
     ELSE clock' = clock /\ (~merge => "load" \in Loads)

\* A dummy entry is made.
Substitutes(word) ==
  /\ Room /\ Cardinality({id \in Range(H.list) : H.hist[id].dummy}) < MaxDummies
  /\ EnteredAs(H, H', HIST_PURGE, word, TRUE, 0, clock, FALSE, -1)
  /\ histlen' = histlen /\ histdup' = histdup /\ clock' = clock

\* Entries are dropped, one is referred to, or nothing happens to them.
Drops == Thinned(H, H') /\ clock' = clock

Refers ==
  /\ H'.list = H.list /\ H'.eventno = H.eventno /\ clock' = clock
  /\ \E r \in Range(H.list) :
       /\ H'.hist[r].ref = H.eventno
       /\ \A id \in Range(H.list) :
            /\ H'.hist[id].word = H.hist[id].word /\ H'.hist[id].dummy = H.hist[id].dummy
            /\ H'.hist[id].time = H.hist[id].time /\ H'.hist[id].num = H.hist[id].num
            /\ id # r => H'.hist[id].ref = H.hist[id].ref

Step ==
  \/ \E word \in Words, stamp, now \in Nat, merge \in BOOLEAN : Enters(word, stamp, now, merge)
  \/ \E word \in Words : Substitutes(word)
  \/ Drops
  \/ Refers

LEMMA ReferIs ==
  ASSUME HistInv, NEW n \in 1 .. MaxEvents, Refer(n)
  PROVE  H' \in Histories /\ Refers
<1> DEFINE at  == {k \in 1 .. Len(H.list) : H.hist[H.list[k]].num = n}
           pos == Min(at)
           r   == H.list[pos]
           g   == [H.hist EXCEPT ![r].ref = H.eventno]
<1>1. H \in Histories /\ clock' = clock /\ (\E id \in Range(H.list) : H.hist[id].num = n)
      /\ H' = [H EXCEPT !.hist[r].ref = H.eventno]
  BY DEF HistInv, Refer
<1>2. H \in Store /\ H.eventno \in Int /\ DOMAIN H.hist = Range(H.list) /\ Range(H.list) \subseteq Ids
      /\ Len(H.list) \in Nat /\ (\A id \in Range(H.list) : H.hist[id] \in Entry)
      /\ (\A i \in 1 .. Len(H.list) : H.list[i] \in Range(H.list))
      /\ (\A id \in Range(H.list) : \E i \in 1 .. Len(H.list) : id = H.list[i])
  BY <1>1, HistoryIs
<1>3. r \in Range(H.list)
  <2>1. PICK id \in Range(H.list) : H.hist[id].num = n  BY <1>1
  <2>2. PICK k \in 1 .. Len(H.list) : H.list[k] = id  BY <1>2, <2>1
  <2>3. k \in at  BY <2>1, <2>2
  <2>4. at \subseteq Nat  BY <1>2
  <2>5. pos \in at
    <3> HIDE DEF at
    <3>. QED BY <2>3, <2>4, MinIs
  <2>6. pos \in 1 .. Len(H.list)  BY <2>5
  <2> HIDE DEF pos
  <2>. QED BY <1>2, <2>6
<1> HIDE DEF pos, r
<1>4. H' = [H EXCEPT !.hist = g]  BY <1>1, <1>2 DEF Store
<1>5. /\ DOMAIN g = Range(H.list) /\ g = [id \in Range(H.list) |-> g[id]]
      /\ g[r].ref = H.eventno
      /\ \A id \in Range(H.list) :
           /\ g[id] \in Entry
           /\ g[id].word = H.hist[id].word /\ g[id].dummy = H.hist[id].dummy
           /\ g[id].time = H.hist[id].time /\ g[id].num = H.hist[id].num
           /\ id # r => g[id].ref = H.hist[id].ref
  BY <1>2, <1>3 DEF Entry
<1> HIDE DEF g
<1>6. g \in UNION {[D -> Entry] : D \in SUBSET Ids}
  <2>1. g \in [Range(H.list) -> Entry]  BY <1>5
  <2>. QED BY <1>2, <2>1
<1>7. H' \in Store /\ H'.list = H.list /\ H'.histMerg = H.histMerg /\ H'.table = H.table
      /\ H'.hist = g /\ H'.eventno = H.eventno
  BY <1>2, <1>4, <1>6 DEF Store
<1>8. H' \in Histories
  <2>1. DOMAIN (H'.hist) = Range(H.list) /\ \A id \in Range(H.list) : H'.hist[id].word = H.hist[id].word
    BY <1>5, <1>7
  <2>. QED BY <1>1, <1>7, <2>1, AlteredIs
<1>. QED BY <1>1, <1>3, <1>5, <1>7, <1>8 DEF Refers

LEMMA StepIs ==
  ASSUME HistInv, [Next]_vars
  PROVE  HistInv' /\ Step
<1>1. H \in Histories /\ histlen \in Lengths /\ histdup \in Modes /\ clock \in 1 .. MaxTime
      /\ lexing \in BOOLEAN /\ histlen \in Nat /\ MaxTime \in Nat /\ Lengths \subseteq Nat
  BY HistListAssumption DEF HistInv
<1>2. ASSUME NEW word \in Words, Type(word) PROVE HistInv' /\ Step
  <2>1. PICK now \in clock .. MaxTime : clock' = now /\ H' = savehist(H, word, 0, now, FALSE)
    BY <1>2 DEF Type
  <2>2. now \in Nat /\ 0 \in Nat /\ FALSE \in BOOLEAN /\ now \in 1 .. MaxTime  BY <1>1
  <2>3. Room /\ Len(H.list) < MaxHist /\ UNCHANGED <<histlen, histdup, lexing>>  BY <1>2 DEF Type, Room
  <2>4. H' \in Histories /\ \E E \in Histories : Saved(H, E, H', word, 0, now, FALSE)
    BY <1>1, <2>1, <2>2, <2>3, SavehistIs
  <2>5. Enters(word, 0, now, FALSE)
    <3>1. clock <= now /\ clock' = now /\ clock' \in Nat  BY <1>1, <2>1, <2>2
    <3>2. histlen' = histlen /\ histdup' = histdup  BY <2>3
    <3>. QED BY Zenon, <2>2, <2>3, <2>4, <3>1, <3>2 DEF Enters
  <2>6. Step  BY <2>2, <2>5 DEF Step
  <2>. QED BY <1>1, <2>1, <2>2, <2>3, <2>4, <2>6 DEF HistInv
<1>3. ASSUME NEW word \in Words, NEW how \in Loads, Load(word, how) PROVE HistInv' /\ Step
  <2> DEFINE merge == how = "merge"
  <2>1. PICK stamp \in 1 .. clock : H' = savehist(H, word, stamp, clock, merge)
    BY <1>3 DEF Load
  <2>2. clock \in Nat /\ stamp \in Nat /\ stamp # 0 /\ merge \in BOOLEAN
        /\ (~merge => "load" \in Loads)
    <3>1. how \in {"merge", "load"}  BY HistListAssumption
    <3>2. clock \in Nat /\ stamp \in Nat /\ stamp # 0  BY <1>1
    <3>. QED BY <3>1, <3>2
  <2>3. Room /\ Len(H.list) < MaxHist /\ UNCHANGED <<histlen, histdup, clock, lexing>>
    BY <1>3 DEF Load, Room
  <2> HIDE DEF merge
  <2>4. H' \in Histories /\ \E E \in Histories : Saved(H, E, H', word, stamp, clock, merge)
    BY <1>1, <2>1, <2>2, <2>3, SavehistIs
  <2>5. Enters(word, stamp, clock, merge)  BY <2>2, <2>3, <2>4 DEF Enters
  <2>6. Step  BY <2>2, <2>5 DEF Step
  <2>. QED BY <1>1, <2>3, <2>4, <2>6 DEF HistInv
<1>4. ASSUME NEW word \in Words, Dosub(word) PROVE HistInv' /\ Step
  <2>1. H' = enthist(H, HIST_PURGE, word, TRUE, 0, clock, FALSE, -1) /\ lexing' = TRUE
        /\ UNCHANGED <<histlen, histdup, clock>> /\ Room
        /\ Cardinality({id \in Range(H.list) : H.hist[id].dummy}) < MaxDummies
    BY <1>4 DEF Dosub
  <2>2. clock \in Nat /\ 0 \in Nat /\ FALSE \in BOOLEAN /\ TRUE \in BOOLEAN /\ -1 \in Int
        /\ HIST_PURGE \in Int /\ Len(H.list) < MaxHist
    BY <1>1, <2>1 DEF HIST_PURGE, Room
  <2>3. H' \in Histories /\ EnteredAs(H, H', HIST_PURGE, word, TRUE, 0, clock, FALSE, -1)
    BY <1>1, <2>1, <2>2, EnthistIs
  <2>4. Substitutes(word)  BY <2>1, <2>3 DEF Substitutes
  <2>. QED BY <1>1, <2>1, <2>3, <2>4 DEF HistInv, Step
<1>5. ASSUME NEW n \in 1 .. MaxEvents, Refer(n) PROVE HistInv' /\ Step
  <2>1. H' \in Histories /\ Refers  BY <1>5, ReferIs
  <2>2. UNCHANGED <<histlen, histdup, clock, lexing>>  BY <1>5 DEF Refer
  <2>. QED BY <1>1, <2>1, <2>2 DEF HistInv, Step
<1>6. ASSUME NEW n \in Lengths, Sethistory(n) PROVE HistInv' /\ Step
  <2>1. histlen' = n /\ H' = discardExcess(H, n) /\ UNCHANGED <<histdup, clock, lexing>>
    BY <1>6 DEF Sethistory
  <2>2. n \in Nat  BY <1>1
  <2>3. H' \in Histories /\ Thinned(H, H')  BY <1>1, <2>1, <2>2, DiscardExcessIs
  <2>. QED BY <1>1, <2>1, <2>3 DEF HistInv, Step, Drops
<1>7. ASSUME NEW mode \in Modes, SetHistdup(mode) PROVE HistInv' /\ Step
  <2>1. histdup' = mode /\ UNCHANGED <<H, histlen, clock, lexing>>  BY <1>7 DEF SetHistdup
  <2>2. Thinned(H, H')  BY <1>1, <2>1, ThinnedSame
  <2>. QED BY <1>1, <2>1, <2>2 DEF HistInv, Step, Drops
<1>8. CASE ThrowAway
  <2>1. H' = discardExcess(H, histlen) /\ lexing' = FALSE /\ UNCHANGED <<histlen, histdup, clock>>
    BY <1>8 DEF ThrowAway
  <2>2. H' \in Histories /\ Thinned(H, H')  BY <1>1, <2>1, DiscardExcessIs
  <2>. QED BY <1>1, <2>1, <2>2 DEF HistInv, Step, Drops
<1>9. CASE Cleanhist
  <2>1. H' = DropAll(H, "dummies", 0) /\ UNCHANGED <<histlen, histdup, clock, lexing>>
    BY <1>9 DEF Cleanhist
  <2>2. H' \in Histories /\ Thinned(H, H')  BY <1>1, <2>1, DropAllIs
  <2>. QED BY <1>1, <2>1, <2>2 DEF HistInv, Step, Drops
<1>10. CASE Clear
  <2>1. H' = DropAll(H, "all", 0) /\ UNCHANGED <<histlen, histdup, clock, lexing>>
    BY <1>10 DEF Clear
  <2>2. H' \in Histories /\ Thinned(H, H')  BY <1>1, <2>1, DropAllIs
  <2>. QED BY <1>1, <2>1, <2>2 DEF HistInv, Step, Drops
<1>11. CASE UNCHANGED vars
  <2>1. UNCHANGED <<H, histlen, histdup, clock, lexing>>  BY <1>11 DEF vars
  <2>2. Thinned(H, H')  BY <1>1, <2>1, ThinnedSame
  <2>. QED BY <1>1, <2>1, <2>2 DEF HistInv, Step, Drops
<1>. QED BY <1>2, <1>3, <1>4, <1>5, <1>6, <1>7, <1>8, <1>9, <1>10, <1>11 DEF Next

LEMMA InitIs ==
  ASSUME Init PROVE HistInv /\ H.list = << >>
<1>1. H = [hist |-> << >>, list |-> << >>, histMerg |-> NULL, table |-> NoTable, eventno |-> 0]
  BY DEF Init
<1>2. H.hist = << >> /\ H.list = << >> /\ H.histMerg = NULL /\ H.table = NoTable /\ H.eventno = 0
  BY <1>1
<1>3. Range(<< >>) = {} /\ DOMAIN << >> = {} /\ IsInjective(<< >>)
  <2>1. DOMAIN << >> = {}  OBVIOUS
  <2>. QED BY <2>1 DEF Range, IsInjective
<1>4. << >> \in Seq(Ids)  OBVIOUS
<1>5. << >> \in UNION {[D -> Entry] : D \in SUBSET Ids}
  <2>1. << >> \in [{} -> Entry]  BY <1>3
  <2>. QED BY <2>1
<1>6. NoTable \in Tables /\ Good(NoTable, {}, Hash(H))  BY DEF Tables, Good
<1>7. H \in Store
  <2>1. PICK h \in UNION {[D -> Entry] : D \in SUBSET Ids} : h = << >>  BY <1>5
  <2>2. PICK l \in Seq(Ids) : l = << >>  BY <1>4
  <2>3. PICK T \in Tables : T = NoTable  BY <1>6
  <2>4. H = [hist |-> h, list |-> l, histMerg |-> NULL, table |-> T, eventno |-> 0]
    BY <1>1, <2>1, <2>2, <2>3
  <2>. QED BY <2>4 DEF Store
<1>8. Sound(H)  BY <1>2, <1>3, <1>6 DEF Sound
<1>9. MaxTime \in Nat /\ MaxTime # 0 /\ Lengths \subseteq Nat  BY HistListAssumption
<1>10. histlen \in Lengths /\ histdup \in Modes /\ clock \in 1 .. MaxTime /\ lexing \in BOOLEAN
  <2>1. 1 \in 1 .. MaxTime  BY <1>9
  <2>. QED BY <2>1 DEF Init
<1>11. H \in Histories  BY <1>7, <1>8 DEF Histories
<1>. QED BY <1>2, <1>10, <1>11 DEF HistInv

-----------------------------------------------------------------------------
(* The table.                                                               *)

LEMMA TableSound ==
  ASSUME HistInv PROVE TableMatchesList
<1> SUFFICES ASSUME H.table \notin {ABORT, NoTable}
             PROVE  /\ \A id \in Ids :
                         Cardinality({i \in DOMAIN H.table : H.table[i] = id})
                           = (IF id \in Range(H.list) THEN 1 ELSE 0)
                    /\ \A id \in Range(H.list) :
                         Search(H.table, Hash(H)[id], Same(H, H.hist[id].word, H.hist[id].dummy))
                           # EMPTY
  BY DEF TableMatchesList
<1> DEFINE T == H.table
           R == Range(H.list)
           hash == Hash(H)
<1>1. H \in Histories  BY DEF HistInv
<1>2. Hashed(R, hash) /\ (\A id \in R : hash[id] = HashOf[H.hist[id].word])
      /\ R \subseteq Ids /\ Ids \subseteq Nat \ {0} /\ (\A id \in R : H.hist[id] \in Entry)
  BY <1>1, HashIs, HistoryIs
<1>3. Holds(T, R, hash)  BY <1>1 DEF Histories, Sound, Good
<1>4. PICK L \in Nat \ {0} : HoldsIn(L, T, R, hash)  BY <1>3 DEF Holds
<1> HIDE DEF T, R, hash
<1>5. T \in [0 .. L - 1 -> {EMPTY, DELETED} \cup R]  BY <1>4 DEF HoldsIn
<1>6. ASSUME NEW id \in Ids
      PROVE  Cardinality({i \in DOMAIN T : T[i] = id}) = IF id \in R THEN 1 ELSE 0
  <2>1. CASE id \in R
    <3>1. PICK d \in 0 .. L - 1 : \A i \in 0 .. L - 1 : T[i] = id <=> i = Index(hash[id], d, L)
      BY <1>4, <2>1 DEF HoldsIn
    <3>2. hash[id] \in Nat /\ d \in Nat  BY <1>2, <2>1 DEF Hashed
    <3>3. PICK h \in Nat : h = hash[id]  BY <3>2
    <3>4. PICK e \in Nat : e = d  BY <3>2
    <3>5. Index(h, e, L) \in 0 .. L - 1  BY IndexIn
    <3>6. {i \in DOMAIN T : T[i] = id} = {Index(h, e, L)}  BY <1>5, <3>1, <3>3, <3>4, <3>5
    <3>7. Cardinality({Index(h, e, L)}) = 1  BY FS_Singleton
    <3>. QED BY <2>1, <3>6, <3>7
  <2>2. CASE id \notin R
    <3>1. id # EMPTY /\ id # DELETED  BY <1>2 DEF EMPTY, DELETED
    <3>2. {i \in DOMAIN T : T[i] = id} = {}  BY <1>5, <2>2, <3>1
    <3>. QED BY <2>2, <3>2, FS_EmptySet
  <2>. QED BY <2>1, <2>2
<1>7. ASSUME NEW id \in R
      PROVE  Search(T, hash[id], Same(H, H.hist[id].word, H.hist[id].dummy)) # EMPTY
  <2> DEFINE same == Same(H, H.hist[id].word, H.hist[id].dummy)
  <2>1. same \subseteq R /\ id \in same  BY DEF Same, R
  <2>2. hash[id] \in Nat  BY <1>2 DEF Hashed
  <2> HIDE DEF same
  <2>3. PICK h \in Nat : h = hash[id]  BY <2>2
  <2>4. PICK m \in SUBSET R : m = same  BY <2>1
  <2>5. \A x \in m : hash[x] = h => Search(T, h, m) # EMPTY
    <3>1. Holds(T, R, hash) /\ Hashed(R, hash)  BY <1>2, <1>3
    <3>2. PICK D, hh, RR : D = T /\ hh = hash /\ RR = R  OBVIOUS
    <3>3. Holds(D, RR, hh) /\ Hashed(RR, hh) /\ m \in SUBSET RR  BY <3>1, <3>2
    <3>4. \A x \in m : hh[x] = h => Search(D, h, m) # EMPTY  BY <3>3, SearchFinds
    <3>. QED BY <3>2, <3>4
  <2>6. Search(T, h, m) # EMPTY  BY <2>1, <2>3, <2>4, <2>5
  <2>. QED BY <2>3, <2>4, <2>6 DEF same
<1>. QED BY <1>6, <1>7 DEF T, R, hash

-----------------------------------------------------------------------------
(* Duplicates.                                                              *)

\* The lines that are equal to w, those with the given time only, if there is one.
Lines(S, w, times) == {id \in Range(S.list) : /\ S.hist[id].word = w /\ ~S.hist[id].dummy
                                              /\ S.hist[id].time \in times}

LEMMA LinesFinite ==
  ASSUME NEW S \in Histories, NEW w, NEW times
  PROVE  IsFiniteSet(Lines(S, w, times)) /\ Lines(S, w, times) \subseteq Range(S.list)
<1>1. Lines(S, w, times) \subseteq Ids  BY HistoryIs DEF Lines
<1>2. IsFiniteSet(Ids)
  <2>1. MaxHist \in Nat  BY HistListAssumption
  <2>. QED BY <2>1, FS_Interval DEF Ids
<1>. QED BY <1>1, <1>2, FS_Subset DEF Lines

LEMMA LinesSame ==
  ASSUME NEW S \in Histories, NEW w
  PROVE  /\ Same(S, w, FALSE) = Lines(S, w, Nat)
         /\ \A t \in Nat : {id \in Same(S, w, FALSE) : S.hist[id].time = t} = Lines(S, w, {t})
<1>1. \A id \in Range(S.list) : S.hist[id].dummy \in BOOLEAN /\ S.hist[id].time \in Nat
  BY HistoryIs, EntryIs
<1>. QED BY <1>1 DEF Same, Lines

LEMMA LinesThinned ==
  ASSUME NEW S, NEW R, Thinned(S, R), NEW w, NEW times
  PROVE  Lines(R, w, times) = Lines(S, w, times) \cap Range(R.list)
BY DEF Thinned, Lines

If(c, id) == IF c THEN {id} ELSE {}

LEMMA LinesInserted ==
  ASSUME NEW S \in Histories, NEW R, NEW word, NEW dummy \in BOOLEAN, NEW time, NEW event,
         Inserted(S, R, word, dummy, time, event)
  PROVE  \E id \in Ids \ Range(S.list) : \A w, times :
           Lines(R, w, times) = Lines(S, w, times)
             \cup If(w = word /\ ~dummy /\ time \in times, id)
<1>1. PICK pos \in 1 .. Len(S.list) + 1, id \in Ids \ Range(S.list) :
        /\ R.list = InsertAt(S.list, pos, id)
        /\ R.hist[id].word = word /\ R.hist[id].dummy = dummy /\ R.hist[id].time = time
        /\ \A i \in Range(S.list) :
             /\ R.hist[i].word = S.hist[i].word /\ R.hist[i].dummy = S.hist[i].dummy
             /\ R.hist[i].time = S.hist[i].time
  BY DEF Inserted
<1>2. Range(R.list) = Range(S.list) \cup {id}
  <2>1. S.list \in Seq(Ids) /\ IsInjective(S.list)  BY HistoryIs
  <2>. QED BY <1>1, <2>1, InsertAtRange
<1>. QED BY <1>1, <1>2 DEF Lines, If

LEMMA CountIs ==
  ASSUME NEW A, NEW B, IsFiniteSet(B), A \subseteq B
  PROVE  IsFiniteSet(A) /\ Cardinality(A) <= Cardinality(B)
BY FS_Subset

\* One comes, one goes.
LEMMA CountSwap ==
  ASSUME NEW A, NEW B, IsFiniteSet(B), NEW x \in B, NEW y, A \subseteq (B \ {x}) \cup {y}
  PROVE  Cardinality(A) <= Cardinality(B)
<1>1. IsFiniteSet(B \ {x}) /\ Cardinality(B \ {x}) = Cardinality(B) - 1 /\ Cardinality(B) \in Nat
  BY FS_RemoveElement, FS_CardinalityType
<1>2. IsFiniteSet((B \ {x}) \cup {y}) /\ Cardinality((B \ {x}) \cup {y}) <= Cardinality(B \ {x}) + 1
      /\ Cardinality((B \ {x}) \cup {y}) \in Nat
  <2>1. PICK C : C = B \ {x}  OBVIOUS
  <2>2. IsFiniteSet(C \cup {y})
        /\ Cardinality(C \cup {y}) = IF y \in C THEN Cardinality(C) ELSE Cardinality(C) + 1
    BY <1>1, <2>1, FS_AddElement
  <2>3. Cardinality(C) \in Nat /\ Cardinality(C \cup {y}) \in Nat
    BY <1>1, <2>1, <2>2, FS_CardinalityType
  <2>. QED BY <2>1, <2>2, <2>3
<1>3. Cardinality(A) <= Cardinality((B \ {x}) \cup {y}) /\ Cardinality(A) \in Nat
  BY <1>2, FS_Subset, FS_CardinalityType
<1>. QED BY <1>1, <1>2, <1>3

LEMMA CountOne ==
  ASSUME NEW A, NEW x, A \subseteq {x} PROVE Cardinality(A) <= 1
<1>1. IsFiniteSet({x}) /\ Cardinality({x}) = 1  BY FS_Singleton
<1>. QED BY <1>1, CountIs

\* Entering a line makes no more lines equal to w than there were, or the first,
\* unless the line is put on a list that has it.
LEMMA EnteredLines ==
  ASSUME NEW S \in Histories, NEW R \in Histories, NEW event, NEW word, NEW dummy \in BOOLEAN,
         NEW stamp \in Nat, NEW now \in Nat, NEW merge, NEW hlen,
         EnteredAs(S, R, event, word, dummy, stamp, now, merge, hlen),
         NEW w, histdup \in {"erase", "all"}, hlen > 0 \/ dummy \/ w # word
  PROVE  Cardinality(Lines(R, w, Nat)) > 1
           => Cardinality(Lines(R, w, Nat)) <= Cardinality(Lines(S, w, Nat))
<1> DEFINE time == IF stamp # 0 THEN stamp ELSE now
           s == Lines(S, w, Nat)
           r == Lines(R, w, Nat)
<1> SUFFICES Cardinality(r) > 1 => Cardinality(r) <= Cardinality(s)  OBVIOUS
<1>1. IsFiniteSet(s) /\ s \subseteq Range(S.list)  BY LinesFinite
<1>2. time \in Nat  OBVIOUS
<1>3. Cardinality(s) \in Nat /\ Cardinality(r) \in Nat  BY LinesFinite, FS_CardinalityType
<1>4. ASSUME R.list = S.list, R.hist = S.hist PROVE r = s  BY <1>4 DEF Lines
<1>5. ASSUME NEW Q \in Histories, NEW t \in Nat, AddedTo(Q, R, word, dummy, t, event, merge)
      PROVE  \/ r = Lines(Q, w, Nat)
             \/ w = word /\ ~dummy /\ \E id : r = Lines(Q, w, Nat) \cup {id}
  <2>1. CASE Inserted(Q, R, word, dummy, t, event)
    <3>1. PICK id : \A v, times :
            Lines(R, v, times) = Lines(Q, v, times) \cup If(v = word /\ ~dummy /\ t \in times, id)
      BY <2>1, LinesInserted
    <3>2. Lines(R, w, Nat) = Lines(Q, w, Nat) \cup If(w = word /\ ~dummy /\ t \in Nat, id)
      BY <3>1
    <3>. QED BY <3>2 DEF If
  <2>2. CASE R.list = Q.list /\ R.hist = Q.hist  BY <2>2 DEF Lines
  <2>. QED BY <1>5, <2>1, <2>2 DEF AddedTo
<1>6. CASE R.list = S.list /\ R.hist = S.hist /\ R.eventno = S.eventno
  BY <1>3, <1>4, <1>6
<1>7. CASE /\ AddedTo(S, R, word, dummy, time, event, merge)
           /\ histdup \in {"erase", "all"} /\ hlen > 0 => Same(S, word, dummy) = {}
  <2>1. CASE r = s  BY <1>3, <2>1
  <2>2. CASE w = word /\ ~dummy /\ \E id : r = s \cup {id}
    <3>1. PICK id : r = s \cup {id}  BY <2>2
    <3>2. Same(S, word, dummy) = {} /\ dummy = FALSE  BY <1>7, <2>2
    <3>3. s = {}  BY <2>2, <3>2, LinesSame
    <3>4. Cardinality(r) <= 1  BY <3>1, <3>3, CountOne
    <3>. QED BY <1>3, <3>4
  <2>. QED BY <1>2, <1>5, <1>7, <2>1, <2>2
<1>8. CASE /\ histdup = "erase"
           /\ \E id \in Same(S, word, dummy), Q \in Histories, t \in Nat :
                /\ Thinned(S, Q) /\ Range(Q.list) = Range(S.list) \ {id}
                /\ stamp = 0 => t = now
                /\ AddedTo(Q, R, word, dummy, t, event, merge)
  <2>1. PICK id \in Same(S, word, dummy), Q \in Histories, t \in Nat :
          /\ Thinned(S, Q) /\ Range(Q.list) = Range(S.list) \ {id}
          /\ AddedTo(Q, R, word, dummy, t, event, merge)
    BY <1>8
  <2>2. Lines(Q, w, Nat) = s \ {id}
    <3>1. Lines(Q, w, Nat) = s \cap Range(Q.list)  BY <2>1, LinesThinned
    <3>. QED BY <1>1, <2>1, <3>1
  <2>3. CASE r = Lines(Q, w, Nat)
    <3>1. r \subseteq s  BY <2>2, <2>3
    <3> HIDE DEF r, s
    <3>. QED BY <1>1, <3>1, CountIs
  <2>4. CASE w = word /\ ~dummy /\ \E y : r = Lines(Q, w, Nat) \cup {y}
    <3>1. PICK y : r = Lines(Q, w, Nat) \cup {y}  BY <2>4
    <3>2. id \in s  BY <2>4, LinesSame
    <3>3. r \subseteq (s \ {id}) \cup {y}  BY <2>2, <3>1
    <3> HIDE DEF r, s
    <3>. QED BY <1>1, <3>2, <3>3, CountSwap
  <2>. QED BY <1>5, <2>1, <2>3, <2>4
<1>9. CASE /\ histdup \in {"all", "prev"}
           /\ \E id \in Same(S, word, dummy) :
                /\ R.list = S.list /\ R.eventno = S.eventno - 1
                /\ R.hist = [S.hist EXCEPT ![id].time = time]
  <2>1. PICK id \in Same(S, word, dummy) :
          R.list = S.list /\ R.hist = [S.hist EXCEPT ![id].time = time]
    BY <1>9
  <2>2. \A i \in Range(S.list) : i \in DOMAIN S.hist /\ S.hist[i] \in Entry  BY HistoryIs
  <2>3. \A i \in Range(S.list) : /\ R.hist[i].word = S.hist[i].word
                                 /\ R.hist[i].dummy = S.hist[i].dummy
                                 /\ R.hist[i].time \in Nat /\ S.hist[i].time \in Nat
    BY <1>2, <2>1, <2>2 DEF Entry
  <2>4. r = s  BY <2>1, <2>3 DEF Lines
  <2> HIDE DEF r, s
  <2>. QED BY <1>3, <2>4
<1>. QED BY <1>6, <1>7, <1>8, <1>9 DEF EnteredAs

LEMMA DuplicatesStep ==
  ASSUME HistInv, [Next]_vars, histdup \in {"erase", "all"}, NEW w
  PROVE  Copies(H', w) > 1 => Copies(H', w) <= Copies(H, w)
<1> DEFINE s == Lines(H, w, Nat)
           r == Lines(H', w, Nat)
<1>1. H \in Histories /\ H' \in Histories /\ Step  BY StepIs DEF HistInv
<1>2. Copies(H, w) = Cardinality(s) /\ Copies(H', w) = Cardinality(r)
  BY <1>1, LinesSame DEF Copies
<1>3. IsFiniteSet(s) /\ Cardinality(s) \in Nat /\ Cardinality(r) \in Nat
  BY <1>1, LinesFinite, FS_CardinalityType
<1>4. ASSUME r \subseteq s PROVE Cardinality(r) <= Cardinality(s)
  <2> HIDE DEF r, s
  <2>. QED BY <1>3, <1>4, CountIs
<1>5. ASSUME NEW word \in Words, NEW stamp \in Nat, NEW now \in Nat, NEW merge \in BOOLEAN,
             Enters(word, stamp, now, merge)
      PROVE  Cardinality(r) > 1 => Cardinality(r) <= Cardinality(s)
  <2>1. PICK E \in Histories : Saved(H, E, H', word, stamp, now, merge)  BY <1>5 DEF Enters
  <2>2. PICK S1 \in Histories :
          /\ S1.list = H.list /\ S1.hist = H.hist
          /\ EnteredAs(S1, E, S1.eventno, word, FALSE, stamp, now, merge, histlen)
          /\ Thinned(E, H') /\ (histlen = 0 => H'.list = << >>)
    BY <2>1 DEF Saved
  <2>3. Lines(S1, w, Nat) = s  BY <2>2 DEF Lines
  <2>4. r \subseteq Lines(E, w, Nat)  BY <2>2, LinesThinned
  <2>5. Cardinality(r) <= Cardinality(Lines(E, w, Nat)) /\ Cardinality(Lines(E, w, Nat)) \in Nat
    <3>1. IsFiniteSet(Lines(E, w, Nat))  BY LinesFinite
    <3> HIDE DEF r
    <3>. QED BY <2>4, <3>1, CountIs, FS_CardinalityType
  <2>6. CASE histlen = 0
    <3>1. r = {}
      <4>1. Range(<< >>) = {}
        <5>1. DOMAIN << >> = {}  OBVIOUS
        <5>. QED BY <5>1 DEF Range
      <4>2. H'.list = << >>  BY <2>2, <2>6
      <4>. QED BY <4>1, <4>2 DEF Lines
    <3> HIDE DEF r, s
    <3>. QED BY <1>3, <3>1, FS_EmptySet
  <2>7. CASE histlen # 0
    <3>1. histlen > 0
      <4>1. histlen \in Nat  BY HistListAssumption DEF HistInv
      <4>. QED BY <2>7, <4>1
    <3>2. PICK n : n = S1.eventno  OBVIOUS
    <3>3. PICK d \in BOOLEAN : d = FALSE  OBVIOUS
    <3>4. EnteredAs(S1, E, n, word, d, stamp, now, merge, histlen)  BY <2>2, <3>2, <3>3
    <3>5. Cardinality(Lines(E, w, Nat)) > 1
             => Cardinality(Lines(E, w, Nat)) <= Cardinality(Lines(S1, w, Nat))
      BY <3>1, <3>4, EnteredLines
    <3> HIDE DEF r, s
    <3>. QED BY <1>3, <2>3, <2>5, <3>5
  <2>. QED BY <2>6, <2>7
<1>6. ASSUME NEW word \in Words, Substitutes(word)
      PROVE  Cardinality(r) > 1 => Cardinality(r) <= Cardinality(s)
  <2>1. EnteredAs(H, H', HIST_PURGE, word, TRUE, 0, clock, FALSE, -1)  BY <1>6 DEF Substitutes
  <2>2. clock \in Nat
    <3>1. MaxTime \in Nat  BY HistListAssumption
    <3>. QED BY <3>1 DEF HistInv
  <2>3. PICK a, b, m : a = HIST_PURGE /\ b = -1 /\ m = FALSE  OBVIOUS
  <2>4. PICK d \in BOOLEAN, z \in Nat : d = TRUE /\ z = 0  OBVIOUS
  <2>5. EnteredAs(H, H', a, word, d, z, clock, m, b)  BY <2>1, <2>3, <2>4
  <2>6. Cardinality(Lines(H', w, Nat)) > 1
          => Cardinality(Lines(H', w, Nat)) <= Cardinality(Lines(H, w, Nat))
    <3>1. PICK R \in Histories : R = H'  BY <1>1
    <3>2. EnteredAs(H, R, a, word, d, z, clock, m, b)  BY <2>5, <3>1
    <3>3. Cardinality(Lines(R, w, Nat)) > 1
            => Cardinality(Lines(R, w, Nat)) <= Cardinality(Lines(H, w, Nat))
      <4>1. b > 0 \/ d \/ w # word  BY <2>4
      <4>2. PICK c \in Nat : c = clock  BY <2>2
      <4>3. PICK S \in Histories : S = H  BY <1>1
      <4>4. EnteredAs(S, R, a, word, d, z, c, m, b)  BY <3>2, <4>2, <4>3
      <4>5. Cardinality(Lines(R, w, Nat)) > 1
              => Cardinality(Lines(R, w, Nat)) <= Cardinality(Lines(S, w, Nat))
        BY <4>1, <4>4, EnteredLines
      <4>. QED BY <4>3, <4>5
    <3>. QED BY <3>1, <3>3
  <2>. QED BY <2>6
<1>7. ASSUME Drops PROVE Cardinality(r) <= Cardinality(s)
  <2>1. r \subseteq s  BY <1>7, LinesThinned DEF Drops
  <2>. QED BY <1>4, <2>1
<1>8. ASSUME Refers PROVE Cardinality(r) <= Cardinality(s)
  <2>1. r \subseteq s
    <3>1. \A id \in Range(H.list) : H.hist[id].time \in Nat  BY <1>1, HistoryIs, EntryIs
    <3>. QED BY <1>8, <3>1 DEF Refers, Lines
  <2>. QED BY <1>4, <2>1
<1> HIDE DEF r, s
<1>. QED BY <1>1, <1>2, <1>5, <1>6, <1>7, <1>8 DEF Step

-----------------------------------------------------------------------------
(* The numbers of the events.                                               *)

\* Without dummy entries the numbers go down along the list, from at most top,
\* and an entry is referred to no earlier than it was entered.
Ordered(S, top) ==
  /\ \A id \in Range(S.list) :
       ~S.hist[id].dummy /\ S.hist[id].num <= S.hist[id].ref /\ S.hist[id].num <= top
  /\ \A i, j \in 1 .. Len(S.list) : i < j => S.hist[S.list[j]].num < S.hist[S.list[i]].num

LEMMA OrderedHigher ==
  ASSUME NEW S \in Histories, NEW m \in Int, NEW n \in Int, m <= n, Ordered(S, m)
  PROVE  Ordered(S, n)
<1>1. \A id \in Range(S.list) : S.hist[id].num \in Int  BY HistoryIs, EntryIs
<1>. QED BY <1>1 DEF Ordered

LEMMA OrderedThinned ==
  ASSUME NEW S \in Histories, NEW R \in Histories, Thinned(S, R), NEW n, Ordered(S, n)
  PROVE  Ordered(R, n)
<1>1. \A id \in Range(R.list) : id \in Range(S.list) /\ R.hist[id] = S.hist[id]  BY DEF Thinned
<1>2. ASSUME NEW i \in 1 .. Len(R.list), NEW j \in 1 .. Len(R.list), i < j
      PROVE  R.hist[R.list[j]].num < R.hist[R.list[i]].num
  <2>1. PICK k \in 1 .. Len(S.list), l \in 1 .. Len(S.list) :
          k < l /\ R.list[i] = S.list[k] /\ R.list[j] = S.list[l]
    BY <1>2 DEF Thinned
  <2>2. R.list[i] \in Range(R.list) /\ R.list[j] \in Range(R.list)  BY HistoryIs
  <2>3. S.hist[S.list[l]].num < S.hist[S.list[k]].num  BY <2>1 DEF Ordered
  <2>. QED BY <1>1, <2>1, <2>2, <2>3
<1>3. \A id \in Range(R.list) :
        ~R.hist[id].dummy /\ R.hist[id].num <= R.hist[id].ref /\ R.hist[id].num <= n
  BY <1>1 DEF Ordered
<1>. QED BY <1>2, <1>3 DEF Ordered

LEMMA OrderedInserted ==
  ASSUME NEW S \in Histories, NEW R \in Histories, NEW event \in Int, Ordered(S, event - 1),
         NEW word, NEW time, Inserted(S, R, word, FALSE, time, event)
  PROVE  /\ Ordered(R, event)
         /\ \A id \in Range(S.list) :
              /\ id \in Range(R.list) /\ R.hist[id].ref >= S.hist[id].num
              /\ R.hist[id].word = S.hist[id].word /\ R.hist[id].dummy = S.hist[id].dummy
<1>1. PICK pos \in 1 .. Len(S.list) + 1, x \in Ids \ Range(S.list) :
        /\ R.list = InsertAt(S.list, pos, x) /\ R.hist[x].dummy = FALSE
        /\ \A i \in Range(S.list) :
             R.hist[i].word = S.hist[i].word /\ R.hist[i].dummy = S.hist[i].dummy
        /\ R.hist[R.list[1]].num = event /\ R.hist[R.list[1]].ref = event
        /\ \A k \in 1 .. Len(S.list) :
             /\ R.hist[R.list[k + 1]].num = S.hist[S.list[k]].num
             /\ R.hist[R.list[k + 1]].ref = S.hist[S.list[k]].ref
  BY DEF Inserted
<1>2. /\ S.list \in Seq(Ids) /\ IsInjective(S.list) /\ Len(S.list) \in Nat
      /\ \A i \in 1 .. Len(S.list) : S.list[i] \in Range(S.list)
      /\ \A id \in Range(S.list) : \E i \in 1 .. Len(S.list) : id = S.list[i]
      /\ \A id \in Range(R.list) : \E i \in 1 .. Len(R.list) : id = R.list[i]
      /\ \A i \in 1 .. Len(S.list) : S.hist[S.list[i]].num \in Int /\ S.hist[S.list[i]].ref \in Int
  BY HistoryIs, EntryIs
<1>3. Range(R.list) = Range(S.list) \cup {x}  BY <1>1, <1>2, InsertAtRange
<1>4. /\ Len(R.list) = Len(S.list) + 1
      /\ \A i \in 1 .. Len(R.list) :
           R.list[i] = IF i < pos THEN S.list[i] ELSE IF i = pos THEN x ELSE S.list[i - 1]
  <2>1. PICK y \in Ids : y = x  BY <1>1
  <2>2. PICK s \in Seq(Ids) : s = S.list  BY <1>2
  <2>3. PICK p \in 1 .. Len(s) + 1 : p = pos  BY <2>2
  <2> DEFINE t == InsertAt(s, p, y)
  <2>4. /\ t \in Seq(Ids) /\ Len(t) = Len(s) + 1
        /\ \A i \in 1 .. Len(t) : t[i] = IF i < p THEN s[i] ELSE IF i = p THEN y ELSE s[i - 1]
    BY InsertAtIs
  <2>5. R.list = t  BY <1>1, <2>1, <2>2, <2>3
  <2> HIDE DEF t
  <2>. QED BY <2>1, <2>2, <2>3, <2>4, <2>5
<1> DEFINE N(k) == R.hist[R.list[k]].num
           F(k) == R.hist[R.list[k]].ref
           n(k) == S.hist[S.list[k]].num
<1>5. /\ N(1) = event /\ F(1) = event
      /\ \A k \in 1 .. Len(S.list) :
           /\ N(k + 1) = n(k) /\ F(k + 1) = S.hist[S.list[k]].ref
           /\ n(k) <= S.hist[S.list[k]].ref /\ n(k) <= event - 1 /\ n(k) \in Int
      /\ \A k, l \in 1 .. Len(S.list) : k < l => n(l) < n(k)
  BY <1>1, <1>2 DEF Ordered
<1> HIDE DEF N, F, n
<1>6. \A i \in 1 .. Len(R.list) :
        /\ N(i) <= F(i) /\ N(i) <= event
        /\ i # 1 => i - 1 \in 1 .. Len(S.list) /\ N(i) = n(i - 1) /\ N(i) < event
  <2> SUFFICES ASSUME NEW i \in 1 .. Len(R.list)
               PROVE  /\ N(i) <= F(i) /\ N(i) <= event
                      /\ i # 1 => i - 1 \in 1 .. Len(S.list) /\ N(i) = n(i - 1) /\ N(i) < event
    OBVIOUS
  <2>1. CASE i = 1  BY <1>5, <2>1
  <2>2. CASE i # 1
    <3>1. PICK k \in 1 .. Len(S.list) : k = i - 1  BY <1>2, <1>4, <2>2
    <3>2. k + 1 = i  BY <3>1
    <3>3. N(i) = n(k) /\ F(i) = S.hist[S.list[k]].ref /\ n(k) <= S.hist[S.list[k]].ref
          /\ n(k) <= event - 1 /\ n(k) \in Int
      BY <1>5, <3>2
    <3>. QED BY <2>2, <3>1, <3>3
  <2>. QED BY <2>1, <2>2
<1>7. ASSUME NEW i \in 1 .. Len(R.list), NEW j \in 1 .. Len(R.list), i < j PROVE N(j) < N(i)
  <2>1. j # 1  BY <1>7
  <2>2. CASE i = 1  BY <1>5, <1>6, <2>1, <2>2
  <2>3. CASE i # 1
    <3>1. PICK k \in 1 .. Len(S.list) : k = i - 1 /\ N(i) = n(k)  BY <1>6, <2>3
    <3>2. PICK l \in 1 .. Len(S.list) : l = j - 1 /\ N(j) = n(l)  BY <1>6, <2>1
    <3>3. k < l  BY <1>7, <3>1, <3>2
    <3>. QED BY <1>5, <3>1, <3>2, <3>3
  <2>. QED BY <2>2, <2>3
<1>8. ASSUME NEW id \in Range(R.list)
      PROVE  ~R.hist[id].dummy /\ R.hist[id].num <= R.hist[id].ref /\ R.hist[id].num <= event
  <2>1. PICK i \in 1 .. Len(R.list) : id = R.list[i]  BY <1>2
  <2>2. R.hist[id].num = N(i) /\ R.hist[id].ref = F(i)  BY <2>1 DEF N, F
  <2>3. R.hist[id].dummy = FALSE \/ (id \in Range(S.list) /\ R.hist[id].dummy = S.hist[id].dummy)
    BY <1>1, <1>3
  <2>4. ~R.hist[id].dummy  BY <2>3 DEF Ordered
  <2>. QED BY <1>6, <2>2, <2>4
<1>9. ASSUME NEW id \in Range(S.list)
      PROVE  id \in Range(R.list) /\ R.hist[id].ref >= S.hist[id].num
  <2>1. PICK k \in 1 .. Len(S.list) : id = S.list[k]  BY <1>2
  <2>2. S.hist[id].num = n(k) /\ n(k) \in Int  BY <1>5, <2>1 DEF n
  <2>3. CASE k < pos
    <3>1. k \in 1 .. Len(R.list) /\ R.list[k] = id  BY <1>2, <1>4, <2>1, <2>3
    <3>2. R.hist[id].ref = F(k)  BY <3>1 DEF F
    <3>3. CASE k = 1
      <4>1. n(1) <= event - 1 /\ F(1) = event /\ n(1) \in Int  BY <1>5, <3>3
      <4>. QED BY <1>3, <2>2, <3>2, <3>3, <4>1
    <3>4. CASE k # 1
      <4>1. PICK l \in 1 .. Len(S.list) : l = k - 1  BY <1>2, <3>4
      <4>2. l + 1 = k /\ l < k  BY <4>1
      <4>3. F(k) = S.hist[S.list[l]].ref /\ n(l) <= S.hist[S.list[l]].ref /\ n(k) < n(l)
            /\ n(l) \in Int /\ S.hist[S.list[l]].ref \in Int
        BY <1>2, <1>5, <4>2
      <4>. QED BY <1>3, <2>2, <3>2, <4>3
    <3>. QED BY <3>3, <3>4
  <2>4. CASE ~(k < pos)
    <3>1. k + 1 \in 1 .. Len(R.list) /\ ~(k + 1 < pos) /\ k + 1 # pos /\ (k + 1) - 1 = k
      BY <1>2, <1>4, <2>4
    <3>2. R.list[k + 1] = id  BY <1>4, <2>1, <3>1
    <3>3. R.hist[id].ref = F(k + 1)  BY <3>2 DEF F
    <3>. QED BY <1>2, <1>3, <1>5, <2>2, <3>3
  <2>. QED BY <2>3, <2>4
<1>. QED BY <1>1, <1>7, <1>8, <1>9 DEF Ordered, N

\* A line is entered as the next event.
LEMMA OrderedEntered ==
  ASSUME NEW S \in Histories, NEW R \in Histories, NEW word, NEW stamp \in Nat, NEW now \in Nat,
         NEW merge, NEW hlen, Ordered(S, S.eventno - 1),
         EnteredAs(S, R, S.eventno, word, FALSE, stamp, now, merge, hlen)
  PROVE  /\ Ordered(R, R.eventno)
         /\ histdup # "erase" =>
              \A id \in Range(S.list) :
                /\ id \in Range(R.list) /\ R.hist[id].ref >= S.hist[id].num
                /\ R.hist[id].word = S.hist[id].word /\ R.hist[id].dummy = S.hist[id].dummy
<1> DEFINE Same2(id) == /\ id \in Range(R.list) /\ R.hist[id].ref >= S.hist[id].num
                        /\ R.hist[id].word = S.hist[id].word /\ R.hist[id].dummy = S.hist[id].dummy
           time == IF stamp # 0 THEN stamp ELSE now
<1>1. S.eventno \in Int
      /\ \A id \in Range(S.list) : S.hist[id] \in Entry /\ S.hist[id].num \in Int /\ S.hist[id].ref \in Int
  BY HistoryIs, EntryIs
<1>2. \A id \in Range(S.list) : S.hist[id].ref >= S.hist[id].num  BY <1>1 DEF Ordered
<1>3. ASSUME R.list = S.list, R.hist = S.hist, R.eventno \in {S.eventno, S.eventno - 1}
      PROVE  Ordered(R, R.eventno) /\ \A id \in Range(S.list) : Same2(id)
  <2>1. Ordered(R, S.eventno - 1)  BY <1>3 DEF Ordered
  <2>2. Ordered(R, R.eventno)
    <3>1. PICK m \in Int, n \in Int : m = S.eventno - 1 /\ n = R.eventno  BY <1>1, <1>3
    <3>2. m <= n  BY <1>1, <1>3, <3>1
    <3>. QED BY <2>1, <3>1, <3>2, OrderedHigher
  <2>. QED BY <1>2, <1>3, <2>2
<1>4. ASSUME NEW Q \in Histories, Ordered(Q, S.eventno - 1), Q.eventno = S.eventno, NEW t,
             AddedTo(Q, R, word, FALSE, t, S.eventno, merge)
      PROVE  /\ Ordered(R, R.eventno)
             /\ \/ Inserted(Q, R, word, FALSE, t, S.eventno)
                \/ R.list = Q.list /\ R.hist = Q.hist /\ R.eventno = S.eventno - 1
  <2>1. CASE Inserted(Q, R, word, FALSE, t, S.eventno)
    <3>1. PICK n \in Int : n = S.eventno  BY <1>1
    <3>2. Ordered(R, n)  BY <1>4, <2>1, <3>1, OrderedInserted
    <3>3. R.eventno = Q.eventno  BY <2>1 DEF Inserted
    <3>. QED BY <1>4, <2>1, <3>1, <3>2, <3>3
  <2>2. CASE R.list = Q.list /\ R.hist = Q.hist /\ R.eventno = Q.eventno - 1
    BY <1>4, <2>2 DEF Ordered
  <2>. QED BY <1>4, <2>1, <2>2 DEF AddedTo
<1>5. CASE R.list = S.list /\ R.hist = S.hist /\ R.eventno = S.eventno  BY <1>3, <1>5
<1>6. CASE AddedTo(S, R, word, FALSE, time, S.eventno, merge)
  <2> HIDE DEF time
  <2>1. Ordered(R, R.eventno)  BY <1>4, <1>6
  <2>2. CASE Inserted(S, R, word, FALSE, time, S.eventno)
    <3>1. PICK n \in Int : n = S.eventno  BY <1>1
    <3>2. \A id \in Range(S.list) : Same2(id)  BY <2>2, <3>1, OrderedInserted
    <3>. QED BY <2>1, <3>2
  <2>3. CASE R.list = S.list /\ R.hist = S.hist /\ R.eventno = S.eventno - 1  BY <1>3, <2>3
  <2>. QED BY <1>4, <1>6, <2>2, <2>3
<1>7. CASE /\ histdup = "erase"
           /\ \E id \in Same(S, word, FALSE), Q \in Histories, t \in Nat :
                Thinned(S, Q) /\ AddedTo(Q, R, word, FALSE, t, S.eventno, merge)
  <2>1. PICK Q \in Histories, t \in Nat :
          Thinned(S, Q) /\ AddedTo(Q, R, word, FALSE, t, S.eventno, merge)
    BY <1>7
  <2>2. Q.eventno = S.eventno  BY <2>1 DEF Thinned
  <2>3. Ordered(Q, S.eventno - 1)
    <3>1. PICK n : n = S.eventno - 1  BY <1>1
    <3>. QED BY <2>1, <3>1, OrderedThinned
  <2>. QED BY <1>4, <1>7, <2>1, <2>2, <2>3
<1>8. CASE \E id \in Same(S, word, FALSE) :
             /\ R.list = S.list /\ R.eventno = S.eventno - 1
             /\ R.hist = [S.hist EXCEPT ![id].time = time]
  <2> HIDE DEF time
  <2>1. PICK x \in Same(S, word, FALSE) :
          R.list = S.list /\ R.eventno = S.eventno - 1 /\ R.hist = [S.hist EXCEPT ![x].time = time]
    BY <1>8
  <2>2. \A id \in Range(S.list) : id \in DOMAIN S.hist  BY HistoryIs
  <2>3. \A id \in Range(S.list) : /\ R.hist[id].num = S.hist[id].num /\ R.hist[id].ref = S.hist[id].ref
                                  /\ R.hist[id].word = S.hist[id].word
                                  /\ R.hist[id].dummy = S.hist[id].dummy
    BY <1>1, <2>1, <2>2 DEF Entry
  <2>4. \A i \in 1 .. Len(S.list) : S.list[i] \in Range(S.list)  BY HistoryIs
  <2>5. \A i \in 1 .. Len(S.list) : R.hist[S.list[i]].num = S.hist[S.list[i]].num  BY <2>3, <2>4
  <2>6. Ordered(R, R.eventno)  BY <2>1, <2>3, <2>5 DEF Ordered
  <2>. QED BY <1>2, <2>1, <2>3, <2>6
<1> HIDE DEF Same2
<1>9. Ordered(R, R.eventno) /\ (histdup # "erase" => \A id \in Range(S.list) : Same2(id))
  BY <1>5, <1>6, <1>7, <1>8 DEF EnteredAs, Same2
<1>. QED BY <1>9 DEF Same2

LEMMA NoDummies ==
  ASSUME HistInv, MaxDummies = 0, NEW word, Substitutes(word) PROVE FALSE
<1> DEFINE D == {id \in Range(H.list) : H.hist[id].dummy}
<1>1. D \subseteq Ids /\ MaxHist \in Nat  BY HistoryIs, HistListAssumption DEF HistInv
<1>2. IsFiniteSet(Ids)  BY <1>1, FS_Interval DEF Ids
<1>3. Cardinality(D) < 0  BY DEF Substitutes
<1> HIDE DEF D
<1>4. Cardinality(D) \in Nat  BY <1>1, <1>2, FS_Subset, FS_CardinalityType
<1>. QED BY <1>3, <1>4

LEMMA OrderedNext ==
  ASSUME MaxDummies = 0, HistInv, Ordered(H, H.eventno), [Next]_vars
  PROVE  Ordered(H', H'.eventno)
<1>1. H \in Histories /\ H' \in Histories /\ Step  BY StepIs DEF HistInv
<1>2. H.eventno \in Int  BY <1>1, HistoryIs
<1>3. ASSUME NEW word \in Words, NEW stamp \in Nat, NEW now \in Nat, NEW merge \in BOOLEAN,
             Enters(word, stamp, now, merge)
      PROVE  Ordered(H', H'.eventno)
  <2>1. PICK E \in Histories : Saved(H, E, H', word, stamp, now, merge)  BY <1>3 DEF Enters
  <2>2. PICK S1 \in Histories :
          /\ S1.list = H.list /\ S1.hist = H.hist /\ S1.eventno = H.eventno + 1
          /\ EnteredAs(S1, E, S1.eventno, word, FALSE, stamp, now, merge, histlen)
          /\ Thinned(E, H')
    BY <2>1 DEF Saved
  <2>3. S1.eventno - 1 = H.eventno  BY <1>2, <2>2
  <2>4. Ordered(S1, S1.eventno - 1)
    <3>1. Ordered(S1, H.eventno)  BY <2>2 DEF Ordered
    <3>. QED BY <2>3, <3>1
  <2>5. Ordered(E, E.eventno)  BY <2>2, <2>4, OrderedEntered
  <2>6. PICK n : n = E.eventno  OBVIOUS
  <2>7. Ordered(H', n)  BY <1>1, <2>2, <2>5, <2>6, OrderedThinned
  <2>. QED BY <2>2, <2>6, <2>7 DEF Thinned
<1>4. ASSUME NEW word \in Words, Substitutes(word) PROVE FALSE  BY <1>4, NoDummies
<1>5. ASSUME Drops PROVE Ordered(H', H'.eventno)
  <2>1. Thinned(H, H') /\ H'.eventno = H.eventno  BY <1>5 DEF Drops, Thinned
  <2>2. PICK n : n = H.eventno  OBVIOUS
  <2>3. Ordered(H', n)  BY <1>1, <2>1, <2>2, OrderedThinned
  <2>. QED BY <2>1, <2>2, <2>3
<1>6. ASSUME Refers PROVE Ordered(H', H'.eventno)
  <2>1. PICK r \in Range(H.list) :
          /\ H'.hist[r].ref = H.eventno
          /\ \A id \in Range(H.list) :
               /\ H'.hist[id].dummy = H.hist[id].dummy /\ H'.hist[id].num = H.hist[id].num
               /\ id # r => H'.hist[id].ref = H.hist[id].ref
    BY <1>6 DEF Refers
  <2>2. H'.list = H.list /\ H'.eventno = H.eventno  BY <1>6 DEF Refers
  <2>3. \A i \in 1 .. Len(H.list) : H.list[i] \in Range(H.list)  BY <1>1, HistoryIs
  <2>4. \A id \in Range(H.list) : /\ ~H'.hist[id].dummy /\ H'.hist[id].num <= H'.hist[id].ref
                                  /\ H'.hist[id].num <= H.eventno
    BY <2>1 DEF Ordered
  <2>5. \A i, j \in 1 .. Len(H.list) : i < j => H'.hist[H.list[j]].num < H'.hist[H.list[i]].num
    BY <2>1, <2>3 DEF Ordered
  <2>. QED BY <2>2, <2>4, <2>5 DEF Ordered
<1>. QED BY <1>1, <1>3, <1>4, <1>5, <1>6 DEF Step

LEMMA RecentNext ==
  ASSUME MaxDummies = 0, HistInv, Ordered(H, H.eventno), [Next]_vars,
         NEW id \in Range(H.list), histdup # "erase", H'.eventno > H.eventno,
         H'.eventno - H.hist[id].num < histlen
  PROVE  \E f \in Range(H'.list) : H'.hist[f].word = H.hist[id].word /\ ~H'.hist[f].dummy
<1>1. H \in Histories /\ H' \in Histories /\ Step  BY StepIs DEF HistInv
<1>2. H.eventno \in Int /\ H'.eventno \in Int /\ H.hist[id].num \in Int
      /\ H.hist[id].num <= H.eventno /\ ~H.hist[id].dummy
  BY <1>1, HistoryIs, EntryIs DEF Ordered
<1>3. PICK word \in Words, stamp \in Nat, now \in Nat, merge \in BOOLEAN :
        Enters(word, stamp, now, merge)
  <2>1. ~Drops /\ ~Refers  BY <1>2 DEF Drops, Refers, Thinned
  <2>2. \A word \in Words : ~Substitutes(word)  BY NoDummies
  <2>. QED BY <1>1, <2>1, <2>2 DEF Step
<1>4. PICK E \in Histories : Saved(H, E, H', word, stamp, now, merge)  BY <1>3 DEF Enters
<1>5. PICK S1 \in Histories :
        /\ S1.list = H.list /\ S1.hist = H.hist /\ S1.eventno = H.eventno + 1
        /\ EnteredAs(S1, E, S1.eventno, word, FALSE, stamp, now, merge, histlen)
        /\ Thinned(E, H') /\ Kept(E, H', histlen)
  BY <1>4 DEF Saved
<1>6. Ordered(S1, S1.eventno - 1)
  <2>1. S1.eventno - 1 = H.eventno  BY <1>2, <1>5
  <2>2. Ordered(S1, H.eventno)  BY <1>5 DEF Ordered
  <2>. QED BY <2>1, <2>2
<1>7. /\ id \in Range(E.list) /\ E.hist[id].ref >= H.hist[id].num
      /\ E.hist[id].word = H.hist[id].word /\ E.hist[id].dummy = H.hist[id].dummy
  <2>1. \A i \in Range(S1.list) :
          /\ i \in Range(E.list) /\ E.hist[i].ref >= S1.hist[i].num
          /\ E.hist[i].word = S1.hist[i].word /\ E.hist[i].dummy = S1.hist[i].dummy
    BY <1>5, <1>6, OrderedEntered
  <2>. QED BY <1>5, <2>1
<1>8. E.hist[id].ref \in Int /\ histlen \in Nat
  <2>1. histlen \in Nat  BY HistListAssumption DEF HistInv
  <2>. QED BY <1>7, <2>1, HistoryIs, EntryIs
<1>9. H'.eventno = E.eventno  BY <1>5 DEF Thinned
<1>10. histlen # 0 /\ E.eventno - E.hist[id].ref < histlen  BY <1>2, <1>7, <1>8, <1>9
<1>11. id \in Range(H'.list)  BY <1>5, <1>7, <1>10 DEF Kept
<1>12. H'.hist[id] = E.hist[id]  BY <1>5, <1>11 DEF Thinned
<1>. QED BY <1>2, <1>7, <1>11, <1>12

-----------------------------------------------------------------------------
(* Merging.                                                                 *)

LEMMA SortedThinned ==
  ASSUME NEW S \in Histories, NEW R \in Histories, Thinned(S, R), Sorted(S)
  PROVE  Sorted(R)
<1> SUFFICES ASSUME NEW i \in 1 .. Len(R.list), NEW j \in 1 .. Len(R.list), i < j
             PROVE  Htime(R, i) >= Htime(R, j)
  BY DEF Sorted
<1>1. PICK k \in 1 .. Len(S.list), l \in 1 .. Len(S.list) :
        k < l /\ R.list[i] = S.list[k] /\ R.list[j] = S.list[l]
  BY DEF Thinned
<1>2. R.list[i] \in Range(R.list) /\ R.list[j] \in Range(R.list)  BY HistoryIs
<1>3. R.hist[R.list[i]] = S.hist[S.list[k]] /\ R.hist[R.list[j]] = S.hist[S.list[l]]
  BY <1>1, <1>2 DEF Thinned
<1>4. Htime(R, i) = Htime(S, k) /\ Htime(R, j) = Htime(S, l)  BY <1>3 DEF Htime
<1>. QED BY <1>1, <1>4 DEF Sorted

\* A line that is merged does not become the second of its time.
LEMMA EnteredTimes ==
  ASSUME NEW S \in Histories, NEW R \in Histories, NEW event, NEW word, NEW dummy \in BOOLEAN,
         NEW stamp \in Nat, NEW now \in Nat, NEW merge \in BOOLEAN, NEW hlen,
         EnteredAs(S, R, event, word, dummy, stamp, now, merge, hlen),
         Sorted(S), histdup \notin {"all", "prev"}, NEW w, NEW t \in Nat, NEW at, at = {t},
         dummy \/ (IF stamp = 0 THEN now # t ELSE merge)
  PROVE  Cardinality(Lines(R, w, at)) <= 1 \/ Lines(R, w, at) \subseteq Lines(S, w, at)
<1> DEFINE time == IF stamp # 0 THEN stamp ELSE now
           r == Lines(R, w, at)
<1> SUFFICES Cardinality(r) <= 1 \/ r \subseteq Lines(S, w, at)  OBVIOUS
<1>1. time \in Nat /\ (stamp = 0 => time = now)  OBVIOUS
<1>2. ASSUME NEW Q \in Histories, Sorted(Q), NEW u \in Nat, stamp = 0 => u = now,
             AddedTo(Q, R, word, dummy, u, event, merge)
      PROVE  Cardinality(r) <= 1 \/ r \subseteq Lines(Q, w, at)
  <2>1. CASE R.list = Q.list /\ R.hist = Q.hist  BY <2>1 DEF Lines
  <2>2. CASE /\ Inserted(Q, R, word, dummy, u, event)
             /\ merge /\ Sorted(Q) => \A id \in Same(Q, word, dummy) : Q.hist[id].time # u
    <3>1. PICK id : \A v, times :
            Lines(R, v, times) = Lines(Q, v, times) \cup If(v = word /\ ~dummy /\ u \in times, id)
      BY <2>2, LinesInserted
    <3>2. r = Lines(Q, w, at) \cup If(w = word /\ ~dummy /\ u \in at, id)  BY <3>1
    <3>3. CASE ~(w = word /\ ~dummy /\ u \in at)  BY <3>2, <3>3 DEF If
    <3>4. CASE w = word /\ ~dummy /\ u \in at
      <4>1. merge /\ u = t /\ dummy = FALSE  BY <1>2, <3>4
      <4>2. \A x \in Same(Q, w, FALSE) : Q.hist[x].time # t  BY <1>2, <2>2, <3>4, <4>1
      <4>3. Lines(Q, w, at) = {}  BY <4>2 DEF Same, Lines
      <4>4. r \subseteq {id}  BY <3>2, <4>3 DEF If
      <4> HIDE DEF r
      <4>. QED BY <4>4, CountOne
    <3>. QED BY <3>3, <3>4
  <2>. QED BY <1>2, <2>1, <2>2 DEF AddedTo
<1>3. CASE R.list = S.list /\ R.hist = S.hist /\ R.eventno = S.eventno  BY <1>3 DEF Lines
<1>4. CASE AddedTo(S, R, word, dummy, time, event, merge)
  <2> HIDE DEF time, r
  <2>. QED BY <1>1, <1>2, <1>4
<1>5. CASE \E id \in Same(S, word, dummy), Q \in Histories, u \in Nat :
             /\ Thinned(S, Q)
             /\ stamp = 0 => u = now
             /\ AddedTo(Q, R, word, dummy, u, event, merge)
  <2>1. PICK Q \in Histories, u \in Nat :
          /\ Thinned(S, Q)
          /\ stamp = 0 => u = now
          /\ AddedTo(Q, R, word, dummy, u, event, merge)
    BY <1>5
  <2>2. Sorted(Q)  BY <2>1, SortedThinned
  <2>3. Cardinality(r) <= 1 \/ r \subseteq Lines(Q, w, at)  BY <1>2, <2>1, <2>2
  <2>4. Lines(Q, w, at) \subseteq Lines(S, w, at)  BY <2>1, LinesThinned
  <2>. QED BY <2>3, <2>4
<1>. QED BY <1>3, <1>4, <1>5 DEF EnteredAs

LEMMA ClockIs == ASSUME HistInv PROVE clock \in Nat
<1>1. MaxTime \in Nat  BY HistListAssumption
<1>. QED BY <1>1 DEF HistInv

LEMMA MergedNext ==
  ASSUME Loads \subseteq {"merge"}, HistInv, [Next]_vars, NEW w, NEW t \in 1 .. clock - 1,
         Sorted(H), histdup \notin {"all", "prev"}
  PROVE  At(H', w, t) > 1 => At(H', w, t) <= At(H, w, t)
<1>0. PICK at : at = {t}  OBVIOUS
<1> DEFINE s == Lines(H, w, at)
           r == Lines(H', w, at)
<1>1. H \in Histories /\ H' \in Histories /\ Step  BY StepIs DEF HistInv
<1>2. clock \in Nat /\ t \in Nat /\ t < clock
  <2>1. PICK c \in Nat : c = clock  BY ClockIs
  <2>2. t \in 1 .. c - 1  BY <2>1
  <2>3. t \in Nat /\ t < c  BY <2>2
  <2>. QED BY <2>1, <2>3
<1>3. At(H, w, t) = Cardinality(s) /\ At(H', w, t) = Cardinality(r)
  BY <1>0, <1>1, <1>2, LinesSame DEF At
<1>4. IsFiniteSet(s) /\ Cardinality(s) \in Nat /\ Cardinality(r) \in Nat
  BY <1>1, LinesFinite, FS_CardinalityType
<1>5. ASSUME NEW word \in Words, NEW stamp \in Nat, NEW now \in Nat, NEW merge \in BOOLEAN,
             Enters(word, stamp, now, merge)
      PROVE  Cardinality(r) <= 1 \/ r \subseteq s
  <2>1. PICK E \in Histories : Saved(H, E, H', word, stamp, now, merge)  BY <1>5 DEF Enters
  <2>2. PICK S1 \in Histories :
          /\ S1.list = H.list /\ S1.hist = H.hist
          /\ EnteredAs(S1, E, S1.eventno, word, FALSE, stamp, now, merge, histlen)
          /\ Thinned(E, H')
    BY <2>1 DEF Saved
  <2>3. Lines(S1, w, at) = s /\ Sorted(S1)  BY <2>2 DEF Lines, Sorted, Htime
  <2>4. IF stamp = 0 THEN now # t ELSE merge
    <3>1. stamp = 0 => clock <= now  BY <1>5 DEF Enters
    <3>2. stamp # 0 => merge  BY <1>5 DEF Enters
    <3>. QED BY <1>2, <3>1, <3>2
  <2>5. Cardinality(Lines(E, w, at)) <= 1 \/ Lines(E, w, at) \subseteq Lines(S1, w, at)
    <3>1. PICK n : n = S1.eventno  OBVIOUS
    <3>2. PICK d \in BOOLEAN : d = FALSE  OBVIOUS
    <3>3. PICK u \in Nat : u = t  BY <1>2
    <3>4. EnteredAs(S1, E, n, word, d, stamp, now, merge, histlen)  BY <2>2, <3>1, <3>2
    <3>5. d \/ (IF stamp = 0 THEN now # u ELSE merge)  BY <2>4, <3>3
    <3>6. Cardinality(Lines(E, w, at)) <= 1 \/ Lines(E, w, at) \subseteq Lines(S1, w, at)
      BY <1>0, <2>3, <3>3, <3>4, <3>5, EnteredTimes
    <3>. QED BY <3>6
  <2>6. r \subseteq Lines(E, w, at)  BY <2>2, LinesThinned
  <2>7. IsFiniteSet(Lines(E, w, at))  BY LinesFinite
  <2>8. Cardinality(r) <= Cardinality(Lines(E, w, at)) /\ Cardinality(Lines(E, w, at)) \in Nat
    <3> HIDE DEF r
    <3>. QED BY <2>6, <2>7, CountIs, FS_CardinalityType
  <2> HIDE DEF r, s
  <2>. QED BY <1>4, <2>3, <2>5, <2>6, <2>8
<1>6. ASSUME NEW word \in Words, Substitutes(word)
      PROVE  Cardinality(r) <= 1 \/ r \subseteq s
  <2>1. EnteredAs(H, H', HIST_PURGE, word, TRUE, 0, clock, FALSE, -1)  BY <1>6 DEF Substitutes
  <2>2. PICK a, b : a = HIST_PURGE /\ b = -1  OBVIOUS
  <2>3. PICK d \in BOOLEAN, m \in BOOLEAN, z \in Nat : d = TRUE /\ m = FALSE /\ z = 0  OBVIOUS
  <2>4. PICK c \in Nat : c = clock  BY <1>2
  <2>5. PICK S \in Histories, R \in Histories : S = H /\ R = H'  BY <1>1
  <2>6. PICK u \in Nat : u = t  BY <1>2
  <2>7. EnteredAs(S, R, a, word, d, z, c, m, b)  BY <2>1, <2>2, <2>3, <2>4, <2>5
  <2>8. d \/ (IF z = 0 THEN c # u ELSE m)  BY <2>3
  <2>9. Sorted(S)  BY <2>5
  <2>10. Cardinality(Lines(R, w, at)) <= 1 \/ Lines(R, w, at) \subseteq Lines(S, w, at)
    BY <1>0, <2>6, <2>7, <2>8, <2>9, EnteredTimes
  <2>. QED BY <2>5, <2>10
<1>7. ASSUME Drops PROVE r \subseteq s  BY <1>7, LinesThinned DEF Drops
<1>8. ASSUME Refers PROVE r \subseteq s  BY <1>8 DEF Refers, Lines
<1>9. r \subseteq s => Cardinality(r) <= Cardinality(s)
  <2> HIDE DEF r, s
  <2>. QED BY <1>4, CountIs
<1> HIDE DEF r, s
<1>. QED BY <1>1, <1>3, <1>4, <1>5, <1>6, <1>7, <1>8, <1>9 DEF Step

-----------------------------------------------------------------------------
(* The theorems.                                                            *)

\* The history is one of Histories in every state: each struct Hist is on the list
\* once, and the table, if there is one, holds exactly those on the list, each
\* where a search for it gets (sh.hist.c).
THEOREM HistCorrect == Spec => []HistInv
<1>1. Init => HistInv  BY InitIs
<1>2. HistInv /\ [Next]_vars => HistInv'  BY StepIs
<1>. QED BY <1>1, <1>2, PTL DEF Spec

\* Every state is well typed: no entry is on the list twice, and histMerg, which
\* mergeInsertionPoint() follows, is no struct Hist that was freed.
THEOREM HistTypes == Spec => []TypeOK
<1>1. HistInv => TypeOK
  <2> SUFFICES ASSUME HistInv PROVE TypeOK  OBVIOUS
  <2>1. H \in Histories /\ histlen \in Lengths /\ histdup \in Modes /\ clock \in 1 .. MaxTime
        /\ lexing \in BOOLEAN
    BY DEF HistInv
  <2>2. H.table # ABORT => \A i \in DOMAIN H.table : H.table[i] \in {EMPTY, DELETED} \cup Ids
    <3>1. H.table \in Tables  BY <2>1, HistoryIs DEF Store
    <3>2. DOMAIN NoTable = {}  BY DEF NoTable
    <3>. QED BY <3>1, <3>2 DEF Tables
  <2>. QED BY <2>1, <2>2, HistoryIs DEF TypeOK
<1>. QED BY <1>1, HistCorrect, PTL

\* The hash table and the list hold the same entries, and a search finds each of
\* them, whatever was inserted, removed and rehashed before, and in every order.
THEOREM TableTheorem == Spec => []TableMatchesList
<1>1. HistInv => TableMatchesList  BY TableSound
<1>. QED BY <1>1, HistCorrect, PTL

\* With histdup = erase or all no step makes a second entry of a line.
THEOREM DuplicatesTheorem == Spec => NoNewDuplicates
<1>1. HistInv /\ [Next]_vars =>
        [\A w \in Words : histdup \in {"erase", "all"} /\ Copies(H', w) > 1
           => Copies(H', w) <= Copies(H, w)]_vars
  BY DuplicatesStep
<1>. QED BY <1>1, HistCorrect, PTL DEF Spec, NoNewDuplicates

\* Without dummy entries the events are in the order of their numbers: those of
\* savehist() and bubbleHnumHrefDown() are never given twice.
THEOREM OrderTheorem ==
  ASSUME MaxDummies = 0 PROVE Spec => [](HistInv /\ Ordered(H, H.eventno))
<1>1. Init => HistInv /\ Ordered(H, H.eventno)
  <2> SUFFICES ASSUME Init PROVE HistInv /\ Ordered(H, H.eventno)  OBVIOUS
  <2>1. HistInv /\ H.list = << >>  BY InitIs
  <2>2. Range(<< >>) = {} /\ Len(<< >>) = 0
    <3>1. DOMAIN << >> = {}  OBVIOUS
    <3>. QED BY <3>1 DEF Range
  <2>. QED BY <2>1, <2>2 DEF Ordered
<1>2. HistInv /\ Ordered(H, H.eventno) /\ [Next]_vars => (HistInv /\ Ordered(H, H.eventno))'
  BY StepIs, OrderedNext
<1>. QED BY <1>1, <1>2, PTL DEF Spec

\* ... and so !n is one event.
THEOREM EventsTheorem == ASSUME MaxDummies = 0 PROVE Spec => []EventsInOrder
<1>1. HistInv /\ Ordered(H, H.eventno) => EventsInOrder
  <2> SUFFICES ASSUME HistInv, Ordered(H, H.eventno) PROVE EventsInOrder  OBVIOUS
  <2>1. \A i \in 1 .. Len(H.list) : H.list[i] \in Range(H.list)  BY HistoryIs DEF HistInv
  <2>. QED BY <2>1 DEF EventsInOrder, Ordered
<1>. QED BY <1>1, OrderTheorem, PTL

\* Without dummy entries a line that is entered pushes none of the last $history
\* events off the list, however discardExcess() goes through it.
THEOREM RecentTheorem == ASSUME MaxDummies = 0 PROVE Spec => RecentKept
<1>1. HistInv /\ Ordered(H, H.eventno) /\ [Next]_vars =>
        [\A id \in Range(H.list) :
           LET e == H.hist[id] IN
           ~e.dummy /\ histdup # "erase" /\ histlen' = histlen /\ H'.eventno > H.eventno
             /\ H'.eventno - e.num < histlen
             => \E f \in Range(H'.list) : H'.hist[f].word = e.word /\ ~H'.hist[f].dummy]_vars
  BY RecentNext
<1>. QED BY <1>1, OrderTheorem, PTL DEF Spec, RecentKept

\* If files are merged, never loaded, no line is merged a second time: where
\* mergeInsertionPoint() ends, all entries of the time are looked at.
THEOREM MergedTheorem == ASSUME Loads \subseteq {"merge"} PROVE Spec => MergedOnce
<1>1. HistInv /\ [Next]_vars =>
        [\A w \in Words, t \in 1 .. clock - 1 :
           Sorted(H) /\ histdup \in {"", "erase"} /\ At(H', w, t) > 1
             => At(H', w, t) <= At(H, w, t)]_vars
  <2>1. histdup \in {"", "erase"} => histdup \notin {"all", "prev"}  OBVIOUS
  <2>. QED BY Zenon, <2>1, MergedNext
<1>. QED BY <1>1, HistCorrect, PTL DEF Spec, MergedOnce
=============================================================================
