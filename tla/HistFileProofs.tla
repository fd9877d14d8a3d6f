--------------------------- MODULE HistFileProofs ---------------------------
(***************************************************************************)
(* Proofs about HistFile, for every set of shells, unique names and lines: *)
(* its variables have their types, at most one shell has the lock, and     *)
(* while nothing disturbs the lock no saved line is lost and no lock is    *)
(* left behind.                                                            *)
(***************************************************************************)
EXTENDS HistFile, TLAPS

\* Until it leaves the loop of create_exclusive() a shell has a try left.
TriesLeft ==
  \A s \in Shells : pc[s] \in {"link", "stat", "unlink"} \/ tries[s] < MaxTries

TypeInv == TypeOK /\ TriesLeft

LEMMA InitTypeInv == Init => TypeInv
  BY DotLockAssumption, HistFileAssumption
     DEF Init, DotLockInit, TypeInv, TypeOK, TriesLeft, Places, DotLockPcs, Exclusive, NoCookie

USE DEF Goto, Fails, Return

LEMMA CreateExclusiveTypeInv ==
  ASSUME TypeInv, NEW s \in Shells, Dotlock(s)
  PROVE  TypeInv'
<1> USE DotLockAssumption DEF TypeInv, TypeOK, TriesLeft, Places, DotLockPcs, Exclusive
<1>0. NoCookie \in Cookies
  BY DEF NoCookie
<1>1. CASE Gettimeofday(s)
  BY <1>1 DEF Dotlock, Gettimeofday
<1>2. CASE Open(s)
  BY <1>2 DEF Dotlock, Open
<1>3. CASE OpenExists(s)
  BY <1>3 DEF Dotlock, OpenExists
<1>4. CASE OpenFails(s, "load")
  BY <1>0, <1>4 DEF Dotlock, OpenFails
<1>5. CASE Link(s)
  BY <1>5 DEF Dotlock, Link
<1>6. CASE LinkFails(s)
  BY <1>6 DEF Dotlock, LinkFails
<1>7. CASE Stat(s)
  BY <1>7 DEF Dotlock, Stat
<1>8. CASE Unlink(s, "load")
  BY <1>0, <1>8 DEF Dotlock, Unlink, GONE, NONE
<1> QED
  BY <1>1, <1>2, <1>3, <1>4, <1>5, <1>6, <1>7, <1>8 DEF Dotlock, CreateExclusive

LEMMA NextTypeInv == TypeInv /\ [Next]_vars => TypeInv'
<1> SUFFICES ASSUME TypeInv, [Next]_vars PROVE TypeInv'
  OBVIOUS
<1> USE DotLockAssumption, HistFileAssumption
    DEF TypeInv, TypeOK, TriesLeft, Places, DotLockPcs, Exclusive, dotlock
<1>0. NoCookie \in Cookies
  BY DEF NoCookie
<1>1. ASSUME NEW s \in Shells, Type(s) PROVE TypeInv'
  BY <1>1 DEF Type
<1>2. ASSUME NEW s \in Shells, Rechist(s) PROVE TypeInv'
  BY <1>2 DEF Rechist
<1>3. ASSUME NEW s \in Shells, Dotlock(s) PROVE TypeInv'
  BY <1>3, CreateExclusiveTypeInv
<1>4. ASSUME NEW s \in Shells, DotlockReturns(s) PROVE TypeInv'
  BY <1>4 DEF DotlockReturns
<1>5. ASSUME NEW s \in Shells, Loadhist(s) PROVE TypeInv'
  BY <1>5 DEF Loadhist
<1>6. ASSUME NEW s \in Shells, Xcreat(s) \/ XcreatFails(s) PROVE TypeInv'
  BY <1>6 DEF Xcreat, XcreatFails
<1>7. ASSUME NEW s \in Shells, Rename(s) PROVE TypeInv'
  BY <1>7 DEF Rename
<1>8. ASSUME NEW s \in Shells, Cleanup(s) PROVE TypeInv'
  BY <1>8 DEF Cleanup, dot_unlock, NONE
<1>9. ASSUME NEW s \in Shells, InterruptedLock(s) PROVE TypeInv'
  BY <1>9 DEF InterruptedLock
<1>10. ASSUME NEW s \in Shells, InterruptedLoad(s) PROVE TypeInv'
  BY <1>10 DEF InterruptedLoad
<1>11. ASSUME NEW s \in Shells, Killed(s) PROVE TypeInv'
  BY <1>0, <1>11 DEF Killed
<1>12. ASSUME UNCHANGED vars PROVE TypeInv'
  BY <1>12 DEF vars
<1> QED
  BY <1>1, <1>2, <1>3, <1>4, <1>5, <1>6, <1>7, <1>8, <1>9, <1>10, <1>11, <1>12 DEF Next, Save

\* In every reachable state the variables of the lock, of the history file and
\* of the shells that use them (dotlock.c, rechist) have their types.
THEOREM TypeCorrect == Spec => []TypeOK
<1>1. TypeInv => TypeOK
  BY DEF TypeInv
<1> QED
  BY InitTypeInv, NextTypeInv, <1>1, PTL DEF Spec

-----------------------------------------------------------------------------
(* Mutual exclusion.                                                        *)

LEMMA CreateExclusiveMutex ==
  ASSUME TypeInv, MutualExclusion, NEW s \in Shells, Dotlock(s)
  PROVE  MutualExclusion'
<1> USE DEF TypeInv, TypeOK, MutualExclusion, Owns
<1>1. CASE Gettimeofday(s)
  BY <1>1 DEF Dotlock, Gettimeofday
<1>2. CASE Open(s)
  BY <1>2 DEF Dotlock, Open
<1>3. CASE OpenExists(s)
  BY <1>3 DEF Dotlock, OpenExists
<1>4. CASE OpenFails(s, "load")
  BY <1>4 DEF Dotlock, OpenFails
<1>5. CASE Link(s)
  BY <1>5, DotLockAssumption DEF Dotlock, Link
<1>6. CASE LinkFails(s)
  BY <1>6 DEF Dotlock, LinkFails
<1>7. CASE Stat(s)
  BY <1>7 DEF Dotlock, Stat
<1>8. CASE Unlink(s, "load")
  <2>1. Owns(s)' => Owns(s)
    BY <1>8 DEF Dotlock, Unlink
  <2>2. \A t \in Shells \ {s} : Owns(t)' <=> Owns(t)
    BY <1>8 DEF Dotlock, Unlink
  <2>3. lock # NONE => lock' # NONE
    BY <1>8 DEF Unlink, NONE, GONE
  <2> QED
    BY <2>1, <2>2, <2>3
<1> QED
  BY <1>1, <1>2, <1>3, <1>4, <1>5, <1>6, <1>7, <1>8 DEF Dotlock, CreateExclusive

\* Who has the lock can only be the shell that had it, unless link() succeeds;
\* and only that shell removes it.
LEMMA NextMutex == TypeInv /\ MutualExclusion /\ [Next]_vars => MutualExclusion'
<1> SUFFICES ASSUME TypeInv, MutualExclusion, [Next]_vars PROVE MutualExclusion'
  OBVIOUS
<1> USE DEF TypeInv, TypeOK, MutualExclusion, Owns
<1>1. ASSUME NEW s \in Shells, Type(s) PROVE MutualExclusion'
  BY <1>1 DEF Type, dotlock
<1>2. ASSUME NEW s \in Shells, Rechist(s) PROVE MutualExclusion'
  BY <1>2 DEF Rechist
<1>3. ASSUME NEW s \in Shells, Dotlock(s) PROVE MutualExclusion'
  BY <1>3, CreateExclusiveMutex
<1>4. ASSUME NEW s \in Shells, DotlockReturns(s) PROVE MutualExclusion'
  BY <1>4 DEF DotlockReturns
<1>5. ASSUME NEW s \in Shells, Loadhist(s) PROVE MutualExclusion'
  BY <1>5 DEF Loadhist
<1>6. ASSUME NEW s \in Shells, Xcreat(s) \/ XcreatFails(s) PROVE MutualExclusion'
  BY <1>6 DEF Xcreat, XcreatFails
<1>7. ASSUME NEW s \in Shells, Rename(s) PROVE MutualExclusion'
  BY <1>7 DEF Rename
<1>8. ASSUME NEW s \in Shells, Cleanup(s) PROVE MutualExclusion'
  <2>1. CASE locked[s]
    BY <1>8, <2>1 DEF Cleanup, dot_unlock
  <2>2. CASE ~locked[s]
    BY <1>8, <2>2 DEF Cleanup
  <2> QED
    BY <2>1, <2>2
<1>9. ASSUME NEW s \in Shells, InterruptedLock(s) PROVE MutualExclusion'
  BY <1>9 DEF InterruptedLock
<1>10. ASSUME NEW s \in Shells, InterruptedLoad(s) PROVE MutualExclusion'
  BY <1>10 DEF InterruptedLoad
<1>11. ASSUME NEW s \in Shells, Killed(s) PROVE MutualExclusion'
  BY <1>11 DEF Killed
<1>12. ASSUME UNCHANGED vars PROVE MutualExclusion'
  BY <1>12 DEF vars, dotlock
<1> QED
  BY <1>1, <1>2, <1>3, <1>4, <1>5, <1>6, <1>7, <1>8, <1>9, <1>10, <1>11, <1>12 DEF Next, Save

LEMMA InitMutex == Init => MutualExclusion
  BY DEF Init, DotLockInit, MutualExclusion, Owns

\* At most one shell has the lock of dotlock.c at a time, for any number of
\* shells, although link() is all that is atomic: whatever happens to the unique
\* names, to open() and to the shells.
THEOREM MutexCorrect == Spec => []MutualExclusion
  BY InitTypeInv, NextTypeInv, InitMutex, NextMutex, PTL DEF Spec

-----------------------------------------------------------------------------
(* What holds while nothing has disturbed the lock.                         *)

\* No two shells use the same unique name.
Distinct ==
  \A s, t \in Shells :
    pc[s] \in Exclusive /\ pc[t] \in Exclusive /\ cookie[s] = cookie[t] => s = t

\* It is there when it is linked, and the lock is a link to it; so dot_lock()
\* never gives up.
Linked ==
  \A s \in Shells :
    /\ pc[s] \in {"link", "stat"} => cookie[s] \in names
    /\ pc[s] = "stat" => lock = cookie[s]
    /\ pc[s] = "unlink" => errno[s] # "ENOENT"

\* Whoever saves has the lock, and nothing that was saved is missing in its list.
Merged ==
  \A s \in Shells :
    /\ pc[s] \in {"load", "write", "rename", "unlock"} => locked[s]
    /\ pc[s] \in {"write", "rename"} => file \subseteq mem[s]

\* There is a shell that will remove the lock, or that died.
Owned == lock # NONE => \E s \in Shells : Owns(s) \/ pc[s] = "dead"

Serial == disturbed = {} => Distinct /\ Linked /\ Merged /\ Owned

Inv == TypeInv /\ MutualExclusion /\ Serial

LEMMA InitSerial == Init => Serial
  BY DEF Init, DotLockInit, Serial, Distinct, Linked, Merged, Owned, Exclusive

LEMMA CreateExclusiveSerial ==
  ASSUME Inv, NEW s \in Shells, Dotlock(s)
  PROVE  Serial'
<1> SUFFICES ASSUME disturbed' = {} PROVE (Distinct /\ Linked /\ Merged /\ Owned)'
  BY DEF Serial
<1>0. disturbed = {}
  BY DEF Dotlock, CreateExclusive, Gettimeofday, Open, OpenExists, OpenFails, Link, LinkFails,
         Stat, Unlink
<1>i. Distinct /\ Linked /\ Merged /\ Owned
  BY <1>0 DEF Inv, Serial
<1>t. TypeOK /\ MutualExclusion
  BY DEF Inv, TypeInv
<1> USE DEF TypeOK, Exclusive
<1>1. CASE Gettimeofday(s)
  <2>1. Distinct'
    BY <1>i, <1>t, <1>1 DEF Gettimeofday, Distinct
  <2>2. Linked'
    BY <1>i, <1>t, <1>1 DEF Gettimeofday, Linked
  <2>3. Merged'
    BY <1>i, <1>t, <1>1 DEF Gettimeofday, Merged, Dotlock
  <2>4. Owned'
    BY <1>i, <1>t, <1>1 DEF Gettimeofday, Owned, Owns, Dotlock
  <2> QED
    BY <2>1, <2>2, <2>3, <2>4
<1>2. CASE Open(s)
  <2>1. Distinct'
    BY <1>i, <1>t, <1>2 DEF Open, Distinct
  <2>2. Linked'
    BY <1>i, <1>t, <1>2 DEF Open, Linked
  <2>3. Merged'
    BY <1>i, <1>t, <1>2 DEF Open, Merged, Dotlock
  <2>4. Owned'
    BY <1>i, <1>t, <1>2 DEF Open, Owned, Owns, Dotlock
  <2> QED
    BY <2>1, <2>2, <2>3, <2>4
<1>3. CASE OpenExists(s)
  <2>1. Distinct'
    BY <1>i, <1>t, <1>3 DEF OpenExists, Distinct
  <2>2. Linked'
    BY <1>i, <1>t, <1>3 DEF OpenExists, Linked
  <2>3. Merged'
    BY <1>i, <1>t, <1>3 DEF OpenExists, Merged, Dotlock
  <2>4. Owned'
    BY <1>i, <1>t, <1>3 DEF OpenExists, Owned, Owns, Dotlock
  <2> QED
    BY <2>1, <2>2, <2>3, <2>4
<1>4. CASE OpenFails(s, "load")
  BY <1>4 DEF OpenFails
<1>5. CASE Link(s)
  <2>1. Distinct'
    BY <1>i, <1>t, <1>5 DEF Link, Distinct
  <2>2. Linked'
    BY <1>i, <1>t, <1>5 DEF Link, Linked, MutualExclusion, Owns
  <2>3. Merged'
    BY <1>i, <1>t, <1>5 DEF Link, Merged, Dotlock
  <2>4. Owned'
    BY <1>i, <1>t, <1>5 DEF Link, Owned, Owns, Dotlock
  <2> QED
    BY <2>1, <2>2, <2>3, <2>4
<1>6. CASE LinkFails(s)
  <2>1. Distinct'
    BY <1>i, <1>t, <1>6 DEF LinkFails, Distinct
  <2>2. Linked'
    BY <1>i, <1>t, <1>6 DEF LinkFails, Linked
  <2>3. Merged'
    BY <1>i, <1>t, <1>6 DEF LinkFails, Merged, Dotlock
  <2>4. Owned'
    BY <1>i, <1>t, <1>6 DEF LinkFails, Owned, Owns, Dotlock
  <2> QED
    BY <2>1, <2>2, <2>3, <2>4
<1>7. CASE Stat(s)
  <2>1. Distinct'
    BY <1>i, <1>t, <1>7 DEF Stat, Distinct
  <2>2. Linked'
    BY <1>i, <1>t, <1>7 DEF Stat, Linked
  <2>3. Merged'
    BY <1>i, <1>t, <1>7 DEF Stat, Merged, Dotlock
  <2>4. Owned'
    BY <1>i, <1>t, <1>7 DEF Stat, Owned, Owns, Dotlock, Linked
  <2> QED
    BY <2>1, <2>2, <2>3, <2>4
<1>8. CASE Unlink(s, "load")
  <2>0. errno[s] = "0" \/ errno[s] = "EEXIST"
    BY <1>i, <1>t, <1>8 DEF Unlink, Linked
  <2>p. pc' = [pc EXCEPT ![s] = IF errno[s] = "0" THEN "return" ELSE "lock"]
    BY <2>0, <1>8 DEF Unlink
  <2>u. /\ names' = names \ {cookie[s]} /\ pc[s] = "unlink"
        /\ lock' = IF lock = cookie[s] THEN GONE ELSE lock
        /\ cookie' = [cookie EXCEPT ![s] = NoCookie] /\ errno' = [errno EXCEPT ![s] = "0"]
        /\ UNCHANGED <<file, mem, locked>>
    BY <1>8 DEF Unlink, Dotlock
  <2>1. Distinct'
    BY <1>i, <1>t, <2>p, <2>u DEF Distinct
  <2>2. Linked'
    BY <1>i, <1>t, <2>p, <2>u DEF Linked, Distinct
  <2>3. Merged'
    BY <1>i, <1>t, <2>p, <2>u DEF Merged
  <2>4. Owned'
    <3>1. lock' # NONE => lock # NONE
      BY <1>t, <2>u, DotLockAssumption
    <3>2. \A t \in Shells : Owns(t) \/ pc[t] = "dead" => (Owns(t) \/ pc[t] = "dead")'
      BY <1>t, <2>p, <2>u DEF Owns
    <3> QED
      BY <1>i, <3>1, <3>2 DEF Owned
  <2> QED
    BY <2>1, <2>2, <2>3, <2>4
<1> QED
  BY <1>1, <1>2, <1>3, <1>4, <1>5, <1>6, <1>7, <1>8 DEF Dotlock, CreateExclusive

LEMMA NextSerial == Inv /\ [Next]_vars => Serial'
<1> SUFFICES ASSUME Inv, [Next]_vars, disturbed' = {}
             PROVE  (Distinct /\ Linked /\ Merged /\ Owned)'
  BY DEF Serial
<1>0. CASE \E s \in Shells : Dotlock(s)
  BY <1>0, CreateExclusiveSerial DEF Serial
<1>a. CASE \E s \in Shells : InterruptedLock(s) \/ InterruptedLoad(s)
  BY <1>a DEF InterruptedLock, InterruptedLoad
<1>b. SUFFICES ASSUME disturbed = {}
      PROVE (\/ UNCHANGED vars
             \/ \E s \in Shells :
                   \/ Type(s) \/ Rechist(s) \/ DotlockReturns(s) \/ Loadhist(s) \/ Xcreat(s)
                   \/ XcreatFails(s) \/ Rename(s) \/ Cleanup(s) \/ Killed(s))
              => (Distinct /\ Linked /\ Merged /\ Owned)'
  BY <1>0, <1>a DEF Next, Save, Type, Rechist, DotlockReturns, Loadhist, Xcreat, XcreatFails,
                    Rename, Cleanup, Killed, vars, dotlock
<1>i. Distinct /\ Linked /\ Merged /\ Owned
  BY <1>b DEF Inv, Serial
<1>t. TypeOK /\ MutualExclusion
  BY DEF Inv, TypeInv
<1> USE DEF TypeOK, Exclusive
<1>1. ASSUME NEW s \in Shells, Type(s) PROVE (Distinct /\ Linked /\ Merged /\ Owned)'
  <2>1. Distinct'
    BY <1>i, <1>t, <1>1 DEF Type, dotlock, Distinct
  <2>2. Linked'
    BY <1>i, <1>t, <1>1 DEF Type, dotlock, Linked
  <2>3. Merged'
    BY <1>i, <1>t, <1>1 DEF Type, dotlock, Merged
  <2>4. Owned'
    BY <1>i, <1>t, <1>1 DEF Type, dotlock, Owned, Owns
  <2> QED
    BY <2>1, <2>2, <2>3, <2>4
<1>2. ASSUME NEW s \in Shells, Rechist(s) PROVE (Distinct /\ Linked /\ Merged /\ Owned)'
  <2>1. Distinct'
    BY <1>i, <1>t, <1>2 DEF Rechist, Distinct
  <2>2. Linked'
    BY <1>i, <1>t, <1>2 DEF Rechist, Linked
  <2>3. Merged'
    BY <1>i, <1>t, <1>2 DEF Rechist, Merged
  <2>4. Owned'
    BY <1>i, <1>t, <1>2 DEF Rechist, Owned, Owns
  <2> QED
    BY <2>1, <2>2, <2>3, <2>4
<1>4. ASSUME NEW s \in Shells, DotlockReturns(s) PROVE (Distinct /\ Linked /\ Merged /\ Owned)'
  <2>1. Distinct'
    BY <1>i, <1>t, <1>4 DEF DotlockReturns, Distinct
  <2>2. Linked'
    BY <1>i, <1>t, <1>4 DEF DotlockReturns, Linked
  <2>3. Merged'
    BY <1>i, <1>t, <1>4 DEF DotlockReturns, Merged
  <2>4. Owned'
    BY <1>i, <1>t, <1>4 DEF DotlockReturns, Owned, Owns
  <2> QED
    BY <2>1, <2>2, <2>3, <2>4
<1>5. ASSUME NEW s \in Shells, Loadhist(s) PROVE (Distinct /\ Linked /\ Merged /\ Owned)'
  <2>1. Distinct'
    BY <1>i, <1>t, <1>5 DEF Loadhist, Distinct
  <2>2. Linked'
    BY <1>i, <1>t, <1>5 DEF Loadhist, Linked
  <2>3. Merged'
    BY <1>i, <1>t, <1>5 DEF Loadhist, Merged
  <2>4. Owned'
    BY <1>i, <1>t, <1>5 DEF Loadhist, Owned, Owns
  <2> QED
    BY <2>1, <2>2, <2>3, <2>4
<1>6. ASSUME NEW s \in Shells, Xcreat(s) PROVE (Distinct /\ Linked /\ Merged /\ Owned)'
  <2>1. Distinct'
    BY <1>i, <1>t, <1>6 DEF Xcreat, Distinct
  <2>2. Linked'
    BY <1>i, <1>t, <1>6 DEF Xcreat, Linked
  <2>3. Merged'
    BY <1>i, <1>t, <1>6 DEF Xcreat, Merged
  <2>4. Owned'
    BY <1>i, <1>t, <1>6 DEF Xcreat, Owned, Owns
  <2> QED
    BY <2>1, <2>2, <2>3, <2>4
<1>7. ASSUME NEW s \in Shells, XcreatFails(s) PROVE (Distinct /\ Linked /\ Merged /\ Owned)'
  <2>1. Distinct'
    BY <1>i, <1>t, <1>7 DEF XcreatFails, Distinct
  <2>2. Linked'
    BY <1>i, <1>t, <1>7 DEF XcreatFails, Linked
  <2>3. Merged'
    BY <1>i, <1>t, <1>7 DEF XcreatFails, Merged
  <2>4. Owned'
    BY <1>i, <1>t, <1>7 DEF XcreatFails, Owned, Owns
  <2> QED
    BY <2>1, <2>2, <2>3, <2>4
<1>8. ASSUME NEW s \in Shells, Rename(s) PROVE (Distinct /\ Linked /\ Merged /\ Owned)'
  <2>1. Distinct'
    BY <1>i, <1>t, <1>8 DEF Rename, Distinct
  <2>2. Linked'
    BY <1>i, <1>t, <1>8 DEF Rename, Linked
  <2>3. Merged'
    BY <1>i, <1>t, <1>8 DEF Rename, Merged, MutualExclusion, Owns
  <2>4. Owned'
    BY <1>i, <1>t, <1>8 DEF Rename, Owned, Owns
  <2> QED
    BY <2>1, <2>2, <2>3, <2>4
<1>9. ASSUME NEW s \in Shells, Cleanup(s) PROVE (Distinct /\ Linked /\ Merged /\ Owned)'
  <2>1. Distinct'
    BY <1>i, <1>t, <1>9 DEF Cleanup, dot_unlock, Distinct
  <2>2. Linked'
    BY <1>i, <1>t, <1>9 DEF Cleanup, dot_unlock, Linked, MutualExclusion, Owns
  <2>3. Merged'
    BY <1>i, <1>t, <1>9 DEF Cleanup, dot_unlock, Merged
  <2>4. Owned'
    BY <1>i, <1>t, <1>9 DEF Cleanup, dot_unlock, Owned, Owns, MutualExclusion
  <2> QED
    BY <2>1, <2>2, <2>3, <2>4
<1>11. ASSUME NEW s \in Shells, Killed(s) PROVE (Distinct /\ Linked /\ Merged /\ Owned)'
  <2>1. Distinct'
    BY <1>i, <1>t, <1>11 DEF Killed, Distinct
  <2>2. Linked'
    BY <1>i, <1>t, <1>11 DEF Killed, Linked
  <2>3. Merged'
    BY <1>i, <1>t, <1>11 DEF Killed, Merged
  <2>4. Owned'
    BY <1>i, <1>t, <1>11 DEF Killed, Owned, Owns
  <2> QED
    BY <2>1, <2>2, <2>3, <2>4
<1>12. ASSUME UNCHANGED vars PROVE (Distinct /\ Linked /\ Merged /\ Owned)'
  BY <1>i, <1>12 DEF vars, dotlock, Distinct, Linked, Merged, Owned, Owns
<1> QED
  BY <1>1, <1>2, <1>4, <1>5, <1>6, <1>7, <1>8, <1>9, <1>11, <1>12

LEMMA Invariant == Spec => []Inv
<1>1. Init => Inv
  BY InitTypeInv, InitMutex, InitSerial DEF Inv
<1>2. Inv /\ [Next]_vars => Inv'
  BY NextTypeInv, NextMutex, NextSerial DEF Inv
<1> QED
  BY <1>1, <1>2, PTL DEF Spec

\* A lock that no living shell will remove was left by one that was killed: all
\* others remove theirs on every path through rechist().
THEOREM StaleLockCorrect == Spec => []NoStaleLock
<1>1. Inv => NoStaleLock
  BY DEF Inv, Serial, Owned, NoStaleLock
<1> QED
  BY <1>1, Invariant, PTL

\* No shell loses lines that any other has saved (rechist() with merge and lock),
\* for any number of shells that save as often as they like.
THEOREM SavedStaysCorrect == Spec => SavedStays
<1>1. Inv /\ [Next]_vars => [disturbed' = {} => file \subseteq file']_vars
  <2> SUFFICES ASSUME Inv, [Next]_vars, disturbed' = {} PROVE file \subseteq file'
    OBVIOUS
  <2>1. CASE \E s \in Shells : Rename(s)
    BY <2>1 DEF Inv, Serial, Merged, Rename
  <2>2. CASE ~ \E s \in Shells : Rename(s)
    BY <2>2 DEF Next, Save, Dotlock, Type, Rechist, DotlockReturns, Loadhist, Xcreat, XcreatFails,
                Cleanup, InterruptedLock, InterruptedLoad, Killed, vars
  <2> QED
    BY <2>1, <2>2
<1> QED
  BY <1>1, Invariant, PTL DEF Spec, SavedStays
=============================================================================
