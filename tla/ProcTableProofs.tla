-------------------------- MODULE ProcTableProofs --------------------------
(***************************************************************************)
(* What the routines of the process table return, for every table:         *)
(*                                                                         *)
(*  - each returns again a member of Tables (used by JobControlProofs);    *)
(*  - on a table that is WellFormed (Shape: the rings of p_friends and the *)
(*    leaders' p_jobid; FlagsOK: one state per process; CurrPrev: %+ and   *)
(*    %-) each returns a WellFormed one (used by JobSafetyProofs);         *)
(*  - which fields of which processes it changes (Flushed, Allocated,      *)
(*    SetFlagsIs ...), so that the proofs about job control need not       *)
(*    expand it again.                                                     *)
(***************************************************************************)
EXTENDS ProcTable, TLAPS, WellFoundedInduction, NaturalsInduction

(* Greatest() and Least() of a set of pointers or numbers.                 *)
LEMMA GreatestIn ==
  ASSUME NEW S, NEW A, S \subseteq A, 0 \in A
  PROVE  Greatest(S) \in A
BY DEF Greatest

LEMMA LeastIn ==
  ASSUME NEW S, NEW A, S \subseteq A, 0 \in A
  PROVE  Least(S) \in A
BY DEF Least

\* A set of slots that is not empty has a least and a greatest member: Least
\* and Greatest find one.
LEMMA LeastIs ==
  ASSUME NEW S, S \subseteq Nat, S # {}
  PROVE  Least(S) \in S /\ \A q \in S : Least(S) <= q
<1>1. PICK x \in S : \A y \in S : ~(<<y, x>> \in OpToRel(<, Nat))
  BY NatLessThanWellFounded, WFMin
<1>2. \A y \in S : ~(y < x)  BY <1>1 DEF OpToRel
<1>3. \A y \in S : x <= y  BY <1>2
<1>. QED BY <1>3 DEF Least

LEMMA GreatestIs ==
  ASSUME NEW S, S \subseteq Slots, S # {}
  PROVE  Greatest(S) \in S /\ \A q \in S : q <= Greatest(S)
<1> DEFINE D == {MaxProcs - q : q \in S}
<1>1. MaxProcs \in Nat /\ S \subseteq Nat /\ \A q \in S : q <= MaxProcs
  BY ProcTableAssumption DEF Slots
<1>2. D \subseteq Nat /\ D # {}  BY <1>1
<1>3. PICK d \in D : \A e \in D : d <= e
  <2> HIDE DEF D
  <2>. QED BY <1>2, LeastIs
<1>4. PICK x \in S : d = MaxProcs - x  OBVIOUS
<1>5. \A y \in S : y <= x
  <2> TAKE y \in S
  <2>1. MaxProcs - y \in D  OBVIOUS
  <2>2. MaxProcs - x <= MaxProcs - y  BY <1>3, <1>4, <2>1
  <2>. QED BY <1>1, <2>2
<1>. QED BY <1>5 DEF Greatest

LEMMA SlotsPtr == /\ Slots \subseteq Ptr /\ NULL \in Ptr /\ Ptr \subseteq Nat
                  /\ NULL \notin Slots
BY ProcTableAssumption DEF Slots, Ptr, NULL

LEMMA ProclistSlots == ASSUME NEW T PROVE Proclist(T) \subseteq Slots
BY DEF Proclist

LEMMA RingSlots == ASSUME NEW T, NEW p PROVE Ring(T, p) \subseteq Slots
BY DEF Ring

LEMMA LeaderSlot ==
  ASSUME NEW T, NEW p, WalkEnds(T, p)
  PROVE  Leader(T, p) \in Slots
BY DEF WalkEnds, Leader, LeadersOf, Ring

LEMMA pgetcurrPtr == ASSUME NEW T, NEW p PROVE pgetcurr(T, p) \in Ptr
<1> DEFINE jobs    == LiveLeaders(T) \ {T.pcurrent, p}
           stopped == {q \in jobs : "PSTOPPED" \in T.flags[q]}
<1>1. jobs \subseteq Ptr /\ stopped \subseteq Ptr /\ 0 \in Ptr
  BY SlotsPtr DEF LiveLeaders, Proclist, NULL
<1>2. Greatest(jobs) \in Ptr /\ Greatest(stopped) \in Ptr
  BY <1>1, GreatestIn
<1>. QED BY <1>2 DEF pgetcurr

LEMMA SetFlagsType ==
  ASSUME NEW T \in Tables, NEW S, NEW add \in SUBSET Flags, NEW del
  PROVE  SetFlags(T, S, add, del) \in Tables
BY DEF SetFlags, Tables

LEMMA pclrcurrType ==
  ASSUME NEW T \in Tables, NEW p \in Slots
  PROVE  pclrcurr(T, p) \in Tables
<1>1. \A U : pgetcurr(U, p) \in Ptr
  BY pgetcurrPtr
<1>. QED BY <1>1 DEF pclrcurr, Tables

LEMMA LargestIndexNat == ASSUME NEW T \in Tables PROVE LargestIndex(T) \in Nat
<1>1. {T.index[p] : p \in Proclist(T)} \cup {0} \subseteq Nat
  BY ProclistSlots DEF Tables
<1>. QED BY <1>1, GreatestIn DEF LargestIndex

LEMMA pflushType ==
  ASSUME NEW T \in Tables, NEW p, WalkEnds(T, p)
  PROVE  pflush(T, p) \in Tables
<1> DEFINE pp   == Leader(T, p)
           ring == Ring(T, p)
           T1   == pclrcurr(T, pp)
           T1a  == [T1 EXCEPT
                !.pcurrjob = IF pp = @ THEN NULL ELSE @,
                !.index    = [q \in Slots |-> IF q \in ring THEN 0 ELSE @[q]],
                !.procid   = [q \in Slots |-> IF q \in ring THEN 0 ELSE @[q]]]
           T2   == SetFlags(T1a, ring, {}, {"PNEEDNOTE"})
<1>1. pp \in Slots  BY LeaderSlot
<1>2. T1 \in Tables  BY <1>1, pclrcurrType
<1>3. T1a \in Tables
  <2> HIDE DEF T1, ring, pp
  <2>. QED BY <1>2, SlotsPtr DEF Tables
<1>4. T2 \in Tables  BY <1>3, SetFlagsType
<1>5. [T2 EXCEPT !.pmaxindex = LargestIndex(T2)] \in Tables
  <2> HIDE DEF T2
  <2>. QED BY <1>4, LargestIndexNat DEF Tables
<1>. QED BY <1>4, <1>5 DEF pflush

LEMMA NewIndexNat == ASSUME NEW T \in Tables PROVE NewIndex(T) \in Nat
<1> DEFINE unused == {i \in 1 .. MaxProcs + 1 : \A p \in Proclist(T) : T.index[p] # i}
<1>1. unused \subseteq Nat  BY ProcTableAssumption
<1>2. Least(unused) \in Nat
  <2> HIDE DEF unused
  <2>. QED BY <1>1, LeastIn
<1>3. T.pmaxindex + 1 \in Nat  BY DEF Tables
<1>. QED BY <1>2, <1>3 DEF NewIndex

LEMMA pallocType ==
  ASSUME NEW T \in Tables, T.n < MaxProcs, NEW i \in Pids, NEW fg \in BOOLEAN
  PROVE  palloc(T, i, fg) \in Tables
<1> DEFINE p  == T.n + 1
           pj == T.pcurrjob
           T1 == [T EXCEPT
              !.n         = p,
              !.procid[p] = i,
              !.jobid[p]  = IF pj = NULL THEN i ELSE T.procid[pj],
              !.job[p]    = IF pj = NULL THEN p ELSE T.job[pj],
              !.index[p]  = IF pj = NULL THEN NewIndex(T) ELSE T.index[pj],
              !.flags[p]  = {"PRUNNING"} \cup (IF fg THEN {"PFOREGND"} ELSE {})]
           T2 == [T1 EXCEPT
              !.pcurrjob  = p,
              !.pmaxindex = IF NewIndex(T) > @ THEN NewIndex(T) ELSE @,
              !.pcurrent  = IF @ = NULL THEN p ELSE @,
              !.pprevious = IF T.pcurrent # NULL /\ @ = NULL THEN p ELSE @]
<1>1. p \in Slots /\ p \in Ptr /\ p \in Nat
  BY ProcTableAssumption DEF Slots, Ptr, Tables
<1>2. pj = NULL \/ pj \in Slots
  BY DEF Tables, Ptr, Slots, NULL
<1>3. NewIndex(T) \in Nat  BY NewIndexNat
<1>4. {"PRUNNING"} \cup (IF fg THEN {"PFOREGND"} ELSE {}) \in SUBSET Flags
  BY DEF Flags, PALLSTATES
<1>5. T1 \in Tables
  <2> DEFINE jobid == IF pj = NULL THEN i ELSE T.procid[pj]
             job   == IF pj = NULL THEN p ELSE T.job[pj]
             index == IF pj = NULL THEN NewIndex(T) ELSE T.index[pj]
             flags == {"PRUNNING"} \cup (IF fg THEN {"PFOREGND"} ELSE {})
  <2>1. jobid \in Pids \cup {0} /\ job \in Ptr /\ index \in Nat
    BY <1>1, <1>2, <1>3 DEF Tables
  <2>2. /\ [T.procid EXCEPT ![p] = i] \in [Slots -> Pids \cup {0}]
        /\ [T.jobid EXCEPT ![p] = jobid] \in [Slots -> Pids \cup {0}]
    <3> HIDE DEF jobid
    <3>. QED BY <2>1 DEF Tables
  <2>3. [T.job EXCEPT ![p] = job] \in [Slots -> Ptr]
    <3> HIDE DEF job
    <3>. QED BY <2>1 DEF Tables
  <2>4. [T.index EXCEPT ![p] = index] \in [Slots -> Nat]
    <3> HIDE DEF index
    <3>. QED BY <2>1 DEF Tables
  <2>5. [T.flags EXCEPT ![p] = flags] \in [Slots -> SUBSET Flags]
    <3> HIDE DEF flags
    <3>. QED BY <1>4 DEF Tables, flags
  <2> HIDE DEF p, pj, jobid, job, index, flags
  <2>6. [T EXCEPT !.n = p, !.procid[p] = i, !.jobid[p] = jobid, !.job[p] = job,
                  !.index[p] = index, !.flags[p] = flags] \in Tables
    BY <1>1, <2>2, <2>3, <2>4, <2>5 DEF Tables
  <2>. QED BY <2>6 DEF jobid, job, index, flags
<1>6. T2 \in Tables
  <2> HIDE DEF T1, p
  <2>. QED BY <1>1, <1>3, <1>5 DEF Tables
<1>. QED BY <1>5, <1>6 DEF palloc

LEMMA FreeFlushedType == ASSUME NEW T \in Tables PROVE FreeFlushed(T) \in Tables
BY ProclistSlots DEF FreeFlushed, Tables

LEMMA pendjobType == ASSUME NEW T \in Tables PROVE pendjob(T) \in Tables
BY SlotsPtr DEF pendjob, Tables

LEMMA psavejobType ==
  ASSUME NEW T \in Tables
  PROVE  psavejob(T) \in Tables /\ psavejob_cleanup(T) \in Tables
BY SlotsPtr DEF psavejob, psavejob_cleanup, Tables

LEMMA pstartType ==
  ASSUME NEW T \in Tables, NEW pp \in Slots, NEW fg \in BOOLEAN
  PROVE  pstart(T, pp, fg) \in Tables
<1> DEFINE alive == {q \in Ring(T, pp) : T.flags[q] \cap {"PRUNNING", "PSTOPPED"} # {}}
           add == {"PRUNNING"} \cup (IF fg THEN {"PFOREGND"} ELSE {})
           T1 == SetFlags(T, alive, add,
                 {"PSTOPPED"} \cup (IF fg THEN {} ELSE {"PFOREGND"}))
<1>1. add \in SUBSET Flags  BY DEF Flags, PALLSTATES
<1>2. T1 \in Tables  BY <1>1, SetFlagsType
<1>3. pclrcurr(T1, pp) \in Tables  BY <1>2, pclrcurrType
<1>. QED BY <1>2, <1>3 DEF pstart

LEMMA CollectedType ==
  ASSUME NEW T \in Tables, NEW pp, NEW st \in {"PSTOPPED"} \cup ExitStates
  PROVE  Collected(T, pp, st) \in Tables
<1>1. {st} \in SUBSET Flags  BY DEF Flags, PALLSTATES
<1>. QED BY <1>1, SetFlagsType DEF Collected

LEMMA JobFlagsFlags == ASSUME NEW T \in Tables, NEW p PROVE JobFlags(T, p) \subseteq Flags
BY RingSlots DEF JobFlags, Tables

(* What no routine but palloc, pflush, the freeing and a failed fg changes. *)
SameShape(T, U) ==
  /\ U.n = T.n /\ U.job = T.job /\ U.freed = T.freed
  /\ U.procid = T.procid /\ U.jobid = T.jobid

LEMMA SetFlagsShape ==
  ASSUME NEW T \in Tables, NEW S, NEW add, NEW del
  PROVE  SameShape(T, SetFlags(T, S, add, del))
BY DEF SetFlags, SameShape, Tables

LEMMA pclrcurrShape ==
  ASSUME NEW T \in Tables, NEW p
  PROVE  SameShape(T, pclrcurr(T, p))
BY DEF pclrcurr, SameShape, Tables

LEMMA UnforegroundedType ==
  ASSUME NEW T \in Tables, NEW pp, NEW st \in {"PSTOPPED"} \cup ExitStates
  PROVE  /\ Unforegrounded(T, pp, st) \in Tables
         /\ SameShape(T, Unforegrounded(T, pp, st))
<1>1. Collected(T, pp, st) \in Tables /\ SameShape(T, Collected(T, pp, st))
  BY CollectedType, SetFlagsShape DEF Collected
<1>2. SameShape(Collected(T, pp, st), Unforegrounded(T, pp, st))
  BY <1>1, SetFlagsShape DEF Unforegrounded
<1>. QED BY <1>1, <1>2, SetFlagsType DEF Unforegrounded, SameShape

LEMMA SettledType ==
  ASSUME NEW T \in Tables, NEW pp, NEW st \in {"PSTOPPED"} \cup ExitStates,
         WalkEnds(T, pp)
  PROVE  Settled(T, pp, st) \in Tables /\ SameShape(T, Settled(T, pp, st))
<1> DEFINE T1      == Unforegrounded(T, pp, st)
           stopped == {q \in Ring(T, pp) : "PSTOPPED" \in T1.flags[q]}
           T2      == SetFlags(T1, stopped, {"PREPORTED"}, {})
           fp      == Leader(T, pp)
           T3      == [T2 EXCEPT !.pprevious = IF T.pcurrent \notin {NULL, fp}
                                               THEN T.pcurrent ELSE @,
                                 !.pcurrent  = fp]
<1>1. T1 \in Tables /\ SameShape(T, T1)  BY UnforegroundedType
<1>2. T2 \in Tables /\ SameShape(T, T2)
  <2>1. {"PREPORTED"} \in SUBSET Flags  BY DEF Flags
  <2> HIDE DEF T1, stopped
  <2>2. T2 \in Tables  BY <1>1, <2>1, SetFlagsType
  <2>3. SameShape(T1, T2)  BY <1>1, SetFlagsShape
  <2>. QED BY <1>1, <2>2, <2>3 DEF SameShape
<1>3. fp \in Slots  BY LeaderSlot
<1>4. T3 \in Tables /\ SameShape(T, T3)
  <2> HIDE DEF T2, fp
  <2>. QED BY <1>2, <1>3, SlotsPtr DEF Tables, SameShape
<1>5. pclrcurr(T2, fp) \in Tables /\ SameShape(T, pclrcurr(T2, fp))
  <2> HIDE DEF T2, fp
  <2>. QED BY <1>2, <1>3, pclrcurrType, pclrcurrShape DEF SameShape
<1>6. Settled(T, pp, st) \in {T3, pclrcurr(T2, fp)}
  BY DEF Settled
<1>. QED BY <1>4, <1>5, <1>6

LEMMA WalkEndsShape ==
  ASSUME NEW T, NEW U, SameShape(T, U), NEW p, WalkEnds(T, p)
  PROVE  WalkEnds(U, p)
BY DEF SameShape, WalkEnds, LeadersOf, Ring

LEMMA pchildType ==
  ASSUME NEW T \in Tables, NEW pp, NEW st \in {"PSTOPPED"} \cup ExitStates,
         Unreported(T, pp, st) => WalkEnds(T, pp)
  PROVE  pchild(T, pp, st) \in Tables
<1> DEFINE T1 == Settled(T, pp, st)
           T2 == SetFlags(T1, {Leader(T, pp)}, {"PNEEDNOTE"}, {})
           T3 == [T2 EXCEPT !.neednote = TRUE]
<1>1. CASE ~Unreported(T, pp, st)
  BY <1>1, UnforegroundedType DEF pchild
<1>2. CASE Unreported(T, pp, st)
  <2>1. T1 \in Tables /\ SameShape(T, T1)  BY <1>2, SettledType
  <2>2. pflush(T1, pp) \in Tables
    BY <1>2, <2>1, WalkEndsShape, pflushType
  <2>3. T3 \in Tables
    <3>1. {"PNEEDNOTE"} \in SUBSET Flags  BY DEF Flags
    <3> HIDE DEF T1
    <3>2. T2 \in Tables  BY <2>1, <3>1, SetFlagsType
    <3> HIDE DEF T2
    <3>. QED BY <3>2 DEF Tables
  <2>4. pchild(T, pp, st) \in {T1, pflush(T1, pp), T3}
    BY <1>2 DEF pchild
  <2>. QED BY <2>1, <2>2, <2>3, <2>4
<1>. QED BY <1>1, <1>2

-----------------------------------------------------------------------------
\* The rings of p_friends: every struct is in the ring of a leader, is live as long
\* as its leader is and is not freed before; p_jobid is the leader's pid, and the
\* only live process of the ring with that pid is the leader, so that the walks
\* "while (pp->p_procid != pp->p_jobid)" end there.
Shape(T) ==
  \A p \in Slots :
    /\ p > T.n => T.procid[p] = 0 /\ p \notin T.freed
    /\ p <= T.n =>
         /\ T.job[p] \in Slots /\ T.job[p] <= T.n /\ T.job[T.job[p]] = T.job[p]
         /\ T.procid[p] = 0 <=> T.procid[T.job[p]] = 0
         /\ p \notin T.freed => T.jobid[p] # 0
    /\ T.procid[p] # 0 =>
         /\ p \notin T.freed
         /\ T.jobid[p] = T.procid[T.job[p]]
         /\ T.procid[p] = T.jobid[p] => p = T.job[p]

\* PNEEDNOTE is only set in live processes, PFOREGND in running ones, and PNOTIFY
\* nowhere.
FlagsOK(T) ==
  \A p \in Slots :
    /\ "PNEEDNOTE" \in T.flags[p] => T.procid[p] # 0
    /\ "PNOTIFY" \notin T.flags[p]
    /\ "PFOREGND" \in T.flags[p] => "PRUNNING" \in T.flags[p]

\* %+ and %- are live leaders or NULL, differ, and %- needs a %+.
CurrPrev(T) ==
  /\ {T.pcurrent, T.pprevious} \subseteq LiveLeaders(T) \cup {NULL}
  /\ T.pcurrent = T.pprevious => T.pcurrent = NULL
  /\ T.pcurrent = NULL => T.pprevious = NULL

\* p has not been flushed.
Live(T, p) == p \in Slots /\ T.procid[p] # 0

\* A live leader leads itself.
LEMMA LeaderIs ==
  ASSUME NEW T \in Tables, Shape(T), NEW p, p \in LiveLeaders(T)
  PROVE  Live(T, p) /\ T.job[p] = p /\ p \in Proclist(T)
BY DEF LiveLeaders, Proclist, Shape, Live

\* The walk from a live process to its leader ends, and its ring is live.
LEMMA LiveRing ==
  ASSUME NEW T \in Tables, Shape(T), NEW p, Live(T, p)
  PROVE  /\ p <= T.n /\ p \in Proclist(T)
         /\ T.job[p] \in LiveLeaders(T) /\ T.job[T.job[p]] = T.job[p]
         /\ LeadersOf(T, p) = {T.job[p]} /\ Leader(T, p) = T.job[p]
         /\ WalkEnds(T, p)
<1>0. T.n \in Nat /\ Slots \subseteq Nat BY DEF Tables, Slots
<1>1. p <= T.n /\ p \in Proclist(T)  BY <1>0 DEF Shape, Live, Proclist
<1>2. /\ T.job[p] \in Slots /\ T.job[p] <= T.n /\ T.job[T.job[p]] = T.job[p]
      /\ T.procid[T.job[p]] # 0 /\ T.job[p] \notin T.freed
      /\ T.jobid[T.job[p]] = T.procid[T.job[p]]
  BY <1>1 DEF Shape, Live
<1>3. T.job[p] \in LiveLeaders(T)  BY <1>2 DEF LiveLeaders, Proclist
<1>4. \A q \in Ring(T, p) : T.procid[q] # 0 /\ q \notin T.freed
                            /\ (T.procid[q] = T.jobid[q] => q = T.job[p])
  BY <1>2 DEF Ring, Shape
<1>5. LeadersOf(T, p) = {T.job[p]}  BY <1>2, <1>4 DEF LeadersOf, Ring
<1>6. Ring(T, p) \cap T.freed = {}  BY <1>4
<1>. QED BY <1>1, <1>2, <1>3, <1>5, <1>6 DEF WalkEnds, Leader

\* What pgetcurr() finds is NULL or a live leader that is neither p nor %+.
LEMMA pgetcurrIs ==
  ASSUME NEW T, NEW p
  PROVE  pgetcurr(T, p) \in (LiveLeaders(T) \ {T.pcurrent, p}) \cup {0}
<1> DEFINE jobs    == LiveLeaders(T) \ {T.pcurrent, p}
           stopped == {q \in jobs : "PSTOPPED" \in T.flags[q]}
<1>1. Greatest(jobs) \in jobs \cup {0} /\ Greatest(stopped) \in stopped \cup {0}
  BY DEF Greatest
<1>. QED BY <1>1 DEF pgetcurr

\* T and U differ in %+ and %- at most.
SameRest(T, U) ==
  /\ U.index = T.index /\ U.flags = T.flags /\ U.pcurrjob = T.pcurrjob
  /\ U.pmaxindex = T.pmaxindex /\ U.neednote = T.neednote

\* pclrcurr() of a leader leaves %+ and %- sound, and neither is that job.
LEMMA pclrcurrSafe ==
  ASSUME NEW T \in Tables, NEW p \in Slots, CurrPrev(T)
  PROVE  /\ SameShape(T, pclrcurr(T, p)) /\ SameRest(T, pclrcurr(T, p))
         /\ CurrPrev(pclrcurr(T, p))
         /\ p \notin {pclrcurr(T, p).pcurrent, pclrcurr(T, p).pprevious}
<1> DEFINE U == pclrcurr(T, p)
           T1 == [T EXCEPT !.pcurrent = IF T.pprevious # NULL THEN T.pprevious
                                        ELSE pgetcurr(T, p)]
<1>1. SameShape(T, U)  BY pclrcurrShape
<1>2. SameRest(T, U)  BY DEF pclrcurr, SameRest, Tables
<1>3. LiveLeaders(U) = LiveLeaders(T) /\ 0 \notin LiveLeaders(T) /\ p # 0
  BY <1>1, SlotsPtr DEF SameShape, LiveLeaders, Proclist, NULL
<1>4. CASE p = T.pcurrent
  <2>1. /\ U.pcurrent = T1.pcurrent /\ U.pprevious = pgetcurr(T1, p)
    BY <1>4 DEF pclrcurr, Tables
  <2>2. T1.pcurrent = IF T.pprevious # NULL THEN T.pprevious ELSE pgetcurr(T, p)
    BY DEF Tables
  <2>3. LiveLeaders(T1) = LiveLeaders(T) /\ T1.flags = T.flags
    BY DEF LiveLeaders, Proclist, Tables
  <2>4. pgetcurr(T1, p) \in (LiveLeaders(T) \ {T1.pcurrent, p}) \cup {0}
    <3> HIDE DEF T1
    <3>. QED BY <2>3, pgetcurrIs
  <2>5. pgetcurr(T, p) \in (LiveLeaders(T) \ {p}) \cup {0}
    BY pgetcurrIs
  <2>6. T1.pcurrent = 0 => pgetcurr(T1, p) = pgetcurr(T, p) /\ pgetcurr(T, p) = 0
    <3> SUFFICES ASSUME T1.pcurrent = 0 PROVE pgetcurr(T1, p) = pgetcurr(T, p) /\ pgetcurr(T, p) = 0
      OBVIOUS
    <3>1. pgetcurr(T, p) = 0  BY <2>2 DEF NULL
    <3>2. LiveLeaders(T1) \ {T1.pcurrent, p} = LiveLeaders(T) \ {T.pcurrent, p}
      BY <1>3, <1>4, <2>3
    <3>. QED BY <2>3, <3>1, <3>2 DEF pgetcurr
  <2> HIDE DEF T1, U
  <2>. QED BY <1>1, <1>2, <1>3, <1>4, <2>1, <2>2, <2>4, <2>5, <2>6 DEF CurrPrev, NULL, U
<1>5. CASE p # T.pcurrent /\ p = T.pprevious
  <2>1. U.pcurrent = T.pcurrent /\ U.pprevious = pgetcurr(T, p)
    BY <1>5 DEF pclrcurr, Tables
  <2>2. pgetcurr(T, p) \in (LiveLeaders(T) \ {T.pcurrent, p}) \cup {0}
    BY pgetcurrIs
  <2> HIDE DEF U
  <2>. QED BY <1>1, <1>2, <1>3, <1>5, <2>1, <2>2 DEF CurrPrev, NULL, U
<1>6. CASE p \notin {T.pcurrent, T.pprevious}
  <2>1. U = T  BY <1>6 DEF pclrcurr
  <2>. QED BY <1>1, <1>2, <1>6, <2>1
<1>. QED BY <1>4, <1>5, <1>6

\* The table between two calls of the routines.
WellFormed(T) == Shape(T) /\ FlagsOK(T) /\ CurrPrev(T)

\* Shape depends only on the structs and their links.
LEMMA ShapeSame ==
  ASSUME NEW T \in Tables, NEW U, SameShape(T, U)
  PROVE  /\ Shape(T) => Shape(U)
         /\ Proclist(U) = Proclist(T) /\ LiveLeaders(U) = LiveLeaders(T)
         /\ \A p : Ring(U, p) = Ring(T, p)
         /\ \A p : Live(T, p) <=> Live(U, p)
BY DEF SameShape, Shape, LiveLeaders, Proclist, Ring, Live

(* What pflush() does to a live process p of the table T.                   *)
Flushed(T, p, U) ==
  /\ U.n = T.n /\ U.job = T.job /\ U.freed = T.freed /\ U.jobid = T.jobid
  /\ U.procid = [q \in Slots |-> IF q \in Ring(T, p) THEN 0 ELSE T.procid[q]]
  /\ U.flags = [q \in Slots |-> IF q \in Ring(T, p) THEN T.flags[q] \ {"PNEEDNOTE"}
                                ELSE T.flags[q]]
  /\ U.pcurrjob = IF T.pcurrjob = T.job[p] THEN NULL ELSE T.pcurrjob
  /\ U.neednote = T.neednote
  /\ T.job[p] \notin {U.pcurrent, U.pprevious}
  /\ U.pcurrent = pclrcurr(T, T.job[p]).pcurrent
  /\ U.pprevious = pclrcurr(T, T.job[p]).pprevious

\* pflush() zeroes the pids of one ring and changes nothing else of a live
\* process.
LEMMA pflushIs ==
  ASSUME NEW T \in Tables, Shape(T), CurrPrev(T), NEW p, Live(T, p)
  PROVE  pflush(T, p) \in Tables /\ Flushed(T, p, pflush(T, p))
<1> DEFINE l    == T.job[p]
           ring == Ring(T, p)
           T1   == pclrcurr(T, l)
           Ta   == [T1 EXCEPT
                !.pcurrjob = IF l = @ THEN NULL ELSE @,
                !.index    = [q \in Slots |-> IF q \in ring THEN 0 ELSE @[q]],
                !.procid   = [q \in Slots |-> IF q \in ring THEN 0 ELSE @[q]]]
           T2   == SetFlags(Ta, ring, {}, {"PNEEDNOTE"})
           U    == pflush(T, p)
<1>1. Leader(T, p) = l /\ l \in LiveLeaders(T) /\ WalkEnds(T, p) /\ l \in Slots
  BY LiveRing DEF LiveLeaders, Proclist
<1>2. /\ SameShape(T, T1) /\ SameRest(T, T1) /\ l \notin {T1.pcurrent, T1.pprevious}
      /\ T1 \in Tables
  BY <1>1, pclrcurrSafe, pclrcurrType
<1>3. U \in Tables  BY <1>1, pflushType
<1>4. U \in {T2, [T2 EXCEPT !.pmaxindex = LargestIndex(T2)]}
  BY <1>1 DEF pflush
<1> HIDE DEF T1, ring, l
<1>5. /\ Ta.n = T.n /\ Ta.job = T.job /\ Ta.freed = T.freed /\ Ta.jobid = T.jobid
      /\ Ta.procid = [q \in Slots |-> IF q \in ring THEN 0 ELSE T.procid[q]]
      /\ Ta.pcurrjob = (IF l = T.pcurrjob THEN NULL ELSE T.pcurrjob)
      /\ Ta.neednote = T.neednote /\ Ta.flags = T.flags
      /\ Ta.pcurrent = T1.pcurrent /\ Ta.pprevious = T1.pprevious /\ Ta \in Tables
  <2>1. Ta \in Tables  BY <1>2, SlotsPtr DEF Tables
  <2>. QED BY <1>2, <2>1 DEF Tables, SameShape, SameRest
<1> HIDE DEF Ta
<1>6. /\ T2.n = Ta.n /\ T2.job = Ta.job /\ T2.freed = Ta.freed /\ T2.jobid = Ta.jobid
      /\ T2.procid = Ta.procid /\ T2.pcurrjob = Ta.pcurrjob /\ T2.neednote = Ta.neednote
      /\ T2.pcurrent = Ta.pcurrent /\ T2.pprevious = Ta.pprevious
      /\ T2.flags = [q \in Slots |-> IF q \in ring THEN T.flags[q] \ {"PNEEDNOTE"}
                                     ELSE T.flags[q]]
      /\ T2 \in Tables
  <2>1. T2 \in Tables  BY <1>5, SetFlagsType
  <2>2. T2.flags = [q \in Slots |-> IF q \in ring THEN (T.flags[q] \cup {}) \ {"PNEEDNOTE"}
                                     ELSE T.flags[q]]
    BY <1>5 DEF SetFlags, Tables
  <2>. QED BY <1>5, <2>1, <2>2 DEF SetFlags, Tables
<1> HIDE DEF T2, U
<1>7. /\ U.n = T2.n /\ U.job = T2.job /\ U.freed = T2.freed /\ U.jobid = T2.jobid
      /\ U.procid = T2.procid /\ U.pcurrjob = T2.pcurrjob /\ U.neednote = T2.neednote
      /\ U.pcurrent = T2.pcurrent /\ U.pprevious = T2.pprevious /\ U.flags = T2.flags
  BY <1>4, <1>6 DEF Tables
<1>8. \A q : q \in Ring(T, p) <=> q \in ring  BY DEF ring
<1>. QED BY <1>2, <1>3, <1>5, <1>6, <1>7 DEF Flushed, U, ring, l, T1

\* pflush() keeps the table well formed when the job is a live one.
LEMMA pflushSafe ==
  ASSUME NEW T \in Tables, WellFormed(T), NEW p, Live(T, p)
  PROVE  /\ WellFormed(pflush(T, p)) /\ Flushed(T, p, pflush(T, p))
         /\ pflush(T, p) \in Tables
         /\ LiveLeaders(pflush(T, p)) = LiveLeaders(T) \ {T.job[p]}
         /\ \A q \in Slots : Live(pflush(T, p), q) <=> Live(T, q) /\ T.job[q] # T.job[p]
<1> DEFINE U == pflush(T, p)
           l == T.job[p]
<1>0. Flushed(T, p, U) /\ U \in Tables  BY pflushIs DEF WellFormed
<1>1. /\ U.n = T.n /\ U.job = T.job /\ U.freed = T.freed /\ U.jobid = T.jobid
      /\ U.procid = [q \in Slots |-> IF q \in Ring(T, p) THEN 0 ELSE T.procid[q]]
      /\ U.flags = [q \in Slots |-> IF q \in Ring(T, p) THEN T.flags[q] \ {"PNEEDNOTE"}
                                       ELSE T.flags[q]]
      /\ l \notin {U.pcurrent, U.pprevious}
      /\ U.pcurrent = pclrcurr(T, l).pcurrent
      /\ U.pprevious = pclrcurr(T, l).pprevious
  <2> HIDE DEF U
  <2>. QED BY <1>0 DEF Flushed
<1>2. /\ l \in LiveLeaders(T) /\ l \in Slots /\ p <= T.n /\ T.job[l] = l
  BY LiveRing DEF WellFormed, LiveLeaders, Proclist
<1>3. CurrPrev(pclrcurr(T, l)) /\ LiveLeaders(pclrcurr(T, l)) = LiveLeaders(T)
  BY <1>2, pclrcurrSafe, ShapeSame DEF WellFormed
<1> HIDE DEF U
<1>4. \A q \in Slots : q <= T.n => (q \in Ring(T, p) <=> T.job[q] = l)
  BY DEF Ring, l
<1>5. \A q \in LiveLeaders(T) : T.job[q] = q /\ q <= T.n /\ q \in Slots
  BY LeaderIs DEF WellFormed, Proclist
<1>6. \A q \in Slots : T.procid[q] # 0 => q <= T.n
  BY DEF WellFormed, Shape, Slots, Tables
<1>7. LiveLeaders(U) = LiveLeaders(T) \ {l}
  BY <1>1, <1>4, <1>5, <1>2, <1>6 DEF LiveLeaders, Proclist
<1>8. Shape(U)
  <2>1. Shape(T)  BY DEF WellFormed
  <2>. QED BY <1>1, <1>4, <1>6, <2>1 DEF Shape
<1>9. FlagsOK(U)
  <2>1. FlagsOK(T)  BY DEF WellFormed
  <2>. QED BY <1>1, <2>1 DEF FlagsOK
<1>10. CurrPrev(U)
  BY <1>1, <1>3, <1>7 DEF CurrPrev
<1>11. \A q \in Slots : Live(U, q) <=> Live(T, q) /\ T.job[q] # l
  BY <1>1, <1>4, <1>6 DEF Live
<1>. QED BY <1>0, <1>7, <1>8, <1>9, <1>10, <1>11 DEF WellFormed, U, l

\* The table U that palloc() makes of T for the new process i: process p joins
\* the job being started, or leads a new one, which takes the mark left free.
Allocated(T, U, i, f) ==
  LET p  == T.n + 1
      pj == T.pcurrjob
      c  == IF pj = NULL THEN p ELSE pj IN
  /\ U \in Tables /\ p \in Slots
  /\ U.n = p /\ U.freed = T.freed /\ U.neednote = T.neednote
  /\ U.procid = [T.procid EXCEPT ![p] = i]
  /\ U.jobid = [T.jobid EXCEPT ![p] = IF pj = NULL THEN i ELSE T.procid[pj]]
  /\ U.job = [T.job EXCEPT ![p] = c]
  /\ U.flags = [T.flags EXCEPT ![p] = {"PRUNNING"} \cup (IF f THEN {"PFOREGND"} ELSE {})]
  /\ U.pcurrjob = c
  /\ U.pcurrent = (IF pj = NULL /\ T.pcurrent = NULL THEN p ELSE T.pcurrent)
  /\ U.pprevious = (IF pj = NULL /\ T.pcurrent # NULL /\ T.pprevious = NULL
                     THEN p ELSE T.pprevious)

\* palloc() returns what Allocated says.
LEMMA pallocIs ==
  ASSUME NEW T \in Tables, T.n < MaxProcs, NEW i \in Pids, NEW f \in BOOLEAN,
         Shape(T), T.pcurrjob \in LiveLeaders(T) \cup {NULL}
  PROVE  Allocated(T, palloc(T, i, f), i, f)
<1> DEFINE p  == T.n + 1
           pj == T.pcurrjob
           fl == {"PRUNNING"} \cup (IF f THEN {"PFOREGND"} ELSE {})
           T1 == [T EXCEPT
              !.n         = p,
              !.procid[p] = i,
              !.jobid[p]  = IF pj = NULL THEN i ELSE T.procid[pj],
              !.job[p]    = IF pj = NULL THEN p ELSE T.job[pj],
              !.index[p]  = IF pj = NULL THEN NewIndex(T) ELSE T.index[pj],
              !.flags[p]  = fl]
           T2 == [T1 EXCEPT
              !.pcurrjob  = p,
              !.pmaxindex = IF NewIndex(T) > @ THEN NewIndex(T) ELSE @,
              !.pcurrent  = IF @ = NULL THEN p ELSE @,
              !.pprevious = IF T.pcurrent # NULL /\ @ = NULL THEN p ELSE @]
           U == palloc(T, i, f)
<1>1. p \in Slots  BY ProcTableAssumption DEF Slots, Tables
<1>2. U \in Tables  BY pallocType
<1>3. pj # NULL => T.job[pj] = pj  BY LeaderIs
<1>4. U = IF pj # NULL THEN T1 ELSE T2  BY DEF palloc
<1> HIDE DEF U, fl
<1>5. ASSUME pj # NULL PROVE Allocated(T, U, i, f)
  <2>1. U = T1  BY <1>4, <1>5
  <2>2. /\ U.n = p /\ U.freed = T.freed /\ U.neednote = T.neednote
        /\ U.procid = [T.procid EXCEPT ![p] = i]
        /\ U.jobid = [T.jobid EXCEPT ![p] = T.procid[pj]]
        /\ U.job = [T.job EXCEPT ![p] = pj]
        /\ U.flags = [T.flags EXCEPT ![p] = fl]
        /\ U.pcurrjob = pj /\ U.pcurrent = T.pcurrent /\ U.pprevious = T.pprevious
    BY <1>3, <1>5, <2>1 DEF Tables
  <2>. QED BY <1>1, <1>2, <1>5, <2>2 DEF Allocated, fl
<1>6. ASSUME pj = NULL PROVE Allocated(T, U, i, f)
  <2>1. U = T2  BY <1>4, <1>6
  <2>2. /\ U.n = p /\ U.freed = T.freed /\ U.neednote = T.neednote
        /\ U.procid = [T.procid EXCEPT ![p] = i]
        /\ U.jobid = [T.jobid EXCEPT ![p] = i]
        /\ U.job = [T.job EXCEPT ![p] = p]
        /\ U.flags = [T.flags EXCEPT ![p] = fl]
        /\ U.pcurrjob = p
        /\ U.pcurrent = (IF T.pcurrent = NULL THEN p ELSE T.pcurrent)
        /\ U.pprevious = (IF T.pcurrent # NULL /\ T.pprevious = NULL
                          THEN p ELSE T.pprevious)
    BY <1>6, <2>1 DEF Tables
  <2>. QED BY <1>1, <1>2, <1>6, <2>2 DEF Allocated, fl
<1>. QED BY <1>5, <1>6 DEF U

\* palloc() keeps the table well formed, given a pid that no live leader has and
\* a pipeline that, if it has begun, still has its leader.
LEMMA pallocSafe ==
  ASSUME NEW T \in Tables, T.n < MaxProcs, NEW i \in Pids, NEW f \in BOOLEAN,
         WellFormed(T), T.pcurrjob \in LiveLeaders(T) \cup {NULL},
         T.pcurrjob # NULL => T.jobid[T.pcurrjob] # i
  PROVE  LET U == palloc(T, i, f)
             c == U.pcurrjob IN
         /\ WellFormed(U) /\ c \in LiveLeaders(U)
         /\ LiveLeaders(U) = LiveLeaders(T) \cup {c}
         /\ U.jobid[c] = IF T.pcurrjob = NULL THEN i ELSE T.jobid[T.pcurrjob]
         /\ (f /\ (T.pcurrjob # NULL => \A q \in Ring(T, T.pcurrjob) : 
                    "PRUNNING" \in T.flags[q] => "PFOREGND" \in T.flags[q]))
            => \A q \in Ring(U, c) : "PRUNNING" \in U.flags[q] => "PFOREGND" \in U.flags[q]
<1> DEFINE U  == palloc(T, i, f)
           p  == T.n + 1
           pj == T.pcurrjob
           c  == IF pj = NULL THEN p ELSE pj
<1>1. /\ U \in Tables /\ p \in Slots
      /\ U.n = p /\ U.freed = T.freed
      /\ U.procid = [T.procid EXCEPT ![p] = i]
      /\ U.jobid = [T.jobid EXCEPT ![p] = IF pj = NULL THEN i ELSE T.procid[pj]]
      /\ U.job = [T.job EXCEPT ![p] = c]
      /\ U.flags = [T.flags EXCEPT ![p] = {"PRUNNING"} \cup (IF f THEN {"PFOREGND"} ELSE {})]
      /\ U.pcurrjob = c
      /\ U.pcurrent = (IF pj = NULL /\ T.pcurrent = NULL THEN p ELSE T.pcurrent)
      /\ U.pprevious = (IF pj = NULL /\ T.pcurrent # NULL /\ T.pprevious = NULL
                          THEN p ELSE T.pprevious)
  BY pallocIs DEF WellFormed, Allocated
<1>2. Shape(T) /\ FlagsOK(T) /\ CurrPrev(T)  BY DEF WellFormed
<1>3. pj # NULL => /\ pj \in Slots /\ pj <= T.n /\ T.job[pj] = pj /\ T.procid[pj] # 0
                   /\ T.procid[pj] = T.jobid[pj] /\ T.jobid[pj] # i /\ pj \notin T.freed
  BY <1>2, LeaderIs DEF LiveLeaders, Proclist
<1>4. i # 0 /\ 0 \notin Pids  BY ProcTableAssumption
<1>5. /\ T \in Tables /\ T.n \in Nat /\ Slots \subseteq Nat /\ p \notin T.freed
      /\ T.procid[p] = 0
  BY <1>1, <1>2 DEF Tables, Slots, Shape
<1>6. \A q \in Slots : q <= p <=> q <= T.n \/ q = p
  BY <1>5
<1> HIDE DEF U, p, pj
<1>7. Shape(U)
  <2> SUFFICES ASSUME NEW q \in Slots
      PROVE /\ q > U.n => U.procid[q] = 0 /\ q \notin U.freed
            /\ q <= U.n =>
                 /\ U.job[q] \in Slots /\ U.job[q] <= U.n /\ U.job[U.job[q]] = U.job[q]
                 /\ U.procid[q] = 0 <=> U.procid[U.job[q]] = 0
                 /\ q \notin U.freed => U.jobid[q] # 0
            /\ U.procid[q] # 0 =>
                 /\ q \notin U.freed
                 /\ U.jobid[q] = U.procid[U.job[q]]
                 /\ U.procid[q] = U.jobid[q] => q = U.job[q]
    BY DEF Shape
  <2>1. CASE q = p
    <3>1. CASE pj = NULL
      BY <1>1, <1>4, <1>5, <1>6, <2>1, <3>1 DEF Tables
    <3>2. CASE pj # NULL
      <4>1. pj # p  BY <1>3, <1>5, <3>2 DEF p
      <4>2. /\ c = pj /\ U.job[p] = pj /\ U.procid[p] = i /\ U.jobid[p] = T.procid[pj]
            /\ U.job[pj] = T.job[pj] /\ U.procid[pj] = T.procid[pj]
        BY <1>1, <1>3, <3>2, <4>1 DEF Tables
      <4>3. pj <= U.n /\ p <= U.n /\ ~(p > U.n)  BY <1>1, <1>3, <1>5, <3>2 DEF p
      <4>. QED BY <1>1, <1>3, <1>4, <1>5, <2>1, <3>2, <4>2, <4>3
    <3>. QED BY <3>1, <3>2
  <2>2. CASE q # p /\ q <= T.n
    <3>1. /\ T.job[q] \in Slots /\ T.job[q] <= T.n /\ T.job[T.job[q]] = T.job[q]
          /\ T.procid[q] = 0 <=> T.procid[T.job[q]] = 0
          /\ q \notin T.freed => T.jobid[q] # 0
          /\ T.procid[q] # 0 =>
                 /\ q \notin T.freed
                 /\ T.jobid[q] = T.procid[T.job[q]]
                 /\ T.procid[q] = T.jobid[q] => q = T.job[q]
      BY <1>2, <2>2 DEF Shape
    <3>2. T.job[q] # p  BY <1>5, <3>1 DEF p
    <3>3. \A r \in Slots : r # p =>
            U.job[r] = T.job[r] /\ U.procid[r] = T.procid[r] /\ U.jobid[r] = T.jobid[r]
      <4>1. /\ T.job \in [Slots -> Ptr] /\ T.procid \in [Slots -> Pids \cup {0}]
            /\ T.jobid \in [Slots -> Pids \cup {0}]
        BY <1>5 DEF Tables
      <4>. QED BY <1>1, <4>1
    <3>5. /\ U.job[q] = T.job[q] /\ U.procid[q] = T.procid[q] /\ U.jobid[q] = T.jobid[q]
          /\ U.job[U.job[q]] = T.job[T.job[q]] /\ U.procid[U.job[q]] = T.procid[T.job[q]]
      <4>1. U.job[q] = T.job[q] /\ U.procid[q] = T.procid[q] /\ U.jobid[q] = T.jobid[q]
        BY <2>2, <3>3
      <4>2. /\ U.job[T.job[q]] = T.job[T.job[q]]
            /\ U.procid[T.job[q]] = T.procid[T.job[q]]
        BY <3>1, <3>2, <3>3
      <4>. QED BY <4>1, <4>2
    <3>4. q <= U.n /\ T.job[q] <= U.n /\ ~(q > U.n)
      <4>1. q <= p /\ T.job[q] <= p  BY <1>6, <2>2, <3>1
      <4>2. q \in Nat /\ p \in Nat  BY <1>1, <1>5
      <4>. QED BY <1>1, <4>1, <4>2
    <3>. QED BY <1>1, <3>1, <3>4, <3>5
  <2>3. CASE q # p /\ ~(q <= T.n)
    <3>1. ~(q <= U.n) /\ q > T.n  BY <1>1, <1>5, <1>6, <2>3
    <3>2. T.procid[q] = 0 /\ q \notin T.freed  BY <1>2, <3>1 DEF Shape
    <3>. QED BY <1>1, <2>3, <3>1, <3>2 DEF Tables
  <2>. QED BY <2>1, <2>2, <2>3
<1>8. FlagsOK(U)
  BY <1>1, <1>2, <1>4, <1>5 DEF FlagsOK, Tables
<1>9. LiveLeaders(U) = LiveLeaders(T) \cup {c}
  <2>1. \A q \in Slots : q # p => U.procid[q] = T.procid[q] /\ U.jobid[q] = T.jobid[q]
    BY <1>1 DEF Tables
  <2>2. U.procid[p] = i /\ U.jobid[p] = IF pj = NULL THEN i ELSE T.procid[pj]
    BY <1>1 DEF Tables
  <2>3. p \notin LiveLeaders(T)  BY <1>5 DEF LiveLeaders
  <2>4. \A q \in Slots : q \in Proclist(U) <=> q \in Proclist(T) \/ q = p
    BY <1>1, <1>5, <1>6 DEF Proclist
  <2>5. p \in LiveLeaders(U) <=> pj = NULL
    BY <1>1, <1>3, <1>4, <2>2, <2>4 DEF LiveLeaders
  <2>6. \A q \in Slots : q # p => (q \in LiveLeaders(U) <=> q \in LiveLeaders(T))
    BY <2>1, <2>4 DEF LiveLeaders
  <2>7. LiveLeaders(U) \subseteq Slots /\ LiveLeaders(T) \subseteq Slots
    BY DEF LiveLeaders, Proclist
  <2>8. pj # NULL => pj \in LiveLeaders(T)  BY DEF pj
  <2>. QED BY <1>1, <2>3, <2>5, <2>6, <2>7, <2>8
<1>10. CurrPrev(U)
  <2>1. p \notin LiveLeaders(T) /\ p # NULL  BY <1>1, <1>5, SlotsPtr DEF LiveLeaders
  <2>. QED BY <1>1, <1>2, <1>9, <2>1 DEF CurrPrev
<1>11. U.jobid[c] = IF pj = NULL THEN i ELSE T.jobid[pj]
  <2>1. pj # NULL => pj # p  BY <1>3, <1>5 DEF p
  <2>. QED BY <1>1, <1>3, <2>1 DEF Tables
<1>12. ASSUME f, pj # NULL => \A q \in Ring(T, pj) : 
                    "PRUNNING" \in T.flags[q] => "PFOREGND" \in T.flags[q]
       PROVE  \A q \in Ring(U, c) : "PRUNNING" \in U.flags[q] => "PFOREGND" \in U.flags[q]
  <2> SUFFICES ASSUME NEW q \in Ring(U, c), q # p
               PROVE  "PRUNNING" \in U.flags[q] => "PFOREGND" \in U.flags[q]
    BY <1>1, <1>12 DEF Tables
  <2>1. q \in Slots /\ q <= T.n /\ U.job[q] = U.job[c]  BY <1>1, <1>6 DEF Ring
  <2>2. T.job[q] # p /\ U.job[q] = T.job[q] /\ U.flags[q] = T.flags[q]
    BY <1>1, <1>2, <1>5, <2>1 DEF Shape, Tables, p
  <2>3. pj # NULL
    BY <1>1, <2>1, <2>2 DEF Tables
  <2>4. T.job[q] = T.job[pj]
    <3>1. pj # p  BY <1>3, <1>5, <2>3 DEF p
    <3>. QED BY <1>1, <2>1, <2>2, <2>3, <3>1 DEF Tables
  <2>. QED BY <1>12, <2>1, <2>2, <2>3, <2>4 DEF Ring
<1>. QED BY <1>1, <1>7, <1>8, <1>9, <1>10, <1>11, <1>12 DEF WellFormed, U, p, pj

\* Every running process of the job has PFOREGND.
ForegroundRing(T, p) ==
  \A q \in Ring(T, p) : "PRUNNING" \in T.flags[q] => "PFOREGND" \in T.flags[q]

(* What a routine leaves alone that touches only flags, %+ and %-.          *)
SameJobs(T, U) == SameShape(T, U) /\ U.pcurrjob = T.pcurrjob
\* %+ and %- are the same.
SameCurr(T, U) == U.pcurrent = T.pcurrent /\ U.pprevious = T.pprevious

\* New flags alone do not disturb a table as long as they keep FlagsOK.
LEMMA WellFormedSame ==
  ASSUME NEW T \in Tables, NEW U, SameShape(T, U), SameCurr(T, U), WellFormed(T), FlagsOK(U)
  PROVE  WellFormed(U)
<1>1. LiveLeaders(U) = LiveLeaders(T) /\ Shape(U)  BY ShapeSame DEF WellFormed
<1>. QED BY <1>1 DEF WellFormed, SameCurr, CurrPrev

\* What SetFlags() changes, flag by flag.
LEMMA SetFlagsIs ==
  ASSUME NEW T \in Tables, NEW S, NEW add \in SUBSET Flags, NEW del
  PROVE  LET U == SetFlags(T, S, add, del) IN
         /\ U \in Tables /\ SameJobs(T, U) /\ SameCurr(T, U) /\ U.neednote = T.neednote
         /\ U.flags = [p \in Slots |-> IF p \in S THEN (T.flags[p] \cup add) \ del ELSE T.flags[p]]
<1>1. SetFlags(T, S, add, del) \in Tables  BY SetFlagsType
<1>. QED BY <1>1 DEF SetFlags, Tables, SameJobs, SameShape, SameCurr

\* Freeing the flushed structs in pendjob() and in the loop of pnote() leaves no
\* link to freed memory behind.
LEMMA FreeFlushedSafe ==
  ASSUME NEW T \in Tables, WellFormed(T)
  PROVE  LET U == FreeFlushed(T) IN
         /\ U \in Tables /\ WellFormed(U) /\ LiveLeaders(U) = LiveLeaders(T)
         /\ U.n = T.n /\ U.job = T.job /\ U.procid = T.procid
         /\ U.pcurrjob = T.pcurrjob /\ U.neednote = T.neednote
         /\ \A q \in Slots : Live(T, q) => U.jobid[q] = T.jobid[q] /\ U.flags[q] = T.flags[q]
         /\ \A q \in Slots : U.flags[q] \subseteq T.flags[q]
         /\ \A q : Ring(U, q) = Ring(T, q)
<1> DEFINE U == FreeFlushed(T)
           dead == {p \in Proclist(T) : T.procid[p] = 0}
<1>1. U \in Tables  BY FreeFlushedType
<1>2. /\ U.n = T.n /\ U.job = T.job /\ U.procid = T.procid
      /\ U.pcurrjob = T.pcurrjob /\ U.neednote = T.neednote
      /\ U.pcurrent = T.pcurrent /\ U.pprevious = T.pprevious
      /\ U.freed = T.freed \cup dead
      /\ U.jobid = [p \in Slots |-> IF p \in dead THEN 0 ELSE T.jobid[p]]
      /\ U.flags = [p \in Slots |-> IF p \in dead THEN {} ELSE T.flags[p]]
  BY DEF FreeFlushed, Tables
<1>3. Shape(T) /\ FlagsOK(T) /\ CurrPrev(T)  BY DEF WellFormed
<1> HIDE DEF U
<1>4. \A q \in Slots : q \in dead => T.procid[q] = 0 /\ q <= T.n  BY DEF Proclist
<1>5. Shape(U)
  <2>1. dead \subseteq Slots  BY DEF Proclist
  <2>2. T.n \in Nat /\ Slots \subseteq Nat  BY DEF Tables, Slots
  <2>3. \A q \in Slots : q <= T.n /\ q \notin U.freed => q \notin T.freed /\ q \notin dead
    BY <1>2
  <2> HIDE DEF dead
  <2> SUFFICES ASSUME NEW q \in Slots
      PROVE /\ q > U.n => U.procid[q] = 0 /\ q \notin U.freed
            /\ q <= U.n =>
                 /\ U.job[q] \in Slots /\ U.job[q] <= U.n /\ U.job[U.job[q]] = U.job[q]
                 /\ U.procid[q] = 0 <=> U.procid[U.job[q]] = 0
                 /\ q \notin U.freed => U.jobid[q] # 0
            /\ U.procid[q] # 0 =>
                 /\ q \notin U.freed
                 /\ U.jobid[q] = U.procid[U.job[q]]
                 /\ U.procid[q] = U.jobid[q] => q = U.job[q]
    BY DEF Shape
  <2>4. q > U.n => q \notin dead  BY <1>2, <1>4, <2>2
  <2>. QED BY <1>2, <1>3, <1>4, <2>1, <2>3, <2>4 DEF Shape
<1>6. FlagsOK(U)  BY <1>2, <1>3, <1>4 DEF FlagsOK
<1>7. LiveLeaders(U) = LiveLeaders(T)
  BY <1>2, <1>4 DEF LiveLeaders, Proclist
<1>8. CurrPrev(U)  BY <1>2, <1>3, <1>7 DEF CurrPrev
<1>9. \A q \in Slots : Live(T, q) => U.jobid[q] = T.jobid[q] /\ U.flags[q] = T.flags[q]
  BY <1>2, <1>4 DEF Live
<1>10. \A q \in Slots : U.flags[q] \subseteq T.flags[q]  BY <1>2
<1>11. \A q : Ring(U, q) = Ring(T, q)  BY <1>2 DEF Ring
<1>. QED BY <1>1, <1>2, <1>5, <1>6, <1>7, <1>8, <1>9, <1>10, <1>11 DEF WellFormed, U

\* pstart() keeps the table well formed and makes a foreground job's processes
\* PFOREGND.
LEMMA pstartSafe ==
  ASSUME NEW T \in Tables, WellFormed(T), NEW pp \in LiveLeaders(T), NEW f \in BOOLEAN
  PROVE  LET U == pstart(T, pp, f) IN
         /\ U \in Tables /\ WellFormed(U) /\ SameJobs(T, U) /\ U.neednote = T.neednote
         /\ U.flags = [q \in Slots |->
              IF q \in Ring(T, pp) /\ T.flags[q] \cap {"PRUNNING", "PSTOPPED"} # {}
              THEN (T.flags[q] \cup ({"PRUNNING"} \cup (IF f THEN {"PFOREGND"} ELSE {})))
                    \ ({"PSTOPPED"} \cup (IF f THEN {} ELSE {"PFOREGND"}))
              ELSE T.flags[q]]
         /\ f => ForegroundRing(U, pp)
<1> DEFINE alive == {q \in Ring(T, pp) : T.flags[q] \cap {"PRUNNING", "PSTOPPED"} # {}}
           add == {"PRUNNING"} \cup (IF f THEN {"PFOREGND"} ELSE {})
           del == {"PSTOPPED"} \cup (IF f THEN {} ELSE {"PFOREGND"})
           T1 == SetFlags(T, alive, add, del)
           U  == pstart(T, pp, f)
<1>1. pp \in Slots  BY DEF LiveLeaders, Proclist
<1>2. add \in SUBSET Flags  BY DEF Flags, PALLSTATES
<1>3. /\ T1 \in Tables /\ SameJobs(T, T1) /\ SameCurr(T, T1) /\ T1.neednote = T.neednote
      /\ T1.flags = [p \in Slots |-> IF p \in alive THEN (T.flags[p] \cup add) \ del
                                     ELSE T.flags[p]]
  <2> HIDE DEF alive, add, del
  <2>. QED BY <1>2, SetFlagsIs
<1>4. FlagsOK(T1)
  <2>1. \A q \in Slots : \A x : x \in T1.flags[q] <=>
          IF q \in alive THEN (x \in T.flags[q] \/ x \in add) /\ x \notin del
          ELSE x \in T.flags[q]
    BY <1>3
  <2>2. T1.procid = T.procid  BY <1>3 DEF SameJobs, SameShape
  <2>3. \A x : /\ x \in add <=> x = "PRUNNING" \/ (f /\ x = "PFOREGND")
               /\ x \in del <=> x = "PSTOPPED" \/ (~f /\ x = "PFOREGND")
    OBVIOUS
  <2>4. FlagsOK(T)  BY DEF WellFormed
  <2> HIDE DEF alive, add, del
  <2>. QED BY <2>1, <2>2, <2>3, <2>4 DEF FlagsOK
<1> HIDE DEF T1
<1>5. WellFormed(T1) /\ CurrPrev(T1)
  BY <1>3, <1>4, WellFormedSame DEF SameJobs, WellFormed
<1>6. U = IF f THEN T1 ELSE pclrcurr(T1, pp)  BY DEF pstart, T1
<1> HIDE DEF U
<1>7. U \in Tables /\ SameShape(T1, U) /\ U.flags = T1.flags /\ CurrPrev(U)
      /\ U.pcurrjob = T1.pcurrjob /\ U.neednote = T1.neednote
  <2>1. CASE f
    BY <1>3, <1>5, <1>6, <2>1 DEF SameShape
  <2>2. CASE ~f
    BY <1>1, <1>3, <1>5, <1>6, <2>2, pclrcurrSafe, pclrcurrType DEF SameRest
  <2>. QED BY <2>1, <2>2
<1>8. WellFormed(U)
  <2>1. Shape(U)  BY <1>3, <1>5, <1>7, ShapeSame DEF WellFormed
  <2>2. FlagsOK(U)
    BY <1>4, <1>3, <1>7 DEF FlagsOK, SameShape, SameJobs
  <2>. QED BY <1>7, <2>1, <2>2 DEF WellFormed
<1>9. SameJobs(T, U)  BY <1>3, <1>7 DEF SameJobs, SameShape
<1>10. f => ForegroundRing(U, pp)
  <2>1. Ring(U, pp) = Ring(T, pp) /\ Ring(T, pp) \subseteq Slots
    BY <1>9, ShapeSame DEF SameJobs, Ring
  <2>2. ASSUME f, NEW q \in Ring(T, pp), "PRUNNING" \in U.flags[q]
        PROVE  "PFOREGND" \in U.flags[q]
    <3>1. q \in alive
      BY <1>3, <1>7, <2>1, <2>2
    <3>. QED BY <1>3, <1>7, <2>1, <2>2, <3>1
  <2>. QED BY <2>1, <2>2 DEF ForegroundRing
<1>. QED BY <1>3, <1>7, <1>8, <1>9, <1>10 DEF U

(* pchild(), when no job has asked to be reported at once.                  *)
LEMMA CollectedIs ==
  ASSUME NEW T \in Tables, NEW pp \in Slots, NEW st \in {"PSTOPPED"} \cup ExitStates
  PROVE  LET U == Unforegrounded(T, pp, st) IN
         /\ U \in Tables /\ SameJobs(T, U) /\ SameCurr(T, U) /\ U.neednote = T.neednote
         /\ \A q \in Slots : q # pp => U.flags[q] = T.flags[q]
         /\ \A f \in Flags : f \in U.flags[pp] <=>
              \/ f = st
              \/ f \in T.flags[pp] /\ f \notin {"PRUNNING", "PSTOPPED", "PREPORTED", "PFOREGND"}
<1> DEFINE C == Collected(T, pp, st)
           U == Unforegrounded(T, pp, st)
           del == {"PRUNNING", "PSTOPPED", "PREPORTED"} \ {st}
<1>1. {st} \in SUBSET Flags /\ st \notin {"PRUNNING", "PREPORTED", "PFOREGND"}
  BY DEF Flags, PALLSTATES, ExitStates
<1>2. /\ C \in Tables /\ SameJobs(T, C) /\ SameCurr(T, C) /\ C.neednote = T.neednote
      /\ C.flags = [p \in Slots |-> IF p \in {pp} THEN (T.flags[p] \cup {st}) \ del
                                    ELSE T.flags[p]]
  <2> HIDE DEF del
  <2>1. C = SetFlags(T, {pp}, {st}, del)  BY DEF Collected, del
  <2>. QED BY <1>1, <2>1, SetFlagsIs
<1> HIDE DEF C
<1>3. /\ U \in Tables /\ SameJobs(C, U) /\ SameCurr(C, U) /\ U.neednote = C.neednote
      /\ U.flags = [p \in Slots |-> IF p \in {pp} THEN (C.flags[p] \cup {}) \ {"PFOREGND"}
                                    ELSE C.flags[p]]
  BY <1>2, SetFlagsIs DEF Unforegrounded, C
<1> HIDE DEF U
<1>4. \A q \in Slots : q # pp => U.flags[q] = T.flags[q]  BY <1>2, <1>3
<1>5. U.flags[pp] = ((T.flags[pp] \cup {st}) \ del) \ {"PFOREGND"}  BY <1>2, <1>3
<1>. QED BY <1>1, <1>2, <1>3, <1>4, <1>5 DEF SameJobs, SameShape, SameCurr, U

\* pchild() leaves the job of pp to pnote(): it has just stopped or ended, and none
\* of its processes was in the foreground.
Flagged(T, pp, st) ==
  Unreported(T, pp, st) /\ "PFOREGND" \notin JobFlags(Collected(T, pp, st), pp)

\* What a stopped or ended job's flags, %+ and %- become.
LEMMA SettledIs ==
  ASSUME NEW T \in Tables, WellFormed(T), NEW pp, Live(T, pp),
         NEW st \in {"PSTOPPED"} \cup ExitStates
  PROVE  LET U == Settled(T, pp, st)
             V == Unforegrounded(T, pp, st) IN
         /\ U \in Tables /\ WellFormed(U) /\ SameJobs(T, U) /\ U.neednote = T.neednote
         /\ \A q \in Slots : \A x : x \in U.flags[q] <=>
              \/ x \in V.flags[q]
              \/ x = "PREPORTED" /\ q \in Ring(T, pp) /\ "PSTOPPED" \in V.flags[q]
<1> DEFINE V  == Unforegrounded(T, pp, st)
           stopped == {q \in Ring(T, pp) : "PSTOPPED" \in V.flags[q]}
           T2 == SetFlags(V, stopped, {"PREPORTED"}, {})
           fp == Leader(T, pp)
           T3 == [T2 EXCEPT !.pprevious = IF T.pcurrent \notin {NULL, fp}
                                          THEN T.pcurrent ELSE @,
                            !.pcurrent  = fp]
           U  == Settled(T, pp, st)
<1>1. /\ V \in Tables /\ SameJobs(T, V) /\ SameCurr(T, V) /\ V.neednote = T.neednote
      /\ \A q \in Slots : q # pp => V.flags[q] = T.flags[q]
      /\ \A f \in Flags : f \in V.flags[pp] <=>
              \/ f = st
              \/ f \in T.flags[pp] /\ f \notin {"PRUNNING", "PSTOPPED", "PREPORTED", "PFOREGND"}
  BY CollectedIs DEF Live
<1>2. fp \in LiveLeaders(T) /\ fp \in Slots
  BY LiveRing DEF WellFormed, LiveLeaders, Proclist
<1>3. U \in {T3, pclrcurr(T2, fp)}  BY DEF Settled
<1> HIDE DEF V, fp
<1>4. /\ T2 \in Tables /\ SameJobs(V, T2) /\ SameCurr(V, T2) /\ T2.neednote = V.neednote
      /\ T2.flags = [p \in Slots |-> IF p \in stopped THEN (V.flags[p] \cup {"PREPORTED"}) \ {}
                                     ELSE V.flags[p]]
  <2>1. {"PREPORTED"} \in SUBSET Flags  BY DEF Flags
  <2> HIDE DEF stopped
  <2>. QED BY <1>1, <2>1, SetFlagsIs
<1>5. \A q \in Slots : \A x : x \in T2.flags[q] <=>
         \/ x \in V.flags[q]
         \/ x = "PREPORTED" /\ q \in Ring(T, pp) /\ "PSTOPPED" \in V.flags[q]
  BY <1>4
<1> HIDE DEF T2
<1>6. SameJobs(T, T2) /\ SameCurr(T, T2)
  BY <1>1, <1>4 DEF SameJobs, SameShape, SameCurr
<1>7. WellFormed(T2)
  <2>1. FlagsOK(V)
    <3>1. {"PNEEDNOTE", "PNOTIFY", "PFOREGND", "PRUNNING"} \subseteq Flags
          /\ st \notin {"PNEEDNOTE", "PNOTIFY", "PFOREGND", "PRUNNING"}
      BY DEF Flags, PALLSTATES, ExitStates
    <3>2. V.procid = T.procid  BY <1>1 DEF SameJobs, SameShape
    <3>. QED BY <1>1, <3>1, <3>2 DEF FlagsOK, WellFormed
  <2>2. FlagsOK(T2)
    <3>1. T2.procid = V.procid  BY <1>4 DEF SameJobs, SameShape
    <3>. QED BY <1>5, <2>1, <3>1 DEF FlagsOK
  <2>. QED BY <1>6, <2>2, WellFormedSame DEF SameJobs
<1>8. LiveLeaders(T2) = LiveLeaders(T)  BY <1>6, ShapeSame DEF SameJobs
<1>9. CASE U = T3
  <2>1. /\ T3 \in Tables /\ SameJobs(T2, T3) /\ T3.neednote = T2.neednote
        /\ T3.flags = T2.flags /\ T3.pcurrent = fp
        /\ T3.pprevious = IF T.pcurrent \notin {NULL, fp} THEN T.pcurrent ELSE T2.pprevious
    BY <1>2, <1>4, SlotsPtr DEF Tables, SameJobs, SameShape, WellFormed, CurrPrev
  <2> HIDE DEF T3, U
  <2>2. LiveLeaders(T3) = LiveLeaders(T)  BY <1>4, <1>8, <2>1, ShapeSame DEF SameJobs
  <2>3. CurrPrev(T3)
    <3>1. fp # NULL  BY <1>2, SlotsPtr
    <3>2. CurrPrev(T)  BY DEF WellFormed
    <3>. QED BY <1>2, <1>6, <2>1, <2>2, <3>1, <3>2 DEF CurrPrev, SameCurr
  <2>4. Shape(T3)  BY <1>4, <1>7, <2>1, ShapeSame DEF SameJobs, WellFormed
  <2>5. FlagsOK(T3)  BY <1>7, <2>1 DEF FlagsOK, WellFormed, SameJobs, SameShape
  <2>6. SameJobs(T, T3)  BY <1>6, <2>1 DEF SameJobs, SameShape
  <2>. QED BY <1>1, <1>4, <1>5, <1>9, <2>1, <2>3, <2>4, <2>5, <2>6 DEF WellFormed, V, U
<1>10. CASE U = pclrcurr(T2, fp)
  <2> HIDE DEF U
  <2>1. /\ U \in Tables /\ SameShape(T2, U) /\ SameRest(T2, U) /\ CurrPrev(U)
    BY <1>2, <1>4, <1>7, <1>10, pclrcurrSafe, pclrcurrType DEF WellFormed
  <2>2. Shape(U)  BY <1>4, <1>7, <2>1, ShapeSame DEF WellFormed
  <2>3. FlagsOK(U)  BY <1>7, <2>1 DEF FlagsOK, WellFormed, SameRest, SameShape
  <2>4. SameJobs(T, U)  BY <1>6, <2>1 DEF SameJobs, SameShape, SameRest
  <2>. QED BY <1>1, <1>4, <1>5, <2>1, <2>2, <2>3, <2>4 DEF WellFormed, SameRest, V, U
<1>. QED BY <1>3, <1>9, <1>10

\* One turn of pchild()'s loop keeps the table well formed and never takes the
\* walk that does not end.
LEMMA pchildSafe ==
  ASSUME ~Notify, NEW T \in Tables, WellFormed(T), NEW pp, Live(T, pp),
         NEW st \in {"PSTOPPED"} \cup ExitStates
  PROVE  LET U == pchild(T, pp, st)
             V == Unforegrounded(T, pp, st) IN
         /\ U \in Tables /\ WellFormed(U) /\ SameJobs(T, U)
         /\ U.neednote = (T.neednote \/ Flagged(T, pp, st))
         /\ \A q \in Slots, f \in Flags \ {"PREPORTED", "PNEEDNOTE"} :
              f \in U.flags[q] <=> f \in V.flags[q]
         /\ \A q \in Slots : "PNEEDNOTE" \in U.flags[q] <=>
              "PNEEDNOTE" \in T.flags[q] \/ (Flagged(T, pp, st) /\ q = T.job[pp])
         /\ \A q \in Slots : "PREPORTED" \in U.flags[q] <=>
              \/ "PREPORTED" \in V.flags[q]
              \/ Unreported(T, pp, st) /\ q \in Ring(T, pp) /\ "PSTOPPED" \in V.flags[q]
<1> DEFINE V  == Unforegrounded(T, pp, st)
           T1 == Settled(T, pp, st)
           l  == Leader(T, pp)
           T2 == SetFlags(T1, {l}, {"PNEEDNOTE"}, {})
           T3 == [T2 EXCEPT !.neednote = TRUE]
           U  == pchild(T, pp, st)
<1>0. st \notin {"PNEEDNOTE", "PNOTIFY", "PFOREGND", "PRUNNING", "PREPORTED"}
      /\ {"PNEEDNOTE", "PNOTIFY", "PFOREGND", "PRUNNING", "PREPORTED", "PSTOPPED"} \subseteq Flags
  BY DEF Flags, PALLSTATES, ExitStates
<1>1. /\ V \in Tables /\ SameJobs(T, V) /\ SameCurr(T, V) /\ V.neednote = T.neednote
      /\ \A q \in Slots : q # pp => V.flags[q] = T.flags[q]
      /\ \A f \in Flags : f \in V.flags[pp] <=>
              \/ f = st
              \/ f \in T.flags[pp] /\ f \notin {"PRUNNING", "PSTOPPED", "PREPORTED", "PFOREGND"}
  BY CollectedIs DEF Live
<1>2. /\ T1 \in Tables /\ WellFormed(T1) /\ SameJobs(T, T1) /\ T1.neednote = T.neednote
      /\ \A q \in Slots : \A x : x \in T1.flags[q] <=>
           \/ x \in V.flags[q]
           \/ x = "PREPORTED" /\ q \in Ring(T, pp) /\ "PSTOPPED" \in V.flags[q]
  BY SettledIs
<1>3. l = T.job[pp] /\ l \in LiveLeaders(T) /\ l \in Slots
  BY LiveRing DEF WellFormed, LiveLeaders, Proclist
<1>4. "PNOTIFY" \notin JobFlags(Collected(T, pp, st), pp)
  <2>1. \A q \in Slots : "PNOTIFY" \notin Collected(T, pp, st).flags[q]
    BY <1>0 DEF Collected, SetFlags, WellFormed, FlagsOK, Tables
  <2>. QED BY <2>1 DEF JobFlags, Ring
<1>5. U = IF ~Unreported(T, pp, st) THEN V
          ELSE IF "PFOREGND" \in JobFlags(Collected(T, pp, st), pp) THEN T1 ELSE T3
  BY <1>4 DEF pchild
<1>6. \A q \in Slots : "PNEEDNOTE" \in V.flags[q] <=> "PNEEDNOTE" \in T.flags[q]
  BY <1>0, <1>1 DEF Live
<1> HIDE DEF V, T1, l, U
<1>7. CASE ~Unreported(T, pp, st)
  <2>1. FlagsOK(V)
    BY <1>0, <1>1 DEF FlagsOK, WellFormed, SameJobs, SameShape, Live
  <2>2. WellFormed(V)  BY <1>1, <2>1, WellFormedSame DEF SameJobs
  <2>3. U.neednote = (T.neednote \/ Flagged(T, pp, st))
    BY <1>1, <1>5, <1>7 DEF Flagged, Tables
  <2>. QED BY <1>1, <1>5, <1>6, <1>7, <2>2, <2>3 DEF Flagged, U, V
<1>8. CASE Unreported(T, pp, st) /\ "PFOREGND" \in JobFlags(Collected(T, pp, st), pp)
  <2>1. U = T1 /\ ~Flagged(T, pp, st)  BY <1>5, <1>8 DEF Flagged
  <2>2. \A q \in Slots, f \in Flags \ {"PREPORTED", "PNEEDNOTE"} :
              f \in U.flags[q] <=> f \in V.flags[q]
    BY <1>2, <2>1
  <2>3. \A q \in Slots : "PNEEDNOTE" \in U.flags[q] <=> "PNEEDNOTE" \in T.flags[q]
    BY <1>2, <1>6, <2>1
  <2>4. \A q \in Slots : "PREPORTED" \in U.flags[q] <=>
              "PREPORTED" \in V.flags[q] \/ (q \in Ring(T, pp) /\ "PSTOPPED" \in V.flags[q])
    BY <1>2, <2>1
  <2>5. U.neednote = (T.neednote \/ Flagged(T, pp, st))
    BY <1>2, <2>1 DEF Flagged, Tables
  <2>. QED BY <1>2, <1>8, <2>1, <2>2, <2>3, <2>4, <2>5 DEF U, V
<1>9. CASE Flagged(T, pp, st)
  <2>1. U = T3  BY <1>5, <1>9 DEF Flagged
  <2>2. {"PNEEDNOTE"} \in SUBSET Flags  BY <1>0
  <2>3. /\ T2 \in Tables /\ SameJobs(T1, T2) /\ SameCurr(T1, T2)
        /\ T2.flags = [p \in Slots |-> IF p \in {l} THEN (T1.flags[p] \cup {"PNEEDNOTE"}) \ {}
                                       ELSE T1.flags[p]]
    BY <1>2, <2>2, SetFlagsIs
  <2> HIDE DEF T2
  <2>4. /\ U \in Tables /\ SameJobs(T1, U) /\ SameCurr(T1, U) /\ U.neednote = TRUE
        /\ U.flags = T2.flags
    BY <2>1, <2>3 DEF SameJobs, SameShape, SameCurr, Tables
  <2>5. \A q \in Slots, f \in Flags : f \in U.flags[q] <=>
          f \in T1.flags[q] \/ (f = "PNEEDNOTE" /\ q = l)
    BY <2>3, <2>4
  <2>6. SameJobs(T, U)  BY <1>2, <2>4 DEF SameJobs, SameShape
  <2>7. WellFormed(U)
    <3>1. FlagsOK(T1) /\ T.procid[l] # 0  BY <1>2, <1>3 DEF WellFormed, LiveLeaders
    <3>2. FlagsOK(U)
      BY <1>0, <1>2, <2>5, <2>6, <3>1 DEF FlagsOK, SameJobs, SameShape
    <3>. QED BY <1>2, <2>4, <3>2, WellFormedSame DEF SameJobs
  <2>8. \A q \in Slots, f \in Flags \ {"PREPORTED", "PNEEDNOTE"} :
              f \in U.flags[q] <=> f \in V.flags[q]
    BY <1>2, <2>5
  <2>9. \A q \in Slots : "PNEEDNOTE" \in U.flags[q] <=> "PNEEDNOTE" \in T.flags[q] \/ q = l
    BY <1>0, <1>2, <1>6, <2>5
  <2>10. \A q \in Slots : "PREPORTED" \in U.flags[q] <=>
              "PREPORTED" \in V.flags[q] \/ (q \in Ring(T, pp) /\ "PSTOPPED" \in V.flags[q])
    <3>1. \A q \in Slots : "PREPORTED" \in U.flags[q] <=> "PREPORTED" \in T1.flags[q]
      BY <1>0, <2>5
    <3>. QED BY <1>2, <3>1
  <2>11. Unreported(T, pp, st)  BY <1>9 DEF Flagged
  <2>12. U.neednote = (T.neednote \/ Flagged(T, pp, st))
    BY <1>9, <2>4
  <2>. QED BY <1>3, <1>9, <2>4, <2>6, <2>7, <2>8, <2>9, <2>10, <2>11, <2>12 DEF U, V
<1>. QED BY <1>7, <1>8, <1>9 DEF Flagged
=============================================================================
