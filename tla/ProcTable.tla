----------------------------- MODULE ProcTable -----------------------------
(***************************************************************************)
(* The process table of the shell (sh.proc.c, sh.proc.h): struct process,  *)
(* the list proclist, the rings p_friends and the variables pcurrjob,      *)
(* pholdjob, pcurrent, pprevious, pmaxindex and neednote.  The table is    *)
(* one record T; every routine that changes it is an operator from tables  *)
(* to tables, so that JobControl can compose them the way the C code does. *)
(*                                                                         *)
(* A struct process is a slot: the k-th one palloc() creates is slot k.    *)
(* palloc() inserts at the head of proclist, so the list order is the      *)
(* decreasing order of slots.  A ring is appended to at its tail, so it is *)
(* represented by T.job, which maps each process to the one that started   *)
(* the ring (the pcurrjob of that moment).  0 is the null pointer, and     *)
(* also the p_procid of a flushed process.                                 *)
(***************************************************************************)
EXTENDS Integers

CONSTANTS
  MaxProcs,     \* bound: how many struct process are ever allocated
  Pids,         \* the process ids the kernel hands out
  BIGINDEX,     \* sh.proc.c:84, job numbers grow freely up to it
  Notify        \* TRUE when the shell variable "notify" is set

ASSUME ProcTableAssumption ==
  /\ MaxProcs \in Nat
  /\ 0 \notin Pids
  /\ BIGINDEX \in Nat
  /\ Notify \in BOOLEAN

Slots == 1 .. MaxProcs
Ptr   == 0 .. MaxProcs              \* a struct process *, 0 is NULL
NULL  == 0

ExitStates == {"PNEXITED", "PAEXITED", "PSIGNALED", "PINTERRUPTED"}
PALLSTATES == {"PRUNNING", "PSTOPPED"} \cup ExitStates
Flags      == PALLSTATES \cup {"PNOTIFY", "PFOREGND", "PREPORTED", "PNEEDNOTE"}

Tables ==
  [n         : Nat,                         \* slots allocated so far
   freed     : SUBSET Slots,                \* pfree()d
   procid    : [Slots -> Pids \cup {0}],
   jobid     : [Slots -> Pids \cup {0}],
   job       : [Slots -> Ptr],              \* who started the p_friends ring
   index     : [Slots -> Nat],
   flags     : [Slots -> SUBSET Flags],
   pcurrjob  : Ptr,
   pholdjob  : Ptr,
   pcurrent  : Ptr,
   pprevious : Ptr,
   pmaxindex : Nat,
   neednote  : BOOLEAN]

EmptyTable ==
  [n |-> 0, freed |-> {},
   procid |-> [p \in Slots |-> 0], jobid |-> [p \in Slots |-> 0],
   job |-> [p \in Slots |-> NULL], index |-> [p \in Slots |-> 0],
   flags |-> [p \in Slots |-> {}],
   pcurrjob |-> NULL, pholdjob |-> NULL, pcurrent |-> NULL, pprevious |-> NULL,
   pmaxindex |-> 0, neednote |-> FALSE]

-----------------------------------------------------------------------------
(* Reading the table.                                                      *)

Proclist(T) == {p \in Slots : p <= T.n /\ p \notin T.freed}

\* The processes reached from p through p_friends.
Ring(T, p) == {q \in Slots : q <= T.n /\ T.job[q] = T.job[p]}

\* "do jobflags |= fp->p_flags; while ((fp = fp->p_friends) != pp)"
JobFlags(T, p) == UNION {T.flags[q] : q \in Ring(T, p)}

\* while (pp->p_procid != pp->p_jobid) pp = pp->p_friends;
\* The walk that starts pchild, pjwait, pflush, pendjob and pprint.  It ends
\* only if the ring has a leader, and never touches freed memory only if no
\* process of the ring was freed.
LeadersOf(T, p) == {q \in Ring(T, p) \ T.freed : T.procid[q] = T.jobid[q]}
WalkEnds(T, p)  == LeadersOf(T, p) # {} /\ Ring(T, p) \cap T.freed = {}
Leader(T, p)    == CHOOSE q \in LeadersOf(T, p) : TRUE

\* The greatest and the least member of S, 0 if there is none.  New processes
\* go to the head of proclist: Greatest(S) is the first process of it in S.
Greatest(S) ==
  IF \E p \in S : \A q \in S : q <= p
  THEN CHOOSE p \in S : \A q \in S : q <= p
  ELSE 0
Least(S) ==
  IF \E p \in S : \A q \in S : p <= q
  THEN CHOOSE p \in S : \A q \in S : p <= q
  ELSE 0

\* The processes pchild() and pgetcurr() look for.
WithPid(T, pid) == {p \in Proclist(T) : T.procid[p] = pid}
LiveLeaders(T)  == {p \in Proclist(T) : T.procid[p] # 0 /\ T.procid[p] = T.jobid[p]}

\* pgetcurr - the most recent job that is not pp, preferably stopped
pgetcurr(T, pp) ==
  LET jobs    == LiveLeaders(T) \ {T.pcurrent, pp}
      stopped == {p \in jobs : "PSTOPPED" \in T.flags[p]}
  IN  IF stopped # {} THEN Greatest(stopped) ELSE Greatest(jobs)

-----------------------------------------------------------------------------
(* Changing the table.                                                     *)

SetFlags(T, S, add, del) ==
  [T EXCEPT !.flags =
     [p \in Slots |-> IF p \in S THEN (@[p] \cup add) \ del ELSE @[p]]]

\* Mutant: the previous job becomes the current one and stays the previous one.
pclrcurrKeeps(T, pp) ==
  IF pp = T.pcurrent
  THEN [T EXCEPT !.pcurrent = IF T.pprevious # NULL THEN T.pprevious
                              ELSE pgetcurr(T, pp)]
  ELSE T

\* pclrcurr - make sure the job is not the current or previous job
pclrcurr(T, pp) ==
  IF pp = T.pcurrent
  THEN LET T1 == [T EXCEPT !.pcurrent = IF T.pprevious # NULL THEN T.pprevious
                                        ELSE pgetcurr(T, pp)]
       IN  [T1 EXCEPT !.pprevious = pgetcurr(T1, pp)]
  ELSE IF pp = T.pprevious
  THEN [T EXCEPT !.pprevious = pgetcurr(T, pp)]
  ELSE T

\* The largest job number in proclist, what pflush recomputes pmaxindex to.
LargestIndex(T) == Greatest({T.index[p] : p \in Proclist(T)} \cup {0})

\* Mutant: p_index and p_procid are cleared and nothing else is.
pflushBare(T, p) ==
  LET ring == Ring(T, p) IN
  [T EXCEPT !.index  = [q \in Slots |-> IF q \in ring THEN 0 ELSE @[q]],
            !.procid = [q \in Slots |-> IF q \in ring THEN 0 ELSE @[q]]]

\* pflush - flag the processes of the job for deletion.  Its caller has seen
\* that p_procid is not 0 and that the walk to the leader ends.
pflush(T, p) ==
  LET pp   == Leader(T, p)
      ring == Ring(T, p)
      T1   == pclrcurr(T, pp)
      T2   == SetFlags([T1 EXCEPT
                !.pcurrjob = IF pp = @ THEN NULL ELSE @,
                !.index    = [q \in Slots |-> IF q \in ring THEN 0 ELSE @[q]],
                !.procid   = [q \in Slots |-> IF q \in ring THEN 0 ELSE @[q]]],
                ring, {}, {"PNEEDNOTE"})
  IN  IF T.index[pp] = T.pmaxindex THEN [T2 EXCEPT !.pmaxindex = LargestIndex(T2)]
      ELSE T2

NewIndexDown(T) == T.pmaxindex - 1

\* The job number of a new job: grow below BIGINDEX, else the first free one.
NewIndex(T) ==
  IF T.pmaxindex < BIGINDEX THEN T.pmaxindex + 1
  ELSE Least({i \in 1 .. MaxProcs + 1 : \A p \in Proclist(T) : T.index[p] # i})

\* Mutant: palloc() forgets PFOREGND.
pallocBackground(T, pid, fg) ==
  LET p == T.n + 1 IN
  [T EXCEPT !.n = p, !.procid[p] = pid, !.jobid[p] = pid, !.job[p] = p,
            !.index[p] = NewIndex(T), !.flags[p] = {"PRUNNING"},
            !.pcurrjob = p, !.pmaxindex = NewIndex(T), !.pcurrent = p,
            !.pprevious = T.pcurrent]

\* palloc - a new struct process for pid, a member of pcurrjob's ring or a
\* job of its own.
palloc(T, pid, fg) ==
  LET p  == T.n + 1
      pj == T.pcurrjob
      new == pj = NULL
      T1 == [T EXCEPT
              !.n         = p,
              !.procid[p] = pid,
              !.jobid[p]  = IF new THEN pid ELSE T.procid[pj],
              !.job[p]    = IF new THEN p ELSE T.job[pj],
              !.index[p]  = IF new THEN NewIndex(T) ELSE T.index[pj],
              !.flags[p]  = {"PRUNNING"} \cup (IF fg THEN {"PFOREGND"} ELSE {})]
  IN  IF ~new THEN T1
      ELSE [T1 EXCEPT
              !.pcurrjob  = p,
              !.pmaxindex = IF NewIndex(T) > @ THEN NewIndex(T) ELSE @,
              !.pcurrent  = IF @ = NULL THEN p ELSE @,
              !.pprevious = IF T.pcurrent # NULL /\ @ = NULL THEN p ELSE @]

\* "Here's where dead procs get flushed" (pwait).  What a freed process held
\* is gone; only its place in the ring is kept, to know who still points to it.
FreeFlushed(T) ==
  LET dead == {p \in Proclist(T) : T.procid[p] = 0} IN
  [T EXCEPT !.freed = @ \cup dead,
            !.jobid = [p \in Slots |-> IF p \in dead THEN 0 ELSE @[p]],
            !.index = [p \in Slots |-> IF p \in dead THEN 0 ELSE @[p]],
            !.flags = [p \in Slots |-> IF p \in dead THEN {} ELSE @[p]]]

\* pendjob - a job has been completed or is about to begin
pendjob(T) == [T EXCEPT !.pcurrjob = NULL, !.pholdjob = NULL]
PendjobWalks(T) ==
  T.pcurrjob # NULL /\ T.flags[T.pcurrjob] \cap {"PFOREGND", "PSTOPPED"} = {}

psavejob(T)         == [T EXCEPT !.pholdjob = T.pcurrjob, !.pcurrjob = NULL]
psavejob_cleanup(T) == [T EXCEPT !.pcurrjob = T.pholdjob, !.pholdjob = NULL]

\* pstart - mark the job running in the foreground or the background
pstart(T, pp, fg) ==
  LET alive == {q \in Ring(T, pp) : T.flags[q] \cap {"PRUNNING", "PSTOPPED"} # {}}
      T1    == SetFlags(T, alive,
                 {"PRUNNING"} \cup (IF fg THEN {"PFOREGND"} ELSE {}),
                 {"PSTOPPED"} \cup (IF fg THEN {} ELSE {"PFOREGND"}))
  IN  IF fg THEN T1 ELSE pclrcurr(T1, pp)

(***************************************************************************)
(* pchild - one turn of its loop: wait3() returned the status st of the    *)
(* child that is process pp of the table ("PSTOPPED" or one of             *)
(* ExitStates).                                                            *)
(***************************************************************************)
\* Mutant: PRUNNING stays set.
CollectedRuns(T, pp, st) == SetFlags(T, {pp}, {st}, {"PSTOPPED", "PREPORTED"} \ {st})

Collected(T, pp, st) ==                        \* the status is in the table
  SetFlags(T, {pp}, {st}, {"PRUNNING", "PSTOPPED", "PREPORTED"} \ {st})

Unreported(T, pp, st) ==                       \* the job stopped or ended just now
  JobFlags(Collected(T, pp, st), pp) \cap {"PRUNNING", "PREPORTED"} = {}

\* PFOREGND of the process is cleared ...
Unforegrounded(T, pp, st) == SetFlags(Collected(T, pp, st), {pp}, {}, {"PFOREGND"})

\* ... and, when its job has stopped or ended, the stopped ones are PREPORTED
\* and %+ and %- change.
Settled(T, pp, st) ==
  LET T1      == Unforegrounded(T, pp, st)
      stopped == {q \in Ring(T, pp) : "PSTOPPED" \in T1.flags[q]}
      T2      == SetFlags(T1, stopped, {"PREPORTED"}, {})
      fp      == Leader(T, pp)
  IN  IF "PSTOPPED" \in JobFlags(Collected(T, pp, st), pp)
      THEN [T2 EXCEPT !.pprevious = IF T.pcurrent \notin {NULL, fp}
                                    THEN T.pcurrent ELSE @,
                      !.pcurrent  = fp]
      ELSE pclrcurr(T2, fp)

\* Mutants: the process that changed is flagged, not the leader of its job; the
\* job is neither flagged nor flushed.
pchildFlagsMember(T, pp, st) ==
  LET T1 == SetFlags(Collected(T, pp, st), {pp}, {}, {"PFOREGND"}) IN
  IF Unreported(T, pp, st) /\ "PFOREGND" \notin JobFlags(Collected(T, pp, st), pp)
  THEN [SetFlags(pclrcurr(T1, Leader(T, pp)), {pp}, {"PNEEDNOTE"}, {}) EXCEPT !.neednote = TRUE]
  ELSE T1
pchildForgets(T, pp, st) ==
  IF Unreported(T, pp, st) THEN Settled(T, pp, st) ELSE Unforegrounded(T, pp, st)

pchild(T, pp, st) ==
  LET jobflags == JobFlags(Collected(T, pp, st), pp)
      T1       == Settled(T, pp, st)
  IN  IF ~Unreported(T, pp, st) THEN Unforegrounded(T, pp, st)
      ELSE IF "PFOREGND" \in jobflags THEN T1
      ELSE IF "PNOTIFY" \in jobflags \/ Notify
      THEN IF "PSTOPPED" \in jobflags THEN T1 ELSE pflush(T1, pp)
      ELSE [SetFlags(T1, {Leader(T, pp)}, {"PNEEDNOTE"}, {}) EXCEPT !.neednote = TRUE]
=============================================================================
