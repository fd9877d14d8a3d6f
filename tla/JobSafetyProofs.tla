--------------------------- MODULE JobSafetyProofs ---------------------------
(***************************************************************************)
(* What a user would call bugs of job control do not happen: the shell     *)
(* does not hang in a walk along p_friends (NeverHung), %+ and %- are      *)
(* sound (CurrentPrevious), no background job is waited for                *)
(* (WaitsForForeground), and job numbers identify jobs (JobNumbers).       *)
(*                                                                         *)
(* None of them is inductive.  JobInv adds that the table is well formed   *)
(* (every ring closed and led by a live leader) and, for each place where  *)
(* the shell may be, which job it holds and whether the handler may have   *)
(* run since (WhereInv).                                                   *)
(***************************************************************************)
EXTENDS JobControlProofs, FiniteSetTheorems

(***************************************************************************)
(* The scenario, and why each part of it is needed.                        *)
(*  - ~Notify, ~NotifyBuiltin: with notify, pchild() flushes jobs from     *)
(*    within pjwait() and dojobs(), which then flush them again: the run   *)
(*    bug_flushed_twice.                                                   *)
(*  - ~FgFinished: fg of a job that has ended hangs the next walk: the run *)
(*    bug_fg_finished.                                                     *)
(*  - HookAt = {}: an alias jobcmd starts jobs while a job is being made.  *)
(*  - ~(ForkIO /\ Recycle): when pchild() runs between two forks and the   *)
(*    leader's pid is used again at once, two leaders share a ring.        *)
(* Failing forks, I/O between forks without such a reuse, reuse of pids    *)
(* otherwise, signals from outside, pipelines of any length, any number of *)
(* processes and pids are all in it.                                       *)
(***************************************************************************)
PlainShell ==
  /\ ~Notify /\ ~NotifyBuiltin /\ ~FgFinished /\ HookAt = {}
  /\ ~(ForkIO /\ Recycle)

\* The shell is in pjwait() or dowait().
Waiting == pc \in {"wait", "pre", "susp"}

(* What holds where the shell is.  Waiting and pc = "start" are within a    *)
(* command that has a job jw; pc = "fork" is within execute(), whose       *)
(* pipeline so far is pcurrjob; pc = "jobs" is within dojobs() or pnote(). *)
WhereInv ==
  /\ hook = NoHook
  /\ pc # "hung"
  /\ inhandler => pc \in SignalPoints
  /\ tab.pcurrjob \in LiveLeaders(tab) \cup {NULL}
  /\ pc \in {"cmd", "note", "start", "jobs"} => tab.pcurrjob = NULL
  /\ Waiting => tab.pcurrjob \in {NULL, jw}
  /\ Waiting /\ jw # NULL => jw \in LiveLeaders(tab) /\ ForegroundRing(tab, jw)
  /\ pc = "fork" /\ tab.pcurrjob # NULL =>
        /\ fg => ForegroundRing(tab, tab.pcurrjob)
        /\ ForkIO \/ GroupExists(tab.jobid[tab.pcurrjob])
  /\ pc = "start" =>
        /\ jw \in LiveLeaders(tab) /\ GroupExists(tab.jobid[jw])
        /\ pchild_disabled /\ (fg => ForegroundRing(tab, jw))
  /\ pc = "jobs" /\ loop.lead # NULL => loop.lead \in LiveLeaders(tab)

\* The inductive invariant.
JobInv == TypeInv /\ WellFormed(tab) /\ WhereInv

\* It holds when the shell starts.
LEMMA JobInvInit == Init => JobInv
<1> SUFFICES ASSUME Init PROVE JobInv  OBVIOUS
<1>1. TypeInv  BY TypeInvInit
<1>2. tab = EmptyTable /\ LiveLeaders(EmptyTable) = {}
  BY DEF Init, EmptyTable, LiveLeaders, Proclist
<1>3. WellFormed(EmptyTable)
  <2>1. Shape(EmptyTable)
    <3>1. /\ EmptyTable.n = 0 /\ EmptyTable.freed = {}
          /\ EmptyTable.procid = [p \in Slots |-> 0]
      BY DEF EmptyTable
    <3>2. \A p \in Slots : p > 0 /\ ~(p <= 0)  BY DEF Slots
    <3> HIDE DEF EmptyTable
    <3>. QED BY <3>1, <3>2 DEF Shape
  <2>2. FlagsOK(EmptyTable)  BY DEF EmptyTable, FlagsOK
  <2>3. CurrPrev(EmptyTable)  BY <1>2 DEF EmptyTable, CurrPrev
  <2>. QED BY <2>1, <2>2, <2>3 DEF WellFormed
<1>4. WhereInv  BY <1>2 DEF Init, WhereInv, EmptyTable, Waiting
<1>. QED BY <1>1, <1>2, <1>3, <1>4 DEF JobInv

(* Steps that leave the table and what is known of the shell alone.        *)
LEMMA GroupStays ==
  ASSUME NEW g, GroupExists(g),
         \A i \in Pids : kst[i] # "none" => kst'[i] # "none" /\ pgrp'[i] = pgrp[i]
  PROVE  GroupExists(g)'
BY DEF GroupExists

\* Steps that change the kernel only.
LEMMA SameWhere ==
  ASSUME JobInv, TypeInv', UNCHANGED <<tab, pc, todo, fg, jw, loop, hook>>,
         inhandler' => pc \in SignalPoints,
         pc = "start" => pchild_disabled',
         pc \in {"fork", "start"} =>
           \A i \in Pids : kst[i] # "none" => kst'[i] # "none" /\ pgrp'[i] = pgrp[i]
  PROVE  JobInv'
<1>1. WellFormed(tab)'  BY DEF JobInv
<1>2. \A g : GroupExists(g) /\ pc \in {"fork", "start"} => GroupExists(g)'
  BY GroupStays
<1>3. WhereInv'
  BY <1>2 DEF JobInv, WhereInv, Waiting
<1>. QED BY <1>1, <1>3 DEF JobInv

\* Children run, stop, continue and end without the shell.
LEMMA KernelSafe ==
  ASSUME JobInv, TypeInv', NEW i \in Pids, ChildExits(i) \/ ChildStops(i) \/ ChildContinues(i)
  PROVE  JobInv'
<1>1. UNCHANGED <<tab, pgrp, pchild_disabled, inhandler, pc, todo, fg, jw, loop, hook>>
  BY DEF ChildExits, ChildStops, ChildContinues, ChildChanges, signals, control
<1>2. \E st \in {"zombie", "stop", "run"} : kst' = [kst EXCEPT ![i] = st]
  BY DEF ChildExits, ChildStops, ChildContinues, ChildChanges
<1>3. \A j \in Pids : kst[j] # "none" => kst'[j] # "none" /\ pgrp'[j] = pgrp[j]
  BY <1>1, <1>2 DEF JobInv, TypeInv, TypeOK
<1>4. inhandler' => pc \in SignalPoints  BY <1>1 DEF JobInv, WhereInv
<1>5. pc = "start" => pchild_disabled'  BY <1>1 DEF JobInv, WhereInv
<1>. QED BY <1>1, <1>3, <1>4, <1>5, SameWhere

\* The handler is entered and left at the points where SIGCHLD is open.
LEMMA HandlerSafe ==
  ASSUME JobInv, TypeInv', HandlePending \/ PchildReturns
  PROVE  JobInv'
<1>1. UNCHANGED <<tab, kst, pgrp, pchild_disabled, pc, todo, fg, jw, loop, hook>>
  BY DEF HandlePending, PchildReturns, kernel, control
<1>2. inhandler' => pc \in SignalPoints
  BY DEF HandlePending, PchildReturns
<1>3. pc = "start" => pchild_disabled'  BY <1>1 DEF JobInv, WhereInv
<1>. QED BY <1>1, <1>2, <1>3, SameWhere

\* One turn of pchild(), wherever the shell was interrupted.
LEMMA Wait3Safe ==
  ASSUME PlainShell, JobInv, TypeInv', NEW i \in Pids, Wait3(i)
  PROVE  JobInv'
<1> DEFINE pp == Greatest(WithPid(tab, i))
           U  == pchild(tab, pp, news[i])
<1>1. /\ tab \in Tables /\ news[i] \in {"PSTOPPED"} \cup ExitStates
      /\ WellFormed(tab) /\ WhereInv
  BY DEF JobInv, TypeInv, TypeOK, Wait3, Reap
<1>2. inhandler /\ pc \in SignalPoints /\ UNCHANGED <<pchild_disabled, inhandler>>
  BY <1>1 DEF Wait3, Reap, signals, WhereInv
<1>3. pp # NULL => Live(tab, pp)
  <2>1. pp \in WithPid(tab, i) \cup {0}  BY DEF Greatest
  <2>. QED BY <2>1, ProcTableAssumption DEF WithPid, Proclist, Live, NULL
<1>4. pc = "fork" => ForkIO  BY <1>2 DEF SignalPoints
<1>5. pc # "start"  BY <1>2 DEF SignalPoints
<1>6. CASE pp = NULL
  <2>1. UNCHANGED tab /\ UNCHANGED control  BY <1>6 DEF Wait3
  <2>. QED BY <1>1, <1>2, <1>4, <1>5, <2>1 DEF JobInv, WhereInv, Waiting, control
<1>7. CASE pp # NULL
  <2> HIDE DEF pp
  <2>1. Live(tab, pp) /\ WalkEnds(tab, pp)  BY <1>1, <1>3, <1>7, LiveRing DEF WellFormed
  <2>2. tab' = U /\ UNCHANGED control
    BY <1>7, <2>1 DEF Wait3, pp
  <2>3. /\ U \in Tables /\ WellFormed(U) /\ SameJobs(tab, U)
        /\ \A q \in Slots, f \in Flags \ {"PREPORTED", "PNEEDNOTE"} :
              f \in U.flags[q] <=> f \in Unforegrounded(tab, pp, news[i]).flags[q]
    BY <1>1, <2>1, pchildSafe DEF PlainShell
  <2> HIDE DEF U
  <2>4. LiveLeaders(U) = LiveLeaders(tab) /\ (\A p : Ring(U, p) = Ring(tab, p))
        /\ U.pcurrjob = tab.pcurrjob
    BY <1>1, <2>3, ShapeSame DEF SameJobs
  <2>5. \A p : ForegroundRing(tab, p) => ForegroundRing(U, p)
    <3>1. /\ \A q \in Slots : q # pp => Unforegrounded(tab, pp, news[i]).flags[q] = tab.flags[q]
          /\ \A f \in Flags : f \in Unforegrounded(tab, pp, news[i]).flags[pp] <=>
              \/ f = news[i]
              \/ f \in tab.flags[pp] /\ f \notin {"PRUNNING", "PSTOPPED", "PREPORTED", "PFOREGND"}
      BY <1>1, <2>1, CollectedIs DEF Live
    <3>2. {"PRUNNING", "PFOREGND"} \subseteq Flags \ {"PREPORTED", "PNEEDNOTE"}
          /\ news[i] # "PRUNNING"
      BY <1>1 DEF Flags, PALLSTATES, ExitStates
    <3>. QED BY <2>3, <2>4, <3>1, <3>2, RingSlots DEF ForegroundRing
  <2>6. WhereInv'
    BY <1>1, <1>2, <1>4, <1>5, <2>2, <2>4, <2>5 DEF WhereInv, Waiting, control
  <2>. QED BY <2>2, <2>3, <2>6 DEF JobInv
<1>. QED BY <1>6, <1>7

-----------------------------------------------------------------------------
(* The steps of the shell.                                                  *)

LEMMA TopSafe ==
  ASSUME JobInv, TypeInv', Top
  PROVE  JobInv'
<1>1. tab \in Tables /\ WellFormed(tab) /\ WhereInv  BY DEF JobInv, TypeInv, TypeOK
<1>2. PendjobWalks(tab) => WalkEnds(tab, tab.pcurrjob)
  BY <1>1, LeaderIs, LiveRing DEF PendjobWalks, WhereInv, WellFormed
<1>3. /\ tab' = [pendjob(tab) EXCEPT !.neednote = FALSE]
      /\ pc' \in {"note", "cmd"}
      /\ loop'.lead = NULL
      /\ UNCHANGED <<todo, fg, jw, hook, inhandler>> /\ ~inhandler
  BY <1>2 DEF Top, Quiet, NoLoop
<1>4. /\ SameShape(tab, tab') /\ SameCurr(tab, tab') /\ tab'.flags = tab.flags
      /\ tab'.pcurrjob = NULL
  BY <1>1, <1>3 DEF pendjob, SameShape, SameCurr, Tables
<1>5. WellFormed(tab')
  BY <1>1, <1>4, WellFormedSame DEF WellFormed, FlagsOK, SameShape
<1>6. WhereInv'  BY <1>1, <1>3, <1>4 DEF WhereInv, Waiting
<1>. QED BY <1>5, <1>6 DEF JobInv

\* pnote(): the jobs it flushes are not held by the shell.
LEMMA PnoteSafe ==
  ASSUME JobInv, TypeInv', Pnote
  PROVE  JobInv'
<1> DEFINE pp == Greatest(ToNote)
           T1 == SetFlags(tab, {pp}, {}, {"PNEEDNOTE"})
<1>1. tab \in Tables /\ WellFormed(tab) /\ WhereInv /\ pc = "note" /\ tab.pcurrjob = NULL
  BY DEF JobInv, TypeInv, TypeOK, Pnote, WhereInv
<1>2. ~inhandler /\ UNCHANGED inhandler  BY DEF Pnote, Quiet
<1>3. pp # NULL => Live(tab, pp)
  <2>1. pp \in ToNote \cup {0}  BY DEF Greatest
  <2>. QED BY <1>1, <2>1 DEF ToNote, Proclist, Live, NULL, WellFormed, FlagsOK
<1>4. CASE pp = NULL
  <2>1. pc' = "cmd" /\ UNCHANGED <<tab, hook>>  BY <1>4 DEF Pnote
  <2>. QED BY <1>1, <1>2, <2>1 DEF JobInv, WhereInv, Waiting
<1>5. CASE pp # NULL
  <2> HIDE DEF pp
  <2>1. Live(tab, pp) /\ WalkEnds(tab, pp)  BY <1>1, <1>3, <1>5, LiveRing DEF WellFormed
  <2>2. /\ tab' \in {T1, pflush(T1, pp)}
        /\ UNCHANGED <<pc, hook>>
    BY <1>5, <2>1 DEF Pnote, pp
  <2>3. /\ T1 \in Tables /\ SameJobs(tab, T1) /\ SameCurr(tab, T1)
        /\ T1.flags = [p \in Slots |-> IF p \in {pp} THEN (tab.flags[p] \cup {}) \ {"PNEEDNOTE"}
                                       ELSE tab.flags[p]]
    BY <1>1, SetFlagsIs
  <2> HIDE DEF T1
  <2>4. WellFormed(T1) /\ Live(T1, pp) /\ T1.pcurrjob = NULL
    <3>1. FlagsOK(T1)
      BY <1>1, <2>3 DEF FlagsOK, WellFormed, SameJobs, SameShape
    <3>. QED BY <1>1, <2>1, <2>3, <3>1, WellFormedSame DEF SameJobs, SameShape, Live
  <2>5. WellFormed(pflush(T1, pp)) /\ pflush(T1, pp).pcurrjob = NULL
    BY <2>3, <2>4, pflushSafe DEF Flushed
  <2>. QED BY <1>1, <1>2, <2>2, <2>4, <2>5 DEF JobInv, WhereInv, Waiting
<1>. QED BY <1>4, <1>5

\* The command lines that start nothing.
LEMMA LineSafe ==
  ASSUME JobInv, TypeInv', EndLine \/ DojobsStart \/ Dowait
                           \/ \E n \in 1 .. MaxPipe, b \in BOOLEAN : StartPipeline(n, b)
  PROVE  JobInv'
<1>1. /\ tab' = tab /\ ~inhandler /\ ~inhandler' /\ hook' = hook /\ pc = "cmd"
      /\ \/ pc' \in {"top", "fork"}
         \/ pc' = "jobs" /\ loop'.lead = NULL
         \/ pc' = "wait" /\ jw' = NULL
  BY DEF EndLine, DojobsStart, Dowait, StartPipeline, Quiet, NoLoop
<1>. QED BY <1>1 DEF JobInv, WhereInv, Waiting

\* pjwait() and dowait() between two looks at the job.
LEMMA WaitingSafe ==
  ASSUME JobInv, TypeInv', WaitCheck \/ Sigsuspend \/ SigsuspendReturns \/ WaitInterrupted
  PROVE  JobInv'
<1>1. /\ UNCHANGED <<tab, jw, hook>> /\ ~inhandler /\ ~inhandler' /\ Waiting
      /\ \/ pc' \in {"wait", "pre", "susp"}
         \/ pc' = "top" /\ jw = NULL
  BY DEF WaitCheck, Sigsuspend, SigsuspendReturns, WaitInterrupted, Quiet, Waiting
<1>. QED BY <1>1 DEF JobInv, WhereInv, Waiting

\* pjwait() leaves: the job is flushed, or it was stopped.
LEMMA WaitEndsSafe ==
  ASSUME JobInv, TypeInv', WaitEnds
  PROVE  JobInv'
<1>1. /\ tab \in Tables /\ WellFormed(tab) /\ WhereInv /\ pc = "wait" /\ Waiting
      /\ ~inhandler /\ ~inhandler' /\ hook = NoHook
  BY DEF JobInv, TypeInv, TypeOK, WaitEnds, WhereInv, Quiet, Waiting
<1>2. CASE jw = NULL
  <2>1. pc' = "cmd" /\ UNCHANGED <<tab, jw, hook>>  BY <1>2 DEF WaitEnds
  <2>2. tab.pcurrjob = NULL  BY <1>1, <1>2 DEF WhereInv
  <2>. QED BY <1>1, <2>1, <2>2 DEF JobInv, WhereInv, Waiting
<1>3. CASE jw # NULL
  <2>1. jw \in LiveLeaders(tab) /\ Live(tab, jw) /\ tab.job[jw] = jw /\ WalkEnds(tab, jw)
    BY <1>1, <1>3, LeaderIs, LiveRing DEF WhereInv, WellFormed
  <2>2. ~PjwaitHangs  BY <2>1 DEF PjwaitHangs
  <2>3. /\ tab' = AfterPjwait(tab) /\ pc' = AfterPjwaitPc(tab) /\ jw' = NULL
        /\ UNCHANGED <<loop, hook>>
    BY <1>1, <1>3, <2>2 DEF WaitEnds
  <2>4. CASE "PSTOPPED" \in JobFlags(tab, jw)
    <3>1. tab' = tab /\ pc' = "top"  BY <2>3, <2>4 DEF AfterPjwait, AfterPjwaitPc
    <3>. QED BY <1>1, <2>3, <3>1 DEF JobInv, WhereInv, Waiting
  <2>5. CASE "PSTOPPED" \notin JobFlags(tab, jw)
    <3>1. tab' = pflush(tab, jw)  BY <2>1, <2>3, <2>5 DEF AfterPjwait, Live
    <3>2. WellFormed(tab') /\ tab'.pcurrjob = NULL
      <4>1. WellFormed(tab')  BY <1>1, <2>1, <3>1, pflushSafe
      <4>2. Flushed(tab, jw, tab')  BY <1>1, <2>1, <3>1, pflushSafe
      <4>3. tab'.pcurrjob \in {NULL, tab.pcurrjob} /\ (tab.pcurrjob = jw => tab'.pcurrjob = NULL)
        BY <2>1, <4>2 DEF Flushed
      <4>. QED BY <1>1, <4>1, <4>3 DEF WhereInv
    <3>3. pc' \in {"top", "cmd"}  BY <2>3 DEF AfterPjwaitPc
    <3>. QED BY <1>1, <2>3, <3>2, <3>3 DEF JobInv, WhereInv, Waiting
  <2>. QED BY <2>4, <2>5
<1>. QED BY <1>2, <1>3

\* What pfind() finds is a live leader.
LEMMA PfindLive ==
  ASSUME WellFormed(tab)
  PROVE  Pfind \subseteq LiveLeaders(tab)
BY DEF Pfind, WellFormed, CurrPrev

\* fg, bg and %n up to pstart().
LEMMA PstartSafe ==
  ASSUME PlainShell, JobInv, TypeInv', NEW pp \in Slots, NEW b \in BOOLEAN, Pstart(pp, b)
  PROVE  JobInv'
<1>1. /\ tab \in Tables /\ WellFormed(tab) /\ WhereInv /\ tab.pcurrjob = NULL
      /\ ~inhandler /\ ~inhandler' /\ GroupExists(tab.jobid[pp])
      /\ pp \in LiveLeaders(tab)
  BY PfindLive DEF JobInv, TypeInv, TypeOK, Pstart, WhereInv, Quiet, PlainShell
<1>2. WalkEnds(tab, pp)  BY <1>1, LeaderIs, LiveRing DEF WellFormed
<1>3. /\ tab' = pstart(tab, pp, b) /\ fg' = b /\ jw' = pp /\ pchild_disabled' = TRUE
      /\ pc' = "start" /\ UNCHANGED <<kst, pgrp, loop, hook>>
  BY <1>2 DEF Pstart, kernel
<1>4. WellFormed(tab') /\ SameJobs(tab, tab') /\ (b => ForegroundRing(tab', pp))
  BY <1>1, <1>3, pstartSafe
<1>5. LiveLeaders(tab') = LiveLeaders(tab) /\ tab'.jobid = tab.jobid /\ tab'.pcurrjob = NULL
  BY <1>1, <1>4, ShapeSame DEF SameJobs, SameShape
<1>6. GroupExists(tab.jobid[pp])'  BY <1>1, <1>3, <1>5 DEF GroupExists
<1>7. WhereInv'
  BY <1>1, <1>3, <1>4, <1>5, <1>6 DEF WhereInv, Waiting
<1>. QED BY <1>4, <1>7 DEF JobInv

\* fg, bg and %n after pstart().
LEMMA PstartDoneSafe ==
  ASSUME JobInv, TypeInv', PstartDone
  PROVE  JobInv'
<1>1. /\ WellFormed(tab) /\ WhereInv /\ tab.pcurrjob = NULL /\ pc = "start"
      /\ ~inhandler /\ ~inhandler' /\ GroupExists(tab.jobid[jw]) /\ jw \in LiveLeaders(tab)
  BY DEF JobInv, PstartDone, WhereInv, Quiet
<1>2. /\ pc' = (IF fg THEN "wait" ELSE "cmd") /\ jw' = (IF fg THEN jw ELSE NULL)
      /\ UNCHANGED <<tab, hook>>
  BY <1>1 DEF PstartDone
<1>. QED BY <1>1, <1>2 DEF JobInv, WhereInv, Waiting

\* jobs picks the next job number.
LEMMA DojobsPickSafe ==
  ASSUME JobInv, TypeInv', DojobsPick
  PROVE  JobInv'
<1> DEFINE leaders == {p \in Proclist(tab) : tab.index[p] = loop.i
                                             /\ tab.procid[p] = tab.jobid[p]}
           pp == Greatest(leaders)
<1>1. /\ tab \in Tables /\ WellFormed(tab) /\ WhereInv /\ tab.pcurrjob = NULL /\ pc = "jobs"
      /\ ~inhandler /\ ~inhandler' /\ loop.lead = NULL /\ UNCHANGED hook
  BY DEF JobInv, TypeInv, TypeOK, DojobsPick, WhereInv, Quiet
<1>2. pp # NULL => pp \in LiveLeaders(tab)
  <2>1. pp \in leaders \cup {0}  BY DEF Greatest
  <2>. QED BY <1>1, <2>1 DEF LiveLeaders, NULL, WellFormed, Shape, Proclist
<1>3. CASE loop.i > tab.pmaxindex
  <2>1. pc' = "cmd" /\ UNCHANGED tab  BY <1>3 DEF DojobsPick
  <2>. QED BY <1>1, <2>1 DEF JobInv, WhereInv, Waiting
<1>4. CASE ~(loop.i > tab.pmaxindex) /\ pp = NULL
  <2>1. loop' = [loop EXCEPT !.i = @ + 1] /\ UNCHANGED <<tab, pc>>
    BY <1>4 DEF DojobsPick
  <2>2. loop'.lead = NULL
    BY <1>1, <2>1 DEF JobInv, TypeInv, TypeOK
  <2>. QED BY <1>1, <2>1, <2>2 DEF JobInv, WhereInv, Waiting
<1>5. CASE ~(loop.i > tab.pmaxindex) /\ pp # NULL
  <2>1. /\ tab' = SetFlags(tab, {pp}, {}, {"PNEEDNOTE"})
        /\ loop' = [loop EXCEPT !.at = pp, !.lead = pp, !.alive = Alive(tab, pp)]
        /\ UNCHANGED pc
    BY <1>5 DEF DojobsPick
  <2> HIDE DEF pp
  <2>2. /\ SameJobs(tab, tab') /\ SameCurr(tab, tab')
        /\ tab'.flags = [p \in Slots |-> IF p \in {pp} THEN (tab.flags[p] \cup {}) \ {"PNEEDNOTE"}
                                         ELSE tab.flags[p]]
    BY <1>1, <2>1, SetFlagsIs
  <2>3. FlagsOK(tab')  BY <1>1, <2>2 DEF FlagsOK, WellFormed, SameJobs, SameShape
  <2>4. WellFormed(tab')  BY <1>1, <2>2, <2>3, WellFormedSame DEF SameJobs
  <2>5. LiveLeaders(tab') = LiveLeaders(tab) /\ tab'.pcurrjob = NULL
    BY <1>1, <2>2, ShapeSame DEF SameJobs
  <2>6. loop'.lead = pp  BY <2>1 DEF JobInv, TypeInv, TypeOK
  <2>7. WhereInv'
    BY <1>1, <1>2, <1>5, <2>1, <2>5, <2>6 DEF WhereInv, Waiting
  <2>. QED BY <2>4, <2>7 DEF JobInv
<1>. QED BY <1>3, <1>4, <1>5

\* jobs goes on to the next process of the ring, or flushes the job.
LEMMA DojobsNextSafe ==
  ASSUME JobInv, TypeInv', DojobsNext
  PROVE  JobInv'
<1> DEFINE rest  == {q \in Ring(tab, loop.lead) : q > loop.at}
           flush == ~loop.alive /\ tab.procid[loop.lead] # 0
<1>1. /\ tab \in Tables /\ WellFormed(tab) /\ WhereInv /\ tab.pcurrjob = NULL /\ pc = "jobs"
      /\ ~inhandler /\ ~inhandler' /\ loop.lead \in LiveLeaders(tab)
  BY DEF JobInv, TypeInv, TypeOK, DojobsNext, WhereInv, Quiet
<1>2. Live(tab, loop.lead) /\ WalkEnds(tab, loop.lead)
  BY <1>1, LeaderIs, LiveRing DEF WellFormed
<1>3. CASE rest # {}
  <2>1. /\ loop' = [loop EXCEPT !.at = Least(rest), !.alive = @ \/ Alive(tab, Least(rest))]
        /\ UNCHANGED <<tab, pc, hook>>
    BY <1>3 DEF DojobsNext
  <2>2. loop'.lead = loop.lead  BY <2>1 DEF JobInv, TypeInv, TypeOK
  <2>. QED BY <1>1, <2>1, <2>2 DEF JobInv, WhereInv, Waiting
<1>4. CASE rest = {}
  <2>1. /\ tab' = IF flush THEN pflush(tab, loop.lead) ELSE tab
        /\ loop' = [NoLoop EXCEPT !.i = loop.i + 1]
        /\ UNCHANGED <<pc, hook>>
    BY <1>2, <1>4 DEF DojobsNext
  <2>2. loop'.lead = NULL  BY <2>1 DEF NoLoop
  <2>3. WellFormed(tab') /\ tab'.pcurrjob = NULL
    <3>1. CASE flush
      <4>1. WellFormed(tab') /\ Flushed(tab, loop.lead, tab')
        BY <1>1, <1>2, <2>1, <3>1, pflushSafe
      <4>. QED BY <1>1, <4>1 DEF Flushed
    <3>2. CASE ~flush
      <4>1. tab' = tab  BY <2>1, <3>2
      <4>. QED BY <1>1, <4>1
    <3>. QED BY <3>1, <3>2
  <2>. QED BY <1>1, <2>1, <2>2, <2>3 DEF JobInv, WhereInv, Waiting
<1>. QED BY <1>3, <1>4

\* A failed fork returns to the top with part of the pipeline started.
LEMMA ForkErrorSafe ==
  ASSUME JobInv, TypeInv', ForkError
  PROVE  JobInv'
<1>1. pc' = "top" /\ UNCHANGED <<tab, hook>> /\ ~inhandler /\ ~inhandler'
  BY DEF ForkError, Quiet
<1>. QED BY <1>1 DEF JobInv, WhereInv, Waiting

(* fork(): the new child, its process group and its struct process.         *)
LEMMA ForkSafe ==
  ASSUME PlainShell, JobInv, TypeInv', NEW i \in Pids, Fork(i)
  PROVE  JobInv'
<1> DEFINE c0    == tab.pcurrjob
           want  == IF c0 = NULL THEN i ELSE tab.jobid[c0]
           joins == want = i \/ GroupExists(want)
           T0    == [tab EXCEPT !.pcurrjob = IF joins THEN @ ELSE NULL]
           T1    == palloc(T0, i, fg)
           c     == T1.pcurrjob
           g     == IF joins THEN want ELSE i
           last  == todo = 1
<1>1. /\ tab \in Tables /\ tab.n < MaxProcs /\ fg \in BOOLEAN /\ todo \in Nat /\ pc = "fork"
      /\ WellFormed(tab) /\ WhereInv /\ hook = NoHook /\ ~inhandler /\ ~inhandler'
      /\ c0 \in LiveLeaders(tab) \cup {NULL}
  BY ProcTableAssumption DEF JobInv, TypeInv, TypeOK, Fork, WhereInv, Quiet, Tables
<1>2. /\ NewChild(i, g) /\ FreePid(i) /\ fg' = (fg /\ ~last) /\ UNCHANGED <<loop, hook>>
  BY DEF Fork
<1>3. c0 # NULL => want # i
  <2> SUFFICES ASSUME c0 # NULL PROVE tab.jobid[c0] # i  OBVIOUS
  <2>1. c0 \in Proclist(tab)  BY <1>1 DEF LiveLeaders
  <2>2. CASE ~Recycle  BY <1>2, <2>1, <2>2 DEF FreePid
  <2>3. CASE ~ForkIO
    <3>1. GroupExists(tab.jobid[c0])  BY <1>1, <2>3 DEF WhereInv
    <3>. QED BY <1>2, <3>1 DEF FreePid
  <2>. QED BY <2>2, <2>3 DEF PlainShell
<1>4. /\ T0 \in Tables /\ SameShape(tab, T0) /\ SameCurr(tab, T0) /\ T0.flags = tab.flags
      /\ T0.pcurrjob = IF joins THEN c0 ELSE NULL
      /\ T0.n = tab.n
  <2> HIDE DEF joins
  <2>. QED BY <1>1, SlotsPtr DEF Tables, SameShape, SameCurr
<1> HIDE DEF T0
<1>5. WellFormed(T0) /\ LiveLeaders(T0) = LiveLeaders(tab)
  <2>1. FlagsOK(T0)  BY <1>1, <1>4 DEF WellFormed, FlagsOK, SameShape
  <2>. QED BY <1>1, <1>4, <2>1, WellFormedSame, ShapeSame
<1>6. T0.pcurrjob # NULL => c0 # NULL /\ joins /\ T0.pcurrjob = c0
                            /\ T0.jobid[T0.pcurrjob] = want
  BY <1>4 DEF SameShape
<1>7. /\ T0.pcurrjob \in LiveLeaders(T0) \cup {NULL}
      /\ T0.pcurrjob # NULL => T0.jobid[T0.pcurrjob] # i
  <2> HIDE DEF want, joins
  <2>. QED BY <1>1, <1>3, <1>4, <1>5, <1>6
<1>8. T0.pcurrjob # NULL /\ fg => ForegroundRing(T0, T0.pcurrjob)
  <2> SUFFICES ASSUME T0.pcurrjob # NULL, fg PROVE ForegroundRing(T0, T0.pcurrjob)
    OBVIOUS
  <2>1. ForegroundRing(tab, c0) /\ T0.pcurrjob = c0  BY <1>1, <1>6 DEF WhereInv
  <2>2. Ring(T0, c0) = Ring(tab, c0)  BY <1>1, <1>4, ShapeSame
  <2>. QED BY <1>4, <2>1, <2>2 DEF ForegroundRing
<1>9. /\ T1 \in Tables /\ WellFormed(T1) /\ c \in LiveLeaders(T1)
      /\ fg => ForegroundRing(T1, c)
      /\ T1.jobid[c] = IF T0.pcurrjob = NULL THEN i ELSE T0.jobid[T0.pcurrjob]
  <2>1. T1 \in Tables  BY <1>1, <1>4, pallocType
  <2> HIDE DEF joins, want
  <2>. QED BY <1>1, <1>4, <1>5, <1>7, <1>8, <2>1, pallocSafe DEF ForegroundRing
<1>10. T1.jobid[c] = g
  BY <1>4, <1>6, <1>9
<1>11. kst'[i] = "run" /\ pgrp'[i] = g
  <2> HIDE DEF g
  <2>. QED BY <1>2 DEF NewChild, JobInv, TypeInv, TypeOK
<1> HIDE DEF T1, g
<1>12. CASE ~last
  <2>1. tab' = T1 /\ pc' = "fork" /\ UNCHANGED jw  BY <1>12 DEF Fork, T1, T0
  <2>2. tab'.pcurrjob = c /\ c \in LiveLeaders(tab')  BY <1>9, <2>1
  <2>3. GroupExists(tab.jobid[tab.pcurrjob])'
    <3>1. tab'.jobid[tab'.pcurrjob] = g  BY <1>10, <2>1
    <3>. QED BY <1>11, <3>1 DEF GroupExists
  <2>4. fg' => ForegroundRing(tab', c)  BY <1>2, <1>9, <2>1
  <2>5. WhereInv'
    BY <1>1, <1>2, <2>1, <2>2, <2>3, <2>4 DEF WhereInv, Waiting
  <2>. QED BY <1>9, <2>1, <2>5 DEF JobInv
<1>13. CASE last /\ fg
  <2> DEFINE F == FreeFlushed(T1)
  <2>1. EnterWait(T1)  BY <1>13 DEF Fork, T1, T0
  <2>2. /\ F \in Tables /\ WellFormed(F) /\ LiveLeaders(F) = LiveLeaders(T1)
        /\ F.pcurrjob = c /\ Ring(F, c) = Ring(T1, c)
        /\ \A q \in Slots : F.flags[q] \subseteq T1.flags[q]
        /\ \A q \in Slots : Live(T1, q) => F.flags[q] = T1.flags[q]
        /\ F.procid = T1.procid
    BY <1>9, FreeFlushedSafe
  <2> HIDE DEF F
  <2>3. Live(F, c) /\ WalkEnds(F, c) /\ Leader(F, c) = c
    BY <1>9, <2>2, LeaderIs, LiveRing DEF WellFormed
  <2>4. tab' = F /\ pc' = "wait" /\ jw' = c
    BY <2>1, <2>2, <2>3 DEF EnterWait, F
  <2>5. ForegroundRing(F, c)
    <3>1. \A q \in Ring(F, c) : Live(F, q)
      <4>1. Shape(F) /\ Live(F, c)  BY <2>2, <2>3 DEF WellFormed
      <4>2. F.job[c] = c /\ F.procid[c] # 0  BY <2>2, <1>9, LeaderIs DEF WellFormed, Live
      <4>. QED BY <4>1, <4>2 DEF Shape, Ring, Live
    <3>2. \A q \in Ring(F, c) : q \in Ring(T1, c) /\ F.flags[q] = T1.flags[q]
      BY <2>2, <3>1 DEF Live
    <3>. QED BY <1>9, <1>13, <3>2 DEF ForegroundRing
  <2>6. tab'.pcurrjob = c /\ c \in LiveLeaders(tab')  BY <1>9, <2>2, <2>4
  <2>7. WhereInv'
    BY <1>1, <1>2, <2>4, <2>5, <2>6 DEF WhereInv, Waiting
  <2>. QED BY <2>2, <2>4, <2>7 DEF JobInv
<1>14. CASE last /\ ~fg
  <2>1. tab' = pendjob(T1) /\ pc' = "cmd" /\ UNCHANGED jw  BY <1>14 DEF Fork, T1, T0
  <2>2. /\ SameShape(T1, tab') /\ SameCurr(T1, tab') /\ tab'.flags = T1.flags
        /\ tab'.pcurrjob = NULL
    BY <1>9, <2>1 DEF pendjob, SameShape, SameCurr, Tables
  <2>3. FlagsOK(tab')  BY <1>9, <2>2 DEF WellFormed, FlagsOK, SameShape
  <2>4. WellFormed(tab')  BY <1>9, <2>2, <2>3, WellFormedSame
  <2>5. WhereInv'  BY <1>1, <1>2, <2>1, <2>2 DEF WhereInv, Waiting
  <2>. QED BY <2>4, <2>5 DEF JobInv
<1>. QED BY <1>12, <1>13, <1>14

\* Every step keeps it.
LEMMA JobInvNext == ASSUME PlainShell, JobInv, [Next]_vars PROVE JobInv'
<1>1. TypeInv'  BY TypeInvNext DEF JobInv
<1>2. CASE Kernel  BY <1>1, <1>2, KernelSafe DEF Kernel
<1>3. CASE User
  BY <1>1, <1>3, LineSafe, WaitingSafe, PstartSafe DEF User, Donotify, PlainShell
<1>4. CASE Shell
  <2>1. ~(\E i \in Pids : Hook(i))  BY DEF Hook, PlainShell
  <2>. QED BY <1>1, <1>4, <2>1, HandlerSafe, TopSafe, PnoteSafe, ForkSafe, ForkErrorSafe,
              WaitingSafe, WaitEndsSafe, PstartDoneSafe, DojobsPickSafe, DojobsNextSafe
           DEF Shell
<1>5. CASE \E i \in Pids : Wait3(i)  BY <1>1, <1>5, Wait3Safe
<1>6. CASE UNCHANGED vars
  <2>1. UNCHANGED <<tab, kst, pgrp, pchild_disabled, inhandler, pc, todo, fg, jw, loop, hook>>
    BY <1>6 DEF vars, kernel, signals, control
  <2>2. /\ inhandler' => pc \in SignalPoints
        /\ pc = "start" => pchild_disabled'
    BY <2>1 DEF JobInv, WhereInv
  <2>. QED BY <1>1, <2>1, <2>2, SameWhere
<1>. QED BY <1>2, <1>3, <1>4, <1>5, <1>6 DEF Next

\* It holds in every reachable state.
LEMMA JobInvAlways == ASSUME PlainShell PROVE Spec => []JobInv
<1>1. JobInv /\ [Next]_vars => JobInv'  BY JobInvNext
<1>. QED BY <1>1, JobInvInit, PTL DEF Spec

-----------------------------------------------------------------------------
(* The theorems.                                                            *)

\* No walk of sh.proc.c from a process to the leader of its job loops for ever or
\* follows a p_friends of freed memory, whatever pids are reused, whatever forks
\* fail and whatever signals others send to the children.
THEOREM NeverHangs == ASSUME PlainShell PROVE Spec => []NeverHung
<1>1. JobInv => NeverHung  BY DEF JobInv, WhereInv, NeverHung
<1>. QED BY <1>1, JobInvAlways, PTL

\* %+ and %- are NULL or different jobs of the table, and there is no %- without
\* a %+: pclrcurr(), palloc() and pchild() leave neither dangling.
THEOREM CurrentPreviousSound == ASSUME PlainShell PROVE Spec => []CurrentPrevious
<1>1. JobInv => CurrentPrevious
  BY DEF JobInv, WellFormed, CurrPrev, CurrentPrevious
<1>. QED BY <1>1, JobInvAlways, PTL

\* What pjwait() waits for is in the foreground: "BUG: waiting for background
\* job!" is never printed.
THEOREM OnlyForegroundWaits == ASSUME PlainShell PROVE Spec => []WaitsForForeground
<1>1. JobInv => WaitsForForeground
  BY DEF JobInv, WhereInv, Waiting, ForegroundRing, WaitsForForeground
<1>. QED BY <1>1, JobInvAlways, PTL

-----------------------------------------------------------------------------
(***************************************************************************)
(* Job numbers identify jobs (JobNumbers): no two jobs share one, also     *)
(* when pmaxindex has reached BIGINDEX and palloc() looks for a free one,  *)
(* and "jobs" reaches every job.  It is inductive with JobInv and with     *)
(* what pflush() leaves behind: a flushed process has the number 0.        *)
(***************************************************************************)

\* p is in the list and has not been flushed.
Listed(T, p) == p \in Proclist(T) /\ T.procid[p] # 0

\* JobNumbers of any table, and the numbers of flushed processes.
Numbered(T) ==
  /\ \A p \in Slots : Listed(T, p) => T.index[p] \in 1 .. T.pmaxindex
  /\ \A p, q \in Slots : Listed(T, p) /\ Listed(T, q) =>
       (T.index[p] = T.index[q] <=> T.job[p] = T.job[q])
  /\ \A p \in Proclist(T) : T.procid[p] = 0 => T.index[p] = 0

\* T and U agree in all that job numbers are about.
SameNumbers(T, U) == SameShape(T, U) /\ U.index = T.index /\ U.pmaxindex = T.pmaxindex

-----------------------------------------------------------------------------
(* Greatest() and Least() of numbers.                                       *)

LEMMA GreatestBounded ==
  ASSUME NEW S, S \subseteq Nat, S # {}, NEW b \in Nat, \A x \in S : x <= b
  PROVE  Greatest(S) \in S /\ \A q \in S : q <= Greatest(S)
<1> DEFINE D == {b - x : x \in S}
<1>1. D \subseteq Nat /\ D # {}
  <2>1. \A x \in S : x \in Nat /\ x <= b  OBVIOUS
  <2>2. \A x \in S : b - x \in Nat  BY <2>1
  <2>3. PICK x \in S : TRUE  OBVIOUS
  <2>4. b - x \in D  OBVIOUS
  <2>. QED BY <2>2, <2>4
<1>2. PICK d \in D : \A e \in D : d <= e
  <2> HIDE DEF D
  <2>. QED BY <1>1, LeastIs
<1>3. PICK x \in S : d = b - x  OBVIOUS
<1>4. ASSUME NEW y \in S PROVE y <= x
  <2>1. b - y \in D  OBVIOUS
  <2>2. b - x <= b - y  BY <1>2, <1>3, <2>1
  <2>. QED BY <2>2
<1>. QED BY <1>4 DEF Greatest

\* MaxProcs structs leave one of MaxProcs + 1 numbers free: the search of palloc()
\* above BIGINDEX finds one.
LEMMA NumberFree ==
  ASSUME NEW T
  PROVE  \E i \in 1 .. MaxProcs + 1 : \A p \in Proclist(T) : T.index[p] # i
<1> SUFFICES ASSUME \A i \in 1 .. MaxProcs + 1 : \E p \in Proclist(T) : T.index[p] = i
             PROVE  FALSE
  OBVIOUS
<1> DEFINE f == [i \in 1 .. MaxProcs + 1 |-> CHOOSE p \in Proclist(T) : T.index[p] = i]
<1>0. MaxProcs \in Nat  BY ProcTableAssumption
<1>1. \A i \in 1 .. MaxProcs + 1 : f[i] \in Proclist(T) /\ T.index[f[i]] = i
  OBVIOUS
<1>2. f \in [1 .. MaxProcs + 1 -> Slots]
  BY <1>1, ProclistSlots
<1>3. /\ IsFiniteSet(1 .. MaxProcs + 1) /\ IsFiniteSet(Slots)
      /\ Cardinality(Slots) < Cardinality(1 .. MaxProcs + 1)
  <2>1. 1 \in Int /\ MaxProcs \in Int /\ MaxProcs + 1 \in Int  BY <1>0
  <2>2. Cardinality(1 .. MaxProcs + 1) = MaxProcs + 1 /\ IsFiniteSet(1 .. MaxProcs + 1)
    BY <1>0, <2>1, FS_Interval
  <2>3. Cardinality(1 .. MaxProcs) = MaxProcs /\ IsFiniteSet(1 .. MaxProcs)
    BY <1>0, <2>1, FS_Interval
  <2>. QED BY <1>0, <2>2, <2>3 DEF Slots
<1> HIDE DEF f
<1>4. PICK i \in 1 .. MaxProcs + 1, j \in 1 .. MaxProcs + 1 : i # j /\ f[i] = f[j]
  <2> DEFINE N == 1 .. MaxProcs + 1
  <2>1. IsFiniteSet(N) /\ IsFiniteSet(Slots) /\ Cardinality(Slots) < Cardinality(N) /\ f \in [N -> Slots]
    BY <1>2, <1>3
  <2> HIDE DEF N
  <2>2. \E i, j \in N : i # j /\ f[i] = f[j]  BY <2>1, FS_PigeonHole
  <2>. QED BY <2>2 DEF N
<1>5. T.index[f[i]] = i /\ T.index[f[j]] = j  BY <1>1
<1>. QED BY <1>4, <1>5

\* A new job gets a number that no listed process has.
LEMMA NewIndexFree ==
  ASSUME NEW T \in Tables, Numbered(T)
  PROVE  /\ NewIndex(T) \in Nat \ {0}
         /\ \A p \in Slots : Listed(T, p) => T.index[p] # NewIndex(T)
<1> DEFINE free == {i \in 1 .. MaxProcs + 1 : \A p \in Proclist(T) : T.index[p] # i}
<1>1. T.pmaxindex \in Nat  BY DEF Tables
<1>2. CASE T.pmaxindex < BIGINDEX
  <2>1. NewIndex(T) = T.pmaxindex + 1  BY <1>2 DEF NewIndex
  <2>2. \A p \in Slots : Listed(T, p) => T.index[p] \in 1 .. T.pmaxindex  BY DEF Numbered
  <2>. QED BY <1>1, <2>1, <2>2
<1>3. CASE ~(T.pmaxindex < BIGINDEX)
  <2>1. NewIndex(T) = Least(free)  BY <1>3 DEF NewIndex
  <2>2. free \subseteq Nat /\ free # {}  BY NumberFree
  <2>3. Least(free) \in free
    <3> HIDE DEF free
    <3>. QED BY <2>2, LeastIs
  <2>4. 0 \notin free  OBVIOUS
  <2> HIDE DEF free
  <2>5. Least(free) \in Nat  BY <2>2, <2>3
  <2>6. \A p \in Proclist(T) : T.index[p] # Least(free)  BY <2>3 DEF free
  <2>. QED BY <2>1, <2>3, <2>4, <2>5, <2>6 DEF Listed
<1>. QED BY <1>2, <1>3

-----------------------------------------------------------------------------
(* The routines of the table.                                               *)

LEMMA SameNumbered ==
  ASSUME NEW T, NEW U, SameNumbers(T, U), Numbered(T)
  PROVE  Numbered(U)
BY DEF SameNumbers, SameShape, Numbered, Listed, Proclist

LEMMA SameNumbersTrans ==
  ASSUME NEW T, NEW U, NEW V, SameNumbers(T, U), SameNumbers(U, V)
  PROVE  SameNumbers(T, V)
BY DEF SameNumbers, SameShape

\* Flags, %+ and %- have nothing to do with numbers.
LEMMA SetFlagsNumbers ==
  ASSUME NEW T \in Tables, NEW S, NEW add, NEW del
  PROVE  SameNumbers(T, SetFlags(T, S, add, del))
BY DEF SetFlags, SameNumbers, SameShape, Tables

LEMMA pclrcurrNumbers ==
  ASSUME NEW T \in Tables, NEW p
  PROVE  SameNumbers(T, pclrcurr(T, p))
BY DEF pclrcurr, SameNumbers, SameShape, Tables

LEMMA pstartNumbers ==
  ASSUME NEW T \in Tables, NEW pp \in Slots, NEW f \in BOOLEAN
  PROVE  SameNumbers(T, pstart(T, pp, f))
<1> DEFINE alive == {q \in Ring(T, pp) : T.flags[q] \cap {"PRUNNING", "PSTOPPED"} # {}}
           add == {"PRUNNING"} \cup (IF f THEN {"PFOREGND"} ELSE {})
           del == {"PSTOPPED"} \cup (IF f THEN {} ELSE {"PFOREGND"})
           T1  == SetFlags(T, alive, add, del)
<1>1. add \in SUBSET Flags  BY DEF Flags, PALLSTATES
<1> HIDE DEF alive, add, del
<1>2. T1 \in Tables /\ SameNumbers(T, T1)  BY <1>1, SetFlagsType, SetFlagsNumbers
<1>3. pstart(T, pp, f) \in {T1, pclrcurr(T1, pp)}  BY DEF pstart, alive, add, del
<1> HIDE DEF T1
<1>. QED BY <1>2, <1>3, pclrcurrNumbers, SameNumbersTrans

\* pchild(), as long as it does not flush the job.
LEMMA pchildNumbers ==
  ASSUME NEW T \in Tables, NEW pp, NEW st \in {"PSTOPPED"} \cup ExitStates,
         Unreported(T, pp, st) => WalkEnds(T, pp)
  PROVE  \/ SameNumbers(T, pchild(T, pp, st))
         \/ pchild(T, pp, st) = pflush(Settled(T, pp, st), pp)
<1> DEFINE C == Collected(T, pp, st)
           V == Unforegrounded(T, pp, st)
           fp == Leader(T, pp)
           stopped == {q \in Ring(T, pp) : "PSTOPPED" \in V.flags[q]}
           T2 == SetFlags(V, stopped, {"PREPORTED"}, {})
           S == Settled(T, pp, st)
           N == SetFlags(S, {fp}, {"PNEEDNOTE"}, {})
           U == pchild(T, pp, st)
<1>1. C \in Tables /\ SameNumbers(T, C)
  BY CollectedType, SetFlagsNumbers DEF Collected
<1>2. V = SetFlags(C, {pp}, {}, {"PFOREGND"}) /\ V \in Tables
  BY UnforegroundedType DEF Unforegrounded
<1> HIDE DEF C
<1>3. SameNumbers(T, V)
  <2>1. SameNumbers(C, V)  BY <1>1, <1>2, SetFlagsNumbers
  <2>. QED BY <1>1, <2>1, SameNumbersTrans
<1>4. U = V \/ U = S \/ U = pflush(S, pp) \/ (Unreported(T, pp, st) /\ U = [N EXCEPT !.neednote = TRUE])
  BY DEF pchild
<1>5. S = IF "PSTOPPED" \in JobFlags(C, pp)
          THEN [T2 EXCEPT !.pprevious = IF T.pcurrent \notin {NULL, fp}
                                        THEN T.pcurrent ELSE @,
                          !.pcurrent  = fp]
          ELSE pclrcurr(T2, fp)
  BY DEF Settled, C
<1> HIDE DEF V, stopped, fp, U
<1>6. T2 \in Tables /\ SameNumbers(V, T2)
  <2>1. {"PREPORTED"} \in SUBSET Flags  BY DEF Flags
  <2>. QED BY <1>2, <2>1, SetFlagsType, SetFlagsNumbers
<1> HIDE DEF T2, S
<1>7. SameNumbers(T2, S)
  <2>1. CASE "PSTOPPED" \in JobFlags(C, pp)
    BY <1>5, <1>6, <2>1 DEF SameNumbers, SameShape, Tables
  <2>2. CASE "PSTOPPED" \notin JobFlags(C, pp)
    BY <1>5, <1>6, <2>2, pclrcurrNumbers
  <2>. QED BY <2>1, <2>2
<1>8. SameNumbers(T, S)  BY <1>3, <1>6, <1>7, SameNumbersTrans
<1>9. ASSUME Unreported(T, pp, st) PROVE SameNumbers(T, [N EXCEPT !.neednote = TRUE])
  <2>1. S \in Tables  BY <1>9, SettledType DEF S
  <2>2. N \in Tables
    <3>1. {"PNEEDNOTE"} \in SUBSET Flags  BY DEF Flags
    <3>. QED BY <2>1, <3>1, SetFlagsType
  <2>3. SameNumbers(S, N)  BY <2>1, SetFlagsNumbers
  <2> HIDE DEF N
  <2>4. SameNumbers(N, [N EXCEPT !.neednote = TRUE])
    BY <2>2 DEF SameNumbers, SameShape, Tables
  <2>5. SameNumbers(T, N)  BY <1>8, <2>3, SameNumbersTrans
  <2>. QED BY <2>4, <2>5, SameNumbersTrans
<1> HIDE DEF N
<1>. QED BY <1>3, <1>4, <1>8, <1>9 DEF U, S

\* The numbers after pflush() of a live process: those of its job are 0, and
\* pmaxindex is the greatest left.
LEMMA pflushNumbered ==
  ASSUME NEW T \in Tables, WellFormed(T), Numbered(T), NEW p, Live(T, p)
  PROVE  Numbered(pflush(T, p))
<1> DEFINE ring == Ring(T, p)
           C  == pclrcurr(T, Leader(T, p))
           T1 == [C EXCEPT !.pcurrjob = IF Leader(T, p) = @ THEN NULL ELSE @,
                           !.index  = [q \in Slots |-> IF q \in ring THEN 0 ELSE @[q]],
                           !.procid = [q \in Slots |-> IF q \in ring THEN 0 ELSE @[q]]]
           T2 == SetFlags(T1, ring, {}, {"PNEEDNOTE"})
           U  == pflush(T, p)
<1>1. WalkEnds(T, p) /\ Leader(T, p) \in Slots
  BY LiveRing, LeaderSlot DEF WellFormed
<1>2. C \in Tables /\ SameNumbers(T, C)  BY <1>1, pclrcurrType, pclrcurrNumbers
<1>3. U \in {T2, [T2 EXCEPT !.pmaxindex = LargestIndex(T2)]}  BY DEF pflush
<1> HIDE DEF C
<1>4. T1 \in Tables  BY <1>2, SlotsPtr DEF Tables
<1>5. /\ T1.n = T.n /\ T1.freed = T.freed /\ T1.job = T.job /\ T1.pmaxindex = T.pmaxindex
      /\ T1.procid = [q \in Slots |-> IF q \in ring THEN 0 ELSE T.procid[q]]
      /\ T1.index = [q \in Slots |-> IF q \in ring THEN 0 ELSE T.index[q]]
  BY <1>2 DEF SameNumbers, SameShape, Tables
<1> HIDE DEF T1
<1>6. T2 \in Tables /\ SameNumbers(T1, T2)  BY <1>4, SetFlagsType, SetFlagsNumbers
<1> HIDE DEF T2, U, ring
<1>7. /\ U.n = T.n /\ U.freed = T.freed /\ U.job = T.job
      /\ U.procid = [q \in Slots |-> IF q \in ring THEN 0 ELSE T.procid[q]]
      /\ U.index = [q \in Slots |-> IF q \in ring THEN 0 ELSE T.index[q]]
      /\ U.pmaxindex \in {T.pmaxindex, LargestIndex(T2)}
  BY <1>3, <1>5, <1>6 DEF SameNumbers, SameShape, Tables
<1>8. \A q \in Slots : Listed(U, q) => Listed(T, q) /\ U.index[q] = T.index[q]
  BY <1>7 DEF Listed, Proclist
<1>9. \A q \in Proclist(T2) : T2.index[q] <= LargestIndex(T2)
  <2> DEFINE S == {T2.index[q] : q \in Proclist(T2)} \cup {0}
  <2>1. \A q \in Proclist(T2) : T2.index[q] \in Nat /\ T2.index[q] <= T.pmaxindex
    <3> SUFFICES ASSUME NEW q \in Proclist(T2)
                 PROVE  T2.index[q] \in Nat /\ T2.index[q] <= T.pmaxindex
      OBVIOUS
    <3>1. q \in Slots /\ q \in Proclist(T) /\ T2.index[q] \in {0, T.index[q]}
          /\ T.pmaxindex \in Nat /\ T.index[q] \in Nat
      BY <1>5, <1>6 DEF SameNumbers, SameShape, Proclist, Tables
    <3>2. T.index[q] <= T.pmaxindex
      <4>1. CASE T.procid[q] = 0
        <5>1. T.index[q] = 0  BY <3>1, <4>1 DEF Numbered
        <5>. QED BY <3>1, <5>1
      <4>2. CASE T.procid[q] # 0
        <5>1. T.index[q] \in 1 .. T.pmaxindex  BY <3>1, <4>2 DEF Numbered, Listed
        <5>. QED BY <5>1
      <4>. QED BY <4>1, <4>2
    <3>. QED BY <3>1, <3>2
  <2>2. S \subseteq Nat /\ S # {} /\ \A x \in S : x <= T.pmaxindex
    BY <2>1 DEF Tables
  <2>3. T.pmaxindex \in Nat  BY DEF Tables
  <2>4. \A x \in S : x <= Greatest(S)
    <3> HIDE DEF S
    <3>. QED BY <2>2, <2>3, GreatestBounded
  <2>5. LargestIndex(T2) = Greatest(S)  BY DEF LargestIndex
  <2>. QED BY <2>4, <2>5
<1>10. ASSUME NEW q \in Slots, Listed(U, q) PROVE U.index[q] \in 1 .. U.pmaxindex
  <2>1. T.index[q] \in 1 .. T.pmaxindex /\ U.index[q] = T.index[q]
    BY <1>8, <1>10 DEF Numbered
  <2>2. q \in Proclist(T2) /\ T2.index[q] = U.index[q]
    BY <1>5, <1>6, <1>7, <1>10 DEF SameNumbers, SameShape, Listed, Proclist
  <2>3. T2.index[q] <= LargestIndex(T2)  BY <1>9, <2>2
  <2>4. LargestIndex(T2) \in Nat  BY <1>6, LargestIndexNat
  <2>5. U.index[q] <= U.pmaxindex /\ U.pmaxindex \in Nat
    <3>1. T.pmaxindex \in Nat  BY DEF Tables
    <3>. QED BY <1>7, <2>1, <2>2, <2>3, <2>4, <3>1
  <2>. QED BY <2>1, <2>5
<1>11. ASSUME NEW q \in Proclist(U), U.procid[q] = 0 PROVE U.index[q] = 0
  <2>1. q \in Slots /\ q \in Proclist(T)  BY <1>7, <1>11 DEF Proclist
  <2>. QED BY <1>7, <1>11, <2>1 DEF Numbered
<1>12. ASSUME NEW q \in Slots, NEW r \in Slots, Listed(U, q), Listed(U, r)
       PROVE  U.index[q] = U.index[r] <=> U.job[q] = U.job[r]
  BY <1>7, <1>8, <1>12 DEF Numbered
<1>. QED BY <1>10, <1>11, <1>12 DEF Numbered, U

\* free() of the flushed ones.
LEMMA FreeFlushedNumbered ==
  ASSUME NEW T \in Tables, Numbered(T)
  PROVE  Numbered(FreeFlushed(T))
<1> DEFINE dead == {p \in Proclist(T) : T.procid[p] = 0}
           U == FreeFlushed(T)
<1>1. /\ U.n = T.n /\ U.freed = T.freed \cup dead /\ U.job = T.job /\ U.procid = T.procid
      /\ U.pmaxindex = T.pmaxindex
      /\ U.index = [q \in Slots |-> IF q \in dead THEN 0 ELSE T.index[q]]
  BY DEF FreeFlushed, Tables
<1> HIDE DEF U
<1>2. \A q \in Slots : Listed(U, q) => Listed(T, q) /\ U.index[q] = T.index[q]
  BY <1>1 DEF Listed, Proclist
<1>3. \A q \in Proclist(U) : U.procid[q] # 0
  BY <1>1 DEF Proclist
<1>. QED BY <1>1, <1>2, <1>3 DEF Numbered, U

\* palloc(): the process has its job's number, or a free one.
LEMMA pallocNumbered ==
  ASSUME NEW T \in Tables, T.n < MaxProcs, NEW i \in Pids, NEW f \in BOOLEAN,
         Shape(T), T.pcurrjob \in LiveLeaders(T) \cup {NULL}, Numbered(T)
  PROVE  Numbered(palloc(T, i, f))
<1> DEFINE p  == T.n + 1
           pj == T.pcurrjob
           x  == IF pj = NULL THEN NewIndex(T) ELSE T.index[pj]
           c  == IF pj = NULL THEN p ELSE pj
           U  == palloc(T, i, f)
<1>0. Allocated(T, U, i, f)  BY pallocIs
<1>1. p \in Slots /\ U \in Tables  BY <1>0 DEF Allocated
<1>2. /\ U.n = p /\ U.freed = T.freed
      /\ U.procid = [T.procid EXCEPT ![p] = i]
      /\ U.job = [T.job EXCEPT ![p] = c]
  <2> HIDE DEF U
  <2>. QED BY <1>0 DEF Allocated
<1>3. /\ U.index = [T.index EXCEPT ![p] = x]
      /\ U.pmaxindex = IF pj = NULL /\ NewIndex(T) > T.pmaxindex THEN NewIndex(T) ELSE T.pmaxindex
  BY DEF palloc, Tables
<1>4. T.pmaxindex \in Nat /\ NewIndex(T) \in Nat \ {0} /\ T.n \in Nat /\ Slots \subseteq Nat
  BY NewIndexFree, SlotsPtr DEF Tables, Slots
<1>5. pj # NULL => /\ pj \in Slots /\ Listed(T, pj) /\ T.job[pj] = pj
  BY LeaderIs DEF Listed, Live, Proclist
<1> HIDE DEF U, x, c
<1>6. /\ U.procid[p] = i /\ U.job[p] = c /\ U.index[p] = x
      /\ \A q \in Slots : q # p => /\ U.procid[q] = T.procid[q] /\ U.job[q] = T.job[q]
                                   /\ U.index[q] = T.index[q]
  BY <1>1, <1>2, <1>3 DEF Tables
<1>7. \A q \in Proclist(U) : q # p => q \in Proclist(T)
  BY <1>2, <1>4 DEF Proclist
<1>8. i # 0  BY ProcTableAssumption
<1>9. \A q \in Slots : Listed(U, q) /\ q # p => Listed(T, q)
  BY <1>6, <1>7 DEF Listed
<1>10. x \in 1 .. U.pmaxindex /\ U.pmaxindex >= T.pmaxindex /\ U.pmaxindex \in Nat
  <2>1. CASE pj = NULL  BY <1>3, <1>4, <2>1 DEF x
  <2>2. CASE pj # NULL
    <3>1. T.index[pj] \in 1 .. T.pmaxindex  BY <1>5, <2>2 DEF Numbered
    <3>. QED BY <1>3, <1>4, <2>2, <3>1 DEF x
  <2>. QED BY <2>1, <2>2
<1>11. ASSUME NEW q \in Slots, Listed(U, q) PROVE U.index[q] \in 1 .. U.pmaxindex
  <2>1. CASE q = p  BY <1>6, <1>10, <2>1
  <2>2. CASE q # p
    <3>1. T.index[q] \in 1 .. T.pmaxindex  BY <1>9, <1>11, <2>2 DEF Numbered
    <3>. QED BY <1>4, <1>6, <1>10, <2>2, <3>1
  <2>. QED BY <2>1, <2>2
<1>12. ASSUME NEW q \in Slots, Listed(T, q), q # p PROVE T.index[q] = x <=> T.job[q] = c
  <2>1. CASE pj = NULL
    <3>1. T.index[q] # x  BY <1>12, <2>1, NewIndexFree DEF x
    <3>2. T.job[q] <= T.n /\ T.job[q] \in Nat
      BY <1>4, <1>12 DEF Listed, Proclist, Shape
    <3>3. T.job[q] # p  BY <1>4, <3>2
    <3>. QED BY <2>1, <3>1, <3>3 DEF c
  <2>2. CASE pj # NULL
    BY <1>5, <1>12, <2>2 DEF x, c, Numbered
  <2>. QED BY <2>1, <2>2
<1>13. ASSUME NEW q \in Slots, NEW r \in Slots, Listed(U, q), Listed(U, r)
       PROVE  U.index[q] = U.index[r] <=> U.job[q] = U.job[r]
  <2>1. CASE q = p /\ r = p  BY <2>1
  <2>2. CASE q = p /\ r # p
    <3>1. T.index[r] = x <=> T.job[r] = c  BY <1>9, <1>12, <1>13, <2>2
    <3>. QED BY <1>6, <2>2, <3>1
  <2>3. CASE q # p /\ r = p
    <3>1. T.index[q] = x <=> T.job[q] = c  BY <1>9, <1>12, <1>13, <2>3
    <3>. QED BY <1>6, <2>3, <3>1
  <2>4. CASE q # p /\ r # p
    <3>1. Listed(T, q) /\ Listed(T, r)  BY <1>9, <1>13, <2>4
    <3>. QED BY <1>6, <2>4, <3>1 DEF Numbered
  <2>. QED BY <2>1, <2>2, <2>3, <2>4
<1>14. ASSUME NEW q \in Proclist(U), U.procid[q] = 0 PROVE U.index[q] = 0
  <2>1. q # p /\ q \in Proclist(T) /\ q \in Slots
    BY <1>6, <1>7, <1>8, <1>14 DEF Proclist
  <2>. QED BY <1>6, <1>14, <2>1 DEF Numbered
<1>. QED BY <1>11, <1>13, <1>14 DEF Numbered, U

-----------------------------------------------------------------------------
(* The steps.                                                               *)

\* JobInv gives what the routines need to know of the table.
LEMMA TableIs ==
  ASSUME JobInv
  PROVE  /\ tab \in Tables /\ WellFormed(tab) /\ Shape(tab)
         /\ tab.pcurrjob \in LiveLeaders(tab) \cup {NULL}
BY DEF JobInv, TypeInv, TypeOK, WellFormed, WhereInv

\* One turn of pchild(), which flushes nothing.
LEMMA Wait3Numbered ==
  ASSUME PlainShell, JobInv, Numbered(tab), NEW i \in Pids, Wait3(i)
  PROVE  Numbered(tab')
<1> DEFINE pp == Greatest(WithPid(tab, i))
           U  == pchild(tab, pp, news[i])
<1>1. /\ tab \in Tables /\ WellFormed(tab) /\ news[i] \in {"PSTOPPED"} \cup ExitStates
  BY TableIs DEF JobInv, TypeInv, TypeOK, Wait3, Reap
<1>2. pp # NULL => Live(tab, pp)
  <2>1. pp \in WithPid(tab, i) \cup {0}  BY DEF Greatest
  <2>. QED BY <2>1, ProcTableAssumption DEF WithPid, Proclist, Live, NULL
<1>3. CASE pp = NULL
  <2>1. tab' = tab  BY <1>3 DEF Wait3
  <2>. QED BY <2>1
<1>4. CASE pp # NULL
  <2> HIDE DEF pp
  <2>1. Live(tab, pp) /\ WalkEnds(tab, pp) /\ Leader(tab, pp) \in Slots
    BY <1>1, <1>2, <1>4, LiveRing, LeaderSlot DEF WellFormed
  <2>2. tab' = U  BY <1>4, <2>1 DEF Wait3, pp
  <2>3. SameJobs(tab, U)  BY <1>1, <2>1, pchildSafe DEF PlainShell
  <2>4. \/ SameNumbers(tab, U)
        \/ U = pflush(Settled(tab, pp, news[i]), pp)
    BY <1>1, <2>1, pchildNumbers
  <2>5. pp \in Slots /\ tab.procid[pp] # 0  BY <2>1 DEF Live
  <2>6. U # pflush(Settled(tab, pp, news[i]), pp)
    <3> DEFINE S == Settled(tab, pp, news[i])
    <3>1. pp \in Ring(S, pp)
      <4>1. SameShape(tab, S)  BY <1>1, <2>1, SettledType
      <4>2. S.n = tab.n /\ pp <= tab.n  BY <1>1, <2>1, <4>1, LiveRing DEF SameShape, WellFormed
      <4> HIDE DEF S
      <4>. QED BY <2>5, <4>2 DEF Ring
    <3>2. pflush(S, pp).procid[pp] = 0
      <4> HIDE DEF S
      <4>1. S \in Tables  BY <1>1, <2>1, SettledType DEF S
      <4> DEFINE C  == pclrcurr(S, Leader(S, pp))
                 ring == Ring(S, pp)
                 S1 == [C EXCEPT !.pcurrjob = IF Leader(S, pp) = @ THEN NULL ELSE @,
                         !.index  = [q \in Slots |-> IF q \in ring THEN 0 ELSE @[q]],
                         !.procid = [q \in Slots |-> IF q \in ring THEN 0 ELSE @[q]]]
                 F == pflush(S, pp)
      <4>2. C \in Tables
        <5>1. WalkEnds(S, pp)  BY <1>1, <2>1, SettledType, WalkEndsShape DEF S
        <5>. QED BY <4>1, <5>1, LeaderSlot, pclrcurrType
      <4>3. F.procid = S1.procid  BY DEF pflush, SetFlags
      <4> HIDE DEF C, F, ring
      <4>4. S1.procid = [q \in Slots |-> IF q \in ring THEN 0 ELSE C.procid[q]]
        BY <4>2 DEF Tables
      <4> HIDE DEF S1
      <4>5. F.procid[pp] = 0  BY <2>5, <3>1, <4>3, <4>4 DEF ring
      <4>. QED BY <4>5 DEF F
    <3>. QED BY <2>3, <2>5, <3>2 DEF SameJobs, SameShape
  <2>. QED BY <2>2, <2>4, <2>6, SameNumbered
<1>. QED BY <1>3, <1>4

\* The steps of the shell that change the table without allocating.
LEMMA ShellNumbered ==
  ASSUME JobInv, Numbered(tab), Top \/ Pnote \/ WaitEnds \/ DojobsPick \/ DojobsNext
  PROVE  Numbered(tab')
<1>1. tab \in Tables /\ WellFormed(tab) /\ WhereInv  BY TableIs DEF JobInv
<1>2. CASE Top
  <2>1. tab' = tab \/ tab' = [pendjob(tab) EXCEPT !.neednote = FALSE]  BY <1>2 DEF Top
  <2>2. SameNumbers(tab, [pendjob(tab) EXCEPT !.neednote = FALSE])
    BY <1>1 DEF pendjob, SameNumbers, SameShape, Tables
  <2>. QED BY <2>1, <2>2, SameNumbered
<1>3. CASE Pnote
  <2> DEFINE pp == Greatest(ToNote)
             T1 == SetFlags(tab, {pp}, {}, {"PNEEDNOTE"})
  <2>1. CASE pp = NULL
    <3>1. tab' = tab  BY <1>3, <2>1 DEF Pnote
    <3>. QED BY <3>1
  <2>2. CASE pp # NULL
    <3>1. tab' = T1 \/ tab' = pflush(T1, pp)  BY <1>3, <2>2 DEF Pnote
    <3>2. Live(tab, pp)
      <4>1. pp \in ToNote \cup {0}  BY DEF Greatest
      <4>. QED BY <1>1, <2>2, <4>1 DEF ToNote, Proclist, Live, NULL, WellFormed, FlagsOK
    <3> HIDE DEF pp
    <3>3. /\ T1 \in Tables /\ SameNumbers(tab, T1) /\ SameJobs(tab, T1) /\ SameCurr(tab, T1)
          /\ T1.flags = [p \in Slots |-> IF p \in {pp} THEN (tab.flags[p] \cup {}) \ {"PNEEDNOTE"}
                                         ELSE tab.flags[p]]
      BY <1>1, SetFlagsIs, SetFlagsNumbers
    <3> HIDE DEF T1
    <3>4. WellFormed(T1) /\ Live(T1, pp)
      <4>1. FlagsOK(T1)  BY <1>1, <3>3 DEF FlagsOK, WellFormed, SameJobs, SameShape
      <4>. QED BY <1>1, <3>2, <3>3, <4>1, WellFormedSame DEF SameJobs, SameShape, Live
    <3>5. Numbered(T1)  BY <3>3, SameNumbered
    <3>6. Numbered(pflush(T1, pp))  BY <3>3, <3>4, <3>5, pflushNumbered
    <3>. QED BY <3>1, <3>5, <3>6
  <2>. QED BY <2>1, <2>2
<1>4. CASE WaitEnds
  <2>1. jw = NULL => tab' = tab  BY <1>4 DEF WaitEnds
  <2>2. ASSUME jw # NULL PROVE Numbered(tab')
    <3>1. Live(tab, jw) /\ WalkEnds(tab, jw)
      BY <1>1, <1>4, <2>2, LeaderIs, LiveRing DEF WhereInv, WellFormed, WaitEnds, Waiting
    <3>2. tab' = AfterPjwait(tab)
      BY <1>1, <1>4, <2>2, <3>1 DEF WaitEnds, WhereInv, PjwaitHangs
    <3>3. tab' \in {tab, pflush(tab, jw)}  BY <3>2 DEF AfterPjwait
    <3>. QED BY <1>1, <3>1, <3>3, pflushNumbered
  <2>. QED BY <2>1, <2>2
<1>5. CASE DojobsPick
  <2> DEFINE pp == Greatest({p \in Proclist(tab) : tab.index[p] = loop.i
                                             /\ tab.procid[p] = tab.jobid[p]})
             T1 == SetFlags(tab, {pp}, {}, {"PNEEDNOTE"})
  <2>1. tab' \in {tab, T1}  BY <1>5 DEF DojobsPick
  <2> HIDE DEF pp
  <2>2. SameNumbers(tab, T1)  BY <1>1, SetFlagsNumbers
  <2> HIDE DEF T1
  <2>. QED BY <2>1, <2>2, SameNumbered
<1>6. CASE DojobsNext
  <2>1. Live(tab, loop.lead) /\ WalkEnds(tab, loop.lead)
    BY <1>1, <1>6, LeaderIs, LiveRing DEF WhereInv, WellFormed, DojobsNext
  <2>2. tab' \in {tab, pflush(tab, loop.lead)}  BY <1>6, <2>1 DEF DojobsNext
  <2>. QED BY <1>1, <2>1, <2>2, pflushNumbered
<1>. QED BY <1>2, <1>3, <1>4, <1>5, <1>6

\* The command lines.
LEMMA UserNumbered ==
  ASSUME JobInv, Numbered(tab), User \/ PstartDone
  PROVE  Numbered(tab')
<1>1. tab \in Tables /\ WhereInv  BY TableIs DEF JobInv
<1>2. ASSUME NEW p \in Slots, NEW b \in BOOLEAN, Pstart(p, b) PROVE Numbered(tab')
  <2>1. tab' = pstart(tab, p, b)  BY <1>2 DEF Pstart
  <2>. QED BY <1>1, <2>1, pstartNumbers, SameNumbered
<1>3. ASSUME NEW p \in Slots, Donotify(p) PROVE Numbered(tab')
  <2>1. tab' = SetFlags(tab, {p}, {"PNOTIFY"}, {})  BY <1>3 DEF Donotify
  <2>. QED BY <1>1, <2>1, SetFlagsNumbers, SameNumbered
<1>4. CASE PstartDone
  <2>1. tab' = tab  BY <1>1, <1>4 DEF PstartDone, WhereInv
  <2>. QED BY <2>1
<1>5. CASE DojobsStart \/ Dowait \/ EndLine \/ WaitInterrupted
           \/ \E n \in 1 .. MaxPipe, b \in BOOLEAN : StartPipeline(n, b)
  <2>1. tab' = tab  BY <1>5 DEF DojobsStart, Dowait, EndLine, WaitInterrupted, StartPipeline
  <2>. QED BY <2>1
<1>. QED BY <1>2, <1>3, <1>4, <1>5 DEF User

\* fork().
LEMMA ForkNumbered ==
  ASSUME JobInv, Numbered(tab), NEW i \in Pids, Fork(i)
  PROVE  Numbered(tab')
<1> DEFINE want  == IF tab.pcurrjob = NULL THEN i ELSE tab.jobid[tab.pcurrjob]
           joins == want = i \/ GroupExists(want)
           T0    == [tab EXCEPT !.pcurrjob = IF joins THEN @ ELSE NULL]
           T1    == palloc(T0, i, fg)
<1>1. /\ tab \in Tables /\ Shape(tab) /\ tab.pcurrjob \in LiveLeaders(tab) \cup {NULL}
      /\ tab.n < MaxProcs /\ fg \in BOOLEAN
  BY TableIs, ProcTableAssumption DEF JobInv, TypeInv, TypeOK, Fork, Tables
<1>2. tab' \in {T1, FreeFlushed(T1), pendjob(T1)}  BY DEF Fork, EnterWait
<1> HIDE DEF joins, want
<1>3. /\ T0 \in Tables /\ SameNumbers(tab, T0) /\ T0.pcurrjob \in {tab.pcurrjob, NULL}
  BY <1>1, SlotsPtr DEF Tables, SameNumbers, SameShape
<1> HIDE DEF T0
<1>4. Shape(T0) /\ LiveLeaders(T0) = LiveLeaders(tab) /\ Numbered(T0) /\ T0.n < MaxProcs
  BY <1>1, <1>3, ShapeSame, SameNumbered DEF SameNumbers, SameShape
<1>5. T1 \in Tables /\ Numbered(T1)
  <2>1. T0.pcurrjob \in LiveLeaders(T0) \cup {NULL}  BY <1>1, <1>3, <1>4
  <2>. QED BY <1>1, <1>3, <1>4, <2>1, pallocType, pallocNumbered
<1> HIDE DEF T1
<1>6. SameNumbers(T1, pendjob(T1))
  BY <1>5 DEF pendjob, SameNumbers, SameShape, Tables
<1>. QED BY <1>2, <1>5, <1>6, FreeFlushedNumbered, SameNumbered

\* No step changes the numbers of two jobs into one, or of one into two.
LEMMA NumberedNext ==
  ASSUME PlainShell, JobInv, Numbered(tab), [Next]_vars
  PROVE  Numbered(tab')
<1>1. CASE Kernel
  <2>1. tab' = tab
    BY <1>1 DEF Kernel, ChildExits, ChildStops, ChildContinues, ChildChanges
  <2>. QED BY <2>1
<1>2. CASE User  BY <1>2, UserNumbered
<1>3. CASE Shell
  <2>1. ~(\E i \in Pids : Hook(i))  BY DEF Hook, PlainShell
  <2>2. CASE HandlePending \/ PchildReturns \/ ForkError \/ WaitCheck \/ Sigsuspend
             \/ SigsuspendReturns
    <3>1. tab' = tab
      BY <2>2 DEF HandlePending, PchildReturns, ForkError, WaitCheck, Sigsuspend,
                  SigsuspendReturns
    <3>. QED BY <3>1
  <2>. QED BY <1>3, <2>1, <2>2, ShellNumbered, UserNumbered, ForkNumbered DEF Shell
<1>4. CASE \E i \in Pids : Wait3(i)  BY <1>4, Wait3Numbered
<1>5. CASE UNCHANGED vars  BY <1>5 DEF vars
<1>. QED BY <1>1, <1>2, <1>3, <1>4, <1>5 DEF Next

LEMMA NumberedInit == Init => Numbered(tab)
BY DEF Init, EmptyTable, Numbered, Listed, Proclist, Slots

-----------------------------------------------------------------------------
\* Job numbers identify jobs and are at most pmaxindex, which "jobs" counts up to,
\* in every history of jobs: with any number of them, of pids and of processes in
\* a pipeline, and any BIGINDEX.
THEOREM NumbersIdentify == ASSUME PlainShell PROVE Spec => []JobNumbers
<1>1. Numbered(tab) => JobNumbers
  BY ProclistSlots DEF Numbered, Listed, JobNumbers
<1>2. JobInv /\ Numbered(tab) /\ [Next]_vars => Numbered(tab)'  BY NumberedNext
<1>. QED BY <1>1, <1>2, NumberedInit, JobInvAlways, PTL DEF Spec
=============================================================================
