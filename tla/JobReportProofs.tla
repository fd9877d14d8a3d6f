--------------------------- MODULE JobReportProofs ---------------------------
(***************************************************************************)
(* NeverForgotten: every job that has ended is reported.  That invariant   *)
(* is about the steps of pchild(), pnote(), dojobs() and pjwait() that end *)
(* the shell's concern with a job; ReportInv says of each place where the  *)
(* shell may be what it still owes to the jobs it is about to leave.       *)
(***************************************************************************)
EXTENDS JobSafetyProofs

(* The scenario: as before, no fork fails, and pchild() does not run before *)
(* a pipeline is complete.                                                  *)
PlainForks == PlainShell /\ ~ForkFails /\ ~ForkIO

\* No process of the job runs or is stopped.
Ended(T, p) == JobFlags(T, p) \cap {"PRUNNING", "PSTOPPED"} = {}

(* The job whose processes may have PFOREGND, NULL for none.                *)
FgJob ==
  IF Waiting \/ (pc = "start" /\ fg) THEN jw
  ELSE IF pc = "fork" /\ fg THEN tab.pcurrjob ELSE NULL

\* pnote() will report p, now or at the next prompt.
Noted(p) ==
  /\ "PNEEDNOTE" \in tab.flags[p]
  /\ tab.neednote \/ (pc = "note" /\ p < loop.at)

\* Only the processes of the foreground job have PFOREGND, and none that has ended
\* has PREPORTED.
FlagsMean ==
  \A q \in Slots : Live(tab, q) =>
    /\ "PFOREGND" \in tab.flags[q] => FgJob # NULL /\ tab.job[q] = FgJob
    /\ "PREPORTED" \in tab.flags[q] =>
         "PSTOPPED" \in tab.flags[q] \/ "PRUNNING" \in tab.flags[q]

\* An ended job that the shell does not hold is noted.
AllNoted ==
  \A p \in LiveLeaders(tab) :
    Ended(tab, p) /\ p \notin {tab.pcurrjob, jw, loop.lead} => Noted(p)

\* What holds of the jobs that the shell does hold: one that it leaves behind is
\* noted before.
Owed ==
  /\ jw # NULL => Waiting \/ pc = "start"
  /\ loop.lead # NULL => pc = "jobs"
  /\ pc = "top" /\ tab.pcurrjob # NULL => ~Ended(tab, tab.pcurrjob)
  /\ pc = "start" /\ Ended(tab, jw) => "PNEEDNOTE" \in tab.flags[jw] /\ tab.neednote
  /\ pc = "jobs" /\ loop.lead # NULL /\ loop.alive /\ Ended(tab, loop.lead) =>
       "PNEEDNOTE" \in tab.flags[loop.lead] /\ tab.neednote

\* Together with JobInv, the inductive invariant.
ReportInv == FlagsMean /\ AllNoted /\ Owed

\* Ended, process by process.
LEMMA EndedIs ==
  ASSUME NEW T, NEW p
  PROVE  Ended(T, p) <=> \A q \in Ring(T, p) : "PRUNNING" \notin T.flags[q]
                                               /\ "PSTOPPED" \notin T.flags[q]
BY DEF Ended, JobFlags

\* It holds when the shell starts.
LEMMA ReportInvInit == Init => ReportInv
<1> SUFFICES ASSUME Init PROVE ReportInv  OBVIOUS
<1>1. /\ tab.procid = [p \in Slots |-> 0] /\ tab.pcurrjob = NULL
      /\ jw = NULL /\ loop.lead = NULL /\ pc = "top"
  BY DEF Init, EmptyTable, NoLoop
<1>2. LiveLeaders(tab) = {} /\ \A q \in Slots : ~Live(tab, q)
  BY <1>1 DEF LiveLeaders, Proclist, Live
<1>. QED BY <1>1, <1>2 DEF ReportInv, FlagsMean, AllNoted, Owed

(* Steps that leave alone everything the invariant is about.                *)
LEMMA ReportSame ==
  ASSUME ReportInv, UNCHANGED <<tab, pc, fg, jw, loop>>
  PROVE  ReportInv'
BY DEF ReportInv, FlagsMean, AllNoted, Owed, FgJob, Waiting, Noted, Ended, Live

(* When the jobs have not changed, nor which of them have ended.            *)
LEMMA EndedSame ==
  ASSUME NEW T, NEW U, NEW p, Ring(U, p) = Ring(T, p),
         \A q \in Ring(T, p) :
           ("PRUNNING" \in U.flags[q] \/ "PSTOPPED" \in U.flags[q]) <=>
           ("PRUNNING" \in T.flags[q] \/ "PSTOPPED" \in T.flags[q])
  PROVE  Ended(U, p) <=> Ended(T, p)
BY EndedIs

(* What pflush() leaves of the other jobs.                                  *)
LEMMA FlushedOthers ==
  ASSUME NEW T \in Tables, WellFormed(T), NEW p, Live(T, p), NEW U, U = pflush(T, p)
  PROVE  /\ \A q \in Slots : Live(U, q) =>
              Live(T, q) /\ T.job[q] # T.job[p] /\ U.flags[q] = T.flags[q]
         /\ U.job = T.job /\ U.neednote = T.neednote
         /\ \A q \in LiveLeaders(U) :
              q \in LiveLeaders(T) /\ q # T.job[p] /\ U.flags[q] = T.flags[q]
              /\ (Ended(U, q) <=> Ended(T, q))
<1>1. /\ Flushed(T, p, U) /\ LiveLeaders(U) = LiveLeaders(T) \ {T.job[p]}
      /\ \A q \in Slots : Live(U, q) <=> Live(T, q) /\ T.job[q] # T.job[p]
  BY pflushSafe
<1>2. /\ U.job = T.job /\ U.neednote = T.neednote /\ U.n = T.n
      /\ \A q \in Slots : T.job[q] # T.job[p] => U.flags[q] = T.flags[q]
  BY <1>1 DEF Flushed, Ring
<1>3. ASSUME NEW q \in LiveLeaders(U)
      PROVE  q \in LiveLeaders(T) /\ q # T.job[p] /\ U.flags[q] = T.flags[q]
             /\ (Ended(U, q) <=> Ended(T, q))
  <2>1. q \in LiveLeaders(T) /\ q # T.job[p] /\ T.job[q] = q /\ q \in Slots
    BY <1>1, <1>3, LeaderIs DEF WellFormed, Live
  <2>2. Ring(U, q) = Ring(T, q)  BY <1>2 DEF Ring
  <2>3. \A r \in Ring(T, q) : U.flags[r] = T.flags[r]
    BY <1>2, <2>1 DEF Ring
  <2>4. Ended(U, q) <=> Ended(T, q)  BY <2>2, <2>3, EndedSame
  <2>. QED BY <1>2, <2>1, <2>4
<1>. QED BY <1>1, <1>2, <1>3

-----------------------------------------------------------------------------
(* pchild(): a job that ends is flagged for pnote() or is waited for.       *)

LEMMA UnreportedIs ==
  ASSUME NEW T \in Tables, NEW pp \in Slots, NEW st \in {"PSTOPPED"} \cup ExitStates
  PROVE  /\ (\A q \in Ring(T, pp) : q # pp => "PRUNNING" \notin T.flags[q]
                                              /\ "PREPORTED" \notin T.flags[q])
              => Unreported(T, pp, st)
         /\ (\A q \in Ring(T, pp) : "PFOREGND" \notin T.flags[q])
              => "PFOREGND" \notin JobFlags(Collected(T, pp, st), pp)
<1> DEFINE C   == Collected(T, pp, st)
           del == {"PRUNNING", "PSTOPPED", "PREPORTED"} \ {st}
<1>1. /\ st \in Flags /\ st \notin {"PRUNNING", "PREPORTED", "PFOREGND"}
  BY DEF Flags, PALLSTATES, ExitStates
<1>2. /\ SameJobs(T, C) /\ C \in Tables
      /\ C.flags = [p \in Slots |-> IF p \in {pp} THEN (T.flags[p] \cup {st}) \ del
                                    ELSE T.flags[p]]
  <2> HIDE DEF del
  <2>1. C = SetFlags(T, {pp}, {st}, del)  BY DEF Collected, del
  <2>. QED BY <1>1, <2>1, SetFlagsIs
<1>3. Ring(C, pp) = Ring(T, pp)  BY <1>2, ShapeSame DEF SameJobs
<1> HIDE DEF C
<1>4. \A q \in Ring(T, pp) : q # pp => C.flags[q] = T.flags[q]
  BY <1>2, RingSlots
<1>5. /\ "PRUNNING" \notin C.flags[pp] /\ "PREPORTED" \notin C.flags[pp]
      /\ "PFOREGND" \in C.flags[pp] => "PFOREGND" \in T.flags[pp]
  BY <1>1, <1>2
<1>6. ASSUME \A q \in Ring(T, pp) : q # pp => "PRUNNING" \notin T.flags[q]
                                              /\ "PREPORTED" \notin T.flags[q]
      PROVE  Unreported(T, pp, st)
  <2>1. \A q \in Ring(T, pp) : "PRUNNING" \notin C.flags[q] /\ "PREPORTED" \notin C.flags[q]
    BY <1>4, <1>5, <1>6
  <2>. QED BY <1>3, <2>1 DEF Unreported, JobFlags, C
<1>7. ASSUME \A q \in Ring(T, pp) : "PFOREGND" \notin T.flags[q]
      PROVE  "PFOREGND" \notin JobFlags(Collected(T, pp, st), pp)
  <2>1. \A q \in Ring(T, pp) : "PFOREGND" \notin C.flags[q]
    BY <1>4, <1>5, <1>7
  <2>. QED BY <1>3, <2>1 DEF JobFlags, C
<1>. QED BY <1>6, <1>7

\* pchild(): a job that ends is flagged unless it is in the foreground, and then
\* pjwait() has it.
LEMMA Wait3Report ==
  ASSUME PlainForks, JobInv, ReportInv, NEW i \in Pids, Wait3(i)
  PROVE  ReportInv'
<1> DEFINE pp == Greatest(WithPid(tab, i))
           st == news[i]
           U  == pchild(tab, pp, st)
           V  == Unforegrounded(tab, pp, st)
<1>1. /\ tab \in Tables /\ st \in {"PSTOPPED"} \cup ExitStates
      /\ WellFormed(tab) /\ WhereInv
  BY DEF JobInv, TypeInv, TypeOK, Wait3, Reap
<1>2. pc \in {"note", "cmd", "wait", "jobs"}
  BY <1>1 DEF Wait3, Reap, WhereInv, SignalPoints, PlainForks
<1>3. pp # NULL => Live(tab, pp)
  <2>1. pp \in WithPid(tab, i) \cup {0}  BY DEF Greatest
  <2>. QED BY <2>1, ProcTableAssumption DEF WithPid, Proclist, Live, NULL
<1>4. CASE pp = NULL
  <2>1. UNCHANGED <<tab, pc, fg, jw, loop>>  BY <1>4 DEF Wait3, control
  <2>. QED BY <2>1, ReportSame
<1>5. CASE pp # NULL
  <2> HIDE DEF pp, st
  <2>1. Live(tab, pp) /\ WalkEnds(tab, pp) /\ pp \in Slots
    BY <1>1, <1>3, <1>5, LiveRing DEF WellFormed, Live
  <2>2. tab' = U /\ UNCHANGED <<pc, fg, jw, loop>>
    BY <1>5, <2>1 DEF Wait3, pp, st, control
  <2>3. /\ U \in Tables /\ SameJobs(tab, U)
        /\ U.neednote = (tab.neednote \/ Flagged(tab, pp, st))
        /\ \A q \in Slots, f \in Flags \ {"PREPORTED", "PNEEDNOTE"} :
              f \in U.flags[q] <=> f \in V.flags[q]
        /\ \A q \in Slots : "PNEEDNOTE" \in U.flags[q] <=>
              "PNEEDNOTE" \in tab.flags[q] \/ (Flagged(tab, pp, st) /\ q = tab.job[pp])
        /\ \A q \in Slots : "PREPORTED" \in U.flags[q] <=>
              \/ "PREPORTED" \in V.flags[q]
              \/ Unreported(tab, pp, st) /\ q \in Ring(tab, pp) /\ "PSTOPPED" \in V.flags[q]
    BY <1>1, <2>1, pchildSafe DEF PlainForks, PlainShell
  <2>4. /\ \A q \in Slots : q # pp => V.flags[q] = tab.flags[q]
        /\ \A f \in Flags : f \in V.flags[pp] <=>
              \/ f = st
              \/ f \in tab.flags[pp] /\ f \notin {"PRUNNING", "PSTOPPED", "PREPORTED", "PFOREGND"}
    BY <1>1, <2>1, CollectedIs
  <2> HIDE DEF U, V
  <2>5. /\ LiveLeaders(U) = LiveLeaders(tab) /\ (\A p : Ring(U, p) = Ring(tab, p))
        /\ U.pcurrjob = tab.pcurrjob /\ U.job = tab.job
        /\ \A p : Live(U, p) <=> Live(tab, p)
    BY <1>1, <2>3, ShapeSame DEF SameJobs, SameShape
  <2>6. /\ {"PRUNNING", "PFOREGND", "PSTOPPED"} \subseteq Flags \ {"PREPORTED", "PNEEDNOTE"}
        /\ st \notin {"PRUNNING", "PFOREGND", "PREPORTED", "PNEEDNOTE"}
        /\ "PREPORTED" \in Flags
    BY <1>1 DEF Flags, PALLSTATES, ExitStates
  <2>7. FgJob' = FgJob  BY <2>2, <2>5, <1>2 DEF FgJob, Waiting
  <2>8. FlagsMean'
    <3> SUFFICES ASSUME NEW q \in Slots, Live(U, q)
        PROVE /\ "PFOREGND" \in U.flags[q] => FgJob # NULL /\ U.job[q] = FgJob
              /\ "PREPORTED" \in U.flags[q] =>
                   "PSTOPPED" \in U.flags[q] \/ "PRUNNING" \in U.flags[q]
      BY <2>2, <2>7 DEF FlagsMean
    <3>1. "PFOREGND" \in U.flags[q] => "PFOREGND" \in tab.flags[q]
      BY <2>1, <2>3, <2>4, <2>6
    <3>2. "PREPORTED" \in U.flags[q] =>
              ("PREPORTED" \in tab.flags[q] /\ q # pp) \/ "PSTOPPED" \in U.flags[q]
      BY <2>1, <2>3, <2>4, <2>6
    <3>3. q # pp => ("PSTOPPED" \in U.flags[q] <=> "PSTOPPED" \in tab.flags[q])
                    /\ ("PRUNNING" \in U.flags[q] <=> "PRUNNING" \in tab.flags[q])
      BY <2>1, <2>3, <2>4, <2>6
    <3>. QED BY <2>5, <3>1, <3>2, <3>3 DEF ReportInv, FlagsMean
  \* A job without an event is as it was.
  <2>9. ASSUME NEW p \in LiveLeaders(tab), p # tab.job[pp]
        PROVE  Ended(U, p) <=> Ended(tab, p)
    <3>1. pp \notin Ring(tab, p)
      BY <1>1, <2>9, LeaderIs DEF Ring, WellFormed
    <3>2. \A q \in Ring(tab, p) :
            ("PSTOPPED" \in U.flags[q] <=> "PSTOPPED" \in tab.flags[q])
            /\ ("PRUNNING" \in U.flags[q] <=> "PRUNNING" \in tab.flags[q])
      BY <2>3, <2>4, <2>6, <3>1, RingSlots
    <3>. QED BY <2>5, <3>2, EndedSame
  \* The one with the event has been flagged when it has ended.
  <2>10. ASSUME Ended(U, tab.job[pp]), FgJob # tab.job[pp] \/ FgJob = NULL
         PROVE  Flagged(tab, pp, st)
    <3>1. Ring(tab, pp) = Ring(tab, tab.job[pp])
      BY <1>1, <2>1, LiveRing DEF Ring, WellFormed
    <3>2. \A q \in Ring(tab, pp) : q # pp =>
             "PRUNNING" \notin tab.flags[q] /\ "PSTOPPED" \notin tab.flags[q]
      <4>1. \A q \in Ring(tab, pp) : "PRUNNING" \notin U.flags[q] /\ "PSTOPPED" \notin U.flags[q]
        BY <2>5, <2>10, <3>1, EndedIs
      <4>. QED BY <2>3, <2>4, <2>6, <4>1, RingSlots
    <3>3. \A q \in Ring(tab, pp) : Live(tab, q) /\ tab.job[q] = tab.job[pp]
      <4>1. tab.procid[tab.job[pp]] # 0 /\ Shape(tab)
        BY <1>1, <2>1, LiveRing DEF WellFormed, LiveLeaders
      <4>. QED BY <4>1 DEF Ring, Live, Shape
    <3>4. \A q \in Ring(tab, pp) : q # pp => "PREPORTED" \notin tab.flags[q]
      BY <3>2, <3>3, RingSlots DEF ReportInv, FlagsMean
    <3>5. \A q \in Ring(tab, pp) : "PFOREGND" \notin tab.flags[q]
      BY <2>10, <3>3, RingSlots DEF ReportInv, FlagsMean
    <3>. QED BY <1>1, <2>1, <3>2, <3>4, <3>5, UnreportedIs DEF Flagged
  <2>11. \A q \in Slots : "PNEEDNOTE" \in tab.flags[q] => "PNEEDNOTE" \in U.flags[q]
    BY <2>3
  <2>12. tab.neednote => U.neednote  BY <2>3
  <2>13. Flagged(tab, pp, st) => U.neednote /\ "PNEEDNOTE" \in U.flags[tab.job[pp]]
    BY <1>1, <2>1, <2>3, LiveRing, LeaderIs DEF WellFormed, Live
  <2>14. AllNoted'
    <3> SUFFICES ASSUME NEW p \in LiveLeaders(tab), Ended(U, p),
                        p \notin {tab.pcurrjob, jw, loop.lead}
        PROVE /\ "PNEEDNOTE" \in U.flags[p]
              /\ U.neednote \/ (pc = "note" /\ p < loop.at)
      BY <2>2, <2>5 DEF AllNoted, Noted
    <3>1. p \in Slots  BY DEF LiveLeaders, Proclist
    <3>2. CASE p = tab.job[pp]
      <4>1. FgJob # p \/ FgJob = NULL  BY <1>2 DEF FgJob, Waiting
      <4>. QED BY <2>10, <2>13, <3>2, <4>1
    <3>3. CASE p # tab.job[pp]
      <4>1. Noted(p)  BY <2>9, <3>3 DEF ReportInv, AllNoted
      <4>. QED BY <2>11, <2>12, <3>1, <4>1 DEF Noted
    <3>. QED BY <3>2, <3>3
  <2>15. Owed'
    <3>1. pc \notin {"top", "start"} /\ pc' \notin {"top", "start"}  BY <1>2, <2>2
    <3>2. ASSUME pc = "jobs", loop.lead # NULL, loop.alive, Ended(U, loop.lead)
          PROVE  "PNEEDNOTE" \in U.flags[loop.lead] /\ U.neednote
      <4>1. loop.lead \in LiveLeaders(tab) /\ loop.lead \in Slots
        BY <1>1, <3>2 DEF WhereInv, LiveLeaders, Proclist
      <4>2. CASE loop.lead = tab.job[pp]
        <5>1. FgJob = NULL  BY <3>2 DEF FgJob, Waiting
        <5>. QED BY <2>10, <2>13, <3>2, <4>2, <5>1
      <4>3. CASE loop.lead # tab.job[pp]
        <5>1. "PNEEDNOTE" \in tab.flags[loop.lead] /\ tab.neednote
          BY <2>9, <3>2, <4>1, <4>3 DEF ReportInv, Owed
        <5>. QED BY <2>11, <2>12, <4>1, <5>1
      <4>. QED BY <4>2, <4>3
    <3>. QED BY <2>2, <3>1, <3>2 DEF ReportInv, Owed, Waiting
  <2>. QED BY <2>8, <2>14, <2>15 DEF ReportInv
<1>. QED BY <1>4, <1>5

-----------------------------------------------------------------------------
(* The steps of the shell.                                                  *)

LEMMA TopReport ==
  ASSUME JobInv, ReportInv, Top
  PROVE  ReportInv'
<1>1. /\ tab \in Tables /\ WellFormed(tab) /\ WhereInv /\ pc = "top"
      /\ jw = NULL /\ loop.lead = NULL /\ FgJob = NULL
  BY DEF JobInv, TypeInv, TypeOK, Top, ReportInv, Owed, FgJob, Waiting
<1>2. PendjobWalks(tab) => WalkEnds(tab, tab.pcurrjob)
  BY <1>1, LeaderIs, LiveRing DEF PendjobWalks, WhereInv, WellFormed
<1>3. /\ tab' = [pendjob(tab) EXCEPT !.neednote = FALSE]
      /\ pc' = (IF tab.neednote THEN "note" ELSE "cmd")
      /\ loop' = (IF tab.neednote THEN [NoLoop EXCEPT !.at = MaxProcs + 1] ELSE NoLoop)
      /\ UNCHANGED <<fg, jw>>
  BY <1>2 DEF Top
<1>4. /\ SameShape(tab, tab') /\ tab'.flags = tab.flags /\ tab'.pcurrjob = NULL
  BY <1>1, <1>3 DEF pendjob, SameShape, Tables
<1>5. /\ LiveLeaders(tab') = LiveLeaders(tab) /\ (\A p : Ring(tab', p) = Ring(tab, p))
      /\ \A p : Live(tab', p) <=> Live(tab, p)
      /\ tab'.job = tab.job
  BY <1>1, <1>4, ShapeSame DEF SameShape
<1>6. loop'.lead = NULL /\ (pc' = "note" => loop'.at = MaxProcs + 1)
  BY <1>3 DEF NoLoop
<1>7. FlagsMean'
  BY <1>1, <1>4, <1>5 DEF ReportInv, FlagsMean
<1>8. AllNoted'
  <2> SUFFICES ASSUME NEW p \in LiveLeaders(tab), Ended(tab', p)
      PROVE  "PNEEDNOTE" \in tab.flags[p] /\ pc' = "note" /\ p < loop'.at
    BY <1>4, <1>5 DEF AllNoted, Noted
  <2>1. Ended(tab, p)  BY <1>4, <1>5, EndedSame
  <2>2. p # tab.pcurrjob /\ p # NULL /\ p \in Slots
    BY <1>1, <2>1, SlotsPtr DEF ReportInv, Owed, LiveLeaders, Proclist
  <2>3. Noted(p)  BY <1>1, <2>1, <2>2 DEF ReportInv, AllNoted
  <2>4. p < MaxProcs + 1  BY <2>2, ProcTableAssumption DEF Slots
  <2>. QED BY <1>1, <1>3, <1>6, <2>3, <2>4 DEF Noted
<1>9. Owed'  BY <1>1, <1>3, <1>4, <1>6 DEF Owed
<1>. QED BY <1>7, <1>8, <1>9 DEF ReportInv

\* pnote() clears PNEEDNOTE of a job and, if it has ended, flushes it.
LEMMA PnoteReport ==
  ASSUME JobInv, ReportInv, Pnote
  PROVE  ReportInv'
<1> DEFINE pp == Greatest(ToNote)
           T1 == SetFlags(tab, {pp}, {}, {"PNEEDNOTE"})
<1>1. /\ tab \in Tables /\ WellFormed(tab) /\ WhereInv /\ pc = "note"
      /\ tab.pcurrjob = NULL /\ jw = NULL /\ loop.lead = NULL /\ FgJob = NULL
  BY DEF JobInv, TypeInv, TypeOK, Pnote, WhereInv, ReportInv, Owed, FgJob, Waiting
<1>2. ToNote \subseteq Slots  BY DEF ToNote, Proclist
<1>3. \A p \in LiveLeaders(tab) :
        "PNEEDNOTE" \in tab.flags[p] /\ p < loop.at => p \in ToNote
  BY DEF ToNote, LiveLeaders
<1>4. CASE pp = NULL
  <2>1. pc' = "cmd" /\ loop' = NoLoop /\ UNCHANGED <<tab, fg, jw>>  BY <1>4 DEF Pnote
  <2>2. ToNote = {}  BY <1>2, <1>4, GreatestIs, SlotsPtr
  <2>3. AllNoted'
    BY <1>1, <1>3, <2>1, <2>2 DEF ReportInv, AllNoted, Noted, NoLoop
  <2>4. FlagsMean'  BY <1>1, <2>1 DEF ReportInv, FlagsMean
  <2>5. Owed'  BY <1>1, <2>1 DEF Owed, NoLoop
  <2>. QED BY <2>3, <2>4, <2>5 DEF ReportInv
<1>5. CASE pp # NULL
  <2>1. pp \in ToNote /\ \A q \in ToNote : q <= pp
    <3>1. ToNote # {}  BY <1>5 DEF Greatest, NULL
    <3>. QED BY <1>2, <3>1, GreatestIs
  <2> HIDE DEF pp
  <2>2. Live(tab, pp) /\ WalkEnds(tab, pp)
    BY <1>1, <1>2, <2>1, LiveRing DEF ToNote, Live, WellFormed, FlagsOK
  <2>3. /\ tab' = (IF JobFlags(T1, pp) \cap {"PRUNNING", "PSTOPPED"} = {}
                   THEN pflush(T1, pp) ELSE T1)
        /\ loop' = [loop EXCEPT !.at = pp] /\ UNCHANGED <<pc, fg, jw>>
    BY <1>5, <2>2 DEF Pnote, pp
  <2>4. /\ T1 \in Tables /\ SameJobs(tab, T1) /\ SameCurr(tab, T1)
        /\ T1.neednote = tab.neednote
        /\ T1.flags = [p \in Slots |-> IF p \in {pp} THEN (tab.flags[p] \cup {}) \ {"PNEEDNOTE"}
                                       ELSE tab.flags[p]]
    BY <1>1, SetFlagsIs
  <2> HIDE DEF T1
  <2>5. /\ WellFormed(T1) /\ Live(T1, pp) /\ T1.job = tab.job
        /\ LiveLeaders(T1) = LiveLeaders(tab) /\ (\A p : Ring(T1, p) = Ring(tab, p))
        /\ \A p : Live(T1, p) <=> Live(tab, p)
    <3>1. FlagsOK(T1)
      BY <1>1, <2>4 DEF FlagsOK, WellFormed, SameJobs, SameShape
    <3>. QED BY <1>1, <2>2, <2>4, <3>1, WellFormedSame, ShapeSame DEF SameJobs, SameShape
  <2>6. \A q \in Slots : \A f : f # "PNEEDNOTE" => (f \in T1.flags[q] <=> f \in tab.flags[q])
    BY <2>4
  <2>7. ASSUME NEW p PROVE Ended(T1, p) <=> Ended(tab, p)
    <3>1. Ring(T1, p) = Ring(tab, p)  BY <2>5
    <3>2. \A q \in Ring(tab, p) :
            ("PRUNNING" \in T1.flags[q] \/ "PSTOPPED" \in T1.flags[q]) <=>
            ("PRUNNING" \in tab.flags[q] \/ "PSTOPPED" \in tab.flags[q])
      BY <2>6, RingSlots
    <3>. QED BY <3>1, <3>2, EndedSame
  <2>8. T1 \in Tables /\ WellFormed(T1) /\ Live(T1, pp)  BY <2>4, <2>5
  <2>9. /\ \A q \in Slots : Live(tab', q) => Live(T1, q) /\ tab'.flags[q] = T1.flags[q]
        /\ tab'.job = T1.job /\ tab'.neednote = T1.neednote
        /\ \A q \in LiveLeaders(tab') :
             Ended(tab', q) =>
               /\ q \in LiveLeaders(T1) /\ q # pp
               /\ tab'.flags[q] = T1.flags[q] /\ Ended(T1, q)
    <3>1. CASE Ended(T1, pp)
      <4>1. tab' = pflush(T1, pp)  BY <2>3, <3>1 DEF Ended
      <4>2. /\ \A q \in Slots : Live(tab', q) =>
                  Live(T1, q) /\ T1.job[q] # T1.job[pp] /\ tab'.flags[q] = T1.flags[q]
            /\ tab'.job = T1.job /\ tab'.neednote = T1.neednote
            /\ \A q \in LiveLeaders(tab') :
                  q \in LiveLeaders(T1) /\ q # T1.job[pp] /\ tab'.flags[q] = T1.flags[q]
                  /\ (Ended(tab', q) <=> Ended(T1, q))
        BY <2>8, <4>1, FlushedOthers
      <4>3. \A q \in LiveLeaders(T1) : T1.job[q] = q
        BY <2>8, LeaderIs DEF WellFormed
      <4>. QED BY <4>2, <4>3
    <3>2. CASE ~Ended(T1, pp)
      <4>1. tab' = T1  BY <2>3, <3>2 DEF Ended
      <4>. QED BY <3>2, <4>1
    <3>. QED BY <3>1, <3>2
  <2>10. tab'.neednote = tab.neednote  BY <2>4, <2>9
  <2>11. loop'.lead = NULL /\ loop'.at = pp  BY <1>1, <2>3 DEF JobInv, TypeInv, TypeOK
  <2>12. FlagsMean'
    <3>1. FgJob' = NULL  BY <1>1, <2>3 DEF FgJob, Waiting
    <3>2. \A q \in Slots : Live(tab', q) => Live(tab, q)
      BY <2>5, <2>9
    <3>3. \A q \in Slots : Live(tab', q) =>
            \A f : f # "PNEEDNOTE" => (f \in tab'.flags[q] <=> f \in tab.flags[q])
      BY <2>6, <2>9
    <3>. QED BY <1>1, <3>1, <3>2, <3>3 DEF ReportInv, FlagsMean
  <2>13. AllNoted'
    <3> SUFFICES ASSUME NEW p \in LiveLeaders(tab'), Ended(tab', p)
        PROVE  "PNEEDNOTE" \in tab'.flags[p] /\ (tab'.neednote \/ p < pp)
      BY <1>1, <2>3, <2>11 DEF AllNoted, Noted
    <3>1. p \in LiveLeaders(tab) /\ Ended(tab, p) /\ p # pp /\ p \in Slots
      <4>1. p \in LiveLeaders(T1) /\ p # pp /\ Ended(T1, p)  BY <2>9
      <4>. QED BY <2>5, <2>7, <4>1 DEF LiveLeaders, Proclist
    <3>2. p # NULL  BY <3>1, SlotsPtr
    <3>3. Noted(p)  BY <1>1, <3>1, <3>2 DEF ReportInv, AllNoted
    <3>4. "PNEEDNOTE" \in tab'.flags[p]  BY <2>4, <2>9, <3>1, <3>3 DEF Noted
    <3>5. p < loop.at => p < pp
      <4>1. p < loop.at => p <= pp  BY <1>3, <2>1, <3>1, <3>3 DEF Noted
      <4>2. p \in Nat /\ pp \in Nat  BY <1>2, <2>1, <3>1 DEF Slots
      <4>. QED BY <3>1, <4>1, <4>2
    <3>. QED BY <2>10, <3>3, <3>4, <3>5 DEF Noted
  <2>14. Owed'  BY <1>1, <2>3, <2>11 DEF Owed
  <2>. QED BY <2>12, <2>13, <2>14 DEF ReportInv
<1>. QED BY <1>4, <1>5

\* The command lines that start nothing.
LEMMA LineReport ==
  ASSUME JobInv, ReportInv,
         EndLine \/ DojobsStart \/ Dowait
         \/ \E n \in 1 .. MaxPipe, b \in BOOLEAN : StartPipeline(n, b)
  PROVE  ReportInv'
<1>1. /\ tab' = tab /\ pc = "cmd" /\ tab.pcurrjob = NULL /\ jw = NULL /\ loop.lead = NULL
      /\ FgJob = NULL /\ jw' = NULL
      /\ \/ pc' \in {"top", "fork", "wait"} /\ loop' = loop
         \/ pc' = "jobs" /\ loop'.lead = NULL
  BY DEF EndLine, DojobsStart, Dowait, StartPipeline, NoLoop, JobInv, WhereInv, Waiting,
         ReportInv, Owed, FgJob
<1>2. FlagsMean'  BY <1>1 DEF ReportInv, FlagsMean
<1>3. AllNoted'  BY <1>1 DEF ReportInv, AllNoted, Noted, Ended
<1>4. Owed'  BY <1>1 DEF Owed
<1>. QED BY <1>2, <1>3, <1>4 DEF ReportInv

\* pjwait() and dowait() between two looks at the job.
LEMMA WaitingReport ==
  ASSUME JobInv, ReportInv, WaitCheck \/ Sigsuspend \/ SigsuspendReturns \/ WaitInterrupted
  PROVE  ReportInv'
<1>1. /\ UNCHANGED <<tab, jw, loop, fg>> /\ Waiting /\ FgJob = jw /\ loop.lead = NULL
      /\ \/ pc' \in {"wait", "pre", "susp"}
         \/ pc' = "top" /\ jw = NULL /\ tab.pcurrjob = NULL
  BY DEF WaitCheck, Sigsuspend, SigsuspendReturns, WaitInterrupted, Waiting, FgJob,
         ReportInv, Owed, JobInv, WhereInv
<1>2. FgJob' = FgJob \/ (FgJob = NULL)
  BY <1>1 DEF FgJob, Waiting
<1>3. FlagsMean'  BY <1>1, <1>2 DEF ReportInv, FlagsMean
<1>4. AllNoted'  BY <1>1 DEF ReportInv, AllNoted, Noted, Ended, Waiting
<1>5. Owed'  BY <1>1 DEF Owed, Waiting
<1>. QED BY <1>3, <1>4, <1>5 DEF ReportInv

\* pjwait() leaves a job that has ended only by flushing it.
LEMMA WaitEndsReport ==
  ASSUME JobInv, ReportInv, WaitEnds
  PROVE  ReportInv'
<1>1. /\ tab \in Tables /\ WellFormed(tab) /\ WhereInv /\ pc = "wait" /\ Waiting
      /\ hook = NoHook /\ FgJob = jw /\ loop.lead = NULL /\ tab.pcurrjob \in {NULL, jw}
  BY DEF JobInv, TypeInv, TypeOK, WaitEnds, WhereInv, Waiting, FgJob, ReportInv, Owed
<1>2. CASE jw = NULL
  <2>1. pc' = "cmd" /\ UNCHANGED <<tab, fg, jw, loop>>  BY <1>2 DEF WaitEnds
  <2>2. FlagsMean'  BY <1>1, <1>2, <2>1 DEF ReportInv, FlagsMean
  <2>3. AllNoted'  BY <1>1, <2>1 DEF ReportInv, AllNoted, Noted, Ended
  <2>4. Owed'  BY <1>1, <1>2, <2>1 DEF Owed
  <2>. QED BY <2>2, <2>3, <2>4 DEF ReportInv
<1>3. CASE jw # NULL
  <2>1. jw \in LiveLeaders(tab) /\ Live(tab, jw) /\ tab.job[jw] = jw /\ WalkEnds(tab, jw)
    BY <1>1, <1>3, LeaderIs, LiveRing DEF WhereInv, WellFormed
  <2>2. ~PjwaitHangs  BY <2>1 DEF PjwaitHangs
  <2>3. /\ tab' = AfterPjwait(tab) /\ pc' = AfterPjwaitPc(tab) /\ jw' = NULL
        /\ UNCHANGED <<loop, fg>>
    BY <1>1, <1>3, <2>2 DEF WaitEnds
  <2>4. "PRUNNING" \notin JobFlags(tab, jw)  BY <1>3 DEF WaitEnds, StillRunning
  <2>5. pc' \in {"top", "cmd"}  BY <2>3 DEF AfterPjwaitPc
  <2>6. FgJob' = NULL  BY <2>5 DEF FgJob, Waiting
  <2>7. \A q \in Slots : Live(tab, q) => "PFOREGND" \notin tab.flags[q]
    <3> SUFFICES ASSUME NEW q \in Slots, Live(tab, q), "PFOREGND" \in tab.flags[q]
                 PROVE  FALSE
      OBVIOUS
    <3>1. tab.job[q] = jw  BY <1>1 DEF ReportInv, FlagsMean
    <3>2. q \in Ring(tab, jw)  BY <1>1, <2>1, <3>1, LiveRing DEF Ring, WellFormed
    <3>3. "PRUNNING" \in tab.flags[q]  BY <1>1 DEF WellFormed, FlagsOK
    <3>. QED BY <2>4, <3>2, <3>3 DEF JobFlags
  <2>8. CASE "PSTOPPED" \in JobFlags(tab, jw)
    <3>1. tab' = tab /\ pc' = "top"  BY <2>3, <2>8 DEF AfterPjwait, AfterPjwaitPc
    <3>2. ~Ended(tab, jw)  BY <2>8 DEF Ended
    <3>3. FlagsMean'  BY <2>7, <3>1 DEF ReportInv, FlagsMean
    <3>4. AllNoted'
      BY <1>1, <2>3, <3>1, <3>2 DEF ReportInv, AllNoted, Noted, Ended
    <3>5. Owed'  BY <1>1, <2>3, <3>1, <3>2 DEF Owed, Ended
    <3>. QED BY <3>3, <3>4, <3>5 DEF ReportInv
  <2>9. CASE "PSTOPPED" \notin JobFlags(tab, jw)
    <3>1. tab' = pflush(tab, jw)  BY <2>1, <2>3, <2>9 DEF AfterPjwait, Live
    <3>2. /\ \A q \in Slots : Live(tab', q) => Live(tab, q) /\ tab'.flags[q] = tab.flags[q]
          /\ tab'.job = tab.job /\ tab'.neednote = tab.neednote
          /\ \A q \in LiveLeaders(tab') :
               q \in LiveLeaders(tab) /\ q # jw /\ tab'.flags[q] = tab.flags[q]
               /\ (Ended(tab', q) <=> Ended(tab, q))
      BY <1>1, <2>1, <3>1, FlushedOthers
    <3>3. Flushed(tab, jw, tab')  BY <1>1, <2>1, <3>1, pflushSafe
    <3>4. tab'.pcurrjob = NULL  BY <1>1, <2>1, <3>3 DEF Flushed
    <3>5. FlagsMean'  BY <2>7, <3>2 DEF ReportInv, FlagsMean
    <3>6. AllNoted'
      BY <1>1, <2>3, <3>2 DEF ReportInv, AllNoted, Noted
    <3>7. Owed'  BY <1>1, <2>3, <2>5, <3>4 DEF Owed
    <3>. QED BY <3>5, <3>6, <3>7 DEF ReportInv
  <2>. QED BY <2>8, <2>9
<1>. QED BY <1>2, <1>3

\* fg, bg and %n up to pstart().
LEMMA PstartReport ==
  ASSUME PlainForks, JobInv, ReportInv, NEW pp \in Slots, NEW b \in BOOLEAN, Pstart(pp, b)
  PROVE  ReportInv'
<1>1. /\ tab \in Tables /\ WellFormed(tab) /\ WhereInv /\ pc = "cmd" /\ tab.pcurrjob = NULL
      /\ jw = NULL /\ loop.lead = NULL /\ FgJob = NULL
      /\ pp \in LiveLeaders(tab)
  BY PfindLive DEF JobInv, TypeInv, TypeOK, Pstart, WhereInv, ReportInv, Owed, FgJob, Waiting
<1>2. WalkEnds(tab, pp) /\ tab.job[pp] = pp
  BY <1>1, LeaderIs, LiveRing DEF WellFormed
<1>3. /\ tab' = pstart(tab, pp, b) /\ fg' = b /\ jw' = pp
      /\ pc' = "start" /\ UNCHANGED loop
  BY <1>2 DEF Pstart
<1>4. /\ SameJobs(tab, tab') /\ tab'.neednote = tab.neednote
      /\ tab'.flags = [q \in Slots |->
              IF q \in Ring(tab, pp) /\ tab.flags[q] \cap {"PRUNNING", "PSTOPPED"} # {}
              THEN (tab.flags[q] \cup ({"PRUNNING"} \cup (IF b THEN {"PFOREGND"} ELSE {})))
                    \ ({"PSTOPPED"} \cup (IF b THEN {} ELSE {"PFOREGND"}))
              ELSE tab.flags[q]]
  BY <1>1, <1>3, pstartSafe
<1>5. /\ LiveLeaders(tab') = LiveLeaders(tab) /\ (\A p : Ring(tab', p) = Ring(tab, p))
      /\ \A p : Live(tab', p) <=> Live(tab, p)
      /\ tab'.job = tab.job /\ tab'.pcurrjob = NULL
  BY <1>1, <1>4, ShapeSame DEF SameJobs, SameShape
<1>6. \A q \in Slots :
        /\ ("PRUNNING" \in tab'.flags[q] \/ "PSTOPPED" \in tab'.flags[q]) <=>
           ("PRUNNING" \in tab.flags[q] \/ "PSTOPPED" \in tab.flags[q])
        /\ "PNEEDNOTE" \in tab'.flags[q] <=> "PNEEDNOTE" \in tab.flags[q]
        /\ "PREPORTED" \in tab'.flags[q] <=> "PREPORTED" \in tab.flags[q]
        /\ "PFOREGND" \in tab'.flags[q] =>
             "PFOREGND" \in tab.flags[q] \/ (b /\ q \in Ring(tab, pp))
  BY <1>4
<1>7. ASSUME NEW p PROVE Ended(tab', p) <=> Ended(tab, p)
  BY <1>5, <1>6, EndedSame, RingSlots
<1>8. FlagsMean'
  <2>1. \A q \in Ring(tab, pp) : tab.job[q] = pp  BY <1>2 DEF Ring
  <2>2. b => FgJob' = pp  BY <1>3 DEF FgJob, Waiting
  <2>3. pp # NULL  BY SlotsPtr
  <2>. QED BY <1>1, <1>5, <1>6, <2>1, <2>2, <2>3 DEF ReportInv, FlagsMean
<1>9. ASSUME NEW p \in LiveLeaders(tab), Ended(tab', p)
      PROVE  "PNEEDNOTE" \in tab'.flags[p] /\ tab'.neednote
  <2>1. Ended(tab, p) /\ p \in Slots /\ p # NULL
    BY <1>7, <1>9, SlotsPtr DEF LiveLeaders, Proclist
  <2>2. Noted(p)  BY <1>1, <2>1 DEF ReportInv, AllNoted
  <2>. QED BY <1>1, <1>4, <1>6, <2>1, <2>2 DEF Noted
<1>10. AllNoted'  BY <1>5, <1>9 DEF AllNoted, Noted
<1>11. Owed'  BY <1>1, <1>3, <1>9 DEF Owed
<1>. QED BY <1>8, <1>10, <1>11 DEF ReportInv

\* fg, bg and %n after pstart().
LEMMA PstartDoneReport ==
  ASSUME JobInv, ReportInv, PstartDone
  PROVE  ReportInv'
<1>1. /\ WhereInv /\ tab.pcurrjob = NULL /\ pc = "start" /\ GroupExists(tab.jobid[jw])
      /\ jw \in LiveLeaders(tab) /\ loop.lead = NULL
  BY DEF JobInv, PstartDone, WhereInv, ReportInv, Owed
<1>2. /\ pc' = (IF fg THEN "wait" ELSE "cmd") /\ jw' = (IF fg THEN jw ELSE NULL)
      /\ UNCHANGED <<tab, loop>> /\ fg' = FALSE
  BY <1>1 DEF PstartDone
<1>3. FgJob' = FgJob  BY <1>1, <1>2 DEF FgJob, Waiting
<1>4. FlagsMean'  BY <1>2, <1>3 DEF ReportInv, FlagsMean
<1>5. AllNoted'
  BY <1>1, <1>2 DEF ReportInv, AllNoted, Owed, Noted, Ended
<1>6. Owed'  BY <1>1, <1>2 DEF Owed, Waiting
<1>. QED BY <1>4, <1>5, <1>6 DEF ReportInv

\* jobs picks the next job number.
LEMMA DojobsPickReport ==
  ASSUME JobInv, ReportInv, DojobsPick
  PROVE  ReportInv'
<1> DEFINE leaders == {p \in Proclist(tab) : tab.index[p] = loop.i
                                             /\ tab.procid[p] = tab.jobid[p]}
           pp == Greatest(leaders)
<1>1. /\ tab \in Tables /\ WellFormed(tab) /\ WhereInv /\ tab.pcurrjob = NULL /\ pc = "jobs"
      /\ loop.lead = NULL /\ jw = NULL /\ FgJob = NULL /\ UNCHANGED <<fg, jw>>
  BY DEF JobInv, TypeInv, TypeOK, DojobsPick, WhereInv, ReportInv, Owed, FgJob, Waiting
<1>2. CASE loop.i > tab.pmaxindex
  <2>1. pc' = "cmd" /\ UNCHANGED tab /\ loop' = NoLoop  BY <1>2 DEF DojobsPick
  <2>2. FlagsMean'  BY <1>1, <2>1 DEF ReportInv, FlagsMean
  <2>3. AllNoted'  BY <1>1, <2>1 DEF ReportInv, AllNoted, Noted, Ended, NoLoop
  <2>4. Owed'  BY <1>1, <2>1 DEF Owed, NoLoop
  <2>. QED BY <2>2, <2>3, <2>4 DEF ReportInv
<1>3. CASE ~(loop.i > tab.pmaxindex) /\ pp = NULL
  <2>1. loop' = [loop EXCEPT !.i = @ + 1] /\ UNCHANGED <<tab, pc>>
    BY <1>3 DEF DojobsPick
  <2>2. loop'.lead = NULL
    BY <1>1, <2>1 DEF JobInv, TypeInv, TypeOK
  <2>3. FlagsMean'  BY <1>1, <2>1 DEF ReportInv, FlagsMean
  <2>4. AllNoted'  BY <1>1, <2>1, <2>2 DEF ReportInv, AllNoted, Noted, Ended
  <2>5. Owed'  BY <1>1, <2>1, <2>2 DEF Owed
  <2>. QED BY <2>3, <2>4, <2>5 DEF ReportInv
<1>4. CASE ~(loop.i > tab.pmaxindex) /\ pp # NULL
  <2>1. /\ tab' = SetFlags(tab, {pp}, {}, {"PNEEDNOTE"})
        /\ loop' = [loop EXCEPT !.at = pp, !.lead = pp, !.alive = Alive(tab, pp)]
        /\ UNCHANGED pc
    BY <1>4 DEF DojobsPick
  <2>2. pp \in Slots
    <3>1. pp \in leaders  BY <1>4 DEF Greatest, NULL
    <3>. QED BY <3>1 DEF Proclist
  <2> HIDE DEF pp
  <2>3. /\ SameJobs(tab, tab') /\ tab'.neednote = tab.neednote
        /\ tab'.flags = [p \in Slots |-> IF p \in {pp} THEN (tab.flags[p] \cup {}) \ {"PNEEDNOTE"}
                                         ELSE tab.flags[p]]
    BY <1>1, <2>1, SetFlagsIs
  <2>4. /\ LiveLeaders(tab') = LiveLeaders(tab) /\ tab'.pcurrjob = NULL /\ tab'.job = tab.job
        /\ \A p : Ring(tab', p) = Ring(tab, p)
        /\ \A p : Live(tab', p) <=> Live(tab, p)
    BY <1>1, <2>3, ShapeSame DEF SameJobs, SameShape
  <2>5. \A q \in Slots : \A f : f # "PNEEDNOTE" \/ q # pp =>
          (f \in tab'.flags[q] <=> f \in tab.flags[q])
    BY <2>3
  <2>6. ASSUME NEW p PROVE Ended(tab', p) <=> Ended(tab, p)
    <3>1. \A q \in Ring(tab, p) :
            ("PRUNNING" \in tab'.flags[q] \/ "PSTOPPED" \in tab'.flags[q]) <=>
            ("PRUNNING" \in tab.flags[q] \/ "PSTOPPED" \in tab.flags[q])
      BY <2>5, RingSlots
    <3>. QED BY <2>4, <3>1, EndedSame
  <2>7. loop'.lead = pp /\ loop'.alive = Alive(tab, pp)
    BY <2>1 DEF JobInv, TypeInv, TypeOK
  <2>8. FlagsMean'
    <3>1. FgJob' = NULL  BY <1>1, <2>1 DEF FgJob, Waiting
    <3>. QED BY <1>1, <2>4, <2>5, <3>1 DEF ReportInv, FlagsMean
  <2>9. AllNoted'
    <3> SUFFICES ASSUME NEW p \in LiveLeaders(tab), Ended(tab', p), p # pp, p # NULL
        PROVE  "PNEEDNOTE" \in tab'.flags[p] /\ tab'.neednote
      BY <1>1, <2>4, <2>7, SlotsPtr DEF AllNoted, Noted, LiveLeaders, Proclist
    <3>1. Noted(p)  BY <1>1, <2>6 DEF ReportInv, AllNoted
    <3>2. p \in Slots  BY DEF LiveLeaders, Proclist
    <3>. QED BY <1>1, <2>3, <2>5, <3>1, <3>2 DEF Noted
  <2>10. Owed'
    <3>1. Alive(tab, pp) => ~Ended(tab, pp)
      <4>1. pp \in Ring(tab, pp)
        <5>1. pp \in leaders  BY <1>4 DEF pp, Greatest, NULL
        <5>. QED BY <2>2, <5>1 DEF Ring, Proclist
      <4>. QED BY <4>1 DEF Ended, Alive, JobFlags
    <3>. QED BY <1>1, <2>1, <2>6, <2>7, <3>1 DEF Owed
  <2>. QED BY <2>8, <2>9, <2>10 DEF ReportInv
<1>. QED BY <1>2, <1>3, <1>4

\* jobs flushes the job it has printed when that has ended.
LEMMA DojobsNextReport ==
  ASSUME JobInv, ReportInv, DojobsNext
  PROVE  ReportInv'
<1> DEFINE rest  == {q \in Ring(tab, loop.lead) : q > loop.at}
           flush == ~loop.alive /\ tab.procid[loop.lead] # 0
<1>1. /\ tab \in Tables /\ WellFormed(tab) /\ WhereInv /\ tab.pcurrjob = NULL /\ pc = "jobs"
      /\ loop.lead \in LiveLeaders(tab) /\ jw = NULL /\ FgJob = NULL
      /\ loop.lead # NULL
  BY DEF JobInv, TypeInv, TypeOK, DojobsNext, WhereInv, ReportInv, Owed, FgJob, Waiting
<1>2. Live(tab, loop.lead) /\ WalkEnds(tab, loop.lead) /\ tab.job[loop.lead] = loop.lead
  BY <1>1, LeaderIs, LiveRing DEF WellFormed
<1>3. CASE rest # {}
  <2>1. /\ loop' = [loop EXCEPT !.at = Least(rest), !.alive = @ \/ Alive(tab, Least(rest))]
        /\ UNCHANGED <<tab, pc, fg, jw>>
    BY <1>3 DEF DojobsNext
  <2>2. Least(rest) \in Ring(tab, loop.lead)
    <3>1. rest \subseteq Nat  BY RingSlots DEF Slots
    <3>2. Least(rest) \in rest  
      <4> HIDE DEF rest
      <4>. QED BY <1>3, <3>1, LeastIs
    <3>. QED BY <3>2
  <2>3. loop'.lead = loop.lead /\ loop'.alive = (loop.alive \/ Alive(tab, Least(rest)))
    BY <2>1 DEF JobInv, TypeInv, TypeOK
  <2>4. Alive(tab, Least(rest)) => ~Ended(tab, loop.lead)
    <3> HIDE DEF rest
    <3>. QED BY <2>2 DEF Ended, Alive, JobFlags
  <2> HIDE DEF rest
  <2>5. FlagsMean'  BY <1>1, <2>1 DEF ReportInv, FlagsMean, FgJob, Waiting
  <2>6. AllNoted'  BY <1>1, <2>1, <2>3 DEF ReportInv, AllNoted, Noted, Ended
  <2>7. Owed'  BY <1>1, <2>1, <2>3, <2>4 DEF ReportInv, Owed, Ended
  <2>. QED BY <2>5, <2>6, <2>7 DEF ReportInv
<1>4. CASE rest = {}
  <2>1. /\ tab' = (IF flush THEN pflush(tab, loop.lead) ELSE tab)
        /\ loop' = [NoLoop EXCEPT !.i = loop.i + 1]
        /\ UNCHANGED <<pc, fg, jw>>
    BY <1>2, <1>4 DEF DojobsNext
  <2>2. loop'.lead = NULL  BY <2>1 DEF NoLoop
  <2>3. FgJob' = NULL  BY <1>1, <2>1 DEF FgJob, Waiting
  <2>4. CASE flush
    <3>1. tab' = pflush(tab, loop.lead)  BY <2>1, <2>4
    <3>2. /\ \A q \in Slots : Live(tab', q) => Live(tab, q) /\ tab'.flags[q] = tab.flags[q]
          /\ tab'.job = tab.job /\ tab'.neednote = tab.neednote
          /\ \A q \in LiveLeaders(tab') :
               q \in LiveLeaders(tab) /\ q # loop.lead /\ tab'.flags[q] = tab.flags[q]
               /\ (Ended(tab', q) <=> Ended(tab, q))
      BY <1>1, <1>2, <3>1, FlushedOthers
    <3>3. FlagsMean'  BY <1>1, <3>2 DEF ReportInv, FlagsMean
    <3>4. AllNoted'
      BY <1>1, <2>1, <3>2, SlotsPtr DEF ReportInv, AllNoted, Noted, LiveLeaders, Proclist
    <3>5. Owed'  BY <1>1, <2>1, <2>2 DEF Owed
    <3>. QED BY <3>3, <3>4, <3>5 DEF ReportInv
  <2>5. CASE ~flush
    <3>1. tab' = tab /\ loop.alive  BY <1>2, <2>1, <2>5 DEF Live
    <3>2. FlagsMean'  BY <1>1, <2>3, <3>1 DEF ReportInv, FlagsMean
    <3>3. Ended(tab, loop.lead) => "PNEEDNOTE" \in tab.flags[loop.lead] /\ tab.neednote
      BY <1>1, <3>1 DEF ReportInv, Owed
    <3>4. AllNoted'
      BY <1>1, <2>1, <3>1, <3>3 DEF ReportInv, AllNoted, Noted, Ended
    <3>5. Owed'  BY <1>1, <2>1, <2>2 DEF Owed
    <3>. QED BY <3>2, <3>4, <3>5 DEF ReportInv
  <2>. QED BY <2>4, <2>5
<1>. QED BY <1>3, <1>4

\* fork(): the new process runs, so its job has not ended.
LEMMA ForkReport ==
  ASSUME PlainForks, JobInv, ReportInv, NEW i \in Pids, Fork(i)
  PROVE  ReportInv'
<1> DEFINE c0 == tab.pcurrjob
           T1 == palloc(tab, i, fg)
           n1 == tab.n + 1
           c  == IF c0 = NULL THEN n1 ELSE c0
           last == todo = 1
<1>1. /\ tab \in Tables /\ tab.n < MaxProcs /\ fg \in BOOLEAN /\ pc = "fork"
      /\ WellFormed(tab) /\ WhereInv /\ c0 \in LiveLeaders(tab) \cup {NULL}
      /\ jw = NULL /\ loop.lead = NULL /\ tab.n \in Nat
      /\ FgJob = IF fg THEN c0 ELSE NULL
  BY ProcTableAssumption DEF JobInv, TypeInv, TypeOK, Fork, WhereInv, Tables, ReportInv, Owed,
     FgJob, Waiting
<1>2. fg' = (fg /\ ~last) /\ UNCHANGED loop /\ FreePid(i)  BY DEF Fork
\* The job is still there: the command joins it.
<1>3. c0 # NULL => GroupExists(tab.jobid[c0]) /\ tab.jobid[c0] # i
  <2> SUFFICES ASSUME c0 # NULL PROVE GroupExists(tab.jobid[c0]) /\ tab.jobid[c0] # i
    OBVIOUS
  <2>1. GroupExists(tab.jobid[c0])  BY <1>1 DEF WhereInv, PlainForks
  <2>. QED BY <1>2, <2>1 DEF FreePid
<1>4. /\ ~last => tab' = T1 /\ pc' = "fork" /\ UNCHANGED jw
      /\ last /\ fg => EnterWait(T1)
      /\ last /\ ~fg => tab' = pendjob(T1) /\ pc' = "cmd" /\ UNCHANGED jw
  <2> DEFINE want  == IF tab.pcurrjob = NULL THEN i ELSE tab.jobid[tab.pcurrjob]
             joins == want = i \/ GroupExists(want)
             T0 == [tab EXCEPT !.pcurrjob = IF joins THEN @ ELSE NULL]
  <2>1. joins  BY <1>3
  <2>2. T0 = tab
    <3> HIDE DEF joins
    <3>. QED BY <1>1, <2>1 DEF Tables
  <2>. QED BY <2>2 DEF Fork
<1>5. /\ T1 \in Tables /\ n1 \in Slots /\ T1.n = n1
      /\ T1.neednote = tab.neednote /\ T1.procid = [tab.procid EXCEPT ![n1] = i]
      /\ T1.job = [tab.job EXCEPT ![n1] = c]
      /\ T1.flags = [tab.flags EXCEPT ![n1] = {"PRUNNING"} \cup (IF fg THEN {"PFOREGND"} ELSE {})]
      /\ T1.pcurrjob = c
  <2>1. Shape(tab)  BY <1>1 DEF WellFormed
  <2>2. Allocated(tab, T1, i, fg)  BY <1>1, <2>1, pallocIs
  <2>. QED BY <2>2 DEF Allocated
<1>6. /\ WellFormed(T1) /\ c \in LiveLeaders(T1)
      /\ LiveLeaders(T1) = LiveLeaders(tab) \cup {c}
  <2>1. c0 # NULL => tab.jobid[c0] # i  BY <1>3
  <2>2. T1.pcurrjob = c  BY <1>5
  <2> HIDE DEF c
  <2>. QED BY <1>1, <2>1, <2>2, pallocSafe
<1> HIDE DEF T1
<1>7. /\ \A q \in Slots : q # n1 => T1.job[q] = tab.job[q] /\ T1.flags[q] = tab.flags[q]
                                    /\ T1.procid[q] = tab.procid[q]
      /\ T1.job[n1] = c /\ "PRUNNING" \in T1.flags[n1]
      /\ "PREPORTED" \notin T1.flags[n1] /\ ("PFOREGND" \in T1.flags[n1] => fg)
  BY <1>1, <1>5 DEF Tables
<1>8. c \in Slots /\ c # NULL
  BY <1>6, SlotsPtr DEF LiveLeaders, Proclist
<1>9. /\ n1 \notin LiveLeaders(tab)
      /\ \A p \in LiveLeaders(tab) : p \in Slots /\ tab.job[p] = p /\ p # n1
  <2>1. tab.procid[n1] = 0  BY <1>1, <1>5 DEF WellFormed, Shape
  <2>. QED BY <1>1, <2>1, LeaderIs DEF LiveLeaders, WellFormed, Live
\* The other jobs are as they were.
<1>10. ASSUME NEW p \in LiveLeaders(T1), p # c, Ended(T1, p)
       PROVE  /\ p \in LiveLeaders(tab) /\ p # c0 /\ Ended(tab, p)
              /\ T1.flags[p] = tab.flags[p]
  <2>1. p \in LiveLeaders(tab) /\ p # c0 /\ p # n1 /\ p \in Slots /\ tab.job[p] = p
    <3>1. p \in LiveLeaders(tab)  BY <1>6, <1>10
    <3>2. p # NULL  BY <1>9, <3>1, SlotsPtr
    <3>. QED BY <1>9, <1>10, <3>1, <3>2
  <2>2. Ring(T1, p) = Ring(tab, p)
    <3>1. \A q \in Slots : q <= n1 <=> q <= tab.n \/ q = n1
      BY <1>1 DEF Slots
    <3>2. T1.job[p] = p /\ T1.job[n1] # p  BY <1>7, <1>10, <2>1
    <3>3. ~(n1 <= tab.n)  BY <1>1
    <3>. QED BY <1>5, <1>7, <2>1, <3>1, <3>2, <3>3 DEF Ring
  <2>3. n1 \notin Ring(tab, p)  BY <1>1 DEF Ring
  <2>4. Ended(tab, p)
    <3>1. \A q \in Ring(tab, p) : T1.flags[q] = tab.flags[q]
      BY <1>7, <2>3, RingSlots
    <3>. QED BY <1>10, <2>2, <3>1, EndedIs
  <2>. QED BY <1>7, <2>1, <2>4
<1>11. ASSUME NEW p \in LiveLeaders(T1), p # c, Ended(T1, p)
       PROVE  "PNEEDNOTE" \in T1.flags[p] /\ T1.neednote
  <2>1. p \in LiveLeaders(tab) /\ p # c0 /\ Ended(tab, p) /\ T1.flags[p] = tab.flags[p]
    BY <1>10, <1>11
  <2>2. p # NULL  BY <1>9, <2>1, SlotsPtr
  <2>. QED BY <1>1, <1>5, <2>1, <2>2 DEF ReportInv, AllNoted, Noted
<1>12. ASSUME NEW q \in Slots, Live(T1, q)
       PROVE  /\ "PFOREGND" \in T1.flags[q] => fg /\ T1.job[q] = c
              /\ "PREPORTED" \in T1.flags[q] =>
                   "PSTOPPED" \in T1.flags[q] \/ "PRUNNING" \in T1.flags[q]
  <2>1. CASE q = n1  BY <1>7, <2>1
  <2>2. CASE q # n1
    <3>1. Live(tab, q)  BY <1>7, <1>12, <2>2 DEF Live
    <3>. QED BY <1>1, <1>7, <2>2, <3>1 DEF ReportInv, FlagsMean
  <2>. QED BY <2>1, <2>2
<1>13. CASE ~last
  <2>1. tab' = T1 /\ pc' = "fork" /\ jw' = jw /\ fg' = fg /\ loop' = loop
    BY <1>1, <1>2, <1>4, <1>13
  <2>2. FgJob' = IF fg THEN c ELSE NULL  BY <1>5, <2>1 DEF FgJob, Waiting
  <2>3. FlagsMean'  BY <1>8, <1>12, <2>1, <2>2 DEF FlagsMean
  <2>4. AllNoted'  BY <1>5, <1>11, <2>1 DEF AllNoted, Noted
  <2>5. Owed'  BY <1>1, <2>1 DEF Owed
  <2>. QED BY <2>3, <2>4, <2>5 DEF ReportInv
<1>14. CASE last /\ fg
  <2> DEFINE F == FreeFlushed(T1)
  <2>1. EnterWait(T1) /\ ~fg'  BY <1>2, <1>4, <1>14
  <2>2. /\ F \in Tables /\ WellFormed(F) /\ LiveLeaders(F) = LiveLeaders(T1)
        /\ F.pcurrjob = c /\ F.neednote = T1.neednote /\ F.job = T1.job
        /\ \A q \in Slots : Live(T1, q) => F.flags[q] = T1.flags[q]
        /\ F.procid = T1.procid /\ \A q : Ring(F, q) = Ring(T1, q)
    BY <1>5, <1>6, FreeFlushedSafe
  <2> HIDE DEF F
  <2>3. Live(F, c) /\ WalkEnds(F, c) /\ Leader(F, c) = c
    BY <1>6, <2>2, LeaderIs, LiveRing DEF WellFormed
  <2>4. tab' = F /\ pc' = "wait" /\ jw' = c
    BY <2>1, <2>2, <2>3 DEF EnterWait, F
  <2>5. FgJob' = c  BY <2>4 DEF FgJob, Waiting
  <2>6. \A q \in Slots : Live(F, q) => Live(T1, q)  BY <2>2 DEF Live
  <2>7. FlagsMean'
    BY <1>8, <1>12, <2>2, <2>4, <2>5, <2>6 DEF FlagsMean
  <2>8. AllNoted'
    <3> SUFFICES ASSUME NEW p \in LiveLeaders(F), p # c, Ended(F, p)
        PROVE  "PNEEDNOTE" \in F.flags[p] /\ F.neednote
      BY <2>2, <2>4 DEF AllNoted, Noted
    <3>1. p \in LiveLeaders(T1) /\ p \in Slots /\ Live(T1, p) /\ T1.procid[p] # 0
      BY <2>2 DEF LiveLeaders, Proclist, Live
    <3>2. \A q \in Ring(T1, p) : Live(T1, q)
      <4>1. Shape(T1) /\ T1.job[p] = p
        BY <1>5, <1>6, <3>1, LeaderIs DEF WellFormed
      <4>. QED BY <3>1, <4>1 DEF Shape, Ring, Live
    <3>3. Ended(T1, p)
      <4>1. \A q \in Ring(T1, p) : F.flags[q] = T1.flags[q]
        BY <2>2, <3>2, RingSlots
      <4>. QED BY <2>2, <4>1, EndedIs
    <3>. QED BY <1>11, <2>2, <3>1, <3>3
  <2>9. Owed'  BY <1>1, <1>2, <2>4 DEF Owed, Waiting
  <2>. QED BY <2>7, <2>8, <2>9 DEF ReportInv
<1>15. CASE last /\ ~fg
  <2>1. tab' = pendjob(T1) /\ pc' = "cmd" /\ jw' = jw /\ ~fg' /\ loop' = loop
    BY <1>1, <1>2, <1>4, <1>15
  <2>2. /\ SameShape(T1, tab') /\ tab'.flags = T1.flags /\ tab'.neednote = T1.neednote
        /\ tab'.pcurrjob = NULL
    BY <1>5, <2>1 DEF pendjob, SameShape, Tables
  <2>3. /\ LiveLeaders(tab') = LiveLeaders(T1) /\ (\A p : Ring(tab', p) = Ring(T1, p))
        /\ tab'.job = T1.job /\ \A p : Live(T1, p) <=> Live(tab', p)
    BY <1>5, <2>2, ShapeSame DEF SameShape
  <2>4. FlagsMean'
    BY <1>12, <1>15, <2>2, <2>3 DEF FlagsMean
  <2>5. ~Ended(T1, c)
    <3>1. n1 \in Ring(T1, c)
      <4>1. T1.job[c] = c  BY <1>5, <1>6, LeaderIs DEF WellFormed
      <4>. QED BY <1>1, <1>5, <1>7, <4>1 DEF Ring
    <3>. QED BY <1>7, <3>1, EndedIs
  <2>6. AllNoted'
    <3> SUFFICES ASSUME NEW p \in LiveLeaders(T1), Ended(tab', p)
        PROVE  "PNEEDNOTE" \in T1.flags[p] /\ T1.neednote
      BY <2>2, <2>3 DEF AllNoted, Noted
    <3>1. Ended(T1, p)  BY <2>2, <2>3, EndedIs
    <3>. QED BY <1>11, <2>5, <3>1
  <2>7. Owed'  BY <1>1, <2>1 DEF Owed
  <2>. QED BY <2>4, <2>6, <2>7 DEF ReportInv
<1>. QED BY <1>13, <1>14, <1>15

\* Every step keeps it.
LEMMA ReportInvNext ==
  ASSUME PlainForks, JobInv, ReportInv, [Next]_vars
  PROVE  ReportInv'
<1>1. CASE Kernel
  <2>1. UNCHANGED <<tab, pc, fg, jw, loop>>
    BY <1>1 DEF Kernel, ChildExits, ChildStops, ChildContinues, ChildChanges, control
  <2>. QED BY <2>1, ReportSame
<1>2. CASE User
  BY <1>2, LineReport, WaitingReport, PstartReport DEF User, Donotify, PlainForks, PlainShell
<1>3. CASE Shell
  <2>1. ~(\E i \in Pids : Hook(i)) /\ ~ForkError
    BY DEF Hook, ForkError, PlainForks, PlainShell
  <2>2. ASSUME HandlePending \/ PchildReturns PROVE ReportInv'
    <3>1. UNCHANGED <<tab, pc, fg, jw, loop>>
      BY <2>2 DEF HandlePending, PchildReturns, control
    <3>. QED BY <3>1, ReportSame
  <2>. QED BY <1>3, <2>1, <2>2, TopReport, PnoteReport, ForkReport, WaitingReport,
              WaitEndsReport, PstartDoneReport, DojobsPickReport, DojobsNextReport
           DEF Shell
<1>4. CASE \E i \in Pids : Wait3(i)  BY <1>4, Wait3Report
<1>5. CASE UNCHANGED vars
  <2>1. UNCHANGED <<tab, pc, fg, jw, loop>>  BY <1>5 DEF vars, control
  <2>. QED BY <2>1, ReportSame
<1>. QED BY <1>1, <1>2, <1>3, <1>4, <1>5 DEF Next

\* Every job that has ended and that the shell is not busy with is flagged for
\* pnote(), and pnote() is still to come to it: no job ends without being reported,
\* however the events of its processes and the commands of the user interleave.
THEOREM NoneForgotten == ASSUME PlainForks PROVE Spec => []NeverForgotten
<1>0. PlainForks /\ PlainShell  BY DEF PlainForks
<1>1. JobInv /\ ReportInv => NeverForgotten
  BY SlotsPtr DEF ReportInv, AllNoted, Noted, Ended, InProgress, NeverForgotten, LiveLeaders,
     Proclist
<1>2. JobInv /\ ReportInv /\ [Next]_vars => ReportInv'  BY <1>0, ReportInvNext
<1>3. Spec => []JobInv  BY <1>0, JobInvAlways
<1>. QED BY <1>1, <1>2, <1>3, ReportInvInit, PTL DEF Spec
=============================================================================
