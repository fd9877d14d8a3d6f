----------------------------- MODULE JobControl -----------------------------
(***************************************************************************)
(* Job control of an interactive shell: the kernel's view of the children, *)
(* SIGCHLD and its deferred handling (tc.sig.c), the main loop process()   *)
(* (sh.c), the creation of pipelines by execute() (sh.sem.c) and the       *)
(* builtins fg, bg, jobs, wait and notify (sh.proc.c), over the table of   *)
(* ProcTable.                                                              *)
(*                                                                         *)
(* SIGCHLD only sets pchild_pending; pchild() itself runs inside           *)
(* handle_pending_signals(), which the shell calls before every read and   *)
(* write.  Those points are the values SignalPoints of pc; wherever the C  *)
(* code performs no I/O between two accesses to the table, the model takes *)
(* them in one step.                                                       *)
(***************************************************************************)
EXTENDS ProcTable

CONSTANTS
  MaxPipe,      \* bound: commands in a pipeline
  Exits,        \* how children may end, a subset of ExitStates
  HookAt,       \* where the alias "jobcmd" may run a command that forks:
                \* before a fork ("fork"), when fg starts a job ("start")
  FgFinished,   \* TRUE when fg and bg may name a job that has already ended
  ForkFails,    \* TRUE when fork() may fail
  NotifyBuiltin, \* TRUE when the builtin "notify" may be used
  OutsideSignals, \* TRUE when others may continue or kill a stopped child
  ForkIO,       \* TRUE when the shell reads or writes before it forks a command
                \* of a pipeline: jobcmd prints a title, a word is $<
  LongLines,    \* TRUE when the line of a process may fill the output buffer
  Recycle       \* TRUE when a pid may be reused while the table still has it

ASSUME JobControlAssumption ==
  /\ MaxPipe \in Nat
  /\ Exits \subseteq ExitStates
  /\ HookAt \subseteq {"fork", "start"}
  /\ FgFinished \in BOOLEAN /\ ForkFails \in BOOLEAN /\ ForkIO \in BOOLEAN
  /\ NotifyBuiltin \in BOOLEAN /\ OutsideSignals \in BOOLEAN
  /\ LongLines \in BOOLEAN /\ Recycle \in BOOLEAN

VARIABLES
  tab,          \* the process table
  kst, news, pgrp,   \* kernel: state, uncollected status and group of a pid
  sigpend, blocked,  \* kernel: SIGCHLD pending and blocked for the shell
  pchild_pending, pchild_disabled,   \* tc.sig.c
  inhandler,    \* inside pchild()
  pc,           \* where the shell is
  todo, fg,     \* execute(): commands still to fork; no F_AMPERSAND
  nosigchld,    \* execute(): its static variable
  jw,           \* pstart, pjwait: their argument; NULL in dowait
  loop,         \* pnote, dojobs: their loop variables
  hook          \* job_cmd: where it was called, and its saved pcurrjob

kernel  == <<kst, news, pgrp>>
signals == <<sigpend, blocked, pchild_pending, pchild_disabled, inhandler>>
control == <<pc, todo, fg, nosigchld, jw, loop, hook>>
vars    == <<tab, kernel, signals, control>>

PCs == {"top", "note", "cmd", "fork", "start", "wait", "pre", "susp", "jobs", "hung"}
SignalPoints == {"note", "cmd", "wait", "jobs"} \cup (IF ForkIO THEN {"fork"} ELSE {})
NoLoop == [i |-> 0, at |-> 0, lead |-> NULL, alive |-> FALSE]
NoHook == [ret |-> "none", save |-> NULL, arg |-> NULL]

TypeOK ==
  /\ tab \in Tables
  /\ kst  \in [Pids -> {"none", "run", "stop", "zombie"}]
  /\ news \in [Pids -> {"none", "PSTOPPED"} \cup ExitStates]
  /\ pgrp \in [Pids -> Pids \cup {0}]
  /\ sigpend \in BOOLEAN /\ blocked \in BOOLEAN
  /\ pchild_pending \in BOOLEAN /\ pchild_disabled \in BOOLEAN
  /\ inhandler \in BOOLEAN
  /\ pc \in PCs
  /\ todo \in Nat /\ fg \in BOOLEAN /\ nosigchld \in BOOLEAN
  /\ jw \in Ptr
  /\ loop \in [i : Nat, at : Nat, lead : Ptr, alive : BOOLEAN]
  /\ hook \in [ret : {"none", "fork", "start"}, save : Ptr, arg : Ptr]

Init ==
  /\ tab = EmptyTable
  /\ kst = [i \in Pids |-> "none"] /\ news = [i \in Pids |-> "none"]
  /\ pgrp = [i \in Pids |-> 0]
  /\ sigpend = FALSE /\ blocked = FALSE
  /\ pchild_pending = FALSE /\ pchild_disabled = FALSE /\ inhandler = FALSE
  /\ pc = "top" /\ todo = 0 /\ fg = FALSE /\ nosigchld = FALSE
  /\ jw = NULL /\ loop = NoLoop /\ hook = NoHook

-----------------------------------------------------------------------------
(* The kernel.  A signal that arrives while SIGCHLD is blocked, or that     *)
(* ends a sigsuspend(), stays in sigpend until the mask lets it through.    *)

Raise ==
  IF blocked \/ pc = "susp"
  THEN sigpend' = TRUE /\ UNCHANGED pchild_pending
  ELSE pchild_pending' = TRUE /\ UNCHANGED sigpend

ChildChanges(i, st, what) ==
  /\ kst' = [kst EXCEPT ![i] = st] /\ news' = [news EXCEPT ![i] = what]
  /\ Raise
  /\ UNCHANGED <<tab, pgrp, blocked, pchild_disabled, inhandler, control>>

ChildExits(i) ==
  /\ kst[i] = "run" \/ (OutsideSignals /\ kst[i] = "stop")
  /\ \E st \in Exits : ChildChanges(i, "zombie", st)
ChildStops(i) == kst[i] = "run" /\ ChildChanges(i, "stop", "PSTOPPED")

\* SIGCONT from outside the shell: wait3() does not report it.
ChildContinues(i) ==
  /\ OutsideSignals /\ kst[i] = "stop"
  /\ kst' = [kst EXCEPT ![i] = "run"] /\ news' = [news EXCEPT ![i] = "none"]
  /\ UNCHANGED <<tab, pgrp, signals, control>>

\* setpgid, tcsetpgrp and killpg fail when no process is in the group.
GroupExists(g) == \E i \in Pids : kst[i] # "none" /\ pgrp[i] = g

\* A pid is free when no process has it and no group is named after it.
FreePid(i) ==
  /\ kst[i] = "none" /\ ~GroupExists(i)
  /\ Recycle \/ \A p \in Proclist(tab) : i \notin {tab.procid[p], tab.jobid[p]}

NewChild(i, g) ==
  /\ kst' = [kst EXCEPT ![i] = "run"] /\ news' = [news EXCEPT ![i] = "none"]
  /\ pgrp' = [pgrp EXCEPT ![i] = g]

\* sigprocmask: what is pending is delivered as soon as it is unblocked.
Unblock ==
  /\ blocked' = FALSE /\ sigpend' = FALSE
  /\ pchild_pending' = (pchild_pending \/ sigpend)

-----------------------------------------------------------------------------
(* handle_pending_signals() and pchild().                                   *)

Hang == pc' = "hung" /\ UNCHANGED <<todo, fg, nosigchld, jw, loop, hook>>

\* pprint() writes when it ends a line, which it does after it has read the flags
\* of the process of the next one: between the leader's and those of the second
\* process it writes nothing, unless the leader's line fills the buffer.
MidLine ==
  /\ ~LongLines /\ pc = "jobs" /\ loop.lead # NULL /\ loop.at = loop.lead
  /\ Ring(tab, loop.lead) # {loop.lead}

HandlePending ==
  /\ pc \in SignalPoints /\ ~MidLine /\ ~inhandler
  /\ pchild_pending /\ ~pchild_disabled
  /\ pchild_pending' = FALSE /\ inhandler' = TRUE
  /\ UNCHANGED <<tab, kernel, sigpend, blocked, pchild_disabled, control>>

\* wait3() returns the status of child i ...
Reap(i) ==
  /\ inhandler /\ pc # "hung" /\ news[i] # "none"
  /\ news' = [news EXCEPT ![i] = "none"]
  /\ kst'  = [kst EXCEPT ![i] = IF @ = "zombie" THEN "none" ELSE @]
  /\ pgrp' = [pgrp EXCEPT ![i] = IF kst[i] = "zombie" THEN 0 ELSE @]

\* ... and pchild() enters it into the table.
Wait3(i) ==
  /\ Reap(i)
  /\ UNCHANGED signals
  /\ LET pp == Greatest(WithPid(tab, i)) IN
       IF pp = NULL THEN UNCHANGED <<tab, control>>
       ELSE IF Unreported(tab, pp, news[i]) /\ ~WalkEnds(tab, pp)
       THEN Hang /\ tab' = Collected(tab, pp, news[i])
       ELSE tab' = pchild(tab, pp, news[i]) /\ UNCHANGED control

PchildReturns ==
  /\ inhandler /\ pc # "hung" /\ \A i \in Pids : news[i] = "none"
  /\ inhandler' = FALSE
  /\ UNCHANGED <<tab, kernel, sigpend, blocked, pchild_pending, pchild_disabled, control>>

Quiet == ~inhandler /\ UNCHANGED inhandler       \* the shell itself takes the step

-----------------------------------------------------------------------------
(* process(): pendjob(), pnote(), then the commands of a line.              *)

Top ==
  /\ pc = "top" /\ Quiet
  /\ UNCHANGED <<kernel, sigpend, blocked, pchild_pending, pchild_disabled>>
  /\ IF PendjobWalks(tab) /\ ~WalkEnds(tab, tab.pcurrjob)
     THEN Hang /\ UNCHANGED tab
     ELSE /\ tab' = [pendjob(tab) EXCEPT !.neednote = FALSE]
          /\ pc' = IF tab.neednote THEN "note" ELSE "cmd"
          /\ loop' = IF tab.neednote THEN [NoLoop EXCEPT !.at = MaxProcs + 1] ELSE NoLoop
          /\ UNCHANGED <<todo, fg, nosigchld, jw, hook>>

\* What is left of the list for pnote() to look at.
ToNote == {p \in Proclist(tab) : p < loop.at /\ "PNEEDNOTE" \in tab.flags[p]}

Pnote ==
  /\ pc = "note" /\ Quiet
  /\ UNCHANGED <<kernel, sigpend, blocked, pchild_pending, pchild_disabled>>
  /\ LET pp == Greatest(ToNote) IN
       IF pp = NULL
       THEN /\ pc' = "cmd" /\ loop' = NoLoop
            /\ UNCHANGED <<tab, todo, fg, nosigchld, jw, hook>>
       ELSE LET T1 == SetFlags(tab, {pp}, {}, {"PNEEDNOTE"}) IN
            IF ~WalkEnds(tab, pp) THEN Hang /\ tab' = T1
            ELSE /\ tab' = IF JobFlags(T1, pp) \cap {"PRUNNING", "PSTOPPED"} = {}
                           THEN pflush(T1, pp) ELSE T1
                 /\ loop' = [loop EXCEPT !.at = pp]
                 /\ UNCHANGED <<pc, todo, fg, nosigchld, jw, hook>>

EndLine ==
  /\ pc = "cmd" /\ Quiet /\ pc' = "top"
  /\ UNCHANGED <<tab, kernel, sigpend, blocked, pchild_pending, pchild_disabled,
                 todo, fg, nosigchld, jw, loop, hook>>

-----------------------------------------------------------------------------
(* execute(): a pipeline of n commands, in the foreground or not.           *)

StartPipeline(n, inForeground) ==
  /\ pc = "cmd" /\ Quiet /\ tab.n + n <= MaxProcs
  /\ pc' = "fork" /\ todo' = n /\ fg' = inForeground
  /\ UNCHANGED <<tab, kernel, sigpend, blocked, pchild_pending, pchild_disabled,
                 nosigchld, jw, loop, hook>>

\* pwait(): free the flushed processes, then pjwait(pcurrjob), whose walk to
\* the leader this is; the SIGCHLD mask is set around its loop.
EnterWait(T) ==
  LET T1 == FreeFlushed(T) IN
  /\ tab' = T1
  /\ IF WalkEnds(T1, T1.pcurrjob)
     THEN pc' = "wait" /\ jw' = Leader(T1, T1.pcurrjob)
     ELSE pc' = "hung" /\ UNCHANGED jw

\* Fork the next command of the pipeline as pid i.  When the process group of
\* the job has died, setpgid() fails and pfork() starts a job of its own; the
\* processes forked so far are then left to themselves.
Fork(i) ==
  /\ pc = "fork" /\ Quiet /\ FreePid(i)
  /\ LET want  == IF tab.pcurrjob = NULL THEN i ELSE tab.jobid[tab.pcurrjob]
         joins == want = i \/ GroupExists(want)
         T1    == palloc([tab EXCEPT !.pcurrjob = IF joins THEN @ ELSE NULL], i, fg)
         last  == todo = 1
     IN  /\ NewChild(i, IF joins THEN want ELSE i)
         /\ todo' = todo - 1 /\ fg' = (fg /\ ~last)
         /\ UNCHANGED <<pchild_disabled, loop, hook>>
         /\ IF ~last
            THEN /\ tab' = T1 /\ pc' = "fork" /\ nosigchld' = TRUE
                 /\ blocked' = (blocked \/ ~nosigchld)
                 /\ UNCHANGED <<sigpend, pchild_pending, jw>>
            ELSE /\ nosigchld' = FALSE
                 /\ IF fg
                    THEN /\ EnterWait(T1) /\ blocked' = TRUE /\ sigpend' = FALSE
                         /\ pchild_pending' = (pchild_pending \/ sigpend)
                    ELSE /\ tab' = pendjob(T1)          \* "A & B": B is a new job
                         /\ pc' = "cmd" /\ Unblock /\ UNCHANGED jw

\* stderror(ERR_NOPROC): the longjmp restores the mask but not nosigchld.
ForkError ==
  /\ ForkFails /\ pc = "fork" /\ Quiet
  /\ pc' = "top" /\ todo' = 0 /\ Unblock
  /\ nosigchld' = TRUE /\ fg' = FALSE
  /\ UNCHANGED <<tab, kernel, pchild_disabled, jw, loop, hook>>

\* job_cmd(): before a command is forked, and in pstart() with pchild()
\* disabled, the alias jobcmd runs a foreground command of its own.
Hook(i) ==
  /\ pc \in HookAt /\ (pc = "start" => fg) /\ hook = NoHook /\ Quiet
  /\ FreePid(i) /\ tab.n + todo < MaxProcs
  /\ NewChild(i, i)
  /\ hook' = [ret |-> pc, save |-> tab.pcurrjob, arg |-> jw]
  /\ EnterWait(palloc(psavejob(tab), i, TRUE))
  /\ nosigchld' = FALSE /\ blocked' = TRUE /\ sigpend' = FALSE
  /\ pchild_pending' = (pchild_pending \/ sigpend)
  /\ UNCHANGED <<pchild_disabled, todo, fg, loop>>

-----------------------------------------------------------------------------
(* pjwait() and dowait(): sigsuspend until nothing that is waited for runs. *)

StillRunning ==
  IF jw = NULL
  THEN \E p \in Proclist(tab) : tab.procid[p] # 0 /\ "PRUNNING" \in tab.flags[p]
  ELSE "PRUNNING" \in JobFlags(tab, jw)

WaitCheck ==
  /\ pc = "wait" /\ Quiet /\ ~(pchild_pending /\ ~pchild_disabled)
  /\ StillRunning
  /\ pc' = "pre"
  /\ UNCHANGED <<tab, kernel, sigpend, blocked, pchild_pending, pchild_disabled,
                 todo, fg, nosigchld, jw, loop, hook>>

\* sigsuspend() returns once a SIGCHLD has been delivered.
Sigsuspend ==
  /\ pc = "pre" /\ Quiet /\ pc' = "susp"
  /\ UNCHANGED <<tab, kernel, sigpend, blocked, pchild_pending, pchild_disabled,
                 todo, fg, nosigchld, jw, loop, hook>>

SigsuspendReturns ==
  /\ pc = "susp" /\ Quiet /\ sigpend
  /\ sigpend' = FALSE /\ pchild_pending' = TRUE /\ pc' = "wait"
  /\ UNCHANGED <<tab, kernel, blocked, pchild_disabled, todo, fg, nosigchld, jw, loop, hook>>

\* ^C during the builtin wait: list the jobs and go back to the prompt.
WaitInterrupted ==
  /\ pc = "susp" /\ jw = NULL /\ Quiet
  /\ pc' = "top" /\ Unblock
  /\ UNCHANGED <<tab, kernel, pchild_disabled, todo, fg, nosigchld, jw, loop, hook>>

\* The end of pjwait: a job killed by a signal or stopped is printed; what is
\* not stopped is flushed (or found flushed: the BUG), both after a walk to the
\* leader; an interrupted or stopped one sends the shell back to the prompt
\* (pintr1).
PjwaitHangs ==
  /\ JobFlags(tab, jw) \cap {"PSIGNALED", "PSTOPPED"} # {} \/ tab.procid[jw] # 0
  /\ ~WalkEnds(tab, jw)

AfterPjwait(T) ==
  IF "PSTOPPED" \in JobFlags(T, jw) \/ T.procid[jw] = 0 THEN T ELSE pflush(T, jw)
AfterPjwaitPc(T) ==
  IF JobFlags(T, jw) \cap {"PINTERRUPTED", "PSTOPPED"} # {} THEN "top" ELSE "cmd"

\* The end of aliasrun() and of job_cmd(): whatever ended the command, put
\* pcurrjob back and go on where the hook was called.
HookReturns(T) ==
  LET T1 == psavejob_cleanup(T) IN
  IF PendjobWalks(T1) /\ ~WalkEnds(T1, T1.pcurrjob)
  THEN tab' = T1 /\ Hang
  ELSE /\ tab' = [pendjob(T1) EXCEPT !.pcurrjob = hook.save]
       /\ pc' = hook.ret /\ jw' = hook.arg /\ hook' = NoHook
       /\ UNCHANGED <<todo, fg, nosigchld, loop>>

WaitEnds ==
  /\ pc = "wait" /\ Quiet /\ ~(pchild_pending /\ ~pchild_disabled)
  /\ ~StillRunning
  /\ Unblock
  /\ UNCHANGED <<kernel, pchild_disabled>>
  /\ IF jw = NULL
     THEN pc' = "cmd" /\ UNCHANGED <<tab, todo, fg, nosigchld, jw, loop, hook>>
     ELSE IF PjwaitHangs THEN Hang /\ UNCHANGED tab
     ELSE IF hook # NoHook THEN HookReturns(AfterPjwait(tab))
     ELSE /\ tab' = AfterPjwait(tab)
          /\ pc' = AfterPjwaitPc(tab) /\ jw' = NULL
          /\ UNCHANGED <<todo, fg, nosigchld, loop, hook>>

-----------------------------------------------------------------------------
(* The builtins.                                                            *)

\* What pfind() may return for some argument: a job, %+ or %-.
Pfind == LiveLeaders(tab) \cup ({tab.pcurrent, tab.pprevious} \ {NULL})

\* dofg, dofg1 (inForeground), dobg, dobg1, kill -CONT: the first half of pstart
Pstart(pp, inForeground) ==
  /\ pc = "cmd" /\ Quiet
  /\ pp \in Pfind /\ (FgFinished \/ GroupExists(tab.jobid[pp]))
  /\ tab' = pstart(tab, pp, inForeground)
  /\ fg' = inForeground /\ jw' = pp /\ pchild_disabled' = TRUE
  /\ pc' = IF WalkEnds(tab, pp) THEN "start" ELSE "hung"
  /\ UNCHANGED <<kernel, sigpend, blocked, pchild_pending, todo, nosigchld, loop, hook>>

\* ... tcsetpgrp(), killpg(SIGCONT), and pjwait() or the error path
PstartDone ==
  /\ pc = "start" /\ Quiet
  /\ pchild_disabled' = FALSE /\ fg' = FALSE
  /\ UNCHANGED <<pgrp, sigpend, pchild_pending, todo, nosigchld, loop, hook>>
  /\ IF GroupExists(tab.jobid[jw])
     THEN /\ LET woken == {i \in Pids : kst[i] = "stop" /\ pgrp[i] = tab.jobid[jw]}
             IN  /\ kst'  = [i \in Pids |-> IF i \in woken THEN "run" ELSE kst[i]]
                 /\ news' = [i \in Pids |-> IF i \in woken THEN "none" ELSE news[i]]
          /\ pc' = IF fg THEN "wait" ELSE "cmd"
          /\ blocked' = fg
          /\ jw' = IF fg THEN jw ELSE NULL
          /\ UNCHANGED tab
     ELSE /\ tab' = [tab EXCEPT !.procid[jw] = 0]
          /\ pc' = "top" /\ jw' = NULL
          /\ UNCHANGED <<kst, news, blocked>>

\* Mutant: wait without blocking SIGCHLD around the test and sigsuspend().
DowaitUnblocked ==
  /\ pc = "cmd" /\ Quiet /\ pc' = "wait" /\ jw' = NULL
  /\ UNCHANGED <<tab, kernel, sigpend, blocked, pchild_pending, pchild_disabled,
                 todo, fg, nosigchld, loop, hook>>

Dowait ==
  /\ pc = "cmd" /\ Quiet /\ pc' = "wait" /\ jw' = NULL /\ blocked' = TRUE
  /\ UNCHANGED <<tab, kernel, sigpend, pchild_pending, pchild_disabled,
                 todo, fg, nosigchld, loop, hook>>

Donotify(pp) ==
  /\ NotifyBuiltin /\ pc = "cmd" /\ Quiet /\ pp \in Pfind
  /\ tab' = SetFlags(tab, {pp}, {"PNOTIFY"}, {})
  /\ UNCHANGED <<kernel, sigpend, blocked, pchild_pending, pchild_disabled, control>>

\* dojobs(): for each job number the leader that has it; pprint() prints the
\* processes of its ring, from the leader on, and the end of a line is a signal
\* point (MidLine); alive says that one of those it saw was running or stopped.
DojobsStart ==
  /\ pc = "cmd" /\ Quiet /\ pc' = "jobs" /\ loop' = [NoLoop EXCEPT !.i = 1]
  /\ UNCHANGED <<tab, kernel, sigpend, blocked, pchild_pending, pchild_disabled,
                 todo, fg, nosigchld, jw, hook>>

Alive(T, p) == T.flags[p] \cap {"PRUNNING", "PSTOPPED"} # {}

DojobsPick ==
  /\ pc = "jobs" /\ loop.lead = NULL /\ Quiet
  /\ UNCHANGED <<kernel, sigpend, blocked, pchild_pending, pchild_disabled,
                 todo, fg, nosigchld, jw, hook>>
  /\ IF loop.i > tab.pmaxindex THEN pc' = "cmd" /\ loop' = NoLoop /\ UNCHANGED tab
     ELSE LET pp == Greatest({p \in Proclist(tab) : tab.index[p] = loop.i
                                              /\ tab.procid[p] = tab.jobid[p]}) IN
          IF pp = NULL
          THEN loop' = [loop EXCEPT !.i = @ + 1] /\ UNCHANGED <<tab, pc>>
          ELSE /\ tab' = SetFlags(tab, {pp}, {}, {"PNEEDNOTE"})
               /\ loop' = [loop EXCEPT !.at = pp, !.lead = pp, !.alive = Alive(tab, pp)]
               /\ UNCHANGED pc

DojobsNext ==
  /\ pc = "jobs" /\ loop.lead # NULL /\ Quiet
  /\ UNCHANGED <<kernel, sigpend, blocked, pchild_pending, pchild_disabled>>
  /\ LET rest  == {q \in Ring(tab, loop.lead) : q > loop.at}
         next  == Least(rest)
         flush == ~loop.alive /\ tab.procid[loop.lead] # 0
     IN  IF rest # {}
         THEN /\ loop' = [loop EXCEPT !.at = next, !.alive = @ \/ Alive(tab, next)]
              /\ UNCHANGED <<tab, pc, todo, fg, nosigchld, jw, hook>>
         ELSE IF flush /\ ~WalkEnds(tab, loop.lead) THEN Hang /\ UNCHANGED tab
         ELSE /\ tab' = IF flush THEN pflush(tab, loop.lead) ELSE tab
              /\ loop' = [NoLoop EXCEPT !.i = loop.i + 1]
              /\ UNCHANGED <<pc, todo, fg, nosigchld, jw, hook>>

-----------------------------------------------------------------------------
Kernel == \E i \in Pids : ChildExits(i) \/ ChildStops(i) \/ ChildContinues(i)

User ==
  \/ \E n \in 1 .. MaxPipe, b \in BOOLEAN : StartPipeline(n, b)
  \/ \E p \in Slots, b \in BOOLEAN : Pstart(p, b)
  \/ \E p \in Slots : Donotify(p)
  \/ DojobsStart
  \/ Dowait
  \/ EndLine
  \/ WaitInterrupted

Shell ==                                       \* all but pchild()'s loop
  \/ HandlePending
  \/ PchildReturns
  \/ Top \/ Pnote
  \/ \E i \in Pids : Fork(i)
  \/ ForkError
  \/ \E i \in Pids : Hook(i)
  \/ WaitCheck \/ Sigsuspend \/ SigsuspendReturns \/ WaitEnds
  \/ PstartDone
  \/ DojobsPick \/ DojobsNext

Next == Kernel \/ User \/ Shell \/ \E i \in Pids : Wait3(i)

Spec == Init /\ [][Next]_vars

\* The shell is scheduled (Reap(i) is enabled when Wait3(i) is, and only a
\* Wait3(i) step is a Reap(i) step), its children end, and a user at the prompt
\* goes on giving command lines (SF: fg, bg and jobs take him away from it).
FairSpec ==
  /\ Spec
  /\ WF_vars(Shell)
  /\ WF_<<news, kst>>(\E i \in Pids : Reap(i))
  /\ \A i \in Pids : WF_vars(ChildExits(i))
  /\ SF_vars(EndLine)

-----------------------------------------------------------------------------
(* Properties.                                                              *)

\* Every walk "while (pp->p_procid != pp->p_jobid) pp = pp->p_friends" of
\* sh.proc.c ends, and none follows a p_friends of freed memory.
NeverHung == pc # "hung"

\* pcurrent and pprevious (%+ and %-) are never dangling: each is NULL or the
\* leader of a job that pflush() has not taken, they differ, and there is no
\* previous job without a current one.
CurrentPrevious ==
  /\ {tab.pcurrent, tab.pprevious} \subseteq LiveLeaders(tab) \cup {NULL}
  /\ tab.pcurrent = tab.pprevious => tab.pcurrent = NULL
  /\ tab.pcurrent = NULL => tab.pprevious = NULL

\* Job numbers identify jobs: no two jobs share a number, the processes of a
\* pipeline carry their leader's, and "jobs", which counts up to pmaxindex,
\* reaches every job.
JobNumbers ==
  \A p \in Proclist(tab) : tab.procid[p] # 0 =>
    /\ tab.index[p] \in 1 .. tab.pmaxindex
    /\ \A q \in Proclist(tab) :
         tab.procid[q] # 0 => (tab.index[p] = tab.index[q] <=> tab.job[p] = tab.job[q])

\* A process the table calls running is a child the kernel still has: no
\* status is lost between wait3() and the table, so pjwait() and dowait()
\* never wait for a process that is gone.
RunningExists ==
  \A p \in Proclist(tab) :
    tab.procid[p] # 0 /\ "PRUNNING" \in tab.flags[p] =>
      /\ kst[tab.procid[p]] # "none"
      /\ p = Greatest(WithPid(tab, tab.procid[p]))

\* pjwait() only ever waits for running processes of the foreground: it never
\* prints "BUG: waiting for background job!".
WaitsForForeground ==
  pc \in {"wait", "pre", "susp"} /\ jw # NULL =>
    \A q \in Ring(tab, jw) : "PRUNNING" \in tab.flags[q] => "PFOREGND" \in tab.flags[q]

\* What pflush() says of itself with "BUG: process flushed twice": neither dojobs()
\* nor pjwait() flushes a job that pchild() flushed while the one printed it and
\* the other waited for it.  It does not hold where notify is set.
NeverFlushedTwice ==
  /\ pc = "jobs" /\ loop.lead # NULL /\ ~loop.alive
     /\ {q \in Ring(tab, loop.lead) : q > loop.at} = {}
       => tab.procid[loop.lead] # 0
  /\ pc = "wait" /\ jw # NULL => tab.procid[jw] # 0

\* Where the shell still has to deal with the job of p without being told.
InProgress(p) ==
  \/ tab.pcurrjob # NULL /\ tab.job[tab.pcurrjob] = tab.job[p]
  \/ hook.save # NULL /\ tab.job[hook.save] = tab.job[p]
  \/ jw # NULL /\ tab.job[jw] = tab.job[p]
  \/ hook.arg # NULL /\ tab.job[hook.arg] = tab.job[p]
  \/ loop.lead # NULL /\ tab.job[loop.lead] = tab.job[p]

\* A job that has ended and that nobody waits for is flagged for pnote(), and
\* pnote() will run or is still on its way to it: no ended job stays in the
\* table without ever being reported.
NeverForgotten ==
  \A p \in LiveLeaders(tab) :
    JobFlags(tab, p) \cap {"PRUNNING", "PSTOPPED"} = {} /\ ~InProgress(p) =>
      /\ "PNEEDNOTE" \in tab.flags[p]
      /\ tab.neednote \/ (pc = "note" /\ p < loop.at)

\* No SIGCHLD is lost between the test of PRUNNING and sigsuspend(): a wait ends
\* once what it waits for has ended or stopped.
WaitReturns == (pc \in {"wait", "pre", "susp"}) ~> (pc \notin {"wait", "pre", "susp"})

\* Every job that has ended is eventually flushed, which is to say reported.
EventuallyFlushed ==
  \A p \in Slots :
    (p \in LiveLeaders(tab) /\ JobFlags(tab, p) \cap {"PRUNNING", "PSTOPPED"} = {})
      ~> tab.procid[p] = 0
=============================================================================
