-------------------------- MODULE JobControlProofs --------------------------
(***************************************************************************)
(* Type correctness of JobControl, for every value of its constants.       *)
(* TypeOK is not inductive: Fork decrements todo and allocates a process,   *)
(* and the end of a hook goes back to where it was called, so the          *)
(* invariant also says how todo, the free slots and hook go with pc.       *)
(***************************************************************************)
EXTENDS JobControl, ProcTableProofs

HookPCs == {"wait", "pre", "susp"}              \* where a hook's command is waited for

TypeInv ==
  /\ TypeOK
  /\ tab.n + todo <= MaxProcs
  /\ pc = "fork" => todo > 0
  /\ hook # NoHook /\ pc # "hung" =>
       /\ pc \in HookPCs /\ jw # NULL
       /\ hook.ret \in {"fork", "start"}
       /\ hook.ret = "fork" => todo > 0

LEMMA EnterWaitType ==
  ASSUME NEW T \in Tables, TypeInv, EnterWait(T)
  PROVE  /\ tab' \in Tables /\ tab'.n = T.n
         /\ jw' \in Ptr /\ pc' \in {"wait", "hung"}
         /\ pc' = "wait" => jw' # NULL
         /\ pc' = "hung" => jw' = jw
<1> DEFINE T1 == FreeFlushed(T)
<1>1. T1 \in Tables /\ T1.n = T.n
  BY FreeFlushedType DEF FreeFlushed, Tables
<1>2. CASE WalkEnds(T1, T1.pcurrjob)
  <2>1. Leader(T1, T1.pcurrjob) \in Slots  BY <1>2, LeaderSlot
  <2>. QED BY <1>1, <1>2, <2>1, SlotsPtr DEF EnterWait
<1>3. CASE ~WalkEnds(T1, T1.pcurrjob)
  BY <1>1, <1>3 DEF EnterWait, TypeInv, TypeOK
<1>. QED BY <1>2, <1>3

Loops == [i : Nat, at : Nat, lead : Ptr, alive : BOOLEAN]

LEMMA NoLoopType ==
  /\ NoLoop \in Loops
  /\ \A k \in Nat : [NoLoop EXCEPT !.at = k] \in Loops /\ [NoLoop EXCEPT !.i = k] \in Loops
BY SlotsPtr DEF NoLoop, Loops

LEMMA TypeInvInit == Init => TypeInv
<1> SUFFICES ASSUME Init PROVE TypeInv  OBVIOUS
<1>1. EmptyTable \in Tables  BY SlotsPtr DEF EmptyTable, Tables
<1>2. EmptyTable.n + 0 <= MaxProcs  BY ProcTableAssumption DEF EmptyTable
<1>. QED BY <1>1, <1>2, SlotsPtr DEF Init, TypeInv, TypeOK, PCs, NoLoop, NoHook

(* The fields of T that the typing of control relies on, for the routines   *)
(* that allocate nothing.                                                   *)
LEMMA pflushN ==
  ASSUME NEW T \in Tables, NEW p
  PROVE  pflush(T, p).n = T.n
<1> DEFINE T1 == pclrcurr(T, Leader(T, p))
<1>1. T1.n = T.n  BY pclrcurrShape DEF SameShape
<1>. QED BY <1>1 DEF pflush, SetFlags

LEMMA pchildN ==
  ASSUME NEW T \in Tables, NEW pp, NEW st \in {"PSTOPPED"} \cup ExitStates,
         Unreported(T, pp, st) => WalkEnds(T, pp)
  PROVE  pchild(T, pp, st).n = T.n
<1>1. Unforegrounded(T, pp, st).n = T.n  BY UnforegroundedType DEF SameShape
<1>2. ASSUME Unreported(T, pp, st)
      PROVE  /\ Settled(T, pp, st) \in Tables /\ Settled(T, pp, st).n = T.n
             /\ pflush(Settled(T, pp, st), pp).n = T.n
  BY <1>2, SettledType, pflushN DEF SameShape
<1>. QED BY <1>1, <1>2 DEF pchild, SetFlags

LEMMA pstartN ==
  ASSUME NEW T \in Tables, NEW pp \in Slots, NEW f \in BOOLEAN
  PROVE  pstart(T, pp, f).n = T.n
<1>1. \A U \in Tables : pclrcurr(U, pp).n = U.n  BY pclrcurrShape DEF SameShape
<1> DEFINE alive == {q \in Ring(T, pp) : T.flags[q] \cap {"PRUNNING", "PSTOPPED"} # {}}
           add == {"PRUNNING"} \cup (IF f THEN {"PFOREGND"} ELSE {})
           T1 == SetFlags(T, alive, add,
                 {"PSTOPPED"} \cup (IF f THEN {} ELSE {"PFOREGND"}))
<1>2. add \in SUBSET Flags  BY DEF Flags, PALLSTATES
<1>3. T1 \in Tables /\ T1.n = T.n  BY <1>2, SetFlagsType DEF SetFlags, Tables
<1>. QED BY <1>1, <1>3 DEF pstart

LEMMA AfterPjwaitType ==
  ASSUME TypeInv, jw # NULL, ~PjwaitHangs
  PROVE  AfterPjwait(tab) \in Tables /\ AfterPjwait(tab).n = tab.n
<1>1. tab \in Tables  BY DEF TypeInv, TypeOK
<1>2. CASE tab.procid[jw] = 0  BY <1>1, <1>2 DEF AfterPjwait
<1>3. CASE tab.procid[jw] # 0
  <2>1. WalkEnds(tab, jw)  BY <1>3 DEF PjwaitHangs
  <2>. QED BY <1>1, <2>1, pflushType, pflushN DEF AfterPjwait
<1>. QED BY <1>2, <1>3

-----------------------------------------------------------------------------
(* One lemma per action.                                                    *)

LEMMA ChildChangesType ==
  ASSUME TypeInv, NEW i \in Pids, NEW st \in {"zombie", "stop"},
         NEW what \in {"PSTOPPED"} \cup ExitStates, ChildChanges(i, st, what)
  PROVE  TypeInv'
<1>1. /\ kst' \in [Pids -> {"none", "run", "stop", "zombie"}]
      /\ news' \in [Pids -> {"none", "PSTOPPED"} \cup ExitStates]
  BY DEF ChildChanges, TypeInv, TypeOK
<1>2. sigpend' \in BOOLEAN /\ pchild_pending' \in BOOLEAN
  BY DEF ChildChanges, Raise, TypeInv, TypeOK
<1>3. UNCHANGED <<tab, pgrp, blocked, pchild_disabled, inhandler, pc, todo, fg,
                  nosigchld, jw, loop, hook>>
  BY DEF ChildChanges, control
<1>. QED BY <1>1, <1>2, <1>3 DEF TypeInv, TypeOK

LEMMA KernelType == ASSUME TypeInv, NEW i \in Pids,
                           ChildExits(i) \/ ChildStops(i) \/ ChildContinues(i)
                    PROVE  TypeInv'
<1>1. ASSUME ChildExits(i) PROVE TypeInv'
  <2>1. PICK st \in Exits : ChildChanges(i, "zombie", st)  BY <1>1 DEF ChildExits
  <2>. QED BY <2>1, JobControlAssumption, ChildChangesType
<1>2. ASSUME ChildStops(i) PROVE TypeInv'
  BY <1>2, ChildChangesType DEF ChildStops
<1>3. ASSUME ChildContinues(i) PROVE TypeInv'
  BY <1>3 DEF ChildContinues, signals, control, TypeInv, TypeOK
<1>. QED BY <1>1, <1>2, <1>3

LEMMA HandlePendingType == ASSUME TypeInv, HandlePending PROVE TypeInv'
BY DEF HandlePending, kernel, control, TypeInv, TypeOK

LEMMA PchildReturnsType == ASSUME TypeInv, PchildReturns PROVE TypeInv'
BY DEF PchildReturns, kernel, control, TypeInv, TypeOK

LEMMA HangType ==
  ASSUME TypeInv, Hang
  PROVE  /\ pc' \in PCs /\ todo' \in Nat /\ fg' \in BOOLEAN /\ nosigchld' \in BOOLEAN
         /\ jw' \in Ptr /\ loop' \in Loops
         /\ hook' \in [ret : {"none", "fork", "start"}, save : Ptr, arg : Ptr]
         /\ todo' = todo /\ pc' = "hung"
BY DEF Hang, TypeInv, TypeOK, PCs, Loops

LEMMA Wait3Type == ASSUME TypeInv, NEW i \in Pids, Wait3(i) PROVE TypeInv'
<1> DEFINE pp == Greatest(WithPid(tab, i))
<1>1. tab \in Tables /\ news[i] \in {"PSTOPPED"} \cup ExitStates
  BY DEF TypeInv, TypeOK, Wait3, Reap
<1>2. pp \in Ptr
  <2>1. WithPid(tab, i) \subseteq Ptr /\ 0 \in Ptr
    BY SlotsPtr DEF WithPid, Proclist, NULL
  <2>. QED BY <2>1, GreatestIn
<1>3. /\ kst' \in [Pids -> {"none", "run", "stop", "zombie"}]
      /\ news' \in [Pids -> {"none", "PSTOPPED"} \cup ExitStates]
      /\ pgrp' \in [Pids -> Pids \cup {0}]
      /\ sigpend' \in BOOLEAN /\ blocked' \in BOOLEAN /\ inhandler' \in BOOLEAN
      /\ pchild_pending' \in BOOLEAN /\ pchild_disabled' \in BOOLEAN
  BY DEF Wait3, Reap, signals, TypeInv, TypeOK
<1> HIDE DEF pp
<1>4. CASE pp = NULL
  BY <1>3, <1>4 DEF pp, Wait3, control, TypeInv, TypeOK
<1>5. CASE pp # NULL /\ Unreported(tab, pp, news[i]) /\ ~WalkEnds(tab, pp)
  <2>1. Hang /\ tab' = Collected(tab, pp, news[i])
    BY <1>5 DEF pp, Wait3
  <2>2. tab' \in Tables /\ tab'.n = tab.n
    <3>1. Collected(tab, pp, news[i]) \in Tables  BY <1>1, CollectedType
    <3>2. SameShape(tab, Collected(tab, pp, news[i]))
      BY <1>1, SetFlagsShape DEF Collected
    <3>. QED BY <2>1, <3>1, <3>2 DEF SameShape
  <2>3. tab.n + todo <= MaxProcs  BY DEF TypeInv
  <2>4. TypeOK'  BY <1>3, <2>1, <2>2, HangType DEF TypeOK, Loops
  <2>. QED BY <2>1, <2>2, <2>3, <2>4, HangType DEF TypeInv
<1>6. CASE pp # NULL /\ (Unreported(tab, pp, news[i]) => WalkEnds(tab, pp))
  <2>1. tab' = pchild(tab, pp, news[i]) /\ UNCHANGED control
    BY <1>6 DEF pp, Wait3
  <2>2. pp \in Slots  BY <1>2, <1>6 DEF Ptr, Slots, NULL
  <2>3. tab' \in Tables /\ tab'.n = tab.n
    BY <1>1, <1>6, <2>1, <2>2, pchildType, pchildN
  <2>. QED BY <1>3, <2>1, <2>3 DEF control, TypeInv, TypeOK
<1>. QED BY <1>4, <1>5, <1>6

LEMMA TopType == ASSUME TypeInv, Top PROVE TypeInv'
<1>1. tab \in Tables  BY DEF TypeInv, TypeOK
<1>2. UNCHANGED <<kst, news, pgrp, sigpend, blocked, pchild_pending, pchild_disabled, inhandler>>
  BY DEF Top, Quiet, kernel
<1>3. CASE Hang /\ UNCHANGED tab
  <2>1. TypeOK'  BY <1>2, <1>3, HangType DEF TypeInv, TypeOK, Loops
  <2>. QED BY <1>3, <2>1, HangType DEF TypeInv
<1>4. CASE ~(Hang /\ UNCHANGED tab)
  <2>1. /\ tab' = [pendjob(tab) EXCEPT !.neednote = FALSE]
        /\ pc' = IF tab.neednote THEN "note" ELSE "cmd"
        /\ loop' = IF tab.neednote THEN [NoLoop EXCEPT !.at = MaxProcs + 1] ELSE NoLoop
        /\ UNCHANGED <<todo, fg, nosigchld, jw, hook>>
        /\ pc = "top"
    BY <1>4 DEF Top
  <2>2. tab' \in Tables /\ tab'.n = tab.n
    <3>1. pendjob(tab) \in Tables /\ pendjob(tab).n = tab.n
      BY <1>1, pendjobType DEF pendjob, Tables
    <3> HIDE DEF pendjob
    <3>2. \A T \in Tables : [T EXCEPT !.neednote = FALSE] \in Tables
                            /\ [T EXCEPT !.neednote = FALSE].n = T.n
      BY DEF Tables
    <3>. QED BY <2>1, <3>1, <3>2
  <2>3. loop' \in Loops
    <3>1. MaxProcs + 1 \in Nat  BY ProcTableAssumption
    <3>2. NoLoop \in Loops /\ [NoLoop EXCEPT !.at = MaxProcs + 1] \in Loops
      BY <3>1, NoLoopType
    <3>. QED BY <2>1, <3>2
  <2>4. pc' \in PCs  BY <2>1 DEF PCs
  <2>5. hook = NoHook  BY <2>1 DEF TypeInv, HookPCs
  <2>. QED BY <1>2, <2>1, <2>2, <2>3, <2>4, <2>5 DEF TypeInv, TypeOK, Loops
<1>. QED BY <1>3, <1>4

LEMMA PnoteType == ASSUME TypeInv, Pnote PROVE TypeInv'
<1> DEFINE pp == Greatest(ToNote)
           T1 == SetFlags(tab, {pp}, {}, {"PNEEDNOTE"})
<1>1. tab \in Tables /\ pc = "note" /\ hook = NoHook
  BY DEF Pnote, TypeInv, TypeOK, HookPCs
<1>2. UNCHANGED <<kst, news, pgrp, sigpend, blocked, pchild_pending, pchild_disabled, inhandler>>
  BY DEF Pnote, Quiet, kernel
<1>3. T1 \in Tables /\ SameShape(tab, T1)
  <2> HIDE DEF pp
  <2>. QED BY <1>1, SetFlagsType, SetFlagsShape
<1>4. pp \in Ptr
  <2>1. ToNote \subseteq Ptr /\ 0 \in Ptr
    BY SlotsPtr DEF ToNote, Proclist, NULL
  <2>. QED BY <2>1, GreatestIn
<1>5. CASE pp = NULL
  <2>1. /\ pc' = "cmd" /\ loop' = NoLoop
        /\ UNCHANGED <<tab, todo, fg, nosigchld, jw, hook>>
    BY <1>5 DEF Pnote
  <2>. QED BY <1>1, <1>2, <2>1, SlotsPtr DEF TypeInv, TypeOK, PCs, NoLoop
<1>6. CASE pp # NULL /\ ~WalkEnds(tab, pp)
  <2>1. Hang /\ tab' = T1  BY <1>6 DEF Pnote
  <2> HIDE DEF T1
  <2>2. TypeOK'  BY <1>2, <1>3, <2>1, HangType DEF TypeInv, TypeOK, Loops
  <2>. QED BY <1>3, <2>1, <2>2, HangType DEF TypeInv, SameShape
<1>7. CASE pp # NULL /\ WalkEnds(tab, pp)
  <2>1. /\ tab' \in {pflush(T1, pp), T1}
        /\ loop' = [loop EXCEPT !.at = pp]
        /\ UNCHANGED <<pc, todo, fg, nosigchld, jw, hook>>
    BY <1>7 DEF Pnote
  <2> HIDE DEF T1, pp
  <2>2. tab' \in Tables /\ tab'.n = tab.n
    BY <1>3, <1>7, <2>1, WalkEndsShape, pflushType, pflushN DEF SameShape
  <2>3. loop' \in Loops
    BY <1>4, <2>1, SlotsPtr DEF TypeInv, TypeOK, Loops
  <2>. QED BY <1>1, <1>2, <2>1, <2>2, <2>3 DEF TypeInv, TypeOK, Loops
<1>. QED BY <1>5, <1>6, <1>7

LEMMA EndLineType == ASSUME TypeInv, EndLine PROVE TypeInv'
BY DEF EndLine, Quiet, kernel, TypeInv, TypeOK, PCs, HookPCs

LEMMA StartPipelineType ==
  ASSUME TypeInv, NEW n \in 1 .. MaxPipe, NEW b \in BOOLEAN, StartPipeline(n, b)
  PROVE  TypeInv'
<1>1. n \in Nat /\ n > 0  BY JobControlAssumption
<1>. QED BY <1>1 DEF StartPipeline, Quiet, kernel, TypeInv, TypeOK, PCs, HookPCs

LEMMA ForkType == ASSUME TypeInv, NEW i \in Pids, Fork(i) PROVE TypeInv'
<1> DEFINE want  == IF tab.pcurrjob = NULL THEN i ELSE tab.jobid[tab.pcurrjob]
           joins == want = i \/ GroupExists(want)
           T0    == [tab EXCEPT !.pcurrjob = IF joins THEN @ ELSE NULL]
           T1    == palloc(T0, i, fg)
           last  == todo = 1
<1>1. /\ tab \in Tables /\ fg \in BOOLEAN /\ todo \in Nat /\ todo > 0
      /\ tab.n \in Nat /\ tab.n < MaxProcs /\ tab.n + todo <= MaxProcs
      /\ hook = NoHook /\ pc = "fork"
  BY ProcTableAssumption DEF Fork, TypeInv, TypeOK, HookPCs, Tables
<1>2. /\ NewChild(i, IF joins THEN want ELSE i)
      /\ todo' = todo - 1 /\ fg' = (fg /\ ~last)
      /\ UNCHANGED <<inhandler, pchild_disabled, loop, hook>>
  BY DEF Fork, Quiet
<1>3. T0 \in Tables /\ T0.n = tab.n
  <2> HIDE DEF joins
  <2>. QED BY <1>1, SlotsPtr DEF Tables
<1>4. T1 \in Tables /\ T1.n = tab.n + 1
  <2>1. T1 \in Tables  BY <1>1, <1>3, pallocType
  <2>2. T1.n = T0.n + 1  
    <3> HIDE DEF T0
    <3>. QED BY <1>3 DEF palloc, Tables
  <2>. QED BY <1>3, <2>1, <2>2
<1>5. want \in Pids \cup {0}
  <2>1. tab.pcurrjob = NULL \/ tab.pcurrjob \in Slots
    BY <1>1 DEF Tables, Ptr, Slots, NULL
  <2>2. \A p \in Slots : tab.jobid[p] \in Pids \cup {0}  BY <1>1 DEF Tables
  <2>. QED BY <2>1, <2>2
<1>6. /\ kst' \in [Pids -> {"none", "run", "stop", "zombie"}]
      /\ news' \in [Pids -> {"none", "PSTOPPED"} \cup ExitStates]
      /\ pgrp' \in [Pids -> Pids \cup {0}]
  <2> DEFINE g == IF joins THEN want ELSE i
  <2>1. g \in Pids \cup {0}  BY <1>5
  <2> HIDE DEF g
  <2>2. NewChild(i, g)  BY <1>2 DEF g
  <2>. QED BY <2>1, <2>2 DEF NewChild, TypeInv, TypeOK
<1> HIDE DEF T1
<1>7. CASE ~last
  <2>1. /\ tab' = T1 /\ pc' = "fork" /\ nosigchld' = TRUE
        /\ blocked' = (blocked \/ ~nosigchld)
        /\ UNCHANGED <<sigpend, pchild_pending, jw>>
    BY <1>7 DEF Fork, T1
  <2>2. tab'.n + todo' <= MaxProcs /\ todo' \in Nat /\ todo' > 0
    BY <1>1, <1>2, <1>4, <1>7, <2>1, ProcTableAssumption
  <2>3. fg' \in BOOLEAN  BY <1>2
  <2> HIDE DEF want, joins, last
  <2>4. UNCHANGED <<inhandler, pchild_disabled, loop, hook>>  BY <1>2
  <2>. QED BY <1>1, <1>4, <1>6, <2>1, <2>2, <2>3, <2>4 DEF TypeInv, TypeOK, PCs
<1>8. CASE last /\ fg
  <2>1. /\ EnterWait(T1) /\ blocked' = TRUE /\ sigpend' = FALSE
        /\ pchild_pending' = (pchild_pending \/ sigpend) /\ nosigchld' = FALSE
    BY <1>8 DEF Fork, T1
  <2>2. /\ tab' \in Tables /\ tab'.n = tab.n + 1
        /\ jw' \in Ptr /\ pc' \in {"wait", "hung"}
    BY <1>4, <2>1, EnterWaitType
  <2>3. tab'.n + todo' <= MaxProcs  
    BY <1>1, <1>2, <2>2, ProcTableAssumption
  <2>4. todo' \in Nat /\ fg' \in BOOLEAN  BY <1>1, <1>2
  <2> HIDE DEF want, joins, last
  <2>5. UNCHANGED <<inhandler, pchild_disabled, loop, hook>>  BY <1>2
  <2>. QED BY <1>1, <1>6, <2>1, <2>2, <2>3, <2>4, <2>5 DEF TypeInv, TypeOK, PCs
<1>9. CASE last /\ ~fg
  <2>1. /\ tab' = pendjob(T1) /\ pc' = "cmd" /\ Unblock /\ UNCHANGED jw
        /\ nosigchld' = FALSE
    BY <1>9 DEF Fork, T1
  <2>2. tab' \in Tables /\ tab'.n = tab.n + 1
    <3>1. pendjob(T1).n = T1.n  BY <1>4 DEF pendjob, Tables
    <3>. QED BY <1>4, <2>1, <3>1, pendjobType
  <2>3. tab'.n + todo' <= MaxProcs  
    BY <1>1, <1>2, <2>2, ProcTableAssumption
  <2>4. todo' \in Nat /\ fg' \in BOOLEAN  BY <1>1, <1>2
  <2> HIDE DEF want, joins, last
  <2>5. UNCHANGED <<inhandler, pchild_disabled, loop, hook>>  BY <1>2
  <2>. QED BY <1>1, <1>6, <2>1, <2>2, <2>3, <2>4, <2>5 DEF TypeInv, TypeOK, PCs, Unblock
<1>. QED BY <1>7, <1>8, <1>9

LEMMA UnblockType ==
  ASSUME TypeInv, Unblock
  PROVE  blocked' \in BOOLEAN /\ sigpend' \in BOOLEAN /\ pchild_pending' \in BOOLEAN
BY DEF Unblock, TypeInv, TypeOK

LEMMA ForkErrorType == ASSUME TypeInv, ForkError PROVE TypeInv'
<1>1. blocked' \in BOOLEAN /\ sigpend' \in BOOLEAN /\ pchild_pending' \in BOOLEAN
  BY UnblockType DEF ForkError
<1>2. /\ pc = "fork" /\ pc' = "top" /\ todo' = 0 /\ nosigchld' = TRUE /\ fg' = FALSE
      /\ UNCHANGED <<tab, kst, news, pgrp, pchild_disabled, inhandler, jw, loop, hook>>
  BY DEF ForkError, Quiet, kernel
<1>3. hook = NoHook  BY <1>2 DEF TypeInv, HookPCs
<1>4. tab'.n + todo' <= MaxProcs
  BY <1>2, ProcTableAssumption DEF TypeInv, TypeOK, Tables
<1>5. TypeOK'  BY <1>1, <1>2 DEF TypeInv, TypeOK, PCs
<1>. QED BY <1>2, <1>3, <1>4, <1>5 DEF TypeInv

LEMMA HookType == ASSUME TypeInv, NEW i \in Pids, Hook(i) PROVE TypeInv'
<1> DEFINE T1 == palloc(psavejob(tab), i, TRUE)
<1>1. tab \in Tables /\ todo \in Nat /\ tab.n + todo < MaxProcs /\ pc \in {"fork", "start"}
  BY JobControlAssumption DEF Hook, TypeInv, TypeOK
<1>2. psavejob(tab) \in Tables /\ psavejob(tab).n = tab.n
  BY <1>1, psavejobType DEF psavejob, Tables
<1>3. T1 \in Tables /\ T1.n = tab.n + 1
  <2>1. psavejob(tab).n < MaxProcs  BY <1>1, <1>2, ProcTableAssumption DEF Tables
  <2>2. T1 \in Tables  BY <1>2, <2>1, pallocType
  <2>3. T1.n = psavejob(tab).n + 1  BY <1>2 DEF palloc, Tables
  <2>. QED BY <1>2, <2>2, <2>3
<1>4. /\ NewChild(i, i) /\ EnterWait(T1)
      /\ hook' = [ret |-> pc, save |-> tab.pcurrjob, arg |-> jw]
      /\ nosigchld' = FALSE /\ blocked' = TRUE /\ sigpend' = FALSE
      /\ pchild_pending' = (pchild_pending \/ sigpend)
      /\ UNCHANGED <<pchild_disabled, todo, fg, loop, inhandler>>
  BY DEF Hook, Quiet
<1> HIDE DEF T1
<1>5. /\ tab' \in Tables /\ tab'.n = tab.n + 1
      /\ jw' \in Ptr /\ pc' \in {"wait", "hung"}
  BY <1>3, <1>4, EnterWaitType
<1>6. pc' = "wait" => jw' # NULL  BY <1>3, <1>4, EnterWaitType
<1>7. /\ kst' \in [Pids -> {"none", "run", "stop", "zombie"}]
      /\ news' \in [Pids -> {"none", "PSTOPPED"} \cup ExitStates]
      /\ pgrp' \in [Pids -> Pids \cup {0}]
  BY <1>4 DEF NewChild, TypeInv, TypeOK
<1>8. hook' \in [ret : {"none", "fork", "start"}, save : Ptr, arg : Ptr]
  BY <1>1, <1>4 DEF TypeInv, TypeOK, Tables
<1>9. tab'.n + todo' <= MaxProcs
  BY <1>1, <1>4, <1>5, ProcTableAssumption DEF Tables
<1>10. TypeOK'
  BY <1>4, <1>5, <1>7, <1>8 DEF TypeInv, TypeOK, PCs
<1>11. hook'.ret = "fork" => todo' > 0
  BY <1>1, <1>4 DEF TypeInv
<1>. QED BY <1>1, <1>4, <1>5, <1>6, <1>9, <1>10, <1>11 DEF TypeInv, HookPCs

LEMMA WaitingType ==
  ASSUME TypeInv, WaitCheck \/ Sigsuspend \/ SigsuspendReturns \/ WaitInterrupted
  PROVE  TypeInv'
<1>1. ASSUME WaitCheck PROVE TypeInv'
  BY <1>1 DEF WaitCheck, Quiet, kernel, TypeInv, TypeOK, PCs, HookPCs
<1>2. ASSUME Sigsuspend PROVE TypeInv'
  BY <1>2 DEF Sigsuspend, Quiet, kernel, TypeInv, TypeOK, PCs, HookPCs
<1>3. ASSUME SigsuspendReturns PROVE TypeInv'
  BY <1>3 DEF SigsuspendReturns, Quiet, kernel, TypeInv, TypeOK, PCs, HookPCs
<1>4. ASSUME WaitInterrupted PROVE TypeInv'
  <2>1. blocked' \in BOOLEAN /\ sigpend' \in BOOLEAN /\ pchild_pending' \in BOOLEAN
    BY <1>4, UnblockType DEF WaitInterrupted
  <2>2. /\ pc = "susp" /\ jw = NULL /\ pc' = "top"
        /\ UNCHANGED <<tab, kst, news, pgrp, pchild_disabled, inhandler, todo, fg,
                       nosigchld, jw, loop, hook>>
    BY <1>4 DEF WaitInterrupted, Quiet, kernel
  <2>3. hook = NoHook  BY <2>2 DEF TypeInv
  <2>. QED BY <2>1, <2>2, <2>3 DEF TypeInv, TypeOK, PCs
<1>. QED BY <1>1, <1>2, <1>3, <1>4

LEMMA WaitEndsType == ASSUME TypeInv, WaitEnds PROVE TypeInv'
<1>1. /\ blocked' \in BOOLEAN /\ sigpend' \in BOOLEAN /\ pchild_pending' \in BOOLEAN
      /\ UNCHANGED <<kst, news, pgrp, pchild_disabled, inhandler>>
      /\ pc = "wait"
  BY UnblockType DEF WaitEnds, Quiet, kernel
<1> DEFINE T == AfterPjwait(tab)
<1>2. CASE jw = NULL
  <2>1. pc' = "cmd" /\ UNCHANGED <<tab, todo, fg, nosigchld, jw, loop, hook>>
    BY <1>2 DEF WaitEnds
  <2>2. hook = NoHook  BY <1>1, <1>2 DEF TypeInv
  <2>. QED BY <1>1, <2>1, <2>2 DEF TypeInv, TypeOK, PCs
<1>3. CASE jw # NULL /\ PjwaitHangs
  <2>1. Hang /\ UNCHANGED tab  BY <1>3 DEF WaitEnds
  <2>2. TypeOK'  BY <1>1, <2>1, HangType DEF TypeInv, TypeOK, Loops
  <2>. QED BY <2>1, <2>2, HangType DEF TypeInv
<1>4. CASE jw # NULL /\ ~PjwaitHangs /\ hook = NoHook
  <2>1. /\ tab' = T /\ pc' = AfterPjwaitPc(tab) /\ jw' = NULL
        /\ UNCHANGED <<todo, fg, nosigchld, loop, hook>>
    BY <1>4 DEF WaitEnds
  <2>2. tab' \in Tables /\ tab'.n = tab.n  BY <1>4, <2>1, AfterPjwaitType
  <2>3. pc' \in {"top", "cmd"}  BY <2>1 DEF AfterPjwaitPc
  <2> HIDE DEF T
  <2>. QED BY <1>1, <1>4, <2>1, <2>2, <2>3, SlotsPtr DEF TypeInv, TypeOK, PCs
<1>5. CASE jw # NULL /\ ~PjwaitHangs /\ hook # NoHook
  <2> DEFINE T1 == psavejob_cleanup(T)
  <2>1. HookReturns(T)  BY <1>5 DEF WaitEnds
  <2>2. T \in Tables /\ T.n = tab.n  BY <1>5, AfterPjwaitType
  <2> HIDE DEF T
  <2>3. T1 \in Tables /\ T1.n = tab.n
    BY <2>2, psavejobType DEF psavejob_cleanup, Tables
  <2> HIDE DEF T1
  <2>4. CASE tab' = T1 /\ Hang
    <3>1. TypeOK'  BY <1>1, <2>3, <2>4, HangType DEF TypeInv, TypeOK, Loops
    <3>. QED BY <2>3, <2>4, <3>1, HangType DEF TypeInv
  <2>5. CASE ~(tab' = T1 /\ Hang)
    <3>1. /\ tab' = [pendjob(T1) EXCEPT !.pcurrjob = hook.save]
          /\ pc' = hook.ret /\ jw' = hook.arg /\ hook' = NoHook
          /\ UNCHANGED <<todo, fg, nosigchld, loop>>
      BY <2>1, <2>5 DEF HookReturns, T1
    <3>2. pendjob(T1) \in Tables /\ pendjob(T1).n = T1.n
      BY <2>3, pendjobType DEF pendjob, Tables
    <3>3. /\ hook.save \in Ptr /\ hook.arg \in Ptr
          /\ hook.ret \in {"fork", "start"}
          /\ hook.ret = "fork" => todo > 0
      BY <1>1, <1>5 DEF TypeInv, TypeOK
    <3>4. \A U \in Tables : [U EXCEPT !.pcurrjob = hook.save] \in Tables
                            /\ [U EXCEPT !.pcurrjob = hook.save].n = U.n
      BY <3>3 DEF Tables
    <3>5. tab' \in Tables /\ tab'.n = tab.n  BY <2>3, <3>1, <3>2, <3>4
    <3>6. NoHook \in [ret : {"none", "fork", "start"}, save : Ptr, arg : Ptr]
      BY SlotsPtr DEF NoHook
    <3>7. TypeOK'
      <4>1. tab' \in Tables /\ jw' \in Ptr  BY <3>1, <3>3, <3>5
      <4>2. pc' \in PCs  BY <3>1, <3>3 DEF PCs
      <4>3. hook' \in [ret : {"none", "fork", "start"}, save : Ptr, arg : Ptr]
        BY <3>1, <3>6
      <4>4. UNCHANGED <<todo, fg, nosigchld, loop>>  BY <3>1
      <4>. QED BY <1>1, <4>1, <4>2, <4>3, <4>4 DEF TypeInv, TypeOK
    <3>8. tab'.n + todo' <= MaxProcs  BY <3>1, <3>5 DEF TypeInv
    <3>9. (pc = "fork" => todo > 0)'  BY <3>1, <3>3
    <3>. QED BY <3>1, <3>7, <3>8, <3>9 DEF TypeInv
  <2>. QED BY <2>4, <2>5
<1>. QED BY <1>2, <1>3, <1>4, <1>5

LEMMA PstartType ==
  ASSUME TypeInv, NEW pp \in Slots, NEW b \in BOOLEAN, Pstart(pp, b)
  PROVE  TypeInv'
<1>1. /\ pc = "cmd" /\ tab' = pstart(tab, pp, b) /\ fg' = b /\ jw' = pp
      /\ pchild_disabled' = TRUE /\ pc' \in {"start", "hung"}
      /\ UNCHANGED <<kst, news, pgrp, sigpend, blocked, pchild_pending, inhandler,
                     todo, nosigchld, loop, hook>>
  BY DEF Pstart, Quiet, kernel
<1>2. tab' \in Tables /\ tab'.n = tab.n
  BY <1>1, pstartType, pstartN DEF TypeInv, TypeOK
<1>3. hook = NoHook  BY <1>1 DEF TypeInv, HookPCs
<1>. QED BY <1>1, <1>2, <1>3, SlotsPtr DEF TypeInv, TypeOK, PCs

LEMMA PstartDoneType == ASSUME TypeInv, PstartDone PROVE TypeInv'
<1>1. /\ pc = "start" /\ pchild_disabled' = FALSE /\ fg' = FALSE
      /\ UNCHANGED <<pgrp, sigpend, pchild_pending, inhandler, todo, nosigchld, loop, hook>>
      /\ hook = NoHook
  BY DEF PstartDone, Quiet, TypeInv, HookPCs
<1>2. CASE GroupExists(tab.jobid[jw])
  <2> DEFINE woken == {i \in Pids : kst[i] = "stop" /\ pgrp[i] = tab.jobid[jw]}
  <2>1. /\ kst'  = [i \in Pids |-> IF i \in woken THEN "run" ELSE kst[i]]
        /\ news' = [i \in Pids |-> IF i \in woken THEN "none" ELSE news[i]]
        /\ pc' \in {"wait", "cmd"} /\ blocked' = fg
        /\ jw' \in {jw, NULL} /\ UNCHANGED tab
    BY <1>2 DEF PstartDone
  <2> HIDE DEF woken
  <2>2. /\ kst' \in [Pids -> {"none", "run", "stop", "zombie"}]
        /\ news' \in [Pids -> {"none", "PSTOPPED"} \cup ExitStates]
        /\ jw' \in Ptr /\ blocked' \in BOOLEAN
    BY <2>1, SlotsPtr DEF TypeInv, TypeOK
  <2>. QED BY <1>1, <2>1, <2>2 DEF TypeInv, TypeOK, PCs
<1>3. CASE ~GroupExists(tab.jobid[jw])
  <2>1. /\ tab' = [tab EXCEPT !.procid[jw] = 0] /\ pc' = "top" /\ jw' = NULL
        /\ UNCHANGED <<kst, news, blocked>>
    BY <1>3 DEF PstartDone
  <2>2. tab' \in Tables /\ tab'.n = tab.n  BY <2>1 DEF TypeInv, TypeOK, Tables
  <2>. QED BY <1>1, <2>1, <2>2, SlotsPtr DEF TypeInv, TypeOK, PCs
<1>. QED BY <1>2, <1>3

LEMMA DowaitType == ASSUME TypeInv, Dowait PROVE TypeInv'
BY SlotsPtr DEF Dowait, Quiet, kernel, TypeInv, TypeOK, PCs, HookPCs

LEMMA DonotifyType ==
  ASSUME TypeInv, NEW p \in Slots, Donotify(p) PROVE TypeInv'
<1>1. /\ tab' = SetFlags(tab, {p}, {"PNOTIFY"}, {})
      /\ UNCHANGED <<kst, news, pgrp, sigpend, blocked, pchild_pending, pchild_disabled,
                     inhandler, pc, todo, fg, nosigchld, jw, loop, hook>>
  BY DEF Donotify, Quiet, kernel, control
<1>2. {"PNOTIFY"} \in SUBSET Flags  BY DEF Flags
<1>3. tab' \in Tables /\ tab'.n = tab.n
  BY <1>1, <1>2, SetFlagsType, SetFlagsShape DEF SameShape, TypeInv, TypeOK
<1>. QED BY <1>1, <1>3 DEF TypeInv, TypeOK

LEMMA DojobsStartType == ASSUME TypeInv, DojobsStart PROVE TypeInv'
<1>1. [NoLoop EXCEPT !.i = 1] \in Loops  BY NoLoopType
<1>. QED BY <1>1 DEF DojobsStart, Quiet, kernel, TypeInv, TypeOK, PCs, HookPCs, Loops

LEMMA DojobsPickType == ASSUME TypeInv, DojobsPick PROVE TypeInv'
<1> DEFINE leaders == {p \in Proclist(tab) : tab.index[p] = loop.i
                                             /\ tab.procid[p] = tab.jobid[p]}
           pp == Greatest(leaders)
<1>1. /\ pc = "jobs" /\ hook = NoHook /\ tab \in Tables /\ loop \in Loops
      /\ UNCHANGED <<kst, news, pgrp, sigpend, blocked, pchild_pending, pchild_disabled,
                     inhandler, todo, fg, nosigchld, jw, hook>>
  BY DEF DojobsPick, Quiet, kernel, TypeInv, TypeOK, HookPCs, Loops
<1>2. pp \in Ptr
  <2>1. leaders \subseteq Ptr /\ 0 \in Ptr
    BY SlotsPtr DEF Proclist, NULL
  <2> HIDE DEF leaders
  <2>. QED BY <2>1, GreatestIn
<1>3. CASE loop.i > tab.pmaxindex
  <2>1. pc' = "cmd" /\ loop' = NoLoop /\ UNCHANGED tab  BY <1>3 DEF DojobsPick
  <2>. QED BY <1>1, <2>1, NoLoopType DEF TypeInv, TypeOK, PCs, Loops
<1>4. CASE ~(loop.i > tab.pmaxindex) /\ pp = NULL
  <2>1. loop' = [loop EXCEPT !.i = @ + 1] /\ UNCHANGED <<tab, pc>>
    BY <1>4 DEF DojobsPick
  <2>2. loop' \in Loops  BY <1>1, <2>1 DEF Loops
  <2>. QED BY <1>1, <2>1, <2>2 DEF TypeInv, TypeOK, Loops
<1>5. CASE ~(loop.i > tab.pmaxindex) /\ pp # NULL
  <2>1. /\ tab' = SetFlags(tab, {pp}, {}, {"PNEEDNOTE"})
        /\ loop' = [loop EXCEPT !.at = pp, !.lead = pp, !.alive = Alive(tab, pp)]
        /\ UNCHANGED pc
    BY <1>5 DEF DojobsPick
  <2> HIDE DEF pp
  <2>2. tab' \in Tables /\ tab'.n = tab.n
    BY <1>1, <2>1, SetFlagsType, SetFlagsShape DEF SameShape
  <2>3. Alive(tab, pp) \in BOOLEAN  BY DEF Alive
  <2>4. loop' \in Loops  BY <1>1, <1>2, <2>1, <2>3, SlotsPtr DEF Loops
  <2>. QED BY <1>1, <2>1, <2>2, <2>4 DEF TypeInv, TypeOK, Loops
<1>. QED BY <1>3, <1>4, <1>5

LEMMA DojobsNextType == ASSUME TypeInv, DojobsNext PROVE TypeInv'
<1> DEFINE rest  == {q \in Ring(tab, loop.lead) : q > loop.at}
           next  == Least(rest)
           flush == ~loop.alive /\ tab.procid[loop.lead] # 0
<1>1. /\ pc = "jobs" /\ hook = NoHook /\ tab \in Tables /\ loop \in Loops
      /\ UNCHANGED <<kst, news, pgrp, sigpend, blocked, pchild_pending, pchild_disabled,
                     inhandler>>
  BY DEF DojobsNext, Quiet, kernel, TypeInv, TypeOK, HookPCs, Loops
<1>2. next \in Nat
  <2>1. rest \subseteq Nat  BY RingSlots DEF Slots
  <2> HIDE DEF rest
  <2>. QED BY <2>1, LeastIn
<1>3. CASE rest # {}
  <2>1. /\ loop' = [loop EXCEPT !.at = next, !.alive = @ \/ Alive(tab, next)]
        /\ UNCHANGED <<tab, pc, todo, fg, nosigchld, jw, hook>>
    BY <1>3 DEF DojobsNext
  <2> HIDE DEF next
  <2>2. Alive(tab, next) \in BOOLEAN  BY DEF Alive
  <2>3. loop' \in Loops  BY <1>1, <1>2, <2>1, <2>2 DEF Loops
  <2>. QED BY <1>1, <2>1, <2>3 DEF TypeInv, TypeOK, Loops
<1>4. CASE rest = {} /\ flush /\ ~WalkEnds(tab, loop.lead)
  <2>1. Hang /\ UNCHANGED tab  BY <1>4 DEF DojobsNext
  <2>2. TypeOK'  BY <1>1, <2>1, HangType DEF TypeInv, TypeOK, Loops
  <2>. QED BY <2>1, <2>2, HangType DEF TypeInv
<1>5. CASE rest = {} /\ (flush => WalkEnds(tab, loop.lead))
  <2>1. /\ tab' = IF flush THEN pflush(tab, loop.lead) ELSE tab
        /\ loop' = [NoLoop EXCEPT !.i = loop.i + 1]
        /\ UNCHANGED <<pc, todo, fg, nosigchld, jw, hook>>
    BY <1>5 DEF DojobsNext
  <2>2. tab' \in Tables /\ tab'.n = tab.n
    BY <1>1, <1>5, <2>1, pflushType, pflushN
  <2>3. loop' \in Loops
    <3>1. loop.i + 1 \in Nat  BY <1>1 DEF Loops
    <3>. QED BY <2>1, <3>1, NoLoopType
  <2>. QED BY <1>1, <2>1, <2>2, <2>3 DEF TypeInv, TypeOK, Loops
<1>. QED BY <1>3, <1>4, <1>5

-----------------------------------------------------------------------------
LEMMA TypeInvNext == TypeInv /\ [Next]_vars => TypeInv'
<1> SUFFICES ASSUME TypeInv, [Next]_vars PROVE TypeInv'  OBVIOUS
<1>1. CASE Kernel
  BY <1>1, KernelType DEF Kernel
<1>2. CASE User
  BY <1>2, StartPipelineType, PstartType, DonotifyType, DojobsStartType, DowaitType,
     EndLineType, WaitingType DEF User
<1>3. CASE Shell
  BY <1>3, HandlePendingType, PchildReturnsType, TopType, PnoteType, ForkType,
     ForkErrorType, HookType, WaitingType, WaitEndsType, PstartDoneType,
     DojobsPickType, DojobsNextType DEF Shell
<1>4. CASE \E i \in Pids : Wait3(i)
  BY <1>4, Wait3Type
<1>5. CASE UNCHANGED vars
  BY <1>5 DEF vars, kernel, signals, control, TypeInv, TypeOK
<1>. QED BY <1>1, <1>2, <1>3, <1>4, <1>5 DEF Next

\* In every reachable state every variable has its type, whatever the bounds,
\* the configuration of the shell and the behaviour of the kernel: no routine
\* of sh.proc.c stores anything but a process or NULL in pcurrjob, pcurrent and
\* pprevious, and no command is forked that execute() did not have to fork.
THEOREM TypeCorrect == Spec => []TypeOK
<1>1. TypeInv => TypeOK  BY DEF TypeInv
<1>. QED BY <1>1, TypeInvInit, TypeInvNext, PTL DEF Spec

-----------------------------------------------------------------------------
(***************************************************************************)
(* The table and the kernel agree: a process the table calls running is a  *)
(* child the kernel still has, and pchild() finds it by its pid, whatever  *)
(* the constants are.  RunningExists alone is not inductive: fg and bg     *)
(* make stopped processes running, so what it says of running processes    *)
(* must hold of stopped ones too, and the status of a child that has ended *)
(* must be one that ends a process.                                        *)
(***************************************************************************)

\* p is in the list and has a pid.
InList(T, p) == p \in Proclist(T) /\ T.procid[p] # 0

\* p runs or is stopped, and is the last process the table got for its pid.
KernelHas(p) ==
  /\ kst[tab.procid[p]] # "none"
  /\ \A q \in Proclist(tab) : tab.procid[q] = tab.procid[p] => q <= p

\* A status is waiting for every child that has ended, and for no other pid.
NewsFits ==
  \A i \in Pids :
    /\ kst[i] = "zombie" => news[i] \in ExitStates
    /\ news[i] # "none" => kst[i] # "none"

\* The inductive invariant.
KernelInv ==
  /\ TypeInv
  /\ \A p \in Slots : InList(tab, p) /\ Alive(tab, p) => KernelHas(p)
  /\ NewsFits

\* U has no process that T lacks, and no process comes to life from T to U.
Older(T, U) ==
  /\ U.n = T.n /\ T.freed \subseteq U.freed
  /\ \A q \in Slots : U.procid[q] \in {T.procid[q], 0}
  /\ \A q \in Slots : InList(U, q) /\ Alive(U, q) => Alive(T, q)

(* The routines that allocate nothing.                                      *)

LEMMA OlderTrans ==
  ASSUME NEW T, NEW U, NEW V, Older(T, U), Older(U, V)
  PROVE  Older(T, V)
<1>1. \A q \in Slots : InList(V, q) => InList(U, q)
  BY DEF Older, InList, Proclist
<1>. QED BY <1>1 DEF Older

\* Older depends on the shape and on who is alive.
LEMMA SameOlder ==
  ASSUME NEW T, NEW U, SameShape(T, U), \A q \in Slots : Alive(U, q) => Alive(T, q)
  PROVE  Older(T, U)
BY DEF SameShape, Older

\* SetFlags() that brings nobody to life.
LEMMA SetFlagsOlder ==
  ASSUME NEW T \in Tables, NEW S, NEW add, NEW del,
         \A q \in S : q \in Slots /\ {"PRUNNING", "PSTOPPED"} \cap add # {} => Alive(T, q)
  PROVE  Older(T, SetFlags(T, S, add, del))
<1> DEFINE U == SetFlags(T, S, add, del)
<1>1. \A q \in Slots : U.flags[q] = IF q \in S THEN (T.flags[q] \cup add) \ del ELSE T.flags[q]
  BY DEF SetFlags, Tables
<1>2. SameShape(T, U)  BY SetFlagsShape
<1> HIDE DEF U
<1>3. \A q \in Slots : Alive(U, q) => Alive(T, q)  BY <1>1 DEF Alive
<1>. QED BY <1>2, <1>3, SameOlder DEF U

\* %+ and %- change.
LEMMA pclrcurrOlder ==
  ASSUME NEW T \in Tables, NEW p
  PROVE  Older(T, pclrcurr(T, p))
<1>1. pclrcurr(T, p).flags = T.flags  BY DEF pclrcurr, Tables
<1>. QED BY <1>1, pclrcurrShape, SameOlder DEF Alive

\* pflush() takes processes away.
LEMMA pflushOlder ==
  ASSUME NEW T \in Tables, NEW p, WalkEnds(T, p)
  PROVE  Older(T, pflush(T, p))
<1> DEFINE C  == pclrcurr(T, Leader(T, p))
           ring == Ring(T, p)
           T1 == [C EXCEPT !.pcurrjob = IF Leader(T, p) = @ THEN NULL ELSE @,
                           !.index  = [q \in Slots |-> IF q \in ring THEN 0 ELSE @[q]],
                           !.procid = [q \in Slots |-> IF q \in ring THEN 0 ELSE @[q]]]
           T2 == SetFlags(T1, ring, {}, {"PNEEDNOTE"})
           U  == pflush(T, p)
<1>1. C \in Tables /\ Older(T, C)  BY LeaderSlot, pclrcurrType, pclrcurrOlder
<1> HIDE DEF C
<1>2. T1 \in Tables
  BY <1>1, SlotsPtr, RingSlots DEF Tables
<1>3. /\ T1.n = C.n /\ T1.freed = C.freed /\ T1.flags = C.flags
      /\ T1.procid = [q \in Slots |-> IF q \in ring THEN 0 ELSE C.procid[q]]
  BY <1>1 DEF Tables
<1>4. U.n = T2.n /\ U.freed = T2.freed /\ U.flags = T2.flags /\ U.procid = T2.procid
  BY DEF pflush, SetFlags, C
<1> HIDE DEF T1
<1>5. /\ T2.n = T1.n /\ T2.freed = T1.freed /\ T2.procid = T1.procid
      /\ \A q \in Slots : T2.flags[q] \subseteq T1.flags[q]
  BY <1>2 DEF SetFlags, Tables
<1> HIDE DEF T2, U, ring
<1>6. Older(C, U)
  <2>1. /\ U.n = C.n /\ U.freed = C.freed
        /\ \A q \in Slots : U.procid[q] \in {C.procid[q], 0}
    BY <1>3, <1>4, <1>5
  <2>2. \A q \in Slots : Alive(U, q) => Alive(C, q)
    BY <1>3, <1>4, <1>5 DEF Alive
  <2>. QED BY <2>1, <2>2 DEF Older
<1>. QED BY <1>1, <1>6, OlderTrans DEF U

\* So does free().
LEMMA FreeFlushedOlder == ASSUME NEW T \in Tables PROVE Older(T, FreeFlushed(T))
<1> DEFINE U == FreeFlushed(T)
           dead == {p \in Proclist(T) : T.procid[p] = 0}
<1>1. /\ U.n = T.n /\ U.freed = T.freed \cup dead /\ U.procid = T.procid
      /\ U.flags = [p \in Slots |-> IF p \in dead THEN {} ELSE T.flags[p]]
  BY DEF FreeFlushed, Tables
<1> HIDE DEF U, dead
<1>2. \A q \in Slots : Alive(U, q) => Alive(T, q)  BY <1>1 DEF Alive
<1>3. Older(T, U)  BY <1>1, <1>2 DEF Older
<1>. QED BY <1>3 DEF U

\* pstart() makes running what was stopped.
LEMMA pstartOlder ==
  ASSUME NEW T \in Tables, NEW pp \in Slots, NEW f \in BOOLEAN
  PROVE  Older(T, pstart(T, pp, f))
<1> DEFINE alive == {q \in Ring(T, pp) : T.flags[q] \cap {"PRUNNING", "PSTOPPED"} # {}}
           add == {"PRUNNING"} \cup (IF f THEN {"PFOREGND"} ELSE {})
           del == {"PSTOPPED"} \cup (IF f THEN {} ELSE {"PFOREGND"})
           T1  == SetFlags(T, alive, add, del)
<1>1. T1 \in Tables
  <2>1. add \in SUBSET Flags  BY DEF Flags, PALLSTATES
  <2> HIDE DEF add, del, alive
  <2>. QED BY <2>1, SetFlagsType
<1>2. Older(T, T1)
  <2>1. \A q \in alive : q \in Slots /\ Alive(T, q)  BY RingSlots DEF Alive
  <2> HIDE DEF add, del, alive
  <2>. QED BY <2>1, SetFlagsOlder
<1>3. Older(T1, pclrcurr(T1, pp))  BY <1>1, pclrcurrOlder
<1>4. pstart(T, pp, f) = IF f THEN T1 ELSE pclrcurr(T1, pp)  BY DEF pstart
<1> HIDE DEF T1
<1>. QED BY <1>2, <1>3, <1>4, OlderTrans

\* pchild() ends and stops processes.
LEMMA SettledOlder ==
  ASSUME NEW T \in Tables, NEW pp, NEW st \in {"PSTOPPED"} \cup ExitStates
  PROVE  Older(Unforegrounded(T, pp, st), Settled(T, pp, st))
<1> DEFINE V  == Unforegrounded(T, pp, st)
           fp == Leader(T, pp)
           stopped == {q \in Ring(T, pp) : "PSTOPPED" \in V.flags[q]}
           T2 == SetFlags(V, stopped, {"PREPORTED"}, {})
           U  == Settled(T, pp, st)
<1>1. V \in Tables  BY UnforegroundedType
<1>2. U = IF "PSTOPPED" \in JobFlags(Collected(T, pp, st), pp)
          THEN [T2 EXCEPT !.pprevious = IF T.pcurrent \notin {NULL, fp}
                                        THEN T.pcurrent ELSE @,
                          !.pcurrent  = fp]
          ELSE pclrcurr(T2, fp)
  BY DEF Settled
<1>3. \A q \in stopped : q \in Slots  BY RingSlots
<1> HIDE DEF V, stopped, fp
<1>4. T2 \in Tables
  <2>1. {"PREPORTED"} \in SUBSET Flags  BY DEF Flags
  <2>. QED BY <1>1, <2>1, SetFlagsType
<1>5. Older(V, T2)
  <2>1. {"PRUNNING", "PSTOPPED"} \cap {"PREPORTED"} = {}  OBVIOUS
  <2>. QED BY <1>1, <1>3, <2>1, SetFlagsOlder
<1> HIDE DEF T2, U
<1>6. Older(T2, U)
  <2>1. CASE "PSTOPPED" \in JobFlags(Collected(T, pp, st), pp)
    <3>1. SameShape(T2, U) /\ U.flags = T2.flags  BY <1>2, <1>4, <2>1 DEF SameShape, Tables
    <3>. QED BY <3>1, SameOlder DEF Alive
  <2>2. CASE "PSTOPPED" \notin JobFlags(Collected(T, pp, st), pp)
    BY <1>2, <1>4, <2>2, pclrcurrOlder
  <2>. QED BY <2>1, <2>2
<1>. QED BY <1>5, <1>6, OlderTrans DEF U, V

\* After the status is entered, no process comes to life.
LEMMA pchildOlder ==
  ASSUME NEW T \in Tables, NEW pp, NEW st \in {"PSTOPPED"} \cup ExitStates,
         Unreported(T, pp, st) => WalkEnds(T, pp)
  PROVE  Older(Unforegrounded(T, pp, st), pchild(T, pp, st))
<1> DEFINE V == Unforegrounded(T, pp, st)
           S == Settled(T, pp, st)
           N == SetFlags(S, {Leader(T, pp)}, {"PNEEDNOTE"}, {})
           U == pchild(T, pp, st)
<1>1. CASE ~Unreported(T, pp, st)
  <2>1. U = V  BY <1>1 DEF pchild
  <2>2. Older(V, V)  BY SameOlder DEF SameShape
  <2>. QED BY <2>1, <2>2
<1>2. CASE Unreported(T, pp, st)
  <2>1. WalkEnds(T, pp) /\ S \in Tables /\ WalkEnds(S, pp) /\ Older(V, S)
    BY <1>2, SettledType, SettledOlder, WalkEndsShape
  <2>2. U = S \/ U = pflush(S, pp) \/ U = [N EXCEPT !.neednote = TRUE]
    BY <1>2 DEF pchild
  <2> HIDE DEF S, U, V
  <2>3. Older(S, pflush(S, pp))  BY <2>1, pflushOlder
  <2>4. Older(S, [N EXCEPT !.neednote = TRUE])
    <3>1. Leader(T, pp) \in Slots  BY <2>1, LeaderSlot
    <3>2. Older(S, N) /\ N \in Tables
      <4>1. /\ \A q \in {Leader(T, pp)} : q \in Slots
            /\ {"PRUNNING", "PSTOPPED"} \cap {"PNEEDNOTE"} = {}
            /\ {"PNEEDNOTE"} \in SUBSET Flags
        BY <3>1 DEF Flags
      <4>. QED BY <2>1, <4>1, SetFlagsOlder, SetFlagsType
    <3> HIDE DEF N
    <3>3. /\ SameShape(N, [N EXCEPT !.neednote = TRUE])
          /\ [N EXCEPT !.neednote = TRUE].flags = N.flags
      BY <3>2 DEF SameShape, Tables
    <3>4. Older(N, [N EXCEPT !.neednote = TRUE])  BY <3>3, SameOlder DEF Alive
    <3>. QED BY <3>2, <3>4, OlderTrans
  <2> HIDE DEF N
  <2> DEFINE M == [N EXCEPT !.neednote = TRUE]
  <2>5. Older(V, pflush(S, pp))  BY <2>1, <2>3, OlderTrans
  <2>6. Older(V, M)  BY <2>1, <2>4, OlderTrans
  <2> HIDE DEF M
  <2>7. Older(V, U)  BY <2>1, <2>2, <2>5, <2>6 DEF M
  <2>. QED BY <2>7 DEF U, V
<1>. QED BY <1>1, <1>2

\* palloc() adds the process, running, at the head of the list.
LEMMA pallocNew ==
  ASSUME NEW T \in Tables, T.n < MaxProcs, NEW i \in Pids, NEW f \in BOOLEAN
  PROVE  LET U == palloc(T, i, f)
             p == T.n + 1 IN
         /\ U \in Tables /\ p \in Slots /\ U.n = p /\ U.freed = T.freed
         /\ U.procid[p] = i
         /\ \A q \in Slots : q # p => U.procid[q] = T.procid[q] /\ U.flags[q] = T.flags[q]
<1> DEFINE p  == T.n + 1
           U  == palloc(T, i, f)
<1>1. p \in Slots  BY ProcTableAssumption DEF Slots, Tables
<1>2. U \in Tables  BY pallocType
<1>3. /\ U.n = p /\ U.freed = T.freed
      /\ U.procid = [T.procid EXCEPT ![p] = i]
      /\ U.flags = [T.flags EXCEPT ![p] = {"PRUNNING"} \cup (IF f THEN {"PFOREGND"} ELSE {})]
  BY DEF palloc, Tables
<1> HIDE DEF U
<1>4. U.procid[p] = i /\ \A q \in Slots : q # p => U.procid[q] = T.procid[q] /\ U.flags[q] = T.flags[q]
  BY <1>1, <1>3 DEF Tables
<1>. QED BY <1>1, <1>2, <1>3, <1>4 DEF U

-----------------------------------------------------------------------------
(* The steps.                                                               *)

LEMMA UnchangedOlder == ASSUME NEW T PROVE Older(T, T)
BY SameOlder DEF SameShape

\* A table that differs in what the invariant does not look at.
LEMMA FieldsOlder ==
  ASSUME NEW T, NEW U, U.n = T.n, U.freed = T.freed, U.procid = T.procid, U.flags = T.flags
  PROVE  Older(T, U)
BY DEF Older, Alive, InList, Proclist

\* pendjob(), psavejob() and its cleanup only move pcurrjob.
LEMMA pendjobOlder ==
  ASSUME NEW T \in Tables
  PROVE  /\ Older(T, pendjob(T)) /\ Older(T, [pendjob(T) EXCEPT !.neednote = FALSE])
         /\ Older(T, psavejob(T)) /\ Older(T, psavejob_cleanup(T))
         /\ \A c \in Ptr : Older(T, [pendjob(T) EXCEPT !.pcurrjob = c])
<1> DEFINE Same(U) == /\ U.n = T.n /\ U.freed = T.freed
                      /\ U.procid = T.procid /\ U.flags = T.flags
<1>1. \A U : Same(U) => Older(T, U)  BY FieldsOlder
<1>2. Same(pendjob(T)) /\ Same([pendjob(T) EXCEPT !.neednote = FALSE])
  BY DEF pendjob, Tables
<1>3. Same(psavejob(T)) /\ Same(psavejob_cleanup(T))
  BY DEF psavejob, psavejob_cleanup, Tables
<1>4. \A c \in Ptr : Same([pendjob(T) EXCEPT !.pcurrjob = c])
  BY DEF pendjob, Tables
<1> HIDE DEF Same
<1>. QED BY <1>1, <1>2, <1>3, <1>4

\* The same for the actions that allocate nothing.
LEMMA TopOlder == ASSUME TypeInv, Top PROVE Older(tab, tab')
<1>1. tab \in Tables  BY DEF TypeInv, TypeOK
<1>2. tab' = tab \/ tab' = [pendjob(tab) EXCEPT !.neednote = FALSE]  BY DEF Top
<1>. QED BY <1>1, <1>2, pendjobOlder, UnchangedOlder

\* Taking a flag away, and then perhaps flushing the job.
LEMMA UnflaggedOlder ==
  ASSUME NEW T \in Tables, NEW pp \in Slots
  PROVE  LET T1 == SetFlags(T, {pp}, {}, {"PNEEDNOTE"}) IN
         /\ T1 \in Tables /\ Older(T, T1)
         /\ WalkEnds(T, pp) => Older(T, pflush(T1, pp))
<1> DEFINE T1 == SetFlags(T, {pp}, {}, {"PNEEDNOTE"})
<1>1. T1 \in Tables /\ Older(T, T1) /\ SameShape(T, T1)
  <2>1. /\ \A q \in {pp} : q \in Slots
        /\ {"PRUNNING", "PSTOPPED"} \cap {} = {} /\ {} \in SUBSET Flags
    OBVIOUS
  <2>. QED BY <2>1, SetFlagsOlder, SetFlagsType, SetFlagsShape
<1> HIDE DEF T1
<1>2. ASSUME WalkEnds(T, pp) PROVE Older(T, pflush(T1, pp))
  <2>1. WalkEnds(T1, pp)  BY <1>1, <1>2, WalkEndsShape
  <2>2. Older(T1, pflush(T1, pp))  BY <1>1, <2>1, pflushOlder
  <2>. QED BY <1>1, <2>2, OlderTrans
<1>. QED BY <1>1, <1>2 DEF T1

\* pnote().
LEMMA PnoteOlder == ASSUME TypeInv, Pnote PROVE Older(tab, tab')
<1> DEFINE pp == Greatest(ToNote)
           T1 == SetFlags(tab, {pp}, {}, {"PNEEDNOTE"})
<1>1. tab \in Tables  BY DEF TypeInv, TypeOK
<1>2. CASE pp = NULL
  BY <1>2, UnchangedOlder DEF Pnote
<1>3. CASE pp # NULL
  <2>1. pp \in Slots
    <3>1. ToNote \subseteq Slots  BY ProclistSlots DEF ToNote
    <3>2. pp \in Slots \cup {0}  BY <3>1, GreatestIn
    <3>. QED BY <1>3, <3>2 DEF NULL
  <2>2. tab' = T1 \/ (WalkEnds(tab, pp) /\ tab' = pflush(T1, pp))
    BY <1>3 DEF Pnote
  <2> HIDE DEF pp
  <2>. QED BY <1>1, <2>1, <2>2, UnflaggedOlder
<1>. QED BY <1>2, <1>3

\* jobs.
LEMMA DojobsOlder == ASSUME TypeInv, DojobsPick \/ DojobsNext PROVE Older(tab, tab')
<1>1. tab \in Tables  BY DEF TypeInv, TypeOK
<1>2. CASE DojobsPick
  <2> DEFINE leaders == {p \in Proclist(tab) : tab.index[p] = loop.i
                                               /\ tab.procid[p] = tab.jobid[p]}
             pp == Greatest(leaders)
  <2>1. tab' = tab \/ (pp # NULL /\ tab' = SetFlags(tab, {pp}, {}, {"PNEEDNOTE"}))
    BY <1>2 DEF DojobsPick
  <2>2. pp \in Slots \cup {0}
    <3>1. leaders \subseteq Slots  BY ProclistSlots
    <3>. QED BY <3>1, GreatestIn
  <2> HIDE DEF pp
  <2>. QED BY <1>1, <2>1, <2>2, UnflaggedOlder, UnchangedOlder DEF NULL
<1>3. CASE DojobsNext
  <2>1. tab' = tab \/ (WalkEnds(tab, loop.lead) /\ tab' = pflush(tab, loop.lead))
    BY <1>3 DEF DojobsNext
  <2>. QED BY <1>1, <2>1, pflushOlder, UnchangedOlder
<1>. QED BY <1>2, <1>3

\* The end of pjwait() and dowait().
LEMMA WaitEndsOlder == ASSUME TypeInv, WaitEnds PROVE Older(tab, tab')
<1> DEFINE A == AfterPjwait(tab)
           T1 == psavejob_cleanup(A)
<1>1. tab \in Tables /\ hook.save \in Ptr  BY DEF TypeInv, TypeOK
<1>2. ASSUME jw # NULL, ~PjwaitHangs PROVE A \in Tables /\ Older(tab, A)
  <2>1. A \in Tables  BY <1>2, AfterPjwaitType
  <2>2. A = tab \/ (WalkEnds(tab, jw) /\ A = pflush(tab, jw))
    BY <1>2 DEF AfterPjwait, PjwaitHangs
  <2>. QED BY <1>1, <2>1, <2>2, pflushOlder, UnchangedOlder
<1>3. \/ tab' = tab
      \/ /\ jw # NULL /\ ~PjwaitHangs
         /\ tab' = A \/ tab' = T1 \/ tab' = [pendjob(T1) EXCEPT !.pcurrjob = hook.save]
  BY DEF WaitEnds, HookReturns
<1> HIDE DEF A
<1>4. CASE tab' = tab  BY <1>4, UnchangedOlder
<1>5. ASSUME jw # NULL, ~PjwaitHangs,
             tab' = A \/ tab' = T1 \/ tab' = [pendjob(T1) EXCEPT !.pcurrjob = hook.save]
      PROVE  Older(tab, tab')
  <2>1. A \in Tables /\ Older(tab, A)  BY <1>2, <1>5
  <2>2. T1 \in Tables /\ Older(A, T1)  BY <2>1, psavejobType, pendjobOlder
  <2> HIDE DEF T1
  <2>3. Older(tab, T1)  BY <2>1, <2>2, OlderTrans
  <2>4. Older(T1, [pendjob(T1) EXCEPT !.pcurrjob = hook.save])
    BY <1>1, <2>2, pendjobOlder
  <2> DEFINE V == [pendjob(T1) EXCEPT !.pcurrjob = hook.save]
  <2> HIDE DEF V
  <2>5. Older(T1, V)  BY <2>4 DEF V
  <2>6. Older(tab, V)  BY <2>3, <2>5, OlderTrans
  <2>. QED BY <1>5, <2>1, <2>3, <2>6 DEF V
<1>. QED BY <1>3, <1>4, <1>5

\* fg, bg and %n.
LEMMA PstartOlder ==
  ASSUME TypeInv,
         \/ \E p \in Slots, b \in BOOLEAN : Pstart(p, b)
         \/ \E p \in Slots : Donotify(p)
         \/ PstartDone
  PROVE  Older(tab, tab')
<1>1. tab \in Tables  BY DEF TypeInv, TypeOK
<1>2. ASSUME NEW p \in Slots, NEW b \in BOOLEAN, Pstart(p, b) PROVE Older(tab, tab')
  <2>1. tab' = pstart(tab, p, b)  BY <1>2 DEF Pstart
  <2>. QED BY <1>1, <2>1, pstartOlder
<1>3. ASSUME NEW p \in Slots, Donotify(p) PROVE Older(tab, tab')
  <2>1. tab' = SetFlags(tab, {p}, {"PNOTIFY"}, {})  BY <1>3 DEF Donotify
  <2>2. /\ \A q \in {p} : q \in Slots
        /\ {"PRUNNING", "PSTOPPED"} \cap {"PNOTIFY"} = {}
    OBVIOUS
  <2>. QED BY <1>1, <2>1, <2>2, SetFlagsOlder
<1>4. CASE PstartDone
  <2>1. tab' = tab \/ tab' = [tab EXCEPT !.procid[jw] = 0]  BY <1>4 DEF PstartDone
  <2>2. ASSUME tab' = [tab EXCEPT !.procid[jw] = 0] PROVE Older(tab, tab')
    <3>1. /\ tab'.n = tab.n /\ tab'.freed = tab.freed /\ tab'.flags = tab.flags
          /\ \A q \in Slots : tab'.procid[q] \in {tab.procid[q], 0}
      BY <1>1, <2>2 DEF Tables
    <3>. QED BY <3>1 DEF Older, Alive
  <2>. QED BY <2>1, <2>2, UnchangedOlder
<1>. QED BY <1>2, <1>3, <1>4

\* The steps that allocate nothing and take no child away.
LEMMA OlderStep ==
  ASSUME KernelInv, TypeInv', Older(tab, tab'), NewsFits',
         \A i \in Pids : kst[i] # "none" => kst'[i] # "none"
  PROVE  KernelInv'
<1>1. ASSUME NEW p \in Slots, InList(tab', p), Alive(tab', p) PROVE KernelHas(p)'
  <2>1. InList(tab, p) /\ Alive(tab, p) /\ tab'.procid[p] = tab.procid[p]
    BY <1>1 DEF Older, InList, Proclist
  <2>2. KernelHas(p) /\ tab.procid[p] \in Pids
    BY <2>1 DEF KernelInv, TypeInv, TypeOK, Tables, InList
  <2>3. \A q \in Proclist(tab') : q \in Proclist(tab) /\ tab'.procid[q] \in {tab.procid[q], 0}
    BY DEF Older, Proclist
  <2>4. kst'[tab'.procid[p]] # "none"  BY <2>1, <2>2 DEF KernelHas
  <2>5. \A q \in Proclist(tab') : tab'.procid[q] = tab'.procid[p] => q <= p
    BY <1>1, <2>1, <2>2, <2>3 DEF KernelHas, InList
  <2>. QED BY <2>4, <2>5 DEF KernelHas
<1>. QED BY <1>1 DEF KernelInv

\* Children run, stop, continue and end without the shell.
LEMMA KernelKeeps ==
  ASSUME KernelInv, NEW i \in Pids, ChildExits(i) \/ ChildStops(i) \/ ChildContinues(i)
  PROVE  KernelInv'
<1>1. tab' = tab /\ TypeInv'
  BY KernelType DEF KernelInv, ChildExits, ChildStops, ChildContinues, ChildChanges
<1>2. /\ kst[i] # "none"
      /\ \E st \in {"zombie", "stop", "run"}, what \in {"none", "PSTOPPED"} \cup ExitStates :
           /\ kst' = [kst EXCEPT ![i] = st] /\ news' = [news EXCEPT ![i] = what]
           /\ st = "zombie" => what \in ExitStates
  BY JobControlAssumption DEF ChildExits, ChildStops, ChildContinues, ChildChanges
<1>3. kst \in [Pids -> {"none", "run", "stop", "zombie"}]
      /\ news \in [Pids -> {"none", "PSTOPPED"} \cup ExitStates] /\ NewsFits
  BY DEF KernelInv, TypeInv, TypeOK
<1>4. (\A j \in Pids : kst[j] # "none" => kst'[j] # "none")  BY <1>2, <1>3
<1>5. NewsFits'  BY <1>2, <1>3 DEF NewsFits
<1>. QED BY <1>1, <1>4, <1>5, OlderStep, UnchangedOlder

\* The new child is running, and its pid was nobody's.
LEMMA ChildAdded ==
  ASSUME KernelInv, TypeInv', NEW T \in Tables, Older(tab, T), T.n < MaxProcs,
         NEW i \in Pids, NEW f \in BOOLEAN, NEW g, FreePid(i), NewChild(i, g),
         Older(palloc(T, i, f), tab')
  PROVE  KernelInv'
<1> DEFINE U == palloc(T, i, f)
           n1 == T.n + 1
<1>1. /\ U \in Tables /\ n1 \in Slots /\ U.n = n1 /\ U.freed = T.freed
      /\ U.procid[n1] = i
      /\ \A q \in Slots : q # n1 => U.procid[q] = T.procid[q] /\ U.flags[q] = T.flags[q]
  BY pallocNew
<1> HIDE DEF U
<1>2. kst[i] = "none" /\ kst' = [kst EXCEPT ![i] = "run"] /\ news' = [news EXCEPT ![i] = "none"]
  BY DEF FreePid, NewChild
<1>3. /\ kst \in [Pids -> {"none", "run", "stop", "zombie"}]
      /\ news \in [Pids -> {"none", "PSTOPPED"} \cup ExitStates] /\ NewsFits
      /\ tab \in Tables
  BY DEF KernelInv, TypeInv, TypeOK
<1>4. NewsFits'  BY <1>2, <1>3 DEF NewsFits
<1>5. T.n \in Nat /\ tab.n = T.n  BY DEF Tables, Older
<1>6. ASSUME NEW p \in Slots, InList(tab', p), Alive(tab', p) PROVE KernelHas(p)'
  <2>1. InList(U, p) /\ Alive(U, p) /\ tab'.procid[p] = U.procid[p]
    BY <1>6 DEF Older, InList, Proclist, U
  <2>2. \A q \in Proclist(tab') : q \in Proclist(U) /\ tab'.procid[q] \in {U.procid[q], 0}
    BY DEF Older, Proclist, U
  <2>3. CASE p = n1
    <3>1. kst'[U.procid[p]] # "none"  BY <1>1, <1>2, <1>3, <2>3
    <3>2. \A q \in Proclist(U) : q <= n1  BY <1>1 DEF Proclist
    <3>. QED BY <2>1, <2>2, <2>3, <3>1, <3>2 DEF KernelHas
  <2>4. CASE p # n1
    <3>1. InList(T, p) /\ Alive(T, p) /\ U.procid[p] = T.procid[p]
      BY <1>1, <1>5, <2>1, <2>4 DEF InList, Proclist, Alive, Slots
    <3>2. InList(tab, p) /\ Alive(tab, p) /\ T.procid[p] = tab.procid[p]
      BY <3>1 DEF Older, InList, Proclist
    <3>3. KernelHas(p) /\ tab.procid[p] \in Pids
      BY <1>3, <3>2 DEF KernelInv, InList, Tables
    <3>4. U.procid[p] # i  BY <1>2, <3>1, <3>2, <3>3 DEF KernelHas
    <3>5. kst'[tab'.procid[p]] # "none"
      BY <1>2, <1>3, <2>1, <3>1, <3>2, <3>3, <3>4 DEF KernelHas
    <3>6. ASSUME NEW q \in Proclist(tab'), tab'.procid[q] = tab'.procid[p] PROVE q <= p
      <4>1. q \in Proclist(U) /\ U.procid[q] = U.procid[p]
        BY <1>6, <2>1, <2>2, <3>6 DEF InList
      <4>2. q # n1  BY <1>1, <3>4, <4>1
      <4>3. q \in Proclist(T) /\ T.procid[q] = T.procid[p] /\ q \in Slots
        BY <1>1, <1>5, <3>1, <4>1, <4>2 DEF Proclist, Slots
      <4>4. q \in Proclist(tab) /\ tab.procid[q] = tab.procid[p]
        BY <3>1, <3>2, <4>3 DEF Older, Proclist, InList
      <4>. QED BY <3>3, <4>4 DEF KernelHas
    <3>. QED BY <3>5, <3>6 DEF KernelHas
  <2>. QED BY <2>3, <2>4
<1>. QED BY <1>4, <1>6 DEF KernelInv

\* A new process gets a pid the kernel was free to give.
LEMMA ForkKeeps ==
  ASSUME KernelInv, NEW i \in Pids, Fork(i) \/ Hook(i)
  PROVE  KernelInv'
<1>1. /\ TypeInv /\ tab \in Tables /\ fg \in BOOLEAN /\ todo \in Nat /\ tab.n \in Nat
      /\ MaxProcs \in Nat /\ tab.n + todo <= MaxProcs /\ (pc = "fork" => todo > 0)
  BY ProcTableAssumption DEF KernelInv, TypeInv, TypeOK, Tables
<1>2. TypeInv'  BY <1>1, ForkType, HookType
<1>3. CASE Fork(i)
  <2> DEFINE want  == IF tab.pcurrjob = NULL THEN i ELSE tab.jobid[tab.pcurrjob]
             joins == want = i \/ GroupExists(want)
             T0    == [tab EXCEPT !.pcurrjob = IF joins THEN @ ELSE NULL]
             T1    == palloc(T0, i, fg)
             g     == IF joins THEN want ELSE i
  <2>1. FreePid(i) /\ NewChild(i, g) /\ pc = "fork"  BY <1>3 DEF Fork
  <2>2. T0 \in Tables /\ T0.n = tab.n /\ Older(tab, T0)
    <3> HIDE DEF joins
    <3>1. /\ T0 \in Tables /\ T0.n = tab.n /\ T0.freed = tab.freed
          /\ T0.procid = tab.procid /\ T0.flags = tab.flags
      BY <1>1, SlotsPtr DEF Tables
    <3> HIDE DEF T0
    <3>. QED BY <3>1, FieldsOlder
  <2>3. tab' = T1 \/ tab' = pendjob(T1) \/ EnterWait(T1)  BY <1>3 DEF Fork
  <2> HIDE DEF T0, g
  <2>4. T0.n < MaxProcs  BY <1>1, <2>1, <2>2
  <2>5. T1 \in Tables  BY <1>1, <2>2, <2>4, pallocType
  <2>6. Older(T1, tab')
    <3> HIDE DEF T1
    <3>1. EnterWait(T1) => tab' = FreeFlushed(T1)  BY DEF EnterWait
    <3>. QED BY <2>3, <2>5, <3>1, UnchangedOlder, pendjobOlder, FreeFlushedOlder
  <2>. QED BY <1>1, <1>2, <2>1, <2>2, <2>4, <2>6, ChildAdded
<1>4. CASE Hook(i)
  <2> DEFINE T0 == psavejob(tab)
             T1 == palloc(T0, i, TRUE)
  <2>1. /\ FreePid(i) /\ NewChild(i, i) /\ tab' = FreeFlushed(T1) /\ tab.n + todo < MaxProcs
    BY <1>4 DEF Hook, EnterWait
  <2>2. T0 \in Tables /\ T0.n = tab.n /\ Older(tab, T0)
    BY <1>1, psavejobType, pendjobOlder DEF psavejob, Tables
  <2> HIDE DEF T0
  <2>3. T0.n < MaxProcs  BY <1>1, <2>1, <2>2
  <2>4. T1 \in Tables  BY <2>2, <2>3, pallocType
  <2>5. Older(T1, tab')  BY <2>1, <2>4, FreeFlushedOlder
  <2>. QED BY <1>2, <2>1, <2>2, <2>3, <2>5, ChildAdded
<1>. QED BY <1>3, <1>4

\* wait3() and pchild(): the process the status goes to is the last with its pid.
LEMMA Wait3Keeps ==
  ASSUME KernelInv, NEW i \in Pids, Wait3(i)
  PROVE  KernelInv'
<1> DEFINE pp == Greatest(WithPid(tab, i))
           st == news[i]
           V  == Unforegrounded(tab, pp, st)
<1>1. /\ tab \in Tables /\ kst \in [Pids -> {"none", "run", "stop", "zombie"}]
      /\ news \in [Pids -> {"none", "PSTOPPED"} \cup ExitStates] /\ NewsFits
      /\ TypeInv /\ TypeInv'
  BY Wait3Type DEF KernelInv, TypeInv, TypeOK
<1>2. /\ news' = [news EXCEPT ![i] = "none"] /\ st # "none"
      /\ kst' = [kst EXCEPT ![i] = IF @ = "zombie" THEN "none" ELSE @]
  BY DEF Wait3, Reap
<1>3. st \in {"PSTOPPED"} \cup ExitStates /\ kst[i] # "none"
  BY <1>1, <1>2 DEF NewsFits
<1>4. NewsFits'  BY <1>1, <1>2 DEF NewsFits
<1>5. \A j \in Pids : j # i => kst'[j] = kst[j]  BY <1>1, <1>2
<1>6. st = "PSTOPPED" => kst'[i] # "none"
  <2>1. "PSTOPPED" \notin ExitStates  BY DEF ExitStates
  <2>. QED BY <1>1, <1>2, <1>3, <2>1 DEF NewsFits
<1>7. WithPid(tab, i) \subseteq Slots  BY ProclistSlots DEF WithPid
\* No process but the last one with the pid is a live one of that pid.
<1>8. ASSUME NEW p \in Slots, InList(tab, p), Alive(tab, p)
      PROVE  tab.procid[p] = i => p = pp
  <2> SUFFICES ASSUME tab.procid[p] = i PROVE p = pp  OBVIOUS
  <2>1. p \in WithPid(tab, i)  BY <1>8 DEF WithPid, InList
  <2>2. pp \in WithPid(tab, i) /\ p <= pp
    BY <1>7, <2>1, GreatestIs
  <2>3. pp <= p
    <3>1. KernelHas(p)  BY <1>8 DEF KernelInv
    <3>. QED BY <2>2, <3>1 DEF KernelHas, WithPid
  <2>4. p \in Int /\ pp \in Int  BY <1>7, <2>2 DEF Slots
  <2> HIDE DEF pp
  <2>. QED BY <2>2, <2>3, <2>4
<1>9. CASE pp = NULL
  <2>1. tab' = tab  BY <1>9 DEF Wait3
  <2>2. ASSUME NEW p \in Slots, InList(tab, p), Alive(tab, p) PROVE KernelHas(p)'
    <3>1. p # NULL  BY SlotsPtr
    <3>2. tab.procid[p] # i  BY <1>8, <1>9, <2>2, <3>1
    <3>3. tab.procid[p] \in Pids /\ KernelHas(p)
      BY <1>1, <2>2 DEF InList, Tables, KernelInv
    <3>. QED BY <1>5, <2>1, <3>2, <3>3 DEF KernelHas
  <2>. QED BY <1>1, <1>4, <2>1, <2>2 DEF KernelInv
<1>10. CASE pp # NULL
  <2> HIDE DEF pp, st
  <2>1. pp \in WithPid(tab, i)
    <3>1. pp \in WithPid(tab, i) \cup {0}  BY DEF Greatest, pp
    <3>. QED BY <1>10, <3>1 DEF NULL
  <2>2. pp \in Slots /\ InList(tab, pp) /\ tab.procid[pp] = i
    BY <1>7, <2>1, ProcTableAssumption DEF WithPid, InList
  <2>3. /\ V \in Tables /\ SameShape(tab, V)
        /\ \A q \in Slots : q # pp => V.flags[q] = tab.flags[q]
        /\ \A f \in Flags : f \in V.flags[pp] <=>
              \/ f = st
              \/ f \in tab.flags[pp] /\ f \notin {"PRUNNING", "PSTOPPED", "PREPORTED", "PFOREGND"}
    BY <1>1, <1>3, <2>2, CollectedIs DEF SameJobs
  <2>4. Older(V, tab')
    <3> DEFINE C == Collected(tab, pp, st)
    <3>1. \/ tab' = C
          \/ tab' = pchild(tab, pp, st) /\ (Unreported(tab, pp, st) => WalkEnds(tab, pp))
      BY <1>10 DEF Wait3, pp, st
    <3>2. Older(V, C)
      <4>1. C \in Tables  BY <1>1, <1>3, CollectedType
      <4>2. SameShape(tab, C)  BY <1>1, SetFlagsShape DEF Collected
      <4>3. V = SetFlags(C, {pp}, {}, {"PFOREGND"})  BY DEF Unforegrounded
      <4> HIDE DEF C
      <4>4. \A q \in Slots : Alive(V, q) <=> Alive(C, q)
        <5>1. V.flags = [q \in Slots |-> IF q \in {pp} THEN (C.flags[q] \cup {}) \ {"PFOREGND"}
                                         ELSE C.flags[q]]
          BY <4>1, <4>3 DEF SetFlags, Tables
        <5>2. \A q \in Slots, f \in {"PRUNNING", "PSTOPPED"} :
                f \in V.flags[q] <=> f \in C.flags[q]
          BY <5>1
        <5> HIDE DEF V
        <5>. QED BY <5>2 DEF Alive
      <4> HIDE DEF V
      <4>. QED BY <2>3, <4>2, <4>4 DEF SameShape, Older
    <3>. QED BY <1>1, <1>3, <3>1, <3>2, pchildOlder
  <2>5. ASSUME NEW p \in Slots, InList(tab', p), Alive(tab', p) PROVE KernelHas(p)'
    <3>1. InList(tab, p) /\ Alive(V, p) /\ tab'.procid[p] = tab.procid[p]
      BY <2>3, <2>4, <2>5 DEF Older, InList, Proclist, SameShape
    <3>2. \A q \in Proclist(tab') : q \in Proclist(tab) /\ tab'.procid[q] \in {tab.procid[q], 0}
      BY <2>3, <2>4 DEF Older, Proclist, SameShape
    <3>3. tab.procid[p] \in Pids /\ tab.procid[p] # 0
      BY <1>1, <3>1 DEF InList, Tables
    <3>4. \A q \in Proclist(tab') :
            tab'.procid[q] = tab'.procid[p] => q \in Proclist(tab) /\ tab.procid[q] = tab.procid[p]
      BY <3>1, <3>2, <3>3
    <3>5. CASE p = pp
      <4>1. st = "PSTOPPED"
        <5>1. {"PRUNNING", "PSTOPPED"} \subseteq Flags
          BY DEF Flags, PALLSTATES
        <5>2. st = "PSTOPPED" \/ st = "PRUNNING"
          <6>1. V.flags[pp] \cap {"PRUNNING", "PSTOPPED"} # {}  BY <3>1, <3>5 DEF Alive
          <6> HIDE DEF V
          <6>. QED BY <2>3, <5>1, <6>1
        <5>. QED BY <1>3, <5>2 DEF ExitStates
      <4>2. kst'[tab'.procid[p]] # "none"  BY <1>6, <2>2, <3>1, <3>5, <4>1
      <4>3. ASSUME NEW q \in Proclist(tab'), tab'.procid[q] = tab'.procid[p] PROVE q <= p
        <5>1. q \in WithPid(tab, i)  BY <2>2, <3>4, <3>5, <4>3 DEF WithPid
        <5>2. q <= Greatest(WithPid(tab, i))
          BY <1>7, <5>1, GreatestIs
        <5>. QED BY <3>5, <5>2 DEF pp
      <4>. QED BY <4>2, <4>3 DEF KernelHas
    <3>6. CASE p # pp
      <4>1. Alive(tab, p)  BY <2>3, <3>1, <3>6 DEF Alive
      <4>2. KernelHas(p) /\ tab.procid[p] # i
        BY <1>8, <3>1, <3>6, <4>1 DEF KernelInv
      <4>3. kst'[tab'.procid[p]] # "none"
        BY <1>5, <3>1, <3>3, <4>2 DEF KernelHas
      <4>. QED BY <3>4, <4>2, <4>3 DEF KernelHas
    <3>. QED BY <3>5, <3>6
  <2>. QED BY <1>1, <1>4, <2>5 DEF KernelInv
<1>. QED BY <1>9, <1>10

\* It holds when the shell starts.
LEMMA KernelInvInit == Init => KernelInv
<1> SUFFICES ASSUME Init PROVE KernelInv  OBVIOUS
<1>1. TypeInv  BY TypeInvInit
<1>2. \A p \in Slots : ~InList(tab, p)
  BY DEF Init, EmptyTable, InList
<1>3. NewsFits  BY DEF Init, NewsFits
<1>. QED BY <1>1, <1>2, <1>3 DEF KernelInv

\* Every step keeps it.
LEMMA KernelInvNext == ASSUME KernelInv, [Next]_vars PROVE KernelInv'
<1>1. TypeInv /\ TypeInv'  BY TypeInvNext DEF KernelInv
<1>2. ASSUME Older(tab, tab'), UNCHANGED <<kst, news>> PROVE KernelInv'
  <2>1. NewsFits'  BY <1>2 DEF KernelInv, NewsFits
  <2>. QED BY <1>1, <1>2, <2>1, OlderStep
<1>3. ASSUME UNCHANGED <<tab, kst, news>> PROVE KernelInv'
  BY <1>2, <1>3, UnchangedOlder
<1>4. CASE Kernel  BY <1>4, KernelKeeps DEF Kernel
<1>5. CASE User
  <2>1. CASE \/ \E n \in 1 .. MaxPipe, b \in BOOLEAN : StartPipeline(n, b)
             \/ DojobsStart \/ Dowait \/ EndLine \/ WaitInterrupted
    <3>1. UNCHANGED <<tab, kst, news>>
      BY <2>1 DEF StartPipeline, DojobsStart, Dowait, EndLine, WaitInterrupted, kernel
    <3>. QED BY <1>3, <3>1
  <2>2. CASE \/ \E p \in Slots, b \in BOOLEAN : Pstart(p, b)
             \/ \E p \in Slots : Donotify(p)
    <3>1. UNCHANGED <<kst, news>>  BY <2>2 DEF Pstart, Donotify, kernel
    <3>. QED BY <1>1, <1>2, <2>2, <3>1, PstartOlder
  <2>. QED BY <1>5, <2>1, <2>2 DEF User
<1>6. CASE Shell
  <2>1. CASE HandlePending \/ PchildReturns \/ ForkError
             \/ WaitCheck \/ Sigsuspend \/ SigsuspendReturns
    <3>1. UNCHANGED <<tab, kst, news>>
      BY <2>1 DEF HandlePending, PchildReturns, ForkError, WaitCheck, Sigsuspend,
                  SigsuspendReturns, kernel
    <3>. QED BY <1>3, <3>1
  <2>2. CASE Top \/ Pnote \/ WaitEnds \/ DojobsPick \/ DojobsNext
    <3>1. UNCHANGED <<kst, news>>
      BY <2>2 DEF Top, Pnote, WaitEnds, DojobsPick, DojobsNext, kernel
    <3>. QED BY <1>1, <1>2, <2>2, <3>1, TopOlder, PnoteOlder, WaitEndsOlder, DojobsOlder
  <2>3. CASE PstartDone
    <3>1. \/ UNCHANGED <<kst, news>>
          \/ \E woken \in SUBSET Pids :
               /\ \A i \in woken : kst[i] = "stop"
               /\ kst'  = [i \in Pids |-> IF i \in woken THEN "run" ELSE kst[i]]
               /\ news' = [i \in Pids |-> IF i \in woken THEN "none" ELSE news[i]]
      BY <2>3 DEF PstartDone
    <3>2. NewsFits' /\ \A i \in Pids : kst[i] # "none" => kst'[i] # "none"
      BY <3>1 DEF KernelInv, NewsFits
    <3>3. Older(tab, tab')  BY <1>1, <2>3, PstartOlder
    <3>. QED BY <1>1, <3>2, <3>3, OlderStep
  <2>4. CASE \E i \in Pids : Fork(i) \/ Hook(i)  BY <2>4, ForkKeeps
  <2>. QED BY <1>6, <2>1, <2>2, <2>3, <2>4 DEF Shell
<1>7. CASE \E i \in Pids : Wait3(i)  BY <1>7, Wait3Keeps
<1>8. CASE UNCHANGED vars
  <2>1. UNCHANGED <<tab, kst, news>>  BY <1>8 DEF vars, kernel
  <2>. QED BY <1>3, <2>1
<1>. QED BY <1>4, <1>5, <1>6, <1>7, <1>8 DEF Next

\* What the table calls running is a child the kernel still has, and the process
\* pchild() finds for its pid: no status is lost between wait3() and the table, and
\* none is entered for another process, however pids are reused, whoever signals
\* the children and wherever jobcmd runs.
THEOREM RunningIsThere == Spec => []RunningExists
<1>1. KernelInv => RunningExists
  <2> SUFFICES ASSUME KernelInv, NEW p \in Proclist(tab),
                      tab.procid[p] # 0, "PRUNNING" \in tab.flags[p]
               PROVE  /\ kst[tab.procid[p]] # "none"
                      /\ p = Greatest(WithPid(tab, tab.procid[p]))
    BY DEF RunningExists
  <2>1. p \in Slots /\ KernelHas(p)
    BY ProclistSlots DEF KernelInv, InList, Alive
  <2> DEFINE W == WithPid(tab, tab.procid[p])
  <2>2. W \subseteq Slots /\ p \in W  BY <2>1, ProclistSlots DEF WithPid
  <2>3. Greatest(W) \in W /\ p <= Greatest(W)
    <3> HIDE DEF W
    <3>. QED BY <2>2, GreatestIs
  <2>4. Greatest(W) <= p  BY <2>1, <2>3 DEF KernelHas, WithPid
  <2>5. p \in Int /\ Greatest(W) \in Int  BY <2>2, <2>3 DEF Slots
  <2> HIDE DEF W
  <2>6. p = Greatest(W)  BY <2>3, <2>4, <2>5
  <2>. QED BY <2>1, <2>6 DEF KernelHas, W
<1>2. KernelInv /\ [Next]_vars => KernelInv'  BY KernelInvNext
<1>. QED BY <1>1, <1>2, KernelInvInit, PTL DEF Spec
=============================================================================
