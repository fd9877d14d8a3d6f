------------------------------- MODULE MCShell --------------------------------
(* The parts of the shell that work on their own, one of them in each behaviour:
   the interpreter, scripts with loops, expressions, the directory stack,
   variables, the hash of commands, alarms, logins, the checks of a prompt.  The values
   they are checked with come first, then the parts and what is checked. *)
EXTENDS Integers, Sequences, SequencesExt, FiniteSets, FiniteSetsExt, Functions, TLC

CONSTANTS
  Working,                         \* the parts of a run
  MaxLevel, MaxLines, MaxIntr,   \* bounds of the interpreter
  MaxDirs, MaxJobs, MaxSteps,    \* of the directory stack
  MaxFiles,                      \* of the hash of commands
  MaxClock, MaxEvents,           \* of the alarms
  MaxWatch,                      \* of the clock of the watch for logins
  MaxChecks,                     \* of the clock of the other checks
  W, Bracketed                   \* expressions: the width of a number, levels that get parentheses

VARIABLES
  part,  \* the part that works
  s1, s2, s3, s4, s5, s6, s7, s8, s9, s10, s11, s12, s13  \* its variables, "off" when it has fewer

---------------------------------------------------------------------------
(* The interpreter: files, functions and typed lines that read each other. *)
Cmd(c) == [c |-> c, to |-> ""]
Named(c, n) == [c |-> c, n |-> n, to |-> ""]
Into(cmd, file) == [cmd EXCEPT !.to = file]
Source(f) == [c |-> "source", n |-> f, h |-> FALSE, to |-> ""]
SourceH(f) == [c |-> "source", n |-> f, h |-> TRUE, to |-> ""]
Eval(l) == [c |-> "eval", l |-> l, to |-> ""]
Repeat(n, body) == [c |-> "repeat", n |-> n, body |-> body, to |-> body.to]
Line(cmds) == [bad |-> FALSE, cmds |-> cmds]
Bad == [bad |-> TRUE, cmds |-> <<>>]
One(c) == Line(<<c>>)
Echo == Cmd("echo")
Ext == Cmd("ext")
Err == Cmd("err")

FilesMC ==
  ("ok" :> <<One(Echo), Line(<<Ext, Into(Echo, "o2")>>)>>) @@
  ("fails" :> <<Line(<<Err, Echo>>), One(Echo)>>) @@
  ("undef" :> <<One(Named("call", "f")), Line(<<Cmd("undef"), Echo>>), One(Echo)>>) @@
  ("nested" :> <<One(Into(Source("ok"), "o3")), One(Eval(<<One(Source("fails")), One(Echo)>>)), One(Echo)>>) @@
  ("traps" :> <<One(Named("onintr", "l")), One(Source("ok")), One(Ext), One(Cmd("exit")), One(Named("label", "l")), One(Echo)>>) @@
  ("exits" :> <<One(Eval(<<Line(<<Cmd("exit"), Echo>>), One(Echo)>>)), One(Echo)>>)
FunctionsMC ==
  ("f" :> <<One(Echo), One(Into(Source("ok"), "o4")), One(Ext)>>) @@
  ("g" :> <<One(Named("call", "g")), One(Echo)>>) @@
  ("h" :> <<One(Named("goto", "m")), One(Err), One(Named("label", "m")), Bad>>)
TypedMC ==
  {Line(<<Into(Source(f), "o1"), Echo>>) : f \in DOMAIN FilesMC} \cup
  {Line(<<Named("call", f)>>) : f \in DOMAIN FunctionsMC} \cup
  {Line(<<Into(Eval(<<One(Echo), Line(<<Source("nested"), Echo>>)>>), "o1"), Echo>>),
   One(Eval(<<One(Named("goto", "m")), One(Echo)>>)),
   One(SourceH("fails")), One(Repeat(2, Into(Echo, "o1"))), One(Repeat(2, Source("traps"))),
   Line(<<Err, Source("ok"), Echo>>), Bad, One(Ext), One(Cmd("exit")), One(Source("missing"))}
HooksMC ==
  {<<>>, "precmd" :> One(Source("ok")), "precmd" :> Line(<<Err, Echo>>),
   ("precmd" :> One(Cmd("undef"))) @@ ("postcmd" :> Bad), "postcmd" :> One(Into(Source("ok"), "o5")),
   "precmd" :> One(Ext)}

---------------------------------------------------------------------------
(* Directories, links among them and paths a user may name. *)
Abs(p) == [abs |-> TRUE, p |-> p]
Rel(p) == [abs |-> FALSE, p |-> p]
DirsMC == {<<>>, <<"a">>, <<"a", "b">>, <<"c">>}
(* /l leads to a/b, /a/u to .. and /c/h to /a. *)
LinksMC == (<<"l">> :> Rel(<<"a", "b">>)) @@ (<<"a", "u">> :> Rel(<<"..">>)) @@ (<<"c", "h">> :> Abs(<<"a">>))
ArgsMC == {Abs(<<"a">>), Abs(<<"l">>), Rel(<<"..">>), Rel(<<"b">>), Rel(<<"l", "..">>), Abs(<<"c", "h", "u", "c">>),
           Abs(<<"c", "x", "..">>)}
CdPathMC == <<Rel(<<"a">>)>>
VarDirsMC == "v" :> <<"c">>
HomesMC == {<<"a">>}
SavedMC == {<<>>, <<<<"c">>, <<>>, <<"l">>>>}
AssignedMC == {<<<<"c", "h">>, <<"l">>>>}
ShiftingMC == {<<"c">>}
Mode(sym, uniq, ext, home) == [symlinks |-> sym, dunique |-> uniq, dextract |-> ext, pushdtohome |-> home]
DirModesMC == {Mode("", FALSE, FALSE, FALSE), Mode("chase", TRUE, TRUE, FALSE), Mode("ignore", FALSE, TRUE, TRUE), Mode("expand", TRUE, FALSE, TRUE)}

---------------------------------------------------------------------------
(* Seven plain variables, and the special ones in groups of two or three. *)
OrderMC == <<"a", "alias", "b", "c", "d", "e", "edit", "f", "g", "histchars", "home", "implicitcd", "noclobber",
             "path", "promptchars", "shlvl", "symlinks", "term", "vimode", "wordchars", "x">>
GroupsMC == {{"a", "b", "c", "d", "e", "f", "g"}, {"noclobber", "histchars", "a"}, {"path", "a"}, {"x", "b"}, {"home", "shlvl"},
             {"term", "edit"}, {"wordchars", "vimode", "implicitcd"}, {"promptchars", "symlinks"}, {"alias", "a", "b"}}
ListsMC ==
  [n \in {"a", "alias", "b", "c", "d", "e", "f", "g", "vimode", "edit"} |-> {<<"">>}]
  @@ [x |-> {<<"1">>, <<"1", "1">>, <<"*">>, <<"none*">>},
      noclobber |-> {<<"">>, <<"notempty">>},
      histchars |-> {<<"">>, <<",">>, <<",;">>},
      path |-> {<<"/a">>, <<"/a", "/b">>, <<"/a:", "/b">>},
      home |-> {<<"/h">>, <<"/link">>},
      shlvl |-> {<<"1">>, <<"2">>},
      term |-> {<<"dumb">>, <<"network">>, <<"xterm">>},
      wordchars |-> {<<"*">>, <<"b">>},
      promptchars |-> {<<",;">>, <<",">>}, symlinks |-> {<<"chase">>, <<"b">>},
      implicitcd |-> {<<"">>, <<"verbose">>}]
Singles == {<<{n}>> : n \in Range(OrderMC)}
PatternsMC == Singles \cup {<<g>> : g \in GroupsMC}
              \cup {<<{"noclobber"}, {"a"}>>, <<{"a"}, {"noclobber"}>>, <<{"noclobber", "histchars"}>>, <<{"path"}, {"a"}>>}
GlobsMC == "*" :> <<"b", "1">> @@ "none*" :> <<>>
PartsMC == "/a" :> <<"/a">> @@ "/b" :> <<"/b">> @@ "/a:" :> <<"/a", "">> @@ "." :> <<".">> @@ "/c" :> <<"/c">> @@ "" :> <<"">>
           @@ "1" :> <<"1">>
CharsMC == "" :> <<>> @@ "," :> <<",">> @@ ",;" :> <<",", ";">>
CanonMC == "/h" :> "/h" @@ "/link" :> "/h" @@ "" :> ""
EnvValuesMC == [PATH |-> {<<>>, <<"/c">>, <<"/a", "", "/b">>}, HOME |-> {"/h", "/link"}, TERM |-> {"dumb", "xterm"},
                SHLVL |-> {"1", "2"}]
MirrorMC == [path |-> {"PATH"}, home |-> {"HOME"}, term |-> {"TERM"}, shlvl |-> {"SHLVL"}]

---------------------------------------------------------------------------
(* A char has two bits here, a table two rows for each char: the path of three
   directories has a table of four rows, in which foo and goo are apart. *)
PathsMC == {<<"/a", "bin", "/b">>, <<"/b", ".">>, <<"/b">>}
HashNameMC == [n \in {"foo", "goo", "./run", "cd"} |-> CASE n = "foo" -> 1 [] n = "goo" -> 3 [] OTHER -> 4]

---------------------------------------------------------------------------
SchedulesMC == {<<0, 1, "", TRUE>>, <<0, 0, "", FALSE>>, <<11, 59, "p", FALSE>>}
LogoutsMC == {<<>>, <<2>>, <<3, 1>>, <<0, 2>>, <<1, 2>>}
TperiodsMC == {-1, -2, 2}

---------------------------------------------------------------------------
(* The parts. *)
I == INSTANCE Interp WITH Files <- FilesMC, Functions <- FunctionsMC, Typed <- TypedMC, HookAliases <- HooksMC,
       x <- s1, lines <- s2, intrs <- s3
L == INSTANCE MCLoops WITH
       x <- s1, script <- s2, oracle <- s3
D == INSTANCE DirStack WITH Dirs <- DirsMC, Links <- LinksMC, Args <- ArgsMC, CdPath <- CdPathMC, VarDirs <- VarDirsMC,
       Homes <- HomesMC, Shifting <- ShiftingMC, Saved <- SavedMC, Assigned <- AssignedMC, Modes <- DirModesMC,
       ds <- s1, op <- s2, steps <- s3
V == INSTANCE Vars WITH Order <- OrderMC, Groups <- GroupsMC, Values <- ListsMC, Patterns <- PatternsMC, Globs <- GlobsMC,
       Parts <- PartsMC, Chars <- CharsMC, Canon <- CanonMC, EnvValues <- EnvValuesMC, Mirror <- MirrorMC,
       Guarded <- {"a", "x", "home", "path", "noclobber"},
       Listed <- {"x", "noclobber", "histchars", "path", "term", "edit", "wordchars", "home"},
       sh <- s1, group <- s2
H == INSTANCE PathHash WITH Paths <- PathsMC, Absolute <- {"/a", "/b"}, Commands <- {"foo", "goo", "./run", "cd"},
       Slashed <- {"./run"}, Builtins <- {"cd"}, Aliased <- {"foo"}, HashName <- HashNameMC, Char <- 2, Buckets <- 2,
       Kinds <- {"binary", "plain"},
       path <- s1, files <- s2, havhash <- s3, xhash <- s4, auto <- s5, aliases <- s6, fresh <- s7
A == INSTANCE Alarms WITH Minute <- 2, Start <- 1438, Schedules <- SchedulesMC, Logouts <- LogoutsMC, MaxTime <- MaxClock,
       now <- s1, sched <- s2, alarmAt <- s3, alm_fun <- s4, alrmcatch_pending <- s5, alrmcatch_disabled <-
       s6, autologout <- s7, mode <- s8, tries <- s9, armed <- s10, typed <- s11, ran <- s12, made <- s13
U == INSTANCE Watch WITH Ttys <- {"tty1", "tty2"}, Users <- {"ann", "bob"}, Watched <- {"tty1"}, Interval <- 1,
       MaxTime <- MaxWatch,
       now <- s1, utmp <- s2, mtime <- s3, list <- s4, watch_period <- s5, stlast <- s6, watch <- s7, told <-
       s8, known <- s9
C == INSTANCE PromptChecks WITH Boxes <- {"inbox", "maildir"}, Dirs <- {"maildir"}, Intvl <- 2, Tperiods <- TperiodsMC,
       MaxTime <- MaxChecks,
       now <- s1, box <- s2, loginsh <- s3, chktim <- s4, seconds0 <- s5, told <- s6, tperiod <- s7, t_period
       <- s8, periodic_active <- s9, alias <- s10, ranAt <- s11, unseen <- s12
E == INSTANCE Exp WITH
       tree <- s1, compat <- s2, result <- s3
ASSUME V!OrderAssumption /\ H!PathHashAssumption /\ A!AlarmsAssumption /\ U!WatchAssumption
       /\ C!PromptChecksAssumption /\ E!ExpAssumption

vars == <<part, s1, s2, s3, s4, s5, s6, s7, s8, s9, s10, s11, s12, s13>>
(* The variables that a part with so many does not have. *)
unused2 == <<s3, s4, s5, s6, s7, s8, s9, s10, s11, s12, s13>>
unused3 == <<s4, s5, s6, s7, s8, s9, s10, s11, s12, s13>>
unused7 == <<s8, s9, s10, s11, s12, s13>>
unused9 == <<s10, s11, s12, s13>>
unused12 == <<s13>>
Off12 == s13 = "off"
Off9 == s10 = "off" /\ s11 = "off" /\ s12 = "off" /\ Off12
Off7 == s8 = "off" /\ s9 = "off" /\ Off9
Off3 == s4 = "off" /\ s5 = "off" /\ s6 = "off" /\ s7 = "off" /\ Off7
Off2 == s3 = "off" /\ Off3
Init ==
  /\ part \in Working
  /\ \/ part = "interp" /\ I!Init /\ Off3
     \/ part = "script" /\ L!L!Init /\ Off3
     \/ part = "dirs" /\ D!Init /\ Off3
     \/ part = "vars" /\ V!Init /\ Off2
     \/ part = "path" /\ H!Init /\ Off7
     \/ part = "alarms" /\ A!Init
     \/ part = "watch" /\ U!Init /\ Off9
     \/ part = "checks" /\ C!Init /\ Off12
     \/ part = "exp" /\ E!Init /\ Off3
Interpret == part = "interp" /\ I!Next /\ UNCHANGED <<part, unused3>>
RunScript == part = "script" /\ L!L!Next /\ UNCHANGED <<part, unused3>>
ChangeDirs == part = "dirs" /\ D!Next /\ UNCHANGED <<part, unused3>>
ChangeVars == part = "vars" /\ V!Next /\ UNCHANGED <<part, unused2>>
LookUp == part = "path" /\ H!Next /\ UNCHANGED <<part, unused7>>
Alarm == part = "alarms" /\ A!Next /\ UNCHANGED part
WatchLogins == part = "watch" /\ U!Next /\ UNCHANGED <<part, unused9>>
CheckMail == part = "checks" /\ C!Next /\ UNCHANGED <<part, unused12>>
Evaluate == part = "exp" /\ E!Evaluate /\ UNCHANGED <<part, unused3>>
Next == Interpret \/ RunScript \/ ChangeDirs \/ ChangeVars \/ LookUp \/ Alarm \/ WatchLogins \/ CheckMail \/ Evaluate
Spec == Init /\ [][Next]_vars
---------------------------------------------------------------------------
(* Whatever the last lines did, failed in or were interrupted in: once a command
   has failed no line of a file, function or eval around it is read, and the shell
   that reads from its terminal again has the input, the descriptors and the
   interrupt mask it started with; the stack of cleanups never falls below a mark
   (sh.err.c:605, sh.c:1926). *)
ErrorsUnwind == part = "interp" => I!ErrorsUnwind /\ I!PromptRestored /\ I!NeverAborted
(* Output goes to the redirection of the innermost command around it that has one,
   through every file, eval and function between (sh.sem.c:733). *)
OutputGoes == part = "interp" => I!OutputGoes
(* The searching, seeking shell runs exactly what the nesting of a script says
   (search(), toend(), doagain(), wfree(), sh.func.c). *)
RunsAsNested == part = "script" => L!RunsAsNested
(* To its user the ring of directories is a sequence of names, which the builtins
   change as DirSeq says (dfollow(), dextract(), dnewcwd(), sh.dir.c). *)
Seq0 == INSTANCE DirSeq WITH stack <- IF part = "dirs" THEN D!printdirs(s1) ELSE <<"off">>, op <- IF part = "dirs" THEN s2 ELSE "off"
IsStack == Seq0!Spec
(* The name of the current directory leads to where the kernel has the shell;
   entries exist as long as the ring or a job needs them; what dirs -S writes is
   read back as the same stack (sh.dir.c:768, 1236, 1311). *)
StackSound == part = "dirs" => D!CwdNamed /\ D!EntriesKept /\ D!SaveRestores
(* The shell behaves as its variables say, child processes see the same, and the
   trees hold every variable once, in order, balanced (sh.set.c). *)
VarsMatch == part = "vars" => V!TreesSound /\ V!FlagsMatch /\ V!EnvMatches
(* What is read-only stays: no builtin unsets it or gives it other words; only
   shift takes words from its front (sh.set.c:526). *)
ReadOnlyKept == [][part = "vars" => V!KeepsReadOnly]_vars
(* The table of commands hides nothing, and which and where tell what will be run,
   whatever has become of the table, the files and the aliases since (sh.exec.c). *)
WhichRuns == part = "path" => H!HashHidesNothing /\ H!WhichRuns /\ H!WhereFinds
(* Scheduled events are run when they are due, each once and in order, and the
   shell never waits without the alarm set for the next one (tc.sched.c, tc.func.c). *)
EventsInOrder == [][part = "alarms" => A!RunsInOrder /\ A!WaitsOnTheClock]_vars
(* A check before a prompt tells what has changed since the last: each login and
   logout, each new mail, once (tc.who.c:237, sh.c:2334). *)
ToldChanges == [][/\ part = "watch" => U!TellsChanges
                  /\ part = "checks" => C!TellsOnce]_vars
(* Expressions mean what they mean in C, or with compat_expr from right to left;
   assignments with an operator and file tests of several letters too (sh.exp.c). *)
LikeC == part = "exp" => E!LikeC /\ E!AssignsLikeC /\ E!AllTestsHold
================================================================================
