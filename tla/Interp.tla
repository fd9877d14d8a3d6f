------------------------------- MODULE Interp -------------------------------
(* The command interpreter: process() reading lines from the terminal, sourced
   files, eval and functions (sh.c, sh.func.c), builtins that run in the shell
   itself (sh.sem.c), the hook aliases precmd and postcmd (tc.func.c), and the
   errors and interrupts that unwind all of them (sh.err.c).

   x.call is the C call stack, innermost last.  Its frames are
     k = "P": process()            k = "B": execute() in a builtin
     k = "H": a hook and its aliasrun()
   and at is where the frame's function is.  x.cs is the cleanup stack. *)
EXTENDS Descriptors, Sequences, SequencesExt

CONSTANTS
  Files,       \* sourced file -> its lines; a line is [bad, cmds]
  Functions,   \* function -> its lines
  Typed,       \* the lines a user may type
  HookAliases, \* the choices of hook -> the line its alias stands for
  MaxLevel,    \* the nesting of functions that is an error: 100 in the code
  MaxLines,    \* bound: lines typed
  MaxIntr      \* bound: interrupts
VARIABLES x, lines, intrs
vars == <<x, lines, intrs>>

None == "none"
NoEval == [on |-> FALSE, l |-> <<>>]
Evals(l) == [on |-> TRUE, l |-> l]
Top(s) == s.call[Len(s.call)]
PopCall(s) == [s EXCEPT !.call = Front(@)]
SetTop(s, f) == [s EXCEPT !.call[Len(s.call)] = f]
At(s, pc) == [s EXCEPT !.call[Len(s.call)].at = pc]
Call(s, f) == [s EXCEPT !.call = Append(@, f)]

---------------------------------------------------------------------------
(* sh.err.c: the cleanup stack. *)
Var(name) == <<name, 0>>
cleanup_push(s, v, fn, old) == [s EXCEPT !.cs = Append(@, [v |-> v, fn |-> fn, old |-> old])]
cleanup_reset(s) == Len(s.cs) > s.mark
cleanup_pop_mark(s, mark) == IF mark <= Len(s.cs) THEN [s EXCEPT !.mark = mark] ELSE [s EXCEPT !.aborted = TRUE]
PushPintr(s) == cleanup_push([s EXCEPT !.pintr_disabled = @ + 1], Var("pintr_disabled"), "disabled_cleanup", 0)

Saved == {"insource", "SHIN", "intty", "gointr", "evalvec", "enterhist", "justpr", "arena"}
Streams == {"OLDSTD", "SHOUT", "SHDIAG"}
st_restoreInput(s, st) == [xclose(s, s.SHIN) EXCEPT !.SHIN = st.SHIN, !.arena = st.arena, !.intty = st.intty,
                            !.insource = st.insource, !.evalvec = st.evalvec]
st_restore(s, st) ==
  LET Back(t, f) == IF st[f] = -1 THEN t ELSE [xclose(t, t[f]) EXCEPT ![f] = st[f]]
      y == Back(Back(Back(xclose(s, s.SHIN), "OLDSTD"), "SHOUT"), "SHDIAG")
  IN [f \in DOMAIN y |-> IF f \in Saved THEN st[f] ELSE y[f]]
PipeClosed(s, st) == [xclose(s, s.fnpipe) EXCEPT !.fnpipe = st.fnpipe, !.fnlvl = @ - 1]
fn_restore(s, st) == PipeClosed(st_restore(s, st), st)
Descriptors012(s) == IF s.didfds THEN dcopy(dcopy(dcopy(s, s.SHIN, 0), s.SHOUT, 1), s.SHDIAG, 2) ELSE s
doeval_cleanup(s, st) ==
  LET Back(t, f) == [(IF t[f] # st[f] THEN xclose(t, t[f]) ELSE t) EXCEPT ![f] = st[f]]
      y == [s EXCEPT !.evalvec = st.evalvec, !.doneinp = FALSE, !.didfds = st.didfds]
  IN Descriptors012(Back(Back(Back(y, "SHIN"), "SHOUT"), "SHDIAG"))

(* A cleanup function; the memory that others free is left out.  The count of
   disabled_cleanup() stays above 0 in an interactive shell (sh.c:1083). *)
Undo(s, e) ==
  CASE e.fn = "disabled_cleanup" -> [s EXCEPT !.pintr_disabled = @ - 1]
    [] e.fn = "pintr_disabled_restore" -> [s EXCEPT !.pintr_disabled = e.old]
    [] e.fn = "st_restore" -> st_restore(s, e.old)
    [] e.fn = "fn_restore" -> fn_restore(s, e.old)
    [] e.fn = "doeval_cleanup" -> doeval_cleanup(s, e.old)
    [] OTHER -> s
UndoLast(s) == Undo([s EXCEPT !.cs = Front(@)], s.cs[Len(s.cs)])
(* The last n entries of the stack undone, the newest first. *)
Unwound(s, n) == LET u[k \in 0 .. n] == IF k = 0 THEN s ELSE UndoLast(u[k - 1]) IN u[n]
cleanup_until(s, v) ==
  LET hits == {i \in 1 .. Len(s.cs) : s.cs[i].v = v}
  IN IF hits = {} THEN [Unwound(s, Len(s.cs)) EXCEPT !.aborted = TRUE]
     ELSE Unwound(s, Len(s.cs) - Max(hits) + 1)
cleanup_until_mark(s) == IF cleanup_reset(s) THEN Unwound(s, Len(s.cs) - s.mark) ELSE s

(* reset(): unwind, and longjmp to the innermost setexit(), which every frame
   has that is not yet in its own handler.  failed is a frame's memory that a
   command of its line has failed; a line that is left for another reason, an
   exit or an interrupt, no longer counts. *)
Catches(f) == f.k \in {"P", "B"} \/ (f.k = "H" /\ f.at = "run")
Landing(f) == CASE f.k = "P" -> "top" [] f.k = "H" -> "after"
                [] f.k = "B" -> IF f.at = "eval" THEN "failed" ELSE "after"
Landed(f, err) == IF f.k = "B" THEN [f EXCEPT !.at = Landing(f)]
                  ELSE [f EXCEPT !.at = Landing(f), !.todo = <<>>, !.failed = @ /\ err]
longjmp(s) ==
  LET c == {i \in DOMAIN s.call : Catches(s.call[i])}
      top == Max(c)
  IN IF c = {} THEN [s EXCEPT !.aborted = TRUE]
     ELSE [s EXCEPT !.call = Append(SubSeq(@, 1, top - 1), Landed(@[top], s.haderr))]
reset(s) == longjmp(cleanup_until_mark(s))

btoeof(s) == [s EXCEPT !.arena.pos = s.arena.feob, !.evalvec = NoEval]
fixerror(s) == btoeof([s EXCEPT !.didfds = FALSE])
Failed(s) == [s EXCEPT !.call[Max({i \in DOMAIN s.call : s.call[i].k # "B"})].failed = TRUE]
stderror(s, silent) == reset(fixerror(IF silent THEN s ELSE Failed([s EXCEPT !.haderr = TRUE])))

---------------------------------------------------------------------------
(* The input.  arena is the buffer of SHIN: the lines of a file or function,
   the next one to read, and how many are in the buffer, which is all of a
   file (BUFSIZE characters) once a line of it was read, and of a function what
   was written to its pipe.  evalvec holds the lines of eval not yet read. *)
Text(a) == CASE a.kind = "file" -> Files[a.name] [] a.kind = "func" -> Functions[a.name] [] OTHER -> <<>>
settell(kind, name) == [kind |-> kind, name |-> name, pos |-> 0, feob |-> 0]
Tty == settell("tty", "tty")
bgetc(a) == [a EXCEPT !.pos = @ + 1,
                      !.feob = IF a.kind = "file" THEN Len(Text(a)) ELSE IF @ > a.pos THEN @ ELSE a.pos + 1]

(* A redirected 0, 1 or 2 becomes the stream that stands for it. *)
Adopt(s, n, f) ==
  IF s.didfds /\ IsOpen(s, n) /\ IsOpen(s, s[f]) /\ s.fd[n] # s.fd[s[f]] THEN MoveTo(s, f, n) ELSE s
(* Every field that st_save() keeps, and the new input. *)
SavedState(s, y) ==
  [f \in Saved \cup Streams \cup {"fnpipe"} |-> IF f \in Streams /\ y[f] = s[f] THEN -1 ELSE s[f]]
NewInput(s, kind, name, unit, hflg) ==
  [(IF s.didfds THEN donefds(s) ELSE s) EXCEPT
     !.SHIN = unit, !.arena = settell(kind, name), !.intty = FALSE, !.gointr = None,
     !.evalvec = NoEval, !.enterhist = hflg, !.insource = 1]
st_save(s, kind, name, unit, hflg) ==
  LET Both(y) == [st |-> SavedState(s, y), x |-> NewInput(y, kind, name, unit, hflg)]
  IN Both(Adopt(Adopt(Adopt(s, 0, "OLDSTD"), 1, "SHOUT"), 2, "SHDIAG"))

(* search() for a label and what follows: in eval what is left of it, although
   the input behind it is put back to its start. *)
LabelAt(l, lab) == {i \in DOMAIN l : [c |-> "label", n |-> lab, to |-> ""] \in ToSet(l[i].cmds)}
Here(s) == IF s.evalvec.on THEN s.evalvec.l ELSE Text(s.arena)
Sought(s, at) ==
  IF s.evalvec.on THEN [s EXCEPT !.arena.pos = 0, !.evalvec.l = SubSeq(@, at + 1, Len(@))]
  ELSE [s EXCEPT !.arena = bgetc([@ EXCEPT !.pos = at - 1])]
NoLabel(s) ==
  IF s.evalvec.on THEN reset([s EXCEPT !.arena.pos = 0, !.evalvec = Evals(<<>>), !.doneinp = TRUE])
  ELSE stderror([s EXCEPT !.arena.feob = Len(Text(s.arena))], FALSE)
gotolab(s, lab) ==
  LET at == LabelAt(Here(s), lab) IN IF at = {} THEN NoLabel(s) ELSE Sought(s, Min(at))

(* pintr1(): an interrupt is handled, by onintr's label or by an error. *)
Trapped(s) ==
  LET at == LabelAt(Here(s), s.gointr) IN IF at = {} THEN NoLabel(s) ELSE reset(Sought(s, Min(at)))
pintr1(s) ==
  LET y == IF s.evalvec.on THEN [s EXCEPT !.doneinp = TRUE] ELSE s
  IN IF y.gointr = None THEN stderror(y, TRUE) ELSE Trapped(y)

---------------------------------------------------------------------------
(* Hooks: precmd() and postcmd().  A hook that is still active when it is
   called again has failed, and its alias is removed. *)
Leave(s, h) == [cleanup_until(s, Var("pintr_disabled")) EXCEPT !.active = @ \ {h}]
Removed(s, h) == [s EXCEPT !.aliases = [g \in DOMAIN @ \ {h} |-> @[g]]]
Hook(s, h) ==
  LET y == PushPintr(s) IN
  IF h \in s.active THEN Leave(Removed(y, h), h)
  ELSE IF h \notin DOMAIN s.aliases THEN Leave(y, h)
  ELSE LET w == cleanup_push([y EXCEPT !.active = @ \cup {h}], <<"w", Len(y.call)>>, "lex_cleanup", 0)
       IN IF s.aliases[h].bad THEN stderror(w, FALSE)
          ELSE [Call(w, [k |-> "H", hook |-> h, omark |-> s.mark, at |-> "run", todo |-> s.aliases[h].cmds, failed |-> FALSE])
                  EXCEPT !.mark = Len(w.cs)]
(* aliasrun() after its execute(). *)
AliasDone(s) ==
  LET f == Top(s)
      y == cleanup_pop_mark(s, f.omark)
      z == IF y.haderr THEN [y EXCEPT !.haderr = FALSE, !.active = {}, !.aliases = [g \in DOMAIN @ \ y.active |-> @[g]]]
           ELSE y
  IN Leave(cleanup_until(PopCall(z), <<"w", Len(z.call) - 1>>), f.hook)

---------------------------------------------------------------------------
(* execute(): one command of a line.  c.c is what it is, c.to where its output
   is redirected.  Most builtins only write, or fail. *)
Wants(s) == LET t == {i \in DOMAIN s.call : s.call[i].k = "B" /\ s.call[i].cmd.to # ""}
            IN IF t = {} THEN "tty" ELSE s.call[Max(t)].cmd.to
Wrote(s, c) == [s EXCEPT !.out = [to |-> IF c.c = "ext" /\ c.to # "" THEN c.to ELSE Output(s),
                                  wants |-> IF c.to # "" THEN c.to ELSE Wants(s)]]
Finish(s, again) == IF s.didfds /\ ~again THEN donefds(s) ELSE s
execute(s, c, again) ==
  CASE c.c = "undef" -> stderror(s, FALSE)
    [] c.c = "ext" -> IF s.pintr_pending THEN pintr1([s EXCEPT !.pintr_pending = FALSE])
                      ELSE Finish(Wrote(s, c), again)
    [] OTHER -> Call([doio(s, c, again) EXCEPT !.last = c.c],
                     [k |-> "B", cmd |-> c, at |-> "start", oh |-> s.haderr, again |-> again, left |-> 0])

Process(catch, s) == [k |-> "P", catch |-> catch, omark |-> s.mark, at |-> "top", todo |-> <<>>, failed |-> FALSE]
process(s, catch) == [Call(s, Process(catch, s)) EXCEPT !.mark = Len(s.cs)]
St(s) == <<"st", Len(s.call)>>

(* srcunit() and fn_save(): the state is saved and the new input read. *)
ReadsFile(sv) == process(At(PushPintr(cleanup_push(sv.x, St(sv.x), "st_restore", sv.st)), "ret"), FALSE)
srcunit(s, file, hflg) ==
  LET unit == Lowest(s, FSAFE + 1)
      y == [s EXCEPT !.fd = [n \in DOMAIN @ \cup {unit} |-> IF n = unit THEN file ELSE @[n]]]
  IN ReadsFile(st_save(y, "file", file, unit, hflg))
ReadsFunction(sv, pipe) ==
  LET y == [sv.x EXCEPT !.fnpipe = pipe, !.fnlvl = @ + 1, !.insource = 2]
  IN process(At(cleanup_push(y, St(y), "fn_restore", sv.st), "ret"), FALSE)
dofunction(s, fn) ==
  LET Piped(p) == ReadsFunction(st_save(p.x, "func", fn, p.pv[1], FALSE), p.pv[2])
  IN IF s.fnlvl = MaxLevel THEN stderror(s, FALSE) ELSE Piped(mypipe(s))
doeval(s, text) ==
  LET st == [f \in {"evalvec", "didfds", "SHIN", "SHOUT", "SHDIAG"} |-> s[f]]
      y == cleanup_push([s EXCEPT !.evalvec = Evals(text)], St(s), "doeval_cleanup", st)
      z == CopyTo(CopyTo(CopyTo(y, "SHIN", 0), "SHOUT", 1), "SHDIAG", 2)
  IN process(At([z EXCEPT !.didfds = FALSE], "eval"), FALSE)
doexit(s) ==
  LET y == [btoeof(s) EXCEPT !.doneinp = TRUE]
  IN IF s.insource # 0 THEN y ELSE [xclose(y, y.SHIN) EXCEPT !.SHIN = -1]
doonintr(s, lab) == IF s.intty THEN stderror(s, FALSE) ELSE [s EXCEPT !.gointr = lab]
(* dorepeat(): the next run of its command, or its end. *)
dorepeat(s) ==
  LET f == Top(s)
      y == IF s.pintr_disabled = 1 THEN cleanup_until(s, Var("pintr_disabled")) ELSE s
      z == IF s.pintr_disabled = 1 THEN PushPintr(y) ELSE y
  IN IF f.left > 0 THEN execute(SetTop(z, [f EXCEPT !.left = @ - 1]), f.cmd.body, TRUE)
     ELSE At(donefds(y), "after")

(* A builtin's frame: its function, and what execute() does after it. *)
Builtin(s) ==
  LET f == Top(s)
      c == f.cmd
      ok == At(s, "after")
  IN CASE f.at = "start" /\ c.c = "echo" -> Wrote(ok, c)
       [] f.at = "start" /\ c.c = "label" -> ok
       [] f.at = "start" /\ c.c = "err" -> stderror(s, FALSE)
       [] f.at = "start" /\ c.c = "exit" -> doexit(ok)
       [] f.at = "start" /\ c.c = "onintr" -> doonintr(ok, c.n)
       [] f.at = "start" /\ c.c = "goto" -> gotolab(ok, c.n)
       [] f.at = "start" /\ c.c = "source" ->
            IF c.n \notin DOMAIN Files THEN stderror(s, FALSE) ELSE srcunit(s, c.n, c.h)
       [] f.at = "start" /\ c.c = "call" -> dofunction(s, c.n)
       [] f.at = "start" /\ c.c = "eval" -> doeval(s, c.l)
       [] f.at = "start" /\ c.c = "repeat" -> PushPintr(SetTop(s, [f EXCEPT !.at = "loop", !.left = c.n]))
       [] f.at = "loop" -> dorepeat(s)
       [] f.at \in {"ret", "eval"} -> cleanup_until(ok, <<"st", Len(s.call)>>)
       [] f.at = "failed" -> stderror(ok, TRUE)
       [] f.at = "after" ->
            LET y == PopCall(s)
            IN IF s.last = "exit" /\ ~s.haderr THEN reset([y EXCEPT !.left = @ \/ s.didfds])
               ELSE Finish([y EXCEPT !.last = "", !.haderr = f.oh], f.again)

(* The next command of the line of a process() or of a hook. *)
RunNext(s) ==
  LET f == Top(s)
  IN IF f.todo = <<>> THEN At(s, IF f.k = "P" THEN "done" ELSE "after")
     ELSE execute(SetTop(s, [f EXCEPT !.todo = Tail(@)]), Head(f.todo), FALSE)

(* process(): the start of its loop, what it does with a line, and its end. *)
LoopTop(s) ==
  LET f == Top(s)
      y == [s EXCEPT !.justpr = s.enterhist]
  IN IF y.haderr
     THEN IF f.catch THEN closem([SetTop(y, [f EXCEPT !.failed = FALSE]) EXCEPT !.haderr = FALSE])
          ELSE reset(Failed(cleanup_pop_mark(PopCall([y EXCEPT !.doneinp = FALSE]), f.omark)))
     ELSE IF y.doneinp THEN cleanup_pop_mark(PopCall([y EXCEPT !.doneinp = FALSE]), f.omark)
     ELSE IF y.intty /\ ~y.evalvec.on THEN Hook(At(y, "lex"), "precmd")
     ELSE At(y, "lex")
pintr_push_enable(s) == cleanup_push([s EXCEPT !.pintr_disabled = 0], Var("old"), "pintr_disabled_restore", s.pintr_disabled)
GotLine(s, line) ==
  IF s.justpr THEN At(s, "done")
  ELSE IF line.bad THEN stderror(s, FALSE)
  ELSE Hook(SetTop(s, [Top(s) EXCEPT !.at = "run", !.todo = line.cmds]), "postcmd")
Lexed(s, line) == GotLine(cleanup_push(cleanup_until(s, Var("old")), Var("paraml"), "lex_cleanup", 0), line)
Ended(s) == reset([s EXCEPT !.doneinp = TRUE])
lex(s) ==
  LET y == pintr_push_enable(s)
      a == s.arena
      atEnd == IF s.evalvec.on THEN s.evalvec.l = <<>> ELSE a.pos = Len(Text(a))
      next == IF s.evalvec.on THEN [y EXCEPT !.evalvec.l = Tail(@)] ELSE [y EXCEPT !.arena = bgetc(a)]
  IN IF s.pintr_pending THEN pintr1([y EXCEPT !.pintr_pending = FALSE])
     ELSE IF atEnd THEN Ended(y)
     ELSE Lexed(next, IF s.evalvec.on THEN Head(s.evalvec.l) ELSE Text(a)[a.pos + 1])
cmd_doneForgets(s) == At(IF cleanup_reset(s) THEN cleanup_until(s, Var("paraml")) ELSE s, "top")
cmd_done(s) == IF cleanup_reset(s) THEN At(cleanup_until(s, Var("paraml")), "top")
               ELSE At([s EXCEPT !.haderr = TRUE], "top")

---------------------------------------------------------------------------
Running == x.call # <<>> /\ ~x.aborted
OnTop(k, at) == Running /\ Top(x).k = k /\ Top(x).at = at
AtTerminal == OnTop("P", "lex") /\ x.arena.kind = "tty" /\ ~x.evalvec.on
Does(y) == x' = y /\ UNCHANGED <<lines, intrs>>

Started(s) == [f \in DOMAIN initdesc \cup DOMAIN s |-> IF f \in DOMAIN initdesc THEN initdesc[f] ELSE s[f]]
Init ==
  /\ \E a \in HookAliases :
       LET s == [insource |-> 0, intty |-> TRUE, gointr |-> None, evalvec |-> NoEval, enterhist |-> FALSE,
                 justpr |-> FALSE, arena |-> Tty, call |-> <<>>, cs |-> <<>>, mark |-> 0,
                 pintr_disabled |-> 1, pintr_pending |-> FALSE, haderr |-> FALSE, doneinp |-> FALSE,
                 active |-> {}, aliases |-> a, last |-> "", fnpipe |-> -1, fnlvl |-> 0,
                 out |-> [to |-> "tty", wants |-> "tty"], left |-> FALSE,
                 aborted |-> FALSE]
       IN x = process(Started(s), TRUE)
  /\ lines = 0 /\ intrs = 0
TopOfLoop == OnTop("P", "top") /\ Does(LoopTop(x))
ReadLine == OnTop("P", "lex") /\ (~AtTerminal \/ x.pintr_pending) /\ Does(lex(x))
TypeLine ==
  /\ AtTerminal /\ ~x.pintr_pending /\ lines < MaxLines
  /\ \E line \in Typed : x' = Lexed(pintr_push_enable(x), line)
  /\ lines' = lines + 1 /\ UNCHANGED intrs
TypeEof == AtTerminal /\ ~x.pintr_pending /\ Does(Ended(pintr_push_enable(x)))
RunLine == (OnTop("P", "run") \/ OnTop("H", "run")) /\ Does(RunNext(x))
LineDone == OnTop("P", "done") /\ Does(cmd_done(x))
HookDone == OnTop("H", "after") /\ Does(AliasDone(x))
RunBuiltin == Running /\ Top(x).k = "B" /\ Does(Builtin(x))
(* SIGINT arrives: queue_pintr(). *)
Interrupt ==
  /\ Running /\ intrs < MaxIntr /\ ~x.pintr_pending
  /\ x' = [x EXCEPT !.pintr_pending = TRUE] /\ intrs' = intrs + 1 /\ UNCHANGED lines
Internal == TopOfLoop \/ ReadLine \/ RunLine \/ LineDone \/ HookDone \/ RunBuiltin
Next == Internal \/ TypeLine \/ TypeEof \/ Interrupt
(* The shell runs whenever it has something to do; users may stop typing.  It
   is WF_vars(Internal), with what enables Internal written out. *)
Busy == Running /\ (~AtTerminal \/ x.pintr_pending)
Spec == Init /\ [][Next]_vars /\ ([]<>~Busy \/ []<><<Internal>>_vars)

---------------------------------------------------------------------------
(* The cleanup stack always has the entry that is asked for and never falls
   below a mark: abort() and the assertion of sh.err.c are not reached. *)
NeverAborted == ~x.aborted

(* Whatever the last lines did, failed in or were interrupted in, the shell
   that reads from its terminal again has the input, the descriptors and the
   interrupt mask it started with. *)
PromptRestored ==
  AtTerminal =>
    /\ x.call = <<Top(x)>> /\ x.cs = <<>> /\ x.mark = 0 /\ x.pintr_disabled = 1
    /\ x.insource = 0 /\ x.intty /\ x.gointr = None /\ ~x.enterhist /\ ~x.doneinp /\ ~x.haderr
    /\ ~x.left => [f \in DOMAIN initdesc |-> x[f]] = initdesc
    /\ x.fnlvl = 0 /\ x.fnpipe = -1 /\ "precmd" \notin x.active

(* Output goes to the redirection of the innermost command around it that has
   one, through every file, eval and function between. *)
OutputGoes == x.left \/ x.out.to = x.out.wants

(* process(0) "blows away on errors": once a command has failed no further
   line of the file, function or eval it is of is read, nor of those around. *)
ErrorsUnwind == OnTop("P", "lex") => ~Top(x).failed

=============================================================================
