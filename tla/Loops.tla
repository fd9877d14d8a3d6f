-------------------------------- MODULE Loops --------------------------------
(* Flow control (sh.func.c).  The shell does not parse loops and branches: it
   runs a script line by line, remembers where each open loop starts and ends
   (whyles), and moves about by seeking in the input and by reading ahead for
   the keyword that closes a block (search).

   script.lines are the lines of the script; a line is a record with the keyword w that
   it starts with and the fields its keyword needs.  2 * i is the seek position
   at the start of line i + 1; 2 * i + 1 is the one behind the "else" of that
   line, where field rest is the command that follows on it. *)
EXTENDS Integers, Sequences, SequencesExt, FiniteSetsExt, TLC

CONSTANTS
  Scripts,  \* the scripts that may be run
  Oracles   \* what the conditions of a run come to, the later ones being false
VARIABLES script, oracle, x
vars == <<script, oracle, x>>

Unknown == 0  \* w_end.f_seek of a loop whose end was not read yet
End(s) == 2 * Len(script.lines)
LineAt(p) == IF p % 2 = 0 THEN script.lines[p \div 2 + 1] ELSE script.lines[p \div 2 + 1].rest
After(p) == 2 * (p \div 2) + 2
HasRest(l) == l.w = "else" /\ l.rest.w # ""
Inner(s) == Head(s.whyles)

bseek(s, p) == [s EXCEPT !.pos = p]
(* A loop stays open as long as the position is in it; one that is still being
   read in is closed whatever the position. *)
Keeps(w, p) == w.type # "I" /\ p >= w.start /\ (w.end = Unknown \/ p < w.end)
wfree(s) ==
  LET open == {i \in DOMAIN s.whyles : Keeps(s.whyles[i], s.pos)}
  IN [s EXCEPT !.whyles = IF open = {} THEN <<>> ELSE SubSeq(@, Min(open), Len(@))]
btoeof(s) == wfree([s EXCEPT !.pos = IF s.intty THEN s.feob ELSE End(s)])
(* An error ends a script; at a terminal the next line is read. *)
stderror(s) == [btoeof(s) EXCEPT !.failed = TRUE]

(* What a line that search() passes does to its level; -1 is the goal. *)
GoalReached(type, level, goal, l) ==
  CASE type = "goto" -> l.w = "label" /\ l.name = goal
    [] type = "switch" -> level = 0 /\ (l.w = "default" \/ (l.w = "case" /\ l.pattern = goal))
    [] OTHER -> FALSE
Opens(type) == CASE type \in {"if", "else"} -> {"ifthen"} [] type = "break" -> {"foreach", "while"}
                 [] type \in {"switch", "breaksw"} -> {"switch"} [] OTHER -> {}
Closes(type) == CASE type \in {"if", "else"} -> {"endif"} [] type = "break" -> {"end"}
                  [] type \in {"switch", "breaksw"} -> {"endsw"} [] OTHER -> {}
\* Mutant: breaksw leaves the loop whose end it passes open.
PassedEndKeeps(s, type, wlevel) == s
(* breaksw closes the loop whose end it passes. *)
PassedEnd(s, type, wlevel) ==
  IF type = "breaksw" /\ wlevel = 0 /\ s.whyles # <<>> THEN [s EXCEPT !.whyles = Tail(@)] ELSE s
RECURSIVE search(_, _, _, _, _)
search(s, type, level, wlevel, goal) ==
  IF s.pos >= End(s) THEN stderror(s)
  ELSE LET l == LineAt(s.pos)
           next == After(s.pos)
           s1 == [(IF l.w = "end" THEN PassedEnd(s, type, wlevel) ELSE s) EXCEPT
                    !.pos = next, !.feob = IF @ > next THEN @ ELSE next]
           level1 == CASE GoalReached(type, level, goal, l) -> -1
                       [] l.w \in Opens(type) -> level + 1
                       [] l.w \in Closes(type) -> level - 1
                       [] OTHER -> level
           wlevel1 == CASE l.w \in {"foreach", "while"} -> wlevel + 1 [] l.w = "end" -> wlevel - 1 [] OTHER -> wlevel
       IN IF l.w = "else" /\ type = "if" /\ level = 0 THEN IF HasRest(l) THEN [s1 EXCEPT !.pos = next - 1] ELSE s1
          ELSE IF level1 < 0 THEN s1 ELSE search(s1, type, level1, wlevel1, goal)
Search(s, type, goal) == search(s, type, 0, 0, goal)

(* The next condition, and what it comes to. *)
expr(s) == s.asked < Len(oracle) /\ oracle[s.asked + 1]
Asked(s) == [s EXCEPT !.asked = @ + 1, !.out = Append(@, IF expr(s) THEN "true" ELSE "false")]

SetEnd(s, p) == [s EXCEPT !.whyles[1].end = p]
toend(s) ==
  IF Inner(s).type = "F" /\ Inner(s).end = Unknown
  THEN LET t == Search(s, "break", "") IN IF t.failed THEN t ELSE wfree(SetEnd(t, t.pos - 1))
  ELSE wfree(bseek(s, Inner(s).end))
dobreak(s) == IF s.whyles = <<>> THEN stderror(s) ELSE toend(s)
doagain(s) ==
  LET w == Inner(s)
  IN IF w.name = "" THEN bseek(s, w.start)
     ELSE IF w.list = <<>> THEN dobreak(s)
     ELSE bseek([s EXCEPT !.whyles[1].list = Tail(@), !.var = (w.name :> Head(w.list)) @@ @], w.start)
docontin(s) == IF s.whyles = <<>> THEN stderror(s) ELSE doagain(s)
doend(s) == IF s.whyles = <<>> THEN stderror(s) ELSE doagain(SetEnd(s, s.pos))
(* Read in a loop that is typed before running it. *)
preread(s) ==
  LET t == Search([s EXCEPT !.whyles[1].type = "I"], "break", "")
  IN IF t.failed THEN t ELSE [t EXCEPT !.whyles[1].type = "F", !.whyles[1].end = t.pos]
Open(s, start, name, list) ==
  [s EXCEPT !.whyles = <<[start |-> start, end |-> Unknown, type |-> "F", name |-> name, list |-> list]>> \o @]
doforeach(s, l) ==
  LET s1 == Open(s, s.pos, l.name, l.list)
      s2 == IF s.intty THEN preread(s1) ELSE s1
  IN IF s2.failed THEN s2 ELSE doagain(s2)
(* A while is read again for each round; the first reading at a terminal only
   parses the condition. *)
dowhile(s) ==
  LET again == s.whyles # <<>> /\ Inner(s).start = s.lineloc /\ Inner(s).name = ""
      s1 == IF again THEN s ELSE Open(s, s.lineloc, "", <<>>)
      s2 == preread(s1)
  IN IF s.intty /\ ~again THEN IF s2.failed THEN s2 ELSE doagain(s2)
     ELSE IF expr(s) THEN Asked(s1) ELSE toend(Asked(s1))
doelse(s) == Search(s, "else", "")
doswbrk(s) == Search(s, "breaksw", "")
(* The word of a switch is a constant or the value of a variable. *)
doswitch(s, l) == Search(s, "switch", IF l.word \in DOMAIN s.var THEN s.var[l.word] ELSE l.word)
(* Find the ends of all open loops, then the label from the start of the input. *)
FindEnd(s, i) ==
  IF s.failed THEN s
  ELSE IF s.whyles[i].end = Unknown
       THEN LET t == Search(s, "break", "") IN IF t.failed THEN t ELSE [t EXCEPT !.whyles[i].end = t.pos]
       ELSE bseek(s, s.whyles[i].end)
gotolab(s, lab) ==
  LET s1 == FoldLeft(FindEnd, s, [i \in DOMAIN s.whyles |-> i])
      s2 == Search(bseek(s1, 0), "goto", lab)
  IN IF s1.failed THEN s1 ELSE IF s2.failed THEN s2 ELSE wfree(s2)
doexit(s) == [btoeof(s) EXCEPT !.doneinp = TRUE]

(* A command of a line.  An if with a command runs that; the others move. *)
RECURSIVE execute(_, _)
execute(s, l) ==
  CASE l.w = "cmd" -> [s EXCEPT !.out = Append(@, l.name)]
    [] l.w = "show" -> [s EXCEPT !.out = Append(@, s.var[l.name])]
    [] l.w = "ifthen" -> IF expr(s) THEN Asked(s) ELSE Search(Asked(s), "if", "")
    [] l.w = "if" -> IF expr(s) THEN execute(Asked(s), l.do) ELSE Asked(s)
    [] l.w = "else" -> doelse(s)
    [] l.w = "switch" -> doswitch(s, l)
    [] l.w = "breaksw" -> doswbrk(s)
    [] l.w = "foreach" -> doforeach(s, l)
    [] l.w = "while" -> dowhile(s)
    [] l.w = "end" -> doend(s)
    [] l.w = "continue" -> docontin(s)
    [] l.w = "break" -> FoldLeft(LAMBDA t, i : IF t.failed THEN t ELSE dobreak(t), s, [i \in 1 .. l.times |-> i])
    [] l.w = "goto" -> gotolab(s, l.name)
    [] l.w = "exit" -> doexit(s)
    [] l.w \in {"endif", "endsw", "label", "case", "default"} -> s
---------------------------------------------------------------------------
Start(intty) == [pos |-> 0, lineloc |-> 0, feob |-> 0, whyles |-> <<>>, var |-> <<>>, out |-> <<>>,
                 asked |-> 0, intty |-> intty, failed |-> FALSE, doneinp |-> FALSE]
Init == script \in Scripts /\ oracle \in Oracles /\ \E intty \in BOOLEAN : x = Start(intty)
Running == ~x.doneinp /\ ~(x.failed /\ ~x.intty) /\ x.pos < End(x)
(* process(): read the next line and run its commands. *)
RunLine ==
  /\ Running
  /\ LET next == After(x.pos)
     IN x' = execute([x EXCEPT !.pos = next, !.lineloc = x.pos, !.failed = FALSE,
                               !.feob = IF @ > next THEN @ ELSE next], LineAt(x.pos))
  /\ UNCHANGED <<script, oracle>>
Next == RunLine
Spec == Init /\ [][Next]_vars /\ WF_vars(Next)
=============================================================================
