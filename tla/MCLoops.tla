------------------------------- MODULE MCLoops -------------------------------
(* Scripts written as nested blocks, the lines they are typed as, and what a
   reader takes them to mean; the shell, which only seeks and searches, has to
   do the same. *)
EXTENDS Integers, Sequences, SequencesExt, FiniteSetsExt, TLC

VARIABLES script, oracle, x

Cmd(n) == [w |-> "cmd", name |-> n]
Break(n) == [w |-> "break", times |-> n]
Word(w) == [w |-> w]
Goto(l) == [w |-> "goto", name |-> l]
Label(l) == [w |-> "label", name |-> l]
When(l) == [w |-> "if", do |-> l]
Foreach(v, list, body) == [w |-> "foreach", name |-> v, list |-> list, body |-> body]

(* The lines of a block. *)
ElseLine(rest) == [w |-> "else", rest |-> rest]
RECURSIVE Lines(_)
Lines(b) ==
  IF b = <<>> THEN <<>>
  ELSE LET t == Head(b)
       IN (CASE t.w = "foreach" -> <<[w |-> "foreach", name |-> t.name, list |-> t.list]>> \o Lines(t.body) \o <<Word("end")>>
             [] t.w = "while" -> <<Word("while")>> \o Lines(t.body) \o <<Word("end")>>
             [] t.w = "ifthen" -> <<Word("ifthen")>> \o Lines(t.yes) \o <<ElseLine(Word(""))>> \o Lines(t.no) \o <<Word("endif")>>
             [] t.w = "ifelseif" -> <<Word("ifthen")>> \o Lines(t.yes) \o <<ElseLine(Word("ifthen"))>> \o Lines(t.yes2)
                                    \o <<ElseLine(Word(""))>> \o Lines(t.no) \o <<Word("endif")>>
             [] t.w = "switch" -> <<[w |-> "switch", word |-> t.word], [w |-> "case", pattern |-> t.pattern]>> \o Lines(t.body)
                                  \o <<Word("default")>> \o Lines(t.other) \o <<Word("endsw")>>
             [] OTHER -> <<t>>) \o Lines(Tail(b))

(* All ways to nest three blocks around a jump.  since counts the loops inside
   the innermost switch, -1 being outside of any. *)
Kinds == {"foreach", "while", "then", "else", "elseif", "last", "switch"}
Make(kind, b) ==
  CASE kind = "foreach" -> [w |-> kind, name |-> "j", list |-> <<"a", "b">>, body |-> b]
    [] kind = "while" -> [w |-> kind, body |-> b]
    [] kind = "then" -> [w |-> "ifthen", yes |-> b, no |-> <<Cmd("no")>>]
    [] kind = "else" -> [w |-> "ifthen", yes |-> <<Cmd("no")>>, no |-> b]
    [] kind = "elseif" -> [w |-> "ifelseif", yes |-> <<Cmd("no")>>, yes2 |-> b, no |-> <<Cmd("no")>>]
    [] kind = "last" -> [w |-> "ifelseif", yes |-> <<>>, yes2 |-> <<Cmd("no")>>, no |-> b]
    [] kind = "switch" -> [w |-> kind, word |-> "j", pattern |-> "a", body |-> b, other |-> <<Cmd("other")>>]
Jumps(loops, since, most) ==
  {Word("exit"), When(Goto("top")), Goto("out")}
  \cup (IF loops > 0 THEN {Word("continue"), Break(1), When(Break(1))} ELSE {})
  \cup (IF loops > 1 THEN {Break(2)} ELSE {})
  \cup (IF since \in 0 .. most THEN {Word("breaksw")} ELSE {})
RECURSIVE Block(_, _)
Block(kinds, jump) ==
  IF kinds = <<>> THEN <<jump, Cmd("q")>> ELSE <<Cmd("p"), Make(Head(kinds), Block(Tail(kinds), jump)), Cmd("r")>>
LoopsIn(kinds) == Cardinality({i \in DOMAIN kinds : kinds[i] \in {"foreach", "while"}})
Since(kinds) ==
  LET s == {i \in DOMAIN kinds : kinds[i] = "switch"}
  IN IF s = {} THEN -1 ELSE LoopsIn(SubSeq(kinds, Max(s), Len(kinds)))
Program(kinds, jump) == <<Label("top")>> \o Block(kinds, jump) \o <<Label("out"), Cmd("z")>>
Script(kinds, jump) == [tree |-> Program(kinds, jump), lines |-> Lines(Program(kinds, jump))]
ScriptsOf(outer, depth, most) ==
  UNION {{Script(<<k>> \o kinds, jump) : jump \in Jumps(LoopsIn(<<k>> \o kinds), Since(<<k>> \o kinds), most)}
         : <<k, kinds>> \in outer \X [1 .. depth -> Kinds]}
MCScripts == ScriptsOf({"foreach", "while", "switch"}, 2, 1)
MCOracles == {<<>>, <<TRUE>>, <<TRUE, TRUE>>, <<FALSE, TRUE>>, <<TRUE, FALSE, TRUE>>, <<TRUE, TRUE, TRUE, TRUE>>}

L == INSTANCE Loops WITH Scripts <- MCScripts, Oracles <- MCOracles

(* What a block means: m.exit is how it is left, "" at its end. *)
Ask(m) == [m EXCEPT !.asked = @ + 1, !.out = Append(@, IF L!expr(m) THEN "true" ELSE "false")]
Outer(m) == [m EXCEPT !.exit = CASE @ \in {"continue", "break1"} -> "" [] @ = "break2" -> "break1" [] OTHER -> @]
Again(m) == m.exit \in {"", "continue"}
RECURSIVE Means(_, _, _), Meaning(_, _), Rounds(_, _, _)
Means(b, i, m) ==
  IF i > Len(b) THEN m
  ELSE LET m1 == Meaning(b[i], m)
           here == {j \in DOMAIN b : b[j] = Label(m1.exit)}
       IN IF m1.exit = "" THEN Means(b, i + 1, m1)
          ELSE IF here # {} THEN Means(b, Min(here), [m1 EXCEPT !.exit = ""]) ELSE m1
Rounds(t, list, m) ==
  IF t.w = "foreach" /\ list = <<>> THEN m
  ELSE LET m1 == IF t.w = "while" THEN Ask(m) ELSE [m EXCEPT !.var = (t.name :> Head(list)) @@ @]
           m2 == Means(t.body, 1, m1)
       IN IF t.w = "while" /\ ~L!expr(m) THEN m1
          ELSE IF Again(m2) THEN Rounds(t, IF list = <<>> THEN list ELSE Tail(list), [m2 EXCEPT !.exit = ""])
          ELSE Outer(m2)
Meaning(t, m) ==
  CASE t.w = "cmd" -> [m EXCEPT !.out = Append(@, t.name)]
    [] t.w = "show" -> [m EXCEPT !.out = Append(@, m.var[t.name])]
    [] t.w \in {"continue", "breaksw", "exit"} -> [m EXCEPT !.exit = t.w]
    [] t.w = "break" -> [m EXCEPT !.exit = IF t.times = 1 THEN "break1" ELSE "break2"]
    [] t.w = "goto" -> [m EXCEPT !.exit = t.name]
    [] t.w = "label" -> m
    [] t.w = "if" -> IF L!expr(m) THEN Meaning(t.do, Ask(m)) ELSE Ask(m)
    [] t.w = "ifthen" -> Means(IF L!expr(m) THEN t.yes ELSE t.no, 1, Ask(m))
    [] t.w = "ifelseif" -> IF L!expr(m) THEN Means(t.yes, 1, Ask(m))
                           ELSE Means(IF L!expr(Ask(m)) THEN t.yes2 ELSE t.no, 1, Ask(Ask(m)))
    [] t.w \in {"foreach", "while"} -> Rounds(t, IF t.w = "foreach" THEN t.list ELSE <<>>, m)
    [] t.w = "switch" ->
         LET word == IF t.word \in DOMAIN m.var THEN m.var[t.word] ELSE t.word
             m1 == Means(IF word = t.pattern THEN t.body \o t.other ELSE t.other, 1, m)
         IN IF m1.exit = "breaksw" THEN [m1 EXCEPT !.exit = ""] ELSE m1

(* What the blocks of the script mean, read as they are nested. *)
Meant == Means(script.tree, 1, [out |-> <<>>, var |-> <<>>, asked |-> 0, exit |-> ""]).out
(* The searching, seeking shell (search, toend, doagain, wfree) runs exactly
   what the nesting of the script says, typed or from a file, whichever way its
   conditions come out, breaks and gotos out of several loops included. *)
RunsAsNested == IF L!Running THEN IsPrefix(x.out, Meant) ELSE x.out = Meant
=============================================================================
