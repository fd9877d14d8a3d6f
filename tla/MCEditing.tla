------------------------------ MODULE MCEditing -------------------------------
(* The parts of the shell that edit and complete a line, one of them in each
   behaviour: the editor's commands, its key maps, completion and spelling, the
   rules of complete, the list of commands.  The values they are checked with
   come first, then the parts and what is checked. *)
EXTENDS Integers, Sequences, SequencesExt, FiniteSets, FiniteSetsExt, Functions, TLC

CONSTANTS
  Working,                  \* the parts of a run
  INBUFSIZE, MaxKeys,     \* the editor: its buffer, the commands of a behaviour
  MAXMACROLEVELS, MaxMade, MaxOps, \* the keys: nested macros, macros stored, bindkey commands
  MaxTurns,               \* completion: how often complete-word-fwd is typed
  MaxChanges              \* the list of commands: how much happens

VARIABLES
  part,  \* the part that works
  s1, s2, s3, s4, s5, s6, s7, s8, s9, s10, s11  \* its variables, "off" when it has fewer

---------------------------------------------------------------------------
(* Sessions of the editor and what its keys are bound to. *)
Entry(words, line) == [words |-> words, histline |-> line]
KnownMC == {<<"a", "b", "b">>, <<"b", "a">>}
EventsMC == <<Entry(<< <<"a">>, <<"b">> >>, <<"a", " ", " ", "b">>),
            Entry(<< <<"b", "b">>, <<"a">> >>, << >>)>>
Session(vi, dup, lit) == [VImode |-> vi, killring |-> 2, killdup |-> dup, HistLit |-> lit,
                       predict |-> TRUE, Hist |-> EventsMC]
SessionsMC == {Session(TRUE, "", FALSE), Session(FALSE, "erase", TRUE)}
TypingMC == {<<"a", "b">>, <<"b", " ", "a", "b">>}
CharsMC == {"a", "1"}
EmacsMC == {"F_INSERT", "F_QUOTE", "F_DIGIT", "F_ARGDIGIT", "F_ARGFOUR", "F_METANEXT", "F_INSOVR",
  "F_TOEND", "F_TOBEG", "F_CHARBACK", "F_CHARFWD", "F_WORDBACK", "F_WORDFWD", "F_SET_MARK",
  "F_EXCHANGE_MARK", "F_UNASSIGNED", "F_DELPREV", "F_DELNEXT", "F_DELNEXT_EOF", "F_DELNEXT_LIST",
  "F_DELNEXT_LIST_EOF", "F_DELWORDPREV", "F_DELWORDNEXT", "F_KILLEND", "F_KILLBEG", "F_KILLALL",
  "F_KILLREGION", "F_COPYREGION", "F_YANK_KILL", "F_YANK_POP", "F_CHARSWITCH", "F_GCHARSWITCH",
  "F_CAPITALCASE", "F_UPPERCASE", "F_LOWERCASE", "F_COPYPREV", "F_STARTOVER", "F_UP_HIST",
  "F_DOWN_HIST", "F_UP_SEARCH_HIST", "F_DOWN_SEARCH_HIST", "F_TOGGLE_HIST", "F_LAST_ITEM",
  "F_DABBREV_EXPAND", "F_EXPAND_HISTORY", "F_MAGIC_SPACE", "F_EXPAND", "F_PREDICT_ACCEPT",
  "F_NEWLINE", "F_NEWLINE_HOLD", "F_NEWLINE_DOWN_HIST", "F_SEND_EOF", "F_LIST_EOF",
  "F_LIST_CHOICES", "F_WHICH", "F_RUN_FG_EDITOR"}
ViInsMC == {"F_INSERT", "F_DELPREV", "V_DELPREV", "V_CMD_MODE", "F_CHARBACK", "F_CHARFWD", "F_NEWLINE",
  "F_UP_HIST", "F_DOWN_HIST", "F_DELWORDPREV", "F_KILLBEG", "F_YANK_KILL"}
ViCmdMC == {"F_CHARBACK", "F_CHARFWD", "F_WORDBACK", "F_TOEND", "F_TOBEG", "F_UP_HIST", "F_DOWN_HIST",
  "F_NEWLINE", "V_WORDBACK", "V_WORDFWD", "V_WORDBEGNEXT", "V_ENDWORD", "V_EWORD", "V_RCHAR_FWD",
  "V_RCHAR_BACK", "V_ZERO", "V_CHAR_FWD", "V_CHARTO_FWD",
  "V_USH_META", "V_DSH_META", "V_CHANGE_CASE", "V_INSBEG", "V_INSERT", "V_ADD", "V_ADDEND",
  "V_REPLONE", "V_REPLMODE", "V_SUBSTCHAR", "V_SUBSTLINE", "V_CHGTOEND", "V_CHGMETA", "V_DELMETA",
  "V_UNDO", "F_DELNEXT", "F_DELPREV", "F_ARGDIGIT", "F_KILLEND"}
ViMC == [k \in {0, 1} |-> IF k = 0 THEN ViInsMC ELSE ViCmdMC]

---------------------------------------------------------------------------
(* Sequences of keys, macros and bindkey commands. *)
TextsMC == ("m1" :> <<98, 10>>) @@ ("m2" :> <<27, 98>>)
EndsMC == ("up" :> <<27, 79, 65>>) @@ ("down" :> <<24>>)
Op(o, a, k, t, v) == [op |-> o, alt |-> a, key |-> k, name |-> IF k = <<117>> THEN "up" ELSE "down", type |-> t, val |-> v]
Keys == {<<27, 98>>, <<27, 79>>, <<24, 127, 94>>, <<98>>}
OpsMC == {Op("bind", FALSE, k, "CMD", "undo") : k \in Keys} \cup {Op("bind", FALSE, k, "STR", v) : k \in {<<27, 98>>, <<98>>}, v \in {"m1", "m2"}}
    \cup {Op("bind", FALSE, <<24, 24>>, "EXE", "m1"), Op("bind", TRUE, <<79, 98>>, "CMD", "newline"), Op("bind", TRUE, <<98>>, "CMD", "insert"), Op("bind", TRUE, <<79>>, "CMD", "metanext")}
    \cup {Op("remove", FALSE, k, "CMD", "") : k \in {<<27, 98>>, <<27, 79, 65>>, <<24>>, <<27>>}} \cup {Op("remove", TRUE, <<79>>, "CMD", "")}
    \cup {Op("emacs", FALSE, <<>>, "CMD", ""), Op("vi", FALSE, <<>>, "CMD", ""), Op("list", FALSE, <<>>, "CMD", "")}
    \cup {Op("print", FALSE, k, "CMD", "") : k \in {<<27, 79>>, <<24, 24>>, <<226>>}}
    \cup {Op("arrow", FALSE, <<117>>, "STR", "m1"), Op("arrow", FALSE, <<100>>, "CMD", "undo")}

---------------------------------------------------------------------------
(* Lines to complete or to correct, and names. *)
Seqs(A, n) == UNION {[1 .. k -> A] : k \in 0 .. n}
Plain == [recexact |-> FALSE, fignore |-> {}, enhance |-> 0, igncase |-> FALSE, addsuffix |-> TRUE, autocorrect |-> FALSE]
NoRule == [looking |-> "", pat |-> {}, words |-> <<>>, suf |-> "", skip |-> 0]
Start(l, w, o, r) == [line |-> <<"l", " ">> \o l, world |-> w, opt |-> o, rule |-> r]
Orders(S, n) == {w \in [1 .. n -> S] : \A i, j \in 1 .. n : i < j => w[i] # w[j]}
Special == {<<"a">>, <<"a", "b">>, <<"a", " ">>, <<"a", "b", "'">>, <<"a", "$", "b">>, <<"a", "\"">>, <<"a", "!">>, <<"a", "\\", "b">>}
Rewritten == {Start(l, <<x>>, Plain, NoRule) : l \in Seqs({"a", "'", "\"", "\\"}, 3) \cup {<<"'", "\"", "\"", "a">>}, x \in Special}
Named == {<<"a", "b">>, <<"a", "b", "a">>, <<"a", "-", "b">>, <<"a", "_", "b", "b">>, <<"A", "b">>, <<"a", "a", "~">>}
Sorts == {Plain, [Plain EXCEPT !.recexact = TRUE], [Plain EXCEPT !.fignore = {<<"b">>, <<"~">>}], [Plain EXCEPT !.enhance = 1], [Plain EXCEPT !.enhance = 2], [Plain EXCEPT !.igncase = TRUE]}
Matched == {Start(l, w, o, NoRule) : l \in {<<"a">>, <<"a", "b">>, <<"A">>, <<"-">>}, w \in Orders(Named \ {<<"a", "a", "~">>}, 3) \cup Orders({<<"a", "b">>, <<"a", "a", "~">>, <<"A", "b">>}, 3), o \in Sorts}
Spelled == {Start(l, w, Plain, NoRule) : l \in {<<"a">>, <<"a", "a">>, <<"b", "a">>, <<"a", "b", "b">>}, w \in Orders(Named, 2) \cup Orders({<<"a", "b">>, <<"b", "b", "a">>, <<"b", "b">>, <<"b", "a", "a">>, <<"b">>}, 3)}
Answer(k, ws, p, suf, n) == [looking |-> k, pat |-> p, words |-> ws, suf |-> suf, skip |-> n]
Rules == {NoRule, Answer("directory", <<>>, {}, "", 0), Answer("text", <<>>, {}, "none", 0), Answer("file", <<>>, {<<"a", "b">>}, ":", 0), Answer("none", <<>>, {}, "", 0),
          Answer("wordlist", << <<"a", "b">>, <<"b">>, <<"a", "b", "a">> >>, {}, ":", 0), Answer("file", <<>>, {}, "", 1), Answer("command", <<>>, {}, "", 0)}
Pathed == {<<"d", "/">>, <<"d", "/", "a">>, <<"$", "a", "/">>, <<"$", "a">>, <<"$", "{", "a">>, <<"$", "{", "b">>, <<"$">>, <<"$", "c", "/">>, <<"~", "u", "/">>, <<"~", "u">>, <<"~">>, <<"~", "a", "/">>,
           <<"b", "/", "a">>, <<"d", "a", "a">>, <<"a", "b">>, <<"a">>, <<"b", "$", "a", "/">>, <<"a", "*">>, <<"\"", "$", "b">>, <<"$", "b">>, <<"'", "$", "b">>, <<"d", "d", "/", "a">>, <<"a", "/", "b">>}
Ruled == {Start(l, << <<"d">>, <<"a", "b">>, <<"b">> >>, o, r) : l \in Pathed, r \in Rules, o \in {Plain, [Plain EXCEPT !.autocorrect = TRUE], [Plain EXCEPT !.addsuffix = FALSE]}}
         \cup {[Start(<<>>, << <<"d">>, <<"a", "b">>, <<"b">> >>, Plain, NoRule) EXCEPT !.line = l] : l \in Pathed \cup {<<"a", ";", "a">>, <<"bq", "a">>, <<"bq", "a", "bq", "a">>, <<"(", "a">>, <<">", "&", " ", "a">>}}
StartsMC == Rewritten \cup Matched \cup Spelled \cup Ruled
NamesMC == <<(<<"a">>), <<"a", "-", "b">>, <<"a", "_", "b", "b">>, <<"a", "a", "~">>, <<"a", "b">>, <<"A", "b">>, <<"a", "b", "a">>, <<"b">>, <<"d">>, <<"u">>>>
InsideMC == (<<"d", "/">> :> << <<"a">> >>) @@ (<<"a", "/">> :> << <<"a">> >>)
CommandsMC == << <<"a", "b">> >>
UsersMC == <<"u">> :> <<"d">>
ValuesMC == ("a" :> <<"d">>) @@ ("b" :> <<"'", "$">>)
ExecMC == {<<"a">>}

---------------------------------------------------------------------------
(* Rules of complete and lines that ask them. *)
AlphabetMC == <<" ", "*", "-", "/", ":", "0", "1", "2", "3", "?", "[", "]", "^", "a", "b", "x", "{", "}", "~", ",", "~0", ";", "(", ">">>
Rule(w, p, g, s, k, l, r, f) == [word |-> w, pat |-> p, range |-> g, sel |-> s, arg |-> k, looking |-> l, pattern |-> r, suf |-> f]
Dir(w, p, g, f) == Rule(w, p, g, <<"d">>, {}, "directory", <<>>, f)
RulesMC == {Dir("p", <<"*">>, 0 .. 9, "none"), Dir("p", <<"1">>, {1}, ""), Dir("p", <<"2", "-">>, 2 .. 9, "b"), Dir("p", <<"-", "1">>, 0 .. 1, ""), Dir("p", <<"1", "-", "2">>, 1 .. 2, "x"),
  Dir("n", <<"a">>, {}, ""), Dir("n", <<"*">>, {}, "b"), Dir("N", <<"a", "b">>, {}, ""), Dir("C", <<"a", "*">>, {}, "none"),
  Rule("c", <<"a">>, {}, <<"f", ":", "b", "*">>, {}, "file", <<"b", "*">>, "x"), Rule("c", <<"[", "a", "b", "]", "?">>, {}, <<"n">>, {}, "none", <<>>, ""),
  Rule("c", <<"*", "b">>, {}, <<"t">>, {}, "text", <<>>, ""), Rule("p", <<"2">>, {2}, <<"(", "x", "$", ":", "1", ")">>, {1}, "wordlist", <<"x">>, "none"),
  Rule("n", <<"b">>, {}, <<"$", "a">>, {}, "varlist", <<"a">>, ""), Rule("C", <<"b">>, {}, <<"(", "$", ":", "-", "1", ")">>, {-1}, "wordlist", <<>>, "")}
DefinedMC == {[name |-> <<"a">>, rules |-> <<r>>] : r \in RulesMC}
  \cup {[name |-> <<"a">>, rules |-> <<r, s>>] : r \in RulesMC, s \in {x \in RulesMC : x.sel # <<"d">> \/ x.pat = <<"*">>}} \cup {[name |-> <<"a", "*">>, rules |-> << Dir("p", <<"*">>, 0 .. 9, "b") >>]}
  \cup {[name |-> <<"-", "a", "*">>, rules |-> <<r>>] : r \in {x \in RulesMC : x.word = "c"}}
RemovedMC == {<<"a">>, <<"*">>}
Live(w) == [k \in DOMAIN w |-> [c |-> w[k], q |-> w[k] = ";"]]
RECURSIVE Line(_)
Line(ws) == IF Len(ws) = 1 THEN Live(ws[1]) ELSE Live(ws[1]) \o <<[c |-> " ", q |-> FALSE]>> \o Line(Tail(ws))
WS == {<<"a">>, <<"b">>, <<"a", "b">>, <<"x">>}
AskedMC == {[line |-> Line(ws), words |-> ws, looking |-> "zero", clean |-> TRUE] : ws \in {<<(<<"a">>)>> \o r : r \in UNION {[1 .. k -> WS] : k \in 1 .. 2}}
   \cup {<<(<<"a">>), x, <<>> >> : x \in WS} \cup {<<(<<"a">>), <<"a", "b">>, x, <<>> >> : x \in WS} \cup {<<(<<"a">>), <<>> >>, <<(<<"a", "b">>), <<>> >>, << <<"b">>, <<"a">> >>, << <<"a">>, <<";", "b">> >> }}
   \cup {[line |-> Line(<<w>>), words |-> <<w>>, looking |-> "command", clean |-> TRUE] : w \in WS}
   \cup {[line |-> Line(<<(<<"a">>), w>>), words |-> <<(<<"a">>), w>>, looking |-> "zero", clean |-> FALSE] : w \in {<<"b", ">">>, <<"(", "a">>}}
OutputMC == <<(<<"x">>)>> :> <<"a", "b">>

---------------------------------------------------------------------------
(* Commands. *)
ListedMC == <<"a", "b", "cd", "set">>
BuiltinsMC == {"cd", "set"}
PathsMC == {<<"/bin">>, <<"/bin", "/usr", ".">>, <<".", "/usr">>}

---------------------------------------------------------------------------
(* The parts. *)
Z == INSTANCE Editor WITH Commands <- KnownMC, EmacsCmds <- EmacsMC, ViCmds <- ViMC, Typing <- TypingMC, Chars <- CharsMC,
       Modes <- SessionsMC, e <- s1, editing <- s2, keys <- s3
K == INSTANCE KeyMaps WITH Chars <- {10, 24, 27, 65, 66, 79, 94, 98, 117, 127, 226}, Ops <- OpsMC, Texts <- TextsMC,
       Ends <- EndsMC, km <- s1, at <- s2, KeyMacro <- s3, alt <- s4, meta <- s5, busy <- s6, done <- s7, shown <- s8
C == INSTANCE Complete WITH Starts <- StartsMC, Inside <- InsideMC, Commands <- CommandsMC, Executables <- ExecMC,
       Collated <- NamesMC, Users <- UsersMC, Values <- ValuesMC,
       line <- s1, world <- s2, opt <- s3, rule <- s4, base <- s5, curchoice <- s6, turns <- s7, did <- s8, ret <- s9
R == INSTANCE CompRules WITH Alphabet <- AlphabetMC, Defined <- DefinedMC, Removed <- RemovedMC, Typed <- AskedMC,
       Output <- OutputMC, completions <- s1, asked <- s2, answer <- s3
L == INSTANCE CmdList WITH Collated <- ListedMC, Builtins <- BuiltinsMC, Absolute <- {"/bin", "/usr"}, Relative <- {"."}, Dot <- ".",
       Paths <- PathsMC, Own <- {"a", "cd"}, files <- s1, path <- s2, aliases <- s3, recexec <- s4, autorehash <- s5,
       list <- s6, got <- s7, shown <- s8, always <- s9, ever <- s10, changes <- s11
ASSUME Z!BufferAssumption

vars == <<part, s1, s2, s3, s4, s5, s6, s7, s8, s9, s10, s11>>
unused3 == <<s4, s5, s6, s7, s8, s9, s10, s11>>
unused9 == <<s10, s11>>
Off9 == s10 = "off" /\ s11 = "off"
Off3 == s4 = "off" /\ s5 = "off" /\ s6 = "off" /\ s7 = "off" /\ s8 = "off" /\ s9 = "off" /\ Off9
Init ==
  /\ part \in Working
  /\ \/ part = "editor" /\ Z!Init /\ Off3
     \/ part = "keys" /\ K!Init /\ s9 = 0 /\ Off9
     \/ part = "complete" /\ C!Init /\ Off9
     \/ part = "rules" /\ R!Init /\ Off3
     \/ part = "commands" /\ L!Init
Edit == part = "editor" /\ Z!Next /\ UNCHANGED <<part, unused3>>
\* s9 counts the bindkey commands given.
PressKeys ==
  /\ part = "keys" /\ UNCHANGED <<part, unused9>>
  /\ \/ s9 < MaxOps /\ K!Bindkey /\ s9' = s9 + 1
     \/ (K!Again \/ K!FromMacro \/ K!Type \/ K!Interrupt) /\ UNCHANGED s9
CompleteWord == part = "complete" /\ C!Next /\ UNCHANGED <<part, unused9>>
AskRules == part = "rules" /\ R!Next /\ UNCHANGED <<part, unused3>>
ListCommands == part = "commands" /\ L!Next /\ UNCHANGED part
Next == Edit \/ PressKeys \/ CompleteWord \/ AskRules \/ ListCommands
Spec == Init /\ [][Next]_vars
---------------------------------------------------------------------------
(* What a kill or one of vi's deletes took away comes back, at its place, with a
   yank or an undo, and undoing twice is nothing (c_push_kill(), c_delfini(),
   v_undo(), ed.chared.c). *)
UndoWorks == [][part = "editor" => Z!KillYank /\ Z!UndoWorks]_vars
(* The line that is being typed is kept while history lines are shown in its place,
   and no command takes the cursor out of the line or the line out of the buffer
   as long as mark and undo are within it (e_up_hist(), ed.chared.c; the checks at
   the head of Inputl(), ed.inputl.c). *)
LineKept == [][part = "editor" => Z!KeepsDraft /\ Z!StaysInLine]_vars
(* Keys do what their sequence was last bound to, typed or read from macros, and
   nothing when no sequence begins like that: the tree of sequences is what was
   bound to them, none the beginning of another, and bindkey prints each in a form
   that it reads as the same (TraverseMap(), ed.xmap.c:170, 234, 456, 659). *)
KeysDo == [][part = "keys" => K!KeysDo /\ K!TableKept /\ K!KeysReadBack]_vars
(* A word is completed to what all the names it may stand for have in common and
   corrected to a nearest one, in whatever order they are found; the shell reads
   what is written into the line as that name; complete-word-fwd and -back go
   round the names (t_search(), insert_meta(), tw.parse.c; tw.spell.c). *)
Completes ==
  part = "complete" => C!WrittenAsMeant /\ C!CompletesToCommon /\ C!SpellsClosest /\ C!ScrollsRound
(* The first rule of complete that applies says how a word is completed
   (tw_complete(), tw.comp.c:514).  That a rule n or N applies means here what the
   code does, that its pattern matches all of the earlier word (tw.comp.c:616), not
   what the manual says, that it matches the beginning of it (tcsh.man.in:4838). *)
FirstRule == part = "rules" => R!FirstRule
(* What is offered as a command is there (tw_cmd_start(), tw.init.c). *)
OffersWhatIsThere == part = "commands" => L!OffersWhatIsThere
=============================================================================
