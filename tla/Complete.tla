--------------------------------- MODULE Complete ---------------------------------
(* Completion and spelling of the word before the cursor (tw.parse.c, tw.spell.c):
   the line is read up to the cursor, the items that may stand there are collected
   in the order in which they are found, and what they have in common goes into
   the line within the quotes the user typed.  A character of a word has the mark
   QUOTE or not. *)
EXTENDS Integers, Sequences, SequencesExt, FiniteSets, FiniteSetsExt

CONSTANTS
  Starts,    \* what was typed, the names in the working directory in the order of
             \* readdir(), the variables, and what tw_complete() answers (CompRules)
  Inside,    \* directory -> the names in it
  Commands,  \* the commands there are (CmdList)
  Executables, \* the names of files that can be executed
  Collated,  \* all names in the order of fcompare()
  Users,     \* external: user -> the home directory
  Values,    \* variable -> its value
  MaxTurns   \* bound: how often complete-word-fwd or -back is typed
VARIABLES
  line,      \* the line up to the cursor
  world, opt, rule, \* as in Starts
  base,      \* what was typed: curlen is its length
  curchoice, \* which of the items it shows, from 0; -1 for none
  turns,     \* how often complete-word-fwd was typed more than complete-word-back
  did, ret   \* the last command of the editor, what tenematch() returned
completeVars == <<line, world, opt, rule, base, curchoice, turns, did, ret>>

HIST == "!"
HISTSUB == "^"
Esc == "\\"
QF == {"'", "\""}
U(c) == [c |-> c, q |-> FALSE]
Q(c) == [c |-> c, q |-> TRUE]
quote(s) == [i \in 1 .. Len(s) |-> Q(s[i])]
live(s) == [i \in 1 .. Len(s) |-> U(s[i])]
strip(w) == [i \in 1 .. Len(w) |-> w[i].c]
Meta == {" ", ";", "&", "|", "(", ")", "<", ">", "bq"}
isglob(c) == c \in {"*", "?", "[", "{", "bq"}
tricky(c) == c \in Meta \cup QF \cup {"$", Esc} \/ isglob(c)
tricky_dq(c) == c \in {"$", "bq"}
ismetahash(ch) == ~ch.q /\ ch.c \in Meta
iscmdmeta(c) == c \in {";", "&", "|", "("}
Places(w, c) == {i \in DOMAIN w : w[i] = U(c)}
Strrchr(w, c) == IF Places(w, c) = {} THEN 0 ELSE Max(Places(w, c))
From(w, i) == SubSeq(w, i, Len(w))

(* tenematch() reads the line: q is the line without its quotes, the word begins
   after word of its characters and ws typed ones, the command after cs. *)
Scanned == [q |-> <<>>, qu |-> "", word |-> 0, ws |-> 0, cs |-> 0, backq |-> FALSE, outer |-> <<0, 0, 0>>]
Backquote(s, i) ==
  LET n == Len(s.q)
      s1 == IF s.backq THEN [s EXCEPT !.cs = s.outer[1], !.ws = s.outer[2], !.word = s.outer[3]]
            ELSE [s EXCEPT !.outer = <<s.cs, s.ws, s.word>>, !.ws = i, !.word = n + 1, !.cs = n + 1]
  IN [s1 EXCEPT !.backq = ~s.backq, !.q = Append(s.q, U("bq"))]
RECURSIVE Scan(_, _, _)
Scan(t, i, s) ==
  IF i > Len(t) THEN s
  ELSE LET c == t[i]
           hist == c = Esc /\ i < Len(t) /\ t[i + 1] = HIST
           quoted == s.qu # "" /\ (tricky(c) \/ c = "~") /\ ~(s.qu = "\"" /\ tricky_dq(c))
           ch == IF hist THEN Q(HIST) ELSE [c |-> c, q |-> quoted]
           at == IF hist THEN i + 1 ELSE i
           q == Append(s.q, ch)
           s1 == [s EXCEPT !.q = q, !.cs = IF iscmdmeta(c) THEN Len(q) ELSE @, !.qu = IF @ = Esc THEN "" ELSE @]
       IN IF c \in QF \cup {Esc} /\ s.qu \in {"", c} \ {Esc} THEN Scan(t, i + 1, [s EXCEPT !.qu = IF @ = "" THEN c ELSE ""])
          ELSE IF c = "bq" /\ s.qu \notin {"'", Esc} THEN Scan(t, i + 1, Backquote(s, i))
          ELSE Scan(t, at + 1, IF ismetahash(ch) THEN [s1 EXCEPT !.word = Len(q), !.ws = at] ELSE s1)

RECURSIVE BackTo(_, _, _, _), Blanks(_, _)
\* The character that starts the command; 0 at the start of the line, -1 where a word stands before.
BackTo(q, j, white, starts) ==
  IF j = 0 THEN 0
  ELSE IF q[j] \in starts THEN j
  ELSE LET alive == q[j] \in {U(" "), U("<"), U(">")}
       IN IF white /\ ~alive THEN -1 ELSE BackTo(q, j - 1, white \/ alive, starts)
Blanks(q, j) == IF j > 1 /\ q[j - 1] = U(" ") THEN Blanks(q, j - 1) ELSE IF j > 1 THEN j - 1 ELSE j
starting_a_command(q, word) ==
  LET odd == Cardinality({i \in 1 .. word : q[i] = U("bq")}) % 2 = 1
      j == BackTo(q, word, FALSE, {U(c) : c \in {";", "&", "(", "|"} \cup (IF odd THEN {"bq"} ELSE {})})
      before == q[Blanks(q, j)]
  IN /\ j >= 0
     /\ j > 1 /\ q[j] = U("&") => before # U(">")
     /\ j > 1 /\ q[j] = U("(") => (~before.q /\ iscmdmeta(before.c)) \/ before = U(" ")

(* insert_meta(): the word w in place of what was typed for it, with the quotes
   of the user as long as both go together. *)
RECURSIVE insert(_, _, _, _, _, _)
insert(t, cp, w, buf, qu, sync) ==
  LET in_sync == sync /\ cp <= Len(t)
  IN IF in_sync /\ qu # Esc /\ t[cp] \in QF \cup {Esc} /\ qu \in {"", t[cp]}
     THEN insert(t, cp + 1, w, Append(buf, t[cp]), IF qu = "" THEN t[cp] ELSE "", TRUE)
     ELSE IF w = <<>> THEN [text |-> buf, open |-> qu]
     ELSE LET c == w[1].c
              wq == w[1].q \/ c \in QF \cup {Esc}
              last == Len(w) = 1
              Put(b, u, cp2, s) == insert(t, cp2, Tail(w), b, IF u = Esc THEN "" ELSE u, s)
          IN IF ~wq /\ qu # "" /\ tricky(c) /\ ~(qu = "\"" /\ tricky_dq(c))
             THEN IF qu = Esc THEN Put([buf EXCEPT ![Len(buf)] = c], qu, cp, FALSE)
                  ELSE Put(buf \o <<qu, c>> \o (IF last THEN <<>> ELSE <<qu>>), IF last THEN "" ELSE qu, cp, FALSE)
             ELSE IF qu # "" /\ c = qu
             THEN IF buf # <<>> /\ Last(buf) = qu THEN Put(Append([buf EXCEPT ![Len(buf)] = Esc], c), "", cp, FALSE)
                  ELSE Put(buf \o <<qu, Esc, c, qu>>, qu, cp, FALSE)
             ELSE IF wq /\ qu = "\"" /\ tricky_dq(c) THEN Put(buf \o <<qu, Esc, c, qu>>, qu, cp, FALSE)
             ELSE IF wq /\ ((qu = "" /\ (tricky(c) \/ (c = HISTSUB /\ buf = <<>>))) \/ (qu # Esc /\ c = HIST))
             THEN Put(buf \o <<Esc, c>>, qu, cp, FALSE)
             ELSE Put(Append(buf, c), qu, IF in_sync THEN cp + 1 ELSE cp, in_sync /\ t[cp] = c)
\* Mutant: the quotes of the user are kept to the end.
insert_metaPlain(t, w) == [text |-> strip(w), open |-> ""]
(* The code means to close a quote that is left open, and appends a NUL. *)
insert_meta(t, w) == insert(t, 1, w, <<>>, "", TRUE)

(* Names against what was typed of them. *)
Lower(c) == IF c = "A" THEN "a" ELSE IF c = "B" THEN "b" ELSE c
is_prefix(check, template) == IsPrefix(check, template)
Same(c, t, e) ==
  LET dash(x) == IF e = 2 /\ x = "_" THEN "-" ELSE Lower(x)
  IN c = t \/ c = dash(t) \/ (dash(c) = t /\ e # 2)
RECURSIVE is_prefixmatch(_, _, _)
is_prefixmatch(check, template, e) ==
  IF check = <<>> THEN TRUE
  ELSE LET c == check[1]
           seps == {c} \cup (CASE c = "_" /\ e # 2 -> {"-"} [] c = "-" -> {"_"} [] OTHER -> {})
           next == {i \in DOMAIN template : template[i] \in seps}
       IN IF template # <<>> /\ Same(c, template[1], e) THEN is_prefixmatch(Tail(check), Tail(template), e)
          ELSE /\ e # 0 /\ c \in {"-", ".", "_"} /\ next # {}
               /\ is_prefixmatch(Tail(check), From(template, Min(next) + 1), e)
ignored(item) == \E s \in opt.fignore : IsSuffix(s, item)

(* recognize(): what exp and item have in common; stop where that is what was typed. *)
RECURSIVE Common(_, _, _)
Common(x, ent, loose) ==
  IF x = <<>> \/ ent = <<>> THEN <<>>
  ELSE IF x[1] = ent[1] \/ (loose /\ Lower(x[1]) = Lower(ent[1]) /\ Lower(x[1]) # ent[1]) THEN <<x[1]>> \o Common(Tail(x), Tail(ent), loose)
  ELSE IF loose /\ (Lower(x[1]) = ent[1] \/ (x[1] = "_" /\ ent[1] = "-")) THEN <<ent[1]>> \o Common(Tail(x), Tail(ent), loose)
  ELSE <<>>
recognize(exp, item, name_length, num) ==
  LET c == Common(exp, item, opt.enhance > 0 \/ opt.igncase)
  IN IF num = 1 THEN [exp |-> item, stop |-> FALSE]
     ELSE [exp |-> c, stop |-> ~(opt.recexact \/ (opt.enhance > 0 /\ Len(c) < Len(item))) /\ Len(c) = name_length]

Entries(dir) == IF dir = <<>> THEN world ELSE IF dir \in DOMAIN Inside THEN Inside[dir] ELSE <<>>
isadirectory(dir, item) == dir \o item \o <<"/">> \in DOMAIN Inside
executable(dir, item) == item \in Executables \/ isadirectory(dir, item)
(* spdist(): 0 the same, 1 two letters swapped or one missing, 2 one too many, 3 a wrong one. *)
spdist(s, t) ==
  LET n == Max({k \in 0 .. Len(s) : IsPrefix(SubSeq(s, 1, k), t)})
      a == From(s, n + 1)
      b == From(t, n + 1)
  IN IF s = t THEN 0
     ELSE IF Len(a) > 1 /\ Len(b) > 1 /\ a[1] = b[2] /\ b[1] = a[2] /\ From(a, 3) = From(b, 3) THEN 1
     ELSE IF a # <<>> /\ b # <<>> /\ Tail(a) = Tail(b) THEN 3
     ELSE IF a # <<>> /\ Tail(a) = b THEN 2
     ELSE IF b # <<>> /\ a = Tail(b) THEN 1 ELSE 4
(* spdir(): the letter after the name of a directory stands for a /. *)
spdir(dir, item, name) ==
  LET rest == From(name, Len(item) + 2)
  IN IF item # <<".">> /\ IsStrictPrefix(item, name) /\ rest # <<>> /\ Contains(Entries(dir \o item \o <<"/">>), rest)
     THEN <<item \o <<"/">> \o rest>> ELSE <<>>

(* The words that name a directory: dollar(), tilde(), expand_dir(). *)
RECURSIVE dollar(_)
dollar(w) ==
  IF w = <<>> THEN <<>>
  ELSE IF w[1] # U("$") THEN <<w[1]>> \o dollar(Tail(w))
  ELSE quote(Values[w[2].c]) \o dollar(From(w, 3))
Unset(w) == \E i \in Places(w, "$") : i = Len(w) \/ w[i + 1].c \notin DOMAIN Values
tilde(w) == IF w # <<>> /\ w[1] = U("~")
            THEN LET o == Min(Places(w, "/")) IN quote(Users[strip(SubSeq(w, 2, o - 1))]) \o From(w, o) ELSE w
Nobody(w) == w # <<>> /\ w[1] = U("~") /\ strip(SubSeq(w, 2, Min(Places(w, "/")) - 1)) \notin DOMAIN Users
expand_dir(dir) == IF Unset(dir) \/ Nobody(dollar(dir)) THEN <<"none">>
                   ELSE LET d == strip(tilde(dollar(dir))) IN IF d = <<>> \/ d \in DOMAIN Inside THEN d ELSE <<"none">>

(* tw_collect_items(): what is of the right kind, taken in the order in which it
   is found. *)
Shown(looking, target, item) == looking \in {"file", "directory", "text"} /\ target = <<>> => item[1] # "."
Right(dir, flags, item) ==
  /\ "exec" \in flags => executable(dir, item)
  /\ "dir" \in flags => isadirectory(dir, item)
  /\ "text" \in flags => ~isadirectory(dir, item)
  /\ "pat" \in flags => item \in rule.pat \/ ("dir" \notin flags /\ isadirectory(dir, item))
Hits(dir, looking, target, flags, item) ==
  /\ Shown(looking, target, item)
  /\ IF opt.enhance > 0 \/ opt.igncase THEN is_prefixmatch(target, item, opt.enhance) ELSE is_prefix(target, item)
  /\ Right(dir, flags, item)
Dups == {"command", "logname", "user"}
RecognizeItem(command, dir, looking, target, flags, s, item) ==
  LET n == s.num + 1
      r == recognize(s.exp, item, Len(target), n)
      kept == IF opt.enhance > 0 /\ Len(r.exp) < Len(target) THEN target ELSE r.exp
      s1 == [s EXCEPT !.seen = @ \cup {item}]
      s2 == IF command = "scroll" THEN [s1 EXCEPT !.scroll = Append(@, item)] ELSE s1
  IN IF s.done \/ ~Hits(dir, looking, target, flags, item) \/ (looking \in Dups /\ item \in s.seen) THEN s
     ELSE IF "ign" \in flags /\ ignored(item) THEN [s1 EXCEPT !.ign = @ + 1]
     ELSE IF opt.recexact /\ item = target THEN [s2 EXCEPT !.exp = item, !.num = 1, !.done = TRUE]
     ELSE [s2 EXCEPT !.exp = kept, !.num = n, !.done = r.stop /\ command # "scroll"]
SpellItem(dir, target, flags, s, item) ==
  LET nd == spdist(target, item)
      sp == spdir(dir, item, target)
      ok(n) == "exec" \in flags => executable(dir, n)
  IN IF s.done THEN s
     ELSE IF target = <<>> THEN [s EXCEPT !.exp = <<>>, !.d = 0, !.done = TRUE]
     ELSE IF "pat" \in flags /\ item \notin rule.pat THEN s
     ELSE IF nd # 4 THEN IF nd <= s.d /\ ok(item) THEN [s EXCEPT !.exp = item, !.d = nd, !.done = nd = 0] ELSE s
     ELSE IF sp # <<>> THEN [s EXCEPT !.exp = sp[1], !.d = IF ok(sp[1]) THEN 3 ELSE @] ELSE s
Nothing == [exp |-> <<>>, num |-> 0, ign |-> 0, d |-> 4, done |-> FALSE, seen |-> {}, scroll |-> <<>>]
tw_collect_items(command, dir, looking, target, flags, order) ==
  IF command = "spell"
  THEN FoldLeft(LAMBDA s, item : IF Shown(looking, target, item) THEN SpellItem(dir, target, flags, s, item) ELSE s, Nothing, order)
  ELSE FoldLeft(LAMBDA s, item : RecognizeItem(command, dir, looking, target, flags, s, item), Nothing, order)
Or(s, again, all) == IF again /\ s.num = 0 /\ s.ign > 0 THEN all ELSE s
(* tw_collect(): where there are only names to ignore, they are not ignored. *)
tw_collect(command, dir, looking, target, flags, order, choice) ==
  Or(tw_collect_items(command, dir, looking, target, flags, order), command = "recognize" \/ (command = "scroll" /\ choice < -1),
     tw_collect_items(command, dir, looking, target, flags \ {"ign"}, order))
\* RECOGNIZE_SCROLL: one of the items in turn.
Scrolled(s, choice) ==
  LET cnt == Len(s.scroll)
      at == IF choice < -1 THEN cnt - 1 ELSE choice
      sorted == SelectSeq(Collated, LAMBDA n : Contains(s.scroll, n))
  IN [choice |-> IF cnt <= choice \/ choice = -1 THEN -1 ELSE IF s.num > 1 THEN at ELSE choice,
      s |-> IF cnt <= choice \/ choice = -1 THEN [s EXCEPT !.num = 0] ELSE IF s.num > 1 THEN [s EXCEPT !.exp = sorted[at + 1], !.num = 1] ELSE s]

(* t_search(): the word completed or corrected. *)
Unclosed(name) == LET d == Strrchr(name, "$") IN d > 0 /\ ~(d < Len(name) /\ name[d + 1].c = "{" /\ U("}") \in {name[i] : i \in d .. Len(name)})
tw_suffix(looking, word, dir, exp) ==
  LET d == Strrchr(word, "$")
      curly == Unclosed(word) /\ d < Len(word) /\ word[d + 1].c = "{"
  IN CASE looking = "logname" \/ looking = "directory" -> "/"
       [] looking = "variable" -> IF Values[exp[1]] = <<>> THEN " " ELSE IF curly THEN "}" ELSE IF isadirectory(dir, Values[exp[1]]) THEN "/" ELSE " "
       [] looking \in {"command", "file"} -> IF isadirectory(dir, exp) THEN "/" ELSE " "
       [] OTHER -> " "
tw_fixword(looking, word, dir, exp) ==
  LET d == Strrchr(word, "$")
      at == IF d < Len(word) /\ word[d + 1].c = "{" THEN d + 1 ELSE d
  IN (CASE looking = "logname" -> live(<<"~">>)
        [] looking = "variable" -> SubSeq(word, 1, at)
        [] looking \in {"file", "directory", "text"} -> dir
        [] OTHER -> <<>>) \o quote(exp)
NameOf(w) == From(w, Strrchr(w, "/") + 1)
DirOf(w) == SubSeq(w, 1, Strrchr(w, "/"))
Looking(word, asked) ==
  LET path == Strrchr(word, "/") > 0
  IN CASE word # <<>> /\ word[1] = U("~") /\ ~path -> "logname"
       [] OTHER -> IF Unclosed(NameOf(word)) THEN "variable" ELSE IF asked = "command" /\ path THEN "file" ELSE asked
(* What t_search() looks for, and among what. *)
Search(word, asked) ==
  LET looking == Looking(word, asked)
      dir == DirOf(word)
      name == NameOf(word)
      d == Strrchr(name, "$")
      files == looking \in {"file", "directory", "text"}
      exp_dir == IF files \/ looking = "variable" THEN expand_dir(dir) ELSE <<>>
  IN [looking |-> looking, dir |-> dir, exp_dir |-> exp_dir,
      flags |-> (IF rule.pat = {} \/ looking \in {"logname", "variable", "wordlist"} THEN {"ign"} ELSE {"pat"})
                \cup (CASE looking = "directory" -> {"dir"} [] looking = "text" -> {"text"}
                        [] OTHER -> IF asked = "command" /\ looking = "file" THEN {"exec"} ELSE {}),
      target |-> strip(CASE looking = "logname" -> Tail(word)
                         [] looking = "variable" -> From(name, d + (IF d < Len(name) /\ name[d + 1].c = "{" THEN 2 ELSE 1))
                         [] OTHER -> IF files THEN name ELSE word),
      order |-> CASE files -> Entries(exp_dir) [] looking = "command" -> Commands [] looking = "wordlist" -> rule.words
                  [] looking = "logname" -> SetToSeq(DOMAIN Users) [] OTHER -> SetToSeq({<<v>> : v \in DOMAIN Values})]
\* The items c that were collected, one of them chosen.
Chosen(c, command, choice) == IF command = "scroll" THEN Scrolled(c, choice) ELSE [choice |-> -1, s |-> c]
Rewritten(word, command, f, chosen) ==
  LET s == chosen.s
      fixed == tw_fixword(f.looking, word, f.dir, s.exp)
      suffix == IF ~opt.addsuffix \/ s.num # 1 \/ rule.suf = "none" THEN <<>>
                ELSE IF rule.suf = "" THEN <<U(tw_suffix(f.looking, fixed, f.exp_dir, s.exp))>> ELSE <<U(rule.suf)>>
  IN IF command # "spell"
     THEN [word |-> IF s.num = 0 THEN word ELSE fixed \o suffix, ret |-> s.num, choice |-> chosen.choice]
     ELSE IF f.looking = "logname" /\ f.target \in DOMAIN Users THEN [word |-> word, ret |-> 0, choice |-> -1]
     ELSE [word |-> fixed, ret |-> s.d, choice |-> -1]
Collected(word, command, f, choice) ==
  Rewritten(word, command, f,
    Chosen(tw_collect(command, f.exp_dir, f.looking, f.target, f.flags, f.order, choice), command, choice))
Among(word, command, f, silent, choice) ==
  IF f.exp_dir = <<"none">>
  THEN [word |-> word, ret |-> IF command = "spell" \/ silent THEN -2 ELSE -1, choice |-> -1]
  ELSE Collected(word, command, f, choice)
t_search(word, command, asked, silent, choice) ==
  IF asked = "none" THEN [word |-> word, ret |-> -1, choice |-> -1]
  ELSE Among(word, command, Search(word, asked), silent, choice)

(* spell_me(): the parts of a name from left to right, each in the directory that
   those before it name by then. *)
RECURSIVE spell_from(_, _, _), spell_next(_, _, _, _)
spell_next(g, old, newname, looking) ==
  IF g.ret >= 4 \/ g.ret < 0 THEN <<>> ELSE spell_from(old, newname \o From(g.word, Len(newname) + 1), looking)
spell_from(old, newname, looking) ==
  LET blank == {k \in 0 .. Len(old) : \A i \in 1 .. k : old[i].c = "/"}
      o1 == From(old, Max(blank) + 1)
      n1 == newname \o SubSeq(old, 1, Max(blank))
      one == Len(o1) = 1
      o2 == IF one THEN <<>> ELSE o1
      n2 == IF one THEN n1 \o o1 ELSE n1
      k == Min({i \in 1 .. Len(o2) : i = Len(o2) \/ o2[i + 1].c = "/"})
  IN IF o2 = <<>> THEN <<n2>>
     ELSE spell_next(t_search(n2 \o SubSeq(o2, 1, k), "spell", looking, TRUE, -1), From(o2, k + 1), n2, looking)
Spelled(word, w) ==
  IF w = <<>> THEN [word |-> word, ret |-> -1]
  ELSE [word |-> w[1], ret |-> IF strip(w[1]) = strip(word) THEN 0 ELSE 1]
spell_me(word, looking) == Spelled(word, spell_from(word, <<>>, looking))

(* The commands of the editor. *)
Read(t) == Scan(t, 1, Scanned)
AskedFor(s) == IF rule.looking # "" THEN rule.looking ELSE IF starting_a_command(s.q, s.word) THEN "command" ELSE "file"
WordOf(s) == From(s.q, s.word + rule.skip + 1)
\* The word w for the one before the cursor.
Written(t, s, w) == SubSeq(t, 1, s.ws) \o insert_meta(From(t, s.ws + 1), SubSeq(s.q, s.word + 1, s.word + rule.skip) \o w).text
Recognized(t, s, w, r) ==
  [line |-> IF Len(r.word) > Len(w) THEN Written(t, s, r.word) ELSE t, ret |-> r.ret, choice |-> r.choice]
\* The directory of the word is corrected where it was not found, and searched again.
Corrected(command, t, s, r1, sp) ==
  LET w == WordOf(s)
      w2 == sp.word \o From(w, Strrchr(w, "/"))
  IN IF r1.ret # -2 THEN Recognized(t, s, w, r1)
     ELSE IF sp.ret # 1 THEN Recognized(t, s, w, [r1 EXCEPT !.ret = sp.ret])
     ELSE Recognized(t, s, w2, t_search(w2, command, AskedFor(s), FALSE, r1.choice))
RecognizeIn(command, t, choice, s, w, slshp) ==
  LET silent == opt.autocorrect /\ slshp > 0 /\ slshp < Len(w) /\ ~\E i \in 1 .. slshp - 1 : ~w[i].q /\ isglob(w[i].c)
  IN Corrected(command, t, s, t_search(w, command, AskedFor(s), silent, choice),
               spell_me(SubSeq(w, 1, slshp - 1), AskedFor(s)))
recognizeWord(command, t, choice) ==
  LET s == Read(t) IN RecognizeIn(command, t, choice, s, WordOf(s), Strrchr(WordOf(s), "/"))
SpellIn(t, s, w, sp) ==
  IF \/ \E i \in s.ws + 1 .. Len(t) : isglob(t[i])
     \/ AskedFor(s) = "command" /\ Strrchr(w, "/") > 0 /\ strip(w) \in Executables
  THEN [line |-> t, ret |-> 0]
  ELSE [line |-> IF sp.ret = 1 THEN Written(t, s, sp.word) ELSE t, ret |-> sp.ret]
spellWord(t) == LET s == Read(t) IN SpellIn(t, s, WordOf(s), spell_me(WordOf(s), AskedFor(s)))
expandWord(t) ==
  LET s == Read(t)
      w == From(s.q, s.word + 1)
  IN IF Unset(w) THEN [line |-> t, ret |-> 0] ELSE [line |-> SubSeq(t, 1, s.ws) \o insert_meta(From(t, s.ws + 1), dollar(w)).text, ret |-> 1]

Init ==
  /\ \E x \in Starts : line = x.line /\ world = x.world /\ opt = x.opt /\ rule = x.rule
  /\ base = line /\ curchoice = -1 /\ turns = 0 /\ did = "typed" /\ ret = 0
Does(name, r) == did' = name /\ line' = r.line /\ ret' = r.ret /\ UNCHANGED <<world, opt, rule>>
Once == did = "typed" /\ curchoice' = -1 /\ UNCHANGED <<base, turns>>
Complete == Once /\ Does("complete", recognizeWord("recognize", line, -1))
Spell == Once /\ Does("spell", spellWord(line))
ExpandVariables == Once /\ Does("expand", expandWord(line))
Scroll(by) ==
  /\ did \in {"typed", "scroll"} /\ turns + by \in -MaxTurns .. MaxTurns
  /\ \E r \in {recognizeWord("scroll", SubSeq(line, 1, Len(base)), curchoice + by)} :
       curchoice' = r.choice /\ Does("scroll", r)
  /\ turns' = turns + by /\ UNCHANGED base
Next == Complete \/ Spell \/ ExpandVariables \/ Scroll(1) \/ Scroll(-1)
Spec == Init /\ [][Next]_completeVars

(* How the shell reads a word: each character and whether it has its meaning. *)
RECURSIVE Means(_, _, _)
Means(t, i, q) ==
  LET c == t[i]
      Is(ch, l, k, q2) == <<[c |-> ch, live |-> l]>> \o Means(t, k, q2)
      hist == i < Len(t) /\ c = Esc /\ t[i + 1] = HIST
  IN IF i > Len(t) THEN <<>>
     ELSE IF c \in QF /\ q \in {"", c} THEN Means(t, i + 1, IF q = "" THEN c ELSE "")
     ELSE IF hist THEN Is(HIST, FALSE, i + 2, q)
     ELSE IF q = "" /\ c = Esc THEN IF i = Len(t) THEN <<>> ELSE Is(t[i + 1], FALSE, i + 2, q)
     ELSE Is(c, c = HIST \/ CASE q = "" -> tricky(c) [] q = "\"" -> tricky_dq(c) [] OTHER -> FALSE, i + 1, q)
Meaning(w) == [i \in DOMAIN w |-> [c |-> w[i].c, live |-> ~w[i].q /\ (tricky(w[i].c) \/ w[i].c = HIST)]]
Typed == Read(base)
TypedWord == WordOf(Typed)
(* The word that completion and variable expansion write into the line within the
   quotes typed so far is read by the shell as the name that was meant: what the
   user left unquoted keeps its meaning, the name has none (tw.parse.c:577). *)
WrittenAsMeant ==
  /\ did = "typed" => Means(From(line, Typed.ws + 1), 1, "") = Meaning(From(Typed.q, Typed.word + 1))
  /\ line # base /\ did = "complete" /\ ~opt.autocorrect =>
       Means(From(line, Typed.ws + 1), 1, "") = Meaning(SubSeq(Typed.q, Typed.word + 1, Typed.word + rule.skip) \o t_search(TypedWord, "recognize", AskedFor(Typed), FALSE, -1).word)
  /\ did = "expand" /\ ret = 1 => Means(From(line, Typed.ws + 1), 1, "") = Meaning(dollar(From(Typed.q, Typed.word + 1)))
(* What was found for the word, and what the line says in its place. *)
Sought == Search(TypedWord, AskedFor(Typed))
Found(s) == {n \in {s.order[i] : i \in DOMAIN s.order} : Hits(s.exp_dir, s.looking, s.target, s.flags, n)}
Unignored(names) == IF \A n \in names : ignored(n) THEN names ELSE {n \in names : ~ignored(n)}
Text(m) == [i \in DOMAIN m |-> m[i].c]
NewName(t, s) == From(Text(Means(From(line, t.ws + 1), 1, "")), rule.skip + Len(WordOf(t)) - Len(s.target) + 1)
Plain(t, s) == AskedFor(t) # "none" /\ s.exp_dir # <<"none">> /\ ~opt.autocorrect
LongestOf(S) == CHOOSE p \in S : \A r \in S : Len(r) <= Len(p)
(* In whatever order the items are found, a word is completed to what all those it
   may stand for have in common, and no further; with complete=enhance
   to something that may still stand for each of them.  An exact name is enough
   with recexact; names with the endings of fignore count where there are no
   others (tw.parse.c:860, 915). *)
InCommon(offered, new, target) ==
  LET loose == opt.enhance > 0 \/ opt.igncase
      exact == opt.recexact /\ target \in offered
      common == LongestOf({p \in UNION {{SubSeq(n, 1, k) : k \in 0 .. Len(n)} : n \in offered} : \A n \in offered : IsPrefix(p, n)})
  IN /\ ret = 0 <=> offered = {}
     /\ ret = 1 <=> exact \/ Cardinality(offered) = 1
     /\ ret = 1 /\ line # base => \E n \in offered : IsPrefix(n, new) /\ Len(new) <= Len(n) + 1 /\ (exact => n = target)
     /\ ret > 1 /\ ~loose => new = common
     /\ ret > 1 /\ opt.enhance > 0 => \A n \in offered : is_prefixmatch(new, n, opt.enhance)
ToCommon(t, s) == Plain(t, s) => InCommon(Unignored(Found(s)), NewName(t, s), s.target)
CompletesToCommon == did = "complete" => ToCommon(Typed, Sought)
Without(s, i) == SubSeq(s, 1, i - 1) \o From(s, i + 1)
Swapped(s, i) == SubSeq(s, 1, i - 1) \o <<s[i + 1], s[i]>> \o From(s, i + 2)
Distance(s, t) ==
  CASE s = t -> 0
    [] (\E i \in 1 .. Len(s) - 1 : Swapped(s, i) = t) \/ (\E i \in DOMAIN t : Without(t, i) = s) -> 1
    [] \E i \in DOMAIN s : Without(s, i) = t -> 2
    [] Len(s) = Len(t) /\ \E i \in DOMAIN s : Without(s, i) = Without(t, i) -> 3
    [] OTHER -> 4
(* A word is corrected to a name at the least distance there is, of one letter
   swapped, missing, too many or wrong, in whatever order the names are found
   (tw.spell.c:92); where a / may be meant in place of a letter, that counts as
   a wrong one. *)
Closest(names, near, slash, new) ==
  /\ ret = 1 /\ slash = {} => new \in names /\ \A n \in names : near[new] <= near[n]
  /\ ret = -1 => \A n \in names : near[n] = 4
Near(names, s, new) == Closest(names, [n \in names |-> Distance(s.target, n)], {n \in names : spdir(s.exp_dir, n, s.target) # <<>>}, new)
ToClosest(t, s) ==
  Plain(t, s) /\ Strrchr(TypedWord, "/") = 0 /\ Len(TypedWord) > 1 /\ s.looking \in {"file", "command"} =>
    Near({n \in {s.order[i] : i \in DOMAIN s.order} : "pat" \in s.flags => n \in rule.pat}, s, NewName(t, s))
SpellsClosest == did = "spell" => ToClosest(Typed, Sought)
(* complete-word-fwd and -back go round the names in their order and past both
   ends back to what was typed. *)
Round(sorted, new) ==
  LET at == turns % (Len(sorted) + 1)
  IN IF at = 0 THEN line = base ELSE \E t \in {<<>>} \cup {<<c>> : c \in {" ", "/", "}", rule.suf}} : new = sorted[at] \o t
RoundNames(found, new) ==
  LET offered == Unignored(found)
  IN Cardinality(offered) > 1 /\ (\E n \in found : ~ignored(n)) =>
       Round(SelectSeq(Collated, LAMBDA n : n \in offered), new)
ToNext(t, s) == Plain(t, s) => RoundNames(Found(s), NewName(t, s))
ScrollsRound == did = "scroll" /\ ~opt.recexact /\ opt.enhance = 0 /\ ~opt.igncase => ToNext(Typed, Sought)
=============================================================================
