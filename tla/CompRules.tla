--------------------------------- MODULE CompRules ---------------------------------
(* Programmed completion (tw.comp.c): the table of completions that complete and
   uncomplete keep, and what tw_complete() reads from it for the word before the
   cursor.  A character of a line has the mark QUOTE or not; the text of a rule
   is a sequence of characters. *)
EXTENDS Integers, Sequences, SequencesExt, FiniteSets, FiniteSetsExt, Functions, TLC

CONSTANTS
  Alphabet,   \* the characters in their order
  Defined,    \* what complete is called with: <<name, rules>>
  Removed,    \* what uncomplete is called with
  Typed,      \* the commands up to the cursor: the line, the word, whether it is a command
  Output      \* external: what globone() makes of a command, <<>> for nothing
VARIABLES
  completions, \* name -> rules, walked in the order of the names
  asked,       \* the last of Typed, <<>> for none yet
  answer       \* what tw_complete() made of it
compVars == <<completions, asked, answer>>
\* Of Glob the operators on patterns alone.
G == INSTANCE Glob WITH GLOBSPACE <- 100, Tree <- {}, Links <- <<>>, Homes <- <<>>, Stacks <- {}, cwds <- <<>>, in <- asked
From(s, i) == SubSeq(s, i, Len(s))
Ord(c) == CHOOSE k \in 1 .. Len(Alphabet) : Alphabet[k] = c
StrCmp(a, b) ==
  \/ IsStrictPrefix(a, b)
  \/ \E k \in 1 .. Len(a) : k <= Len(b) /\ SubSeq(a, 1, k - 1) = SubSeq(b, 1, k - 1) /\ Ord(a[k]) < Ord(b[k])
Metas == {" ", ";", "&", "|", "(", ")", "<", ">", "bq"}
Digits == {"0", "1", "2", "3", "4", "5", "6", "7", "8", "9"}
Digit(c) == (CHOOSE n \in 1 .. 10 : <<"0", "1", "2", "3", "4", "5", "6", "7", "8", "9">>[n] = c) - 1
Letters == Digits \cup {"a", "b", "x", "N", "n", "c", "C", "p"}
Ispunct(c) == c \notin Letters \cup {" "}

(* complete and uncomplete. *)
docomplete(name, rules) == completions' = [n \in DOMAIN completions \cup {name} |-> IF n = name THEN rules ELSE completions[n]]
douncomplete(pattern) == completions' = Restrict(completions, {n \in DOMAIN completions : ~G!Gmatch(n, pattern)})
Least(fits) == IF fits = {} THEN <<>> ELSE completions[CHOOSE n \in fits : \A k \in fits \ {n} : StrCmp(n, k)]
tw_find(nam, cmd) == Least({n \in DOMAIN completions : (cmd => n[1] = "-") /\ G!Gmatch(nam, IF cmd THEN Tail(n) ELSE n)})

(* The words of the command. *)
RECURSIVE tw_toks(_)
\* The words tw_tok() gives one after the other, up to one with a character that has its meaning.
INVPTR == <<"INVPTR">>
tw_toks(line) ==
  LET space(k) == line[k] = [c |-> " ", q |-> FALSE]
      starts == {k \in DOMAIN line : ~space(k)}
      a == Min(starts)
      e == Min({k \in a .. Len(line) + 1 : k > Len(line) \/ space(k)}) - 1
  IN IF starts = {} THEN <<>>
     ELSE IF \E k \in a .. e : ~line[k].q /\ line[k].c \in Metas THEN <<INVPTR>>
     ELSE << [k \in 1 .. e - a + 1 |-> line[a + k - 1].c] >> \o tw_toks(From(line, e + 1))

(* The parts of a rule. *)
Sep == "/"
\* A rule as it is written; its last part may be left out.
Text(r) == <<r.word, Sep>> \o r.pat \o <<Sep>> \o r.sel \o (CASE r.suf = "" -> <<Sep>> [] r.suf = "none" -> <<Sep, Sep>> [] OTHER -> <<Sep, r.suf, Sep>>)
RECURSIVE number(_, _)
\* As the code adds up the digits: 11 times what there was.
number(s, num) == IF s = <<>> \/ s[1] \notin Digits THEN [num |-> num, rest |-> s] ELSE number(Tail(s), num + 10 * num + Digit(s[1]))
RECURSIVE tw_dollar(_, _, _, _)
(* tw_dollar(): the text up to the separator with $:n for the words of the line;
   rest is what follows, ERR where there is no separator. *)
ERR == <<"ERR">>
tw_dollar(sp, wl, sep, buf) ==
  LET neg == Len(sp) > 2 /\ sp[3] = "-"
      at == IF neg THEN 4 ELSE 3
      arg == sp # <<>> /\ sp[1] = "$" /\ Len(sp) >= at /\ sp[2] = ":" /\ sp[at] \in Digits
      n == number(From(sp, at + 1), Digit(sp[at]))
      num == IF neg THEN Len(wl) - n.num - 1 ELSE n.num
  IN IF sp = <<>> THEN [text |-> buf, rest |-> ERR]
     ELSE IF sp[1] = sep THEN [text |-> buf, rest |-> Tail(sp)]
     ELSE IF arg THEN tw_dollar(n.rest, wl, sep, buf \o (IF num \in 0 .. Len(wl) - 1 THEN wl[num + 1] ELSE <<>>))
     ELSE tw_dollar(Tail(sp), wl, sep, Append(buf, sp[1]))
getn(s) == IF s # <<>> /\ \A k \in DOMAIN s : s[k] \in Digits THEN FoldLeft(LAMBDA n, c : 10 * n + Digit(c), 0, s) ELSE -1
Badn(s) == s # <<>> /\ getn(s) = -1
Num(s) == IF s = <<>> THEN 0 ELSE getn(s)
Dash(ran) == Min({k \in 1 .. Len(ran) + 1 : k > Len(ran) \/ ran[k] = "-"})
tw_pos(ran, wno) ==
  LET d == Dash(ran)
      lo == SubSeq(ran, 1, d - 1)
      hi == From(ran, d + 1)
  IN IF ran = <<"*">> THEN TRUE
     ELSE IF d > Len(ran) THEN wno = Num(ran)
     ELSE IF d = 1 THEN wno <= Num(hi)
     ELSE Num(lo) <= wno /\ (hi = <<>> \/ wno <= Num(hi))
BadRange(ran, wno) ==
  LET d == Dash(ran) IN ran # <<"*">> /\ (Badn(SubSeq(ran, 1, d - 1)) \/ (Badn(From(ran, d + 1)) /\ (d = 1 \/ Num(SubSeq(ran, 1, d - 1)) <= wno)))
(* tw_match(): how much of the word the pattern fits, -1 for none. *)
Nearest(ends, neg, len) == IF (ends # {}) # neg THEN Min(ends \cup {len}) ELSE -1
Ends(str, pats) == {x.end - 1 : x \in {y \in {G!t_pmatch(str, G!compile(pats[k], 1, "pm", <<>>), 1, 1) : k \in DOMAIN pats} : y.r > 0}}
Gnmatch(str, pat) ==
  LET neg == pat # <<>> /\ pat[1] = "^"
  IN Nearest(Ends(str, G!expbrace(<<IF neg THEN Tail(pat) ELSE pat>>, 1, 100, TRUE).words), neg, Len(str))
tw_match(str, pat, exact) == IF exact THEN IF G!Gmatch(str, pat) THEN 0 ELSE -1 ELSE Gnmatch(str, pat)

(* tw_result(): what the completion asks for. *)
Kinds == [X |-> "completion", S |-> "signal", a |-> "alias", b |-> "binding", c |-> "command", C |-> "path command", d |-> "directory", D |-> "path directory",
          e |-> "envvar", f |-> "file", p |-> "path file", F |-> "path file", g |-> "group", j |-> "job", l |-> "limit", n |-> "none", s |-> "shellvar",
          t |-> "text", T |-> "path text", v |-> "variable", u |-> "user", x |-> "explain"]
Up(s, c) == LET k == SelectInSeq(s, LAMBDA x : x = c) IN IF k = 0 THEN s ELSE SubSeq(s, 1, k - 1)
tw_result(act) ==
  LET Is(k, p) == [looking |-> k, pat |-> p]
      out == Up(Tail(act), "bq")
      words == IF out \in DOMAIN Output THEN Output[out] ELSE <<>>
  IN IF act = <<>> THEN Is("error", <<>>)
     ELSE CASE act[1] = "$" -> Is("varlist", Tail(act))
            [] act[1] = "(" -> Is("wordlist", Up(Tail(act), ")"))
            [] act[1] = "bq" -> IF words = <<>> THEN Is("zero", <<>>) ELSE Is("wordlist", words)
            [] act[1] \in DOMAIN Kinds /\ Len(act) = 1 -> Is(Kinds[act[1]], <<>>)
            [] act[1] \in DOMAIN Kinds /\ Len(act) > 1 /\ act[2] = ":" -> Is(Kinds[act[1]], From(act, 3))
            [] OTHER -> Is("error", <<>>)

Says(looking, pat, suf, skip) == [looking |-> looking, pat |-> pat, suf |-> suf, skip |-> skip]
Error == Says("error", <<>>, "", 0)
nomatch == <<"~0">>
\* The word a rule looks at.
Pos(cmd, wl) ==
  LET k == Len(wl) - (CASE cmd = "N" -> 2 [] cmd = "n" -> 1 [] OTHER -> 0) IN IF k < 1 THEN nomatch ELSE wl[k]
Suffix(rest, sep) == IF rest = <<>> THEN "" ELSE IF rest[1] = sep THEN "none" ELSE rest[1]
Answer(r, suf, n) == IF r.looking = "error" THEN Error ELSE Says(r.looking, r.pat, suf, n)
RECURSIVE First(_, _)
\* The first rule applies when n, how much of the word its pattern fits, says so.
Fits(vec, wl, com, n) ==
  IF n < 0 THEN First(Tail(vec), wl)
  ELSE Answer(tw_result(com.text), Suffix(com.rest, vec[1][2]), IF vec[1][1] = "c" THEN n ELSE 0)
(* The rules in their order until one applies. *)
First(vec, wl) ==
  LET ptr == vec[1]
      cmd == ptr[1]
      sep == ptr[2]
      ran == tw_dollar(From(ptr, 3), wl, sep, <<>>)
      com == tw_dollar(ran.rest, wl, sep, <<>>)
  IN IF vec = <<>> THEN Says("zero", <<>>, "", 0)
     ELSE IF ptr = <<>> THEN First(Tail(vec), wl)
     ELSE IF cmd \notin {"N", "n", "c", "C", "p"} \/ Len(ptr) = 1 \/ ~Ispunct(sep) \/ ran.rest = ERR \/ ran.text = <<>> \/ com.rest = ERR THEN Error
     ELSE IF cmd = "p" /\ BadRange(ran.text, Len(wl) - 1) THEN Error
     ELSE Fits(vec, wl, com, IF cmd = "p" THEN IF tw_pos(ran.text, Len(wl) - 1) THEN 0 ELSE -1
                             ELSE tw_match(Pos(cmd, wl), ran.text, cmd \in {"n", "N"}))
\* Mutant: an empty word before the cursor is not counted.
countedPlain(wl, word) == wl
counted(wl, word) == IF word = <<>> THEN Append(wl, <<>>) ELSE wl
Tried(vec, wl, word, looking) ==
  IF vec = <<>> THEN Says(looking, <<>>, "", 0)
  ELSE IF Last(wl) = INVPTR THEN Says("zero", <<>>, "", 0) ELSE First(vec, counted(wl, word))
tw_complete(line, word, looking) ==
  LET wl == tw_toks(line)
      zero == Says("zero", <<>>, "", 0)
  IN IF wl = <<>> \/ wl = <<INVPTR>> THEN zero
     ELSE Tried(tw_find(wl[1], looking = "command"), wl, word, looking)

Init == completions = <<>> /\ asked = {} /\ answer = Error
\* Bound: one question is asked of each table.
Unasked == asked = {} /\ UNCHANGED <<asked, answer>>
Define == Unasked /\ \E d \in Defined : docomplete(d.name, [k \in DOMAIN d.rules |-> Text(d.rules[k])])
Undefine == Unasked /\ \E p \in Removed : douncomplete(p)
Ask == asked = {} /\ \E t \in Typed : asked' = {t} /\ answer' = tw_complete(t.line, Last(t.words), t.looking) /\ UNCHANGED completions
Next == Define \/ Undefine \/ Ask
Spec == Init /\ [][Next]_compVars

(* What a rule says, apart from how it is written.  The pattern of c or C matches
   the beginning of the word; that of n or N must match the whole of the earlier
   word, although tcsh.man.in:4838-4847 says its beginning: with n/ab/f/ the word
   after abc is not completed by the rule. *)
Applies(r, ws) ==
  LET back == CASE r.word = "N" -> 2 [] r.word = "n" -> 1 [] OTHER -> 0
      word == IF back < Len(ws) THEN ws[Len(ws) - back] ELSE nomatch
  IN CASE r.word = "p" -> Len(ws) - 1 \in r.range
       [] r.word \in {"n", "N"} -> G!Gmatch(word, r.pat)
       [] OTHER -> \E k \in 0 .. Len(word) : G!Gmatch(SubSeq(word, 1, k), r.pat)
Means(r, ws) ==
  LET word == Last(ws)
      arg == IF r.arg = {} THEN <<>> ELSE LET n == CHOOSE x \in r.arg : TRUE IN IF n < 0 THEN ws[Len(ws) + n] ELSE IF n < Len(ws) THEN ws[n + 1] ELSE <<>>
  IN Says(r.looking, r.pattern \o arg, r.suf, IF r.word = "c" THEN Max({k \in 0 .. Len(word) : G!Gmatch(SubSeq(word, 1, k), r.pat)}) ELSE 0)
(* The word before the cursor is completed by the first rule that applies to it, to
   the words before it or to its place, an empty word counted, with the suffix of
   that rule and of no other (tw.comp.c:514), Applies being the code's meaning of n
   and N and not the manual's.  The first word of a command has only
   the rules of names that begin with -; a word that is not there fits what any
   word fits. *)
FirstRule ==
  \A t \in asked : \A d \in Defined :
    completions = d.name :> [k \in DOMAIN d.rules |-> Text(d.rules[k])] /\ t.clean =>
      LET hits == {k \in DOMAIN d.rules : Applies(d.rules[k], t.words)}
          known == IF t.looking = "command" THEN d.name[1] = "-" /\ G!Gmatch(t.words[1], Tail(d.name)) ELSE G!Gmatch(t.words[1], d.name)
      IN answer = IF ~known THEN Says(t.looking, <<>>, "", 0)
                  ELSE IF hits = {} THEN Says("zero", <<>>, "", 0) ELSE Means(d.rules[Min(hits)], t.words)
=============================================================================
