---------------------------------- MODULE Glob -----------------------------------
(* Filename substitution (sh.glob.c, glob.c): braces, home directories, patterns
   against a tree of files, and what the output of a command becomes.  A name is a
   sequence of characters, a path a sequence of names, a pattern a sequence of
   names in which *, ? and [ have their meaning. *)
EXTENDS Integers, Sequences, SequencesExt, FiniteSets, TLC

CONSTANTS GLOBSPACE,   \* by how much a vector grows
          Alphabet,    \* the characters in their order
          Tree, Links, \* the paths there are; where the symbolic ones lead
          Homes,       \* user -> home
          Stacks,      \* directory stacks, as words, each with $owd (<<>> for none)
          Output       \* external: command -> what it writes

VARIABLE cwds  \* the directory stack and $owd, which DirStack changes
Stack == cwds.stack

SEP == "/"
Ord(c) == CHOOSE k \in 1 .. Len(Alphabet) : Alphabet[k] = c
globcharcoll(a, b) == Ord(a) - Ord(b)
Strchr(s, i, c) == {j \in i .. Len(s) : s[j] = c}
MinOf(S) == CHOOSE j \in S : \A k \in S : j <= k

(* Braces. *)
RECURSIVE closing(_, _, _)
\* The } for the { before place j, i of them open; 0 where none is.
closing(s, j, i) ==
  LET rbrk == Strchr(s, j + 1, "]")
  IN IF j > Len(s) THEN 0
     ELSE CASE s[j] = "[" -> IF rbrk = {} THEN 0 ELSE closing(s, MinOf(rbrk) + 1, i)
            [] s[j] = "{" -> closing(s, j + 1, i + 1)
            [] s[j] = "}" -> IF i = 0 THEN j ELSE closing(s, j + 1, i - 1)
            [] OTHER -> closing(s, j + 1, i)
RECURSIVE alternatives(_, _, _, _, _)
alternatives(s, pl, pm, pe, i) ==
  CASE pm > pe -> <<>>
    [] s[pm] = "[" -> alternatives(s, pl, MinOf(Strchr(s, pm + 1, "]")) + 1, pe, i)
    [] s[pm] = "{" -> alternatives(s, pl, pm + 1, pe, i + 1)
    [] s[pm] = "}" /\ i > 0 -> alternatives(s, pl, pm + 1, pe, i - 1)
    [] s[pm] \in {"}", ","} /\ i = 0 -> <<SubSeq(s, pl, pm - 1)>> \o alternatives(s, pm + 1, pm + 1, pe, i)
    [] OTHER -> alternatives(s, pl, pm + 1, pe, i)
\* globbrace(): the words the first brace of s stands for.
globbrace(s) ==
  LET p == MinOf(Strchr(s, 1, "{")) + 1
      pe == closing(s, p, 0)
  IN IF pe = 0 THEN <<>>
     ELSE LET alts == alternatives(s, p, p, pe, 0)
          IN [k \in 1 .. Len(alts) |-> SubSeq(s, 1, p - 2) \o alts[k] \o SubSeq(s, pe + 1, Len(s))]
Undisturbed(s) == s \in {<<"{">>, <<"{", "}">>}

\* Mutant: the vector always grows by the same amount.
growStep(size, el, len) == IF el + len >= size THEN size + GLOBSPACE ELSE size
grow(size, el, len) ==
  LET l == el + len - size IN IF l >= 0 THEN size + (IF GLOBSPACE > l THEN GLOBSPACE ELSE l) ELSE size
RECURSIVE expbrace(_, _, _, _)
Expanded(ws, size, room, e) == [words |-> ws, size |-> size, room |-> room, err |-> e]
resize(ws, vl, size, room) == expbrace(ws, vl, size, room /\ Len(ws) <= size)
\* The alternatives bl take the place of the word vl.
splice(ws, vl, size, room, bl) ==
  IF bl = <<>> THEN Expanded(ws, size, room, "MISSING")
  ELSE IF Len(bl) = 1 THEN expbrace([ws EXCEPT ![vl] = bl[1]], vl, size, room)
  ELSE resize(SubSeq(ws, 1, vl - 1) \o bl \o SubSeq(ws, vl + 1, Len(ws)), vl, grow(size, Len(ws), Len(bl)), room)
(* expbrace(): every word from the vl-th on with its braces expanded, in a vector
   of the given size; room: nothing was written behind its end. *)
expbrace(ws, vl, size, room) ==
  IF vl > Len(ws) THEN Expanded(ws, size, room, "")
  ELSE IF Undisturbed(ws[vl]) \/ Strchr(ws[vl], 1, "{") = {} THEN expbrace(ws, vl + 1, size, room)
  ELSE splice(ws, vl, size, room, globbrace(ws[vl]))

(* Patterns.  An item of a compiled name: a character, *, ?, or a set of ranges. *)
Char(c) == <<"c", c>>
ALL == <<"*">>
ONE == <<"?">>
SET(neg, rs) == <<"[", neg, rs>>
BAD == <<"bad">>
RECURSIVE ranges(_, _, _, _)
\* The ranges of a set to its ]; in t_pmatch() the first end of a range alone is not in it.
ranges(s, i, rs, pm) ==
  LET range == i + 2 <= Len(s) /\ s[i + 1] = "-" /\ s[i + 2] # "]"
      j == IF range THEN i + 3 ELSE i + 1
      r == rs \cup (IF range THEN {<<s[i], s[i + 2]>>} ELSE {}) \cup (IF range /\ pm THEN {} ELSE {<<s[i], s[i]>>})
  IN IF s[j] = "]" THEN [to |-> j + 1, rs |-> r] ELSE ranges(s, j, r, pm)
RECURSIVE compile(_, _, _, _)
(* The items of a name: the loop of glob(), stars next to each other made one
   (three in the mode "star"), or what t_pmatch() reads ("pm"), where the first
   ] ends a set and one that does not end is wrong. *)
compile(s, i, mode, out) ==
  LET n == Len(out)
      pm == mode = "pm"
      neg == i < Len(s) /\ s[i + 1] = "^"
      at == IF neg THEN i + 2 ELSE i + 1
      open == Strchr(s, IF pm THEN at ELSE at + 1, "]") = {}
      set == IF s[at] = "]" /\ pm THEN [to |-> at + 1, rs |-> {}] ELSE ranges(s, at, {}, pm)
      more == pm \/ n = 0 \/ out[n] # ALL \/ (mode = "star" /\ (n < 3 \/ out[n - 1] # ALL \/ out[n - 2] # ALL))
  IN IF i > Len(s) THEN out
     ELSE CASE s[i] = "[" -> IF open THEN compile(s, i + 1, mode, Append(out, IF pm THEN BAD ELSE Char("[")))
                             ELSE compile(s, set.to, mode, Append(out, SET(neg, set.rs)))
            [] s[i] = "?" -> compile(s, i + 1, mode, Append(out, ONE))
            [] s[i] = "*" -> compile(s, i + 1, mode, IF more THEN Append(out, ALL) ELSE out)
            [] OTHER -> compile(s, i + 1, mode, Append(out, Char(s[i])))
InSet(c, item) == (\E r \in item[3] : globcharcoll(r[1], c) <= 0 /\ globcharcoll(c, r[2]) <= 0) # item[2]
One(c, item) == CASE item[1] = "c" -> c = item[2]
                  [] item[1] = "?" -> TRUE
                  [] item[1] = "[" -> InSet(c, item)
                  [] OTHER -> FALSE
ismeta(item) == item[1] # "c"

RECURSIVE match(_, _, _, _, _, _)
(* match(): name from place n, pattern from p; nn and pn: where to go on when
   what follows the last star does not fit. *)
match(name, pat, n, p, nn, pn) ==
  IF p > Len(pat) /\ n > Len(name) THEN TRUE
  ELSE IF p <= Len(pat) /\ pat[p] = ALL THEN match(name, pat, n, p + 1, n + 1, p)
  ELSE IF p <= Len(pat) /\ n <= Len(name) /\ One(name[n], pat[p]) THEN match(name, pat, n + 1, p + 1, nn, pn)
  ELSE IF nn > 1 /\ nn <= Len(name) + 1 THEN match(name, pat, nn, pn, nn, pn)
  ELSE FALSE

No == [r |-> 0, end |-> 0]
RECURSIVE t_pmatch(_, _, _, _)
(* t_pmatch(): 2 where the pattern from p on fits all of the string from n on, 1
   where it fits the part before end. *)
t_pmatch(string, pat, n, p) ==
  LET tries == [k \in n .. Len(string) + 1 |-> t_pmatch(string, pat, k, p + 1)]
      exact == {k \in DOMAIN tries : tries[k].r = 2}
      part == {tries[k].end : k \in {j \in DOMAIN tries : tries[j].r = 1}}
  IN IF p <= Len(pat) /\ pat[p] = BAD THEN [r |-> -1, end |-> 0]
     ELSE IF p > Len(pat) THEN [r |-> IF n > Len(string) THEN 2 ELSE 1, end |-> n]
     ELSE IF pat[p] = ALL THEN
       IF \E k \in DOMAIN tries : tries[k].r = -1 THEN [r |-> -1, end |-> 0]
       ELSE IF p = Len(pat) THEN [r |-> 2, end |-> Len(string) + 1]
       ELSE IF exact # {} THEN tries[MinOf(exact)]
       ELSE IF part # {} THEN [r |-> 1, end |-> CHOOSE e \in part : \A f \in part : f <= e] ELSE No
     ELSE IF n <= Len(string) /\ One(string[n], pat[p]) THEN t_pmatch(string, pat, n + 1, p + 1) ELSE No
AnyFits(string, pats) == \E k \in 1 .. Len(pats) : t_pmatch(string, compile(pats[k], 1, "pm", <<>>), 1, 1).r = 2
\* Gmatch(): a pattern, negated by a leading ^, its braces tried one after the other.
Gmatch(string, pattern) ==
  LET neg == pattern # <<>> /\ pattern[1] = "^"
  IN AnyFits(string, expbrace(<<IF neg THEN Tail(pattern) ELSE pattern>>, 1, GLOBSPACE, TRUE).words) # neg

(* Files.  A path that leads through a symbolic link is where the link leads. *)
DOT == "."
Dots == {<<DOT>>, <<DOT, DOT>>}
RECURSIVE real(_)
real(path) == IF path = <<>> THEN path
              ELSE LET q == Append(real(Front(path)), Last(path)) IN IF q \in DOMAIN Links THEN Links[q] ELSE q
Isdir(path) == path = <<>> \/ \E q \in Tree : q # <<>> /\ Front(q) = real(path)
Lstat(path) == path = <<>> \/ (Last(path) = <<>> /\ Isdir(Front(path))) \/ Append(real(Front(path)), Last(path)) \in Tree \/ (Last(path) \in Dots)
Islink(path) == path # <<>> /\ Append(real(Front(path)), Last(path)) \in DOMAIN Links
Entries(path) == {q \in Tree : q # <<>> /\ Front(q) = real(path)}
\* Opendir() and readdir(): the names in a directory.
readdir(path) == SetToSeq({Last(q) : q \in Entries(path)} \cup Dots)
\* compare(): paths in the order of their characters.
Digits == [d \in {"0", "1", "2"} |-> IF d = "0" THEN 0 ELSE IF d = "1" THEN 1 ELSE 2]
RECURSIVE before(_, _)
before(a, b) == IF b = <<>> THEN FALSE ELSE IF a = <<>> THEN TRUE
                ELSE IF a[1] = b[1] THEN before(Tail(a), Tail(b)) ELSE Ord(a[1]) < Ord(b[1])
Text(path) == FlattenSeq([k \in 1 .. Len(path) |-> (IF k = 1 THEN <<>> ELSE <<SEP>>) \o path[k]])

\* The first ** of a name from place k on; how many stars it has.
stars(pat, k) == {j \in k .. Len(pat) - 1 : pat[j] = ALL /\ pat[j + 1] = ALL}
RECURSIVE glob2(_, _, _), glob3(_, _, _, _)
\* glob2(): the files that the names of pats, from the directory path on, stand for.
glob2(path, pats, fl) ==
  IF pats = <<>> THEN IF Lstat(path) THEN <<path>> ELSE <<>>
  ELSE IF \A k \in 1 .. Len(pats[1]) : ~ismeta(pats[1][k])
    THEN glob2(Append(path, [k \in 1 .. Len(pats[1]) |-> pats[1][k][2]]), Tail(pats), fl)
  ELSE glob3(path, pats, 1, fl)
(* glob3(): the entries of the directory that match the first name, or, where it
   has a ** from place k on, those of the directories below as well. *)
glob3(path, pats, k, fl) ==
  LET pat == pats[1]
      st == stars(pat, k)
      globstar == st # {}
      at == MinOf(st)
      chase == globstar /\ at + 2 <= Len(pat) /\ pat[at + 2] = ALL
      term == at + (IF chase THEN 3 ELSE 2)
      here == IF ~globstar THEN <<>>
              ELSE IF at > 1 \/ term <= Len(pat) THEN glob3(path, pats, term, fl)
              ELSE glob2(path, IF Len(pats) = 1 THEN << <<ALL>> >> ELSE Tail(pats), fl)
      hidden(d) == d[1] = DOT /\ pat[1] # Char(DOT) /\ (~fl.dot \/ d \in Dots)
      below(d) == Append(path, d)
      part == IF globstar THEN SubSeq(pat, 1, term - 1) ELSE pat
      found(d) == IF hidden(d) \/ (globstar /\ ~chase /\ (~Lstat(below(d)) \/ Islink(below(d)))) THEN <<>>
                  ELSE IF match(d, part, 1, 1, 1, 1) = fl.no_match THEN <<>>
                  ELSE IF globstar THEN IF Isdir(below(d)) THEN glob2(below(d), <<SubSeq(pat, at, Len(pat))>> \o Tail(pats), fl) ELSE <<>>
                  ELSE glob2(below(d), Tail(pats), fl)
      names == readdir(path)
  IN here \o IF ~Isdir(path) THEN <<>> ELSE FlattenSeq([i \in 1 .. Len(names) |-> found(names[i])])
(* glob(): a pattern that begins with ^ is negated; without a match it is left
   as it is when nothing in it is magic, or nonomatch is set. *)
glob(pattern, fl) ==
  LET no_match == pattern[1] # <<>> /\ pattern[1][1] = "^"
      bare == IF no_match THEN [pattern EXCEPT ![1] = Tail(@)] ELSE pattern
      pats == [k \in 1 .. Len(bare) |-> compile(bare[k], 1, IF fl.star THEN "star" ELSE "", <<>>)]
      magic == \E k \in 1 .. Len(pats) : \E j \in 1 .. Len(pats[k]) : ismeta(pats[k][j])
      found == glob2(<<>>, pats, [fl EXCEPT !.no_match = no_match])
  IN [magic |-> magic, match |-> found # <<>>,
      paths |-> IF found = <<>> /\ (fl.nonomatch \/ ~magic) THEN <<pattern>>
                ELSE SortSeq(found, LAMBDA a, b : before(Text(a), Text(b)))]
\* libglob(): an error only when there are patterns and none matches.
libglob(patterns, fl) ==
  LET gs == [k \in 1 .. Len(patterns) |-> glob(patterns[k], fl)]
      S == 1 .. Len(gs)
      paths == FlattenSeq([k \in S |-> gs[k].paths])
  IN [paths |-> paths,
      err |-> paths = <<>> \/ ((\E k \in S : gs[k].magic) /\ ~(\E k \in S : gs[k].magic /\ gs[k].match) /\ ~fl.nonomatch)]

(* The words of a command, from its text to files (globexpand(), globall()). *)
isglob(c) == c \in {"*", "?", "["}
\* tglob(): what the words need.
tglob(ws) ==
  LET scanned == {k \in 1 .. Len(ws) : ~Undisturbed(ws[k])}
      chars == UNION {ToSet(ws[k]) : k \in scanned}
  IN [csh |-> (\E k \in 1 .. Len(ws) : ws[k] # <<>> /\ ws[k][1] \in {"~", "="}) \/ {"bq", "{"} \cap chars # {},
      glob |-> \E c \in chars : isglob(c)]
\* globtilde(): ~user/...
globtilde(s) ==
  LET stop == {j \in 2 .. Len(s) : s[j] \in {SEP, ":"}}
      to == IF stop = {} THEN Len(s) + 1 ELSE MinOf(stop)
      name == SubSeq(s, 2, to - 1)
      rest == SubSeq(s, to, Len(s))
  IN IF Len(s) > 1 /\ s[2] = "~" THEN [w |-> s, err |-> ""]
     ELSE IF name \notin DOMAIN Homes THEN [w |-> s, err |-> IF name = <<>> THEN "NOHOME" ELSE "UNKUSER"]
     ELSE [w |-> IF Homes[name] = <<SEP>> /\ rest # <<>> /\ rest[1] = SEP THEN rest ELSE Homes[name] \o rest, err |-> ""]
(* globequal(): =n is the n-th directory of the stack, =- the last, or $owd where
   there is only one and $owd is set. *)
globequal(s) ==
  LET b == IF Len(s) > 1 /\ s[2] = "-" THEN 3 ELSE CHOOSE j \in 2 .. Len(s) + 1 : (j > Len(s) \/ s[j] \notin DOMAIN Digits) /\ \A k \in 2 .. j - 1 : s[k] \in DOMAIN Digits
      n == IF s[2] = "-" THEN Len(Stack) ELSE FoldLeft(LAMBDA v, c : 10 * v + Digits[c], 0, SubSeq(s, 2, b - 1)) + 1
  IN IF b = 2 \/ Len(s) < 2 \/ (b <= Len(s) /\ s[b] # SEP) THEN [w |-> s, err |-> ""]
     ELSE IF s[2] = "-" /\ Len(Stack) = 1 /\ cwds.owd # <<>> THEN [w |-> cwds.owd \o SubSeq(s, b, Len(s)), err |-> ""]
     ELSE IF n > Len(Stack) THEN [w |-> s, err |-> "DEEP"]
     ELSE [w |-> Stack[n] \o SubSeq(s, b, Len(s)), err |-> ""]

(* The output of a command becomes words (backeval()).  s: the words so far, the
   one being put together, its characters since the last break, a newline not
   yet acted upon. *)
pword(s) == [s EXCEPT !.words = Append(@, s.word), !.word = <<>>]
Break(s, literal) == [(IF s.cnt > 0 \/ literal THEN pword(s) ELSE s) EXCEPT !.cnt = 0, !.hadnl = FALSE]
take(s0, c, quoted, literal) ==
  LET s == IF s0.hadnl THEN Break(s0, literal) ELSE s0
  IN CASE s.nul -> s
       [] c = "NUL" -> [s EXCEPT !.nul = TRUE]
       [] c = "\n" -> [s EXCEPT !.hadnl = TRUE]
       [] c = " " /\ ~quoted -> Break(s, literal)
       [] OTHER -> [s EXCEPT !.word = Append(@, c), !.cnt = @ + 1]
backeval(s, out, quoted, literal) ==
  FoldLeft(LAMBDA x, c : take(x, c, quoted \/ literal, literal), [s EXCEPT !.cnt = 0, !.hadnl = FALSE, !.nul = FALSE], out)
RECURSIVE dobackp(_, _, _, _)
\* dobackp(): the commands between backquotes of a word give way to their output; quoted: the word was in "...".
dobackp(cp, quoted, literal, s) ==
  LET lp == Strchr(cp, 1, "bq")
      l == MinOf(lp)
      rp == {j \in Strchr(cp, l + 1, "bq") : cp[j - 1] # "\\"}
      r == MinOf(rp)
      at == [s EXCEPT !.word = @ \o SubSeq(cp, 1, l - 1)]
      all == [s EXCEPT !.word = @ \o cp]
  IN IF lp = {} THEN IF all.word # <<>> THEN pword(all) ELSE all
     ELSE IF rp = {} THEN [s EXCEPT !.err = "UNMATCHED"]
     ELSE dobackp(SubSeq(cp, r + 1, Len(cp)), quoted, literal, backeval(at, Output[SubSeq(cp, l + 1, r - 1)], quoted, literal))
NoWords == [words |-> <<>>, word |-> <<>>, cnt |-> 0, hadnl |-> FALSE, nul |-> FALSE, err |-> ""]
(* globexpand(): commands, then braces, then directories, each on what the
   one before made of the words. *)
globexpand(ws, noglob, nonomatch) ==
  LET outs == [k \in 1 .. Len(ws) |-> IF Strchr(ws[k], 1, "bq") = {} THEN [NoWords EXCEPT !.words = <<ws[k]>>] ELSE dobackp(ws[k], FALSE, FALSE, NoWords)]
      v == FlattenSeq([k \in 1 .. Len(outs) |-> outs[k].words])
      b == expbrace(v, 1, GLOBSPACE * (Len(v) \div GLOBSPACE + 1), TRUE)
      begins(w, c) == w # <<>> /\ w[1] = c
      homes == [k \in 1 .. Len(b.words) |-> LET w == b.words[k] IN IF begins(w, "~") THEN globtilde(w) ELSE IF begins(w, "=") THEN globequal(w) ELSE [w |-> w, err |-> ""]]
      wrong == {k \in 1 .. Len(homes) : homes[k].err # ""}
      Is(w, e) == [words |-> w, room |-> b.room, err |-> e]
  IN IF \E k \in 1 .. Len(outs) : outs[k].err # "" THEN Is(<<>>, "UNMATCHED")
     ELSE IF noglob THEN Is(v, "")
     ELSE IF b.err # "" THEN Is(<<>>, b.err)
     ELSE IF wrong # {} /\ ~nonomatch THEN Is(<<>>, homes[MinOf(wrong)].err)
     ELSE Is([k \in 1 .. Len(homes) |-> homes[k].w], "")
\* A word as a path of names; libglob() takes it apart at its slashes.
RECURSIVE Names(_)
Names(w) == LET c == Strchr(w, 1, SEP) IN IF c = {} THEN <<w>> ELSE <<SubSeq(w, 1, MinOf(c) - 1)>> \o Names(SubSeq(w, MinOf(c) + 1, Len(w)))
(* globall(): the words that a command is run with. *)
globall(ws, fl) ==
  LET need == tglob(ws)
      x == IF need.csh THEN globexpand(ws, fl.noglob, fl.nonomatch) ELSE [words |-> ws, room |-> TRUE, err |-> ""]
      g == libglob([k \in 1 .. Len(x.words) |-> Names(x.words[k])], fl)
  IN IF x.err # "" \/ fl.noglob \/ ~need.glob \/ x.words = <<>> THEN x
     ELSE [x EXCEPT !.words = [k \in 1 .. Len(g.paths) |-> Text(g.paths[k])], !.err = IF g.err THEN "NOMATCH" ELSE ""]

---------------------------------------------------------------------------------
(* Patterns against names, words with braces, words against a tree of files, and
   outputs of commands. *)
VARIABLE in  \* what is expanded
globVars == <<in, cwds>>

Seqs(A, n) == UNION {[1 .. k -> A] : k \in 0 .. n}
Letters == {"a", "b"}
a == <<"a">>
b == <<"b">>
ab == <<"a", "b">>
x == <<"x">>
dota == <<".", "a">>
Tokens == {<<"a">>, <<"*">>, <<"?">>, <<"[", "a", "b", "]">>, <<"[", "^", "a", "]">>, <<"[", "^", "a", "-", "b", "]">>}
Flags == [dot : BOOLEAN, star : BOOLEAN, nonomatch : {FALSE}, noglob : {FALSE}, no_match : {FALSE}]
Plain == [dot |-> FALSE, star |-> FALSE, nonomatch |-> FALSE, noglob |-> FALSE, no_match |-> FALSE]
Parts == {<<"*">>, a, <<"?", "b">>, <<".", "*">>, <<"*", "*">>, <<"*", "*", "*">>, <<"[", "a", "x", "]", "*">>}
Paths == {<<p>> : p \in Parts} \cup (Parts \X Parts) \cup {<<p, q, r>> : p \in {a, <<"*", "*">>}, q \in {<<"*">>, <<"*", "*", "*">>}, r \in {a, <<"?", "b">>}}
Words == {<<"*", "b">>, <<"^", "a", "*">>, <<"^", "?">>, <<"z", "*">>, <<"{", "z", ",", "a", "}", "*">>, <<"{", "}">>, <<"~", "/", "*">>, <<"~", "a", "/", "x">>, <<"~", "x">>,
          <<"=", "1", "/", "*">>, <<"=", "-">>, <<"=", "2">>, <<"{", "~", "a">>, <<"{", "~", ",", "x", "}", "/", "a">>, a}
Mark(o) == <<"bq">> \o o \o <<"bq">>
Tasks == [k : {"match"}, name : Seqs(Letters, 3) \cup {<<"a", "b", "a", "b">>, <<"b", "a", "a", "b">>}, toks : Seqs(Tokens, 2) \cup [1 .. 3 -> Tokens \ {<<"[", "^", "a", "-", "b", "]">>}]]
    \cup [k : {"brace"}, word : Seqs({"a", ",", "{", "}"}, 5) \cup {<<"{", "{", "a", ",">> \o w : w \in Seqs({"a", ",", "}"}, 5)}]
    \cup [k : {"files"}, path : Paths, fl : Flags]
    \cup [k : {"words"}, ws : {<<w>> : w \in Words} \cup (Words \X Words), non : BOOLEAN, nog : {FALSE}] \cup [k : {"words"}, ws : {<<w>> : w \in Words}, non : {FALSE}, nog : {TRUE}]
    \cup [k : {"output"}, out : DOMAIN Output, form : {"", "\"", "<<"}, pre : {<<>>, x}, post : {<<>>, x}]
None == [k |-> "none"]
\* A stack of one directory is used for the words that ask for it.
Equals == {t \in Tasks : t.k = "words" /\ \E k \in DOMAIN t.ws : t.ws[k][1] = "="}
MCInit == in = None /\ cwds \in Stacks
MCNext == /\ in' \in IF in # None THEN {None} ELSE IF Len(Stack) = 1 THEN Equals ELSE Tasks
          /\ UNCHANGED cwds
MCSpec == MCInit /\ [][MCNext]_globVars

\* A pattern matches a name when the name can be cut into what its items stand for.
RECURSIVE Fits(_, _)
Fits(name, items) ==
  IF items = <<>> THEN name = <<>>
  ELSE IF items[1] = ALL THEN \E k \in 0 .. Len(name) : Fits(SubSeq(name, k + 1, Len(name)), Tail(items))
  ELSE name # <<>> /\ One(name[1], items[1]) /\ Fits(Tail(name), Tail(items))
(* File names and strings are matched alike: every way to spread a name over the
   stars is tried, and a part that matches is the longest (glob.c:694, sh.glob.c:934). *)
Matches ==
  in.k = "match" =>
    LET pat == FlattenSeq(in.toks)
        items == compile(pat, 1, "", <<>>)
        t == t_pmatch(in.name, compile(pat, 1, "pm", <<>>), 1, 1)
        fits == {k \in 0 .. Len(in.name) : Fits(SubSeq(in.name, 1, k), items)}
    IN /\ match(in.name, items, 1, 1, 1, 1) <=> Len(in.name) \in fits
       /\ t.r = IF Len(in.name) \in fits THEN 2 ELSE IF fits # {} THEN 1 ELSE 0
       /\ t.r > 0 => t.end = 1 + CHOOSE k \in fits : \A j \in fits : j <= k
       /\ Gmatch(in.name, <<"^">> \o pat) <=> Len(in.name) \notin fits
       /\ Gmatch(in.name, <<"{", "x", ",">> \o pat \o <<"}">>) <=> Len(in.name) \in fits

\* The depth of braces after each place; the words a balanced word stands for.
Depth(s) == [k \in 0 .. Len(s) |-> Cardinality({j \in 1 .. k : s[j] = "{"}) - Cardinality({j \in 1 .. k : s[j] = "}"})]
Balanced(s) == /\ Depth(s)[Len(s)] = 0
               /\ \A k \in 0 .. Len(s) : Depth(s)[k] >= 0
               /\ \A k \in 1 .. Len(s) - 1 : ~(s[k] = "{" /\ s[k + 1] = "}")
RECURSIVE Means(_)
Means(s) ==
  LET o == MinOf({j \in 1 .. Len(s) : s[j] = "{"})
      c == MinOf({j \in o .. Len(s) : s[j] = "}" /\ Depth(s)[j] = 0})
      commas == {o, c} \cup {j \in o .. c : s[j] = "," /\ Depth(s)[j] = 1}
      nth(k) == CHOOSE j \in commas : Cardinality({i \in commas : i < j}) = k - 1
      alts == FlattenSeq([k \in 1 .. Cardinality(commas) - 1 |-> Means(SubSeq(s, nth(k) + 1, nth(k + 1) - 1))])
      rest == Means(SubSeq(s, c + 1, Len(s)))
  IN IF "{" \notin ToSet(s) THEN <<s>>
     ELSE FlattenSeq([k \in 1 .. Len(alts) |-> [j \in 1 .. Len(rest) |-> SubSeq(s, 1, o - 1) \o alts[k] \o rest[j]]])
(* Braces stand for their alternatives from left to right, nested ones for theirs,
   and nothing is written beyond the vector (sh.glob.c:149, 226). *)
Braces ==
  in.k = "brace" =>
    LET e == expbrace(<<in.word>>, 1, GLOBSPACE, TRUE)
    IN /\ e.room
       /\ Balanced(in.word) => e.err = "" /\ e.words = Means(in.word)
       /\ in.word \in {<<"{">>, <<"}">>, <<"{", "}">>} => e.words = <<in.word>>

\* The paths of the tree, through links too, that a path pattern stands for.
Shown(d, pat, fl) == d[1] # "." \/ (pat # <<>> /\ pat[1] = ".") \/ (fl.dot /\ d \notin Dots)
Whole(pat, fl) == fl.star /\ pat \in {<<"*", "*">>, <<"*", "*", "*">>}
RECURSIVE StandsFor(_, _, _)
StandsFor(path, pats, fl) ==
  LET p == pats[1]
      names == {Last(q) : q \in Entries(path)} \cup Dots
      next == {d \in names : Shown(d, p, fl) /\ Fits(d, compile(p, 1, "", <<>>))}
      dirs == {d \in {n \in names : Shown(n, <<>>, fl)} : Isdir(Append(path, d)) /\ (Len(p) = 3 \/ Append(real(path), d) \notin DOMAIN Links)}
  IN IF pats = <<>> THEN {path}
     ELSE IF ~Isdir(path) THEN {}
     ELSE IF Whole(p, fl) THEN (IF Len(pats) = 1 THEN {Append(path, d) : d \in next} ELSE StandsFor(path, Tail(pats), fl))
                               \cup UNION {StandsFor(Append(path, d), pats, fl) : d \in dirs}
     ELSE UNION {StandsFor(Append(path, d), Tail(pats), fl) : d \in next}
(* The files that a path pattern with *, ** and *** stands for, in order and,
   where no second ** finds a file on another way, each once; hidden files only
   where asked for, and links followed by *** alone (glob.c:481, 560). *)
FilesFound ==
  in.k = "files" =>
    LET g == glob(in.path, in.fl)
        S == StandsFor(<<>>, in.path, in.fl)
    IN IF ~g.magic THEN g.paths = <<in.path>>
       ELSE /\ ToSet(g.paths) = S
            /\ Cardinality({k \in 1 .. Len(in.path) : Whole(in.path[k], in.fl)}) < 2 => \A k \in 1 .. Len(g.paths) - 1 : before(Text(g.paths[k]), Text(g.paths[k + 1]))

Fl(t) == [Plain EXCEPT !.nonomatch = t.non, !.noglob = t.nog]
(* Each word is replaced on its own: together they give what each gives alone, and
   an error only when a brace, a user or a directory is wrong or no pattern
   matches (sh.glob.c:295, 427). *)
WordByWord ==
  in.k = "words" /\ Len(in.ws) = 2 =>
    LET r == globall(in.ws, Fl(in))
        r1 == globall(<<in.ws[1]>>, Fl(in))
        r2 == globall(<<in.ws[2]>>, Fl(in))
        errs == {r1.err, r2.err}
        magic(w) == tglob(<<w>>).glob
    IN /\ r.room
       /\ errs \ {"", "NOMATCH"} # {} => r.err \in errs \ {"", "NOMATCH"}
       /\ errs \subseteq {"", "NOMATCH"} =>
            (r.err = "NOMATCH" <=> /\ "NOMATCH" \in errs
                                   /\ r1.err = "NOMATCH" \/ ~magic(in.ws[1])
                                   /\ r2.err = "NOMATCH" \/ ~magic(in.ws[2]))
       /\ r.err = "" => r.words = (IF r1.err = "" THEN r1.words ELSE <<>>) \o (IF r2.err = "" THEN r2.words ELSE <<>>)

(* What a command writes is cut at blanks and newlines, in "..." at newlines, in a
   here document into lines; the first word joins what stands before the command,
   the last one what comes after it unless the output went on (sh.glob.c:660, 701). *)
OutputWords ==
  in.k = "output" /\ "NUL" \notin ToSet(in.out) =>
    LET o == in.out
        seps == IF in.form = "" THEN {" ", "\n"} ELSE {"\n"}
        text == IF o # <<>> /\ Last(o) = "\n" THEN Front(o) ELSE o
        cuts == {0, Len(text) + 1} \cup {k \in 1 .. Len(text) : text[k] \in seps}
        nth(k) == CHOOSE p \in cuts : Cardinality({q \in cuts : q < p}) = k - 1
        pieces == [k \in 1 .. Cardinality(cuts) - 1 |-> SubSeq(text, nth(k) + 1, nth(k + 1) - 1)]
        ended == Len(pieces) > 1 /\ Last(pieces) = <<>> /\ (in.form = "<<" \/ \E k \in 1 .. Len(pieces) : pieces[k] # <<>>)
        ws == IF in.form = "<<" THEN pieces ELSE SelectSeq(pieces, LAMBDA w : w # <<>>) \o (IF ended THEN << <<>> >> ELSE <<>>)
        glued == IF ws = <<>> THEN <<in.pre \o in.post>>
                 ELSE [k \in 1 .. Len(ws) |-> (IF k = 1 THEN in.pre ELSE <<>>) \o ws[k] \o (IF k = Len(ws) THEN in.post ELSE <<>>)]
        r == dobackp(in.pre \o Mark(o) \o in.post, in.form = "\"", in.form = "<<", NoWords)
    IN r.words = (IF Last(glued) = <<>> THEN Front(glued) ELSE glued)
=================================================================================
