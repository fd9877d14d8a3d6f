----------------------------------- MODULE Dol -----------------------------------
(* Variable substitution (sh.dol.c): the words of a command rewritten with the
   values of the variables they refer to, and the lines of a here document. *)
EXTENDS Integers, Sequences, SequencesExt, TLC

CONSTANTS Start,    \* the shell variables at first
          Env,      \* the environment: name -> value, one word
          Stdin,    \* the line $< reads
          Stale,    \* what dolmcnts[] may hold past its end
          Output(_) \* external: what a command between backquotes writes, line by line

VARIABLES vars,   \* the shell variables: name -> words
          last,   \* the command expanded last: [text, words, err]
          doc     \* the here document: [left, term, out, err], lines still to read and text so far
dolVars == <<vars, last, doc>>

SQ == "'"
QUOTES == {SQ, "\"", "bq", "\\"}
Digits == <<"0", "1", "2", "3", "4", "5", "6", "7", "8", "9">>
Digit == ToSet(Digits)
Alnum == Digit \cup {"a", "b", "e", "h", "i", "n", "q", "s", "t", "x", "y"}
P(c) == <<c, FALSE>>
Q(c) == <<c, TRUE>>
EOF == P("EOF")
Bare(cs) == [k \in 1 .. Len(cs) |-> P(cs[k])]
Quoted(w) == [k \in 1 .. Len(w) |-> Q(w[k][1])]
strip(w) == [k \in 1 .. Len(w) |-> P(w[k][1])]
putn(n) == IF n < 10 THEN <<P(Digits[n + 1])>> ELSE <<P(Digits[n \div 10 + 1]), P(Digits[(n % 10) + 1])>>
Num(cs) == FoldLeft(LAMBDA v, c : 10 * v + (CHOOSE d \in 0 .. 9 : Digits[d + 1] = c), 0, cs)
\* The first place from i on with a character that is, or is not, of S.
At(t, i, S) == CHOOSE j \in i .. Len(t) : (t[j][1] \in S \/ j = Len(t)) /\ \A k \in i .. j - 1 : t[k][1] \notin S
Past(t, i, S) == CHOOSE j \in i .. Len(t) : (t[j][1] \notin S \/ j = Len(t)) /\ \A k \in i .. j - 1 : t[k][1] \in S
Chars(t, i, j) == [k \in 1 .. j - i |-> t[i + k - 1][1]]

(* dolmod, dolmcnts and dolaflags: the modifiers of the reference being read,
   and on how many words each is still to be tried. *)
ALL == 99
NoMods == [mods |-> <<>>, cnts |-> <<>>]
cnt(m, k) == IF k <= Len(m.cnts) THEN m.cnts[k] ELSE Stale
all_dolmcnts_are_0(m) == \A k \in 1 .. Len(m.cnts) : m.cnts[k] = 0

RECURSIVE fixDolMods(_, _, _)
(* fixDolMod(): the modifiers from the place i on.  The counts are begun anew,
   the letters go behind what dolmod holds. *)
fixDolMods(t, i, m) ==
  IF t[i] # P(":") THEN [to |-> i, m |-> m, err |-> ""]
  ELSE LET f == Past(t, i + 1, {"g", "a"})
           g == "g" \in {t[k][1] : k \in i + 1 .. f - 1}
           a == "a" \in {t[k][1] : k \in i + 1 .. f - 1}
           c == t[f][1]
           mid == At(t, f + 2, {t[f + 1][1]})
           end == At(t, mid + 1, {t[f + 1][1]})
           mod == [c |-> c, a |-> a, lhs |-> IF c = "s" THEN Bare(Chars(t, f + 2, mid)) ELSE <<>>,
                   rhs |-> IF c = "s" THEN Bare(Chars(t, mid + 1, end)) ELSE <<>>]
       IN IF c \notin {"h", "t", "q", "Q", "x", "s"} THEN [to |-> f, m |-> m, err |-> "BADMOD"]
          ELSE fixDolMods(t, IF c = "s" THEN end + 1 ELSE f + 1,
                          [mods |-> Append(m.mods, mod), cnts |-> Append(m.cnts, IF g \/ c = "q" THEN ALL ELSE 1)])
fixDolMod(t, i, m) == IF t[i] = P(":") THEN fixDolMods(t, i, [m EXCEPT !.cnts = <<>>]) ELSE fixDolMods(t, i, m)

\* domod(): a slash with the QUOTE bit is no slash.
domod(w, c) ==
  LET slash == {k \in 1 .. Len(w) : w[k] = P("/")}
      l == CHOOSE k \in slash : \A j \in slash : j <= k
  IN CASE c = "q" -> Quoted(w)
       [] c = "Q" -> IF w = <<>> THEN <<Q("NUL")>> ELSE Quoted(w)
       [] c = "x" -> [k \in 1 .. Len(w) |-> IF w[k][1] = " " THEN w[k] ELSE Q(w[k][1])]
       [] c = "h" -> IF slash = {} THEN w ELSE SubSeq(w, 1, l - 1)
       [] c = "t" -> IF slash = {} THEN w ELSE SubSeq(w, l + 1, Len(w))
Strstr(w, from, l) == {k \in from .. Len(w) - Len(l) + 1 : SubSeq(w, k, k + Len(l) - 1) = l}
RECURSIVE subst(_, _, _)
\* The :s loop: once, or on from behind each replacement with the flag a.
subst(w, from, mod) ==
  LET found == Strstr(w, from, mod.lhs)
      at == CHOOSE k \in found : \A j \in found : k <= j
      done == SubSeq(w, 1, at - 1) \o mod.rhs \o SubSeq(w, at + Len(mod.lhs), Len(w))
  IN IF found = {} THEN w ELSE IF mod.a THEN subst(done, at + Len(mod.rhs), mod) ELSE done
RECURSIVE again(_, _)
again(w, mod) == LET d == domod(w, mod.c) IN IF mod.a /\ d # w THEN again(d, mod) ELSE d
\* One modifier on one word: the word and whether it counts as modified.
modify(w, mod) ==
  IF mod.c = "s" THEN [w |-> subst(strip(w), 1, mod), did |-> Strstr(strip(w), 1, mod.lhs) # {}]
  ELSE [w |-> again(w, mod), did |-> TRUE]
\* Mutant: a modifier goes on with the words after the one it changed.
setDolpAll(w, m) ==
  FoldLeftDomain(LAMBDA s, k : IF cnt(s.m, k) = 0 THEN s ELSE [w |-> modify(s.w, m.mods[k]).w, m |-> s.m],
                 [w |-> w, m |-> m], m.mods)
(* setDolp(): the next word of the value, changed by each modifier whose count
   has not run out. *)
setDolp(w, m) ==
  FoldLeftDomain(LAMBDA s, k : LET r == modify(s.w, m.mods[k])
                                   c == cnt(s.m, k)
                               IN IF c = 0 THEN s
                                  ELSE [w |-> r.w, m |-> IF r.did /\ c # ALL /\ k <= Len(s.m.cnts)
                                                         THEN [s.m EXCEPT !.cnts[k] = @ - 1] ELSE s.m],
                 [w |-> w, m |-> m], IF all_dolmcnts_are_0(m) THEN <<>> ELSE m.mods)
quotspec(w) == [k \in 1 .. Len(w) |-> IF w[k][1] \in QUOTES THEN Q(w[k][1]) ELSE w[k]]
RECURSIVE dolnxt(_, _, _)
(* What DgetC() gives out for the words of a value: a blank between them, the
   quoting characters quoted. *)
dolrest(s, ws, out) == dolnxt(Tail(ws), s.m, out \o quotspec(s.w) \o (IF Len(ws) = 1 THEN <<>> ELSE <<P(" ")>>))
dolnxt(ws, m, out) == IF ws = <<>> THEN [out |-> out, m |-> m] ELSE dolrest(setDolp(ws[1], m), ws, out)

Sel(l, u, e) == [lwb |-> l, upb |-> u, err |-> e]
(* The selector between [ and ] of a value of n words. *)
selector(txt, n) ==
  LET t == txt \o <<EOF>>
      d == Past(t, 1, Digit) - 1
      lwb == IF d > 0 THEN Num(Chars(t, 1, d + 1)) ELSE 1
      c == t[d + 1][1]
      e == Past(t, IF d + 2 > Len(t) THEN Len(t) ELSE d + 2, Digit)
      hi == IF e = d + 2 \/ c # "-" THEN n ELSE Num(Chars(t, d + 2, e))
      upb == IF c = "EOF" THEN lwb ELSE IF hi < lwb /\ c = "-" THEN lwb - 1 ELSE hi
      to == IF c = "*" THEN d + 2 ELSE e
  IN IF txt = <<>> THEN Sel(1, 0, "SYNTAX")
     ELSE IF d > 0 /\ lwb > n /\ c \notin {"-", "*"} THEN Sel(1, 0, "RANGE")
     ELSE IF c \notin {"-", "*", "EOF"} THEN Sel(1, 0, "MISSING")
     ELSE IF (c = "-" /\ hi > n) \/ (lwb = 0 /\ upb # 0) THEN Sel(1, 0, "RANGE")
     ELSE IF c # "EOF" /\ to < Len(t) THEN Sel(1, 0, "SYNTAX")
     ELSE IF lwb = 0 THEN Sel(0, -1, "") ELSE Sel(lwb, upb, "")

(* The name after the $ at i (one of several letters is "long"): the word counted or asked for, and whether a
   subscript may follow (0), does not (-1), or is the number itself. *)
dolname(t, i) ==
  LET brace == t[i + 1] = P("{")
      a == IF brace THEN i + 2 ELSE i + 1
      kind == IF t[a][1] \in {"#", "?", "%"} THEN t[a][1] ELSE ""
      n == IF kind = "" THEN a ELSE a + 1
      c == t[n][1]
      to == Past(t, n, IF c \in Digit THEN Digit ELSE Alnum)
      Name(name, sub, j) == [name |-> name, sub |-> sub, kind |-> kind, brace |-> brace, to |-> j, err |-> ""]
      Wrong(e) == [Name("", -1, n) EXCEPT !.err = e]
  IN CASE c \in {"$", "!"} -> IF kind # "" THEN Wrong("SYNTAX") ELSE Name(c, -1, n + 1)
       [] c = "<" -> IF kind \in {"#", "%"} THEN Wrong("NOTALLOWED") ELSE Name(c, -1, n + 1)
       [] c = "*" -> Name("argv", -1, n + 1)
       [] c \in Digit -> IF kind = "#" THEN Wrong("NOTALLOWED")
                         ELSE IF Num(Chars(t, n, to)) = 0 THEN Name("0", -1, to) ELSE Name("argv", Num(Chars(t, n, to)), to)
       [] c \in Alnum \ Digit -> Name(IF to = n + 1 THEN c ELSE "long", 0, to)
       [] OTHER -> IF kind = "#" THEN Name("argv", -1, n)
                   ELSE IF kind = "?" THEN [Name("status", -1, n) EXCEPT !.kind = ""]
                   ELSE Wrong(IF c = "EOF" THEN "SYNTAX" ELSE "VARALNUM")

(* What is read in the place of the reference nm, and where the text goes on; a
   brace has to be closed. *)
dolis(t, nm, to, out, m, e) ==
  IF e = "" /\ nm.brace /\ t[to] # P("}") THEN [to |-> to, out |-> <<>>, m |-> m, err |-> "MISSING"]
  ELSE [to |-> IF nm.brace /\ e = "" THEN to + 1 ELSE to, out |-> out, m |-> m, err |-> e]
dolnum(t, nm, to, n) == dolis(t, nm, to, putn(n), NoMods, "")
dolout(t, nm, mods, d) == dolis(t, nm, mods.to, d.out, d.m, mods.err)
dolmods(t, nm, v, mods) == dolout(t, nm, mods, dolnxt(v, mods.m, <<>>))
\* The words v with the modifiers that stand at the place at.
dolwords(t, nm, v, at, m) == dolmods(t, nm, v, fixDolMod(t, at, m))
\* The words, their number or their length, of what is selected.
dolsel(t, nm, ws, sel, at, m) ==
  IF sel.err # "" THEN dolis(t, nm, at, <<>>, NoMods, sel.err)
  ELSE IF nm.kind = "#" THEN dolnum(t, nm, nm.to, Len(ws))
  ELSE IF nm.kind = "%" THEN dolnum(t, nm, at, FoldLeft(LAMBDA n, w : n + Len(w), 0, SubSeq(ws, sel.lwb, sel.upb)))
  ELSE dolwords(t, nm, SubSeq(ws, IF sel.lwb = 0 THEN 1 ELSE sel.lwb, sel.upb), at, m)
dolindexed(t, nm, ws, sub) ==
  IF sub.err # "" THEN dolis(t, nm, sub.to, <<>>, NoMods, sub.err) ELSE dolsel(t, nm, ws, selector(sub.txt, Len(ws)), sub.to, sub.m)

RECURSIVE Dgetdol(_, _, _), subscript(_, _, _, _, _)
\* The text of a selector up to its ], references in it expanded.
subscripted(V, t, j, m, txt, r) ==
  IF r.err # "" THEN [to |-> j, txt |-> txt, m |-> m, err |-> r.err] ELSE subscript(V, t, r.to, r.m, txt \o r.out)
subscript(V, t, j, m, txt) ==
  CASE t[j] = P("]") -> [to |-> j + 1, txt |-> txt, m |-> m, err |-> ""]
    [] t[j][1] \in {"\n", "EOF"} -> [to |-> j, txt |-> txt, m |-> m, err |-> "INCBR"]
    [] t[j] = P("$") -> subscripted(V, t, j, m, txt, Dgetdol(V, t, j))
    [] OTHER -> subscript(V, t, j + 1, m, Append(txt, t[j]))
\* The value of the variable nm, or what is asked about it.
dolvalue(V, t, nm) ==
  LET set == nm.name \in DOMAIN V
      env == nm.name \in DOMAIN Env
      ws == V[nm.name]
      whole == IF nm.sub > Len(ws) THEN Sel(1, 0, "") ELSE IF nm.sub > 0 THEN Sel(nm.sub, nm.sub, "") ELSE Sel(1, Len(ws), "")
      \* Of what is no shell variable: its words, or a number for the kind asked for.
      other(v, asked) == IF nm.kind = asked THEN dolwords(t, nm, v, nm.to, NoMods)
                         ELSE dolnum(t, nm, fixDolMod(t, nm.to, NoMods).to, IF env THEN Len(Env[nm.name]) ELSE 0)
  IN CASE nm.err # "" -> dolis(t, nm, nm.to, <<>>, NoMods, nm.err)
       [] nm.err = "" /\ nm.name \in {"$", "!"} -> dolis(t, nm, nm.to, <<P("p")>>, NoMods, "")
       [] nm.err = "" /\ nm.name \in {"<", "0"} ->
            IF nm.kind = "?" THEN dolnum(t, nm, nm.to, 0)
            ELSE IF nm.name = "<" THEN dolwords(t, nm, <<Stdin>>, nm.to, NoMods) ELSE dolis(t, nm, nm.to, <<>>, NoMods, "DOLZERO")
       [] OTHER ->
            IF nm.sub > 0 /\ ~set THEN dolwords(t, nm, <<>>, nm.to, NoMods)
            ELSE IF nm.kind = "?" THEN dolnum(t, nm, nm.to, IF set \/ env THEN 1 ELSE 0)
            ELSE IF ~set THEN IF env THEN other(<<Env[nm.name]>>, IF nm.kind = "%" THEN "" ELSE nm.kind) ELSE other(<< <<>> >>, "")
            ELSE IF nm.kind # "#" /\ nm.sub = 0 /\ t[nm.to] = P("[") THEN dolindexed(t, nm, ws, subscript(V, t, nm.to + 1, NoMods, <<>>))
            ELSE dolsel(t, nm, ws, whole, nm.to, NoMods)
(* Dgetdol(): the reference that begins with the $ at i, what is read in its
   place, and where the text goes on. *)
Dgetdol(V, t, i) == dolvalue(V, t, dolname(t, i))

(* The word being packed: w, whether it has begun, the quote it is in. *)
Word0 == [words |-> <<>>, w |-> <<>>, on |-> FALSE, q |-> "", err |-> ""]
End(s) == IF s.on THEN [s EXCEPT !.words = Append(@, s.w), !.w = <<>>, !.on = FALSE] ELSE s
\* A character outside quotes, of the text or of a value (Dword(), Dpack()).
Dpack(s, c) ==
  CASE c = P(" ") -> End(s)
    [] c = P("\n") -> [End(s) EXCEPT !.words = Append(@, <<>>)]
    [] OTHER -> [s EXCEPT !.w = Append(@, c), !.on = TRUE]
\* A character inside the quote s.q.
Inside(s, c) ==
  LET w == IF c = Q("\n") /\ s.w # <<>> /\ Last(s.w)[1] = "\\" THEN Front(s.w) ELSE s.w
  IN IF c \in {P("\n"), EOF} THEN [s EXCEPT !.err = "UNMATCHED"]
     ELSE [s EXCEPT !.w = Append(w, IF s.q = "bq" \/ (s.q = "\"" /\ c = P("bq")) THEN c ELSE Q(c[1]))]

RECURSIVE Dword(_, _, _, _)
\* What is read for a reference goes into the words as text does.
Ddol(V, t, s, r) ==
  IF r.err # "" THEN [s EXCEPT !.err = r.err]
  ELSE Dword(V, t, r.to, FoldLeft(LAMBDA w, x : IF s.q = "" THEN Dpack(w, x) ELSE Inside(w, x), s, r.out))
\* Dword() and DgetC(): the text from i on, cut into words.
Dword(V, t, i, s) ==
  LET c == t[i]
      bq == IF c = P("bq") THEN Append(s.w, c) ELSE s.w
  IN IF s.err # "" THEN s
     ELSE IF c = P("$") /\ s.q \in {"", "\""} THEN Ddol(V, t, s, Dgetdol(V, t, i))
     ELSE IF s.q = "" THEN
       CASE c = EOF -> End(s)
         [] c = P("\\") -> IF t[i + 1] = EOF THEN End(s) ELSE Dword(V, t, i + 2, Dpack(s, Q(t[i + 1][1])))
         [] c \in {P(SQ), P("\""), P("bq")} -> Dword(V, t, i + 1, [s EXCEPT !.q = c[1], !.on = TRUE, !.w = bq])
         [] OTHER -> Dword(V, t, i + 1, Dpack(s, c))
     ELSE Dword(V, t, i + 1, IF c = P(s.q) THEN [s EXCEPT !.q = "", !.w = bq] ELSE Inside(s, c))
\* Dfix2(): the words of a command, a blank before each, substituted and cut anew.
Dfix2(V, ws) == Dword(V, FlattenSeq([k \in 1 .. Len(ws) |-> <<P(" ")>> \o ws[k]]) \o <<EOF>>, 1, Word0)
\* Dfix(): words without a $ or a quote are left alone.
Dfix(V, ws) ==
  IF \A k \in 1 .. Len(ws) : \A j \in 1 .. Len(ws[k]) : ws[k][j] \notin {P(c) : c \in QUOTES \cup {"$"}}
  THEN [Word0 EXCEPT !.words = ws] ELSE Dfix2(V, ws)

RECURSIVE hereline(_, _, _, _, _)
(* heredoc(): the characters of a line, pend being what is left of a value.  A
   backslash, of the line or of a value, quotes a $, a backslash or a backquote. *)
heredol(V, t, buf, r) == IF r.err # "" THEN [buf |-> <<>>, err |-> r.err] ELSE hereline(V, t, r.to, r.out, buf)
hereline(V, t, i, pend, buf) ==
  LET val == pend # <<>>
      c == IF val THEN pend[1][1] ELSE t[i][1]
      rest == IF val THEN Tail(pend) ELSE pend
      j == IF val THEN i ELSE i + 1
      d == IF rest # <<>> THEN rest[1][1] ELSE t[j][1]
      After(more) == hereline(V, t, IF rest = <<>> THEN j + 1 ELSE j, IF rest = <<>> THEN rest ELSE Tail(rest), buf \o more)
  IN IF ~val /\ c = "EOF" THEN [buf |-> buf, err |-> ""]
     ELSE IF ~val /\ c = "$" THEN heredol(V, t, buf, Dgetdol(V, t, i))
     ELSE IF c # "\\" THEN hereline(V, t, j, rest, Append(buf, P(c)))
     ELSE IF d = "EOF" /\ rest = <<>> THEN [buf |-> Append(buf, P(c)), err |-> ""]
     ELSE After(IF d \in {"$", "\\", "bq"} THEN <<Q(d)>> ELSE <<P(c), P(d)>>)
RECURSIVE commands(_, _)
\* External, dobackp() for one line: the commands between backquotes give way to their output.
commands(buf, out) ==
  LET t == buf \o <<EOF>>
      open == CHOOSE j \in 1 .. Len(t) : t[j] \in {P("bq"), EOF} /\ \A k \in 1 .. j - 1 : t[k] # P("bq")
      close == CHOOSE j \in open + 1 .. Len(t) : t[j] \in {P("bq"), EOF} /\ \A k \in open + 1 .. j - 1 : t[k] # P("bq")
  IN IF t[open] = EOF THEN [text |-> out \o Chars(t, 1, open) \o <<"\n">>, err |-> ""]
     ELSE IF t[close] = EOF THEN [text |-> out, err |-> "UNMATCHED"]
     ELSE commands(SubSeq(buf, close + 1, Len(buf)), out \o Chars(t, 1, open) \o Output(Chars(t, open + 1, close)))

Init == vars = Start /\ last = [text |-> <<>>, words |-> <<>>, err |-> ""] /\ doc = [left |-> <<>>, term |-> <<>>, out |-> <<>>, err |-> "none"]
(* A command is expanded before it is run (execute()); set takes the words it
   comes to as a value. *)
Expand(ws, name) ==
  \E r \in {Dfix(vars, ws)} :
     /\ last' = [text |-> ws, words |-> r.words, err |-> r.err]
     /\ vars' = IF name = "" \/ r.err # "" THEN vars ELSE [vars EXCEPT ![name] = [k \in 1 .. Len(r.words) |-> strip(r.words[k])]]
     /\ UNCHANGED doc
\* heredoc(term): the lines that follow the command, up to one that is the term.
HereDoc(lines, term) ==
  /\ doc.err # ""
  /\ doc' = [left |-> lines, term |-> term, out |-> <<>>, err |-> ""]
  /\ UNCHANGED <<vars, last>>
isTerm(line, term) == line = strip(term)
hereout(d, c) == IF c.err # "" THEN [d EXCEPT !.left = <<>>, !.err = c.err] ELSE [d EXCEPT !.left = Tail(@), !.out = @ \o c.text]
HereLine ==
  LET line == doc.left[1]
      quoted == \E k \in 1 .. Len(doc.term) : doc.term[k][2]
  IN /\ doc.err = ""
     /\ IF doc.left = <<>> \/ isTerm(line, doc.term) THEN doc' = [doc EXCEPT !.err = "end"]
        ELSE IF quoted THEN doc' = hereout(doc, [text |-> Chars(line, 1, Len(line) + 1) \o <<"\n">>, err |-> ""])
        ELSE \E r \in {hereline(vars, line \o <<EOF>>, 1, <<>>, <<>>)} :
               doc' = hereout(doc, IF r.err # "" THEN r ELSE commands(r.buf, <<>>))
     /\ UNCHANGED <<vars, last>>

---------------------------------------------------------------------------------
(* Commands put together from pieces, expanded as the manual has it piece by
   piece, and here documents. *)
CONSTANT MaxSteps
VARIABLES said,  \* the pieces of the words expanded last
          n      \* commands so far
vars_ == <<dolVars, said, n>>

(* A piece: a character, one behind a backslash, a quoted part, a command
   between backquotes, or a reference with its selector and modifiers. *)
Lit(c) == [k |-> "lit", c |-> c, in |-> <<>>]
Esc(c) == [k |-> "esc", c |-> c, in |-> <<>>]
In(q, ps) == [k |-> q, c |-> q, in |-> ps]
Ref(name, sel, mods, kind, brace) == [k |-> "ref", c |-> name, in |-> <<>>, sel |-> sel, mods |-> mods, kind |-> kind, brace |-> brace]
All == [txt |-> <<>>, lo |-> 1, hi |-> -1]
One(d) == [txt |-> <<"[", Digits[d + 1], "]">>, lo |-> d, hi |-> d]
From(d) == [txt |-> <<"[", Digits[d + 1], "-", "]">>, lo |-> d, hi |-> -1]
UpTo(d) == [txt |-> <<"[", "-", Digits[d + 1], "]">>, lo |-> 1, hi |-> d]
FromTo(d, e) == [txt |-> <<"[", Digits[d + 1], "-", Digits[e + 1], "]">>, lo |-> d, hi |-> e]
Star == [All EXCEPT !.txt = <<"[", "*", "]">>]
ByI == [All EXCEPT !.txt = <<"[", "$", "i", "]">>, !.lo = 2, !.hi = 2]
ByModified(m) == [ByI EXCEPT !.txt = <<"[", "$", "i", ":">> \o m \o <<"]">>]
M(c) == [c |-> c, g |-> FALSE]
G(c) == [c |-> c, g |-> TRUE]
Letters(m) == (IF m.g THEN <<"g">> ELSE <<>>) \o (IF m.c = "s" THEN <<"s", "/", "y", "/", "z", "/">> ELSE <<m.c>>)

RECURSIVE text(_)
text(ps) ==
  FlattenSeq([k \in 1 .. Len(ps) |->
    LET p == ps[k]
        mods == FlattenSeq([j \in 1 .. Len(p.mods) |-> <<":">> \o Letters(p.mods[j])])
    IN CASE p.k = "lit" -> <<P(p.c)>>
         [] p.k = "esc" -> <<P("\\"), Q(p.c)>>
         [] p.k \in {SQ, "\"", "bq"} -> <<P(p.k)>> \o text(p.in) \o <<P(p.k)>>
         [] p.k = "ref" -> Bare(<<"$">> \o (IF p.brace THEN <<"{">> ELSE <<>>) \o (IF p.kind = "" THEN <<>> ELSE <<p.kind>>) \o <<p.c>>
                                \o p.sel.txt \o mods \o (IF p.brace THEN <<"}">> ELSE <<>>))])

(* The words a reference stands for, as the manual has it (tcsh.man.in:2530-2720),
   or what is wrong with it. *)
Value(V, p) == IF p.c \in DOMAIN V THEN V[p.c] ELSE IF p.c \in DOMAIN Env THEN <<Env[p.c]>> ELSE IF p.c = "<" THEN <<Stdin>> ELSE << <<>> >>
WrongSelector(p, len) == p.sel.hi > len \/ (p.sel.lo = 0 /\ p.sel.hi # 0)
Selected(V, p) == LET v == Value(V, p)
                      hi == IF p.sel.hi = -1 THEN Len(v) ELSE p.sel.hi
                  IN SubSeq(v, IF p.sel.lo = 0 THEN 1 ELSE p.sel.lo, hi)
Slash(w) == {k \in 1 .. Len(w) : w[k] = P("/")}
Modified(w, c) ==
  CASE c = "h" -> IF Slash(w) = {} THEN w ELSE SubSeq(w, 1, (CHOOSE k \in Slash(w) : \A j \in Slash(w) : j <= k) - 1)
    [] c = "t" -> SelectSeq([k \in 1 .. Len(w) |-> IF \E j \in Slash(w) : j >= k THEN P("") ELSE w[k]], LAMBDA x : x # P(""))
    [] c = "q" -> Quoted(w)
    [] c = "s" -> LET y == {k \in 1 .. Len(w) : w[k][1] = "y"} IN [k \in 1 .. Len(w) |-> IF k \in y /\ \A j \in y : k <= j THEN P("z") ELSE w[k]]
Modifiable(w, m) == m.c # "s" \/ P("y") \in ToSet(w)
Apply(ws, m) ==
  LET can == {k \in 1 .. Len(ws) : Modifiable(ws[k], m)}
  IN [k \in 1 .. Len(ws) |-> IF k \in can /\ (m.g \/ m.c = "q" \/ \A j \in can : k <= j) THEN Modified(ws[k], m.c) ELSE ws[k]]
Protected(ws) == [k \in 1 .. Len(ws) |-> [j \in 1 .. Len(ws[k]) |-> IF ws[k][j][1] \in QUOTES THEN Q(ws[k][j][1]) ELSE ws[k][j]]]
RefWords(V, p) ==
  LET known == p.c \in DOMAIN V
  IN CASE p.kind = "?" -> <<putn(IF known \/ p.c \in DOMAIN Env THEN 1 ELSE 0)>>
       [] p.kind = "#" -> <<putn(IF known THEN Len(V[p.c]) ELSE 0)>>
       [] p.kind = "%" -> <<putn(FoldLeft(LAMBDA s, w : s + Len(w), 0, Selected(V, p)))>>
       [] OTHER -> Protected(FoldLeft(Apply, Selected(V, p), p.mods))

(* What a piece gives: characters, BREAK between two words, BEGUN where a word
   is though nothing may be in it. *)
BREAK == <<"break", TRUE>>
BEGUN == <<"begun", TRUE>>
Join(ws, sep) == FlattenSeq([k \in 1 .. Len(ws) |-> (IF k = 1 THEN <<>> ELSE <<sep>>) \o ws[k]])
Broken(w) == [k \in 1 .. Len(w) |-> IF w[k] = P(" ") THEN BREAK ELSE w[k]]
RECURSIVE Gives(_, _, _)
Gives(V, ps, q) ==
  FlattenSeq([k \in 1 .. Len(ps) |->
    LET p == ps[k]
        chars == CASE p.k = "lit" -> <<P(p.c)>>
                   [] p.k = "esc" -> <<Q(p.c)>>
                   [] p.k = "ref" -> IF q = "" THEN Broken(Join(RefWords(V, p), P(" "))) ELSE Join(RefWords(V, p), P(" "))
                   [] p.k = SQ -> Quoted(text(p.in))
                   [] p.k = "bq" -> <<P("bq")>> \o text(p.in) \o <<P("bq")>>
                   [] p.k = "\"" -> LET g == Gives(V, p.in, "\"") IN [j \in 1 .. Len(g) |-> IF g[j] = P("bq") THEN g[j] ELSE Q(g[j][1])]
    IN (IF p.k \in QUOTES THEN <<BEGUN>> ELSE <<>>) \o chars])
RECURSIVE Wrong(_, _)
Wrong(V, ps) == \E k \in 1 .. Len(ps) :
                  \/ ps[k].k = "ref" /\ ps[k].kind \notin {"?", "#"} /\ ps[k].c \in DOMAIN V /\ WrongSelector(ps[k], Len(V[ps[k].c]))
                  \/ ps[k].k = "\"" /\ Wrong(V, ps[k].in)
CutAt(items) ==
  LET cuts == {0, Len(items) + 1} \cup {k \in 1 .. Len(items) : items[k] = BREAK}
      parts == {<<a, b>> \in cuts \X cuts : a < b /\ \A c \in cuts : ~(a < c /\ c < b)}
      full == {p \in parts : p[2] > p[1] + 1}
      nth(k) == CHOOSE p \in full : Cardinality({o \in full : o[1] < p[1]}) = k - 1
  IN [k \in 1 .. Cardinality(full) |-> SelectSeq(SubSeq(items, nth(k)[1] + 1, nth(k)[2] - 1), LAMBDA x : x # BEGUN)]
AsManual(V, ws) == CutAt(Join([k \in 1 .. Len(ws) |-> Gives(V, ws[k], "")], BREAK))

A(sel, mods) == Ref("a", sel, mods, "", TRUE)
Pieces2 == {Lit("x"), Esc("$"), In(SQ, <<>>), In("\"", <<A(All, <<M("q")>>), Lit("bq")>>), In("bq", <<Lit("$"), Lit("x")>>),
            Ref("a", All, <<>>, "", FALSE), A(From(2), <<M("h"), G("s")>>), Ref("b", All, <<>>, "", FALSE)}
Pieces3 == Pieces2 \cup {Lit("/"), Esc(SQ), In(SQ, <<Lit("$"), Lit("x"), Lit("\"")>>), In("\"", <<>>), In("\"", <<Ref("a", FromTo(1, 2), <<>>, "", FALSE), Lit(SQ)>>)}
             \cup {A(sel, <<>>) : sel \in {One(k) : k \in {0, 1, 3, 4}} \cup {From(k) : k \in {0, 1, 3, 4, 5}} \cup {UpTo(0), UpTo(2), UpTo(4)}
                                      \cup {FromTo(2, 3), FromTo(3, 1), FromTo(0, 0), FromTo(0, 1), FromTo(1, 4), FromTo(5, 2), Star, ByI}}
             \cup {Ref("a", All, mods, "", FALSE) : mods \in {<<M("h")>>, <<G("h")>>, <<M("t")>>, <<M("s")>>, <<G("s")>>, <<M("s"), M("q")>>, <<M("s"), M("t")>>, <<G("s"), M("s")>>}}
             \cup {Ref("a", ByModified(m), <<>>, "", FALSE) : m \in {<<"h">>, <<"g", "h">>}}
             \cup {Ref(v, All, <<>>, kind, brace) : v \in {"a", "b", "n", "e"}, kind \in {"", "?"}, brace \in BOOLEAN}
             \cup {Ref("a", One(2), <<>>, "%", FALSE), Ref("a", All, <<>>, "%", TRUE), Ref("a", All, <<>>, "#", TRUE), Ref("b", All, <<>>, "#", FALSE), Ref("n", All, <<>>, "#", FALSE),
                    Ref("<", All, <<M("q")>>, "", FALSE), Ref("<", All, <<>>, "", FALSE)}
Lines == {<<Lit("x"), Lit("x"), Lit("x")>>, <<Lit(SQ), Ref("a", One(2), <<>>, "", FALSE), Lit(SQ), Lit(" "), Lit(" "), Esc("$"), Esc("x"), Lit("\"")>>, <<>>,
          <<Lit("x"), In("bq", <<Lit("x"), Ref("i", All, <<>>, "", FALSE)>>), Lit("x")>>, <<Esc("\\"), Ref("n", All, <<>>, "", TRUE), Esc("bq"), A(From(1), <<G("s")>>)>>}
Docs == [lines : {<<>>} \cup {<<l>> : l \in Lines} \cup (Lines \X Lines), quoted : BOOLEAN]
Words == {<<p>> : p \in Pieces3} \cup (Pieces3 \X Pieces2) \cup (Pieces2 \X Pieces3) \cup {<<p, q, r>> : p \in Pieces2, q \in Pieces2, r \in Pieces2}
Inputs == {<<w>> : w \in Words} \cup {<< <<p>>, <<q>> >> : p \in Pieces3, q \in Pieces2}
Values == {<< <<p>>, <<In("\"", <<>>)>>, <<Lit("y")>> >> :
            p \in {Esc(SQ), In("\"", <<A(All, <<>>)>>)}}

MCInit == Init /\ said = [ps |-> <<>>, V |-> Start] /\ n = 0
Do(ws, name) == /\ n < MaxSteps /\ n' = IF name = "" THEN MaxSteps ELSE n + 1
                /\ said' = [ps |-> ws, V |-> vars]
                /\ Expand([k \in 1 .. Len(ws) |-> text(ws[k])], name)
Here(d) == /\ n < MaxSteps /\ n' = MaxSteps
           /\ said' = [ps |-> d.lines, V |-> vars]
           /\ HereDoc([k \in 1 .. Len(d.lines) |-> text(d.lines[k])] \o <<Bare(<<"x", "x">>)>>, IF d.quoted THEN <<Q("x"), Q("x")>> ELSE Bare(<<"x", "x">>))
MCNext == \/ \E ws \in Values : Do(ws, "b")
          \/ \E ws \in Inputs : Do(ws, "")
          \/ \E d \in Docs : Here(d)
          \/ HereLine /\ UNCHANGED <<said, n>>
MCSpec == MCInit /\ [][MCNext]_vars_

(* The text alone says where a name ends, and a modifier is not put after :q. *)
RECURSIVE Fair(_)
Fair(ps) == \A k \in 1 .. Len(ps) :
  /\ ps[k].k = "ref" =>
       /\ k < Len(ps) /\ ~ps[k].brace => ps[k + 1].k # "lit" \/ ps[k + 1].c \notin Alnum \cup {"[", ":"}
       /\ \A j \in 1 .. Len(ps[k].mods) - 1 : ps[k].mods[j].c # "q"
       /\ ":" \notin ToSet(ps[k].sel.txt)
  /\ ps[k].k = "\"" => Fair(ps[k].in)

(* The words of a command come out as the manual has them: a reference gives
   the selected and modified words of its value, cut at blanks unless quoted,
   and no character of a value quotes anything (sh.dol.c:255, 318, 364, 388). *)
ExpandsAsManual ==
  last.text # <<>> /\ doc.err = "none" /\ (\A k \in 1 .. Len(said.ps) : Fair(said.ps[k])) =>
    IF \E k \in 1 .. Len(said.ps) : Wrong(said.V, said.ps[k]) THEN last.err # ""
    ELSE last.err = "" /\ last.words = AsManual(said.V, said.ps)

(* A here document comes out line by line as it was written, references and
   commands replaced unless the term was quoted (sh.dol.c:1030). *)
HereText ==
  doc.err = "end" =>
    LET line(ps) ==
          FlattenSeq([k \in 1 .. Len(ps) |->
            CASE ps[k].k = "lit" -> <<ps[k].c>>
              [] ps[k].k = "esc" -> IF ps[k].c \in {"$", "\\", "bq"} THEN <<ps[k].c>> ELSE <<"\\", ps[k].c>>
              [] ps[k].k = "ref" -> LET cs == Join(RefWords(said.V, ps[k]), P(" ")) IN Chars(cs, 1, Len(cs) + 1)
              [] ps[k].k = "bq" -> <<"o", "\n", "o">>
              [] OTHER -> LET cs == text(<<ps[k]>>) IN Chars(cs, 1, Len(cs) + 1)]) \o <<"\n">>
        asis(ps) == LET cs == text(ps) IN Chars(cs, 1, Len(cs) + 1) \o <<"\n">>
    IN doc.out = FlattenSeq([k \in 1 .. Len(said.ps) |-> IF doc.term # strip(doc.term) THEN asis(said.ps[k]) ELSE line(said.ps[k])])
=================================================================================
