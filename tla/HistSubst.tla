-------------------------------- MODULE HistSubst --------------------------------
(* History substitution (sh.lex.c): what a reference to an earlier line, read
   character by character, puts into the line being typed, and what the shell
   keeps from one reference to the next: the string last searched or replaced,
   the string for :& and what it is replaced with. *)
EXTENDS Integers, Sequences, SequencesExt, TLC

CONSTANTS History   \* the events, newest first: [num, words], a word a sequence of characters
HistSubstAssumption == History # <<>> /\ \A e \in ToSet(History) : e.num \in Nat /\ e.words # <<>>

VARIABLES sub,   \* [lhs, slhs, rhs]: lhsb, slhs and rhsb
          got    \* the words of the last reference, or its error
histVars == <<sub, got>>

Digit == [c \in {"0", "1", "2", "3", "4", "5", "6", "7", "8", "9"} |-> CHOOSE d \in 0 .. 9 : ToString(d) = c]
Letter == {"a", "b", "c", "h", "t", "r", "e", "u", "l", "s", "g", "p"}
Upper == [c \in {"a", "b"} |-> IF c = "a" THEN "A" ELSE "B"]
Stops == {"^", "*", "-", "%", "$", "{", "}", ":", "#"}
META == {"\n", " ", "&", "|", ";", "(", ")", "<", ">", "\\", "'", "\""}
eventno == History[1].num

\* A line ends with a newline: the first place from i on that is not in S, in S.
Past(t, i, S) == CHOOSE j \in i .. Len(t) : t[j] \notin S /\ \A k \in i .. j - 1 : t[k] \in S
Upto(t, i, S) == CHOOSE j \in i .. Len(t) : t[j] \in S /\ \A k \in i .. j - 1 : t[k] \notin S
Fail(s, e) == IF s.err = "" THEN [s EXCEPT !.err = e] ELSE s
Skip(s, n) == [s EXCEPT !.at = @ + n]
NoHist == [num |-> -1, words |-> <<>>]

matchs(w, i, p) == i + Len(p) - 1 <= Len(w) /\ SubSeq(w, i, i + Len(p) - 1) = p
(* findev(): the newest event whose first word begins with p or, for ?p?, one of
   whose words has p in it; that word is what % means. *)
findev(s, p, anyarg) ==
  LET Word(e) == {k \in 1 .. Len(e.words) : \E i \in 1 .. Len(e.words[k]) : matchs(e.words[k], i, p)}
      Match(e) == IF anyarg THEN Word(e) # {} ELSE matchs(e.words[1], 1, p)
      hit == SelectInSeq(History, Match)
  IN IF hit = 0 THEN [s |-> Fail(s, "NOEVENT"), hp |-> NoHist]
     ELSE [s |-> IF anyarg THEN [s EXCEPT !.ques = (CHOOSE k \in Word(History[hit]) : \A l \in Word(History[hit]) : k <= l) - 1] ELSE s,
           hp |-> History[hit]]
Numbered(s, n) ==
  LET hit == SelectInSeq(History, LAMBDA e : e.num = n)
  IN IF hit = 0 THEN [s |-> Fail(s, "NOEVENT"), hp |-> NoHist] ELSE [s |-> s, hp |-> History[hit]]
(* gethent(): the event.  Only digits are a number; anything else, and what is
   between question marks, is searched for and kept. *)
gethent(s, t) ==
  LET c == t[s.at]
      back == c = "-"
      from == IF back THEN s.at + 1 ELSE s.at
      to == Upto(t, from, META \cup Stops)
      str == SubSeq(t, from, to - 1)
      n == FoldLeft(LAMBDA v, d : 10 * v + Digit[d], 0, str)
      kept == [s EXCEPT !.at = to, !.sub.lhs = str]
      end == Upto(t, s.at + 1, {"?", "\n"})
      what == SubSeq(t, s.at + 1, end - 1)
      asked == [s EXCEPT !.at = IF t[end] = "?" THEN end + 1 ELSE end, !.sub.lhs = IF what = <<>> THEN @ ELSE what]
  IN CASE c = "!" -> Numbered(Skip(s, 1), eventno)
       [] c \in {":", "^", "$", "*", "%"} -> Numbered(s, eventno)
       [] c = "?" -> IF asked.sub.lhs = <<>> THEN [s |-> Fail(asked, "NOSEARCH"), hp |-> NoHist]
                     ELSE findev(asked, asked.sub.lhs, TRUE)
       [] c \in {"(", "=", "~"} \/ (c \notin {"!", ":", "^", "$", "*", "%", "?"} /\ str = <<>>) ->
            [s |-> Fail(s, "literal"), hp |-> NoHist]
       [] OTHER -> IF ToSet(str) \subseteq DOMAIN Digit
                   THEN Numbered(kept, IF back THEN eventno + 1 - n ELSE n)
                   ELSE LET p == IF back THEN <<"-">> \o str ELSE str
                        IN findev([kept EXCEPT !.sub.lhs = p], p, FALSE)

(* getsel(): one end of the range of words, or both ends when it is the first.
   What - $ or * follows is not checked. *)
getsel(s, t, dol) ==
  LET c == t[s.at]
      first == s.al < 0
      to == Past(t, s.at, DOMAIN Digit)
      n == FoldLeft(LAMBDA v, d : 10 * v + Digit[d], 0, SubSeq(t, s.at, to - 1))
      set(al, ar, at) == [s EXCEPT !.al = IF first THEN al ELSE @, !.ar = ar, !.at = at]
      r == CASE c = "%" -> set(s.ques, s.ques, s.at + 1)
             [] c = "-" /\ first -> set(0, dol - 1, s.at)
             [] c = "-" /\ ~first -> Skip(s, 1)
             [] c = "^" -> set(1, 1, s.at + 1)
             [] c = "$" -> set(dol, dol, s.at + 1)
             [] c = "*" -> set(1, dol, s.at + 1)
             [] c \in DOMAIN Digit -> set(n, n, to)
             [] OTHER -> set(0, IF first THEN dol ELSE dol - 1, s.at)
  IN IF c = "%" /\ s.ques = -1 THEN Fail(s, "BADBANGARG")
     ELSE IF c = "-" THEN r
     ELSE IF r.ar < r.al /\ c = "*" THEN [r EXCEPT !.al = 1, !.ar = 0]
     ELSE IF first /\ t[r.at] \in {"-", "$", "*"} THEN r
     ELSE IF r.al > r.ar \/ r.ar > dol THEN Fail(r, "BADBANGARG") ELSE r

LastOf(w, c) == SelectLastInSeq(w, LAMBDA x : x = c)
(* domod(): the head, tail, root, extension or a change of case of a word. *)
domod(w, m) ==
  LET slash == LastOf(w, "/")
      dot == IF LastOf(w, ".") > slash THEN LastOf(w, ".") ELSE 0
      low == SelectInSeq(w, LAMBDA x : x \in DOMAIN Upper)
      up == SelectInSeq(w, LAMBDA x : x \in {Upper[c] : c \in DOMAIN Upper})
  IN CASE m = "h" -> IF slash = 0 THEN w ELSE SubSeq(w, 1, slash - 1)
       [] m = "t" -> SubSeq(w, slash + 1, Len(w))
       [] m = "r" -> IF dot = 0 THEN w ELSE SubSeq(w, 1, dot - 1)
       [] m = "e" -> IF dot = 0 THEN <<>> ELSE SubSeq(w, dot + 1, Len(w))
       [] m = "u" -> IF low = 0 THEN w ELSE [w EXCEPT ![low] = Upper[@]]
       [] m = "l" -> IF up = 0 THEN w ELSE [w EXCEPT ![up] = CHOOSE c \in DOMAIN Upper : Upper[c] = @]

\* What replaces the string: & is the string, \& an ampersand.
Replacement(b) ==
  LET r == b.rhs
      quoted(i) == i > 1 /\ r[i] = "&" /\ r[i - 1] = "\\"
      sign(i) == i < Len(r) /\ r[i] = "\\" /\ r[i + 1] = "&"
  IN FlattenSeq([i \in 1 .. Len(r) |-> IF sign(i) THEN <<>> ELSE IF r[i] = "&" /\ ~quoted(i) THEN b.lhs ELSE <<r[i]>>])

\* Mutant: with :a, what was put in is looked at again.
subwordAgain(w, m, b, pos) ==
  LET hit == SelectInSeq([i \in 1 .. Len(w) |-> i], LAMBDA i : matchs(w, i, b.lhs))
      with == Replacement(b)
  IN IF m \notin {"s", "&"} THEN [w |-> domod(w, m), did |-> TRUE, pos |-> pos]
     ELSE IF hit = 0 THEN [w |-> w, did |-> FALSE, pos |-> pos]
     ELSE [w |-> SubSeq(w, 1, hit - 1) \o with \o SubSeq(w, hit + Len(b.lhs), Len(w)), did |-> pos < 4, pos |-> pos + 1]
(* subword(): one modification of a word, a substitution from pos on. *)
subword(w, m, b, pos) ==
  LET hit == SelectInSeq([i \in 1 .. Len(w) |-> i], LAMBDA i : i >= pos /\ matchs(w, i, b.lhs))
      with == Replacement(b)
  IN IF m \notin {"s", "&"} THEN [w |-> domod(w, m), did |-> TRUE, pos |-> pos]
     ELSE IF hit = 0 THEN [w |-> w, did |-> FALSE, pos |-> pos]
     ELSE [w |-> SubSeq(w, 1, hit - 1) \o with \o SubSeq(w, hit + Len(b.lhs), Len(w)),
           did |-> TRUE, pos |-> hit + Len(with)]
RECURSIVE All(_, _, _, _)
\* :a, again until nothing changes.
Again(r, w, m, b) == IF ~r.did \/ r.w = w THEN r.w ELSE All(r.w, m, b, r.pos)
All(w, m, b, pos) == Again(subword(w, m, b, pos), w, m, b)

(* dosub(): the first word that can be changed, or each of them with g. *)
dosub(ws, m, b, flags) ==
  LET can(k) == subword(ws[k], m, b, 1).did
      first == SelectInSeq(ws, LAMBDA w : subword(w, m, b, 1).did)
      one(w) == IF "a" \in flags THEN All(w, m, b, 1) ELSE subword(w, m, b, 1).w
  IN [words |-> [k \in 1 .. Len(ws) |-> IF can(k) /\ (k = first \/ "g" \in flags) THEN one(ws[k]) ELSE ws[k]],
      did |-> first # 0]

(* One side of :s: up to the delimiter or the end of the line; a backslash takes
   its meaning from the delimiter (and, on the left, from itself). *)
Side(t, i, delim, plain) ==
  LET quoted[k \in i .. Len(t)] == k > i /\ t[k - 1] = "\\" /\ ~quoted[k - 1]
      end == CHOOSE j \in i .. Len(t) : ~quoted[j] /\ t[j] \in {delim, "\n"}
               /\ \A k \in i .. j - 1 : quoted[k] \/ t[k] \notin {delim, "\n"}
      gone(k) == k + 1 < end + 1 /\ t[k] = "\\" /\ ~quoted[k] /\ t[k + 1] \in {delim} \cup plain
  IN [text |-> FlattenSeq([k \in 1 .. end - i |-> IF gone(i + k - 1) THEN <<>> ELSE <<t[i + k - 1]>>]),
      at |-> IF t[end] = "\n" THEN end ELSE end + 1]

Remember(b) == [b EXCEPT !.slhs = b.lhs]
\* What a modifier does to the words of the reference, if there are any.
change(s, m, flags) ==
  LET d == dosub(s.ws, m, s.sub, flags)
      past == [s EXCEPT !.sub = Remember(s.sub)]
  IN IF s.n = 0 THEN past ELSE IF d.did THEN [past EXCEPT !.ws = d.words] ELSE Fail(past, "MODFAIL")
\* :s with its left side l read; an empty one is the string looked for last.
substitute(s, l, t, delim, flags) ==
  LET lhs == IF l.text = <<>> THEN s.sub.lhs ELSE l.text
      r == Side(t, l.at, delim, {})
  IN IF lhs = <<>> THEN Fail([s EXCEPT !.at = l.at], "LHS")
     ELSE change([s EXCEPT !.at = r.at, !.sub.lhs = lhs, !.sub.rhs = r.text], "s", flags)
(* getsub(): one modifier at s.at, after its colon.  Whatever it is, lhsb becomes
   the string that :& looks for. *)
getsub(s, t) ==
  LET to == Past(t, s.at, {"g", "a"})
      m == t[to]
      flags == ToSet(SubSeq(t, s.at, to - 1))
      delim == t[to + 1]
      past == [s EXCEPT !.at = to + 1]
  IN CASE m = "p" -> past
       [] m = "&" /\ s.sub.slhs = <<>> -> Fail(past, "NOSUBST")
       [] m = "&" /\ s.sub.slhs # <<>> -> change([past EXCEPT !.sub.lhs = s.sub.slhs], m, flags)
       [] m = "s" -> IF delim \in Letter \cup DOMAIN Digit \cup {" ", "\n"} THEN Fail([past EXCEPT !.sub.lhs = <<>>], "BADSUBST")
                     ELSE substitute(s, Side(t, to + 2, delim, {"\\"}), t, delim, flags)
       [] m \in {"h", "r", "t", "e", "u", "l"} -> change(past, m, flags)
       [] OTHER -> Fail(IF m = "\n" THEN [s EXCEPT !.at = to] ELSE past, "BADBANGMOD")
RECURSIVE getsubs(_, _)
NextSub(s, t) == IF t[s.at] = ":" THEN getsubs(Skip(s, 1), t) ELSE s
getsubs(s, t) == NextSub(getsub(s, t), t)

(* The words a reference selects, both ends of the range; all of them when no
   selector follows the event. *)
getsel2(one, t, dol) ==
  IF one.err # "" \/ t[one.at] \notin {"*", "-"} THEN one ELSE getsel(IF t[one.at] = "-" THEN Skip(one, 1) ELSE one, t, dol)
Select(s, t, dol) ==
  LET c == t[s.at]
      colon == c = ":" /\ t[s.at + 1] \notin Letter \cup {"&"}
  IN IF t[1] # "^" /\ (colon \/ c \in {"^", "$", "*", "-", "%"}) THEN getsel2(getsel(IF colon THEN Skip(s, 1) ELSE s, t, dol), t, dol)
     ELSE [s EXCEPT !.al = 0, !.ar = dol]
\* They are taken from a ring: the event's line with its newline and its head.
Pick(s, ring) == LET n == s.ar - s.al + 1 IN [s EXCEPT !.n = n, !.ws = [k \in 1 .. n |-> ring[((s.al + k) % Len(ring)) + 1]]]
Modify(s, t) == NextSub(s, IF t[1] = "^" THEN <<":", "s">> \o t ELSE t)
Braced(t) == t[1] = "!" /\ t[2] = "{"
Close(s, t) == IF ~Braced(t) THEN s ELSE IF t[s.at] # "}" THEN Fail(s, "BADBANG") ELSE Skip(s, 1)
Selected(s, hp, t) == IF s.err # "" THEN s ELSE Close(Modify(Pick(s, <<<<>>>> \o hp.words \o <<<<>>>>), t), t)
Found(g, t) == IF g.s.err # "" THEN g.s ELSE Selected(Select(g.s, t, Len(g.hp.words) - 1), g.hp, t)
(* getexcl(): the reference that begins after the ! at the front of t, or the ^
   that begins a line: the event, the words and the modifiers. *)
getexcl(t, b) ==
  LET s0 == [at |-> IF Braced(t) THEN 3 ELSE IF t[1] = "^" THEN 1 ELSE 2, err |-> "", ques |-> -1, al |-> -1, ar |-> -1, n |-> 0, ws |-> <<>>, sub |-> b]
  IN Found(IF t[1] = "^" THEN [s |-> s0, hp |-> History[1]] ELSE gethent(s0, t), t)

Init == sub = [lhs |-> <<>>, slhs |-> <<>>, rhs |-> <<>>] /\ got = [words |-> <<>>, err |-> "", rest |-> <<>>]
\* A line with a reference is typed: t begins with its ! or ^.
Refer(t) ==
  \E r \in {getexcl(t, sub)} :
     LET rest == IF t[1] = "^" THEN r.at - 2 ELSE r.at
     IN /\ sub' = r.sub
        /\ got' = [words |-> IF r.err = "" THEN r.ws ELSE <<>>, err |-> r.err, rest |-> IF r.err = "" THEN SubSeq(t, rest, Len(t)) ELSE <<>>]

---------------------------------------------------------------------------------
(* Two history references, one after the other, written in every form of the
   manual (tcsh.man.in, History substitution), against what the manual says. *)
VARIABLES mem,   \* what the manual remembers: the last string, the last substitution
          ref    \* the last reference and what it means
vars == <<histVars, mem, ref>>

(* A reference: event, words x op y, modifiers, braces, and what follows it. *)
Events == {<<"!">>, <<"^">>, <<>>, <<"1">>, <<"2">>, <<"9">>, <<"-", "1">>, <<"-", "3">>, <<"b">>, <<"a", "/">>, <<"c">>, <<"?", "b", ".", "?">>, <<"?", "b", "?">>}
Sel(x, op, y) == [x |-> x, op |-> op, y |-> y]
Words == {Sel(x, "", "") : x \in {"", "0", "2", "^", "$", "%"}} \cup {Sel(x, "*", "") : x \in {"", "1", "$"}}
           \cup {Sel(x, "-", y) : x \in {"", "1"}, y \in {"", "1", "$"}}
Mod(f, m, l, r) == [f |-> f, m |-> m, l |-> l, r |-> r]
S == {Mod(<<>>, "s", <<"a">>, <<"b", "&">>), Mod(<<"g">>, "s", <<>>, <<>>), Mod(<<"a">>, "s", <<"a">>, <<"a", "a">>), Mod(<<"g", "a">>, "s", <<"a">>, <<"b">>)}
Amp == Mod(<<>>, "&", <<>>, <<>>)
Mods == {<<>>, <<Mod(<<"g">>, "h", <<>>, <<>>)>>, <<Mod(<<"g">>, "t", <<>>, <<>>), Mod(<<"g">>, "r", <<>>, <<>>)>>, <<Mod(<<"g", "a">>, "u", <<>>, <<>>)>>, <<Amp>>}
          \cup {<<m>> : m \in S} \cup {<<m, Amp>> : m \in S}
Refs == {r \in [ev : Events, sel : Words, mods : Mods, brace : BOOLEAN, tail : {"\n", "c", "$"}] :
           /\ r.brace => r.tail = "c"
           /\ r.ev = <<"^">> => r.sel = Sel("", "", "") /\ ~r.brace /\ Len(r.mods) = 1 /\ r.mods[1].m = "s" /\ r.mods[1].f = <<>>
           /\ r.sel.op = "-" /\ r.sel.y = "" => r.tail # "$" \/ r.mods # <<>>
           /\ r.brace => Len(r.mods) < 2 /\ r.sel.op = ""
           /\ r.ev \in {<<"1">>, <<"9">>, <<"-", "1">>, <<"-", "3">>, <<"c">>, <<"a", "/">>} => Len(r.mods) < 2 /\ r.sel.y = ""
           /\ r.tail = "$" => r.sel.x # "" \/ r.sel.op # ""
           /\ r.ev = <<>> => r.sel.op # "-" /\ (r.sel.x # "" \/ r.sel.op = "*" \/ r.mods # <<>>)
           /\ r.tail = "c" /\ ~r.brace => r.mods # <<>> \/ r.sel.x # "" \/ r.sel.op # ""}
(* The references of the first line: those that leave different things behind. *)
First == {r \in Refs : r.ev \in {<<"!">>, <<"2">>, <<"b">>} /\ r.sel = Sel("", "", "") /\ ~r.brace /\ r.tail = "\n" /\ r.ev # <<>>}

Colon(sel) == IF sel.x = "" /\ sel.op = "" THEN <<>> ELSE IF sel.x \in {"0", "1", "2"} THEN <<":">> ELSE <<>>
Str(c) == IF c = "" THEN <<>> ELSE <<c>>
Typed(r) == IF r.ev = <<"^">> THEN <<"^">> \o r.mods[1].l \o <<"^">> \o r.mods[1].r \o <<"^", r.tail>> \o (IF r.tail = "\n" THEN <<>> ELSE <<"\n">>)
            ELSE <<"!">> \o (IF r.brace THEN <<"{">> ELSE <<>>) \o r.ev \o Colon(r.sel) \o Str(r.sel.x) \o Str(r.sel.op) \o Str(r.sel.y)
            \o FlattenSeq([k \in 1 .. Len(r.mods) |-> <<":">> \o r.mods[k].f \o <<r.mods[k].m>>
                 \o IF r.mods[k].m = "s" THEN <<"/">> \o r.mods[k].l \o <<"/">> \o r.mods[k].r \o <<"/">> ELSE <<>>])
            \o (IF r.brace THEN <<"}">> ELSE <<>>) \o <<r.tail>> \o (IF r.tail = "\n" THEN <<>> ELSE <<"\n">>)

(* The manual: the event, ... *)
Bad == [num |-> -1, words |-> <<>>]
HasIn(p, w) == \E i \in 0 .. Len(w) - Len(p) : SubSeq(w, i + 1, i + Len(p)) = p
Newest(P(_)) == IF \E e \in ToSet(History) : P(e) THEN CHOOSE e \in ToSet(History) : P(e) /\ \A f \in ToSet(History) : P(f) => f.num <= e.num ELSE Bad
What(ev) == SelectSeq(ev, LAMBDA c : c # "?")
EventOf(ev) ==
  CASE ev \in {<<>>, <<"!">>, <<"^">>} -> History[1]
    [] ev \in {<<"1">>, <<"2">>, <<"9">>} -> Newest(LAMBDA e : e.num = Digit[ev[1]])
    [] Head(ev) = "-" -> Newest(LAMBDA e : e.num = 4 - Digit[ev[2]])
    [] Head(ev) = "?" -> Newest(LAMBDA e : \E w \in ToSet(e.words) : HasIn(What(ev), w))
    [] OTHER -> Newest(LAMBDA e : IsPrefix(ev, e.words[1]))
(* ... the words, ... *)
Nth(x, r, e) == LET hit == {k \in 1 .. Len(e.words) : r.ev # <<>> /\ Head(r.ev) = "?" /\ HasIn(What(r.ev), e.words[k])}
                IN CASE x = "^" -> 1 [] x = "$" -> Len(e.words) - 1 [] x \in DOMAIN Digit -> Digit[x]
                     [] x = "%" -> IF hit = {} THEN 99 ELSE (CHOOSE k \in hit : \A j \in hit : k <= j) - 1
Span(r, e) ==
  LET last == Len(e.words) - 1
      x == IF r.sel.x = "" THEN IF r.sel.op = "*" THEN 1 ELSE 0 ELSE Nth(r.sel.x, r, e)
      y == CASE r.sel.op = "*" -> last [] r.sel.op = "-" -> IF r.sel.y = "" THEN last - 1 ELSE Nth(r.sel.y, r, e)
             [] OTHER -> IF r.sel.x = "" THEN last ELSE x
  IN [x |-> x, y |-> y, bad |-> x = 99 \/ (r.sel.op # "*" /\ (x > y \/ y > last))]
(* ... and the modifiers: a word they can do something for. *)
Changed(w, m, l, r) ==
  LET hits == {i \in 1 .. Len(w) - Len(l) + 1 : SubSeq(w, i, i + Len(l) - 1) = l}
      at == CHOOSE i \in hits : \A j \in hits : i <= j
      with == FlattenSeq([k \in 1 .. Len(r) |-> IF r[k] = "&" THEN l ELSE <<r[k]>>])
  IN IF m = "s" THEN IF hits = {} THEN w ELSE SubSeq(w, 1, at - 1) \o with \o SubSeq(w, at + Len(l), Len(w)) ELSE domod(w, m)
RECURSIVE Everywhere(_, _, _, _), Modified(_, _, _)
Everywhere(w, m, l, r) ==
  LET hits == {i \in 1 .. Len(w) - Len(l) + 1 : SubSeq(w, i, i + Len(l) - 1) = l}
      at == CHOOSE i \in hits : \A j \in hits : i <= j
      with == FlattenSeq([k \in 1 .. Len(r) |-> IF r[k] = "&" THEN l ELSE <<r[k]>>])
  IN IF m # "s" THEN IF domod(w, m) = w THEN w ELSE Everywhere(domod(w, m), m, l, r)
     ELSE IF hits = {} THEN w ELSE SubSeq(w, 1, at - 1) \o with \o Everywhere(SubSeq(w, at + Len(l), Len(w)), m, l, r)
Modified(ws, mods, me) ==
  IF mods = <<>> THEN [ws |-> ws, bad |-> FALSE, mem |-> me]
  ELSE LET m == mods[1]
           mm == IF m.m = "&" THEN "s" ELSE m.m
           l == IF m.m = "&" THEN me.l ELSE IF m.l = <<>> THEN me.last ELSE m.l
           r == IF m.m = "&" THEN me.r ELSE m.r
           can(w) == mm # "s" \/ HasIn(l, w)
           first == SelectInSeq(ws, can)
           new(w) == IF "a" \in ToSet(m.f) THEN Everywhere(w, mm, l, r) ELSE Changed(w, mm, l, r)
           nm == IF mm = "s" THEN [last |-> l, l |-> l, r |-> r] ELSE me
           ws2 == [k \in 1 .. Len(ws) |-> IF can(ws[k]) /\ (k = first \/ "g" \in ToSet(m.f)) THEN new(ws[k]) ELSE ws[k]]
       IN IF (mm = "s" /\ l = <<>>) \/ (ws # <<>> /\ first = 0) THEN [ws |-> <<>>, bad |-> TRUE, mem |-> IF l = <<>> THEN me ELSE nm]
          ELSE Modified(ws2, Tail(mods), nm)
Meaning(r, me) ==
  LET e == EventOf(r.ev)
      sp == Span(r, e)
      me2 == IF r.ev \in {<<>>, <<"!">>, <<"^">>} THEN me ELSE [me EXCEPT !.last = IF r.ev[1] = "-" THEN Tail(r.ev) ELSE What(r.ev)]
      m == Modified(SubSeq(e.words, sp.x + 1, sp.y + 1), r.mods, me2)
  IN IF e = Bad \/ sp.bad THEN [ws |-> <<>>, bad |-> TRUE, mem |-> me2] ELSE m

MCInit == Init /\ mem = [last |-> <<>>, l |-> <<>>, r |-> <<>>] /\ ref = <<>>
Say(r) == /\ Refer(Typed(r))
          /\ \E m \in {Meaning(r, mem)} : mem' = m.mem /\ ref' = <<r, m, sub.slhs = mem.l, ref = <<>>>>
MCNext == \E r \in (CASE ref = <<>> -> First [] ref # <<>> /\ ref[4] -> Refs [] OTHER -> {}) : Say(r)
MCSpec == MCInit /\ [][MCNext]_vars

(* Out of the manual's words: a single number that $ follows is not checked (a
   run of its own), and :& when something else was looked for (the same). *)
Plain(r) == /\ ~(r.tail = "$" /\ ~r.brace /\ r.mods = <<>> /\ r.sel.op = "" /\ r.sel.x # "")
            /\ ref[3] \/ \A k \in 1 .. Len(r.mods) : r.mods[k].m = "&" => \E j \in 1 .. k - 1 : r.mods[j].m = "s"
(* Every reference puts into the line what the manual says: the words of the
   event it names, changed by its modifiers, and what follows it is left alone;
   it fails where the manual says that there is nothing (sh.lex.c:719). *)
Agrees(r, m) == /\ (got.err # "") = m.bad
                /\ ~m.bad => got.words = m.ws /\ got.rest[1] = r.tail
RefersAsManual == ref # <<>> /\ Plain(ref[1]) => Agrees(ref[1], ref[2])
=================================================================================
