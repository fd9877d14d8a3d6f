----------------------------------- MODULE Lex -----------------------------------
(* The lexer (sh.lex.c): a line into words, the references to variables kept in
   one piece, and the lines of a saved history with the times written before
   them. *)
EXTENDS Integers, Sequences, SequencesExt, TLC

VARIABLES file,   \* the lines of the history file not read yet
          Htime,  \* the time read from a #+ line, for the next event
          events  \* [line, words, time]: what was entered, oldest first
lexVars == <<file, Htime, events>>

HIST == "!"
\* Mutant: a # in a word of a script is no comment.
METAless == {" ", "\n", "&", "|", "(", ")", ";", "<", ">", "bq"}
META == {" ", "\n", "#", "&", "|", "(", ")", ";", "<", ">", "bq"}
SQ == "'"
QUOTES == {SQ, "\"", "bq"}
Letter == {"a", "h", "s"}
Digit == {"0", "1"}
Modifier == {"h", "s"}

(* A word holds its characters with the QUOTE bit.  s: the place in the line t,
   the word so far, the quote it is in, the time of a #+ line. *)
P(c) == <<c, FALSE>>
Q(c) == <<c, TRUE>>
Put(s, cs, n) == [s EXCEPT !.at = @ + n, !.w = @ \o cs]
Fail(s, e) == IF s.err = "" THEN [s EXCEPT !.err = e] ELSE s
Next1(t, i, S) == CHOOSE j \in i .. Len(t) : t[j] \in S /\ \A k \in i .. j - 1 : t[k] \notin S
Not(t, i, S) == CHOOSE j \in i .. Len(t) : t[j] \notin S /\ \A k \in i .. j - 1 : t[k] \in S

End(j) == [to |-> j, err |-> ""]
Bad(j, e) == [to |-> j, err |-> e]
(* One modifier after the colon at i.  What should be its letter is taken into
   the reference whatever it is, the end of the line too, and :s looks for its
   delimiter in the lines that follow. *)
getmod(t, i) ==
  LET m == IF t[i + 1] \in {"g", "a"} THEN IF t[i + 2] \in {"g", "a"} \ {t[i + 1]} THEN i + 3 ELSE i + 2 ELSE i + 1
      mid == Next1(t, m + 2, {t[m + 1], "\n"})
      end == Next1(t, mid + 1, {t[m + 1], "\n"})
  IN IF t[m] \notin Modifier THEN IF t[m] = "\n" /\ m > i + 1 THEN Bad(m, "VARSYN") ELSE Bad(m + 1, "BADMOD")
     ELSE IF t[m] # "s" THEN End(m + 1)
     ELSE IF t[m + 1] \in Letter \cup Digit \cup {" ", "\n"} THEN Bad(m + 2, "BADSUBST")
     ELSE IF t[mid] = "\n" \/ t[end] = "\n" THEN Bad(Len(t) + 1, "BADSUBST")
     ELSE End(end + 1)
RECURSIVE getmods(_, _)
getmods(t, r) == IF r.err = "" /\ t[r.to] = ":" THEN getmods(t, getmod(t, r.to)) ELSE r
RECURSIVE closing(_, _)
\* The ' that ends a $'...' from place j on, not one behind a backslash; or the newline.
closing(t, j) == IF t[j] \in {"\n", SQ} THEN j ELSE closing(t, IF t[j] = "\\" /\ t[j + 1] # "\n" THEN j + 2 ELSE j + 1)
(* getdol(): the place after the reference to a variable that begins with the $
   at i, and what is wrong with it. *)
getdol(t, i) ==
  LET brace == t[i + 1] = "{"
      a == IF brace THEN i + 2 ELSE i + 1
      special == t[a] \in {"#", "?", "%"}
      n == IF special THEN a + 1 ELSE a
      name == Not(t, n, IF t[n] \in Digit THEN Digit ELSE Letter \cup Digit)
      close == Next1(t, name, {"]", "\n"})
      sub == IF t[name] # "[" THEN End(name) ELSE IF t[close] = "\n" THEN Bad(close, "NLINDEX") ELSE End(close + 1)
      mods == getmods(t, sub)
      str == closing(t, i + 2)
      closed == IF mods.err # "" \/ ~brace THEN mods
                ELSE IF t[mods.to] = "}" THEN End(mods.to + 1) ELSE Bad(mods.to, "MISSING")
  IN CASE t[i + 1] = SQ -> IF t[str] = SQ THEN End(str + 1) ELSE Bad(str, "MISSING")
       [] t[i + 1] # SQ /\ t[n] \in {"$", HIST} -> IF special THEN Bad(n + 1, "SPDOLLT") ELSE End(n + 1)
       [] t[n] = "<" -> End(n + 1)
       [] t[n] = "\n" -> IF special THEN End(n) ELSE Bad(n, "NEWLINE")
       [] t[n] = "*" -> IF special THEN Bad(n + 1, "SPSTAR") ELSE End(n + 1)
       [] t[n] \in Letter \cup Digit -> closed
       [] OTHER -> IF special THEN End(n) ELSE Bad(n + 1, "VARILL")
\* addla(): the text of the reference goes back into the input, its special characters quoted.
addla(t, i, j) == [k \in 1 .. j - i |-> IF k > 1 /\ t[i + k - 1] \in META \cup QUOTES THEN Q(t[i + k - 1]) ELSE P(t[i + k - 1])]

RECURSIVE body(_, _, _)
\* A reference to a variable, dol being its end, in a word.
reference(t, s, io, dol) ==
  IF dol.to > Len(t) THEN Fail([s EXCEPT !.more = TRUE], dol.err)
  ELSE body(t, Put(IF dol.err = "" THEN s ELSE Fail(s, dol.err), addla(t, s.at, dol.to), dol.to - s.at), io)
(* The rest of a word: to a metacharacter, a # in a script included, that is
   neither quoted nor behind a backslash. *)
body(t, s, io) ==
  LET c == t[s.at]
      d == t[s.at + 1]
  IN IF s.at > Len(t) THEN Fail([s EXCEPT !.more = TRUE], "more")
     ELSE IF c = "$" /\ s.c1 \in {"", "\""} THEN
       IF d \in {" ", "\n"} THEN body(t, Put(s, <<Q("$")>>, 1), io) ELSE reference(t, s, io, getdol(t, s.at))
     ELSE IF s.c1 # "" THEN
       CASE c = s.c1 -> body(t, [Put(s, <<P(c)>>, 1) EXCEPT !.c1 = ""], io)
         [] c = "\\" -> IF d \in {HIST} \ io.nohist THEN body(t, Put(s, <<Q(HIST)>>, 2), io)
                        ELSE IF d = "\n" THEN body(t, Put(s, <<Q("\\"), Q("\n")>>, 2), io)
                        ELSE IF d = "$" THEN body(t, Put(s, <<Q("\\"), P("$")>>, 2), io)
                        ELSE body(t, Put(s, <<Q("\\")>>, 1), io)
         [] c = "\n" -> Fail(s, "UNMATCHED")
         [] OTHER -> body(t, Put(s, <<P(c)>>, 1), io)
     ELSE
       CASE c = "\\" -> IF d = "\n" THEN [s EXCEPT !.at = @ + 2]
                        ELSE body(t, Put(s, IF d \in {HIST} \ io.nohist THEN <<Q(d)>> ELSE <<P("\\"), Q(d)>>, 2), io)
         [] c \in QUOTES -> body(t, [Put(s, <<P(c)>>, 1) EXCEPT !.c1 = c], io)
         [] c \in META /\ ~(c = "#" /\ (io.intty \/ io.enterhist)) -> s
         [] OTHER -> body(t, Put(s, <<P(c)>>, 1), io)

Num(cs) == FoldLeft(LAMBDA v, c : 10 * v + (IF c = "1" THEN 1 ELSE 0), 0, cs)
(* What is read of a time: as many characters behind the # as a time has, the
   newline among them where the line is shorter.  Abstraction: a time has two
   digits here, ten in the code. *)
hbuf(t, at) == SubSeq(t, at + 1, IF Len(t) < at + 3 THEN Len(t) ELSE at + 3)
\* a2time_t(): a time is + and digits, as many as there must be.
a2time_t(cs) == IF cs[1] = "+" /\ Len(cs) = 3 /\ ToSet(Tail(cs)) \subseteq Digit THEN Num(Tail(cs)) ELSE 0
RECURSIVE word(_, _, _)
(* word(): blanks, then an operator, a comment (kept at a terminal, otherwise
   skipped with the newline, its time read in a saved history, and the line after
   it read on where it ends in a backslash), or a word. *)
word(t, s, io) ==
  LET at == Not(t, s.at, {" "})
      c == t[at]
      z == [s EXCEPT !.at = at, !.w = <<>>, !.c1 = ""]
      eol == Next1(t, at, {"\n"})
      skipped == [z EXCEPT !.at = eol + 1, !.htime = IF io.first THEN a2time_t(hbuf(t, at)) ELSE @]
  IN IF s.at > Len(t) THEN [s EXCEPT !.more = TRUE] ELSE
     CASE c \in {"&", "|", "<", ">"} -> IF t[at + 1] = c THEN Put(z, <<P(c), P(c)>>, 2) ELSE Put(z, <<P(c)>>, 1)
       [] c \in {";", "(", ")", "\n"} -> Put(z, <<P(c)>>, 1)
       [] c = "#" /\ (~io.enterhist \/ io.first) ->
            IF io.intty THEN Put(z, [k \in 1 .. eol - at |-> P(t[at + k - 1])], eol - at)
            ELSE IF t[eol - 1] = "\\" THEN word(t, skipped, io)
            ELSE [skipped EXCEPT !.w = <<P("\n")>>]
       [] c = "\\" /\ t[at + 1] = "\n" -> word(t, [z EXCEPT !.at = at + 2], io)
       [] c = "#" -> body(t, Put(z, <<P(c)>>, 1), io)
       [] OTHER -> body(t, z, io)
RECURSIVE words(_, _, _, _)
nextword(t, r, io, ws) ==
  IF r.more \/ r.w = <<P("\n")>> THEN [words |-> ws, err |-> r.err, htime |-> r.htime, more |-> r.more]
  ELSE words(t, r, [io EXCEPT !.first = FALSE], Append(ws, r.w))
words(t, s, io, ws) == nextword(t, word(t, s, io), io, ws)
(* lex(): the words of a line, without the newline that ends them. *)
lex(t, io) == words(t, [at |-> 1, w |-> <<>>, c1 |-> "", err |-> "", more |-> FALSE, htime |-> -1], io, <<>>)
Tty == [intty |-> TRUE, enterhist |-> FALSE, first |-> FALSE, nohist |-> {}]
Script == [Tty EXCEPT !.intty = FALSE]
Saved == [intty |-> FALSE, enterhist |-> TRUE, first |-> TRUE, nohist |-> {HIST}]

(* prlex(): the words with a blank between them, as a saved history has them. *)
prlex(ws) == FlattenSeq([k \in 1 .. Len(ws) |-> (IF k = 1 THEN <<>> ELSE <<" ">>) \o [j \in 1 .. Len(ws[k]) |-> ws[k][j][1]]]) \o <<"\n">>

Init == Htime = 0 /\ events = <<>>
Enter(r, time) ==
  IF r.words = <<>> THEN Htime' = time /\ UNCHANGED events
  ELSE events' = Append(events, [line |-> file[1], words |-> r.words, time |-> time, typed |-> FALSE]) /\ Htime' = 0
(* A line of a saved history is read: a #+ line gives the next one its time.  Bound:
   no line of Files goes on in the next one. *)
EnterSaved ==
  /\ file # <<>>
  /\ file' = Tail(file)
  /\ \E r \in {lex(file[1], Saved)} : Enter(r, IF r.htime # -1 THEN r.htime ELSE Htime)
\* A line is typed after that.
EnterTyped(t) ==
  /\ file = <<>>
  /\ \E r \in {lex(t, Tty)} :
       /\ r.words # <<>> /\ ~r.more
       /\ events' = Append(events, [line |-> t, words |-> r.words, time |-> Htime, typed |-> TRUE])
  /\ Htime' = 0
  /\ UNCHANGED file

---------------------------------------------------------------------------------
(* Short lines lexed at a terminal, in a script and as a saved history. *)
VARIABLES line,   \* the line that is lexed
          source  \* the whole history file
vars == <<lexVars, line, source>>

Lines(A, n) == UNION {[1 .. k -> A] : k \in 0 .. n}
Plain == {"a", " ", "&", "'", "\"", "\\", "#"}
Dol == {"$", "a", "{", "}", "[", "]", ":", "h", "'", " "}
Ended(t) == t \o <<"\n">>
Files == {<<Ended(<<"#", "+", "0", "1">>), Ended(<<"a">>), Ended(<<"a", "h">>)>>,
          <<Ended(<<"#", "+", "1", "1">>), Ended(<<"#", "a">>), Ended(<<"a">>), Ended(<<"#", "+", "1", "0">>), Ended(<<"a", "'">>)>>,
          <<Ended(<<"a">>), Ended(<<"#", "+", "0", "1">>)>>}

\* A quote and a dollar behind a backslash, and a comment of a script that goes on.
Escapes == {Ended(<<"$", SQ, "\\", SQ>> \o t) : t \in Lines({SQ, "a", " "}, 2)} \cup {Ended(<<"\"", "\\", "$">> \o t) : t \in Lines({"{", "a", "\""}, 2)}
           \cup {Ended(<<"#", "\\">>) \o Ended(t) : t \in Lines({"a", " ", "#"}, 2)}

MCInit == /\ Init
          /\ \/ file = <<>> /\ line \in {Ended(t) : t \in Lines(Plain, 5)} \cup {Ended(<<"$">> \o t) : t \in Lines(Dol, 3)} \cup Escapes
             \/ file \in Files /\ line = <<>>
          /\ source = file
MCNext == /\ UNCHANGED <<line, source>>
          /\ \/ EnterSaved
             \/ Len(events) <= Len(source) /\ EnterTyped(IF line = <<>> THEN Ended(<<"a">>) ELSE line)
MCSpec == MCInit /\ [][MCNext]_vars

(* What each character of a line is, from the left: in a quote, behind a
   backslash, in a comment, or at the top. *)
In(t, io) ==
  LET st[i \in 1 .. Len(t)] ==
        IF i = 1 THEN IF t[1] = "#" THEN "#" ELSE ""
        ELSE LET p == st[i - 1]
                 c == t[i - 1]
                 top == IF c = "\\" THEN "\\" ELSE IF c \in QUOTES THEN c ELSE ""
                 after == IF p \in QUOTES THEN IF c = p THEN "" ELSE p ELSE IF p = "\\" THEN "" ELSE top
                 start == c \in {" ", "&"} /\ p = ""
             IN IF p = "#" \/ (after = "" /\ t[i] = "#" /\ (start \/ ~io.intty)) THEN "#" ELSE after
  IN st
(* The line as words: the parts between blanks that are not quoted, with & and
   && on their own and a comment as one word (dropped in a script). *)
Split(t, io) ==
  LET st == In(t, io)
      n == Len(t) - 1
      amp(i) == t[i] = "&" /\ st[i] = ""
      blank(i) == t[i] = " " /\ st[i] = ""
      \* the first & of a pair: an even number of them right before it
      pair[i \in 0 .. Len(t)] == IF i = 0 THEN FALSE ELSE amp(i) /\ ~pair[i - 1] /\ i < n /\ amp(i + 1)
      starts(i) == ~blank(i) /\ (i = 1 \/ blank(i - 1) \/ (amp(i) # amp(i - 1)) \/ (amp(i) /\ amp(i - 1) /\ ~pair[i - 1])
                                  \/ (st[i] = "#" /\ st[i - 1] # "#"))
      kept(i) == io.intty \/ st[i] # "#"
      S == {i \in 1 .. n : starts(i) /\ kept(i)}
      last(i) == CHOOSE j \in i .. n : (\A k \in i + 1 .. j : ~blank(k) /\ ~starts(k)) /\ (j = n \/ blank(j + 1) \/ starts(j + 1))
  IN [k \in 1 .. Cardinality(S) |-> LET i == CHOOSE x \in S : Cardinality({y \in S : y < x}) = k - 1 IN SubSeq(t, i, last(i))]
Text(ws) == [k \in 1 .. Len(ws) |-> [j \in 1 .. Len(ws[k]) |-> ws[k][j][1]]]
Closed(t, io) == In(t, io)[Len(t)] \in {"", "#"}

(* A line is cut into words where blanks and operators are that neither quotes
   nor backslashes hide, at a terminal and in a script, where a comment that ends
   in a backslash gives way to the next line (sh.lex.c:268, 343). *)
CutsWords ==
  LET first == Next1(line, 1, {"\n"})
      next == SubSeq(line, first + 1, Len(line))
  IN line # <<>> /\ "$" \notin ToSet(line) =>
       IF next = <<>>
         THEN \A io \in {Tty, Script} : Closed(line, io) =>
                LET r == lex(line, io) IN r.err = "" /\ Text(r.words) = Split(line, io)
         ELSE Text(lex(line, Script).words) = Split(next, Script)
(* What is saved of a line (the words with blanks between them) is the same words
   when it is read back; not a line that is a comment, which is skipped. *)
ReadsBack == line # <<>> /\ "#" \notin ToSet(line) =>
               LET r == lex(line, Tty)
                   b == lex(prlex(r.words), Saved)
               IN r.err = "" => b.err = "" /\ Text(b.words) = Text(r.words)
(* A line of a saved history has the time of the #+ line just before it, and no
   other.  A #+ line at the end of the file gives its time to the first line that
   is typed, which has no time of its own then, and to no later one (sh.lex.c:341,
   sh.hist.c:981). *)
TimeBefore(i) == LET b == source[i - 1] IN IF i > 1 /\ b[1] = "#" THEN a2time_t(hbuf(b, 1)) ELSE 0
SavedTimes ==
  \A k \in 1 .. Len(events) :
    IF events[k].typed
      THEN events[k].time = IF k > 1 /\ events[k - 1].typed THEN 0 ELSE TimeBefore(Len(source) + 1)
      ELSE \E i \in 1 .. Len(source) : source[i] = events[k].line /\ events[k].time = TimeBefore(i)
=================================================================================
