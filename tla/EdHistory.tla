------------------------------ MODULE EdHistory ------------------------------
(***************************************************************************)
(* The commands of the editor that bring history lines into the buffer:    *)
(* moving through the list, searching it by pattern, expanding words from  *)
(* it and the prediction shown as ghost text (ed.chared.c).  e.Hist is     *)
(* Histlist, newest first: an entry has its words (Hlex) and the line as   *)
(* typed (histline), << >> when that was not kept.                         *)
(***************************************************************************)
EXTENDS EdBuffer, SequencesExt

CONSTANT Commands   \* the names that the directories of $PATH hold

-----------------------------------------------------------------------------
(* Lines of the list.                                                      *)

expand_lex(words, from, to) ==
  LET in == SubSeq(words, from + 1, Min({to + 1, Len(words)}))
  IN  FoldLeft(LAMBDA s, w : IF s = << >> THEN w ELSE s \o <<" ">> \o w, << >>, in)
sprlex(words) == expand_lex(words, 0, Len(words))

Event(words, line) == [words |-> words, histline |-> line]
Kept(h) == IF h.histline # << >> THEN h.histline ELSE sprlex(h.words)

(* copyn() to InputBuf and the end of what was copied.                     *)
Loaded(e, s) ==
  LET t == SubSeq(s, 1, Min({Len(s), INBUFSIZE - 1}))
  IN  [e EXCEPT !.InputBuf = Copied(@, 0, Append(t, NUL)), !.LastChar = Len(t), !.Cursor = Len(t)]

Terminated(e) == [e EXCEPT !.InputBuf = Copied(@, e.LastChar, <<NUL>>)]
Remembered(e) == [e EXCEPT !.HistBuf = UpToNul(e.InputBuf)]

GetHistLine(e) ==
  IF e.Hist_num = 0 THEN Rc(Loaded(e, e.HistBuf), "REFRESH")
  ELSE IF e.Hist = << >> THEN Rc(e, "ERROR")
  ELSE IF e.Hist_num > Len(e.Hist) THEN Rc([e EXCEPT !.Hist_num = Len(e.Hist)], "ERROR")
  ELSE LET h == e.Hist[e.Hist_num]
           lit == e.HistLit /\ h.histline # << >>
       IN  Rc([Loaded(e, IF lit THEN h.histline ELSE sprlex(h.words)) EXCEPT
                 !.CurrentHistLit = lit], "REFRESH")

(* The call that failed has set Hist_num to the oldest line.               *)
GetHistLineTwice(e) ==
  LET f == GetHistLine(e)
  IN  IF f.rc = "ERROR" THEN Rc(GetHistLine(f), "ERROR") ELSE Rc(f, "NORM")

(* The line typed so far is not saved before it is replaced.               *)
e_up_histUnsaved(e) ==
  GetHistLineTwice([Terminated(e) EXCEPT !.UndoAction = {}, !.Hist_num = @ + e.Argument])

e_up_hist(e) ==
  LET t == [Terminated(e) EXCEPT !.UndoAction = {}]
      s == IF e.Hist_num = 0 THEN Remembered(t) ELSE t
  IN  GetHistLineTwice([s EXCEPT !.Hist_num = @ + e.Argument])

e_down_hist(e) ==
  LET t == [Terminated(e) EXCEPT !.UndoAction = {}, !.Hist_num = @ - e.Argument]
  IN  IF t.Hist_num < 0 THEN Rc([t EXCEPT !.Hist_num = 0], "ERROR") ELSE GetHistLine(t)

(* The other form of the line, without the blank at its end.               *)
e_toggle_hist(e) ==
  LET h == e.Hist[e.Hist_num]
      s == IF e.CurrentHistLit THEN sprlex(h.words) ELSE h.histline
      f == Loaded(Terminated(e), s)
      end == IF f.LastChar > 0 /\ At(f.InputBuf, f.LastChar - 1) = " "
             THEN f.LastChar - 1 ELSE f.LastChar
  IN  IF e.Hist_num <= 0 \/ e.Hist = << >> THEN Rc(Terminated(e), "ERROR")
      ELSE IF ~e.CurrentHistLit /\ h.histline = << >> THEN Rc(Terminated(e), "ERROR")
      ELSE Rc([f EXCEPT !.LastChar = end, !.Cursor = end,
                        !.CurrentHistLit = ~e.CurrentHistLit], "REFRESH")

-----------------------------------------------------------------------------
(* Searching the list.  A pattern is a glob pattern or a prefix.           *)

Gmatch(s, p) ==
  LET g[i \in 1 .. Len(s) + 1, j \in 1 .. Len(p) + 1] ==
        IF j > Len(p) THEN i > Len(s)
        ELSE IF p[j] = "*" THEN g[i, j + 1] \/ (i <= Len(s) /\ g[i + 1, j])
        ELSE i <= Len(s) /\ p[j] \in {"?", s[i]} /\ g[i + 1, j + 1]
  IN  g[1, 1]

c_hmatch(e, s) == IsPrefix(e.patbuf, s) \/ Gmatch(s, e.patbuf)

c_hsetpat(e) ==
  IF e.LastCmd \in {"F_UP_SEARCH_HIST", "F_DOWN_SEARCH_HIST"} THEN e
  ELSE [e EXCEPT !.patbuf = Text(e.InputBuf, 0, e.Cursor)]

(* What a search compares, and the lines it passes on its way are kept.    *)
Compared(e, h) == IF e.HistLit THEN Kept(h) ELSE sprlex(h.words)
Passed(e, ks) ==
  [e EXCEPT !.Hist = [k \in DOMAIN @ |->
     IF k \in ks THEN [@[k] EXCEPT !.histline = Kept(e.Hist[k])] ELSE @[k]]]
Hits(e, ks) == {k \in ks : Compared(e, e.Hist[k]) # Line(e) /\ c_hmatch(e, Compared(e, e.Hist[k]))}

e_up_search_hist(e) ==
  LET t == [Terminated(e) EXCEPT !.ActionFlag = {}, !.UndoAction = {}]
      s == IF e.Hist_num = 0 THEN Remembered(t) ELSE t
      p == c_hsetpat(s)
      older == e.Hist_num + 1 .. Len(e.Hist)
      hits == Hits(p, older)
  IN  IF e.Hist = << >> THEN Rc(s, "ERROR")
      ELSE IF hits = {} THEN Rc(Passed(p, older), "ERROR")
      ELSE GetHistLine([Passed(p, e.Hist_num + 1 .. Min(hits)) EXCEPT !.Hist_num = Min(hits)])

(* The newest line that matches, else the line that was being typed.       *)
e_down_search_hist(e) ==
  LET t == [Terminated(e) EXCEPT !.ActionFlag = {}, !.UndoAction = {}]
      p == c_hsetpat(t)
      newer == 1 .. Min({e.Hist_num - 1, Len(e.Hist)})
      hits == Hits(p, newer)
      q == Passed(p, newer)
  IN  IF e.Hist_num = 0 \/ e.Hist = << >> THEN Rc(t, "ERROR")
      ELSE IF hits = {} /\ ~c_hmatch(p, e.HistBuf) THEN Rc(q, "ERROR")
      ELSE GetHistLine([q EXCEPT !.Hist_num = IF hits = {} THEN 0 ELSE Max(hits)])

(* vi's / and ?, with the pattern typed up to its end: an empty one stands *)
(* for the last, wild at both ends; ESC runs the line that was found.      *)
Searched(g, esc) ==
  IF g.rc = "ERROR" THEN g
  ELSE IF esc THEN Rc([g EXCEPT !.InputBuf = Copied(@, g.LastChar, <<NL, NUL>>),
                                !.LastChar = @ + 1], "NEWLINE")
  ELSE Rc(g, "REFRESH")
v_search(e, dir, typed, esc) ==
  LET pat == IF typed # << >> THEN <<"*">> \o typed \o <<"*">>
             ELSE IF e.patbuf # << >> /\ e.patbuf[1] # "*" THEN <<"*">> \o e.patbuf \o <<"*">>
             ELSE e.patbuf
      empty == [e EXCEPT !.searchdir = dir, !.LastChar = 0, !.Cursor = 0,
                         !.InputBuf = Copied(@, 0, <<NL, IF dir = "F_UP_SEARCH_HIST" THEN "?" ELSE "/">> \o typed)]
      f == [empty EXCEPT !.patbuf = pat, !.LastCmd = dir]
  IN  IF pat = << >> THEN Rc([empty EXCEPT !.InputBuf = Copied(@, 0, <<NUL>>)], "ERROR")
      ELSE Searched(IF dir = "F_UP_SEARCH_HIST" THEN e_up_search_hist(f) ELSE e_down_search_hist(f), esc)

v_repeat_srch(e, dir) ==
  LET f == [e EXCEPT !.LastCmd = dir, !.LastChar = 0]
  IN  IF dir = "F_UP_SEARCH_HIST" THEN e_up_search_hist(f) ELSE e_down_search_hist(f)

v_rsrch_fwd(e) == IF e.patbuf = << >> THEN Rc(e, "ERROR") ELSE v_repeat_srch(e, e.searchdir)
v_rsrch_back(e) ==
  IF e.patbuf = << >> THEN Rc(e, "ERROR")
  ELSE v_repeat_srch(e, IF e.searchdir = "F_UP_SEARCH_HIST" THEN "F_DOWN_SEARCH_HIST"
                        ELSE "F_UP_SEARCH_HIST")

-----------------------------------------------------------------------------
(* History references typed in the line.  The alphabet has no : - $ ^ and  *)
(* no backslash: a reference is !!, !*, !n or !name, and * may follow !!.  *)

HistNumber(e, k) == Len(e.Hist) - k + 1
NumberOf(s) == FoldLeft(LAMBDA n, d : 10 * n + (IF d = "1" THEN 1 ELSE 2), 0, s)

(* The event that a reference means, and its last character.               *)
Designated(e, p) ==
  LET b == e.InputBuf
      last == Min({q \in p + 1 .. e.Cursor - 1 : At(b, q) = " "} \cup {Max({p + 1, e.Cursor})}) - 1
      s == Text(b, p + 1, last + 1)
      hits == {k \in DOMAIN e.Hist :
                 IF \A i \in DOMAIN s : s[i] \in Digits THEN HistNumber(e, k) = NumberOf(s)
                 ELSE IsPrefix(s, e.Hist[k].words[1])}
  IN  IF At(b, p + 1) \in {"!", "*"} THEN <<1, p + 1>>
      ELSE <<IF hits = {} THEN 0 ELSE Min(hits), last>>

(* The text op..q gives way to buf unless the line gets too long.          *)
Replaced(e, op, q, buf, grow) ==
  IF e.LastChar + grow >= InputLim THEN [line |-> e, p |-> op + 1]
  ELSE [line |-> [e EXCEPT !.LastChar = @ + grow, !.Cursor = @ + grow,
                           !.InputBuf = Copied(@, op, buf \o Text(@, q + 1, e.LastChar) \o <<NUL>>)],
        p |-> op + Len(buf)]
WithWords(e, op, q, buf) == Replaced(e, op, q, buf, Len(buf) - (q + 1 - op))
WithEvent(e, op, d) ==
  LET args == At(e.InputBuf, op + 1) = "*"
      more == ~args /\ At(e.InputBuf, d[2] + 1) = "*"
  IN  IF e.Hist = << >> \/ d[1] = 0 THEN [line |-> e, p |-> op + 1]
      ELSE WithWords(e, op, IF more THEN d[2] + 1 ELSE d[2],
                     expand_lex(e.Hist[d[1]].words, IF args \/ more THEN 1 ELSE 0, INBUFSIZE))
c_expand(e, op) == WithEvent(e, op, Designated(e, op))

ExpandNext(r) ==
  LET ex == {q \in r.p .. r.line.Cursor - 1 : At(r.line.InputBuf, q) = "!"}
  IN  IF ex = {} THEN r ELSE c_expand(r.line, Min(ex))

(* From the word of p on to the cursor, at most INBUFSIZE references.      *)
c_excl(e, p) ==
  LET b == e.InputBuf
      apart == At(b, p + 1) = " " /\ At(b, p - 1) = " "
      from == IF apart THEN p ELSE Max({0} \cup {q \in 0 .. p : At(b, q) = " "})
  IN  Iterate(INBUFSIZE, ExpandNext, [line |-> e, p |-> from]).line

c_substitute(e) ==
  LET p == Max({0} \cup {q \in 0 .. e.Cursor - 1 : At(e.InputBuf, q) \in {" ", NUL, "!"}})
  IN  IF At(e.InputBuf, p) = "!" /\ e.Cursor > 0 THEN c_excl(e, p) ELSE e

ExpandHistory(e) == c_substitute(Terminated(e))
e_expand_history(e) == Rc(ExpandHistory(e), "NORM")

-----------------------------------------------------------------------------
(* Words of the list put into the line.                                    *)

e_last_item(e) ==
  LET words == e.Hist[1].words
      n == Min({e.Argument, Len(words)})
      f == InsertStr(e, expand_lex(words, Len(words) - n, Len(words)))
  IN  IF e.Argument <= 0 \/ e.Hist = << >> \/ f.rc = -1 THEN Rc(e, "ERROR")
      ELSE Rc(f, "REFRESH")

(* The words before the one at the cursor, last first, then those of every *)
(* line of the list: hist and word say where each is.                      *)
WordsBack(b, high) ==
  LET starts == SetToSortSeq(WordStarts(b, 0, high, shwordsep), LAMBDA x, y : x > y)
  IN  [k \in DOMAIN starts |->
         Text(b, starts[k], c_endword([InputBuf |-> b], starts[k] - 1, high, 1, shwordsep) + 1)]
Buffer(s) == [i \in Offsets |-> IF i < Len(s) THEN s[i + 1] ELSE NUL]
Candidates(e, start) ==
  LET Source(k) == IF k = 0 THEN WordsBack(e.InputBuf, start)
                   ELSE LET s == expand_lex(e.Hist[k].words, 0, INBUFSIZE)
                        IN  WordsBack(Buffer(s), Len(s))
  IN  FoldLeftDomain(LAMBDA all, k : all \o [w \in DOMAIN Source(k - 1) |->
          [hist |-> k - 1, word |-> w, text |-> Source(k - 1)[w]]],
        << >>, [k \in 1 .. Len(e.Hist) + 1 |-> k])

(* The word before the cursor gives way to what was found, if there is room. *)
Expanded(e, start, new) ==
  LET f == [e EXCEPT !.dabbrev.hist = new.hist, !.dabbrev.word = new.word]
      done == Typed(c_insert(DeleteBack(f, e.Cursor - start), Len(new.text)), new.text)
  IN  IF e.LastChar + Len(new.text) - (e.Cursor - start) >= InputLim THEN Rc(f, "ERROR")
      ELSE Rc([done EXCEPT !.dabbrev.cursor = done.Cursor], "REFRESH")

(* A second call goes on from the last match when nothing moved since.     *)
e_dabbrev_expand(e) ==
  LET start == c_preword(e.InputBuf, e.Cursor, 0, 1, shwordsep)
      word == Text(e.InputBuf, start, e.Cursor)
      again == /\ e.Argument = 1 /\ e.dabbrev.event = Len(e.Hist) /\ e.dabbrev.start = start
               /\ e.dabbrev.cursor = e.Cursor /\ e.patbuf # << >> /\ IsPrefix(e.patbuf, word)
      pat == IF again THEN e.patbuf ELSE word
      all == Candidates(e, start)
      After(c) == ~again \/ c.hist > e.dabbrev.hist
                  \/ (c.hist = e.dabbrev.hist /\ c.word > e.dabbrev.word)
      Hit(c) == /\ After(c) /\ Len(c.text) > Len(pat) /\ IsPrefix(pat, c.text)
                /\ e.Argument > 1 \/ c.text # word
      hits == SelectSeq(all, Hit)
      at == [e.dabbrev EXCEPT !.event = Len(e.Hist), !.start = start]
  IN  IF e.Argument <= 0 \/ start = e.Cursor \/ At(e.InputBuf, start) = " " THEN Rc(e, "ERROR")
      ELSE IF Len(hits) < e.Argument
           THEN Rc([e EXCEPT !.patbuf = pat,
                             !.dabbrev = [at EXCEPT !.hist = Len(e.Hist) + 1, !.word = 0]], "ERROR")
      ELSE Expanded([e EXCEPT !.patbuf = pat, !.dabbrev = at], start, hits[e.Argument])

-----------------------------------------------------------------------------
(* Prediction: ghost text after the line, drawn only in colour.            *)

(* The one name of $PATH that goes on from the word at the command's place.*)
predict_cmd(e) ==
  LET b == e.InputBuf
      wp == Max({0} \cup {q \in 1 .. e.LastChar : At(b, q - 1) \in {" ", ";"}})
      word == Text(b, wp, e.LastChar)
      before == {q \in 0 .. wp - 1 : At(b, q) # " "}
      fits == {c \in Commands : IsStrictPrefix(word, c)}
  IN  IF word = << >> \/ "/" \in {word[i] : i \in DOMAIN word} \/ Cardinality(fits) # 1
         \/ (before # {} /\ At(b, Max(before)) # ";") THEN << >>
      ELSE LET c == CHOOSE c \in fits : TRUE IN SubSeq(c, Len(word) + 1, Len(c))

predict_from_history(e) ==
  LET line == Line(e)
      fits == {k \in DOMAIN e.Hist : IsStrictPrefix(line, Kept(e.Hist[k]))}
      looked == IF fits = {} THEN DOMAIN e.Hist ELSE 1 .. Min(fits)
      ghost == IF fits # {}
               THEN LET h == Kept(e.Hist[Min(fits)]) IN SubSeq(h, Len(line) + 1, Len(h))
               ELSE predict_cmd(e)
  IN  IF ~e.predict \/ ~e.T_CanColor \/ e.Cursor # e.LastChar \/ e.LastChar = 0
      THEN [e EXCEPT !.GhostBuf = << >>]
      ELSE [Passed(e, looked) EXCEPT !.GhostBuf = ghost]

-----------------------------------------------------------------------------
(* Changes to the kept line that come from the shell: a command typed is   *)
(* entered as the newest event.                                            *)
Words(s) ==
  LET starts == SetToSortSeq({i \in DOMAIN s : s[i] # " " /\ (i = 1 \/ s[i - 1] = " ")}, <)
      End(i) == Min({j \in i .. Len(s) : s[j] = " "} \cup {Len(s) + 1}) - 1
  IN  [k \in DOMAIN starts |-> SubSeq(s, starts[k], End(starts[k]))]
=============================================================================
