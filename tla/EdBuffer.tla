------------------------------ MODULE EdBuffer ------------------------------
(***************************************************************************)
(* The line buffer of the editor (ed.chared.c, ed.h): InputBuf with its    *)
(* pointers, the kill ring and what vi's undo remembers.  A pointer into   *)
(* InputBuf is an offset, a null pointer is NULL.  InputBuf keeps the      *)
(* characters behind LastChar, as the C array does: several commands read  *)
(* them.  Every routine is an operator from editor records to editor       *)
(* records; rc is the value that it returns.                               *)
(***************************************************************************)
EXTENDS Integers, Sequences, FiniteSets, FiniteSetsExt

CONSTANT
  INBUFSIZE    \* length of InputBuf; InputLim is two below it

NULL == -1
NUL == "NUL"
NL == "NL"
Lower == {"a", "b"}
Upper == {"A", "B"}
Digits == {"1", "2"}
InputLim == INBUFSIZE - 2
Offsets == 0 .. INBUFSIZE - 1

BufferAssumption == INBUFSIZE \in Nat /\ INBUFSIZE > 4

Isspace(c) == c = " "
(* wordchars is "*?_-.[]~=", and "_" in vi mode; Strchr() finds the NUL.   *)
isword(c) == c \in Lower \cup Upper \cup Digits \cup {".", "?", "*", NUL}
viword(c) == c \in Lower \cup Upper \cup Digits \cup {NUL}
Toupper(c) == CASE c = "a" -> "A" [] c = "b" -> "B" [] OTHER -> c
Tolower(c) == CASE c = "A" -> "a" [] c = "B" -> "b" [] OTHER -> c
c_to_class(c) == IF Isspace(c) THEN "WHITE" ELSE IF viword(c) THEN "WORD" ELSE "OTHER"

At(b, i) == IF i \in Offsets THEN b[i] ELSE NUL
Text(b, lo, hi) == [k \in 1 .. (IF hi > lo THEN hi - lo ELSE 0) |-> At(b, lo + k - 1)]
Line(e) == Text(e.InputBuf, 0, e.LastChar)

(* memmove() of the characters lo..hi by d, and a copy of a string to at.  *)
Moved(b, lo, hi, d) ==
  [j \in Offsets |-> IF j - d \in lo .. hi THEN At(b, j - d) ELSE b[j]]
Copied(b, at, s) ==
  [j \in Offsets |-> IF j - at + 1 \in DOMAIN s THEN s[j - at + 1] ELSE b[j]]
UpToNul(b) == Text(b, 0, Min({i \in Offsets : b[i] = NUL} \cup {INBUFSIZE}))

Rc(e, rc) == [e EXCEPT !.rc = rc]
Iterate(n, f(_), x) ==
  LET g[k \in 0 .. n] == IF k = 0 THEN x ELSE f(g[k - 1]) IN g[n]

-----------------------------------------------------------------------------
(* Opening and closing space.                                              *)

c_insert(e, num) ==
  IF e.LastChar + num >= InputLim THEN e
  ELSE [e EXCEPT
    !.InputBuf = IF e.Cursor < e.LastChar THEN Moved(@, e.Cursor, e.LastChar, num) ELSE @,
    !.Mark = IF e.Cursor < e.LastChar /\ @ > e.Cursor THEN @ + num ELSE @,
    !.LastChar = @ + num]

MarkAfterDelete(mark, cursor, num) ==
  IF mark > cursor /\ mark <= cursor + num THEN cursor
  ELSE IF mark > cursor THEN mark - num ELSE mark

(* Delete num characters from `from' on; vi mode keeps all that is moved.  *)
Deleted(e, from, num) ==
  [e EXCEPT
    !.InputBuf = Moved(@, from + num, e.LastChar + (IF e.VImode THEN num ELSE 0), -num),
    !.UndoBuf = IF e.VImode THEN Copied(@, 0, Text(e.InputBuf, from, e.LastChar + 1)) ELSE @,
    !.UndoAction = IF e.VImode THEN {"INSERT"} ELSE @,
    !.UndoSize = IF e.VImode THEN num ELSE @,
    !.UndoPtr = IF e.VImode THEN from ELSE @,
    !.LastChar = @ - num,
    !.Cursor = from,
    !.Mark = MarkAfterDelete(@, from, num)]

c_delafter(e, n) ==
  LET num == IF n > e.LastChar - e.Cursor THEN e.LastChar - e.Cursor ELSE n
  IN  IF num > 0 THEN Deleted(e, e.Cursor, num) ELSE e

c_delbefore(e, n) ==
  LET num == IF n > e.Cursor THEN e.Cursor ELSE n
  IN  IF num > 0 THEN Deleted(e, e.Cursor - num, num) ELSE e

DeleteBack(e, n) == IF n > 0 /\ e.Cursor >= n THEN c_delbefore(e, n) ELSE e

(* Characters written over the line from the cursor, which moves on.       *)
Typed(e, s) ==
  [e EXCEPT !.InputBuf = Copied(@, e.Cursor, s), !.Cursor = @ + Len(s)]

InsertStr(e, s) ==
  IF Len(s) = 0 \/ e.LastChar + Len(s) >= InputLim THEN Rc(e, -1)
  ELSE Rc(Typed(c_insert(e, Len(s)), s), 0)

-----------------------------------------------------------------------------
(* Words.  Skip(b, p, high, T) and SkipBack(b, p, low, T) step over the    *)
(* characters of which T holds.                                            *)

Skip(b, p, high, T(_)) ==
  IF p >= high THEN p ELSE Min({high} \cup {q \in p .. high - 1 : ~T(At(b, q))})
SkipBack(b, p, low, T(_)) ==
  IF p < low THEN p ELSE Max({low - 1} \cup {q \in low .. p : ~T(At(b, q))})

c_prev_word(e, p, low, n) ==
  LET b == e.InputBuf
      Not(c) == ~isword(c)
      Emacs(q) == SkipBack(b, SkipBack(b, q, low, Not), low, isword)
      Class(q) == SkipBack(b, q, low, LAMBDA c : c_to_class(c) = c_to_class(At(b, q)))
      Vi(q) == IF q < low THEN q
               ELSE IF Isspace(At(b, q)) THEN Class(Class(q)) ELSE Class(q)
  IN  IF e.VImode THEN Iterate(n, Vi, p - 1) + 1
      ELSE Max({low, Iterate(n, Emacs, p - 1) + 1})

c_next_word(e, p, high, n) ==
  LET b == e.InputBuf
      Not(c) == ~isword(c)
      Emacs(q) == Skip(b, Skip(b, q, high, Not), high, isword)
      Class(q) == Skip(b, q, high, LAMBDA c : c_to_class(c) = c_to_class(At(b, q)))
      Vi(q) == IF q >= high THEN q
               ELSE IF Isspace(At(b, q)) THEN Class(q) ELSE Skip(b, Class(q), high, Isspace)
  IN  IF e.VImode THEN Iterate(n, Vi, p) - 1
      ELSE Min({high, Iterate(n, Emacs, p)})

c_nexword(e, p, high, n) ==
  LET Not(c) == ~Isspace(c)
      Word(q) == Skip(e.InputBuf, Skip(e.InputBuf, q, high, Not), high, Isspace)
  IN  Min({high, Iterate(n, Word, p)})

c_eword(e, p, high, n) ==
  LET b == e.InputBuf
      Class(q) == Skip(b, q, high, LAMBDA c : c_to_class(c) = c_to_class(At(b, q)))
      Word(q) == IF q >= high THEN q
                 ELSE IF Isspace(At(b, q)) THEN Class(Class(q)) ELSE Class(q)
  IN  Iterate(n, Word, p + 1) - 1

(* Words between the characters of delim; quotes and backslashes are not   *)
(* in the alphabet.                                                        *)
c_endword(e, p, high, n, delim) ==
  LET b == e.InputBuf
      Delim(c) == c \in delim
      Not(c) == c \notin delim
      Word(q) == Skip(b, Skip(b, q, high, Delim), high, Not)
  IN  Iterate(n, Word, p + 1) - 1

WordStarts(b, low, p, delim) ==
  {q \in low .. p - 1 : At(b, q) \notin delim /\ (q = low \/ At(b, q - 1) \in delim)}

c_preword(b, p, low, n, delim) ==
  LET Word(q) == IF WordStarts(b, low, q, delim) = {} THEN q
                 ELSE Max(WordStarts(b, low, q, delim))
  IN  Max({low, Iterate(n, Word, p)})

shwspace == {" ", NUL}
shwordsep == {" ", NUL, ";"}

-----------------------------------------------------------------------------
(* The kill ring.                                                          *)

RingAfter(e, j) == (j + 1) % e.KillRingLen
RingBack(e, j, i) == (j - i + e.KillRingLen) % e.KillRingLen

(* killdup=erase: the entry i places back moves up to the newest place.    *)
MovedUp(e, yank, i) ==
  [j \in DOMAIN e.KillRing |->
     IF j = yank THEN e.KillRing[RingBack(e, yank, i)]
     ELSE IF \E k \in 1 .. i : j = RingBack(e, yank, k) THEN e.KillRing[RingAfter(e, j)]
     ELSE e.KillRing[j]]

Pushed(e, s) ==
  [e EXCEPT
    !.YankPos = e.KillPos,
    !.KillRingLen = IF @ < e.KillRingMax THEN @ + 1 ELSE @,
    !.KillPos = (@ + 1) % e.KillRingMax,
    !.KillRing = [@ EXCEPT ![e.KillPos] = s]]

c_push_kill(e, start, end) ==
  LET s == Text(e.InputBuf, start, end)
      yank == (e.KillPos - 1 + e.KillRingLen) % e.KillRingLen
      f == [e EXCEPT !.YankPos = yank]
      Same(i) == e.KillRing[RingBack(e, yank, i)] = s
      back == {i \in 0 .. e.KillRingLen - 1 : Same(i)}
  IN  IF e.KillRingLen = 0 \/ e.killdup = "" THEN Pushed(e, s)
      ELSE CASE e.killdup = "erase" /\ back # {} ->
                  [f EXCEPT !.KillRing = MovedUp(e, yank, Min(back))]
             [] e.killdup = "all" /\ back # {} -> f
             [] e.killdup = "prev" /\ 0 \in back -> f
             [] OTHER -> Pushed(f, s)

=============================================================================
