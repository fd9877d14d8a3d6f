----------------------------- MODULE EdCommands -----------------------------
(***************************************************************************)
(* The commands that keys are bound to (ed.chared.c), one operator each:   *)
(* they take the editor record, some also the character that was typed,    *)
(* and leave their CCRETVAL in rc.  What only redraws is left out.         *)
(***************************************************************************)
EXTENDS EdHistory

c_alternativ_key_map(e, state) == [e EXCEPT !.AltKeyMap = state]

c_save_inputbuf(e) ==
  [e EXCEPT !.SavedBuf = UpToNul(e.InputBuf), !.LastSaved = e.LastChar,
            !.CursSaved = e.Cursor, !.HistSaved = e.Hist_num, !.RestoreSaved = TRUE]

(* The end of a delete that waited for a motion, with its quirk: where the *)
(* motion did not move, one character goes.                                *)
c_delfini(e) ==
  LET m == IF "INSERT" \in e.ActionFlag THEN c_alternativ_key_map(e, 0) ELSE e
      n == [m EXCEPT !.ActionFlag = {}]
      f == [n EXCEPT !.UndoAction = {"INSERT"}]
      size == IF e.Cursor > e.ActionPos THEN e.Cursor - e.ActionPos
              ELSE IF e.Cursor < e.ActionPos THEN e.ActionPos - e.Cursor ELSE 1
      g == IF e.Cursor > e.ActionPos THEN c_delbefore(f, size) ELSE c_delafter(f, size)
  IN  IF e.ActionPos = NULL THEN n ELSE [g EXCEPT !.UndoPtr = g.Cursor, !.UndoSize = size]

(* A motion to p, which ends a delete that waits for one: vi's motions ask *)
(* for the delete only, those of both modes for vi mode too.               *)
ViMotion(e, p) ==
  LET f == [e EXCEPT !.Cursor = p]
  IN  IF "DELETE" \in e.ActionFlag THEN Rc(c_delfini(f), "REFRESH") ELSE Rc(f, "NORM")
Motion(e, p) == IF e.VImode THEN ViMotion(e, p) ELSE Rc([e EXCEPT !.Cursor = p], "NORM")

-----------------------------------------------------------------------------
(* Inserting.                                                              *)

v_cmd_mode(e) ==
  [c_alternativ_key_map(e, 1) EXCEPT
    !.InsertPos = NULL, !.ActionFlag = {}, !.ActionPos = NULL, !.DoingArg = FALSE,
    !.UndoSize = IF e.UndoPtr > e.Cursor THEN e.UndoPtr - e.Cursor ELSE e.Cursor - e.UndoPtr,
    !.inputmode = "INSERT", !.rc = "NORM"]

(* In replace mode the characters to be written over are kept for undo.    *)
Overwritten(e, n) ==
  IF e.inputmode = "INSERT" THEN e
  ELSE c_delafter([e EXCEPT !.UndoBuf = Copied(@, e.UndoSize, Append(Text(e.InputBuf, e.Cursor, e.Cursor + n), NUL)),
                            !.UndoSize = @ + n], n)

e_insert(e, c) ==
  LET n == e.Argument
      f == Typed(c_insert(Overwritten(e, n), n), [k \in 1 .. n |-> c])
      g == predict_from_history([f EXCEPT !.DoingArg = IF n = 1 THEN FALSE ELSE @,
                                          !.Argument = IF n = 1 THEN @ ELSE -1])
  IN  IF c = NUL \/ e.LastChar + n >= InputLim THEN Rc(e, "ERROR")
      ELSE IF e.inputmode = "REPLACE_1" THEN v_cmd_mode(g) ELSE Rc(g, "NORM")

DigitOf(c) == NumberOf(<<c>>)
Longer(e, c) == IF e.Argument > 1000000 THEN Rc(e, "ERROR")
                ELSE Rc([e EXCEPT !.Argument = @ * 10 + DigitOf(c)], "PRESERVE_ARG")

e_digit(e, c) ==
  IF c \notin Digits THEN Rc(e, "ERROR")
  ELSE IF e.DoingArg
  THEN IF e.LastCmd = "F_ARGFOUR" THEN Rc([e EXCEPT !.Argument = DigitOf(c)], "PRESERVE_ARG")
       ELSE Longer(e, c)
  ELSE IF e.LastChar + 1 >= InputLim THEN Rc(e, "ERROR")
  ELSE Rc(predict_from_history(Typed(c_insert(Overwritten(e, 1), 1), <<c>>)), "NORM")

e_argdigit(e, c) ==
  IF c \notin Digits THEN Rc(e, "ERROR")
  ELSE IF e.DoingArg THEN Longer(e, c)
  ELSE Rc([e EXCEPT !.Argument = DigitOf(c), !.DoingArg = TRUE], "PRESERVE_ARG")

e_argfour(e) ==
  IF e.Argument > 1000000 THEN Rc(e, "ERROR")
  ELSE Rc([e EXCEPT !.DoingArg = TRUE, !.Argument = @ * 4], "PRESERVE_ARG")

v_zero(e) ==
  IF e.DoingArg
  THEN IF e.Argument > 1000000 THEN Rc(e, "ERROR")
       ELSE Rc([e EXCEPT !.Argument = @ * 10], "PRESERVE_ARG")
  ELSE ViMotion(e, 0)

e_quote(e, c) == e_insert(e, c)
e_magic_space(e) == e_insert(ExpandHistory(e), " ")
e_metanext(e) == Rc([e EXCEPT !.MetaNext = TRUE], "PRESERVE_ARG")
e_insovr(e) == Rc([e EXCEPT !.inputmode = IF @ = "INSERT" THEN "REPLACE" ELSE "INSERT"], "NORM")

e_predict_accept(e) ==
  LET n == Len(e.GhostBuf)
  IN  IF n > 0 /\ e.Cursor = e.LastChar /\ e.T_CanColor
      THEN IF e.LastChar + n >= InputLim THEN Rc(e, "NORM")
           ELSE Rc([e EXCEPT !.InputBuf = Copied(@, e.LastChar, Append(e.GhostBuf, NUL)),
                             !.LastChar = @ + n, !.Cursor = e.LastChar + n,
                             !.GhostBuf = << >>], "NORM")
      ELSE LET f == [e EXCEPT !.GhostBuf = << >>]
           IN  IF f.Cursor < f.LastChar
               THEN Motion(f, Min({f.Cursor + f.Argument, f.LastChar})) ELSE Rc(f, "ERROR")

(* Copies the word before the cursor, over what follows when no place is   *)
(* left to open.                                                           *)
e_copyprev(e) ==
  LET cp == c_prev_word(e, e.Cursor, 0, e.Argument)
      f == c_insert(e, e.Cursor - cp)
      end == Min({e.Cursor + (e.Cursor - cp), f.LastChar})
  IN  IF e.Cursor = 0 THEN Rc(e, "ERROR")
      ELSE Rc([f EXCEPT !.InputBuf = Copied(@, e.Cursor, Text(e.InputBuf, cp, cp + end - e.Cursor)),
                        !.Cursor = end], "REFRESH")

-----------------------------------------------------------------------------
(* Ending the line.                                                        *)

WithNewline(e) == [e EXCEPT !.InputBuf = Copied(@, e.LastChar, <<NL, NUL>>), !.LastChar = @ + 1]

e_newline(e) ==
  Rc([WithNewline(e) EXCEPT !.MarkIsSet = FALSE, !.InsertPos = IF e.VImode THEN 0 ELSE @], "NEWLINE")
e_newline_hold(e) == Rc([WithNewline(c_save_inputbuf(e)) EXCEPT !.HistSaved = 0], "NEWLINE")
e_newline_down_hist(e) ==
  Rc([WithNewline(e) EXCEPT !.HistSaved = IF e.Hist_num > 1 THEN e.Hist_num ELSE @], "NEWLINE")
e_send_eof(e) == Rc(Terminated(e), "EOF")

e_list_choices(e) == Rc(Terminated(e), "LIST_CHOICES")
e_which(e) == Rc(Terminated([c_save_inputbuf(e) EXCEPT !.Hist_num = 0]), "WHICH")

(* A stopped editor runs in the foreground with the line put aside; what   *)
(* was saved is the line itself, and so it is not to be restored.          *)
e_run_fg_editor(e, stopped) ==
  IF ~stopped THEN Rc(e, "NORM")
  ELSE Rc([c_save_inputbuf(e) EXCEPT !.Hist_num = 0, !.RestoreSaved = FALSE, !.HistSaved = 0], "NORM")

e_expand(e) ==
  LET p == Min({q \in Offsets : ~Isspace(At(e.InputBuf, q))} \cup {INBUFSIZE})
  IN  IF p = e.LastChar THEN Rc(e, "ERROR") ELSE [e_newline(e) EXCEPT !.Expand = TRUE]

-----------------------------------------------------------------------------
(* Deleting.                                                               *)

v_delprev(e) ==
  IF e.InsertPos # NULL /\ e.Argument <= e.Cursor - e.InsertPos
  THEN Rc(c_delbefore(e, e.Argument), "REFRESH") ELSE Rc(e, "ERROR")
e_delprev(e) ==
  IF e.Cursor > 0 THEN Rc(c_delbefore(e, e.Argument), "REFRESH") ELSE Rc(e, "ERROR")
e_delwordprev(e) ==
  LET cp == c_prev_word(e, e.Cursor, 0, e.Argument)
  IN  IF e.Cursor = 0 THEN Rc(e, "ERROR")
      ELSE Rc(c_delbefore(c_push_kill(e, cp, e.Cursor), e.Cursor - cp), "REFRESH")

InBounds(e) == [e EXCEPT !.Cursor = IF @ > e.LastChar THEN e.LastChar ELSE @]
DelNext(e) == Rc(InBounds(c_delafter(e, e.Argument)), "REFRESH")
AtEnd(e) == e.Cursor = e.LastChar
ViBack(e) == IF e.Cursor = 0 THEN Rc(e, "ERROR") ELSE DelNext([e EXCEPT !.Cursor = @ - 1])

e_delnext(e) ==
  IF ~AtEnd(e) THEN DelNext(e) ELSE IF e.VImode THEN ViBack(e) ELSE Rc(e, "ERROR")
e_delnext_eof(e) ==
  IF ~AtEnd(e) THEN DelNext(e) ELSE IF e.VImode THEN ViBack(e)
  ELSE Rc(e, IF e.Cursor = 0 THEN "EOF" ELSE "ERROR")
e_delnext_list(e) == IF AtEnd(e) THEN e_list_choices(e) ELSE DelNext(e)
e_list_eof(e) == IF AtEnd(e) /\ e.Cursor = 0 THEN Rc(e, "EOF") ELSE e_list_choices(e)
e_delnext_list_eof(e) == IF AtEnd(e) THEN e_list_eof(e) ELSE DelNext(e)

e_delwordnext(e) ==
  LET cp == c_next_word(e, e.Cursor, e.LastChar, e.Argument)
  IN  IF AtEnd(e) THEN Rc(e, "ERROR")
      ELSE Rc(InBounds(c_delafter(c_push_kill(e, e.Cursor, cp), cp - e.Cursor)), "REFRESH")

(* The line ends at the cursor, with no NUL put there.                     *)
e_killend(e) ==
  Rc([c_push_kill(e, e.Cursor, e.LastChar) EXCEPT !.LastChar = e.Cursor,
        !.Mark = IF @ > e.Cursor THEN e.Cursor ELSE @, !.MarkIsSet = FALSE], "REFRESH")

e_killbeg(e) == Rc(c_delbefore(c_push_kill(e, 0, e.Cursor), e.Cursor), "REFRESH")
e_killall(e) ==
  Rc([c_push_kill(e, 0, e.LastChar) EXCEPT !.Cursor = 0, !.Mark = 0, !.LastChar = 0,
                                           !.MarkIsSet = FALSE], "REFRESH")
e_killregion(e) ==
  LET after == [c_delafter(c_push_kill(e, e.Cursor, e.Mark), e.Mark - e.Cursor) EXCEPT !.Mark = e.Cursor]
      before == c_delbefore(c_push_kill(e, e.Mark, e.Cursor), e.Cursor - e.Mark)
  IN  IF e.Mark = NULL THEN Rc(e, "ERROR")
      ELSE Rc([IF e.Mark > e.Cursor THEN after ELSE before EXCEPT !.MarkIsSet = FALSE], "REFRESH")
e_copyregion(e) ==
  IF e.Mark = NULL THEN Rc(e, "ERROR")
  ELSE Rc(c_push_kill(e, Min({e.Mark, e.Cursor}), Max({e.Mark, e.Cursor})), "NORM")

-----------------------------------------------------------------------------
(* Yanking: the mark at one end of what was put in, the cursor at the other*)

Yanked(e, back) ==
  LET s == e.KillRing[e.YankPos]
      f == c_insert(e, Len(s))
  IN  Rc([f EXCEPT !.InputBuf = Copied(@, e.Cursor, s), !.MarkIsSet = FALSE,
                   !.Mark = IF back THEN e.Cursor ELSE e.Cursor + Len(s),
                   !.Cursor = IF back THEN @ + Len(s) ELSE @], "REFRESH")

e_yank_kill(e) ==
  IF e.KillRingLen = 0 \/ e.LastChar + Len(e.KillRing[e.YankPos]) >= InputLim THEN Rc(e, "ERROR")
  ELSE Yanked(e, e.Argument = 1)

e_yank_pop(e) ==
  LET f == [e EXCEPT !.YankPos = (@ - e.Argument) % e.KillRingLen]
      back == e.Cursor > e.Mark
      size == IF back THEN e.Cursor - e.Mark ELSE e.Mark - e.Cursor
  IN  IF e.KillRingLen = 0 THEN Rc(e, "ERROR")
      ELSE IF e.LastChar + Len(f.KillRing[f.YankPos]) - size >= InputLim THEN Rc(f, "ERROR")
      ELSE Yanked(IF back THEN c_delbefore(f, size) ELSE c_delafter(f, size), back)

e_set_mark(e) == Rc([e EXCEPT !.Mark = e.Cursor, !.MarkIsSet = TRUE], "NORM")
e_exchange_mark(e) == Rc([e EXCEPT !.Cursor = e.Mark, !.Mark = e.Cursor], "NORM")

-----------------------------------------------------------------------------
(* Moving.                                                                 *)

e_toend(e) == Motion(e, e.LastChar)
e_tobeg(e) ==
  IF ~e.VImode THEN Motion(e, 0)
  ELSE Motion(e, Min({q \in Offsets : ~Isspace(At(e.InputBuf, q))} \cup {INBUFSIZE}))
e_charback(e) ==
  IF e.Cursor = 0 THEN Rc(e, "ERROR")
  ELSE Motion(e, IF e.Argument > e.Cursor THEN 0 ELSE e.Cursor - e.Argument)
e_charfwd(e) ==
  IF e.Cursor >= e.LastChar THEN Rc(e, "ERROR")
  ELSE Motion(e, Min({e.Cursor + e.Argument, e.LastChar}))
e_wordback(e) ==
  IF e.Cursor = 0 THEN Rc(e, "ERROR") ELSE Motion(e, c_prev_word(e, e.Cursor, 0, e.Argument))
e_wordfwd(e) ==
  IF AtEnd(e) THEN Rc(e, "ERROR") ELSE Motion(e, c_next_word(e, e.Cursor, e.LastChar, e.Argument))
v_wordback(e) ==
  IF e.Cursor = 0 THEN Rc(e, "ERROR")
  ELSE ViMotion(e, c_preword(e.InputBuf, e.Cursor, 0, e.Argument, shwspace))
v_wordfwd(e) ==
  IF AtEnd(e) THEN Rc(e, "ERROR") ELSE Motion(e, c_nexword(e, e.Cursor, e.LastChar, e.Argument))
v_wordbegnext(e) ==
  LET p == c_next_word(e, e.Cursor, e.LastChar, e.Argument)
  IN  IF AtEnd(e) THEN Rc(e, "ERROR") ELSE Motion(e, IF p < e.LastChar THEN p + 1 ELSE p)

(* An inclusive motion: a delete takes the character it ends at too.       *)
Inclusive(e, p) == ViMotion(e, IF "DELETE" \in e.ActionFlag THEN p + 1 ELSE p)
v_endword(e) ==
  IF AtEnd(e) THEN Rc(e, "ERROR")
  ELSE Inclusive(e, c_endword(e, e.Cursor, e.LastChar, e.Argument, shwspace))
v_eword(e) ==
  IF AtEnd(e) THEN Rc(e, "ERROR") ELSE Inclusive(e, c_eword(e, e.Cursor, e.LastChar, e.Argument))

v_csearch_back(e, ch, tflag) ==
  LET b == e.InputBuf
      Back(p) == LET q == IF At(b, p) = ch THEN p - 1 ELSE p
                     hits == {x \in 0 .. q : At(b, x) = ch}
                 IN  IF q <= 0 THEN q ELSE Max({0} \cup hits)
      cp == Iterate(e.Argument, Back, e.Cursor)
  IN  IF cp < 0 \/ (cp = 0 /\ At(b, cp) # ch) THEN Rc(e, "ERROR")
      ELSE Inclusive(e, IF At(b, cp) = ch /\ tflag THEN cp + 1 ELSE cp)

v_csearch_fwd(e, ch, tflag) ==
  LET b == e.InputBuf
      Fwd(p) == LET q == IF At(b, p) = ch THEN p + 1 ELSE p
                IN  IF q >= e.LastChar THEN q
                    ELSE Min({e.LastChar} \cup {x \in q .. e.LastChar - 1 : At(b, x) = ch})
      cp == Iterate(e.Argument, Fwd, e.Cursor)
  IN  IF cp >= e.LastChar THEN Rc(e, "ERROR")
      ELSE Inclusive(e, IF At(b, cp) = ch /\ tflag THEN cp - 1 ELSE cp)

Searching(e, dir, c) == [e EXCEPT !.srch_dir = dir, !.srch_char = c]
v_char_fwd(e, c) == v_csearch_fwd(Searching(e, "FWD", c), c, FALSE)
v_char_back(e, c) == v_csearch_back(Searching(e, "BACK", c), c, FALSE)
v_charto_fwd(e, c) == v_csearch_fwd(e, c, TRUE)
v_charto_back(e, c) == v_csearch_back(e, c, TRUE)
v_rchar_fwd(e) ==
  IF e.srch_char = NUL THEN Rc(e, "ERROR")
  ELSE IF e.srch_dir = "FWD" THEN v_csearch_fwd(e, e.srch_char, FALSE)
  ELSE v_csearch_back(e, e.srch_char, FALSE)
v_rchar_back(e) ==
  IF e.srch_char = NUL THEN Rc(e, "ERROR")
  ELSE IF e.srch_dir = "BACK" THEN v_csearch_fwd(e, e.srch_char, FALSE)
  ELSE v_csearch_back(e, e.srch_char, FALSE)

-----------------------------------------------------------------------------
(* Changing characters in place.                                           *)

Swapped(e, p) ==
  [e EXCEPT !.InputBuf = Copied(@, p - 2, <<At(@, p - 1), At(@, p - 2)>>), !.Cursor = p, !.rc = "REFRESH"]
e_charswitch(e) ==
  IF e.Cursor = 0 \/ e.LastChar = 1 THEN Rc(e, "ERROR")
  ELSE Swapped(e, IF e.Cursor < e.LastChar THEN e.Cursor + 1 ELSE e.Cursor)
e_gcharswitch(e) == IF e.Cursor > 1 THEN Swapped(e, e.Cursor) ELSE Rc(e, "ERROR")

Recased(e, F(_, _)) ==
  LET end == c_next_word(e, e.Cursor, e.LastChar, e.Argument)
      s == Text(e.InputBuf, e.Cursor, end)
  IN  Rc([e EXCEPT !.InputBuf = Copied(@, e.Cursor, [k \in DOMAIN s |-> F(s, k)]),
                   !.Cursor = Min({end, e.LastChar})], "REFRESH")
e_uppercase(e) == Recased(e, LAMBDA s, k : Toupper(s[k]))
e_lowercase(e) == Recased(e, LAMBDA s, k : Tolower(s[k]))
e_capitalcase(e) ==
  Recased(e, LAMBDA s, k : IF \E i \in 1 .. k - 1 : s[i] \in Lower \cup Upper
                           THEN Tolower(s[k]) ELSE Toupper(s[k]))
v_change_case(e) ==
  LET c == At(e.InputBuf, e.Cursor)
  IN  IF AtEnd(e) THEN Rc(e, "ERROR")
      ELSE Rc(Typed(e, <<IF c \in Upper THEN Tolower(c) ELSE Toupper(c)>>), "NORM")

-----------------------------------------------------------------------------
(* vi: the deletes and changes that wait for a motion, and undo.           *)

v_action(e, c) ==
  IF e.ActionFlag = {"DELETE"}
  THEN LET f == [e EXCEPT !.ActionFlag = {}, !.ActionPos = NULL,
                          !.UndoBuf = Copied(@, 0, Line(e)), !.UndoSize = e.LastChar,
                          !.UndoAction = {"INSERT"}, !.UndoPtr = 0, !.LastChar = 0, !.Cursor = 0]
       IN  Rc(IF "INSERT" \in c THEN c_alternativ_key_map(f, 0) ELSE f, "REFRESH")
  ELSE Rc([e EXCEPT !.ActionPos = e.Cursor, !.ActionFlag = c], "PRESERVE_ARG")
v_delmeta(e) == v_action(e, {"DELETE"})
v_chgmeta(e) == v_action(e, {"DELETE", "INSERT"})

Inserting(e, p) ==
  Rc([c_alternativ_key_map(e, 0) EXCEPT !.Cursor = p, !.InsertPos = p, !.UndoPtr = p,
                                        !.UndoAction = {"DELETE"}], "NORM")
v_insbeg(e) == Inserting(e, 0)
v_insert(e) == Inserting(e, e.Cursor)
v_add(e) == Inserting(e, IF e.Cursor < e.LastChar THEN e.Cursor + 1 ELSE e.Cursor)
v_addend(e) == Inserting(e, e.LastChar)

Replacing(e, mode) ==
  Rc([c_alternativ_key_map(e, 0) EXCEPT !.inputmode = mode, !.UndoAction = {"CHANGE"},
                                        !.UndoPtr = e.Cursor, !.UndoSize = 0], "NORM")
v_replone(e) == Replacing(e, "REPLACE_1")
v_replmode(e) == Replacing(e, "REPLACE")
v_substchar(e) == Rc(c_alternativ_key_map(c_delafter(e, e.Argument), 0), "REFRESH")
v_substline(e) == c_alternativ_key_map(e_killall(e), 0)
v_chgtoend(e) == c_alternativ_key_map(e_killend(e), 0)

(* What was undone can be undone again: UndoAction turns over.             *)
UndoDelete(e) ==
  LET n == e.UndoSize
      p == e.UndoPtr
  IN  [e EXCEPT !.UndoBuf = Copied(@, 0, Text(e.InputBuf, p, p + n)),
                !.InputBuf = Moved(@, p + n, e.LastChar + n, -n),
                !.LastChar = @ - n, !.Cursor = p, !.UndoAction = {"INSERT"}]
UndoInsert(e) ==
  LET f == c_insert([e EXCEPT !.Cursor = e.UndoPtr], e.UndoSize)
  IN  [f EXCEPT !.InputBuf = Copied(@, e.UndoPtr, Text(e.UndoBuf, 0, e.UndoSize)),
                !.UndoAction = {"DELETE"}]
UndoChange(e) ==
  LET size == Max({e.UndoPtr - e.LastChar, e.UndoSize})
  IN  [e EXCEPT !.InputBuf = Copied(@, e.UndoPtr, Text(e.UndoBuf, 0, size)),
                !.UndoBuf = Copied(@, 0, Text(e.InputBuf, e.UndoPtr, e.UndoPtr + size)),
                !.Cursor = e.UndoPtr]
(* The turn of UndoAction is forgotten. *)
v_undoKeeps(e) ==
  IF e.UndoAction = {} \/ e.UndoSize = 0 THEN Rc(e, "NORM")
  ELSE [(IF "DELETE" \in e.UndoAction THEN UndoDelete(e) ELSE UndoInsert(e))
        EXCEPT !.UndoAction = e.UndoAction]

v_undo(e) ==
  IF e.UndoAction = {} THEN Rc(e, "ERROR")
  ELSE IF e.UndoSize = 0 THEN Rc(e, "NORM")
  ELSE Rc(IF "DELETE" \in e.UndoAction THEN UndoDelete(e)
          ELSE IF e.UndoAction = {"INSERT"} THEN UndoInsert(e) ELSE UndoChange(e), "REFRESH")
=============================================================================
